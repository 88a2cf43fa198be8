------------------------------- MODULE Server -------------------------------
(***************************************************************************)
(* The event loop: loop() in httpd.cc and the class Server (server.cc),    *)
(* with the timing of History (sessionhistory.cc) and Periodic (times.cc). *)
(*                                                                         *)
(* A Session is reduced to its History; what a handler returns is any      *)
(* answer Session.tla lets it give.  The kernel's epoll set is a function  *)
(* from file descriptors to what was registered.  Time, in whole seconds,  *)
(* passes in epoll_wait() and in the handlers; but the loop reads the      *)
(* clock once a round, when epoll_wait() returns.                          *)
(***************************************************************************)
EXTENDS Integers, Sequences, FiniteSets

CONSTANTS
    Fds,        \* descriptors accept(2) can return
    Lfd,        \* the listening socket
    MaxEvents,  \* events handled per epoll_wait() (20)
    Timeout,    \* of epoll_wait(), when there are clients (20 s)
    Busy,       \* the longest that the handlers of one round take
    Period,     \* between audits (20 s)
    Limit,      \* how long a session may be idle or wedged (10 s)
    Garbage,    \* values an uninitialised Entry.events may have
    MaxTime     \* bound on the clock

(* accept(2) has at most RLIMIT_NOFILE descriptors to choose from. *)
ASSUME FdAssumption == IsFiniteSet(Fds) /\ Fds \subseteq Nat /\ Lfd \in Nat \ Fds
ASSUME TimeAssumption ==
    /\ MaxEvents \in Nat \ {0} /\ Timeout \in Nat \ {0} /\ Period \in Nat \ {0}
    /\ Busy \in Nat /\ Limit \in Nat \ {0} /\ MaxTime \in Nat

VARIABLES
    v,         \* the entries, numbered from 1
    epoll,     \* the epoll set: fd -> [interest, data]
    open,      \* descriptors the process has open, of Fds and Lfd
    evs,       \* events [begin(), end()): clients
    levs,      \* events [lbegin(), lend()): listeners
    ts,        \* the loop's clock, as of epoll_wait()
    deadline,  \* of the Periodic called audit
    pc         \* "wait", "accept", "dispatch" or "audit"

vars == <<v, epoll, open, evs, levs, ts, deadline, pc>>

NoFd == -1
NoSession == [active |-> FALSE]
Entry(fd, session, events) == [fd |-> fd, session |-> session, events |-> events]
Empty(entry) == entry.fd = NoFd
IsClient(entry) == entry.session # NoSession
Listening(entry) == ~IsClient(entry) /\ ~Empty(entry)
HasClients == \E n \in DOMAIN v : IsClient(v[n])

-----------------------------------------------------------------------------
(***************************************************************************)
(* History.  since is te of an idle session and tb of an active one, where *)
(* the code looks at it; last is the latest of tb, tw and te.              *)
(***************************************************************************)
NewSession(t) == [active |-> FALSE, since |-> t, last |-> t]
Began(s, t) == [active |-> TRUE, since |-> t, last |-> t]
Wrote(s, t) == [s EXCEPT !.last = t]
Ended(s, t) == [active |-> FALSE, since |-> t, last |-> t]
Idle(s, t) == ~s.active /\ t - s.since > Limit
Wedged(s, t) == s.active /\ t - s.since > Limit

(* Faulty: the next audit is a whole period later than it should be. *)
NextDeadlineLate(t) == deadline + ((t - deadline) \div Period + 2) * Period

(* Periodic::check(): the first deadline, of those Period apart, not passed *)
Checked(t) == deadline < t
NextDeadline(t) == LET late == t - deadline
                   IN  deadline + ((late + Period - 1) \div Period) * Period

-----------------------------------------------------------------------------
(* Faulty: an index past the entry inserted. *)
SlotPast == Len(v) + 2

(* insert(): the first empty slot, or a new one *)
Slot == IF \E n \in DOMAIN v : Empty(v[n])
        THEN CHOOSE n \in DOMAIN v :
                 Empty(v[n]) /\ \A m \in DOMAIN v : Empty(v[m]) => n <= m
        ELSE Len(v) + 1

Insert(n, entry) == IF n > Len(v) THEN Append(v, entry) ELSE [v EXCEPT ![n] = entry]

Registered(fd, interest, n) ==
    [f \in DOMAIN epoll \cup {fd} |->
        IF f = fd THEN [interest |-> interest, data |-> n] ELSE epoll[f]]

(***************************************************************************)
(* rm(), for a set of entries: close(2) also takes fds off the epoll set.  *)
(* No constructor sets events; it is only read for a client, so its value  *)
(* is left open where a client is added, and not here.                     *)
(***************************************************************************)
Cleared == Entry(NoFd, NoSession, "in")

(* Faulty: the descriptors are forgotten, not closed. *)
RmLeaking(ns) ==
    /\ v' = [n \in DOMAIN v |-> IF n \in ns THEN Cleared ELSE v[n]]
    /\ UNCHANGED <<open, epoll>>

Rm(ns) ==
    LET fds == {v[n].fd : n \in ns} IN
    /\ v' = [n \in DOMAIN v |-> IF n \in ns THEN Cleared ELSE v[n]]
    /\ open' = open \ fds
    /\ epoll' = [f \in DOMAIN epoll \ fds |-> epoll[f]]

(* Server(), add(lfd) and the Periodic, in loop() *)
Init ==
    /\ v = <<Entry(Lfd, NoSession, "in")>>
    /\ epoll = [f \in {Lfd} |-> [interest |-> "in", data |-> 1]]
    /\ open = {Lfd}
    /\ evs = <<>> /\ levs = <<>>
    /\ ts = 0
    /\ deadline = Period
    /\ pc = "wait"

-----------------------------------------------------------------------------
(***************************************************************************)
(* Server::wait().  Some of the registered descriptors are ready, in any   *)
(* order, or none is.  The two passes over what epoll_wait returned pick   *)
(* the clients and the listeners: each in any order, then.  got is the     *)
(* descriptor an event was raised for, an auxiliary field.                 *)
(*                                                                         *)
(* None is ready when the timeout is reached, or a signal interrupts the   *)
(* call (EINTR).  From one return of it to the next, the handlers of the   *)
(* round take up to Busy: thumbnail() waits for its children.  There is no *)
(* such bound while a write() spins (WriteReturns of Session).             *)
(***************************************************************************)
Orders(S) == {s \in [1..Cardinality(S) -> S] :
                 \A i, j \in 1..Cardinality(S) : s[i] = s[j] => i = j}

Events(order, hup) ==
    [i \in DOMAIN order |-> [n |-> epoll[order[i]].data, got |-> order[i],
                             events |-> IF order[i] \in hup THEN "hup"
                                        ELSE epoll[order[i]].interest]]

Wait ==
    /\ pc = "wait"
    /\ \E t \in ts..MaxTime, S \in SUBSET DOMAIN epoll :
          /\ Cardinality(S) <= MaxEvents
          /\ HasClients => t - ts <= Busy + Timeout
          /\ ts' = t
          /\ \E hup \in SUBSET S,
                clients \in Orders({f \in S : IsClient(v[epoll[f].data])}),
                listeners \in Orders({f \in S : Listening(v[epoll[f].data])}) :
                /\ evs' = Events(clients, hup)
                /\ levs' = Events(listeners, hup)
    /\ pc' = "accept"
    /\ UNCHANGED <<v, epoll, open, deadline>>

(***************************************************************************)
(* accept(2) for each listening socket, then Server::add().  accept(2) may *)
(* fail, and so may the epoll_ctl(2), which closes the socket again.       *)
(***************************************************************************)
AcceptFails ==
    /\ pc = "accept" /\ levs # <<>>
    /\ levs' = Tail(levs)
    /\ UNCHANGED <<v, epoll, open, evs, ts, deadline, pc>>

Accept ==
    /\ pc = "accept" /\ levs # <<>>
    /\ levs' = Tail(levs)
    /\ \/ \E fd \in Fds \ open, g \in Garbage :
             /\ v' = Insert(Slot, Entry(fd, NewSession(ts), g))
             /\ epoll' = Registered(fd, "in", Slot)
             /\ open' = open \cup {fd}
       \/ /\ Fds \ open # {}
          /\ v' = Insert(Slot, Cleared)
          /\ UNCHANGED <<epoll, open>>
    /\ UNCHANGED <<evs, ts, deadline, pc>>

AllAccepted ==
    /\ pc = "accept" /\ levs = <<>>
    /\ pc' = "dispatch"
    /\ UNCHANGED <<v, epoll, open, evs, levs, ts, deadline>>

-----------------------------------------------------------------------------
(***************************************************************************)
(* One client event.  The session's handler leaves it in state s, wanting  *)
(* to be in, out or dead.                                                  *)
(***************************************************************************)
ReadAnswers(s) ==
    IF s.active THEN {[s |-> s, state |-> "out"]}
    ELSE {[s |-> s, state |-> "in"], [s |-> s, state |-> "die"],
          [s |-> Began(s, ts), state |-> "out"]}

WriteAnswers(s) ==
    IF ~s.active THEN {[s |-> s, state |-> "in"], [s |-> s, state |-> "die"]}
    ELSE LET w == Wrote(s, ts) IN
         {[s |-> w, state |-> "out"],
          [s |-> w, state |-> "die"],
          [s |-> Ended(w, ts), state |-> "in"],
          [s |-> Wrote(Began(Ended(w, ts), ts), ts), state |-> "out"]}

Answers(ev, s) ==
    CASE ev.events = "out" -> WriteAnswers(s)
      [] ev.events = "in"  -> ReadAnswers(s)
      [] OTHER             -> {[s |-> s, state |-> "die"]}

(* Server::ctl(), where the epoll_ctl(2) may fail *)
Ctl(n, a) ==
    LET entry == [v[n] EXCEPT !.session = a.s] IN
    IF a.state = entry.events
    THEN /\ v' = [v EXCEPT ![n] = entry]
         /\ UNCHANGED <<epoll, open>>
    ELSE \/ /\ v' = [v EXCEPT ![n] = [entry EXCEPT !.events = a.state]]
            /\ epoll' = Registered(entry.fd, a.state, n)
            /\ UNCHANGED open
         \/ Rm({n})

Dispatch ==
    /\ pc = "dispatch" /\ evs # <<>>
    /\ LET ev == Head(evs) IN
          \E a \in Answers(ev, v[ev.n].session) :
              IF a.state = "die" THEN Rm({ev.n}) ELSE Ctl(ev.n, a)
    /\ evs' = Tail(evs)
    /\ UNCHANGED <<levs, ts, deadline, pc>>

AllDispatched ==
    /\ pc = "dispatch" /\ evs = <<>>
    /\ pc' = "audit"
    /\ UNCHANGED <<v, epoll, open, evs, levs, ts, deadline>>

(* Server::reconsider(), if the audit is due *)
Doomed == {n \in DOMAIN v : IsClient(v[n]) /\ (Idle(v[n].session, ts)
                                               \/ Wedged(v[n].session, ts))}

Audit ==
    /\ pc = "audit"
    /\ IF Checked(ts)
       THEN /\ deadline' = NextDeadline(ts)
            /\ Rm(Doomed)
       ELSE UNCHANGED <<deadline, v, epoll, open>>
    /\ pc' = "wait"
    /\ UNCHANGED <<evs, levs, ts>>

Next == Wait \/ AcceptFails \/ Accept \/ AllAccepted \/ Dispatch
        \/ AllDispatched \/ Audit

Spec == Init /\ [][Next]_vars

-----------------------------------------------------------------------------
Sessions == [active : BOOLEAN, since : 0..MaxTime, last : 0..MaxTime]
Entries == [fd : Fds \cup {Lfd, NoFd}, session : Sessions \cup {NoSession},
            events : Garbage \cup {"in", "out"}]
ClientEvents == [n : Nat, got : Fds \cup {Lfd}, events : {"in", "out", "hup"}]

TypeOK ==
    /\ v \in Seq(Entries)
    /\ open \subseteq Fds \cup {Lfd}
    /\ epoll \in [open -> [interest : {"in", "out"}, data : 1..Len(v)]]
    /\ evs \in Seq(ClientEvents) /\ levs \in Seq(ClientEvents)
    /\ ts \in 0..MaxTime
    /\ deadline \in Nat
    /\ pc \in {"wait", "accept", "dispatch", "audit"}

(***************************************************************************)
(* No event is stale when it is handled: although accepting and handling   *)
(* earlier events inserts, removes and reuses entries, the entry it names  *)
(* still holds the client for whose socket it was raised.                  *)
(***************************************************************************)
NoStaleEvent ==
    pc \in {"accept", "dispatch"} =>
        \A i \in DOMAIN evs : /\ IsClient(v[evs[i].n])
                              /\ v[evs[i].n].fd = evs[i].got

(***************************************************************************)
(* No descriptor is leaked, closed twice or shared: those open are those   *)
(* of the entries, one each, and each one's events lead to its own entry.  *)
(* No slot is lost either: there are never more of them than there have    *)
(* been descriptors open at once.                                          *)
(***************************************************************************)
EntriesOwnFds ==
    /\ open = {v[n].fd : n \in DOMAIN v} \ {NoFd}
    /\ open = DOMAIN epoll
    /\ \A f \in open : v[epoll[f].data].fd = f
    /\ \A m, n \in DOMAIN v : v[m].fd = v[n].fd /\ ~Empty(v[m]) => m = n
    /\ Len(v) <= Cardinality(Fds \cup {Lfd})

(***************************************************************************)
(* However the audits' deadlines fall and whenever events wake the loop,   *)
(* no session is idle, or at one response, for as long as Limit, Period,   *)
(* Timeout and Busy together: the audit gets to it first.                  *)
(***************************************************************************)
Overdue(s) == ts - s.since >= Limit + Period + Busy + Timeout
NoneOverdue ==
    \A n \in DOMAIN v : IsClient(v[n]) => ~Overdue(v[n].session)

(***************************************************************************)
(* A session to be killed as wedged is one where "nothing has happened for *)
(* more than 's' seconds" (sessionhistory.cc:69): no response begun, and   *)
(* nothing written.                                                        *)
(***************************************************************************)
WedgedIsInactive ==
    \A n \in DOMAIN v :
        LET s == v[n].session IN
        IsClient(v[n]) /\ Wedged(s, ts) => ts - s.last > Limit
=============================================================================
