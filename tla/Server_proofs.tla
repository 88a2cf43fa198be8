---------------------------- MODULE Server_proofs ----------------------------
(***************************************************************************)
(* Proofs about Server: for every finite set of descriptors, every order   *)
(* of events and all durations.                                            *)
(*                                                                         *)
(* EntriesOwnFds and NoStaleEvent are kept by each step only together and  *)
(* with what they rest on: that a client's entry has a descriptor          *)
(* (ClientsHaveFds), and that pending events are for different clients     *)
(* (Live), so that handling one of them leaves the entries of the others   *)
(* alone.  The first part says what the three operations on the table,     *)
(* insert(), rm() and ctl(), do to it; the second takes the actions one by *)
(* one; the last is about time.                                            *)
(***************************************************************************)
EXTENDS Server, FunctionTheorems, DataLemmas

(* A slot whose session exists has a descriptor, too. *)
ClientsHaveFds == \A n \in 1..Len(v) : IsClient(v[n]) => ~Empty(v[n])

(* Descriptors and entries belong together one to one. *)
Owned ==
    /\ open = {v[n].fd : n \in 1..Len(v)} \ {NoFd}
    /\ \A f \in open : v[epoll[f].data].fd = f
    /\ \A m, n \in 1..Len(v) : v[m].fd = v[n].fd /\ ~Empty(v[m]) => m = n

(* There are no more slots than descriptors. *)
SlotsAreBounded == Len(v) <= Cardinality(Fds \cup {Lfd})

Table == ClientsHaveFds /\ Owned /\ SlotsAreBounded

(* The client events are for different clients, each still at its entry;   *)
(* they are all handled before the audit.                                  *)
Live ==
    /\ \A i \in 1..Len(evs) : /\ evs[i].n \in 1..Len(v)
                              /\ IsClient(v[evs[i].n])
                              /\ v[evs[i].n].fd = evs[i].got
    /\ \A i, j \in 1..Len(evs) : evs[i].n = evs[j].n => i = j
    /\ pc \in {"wait", "audit"} => evs = <<>>

-----------------------------------------------------------------------------
(* The first empty slot: it is empty, or else at the end. *)
LEMMA SlotIsFree ==
    ASSUME NEW E, v \in Seq(E)
    PROVE  \/ Slot \in 1..Len(v) /\ Empty(v[Slot])
           \/ Slot = Len(v) + 1 /\ \A n \in 1..Len(v) : ~Empty(v[n])
<1>1. DOMAIN v = 1..Len(v) /\ Len(v) \in Nat
  BY LenProperties
<1>2. CASE \E n \in DOMAIN v : Empty(v[n])
  <2> DEFINE T == {n \in DOMAIN v : Empty(v[n])}
  <2>1. T \in SUBSET Nat /\ T # {}
    BY <1>1, <1>2
  <2>2. \E n \in T : \A m \in T : n <= m
    BY <2>1, LeastElement
  <2>3. \E n \in DOMAIN v : Empty(v[n]) /\ \A m \in DOMAIN v : Empty(v[m]) => n <= m
    BY <2>2
  <2> QED
    BY <1>1, <1>2, <2>3 DEF Slot
<1>3. CASE ~ \E n \in DOMAIN v : Empty(v[n])
  BY <1>1, <1>3 DEF Slot
<1> QED
  BY <1>2, <1>3

LEMMA InsertProperties ==
    ASSUME NEW E, v \in Seq(E), NEW e \in E, NEW n \in 1..(Len(v) + 1)
    PROVE  /\ Insert(n, e) \in Seq(E)
           /\ Len(Insert(n, e)) = IF n > Len(v) THEN n ELSE Len(v)
           /\ \A m \in 1..Len(Insert(n, e)) : Insert(n, e)[m] = IF m = n THEN e ELSE v[m]
<1>1. DOMAIN v = 1..Len(v) /\ Len(v) \in Nat
  BY LenProperties
<1>2. CASE n > Len(v)
  <2>1. n = Len(v) + 1 /\ Insert(n, e) = Append(v, e)
    BY <1>1, <1>2 DEF Insert
  <2> QED
    BY <1>1, <1>2, <2>1, AppendProperties
<1>3. CASE ~(n > Len(v))
  <2>1. n \in 1..Len(v) /\ Insert(n, e) = [v EXCEPT ![n] = e]
    BY <1>1, <1>3 DEF Insert
  <2> QED
    BY <1>1, <1>3, <2>1, ExceptSeq
<1> QED
  BY <1>2, <1>3

(* A session, whatever its History, is not the null pointer. *)
LEMMA SessionsAreNotNull == \A s \in Sessions : s # NoSession
<1>1. \A s \in Sessions : "since" \in DOMAIN s
  BY DEF Sessions
<1>2. "since" \notin DOMAIN NoSession
  BY DEF NoSession
<1> QED
  BY <1>1, <1>2

LEMMA FdFacts == /\ NoFd \notin Fds \cup {Lfd}
                 /\ IsFiniteSet(Fds \cup {Lfd})
                 /\ Cardinality(Fds \cup {Lfd}) \in Nat
<1>1. NoFd \notin Nat /\ Fds \subseteq Nat /\ Lfd \in Nat
  BY FdAssumption DEF NoFd
<1>2. IsFiniteSet(Fds \cup {Lfd})
  BY FdAssumption, FS_AddElement
<1> QED
  BY <1>1, <1>2, FS_CardinalityType

LEMMA ClearedIsEmpty ==
    Cleared \in Entries /\ Empty(Cleared) /\ ~IsClient(Cleared) /\ Cleared.fd = NoFd
BY DEF Cleared, Entry, Entries, Empty, IsClient

(* The parts of an entry of the table *)
LEMMA EntryTypes ==
    ASSUME TypeOK, NEW n \in 1..Len(v)
    PROVE  /\ v[n] \in Entries
           /\ v[n].fd \in Fds \cup {Lfd, NoFd}
           /\ v[n].session \in Sessions \cup {NoSession}
           /\ v[n].events \in Garbage \cup {"in", "out"}
           /\ IsClient(v[n]) => v[n].session \in Sessions
<1>1. v[n] \in Entries
  BY ElementOfSeq DEF TypeOK
<1> QED
  BY <1>1 DEF Entries, IsClient

-----------------------------------------------------------------------------
(***************************************************************************)
(* The three things which happen to the table.                             *)
(***************************************************************************)

(* rm() of some entries *)
LEMMA RmTypes ==
    ASSUME TypeOK, Table, NEW ns \in SUBSET (1..Len(v)), Rm(ns)
    PROVE  /\ v' \in Seq(Entries)
           /\ Len(v') = Len(v)
           /\ \A n \in 1..Len(v) : v'[n] = IF n \in ns THEN Cleared ELSE v[n]
           /\ open' \subseteq Fds \cup {Lfd}
           /\ epoll' \in [open' -> [interest : {"in", "out"}, data : 1..Len(v')]]
           /\ \A f \in open' : f \in open /\ epoll'[f] = epoll[f]
<1>1. v \in Seq(Entries) /\ DOMAIN v = 1..Len(v) /\ Len(v) \in Nat
  BY LenProperties DEF TypeOK
<1>2. v' = [n \in 1..Len(v) |-> IF n \in ns THEN Cleared ELSE v[n]]
  BY <1>1 DEF Rm
<1>3. v' \in [1..Len(v) -> Entries]
  BY <1>2, ClearedIsEmpty, EntryTypes
<1>4. v' \in Seq(Entries)
  BY <1>1, <1>3, SeqDef
<1>5. Len(v') = Len(v)
  BY <1>1, <1>2, <1>4, LenProperties
<1>6. \A n \in 1..Len(v) : v'[n] = IF n \in ns THEN Cleared ELSE v[n]
  BY <1>2
<1>7. open' \subseteq open
  BY DEF Rm
<1>8. epoll' = [f \in open' |-> epoll[f]]
  BY DEF Rm, TypeOK
<1> QED
  BY <1>4, <1>5, <1>6, <1>7, <1>8 DEF TypeOK

LEMMA RmTable ==
    ASSUME TypeOK, Table, NEW ns \in SUBSET (1..Len(v)), Rm(ns)
    PROVE  Table'
<1> DEFINE fds == {v[n].fd : n \in ns}
<1>1. /\ Len(v') = Len(v)
      /\ \A n \in 1..Len(v) : v'[n] = IF n \in ns THEN Cleared ELSE v[n]
      /\ open' = open \ fds
      /\ \A f \in open' : f \in open /\ epoll'[f] = epoll[f]
  BY RmTypes DEF Rm
<1>2. \A n \in ns : v'[n].fd = NoFd /\ ~IsClient(v'[n])
  BY <1>1, ClearedIsEmpty
<1>3. \A n \in (1..Len(v)) \ ns : v'[n] = v[n]
  BY <1>1
<1>4. ClientsHaveFds'
  BY <1>1, <1>2, <1>3 DEF Table, ClientsHaveFds, Empty, IsClient
<1>5. \A n \in (1..Len(v)) \ ns : ~Empty(v[n]) => v[n].fd \notin fds
  BY DEF Table, Owned
<1>6. open' = {v'[n].fd : n \in 1..Len(v')} \ {NoFd}
  BY <1>1, <1>2, <1>3, <1>5 DEF Table, Owned, Empty
<1>7. ASSUME NEW f \in open' PROVE v'[epoll'[f].data].fd = f
  <2>1. epoll[f].data \in 1..Len(v) /\ v[epoll[f].data].fd = f
    BY <1>1 DEF Table, Owned, TypeOK
  <2>2. epoll[f].data \notin ns
    BY <1>1, <2>1
  <2> QED
    BY <1>1, <1>3, <2>1, <2>2
<1>8. \A m, n \in 1..Len(v') : v'[m].fd = v'[n].fd /\ ~Empty(v'[m]) => m = n
  BY <1>1, <1>2, <1>3 DEF Table, Owned, Empty
<1> QED
  BY <1>1, <1>4, <1>6, <1>7, <1>8 DEF Table, Owned, SlotsAreBounded, Empty

(* An entry of the same descriptor takes the place of another, and may be   *)
(* registered once more.                                                    *)
LEMMA UpdateTable ==
    ASSUME TypeOK, Table,
           NEW n \in 1..Len(v), ~Empty(v[n]),
           NEW e \in Entries, e.fd = v[n].fd,
           v' = [v EXCEPT ![n] = e],
           open' = open,
           NEW interest \in {"in", "out"},
           epoll' \in {epoll, Registered(v[n].fd, interest, n)}
    PROVE  /\ v' \in Seq(Entries)
           /\ Len(v') = Len(v)
           /\ epoll' \in [open' -> [interest : {"in", "out"}, data : 1..Len(v')]]
           /\ Table'
<1>1. v \in Seq(Entries) /\ Len(v) \in Nat /\ v[n].fd \in open
  BY LenProperties DEF TypeOK, Table, Owned, Empty
<1>2. /\ v' \in Seq(Entries)
      /\ Len(v') = Len(v)
      /\ \A m \in 1..Len(v) : v'[m] = IF m = n THEN e ELSE v[m]
  BY <1>1, ExceptSeq
<1>3. \A m \in 1..Len(v) : v'[m].fd = v[m].fd
  BY <1>2
<1>4. /\ epoll' \in [open' -> [interest : {"in", "out"}, data : 1..Len(v')]]
      /\ \A f \in open : epoll'[f].data = IF f = v[n].fd /\ epoll' # epoll THEN n
                                          ELSE epoll[f].data
  <2>1. /\ open' = open /\ Len(v') = Len(v) /\ v[n].fd \in open
        /\ epoll \in [open -> [interest : {"in", "out"}, data : 1..Len(v)]]
    BY <1>1, <1>2 DEF TypeOK
  <2>2. CASE epoll' = epoll
    BY <2>1, <2>2
  <2>3. CASE epoll' = Registered(v[n].fd, interest, n)
    BY <2>1, <2>3 DEF Registered
  <2> QED
    BY <2>2, <2>3
<1>5. ClientsHaveFds'
  BY <1>2, <1>3 DEF Table, ClientsHaveFds, Empty
<1>6. Owned'
  <2>1. open' = {v'[m].fd : m \in 1..Len(v')} \ {NoFd}
    BY <1>2, <1>3 DEF Table, Owned
  <2>2. \A f \in open' : v'[epoll'[f].data].fd = f
    <3> SUFFICES ASSUME NEW f \in open
                 PROVE  v'[epoll'[f].data].fd = f
      OBVIOUS
    <3>1. epoll[f].data \in 1..Len(v) /\ v[epoll[f].data].fd = f
      BY DEF Table, Owned, TypeOK
    <3>2. epoll'[f].data \in 1..Len(v) /\ v[epoll'[f].data].fd = f
      BY <1>4, <3>1
    <3> QED
      BY <1>3, <3>2
  <2>3. \A i, j \in 1..Len(v') : v'[i].fd = v'[j].fd /\ ~Empty(v'[i]) => i = j
    BY <1>2, <1>3 DEF Table, Owned, Empty
  <2> QED
    BY <2>1, <2>2, <2>3 DEF Owned
<1> QED
  BY <1>2, <1>4, <1>5, <1>6 DEF Table, SlotsAreBounded

(* Where every slot is taken and a descriptor is not, a slot may be added.  *)
LEMMA RoomForASlot ==
    ASSUME TypeOK, Table, Fds \ open # {}, \A n \in 1..Len(v) : ~Empty(v[n])
    PROVE  Len(v) + 1 <= Cardinality(Fds \cup {Lfd})
<1> DEFINE f == [n \in 1..Len(v) |-> v[n].fd]
<1>1. Len(v) \in Nat /\ Cardinality(1..Len(v)) = Len(v)
  <2>1. Len(v) \in Nat
    BY LenProperties DEF TypeOK
  <2>2. Cardinality(1..Len(v)) = IF 1 > Len(v) THEN 0 ELSE Len(v) - 1 + 1
    <3>1. Len(v) \in Int /\ 1 \in Int
      BY <2>1
    <3> QED
      BY <3>1, FS_Interval, Zenon
  <2> QED
    BY <2>1, <2>2
<1>2. /\ IsFiniteSet(open) /\ Cardinality(open) \in Nat
      /\ Cardinality(open) < Cardinality(Fds \cup {Lfd})
  <2>1. open \subseteq Fds \cup {Lfd} /\ open # Fds \cup {Lfd}
    BY DEF TypeOK
  <2> QED
    BY <2>1, FdFacts, FS_Subset, FS_CardinalityType
<1>3. f \in Injection(1..Len(v), open)
  <2>1. f \in [1..Len(v) -> open]
    BY DEF Table, Owned, Empty
  <2>2. \A m, n \in 1..Len(v) : f[m] = f[n] => m = n
    BY DEF Table, Owned
  <2> QED
    BY <2>1, <2>2, Fun_IsInj
<1>4. Len(v) <= Cardinality(open)
  <2> HIDE DEF f
  <2>1. Cardinality(1..Len(v)) <= Cardinality(open)
    BY <1>2, <1>3, FS_Injection
  <2> QED
    BY <1>1, <2>1
<1> QED
  BY <1>1, <1>2, <1>4, FdFacts

(* A new client, or what is left of one whose epoll_ctl(2) failed *)
LEMMA InsertTable ==
    ASSUME TypeOK, Table,
           NEW e \in Entries, v' = Insert(Slot, e), Fds \ open # {},
           \/ e = Cleared /\ open' = open /\ epoll' = epoll
           \/ /\ e.fd \in Fds \ open
              /\ open' = open \cup {e.fd}
              /\ epoll' = Registered(e.fd, "in", Slot)
    PROVE  /\ v' \in Seq(Entries)
           /\ \A n \in 1..Len(v) : /\ n \in 1..Len(v')
                                   /\ ~Empty(v[n]) => v'[n] = v[n]
           /\ \A n \in 1..Len(v') : (n \in 1..Len(v) /\ v'[n] = v[n]) \/ v'[n] = e
           /\ open' \subseteq Fds \cup {Lfd}
           /\ epoll' \in [open' -> [interest : {"in", "out"}, data : 1..Len(v')]]
           /\ Table'
<1>1. v \in Seq(Entries) /\ Len(v) \in Nat
  BY LenProperties DEF TypeOK
<1>2. \/ Slot \in 1..Len(v) /\ Empty(v[Slot])
      \/ Slot = Len(v) + 1 /\ \A n \in 1..Len(v) : ~Empty(v[n])
  BY <1>1, SlotIsFree
<1> DEFINE k == Slot
<1>3. k \in 1..(Len(v) + 1) /\ (k \in 1..Len(v) => Empty(v[k]))
  BY <1>1, <1>2
<1>4. /\ v' \in Seq(Entries)
      /\ Len(v') = IF k > Len(v) THEN k ELSE Len(v)
      /\ \A m \in 1..Len(v') : v'[m] = IF m = k THEN e ELSE v[m]
  <2>1. v' = Insert(k, e)
    OBVIOUS
  <2> HIDE DEF k
  <2>2. /\ Insert(k, e) \in Seq(Entries)
        /\ Len(Insert(k, e)) = IF k > Len(v) THEN k ELSE Len(v)
        /\ \A m \in 1..Len(Insert(k, e)) : Insert(k, e)[m] = IF m = k THEN e ELSE v[m]
    BY <1>1, <1>3, InsertProperties
  <2> QED
    BY <2>1, <2>2
<1>5. SlotsAreBounded'
  <2>1. CASE k \in 1..Len(v)
    BY <1>1, <1>4, <2>1 DEF Table, SlotsAreBounded
  <2>2. CASE k = Len(v) + 1 /\ \A n \in 1..Len(v) : ~Empty(v[n])
    BY <1>1, <1>4, <2>2, RoomForASlot DEF SlotsAreBounded
  <2> QED
    BY <1>2, <2>1, <2>2
<1> HIDE DEF k
<1>6. /\ k \in 1..Len(v') /\ v'[k] = e
      /\ \A n \in 1..Len(v') : n = k \/ (n \in 1..Len(v) /\ v'[n] = v[n])
      /\ \A n \in 1..Len(v) : n \in 1..Len(v') /\ (n = k \/ v'[n] = v[n])
  BY <1>1, <1>3, <1>4
<1>7. \A n \in 1..Len(v) : ~Empty(v[n]) => n # k
  BY <1>3
<1>8. CASE e = Cleared /\ open' = open /\ epoll' = epoll
  <2>1. Empty(e) /\ ~IsClient(e) /\ e.fd = NoFd
    BY <1>8, ClearedIsEmpty
  <2>2. epoll' \in [open' -> [interest : {"in", "out"}, data : 1..Len(v')]]
    BY <1>1, <1>6, <1>8 DEF TypeOK
  <2>3. ClientsHaveFds'
    BY <1>6, <2>1 DEF Table, ClientsHaveFds, IsClient, Empty
  <2>4. open' = {v'[n].fd : n \in 1..Len(v')} \ {NoFd}
    BY <1>6, <1>7, <1>8, <2>1 DEF Table, Owned, Empty
  <2>5. ASSUME NEW f \in open' PROVE v'[epoll'[f].data].fd = f
    <3>1. epoll[f].data \in 1..Len(v) /\ v[epoll[f].data].fd = f /\ f # NoFd
      BY <1>8 DEF Table, Owned, TypeOK
    <3> QED
      BY <1>6, <1>7, <1>8, <3>1 DEF Empty
  <2>6. \A m, n \in 1..Len(v') : v'[m].fd = v'[n].fd /\ ~Empty(v'[m]) => m = n
    BY <1>6, <2>1 DEF Table, Owned, Empty
  <2> QED
    BY <1>4, <1>5, <1>6, <1>7, <1>8, <2>2, <2>3, <2>4, <2>5, <2>6 DEF Table, Owned, TypeOK, Empty
<1>9. CASE /\ e.fd \in Fds \ open
           /\ open' = open \cup {e.fd}
           /\ epoll' = Registered(e.fd, "in", k)
  <2>1. e.fd # NoFd /\ e.fd \in Fds /\ e.fd \notin open
    BY <1>9, FdFacts
  <2>2. /\ epoll' \in [open' -> [interest : {"in", "out"}, data : 1..Len(v')]]
        /\ epoll'[e.fd].data = k
        /\ \A f \in open : epoll'[f] = epoll[f]
    BY <1>1, <1>6, <1>9 DEF TypeOK, Registered
  <2>3. ClientsHaveFds'
    BY <1>6, <2>1 DEF Table, ClientsHaveFds, IsClient, Empty
  <2>4. open' = {v'[n].fd : n \in 1..Len(v')} \ {NoFd}
    BY <1>6, <1>7, <1>9, <2>1 DEF Table, Owned, Empty
  <2>5. ASSUME NEW f \in open' PROVE v'[epoll'[f].data].fd = f
    <3>1. CASE f \in open
      <4>1. epoll[f].data \in 1..Len(v) /\ v[epoll[f].data].fd = f /\ f # NoFd
        BY <3>1 DEF Table, Owned, TypeOK
      <4> QED
        BY <1>6, <1>7, <2>2, <3>1, <4>1 DEF Empty
    <3>2. CASE f = e.fd
      BY <1>6, <2>2, <3>2
    <3> QED
      BY <1>9, <3>1, <3>2
  <2>6. \A n \in 1..Len(v) : v[n].fd # e.fd
    BY <2>1 DEF Table, Owned
  <2>7. \A m, n \in 1..Len(v') : v'[m].fd = v'[n].fd /\ ~Empty(v'[m]) => m = n
    BY <1>6, <2>6 DEF Table, Owned, Empty
  <2>8. open' \subseteq Fds \cup {Lfd}
    BY <1>9 DEF TypeOK
  <2> QED
    BY <1>4, <1>5, <1>6, <1>7, <2>2, <2>3, <2>4, <2>5, <2>7, <2>8 DEF Table, Owned, Empty
<1> QED
  BY <1>8, <1>9 DEF k

-----------------------------------------------------------------------------
(***************************************************************************)
(* The actions.                                                            *)
(***************************************************************************)

LEMMA SameTable ==
    ASSUME Table, UNCHANGED <<v, epoll, open>>
    PROVE  Table'
BY DEF Table, ClientsHaveFds, Owned, SlotsAreBounded, Empty, IsClient

LEMMA SameEvents ==
    ASSUME Live, UNCHANGED <<v, evs>>, pc' \in {"wait", "audit"} => pc' = pc \/ evs = <<>>
    PROVE  Live'
BY DEF Live, IsClient

(* What wait() makes of some descriptors which are ready *)
LEMMA EventsOfReady ==
    ASSUME TypeOK, Table, NEW S \in SUBSET open, NEW order \in Orders(S), NEW hup
    PROVE  LET es == Events(order, hup) IN
           /\ es \in Seq(ClientEvents)
           /\ \A i \in 1..Len(es) : /\ es[i].got \in S
                                    /\ es[i].n = epoll[es[i].got].data
                                    /\ es[i].n \in 1..Len(v)
                                    /\ v[es[i].n].fd = es[i].got
           /\ \A i, j \in 1..Len(es) : es[i].n = es[j].n => i = j
<1> DEFINE es == Events(order, hup)
           k == Cardinality(S)
<1>1. k \in Nat
  <2>1. IsFiniteSet(S)
    BY FdFacts, FS_Subset DEF TypeOK
  <2> QED
    BY <2>1, FS_CardinalityType
<1>2. /\ order \in [1..k -> S]
      /\ \A i, j \in 1..k : order[i] = order[j] => i = j
  BY DEF Orders
<1> HIDE DEF k
<1>3. es = [i \in 1..k |-> [n |-> epoll[order[i]].data, got |-> order[i],
                            events |-> IF order[i] \in hup THEN "hup"
                                       ELSE epoll[order[i]].interest]]
  BY <1>2 DEF Events
<1>4. ASSUME NEW i \in 1..k
      PROVE  /\ es[i].got = order[i] /\ order[i] \in S /\ order[i] \in Fds \cup {Lfd}
             /\ es[i].n = epoll[order[i]].data
             /\ es[i].n \in 1..Len(v)
             /\ v[es[i].n].fd = order[i]
             /\ es[i] \in ClientEvents
  <2>1. order[i] \in S /\ order[i] \in open /\ order[i] \in Fds \cup {Lfd}
    BY <1>2 DEF TypeOK
  <2>2. /\ epoll[order[i]].data \in 1..Len(v)
        /\ epoll[order[i]].interest \in {"in", "out"}
        /\ v[epoll[order[i]].data].fd = order[i]
    BY <2>1 DEF TypeOK, Table, Owned
  <2>3. es[i] = [n |-> epoll[order[i]].data, got |-> order[i],
                 events |-> IF order[i] \in hup THEN "hup"
                            ELSE epoll[order[i]].interest]
    BY <1>3
  <2>4. epoll[order[i]].data \in Nat
    BY <2>2, LenProperties DEF TypeOK
  <2> QED
    BY <2>1, <2>2, <2>3, <2>4 DEF ClientEvents
<1>5. es \in [1..k -> ClientEvents]
  BY <1>3, <1>4
<1> HIDE DEF es
<1>6. es \in Seq(ClientEvents) /\ Len(es) = k
  <2>1. es \in Seq(ClientEvents)
    BY <1>1, <1>5, SeqDef
  <2>2. DOMAIN es = 1..k /\ DOMAIN es = 1..Len(es) /\ Len(es) \in Nat
    BY <1>5, <2>1, LenProperties
  <2> QED
    BY <1>1, <2>1, <2>2
<1>7. ASSUME NEW i \in 1..k, NEW j \in 1..k, es[i].n = es[j].n PROVE i = j
  BY <1>2, <1>4, <1>7
<1> QED
  BY <1>4, <1>6, <1>7 DEF es

LEMMA WaitStep ==
    ASSUME TypeOK, Table, Live, Wait
    PROVE  TypeOK' /\ Table' /\ Live'
<1>1. UNCHANGED <<v, epoll, open, deadline>> /\ pc' = "accept"
  BY DEF Wait
<1>2. Table'
  BY <1>1 DEF Table, ClientsHaveFds, Owned, SlotsAreBounded, Empty, IsClient
<1>3. PICK t \in ts..MaxTime, S \in SUBSET DOMAIN epoll :
         /\ ts' = t
         /\ \E hup \in SUBSET S,
               clients \in Orders({f \in S : IsClient(v[epoll[f].data])}),
               listeners \in Orders({f \in S : Listening(v[epoll[f].data])}) :
               /\ evs' = Events(clients, hup)
               /\ levs' = Events(listeners, hup)
  BY DEF Wait
<1> DEFINE C == {f \in S : IsClient(v[epoll[f].data])}
           L == {f \in S : Listening(v[epoll[f].data])}
<1>4. C \in SUBSET open /\ L \in SUBSET open
  BY DEF TypeOK
<1>5. PICK hup \in SUBSET S, clients \in Orders(C), listeners \in Orders(L) :
         evs' = Events(clients, hup) /\ levs' = Events(listeners, hup)
  BY <1>3
<1>6. \A f \in C : IsClient(v[epoll[f].data])
  OBVIOUS
<1> HIDE DEF C, L
<1>7. /\ evs' \in Seq(ClientEvents)
      /\ \A i \in 1..Len(evs') : /\ evs'[i].got \in C
                                 /\ evs'[i].n = epoll[evs'[i].got].data
                                 /\ evs'[i].n \in 1..Len(v)
                                 /\ v[evs'[i].n].fd = evs'[i].got
      /\ \A i, j \in 1..Len(evs') : evs'[i].n = evs'[j].n => i = j
  BY <1>4, <1>5, EventsOfReady
<1>8. levs' \in Seq(ClientEvents)
  BY <1>4, <1>5, EventsOfReady
<1>9. ts' \in 0..MaxTime
  BY <1>3, TimeAssumption DEF TypeOK
<1>10. TypeOK'
  BY <1>1, <1>7, <1>8, <1>9 DEF TypeOK
<1>11. Live'
  BY <1>1, <1>6, <1>7 DEF Live, IsClient
<1> QED
  BY <1>2, <1>10, <1>11

(* A session is as old as it was, or begins something now.                 *)
SinceKept ==
    \A n \in 1..Len(v') : IsClient(v'[n]) =>
        \/ n \in 1..Len(v) /\ IsClient(v[n])
           /\ v'[n].session.since = v[n].session.since
        \/ v'[n].session.since = ts

LEMMA AcceptStep ==
    ASSUME TypeOK, Table, Live, Accept
    PROVE  TypeOK' /\ Table' /\ Live' /\ SinceKept
<1>1. pc = "accept" /\ levs # <<>> /\ levs' = Tail(levs) /\ UNCHANGED <<evs, ts, deadline, pc>>
  BY DEF Accept
<1>2. levs' \in Seq(ClientEvents)
  BY <1>1, HeadTailProperties DEF TypeOK
<1>3. PICK e \in Entries :
         /\ v' = Insert(Slot, e) /\ Fds \ open # {}
         /\ \/ e = Cleared /\ open' = open /\ epoll' = epoll
            \/ /\ e.fd \in Fds \ open
               /\ open' = open \cup {e.fd}
               /\ epoll' = Registered(e.fd, "in", Slot)
         /\ IsClient(e) => e.session.since = ts
  <2>1. CASE /\ Fds \ open # {} /\ v' = Insert(Slot, Cleared)
             /\ UNCHANGED <<epoll, open>>
    BY <2>1, ClearedIsEmpty
  <2>2. ASSUME NEW fd \in Fds \ open, NEW g \in Garbage,
               v' = Insert(Slot, Entry(fd, NewSession(ts), g)),
               epoll' = Registered(fd, "in", Slot),
               open' = open \cup {fd}
        PROVE  \E e \in Entries :
                 /\ v' = Insert(Slot, e) /\ Fds \ open # {}
                 /\ \/ e = Cleared /\ open' = open /\ epoll' = epoll
                    \/ /\ e.fd \in Fds \ open
                       /\ open' = open \cup {e.fd}
                       /\ epoll' = Registered(e.fd, "in", Slot)
                 /\ IsClient(e) => e.session.since = ts
    <3> DEFINE e == Entry(fd, NewSession(ts), g)
    <3>1. NewSession(ts) \in Sessions /\ NewSession(ts).since = ts
      BY DEF NewSession, Sessions, TypeOK
    <3>2. e \in Entries /\ e.fd = fd /\ e.session.since = ts
      BY <3>1 DEF Entry, Entries
    <3> QED
      BY <2>2, <3>2
  <2> QED
    BY <2>1, <2>2 DEF Accept
<1>4. /\ v' \in Seq(Entries)
      /\ \A n \in 1..Len(v) : /\ n \in 1..Len(v')
                              /\ ~Empty(v[n]) => v'[n] = v[n]
      /\ \A n \in 1..Len(v') : (n \in 1..Len(v) /\ v'[n] = v[n]) \/ v'[n] = e
      /\ open' \subseteq Fds \cup {Lfd}
      /\ epoll' \in [open' -> [interest : {"in", "out"}, data : 1..Len(v')]]
      /\ Table'
  BY <1>3, InsertTable
<1>5. TypeOK'
  BY <1>1, <1>2, <1>4 DEF TypeOK
<1>6. Live'
  BY <1>1, <1>4 DEF Live, Table, ClientsHaveFds
<1>7. SinceKept
  BY <1>3, <1>4 DEF SinceKept
<1> QED
  BY <1>4, <1>5, <1>6, <1>7

LEMMA AnswersTyped ==
    ASSUME NEW ev \in ClientEvents, NEW s \in Sessions, ts \in 0..MaxTime,
           NEW a \in Answers(ev, s)
    PROVE  /\ a.s \in Sessions
           /\ a.s.since \in {s.since, ts}
           /\ a.state \in {"in", "out", "die"}
<1>1. /\ s.active \in BOOLEAN /\ s.since \in 0..MaxTime /\ s.last \in 0..MaxTime
      /\ s = [active |-> s.active, since |-> s.since, last |-> s.last]
  BY DEF Sessions
<1>2. ASSUME NEW r \in Sessions
      PROVE  /\ Began(r, ts) \in Sessions /\ Began(r, ts).since = ts
             /\ Ended(r, ts) \in Sessions /\ Ended(r, ts).since = ts
             /\ Wrote(r, ts) \in Sessions /\ Wrote(r, ts).since = r.since
  BY DEF Sessions, Began, Ended, Wrote
<1>3. CASE a \in ReadAnswers(s)
  <2>1. \/ a \in {[s |-> s, state |-> "out"], [s |-> s, state |-> "in"],
                  [s |-> s, state |-> "die"]}
        \/ a = [s |-> Began(s, ts), state |-> "out"]
    BY <1>3 DEF ReadAnswers
  <2> QED
    BY <1>2, <2>1
<1>4. CASE a \in WriteAnswers(s)
  <2> DEFINE w == Wrote(s, ts)
             e == Ended(w, ts)
             b == Began(e, ts)
             bw == Wrote(b, ts)
  <2>1. w \in Sessions /\ w.since = s.since
    BY <1>2
  <2>2. e \in Sessions /\ e.since = ts
    BY <1>2, <2>1
  <2>3. b \in Sessions /\ b.since = ts
    BY <1>2, <2>2
  <2>4. bw \in Sessions /\ bw.since = ts
    BY <1>2, <2>3
  <2>5. \/ a \in {[s |-> s, state |-> "in"], [s |-> s, state |-> "die"]}
        \/ a \in {[s |-> w, state |-> "out"], [s |-> w, state |-> "die"]}
        \/ a \in {[s |-> e, state |-> "in"], [s |-> bw, state |-> "out"]}
    BY <1>4 DEF WriteAnswers
  <2> HIDE DEF w, e, b, bw
  <2> QED
    BY <2>1, <2>2, <2>4, <2>5
<1>5. CASE a = [s |-> s, state |-> "die"]
  BY <1>5
<1> QED
  BY <1>3, <1>4, <1>5 DEF Answers, ClientEvents

(* The handling of one event changes the entry of its client, and no other. *)
LEMMA OneEntryChanges ==
    ASSUME TypeOK, Table, Live, Dispatch
    PROVE  /\ v' \in Seq(Entries)
           /\ Len(v') = Len(v)
           /\ Head(evs).n \in 1..Len(v)
           /\ \A m \in 1..Len(v) : m # Head(evs).n => v'[m] = v[m]
           /\ open' \subseteq Fds \cup {Lfd}
           /\ epoll' \in [open' -> [interest : {"in", "out"}, data : 1..Len(v')]]
           /\ Table'
           /\ SinceKept
<1> DEFINE ev == Head(evs)
           n == ev.n
<1>1. evs \in Seq(ClientEvents) /\ evs # <<>> /\ ts \in 0..MaxTime
  BY DEF Dispatch, TypeOK
<1>2. ev = evs[1] /\ 1 \in 1..Len(evs) /\ ev \in ClientEvents
  BY <1>1, EmptySeq, HeadTailProperties
<1>3. n \in 1..Len(v) /\ IsClient(v[n]) /\ ~Empty(v[n])
  BY <1>2 DEF Live, Table, ClientsHaveFds
<1>4. v[n].session \in Sessions /\ v[n] \in Entries
  BY <1>3, EntryTypes
<1>5. PICK a \in Answers(ev, v[n].session) :
        IF a.state = "die" THEN Rm({n}) ELSE Ctl(n, a)
  BY DEF Dispatch
<1> HIDE DEF ev, n
<1>6. /\ a.s \in Sessions
      /\ a.s.since \in {v[n].session.since, ts}
      /\ a.state \in {"in", "out", "die"}
  BY <1>1, <1>2, <1>4, AnswersTyped
<1>7. CASE Rm({n})
  <2>1. {n} \in SUBSET (1..Len(v))
    BY <1>3
  <2>2. /\ v' \in Seq(Entries)
        /\ Len(v') = Len(v)
        /\ \A m \in 1..Len(v) : v'[m] = IF m \in {n} THEN Cleared ELSE v[m]
        /\ open' \subseteq Fds \cup {Lfd}
        /\ epoll' \in [open' -> [interest : {"in", "out"}, data : 1..Len(v')]]
        /\ Table'
    BY <1>7, <2>1, RmTypes, RmTable
  <2>3. SinceKept
    BY <2>2, ClearedIsEmpty DEF SinceKept
  <2> QED
    BY <1>3, <2>2, <2>3 DEF n, ev
<1>8. CASE Ctl(n, a) /\ ~Rm({n}) /\ a.state # "die"
  <2> DEFINE entry == [v[n] EXCEPT !.session = a.s]
             again == [entry EXCEPT !.events = a.state]
  <2>1. /\ entry \in Entries /\ entry.fd = v[n].fd /\ entry.session = a.s
        /\ again \in Entries /\ again.fd = v[n].fd /\ again.session = a.s
    BY <1>4, <1>6, <1>8 DEF Entries
  <2>2. PICK e \in Entries :
          /\ e.fd = v[n].fd /\ e.session = a.s
          /\ v' = [v EXCEPT ![n] = e]
          /\ open' = open
          /\ epoll' \in {epoll, Registered(v[n].fd, a.state, n)}
    <3>1. CASE v' = [v EXCEPT ![n] = entry] /\ UNCHANGED <<epoll, open>>
      BY <2>1, <3>1
    <3>2. CASE /\ v' = [v EXCEPT ![n] = [entry EXCEPT !.events = a.state]]
               /\ epoll' = Registered(entry.fd, a.state, n)
               /\ UNCHANGED open
      BY <2>1, <3>2
    <3> QED
      BY <1>8, <3>1, <3>2 DEF Ctl
  <2>3. /\ v' \in Seq(Entries)
        /\ Len(v') = Len(v)
        /\ epoll' \in [open' -> [interest : {"in", "out"}, data : 1..Len(v')]]
        /\ Table'
    BY <1>3, <1>6, <1>8, <2>2, UpdateTable
  <2>4. \A m \in 1..Len(v) : v'[m] = IF m = n THEN e ELSE v[m]
    BY <1>3, <2>2, ExceptSeq DEF TypeOK
  <2>5. SinceKept
    BY <1>3, <1>6, <2>2, <2>3, <2>4 DEF SinceKept
  <2>6. open' \subseteq Fds \cup {Lfd}
    BY <2>2 DEF TypeOK
  <2> QED
    BY <1>3, <2>3, <2>4, <2>5, <2>6 DEF n, ev
<1> QED
  BY <1>5, <1>7, <1>8

LEMMA DispatchStep ==
    ASSUME TypeOK, Table, Live, Dispatch
    PROVE  TypeOK' /\ Table' /\ Live' /\ SinceKept
<1>1. /\ evs \in Seq(ClientEvents) /\ evs # <<>> /\ evs' = Tail(evs)
      /\ pc = "dispatch" /\ UNCHANGED <<levs, ts, deadline, pc>>
  BY DEF Dispatch, TypeOK
<1>2. /\ evs' \in Seq(ClientEvents)
      /\ Len(evs') = Len(evs) - 1 /\ Len(evs) \in Nat
      /\ \A i \in 1..Len(evs') : evs'[i] = evs[i + 1]
      /\ Head(evs) = evs[1]
  BY <1>1, HeadTailProperties, LenProperties
<1>3. TypeOK'
  BY <1>1, <1>2, OneEntryChanges DEF TypeOK
<1>4. \A i \in 1..Len(evs') : /\ i + 1 \in 1..Len(evs) /\ 1 \in 1..Len(evs)
                             /\ evs[i + 1].n # evs[1].n
  BY <1>2 DEF Live
<1>5. Live'
  <2>1. ASSUME NEW i \in 1..Len(evs')
        PROVE  /\ evs'[i].n \in 1..Len(v')
               /\ IsClient(v'[evs'[i].n])
               /\ v'[evs'[i].n].fd = evs'[i].got
    <3>1. /\ evs[i + 1].n \in 1..Len(v) /\ IsClient(v[evs[i + 1].n])
          /\ v[evs[i + 1].n].fd = evs[i + 1].got
      BY <1>4 DEF Live
    <3>2. Len(v') = Len(v) /\ v'[evs[i + 1].n] = v[evs[i + 1].n]
      BY <1>2, <1>4, <3>1, OneEntryChanges
    <3>3. evs'[i] = evs[i + 1]
      BY <1>2
    <3> QED
      BY <3>1, <3>2, <3>3
  <2>2. ASSUME NEW i \in 1..Len(evs'), NEW j \in 1..Len(evs'), evs'[i].n = evs'[j].n
        PROVE  i = j
    <3>1. evs[i + 1].n = evs[j + 1].n
      BY <1>2, <2>2
    <3>2. i + 1 = j + 1
      BY <1>4, <3>1 DEF Live
    <3> QED
      BY <3>2
  <2>3. pc' = "dispatch"
    BY <1>1
  <2> QED
    BY <2>1, <2>2, <2>3 DEF Live
<1> QED
  BY <1>3, <1>5, OneEntryChanges

LEMMA Division ==
    ASSUME NEW a \in Nat, NEW b \in Nat, b > 0
    PROVE  /\ a \div b \in Nat /\ a % b \in 0..(b - 1)
           /\ (a \div b) * b \in Nat
           /\ a = (a \div b) * b + (a % b)
<1>1. a \div b \in Nat /\ a % b \in 0..(b - 1)
  OBVIOUS
<1>2. a = b * (a \div b) + (a % b)
  OBVIOUS
<1>3. b * (a \div b) \in Nat /\ b * (a \div b) = (a \div b) * b
  BY <1>1
<1> QED
  BY <1>1, <1>2, <1>3

(* The next deadline has not passed, and is less than a Period away.       *)
LEMMA NextDeadlineProperties ==
    ASSUME deadline \in Nat, NEW t \in Nat, Checked(t)
    PROVE  /\ NextDeadline(t) \in Nat
           /\ t <= NextDeadline(t) /\ NextDeadline(t) < t + Period
<1> DEFINE late == t - deadline
           a == late + Period - 1
           q == (a \div Period) * Period
<1>1. Period \in Nat /\ Period > 0
  BY TimeAssumption
<1>2. late \in Nat /\ late > 0
  BY DEF Checked
<1>3. NextDeadline(t) = deadline + q
  BY DEF NextDeadline
<1>4. a \in Nat /\ a = late + Period - 1 /\ late = t - deadline
  BY <1>1, <1>2
<1> HIDE DEF late
<1>5. q \in Nat /\ a % Period \in 0..(Period - 1) /\ a = q + (a % Period)
  <2> HIDE DEF a
  <2> QED
    BY <1>1, <1>4, Division
<1> HIDE DEF a, q
<1>6. late <= q /\ q < late + Period
  BY <1>1, <1>2, <1>4, <1>5
<1> QED
  BY <1>1, <1>2, <1>3, <1>4, <1>5, <1>6

LEMMA AuditStep ==
    ASSUME TypeOK, Table, Live, Audit
    PROVE  TypeOK' /\ Table' /\ Live'
<1>1. pc = "audit" /\ pc' = "wait" /\ evs = <<>> /\ UNCHANGED <<evs, levs, ts>>
  BY DEF Audit, Live
<1>2. CASE Checked(ts) /\ deadline' = NextDeadline(ts) /\ Rm(Doomed)
  <2>1. Doomed \in SUBSET (1..Len(v))
    BY LenProperties DEF Doomed, TypeOK
  <2>2. deadline' \in Nat
    BY <1>2, NextDeadlineProperties DEF TypeOK
  <2>3. TypeOK'
    BY <1>1, <1>2, <2>1, <2>2, RmTypes DEF TypeOK
  <2>4. Table'
    BY <1>2, <2>1, RmTable
  <2>5. Live'
    BY <1>1, <1>2 DEF Live
  <2> QED
    BY <2>3, <2>4, <2>5
<1>3. CASE UNCHANGED <<deadline, v, epoll, open>>
  <2>1. TypeOK'
    BY <1>1, <1>3 DEF TypeOK
  <2> QED
    BY <1>1, <1>3, <2>1, SameTable, SameEvents
<1> QED
  BY <1>2, <1>3 DEF Audit

-----------------------------------------------------------------------------
(***************************************************************************)
(* The invariant, and what follows from it.                                *)
(***************************************************************************)
Inv == TypeOK /\ Table /\ Live

LEMMA InvInit == Init => Inv
<1> SUFFICES ASSUME Init PROVE Inv
  OBVIOUS
<1> DEFINE e == Entry(Lfd, NoSession, "in")
<1>1. e \in Entries /\ e.fd = Lfd /\ ~IsClient(e)
  BY DEF Entry, Entries, IsClient
<1> HIDE DEF e
<1>2. v = <<e>> /\ v \in Seq(Entries) /\ Len(v) = 1 /\ v[1] = e
  BY <1>1 DEF Init, e
<1>3. /\ open = {Lfd} /\ epoll \in [open -> [interest : {"in", "out"}, data : 1..1]]
      /\ epoll[Lfd].data = 1
  BY DEF Init
<1>4. /\ evs = <<>> /\ levs = <<>> /\ ts = 0 /\ deadline = Period /\ pc = "wait"
      /\ <<>> \in Seq(ClientEvents) /\ Len(<<>>) = 0
  BY EmptySeq DEF Init
<1>5. TypeOK
  BY <1>2, <1>3, <1>4, TimeAssumption DEF TypeOK
<1>6. ClientsHaveFds /\ Owned
  BY <1>1, <1>2, <1>3, FdFacts DEF ClientsHaveFds, Owned, Empty
<1>7. SlotsAreBounded
  <2>1. Cardinality(Fds \cup {Lfd}) # 0
    <3>1. Fds \cup {Lfd} # {}
      OBVIOUS
    <3> QED
      BY <3>1, FdFacts, FS_EmptySet, Zenon
  <2> QED
    BY <1>2, <2>1, FdFacts DEF SlotsAreBounded
<1>8. Live
  BY <1>4 DEF Live
<1> QED
  BY <1>5, <1>6, <1>7, <1>8 DEF Inv, Table

LEMMA InvNext == Inv /\ [Next]_vars => Inv'
<1> SUFFICES ASSUME Inv, [Next]_vars PROVE Inv'
  OBVIOUS
<1> USE DEF Inv
<1>1. CASE Wait
  BY <1>1, WaitStep
<1>2. CASE AcceptFails
  <2>1. levs' \in Seq(ClientEvents)
    BY <1>2, HeadTailProperties DEF AcceptFails, TypeOK
  <2>2. UNCHANGED <<v, epoll, open, evs, ts, deadline, pc>>
    BY <1>2 DEF AcceptFails
  <2>3. TypeOK'
    BY <2>1, <2>2 DEF TypeOK
  <2> QED
    BY <2>2, <2>3, SameTable, SameEvents
<1>3. CASE Accept
  BY <1>3, AcceptStep
<1>4. CASE AllAccepted
  <2>1. UNCHANGED <<v, epoll, open, evs, levs, ts, deadline>> /\ pc' = "dispatch"
    BY <1>4 DEF AllAccepted
  <2>2. TypeOK'
    BY <2>1 DEF TypeOK
  <2> QED
    BY <2>1, <2>2, SameTable, SameEvents
<1>5. CASE Dispatch
  BY <1>5, DispatchStep
<1>6. CASE AllDispatched
  <2>1. /\ UNCHANGED <<v, epoll, open, evs, levs, ts, deadline>>
        /\ evs = <<>> /\ pc' = "audit"
    BY <1>6 DEF AllDispatched
  <2>2. TypeOK'
    BY <2>1 DEF TypeOK
  <2> QED
    BY <2>1, <2>2, SameTable, SameEvents
<1>7. CASE Audit
  BY <1>7, AuditStep
<1>8. CASE UNCHANGED vars
  <2>1. UNCHANGED <<v, epoll, open, evs, levs, ts, deadline, pc>>
    BY <1>8 DEF vars
  <2>2. TypeOK'
    BY <2>1 DEF TypeOK
  <2> QED
    BY <2>1, <2>2, SameTable, SameEvents
<1> QED
  BY <1>1, <1>2, <1>3, <1>4, <1>5, <1>6, <1>7, <1>8 DEF Next

LEMMA Inductive == Spec => []Inv
BY InvInit, InvNext, PTL DEF Spec

(* Theorem: the table, the epoll set and the events keep their types.      *)
THEOREM TypeCorrect == Spec => []TypeOK
<1>1. Inv => TypeOK
  BY DEF Inv
<1> QED
  BY <1>1, Inductive, PTL

(* Theorem: no event is handled by any other client than the one whose     *)
(* socket it was raised for, although insert() reuses the slots, and the   *)
(* kernel the descriptors, of those which go while events are pending.     *)
THEOREM NoEventIsStale == Spec => []NoStaleEvent
<1>1. Inv => NoStaleEvent
  BY LenProperties DEF Inv, TypeOK, Live, NoStaleEvent
<1> QED
  BY <1>1, Inductive, PTL

(* Theorem: the descriptors which are open, those the epoll set knows and  *)
(* those of the entries are the same, one for each entry; and the vector   *)
(* never grows past the number of descriptors there can be.                *)
THEOREM EntriesOwnTheirFds == Spec => []EntriesOwnFds
<1>1. Inv => EntriesOwnFds
  <2> SUFFICES ASSUME Inv PROVE EntriesOwnFds
    OBVIOUS
  <2>1. DOMAIN v = 1..Len(v) /\ open = DOMAIN epoll
    BY LenProperties DEF Inv, TypeOK
  <2> QED
    BY <2>1 DEF Inv, Table, Owned, SlotsAreBounded, EntriesOwnFds
<1> QED
  BY <1>1, Inductive, PTL

-----------------------------------------------------------------------------
(***************************************************************************)
(* Time.  NoneOverdue is not inductive: it needs that the audit is never   *)
(* further than a Period away, that the loop does not wait again with a    *)
(* deadline passed, and that the last audit left nobody who was older than *)
(* Limit, so that whoever is old now is so only since then.                *)
(***************************************************************************)
AuditIsNear ==
    /\ deadline <= ts + Period
    /\ pc = "wait" => ts <= deadline

Young(s, now, due) == /\ s.since + Limit + Period > due
                      /\ ~(now - s.since >= Limit + Period + Busy + Timeout)

OnTime == AuditIsNear /\ \A n \in 1..Len(v) : IsClient(v[n]) => Young(v[n].session, ts, deadline)

LEMMA Durations ==
    /\ Timeout \in Nat /\ Timeout > 0 /\ Period \in Nat /\ Period > 0
    /\ Limit \in Nat /\ Limit > 0 /\ Busy \in Nat
BY TimeAssumption

LEMMA ClientAges ==
    ASSUME TypeOK, NEW n \in 1..Len(v), IsClient(v[n])
    PROVE  /\ v[n].session.since \in Nat
           /\ v[n].session.active \in BOOLEAN
BY EntryTypes, TimeAssumption DEF Sessions

LEMMA OnTimeInit == Init => OnTime
<1> SUFFICES ASSUME Init PROVE OnTime
  OBVIOUS
<1>1. AuditIsNear
  BY Durations DEF Init, AuditIsNear
<1>2. Len(v) = 1 /\ ~IsClient(v[1])
  BY DEF Init, IsClient, Entry
<1> QED
  BY <1>1, <1>2 DEF OnTime

(* As long as the clock and the deadline stand still *)
LEMMA SameTime ==
    ASSUME TypeOK, TypeOK', OnTime, SinceKept,
           UNCHANGED <<ts, deadline>>, pc' # "wait" \/ pc' = pc
    PROVE  OnTime'
<1>1. ts \in Nat /\ deadline \in Nat /\ ts' = ts /\ deadline' = deadline
  BY TimeAssumption DEF TypeOK
<1>2. AuditIsNear'
  BY <1>1 DEF OnTime, AuditIsNear
<1>3. ASSUME NEW n \in 1..Len(v'), IsClient(v'[n])
      PROVE  Young(v'[n].session, ts', deadline')
  <2>1. CASE n \in 1..Len(v) /\ IsClient(v[n]) /\ v'[n].session.since = v[n].session.since
    BY <1>1, <2>1 DEF OnTime, Young
  <2>2. CASE v'[n].session.since = ts
    <3>1. ts + Limit + Period > deadline /\ ~(ts - ts >= Limit + Period + Busy + Timeout)
      BY <1>1, Durations DEF OnTime, AuditIsNear
    <3> QED
      BY <1>1, <2>2, <3>1 DEF Young
  <2> QED
    BY <1>3, <2>1, <2>2 DEF SinceKept
<1> QED
  BY <1>2, <1>3 DEF OnTime, IsClient

LEMMA WaitOnTime ==
    ASSUME Inv, OnTime, Wait
    PROVE  OnTime'
<1>1. PICK t \in ts..MaxTime : ts' = t /\ (HasClients => t - ts <= Busy + Timeout)
  BY DEF Wait
<1>2. /\ pc = "wait" /\ pc' = "accept" /\ v' = v /\ deadline' = deadline
      /\ deadline \in Nat /\ ts \in Nat /\ t \in Nat /\ ts <= t
  BY <1>1, TimeAssumption DEF Wait, Inv, TypeOK
<1>3. AuditIsNear'
  BY <1>1, <1>2, Durations DEF OnTime, AuditIsNear
<1>4. ASSUME NEW n \in 1..Len(v), IsClient(v[n])
      PROVE  Young(v[n].session, ts', deadline')
  <2>1. HasClients
    BY <1>4, LenProperties DEF HasClients, Inv, TypeOK
  <2> DEFINE since == v[n].session.since
  <2>2. since \in Nat
    BY <1>4, ClientAges DEF Inv
  <2>3. since + Limit + Period > deadline /\ ts <= deadline /\ t - ts <= Busy + Timeout
    BY <1>1, <1>2, <1>4, <2>1 DEF OnTime, Young, AuditIsNear
  <2> HIDE DEF since
  <2>4. ~(t - since >= Limit + Period + Busy + Timeout)
    BY <1>2, <2>2, <2>3, Durations
  <2> QED
    BY <1>1, <1>2, <2>3, <2>4 DEF Young, since
<1> QED
  BY <1>2, <1>3, <1>4 DEF OnTime, IsClient

LEMMA AuditOnTime ==
    ASSUME Inv, OnTime, Audit
    PROVE  OnTime'
<1>1. /\ pc' = "wait" /\ ts' = ts
      /\ ts \in Nat /\ deadline \in Nat
  BY TimeAssumption DEF Audit, Inv, TypeOK
<1>2. CASE Checked(ts) /\ deadline' = NextDeadline(ts) /\ Rm(Doomed)
  <2>1. deadline' \in Nat /\ ts <= deadline' /\ deadline' < ts + Period
    BY <1>1, <1>2, NextDeadlineProperties
  <2>2. AuditIsNear'
    BY <1>1, <2>1, Durations DEF AuditIsNear
  <2>3. Doomed \in SUBSET (1..Len(v))
    BY LenProperties DEF Doomed, Inv, TypeOK
  <2>4. /\ Len(v') = Len(v)
        /\ \A n \in 1..Len(v) : v'[n] = IF n \in Doomed THEN Cleared ELSE v[n]
    BY <1>2, <2>3, RmTypes DEF Inv
  <2>5. ASSUME NEW n \in 1..Len(v'), IsClient(v'[n])
        PROVE  Young(v'[n].session, ts', deadline')
    <3> DEFINE since == v[n].session.since
    <3>1. n \in 1..Len(v) /\ n \notin Doomed /\ v'[n] = v[n] /\ IsClient(v[n])
      BY <2>4, <2>5, ClearedIsEmpty
    <3>2. since \in Nat /\ v[n].session.active \in BOOLEAN
      BY <3>1, ClientAges DEF Inv
    <3>3. ~(ts - since > Limit)
      BY <3>1, <3>2, LenProperties DEF Doomed, Idle, Wedged, Inv, TypeOK
    <3>4. ~(ts - since >= Limit + Period + Busy + Timeout)
      BY <3>1 DEF OnTime, Young
    <3>5. since + Limit + Period > deadline'
      <4> HIDE DEF since
      <4> QED
        BY <1>1, <2>1, <3>2, <3>3, Durations
    <3> QED
      BY <1>1, <3>1, <3>4, <3>5 DEF Young
  <2> QED
    BY <2>2, <2>5 DEF OnTime, IsClient
<1>3. CASE ~Checked(ts) /\ UNCHANGED <<deadline, v, epoll, open>>
  <2>1. AuditIsNear'
    BY <1>1, <1>3 DEF OnTime, AuditIsNear, Checked
  <2> QED
    BY <1>1, <1>3, <2>1 DEF OnTime, Young, IsClient
<1> QED
  BY <1>2, <1>3 DEF Audit

LEMMA OnTimeNext == Inv /\ Inv' /\ OnTime /\ [Next]_vars => OnTime'
<1> SUFFICES ASSUME Inv, Inv', OnTime, [Next]_vars PROVE OnTime'
  OBVIOUS
<1>1. CASE Wait
  BY <1>1, WaitOnTime
<1>2. CASE Accept
  BY <1>2, AcceptStep, SameTime DEF Inv, Accept
<1>3. CASE Dispatch
  BY <1>3, DispatchStep, SameTime DEF Inv, Dispatch
<1>4. CASE Audit
  BY <1>4, AuditOnTime
<1>5. CASE AcceptFails \/ AllAccepted \/ AllDispatched \/ UNCHANGED vars
  <2>1. UNCHANGED <<v, ts, deadline>> /\ (pc' # "wait" \/ pc' = pc)
    BY <1>5 DEF AcceptFails, AllAccepted, AllDispatched, vars
  <2>2. SinceKept
    BY <2>1 DEF SinceKept, IsClient
  <2> QED
    BY <2>1, <2>2, SameTime DEF Inv
<1> QED
  BY <1>1, <1>2, <1>3, <1>4, <1>5 DEF Next

(* Theorem: whatever wakes the loop, and however the deadlines fall, the   *)
(* audit gets to a session before Limit, Period, Busy and Timeout have     *)
(* passed.                                                                 *)
THEOREM NobodyIsOverdue == Spec => []NoneOverdue
<1>1. Inv /\ OnTime => NoneOverdue
  BY LenProperties DEF Inv, TypeOK, OnTime, Young, Overdue, NoneOverdue
<1> QED
  BY <1>1, OnTimeInit, OnTimeNext, Inductive, PTL DEF Spec
=============================================================================
