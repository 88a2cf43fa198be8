------------------------------ MODULE Pipeline ------------------------------
(***************************************************************************)
(* What a Session promises (session.h, "the logical view is two possibly   *)
(* infinite sequences of requests and responses"): the requests are        *)
(* answered in the order they were received, one at a time, until the      *)
(* session ends; and a request is not answered before it is complete.      *)
(***************************************************************************)
EXTENDS Naturals, Sequences

VARIABLES
    asked,  \* requests received, by number
    begun,  \* requests whose response has begun
    ended,  \* how many of those responses have ended
    up      \* the session has not ended

vars == <<asked, begun, ended, up>>

Init == asked = <<>> /\ begun = <<>> /\ ended = 0 /\ up = TRUE

(* Some requests arrive, in the order they were sent. *)
Ask ==
    /\ Len(asked) <= Len(asked')
    /\ asked = SubSeq(asked', 1, Len(asked))
    /\ \A i \in 1..(Len(asked') - 1) : asked'[i] < asked'[i + 1]

(* At most one response ends, and then at most one begins, the next in line. *)
Answer ==
    /\ ended' \in ended..Len(begun)
    /\ \/ begun' = begun
       \/ /\ ended' = Len(begun)
          /\ Len(begun) < Len(asked')
          /\ begun' = Append(begun, asked'[Len(begun) + 1])

Next == up = TRUE /\ up' \in BOOLEAN /\ Ask /\ Answer

Spec == Init /\ [][Next]_vars
=============================================================================
