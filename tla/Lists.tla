------------------------------- MODULE Lists --------------------------------
(***************************************************************************)
(* Some elements of a sequence: what a loop with a push_back() collects.   *)
(***************************************************************************)
EXTENDS Naturals, Sequences

(* The elements of s at the positions S, in their order *)
Picked(s, S) ==
    LET f[i \in 0..Len(s)] ==
            IF i = 0 THEN <<>>
            ELSE IF i \in S THEN Append(f[i - 1], s[i])
            ELSE f[i - 1]
    IN  f[Len(s)]

(* Those positions themselves: of a sequence as long as s *)
Places(s, S) == Picked([i \in DOMAIN s |-> i], S)
=============================================================================
