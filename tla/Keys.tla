-------------------------------- MODULE Keys --------------------------------
(***************************************************************************)
(* class allergy::Keys (allergy/keys.cc): the keywords in the description  *)
(* of a photo, and the description without them.                           *)
(*                                                                         *)
(* A text is a sequence of tokens: the brackets, white-space and words.  A *)
(* word stands for a run of characters which have no meaning to the parser.*)
(***************************************************************************)
EXTENDS Naturals, Sequences, SequencesExt, Lists

Blanks == {" ", "\n"}

(* What texts are made of: line breaks come between the lines of a file *)
Tokens == STRING \cup {"\n"}

-----------------------------------------------------------------------------
(* TextStack: the text, the keys being copied, and those already done. *)
TextStack == [v |-> << <<>> >>, done |-> <<>>, curly |-> FALSE]

Square(t) == Len(t.v) > 1

Pop(t) == [t EXCEPT !.done = Append(@, Last(t.v)), !.v = Front(@)]

(* Faulty: a nested key starts with what its outer key has so far. *)
PushCopying(t) == [t EXCEPT !.v = Append(@, IF Len(@) > 1 THEN Last(@) ELSE <<>>)]

Push(t) == [t EXCEPT !.v = Append(@, <<>>)]

(* A character which is copied to the text and to all open keys. *)
Copy(t, ch) == [t EXCEPT !.v = [i \in DOMAIN @ |-> Append(@[i], ch)]]

(* TextStack::put() *)
Put(t, ch) ==
    CASE t.curly /\ ch = "}"    -> [Pop(t) EXCEPT !.curly = FALSE]
      [] t.curly /\ ch # "}"    -> [t EXCEPT !.v[2] = Append(@, ch)]
      [] ~t.curly /\ ch = "["   -> Push(t)
      [] ~t.curly /\ ch = "]" /\ Square(t)  -> Pop(t)
      [] ~t.curly /\ ch = "{" /\ ~Square(t) -> [Push(t) EXCEPT !.curly = TRUE]
      [] OTHER                  -> Copy(t, ch)

Parsed(text) == FoldLeft(Put, TextStack, text)

(***************************************************************************)
(* squash(): white-space becomes one newline, if there was one in it, or   *)
(* one space, or nothing at the start and at the end.                      *)
(***************************************************************************)
Squash(text) ==
    LET step(x, ch) ==
            IF ch \in Blanks
            THEN [x EXCEPT !.sp = IF "\n" \in {ch, @} THEN "\n" ELSE " "]
            ELSE [s  |-> (IF x.sp # "" /\ x.s # <<>> THEN Append(x.s, x.sp)
                          ELSE x.s) \o <<ch>>,
                  sp |-> ""]
    IN  FoldLeft(step, [s |-> <<>>, sp |-> ""], text).s

(* The keys, including those still open at the end of the text. *)
KeysOf(text) ==
    LET t == Parsed(text) IN t.done \o Tail(t.v)

(* Keys::str(): the text without brackets and without {keys}. *)
TextOf(text) == Squash(Head(Parsed(text).v))

-----------------------------------------------------------------------------
(***************************************************************************)
(* The same, said without a stack.                                         *)
(*                                                                         *)
(* A position is inside curly brackets, or inside a number of square ones; *)
(* never inside both.                                                      *)
(***************************************************************************)
Where(text) ==
    LET f[i \in 0..Len(text)] ==
            IF i = 0 THEN [curly |-> FALSE, depth |-> 0]
            ELSE LET b == f[i - 1]
                     ch == text[i]
                 IN  IF b.curly THEN [b EXCEPT !.curly = ch # "}"]
                     ELSE IF ch = "[" THEN [b EXCEPT !.depth = @ + 1]
                     ELSE IF ch = "]" /\ b.depth > 0
                          THEN [b EXCEPT !.depth = @ - 1]
                     ELSE [b EXCEPT !.curly = ch = "{" /\ b.depth = 0]
    IN  f

(* The positions which only begin or end a key. *)
Brackets(text) ==
    LET at == Where(text)
    IN  {i \in DOMAIN text : at[i].depth # at[i - 1].depth
                             \/ at[i].curly # at[i - 1].curly}

Opens(text) ==
    LET at == Where(text)
    IN  {i \in Brackets(text) : \/ at[i].depth > at[i - 1].depth
                                \/ at[i].curly /\ ~at[i - 1].curly}

(* Where the key which begins at i ends; one past the text if it does not. *)
Closes(text, i) ==
    LET at == Where(text)
        ends == {j \in (i + 1)..Len(text) :
                    IF at[i].curly THEN ~at[j].curly
                    ELSE at[j].depth < at[i].depth}
    IN  IF ends = {} THEN Len(text) + 1
        ELSE CHOOSE j \in ends : \A k \in ends : j <= k

(* The key which begins at i. *)
KeyAt(text, i) ==
    Picked(text, ((i + 1)..(Closes(text, i) - 1)) \ Brackets(text))

-----------------------------------------------------------------------------
(***************************************************************************)
(* Every key which is opened is found, nested, misnested or unterminated   *)
(* (allergy/keys.h 16-30), and nothing else is.                            *)
(***************************************************************************)
AllKeysFound(text) ==
    /\ {KeyAt(text, i) : i \in Opens(text)} = ToSet(KeysOf(text))
    /\ Len(KeysOf(text)) = Cardinality(Opens(text))

(* What is not white-space *)
Words(s) == Picked(s, {i \in DOMAIN s : s[i] \notin Blanks})

(***************************************************************************)
(* The main text is the text without brackets and {keys}, and white-space  *)
(* in it is neither first, last nor adjacent.                              *)
(***************************************************************************)
TextIsStripped(text) ==
    LET at == Where(text)
        kept == {i \in DOMAIN text : ~at[i].curly} \ Brackets(text)
        s == TextOf(text)
    IN  /\ Words(s) = Words(Picked(text, kept))
        /\ \A i \in DOMAIN s : s[i] \in Blanks =>
              /\ i \notin {1, Len(s)}
              /\ s[i - 1] \notin Blanks
=============================================================================
