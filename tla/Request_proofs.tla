--------------------------- MODULE Request_proofs ---------------------------
(***************************************************************************)
(* Proofs about Request: its types, and that the header fields of a        *)
(* complete request are what the lines said.                               *)
(*                                                                         *)
(* What the lines have said (fields, named as they were spelled) and what  *)
(* the Request stores (properties, where the unknown names are all one)    *)
(* are divided differently.  What they share is, for each property which   *)
(* can be asked for, the first field with its name: Agree.  The offsets    *)
(* are those of the text as long as the text fits; the Request-URI, which  *)
(* is also used when it does not, begins right anyway: UriBegins.          *)
(***************************************************************************)
EXTENDS Request, DataLemmas

(* The properties header() can be asked for *)
Headers == Known \ Methods

(* q[i] is the first entry for prop; f[j] the first field it names. *)
IsFirst(q, i, prop) ==
    /\ q[i].prop = prop
    /\ \A k \in 1..(i - 1) : q[k].prop # prop
IsFirstSaid(f, j, prop) ==
    /\ f[j].spells = prop
    /\ \A k \in 1..(j - 1) : f[k].spells # prop

(* Where the text of q[i] ends, so far *)
End(w, q, i) == IF i = Len(q) THEN Len(w) ELSE q[i + 1].start

Fits(w) == Len(w) <= USHRT_MAX
Offset(w) == Len(w) % (USHRT_MAX + 1)

(* There is no entry and no field for prop yet. *)
Absent(q, f, prop) ==
    /\ \A i \in 1..Len(q) : q[i].prop # prop
    /\ \A j \in 1..Len(f) : f[j].spells # prop

(* The first entry for prop and the first field have the same text; and *)
(* either both are being continued or neither.                          *)
Found(w, q, f, prop) ==
    \E i \in 1..Len(q), j \in 1..Len(f) :
        /\ IsFirst(q, i, prop)
        /\ IsFirstSaid(f, j, prop)
        /\ i = Len(q) <=> j = Len(f)
        /\ Fits(w) => f[j].value = SubSeq(w, q[i].start + 1, End(w, q, i))

Agree(w, q, f, prop) == Absent(q, f, prop) \/ Found(w, q, f, prop)

(* No offset is outside the text. *)
Within(w, q) == Fits(w) => \A i \in 1..Len(q) : q[i].start \in 0..Len(w)

(* The line before named the same property in both views. *)
SameLast(q, f) ==
    \A prop \in Headers : Last(q).prop = prop <=> Last(f).spells = prop

(* The Request-URI comes first, and what ends it is where it ends. *)
UriBegins(w, q, f) ==
    /\ q[1].prop = "Request_URI"
    /\ q[1].start = 0
    /\ f[1].spells = "Request_URI"
    /\ Len(q) = 1 <=> Len(f) = 1
    /\ Len(q) = 1 => f[1].value = w
    /\ Len(q) > 1 => /\ Len(f[1].value) <= Len(w)
                     /\ f[1].value = SubSeq(w, 1, Len(f[1].value))
                     /\ q[2].start = Offset(f[1].value)

(* All of it, after some lines *)
Parsed(w, q, f) ==
    /\ q # <<>>
    /\ f # <<>>
    /\ Within(w, q)
    /\ SameLast(q, f)
    /\ UriBegins(w, q, f)
    /\ \A prop \in Headers : Agree(w, q, f, prop)

(* The same when the request is complete, and only END has been added *)
Ended ==
    /\ Parsed(v, Front(properties), fields)
    /\ Last(properties).start = Offset(v)
    /\ ~broken => Fits(v)

IInv ==
    /\ TypeOK
    /\ ~started => v = <<>> /\ fields = <<>>
    /\ started /\ ~complete => Parsed(v, properties, fields)
    /\ complete => Ended

-----------------------------------------------------------------------------
(* What lies within a text is the same when more has been added. *)
LEMMA CutBefore ==
    ASSUME NEW S, NEW s \in Seq(S), NEW t \in Seq(S), NEW m \in Nat, NEW n \in 0..Len(s)
    PROVE  SubSeq(s \o t, m + 1, n) = SubSeq(s, m + 1, n)
<1>1. Len(s) \in Nat
  BY LenProperties
<1>2. CASE m + 1 <= n
  <2>1. m + 1 \in 1..Len(s) /\ n \in 1..Len(s)
    BY <1>1, <1>2
  <2> QED
    BY <2>1, SubSeqOfConcat1
<1>3. CASE n < m + 1
  <2>1. m + 1 \in Int /\ n \in Int
    BY <1>1
  <2>2. SubSeq(s \o t, m + 1, n) = <<>> /\ SubSeq(s, m + 1, n) = <<>>
    BY <1>3, <2>1, SubSeqEmpty
  <2> QED
    BY <2>2
<1> QED
  BY <1>1, <1>2, <1>3

(* The rest of the longer text is the rest of the old one, and what was added. *)
LEMMA CutToEnd ==
    ASSUME NEW S, NEW s \in Seq(S), NEW t \in Seq(S), NEW m \in 0..Len(s)
    PROVE  SubSeq(s \o t, m + 1, Len(s \o t)) = SubSeq(s, m + 1, Len(s)) \o t
<1> DEFINE st == s \o t
<1>1. /\ Len(s) \in Nat /\ Len(t) \in Nat
      /\ st \in Seq(S)
      /\ Len(st) = Len(s) + Len(t)
  BY LenProperties, ConcatProperties
<1> HIDE DEF st
<1>2. /\ m + 1 \in 1..(Len(st) + 1)
      /\ Len(s) \in ((m + 1) - 1)..Len(st)
      /\ Len(st) \in Len(s)..Len(st)
  BY <1>1
<1>3. SubSeq(st, m + 1, Len(s)) \o SubSeq(st, Len(s) + 1, Len(st)) = SubSeq(st, m + 1, Len(st))
  BY <1>1, <1>2, ConcatAdjacentSubSeq
<1>4. SubSeq(st, m + 1, Len(s)) = SubSeq(s, m + 1, Len(s))
  <2>1. m \in Nat /\ Len(s) \in 0..Len(s)
    BY <1>1
  <2> QED
    BY <2>1, CutBefore DEF st
<1>5. SubSeq(st, Len(s) + 1, Len(st)) = t
  <2>1. CASE t = <<>>
    <3>1. Len(st) < Len(s) + 1 /\ Len(s) + 1 \in Int /\ Len(st) \in Int
      BY <1>1, <2>1
    <3> QED
      BY <2>1, <3>1, SubSeqEmpty
  <2>2. CASE t # <<>>
    <3>1. Len(t) # 0
      BY <2>2, EmptySeq
    <3>2. /\ Len(s) + 1 \in (Len(s) + 1)..(Len(s) + Len(t))
          /\ Len(st) \in (Len(s) + 1)..(Len(s) + Len(t))
          /\ (Len(s) + 1) - Len(s) = 1
          /\ Len(st) - Len(s) = Len(t)
      BY <1>1, <3>1
    <3>3. SubSeq(st, Len(s) + 1, Len(st)) = SubSeq(t, (Len(s) + 1) - Len(s), Len(st) - Len(s))
      BY <3>2, SubSeqOfConcat2 DEF st
    <3> QED
      BY <3>2, <3>3, SubSeqFull
  <2> QED
    BY <2>1, <2>2
<1> QED
  BY <1>3, <1>4, <1>5 DEF st

(* The text has got longer, at its end; and by t. *)
Prolongs(w2, w) ==
    /\ Len(w) \in Nat /\ Len(w2) \in Nat /\ Len(w) <= Len(w2)
    /\ \A m \in Nat, n \in 0..Len(w) : SubSeq(w2, m + 1, n) = SubSeq(w, m + 1, n)
Adds(w2, w, t) ==
    /\ \A m \in 0..Len(w) : SubSeq(w2, m + 1, Len(w2)) = SubSeq(w, m + 1, Len(w)) \o t
    /\ SubSeq(w2, Len(w) + 1, Len(w2)) = t

(* Adding to v is that. *)
LEMMA TextGrows ==
    ASSUME NEW w \in Seq(Octets), NEW t \in Seq(Octets)
    PROVE  Prolongs(w \o t, w) /\ Adds(w \o t, w, t)
<1>1. Len(w) \in Nat /\ Len(w \o t) \in Nat /\ Len(w) <= Len(w \o t)
  BY LenProperties, ConcatProperties
<1>2. SubSeq(w \o t, Len(w) + 1, Len(w \o t)) = SubSeq(w, Len(w) + 1, Len(w)) \o t
  <2>1. Len(w) \in 0..Len(w)
    BY <1>1
  <2> QED
    BY <2>1, CutToEnd
<1>3. SubSeq(w \o t, Len(w) + 1, Len(w \o t)) = t
  <2>1. Len(w) + 1 \in Int /\ Len(w) \in Int /\ Len(w) < Len(w) + 1
    BY <1>1
  <2>2. SubSeq(w, Len(w) + 1, Len(w)) = <<>>
    BY <2>1, SubSeqEmpty
  <2> QED
    BY <1>2, <2>2, ConcatEmptySeq
<1>4. \A m \in Nat, n \in 0..Len(w) : SubSeq(w \o t, m + 1, n) = SubSeq(w, m + 1, n)
  BY CutBefore
<1>5. \A m \in 0..Len(w) :
         SubSeq(w \o t, m + 1, Len(w \o t)) = SubSeq(w, m + 1, Len(w)) \o t
  BY CutToEnd
<1>6. Prolongs(w \o t, w)
  BY <1>1, <1>4 DEF Prolongs
<1> QED
  BY <1>3, <1>5, <1>6 DEF Adds

(* The least i with some property is the one CHOOSE finds. *)
LEMMA Least ==
    ASSUME NEW T \in SUBSET Nat, NEW i \in T, \A j \in T : i <= j
    PROVE  (CHOOSE n \in T : \A j \in T : n <= j) = i
<1> DEFINE c == CHOOSE n \in T : \A j \in T : n <= j
<1>1. c \in T /\ \A j \in T : c <= j
  OBVIOUS
<1> HIDE DEF c
<1>2. c \in Nat /\ i \in Nat /\ c <= i /\ i <= c
  BY <1>1
<1>3. c = i
  BY <1>2
<1> QED
  BY <1>3 DEF c

-----------------------------------------------------------------------------
(***************************************************************************)
(* Names.  In whatever mixture of cases a name is written, Lookup() finds  *)
(* the property if that can be asked for; and it finds no other one.       *)
(***************************************************************************)
LEMMA LookupHeaders ==
    ASSUME NEW name \in Written
    PROVE  /\ Lookup(name) \in Known \cup {"UNKNOWN"}
           /\ \A prop \in Headers : Lookup(name) = prop <=> name.spells = prop
<1>1. name \in [spells : STRING, case : {"printed", "lower", "mixed"}]
  BY NameAssumption
<1>2. name = Name(name.spells, name.case) /\ Tolower(name) = Name(name.spells, "lower")
  BY <1>1 DEF Name, Tolower
<1>3. ASSUME NEW prop \in Headers, name.spells = prop
      PROVE  Lookup(name) = prop
  <2>1. Name(prop, "lower") \in map
    BY <1>3 DEF map, Headers, IsCaseSensitive
  <2> QED
    BY <1>2, <1>3, <2>1 DEF Lookup
<1>4. ASSUME NEW prop \in Headers, Lookup(name) = prop
      PROVE  name.spells = prop
  <2>1. prop # "UNKNOWN"
    BY NameAssumption DEF Headers
  <2> QED
    BY <1>4, <2>1 DEF Lookup
<1>5. \A n \in map : n.spells \in Known
  BY DEF map, Name
<1>6. Tolower(name).spells = name.spells
  BY <1>2 DEF Name
<1>7. Lookup(name) \in Known \cup {"UNKNOWN"}
  BY <1>5, <1>6 DEF Lookup
<1> QED
  BY <1>3, <1>4, <1>7

-----------------------------------------------------------------------------
(***************************************************************************)
(* What a line does to the entries and to the fields: the last one gets    *)
(* more text, or there is a new one.                                       *)
(***************************************************************************)
Field(spells, text) == [spells |-> spells, value |-> text]
Longer(f, t) == [f EXCEPT ![Len(f)].value = @ \o t]

(* An offset is narrow; it is right as long as the text fits. *)
LEMMA OffsetFits ==
    ASSUME NEW w, Len(w) \in Nat
    PROVE  /\ Offset(w) \in 0..USHRT_MAX
           /\ Offset(w) <= Len(w)
           /\ Len(w) <= USHRT_MAX => Offset(w) = Len(w)
<1> DEFINE n == Len(w)
           m == USHRT_MAX
<1>1. n \in Nat /\ m \in Nat
  BY SizeAssumption
<1> HIDE DEF n, m
<1>2. n % (m + 1) \in 0..m /\ n % (m + 1) <= n /\ (n <= m => n % (m + 1) = n)
  BY <1>1
<1> QED
  BY <1>2 DEF n, m, Offset

(* SaysMore() is about the last field only. *)
LEMMA LongerLast ==
    ASSUME NEW f \in Seq(Fields), f # <<>>, NEW t \in Seq(Octets)
    PROVE  /\ Longer(f, t) \in Seq(Fields)
           /\ Len(Longer(f, t)) = Len(f)
           /\ \A k \in 1..(Len(f) - 1) : Longer(f, t)[k] = f[k]
           /\ Longer(f, t)[Len(f)].spells = f[Len(f)].spells
           /\ Longer(f, t)[Len(f)].value = f[Len(f)].value \o t
<1>1. Len(f) \in Nat /\ Len(f) > 0
  BY LenProperties, EmptySeq
<1>0. Len(f) \in 1..Len(f)
  BY <1>1
<1>2. f[Len(f)] \in Fields
  BY <1>0, ElementOfSeq
<1>3. f[Len(f)].value \o t \in Seq(Octets)
  BY <1>2, ConcatProperties DEF Fields
<1>4. [f[Len(f)] EXCEPT !.value = @ \o t] = Field(f[Len(f)].spells, f[Len(f)].value \o t)
  <2>1. \A x \in Fields : \A y : [x EXCEPT !.value = y] = Field(x.spells, y)
    BY DEF Fields, Field
  <2> QED
    BY <1>2, <2>1
<1>5. Longer(f, t) = [f EXCEPT ![Len(f)] = Field(f[Len(f)].spells, f[Len(f)].value \o t)]
  BY <1>4 DEF Longer
<1>6. Field(f[Len(f)].spells, f[Len(f)].value \o t) \in Fields
  BY <1>2, <1>3 DEF Fields, Field
<1> DEFINE e == Field(f[Len(f)].spells, f[Len(f)].value \o t)
           g == [f EXCEPT ![Len(f)] = e]
<1>7. e \in Fields
  BY <1>6
<1>8. Longer(f, t) = g
  BY <1>5
<1> HIDE DEF e
<1>9. /\ g \in Seq(Fields)
      /\ Len(g) = Len(f)
      /\ \A k \in 1..Len(f) : g[k] = IF k = Len(f) THEN e ELSE f[k]
  BY <1>0, <1>7, ExceptSeq
<1> HIDE DEF g
<1>10. \A k \in 1..(Len(f) - 1) : k \in 1..Len(f) /\ k # Len(f)
  BY <1>1
<1>11. (\A k \in 1..(Len(f) - 1) : g[k] = f[k]) /\ g[Len(f)] = e
  BY <1>0, <1>9, <1>10
<1>12. e.spells = f[Len(f)].spells /\ e.value = f[Len(f)].value \o t
  BY DEF e, Field
<1> QED
  BY <1>8, <1>9, <1>11, <1>12

(***************************************************************************)
(* A line which does not continue prop in either view: the text of its     *)
(* first entry ends where it did, or where the line begins.                *)
(***************************************************************************)
OtherEntry(w, q, q2, prop) ==
    /\ Len(q) \in Nat /\ Len(q) > 0
    /\ \A i \in 1..Len(q) : q2[i] = q[i]
    /\ \/ Len(q2) = Len(q) /\ q[Len(q)].prop # prop
       \/ Len(q2) = Len(q) + 1 /\ q2[Len(q) + 1].start = Offset(w)
OtherField(f, f2, prop) ==
    /\ Len(f) \in Nat /\ Len(f) > 0
    /\ \A k \in 1..(Len(f) - 1) : f2[k] = f[k]
    /\ f2[Len(f)].spells = f[Len(f)].spells
    /\ \/ Len(f2) = Len(f) /\ f[Len(f)].spells # prop
       \/ Len(f2) = Len(f) + 1 /\ f2[Len(f)] = f[Len(f)]

(* The first entry stays what the first field says. *)
LEMMA FoundOther ==
    ASSUME NEW w, NEW w2, NEW q, NEW q2, NEW f, NEW f2, NEW prop,
           Prolongs(w2, w), Within(w, q), Found(w, q, f, prop),
           OtherEntry(w, q, q2, prop), OtherField(f, f2, prop)
    PROVE  Found(w2, q2, f2, prop)
<1>1. \A k \in 1..Len(f) : f2[k].spells = f[k].spells
  BY DEF OtherField
<1>2. PICK i \in 1..Len(q), j \in 1..Len(f) :
            /\ IsFirst(q, i, prop)
            /\ IsFirstSaid(f, j, prop)
            /\ i = Len(q) <=> j = Len(f)
            /\ Fits(w) => f[j].value = SubSeq(w, q[i].start + 1, End(w, q, i))
  BY DEF Found
<1>3. i \in 1..Len(q2) /\ j \in 1..Len(f2)
  BY DEF OtherEntry, OtherField
<1>4. IsFirst(q2, i, prop)
  BY <1>2 DEF IsFirst, OtherEntry
<1>5. IsFirstSaid(f2, j, prop)
  <2>1. \A k \in 1..(j - 1) : k \in 1..Len(f)
    BY DEF OtherField
  <2> QED
    BY <1>1, <1>2, <2>1 DEF IsFirstSaid
<1>6. i # Len(q2) /\ j # Len(f2) /\ f2[j] = f[j]
  <2>1. q[i].prop = prop /\ f[j].spells = prop
    BY <1>2 DEF IsFirst, IsFirstSaid
  <2>2. i # Len(q2)
    BY <2>1 DEF OtherEntry
  <2>3. j # Len(f2)
    BY <2>1 DEF OtherField
  <2>4. f2[j] = f[j]
    BY <2>1 DEF OtherField
  <2> QED
    BY <2>2, <2>3, <2>4
<1>7. ASSUME Fits(w2)
      PROVE  f2[j].value = SubSeq(w2, q2[i].start + 1, End(w2, q2, i))
  <2>1. Fits(w) /\ Len(w) \in Nat
    BY <1>7, SizeAssumption DEF Fits, Prolongs
  <2>2. Offset(w) = Len(w)
    BY <2>1, OffsetFits DEF Fits
  <2>3. End(w2, q2, i) = End(w, q, i) /\ End(w, q, i) \in 0..Len(w)
    <3>1. CASE i = Len(q)
      BY <1>2, <1>6, <2>1, <2>2, <3>1 DEF End, IsFirst, OtherEntry
    <3>2. CASE i # Len(q)
      <4>1. i + 1 \in 1..Len(q)
        BY <3>2 DEF OtherEntry
      <4> QED
        BY <1>6, <2>1, <3>2, <4>1 DEF End, Within, OtherEntry
    <3> QED
      BY <3>1, <3>2
  <2>4. q[i].start \in Nat /\ q2[i] = q[i]
    BY <2>1 DEF Within, OtherEntry
  <2>5. SubSeq(w2, q[i].start + 1, End(w, q, i)) = SubSeq(w, q[i].start + 1, End(w, q, i))
    BY <2>3, <2>4 DEF Prolongs
  <2> QED
    BY <1>2, <1>6, <2>1, <2>3, <2>4, <2>5
<1> QED
  BY <1>3, <1>4, <1>5, <1>6, <1>7 DEF Found

(* Whether there is an entry already or none *)
LEMMA AgreeOther ==
    ASSUME NEW w, NEW w2, NEW q, NEW q2, NEW f, NEW f2, NEW prop,
           Prolongs(w2, w), Within(w, q), Agree(w, q, f, prop),
           OtherEntry(w, q, q2, prop), OtherField(f, f2, prop),
           Len(q2) = Len(q) \/ q2[Len(q) + 1].prop # prop,
           Len(f2) = Len(f) \/ f2[Len(f) + 1].spells # prop
    PROVE  Agree(w2, q2, f2, prop)
<1>1. CASE Absent(q, f, prop)
  <2>1. \A i \in 1..Len(q2) : q2[i].prop # prop
    BY <1>1 DEF OtherEntry, Absent
  <2>2. \A k \in 1..Len(f) : f2[k].spells = f[k].spells
    BY DEF OtherField
  <2>3. \A j \in 1..Len(f2) : f2[j].spells # prop
    BY <1>1, <2>2 DEF OtherField, Absent
  <2> QED
    BY <2>1, <2>3 DEF Agree, Absent
<1>2. CASE Found(w, q, f, prop)
  BY <1>2, FoundOther DEF Agree
<1> QED
  BY <1>1, <1>2 DEF Agree

(* A line for prop after one of another name: the first one for it, or one *)
(* which header() does not look at.                                        *)
LEMMA AgreeNew ==
    ASSUME NEW w, NEW w2, NEW t, NEW q, NEW q2, NEW f, NEW f2, NEW prop,
           Prolongs(w2, w), Adds(w2, w, t), Within(w, q), Agree(w, q, f, prop),
           OtherEntry(w, q, q2, prop), OtherField(f, f2, prop),
           Len(q2) = Len(q) + 1, q2[Len(q) + 1].prop = prop,
           Len(f2) = Len(f) + 1, f2[Len(f) + 1].spells = prop, f2[Len(f) + 1].value = t
    PROVE  Agree(w2, q2, f2, prop)
<1>1. CASE Absent(q, f, prop)
  <2> DEFINE i == Len(q) + 1
             j == Len(f) + 1
  <2>1. /\ i \in 1..Len(q2) /\ i = Len(q2)
        /\ j \in 1..Len(f2) /\ j = Len(f2)
    BY DEF OtherEntry, OtherField
  <2>2. IsFirst(q2, i, prop)
    BY <1>1 DEF IsFirst, Absent, OtherEntry
  <2>3. IsFirstSaid(f2, j, prop)
    <3>1. \A k \in 1..Len(f) : f2[k].spells = f[k].spells
      BY DEF OtherField
    <3> QED
      BY <1>1, <3>1 DEF IsFirstSaid, Absent, OtherField
  <2>4. ASSUME Fits(w2)
        PROVE  f2[j].value = SubSeq(w2, q2[i].start + 1, End(w2, q2, i))
    <3>1. Fits(w) /\ Len(w) \in Nat
      BY <2>4, SizeAssumption DEF Fits, Prolongs
    <3>2. q2[i].start = Len(w)
      <4>1. q2[i].start = Offset(w)
        BY DEF OtherEntry
      <4> QED
        BY <3>1, <4>1, OffsetFits DEF Fits
    <3>3. End(w2, q2, i) = Len(w2)
      BY DEF End
    <3> QED
      BY <3>2, <3>3 DEF Adds
  <2> HIDE DEF i, j
  <2> QED
    BY <2>1, <2>2, <2>3, <2>4 DEF Agree, Found
<1>2. CASE Found(w, q, f, prop)
  BY <1>2, FoundOther DEF Agree
<1> QED
  BY <1>1, <1>2 DEF Agree

(* More text for whatever the last line named *)
MoreField(f, g, t) ==
    /\ Len(f) \in Nat /\ Len(f) > 0
    /\ Len(g) = Len(f)
    /\ \A k \in 1..(Len(f) - 1) : g[k] = f[k]
    /\ g[Len(f)].spells = f[Len(f)].spells
    /\ g[Len(f)].value = f[Len(f)].value \o t

(* Both views continue the same one, if they do. *)
LEMMA AgreeMore ==
    ASSUME NEW w, NEW w2, NEW t, NEW q, NEW f, NEW g, NEW prop,
           Prolongs(w2, w), Adds(w2, w, t), Len(q) \in Nat, Len(q) > 0,
           Within(w, q), Agree(w, q, f, prop), MoreField(f, g, t)
    PROVE  Agree(w2, q, g, prop)
<1>1. \A k \in 1..Len(f) : g[k].spells = f[k].spells
  BY DEF MoreField
<1>2. CASE Absent(q, f, prop)
  BY <1>1, <1>2 DEF Agree, Absent, MoreField
<1>3. CASE Found(w, q, f, prop)
  <2>1. PICK i \in 1..Len(q), j \in 1..Len(f) :
              /\ IsFirst(q, i, prop)
              /\ IsFirstSaid(f, j, prop)
              /\ i = Len(q) <=> j = Len(f)
              /\ Fits(w) => f[j].value = SubSeq(w, q[i].start + 1, End(w, q, i))
    BY <1>3 DEF Found
  <2>2. IsFirstSaid(g, j, prop)
    BY <1>1, <2>1 DEF IsFirstSaid, MoreField
  <2>3. ASSUME Fits(w2)
        PROVE  g[j].value = SubSeq(w2, q[i].start + 1, End(w2, q, i))
    <3>1. Fits(w) /\ Len(w) \in Nat
      BY <2>3, SizeAssumption DEF Fits, Prolongs
    <3>2. q[i].start \in 0..Len(w)
      BY <3>1 DEF Within
    <3>3. CASE i = Len(q)
      <4>1. g[j].value = f[j].value \o t
        BY <2>1, <3>3 DEF MoreField
      <4>2. End(w, q, i) = Len(w) /\ End(w2, q, i) = Len(w2)
        BY <3>3 DEF End
      <4>3. SubSeq(w2, q[i].start + 1, Len(w2)) = SubSeq(w, q[i].start + 1, Len(w)) \o t
        BY <3>2 DEF Adds
      <4> QED
        BY <2>1, <3>1, <4>1, <4>2, <4>3
    <3>4. CASE i # Len(q)
      <4>1. g[j] = f[j]
        BY <2>1, <3>4 DEF MoreField
      <4>2. End(w, q, i) = q[i + 1].start /\ End(w2, q, i) = q[i + 1].start
        BY <3>4 DEF End
      <4>3. q[i + 1].start \in 0..Len(w) /\ q[i].start \in Nat
        <5>1. i + 1 \in 1..Len(q)
          BY <3>4
        <5> QED
          BY <3>1, <3>2, <5>1 DEF Within
      <4>4. SubSeq(w2, q[i].start + 1, q[i + 1].start) = SubSeq(w, q[i].start + 1, q[i + 1].start)
        BY <4>3 DEF Prolongs
      <4> QED
        BY <2>1, <3>1, <4>1, <4>2, <4>4
    <3> QED
      BY <3>3, <3>4
  <2>4. i \in 1..Len(q) /\ j \in 1..Len(g) /\ (i = Len(q) <=> j = Len(g))
    BY <2>1 DEF MoreField
  <2> QED
    BY <2>1, <2>2, <2>3, <2>4 DEF Agree, Found
<1> QED
  BY <1>2, <1>3 DEF Agree

-----------------------------------------------------------------------------
(***************************************************************************)
(* A line named r in the entries and s among the fields, with the text t:  *)
(* plain_line() compares its name with the last one, and so do the fields. *)
(***************************************************************************)
NextEntry(w, q, q2, r) ==
    /\ Len(q) \in Nat /\ Len(q) > 0
    /\ \A i \in 1..Len(q) : q2[i] = q[i]
    /\ \/ q2 = q /\ q[Len(q)].prop = r
       \/ /\ Len(q2) = Len(q) + 1
          /\ q[Len(q)].prop # r
          /\ q2[Len(q) + 1].prop = r
          /\ q2[Len(q) + 1].start = Offset(w)
NextField(f, f2, s, t) ==
    /\ Len(f) \in Nat /\ Len(f) > 0
    /\ \A k \in 1..(Len(f) - 1) : f2[k] = f[k]
    /\ f2[Len(f)].spells = f[Len(f)].spells
    /\ \/ /\ Len(f2) = Len(f)
          /\ f[Len(f)].spells = s
          /\ f2[Len(f)].value = f[Len(f)].value \o t
       \/ /\ Len(f2) = Len(f) + 1
          /\ f[Len(f)].spells # s
          /\ f2[Len(f)] = f[Len(f)]
          /\ f2[Len(f) + 1].spells = s
          /\ f2[Len(f) + 1].value = t

(* What the lines say *)
LEMMA FieldType ==
    ASSUME NEW s \in STRING, NEW t \in Seq(Octets)
    PROVE  Field(s, t) \in Fields /\ Field(s, t).spells = s /\ Field(s, t).value = t
  BY DEF Field, Fields

(* What Insert() does to the entries, and SaysField and SaysMore to fields *)
LEMMA EntryIsNext ==
    ASSUME NEW w, NEW q \in Seq(Entries), q # <<>>, NEW e \in Entries, NEW q2,
           e.start = Offset(w),
           q2 = IF Last(q).prop = e.prop THEN q ELSE Append(q, e)
    PROVE  NextEntry(w, q, q2, e.prop)
<1>1. Len(q) \in Nat /\ Len(q) > 0
  BY LenProperties, EmptySeq
<1>2. CASE Last(q).prop = e.prop
  BY <1>1, <1>2 DEF NextEntry, Last
<1>3. CASE Last(q).prop # e.prop
  <2>1. /\ Len(q2) = Len(q) + 1
        /\ \A i \in 1..Len(q) : q2[i] = q[i]
        /\ q2[Len(q) + 1] = e
    BY <1>3, AppendProperties
  <2> QED
    BY <1>1, <1>3, <2>1 DEF NextEntry, Last
<1> QED
  BY <1>2, <1>3

(* The same line among the fields *)
LEMMA FieldIsNext ==
    ASSUME NEW f \in Seq(Fields), f # <<>>, NEW s \in STRING, NEW t \in Seq(Octets), NEW f2,
           f2 = IF Last(f).spells = s THEN Longer(f, t) ELSE Append(f, Field(s, t))
    PROVE  NextField(f, f2, s, t) /\ f2 \in Seq(Fields)
<1>1. Len(f) \in Nat /\ Len(f) > 0
  BY LenProperties, EmptySeq
<1>2. CASE Last(f).spells = s
  BY <1>1, <1>2, LongerLast DEF NextField, Last
<1>3. CASE Last(f).spells # s
  <2>1. Field(s, t) \in Fields /\ Field(s, t).spells = s /\ Field(s, t).value = t
    BY DEF Field, Fields
  <2>2. /\ f2 \in Seq(Fields)
        /\ Len(f2) = Len(f) + 1
        /\ \A i \in 1..Len(f) : f2[i] = f[i]
        /\ f2[Len(f) + 1] = Field(s, t)
    BY <1>3, <2>1, AppendProperties
  <2> QED
    BY <1>1, <1>3, <2>1, <2>2 DEF NextField, Last
<1> QED
  BY <1>2, <1>3

(* Whichever way a line is stored, each property keeps agreeing. *)
LEMMA AgreeNext ==
    ASSUME NEW w, NEW w2, NEW t, NEW u, NEW q, NEW q2, NEW f, NEW f2, NEW r, NEW s,
           NEW prop, r = prop => u = t,
           Prolongs(w2, w), Adds(w2, w, t), Within(w, q), Agree(w, q, f, prop),
           NextEntry(w, q, q2, r), NextField(f, f2, s, u),
           r = prop <=> s = prop,
           q[Len(q)].prop = prop <=> f[Len(f)].spells = prop
    PROVE  Agree(w2, q2, f2, prop)
<1>1. CASE r = prop /\ q[Len(q)].prop = prop
  <2>1. q2 = q /\ Len(q) \in Nat /\ Len(q) > 0
    BY <1>1 DEF NextEntry
  <2>2. MoreField(f, f2, t)
    BY <1>1 DEF NextField, MoreField
  <2> QED
    BY <2>1, <2>2, AgreeMore
<1>2. CASE r = prop /\ q[Len(q)].prop # prop
  <2>1. /\ OtherEntry(w, q, q2, prop)
        /\ Len(q2) = Len(q) + 1
        /\ q2[Len(q) + 1].prop = prop
    BY <1>2 DEF NextEntry, OtherEntry
  <2>2. /\ OtherField(f, f2, prop)
        /\ Len(f2) = Len(f) + 1
        /\ f2[Len(f) + 1].spells = prop
        /\ f2[Len(f) + 1].value = t
    BY <1>2 DEF NextField, OtherField
  <2> QED
    BY <2>1, <2>2, AgreeNew
<1>3. CASE r # prop
  <2>1. /\ OtherEntry(w, q, q2, prop)
        /\ Len(q2) = Len(q) \/ q2[Len(q) + 1].prop # prop
    BY <1>3 DEF NextEntry, OtherEntry
  <2>2. /\ OtherField(f, f2, prop)
        /\ Len(f2) = Len(f) \/ f2[Len(f) + 1].spells # prop
    BY <1>3 DEF NextField, OtherField
  <2> QED
    BY <2>1, <2>2, AgreeOther
<1> QED
  BY <1>1, <1>2, <1>3

(* What has a length is not empty. *)
LEMMA NotEmpty ==
    ASSUME NEW q, Len(q) > 0
    PROVE  q # <<>>
<1>1. Len(<<>>) = 0
  BY EmptySeq
<1> QED
  BY <1>1

(* The Request-URI is continued only by fields of that name. *)
LEMMA UriNext ==
    ASSUME NEW w \in Seq(Octets), NEW t \in Seq(Octets), NEW u, NEW q, NEW q2,
           NEW f \in Seq(Fields), NEW f2, NEW r, NEW s, r = "Request_URI" => u = t,
           UriBegins(w, q, f), SameLast(q, f),
           NextEntry(w, q, q2, r), NextField(f, f2, s, u),
           r = "Request_URI" <=> s = "Request_URI"
    PROVE  UriBegins(w \o t, q2, f2)
<1> DEFINE w2 == w \o t
<1>1. Prolongs(w2, w)
  BY TextGrows
<1>2. /\ q2[1] = q[1]
      /\ f2[1].spells = f[1].spells
  BY DEF NextEntry, NextField
<1>0. Len(q) \in Nat /\ Len(q) > 0 /\ Len(f) \in Nat /\ Len(f) > 0
  BY DEF NextEntry, NextField
<1>3. f[1].value \in Seq(Octets) /\ Len(f[1].value) \in Nat
  <2>1. f[1] \in Fields
    BY ElementOfSeq DEF NextField
  <2> QED
    BY <2>1, LenProperties DEF Fields
<1>4. w = SubSeq(w, 1, Len(w))
  BY SubSeqFull
<1>w. w2 = w \o t
  OBVIOUS
<1> HIDE DEF w2
<1>5. CASE Len(q) = 1 /\ r = "Request_URI"
  <2>1. q2 = q /\ q[1].prop = "Request_URI"
    BY <1>5 DEF NextEntry, UriBegins
  <2>2. Len(f) = 1 /\ f[1].value = w /\ f[1].spells = "Request_URI"
    BY <1>5 DEF UriBegins
  <2>3. Len(f2) = 1 /\ f2[1].value = f[1].value \o t
    BY <1>5, <2>2 DEF NextField
  <2>4. /\ Len(q2) = 1 /\ ~(Len(q2) > 1)
        /\ f2[1].value = w2
        /\ q2[1].prop = "Request_URI" /\ q2[1].start = 0 /\ f2[1].spells = "Request_URI"
    <3>1. Len(q2) = 1 /\ ~(Len(q2) > 1)
      BY <1>0, <1>5, <2>1, MoreThanOne
    <3>2. f2[1].value = w2
      BY <1>w, <2>2, <2>3
    <3>3. q2[1].prop = "Request_URI" /\ q2[1].start = 0
      BY <2>1 DEF UriBegins
    <3> QED
      BY <1>2, <2>2, <3>1, <3>2, <3>3
  <2>5. UriBegins(w2, q2, f2)
    BY <2>3, <2>4 DEF UriBegins
  <2> QED
    BY <1>w, <2>5
<1>6. CASE Len(q) = 1 /\ r # "Request_URI"
  <2>1. Len(f) = 1 /\ f[1].value = w /\ f[1].spells = "Request_URI"
    BY <1>6 DEF UriBegins
  <2>2. Len(q2) = 2 /\ q2[2].start = Offset(w)
    BY <1>6 DEF NextEntry, UriBegins
  <2>3. Len(f2) = 2 /\ f2[1] = f[1]
    BY <1>6, <2>1 DEF NextField
  <2>4. SubSeq(w2, 1, Len(w)) = w /\ Len(w) <= Len(w2)
    <3>1. 0 \in Nat /\ Len(w) \in 0..Len(w) /\ 0 + 1 = 1
      BY <1>1 DEF Prolongs
    <3>2. SubSeq(w2, 0 + 1, Len(w)) = SubSeq(w, 0 + 1, Len(w))
      BY <1>1, <3>1 DEF Prolongs
    <3> QED
      BY <1>1, <1>4, <3>1, <3>2 DEF Prolongs
  <2> QED
    BY <1>2, <1>w, <2>1, <2>2, <2>3, <2>4 DEF UriBegins
<1>7. CASE Len(q) # 1
  <2> DEFINE n == Len(f[1].value)
  <2>1. /\ Len(q) > 1 /\ Len(f) > 1
        /\ n <= Len(w)
        /\ f[1].value = SubSeq(w, 1, n)
        /\ q[2].start = Offset(f[1].value)
    <3>1. Len(q) > 1
      BY <1>0, <1>7, MoreThanOne
    <3>2. Len(f) # 1
      BY <1>7 DEF UriBegins
    <3>3. Len(f) > 1
      BY <1>0, <3>2, MoreThanOne
    <3> QED
      BY <3>1, <3>3 DEF UriBegins
  <2>2. Len(q2) > 1 /\ q2[2] = q[2]
    BY <2>1 DEF NextEntry
  <2>3. Len(f2) > 1 /\ f2[1] = f[1]
    BY <2>1 DEF NextField
  <2>4. SubSeq(w2, 1, n) = SubSeq(w, 1, n) /\ n <= Len(w2)
    <3>1. 0 \in Nat /\ n \in 0..Len(w) /\ 0 + 1 = 1 /\ n <= Len(w2)
      BY <1>1, <1>3, <2>1 DEF Prolongs
    <3>2. SubSeq(w2, 0 + 1, n) = SubSeq(w, 0 + 1, n)
      BY <1>1, <3>1 DEF Prolongs
    <3> QED
      BY <3>1, <3>2
  <2>5. /\ Len(q2) # 1 /\ Len(f2) # 1
        /\ f2[1].value = f[1].value
        /\ q2[2].start = Offset(f[1].value)
    BY <2>1, <2>2, <2>3 DEF NextEntry, NextField
  <2> HIDE DEF n
  <2>6. /\ Len(f2[1].value) <= Len(w2)
        /\ f2[1].value = SubSeq(w2, 1, Len(f2[1].value))
    BY <2>1, <2>4, <2>5 DEF n
  <2> QED
    BY <1>2, <1>w, <2>2, <2>3, <2>5, <2>6 DEF UriBegins
<1> QED
  BY <1>5, <1>6, <1>7

(* Another line keeps everything, provided that its two names are the same *)
(* to whoever asks for a header.                                           *)
LEMMA ParsedNext ==
    ASSUME NEW w \in Seq(Octets), NEW t \in Seq(Octets), NEW u, NEW q, NEW q2,
           NEW f \in Seq(Fields), NEW f2, NEW r, NEW s, r \in Headers => u = t,
           Parsed(w, q, f),
           NextEntry(w, q, q2, r), NextField(f, f2, s, u),
           \A prop \in Headers : r = prop <=> s = prop
    PROVE  Parsed(w \o t, q2, f2)
<1> DEFINE w2 == w \o t
<1>1. Prolongs(w2, w) /\ Adds(w2, w, t)
  BY TextGrows
<1>2. UriBegins(w2, q2, f2)
  BY UriNext, NameAssumption DEF Parsed, Headers
<1> HIDE DEF w2
<1>3. Within(w2, q2)
  <2> SUFFICES ASSUME Fits(w2), NEW i \in 1..Len(q2)
               PROVE  q2[i].start \in 0..Len(w2)
    BY DEF Within
  <2>1. Fits(w) /\ Len(w) \in Nat /\ Len(w2) \in Nat /\ Len(w) <= Len(w2)
    BY <1>1, SizeAssumption DEF Fits, Prolongs
  <2>2. CASE i \in 1..Len(q)
    <3>1. q2[i] = q[i] /\ q[i].start \in 0..Len(w)
      BY <2>1, <2>2 DEF NextEntry, Parsed, Within
    <3> QED
      BY <2>1, <3>1
  <2>3. CASE i \notin 1..Len(q)
    <3>1. q2[i].start = Offset(w)
      BY <2>3 DEF NextEntry
    <3> QED
      BY <2>1, <3>1, OffsetFits DEF Fits
  <2> QED
    BY <2>2, <2>3
<1>4. Last(q2).prop = r /\ Last(f2).spells = s
  BY DEF NextEntry, NextField, Last
<1>5. SameLast(q2, f2)
  BY <1>4 DEF SameLast
<1>6. ASSUME NEW prop \in Headers
      PROVE  Agree(w2, q2, f2, prop)
  <2>1. (r = prop <=> s = prop) /\ (r = prop => u = t)
    OBVIOUS
  <2>2. q[Len(q)].prop = prop <=> f[Len(f)].spells = prop
    BY DEF Parsed, SameLast, Last
  <2>3. Within(w, q) /\ Agree(w, q, f, prop)
    BY DEF Parsed
  <2> QED
    BY <1>1, <2>1, <2>2, <2>3, AgreeNext
<1>7. q2 # <<>> /\ f2 # <<>>
  <2>1. Len(q2) > 0 /\ Len(f2) > 0
    BY DEF NextEntry, NextField
  <2> QED
    BY <2>1, NotEmpty
<1> QED
  BY <1>2, <1>3, <1>5, <1>6, <1>7 DEF Parsed, w2

(* The Request-URI alone *)
LEMMA ParsedFirst ==
    ASSUME NEW w \in Seq(Octets), NEW q, NEW f,
           Len(q) = 1, q[1].prop = "Request_URI", q[1].start = 0,
           Len(f) = 1, f[1].spells = "Request_URI", f[1].value = w
    PROVE  Parsed(w, q, f)
<1>1. Len(w) \in Nat /\ SubSeq(w, 0 + 1, Len(w)) = w
  <2>1. 0 + 1 = 1
    OBVIOUS
  <2> QED
    BY <2>1, LenProperties, SubSeqFull
<1>2. q # <<>> /\ f # <<>>
  <2>1. Len(q) > 0 /\ Len(f) > 0
    OBVIOUS
  <2> QED
    BY <2>1, NotEmpty
<1>3. Within(w, q)
  BY <1>1 DEF Within
<1>4. SameLast(q, f)
  BY DEF SameLast, Last
<1>5. UriBegins(w, q, f)
  BY DEF UriBegins
<1>6. ASSUME NEW prop \in Headers
      PROVE  Agree(w, q, f, prop)
  <2>1. CASE prop = "Request_URI"
    <3>1. IsFirst(q, 1, prop) /\ IsFirstSaid(f, 1, prop)
      BY <2>1 DEF IsFirst, IsFirstSaid
    <3>2. f[1].value = SubSeq(w, q[1].start + 1, End(w, q, 1))
      BY <1>1 DEF End
    <3>3. 1 \in 1..Len(q) /\ 1 \in 1..Len(f)
      OBVIOUS
    <3> QED
      BY <3>1, <3>2, <3>3 DEF Agree, Found
  <2>2. CASE prop # "Request_URI"
    BY <2>2 DEF Agree, Absent
  <2> QED
    BY <2>1, <2>2
<1> QED
  BY <1>2, <1>3, <1>4, <1>5, <1>6 DEF Parsed

-----------------------------------------------------------------------------
(* The text of a line *)
LEMMA TextType ==
    ASSUME lines \in Nat, NEW n \in Nat
    PROVE  /\ Text(n) \in Seq(Octets)
           /\ Delim \o Text(n) \in Seq(Octets)
           /\ Blank \o Text(n) \in Seq(Octets)
<1>1. Text(n) \in Seq(Octets)
  BY DEF Text, Octets
<1>2. Delim \in Seq(Octets) /\ Blank \in Seq(Octets)
  BY DEF Delim, Blank, Octets
<1> QED
  BY <1>1, <1>2, ConcatProperties

(* An entry which insert() makes *)
LEMMA EntryType ==
    ASSUME v \in Seq(Octets), NEW prop \in Known \cup {"UNKNOWN", "END"}
    PROVE  /\ [prop |-> prop, start |-> Offset(v)] \in Entries
           /\ [prop |-> prop, start |-> Offset(v)].prop = prop
           /\ [prop |-> prop, start |-> Offset(v)].start = Offset(v)
<1>1. Len(v) \in Nat
  BY LenProperties
<1>2. Offset(v) \in 0..USHRT_MAX
  BY <1>1, OffsetFits
<1> QED
  BY <1>2 DEF Entries

(* FirstLine: the Request-URI starts at 0. *)
LEMMA FirstLineKeeps == IInv /\ FirstLine => IInv'
<1> SUFFICES ASSUME IInv, FirstLine PROVE IInv'
  OBVIOUS
<1>1. /\ v = <<>> /\ properties = <<>> /\ fields = <<>> /\ ~complete
      /\ lines \in Nat /\ broken \in BOOLEAN
  BY DEF IInv, TypeOK, FirstLine
<1>2. PICK n \in 0..MaxLine :
            /\ Insert("Request_URI", Text(n))
            /\ fields' = SaysField("Request_URI", Text(n))
  BY DEF FirstLine
<1>3. Text(n) \in Seq(Octets)
  BY <1>1, TextType, SizeAssumption
<1> DEFINE e == [prop |-> "Request_URI", start |-> Offset(v)]
           g == Field("Request_URI", Text(n))
<1>4. v \in Seq(Octets) /\ properties \in Seq(Entries) /\ fields \in Seq(Fields)
  BY DEF IInv, TypeOK
<1>5. e \in Entries /\ e.prop = "Request_URI" /\ e.start = Offset(v)
  BY <1>4, EntryType, NameAssumption
<1>6. e.start = 0
  <2>1. Len(v) = 0
    BY <1>1, EmptySeq
  <2> QED
    BY <1>5, <2>1, OffsetFits, SizeAssumption
<1>7. g \in Fields /\ g.spells = "Request_URI" /\ g.value = Text(n)
  <2>1. "Request_URI" \in STRING
    BY NameAssumption
  <2>2. /\ Field("Request_URI", Text(n)) \in Fields
        /\ Field("Request_URI", Text(n)).spells = "Request_URI"
        /\ Field("Request_URI", Text(n)).value = Text(n)
    BY <1>3, <2>1, FieldType
  <2> QED
    BY <2>2
<1>8. /\ v' = v \o Text(n)
      /\ properties' = Append(properties, e)
      /\ fields' = Append(fields, g)
  BY <1>2 DEF Insert, SaysField, Offset, Field
<1> HIDE DEF e, g
<1>9. v' \in Seq(Octets) /\ v' = Text(n)
  BY <1>1, <1>3, <1>8, ConcatEmptySeq
<1>10. /\ properties' \in Seq(Entries)
       /\ properties' # <<>>
       /\ Len(properties') = 1
       /\ properties'[1] = e
  <2>1. Len(properties) = 0
    BY <1>1, EmptySeq
  <2>2. /\ properties' \in Seq(Entries)
        /\ Len(properties') = Len(properties) + 1
        /\ properties'[Len(properties) + 1] = e
    BY <1>4, <1>5, <1>8, AppendProperties
  <2>3. Len(properties') = 1 /\ Len(properties') > 0 /\ properties'[1] = e
    BY <2>1, <2>2
  <2> QED
    BY <2>2, <2>3, NotEmpty
<1>11. fields' \in Seq(Fields) /\ Len(fields') = 1 /\ fields'[1] = g
  <2>1. Len(fields) = 0
    BY <1>1, EmptySeq
  <2> QED
    BY <1>4, <1>7, <1>8, <2>1, AppendProperties
<1>12. Parsed(v', properties', fields')
  BY <1>5, <1>6, <1>7, <1>9, <1>10, <1>11, ParsedFirst
<1>13. /\ started' = TRUE /\ complete' = FALSE /\ broken' \in BOOLEAN
       /\ lines' \in Nat
  BY <1>1 DEF FirstLine, IInv, TypeOK
<1>14. TypeOK'
  BY <1>9, <1>10, <1>11, <1>13 DEF TypeOK
<1> QED
  BY <1>12, <1>13, <1>14 DEF IInv

(* A line which is stored under one name and said under another, which are *)
(* the same to header()                                                    *)
LEMMA LineKeeps ==
    ASSUME IInv, started, ~complete, NEW r, NEW s, NEW t \in Seq(Octets), NEW u,
           r \in Headers => u = t,
           v' = v \o t, properties' \in Seq(Entries), fields' \in Seq(Fields),
           NextEntry(v, properties, properties', r), NextField(fields, fields', s, u),
           \A prop \in Headers : r = prop <=> s = prop,
           started' = started, complete' = complete, broken' \in BOOLEAN, lines' \in Nat
    PROVE  IInv'
<1>1. v \in Seq(Octets) /\ fields \in Seq(Fields) /\ Parsed(v, properties, fields)
  BY DEF IInv, TypeOK
<1>2. Parsed(v \o t, properties', fields')
  BY <1>1, ParsedNext
<1>3. v' \in Seq(Octets)
  BY <1>1, ConcatProperties
<1>4. properties' # <<>>
  BY <1>2 DEF Parsed
<1>5. TypeOK'
  BY <1>3, <1>4 DEF TypeOK, IInv
<1> QED
  BY <1>2, <1>5 DEF IInv

(* A line without a colon leaves everything but broken as it was. *)
LEMMA BadLineKeeps ==
    ASSUME IInv, started, ~complete,
           UNCHANGED <<v, properties, started, complete, fields>>,
           broken' \in BOOLEAN, lines' \in Nat
    PROVE  IInv'
<1>1. TypeOK'
  BY DEF IInv, TypeOK, Last
<1> QED
  BY <1>1 DEF IInv

(* PlainLine: an entry is continued when its property is the same, which is *)
(* not always when the names are.                                           *)
LEMMA PlainLineKeeps == IInv /\ PlainLine => IInv'
<1> SUFFICES ASSUME IInv, PlainLine PROVE IInv'
  OBVIOUS
<1>1. /\ started /\ ~complete /\ UNCHANGED <<started, complete>>
      /\ lines \in Nat /\ lines' \in Nat /\ broken \in BOOLEAN
  BY DEF IInv, TypeOK, PlainLine, Continues
<1>2. CASE broken' = TRUE /\ UNCHANGED <<v, properties, fields>>
  BY <1>1, <1>2, BadLineKeeps
<1>3. CASE /\ \E name \in Written, n \in 0..MaxLine :
                 /\ IF Last(properties).prop = Lookup(name) THEN Extend(Delim \o Text(n))
                    ELSE Insert(Lookup(name), Text(n))
                 /\ fields' = IF Last(fields).spells = name.spells
                              THEN SaysMore(Delim \o Text(n))
                              ELSE SaysField(name.spells, Text(n))
           /\ UNCHANGED broken
  <2>1. PICK name \in Written, n \in 0..MaxLine :
                 /\ IF Last(properties).prop = Lookup(name) THEN Extend(Delim \o Text(n))
                    ELSE Insert(Lookup(name), Text(n))
                 /\ fields' = IF Last(fields).spells = name.spells
                              THEN SaysMore(Delim \o Text(n))
                              ELSE SaysField(name.spells, Text(n))
    BY <1>3
  <2> DEFINE r == Lookup(name)
             s == name.spells
             e == [prop |-> r, start |-> Offset(v)]
             t == IF Last(properties).prop = r THEN Delim \o Text(n) ELSE Text(n)
             u == IF Last(fields).spells = s THEN Delim \o Text(n) ELSE Text(n)
  <2>2. /\ v \in Seq(Octets) /\ properties \in Seq(Entries) /\ fields \in Seq(Fields)
        /\ Parsed(v, properties, fields)
        /\ properties # <<>> /\ fields # <<>>
    BY <1>1 DEF IInv, TypeOK, Parsed
  <2>3. t \in Seq(Octets) /\ u \in Seq(Octets)
    BY <1>1, TextType, SizeAssumption
  <2>4. r \in Known \cup {"UNKNOWN"} /\ \A prop \in Headers : r = prop <=> s = prop
    BY LookupHeaders
  <2>5. s \in STRING
    BY NameAssumption
  <2>6. r \in Headers => u = t
    <3>1. \A prop \in Headers : Last(properties).prop = prop <=> Last(fields).spells = prop
      BY <2>2 DEF Parsed, SameLast
    <3> QED
      BY <2>4, <3>1
  <2>7. e \in Entries /\ e.prop = r /\ e.start = Offset(v)
    BY <2>2, <2>4, EntryType
  <2>8. properties' = IF Last(properties).prop = r THEN properties ELSE Append(properties, e)
    BY <2>1 DEF Extend, Insert, Offset
  <2>9. v' = v \o t
    BY <2>1 DEF Extend, Insert
  <2>10. fields' = IF Last(fields).spells = s THEN Longer(fields, u) ELSE Append(fields, Field(s, u))
    BY <2>1 DEF SaysMore, SaysField, Longer, Field
  <2> HIDE DEF r, s, e, t, u
  <2>11. NextEntry(v, properties, properties', r)
    BY <2>2, <2>7, <2>8, EntryIsNext
  <2>12. properties' \in Seq(Entries)
    BY <2>2, <2>7, <2>8, AppendProperties
  <2>13. NextField(fields, fields', s, u) /\ fields' \in Seq(Fields)
    BY <2>2, <2>3, <2>5, <2>10, FieldIsNext
  <2>14. broken' \in BOOLEAN
    BY <1>1, <1>3
  <2> QED
    BY <1>1, <2>3, <2>4, <2>6, <2>9, <2>11, <2>12, <2>13, <2>14, LineKeeps
<1> QED
  BY <1>2, <1>3 DEF PlainLine

(* ContLine: more for both of the last ones; between them there is nothing *)
(* that header() could tell apart.                                         *)
LEMMA ContLineKeeps == IInv /\ ContLine => IInv'
<1> SUFFICES ASSUME IInv, ContLine PROVE IInv'
  OBVIOUS
<1>1. /\ started /\ ~complete /\ UNCHANGED <<started, complete>>
      /\ lines \in Nat /\ lines' \in Nat /\ broken' \in BOOLEAN
  BY DEF IInv, TypeOK, ContLine, Continues
<1>2. PICK n \in 1..MaxLine :
            /\ Extend(Blank \o Text(n))
            /\ fields' = SaysMore(Blank \o Text(n))
  BY DEF ContLine
<1> DEFINE r == Last(properties).prop
           s == Last(fields).spells
           t == Blank \o Text(n)
<1>3. /\ v \in Seq(Octets) /\ properties \in Seq(Entries) /\ fields \in Seq(Fields)
      /\ Parsed(v, properties, fields)
      /\ properties # <<>> /\ fields # <<>>
  BY <1>1 DEF IInv, TypeOK, Parsed
<1>4. t \in Seq(Octets)
  BY <1>1, TextType, SizeAssumption
<1>5. v' = v \o t /\ properties' = properties /\ fields' = Longer(fields, t)
  BY <1>2 DEF Extend, SaysMore, Longer
<1>6. \A prop \in Headers : r = prop <=> s = prop
  BY <1>3 DEF Parsed, SameLast
<1>7. NextEntry(v, properties, properties', r)
  <2>1. Len(properties) \in Nat /\ Len(properties) > 0
    BY <1>3, LenProperties, EmptySeq
  <2> QED
    BY <1>5, <2>1 DEF NextEntry, Last
<1>8. s \in STRING
  <2>1. Len(fields) \in 1..Len(fields)
    BY <1>3, LenProperties, EmptySeq
  <2>2. fields[Len(fields)] \in Fields
    BY <1>3, <2>1, ElementOfSeq
  <2> QED
    BY <2>2 DEF Fields, Last
<1>9. NextField(fields, fields', s, t) /\ fields' \in Seq(Fields)
  <2>1. fields' = IF Last(fields).spells = s THEN Longer(fields, t)
                  ELSE Append(fields, Field(s, t))
    BY <1>5
  <2> HIDE DEF s, t
  <2> QED
    BY <1>3, <1>4, <1>8, <2>1, FieldIsNext
<1> HIDE DEF r, s, t
<1> QED
  BY <1>1, <1>3, <1>4, <1>5, <1>6, <1>7, <1>9, LineKeeps

(* EndLine: END is added, and the request is broken if the text does not fit. *)
LEMMA EndLineKeeps == IInv /\ EndLine => IInv'
<1> SUFFICES ASSUME IInv, EndLine PROVE IInv'
  OBVIOUS
<1>1. /\ started /\ ~complete /\ UNCHANGED <<started, fields>> /\ complete' = TRUE
      /\ lines' \in Nat
      /\ broken' = (broken \/ TooLarge) /\ broken \in BOOLEAN
  BY DEF IInv, TypeOK, EndLine
<1>2. /\ v \in Seq(Octets) /\ properties \in Seq(Entries) /\ fields \in Seq(Fields)
      /\ Parsed(v, properties, fields)
  BY <1>1 DEF IInv, TypeOK
<1> DEFINE e == [prop |-> "END", start |-> Offset(v)]
<1>3. e \in Entries /\ e.prop = "END" /\ e.start = Offset(v)
  BY <1>2, EntryType
<1>4. v' = v /\ properties' = Append(properties, e)
  <2>1. v \o <<>> = v
    BY <1>2, ConcatEmptySeq
  <2> QED
    BY <2>1 DEF EndLine, Insert, Offset
<1> HIDE DEF e
<1>5. /\ properties' \in Seq(Entries)
      /\ properties' # <<>>
      /\ Last(properties') = e
      /\ Front(properties') = properties
  <2>1. /\ properties' \in Seq(Entries)
        /\ properties' # <<>>
        /\ Len(properties') = Len(properties) + 1
        /\ properties'[Len(properties) + 1] = e
        /\ properties' = properties \o <<e>>
    BY <1>2, <1>3, <1>4, AppendProperties, AppendIsConcat
  <2>2. Last(properties') = e
    BY <2>1 DEF Last
  <2>3. Len(properties) \in Nat
    BY <1>2, LenProperties
  <2>4. Len(properties') - 1 = Len(properties) /\ Len(properties) \in 0..Len(properties)
    BY <2>1, <2>3
  <2>5. SubSeq(properties \o <<e>>, 0 + 1, Len(properties)) = SubSeq(properties, 0 + 1, Len(properties))
    <3>1. <<e>> \in Seq(Entries)
      BY <1>3
    <3> QED
      BY <1>2, <2>4, <3>1, CutBefore
  <2>6. 0 + 1 = 1 /\ SubSeq(properties, 1, Len(properties)) = properties
    BY <1>2, SubSeqFull
  <2> QED
    BY <2>1, <2>2, <2>4, <2>5, <2>6 DEF Front
<1>6. ~broken' => Fits(v)
  <2>1. Len(v) \in Nat
    BY <1>2, LenProperties
  <2>2. TooLarge \/ Fits(v)
    BY <2>1, SizeAssumption DEF TooLarge, Fits
  <2> QED
    BY <1>1, <2>2
<1>7. broken' \in BOOLEAN
  BY <1>1 DEF TooLarge
<1>8. TypeOK'
  BY <1>1, <1>2, <1>3, <1>4, <1>5, <1>7 DEF TypeOK
<1>9. Ended'
  BY <1>1, <1>2, <1>3, <1>4, <1>5, <1>6 DEF Ended
<1> QED
  BY <1>1, <1>8, <1>9 DEF IInv

-----------------------------------------------------------------------------
(* Said() is about the first field. *)
LEMMA SaidFirst ==
    ASSUME fields \in Seq(Fields), NEW prop, NEW j \in 1..Len(fields), IsFirstSaid(fields, j, prop)
    PROVE  Said(prop) = fields[j].value
<1> DEFINE found == {i \in DOMAIN fields : fields[i].spells = prop}
<1>1. DOMAIN fields = 1..Len(fields) /\ Len(fields) \in Nat
  BY LenProperties
<1>2. found \in SUBSET Nat /\ j \in found
  BY <1>1 DEF IsFirstSaid
<1>3. \A i \in found : j <= i
  BY <1>1 DEF IsFirstSaid
<1> HIDE DEF found
<1>4. (CHOOSE i \in found : \A k \in found : i <= k) = j
  BY <1>2, <1>3, Least
<1>5. found # {}
  BY <1>2
<1> QED
  BY <1>4, <1>5 DEF Said, found

(* header() returns the first entry, or nothing. *)
LEMMA HeaderFirst ==
    ASSUME properties \in Seq(Entries), NEW prop, NEW i \in 1..(Len(properties) - 1),
           IsFirst(properties, i, prop)
    PROVE  Header(prop) = Value(i)
<1> DEFINE found == {k \in 1..(Len(properties) - 1) : properties[k].prop = prop}
<1>1. Len(properties) \in Nat
  BY LenProperties
<1>2. found \in SUBSET Nat /\ i \in found
  BY <1>1 DEF IsFirst
<1>3. \A k \in found : i <= k
  BY <1>1 DEF IsFirst
<1> HIDE DEF found
<1>4. (CHOOSE k \in found : \A j \in found : k <= j) = i
  BY <1>2, <1>3, Least
<1>5. found # {}
  BY <1>2
<1> QED
  BY <1>4, <1>5 DEF Header, found

(* What the invariant says about a complete request *)
LEMMA EndedIsExact == IInv => HeadersAreExact
<1> SUFFICES ASSUME IInv, complete PROVE HeadersAreExact
  BY DEF HeadersAreExact
<1> DEFINE q == Front(properties)
<1>1. /\ v \in Seq(Octets) /\ properties \in Seq(Entries) /\ fields \in Seq(Fields)
      /\ properties # <<>>
      /\ Last(properties).start = Offset(v)
      /\ ~broken => Fits(v)
  BY DEF IInv, TypeOK, Ended
<1>2. Parsed(v, q, fields)
  BY DEF IInv, Ended
<1>3. Len(v) \in Nat /\ Len(fields) \in Nat /\ Len(properties) \in Nat
  BY <1>1, LenProperties
<1>4. /\ Len(q) = Len(properties) - 1
      /\ Len(q) \in Nat
      /\ \A i \in 1..Len(q) : q[i] = properties[i]
      /\ properties[Len(q) + 1].start = Offset(v)
  <2>1. Len(properties) > 0
    BY <1>1, EmptySeq
  <2>2. 1 \in Int /\ Len(properties) - 1 \in Int /\ Len(properties) \in 1..Len(properties)
    BY <1>3, <2>1
  <2>3. \A i \in 1..(Len(properties) - 1) : properties[i] \in Entries
    <3>1. \A i \in 1..(Len(properties) - 1) : i \in 1..Len(properties)
      BY <1>3
    <3> QED
      BY <1>1, <3>1, ElementOfSeq
  <2>4. /\ Len(q) = IF 1 <= Len(properties) - 1 THEN (Len(properties) - 1) - 1 + 1 ELSE 0
        /\ \A i \in 1..((Len(properties) - 1) - 1 + 1) : q[i] = properties[1 + i - 1]
    BY <2>2, <2>3, SubSeqProperties DEF Front
  <2> HIDE DEF q
  <2>5. Len(q) = Len(properties) - 1 /\ Len(q) \in Nat
    <3>1. \A m \in Nat : m > 0 => /\ m - 1 \in Nat
                                /\ (IF 1 <= m - 1 THEN (m - 1) - 1 + 1 ELSE 0) = m - 1
      OBVIOUS
    <3> QED
      BY <1>3, <2>1, <2>4, <3>1
  <2>6. \A i \in 1..Len(q) : q[i] = properties[i]
    <3>1. \A i \in 1..Len(q) : i \in 1..((Len(properties) - 1) - 1 + 1) /\ 1 + i - 1 = i
      BY <1>3, <2>5
    <3> QED
      BY <2>4, <3>1
  <2>7. Len(q) + 1 = Len(properties)
    BY <1>3, <2>5
  <2> QED
    BY <1>1, <2>5, <2>6, <2>7 DEF Last
<1> HIDE DEF q
<1>5. Len(q) > 0 /\ Len(fields) > 0
  BY <1>1, <1>2, <1>3, <1>4, EmptySeq DEF Parsed
(* Where an entry ends, when the text fits *)
<1>6. ASSUME Fits(v), NEW i \in 1..Len(q)
      PROVE  properties[i + 1].start = End(v, q, i)
  <2>1. CASE i = Len(q)
    <3>1. Offset(v) = Len(v)
      BY <1>3, <1>6, OffsetFits DEF Fits
    <3> QED
      BY <1>4, <2>1, <3>1 DEF End
  <2>2. CASE i # Len(q)
    <3>1. i + 1 \in 1..Len(q)
      BY <1>4, <2>2
    <3> QED
      BY <1>4, <2>2, <3>1 DEF End
  <2> QED
    BY <2>1, <2>2
<1>7. ASSUME ~broken, NEW prop \in Headers
      PROVE  Header(prop) = Said(prop)
  <2>1. CASE Absent(q, fields, prop)
    <3>1. {i \in 1..(Len(properties) - 1) : properties[i].prop = prop} = {}
      BY <1>4, <2>1 DEF Absent
    <3>2. {j \in DOMAIN fields : fields[j].spells = prop} = {}
      BY <1>1, <2>1, LenProperties DEF Absent
    <3> QED
      BY <3>1, <3>2 DEF Header, Said
  <2>2. CASE Found(v, q, fields, prop)
    <3>1. PICK i \in 1..Len(q), j \in 1..Len(fields) :
                /\ IsFirst(q, i, prop)
                /\ IsFirstSaid(fields, j, prop)
                /\ i = Len(q) <=> j = Len(fields)
                /\ Fits(v) => fields[j].value = SubSeq(v, q[i].start + 1, End(v, q, i))
      BY <2>2 DEF Found
    <3>2. Said(prop) = fields[j].value
      BY <1>1, <3>1, SaidFirst
    <3>3. i \in 1..(Len(properties) - 1)
      BY <1>4
    <3>4. IsFirst(properties, i, prop)
      <4>1. \A k \in 1..(i - 1) : k \in 1..Len(q)
        BY <1>4
      <4> QED
        BY <1>4, <3>1, <4>1 DEF IsFirst
    <3>5. Header(prop) = Value(i)
      BY <1>1, <3>3, <3>4, HeaderFirst
    <3>6. Value(i) = SubSeq(v, q[i].start + 1, End(v, q, i))
      BY <1>1, <1>4, <1>6, <1>7 DEF Value
    <3> QED
      BY <1>1, <1>7, <3>1, <3>2, <3>5, <3>6
  <2> QED
    BY <1>2, <2>1, <2>2 DEF Parsed, Agree
<1> DEFINE uri == fields[1].value
           n == properties[2].start
<1>8. /\ properties[1].start = 0
      /\ Said("Request_URI") = uri
      /\ uri \in Seq(Octets)
      /\ Len(uri) \in Nat
      /\ Len(uri) <= Len(v)
      /\ uri = SubSeq(v, 1, Len(uri))
      /\ n = Offset(uri)
  <2>1. UriBegins(v, q, fields) /\ 1 \in 1..Len(q) /\ 1 \in 1..Len(fields)
    BY <1>2, <1>3, <1>4, <1>5 DEF Parsed
  <2>2. properties[1] = q[1]
    BY <1>4, <2>1
  <2>3. IsFirstSaid(fields, 1, "Request_URI")
    BY <2>1 DEF UriBegins, IsFirstSaid
  <2>4. Said("Request_URI") = uri
    BY <1>1, <2>1, <2>3, SaidFirst
  <2>5. uri \in Seq(Octets) /\ Len(uri) \in Nat
    <3>1. fields[1] \in Fields
      BY <1>1, <2>1, ElementOfSeq
    <3> QED
      BY <3>1, LenProperties DEF Fields
  <2>6. CASE Len(q) = 1
    <3>1. uri = v
      BY <2>1, <2>6 DEF UriBegins
    <3>2. n = Offset(v)
      <4>1. 1 + 1 = 2
        OBVIOUS
      <4> QED
        BY <1>4, <2>6, <4>1
    <3>3. SubSeq(v, 1, Len(v)) = v
      BY <1>1, SubSeqFull
    <3>4. Len(uri) <= Len(v)
      BY <1>3, <3>1
    <3> QED
      BY <2>1, <2>2, <2>4, <2>5, <3>1, <3>2, <3>3, <3>4 DEF UriBegins
  <2>7. CASE Len(q) # 1
    <3>1. Len(q) > 1
      BY <1>4, <1>5, <2>7, MoreThanOne
    <3>2. 2 \in 1..Len(q)
      BY <1>4, <3>1
    <3>3. properties[2] = q[2]
      BY <1>4, <3>2
    <3> QED
      BY <2>1, <2>2, <2>4, <2>5, <3>1, <3>3 DEF UriBegins
  <2> QED
    BY <2>6, <2>7
<1>9. Value(1) = SubSeq(v, 1, n)
  <2>1. 0 + 1 = 1 /\ 1 + 1 = 2
    OBVIOUS
  <2> QED
    BY <1>8, <2>1 DEF Value
<1> HIDE DEF uri, n
<1>10. ~broken => Value(1) = Said("Request_URI")
  <2> SUFFICES ASSUME ~broken PROVE Value(1) = Said("Request_URI")
    OBVIOUS
  <2>1. Len(uri) <= USHRT_MAX
    BY <1>1, <1>3, <1>8, SizeAssumption DEF Fits
  <2>2. n = Len(uri)
    BY <1>8, <2>1, OffsetFits
  <2> QED
    BY <1>8, <1>9, <2>2
<1>11. IsPrefix(Value(1), Said("Request_URI"))
  <2>1. n \in Nat /\ n <= Len(uri)
    BY <1>8, OffsetFits
  <2>2. n \in 0..Len(v) /\ n \in 0..Len(uri) /\ Len(uri) \in 0..Len(v)
    BY <1>3, <1>8, <2>1
  <2>3. Len(SubSeq(v, 1, n)) = n
    BY <1>1, <2>2, CutInTwo
  <2>4. SubSeq(v, 1, n) = SubSeq(uri, 1, n)
    <3> DEFINE rest == SubSeq(v, Len(uri) + 1, Len(v))
    <3>1. rest \in Seq(Octets) /\ uri \o rest = v
      BY <1>1, <1>8, <2>2, CutInTwo
    <3> HIDE DEF rest
    <3>2. SubSeq(uri \o rest, 0 + 1, n) = SubSeq(uri, 0 + 1, n)
      BY <1>8, <2>2, <3>1, CutBefore
    <3>3. 0 + 1 = 1
      OBVIOUS
    <3> QED
      BY <3>1, <3>2, <3>3
  <2>5. SubSeq(SubSeq(v, 1, n), 1, n) = SubSeq(v, 1, n)
    <3>1. SubSeq(v, 1, n) \in Seq(Octets)
      BY <1>1, <2>2, CutInTwo
    <3> QED
      BY <2>3, <3>1, SubSeqFull
  <2> QED
    BY <1>8, <1>9, <2>1, <2>3, <2>4, <2>5 DEF IsPrefix
<1> QED
  BY <1>7, <1>10, <1>11 DEF HeadersAreExact, Headers

-----------------------------------------------------------------------------
(* What is parsed and what has been said agree, always. *)
THEOREM Inductive == Spec => []IInv
<1>1. Init => IInv
  <2>1. ASSUME Init
        PROVE  TypeOK
    <3>1. v \in Seq(Octets) /\ properties \in Seq(Entries) /\ fields \in Seq(Fields)
      BY <2>1, EmptySeq DEF Init
    <3>2. ~started /\ properties = <<>> /\ ~complete /\ lines \in Nat
      BY <2>1 DEF Init
    <3>3. started \in BOOLEAN /\ complete \in BOOLEAN /\ broken \in BOOLEAN
      BY <2>1 DEF Init
    <3> QED
      BY <3>1, <3>2, <3>3 DEF TypeOK
  <2> QED
    BY <2>1 DEF Init, IInv
<1>2. IInv /\ [Next]_vars => IInv'
  <2> SUFFICES ASSUME IInv, [Next]_vars PROVE IInv'
    OBVIOUS
  <2>1. CASE FirstLine
    BY <2>1, FirstLineKeeps
  <2>2. CASE PlainLine
    BY <2>2, PlainLineKeeps
  <2>3. CASE ContLine
    BY <2>3, ContLineKeeps
  <2>4. CASE EndLine
    BY <2>4, EndLineKeeps
  <2>5. CASE UNCHANGED vars
    BY <2>5 DEF vars, IInv, TypeOK, Ended, Fits, Offset, Front, Last, Parsed
  <2> QED
    BY <2>1, <2>2, <2>3, <2>4, <2>5 DEF Next
<1> QED
  BY <1>1, <1>2, PTL DEF Spec

(* Every variable keeps its type: in particular, no offset is wider than *)
(* an unsigned short, and END is last in a complete request.             *)
THEOREM TypeCorrect == Spec => []TypeOK
<1>1. IInv => TypeOK
  BY DEF IInv
<1> QED
  BY <1>1, Inductive, PTL

(***************************************************************************)
(* header() and request_uri() of a complete request which is not broken    *)
(* return what the lines said, for every set of names, every length of a   *)
(* line and of an unsigned short; the Request-URI of one whose text does   *)
(* not fit is a beginning of it.                                           *)
(***************************************************************************)
THEOREM HeadersAreAlwaysExact == Spec => []HeadersAreExact
<1> QED
  BY EndedIsExact, Inductive, PTL
=============================================================================
