------------------------------- MODULE Request ------------------------------
(***************************************************************************)
(* Parsing a HTTP request line by line (request.cc).  The text of the      *)
(* Request-URI and of the header fields is collected in one vector v, and  *)
(* each of them is known by the offset where it starts, an unsigned short; *)
(* it ends where the next one starts.                                      *)
(*                                                                         *)
(* The octets of a line are numbered, <<line, octet>>.  A name as it is    *)
(* written is the property it spells and how: as names.cc prints it, in    *)
(* lower case, or in another mixture of cases.  What the method and version*)
(* are looked up to be is left out; Session.tla has what follows from it.  *)
(* names.cc also knows "Request-URI", and the methods, as names of fields. *)
(***************************************************************************)
EXTENDS Naturals, Sequences, SequencesExt

CONSTANTS
    Known,      \* the properties in names.cc which can name a field
    Methods,    \* those of them which are methods
    Written,    \* names on the lines: [spells, case]
    USHRT_MAX,  \* the largest unsigned short (65535)
    MaxLine,    \* most octets taken from one line (8000)
    MaxLines    \* bound on the lines after the first one

ASSUME NameAssumption == /\ {"END", "UNKNOWN"} \cap Known = {}
                         /\ Methods \subseteq Known
                         /\ "Request_URI" \in Known \ Methods
                         /\ Known \subseteq STRING
                         /\ Written \subseteq [spells : STRING,
                                              case : {"printed", "lower", "mixed"}]
ASSUME SizeAssumption == /\ USHRT_MAX \in Nat
                         /\ MaxLine \in Nat
                         /\ MaxLines \in Nat
                         /\ MaxLine <= USHRT_MAX

VARIABLES
    v,           \* the text
    properties,  \* the entries, in order
    started,     \* first_line() has been called: method is not END
    complete,
    broken,
    lines,       \* how many lines there have been
    fields       \* an auxiliary variable: what the lines have said

vars == <<v, properties, started, complete, broken, lines, fields>>

Init ==
    /\ v = <<>>
    /\ properties = <<>>
    /\ started = FALSE
    /\ complete = FALSE
    /\ broken = FALSE
    /\ lines = 0
    /\ fields = <<>>

-----------------------------------------------------------------------------
Name(prop, case) == [spells |-> prop, case |-> case]

IsCaseSensitive(prop) == prop \in Methods

(* Names::Names() *)
map == {Name(prop, "printed") : prop \in Known}
       \cup {Name(prop, "lower") : prop \in {k \in Known : ~IsCaseSensitive(k)}}

Tolower(name) == [name EXCEPT !.case = "lower"]

(* Faulty: only names which are spelled as in names.cc are known. *)
LookupPrinted(name) == IF name \in map THEN name.spells ELSE "UNKNOWN"

(* Names::lookup() *)
Lookup(name) ==
    IF {name, Tolower(name)} \cap map # {} THEN name.spells ELSE "UNKNOWN"

-----------------------------------------------------------------------------
Text(n) == [i \in 1..n |-> <<lines + 1, i>>]
Delim == <<<<0, 1>>, <<0, 2>>>>  \* ", "
Blank == <<<<0, 2>>>>

(* Faulty: an offset is not narrowed. *)
InsertWide(prop, text) ==
    /\ properties' = Append(properties, [prop |-> prop, start |-> Len(v)])
    /\ v' = v \o text

(* insert(): the offset is v.size() as an unsigned short *)
Insert(prop, text) ==
    /\ properties' = Append(properties, [prop |-> prop,
                                         start |-> Len(v) % (USHRT_MAX + 1)])
    /\ v' = v \o text

(* More text for the latest property. *)
Extend(text) ==
    /\ v' = v \o text
    /\ UNCHANGED properties

(* What the line says, for fields: a field, more of the same field, or more *)
(* of whatever field it is                                                 *)
SaysField(spells, text) == Append(fields, [spells |-> spells, value |-> text])
SaysMore(text) == [fields EXCEPT ![Len(fields)].value = @ \o text]

FirstLine ==
    /\ ~started
    /\ \E n \in 0..MaxLine :
          /\ Insert("Request_URI", Text(n))
          /\ fields' = SaysField("Request_URI", Text(n))
    /\ started' = TRUE
    /\ lines' = lines + 1
    /\ UNCHANGED <<complete, broken>>

Continues == started /\ ~complete /\ lines <= MaxLines

(***************************************************************************)
(* A line which does not start with whitespace; or does, but there is only *)
(* the Request-URI yet.  Without a colon it makes the request broken.      *)
(***************************************************************************)
PlainLine ==
    /\ Continues
    /\ \/ /\ broken' = TRUE
          /\ UNCHANGED <<v, properties, fields>>
       \/ /\ \E name \in Written, n \in 0..MaxLine :
                /\ IF Last(properties).prop = Lookup(name) THEN Extend(Delim \o Text(n))
                   ELSE Insert(Lookup(name), Text(n))
                /\ fields' = IF Last(fields).spells = name.spells
                             THEN SaysMore(Delim \o Text(n))
                             ELSE SaysField(name.spells, Text(n))
          /\ UNCHANGED broken
    /\ lines' = lines + 1
    /\ UNCHANGED <<started, complete>>

(* A line which starts with whitespace; one blank is kept. *)
ContLine ==
    /\ Continues
    /\ Len(properties) # 1
    /\ \E n \in 1..MaxLine :
          /\ Extend(Blank \o Text(n))
          /\ fields' = SaysMore(Blank \o Text(n))
    /\ lines' = lines + 1
    /\ UNCHANGED <<started, complete, broken>>

(* The text does not fit the offsets. *)
TooLarge == Len(v) > USHRT_MAX

EndLine ==
    /\ started /\ ~complete
    /\ complete' = TRUE
    /\ broken' = (broken \/ TooLarge)
    /\ Insert("END", <<>>)
    /\ lines' = lines + 1
    /\ UNCHANGED <<started, fields>>

Next == FirstLine \/ PlainLine \/ ContLine \/ EndLine

Spec == Init /\ [][Next]_vars

-----------------------------------------------------------------------------
(* The value of property i, in header() and in request_uri() *)
Value(i) == SubSeq(v, properties[i].start + 1, properties[i + 1].start)

(* header(), of the first entry for prop; nothing, if there is none *)
Header(prop) ==
    LET found == {i \in 1..(Len(properties) - 1) : properties[i].prop = prop}
    IN  IF found = {} THEN <<>>
        ELSE Value(CHOOSE i \in found : \A j \in found : i <= j)

-----------------------------------------------------------------------------
Octets == Nat \X Nat
Entries == [prop : Known \cup {"UNKNOWN", "END"}, start : 0..USHRT_MAX]
Fields == [spells : STRING, value : Seq(Octets)]

TypeOK ==
    /\ v \in Seq(Octets)
    /\ properties \in Seq(Entries)
    /\ started \in BOOLEAN
    /\ complete \in BOOLEAN
    /\ broken \in BOOLEAN
    /\ lines \in Nat
    /\ fields \in Seq(Fields)
    /\ started <=> properties # <<>>
    /\ complete => started /\ Last(properties).prop = "END"

Said(prop) ==
    LET found == {i \in DOMAIN fields : fields[i].spells = prop}
    IN  IF found = {} THEN <<>>
        ELSE fields[CHOOSE i \in found : \A j \in found : i <= j].value

(***************************************************************************)
(* A complete request which is not broken has all its header fields right, *)
(* however their names are spelled, and its Request-URI: the narrow        *)
(* offsets, the joining of repeated fields, the unknown ones which all     *)
(* share a name and the continuation lines never mix up one field's text   *)
(* with another's.  pop_req() also logs the Request-URI of a broken request*)
(* whose text does not fit the offsets: that is at least a beginning of it,*)
(* and within bounds.                                                      *)
(***************************************************************************)
HeadersAreExact ==
    complete =>
        /\ ~broken => \A prop \in Known \ Methods : Header(prop) = Said(prop)
        /\ ~broken => Value(1) = Said("Request_URI")
        /\ IsPrefix(Value(1), Said("Request_URI"))
=============================================================================
