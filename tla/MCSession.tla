----------------------------- MODULE MCSession ------------------------------
EXTENDS Session

MCEntity(k, s, r) == [kind |-> k, size |-> s, real |-> r, chunked |-> FALSE]
MCErrorEntity == MCEntity("Text", 1, 1)
MCEntities == { MCErrorEntity, MCEntity("None", 0, 0), MCEntity("File", 4, 4), MCEntity("File", 0, 0),
                MCEntity("Image", 2, 2), MCEntity("Image", 2, 1),
                MCEntity("Page", 4, 4),
                [MCEntity("Page", 4, 4) EXCEPT !.chunked = TRUE] }

(* Lines of a script, which is Numbered afterwards *)
First(g, v, x) ==
    [part |-> "first", id |-> 0, get |-> g, v10 |-> v, entity |-> x]
Field == [part |-> "field", id |-> 0]
Bad == [part |-> "bad", id |-> 0]
End == [part |-> "end", id |-> 0]
Long == [part |-> "long", id |-> 0]
Numbered(s) == [i \in DOMAIN s |-> [s[i] EXCEPT !.id = i]]

Get(x) == <<First(TRUE, FALSE, x), End>>
Get10(x) == <<First(TRUE, TRUE, x), Field, End>>
Post == <<First(FALSE, FALSE, MCErrorEntity), End>>
BadGet(x) == <<First(TRUE, FALSE, x), Bad, End>>

MCScripts ==
    { Numbered(Get(MCEntity("File", 4, 4)) \o Get(MCEntity("None", 0, 0)) \o <<Long>>),
      Numbered(Get(MCEntity("Page", 4, 4)) \o Get10(MCEntity("Page", 4, 4)) \o Post),
      Numbered(Get(MCEntity("Image", 2, 2)) \o Get(MCEntity("Image", 2, 1))),
      Numbered(Post \o BadGet(MCEntity("File", 4, 4))) }

(* Well-formed requests only. *)
GoodScripts ==
    { Numbered(Get(MCEntity("File", 4, 4)) \o Get(MCEntity("None", 0, 0))),
      Numbered(Get(MCEntity("Image", 2, 2)) \o Get(MCEntity("Page", 4, 4))) }

AnyGarbage == {"READING", "WRITING"}
NoGarbage == {"READING"}
=============================================================================
