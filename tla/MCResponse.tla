----------------------------- MODULE MCResponse -----------------------------
EXTENDS Response

(* Every kind of response; files and images also in shrunken and empty form. *)
MCEntity(k, s, r, c) == [kind |-> k, size |-> s, real |-> r, chunked |-> c]

MCEntities ==
    { MCEntity("None", 0, 0, FALSE), MCEntity("Text", 1, 1, FALSE),
      MCEntity("Text", 5, 5, FALSE),
      MCEntity("File", 0, 0, FALSE), MCEntity("File", 5, 5, FALSE),
      MCEntity("File", 5, 4, FALSE),
      MCEntity("Image", 0, 0, FALSE), MCEntity("Image", 5, 5, FALSE),
      MCEntity("Image", 5, 4, FALSE),
      MCEntity("Page", 3, 3, FALSE), MCEntity("Page", 3, 3, TRUE) }
=============================================================================
