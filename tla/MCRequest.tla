----------------------------- MODULE MCRequest ------------------------------
EXTENDS Request

(* A field in two spellings, two which are unknown, a method in two, and a strange one *)
MCWritten == {Name("Host", "printed"), Name("Host", "mixed"), Name("Request_URI", "lower"),
              Name("X-Odd", "printed"), Name("X-Even", "lower"), Name("GET", "printed"),
              Name("GET", "lower")}
=============================================================================
