---------------------------- MODULE MCTextReader ----------------------------
EXTENDS TextReader

(* Everything of 6 octets, CR and LF in every position. *)
MCStreams == [1..6 -> Octet]
MCEndLine == <<"CR", "LF">>
=============================================================================
