----------------------------- MODULE Thumbnail ------------------------------
(***************************************************************************)
(* Requests for the thumbnail of one photo: Content::thumbnail() and       *)
(* allergy::thumbnail(), which runs djpeg and cjpeg as child processes     *)
(* connected by a pipe, and waits for them.                                *)
(*                                                                         *)
(* One step is one or a few system calls of one of the three processes.    *)
(* djpeg and cjpeg are not part of the repository: their steps are what    *)
(* thumbnail.cc expects of them, and either may die at any time.           *)
(***************************************************************************)
EXTENDS Naturals, FiniteSets

CONSTANTS
    Size,      \* of the decoded image, in pieces
    Capacity   \* of the pipe, in pieces

ASSUME SizeAssumption == Size \in Nat \ {0} /\ Capacity \in Nat \ {0}

VARIABLES
    pc,       \* where the server is
    readers,  \* processes with a descriptor for the pipe's read end
    writers,  \* ... and for its write end
    c, d,     \* the state of cjpeg and of djpeg, see States
    pipe,     \* pieces in the pipe
    left,     \* pieces djpeg has yet to write
    got,      \* pieces cjpeg has read
    file,     \* the thumbnail: "none", "empty" (or incomplete) or "whole"
    answer,   \* to the latest request
    made,     \* thumbnails made so far, an auxiliary variable
    unforked  \* a fork() of djpeg has failed, an auxiliary variable

ends == <<readers, writers>>
data == <<pipe, left, got>>
ghosts == <<made, unforked>>
vars == <<pc, readers, writers, c, d, pipe, left, got, file, answer, made,
          unforked>>

(* "ok" and "failed" are those of a zombie, until waitpid(2). *)
States == {"none", "forked", "running", "ok", "failed"}
Exited == {"ok", "failed"}

Init ==
    /\ pc = "idle"
    /\ readers = {} /\ writers = {}
    /\ c = "none" /\ d = "none"
    /\ pipe = 0 /\ left = 0 /\ got = 0
    /\ file = "none"
    /\ answer = "none"
    /\ made = 0
    /\ unforked = FALSE

-----------------------------------------------------------------------------
(* The server answers, with an image or an error. *)
Answers(a) ==
    /\ answer' = a
    /\ pc' = "idle"

(***************************************************************************)
(* open<response::Image>(): an Image with what is in the file, or, if it   *)
(* cannot be opened, 404 or 500.                                           *)
(***************************************************************************)
OpensImage ==
    \/ file # "none" /\ Answers(file)
    \/ \E a \in {"404", "500"} : Answers(a)

Requested ==
    /\ pc = "idle"
    /\ \/ OpensImage
       \/ /\ file = "none"
          /\ pc' = "pipeline"
          /\ UNCHANGED answer
    /\ UNCHANGED <<ends, c, d, data, file, ghosts>>

(* mkdir() and pipe2(2), either of which may fail *)
Pipeline ==
    /\ pc = "pipeline"
    /\ \/ /\ Answers("404")
          /\ UNCHANGED <<ends, data>>
       \/ /\ readers' = {"server"} /\ writers' = {"server"}
          /\ pipe' = 0 /\ left' = Size /\ got' = 0
          /\ pc' = "fork_cjpeg"
          /\ UNCHANGED answer
    /\ UNCHANGED <<c, d, file, ghosts>>

(* fork() of cjpeg, and close(rfd) *)
ForkCjpeg ==
    /\ pc = "fork_cjpeg"
    /\ \/ /\ c' = "forked"
          /\ readers' = {"cjpeg"} /\ writers' = writers \cup {"cjpeg"}
          /\ pc' = "fork_djpeg"
          /\ UNCHANGED answer
       \/ /\ readers' = {} /\ writers' = {}
          /\ Answers("404")
          /\ UNCHANGED c
    /\ UNCHANGED <<d, data, file, ghosts>>

(* Faulty: the server keeps the write end while it waits. *)
ForkDjpegOpen ==
    /\ pc = "fork_djpeg"
    /\ \/ /\ d' = "forked"
          /\ writers' = writers \cup {"djpeg"}
          /\ pc' = "wait_cjpeg"
          /\ UNCHANGED unforked
       \/ /\ pc' = "wait_alone"
          /\ unforked' = TRUE
          /\ UNCHANGED <<d, writers>>
    /\ UNCHANGED <<readers, c, data, file, answer, made>>

(* Faulty: djpeg inherits the read end, too. *)
ForkDjpegInheriting ==
    /\ pc = "fork_djpeg"
    /\ d' = "forked"
    /\ readers' = readers \cup {"djpeg"}
    /\ writers' = (writers \cup {"djpeg"}) \ {"server"}
    /\ pc' = "wait_cjpeg"
    /\ UNCHANGED <<c, data, file, answer, ghosts>>

(* fork() of djpeg, and close(wfd) *)
ForkDjpeg ==
    /\ pc = "fork_djpeg"
    /\ \/ /\ d' = "forked"
          /\ writers' = (writers \cup {"djpeg"}) \ {"server"}
          /\ pc' = "wait_cjpeg"
          /\ UNCHANGED unforked
       \/ /\ writers' = writers \ {"server"}
          /\ pc' = "wait_alone"
          /\ unforked' = TRUE
          /\ UNCHANGED d
    /\ UNCHANGED <<readers, c, data, file, answer, made>>

(* There is no djpeg. *)
WaitAlone ==
    /\ pc = "wait_alone"
    /\ c \in Exited
    /\ c' = "none"
    /\ Answers("404")
    /\ UNCHANGED <<ends, d, data, file, ghosts>>

(* cjpeg's status is kept in c until both have exited. *)
WaitCjpeg ==
    /\ pc = "wait_cjpeg"
    /\ c \in Exited
    /\ pc' = "wait_djpeg"
    /\ UNCHANGED <<ends, c, d, data, file, answer, ghosts>>

(* Faulty: nobody waits for djpeg if cjpeg has failed. *)
WaitDjpegLess ==
    /\ pc = "wait_djpeg"
    /\ c = "ok" => d \in Exited
    /\ c' = "none"
    /\ \/ /\ c = "ok"
          /\ d' = "none"
          /\ IF d = "ok" THEN pc' = "made" /\ UNCHANGED answer
                         ELSE Answers("404")
          /\ UNCHANGED file
       \/ /\ c = "failed"
          /\ file' = "none"
          /\ Answers("404")
          /\ UNCHANGED d
    /\ UNCHANGED <<ends, data, ghosts>>

(* Faulty: the thumbnail of a djpeg which failed is removed, and never of cjpeg. *)
WaitDjpegUnlinking ==
    /\ pc = "wait_djpeg"
    /\ d \in Exited
    /\ c' = "none" /\ d' = "none"
    /\ file' = IF d = "failed" THEN "none" ELSE file
    /\ IF c = "ok" /\ d = "ok" THEN pc' = "made" /\ UNCHANGED answer
                               ELSE Answers("404")
    /\ UNCHANGED <<ends, data, ghosts>>

(* The file is removed if cjpeg failed, and not if only djpeg did. *)
WaitDjpeg ==
    /\ pc = "wait_djpeg"
    /\ d \in Exited
    /\ c' = "none" /\ d' = "none"
    /\ file' = IF c = "failed" THEN "none" ELSE file
    /\ IF c = "ok" /\ d = "ok" THEN pc' = "made" /\ UNCHANGED answer
                               ELSE Answers("404")
    /\ UNCHANGED <<ends, data, ghosts>>

Made ==
    /\ pc = "made"
    /\ OpensImage
    /\ UNCHANGED <<ends, c, d, data, file, ghosts>>

Server == Requested \/ Pipeline \/ ForkCjpeg \/ ForkDjpeg
          \/ WaitAlone \/ WaitCjpeg \/ WaitDjpeg \/ Made

-----------------------------------------------------------------------------
CjpegExits(status) ==
    /\ c' = status
    /\ readers' = readers \ {"cjpeg"}
    /\ writers' = writers \ {"cjpeg"}

(* close(wfd), and execvp(3) of cjpeg, which opens the file for writing *)
CjpegStarts ==
    /\ c = "forked"
    /\ \/ /\ c' = "running"
          /\ writers' = writers \ {"cjpeg"}
          /\ file' = "empty"
          /\ UNCHANGED readers
       \/ /\ CjpegExits("failed")
          /\ UNCHANGED file
    /\ UNCHANGED <<pc, d, data, answer, ghosts>>

CjpegReads ==
    /\ c = "running"
    /\ pipe > 0 /\ got < Size
    /\ pipe' = pipe - 1
    /\ got' = got + 1
    /\ UNCHANGED <<pc, ends, c, d, left, file, answer, ghosts>>

(* It has read it all and writes the thumbnail, or there is no more to read. *)
CjpegEnds ==
    /\ c = "running"
    /\ \/ /\ got = Size
          /\ file' = "whole"
          /\ made' = made + 1
          /\ CjpegExits("ok")
       \/ /\ got < Size /\ pipe = 0 /\ writers = {}
          /\ CjpegExits("failed")
          /\ UNCHANGED <<file, made>>
    /\ UNCHANGED <<pc, d, data, answer, unforked>>

CjpegDies ==
    /\ c \in {"forked", "running"}
    /\ CjpegExits("failed")
    /\ UNCHANGED <<pc, d, data, file, answer, ghosts>>

Cjpeg == CjpegStarts \/ CjpegReads \/ CjpegEnds

DjpegExits(status) ==
    /\ d' = status
    /\ writers' = writers \ {"djpeg"}

DjpegStarts ==
    /\ d = "forked"
    /\ \/ d' = "running" /\ UNCHANGED writers
       \/ DjpegExits("failed")
    /\ UNCHANGED <<pc, readers, c, data, file, answer, ghosts>>

DjpegWrites ==
    /\ d = "running"
    /\ left > 0 /\ readers # {} /\ pipe < Capacity
    /\ pipe' = pipe + 1
    /\ left' = left - 1
    /\ UNCHANGED <<pc, ends, c, d, got, file, answer, ghosts>>

(* All is written, or nobody reads it any more (EPIPE). *)
DjpegEnds ==
    /\ d = "running"
    /\ \/ left = 0 /\ DjpegExits("ok")
       \/ left > 0 /\ readers = {} /\ DjpegExits("failed")
    /\ UNCHANGED <<pc, readers, c, data, file, answer, ghosts>>

(* Killed, or the photo cannot be read, or there is a warning about it. *)
DjpegDies ==
    /\ d \in {"forked", "running"}
    /\ DjpegExits("failed")
    /\ UNCHANGED <<pc, readers, c, data, file, answer, ghosts>>

Djpeg == DjpegStarts \/ DjpegWrites \/ DjpegEnds

Next == Server \/ Cjpeg \/ CjpegDies \/ Djpeg \/ DjpegDies

Spec == Init /\ [][Next]_vars

(* The processes are scheduled, and clients keep asking. *)
FairSpec == Spec /\ WF_vars(Server) /\ WF_vars(Cjpeg) /\ WF_vars(Djpeg)

-----------------------------------------------------------------------------
TypeOK ==
    /\ pc \in {"idle", "pipeline", "fork_cjpeg", "fork_djpeg", "wait_cjpeg",
               "wait_alone", "wait_djpeg", "made"}
    /\ readers \subseteq {"server", "cjpeg"}
    /\ writers \subseteq {"server", "cjpeg", "djpeg"}
    /\ c \in States /\ d \in States
    /\ pipe \in 0..Capacity
    /\ left \in 0..Size /\ got \in 0..Size
    /\ file \in {"none", "empty", "whole"}
    /\ answer \in {"none", "empty", "whole", "404", "500"}

(***************************************************************************)
(* Between requests nothing is left of the pipeline: no descriptor of the  *)
(* pipe, no zombie and no process still running, whichever step failed.    *)
(***************************************************************************)
NothingLeftOver ==
    pc = "idle" => readers = {} /\ writers = {} /\ c = "none" /\ d = "none"

(***************************************************************************)
(* "cjpeg tends to create an empty file when it fails": no such file is    *)
(* ever served or left behind, if djpeg could be forked.                   *)
(***************************************************************************)
ThumbnailsAreWhole ==
    pc = "idle" /\ ~unforked => file # "empty" /\ answer # "empty"

(***************************************************************************)
(* "every thumbnail should be generated at most once": also when djpeg     *)
(* failed after all was written, and the client was told 404.              *)
(***************************************************************************)
MadeOnce == made <= 1

(***************************************************************************)
(* The server gets an answer for every request: the three processes never  *)
(* wait for each other in a circle, whichever of them fails to start or    *)
(* dies.  Nothing else in the server runs meanwhile.                       *)
(***************************************************************************)
AlwaysAnswers == pc # "idle" ~> pc = "idle"
=============================================================================
