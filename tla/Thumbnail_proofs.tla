-------------------------- MODULE Thumbnail_proofs --------------------------
(***************************************************************************)
(* Proofs about Thumbnail: for every size of the image and of the pipe.    *)
(*                                                                         *)
(* What the runs check is not inductive.  That nothing is left over when   *)
(* the server is idle needs who holds which end of the pipe, and which     *)
(* children there are, at every step before (EndsAreHeld, Children); and   *)
(* that no incomplete file remains needs how far the file has come with    *)
(* the process which writes it (FileFollowsCjpeg).                         *)
(***************************************************************************)
EXTENDS Thumbnail, TLAPS

(* Each process has an end of the pipe open exactly when it should. *)
EndsAreHeld ==
    /\ "server" \in readers <=> pc = "fork_cjpeg"
    /\ "server" \in writers <=> pc \in {"fork_cjpeg", "fork_djpeg"}
    /\ "cjpeg" \in readers <=> c \in {"forked", "running"}
    /\ "cjpeg" \in writers <=> c = "forked"
    /\ "djpeg" \in writers <=> d \in {"forked", "running"}

(* There are children (or zombies) between their fork() and their wait(). *)
Children ==
    /\ c = "none" <=> pc \in {"idle", "pipeline", "fork_cjpeg", "made"}
    /\ d = "none" <=> pc \notin {"wait_cjpeg", "wait_djpeg"}
    /\ pc = "wait_djpeg" => c \in Exited

Processes == EndsAreHeld /\ Children

(* The file is as far as cjpeg is; an incomplete one is left by nobody,    *)
(* and no pipeline starts when there is one.                               *)
FileFollowsCjpeg ==
    /\ pc \in {"pipeline", "fork_cjpeg"} \/ c = "forked" => file = "none"
    /\ c = "running" => file = "empty"
    /\ pc = "made" \/ c = "ok" => file = "whole"
    /\ c = "failed" => file # "whole"
    /\ (c = "none" /\ file = "empty") \/ answer = "empty" => unforked
    /\ pc = "wait_alone" => unforked

(* A thumbnail, once made, stays. *)
MadeStays == made = IF file = "whole" THEN 1 ELSE 0

(* One of the processes has a step it can take which is not its death. *)
SomebodyMoves ==
    \/ pc \in {"pipeline", "fork_cjpeg", "fork_djpeg", "made"}
    \/ pc \in {"wait_cjpeg", "wait_alone"} /\ c \in Exited
    \/ pc = "wait_djpeg" /\ d \in Exited
    \/ c = "forked"
    \/ c = "running" /\ (got = Size \/ (got < Size /\ (pipe > 0 \/ writers = {})))
    \/ d = "forked"
    \/ d = "running" /\ (left = 0 \/ readers = {} \/ pipe < Capacity)

-----------------------------------------------------------------------------
(***************************************************************************)
(* Types.                                                                  *)
(***************************************************************************)
LEMMA TypeInit == Init => TypeOK
BY SizeAssumption DEF Init, TypeOK, States

LEMMA TypeNext == TypeOK /\ [Next]_vars => TypeOK'
<1> SUFFICES ASSUME TypeOK, [Next]_vars PROVE TypeOK'
  OBVIOUS
<1> USE DEF TypeOK, States, Exited, ends, data, ghosts
<1>0. Size \in Nat /\ Size > 0 /\ Capacity \in Nat /\ Capacity > 0
  BY SizeAssumption
<1>1. CASE Requested
  BY <1>1 DEF Requested, OpensImage, Answers
<1>2. CASE Pipeline
  <2>1. CASE Answers("404") /\ UNCHANGED <<ends, data>>
    BY <1>2, <2>1 DEF Pipeline, Answers
  <2>2. CASE /\ readers' = {"server"} /\ writers' = {"server"}
             /\ pipe' = 0 /\ left' = Size /\ got' = 0
             /\ pc' = "fork_cjpeg"
             /\ UNCHANGED answer
    <3>1. pipe' \in 0..Capacity /\ left' \in 0..Size /\ got' \in 0..Size
      BY <1>0, <2>2
    <3> QED
      BY <1>2, <2>2, <3>1 DEF Pipeline
  <2> QED
    BY <1>2, <2>1, <2>2 DEF Pipeline
<1>3. CASE ForkCjpeg
  BY <1>3 DEF ForkCjpeg, Answers
<1>4. CASE ForkDjpeg
  BY <1>4 DEF ForkDjpeg
<1>5. CASE WaitAlone
  BY <1>5 DEF WaitAlone, Answers
<1>6. CASE WaitCjpeg
  BY <1>6 DEF WaitCjpeg
<1>7. CASE WaitDjpeg
  BY <1>7 DEF WaitDjpeg, Answers
<1>8. CASE Made
  BY <1>8 DEF Made, OpensImage, Answers
<1>9. CASE CjpegStarts
  BY <1>9 DEF CjpegStarts, CjpegExits
<1>10. CASE CjpegReads
  BY <1>0, <1>10 DEF CjpegReads
<1>11. CASE CjpegEnds
  BY <1>11 DEF CjpegEnds, CjpegExits
<1>12. CASE CjpegDies
  BY <1>12 DEF CjpegDies, CjpegExits
<1>13. CASE DjpegStarts
  BY <1>13 DEF DjpegStarts, DjpegExits
<1>14. CASE DjpegWrites
  BY <1>0, <1>14 DEF DjpegWrites
<1>15. CASE DjpegEnds
  BY <1>15 DEF DjpegEnds, DjpegExits
<1>16. CASE DjpegDies
  BY <1>16 DEF DjpegDies, DjpegExits
<1>17. CASE UNCHANGED vars
  BY <1>17 DEF vars
<1> QED
  BY <1>1, <1>2, <1>3, <1>4, <1>5, <1>6, <1>7, <1>8, <1>9, <1>10, <1>11,
     <1>12, <1>13, <1>14, <1>15, <1>16, <1>17 DEF Next, Server, Cjpeg, Djpeg

(* Theorem: no state of the three processes is out of its range, and the   *)
(* pipe never holds more than its Capacity.                                *)
THEOREM TypeCorrect == Spec => []TypeOK
BY TypeInit, TypeNext, PTL DEF Spec

-----------------------------------------------------------------------------
(***************************************************************************)
(* Descriptors and children.                                               *)
(***************************************************************************)
LEMMA ProcessesInit == Init => Processes
BY DEF Init, Processes, EndsAreHeld, Children

LEMMA ProcessesNext == TypeOK /\ Processes /\ [Next]_vars => Processes'
<1> SUFFICES ASSUME TypeOK, Processes, [Next]_vars PROVE Processes'
  OBVIOUS
<1> USE DEF Processes, EndsAreHeld, Children, TypeOK, States, Exited, ends, data, ghosts
<1>1. CASE Requested
  BY <1>1 DEF Requested, OpensImage, Answers
<1>2. CASE Pipeline
  BY <1>2 DEF Pipeline, Answers
<1>3. CASE ForkCjpeg
  BY <1>3 DEF ForkCjpeg, Answers
<1>4. CASE ForkDjpeg
  BY <1>4 DEF ForkDjpeg
<1>5. CASE WaitAlone
  BY <1>5 DEF WaitAlone, Answers
<1>6. CASE WaitCjpeg
  BY <1>6 DEF WaitCjpeg
<1>7. CASE WaitDjpeg
  BY <1>7 DEF WaitDjpeg, Answers
<1>8. CASE Made
  BY <1>8 DEF Made, OpensImage, Answers
<1>9. CASE CjpegStarts
  BY <1>9 DEF CjpegStarts, CjpegExits
<1>10. CASE CjpegReads
  BY <1>10 DEF CjpegReads
<1>11. CASE CjpegEnds
  BY <1>11 DEF CjpegEnds, CjpegExits
<1>12. CASE CjpegDies
  BY <1>12 DEF CjpegDies, CjpegExits
<1>13. CASE DjpegStarts
  BY <1>13 DEF DjpegStarts, DjpegExits
<1>14. CASE DjpegWrites
  BY <1>14 DEF DjpegWrites
<1>15. CASE DjpegEnds
  BY <1>15 DEF DjpegEnds, DjpegExits
<1>16. CASE DjpegDies
  BY <1>16 DEF DjpegDies, DjpegExits
<1>17. CASE UNCHANGED vars
  BY <1>17 DEF vars
<1> QED
  BY <1>1, <1>2, <1>3, <1>4, <1>5, <1>6, <1>7, <1>8, <1>9, <1>10, <1>11,
     <1>12, <1>13, <1>14, <1>15, <1>16, <1>17 DEF Next, Server, Cjpeg, Djpeg

LEMMA ProcessesCorrect == Spec => []Processes
BY TypeCorrect, ProcessesInit, ProcessesNext, PTL DEF Spec

-----------------------------------------------------------------------------
(***************************************************************************)
(* The file.                                                               *)
(***************************************************************************)
LEMMA FileInit == Init => FileFollowsCjpeg /\ MadeStays
BY DEF Init, FileFollowsCjpeg, MadeStays

LEMMA FileNext ==
    TypeOK /\ Processes /\ FileFollowsCjpeg /\ MadeStays /\ [Next]_vars
        => FileFollowsCjpeg' /\ MadeStays'
<1> SUFFICES ASSUME TypeOK, Processes, FileFollowsCjpeg, MadeStays, [Next]_vars
             PROVE  FileFollowsCjpeg' /\ MadeStays'
  OBVIOUS
<1> USE DEF Processes, Children, TypeOK, FileFollowsCjpeg, MadeStays, States, Exited,
            ends, data, ghosts
<1>1. CASE Requested
  BY <1>1 DEF Requested, OpensImage, Answers
<1>2. CASE Pipeline
  BY <1>2 DEF Pipeline, Answers
<1>3. CASE ForkCjpeg
  BY <1>3 DEF ForkCjpeg, Answers
<1>4. CASE ForkDjpeg
  BY <1>4 DEF ForkDjpeg
<1>5. CASE WaitAlone
  BY <1>5 DEF WaitAlone, Answers
<1>6. CASE WaitCjpeg
  BY <1>6 DEF WaitCjpeg
<1>7. CASE WaitDjpeg
  BY <1>7 DEF WaitDjpeg, Answers
<1>8. CASE Made
  BY <1>8 DEF Made, OpensImage, Answers
<1>9. CASE CjpegStarts
  BY <1>9 DEF CjpegStarts, CjpegExits
<1>10. CASE CjpegReads
  BY <1>10 DEF CjpegReads
<1>11. CASE CjpegEnds
  <2>1. CASE got = Size /\ file' = "whole" /\ made' = made + 1 /\ CjpegExits("ok")
    <3>1. c = "running" /\ c' = "ok" /\ d' = d /\ pc' = pc /\ answer' = answer /\ unforked' = unforked
      BY <1>11, <2>1 DEF CjpegEnds, CjpegExits
    <3>2. made = 0
      BY <3>1
    <3>3. FileFollowsCjpeg'
      BY <2>1, <3>1
    <3> QED
      BY <2>1, <3>2, <3>3
  <2>2. CASE CjpegExits("failed") /\ UNCHANGED <<file, made>>
    BY <1>11, <2>2 DEF CjpegEnds, CjpegExits
  <2> QED
    BY <1>11, <2>1, <2>2 DEF CjpegEnds
<1>12. CASE CjpegDies
  BY <1>12 DEF CjpegDies, CjpegExits
<1>13. CASE DjpegStarts
  BY <1>13 DEF DjpegStarts, DjpegExits
<1>14. CASE DjpegWrites
  BY <1>14 DEF DjpegWrites
<1>15. CASE DjpegEnds
  BY <1>15 DEF DjpegEnds, DjpegExits
<1>16. CASE DjpegDies
  BY <1>16 DEF DjpegDies, DjpegExits
<1>17. CASE UNCHANGED vars
  BY <1>17 DEF vars
<1> QED
  BY <1>1, <1>2, <1>3, <1>4, <1>5, <1>6, <1>7, <1>8, <1>9, <1>10, <1>11,
     <1>12, <1>13, <1>14, <1>15, <1>16, <1>17 DEF Next, Server, Cjpeg, Djpeg

LEMMA FileCorrect == Spec => [](FileFollowsCjpeg /\ MadeStays)
BY TypeCorrect, ProcessesCorrect, FileInit, FileNext, PTL DEF Spec

-----------------------------------------------------------------------------
(***************************************************************************)
(* What the runs check.                                                    *)
(***************************************************************************)

(* Theorem: whichever of the system calls and processes fails, when the    *)
(* server is idle again no descriptor, zombie or process is left.          *)
THEOREM NothingIsLeftOver == Spec => []NothingLeftOver
<1>1. TypeOK /\ Processes => NothingLeftOver
  BY DEF TypeOK, Processes, EndsAreHeld, Children, NothingLeftOver
<1> QED
  BY <1>1, TypeCorrect, ProcessesCorrect, PTL

(* Theorem: no incomplete thumbnail is left behind or served, as long as   *)
(* fork() of djpeg has not failed.                                         *)
THEOREM ThumbnailsAreWholeAlways == Spec => []ThumbnailsAreWhole
<1>1. Processes /\ FileFollowsCjpeg => ThumbnailsAreWhole
  BY DEF Processes, Children, FileFollowsCjpeg, ThumbnailsAreWhole
<1> QED
  BY <1>1, ProcessesCorrect, FileCorrect, PTL

(* Theorem: no thumbnail is made again once it has been made, whatever the *)
(* client was told.                                                        *)
THEOREM MadeOnlyOnce == Spec => []MadeOnce
<1>1. MadeStays => MadeOnce
  BY DEF MadeStays, MadeOnce
<1> QED
  BY <1>1, FileCorrect, PTL

(* Theorem: the safety half of AlwaysAnswers.  While there is a request,   *)
(* some process has a step to take: the server waits for a child, cjpeg    *)
(* for a writer and djpeg for a reader, but never in a circle.             *)
THEOREM NoCircularWait == Spec => [](pc # "idle" => SomebodyMoves)
<1>1. TypeOK /\ Processes => (pc # "idle" => SomebodyMoves)
  <2> SUFFICES ASSUME TypeOK, Processes, pc # "idle", ~SomebodyMoves
               PROVE  FALSE
    OBVIOUS
  <2>0. Size \in Nat /\ Capacity \in Nat /\ Capacity > 0
    BY SizeAssumption
  <2> USE <2>0 DEF TypeOK, Processes, Children, EndsAreHeld, SomebodyMoves, States, Exited
  <2>1. /\ pc \in {"wait_cjpeg", "wait_alone", "wait_djpeg"}
        /\ c # "none"
    OBVIOUS
  <2>2. CASE pc = "wait_djpeg"
    (* cjpeg has exited, and djpeg gets EPIPE. *)
    BY <2>2
  <2>3. CASE pc # "wait_djpeg"
    (* cjpeg waits for djpeg, which has room in the pipe. *)
    <3>1. c = "running" /\ got < Size /\ pipe = 0 /\ writers # {}
      BY <2>1, <2>3
    <3>2. "djpeg" \in writers
      BY <2>1, <3>1
    <3>3. d = "running" /\ pipe >= Capacity
      BY <3>2
    <3> QED
      BY <3>1, <3>3
  <2> QED
    BY <2>2, <2>3
<1> QED
  BY <1>1, TypeCorrect, ProcessesCorrect, PTL
=============================================================================
