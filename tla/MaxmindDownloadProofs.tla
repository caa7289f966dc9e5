------------------------ MODULE MaxmindDownloadProofs ------------------------
(***************************************************************************)
(* What is extracted is what was verified, for archives of any length.     *)
(*                                                                         *)
(* The invariant counts the chunks that are on their way: at most one in   *)
(* the pipe and one in the hands of the copier.  The copier says "ok" only *)
(* after an end of file, which it sees when none is left in the pipe, so   *)
(* that the file then holds all that was hashed.                           *)
(***************************************************************************)
EXTENDS MaxmindDownload, TLAPS

Before    == {"checksum", "create", "request"}
AfterBody == {"report", "compare", "extract", "extracting"}
AfterCopy == {"compare", "extract", "extracting"}

(* Chunks in the pipe, and read from it but not yet in the file.           *)
InPipe   == IF pipe = "full" THEN 1 ELSE 0
InCopier == IF copier = "writing" THEN 1 ELSE 0

(* No chunk is lost while the copier works, and none when it is content.   *)
ChunksInv ==
    /\ copier \in {"reading", "writing"} => sent = written + InPipe + InCopier
    /\ copier = "ok" /\ pipe = "eof" => sent = written

(* The pipe is in use exactly while Download waits in a Write; its write   *)
(* end is closed with the body, both ends only by a failure.               *)
PipeInv ==
    /\ pipe = "full" <=> pc = "write"
    /\ pipe = "closed" => outcome = "error"
    /\ pc \in AfterBody => pipe = "eof" /\ (right => sent = Chunks)
    /\ pipe = "eof" => pc \in AfterBody \cup {"returned"}
    /\ copier = "ok" => pipe \in {"eof", "closed"}

(* Where both goroutines are.                                              *)
ControlInv ==
    /\ outcome = "none" <=> pc # "returned"
    /\ pc \in Before => copier = "none" /\ sent = 0 /\ written = 0 /\ pipe = "empty"
    /\ copier = "none" => pc \in Before \cup {"returned"} /\ outcome # "ok"
    /\ pc \in AfterCopy => copier = "done" /\ sent = written
    /\ copier = "done" => pc \in AfterCopy \cup {"returned"}
    /\ copier = "done" => pipe = "eof"
    /\ pc \in {"extract", "extracting"} => right
    /\ pc \in {"request", "copy", "write"} \cup AfterBody => archive

IInv == TypeOK /\ ChunksInv /\ PipeInv /\ ControlInv /\ ExtractsWhatWasVerified
-----------------------------------------------------------------------------
(* The definitions that every step unfolds.                                *)
USE DEF Goto, Return, Before, AfterBody, AfterCopy, InPipe, InCopier,
        Locations, CopierLocations, transfer

(* No download has begun: nothing is sent, written or extracted.           *)
LEMMA InitInv == Init => IInv
<1> SUFFICES ASSUME Init
             PROVE  IInv
  OBVIOUS
<1> USE DEF Init
<1>1. TypeOK
  <2>1. right \in BOOLEAN /\ archive \in BOOLEAN
    OBVIOUS
  <2>2. sent \in 0..Chunks /\ written \in 0..sent
    BY ChunksAssumption
  <2>3. QED
    BY <2>1, <2>2, Zenon DEF TypeOK
<1>2. ChunksInv
  BY DEF ChunksInv
<1>3. PipeInv /\ ControlInv
  BY DEF PipeInv, ControlInv
<1>4. ExtractsWhatWasVerified
  BY DEF ExtractsWhatWasVerified
<1>5. QED
  BY <1>1, <1>2, <1>3, <1>4 DEF IInv

(* Each step of Download or of the copier keeps the invariant.             *)
LEMMA NextInv == IInv /\ [Next]_vars => IInv'
<1> USE ChunksAssumption
<1> SUFFICES ASSUME IInv, [Next]_vars
             PROVE  IInv'
  OBVIOUS
<1> USE DEF IInv, TypeOK, ChunksInv, PipeInv, ControlInv,
            ExtractsWhatWasVerified
<1>1. CASE DownloadChecksum
  BY <1>1 DEF DownloadChecksum
<1>2. CASE CreateArchive
  BY <1>2 DEF CreateArchive
<1>3. CASE RequestArchive
  BY <1>3 DEF RequestArchive
<1>4. CASE WriteChunk
  BY <1>4 DEF WriteChunk
<1>5. CASE BodyEnds
  BY <1>5 DEF BodyEnds
<1>6. CASE BodyFails
  BY <1>6 DEF BodyFails
<1>7. CASE ReceiveReport
  BY <1>7 DEF ReceiveReport
<1>8. CASE Compare
  BY <1>8 DEF Compare
<1>9. CASE ExtractBegins
  BY <1>9 DEF ExtractBegins
<1>10. CASE ExtractEnds
  BY <1>10 DEF ExtractEnds
<1>11. CASE ReadPipe
  BY <1>11 DEF ReadPipe
<1>12. CASE WriteArchive
  BY <1>12 DEF WriteArchive
<1>13. CASE WriteFails
  BY <1>13 DEF WriteFails
<1>14. CASE CopierEnds
  BY <1>14 DEF CopierEnds
<1>15. CASE UNCHANGED vars
  BY <1>15 DEF vars
<1>16. QED
  BY <1>1, <1>2, <1>3, <1>4, <1>5, <1>6, <1>7, <1>8, <1>9, <1>10, <1>11, <1>12, <1>13, <1>14, <1>15
     DEF Next, DownloadStep, CopierStep

LEMMA DownloadInvariant == Spec => []IInv
BY InitInv, NextInv, PTL DEF Spec

(* The types hold along every download, of an archive of any length; the   *)
(* file never holds more than went through the pipe.                       *)
THEOREM DownloadTypes == Spec => []TypeOK
<1>1. IInv => TypeOK
  BY DEF IInv
<1> QED
  BY <1>1, DownloadInvariant, PTL

(* For an archive of any length, with failures anywhere: what is extracted *)
(* holds all that was hashed and nothing else, although the hash is that   *)
(* of the response and the file is written by another goroutine.           *)
THEOREM ExtractsOnlyVerified == Spec => []ExtractsWhatWasVerified
<1>1. IInv => ExtractsWhatWasVerified
  BY DEF IInv
<1> QED
  BY <1>1, DownloadInvariant, PTL

-----------------------------------------------------------------------------
(* Download ends.                                                          *)

(* Steps that are left at most: of Download but for the chunks, of the     *)
(* copier but for the chunks, and three for each chunk.                    *)
DownloadSteps ==
    CASE pc = "checksum"          -> 8
      [] pc = "create"            -> 7
      [] pc = "request"           -> 6
      [] pc \in {"copy", "write"} -> 5
      [] pc = "report"            -> 4
      [] pc = "compare"           -> 3
      [] pc = "extract"           -> 2
      [] pc = "extracting"        -> 1
      [] OTHER                    -> 0

CopierSteps ==
    CASE copier \in {"none", "reading", "writing"} -> 2
      [] copier \in {"ok", "failed"}               -> 1
      [] OTHER                                     -> 0

StepsLeft ==
    DownloadSteps + CopierSteps + 3 * (Chunks - sent) + 2 * InPipe + InCopier

(* No step of either goroutine can be repeated for ever.                   *)
StepsRunOut == [](StepsLeft \in Nat) /\ [][StepsLeft' < StepsLeft]_vars

(* The guards of the steps of both goroutines.                             *)
CanRun ==
    \/ pc \in Before \cup {"copy", "compare", "extracting"}
    \/ pc = "extract" /\ archive
    \/ pc = "report" /\ copier \in {"ok", "failed"}
    \/ copier = "reading" /\ pipe # "empty"
    \/ copier = "writing"

(* The goroutines do not wait for each other, unless the archive file      *)
(* could not be written and more of the body follows.                      *)
OnlyFailedWriteBlocks ==
    pc # "returned" => CanRun \/ (copier = "failed" /\ pc = "write")

LEMMA StepsLeftType == IInv => StepsLeft \in Nat
<1> SUFFICES ASSUME TypeOK
             PROVE  StepsLeft \in Nat
  BY DEF IInv
<1>1. DownloadSteps \in Nat /\ CopierSteps \in Nat
  BY DEF DownloadSteps, CopierSteps
<1>2. Chunks - sent \in Nat /\ InPipe \in Nat /\ InCopier \in Nat
  BY ChunksAssumption DEF TypeOK
<1> HIDE DEF InPipe, InCopier
<1>3. QED
  BY <1>1, <1>2 DEF StepsLeft

LEMMA StepsLeftStep == IInv /\ Next => StepsLeft' < StepsLeft
<1> USE ChunksAssumption DEF IInv, TypeOK, PipeInv, StepsLeft, DownloadSteps, CopierSteps
<1> SUFFICES ASSUME IInv, Next
             PROVE  StepsLeft' < StepsLeft
  OBVIOUS
<1>1. CASE DownloadChecksum
  BY <1>1 DEF DownloadChecksum
<1>2. CASE CreateArchive
  BY <1>2 DEF CreateArchive
<1>3. CASE RequestArchive
  BY <1>3 DEF RequestArchive, ControlInv
<1>4. CASE WriteChunk
  BY <1>4 DEF WriteChunk
<1>5. CASE BodyEnds
  BY <1>5 DEF BodyEnds
<1>6. CASE BodyFails
  BY <1>6 DEF BodyFails
<1>7. CASE ReceiveReport
  BY <1>7 DEF ReceiveReport
<1>8. CASE Compare
  <2>1. pc = "compare" /\ pc' \in {"extract", "returned"} /\ UNCHANGED <<sent, pipe, copier>>
    BY <1>8 DEF Compare
  <2>2. QED
    BY <2>1
<1>9. CASE ExtractBegins
  BY <1>9 DEF ExtractBegins
<1>10. CASE ExtractEnds
  BY <1>10 DEF ExtractEnds
<1>11. CASE ReadPipe
  BY <1>11 DEF ReadPipe
<1>12. CASE WriteArchive
  BY <1>12 DEF WriteArchive
<1>13. CASE WriteFails
  BY <1>13 DEF WriteFails
<1>14. CASE CopierEnds
  BY <1>14 DEF CopierEnds
<1>15. QED
  BY <1>1, <1>2, <1>3, <1>4, <1>5, <1>6, <1>7, <1>8, <1>9, <1>10, <1>11, <1>12, <1>13, <1>14
     DEF Next, DownloadStep, CopierStep

(* However long the archive is and whatever fails, Download and its        *)
(* goroutine take a bounded number of steps.                               *)
THEOREM DownloadIsBounded == Spec => StepsRunOut
<1>1. IInv /\ [Next]_vars => [StepsLeft' < StepsLeft]_vars
  BY StepsLeftStep
<1>2. QED
  BY <1>1, StepsLeftType, DownloadInvariant, PTL DEF Spec, StepsRunOut

(* While Download has not returned somebody can take a step, but for the   *)
(* one case in which it hangs (DownloadAlwaysReturns).                     *)
THEOREM HangsOnlyOnFailedWrite == Spec => []OnlyFailedWriteBlocks
<1>1. IInv => OnlyFailedWriteBlocks
  BY DEF IInv, TypeOK, PipeInv, ControlInv, OnlyFailedWriteBlocks, CanRun
<1>2. QED
  BY <1>1, DownloadInvariant, PTL
=============================================================================
