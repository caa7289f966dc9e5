---------------------- MODULE Software77DownloadProofs ----------------------
(***************************************************************************)
(* Proofs about Software77Download.  What Download returns depends on what *)
(* the goroutines have sent, so that the inductive invariant accounts for  *)
(* every error from the step that failed to the channel, and for every end *)
(* of the shared context.                                                  *)
(***************************************************************************)
EXTENDS Software77Download, TLAPS

Types ==
    /\ main \in {"wait", "returned"}
    /\ csvOutcome \in {"none", "nil"} \cup Errors
    /\ csvPc \in [Files -> CsvLocations]
    /\ stored \in [Files -> {"none", "partial", "right", "wrong"}]
    /\ error \in [Files -> {"none"} \cup Errors]
    /\ errChan \in Seq(Errors)
    /\ chanClosed \in BOOLEAN
    /\ ctxDone \in BOOLEAN
    /\ shutDown \in BOOLEAN

(* An error is there from the step that fails on; without one, downloadCsv *)
(* ends with the right file.                                               *)
Progress ==
    \A f \in Files :
        /\ csvPc[f] \in Working => error[f] = "none"
        /\ csvPc[f] = "report" => error[f] \in Errors
        /\ csvPc[f] = "done" /\ error[f] = "none" => stored[f] = "right"

(* The errors that were sent: one for each goroutine that has reported.    *)
Sent(f) == IF csvPc[f] = "done" /\ error[f] # "none" THEN 1 ELSE 0

Channel == main = "wait" => Len(errChan) = Sent("ipv4") + Sent("ipv6")

(* What Download may be told about.                                        *)
Cause == shutDown \/ \E f \in Files : error[f] = "own"

Causes ==
    \/ Cause
    \/ /\ errChan = <<>>
       /\ csvOutcome \notin Errors
       /\ \A f \in Files : error[f] = "none"
       /\ main = "wait" => ~ctxDone

Returned ==
    /\ main = "wait" => csvOutcome = "none" /\ ~chanClosed
    /\ ReturnIsFinal

IInv == Types /\ Progress /\ Channel /\ Causes /\ Returned

(* Nobody waits for room in the channel: when Download comes to look at it *)
(* there is nobody left who has something to say.                          *)
SendNeverBlocks ==
    \A f \in Files : csvPc[f] = "report" => Len(errChan) < ErrChanCapacity /\ ~chanClosed

(* Nobody writes to a file that Download has given to the updater.         *)
FilesAreFinal == [][main = "returned" => UNCHANGED <<stored, csvOutcome>>]_csvVars

-----------------------------------------------------------------------------

LEMMA InitIInv == CsvInit => IInv
<1> SUFFICES ASSUME CsvInit PROVE IInv
  OBVIOUS
<1>1. Types
  <2>1. errChan \in Seq(Errors)
    BY DEF CsvInit
  <2>2. csvPc \in [Files -> CsvLocations]
    BY DEF CsvInit, CsvLocations, Working
  <2>3. QED
    BY <2>1, <2>2 DEF CsvInit, Types
<1>2. Progress
  BY DEF CsvInit, Progress, Working
<1>3. Channel
  BY DEF CsvInit, Channel, Sent, Files
<1>4. Causes
  BY DEF CsvInit, Causes, Errors
<1>5. Returned
  BY DEF CsvInit, Returned, ReturnIsFinal
<1>6. QED
  BY <1>1, <1>2, <1>3, <1>4, <1>5 DEF IInv

(* While a goroutine is at work, Download waits.                           *)
LEMMA WorkingMeansWaiting ==
    ASSUME IInv, NEW f \in Files, csvPc[f] # "done"
    PROVE  main = "wait" /\ csvOutcome = "none" /\ ~chanClosed
  BY DEF IInv, Types, Returned, ReturnIsFinal

(* A step of a goroutine that has nothing to report changes, besides its   *)
(* place, only what is in its own file.                                    *)
LEMMA WorkIInv ==
    ASSUME IInv, NEW f \in Files, csvPc[f] \in Working,
           NEW l \in Working, CsvGoto(f, l),
           NEW contents \in {"none", "partial", "right", "wrong"},
           stored' = [stored EXCEPT ![f] = contents],
           UNCHANGED <<main, csvOutcome, error, errChan, chanClosed, ctxDone, shutDown>>
    PROVE  IInv'
<1>1. Types'
  BY DEF IInv, Types, CsvGoto, CsvLocations
<1>2. Progress'
  BY DEF IInv, Types, Progress, CsvGoto, Working
<1>3. Channel'
  <2>1. Sent("ipv4")' = Sent("ipv4") /\ Sent("ipv6")' = Sent("ipv6")
    BY DEF IInv, Types, CsvGoto, Sent, Working, Files
  <2>2. QED
    BY <2>1 DEF IInv, Channel
<1>4. Causes'
  BY DEF IInv, Causes, Cause
<1>5. Returned'
  <2>1. main = "wait"
    BY WorkingMeansWaiting DEF Working
  <2>2. QED
    BY <2>1 DEF IInv, Returned, ReturnIsFinal
<1>6. QED
  BY <1>1, <1>2, <1>3, <1>4, <1>5 DEF IInv

LEMMA SucceedsIInv ==
    ASSUME IInv, NEW f \in Files, Succeeds(f)
    PROVE  IInv'
<1>0. error[f] = "none" /\ main = "wait"
  BY WorkingMeansWaiting DEF IInv, Progress, Succeeds, Working
<1>1. Types'
  BY DEF IInv, Types, Succeeds, CsvGoto, CsvLocations
<1>2. Progress'
  BY DEF IInv, Types, Progress, Succeeds, CsvGoto, Working
<1>3. Channel'
  <2>1. Sent("ipv4")' = Sent("ipv4") /\ Sent("ipv6")' = Sent("ipv6")
    BY <1>0 DEF IInv, Types, Succeeds, CsvGoto, Sent, Files
  <2>2. QED
    BY <2>1 DEF IInv, Channel, Succeeds
<1>4. Causes'
  BY DEF IInv, Causes, Cause, Succeeds
<1>5. Returned'
  BY <1>0 DEF IInv, Returned, ReturnIsFinal, Succeeds
<1>6. QED
  BY <1>1, <1>2, <1>3, <1>4, <1>5 DEF IInv

(* A step can fail because the context is done only after somebody else    *)
(* has ended it.                                                           *)
LEMMA FailsIInv ==
    ASSUME IInv, NEW f \in Files, Fails(f)
    PROVE  IInv'
<1>0. error[f] = "none" /\ main = "wait"
  BY WorkingMeansWaiting DEF IInv, Progress, Fails, Working
<1>1. PICK e \in ErrorsAt(f) : error' = [error EXCEPT ![f] = e]
  BY DEF Fails
<1>2. e = "own" \/ (e = "cancelled" /\ ctxDone)
  BY <1>1 DEF ErrorsAt
<1>3. Types'
  <2>1. error' \in [Files -> {"none"} \cup Errors]
    BY <1>1, <1>2 DEF IInv, Types, Errors
  <2>2. QED
    BY <2>1 DEF IInv, Types, Fails, CsvGoto, CsvLocations
<1>4. Progress'
  <2>1. e \in Errors
    BY <1>2 DEF Errors
  <2>2. QED
    BY <1>1, <2>1 DEF IInv, Types, Progress, Fails, CsvGoto, Working
<1>5. Channel'
  <2>1. Sent("ipv4")' = Sent("ipv4") /\ Sent("ipv6")' = Sent("ipv6")
    BY <1>1 DEF IInv, Types, Fails, CsvGoto, Sent, Working, Files
  <2>2. QED
    BY <2>1 DEF IInv, Channel, Fails
<1>6. Causes'
  <2>1. Cause'
    <3>1. CASE e = "own"
      BY <1>1, <3>1 DEF IInv, Types, Cause
    <3>2. CASE e = "cancelled" /\ ctxDone
      <4>1. Cause
        BY <1>0, <3>2 DEF IInv, Causes
      <4>2. \A g \in Files : error[g] = "own" => error'[g] = "own"
        BY <1>0, <1>1 DEF IInv, Types
      <4>3. QED
        BY <4>1, <4>2 DEF Cause, Fails
    <3>3. QED
      BY <1>2, <3>1, <3>2
  <2>2. QED
    BY <2>1 DEF Causes
<1>7. Returned'
  BY <1>0 DEF IInv, Returned, ReturnIsFinal, Fails
<1>8. QED
  BY <1>3, <1>4, <1>5, <1>6, <1>7 DEF IInv

LEMMA ReportIInv ==
    ASSUME IInv, NEW f \in Files, Report(f)
    PROVE  IInv'
<1>0. error[f] \in Errors /\ main = "wait"
  BY WorkingMeansWaiting DEF IInv, Progress, Report
<1>1. error[f] # "none"
  BY <1>0 DEF Errors
<1>2. Types'
  <2>1. errChan' \in Seq(Errors)
    BY <1>0 DEF IInv, Types, Report
  <2>2. QED
    BY <2>1 DEF IInv, Types, Report, CsvGoto, CsvLocations
<1>3. Progress'
  BY <1>1 DEF IInv, Types, Progress, Report, CsvGoto, Working
<1>4. Channel'
  <2>1. Sent(f) = 0 /\ Sent(f)' = 1
    BY <1>1 DEF IInv, Types, Report, CsvGoto, Sent
  <2>2. \A g \in Files : g # f => Sent(g)' = Sent(g)
    BY DEF IInv, Types, Report, CsvGoto, Sent
  <2>3. Len(errChan') = Len(errChan) + 1
    BY <1>0 DEF IInv, Types, Report
  <2>4. \A g \in Files : Sent(g) \in {0, 1} /\ Sent(g)' \in {0, 1}
    BY DEF Sent
  <2>5. QED
    BY <1>0, <2>1, <2>2, <2>3, <2>4 DEF IInv, Channel, Files
<1>5. Causes'
  <2>1. Cause
    BY <1>1 DEF IInv, Causes
  <2>2. QED
    BY <2>1 DEF Causes, Cause, Report
<1>6. Returned'
  BY <1>0 DEF IInv, Returned, ReturnIsFinal, Report
<1>7. QED
  BY <1>2, <1>3, <1>4, <1>5, <1>6 DEF IInv

(* Both have ended: an empty channel means that neither has failed.        *)
LEMMA WaitReturnsIInv ==
    ASSUME IInv, WaitReturns
    PROVE  IInv'
<1>1. errChan # <<>> => Head(errChan) \in Errors /\ Tail(errChan) \in Seq(Errors)
  BY DEF IInv, Types
<1>2. Types'
  <2>1. csvOutcome' \in {"none", "nil"} \cup Errors /\ errChan' \in Seq(Errors)
    BY <1>1 DEF IInv, Types, WaitReturns
  <2>2. QED
    BY <2>1 DEF IInv, Types, WaitReturns
<1>3. Progress'
  BY DEF IInv, Progress, WaitReturns
<1>4. Channel'
  BY DEF Channel, WaitReturns
<1>5. Causes'
  <2>1. CASE Cause
    BY <2>1 DEF Causes, Cause, WaitReturns
  <2>2. CASE ~Cause
    <3>1. errChan = <<>> /\ \A f \in Files : error[f] = "none"
      BY <2>2 DEF IInv, Causes
    <3>2. csvOutcome' = "nil" /\ errChan' = <<>> /\ main' = "returned" /\ error' = error
      BY <3>1 DEF WaitReturns
    <3>3. QED
      BY <3>1, <3>2 DEF Causes, Errors
  <2>3. QED
    BY <2>1, <2>2
<1>6. Returned'
  <2>1. ASSUME csvOutcome' = "nil"
        PROVE  \A f \in Files : stored'[f] = "right"
    <3>1. errChan = <<>>
      BY <1>1, <2>1 DEF WaitReturns, Errors
    <3>2. Sent("ipv4") + Sent("ipv6") = 0
      BY <3>1 DEF IInv, Channel, WaitReturns
    <3>3. \A f \in Files : error[f] = "none"
      BY <3>2 DEF WaitReturns, Sent, Files
    <3>4. QED
      BY <3>3 DEF IInv, Progress, WaitReturns
  <2>2. QED
    BY <2>1 DEF Returned, ReturnIsFinal, WaitReturns
<1>7. QED
  BY <1>2, <1>3, <1>4, <1>5, <1>6 DEF IInv

LEMMA CancelContextIInv ==
    ASSUME IInv, CancelContext
    PROVE  IInv'
<1>1. Types' /\ Progress' /\ Returned'
  BY DEF IInv, Types, Progress, Returned, ReturnIsFinal, CancelContext
<1>2. Channel'
  BY DEF IInv, Channel, Sent, CancelContext
<1>3. Causes'
  BY DEF Causes, Cause, CancelContext
<1>4. QED
  BY <1>1, <1>2, <1>3 DEF IInv

LEMMA NextIInv == IInv /\ [CsvNext]_csvVars => IInv'
<1> SUFFICES ASSUME IInv, [CsvNext]_csvVars PROVE IInv'
  OBVIOUS
<1>1. ASSUME NEW f \in Files, DownloadCsvChecksum(f) \/ DownloadCsvFile(f) \/ OpenGzip(f)
      PROVE  IInv'
  <2>1. stored[f] \in {"none", "partial", "right", "wrong"}
        /\ stored' = [stored EXCEPT ![f] = stored[f]]
    BY <1>1 DEF IInv, Types, DownloadCsvChecksum, DownloadCsvFile, OpenGzip
  <2>2. csvPc[f] \in Working /\ \E l \in Working : CsvGoto(f, l)
    BY <1>1 DEF DownloadCsvChecksum, DownloadCsvFile, OpenGzip, Working
  <2>3. UNCHANGED <<main, csvOutcome, error, errChan, chanClosed, ctxDone, shutDown>>
    BY <1>1 DEF DownloadCsvChecksum, DownloadCsvFile, OpenGzip
  <2>4. QED
    BY <2>1, <2>2, <2>3, WorkIInv
<1>2. ASSUME NEW f \in Files, CreateTarget(f)
      PROVE  IInv'
  BY <1>2, WorkIInv DEF CreateTarget, Working
<1>3. ASSUME NEW f \in Files, CopyEnds(f)
      PROVE  IInv'
  <2>1. PICK contents \in {"right", "wrong"} : stored' = [stored EXCEPT ![f] = contents]
    BY <1>3 DEF CopyEnds
  <2>2. QED
    BY <1>3, <2>1, WorkIInv DEF CopyEnds, Working
<1>4. CASE UNCHANGED csvVars
  BY <1>4 DEF IInv, Types, Progress, Channel, Sent, Causes, Cause, Returned,
     ReturnIsFinal, csvVars
<1>5. QED
  BY <1>1, <1>2, <1>3, <1>4, SucceedsIInv, FailsIInv, ReportIInv, WaitReturnsIInv,
     CancelContextIInv DEF CsvNext, CsvStep

LEMMA DownloadInvariant == CsvSpec => []IInv
  BY InitIInv, NextIInv, PTL DEF CsvSpec

(* Download returns after both goroutines have ended, and nil only when    *)
(* both files are complete and have the MD5 sum that was asked for.        *)
THEOREM NilMeansVerified == CsvSpec => []ReturnIsFinal
<1>1. IInv => ReturnIsFinal
  BY DEF IInv, Returned
<1>2. QED
  BY <1>1, DownloadInvariant, PTL

(* Download blames somebody only if something failed on its own or the     *)
(* updater is shutting down: the context that the goroutines share never   *)
(* turns one goroutine's success into the other's failure.                 *)
THEOREM ErrorsHaveCauses == CsvSpec => []NoErrorWithoutCause
<1>1. IInv => NoErrorWithoutCause
  BY DEF IInv, Causes, Cause, NoErrorWithoutCause
<1>2. QED
  BY <1>1, DownloadInvariant, PTL

(* The sends of downloadCsv find room in errChan, which is not closed:     *)
(* no goroutine is left behind, and none panics.                           *)
THEOREM NobodyIsLeftBehind == CsvSpec => []SendNeverBlocks
<1>1. IInv => SendNeverBlocks
  <2> SUFFICES ASSUME IInv, NEW f \in Files, csvPc[f] = "report"
               PROVE  Len(errChan) < ErrChanCapacity /\ ~chanClosed
    BY DEF SendNeverBlocks
  <2>1. main = "wait" /\ ~chanClosed
    BY WorkingMeansWaiting
  <2>2. Sent(f) = 0 /\ \A g \in Files : Sent(g) \in {0, 1}
    BY DEF Sent
  <2>3. QED
    BY <2>1, <2>2 DEF IInv, Channel, Files, ErrChanCapacity
<1>2. QED
  BY <1>1, DownloadInvariant, PTL

(* What Download has returned, and the files it is about, stay as they     *)
(* are: the updater may rename their directory.                            *)
THEOREM ReturnedFilesAreFinal == CsvSpec => FilesAreFinal
<1>1. IInv /\ [CsvNext]_csvVars => [main = "returned" => UNCHANGED <<stored, csvOutcome>>]_csvVars
  <2> SUFFICES ASSUME IInv, CsvNext, main = "returned"
               PROVE  UNCHANGED <<stored, csvOutcome>>
    BY DEF csvVars
  <2>1. \A f \in Files : csvPc[f] = "done"
    BY DEF IInv, Returned, ReturnIsFinal
  <2>2. \A f \in Files : ~CsvStep(f)
    BY <2>1 DEF CsvStep, DownloadCsvChecksum, DownloadCsvFile, OpenGzip, CreateTarget,
       CopyEnds, Succeeds, Fails, Report, Working
  <2>3. QED
    BY <2>2 DEF CsvNext, WaitReturns, CancelContext
<1>2. QED
  BY <1>1, DownloadInvariant, PTL DEF CsvSpec, FilesAreFinal

-----------------------------------------------------------------------------
(* Download ends.                                                          *)

(* Steps that are left at most, of a goroutine and of all.                 *)
FileSteps(f) ==
    CASE csvPc[f] = "checksum" -> 7
      [] csvPc[f] = "file"     -> 6
      [] csvPc[f] = "gzip"     -> 5
      [] csvPc[f] = "create"   -> 4
      [] csvPc[f] = "copy"     -> 3
      [] csvPc[f] = "compare"  -> 2
      [] csvPc[f] = "report"   -> 1
      [] OTHER              -> 0

StepsLeft ==
    FileSteps("ipv4") + FileSteps("ipv6")
        + (IF main = "wait" THEN 1 ELSE 0) + (IF shutDown THEN 0 ELSE 1)

(* No step can be repeated for ever.                                       *)
StepsRunOut == [](StepsLeft \in Nat) /\ [][StepsLeft' < StepsLeft]_csvVars

LEMMA StepsLeftType == IInv => StepsLeft \in Nat
<1>1. \A f \in Files : FileSteps(f) \in Nat
  BY DEF FileSteps
<1>2. QED
  BY <1>1 DEF StepsLeft, Files

LEMMA StepsLeftStep == IInv /\ CsvNext => StepsLeft' < StepsLeft
<1> SUFFICES ASSUME IInv, CsvNext
             PROVE  StepsLeft' < StepsLeft
  OBVIOUS
<1>1. \A f \in Files : FileSteps(f) \in Nat /\ FileSteps(f)' \in Nat
  BY DEF FileSteps
<1>2. ASSUME NEW f \in Files, CsvStep(f)
      PROVE  StepsLeft' < StepsLeft
  <2>1. FileSteps(f)' < FileSteps(f)
    <3>1. \/ csvPc[f] = "checksum" /\ csvPc'[f] = "file"
          \/ csvPc[f] = "file" /\ csvPc'[f] = "gzip"
          \/ csvPc[f] = "gzip" /\ csvPc'[f] = "create"
          \/ csvPc[f] = "create" /\ csvPc'[f] = "copy"
          \/ csvPc[f] = "copy" /\ csvPc'[f] = "compare"
          \/ csvPc[f] = "compare" /\ csvPc'[f] = "done"
          \/ csvPc[f] \in Working /\ csvPc'[f] = "report"
          \/ csvPc[f] = "report" /\ csvPc'[f] = "done"
      BY <1>2 DEF CsvStep, DownloadCsvChecksum, DownloadCsvFile, OpenGzip, CreateTarget,
         CopyEnds, Succeeds, Fails, Report, CsvGoto, IInv, Types
    <3>2. QED
      BY <3>1 DEF FileSteps, Working
  <2>2. \A g \in Files : g # f => FileSteps(g)' = FileSteps(g)
    <3>1. \A g \in Files : g # f => csvPc'[g] = csvPc[g]
      BY <1>2 DEF CsvStep, DownloadCsvChecksum, DownloadCsvFile, OpenGzip, CreateTarget,
         CopyEnds, Succeeds, Fails, Report, CsvGoto, IInv, Types
    <3>2. QED
      BY <3>1 DEF FileSteps
  <2>3. UNCHANGED <<main, shutDown>>
    BY <1>2 DEF CsvStep, DownloadCsvChecksum, DownloadCsvFile, OpenGzip, CreateTarget,
       CopyEnds, Succeeds, Fails, Report
  <2>4. QED
    BY <1>1, <2>1, <2>2, <2>3 DEF StepsLeft, Files
<1>3. CASE WaitReturns \/ CancelContext
  <2>1. \A f \in Files : FileSteps(f)' = FileSteps(f)
    BY <1>3 DEF WaitReturns, CancelContext, FileSteps
  <2>2. QED
    BY <1>1, <1>3, <2>1 DEF WaitReturns, CancelContext, StepsLeft, Files
<1>4. QED
  BY <1>2, <1>3 DEF CsvNext

(* Whatever fails and whoever cancels whom, Download and its goroutines    *)
(* take a bounded number of steps.                                         *)
THEOREM DownloadIsBounded == CsvSpec => StepsRunOut
<1>1. IInv /\ [CsvNext]_csvVars => [StepsLeft' < StepsLeft]_csvVars
  BY StepsLeftStep
<1>2. QED
  BY <1>1, StepsLeftType, DownloadInvariant, PTL DEF CsvSpec, StepsRunOut
=============================================================================
