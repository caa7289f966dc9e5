------------------------- MODULE Software77Download -------------------------
(***************************************************************************)
(* One Download of the Software77 provider (providers/software77.go): two  *)
(* goroutines fetch a file each and check its MD5.  The first that fails   *)
(* cancels the context of the other and reports over a channel with room   *)
(* for two errors; Download waits for both, takes an error if there is one *)
(* and closes the channel.                                                 *)
(***************************************************************************)
EXTENDS Naturals, Sequences

VARIABLES
    main,        \* Download waits for the goroutines, or has returned
    csvOutcome,  \* what it returned: nil, or the kind of the error
    csvPc,       \* csvPc[f]: where downloadCsv of file f is
    stored,      \* stored[f]: what is in file f
    error,       \* error[f]: what has made downloadCsv of f fail
    errChan,     \* errors that were sent and not received
    chanClosed,  \* is errChan closed?
    ctxDone,     \* is the context of both goroutines done?
    shutDown     \* has the updater cancelled the context it gave to Download?

csvVars == <<main, csvOutcome, csvPc, stored, error, errChan, chanClosed, ctxDone, shutDown>>

Files        == {"ipv4", "ipv6"}
Working      == {"checksum", "file", "gzip", "create", "copy", "compare"}
CsvLocations == Working \cup {"report", "done"}

(* An error of its own, or one that says that the context is done.         *)
Errors == {"own", "cancelled"}

(* Mutant of ErrChanCapacity: room for one error.                          *)
ErrChanCapacityOne == 1

ErrChanCapacity == 2

CsvGoto(f, l) == csvPc' = [csvPc EXCEPT ![f] = l]

-----------------------------------------------------------------------------
(* downloadCsv.                                                            *)

(* No request succeeds once the context is done.                           *)
DownloadCsvChecksum(f) ==
    /\ csvPc[f] = "checksum"
    /\ ~ctxDone
    /\ CsvGoto(f, "file")
    /\ UNCHANGED <<main, csvOutcome, stored, error, errChan, chanClosed, ctxDone, shutDown>>

DownloadCsvFile(f) ==
    /\ csvPc[f] = "file"
    /\ ~ctxDone
    /\ CsvGoto(f, "gzip")
    /\ UNCHANGED <<main, csvOutcome, stored, error, errChan, chanClosed, ctxDone, shutDown>>

(* What has been received already can be read.                             *)
OpenGzip(f) ==
    /\ csvPc[f] = "gzip"
    /\ CsvGoto(f, "create")
    /\ UNCHANGED <<main, csvOutcome, stored, error, errChan, chanClosed, ctxDone, shutDown>>

CreateTarget(f) ==
    /\ csvPc[f] = "create"
    /\ CsvGoto(f, "copy")
    /\ stored' = [stored EXCEPT ![f] = "partial"]
    /\ UNCHANGED <<main, csvOutcome, error, errChan, chanClosed, ctxDone, shutDown>>

(* The whole body was copied; it need not be the one of the checksum.      *)
CopyEnds(f) ==
    /\ csvPc[f] = "copy"
    /\ CsvGoto(f, "compare")
    /\ \E contents \in {"right", "wrong"} : stored' = [stored EXCEPT ![f] = contents]
    /\ UNCHANGED <<main, csvOutcome, error, errChan, chanClosed, ctxDone, shutDown>>

(* Mutant of Succeeds: the context is cancelled on every return.           *)
SucceedsAndCancels(f) ==
    /\ csvPc[f] = "compare"
    /\ stored[f] = "right"
    /\ CsvGoto(f, "done")
    /\ ctxDone' = TRUE
    /\ UNCHANGED <<main, csvOutcome, stored, error, errChan, chanClosed, shutDown>>

Succeeds(f) ==
    /\ csvPc[f] = "compare"
    /\ stored[f] = "right"
    /\ CsvGoto(f, "done")
    /\ UNCHANGED <<main, csvOutcome, stored, error, errChan, chanClosed, ctxDone, shutDown>>

(* What the failure of a step says: the requests and reads fail with the   *)
(* context, os.Create and the checksum fail on their own.                  *)
ErrorsAt(f) ==
    CASE csvPc[f] = "compare" -> IF stored[f] = "wrong" THEN {"own"} ELSE {}
      [] csvPc[f] = "create"  -> {"own"}
      [] OTHER             -> IF ctxDone THEN {"own", "cancelled"} ELSE {"own"}

(* A step fails, and ctxCancel is called.                                  *)
Fails(f) ==
    /\ csvPc[f] \in Working
    /\ \E e \in ErrorsAt(f) : error' = [error EXCEPT ![f] = e]
    /\ CsvGoto(f, "report")
    /\ ctxDone' = TRUE
    /\ UNCHANGED <<main, csvOutcome, stored, errChan, chanClosed, shutDown>>

(* The send, and the deferred wg.Done.                                     *)
Report(f) ==
    /\ csvPc[f] = "report"
    /\ Len(errChan) < ErrChanCapacity
    /\ errChan' = Append(errChan, error[f])
    /\ CsvGoto(f, "done")
    /\ UNCHANGED <<main, csvOutcome, stored, error, chanClosed, ctxDone, shutDown>>

-----------------------------------------------------------------------------
(* Download.                                                               *)

(* Mutant of WaitReturns: the group counts one goroutine.                  *)
WaitReturnsForOne ==
    /\ main = "wait"
    /\ \E f \in Files : csvPc[f] = "done"
    /\ main' = "returned"
    /\ csvOutcome' = IF errChan = <<>> THEN "nil" ELSE Head(errChan)
    /\ errChan' = IF errChan = <<>> THEN errChan ELSE Tail(errChan)
    /\ chanClosed' = TRUE
    /\ ctxDone' = TRUE
    /\ UNCHANGED <<csvPc, stored, error, shutDown>>

(* wg.Wait, the receive that does not block, and the deferred close and    *)
(* cancel.                                                                 *)
WaitReturns ==
    /\ main = "wait"
    /\ \A f \in Files : csvPc[f] = "done"
    /\ main' = "returned"
    /\ csvOutcome' = IF errChan = <<>> THEN "nil" ELSE Head(errChan)
    /\ errChan' = IF errChan = <<>> THEN errChan ELSE Tail(errChan)
    /\ chanClosed' = TRUE
    /\ ctxDone' = TRUE
    /\ UNCHANGED <<csvPc, stored, error, shutDown>>

(* The updater's Shutdown cancels the context it gave to Download.         *)
CancelContext ==
    /\ ~shutDown
    /\ main = "wait"
    /\ shutDown' = TRUE
    /\ ctxDone' = TRUE
    /\ UNCHANGED <<main, csvOutcome, csvPc, stored, error, errChan, chanClosed>>

-----------------------------------------------------------------------------

CsvInit ==
    /\ main = "wait"
    /\ csvOutcome = "none"
    /\ csvPc = [f \in Files |-> "checksum"]
    /\ stored = [f \in Files |-> "none"]
    /\ error = [f \in Files |-> "none"]
    /\ errChan = <<>>
    /\ chanClosed = FALSE
    /\ ctxDone = FALSE
    /\ shutDown = FALSE

CsvStep(f) ==
    \/ DownloadCsvChecksum(f) \/ DownloadCsvFile(f) \/ OpenGzip(f)
    \/ CreateTarget(f) \/ CopyEnds(f) \/ Succeeds(f) \/ Fails(f) \/ Report(f)

CsvNext == (\E f \in Files : CsvStep(f)) \/ WaitReturns \/ CancelContext

CsvSpec == CsvInit /\ [][CsvNext]_csvVars

(* The three goroutines run; requests end, because the HTTP client has a   *)
(* timeout.  The context need not be cancelled.                            *)
CsvFairness == (\A f \in Files : WF_csvVars(CsvStep(f))) /\ WF_csvVars(WaitReturns)

-----------------------------------------------------------------------------
(* Properties.                                                             *)

(* Download looks at errChan once and without waiting, and closes it: by   *)
(* then both goroutines have ended, so that none sends on a closed channel *)
(* (a panic), and nil means that both files are complete and verified.     *)
ReturnIsFinal ==
    main = "returned" =>
        /\ \A f \in Files : csvPc[f] = "done"
        /\ csvOutcome = "nil" => \A f \in Files : stored[f] = "right"

(* The goroutines share a context that each may cancel.  Download reports  *)
(* an error only if something failed or the updater was shut down, never   *)
(* because one goroutine has cancelled the other for no reason.            *)
NoErrorWithoutCause ==
    csvOutcome \in Errors => shutDown \/ \E f \in Files : error[f] = "own"

(* Download returns: the channel has room for whatever is reported.        *)
CsvDownloadReturns == <>(main = "returned")
=============================================================================
