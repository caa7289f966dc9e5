--------------------------- MODULE MaxmindDownload ---------------------------
(***************************************************************************)
(* One Download of the MaxMind provider (providers/maxmind_lite.go): the   *)
(* checksum page, the archive, and the database in it.  The body of the    *)
(* response is hashed and written into a pipe; a goroutine (the copier)    *)
(* reads the pipe, writes the archive file and reports how that went over  *)
(* an unbuffered channel.  A request, the body or a write to the disk may  *)
(* fail at any point.                                                      *)
(***************************************************************************)
EXTENDS Naturals

CONSTANT Chunks   \* writes to the pipe that a complete archive takes

ASSUME ChunksAssumption == Chunks \in Nat \ {0}

VARIABLES
    pc,        \* where Download is
    outcome,   \* what it returned
    right,     \* is the body the one that the checksum page speaks of?
    sent,      \* chunks that were hashed
    pipe,      \* io.Pipe: empty, a Write under way (full), the ends closed
    copier,    \* where the goroutine of downloadArchive is
    written,   \* chunks in the archive file
    archive,   \* is there an archive file in rootDir?
    database   \* the database file in rootDir

transfer == <<right, sent, pipe, copier, written>>
vars     == <<pc, outcome, transfer, archive, database>>

Locations == {"checksum", "create", "request", "copy", "write", "report", "compare",
              "extract", "extracting", "returned"}
CopierLocations == {"none", "reading", "writing", "ok", "failed", "done"}

Goto(l)      == pc' = l /\ UNCHANGED outcome
Return(what) == pc' = "returned" /\ outcome' = what

-----------------------------------------------------------------------------
(* Download and downloadArchive up to the copy.                            *)

(* The request, the body or the format of the page may be wrong.           *)
DownloadChecksum ==
    /\ pc = "checksum"
    /\ Goto("create") \/ Return("error")
    /\ UNCHANGED <<transfer, archive, database>>

CreateArchive ==
    /\ pc = "create"
    /\ \/ Goto("request") /\ archive' = TRUE
       \/ Return("error") /\ UNCHANGED archive
    /\ UNCHANGED <<transfer, database>>

(* The response begins: it may be of another release than the checksum.    *)
RequestArchive ==
    /\ pc = "request"
    /\ \/ /\ Goto("copy")
          /\ right' \in BOOLEAN
          /\ copier' = "reading"
       \/ Return("error") /\ UNCHANGED <<right, copier>>
    /\ UNCHANGED <<sent, pipe, written, archive, database>>

-----------------------------------------------------------------------------
(* hashedCopyResponse.                                                     *)

(* A chunk of the body is hashed, and a Write to the pipe waits for the    *)
(* reader.                                                                 *)
WriteChunk ==
    /\ pc = "copy"
    /\ sent < Chunks
    /\ Goto("write")
    /\ sent' = sent + 1
    /\ pipe' = "full"
    /\ UNCHANGED <<right, copier, written, archive, database>>

(* Mutant of BodyEnds: the write end is closed by the deferred call only.  *)
BodyEndsPipeOpen ==
    /\ pc = "copy"
    /\ right => sent = Chunks
    /\ Goto("report")
    /\ UNCHANGED <<transfer, archive, database>>

(* The body ends.  A wrong one may have any length.                        *)
BodyEnds ==
    /\ pc = "copy"
    /\ right => sent = Chunks
    /\ Goto("report")
    /\ pipe' = "eof"
    /\ UNCHANGED <<right, sent, copier, written, archive, database>>

(* The connection breaks, or the context is done.  Deferred calls close    *)
(* both ends of the pipe.                                                  *)
BodyFails ==
    /\ pc = "copy"
    /\ Return("error")
    /\ pipe' = "closed"
    /\ UNCHANGED <<right, sent, copier, written, archive, database>>

-----------------------------------------------------------------------------
(* The copier: io.Copy from the pipe to the archive file.                  *)

ReadPipe ==
    /\ copier = "reading"
    /\ pipe = "full"
    /\ pipe' = "empty"
    /\ copier' = "writing"
    /\ Goto("copy")
    /\ UNCHANGED <<right, sent, written, archive, database>>

WriteArchive ==
    /\ copier = "writing"
    /\ written' = written + 1
    /\ copier' = "reading"
    /\ UNCHANGED <<pc, outcome, right, sent, pipe, archive, database>>

(* The disk is full: io.Copy returns and nobody reads the pipe any more.   *)
WriteFails ==
    /\ copier = "writing"
    /\ copier' = "failed"
    /\ UNCHANGED <<pc, outcome, right, sent, pipe, written, archive, database>>

CopierEnds ==
    /\ copier = "reading"
    /\ \/ pipe = "eof" /\ copier' = "ok"
       \/ pipe = "closed" /\ copier' \in {"ok", "failed"}
    /\ UNCHANGED <<pc, outcome, right, sent, pipe, written, archive, database>>

(* Mutant of ReceiveReport: the end of the body is taken for the end of    *)
(* the copy.                                                               *)
ReceiveReportLater ==
    /\ pc = "report"
    /\ Goto("compare")
    /\ UNCHANGED <<transfer, archive, database>>

(* errChan is unbuffered: the two goroutines meet.                         *)
ReceiveReport ==
    /\ pc = "report"
    /\ \/ copier = "ok" /\ Goto("compare")
       \/ copier = "failed" /\ Return("error")
    /\ copier' = "done"
    /\ UNCHANGED <<right, sent, pipe, written, archive, database>>

-----------------------------------------------------------------------------
(* The end of Download.                                                    *)

(* Only the body of the checksum page has its hash.                        *)
Compare ==
    /\ pc = "compare"
    /\ IF right THEN Goto("extract") ELSE Return("error")
    /\ UNCHANGED <<transfer, archive, database>>

(* extractArchive opens the archive and creates the file of the database.  *)
ExtractBegins ==
    /\ pc = "extract"
    /\ archive
    /\ \/ Goto("extracting") /\ database' = "partial"
       \/ Return("error") /\ UNCHANGED database
    /\ UNCHANGED <<transfer, archive>>

(* The database is in the archive and was copied, or not.  A deferred call *)
(* removes the archive; nobody looks at its error.                         *)
ExtractEnds ==
    /\ pc = "extracting"
    /\ \/ Return("ok") /\ database' = "full"
       \/ Return("error") /\ UNCHANGED database
    /\ archive' \in {FALSE, archive}
    /\ UNCHANGED transfer

-----------------------------------------------------------------------------

Init ==
    /\ pc = "checksum"
    /\ outcome = "none"
    /\ right = FALSE
    /\ sent = 0
    /\ pipe = "empty"
    /\ copier = "none"
    /\ written = 0
    /\ archive = FALSE
    /\ database = "none"

DownloadStep ==
    \/ DownloadChecksum \/ CreateArchive \/ RequestArchive
    \/ WriteChunk \/ BodyEnds \/ BodyFails \/ ReceiveReport
    \/ Compare \/ ExtractBegins \/ ExtractEnds

CopierStep == ReadPipe \/ WriteArchive \/ WriteFails \/ CopierEnds

Next == DownloadStep \/ CopierStep

Spec == Init /\ [][Next]_vars

(* Both goroutines run; a body ends, because the HTTP client has a timeout.*)
Fairness == WF_vars(DownloadStep) /\ WF_vars(CopierStep)

FairSpec == Spec /\ Fairness

-----------------------------------------------------------------------------
(* Properties.                                                             *)

(* Every variable has its type, and the archive file never holds more than *)
(* was hashed.                                                             *)
TypeOK ==
    /\ pc \in Locations
    /\ outcome \in {"none", "ok", "error"}
    /\ right \in BOOLEAN /\ archive \in BOOLEAN
    /\ sent \in 0..Chunks
    /\ pipe \in {"empty", "full", "eof", "closed"}
    /\ copier \in CopierLocations
    /\ written \in 0..sent
    /\ database \in {"none", "partial", "full"}

(* The checksum is computed from the response, not from the file.  What is *)
(* extracted is nevertheless what was verified: when extractArchive opens  *)
(* the file, the copier has written all of it.                             *)
ExtractsWhatWasVerified ==
    pc \in {"extract", "extracting"} \/ outcome = "ok" =>
        right /\ sent = Chunks /\ written = Chunks /\ copier = "done"

(* Download returns, unless the archive file could not be written and more *)
(* of the body follows.                                                    *)
DownloadReturns == <>(pc = "returned" \/ (copier = "failed" /\ pc = "write"))

(* "These databases should be downloaded opened and updated on periodic    *)
(* basis" (OfflineProvider): Download always returns, so that the updates  *)
(* can go on.                                                              *)
DownloadAlwaysReturns == <>(pc = "returned")
=============================================================================
