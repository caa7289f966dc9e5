------------------------------ MODULE FsUpdater ------------------------------
(***************************************************************************)
(* The updater of an offline provider (topolib/fs_updater.go): it opens    *)
(* the database that the last process left on the disk, then downloads a   *)
(* new one from time to time, swaps the provider's handle and removes what *)
(* is not needed any more.  The process may die between any two steps and  *)
(* is started again; Shutdown runs in another goroutine than the updates.  *)
(*                                                                         *)
(* The provider (maxminddb_base.go, ip2location.go, software77.go) appears *)
(* as the version its handle serves.                                       *)
(***************************************************************************)
EXTENDS FsDir

VARIABLES
    pc,           \* where Start or the goroutine of runBgUpdate is
    saved,        \* targetDir of Start, newTargetDir of doUpdate
    todo,         \* the entries that a removal under way has not removed yet
    served,       \* the version behind the provider's handle
    lastUpdated,  \* the version whose installation UsageStats.LastUpdated tells
    downloaded,   \* what Download has put into the temporary directory
    ctxDone,      \* has Shutdown cancelled f.ctx?
    closed,       \* has the provider's Shutdown been called?
    removalFailed \* has an os.RemoveAll failed so far? (history)

provider == <<served, lastUpdated, ctxDone, closed>>
data == <<fsVars, saved, todo, downloaded, provider, removalFailed>>
vars == <<data, pc>>

Cleanups  == {"startCleanup", "fullCleanup", "updateCleanup"}
Starting  == {"startCleanup", "startOpen", "fullCleanup"}
Waiting   == {"timer", "ticker"}
Updating  == {"tempDir", "download", "downloading", "promote", "open", "removeNew",
              "updateCleanup", "report", "return"}
Background == {"bg", "stopped"} \cup Waiting \cup Updating
Locations == {"off", "failed"} \cup Starting \cup Background

Jump(to) == pc' = to /\ UNCHANGED data

-----------------------------------------------------------------------------
(* Cleanup and the removal of a new target directory, entry by entry.      *)

(* Cleanup of everything but save.                                         *)
BeginCleanup(at, save) ==
    /\ pc' = at
    /\ todo' = Entries' \ {save}

RemoveEntry ==
    /\ pc \in Cleanups \cup {"removeNew"}
    /\ \E e \in todo :
         /\ RemoveStep(e)
         /\ todo' = IF e \in Entries' THEN todo ELSE todo \ {e}
    /\ UNCHANGED <<pc, saved, downloaded, provider, removalFailed>>

(* Nor can a directory be removed that Cleanup cannot list.  Start gives   *)
(* up, doUpdate does not care.                                             *)
RemovalGoesWrong ==
    /\ pc \in Cleanups \cup {"removeNew"}
    /\ todo # {}
    /\ pc' = CASE pc = "updateCleanup" -> "report"
               [] pc = "removeNew"     -> "return"
               [] OTHER                -> "failed"
    /\ todo' = {}
    /\ removalFailed' = TRUE
    /\ UNCHANGED <<fsVars, saved, downloaded, provider>>

-----------------------------------------------------------------------------
(* Start.                                                                  *)

(* GetTargetDir, and Cleanup of everything else.                           *)
Start ==
    /\ pc = "off"
    /\ \/ saved' \in GetTargetDir
       \/ GetTargetDir = {} /\ saved' = NoDir
    /\ UNCHANGED fsVars
    /\ BeginCleanup("startCleanup", saved')
    /\ UNCHANGED <<downloaded, provider, removalFailed>>

StartIsClean ==
    /\ pc = "startCleanup"
    /\ todo = {}
    /\ UNCHANGED fsVars
    /\ IF saved # NoDir
         THEN pc' = "startOpen" /\ UNCHANGED todo
         ELSE BeginCleanup("fullCleanup", NoDir)
    /\ UNCHANGED <<saved, downloaded, provider, removalFailed>>

(* A database that lost its files cannot be opened.                        *)
StartOpens ==
    /\ pc = "startOpen"
    /\ target[saved] = "full"
    /\ served' = saved
    /\ lastUpdated' = saved
    /\ pc' = "bg"
    /\ UNCHANGED <<fsVars, saved, todo, downloaded, ctxDone, closed, removalFailed>>

StartCannotOpen ==
    /\ pc = "startOpen"
    /\ UNCHANGED fsVars
    /\ BeginCleanup("fullCleanup", NoDir)
    /\ UNCHANGED <<saved, downloaded, provider, removalFailed>>

(* The base directory cannot be read, by GetTargetDir or by a Cleanup.     *)
StartCannotRead ==
    /\ \/ pc = "off"
       \/ pc = "startCleanup" /\ todo = {} /\ saved = NoDir
       \/ pc = "startOpen"
    /\ Jump("failed")

StartsEmpty ==
    /\ pc = "fullCleanup"
    /\ todo = {}
    /\ Jump("bg")

-----------------------------------------------------------------------------
(* runBgUpdate.                                                            *)

(* Without a database the update is overdue; with one, it depends on when  *)
(* the directory was modified.                                             *)
BgStarts ==
    /\ pc = "bg"
    /\ \/ GetTargetDir # {} /\ Jump("timer")
       \/ Jump("tempDir")

TimerFires ==
    /\ pc \in Waiting
    /\ Jump("tempDir")

(* Mutant of ContextEndsLoop: only the first wait watches the context.     *)
ContextEndsFirstWait ==
    /\ pc = "timer"
    /\ ctxDone
    /\ Jump("stopped")

ContextEndsLoop ==
    /\ pc \in Waiting
    /\ ctxDone
    /\ Jump("stopped")

-----------------------------------------------------------------------------
(* doUpdate.                                                               *)

TempDir ==
    /\ pc = "tempDir"
    /\ \/ tmpDirs' = tmpDirs \cup {"current"} /\ pc' = "download"
       \/ UNCHANGED tmpDirs /\ pc' = "ticker"
    /\ UNCHANGED <<target, older, saved, todo, downloaded, provider, removalFailed>>

(* No request is made once the context is done.                            *)
DownloadBegins ==
    /\ pc = "download"
    /\ Jump(IF ctxDone THEN "return" ELSE "downloading")

DownloadSucceeds(v) ==
    /\ pc = "downloading"
    /\ downloaded' = v
    /\ pc' = "promote"
    /\ UNCHANGED <<fsVars, saved, todo, provider, removalFailed>>

(* Mutant of UpdateFails: the goroutine ends with the first failed update. *)
UpdateFailsForGood ==
    /\ pc \in {"downloading", "promote"}
    /\ Jump("stopped")

(* Download, the checksum or the rename fails.                             *)
UpdateFails ==
    /\ pc \in {"downloading", "promote"}
    /\ Jump("return")

(* Mutant of Promote: other databases are removed before the new one is    *)
(* opened.                                                                 *)
PromoteAndCleanUp ==
    /\ pc = "promote"
    /\ saved' = downloaded
    /\ IF downloaded \in Present THEN UNCHANGED fsVars ELSE RenameTmpTo(downloaded)
    /\ BeginCleanup("updateCleanup", downloaded)
    /\ UNCHANGED <<downloaded, provider, removalFailed>>

(* A directory of the same contents that exists already is kept, and taken *)
(* to be the one that is served.                                           *)
Promote ==
    /\ pc = "promote"
    /\ saved' = downloaded
    /\ IF downloaded \in Present
         THEN /\ UNCHANGED fsVars
              /\ BeginCleanup("updateCleanup", downloaded)
         ELSE /\ RenameTmpTo(downloaded)
              /\ pc' = "open"
              /\ UNCHANGED todo
    /\ UNCHANGED <<downloaded, provider, removalFailed>>

UpdateOpens ==
    /\ pc = "open"
    /\ served' = saved
    /\ UNCHANGED fsVars
    /\ BeginCleanup("updateCleanup", saved)
    /\ UNCHANGED <<saved, lastUpdated, downloaded, ctxDone, closed, removalFailed>>

(* Mutant of UpdateCannotOpen: the new directory is left where it is.      *)
UpdateCannotOpenKeeps ==
    /\ pc = "open"
    /\ Jump("return")

(* Mutant of UpdateCannotOpen: the old handle is closed first.             *)
UpdateClosesOldHandle ==
    /\ pc = "open"
    /\ pc' = "removeNew"
    /\ todo' = {saved}
    /\ served' = NoDir
    /\ UNCHANGED <<fsVars, saved, lastUpdated, downloaded, ctxDone, closed, removalFailed>>

UpdateCannotOpen ==
    /\ pc = "open"
    /\ pc' = "removeNew"
    /\ todo' = {saved}
    /\ UNCHANGED <<fsVars, saved, downloaded, provider, removalFailed>>

RemovedNew ==
    /\ pc = "removeNew"
    /\ todo = {}
    /\ Jump("return")

UpdateIsClean ==
    /\ pc = "updateCleanup"
    /\ todo = {}
    /\ Jump("report")

NotifyUpdated ==
    /\ pc = "report"
    /\ lastUpdated' = saved
    /\ pc' = "return"
    /\ UNCHANGED <<fsVars, saved, todo, served, downloaded, ctxDone, closed, removalFailed>>

(* The deferred removal of the temporary directory.                        *)
UpdateReturns ==
    /\ pc = "return"
    /\ \/ tmpDirs' = tmpDirs \ {"current"} /\ UNCHANGED removalFailed
       \/ tmpDirs' = AbandonTmp /\ removalFailed' = TRUE
    /\ pc' = "ticker"
    /\ UNCHANGED <<target, older, saved, todo, downloaded, provider>>

-----------------------------------------------------------------------------
(* Shutdown, and the end of the process.                                   *)

CancelContext ==
    /\ pc \in Background
    /\ ~ctxDone
    /\ ctxDone' = TRUE
    /\ UNCHANGED <<fsVars, pc, saved, todo, served, lastUpdated, downloaded, closed, removalFailed>>

ProviderShutdown ==
    /\ ctxDone
    /\ ~closed
    /\ closed' = TRUE
    /\ served' = NoDir
    /\ UNCHANGED <<fsVars, pc, saved, todo, lastUpdated, downloaded, ctxDone, removalFailed>>

(* A crash, or the exit after Shutdown or after a failed Start.            *)
ProcessEnds ==
    /\ pc # "off"
    /\ pc' = "off"
    /\ tmpDirs' = AbandonTmp
    /\ saved' = NoDir /\ served' = NoDir /\ lastUpdated' = NoDir /\ downloaded' = NoDir
    /\ todo' = {}
    /\ ctxDone' = FALSE /\ closed' = FALSE
    /\ UNCHANGED <<target, older, removalFailed>>

-----------------------------------------------------------------------------

(* An empty base directory, before the first start.                        *)
Init ==
    /\ target = [v \in Versions |-> "absent"]
    /\ older = {}
    /\ tmpDirs = {}
    /\ pc = "off"
    /\ saved = NoDir /\ served = NoDir /\ lastUpdated = NoDir /\ downloaded = NoDir
    /\ todo = {}
    /\ ctxDone = FALSE /\ closed = FALSE
    /\ removalFailed = FALSE

StartStep ==
    Start \/ StartIsClean \/ StartOpens \/ StartCannotOpen \/ StartCannotRead \/ StartsEmpty

UpdateStep ==
    \/ TempDir \/ DownloadBegins \/ \E v \in Versions : DownloadSucceeds(v)
    \/ UpdateFails \/ Promote \/ UpdateOpens \/ UpdateCannotOpen
    \/ RemovedNew \/ UpdateIsClean \/ NotifyUpdated \/ UpdateReturns

BackgroundStep ==
    BgStarts \/ TimerFires \/ ContextEndsLoop \/ UpdateStep \/ RemoveEntry
        \/ RemovalGoesWrong

Next == StartStep \/ BackgroundStep \/ CancelContext \/ ProviderShutdown \/ ProcessEnds

Spec == Init /\ [][Next]_vars

(* The goroutine of runBgUpdate runs, its timers fire, and Download ends   *)
(* (its HTTP client has a timeout; for an exception see MaxmindDownload).  *)
(* A select with two ready cases chooses at random, so it does not pass    *)
(* over the context for ever.                                              *)
FairSpec == Spec /\ WF_vars(BackgroundStep) /\ SF_vars(ContextEndsLoop)

-----------------------------------------------------------------------------
(* Properties.                                                             *)

(* Every variable has its type, a removal is under way only where the code *)
(* removes, and the order of modification times is one.                    *)
TypeOK ==
    /\ target \in [Versions -> Contents]
    /\ older \subseteq Present \X Present
    /\ \A v, w \in Present : v # w => (<<v, w>> \in older <=> <<w, v>> \notin older)
    /\ \A v \in Versions : <<v, v>> \notin older
    /\ tmpDirs \subseteq TmpDirs
    /\ pc \in Locations
    /\ {saved, served, lastUpdated, downloaded} \subseteq Versions \cup {NoDir}
    /\ todo \subseteq Entries
    /\ todo # {} => pc \in Cleanups \cup {"removeNew"}
    /\ ctxDone \in BOOLEAN /\ closed \in BOOLEAN
    /\ removalFailed \in BOOLEAN

(* The code looks at the error of os.RemoveAll in Start only: what follows *)
(* holds until the first removal fails (RemoveAll on the base directory or *)
(* on the temporary one), however often the process dies before.           *)

(* The database that is served is complete on the disk at every moment, so *)
(* that a restart finds it: an update opens the new one before it removes  *)
(* the old one and removes the new one, never the old, if it cannot.       *)
ServedIsOnDisk == ~removalFailed /\ served # NoDir => target[served] = "full"

(* If there is a complete database, GetTargetDir returns a complete one,   *)
(* wherever the process died: what is being removed is always the younger  *)
(* directory.                                                              *)
RestartFindsDatabase ==
    ~removalFailed /\ (\E v \in Versions : target[v] = "full") =>
        \A v \in GetTargetDir : target[v] = "full"

(* Between updates the base directory holds the served database and        *)
(* nothing else, whatever earlier updates and processes left behind.       *)
NoLitterAtRest ==
    ~removalFailed /\ pc \in Waiting /\ ~ctxDone => Entries = {served} \ {NoDir}

(* LastUpdated tells of the database that is served: an update that did    *)
(* not install its download is not reported (Logger.UpdateInfo: "notifies  *)
(* that provider has updated a database with no errors").                  *)
StatsTellTheTruth ==
    ~removalFailed /\ pc \notin {"updateCleanup", "report"} /\ ~closed =>
        lastUpdated = served

SomeDatabase == \E v \in Versions : target[v] = "full"

LostOnlyIfUnopened ==
    ~removalFailed /\ SomeDatabase /\ ~SomeDatabase' =>
        pc \in {"fullCleanup", "removeNew"} /\ Present \subseteq {saved}

(* Once there is a complete database on the disk there is one ever after,  *)
(* through updates, crashes in the middle of a cleanup and restarts in the *)
(* middle of the next one.  The only step that takes the last one away is  *)
(* the removal of a directory that Open has just refused.                  *)
LastDatabaseIsKept == [][LostOnlyIfUnopened]_vars

(* The goroutine ends after Shutdown.                                      *)
ShutdownEndsUpdates == ctxDone ~> pc \in {"stopped", "off"}

(* A failed update is never the last one: as long as the process lives and *)
(* is not shut down, doUpdate is called again.                              *)
UpdatesGoOn ==
    []<>(pc \in {"tempDir", "off", "failed"} \cup Starting \/ ctxDone)
=============================================================================
