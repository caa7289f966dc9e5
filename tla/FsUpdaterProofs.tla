--------------------------- MODULE FsUpdaterProofs ---------------------------
(***************************************************************************)
(* Proofs about FsUpdater for any set of database versions.  The process   *)
(* may die at any step.                                                    *)
(***************************************************************************)
EXTENDS FsUpdater, TLAPS

(* Nothing of an update is on the disk.                                    *)
Settled == {"bg", "timer", "ticker", "tempDir", "stopped"}

(* A download is under way or was just given up.                           *)
Loading == {"download", "downloading", "promote", "return"}

(* What the disk looks like wherever the process is.                       *)
Installed == {lastUpdated} \ {NoDir}

DiskInv ==
    /\ pc \in Settled => Entries = Installed
    /\ pc \in Loading => Present = Installed /\ tmpDirs \subseteq {"current"}
    /\ pc \in {"open", "removeNew"} => saved \in Versions \ Installed /\ tmpDirs = {}
    /\ pc = "open" => Present = Installed \cup {saved}
    /\ pc = "removeNew" => todo \subseteq {saved} /\ Present = Installed \cup todo
    /\ pc = "updateCleanup" => /\ saved \in Versions \ todo
                               /\ Entries \subseteq {saved} \cup todo
                               /\ target[saved] = "full"
    /\ pc = "report" => /\ saved \in Versions
                        /\ Entries = {saved}
                        /\ target[saved] = "full"
    /\ pc = "startCleanup" => saved \notin todo /\ Entries \subseteq {saved} \cup todo
    /\ pc = "startOpen" => Entries \subseteq {saved} /\ saved \in Versions
    /\ pc = "fullCleanup" => Entries \subseteq todo
    /\ pc \in Settled \cup Loading \cup {"open", "removeNew"} =>
          \A v \in Installed : target[v] = "full"
    /\ pc = "open" => target[saved] = "full"
    /\ pc = "promote" => downloaded \in Versions

(* The handle is the database of the last update, or closed.               *)
Current == IF pc \in {"updateCleanup", "report"} THEN saved ELSE lastUpdated

HandleInv ==
    /\ served \in {NoDir, Current}
    /\ ~closed => served = Current
    /\ closed => ctxDone
    /\ pc \notin Background => ~ctxDone /\ lastUpdated = NoDir

(* What lost files was modified after everything that is complete.         *)
OrderInv ==
    \A v, w \in Versions :
        target[v] = "full" /\ target[w] = "partial" => <<v, w>> \in older

IInv == TypeOK /\ DiskInv /\ HandleInv /\ OrderInv

(* The types, and where an update has its directory: true whatever fails.  *)
TypeInv ==
    /\ TypeOK
    /\ pc = "promote" => downloaded \in Versions
    /\ pc = "open" => saved \in Present

(* The rest is lost with the first removal that fails.                     *)
FullInv == TypeInv /\ (removalFailed \/ IInv)

-----------------------------------------------------------------------------
(* The disk.                                                               *)

(* A step that leaves the disk alone.                                      *)
LEMMA DiskUntouched ==
    ASSUME UNCHANGED fsVars
    PROVE  /\ Present' = Present
           /\ Entries' = Entries
           /\ OrderInv => OrderInv'
           /\ UNCHANGED <<target, older, tmpDirs>>
BY DEF fsVars, Present, Entries, OrderInv

(* The order of modification times is one, as TypeOK says it.              *)
OrderOK ==
    /\ older \subseteq Present \X Present
    /\ \A v, w \in Present : v # w => (<<v, w>> \in older <=> <<w, v>> \notin older)
    /\ \A v \in Versions : <<v, v>> \notin older

LEMMA TouchKeepsOrder ==
    ASSUME OrderOK, NEW v \in Versions, Touch(v),
           Present' = Present \cup {v}
    PROVE  /\ OrderOK'
           /\ \A w \in Present \ {v} : <<w, v>> \in older'
           /\ \A u, w \in Versions \ {v} : <<u, w>> \in older' <=> <<u, w>> \in older
<1>1. \A u, w \in Versions :
        <<u, w>> \in older' <=>
            (<<u, w>> \in older /\ u # v /\ w # v) \/ (u \in Present \ {v} /\ w = v)
  <2>1. \A u, w \in Versions : <<u, w>> \in Without(v) <=> <<u, w>> \in older /\ u # v /\ w # v
    BY DEF Without
  <2>2. \A u, w \in Versions :
          <<u, w>> \in (Present \ {v}) \X {v} <=> u \in Present \ {v} /\ w = v
    OBVIOUS
  <2> QED
    BY <2>1, <2>2 DEF Touch
<1>2. Present \subseteq Versions
  BY DEF Present
<1>3. older' \subseteq Present' \X Present'
  BY DEF Touch, Without, OrderOK
<1>4. \A u \in Versions : <<u, u>> \notin older'
  BY <1>1 DEF OrderOK
<1>5. \A u, w \in Present' : u # w => (<<u, w>> \in older' <=> <<w, u>> \notin older')
  <2> SUFFICES ASSUME NEW u \in Present', NEW w \in Present', u # w
               PROVE  <<u, w>> \in older' <=> <<w, u>> \notin older'
    OBVIOUS
  <2>1. u \in Versions /\ w \in Versions
    BY <1>2
  <2>2. CASE u # v /\ w # v
    BY <1>1, <2>1, <2>2 DEF OrderOK
  <2>3. CASE u = v \/ w = v
    BY <1>1, <2>1, <2>3
  <2> QED
    BY <2>2, <2>3
<1> QED
  BY <1>1, <1>2, <1>3, <1>4, <1>5 DEF OrderOK

LEMMA WithoutKeepsOrder ==
    ASSUME OrderOK, NEW v \in Versions, older' = Without(v),
           Present' = Present \ {v}
    PROVE  /\ OrderOK'
           /\ \A u, w \in Versions \ {v} : <<u, w>> \in older' <=> <<u, w>> \in older
<1>1. \A u, w \in Versions :
        <<u, w>> \in older' <=> <<u, w>> \in older /\ u # v /\ w # v
  BY DEF Without
<1>2. Present \subseteq Versions
  BY DEF Present
<1>3. older' \subseteq Present' \X Present'
  BY <1>2 DEF Without, OrderOK
<1> QED
  BY <1>1, <1>2, <1>3 DEF OrderOK

(* A step of a removal takes the files of one entry, or the entry.         *)
LEMMA RemoveStepEffect ==
    ASSUME TypeOK, NEW e \in Entries, RemoveStep(e)
    PROVE  /\ Entries' \subseteq Entries
           /\ Entries \ {e} \subseteq Entries'
           /\ \A v \in Versions \ {e} : target'[v] = target[v]
           /\ target' \in [Versions -> Contents]
           /\ tmpDirs' \subseteq TmpDirs
           /\ OrderOK'
           /\ OrderInv => OrderInv'
<1> USE VersionsAssumption
<1>0. OrderOK /\ Present \subseteq Versions
  BY DEF TypeOK, OrderOK, Present
<1>1. CASE e \in TmpDirs
  <2>1. tmpDirs' = tmpDirs \ {e} /\ UNCHANGED <<target, older>>
    BY <1>1 DEF RemoveStep
  <2> QED
    BY <1>0, <1>1, <2>1 DEF Entries, Present, OrderOK, OrderInv, TypeOK
<1>2. CASE e \in Versions /\ target[e] = "full"
  <2>1. target' = [target EXCEPT ![e] = "partial"] /\ Touch(e) /\ UNCHANGED tmpDirs
    BY <1>2 DEF RemoveStep
  <2>2. target' \in [Versions -> Contents] /\ Present' = Present /\ e \in Present
    BY <1>2, <2>1 DEF Present, TypeOK, Contents
  <2>3. OrderOK'
        /\ (\A w \in Present \ {e} : <<w, e>> \in older')
        /\ \A u, w \in Versions \ {e} : <<u, w>> \in older' <=> <<u, w>> \in older
    BY <1>0, <1>2, <2>1, <2>2, TouchKeepsOrder
  <2>4. OrderInv => OrderInv'
    BY <1>2, <2>1, <2>3 DEF OrderInv, TypeOK, Present
  <2> QED
    BY <1>2, <2>1, <2>2, <2>3, <2>4 DEF Entries, TypeOK
<1>3. CASE e \in Versions /\ target[e] # "full"
  <2>1. target' = [target EXCEPT ![e] = "absent"] /\ older' = Without(e) /\ UNCHANGED tmpDirs
    BY <1>3 DEF RemoveStep
  <2>2. target' \in [Versions -> Contents] /\ Present' = Present \ {e}
    BY <1>3, <2>1 DEF Present, TypeOK, Contents
  <2>3. OrderOK'
        /\ \A u, w \in Versions \ {e} : <<u, w>> \in older' <=> <<u, w>> \in older
    BY <1>0, <1>3, <2>1, <2>2, WithoutKeepsOrder
  <2>4. OrderInv => OrderInv'
    BY <1>3, <2>1, <2>3 DEF OrderInv, TypeOK
  <2> QED
    BY <1>0, <1>3, <2>1, <2>2, <2>3, <2>4 DEF Entries, TypeOK
<1> QED
  BY <1>0, <1>1, <1>2, <1>3 DEF Entries, TypeOK

-----------------------------------------------------------------------------
(* The types.                                                              *)

LEMMA InitTypeInv == Init => TypeInv
BY VersionsAssumption
   DEF Init, TypeInv, TypeOK, Entries, Present, Locations, Contents, Cleanups

(* Steps that touch neither the disk nor the list of a removal.            *)
LEMMA QuietTypeInv ==
    ASSUME TypeInv,
           \/ StartOpens \/ StartCannotRead \/ StartsEmpty \/ BgStarts \/ TimerFires
           \/ ContextEndsLoop \/ DownloadBegins \/ (\E v \in Versions : DownloadSucceeds(v)) \/ UpdateFails
           \/ RemovedNew \/ UpdateIsClean \/ NotifyUpdated \/ CancelContext
           \/ ProviderShutdown
    PROVE  TypeInv'
<1> USE DEF Jump, data, provider
<1>1. UNCHANGED fsVars /\ UNCHANGED <<todo, saved, removalFailed>>
  BY DEF StartOpens, StartCannotRead, StartsEmpty, BgStarts, TimerFires, ContextEndsLoop, DownloadBegins,
     DownloadSucceeds, UpdateFails, RemovedNew, UpdateIsClean, NotifyUpdated,
     CancelContext, ProviderShutdown
<1>2. /\ Present' = Present /\ Entries' = Entries
      /\ UNCHANGED <<target, older, tmpDirs, todo, saved, removalFailed>>
  BY <1>1, DiskUntouched
<1>3. /\ pc' \in Locations /\ (todo # {} => pc' \in Cleanups \cup {"removeNew"})
      /\ pc' = "promote" => downloaded' \in Versions
      /\ pc' = "open" => pc = "open"
  BY DEF TypeInv, TypeOK, StartOpens, StartCannotRead, StartsEmpty, BgStarts, TimerFires, ContextEndsLoop,
     DownloadBegins, DownloadSucceeds, UpdateFails, RemovedNew, UpdateIsClean,
     NotifyUpdated, CancelContext, ProviderShutdown, Locations, Background, Waiting,
     Updating, Starting, Cleanups
<1>4. {saved, served, lastUpdated, downloaded}' \subseteq Versions \cup {NoDir}
  <2>1. /\ served' \in {served, saved, NoDir} /\ lastUpdated' \in {lastUpdated, saved}
        /\ downloaded' \in {downloaded} \cup Versions
    BY DEF StartOpens, StartCannotRead, StartsEmpty, BgStarts, TimerFires,
       ContextEndsLoop, DownloadBegins, DownloadSucceeds, UpdateFails, RemovedNew,
       UpdateIsClean, NotifyUpdated, CancelContext, ProviderShutdown
  <2> QED
    BY <1>2, <2>1 DEF TypeInv, TypeOK
<1>5. ctxDone' \in BOOLEAN /\ closed' \in BOOLEAN
  <2>1. ctxDone' \in {ctxDone, TRUE} /\ closed' \in {closed, TRUE}
    BY DEF StartOpens, StartCannotRead, StartsEmpty, BgStarts, TimerFires,
       ContextEndsLoop, DownloadBegins, DownloadSucceeds, UpdateFails, RemovedNew,
       UpdateIsClean, NotifyUpdated, CancelContext, ProviderShutdown
  <2> QED
    BY <2>1 DEF TypeInv, TypeOK
<1> QED
  BY <1>2, <1>3, <1>4, <1>5 DEF TypeInv, TypeOK

(* Steps that leave the disk alone and make the list of a removal.         *)
LEMMA ListTypeInv ==
    ASSUME TypeInv,
           Start \/ StartIsClean \/ StartCannotOpen \/ UpdateOpens \/ UpdateCannotOpen
    PROVE  TypeInv'
<1>1. UNCHANGED fsVars /\ UNCHANGED removalFailed
  BY DEF Start, StartIsClean, StartCannotOpen, UpdateOpens, UpdateCannotOpen
<1>2. /\ Present' = Present /\ Entries' = Entries
      /\ UNCHANGED <<target, older, tmpDirs, removalFailed>>
  BY <1>1, DiskUntouched
<1>3. Present \subseteq Versions /\ GetTargetDir \subseteq Present
  BY DEF Present, GetTargetDir
<1> QED
  BY <1>2, <1>3 DEF TypeInv, TypeOK, Start, StartIsClean, StartCannotOpen, provider,
     UpdateOpens, UpdateCannotOpen, BeginCleanup, Locations, Background, Waiting,
     Updating, Starting, Cleanups, Entries

(* A removal, and one that fails.                                          *)
LEMMA RemovalTypeInv ==
    ASSUME TypeInv, RemoveEntry \/ RemovalGoesWrong
    PROVE  TypeInv'
<1>1. CASE RemoveEntry
  <2>1. PICK e \in todo :
          RemoveStep(e) /\ todo' = IF e \in Entries' THEN todo ELSE todo \ {e}
    BY <1>1 DEF RemoveEntry
  <2>2. /\ pc \in Cleanups \cup {"removeNew"}
        /\ UNCHANGED <<pc, saved, served, lastUpdated, downloaded, ctxDone, closed,
                      removalFailed>>
        /\ e \in Entries
    BY <1>1 DEF RemoveEntry, TypeInv, TypeOK, provider
  <2>3. /\ Entries \ {e} \subseteq Entries'
        /\ target' \in [Versions -> Contents]
        /\ tmpDirs' \subseteq TmpDirs
        /\ OrderOK'
    BY <2>1, <2>2, RemoveStepEffect DEF TypeInv
  <2> QED
    BY <2>1, <2>2, <2>3 DEF TypeInv, TypeOK, OrderOK, Cleanups
<1>2. CASE RemovalGoesWrong
  <2>1. /\ UNCHANGED fsVars /\ todo' = {} /\ removalFailed' = TRUE
        /\ UNCHANGED <<saved, served, lastUpdated, downloaded, ctxDone, closed>>
        /\ pc' \in {"report", "return", "failed"}
    BY <1>2 DEF RemovalGoesWrong, provider
  <2> QED
    BY <2>1, DiskUntouched
       DEF TypeInv, TypeOK, Locations, Background, Updating
<1> QED
  BY <1>1, <1>2

(* The other steps that change the disk, and the end of the process.       *)
LEMMA PromoteTypeInv ==
    ASSUME TypeInv, Promote
    PROVE  TypeInv'
<1> USE VersionsAssumption
<1>1. /\ pc = "promote" /\ downloaded \in Versions /\ saved' = downloaded /\ todo = {}
      /\ UNCHANGED <<served, lastUpdated, downloaded, ctxDone, closed, removalFailed>>
  BY DEF Promote, TypeInv, TypeOK, Cleanups, provider
<1>2. CASE downloaded \in Present
  <2>1. UNCHANGED fsVars /\ pc' = "updateCleanup" /\ todo' = Entries' \ {downloaded}
    BY <1>2 DEF Promote, BeginCleanup
  <2>2. /\ Present' = Present /\ Entries' = Entries
        /\ UNCHANGED <<target, older, tmpDirs>>
    BY <2>1, DiskUntouched
  <2> QED
    BY <1>1, <2>1, <2>2 DEF TypeInv, TypeOK, Locations, Background, Updating, Cleanups
<1>3. CASE downloaded \notin Present
  <2>1. /\ target' = [target EXCEPT ![downloaded] = "full"] /\ Touch(downloaded)
        /\ tmpDirs' \subseteq tmpDirs /\ pc' = "open" /\ UNCHANGED todo
    BY <1>3 DEF Promote, RenameTmpTo
  <2>2. target' \in [Versions -> Contents] /\ Present' = Present \cup {downloaded}
    BY <1>1, <2>1 DEF TypeInv, TypeOK, Present, Contents
  <2>3. OrderOK'
    BY <1>1, <2>1, <2>2, TouchKeepsOrder DEF TypeInv, TypeOK, OrderOK
  <2> QED
    BY <1>1, <2>1, <2>2, <2>3 DEF TypeInv, TypeOK, OrderOK, Locations, Background, Updating
<1> QED
  BY <1>2, <1>3

LEMMA TmpTypeInv ==
    ASSUME TypeInv, TempDir \/ UpdateReturns \/ ProcessEnds
    PROVE  TypeInv'
<1>1. UNCHANGED <<target, older>> /\ tmpDirs' \subseteq TmpDirs
  BY DEF TempDir, UpdateReturns, ProcessEnds, AbandonTmp, TmpDirs, TypeInv, TypeOK
<1>2. Present' = Present
  BY <1>1 DEF Present
<1>3. removalFailed' \in {removalFailed, TRUE}
  BY DEF TempDir, UpdateReturns, ProcessEnds
<1>4. CASE TempDir \/ UpdateReturns
  <2>1. /\ UNCHANGED <<saved, todo, served, lastUpdated, downloaded, ctxDone, closed>>
        /\ pc' \in {"download", "ticker"} /\ todo = {}
    BY <1>4 DEF TempDir, UpdateReturns, provider, TypeInv, TypeOK, Cleanups
  <2> QED
    BY <1>1, <1>2, <1>3, <2>1
       DEF TypeInv, TypeOK, Locations, Background, Updating, Waiting, Entries
<1>5. CASE ProcessEnds
  BY <1>1, <1>2, <1>3, <1>5 DEF ProcessEnds, TypeInv, TypeOK, Locations
<1> QED
  BY <1>4, <1>5

LEMMA NextTypeInv == TypeInv /\ [Next]_vars => TypeInv'
<1> SUFFICES ASSUME TypeInv, [Next]_vars PROVE TypeInv'
  OBVIOUS
<1>1. CASE UNCHANGED vars
  <2>1. /\ UNCHANGED fsVars
        /\ UNCHANGED <<pc, saved, todo, served, lastUpdated, downloaded, ctxDone, closed,
                      removalFailed>>
    BY <1>1 DEF vars, data, provider
  <2> QED
    BY <2>1, DiskUntouched DEF TypeInv, TypeOK
<1> QED
  BY <1>1, QuietTypeInv, ListTypeInv, RemovalTypeInv, PromoteTypeInv, TmpTypeInv
     DEF Next, StartStep, BackgroundStep, UpdateStep

-----------------------------------------------------------------------------
(* The inductive invariant.                                                *)

LEMMA InitIInv == Init => IInv
BY VersionsAssumption
   DEF Init, IInv, TypeOK, DiskInv, HandleInv, OrderInv, Installed, Current, Entries,
       Present, Settled, Loading, Background, Starting, Waiting, Updating, Locations,
       Contents, Cleanups

(* Steps that touch neither the disk nor the list of a removal.            *)
LEMMA QuietIInv ==
    ASSUME IInv, TypeOK',
           \/ StartOpens \/ StartCannotRead \/ StartsEmpty \/ BgStarts \/ TimerFires
           \/ ContextEndsLoop \/ DownloadBegins \/ (\E v \in Versions : DownloadSucceeds(v)) \/ UpdateFails
           \/ RemovedNew \/ UpdateIsClean \/ NotifyUpdated \/ CancelContext
           \/ ProviderShutdown
    PROVE  IInv'
<1> USE VersionsAssumption DEF Jump, data, provider
<1>1. UNCHANGED <<fsVars, todo>> /\ UNCHANGED saved
  BY DEF StartOpens, StartCannotRead, StartsEmpty, BgStarts, TimerFires, ContextEndsLoop, DownloadBegins,
     DownloadSucceeds, UpdateFails, RemovedNew, UpdateIsClean, NotifyUpdated,
     CancelContext, ProviderShutdown
<1>2. /\ Present' = Present /\ Entries' = Entries /\ OrderInv'
      /\ UNCHANGED <<target, older, tmpDirs, todo, saved>>
  BY <1>1, DiskUntouched DEF IInv
<1>4. HandleInv'
  BY <1>2 DEF IInv, TypeOK, HandleInv, Current, StartOpens, StartCannotRead, StartsEmpty, BgStarts,
     TimerFires, ContextEndsLoop, DownloadBegins, DownloadSucceeds, UpdateFails,
     RemovedNew, UpdateIsClean, NotifyUpdated, CancelContext, ProviderShutdown,
     Background, Waiting, Updating, Starting
<1>5. DiskInv'
  <2>1. CASE StartOpens \/ StartsEmpty \/ RemovedNew \/ UpdateIsClean \/ NotifyUpdated
    BY <1>2, <2>1 DEF IInv, TypeOK, DiskInv, HandleInv, Installed, Entries, Settled,
       Loading, StartOpens, StartCannotRead, StartsEmpty, RemovedNew, UpdateIsClean, NotifyUpdated,
       Background, Waiting, Updating, Present
  <2>2. CASE StartCannotRead \/ BgStarts \/ TimerFires \/ ContextEndsLoop \/ DownloadBegins \/ UpdateFails
             \/ CancelContext \/ ProviderShutdown \/ \E v \in Versions : DownloadSucceeds(v)
    BY <1>2, <2>2 DEF IInv, DiskInv, Installed, Settled, Loading,
       StartCannotRead, BgStarts,
       TimerFires, ContextEndsLoop, DownloadBegins, UpdateFails, CancelContext,
       ProviderShutdown, DownloadSucceeds, Waiting
  <2> QED
    BY <2>1, <2>2
<1> QED
  BY <1>2, <1>4, <1>5 DEF IInv

(* Steps that leave the disk alone and make the list of a removal.         *)
LEMMA ListIInv ==
    ASSUME IInv, TypeOK',
           Start \/ StartIsClean \/ StartCannotOpen \/ UpdateOpens \/ UpdateCannotOpen
    PROVE  IInv'
<1> USE VersionsAssumption
<1>1. UNCHANGED fsVars
  BY DEF Start, StartIsClean, StartCannotOpen, UpdateOpens, UpdateCannotOpen
<1>2. /\ Present' = Present /\ Entries' = Entries /\ OrderInv'
      /\ UNCHANGED <<target, older, tmpDirs>>
  BY <1>1, DiskUntouched DEF IInv
<1>3. Present \subseteq Versions /\ NoDir \notin Present /\ GetTargetDir \subseteq Present
  BY DEF Present, GetTargetDir
<1>5. HandleInv'
  BY <1>2 DEF IInv, TypeOK, HandleInv, Current, Start, StartIsClean, StartCannotOpen,
     UpdateOpens, UpdateCannotOpen, BeginCleanup, Background, Waiting, Updating,
     Starting, provider
<1>6. DiskInv'
  <2>1. CASE Start
    BY <1>2, <2>1 DEF Start, BeginCleanup, DiskInv, Settled, Loading
  <2>2. CASE StartIsClean
    <3>1. /\ UNCHANGED saved /\ Entries \subseteq {saved}
          /\ \/ pc' = "startOpen" /\ saved \in Versions
             \/ pc' = "fullCleanup" /\ saved = NoDir
      BY <2>2 DEF IInv, TypeOK, StartIsClean, BeginCleanup, DiskInv
    <3>2. NoDir \notin Entries
      BY <1>3 DEF IInv, TypeOK, Entries
    <3> QED
      BY <1>2, <3>1, <3>2 DEF DiskInv, Settled, Loading
  <2>3. CASE StartCannotOpen
    BY <1>2, <2>3 DEF StartCannotOpen, BeginCleanup, DiskInv, Settled, Loading, IInv, TypeOK,
       Entries, TmpDirs
  <2>4. CASE UpdateOpens
    BY <1>2, <2>4 DEF IInv, UpdateOpens, BeginCleanup, DiskInv, Settled, Loading
  <2>5. CASE UpdateCannotOpen
    BY <1>2, <2>5 DEF IInv, UpdateCannotOpen, DiskInv, Settled, Loading, Installed, provider
  <2> QED
    BY <2>1, <2>2, <2>3, <2>4, <2>5
<1> QED
  BY <1>2, <1>5, <1>6 DEF IInv

LEMMA RemoveEntryIInv ==
    ASSUME IInv, TypeOK', RemoveEntry
    PROVE  IInv'
<1> USE VersionsAssumption
<1>1. PICK e \in todo :
        RemoveStep(e) /\ todo' = IF e \in Entries' THEN todo ELSE todo \ {e}
  BY DEF RemoveEntry
<1>2. /\ pc \in Cleanups \cup {"removeNew"}
      /\ UNCHANGED <<pc, saved, served, lastUpdated, downloaded, ctxDone, closed>>
      /\ e \in Entries
  BY <1>1 DEF RemoveEntry, IInv, TypeOK, provider
<1>3. /\ Entries' \subseteq Entries
      /\ Entries \ {e} \subseteq Entries'
      /\ \A v \in Versions \ {e} : target'[v] = target[v]
      /\ target' \in [Versions -> Contents]
      /\ tmpDirs' \subseteq TmpDirs
      /\ OrderOK'
      /\ OrderInv'
  BY <1>1, <1>2, RemoveStepEffect DEF IInv
<1>5. HandleInv'
  BY <1>2 DEF IInv, HandleInv, Current
<1>6. DiskInv'
  <2>1. CASE pc = "removeNew"
    <3>1. e = saved /\ e \in Versions /\ e \notin Installed /\ tmpDirs = {}
      BY <2>1, <1>1 DEF IInv, DiskInv
    <3>2. Entries = Present /\ tmpDirs' = {}
      BY <3>1, <1>1 DEF Entries, RemoveStep
    <3>3. Entries' = Present' /\ Present' = Installed \cup todo'
      BY <1>1, <1>3, <2>1, <3>1, <3>2 DEF Entries, IInv, DiskInv
    <3>4. \A v \in Installed : target'[v] = "full"
      BY <1>3, <2>1, <3>1 DEF IInv, DiskInv, Installed, TypeOK
    <3> QED
      BY <1>1, <1>2, <2>1, <3>1, <3>2, <3>3, <3>4
         DEF IInv, DiskInv, Installed, Settled, Loading
  <2>2. CASE pc = "updateCleanup"
    BY <1>1, <1>2, <1>3, <2>2 DEF IInv, DiskInv, Settled, Loading
  <2>3. CASE pc \in {"startCleanup", "fullCleanup"}
    BY <1>1, <1>2, <1>3, <2>3 DEF IInv, DiskInv, Settled, Loading
  <2> QED
    BY <1>2, <2>1, <2>2, <2>3 DEF Cleanups
<1> QED
  BY <1>3, <1>5, <1>6 DEF IInv

(* The steps of doUpdate that change the disk, and the end of the process. *)
LEMMA PromoteIInv ==
    ASSUME IInv, TypeOK', Promote
    PROVE  IInv'
<1> USE VersionsAssumption
<1>1. /\ pc = "promote" /\ downloaded \in Versions /\ saved' = downloaded
      /\ UNCHANGED <<served, lastUpdated, downloaded, ctxDone, closed>>
      /\ Present = Installed /\ tmpDirs \subseteq {"current"} /\ todo = {}
      /\ \A v \in Present : target[v] = "full"
  BY DEF Promote, IInv, DiskInv, Loading, TypeOK, Cleanups, provider
<1>2. CASE downloaded \in Present
  <2>1. UNCHANGED fsVars /\ pc' = "updateCleanup" /\ todo' = Entries' \ {downloaded}
    BY <1>2 DEF Promote, BeginCleanup
  <2>2. /\ Present' = Present /\ Entries' = Entries /\ OrderInv'
        /\ UNCHANGED <<target, older, tmpDirs>>
    BY <2>1, DiskUntouched DEF IInv
  <2>3. lastUpdated = downloaded
    BY <1>1, <1>2 DEF Installed
  <2>5. HandleInv'
    BY <1>1, <2>1, <2>3 DEF IInv, HandleInv, Current, Background, Updating
  <2>6. DiskInv'
    BY <1>1, <1>2, <2>1, <2>2 DEF DiskInv, Settled, Loading
  <2> QED
    BY <2>2, <2>5, <2>6 DEF IInv
<1>3. CASE downloaded \notin Present
  <2>1. /\ target' = [target EXCEPT ![downloaded] = "full"] /\ Touch(downloaded)
        /\ tmpDirs' = {} /\ pc' = "open" /\ UNCHANGED todo
    BY <1>1, <1>3 DEF Promote, RenameTmpTo
  <2>2. target' \in [Versions -> Contents] /\ Present' = Present \cup {downloaded}
    BY <1>1, <2>1 DEF IInv, TypeOK, Present, Contents
  <2>4. \A v \in Present' : target'[v] = "full"
    BY <1>1, <2>1, <2>2 DEF IInv, TypeOK, Present
  <2>5. OrderInv'
    BY <2>4 DEF OrderInv, Present
  <2>7. HandleInv'
    BY <1>1, <2>1 DEF IInv, HandleInv, Current, Background, Updating
  <2>8. DiskInv'
    BY <1>1, <1>3, <2>1, <2>2, <2>4 DEF DiskInv, Settled, Loading, Installed
  <2> QED
    BY <2>5, <2>7, <2>8 DEF IInv
<1> QED
  BY <1>2, <1>3

LEMMA TmpIInv ==
    ASSUME IInv, TypeOK', ~removalFailed', TempDir \/ UpdateReturns \/ ProcessEnds
    PROVE  IInv'
<1> USE VersionsAssumption
<1>1. UNCHANGED <<target, older>> /\ tmpDirs' \subseteq TmpDirs
  BY DEF TempDir, UpdateReturns, ProcessEnds, AbandonTmp, TmpDirs, IInv, TypeOK
<1>2. Present' = Present /\ OrderInv'
  BY <1>1 DEF Present, OrderInv, IInv
<1>3. CASE TempDir
  <2>1. /\ pc = "tempDir" /\ todo = {} /\ tmpDirs = {} /\ Present = Installed
        /\ UNCHANGED <<saved, todo, served, lastUpdated, downloaded, ctxDone, closed>>
        /\ \/ pc' = "download" /\ tmpDirs' = {"current"}
           \/ pc' = "ticker" /\ tmpDirs' = {}
    <3>1. pc = "tempDir" /\ todo = {} /\ Present \cup tmpDirs = Installed
      BY <1>3 DEF TempDir, IInv, TypeOK, DiskInv, Settled, Entries, Cleanups
    <3>2. Installed \subseteq Versions /\ Present \subseteq Versions /\ tmpDirs \subseteq TmpDirs
      BY DEF IInv, TypeOK, Installed, Present
    <3>3. tmpDirs = {} /\ Present = Installed
      BY <3>1, <3>2
    <3> QED
      BY <1>3, <3>1, <3>3 DEF TempDir, provider
  <2>3. HandleInv'
    BY <2>1 DEF IInv, HandleInv, Current, Background, Updating, Waiting
  <2>4. DiskInv'
    BY <1>1, <1>2, <2>1 DEF IInv, DiskInv, Settled, Loading, Installed, Entries
  <2> QED
    BY <1>2, <2>3, <2>4 DEF IInv
<1>4. CASE UpdateReturns
  <2>1. /\ pc = "return" /\ todo = {} /\ tmpDirs' = {} /\ Present = Installed
        /\ pc' = "ticker"
        /\ UNCHANGED <<saved, todo, served, lastUpdated, downloaded, ctxDone, closed>>
    BY <1>4 DEF UpdateReturns, IInv, TypeOK, DiskInv, Loading, Cleanups, provider
  <2>3. HandleInv'
    BY <2>1 DEF IInv, HandleInv, Current, Background, Updating, Waiting
  <2>4. DiskInv'
    BY <1>1, <1>2, <2>1 DEF IInv, DiskInv, Settled, Loading, Installed, Entries
  <2> QED
    BY <1>2, <2>3, <2>4 DEF IInv
<1>5. CASE ProcessEnds
  <2>1. /\ pc' = "off" /\ todo' = {} /\ ctxDone' = FALSE /\ closed' = FALSE
        /\ saved' = NoDir /\ served' = NoDir /\ lastUpdated' = NoDir /\ downloaded' = NoDir
    BY <1>5 DEF ProcessEnds
  <2>3. HandleInv'
    BY <2>1 DEF HandleInv, Current
  <2>4. DiskInv'
    BY <2>1 DEF DiskInv, Settled, Loading
  <2> QED
    BY <1>2, <2>3, <2>4 DEF IInv
<1> QED
  BY <1>3, <1>4, <1>5

(* The history variable remembers.                                         *)
LEMMA FailureIsRemembered == [Next]_vars /\ removalFailed => removalFailed'
  BY DEF Next, StartStep, BackgroundStep, UpdateStep, Jump, vars, data, Start,
     StartIsClean, StartOpens, StartCannotOpen, StartCannotRead, StartsEmpty, BgStarts, TimerFires,
     ContextEndsLoop, TempDir, DownloadBegins, DownloadSucceeds, UpdateFails, Promote,
     UpdateOpens, UpdateCannotOpen, RemovedNew, UpdateIsClean, NotifyUpdated,
     UpdateReturns, RemoveEntry, RemovalGoesWrong, CancelContext, ProviderShutdown,
     ProcessEnds

LEMMA NextFullInv == FullInv /\ [Next]_vars => FullInv'
<1> SUFFICES ASSUME FullInv, [Next]_vars PROVE FullInv'
  OBVIOUS
<1>1. TypeInv' /\ TypeOK'
  BY NextTypeInv DEF FullInv, TypeInv
<1>2. SUFFICES ASSUME ~removalFailed' PROVE IInv'
  BY <1>1 DEF FullInv
<1>3. CASE UNCHANGED vars
  <2>1. /\ UNCHANGED fsVars
        /\ UNCHANGED <<pc, saved, todo, served, lastUpdated, downloaded, ctxDone, closed,
                      removalFailed>>
    BY <1>3 DEF vars, data, provider
  <2>2. IInv
    BY <1>2, <2>1 DEF FullInv
  <2> QED
    BY <1>1, <2>1, <2>2, DiskUntouched
       DEF IInv, DiskInv, HandleInv, Current, Installed
<1>4. CASE Next
  <2>1. ~RemovalGoesWrong
    BY <1>2 DEF RemovalGoesWrong
  <2>2. IInv
    BY <1>2, FailureIsRemembered DEF FullInv
  <2> QED
    BY <1>1, <1>2, <1>4, <2>1, <2>2, QuietIInv, ListIInv, RemoveEntryIInv, PromoteIInv,
       TmpIInv DEF Next, StartStep, BackgroundStep, UpdateStep
<1> QED
  BY <1>3, <1>4

-----------------------------------------------------------------------------
(* What follows.                                                           *)

LEMMA IInvImplies ==
    IInv => ServedIsOnDisk /\ RestartFindsDatabase /\ NoLitterAtRest /\ StatsTellTheTruth
<1> SUFFICES ASSUME IInv
             PROVE  ServedIsOnDisk /\ RestartFindsDatabase /\ NoLitterAtRest /\ StatsTellTheTruth
  OBVIOUS
<1>1. ServedIsOnDisk
  <2> SUFFICES ASSUME served # NoDir PROVE target[served] = "full"
    BY DEF ServedIsOnDisk
  <2>1. served = Current /\ pc \in Background
    BY DEF IInv, TypeOK, HandleInv, Current, Locations, Background, Waiting, Updating
  <2>2. CASE pc \in {"updateCleanup", "report"}
    BY <2>1, <2>2 DEF IInv, DiskInv, Current
  <2>3. CASE pc \notin {"updateCleanup", "report"}
    <3>1. served \in Installed
      BY <2>1, <2>3 DEF Current, Installed
    <3>2. pc \in Settled \cup Loading \cup {"open", "removeNew"}
      BY <2>1, <2>3 DEF Background, Waiting, Updating, Settled, Loading
    <3> QED
      BY <3>1, <3>2 DEF IInv, DiskInv
  <2> QED
    BY <2>2, <2>3
<1>2. RestartFindsDatabase
  <2> SUFFICES ASSUME NEW w \in Versions, target[w] = "full",
                      NEW v \in GetTargetDir, target[v] # "full"
               PROVE  FALSE
    BY DEF RestartFindsDatabase
  <2>1. /\ v \in Present /\ w \in Present /\ v # w /\ v \in Versions
        /\ <<v, w>> \in older
    BY DEF GetTargetDir, Present
  <2>2. target[v] = "partial"
    BY <2>1 DEF IInv, TypeOK, Present, Contents
  <2>3. <<w, v>> \in older
    BY <2>1, <2>2 DEF IInv, OrderInv
  <2> QED
    BY <2>1, <2>3 DEF IInv, TypeOK
<1>3. NoLitterAtRest
  BY DEF IInv, NoLitterAtRest, DiskInv, HandleInv, Current, Settled, Installed, Waiting
<1>4. StatsTellTheTruth
  BY DEF IInv, StatsTellTheTruth, HandleInv, Current
<1> QED
  BY <1>1, <1>2, <1>3, <1>4

(* FullInv holds in every state of every behaviour.                        *)
LEMMA AlwaysFullInv == Spec => []FullInv
<1>1. Init => FullInv
  BY InitIInv, InitTypeInv DEF FullInv
<1> QED
  BY <1>1, NextFullInv, PTL DEF Spec

(* The types hold whatever fails: a removal takes entries that are there,  *)
(* and the directory times stay a strict order.                            *)
THEOREM UpdaterTypes == Spec => []TypeOK
<1>1. FullInv => TypeOK
  BY DEF FullInv, TypeInv
<1> QED
  BY <1>1, AlwaysFullInv, PTL

(* However often the process dies, and wherever, the served database is    *)
(* complete on the disk until a removal fails.                             *)
THEOREM ServedStaysOnDisk == Spec => []ServedIsOnDisk
<1>1. FullInv => ServedIsOnDisk
  BY IInvImplies DEF FullInv, ServedIsOnDisk
<1> QED
  BY <1>1, AlwaysFullInv, PTL

(* However often the process dies, and wherever, a restart that can find a *)
(* complete database does, until a removal fails.                          *)
THEOREM RestartPrefersComplete == Spec => []RestartFindsDatabase
<1>1. FullInv => RestartFindsDatabase
  BY IInvImplies DEF FullInv, RestartFindsDatabase
<1> QED
  BY <1>1, AlwaysFullInv, PTL

(* Nothing piles up in the base directory until a removal fails.           *)
THEOREM NothingPilesUp == Spec => []NoLitterAtRest
<1>1. FullInv => NoLitterAtRest
  BY IInvImplies DEF FullInv, NoLitterAtRest
<1> QED
  BY <1>1, AlwaysFullInv, PTL

(* LastUpdated tells of what is served until a removal fails.              *)
THEOREM LastUpdatedIsServed == Spec => []StatsTellTheTruth
<1>1. FullInv => StatsTellTheTruth
  BY IInvImplies DEF FullInv, StatsTellTheTruth
<1> QED
  BY <1>1, AlwaysFullInv, PTL

-----------------------------------------------------------------------------
(* Databases on the disk over time.                                        *)

(* The disk needs room for the served database and one more, however often *)
(* updates fail and processes die, until a removal fails.                  *)
FewDatabases == ~removalFailed => \A u, v, w \in Present : u = v \/ v = w \/ u = w

(* What Start has chosen is complete if anything is, and what it removes   *)
(* in the end is what it could not open.                                   *)
ChoiceInv ==
    ~removalFailed /\ SomeDatabase =>
        /\ pc = "startCleanup" => saved \in Versions /\ target[saved] = "full"
        /\ pc = "fullCleanup" => saved \in Versions /\ Present \subseteq {saved}

(* Only a removal and a promotion touch a target directory.                *)
LEMMA TargetSteps == [Next]_vars => UNCHANGED target \/ RemoveEntry \/ Promote
  BY DEF Next, StartStep, BackgroundStep, UpdateStep, Jump, vars, data, fsVars, Start,
     StartIsClean, StartOpens, StartCannotOpen, StartCannotRead, StartsEmpty, BgStarts, TimerFires,
     ContextEndsLoop, TempDir, DownloadBegins, DownloadSucceeds, UpdateFails,
     UpdateOpens, UpdateCannotOpen, RemovedNew, UpdateIsClean, NotifyUpdated,
     UpdateReturns, RemovalGoesWrong, CancelContext, ProviderShutdown, ProcessEnds

(* What a removal does to the databases.                                   *)
LEMMA RemoveEntryEffect ==
    ASSUME TypeOK, RemoveEntry
    PROVE  /\ UNCHANGED <<pc, saved, removalFailed>>
           /\ pc \in Cleanups \cup {"removeNew"}
           /\ Present' \subseteq Present
           /\ \A v \in Versions : v \notin todo => target'[v] = target[v]
           /\ \A v \in Versions : target'[v] = "full" => target[v] = "full"
<1>1. PICK e \in todo : RemoveStep(e)
  BY DEF RemoveEntry
<1>2. e \in Entries
  BY DEF TypeOK
<1>3. \A v \in Versions \ {e} : target'[v] = target[v]
  BY <1>1, <1>2, RemoveStepEffect
<1>4. e \in Versions => target'[e] # "full" /\ (target'[e] # "absent" => target[e] # "absent")
  BY <1>1, VersionsAssumption DEF RemoveStep, TypeOK
<1>5. Present' \subseteq Present
  BY <1>3, <1>4 DEF Present
<1> QED
  BY <1>1, <1>3, <1>4, <1>5 DEF RemoveEntry

LEMMA FewDatabasesStep == FullInv /\ FewDatabases /\ [Next]_vars => FewDatabases'
<1> SUFFICES ASSUME FullInv, FewDatabases, [Next]_vars, ~removalFailed' PROVE FewDatabases'
  BY DEF FewDatabases
<1>1. ~removalFailed /\ IInv /\ TypeOK
  BY FailureIsRemembered DEF FullInv, TypeInv
<1>2. CASE Present' \subseteq Present
  BY <1>1, <1>2 DEF FewDatabases
<1>3. CASE Promote
  <2>1. Present = Installed
    BY <1>1, <1>3 DEF Promote, IInv, DiskInv, Loading
  <2>2. Present' \subseteq Present \cup {downloaded}
    BY <1>1, <1>3 DEF Promote, RenameTmpTo, fsVars, Present, TypeOK
  <2> QED
    BY <2>1, <2>2 DEF FewDatabases, Installed
<1> QED
  BY <1>1, <1>2, <1>3, TargetSteps, RemoveEntryEffect DEF Present

(* With two databases at most there is one that was modified first.        *)
LEMMA GetTargetDirFinds ==
    ASSUME TypeOK, FewDatabases, ~removalFailed, GetTargetDir = {}
    PROVE  Present = {}
<1> SUFFICES ASSUME NEW v \in Present PROVE FALSE
  OBVIOUS
<1>1. PICK w \in Present \ {v} : <<v, w>> \notin older
  BY DEF GetTargetDir
<1>2. <<w, v>> \in older
  BY <1>1 DEF TypeOK
<1>3. \A u \in Present : u = v \/ u = w
  BY <1>1 DEF FewDatabases
<1>4. w \in GetTargetDir
  BY <1>1, <1>2, <1>3 DEF GetTargetDir
<1> QED
  BY <1>4

LEMMA ChoiceInvStep == FullInv /\ FewDatabases /\ ChoiceInv /\ [Next]_vars => ChoiceInv'
<1> SUFFICES ASSUME FullInv, FewDatabases, ChoiceInv, [Next]_vars, ~removalFailed', SomeDatabase',
                    pc' \in {"startCleanup", "fullCleanup"}
             PROVE  /\ pc' = "startCleanup" => saved' \in Versions /\ target'[saved'] = "full"
                    /\ pc' = "fullCleanup" => saved' \in Versions /\ Present' \subseteq {saved'}
  BY DEF ChoiceInv
<1>1. ~removalFailed /\ IInv /\ TypeOK
  BY FailureIsRemembered DEF FullInv, TypeInv
<1>2. CASE RemoveEntry
  <2>1. SomeDatabase
    BY <1>1, <1>2, RemoveEntryEffect DEF SomeDatabase
  <2>2. pc = "startCleanup" => saved \notin todo
    BY <1>1 DEF IInv, DiskInv
  <2> QED
    BY <1>1, <1>2, <2>1, <2>2, RemoveEntryEffect DEF ChoiceInv
<1>3. CASE Start
  <2>1. UNCHANGED target
    BY <1>3 DEF Start, fsVars
  <2>2. PICK v \in Versions : target[v] = "full"
    BY <2>1 DEF SomeDatabase
  <2>3. saved' \in GetTargetDir
    BY <1>1, <1>3, <2>2, GetTargetDirFinds DEF Start, Present
  <2>4. target[saved'] = "full"
    BY <1>1, <2>2, <2>3, IInvImplies DEF RestartFindsDatabase
  <2> QED
    BY <1>3, <2>1, <2>3, <2>4 DEF Start, BeginCleanup, GetTargetDir, Present
<1>4. CASE StartIsClean
  <2>1. UNCHANGED <<target, saved>> /\ pc = "startCleanup" /\ todo = {} /\ pc' = "fullCleanup"
    BY <1>4 DEF StartIsClean, BeginCleanup, fsVars
  <2>2. SomeDatabase
    BY <2>1 DEF SomeDatabase
  <2>3. saved \in Versions /\ Entries \subseteq {saved}
    BY <1>1, <2>1, <2>2 DEF ChoiceInv, IInv, DiskInv
  <2> QED
    BY <2>1, <2>3 DEF Entries, Present
<1>5. CASE StartCannotOpen
  <2>1. UNCHANGED <<target, saved>> /\ pc = "startOpen" /\ pc' = "fullCleanup"
    BY <1>5 DEF StartCannotOpen, BeginCleanup, fsVars
  <2>2. saved \in Versions /\ Entries \subseteq {saved}
    BY <1>1, <2>1 DEF IInv, DiskInv
  <2> QED
    BY <2>1, <2>2 DEF Entries, Present
<1>6. CASE UNCHANGED <<target, saved, pc>>
  BY <1>1, <1>6 DEF ChoiceInv, SomeDatabase, Present
<1>7. RemoveEntry \/ Start \/ StartIsClean \/ StartCannotOpen \/ StartCannotRead
        \/ UNCHANGED <<target, saved, pc>>
  BY DEF Next, StartStep, BackgroundStep, UpdateStep, Jump, vars, data, fsVars, StartOpens,
     StartCannotRead, StartsEmpty, BgStarts, TimerFires, ContextEndsLoop, TempDir, DownloadBegins,
     DownloadSucceeds, UpdateFails, Promote, BeginCleanup, UpdateOpens, UpdateCannotOpen,
     RemovedNew, UpdateIsClean, NotifyUpdated, UpdateReturns, RemovalGoesWrong, CancelContext,
     ProviderShutdown, ProcessEnds
<1>8. ~StartCannotRead
  BY DEF StartCannotRead, Jump
<1> QED
  BY <1>2, <1>3, <1>4, <1>5, <1>6, <1>7, <1>8

LEMMA AlwaysFewDatabases == Spec => [](FewDatabases /\ ChoiceInv)
<1>1. Init => FewDatabases /\ ChoiceInv
  BY DEF Init, FewDatabases, ChoiceInv, SomeDatabase, Present
<1> QED
  BY <1>1, FewDatabasesStep, ChoiceInvStep, AlwaysFullInv, PTL DEF Spec

(* There are never more than two databases on the disk, until a removal    *)
(* fails.                                                                  *)
THEOREM AtMostTwoDatabases == Spec => []FewDatabases
  BY AlwaysFewDatabases, PTL

(* However often the process dies, and wherever: a complete database stays *)
(* on the disk, through updates and restarts, unless Open refused it.      *)
THEOREM NoDatabaseIsLost == Spec => LastDatabaseIsKept
<1>1. FullInv /\ ChoiceInv /\ [Next]_vars => LostOnlyIfUnopened
  <2> SUFFICES ASSUME FullInv, ChoiceInv, [Next]_vars,
                      ~removalFailed, SomeDatabase, ~SomeDatabase'
               PROVE  pc \in {"fullCleanup", "removeNew"} /\ Present \subseteq {saved}
    BY DEF LostOnlyIfUnopened
  <2>1. IInv /\ TypeOK
    BY DEF FullInv, TypeInv
  <2>2. RemoveEntry
    <3>1. target' # target
      BY DEF SomeDatabase
    <3>2. ~Promote
      <4> SUFFICES ASSUME Promote PROVE FALSE
        OBVIOUS
      <4>1. target' = [target EXCEPT ![downloaded] = "full"]
        BY <3>1 DEF Promote, RenameTmpTo, fsVars
      <4>2. PICK v \in Versions : target[v] = "full"
        BY DEF SomeDatabase
      <4>3. target'[v] = "full"
        BY <2>1, <4>1, <4>2 DEF TypeOK
      <4> QED
        BY <4>3 DEF SomeDatabase
    <3> QED
      BY <3>1, <3>2, TargetSteps
  <2>3. \A v \in Versions : target[v] = "full" => v \in todo
    BY <2>1, <2>2, RemoveEntryEffect DEF SomeDatabase
  <2>4. pc \in {"fullCleanup", "removeNew"}
    <3>1. pc \in Cleanups \cup {"removeNew"}
      BY <2>2 DEF RemoveEntry
    <3>2. pc # "startCleanup"
      BY <2>1, <2>3 DEF ChoiceInv, IInv, DiskInv
    <3>3. pc # "updateCleanup"
      BY <2>1, <2>3 DEF IInv, DiskInv
    <3> QED
      BY <3>1, <3>2, <3>3 DEF Cleanups
  <2>5. CASE pc = "fullCleanup"
    BY <2>5 DEF ChoiceInv
  <2>6. CASE pc = "removeNew"
    <3>1. saved \notin Installed /\ todo \subseteq {saved} /\ Present = Installed \cup todo
      BY <2>1, <2>6 DEF IInv, DiskInv
    <3>2. \A v \in Installed : v \in Versions /\ target[v] = "full"
      BY <2>1, <2>6 DEF IInv, DiskInv, TypeOK, Installed
    <3> QED
      BY <2>3, <2>6, <3>1, <3>2
  <2> QED
    BY <2>4, <2>5, <2>6
<1> QED
  BY <1>1, AlwaysFullInv, AlwaysFewDatabases, PTL DEF Spec, LastDatabaseIsKept
=============================================================================
