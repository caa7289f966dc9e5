-------------------------------- MODULE FsDir --------------------------------
(***************************************************************************)
(* The base directory of an offline provider (topolib/fs.go, fsDir).  It   *)
(* holds target_<checksum> directories with databases and tmp_ directories *)
(* of downloads.                                                           *)
(*                                                                         *)
(* The checksum is a hash of names and contents, so a database has one     *)
(* target directory of its own and target directories are identified by    *)
(* the version of the database they hold.  Removing a directory is not     *)
(* atomic: os.RemoveAll unlinks the files first, which sets the            *)
(* directory's modification time, and the directory last.  Modification    *)
(* times matter by their order only and are taken to be distinct.          *)
(***************************************************************************)
CONSTANTS
    Versions,   \* versions of the database the vendor publishes
    NoDir       \* the empty path

TmpDirs == {"current", "stale"}

ASSUME VersionsAssumption ==
    /\ NoDir \notin Versions \cup TmpDirs
    /\ Versions \cap TmpDirs = {}

VARIABLES
    target,     \* what is in the target directory of each version
    older,      \* <<v, w>>: v's target directory was modified before w's
    tmpDirs     \* the tmp_ directory of this update, those of dead processes

fsVars == <<target, older, tmpDirs>>

Contents == {"absent", "partial", "full"}
Present  == {v \in Versions : target[v] # "absent"}

(* What readDir lists.                                                     *)
Entries == Present \cup tmpDirs

(* Mutant of GetTargetDir: the last modified directory.                    *)
GetTargetDirYoungest ==
    {v \in Present : \A w \in Present \ {v} : <<w, v>> \in older}

(* The target directory that was modified first, if there is any.          *)
GetTargetDir == {v \in Present : \A w \in Present \ {v} : <<v, w>> \in older}

Without(v) == {p \in older : v \notin {p[1], p[2]}}

(* The modification time of v's target directory becomes the latest one.   *)
Touch(v) == older' = Without(v) \cup ((Present \ {v}) \X {v})

(* One step of os.RemoveAll: the files of a target directory, or what is   *)
(* left of it.                                                             *)
RemoveStep(e) ==
    \/ /\ e \in TmpDirs
       /\ tmpDirs' = tmpDirs \ {e}
       /\ UNCHANGED <<target, older>>
    \/ /\ e \in Versions
       /\ target[e] = "full"
       /\ target' = [target EXCEPT ![e] = "partial"]
       /\ Touch(e)
       /\ UNCHANGED tmpDirs
    \/ /\ e \in Versions
       /\ target[e] # "full"
       /\ target' = [target EXCEPT ![e] = "absent"]
       /\ older' = Without(e)
       /\ UNCHANGED tmpDirs

(* Nobody will remove the temporary directory of this update now.          *)
AbandonTmp == IF "current" \in tmpDirs THEN {"stale"} ELSE tmpDirs

(* os.Rename of the temporary directory, which was written to just now.    *)
RenameTmpTo(v) ==
    /\ target' = [target EXCEPT ![v] = "full"]
    /\ Touch(v)
    /\ tmpDirs' = tmpDirs \ {"current"}
=============================================================================
