------------------------------ MODULE DbHandle ------------------------------
(***************************************************************************)
(* The database handle of an offline provider, behind a sync.RWMutex:      *)
(* maxminddb_base.go (MaxMind and DB-IP), ip2location.go, software77.go.   *)
(* Lookups read the database with the mutex held for reading; Open swaps   *)
(* the handle, Shutdown drops it, and both close what they replace.  Open  *)
(* is called by one goroutine, the provider's updater; Shutdown comes from *)
(* another one at any time, before an Open that is under way too.          *)
(*                                                                         *)
(* The providers differ in when the new database is read in (MaxMind with  *)
(* the mutex held, the others before they take it) and in whether there is *)
(* something to close (Software77 builds its trees in memory).             *)
(***************************************************************************)
EXTENDS FiniteSets

CONSTANTS
    Lookups,    \* goroutines that call Lookup
    Databases   \* bound: the readers that calls of Open create

NoDb == "no database"
Kinds == {"maxmind", "ip2location", "software77"}
NoAnswers == {"none", "not ready", "error"}

ASSUME DatabasesAssumption == Databases \cap ({NoDb} \cup NoAnswers) = {}

VARIABLES
    kind,      \* which of the three implementations this is
    dbReader,  \* m.dbReader, i.db, s.db
    created,   \* the readers that were opened so far
    closedDbs, \* those that were closed
    writer,    \* who has announced that it wants to write: "open", "shutdown", "none"
    openPc,    \* where Open is
    opening,   \* the reader that Open has created and not installed yet
    shutPc,    \* where Shutdown is
    using,     \* the reader that each lookup reads, with the mutex held
    answer     \* what its last Lookup returned

lockVars    == <<kind, writer, openPc, opening, shutPc>>
databases   == <<dbReader, created, closedDbs>>
lookupVars  == <<using, answer>>
handleVars  == <<lockVars, databases, lookupVars>>

Readers == {l \in Lookups : using[l] # NoDb}

OpensUnderLock == kind = "maxmind"

(* What is replaced is closed, unless the garbage collector takes it.      *)
Close(db) ==
    closedDbs' = IF kind = "software77" THEN closedDbs ELSE closedDbs \cup ({db} \ {NoDb})

-----------------------------------------------------------------------------
(* Lookup.  RLock waits while a writer is announced.                       *)

RLock(l) ==
    /\ using[l] = NoDb
    /\ writer = "none"
    /\ using' = [using EXCEPT ![l] = dbReader]
    /\ answer' = [answer EXCEPT ![l] = IF dbReader = NoDb THEN "not ready" ELSE "none"]
    /\ UNCHANGED <<lockVars, databases>>

(* The database has an answer, or fails to find one.                       *)
RUnlock(l) ==
    /\ using[l] # NoDb
    /\ \/ answer' = [answer EXCEPT ![l] = using[l]]
       \/ answer' = [answer EXCEPT ![l] = "error"]
    /\ using' = [using EXCEPT ![l] = NoDb]
    /\ UNCHANGED <<lockVars, databases>>

-----------------------------------------------------------------------------
(* Open.                                                                   *)

(* Lock announces the writer, and then waits for the readers.              *)
Announce(who) == writer = "none" /\ writer' = who

OpenBegins ==
    /\ openPc = "idle"
    /\ created # Databases
    /\ IF OpensUnderLock
         THEN Announce("open") /\ openPc' = "waiting"
         ELSE UNCHANGED writer /\ openPc' = "building"
    /\ UNCHANGED <<kind, opening, shutPc, databases, lookupVars>>

(* Mutant of OpenLocks: the old database is closed before the new one is   *)
(* read in.                                                                *)
OpenLocksAndCloses ==
    /\ openPc = "waiting"
    /\ Readers = {}
    /\ openPc' = IF opening = NoDb THEN "building" ELSE "swap"
    /\ Close(dbReader)
    /\ dbReader' = NoDb
    /\ UNCHANGED <<kind, writer, opening, shutPc, created, lookupVars>>

(* Mutant of OpenLocks: the mutex is not held for reading by lookups.      *)
OpenLocksAtOnce ==
    /\ openPc = "waiting"
    /\ openPc' = IF opening = NoDb THEN "building" ELSE "swap"
    /\ UNCHANGED <<kind, writer, opening, shutPc, databases, lookupVars>>

OpenLocks ==
    /\ openPc = "waiting"
    /\ Readers = {}
    /\ openPc' = IF opening = NoDb THEN "building" ELSE "swap"
    /\ UNCHANGED <<kind, writer, opening, shutPc, databases, lookupVars>>

(* maxminddb.Open, ip2location.OpenDB, openV4 and openV6 succeed.          *)
Build(db) ==
    /\ openPc = "building"
    /\ db \notin created
    /\ created' = created \cup {db}
    /\ opening' = db
    /\ openPc' = IF OpensUnderLock THEN "swap" ELSE "built"
    /\ UNCHANGED <<kind, writer, shutPc, dbReader, closedDbs, lookupVars>>

(* Mutant of BuildFails: the error path does not unlock.                   *)
BuildFailsLocked ==
    /\ openPc = "building"
    /\ openPc' = "idle"
    /\ UNCHANGED <<kind, writer, opening, shutPc, databases, lookupVars>>

BuildFails ==
    /\ openPc = "building"
    /\ openPc' = "idle"
    /\ writer' = IF OpensUnderLock THEN "none" ELSE writer
    /\ UNCHANGED <<kind, opening, shutPc, databases, lookupVars>>

OpenWaits ==
    /\ openPc = "built"
    /\ Announce("open")
    /\ openPc' = "waiting"
    /\ UNCHANGED <<kind, opening, shutPc, databases, lookupVars>>

(* The old database is closed, the new one installed, the mutex unlocked.  *)
Swap ==
    /\ openPc = "swap"
    /\ Close(dbReader)
    /\ dbReader' = opening
    /\ opening' = NoDb
    /\ openPc' = "idle"
    /\ writer' = "none"
    /\ UNCHANGED <<kind, shutPc, created, lookupVars>>

-----------------------------------------------------------------------------
(* Shutdown.                                                               *)

ShutdownWaits ==
    /\ shutPc = "idle"
    /\ Announce("shutdown")
    /\ shutPc' = "waiting"
    /\ UNCHANGED <<kind, openPc, opening, databases, lookupVars>>

Shutdown ==
    /\ shutPc = "waiting"
    /\ Readers = {}
    /\ Close(dbReader)
    /\ dbReader' = NoDb
    /\ shutPc' = "done"
    /\ writer' = "none"
    /\ UNCHANGED <<kind, openPc, opening, created, lookupVars>>

-----------------------------------------------------------------------------

HandleInit ==
    /\ kind \in Kinds
    /\ dbReader = NoDb
    /\ created = {} /\ closedDbs = {}
    /\ writer = "none"
    /\ openPc = "idle" /\ opening = NoDb
    /\ shutPc = "idle"
    /\ using = [l \in Lookups |-> NoDb]
    /\ answer = [l \in Lookups |-> "none"]

OpenStep ==
    OpenLocks \/ (\E db \in Databases : Build(db)) \/ BuildFails \/ OpenWaits \/ Swap

HandleTypeOK ==
    /\ kind \in Kinds
    /\ dbReader \in Databases \cup {NoDb}
    /\ created \subseteq Databases /\ closedDbs \subseteq created
    /\ writer \in {"none", "open", "shutdown"}
    /\ openPc \in {"idle", "building", "built", "waiting", "swap"}
    /\ opening \in created \cup {NoDb}
    /\ shutPc \in {"idle", "waiting", "done"}
    /\ using \in [Lookups -> Databases \cup {NoDb}]
    /\ answer \in [Lookups -> Databases \cup NoAnswers]

-----------------------------------------------------------------------------
(* Properties.                                                             *)

(* A lookup reads the database that is installed, never one that Open or   *)
(* Shutdown has closed (the memory map of a closed reader is gone).        *)
NeverReadsClosed ==
    \A l \in Readers : using[l] = dbReader /\ using[l] \notin closedDbs

(* "Once it is shutdown, topographer won't call any methods of this        *)
(* provider except of Name" (Shutdown in interfaces.go), so that Shutdown  *)
(* can close for good: when it is done and no Open is under way, every     *)
(* reader that was created is closed (Software77's has nothing to close).  *)
NothingOpenAfterShutdown ==
    shutPc = "done" /\ openPc = "idle" /\ kind # "software77" => created = closedDbs

(* "It is expected that on failures all old handles are alive" (Open in    *)
(* interfaces.go): once a database was installed there is one until        *)
(* Shutdown, whatever fails later.                                         *)
ReadyUntilShutdown ==
    created \subseteq {opening} \/ shutPc = "done"
        \/ (dbReader # NoDb /\ dbReader \notin closedDbs)
=============================================================================
