------------------------ MODULE CachingProviderProofs ------------------------
(***************************************************************************)
(* Proofs about DbHandle and CachingProvider for any number of lookups and *)
(* databases, any TTL and any delay.                                       *)
(***************************************************************************)
EXTENDS CachingProvider, TLAPS

(* Open has a reader in its hands, and has the mutex.                      *)
Holding ==
    openPc \in {"built", "swap"} \/ (openPc = "waiting" /\ ~OpensUnderLock)
Inside  == openPc = "swap" \/ (openPc = "building" /\ OpensUnderLock)

(* Who has announced to write, and whom the mutex keeps out.               *)
LockInv ==
    /\ writer = "open" <=> openPc = "waiting" \/ Inside
    /\ writer = "shutdown" <=> shutPc = "waiting"
    /\ openPc = "built" => ~OpensUnderLock
    /\ opening # NoDb <=> Holding
    /\ Inside => Readers = {}

(* Which readers are open.                                                 *)
DbInv ==
    /\ dbReader # NoDb => dbReader \in created \ closedDbs /\ dbReader # opening
    /\ opening # NoDb => opening \in created \ closedDbs
    /\ \A l \in Lookups : using[l] # NoDb => using[l] = dbReader

(* A reader that is open is installed or about to be.                      *)
OpenInv == kind # "software77" => created \ closedDbs \subseteq {dbReader, opening}

HandleInv ==
    HandleTypeOK /\ LockInv /\ DbInv /\ OpenInv /\ ReadyUntilShutdown

-----------------------------------------------------------------------------
(* The handle.                                                             *)

LEMMA InitHandleInv == HandleInit => HandleInv
BY DatabasesAssumption DEF HandleInit, HandleInv, HandleTypeOK, LockInv, DbInv, OpenInv,
   ReadyUntilShutdown, Readers, Holding, Inside, OpensUnderLock, Kinds, NoAnswers, NoDb

LEMMA LookupHandleInv ==
    ASSUME HandleInv, NEW l \in Lookups, RLock(l) \/ RUnlock(l)
    PROVE  HandleInv'
<1>1. HandleTypeOK'
  BY DEF RLock, RUnlock, HandleInv, HandleTypeOK, lockVars, databases, NoAnswers
<1>2. UNCHANGED <<lockVars, databases>>
  BY DEF RLock, RUnlock
<1>3. using' = [using EXCEPT ![l] = IF RLock(l) THEN dbReader ELSE NoDb]
  BY DEF RLock, RUnlock
<1>4. Inside => ~RLock(l)
  BY DEF RLock, HandleInv, LockInv
<1>5. Inside => Readers' = {}
  BY <1>2, <1>3, <1>4 DEF HandleInv, HandleTypeOK, LockInv, Readers
<1>6. LockInv'
  BY <1>2, <1>5 DEF lockVars, HandleInv, LockInv, Holding, Inside, OpensUnderLock
<1>7. DbInv'
  BY <1>2, <1>3 DEF lockVars, databases, HandleInv, HandleTypeOK, DbInv
<1> QED
  BY <1>1, <1>2, <1>6, <1>7 DEF lockVars, databases, HandleInv, OpenInv,
     ReadyUntilShutdown

(* Steps of Open and Shutdown that wait, read a database in or fail.       *)
LEMMA WaitHandleInv ==
    ASSUME HandleInv,
           OpenBegins \/ OpenLocks \/ BuildFails \/ OpenWaits \/ ShutdownWaits
    PROVE  HandleInv'
<1>1. UNCHANGED <<kind, opening, databases, lookupVars>>
  BY DEF OpenBegins, OpenLocks, BuildFails, OpenWaits, ShutdownWaits
<1>2. HandleTypeOK'
  BY <1>1 DEF OpenBegins, OpenLocks, BuildFails, OpenWaits, ShutdownWaits, Announce,
     databases, lookupVars, HandleInv, HandleTypeOK
<1>3. Readers' = Readers
  BY <1>1 DEF Readers, lookupVars
<1>4. LockInv'
  <2> USE DEF HandleInv, HandleTypeOK, LockInv, Holding, Inside, OpensUnderLock
  <2>1. CASE OpenBegins
    BY <1>1, <1>3, <2>1 DEF OpenBegins, Announce
  <2>2. CASE OpenLocks
    BY <1>1, <1>3, <2>2 DEF OpenLocks
  <2>3. CASE BuildFails
    BY <1>1, <1>3, <2>3 DEF BuildFails
  <2>4. CASE OpenWaits
    BY <1>1, <1>3, <2>4 DEF OpenWaits, Announce
  <2>5. CASE ShutdownWaits
    BY <1>1, <1>3, <2>5 DEF ShutdownWaits, Announce
  <2> QED
    BY <2>1, <2>2, <2>3, <2>4, <2>5
<1>5. DbInv' /\ OpenInv'
  BY <1>1 DEF databases, lookupVars, HandleInv, DbInv, OpenInv
<1>6. shutPc = "done" => shutPc' = "done"
  BY DEF OpenBegins, OpenLocks, BuildFails, OpenWaits, ShutdownWaits
<1>7. ReadyUntilShutdown'
  BY <1>1, <1>6 DEF databases, HandleInv, ReadyUntilShutdown
<1> QED
  BY <1>2, <1>4, <1>5, <1>7 DEF HandleInv

LEMMA BuildHandleInv ==
    ASSUME HandleInv, NEW db \in Databases, Build(db)
    PROVE  HandleInv'
<1>1. opening = NoDb /\ db # NoDb
  BY DatabasesAssumption DEF Build, HandleInv, LockInv, Holding
<1>2. db \notin created /\ created' = created \cup {db} /\ opening' = db
  BY DEF Build
<1>3. UNCHANGED <<kind, writer, shutPc, dbReader, closedDbs, using, answer>>
  BY DEF Build, lookupVars
<1>4. HandleTypeOK'
  BY <1>2, <1>3 DEF Build, HandleInv, HandleTypeOK
<1>5. LockInv'
  BY <1>1, <1>2, <1>3 DEF Build, HandleInv, LockInv, Holding, Inside, OpensUnderLock, Readers
<1>6. DbInv' /\ OpenInv'
  <2>1. NoDb \notin created
    BY DatabasesAssumption DEF HandleInv, HandleTypeOK
  <2>2. DbInv'
    BY <1>1, <1>2, <1>3 DEF HandleInv, HandleTypeOK, DbInv
  <2>3. OpenInv'
    BY <1>1, <1>2, <1>3, <2>1 DEF HandleInv, OpenInv
  <2> QED
    BY <2>2, <2>3
<1>7. ReadyUntilShutdown'
  <2>1. CASE created \subseteq {opening}
    <3>1. created = {}
      BY <1>1, <2>1, DatabasesAssumption DEF HandleInv, HandleTypeOK
    <3> QED
      BY <1>2, <3>1 DEF ReadyUntilShutdown
  <2> QED
    BY <1>3, <2>1 DEF HandleInv, ReadyUntilShutdown
<1> QED
  BY <1>4, <1>5, <1>6, <1>7 DEF HandleInv

(* Steps that close what is installed.                                     *)
LEMMA SwapHandleInv == ASSUME HandleInv, Swap PROVE HandleInv'
<1>1. /\ opening # NoDb /\ opening \in created \ closedDbs /\ Readers = {}
      /\ dbReader # opening
  BY DEF Swap, HandleInv, LockInv, DbInv, Holding, Inside
<1>2. /\ dbReader' = opening /\ opening' = NoDb /\ openPc' = "idle" /\ writer' = "none"
      /\ UNCHANGED <<kind, shutPc, created, using, answer>>
      /\ closedDbs' = IF kind = "software77" THEN closedDbs ELSE closedDbs \cup ({dbReader} \ {NoDb})
  BY DEF Swap, Close, lookupVars
<1>3. HandleTypeOK'
  BY <1>1, <1>2 DEF HandleInv, HandleTypeOK, DbInv
<1>4. LockInv'
  BY <1>1, <1>2 DEF Swap, HandleInv, LockInv, Holding, Inside, OpensUnderLock
<1>5. DbInv'
  BY <1>1, <1>2 DEF Readers, HandleInv, DbInv
<1>6. OpenInv' /\ ReadyUntilShutdown'
  BY <1>1, <1>2 DEF HandleInv, HandleTypeOK, OpenInv, ReadyUntilShutdown
<1> QED
  BY <1>3, <1>4, <1>5, <1>6 DEF HandleInv

LEMMA ShutdownHandleInv == ASSUME HandleInv, Shutdown PROVE HandleInv'
<1>1. /\ dbReader' = NoDb /\ writer' = "none" /\ shutPc' = "done" /\ Readers = {}
      /\ UNCHANGED <<kind, openPc, opening, created, using, answer>>
      /\ closedDbs' = IF kind = "software77" THEN closedDbs ELSE closedDbs \cup ({dbReader} \ {NoDb})
  BY DEF Shutdown, Close, lookupVars
<1>2. writer = "shutdown"
  BY DEF Shutdown, HandleInv, LockInv
<1>3. HandleTypeOK'
  BY <1>1 DEF HandleInv, HandleTypeOK, DbInv
<1>4. LockInv'
  BY <1>1, <1>2 DEF HandleInv, LockInv, Holding, Inside, OpensUnderLock, Readers
<1>5. DbInv'
  BY <1>1 DEF Readers, HandleInv, HandleTypeOK, DbInv
<1>6. OpenInv' /\ ReadyUntilShutdown'
  BY <1>1 DEF HandleInv, OpenInv, ReadyUntilShutdown
<1> QED
  BY <1>3, <1>4, <1>5, <1>6 DEF HandleInv

LEMMA NextHandleInv == HandleInv /\ [Next]_vars => HandleInv'
<1> SUFFICES ASSUME HandleInv, [Next]_vars PROVE HandleInv'
  OBVIOUS
<1>1. CASE UNCHANGED handleVars
  BY <1>1 DEF handleVars, lockVars, databases, lookupVars, HandleInv, HandleTypeOK, LockInv,
     DbInv, OpenInv, ReadyUntilShutdown, Readers, Holding, Inside, OpensUnderLock
<1>2. CASE HandleStep
  BY <1>2, WaitHandleInv, BuildHandleInv, SwapHandleInv, ShutdownHandleInv
     DEF HandleStep, OpenStep
<1>3. ASSUME NEW l \in Lookups, LookupStep(l)
      PROVE  HandleInv'
  BY <1>1, <1>3, LookupHandleInv DEF LookupStep, Hit, Miss, Ask, Answered, Store
<1>4. CASE Tick \/ \E l \in Lookups, k \in Keys : Call(l, k)
  BY <1>1, <1>4 DEF Tick, Call
<1>5. CASE UNCHANGED vars
  BY <1>1, <1>5 DEF vars
<1> QED
  BY <1>2, <1>3, <1>4, <1>5 DEF Next

LEMMA AlwaysHandleInv == Spec => []HandleInv
<1>1. Init => HandleInv
  BY InitHandleInv DEF Init
<1> QED
  BY <1>1, NextHandleInv, PTL DEF Spec

(* For any number of lookups: none reads a database that Open or Shutdown  *)
(* has closed, although both close what is installed.                      *)
THEOREM LookupsReadOpenDatabases == Spec => []NeverReadsClosed
<1>1. HandleInv => NeverReadsClosed
  BY DEF HandleInv, DbInv, NeverReadsClosed, Readers
<1> QED
  BY <1>1, AlwaysHandleInv, PTL

(* What Open and Shutdown leave open when neither is at work: one reader,  *)
(* the installed one, and none if no Open came after Shutdown (the handle  *)
(* is then empty).  Software77's readers have nothing to close.            *)
OnlyInstalledIsOpen ==
    openPc = "idle" /\ kind # "software77" => created \ closedDbs = {dbReader} \ {NoDb}

(* For any number of databases, whatever fails: no reader is open but the  *)
(* installed one.  So the database that an Open installs after Shutdown is *)
(* the only one that can be left open at the end.                          *)
THEOREM OpenReaderIsInstalled == Spec => []OnlyInstalledIsOpen
<1>1. HandleInv => OnlyInstalledIsOpen
  <2> SUFFICES ASSUME HandleInv, openPc = "idle", kind # "software77"
               PROVE  created \ closedDbs = {dbReader} \ {NoDb}
    BY DEF OnlyInstalledIsOpen
  <2>1. opening = NoDb
    BY DEF HandleInv, LockInv, Holding
  <2>2. NoDb \notin created
    BY DatabasesAssumption DEF HandleInv, HandleTypeOK
  <2>3. created \ closedDbs \subseteq {dbReader} \ {NoDb}
    BY <2>1, <2>2 DEF HandleInv, OpenInv
  <2> QED
    BY <2>3 DEF HandleInv, DbInv
<1> QED
  BY <1>1, AlwaysHandleInv, PTL

(* Once a database was installed there is one until Shutdown, however many *)
(* calls of Open fail.                                                     *)
THEOREM HandleStaysReady == Spec => []ReadyUntilShutdown
<1>1. HandleInv => ReadyUntilShutdown
  BY DEF HandleInv
<1> QED
  BY <1>1, AlwaysHandleInv, PTL

-----------------------------------------------------------------------------
(* The cache.  A lookup that reads has the installed database in its       *)
(* hands, whose age is 0; from its answer on, the age of the database is   *)
(* at most what the lookup has waited; from the store on, age and          *)
(* remaining time grow and shrink together.                                *)

CacheTypeOK ==
    /\ call \in [Lookups -> {"idle", "get", "ask", "asked", "store"}]
    /\ key \in [Lookups -> Keys]
    /\ cache \in [Keys -> [db : Databases \cup {NoDb}, left : 0..TTL]]
    /\ waited \in [Lookups -> 0..MaxDelay]
    /\ age \in [Databases -> 0..MaxAge]

(* A database that was never replaced has no age.                          *)
AgeInv == \A db \in Databases : age[db] # 0 => db \in Replaced

CallInv(l) ==
    /\ call[l] = "asked" <=> using[l] # NoDb
    /\ call[l] # "store" => waited[l] = 0
    /\ call[l] = "store" => answer[l] \in Databases /\ age[answer[l]] <= waited[l]

ItemInv(k) ==
    Valid(k) => cache[k].db \in Databases /\ age[cache[k].db] + cache[k].left <= MaxAge

CacheInv ==
    /\ CacheTypeOK /\ AgeInv
    /\ \A l \in Lookups : CallInv(l)
    /\ \A k \in Keys : ItemInv(k)

LEMMA InitCacheInv == Init => CacheInv
BY TimesAssumption DEF Init, HandleInit, CacheInv, CacheTypeOK, AgeInv, CallInv, ItemInv,
   Valid, NoItem, MaxAge

(* Steps of Open and Shutdown: nothing that was replaced comes back.       *)
LEMMA HandleStepCacheInv == ASSUME HandleInv, CacheInv, HandleStep PROVE CacheInv'
<1>1. UNCHANGED <<call, key, cache, waited, age, using, answer>>
  BY DEF HandleStep, OpenStep, OpenBegins, OpenLocks, Build, BuildFails, OpenWaits, Swap,
     ShutdownWaits, Shutdown, cacheVars, lookupVars
<1>2. Replaced \subseteq Replaced'
  <2>1. CASE OpenBegins \/ OpenLocks \/ BuildFails \/ OpenWaits \/ ShutdownWaits
    BY <2>1 DEF OpenBegins, OpenLocks, BuildFails, OpenWaits, ShutdownWaits, databases, Replaced
  <2>2. CASE \E db \in Databases : Build(db)
    BY <2>2 DEF Build, Replaced
  <2>3. CASE Swap \/ Shutdown
    BY <2>3, DatabasesAssumption DEF Swap, Shutdown, Replaced, HandleInv, HandleTypeOK
  <2> QED
    BY <2>1, <2>2, <2>3 DEF HandleStep, OpenStep
<1>3. CacheTypeOK' /\ AgeInv'
  BY <1>1, <1>2 DEF CacheInv, CacheTypeOK, AgeInv
<1>4. (\A l \in Lookups : CallInv(l)') /\ (\A k \in Keys : ItemInv(k)')
  BY <1>1 DEF CacheInv, CallInv, ItemInv, Valid
<1> QED
  BY <1>3, <1>4 DEF CacheInv

LEMMA LookupStepCacheInv ==
    ASSUME HandleInv, CacheInv, NEW l \in Lookups,
           LookupStep(l) \/ \E k \in Keys : Call(l, k)
    PROVE  CacheInv'
<1>1. /\ UNCHANGED <<lockVars, databases, age>>
      /\ \A m \in Lookups \ {l} : /\ call'[m] = call[m] /\ waited'[m] = waited[m]
                                  /\ using'[m] = using[m] /\ answer'[m] = answer[m]
  BY DEF LookupStep, Call, Hit, Miss, Ask, Answered, Store, Goto, RLock, RUnlock, handleVars,
     lookupVars, CacheInv, CacheTypeOK, HandleInv, HandleTypeOK
<1>2. AgeInv'
  BY <1>1 DEF CacheInv, AgeInv, Replaced, lockVars, databases
<1>3. ASSUME NEW m \in Lookups \ {l} PROVE CallInv(m)'
  BY <1>1, <1>3 DEF CacheInv, CallInv
<1>4. CacheTypeOK' /\ CallInv(l)' /\ \A k \in Keys : ItemInv(k)'
  <2> USE DEF CacheInv
  <2>1. CASE (\E k \in Keys : Call(l, k)) \/ Hit(l) \/ Miss(l)
    BY <2>1 DEF Call, Hit, Miss, Goto, handleVars, lookupVars, CacheTypeOK, CallInv, ItemInv, Valid
  <2>2. CASE Ask(l)
    BY <2>2, DatabasesAssumption DEF Ask, RLock, Goto, CacheTypeOK, CallInv, ItemInv, Valid,
       HandleInv, HandleTypeOK
  <2>3. CASE Answered(l)
    <3>1. /\ using[l] \in Databases /\ using[l] = dbReader /\ waited[l] = 0
          /\ using'[l] = NoDb /\ answer'[l] \in {using[l], "error"}
          /\ call'[l] = IF answer'[l] = "error" THEN "idle" ELSE "store"
          /\ UNCHANGED <<key, cache, waited, age>>
      BY <2>3 DEF Answered, RUnlock, Goto, CallInv, CacheTypeOK, HandleInv, HandleTypeOK, DbInv
    <3>2. age[using[l]] = 0
      BY <3>1 DEF AgeInv, Replaced
    <3>3. CallInv(l)'
      BY <3>1, <3>2 DEF CallInv
    <3>4. CacheTypeOK' /\ \A k \in Keys : ItemInv(k)'
      BY <2>3, <3>1 DEF Answered, Goto, CacheTypeOK, ItemInv, Valid
    <3> QED
      BY <3>3, <3>4
  <2>4. CASE Store(l)
    <3>1. answer[l] \in Databases /\ age[answer[l]] <= waited[l] /\ waited[l] \in 0..MaxDelay
      BY <2>4 DEF Store, CallInv, CacheTypeOK
    <3>2. age[answer[l]] + TTL <= MaxAge
      BY <3>1, TimesAssumption DEF CacheTypeOK, MaxAge
    <3>3. CacheTypeOK'
      BY <2>4, <3>1, TimesAssumption DEF Store, Goto, CacheTypeOK
    <3>4. CallInv(l)'
      BY <2>4 DEF Store, Goto, handleVars, lookupVars, CallInv, CacheTypeOK
    <3>5. ASSUME NEW k \in Keys PROVE ItemInv(k)'
      <4>1. CASE cache'[k] = cache[k]
        BY <1>1, <4>1 DEF ItemInv, Valid
      <4>2. CASE cache'[k] = [db |-> answer[l], left |-> TTL]
        BY <1>1, <3>1, <3>2, <4>2 DEF ItemInv, Valid
      <4> QED
        BY <2>4, <4>1, <4>2 DEF Store, CacheTypeOK
    <3> QED
      BY <3>3, <3>4, <3>5
  <2> QED
    BY <2>1, <2>2, <2>3, <2>4 DEF LookupStep
<1> QED
  BY <1>2, <1>3, <1>4 DEF CacheInv

(* A tick: ages grow by one at most, and what remains of each item, and    *)
(* the patience of each lookup that stores, shrinks by one.                *)
LEMMA TickCacheInv == ASSUME HandleInv, CacheInv, Tick PROVE CacheInv'
<1>1. UNCHANGED <<lockVars, databases, using, answer, call, key>>
  BY DEF Tick, handleVars, lookupVars
<1>2. \A db \in Databases : age'[db] \in 0..MaxAge /\ age'[db] <= age[db] + 1
  BY TimesAssumption DEF Tick, CacheInv, CacheTypeOK, MaxAge
<1>3. age' \in [Databases -> 0..MaxAge]
  BY <1>2 DEF Tick
<1>4. AgeInv'
  BY <1>1 DEF Tick, CacheInv, AgeInv, Replaced, lockVars, databases
<1>5. ASSUME NEW l \in Lookups PROVE waited'[l] \in 0..MaxDelay /\ CallInv(l)'
  BY <1>1, <1>2, TimesAssumption DEF Tick, CacheInv, CacheTypeOK, CallInv
<1>6. waited' \in [Lookups -> 0..MaxDelay]
  BY <1>5 DEF Tick
<1>7. ASSUME NEW k \in Keys
      PROVE  cache'[k] \in [db : Databases \cup {NoDb}, left : 0..TTL] /\ ItemInv(k)'
  <2>1. cache[k] \in [db : Databases \cup {NoDb}, left : 0..TTL] /\ ItemInv(k)
    BY DEF CacheInv, CacheTypeOK
  <2>2. CASE cache[k].left > 1
    <3>1. /\ cache'[k] = [cache[k] EXCEPT !.left = @ - 1]
      BY <2>2 DEF Tick
    <3>2. cache'[k].db = cache[k].db /\ cache'[k].left = cache[k].left - 1
      BY <2>1, <3>1
    <3>3. cache[k].db \in Databases /\ age[cache[k].db] + cache[k].left <= MaxAge
      BY <2>1, <2>2 DEF ItemInv, Valid
    <3>4. cache'[k] \in [db : Databases \cup {NoDb}, left : 0..TTL]
      BY <2>1, <2>2, <3>1, TimesAssumption
    <3>5. age'[cache'[k].db] + cache'[k].left <= MaxAge
      BY <1>2, <2>1, <3>2, <3>3, TimesAssumption DEF MaxAge, CacheInv, CacheTypeOK
    <3> QED
      BY <3>2, <3>3, <3>4, <3>5 DEF ItemInv
  <2>3. CASE ~(cache[k].left > 1)
    BY <2>3, TimesAssumption DEF Tick, NoItem, ItemInv, Valid
  <2> QED
    BY <2>2, <2>3
<1>8. cache' \in [Keys -> [db : Databases \cup {NoDb}, left : 0..TTL]]
  BY <1>7 DEF Tick
<1> QED
  BY <1>1, <1>3, <1>4, <1>5, <1>6, <1>7, <1>8 DEF CacheInv, CacheTypeOK

LEMMA AlwaysCacheInv == Spec => []CacheInv
<1>1. HandleInv /\ CacheInv /\ [Next]_vars => CacheInv'
  <2> SUFFICES ASSUME HandleInv, CacheInv, [Next]_vars PROVE CacheInv'
    OBVIOUS
  <2>1. CASE UNCHANGED vars
    BY <2>1 DEF vars, handleVars, lockVars, databases, lookupVars, cacheVars, CacheInv,
       CacheTypeOK, AgeInv, CallInv, ItemInv, Valid, Replaced
  <2> QED
    BY <2>1, HandleStepCacheInv, LookupStepCacheInv, TickCacheInv DEF Next
<1> QED
  BY <1>1, InitCacheInv, AlwaysHandleInv, PTL DEF Spec

(* For any number of lookups and updates, any TTL and any delay: an answer *)
(* that the cache returns was the installed database's less than the TTL   *)
(* and one delay ago.                                                      *)
THEOREM CacheIsStaleForOneTTL == Spec => []StaleForOneTTL
<1>1. CacheInv => StaleForOneTTL
  <2> SUFFICES ASSUME CacheInv, NEW k \in Keys, Valid(k)
               PROVE  age[cache[k].db] < TTL + MaxDelay
    BY DEF StaleForOneTTL
  <2>1. /\ age[cache[k].db] \in Nat /\ cache[k].left \in Nat /\ cache[k].left > 0
        /\ age[cache[k].db] + cache[k].left <= TTL + MaxDelay
    BY DEF CacheInv, CacheTypeOK, ItemInv, Valid, MaxAge
  <2> QED
    BY <2>1, TimesAssumption
<1> QED
  BY <1>1, AlwaysCacheInv, PTL

-----------------------------------------------------------------------------
(* The mutex.                                                              *)

(* The guards of the steps that whoever has announced to write takes       *)
(* before it unlocks.                                                      *)
WriterCanRun ==
    \/ writer = "open" /\ openPc = "waiting" /\ Readers = {}
    \/ writer = "open" /\ openPc \in {"building", "swap"}
    \/ writer = "shutdown" /\ shutPc = "waiting" /\ Readers = {}

(* A lookup that has the mutex for reading does nothing but read.          *)
ReaderCanRun(l) == call[l] = "asked" /\ using[l] # NoDb

(* Nobody has left the mutex locked: who keeps others out of it can go on, *)
(* or waits for lookups that can.                                          *)
MutexIsInUse ==
    /\ writer # "none" => WriterCanRun \/ \E l \in Lookups : ReaderCanRun(l)
    /\ \A l \in Readers : ReaderCanRun(l)

(* The handle is replaced, and a reader closed, only by who has the mutex  *)
(* for writing, while nobody reads.                                        *)
ChangesAlone ==
    dbReader' # dbReader \/ closedDbs' # closedDbs => writer # "none" /\ Readers = {}

(* For any number of lookups and each kind of handle: no path of Open or   *)
(* Shutdown, those that fail included, returns with the mutex locked.      *)
THEOREM MutexIsGivenBack == Spec => []MutexIsInUse
<1>1. HandleInv /\ CacheInv => MutexIsInUse
  <2> SUFFICES ASSUME HandleInv, CacheInv PROVE MutexIsInUse
    OBVIOUS
  <2>1. \A l \in Readers : ReaderCanRun(l)
    BY DEF Readers, ReaderCanRun, CacheInv, CallInv
  <2>2. ASSUME writer # "none", Readers = {} PROVE WriterCanRun
    BY <2>2 DEF WriterCanRun, HandleInv, HandleTypeOK, LockInv, Inside
  <2>3. ASSUME Readers # {} PROVE \E l \in Lookups : ReaderCanRun(l)
    BY <2>1, <2>3 DEF Readers
  <2> QED
    BY <2>1, <2>2, <2>3 DEF MutexIsInUse
<1> QED
  BY <1>1, AlwaysHandleInv, AlwaysCacheInv, PTL

(* No lookup can see the handle change: Open and Shutdown replace and      *)
(* close what is installed while nobody reads it.                          *)
THEOREM HandleChangesAlone == Spec => [][ChangesAlone]_vars
<1>1. HandleInv /\ [Next]_vars => [ChangesAlone]_vars
  <2> SUFFICES ASSUME HandleInv, Next PROVE ChangesAlone
    BY DEF vars
  <2>1. CASE Swap
    BY <2>1 DEF Swap, ChangesAlone, HandleInv, LockInv, Inside
  <2>2. CASE Shutdown
    BY <2>2 DEF Shutdown, ChangesAlone, HandleInv, LockInv
  <2>3. CASE UNCHANGED <<dbReader, closedDbs>>
    BY <2>3 DEF ChangesAlone
  <2>4. \/ Swap \/ Shutdown \/ UNCHANGED <<dbReader, closedDbs>>
    BY DEF Next, HandleStep, OpenStep, OpenBegins, OpenLocks, Build, BuildFails, OpenWaits,
       ShutdownWaits, LookupStep, Call, Hit, Miss, Ask, Answered, Store, Tick, RLock, RUnlock,
       handleVars, databases
  <2> QED
    BY <2>1, <2>2, <2>3, <2>4
<1> QED
  BY <1>1, AlwaysHandleInv, PTL DEF Spec
=============================================================================
