--------------------------- MODULE CachingProvider ---------------------------
(***************************************************************************)
(* An offline provider behind a cache (topolib/caching_providers.go): a    *)
(* Lookup that is not answered by the cache asks the provider, whose       *)
(* database may be replaced meanwhile, and stores the answer for a TTL.    *)
(* An update of the database does not touch the cache.                     *)
(*                                                                         *)
(* Time passes in ticks.  The cache is ristretto's: a Get may miss at any  *)
(* time (items are evicted, and stored by a goroutine of the cache), a Set *)
(* may be dropped, and an item is not returned when its time is over.      *)
(***************************************************************************)
EXTENDS DbHandle, Naturals

CONSTANTS
    Keys,      \* IP addresses
    TTL,       \* c.ttl, in ticks
    MaxDelay   \* bound: ticks between the provider's answer and SetWithTTL

ASSUME TimesAssumption == TTL \in Nat \ {0} /\ MaxDelay \in Nat

VARIABLES
    call,     \* where each cachingProvider.Lookup is
    key,      \* its cacheKey
    cache,    \* c.cache: whose answer, and how long it is still valid
    waited,   \* ticks since the provider answered a lookup that stores
    age       \* ticks since each database was the installed one, up to MaxAge

cacheVars == <<call, key, cache, waited, age>>
vars      == <<handleVars, cacheVars>>

MaxAge == TTL + MaxDelay
NoItem == [db |-> NoDb, left |-> 0]

Goto(l, where) == call' = [call EXCEPT ![l] = where]

-----------------------------------------------------------------------------
(* cachingProvider.Lookup.                                                 *)

Call(l, k) ==
    /\ call[l] = "idle"
    /\ key' = [key EXCEPT ![l] = k]
    /\ Goto(l, "get")
    /\ UNCHANGED <<handleVars, cache, waited, age>>

Valid(k) == cache[k].left > 0

(* Mutant of Hit: a hit makes the item valid for another TTL.              *)
HitRenews(l) ==
    /\ call[l] = "get"
    /\ Valid(key[l])
    /\ cache' = [cache EXCEPT ![key[l]].left = TTL]
    /\ Goto(l, "idle")
    /\ UNCHANGED <<handleVars, key, waited, age>>

Hit(l) ==
    /\ call[l] = "get"
    /\ Valid(key[l])
    /\ Goto(l, "idle")
    /\ UNCHANGED <<handleVars, key, cache, waited, age>>

Miss(l) ==
    /\ call[l] = "get"
    /\ Goto(l, "ask")
    /\ UNCHANGED <<handleVars, key, cache, waited, age>>

(* c.Provider.Lookup begins; without a database it fails at once.          *)
Ask(l) ==
    /\ call[l] = "ask"
    /\ RLock(l)
    /\ Goto(l, IF dbReader = NoDb THEN "idle" ELSE "asked")
    /\ UNCHANGED <<key, cache, waited, age>>

(* It returns.  An error is returned and not stored.                       *)
Answered(l) ==
    /\ call[l] = "asked"
    /\ RUnlock(l)
    /\ Goto(l, IF answer'[l] = "error" THEN "idle" ELSE "store")
    /\ UNCHANGED <<key, cache, waited, age>>

(* SetWithTTL, over whatever is there: a newer answer, too.                *)
Store(l) ==
    /\ call[l] = "store"
    /\ \/ cache' = [cache EXCEPT ![key[l]] = [db |-> answer[l], left |-> TTL]]
       \/ UNCHANGED cache
    /\ waited' = [waited EXCEPT ![l] = 0]
    /\ Goto(l, "idle")
    /\ UNCHANGED <<handleVars, key, age>>

-----------------------------------------------------------------------------

(* The databases that were installed and are not any more.                 *)
Replaced == created \ {dbReader, opening}

(* A tick of the clock.  No lookup takes more than MaxDelay to store.      *)
Tick ==
    /\ \A l \in Lookups : call[l] = "store" => waited[l] < MaxDelay
    /\ waited' = [l \in Lookups |->
                     IF call[l] = "store" THEN waited[l] + 1 ELSE waited[l]]
    /\ cache' = [k \in Keys |->
                    IF cache[k].left > 1 THEN [cache[k] EXCEPT !.left = @ - 1] ELSE NoItem]
    /\ age' = [db \in Databases |->
                  IF db \in Replaced /\ age[db] < MaxAge THEN age[db] + 1 ELSE age[db]]
    /\ UNCHANGED <<handleVars, call, key>>

HandleStep ==
    /\ OpenBegins \/ OpenStep \/ ShutdownWaits \/ Shutdown
    /\ UNCHANGED cacheVars

(* NewCachingOfflineProvider around a provider that was not opened yet.    *)
Init ==
    /\ HandleInit
    /\ call = [l \in Lookups |-> "idle"]
    /\ key \in [Lookups -> Keys]
    /\ cache = [k \in Keys |-> NoItem]
    /\ waited = [l \in Lookups |-> 0]
    /\ age = [db \in Databases |-> 0]

LookupStep(l) == Hit(l) \/ Miss(l) \/ Ask(l) \/ Answered(l) \/ Store(l)

Next ==
    \/ \E l \in Lookups, k \in Keys : Call(l, k)
    \/ \E l \in Lookups : LookupStep(l)
    \/ HandleStep
    \/ Tick

Spec == Init /\ [][Next]_vars

(* Reading a database ends.  RWMutex lets all waiting readers in when a    *)
(* writer unlocks, and a writer waits only for the readers before it.      *)
Fairness ==
    /\ \A l \in Lookups : WF_vars(LookupStep(l)) /\ SF_vars(Ask(l))
    /\ WF_vars(OpenStep /\ UNCHANGED cacheVars)
    /\ SF_vars(OpenWaits /\ UNCHANGED cacheVars)
    /\ WF_vars(Shutdown /\ UNCHANGED cacheVars)

FairSpec == Spec /\ Fairness

-----------------------------------------------------------------------------
(* Properties.                                                             *)

(* How stale a cached answer can be.  A lookup that began before an update *)
(* may store the old answer after it, and over a newer one; still, what    *)
(* the cache returns was the installed database's answer less than the TTL *)
(* and one delay ago.  How long the lookup itself took does not matter: a  *)
(* database is not replaced while it is read.                              *)
StaleForOneTTL ==
    \A k \in Keys : Valid(k) => age[cache[k].db] < TTL + MaxDelay

(* Nobody waits for ever for a mutex that an Open, one that failed too, or *)
(* a Shutdown has left locked: every Lookup, every Open that began, and    *)
(* Shutdown return.                                                        *)
EveryoneReturns ==
    /\ \A l \in Lookups : call[l] # "idle" ~> call[l] = "idle"
    /\ openPc # "idle" ~> openPc = "idle"
    /\ shutPc = "waiting" ~> shutPc = "done"
=============================================================================
