----------------------------- MODULE Topographer -----------------------------
(***************************************************************************)
(* Topographer's lookups and its Shutdown (topolib/topographer.go and      *)
(* pool_group_request.go).  A request is a call of Resolve (one IP, an     *)
(* unbuffered result channel) or of ResolveAll (a batch, a channel with    *)
(* room for all results).  It holds rwmutex for reading while tasks of the *)
(* worker pool, one per IP, ask all providers at once.  Shutdown takes the *)
(* mutex for writing, releases the pool and shuts the providers down.      *)
(*                                                                         *)
(* What a provider answers is abstracted to whether it answered: the       *)
(* details of a result are the providers that are in it (ResolveMerge has  *)
(* the vote on what they say).  The IPs of a batch are distinct and stand  *)
(* for their index in the request, which ResolveAll sorts its results by;  *)
(* the names in a query are distinct, too.                                 *)
(***************************************************************************)
EXTENDS Naturals, FiniteSets

CONSTANTS
    Requests,      \* calls of Resolve and ResolveAll
    Batches,       \* those of ResolveAll
    BatchSize,     \* len(ips) of a batch
    Cancellable,   \* requests whose context may be done before they return
    Providers,     \* registered providers
    OfflineProviders,  \* those with a database of their own
    Queries,       \* the 'providers' arguments that requests come with
    PoolSize       \* capacity of the worker pool

ASSUME RequestsAssumption ==
    /\ Batches \subseteq Requests /\ Cancellable \subseteq Requests
    /\ OfflineProviders \subseteq Providers

ASSUME SizesAssumption ==
    BatchSize \in Nat \ {0} /\ PoolSize \in Nat \ {0} /\ IsFiniteSet(Requests)

VARIABLES
    pc,            \* where each request is
    next,          \* the IP that it submits
    using,         \* providersToUse
    ctxDone,       \* is its context done?
    wg,            \* its WaitGroup
    results,       \* what is in its resultChannel
    chanClosed,    \* is resultChannel closed?
    rv,            \* the results it has received
    outcome,       \* what it returned
    worker,        \* the pool worker of each task
    lookup,        \* the goroutine of each task for each provider
    details,       \* the details each task has collected
    shutdown,      \* where Shutdown is
    closed,        \* t.closed
    released,      \* is the worker pool released?
    down           \* offline providers that were shut down

requestVars  == <<pc, next, using, ctxDone>>
channelVars  == <<wg, results, chanClosed, rv, outcome>>
taskVars     == <<worker, lookup, details>>
shutdownVars == <<shutdown, closed, released, down>>
vars == <<requestVars, channelVars, taskVars, shutdownVars>>

Size(r)   == IF r \in Batches THEN BatchSize ELSE 1
Tasks     == {t \in Requests \X (1..BatchSize) : t[2] <= Size(t[1])}
TasksOf(r) == {t \in Tasks : t[1] = r}

Busy      == {"submit", "invoke", "receive", "wait", "collect"}
Locations == {"idle", "returned"} \cup Busy

(* Who holds rwmutex for reading.                                          *)
Readers == {r \in Requests : pc[r] \in Busy}

Goto(r, l) == pc' = [pc EXCEPT ![r] = l]

(* A deferred RUnlock, and the return.                                     *)
Return(r, what) ==
    /\ Goto(r, "returned")
    /\ outcome' = [outcome EXCEPT ![r] = what]

-----------------------------------------------------------------------------
(* Resolve and ResolveAll up to the first task.                            *)

GetProvidersToUse(names) == IF names = {} THEN Providers ELSE names

(* RLock waits for a writer, and for one that is waiting.                  *)
Begin(r, names) ==
    /\ pc[r] = "idle"
    /\ shutdown \in {"no", "done"}
    /\ \/ closed /\ Return(r, "shutdown") /\ UNCHANGED using
       \/ /\ ~closed
          /\ ~(names \subseteq Providers)
          /\ Return(r, "unknownProvider")
          /\ UNCHANGED using
       \/ /\ ~closed
          /\ names \subseteq Providers
          /\ Goto(r, "submit")
          /\ using' = [using EXCEPT ![r] = GetProvidersToUse(names)]
          /\ UNCHANGED outcome
    /\ UNCHANGED <<next, ctxDone, wg, results, chanClosed, rv, taskVars, shutdownVars>>

ContextDone(r) ==
    /\ r \in Cancellable
    /\ pc[r] \in Busy
    /\ ~ctxDone[r]
    /\ ctxDone' = [ctxDone EXCEPT ![r] = TRUE]
    /\ UNCHANGED <<pc, next, using, channelVars, taskVars, shutdownVars>>

(* poolGroupRequest.Do looks at the context.  Resolve returns an empty     *)
(* result, ResolveAll submits no more tasks.                               *)
Submit(r) ==
    /\ pc[r] = "submit"
    /\ IF ctxDone[r]
         THEN /\ IF r \in Batches THEN Goto(r, "collect") /\ UNCHANGED outcome
                                  ELSE Return(r, "result")
              /\ UNCHANGED wg
         ELSE /\ Goto(r, "invoke")
              /\ wg' = [wg EXCEPT ![r] = @ + 1]
              /\ UNCHANGED outcome
    /\ UNCHANGED <<next, using, ctxDone, results, chanClosed, rv, taskVars, shutdownVars>>

Workers == {t \in Tasks : worker[t] \in {"asking", "answered"}}

(* pool.Invoke waits for a free worker.  The worker starts a goroutine per *)
(* provider.                                                               *)
Invoke(r) ==
    /\ pc[r] = "invoke"
    /\ Cardinality(Workers) < PoolSize
    /\ worker' = [worker EXCEPT ![<<r, next[r]>>] = "asking"]
    /\ lookup' = [lookup EXCEPT ![<<r, next[r]>>] =
                     [p \in Providers |-> IF p \in using[r] THEN "running" ELSE "done"]]
    /\ Goto(r, CASE r \notin Batches                       -> "receive"
                 [] r \in Batches /\ next[r] < BatchSize -> "submit"
                 [] OTHER                                -> "collect")
    /\ next' = [next EXCEPT ![r] = @ + 1]
    /\ UNCHANGED <<using, ctxDone, channelVars, details, shutdownVars>>

-----------------------------------------------------------------------------
(* resolveIP and resolveIPLookup, in a task t.                             *)

(* Lookup returns, with an answer or an error: either is counted, and      *)
(* either makes a detail.                                                  *)
LookupReturns(t, p) ==
    /\ lookup[t][p] = "running"
    /\ lookup' = [lookup EXCEPT ![t][p] = "sending"]
    /\ UNCHANGED <<requestVars, channelVars, worker, details, shutdownVars>>

(* taskChannel has room for every provider.                                *)
SendDetail(t, p) ==
    /\ lookup[t][p] = "sending"
    /\ details' = [details EXCEPT ![t] = @ \cup {p}]
    /\ lookup' = [lookup EXCEPT ![t][p] = "done"]
    /\ UNCHANGED <<requestVars, channelVars, worker, shutdownVars>>

(* Mutant of DropDetail: the detail may be dropped at any time.            *)
DropDetailAnyTime(t, p) ==
    /\ lookup[t][p] = "sending"
    /\ lookup' = [lookup EXCEPT ![t][p] = "done"]
    /\ UNCHANGED <<requestVars, channelVars, worker, details, shutdownVars>>

DropDetail(t, p) ==
    /\ lookup[t][p] = "sending"
    /\ ctxDone[t[1]]
    /\ lookup' = [lookup EXCEPT ![t][p] = "done"]
    /\ UNCHANGED <<requestVars, channelVars, worker, details, shutdownVars>>

(* Every lookup has ended, so that the range over taskChannel does.        *)
TaskChannelClosed(t) == \A p \in Providers : lookup[t][p] = "done"

(* The result of a batch goes to a channel with room for it, the one of    *)
(* Resolve to the goroutine that waits for it.                             *)
SendResult(t) ==
    /\ worker[t] = "asking"
    /\ TaskChannelClosed(t)
    /\ IF t[1] \in Batches
         THEN /\ results' = [results EXCEPT ![t[1]] = @ \cup {t}]
              /\ UNCHANGED <<pc, rv>>
         ELSE /\ pc[t[1]] = "receive"
              /\ rv' = [rv EXCEPT ![t[1]] = {t}]
              /\ Goto(t[1], "wait")
              /\ UNCHANGED results
    /\ worker' = [worker EXCEPT ![t] = "answered"]
    /\ UNCHANGED <<next, using, ctxDone, wg, chanClosed, outcome, lookup, details,
                   shutdownVars>>

(* Nobody hears of this result.                                            *)
DropResult(t) ==
    /\ worker[t] = "asking"
    /\ TaskChannelClosed(t)
    /\ ctxDone[t[1]]
    /\ worker' = [worker EXCEPT ![t] = "answered"]
    /\ UNCHANGED <<requestVars, channelVars, lookup, details, shutdownVars>>

(* Mutant of TaskDone: the WaitGroup is not told.                          *)
TaskDoneUntold(t) ==
    /\ worker[t] = "answered"
    /\ worker' = [worker EXCEPT ![t] = "done"]
    /\ UNCHANGED <<requestVars, channelVars, lookup, details, shutdownVars>>

(* The deferred params.wg.Done, and the worker goes back to the pool.      *)
TaskDone(t) ==
    /\ worker[t] = "answered"
    /\ worker' = [worker EXCEPT ![t] = "done"]
    /\ wg' = [wg EXCEPT ![t[1]] = @ - 1]
    /\ UNCHANGED <<requestVars, results, chanClosed, rv, outcome, lookup, details,
                   shutdownVars>>

-----------------------------------------------------------------------------
(* The end of Resolve and ResolveAll.                                      *)

ResolveReturns(r) ==
    /\ pc[r] = "wait"
    /\ wg[r] = 0
    /\ chanClosed' = [chanClosed EXCEPT ![r] = TRUE]
    /\ Return(r, "result")
    /\ UNCHANGED <<next, using, ctxDone, wg, results, rv, taskVars, shutdownVars>>

(* Mutant of CloseResultChannel: it does not wait for the tasks.           *)
CloseResultChannelAtOnce(r) ==
    /\ pc[r] = "collect"
    /\ ~chanClosed[r]
    /\ chanClosed' = [chanClosed EXCEPT ![r] = TRUE]
    /\ UNCHANGED <<requestVars, wg, results, rv, outcome, taskVars, shutdownVars>>

(* Mutant of CloseResultChannel: the goroutine ends with the context.      *)
CloseResultChannelUnlessDone(r) ==
    /\ pc[r] = "collect"
    /\ wg[r] = 0
    /\ ~chanClosed[r]
    /\ ~ctxDone[r]
    /\ chanClosed' = [chanClosed EXCEPT ![r] = TRUE]
    /\ UNCHANGED <<requestVars, wg, results, rv, outcome, taskVars, shutdownVars>>

(* The goroutine that waits for the tasks of a batch.                      *)
CloseResultChannel(r) ==
    /\ pc[r] = "collect"
    /\ wg[r] = 0
    /\ ~chanClosed[r]
    /\ chanClosed' = [chanClosed EXCEPT ![r] = TRUE]
    /\ UNCHANGED <<requestVars, wg, results, rv, outcome, taskVars, shutdownVars>>

Collect(r) ==
    /\ pc[r] = "collect"
    /\ \E t \in results[r] :
         /\ results' = [results EXCEPT ![r] = @ \ {t}]
         /\ rv' = [rv EXCEPT ![r] = @ \cup {t}]
    /\ UNCHANGED <<requestVars, wg, chanClosed, outcome, taskVars, shutdownVars>>

ResolveAllReturns(r) ==
    /\ pc[r] = "collect"
    /\ chanClosed[r]
    /\ results[r] = {}
    /\ Return(r, "result")
    /\ UNCHANGED <<next, using, ctxDone, wg, results, chanClosed, rv, taskVars, shutdownVars>>

-----------------------------------------------------------------------------
(* Shutdown.                                                               *)

(* Lock announces the writer before it waits for the readers.              *)
Shutdown ==
    /\ shutdown = "no"
    /\ shutdown' = "pending"
    /\ UNCHANGED <<requestVars, channelVars, taskVars, closed, released, down>>

(* Mutant of ShutdownLocks: it does not wait for the readers.              *)
ShutdownDoesNotWait ==
    /\ shutdown = "pending"
    /\ shutdown' = "locked"
    /\ closed' = TRUE
    /\ released' = TRUE
    /\ UNCHANGED <<requestVars, channelVars, taskVars, down>>

ShutdownLocks ==
    /\ shutdown = "pending"
    /\ Readers = {}
    /\ shutdown' = "locked"
    /\ closed' = TRUE
    /\ released' = TRUE
    /\ UNCHANGED <<requestVars, channelVars, taskVars, down>>

ShutdownProvider ==
    /\ shutdown = "locked"
    /\ \E p \in OfflineProviders \ down : down' = down \cup {p}
    /\ UNCHANGED <<requestVars, channelVars, taskVars, shutdown, closed, released>>

ShutdownUnlocks ==
    /\ shutdown = "locked"
    /\ down = OfflineProviders
    /\ shutdown' = "done"
    /\ UNCHANGED <<requestVars, channelVars, taskVars, closed, released, down>>

-----------------------------------------------------------------------------

(* NewTopographer has succeeded.                                           *)
Init ==
    /\ pc = [r \in Requests |-> "idle"]
    /\ next = [r \in Requests |-> 1]
    /\ using = [r \in Requests |-> {}]
    /\ ctxDone = [r \in Requests |-> FALSE]
    /\ wg = [r \in Requests |-> 0]
    /\ results = [r \in Requests |-> {}]
    /\ chanClosed = [r \in Requests |-> FALSE]
    /\ rv = [r \in Requests |-> {}]
    /\ outcome = [r \in Requests |-> "none"]
    /\ worker = [t \in Tasks |-> "none"]
    /\ lookup = [t \in Tasks |-> [p \in Providers |-> "none"]]
    /\ details = [t \in Tasks |-> {}]
    /\ shutdown = "no"
    /\ closed = FALSE
    /\ released = FALSE
    /\ down = {}

RequestStep(r) ==
    \/ Submit(r) \/ Invoke(r) \/ ResolveReturns(r)
    \/ CloseResultChannel(r) \/ Collect(r) \/ ResolveAllReturns(r)

LookupStep(t, p) == LookupReturns(t, p) \/ SendDetail(t, p) \/ DropDetail(t, p)

TaskStep(t) == SendResult(t) \/ DropResult(t) \/ TaskDone(t)

ShutdownStep == ShutdownLocks \/ ShutdownProvider \/ ShutdownUnlocks

(* Every request was answered and Shutdown has returned.                   *)
Terminated ==
    /\ \A r \in Requests : pc[r] = "returned"
    /\ shutdown = "done"
    /\ UNCHANGED vars

Next ==
    \/ \E r \in Requests, names \in Queries : Begin(r, names)
    \/ \E r \in Requests : ContextDone(r) \/ RequestStep(r)
    \/ \E t \in Tasks : TaskStep(t)
    \/ \E t \in Tasks, p \in Providers : LookupStep(t, p)
    \/ Shutdown
    \/ ShutdownStep
    \/ Terminated

Spec == Init /\ [][Next]_vars

(* Every goroutine that can run does, and every Lookup returns.            *)
Fairness ==
    /\ \A r \in Requests : WF_vars(RequestStep(r))
    /\ \A t \in Tasks : WF_vars(TaskStep(t))
    /\ \A t \in Tasks, p \in Providers : WF_vars(LookupStep(t, p))
    /\ WF_vars(ShutdownStep)

FairSpec == Spec /\ Fairness

-----------------------------------------------------------------------------
(* Properties.                                                             *)

Types ==
    /\ pc \in [Requests -> Locations]
    /\ next \in [Requests -> 1..(BatchSize + 1)]
    /\ using \in [Requests -> SUBSET Providers]
    /\ ctxDone \in [Requests -> BOOLEAN]
    /\ wg \in [Requests -> Nat]
    /\ results \in [Requests -> SUBSET Tasks]
    /\ chanClosed \in [Requests -> BOOLEAN]
    /\ rv \in [Requests -> SUBSET Tasks]
    /\ outcome \in [Requests -> {"none", "result", "shutdown", "unknownProvider"}]
    /\ worker \in [Tasks -> {"none", "asking", "answered", "done"}]
    /\ lookup \in [Tasks -> [Providers -> {"none", "running", "sending", "done"}]]
    /\ details \in [Tasks -> SUBSET Providers]
    /\ shutdown \in {"no", "pending", "locked", "done"}
    /\ closed \in BOOLEAN /\ released \in BOOLEAN
    /\ down \subseteq OfflineProviders

WorkersOf(r) == Workers \cap TasksOf(r)

(* wg.Add(1) comes before the task is submitted.                           *)
Counting ==
    \A r \in Requests :
        wg[r] = Cardinality(WorkersOf(r)) + (IF pc[r] = "invoke" THEN 1 ELSE 0)

(* Every variable has its type, and a WaitGroup counts the tasks of its    *)
(* request that were submitted and are not done, at most one per IP.       *)
TypeOK == Types /\ Counting /\ \A r \in Requests : wg[r] <= Size(r)

(* Shutdown never pulls anything from under a request: no task is          *)
(* submitted to a released pool and no provider is asked once it is shut   *)
(* down.                                                                   *)
NothingAfterShutdown ==
    /\ \A r \in Requests : pc[r] = "invoke" => ~released
    /\ \A t \in Tasks, p \in Providers : lookup[t][p] = "running" => p \notin down

(* The tasks of a request and their lookups end before its result channel  *)
(* is closed, so that none sends on a closed channel (a panic), and before *)
(* Resolve or ResolveAll returns, so that nothing is left behind.          *)
NothingOutlivesRequest ==
    \A t \in Tasks : chanClosed[t[1]] \/ pc[t[1]] = "returned" =>
        /\ worker[t] \in {"none", "done"}
        /\ \A p \in Providers : lookup[t][p] \in {"none", "done"}

(* What a caller sees of a call and of Shutdown.                           *)
CallState == [r \in Requests |-> IF pc[r] \in Busy THEN "asked" ELSE pc[r]]

Answered ==
    [r \in Requests |-> [t \in {u \in rv[r] : pc[r] = "returned"} |-> details[t]]]

Service ==
    CASE shutdown = "no"      -> "open"
      [] shutdown = "pending" -> "closing"
      [] OTHER                -> "closed"

Contract == INSTANCE RequestContract WITH
    IPs       <- [r \in Requests |-> TasksOf(r)],
    call      <- CallState,
    asking    <- using,
    cancelled <- ctxDone,
    answer    <- Answered,
    service   <- Service

(* The goroutines behind a call are not seen by its caller: every call is  *)
(* refused, or let in and answered at once when it returns, with a detail  *)
(* of each provider for each IP unless its context is done.  What was      *)
(* returned does not change afterwards, and Shutdown keeps new calls out   *)
(* and takes effect when all others have returned.                         *)
ImplementsRequestContract == Contract!Spec

(* Resolve waits for its result although its context is done.              *)
CancelledReceive(r) == pc[r] = "receive" /\ ctxDone[r]

(* Every request returns, a cancelled batch too, and so does Shutdown: the *)
(* pool at its limit, and a writer that waits while readers wait for a     *)
(* worker, do not stop each other.  (A cancelled Resolve may hang and keep *)
(* rwmutex: see CancelledResolveReturns.)                                  *)
EveryCallReturns ==
    /\ \A r \in Requests :
          pc[r] \in Busy ~> pc[r] = "returned" \/ CancelledReceive(r)
    /\ shutdown = "pending" ~>
          shutdown = "done" \/ \E r \in Requests : CancelledReceive(r)

(* "ErrContextIsClosed returns if context is closed during execution of    *)
(* the method": a Resolve whose context is done returns.                   *)
CancelledResolveReturns ==
    \A r \in Requests \ Batches : ctxDone[r] ~> pc[r] = "returned"
=============================================================================
