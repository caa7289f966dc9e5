-------------------------- MODULE TopographerProofs --------------------------
(***************************************************************************)
(* What TLAPS proves of Topographer: for any number of requests, any size  *)
(* of a batch or of the pool and any set of providers, with Shutdown       *)
(* called at any time.                                                     *)
(***************************************************************************)
EXTENDS Topographer, TLAPS, FiniteSetTheorems

-----------------------------------------------------------------------------
(* The inductive invariant.                                                *)

(* The IPs before next were submitted, and no others.                      *)
Submitted == \A t \in Tasks : worker[t] = "none" <=> t[2] >= next[t[1]]

(* How far a request is with its IPs, where it is.                         *)
Progress ==
    \A r \in Requests :
        /\ next[r] <= Size(r) + 1
        /\ pc[r] = "idle" => next[r] = 1
        /\ pc[r] \in {"submit", "invoke"} => next[r] <= Size(r)
        /\ pc[r] \in {"receive", "wait"} => r \notin Batches /\ next[r] = 2
        /\ pc[r] = "collect" => r \in Batches
        /\ pc[r] = "collect" /\ ~ctxDone[r] => next[r] = Size(r) + 1
        /\ pc[r] = "returned" /\ outcome[r] = "result" /\ ~ctxDone[r] =>
              next[r] = Size(r) + 1 /\ results[r] = {}

(* The lookups of a task run while its worker asks, for the providers of   *)
(* the request, and a detail is lost only if the context is done.          *)
Asking ==
    \A t \in Tasks, p \in Providers :
        /\ p \in details[t] => p \in using[t[1]]
        /\ worker[t] = "none" => details[t] = {} /\ lookup[t][p] = "none"
        /\ worker[t] = "asking" => lookup[t][p] # "none"
        /\ worker[t] \in {"answered", "done"} => lookup[t][p] = "done"
        /\ lookup[t][p] \in {"running", "sending"} => p \in using[t[1]]
        /\ ~ctxDone[t[1]] /\ worker[t] # "none" =>
              (p \in details[t] <=> p \in using[t[1]] /\ lookup[t][p] = "done")

(* A request that has not begun, has closed its channel or has returned    *)
(* has no worker.                                                          *)
Quiet ==
    /\ \A t \in Tasks : chanClosed[t[1]] \/ pc[t[1]] \in {"idle", "returned"} =>
          worker[t] \in {"none", "done"}
    /\ \A r \in Requests : chanClosed[r] => pc[r] \in {"collect", "returned"}

(* Results are of tasks that have answered, and a result is lost only if   *)
(* the context is done.                                                    *)
Answers ==
    /\ \A r \in Requests : \A t \in results[r] \cup rv[r] : t[1] = r
    /\ \A r \in Requests : r \notin Batches => results[r] = {}
    /\ \A t \in Tasks :
          /\ t \in results[t[1]] \cup rv[t[1]] => worker[t] \in {"answered", "done"}
          /\ ~ctxDone[t[1]] /\ worker[t] \in {"answered", "done"} =>
                t \in results[t[1]] \cup rv[t[1]]

(* The writer's side of rwmutex.                                           *)
Locked ==
    /\ closed <=> shutdown \in {"locked", "done"}
    /\ released <=> closed
    /\ ~closed => down = {}
    /\ closed => Readers = {}

IInv ==
    /\ Types
    /\ Submitted
    /\ Progress
    /\ Asking
    /\ Quiet
    /\ Answers
    /\ Locked
    /\ Counting

-----------------------------------------------------------------------------
(* The model's sets.                                                       *)

(* The parts of a task.                                                    *)
LEMMA TaskParts ==
    ASSUME NEW t \in Tasks
    PROVE  /\ t[1] \in Requests
           /\ t[2] \in 1..Size(t[1])
           /\ t = <<t[1], t[2]>>
BY SizesAssumption DEF Tasks, Size

(* Which IPs of a request are tasks.                                       *)
LEMMA TaskOfIP ==
    ASSUME NEW r \in Requests, NEW i \in 1..Size(r)
    PROVE  <<r, i>> \in Tasks
BY SizesAssumption DEF Tasks, Size

(* A request has at least one IP, and at most BatchSize.                   *)
LEMMA SizeBounds ==
    ASSUME NEW r \in Requests
    PROVE  Size(r) \in 1..BatchSize /\ (r \notin Batches => Size(r) = 1)
BY SizesAssumption DEF Size

(* No more than n tasks of a request come before its (n+1)-st IP.          *)
LEMMA TasksAreFinite ==
    ASSUME NEW r \in Requests, NEW n \in Nat, NEW S,
           S \subseteq {t \in TasksOf(r) : t[2] <= n}
    PROVE  IsFiniteSet(S) /\ Cardinality(S) \in Nat /\ Cardinality(S) <= n
<1> DEFINE f == [i \in 1..n |-> <<r, i>>]
           T == {<<r, i>> : i \in 1..n}
<1>1. f \in Surjection(1..n, T)
  BY DEF Surjection
<1>2. IsFiniteSet(1..n) /\ Cardinality(1..n) = n
  BY FS_Interval
<1>3. IsFiniteSet(T) /\ Cardinality(T) <= n
  BY <1>1, <1>2, FS_Surjection
<1>4. S \subseteq T
  BY TaskParts DEF TasksOf
<1>5. QED
  BY <1>3, <1>4, FS_Subset, FS_CardinalityType

-----------------------------------------------------------------------------
(* Every step preserves the invariant, part by part.                       *)

(* The kinds of steps.                                                     *)
LEMMA StepKinds ==
    ASSUME [Next]_vars
    PROVE  \/ \E r \in Requests, q \in Queries : Begin(r, q)
           \/ \E r \in Requests : ContextDone(r)
           \/ \E r \in Requests : Submit(r)
           \/ \E r \in Requests : Invoke(r)
           \/ \E r \in Requests : ResolveReturns(r)
           \/ \E r \in Requests : CloseResultChannel(r)
           \/ \E r \in Requests : Collect(r)
           \/ \E r \in Requests : ResolveAllReturns(r)
           \/ \E t \in Tasks : SendResult(t)
           \/ \E t \in Tasks : DropResult(t)
           \/ \E t \in Tasks : TaskDone(t)
           \/ \E t \in Tasks, p \in Providers : LookupReturns(t, p)
           \/ \E t \in Tasks, p \in Providers : SendDetail(t, p)
           \/ \E t \in Tasks, p \in Providers : DropDetail(t, p)
           \/ Shutdown
           \/ ShutdownLocks
           \/ ShutdownProvider
           \/ ShutdownUnlocks
           \/ UNCHANGED vars
BY DEF Next, RequestStep, TaskStep, LookupStep, ShutdownStep, Terminated

(* Wait returns only if the request has no worker and none to come.        *)
LEMMA WaitGroup ==
    ASSUME Counting, NEW r \in Requests
    PROVE  /\ IsFiniteSet(WorkersOf(r))
           /\ Cardinality(WorkersOf(r)) \in Nat
           /\ wg[r] = 0 => WorkersOf(r) = {}
           /\ WorkersOf(r) # {} => wg[r] - 1 \in Nat
<1>1. IsFiniteSet(WorkersOf(r)) /\ Cardinality(WorkersOf(r)) \in Nat
  BY TasksAreFinite, TaskParts, SizeBounds, SizesAssumption DEF WorkersOf, TasksOf
<1>2. Cardinality(WorkersOf(r)) = 0 <=> WorkersOf(r) = {}
  BY <1>1, FS_EmptySet
<1>3. wg[r] = Cardinality(WorkersOf(r)) + (IF pc[r] = "invoke" THEN 1 ELSE 0)
  BY DEF Counting
<1>4. QED
  BY <1>1, <1>2, <1>3

(* The types.                                                              *)
LEMMA TypesStep == IInv /\ [Next]_vars => Types'
<1> SUFFICES ASSUME IInv, [Next]_vars
             PROVE  Types'
  OBVIOUS
<1> USE DEF Types, Return, Goto, Locations, Busy
<1>0. Types
  BY DEF IInv
<1>1. ASSUME NEW r \in Requests, NEW q \in Queries, Begin(r, q)
      PROVE  Types'
  BY <1>0, <1>1 DEF Begin, GetProvidersToUse, taskVars, shutdownVars
<1>2. ASSUME NEW r \in Requests, ContextDone(r)
      PROVE  Types'
  BY <1>0, <1>2 DEF ContextDone, channelVars, taskVars, shutdownVars
<1>3. ASSUME NEW r \in Requests, Submit(r)
      PROVE  Types'
  <2>1. wg' \in [Requests -> Nat]
    BY <1>0, <1>3 DEF Submit
  <2>2. pc' \in [Requests -> Locations]
        /\ outcome' \in [Requests -> {"none", "result", "shutdown", "unknownProvider"}]
    BY <1>0, <1>3 DEF Submit
  <2>3. QED
    BY <1>0, <1>3, <2>1, <2>2 DEF Submit, taskVars, shutdownVars
<1>4. ASSUME NEW r \in Requests, Invoke(r)
      PROVE  Types'
  <2>1. next[r] + 1 \in 1..(BatchSize + 1)
    BY <1>0, <1>4, SizesAssumption, SizeBounds DEF Invoke, IInv, Progress
  <2>2. [p \in Providers |-> IF p \in using[r] THEN "running" ELSE "done"]
          \in [Providers -> {"none", "running", "sending", "done"}]
    OBVIOUS
  <2>3. pc' \in [Requests -> Locations] /\ next' \in [Requests -> 1..(BatchSize + 1)]
    BY <1>0, <1>4, <2>1 DEF Invoke
  <2>4. lookup' \in [Tasks -> [Providers -> {"none", "running", "sending", "done"}]]
    BY <1>0, <1>4, <2>2 DEF Invoke
  <2>5. worker' \in [Tasks -> {"none", "asking", "answered", "done"}]
    BY <1>0, <1>4 DEF Invoke
  <2>6. QED
    BY <1>0, <1>4, <2>3, <2>4, <2>5 DEF Invoke, channelVars, shutdownVars
<1>5. ASSUME NEW r \in Requests, ResolveReturns(r) \/ CloseResultChannel(r) \/ ResolveAllReturns(r)
      PROVE  Types'
  BY <1>0, <1>5 DEF ResolveReturns, CloseResultChannel, ResolveAllReturns,
       requestVars, taskVars, shutdownVars
<1>6. ASSUME NEW r \in Requests, Collect(r)
       PROVE  Types'
  <2>1. results' \in [Requests -> SUBSET Tasks] /\ rv' \in [Requests -> SUBSET Tasks]
    BY <1>0, <1>6 DEF Collect
  <2>2. QED
    BY <1>0, <1>6, <2>1 DEF Collect, requestVars, taskVars, shutdownVars
<1>7. ASSUME NEW t \in Tasks, SendResult(t) \/ DropResult(t)
      PROVE  Types'
  <2>1. t[1] \in Requests
    BY TaskParts
  <2>2. worker' \in [Tasks -> {"none", "asking", "answered", "done"}]
    <3>1. worker' = [worker EXCEPT ![t] = "answered"]
      BY <1>7 DEF SendResult, DropResult
    <3>2. QED
      BY <1>0, <3>1
  <2>3. pc' \in [Requests -> Locations]
    BY <1>0, <1>7, <2>1 DEF SendResult, DropResult, requestVars
  <2>4. results[t[1]] \cup {t} \in SUBSET Tasks /\ {t} \in SUBSET Tasks
    BY <1>0, <2>1
  <2>5. results' \in [Requests -> SUBSET Tasks]
    <3>1. UNCHANGED results \/ results' = [results EXCEPT ![t[1]] = @ \cup {t}]
      BY <1>7 DEF SendResult, DropResult, channelVars
    <3>2. QED
      BY <1>0, <2>4, <3>1
  <2>6. rv' \in [Requests -> SUBSET Tasks]
    <3>1. UNCHANGED rv \/ rv' = [rv EXCEPT ![t[1]] = {t}]
      BY <1>7 DEF SendResult, DropResult, channelVars
    <3>2. QED
      BY <1>0, <2>4, <3>1
  <2>7. QED
    BY <1>0, <1>7, <2>2, <2>3, <2>5, <2>6
       DEF SendResult, DropResult, requestVars, channelVars, shutdownVars
<1>8. ASSUME NEW t \in Tasks, TaskDone(t)
      PROVE  Types'
  <2>1. t \in WorkersOf(t[1])
    BY <1>8, TaskParts DEF WorkersOf, Workers, TasksOf, TaskDone
  <2>4. wg[t[1]] - 1 \in Nat
    BY <2>1, TaskParts, WaitGroup DEF IInv
  <2>5. wg' \in [Requests -> Nat]
    BY <1>0, <1>8, <2>4, TaskParts DEF TaskDone
  <2>6. worker' \in [Tasks -> {"none", "asking", "answered", "done"}]
    BY <1>0, <1>8 DEF TaskDone
  <2>7. QED
    BY <1>0, <1>8, <2>5, <2>6 DEF TaskDone, requestVars, shutdownVars
<1>9. ASSUME NEW t \in Tasks, NEW p \in Providers,
             LookupReturns(t, p) \/ SendDetail(t, p) \/ DropDetail(t, p)
      PROVE  Types'
  <2>1. PICK x \in {"sending", "done"} : lookup' = [lookup EXCEPT ![t][p] = x]
    BY <1>9 DEF LookupReturns, SendDetail, DropDetail
  <2>2. [lookup[t] EXCEPT ![p] = x] \in [Providers -> {"none", "running", "sending", "done"}]
    BY <1>0
  <2>3. lookup' \in [Tasks -> [Providers -> {"none", "running", "sending", "done"}]]
    BY <1>0, <2>1, <2>2
  <2>4. details' \in [Tasks -> SUBSET Providers]
    <3>1. UNCHANGED details \/ details' = [details EXCEPT ![t] = @ \cup {p}]
      BY <1>9 DEF LookupReturns, SendDetail, DropDetail
    <3>2. details[t] \cup {p} \in SUBSET Providers
      BY <1>0
    <3>3. QED
      BY <1>0, <3>1, <3>2
  <2>5. QED
    BY <1>0, <1>9, <2>3, <2>4
       DEF LookupReturns, SendDetail, DropDetail, requestVars, channelVars, shutdownVars
<1>10. CASE Shutdown \/ ShutdownLocks \/ ShutdownProvider \/ ShutdownUnlocks
  BY <1>0, <1>10 DEF Shutdown, ShutdownLocks, ShutdownProvider, ShutdownUnlocks,
       requestVars, channelVars, taskVars
<1>11. CASE UNCHANGED vars
  BY <1>0, <1>11 DEF vars, requestVars, channelVars, taskVars, shutdownVars
<1>12. QED
  BY <1>1, <1>2, <1>3, <1>4, <1>5, <1>6, <1>7, <1>8, <1>9, <1>10,
     <1>11, StepKinds

(* Only Invoke submits, and it submits the task of next.                   *)
LEMMA SubmittedStep == IInv /\ [Next]_vars => Submitted'
<1> SUFFICES ASSUME IInv, [Next]_vars
             PROVE  Submitted'
  OBVIOUS
<1>0. Types /\ Submitted /\ Progress
  BY DEF IInv
<1>1. CASE UNCHANGED <<next, worker>>
  BY <1>0, <1>1 DEF Submitted
<1>2. ASSUME NEW r \in Requests, Invoke(r)
      PROVE  Submitted'
  <2> SUFFICES ASSUME NEW t \in Tasks
               PROVE  worker'[t] = "none" <=> t[2] >= next'[t[1]]
    BY DEF Submitted
  <2>1. t[1] \in Requests /\ t[2] \in Nat /\ next[t[1]] \in Nat /\ t = <<t[1], t[2]>>
    BY <1>0, TaskParts, SizeBounds, SizesAssumption DEF Types
  <2>2. worker[t] = "none" <=> t[2] >= next[t[1]]
    BY <1>0 DEF Submitted
  <2>3. CASE t[1] # r
    BY <1>0, <1>2, <2>1, <2>2, <2>3 DEF Invoke, Types
  <2>4. CASE t[1] = r /\ t[2] = next[r]
    <3>1. <<r, next[r]>> = t
      BY <2>1, <2>4
    <3>2. worker'[t] = "asking" /\ next'[r] = next[r] + 1
      BY <1>0, <1>2, <3>1 DEF Invoke, Types
    <3>3. QED
      BY <2>1, <2>4, <3>2
  <2>5. CASE t[1] = r /\ t[2] # next[r]
    <3>1. <<r, next[r]>> # t
      BY <2>1, <2>5
    <3>2. worker'[t] = worker[t] /\ next'[r] = next[r] + 1
      BY <1>0, <1>2, <3>1 DEF Invoke, Types
    <3>3. QED
      BY <2>1, <2>2, <2>5, <3>2
  <2>6. QED
    BY <2>3, <2>4, <2>5
<1>3. ASSUME NEW t \in Tasks, SendResult(t) \/ DropResult(t) \/ TaskDone(t)
      PROVE  Submitted'
  BY <1>0, <1>3 DEF SendResult, DropResult, TaskDone, requestVars, Submitted, Types
<1>4. QED
  BY <1>1, <1>2, <1>3, StepKinds
     DEF Begin, ContextDone, Submit, ResolveReturns, CloseResultChannel, Collect,
         ResolveAllReturns, LookupReturns, SendDetail, DropDetail, Shutdown,
         ShutdownLocks, ShutdownProvider, ShutdownUnlocks, vars, requestVars, taskVars

(* A request leaves a location only when it is as far as the next one      *)
(* says.                                                                   *)
LEMMA ProgressStep == IInv /\ [Next]_vars => Progress'
<1> SUFFICES ASSUME IInv, [Next]_vars, NEW q \in Requests
             PROVE  Progress!(q)'
  BY DEF Progress
<1>0. Types /\ Progress!(q)
  BY DEF IInv, Progress
<1> USE SizeBounds
<1>1. CASE UNCHANGED <<pc, next, ctxDone, outcome, results>>
  BY <1>0, <1>1
<1>2. ASSUME NEW r \in Requests, NEW names \in Queries, Begin(r, names)
      PROVE  Progress!(q)'
  BY <1>0, <1>2 DEF Begin, Return, Goto, Types
<1>3. ASSUME NEW r \in Requests, ContextDone(r)
      PROVE  Progress!(q)'
  BY <1>0, <1>3 DEF ContextDone, channelVars, Types
<1>4. ASSUME NEW r \in Requests, Submit(r)
      PROVE  Progress!(q)'
  BY <1>0, <1>4 DEF Submit, Return, Goto, Types
<1>5. ASSUME NEW r \in Requests, Invoke(r)
      PROVE  Progress!(q)'
  BY <1>0, <1>5, SizesAssumption DEF Invoke, Goto, channelVars, Types, Size
<1>6. ASSUME NEW r \in Requests, ResolveReturns(r) \/ ResolveAllReturns(r)
      PROVE  Progress!(q)'
  BY <1>0, <1>6 DEF ResolveReturns, ResolveAllReturns, Return, Goto, Types, IInv, Answers
<1>7. ASSUME NEW r \in Requests, Collect(r)
      PROVE  Progress!(q)'
  BY <1>0, <1>7 DEF Collect, requestVars, Types
<1>8. ASSUME NEW t \in Tasks, SendResult(t)
      PROVE  Progress!(q)'
  <2>1. t[1] \in Requests /\ pc[t[1]] # "returned"
    BY <1>8, TaskParts DEF SendResult, IInv, Quiet
  <2>2. QED
    BY <1>0, <1>8, <2>1 DEF SendResult, Goto, Types
<1>9. QED
  BY <1>1, <1>2, <1>3, <1>4, <1>5, <1>6, <1>7, <1>8, StepKinds
     DEF CloseResultChannel, DropResult, TaskDone, LookupReturns, SendDetail, DropDetail,
         Shutdown, ShutdownLocks, ShutdownProvider, ShutdownUnlocks, vars, requestVars,
         channelVars

(* A lookup starts with its task, for a provider the request asks, and     *)
(* its detail is in before it is done unless the context is.               *)
LEMMA AskingStep == IInv /\ [Next]_vars => Asking'
<1> SUFFICES ASSUME IInv, [Next]_vars, NEW u \in Tasks, NEW z \in Providers
             PROVE  Asking!(u, z)'
  BY DEF Asking
<1>0. Types /\ Asking!(u, z) /\ u[1] \in Requests
  BY TaskParts DEF IInv, Asking
<1>1. CASE UNCHANGED <<using, ctxDone, worker, lookup, details>>
  BY <1>0, <1>1
<1>2. ASSUME NEW r \in Requests, NEW names \in Queries, Begin(r, names)
      PROVE  Asking!(u, z)'
  <2>1. u[1] = r => worker[u] = "none"
    BY <1>2, TaskParts, SizeBounds DEF Begin, IInv, Submitted, Progress
  <2>2. QED
    BY <1>0, <1>2, <2>1 DEF Begin, taskVars, Types
<1>3. ASSUME NEW r \in Requests, ContextDone(r)
      PROVE  Asking!(u, z)'
  BY <1>0, <1>3 DEF ContextDone, taskVars, Types
<1>4. ASSUME NEW r \in Requests, Invoke(r)
      PROVE  Asking!(u, z)'
  <2>1. CASE u = <<r, next[r]>>
    <3>1. worker[u] = "none"
      BY <1>0, <2>1, TaskParts, SizeBounds, SizesAssumption DEF IInv, Submitted, Types
    <3>2. worker'[u] = "asking"
          /\ lookup'[u][z] = (IF z \in using[r] THEN "running" ELSE "done")
      BY <1>0, <1>4, <2>1 DEF Invoke, Types
    <3>3. QED
      BY <1>0, <1>4, <2>1, <3>1, <3>2 DEF Invoke
  <2>2. CASE u # <<r, next[r]>>
    <3>1. worker'[u] = worker[u] /\ lookup'[u] = lookup[u]
      BY <1>0, <1>4, <2>2 DEF Invoke, Types
    <3>2. QED
      BY <1>0, <1>4, <3>1 DEF Invoke
  <2>3. QED
    BY <2>1, <2>2
<1>5. ASSUME NEW t \in Tasks, SendResult(t) \/ DropResult(t) \/ TaskDone(t)
      PROVE  Asking!(u, z)'
  BY <1>0, <1>5
     DEF SendResult, DropResult, TaskDone, TaskChannelClosed, requestVars, Types
<1>6. ASSUME NEW t \in Tasks, NEW p \in Providers,
             LookupReturns(t, p) \/ SendDetail(t, p) \/ DropDetail(t, p)
      PROVE  Asking!(u, z)'
  <2>1. CASE u # t
    <3>1. lookup'[u] = lookup[u] /\ details'[u] = details[u]
      BY <1>0, <1>6, <2>1 DEF LookupReturns, SendDetail, DropDetail, Types
    <3>2. QED
      BY <1>0, <1>6, <3>1 DEF LookupReturns, SendDetail, DropDetail, requestVars
  <2>2. CASE u = t /\ z # p
    <3>1. lookup'[u][z] = lookup[u][z]
          /\ (z \in details'[u] <=> z \in details[u])
          /\ (lookup[u][p] = "none" => details'[u] = details[u])
      BY <1>0, <1>6, <2>2 DEF LookupReturns, SendDetail, DropDetail, Types
    <3>2. worker[u] # "none"
      BY <1>6, <2>2 DEF IInv, Asking, LookupReturns, SendDetail, DropDetail
    <3>3. QED
      BY <1>0, <1>6, <3>1, <3>2 DEF LookupReturns, SendDetail, DropDetail, requestVars
  <2>3. CASE u = t /\ z = p
    <3>1. CASE LookupReturns(t, p)
      BY <1>0, <2>3, <3>1 DEF LookupReturns, requestVars, Types
    <3>2. CASE SendDetail(t, p)
      BY <1>0, <2>3, <3>2 DEF SendDetail, requestVars, Types
    <3>3. CASE DropDetail(t, p)
      BY <1>0, <2>3, <3>3 DEF DropDetail, requestVars, Types
    <3>4. QED
      BY <1>6, <3>1, <3>2, <3>3
  <2>4. QED
    BY <2>1, <2>2, <2>3
<1>7. QED
  BY <1>1, <1>2, <1>3, <1>4, <1>5, <1>6, StepKinds
     DEF Submit, ResolveReturns, CloseResultChannel, Collect, ResolveAllReturns,
         Shutdown, ShutdownLocks, ShutdownProvider, ShutdownUnlocks, vars, requestVars,
         taskVars

(* A request gets a worker only while it submits, and leaves only when it  *)
(* has none.                                                               *)
LEMMA QuietStep == IInv /\ [Next]_vars => Quiet'
<1> SUFFICES ASSUME IInv, [Next]_vars
             PROVE  Quiet'
  OBVIOUS
<1>0. Types /\ Quiet
  BY DEF IInv
<1>1. CASE UNCHANGED <<pc, chanClosed, worker>>
  BY <1>0, <1>1 DEF Quiet
<1>2. ASSUME NEW r \in Requests, NEW names \in Queries, Begin(r, names)
      PROVE  Quiet'
  BY <1>0, <1>2, TaskParts DEF Begin, Return, Goto, taskVars, Quiet, Types
<1>3. ASSUME NEW r \in Requests, Submit(r)
      PROVE  Quiet'
  <2>1. ASSUME NEW t \in TasksOf(r), r \notin Batches
        PROVE  worker[t] = "none"
    BY <1>3, <2>1, TaskParts, SizeBounds
       DEF TasksOf, Submit, IInv, Submitted, Progress, Types
  <2>2. UNCHANGED <<chanClosed, worker>>
    BY <1>3 DEF Submit, taskVars
  <2>3. \A q \in Requests : q # r => pc'[q] = pc[q]
    BY <1>0, <1>3 DEF Submit, Return, Goto, Types
  <2>4. /\ ~chanClosed[r]
        /\ pc'[r] \in {"collect", "invoke"} \/ (pc'[r] = "returned" /\ r \notin Batches)
    BY <1>0, <1>3 DEF Submit, Return, Goto, Quiet, Types
  <2>5. QED
    BY <1>0, <2>1, <2>2, <2>3, <2>4, TaskParts DEF TasksOf, Quiet
<1>4. ASSUME NEW r \in Requests, Invoke(r)
      PROVE  Quiet'
  BY <1>0, <1>4, TaskParts DEF Invoke, Goto, channelVars, Quiet, Types
<1>5. ASSUME NEW r \in Requests, ResolveReturns(r) \/ CloseResultChannel(r)
      PROVE  Quiet'
  <2>1. \A t \in Tasks : t[1] = r => worker[t] \in {"none", "done"}
    BY <1>0, <1>5, WaitGroup
       DEF ResolveReturns, CloseResultChannel, IInv, WorkersOf, Workers, TasksOf, Types
  <2>2. QED
    BY <1>0, <1>5, <2>1, TaskParts
       DEF ResolveReturns, CloseResultChannel, Return, Goto, requestVars, taskVars, Quiet,
           Types
<1>6. ASSUME NEW r \in Requests, ResolveAllReturns(r)
      PROVE  Quiet'
  BY <1>0, <1>6, TaskParts DEF ResolveAllReturns, Return, Goto, taskVars, Quiet, Types
<1>7. ASSUME NEW t \in Tasks, SendResult(t) \/ DropResult(t) \/ TaskDone(t)
      PROVE  Quiet'
  <2>1. t[1] \in Requests
    BY TaskParts
  <2>2. \A u \in Tasks : worker[u] \in {"none", "done"} => worker'[u] \in {"none", "done"}
    BY <1>0, <1>7 DEF SendResult, DropResult, TaskDone, Types
  <2>3. \A r \in Requests : pc'[r] # pc[r] => pc[r] = "receive" /\ pc'[r] = "wait"
    BY <1>0, <1>7, <2>1 DEF SendResult, DropResult, TaskDone, Goto, requestVars, Types
  <2>4. UNCHANGED chanClosed
    BY <1>7 DEF SendResult, DropResult, TaskDone, channelVars
  <2>5. QED
    BY <1>0, <2>2, <2>3, <2>4, TaskParts DEF Quiet
<1>8. QED
  BY <1>1, <1>2, <1>3, <1>4, <1>5, <1>6, <1>7, StepKinds
     DEF ContextDone, Collect, LookupReturns, SendDetail, DropDetail, Shutdown,
         ShutdownLocks, ShutdownProvider, ShutdownUnlocks, vars, requestVars,
         channelVars, taskVars

(* A result is sent before its worker has answered, and moves from the     *)
(* channel to the returned ones.                                           *)
LEMMA AnswersStep == IInv /\ [Next]_vars => Answers'
<1> SUFFICES ASSUME IInv, [Next]_vars
             PROVE  Answers'
  OBVIOUS
<1>0. Types /\ Answers
  BY DEF IInv
<1>1. CASE UNCHANGED <<ctxDone, results, rv, worker>>
  BY <1>0, <1>1 DEF Answers
<1>2. ASSUME NEW r \in Requests, ContextDone(r)
      PROVE  Answers'
  BY <1>0, <1>2, TaskParts DEF ContextDone, channelVars, taskVars, Answers, Types
<1>3. ASSUME NEW r \in Requests, Invoke(r)
      PROVE  Answers'
  <2>1. ASSUME NEW t \in Tasks
        PROVE  worker'[t] \in {"answered", "done"} <=> worker[t] \in {"answered", "done"}
    <3>1. CASE t = <<r, next[r]>>
      <4>1. worker[t] = "none"
        BY <1>0, <3>1, TaskParts, SizeBounds, SizesAssumption DEF IInv, Submitted, Types
      <4>2. worker'[t] = "asking"
        BY <1>0, <1>3, <3>1 DEF Invoke, Types
      <4>3. QED
        BY <4>1, <4>2
    <3>2. CASE t # <<r, next[r]>>
      BY <1>0, <1>3, <3>2 DEF Invoke, Types
    <3>3. QED
      BY <3>1, <3>2
  <2>2. QED
    BY <1>0, <1>3, <2>1 DEF Invoke, channelVars, Answers
<1>4. ASSUME NEW r \in Requests, Collect(r)
      PROVE  Answers'
  <2>1. \A q \in Requests : results'[q] \cup rv'[q] = results[q] \cup rv[q]
                            /\ results'[q] \subseteq results[q]
    BY <1>0, <1>4 DEF Collect, Types
  <2>2. QED
    BY <1>0, <1>4, <2>1, TaskParts DEF Collect, requestVars, taskVars, Answers
<1>5. ASSUME NEW t \in Tasks, SendResult(t)
      PROVE  Answers'
  <2>1. t[1] \in Requests
    BY TaskParts
  <2>2. \A q \in Requests : results'[q] \cup rv'[q] \subseteq results[q] \cup rv[q] \cup {t}
                            /\ (q # t[1] => results'[q] = results[q] /\ rv'[q] = rv[q])
    BY <1>0, <1>5, <2>1 DEF SendResult, Types
  <2>3. t \in results'[t[1]] \cup rv'[t[1]]
    BY <1>0, <1>5, <2>1 DEF SendResult, Types
  <2>4. t[1] \notin Batches => rv[t[1]] = {} /\ results'[t[1]] = {}
    <3>1. SUFFICES ASSUME t[1] \notin Batches
                   PROVE  rv[t[1]] = {} /\ results'[t[1]] = {}
      OBVIOUS
    <3>2. \A u \in Tasks : u[1] = t[1] => u = t
      BY <3>1, TaskParts, SizeBounds
    <3>3. t \notin rv[t[1]]
      BY <1>0, <1>5 DEF Answers, SendResult
    <3>4. rv[t[1]] = {}
      <4>1. \A u \in rv[t[1]] : u \in Tasks /\ u[1] = t[1]
        BY <1>0, <2>1 DEF Answers, Types
      <4>2. QED
        BY <3>2, <3>3, <4>1
    <3>5. QED
      BY <1>0, <1>5, <2>1, <3>1, <3>4 DEF Answers, SendResult
  <2>5. \A q \in Requests : results[q] \cup rv[q] \subseteq results'[q] \cup rv'[q]
    <3>1. CASE t[1] \in Batches
      BY <1>0, <1>5, <2>1, <3>1 DEF SendResult, Types
    <3>2. CASE t[1] \notin Batches
      BY <1>0, <1>5, <2>1, <2>2, <2>4, <3>2 DEF SendResult, Answers
    <3>3. QED
      BY <3>1, <3>2
  <2>6. \A u \in Tasks : worker'[u] = IF u = t THEN "answered" ELSE worker[u]
    BY <1>0, <1>5 DEF SendResult, Types
  <2>7. UNCHANGED ctxDone
    BY <1>5 DEF SendResult
  <2>8. ASSUME NEW q \in Requests, NEW u \in results'[q] \cup rv'[q]
        PROVE  u[1] = q
    BY <1>0, <2>2, <2>8 DEF Answers
  <2>9. ASSUME NEW q \in Requests, q \notin Batches
        PROVE  results'[q] = {}
    BY <1>0, <2>2, <2>4, <2>9 DEF Answers
  <2>10. ASSUME NEW u \in Tasks
         PROVE  /\ u \in results'[u[1]] \cup rv'[u[1]] => worker'[u] \in {"answered", "done"}
                /\ ~ctxDone'[u[1]] /\ worker'[u] \in {"answered", "done"} =>
                      u \in results'[u[1]] \cup rv'[u[1]]
    <3>1. u[1] \in Requests
      BY TaskParts
    <3>2. CASE u = t
      BY <2>3, <2>6, <3>2
    <3>3. CASE u # t
      BY <1>0, <2>2, <2>5, <2>6, <2>7, <3>1, <3>3 DEF Answers
    <3>4. QED
      BY <3>2, <3>3
  <2>11. QED
    BY <2>8, <2>9, <2>10 DEF Answers
<1>6. ASSUME NEW t \in Tasks, DropResult(t)
      PROVE  Answers'
  BY <1>0, <1>6 DEF DropResult, requestVars, channelVars, Answers, Types
<1>7. ASSUME NEW t \in Tasks, TaskDone(t)
      PROVE  Answers'
  BY <1>0, <1>7 DEF TaskDone, requestVars, Answers, Types
<1>8. QED
  BY <1>1, <1>2, <1>3, <1>4, <1>5, <1>6, <1>7, StepKinds
     DEF Begin, Submit, ResolveReturns, CloseResultChannel, ResolveAllReturns,
         LookupReturns, SendDetail, DropDetail, Shutdown, ShutdownLocks,
         ShutdownProvider, ShutdownUnlocks, vars, requestVars, channelVars, taskVars

(* Nobody becomes a reader while the writer holds the mutex, and it takes  *)
(* it when there is none.                                                  *)
LEMMA LockedStep == IInv /\ [Next]_vars => Locked'
<1> SUFFICES ASSUME IInv, [Next]_vars
             PROVE  Locked'
  OBVIOUS
<1>0. Types /\ Locked
  BY DEF IInv
<1>1. ASSUME UNCHANGED shutdownVars,
             ~closed => shutdown \notin {"locked", "done"},
             closed => \A r \in Requests : pc'[r] \in Busy => pc[r] \in Busy
      PROVE  Locked'
  BY <1>0, <1>1 DEF Locked, shutdownVars, Readers
<1>2. CASE Shutdown \/ ShutdownLocks \/ ShutdownProvider \/ ShutdownUnlocks
  BY <1>0, <1>2
     DEF Shutdown, ShutdownLocks, ShutdownProvider, ShutdownUnlocks, requestVars, Locked,
         Readers, Types
<1>3. ~closed => shutdown \notin {"locked", "done"}
  BY <1>0 DEF Locked
<1>4. ASSUME NEW t \in Tasks, SendResult(t)
      PROVE  Locked'
  BY <1>0, <1>1, <1>3, <1>4, TaskParts DEF SendResult, Goto, Busy, Types
<1>5. ASSUME NEW r \in Requests, NEW names \in Queries, Begin(r, names)
      PROVE  Locked'
  BY <1>0, <1>1, <1>3, <1>5 DEF Begin, Return, Goto, Busy, shutdownVars, Types
<1>6. ASSUME NEW r \in Requests, RequestStep(r)
      PROVE  Locked'
  BY <1>0, <1>1, <1>3, <1>6
     DEF RequestStep, Submit, Invoke, ResolveReturns, CloseResultChannel, Collect,
         ResolveAllReturns, Return, Goto, Busy, requestVars, shutdownVars, Types
<1>7. CASE UNCHANGED <<pc, shutdownVars>>
  BY <1>1, <1>3, <1>7
<1>8. QED
  BY <1>2, <1>4, <1>5, <1>6, <1>7, StepKinds
     DEF ContextDone, DropResult, TaskDone, LookupReturns, SendDetail, DropDetail,
         RequestStep, vars, requestVars

(* wg.Add, Invoke and wg.Done keep the count right between them.           *)
LEMMA CountingStep == IInv /\ [Next]_vars => Counting'
<1> SUFFICES ASSUME IInv, [Next]_vars, NEW q \in Requests
             PROVE  Counting!(q)'
  BY DEF Counting
<1>0. Types /\ Counting!(q)
  BY DEF IInv, Counting
<1>1. IsFiniteSet(WorkersOf(q)) /\ Cardinality(WorkersOf(q)) \in Nat
  BY WaitGroup DEF IInv
<1>2. ASSUME WorkersOf(q)' = WorkersOf(q), wg'[q] = wg[q],
             pc'[q] = "invoke" <=> pc[q] = "invoke"
      PROVE  Counting!(q)'
  BY <1>0, <1>2
<1>3. UNCHANGED worker => WorkersOf(q)' = WorkersOf(q)
  BY DEF WorkersOf, Workers
<1>4. ASSUME NEW r \in Requests, NEW names \in Queries, Begin(r, names)
      PROVE  Counting!(q)'
  BY <1>0, <1>2, <1>3, <1>4 DEF Begin, Return, Goto, taskVars, Types
<1>5. ASSUME NEW r \in Requests, Submit(r)
      PROVE  Counting!(q)'
  <2>1. CASE ctxDone[r] \/ r # q
    BY <1>0, <1>2, <1>3, <1>5, <2>1 DEF Submit, Return, Goto, taskVars, Types
  <2>2. CASE ~ctxDone[r] /\ r = q
    BY <1>0, <1>1, <1>3, <1>5, <2>2 DEF Submit, Goto, taskVars, Types
  <2>3. QED
    BY <2>1, <2>2
<1>6. ASSUME NEW r \in Requests, Invoke(r)
      PROVE  Counting!(q)'
  <2> DEFINE t == <<r, next[r]>>
  <2>1. t \in Tasks /\ t[1] = r /\ t[2] = next[r]
    BY <1>0, <1>6, TaskOfIP, SizeBounds, SizesAssumption DEF Invoke, IInv, Progress, Types
  <2>2. worker[t] = "none"
    BY <1>0, <2>1, SizesAssumption DEF IInv, Submitted, Types
  <2>3. \A u \in Tasks : worker'[u] = IF u = t THEN "asking" ELSE worker[u]
    BY <1>0, <1>6 DEF Invoke, Types
  <2>4. CASE r # q
    <3>1. WorkersOf(q)' = WorkersOf(q)
      BY <2>1, <2>3, <2>4 DEF WorkersOf, Workers, TasksOf
    <3>2. QED
      BY <1>0, <1>2, <1>6, <2>4, <3>1 DEF Invoke, Goto, channelVars, Types
  <2>5. CASE r = q
    <3>1. WorkersOf(q)' = WorkersOf(q) \cup {t} /\ t \notin WorkersOf(q)
      BY <2>1, <2>2, <2>3, <2>5 DEF WorkersOf, Workers, TasksOf
    <3>2. Cardinality(WorkersOf(q)') = Cardinality(WorkersOf(q)) + 1
      BY <1>1, <3>1, FS_AddElement
    <3>3. pc'[q] # "invoke" /\ pc[q] = "invoke" /\ wg'[q] = wg[q]
      BY <1>0, <1>6, <2>5 DEF Invoke, Goto, channelVars, Types
    <3>4. QED
      BY <1>0, <1>1, <3>2, <3>3
  <2>6. QED
    BY <2>4, <2>5
<1>7. ASSUME NEW r \in Requests,
             ResolveReturns(r) \/ CloseResultChannel(r) \/ Collect(r) \/ ResolveAllReturns(r)
      PROVE  Counting!(q)'
  BY <1>0, <1>2, <1>3, <1>7
     DEF ResolveReturns, CloseResultChannel, Collect, ResolveAllReturns, Return, Goto,
         requestVars, taskVars, Types
<1>8. ASSUME NEW t \in Tasks, SendResult(t) \/ DropResult(t)
      PROVE  Counting!(q)'
  <2>1. \A u \in Tasks : worker'[u] \in {"asking", "answered"}
                           <=> worker[u] \in {"asking", "answered"}
    BY <1>0, <1>8 DEF SendResult, DropResult, Types
  <2>2. WorkersOf(q)' = WorkersOf(q)
    BY <2>1 DEF WorkersOf, Workers
  <2>3. QED
    BY <1>0, <1>2, <1>8, <2>2, TaskParts
       DEF SendResult, DropResult, Goto, requestVars, channelVars, Types
<1>9. ASSUME NEW t \in Tasks, TaskDone(t)
      PROVE  Counting!(q)'
  <2>1. t[1] \in Requests
    BY TaskParts
  <2>2. \A u \in Tasks : worker'[u] = IF u = t THEN "done" ELSE worker[u]
    BY <1>0, <1>9 DEF TaskDone, Types
  <2>3. CASE t[1] # q
    <3>1. WorkersOf(q)' = WorkersOf(q)
      BY <2>2, <2>3 DEF WorkersOf, Workers, TasksOf
    <3>2. QED
      BY <1>0, <1>2, <1>9, <2>1, <2>3, <3>1 DEF TaskDone, requestVars, Types
  <2>4. CASE t[1] = q
    <3>1. WorkersOf(q)' = WorkersOf(q) \ {t} /\ t \in WorkersOf(q)
      BY <1>9, <2>2, <2>4 DEF WorkersOf, Workers, TasksOf, TaskDone
    <3>2. Cardinality(WorkersOf(q)') = Cardinality(WorkersOf(q)) - 1
      BY <1>1, <3>1, FS_RemoveElement
    <3>3. pc'[q] = pc[q] /\ wg'[q] = wg[q] - 1
      BY <1>0, <1>9, <2>4 DEF TaskDone, requestVars, Types
    <3>4. QED
      BY <1>0, <1>1, <3>2, <3>3
  <2>5. QED
    BY <2>3, <2>4
<1>10. CASE UNCHANGED <<pc, wg, worker>>
  BY <1>0, <1>2, <1>3, <1>10
<1>11. QED
  BY <1>4, <1>5, <1>6, <1>7, <1>8, <1>9, <1>10, StepKinds
     DEF ContextDone, LookupReturns, SendDetail, DropDetail, Shutdown, ShutdownLocks,
         ShutdownProvider, ShutdownUnlocks, vars, requestVars, channelVars, taskVars

-----------------------------------------------------------------------------
(* The invariant holds, and what follows from it.                          *)

(* It holds before the first request.                                      *)
LEMMA InitIInv == Init => IInv
<1> SUFFICES ASSUME Init
             PROVE  IInv
  OBVIOUS
<1>1. Types
  <2>1. 1 \in 1..(BatchSize + 1)
    BY SizesAssumption
  <2>2. next \in [Requests -> 1..(BatchSize + 1)] /\ wg \in [Requests -> Nat]
    BY <2>1 DEF Init
  <2>3. lookup \in [Tasks -> [Providers -> {"none", "running", "sending", "done"}]]
    BY DEF Init
  <2>4. QED
    BY <2>2, <2>3 DEF Init, Types, Locations, Busy
<1>2. Submitted
  BY TaskParts, SizeBounds, SizesAssumption DEF Init, Submitted
<1>3. Progress
  BY SizeBounds, SizesAssumption DEF Init, Progress
<1>4. Asking /\ Quiet /\ Answers
  BY TaskParts DEF Init, Asking, Quiet, Answers
<1>5. Locked
  BY DEF Init, Locked, Readers, Busy
<1>6. \A r \in Requests : WorkersOf(r) = {}
  BY DEF Init, WorkersOf, Workers
<1>7. Counting
  <2>1. \A r \in Requests : Cardinality(WorkersOf(r)) = 0
    BY <1>6, FS_EmptySet
  <2>2. QED
    BY <2>1 DEF Init, Counting
<1>8. QED
  BY <1>1, <1>2, <1>3, <1>4, <1>5, <1>7 DEF IInv

(* Every step preserves it.                                                *)
LEMMA StepIInv == IInv /\ [Next]_vars => IInv'
BY TypesStep, SubmittedStep, ProgressStep, AskingStep, QuietStep, AnswersStep, LockedStep,
   CountingStep DEF IInv

(* The inductive invariant holds in every state.                           *)
THEOREM Invariance == Spec => []IInv
BY InitIInv, StepIInv, PTL DEF Spec

(* The types, and the WaitGroup never counts more than the IPs.            *)
LEMMA IInvTypeOK == IInv => TypeOK
<1> SUFFICES ASSUME IInv, NEW r \in Requests
             PROVE  wg[r] <= Size(r)
  BY DEF IInv, TypeOK
<1>1. next[r] \in Nat /\ next[r] >= 1 /\ next[r] - 1 \in Nat /\ Size(r) \in Nat
  BY SizesAssumption, SizeBounds DEF IInv, Types
<1>2. WorkersOf(r) \subseteq {t \in TasksOf(r) : t[2] <= next[r] - 1}
  BY <1>1, TaskParts, SizeBounds, SizesAssumption
     DEF IInv, Submitted, WorkersOf, Workers, TasksOf
<1>3. Cardinality(WorkersOf(r)) \in Nat /\ Cardinality(WorkersOf(r)) <= next[r] - 1
  BY <1>1, <1>2, TasksAreFinite
<1>4. next[r] <= Size(r) + 1 /\ (pc[r] = "invoke" => next[r] <= Size(r))
  BY DEF IInv, Progress
<1>5. wg[r] = Cardinality(WorkersOf(r)) + (IF pc[r] = "invoke" THEN 1 ELSE 0)
  BY DEF IInv, Counting
<1>6. QED
  BY <1>1, <1>3, <1>4, <1>5

(* Each WaitGroup counts exactly the tasks that were submitted and are not *)
(* done, and every variable has its type.                                  *)
THEOREM WaitGroupsCount == Spec => []TypeOK
BY Invariance, IInvTypeOK, PTL

(* A running lookup belongs to a request that holds the mutex.             *)
LEMMA LookupHasReader ==
    ASSUME IInv, NEW t \in Tasks, NEW p \in Providers,
           lookup[t][p] \in {"running", "sending"}
    PROVE  t[1] \in Readers /\ worker[t] = "asking"
<1>1. worker[t] = "asking"
  BY DEF IInv, Asking, Types
<1>2. t[1] \in Requests /\ pc[t[1]] \notin {"idle", "returned"}
  BY <1>1, TaskParts DEF IInv, Quiet
<1>3. QED
  BY <1>1, <1>2 DEF IInv, Types, Locations, Readers

(* Shutdown never releases the pool or a provider under a request: nothing *)
(* is submitted or asked after it.                                         *)
THEOREM ShutdownIsSafe == Spec => []NothingAfterShutdown
<1>1. IInv => NothingAfterShutdown
  BY LookupHasReader DEF IInv, Locked, NothingAfterShutdown, Readers, Busy
<1>2. QED
  BY <1>1, Invariance, PTL

(* A request whose channel is closed, or that has returned, is quiet.      *)
LEMMA IInvNothingOutlives == IInv => NothingOutlivesRequest
BY TaskParts DEF IInv, Quiet, Asking, Types, NothingOutlivesRequest

(* No task sends on a closed result channel, and no task and no lookup     *)
(* outlives the Resolve or ResolveAll that started it.                     *)
THEOREM TasksEndFirst == Spec => []NothingOutlivesRequest
BY IInvNothingOutlives, Invariance, PTL

(* A request whose context is not done returns a result for each of its    *)
(* IPs, with a detail of each provider that it asked.                      *)
ResultsAreComplete ==
    \A r \in Requests :
        pc[r] = "returned" /\ outcome[r] = "result" /\ ~ctxDone[r] =>
            /\ rv[r] = TasksOf(r)
            /\ \A t \in rv[r] : details[t] = using[r]

(* All tasks were submitted, and none has lost its result or a detail.     *)
LEMMA IInvComplete == IInv => ResultsAreComplete
<1> SUFFICES ASSUME IInv, NEW r \in Requests, pc[r] = "returned", outcome[r] = "result",
                    ~ctxDone[r]
             PROVE  /\ rv[r] = TasksOf(r)
                    /\ \A t \in rv[r] : details[t] = using[r]
  BY DEF ResultsAreComplete
<1>1. next[r] = Size(r) + 1 /\ results[r] = {}
  BY DEF IInv, Progress
<1>2. ASSUME NEW t \in TasksOf(r)
      PROVE  worker[t] = "done"
  BY <1>1, <1>2, TaskParts, SizeBounds, SizesAssumption
     DEF IInv, Submitted, Quiet, TasksOf, Types
<1>3. rv[r] = TasksOf(r)
  BY <1>1, <1>2 DEF IInv, Answers, TasksOf, Types
<1>4. ASSUME NEW t \in TasksOf(r)
      PROVE  details[t] = using[r]
  <2>1. t \in Tasks /\ t[1] = r /\ details[t] \subseteq Providers /\ using[r] \subseteq Providers
    BY DEF TasksOf, IInv, Types
  <2>2. \A p \in Providers : p \in details[t] <=> p \in using[r]
    BY <1>2, <2>1 DEF IInv, Asking
  <2>3. QED
    BY <2>1, <2>2
<1>5. QED
  BY <1>3, <1>4

(* Resolve and ResolveAll return a result for each IP with a detail of     *)
(* each provider that was asked, unless the context is done.               *)
THEOREM Completeness == Spec => []ResultsAreComplete
BY IInvComplete, Invariance, PTL

(* What a request that has returned leaves behind is not touched again.    *)
ReturnedIsFinal ==
    \A r \in Requests : pc[r] = "returned" =>
        /\ pc'[r] = "returned"
        /\ UNCHANGED <<outcome[r], rv[r], using[r], ctxDone[r]>>
        /\ \A t \in TasksOf(r) : UNCHANGED <<details[t], lookup[t]>>

(* No step of a goroutine reaches into what was returned.                  *)
LEMMA ReturnedStep == IInv /\ [Next]_vars => ReturnedIsFinal
<1> SUFFICES ASSUME IInv, [Next]_vars, NEW r \in Requests, pc[r] = "returned"
             PROVE  ReturnedIsFinal!(r)!2
  BY DEF ReturnedIsFinal
<1>0. Types
  BY DEF IInv
<1>1. \A t \in TasksOf(r) : worker[t] \in {"none", "done"}
  BY DEF IInv, Quiet, TasksOf
<1>2. ASSUME NEW t \in Tasks, NEW p \in Providers, lookup[t][p] \in {"running", "sending"}
      PROVE  t[1] # r
  BY <1>2, LookupHasReader DEF Readers, Busy
<1>3. ASSUME NEW q \in Requests, NEW names \in Queries, Begin(q, names)
      PROVE  ReturnedIsFinal!(r)!2
  BY <1>0, <1>3 DEF Begin, Return, Goto, taskVars, Types
<1>4. ASSUME NEW q \in Requests, ContextDone(q)
      PROVE  ReturnedIsFinal!(r)!2
  BY <1>0, <1>4 DEF ContextDone, channelVars, taskVars, Busy, Types
<1>5. ASSUME NEW q \in Requests,
             Submit(q) \/ ResolveReturns(q) \/ CloseResultChannel(q) \/ Collect(q)
               \/ ResolveAllReturns(q)
      PROVE  ReturnedIsFinal!(r)!2
  BY <1>0, <1>5
     DEF Submit, ResolveReturns, CloseResultChannel, Collect, ResolveAllReturns, Return,
         Goto, requestVars, taskVars, Types
<1>6. ASSUME NEW q \in Requests, Invoke(q)
      PROVE  ReturnedIsFinal!(r)!2
  <2>1. q # r
    BY <1>6 DEF Invoke
  <2>2. \A t \in TasksOf(r) : t # <<q, next[q]>>
    BY <2>1 DEF TasksOf
  <2>3. \A t \in TasksOf(r) : lookup'[t] = lookup[t]
    BY <1>0, <1>6, <2>2 DEF Invoke, Types, TasksOf
  <2>4. QED
    BY <1>0, <1>6, <2>1, <2>3 DEF Invoke, Goto, channelVars, Types
<1>7. ASSUME NEW t \in Tasks, SendResult(t) \/ DropResult(t) \/ TaskDone(t)
      PROVE  ReturnedIsFinal!(r)!2
  <2>1. t[1] \in Requests
    BY TaskParts
  <2>2. t[1] = r => worker[t] \in {"none", "done"}
    BY <1>1 DEF TasksOf
  <2>3. t[1] # r
    BY <1>7, <2>2 DEF SendResult, DropResult, TaskDone
  <2>4. QED
    BY <1>0, <1>7, <2>1, <2>3
       DEF SendResult, DropResult, TaskDone, Goto, requestVars, channelVars, Types
<1>8. ASSUME NEW t \in Tasks, NEW p \in Providers,
             LookupReturns(t, p) \/ SendDetail(t, p) \/ DropDetail(t, p)
      PROVE  ReturnedIsFinal!(r)!2
  <2>1. t[1] # r
    BY <1>2, <1>8 DEF LookupReturns, SendDetail, DropDetail
  <2>2. \A u \in TasksOf(r) : details'[u] = details[u] /\ lookup'[u] = lookup[u]
    BY <1>0, <1>8, <2>1 DEF LookupReturns, SendDetail, DropDetail, Types, TasksOf
  <2>3. QED
    BY <1>8, <2>2 DEF LookupReturns, SendDetail, DropDetail, requestVars, channelVars
<1>9. CASE UNCHANGED <<requestVars, channelVars, taskVars>>
  BY <1>9 DEF requestVars, channelVars, taskVars
<1>10. QED
  BY <1>3, <1>4, <1>5, <1>6, <1>7, <1>8, <1>9, StepKinds
     DEF Shutdown, ShutdownLocks, ShutdownProvider, ShutdownUnlocks, vars

(* Once Resolve or ResolveAll has returned, none of its goroutines changes *)
(* its results, their details or the state of a lookup: the caller may use *)
(* them without a lock.                                                    *)
THEOREM ResultsAreFinal == Spec => [][ReturnedIsFinal]_vars
<1>1. IInv /\ [Next]_vars => [ReturnedIsFinal]_vars
  BY ReturnedStep
<1>2. QED
  BY <1>1, Invariance, PTL DEF Spec

-----------------------------------------------------------------------------
(* The refinement: what a caller sees is RequestContract.                  *)

(* A request that has not begun has no result.                             *)
LEMMA IdleHasNoResult ==
    ASSUME IInv, NEW r \in Requests, pc[r] = "idle"
    PROVE  rv[r] = {}
<1>1. \A t \in rv[r] : t \in Tasks /\ t[1] = r /\ worker[t] \in {"answered", "done"}
  BY DEF IInv, Types, Answers
<1>2. \A t \in Tasks : t[1] = r => worker[t] = "none"
  BY TaskParts, SizeBounds DEF IInv, Submitted, Progress
<1>3. QED
  BY <1>1, <1>2

(* The answer of a call changes only when it returns.                      *)
LEMMA AnsweredStep ==
    ASSUME IInv, [Next]_vars, NEW q \in Requests, pc[q] = "returned" \/ pc'[q] # "returned"
    PROVE  Answered'[q] = Answered[q]
<1>1. CASE pc[q] = "returned"
  <2>1. pc'[q] = "returned" /\ rv'[q] = rv[q] /\ \A t \in TasksOf(q) : details'[t] = details[t]
    BY <1>1, ReturnedStep DEF ReturnedIsFinal
  <2>2. \A t \in rv[q] : t \in TasksOf(q)
    BY DEF IInv, Types, Answers, TasksOf
  <2>3. QED
    BY <1>1, <2>1, <2>2 DEF Answered
<1>2. CASE pc[q] # "returned" /\ pc'[q] # "returned"
  BY <1>2 DEF Answered
<1>3. QED
  BY <1>1, <1>2

(* A step between two locations of a call is not seen.                     *)
LEMMA UnseenStep ==
    ASSUME IInv, [Next]_vars, UNCHANGED <<using, ctxDone, outcome, Service>>,
           \A q \in Requests : pc'[q] = pc[q] \/ (pc[q] \in Busy /\ pc'[q] \in Busy)
    PROVE  UNCHANGED Contract!vars
<1>1. CallState' = CallState
  BY DEF CallState
<1>2. \A q \in Requests : Answered'[q] = Answered[q]
  BY AnsweredStep DEF Busy
<1>3. Answered' = Answered
  BY <1>2 DEF Answered
<1>4. QED
  BY <1>1, <1>3 DEF Contract!vars

(* Only one call is seen to move.                                          *)
LEMMA SeenStep ==
    ASSUME IInv, [Next]_vars, NEW r \in Requests, NEW l \in Locations, Goto(r, l)
    PROVE  /\ CallState' = [CallState EXCEPT ![r] = IF l \in Busy THEN "asked" ELSE l]
           /\ Answered' = [Answered EXCEPT ![r] = Answered'[r]]
<1>0. Types
  BY DEF IInv
<1>1. pc' = [pc EXCEPT ![r] = l]
  BY DEF Goto
<1>2. CallState' = [CallState EXCEPT ![r] = IF l \in Busy THEN "asked" ELSE l]
  BY <1>0, <1>1 DEF CallState, Types
<1>3. \A q \in Requests : q # r => Answered'[q] = Answered[q]
  BY <1>0, <1>1, AnsweredStep DEF Types
<1>4. Answered' = [Answered EXCEPT ![r] = Answered'[r]]
  <2>1. /\ Answered = [q \in Requests |-> Answered[q]]
        /\ Answered' = [q \in Requests |-> Answered'[q]]
    BY DEF Answered
  <2>2. QED
    BY <1>3, <2>1
<1>5. QED
  BY <1>2, <1>4

(* What is returned is complete unless the context is done.                *)
LEMMA AnswerSeen ==
    ASSUME IInv, [Next]_vars, NEW r \in Requests, pc[r] \in Busy, Return(r, "result"),
           UNCHANGED <<using, ctxDone, rv, details, shutdown>>
    PROVE  Contract!Answer(r)
<1> DEFINE a == [t \in rv[r] |-> details[t]]
<1>0. Types /\ IInv' /\ pc' = [pc EXCEPT ![r] = "returned"] /\ Goto(r, "returned")
  BY StepIInv DEF IInv, Return, Goto
<1>1. pc'[r] = "returned" /\ outcome' = [outcome EXCEPT ![r] = "result"]
  BY <1>0 DEF Return, Types
<1>2. Answered'[r] = a
  BY <1>1 DEF Answered
<1>3. /\ CallState' = [CallState EXCEPT ![r] = "returned"]
      /\ Answered' = [Answered EXCEPT ![r] = a]
  BY <1>0, <1>2, SeenStep DEF Locations, Busy
<1>4. CallState[r] = "asked"
  BY DEF CallState
<1>5. rv[r] \subseteq TasksOf(r) /\ \A t \in rv[r] : details[t] \in SUBSET using[r]
  <2>1. \A t \in rv[r] : t \in Tasks /\ t[1] = r
    BY DEF IInv, Types, Answers
  <2>2. \A t \in Tasks : details[t] \subseteq Providers
    BY DEF IInv, Types
  <2>3. \A t \in Tasks, p \in Providers : p \in details[t] => p \in using[t[1]]
    BY DEF IInv, Asking
  <2>4. \A t \in rv[r] : details[t] \subseteq using[r]
    BY <2>1, <2>2, <2>3
  <2>5. QED
    BY <2>1, <2>4 DEF TasksOf
<1>6. a \in UNION {[ips -> SUBSET using[r]] : ips \in SUBSET TasksOf(r)}
  <2>1. a \in [rv[r] -> SUBSET using[r]]
    BY <1>5
  <2>2. QED
    BY <1>5, <2>1
<1>7. ctxDone[r] \/ a = [t \in TasksOf(r) |-> using[r]]
  <2>1. IInv' => ResultsAreComplete'
    BY IInvComplete, PTL
  <2>2. outcome'[r] = "result"
    BY <1>0, <1>1 DEF Types
  <2>3. ~ctxDone[r] => rv[r] = TasksOf(r) /\ \A t \in rv[r] : details[t] = using[r]
    BY <1>0, <1>1, <2>1, <2>2 DEF ResultsAreComplete, TasksOf
  <2>4. QED
    BY <2>3
<1> HIDE DEF a
<1>8. Service' = Service
  BY DEF Service
<1>9. QED
  BY <1>1, <1>3, <1>4, <1>6, <1>7, <1>8
     DEF Contract!Answer, Contract!Partial, Contract!Complete

(* A call is refused or let in.                                            *)
LEMMA BeginSeen ==
    ASSUME IInv, [Next]_vars, NEW r \in Requests, NEW names \in Queries, Begin(r, names)
    PROVE  Contract!Refuse(r) \/ Contract!Ask(r)
<1>0. Types /\ Locked /\ rv[r] = {} /\ pc[r] = "idle"
  BY IdleHasNoResult DEF IInv, Begin
<1>1. CallState[r] = "idle" /\ Service' = Service /\ UNCHANGED <<ctxDone, rv, details>>
  BY <1>0 DEF CallState, Service, Begin, Busy, shutdownVars, taskVars
<1>2. closed => Service = "closed"
  BY <1>0 DEF Locked, Service
<1>3. ~closed => Service = "open"
  BY <1>0 DEF Locked, Service, Begin
<1>4. ASSUME NEW why, Return(r, why), UNCHANGED using,
             (closed /\ why = "shutdown") \/ (~closed /\ why = "unknownProvider")
      PROVE  Contract!Refuse(r)
  <2>1. CallState' = [CallState EXCEPT ![r] = "returned"]
    BY <1>4, SeenStep DEF Return, Locations, Busy
  <2>2. Answered'[r] = Answered[r]
    BY <1>0, <1>1 DEF Answered
  <2>3. Answered' = Answered
    BY <1>4, <2>2, SeenStep DEF Return, Locations, Answered
  <2>4. QED
    BY <1>1, <1>2, <1>3, <1>4, <2>1, <2>3 DEF Return, Contract!Refuse
<1>5. ASSUME ~closed, names \subseteq Providers, Goto(r, "submit"),
             using' = [using EXCEPT ![r] = GetProvidersToUse(names)], UNCHANGED outcome
      PROVE  Contract!Ask(r)
  <2>1. CallState' = [CallState EXCEPT ![r] = "asked"]
    BY <1>5, SeenStep DEF Locations, Busy
  <2>2. pc[r] # "returned" /\ pc'[r] # "returned"
    BY <1>0, <1>5 DEF Goto, Types
  <2>3. Answered'[r] = Answered[r]
    BY <2>2, AnsweredStep
  <2>4. Answered' = Answered
    <3>1. "submit" \in Locations
      BY DEF Locations, Busy
    <3>2. Answered' = [Answered EXCEPT ![r] = Answered'[r]]
      BY <1>5, <3>1, SeenStep
    <3>3. QED
      BY <2>3, <3>2 DEF Answered
  <2>5. GetProvidersToUse(names) \in SUBSET Providers
    BY <1>5 DEF GetProvidersToUse
  <2>6. QED
    BY <1>1, <1>3, <1>5, <2>1, <2>4, <2>5 DEF Contract!Ask
<1>6. QED
  BY <1>4, <1>5 DEF Begin

(* Every step is a step of the contract or is not seen.                    *)
LEMMA ContractStep == IInv /\ [Next]_vars => [Contract!Next]_(Contract!vars)
<1> SUFFICES ASSUME IInv, [Next]_vars
             PROVE  [Contract!Next]_(Contract!vars)
  OBVIOUS
<1>0. Types
  BY DEF IInv
<1>1. ASSUME NEW r \in Requests, NEW names \in Queries, Begin(r, names)
      PROVE  Contract!Next
  BY <1>1, BeginSeen DEF Contract!Next
<1>2. ASSUME NEW r \in Requests, ContextDone(r)
      PROVE  Contract!Next
  <2>1. CallState' = CallState /\ CallState[r] = "asked" /\ Service' = Service
    BY <1>2 DEF ContextDone, CallState, Service, shutdownVars
  <2>2. Answered' = Answered
    BY <1>2 DEF ContextDone, Answered, channelVars, taskVars
  <2>3. Contract!Cancel(r)
    BY <1>2, <2>1, <2>2 DEF ContextDone, Contract!Cancel, channelVars
  <2>4. QED
    BY <2>3 DEF Contract!Next
<1>3. ASSUME NEW r \in Requests, Submit(r)
      PROVE  [Contract!Next]_(Contract!vars)
  <2>1. UNCHANGED <<using, ctxDone, rv, details, shutdown>> /\ pc[r] \in Busy
    BY <1>3 DEF Submit, taskVars, shutdownVars, Busy
  <2>2. CASE Return(r, "result")
    BY <2>1, <2>2, AnswerSeen DEF Contract!Next
  <2>3. CASE UNCHANGED outcome /\ (Goto(r, "collect") \/ Goto(r, "invoke"))
    <3>1. Service' = Service
      BY <2>1 DEF Service
    <3>2. \A q \in Requests : pc'[q] = pc[q] \/ (pc[q] \in Busy /\ pc'[q] \in Busy)
      BY <1>0, <2>1, <2>3 DEF Goto, Busy, Types
    <3>3. QED
      BY <2>1, <2>3, <3>1, <3>2, UnseenStep
  <2>4. QED
    BY <1>3, <2>2, <2>3 DEF Submit
<1>4. ASSUME NEW r \in Requests, ResolveReturns(r) \/ ResolveAllReturns(r)
      PROVE  Contract!Next
  <2>1. /\ UNCHANGED <<using, ctxDone, rv, details, shutdown>> /\ pc[r] \in Busy
        /\ Return(r, "result")
    BY <1>4 DEF ResolveReturns, ResolveAllReturns, taskVars, shutdownVars, Busy
  <2>2. QED
    BY <2>1, AnswerSeen DEF Contract!Next
<1>5. ASSUME UNCHANGED <<using, ctxDone, outcome, shutdown>>,
             \A q \in Requests : pc'[q] = pc[q] \/ (pc[q] \in Busy /\ pc'[q] \in Busy)
      PROVE  UNCHANGED Contract!vars
  <2>1. Service' = Service
    BY <1>5 DEF Service
  <2>2. QED
    BY <1>5, <2>1, UnseenStep
<1>6. ASSUME NEW r \in Requests, Invoke(r)
      PROVE  UNCHANGED Contract!vars
  BY <1>0, <1>5, <1>6 DEF Invoke, Goto, Busy, channelVars, shutdownVars, Types
<1>7. ASSUME NEW t \in Tasks, SendResult(t)
      PROVE  UNCHANGED Contract!vars
  BY <1>0, <1>5, <1>7, TaskParts DEF SendResult, Goto, Busy, shutdownVars, Types
<1>8. CASE Shutdown \/ ShutdownLocks
  <2>1. UNCHANGED <<CallState, Answered, using, ctxDone, outcome>>
    BY <1>8
       DEF Shutdown, ShutdownLocks, CallState, Answered, requestVars, channelVars, taskVars
  <2>2. CASE Shutdown
    BY <2>1, <2>2 DEF Shutdown, Service, Contract!Next, Contract!Shutdown
  <2>3. CASE ShutdownLocks
    <3>1. \A r \in Requests : CallState[r] # "asked"
      BY <1>0, <2>3 DEF ShutdownLocks, Readers, CallState, Types, Locations, Busy
    <3>2. Contract!Close
      BY <2>1, <2>3, <3>1 DEF ShutdownLocks, Service, Contract!Close
    <3>3. QED
      BY <3>2 DEF Contract!Next
  <2>4. QED
    BY <1>8, <2>2, <2>3
<1>9. CASE ShutdownProvider \/ ShutdownUnlocks
  <2>1. Service' = Service /\ UNCHANGED <<pc, using, ctxDone, outcome>>
    BY <1>9 DEF ShutdownProvider, ShutdownUnlocks, Service, requestVars, channelVars
  <2>2. QED
    BY <2>1, UnseenStep
<1>10. CASE UNCHANGED <<pc, using, ctxDone, outcome, shutdown>>
  BY <1>5, <1>10
<1>11. QED
  BY <1>1, <1>2, <1>3, <1>4, <1>6, <1>7, <1>8, <1>9, <1>10, StepKinds
     DEF CloseResultChannel, Collect, DropResult, TaskDone, LookupReturns, SendDetail,
         DropDetail, vars, requestVars, channelVars, shutdownVars

(* Resolve, ResolveAll and Shutdown look to their callers as if each took  *)
(* effect in one step, for any requests, batches, providers and pool.      *)
THEOREM TopographerImplementsContract == Spec => ImplementsRequestContract
<1>1. Init => Contract!Init
  <2> SUFFICES ASSUME Init
               PROVE  Contract!Init
    OBVIOUS
  <2>1. CallState = [r \in Requests |-> "idle"] /\ Service = "open"
    BY DEF Init, CallState, Service, Busy
  <2>2. Answered = [r \in Requests |-> [ip \in {} |-> {}]]
    BY DEF Init, Answered
  <2>3. QED
    BY <2>1, <2>2 DEF Init, Contract!Init, Contract!NoAnswer
<1>2. QED
  BY <1>1, ContractStep, Invariance, PTL DEF Spec, ImplementsRequestContract, Contract!Spec

-----------------------------------------------------------------------------
(* Nobody waits for somebody who cannot run.                               *)

(* The guards of the steps of a request, of a task and of a lookup, and of *)
(* Shutdown.                                                               *)
RequestCanRun(r) ==
    \/ pc[r] = "submit"
    \/ pc[r] = "invoke" /\ Cardinality(Workers) < PoolSize
    \/ pc[r] = "wait" /\ wg[r] = 0
    \/ pc[r] = "collect" /\ (wg[r] = 0 \/ chanClosed[r] \/ results[r] # {})

LookupCanRun(t, p) == lookup[t][p] \in {"running", "sending"}

TaskCanRun(t) ==
    \/ worker[t] = "answered"
    \/ /\ worker[t] = "asking"
       /\ TaskChannelClosed(t)
       /\ t[1] \in Batches \/ pc[t[1]] = "receive" \/ ctxDone[t[1]]
    \/ \E p \in Providers : LookupCanRun(t, p)

ShutdownCanRun ==
    \/ shutdown = "pending" /\ Readers = {}
    \/ shutdown = "locked"

(* A call that cannot go on waits for a task that can: for one of its own  *)
(* or, for a free worker, for any that has one.  Shutdown waits for such   *)
(* calls.  Only a cancelled Resolve may wait for nobody.                   *)
NoDeadlock ==
    /\ \A r \in Readers :
          \/ RequestCanRun(r)
          \/ \E t \in Workers : TaskCanRun(t) /\ (pc[r] # "invoke" => t[1] = r)
          \/ CancelledReceive(r)
    /\ shutdown \in {"pending", "locked"} => ShutdownCanRun \/ Readers # {}

(* Resolve waits for its tasks only after it has received its result.      *)
Received ==
    \A r \in Requests \ Batches :
        /\ pc[r] \in {"submit", "invoke", "receive"} => rv[r] = {}
        /\ pc[r] = "wait" => rv[r] # {}

(* A Resolve receives once, when it goes from receive to wait.             *)
LEMMA ReceivedStep == IInv /\ Received /\ [Next]_vars => Received'
<1> SUFFICES ASSUME IInv, Received, [Next]_vars, NEW q \in Requests \ Batches
             PROVE  Received!(q)'
  BY DEF Received
<1>0. Types /\ Received!(q)
  BY DEF IInv, Received
<1>1. CASE UNCHANGED <<pc, rv>>
  BY <1>0, <1>1
<1>2. ASSUME NEW r \in Requests, NEW l \in Locations \ {"wait"}, Goto(r, l), UNCHANGED rv,
             r = q => rv[q] = {}
      PROVE  Received!(q)'
  <2>1. pc'[q] = pc[q] \/ (r = q /\ pc'[q] = l)
    BY <1>0, <1>2 DEF Goto, Types
  <2>2. QED
    BY <1>0, <1>2, <2>1
<1>3. ASSUME NEW r \in Requests, NEW names \in Queries, Begin(r, names)
      PROVE  Received!(q)'
  <2>1. rv[r] = {} /\ rv' = rv
    BY <1>3, IdleHasNoResult DEF Begin
  <2>2. Goto(r, "returned") \/ Goto(r, "submit")
    BY <1>3 DEF Begin, Return
  <2>3. QED
    BY <1>2, <2>1, <2>2 DEF Locations, Busy
<1>4. ASSUME NEW r \in Requests, Submit(r)
      PROVE  Received!(q)'
  <2>1. rv' = rv /\ (r = q => rv[q] = {})
    BY <1>0, <1>4 DEF Submit
  <2>2. Goto(r, "returned") \/ Goto(r, "collect") \/ Goto(r, "invoke")
    BY <1>4 DEF Submit, Return
  <2>3. QED
    BY <1>2, <2>1, <2>2 DEF Locations, Busy
<1>5. ASSUME NEW r \in Requests, Invoke(r)
      PROVE  Received!(q)'
  <2>1. rv' = rv /\ (r = q => rv[q] = {})
    BY <1>0, <1>5 DEF Invoke, channelVars
  <2>2. Goto(r, "receive") \/ Goto(r, "submit") \/ Goto(r, "collect")
    BY <1>5 DEF Invoke
  <2>3. QED
    BY <1>2, <2>1, <2>2 DEF Locations, Busy
<1>6. ASSUME NEW r \in Requests, ResolveReturns(r) \/ ResolveAllReturns(r)
      PROVE  Received!(q)'
  <2>1. rv' = rv /\ Goto(r, "returned")
    BY <1>6 DEF ResolveReturns, ResolveAllReturns, Return
  <2>2. pc'[q] = pc[q] \/ pc'[q] = "returned"
    BY <1>0, <2>1 DEF Goto, Types
  <2>3. QED
    BY <1>0, <2>1, <2>2
<1>7. ASSUME NEW r \in Requests, Collect(r)
      PROVE  Received!(q)'
  <2>1. r \in Batches /\ pc' = pc
    BY <1>7 DEF Collect, requestVars, IInv, Progress
  <2>2. rv'[q] = rv[q]
    BY <1>0, <1>7, <2>1 DEF Collect, Types
  <2>3. QED
    BY <1>0, <2>1, <2>2
<1>8. ASSUME NEW t \in Tasks, SendResult(t)
      PROVE  Received!(q)'
  <2>1. CASE t[1] = q
    <3>1. pc' = [pc EXCEPT ![q] = "wait"] /\ rv' = [rv EXCEPT ![q] = {t}]
      BY <1>8, <2>1 DEF SendResult, Goto
    <3>2. pc'[q] = "wait" /\ rv'[q] = {t}
      BY <1>0, <3>1 DEF Types
    <3>3. QED
      BY <3>2
  <2>2. CASE t[1] # q
    BY <1>0, <1>8, <2>2 DEF SendResult, Goto, Types
  <2>3. QED
    BY <2>1, <2>2
<1>9. QED
  BY <1>1, <1>3, <1>4, <1>5, <1>6, <1>7, <1>8, StepKinds
     DEF ContextDone, CloseResultChannel, DropResult, TaskDone, LookupReturns, SendDetail,
         DropDetail, Shutdown, ShutdownLocks, ShutdownProvider, ShutdownUnlocks, vars,
         requestVars, channelVars

(* A task that has a worker can run: the one who shall receive its result  *)
(* is there.                                                               *)
LEMMA WorkersRun ==
    ASSUME IInv, Received, NEW t \in Workers
    PROVE  TaskCanRun(t)
<1>0. t \in Tasks /\ t[1] \in Requests /\ worker[t] \in {"asking", "answered"}
  BY TaskParts DEF Workers
<1>1. CASE worker[t] = "answered"
  BY <1>1 DEF TaskCanRun
<1>2. CASE worker[t] = "asking" /\ ~TaskChannelClosed(t)
  <2>1. PICK p \in Providers : lookup[t][p] # "done"
    BY <1>2 DEF TaskChannelClosed
  <2>2. lookup[t][p] \in {"none", "running", "sending", "done"} /\ lookup[t][p] # "none"
    BY <1>0, <1>2 DEF IInv, Types, Asking
  <2>3. LookupCanRun(t, p)
    BY <2>1, <2>2 DEF LookupCanRun
  <2>4. QED
    BY <2>3 DEF TaskCanRun
<1>3. CASE worker[t] = "asking" /\ TaskChannelClosed(t)
  <2>1. CASE t[1] \in Batches \/ ctxDone[t[1]]
    BY <1>3, <2>1 DEF TaskCanRun
  <2>2. CASE t[1] \notin Batches /\ ~ctxDone[t[1]]
    <3>1. t[2] = 1 /\ t = <<t[1], 1>> /\ next[t[1]] # 1
      <4>1. t[2] = 1 /\ t = <<t[1], 1>>
        BY <1>0, <2>2, TaskParts, SizeBounds
      <4>2. ~(t[2] >= next[t[1]])
        BY <1>0, <1>3 DEF IInv, Submitted
      <4>3. QED
        BY <4>1, <4>2
    <3>2. next[t[1]] > 1
      <4>1. next[t[1]] \in 1..(BatchSize + 1)
        BY <1>0 DEF IInv, Types
      <4>2. QED
        BY <3>1, <4>1, SizesAssumption
    <3>3. pc[t[1]] \notin {"idle", "submit", "invoke", "collect"}
      <4>1. Size(t[1]) = 1
        BY <1>0, <2>2, SizeBounds
      <4>2. pc[t[1]] \in {"submit", "invoke"} => next[t[1]] <= 1
        BY <1>0, <4>1 DEF IInv, Progress
      <4>3. pc[t[1]] = "idle" => next[t[1]] = 1
        BY <1>0 DEF IInv, Progress
      <4>4. pc[t[1]] # "collect"
        BY <1>0, <2>2 DEF IInv, Progress
      <4>5. next[t[1]] \in Int
        BY <1>0, SizesAssumption DEF IInv, Types
      <4>6. QED
        BY <3>2, <4>2, <4>3, <4>4, <4>5
    <3>4. pc[t[1]] # "returned"
      BY <1>0, <1>3 DEF IInv, Quiet
    <3>5. pc[t[1]] # "wait"
      <4>1. \A u \in rv[t[1]] : u \in Tasks /\ u[1] = t[1] /\ worker[u] \in {"answered", "done"}
        BY <1>0 DEF IInv, Types, Answers
      <4>2. \A u \in rv[t[1]] : u = t
        BY <2>2, <3>1, <4>1, TaskParts, SizeBounds
      <4>3. rv[t[1]] = {}
        BY <1>3, <4>1, <4>2
      <4>4. QED
        BY <1>0, <2>2, <4>3 DEF Received
    <3>6. pc[t[1]] = "receive"
      BY <1>0, <3>3, <3>4, <3>5 DEF IInv, Types, Locations, Busy
    <3>7. QED
      BY <1>3, <3>6 DEF TaskCanRun
  <2>3. QED
    BY <2>1, <2>2
<1>4. QED
  BY <1>0, <1>1, <1>2, <1>3

(* A group that is not at zero has a task at work.                         *)
LEMMA GroupHasWorker ==
    ASSUME IInv, NEW r \in Requests, wg[r] # 0, pc[r] # "invoke"
    PROVE  \E t \in Workers : t[1] = r
<1>1. Cardinality(WorkersOf(r)) # 0
  BY DEF IInv, Counting
<1>2. WorkersOf(r) # {}
  BY <1>1, FS_EmptySet
<1>3. QED
  BY <1>2 DEF WorkersOf, TasksOf

LEMMA NobodyIsStuck == IInv /\ Received => NoDeadlock
<1> SUFFICES ASSUME IInv, Received
             PROVE  NoDeadlock
  OBVIOUS
<1>1. ASSUME NEW r \in Readers
      PROVE  \/ RequestCanRun(r)
             \/ \E t \in Workers : TaskCanRun(t) /\ (pc[r] # "invoke" => t[1] = r)
             \/ CancelledReceive(r)
  <2>0. r \in Requests /\ pc[r] \in Busy
    BY DEF Readers
  <2>1. CASE pc[r] = "submit"
    BY <2>1 DEF RequestCanRun
  <2>2. CASE pc[r] = "invoke"
    <3>1. CASE Workers = {}
      <4>1. Cardinality(Workers) < PoolSize
        BY <3>1, FS_EmptySet, SizesAssumption
      <4>2. QED
        BY <2>2, <4>1 DEF RequestCanRun
    <3>2. CASE Workers # {}
      BY <2>2, <3>2, WorkersRun
    <3>3. QED
      BY <3>1, <3>2
  <2>3. CASE pc[r] = "wait" \/ pc[r] = "collect"
    <3>1. CASE wg[r] = 0
      BY <2>3, <3>1 DEF RequestCanRun
    <3>2. CASE wg[r] # 0
      BY <2>0, <2>3, <3>2, GroupHasWorker, WorkersRun
    <3>3. QED
      BY <3>1, <3>2
  <2>4. CASE pc[r] = "receive" /\ ctxDone[r]
    BY <2>4 DEF CancelledReceive
  <2>5. CASE pc[r] = "receive" /\ ~ctxDone[r]
    <3>1. r \notin Batches /\ next[r] = 2 /\ rv[r] = {} /\ results[r] = {}
      BY <2>0, <2>5 DEF IInv, Progress, Received, Answers
    <3>2. <<r, 1>> \in Tasks
      BY <2>0, SizeBounds, TaskOfIP, SizesAssumption
    <3>3. worker[<<r, 1>>] # "none"
      BY <3>1, <3>2 DEF IInv, Submitted
    <3>4. worker[<<r, 1>>] \notin {"answered", "done"}
      <4>1. <<r, 1>> \notin results[r] \cup rv[r]
        BY <3>1
      <4>2. QED
        BY <2>5, <3>2, <4>1 DEF IInv, Answers
    <3>5. <<r, 1>> \in Workers
      BY <3>2, <3>3, <3>4 DEF IInv, Types, Workers
    <3>6. TaskCanRun(<<r, 1>>)
      BY <3>5, WorkersRun
    <3>7. QED
      BY <3>5, <3>6
  <2>6. QED
    BY <2>0, <2>1, <2>2, <2>3, <2>4, <2>5 DEF Busy
<1>2. QED
  BY <1>1 DEF NoDeadlock, ShutdownCanRun

(* Requests that wait for a worker, tasks that wait for their requests and *)
(* a Shutdown that waits for all of them never wait in a circle, however   *)
(* small the pool is.                                                      *)
THEOREM CallsNeverDeadlock == Spec => []NoDeadlock
<1>1. Init => Received
  BY DEF Init, Received
<1>2. IInv /\ [Next]_vars /\ Received => Received'
  BY ReceivedStep
<1>3. QED
  BY <1>1, <1>2, NobodyIsStuck, Invariance, PTL DEF Spec
=============================================================================
