-------------------------- MODULE HttpClientProofs --------------------------
(***************************************************************************)
(* Proofs about CircuitBreaker, for any set of callers, any threshold and  *)
(* any number of timer callbacks that are under way, and about HttpClient, *)
(* whose steps are steps of the breaker, so that what is proved of the     *)
(* breaker holds of the breaker in the client.                             *)
(*                                                                         *)
(* TypeOK, TimersMatchState and FailuresBelowThreshold are not inductive   *)
(* one by one, but their conjunction is: that no fired timer is forgotten  *)
(* rests on the timers matching the state, and the types rest on a caller  *)
(* being in switchState exactly while it holds the mutex.                  *)
(***************************************************************************)
EXTENDS HttpClient, TLAPS

-----------------------------------------------------------------------------
(* The breaker.                                                            *)

IInv == TypeOK /\ TimersMatchState /\ FailuresBelowThreshold

-----------------------------------------------------------------------------
(* Facts about the helpers.                                                *)

(* switchState leaves the breaker, as its mutex holder sees it, in the     *)
(* state that was asked for, with no failures and with the timers of that  *)
(* state, whatever the timers were before.                                 *)
LEMMA SwitchStateEffect ==
    ASSUME TypeOK,
           NEW who \in Callers \cup TimerFuncs,
           NEW s \in States,
           NEW ref \in TimerRefs,
           SwitchState(who, s, ref)
    PROVE  /\ stateMutexChan' = who
           /\ ~MutexIsFree'
           /\ switchTo' = s
           /\ Effective' = s
           /\ failuresCount' = 0
           /\ halfOpenAttempts' = 0
           /\ halfOpenTimer' \in TimerRefs
           /\ failuresCleanupTimer' \in TimerRefs
           /\ halfOpenTimer' # "nil" <=> s = Opened
           /\ failuresCleanupTimer' # "nil" <=> s = Closed
           /\ halfOpenTimer' = "fired" => halfOpenTimer = "fired"
           /\ failuresCleanupTimer' = "fired" => ref = "fired"
<1>1. who # Nobody
  BY CallersAssumption DEF TimerFuncs, Nobody
<1> QED
  BY <1>1 DEF SwitchState, SetTimers, ResetCounters, Effective, MutexIsFree, EnsureTimer, StopTimer,
     TypeOK, TimerRefs, States, Closed, Opened, HalfOpened

(* A step that leaves the mutex, the states, the timers and the callbacks  *)
(* of the timers alone keeps the timers matched to the state.              *)
LEMMA TimersUntouched ==
    ASSUME TimersMatchState,
           UNCHANGED <<state, stateMutexChan, switchTo, timers, pending>>
    PROVE  TimersMatchState' /\ Effective' = Effective
BY DEF TimersMatchState, Effective, MutexIsFree, timers

-----------------------------------------------------------------------------
(* The inductive invariant.                                                *)

LEMMA InitIInv == Init => IInv
BY CallersAssumption, BoundsAssumption
   DEF Init, IInv, TypeOK, TimersMatchState, FailuresBelowThreshold, Effective,
       MutexIsFree, States, Closed, Opened, HalfOpened, Nobody, TimerRefs,
       TimerFuncs, Locations, Resting, InFlight, Results

(* Steps of a caller that do not touch what the mutex protects.            *)
LEMMA FastPathIInv ==
    ASSUME IInv, NEW c \in Callers,
           \/ Do(c) \/ TakeAttempt(c) \/ ContextDone(c) \/ GiveUpMutex(c)
           \/ TrialIsLate(c) \/ \E r \in Results : CallbackReturns(c, r)
    PROVE  IInv'
<1> USE DEF IInv
<1>1. UNCHANGED <<state, stateMutexChan, switchTo, timers, pending, failuresCount>>
  BY DEF Do, TakeAttempt, ContextDone, GiveUpMutex, TrialIsLate, CallbackReturns,
         mutex, counters
<1>2. TimersMatchState' /\ Effective' = Effective
  BY <1>1, TimersUntouched
<1>3. FailuresBelowThreshold'
  BY <1>1, <1>2 DEF FailuresBelowThreshold
<1>4. TypeOK'
  <2>1. /\ state' \in States /\ switchTo' \in States
        /\ stateMutexChan' \in Callers \cup TimerFuncs \cup {Nobody}
        /\ halfOpenTimer' \in TimerRefs /\ failuresCleanupTimer' \in TimerRefs
        /\ pending' \in [TimerFuncs -> 0..MaxPending]
        /\ failuresCount' \in Nat
    BY <1>1 DEF TypeOK, timers
  <2>2. halfOpenAttempts' \in {0, 1}
    BY DEF TypeOK, Do, TakeAttempt, ContextDone, GiveUpMutex, TrialIsLate,
           CallbackReturns, counters
  <2>3. result' \in [Callers -> Results]
    BY DEF TypeOK, Do, TakeAttempt, ContextDone, GiveUpMutex, TrialIsLate,
           CallbackReturns
  <2>4. ctxDone' \in [Callers -> BOOLEAN]
    BY DEF TypeOK, Do, TakeAttempt, ContextDone, GiveUpMutex, TrialIsLate,
           CallbackReturns
  <2>5. \/ UNCHANGED pc
        \/ /\ pc[c] # "switching"
           /\ \E l \in Locations \ {"switching"} : pc' = [pc EXCEPT ![c] = l]
    BY DEF Do, TakeAttempt, ContextDone, GiveUpMutex, TrialIsLate,
           CallbackReturns, Move, Locations, Resting, InFlight
  <2>6. pc' \in [Callers -> Locations]
    BY <2>5 DEF TypeOK
  <2>7. \A d \in Callers : pc'[d] = "switching" <=> stateMutexChan' = d
    BY <1>1, <2>5 DEF TypeOK
  <2> QED
    BY <2>1, <2>2, <2>3, <2>4, <2>6, <2>7 DEF TypeOK
<1> QED
  BY <1>2, <1>3, <1>4

(* A caller that takes the mutex and switches the state.                   *)
LEMMA CallerSwitchesIInv ==
    ASSUME IInv, NEW c \in Callers, NEW s \in States,
           MutexIsFree,
           SwitchState(c, s, failuresCleanupTimer),
           Move(c, "switching"),
           UNCHANGED <<state, pending, result, ctxDone>>
    PROVE  IInv' /\ Effective' = s
<1> USE DEF IInv
<1>1. /\ stateMutexChan' = c
      /\ switchTo' = s
      /\ Effective' = s
      /\ failuresCount' = 0
      /\ halfOpenAttempts' = 0
      /\ halfOpenTimer' \in TimerRefs
      /\ failuresCleanupTimer' \in TimerRefs
      /\ halfOpenTimer' # "nil" <=> s = Opened
      /\ failuresCleanupTimer' # "nil" <=> s = Closed
      /\ halfOpenTimer' = "fired" => halfOpenTimer = "fired"
      /\ failuresCleanupTimer' = "fired" => failuresCleanupTimer = "fired"
  BY SwitchStateEffect, failuresCleanupTimer \in TimerRefs DEF TypeOK
<1>2. TimersMatchState'
  BY <1>1 DEF TimersMatchState
<1>3. FailuresBelowThreshold'
  BY <1>1, BoundsAssumption DEF FailuresBelowThreshold
<1>4. pc' \in [Callers -> Locations]
  BY DEF TypeOK, Move, Locations
<1>5. \A d \in Callers : pc'[d] = "switching" <=> stateMutexChan' = d
  BY <1>1, CallersAssumption DEF TypeOK, Move, MutexIsFree
<1>6. TypeOK'
  BY <1>1, <1>4, <1>5 DEF TypeOK
<1> QED
  BY <1>1, <1>2, <1>3, <1>6

LEMMA MutexStepIInv ==
    ASSUME IInv, NEW c \in Callers,
           ClosedCallSucceeds(c) \/ ClosedCallFails(c) \/ TrialDecides(c)
    PROVE  IInv'
<1>1. CASE ClosedCallSucceeds(c)
  BY <1>1, CallerSwitchesIInv, Closed \in States DEF ClosedCallSucceeds, States
<1>2. CASE TrialDecides(c)
  <2> DEFINE s == IF IsErrorOk(result[c]) THEN Closed ELSE Opened
  <2>1. s \in States
    BY DEF States
  <2> QED
    BY <1>2, <2>1, CallerSwitchesIInv DEF TrialDecides
<1>3. CASE ClosedCallFails(c)
  <2>1. CASE state = Closed /\ TooManyFailures
    BY <1>3, <2>1, CallerSwitchesIInv, Opened \in States DEF ClosedCallFails, States
  <2>2. CASE ~(state = Closed /\ TooManyFailures)
    <3>1. /\ UNCHANGED <<state, stateMutexChan, switchTo, timers, pending,
                         halfOpenAttempts, result, ctxDone>>
          /\ failuresCount' = failuresCount + 1
          /\ pc' = [pc EXCEPT ![c] = "idle"]
          /\ pc[c] = "lockClosed"
          /\ MutexIsFree
      BY <1>3, <2>2 DEF ClosedCallFails, Move
    <3>2. TimersMatchState' /\ Effective' = Effective
      BY <3>1, TimersUntouched DEF IInv
    <3>3. FailuresBelowThreshold'
      BY <2>2, <3>1, <3>2, BoundsAssumption
         DEF IInv, TypeOK, FailuresBelowThreshold, TooManyFailures, Effective
    <3>4. TypeOK'
      BY <3>1 DEF IInv, TypeOK, timers, Locations, Resting
    <3> QED
      BY <3>2, <3>3, <3>4 DEF IInv
  <2> QED
    BY <2>1, <2>2
<1> QED
  BY <1>1, <1>2, <1>3

LEMMA StoreStateIInv ==
    ASSUME IInv, StoreState
    PROVE  IInv' /\ Effective' = Effective
<1>1. Effective' = Effective
  BY DEF StoreState, Effective, MutexIsFree
<1>2. TimersMatchState' /\ FailuresBelowThreshold'
  BY <1>1 DEF IInv, StoreState, TimersMatchState, FailuresBelowThreshold, timers,
              counters
<1>3. TypeOK'
  <2>1. pc' \in [Callers -> Locations]
    BY DEF IInv, TypeOK, StoreState, Locations, Resting
  <2>2. \A d \in Callers : pc'[d] = "switching" <=> stateMutexChan' = d
    BY CallersAssumption DEF IInv, TypeOK, StoreState
  <2> QED
    BY <2>1, <2>2 DEF IInv, TypeOK, StoreState, timers, counters
<1> QED
  BY <1>1, <1>2, <1>3 DEF IInv

LEMMA TimerFiresIInv ==
    ASSUME IInv, HalfOpenTimerFires \/ FailuresCleanupTimerFires
    PROVE  IInv' /\ Effective' = Effective /\ UNCHANGED failuresCount
<1> USE DEF IInv
<1>1. /\ UNCHANGED <<state, stateMutexChan, switchTo, counters, calls>>
      /\ Effective' = Effective
  BY DEF HalfOpenTimerFires, FailuresCleanupTimerFires, Effective, MutexIsFree
<1>2. TimersMatchState' /\ pending' \in [TimerFuncs -> 0..MaxPending]
      /\ halfOpenTimer' \in TimerRefs /\ failuresCleanupTimer' \in TimerRefs
  BY <1>1, BoundsAssumption
     DEF HalfOpenTimerFires, FailuresCleanupTimerFires, TimersMatchState, TypeOK,
         TimerFuncs, TimerRefs
<1> QED
  BY <1>1, <1>2 DEF TypeOK, FailuresBelowThreshold, counters, calls

LEMMA CallbackIInv ==
    ASSUME IInv, TryHalfOpen \/ ResetFailures
    PROVE  IInv'
<1> USE DEF IInv
<1>0. UNCHANGED <<state, calls>> /\ MutexIsFree /\ Effective = state
  BY DEF TryHalfOpen, ResetFailures, Effective
<1>1. CASE TryHalfOpen /\ state = Opened
  <2>1. SwitchState("tryHalfOpen", HalfOpened, failuresCleanupTimer)
    BY <1>1 DEF TryHalfOpen
  <2>2. /\ stateMutexChan' = "tryHalfOpen"
        /\ switchTo' = HalfOpened
        /\ Effective' = HalfOpened
        /\ failuresCount' = 0
        /\ halfOpenAttempts' = 0
        /\ halfOpenTimer' = "nil"
        /\ failuresCleanupTimer' = "nil"
    BY <2>1, SwitchStateEffect, "tryHalfOpen" \in TimerFuncs, HalfOpened \in States
       DEF TypeOK, TimerFuncs, States, Closed, HalfOpened, Opened
  <2>3. pending' \in [TimerFuncs -> 0..MaxPending]
    BY <1>1, BoundsAssumption DEF TryHalfOpen, TypeOK, TimerFuncs
  <2>4. TimersMatchState' /\ FailuresBelowThreshold'
    BY <2>2, BoundsAssumption
       DEF TimersMatchState, FailuresBelowThreshold, Closed, HalfOpened, Opened
  <2>5. \A d \in Callers : pc'[d] = "switching" <=> stateMutexChan' = d
    BY <1>0, <2>2, CallersAssumption DEF TypeOK, calls, MutexIsFree, TimerFuncs
  <2> QED
    BY <1>0, <2>2, <2>3, <2>4, <2>5
       DEF TypeOK, calls, TimerRefs, TimerFuncs, States
<1>2. CASE TryHalfOpen /\ state # Opened
  <2>1. UNCHANGED <<stateMutexChan, switchTo, timers, counters>>
    BY <1>2 DEF TryHalfOpen
  <2>2. pending' \in [TimerFuncs -> 0..MaxPending]
        /\ pending'["resetFailures"] = pending["resetFailures"]
    BY <1>2, BoundsAssumption DEF TryHalfOpen, TypeOK, TimerFuncs
  <2>3. Effective' = Effective
    BY <1>0, <2>1 DEF Effective, MutexIsFree
  <2>4. TimersMatchState' /\ FailuresBelowThreshold'
    BY <1>0, <1>2, <2>1, <2>2, <2>3
       DEF TimersMatchState, FailuresBelowThreshold, timers, counters
  <2> QED
    BY <1>0, <2>1, <2>2, <2>4 DEF TypeOK, calls, timers, counters
<1>3. CASE ResetFailures /\ state = Closed
  <2>1. SwitchState("resetFailures", Closed, "nil")
    BY <1>3 DEF ResetFailures, StopTimer
  <2>2. /\ stateMutexChan' = "resetFailures"
        /\ switchTo' = Closed
        /\ Effective' = Closed
        /\ failuresCount' = 0
        /\ halfOpenAttempts' = 0
        /\ halfOpenTimer' = "nil"
        /\ failuresCleanupTimer' \in TimerRefs \ {"nil", "fired"}
    BY <2>1, SwitchStateEffect, "resetFailures" \in TimerFuncs, Closed \in States,
       "nil" \in TimerRefs
       DEF TypeOK, TimerFuncs, TimerRefs, States, Closed, HalfOpened, Opened
  <2>3. pending' \in [TimerFuncs -> 0..MaxPending]
    BY <1>3, BoundsAssumption DEF ResetFailures, TypeOK, TimerFuncs
  <2>4. TimersMatchState' /\ FailuresBelowThreshold'
    BY <2>2, BoundsAssumption
       DEF TimersMatchState, FailuresBelowThreshold, Closed, HalfOpened, Opened
  <2>5. \A d \in Callers : pc'[d] = "switching" <=> stateMutexChan' = d
    BY <1>0, <2>2, CallersAssumption DEF TypeOK, calls, MutexIsFree, TimerFuncs
  <2> QED
    BY <1>0, <2>2, <2>3, <2>4, <2>5
       DEF TypeOK, calls, TimerRefs, TimerFuncs, States
<1>4. CASE ResetFailures /\ state # Closed
  <2>1. /\ UNCHANGED <<stateMutexChan, switchTo, halfOpenTimer, counters>>
        /\ failuresCleanupTimer' = "nil"
    BY <1>4 DEF ResetFailures, StopTimer
  <2>2. pending' \in [TimerFuncs -> 0..MaxPending]
        /\ pending'["tryHalfOpen"] = pending["tryHalfOpen"]
    BY <1>4, BoundsAssumption DEF ResetFailures, TypeOK, TimerFuncs
  <2>3. Effective' = Effective
    BY <1>0, <2>1 DEF Effective, MutexIsFree
  <2>4. TimersMatchState' /\ FailuresBelowThreshold'
    BY <1>0, <1>4, <2>1, <2>2, <2>3
       DEF TimersMatchState, FailuresBelowThreshold, counters
  <2> QED
    BY <1>0, <2>1, <2>2, <2>4 DEF TypeOK, calls, counters, TimerRefs
<1> QED
  BY <1>1, <1>2, <1>3, <1>4

LEMMA NextIInv == IInv /\ [Next]_vars => IInv'
<1> SUFFICES ASSUME IInv, [Next]_vars PROVE IInv'
  OBVIOUS
<1>1. CASE StoreState
  BY <1>1, StoreStateIInv
<1>2. CASE TimerStep
  BY <1>2, TimerFiresIInv, CallbackIInv DEF TimerStep
<1>3. CASE \E c \in Callers : CallerStep(c)
  BY <1>3, FastPathIInv, MutexStepIInv DEF CallerStep
<1>4. CASE UNCHANGED vars
  BY <1>4 DEF vars, mutex, timers, counters, calls, IInv, TypeOK, TimersMatchState,
              FailuresBelowThreshold, Effective, MutexIsFree
<1> QED
  BY <1>1, <1>2, <1>3, <1>4 DEF Next

LEMMA BreakerInvariant ==
    Spec => [](TypeOK /\ TimersMatchState /\ FailuresBelowThreshold)
BY InitIInv, NextIInv, PTL DEF Spec, IInv

(* The types, and with them mutual exclusion: at most one attempt is given *)
(* out, and whoever switches the state holds the mutex.                    *)
THEOREM BreakerTypes == Spec => []TypeOK
BY BreakerInvariant, PTL

(* No wakeup is lost: an opened breaker has its timer or a callback under  *)
(* way, and so has a closed one with failures to forget, for any number of *)
(* concurrent calls of Do and of callbacks that come late.                 *)
THEOREM NoWakeupIsLost == Spec => []TimersMatchState
BY BreakerInvariant, PTL

(* A breaker that closes carries no failures over, and a closed one has    *)
(* not reached the number that opens it, whoever reports late.             *)
THEOREM ClosedIsBelowThreshold == Spec => []FailuresBelowThreshold
BY BreakerInvariant, PTL

-----------------------------------------------------------------------------
(* The breaker implements its contract.                                    *)

(* What each critical section is to the contract, as a step of Effective   *)
(* and of the failures of a closed breaker.                                *)
LEMMA ContractStep ==
    ASSUME IInv, [Next]_vars
    PROVE  [Contract!Next]_<<Effective, IF Effective = Closed THEN failuresCount ELSE 0>>
<1> USE DEF Contract!Next, Contract!Recover, Closed, HalfOpened, Opened
<1>1. CASE StoreState
  BY <1>1, StoreStateIInv DEF StoreState, counters
<1>2. CASE HalfOpenTimerFires \/ FailuresCleanupTimerFires
  BY <1>2, TimerFiresIInv
<1>3. CASE TryHalfOpen
  <2>1. CASE state = Opened
    <3>1. SwitchState("tryHalfOpen", HalfOpened, failuresCleanupTimer) /\ Effective = Opened
      BY <1>3, <2>1 DEF TryHalfOpen, Effective
    <3>2. Effective' = HalfOpened
      BY <3>1, SwitchStateEffect, "tryHalfOpen" \in TimerFuncs, HalfOpened \in States
         DEF IInv, TypeOK, TimerFuncs, States
    <3> QED
      BY <3>1, <3>2 DEF Contract!HalfOpen
  <2>2. CASE state # Opened
    BY <1>3, <2>2 DEF TryHalfOpen, Effective, MutexIsFree, counters
  <2> QED
    BY <2>1, <2>2
<1>4. CASE ResetFailures
  <2>1. CASE state = Closed
    <3>1. SwitchState("resetFailures", Closed, "nil")
      BY <1>4, <2>1 DEF ResetFailures, StopTimer
    <3>2. Effective' = Closed /\ failuresCount' = 0
      BY <3>1, SwitchStateEffect, "resetFailures" \in TimerFuncs, Closed \in States,
         "nil" \in TimerRefs
         DEF IInv, TypeOK, TimerFuncs, States, TimerRefs
    <3> QED
      BY <3>2
  <2>2. CASE state # Closed
    BY <1>4, <2>2 DEF ResetFailures, Effective, MutexIsFree, counters
  <2> QED
    BY <2>1, <2>2
<1>5. ASSUME NEW c \in Callers, ClosedCallSucceeds(c)
      PROVE  Contract!Recover
  <2>1. Effective' = Closed /\ failuresCount' = 0
    BY <1>5, SwitchStateEffect, Closed \in States
       DEF ClosedCallSucceeds, IInv, TypeOK, States
  <2> QED
    BY <2>1
<1>6. ASSUME NEW c \in Callers, TrialDecides(c)
      PROVE  Contract!Recover \/ Contract!Reopen
  <2> DEFINE s == IF IsErrorOk(result[c]) THEN Closed ELSE Opened
  <2>1. s \in {Closed, Opened}
    OBVIOUS
  <2>2. Effective = HalfOpened /\ Effective' = s /\ failuresCount' = 0
    BY <1>6, <2>1, SwitchStateEffect
       DEF TrialDecides, IInv, TypeOK, States, Effective
  <2> QED
    BY <2>1, <2>2 DEF Contract!Reopen
<1>7. ASSUME NEW c \in Callers, ClosedCallFails(c)
      PROVE  [Contract!Next]_<<Effective, IF Effective = Closed THEN failuresCount ELSE 0>>
  <2>1. CASE state = Closed /\ TooManyFailures
    <3>1. Effective = Closed /\ SwitchState(c, Opened, failuresCleanupTimer)
      BY <1>7, <2>1 DEF ClosedCallFails, Effective
    <3>2. Effective' = Opened
      BY <3>1, SwitchStateEffect, Opened \in States DEF IInv, TypeOK, States
    <3>3. failuresCount = OpenThreshold
      BY <2>1, <3>1, BoundsAssumption
         DEF TooManyFailures, IInv, TypeOK, FailuresBelowThreshold
    <3>4. failuresCount + 1 >= OpenThreshold
      BY <3>3, BoundsAssumption
    <3> QED
      BY <3>1, <3>2, <3>4 DEF Contract!Trip
  <2>2. CASE state = Closed /\ ~TooManyFailures
    <3>1. /\ Effective = Closed /\ Effective' = Closed
          /\ failuresCount' = failuresCount + 1
      BY <1>7, <2>2 DEF ClosedCallFails, Effective, MutexIsFree
    <3>2. failuresCount < OpenThreshold
      BY <2>2, BoundsAssumption DEF TooManyFailures, IInv, TypeOK
    <3> QED
      BY <3>1, <3>2 DEF Contract!CountFailure
  <2>3. CASE state # Closed
    BY <1>7, <2>3 DEF ClosedCallFails, Effective, MutexIsFree
  <2> QED
    BY <2>1, <2>2, <2>3
<1>8. ASSUME NEW c \in Callers,
             \/ Do(c) \/ TakeAttempt(c) \/ ContextDone(c) \/ GiveUpMutex(c)
             \/ TrialIsLate(c) \/ \E r \in Results : CallbackReturns(c, r)
      PROVE  UNCHANGED <<Effective, failuresCount>>
  BY <1>8 DEF Do, TakeAttempt, ContextDone, GiveUpMutex, TrialIsLate,
              CallbackReturns, mutex, counters, Effective, MutexIsFree
<1>9. CASE UNCHANGED vars
  BY <1>9 DEF vars, mutex, counters, Effective, MutexIsFree
<1> QED
  BY <1>1, <1>2, <1>3, <1>4, <1>5, <1>6, <1>7, <1>8, <1>9
     DEF Next, TimerStep, CallerStep

(* Every behaviour of the breaker, with its mutex, timers, stale callbacks *)
(* and late requests, is one of the three-state machine: it opens only     *)
(* after openThreshold failures in a row, or one more, half-opens only     *)
(* when opened, and reopens only when half opened.                         *)
THEOREM BreakerImplementsContract == Spec => ImplementsContract
<1>1. Init => Contract!Init
  BY DEF Init, Contract!Init, Effective, MutexIsFree, Closed
<1>2. IInv /\ [Next]_vars =>
        [Contract!Next]_<<Effective, IF Effective = Closed THEN failuresCount ELSE 0>>
  BY ContractStep
<1>3. Spec => []IInv
  BY InitIInv, NextIInv, PTL DEF Spec
<1> QED
  BY <1>1, <1>2, <1>3, PTL DEF Spec, ImplementsContract, Contract!Spec

-----------------------------------------------------------------------------
(* The half-open attempt is never lost while no context is done.           *)

NoContextDone == \A c \in Callers : ~ctxDone[c]

TrialInv == IInv /\ NoContextDone /\ TrialIsInFlight

LEMMA NoContextDoneStep ==
    ASSUME Cancellable = {}, IInv, NoContextDone, [Next]_vars
    PROVE  NoContextDone'
<1>1. ASSUME NEW c \in Callers, CallerStep(c)
      PROVE  UNCHANGED ctxDone \/ ctxDone' = [ctxDone EXCEPT ![c] = FALSE]
  BY <1>1 DEF CallerStep, Do, TakeAttempt, ContextDone, CallbackReturns, GiveUpMutex,
     ClosedCallSucceeds, ClosedCallFails, TrialIsLate, TrialDecides
<1>2. CASE StoreState \/ TimerStep \/ UNCHANGED vars
  BY <1>2 DEF StoreState, TimerStep, HalfOpenTimerFires, FailuresCleanupTimerFires,
     TryHalfOpen, ResetFailures, calls, vars, NoContextDone
<1>3. ASSUME NEW c \in Callers, CallerStep(c)
      PROVE  NoContextDone'
  BY <1>1, <1>3 DEF NoContextDone, IInv, TypeOK
<1> QED
  BY <1>2, <1>3 DEF Next

LEMMA TrialStep ==
    ASSUME Cancellable = {}, TrialInv, [Next]_vars
    PROVE  TrialIsInFlight'
<1> USE DEF TrialInv
<1> DEFINE OnTrial(c) == pc[c] \in {"callHalf", "lockHalf"}
<1>1. CASE StoreState
  <2>1. Effective' = Effective /\ UNCHANGED halfOpenAttempts
    BY <1>1, StoreStateIInv DEF StoreState, counters
  <2>2. \A c \in Callers : OnTrial(c) => OnTrial(c)'
    BY <1>1 DEF StoreState, IInv, TypeOK
  <2> QED
    BY <2>1, <2>2 DEF TrialIsInFlight
<1>2. CASE HalfOpenTimerFires \/ FailuresCleanupTimerFires
  BY <1>2, TimerFiresIInv
     DEF TrialIsInFlight, HalfOpenTimerFires, FailuresCleanupTimerFires, counters, calls
<1>3. CASE TryHalfOpen \/ ResetFailures
  <2>1. CASE UNCHANGED <<stateMutexChan, switchTo, counters>>
    BY <1>3, <2>1 DEF TryHalfOpen, ResetFailures, TrialIsInFlight, Effective,
                      MutexIsFree, counters, calls
  <2>2. CASE ~UNCHANGED <<stateMutexChan, switchTo, counters>>
    <3>1. halfOpenAttempts' = 0
      BY <1>3, <2>2 DEF TryHalfOpen, ResetFailures, SwitchState, ResetCounters
    <3> QED
      BY <3>1 DEF TrialIsInFlight
  <2> QED
    BY <2>1, <2>2
<1>4. ASSUME NEW c \in Callers,
             \/ Do(c) \/ ContextDone(c) \/ GiveUpMutex(c) \/ TakeAttempt(c)
             \/ \E r \in Results : CallbackReturns(c, r)
      PROVE  TrialIsInFlight'
  <2>1. Effective' = Effective
    BY <1>4 DEF Do, ContextDone, GiveUpMutex, TakeAttempt, CallbackReturns, Effective,
                MutexIsFree, mutex
  <2>2. OnTrial(c)' \/ (~OnTrial(c) /\ UNCHANGED halfOpenAttempts)
    BY <1>4 DEF Do, ContextDone, GiveUpMutex, TakeAttempt, CallbackReturns, Move,
                counters, Resting, NoContextDone, IInv, TypeOK
  <2>3. \A d \in Callers \ {c} : pc'[d] = pc[d]
    BY <1>4 DEF Do, ContextDone, GiveUpMutex, TakeAttempt, CallbackReturns, Move,
                IInv, TypeOK
  <2> QED
    BY <2>1, <2>2, <2>3 DEF TrialIsInFlight
<1>5. ASSUME NEW c \in Callers, ClosedCallSucceeds(c) \/ TrialDecides(c)
      PROVE  TrialIsInFlight'
  <2>1. halfOpenAttempts' = 0
    BY <1>5 DEF ClosedCallSucceeds, TrialDecides, SwitchState, ResetCounters
  <2> QED
    BY <2>1 DEF TrialIsInFlight
<1>6. ASSUME NEW c \in Callers, ClosedCallFails(c)
      PROVE  TrialIsInFlight'
  <2>1. CASE state = Closed /\ TooManyFailures
    <3>1. halfOpenAttempts' = 0
      BY <1>6, <2>1 DEF ClosedCallFails, SwitchState, ResetCounters
    <3> QED
      BY <3>1 DEF TrialIsInFlight
  <2>2. CASE ~(state = Closed /\ TooManyFailures)
    <3>1. Effective' = Effective /\ UNCHANGED halfOpenAttempts
      BY <1>6, <2>2 DEF ClosedCallFails, Effective, MutexIsFree
    <3>2. \A d \in Callers : OnTrial(d) => OnTrial(d)'
      BY <1>6, <2>2 DEF ClosedCallFails, Move, IInv, TypeOK
    <3> QED
      BY <3>1, <3>2 DEF TrialIsInFlight
  <2> QED
    BY <2>1, <2>2
<1>7. ASSUME NEW c \in Callers, TrialIsLate(c)
      PROVE  TrialIsInFlight'
  BY <1>7 DEF TrialIsLate, TrialIsInFlight, Effective, MutexIsFree, mutex
<1>8. CASE UNCHANGED vars
  BY <1>8 DEF vars, mutex, calls, counters, TrialIsInFlight, Effective, MutexIsFree
<1> QED
  BY <1>1, <1>2, <1>3, <1>4, <1>5, <1>6, <1>7, <1>8 DEF Next, TimerStep, CallerStep

(* As long as no request is given up, a half-opened breaker whose attempt  *)
(* is taken always has a request under way that will decide what it        *)
(* becomes: no compare-and-swap that comes too late, and no trial of an    *)
(* earlier half-open period, uses the attempt up for nothing.              *)
THEOREM TrialIsNeverLost ==
    ASSUME Cancellable = {}
    PROVE  Spec => []TrialIsInFlight
<1>1. Init => TrialInv
  BY InitIInv DEF Init, TrialInv, NoContextDone, TrialIsInFlight
<1>2. TrialInv /\ [Next]_vars => TrialInv'
  BY NextIInv, NoContextDoneStep, TrialStep DEF TrialInv
<1>3. TrialInv => TrialIsInFlight
  BY DEF TrialInv
<1> QED
  BY <1>1, <1>2, <1>3, PTL DEF Spec

-----------------------------------------------------------------------------
(* The client: bodies and verdicts are right.                              *)

(* The callback has returned, the breaker has not decided yet.             *)
Past == {"lockClosed", "lockHalf", "switching"}

(* What a caller's result and body have to do with the target's reply.     *)
CallInv(c) ==
    /\ body[c] = "handed" => reply[c] = "good"
    /\ body[c] = "open" => reply[c] \in {"good", "bad"}
    /\ pc[c] = "attempt" => body[c] = "none"
    /\ pc[c] \in Past =>
          /\ result[c] = "ok" => reply[c] = "good"
          /\ result[c] = "fail" => reply[c] \in {"bad", "error"}
          /\ body[c] = "open" => result[c] # "fail"
    /\ pc[c] \in Resting /\ body[c] = "open" => ctxDone[c] \/ result[c] = "ignore"
    /\ pc[c] = "switching" =>
          /\ switchTo = Closed => result[c] # "fail"
          /\ switchTo = Opened => result[c] = "fail"

ClientTypeOK ==
    /\ reply \in [Callers -> Replies]
    /\ body \in [Callers -> Bodies]

ClientInv == ClientTypeOK /\ \A c \in Callers : CallInv(c)

-----------------------------------------------------------------------------
(* The client is a user of the breaker.                                    *)

LEMMA ClientStepIsBreakerStep == [ClientNext]_allVars => [Next]_vars
<1> SUFFICES ASSUME [ClientNext]_allVars PROVE [Next]_vars
  OBVIOUS
<1>1. CASE UNCHANGED allVars
  BY <1>1 DEF allVars
<1>2. CASE DoReturns
  BY <1>2 DEF DoReturns, Next
<1>3. CASE TimerStep
  BY <1>3 DEF Next
<1>4. ASSUME NEW c \in Callers, ClientStep(c)
      PROVE  [Next]_vars
  <2>1. CASE LimiterLets(c) \/ LimiterRefuses(c)
    <3>1. PICK r \in {Verdict(reply[c]), "ignore"} : CallbackReturns(c, r)
      BY <2>1 DEF LimiterLets, LimiterRefuses
    <3>2. r \in Results
      BY <3>1 DEF Verdict, Results
    <3> QED
      BY <3>1, <3>2 DEF Next, CallerStep
  <2>2. CASE ClientDo(c) \/ LateTrialReturns(c) \/ BreakerStep(c)
    BY <2>2 DEF ClientDo, LateTrialReturns, BreakerStep, Next, CallerStep
  <2>3. CASE (\E what \in Replies \ {"none"} : RequestEnds(c, what)) \/ TimeoutClosesBody(c)
    BY <2>3 DEF RequestEnds, TimeoutClosesBody
  <2> QED
    BY <1>4, <2>1, <2>2, <2>3 DEF ClientStep
<1> QED
  BY <1>1, <1>2, <1>3, <1>4 DEF ClientNext

(* A behaviour of the client, whatever its targets answer and its limiter  *)
(* does, is one of the breaker: all that is proved of it holds here.       *)
THEOREM ClientImplementsBreaker == ClientSpec => Spec
<1>1. ClientInit => Init
  BY DEF ClientInit
<1> QED
  BY <1>1, ClientStepIsBreakerStep, PTL DEF ClientSpec, Spec

-----------------------------------------------------------------------------
(* Bodies and verdicts.                                                    *)

LEMMA InitClientInv == ClientInit => ClientInv
BY DEF ClientInit, ClientInv, ClientTypeOK, CallInv, Init, Replies, Bodies, Past

(* A caller that a step does not touch.                                    *)
LEMMA CallUntouched ==
    ASSUME NEW c \in Callers, CallInv(c),
           pc'[c] = pc[c], result'[c] = result[c], ctxDone'[c] = ctxDone[c],
           reply'[c] = reply[c], body'[c] = body[c],
           pc[c] = "switching" => switchTo' = switchTo
    PROVE  CallInv(c)'
BY DEF CallInv

(* While the mutex is free nobody is inside switchState.                   *)
LEMMA FreeMeansNotSwitching ==
    ASSUME TypeOK, MutexIsFree, NEW c \in Callers
    PROVE  pc[c] # "switching"
BY CallersAssumption DEF TypeOK, MutexIsFree

(* Steps that end a caller's Do.                                           *)
LEMMA ReturnClientInv ==
    ASSUME TypeOK, ClientInv, DoReturns \/ \E c \in Callers : LateTrialReturns(c)
    PROVE  ClientInv'
<1>1. PICK callers : /\ callers \in {{stateMutexChan}} \cup {{c} : c \in Callers}
                     /\ HandOver(callers)
                     /\ \A c \in Callers : IF c \in callers THEN pc'[c] = "idle" /\ pc[c] \in Past
                                                            ELSE pc'[c] = pc[c]
                     /\ UNCHANGED <<result, ctxDone, switchTo>>
  <2>1. CASE DoReturns
    BY <2>1 DEF DoReturns, StoreState, TypeOK, Past
  <2>2. CASE \E c \in Callers : LateTrialReturns(c)
    <3>1. PICK c \in Callers : LateTrialReturns(c)
      BY <2>2
    <3> QED
      BY <3>1 DEF LateTrialReturns, TrialIsLate, Move, mutex, TypeOK, Past
  <2> QED
    BY <2>1, <2>2
<1>2. ClientTypeOK'
  BY <1>1 DEF HandOver, ClientInv, ClientTypeOK, Bodies
<1>3. ASSUME NEW c \in Callers PROVE CallInv(c)'
  <2>1. CASE c \notin callers
    BY <1>1, <2>1, CallUntouched DEF HandOver, ClientInv
  <2>2. CASE c \in callers
    <3>1. /\ pc'[c] = "idle" /\ pc[c] \in Past /\ reply'[c] = reply[c]
          /\ result'[c] = result[c] /\ result[c] \in Results
          /\ body'[c] = IF result[c] = "ok" THEN "handed" ELSE body[c]
      BY <1>1, <2>2 DEF HandOver, TypeOK
    <3> QED
      BY <3>1 DEF CallInv, ClientInv, Past, Resting, Results
  <2> QED
    BY <2>1, <2>2
<1> QED
  BY <1>2, <1>3 DEF ClientInv

(* Steps of the breaker that leave reply and body alone.                   *)
LEMMA BreakerClientInv ==
    ASSUME TypeOK, ClientInv, UNCHANGED clientVars,
           TimerStep \/ \E c \in Callers : BreakerStep(c)
    PROVE  ClientInv'
<1>1. ClientTypeOK' /\ UNCHANGED <<reply, body>>
  BY DEF clientVars, ClientInv, ClientTypeOK
<1>2. CASE TimerStep
  <2>1. /\ UNCHANGED <<pc, result, ctxDone>>
        /\ MutexIsFree \/ UNCHANGED switchTo
    BY <1>2 DEF TimerStep, HalfOpenTimerFires, FailuresCleanupTimerFires, TryHalfOpen,
       ResetFailures, calls
  <2>2. ASSUME NEW c \in Callers PROVE CallInv(c)'
    BY <1>1, <2>1, FreeMeansNotSwitching, CallUntouched DEF ClientInv
  <2> QED
    BY <1>1, <2>2 DEF ClientInv
<1>3. ASSUME NEW c \in Callers, BreakerStep(c)
      PROVE  ClientInv'
  <2>1. /\ \A d \in Callers \ {c} : pc'[d] = pc[d] /\ ctxDone'[d] = ctxDone[d]
        /\ UNCHANGED result
        /\ MutexIsFree \/ UNCHANGED switchTo
    BY <1>3 DEF BreakerStep, TakeAttempt, ContextDone, GiveUpMutex, ClosedCallSucceeds,
       ClosedCallFails, TrialDecides, Move, mutex, TypeOK
  <2>2. ASSUME NEW d \in Callers \ {c} PROVE CallInv(d)'
    BY <1>1, <2>1, FreeMeansNotSwitching, CallUntouched DEF ClientInv
  <2>3. CallInv(c)'
    <3>0. CallInv(c) /\ result[c] \in Results /\ result'[c] = result[c]
      BY <2>1 DEF ClientInv, TypeOK
    <3>1. CASE TakeAttempt(c)
      <4>1. pc[c] = "attempt" /\ pc'[c] \in {"callHalf", "rejected"}
        BY <3>1 DEF TakeAttempt, Move, TypeOK
      <4> QED
        BY <1>1, <3>0, <4>1 DEF CallInv, Past, Resting
    <3>2. CASE ContextDone(c)
      BY <1>1, <3>0, <3>2 DEF ContextDone, CallInv, mutex, TypeOK
    <3>3. CASE GiveUpMutex(c)
      BY <1>1, <3>0, <3>3 DEF GiveUpMutex, Move, CallInv, Past, Resting, TypeOK
    <3>4. CASE ClosedCallSucceeds(c) \/ TrialDecides(c)
      BY <1>1, <3>0, <3>4 DEF ClosedCallSucceeds, TrialDecides, SwitchState, Move, CallInv,
         IsErrorOk, Past, Resting, TypeOK, Closed, Opened, Results
    <3>5. CASE ClosedCallFails(c)
      BY <1>1, <3>0, <3>5 DEF ClosedCallFails, SwitchState, Move, CallInv, IsErrorOk, Past,
         Resting, TypeOK, Closed, Opened, Results
    <3> QED
      BY <1>3, <3>1, <3>2, <3>3, <3>4, <3>5 DEF BreakerStep
  <2> QED
    BY <1>1, <2>2, <2>3 DEF ClientInv
<1> QED
  BY <1>2, <1>3

(* Steps of the client's own.                                              *)
LEMMA CallbackClientInv ==
    ASSUME TypeOK, ClientInv, NEW c \in Callers,
           \/ ClientDo(c) \/ (\E what \in Replies \ {"none"} : RequestEnds(c, what))
           \/ LimiterLets(c) \/ LimiterRefuses(c) \/ TimeoutClosesBody(c)
    PROVE  ClientInv'
<1>1. /\ \A d \in Callers \ {c} : /\ pc'[d] = pc[d] /\ ctxDone'[d] = ctxDone[d]
                                  /\ result'[d] = result[d] /\ reply'[d] = reply[d]
                                  /\ body'[d] = body[d]
      /\ UNCHANGED switchTo
      /\ ClientTypeOK'
  BY DEF ClientDo, Do, RequestEnds, LimiterLets, LimiterRefuses, CallbackReturns,
     TimeoutClosesBody, Move, mutex, vars, calls, clientVars, TypeOK, ClientInv,
     ClientTypeOK, Replies, Bodies
<1>2. ASSUME NEW d \in Callers \ {c} PROVE CallInv(d)'
  BY <1>1, <1>2, CallUntouched DEF ClientInv
<1>3. CallInv(c)'
  <2>0. CallInv(c)
    BY DEF ClientInv
  <2>1. CASE ClientDo(c)
    <3>1. /\ reply'[c] = "none" /\ body'[c] = "none"
          /\ pc'[c] \in {"callClosed", "attempt", "rejected"}
      BY <2>1 DEF ClientDo, Do, Move, TypeOK, ClientInv, ClientTypeOK
    <3> QED
      BY <3>1 DEF CallInv, Past
  <2>2. CASE \E what \in Replies \ {"none"} : RequestEnds(c, what)
    <3>1. /\ pc'[c] \in {"callClosed", "callHalf"}
          /\ body'[c] = "none" \/ (body'[c] = "open" /\ reply'[c] \in {"good", "bad"})
      BY <2>2 DEF RequestEnds, InCallback, vars, calls, ClientInv, ClientTypeOK
    <3> QED
      BY <3>1 DEF CallInv, Past, Resting
  <2>3. CASE LimiterLets(c) \/ LimiterRefuses(c)
    <3>1. /\ pc[c] \in {"callClosed", "callHalf"} /\ reply[c] \in {"good", "bad", "error"}
          /\ reply'[c] = reply[c] /\ ctxDone'[c] = ctxDone[c]
          /\ \/ body'[c] = body[c] /\ LimiterRefuses(c)
             \/ body'[c] = (IF reply[c] = "bad" THEN "none" ELSE body[c]) /\ LimiterLets(c)
      BY <2>3 DEF LimiterLets, LimiterRefuses, CallbackReturns, InCallback, clientVars,
         ClientInv, ClientTypeOK, Replies
    <3>2. CASE ctxDone[c]
      <4>1. pc'[c] = "idle" /\ ctxDone'[c]
        BY <2>3, <3>1, <3>2 DEF LimiterLets, LimiterRefuses, CallbackReturns, Move, TypeOK
      <4> QED
        BY <2>0, <3>1, <4>1 DEF CallInv, Past, Resting
    <3>3. CASE ~ctxDone[c]
      <4>1. /\ pc'[c] \in {"lockClosed", "lockHalf"}
            /\ LimiterLets(c) => result'[c] = Verdict(reply[c])
            /\ LimiterRefuses(c) => result'[c] = "ignore"
        BY <2>3, <3>1, <3>3 DEF LimiterLets, LimiterRefuses, CallbackReturns, Move, TypeOK
      <4>2. body[c] = "open" => reply[c] # "error"
        BY <2>0, <3>1 DEF CallInv
      <4> QED
        BY <2>0, <3>1, <4>1, <4>2 DEF CallInv, Verdict, Past, Resting
    <3> QED
      BY <3>2, <3>3
  <2>4. CASE TimeoutClosesBody(c)
    <3>1. body'[c] = "none" /\ UNCHANGED <<pc, switchTo, result, reply>>
      BY <2>4 DEF TimeoutClosesBody, vars, calls, mutex, ClientInv, ClientTypeOK
    <3> QED
      BY <2>0, <3>1 DEF CallInv
  <2> QED
    BY <2>1, <2>2, <2>3, <2>4
<1> QED
  BY <1>1, <1>2, <1>3 DEF ClientInv

LEMMA NextClientInv == TypeOK /\ ClientInv /\ [ClientNext]_allVars => ClientInv'
<1> SUFFICES ASSUME TypeOK, ClientInv, [ClientNext]_allVars PROVE ClientInv'
  OBVIOUS
<1>1. CASE UNCHANGED allVars
  BY <1>1 DEF allVars, vars, calls, mutex, clientVars, ClientInv, ClientTypeOK, CallInv
<1>2. CASE DoReturns
  BY <1>2, ReturnClientInv
<1>3. CASE TimerStep /\ UNCHANGED clientVars
  BY <1>3, BreakerClientInv
<1>4. ASSUME NEW c \in Callers, ClientStep(c)
      PROVE  ClientInv'
  BY <1>4, ReturnClientInv, BreakerClientInv, CallbackClientInv DEF ClientStep
<1> QED
  BY <1>1, <1>2, <1>3, <1>4 DEF ClientNext

LEMMA AlwaysClientInv == ClientSpec => [](TypeOK /\ ClientInv)
<1>1. ClientSpec => []TypeOK
  BY ClientImplementsBreaker, BreakerInvariant, PTL
<1> QED
  BY <1>1, InitClientInv, NextClientInv, PTL DEF ClientSpec

(* For any number of callers: a response that is handed out is a good one, *)
(* and a body that nobody gets is closed unless the limiter or the context *)
(* gave up.                                                                *)
THEOREM ClientClosesBodies == ClientSpec => []BodiesAreClosed
<1>1. ClientInv => BodiesAreClosed
  BY DEF ClientInv, CallInv, BodiesAreClosed
<1> QED
  BY <1>1, AlwaysClientInv, PTL

(* For any number of callers: a call closes the breaker only after a good  *)
(* response or a limiter that gave up, and opens it only after a bad one.  *)
THEOREM ClientTellsBreaker == ClientSpec => []BreakerFollowsTarget
<1>1. TypeOK /\ ClientInv => BreakerFollowsTarget
  BY DEF ClientInv, CallInv, BreakerFollowsTarget, Past, TypeOK, Results
<1> QED
  BY <1>1, AlwaysClientInv, PTL
=============================================================================
