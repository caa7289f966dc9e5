--------------------------- MODULE CircuitBreaker ---------------------------
(***************************************************************************)
(* The circuit breaker that guards every HTTP client of a provider         *)
(* (topolib/circuit_breaker.go).  Any number of goroutines call Do at the  *)
(* same time; two time.AfterFunc timers run their callbacks in goroutines  *)
(* of their own.  Everything but the fast path (the atomic load of state   *)
(* in Do and the compare-and-swap of halfOpenAttempts in doHalfOpened) is  *)
(* serialised by stateMutexChan, a channel of capacity one.                *)
(*                                                                         *)
(* A critical section is two steps here: the step that takes the mutex and *)
(* ends with the atomic store of halfOpenAttempts, and the step that       *)
(* stores state and gives the mutex back.  The fast path of another caller *)
(* can run between the two atomic stores of switchState, and nothing else  *)
(* of the section is visible without the mutex.                            *)
(***************************************************************************)
EXTENDS Naturals

CONSTANTS
    Callers,        \* goroutines that call Do
    Cancellable,    \* those of them whose context may be done before Do ends
    OpenThreshold,  \* openThreshold
    MaxPending      \* bound: callbacks of one timer that wait for the mutex

Nobody     == "nobody"
TimerFuncs == {"tryHalfOpen", "resetFailures"}

ASSUME CallersAssumption ==
    /\ Cancellable \subseteq Callers
    /\ Callers \cap (TimerFuncs \cup {Nobody}) = {}

ASSUME BoundsAssumption ==
    /\ OpenThreshold \in Nat
    /\ MaxPending \in Nat \ {0}

VARIABLES
    state,                 \* c.state
    stateMutexChan,        \* who has its token in the channel, or Nobody
    switchTo,              \* the state the holder is about to store
    halfOpenTimer,         \* c.halfOpenTimer
    failuresCleanupTimer,  \* c.failuresCleanupTimer
    pending,               \* started timer callbacks that wait for the mutex
    halfOpenAttempts,      \* c.halfOpenAttempts
    failuresCount,         \* c.failuresCount
    pc,                    \* where each caller is in Do
    result,                \* what its callback returned
    ctxDone                \* is its context done?

timers   == <<halfOpenTimer, failuresCleanupTimer>>
counters == <<halfOpenAttempts, failuresCount>>
calls    == <<pc, result, ctxDone>>
mutex    == <<state, stateMutexChan, switchTo, timers>>
vars     == <<mutex, pending, counters, calls>>

-----------------------------------------------------------------------------

Closed     == "Closed"
HalfOpened == "HalfOpened"
Opened     == "Opened"
States     == {Closed, HalfOpened, Opened}

(* A timer reference is nil, or points to a timer that runs, or to one     *)
(* that has fired (its callback is a goroutine now and Stop is too late).  *)
TimerRefs == {"nil", "armed", "fired"}

Results    == {"ok", "ignore", "fail"}
InFlight   == {"callClosed", "callHalf", "lockClosed", "lockHalf"}
Resting    == {"idle", "rejected"}
Locations  == Resting \cup InFlight \cup {"attempt", "switching"}

(* isErrorOk: no error, or ErrCircuitBreakerIgnore.                        *)
IsErrorOk(r) == r \in {"ok", "ignore"}

Move(c, to) == pc' = [pc EXCEPT ![c] = to]

MutexIsFree == stateMutexChan = Nobody

(* The state as the mutex holder leaves it.                                *)
Effective == IF MutexIsFree THEN state ELSE switchTo

-----------------------------------------------------------------------------
(* The timers.                                                             *)

(* Mutant of StopTimer: the reference keeps the stopped timer.             *)
StopTimerKeepsReference(ref) == IF ref = "armed" THEN "fired" ELSE ref

(* stopTimer: the timer never fires any more, but a callback that has      *)
(* started already is not called back.                                     *)
StopTimer(ref) == "nil"

EnsureTimer(ref) == IF ref = "nil" THEN "armed" ELSE ref

(* Mutant of SetTimers: opening the breaker stops halfOpenTimer, too.       *)
SetTimersNoHalfOpen(s, cleanupRef) ==
    /\ halfOpenTimer' = StopTimer(halfOpenTimer)
    /\ failuresCleanupTimer' = IF s = Closed THEN EnsureTimer(cleanupRef)
                                             ELSE StopTimer(cleanupRef)

(* The timers that switchState(s) leaves behind.  cleanupRef is            *)
(* failuresCleanupTimer as the caller of switchState leaves it.            *)
SetTimers(s, cleanupRef) ==
    /\ halfOpenTimer' = IF s = Opened THEN EnsureTimer(halfOpenTimer)
                                      ELSE StopTimer(halfOpenTimer)
    /\ failuresCleanupTimer' = IF s = Closed THEN EnsureTimer(cleanupRef)
                                             ELSE StopTimer(cleanupRef)

(* Mutant of ResetCounters: the attempt is not given back.                 *)
ResetCountersKeepsAttempt == failuresCount' = 0 /\ UNCHANGED halfOpenAttempts

ResetCounters == failuresCount' = 0 /\ halfOpenAttempts' = 0

(* switchState up to the store of halfOpenAttempts.                        *)
SwitchState(who, s, cleanupRef) ==
    /\ stateMutexChan' = who
    /\ switchTo' = s
    /\ SetTimers(s, cleanupRef)
    /\ ResetCounters

(* The rest of switchState, and the deferred receive that gives the mutex  *)
(* back: the caller's Do ends, or the timer's callback does.               *)
StoreState ==
    /\ ~MutexIsFree
    /\ state' = switchTo
    /\ stateMutexChan' = Nobody
    /\ pc' = [c \in Callers |-> IF c = stateMutexChan THEN "idle" ELSE pc[c]]
    /\ UNCHANGED <<switchTo, timers, pending, counters, result, ctxDone>>

-----------------------------------------------------------------------------
(* Do, and the first half of doClosed and doHalfOpened.                    *)

Do(c) ==
    /\ pc[c] \in Resting
    /\ \/ state = Closed     /\ Move(c, "callClosed")
       \/ state = HalfOpened /\ Move(c, "attempt")
       \/ state = Opened     /\ Move(c, "rejected")
    /\ ctxDone' = [ctxDone EXCEPT ![c] = FALSE]
    /\ UNCHANGED <<mutex, pending, counters, result>>

(* Mutant of TakeAttempt: an unconditional atomic increment.               *)
TakeAttemptByIncrement(c) ==
    /\ pc[c] = "attempt"
    /\ halfOpenAttempts' = halfOpenAttempts + 1
    /\ Move(c, "callHalf")
    /\ UNCHANGED <<mutex, pending, failuresCount, result, ctxDone>>

(* The compare-and-swap at the top of doHalfOpened.                        *)
TakeAttempt(c) ==
    /\ pc[c] = "attempt"
    /\ \/ /\ halfOpenAttempts = 0
          /\ halfOpenAttempts' = 1
          /\ Move(c, "callHalf")
       \/ /\ halfOpenAttempts # 0
          /\ UNCHANGED halfOpenAttempts
          /\ Move(c, "rejected")
    /\ UNCHANGED <<mutex, pending, failuresCount, result, ctxDone>>

(* The client goes away, or the request's timeout expires.                 *)
ContextDone(c) ==
    /\ c \in Cancellable
    /\ pc[c] \in InFlight \cup {"attempt"}
    /\ ~ctxDone[c]
    /\ ctxDone' = [ctxDone EXCEPT ![c] = TRUE]
    /\ UNCHANGED <<mutex, pending, counters, pc, result>>

(* The callback returns r, and the outer select looks at the context once. *)
CallbackReturns(c, r) ==
    /\ pc[c] \in {"callClosed", "callHalf"}
    /\ IF ctxDone[c]
         THEN Move(c, "idle") /\ UNCHANGED result
         ELSE /\ Move(c, IF pc[c] = "callClosed" THEN "lockClosed" ELSE "lockHalf")
              /\ result' = [result EXCEPT ![c] = r]
    /\ UNCHANGED <<mutex, pending, counters, ctxDone>>

(* The inner select finds the context done while it waits for the mutex.   *)
GiveUpMutex(c) ==
    /\ pc[c] \in {"lockClosed", "lockHalf"}
    /\ ctxDone[c]
    /\ Move(c, "idle")
    /\ UNCHANGED <<mutex, pending, counters, result, ctxDone>>

-----------------------------------------------------------------------------
(* doClosed with the mutex.                                                *)

(* A success always switches to Closed, whatever the state is by now.      *)
ClosedCallSucceeds(c) ==
    /\ pc[c] = "lockClosed"
    /\ MutexIsFree
    /\ IsErrorOk(result[c])
    /\ SwitchState(c, Closed, failuresCleanupTimer)
    /\ Move(c, "switching")
    /\ UNCHANGED <<state, pending, result, ctxDone>>

(* Does the failure that is counted now open the breaker?                  *)
TooManyFailures == failuresCount + 1 > OpenThreshold

ClosedCallFails(c) ==
    /\ pc[c] = "lockClosed"
    /\ MutexIsFree
    /\ ~IsErrorOk(result[c])
    /\ IF state = Closed /\ TooManyFailures
         THEN /\ SwitchState(c, Opened, failuresCleanupTimer)
              /\ Move(c, "switching")
         ELSE /\ failuresCount' = failuresCount + 1
              /\ Move(c, "idle")
              /\ UNCHANGED <<stateMutexChan, switchTo, timers, halfOpenAttempts>>
    /\ UNCHANGED <<state, pending, result, ctxDone>>

(* doHalfOpened with the mutex.                                            *)

(* The breaker has left HalfOpened while the request was under way.        *)
TrialIsLate(c) ==
    /\ pc[c] = "lockHalf"
    /\ MutexIsFree
    /\ state # HalfOpened
    /\ Move(c, "idle")
    /\ UNCHANGED <<mutex, pending, counters, result, ctxDone>>

(* Mutant of TrialDecides: a failed trial does not reopen the breaker.     *)
TrialDecidesOnlySuccess(c) ==
    /\ pc[c] = "lockHalf"
    /\ MutexIsFree
    /\ state = HalfOpened
    /\ IF IsErrorOk(result[c])
         THEN SwitchState(c, Closed, failuresCleanupTimer) /\ Move(c, "switching")
         ELSE /\ Move(c, "idle")
              /\ UNCHANGED <<stateMutexChan, switchTo, timers, counters>>
    /\ UNCHANGED <<state, pending, result, ctxDone>>

(* The trial's own outcome, or an older trial's, decides.                  *)
TrialDecides(c) ==
    /\ pc[c] = "lockHalf"
    /\ MutexIsFree
    /\ state = HalfOpened
    /\ SwitchState(c, IF IsErrorOk(result[c]) THEN Closed ELSE Opened,
                   failuresCleanupTimer)
    /\ Move(c, "switching")
    /\ UNCHANGED <<state, pending, result, ctxDone>>

-----------------------------------------------------------------------------
(* The callbacks of the two timers.                                        *)

HalfOpenTimerFires ==
    /\ halfOpenTimer = "armed"
    /\ pending["tryHalfOpen"] < MaxPending
    /\ halfOpenTimer' = "fired"
    /\ pending' = [pending EXCEPT !["tryHalfOpen"] = @ + 1]
    /\ UNCHANGED <<state, stateMutexChan, switchTo, failuresCleanupTimer, counters, calls>>

FailuresCleanupTimerFires ==
    /\ failuresCleanupTimer = "armed"
    /\ pending["resetFailures"] < MaxPending
    /\ failuresCleanupTimer' = "fired"
    /\ pending' = [pending EXCEPT !["resetFailures"] = @ + 1]
    /\ UNCHANGED <<state, stateMutexChan, switchTo, halfOpenTimer, counters, calls>>

(* Mutant of TryHalfOpen: the state is not looked at again.                *)
TryHalfOpenUnchecked ==
    /\ pending["tryHalfOpen"] > 0
    /\ MutexIsFree
    /\ pending' = [pending EXCEPT !["tryHalfOpen"] = @ - 1]
    /\ SwitchState("tryHalfOpen", HalfOpened, failuresCleanupTimer)
    /\ UNCHANGED <<state, calls>>

TryHalfOpen ==
    /\ pending["tryHalfOpen"] > 0
    /\ MutexIsFree
    /\ pending' = [pending EXCEPT !["tryHalfOpen"] = @ - 1]
    /\ IF state = Opened
         THEN SwitchState("tryHalfOpen", HalfOpened, failuresCleanupTimer)
         ELSE UNCHANGED <<stateMutexChan, switchTo, timers, counters>>
    /\ UNCHANGED <<state, calls>>

(* Mutant of ResetFailures: the timer that has fired is not dropped.       *)
ResetFailuresKeepsTimer ==
    /\ pending["resetFailures"] > 0
    /\ MutexIsFree
    /\ pending' = [pending EXCEPT !["resetFailures"] = @ - 1]
    /\ IF state = Closed
         THEN SwitchState("resetFailures", Closed, failuresCleanupTimer)
         ELSE UNCHANGED <<stateMutexChan, switchTo, timers, counters>>
    /\ UNCHANGED <<state, calls>>

ResetFailures ==
    /\ pending["resetFailures"] > 0
    /\ MutexIsFree
    /\ pending' = [pending EXCEPT !["resetFailures"] = @ - 1]
    /\ IF state = Closed
         THEN SwitchState("resetFailures", Closed, StopTimer(failuresCleanupTimer))
         ELSE /\ failuresCleanupTimer' = StopTimer(failuresCleanupTimer)
              /\ UNCHANGED <<stateMutexChan, switchTo, halfOpenTimer, counters>>
    /\ UNCHANGED <<state, calls>>

-----------------------------------------------------------------------------

(* newCircuitBreaker: the zero struct after switchState(Closed).           *)
Init ==
    /\ state = Closed
    /\ stateMutexChan = Nobody
    /\ switchTo = Closed
    /\ halfOpenTimer = "nil"
    /\ failuresCleanupTimer = "armed"
    /\ pending = [f \in TimerFuncs |-> 0]
    /\ halfOpenAttempts = 0
    /\ failuresCount = 0
    /\ pc = [c \in Callers |-> "idle"]
    /\ result = [c \in Callers |-> "ok"]
    /\ ctxDone = [c \in Callers |-> FALSE]

CallerStep(c) ==
    \/ Do(c)
    \/ TakeAttempt(c)
    \/ ContextDone(c)
    \/ \E r \in Results : CallbackReturns(c, r)
    \/ GiveUpMutex(c)
    \/ ClosedCallSucceeds(c)
    \/ ClosedCallFails(c)
    \/ TrialIsLate(c)
    \/ TrialDecides(c)

TimerStep ==
    \/ HalfOpenTimerFires
    \/ FailuresCleanupTimerFires
    \/ TryHalfOpen
    \/ ResetFailures

Next == StoreState \/ TimerStep \/ \E c \in Callers : CallerStep(c)

Spec == Init /\ [][Next]_vars

(* Timers fire and callbacks return (an HTTP client has a timeout).  Who   *)
(* waits for stateMutexChan waits in the FIFO queue of a Go channel, so it *)
(* gets the mutex even though others take it in between.                   *)
TakesMutex(c) ==
    ClosedCallSucceeds(c) \/ ClosedCallFails(c) \/ TrialIsLate(c) \/ TrialDecides(c)

Fairness ==
    /\ WF_vars(StoreState)
    /\ WF_vars(HalfOpenTimerFires)
    /\ WF_vars(FailuresCleanupTimerFires)
    /\ SF_vars(TryHalfOpen)
    /\ SF_vars(ResetFailures)
    /\ \A c \in Callers :
          /\ WF_vars(\E r \in Results : CallbackReturns(c, r))
          /\ SF_vars(TakesMutex(c))

FairSpec == Spec /\ Fairness

-----------------------------------------------------------------------------
(* Properties that hold.                                                   *)

(* Every variable has its type, halfOpenAttempts is a flag, and exactly    *)
(* the caller that holds the mutex is inside switchState.                  *)
TypeOK ==
    /\ state \in States
    /\ stateMutexChan \in Callers \cup TimerFuncs \cup {Nobody}
    /\ switchTo \in States
    /\ halfOpenTimer \in TimerRefs
    /\ failuresCleanupTimer \in TimerRefs
    /\ pending \in [TimerFuncs -> 0..MaxPending]
    /\ halfOpenAttempts \in {0, 1}
    /\ failuresCount \in Nat
    /\ pc \in [Callers -> Locations]
    /\ result \in [Callers -> Results]
    /\ ctxDone \in [Callers -> BOOLEAN]
    /\ \A c \in Callers : pc[c] = "switching" <=> stateMutexChan = c

(* No lost wakeup.  Whatever stale callbacks and late requests do, an      *)
(* opened breaker has a half-open timer that runs or whose callback is on  *)
(* its way, a closed one has such a cleanup timer, and no timer of another *)
(* state is left behind.                                                   *)
TimersMatchState ==
    /\ Effective = Opened <=> halfOpenTimer # "nil"
    /\ Effective = Closed <=> failuresCleanupTimer # "nil"
    /\ halfOpenTimer = "fired" => pending["tryHalfOpen"] > 0
    /\ failuresCleanupTimer = "fired" => pending["resetFailures"] > 0

(* Failures that late requests report while the breaker is opened or half  *)
(* opened are never carried into a closed period, which therefore never    *)
(* holds more than openThreshold of them.                                  *)
FailuresBelowThreshold == Effective = Closed => failuresCount <= OpenThreshold

(* While the breaker is half opened and its attempt is taken, a request is *)
(* under way that will decide: the attempt is never lost to a stale CAS or *)
(* to a trial of an earlier period.  Holds when no context is ever done.   *)
TrialIsInFlight ==
    Effective = HalfOpened /\ halfOpenAttempts = 1 =>
        \E c \in Callers : pc[c] \in {"callHalf", "lockHalf"}

(* The breaker, with its mutex, its two timers and all the stale callbacks *)
(* and late requests, implements the three-state machine of                *)
(* BreakerContract, in which every critical section is one step.           *)
Contract == INSTANCE BreakerContract WITH
    phase     <- Effective,
    failures  <- IF Effective = Closed THEN failuresCount ELSE 0,
    Threshold <- OpenThreshold

ImplementsContract == Contract!Spec

(* An opened breaker does not stay opened.                                 *)
OpenedIsLeft == state = Opened ~> state # Opened

(* Failures of a closed breaker are forgotten after a while (or opened it).*)
FailuresAreForgotten == state = Closed /\ failuresCount > 0 ~> failuresCount = 0

(* The breaker leaves HalfOpened once its one attempt is taken.  The       *)
(* comment of NewHTTPClient: "Within this state we allow 1 attempt.  If    *)
(* this attempt fails, then it goes into OPEN state again.  If succeed -   *)
(* goes to CLOSED."  Holds when no context is ever done, and fails when a  *)
(* trial's context may be.                                                 *)
TrialEnds == state = HalfOpened /\ halfOpenAttempts = 1 ~> state # HalfOpened
=============================================================================
