----------------------------- MODULE HttpClient -----------------------------
(***************************************************************************)
(* The HTTP client of a provider (topolib/http_client.go): a timeout on    *)
(* the request's context, and a callback of the circuit breaker that makes *)
(* the request, waits for the rate limiter and turns responses with a bad  *)
(* status into errors.  CircuitBreaker has the breaker, in which the       *)
(* callback is one step with any result; here it has its own steps, and    *)
(* response bodies are followed until somebody closes them.                *)
(*                                                                         *)
(* rateLimiter.Wait fails at once if the context has a deadline that comes *)
(* before the limiter's turn, so that it may fail before the context is    *)
(* done, in every call that may time out.                                  *)
(***************************************************************************)
EXTENDS CircuitBreaker

VARIABLES
    reply,  \* what http.Client.Do returned to each caller's callback
    body    \* the response body of each caller's last request

clientVars == <<reply, body>>
allVars    == <<vars, clientVars>>

(* No answer yet, a response, one with a status of 400 or more, no response.*)
Replies == {"none", "good", "bad", "error"}
Bodies  == {"none", "open", "handed"}   \* none: there is none, or it is closed

InCallback(c) == pc[c] \in {"callClosed", "callHalf"}

-----------------------------------------------------------------------------

(* Do.  A caller of this model calls again when its last body is closed.   *)
ClientDo(c) ==
    /\ body[c] # "open"
    /\ Do(c)
    /\ reply' = [reply EXCEPT ![c] = "none"]
    /\ body' = [body EXCEPT ![c] = "none"]

RequestEnds(c, what) ==
    /\ InCallback(c)
    /\ reply[c] = "none"
    /\ reply' = [reply EXCEPT ![c] = what]
    /\ body' = [body EXCEPT ![c] = IF what \in {"good", "bad"} THEN "open" ELSE "none"]
    /\ UNCHANGED vars

(* Mutant of Verdict: only a connection that fails is an error.            *)
VerdictOfConnection(what) == IF what = "error" THEN "fail" ELSE "ok"

(* What the callback returns to the breaker.                               *)
Verdict(what) == IF what = "good" THEN "ok" ELSE "fail"

(* Mutant of LimiterLets: the body of a bad response is not closed.        *)
LimiterLetsLeak(c) ==
    /\ InCallback(c)
    /\ reply[c] # "none"
    /\ CallbackReturns(c, Verdict(reply[c]))
    /\ UNCHANGED clientVars

(* The limiter lets the request pass, after it was made.                   *)
LimiterLets(c) ==
    /\ InCallback(c)
    /\ reply[c] # "none"
    /\ CallbackReturns(c, Verdict(reply[c]))
    /\ body' = [body EXCEPT ![c] = IF reply[c] = "bad" THEN "none" ELSE @]
    /\ UNCHANGED reply

(* rateLimiter.Wait fails: whatever the reply was, the breaker is told to  *)
(* ignore it, and the body is left as it is.                               *)
LimiterRefuses(c) ==
    /\ InCallback(c)
    /\ reply[c] # "none"
    /\ c \in Cancellable
    /\ CallbackReturns(c, "ignore")
    /\ UNCHANGED clientVars

(* The breaker returns what the callback returned.                         *)
HandOver(callers) ==
    /\ body' = [c \in Callers |->
                   IF c \in callers /\ result[c] = "ok" THEN "handed" ELSE body[c]]
    /\ UNCHANGED reply

DoReturns == StoreState /\ HandOver({stateMutexChan})
LateTrialReturns(c) == TrialIsLate(c) /\ HandOver({c})

(* The timeout of a request that has returned closes the body that was     *)
(* left open: nobody else can.                                             *)
TimeoutClosesBody(c) ==
    /\ body[c] = "open"
    /\ pc[c] \in Resting
    /\ body' = [body EXCEPT ![c] = "none"]
    /\ UNCHANGED <<vars, reply>>

-----------------------------------------------------------------------------

ClientInit ==
    /\ Init
    /\ reply = [c \in Callers |-> "none"]
    /\ body = [c \in Callers |-> "none"]

BreakerStep(c) ==
    TakeAttempt(c) \/ ContextDone(c) \/ GiveUpMutex(c) \/ ClosedCallSucceeds(c)
        \/ ClosedCallFails(c) \/ TrialDecides(c)

ClientStep(c) ==
    \/ ClientDo(c)
    \/ \E what \in Replies \ {"none"} : RequestEnds(c, what)
    \/ LimiterLets(c)
    \/ LimiterRefuses(c)
    \/ LateTrialReturns(c)
    \/ TimeoutClosesBody(c)
    \/ BreakerStep(c) /\ UNCHANGED clientVars

ClientNext ==
    \/ DoReturns
    \/ TimerStep /\ UNCHANGED clientVars
    \/ \E c \in Callers : ClientStep(c)

ClientSpec == ClientInit /\ [][ClientNext]_allVars

TimerRuns(A) == A /\ UNCHANGED clientVars

Reports(c) ==
    \/ (ClosedCallSucceeds(c) \/ ClosedCallFails(c) \/ TrialDecides(c)) /\ UNCHANGED clientVars
    \/ LateTrialReturns(c)

(* The fairness of CircuitBreaker, for the steps of its callback here:     *)
(* requests end, and so does the wait for the limiter.                     *)
ClientFairness ==
    /\ WF_allVars(DoReturns)
    /\ WF_allVars(TimerRuns(HalfOpenTimerFires))
    /\ WF_allVars(TimerRuns(FailuresCleanupTimerFires))
    /\ SF_allVars(TimerRuns(TryHalfOpen))
    /\ SF_allVars(TimerRuns(ResetFailures))
    /\ \A c \in Callers :
          /\ WF_allVars(\E what \in Replies \ {"none"} : RequestEnds(c, what))
          /\ WF_allVars(LimiterLets(c) \/ LimiterRefuses(c))
          /\ SF_allVars(Reports(c))

ClientFairSpec == ClientSpec /\ ClientFairness

-----------------------------------------------------------------------------
(* Properties.                                                             *)

(* A caller gets a response only if it is a good one, and a response that  *)
(* nobody gets is closed.  The exceptions are exactly two, and the timeout *)
(* of the request ends both: the limiter gave up, or the context was done  *)
(* after the response had come.                                            *)
BodiesAreClosed ==
    \A c \in Callers :
        /\ body[c] = "handed" => reply[c] = "good"
        /\ body[c] = "open" /\ pc[c] \in Resting => ctxDone[c] \/ result[c] = "ignore"

(* The breaker does what the target did: a call of this client closes it   *)
(* only after a good response (or if the limiter gave up, which hides what *)
(* the target did) and opens it only after a bad one or none.              *)
BreakerFollowsTarget ==
    \A c \in Callers : pc[c] = "switching" =>
        /\ switchTo = Closed => reply[c] = "good" \/ result[c] = "ignore"
        /\ switchTo = Opened => reply[c] \in {"bad", "error"}
=============================================================================
