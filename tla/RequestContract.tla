--------------------------- MODULE RequestContract ---------------------------
(***************************************************************************)
(* What Resolve, ResolveAll and Shutdown promise to those who call them    *)
(* (topolib/topographer.go), without the pool, the channels, the wait      *)
(* groups and the mutex: a call is refused, or it is let in and answered   *)
(* in one step, completely unless its context is done; Shutdown lets       *)
(* nobody else in and comes into effect when everybody is answered.        *)
(***************************************************************************)
CONSTANTS
    Requests,   \* calls of Resolve and ResolveAll
    IPs,        \* IPs[r]: what r asks about
    Providers

VARIABLES
    call,       \* where each call is: idle, asked, returned
    asking,     \* the providers that it asks
    cancelled,  \* is its context done?
    outcome,    \* what it returned: a result or an error
    answer,     \* for each IP with a result, the providers with a detail in it
    service     \* open, closing or closed

vars == <<call, asking, cancelled, outcome, answer, service>>

NoAnswer == [ip \in {} |-> {}]

Init ==
    /\ call = [r \in Requests |-> "idle"]
    /\ asking = [r \in Requests |-> {}]
    /\ cancelled = [r \in Requests |-> FALSE]
    /\ outcome = [r \in Requests |-> "none"]
    /\ answer = [r \in Requests |-> NoAnswer]
    /\ service = "open"

Refuse(r) ==
    /\ call[r] = "idle"
    /\ call' = [call EXCEPT ![r] = "returned"]
    /\ \/ service = "closed" /\ outcome' = [outcome EXCEPT ![r] = "shutdown"]
       \/ service = "open"   /\ outcome' = [outcome EXCEPT ![r] = "unknownProvider"]
    /\ UNCHANGED <<asking, cancelled, answer, service>>

Ask(r) ==
    /\ call[r] = "idle"
    /\ service = "open"
    /\ call' = [call EXCEPT ![r] = "asked"]
    /\ \E ps \in SUBSET Providers : asking' = [asking EXCEPT ![r] = ps]
    /\ UNCHANGED <<cancelled, outcome, answer, service>>

Cancel(r) ==
    /\ call[r] = "asked"
    /\ cancelled' = [cancelled EXCEPT ![r] = TRUE]
    /\ UNCHANGED <<call, asking, outcome, answer, service>>

(* Every provider that was asked has a detail in the result of every IP.   *)
Complete(r) == [ip \in IPs[r] |-> asking[r]]

(* What is left of it once the context is done.                            *)
Partial(r) == UNION {[ips -> SUBSET asking[r]] : ips \in SUBSET IPs[r]}

Answer(r) ==
    /\ call[r] = "asked"
    /\ call' = [call EXCEPT ![r] = "returned"]
    /\ outcome' = [outcome EXCEPT ![r] = "result"]
    /\ \E a \in Partial(r) :
          /\ cancelled[r] \/ a = Complete(r)
          /\ answer' = [answer EXCEPT ![r] = a]
    /\ UNCHANGED <<asking, cancelled, service>>

Shutdown ==
    /\ service = "open"
    /\ service' = "closing"
    /\ UNCHANGED <<call, asking, cancelled, outcome, answer>>

Close ==
    /\ service = "closing"
    /\ \A r \in Requests : call[r] # "asked"
    /\ service' = "closed"
    /\ UNCHANGED <<call, asking, cancelled, outcome, answer>>

Next ==
    \/ \E r \in Requests : Refuse(r) \/ Ask(r) \/ Cancel(r) \/ Answer(r)
    \/ Shutdown
    \/ Close

Spec == Init /\ [][Next]_vars
=============================================================================
