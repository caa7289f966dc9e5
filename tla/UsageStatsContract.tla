-------------------------- MODULE UsageStatsContract --------------------------
(***************************************************************************)
(* What the UsageStats of the providers promise (topolib/usage_stats.go),  *)
(* without their mutexes: notifyUsed and MarshalJSON happen in one step    *)
(* each, however many goroutines call them at the same time.               *)
(***************************************************************************)
EXTENDS Naturals

CONSTANTS
    Providers,
    Lookups,  \* pairs of a task and the provider that it asks
    Readers   \* requests for the statistics

VARIABLES
    result,   \* what each lookup has returned
    used,     \* the lookups that were counted
    uses,     \* uses[p]: how many lookups of p have succeeded and failed
    told      \* told[r][p]: the set of what r was told about p, at most one thing

vars == <<result, used, uses, told>>

Init ==
    /\ result = [l \in Lookups |-> "none"]
    /\ used = {}
    /\ uses = [p \in Providers |-> [success |-> 0, failure |-> 0]]
    /\ told = [r \in Readers |-> [p \in Providers |-> {}]]

Return(l) ==
    /\ result[l] = "none"
    /\ \E what \in {"error", "country", "city"} : result' = [result EXCEPT ![l] = what]
    /\ UNCHANGED <<used, uses, told>>

(* u and one more lookup with this result.                                 *)
OneMore(u, what) ==
    IF what = "error" THEN [success |-> u.success, failure |-> u.failure + 1]
                      ELSE [success |-> u.success + 1, failure |-> u.failure]

(* notifyUsed: a lookup is counted once, for its own provider.             *)
Use(l) ==
    /\ result[l] # "none"
    /\ l \notin used
    /\ used' = used \cup {l}
    /\ uses' = [uses EXCEPT ![l[2]] = OneMore(@, result[l])]
    /\ UNCHANGED <<result, told>>

(* MarshalJSON tells both counters as they are at one moment.              *)
Tell(r, p) ==
    /\ told[r][p] = {}
    /\ told' = [told EXCEPT ![r][p] = {uses[p]}]
    /\ UNCHANGED <<result, used, uses>>

Next ==
    \/ \E l \in Lookups : Return(l) \/ Use(l)
    \/ \E r \in Readers, p \in Providers : Tell(r, p)

Spec == Init /\ [][Next]_vars
=============================================================================
