--------------------------- MODULE BreakerContract ---------------------------
(***************************************************************************)
(* What the circuit breaker of topolib promises to its callers, without    *)
(* its mutex, timers and atomics: a machine of three phases that counts    *)
(* the failures of the closed one.                                         *)
(***************************************************************************)
EXTENDS Naturals

CONSTANT Threshold

VARIABLES phase, failures

Init == phase = "Closed" /\ failures = 0

(* A failure that the closed breaker tolerates, Threshold of them at most. *)
CountFailure ==
    /\ phase = "Closed"
    /\ failures < Threshold
    /\ failures' = failures + 1
    /\ UNCHANGED phase

(* The failure that is one too many.  The comment of NewHTTPClient lets    *)
(* the breaker open with failure number Threshold, the code does with the  *)
(* one after it: a user may rely on either, and on no other.               *)
Trip ==
    /\ phase = "Closed"
    /\ failures + 1 >= Threshold
    /\ phase' = "Opened"
    /\ failures' = 0

(* A pause is over: one trial is allowed.                                  *)
HalfOpen ==
    /\ phase = "Opened"
    /\ phase' = "HalfOpened"
    /\ UNCHANGED failures

(* The trial has failed.                                                   *)
Reopen ==
    /\ phase = "HalfOpened"
    /\ phase' = "Opened"
    /\ UNCHANGED failures

(* A success, of a request that may have started in an earlier phase, or   *)
(* the end of the period failures are remembered for.                      *)
Recover ==
    /\ phase' = "Closed"
    /\ failures' = 0

Next == CountFailure \/ Trip \/ HalfOpen \/ Reopen \/ Recover

Spec == Init /\ [][Next]_<<phase, failures>>
=============================================================================
