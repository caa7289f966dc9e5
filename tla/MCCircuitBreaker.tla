-------------------------- MODULE MCCircuitBreaker --------------------------
(* A small instance of CircuitBreaker for TLC.                             *)
EXTENDS CircuitBreaker

CONSTANTS c1, c2

TwoCallers == {c1, c2}
=============================================================================
