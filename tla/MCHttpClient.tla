-------------------------- MODULE MCHttpClient ------------------------------
(* Small instances of HttpClient for TLC.                                  *)
EXTENDS HttpClient, TLC

CONSTANTS c1, c2, c3

TwoCallers   == {c1, c2}
ThreeCallers == {c1, c2, c3}
OneCaller    == {c1}
NoCallers    == {}

OthersSymmetry == Permutations({c2, c3})
=============================================================================
