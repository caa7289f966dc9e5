---------------------------- MODULE MCTopographer ----------------------------
(* Small instances of Topographer for TLC.                                 *)
EXTENDS Topographer

CONSTANTS single, batch, p1, p2, unknown

OneBatch     == {batch}
OneSingle    == {single}
BothRequests == {single, batch}
NoRequests   == {}
TwoProviders == {p1, p2}
OneProvider  == {p1}

(* All providers, one of them, and one that is not there.                  *)
AllQueries  == {{}, {p1}, {p1, unknown}}
DefaultOnly == {{}}
=============================================================================
