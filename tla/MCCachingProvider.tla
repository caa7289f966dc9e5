-------------------------- MODULE MCCachingProvider --------------------------
(* A small instance of CachingProvider for TLC.                            *)
EXTENDS CachingProvider

CONSTANTS l1, l2, d1, d2, ip

TwoLookups   == {l1, l2}
TwoDatabases == {d1, d2}
OneKey       == {ip}
=============================================================================
