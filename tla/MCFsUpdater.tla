----------------------------- MODULE MCFsUpdater -----------------------------
(* Small instances of FsUpdater for TLC.                                   *)
EXTENDS FsUpdater

CONSTANTS v1, v2, v3

TwoVersions   == {v1, v2}
ThreeVersions == {v1, v2, v3}
=============================================================================
