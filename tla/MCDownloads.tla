----------------------------- MODULE MCDownloads -----------------------------
(***************************************************************************)
(* The updaters of a MaxMind and of a Software77 provider download at the  *)
(* same time, each in a goroutine and a directory of its own: both modules *)
(* side by side for TLC, one taking a step while the other rests.          *)
(***************************************************************************)
EXTENDS MaxmindDownload, Software77Download

DownloadsInit == Init /\ CsvInit

DownloadsNext == (Next /\ UNCHANGED csvVars) \/ (CsvNext /\ UNCHANGED vars)

DownloadsSpec ==
    DownloadsInit /\ [][DownloadsNext]_<<vars, csvVars>> /\ Fairness /\ CsvFairness
=============================================================================
