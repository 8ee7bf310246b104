----------------------------- MODULE MCSyncJobs -----------------------------
(***************************************************************************)
(* Instances of SyncJobs for TLC.                                          *)
(***************************************************************************)
EXTENDS SyncJobs, TLC

CONSTANTS j1, w1

OneJob == {j1}
OneWorker == {w1}
=============================================================================
