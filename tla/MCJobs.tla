-------------------------------- MODULE MCJobs --------------------------------
(***************************************************************************)
(* Jobs and workers for TLC.                                               *)
(***************************************************************************)
EXTENDS JobWorker

CONSTANTS j1, j2, w1, w2, w3
=============================================================================
