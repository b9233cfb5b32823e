-------------------------- MODULE MCTaskScheduler --------------------------
(* TLC instance of the dispatch queue: four tasks for two slots, so that    *)
(* entries compete for a slot that becomes free, and a clock that spans     *)
(* twice the starvation threshold.                                          *)
EXTENDS TaskScheduler, TLC

CONSTANTS t1, t2, t3, t4
=============================================================================
