--------------------------- MODULE MCTaskLifecycle ---------------------------
(* Instances of TaskLifecycle.                                              *)
EXTENDS TaskLifecycle, TLC

CONSTANTS t1, t2
=============================================================================
