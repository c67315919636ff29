---------------------------- MODULE MCSWMRGuard ----------------------------
(* SWMRGuard on a few threads. *)
EXTENDS SWMRGuard

CONSTANTS t1, t2, t3, t4, t5
=============================================================================
