-------------------------- MODULE MCMasterRegistry --------------------------
(* Model values for MasterRegistry.  No two workers share a name.           *)
EXTENDS MasterRegistry, TLC

CONSTANTS h1, h2, w1, w2, d1, d2

OwnNames == (w1 :> "n1") @@ (w2 :> "n2")
=============================================================================
