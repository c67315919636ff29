----------------------------- MODULE MCEnvOpen -----------------------------
(* The instance of EnvOpen that TLC checks. *)
EXTENDS EnvOpen, TLC
CONSTANTS p, q, r
=============================================================================
