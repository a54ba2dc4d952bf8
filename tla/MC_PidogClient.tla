-------------------------- MODULE MC_PidogClient ---------------------------
(* Model checking of PidogClient: the constants are given in the .cfg files. *)
EXTENDS PidogClient
=============================================================================
