---------------------------- MODULE MC_Settings ----------------------------
(* Model checking of Settings: the constants are given in the .cfg files. *)
EXTENDS Settings
=============================================================================
