----------------------------- MODULE MC_Gateway -----------------------------
(* Model checking of Gateway: the constants are given in the .cfg files. *)
EXTENDS Gateway
=============================================================================
