---------------------------- MODULE MC_Vda5050 -----------------------------
(* Model checking of Vda5050: the constants are given in the .cfg files. *)
EXTENDS Vda5050

\* Every type of the factsheet and one that is unknown.
AllAndUnknown == Factsheet \cup {"fly"}
\* A few of them.
SomeTypes == {"estop", "bark"}
=============================================================================
