---------------------------- MODULE MC_CameraHub ----------------------------
(* Model checking of CameraHub: the constants are given in the .cfg files. *)
EXTENDS CameraHub, TLC

\* Nothing tells the sources apart, nor the snapshots.
Interchangeable == Permutations(Sources) \cup Permutations(Snapshots)
=============================================================================
