---------------------------- MODULE MCTimestamps ----------------------------
(* Two interchangeable validators. *)
EXTENDS Timestamps, TLC

Symmetry == Permutations(Nodes)
=============================================================================
