---------------------------- MODULE MCContinuity ----------------------------
(* Instances of Continuity for TLC. *)
EXTENDS Continuity, TLC

Symmetry == Permutations(Context) \cup Permutations(Conversation) \cup Permutations(Run)
=============================================================================
