----------------------------- MODULE MCExecutor -----------------------------
(* Instances of Executor for TLC. *)
EXTENDS Executor, TLC

Symmetry == Permutations(Task) \cup Permutations(SessionId)
              \cup Permutations(Call) \cup Permutations(ReqId)
=============================================================================
