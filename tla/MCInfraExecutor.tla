--------------------------- MODULE MCInfraExecutor ---------------------------
(* Instances of InfraExecutor for TLC.  *)
EXTENDS InfraExecutor, TLC

Symmetry == Permutations(Runs) \cup Permutations(Files) \cup Permutations(Branches)

(* A plan's type of edits is looked at in the checkout only, and a language *)
(* model may answer with either: one type is enough for the other plans.   *)
OneEditType == \A r \in Runs : mode[r] # "inplace" => plan[r].edit = "search_replace"

(* Bound: beside a run in the checkout the operator stages and pushes, too; *)
(* beside two in worktrees the operator only edits.                        *)
OnlyEdits ==
  (\A r \in Runs : Isolated(r)) /\ pc' = pc => remote' = remote /\ tree'[Base].index = {}
=============================================================================
