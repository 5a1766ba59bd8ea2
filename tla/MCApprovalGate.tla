--------------------------- MODULE MCApprovalGate ---------------------------
(* Instances of ApprovalGate for TLC.  *)
EXTENDS ApprovalGate, TLC

Symmetry == Permutations(Cmds) \cup Permutations(Ids) \cup Permutations(Plans)
=============================================================================
