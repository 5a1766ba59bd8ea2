--------------------------- MODULE MCApprovalStore ---------------------------
(* Instances of ApprovalStore for TLC.  Ids, commands and handlers are only  *)
(* compared, so they are symmetric in the runs without liveness.             *)
EXTENDS ApprovalStore, TLC

Symmetry == Permutations(Ids) \cup Permutations(Commands) \cup Permutations(Handlers)
=============================================================================
