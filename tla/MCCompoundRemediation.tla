------------------------ MODULE MCCompoundRemediation ------------------------
(* Instances of CompoundRemediation for TLC.  *)
EXTENDS CompoundRemediation
=============================================================================
