---------------------------- MODULE MCLiveRollout ----------------------------
(* Instances of LiveRollout for TLC: restarts, and every number of replicas. *)
EXTENDS LiveRollout

AllOperations == {Restart} \cup {Scale(n) : n \in 0..MaxReplicas}
=============================================================================
