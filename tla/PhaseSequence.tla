---------------------------- MODULE PhaseSequence ----------------------------
(***************************************************************************)
(* What a compound remediation promises: "a sequential live-then-infra     *)
(* flow inside one plan" (README).  A phase the plan has is started once,  *)
(* ends once, and the infra phase starts only behind a live phase that     *)
(* succeeded or that the plan does not have.                               *)
(***************************************************************************)
VARIABLE phase     \* the state of each phase

Phases == {"live", "infra"}

Init == phase \in [Phases -> {"absent", "pending"}]

Start(p) ==
  /\ phase[p] = "pending"
  /\ p = "infra" => phase["live"] \in {"absent", "succeeded"}
  /\ phase' = [phase EXCEPT ![p] = "running"]

End(p) ==
  /\ phase[p] = "running"
  /\ \E s \in {"succeeded", "failed"} : phase' = [phase EXCEPT ![p] = s]

Next == \E p \in Phases : Start(p) \/ End(p)

Spec == Init /\ [][Next]_phase
=============================================================================
