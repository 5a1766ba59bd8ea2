--------------------------- MODULE ApprovalLedger ---------------------------
(***************************************************************************)
(* What the commands expect of an approval provider (the Approver          *)
(* interface of internal/approval/approval.go): one decision per approval  *)
(* id, set to "pending" by a request and replaced as a whole by each       *)
(* answer of an operator.  Every operation is one step.                    *)
(***************************************************************************)
CONSTANT Ids          \* approval ids

VARIABLE decision     \* the decision kept for each id; of none once it is lost

Answers   == {"approved", "denied"}
Decisions == Answers \cup {"pending"}
Entries   == Decisions \cup {"none"}   \* "none": the id was never requested

(* The provider cannot be asked any more. *)
Lost == [i \in Ids |-> "lost"]

Init == decision = [i \in Ids |-> "none"]

(* Approver.Request: the id is pending again, whatever it was. *)
Request(i) == decision' = [decision EXCEPT ![i] = "pending"]

(* An operator's answer; an id that was never requested has none. *)
Decide(i, d) ==
  /\ decision[i] # "none"
  /\ decision' = [decision EXCEPT ![i] = d]

(* Approver.Status: an id the provider does not know is still pending. *)
StatusIn(entries, i) == IF entries[i] = "none" THEN "pending" ELSE entries[i]

(* A fault of the provider: nothing is decided, requested or known by it,  *)
(* from then on.                                                           *)
Lose == decision' = Lost

Next ==
  \/ /\ decision # Lost
     /\ \E i \in Ids : Request(i) \/ \E d \in Answers : Decide(i, d)
  \/ Lose

Spec == Init /\ [][Next]_decision
=============================================================================
