------------------------------- MODULE Report -------------------------------
(***************************************************************************)
(* The engine and the report (internal/engine, internal/report): what the  *)
(* analyzers found, in the order of their severity, and an assessment of   *)
(* it.  A result has a sequence of findings, the number of its pieces of   *)
(* evidence and of its unknowns, whether one of its hypotheses has         *)
(* evidence against it, and an execution plan.                             *)
(***************************************************************************)
EXTENDS Integers, Sequences, SequencesExt, FiniteSets, FiniteSetsExt, Functions

Severities == <<"critical", "high", "medium", "low", "info">>

(* The scopes of findings in alphabetical order.                           *)
Scopes == <<"cluster/events", "cluster/nodes", "cluster/pods", "platform/api-compatibility",
            "platform/observability", "platform/telemetry", "platform/telemetry-runtime",
            "policies/namespaces", "policies/pdb", "storage/pvc",
            "traffic/services", "workloads/autoscaling", "workloads/deployments", "workloads/probes",
            "workloads/resources", "workloads/risk-profile", "workloads/runtime-metrics",
            "workloads/time-series-correlation">>

Place(scope) == SelectInSeq(Scopes, LAMBDA x : x = scope)

(* From worst to best; a severity that is not known comes last.            *)
SeverityRank(s) ==
  LET i == SelectInSeq(Severities, LAMBDA x : x = s) IN IF i = 0 THEN 9 ELSE i - 1

Points(s) ==
  CASE s = "critical" -> 25 [] s = "high" -> 18 [] s = "medium" -> 10 [] s = "low" -> 4 [] OTHER -> 0

(* A finding whose wording says that telemetry is not confirmed is marked. *)
Finding(severity, scope, unconfirmed) == [severity |-> severity, scope |-> scope, unconfirmed |-> unconfirmed]

Result(findings, evidence, unknowns, contradicted) ==
  [findings |-> findings, evidence |-> evidence, unknowns |-> unknowns,
   contradicted |-> contradicted, plan |-> "none"]

FindingIf(condition, severity, scope) == IF condition THEN <<Finding(severity, scope, FALSE)>> ELSE <<>>

Aborted == [error |-> TRUE]

(* Engine.Run: the first analyzer that fails discards all results.         *)
RunEngine(results) == IF Aborted \in ToSet(results) THEN <<Aborted>> ELSE results

Total(f) == MapThenSumSet(LAMBDA x : f[x], DOMAIN f)

Earlier(p, q) == p[1] < q[1] \/ (p[1] = q[1] /\ p[2] < q[2])

(* The findings of the results, each at its place.                         *)
FindingsOf(results) ==
  [p \in UNION {{i} \X DOMAIN results[i].findings : i \in DOMAIN results} |-> results[p[1]].findings[p[2]]]

(* Mutant: findings in the order in which they were found. *)
AsFound(found) ==
  [i \in 1..Cardinality(DOMAIN found) |->
     found[CHOOSE p \in DOMAIN found : Cardinality({q \in DOMAIN found : Earlier(q, p)}) = i - 1]]

(* Stable, as sort.SliceStable. *)
Ahead(found, p) ==
  {q \in DOMAIN found :
     \/ SeverityRank(found[q].severity) < SeverityRank(found[p].severity)
     \/ SeverityRank(found[q].severity) = SeverityRank(found[p].severity) /\ Earlier(q, p)}

BySeverity(found) ==
  [i \in 1..Cardinality(DOMAIN found) |->
     found[CHOOSE p \in DOMAIN found : Cardinality(Ahead(found, p)) = i - 1]]

(* How many findings each scope has.                                       *)
CountsOf(found) ==
  [s \in {found[p].scope : p \in DOMAIN found} |-> Cardinality({p \in DOMAIN found : found[p].scope = s})]

(* topThemes: the scopes with the most findings, equal ones in their order.*)
TopThemes(count) ==
  LET scopes == DOMAIN count
      Before(a, b) == count[a] > count[b] \/ (count[a] = count[b] /\ Place(a) < Place(b))
      n == Cardinality(scopes)
  IN  [i \in 1..(IF n > 4 THEN 4 ELSE n) |->
         CHOOSE s \in scopes : Cardinality({t \in scopes : Before(t, s)}) = i - 1]

(* The worst severity; none that is not known is worse than "info".        *)
TopRisk(found) == Severities[1 + Min({4} \cup {SeverityRank(found[p].severity) : p \in DOMAIN found})]

PointsOf(found) == [p \in DOMAIN found |-> Points(found[p].severity)]

Unconfirmed(found) == \E p \in DOMAIN found : found[p].unconfirmed

(* assessment *)
Assess(found, evidence, unknowns, contradicted) ==
  LET score == 100 - Total(PointsOf(found))
                   - (IF 3 * unknowns < 12 THEN 3 * unknowns ELSE 12)
                   - (IF evidence < 5 THEN 6 ELSE 0)
                   - (IF contradicted THEN 2 ELSE 0)
      risk == TopRisk(found)
      unconfirmed == Unconfirmed(found)
      doubtful == unconfirmed \/ unknowns >= 3 \/ risk = "critical"
  IN  [score |-> IF score < 0 THEN 0 ELSE score,
       risk |-> risk,
       confidence |-> CASE doubtful -> "low"
                        [] ~doubtful /\ (unknowns > 0 \/ risk \in {"high", "medium"}) -> "medium"
                        [] OTHER -> "high",
       confirmed |-> ~unconfirmed,
       limiters |-> (IF unconfirmed THEN {"telemetry"} ELSE {}) \cup (IF unknowns > 0 THEN {"unknowns"} ELSE {})
                      \cup (IF evidence < 5 THEN {"evidence"} ELSE {})
                      \cup (IF contradicted THEN {"hypotheses"} ELSE {}),
       themes |-> TopThemes(CountsOf(found))]

(* operatorMessage: the finding it is about, and whether it asks for an    *)
(* approval.                                                               *)
OperatorMessage(findings, plan) ==
  IF findings = <<>> THEN [about |-> "nothing", asks |-> FALSE]
  ELSE [about |-> findings[1], asks |-> plan = "gated"]

Build(results) ==
  LET found == FindingsOf(results)
      planned == {i \in DOMAIN results : results[i].plan # "none"}
      plan == IF planned = {} THEN "none" ELSE results[Min(planned)].plan
  IN  [findings |-> BySeverity(found),
       plan |-> plan,
       assessment |-> Assess(found,
                             Total([i \in DOMAIN results |-> results[i].evidence]),
                             Total([i \in DOMAIN results |-> results[i].unknowns]),
                             \E i \in DOMAIN results : results[i].contradicted),
       message |-> OperatorMessage(BySeverity(found), plan)]

-----------------------------------------------------------------------------
Confidence == [low |-> 0, medium |-> 1, high |-> 2]

(* The report leads with a finding of the risk that it states, its         *)
(* assessment does not depend on the order of the analyzers, and one more  *)
(* finding or unknown in any result makes neither the score nor the        *)
(* confidence better (report.go:12, report.go:43).                         *)
AssessmentIsFair(results, more) ==
  LET report == Build(results)
      Fairer(r) == /\ r.assessment.score <= report.assessment.score
                   /\ Confidence[r.assessment.confidence] <= Confidence[report.assessment.confidence]
                   /\ SeverityRank(r.assessment.risk) <= SeverityRank(report.assessment.risk)
  IN  /\ report.findings # <<>> => report.message.about.severity = report.assessment.risk
      /\ \A order \in Bijection(DOMAIN results, DOMAIN results) :
           Build([i \in DOMAIN results |-> results[order[i]]]).assessment = report.assessment
      /\ \A i \in DOMAIN results :
           /\ Fairer(Build([results EXCEPT ![i].findings = Append(@, more)]))
           /\ Fairer(Build([results EXCEPT ![i].unknowns = @ + 1]))
=============================================================================
