----------------------------- MODULE RiskScore ------------------------------
(***************************************************************************)
(* How risky a workload is by its shape (workloadrisk.go) and by what      *)
(* metrics say of its last hours (timeseriespressure.go).  Thresholds of   *)
(* metrics are reached or not: a level is 0, 1 or 2 where the code has two *)
(* thresholds, 0 or 1 where it has one.                                    *)
(***************************************************************************)
EXTENDS Integers

Profiles == [
  desired : Nat, ready : Nat, services : Nat, external : Nat, endpoints : Nat,
  hpa : BOOLEAN, pdb : BOOLEAN, stateful : BOOLEAN, pvc : BOOLEAN,
  missingReadiness : Nat, missingLiveness : Nat, missingRequests : Nat, missingLimits : Nat]

(* restarts is 3 from five on, 2 from one on, and 1 for a fraction.        *)
Trends == [restarts : 0..3, cpu : 0..2, memory : 0..2, throttle : 0..2, oom : 0..1]

If(condition, points) == IF condition THEN points ELSE 0

Lesser(a, b)  == IF a < b THEN a ELSE b
Greater(a, b) == IF a > b THEN a ELSE b

(* So many points for the first container that misses something, and two   *)
(* for each more.                                                          *)
PerContainer(missing, first, most) == If(missing > 0, Lesser(most, first + (missing - 1) * 2))

(* Mutant: the headroom is checked beside, not instead of, zero endpoints. *)
EndpointScoreBoth(p) ==
  If(p.external > 0 /\ p.endpoints = 0, 10)
    + If(p.external > 0 /\ p.endpoints > 0 /\ p.endpoints < Greater(1, p.desired), 12)

EndpointScore(p) ==
  If(p.external > 0 /\ p.endpoints = 0, 45)
    + If(p.external > 0 /\ p.endpoints > 0 /\ p.endpoints < Greater(1, p.desired), 12)

(* scoreProfile *)
ScoreProfile(p) ==
  If(p.ready < p.desired, 30)
    + EndpointScore(p)
    + If(p.services > 0 /\ p.desired = 1, 8)
    + If(p.external > 0 /\ p.desired = 1, 18)
    + If(p.external > 0 /\ ~p.hpa, 12)
    + If(p.services > 0 /\ p.desired > 1 /\ ~p.pdb, 10)
    + PerContainer(p.missingReadiness, 6, 14)
    + PerContainer(p.missingLiveness, 4, 10)
    + PerContainer(p.missingRequests, 4, 10)
    + PerContainer(p.missingLimits, 2, 8)
    + If(p.stateful /\ p.pvc /\ p.external > 0 /\ p.desired = 1, 8)

(* scoreTrend *)
ScoreTrend(t, p) ==
  (CASE t.restarts = 3 -> 20 [] t.restarts = 2 -> 8 [] OTHER -> 0)
    + (CASE t.cpu = 2 -> 15 [] t.cpu = 1 -> 8 [] OTHER -> 0)
    + (CASE t.memory = 2 -> 15 [] t.memory = 1 -> 8 [] OTHER -> 0)
    + (CASE t.throttle = 2 -> 14 [] t.throttle = 1 -> 6 [] OTHER -> 0)
    + If(t.oom = 1, 20)
    + If(p.services > 0 /\ p.desired = 1, 8)
    + If(p.external > 0 /\ p.desired = 1, 12)
    + If(p.external > 0 /\ ~p.hpa, 8)
    + If(p.services > 0 /\ p.desired > 1 /\ ~p.pdb, 6)
    + If(p.missingReadiness > 0, 6)
    + If(p.missingLiveness > 0, 4)
    + If(t.restarts > 0 /\ p.external > 0 /\ p.desired = 1, 15)
    + If(p.external > 0 /\ p.endpoints = 0, 20)

(* workloadSeverity: zero is the number of exposed workloads that no       *)
(* endpoint is ready for.  Ranks are those of severityRank in report.go.   *)
WorkloadSeverity(score, zero) ==
  CASE zero > 0 \/ score >= 80 -> "high"
    [] zero = 0 /\ score >= 50 /\ score < 80 -> "medium"
    [] OTHER -> "low"

WorkloadConfidence(score) == IF score >= 50 THEN "high" ELSE "medium"

(* severityForScore *)
TrendSeverity(score) == IF score >= 55 THEN "high" ELSE "medium"

(* scoreRuntime: usage and requests of a workload, cpu in millicores,      *)
(* memory in MiB.  A ratio without requests is zero.                       *)
ScoreRuntime(u) ==
  LET CpuAbove(percent) == u.cpu > 0 /\ u.cpuRequest > 0 /\ 100 * u.cpu >= percent * u.cpuRequest
      MemAbove(percent) == u.mem > 0 /\ u.memRequest > 0 /\ 100 * u.mem >= percent * u.memRequest
  IN  If(CpuAbove(120), 35)
        + If(~CpuAbove(120) /\ CpuAbove(90) /\ u.cpu >= 100, 18)
        + If(MemAbove(95), 35)
        + If(~MemAbove(95) /\ MemAbove(85) /\ u.mem >= 128, 18)
        + If(u.cpuRequest = 0 /\ u.cpu >= 500, 8)
        + If(u.memRequest = 0 /\ u.mem >= 512, 8)

RuntimeSeverity(score) == IF score >= 60 THEN "high" ELSE "medium"

-----------------------------------------------------------------------------
(* The same workload, as well guarded or better.                           *)
Improves(q, p) ==
  /\ q.desired = p.desired /\ q.services = p.services /\ q.external = p.external
  /\ q.stateful = p.stateful /\ q.pvc = p.pvc
  /\ q.ready >= p.ready /\ q.endpoints >= p.endpoints
  /\ p.hpa => q.hpa
  /\ p.pdb => q.pdb
  /\ q.missingReadiness <= p.missingReadiness /\ q.missingLiveness <= p.missingLiveness
  /\ q.missingRequests <= p.missingRequests /\ q.missingLimits <= p.missingLimits

(* A guardrail that is added (an autoscaler, a disruption budget, a probe, *)
(* requests, limits, a ready replica or endpoint) never makes a workload   *)
(* score higher in scoreProfile (workloadrisk.go:421) or scoreTrend        *)
(* (timeseriespressure.go:466), whatever its metrics are.                  *)
GuardrailsNeverHurt(q, p, t) ==
  Improves(q, p) => ScoreProfile(q) <= ScoreProfile(p) /\ ScoreTrend(t, q) <= ScoreTrend(t, p)

(* Deviation: nor does another replica.  It does for a workload behind an  *)
(* internal service, which then lacks a disruption budget.                 *)
ReplicasNeverHurt(p) ==
  p.desired > 0 => ScoreProfile([p EXCEPT !.desired = @ + 1, !.ready = @ + 1]) <= ScoreProfile(p)
=============================================================================
