------------------------- MODULE WorkloadAnalyzers --------------------------
(***************************************************************************)
(* Three analyzers that look at workloads: their shape (workloadrisk), the *)
(* metrics of their last hours (timeseriespressure) and their present use  *)
(* of resources (runtimemetrics).                                          *)
(*                                                                         *)
(* A cluster is a record of sets of objects.  failing is the set of the    *)
(* calls that fail.                                                        *)
(***************************************************************************)
EXTENDS Workloads, Telemetry

Worst(scores) == Max({0} \cup scores)

(* Evidence of the five worst. *)
Shown(scored) == Lesser(5, Cardinality(scored))

(***************************************************************************)
(* workloadrisk                                                            *)
(***************************************************************************)

(* Mutant: the endpoints are listed first. *)
RiskListsSlicesFirst == <<"slices", "workloads", "services", "ingresses", "hpas", "pdbs">>

(* The order of the calls; deployments and stateful sets come first.       *)
RiskLists == <<"workloads", "services", "ingresses", "slices", "hpas", "pdbs">>

(* What the calls return when the cluster changes from old to new before   *)
(* the call number cut.                                                    *)
ViewOf(lists, old, new, cut) ==
  [k \in DOMAIN old |->
     IF k \in ToSet(lists) /\ SelectInSeq(lists, LAMBDA l : l = k) >= cut THEN new[k] ELSE old[k]]

(* Exposed to the outside with no endpoint that is ready.                  *)
Unserved(c, w) == LET p == Profile(c, w) IN p.external > 0 /\ p.endpoints = 0

RiskScores(c) == [w \in Seen(c.workloads) |-> ScoreProfile(Profile(c, w))]

WorkloadRisk(c, failing) ==
  LET scores == RiskScores(c)
      scored == {w \in DOMAIN scores : scores[w] > 0}
      worst  == Worst({scores[w] : w \in scored})
      zero   == Cardinality({w \in scored : Unserved(c, w)})
  IN  CASE failing \cap ToSet(RiskLists) # {} -> Aborted
        [] failing \cap ToSet(RiskLists) = {} /\ worst < 20 -> Result(<<>>, 1 + Shown(scored), 0, FALSE)
        [] OTHER -> Result(<<Finding(WorkloadSeverity(worst, zero), "workloads/risk-profile", FALSE)>>,
                           1 + Shown(scored), 1, TRUE)

(***************************************************************************)
(* timeseriespressure                                                      *)
(***************************************************************************)

Queries == {"restarts", "cpu", "memory", "throttle", "oom"}
Vectors == {"restarts", "oom"}

(* Two expressions for each pair of labels, and a recorded one for two of  *)
(* the queries.                                                            *)
Expressions(q) ==
  FlattenSeq([i \in DOMAIN NamespacePodLabelPairs |-> <<<<q, i, "first">>, <<q, i, "second">>>>])
    \o (IF q \in {"cpu", "memory"} THEN <<<<q, 1, "recorded">>>> ELSE <<>>)

(* The time series of b for each query, or that it failed.                 *)
QueryAll(b, reply) ==
  [q \in Queries |-> IF q \in Vectors THEN QueryPrometheusVectorFirst(b, reply, Expressions(q))
                     ELSE QueryPrometheusRangeFirst(b, reply, Expressions(q))]

(* workloadForMetric *)
WorkloadForMetric(c, metric) ==
  LET name == NormalizeNamespacePodLabels(metric)
      pods == {p \in Seen(c.pods) : p.ns = name[1] /\ p.name = name[2]}
  IN  CASE "" \in {name[1], name[2]} -> Key(name[1], "Workload", name[2])
        [] "" \notin {name[1], name[2]} /\ pods # {} -> PodOwner(c, CHOOSE p \in pods : TRUE)
        [] OTHER -> Key(name[1], "Pod", name[2])

(* peakMatrix of the values of a sample, which are levels of Trends.       *)
Peak(samples) == Max({0} \cup UNION {s.values : s \in samples})

SamplesOf(answers, q) == IF answers[q].ok THEN answers[q].samples ELSE {}

TrendOf(c, answers, key) ==
  [q \in Queries |-> Peak({s \in SamplesOf(answers, q) : WorkloadForMetric(c, s.metric) = key})]

NoProfile == [NewProfile([replicas |-> 0, ready |-> 0, kind |-> "none", pvc |-> FALSE,
                          missing |-> [readiness |-> 0, liveness |-> 0, requests |-> 0, limits |-> 0]])
                EXCEPT !.stateful = FALSE]

ProfileOfKey(c, key) ==
  LET workloads == {w \in Seen(c.workloads) : Key(w.ns, w.kind, w.name) = key}
  IN  IF workloads = {} THEN NoProfile ELSE Profile(c, CHOOSE w \in workloads : TRUE)

TrendScores(c, answers) ==
  LET keys == UNION {{WorkloadForMetric(c, s.metric) : s \in SamplesOf(answers, q)} : q \in Queries}
  IN  [k \in keys |-> ScoreTrend(TrendOf(c, answers, k), ProfileOfKey(c, k))]

(* What is reported of the scores if some of the queries were answered; a  *)
(* query for throttling or for kills by the kernel that fails is not       *)
(* mentioned.                                                              *)
PressureOf(scores, usable) ==
  LET hot   == {k \in DOMAIN scores : scores[k] > 0}
      worst == Worst({scores[k] : k \in hot})
  IN  Result(IF worst < 20 THEN <<>> ELSE <<Finding(TrendSeverity(worst), "workloads/time-series-correlation", FALSE)>>,
             2 + Cardinality(usable) + Shown(hot),
             Cardinality({"restarts", "cpu", "memory"} \ usable), worst >= 20)

(* Mutant: nothing is said of a query that fails. *)
PressureUnsaid(c, answers) == PressureOf(TrendScores(c, answers), Queries)

Pressure(c, answers) == PressureOf(TrendScores(c, answers), {q \in Queries : answers[q].ok})

(* Only the first backend is asked.                                        *)
AskFirst(c, failing, backends, reply) ==
  CASE backends = <<>> -> Result(<<>>, 0, 1, FALSE)
    [] backends # <<>> /\ failing \cap ({"pods", "replicaSets"} \cup ToSet(RiskLists)) # {} -> Aborted
    [] OTHER -> Pressure(c, QueryAll(backends[1], reply[backends[1].service]))

TimeSeriesPressure(c, failing, inventory, reply) ==
  IF "services" \in failing THEN Aborted
  ELSE AskFirst(c, failing, PrometheusBackends(c.services, inventory), reply)

(***************************************************************************)
(* runtimemetrics                                                          *)
(***************************************************************************)

(* What the pods of each workload use and request; a pod that is gone by   *)
(* the time that the pods are listed does not count.                       *)
Measured(c) == {m \in Seen(c.metrics) : \E p \in Seen(c.pods) : p.ns = m.ns /\ p.name = m.name}

PodOf(c, m) == CHOOSE p \in Seen(c.pods) : p.ns = m.ns /\ p.name = m.name

MetricsOf(c, key) == {m \in Measured(c) : PodOwner(c, PodOf(c, m)) = key}

UsageOf(c, key) ==
  LET ms == MetricsOf(c, key) IN
  [cpu |-> Total([m \in ms |-> m.cpu]),
   mem |-> Total([m \in ms |-> m.mem]),
   cpuRequest |-> Total([m \in ms |-> PodOf(c, m).request.cpu]),
   memRequest |-> Total([m \in ms |-> PodOf(c, m).request.mem])]

RuntimeScores(c) ==
  [k \in {PodOwner(c, PodOf(c, m)) : m \in Measured(c)} |-> ScoreRuntime(UsageOf(c, k))]

RuntimeMetrics(c, failing) ==
  LET scores == RuntimeScores(c)
      hot    == {k \in DOMAIN scores : scores[k] > 0}
  IN  CASE "metrics" \in failing -> Result(<<>>, 1, 1, FALSE)
        [] "metrics" \notin failing /\ failing \cap {"pods", "replicaSets"} # {} -> Aborted
        [] "metrics" \notin failing /\ failing \cap {"pods", "replicaSets"} = {} /\ hot = {} ->
             Result(<<>>, 2, 1, FALSE)
        [] OTHER -> Result(<<Finding(RuntimeSeverity(Worst({scores[k] : k \in hot})), "workloads/runtime-metrics", FALSE)>>,
                           1 + Shown(hot), 1, TRUE)

(***************************************************************************)
(* Properties                                                              *)
(***************************************************************************)

(* The lists are calls of their own.  As long as no workload, service or   *)
(* ingress is removed or changed meanwhile, an alarm about an exposed      *)
(* workload without ready endpoints is true of one of its services, before *)
(* or after (workloadrisk.go:67, workloadrisk.go:176).                     *)
ExposureAlarmIsTrue(old, new, cut) ==
  LET seen == ViewOf(RiskLists, old, new, cut)
      TrueOf(c, w) == \E s \in ServicesOf(c, w) : External(c, s) /\ ReadyEndpoints(c, s) = 0
  IN  (\A k \in {"workloads", "services", "ingresses"} : old[k] \subseteq new[k]) =>
        \A w \in seen.workloads : Unserved(seen, w) => TrueOf(old, w) \/ TrueOf(new, w)

(* A query that fails only hides: no finding appears and none becomes      *)
(* worse, and if it is one of the three that the analyzer reports, there   *)
(* is one more unknown (timeseriespressure.go:103).                        *)
LostQueriesOnlyHide(c, answers, lost) ==
  LET WorstOf(r) == IF r.findings = <<>> THEN "info" ELSE r.findings[1].severity
      Hides(less, full) ==
        /\ SeverityRank(WorstOf(less)) >= SeverityRank(WorstOf(full))
        /\ less.unknowns = full.unknowns
             + Cardinality({q \in lost \cap {"restarts", "cpu", "memory"} : answers[q].ok})
  IN  Hides(Pressure(c, [q \in Queries |-> IF q \in lost THEN Failed ELSE answers[q]]), Pressure(c, answers))

(* Where all pods have requests, a workload that runs hot has a pod that   *)
(* does (runtimemetrics.go:93, runtimemetrics.go:321).                     *)
HotWorkloadHasHotPod(c) ==
  \A k \in DOMAIN RuntimeScores(c) :
    LET req(m) == PodOf(c, m).request
    IN  (RuntimeScores(c)[k] > 0 /\ \A m \in MetricsOf(c, k) : req(m).cpu > 0 /\ req(m).mem > 0) =>
          \E m \in MetricsOf(c, k) : 100 * m.cpu >= 90 * req(m).cpu \/ 100 * m.mem >= 85 * req(m).mem

(* Deviation: a query that fails is an unknown of the report.              *)
LostQueriesAreSaid(c, answers, lost) ==
  LET less == Pressure(c, [q \in Queries |-> IF q \in lost THEN Failed ELSE answers[q]])
  IN  (lost # {} /\ \A q \in lost : answers[q].ok) => less.unknowns > 0

(* Deviation: what is reported hot is a workload.  A backend whose metrics *)
(* have other labels answers the first expression with one series that has *)
(* none (prometheus.go:99).                                                *)
HotspotsHaveNames(c, answers) ==
  \A k \in DOMAIN TrendScores(c, answers) : TrendScores(c, answers)[k] > 0 => k.name # ""
=============================================================================
