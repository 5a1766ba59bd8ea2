----------------------------- MODULE Diagnosis ------------------------------
(***************************************************************************)
(* diagnose and suggest up to their report: what the cluster seems to have *)
(* decides which analyzers run, they run one after the other, and their    *)
(* results make the report.                                                *)
(*                                                                         *)
(* A run is a record: the cluster, which calls fail in which step, what    *)
(* the backends reply, the containers whose logs are fetched with what     *)
(* they give, and the warnings of the API server.                          *)
(***************************************************************************)
EXTENDS Posture

CONSTANTS KubeNamespaces, MaxSamples, MaxHints

H == INSTANCE ClusterHealth

(***************************************************************************)
(* clusterinfo, discovery                                                  *)
(***************************************************************************)

MonitoringWords == {"prometheus", "grafana", "alertmanager", "victoria", "thanos"}

(* Every node says all four things that are listed of it.                  *)
ClusterInfo(c, failing) ==
  LET version  == If("version" \notin failing, 1)
      kubelets == {n.kubelet : n \in c.nodes}
      metrics  == "metrics.k8s.io" \in c.groups /\ "metricsApi" \notin failing
      operator == "monitoring.coreos.com" \in c.groups
      found    == /\ "pods" \notin failing
                  /\ \E p \in c.pods : p.ns \in {"monitoring", "observability"} /\ p.words \cap MonitoringWords # {}
      variants == FindingIf(Cardinality(kubelets) > 2, "low", "cluster/nodes")
      evidence == version + If(c.nodes # {}, 4) + 1
  IN  CASE "nodes" \in failing -> Result(<<>>, version, 2 - version, FALSE)
        [] "nodes" \notin failing /\ "groups" \in failing ->
             Result(variants, evidence, 2 - version + If(~metrics, 1), FALSE)
        [] OTHER -> Result(variants, evidence + 1,
                           1 - version + If(~metrics, 1) + If(~operator /\ ~found, 1), FALSE)

(* The lists that discovery can do without, and those that it counts.      *)
DiscoveryLists == {"groups", "services", "ingresses", "hpas", "statefulSets", "daemonSets", "cronJobs", "classes",
                   "pvcs", "policies", "quotas", "ranges", "pods"}

Counted(failing) == DiscoveryLists \ (failing \cup {"quotas", "ranges", "pods"})

NoAutoscalers(c, failing) ==
  FindingIf("hpas" \notin failing /\ Seen(c.hpas) = {} /\ Seen(c.namespaces) # {}, "medium", "workloads/autoscaling")

PendingClaims(c, failing) ==
  FindingIf("pvcs" \notin failing /\ \E p \in Seen(c.pvcs) : p.pending, "high", "storage/pvc")

(* The one finding that says that telemetry is not confirmed.              *)
Blind(c, inventory) ==
  IF /\ Seen(c.namespaces) # {}
     /\ \A k \in {"resource_metrics", "time_series_metrics", "logs_backend"} : inventory[k] = "not_confirmed"
  THEN <<Finding("medium", "platform/observability", TRUE)>>
  ELSE <<>>

(* What is missing is said of these.                                       *)
CapabilityUnknowns(inventory) ==
  Cardinality({k \in {"resource_metrics", "time_series_metrics", "logs_backend", "traces_backend"} :
                 inventory[k] = "not_confirmed"})

(* The inventory is built anew, of the namespaces that are looked at.      *)
Discovery(c, failing) ==
  LET inventory  == Detect(c, failing, IncludeSystem)
      signals    == UNION {DetectServiceSignals(s) : s \in Seen(c.services)}
      components == DetectPlatformComponents(c.pods, IncludeSystem)
  IN  IF "namespaces" \in failing THEN Aborted
      ELSE Result(NoAutoscalers(c, failing) \o PendingClaims(c, failing) \o Blind(c, inventory),
                  2 + Cardinality(Counted(failing)) + If({"quotas", "ranges"} \cap failing = {}, 1)
                    + If("services" \notin failing /\ signals # {}, 1)
                    + If("pods" \notin failing /\ components # {}, 1),
                  Cardinality(DiscoveryLists \cap failing) + If("pods" \notin failing /\ components = {}, 1)
                    + CapabilityUnknowns(inventory),
                  TRUE)

(***************************************************************************)
(* telemetrycoverage, telemetryruntime                                     *)
(***************************************************************************)

TelemetryCoverage(inventory) ==
  Result(FindingIf("not_confirmed" \in {inventory["resource_metrics"], inventory["time_series_metrics"]},
                   "medium", "platform/telemetry"),
         1, If(inventory["traces_backend"] = "not_confirmed", 1), FALSE)

HealthSeverity(status) ==
  CASE status = "red" -> "high" [] status = "yellow" -> "medium" [] OTHER -> "low"

TelemetryRuntime(c, failing, inventory, reply) ==
  LET found   == Discover(c.services, inventory)
      series  == [b \in OfKind(found, "time_series") |-> ProbePrometheusBackend(b, reply[b.service])]
      logs    == [b \in OfKind(found, "logs") |-> ProbeLogsBackend(b, reply[b.service])]
      traces  == [b \in OfKind(found, "traces") |-> ProbeTracesBackend(b, reply[b.service])]
      Reached(probes) == {b \in DOMAIN probes : probes[b].reachable}
      Unknown(probes) == MapThenSumSet(LAMBDA b : probes[b].unknowns, DOMAIN probes)
      sick    == SetToSeq({b \in Reached(logs) : logs[b].health \in {"yellow", "red"}})
      Inferred(k, probes) == inventory[k] # "not_confirmed" /\ DOMAIN probes = {}
  IN  IF "services" \in failing THEN Aborted
      ELSE Result([i \in DOMAIN sick |-> Finding(HealthSeverity(logs[sick[i]].health), "platform/telemetry-runtime", FALSE)],
                  1 + Cardinality(Reached(series)) + Cardinality(Reached(logs)) + Cardinality(Reached(traces))
                    + MapThenSumSet(LAMBDA b : logs[b].samples, Reached(logs))
                    + Cardinality({b \in Reached(traces) : traces[b].samples > 0}),
                  Unknown(series) + Unknown(logs) + Unknown(traces)
                    + If(Inferred("logs_backend", logs), 1) + If(Inferred("traces_backend", traces), 1), FALSE)

(***************************************************************************)
(* Composition                                                             *)
(***************************************************************************)

Traffic(inventory) == inventory["traffic_entrypoint"] # "not_confirmed"

(* defaultAnalyzers and its adapters.                                      *)
DefaultAnalyzers(inventory) ==
  LET Has(k) == inventory[k] # "not_confirmed"
      When(condition, name) == IF condition THEN <<name>> ELSE <<>>
  IN  <<"clusterinfo", "discovery", "clusterhealth", "events", "workloads", "resources", "workloadrisk", "pdb",
        "telemetrycoverage">>
        \o When(\E k \in {"time_series_metrics", "logs_backend", "traces_backend"} : Has(k), "telemetryruntime")
        \o When(Has("time_series_metrics"), "timeseriespressure")
        \o When(Traffic(inventory), "trafficexposure")
        \o When(Has("traffic_entrypoint") \/ Has("workload_autoscaling"), "autoscalingposture")
        \o <<"policycoverage">>
        \o When(inventory["resource_metrics"] = "detected", "runtimemetrics")

RunAnalyzer(name, run, inventory) ==
  LET c == run.cluster
      failing == run.fails[name]
  IN  CASE name = "clusterinfo" -> ClusterInfo(c, failing)
        [] name = "discovery" -> Discovery(c, failing)
        [] name = "clusterhealth" -> H!Health(c.nodes, run.statuses, failing, run.hinted, run.logs)
        [] name = "events" -> Events(c, failing)
        [] name = "workloads" -> Rollouts(c, failing)
        [] name = "resources" -> Resources(c, failing)
        [] name = "workloadrisk" -> WorkloadRisk(c, failing)
        [] name = "pdb" -> Budgets(c, failing)
        [] name = "telemetrycoverage" -> TelemetryCoverage(inventory)
        [] name = "telemetryruntime" -> TelemetryRuntime(c, failing, inventory, run.reply)
        [] name = "timeseriespressure" -> TimeSeriesPressure(c, failing, inventory, run.reply)
        [] name = "trafficexposure" -> TrafficExposure(c, failing)
        [] name = "autoscalingposture" -> AutoscalingPosture(c, failing)
        [] name = "policycoverage" -> PolicyCoverage(c, failing)
        [] name = "runtimemetrics" -> RuntimeMetrics(c, failing)

(* Warnings of the API server, with whether they speak of a deprecation.   *)
WarningResult(messages) ==
  Result([i \in 1..Cardinality({i \in DOMAIN messages : messages[i]}) |-> Finding("medium", "platform/api-compatibility", FALSE)],
         Len(messages), 0, FALSE)

NoReport == [error |-> TRUE]

(* The results of all analyzers, in their order.                           *)
RunAll(run, inventory) ==
  LET names == DefaultAnalyzers(inventory)
  IN  RunEngine([i \in DOMAIN names |-> RunAnalyzer(names[i], run, inventory)])

ReportOf(results, warnings) ==
  IF results = <<Aborted>> THEN NoReport
  ELSE Build(IF warnings = <<>> THEN results ELSE Append(results, WarningResult(warnings)))

Diagnose(run) == ReportOf(RunAll(run, Detect(run.cluster, run.fails["detect"], TRUE)), run.warnings)

(***************************************************************************)
(* Properties                                                              *)
(***************************************************************************)

Tells(report, scope, severities) ==
  \E i \in DOMAIN report.findings : report.findings[i].scope = scope /\ report.findings[i].severity \in severities

Trust == [not_confirmed |-> 0, candidate |-> 1, detected |-> 2]

(* The analyzers look at the cluster by themselves, each with calls and    *)
(* rules of its own, and yet agree: an exposed workload that workloadrisk  *)
(* finds without ready endpoints is one that trafficexposure reports, what *)
(* autoscalingposture reports is a risk for workloadrisk, and what         *)
(* discovery confirms is confirmed for the choice of the analyzers         *)
(* (analyzers.go:56, workloadrisk.go:183, trafficexposure.go:47).          *)
AnalyzersAgreeOn(run) ==
  LET c == run.cluster
      calls == UNION {run.fails[a] : a \in DOMAIN run.fails}
      Agree(report) ==
        LET AtRisk == Tells(report, "workloads/risk-profile", Range(Severities)) IN
        /\ ("networking.k8s.io" \in c.groups /\ calls \cap {"groups", "slices"} = {}) =>
             \A w \in Seen(c.workloads) :
               (Unserved(c, w) /\ \E s \in ServicesOf(c, w) : FromOutside(s)) =>
                 Tells(report, "traffic/services", {"high"}) /\ AtRisk
        /\ SingleReplicas(c) # {} => AtRisk
  IN  /\ \A report \in {Diagnose(run)} : report # NoReport => Agree(report)
      /\ \A k \in Capabilities : Trust[Detect(c, calls, IncludeSystem)[k]] <= Trust[Detect(c, calls, TRUE)[k]]

(* Deviation: what the report says of the backends is of one mind.         *)
TelemetryIsAgreed(run) ==
  LET report == Diagnose(run) IN
  (report # NoReport /\ Tells(report, "platform/observability", {"medium"})) =>
    Tells(report, "platform/telemetry", {"medium"})

(* Deviation: calls that fail never make the score better.                 *)
FailuresNeverFlatter(run) ==
  LET report == Diagnose(run)
      whole  == Diagnose([run EXCEPT !.fails = [a \in DOMAIN @ |-> {}]])
  IN  report # NoReport => report.assessment.score <= whole.assessment.score
=============================================================================
