----------------------------- MODULE Capability -----------------------------
(***************************************************************************)
(* What the tool believes the cluster to have (internal/capability): API   *)
(* groups, services and pods give signals, and signals give each           *)
(* capability a status.  A name is the set of the known words in it, which *)
(* strings.Contains looks for one after the other.                         *)
(***************************************************************************)
EXTENDS Integers, Sequences, FiniteSets, FiniteSetsExt

CONSTANT SystemNamespaces  \* namespaces that IsSystemNamespace recognises

IsSystemNamespace(ns) == ns \in SystemNamespaces

Included(ns, includeSystem) == includeSystem \/ ~IsSystemNamespace(ns)

(* The first row of a table that a name has a word of, as a Go switch.     *)
FirstMatch(table, Matches(_)) ==
  LET rows == {i \in DOMAIN table : Matches(table[i])}
  IN  IF rows = {} THEN {} ELSE {table[Min(rows)].signal}

Row(words, signal) == [words |-> words, signal |-> signal]

PodTable == <<
  Row({"prometheus"}, "time_series_metrics"), Row({"grafana"}, "dashboards"),
  Row({"alertmanager"}, "alerting"), Row({"loki"}, "logs_backend"),
  Row({"promtail", "fluent-bit", "fluentd", "vector"}, "logs_collection"),
  Row({"tempo", "jaeger"}, "traces_backend"),
  Row({"otel", "opentelemetry"}, "telemetry_pipeline"), Row({"kiali"}, "service_mesh"),
  Row({"argocd", "argo-cd", "flux"}, "gitops"), Row({"cert-manager"}, "certificate_management"),
  Row({"external-secrets", "secret-store"}, "secret_management"),
  Row({"istio", "linkerd", "cilium"}, "service_mesh")>>

ServiceTable == <<
  Row({"grafana"}, "dashboards"), Row({"prometheus"}, "time_series_metrics"),
  Row({"loki"}, "logs_backend"), Row({"tempo", "jaeger"}, "traces_backend"),
  Row({"argocd", "argo-cd", "flux"}, "gitops")>>

PortRow(numbers, words, signal) == [numbers |-> numbers, words |-> words, signal |-> signal]

PortTable == <<
  PortRow({9090}, {"metrics"}, "metrics_endpoint"), PortRow({3100}, {"logs"}, "logs_endpoint"),
  PortRow({4317, 4318}, {"otlp"}, "telemetry_pipeline"),
  PortRow({16686, 14268}, {"jaeger", "tempo"}, "traces_endpoint"),
  PortRow({80, 443}, {}, "north_south_entrypoint")>>

FromOutside(svc) == svc.type \in {"LoadBalancer", "NodePort"}

DetectPlatformComponents(pods, includeSystem) ==
  UNION {FirstMatch(PodTable, LAMBDA r : r.words \cap pod.words # {}) :
           pod \in {p \in pods : Included(p.ns, includeSystem)}}

PortSignals(svc) ==
  (UNION {FirstMatch(PortTable, LAMBDA r : p.number \in r.numbers \/ r.words \cap p.words # {}) : p \in svc.ports})
    \ (IF FromOutside(svc) THEN {} ELSE {"north_south_entrypoint"})

(* Mutant: the name of a service decides only if its ports do not. *)
DetectServiceSignalsPortsFirst(svc) ==
  IF PortSignals(svc) # {} THEN PortSignals(svc)
  ELSE FirstMatch(ServiceTable, LAMBDA r : r.words \cap svc.words # {})

DetectServiceSignals(svc) ==
  PortSignals(svc) \cup FirstMatch(ServiceTable, LAMBDA r : r.words \cap svc.words # {})

(* What is a sign of each capability: <<where it was seen, what>>.         *)
Groups(names)     == {<<"group", n>> : n \in names}
Services(names)   == {<<"service", n>> : n \in names}
Components(names) == {<<"component", n>> : n \in names}

DetectedBy == [
  resource_metrics       |-> Groups({"metrics.k8s.io"}),
  time_series_metrics    |-> Groups({"monitoring.coreos.com"}) \cup Components({"time_series_metrics"})
                               \cup Services({"time_series_metrics"}),
  logs_backend           |-> Components({"logs_backend"}) \cup Services({"logs_backend"}),
  traces_backend         |-> Groups({"opentelemetry.io"}) \cup Components({"traces_backend"})
                               \cup Services({"traces_backend"}),
  telemetry_pipeline     |-> Groups({"opentelemetry.io"}) \cup Components({"telemetry_pipeline"})
                               \cup Services({"telemetry_pipeline"}),
  workload_autoscaling   |-> Groups({"custom.metrics.k8s.io", "external.metrics.k8s.io", "autoscaling.k8s.io"}),
  traffic_entrypoint     |-> Groups({"networking.k8s.io", "gateway.networking.k8s.io"})
                               \cup Services({"north_south_entrypoint"}),
  network_segmentation   |-> {},
  dynamic_storage        |-> Groups({"storage.k8s.io"}),
  disruption_control     |-> Groups({"policy"}),
  policy_defaults        |-> {},
  certificate_management |-> Groups({"cert-manager.io"}) \cup Components({"certificate_management"}),
  gitops                 |-> Groups({"argoproj.io", "source.toolkit.fluxcd.io", "kustomize.toolkit.fluxcd.io"})
                               \cup Components({"gitops"}) \cup Services({"gitops"}),
  secret_management      |-> Groups({"external-secrets.io", "secrets-store.csi.x-k8s.io"})
                               \cup Components({"secret_management"}),
  service_mesh           |-> Groups({"install.istio.io", "networking.istio.io", "linkerd.io"})
                               \cup Components({"service_mesh"})]

Capabilities == DOMAIN DetectedBy

HintedBy == [k \in Capabilities |->
  CASE k \in {"resource_metrics", "time_series_metrics"} -> Services({"metrics_endpoint"})
    [] k = "logs_backend" -> Services({"logs_endpoint"}) \cup Components({"logs_collection"})
    [] k = "traces_backend" -> Services({"traces_endpoint"})
    [] k = "network_segmentation" -> Groups({"networking.k8s.io"})
    [] OTHER -> {}]

BuildInventory(signals) == [k \in Capabilities |->
  CASE DetectedBy[k] \cap signals # {} -> "detected"
    [] DetectedBy[k] \cap signals = {} /\ HintedBy[k] \cap signals # {} -> "candidate"
    [] OTHER -> "not_confirmed"]

(* Detect: a list that fails counts as empty.                              *)
Detect(c, failing, includeSystem) ==
  LET groups     == IF "groups" \in failing THEN {} ELSE c.groups
      services   == IF "services" \in failing THEN {}
                    ELSE {s \in c.services : Included(s.ns, includeSystem)}
      components == IF "pods" \in failing THEN {} ELSE DetectPlatformComponents(c.pods, includeSystem)
  IN  BuildInventory(Groups(groups) \cup Components(components)
                       \cup Services(UNION {DetectServiceSignals(s) : s \in services}))
=============================================================================
