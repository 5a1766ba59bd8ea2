----------------------------- MODULE Telemetry ------------------------------
(***************************************************************************)
(* Backends of metrics, logs and traces (internal/telemetry): which        *)
(* services are taken for one, and how they are queried through the proxy  *)
(* of the API server, over a list of schemes, paths and expressions until  *)
(* one gives an answer.                                                    *)
(*                                                                         *)
(* reply[<<scheme, prefix, what>>] is what a backend returns: NoReply if   *)
(* the call fails, else a body, of the type "garbled" if it does not       *)
(* decode or its status is not success.  What is asked for is an           *)
(* expression or an endpoint, as a tuple.                                  *)
(***************************************************************************)
EXTENDS Capability, SequencesExt

NoReply == [type |-> "none"]

(***************************************************************************)
(* Discovery                                                               *)
(***************************************************************************)

DetectSchemes(p) ==
  IF p.number = 443 \/ p.words \cap {"https", "tls"} # {} THEN <<"https", "http">>
  ELSE <<"http", "https">>

MetricsWords == {"prometheus", "thanos", "mimir", "cortex", "vmselect", "victoria"}
SearchWords  == {"elasticsearch", "opensearch"}

(* The vendors of metrics in the order of their names.                     *)
Vendors == <<"cortex", "mimir", "prometheus", "prometheus-compatible", "thanos", "victoriametrics">>

DetectMetricsVendor(words) ==
  CASE "thanos" \in words -> "thanos"
    [] "thanos" \notin words /\ "mimir" \in words -> "mimir"
    [] words \cap {"thanos", "mimir"} = {} /\ "cortex" \in words -> "cortex"
    [] /\ words \cap {"thanos", "mimir", "cortex"} = {}
       /\ words \cap {"vmselect", "victoria"} # {} -> "victoriametrics"
    [] OTHER -> "prometheus"

MetricsPathPrefixes(vendor) ==
  IF vendor = "victoriametrics" THEN <<"/select/0/prometheus/api/v1", "/api/v1">>
  ELSE <<"/api/v1", "/prometheus/api/v1">>

Backend(kind, vendor, svc, p, prefixes) ==
  [kind |-> kind, vendor |-> vendor, ns |-> svc.ns, service |-> svc.name, port |-> p.number,
   schemes |-> DetectSchemes(p), prefixes |-> prefixes]

MetricsBackends(svc, p) ==
  LET vendor == DetectMetricsVendor(svc.words) IN
  CASE svc.words \cap MetricsWords # {} ->
         {Backend("time_series", vendor, svc, p, MetricsPathPrefixes(vendor))}
    [] /\ svc.words \cap MetricsWords = {} /\ p.number = 9090
       /\ p.words \cap {"http", "https", "web"} # {} \/ "query" \in svc.words ->
         {Backend("time_series", "prometheus-compatible", svc, p, <<"/api/v1">>)}
    [] OTHER -> {}

LogsBackends(svc, p) ==
  CASE "loki" \in svc.words -> {Backend("logs", "loki", svc, p, <<"/loki/api/v1">>)}
    [] "loki" \notin svc.words /\ (svc.words \cup svc.nsWords) \cap SearchWords # {} ->
         {Backend("logs", IF "opensearch" \in svc.words \cup svc.nsWords THEN "opensearch" ELSE "elasticsearch",
                  svc, p, <<"/">>)}
    [] OTHER -> {}

TracesBackends(svc, p) ==
  CASE "tempo" \in svc.words -> {Backend("traces", "tempo", svc, p, <<"/", "/api/search">>)}
    [] "tempo" \notin svc.words /\ "jaeger" \in svc.words ->
         {Backend("traces", "jaeger", svc, p, <<"/api", "/jaeger/api">>)}
    [] OTHER -> {}

DetectServiceBackends(svc, inventory) ==
  UNION {(IF inventory["time_series_metrics"] # "not_confirmed" THEN MetricsBackends(svc, p) ELSE {})
         \cup (IF inventory["logs_backend"] # "not_confirmed" THEN LogsBackends(svc, p) ELSE {})
         \cup (IF inventory["traces_backend"] # "not_confirmed" THEN TracesBackends(svc, p) ELSE {})
           : p \in svc.ports}

Discover(services, inventory) == UNION {DetectServiceBackends(svc, inventory) : svc \in services}

OfKind(backends, kind) == {b \in backends : b.kind = kind}

(* The order of Discover among backends of metrics: names are numbered in   *)
(* their order.                                                            *)
Before(a, b) ==
  LET keyOf(x) == <<SelectInSeq(Vendors, LAMBDA v : v = x.vendor), x.ns, x.service, x.port>>
      k == keyOf(a)
      l == keyOf(b)
  IN  \E i \in 1..4 : k[i] < l[i] /\ \A j \in 1..(i - 1) : k[j] = l[j]

PrometheusBackends(services, inventory) ==
  SetToSortSeq(OfKind(Discover(services, inventory), "time_series"), Before)

(***************************************************************************)
(* Queries                                                                 *)
(***************************************************************************)

(* ProxyGetRaw: the first scheme that the call succeeds with.              *)
ProxyGetRaw(b, reply, prefix, what) ==
  LET i == SelectInSeq(b.schemes, LAMBDA s : reply[<<s, prefix, what>>] # NoReply)
  IN  IF i = 0 THEN NoReply ELSE reply[<<b.schemes[i], prefix, what>>]

(* decodeVector and decodeMatrix accept one type of result each.           *)
Decodes(body, type) == body.type = type

Failed == [ok |-> FALSE]

(* The first path under which the backend answers what is asked, or zero.  *)
PathFor(b, reply, what, type) ==
  SelectInSeq(b.prefixes, LAMBDA p : Decodes(ProxyGetRaw(b, reply, p, what), type))

Found(b, reply, what, type) ==
  LET prefix == b.prefixes[PathFor(b, reply, what, type)]
  IN  [ok |-> TRUE, expression |-> what, prefix |-> prefix,
       samples |-> ProxyGetRaw(b, reply, prefix, what).samples]

(* Mutant: the last expression decides. *)
QueryFirstLast(b, reply, exprs, type) ==
  IF PathFor(b, reply, Last(exprs), type) = 0 THEN Failed ELSE Found(b, reply, Last(exprs), type)

(* Every path is tried for an expression before the next expression.       *)
QueryFirst(b, reply, exprs, type) ==
  LET i == SelectInSeq(exprs, LAMBDA e : PathFor(b, reply, e, type) # 0)
  IN  IF i = 0 THEN Failed ELSE Found(b, reply, exprs[i], type)

QueryPrometheusVectorFirst(b, reply, exprs) == QueryFirst(b, reply, exprs, "vector")

QueryPrometheusRangeFirst(b, reply, exprs) == QueryFirst(b, reply, exprs, "matrix")

(* One of the endpoints, under one of the prefixes, gives a good answer.   *)
Answers(b, reply, endpoints) ==
  \E i \in DOMAIN b.prefixes, e \in endpoints : Decodes(ProxyGetRaw(b, reply, b.prefixes[i], e), "json")

(* A probe: whether the backend counts as reachable, and how many things   *)
(* are said to be unknown of it.                                           *)
ProbePrometheusBackend(b, reply) ==
  LET built  == Answers(b, reply, {<<"status/buildinfo">>})
      up     == QueryPrometheusVectorFirst(b, reply, <<<<"up">>>>).ok
      stores == b.vendor = "thanos" /\ Answers(b, reply, {<<"stores">>, <<"store">>})
  IN  [reachable |-> built \/ up \/ stores,
       unknowns  |-> (IF built THEN 0 ELSE 1) + (IF up THEN 0 ELSE 1)]

(* The labels that may name the namespace and the pod of a metric.         *)
NamespacePodLabelPairs == <<
  <<"namespace", "pod">>, <<"namespace", "pod_name">>, <<"namespace_name", "pod_name">>,
  <<"kubernetes_namespace", "pod">>, <<"kubernetes_namespace", "kubernetes_pod_name">>,
  <<"kubernetes_namespace_name", "pod">>, <<"kubernetes_namespace_name", "kubernetes_pod_name">>,
  <<"exported_namespace", "pod">>, <<"exported_namespace", "exported_pod">>>>

NamespaceLabelAliases == <<"namespace", "namespace_name", "kubernetes_namespace",
                           "kubernetes_namespace_name", "exported_namespace">>
PodLabelAliases == <<"pod", "pod_name", "kubernetes_pod_name", "exported_pod">>

FirstNonEmpty(metric, aliases) ==
  LET i == SelectInSeq(aliases, LAMBDA a : a \in DOMAIN metric)
  IN  IF i = 0 THEN "" ELSE metric[aliases[i]]

(* The index of the first pair of labels that are both there, or zero.     *)
DetectNamespacePodLabelPair(labels) ==
  SelectInSeq(NamespacePodLabelPairs, LAMBDA p : p[1] \in labels /\ p[2] \in labels)

NormalizeNamespacePodLabels(metric) ==
  LET i == DetectNamespacePodLabelPair(DOMAIN metric) IN
  IF i # 0 THEN <<metric[NamespacePodLabelPairs[i][1]], metric[NamespacePodLabelPairs[i][2]]>>
  ELSE <<FirstNonEmpty(metric, NamespaceLabelAliases), FirstNonEmpty(metric, PodLabelAliases)>>

(* Loki: the labels, and with a pair of them two expressions.              *)
QueryLokiLabels(b, reply) == ProxyGetRaw(b, reply, b.prefixes[1], <<"labels">>)

QueryLokiErrors(b, reply, labels) ==
  IF DetectNamespacePodLabelPair(labels) = 0 THEN Failed
  ELSE QueryFirst([b EXCEPT !.prefixes = SubSeq(@, 1, 1)], reply, <<<<"regexp">>, <<"contains">>>>, "vector")

ProbeSearchHealth(b, reply) == ProxyGetRaw(b, reply, "/", <<"_cluster/health">>)

(* samples is the number of pods with errors or of traced services; health *)
(* is "none" where no backend gives it.                                    *)
Probe(reachable, unknowns, samples, health) ==
  [reachable |-> reachable, unknowns |-> unknowns, samples |-> samples, health |-> health]

ProbeLogsBackend(b, reply) ==
  IF b.vendor = "loki"
  THEN LET labels == QueryLokiLabels(b, reply) IN
       IF ~Decodes(labels, "json") THEN Probe(FALSE, 1, 0, "none")
       ELSE LET errors == QueryLokiErrors(b, reply, labels.samples) IN
            Probe(TRUE, IF errors.ok THEN 0 ELSE 1,
                  IF errors.ok THEN Cardinality(errors.samples) ELSE 0, "none")
  ELSE LET health == ProbeSearchHealth(b, reply) IN
       IF Decodes(health, "json") THEN Probe(TRUE, 0, 0, health.samples) ELSE Probe(FALSE, 1, 0, "none")

QueryJaegerServices(b, reply) == QueryFirst(b, reply, <<<<"services">>>>, "json")

(* Tempo: its readiness, whatever the body, or the tags of a search.       *)
QueryTempoProbe(b, reply) ==
  ProxyGetRaw(b, reply, "/", <<"ready">>) # NoReply \/ Answers(b, reply, {<<"tags">>})

ProbeTracesBackend(b, reply) ==
  LET services  == QueryJaegerServices(b, reply)
      reachable == IF b.vendor = "jaeger" THEN services.ok ELSE QueryTempoProbe(b, reply)
  IN  Probe(reachable, IF reachable THEN 0 ELSE 1,
            IF b.vendor = "jaeger" /\ services.ok THEN Cardinality(services.samples) ELSE 0, "none")

(***************************************************************************)
(* Properties                                                              *)
(***************************************************************************)

(* Where the schemes of a path agree on whether it has a good answer, a    *)
(* query succeeds exactly when some scheme, path and expression has one,   *)
(* and gives an answer to the first such expression (telemetry.go:162,     *)
(* prometheus.go:86).                                                      *)
UsableAnswerIsFound(b, reply, exprs, type) ==
  LET schemes  == ToSet(b.schemes)
      prefixes == ToSet(b.prefixes)
      Good(s, p, e) == Decodes(reply[<<s, p, e>>], type)
      Usable(i) == \E s \in schemes, p \in prefixes : Good(s, p, exprs[i])
      result == QueryFirst(b, reply, exprs, type)
  IN  (\A s, t \in schemes, p \in prefixes, e \in ToSet(exprs) :
         NoReply \notin {reply[<<s, p, e>>], reply[<<t, p, e>>]} => (Good(s, p, e) <=> Good(t, p, e))) =>
      /\ result.ok <=> \E i \in DOMAIN exprs : Usable(i)
      /\ result.ok => \E i \in DOMAIN exprs :
           /\ exprs[i] = result.expression /\ Usable(i) /\ \A j \in 1..(i - 1) : ~Usable(j)
           /\ \E s \in schemes : /\ Good(s, result.prefix, exprs[i])
                                 /\ reply[<<s, result.prefix, exprs[i]>>].samples = result.samples

(* A service that is named for one kind of backend, outside the system     *)
(* namespaces, is discovered as one: the signals of capability.go confirm  *)
(* what telemetry.go looks for (capability.go:184, telemetry.go:75).       *)
NamedBackendIsDiscovered(c, failing, includeSystem) ==
  "services" \notin failing =>
    \A svc \in c.services :
      /\ Included(svc.ns, includeSystem) /\ svc.ports # {}
      /\ \E w \in {"prometheus", "loki", "tempo", "jaeger"} : svc.words = {w}
      => \E b \in Discover(c.services, Detect(c, failing, includeSystem)) :
           b.ns = svc.ns /\ b.service = svc.name

(* Deviation: the same for every name that telemetry.go looks for.         *)
RecognisedBackendIsDiscovered(c, failing, includeSystem) ==
  "services" \notin failing =>
    \A svc \in c.services :
      /\ Included(svc.ns, includeSystem) /\ svc.ports # {}
      /\ svc.words \cap (MetricsWords \cup SearchWords \cup {"loki", "tempo", "jaeger"}) # {}
      => \E b \in Discover(c.services, Detect(c, failing, includeSystem)) :
           b.ns = svc.ns /\ b.service = svc.name
=============================================================================
