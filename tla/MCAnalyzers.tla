---------------------------- MODULE MCAnalyzers -----------------------------
(* Inputs of the analyzers, one kind for each property. *)
EXTENDS Diagnosis

(***************************************************************************)
(* Queries                                                                 *)
(***************************************************************************)

MetricsBackend == [kind |-> "time_series", vendor |-> "prometheus", schemes |-> <<"http", "https">>,
                   prefixes |-> MetricsPathPrefixes("prometheus")]

Cells == {"http", "https"} \X ToSet(MetricsBackend.prefixes) \X {<<"first">>, <<"second">>}

Body(type, cell) == IF type = "none" THEN NoReply ELSE [type |-> type, samples |-> cell]

Replies ==
  [kind : {"query"},
   reply : {[c \in Cells |-> Body(types[c], c)] : types \in [Cells -> {"none", "garbled", "vector"}]}]

SomePorts == {[number |-> 9090, words |-> {"metrics"}], [number |-> 443, words |-> {}],
              [number |-> 80, words |-> {"http"}]}

SomeServices ==
  [ns : {"app", "kube"}, name : {1}, nsWords : {{}}, type : {"ClusterIP", "LoadBalancer"},
   words : {s \in SUBSET {"prometheus", "loki", "tempo", "jaeger", "grafana"} : Cardinality(s) <= 2},
   ports : SUBSET SomePorts]

Platforms ==
  [kind : {"platform"}, failing : SUBSET {"groups", "pods", "services"},
   c : [services : {{s} : s \in SomeServices}, groups : {{}, {"monitoring.coreos.com"}}, pods : {{}}]]

(***************************************************************************)
(* Scores                                                                  *)
(***************************************************************************)

SomeProfiles ==
  {p \in [desired : 1..2, ready : {0, 2}, services : 0..1, external : 0..1, endpoints : 0..2,
          hpa : BOOLEAN, pdb : BOOLEAN, stateful : {TRUE}, pvc : {TRUE},
          missingReadiness : {0, 2}, missingLiveness : 0..1, missingRequests : {1}, missingLimits : {1}] :
     p.external <= p.services}

SomeTrends == {[restarts |-> r, cpu |-> 1, memory |-> 0, throttle |-> 2, oom |-> 0] : r \in {0, 1, 3}}

Improvements ==
  {x \in [kind : {"profile"}, p : SomeProfiles, q : SomeProfiles, t : SomeTrends] : Improves(x.q, x.p)}

(***************************************************************************)
(* Clusters                                                                *)
(***************************************************************************)

NothingMissing == [readiness |-> 0, liveness |-> 0, probes |-> 0, requests |-> 0, limits |-> 0]

Web == [ns |-> "app", kind |-> "Deployment", name |-> "web", replicas |-> Unset, ready |-> 1,
        labels |-> {"web"}, pvc |-> FALSE, missing |-> NothingMissing, unavailable |-> 0, progressing |-> "True"]

Service(name, type) == [ns |-> "app", name |-> name, type |-> type, selector |-> {"web"},
                        words |-> {}, nsWords |-> {}, ports |-> {}]

Slice(name, state) == [ns |-> "app", service |-> name, endpoints |-> [e \in {"web-1"} |-> state]]

Bare == [workloads |-> {}, services |-> {}, ingresses |-> {}, slices |-> {}, hpas |-> {}, pdbs |-> {},
         pods |-> {}, replicaSets |-> {}, metrics |-> {}, groups |-> {}, nodes |-> {}, events |-> {},
         namespaces |-> {}, quotas |-> {}, ranges |-> {}, policies |-> {}, pvcs |-> {}]

SlicesOf(name) == {{}} \cup {{Slice(name, s)} : s \in {"ready", "unknown", "stopping"}}

ExposedBy(w, s, i, a, b) == [Bare EXCEPT !.workloads = w, !.services = s, !.ingresses = i, !.slices = a \cup b]

Around == {Service(1, "ClusterIP"), Service(2, "LoadBalancer")}

Exposed ==
  {ExposedBy(w, s, i, a, b) :
     w \in SUBSET {Web}, s \in SUBSET Around, i \in SUBSET {[ns |-> "app", backends |-> {1}]},
     a \in SlicesOf(1), b \in SlicesOf(2)}

Changes == [kind : {"change"}, old : Exposed, new : {c \in Exposed : c.workloads # {}}, cut : 1..(Len(RiskLists) + 1)]

(***************************************************************************)
(* Time series                                                             *)
(***************************************************************************)

WebPod(ns, name, request) ==
  [ns |-> ns, name |-> name, words |-> {}, request |-> request,
   owners |-> <<[kind |-> "ReplicaSet", name |-> "web-1", controller |-> TRUE]>>]

WebSet(ns) == [ns |-> ns, name |-> "web-1",
               owners |-> <<[kind |-> "Deployment", name |-> "web", controller |-> TRUE]>>]

Quiet == [Bare EXCEPT !.workloads = {Web}, !.replicaSets = {WebSet("app")},
                      !.pods = {WebPod("app", "a", [cpu |-> 0, mem |-> 0])}]
Loud  == [Quiet EXCEPT !.services = {Service(2, "LoadBalancer")}]

Metric(ns, pod) == [n \in {"namespace", "pod"} |-> IF n = "pod" THEN pod ELSE ns]

Samples(values) == [ok |-> TRUE, samples |-> {[metric |-> Metric("app", p), values |-> values] : p \in {"a", "gone"}}]

AnswersTo(q) == {Failed, Samples({}), Samples({1})} \cup (IF q = "oom" THEN {} ELSE {Samples({0, 2})})

Series ==
  [kind : {"series"}, c : {Quiet, Loud}, lost : {{q} : q \in Queries} \cup {Queries},
   answers : {a \in [Queries -> UNION {AnswersTo(q) : q \in Queries}] : \A q \in Queries : a[q] \in AnswersTo(q)}]

(***************************************************************************)
(* Use of resources                                                        *)
(***************************************************************************)

Uses == [cpu : {0, 95, 250}, mem : {90, 200}]

Requests == [cpu : {0, 100, 200}, mem : {100, 200}]

UseOf(ns, name, use) == [ns |-> ns, name |-> name, cpu |-> use.cpu, mem |-> use.mem]

LoadedBy(ns, r, s, u, v) ==
  [Quiet EXCEPT !.replicaSets = {WebSet("app"), WebSet("kube"), WebSet("shop")},
                !.pods = {WebPod("app", "a", r), WebPod(ns, "b", s)},
                !.metrics = {UseOf("app", "a", u), UseOf(ns, "b", v)}]

Loaded ==
  {LoadedBy(ns, r, s, u, v) :
     ns \in {"app", "kube", "shop"}, r \in Requests, s \in Requests, u \in Uses, v \in Uses}

Loads == [kind : {"load"}, c : Loaded]

(***************************************************************************)
(* Crashes                                                                 *)
(***************************************************************************)

Everywhere == INSTANCE ClusterHealth WITH IncludeSystem <- TRUE

Status(waiting, restarts, exit) ==
  [waiting |-> waiting, restarts |-> restarts, last |-> [exit |-> exit, completed |-> FALSE],
   state |-> H!NotTerminated]

Statuses == {Status("CrashLoopBackOff", 5, 1), Status("none", 0, 0), Status("none", 4, 1), Status("none", 5, 1),
             Status("none", 6, 1), Status("none", 5, 143), Status("none", 6, 0), Status("none", 1, 137)}

StatusPod(ns, name, containers) ==
  [ns |-> ns, name |-> name, old |-> TRUE, pending |-> FALSE, containers |-> containers]

ThreePods(n, a, b, c, d) == <<StatusPod(n, 1, <<a, b>>), StatusPod(2, 2, <<c>>), StatusPod(2, 3, <<d>>)>>

StatusPods ==
  {ThreePods(n, a, b, c, d) :
     n \in {1, 2}, a \in Statuses, b \in Statuses, c \in Statuses, d \in Statuses}

Crashing == [kind : {"crashes"}, pods : StatusPods]

(***************************************************************************)
(* Diagnoses                                                               *)
(***************************************************************************)

(* Names of analyzers, and of the detection before them.                   *)
Steps == {"detect", "clusterinfo", "discovery", "clusterhealth", "events", "workloads", "resources", "workloadrisk",
          "pdb", "telemetrycoverage", "telemetryruntime", "timeseriespressure", "trafficexposure",
          "autoscalingposture", "policycoverage", "runtimemetrics"}

FailsIn(step, calls) == [a \in Steps |-> IF a = step THEN calls ELSE {}]

Loki == [ns |-> "kube", name |-> 9, type |-> "ClusterIP", selector |-> {}, words |-> {"loki"}, nsWords |-> {},
         ports |-> {[number |-> 3100, words |-> {}]}]

Silence == [x \in {"http", "https"} \X {"/loki/api/v1", "/api/v1", "/prometheus/api/v1"} \X
                   ({<<"labels">>, <<"status/buildinfo">>, <<"up">>} \cup UNION {ToSet(Expressions(q)) : q \in Queries})
              |-> NoReply]

Cluster(services, slices, hpas, groups, replicas) ==
  [Bare EXCEPT !.workloads = {[Web EXCEPT !.replicas = replicas]}, !.services = services, !.slices = slices,
               !.hpas = hpas, !.groups = groups, !.namespaces = {[ns |-> "app"]},
               !.nodes = {[ready |-> "True", pressure |-> FALSE, kubelet |-> 1]}]

SomeClusters ==
  {Cluster(s, a, h, g, r) :
     s \in {{Service(2, "LoadBalancer")}, {Service(1, "ClusterIP"), Service(2, "LoadBalancer")},
            {Service(2, "NodePort"), Loki}},
     a \in SlicesOf(2), h \in {{}, {[ns |-> "app", kind |-> "Deployment", target |-> "web"]}},
     g \in {{}, {"networking.k8s.io"}, {"networking.k8s.io", "metrics.k8s.io", "monitoring.coreos.com"}},
     r \in {Unset, 2}}

SomeStatuses == {<<>>, <<StatusPod(2, 2, <<Status("CrashLoopBackOff", 5, 1), Status("none", 6, 1)>>)>>}

Runs ==
  [kind : {"run"}, cluster : SomeClusters, statuses : SomeStatuses,
   step : {"detect", "discovery", "clusterhealth", "workloadrisk", "telemetryruntime", "trafficexposure"},
   calls : {{}, {"groups"}, {"services"}, {"pods"}, {"hpas"}, {"slices"}}]

RunOf(r) ==
  LET hinted == CHOOSE s \in H!TopLogCandidates(H!Containers(r.statuses)) : TRUE IN
  [cluster |-> r.cluster, fails |-> FailsIn(r.step, r.calls), statuses |-> r.statuses, hinted |-> hinted,
   logs |-> [c \in hinted |-> <<"error", "hint">>], warnings |-> <<TRUE, FALSE>>,
   reply |-> [s \in {1, 2, 9} |-> Silence]]

(***************************************************************************)
(* Reports                                                                 *)
(***************************************************************************)

SomeFindings == {Finding("critical", "cluster/nodes", FALSE), Finding("medium", "storage/pvc", FALSE),
                 Finding("low", "platform/observability", TRUE)}

InDoubt == Result(<<>>, 5, 3, TRUE)

Undoubted(f, e, u) == Result(f, e, u, FALSE)

SomeResults == {Undoubted(f, e, u) : f \in SeqOf(SomeFindings, 2), e \in {0, 5}, u \in {0, 2}}
                 \cup {InDoubt}

Reports == [kind : {"report"}, results : {<<a, b>> : a \in SomeResults, b \in SomeResults}, more : SomeFindings]
=============================================================================
