----------------------------- MODULE Workloads ------------------------------
(***************************************************************************)
(* What the analyzers join out of the objects of a cluster: the profile of *)
(* a workload out of the services, autoscalers and budgets around it, and  *)
(* the workload that a pod belongs to.  A cluster is a record of sets of   *)
(* objects, each with its namespace; labels and selectors are sets.        *)
(***************************************************************************)
EXTENDS Capability, RiskScore, Report

CONSTANTS
  IncludeSystem,  \* IncludeSystemNamespaces
  Unset           \* replicas that a manifest does not give

Key(ns, kind, name) == [ns |-> ns, kind |-> kind, name |-> name]

(* includeNamespace, of any set of objects.                                *)
Seen(objects) == {o \in objects : Included(o.ns, IncludeSystem)}

(***************************************************************************)
(* Profiles                                                                *)
(***************************************************************************)

Matches(selector, labels) == selector # {} /\ selector \subseteq labels

(* The ingresses that have a service as a backend, default or of a path.   *)
IngressesOf(c, svc) == {i \in Seen(c.ingresses) : i.ns = svc.ns /\ svc.name \in i.backends}

External(c, svc) == FromOutside(svc) \/ IngressesOf(c, svc) # {}

(* A condition that is missing counts as ready.                            *)
IsReady(endpoint) == endpoint \in {"ready", "unknown"}

ReadyIn(slice) == Cardinality({e \in DOMAIN slice.endpoints : IsReady(slice.endpoints[e])})

SlicesBehind(c, svc) == {s \in Seen(c.slices) : s.ns = svc.ns /\ s.service = svc.name}

ReadyEndpoints(c, svc) == Total([s \in SlicesBehind(c, svc) |-> ReadyIn(s)])

(* newDeploymentProfile, newStatefulSetProfile *)
NewProfile(w) ==
  [desired |-> IF w.replicas = Unset THEN 1 ELSE w.replicas, ready |-> w.ready,
   services |-> 0, external |-> 0, endpoints |-> 0, hpa |-> FALSE, pdb |-> FALSE,
   stateful |-> w.kind = "StatefulSet", pvc |-> w.pvc,
   missingReadiness |-> w.missing.readiness, missingLiveness |-> w.missing.liveness,
   missingRequests |-> w.missing.requests, missingLimits |-> w.missing.limits]

IsTarget(c, w) == \E h \in Seen(c.hpas) : h.target = w.name /\ h.kind = w.kind /\ h.ns = w.ns

ServicesOf(c, w) == {s \in Seen(c.services) : s.ns = w.ns /\ Matches(s.selector, w.labels)}

HasBudget(c, w) == \E b \in Seen(c.pdbs) : b.ns = w.ns /\ Matches(b.selector, w.labels)

ExternalOf(c, w) == {s \in ServicesOf(c, w) : External(c, s)}

Profile(c, w) ==
  [NewProfile(w) EXCEPT
     !.services  = Cardinality(ServicesOf(c, w)),
     !.external  = Cardinality(ExternalOf(c, w)),
     !.endpoints = Total([s \in ServicesOf(c, w) |-> ReadyEndpoints(c, s)]),
     !.hpa       = IsTarget(c, w),
     !.pdb       = HasBudget(c, w)]

(***************************************************************************)
(* Owners                                                                  *)
(***************************************************************************)

NoOwner == [kind |-> "none"]

(* The owner that is the controller, else the first.                       *)
ControllerOwner(refs) ==
  LET controllers == {i \in DOMAIN refs : refs[i].controller} IN
  CASE controllers # {} -> refs[Min(controllers)]
    [] controllers = {} /\ refs # <<>> -> refs[1]
    [] OTHER -> NoOwner

(* collectReplicaSetOwners: replica sets of something else than a          *)
(* deployment stand for themselves.                                        *)
ReplicaSetOwner(rs) ==
  LET owner == ControllerOwner(rs.owners) IN
  IF owner.kind = "Deployment" THEN Key(rs.ns, "Deployment", owner.name)
  ELSE Key(rs.ns, "ReplicaSet", rs.name)

(* buildPodOwners *)
PodOwner(c, pod) ==
  LET ref == ControllerOwner(pod.owners)
      sets == {rs \in Seen(c.replicaSets) : rs.ns = pod.ns /\ rs.name = ref.name}
  IN  CASE ref = NoOwner -> Key(pod.ns, "Pod", pod.name)
        [] ref # NoOwner /\ ref.kind = "ReplicaSet" /\ sets # {} -> ReplicaSetOwner(CHOOSE rs \in sets : TRUE)
        [] OTHER -> Key(pod.ns, ref.kind, ref.name)
=============================================================================
