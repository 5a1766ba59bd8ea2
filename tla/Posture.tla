------------------------------ MODULE Posture -------------------------------
(***************************************************************************)
(* The analyzers that look at one kind of thing each: rollouts, resources, *)
(* events, budgets, exposed services, autoscaling, policies, versions.     *)
(* They use a cluster as those of WorkloadAnalyzers do; a workload here    *)
(* also says how many replicas are unavailable and whether its rollout has *)
(* failed of late.                                                         *)
(***************************************************************************)
EXTENDS WorkloadAnalyzers

CONSTANT SystemPrefixed  \* namespaces that the copies of isSystemNamespace recognise

(* includeNamespace of the analyzers that have a copy of their own.        *)
SeenHere(objects) == {o \in objects : IncludeSystem \/ o.ns \notin SystemPrefixed}

Deployments(c) == {w \in c.workloads : w.kind = "Deployment"}

(***************************************************************************)
(* workloads, resources                                                    *)
(***************************************************************************)

(* A condition that has not changed for 30 days does not count.            *)
ProgressingIsFalse(w) == w.progressing = "False"

Rollouts(c, failing) ==
  LET deps     == SeenHere(Deployments(c))
      degraded == {w \in deps : w.unavailable > 0}
      stuck    == {w \in deps : ProgressingIsFalse(w)}
  IN  IF "workloads" \in failing THEN Aborted
      ELSE Result(FindingIf(degraded # {}, "high", "workloads/deployments")
                    \o FindingIf(stuck # {}, "high", "workloads/deployments"),
                  1 + Cardinality(degraded) + Cardinality(stuck), 0, degraded # {})

(* Containers that miss something; a probe is missed if one of the two is. *)
Resources(c, failing) ==
  LET deps == SeenHere(Deployments(c))
      Missing(f(_)) == MapThenSumSet(LAMBDA w : f(w.missing), deps)
      requests == Missing(LAMBDA m : m.requests)
      limits   == Missing(LAMBDA m : m.limits)
      probes   == Missing(LAMBDA m : m.probes)
  IN  IF "workloads" \in failing THEN Aborted
      ELSE Result(FindingIf(requests > 0, "medium", "workloads/resources")
                    \o FindingIf(limits > 0, "low", "workloads/resources")
                    \o FindingIf(probes > 0, "medium", "workloads/probes"),
                  requests + limits + probes, 0, requests > 0 \/ probes > 0)

(***************************************************************************)
(* events, pdb                                                             *)
(***************************************************************************)

(* Of the times that an event may have, the first that is set.             *)
EventLastSeen(e) ==
  LET i == SelectInSeq(e.times, LAMBDA t : t # "unset") IN IF i = 0 THEN "unset" ELSE e.times[i]

(* An event without a time counts as recent.                               *)
Recent(e) == e.warning /\ EventLastSeen(e) \in {"unset", "recent"}

Events(c, failing) ==
  LET n == Cardinality({e \in c.events : Recent(e)}) IN
  IF "events" \in failing THEN Aborted
  ELSE Result(FindingIf(n > 0, "medium", "cluster/events"), 1 + Lesser(10, n), 0, n > 0)

Budgets(c, failing) ==
  LET none == SeenHere(c.pdbs) = {} IN
  IF "pdbs" \in failing THEN Aborted
  ELSE Result(FindingIf(none, "low", "policies/pdb"), 1, If(none, 1), FALSE)

(***************************************************************************)
(* trafficexposure, autoscalingposture, policycoverage                     *)
(***************************************************************************)

(* Mutant: endpoints that are listed count as ready. *)
UnservedServicesListed(c) ==
  {s \in Seen(c.services) :
     /\ FromOutside(s) /\ s.selector # {}
     /\ \A l \in c.slices : l.ns = s.ns /\ l.service = s.name => DOMAIN l.endpoints = {}}

(* Exposed services with a selector and no endpoint that is ready.         *)
UnservedServices(c) ==
  {s \in Seen(c.services) :
     /\ FromOutside(s) /\ s.selector # {}
     /\ \A l \in c.slices : l.ns = s.ns /\ l.service = s.name =>
          \A e \in DOMAIN l.endpoints : ~IsReady(l.endpoints[e])}

(* A list of endpoints that fails is passed over.                          *)
TrafficExposure(c, failing) ==
  LET unserved == IF "slices" \in failing THEN {} ELSE UnservedServices(c) IN
  IF "services" \in failing THEN Aborted
  ELSE Result(FindingIf(unserved # {}, "high", "traffic/services"), 1 + Cardinality(unserved), 0, FALSE)

(* Exposed deployments of one replica that nothing scales.                 *)
SingleReplicas(c) ==
  {w \in Seen(Deployments(c)) :
     /\ NewProfile(w).desired = 1
     /\ ~IsTarget(c, w)
     /\ \E s \in c.services : s.ns = w.ns /\ FromOutside(s) /\ Matches(s.selector, w.labels)}

AutoscalingPosture(c, failing) ==
  IF failing \cap {"workloads", "hpas", "services"} # {} THEN Aborted
  ELSE Result(FindingIf(SingleReplicas(c) # {}, "medium", "workloads/autoscaling"),
              1 + Cardinality(SingleReplicas(c)), 0, FALSE)

(* Namespaces with pods that have neither a quota nor a range of limits.   *)
WithoutDefaults(c) ==
  {n \in Seen(c.namespaces) :
     (\E p \in c.pods : p.ns = n.ns) /\ ~\E q \in c.quotas \cup c.ranges : q.ns = n.ns}

PolicyLists == {"namespaces", "quotas", "ranges", "policies", "pods"}

PolicyCoverage(c, failing) ==
  IF failing \cap PolicyLists # {} THEN Aborted
  ELSE Result(FindingIf(WithoutDefaults(c) # {}, "low", "policies/namespaces"), 1, 0, FALSE)
=============================================================================
