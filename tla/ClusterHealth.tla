--------------------------- MODULE ClusterHealth ----------------------------
(***************************************************************************)
(* What the analyzer clusterhealth makes of nodes and pods.  A pod is a    *)
(* record with a sequence of containers, as the API lists them; names are  *)
(* numbered in their order.  A termination has an exit code and may be     *)
(* called Completed.                                                       *)
(***************************************************************************)
EXTENDS Report

CONSTANTS
  KubeNamespaces,  \* what isSystemNamespace of this analyzer recognises
  IncludeSystem,   \* IncludeSystemNamespaces
  MaxSamples,      \* restarts that are looked at; 10 in the code
  MaxHints         \* MaxPodLogHints

NotTerminated == [exit |-> 0, completed |-> FALSE]

MostRecentTermination(c) == IF c.last # NotTerminated THEN c.last ELSE c.state

(* A container that has not terminated counts as completed, as does one    *)
(* whose exit code is zero.                                                *)
ClassifyTermination(c) ==
  LET t == MostRecentTermination(c) IN
  CASE c.waiting = "CrashLoopBackOff" -> "unknown"
    [] c.waiting # "CrashLoopBackOff" /\ (t.completed \/ t.exit = 0) -> "completed"
    [] c.waiting # "CrashLoopBackOff" /\ ~t.completed /\ t.exit = 143 -> "sigterm"
    [] OTHER -> "crashLike"

Looked(pod) == IncludeSystem \/ pod.ns \notin KubeNamespaces

(* The containers of the pods that are looked at, with their pod and their *)
(* place in the list.                                                      *)
ContainersOf(pods, i) ==
  {[pod |-> pods[i], place |-> <<i, j>>, status |-> pods[i].containers[j]] : j \in DOMAIN pods[i].containers}

Containers(pods) == UNION {ContainersOf(pods, i) : i \in {i \in DOMAIN pods : Looked(pods[i])}}

CrashLoops(c) == c.status.waiting = "CrashLoopBackOff"

Killed(c) == c.status.last.exit = 137

Restarted(c) == c.status.restarts > 0 /\ c.pod.old

Crashes(c) == Restarted(c) /\ ClassifyTermination(c.status) = "crashLike"

(***************************************************************************)
(* Logs                                                                    *)
(***************************************************************************)

(* The score of a container whose logs are of interest; zero if they are   *)
(* not.                                                                    *)
LogScore(c) ==
  CASE CrashLoops(c) -> 100
    [] ~CrashLoops(c) /\ Killed(c) -> 80
    [] ~CrashLoops(c) /\ ~Killed(c) /\ Crashes(c) -> IF c.status.restarts >= 5 THEN 60 ELSE 40
    [] OTHER -> 0

(* The choices of topLogCandidates: containers of the same pod with the    *)
(* same score come in the order of a Go map.                               *)
TopLogCandidates(cs) ==
  LET candidates == {c \in cs : LogScore(c) > 0}
      key(c) == <<-LogScore(c), c.pod.ns, c.pod.name>>
      Before(a, b) == \E i \in 1..3 : key(a)[i] < key(b)[i] /\ \A j \in 1..(i - 1) : key(a)[j] = key(b)[j]
      n == IF Cardinality(candidates) < MaxHints THEN Cardinality(candidates) ELSE MaxHints
  IN  {s \in kSubset(n, candidates) : \A a \in candidates \ s, b \in s : ~Before(a, b)}

(* What is said of the logs of a container: the log of the run before is   *)
(* taken if it can be read and says something, else the present one.       *)
LogHint(previous, current) ==
  [evidence |-> IF "hint" \in {previous, current} THEN 1 ELSE 0,
   unknowns |-> (IF previous = "error" THEN 1 ELSE 0)
                  + (IF previous # "hint" /\ current = "error" THEN 1 ELSE 0)]

(***************************************************************************)
(* Findings                                                                *)
(***************************************************************************)

(* The restarted containers with the most restarts, in a stable order.     *)
TopRestarts(cs) ==
  LET all == {c \in cs : Restarted(c)}
      Before(a, b) == \/ a.status.restarts > b.status.restarts
                      \/ a.status.restarts = b.status.restarts /\ Earlier(a.place, b.place)
  IN  {c \in all : Cardinality({d \in all : Before(d, c)}) < MaxSamples}

(* The most restarts are five or more.                                     *)
Churns(cs) == \E c \in cs : c.status.restarts >= 5

(* Mutant: the number of restarts is looked at before their reason. *)
RestartFindingByNumber(top) ==
  CASE Churns(top) -> <<Finding("low", "cluster/pods", FALSE)>>
    [] ~Churns(top) /\ \E c \in top : Crashes(c) /\ c.pod.ns \in KubeNamespaces ->
         <<Finding("medium", "cluster/pods", FALSE)>>
    [] OTHER -> <<>>

RestartFinding(top) ==
  LET crashes == {c \in top : Crashes(c)}
      serious == (\E c \in crashes : c.pod.ns \in KubeNamespaces) \/ Churns(crashes)
  IN  CASE serious -> <<Finding("medium", "cluster/pods", FALSE)>>
        [] ~serious /\ Churns(top) -> <<Finding("low", "cluster/pods", FALSE)>>
        [] OTHER -> <<>>

NotReady(nodes) == {n \in nodes : n.ready # "True"}

Pressed(nodes) == {n \in nodes : n.pressure}

NodeFindings(nodes) ==
  FindingIf(NotReady(nodes) # {}, "high", "cluster/nodes") \o FindingIf(Pressed(nodes) # {}, "high", "cluster/nodes")

Pending(pods) == {i \in DOMAIN pods : Looked(pods[i]) /\ pods[i].pending}

PodFindings(pods) ==
  FindingIf(Pending(pods) # {}, "medium", "cluster/pods")
    \o FindingIf(\E c \in Containers(pods) : CrashLoops(c), "high", "cluster/pods")
    \o FindingIf(\E c \in Containers(pods) : Killed(c), "high", "cluster/pods")

(* Run; logs[c] is what the logs of a container give, before and now, and  *)
(* hinted the choice of topLogCandidates.                                  *)
Health(nodes, pods, failing, hinted, logs) ==
  LET cs    == Containers(pods)
      loops == {c \in cs : CrashLoops(c)}
      top   == TopRestarts(cs)
      ofNodes == 1 + Cardinality(NotReady(nodes)) + Cardinality(Pressed(nodes))
      SumOver(f(_)) == MapThenSumSet(LAMBDA c : f(LogHint(logs[c][1], logs[c][2])), hinted)
  IN  CASE "nodes" \in failing -> Aborted
        [] "nodes" \notin failing /\ "pods" \in failing -> Result(NodeFindings(nodes), ofNodes, 1, FALSE)
        [] OTHER ->
             Result(NodeFindings(nodes) \o PodFindings(pods) \o RestartFinding(top),
                    ofNodes + 1 + Cardinality(Pending(pods)) + Cardinality(loops)
                      + Cardinality({c \in cs : Killed(c)}) + Cardinality(top) + SumOver(LAMBDA h : h.evidence),
                    SumOver(LAMBDA h : h.unknowns), loops # {})

(***************************************************************************)
(* Properties                                                              *)
(***************************************************************************)

(* A container that keeps crashing is reported as such, unless as many     *)
(* others as are looked at restart no less often, and its logs are among   *)
(* those fetched, unless as many others need them no less                  *)
(* (clusterhealth.go:252, clusterhealth.go:405).                           *)
CrashesAreEscalated(pods) ==
  LET cs == Containers(pods)
      Reported == [severity |-> "medium", scope |-> "cluster/pods", unconfirmed |-> FALSE]
                    \in ToSet(RestartFinding(TopRestarts(cs)))
  IN  \A c \in cs :
        /\ Crashes(c) /\ c.status.restarts >= 5 =>
             Reported \/ Cardinality({d \in cs : Restarted(d) /\ d.status.restarts >= c.status.restarts}) > MaxSamples
        /\ LogScore(c) > 0 => \A s \in TopLogCandidates(cs) :
             c \in s \/ Cardinality({d \in cs : LogScore(d) >= LogScore(c)}) > MaxHints

(* Deviation: a crash that keeps coming is reported however many others    *)
(* restart more often without harm.                                        *)
CrashesAreReported(pods) ==
  (\E c \in Containers(pods) : Crashes(c) /\ c.status.restarts >= 5) =>
    \E i \in DOMAIN RestartFinding(TopRestarts(Containers(pods))) :
      RestartFinding(TopRestarts(Containers(pods)))[i].severity = "medium"

(* Deviation: the logs that are fetched depend on the cluster alone.       *)
HintsAreDetermined(pods) == Cardinality(TopLogCandidates(Containers(pods))) = 1
=============================================================================
