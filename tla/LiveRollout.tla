----------------------------- MODULE LiveRollout -----------------------------
(***************************************************************************)
(* The live executor (internal/exec/executor.go): patch one Deployment,    *)
(* then poll it until it has rolled out, the verification times out or the *)
(* context expires.  Executors of several commands, an autoscaler and the  *)
(* deployment controller act on the same Deployment.  The cluster is       *)
(* external: it is modelled by what the executor reads of it.              *)
(***************************************************************************)
EXTENDS Naturals

CONSTANTS
  Executors,      \* commands that apply a live plan
  Operations,     \* operations the plans may ask for
  Strategies,     \* rollout strategies of the Deployment
  MaxReplicas,    \* bound: replicas of the Deployment
  None,           \* no verdict, no time
  VerifyTimeout,  \* verify.timeoutSeconds, in polling intervals; never 0
  CtxTimeout,     \* --timeout, in polling intervals
  MaxGeneration,  \* bound: changes of the specification
  MaxTime         \* bound: polling intervals per behaviour

Restart  == [type |-> "restart"]
Scale(n) == [type |-> "scale", replicas |-> n]

ASSUME RolloutAssumption ==
  /\ Operations \subseteq {Restart} \cup {Scale(n) : n \in 0..MaxReplicas}
  /\ Strategies \subseteq {"RollingUpdate", "Recreate"}
  /\ MaxReplicas \in Nat /\ MaxGeneration \in Nat \ {0} /\ MaxTime \in Nat
  /\ VerifyTimeout \in Nat \ {0} /\ CtxTimeout \in Nat
  /\ None \notin Nat /\ None \notin {"verified", "failed", "timeout", "cancelled"}

VARIABLES
  strategy,   \* spec.strategy.type
  replicas,   \* spec.replicas
  generation, \* metadata.generation
  pods,       \* old: available pods of earlier templates;
              \* starting, ready: pods of the current template
  status,     \* the status last written; both: how many of the pods that it
              \* counts were updated and available (the API does not tell)
  clock,      \* time, in polling intervals of 2 seconds
  restarted,  \* when the restart annotation was last written
  op,         \* what each executor is to do
  pc,         \* next step of each executor
  deadline,   \* end of the verification of each executor
  wake,       \* when each executor polls next
  result,     \* how Apply ended
  patched,    \* history: the generation after the patch of each executor
  seen,       \* history: the Deployment each executor was convinced by
  since       \* history: since when the Deployment has counted as rolled out

cluster == <<strategy, replicas, generation, pods, status, restarted, since>>
execs   == <<op, pc, deadline, wake, result, patched, seen>>
vars    == <<cluster, clock, execs>>

Results == {None, "verified", "failed", "timeout", "cancelled"}
Total   == pods.old + pods.starting + pods.ready

(* Mutants: the generation, or the available replicas, are not looked at. *)
RolledOutStale(gen, desired, st)   == st.updated >= desired /\ st.available >= desired
RolledOutUpdated(gen, desired, st) == gen <= st.observed /\ st.updated >= desired

(* deploymentRolledOut *)
RolledOut(gen, desired, st) ==
  /\ gen <= st.observed
  /\ st.updated >= desired
  /\ st.available >= desired

Init ==
  /\ strategy \in Strategies
  /\ replicas \in 1..MaxReplicas
  /\ generation = 1
  /\ pods = [old |-> 0, starting |-> 0, ready |-> replicas]
  /\ status = [observed |-> 1, updated |-> replicas, available |-> replicas,
               both |-> replicas]
  /\ clock = 0
  /\ restarted = None
  /\ op \in [Executors -> Operations]
  /\ pc = [e \in Executors |-> "patch"]
  /\ deadline = [e \in Executors |-> 0]
  /\ wake = [e \in Executors |-> 0]
  /\ result = [e \in Executors |-> None]
  /\ patched = [e \in Executors |-> 0]
  /\ seen = [e \in Executors |-> None]
  /\ since = 0

-----------------------------------------------------------------------------
(* Since when the Deployment is rolled out, after a write to it. *)
Since(gen, desired, st) ==
  IF ~RolledOut(gen, desired, st) THEN None
  ELSE IF since = None THEN clock ELSE since

(* A patch that changes nothing leaves the generation alone. *)
SetReplicas(n) ==
  /\ replicas' = n
  /\ generation' = IF n = replicas THEN generation ELSE generation + 1
  /\ UNCHANGED <<pods, restarted>>

(* The annotation holds the time to the second: a second restart in the    *)
(* same second changes nothing.  A new template makes every pod an old     *)
(* one; old pods that are not available are removed first.                 *)
SetRestartedAt ==
  /\ restarted' = clock
  /\ \/ /\ restarted = clock
        /\ UNCHANGED <<generation, pods>>
     \/ /\ generation' = generation + 1
        /\ pods' = [old |-> pods.old + pods.ready, starting |-> 0, ready |-> 0]
  /\ UNCHANGED replicas

ApiPatch(o) ==
  /\ generation < MaxGeneration
  /\ IF o.type = "scale" THEN SetReplicas(o.replicas) ELSE SetRestartedAt
  /\ since' = Since(generation', replicas', status)
  /\ UNCHANGED <<strategy, status>>

End(e, r) ==
  /\ pc' = [pc EXCEPT ![e] = "end"]
  /\ result' = [result EXCEPT ![e] = r]

(***************************************************************************)
(* Executor.Apply                                                          *)
(***************************************************************************)

(* rolloutRestartDeployment or scaleDeployment; the verification starts.   *)
Patch(e) ==
  /\ pc[e] = "patch"
  /\ clock + VerifyTimeout <= MaxTime
  /\ clock < CtxTimeout
  /\ ApiPatch(op[e])
  /\ pc' = [pc EXCEPT ![e] = "verify"]
  /\ deadline' = [deadline EXCEPT ![e] = clock + VerifyTimeout]
  /\ patched' = [patched EXCEPT ![e] = generation']
  /\ UNCHANGED <<clock, op, wake, result, seen>>

(* The call fails, before or after the API server has done it. *)
PatchFails(e) ==
  /\ pc[e] = "patch"
  /\ \/ UNCHANGED cluster
     \/ clock < CtxTimeout /\ ApiPatch(op[e])
  /\ End(e, "failed")
  /\ UNCHANGED <<clock, op, deadline, wake, patched, seen>>

(* Mutants: the verification never times out; it polls half as often. *)
NeverExpired(e) == FALSE
NextPollLate    == clock + 2

Expired(e) == clock >= deadline[e]
NextPoll   == clock + 1

(* One turn of the loop of verifyDeploymentRollout. *)
Verify(e) ==
  /\ pc[e] = "verify"
  /\ ~Expired(e)
  /\ clock < CtxTimeout
  /\ \/ /\ RolledOut(generation, replicas, status)
        /\ End(e, "verified")
        /\ seen' = [seen EXCEPT ![e] = [desired |-> replicas, status |-> status]]
        /\ UNCHANGED wake
     \/ /\ ~RolledOut(generation, replicas, status)
        /\ pc' = [pc EXCEPT ![e] = "sleep"]
        /\ wake' = [wake EXCEPT ![e] = NextPoll]
        /\ UNCHANGED <<result, seen>>
  /\ UNCHANGED <<cluster, clock, op, deadline, patched>>

(* The Get of the loop fails; under an expired context it always does. *)
GetFails(e) ==
  /\ pc[e] = "verify"
  /\ ~Expired(e)
  /\ End(e, "failed")
  /\ UNCHANGED <<cluster, clock, op, deadline, wake, patched, seen>>

(* The deadline is looked at before the Deployment is. *)
VerifyTimesOut(e) ==
  /\ pc[e] = "verify"
  /\ Expired(e)
  /\ End(e, "timeout")
  /\ UNCHANGED <<cluster, clock, op, deadline, wake, patched, seen>>

Wake(e) ==
  /\ pc[e] = "sleep"
  /\ clock >= wake[e]
  /\ pc' = [pc EXCEPT ![e] = "verify"]
  /\ UNCHANGED <<cluster, clock, op, deadline, wake, result, patched, seen>>

ContextExpires(e) ==
  /\ pc[e] = "sleep"
  /\ clock >= CtxTimeout
  /\ End(e, "cancelled")
  /\ UNCHANGED <<cluster, clock, op, deadline, wake, patched, seen>>

(***************************************************************************)
(* The cluster                                                             *)
(***************************************************************************)

(* The controller writes the status it computed from the pods. *)
WriteStatus ==
  /\ status' = [observed |-> generation,
                updated |-> pods.starting + pods.ready,
                available |-> pods.old + pods.ready,
                both |-> pods.ready]
  /\ since' = Since(generation, replicas, status')
  /\ UNCHANGED <<strategy, replicas, generation, pods, clock, restarted, execs>>

Repod(new) ==
  /\ pods' = new
  /\ UNCHANGED <<strategy, replicas, generation, status, clock, restarted, since, execs>>

(* A rolling update adds one pod above the desired number and takes old    *)
(* ones away only while enough are available (maxSurge 1, maxUnavailable   *)
(* 0); Recreate starts new pods when the old ones are gone.                *)
CreatePod ==
  /\ pods.starting + pods.ready < replicas
  /\ IF strategy = "Recreate" THEN pods.old = 0 ELSE Total <= replicas
  /\ Repod([pods EXCEPT !.starting = @ + 1])

RemoveOldPod ==
  /\ pods.old > 0
  /\ strategy = "Recreate" \/ pods.old + pods.ready > replicas
  /\ Repod([pods EXCEPT !.old = @ - 1])

RemoveSurplusPod ==
  /\ pods.starting + pods.ready > replicas
  /\ Repod(IF pods.starting > 0 THEN [pods EXCEPT !.starting = @ - 1]
                                ELSE [pods EXCEPT !.ready = @ - 1])

PodReady ==
  /\ pods.starting > 0
  /\ Repod([pods EXCEPT !.starting = @ - 1, !.ready = @ + 1])

PodCrashes ==
  /\ pods.ready > 0
  /\ Repod([pods EXCEPT !.starting = @ + 1, !.ready = @ - 1])

(* An autoscaler, an operator with kubectl, or another executor. *)
ChangedByOthers(o) ==
  /\ ApiPatch(o)
  /\ UNCHANGED <<clock, execs>>

(* A call takes less than a polling interval, and sleepers wake in time.   *)
Tick ==
  /\ clock < MaxTime
  /\ \A e \in Executors : pc[e] # "verify" /\ (pc[e] = "sleep" => clock < wake[e])
  /\ clock' = clock + 1
  /\ UNCHANGED <<cluster, execs>>

-----------------------------------------------------------------------------
VerifyStep(e) ==
  Verify(e) \/ GetFails(e) \/ VerifyTimesOut(e) \/ Wake(e) \/ ContextExpires(e)

Controller ==
  WriteStatus \/ CreatePod \/ RemoveOldPod \/ RemoveSurplusPod \/ PodReady \/ PodCrashes

Next ==
  \/ \E e \in Executors : Patch(e) \/ PatchFails(e) \/ VerifyStep(e)
  \/ Controller
  \/ \E o \in Operations : ChangedByOthers(o)
  \/ Tick

Spec == Init /\ [][Next]_vars

(* Time passes and an executor that verifies runs on; the cluster need not *)
(* make progress.                                                          *)
FairSpec == Spec /\ WF_vars(Tick) /\ \A e \in Executors : WF_vars(VerifyStep(e))

-----------------------------------------------------------------------------
Counts == 0..(MaxReplicas + MaxReplicas + 1)
Status == [observed : 0..MaxGeneration, updated : Counts, available : Counts, both : Counts]

TypeOK ==
  /\ strategy \in Strategies
  /\ replicas \in 0..MaxReplicas
  /\ generation \in 1..MaxGeneration
  /\ pods \in [old : Counts, starting : Counts, ready : Counts]
  /\ status \in Status
  /\ clock \in 0..MaxTime
  /\ restarted \in 0..MaxTime \cup {None}
  /\ op \in [Executors -> Operations]
  /\ pc \in [Executors -> {"patch", "verify", "sleep", "end"}]
  /\ deadline \in [Executors -> 0..MaxTime]
  /\ wake \in [Executors -> 0..(MaxTime + 1)]
  /\ result \in [Executors -> Results]
  /\ patched \in [Executors -> 0..MaxGeneration]
  /\ seen \in [Executors -> [desired : 0..MaxReplicas, status : Status] \cup {None}]
  /\ since \in 0..MaxTime \cup {None}

(* A verified scale really was in effect: unless the Deployment was        *)
(* changed by someone else since, the controller, having seen the patch,   *)
(* counted as many available pods as the plan asked for.                   *)
VerifiedScaleWasReached ==
  \A e \in Executors :
    result[e] = "verified" /\ op[e].type = "scale" =>
      \/ seen[e].status.observed > patched[e]
      \/ /\ seen[e].status.observed = patched[e]
         /\ seen[e].status.available >= op[e].replicas

(* "desired replicas are updated & available" (comment of                  *)
(* deploymentRolledOut): when an executor reports a verified rollout, that *)
(* many pods of the new template were available.                           *)
VerifiedPodsAreAvailable ==
  \A e \in Executors :
    result[e] = "verified" => seen[e].status.both >= seen[e].desired

(* It is so where the controller takes the old pods away first.            *)
RecreatedPodsAreAvailable == strategy = "Recreate" => VerifiedPodsAreAvailable

(* A verification that times out missed no rollout: the Deployment had not *)
(* been rolled out for more than one polling interval at the deadline.     *)
RolledOutInTimeIsVerified ==
  \A e \in Executors :
    result[e] = "timeout" => since = None \/ since + 1 >= deadline[e]

(* Whatever the cluster does, Apply comes to an end, and not after the     *)
(* time that the plan gives its verification.                              *)
ApplyEnds ==
  \A e \in Executors : pc[e] = "verify" ~> pc[e] = "end" /\ clock <= deadline[e]
=============================================================================
