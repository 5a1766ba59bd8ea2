-------------------------- MODULE LiveRolloutProofs --------------------------
(* Theorems about LiveRollout. *)
EXTENDS LiveRollout, TLAPS

(***************************************************************************)
(* The invariant: what holds of the cluster ...                            *)
(***************************************************************************)

(* A rolling update is one pod above the largest Deployment at most. *)
FewPods == Total <= MaxReplicas + 1

(* Under Recreate, pods of an earlier template are alone, so that what the *)
(* controller counts as updated, or what it counts as available, is both.  *)
RecreatedAlone ==
  strategy = "Recreate" =>
    /\ pods.old = 0 \/ (pods.starting = 0 /\ pods.ready = 0)
    /\ status.both >= status.updated \/ status.both >= status.available

(* since tells whether the Deployment counts as rolled out now. *)
SinceRolledOut ==
  /\ since = None <=> ~RolledOut(generation, replicas, status)
  /\ since # None => since <= clock

ClusterInv == FewPods /\ RecreatedAlone /\ SinceRolledOut /\ status.observed <= generation

(***************************************************************************)
(* ... and of an executor.                                                 *)
(***************************************************************************)

(* The generation that a scale has made has the replicas it asked for. *)
PatchInForce(e) ==
  pc[e] \in {"verify", "sleep"} =>
    /\ patched[e] <= generation
    /\ op[e].type = "scale" /\ generation = patched[e] => replicas = op[e].replicas

(* An executor about to look at the Deployment has just started, or has    *)
(* looked one polling interval ago, when it was not rolled out.            *)
NoRolloutMissed(e) ==
  /\ pc[e] = "verify" => clock < deadline[e] \/ since = None \/ since + 1 >= clock
  /\ pc[e] = "sleep"  => /\ clock <= wake[e] /\ wake[e] <= clock + 1
                         /\ since = None \/ since + 1 >= wake[e]
  /\ result[e] = "timeout" =>
       clock >= deadline[e] /\ (since = None \/ since + 1 >= deadline[e])

(* No verification is open after its deadline. *)
InTime(e) ==
  /\ pc[e] \in {"verify", "sleep"} => clock <= deadline[e]
  /\ pc[e] = "sleep" => wake[e] <= deadline[e]

Convinced(e) ==
  result[e] = "verified" =>
    /\ op[e].type = "scale" =>
         \/ seen[e].status.observed > patched[e]
         \/ /\ seen[e].status.observed = patched[e]
            /\ seen[e].status.available >= op[e].replicas
    /\ strategy = "Recreate" => seen[e].status.both >= seen[e].desired

ExecutorInv(e) ==
  /\ result[e] # None => pc[e] = "end"
  /\ PatchInForce(e) /\ NoRolloutMissed(e) /\ InTime(e) /\ Convinced(e)

IInv == TypeOK /\ ClusterInv /\ \A e \in Executors : ExecutorInv(e)

-----------------------------------------------------------------------------
LEMMA OperationFields ==
  ASSUME NEW o \in Operations
  PROVE  /\ o.type \in {"restart", "scale"}
         /\ o.type = "scale" => o.replicas \in 0..MaxReplicas
  BY RolloutAssumption DEF Restart, Scale

(* The invariant holds initially. *)
LEMMA InitInv == Init => IInv
<1> SUFFICES ASSUME Init PROVE IInv
  OBVIOUS
<1> USE RolloutAssumption DEF Init
<1>1. TypeOK
  <2>1. replicas \in 0..MaxReplicas /\ replicas \in Counts /\ 0 \in Counts
    BY DEF Counts
  <2>2. pods \in [old : Counts, starting : Counts, ready : Counts] /\ status \in Status
    BY <2>1 DEF Status
  <2> QED BY <2>1, <2>2 DEF TypeOK, Results
<1>2. ClusterInv
  BY DEF ClusterInv, FewPods, Total, RecreatedAlone, SinceRolledOut, RolledOut
<1>3. ASSUME NEW e \in Executors PROVE ExecutorInv(e)
  BY DEF ExecutorInv, PatchInForce, NoRolloutMissed, InTime, Convinced
<1> QED BY <1>1, <1>2, <1>3 DEF IInv

(***************************************************************************)
(* What a step of the cluster, or a patch, may do.                         *)
(***************************************************************************)
ClusterTypes ==
  /\ strategy \in Strategies /\ replicas \in 0..MaxReplicas /\ generation \in 1..MaxGeneration
  /\ pods \in [old : Counts, starting : Counts, ready : Counts]
  /\ status \in Status
  /\ restarted \in 0..MaxTime \cup {None} /\ since \in 0..MaxTime \cup {None}

ClusterMoves ==
  /\ ClusterTypes' /\ ClusterInv'
  /\ strategy' = strategy /\ clock' = clock
  /\ generation <= generation' /\ (generation' = generation => replicas' = replicas)
  /\ since' \in {since, None, clock}

(* Since is what SinceRolledOut says. *)
LEMMA SinceFollows ==
  ASSUME IInv, clock' = clock, since' = Since(generation', replicas', status')
  PROVE  /\ since' \in 0..MaxTime \cup {None} /\ since' \in {since, None, clock}
         /\ SinceRolledOut'
<1>1. clock \in 0..MaxTime /\ since \in 0..MaxTime \cup {None} /\ None \notin 0..MaxTime
  BY RolloutAssumption DEF IInv, TypeOK
<1>2. since # None => since <= clock
  BY DEF IInv, ClusterInv, SinceRolledOut
<1>3. since' = IF ~RolledOut(generation, replicas, status)' THEN None
               ELSE IF since = None THEN clock ELSE since
  BY DEF Since, RolledOut
<1> HIDE DEF RolledOut
<1>4. since' \in 0..MaxTime \cup {None} /\ since' \in {since, None, clock}
  BY <1>1, <1>3
<1>5. SinceRolledOut'
  BY <1>1, <1>2, <1>3 DEF SinceRolledOut
<1> QED BY <1>4, <1>5

LEMMA PatchMoves ==
  ASSUME IInv, NEW o \in Operations, ApiPatch(o), clock' = clock
  PROVE  ClusterMoves /\ (o.type = "scale" => replicas' = o.replicas)
<1>1. TypeOK /\ ClusterInv
  BY DEF IInv
<1>2. o.type \in {"restart", "scale"} /\ (o.type = "scale" => o.replicas \in 0..MaxReplicas)
  BY OperationFields
<1>3. since' \in 0..MaxTime \cup {None} /\ since' \in {since, None, clock} /\ SinceRolledOut'
  <2>1. since' = Since(generation', replicas', status')
    BY DEF ApiPatch
  <2> QED BY <2>1, SinceFollows
<1>4. strategy' = strategy /\ status' = status /\ generation < MaxGeneration
  BY DEF ApiPatch
<1>5. CASE o.type = "scale" /\ SetReplicas(o.replicas)
  <2>1. /\ replicas' = o.replicas /\ pods' = pods /\ restarted' = restarted
        /\ generation' = IF o.replicas = replicas THEN generation ELSE generation + 1
    BY <1>5 DEF SetReplicas
  <2>2. ClusterTypes'
    BY <1>1, <1>2, <1>3, <1>4, <1>5, <2>1, RolloutAssumption DEF ClusterTypes, TypeOK
  <2>3. generation <= generation' /\ (generation' = generation => replicas' = replicas)
    BY <1>1, <2>1 DEF TypeOK
  <2>4. FewPods' /\ RecreatedAlone'
    BY <1>1, <1>4, <2>1 DEF ClusterInv, FewPods, Total, RecreatedAlone
  <2>5. status'.observed <= generation'
    BY <1>1, <1>4, <2>1 DEF ClusterInv, TypeOK, Status
  <2> QED BY <1>3, <1>4, <2>1, <2>2, <2>3, <2>4, <2>5 DEF ClusterMoves, ClusterInv
<1>6. CASE o.type # "scale" /\ SetRestartedAt
  <2>1. replicas' = replicas /\ restarted' = clock
    BY <1>6 DEF SetRestartedAt
  <2>2. CASE UNCHANGED <<generation, pods>>
    <3>1. ClusterTypes'
      BY <1>1, <1>3, <1>4, <2>1, <2>2 DEF ClusterTypes, TypeOK
    <3>2. FewPods' /\ RecreatedAlone' /\ status'.observed <= generation'
      BY <1>1, <1>4, <2>2 DEF ClusterInv, FewPods, Total, RecreatedAlone
    <3>3. generation <= generation'
      BY <1>1, <2>2 DEF TypeOK
    <3> QED BY <1>3, <1>4, <1>6, <2>1, <3>1, <3>2, <3>3 DEF ClusterMoves, ClusterInv
  <2>3. CASE /\ generation' = generation + 1
             /\ pods' = [old |-> pods.old + pods.ready, starting |-> 0, ready |-> 0]
    <3>1. /\ pods.old \in Nat /\ pods.starting \in Nat /\ pods.ready \in Nat
          /\ pods.old + pods.ready \in Counts /\ 0 \in Counts
      BY <1>1, RolloutAssumption DEF TypeOK, Counts, ClusterInv, FewPods, Total
    <3>2. ClusterTypes'
      BY <1>1, <1>3, <1>4, <2>1, <2>3, <3>1, RolloutAssumption DEF ClusterTypes, TypeOK
    <3>3. FewPods'
      BY <1>1, <2>3, <3>1, RolloutAssumption DEF ClusterInv, FewPods, Total
    <3>4. RecreatedAlone'
      BY <1>1, <1>4, <2>3 DEF ClusterInv, RecreatedAlone
    <3>5. generation < generation' /\ status'.observed <= generation'
      BY <1>1, <1>4, <2>3 DEF TypeOK, Status, ClusterInv
    <3>6. generation <= generation' /\ generation' # generation
      BY <1>1, <2>3 DEF TypeOK
    <3> QED BY <1>3, <1>4, <1>6, <3>2, <3>3, <3>4, <3>5, <3>6 DEF ClusterMoves, ClusterInv
  <2> QED BY <1>6, <2>2, <2>3 DEF SetRestartedAt
<1> QED BY <1>5, <1>6 DEF ApiPatch

LEMMA PodsExcept ==
  ASSUME pods \in [old : Counts, starting : Counts, ready : Counts], NEW a, NEW b, NEW new,
         new = [pods EXCEPT !.starting = a, !.ready = b]
  PROVE  new = [old |-> pods.old, starting |-> a, ready |-> b]
OBVIOUS

LEMMA ControllerMoves ==
  ASSUME IInv, Controller
  PROVE  ClusterMoves /\ UNCHANGED execs
<1>1. TypeOK /\ ClusterInv
  BY DEF IInv
<1>2. /\ pods.old \in Nat /\ pods.starting \in Nat /\ pods.ready \in Nat
      /\ pods = [old |-> pods.old, starting |-> pods.starting, ready |-> pods.ready]
      /\ pods.old + pods.starting + pods.ready <= MaxReplicas + 1
      /\ replicas \in Nat /\ replicas <= MaxReplicas /\ MaxReplicas \in Nat
      /\ Counts = 0..(MaxReplicas + MaxReplicas + 1)
  BY <1>1, RolloutAssumption DEF TypeOK, Counts, ClusterInv, FewPods, Total
<1>3. CASE WriteStatus
  <2>1. /\ status' = [observed |-> generation, updated |-> pods.starting + pods.ready,
                     available |-> pods.old + pods.ready, both |-> pods.ready]
        /\ UNCHANGED <<strategy, replicas, generation, pods, clock, restarted, execs>>
    BY <1>3 DEF WriteStatus
  <2>2. since' \in 0..MaxTime \cup {None} /\ since' \in {since, None, clock} /\ SinceRolledOut'
    <3>1. since' = Since(generation', replicas', status') /\ clock' = clock
      BY <1>3 DEF WriteStatus
    <3> QED BY <3>1, SinceFollows
  <2>3. status' \in Status
    <3>1. pods.starting + pods.ready \in Counts /\ pods.old + pods.ready \in Counts
          /\ pods.ready \in Counts /\ generation \in 0..MaxGeneration
      BY <1>1, <1>2 DEF TypeOK
    <3> QED BY <2>1, <3>1 DEF Status
  <2>4. ClusterTypes'
    BY <1>1, <2>1, <2>2, <2>3 DEF ClusterTypes, TypeOK
  <2>5. FewPods' /\ status'.observed <= generation' /\ generation <= generation'
    BY <1>1, <2>1 DEF ClusterInv, FewPods, Total, TypeOK
  <2>6. RecreatedAlone'
    BY <1>1, <1>2, <2>1 DEF ClusterInv, RecreatedAlone
  <2> QED BY <2>1, <2>2, <2>4, <2>5, <2>6 DEF ClusterMoves, ClusterInv
<1>4. ASSUME NEW old \in Nat, NEW starting \in Nat, NEW ready \in Nat,
             Repod([old |-> old, starting |-> starting, ready |-> ready]),
             old + starting + ready <= MaxReplicas + 1,
             strategy = "Recreate" => old = 0 \/ (starting = 0 /\ ready = 0)
      PROVE  ClusterMoves /\ UNCHANGED execs
  <2>1. /\ pods' = [old |-> old, starting |-> starting, ready |-> ready]
        /\ UNCHANGED <<strategy, replicas, generation, status, clock, restarted, since, execs>>
    BY <1>4 DEF Repod
  <2>2. ClusterTypes'
    <3>1. old \in Counts /\ starting \in Counts /\ ready \in Counts
      BY <1>2, <1>4
    <3> QED BY <1>1, <2>1, <3>1 DEF ClusterTypes, TypeOK
  <2>3. FewPods' /\ RecreatedAlone' /\ status'.observed <= generation' /\ generation <= generation'
    BY <1>1, <1>4, <2>1 DEF ClusterInv, FewPods, Total, RecreatedAlone, TypeOK
  <2>4. SinceRolledOut'
    BY <1>1, <2>1 DEF ClusterInv, SinceRolledOut, RolledOut
  <2> QED BY <2>1, <2>2, <2>3, <2>4 DEF ClusterMoves, ClusterInv
<1>5. strategy = "Recreate" => pods.old = 0 \/ (pods.starting = 0 /\ pods.ready = 0)
  BY <1>1 DEF ClusterInv, RecreatedAlone
<1>6. CASE CreatePod
  <2>1. Repod([old |-> pods.old, starting |-> pods.starting + 1, ready |-> pods.ready])
    BY <1>2, <1>6 DEF CreatePod
  <2>2. pods.old + (pods.starting + 1) + pods.ready <= MaxReplicas + 1
    BY <1>2, <1>6 DEF CreatePod, Total
  <2>3. strategy = "Recreate" => pods.old = 0
    BY <1>6 DEF CreatePod
  <2> QED BY <1>2, <1>4, <2>1, <2>2, <2>3
<1>7. CASE RemoveOldPod
  <2>1. Repod([old |-> pods.old - 1, starting |-> pods.starting, ready |-> pods.ready])
    BY <1>2, <1>7 DEF RemoveOldPod
  <2>2. /\ pods.old - 1 \in Nat
        /\ (pods.old - 1) + pods.starting + pods.ready <= MaxReplicas + 1
        /\ pods.old # 0
    <3>1. pods.old > 0
      BY <1>7 DEF RemoveOldPod
    <3> QED BY <1>2, <3>1
  <2> QED BY <1>2, <1>4, <1>5, <2>1, <2>2
<1>8. CASE RemoveSurplusPod
  <2>1. CASE pods.starting > 0
    <3>1. Repod([old |-> pods.old, starting |-> pods.starting - 1, ready |-> pods.ready])
      BY <1>2, <1>8, <2>1 DEF RemoveSurplusPod
    <3>2. /\ pods.starting - 1 \in Nat
          /\ pods.old + (pods.starting - 1) + pods.ready <= MaxReplicas + 1
          /\ pods.starting # 0
      BY <1>2, <2>1
    <3> QED BY <1>2, <1>4, <1>5, <3>1, <3>2
  <2>2. CASE ~(pods.starting > 0)
    <3>1. Repod([old |-> pods.old, starting |-> pods.starting, ready |-> pods.ready - 1])
      BY <1>2, <1>8, <2>2 DEF RemoveSurplusPod
    <3>2. /\ pods.ready - 1 \in Nat
          /\ pods.old + pods.starting + (pods.ready - 1) <= MaxReplicas + 1
          /\ pods.ready # 0
      BY <1>2, <1>8, <2>2 DEF RemoveSurplusPod
    <3> QED BY <1>2, <1>4, <1>5, <3>1, <3>2
  <2> QED BY <2>1, <2>2
<1>9. CASE PodReady
  <2>1. Repod([old |-> pods.old, starting |-> pods.starting - 1, ready |-> pods.ready + 1])
    <3>1. [pods EXCEPT !.starting = @ - 1, !.ready = @ + 1]
            = [old |-> pods.old, starting |-> pods.starting - 1, ready |-> pods.ready + 1]
      BY <1>1, PodsExcept DEF TypeOK
    <3> QED BY <1>9, <3>1 DEF PodReady
  <2>2. /\ pods.starting - 1 \in Nat /\ pods.ready + 1 \in Nat
        /\ pods.old + (pods.starting - 1) + (pods.ready + 1) <= MaxReplicas + 1
        /\ pods.starting # 0
    BY <1>2, <1>9 DEF PodReady
  <2> QED BY <1>2, <1>4, <1>5, <2>1, <2>2
<1>10. CASE PodCrashes
  <2>1. Repod([old |-> pods.old, starting |-> pods.starting + 1, ready |-> pods.ready - 1])
    <3>1. [pods EXCEPT !.starting = @ + 1, !.ready = @ - 1]
            = [old |-> pods.old, starting |-> pods.starting + 1, ready |-> pods.ready - 1]
      BY <1>1, PodsExcept DEF TypeOK
    <3> QED BY <1>10, <3>1 DEF PodCrashes
  <2>2. /\ pods.starting + 1 \in Nat /\ pods.ready - 1 \in Nat
        /\ pods.old + (pods.starting + 1) + (pods.ready - 1) <= MaxReplicas + 1
        /\ pods.ready # 0
    BY <1>2, <1>10 DEF PodCrashes
  <2> QED BY <1>2, <1>4, <1>5, <2>1, <2>2
<1> QED BY <1>3, <1>6, <1>7, <1>8, <1>9, <1>10 DEF Controller

(* An executor that does not act keeps its part of the invariant. *)
LEMMA WatchersKeep ==
  ASSUME IInv, ClusterMoves, NEW e \in Executors,
         op'[e] = op[e], pc'[e] = pc[e], deadline'[e] = deadline[e], wake'[e] = wake[e],
         result'[e] = result[e], patched'[e] = patched[e], seen'[e] = seen[e]
  PROVE  ExecutorInv(e)'
<1>1. /\ ExecutorInv(e) /\ clock \in Nat /\ deadline[e] \in Nat /\ wake[e] \in Nat
      /\ generation \in Nat /\ patched[e] \in Nat
  BY RolloutAssumption DEF IInv, TypeOK
<1>2. /\ generation' \in Nat /\ generation <= generation' /\ strategy' = strategy /\ clock' = clock
      /\ generation' = generation => replicas' = replicas
      /\ since' \in {since, None, clock}
  BY RolloutAssumption DEF ClusterMoves, ClusterTypes
<1>3. PatchInForce(e)'
  BY <1>1, <1>2 DEF ExecutorInv, PatchInForce
<1>4. NoRolloutMissed(e)'
  <2>1. ASSUME since' = clock PROVE NoRolloutMissed(e)'
    BY <1>1, <1>2, <2>1 DEF ExecutorInv, NoRolloutMissed
  <2>2. ASSUME since' = since PROVE NoRolloutMissed(e)'
    BY <1>1, <1>2, <2>2 DEF ExecutorInv, NoRolloutMissed
  <2>3. ASSUME since' = None PROVE NoRolloutMissed(e)'
    BY <1>1, <1>2, <2>3 DEF ExecutorInv, NoRolloutMissed
  <2> QED BY <1>2, <2>1, <2>2, <2>3
<1>5. Convinced(e)' /\ InTime(e)'
  BY <1>1, <1>2 DEF ExecutorInv, Convinced, InTime
<1> QED BY <1>1, <1>3, <1>4, <1>5 DEF ExecutorInv

-----------------------------------------------------------------------------
ExecTypes ==
  /\ op \in [Executors -> Operations]
  /\ pc \in [Executors -> {"patch", "verify", "sleep", "end"}]
  /\ deadline \in [Executors -> 0..MaxTime]
  /\ wake \in [Executors -> 0..(MaxTime + 1)]
  /\ result \in [Executors -> Results]
  /\ patched \in [Executors -> 0..MaxGeneration]
  /\ seen \in [Executors -> [desired : 0..MaxReplicas, status : Status] \cup {None}]

(* The invariant after a step of one executor, from what holds of it. *)
LEMMA OneMoves ==
  ASSUME IInv, ClusterMoves, NEW e \in Executors, ExecTypes', op' = op,
         ExecutorInv(e)',
         \A x \in Executors \ {e} :
           /\ pc'[x] = pc[x] /\ deadline'[x] = deadline[x] /\ wake'[x] = wake[x]
           /\ result'[x] = result[x] /\ patched'[x] = patched[x] /\ seen'[x] = seen[x]
  PROVE  IInv'
<1>1. ASSUME NEW x \in Executors PROVE ExecutorInv(x)'
  <2>1. CASE x = e
    BY <2>1
  <2>2. CASE x # e
    BY <2>2, WatchersKeep
  <2> QED BY <2>1, <2>2
<1>2. clock' \in 0..MaxTime
  BY DEF ClusterMoves, IInv, TypeOK
<1>3. TypeOK'
  BY <1>2 DEF ClusterMoves, ClusterTypes, ExecTypes, TypeOK
<1> QED BY <1>1, <1>3 DEF IInv, ClusterMoves

(* A step that leaves the Deployment alone. *)
LEMMA StandingStill == ASSUME IInv, UNCHANGED <<cluster, clock>> PROVE ClusterMoves
<1>1. ClusterTypes'
  BY DEF IInv, TypeOK, ClusterTypes, cluster
<1>2. ClusterInv'
  BY DEF IInv, ClusterInv, FewPods, Total, RecreatedAlone, SinceRolledOut, RolledOut, cluster
<1>3. generation <= generation'
  BY DEF IInv, TypeOK, cluster
<1> QED BY <1>1, <1>2, <1>3 DEF ClusterMoves, cluster

LEMMA PatchKeeps == ASSUME IInv, NEW e \in Executors, Patch(e) PROVE IInv'
<1>1. TypeOK /\ ExecutorInv(e) /\ op[e] \in Operations
  BY DEF IInv, TypeOK
<1>2. ApiPatch(op[e]) /\ clock' = clock /\ pc[e] = "patch" /\ clock + VerifyTimeout <= MaxTime
      /\ pc' = [pc EXCEPT ![e] = "verify"]
      /\ deadline' = [deadline EXCEPT ![e] = clock + VerifyTimeout]
      /\ patched' = [patched EXCEPT ![e] = generation']
      /\ UNCHANGED <<op, wake, result, seen>>
  BY DEF Patch
<1>3. ClusterMoves /\ (op[e].type = "scale" => replicas' = op[e].replicas)
  BY <1>1, <1>2, PatchMoves
<1>4. generation' \in 1..MaxGeneration
  BY <1>3 DEF ClusterMoves, ClusterTypes
<1>5. clock + VerifyTimeout \in 0..MaxTime /\ clock < clock + VerifyTimeout
  BY <1>1, <1>2, RolloutAssumption DEF TypeOK
<1>6. ExecTypes'
  BY <1>1, <1>2, <1>4, <1>5, RolloutAssumption DEF TypeOK, ExecTypes
<1>7. /\ pc'[e] = "verify" /\ deadline'[e] = clock + VerifyTimeout /\ patched'[e] = generation'
      /\ result'[e] = None
  BY <1>1, <1>2 DEF TypeOK, ExecutorInv
<1>8. ExecutorInv(e)'
  <2>1. PatchInForce(e)'
    BY <1>2, <1>3, <1>4, <1>7 DEF PatchInForce
  <2>2. NoRolloutMissed(e)' /\ Convinced(e)' /\ InTime(e)'
    BY <1>1, <1>2, <1>5, <1>7, RolloutAssumption DEF NoRolloutMissed, Convinced, InTime, TypeOK
  <2> QED BY <1>7, <2>1, <2>2 DEF ExecutorInv
<1>9. \A x \in Executors \ {e} :
        /\ pc'[x] = pc[x] /\ deadline'[x] = deadline[x] /\ wake'[x] = wake[x]
        /\ result'[x] = result[x] /\ patched'[x] = patched[x] /\ seen'[x] = seen[x]
  BY <1>1, <1>2 DEF TypeOK
<1> QED BY <1>2, <1>3, <1>6, <1>8, <1>9, OneMoves

(* An executor that gives up. *)
LEMMA EndKeeps ==
  ASSUME IInv, ClusterMoves, NEW e \in Executors, NEW r \in {"failed", "timeout", "cancelled"}, End(e, r),
         r = "timeout" => pc[e] = "verify" /\ Expired(e) /\ since' = since,
         UNCHANGED <<op, deadline, wake, patched, seen>>
  PROVE  IInv'
<1>1. TypeOK /\ ExecutorInv(e) /\ clock' = clock
  BY DEF IInv, ClusterMoves
<1>2. /\ pc' = [pc EXCEPT ![e] = "end"] /\ result' = [result EXCEPT ![e] = r]
      /\ pc'[e] = "end" /\ result'[e] = r
  BY <1>1 DEF End, TypeOK
<1>3. ExecTypes'
  BY <1>1, <1>2 DEF TypeOK, ExecTypes, Results
<1>4. NoRolloutMissed(e)'
  <2>1. CASE r # "timeout"
    BY <1>2, <2>1 DEF NoRolloutMissed
  <2>2. CASE r = "timeout"
    <3>1. clock >= deadline[e] /\ (since = None \/ since + 1 >= clock)
      BY <1>1, <2>2 DEF ExecutorInv, NoRolloutMissed, Expired, TypeOK
    <3>2. since = None \/ since + 1 >= deadline[e]
      BY <1>1, <3>1, RolloutAssumption DEF TypeOK
    <3> QED BY <1>1, <1>2, <2>2, <3>1, <3>2 DEF NoRolloutMissed
  <2> QED BY <2>1, <2>2
<1>5. PatchInForce(e)' /\ Convinced(e)' /\ InTime(e)'
  BY <1>2 DEF PatchInForce, Convinced, InTime
<1>6. ExecutorInv(e)'
  BY <1>2, <1>4, <1>5 DEF ExecutorInv
<1>7. \A x \in Executors \ {e} :
        /\ pc'[x] = pc[x] /\ deadline'[x] = deadline[x] /\ wake'[x] = wake[x]
        /\ result'[x] = result[x] /\ patched'[x] = patched[x] /\ seen'[x] = seen[x]
  BY <1>1, <1>2 DEF TypeOK
<1> QED BY <1>3, <1>6, <1>7, OneMoves

LEMMA PatchFailsKeeps == ASSUME IInv, NEW e \in Executors, PatchFails(e) PROVE IInv'
<1>1. End(e, "failed") /\ UNCHANGED <<clock, op, deadline, wake, patched, seen>>
  BY DEF PatchFails
<1>2. ClusterMoves
  <2>1. CASE UNCHANGED cluster
    BY <1>1, <2>1, StandingStill
  <2>2. CASE ApiPatch(op[e])
    <3>1. op[e] \in Operations
      BY DEF IInv, TypeOK
    <3> QED BY <1>1, <2>2, <3>1, PatchMoves
  <2> QED BY <2>1, <2>2 DEF PatchFails
<1> QED BY <1>1, <1>2, EndKeeps

LEMMA VerifyKeeps == ASSUME IInv, NEW e \in Executors, Verify(e) PROVE IInv'
<1>1. TypeOK /\ ExecutorInv(e) /\ ClusterInv
  BY DEF IInv
<1>2. pc[e] = "verify" /\ UNCHANGED <<cluster, clock, op, deadline, patched>>
  BY DEF Verify
<1>3. ClusterMoves
  BY <1>2, StandingStill
<1>4. CASE /\ RolledOut(generation, replicas, status) /\ End(e, "verified")
           /\ seen' = [seen EXCEPT ![e] = [desired |-> replicas, status |-> status]]
           /\ wake' = wake
  <2>1. /\ pc' = [pc EXCEPT ![e] = "end"] /\ result' = [result EXCEPT ![e] = "verified"]
        /\ pc'[e] = "end" /\ result'[e] = "verified"
        /\ seen'[e] = [desired |-> replicas, status |-> status]
    BY <1>1, <1>4 DEF End, TypeOK
  <2>2. ExecTypes'
    BY <1>1, <1>2, <1>4, <2>1 DEF TypeOK, ExecTypes, Results
  <2>3. /\ generation <= status.observed /\ status.observed <= generation
        /\ status.updated >= replicas /\ status.available >= replicas
    BY <1>1, <1>4 DEF RolledOut, ClusterInv
  <2>4. /\ status.observed \in Nat /\ status.updated \in Nat /\ status.available \in Nat
        /\ status.both \in Nat /\ generation \in Nat /\ replicas \in Nat /\ patched[e] \in Nat
    BY <1>1, RolloutAssumption DEF TypeOK, Status, Counts
  <2>5. Convinced(e)'
    <3>1. ASSUME op[e].type = "scale"
          PROVE  \/ status.observed > patched[e]
                 \/ status.observed = patched[e] /\ status.available >= op[e].replicas
      BY <1>1, <1>2, <2>3, <2>4, <3>1 DEF ExecutorInv, PatchInForce
    <3>2. ASSUME strategy = "Recreate" PROVE status.both >= replicas
      BY <1>1, <2>3, <2>4, <3>2 DEF ClusterInv, RecreatedAlone
    <3> QED BY <1>2, <2>1, <3>1, <3>2 DEF Convinced, cluster
  <2>6. ExecutorInv(e)'
    BY <2>1, <2>5 DEF ExecutorInv, PatchInForce, NoRolloutMissed, InTime
  <2>7. \A x \in Executors \ {e} :
          /\ pc'[x] = pc[x] /\ deadline'[x] = deadline[x] /\ wake'[x] = wake[x]
          /\ result'[x] = result[x] /\ patched'[x] = patched[x] /\ seen'[x] = seen[x]
    BY <1>1, <1>2, <1>4, <2>1 DEF TypeOK
  <2> QED BY <1>2, <1>3, <2>2, <2>6, <2>7, OneMoves
<1>5. CASE /\ ~RolledOut(generation, replicas, status)
           /\ pc' = [pc EXCEPT ![e] = "sleep"] /\ wake' = [wake EXCEPT ![e] = NextPoll]
           /\ UNCHANGED <<result, seen>>
  <2>1. pc'[e] = "sleep" /\ wake'[e] = clock + 1 /\ since = None /\ result'[e] = None
    BY <1>1, <1>2, <1>5 DEF TypeOK, ExecutorInv, ClusterInv, SinceRolledOut, NextPoll
  <2>2. ExecTypes'
    <3>1. NextPoll \in 0..(MaxTime + 1)
      BY <1>1, RolloutAssumption DEF TypeOK, NextPoll
    <3> QED BY <1>1, <1>2, <1>5, <3>1 DEF TypeOK, ExecTypes
  <2>3. ExecutorInv(e)'
    <3>1. PatchInForce(e)'
      BY <1>1, <1>2 DEF ExecutorInv, PatchInForce, cluster
    <3>2. NoRolloutMissed(e)' /\ Convinced(e)'
      BY <1>1, <1>2, <2>1, RolloutAssumption DEF NoRolloutMissed, Convinced, cluster, TypeOK
    <3>3. InTime(e)'
      BY <1>1, <1>2, <2>1, RolloutAssumption DEF Verify, Expired, InTime, TypeOK
    <3> QED BY <2>1, <3>1, <3>2, <3>3 DEF ExecutorInv
  <2>4. \A x \in Executors \ {e} :
          /\ pc'[x] = pc[x] /\ deadline'[x] = deadline[x] /\ wake'[x] = wake[x]
          /\ result'[x] = result[x] /\ patched'[x] = patched[x] /\ seen'[x] = seen[x]
    BY <1>1, <1>2, <1>5 DEF TypeOK
  <2> QED BY <1>2, <1>3, <2>2, <2>3, <2>4, OneMoves
<1> QED BY <1>4, <1>5 DEF Verify

LEMMA WakeKeeps == ASSUME IInv, NEW e \in Executors, Wake(e) PROVE IInv'
<1>1. TypeOK /\ ExecutorInv(e)
  BY DEF IInv
<1>2. /\ pc[e] = "sleep" /\ clock >= wake[e] /\ pc' = [pc EXCEPT ![e] = "verify"] /\ pc'[e] = "verify"
      /\ UNCHANGED <<cluster, clock, op, deadline, wake, result, patched, seen>>
  BY <1>1 DEF Wake, TypeOK
<1>3. ClusterMoves
  BY <1>2, StandingStill
<1>4. ExecTypes'
  BY <1>1, <1>2 DEF TypeOK, ExecTypes
<1>5. clock = wake[e]
  BY <1>1, <1>2 DEF TypeOK, ExecutorInv, NoRolloutMissed
<1>6. ExecutorInv(e)'
  <2>1. result'[e] = None
    BY <1>1, <1>2 DEF ExecutorInv
  <2>2. PatchInForce(e)'
    BY <1>1, <1>2 DEF ExecutorInv, PatchInForce, cluster
  <2>3. NoRolloutMissed(e)' /\ Convinced(e)'
    BY <1>1, <1>2, <1>5, <2>1, RolloutAssumption DEF ExecutorInv, NoRolloutMissed, Convinced, cluster
  <2>4. InTime(e)'
    BY <1>1, <1>2, <1>5 DEF ExecutorInv, InTime
  <2> QED BY <2>1, <2>2, <2>3, <2>4 DEF ExecutorInv
<1>7. \A x \in Executors \ {e} : pc'[x] = pc[x]
  BY <1>1, <1>2 DEF TypeOK
<1> QED BY <1>2, <1>3, <1>4, <1>6, <1>7, OneMoves

(* Time passes only while no executor has anything to do. *)
LEMMA TickKeeps == ASSUME IInv, Tick PROVE IInv'
<1>1. TypeOK /\ ClusterInv
  BY DEF IInv
<1>2. /\ clock < MaxTime /\ clock' = clock + 1 /\ UNCHANGED <<cluster, execs>>
      /\ \A e \in Executors : pc[e] # "verify" /\ (pc[e] = "sleep" => clock < wake[e])
  BY DEF Tick
<1>3. clock' \in 0..MaxTime /\ clock \in Nat /\ since \in Nat \cup {None}
  BY <1>1, <1>2, RolloutAssumption DEF TypeOK
<1>4. TypeOK'
  BY <1>1, <1>2, <1>3 DEF TypeOK, cluster, execs
<1>5. ClusterInv'
  <2>1. FewPods' /\ RecreatedAlone' /\ status'.observed <= generation'
    BY <1>1, <1>2 DEF ClusterInv, FewPods, Total, RecreatedAlone, cluster
  <2>2. SinceRolledOut'
    BY <1>1, <1>2, <1>3 DEF ClusterInv, SinceRolledOut, RolledOut, cluster
  <2> QED BY <2>1, <2>2 DEF ClusterInv
<1>6. ASSUME NEW e \in Executors PROVE ExecutorInv(e)'
  <2>1. ExecutorInv(e) /\ deadline[e] \in Nat /\ wake[e] \in Nat
    BY <1>1 DEF IInv, TypeOK
  <2>2. PatchInForce(e)' /\ Convinced(e)'
    BY <1>2, <2>1 DEF ExecutorInv, PatchInForce, Convinced, cluster, execs
  <2>3. NoRolloutMissed(e)'
    BY <1>2, <1>3, <2>1 DEF ExecutorInv, NoRolloutMissed, cluster, execs
  <2>4. InTime(e)'
    BY <1>2, <1>3, <2>1 DEF ExecutorInv, InTime, execs
  <2> QED BY <1>2, <2>1, <2>2, <2>3, <2>4 DEF ExecutorInv, execs
<1> QED BY <1>4, <1>5, <1>6 DEF IInv

(* The invariant is inductive. *)
LEMMA NextInv == IInv /\ [Next]_vars => IInv'
<1> SUFFICES ASSUME IInv, [Next]_vars PROVE IInv'
  OBVIOUS
<1>1. ASSUME ClusterMoves, UNCHANGED execs PROVE IInv'
  <2>1. \A e \in Executors : ExecutorInv(e)'
    BY <1>1, WatchersKeep DEF execs
  <2>2. clock' \in 0..MaxTime
    BY <1>1 DEF ClusterMoves, IInv, TypeOK
  <2>3. TypeOK'
    BY <1>1, <2>2 DEF ClusterMoves, ClusterTypes, IInv, TypeOK, execs
  <2> QED BY <1>1, <2>1, <2>3 DEF ClusterMoves, IInv
<1>2. ASSUME NEW e \in Executors, Patch(e) \/ PatchFails(e) \/ VerifyStep(e) PROVE IInv'
  <2>1. ASSUME NEW r \in {"failed", "timeout", "cancelled"}, End(e, r),
               r = "timeout" => pc[e] = "verify" /\ Expired(e),
               UNCHANGED <<cluster, clock, op, deadline, wake, patched, seen>>
        PROVE  IInv'
    <3>1. ClusterMoves /\ since' = since
      BY <2>1, StandingStill DEF cluster
    <3> QED BY <2>1, <3>1, EndKeeps
  <2>2. CASE GetFails(e) \/ VerifyTimesOut(e) \/ ContextExpires(e)
    BY <2>1, <2>2 DEF GetFails, VerifyTimesOut, ContextExpires
  <2> QED BY <1>2, <2>2, PatchKeeps, PatchFailsKeeps, VerifyKeeps, WakeKeeps DEF VerifyStep
<1>3. CASE Controller
  BY <1>1, <1>3, ControllerMoves
<1>4. ASSUME NEW o \in Operations, ChangedByOthers(o) PROVE IInv'
  BY <1>1, <1>4, PatchMoves DEF ChangedByOthers
<1>5. CASE Tick
  BY <1>5, TickKeeps
<1>6. CASE UNCHANGED vars
  <2>1. UNCHANGED <<cluster, clock>> /\ UNCHANGED execs
    BY <1>6 DEF vars
  <2> QED BY <1>1, <2>1, StandingStill
<1> QED BY <1>2, <1>3, <1>4, <1>5, <1>6 DEF Next

LEMMA Invariant == Spec => []IInv
  BY InitInv, NextInv, PTL DEF Spec

(* The state of the Deployment and of its executors is always of its type. *)
THEOREM TypeCorrect == Spec => []TypeOK
<1>1. IInv => TypeOK
  BY DEF IInv
<1> QED BY <1>1, Invariant, PTL

(* A scale that Apply reports as verified was in effect, unless the        *)
(* Deployment was changed again: for any number of executors, replicas and *)
(* changes by others, and however the controller lags behind.              *)
THEOREM VerifiedScalesWereReached == Spec => []VerifiedScaleWasReached
<1>1. IInv => VerifiedScaleWasReached
  BY DEF IInv, ExecutorInv, Convinced, VerifiedScaleWasReached
<1> QED BY <1>1, Invariant, PTL

(* With the strategy Recreate, a verified rollout has as many pods of the  *)
(* new template available as it should ("desired replicas are updated &    *)
(* available", comment of deploymentRolledOut).                            *)
THEOREM RecreatedRolloutsAreAvailable == Spec => []RecreatedPodsAreAvailable
<1>1. IInv => RecreatedPodsAreAvailable
  BY DEF IInv, ExecutorInv, Convinced, RecreatedPodsAreAvailable, VerifiedPodsAreAvailable
<1> QED BY <1>1, Invariant, PTL

(* The loop of verifyDeploymentRollout polls often enough: a verification  *)
(* that times out never overlooked a rollout that had lasted for more than *)
(* one polling interval when its deadline came.                            *)
THEOREM NoRolloutIsOverlooked == Spec => []RolledOutInTimeIsVerified
<1>1. IInv => RolledOutInTimeIsVerified
  BY DEF IInv, ExecutorInv, NoRolloutMissed, RolledOutInTimeIsVerified
<1> QED BY <1>1, Invariant, PTL

(* An executor does not verify beyond its deadline. *)
VerifyingInTime == \A e \in Executors : pc[e] \in {"verify", "sleep"} => clock <= deadline[e]

(* The safety half of ApplyEnds: whatever the cluster does, an executor    *)
(* does not verify beyond the time that its plan gives it.                 *)
THEOREM VerificationIsInTime == Spec => []VerifyingInTime
<1>1. IInv => VerifyingInTime
  BY DEF IInv, ExecutorInv, InTime, VerifyingInTime
<1> QED BY <1>1, Invariant, PTL
=============================================================================
