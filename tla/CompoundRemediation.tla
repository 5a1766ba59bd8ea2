------------------------- MODULE CompoundRemediation -------------------------
(***************************************************************************)
(* The apply part of smart-remediate with a compound plan                  *)
(* (executeSmartCompoundPlan in internal/cli/smart_remediate.go): the live *)
(* executor, then the infra executor, and a trace of both phases that is   *)
(* rewritten beside the plan file as they go.  What the executors do       *)
(* inside is modelled in LiveRollout and InfraExecutor; here they have an  *)
(* effect and an outcome.                                                  *)
(***************************************************************************)
EXTENDS Naturals

CONSTANTS
  Faults,      \* may the command be killed, and writes of the trace fail?
  ResultFails  \* may the write of the infra result fail?

ASSUME CompoundAssumption == {Faults, ResultFails} \subseteq BOOLEAN

VARIABLES
  pc,         \* next step of the command
  phase,      \* the trace in memory: the state of each phase
  trace,      \* the trace file: its form, and the phases last written
  lost,       \* history: did a write of the trace fail?
  resultFile, \* the form of the infra result file
  cluster,    \* what the live phase did to the cluster
  repository, \* what the infra phase did to the repository
  exit        \* how the command ended

vars == <<pc, phase, trace, lost, resultFile, cluster, repository, exit>>

Phases   == {"live", "infra"}
Statuses == {"absent", "pending", "running", "succeeded", "failed"}
Traces   == [Phases -> Statuses]

(* A file: none, one of an earlier run under the same --plan-out, one that *)
(* does not parse, or one of this run.                                     *)
Forms == {"none", "old", "broken", "new"}

Init ==
  /\ pc = "init"
  /\ phase \in {p \in [Phases -> {"absent", "pending"}] : \E q \in Phases : p[q] = "pending"}
  /\ trace \in [form : {"none", "old"}, phases : {phase}]
  /\ lost = FALSE
  /\ resultFile \in {"none", "old"}
  /\ cluster = "untouched"
  /\ repository = "untouched"
  /\ exit = "running"

-----------------------------------------------------------------------------
Readable == trace.form = "new"    \* as a trace of this run

Planned(p) == phase[p] # "absent"

SetPhase(p, s) == phase' = [phase EXCEPT ![p] = s]

Exit(e) == pc' = "end" /\ exit' = e

(* Mutant: the trace is written before the status is set. *)
WriteStale == trace' = [form |-> "new", phases |-> phase] /\ UNCHANGED lost

(* writeCompoundResult replaces the file ...                               *)
Write == trace' = [form |-> "new", phases |-> phase'] /\ UNCHANGED lost

(* ... or fails, and leaves the old one or, once that is truncated, one    *)
(* that does not parse.                                                    *)
WriteFails ==
  /\ Faults
  /\ trace' \in {trace, [trace EXCEPT !.form = "broken"]}
  /\ lost' = TRUE

(* `_ = writeCompoundResult(...)` *)
TryWrite == Write \/ WriteFails

(* The first write: every phase is pending, and an error ends the command. *)
InitTrace ==
  /\ pc = "init"
  /\ UNCHANGED phase
  /\ \/ Write /\ pc' = "live" /\ UNCHANGED exit
     \/ WriteFails /\ Exit("error")
  /\ UNCHANGED <<resultFile, cluster, repository>>

(***************************************************************************)
(* The live phase.  Errors of these writes are ignored.                    *)
(***************************************************************************)
SkipLive ==
  /\ pc = "live"
  /\ ~Planned("live")
  /\ pc' = "infra"
  /\ UNCHANGED <<phase, trace, lost, resultFile, cluster, repository, exit>>

StartLive ==
  /\ pc = "live"
  /\ Planned("live")
  /\ pc' = "applyLive"
  /\ SetPhase("live", "running")
  /\ TryWrite
  /\ UNCHANGED <<resultFile, cluster, repository, exit>>

(* The patch is sent ... *)
PatchLive ==
  /\ pc = "applyLive"
  /\ pc' = "verifyLive"
  /\ cluster' = "changed"
  /\ UNCHANGED <<phase, trace, lost, resultFile, repository, exit>>

(* ... and the rollout verified. *)
LiveSucceeds ==
  /\ pc = "verifyLive"
  /\ pc' = "infra"
  /\ cluster' = "verified"
  /\ SetPhase("live", "succeeded")
  /\ TryWrite
  /\ UNCHANGED <<resultFile, repository, exit>>

(* Mutant: the error is recorded and the flow goes on. *)
LiveFailsOn ==
  /\ pc \in {"applyLive", "verifyLive"}
  /\ SetPhase("live", "failed")
  /\ TryWrite
  /\ pc' = "infra"
  /\ UNCHANGED <<resultFile, cluster, repository, exit>>

(* The infra phase stays pending. *)
LiveFails ==
  /\ pc \in {"applyLive", "verifyLive"}
  /\ SetPhase("live", "failed")
  /\ TryWrite
  /\ Exit("error")
  /\ UNCHANGED <<resultFile, cluster, repository>>

(***************************************************************************)
(* The infra phase                                                         *)
(***************************************************************************)
SkipInfra ==
  /\ pc = "infra"
  /\ ~Planned("infra")
  /\ pc' = "final"
  /\ UNCHANGED <<phase, trace, lost, resultFile, cluster, repository, exit>>

StartInfra ==
  /\ pc = "infra"
  /\ Planned("infra")
  /\ pc' = "applyInfra"
  /\ SetPhase("infra", "running")
  /\ TryWrite
  /\ UNCHANGED <<resultFile, cluster, repository, exit>>

(* The executor edits and commits ... *)
EditRepository ==
  /\ pc = "applyInfra"
  /\ pc' = "publish"
  /\ repository' = "changed"
  /\ UNCHANGED <<phase, trace, lost, resultFile, cluster, exit>>

(* ... and pushes, and opens the pull request. *)
PublishBranch ==
  /\ pc = "publish"
  /\ pc' = "result"
  /\ repository' = "published"
  /\ UNCHANGED <<phase, trace, lost, resultFile, cluster, exit>>

(* The repo agent cannot be set up, or the executor returns an error.      *)
InfraFails ==
  /\ pc \in {"applyInfra", "publish"}
  /\ SetPhase("infra", "failed")
  /\ TryWrite
  /\ Exit("error")
  /\ UNCHANGED <<resultFile, cluster, repository>>

(* WriteResult; an error of it is returned as it is. *)
WriteResult ==
  /\ pc = "result"
  /\ pc' = "infraDone"
  /\ resultFile' = "new"
  /\ UNCHANGED <<phase, trace, lost, cluster, repository, exit>>

WriteResultFails ==
  /\ ResultFails
  /\ pc = "result"
  /\ resultFile' \in {resultFile, "broken"}
  /\ Exit("error")
  /\ UNCHANGED <<phase, trace, lost, cluster, repository>>

InfraSucceeds ==
  /\ pc = "infraDone"
  /\ pc' = "final"
  /\ SetPhase("infra", "succeeded")
  /\ TryWrite
  /\ UNCHANGED <<resultFile, cluster, repository, exit>>

(* Mutant: the error of the last write is ignored like the others. *)
FinalTraceTried ==
  /\ pc = "final"
  /\ UNCHANGED phase
  /\ TryWrite
  /\ Exit("ok")
  /\ UNCHANGED <<resultFile, cluster, repository>>

(* The last write; its error ends the command, as one of the notification  *)
(* behind it does.                                                         *)
FinalTrace ==
  /\ pc = "final"
  /\ UNCHANGED phase
  /\ \/ Write /\ \E e \in {"ok", "error"} : Exit(e)
     \/ WriteFails /\ Exit("error")
  /\ UNCHANGED <<resultFile, cluster, repository>>

Kill ==
  /\ Faults
  /\ pc # "end"
  /\ Exit("killed")
  /\ UNCHANGED <<phase, trace, lost, resultFile, cluster, repository>>

-----------------------------------------------------------------------------
Next ==
  \/ InitTrace \/ SkipLive \/ StartLive \/ PatchLive \/ LiveSucceeds \/ LiveFails
  \/ SkipInfra \/ StartInfra \/ EditRepository \/ PublishBranch \/ InfraFails
  \/ WriteResult \/ WriteResultFails \/ InfraSucceeds \/ FinalTrace \/ Kill

Spec == Init /\ [][Next]_vars

-----------------------------------------------------------------------------
TypeOK ==
  /\ pc \in {"init", "live", "applyLive", "verifyLive", "infra", "applyInfra", "publish",
             "result", "infraDone", "final", "end"}
  /\ phase \in Traces
  /\ trace \in [form : Forms, phases : Traces]
  /\ lost \in BOOLEAN
  /\ resultFile \in Forms
  /\ cluster \in {"untouched", "changed", "verified"}
  /\ repository \in {"untouched", "changed", "published"}
  /\ exit \in {"running", "ok", "error", "killed"}

(* The flow is "sequential live-then-infra" (README).                      *)
Sequence == INSTANCE PhaseSequence

ImplementsSequence == Sequence!Spec

(* The trace never claims more than was done, even if the command is       *)
(* killed or writes are lost; and as long as none was lost it never claims *)
(* less: a phase that has touched anything is not shown as pending.        *)
TraceIsTrue ==
  Readable =>
    /\ trace.phases["live"] = "succeeded" => cluster = "verified"
    /\ trace.phases["infra"] = "succeeded" => repository = "published" /\ resultFile = "new"
    /\ ~lost /\ trace.phases["live"] \in {"absent", "pending"} => cluster = "untouched"
    /\ ~lost /\ trace.phases["infra"] \in {"absent", "pending"} => repository = "untouched"

(* A command that reports success did everything in the plan, and has left *)
(* a complete trace, whichever of the ignored writes failed before.        *)
OkIsComplete ==
  exit = "ok" =>
    /\ Readable /\ trace.phases = phase
    /\ \A p \in Phases : Planned(p) => trace.phases[p] = "succeeded"
    /\ Planned("live") <=> cluster = "verified"
    /\ Planned("infra") <=> repository = "published"

(* The trace tells how far a remediation came (README): when the command   *)
(* has returned, no phase is still running.                                *)
EndedPhaseIsNotRunning ==
  exit \in {"ok", "error"} /\ ~lost /\ Readable =>
    \A p \in Phases : trace.phases[p] # "running"

(* A phase that is not going to run is "skipped" (README), not "pending".  *)
UnstartedPhaseIsSkipped ==
  exit \in {"ok", "error"} /\ ~lost /\ Readable =>
    \A p \in Phases : trace.phases[p] # "pending"
=============================================================================
