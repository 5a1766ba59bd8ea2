---------------------- MODULE CompoundRemediationProofs ----------------------
(* Theorems about CompoundRemediation. *)
EXTENDS CompoundRemediation, TLAPS

(***************************************************************************)
(* The trace file lags behind the phases in memory, and both behind what   *)
(* was done; the invariant says how far at each step of the command.       *)
(***************************************************************************)
LiveOf ==
  /\ phase["live"] = "succeeded" => cluster = "verified"
  /\ phase["live"] \in {"absent", "pending"} => cluster = "untouched"
  /\ pc \in {"init", "live"} => phase["live"] \in {"absent", "pending"}
  /\ pc \in {"applyLive", "verifyLive"} => phase["live"] = "running"
  /\ pc \in {"infra", "applyInfra", "publish", "result", "infraDone", "final"} =>
       phase["live"] \in {"absent", "succeeded"}

InfraOf ==
  /\ phase["infra"] = "succeeded" => repository = "published" /\ resultFile = "new"
  /\ phase["infra"] \in {"absent", "pending"} => repository = "untouched"
  /\ pc \in {"init", "live", "applyLive", "verifyLive", "infra"} =>
       phase["infra"] \in {"absent", "pending"}
  /\ pc \in {"applyInfra", "publish", "result", "infraDone"} => phase["infra"] = "running"
  /\ pc \in {"result", "infraDone"} => repository = "published"
  /\ pc = "infraDone" => resultFile = "new"
  /\ pc = "final" => phase["infra"] \in {"absent", "succeeded"}

TraceOf ==
  /\ Readable /\ ~lost => trace.phases = phase
  /\ Readable => \A p \in Phases : trace.phases[p] = "succeeded" => phase[p] = "succeeded"

(* Only the end of the command sets how it ended, and "ok" only if all is done. *)
ExitOf == (pc = "end" <=> exit # "running") /\ OkIsComplete

IInv == TypeOK /\ LiveOf /\ InfraOf /\ TraceOf /\ ExitOf

-----------------------------------------------------------------------------
LEMMA SetPhaseType ==
  ASSUME phase \in Traces, NEW p \in Phases, NEW s \in Statuses, SetPhase(p, s)
  PROVE  /\ phase' \in Traces
         /\ phase'[p] = s
         /\ \A q \in Phases : q # p => phase'[q] = phase[q]
BY DEF SetPhase, Traces

(* Whether a write of the trace succeeds or not, a trace is left. *)
LEMMA WriteType ==
  ASSUME TypeOK, phase' \in Traces, TryWrite
  PROVE  trace' \in [form : Forms, phases : Traces] /\ lost' \in BOOLEAN
<1>1. CASE Write
  BY <1>1 DEF Write, TypeOK, Forms
<1>2. CASE WriteFails
  BY <1>2 DEF WriteFails, TypeOK, Forms
<1> QED
  BY <1>1, <1>2 DEF TryWrite

LEMMA InitType == ASSUME Init PROVE TypeOK
<1>1. phase \in Traces
  BY DEF Init, Traces, Statuses
<1>2. trace \in [form : Forms, phases : Traces]
  BY <1>1 DEF Init, Forms
<1> QED
  BY <1>1, <1>2 DEF Init, TypeOK, Forms

(* The state of the command is always of its type. *)
THEOREM TypeCorrect == Spec => []TypeOK
<1>1. Init => TypeOK
  BY InitType
<1>2. TypeOK /\ [Next]_vars => TypeOK'
  <2> SUFFICES ASSUME TypeOK, [Next]_vars PROVE TypeOK'
    OBVIOUS
  <2>a. ASSUME NEW p \in Phases, NEW s \in {"running", "succeeded", "failed"},
               SetPhase(p, s), TryWrite
        PROVE  phase' \in Traces /\ trace' \in [form : Forms, phases : Traces] /\ lost' \in BOOLEAN
    <3>1. phase' \in Traces
      BY <2>a, SetPhaseType DEF TypeOK, Statuses
    <3> QED
      BY <2>a, <3>1, WriteType
  <2>b. ASSUME UNCHANGED phase, Write \/ WriteFails
        PROVE  phase' \in Traces /\ trace' \in [form : Forms, phases : Traces] /\ lost' \in BOOLEAN
    BY <2>b, WriteType DEF TryWrite, TypeOK
  <2>1. CASE InitTrace
    BY <2>1, <2>b DEF InitTrace, Exit, TypeOK
  <2>2. CASE SkipLive \/ SkipInfra
    BY <2>2 DEF SkipLive, SkipInfra, TypeOK
  <2>3. CASE StartLive
    BY <2>3, <2>a DEF StartLive, Phases, TypeOK
  <2>4. CASE PatchLive
    BY <2>4 DEF PatchLive, TypeOK
  <2>5. CASE LiveSucceeds
    BY <2>5, <2>a DEF LiveSucceeds, Phases, TypeOK
  <2>6. CASE LiveFails
    BY <2>6, <2>a DEF LiveFails, Exit, Phases, TypeOK
  <2>7. CASE StartInfra
    BY <2>7, <2>a DEF StartInfra, Phases, TypeOK
  <2>8. CASE EditRepository \/ PublishBranch
    BY <2>8 DEF EditRepository, PublishBranch, TypeOK
  <2>9. CASE InfraFails
    BY <2>9, <2>a DEF InfraFails, Exit, Phases, TypeOK
  <2>10. CASE WriteResult \/ WriteResultFails
    BY <2>10 DEF WriteResult, WriteResultFails, Exit, TypeOK, Forms
  <2>11. CASE InfraSucceeds
    BY <2>11, <2>a DEF InfraSucceeds, Phases, TypeOK
  <2>12. CASE FinalTrace
    BY <2>12, <2>b DEF FinalTrace, Exit, TypeOK
  <2>13. CASE Kill
    BY <2>13 DEF Kill, Exit, TypeOK
  <2>14. CASE UNCHANGED vars
    BY <2>14 DEF vars, TypeOK
  <2> QED
    BY <2>1, <2>2, <2>3, <2>4, <2>5, <2>6, <2>7, <2>8, <2>9, <2>10, <2>11, <2>12, <2>13, <2>14 DEF Next
<1> QED
  BY <1>1, <1>2, PTL DEF Spec

-----------------------------------------------------------------------------
(* A write of the trace that fails leaves one of less, or one that nobody reads. *)
LEMMA TraceStep ==
  ASSUME TypeOK, TraceOf, TryWrite,
         \A p \in Phases : phase[p] = "succeeded" => phase'[p] = "succeeded"
  PROVE  TraceOf'
<1>1. CASE Write
  BY <1>1 DEF Write, TraceOf, Readable
<1>2. CASE WriteFails
  <2>1. lost' /\ (trace' = trace \/ ~Readable')
    BY <1>2 DEF WriteFails, Readable, TypeOK
  <2> QED
    BY <2>1 DEF TraceOf, Readable
<1> QED
  BY <1>1, <1>2 DEF TryWrite

LEMMA TraceKept ==
  ASSUME TraceOf, UNCHANGED <<phase, trace, lost>>
  PROVE  TraceOf'
BY DEF TraceOf, Readable

(* The phases, the trace and the effects stay in step. *)
LEMMA Inductive == Spec => []IInv
<1>1. Init => IInv
  <2> SUFFICES ASSUME Init PROVE IInv
    OBVIOUS
  <2>1. TypeOK
    BY InitType
  <2>2. phase["live"] \in {"absent", "pending"} /\ phase["infra"] \in {"absent", "pending"}
    BY DEF Init, Phases
  <2>3. ~Readable
    BY DEF Init, Readable
  <2> QED
    BY <2>1, <2>2, <2>3 DEF Init, IInv, LiveOf, InfraOf, TraceOf, ExitOf, OkIsComplete
<1>2. IInv /\ TypeOK' /\ [Next]_vars => IInv'
  <2> SUFFICES ASSUME IInv, TypeOK', [Next]_vars PROVE LiveOf' /\ InfraOf' /\ TraceOf' /\ ExitOf'
    BY DEF IInv
  <2>a. TypeOK /\ LiveOf /\ InfraOf /\ TraceOf /\ ExitOf
    BY DEF IInv
  <2>b. "live" \in Phases /\ "infra" \in Phases /\ Phases = {"live", "infra"}
    BY DEF Phases
  <2>c. ASSUME NEW p \in Phases, NEW s \in {"running", "succeeded", "failed"}, SetPhase(p, s)
        PROVE  phase'[p] = s /\ \A q \in Phases : q # p => phase'[q] = phase[q]
    BY <2>a, <2>c, SetPhaseType DEF TypeOK, Statuses
  <2>d. ASSUME pc # "end", pc' # "end", UNCHANGED exit PROVE ExitOf'
    BY <2>a, <2>d DEF ExitOf, OkIsComplete
  <2>e. ASSUME NEW e \in {"error", "killed"}, Exit(e) PROVE ExitOf'
    BY <2>e DEF ExitOf, OkIsComplete, Exit
  <2>1. CASE InitTrace
    <3>1. TraceOf'
      BY <2>1, <2>a, TraceStep DEF InitTrace, TryWrite
    <3>2. ExitOf'
      BY <2>1, <2>d, <2>e DEF InitTrace
    <3> QED
      BY <2>1, <2>a, <3>1, <3>2 DEF InitTrace, LiveOf, InfraOf, Exit
  <2>2. CASE SkipLive \/ SkipInfra
    <3>1. TraceOf' /\ ExitOf'
      BY <2>2, <2>a, <2>d, TraceKept DEF SkipLive, SkipInfra
    <3> QED
      BY <2>2, <2>a, <3>1 DEF SkipLive, SkipInfra, Planned, LiveOf, InfraOf
  <2>3. CASE StartLive
    <3>1. phase'["live"] = "running" /\ phase'["infra"] = phase["infra"]
      BY <2>3, <2>b, <2>c DEF StartLive
    <3>2. TraceOf'
      BY <2>3, <2>a, <2>b, <3>1, TraceStep DEF StartLive, LiveOf
    <3>3. ExitOf'
      BY <2>3, <2>d DEF StartLive
    <3> QED
      BY <2>3, <2>a, <3>1, <3>2, <3>3 DEF StartLive, LiveOf, InfraOf
  <2>4. CASE PatchLive
    <3>1. TraceOf' /\ ExitOf'
      BY <2>4, <2>a, <2>d, TraceKept DEF PatchLive
    <3> QED
      BY <2>4, <2>a, <3>1 DEF PatchLive, LiveOf, InfraOf
  <2>5. CASE LiveSucceeds
    <3>1. phase'["live"] = "succeeded" /\ phase'["infra"] = phase["infra"]
      BY <2>5, <2>b, <2>c DEF LiveSucceeds
    <3>2. TraceOf'
      BY <2>5, <2>a, <2>b, <3>1, TraceStep DEF LiveSucceeds
    <3>3. ExitOf'
      BY <2>5, <2>d DEF LiveSucceeds
    <3> QED
      BY <2>5, <2>a, <3>1, <3>2, <3>3 DEF LiveSucceeds, LiveOf, InfraOf
  <2>6. CASE LiveFails
    <3>1. phase'["live"] = "failed" /\ phase'["infra"] = phase["infra"]
      BY <2>6, <2>b, <2>c DEF LiveFails
    <3>2. TraceOf'
      BY <2>6, <2>a, <2>b, <3>1, TraceStep DEF LiveFails, LiveOf
    <3>3. ExitOf'
      BY <2>6, <2>e DEF LiveFails
    <3> QED
      BY <2>6, <2>a, <3>1, <3>2, <3>3 DEF LiveFails, LiveOf, InfraOf, Exit
  <2>7. CASE StartInfra
    <3>1. phase'["infra"] = "running" /\ phase'["live"] = phase["live"]
      BY <2>7, <2>b, <2>c DEF StartInfra
    <3>2. TraceOf'
      BY <2>7, <2>a, <2>b, <3>1, TraceStep DEF StartInfra, InfraOf
    <3>3. ExitOf'
      BY <2>7, <2>d DEF StartInfra
    <3> QED
      BY <2>7, <2>a, <3>1, <3>2, <3>3 DEF StartInfra, LiveOf, InfraOf
  <2>8. CASE EditRepository \/ PublishBranch
    <3>1. TraceOf' /\ ExitOf'
      BY <2>8, <2>a, <2>d, TraceKept DEF EditRepository, PublishBranch
    <3> QED
      BY <2>8, <2>a, <3>1 DEF EditRepository, PublishBranch, LiveOf, InfraOf
  <2>9. CASE InfraFails
    <3>1. phase'["infra"] = "failed" /\ phase'["live"] = phase["live"]
      BY <2>9, <2>b, <2>c DEF InfraFails
    <3>2. TraceOf'
      BY <2>9, <2>a, <2>b, <3>1, TraceStep DEF InfraFails, InfraOf
    <3>3. ExitOf'
      BY <2>9, <2>e DEF InfraFails
    <3> QED
      BY <2>9, <2>a, <3>1, <3>2, <3>3 DEF InfraFails, LiveOf, InfraOf, Exit
  <2>10. CASE WriteResult \/ WriteResultFails
    <3>1. TraceOf'
      BY <2>10, <2>a, TraceKept DEF WriteResult, WriteResultFails
    <3>2. ExitOf'
      BY <2>10, <2>d, <2>e DEF WriteResult, WriteResultFails
    <3> QED
      BY <2>10, <2>a, <3>1, <3>2 DEF WriteResult, WriteResultFails, LiveOf, InfraOf, Exit
  <2>11. CASE InfraSucceeds
    <3>1. phase'["infra"] = "succeeded" /\ phase'["live"] = phase["live"]
      BY <2>11, <2>b, <2>c DEF InfraSucceeds
    <3>2. TraceOf'
      BY <2>11, <2>a, <2>b, <3>1, TraceStep DEF InfraSucceeds
    <3>3. ExitOf'
      BY <2>11, <2>d DEF InfraSucceeds
    <3> QED
      BY <2>11, <2>a, <3>1, <3>2, <3>3 DEF InfraSucceeds, LiveOf, InfraOf
  <2>12. CASE FinalTrace
    <3>1. TraceOf'
      BY <2>12, <2>a, TraceStep DEF FinalTrace, TryWrite
    <3>2. LiveOf' /\ InfraOf'
      BY <2>12, <2>a DEF FinalTrace, Exit, LiveOf, InfraOf
    <3>3. CASE WriteFails /\ Exit("error")
      BY <3>1, <3>2, <3>3, <2>e
    <3>4. ASSUME Write, NEW e \in {"ok", "error"}, Exit(e) PROVE ExitOf'
      BY <2>12, <2>a, <2>b, <3>4
         DEF FinalTrace, Write, Exit, ExitOf, OkIsComplete, Readable, Planned, LiveOf, InfraOf
    <3> QED
      BY <2>12, <3>1, <3>2, <3>3, <3>4 DEF FinalTrace
  <2>13. CASE Kill
    <3>1. TraceOf' /\ ExitOf'
      BY <2>13, <2>a, <2>e, TraceKept DEF Kill
    <3> QED
      BY <2>13, <2>a, <3>1 DEF Kill, Exit, LiveOf, InfraOf
  <2>14. CASE UNCHANGED vars
    BY <2>14, <2>a DEF vars, LiveOf, InfraOf, TraceOf, ExitOf, OkIsComplete, Readable, Planned
  <2> QED
    BY <2>1, <2>2, <2>3, <2>4, <2>5, <2>6, <2>7, <2>8, <2>9, <2>10, <2>11, <2>12, <2>13, <2>14 DEF Next
<1> QED
  BY <1>1, <1>2, TypeCorrect, PTL DEF Spec

(* The trace file never claims more than was done; and no less, if no write of it failed. *)
THEOREM TraceTrue == Spec => []TraceIsTrue
<1>1. IInv => TraceIsTrue
  <2> SUFFICES ASSUME IInv, Readable PROVE TraceIsTrue
    BY DEF TraceIsTrue
  <2>1. \A p \in Phases : trace.phases[p] = "succeeded" => phase[p] = "succeeded"
    BY DEF IInv, TraceOf
  <2>2. ~lost => trace.phases = phase
    BY DEF IInv, TraceOf
  <2> QED
    BY <2>1, <2>2 DEF TraceIsTrue, IInv, LiveOf, InfraOf, Phases
<1> QED
  BY <1>1, Inductive, PTL

(* A command that reports success has done, and traced, all of its plan. *)
THEOREM OkComplete == Spec => []OkIsComplete
<1>1. IInv => OkIsComplete
  BY DEF IInv, ExitOf
<1> QED
  BY <1>1, Inductive, PTL

(***************************************************************************)
(* Every step starts or ends a phase as PhaseSequence allows, or leaves    *)
(* the phases alone: the infra phase starts only behind the live phase.    *)
(***************************************************************************)
THEOREM SequenceImplemented == Spec => ImplementsSequence
<1>1. Init => Sequence!Init
  BY DEF Init, Sequence!Init, Phases, Sequence!Phases
<1>2. IInv /\ [Next]_vars => [Sequence!Next]_phase
  <2> SUFFICES ASSUME IInv, [Next]_vars PROVE Sequence!Next \/ UNCHANGED phase
    OBVIOUS
  <2> USE DEF SetPhase, Sequence!Next, Sequence!Phases, Sequence!Start, Sequence!End
  <2>1. CASE StartLive
    <3>1. Sequence!Start("live")
      BY <2>1 DEF StartLive, Planned, IInv, LiveOf
    <3> QED
      BY <3>1
  <2>2. CASE LiveSucceeds \/ LiveFails
    <3>1. Sequence!End("live")
      BY <2>2 DEF LiveSucceeds, LiveFails, IInv, LiveOf
    <3> QED
      BY <3>1
  <2>3. CASE StartInfra
    <3>1. Sequence!Start("infra")
      BY <2>3 DEF StartInfra, Planned, IInv, LiveOf, InfraOf
    <3> QED
      BY <3>1
  <2>4. CASE InfraSucceeds
    <3>1. Sequence!End("infra")
      BY <2>4 DEF InfraSucceeds, IInv, InfraOf
    <3> QED
      BY <3>1
  <2>5. CASE InfraFails
    <3>1. phase["infra"] = "running"
      BY <2>5 DEF InfraFails, IInv, InfraOf
    <3> QED
      BY <2>5, <3>1 DEF InfraFails
  <2>6. CASE InitTrace \/ SkipLive \/ PatchLive \/ SkipInfra \/ EditRepository \/ PublishBranch
             \/ WriteResult \/ WriteResultFails \/ FinalTrace \/ Kill \/ UNCHANGED vars
    BY <2>6 DEF InitTrace, SkipLive, PatchLive, SkipInfra, EditRepository, PublishBranch,
                WriteResult, WriteResultFails, FinalTrace, Kill, vars
  <2> QED
    BY <2>1, <2>2, <2>3, <2>4, <2>5, <2>6 DEF Next
<1> QED
  BY <1>1, <1>2, Inductive, PTL DEF Spec, ImplementsSequence, Sequence!Spec
=============================================================================
