---------------------------- MODULE ApprovalGate ----------------------------
(***************************************************************************)
(* The approval gate of the commands (internal/cli).  Three kinds of       *)
(* command share a plan file and an approval provider:                     *)
(*   propose  remediate, terraform-pr and smart-remediate: write a plan,   *)
(*            request its approval, and apply it in the same process;      *)
(*   request  approval request: request the approval of the plan file;     *)
(*   execute  execute and infra execute: apply the plan file.              *)
(* Commands run concurrently with each other and with the operators who    *)
(* answer.  A command that is killed takes no more steps.                  *)
(***************************************************************************)
EXTENDS Naturals

CONSTANTS
  Cmds,         \* processes, one command each
  Kinds,        \* the kinds of command a process may run
  Ids,          \* approval ids
  Plans,        \* contents of plans
  Providers,    \* providers the commands may be configured with
  None,         \* no plan, no id, no time
  FreshIds,     \* TRUE: every request is made under a new id
  CmdTimeout,   \* --timeout, in polling intervals
  WaitTimeout,  \* --approval-timeout, in polling intervals
  MaxTime       \* bound: polling intervals per behaviour

ASSUME GateAssumption ==
  /\ Kinds \subseteq {"propose", "request", "execute"}
  /\ Providers \subseteq {"manual", "slack", "telegram", "n8n"}
  /\ None \notin Ids /\ None \notin Plans /\ None \notin Nat
  /\ FreshIds \in BOOLEAN
  /\ CmdTimeout \in Nat /\ WaitTimeout \in Nat /\ MaxTime \in Nat

VARIABLES
  provider,    \* the approval provider of this deployment
  flags,       \* command lines
  pc,          \* next step of each command
  held,        \* the plan each command has in memory, with the id in it
  id,          \* the approval id each command uses
  exit,        \* how each command ended
  expiry,      \* when the context of each command expires
  deadline,    \* when the wait of each command for an approval ends
  ticked,      \* has the polling ticker fired since it was last read
  clock,       \* time, in polling intervals
  planFile,    \* the plan file
  answers,     \* the provider: the decision kept per id
  shown,       \* the provider: the plan operators see under each id
  owner,       \* history: the plan each id was created for
  asked,       \* history: the id under which each command's request was registered
  approvedAt,  \* history: when an operator first approved a plan under an id
  applied      \* history: the plans sent to the cluster or the repository

cmdVars == <<pc, held, id, exit, expiry, deadline, ticked>>
envVars == <<planFile, answers, shown, owner, asked, approvedAt, applied>>
vars    == <<provider, flags, clock, cmdVars, envVars>>

Stored   == [plan : Plans, id : Ids \cup {None}]
Exits    == {"running", "ok", "error", "refused", "denied", "pending", "timeout", "expired"}
Steps    == {"start", "write", "request", "notify", "writeback",
             "gate", "poll", "select", "passed", "apply", "end"}

(* given: --approval-id; approve: --approve of execute, --apply of infra   *)
(* execute; go: --apply of propose, --dry-run=false of execute; wait:      *)
(* --wait-approval; save: --write-plan of request.                         *)
Flags == [kind : Kinds, given : Ids \cup {None},
          approve : BOOLEAN, go : BOOLEAN, wait : BOOLEAN, save : BOOLEAN]

(* Flags that a kind of command does not have are FALSE. *)
CommandLines ==
  {f \in Flags : /\ f.kind # "execute" => ~f.approve
                 /\ f.kind # "request" => ~f.save
                 /\ f.kind = "request" => ~f.go /\ ~f.wait
                 /\ f.kind # "execute" /\ FreshIds => f.given = None}

Ledger == INSTANCE ApprovalLedger WITH decision <- answers

Init ==
  /\ provider \in Providers
  /\ flags \in [Cmds -> CommandLines]
  /\ pc = [c \in Cmds |-> "start"]
  /\ held = [c \in Cmds |-> None]
  /\ id = [c \in Cmds |-> None]
  /\ exit = [c \in Cmds |-> "running"]
  /\ expiry = [c \in Cmds |-> 0]
  /\ deadline = [c \in Cmds |-> 0]
  /\ ticked = [c \in Cmds |-> FALSE]
  /\ clock = 0
  /\ planFile \in [plan : Plans, id : {None}]   \* a plan written by hand
  /\ Ledger!Init
  /\ shown = [i \in Ids |-> None]
  /\ owner = [i \in Ids |-> None]
  /\ asked = [c \in Cmds |-> None]
  /\ approvedAt = [p \in Ids \X Plans |-> None]
  /\ applied = {}

-----------------------------------------------------------------------------
Goto(c, from, to) ==
  /\ pc[c] = from
  /\ pc' = [pc EXCEPT ![c] = to]

Exit(c, result) ==
  /\ pc' = [pc EXCEPT ![c] = "end"]
  /\ exit' = [exit EXCEPT ![c] = result]

Live(c) == clock < expiry[c]     \* the context of c has not expired

StartClock(c) == expiry' = [expiry EXCEPT ![c] = clock + CmdTimeout]

(* The id of a request: --approval-id or, without it, a new UUID. *)
TakeId(c, i, k) ==
  /\ IF flags[c].given = None THEN owner[i] = None ELSE i = flags[c].given
  /\ id' = [id EXCEPT ![c] = i]
  /\ owner' = [owner EXCEPT ![i] = k]

(***************************************************************************)
(* From the plan to the gate                                               *)
(***************************************************************************)

(* propose: the analyzers and the model produce a plan; --timeout runs. *)
Propose(c) ==
  /\ flags[c].kind = "propose"
  /\ Goto(c, "start", "write")
  /\ \E k \in Plans, i \in Ids :
       /\ TakeId(c, i, k)
       /\ held' = [held EXCEPT ![c] = [plan |-> k, id |-> i]]
  /\ StartClock(c)
  /\ UNCHANGED <<provider, flags, clock, exit, deadline, ticked,
                 planFile, answers, shown, asked, approvedAt, applied>>

(* The plan is saved with the id under which it is to be approved. *)
WritePlan(c) ==
  /\ Goto(c, "write", "request")
  /\ planFile' = held[c]
  /\ UNCHANGED <<provider, flags, clock, held, id, exit, expiry, deadline, ticked,
                 answers, shown, owner, asked, approvedAt, applied>>

(* request: the plan file is loaded. *)
LoadForRequest(c) ==
  /\ flags[c].kind = "request"
  /\ Goto(c, "start", "request")
  /\ \E i \in Ids : TakeId(c, i, planFile.plan)
  /\ held' = [held EXCEPT ![c] = planFile]
  /\ StartClock(c)
  /\ UNCHANGED <<provider, flags, clock, exit, deadline, ticked,
                 planFile, answers, shown, asked, approvedAt, applied>>

(* Mutant: the id in the plan is not compared with --approval-id. *)
AcceptsAnyId(f, p) == f.approve /\ f.given # None

(* execute: the plan file is loaded before the approval is looked at, and  *)
(* refused without --approve, without an id, or with the id of another     *)
(* plan; a plan that carries no id is accepted under any.                  *)
Accepts(f, p) == f.approve /\ f.given # None /\ p.id \in {None, f.given}

Load(c) ==
  /\ flags[c].kind = "execute"
  /\ pc[c] = "start"
  /\ \/ /\ Accepts(flags[c], planFile)
        /\ Goto(c, "start", "gate")
        /\ held' = [held EXCEPT ![c] = planFile]
        /\ id' = [id EXCEPT ![c] = flags[c].given]
        /\ UNCHANGED exit
     \/ /\ ~Accepts(flags[c], planFile)
        /\ Exit(c, "refused")
        /\ UNCHANGED <<held, id>>
  /\ UNCHANGED <<provider, flags, clock, expiry, deadline, ticked, envVars>>

(* Mutant: the message shows the id where the plan should be. *)
RegisterId(i, k) == shown' = [shown EXCEPT ![i] = i] /\ Ledger!Request(i)

(* Approver.Request: Slack makes the id pending again, the others keep an  *)
(* earlier answer to it, and the manual provider keeps nothing.            *)
Register(i, k) ==
  /\ shown' = [shown EXCEPT ![i] = k]
  /\ IF provider = "slack" \/ answers[i] = "none"
       THEN Ledger!Request(i)
       ELSE UNCHANGED answers

(* The n8n workflow may register the request under an id of its own, which *)
(* it returns.  approval request uses the returned id; propose drops it.   *)
Aliases(c) ==
  {id[c]} \cup (IF provider = "n8n" THEN {j \in Ids : owner[j] = None} ELSE {})

Request(c) ==
  /\ Goto(c, "request", IF flags[c].kind = "request" THEN "writeback" ELSE "notify")
  /\ \/ /\ provider = "manual"
        /\ UNCHANGED <<id, answers, shown, owner, asked>>
     \/ /\ provider # "manual"
        /\ Live(c)
        /\ \E j \in Aliases(c) :
             /\ Register(j, held[c].plan)
             /\ owner' = [owner EXCEPT ![j] = held[c].plan]
             /\ asked' = [asked EXCEPT ![c] = j]
             /\ id' = IF flags[c].kind = "request" THEN [id EXCEPT ![c] = j] ELSE id
  /\ UNCHANGED <<provider, flags, clock, held, exit, expiry, deadline, ticked,
                 planFile, approvedAt, applied>>

(* The call fails, before or after the message has gone out; Slack's       *)
(* pending record may be in the store even without the message.            *)
RequestFails(c) ==
  /\ pc[c] = "request"
  /\ provider # "manual"
  /\ Exit(c, "error")
  /\ \/ UNCHANGED <<answers, shown>>
     \/ provider = "slack" /\ Ledger!Request(id[c]) /\ UNCHANGED shown
     \/ Register(id[c], held[c].plan)
  /\ UNCHANGED <<provider, flags, clock, held, id, expiry, deadline, ticked,
                 planFile, owner, asked, approvedAt, applied>>

(* --write-plan puts the id into the plan that was loaded. *)
WriteBack(c) ==
  /\ pc[c] = "writeback"
  /\ Exit(c, "ok")
  /\ planFile' = IF flags[c].save THEN [held[c] EXCEPT !.id = id[c]] ELSE planFile
  /\ UNCHANGED <<provider, flags, clock, held, id, expiry, deadline, ticked,
                 answers, shown, owner, asked, approvedAt, applied>>

(* --notify: a notification that cannot be sent ends the command. *)
Notify(c) ==
  /\ pc[c] = "notify"
  /\ \/ Goto(c, "notify", "gate") /\ UNCHANGED exit
     \/ Exit(c, "error")
  /\ UNCHANGED <<provider, flags, clock, held, id, expiry, deadline, ticked, envVars>>

(***************************************************************************)
(* ensureApproved                                                          *)
(***************************************************************************)

(* The manual provider is not asked.  (Bound: every wait ends by MaxTime.) *)
Gate(c) ==
  /\ clock + WaitTimeout <= MaxTime
  /\ Goto(c, "gate", IF provider = "manual" THEN "passed" ELSE "poll")
  /\ deadline' = [deadline EXCEPT ![c] = clock + WaitTimeout]
  /\ UNCHANGED <<provider, flags, clock, held, id, exit, expiry, ticked, envVars>>

Poll(c) ==
  /\ pc[c] = "poll"
  /\ LET status == Ledger!StatusIn(answers, id[c]) IN
       \/ status = "approved" /\ Goto(c, "poll", "passed") /\ UNCHANGED exit
       \/ status = "denied" /\ Exit(c, "denied")
       \/ status = "pending" /\ flags[c].wait /\ Goto(c, "poll", "select") /\ UNCHANGED exit
       \/ status = "pending" /\ ~flags[c].wait /\ Exit(c, "pending")
  /\ UNCHANGED <<provider, flags, clock, held, id, expiry, deadline, ticked, envVars>>

(* A call that fails, or a store caught between two writes, ends the wait. *)
PollFails(c) ==
  /\ pc[c] = "poll"
  /\ Exit(c, "error")
  /\ UNCHANGED <<provider, flags, clock, held, id, expiry, deadline, ticked, envVars>>

(* Mutants: the wait ends a tick early; or only with the command's context.*)
WaitOverEarly(c) == clock + 1 >= deadline[c]
WaitNeverOver(c) == FALSE

(* ctxPoll has expired. *)
WaitOver(c) == clock >= deadline[c]

(* The select: when the deadline has passed and the ticker has fired too,  *)
(* either may be taken.                                                    *)
TimeOut(c) ==
  /\ pc[c] = "select"
  /\ WaitOver(c)
  /\ Exit(c, "timeout")
  /\ UNCHANGED <<provider, flags, clock, held, id, expiry, deadline, ticked, envVars>>

PollAgain(c) ==
  /\ ticked[c]
  /\ Goto(c, "select", "poll")
  /\ ticked' = [ticked EXCEPT ![c] = FALSE]
  /\ UNCHANGED <<provider, flags, clock, held, id, exit, expiry, deadline, envVars>>

(***************************************************************************)
(* Behind the gate                                                         *)
(***************************************************************************)

(* execute gets a new context here; propose goes on under the one of its   *)
(* start.  Without --apply, or in a dry run, nothing more happens.         *)
Pass(c) ==
  /\ pc[c] = "passed"
  /\ \/ /\ ~flags[c].go
        /\ Exit(c, "ok")
        /\ UNCHANGED expiry
     \/ /\ flags[c].go
        /\ Goto(c, "passed", "apply")
        /\ IF flags[c].kind = "execute" THEN StartClock(c) ELSE UNCHANGED expiry
        /\ UNCHANGED exit
  /\ UNCHANGED <<provider, flags, clock, held, id, deadline, ticked, envVars>>

(* The executor is called; what it does is modelled in LiveRollout and     *)
(* InfraExecutor.  An error may come before or after a change was made.    *)
Apply(c) ==
  /\ pc[c] = "apply"
  /\ Live(c)
  /\ \/ /\ applied' = applied \cup {[cmd |-> c, plan |-> held[c], id |-> id[c]]}
        /\ \E result \in {"ok", "error"} : Exit(c, result)
     \/ /\ UNCHANGED applied
        /\ Exit(c, "error")
  /\ UNCHANGED <<provider, flags, clock, held, id, expiry, deadline, ticked,
                 planFile, answers, shown, owner, asked, approvedAt>>

(* Every call of the executor fails under an expired context. *)
ApplyExpired(c) ==
  /\ pc[c] = "apply"
  /\ ~Live(c)
  /\ Exit(c, "expired")
  /\ UNCHANGED <<provider, flags, clock, held, id, expiry, deadline, ticked, envVars>>

(***************************************************************************)
(* Operators and time                                                      *)
(***************************************************************************)

Answer(i, d) ==
  /\ shown[i] # None
  /\ Ledger!Decide(i, d)
  /\ LET p == <<i, shown[i]>> IN
       approvedAt' = IF d = "approved" /\ approvedAt[p] = None
                       THEN [approvedAt EXCEPT ![p] = clock]
                       ELSE approvedAt
  /\ UNCHANGED <<provider, flags, clock, cmdVars, planFile, shown, owner, asked, applied>>

(* The 5 second ticker.  A waiting command reads a tick before the next.   *)
Tick ==
  /\ clock < MaxTime
  /\ \A c \in Cmds : pc[c] = "select" => ~ticked[c]
  /\ clock' = clock + 1
  /\ ticked' = [c \in Cmds |-> pc[c] \in {"poll", "select"}]
  /\ UNCHANGED <<provider, flags, pc, held, id, exit, expiry, deadline, envVars>>

-----------------------------------------------------------------------------
WaitStep(c) == Poll(c) \/ PollFails(c) \/ TimeOut(c) \/ PollAgain(c)

Step(c) ==
  \/ Propose(c) \/ WritePlan(c) \/ LoadForRequest(c) \/ Load(c)
  \/ Request(c) \/ RequestFails(c) \/ WriteBack(c) \/ Notify(c)
  \/ Gate(c) \/ WaitStep(c) \/ Pass(c) \/ Apply(c) \/ ApplyExpired(c)

Next ==
  \/ \E c \in Cmds : Step(c)
  \/ \E i \in Ids, d \in {"approved", "denied"} : Answer(i, d)
  \/ Tick

Spec == Init /\ [][Next]_vars

(* Time passes, and a command that waits reacts to it. *)
FairSpec == Spec /\ WF_vars(Tick) /\ \A c \in Cmds : WF_vars(WaitStep(c))

-----------------------------------------------------------------------------
TypeOK ==
  /\ provider \in Providers
  /\ flags \in [Cmds -> CommandLines]
  /\ pc \in [Cmds -> Steps]
  /\ held \in [Cmds -> Stored \cup {None}]
  /\ id \in [Cmds -> Ids \cup {None}]
  /\ exit \in [Cmds -> Exits]
  /\ expiry \in [Cmds -> Nat]
  /\ deadline \in [Cmds -> Nat]
  /\ ticked \in [Cmds -> BOOLEAN]
  /\ clock \in 0..MaxTime
  /\ planFile \in Stored
  /\ answers \in [Ids -> Ledger!Entries]
  /\ shown \in [Ids -> Plans \cup {None}]
  /\ owner \in [Ids -> Plans \cup {None}]
  /\ asked \in [Cmds -> Ids \cup {None}]
  /\ approvedAt \in [Ids \X Plans -> 0..MaxTime \cup {None}]
  /\ applied \subseteq [cmd : Cmds, plan : Stored, id : Ids]

(* No impactful change without explicit approval (README): a plan that is  *)
(* applied was approved by an operator who was shown this very plan under  *)
(* the id it carries - whoever rewrote the plan file, asked for other      *)
(* approvals or answered them in the meantime - or its operator passed     *)
(* --approve to execute it with the manual provider.  A plan that carries  *)
(* no id, written by hand, is bound to no request.                         *)
AppliedPlanWasApproved ==
  \A a \in applied :
    \/ provider = "manual" /\ flags[a.cmd].kind = "execute" /\ flags[a.cmd].approve
    \/ a.plan.id = None
    \/ approvedAt[<<a.plan.id, a.plan.plan>>] # None

(* A wait that times out missed no answer: no operator approved the plan   *)
(* of the command more than one polling interval before the deadline,      *)
(* neither under the id the command uses nor under the one its request was *)
(* registered under.                                                       *)
TimedOutUnanswered ==
  \A c \in Cmds : exit[c] = "timeout" =>
    \A i \in {id[c], asked[c]} \ {None} :
      LET at == approvedAt[<<i, held[c].plan>>]
      IN  at # None => at + 1 >= deadline[c]

(* An approval that is given while the command waits for it is not lost:   *)
(* with --apply the plan is then applied, under a context that is alive.   *)
ApprovalInTimeIsUsed == \A c \in Cmds : exit[c] # "expired"

(* A command never waits for ever for an answer. *)
WaitEnds == \A c \in Cmds : pc[c] = "select" ~> pc[c] \notin {"poll", "select"}
=============================================================================
