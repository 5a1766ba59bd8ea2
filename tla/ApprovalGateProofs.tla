-------------------------- MODULE ApprovalGateProofs --------------------------
(* Theorems about ApprovalGate. *)
EXTENDS ApprovalGate, TLAPS

(***************************************************************************)
(* A command that is under way has a plan and an id.                       *)
(***************************************************************************)
Busy == \A c \in Cmds : pc[c] \notin {"start", "end"} => held[c] \in Stored /\ id[c] \in Ids

TypeInv == TypeOK /\ Busy

LEMMA FlagFields ==
  ASSUME NEW f \in CommandLines
  PROVE  /\ f.kind \in Kinds /\ f.given \in Ids \cup {None}
         /\ f.approve \in BOOLEAN /\ f.go \in BOOLEAN /\ f.wait \in BOOLEAN /\ f.save \in BOOLEAN
         /\ f.kind # "execute" /\ FreshIds => f.given = None
BY DEF CommandLines, Flags

LEMMA StoredFields ==
  ASSUME NEW p \in Stored
  PROVE  /\ p.plan \in Plans /\ p.id \in Ids \cup {None}
         /\ \A i \in Ids : [p EXCEPT !.id = i] \in Stored
BY DEF Stored

LEMMA InitTyped == ASSUME Init PROVE TypeInv
<1>1. planFile \in Stored
  BY DEF Init, Stored
<1>2. answers \in [Ids -> Ledger!Entries]
  BY DEF Init, Ledger!Init, Ledger!Entries
<1>3. clock \in 0..MaxTime
  BY GateAssumption DEF Init
<1> QED
  BY <1>1, <1>2, <1>3 DEF Init, TypeInv, TypeOK, Busy, Steps, Exits

(* Steps that only move one command and its clocks. *)
LEMMA CommandTyped ==
  ASSUME TypeInv, NEW c \in Cmds, NEW s \in Steps \ {"start"},
         pc' = [pc EXCEPT ![c] = s],
         exit' \in [Cmds -> Exits], expiry' \in [Cmds -> Nat], deadline' \in [Cmds -> Nat],
         ticked' \in [Cmds -> BOOLEAN],
         UNCHANGED <<provider, flags, clock>>,
         planFile' \in Stored, answers' \in [Ids -> Ledger!Entries],
         shown' \in [Ids -> Plans \cup {None}], owner' \in [Ids -> Plans \cup {None}],
         asked' \in [Cmds -> Ids \cup {None}], UNCHANGED approvedAt, applied' \subseteq [cmd : Cmds, plan : Stored, id : Ids],
         NEW k \in Stored \cup {None}, held' = [held EXCEPT ![c] = k],
         NEW i \in Ids \cup {None}, id' = [id EXCEPT ![c] = i],
         s # "end" => k \in Stored /\ i \in Ids
  PROVE  TypeInv'
<1>1. TypeOK'
  BY DEF TypeInv, TypeOK
<1>2. Busy'
  BY DEF TypeInv, TypeOK, Busy
<1> QED
  BY <1>1, <1>2 DEF TypeInv

(* Such steps that leave the plan and the id of the command, too. *)
LEMMA MoveTyped ==
  ASSUME TypeInv, NEW c \in Cmds, pc[c] # "start", pc[c] # "end",
         NEW s \in Steps \ {"start"}, pc' = [pc EXCEPT ![c] = s],
         exit' \in [Cmds -> Exits], expiry' \in [Cmds -> Nat], deadline' \in [Cmds -> Nat],
         ticked' \in [Cmds -> BOOLEAN],
         UNCHANGED <<provider, flags, clock, held, id>>,
         planFile' \in Stored, answers' \in [Ids -> Ledger!Entries],
         shown' \in [Ids -> Plans \cup {None}], owner' \in [Ids -> Plans \cup {None}],
         asked' \in [Cmds -> Ids \cup {None}], UNCHANGED approvedAt, applied' \subseteq [cmd : Cmds, plan : Stored, id : Ids]
  PROVE  TypeInv'
<1>1. held[c] \in Stored /\ id[c] \in Ids
  BY DEF TypeInv, Busy
<1>2. held' = [held EXCEPT ![c] = held[c]] /\ id' = [id EXCEPT ![c] = id[c]]
  BY DEF TypeInv, TypeOK
<1> QED
  BY <1>1, <1>2, CommandTyped

LEMMA RegisterTyped ==
  ASSUME TypeInv, NEW i \in Ids, NEW k \in Plans, Register(i, k)
  PROVE  answers' \in [Ids -> Ledger!Entries] /\ shown' \in [Ids -> Plans \cup {None}]
BY DEF Register, Ledger!Request, Ledger!Entries, Ledger!Decisions, TypeInv, TypeOK

LEMMA TakeIdTyped ==
  ASSUME TypeInv, NEW c \in Cmds, NEW i \in Ids, NEW k \in Plans, TakeId(c, i, k)
  PROVE  owner' \in [Ids -> Plans \cup {None}] /\ id' = [id EXCEPT ![c] = i]
BY DEF TakeId, TypeInv, TypeOK

LEMMA StepTyped ==
  ASSUME TypeInv, NEW c \in Cmds, Step(c)
  PROVE  TypeInv'
<1> USE DEF Goto, Exit
<1>a. TypeOK
  BY DEF TypeInv
<1>b. /\ {"write", "request", "notify", "writeback", "gate", "poll", "select", "passed",
          "apply", "end"} \subseteq Steps \ {"start"}
      /\ {"ok", "error", "refused", "denied", "pending", "timeout", "expired"} \subseteq Exits
  BY DEF Steps, Exits
<1>c. StartClock(c) => expiry' \in [Cmds -> Nat]
  BY <1>a, GateAssumption DEF StartClock, TypeOK
<1>d. \A e \in Exits : [exit EXCEPT ![c] = e] \in [Cmds -> Exits]
  BY <1>a DEF TypeOK
<1>e. pc[c] \notin {"start", "end"} => held[c] \in Stored /\ held[c].plan \in Plans /\ id[c] \in Ids
  BY StoredFields DEF TypeInv, Busy
<1>1. CASE Propose(c)
  <2>1. PICK k \in Plans, i \in Ids :
          TakeId(c, i, k) /\ held' = [held EXCEPT ![c] = [plan |-> k, id |-> i]]
    BY <1>1 DEF Propose
  <2>2. [plan |-> k, id |-> i] \in Stored
    BY DEF Stored
  <2>3. owner' \in [Ids -> Plans \cup {None}] /\ id' = [id EXCEPT ![c] = i]
    BY <2>1, TakeIdTyped
  <2> QED
    BY <1>1, <1>a, <1>b, <1>c, <2>1, <2>2, <2>3, CommandTyped DEF Propose, TypeOK
<1>2. CASE WritePlan(c)
  BY <1>2, <1>a, <1>b, <1>e, MoveTyped DEF WritePlan, TypeOK
<1>3. CASE LoadForRequest(c)
  <2>1. PICK i \in Ids : TakeId(c, i, planFile.plan)
    BY <1>3 DEF LoadForRequest
  <2>2. planFile \in Stored /\ planFile.plan \in Plans
    BY <1>a, StoredFields DEF TypeOK
  <2>3. owner' \in [Ids -> Plans \cup {None}] /\ id' = [id EXCEPT ![c] = i]
    BY <2>1, <2>2, TakeIdTyped
  <2> QED
    BY <1>3, <1>a, <1>b, <1>c, <2>2, <2>3, CommandTyped DEF LoadForRequest, TypeOK
<1>4. CASE Load(c)
  <2>1. CASE Accepts(flags[c], planFile) /\ pc' = [pc EXCEPT ![c] = "gate"]
             /\ held' = [held EXCEPT ![c] = planFile] /\ id' = [id EXCEPT ![c] = flags[c].given]
             /\ UNCHANGED exit
    <3>1. flags[c].given \in Ids
      BY <2>1, <1>a, FlagFields DEF Accepts, TypeOK
    <3> QED
      BY <1>4, <2>1, <3>1, <1>a, <1>b, CommandTyped DEF Load, TypeOK, envVars
  <2>2. CASE pc' = [pc EXCEPT ![c] = "end"] /\ exit' = [exit EXCEPT ![c] = "refused"]
             /\ UNCHANGED <<held, id>>
    <3>1. held[c] \in Stored \cup {None} /\ held' = [held EXCEPT ![c] = held[c]]
          /\ id[c] \in Ids \cup {None} /\ id' = [id EXCEPT ![c] = id[c]]
      BY <2>2, <1>a DEF TypeOK
    <3> QED
      BY <1>4, <2>2, <3>1, <1>a, <1>b, <1>d, CommandTyped DEF Load, TypeOK, envVars
  <2> QED
    BY <1>4, <2>1, <2>2 DEF Load
<1>5. CASE Request(c)
  <2>1. CASE UNCHANGED <<id, answers, shown, owner, asked>>
    BY <1>5, <2>1, <1>a, <1>b, <1>e, MoveTyped DEF Request, TypeOK
  <2>2. CASE \E j \in Aliases(c) :
               /\ Register(j, held[c].plan)
               /\ owner' = [owner EXCEPT ![j] = held[c].plan]
               /\ asked' = [asked EXCEPT ![c] = j]
               /\ id' = IF flags[c].kind = "request" THEN [id EXCEPT ![c] = j] ELSE id
    <3>1. PICK j \in Aliases(c) :
            /\ Register(j, held[c].plan)
            /\ owner' = [owner EXCEPT ![j] = held[c].plan]
            /\ asked' = [asked EXCEPT ![c] = j]
            /\ id' = IF flags[c].kind = "request" THEN [id EXCEPT ![c] = j] ELSE id
      BY <2>2
    <3>2. held[c] \in Stored /\ held[c].plan \in Plans /\ id[c] \in Ids
      BY <1>5, <1>e DEF Request
    <3>3. j \in Ids
      BY <3>2 DEF Aliases
    <3>4. answers' \in [Ids -> Ledger!Entries] /\ shown' \in [Ids -> Plans \cup {None}]
      BY <3>1, <3>2, <3>3, RegisterTyped
    <3>5. owner' \in [Ids -> Plans \cup {None}]
      BY <3>1, <3>2, <3>3, <1>a DEF TypeOK
    <3>6. held' = [held EXCEPT ![c] = held[c]]
      BY <1>5, <1>a DEF Request, TypeOK
    <3>7. asked' \in [Cmds -> Ids \cup {None}]
      BY <3>1, <3>3, <1>a DEF TypeOK
    <3>8. \E i \in Ids : id' = [id EXCEPT ![c] = i]
      BY <3>1, <3>2, <3>3, <1>a DEF TypeOK
    <3> QED
      BY <1>5, <3>2, <3>4, <3>5, <3>6, <3>7, <3>8, <1>a, <1>b, CommandTyped DEF Request, TypeOK
  <2> QED
    BY <1>5, <2>1, <2>2 DEF Request
<1>6. CASE RequestFails(c)
  <2>1. held[c].plan \in Plans /\ id[c] \in Ids
    BY <1>6, <1>e DEF RequestFails
  <2>2. answers' \in [Ids -> Ledger!Entries] /\ shown' \in [Ids -> Plans \cup {None}]
    <3>1. CASE Ledger!Request(id[c]) /\ UNCHANGED shown
      BY <3>1, <2>1, <1>a DEF TypeOK, Ledger!Request, Ledger!Entries, Ledger!Decisions
    <3> QED
      BY <1>6, <2>1, <3>1, <1>a, RegisterTyped DEF RequestFails, TypeOK
  <2> QED
    BY <1>6, <2>2, <1>a, <1>b, <1>d, MoveTyped DEF RequestFails, TypeOK
<1>7. CASE WriteBack(c)
  <2>1. planFile' \in Stored
    BY <1>7, <1>a, <1>e, StoredFields DEF WriteBack, TypeOK
  <2> QED
    BY <1>7, <2>1, <1>a, <1>b, <1>d, MoveTyped DEF WriteBack, TypeOK
<1>8. CASE Notify(c)
  BY <1>8, <1>a, <1>b, <1>d, MoveTyped DEF Notify, TypeOK, envVars
<1>9. CASE Gate(c)
  <2>1. deadline' \in [Cmds -> Nat]
    BY <1>9, <1>a, GateAssumption DEF Gate, TypeOK
  <2> QED
    BY <1>9, <2>1, <1>a, <1>b, MoveTyped DEF Gate, TypeOK, envVars
<1>10. CASE Poll(c) \/ PollFails(c) \/ TimeOut(c)
  BY <1>10, <1>a, <1>b, <1>d, MoveTyped DEF Poll, PollFails, TimeOut, TypeOK, envVars
<1>11. CASE PollAgain(c)
  BY <1>11, <1>a, <1>b, MoveTyped DEF PollAgain, TypeOK, envVars
<1>12. CASE Pass(c)
  <2>1. PICK s \in {"apply", "end"} : pc' = [pc EXCEPT ![c] = s]
    BY <1>12 DEF Pass
  <2>2. exit' \in [Cmds -> Exits] /\ expiry' \in [Cmds -> Nat]
    BY <1>12, <1>a, <1>b, <1>c, <1>d DEF Pass, TypeOK
  <2> QED
    BY <1>12, <2>1, <2>2, <1>a, <1>b, MoveTyped DEF Pass, TypeOK, envVars
<1>13. CASE Apply(c)
  <2>1. applied' \subseteq [cmd : Cmds, plan : Stored, id : Ids]
    BY <1>13, <1>a, <1>e DEF Apply, TypeOK
  <2>2. exit' \in [Cmds -> Exits] /\ pc' = [pc EXCEPT ![c] = "end"]
    BY <1>13, <1>b, <1>d DEF Apply
  <2>3. pc[c] = "apply" /\ UNCHANGED <<provider, flags, clock, held, id, expiry, deadline, ticked,
                                       planFile, answers, shown, owner, asked, approvedAt>>
    BY <1>13 DEF Apply
  <2> QED
    BY <2>1, <2>2, <2>3, <1>a, <1>b, MoveTyped DEF TypeOK
<1>14. CASE ApplyExpired(c)
  BY <1>14, <1>a, <1>b, <1>d, MoveTyped DEF ApplyExpired, TypeOK, envVars
<1> QED
  BY <1>1, <1>2, <1>3, <1>4, <1>5, <1>6, <1>7, <1>8, <1>9, <1>10, <1>11, <1>12, <1>13, <1>14
     DEF Step, WaitStep

LEMMA AnswerTyped ==
  ASSUME TypeInv, NEW i \in Ids, NEW d \in {"approved", "denied"}, Answer(i, d)
  PROVE  TypeInv'
<1>1. answers' \in [Ids -> Ledger!Entries]
  BY DEF Answer, Ledger!Decide, Ledger!Entries, Ledger!Decisions, Ledger!Answers, TypeInv, TypeOK
<1>2. <<i, shown[i]>> \in Ids \X Plans
  BY DEF Answer, TypeInv, TypeOK
<1>3. approvedAt' \in [Ids \X Plans -> 0..MaxTime \cup {None}]
  BY <1>2 DEF Answer, TypeInv, TypeOK
<1> QED
  BY <1>1, <1>3 DEF Answer, cmdVars, TypeInv, TypeOK, Busy

LEMMA TickTyped == ASSUME TypeInv, Tick PROVE TypeInv'
<1>1. clock' \in 0..MaxTime
  BY GateAssumption DEF Tick, TypeInv, TypeOK
<1> QED
  BY <1>1 DEF Tick, envVars, TypeInv, TypeOK, Busy

LEMMA StutterTyped == ASSUME TypeInv, UNCHANGED vars PROVE TypeInv'
BY DEF vars, cmdVars, envVars, TypeInv, TypeOK, Busy

LEMMA Typed == Spec => []TypeInv
<1>1. Init => TypeInv
  BY InitTyped
<1>2. TypeInv /\ [Next]_vars => TypeInv'
  BY StepTyped, AnswerTyped, TickTyped, StutterTyped DEF Next
<1> QED
  BY <1>1, <1>2, PTL DEF Spec

(* The state of the gate is always of its type. *)
THEOREM TypeCorrect == Spec => []TypeOK
BY Typed, PTL DEF TypeInv

-----------------------------------------------------------------------------
(***************************************************************************)
(* Why only approved plans are applied.  Under fresh ids an id belongs to  *)
(* one plan, its owner, from the moment it is made up; everything that     *)
(* carries an id - the file, a command, the message operators see - then   *)
(* carries the plan that owns it, and what was approved under an id is its *)
(* owner.  A polling command has an id of its own plan, or one that its    *)
(* plan file carries.                                                      *)
(***************************************************************************)
KindOf ==
  \A c \in Cmds :
    /\ pc[c] \in {"write", "notify"} => flags[c].kind = "propose"
    /\ pc[c] = "request" => flags[c].kind # "execute"
    /\ pc[c] = "writeback" => flags[c].kind = "request"
    /\ pc[c] \in {"gate", "poll", "select", "passed", "apply"} =>
         flags[c].kind # "request" /\ (flags[c].kind = "execute" => flags[c].approve)

Bound(p) == p.id # None => owner[p.id] = p.plan

FileBound == Bound(planFile)

HeldBound ==
  \A c \in Cmds : pc[c] \notin {"start", "end"} =>
    /\ Bound(held[c])
    /\ pc[c] \in {"write", "request", "writeback"} => owner[id[c]] = held[c].plan
    /\ flags[c].kind # "request" => held[c].id \in {None, id[c]}

ShownBound == \A i \in Ids : shown[i] # None => shown[i] = owner[i]

AnswerBound ==
  \A i \in Ids : answers[i] = "approved" => shown[i] # None /\ approvedAt[<<i, shown[i]>>] # None

Approved(p) == p.id # None => approvedAt[<<p.id, p.plan>>] # None

(* With the manual provider --approve is the approval. *)
Manual(c) == provider = "manual" /\ flags[c].kind = "execute" /\ flags[c].approve

Cleared == \A c \in Cmds : pc[c] \in {"passed", "apply"} => Manual(c) \/ Approved(held[c])

BindInv ==
  /\ KindOf /\ FileBound /\ HeldBound /\ ShownBound /\ AnswerBound /\ Cleared
  /\ AppliedPlanWasApproved

LEMMA InitBound == ASSUME Init PROVE BindInv
BY DEF Init, Ledger!Init, BindInv, KindOf, FileBound, Bound, HeldBound, ShownBound, AnswerBound,
       Cleared, AppliedPlanWasApproved

(* What was written under an id stays true when owners are only added. *)
LEMMA BoundKept ==
  ASSUME NEW p \in Stored, Bound(p), \A i \in Ids : owner[i] # None => owner'[i] = owner[i],
         p.id # None => p.plan # None
  PROVE  p.id # None => owner'[p.id] = p.plan
BY StoredFields DEF Bound

(* Steps of a command that touch nothing but the command. *)
LEMMA MoveBound ==
  ASSUME TypeInv, BindInv, NEW c \in Cmds, pc[c] \notin {"start", "end"},
         NEW s \in {"gate", "poll", "select", "passed", "apply", "end"},
         pc' = [pc EXCEPT ![c] = s],
         UNCHANGED <<provider, flags, held, id>>, UNCHANGED envVars,
         s # "end" => flags[c].kind # "request" /\ (flags[c].kind = "execute" => flags[c].approve),
         s \in {"passed", "apply"} => Manual(c) \/ Approved(held[c])
  PROVE  BindInv'
<1>1. pc \in [Cmds -> Steps]
  BY DEF TypeInv, TypeOK
<1>2. KindOf'
  BY <1>1 DEF BindInv, KindOf
<1>3. FileBound' /\ ShownBound' /\ AnswerBound' /\ AppliedPlanWasApproved'
  BY DEF envVars, BindInv, FileBound, Bound, ShownBound, AnswerBound, AppliedPlanWasApproved
<1>4. HeldBound'
  BY <1>1 DEF envVars, BindInv, HeldBound, Bound
<1>5. Cleared'
  BY <1>1 DEF envVars, BindInv, Cleared, Manual, Approved
<1> QED
  BY <1>2, <1>3, <1>4, <1>5 DEF BindInv

(* propose and request: an id that nobody owns is taken for a plan. *)
LEMMA TakeBound ==
  ASSUME TypeInv, BindInv, FreshIds, NEW c \in Cmds, flags[c].kind # "execute", pc[c] = "start",
         NEW i \in Ids, NEW p \in Stored, TakeId(c, i, p.plan), held' = [held EXCEPT ![c] = p],
         NEW s \in {"write", "request"}, pc' = [pc EXCEPT ![c] = s],
         s = "write" <=> flags[c].kind = "propose",
         p.id # None => (p.id = i \/ Bound(p)),
         flags[c].kind = "propose" => p.id = i,
         UNCHANGED <<provider, flags, planFile, answers, shown, approvedAt, applied>>
  PROVE  BindInv'
<1>a. TypeOK
  BY DEF TypeInv
<1>b. p.plan \in Plans /\ p.plan # None
  BY StoredFields, GateAssumption
<1>1. owner[i] = None /\ owner' = [owner EXCEPT ![i] = p.plan] /\ id' = [id EXCEPT ![c] = i]
  BY <1>a, FlagFields DEF TakeId, TypeOK
<1>2. \A j \in Ids : owner[j] # None => owner'[j] = owner[j]
  BY <1>1, <1>a DEF TypeOK
<1>3. owner'[i] = p.plan
  BY <1>1, <1>a DEF TypeOK
<1>4. KindOf'
  BY <1>a DEF TypeOK, BindInv, KindOf
<1>5. FileBound'
  <2>1. planFile \in Stored /\ planFile.plan # None
    BY <1>a, StoredFields, GateAssumption DEF TypeOK
  <2> QED
    BY <1>2, <2>1, BoundKept DEF BindInv, FileBound, Bound
<1>6. ShownBound'
  BY <1>2, <1>a DEF TypeOK, BindInv, ShownBound
<1>7. AnswerBound' /\ AppliedPlanWasApproved'
  BY DEF BindInv, AnswerBound, AppliedPlanWasApproved
<1>8. Cleared'
  BY <1>a DEF TypeOK, BindInv, Cleared, Manual, Approved
<1>9. HeldBound'
  <2> SUFFICES ASSUME NEW d \in Cmds, pc'[d] \notin {"start", "end"}
               PROVE  /\ Bound(held[d])'
                      /\ pc'[d] \in {"write", "request", "writeback"} => owner'[id'[d]] = held'[d].plan
                      /\ flags'[d].kind # "request" => held'[d].id \in {None, id'[d]}
    BY DEF HeldBound
  <2>1. CASE d = c
    <3>1. held'[c] = p /\ id'[c] = i
      BY <1>1, <1>a DEF TypeOK
    <3>2. p.id # None => owner'[p.id] = p.plan
      BY <1>2, <1>3, <1>b, BoundKept
    <3>3. flags[c].kind # "request" => flags[c].kind = "propose"
      BY <1>a, FlagFields, GateAssumption DEF TypeOK
    <3> QED
      BY <2>1, <3>1, <3>2, <3>3, <1>3 DEF Bound
  <2>2. CASE d # c
    <3>1. pc'[d] = pc[d] /\ held'[d] = held[d] /\ id'[d] = id[d]
      BY <2>2, <1>1, <1>a DEF TypeOK
    <3>2. held[d] \in Stored /\ held[d].plan # None /\ id[d] \in Ids
      BY <3>1, StoredFields, GateAssumption DEF TypeInv, Busy
    <3>3. Bound(held[d]) /\ (pc[d] \in {"write", "request", "writeback"} => owner[id[d]] = held[d].plan)
          /\ (flags[d].kind # "request" => held[d].id \in {None, id[d]})
      BY <3>1 DEF BindInv, HeldBound
    <3>4. held[d].id # None => owner'[held[d].id] = held[d].plan
      BY <3>2, <3>3, <1>2, BoundKept
    <3> QED
      BY <3>1, <3>2, <3>3, <3>4, <1>2 DEF Bound
  <2> QED
    BY <2>1, <2>2
<1> QED
  BY <1>4, <1>5, <1>6, <1>7, <1>8, <1>9 DEF BindInv

(* The message shows the owner of its id; an answer that was kept was to it. *)
LEMMA RegisterBound ==
  ASSUME TypeInv, BindInv, NEW j \in Ids, NEW k \in Plans, Register(j, k),
         owner[j] \in {None, k}, owner'[j] = k,
         \A i \in Ids : owner[i] # None => owner'[i] = owner[i],
         UNCHANGED approvedAt
  PROVE  ShownBound' /\ AnswerBound'
<1>a. TypeOK
  BY DEF TypeInv
<1>1. \A i \in Ids : shown'[i] = IF i = j THEN k ELSE shown[i]
  BY <1>a DEF Register, TypeOK
<1>2. ShownBound'
  BY <1>1 DEF BindInv, ShownBound
<1>3. \A i \in Ids : answers'[i] = "approved" => answers[i] = "approved"
  BY <1>a DEF Register, Ledger!Request, TypeOK
<1>4. \A i \in Ids : answers[i] = "approved" =>
                      shown[i] # None /\ shown[i] = owner[i] /\ approvedAt[<<i, shown[i]>>] # None
  BY DEF BindInv, AnswerBound, ShownBound
<1>5. \A i \in Ids : answers[i] = "approved" => shown'[i] = shown[i]
  BY <1>1, <1>4
<1>6. AnswerBound'
  BY <1>3, <1>4, <1>5 DEF AnswerBound
<1> QED
  BY <1>2, <1>6

LEMMA RequestBound ==
  ASSUME TypeInv, BindInv, NEW c \in Cmds, Request(c)
  PROVE  BindInv'
<1>a. TypeOK /\ pc[c] = "request"
  BY DEF TypeInv, Request, Goto
<1>b. /\ pc' = [pc EXCEPT ![c] = IF flags[c].kind = "request" THEN "writeback" ELSE "notify"]
      /\ UNCHANGED <<provider, flags, clock, held, planFile, approvedAt, applied>>
  BY DEF Request, Goto
<1>c. held[c].plan \in Plans /\ held[c].plan # None /\ id[c] \in Ids /\ owner[id[c]] = held[c].plan
  BY <1>a, StoredFields, GateAssumption DEF TypeInv, Busy, BindInv, HeldBound
<1>d. flags[c].kind \in {"propose", "request"}
  BY <1>a, FlagFields, GateAssumption DEF BindInv, KindOf, TypeOK
<1>1. /\ \A i \in Ids : owner[i] # None => owner'[i] = owner[i]
      /\ \A d \in Cmds : d # c => id'[d] = id[d]
      /\ owner'[id'[c]] = held[c].plan
      /\ flags[c].kind # "request" => id'[c] = id[c]
      /\ ShownBound' /\ AnswerBound'
  <2>1. CASE UNCHANGED <<id, answers, shown, owner>>
    BY <1>b, <1>c, <2>1 DEF BindInv, ShownBound, AnswerBound
  <2>2. CASE \E j \in Aliases(c) :
               /\ Register(j, held[c].plan)
               /\ owner' = [owner EXCEPT ![j] = held[c].plan]
               /\ id' = IF flags[c].kind = "request" THEN [id EXCEPT ![c] = j] ELSE id
    <3>1. PICK j \in Aliases(c) :
            /\ Register(j, held[c].plan)
            /\ owner' = [owner EXCEPT ![j] = held[c].plan]
            /\ id' = IF flags[c].kind = "request" THEN [id EXCEPT ![c] = j] ELSE id
      BY <2>2
    <3>2. j \in Ids /\ owner[j] \in {None, held[c].plan}
      BY <1>c DEF Aliases
    <3>3. \A i \in Ids : owner'[i] = IF i = j THEN held[c].plan ELSE owner[i]
      BY <3>1, <1>a DEF TypeOK
    <3>4. \A i \in Ids : owner[i] # None => owner'[i] = owner[i]
      BY <3>2, <3>3
    <3>5. ShownBound' /\ AnswerBound'
      BY <3>1, <3>2, <3>3, <3>4, <1>b, <1>c, RegisterBound
    <3>6. \A d \in Cmds : d # c => id'[d] = id[d]
      BY <3>1, <1>a DEF TypeOK
    <3>7. id'[c] = IF flags[c].kind = "request" THEN j ELSE id[c]
      BY <3>1, <1>a DEF TypeOK
    <3>8. owner'[id[c]] = held[c].plan /\ owner'[j] = held[c].plan
      BY <3>2, <3>3, <3>4, <1>c
    <3>9. owner'[id'[c]] = held[c].plan
      BY <3>7, <3>8
    <3> QED
      BY <3>4, <3>5, <3>6, <3>7, <3>9
  <2> QED
    BY <2>1, <2>2 DEF Request
<1>2. KindOf'
  BY <1>a, <1>b, <1>d DEF TypeOK, BindInv, KindOf
<1>3. FileBound'
  <2>1. planFile \in Stored /\ planFile.plan # None
    BY <1>a, StoredFields, GateAssumption DEF TypeOK
  <2> QED
    BY <1>1, <1>b, <2>1, BoundKept DEF BindInv, FileBound, Bound
<1>4. Cleared' /\ AppliedPlanWasApproved'
  BY <1>a, <1>b DEF TypeOK, BindInv, Cleared, Manual, Approved, AppliedPlanWasApproved
<1>5. HeldBound'
  <2> SUFFICES ASSUME NEW d \in Cmds, pc'[d] \notin {"start", "end"}
               PROVE  /\ Bound(held[d])'
                      /\ pc'[d] \in {"write", "request", "writeback"} => owner'[id'[d]] = held'[d].plan
                      /\ flags'[d].kind # "request" => held'[d].id \in {None, id'[d]}
    BY DEF HeldBound
  <2>1. pc[d] \notin {"start", "end"}
    BY <1>a, <1>b DEF TypeOK
  <2>2. held[d] \in Stored /\ held[d].plan # None /\ id[d] \in Ids
    BY <2>1, StoredFields, GateAssumption DEF TypeInv, Busy
  <2>3. Bound(held[d]) /\ (pc[d] \in {"write", "request", "writeback"} => owner[id[d]] = held[d].plan)
        /\ (flags[d].kind # "request" => held[d].id \in {None, id[d]})
    BY <2>1 DEF BindInv, HeldBound
  <2>4. held[d].id # None => owner'[held[d].id] = held[d].plan
    BY <2>2, <2>3, <1>1, BoundKept
  <2>5. d # c => pc'[d] = pc[d]
    BY <1>a, <1>b DEF TypeOK
  <2>6. owner[id[d]] = held[d].plan => owner'[id[d]] = held[d].plan
    BY <2>2, <1>1
  <2>7. CASE d = c
    BY <2>3, <2>4, <2>7, <1>1, <1>b DEF Bound
  <2>8. CASE d # c
    BY <2>3, <2>4, <2>5, <2>6, <2>8, <1>1, <1>b DEF Bound
  <2> QED
    BY <2>7, <2>8
<1> QED
  BY <1>1, <1>2, <1>3, <1>4, <1>5 DEF BindInv

LEMMA RequestFailsBound ==
  ASSUME TypeInv, BindInv, NEW c \in Cmds, RequestFails(c)
  PROVE  BindInv'
<1>a. /\ TypeOK /\ pc[c] = "request" /\ pc' = [pc EXCEPT ![c] = "end"]
      /\ UNCHANGED <<provider, flags, clock, held, id, planFile, owner, approvedAt, applied>>
  BY DEF TypeInv, RequestFails, Exit
<1>b. held[c].plan \in Plans /\ id[c] \in Ids /\ owner[id[c]] = held[c].plan
  BY <1>a, StoredFields DEF TypeInv, Busy, BindInv, HeldBound
<1>1. ShownBound' /\ AnswerBound'
  <2>1. CASE UNCHANGED <<answers, shown>>
    BY <1>a, <2>1 DEF BindInv, ShownBound, AnswerBound
  <2>2. CASE Ledger!Request(id[c]) /\ UNCHANGED shown
    BY <1>a, <2>2 DEF TypeOK, Ledger!Request, BindInv, ShownBound, AnswerBound
  <2>3. CASE Register(id[c], held[c].plan)
    BY <1>a, <1>b, <2>3, RegisterBound
  <2> QED
    BY <2>1, <2>2, <2>3 DEF RequestFails
<1>2. KindOf' /\ FileBound' /\ HeldBound' /\ Cleared' /\ AppliedPlanWasApproved'
  BY <1>a DEF TypeOK, BindInv, KindOf, FileBound, HeldBound, Bound, Cleared, Manual, Approved,
              AppliedPlanWasApproved
<1> QED
  BY <1>1, <1>2 DEF BindInv

LEMMA LoadBound ==
  ASSUME TypeInv, BindInv, NEW c \in Cmds, Load(c)
  PROVE  BindInv'
<1>a. TypeOK /\ pc[c] = "start" /\ flags[c].kind = "execute"
      /\ UNCHANGED <<provider, flags, envVars>>
  BY DEF TypeInv, Load
<1>1. FileBound' /\ ShownBound' /\ AnswerBound' /\ AppliedPlanWasApproved'
  BY <1>a DEF envVars, BindInv, FileBound, Bound, ShownBound, AnswerBound, AppliedPlanWasApproved
<1>2. CASE Accepts(flags[c], planFile) /\ pc' = [pc EXCEPT ![c] = "gate"]
           /\ held' = [held EXCEPT ![c] = planFile] /\ id' = [id EXCEPT ![c] = flags[c].given]
  <2>1. KindOf'
    BY <1>a, <1>2 DEF TypeOK, BindInv, KindOf, Accepts
  <2>2. HeldBound'
    BY <1>a, <1>2 DEF envVars, TypeOK, BindInv, HeldBound, FileBound, Bound, Accepts
  <2>3. Cleared'
    BY <1>a, <1>2 DEF envVars, TypeOK, BindInv, Cleared, Manual, Approved
  <2> QED
    BY <1>1, <2>1, <2>2, <2>3 DEF BindInv
<1>3. CASE pc' = [pc EXCEPT ![c] = "end"] /\ UNCHANGED <<held, id>>
  <2>1. KindOf' /\ HeldBound' /\ Cleared'
    BY <1>a, <1>3 DEF envVars, TypeOK, BindInv, KindOf, HeldBound, Bound, Cleared, Manual, Approved
  <2> QED
    BY <1>1, <2>1 DEF BindInv
<1> QED
  BY <1>2, <1>3 DEF Load, Goto, Exit

(* The plan file is replaced by one that carries an id of its plan. *)
LEMMA SaveBound ==
  ASSUME TypeInv, BindInv, NEW c \in Cmds, WritePlan(c) \/ WriteBack(c)
  PROVE  BindInv'
<1>a. TypeOK /\ pc[c] \in {"write", "writeback"}
      /\ \/ (pc' = [pc EXCEPT ![c] = "request"] /\ pc[c] = "write")
         \/ pc' = [pc EXCEPT ![c] = "end"]
      /\ UNCHANGED <<provider, flags, held, id, answers, shown, owner, approvedAt, applied>>
  BY DEF TypeInv, WritePlan, WriteBack, Goto, Exit
<1>1. /\ held[c] \in Stored /\ id[c] \in Ids
      /\ Bound(held[c]) /\ owner[id[c]] = held[c].plan
  BY <1>a DEF TypeInv, Busy, BindInv, HeldBound
<1>2. Bound([held[c] EXCEPT !.id = id[c]])
  BY <1>1 DEF Bound, Stored
<1>3. FileBound'
  BY <1>a, <1>1, <1>2 DEF WritePlan, WriteBack, BindInv, FileBound, Bound
<1>4. KindOf'
  BY <1>a DEF TypeOK, BindInv, KindOf
<1>5. HeldBound'
  BY <1>a DEF TypeOK, BindInv, HeldBound, Bound
<1>6. ShownBound' /\ AnswerBound' /\ Cleared' /\ AppliedPlanWasApproved'
  BY <1>a DEF TypeOK, BindInv, ShownBound, AnswerBound, Cleared, Manual, Approved, AppliedPlanWasApproved
<1> QED
  BY <1>3, <1>4, <1>5, <1>6 DEF BindInv

(* Behind the gate the plan in memory was approved. *)
LEMMA ApplyBound ==
  ASSUME TypeInv, BindInv, NEW c \in Cmds, Apply(c)
  PROVE  BindInv'
<1>a. /\ TypeOK /\ pc[c] = "apply" /\ pc' = [pc EXCEPT ![c] = "end"]
      /\ applied' \subseteq applied \cup {[cmd |-> c, plan |-> held[c], id |-> id[c]]}
      /\ UNCHANGED <<provider, flags, held, id, planFile, answers, shown, owner, asked, approvedAt>>
  BY DEF TypeInv, Apply, Exit
<1>1. Manual(c) \/ Approved(held[c])
  BY <1>a DEF BindInv, Cleared
<1>2. AppliedPlanWasApproved'
  <2> SUFFICES ASSUME NEW a \in applied'
               PROVE  \/ provider = "manual" /\ flags[a.cmd].kind = "execute" /\ flags[a.cmd].approve
                      \/ a.plan.id = None
                      \/ approvedAt[<<a.plan.id, a.plan.plan>>] # None
    BY <1>a DEF AppliedPlanWasApproved
  <2>1. CASE a \in applied
    BY <2>1 DEF BindInv, AppliedPlanWasApproved
  <2>2. CASE a.cmd = c /\ a.plan = held[c]
    BY <2>2, <1>1 DEF Manual, Approved
  <2> QED
    BY <2>1, <2>2, <1>a
<1>3. KindOf' /\ FileBound' /\ HeldBound' /\ ShownBound' /\ AnswerBound' /\ Cleared'
  BY <1>a DEF TypeOK, BindInv, KindOf, FileBound, HeldBound, Bound, ShownBound, AnswerBound,
              Cleared, Manual, Approved
<1> QED
  BY <1>2, <1>3 DEF BindInv

(* An answer approves the plan that is shown, and revokes no approval in approvedAt. *)
LEMMA AnswerBinds ==
  ASSUME TypeInv, BindInv, NEW i \in Ids, NEW d \in {"approved", "denied"}, Answer(i, d)
  PROVE  BindInv'
<1>a. TypeOK /\ shown[i] # None /\ answers' = [answers EXCEPT ![i] = d]
      /\ UNCHANGED <<provider, flags, clock, pc, held, id, planFile, shown, owner, applied>>
  BY DEF TypeInv, Answer, Ledger!Decide, cmdVars
<1>1. <<i, shown[i]>> \in Ids \X Plans
  BY <1>a DEF TypeOK
<1>2. clock # None
  BY <1>a, GateAssumption DEF TypeOK
<1>3. \A p \in Ids \X Plans : approvedAt[p] # None => approvedAt'[p] # None
  BY <1>a, <1>1, <1>2 DEF Answer, TypeOK
<1>4. d = "approved" => approvedAt'[<<i, shown[i]>>] # None
  BY <1>a, <1>1, <1>2 DEF Answer, TypeOK
<1>5. AnswerBound'
  <2> SUFFICES ASSUME NEW j \in Ids, answers'[j] = "approved"
               PROVE  shown[j] # None /\ approvedAt'[<<j, shown[j]>>] # None
    BY <1>a DEF AnswerBound
  <2>1. CASE j = i
    BY <2>1, <1>a, <1>4 DEF TypeOK
  <2>2. CASE j # i
    <3>1. shown[j] # None /\ approvedAt[<<j, shown[j]>>] # None
      BY <2>2, <1>a DEF TypeOK, BindInv, AnswerBound
    <3>2. <<j, shown[j]>> \in Ids \X Plans
      BY <3>1, <1>a DEF TypeOK
    <3> QED
      BY <3>1, <3>2, <1>3
  <2> QED
    BY <2>1, <2>2
<1>6. \A p \in Stored : Approved(p) => (p.id # None => approvedAt'[<<p.id, p.plan>>] # None)
  BY <1>3, StoredFields DEF Approved
<1>7. Cleared'
  <2> SUFFICES ASSUME NEW c \in Cmds, pc[c] \in {"passed", "apply"}
               PROVE  Manual(c) \/ (held[c].id # None => approvedAt'[<<held[c].id, held[c].plan>>] # None)
    BY <1>a DEF Cleared, Manual, Approved
  <2>1. held[c] \in Stored
    BY DEF TypeInv, Busy
  <2> QED
    BY <2>1, <1>6 DEF BindInv, Cleared
<1>8. AppliedPlanWasApproved'
  <2> SUFFICES ASSUME NEW a \in applied
               PROVE  \/ provider = "manual" /\ flags[a.cmd].kind = "execute" /\ flags[a.cmd].approve
                      \/ a.plan.id = None
                      \/ approvedAt'[<<a.plan.id, a.plan.plan>>] # None
    BY <1>a DEF AppliedPlanWasApproved
  <2>1. a.plan \in Stored
    BY <1>a DEF TypeOK
  <2> QED
    BY <2>1, <1>6 DEF BindInv, AppliedPlanWasApproved, Approved
<1>9. KindOf' /\ FileBound' /\ HeldBound' /\ ShownBound'
  BY <1>a DEF BindInv, KindOf, FileBound, HeldBound, Bound, ShownBound
<1> QED
  BY <1>5, <1>7, <1>8, <1>9 DEF BindInv

LEMMA IdleBound ==
  ASSUME BindInv, UNCHANGED <<provider, flags, pc, held, id, envVars>>
  PROVE  BindInv'
BY DEF envVars, BindInv, KindOf, FileBound, HeldBound, Bound, ShownBound, AnswerBound, Cleared,
       Manual, Approved, AppliedPlanWasApproved

LEMMA StepBound ==
  ASSUME TypeInv, BindInv, FreshIds, "manual" \in Providers => "propose" \notin Kinds,
         NEW c \in Cmds, Step(c)
  PROVE  BindInv'
<1>a. TypeOK /\ flags[c].kind \in Kinds
  BY FlagFields DEF TypeInv, TypeOK
<1>1. CASE Propose(c)
  <2>1. PICK k \in Plans, i \in Ids :
          TakeId(c, i, k) /\ held' = [held EXCEPT ![c] = [plan |-> k, id |-> i]]
    BY <1>1 DEF Propose
  <2>2. PICK p \in Stored : p = [plan |-> k, id |-> i]
    BY DEF Stored
  <2>3. TakeId(c, i, p.plan) /\ held' = [held EXCEPT ![c] = p] /\ p.id = i
    BY <2>1, <2>2
  <2> QED
    BY <1>1, <2>3, TakeBound DEF Propose, Goto
<1>2. CASE LoadForRequest(c)
  <2>1. PICK i \in Ids : TakeId(c, i, planFile.plan)
    BY <1>2 DEF LoadForRequest
  <2>2. planFile \in Stored /\ Bound(planFile)
    BY <1>a DEF TypeOK, BindInv, FileBound
  <2> QED
    BY <1>2, <2>1, <2>2, TakeBound DEF LoadForRequest, Goto
<1>3. CASE WritePlan(c) \/ WriteBack(c)
  BY <1>3, SaveBound
<1>4. CASE Load(c)
  BY <1>4, LoadBound
<1>5. CASE Request(c)
  BY <1>5, RequestBound
<1>6. CASE RequestFails(c)
  BY <1>6, RequestFailsBound
<1>7. CASE Notify(c)
  BY <1>7, MoveBound DEF Notify, Goto, Exit, BindInv, KindOf
<1>8. CASE Gate(c)
  <2>1. flags[c].kind # "request" /\ (flags[c].kind = "execute" => flags[c].approve)
    BY <1>8 DEF Gate, Goto, BindInv, KindOf
  <2>2. provider = "manual" => Manual(c)
    BY <2>1, <1>a, GateAssumption DEF Manual, TypeOK
  <2> QED
    BY <1>8, <2>1, <2>2, MoveBound DEF Gate, Goto
<1>9. CASE Poll(c)
  <2>1. pc[c] = "poll" /\ flags[c].kind # "request" /\ (flags[c].kind = "execute" => flags[c].approve)
    BY <1>9 DEF Poll, BindInv, KindOf
  <2>2. held[c] \in Stored /\ id[c] \in Ids /\ held[c].plan # None
    BY <2>1, StoredFields, GateAssumption DEF TypeInv, Busy
  <2>3. Bound(held[c]) /\ held[c].id \in {None, id[c]}
    BY <2>1 DEF BindInv, HeldBound
  <2>4. answers[id[c]] = "approved" => Approved(held[c])
    BY <2>2, <2>3 DEF BindInv, AnswerBound, ShownBound, Approved, Bound
  <2>5. CASE answers[id[c]] = "approved" /\ pc' = [pc EXCEPT ![c] = "passed"]
    BY <1>9, <2>1, <2>4, <2>5, MoveBound DEF Poll
  <2>6. CASE \E s \in {"select", "end"} : pc' = [pc EXCEPT ![c] = s]
    BY <1>9, <2>1, <2>6, MoveBound DEF Poll
  <2> QED
    BY <1>9, <2>5, <2>6 DEF Poll, Goto, Exit, Ledger!StatusIn
<1>10. CASE PollFails(c) \/ TimeOut(c) \/ ApplyExpired(c)
  BY <1>10, MoveBound DEF PollFails, TimeOut, ApplyExpired, Exit
<1>11. CASE PollAgain(c)
  BY <1>11, MoveBound DEF PollAgain, Goto, BindInv, KindOf
<1>12. CASE Pass(c)
  BY <1>12, MoveBound DEF Pass, Goto, Exit, BindInv, KindOf, Cleared
<1>13. CASE Apply(c)
  BY <1>13, ApplyBound
<1> QED
  BY <1>1, <1>2, <1>3, <1>4, <1>5, <1>6, <1>7, <1>8, <1>9, <1>10, <1>11, <1>12, <1>13 DEF Step, WaitStep

(***************************************************************************)
(* No plan is applied without the approval of an operator who was shown    *)
(* it, for any number of commands, ids and plans, if ids are not used      *)
(* twice and the commands that make a plan and apply it do not run with    *)
(* the manual provider (with which GateManual shows they need no approval).*)
(***************************************************************************)
THEOREM OnlyApprovedPlansAreApplied ==
  ASSUME FreshIds, "manual" \in Providers => "propose" \notin Kinds
  PROVE  Spec => []AppliedPlanWasApproved
<1>1. Init => BindInv
  BY InitBound
<1>2. TypeInv /\ BindInv /\ [Next]_vars => BindInv'
  <2> SUFFICES ASSUME TypeInv, BindInv, [Next]_vars PROVE BindInv'
    OBVIOUS
  <2>1. ASSUME NEW c \in Cmds, Step(c) PROVE BindInv'
    BY <2>1, StepBound
  <2>2. ASSUME NEW i \in Ids, NEW d \in {"approved", "denied"}, Answer(i, d) PROVE BindInv'
    BY <2>2, AnswerBinds
  <2>3. CASE Tick \/ UNCHANGED vars
    BY <2>3, IdleBound DEF Tick, vars, cmdVars
  <2> QED
    BY <2>1, <2>2, <2>3 DEF Next
<1>3. BindInv => AppliedPlanWasApproved
  BY DEF BindInv
<1> QED
  BY <1>1, <1>2, <1>3, Typed, PTL DEF Spec

-----------------------------------------------------------------------------
(***************************************************************************)
(* Why a wait that times out missed no answer.  Under fresh ids only the   *)
(* command that made an id up requests it, and only once, so an answer to  *)
(* it is never undone by a later request.  A poll that finds the request   *)
(* pending therefore shows that nothing was approved until now, and at     *)
(* most one tick passes before the command polls again or gives up.        *)
(***************************************************************************)
AskedOwn == \A c \in Cmds : asked[c] \in {None, id[c]} /\ (pc[c] = "start" => asked[c] = None)

Asking(c) == pc[c] \in {"write", "request"}

NewIds ==
  /\ \A i \in Ids : owner[i] = None => shown[i] = None
  /\ \A c \in Cmds : Asking(c) => owner[id[c]] # None /\ shown[id[c]] = None
  /\ \A c, d \in Cmds : c # d /\ Asking(c) /\ Asking(d) => id[c] # id[d]

AnswerKept ==
  \A p \in Ids \X Plans :
    approvedAt[p] # None => shown[p[1]] # None /\ answers[p[1]] \in {"approved", "denied"}

Recent ==
  \A c \in Cmds : pc[c] = "select" =>
    \A k \in Plans : approvedAt[<<id[c], k>>] # None =>
      approvedAt[<<id[c], k>>] + (IF ticked[c] THEN 1 ELSE 0) >= clock

Missed ==
  \A c \in Cmds : exit[c] = "timeout" =>
    /\ pc[c] = "end" /\ clock >= deadline[c] /\ id[c] \in Ids /\ held[c] \in Stored
    /\ \A k \in Plans : approvedAt[<<id[c], k>>] # None =>
         approvedAt[<<id[c], k>>] + 1 >= deadline[c]

WaitInv == AskedOwn /\ NewIds /\ AnswerKept /\ Recent /\ Missed

(* A step of a command changes nothing of the others. *)
Alone(c) ==
  \A d \in Cmds \ {c} :
    /\ pc'[d] = pc[d] /\ held'[d] = held[d] /\ id'[d] = id[d] /\ exit'[d] = exit[d]
    /\ deadline'[d] = deadline[d] /\ ticked'[d] = ticked[d] /\ asked'[d] = asked[d]

LEMMA StepAlone ==
  ASSUME TypeOK, NEW c \in Cmds, Step(c)
  PROVE  Alone(c) /\ pc[c] # "end" /\ UNCHANGED <<flags, clock, approvedAt>>
<1> USE DEF Alone, Goto, Exit
<1>1. CASE Propose(c) \/ LoadForRequest(c)
  BY <1>1 DEF Propose, LoadForRequest, TakeId, TypeOK
<1>2. CASE WritePlan(c) \/ WriteBack(c) \/ RequestFails(c)
  BY <1>2 DEF WritePlan, WriteBack, RequestFails, TypeOK
<1>3. CASE Load(c)
  BY <1>3 DEF Load, envVars, TypeOK
<1>4. CASE Request(c)
  BY <1>4 DEF Request, TypeOK
<1>5. CASE Notify(c) \/ Gate(c)
  BY <1>5 DEF Notify, Gate, envVars, TypeOK
<1>6. CASE Poll(c) \/ PollFails(c) \/ TimeOut(c) \/ PollAgain(c)
  BY <1>6 DEF Poll, PollFails, TimeOut, PollAgain, envVars, TypeOK
<1>7. CASE Pass(c) \/ ApplyExpired(c)
  BY <1>7 DEF Pass, ApplyExpired, envVars, TypeOK
<1>8. CASE Apply(c)
  BY <1>8 DEF Apply, TypeOK
<1> QED
  BY <1>1, <1>2, <1>3, <1>4, <1>5, <1>6, <1>7, <1>8 DEF Step, WaitStep

LEMMA InitWait == ASSUME Init PROVE WaitInv
BY DEF Init, Ledger!Init, WaitInv, AskedOwn, NewIds, Asking, AnswerKept, Recent, Missed

(* A command that neither waits nor gives up after its step. *)
LEMMA OthersWait ==
  ASSUME Recent, Missed, NEW c \in Cmds, Alone(c), UNCHANGED <<clock, approvedAt>>,
         pc'[c] # "select", exit'[c] # "timeout"
  PROVE  Recent' /\ Missed'
<1>1. Recent'
  BY DEF Recent, Alone
<1>2. Missed'
  BY DEF Missed, Alone
<1> QED
  BY <1>1, <1>2

(* Steps that register nothing and take no id. *)
LEMMA IdsKept ==
  ASSUME TypeOK, AskedOwn, NewIds, AnswerKept, NEW c \in Cmds, Alone(c),
         UNCHANGED <<answers, shown, owner, approvedAt>>,
         Asking(c)' => Asking(c), pc'[c] # "start",
         asked'[c] = asked[c], id'[c] = id[c] \/ (pc[c] = "start" /\ ~Asking(c)')
  PROVE  AskedOwn' /\ NewIds' /\ AnswerKept'
<1>1. AskedOwn'
  BY DEF AskedOwn, Alone, TypeOK
<1>2. \A d \in Cmds : Asking(d)' => Asking(d) /\ id'[d] = id[d]
  BY DEF Asking, Alone
<1>3. NewIds'
  BY <1>2 DEF NewIds
<1>4. AnswerKept'
  BY DEF AnswerKept
<1> QED
  BY <1>1, <1>3, <1>4

(* An id that nobody owns is taken. *)
LEMMA TakeNew ==
  ASSUME TypeInv, WaitInv, NEW c \in Cmds, Alone(c), pc[c] = "start", Asking(c)',
         NEW i \in Ids, owner[i] = None, NEW k \in Plans,
         id' = [id EXCEPT ![c] = i], owner' = [owner EXCEPT ![i] = k],
         UNCHANGED <<answers, shown, asked, approvedAt>>
  PROVE  AskedOwn' /\ NewIds' /\ AnswerKept'
<1>a. TypeOK
  BY DEF TypeInv
<1>b. k # None
  BY GateAssumption
<1>1. AskedOwn'
  BY <1>a DEF WaitInv, AskedOwn, Alone, Asking, TypeOK
<1>2. AnswerKept'
  BY DEF WaitInv, AnswerKept
<1>3. id'[c] = i /\ \A j \in Ids : owner'[j] = IF j = i THEN k ELSE owner[j]
  BY <1>a DEF TypeOK
<1>4. \A d \in Cmds \ {c} : (Asking(d)' <=> Asking(d)) /\ id'[d] = id[d]
  BY DEF Asking, Alone
<1>5. \A d \in Cmds : Asking(d) => id[d] \in Ids /\ owner[id[d]] # None /\ shown[id[d]] = None /\ id[d] # i
  BY DEF TypeInv, Busy, Asking, WaitInv, NewIds
<1>6. \A j \in Ids : owner'[j] = None => shown'[j] = None
  BY <1>b, <1>3 DEF WaitInv, NewIds
<1>7. \A d \in Cmds : Asking(d)' => owner'[id'[d]] # None /\ shown'[id'[d]] = None
  <2> SUFFICES ASSUME NEW d \in Cmds, Asking(d)'
               PROVE  owner'[id'[d]] # None /\ shown'[id'[d]] = None
    OBVIOUS
  <2>1. CASE d = c
    BY <2>1, <1>b, <1>3 DEF WaitInv, NewIds
  <2>2. CASE d # c
    BY <2>2, <1>3, <1>4, <1>5
  <2> QED
    BY <2>1, <2>2
<1>8. \A d, e \in Cmds : d # e /\ Asking(d)' /\ Asking(e)' => id'[d] # id'[e]
  <2> SUFFICES ASSUME NEW d \in Cmds, NEW e \in Cmds, d # e, Asking(d)', Asking(e)'
               PROVE  id'[d] # id'[e]
    OBVIOUS
  <2>1. CASE d = c \/ e = c
    BY <2>1, <1>3, <1>4, <1>5
  <2>2. CASE d # c /\ e # c
    BY <2>2, <1>4 DEF WaitInv, NewIds
  <2> QED
    BY <2>1, <2>2
<1>9. NewIds'
  BY <1>6, <1>7, <1>8 DEF NewIds
<1> QED
  BY <1>1, <1>2, <1>9

(* The id of a request is registered, for the first time. *)
LEMMA RegisterNew ==
  ASSUME TypeInv, WaitInv, NEW c \in Cmds, Alone(c), pc[c] = "request",
         ~Asking(c)', pc'[c] # "start", id'[c] = id[c], asked'[c] \in {asked[c], id[c]},
         \A i \in Ids : i # id[c] => shown'[i] = shown[i] /\ answers'[i] = answers[i],
         \A i \in Ids : owner[i] # None => owner'[i] # None,
         \A i \in Ids : owner'[i] = None => owner[i] = None,
         UNCHANGED approvedAt
  PROVE  AskedOwn' /\ NewIds' /\ AnswerKept'
<1>a. Asking(c) /\ id[c] \in Ids
  BY DEF Asking, TypeInv, Busy
<1>1. AskedOwn'
  BY DEF WaitInv, AskedOwn, Alone
<1>2. AnswerKept'
  <2> SUFFICES ASSUME NEW p \in Ids \X Plans, approvedAt[p] # None
               PROVE  shown'[p[1]] # None /\ answers'[p[1]] \in {"approved", "denied"}
    BY DEF AnswerKept
  <2>1. p[1] \in Ids /\ shown[p[1]] # None /\ answers[p[1]] \in {"approved", "denied"}
    BY DEF WaitInv, AnswerKept
  <2>2. p[1] # id[c]
    BY <2>1, <1>a DEF WaitInv, NewIds
  <2> QED
    BY <2>1, <2>2
<1>3. \A d \in Cmds : Asking(d)' => Asking(d) /\ id'[d] = id[d] /\ d # c /\ id[d] \in Ids
  BY DEF Asking, Alone, TypeInv, Busy
<1>4. NewIds'
  <2>1. \A i \in Ids : owner'[i] = None => shown'[i] = None
    BY <1>a DEF WaitInv, NewIds
  <2>2. \A d \in Cmds : Asking(d)' => owner'[id'[d]] # None /\ shown'[id'[d]] = None
    BY <1>a, <1>3 DEF WaitInv, NewIds
  <2>3. \A d, e \in Cmds : d # e /\ Asking(d)' /\ Asking(e)' => id'[d] # id'[e]
    BY <1>3 DEF WaitInv, NewIds
  <2> QED
    BY <2>1, <2>2, <2>3 DEF NewIds
<1> QED
  BY <1>1, <1>2, <1>4

(* A poll that finds the request pending shows that nothing was approved.  *)
LEMMA PendingWait ==
  ASSUME TypeInv, WaitInv, NEW c \in Cmds, Alone(c), UNCHANGED <<clock, approvedAt>>,
         pc[c] = "poll", answers[id[c]] \notin {"approved", "denied"},
         id'[c] = id[c], exit'[c] # "timeout"
  PROVE  Recent' /\ Missed'
<1>1. id[c] \in Ids
  BY DEF TypeInv, Busy
<1>2. \A k \in Plans : approvedAt[<<id[c], k>>] = None
  <2> TAKE k \in Plans
  <2>1. <<id[c], k>> \in Ids \X Plans
    BY <1>1
  <2> QED
    BY <2>1 DEF WaitInv, AnswerKept
<1>3. Recent'
  BY <1>2 DEF WaitInv, Recent, Alone
<1>4. Missed'
  BY DEF WaitInv, Missed, Alone
<1> QED
  BY <1>3, <1>4

(* At the deadline what was approved is at most one tick old. *)
LEMMA TimeOutWait ==
  ASSUME TypeInv, WaitInv, NEW c \in Cmds, TimeOut(c), Alone(c)
  PROVE  Recent' /\ Missed'
<1>a. /\ TypeOK /\ pc[c] = "select" /\ clock >= deadline[c]
      /\ pc' = [pc EXCEPT ![c] = "end"] /\ exit' = [exit EXCEPT ![c] = "timeout"]
      /\ UNCHANGED <<held, id, clock, deadline, ticked, approvedAt>>
  BY DEF TypeInv, TimeOut, WaitOver, Exit, envVars
<1>b. clock \in Nat /\ deadline[c] \in Nat /\ id[c] \in Ids /\ held[c] \in Stored
  BY <1>a, GateAssumption DEF TypeInv, Busy, TypeOK
<1>1. Recent'
  BY <1>a DEF TypeOK, WaitInv, Recent
<1>2. \A k \in Plans : approvedAt[<<id[c], k>>] # None =>
                         approvedAt[<<id[c], k>>] + 1 >= deadline[c]
  <2> SUFFICES ASSUME NEW k \in Plans, approvedAt[<<id[c], k>>] # None
               PROVE  approvedAt[<<id[c], k>>] + 1 >= deadline[c]
    OBVIOUS
  <2>1. approvedAt[<<id[c], k>>] \in Nat
    BY <1>a, <1>b, GateAssumption DEF TypeOK
  <2>2. approvedAt[<<id[c], k>>] + (IF ticked[c] THEN 1 ELSE 0) >= clock
    BY <1>a DEF WaitInv, Recent
  <2> QED
    BY <1>a, <1>b, <2>1, <2>2
<1>3. Missed'
  <2> SUFFICES ASSUME NEW d \in Cmds, exit'[d] = "timeout"
               PROVE  /\ pc'[d] = "end" /\ clock >= deadline[d] /\ id[d] \in Ids /\ held[d] \in Stored
                      /\ \A k \in Plans : approvedAt[<<id[d], k>>] # None =>
                           approvedAt[<<id[d], k>>] + 1 >= deadline[d]
    BY <1>a DEF Missed
  <2>1. CASE d = c
    BY <2>1, <1>a, <1>b, <1>2 DEF TypeOK
  <2>2. CASE d # c
    BY <2>2, <1>a DEF TypeOK, WaitInv, Missed
  <2> QED
    BY <2>1, <2>2
<1> QED
  BY <1>1, <1>3

LEMMA StepWait ==
  ASSUME TypeInv, WaitInv, FreshIds, "n8n" \notin Providers, NEW c \in Cmds, Step(c)
  PROVE  WaitInv'
<1>a. TypeOK /\ Alone(c) /\ pc[c] # "end" /\ UNCHANGED <<flags, clock, approvedAt>> /\ provider # "n8n"
  BY StepAlone DEF TypeInv, TypeOK
<1>b. exit[c] # "timeout"
  BY <1>a DEF WaitInv, Missed
<1>c. pc[c] # "start" => id[c] \in Ids /\ held[c] \in Stored /\ held[c].plan \in Plans /\ held[c].plan # None
  BY <1>a, StoredFields, GateAssumption DEF TypeInv, Busy
<1> USE DEF Goto, Exit, WaitInv
<1>1. CASE Propose(c) \/ LoadForRequest(c)
  <2>1. PICK i \in Ids, k \in Plans : TakeId(c, i, k)
    <3>1. planFile.plan \in Plans
      BY <1>a, StoredFields DEF TypeOK
    <3> QED
      BY <1>1, <3>1 DEF Propose, LoadForRequest
  <2>2. flags[c].given = None
    BY <1>1, <1>a, FlagFields DEF Propose, LoadForRequest, TypeOK
  <2>3. owner[i] = None /\ id' = [id EXCEPT ![c] = i] /\ owner' = [owner EXCEPT ![i] = k]
    BY <2>1, <2>2 DEF TakeId
  <2>4. pc[c] = "start" /\ Asking(c)' /\ pc'[c] # "select" /\ exit'[c] # "timeout"
        /\ UNCHANGED <<answers, shown, asked>>
    BY <1>1, <1>a, <1>b DEF Propose, LoadForRequest, Asking, TypeOK
  <2>5. AskedOwn' /\ NewIds' /\ AnswerKept'
    BY <1>a, <2>3, <2>4, TakeNew
  <2>6. Recent' /\ Missed'
    BY <1>a, <2>4, OthersWait
  <2> QED
    BY <2>5, <2>6
<1>2. CASE Request(c) \/ RequestFails(c)
  <2>1. /\ pc[c] = "request" /\ ~Asking(c)' /\ pc'[c] \notin {"start", "select"}
        /\ exit'[c] # "timeout"
    BY <1>2, <1>a, <1>b DEF Request, RequestFails, Asking, TypeOK
  <2>2. /\ id'[c] = id[c] /\ asked'[c] \in {asked[c], id[c]}
        /\ \A i \in Ids : i # id[c] => shown'[i] = shown[i] /\ answers'[i] = answers[i]
        /\ owner' = owner \/ owner' = [owner EXCEPT ![id[c]] = held[c].plan]
    <3>1. \A k \in Plans : Register(id[c], k) =>
            \A i \in Ids : i # id[c] => shown'[i] = shown[i] /\ answers'[i] = answers[i]
      BY <1>a DEF Register, Ledger!Request, TypeOK
    <3>2. CASE Request(c)
      <4>1. Aliases(c) = {id[c]}
        BY <1>a DEF Aliases
      <4> QED
        BY <3>1, <3>2, <4>1, <1>a, <1>c, <2>1 DEF Request, TypeOK
    <3>3. CASE RequestFails(c)
      <4>1. CASE Ledger!Request(id[c]) /\ UNCHANGED shown
        BY <3>3, <4>1, <1>a DEF RequestFails, Ledger!Request, TypeOK
      <4> QED
        BY <3>1, <3>3, <4>1, <1>c, <2>1 DEF RequestFails
    <3> QED
      BY <1>2, <3>2, <3>3
  <2>3. \A i \in Ids : (owner[i] # None => owner'[i] # None) /\ (owner'[i] = None => owner[i] = None)
    BY <1>a, <1>c, <2>1, <2>2 DEF TypeOK
  <2>4. AskedOwn' /\ NewIds' /\ AnswerKept'
    BY <1>a, <2>1, <2>2, <2>3, RegisterNew
  <2>5. Recent' /\ Missed'
    BY <1>a, <2>1, OthersWait
  <2> QED
    BY <2>4, <2>5
<1>3. CASE WritePlan(c)
  <2>1. UNCHANGED <<answers, shown, owner>> /\ pc[c] = "write" /\ pc'[c] = "request"
        /\ asked' = asked /\ id' = id /\ exit' = exit
    BY <1>3, <1>a DEF WritePlan, TypeOK
  <2>2. AskedOwn' /\ NewIds' /\ AnswerKept'
    BY <1>a, <2>1, IdsKept DEF Asking
  <2>3. Recent' /\ Missed'
    BY <1>a, <1>b, <2>1, OthersWait
  <2> QED
    BY <2>2, <2>3
<1>4. CASE TimeOut(c)
  <2>1. UNCHANGED <<answers, shown, owner>> /\ pc'[c] = "end" /\ asked' = asked /\ id' = id
    BY <1>4, <1>a DEF TimeOut, envVars, TypeOK
  <2>2. AskedOwn' /\ NewIds' /\ AnswerKept'
    BY <1>a, <2>1, IdsKept DEF Asking
  <2> QED
    BY <1>4, <1>a, <2>2, TimeOutWait
<1>5. CASE Poll(c)
  <2>1. /\ UNCHANGED <<answers, shown, owner>> /\ asked' = asked /\ id' = id
        /\ pc[c] = "poll" /\ pc'[c] \in {"passed", "select", "end"} /\ exit'[c] # "timeout"
    BY <1>5, <1>a, <1>b DEF Poll, envVars, TypeOK
  <2>2. AskedOwn' /\ NewIds' /\ AnswerKept'
    BY <1>a, <2>1, IdsKept DEF Asking
  <2>3. CASE pc'[c] # "select"
    BY <1>a, <2>1, <2>2, <2>3, OthersWait
  <2>4. CASE pc'[c] = "select"
    <3>1. answers[id[c]] \notin {"approved", "denied"}
      BY <1>5, <2>4, <1>a DEF Poll, Ledger!StatusIn, TypeOK
    <3> QED
      BY <1>a, <2>1, <2>2, <3>1, PendingWait
  <2> QED
    BY <2>3, <2>4
<1>6. CASE Load(c) \/ WriteBack(c) \/ Notify(c) \/ Gate(c) \/ PollFails(c) \/ PollAgain(c)
           \/ Pass(c) \/ Apply(c) \/ ApplyExpired(c)
  <2>1. /\ UNCHANGED <<answers, shown, owner, asked>>
        /\ id'[c] = id[c] \/ pc[c] = "start"
        /\ pc'[c] \notin {"start", "write", "request", "select"} /\ exit'[c] # "timeout"
    <3>1. CASE Load(c)
      BY <3>1, <1>a, <1>b DEF Load, envVars, TypeOK
    <3>2. CASE WriteBack(c) \/ Apply(c)
      BY <3>2, <1>a, <1>b DEF WriteBack, Apply, TypeOK
    <3>3. CASE Notify(c) \/ Gate(c) \/ PollFails(c) \/ PollAgain(c)
      BY <3>3, <1>a, <1>b DEF Notify, Gate, PollFails, PollAgain, envVars, TypeOK
    <3>4. CASE Pass(c) \/ ApplyExpired(c)
      BY <3>4, <1>a, <1>b DEF Pass, ApplyExpired, envVars, TypeOK
    <3> QED
      BY <1>6, <3>1, <3>2, <3>3, <3>4
  <2>2. AskedOwn' /\ NewIds' /\ AnswerKept'
    BY <1>a, <2>1, IdsKept DEF Asking
  <2>3. Recent' /\ Missed'
    BY <1>a, <2>1, OthersWait
  <2> QED
    BY <2>2, <2>3
<1> QED
  BY <1>1, <1>2, <1>3, <1>4, <1>5, <1>6 DEF Step, WaitStep

(* An answer comes now, and decides the id. *)
LEMMA AnswerWait ==
  ASSUME TypeInv, WaitInv, NEW i \in Ids, NEW d \in {"approved", "denied"}, Answer(i, d)
  PROVE  WaitInv'
<1>a. /\ TypeOK /\ shown[i] # None /\ answers' = [answers EXCEPT ![i] = d]
      /\ UNCHANGED <<clock, pc, held, id, exit, deadline, ticked, shown, owner, asked>>
  BY DEF TypeInv, Answer, Ledger!Decide, cmdVars
<1>b. clock \in Nat
  BY <1>a, GateAssumption DEF TypeOK
<1>1. \A p \in Ids \X Plans :
        approvedAt'[p] = approvedAt[p] \/ (p[1] = i /\ approvedAt'[p] = clock)
  BY <1>a DEF Answer, TypeOK
<1>2. AnswerKept'
  BY <1>a, <1>1 DEF TypeOK, WaitInv, AnswerKept
<1>3. AskedOwn' /\ NewIds'
  BY <1>a DEF WaitInv, AskedOwn, NewIds, Asking
<1>4. Recent'
  <2> SUFFICES ASSUME NEW c \in Cmds, pc[c] = "select", NEW k \in Plans,
                      approvedAt'[<<id[c], k>>] # None
               PROVE  approvedAt'[<<id[c], k>>] + (IF ticked[c] THEN 1 ELSE 0) >= clock
    BY <1>a DEF Recent
  <2>1. <<id[c], k>> \in Ids \X Plans
    BY DEF TypeInv, Busy
  <2> QED
    BY <1>1, <1>b, <2>1 DEF WaitInv, Recent
<1>5. Missed'
  <2> SUFFICES ASSUME NEW c \in Cmds, exit[c] = "timeout"
               PROVE  /\ pc[c] = "end" /\ clock >= deadline[c] /\ id[c] \in Ids /\ held[c] \in Stored
                      /\ \A k \in Plans : approvedAt'[<<id[c], k>>] # None =>
                           approvedAt'[<<id[c], k>>] + 1 >= deadline[c]
    BY <1>a DEF Missed
  <2>1. /\ pc[c] = "end" /\ clock >= deadline[c] /\ id[c] \in Ids /\ held[c] \in Stored
        /\ \A k \in Plans : approvedAt[<<id[c], k>>] # None =>
             approvedAt[<<id[c], k>>] + 1 >= deadline[c]
    BY DEF WaitInv, Missed
  <2>2. deadline[c] \in Nat
    BY <1>a DEF TypeOK
  <2> QED
    BY <1>1, <1>b, <2>1, <2>2
<1> QED
  BY <1>2, <1>3, <1>4, <1>5 DEF WaitInv

(* No tick passes while one has not been read. *)
LEMMA TickWait == ASSUME TypeInv, WaitInv, Tick PROVE WaitInv'
<1>a. /\ TypeOK /\ clock' = clock + 1 /\ clock \in Nat
      /\ UNCHANGED <<pc, held, id, exit, deadline, answers, shown, owner, asked, approvedAt>>
  BY GateAssumption DEF TypeInv, TypeOK, Tick, envVars
<1>1. AskedOwn' /\ NewIds' /\ AnswerKept'
  BY <1>a DEF WaitInv, AskedOwn, NewIds, Asking, AnswerKept
<1>2. Recent'
  <2> SUFFICES ASSUME NEW c \in Cmds, pc[c] = "select", NEW k \in Plans,
                      approvedAt[<<id[c], k>>] # None
               PROVE  approvedAt[<<id[c], k>>] + (IF ticked'[c] THEN 1 ELSE 0) >= clock + 1
    BY <1>a DEF Recent
  <2>1. ~ticked[c] /\ ticked'[c]
    BY DEF Tick
  <2>2. approvedAt[<<id[c], k>>] + 0 >= clock
    BY <2>1 DEF WaitInv, Recent
  <2>3. approvedAt[<<id[c], k>>] \in Nat
    <3>1. <<id[c], k>> \in Ids \X Plans
      BY DEF TypeInv, Busy
    <3> QED
      BY <3>1, <1>a, GateAssumption DEF TypeOK
  <2> QED
    BY <1>a, <2>1, <2>2, <2>3
<1>3. Missed'
  BY <1>a DEF TypeOK, WaitInv, Missed
<1> QED
  BY <1>1, <1>2, <1>3 DEF WaitInv

(***************************************************************************)
(* A wait that times out missed no answer that came more than a polling    *)
(* interval before its deadline, for any number of commands, ids and       *)
(* plans and any timeouts, if ids are not used twice and the provider      *)
(* registers a request under the id it is given.                           *)
(***************************************************************************)
THEOREM NoAnswerIsMissed ==
  ASSUME FreshIds, "n8n" \notin Providers
  PROVE  Spec => []TimedOutUnanswered
<1>1. Init => WaitInv
  BY InitWait
<1>2. TypeInv /\ WaitInv /\ [Next]_vars => WaitInv'
  <2> SUFFICES ASSUME TypeInv, WaitInv, [Next]_vars PROVE WaitInv'
    OBVIOUS
  <2>1. ASSUME NEW c \in Cmds, Step(c) PROVE WaitInv'
    BY <2>1, StepWait
  <2>2. ASSUME NEW i \in Ids, NEW d \in {"approved", "denied"}, Answer(i, d) PROVE WaitInv'
    BY <2>2, AnswerWait
  <2>3. CASE Tick
    BY <2>3, TickWait
  <2>4. CASE UNCHANGED vars
    BY <2>4 DEF vars, cmdVars, envVars, WaitInv, AskedOwn, NewIds, Asking, AnswerKept, Recent, Missed
  <2> QED
    BY <2>1, <2>2, <2>3, <2>4 DEF Next
<1>3. TypeInv /\ WaitInv => TimedOutUnanswered
  BY StoredFields DEF TypeInv, WaitInv, AskedOwn, Missed, TimedOutUnanswered
<1> QED
  BY <1>1, <1>2, <1>3, Typed, PTL DEF Spec
=============================================================================
