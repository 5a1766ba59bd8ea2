-------------------------- MODULE ApprovalStoreProofs --------------------------
(* Theorems about ApprovalStore. *)
EXTENDS ApprovalStore, FiniteSetTheorems, TLAPS

(* A process that is under way has a task. *)
Busy == \A p \in Procs : pc[p] # "idle" => task[p] \in Tasks

(* A handler carries an answer, a command a request. *)
Roles == /\ \A h \in Handlers : pc[h] # "idle" => task[h].decision \in Answers
         /\ \A p \in Procs : pc[p] \in {"reply", "ignore"} => p \in Handlers

TypeInv == TypeOK /\ Busy /\ Roles

(***************************************************************************)
(* Every answer, in the file, in the copy some process is about to save or *)
(* in the task of a handler, was clicked.                                  *)
(***************************************************************************)
Clicked(recs) == \A i \in Ids : recs[i] \in Answers => <<i, recs[i]>> \in clicks

ClickInv ==
  /\ Clicked(file.recs)
  /\ \A p \in Procs : Clicked(copy[p])
  /\ \A p \in Procs : pc[p] # "idle" /\ task[p].decision \in Answers
                        => <<task[p].id, task[p].decision>> \in clicks

-----------------------------------------------------------------------------
LEMMA InitTyped == ASSUME Init PROVE TypeInv /\ ClickInv
<1>1. NoRecords \in Records /\ \A i \in Ids : NoRecords[i] = "none"
  BY DEF NoRecords, Records
<1>2. file \in [form : Forms, recs : Records] /\ file.recs = NoRecords
  BY <1>1 DEF Init, ValidFile, Forms
<1>3. TypeOK
  <2>1. copy \in [Procs -> Records] /\ task \in [Procs -> Tasks \cup {None}] /\ pc \in [Procs -> Steps]
    BY <1>1 DEF Init, Steps
  <2>2. recorded \in [Ids -> Answers \cup {"none"}] /\ erred \subseteq Ids
    BY DEF Init, NoRecords
  <2>3. requests \in [Ids -> 0..MaxRequests] /\ nclicks \in 0..MaxClicks
    BY StoreAssumption DEF Init
  <2> QED
    BY <1>2, <2>1, <2>2, <2>3 DEF Init, TypeOK
<1> QED
  <2>1. Busy /\ Roles
    BY DEF Init, Busy, Roles, Procs
  <2>2. Clicked(NoRecords)
    BY <1>1 DEF Clicked, Answers
  <2>3. ClickInv
    BY <1>2, <2>2 DEF Init, ClickInv, Clicked
  <2> QED
    BY <1>3, <2>1, <2>3 DEF TypeInv

(* A request and a callback start a process. *)
LEMMA StartTyped ==
  ASSUME TypeInv, ClickInv, NEW p \in Procs, NEW s \in {"load", "lookup"}, NEW t \in Tasks,
         Start(p, s, t), UNCHANGED <<file, copy, posted, erred>>,
         p \in Handlers => t.decision \in Answers,
         clicks \subseteq clicks', clicks' \subseteq Ids \X Answers,
         t.decision \in Answers => <<t.id, t.decision>> \in clicks',
         requests' \in [Ids -> 0..MaxRequests], nclicks' \in 0..MaxClicks,
         recorded' \in [Ids -> Answers \cup {"none"}]
  PROVE  TypeInv' /\ ClickInv'
<1>a. TypeOK /\ pc' = [pc EXCEPT ![p] = s] /\ task' = [task EXCEPT ![p] = t]
  BY DEF TypeInv, Start
<1>1. TypeOK'
  BY <1>a DEF TypeOK, Steps
<1>2. Busy'
  BY <1>a DEF TypeOK, TypeInv, Busy
<1>3. Roles'
  BY <1>a DEF TypeOK, TypeInv, Roles, Procs
<1>4. ClickInv'
  BY <1>a DEF TypeOK, ClickInv, Clicked
<1> QED
  BY <1>1, <1>2, <1>3, <1>4 DEF TypeInv

(* A process goes on to its next step, and may replace the file or its copy. *)
LEMMA GotoTyped ==
  ASSUME TypeInv, ClickInv, NEW p \in Procs, pc[p] # "idle",
         NEW s \in Steps \ {"idle"}, pc' = [pc EXCEPT ![p] = s],
         s \in {"reply", "ignore"} => p \in Handlers,
         file' \in [form : Forms, recs : Records], Clicked(file'.recs),
         NEW r \in Records, Clicked(r), copy' = [copy EXCEPT ![p] = r],
         UNCHANGED <<task, posted, requests, nclicks, clicks, recorded, erred>>
  PROVE  TypeInv' /\ ClickInv'
<1>a. TypeOK
  BY DEF TypeInv
<1>1. TypeOK'
  BY <1>a DEF TypeOK
<1>2. Busy'
  BY <1>a DEF TypeOK, TypeInv, Busy
<1>3. Roles'
  BY <1>a DEF TypeOK, TypeInv, Roles, Procs
<1>4. ClickInv'
  BY <1>a DEF TypeOK, ClickInv, Clicked
<1> QED
  BY <1>1, <1>2, <1>3, <1>4 DEF TypeInv

(* A process ends. *)
LEMMA FinishTyped ==
  ASSUME TypeInv, ClickInv, NEW p \in Procs, Finish(p), UNCHANGED <<requests, nclicks, clicks>>,
         file' \in [form : Forms, recs : Records], Clicked(file'.recs),
         posted' \subseteq Ids, recorded' \in [Ids -> Answers \cup {"none"}], erred' \subseteq Ids
  PROVE  TypeInv' /\ ClickInv'
<1>a. TypeOK /\ pc' = [pc EXCEPT ![p] = "idle"] /\ task' = [task EXCEPT ![p] = None]
      /\ copy' = [copy EXCEPT ![p] = NoRecords]
  BY DEF TypeInv, Finish
<1>b. NoRecords \in Records /\ Clicked(NoRecords)
  BY DEF NoRecords, Records, Clicked, Answers
<1>1. TypeOK'
  BY <1>a, <1>b DEF TypeOK, Steps
<1>2. Busy'
  BY <1>a DEF TypeOK, TypeInv, Busy
<1>3. Roles'
  BY <1>a DEF TypeOK, TypeInv, Roles, Procs
<1>4. ClickInv'
  BY <1>a, <1>b DEF TypeOK, ClickInv, Clicked
<1> QED
  BY <1>1, <1>2, <1>3, <1>4 DEF TypeInv

(* An operation ends with an error. *)
LEMMA AbortTyped ==
  ASSUME TypeInv, ClickInv, NEW p \in Procs, NEW from \in Steps \ {"idle"}, Abort(p, from),
         file' \in [form : Forms, recs : Records], Clicked(file'.recs),
         UNCHANGED <<posted, requests, nclicks, clicks, recorded, erred>>
  PROVE  TypeInv' /\ ClickInv'
<1>a. TypeOK /\ copy[p] \in Records /\ Clicked(copy[p]) /\ copy = [copy EXCEPT ![p] = copy[p]]
      /\ "ignore" \in Steps \ {"idle"}
  BY DEF TypeInv, TypeOK, ClickInv, Steps
<1>1. CASE p \in Handlers /\ Goto(p, from, "ignore") /\ UNCHANGED copy
  BY <1>1, <1>a, GotoTyped DEF Goto
<1>2. CASE Finish(p)
  BY <1>2, <1>a, FinishTyped DEF TypeOK
<1> QED
  BY <1>1, <1>2 DEF Abort

(* The file after a write, a truncation or a write that failed. *)
LEMMA FileWritten ==
  ASSUME ClickInv, TypeOK,
         \/ \E p \in Procs : file' \in Overwrite(copy[p])
         \/ file' \in {file, Broken("empty"), Broken("garbled")}
  PROVE  file' \in [form : Forms, recs : Records] /\ Clicked(file'.recs)
<1>1. /\ \A form \in {"empty", "garbled"} :
           Broken(form) \in [form : Forms, recs : Records] /\ Clicked(Broken(form).recs)
  BY DEF Broken, Forms, NoRecords, Records, Clicked, Answers
<1>2. \A p \in Procs : ValidFile(copy[p]) \in [form : Forms, recs : Records]
                       /\ Clicked(ValidFile(copy[p]).recs)
  BY DEF ValidFile, Forms, TypeOK, ClickInv
<1> QED
  BY <1>1, <1>2 DEF Overwrite, TypeOK, ClickInv

LEMMA EditClicked ==
  ASSUME TypeInv, ClickInv, NEW p \in Procs, pc[p] # "idle"
  PROVE  Edited(file.recs, task[p]) \in Records /\ Clicked(Edited(file.recs, task[p]))
<1>1. task[p].id \in Ids /\ task[p].decision \in Decisions
  BY DEF TypeInv, Busy, Tasks
<1>2. file.recs \in Records
  BY DEF TypeInv, TypeOK
<1>3. Edited(file.recs, task[p]) \in Records
  BY <1>1, <1>2 DEF Edited, Records
<1>4. Clicked(Edited(file.recs, task[p]))
  BY <1>1, <1>2 DEF ClickInv, Clicked, Edited, Records
<1> QED
  BY <1>3, <1>4

(* What handlers and commands do alike. *)
LEMMA ProcTyped ==
  ASSUME TypeInv, ClickInv, NEW p \in Procs,
         Load(p) \/ LoadFails(p) \/ Truncate(p) \/ OpenFails(p) \/ Write(p) \/ WriteFails(p)
  PROVE  TypeInv' /\ ClickInv'
<1>a. TypeOK /\ copy[p] \in Records /\ Clicked(copy[p])
      /\ copy = [copy EXCEPT ![p] = copy[p]]
      /\ {"load", "truncate", "write", "post", "reply"} \subseteq Steps \ {"idle"}
      /\ {"truncate", "write", "post"} \cap {"reply", "ignore"} = {}
  BY DEF TypeInv, TypeOK, ClickInv, Steps
<1>b. file \in [form : Forms, recs : Records] /\ Clicked(file.recs)
  BY DEF TypeInv, TypeOK, ClickInv
<1>1. CASE Load(p)
  BY <1>1, <1>a, <1>b, EditClicked, GotoTyped DEF Load, Goto
<1>2. CASE LoadFails(p)
  BY <1>2, <1>a, <1>b, AbortTyped DEF LoadFails
<1>3. CASE Truncate(p)
  BY <1>3, <1>a, FileWritten, GotoTyped DEF Truncate, Goto
<1>4. CASE OpenFails(p)
  BY <1>4, <1>a, <1>b, AbortTyped DEF OpenFails
<1>5. CASE Write(p)
  <2>1. file' \in [form : Forms, recs : Records] /\ Clicked(file'.recs)
    BY <1>5, <1>a, FileWritten DEF Write
  <2>2. CASE p \in Handlers
    BY <1>5, <2>1, <2>2, <1>a, GotoTyped DEF Write, Goto
  <2>3. CASE p \notin Handlers
    BY <1>5, <2>1, <2>3, <1>a, GotoTyped DEF Write, Goto
  <2> QED
    BY <2>2, <2>3
<1>6. CASE WriteFails(p)
  <2>1. file' \in [form : Forms, recs : Records] /\ Clicked(file'.recs)
    BY <1>6, <1>a, FileWritten DEF WriteFails
  <2> QED
    BY <1>6, <2>1, <1>a, AbortTyped DEF WriteFails
<1> QED
  BY <1>1, <1>2, <1>3, <1>4, <1>5, <1>6

LEMMA HandlerTyped ==
  ASSUME TypeInv, ClickInv, NEW h \in Handlers, HandlerStep(h)
  PROVE  TypeInv' /\ ClickInv'
<1>a. h \in Procs /\ TypeOK /\ copy[h] \in Records /\ Clicked(copy[h])
      /\ copy = [copy EXCEPT ![h] = copy[h]]
      /\ {"lookup", "load", "ignore"} \subseteq Steps \ {"idle"}
  BY DEF Procs, TypeInv, TypeOK, ClickInv, Steps
<1>b. file \in [form : Forms, recs : Records] /\ Clicked(file.recs)
  BY DEF TypeInv, TypeOK, ClickInv
<1>1. CASE Lookup(h)
  BY <1>1, <1>a, <1>b, GotoTyped DEF Lookup, Goto
<1>2. CASE Load(h) \/ LoadFails(h) \/ Truncate(h) \/ Write(h)
  BY <1>2, <1>a, ProcTyped
<1>3. CASE Reply(h)
  <2>1. task[h].id \in Ids /\ task[h].decision \in Answers
    BY <1>3, <1>a DEF Reply, TypeInv, Busy, Roles, Tasks
  <2>2. recorded' \in [Ids -> Answers \cup {"none"}] /\ erred' \subseteq Ids
    BY <1>3, <2>1, <1>a DEF Reply, TypeOK
  <2> QED
    BY <1>3, <2>2, <1>a, <1>b, FinishTyped DEF Reply, TypeOK
<1> QED
  BY <1>1, <1>2, <1>3 DEF HandlerStep

LEMMA CommandTyped ==
  ASSUME TypeInv, ClickInv, NEW c \in Commands, CommandStep(c) \/ KillCommand(c)
  PROVE  TypeInv' /\ ClickInv'
<1>a. c \in Procs /\ TypeOK
  BY DEF Procs, TypeInv
<1>b. file \in [form : Forms, recs : Records] /\ Clicked(file.recs) /\ posted \subseteq Ids
      /\ recorded \in [Ids -> Answers \cup {"none"}] /\ erred \subseteq Ids
  BY DEF TypeInv, TypeOK, ClickInv
<1>1. CASE Load(c) \/ LoadFails(c) \/ Truncate(c) \/ Write(c)
  BY <1>1, <1>a, ProcTyped
<1>2. CASE Post(c)
  <2>1. task[c].id \in Ids
    BY <1>2, <1>a DEF Post, TypeInv, Busy, Tasks
  <2> QED
    BY <1>2, <2>1, <1>a, <1>b, FinishTyped DEF Post
<1>3. CASE KillCommand(c)
  BY <1>3, <1>a, <1>b, FinishTyped DEF KillCommand
<1> QED
  BY <1>1, <1>2, <1>3 DEF CommandStep

LEMMA KillServerTyped ==
  ASSUME TypeInv, ClickInv, KillServer
  PROVE  TypeInv' /\ ClickInv'
<1>a. NoRecords \in Records /\ Clicked(NoRecords)
  BY DEF NoRecords, Records, Clicked, Answers
<1>b. TypeOK
  BY DEF TypeInv
<1>1. TypeOK'
  BY <1>a, <1>b DEF KillServer, TypeOK, Steps
<1>2. Busy' /\ Roles'
  BY DEF KillServer, TypeInv, Busy, Roles, Procs
<1>3. ClickInv'
  BY <1>a DEF KillServer, ClickInv, Clicked
<1> QED
  BY <1>1, <1>2, <1>3 DEF TypeInv

LEMMA Inductive == Spec => [](TypeInv /\ ClickInv)
<1>1. Init => TypeInv /\ ClickInv
  BY InitTyped
<1>2. TypeInv /\ ClickInv /\ [Next]_vars => (TypeInv /\ ClickInv)'
  <2> SUFFICES ASSUME TypeInv, ClickInv, [Next]_vars PROVE TypeInv' /\ ClickInv'
    OBVIOUS
  <2>1. ASSUME NEW c \in Commands, NEW i \in Ids, StartRequest(c, i) PROVE TypeInv' /\ ClickInv'
    <3>1. c \in Procs /\ c \notin Handlers /\ [id |-> i, decision |-> "pending"] \in Tasks
      BY StoreAssumption DEF Procs, Tasks, Decisions
    <3>2. requests' \in [Ids -> 0..MaxRequests] /\ recorded' \in [Ids -> Answers \cup {"none"}]
      BY <2>1, StoreAssumption DEF StartRequest, TypeInv, TypeOK
    <3>3. nclicks' \in 0..MaxClicks /\ clicks' = clicks /\ clicks \subseteq Ids \X Answers
      BY <2>1 DEF StartRequest, TypeInv, TypeOK
    <3>4. "pending" \notin Answers
      BY DEF Answers
    <3> QED
      BY <2>1, <3>1, <3>2, <3>3, <3>4, StartTyped DEF StartRequest
  <2>2. ASSUME NEW h \in Handlers, NEW i \in Ids, NEW d \in Answers, NEW age \in Ages,
               Deliver(h, i, d, age)
        PROVE  TypeInv' /\ ClickInv'
    <3>1. h \in Procs /\ [id |-> i, decision |-> d] \in Tasks
      BY DEF Procs, Tasks, Decisions
    <3>2. nclicks' \in 0..MaxClicks /\ clicks' \subseteq Ids \X Answers /\ clicks \subseteq clicks'
      BY <2>2, StoreAssumption DEF Deliver, TypeInv, TypeOK
    <3>3. CASE Verified(age) /\ Start(h, "lookup", [id |-> i, decision |-> d])
      <4>1. <<i, d>> \in clicks'
        BY <2>2, <3>3 DEF Deliver, Verified, Ages
      <4> QED
        BY <2>2, <3>1, <3>2, <3>3, <4>1, StartTyped DEF Deliver, TypeInv, TypeOK
    <3>4. CASE UNCHANGED <<pc, task>>
      BY <2>2, <3>2, <3>4 DEF Deliver, TypeInv, TypeOK, Busy, Roles, ClickInv, Clicked
    <3> QED
      BY <2>2, <3>3, <3>4 DEF Deliver
  <2>3. ASSUME NEW h \in Handlers, HandlerStep(h) PROVE TypeInv' /\ ClickInv'
    BY <2>3, HandlerTyped
  <2>4. ASSUME NEW c \in Commands, CommandStep(c) \/ KillCommand(c) PROVE TypeInv' /\ ClickInv'
    BY <2>4, CommandTyped
  <2>7. ASSUME NEW p \in Procs, OpenFails(p) \/ WriteFails(p) PROVE TypeInv' /\ ClickInv'
    BY <2>7, ProcTyped
  <2>5. CASE KillServer
    BY <2>5, KillServerTyped
  <2>6. CASE UNCHANGED vars
    BY <2>6 DEF vars, TypeInv, TypeOK, Busy, Roles, ClickInv, Clicked
  <2> QED
    BY <2>1, <2>2, <2>3, <2>4, <2>5, <2>6, <2>7 DEF Next
<1> QED
  BY <1>1, <1>2, PTL DEF Spec

(* The state of the store and its processes is always of its type. *)
THEOREM TypeCorrect == Spec => []TypeOK
<1>1. TypeInv => TypeOK
  BY DEF TypeInv
<1> QED
  BY <1>1, Inductive, PTL

(***************************************************************************)
(* However many processes rewrite the file at once, and wherever they are  *)
(* killed, a poll reports an answer only if a verified callback carried it.*)
(***************************************************************************)
THEOREM NoAnswerIsInvented == Spec => []AnswersComeFromClicks
<1>1. ClickInv => AnswersComeFromClicks
  BY DEF ClickInv, Clicked, AnswersComeFromClicks, StatusOf, Answers
<1> QED
  BY <1>1, Inductive, PTL

(***************************************************************************)
(* A store that does not parse stays as it is once the writers that had    *)
(* read it before are through, whatever is requested or answered.          *)
(***************************************************************************)
THEOREM BrokenStoreStays == Spec => BrokenStoreIsNeverReplaced
<1>1. TypeInv /\ [Next]_vars => (Stuck => Stuck')
  <2> SUFFICES ASSUME TypeInv, [Next]_vars, Stuck PROVE Stuck'
    OBVIOUS
  <2>a. pc \in [Procs -> Steps] /\ ~Readable /\ \A p \in Procs : pc[p] \notin {"truncate", "write"}
    BY DEF TypeInv, TypeOK, Stuck
  <2>1. ASSUME NEW p \in Procs, NEW s \in {"idle", "load", "lookup", "reply", "ignore"}, UNCHANGED file,
               pc' = [pc EXCEPT ![p] = s]
        PROVE  Stuck'
    BY <2>a, <2>1 DEF Stuck, Readable
  <2>2. ASSUME NEW c \in Commands, NEW i \in Ids, StartRequest(c, i) PROVE Stuck'
    BY <2>1, <2>2 DEF StartRequest, Start, Procs
  <2>3. ASSUME NEW h \in Handlers, NEW i \in Ids, NEW d \in Answers, NEW age \in Ages,
               Deliver(h, i, d, age)
        PROVE  Stuck'
    BY <2>a, <2>1, <2>3 DEF Deliver, Start, Procs, Stuck, Readable
  <2>4. ASSUME NEW h \in Handlers, HandlerStep(h) PROVE Stuck'
    BY <2>a, <2>1, <2>4 DEF HandlerStep, Lookup, Load, LoadFails, Truncate, Write, Reply,
                            Loads, Abort, Goto, Finish, Procs
  <2>5. ASSUME NEW c \in Commands, CommandStep(c) \/ KillCommand(c) PROVE Stuck'
    BY <2>a, <2>1, <2>5 DEF CommandStep, KillCommand, Load, LoadFails, Truncate, Write,
                            Post, Loads, Abort, Goto, Finish, Procs
  <2>8. ASSUME NEW p \in Procs, OpenFails(p) \/ WriteFails(p) PROVE Stuck'
    BY <2>a, <2>8 DEF OpenFails, WriteFails, Abort
  <2>6. CASE KillServer
    BY <2>a, <2>6 DEF KillServer, Stuck, Readable
  <2>7. CASE UNCHANGED vars
    BY <2>a, <2>7 DEF vars, Stuck, Readable
  <2> QED
    BY <2>2, <2>3, <2>4, <2>5, <2>6, <2>7, <2>8 DEF Next
<1>2. TypeInv /\ TypeInv' /\ [Next]_vars => [Stuck => Stuck']_vars
  BY <1>1
<1> QED
  BY <1>2, Inductive, PTL DEF Spec, BrokenStoreIsNeverReplaced

-----------------------------------------------------------------------------
(***************************************************************************)
(* One process at a time.  Between two operations a readable file knows    *)
(* every id that was posted and has every answer that was acknowledged     *)
(* after an update without an error.                                       *)
(* During an operation the file, or the copy that is about to replace it,  *)
(* has them too: the copy is the file with one record edited, the file is  *)
(* empty from the truncation to the write, and the answer that is being    *)
(* written is not acknowledged before the file has it.                     *)
(***************************************************************************)
Serial == \A p, q \in Active : p = q

Complete(recs) ==
  /\ \A i \in posted : recs[i] # "none"
  /\ \A i \in Ids : recorded[i] # "none" /\ i \notin erred => recs[i] = recorded[i]

FileInv == Readable => Complete(file.recs)

TaskInv(p) ==
  /\ recorded[task[p].id] = "none"
  /\ task[p].decision \in Answers => task[p].id \in posted
  /\ pc[p] = "truncate" => Readable /\ copy[p] = Edited(file.recs, task[p])
  /\ pc[p] = "write" => file.form = "empty" /\ Complete(copy[p])
                        /\ copy[p][task[p].id] = task[p].decision
  /\ pc[p] \in {"post", "reply"} => (Readable => file.recs[task[p].id] = task[p].decision)

SerialInv == Serial /\ FileInv /\ \A p \in Active : TaskInv(p)

LEMMA InitSerial == ASSUME Init PROVE SerialInv
<1>1. Active = {}
  BY DEF Init, Active
<1>2. FileInv
  BY DEF Init, FileInv, Complete, ValidFile, NoRecords
<1> QED
  BY <1>1, <1>2 DEF SerialInv, Serial

(* A process may start only when no other is under way. *)
LEMMA Alone ==
  ASSUME Serial, MaxActive = 1, Cardinality(Active) < MaxActive
  PROVE  Active = {}
<1> SUFFICES ASSUME Active # {} PROVE FALSE
  OBVIOUS
<1>1. PICK p \in Active : TRUE
  OBVIOUS
<1>2. Active = {p}
  BY <1>1 DEF Serial
<1>3. Cardinality(Active) = 1
  BY <1>2, FS_Singleton
<1> QED
  BY <1>3

(* The only process under way goes on, or ends. *)
LEMMA OneGoes ==
  ASSUME TypeInv, Serial, NEW p \in Active, NEW s, pc' = [pc EXCEPT ![p] = s],
         FileInv', s # "idle" => TaskInv(p)'
  PROVE  SerialInv'
<1>1. \A q \in Active' : q = p /\ s # "idle"
  BY DEF TypeInv, TypeOK, Active, Serial
<1> QED
  BY <1>1 DEF SerialInv, Serial

LEMMA StartSerial ==
  ASSUME TypeInv, SerialInv, MaxActive = 1, NEW p \in Procs, NEW t \in Tasks,
         NEW s \in {"load", "lookup"}, Start(p, s, t),
         recorded' = [recorded EXCEPT ![t.id] = "none"],
         UNCHANGED <<file, copy, posted, erred>>,
         t.decision \in Answers => t.id \in posted
  PROVE  SerialInv'
<1>a. TypeOK /\ pc' = [pc EXCEPT ![p] = s] /\ task' = [task EXCEPT ![p] = t] /\ t.id \in Ids
  BY DEF TypeInv, Start, Tasks
<1>1. Active = {}
  BY Alone DEF SerialInv, Start
<1>2. \A q \in Active' : q = p
  BY <1>a, <1>1 DEF TypeOK, Active
<1>3. FileInv'
  BY <1>a DEF TypeOK, SerialInv, FileInv, Complete, Readable
<1>4. TaskInv(p)'
  BY <1>a DEF TypeOK, TaskInv
<1> QED
  BY <1>2, <1>3, <1>4 DEF SerialInv, Serial

(* A callback that is refused still makes the last answer unacknowledged. *)
LEMMA RefusedSerial ==
  ASSUME TypeInv, SerialInv, NEW i \in Ids, recorded' = [recorded EXCEPT ![i] = "none"],
         UNCHANGED <<file, copy, posted, pc, task, erred>>
  PROVE  SerialInv'
<1>1. \A j \in Ids : recorded'[j] \in {"none", recorded[j]}
  BY DEF TypeInv, TypeOK
<1>2. \A p \in Active : task[p].id \in Ids
  BY DEF Active, TypeInv, Busy, Tasks
<1>3. \A recs : Complete(recs) => Complete(recs)'
  BY <1>1 DEF Complete
<1>4. FileInv'
  BY <1>3 DEF SerialInv, FileInv, Readable, Complete
<1>5. Active' = Active /\ \A p \in Active : TaskInv(p)'
  BY <1>1, <1>2, <1>3 DEF SerialInv, TaskInv, Readable, Complete, Active
<1> QED
  BY <1>4, <1>5 DEF SerialInv, Serial

(* It ends, or goes on to ignore its error. *)
LEMMA AbortSerial ==
  ASSUME TypeInv, SerialInv, NEW p \in Active, NEW from, Abort(p, from), FileInv',
         UNCHANGED <<posted, recorded, erred>>
  PROVE  SerialInv'
<1>a. Serial /\ TypeOK /\ TaskInv(p) /\ p \in Procs
  BY DEF SerialInv, TypeInv, Active
<1>1. CASE Goto(p, from, "ignore")
  <2>1. TaskInv(p)'
    BY <1>1, <1>a DEF Goto, TypeOK, TaskInv
  <2> QED
    BY <1>1, <1>a, <2>1, OneGoes DEF Goto
<1>2. CASE Finish(p)
  BY <1>2, <1>a, OneGoes DEF Finish
<1> QED
  BY <1>1, <1>2 DEF Abort

(* What the only process under way does to the file. *)
LEMMA ProcessSerial ==
  ASSUME TypeInv, SerialInv, NEW p \in Active,
         Load(p) \/ LoadFails(p) \/ Truncate(p) \/ OpenFails(p) \/ Write(p) \/ WriteFails(p)
  PROVE  SerialInv'
<1>a. /\ TypeOK /\ Serial /\ FileInv /\ TaskInv(p)
      /\ task[p].id \in Ids /\ task[p].decision \in Decisions
      /\ file.recs \in Records /\ posted \subseteq Ids
  BY DEF SerialInv, TypeInv, TypeOK, Busy, Active, Tasks
<1>b. p \in Procs
  BY DEF Active
<1>c. ~Readable' => FileInv'
  BY DEF FileInv
<1> USE DEF Goto, Finish
<1>1. CASE Load(p)
  <2>1. UNCHANGED <<file, posted, recorded, erred, task>> /\ Readable
        /\ pc' = [pc EXCEPT ![p] = "truncate"] /\ copy' = [copy EXCEPT ![p] = Edited(file.recs, task[p])]
    BY <1>1 DEF Load, Loads
  <2>2. FileInv'
    BY <1>a, <2>1 DEF FileInv, Complete, Readable
  <2>3. TaskInv(p)'
    BY <1>a, <1>b, <2>1 DEF TypeOK, TaskInv, Readable
  <2> QED
    BY <1>a, <2>1, <2>2, <2>3, OneGoes
<1>2. CASE LoadFails(p)
  BY <1>2, <1>a, <1>b, AbortSerial DEF LoadFails, FileInv, Complete, Readable
<1>3. CASE Truncate(p)
  <2>1. /\ UNCHANGED <<copy, posted, recorded, erred, task>> /\ file' = Broken("empty")
        /\ pc[p] = "truncate" /\ pc' = [pc EXCEPT ![p] = "write"]
    BY <1>3 DEF Truncate
  <2>2. file'.form = "empty" /\ ~Readable'
    BY <2>1 DEF Broken, Readable
  <2>3. Complete(file.recs) /\ copy[p] = Edited(file.recs, task[p])
    BY <1>a, <2>1 DEF TaskInv, FileInv
  <2>4. Complete(copy[p]) /\ copy[p][task[p].id] = task[p].decision
    <3>1. \A i \in Ids : copy[p][i] = IF i = task[p].id THEN task[p].decision ELSE file.recs[i]
      BY <1>a, <2>3 DEF Edited, Records
    <3>2. task[p].decision # "none" /\ recorded[task[p].id] = "none"
      BY <1>a DEF Decisions, Answers, TaskInv
    <3> QED
      BY <1>a, <2>3, <3>1, <3>2 DEF Complete
  <2>5. TaskInv(p)'
    BY <1>a, <1>b, <2>1, <2>2, <2>4 DEF TypeOK, TaskInv, Complete
  <2> QED
    BY <1>a, <1>c, <2>1, <2>2, <2>5, OneGoes
<1>4. CASE Write(p)
  <2>1. /\ UNCHANGED <<copy, posted, recorded, erred, task>> /\ file' \in Overwrite(copy[p])
        /\ pc[p] = "write" /\ pc' = [pc EXCEPT ![p] = IF p \in Handlers THEN "reply" ELSE "post"]
    BY <1>4 DEF Write
  <2>2. file.form = "empty" /\ Complete(copy[p]) /\ copy[p][task[p].id] = task[p].decision
    BY <1>a, <2>1 DEF TaskInv
  <2>3. file'.recs = copy[p]
    BY <2>1, <2>2 DEF Overwrite, ValidFile
  <2>4. FileInv'
    BY <2>1, <2>2, <2>3 DEF FileInv, Complete
  <2>5. TaskInv(p)'
    BY <1>a, <1>b, <2>1, <2>2, <2>3 DEF TypeOK, TaskInv
  <2> QED
    BY <1>a, <2>1, <2>4, <2>5, OneGoes
<1>5. CASE WriteFails(p)
  <2>1. /\ UNCHANGED <<posted, recorded, erred>> /\ pc[p] = "write"
        /\ file' \in {file, Broken("garbled")} \cup Overwrite(copy[p])
    BY <1>5 DEF WriteFails, Abort
  <2>2. file.form = "empty" /\ Complete(copy[p])
    BY <1>a, <2>1 DEF TaskInv
  <2>3. Readable' => file'.recs = copy[p]
    BY <2>1, <2>2 DEF Overwrite, ValidFile, Readable, Broken
  <2>4. FileInv'
    BY <2>1, <2>2, <2>3 DEF FileInv, Complete
  <2> QED
    BY <1>5, <1>b, <2>1, <2>4, AbortSerial DEF WriteFails
<1>6. CASE OpenFails(p)
  BY <1>6, <1>a, <1>b, AbortSerial DEF OpenFails, FileInv, Complete, Readable
<1> QED
  BY <1>1, <1>2, <1>3, <1>4, <1>5, <1>6

(* The steps before and after the file is written. *)
LEMMA EndsSerial ==
  ASSUME TypeInv, SerialInv, NEW p \in Active,
         \/ p \in Handlers /\ (Lookup(p) \/ Reply(p))
         \/ p \in Commands /\ (Post(p) \/ KillCommand(p))
  PROVE  SerialInv'
<1>a. /\ TypeOK /\ Serial /\ FileInv /\ TaskInv(p)
      /\ task[p].id \in Ids /\ task[p].decision \in Decisions /\ p \in Procs
  BY DEF SerialInv, TypeInv, TypeOK, Busy, Active, Tasks
<1> USE DEF Goto, Finish
<1>1. CASE p \in Handlers /\ Lookup(p)
  <2>2. UNCHANGED <<file, copy, posted, recorded, erred, task>>
        /\ \/ pc' = [pc EXCEPT ![p] = "load"]
           \/ pc' = [pc EXCEPT ![p] = "ignore"]
    BY <1>1 DEF Lookup
  <2>3. FileInv'
    BY <1>a, <2>2 DEF FileInv, Complete, Readable
  <2>4. TaskInv(p)'
    BY <1>a, <2>2 DEF TypeOK, TaskInv, Readable
  <2>5. CASE pc' = [pc EXCEPT ![p] = "load"]
    BY <1>a, <2>3, <2>4, <2>5, OneGoes
  <2>6. CASE pc' = [pc EXCEPT ![p] = "ignore"]
    BY <1>a, <2>3, <2>4, <2>6, OneGoes
  <2> QED
    BY <2>2, <2>5, <2>6
<1>2. CASE p \in Handlers /\ Reply(p)
  <2>1. /\ UNCHANGED <<file, posted>> /\ pc[p] \in {"reply", "ignore"}
        /\ pc' = [pc EXCEPT ![p] = "idle"]
        /\ recorded' = [recorded EXCEPT ![task[p].id] = task[p].decision]
        /\ erred' = IF pc[p] = "ignore" THEN erred \cup {task[p].id} ELSE erred \ {task[p].id}
    BY <1>2 DEF Reply
  <2>2. Readable /\ task[p].id \notin erred' => file.recs[task[p].id] = task[p].decision
    BY <1>a, <2>1 DEF TaskInv
  <2>3. FileInv'
    BY <1>a, <2>1, <2>2 DEF TypeOK, FileInv, Complete, Readable
  <2> QED
    BY <1>a, <2>1, <2>3, OneGoes
<1>3. CASE p \in Commands /\ Post(p)
  <2>1. /\ UNCHANGED <<file, recorded, erred>> /\ pc[p] = "post" /\ pc' = [pc EXCEPT ![p] = "idle"]
        /\ posted' \subseteq posted \cup {task[p].id}
    BY <1>3 DEF Post
  <2>2. Readable => file.recs[task[p].id] # "none"
    BY <1>a, <2>1 DEF TaskInv, Decisions, Answers
  <2>3. FileInv'
    BY <1>a, <2>1, <2>2 DEF FileInv, Complete, Readable
  <2> QED
    BY <1>a, <2>1, <2>3, OneGoes
<1>4. CASE p \in Commands /\ KillCommand(p)
  <2>1. UNCHANGED <<file, posted, recorded, erred>> /\ pc' = [pc EXCEPT ![p] = "idle"]
    BY <1>4 DEF KillCommand
  <2>2. FileInv'
    BY <1>a, <2>1 DEF FileInv, Complete, Readable
  <2> QED
    BY <1>a, <2>1, <2>2, OneGoes
<1> QED
  BY <1>1, <1>2, <1>3, <1>4

(* Only processes that are under way have a next step. *)
LEMMA StepsAreActive ==
  ASSUME NEW p \in Procs,
         Lookup(p) \/ Load(p) \/ LoadFails(p) \/ Truncate(p) \/ OpenFails(p) \/ Write(p)
           \/ WriteFails(p) \/ Post(p) \/ Reply(p) \/ KillCommand(p)
  PROVE  p \in Active
BY DEF Active, Lookup, Load, LoadFails, Truncate, OpenFails, Write, WriteFails, Post, Reply,
       KillCommand, Abort, Goto

LEMMA KillServerSerial ==
  ASSUME TypeInv, SerialInv, KillServer
  PROVE  SerialInv'
<1>1. UNCHANGED <<file, posted, recorded, erred>>
  BY DEF KillServer
<1>2. FileInv'
  BY <1>1 DEF SerialInv, FileInv, Complete, Readable
<1>3. Active' = {}
  <2>1. PICK h \in Handlers : h \in Active
    BY DEF KillServer, Active, Procs
  <2>2. \A q \in Active : q = h
    BY <2>1 DEF SerialInv, Serial
  <2> QED
    BY <2>2 DEF KillServer, Active, Procs
<1> QED
  BY <1>2, <1>3 DEF SerialInv, Serial

LEMMA NextSerial ==
  ASSUME TypeInv, SerialInv, MaxActive = 1, [Next]_vars
  PROVE  SerialInv'
<1>1. ASSUME NEW c \in Commands, NEW i \in Ids, StartRequest(c, i) PROVE SerialInv'
  <2>1. PICK t \in Tasks : t = [id |-> i, decision |-> "pending"]
    BY DEF Tasks, Decisions
  <2>2. t.id = i /\ t.decision \notin Answers /\ c \in Procs
    BY <2>1 DEF Answers, Procs
  <2> QED
    BY <1>1, <2>1, <2>2, StartSerial DEF StartRequest
<1>2. ASSUME NEW h \in Handlers, NEW i \in Ids, NEW d \in Answers, NEW age \in Ages, Deliver(h, i, d, age)
      PROVE  SerialInv'
  <2>1. CASE Start(h, "lookup", [id |-> i, decision |-> d])
    <3>1. PICK t \in Tasks : t = [id |-> i, decision |-> d]
      BY DEF Tasks, Decisions
    <3>2. t.id = i /\ i \in posted /\ h \in Procs
      BY <1>2, <3>1 DEF Procs, Deliver
    <3> QED
      BY <1>2, <2>1, <3>1, <3>2, StartSerial DEF Deliver
  <2>2. CASE UNCHANGED <<pc, task>>
    BY <1>2, <2>2, RefusedSerial DEF Deliver
  <2> QED
    BY <1>2, <2>1, <2>2 DEF Deliver
<1>3. ASSUME NEW h \in Handlers, HandlerStep(h) PROVE SerialInv'
  BY <1>3, StepsAreActive, ProcessSerial, EndsSerial DEF HandlerStep, Procs
<1>4. ASSUME NEW c \in Commands, CommandStep(c) \/ KillCommand(c) PROVE SerialInv'
  BY <1>4, StepsAreActive, ProcessSerial, EndsSerial DEF CommandStep, Procs
<1>7. ASSUME NEW p \in Procs, OpenFails(p) \/ WriteFails(p) PROVE SerialInv'
  BY <1>7, StepsAreActive, ProcessSerial
<1>5. CASE KillServer
  BY <1>5, KillServerSerial
<1>6. CASE UNCHANGED vars
  BY <1>6 DEF vars, SerialInv, Serial, Active, FileInv, Complete, Readable, TaskInv
<1> QED
  BY <1>1, <1>2, <1>3, <1>4, <1>5, <1>6, <1>7 DEF Next

LEMMA SerialInductive ==
  ASSUME MaxActive = 1
  PROVE  Spec => []SerialInv
<1>1. Init => SerialInv
  BY InitSerial
<1>2. TypeInv /\ SerialInv /\ [Next]_vars => SerialInv'
  BY NextSerial
<1> QED
  BY <1>1, <1>2, Inductive, PTL DEF Spec

(***************************************************************************)
(* With one process at a time every id whose buttons were shown is in the  *)
(* store whenever it can be read, wherever processes are killed.           *)
(***************************************************************************)
THEOREM ShownIdsAreKnown ==
  ASSUME MaxActive = 1
  PROVE  Spec => []PostedIdsAreKnown
<1>1. SerialInv => PostedIdsAreKnown
  BY DEF SerialInv, FileInv, Complete, PostedIdsAreKnown
<1> QED
  BY <1>1, SerialInductive, PTL

(***************************************************************************)
(* With one process at a time an answer that was acknowledged is in every  *)
(* file that can be read, unless its update returned an error: no other    *)
(* operation, whether it succeeds, fails or is killed, loses it.           *)
(***************************************************************************)
THEOREM AnswersAreStoredUnlessUpdateFailed ==
  ASSUME MaxActive = 1
  PROVE  Spec => []StoredUnlessUpdateFailed
<1>1. SerialInv => StoredUnlessUpdateFailed
  BY DEF SerialInv, FileInv, Complete, StoredUnlessUpdateFailed
<1> QED
  BY <1>1, SerialInductive, PTL

-----------------------------------------------------------------------------
(***************************************************************************)
(* The file implements the ledger.  The operation that is under way takes  *)
(* effect when it truncates the file: the ledger then is the copy.  A      *)
(* write that does not come leaves the ledger lost; every other step keeps *)
(* the file and has no writer, or makes the file what the copy was.        *)
(***************************************************************************)

(* Without a writer the ledger is the file. *)
LEMMA NoWriter ==
  ASSUME Writers = {}
  PROVE  LedgerState = IF Readable THEN file.recs ELSE Lost
BY DEF LedgerState

LEMMA OneWriter ==
  ASSUME Serial, TypeInv, NEW p \in Active, pc[p] = "write", file.form = "empty"
  PROVE  LedgerState = copy[p]
<1>1. p \in Writers /\ \A q \in Writers : q = p
  BY DEF Serial, Active, Writers
<1>2. Writers # {} /\ Writer = p
  BY <1>1 DEF Writer
<1> QED
  BY <1>2 DEF LedgerState, Readable

(* No process of a ledger without writers starts to write. *)
LEMMA StillNoWriter ==
  ASSUME Writers = {}, UNCHANGED file, \A q \in Procs : pc'[q] = "write" => pc[q] = "write"
  PROVE  UNCHANGED LedgerState
<1>1. Writers' = {}
  BY DEF Writers
<1>2. LedgerState' = IF Readable THEN file.recs ELSE Lost
  BY <1>1 DEF LedgerState, Readable, Lost
<1> QED
  BY <1>2, NoWriter

(* The step that takes effect: the record of the task is replaced. *)
LEMMA TruncateRefines ==
  ASSUME TypeInv, SerialInv, NEW p \in Active, Truncate(p)
  PROVE  Ledger!Next
<1>a. /\ TypeOK /\ p \in Procs /\ TaskInv(p) /\ pc[p] = "truncate"
      /\ pc' = [pc EXCEPT ![p] = "write"] /\ UNCHANGED copy /\ file' = Broken("empty")
      /\ task[p].id \in Ids /\ task[p].decision \in Decisions /\ file.recs \in Records
  BY DEF TypeInv, TypeOK, Busy, Active, Tasks, SerialInv, Truncate, Goto
<1>1. LedgerState = file.recs
  BY <1>a DEF TaskInv, LedgerState
<1>2. LedgerState' = copy[p]
  <2>1. p \in Writers' /\ \A q \in Writers' : q = p
    BY <1>a DEF TypeOK, SerialInv, Serial, Active, Writers
  <2>2. Writers' # {} /\ Writer' = p
    BY <2>1 DEF Writer
  <2>3. file'.form = "empty"
    BY <1>a DEF Broken
  <2> QED
    BY <2>2, <2>3, <1>a DEF LedgerState, Readable
<1>3. copy[p] = [file.recs EXCEPT ![task[p].id] = task[p].decision]
  BY <1>a DEF TaskInv, Edited
<1>4. file.recs # Ledger!Lost
  BY <1>a DEF Ledger!Lost, Records, Decisions, Answers
<1>5. CASE task[p].decision = "pending"
  <2>1. Ledger!Request(task[p].id)
    BY <1>1, <1>2, <1>3, <1>5 DEF Ledger!Request
  <2> QED
    BY <1>1, <1>4, <1>a, <2>1 DEF Ledger!Next
<1>6. CASE task[p].decision \in Answers
  <2>1. file.recs[task[p].id] # "none"
    BY <1>a, <1>6 DEF TaskInv, SerialInv, FileInv, Complete
  <2>2. Ledger!Decide(task[p].id, task[p].decision) /\ task[p].decision \in Ledger!Answers
    BY <1>1, <1>2, <1>3, <1>6, <2>1 DEF Ledger!Decide, Ledger!Answers, Answers
  <2> QED
    BY <1>1, <1>4, <1>a, <2>2 DEF Ledger!Next
<1> QED
  BY <1>5, <1>6, <1>a DEF Decisions

(* The only writer stops before it has written. *)
LEMMA LostRefines ==
  ASSUME Writers' = {}, ~Readable'
  PROVE  Ledger!Next
BY DEF LedgerState, Lost, Ledger!Next, Ledger!Lose, Ledger!Lost

(* The file becomes what the ledger was. *)
LEMMA WriteRefines ==
  ASSUME TypeInv, SerialInv, NEW p \in Active, pc[p] = "write", file' \in Overwrite(copy[p])
  PROVE  UNCHANGED LedgerState
<1>1. pc[p] = "write" /\ file.form = "empty"
  BY DEF SerialInv, TaskInv
<1>2. LedgerState = copy[p]
  BY <1>1, OneWriter DEF SerialInv
<1>3. file' = ValidFile(copy[p])
  BY <1>1 DEF Overwrite
<1> QED
  BY <1>2, <1>3 DEF LedgerState, Readable, ValidFile

LEMMA WriterStops ==
  ASSUME TypeInv, SerialInv, NEW p \in Active, pc[p] = "write",
         \A q \in Procs : pc'[q] = "write" => pc[q] = "write" /\ q # p,
         file' \in {file, Broken("garbled")}
  PROVE  Ledger!Next
<1>1. file.form = "empty"
  BY DEF SerialInv, TaskInv
<1>2. ~Readable'
  BY <1>1 DEF Readable, Broken
<1>3. Writers' = {}
  BY DEF SerialInv, Serial, Active, Writers
<1> QED
  BY <1>2, <1>3, LostRefines

(* The process under way, if it writes, is the only one that does. *)
LEMMA OnlyWriter ==
  ASSUME SerialInv, NEW p \in Active, pc[p] # "write"
  PROVE  Writers = {}
BY DEF SerialInv, Serial, Active, Writers

LEMMA NextRefines ==
  ASSUME TypeInv, SerialInv, MaxActive = 1, [Next]_vars
  PROVE  [Ledger!Next]_LedgerState
<1>a. pc \in [Procs -> Steps] /\ Serial
  BY DEF TypeInv, TypeOK, SerialInv
<1>1. ASSUME NEW p \in Procs, NEW s \in Steps, NEW t, Start(p, s, t), UNCHANGED file, s # "write"
      PROVE  UNCHANGED LedgerState
  <2>1. Active = {} /\ pc' = [pc EXCEPT ![p] = s]
    BY <1>1, Alone DEF SerialInv, Start
  <2>2. Writers = {}
    BY <2>1 DEF Active, Writers
  <2> QED
    BY <1>a, <1>1, <2>1, <2>2, StillNoWriter
<1>2. ASSUME NEW p \in Active, NEW s \in Steps \ {"write"}, pc[p] # "write",
             pc' = [pc EXCEPT ![p] = s], UNCHANGED file
      PROVE  UNCHANGED LedgerState
  BY <1>a, <1>2, OnlyWriter, StillNoWriter
<1>3. ASSUME NEW c \in Commands, NEW i \in Ids, StartRequest(c, i) PROVE UNCHANGED LedgerState
  BY <1>1, <1>3 DEF StartRequest, Procs, Steps
<1>4. ASSUME NEW h \in Handlers, NEW i \in Ids, NEW d \in Answers, NEW age \in Ages, Deliver(h, i, d, age)
      PROVE  UNCHANGED LedgerState
  <2>1. CASE UNCHANGED <<pc, file, copy>>
    BY <2>1 DEF LedgerState, Readable, Writers, Writer, Lost
  <2> QED
    BY <1>1, <1>4, <2>1 DEF Deliver, Procs, Steps
<1>5. ASSUME NEW p \in Active,
             Lookup(p) \/ Load(p) \/ LoadFails(p) \/ OpenFails(p) \/ Post(p) \/ Reply(p)
      PROVE  UNCHANGED LedgerState
  BY <1>2, <1>5 DEF Lookup, Load, LoadFails, OpenFails, Post, Reply, Abort, Goto, Finish, Steps
<1>6. ASSUME NEW p \in Active, pc[p] = "write", WriteFails(p) \/ KillCommand(p)
      PROVE  [Ledger!Next]_LedgerState
  <2>1. \E s \in {"idle", "ignore"} : pc' = [pc EXCEPT ![p] = s]
    BY <1>6 DEF WriteFails, KillCommand, Abort, Goto, Finish
  <2>2. CASE file' \in {file, Broken("garbled")}
    BY <1>a, <1>6, <2>1, <2>2, WriterStops
  <2>3. CASE file' \in Overwrite(copy[p])
    BY <1>6, <2>3, WriteRefines
  <2> QED
    BY <1>6, <2>2, <2>3 DEF WriteFails, KillCommand
<1>7. ASSUME NEW p \in Active, KillCommand(p), pc[p] # "write" PROVE UNCHANGED LedgerState
  BY <1>2, <1>7 DEF KillCommand, Finish, Steps
<1>8. CASE KillServer
  <2>1. PICK h \in Handlers : h \in Active
    BY <1>8 DEF KillServer, Active, Procs
  <2>2. \A q \in Procs : pc'[q] = "write" => pc[q] = "write" /\ q # h
    BY <1>8 DEF KillServer
  <2>3. CASE pc[h] = "write"
    BY <1>8, <2>1, <2>2, <2>3, WriterStops DEF KillServer
  <2>4. CASE pc[h] # "write"
    BY <1>8, <2>1, <2>2, <2>4, OnlyWriter, StillNoWriter DEF KillServer
  <2> QED
    BY <2>3, <2>4
<1>9. ASSUME NEW h \in Handlers, HandlerStep(h) PROVE [Ledger!Next]_LedgerState
  <2>1. h \in Active
    BY <1>9, StepsAreActive DEF HandlerStep, Procs
  <2> QED
    BY <1>9, <2>1, <1>5, TruncateRefines, WriteRefines DEF HandlerStep, Write, Goto
<1>10. ASSUME NEW c \in Commands, CommandStep(c) \/ KillCommand(c)
       PROVE  [Ledger!Next]_LedgerState
  <2>1. c \in Active
    BY <1>10, StepsAreActive DEF CommandStep, Procs
  <2> QED
    BY <1>10, <2>1, <1>5, <1>6, <1>7, TruncateRefines, WriteRefines DEF CommandStep, Write, Goto
<1>12. ASSUME NEW p \in Procs, OpenFails(p) \/ WriteFails(p) PROVE [Ledger!Next]_LedgerState
  <2>1. p \in Active
    BY <1>12, StepsAreActive
  <2>2. WriteFails(p) => pc[p] = "write"
    BY DEF WriteFails, Abort
  <2> QED
    BY <1>12, <2>1, <2>2, <1>5, <1>6
<1>11. CASE UNCHANGED vars
  BY <1>11 DEF vars, LedgerState, Readable, Writers, Writer, Lost
<1> QED
  BY <1>3, <1>4, <1>8, <1>9, <1>10, <1>11, <1>12 DEF Next

(***************************************************************************)
(* With one process at a time the file is an implementation of the ledger  *)
(* that the commands rely on, whenever the process is killed or its calls  *)
(* fail.                                                                   *)
(***************************************************************************)
THEOREM LedgerImplemented ==
  ASSUME MaxActive = 1
  PROVE  Spec => ImplementsLedger
<1>1. Init => Ledger!Init
  BY DEF Init, Ledger!Init, LedgerState, Readable, ValidFile, NoRecords
<1>2. TypeInv /\ SerialInv /\ [Next]_vars => [Ledger!Next]_LedgerState
  BY NextRefines
<1> QED
  BY <1>1, <1>2, Inductive, SerialInductive, PTL DEF Spec, ImplementsLedger, Ledger!Spec
=============================================================================
