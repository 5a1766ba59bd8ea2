---------------------------- MODULE ApprovalStore ----------------------------
(***************************************************************************)
(* The JSON file in which the Slack provider keeps approvals               *)
(* (internal/approval/store.go, slack.go), and the processes that rewrite  *)
(* it: CLI commands that request an approval, and the goroutines of        *)
(* `approval serve`, one per Slack callback.  Nothing locks the file: a    *)
(* writer reads it whole, edits its copy, truncates the file and writes    *)
(* the copy back, and each of those is a step here.                        *)
(***************************************************************************)
EXTENDS FiniteSets, Naturals

CONSTANTS
  Ids,          \* approval ids
  Commands,     \* CLI processes that run Slack.Request
  Handlers,     \* goroutines of `approval serve`
  None,         \* the task of an idle process
  MaxRequests,  \* bound: requests per approval id
  MaxClicks,    \* bound: callbacks per behaviour
  MaxActive,    \* processes that use the file at the same time
  Faults        \* may processes be killed, and calls of the file system fail?

Answers   == {"approved", "denied"}
Decisions == Answers \cup {"pending"}
Records   == [Ids -> Decisions \cup {"none"}]   \* "none": no such record
Tasks     == [id : Ids, decision : Decisions]
Procs     == Commands \cup Handlers

ASSUME StoreAssumption ==
  /\ Commands \cap Handlers = {}
  /\ None \notin Tasks
  /\ MaxRequests \in Nat /\ MaxClicks \in Nat /\ MaxActive \in Nat
  /\ Faults \in BOOLEAN

VARIABLES
  file,      \* form: what loadStore makes of the file; recs: its records
  pc,        \* the next step of each process
  task,      \* the id and the decision each process is writing
  copy,      \* the edited records each process is about to save
  posted,    \* ids whose message with the two buttons reached Slack
  requests,  \* requests made per id
  nclicks,   \* callbacks delivered
  clicks,    \* history: <<id, answer>> of the callbacks no older than 5 minutes
  recorded,  \* history: per id, the last answer, if it was acknowledged
  erred      \* history: ids whose last answer was acknowledged after an error

vars == <<file, pc, task, copy, posted, requests, nclicks, clicks, recorded, erred>>

NoRecords == [i \in Ids |-> "none"]

(* A file that is missing reads as one without records; one that does not *)
(* parse, because it is empty or has a tail of an older text, is an error. *)
Forms         == {"valid", "empty", "garbled"}
ValidFile(r)  == [form |-> "valid", recs |-> r]
Broken(form)  == [form |-> form, recs |-> NoRecords]
Readable      == file.form = "valid"

Steps  == {"idle", "lookup", "load", "truncate", "write", "post", "reply", "ignore"}
Active == {p \in Procs : pc[p] # "idle"}

Start(p, step, t) ==
  /\ pc[p] = "idle"
  /\ Cardinality(Active) < MaxActive
  /\ pc' = [pc EXCEPT ![p] = step]
  /\ task' = [task EXCEPT ![p] = t]

Goto(p, from, to) ==
  /\ pc[p] = from
  /\ pc' = [pc EXCEPT ![p] = to]
  /\ UNCHANGED task

Finish(p) ==
  /\ pc' = [pc EXCEPT ![p] = "idle"]
  /\ task' = [task EXCEPT ![p] = None]
  /\ copy' = [copy EXCEPT ![p] = NoRecords]

(* An error in the middle: a command reports it and ends; ServeHTTP drops  *)
(* it (`_ = updateDecision`) and goes on to its reply.                     *)
Abort(p, from) ==
  /\ pc[p] = from
  /\ \/ /\ p \in Handlers
        /\ Goto(p, from, "ignore")
        /\ UNCHANGED copy
     \/ /\ p \in Commands
        /\ Finish(p)

Init ==
  /\ file = ValidFile(NoRecords)
  /\ pc = [p \in Procs |-> "idle"]
  /\ task = [p \in Procs |-> None]
  /\ copy = [p \in Procs |-> NoRecords]
  /\ posted = {}
  /\ requests = [i \in Ids |-> 0]
  /\ nclicks = 0
  /\ clicks = {}
  /\ recorded = NoRecords
  /\ erred = {}

-----------------------------------------------------------------------------
(***************************************************************************)
(* Starting an operation                                                   *)
(***************************************************************************)

(* Slack.Request writes a pending record, whatever the id had before. *)
StartRequest(c, i) ==
  /\ requests[i] < MaxRequests
  /\ Start(c, "load", [id |-> i, decision |-> "pending"])
  /\ requests' = [requests EXCEPT ![i] = @ + 1]
  /\ recorded' = [recorded EXCEPT ![i] = "none"]
  /\ UNCHANGED <<file, copy, posted, nclicks, clicks, erred>>

(* Mutant: a signature is accepted whatever its timestamp. *)
VerifiedAnyAge(age) == TRUE

(* verifySlackSignature on a callback that Slack signed. *)
Verified(age) == age # "stale"

(* A pressed button: net/http serves the callback on its own goroutine.    *)
(* The buttons stay in the message, so any answer may come any number of   *)
(* times; a callback may also arrive late, and is then refused.            *)
Deliver(h, i, d, age) ==
  /\ i \in posted
  /\ nclicks < MaxClicks
  /\ nclicks' = nclicks + 1
  /\ clicks' = IF age = "fresh" THEN clicks \cup {<<i, d>>} ELSE clicks
  /\ \/ /\ Verified(age)
        /\ Start(h, "lookup", [id |-> i, decision |-> d])
     \/ /\ ~Verified(age)
        /\ pc[h] = "idle"
        /\ UNCHANGED <<pc, task>>
  /\ recorded' = [recorded EXCEPT ![i] = "none"]
  /\ UNCHANGED <<file, copy, posted, requests, erred>>

(***************************************************************************)
(* updateDecision and upsertRecord, one operation on the file per step     *)
(***************************************************************************)

(* Mutant: an empty file is taken for a store without records. *)
LoadsEmptyFile == file.form # "garbled"

(* loadStore succeeds. *)
Loads == Readable

(* Mutants: the record replaces the whole store; it holds the id of the    *)
(* button and not the decision; a decided record stays.                    *)
EditedAlone(recs, t) == [NoRecords EXCEPT ![t.id] = t.decision]
EditedButton(recs, t) ==
  [recs EXCEPT ![t.id] = IF t.decision = "approved" THEN "koc_approve" ELSE t.decision]
EditedOnce(recs, t)  == IF recs[t.id] \in Answers THEN recs ELSE [recs EXCEPT ![t.id] = t.decision]

(* The record with the id is replaced, or one is appended. *)
Edited(recs, t) == [recs EXCEPT ![t.id] = t.decision]

(* The read of updateDecision.  It fails on a file that does not parse or  *)
(* an unknown id; the call may also fail on a file that is well.           *)
Lookup(h) ==
  /\ pc[h] = "lookup"
  /\ \/ /\ Loads /\ file.recs[task[h].id] # "none"
        /\ Goto(h, "lookup", "load")
     \/ /\ Faults \/ ~Loads \/ file.recs[task[h].id] = "none"
        /\ Goto(h, "lookup", "ignore")
  /\ UNCHANGED <<file, copy, posted, requests, nclicks, clicks, recorded, erred>>

(* The read of upsertRecord, and the edit of the copy in memory. *)
Load(p) ==
  /\ Loads
  /\ Goto(p, "load", "truncate")
  /\ copy' = [copy EXCEPT ![p] = Edited(file.recs, task[p])]
  /\ UNCHANGED <<file, posted, requests, nclicks, clicks, recorded, erred>>

(* loadStore failed: the text does not parse, or the read failed. *)
LoadFails(p) ==
  /\ Faults \/ ~Loads
  /\ Abort(p, "load")
  /\ UNCHANGED <<file, posted, requests, nclicks, clicks, recorded, erred>>

(* MkdirAll finds or makes the directory, os.WriteFile opens the file with *)
(* O_TRUNC ...                                                             *)
Truncate(p) ==
  /\ Goto(p, "truncate", "write")
  /\ file' = Broken("empty")
  /\ UNCHANGED <<copy, posted, requests, nclicks, clicks, recorded, erred>>

(* ... and writes from offset 0.  Where another process wrote in between,  *)
(* a longer text of its own leaves its tail behind the new one.            *)
Overwrite(r) ==
  IF file.form = "empty" THEN {ValidFile(r)} ELSE {ValidFile(r), Broken("garbled")}

Write(p) ==
  /\ Goto(p, "write", IF p \in Handlers THEN "reply" ELSE "post")
  /\ file' \in Overwrite(copy[p])
  /\ UNCHANGED <<copy, posted, requests, nclicks, clicks, recorded, erred>>

(* The webhook call of Slack.Request: when it fails the command returns an *)
(* error, and the pending record stays in the file.                        *)
Post(c) ==
  /\ pc[c] = "post"
  /\ posted' \in {posted, posted \cup {task[c].id}}
  /\ Finish(c)
  /\ UNCHANGED <<file, requests, nclicks, clicks, recorded, erred>>

(* ServeHTTP replies "Recorded" whatever updateDecision returned. *)
Reply(h) ==
  /\ pc[h] \in {"reply", "ignore"}
  /\ recorded' = [recorded EXCEPT ![task[h].id] = task[h].decision]
  /\ erred' = IF pc[h] = "ignore" THEN erred \cup {task[h].id} ELSE erred \ {task[h].id}
  /\ Finish(h)
  /\ UNCHANGED <<file, posted, requests, nclicks, clicks>>

(***************************************************************************)
(* Faults                                                                  *)
(***************************************************************************)

(* MkdirAll fails, or the file cannot be opened for writing (permissions,  *)
(* a read-only mount, too many open files): the old text stays.            *)
OpenFails(p) ==
  /\ Faults
  /\ Abort(p, "truncate")
  /\ UNCHANGED <<file, posted, requests, nclicks, clicks, recorded, erred>>

(* No space for the text, or for all of it; or all of it is written and    *)
(* the file cannot be closed.                                              *)
WriteFails(p) ==
  /\ Faults
  /\ Abort(p, "write")
  /\ file' \in {file, Broken("garbled")} \cup Overwrite(copy[p])
  /\ UNCHANGED <<posted, requests, nclicks, clicks, recorded, erred>>

KillCommand(c) ==
  /\ Faults
  /\ pc[c] # "idle"
  /\ Finish(c)
  /\ UNCHANGED <<file, posted, requests, nclicks, clicks, recorded, erred>>

(* The server dies with every callback it was serving. *)
KillServer ==
  /\ Faults
  /\ \E h \in Handlers : pc[h] # "idle"
  /\ pc' = [p \in Procs |-> IF p \in Handlers THEN "idle" ELSE pc[p]]
  /\ task' = [p \in Procs |-> IF p \in Handlers THEN None ELSE task[p]]
  /\ copy' = [p \in Procs |-> IF p \in Handlers THEN NoRecords ELSE copy[p]]
  /\ UNCHANGED <<file, posted, requests, nclicks, clicks, recorded, erred>>

-----------------------------------------------------------------------------
Ages == {"fresh", "stale"}

HandlerStep(h) == Lookup(h) \/ Load(h) \/ LoadFails(h) \/ Truncate(h) \/ Write(h) \/ Reply(h)
CommandStep(c) == Load(c) \/ LoadFails(c) \/ Truncate(c) \/ Write(c) \/ Post(c)

Next ==
  \/ \E c \in Commands, i \in Ids : StartRequest(c, i)
  \/ \E h \in Handlers, i \in Ids, d \in Answers, age \in Ages : Deliver(h, i, d, age)
  \/ \E p \in Procs : OpenFails(p) \/ WriteFails(p)
  \/ \E h \in Handlers : HandlerStep(h)
  \/ \E c \in Commands : CommandStep(c) \/ KillCommand(c)
  \/ KillServer

Spec == Init /\ [][Next]_vars

-----------------------------------------------------------------------------
(* Slack.Status: what a command that polls id i is told. *)
StatusOf(i) ==
  IF ~Readable THEN "error"
  ELSE IF file.recs[i] = "none" THEN "pending" ELSE file.recs[i]

TypeOK ==
  /\ file \in [form : Forms, recs : Records]
  /\ pc \in [Procs -> Steps]
  /\ task \in [Procs -> Tasks \cup {None}]
  /\ copy \in [Procs -> Records]
  /\ posted \subseteq Ids
  /\ requests \in [Ids -> 0..MaxRequests]
  /\ nclicks \in 0..MaxClicks
  /\ clicks \subseteq Ids \X Answers
  /\ recorded \in [Ids -> Answers \cup {"none"}]
  /\ erred \subseteq Ids

(* No answer is invented: what a poll reports for an id, through any mix   *)
(* of stale copies, overlapping writes and killed processes, is an answer  *)
(* that a verified callback carried for that very id.                      *)
AnswersComeFromClicks ==
  \A i \in Ids : StatusOf(i) \in Answers => <<i, StatusOf(i)>> \in clicks

(* A file that does not parse is never replaced by a new one, which would  *)
(* drop every approval in it: only a process that read the file before it  *)
(* broke can still write it (loadStore returns the error of Unmarshal).    *)
Stuck == ~Readable /\ \A p \in Procs : pc[p] \notin {"truncate", "write"}

BrokenStoreIsNeverReplaced == [][Stuck => Stuck']_vars

(* With one process at a time, killed or not, an id whose buttons were     *)
(* shown to an operator is known to the store whenever it can be read.     *)
PostedIdsAreKnown == Readable => \A i \in posted : file.recs[i] # "none"

(* "Recorded" is the truth, as the reply says: while no operation is under *)
(* way, an answer that was acknowledged, and followed by no other and no   *)
(* new request, is the one a readable file has.                            *)
AcknowledgedAnswerIsStored ==
  Active = {} /\ Readable =>
    \A i \in Ids : recorded[i] # "none" => file.recs[i] = recorded[i]

(* What one process at a time gives of it, killed or not: the answer is    *)
(* stored unless updateDecision returned the error that ServeHTTP drops.   *)
(* An update without an error is lost neither to a failing operation that  *)
(* follows nor to one on another id.                                       *)
StoredUnlessUpdateFailed ==
  Active = {} /\ Readable =>
    \A i \in Ids : recorded[i] # "none" /\ i \notin erred => file.recs[i] = recorded[i]

(* One process at a time: the file implements the ledger, whenever that    *)
(* process is killed or its calls fail.  An operation takes effect when   *)
(* it truncates the file; a truncated file that nobody is about to write   *)
(* is lost.                                                                *)
Writers == {p \in Procs : pc[p] = "write"}
Writer  == CHOOSE p \in Writers : TRUE
Lost    == [i \in Ids |-> "lost"]

LedgerState ==
  IF Readable THEN file.recs
  ELSE IF file.form = "empty" /\ Writers # {} THEN copy[Writer]
  ELSE Lost

Ledger == INSTANCE ApprovalLedger WITH decision <- LedgerState

ImplementsLedger == Ledger!Spec
=============================================================================
