---------------------------- MODULE TelegramScan ----------------------------
(***************************************************************************)
(* Telegram.Status (internal/approval/telegram.go): the answer to an id is *)
(* searched in the messages that the bot received.  The bot confirms none, *)
(* so the API returns the oldest ones, up to a limit, every time.          *)
(***************************************************************************)
EXTENDS Sequences, Naturals

CONSTANTS
  Ids,      \* approval ids, and others that messages name
  Starts,   \* Starts[i]: the ids that the text of i is the start of, i too
  Lower,    \* the ids without upper case letters
  Chat,     \* the chat of the configuration
  Chats,    \* all chats of the bot
  Window    \* the most updates of one call (external: 100)

ASSUME ScanAssumption == Window \in Nat /\ Starts \in [Ids -> SUBSET Ids]

(* A message says some phrases; "disapprove" has "approve" in it. *)
Phrases  == [verb : {"approve", "deny", "disapprove"}, id : Ids]
Messages == [chat : Chats, says : SUBSET Phrases]

(* strings.Contains of "<verb> <id>" in the text, in lower case. *)
Says(m, verb, i) ==
  /\ i \in Lower
  /\ \E p \in m.says : /\ p.id \in Starts[i]
                       /\ p.verb = verb \/ (verb = "approve" /\ p.verb = "disapprove")

(* telegramGetUpdates *)
Received(updates) == SubSeq(updates, 1, IF Len(updates) < Window THEN Len(updates) ELSE Window)

(* Mutant: the messages of every chat count. *)
SpeaksAnywhere(m, i) == Says(m, "approve", i) \/ Says(m, "deny", i)

Speaks(m, i) == m.chat = Chat /\ (Says(m, "approve", i) \/ Says(m, "deny", i))

Verdict(m, i) == IF Says(m, "approve", i) THEN "approved" ELSE "denied"

(* The newest message that answers. *)
Status(updates, i) ==
  LET got == Received(updates)
      ks  == {k \in 1..Len(got) : Speaks(got[k], i)}
  IN  IF ks = {} THEN "pending"
      ELSE Verdict(got[CHOOSE k \in ks : \A l \in ks : l <= k], i)

-----------------------------------------------------------------------------
(* One answer to one id, in the words of the request. *)
Answers(m, i) == m.chat = Chat /\ \E v \in {"approve", "deny"} : [verb |-> v, id |-> i] \in m.says

Plain(m) ==
  /\ \A p \in m.says : p.verb # "disapprove"
  /\ \A p, q \in m.says : p.id = q.id => p = q

(* Each message acts like a step of ApprovalLedger: an answer to an id is  *)
(* its new decision, and anything else - another chat, another id, a chat  *)
(* about something else - leaves the decision alone.  (So it is while the  *)
(* window has room, for ids in lower case that start no other id.)         *)
ActsLikeLedger(updates, m, i) ==
  Len(updates) < Window /\ i \in Lower /\ Starts[i] = {i} /\ Plain(m) =>
    Status(Append(updates, m), i) =
      IF ~Answers(m, i) THEN Status(updates, i)
      ELSE IF [verb |-> "approve", id |-> i] \in m.says THEN "approved" ELSE "denied"
=============================================================================
