---------------------------- MODULE LiveProgress ----------------------------
(***************************************************************************)
(* The progress display of the commands (internal/cli/progress.go).  On a  *)
(* terminal a goroutine redraws a block of live lines below the lines that *)
(* the command logs, by moving the cursor up over what it drew before; the *)
(* command erases the block before it logs a line.  Both hold the mutex    *)
(* while they write.  A line that is logged is one step; a frame is a step *)
(* for each of its entries, for only what comes from another goroutine     *)
(* without the mutex can fall between them: the closing of the channel,    *)
(* and the last line of Donef and Failf.                                   *)
(*                                                                         *)
(* A message fills one row of the terminal or several: the words of the    *)
(* repository agent have line breaks in them, and a line may be wider than *)
(* the terminal.                                                           *)
(***************************************************************************)
EXTENDS Sequences, Integers, Functions

CONSTANTS
  Messages,    \* what the command reports
  None,        \* no message
  Height,      \* the rows that a message fills
  MaxHistory,  \* live entries below the spinner
  MaxCalls,    \* bound: calls of the command
  MaxRows      \* bound: rows of the terminal on which another frame is begun

ASSUME ProgressAssumption ==
  /\ None \notin Messages
  /\ Height \in [Messages -> Nat \ {0}]
  /\ MaxHistory \in Nat \ {0}
  /\ MaxCalls \in Nat /\ MaxRows \in Nat

VARIABLES
  isTTY,       \* is the output a terminal
  screen,      \* the rows of the terminal, and its cursor
  current,     \* the message beside the spinner
  lastStatic,  \* the last message logged by Updatef
  history,     \* the events in the live block
  rendered,    \* entries of the live block on the screen
  done,        \* is the channel closed
  pc,          \* the command: running, in finish, or past it
  loop,        \* renderLoop: in its select, about to draw, writing, ended
  drawn,       \* entries of the frame that are written
  late,        \* history: was a frame begun after the channel was closed
  tall,        \* history: did a frame have an entry of several rows
  logged,      \* history: the rows logged
  places,      \* history: where on the screen they were written
  calls        \* calls of the command so far

state  == <<current, lastStatic, history, rendered>>
frames == <<loop, drawn, late, tall>>
log    == <<logged, places>>
vars   == <<isTTY, screen, state, done, pc, frames, log, calls>>

Log(m)  == [kind |-> "log", text |-> m]
Live(m) == [kind |-> "live", text |-> m]

-----------------------------------------------------------------------------
(***************************************************************************)
(* The terminal: rows of texts, and the row of the cursor, which is either *)
(* at its start or behind its last text.                                   *)
(***************************************************************************)
maxInt(a, b) == IF a > b THEN a ELSE b

(* A row; below the last one that was written there are empty ones.        *)
RowAt(s, i) == IF i <= Len(s.rows) THEN s.rows[i] ELSE <<>>

(* New texts for the rows from the cursor's to row end. *)
Rows(s, end, new) ==
  [i \in 1..maxInt(end, Len(s.rows)) |-> IF i \in s.row..end THEN new[i] ELSE s.rows[i]]

(* A text of n rows: it starts behind the last text of its row, and what   *)
(* the rows below hold is only written over, with its end left standing.   *)
Put(s, t, n) ==
  LET end == s.row + n - 1
      new == [i \in s.row..end |-> IF i = s.row /\ ~s.start THEN Append(RowAt(s, i), t)
                                   ELSE <<t>> \o RowAt(s, i)]
  IN  [rows |-> Rows(s, end, new), row |-> end, start |-> FALSE]

(* n rows are emptied, with a newline between them.                        *)
Erased(s, n) ==
  LET end == s.row + n - 1
  IN  [rows |-> Rows(s, end, [i \in s.row..end |-> <<>>]), row |-> end, start |-> TRUE]

NewLine(s) == [rows |-> IF s.row = Len(s.rows) THEN Append(s.rows, <<>>) ELSE s.rows,
               row |-> s.row + 1, start |-> TRUE]
Return(s)  == [rows |-> s.rows, row |-> s.row, start |-> TRUE]
Up(s, n)   == [rows |-> s.rows, row |-> IF s.row > n THEN s.row - n ELSE 1, start |-> s.start]

(* Mutant: the cursor moves up by the whole block, onto the last log line. *)
TopOneMore(s, n) == Return(Up(s, n))

(* The start of a block of n rows, from the last one. *)
Top(s, n) == IF n > 1 THEN Up(Return(s), n - 1) ELSE Return(s)

(* Mutant: only the first row of the block is erased. *)
ClearedOneRow(s, n) == IF n = 0 THEN s ELSE Erased(Top(s, n), 1)

(* clearLocked *)
Cleared(s, n) == IF n = 0 THEN s ELSE Top(Erased(Top(s, n), n), n)

-----------------------------------------------------------------------------
Init ==
  /\ isTTY \in BOOLEAN
  /\ screen = [rows |-> <<<<>>>>, row |-> 1, start |-> TRUE]
  /\ current = None
  /\ lastStatic = None
  /\ history = <<>>
  /\ rendered = 0
  /\ done = FALSE
  /\ pc = "run"
  /\ loop = IF isTTY THEN "select" ELSE "ended"
  /\ drawn = 0
  /\ late = FALSE
  /\ tall = FALSE
  /\ logged = <<>>
  /\ places = <<>>
  /\ calls = 0

Call ==
  /\ calls < MaxCalls
  /\ calls' = calls + 1

(* A line is written, and where its rows are is remembered. *)
WriteLine(s, m) ==
  /\ screen' = NewLine(Put(s, Log(m), Height[m]))
  /\ logged' = logged \o [i \in 1..Height[m] |-> Log(m)]
  /\ places' = places \o [i \in 1..Height[m] |-> s.row + i - 1]

(* The goroutine holds the mutex while it writes a frame. *)
Unlocked == loop # "write"

(* A line of the command: the live block makes room for it. *)
LogLine(m) ==
  /\ WriteLine(IF isTTY THEN Cleared(screen, rendered) ELSE screen, m)
  /\ rendered' = IF isTTY THEN 0 ELSE rendered

(* appendEventLocked: a message that repeats the last is dropped, and the  *)
(* history keeps the last MaxHistory.                                      *)
Remember(m) ==
  history' = IF history # <<>> /\ history[Len(history)] = m THEN history
             ELSE LET h == Append(history, m)
                  IN  SubSeq(h, IF Len(h) > MaxHistory THEN 2 ELSE 1, Len(h))

Updatef(m) ==
  /\ pc = "run"
  /\ Unlocked
  /\ Call
  /\ current' = m
  /\ lastStatic' = m
  /\ IF m # current THEN Remember(m) ELSE UNCHANGED history
  /\ IF m # lastStatic THEN LogLine(m) ELSE UNCHANGED <<screen, rendered, log>>
  /\ UNCHANGED <<isTTY, done, pc, frames>>

Eventf(m) ==
  /\ pc = "run"
  /\ Unlocked
  /\ Call
  /\ Remember(m)
  /\ LogLine(m)
  /\ UNCHANGED <<isTTY, current, lastStatic, done, pc, frames>>

(* terraform-pr calls it after Donef, too. *)
Printf(m) ==
  /\ pc \in {"run", "finished"}
  /\ Unlocked
  /\ Call
  /\ LogLine(m)
  /\ UNCHANGED <<isTTY, current, lastStatic, history, done, pc, frames>>

(* Donef, Failf, and the Close that is deferred behind them or, in         *)
(* diagnose, comes before: the channel is closed first, once ...           *)
Close ==
  /\ pc \in {"run", "finished"}
  /\ Call
  /\ pc' = "clear"
  /\ done' = TRUE
  /\ UNCHANGED <<isTTY, screen, state, frames, log>>

(* ... then, under the mutex, the live block is erased ... *)
Clear ==
  /\ pc = "clear"
  /\ Unlocked
  /\ pc' = "final"
  /\ IF isTTY
       THEN /\ screen' = Cleared(screen, rendered)
            /\ rendered' = 0
       ELSE UNCHANGED <<screen, rendered>>
  /\ UNCHANGED <<isTTY, current, lastStatic, history, done, frames, log, calls>>

(* ... and finish writes its line without the mutex; a plain Close does not. *)
Final ==
  /\ pc = "final"
  /\ pc' = "finished"
  /\ \/ \E m \in Messages : WriteLine(screen, m)
     \/ UNCHANGED <<screen, log>>
  /\ UNCHANGED <<isTTY, state, done, frames, calls>>

(***************************************************************************)
(* renderLoop                                                              *)
(***************************************************************************)

(* The ticker fires every 120 ms.  When the channel is closed as well, the *)
(* select may take either.                                                 *)
TakeTick ==
  /\ loop = "select"
  /\ Len(screen.rows) <= MaxRows
  /\ loop' = "draw"
  /\ UNCHANGED <<isTTY, screen, state, done, pc, drawn, late, tall, log, calls>>

(* The entries of a frame, which renderLocked calls its lines. *)
LiveLines == <<current>> \o history

(* renderLocked, without a message nothing: it moves the cursor to where   *)
(* the last frame began, if that had a row for each of its entries ...     *)
Draw ==
  /\ loop = "draw"
  /\ IF current = None
       THEN /\ loop' = "select"
            /\ UNCHANGED <<screen, late, tall>>
       ELSE /\ loop' = "write"
            /\ screen' = Top(screen, rendered)
            /\ late' = (late \/ done)
            /\ tall' = (tall \/ \E i \in 1..Len(LiveLines) : Height[LiveLines[i]] > 1)
  /\ UNCHANGED <<isTTY, state, done, pc, drawn, log, calls>>

(* ... and writes the entries, each on a row that it erases first.  (The   *)
(* history never shrinks, so that no entry of the last frame remains.)     *)
DrawLine ==
  /\ loop = "write"
  /\ LET line == LiveLines[drawn + 1]
         row  == IF drawn = 0 THEN screen ELSE NewLine(screen)
     IN  screen' = Put(Erased(row, 1), Live(line), Height[line])
  /\ IF drawn + 1 < Len(LiveLines)
       THEN /\ drawn' = drawn + 1
            /\ UNCHANGED <<loop, rendered>>
       ELSE /\ drawn' = 0
            /\ loop' = "select"
            /\ rendered' = Len(LiveLines)
  /\ UNCHANGED <<isTTY, current, lastStatic, history, done, pc, late, tall, log, calls>>

(* Mutant: the goroutine leaves only when there is nothing to show. *)
StopIdle ==
  /\ loop = "select"
  /\ done
  /\ current = None
  /\ loop' = "ended"
  /\ UNCHANGED <<isTTY, screen, state, done, pc, drawn, late, tall, log, calls>>

Stop ==
  /\ loop = "select"
  /\ done
  /\ loop' = "ended"
  /\ UNCHANGED <<isTTY, screen, state, done, pc, drawn, late, tall, log, calls>>

-----------------------------------------------------------------------------
Next ==
  \/ \E m \in Messages : Updatef(m) \/ Eventf(m) \/ Printf(m)
  \/ Close \/ Clear \/ Final
  \/ TakeTick \/ Draw \/ DrawLine \/ Stop

Spec == Init /\ [][Next]_vars

(* The goroutine is scheduled, the mutex is never held for long, and       *)
(* select chooses at random between channels that are ready.               *)
FairSpec == Spec /\ WF_vars(Draw) /\ WF_vars(DrawLine) /\ SF_vars(Stop)

-----------------------------------------------------------------------------
Texts == [kind : {"log", "live"}, text : Messages]

TypeOK ==
  /\ isTTY \in BOOLEAN
  /\ screen.row \in 1..Len(screen.rows)
  /\ \A i \in 1..Len(screen.rows) : Range(screen.rows[i]) \subseteq Texts
  /\ screen.start \in BOOLEAN
  /\ {current, lastStatic} \subseteq Messages \cup {None}
  /\ Range(history) \subseteq Messages /\ Len(history) <= MaxHistory
  /\ rendered \in 0..(MaxHistory + 1)
  /\ done \in BOOLEAN /\ late \in BOOLEAN /\ tall \in BOOLEAN
  /\ pc \in {"run", "clear", "final", "finished"}
  /\ loop \in {"select", "draw", "write", "ended"}
  /\ drawn \in 0..MaxHistory
  /\ Range(logged) \subseteq Texts /\ Range(places) \subseteq Nat \ {0}
  /\ calls \in 0..MaxCalls

(* Whatever the frames hold, every line that was logged stays on the       *)
(* screen where it was written, in order and with nothing else on its      *)
(* rows: until a frame is begun after Close.                               *)
LogLinesStay ==
  ~late =>
    /\ Len(places) = Len(logged)
    /\ \A i \in 1..Len(logged) : screen.rows[places[i]] = <<logged[i]>>
    /\ \A i, j \in 1..Len(places) : i < j => places[i] < places[j]

(* What a reader of the terminal expects: the lines that were logged, then *)
(* the live block, then nothing.                                           *)
Expected ==
  LET live == IF rendered = 0 THEN <<>> ELSE [i \in 1..Len(LiveLines) |-> Live(LiveLines[i])]
  IN  logged \o live

Shows ==
  /\ Len(Expected) <= Len(screen.rows)
  /\ \A i \in 1..Len(screen.rows) :
       screen.rows[i] = IF i <= Len(Expected) THEN <<Expected[i]>> ELSE <<>>

(* The cursor is where the next write expects it. *)
CursorEndsBlock ==
  /\ screen.row = Len(logged) + (IF rendered = 0 THEN 1 ELSE rendered)
  /\ screen.start <=> rendered = 0

(* However frames and log lines alternate, no frame is left behind and     *)
(* nothing stands between the log and the live block, until a frame is     *)
(* begun after Close, as long as every entry fills one row.                *)
ScreenIsLogAndLiveBlock == Unlocked /\ ~late /\ ~tall => Shows /\ CursorEndsBlock

(* A command that has printed its last line leaves nothing else behind. *)
FinalScreenIsLog == pc = "finished" /\ Unlocked => rendered = 0 /\ Shows

(* The next frame is drawn over the last one, whatever the two hold. *)
FramesReplaceEachOther == Unlocked /\ ~late /\ rendered # 0 => CursorEndsBlock

(* The goroutine does not outlive the display. *)
LoopEnds == done ~> loop = "ended"
=============================================================================
