-------------------------- MODULE LiveProgressProofs --------------------------
(* Theorems about LiveProgress. *)
EXTENDS LiveProgress, SequenceTheorems, TLAPS

(***************************************************************************)
(* The terminal.  Whatever is written, the cursor stays in a row of the    *)
(* screen; what each operation makes of a screen s is said with RowAt,     *)
(* which does not ask how many rows there are.                             *)
(***************************************************************************)
Row == Seq(Texts)

Screen(s) ==
  /\ s \in [rows : Seq(Row), row : Nat \ {0}, start : BOOLEAN]
  /\ s.row <= Len(s.rows)

IsRewritten(r, s, end, new) ==
  /\ Screen(r) /\ r.row = end
  /\ \A i \in Nat \ {0} : RowAt(r, i) = IF i \in s.row..end THEN new[i] ELSE RowAt(s, i)

IsPut(r, s, t, n) ==
  /\ Screen(r) /\ r.row = s.row + n - 1 /\ r.start = FALSE
  /\ \A i \in Nat \ {0} :
       RowAt(r, i) = IF i \notin s.row..(s.row + n - 1) THEN RowAt(s, i)
                     ELSE IF i = s.row /\ ~s.start THEN Append(RowAt(s, i), t)
                     ELSE <<t>> \o RowAt(s, i)

IsErased(r, s, n) ==
  /\ Screen(r) /\ r.row = s.row + n - 1 /\ r.start = TRUE
  /\ \A i \in Nat \ {0} :
       RowAt(r, i) = IF i \in s.row..(s.row + n - 1) THEN <<>> ELSE RowAt(s, i)

IsNewLine(r, s) ==
  /\ Screen(r) /\ r.row = s.row + 1 /\ r.start = TRUE
  /\ \A i \in Nat \ {0} : RowAt(r, i) = RowAt(s, i)

IsTop(r, s, n) ==
  /\ Screen(r) /\ r.start = TRUE
  /\ s.row >= n => r.row = s.row + 1 - maxInt(1, n)
  /\ \A i \in Nat \ {0} : RowAt(r, i) = RowAt(s, i)

(* A block of n rows that ends at the cursor is empty. *)
IsCleared(r, s, n) ==
  /\ Screen(r)
  /\ n = 0 => r = s
  /\ n # 0 => r.start = TRUE
  /\ s.row >= n =>
       /\ r.row = s.row + 1 - maxInt(1, n)
       /\ n # 0 => \A i \in Nat \ {0} :
                     RowAt(r, i) = IF i \in (s.row + 1 - n)..s.row THEN <<>> ELSE RowAt(s, i)

(* A line is alone on its rows where it starts an empty row with empty     *)
(* ones below it.                                                          *)
IsLine(r, s, t, n) ==
  /\ Screen(r) /\ r.row = s.row + n /\ r.start = TRUE
  /\ s.start /\ (\A i \in Nat \ {0} : i >= s.row => RowAt(s, i) = <<>>) =>
       \A i \in Nat \ {0} :
         RowAt(r, i) = IF i \in s.row..(s.row + n - 1) THEN <<t>> ELSE RowAt(s, i)

(* An entry is alone on its first row, and what is above and below its     *)
(* rows stays.                                                             *)
IsEntry(r, s, t, n) ==
  /\ Screen(r) /\ r.row = s.row + n - 1 /\ r.start = FALSE
  /\ RowAt(r, s.row) = <<t>>
  /\ \A i \in Nat \ {0} : i \notin s.row..(s.row + n - 1) => RowAt(r, i) = RowAt(s, i)

LEMMA SeqOf ==
  ASSUME NEW S, NEW n \in Nat, NEW f \in [1..n -> S]
  PROVE  f \in Seq(S) /\ Len(f) = n
BY SeqDef

LEMMA MessageTexts == ASSUME NEW m \in Messages PROVE Log(m) \in Texts /\ Live(m) \in Texts
BY DEF Log, Live, Texts

LEMMA RowType == ASSUME NEW s, Screen(s), NEW i \in Nat \ {0} PROVE RowAt(s, i) \in Row
BY DEF Screen, RowAt, Row

LEMMA Rewriting ==
  ASSUME NEW s, Screen(s), NEW end \in Nat, s.row <= end, NEW new \in [s.row..end -> Row],
         NEW start \in BOOLEAN, NEW r,
         r = [rows |-> Rows(s, end, new), row |-> end, start |-> start]
  PROVE  IsRewritten(r, s, end, new)
<1> DEFINE len == maxInt(end, Len(s.rows))
           rows == [i \in 1..len |-> IF i \in s.row..end THEN new[i] ELSE s.rows[i]]
<1>a. s.rows \in Seq(Row) /\ Len(s.rows) \in Nat /\ s.row \in Nat \ {0} /\ s.row <= Len(s.rows)
  BY DEF Screen
<1>1. len \in Nat /\ end <= len /\ Len(s.rows) <= len /\ (len = end \/ len = Len(s.rows))
  BY <1>a DEF maxInt
<1>2. rows \in [1..len -> Row]
  BY <1>a, <1>1
<1>3. r.rows = rows /\ r = [rows |-> rows, row |-> end, start |-> start]
  BY DEF Rows
<1>4. \A i \in 1..len : rows[i] = IF i \in s.row..end THEN new[i] ELSE s.rows[i]
  OBVIOUS
<1> HIDE DEF rows, len
<1>5. rows \in Seq(Row) /\ Len(rows) = len
  BY <1>1, <1>2, SeqOf
<1>6. Screen(r) /\ r.row = end
  BY <1>a, <1>1, <1>3, <1>5 DEF Screen
<1>7. ASSUME NEW i \in Nat \ {0}
      PROVE  RowAt(r, i) = IF i \in s.row..end THEN new[i] ELSE RowAt(s, i)
  BY <1>a, <1>1, <1>3, <1>4, <1>5 DEF RowAt
<1> QED
  BY <1>6, <1>7 DEF IsRewritten

LEMMA Putting ==
  ASSUME NEW s, Screen(s), NEW t \in Texts, NEW n \in Nat \ {0}
  PROVE  IsPut(Put(s, t, n), s, t, n)
<1> DEFINE end == s.row + n - 1
           new == [i \in s.row..end |-> IF i = s.row /\ ~s.start THEN Append(RowAt(s, i), t)
                                        ELSE <<t>> \o RowAt(s, i)]
           r == Put(s, t, n)
<1>1. s.row \in Nat \ {0} /\ end \in Nat /\ s.row <= end
  BY DEF Screen
<1>2. new \in [s.row..end -> Row]
  <2> SUFFICES ASSUME NEW i \in s.row..end
               PROVE  /\ Append(RowAt(s, i), t) \in Row
                      /\ <<t>> \o RowAt(s, i) \in Row
    OBVIOUS
  <2>1. RowAt(s, i) \in Seq(Texts)
    BY <1>1, RowType DEF Row
  <2> QED
    BY <2>1 DEF Row
<1>3. r = [rows |-> Rows(s, end, new), row |-> end, start |-> FALSE]
  BY DEF Put
<1>4. \A i \in s.row..end :
        new[i] = IF i = s.row /\ ~s.start THEN Append(RowAt(s, i), t) ELSE <<t>> \o RowAt(s, i)
  OBVIOUS
<1>5. IsRewritten(r, s, end, new)
  <2> HIDE DEF new, end, r
  <2> QED
    BY <1>1, <1>2, <1>3, Rewriting
<1>6. r.start = FALSE
  BY <1>3
<1> HIDE DEF new, r
<1> QED
  BY <1>4, <1>5, <1>6 DEF IsPut, IsRewritten, r

LEMMA Erasing ==
  ASSUME NEW s, Screen(s), NEW n \in Nat \ {0}
  PROVE  IsErased(Erased(s, n), s, n)
<1> DEFINE end == s.row + n - 1
           new == [i \in s.row..end |-> <<>>]
           r == Erased(s, n)
<1>1. s.row \in Nat \ {0} /\ end \in Nat /\ s.row <= end
  BY DEF Screen
<1>2. new \in [s.row..end -> Row] /\ \A i \in s.row..end : new[i] = <<>>
  BY DEF Row
<1>3. r = [rows |-> Rows(s, end, new), row |-> end, start |-> TRUE]
  BY DEF Erased
<1>5. IsRewritten(r, s, end, new)
  <2> HIDE DEF new, end, r
  <2> QED
    BY <1>1, <1>2, <1>3, Rewriting
<1>6. r.start = TRUE
  BY <1>3
<1> HIDE DEF new, r
<1> QED
  BY <1>2, <1>5, <1>6 DEF IsErased, IsRewritten, r

LEMMA NewLining ==
  ASSUME NEW s, Screen(s)
  PROVE  IsNewLine(NewLine(s), s)
<1>1. s.rows \in Seq(Row) /\ Len(s.rows) \in Nat /\ s.row \in Nat \ {0} /\ s.row <= Len(s.rows)
  BY DEF Screen
<1>2. /\ Append(s.rows, <<>>) \in Seq(Row) /\ Len(Append(s.rows, <<>>)) = Len(s.rows) + 1
      /\ \A i \in 1..Len(s.rows) : Append(s.rows, <<>>)[i] = s.rows[i]
      /\ Append(s.rows, <<>>)[Len(s.rows) + 1] = <<>>
  <2>1. <<>> \in Row
    BY DEF Row
  <2> QED
    BY <1>1, <2>1
<1>3. CASE s.row = Len(s.rows)
  <2>1. NewLine(s) = [rows |-> Append(s.rows, <<>>), row |-> s.row + 1, start |-> TRUE]
    BY <1>3 DEF NewLine
  <2> QED
    BY <1>1, <1>2, <1>3, <2>1 DEF IsNewLine, Screen, RowAt
<1>4. CASE s.row # Len(s.rows)
  <2>1. NewLine(s) = [rows |-> s.rows, row |-> s.row + 1, start |-> TRUE]
    BY <1>4 DEF NewLine
  <2> QED
    BY <1>1, <1>4, <2>1 DEF IsNewLine, Screen, RowAt
<1> QED
  BY <1>3, <1>4

LEMMA MovingUp ==
  ASSUME NEW s, Screen(s), NEW n \in Nat
  PROVE  IsTop(Top(s, n), s, n)
BY DEF IsTop, Screen, Top, Up, Return, RowAt, maxInt

LEMMA Clearing ==
  ASSUME NEW s, Screen(s), NEW n \in Nat
  PROVE  IsCleared(Cleared(s, n), s, n)
<1>a. s.row \in Nat \ {0}
  BY DEF Screen
<1>1. CASE n = 0
  BY <1>1, <1>a DEF Cleared, maxInt, IsCleared
<1>2. CASE n # 0
  <2> DEFINE top == Top(s, n)
             erased == Erased(top, n)
             r == Cleared(s, n)
  <2>1. IsTop(top, s, n)
    BY MovingUp
  <2>2. r = Top(erased, n) /\ n \in Nat \ {0} /\ maxInt(1, n) = n
    BY <1>2 DEF Cleared, maxInt
  <2>3. IsErased(erased, top, n)
    <3> HIDE DEF top
    <3> QED
      BY <2>1, <2>2, Erasing DEF IsTop
  <2>4. IsTop(r, erased, n)
    <3> HIDE DEF erased, r
    <3> QED
      BY <2>2, <2>3, MovingUp DEF IsErased
  <2> HIDE DEF top, erased, r
  <2>5. ASSUME s.row >= n
        PROVE  /\ r.row = s.row + 1 - n
               /\ \A i \in Nat \ {0} :
                    RowAt(r, i) = IF i \in (s.row + 1 - n)..s.row THEN <<>> ELSE RowAt(s, i)
    <3>1. top.row = s.row + 1 - n
      BY <2>1, <2>2, <2>5 DEF IsTop
    <3>2. top.row + n - 1 = s.row /\ erased.row = s.row
      BY <1>a, <2>2, <2>3, <3>1 DEF IsErased
    <3>3. r.row = s.row + 1 - n
      BY <2>2, <2>4, <2>5, <3>2 DEF IsTop
    <3>4. ASSUME NEW i \in Nat \ {0}
          PROVE  RowAt(r, i) = IF i \in (s.row + 1 - n)..s.row THEN <<>> ELSE RowAt(s, i)
      <4>1. RowAt(r, i) = RowAt(erased, i) /\ RowAt(top, i) = RowAt(s, i)
        BY <2>1, <2>4 DEF IsTop
      <4>2. RowAt(erased, i) = IF i \in top.row..(top.row + n - 1) THEN <<>> ELSE RowAt(top, i)
        BY <2>3 DEF IsErased
      <4> QED
        BY <3>1, <3>2, <4>1, <4>2
    <3> QED
      BY <3>3, <3>4
  <2>6. Screen(r) /\ r.start = TRUE
    BY <2>4 DEF IsTop
  <2>7. IsCleared(r, s, n)
    BY <1>2, <2>2, <2>5, <2>6 DEF IsCleared
  <2> QED
    BY <2>7 DEF r
<1> QED
  BY <1>1, <1>2

LEMMA Logging ==
  ASSUME NEW s, Screen(s), NEW t \in Texts, NEW n \in Nat \ {0}
  PROVE  IsLine(NewLine(Put(s, t, n)), s, t, n)
<1> DEFINE p == Put(s, t, n)
           r == NewLine(p)
<1>1. IsPut(p, s, t, n)
  BY Putting
<1>2. s.row \in Nat \ {0} /\ <<t>> \o <<>> = <<t>>
  BY DEF Screen
<1>3. IsNewLine(r, p)
  <2> HIDE DEF p
  <2> QED
    BY <1>1, NewLining DEF IsPut
<1> HIDE DEF p, r
<1>4. ASSUME s.start, \A i \in Nat \ {0} : i >= s.row => RowAt(s, i) = <<>>, NEW i \in Nat \ {0}
      PROVE  RowAt(r, i) = IF i \in s.row..(s.row + n - 1) THEN <<t>> ELSE RowAt(s, i)
  <2>1. RowAt(r, i) = RowAt(p, i)
    BY <1>3 DEF IsNewLine
  <2>2. RowAt(p, i) = IF i \notin s.row..(s.row + n - 1) THEN RowAt(s, i) ELSE <<t>> \o RowAt(s, i)
    BY <1>1, <1>4 DEF IsPut
  <2>3. i \in s.row..(s.row + n - 1) => RowAt(s, i) = <<>>
    BY <1>2, <1>4
  <2>4. i \in s.row..(s.row + n - 1) => RowAt(p, i) = <<t>>
    BY <1>2, <2>2, <2>3
  <2> QED
    BY <2>1, <2>2, <2>4
<1>5. Screen(r) /\ r.row = s.row + n /\ r.start = TRUE
  BY <1>1, <1>2, <1>3 DEF IsNewLine, IsPut
<1> QED
  BY <1>4, <1>5 DEF IsLine, r, p

LEMMA Drawing ==
  ASSUME NEW s, Screen(s), NEW t \in Texts, NEW n \in Nat \ {0}
  PROVE  IsEntry(Put(Erased(s, 1), t, n), s, t, n)
<1> DEFINE e == Erased(s, 1)
           r == Put(e, t, n)
<1>1. s.row \in Nat \ {0} /\ s.row + 1 - 1 = s.row /\ 1 \in Nat \ {0} /\ <<t>> \o <<>> = <<t>>
  BY DEF Screen
<1>2. IsErased(e, s, 1)
  BY <1>1, Erasing
<1>3. IsPut(r, e, t, n)
  <2> HIDE DEF e
  <2> QED
    BY <1>2, Putting DEF IsErased
<1> HIDE DEF e, r
<1>4. e.row = s.row /\ e.start = TRUE
  BY <1>1, <1>2 DEF IsErased
<1>5. \A i \in Nat \ {0} : RowAt(e, i) = IF i = s.row THEN <<>> ELSE RowAt(s, i)
  BY <1>1, <1>2 DEF IsErased
<1>6. Screen(r) /\ r.row = s.row + n - 1 /\ r.start = FALSE
  BY <1>3, <1>4 DEF IsPut
<1>7. ASSUME NEW i \in Nat \ {0}
      PROVE  RowAt(r, i) = IF i \notin s.row..(s.row + n - 1) THEN RowAt(e, i)
                           ELSE <<t>> \o RowAt(e, i)
  BY <1>3, <1>4 DEF IsPut
<1>8. RowAt(r, s.row) = <<t>>
  BY <1>1, <1>5, <1>7
<1>9. ASSUME NEW i \in Nat \ {0}, i \notin s.row..(s.row + n - 1)
      PROVE  RowAt(r, i) = RowAt(s, i)
  BY <1>1, <1>5, <1>7, <1>9
<1> QED
  BY <1>6, <1>8, <1>9 DEF IsEntry, r, e

-----------------------------------------------------------------------------
(***************************************************************************)
(* The inductive invariant.  A frame is written over the last Counted rows *)
(* down to the cursor, from row First on; a log line is never in these     *)
(* rows, and below the rows of the block, old or new, there is nothing.    *)
(* While every entry fills one row, the rows of the block are its entries, *)
(* and First follows the log.                                              *)
(***************************************************************************)
Counted == IF loop = "write" THEN drawn ELSE rendered
First   == screen.row + 1 - maxInt(1, Counted)

TypeInv ==
  /\ isTTY \in BOOLEAN
  /\ Screen(screen)
  /\ current \in Messages \cup {None}
  /\ history \in Seq(Messages) /\ Len(history) <= MaxHistory
  /\ rendered \in 0..(MaxHistory + 1)
  /\ done \in BOOLEAN /\ late \in BOOLEAN /\ tall \in BOOLEAN
  /\ pc \in {"run", "clear", "final", "finished"}
  /\ loop \in {"select", "draw", "write", "ended"}
  /\ drawn \in 0..MaxHistory
  /\ logged \in Seq(Texts) /\ places \in Seq(Nat \ {0})
  /\ calls \in 0..MaxCalls

Mode ==
  /\ lastStatic = current
  /\ rendered # 0 => current # None /\ rendered = Len(history) + 1
  /\ ~isTTY => rendered = 0 /\ loop = "ended"
  /\ loop = "write" => current # None /\ drawn <= Len(history)
  /\ loop # "write" => drawn = 0
  /\ pc # "run" => done
  /\ pc \in {"final", "finished"} /\ loop = "write" => late
  /\ pc = "final" /\ ~late => rendered = 0

Logs(s, first) ==
  /\ Len(places) = Len(logged)
  /\ \A i \in 1..Len(places) : places[i] < first /\ RowAt(s, places[i]) = <<logged[i]>>
  /\ \A i, j \in 1..Len(places) : i < j => places[i] < places[j]

Blank(s, first) == \A i \in Nat \ {0} : i >= first => RowAt(s, i) = <<>>

LogIsAbove == ~late => First >= 1 /\ Logs(screen, First)

RestIsEmpty ==
  ~late =>
    /\ Blank(screen, maxInt(screen.row + 1, First + maxInt(1, rendered)))
    /\ Unlocked /\ rendered = 0 => screen.start /\ RowAt(screen, screen.row) = <<>>

Numbered == \A i \in 1..Len(places) : places[i] = i

BlockIsCurrent ==
  ~late /\ ~tall =>
    /\ First = Len(logged) + 1 /\ Numbered
    /\ \A k \in 1..Counted : RowAt(screen, Len(logged) + k) = <<Live(LiveLines[k])>>
    /\ Unlocked => (screen.start <=> rendered = 0)
    /\ loop = "write" => \A k \in 1..Len(LiveLines) : Height[LiveLines[k]] = 1

IInv == TypeInv /\ Mode /\ LogIsAbove /\ RestIsEmpty /\ BlockIsCurrent

(* Without a block the cursor is at the start of the row after the log,    *)
(* and that row and what is below it are empty.                            *)
Ready(s) == s.start /\ Blank(s, s.row) /\ Logs(s, s.row)
Dense(s) == s.row = Len(logged) + 1 /\ Numbered

LEMMA LiveLinesType ==
  ASSUME TypeInv, current # None
  PROVE  LiveLines \in Seq(Messages) /\ Len(LiveLines) = Len(history) + 1
<1>1. current \in Messages /\ history \in Seq(Messages)
  BY DEF TypeInv
<1>2. <<current>> \in Seq(Messages) /\ Len(<<current>>) = 1
  BY <1>1
<1> QED
  BY <1>1, <1>2 DEF LiveLines

LEMMA RememberType ==
  ASSUME TypeInv, NEW m \in Messages, Remember(m)
  PROVE  history' \in Seq(Messages) /\ Len(history') <= MaxHistory
<1> DEFINE h == Append(history, m)
           first == IF Len(h) > MaxHistory THEN 2 ELSE 1
<1>1. history \in Seq(Messages) /\ Len(history) <= MaxHistory /\ MaxHistory \in Nat \ {0}
  BY ProgressAssumption DEF TypeInv
<1>2. h \in Seq(Messages) /\ Len(h) = Len(history) + 1
  BY <1>1
<1>3. first \in 1..Len(h) /\ Len(h) - first + 1 <= MaxHistory
  BY <1>1, <1>2
<1>4. history' = history \/ history' = SubSeq(h, first, Len(h))
  BY DEF Remember
<1> HIDE DEF h, first
<1>5. SubSeq(h, first, Len(h)) \in Seq(Messages) /\ Len(SubSeq(h, first, Len(h))) = Len(h) - first + 1
  BY <1>2, <1>3
<1> QED
  BY <1>1, <1>3, <1>4, <1>5

(* The rows of a block that is erased are the last ones above the cursor. *)
LEMMA ClearedIsReady ==
  ASSUME IInv, Unlocked
  PROVE  LET c == Cleared(screen, rendered)
         IN  /\ Screen(c)
             /\ ~late => Ready(c)
             /\ ~late /\ ~tall => Dense(c)
<1> DEFINE c == Cleared(screen, rendered)
<1>1. /\ Screen(screen) /\ screen.row \in Nat \ {0} /\ rendered \in Nat
      /\ logged \in Seq(Texts) /\ places \in Seq(Nat \ {0})
  BY ProgressAssumption DEF IInv, TypeInv, Screen
<1>2. IsCleared(c, screen, rendered)
  BY <1>1, Clearing
<1>3. Counted = rendered /\ First = screen.row + 1 - maxInt(1, rendered)
  BY DEF Unlocked, Counted, First
<1> HIDE DEF c
<1>4. Screen(c)
  BY <1>2 DEF IsCleared
<1>5. ASSUME ~late PROVE Ready(c) /\ c.row = First
  <2>1. First >= 1 /\ Logs(screen, First) /\ Blank(screen, screen.row + 1)
    BY <1>1, <1>3, <1>5 DEF IInv, LogIsAbove, RestIsEmpty, maxInt
  <2>2. screen.row >= rendered
    BY <1>1, <1>3, <2>1 DEF maxInt
  <2>3. c.row = First
    BY <1>2, <1>3, <2>2 DEF IsCleared
  <2>4. CASE rendered = 0
    <3>1. c = screen /\ screen.start /\ RowAt(screen, screen.row) = <<>>
      BY <1>2, <1>5, <2>4 DEF IsCleared, IInv, RestIsEmpty
    <3> QED
      BY <1>1, <2>1, <2>3, <3>1 DEF Ready, Blank
  <2>5. CASE rendered # 0
    <3>1. First = screen.row + 1 - rendered
      BY <1>1, <1>3, <2>5 DEF maxInt
    <3>2. \A i \in Nat \ {0} :
            RowAt(c, i) = IF i \in First..screen.row THEN <<>> ELSE RowAt(screen, i)
      BY <1>2, <2>2, <2>5, <3>1 DEF IsCleared
    <3>3. Blank(c, First)
      BY <1>1, <2>1, <3>1, <3>2 DEF Blank
    <3>4. Logs(c, First)
      BY <1>1, <2>1, <3>1, <3>2 DEF Logs
    <3> QED
      BY <1>2, <2>3, <2>5, <3>3, <3>4 DEF Ready, IsCleared
  <2> QED
    BY <2>3, <2>4, <2>5
<1>6. ASSUME ~late, ~tall PROVE Dense(c)
  BY <1>5, <1>6 DEF Dense, IInv, BlockIsCurrent
<1> QED
  BY <1>4, <1>5, <1>6 DEF c

(* A line goes below the lines before it. *)
LEMMA LineIsLogged ==
  ASSUME TypeInv, NEW s, Screen(s), NEW m \in Messages, WriteLine(s, m)
  PROVE  /\ Screen(screen') /\ logged' \in Seq(Texts) /\ places' \in Seq(Nat \ {0})
         /\ Ready(s) => Ready(screen)'
         /\ Ready(s) /\ Dense(s) => Dense(screen)'
<1> DEFINE n == Height[m]
           rows == [i \in 1..n |-> Log(m)]
           at == [i \in 1..n |-> s.row + i - 1]
<1>1. n \in Nat \ {0} /\ s.row \in Nat \ {0} /\ Log(m) \in Texts
  BY MessageTexts, ProgressAssumption DEF Screen
<1>2. rows \in [1..n -> Texts] /\ at \in [1..n -> Nat \ {0}]
  BY <1>1
<1>3. /\ \A i \in 1..n : rows[i] = Log(m)
      /\ \A i \in 1..n : at[i] = s.row + i - 1
  OBVIOUS
<1>4. logged' = logged \o rows /\ places' = places \o at /\ screen' = NewLine(Put(s, Log(m), n))
  BY DEF WriteLine
<1> HIDE DEF n, rows, at
<1>5. rows \in Seq(Texts) /\ Len(rows) = n /\ at \in Seq(Nat \ {0}) /\ Len(at) = n
  BY <1>1, <1>2, SeqOf
<1>6. logged \in Seq(Texts) /\ places \in Seq(Nat \ {0})
  BY DEF TypeInv
<1>7. /\ logged' \in Seq(Texts) /\ Len(logged') = Len(logged) + n
      /\ \A i \in 1..(Len(logged) + n) :
           logged'[i] = IF i <= Len(logged) THEN logged[i] ELSE Log(m)
  <2>1. /\ logged' \in Seq(Texts) /\ Len(logged') = Len(logged) + n
        /\ \A i \in 1..(Len(logged) + n) :
             logged'[i] = IF i <= Len(logged) THEN logged[i] ELSE rows[i - Len(logged)]
    BY <1>4, <1>5, <1>6, ConcatProperties
  <2>2. ASSUME NEW i \in 1..(Len(logged) + n), i > Len(logged)
        PROVE  rows[i - Len(logged)] = Log(m)
    <3>1. i - Len(logged) \in 1..n
      BY <1>1, <1>6, <2>2
    <3> QED
      BY <1>3, <3>1
  <2> QED
    BY <1>6, <2>1, <2>2
<1>8. /\ places' \in Seq(Nat \ {0}) /\ Len(places') = Len(places) + n
      /\ \A i \in 1..(Len(places) + n) :
           places'[i] = IF i <= Len(places) THEN places[i] ELSE s.row + (i - Len(places)) - 1
  <2>1. /\ places' \in Seq(Nat \ {0}) /\ Len(places') = Len(places) + n
        /\ \A i \in 1..(Len(places) + n) :
             places'[i] = IF i <= Len(places) THEN places[i] ELSE at[i - Len(places)]
    BY <1>4, <1>5, <1>6, ConcatProperties, ZenonT(60)
  <2>2. ASSUME NEW i \in 1..(Len(places) + n), i > Len(places)
        PROVE  at[i - Len(places)] = s.row + (i - Len(places)) - 1
    <3>1. i - Len(places) \in 1..n
      BY <1>1, <1>6, <2>2
    <3> QED
      BY <1>3, <3>1
  <2> QED
    BY <1>6, <2>1, <2>2
<1>9. IsLine(screen', s, Log(m), n)
  BY <1>1, <1>4, Logging
<1>10. Screen(screen') /\ screen'.row = s.row + n /\ screen'.start
  BY <1>9 DEF IsLine
<1>11. ASSUME Ready(s) PROVE Ready(screen)'
  <2>1. \A i \in Nat \ {0} :
          RowAt(screen', i) = IF i \in s.row..(s.row + n - 1) THEN <<Log(m)>> ELSE RowAt(s, i)
    BY <1>9, <1>11 DEF IsLine, Ready, Blank
  <2>2. Blank(screen', s.row + n)
    BY <1>1, <1>11, <2>1 DEF Ready, Blank
  <2>3. Len(places) = Len(logged) /\ Len(places) \in Nat
    BY <1>6, <1>11 DEF Ready, Logs
  <2>4. ASSUME NEW i \in 1..Len(places')
        PROVE  places'[i] < s.row + n /\ RowAt(screen', places'[i]) = <<logged'[i]>>
    <3>1. CASE i <= Len(places)
      <4>1. places'[i] = places[i] /\ logged'[i] = logged[i] /\ i \in 1..Len(places)
        BY <1>1, <1>7, <1>8, <2>3, <3>1
      <4>2. places[i] < s.row /\ RowAt(s, places[i]) = <<logged[i]>> /\ places[i] \in Nat \ {0}
        BY <1>6, <1>11, <4>1 DEF Ready, Logs
      <4> QED
        BY <1>1, <2>1, <4>1, <4>2
    <3>2. CASE i > Len(places)
      <4>1. /\ places'[i] = s.row + (i - Len(places)) - 1 /\ logged'[i] = Log(m)
            /\ i - Len(places) \in 1..n
        BY <1>1, <1>7, <1>8, <2>3, <3>2
      <4> QED
        BY <1>1, <2>1, <2>3, <4>1
    <3> QED
      BY <2>3, <3>1, <3>2
  <2>5. ASSUME NEW i \in 1..Len(places'), NEW j \in 1..Len(places'), i < j
        PROVE  places'[i] < places'[j]
    <3>1. \A k \in 1..Len(places) : places[k] < s.row /\ places[k] \in Nat
      BY <1>6, <1>11 DEF Ready, Logs
    <3>2. \A k, l \in 1..Len(places) : k < l => places[k] < places[l]
      BY <1>11 DEF Ready, Logs
    <3>3. CASE j <= Len(places)
      <4>1. i \in 1..Len(places) /\ j \in 1..Len(places)
        BY <1>8, <2>3, <2>5, <3>3
      <4>2. places'[i] = places[i] /\ places'[j] = places[j]
        BY <1>1, <1>8, <2>3, <2>5, <3>3
      <4> QED
        BY <2>5, <3>2, <4>1, <4>2
    <3>4. CASE i <= Len(places) /\ j > Len(places)
      <4>1. i \in 1..Len(places)
        BY <2>3, <2>5, <3>4
      <4>2. /\ places'[i] = places[i] /\ places'[j] = s.row + (j - Len(places)) - 1
            /\ j - Len(places) >= 1
        BY <1>1, <1>8, <2>3, <2>5, <3>4
      <4> QED
        BY <1>1, <2>3, <2>5, <3>1, <4>1, <4>2
    <3>5. CASE i > Len(places)
      <4>1. /\ places'[i] = s.row + (i - Len(places)) - 1
            /\ places'[j] = s.row + (j - Len(places)) - 1
        BY <1>1, <1>8, <2>3, <2>5, <3>5
      <4> QED
        BY <1>1, <1>8, <2>3, <2>5, <4>1
    <3> QED
      BY <1>8, <2>3, <2>5, <3>3, <3>4, <3>5
  <2>6. Len(places') = Len(logged')
    BY <1>7, <1>8, <2>3
  <2>7. Logs(screen, screen.row)'
    BY <1>10, <2>4, <2>5, <2>6 DEF Logs
  <2>8. Blank(screen, screen.row)'
    BY <1>10, <2>2 DEF Blank
  <2> QED
    BY <1>10, <2>7, <2>8 DEF Ready
<1>12. ASSUME Ready(s), Dense(s) PROVE Dense(screen)'
  <2>1. Len(places) = Len(logged) /\ Len(places) \in Nat /\ s.row = Len(logged) + 1
    BY <1>6, <1>12 DEF Ready, Logs, Dense
  <2>2. screen'.row = Len(logged') + 1
    BY <1>1, <1>7, <1>10, <2>1
  <2>3. ASSUME NEW i \in 1..Len(places') PROVE places'[i] = i
    <3>1. \A k \in 1..Len(places) : places[k] = k
      BY <1>12 DEF Dense, Numbered
    <3>2. CASE i <= Len(places)
      BY <1>1, <1>8, <2>1, <3>1, <3>2
    <3>3. CASE i > Len(places)
      BY <1>1, <1>8, <2>1, <3>3
    <3> QED
      BY <1>8, <2>1, <3>2, <3>3
  <2> QED
    BY <2>2, <2>3 DEF Dense, Numbered
<1> QED
  BY <1>7, <1>8, <1>10, <1>11, <1>12

(* A screen without a block is right when the log is. *)
LEMMA NoBlock ==
  ASSUME Screen(screen'), rendered' = 0, Unlocked', places' \in Seq(Nat \ {0}),
         logged' \in Seq(Texts),
         ~late' => Ready(screen)', ~late' /\ ~tall' => Dense(screen)'
  PROVE  LogIsAbove' /\ RestIsEmpty' /\ BlockIsCurrent'
<1>1. screen'.row \in Nat \ {0}
  BY DEF Screen
<1>2. Counted' = 0 /\ First' = screen'.row /\ loop' # "write"
  BY <1>1 DEF Counted, First, Unlocked, maxInt
<1>3. maxInt(screen'.row + 1, First' + maxInt(1, rendered')) = screen'.row + 1
  BY <1>1, <1>2 DEF maxInt
<1>4. LogIsAbove'
  BY <1>1, <1>2 DEF LogIsAbove, Ready, Logs
<1>5. RestIsEmpty'
  BY <1>1, <1>2, <1>3 DEF RestIsEmpty, Ready, Blank
<1>6. BlockIsCurrent'
  BY <1>1, <1>2 DEF BlockIsCurrent, Ready, Dense
<1> QED
  BY <1>4, <1>5, <1>6

-----------------------------------------------------------------------------
(* The first screen is empty. *)
LEMMA InvInit == ASSUME Init PROVE IInv
<1>1. /\ screen.rows = <<<<>>>> /\ screen.row = 1 /\ screen.start = TRUE
      /\ screen = [rows |-> <<<<>>>>, row |-> 1, start |-> TRUE]
  BY DEF Init
<1>2. screen.rows \in Seq(Row) /\ Len(screen.rows) = 1
  BY <1>1 DEF Row
<1>3. Screen(screen) /\ \A i \in Nat \ {0} : RowAt(screen, i) = <<>>
  BY <1>1, <1>2 DEF Screen, RowAt
<1>4. TypeInv
  <2>1. /\ history = <<>> /\ logged = <<>> /\ places = <<>> /\ Len(history) = 0
        /\ MaxHistory \in Nat /\ MaxCalls \in Nat
    BY ProgressAssumption DEF Init
  <2>2. /\ history \in Seq(Messages) /\ logged \in Seq(Texts) /\ places \in Seq(Nat \ {0})
        /\ Len(history) <= MaxHistory
    BY <2>1
  <2>3. rendered \in 0..(MaxHistory + 1) /\ calls \in 0..MaxCalls /\ drawn \in 0..MaxHistory
    BY <2>1 DEF Init
  <2>4. /\ isTTY \in BOOLEAN /\ done \in BOOLEAN /\ late \in BOOLEAN /\ tall \in BOOLEAN
        /\ current \in Messages \cup {None}
        /\ pc \in {"run", "clear", "final", "finished"}
        /\ loop \in {"select", "draw", "write", "ended"}
    BY DEF Init
  <2> QED
    BY <1>3, <2>2, <2>3, <2>4 DEF TypeInv
<1>5. Mode
  BY DEF Init, Mode
<1>6. /\ logged = <<>> /\ places = <<>> /\ Len(logged) = 0 /\ Len(places) = 0
      /\ rendered = 0 /\ loop # "write" /\ Counted = 0 /\ First = 1
  BY <1>1 DEF Init, Counted, First, maxInt
<1>7. LogIsAbove
  BY <1>6 DEF LogIsAbove, Logs
<1>8. RestIsEmpty
  BY <1>1, <1>3, <1>6 DEF RestIsEmpty, Blank, maxInt
<1>9. BlockIsCurrent
  BY <1>1, <1>6 DEF BlockIsCurrent, Numbered
<1> QED
  BY <1>4, <1>5, <1>7, <1>8, <1>9 DEF IInv

(* A call that logs a line: what else it changes is the history and the message. *)
LEMMA LoggingStep ==
  ASSUME IInv, NEW m \in Messages, LogLine(m), Unlocked, calls' \in 0..MaxCalls,
         current' \in Messages \cup {None}, lastStatic' = current',
         history' \in Seq(Messages), Len(history') <= MaxHistory,
         UNCHANGED <<isTTY, done, pc, frames>>
  PROVE  IInv'
<1> DEFINE c == Cleared(screen, rendered)
<1>1. WriteLine(c, m) /\ rendered' = 0
  BY DEF LogLine, IInv, Mode, Cleared
<1>2. Screen(c) /\ (~late => Ready(c)) /\ (~late /\ ~tall => Dense(c))
  BY ClearedIsReady
<1> HIDE DEF c
<1>3. /\ Screen(screen') /\ logged' \in Seq(Texts) /\ places' \in Seq(Nat \ {0})
      /\ Ready(c) => Ready(screen)'
      /\ Ready(c) /\ Dense(c) => Dense(screen)'
  BY <1>1, <1>2, LineIsLogged DEF IInv
<1>4. UNCHANGED <<loop, drawn, late, tall>> /\ Unlocked'
  BY DEF frames, Unlocked
<1>5. LogIsAbove' /\ RestIsEmpty' /\ BlockIsCurrent'
  BY <1>1, <1>2, <1>3, <1>4, NoBlock
<1>6. TypeInv'
  BY <1>1, <1>3, <1>4, ProgressAssumption DEF IInv, TypeInv
<1>7. Mode'
  BY <1>1, <1>4 DEF IInv, Mode, Unlocked
<1> QED
  BY <1>5, <1>6, <1>7 DEF IInv

(* A step that writes nothing, before the next that does. *)
LEMMA SilentStep ==
  ASSUME IInv, UNCHANGED <<isTTY, screen, state, drawn, late, tall, log>>,
         done' \in BOOLEAN, done => done', pc' \in {"run", "clear", "final", "finished"},
         loop' \in {"select", "draw", "write", "ended"}, loop' = "write" <=> loop = "write",
         ~isTTY => loop' = "ended", calls' \in 0..MaxCalls, pc' # "run" => done',
         pc' = "final" => pc = "final", pc' = "finished" => pc \in {"final", "finished"}
  PROVE  IInv'
<1>1. TypeInv'
  BY DEF IInv, TypeInv, state, log
<1>2. Mode'
  BY DEF IInv, Mode, state
<1>3. First' = First /\ Counted' = Counted /\ LiveLines' = LiveLines /\ Unlocked' = Unlocked
  BY DEF First, Counted, LiveLines, Unlocked, state, log
<1>4. UNCHANGED <<screen, rendered, late, tall, logged, places>>
  BY DEF state, log
<1>5. LogIsAbove' /\ RestIsEmpty'
  BY <1>3, <1>4 DEF IInv, LogIsAbove, RestIsEmpty, Logs, Blank
<1>6. BlockIsCurrent'
  BY <1>3, <1>4 DEF IInv, BlockIsCurrent, Numbered
<1> QED
  BY <1>1, <1>2, <1>5, <1>6 DEF IInv

(* The cursor goes to the first row that is counted. *)
LEMMA DrawStep == ASSUME IInv, Draw PROVE IInv'
<1>1. isTTY /\ loop = "draw" /\ UNCHANGED <<isTTY, state, done, pc, drawn, log, calls>>
  BY DEF Draw, IInv, Mode
<1>2. CASE current = None
  <2>1. UNCHANGED <<screen, late, tall>> /\ loop' = "select"
    BY <1>2 DEF Draw
  <2> QED
    BY <1>1, <2>1, SilentStep DEF IInv, TypeInv, Mode
<1>3. CASE current # None
  <2>1. /\ screen' = Top(screen, rendered) /\ late' = (late \/ done) /\ loop' = "write"
        /\ tall' = (tall \/ \E i \in 1..Len(LiveLines) : Height[LiveLines[i]] > 1)
    BY <1>3 DEF Draw
  <2>2. /\ Screen(screen) /\ rendered \in Nat /\ screen.row \in Nat \ {0} /\ drawn = 0
        /\ history \in Seq(Messages) /\ late \in BOOLEAN /\ tall \in BOOLEAN /\ done \in BOOLEAN
    BY <1>1, ProgressAssumption DEF IInv, TypeInv, Mode, Screen
  <2>3. IsTop(screen', screen, rendered)
    BY <2>1, <2>2, MovingUp
  <2>4. UNCHANGED <<current, lastStatic, history, rendered, logged, places>>
    BY <1>1 DEF state, log
  <2>5. TypeInv'
    <3>1. Screen(screen') /\ late' \in BOOLEAN /\ tall' \in BOOLEAN
      BY <2>1, <2>2, <2>3 DEF IsTop
    <3> QED
      BY <1>1, <2>1, <2>4, <3>1 DEF IInv, TypeInv
  <2>6. Mode'
    BY <1>1, <1>3, <2>1, <2>2, <2>4 DEF IInv, TypeInv, Mode
  <2>7. First = screen.row + 1 - maxInt(1, rendered)
    BY <1>1 DEF First, Counted
  <2>8. \A i \in Nat \ {0} : RowAt(screen', i) = RowAt(screen, i)
    BY <2>3 DEF IsTop
  <2>9. ASSUME ~late' PROVE ~late /\ First' = First /\ screen'.row = First /\ First >= 1
    <3>1. ~late /\ First >= 1
      BY <2>1, <2>2, <2>9 DEF IInv, LogIsAbove
    <3>2. screen.row >= rendered
      BY <2>2, <2>7, <3>1 DEF maxInt
    <3>3. screen'.row = First
      BY <2>3, <2>7, <3>2 DEF IsTop
    <3>4. First' = screen'.row
      <4>1. Counted' = 0
        BY <1>1, <2>1, <2>2 DEF Counted
      <4> QED
        BY <2>2, <2>7, <3>3, <4>1 DEF First, maxInt
    <3> QED
      BY <3>1, <3>3, <3>4
  <2>10. LogIsAbove'
    <3> SUFFICES ASSUME ~late' PROVE First' >= 1 /\ Logs(screen, First)'
      BY DEF LogIsAbove
    <3>1. Logs(screen, First)
      BY <2>9 DEF IInv, LogIsAbove
    <3>2. \A i \in 1..Len(places) : places[i] \in Nat \ {0}
      BY DEF IInv, TypeInv
    <3> QED
      BY <2>4, <2>8, <2>9, <3>1, <3>2 DEF Logs
  <2>11. RestIsEmpty'
    <3> SUFFICES ASSUME ~late'
                 PROVE  Blank(screen, maxInt(screen.row + 1, First + maxInt(1, rendered)))'
      BY <2>1 DEF RestIsEmpty, Unlocked
    <3>1. Blank(screen, maxInt(screen.row + 1, First + maxInt(1, rendered)))
      BY <2>9 DEF IInv, RestIsEmpty
    <3>2. /\ maxInt(screen.row + 1, First + maxInt(1, rendered)) = screen.row + 1
          /\ maxInt(screen'.row + 1, First' + maxInt(1, rendered')) = screen.row + 1
      BY <2>2, <2>4, <2>7, <2>9 DEF maxInt
    <3> QED
      BY <2>8, <3>1, <3>2 DEF Blank
  <2>12. BlockIsCurrent'
    <3> SUFFICES ASSUME ~late', ~tall'
                 PROVE  /\ (First = Len(logged) + 1 /\ Numbered)'
                        /\ Counted' = 0
                        /\ \A k \in 1..Len(LiveLines') : Height'[LiveLines'[k]] = 1
      BY <2>1 DEF BlockIsCurrent, Unlocked
    <3>1. ~tall /\ First = Len(logged) + 1 /\ Numbered
      BY <2>1, <2>9 DEF IInv, BlockIsCurrent
    <3>2. LiveLines' = LiveLines /\ LiveLines \in Seq(Messages)
      BY <1>3, <2>4, LiveLinesType DEF LiveLines, IInv
    <3>3. ASSUME NEW k \in 1..Len(LiveLines) PROVE Height[LiveLines[k]] = 1
      <4>1. LiveLines[k] \in Messages
        BY <3>2
      <4>2. Height[LiveLines[k]] \in Nat \ {0}
        BY <4>1, ProgressAssumption
      <4>3. ~(Height[LiveLines[k]] > 1)
        BY <2>1
      <4> QED
        BY <4>2, <4>3
    <3>4. Counted' = 0
      BY <1>1, <2>1, <2>2 DEF Counted
    <3> QED
      BY <2>4, <2>9, <3>1, <3>2, <3>3, <3>4 DEF Numbered
  <2> QED
    BY <2>5, <2>6, <2>10, <2>11, <2>12 DEF IInv
<1> QED
  BY <1>2, <1>3

(* An entry takes the row below the one before, and further rows as far as *)
(* it has them; the rows above First stay as they are.                     *)
LEMMA DrawLineStep == ASSUME IInv, DrawLine PROVE IInv'
<1> DEFINE line == LiveLines[drawn + 1]
           row == IF drawn = 0 THEN screen ELSE NewLine(screen)
           n == Height[line]
<1>1. /\ loop = "write" /\ screen' = Put(Erased(row, 1), Live(line), n)
      /\ UNCHANGED <<isTTY, current, lastStatic, history, done, pc, late, tall, log, calls>>
      /\ drawn + 1 < Len(LiveLines) => drawn' = drawn + 1 /\ UNCHANGED <<loop, rendered>>
      /\ ~(drawn + 1 < Len(LiveLines)) => drawn' = 0 /\ loop' = "select" /\ rendered' = Len(LiveLines)
  BY DEF DrawLine
<1>2. /\ Screen(screen) /\ screen.row \in Nat \ {0} /\ drawn \in Nat /\ rendered \in Nat
      /\ isTTY /\ current # None /\ drawn <= Len(history) /\ Len(history) \in 0..MaxHistory
      /\ MaxHistory \in Nat
      /\ (rendered = 0 \/ rendered = Len(history) + 1)
      /\ logged \in Seq(Texts) /\ places \in Seq(Nat \ {0})
  BY <1>1, ProgressAssumption DEF IInv, TypeInv, Mode, Screen
<1>3. LiveLines \in Seq(Messages) /\ Len(LiveLines) = Len(history) + 1
  BY <1>2, LiveLinesType DEF IInv
<1>4. line \in Messages
  BY <1>2, <1>3
<1>5. n \in Nat \ {0} /\ Live(line) \in Texts
  <2> HIDE DEF line
  <2> QED
    BY <1>4, MessageTexts, ProgressAssumption
<1>6. /\ Screen(row) /\ row.row = screen.row + (IF drawn = 0 THEN 0 ELSE 1)
      /\ \A i \in Nat \ {0} : RowAt(row, i) = RowAt(screen, i)
  <2>1. IsNewLine(NewLine(screen), screen)
    BY <1>2, NewLining
  <2> QED
    BY <1>2, <2>1 DEF IsNewLine
<1> HIDE DEF row, n
<1>7. IsEntry(screen', row, Live(line), n)
  <2> HIDE DEF line
  <2> QED
    BY <1>1, <1>5, <1>6, Drawing
<1> HIDE DEF line
<1>8. Counted = drawn /\ First = screen.row + 1 - maxInt(1, drawn)
  BY <1>1 DEF Counted, First
<1>9. row.row = First + drawn /\ First \in Int /\ row.row >= screen.row
  BY <1>2, <1>6, <1>8 DEF maxInt
<1>10. /\ Screen(screen') /\ screen'.row = First + drawn + n - 1 /\ screen'.start = FALSE
       /\ RowAt(screen', First + drawn) = <<Live(line)>>
       /\ \A i \in Nat \ {0} :
            i < First + drawn \/ i > screen'.row => RowAt(screen', i) = RowAt(screen, i)
  BY <1>2, <1>5, <1>6, <1>7, <1>9 DEF IsEntry
<1>11. UNCHANGED <<current, lastStatic, history, late, tall, logged, places, isTTY, done, pc, calls>>
  BY <1>1 DEF log
<1>12. Counted' = drawn + 1
  BY <1>1, <1>2, <1>3 DEF Counted
<1>13. First' = First + n - 1
  BY <1>2, <1>5, <1>9, <1>10, <1>12 DEF First, maxInt
<1>14. TypeInv'
  <2>1. drawn' \in 0..MaxHistory /\ rendered' \in 0..(MaxHistory + 1)
    BY <1>1, <1>2, <1>3
  <2>2. loop' \in {"select", "draw", "write", "ended"}
    BY <1>1
  <2> QED
    BY <1>10, <1>11, <2>1, <2>2 DEF IInv, TypeInv
<1>15. Mode'
  <2>1. CASE drawn + 1 < Len(LiveLines)
    BY <1>1, <1>2, <1>3, <1>11, <2>1 DEF IInv, Mode
  <2>2. CASE ~(drawn + 1 < Len(LiveLines))
    <3>1. drawn' = 0 /\ loop' = "select" /\ rendered' = Len(history) + 1
      BY <1>1, <1>3, <2>2
    <3>2. pc = "final" => late
      BY <1>1 DEF IInv, Mode
    <3> QED
      BY <1>2, <1>11, <3>1, <3>2 DEF IInv, Mode
  <2> QED
    BY <2>1, <2>2
<1>16. LogIsAbove'
  <2> SUFFICES ASSUME ~late' PROVE First' >= 1 /\ Logs(screen, First)'
    BY DEF LogIsAbove
  <2>1. First >= 1 /\ Logs(screen, First)
    BY <1>11 DEF IInv, LogIsAbove
  <2>2. First' >= First
    BY <1>5, <1>9, <1>13
  <2>3. ASSUME NEW i \in 1..Len(places)
        PROVE  places[i] < First' /\ RowAt(screen', places[i]) = <<logged[i]>>
    <3>1. places[i] \in Nat \ {0} /\ places[i] < First /\ RowAt(screen, places[i]) = <<logged[i]>>
      BY <1>2, <2>1 DEF Logs
    <3>2. places[i] < First + drawn
      BY <1>2, <1>9, <3>1
    <3> QED
      BY <1>9, <1>10, <1>13, <1>5, <2>2, <3>1, <3>2
  <2> QED
    BY <1>9, <1>11, <1>13, <1>5, <2>1, <2>2, <2>3 DEF Logs
<1>17. RestIsEmpty'
  <2> SUFFICES ASSUME ~late'
               PROVE  Blank(screen, maxInt(screen.row + 1, First + maxInt(1, rendered)))'
    <3>1. Unlocked' => rendered' # 0
      BY <1>1, <1>3, <1>2 DEF Unlocked
    <3> QED
      BY <3>1 DEF RestIsEmpty
  <2>1. Blank(screen, maxInt(screen.row + 1, First + maxInt(1, rendered)))
    BY <1>11 DEF IInv, RestIsEmpty
  <2>2. ASSUME NEW i \in Nat \ {0},
               i >= maxInt(screen'.row + 1, First' + maxInt(1, rendered'))
        PROVE  RowAt(screen', i) = <<>>
    <3>1. i > screen'.row /\ i >= First' + maxInt(1, rendered')
      <4>1. screen'.row \in Nat /\ First' \in Int /\ rendered' \in Nat
        <5>1. screen'.row \in Nat /\ rendered' \in Nat
          BY <1>10, <1>14, ProgressAssumption DEF TypeInv, Screen
        <5> QED
          BY <1>5, <1>9, <1>13, <5>1
      <4>2. maxInt(1, rendered') \in Int
        BY <4>1 DEF maxInt
      <4> DEFINE x == screen'.row + 1
                 y == First' + maxInt(1, rendered')
      <4>3. x \in Int /\ y \in Int /\ i >= maxInt(x, y)
        BY <2>2, <4>1, <4>2
      <4>4. i >= x /\ i >= y
        <5> HIDE DEF x, y
        <5> QED
          BY <4>3 DEF maxInt
      <4> QED
        BY <4>1, <4>4
    <3>2. screen'.row >= screen.row
      <4>1. screen'.row = row.row + n - 1 /\ row.row \in Int
        BY <1>2, <1>9, <1>10
      <4> QED
        BY <1>2, <1>5, <1>9, <4>1
    <3>3. i >= First + maxInt(1, rendered)
      <4>1. CASE rendered' = rendered
        BY <1>2, <1>5, <1>9, <1>13, <3>1, <4>1 DEF maxInt
      <4>2. CASE ~(drawn + 1 < Len(LiveLines))
        <5>1. drawn + 1 = Len(history) + 1 /\ maxInt(1, rendered) <= drawn + 1
          BY <1>2, <1>3, <4>2 DEF maxInt
        <5> QED
          BY <1>2, <1>5, <1>9, <1>10, <3>1, <5>1 DEF maxInt
      <4> QED
        BY <1>1, <4>1, <4>2
    <3>4. i >= maxInt(screen.row + 1, First + maxInt(1, rendered))
      BY <1>2, <1>9, <1>10, <1>5, <3>1, <3>2, <3>3 DEF maxInt
    <3>5. RowAt(screen, i) = <<>>
      BY <2>1, <3>4 DEF Blank
    <3> QED
      BY <1>10, <3>1, <3>5
  <2> QED
    BY <2>2 DEF Blank
<1>18. BlockIsCurrent'
  <2> SUFFICES ASSUME ~late', ~tall' PROVE
         /\ (First = Len(logged) + 1 /\ Numbered)'
         /\ \A k \in 1..(drawn + 1) : RowAt(screen', Len(logged') + k) = <<Live(LiveLines'[k])>>
         /\ ~screen'.start /\ (Unlocked' => rendered' # 0)
         /\ \A k \in 1..Len(LiveLines') : Height[LiveLines'[k]] = 1
    BY <1>12 DEF BlockIsCurrent
  <2>1. /\ First = Len(logged) + 1 /\ Numbered
        /\ \A k \in 1..drawn : RowAt(screen, Len(logged) + k) = <<Live(LiveLines[k])>>
        /\ \A k \in 1..Len(LiveLines) : Height[LiveLines[k]] = 1
    BY <1>1, <1>8, <1>11 DEF IInv, BlockIsCurrent
  <2>2. n = 1
    BY <1>2, <1>3, <2>1 DEF n, line
  <2>3. (First = Len(logged) + 1 /\ Numbered)'
    BY <1>9, <1>11, <1>13, <2>1, <2>2 DEF Numbered
  <2>4. LiveLines' = LiveLines
    BY <1>11 DEF LiveLines
  <2>5. ASSUME NEW k \in 1..(drawn + 1)
        PROVE  RowAt(screen', Len(logged) + k) = <<Live(LiveLines[k])>>
    <3>0. Len(logged) \in Nat
      BY <1>2
    <3>1. CASE k = drawn + 1
      <4>1. Len(logged) + k = First + drawn
        BY <1>2, <2>1, <3>0, <3>1
      <4>2. line = LiveLines[k]
        BY <3>1 DEF line
      <4> QED
        BY <1>10, <4>1, <4>2
    <3>2. CASE k # drawn + 1
      <4>1. k \in 1..drawn /\ Len(logged) + k \in Nat \ {0} /\ Len(logged) + k < First + drawn
        BY <1>2, <2>1, <3>0, <3>2
      <4> QED
        BY <1>10, <2>1, <4>1
    <3> QED
      BY <3>1, <3>2
  <2>6. ~screen'.start /\ (Unlocked' => rendered' # 0)
    BY <1>1, <1>2, <1>3, <1>10 DEF Unlocked
  <2> QED
    BY <1>11, <2>1, <2>3, <2>4, <2>5, <2>6
<1> QED
  BY <1>14, <1>15, <1>16, <1>17, <1>18 DEF IInv

LEMMA ClearStep == ASSUME IInv, Clear PROVE IInv'
<1> DEFINE c == Cleared(screen, rendered)
<1>1. /\ screen' = c /\ rendered' = 0 /\ pc = "clear" /\ pc' = "final" /\ Unlocked
      /\ UNCHANGED <<isTTY, current, lastStatic, history, done, frames, log, calls>>
  BY DEF Clear, Cleared, IInv, Mode
<1>2. Screen(c) /\ (~late => Ready(c)) /\ (~late /\ ~tall => Dense(c))
  BY <1>1, ClearedIsReady
<1> HIDE DEF c
<1>3. UNCHANGED <<loop, drawn, late, tall, logged, places>> /\ Unlocked'
  BY <1>1 DEF frames, log, Unlocked
<1>4. /\ Screen(screen') /\ places' \in Seq(Nat \ {0}) /\ logged' \in Seq(Texts)
      /\ ~late' => Ready(screen)'
      /\ ~late' /\ ~tall' => Dense(screen)'
  BY <1>1, <1>2, <1>3 DEF IInv, TypeInv, Ready, Dense, Logs, Blank, Numbered
<1>5. LogIsAbove' /\ RestIsEmpty' /\ BlockIsCurrent'
  BY <1>1, <1>3, <1>4, NoBlock
<1>6. TypeInv'
  BY <1>1, <1>3, <1>4, ProgressAssumption DEF IInv, TypeInv
<1>7. Mode'
  BY <1>1, <1>3, ProgressAssumption DEF IInv, TypeInv, Mode, Unlocked
<1> QED
  BY <1>5, <1>6, <1>7 DEF IInv

(* The last line is written without the lock: until a frame is begun late, *)
(* below no block.                                                         *)
LEMMA FinalStep == ASSUME IInv, Final PROVE IInv'
<1>1. /\ pc = "final" /\ pc' = "finished"
      /\ UNCHANGED <<isTTY, state, done, frames, calls>>
  BY DEF Final
<1>2. /\ UNCHANGED <<loop, drawn, late, tall>>
      /\ UNCHANGED <<current, lastStatic, history, rendered>>
      /\ Unlocked' = Unlocked
  BY <1>1 DEF frames, state, Unlocked
<1>3. CASE UNCHANGED <<screen, log>>
  BY <1>1, <1>2, <1>3, SilentStep DEF IInv, TypeInv, Mode
<1>4. CASE \E m \in Messages : WriteLine(screen, m)
  <2>1. PICK m \in Messages : WriteLine(screen, m)
    BY <1>4
  <2>2. TypeInv /\ Screen(screen)
    BY DEF IInv, TypeInv
  <2>3. /\ Screen(screen') /\ logged' \in Seq(Texts) /\ places' \in Seq(Nat \ {0})
        /\ Ready(screen) => Ready(screen)'
        /\ Ready(screen) /\ Dense(screen) => Dense(screen)'
    BY <2>1, <2>2, LineIsLogged
  <2>4. TypeInv' /\ Mode'
    BY <1>1, <1>2, <2>3, ProgressAssumption DEF IInv, TypeInv, Mode
  <2>5. CASE late
    BY <1>2, <2>4, <2>5 DEF IInv, LogIsAbove, RestIsEmpty, BlockIsCurrent
  <2>6. CASE ~late
    <3>1. rendered = 0 /\ Unlocked
      BY <1>1, <2>6 DEF IInv, Mode, Unlocked
    <3>2. Cleared(screen, rendered) = screen
      BY <3>1 DEF Cleared
    <3>3. Ready(screen) /\ (~tall => Dense(screen))
      BY <2>6, <3>1, <3>2, ClearedIsReady
    <3>4. LogIsAbove' /\ RestIsEmpty' /\ BlockIsCurrent'
      BY <1>2, <2>3, <3>1, <3>3, NoBlock
    <3> QED
      BY <2>4, <3>4 DEF IInv
  <2> QED
    BY <2>5, <2>6
<1> QED
  BY <1>3, <1>4 DEF Final

LEMMA UpdateStep == ASSUME IInv, NEW m \in Messages, Updatef(m) PROVE IInv'
<1>1. /\ calls' \in 0..MaxCalls /\ current' = m /\ lastStatic' = m /\ Unlocked
      /\ UNCHANGED <<isTTY, done, pc, frames>>
  BY ProgressAssumption DEF Updatef, Call, IInv, TypeInv
<1>2. current = lastStatic
  BY DEF IInv, Mode
<1>3. CASE m = current
  <2>1. UNCHANGED <<isTTY, screen, state, drawn, late, tall, log, done, pc, loop>>
    BY <1>1, <1>2, <1>3 DEF Updatef, state, frames
  <2> QED
    BY <1>1, <2>1, SilentStep DEF IInv, TypeInv, Mode
<1>4. CASE m # current
  <2>1. Remember(m) /\ LogLine(m)
    BY <1>2, <1>4 DEF Updatef
  <2>2. history' \in Seq(Messages) /\ Len(history') <= MaxHistory
    BY <2>1, RememberType DEF IInv
  <2> QED
    BY <1>1, <2>1, <2>2, LoggingStep
<1> QED
  BY <1>3, <1>4

LEMMA EventStep == ASSUME IInv, NEW m \in Messages, Eventf(m) PROVE IInv'
<1>1. /\ calls' \in 0..MaxCalls /\ Remember(m) /\ LogLine(m) /\ Unlocked
      /\ UNCHANGED <<isTTY, current, lastStatic, done, pc, frames>>
  BY ProgressAssumption DEF Eventf, Call, IInv, TypeInv
<1>2. history' \in Seq(Messages) /\ Len(history') <= MaxHistory
  BY <1>1, RememberType DEF IInv
<1> QED
  BY <1>1, <1>2, LoggingStep DEF IInv, TypeInv, Mode

LEMMA PrintStep == ASSUME IInv, NEW m \in Messages, Printf(m) PROVE IInv'
<1>1. /\ calls' \in 0..MaxCalls /\ LogLine(m) /\ Unlocked
      /\ UNCHANGED <<isTTY, current, lastStatic, history, done, pc, frames>>
  BY ProgressAssumption DEF Printf, Call, IInv, TypeInv
<1> QED
  BY <1>1, LoggingStep DEF IInv, TypeInv, Mode

LEMMA InvNext == ASSUME IInv, [Next]_vars PROVE IInv'
<1>1. CASE UNCHANGED vars
  <2>1. UNCHANGED <<isTTY, screen, state, drawn, late, tall, log, done, pc, loop, calls>>
    BY <1>1 DEF vars, state, frames, log
  <2> QED
    BY <2>1, SilentStep DEF IInv, TypeInv, Mode
<1>2. CASE Close
  <2>1. /\ calls' \in 0..MaxCalls /\ pc' = "clear" /\ done' = TRUE
        /\ UNCHANGED <<isTTY, screen, state, drawn, loop, late, tall, log>>
    BY <1>2, ProgressAssumption DEF Close, Call, IInv, TypeInv, frames
  <2> QED
    BY <2>1, SilentStep DEF IInv, TypeInv, Mode
<1>3. CASE TakeTick \/ Stop
  <2>1. /\ UNCHANGED <<isTTY, screen, state, done, pc, drawn, late, tall, log, calls>>
        /\ loop = "select" /\ loop' \in {"draw", "ended"}
        /\ isTTY \/ loop' = "ended"
    BY <1>3 DEF TakeTick, Stop, IInv, Mode
  <2> QED
    BY <2>1, SilentStep DEF IInv, TypeInv, Mode
<1> QED
  BY <1>1, <1>2, <1>3, ClearStep, DrawStep, DrawLineStep, FinalStep, UpdateStep, EventStep,
     PrintStep DEF Next

LEMMA Invariance == Spec => []IInv
BY InvInit, InvNext, PTL DEF Spec

-----------------------------------------------------------------------------
(* The types of the display's state, and that the cursor is in a row of the *)
(* screen, which no erasing and no drawing leaves (clearLocked and          *)
(* renderLocked move it by what they count).                                *)
THEOREM TypeCorrect == Spec => []TypeOK
<1>1. ASSUME IInv PROVE TypeOK
  <2>1. /\ screen.rows \in Seq(Seq(Texts)) /\ screen.row \in 1..Len(screen.rows)
        /\ screen.start \in BOOLEAN /\ history \in Seq(Messages)
        /\ logged \in Seq(Texts) /\ places \in Seq(Nat \ {0})
    BY <1>1 DEF IInv, TypeInv, Screen, Row
  <2>2. \A i \in 1..Len(screen.rows) : Range(screen.rows[i]) \subseteq Texts
    BY <2>1 DEF Range
  <2>3. /\ Range(history) \subseteq Messages
        /\ Range(logged) \subseteq Texts /\ Range(places) \subseteq Nat \ {0}
    BY <2>1 DEF Range
  <2> QED
    BY <1>1, <2>1, <2>2, <2>3 DEF IInv, TypeInv, Mode, TypeOK
<1> QED
  BY <1>1, Invariance, PTL

(* For any messages, of any number of rows, in any order of frames, events  *)
(* and log lines: every line that was logged stays where it was written, in *)
(* order and alone on its rows, until a frame is begun after Close          *)
(* (renderLocked and clearLocked never move the cursor above their block).  *)
THEOREM LogIsKept == Spec => []LogLinesStay
<1>1. ASSUME IInv PROVE LogLinesStay
  <2> SUFFICES ASSUME ~late
               PROVE  /\ Len(places) = Len(logged)
                      /\ \A i \in 1..Len(logged) : screen.rows[places[i]] = <<logged[i]>>
                      /\ \A i, j \in 1..Len(places) : i < j => places[i] < places[j]
    BY DEF LogLinesStay
  <2>1. Logs(screen, First)
    BY <1>1 DEF IInv, LogIsAbove
  <2>2. ASSUME NEW i \in 1..Len(logged) PROVE screen.rows[places[i]] = <<logged[i]>>
    <3>1. RowAt(screen, places[i]) = <<logged[i]>>
      BY <2>1 DEF Logs
    <3>2. <<logged[i]>> # <<>>
      OBVIOUS
    <3> QED
      BY <3>1, <3>2 DEF RowAt
  <2> QED
    BY <2>1, <2>2 DEF Logs
<1> QED
  BY <1>1, Invariance, PTL

(* What is on the rows of the screen while there is no frame and none is    *)
(* left behind.                                                             *)
LEMMA RowsAreExpected == ASSUME IInv, Unlocked, ~late, ~tall PROVE Shows /\ CursorEndsBlock
<1> DEFINE live == IF rendered = 0 THEN <<>> ELSE [i \in 1..Len(LiveLines) |-> Live(LiveLines[i])]
<1>1. /\ Screen(screen) /\ screen.row \in Nat \ {0} /\ screen.row <= Len(screen.rows)
      /\ Len(screen.rows) \in Nat /\ rendered \in Nat
      /\ logged \in Seq(Texts) /\ Len(logged) \in Nat /\ places \in Seq(Nat \ {0})
  BY ProgressAssumption DEF IInv, TypeInv, Screen
<1>2. Counted = rendered /\ First = screen.row + 1 - maxInt(1, rendered) /\ First = Len(logged) + 1
  BY DEF Counted, First, Unlocked, IInv, BlockIsCurrent
<1>3. /\ live \in Seq(Texts) /\ Len(live) = rendered
      /\ \A i \in 1..rendered : live[i] = Live(LiveLines[i])
  <2>1. CASE rendered = 0
    BY <2>1
  <2>2. CASE rendered # 0
    <3>1. LiveLines \in Seq(Messages) /\ Len(LiveLines) = rendered
      BY <2>2, LiveLinesType DEF IInv, Mode
    <3>2. \A i \in 1..rendered : Live(LiveLines[i]) \in Texts
      BY <3>1, MessageTexts
    <3>3. live = [i \in 1..rendered |-> Live(LiveLines[i])]
      BY <2>2, <3>1
    <3>4. live \in [1..rendered -> Texts] /\ \A i \in 1..rendered : live[i] = Live(LiveLines[i])
      BY <3>2, <3>3
    <3> HIDE DEF live
    <3> QED
      BY <1>1, <3>4, SeqOf
  <2> QED
    BY <2>1, <2>2
<1> HIDE DEF live
<1>4. /\ Len(Expected) = Len(logged) + rendered
      /\ \A i \in 1..(Len(logged) + rendered) :
           Expected[i] = IF i <= Len(logged) THEN logged[i] ELSE live[i - Len(logged)]
  <2>1. Expected = logged \o live
    BY DEF Expected, live
  <2> QED
    BY <1>1, <1>3, <2>1, ConcatProperties, ZenonT(60)
<1>5. screen.row = Len(logged) + (IF rendered = 0 THEN 1 ELSE rendered)
  BY <1>1, <1>2 DEF maxInt
<1>6. CursorEndsBlock
  BY <1>5 DEF CursorEndsBlock, IInv, BlockIsCurrent
<1>7. ASSUME NEW i \in 1..Len(screen.rows)
      PROVE  screen.rows[i] = IF i <= Len(Expected) THEN <<Expected[i]>> ELSE <<>>
  <2>1. RowAt(screen, i) = screen.rows[i]
    BY <1>1 DEF RowAt
  <2>2. CASE i <= Len(logged)
    <3>1. Len(places) = Len(logged) /\ i \in 1..Len(places)
      BY <1>1, <2>2 DEF IInv, LogIsAbove, Logs
    <3>2. places[i] = i /\ RowAt(screen, places[i]) = <<logged[i]>>
      BY <3>1 DEF IInv, LogIsAbove, Logs, BlockIsCurrent, Numbered
    <3>3. i <= Len(Expected) /\ Expected[i] = logged[i]
      BY <1>1, <1>4, <2>2
    <3> QED
      BY <2>1, <3>2, <3>3
  <2>3. CASE i > Len(logged) /\ i <= Len(logged) + rendered
    <3>1. i - Len(logged) \in 1..rendered /\ Len(logged) + (i - Len(logged)) = i
      BY <1>1, <2>3
    <3>2. RowAt(screen, Len(logged) + (i - Len(logged))) = <<Live(LiveLines[i - Len(logged)])>>
      BY <1>2, <3>1 DEF IInv, BlockIsCurrent
    <3>3. Expected[i] = live[i - Len(logged)] /\ i <= Len(Expected)
      BY <1>1, <1>4, <2>3
    <3> QED
      BY <1>3, <2>1, <3>1, <3>2, <3>3
  <2>4. CASE i > Len(logged) + rendered
    <3>1. ~(i <= Len(Expected)) /\ i \in Nat \ {0}
      BY <1>1, <1>4, <2>4
    <3>2. CASE i = screen.row
      <4>1. rendered = 0
        BY <1>1, <1>5, <2>4, <3>2
      <4> QED
        BY <2>1, <3>1, <3>2, <4>1 DEF IInv, RestIsEmpty
    <3>3. CASE i # screen.row
      <4>1. i >= screen.row + 1
        BY <1>1, <1>5, <2>4, <3>3
      <4>2. maxInt(screen.row + 1, First + maxInt(1, rendered)) = screen.row + 1
        BY <1>1, <1>2 DEF maxInt
      <4> QED
        BY <2>1, <3>1, <4>1, <4>2 DEF IInv, RestIsEmpty, Blank
    <3> QED
      BY <3>2, <3>3
  <2> QED
    BY <1>1, <2>2, <2>3, <2>4
<1>8. Shows
  BY <1>1, <1>4, <1>5, <1>7 DEF Shows
<1> QED
  BY <1>6, <1>8

(* However frames, events and log lines alternate, the terminal shows the   *)
(* lines that were logged, in order, then the live block and nothing else,  *)
(* with the cursor where the next write expects it, until a frame is begun  *)
(* after Close: as long as every entry of a frame fills one row, for only   *)
(* then do renderLocked and clearLocked count the rows that there are.      *)
THEOREM ScreenIsRight == Spec => []ScreenIsLogAndLiveBlock
<1>1. ASSUME IInv PROVE ScreenIsLogAndLiveBlock
  BY <1>1, RowsAreExpected DEF ScreenIsLogAndLiveBlock
<1> QED
  BY <1>1, Invariance, PTL
=============================================================================
