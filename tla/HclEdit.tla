------------------------------ MODULE HclEdit -------------------------------
(***************************************************************************)
(* The edits of HCL blocks (internal/infra/executor.go), which work on the *)
(* text of a file.  A text is a sequence of pieces: the header of the      *)
(* block that is looked for, braces, quotes, backslashes, newlines, one    *)
(* level of indentation, and anything else.                                *)
(***************************************************************************)
EXTENDS Integers, Sequences, SequencesExt

NotFound == [found |-> FALSE]

-----------------------------------------------------------------------------
(* Mutant: a backslash escapes nothing. *)
ScanRaw(s, c) ==
  IF s.quoted THEN [s EXCEPT !.quoted = c # "quote"]
  ELSE [s EXCEPT !.quoted = c = "quote",
                 !.depth = IF c = "open" THEN @ + 1 ELSE IF c = "close" THEN @ - 1 ELSE @]

(* One turn of the loop of locateBlock. *)
Scan(s, c) ==
  IF s.quoted
    THEN IF s.escaped THEN [s EXCEPT !.escaped = FALSE]
         ELSE [s EXCEPT !.escaped = c = "\\", !.quoted = c # "quote"]
    ELSE [s EXCEPT !.quoted = c = "quote",
                   !.depth = IF c = "open" THEN @ + 1 ELSE IF c = "close" THEN @ - 1 ELSE @]

Clear == [quoted |-> FALSE, escaped |-> FALSE, depth |-> 0]

(* The state of the scan from piece i, before piece j. *)
ScanTo(src, i, j) ==
  LET s[k \in i..j] == IF k = i THEN Clear ELSE Scan(s[k - 1], src[k - 1])
  IN  s[j]

Smallest(s) == CHOOSE n \in s : \A m \in s : n <= m
Greatest(s) == CHOOSE n \in s : \A m \in s : n >= m

(* locateBlock: the first header with a brace, up to the brace that closes *)
(* it; the indentation is what stands before the header in its line.       *)
(* (A header holds its opening brace, which is a piece of its own here.)   *)
Locate(src) ==
  LET heads == {i \in 1..(Len(src) - 1) : src[i] = "header" /\ src[i + 1] = "open"}
      at    == Smallest(heads)
      line  == Greatest({0} \cup {i \in 1..(at - 1) : src[i] = "nl"})
      ends  == {j \in (at + 1)..Len(src) :
                  src[j] = "close" /\ LET s == ScanTo(src, at + 1, j)
                                  IN  ~s.quoted /\ s.depth = 1}
  IN  IF heads = {} \/ ends = {} THEN NotFound
      ELSE [found |-> TRUE, first |-> at, last |-> Smallest(ends),
            indent |-> SubSeq(src, line + 1, at - 1)]

Before(src, b) == SubSeq(src, 1, b.first - 1)
Block(src, b)  == SubSeq(src, b.first, b.last)

(* Mutant: the closing brace is repeated. *)
AfterLast(src, b) == SubSeq(src, b.last, Len(src))

After(src, b) == SubSeq(src, b.last + 1, Len(src))

(* replaceHCLBlock; the new block is indented like the old one. *)
Replaced(src, b, new) == Before(src, b) \o b.indent \o new \o After(src, b)

(* strings.LastIndex *)
LastIndex(s, sub) ==
  Greatest({0} \cup {i \in 1..(Len(s) + 1 - Len(sub)) : SubSeq(s, i, i + Len(sub) - 1) = sub})

(* strings.TrimRight *)
WithoutNewlines(s) ==
  SubSeq(s, 1, Greatest({0} \cup {i \in 1..Len(s) : s[i] # "nl"}))

(* Mutant: the first closing brace at the indentation of the block. *)
ClosingFirst(block, indent) ==
  LET sub == indent \o <<"close">>
  IN  Smallest({i \in 1..(Len(block) + 1 - Len(sub)) : SubSeq(block, i, i + Len(sub) - 1) = sub}
               \cup {Len(block)})

(* replaceBlockClosingBrace looks for the closing brace again, from the    *)
(* end, first at the indentation of the block.                             *)
Closing(block, indent) ==
  LET i == LastIndex(block, indent \o <<"close">>)
  IN  IF i # 0 THEN i ELSE LastIndex(block, <<"close">>)

(* appendHCLBlockBody *)
Appended(src, b, body) ==
  LET block == Block(src, b)
  IN  Before(src, b)
      \o WithoutNewlines(SubSeq(block, 1, Closing(block, b.indent) - 1))
      \o <<"nl">> \o b.indent \o <<"tab">> \o body \o <<"nl">>
      \o b.indent \o <<"close">> \o After(src, b)

-----------------------------------------------------------------------------
(* A file in which the block stands: t.pre, a whole number of lines, and   *)
(* the block, indented by t.indent, with its closing brace on a line of    *)
(* its own or not, and t.post behind it.  Braces match in t.body, apart    *)
(* from those in strings.                                                  *)
Own(t)  == t.pre \o t.indent
Rest(t) == (IF t.ownLine THEN <<"nl">> \o t.indent ELSE <<>>) \o <<"close">>
Text(t) == Own(t) \o <<"header", "open">> \o t.body \o Rest(t) \o t.post

(* All but white space. *)
Solid(s) ==
  LET solid[k \in 0..Len(s)] ==
        IF k = 0 THEN <<>> ELSE IF s[k] \in {"nl", "tab"} THEN solid[k - 1] ELSE Append(solid[k - 1], s[k])
  IN  solid[Len(s)]

(* However braces, quotes and escapes nest in it, the block that           *)
(* locateBlock cuts out of the file ends at its own closing brace.         *)
BlockIsLocated(t) ==
  Locate(Text(t)) = [found |-> TRUE, first |-> Len(Own(t)) + 1, indent |-> t.indent,
                     last |-> Len(Text(t)) - Len(t.post)]

(* replaceHCLBlock exchanges the block and, but for indentation, leaves    *)
(* everything in front of it and behind it as it was.                      *)
ReplacesBlockOnly(t, new) ==
  Solid(Replaced(Text(t), Locate(Text(t)), new)) = Solid(t.pre) \o Solid(new) \o Solid(t.post)

(* appendHCLBlockBody adds the new lines to the end of the block and,      *)
(* but for white space, keeps all that was in the file.  (So it is if the  *)
(* block is not indented or its closing brace stands on its own line.)     *)
AppendsToBlock(t, new) ==
  t.ownLine \/ t.indent = <<>> =>
    Solid(Appended(Text(t), Locate(Text(t)), new)) =
      Solid(t.pre) \o <<"header", "open">> \o Solid(t.body) \o Solid(new) \o <<"close">> \o Solid(t.post)
=============================================================================
