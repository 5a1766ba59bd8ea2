--------------------------- MODULE MCLiveProgress ---------------------------
(* An instance of LiveProgress for TLC, on which what is written in one      *)
(* piece is compared with what the code writes row after row.                *)
EXTENDS LiveProgress, SequencesExt

CONSTANTS a, b

(* b is a message with a line break. *)
Heights == (a :> 1) @@ (b :> 2)

EraseRow(s) == [s EXCEPT !.rows[s.row] = <<>>]
Write(s, t) == [s EXCEPT !.rows[s.row] = IF s.start THEN <<t>> \o @ ELSE Append(@, t), !.start = FALSE]

Repeat(n, s, op(_)) == FoldLeft(LAMBDA r, i : op(NewLine(r)), op(s), [i \in 1..(n - 1) |-> i])

Screens ==
  {[rows |-> rs, row |-> i, start |-> c] :
     rs \in [1..3 -> {<<>>, <<"x">>}], i \in 1..3, c \in BOOLEAN}

ASSUME RowAfterRow ==
  \A s \in Screens, n \in 1..3 :
    /\ Put(s, "a", n) = Repeat(n, s, LAMBDA r : Write(r, "a"))
    /\ s.start => Erased(s, n) = Repeat(n, s, EraseRow)
=============================================================================
