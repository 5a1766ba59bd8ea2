--------------------------- MODULE MCRepoInventory --------------------------
(* An instance of RepoInventory for TLC: every graph over four files in      *)
(* which a file has at most two edges.                                       *)
EXTENDS RepoInventory

AllGraphs ==
  {g \in [Files -> {s \in SUBSET Files : Cardinality(s) <= 2}] : \A f \in Files : f \notin g[f]}

SomeBases == {[f \in Files |-> [score |-> IF f = 3 THEN 8 ELSE 0, link |-> 0]],
              [f \in Files |-> [score |-> 3 * f, link |-> IF f = 1 THEN 20 ELSE 0]]}
SomeLocks == {{}, {3, 4}, Files}
SomeRefs  == {[f \in Files |-> {}], [f \in Files |-> {4, 2}]}
Sizes     == [f \in Files |-> f]
=============================================================================
