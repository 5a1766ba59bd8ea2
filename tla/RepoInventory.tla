--------------------------- MODULE RepoInventory ----------------------------
(***************************************************************************)
(* buildTerraformRepoInventory (internal/cli/infra_repo_inventory.go): the *)
(* files of a repository that the prompt of the model shows.  Files are    *)
(* scored by the hints of the report; the best are the seeds from which    *)
(* linked files are found (GraphExpand, and references in their text); the *)
(* best of all are printed until the space is used up.                     *)
(* Files are numbered in the order of their paths.                         *)
(***************************************************************************)
EXTENDS GraphExpand, Integers, Functions

CONSTANTS
  Bases,     \* what the hints may give each file: score, and link score
  RefSets,   \* references that the text of the files may have
  LockSets,  \* which files are lock files of terraform
  Size,      \* length of the preview of each file
  MaxFiles,  \* maxFiles
  SeedCap,   \* the most seeds
  MaxBytes   \* maxBytes

ASSUME InventoryAssumption ==
  /\ Files \subseteq Nat /\ IsFiniteSet(Files) /\ LockSets \subseteq SUBSET Files
  /\ Bases \subseteq [Files -> [score : Int, link : Nat]]
  /\ RefSets \subseteq [Files -> SUBSET Files]
  /\ Size \in [Files -> Nat]
  /\ MaxFiles \in Nat \ {0} /\ SeedCap \in Nat \ {0} /\ MaxBytes \in Nat \ {0}

VARIABLES
  base,    \* the scores of each file by the hints
  locks,   \* the lock files
  refs,    \* the files that extractLocalReferenceTargets finds for each
  phase,   \* expanding, printing, or done
  chosen,  \* the candidates, best first
  printed  \* the files printed so far, and the space that each took

vars == <<expandVars, base, locks, refs, phase, chosen, printed>>

Smaller(a, b) == IF a < b THEN a ELSE b
FirstOf(s, n) == SubSeq(s, 1, Smaller(n, Len(s)))

(* Best score first, then by path: the only such sequence of the files S. *)
Ranked(S, sc) ==
  {s \in [1..Cardinality(S) -> S] :
     \A i, j \in 1..Cardinality(S) :
       i < j => sc[s[i]] > sc[s[j]] \/ (sc[s[i]] = sc[s[j]] /\ s[i] < s[j])}

(* scoreRepoFile and focusedCandidateBonuses; both put lock files behind.  *)
Hinted == [f \in Files |-> base[f].score - (IF f \in locks THEN 240 ELSE 0)]

(* topCandidateRels *)
Seeds(sc) == {FirstOf(s, Smaller(MaxFiles, SeedCap)) : s \in Ranked(Files, sc)}

(* selectInventoryCandidates: lock files only where there is nothing else. *)
Selected(sc) ==
  LET primary == IF Files \subseteq locks THEN Files ELSE Files \ locks
  IN  {FirstOf(s, MaxFiles) : s \in Ranked(primary, sc)}

(* The references of each seed count once per seed. *)
RefBonus(f) == 18 * Cardinality({i \in 1..Len(seeds) : f \in refs[seeds[i]]})

(* semanticCandidateBonuses count as links: not for the seeds. *)
Final(sc) == [f \in Files |-> Hinted[f] + base[f].link + Get(sc, f) + RefBonus(f)]

-----------------------------------------------------------------------------
Init ==
  /\ base \in Bases
  /\ locks \in LockSets
  /\ refs \in RefSets
  /\ \E s \in Seeds(Hinted), g \in Graphs : ExpandInit(g, s)
  /\ phase = "expand"
  /\ chosen = <<>>
  /\ printed = <<>>

Expand ==
  /\ phase = "expand"
  /\ ExpandNext
  /\ UNCHANGED <<base, locks, refs, phase, chosen, printed>>

Choose ==
  /\ phase = "expand"
  /\ Expanded
  /\ phase' = "print"
  /\ chosen' \in Selected(Final(score))
  /\ UNCHANGED <<expandVars, base, locks, refs, printed>>

(* maxBytes - remaining *)
Used == IF printed = <<>> THEN 0 ELSE printed[Len(printed)].to

(* Mutant: a preview that does not fit is printed in full. *)
PieceWhole(f) == Size[f]

Piece(f) == Smaller(Size[f], MaxBytes - Used)

Emit ==
  /\ phase = "print"
  /\ IF Len(printed) < Len(chosen) /\ Used < MaxBytes
       THEN LET f == chosen[Len(printed) + 1] IN
            /\ printed' = Append(printed, [file |-> f, from |-> Used, to |-> Used + Piece(f)])
            /\ UNCHANGED phase
       ELSE /\ phase' = "done"
            /\ UNCHANGED printed
  /\ UNCHANGED <<expandVars, base, locks, refs, chosen>>

Next == Expand \/ Choose \/ Emit

Spec == Init /\ [][Next]_vars

-----------------------------------------------------------------------------
TypeOK ==
  /\ ExpandTypeOK
  /\ base \in Bases /\ locks \in LockSets /\ refs \in RefSets
  /\ phase \in {"expand", "print", "done"}
  /\ Range(chosen) \subseteq Files
  /\ \A i \in 1..Len(printed) : printed[i] \in [file : Files, from : 0..MaxBytes, to : 0..MaxBytes]

(* The files within d edges of the seeds. *)
Within[d \in Nat] ==
  IF d = 0 THEN Range(seeds) ELSE Within[d - 1] \cup UNION {graph[f] : f \in Within[d - 1]}

AtDepth(d) == IF d = 0 THEN Within[0] ELSE Within[d] \ Within[d - 1]

(* What Expand should give: each file scores for every file that links to  *)
(* it, by the distance of that file from the seeds.                        *)
LinkScore(f) ==
  LET Upto[d \in 0..MaxDepth] ==
        IF d = 0 THEN 0
        ELSE Upto[d - 1] + Bonus(d) * Cardinality({g \in AtDepth(d - 1) : f \in graph[g]})
  IN  Upto[MaxDepth]

Cut == queue # <<>>

(* Two runs over the same repository show the model the same files: what   *)
(* is chosen does not depend on the order in which Go ranges over a map,   *)
(* unless the limit of Expand cuts the search off.                         *)
ChoiceIsDetermined ==
  phase # "expand" /\ ~Cut => Selected(Final([f \in Files |-> LinkScore(f)])) = {chosen}

(* The space is kept, and is used up by the best files: each takes what is *)
(* behind the one before, only the last one that is printed may be cut, at *)
(* the end, and none is left out while there is room.                      *)
SpaceGoesToTheBest ==
  /\ \A i \in 1..Len(printed) :
       LET p == printed[i] IN
       /\ p.file = chosen[i]
       /\ p.from = IF i = 1 THEN 0 ELSE printed[i - 1].to
       /\ p.to \in p.from..MaxBytes
       /\ p.to - p.from = Size[p.file] \/ (i = Len(printed) /\ p.to = MaxBytes)
  /\ phase = "done" /\ Len(printed) < Len(chosen) => Used = MaxBytes
=============================================================================
