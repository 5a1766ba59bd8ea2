------------------------- MODULE RepoInventoryProofs -------------------------
(***************************************************************************)
(* Whatever the graph, its cycles, the seeds, the limits and the order of  *)
(* the edges, Expand scores only what the seeds lead to.  The inventory    *)
(* calls it with such seeds, and so scores no other links; it then fills   *)
(* its space with the best files, and no further.  Unless the limit of     *)
(* Expand stops it, the search goes through the graph level by level, and  *)
(* what is chosen does not depend on the order of the edges.               *)
(***************************************************************************)
EXTENDS RepoInventory, FiniteSetTheorems, WellFoundedInduction, TLAPS

(* What the queue holds, and the file that is visited, are at the ends of  *)
(* paths from the seeds.                                                   *)
QueueInv == \A i \in 1..Len(queue) : Path(queue[i].path, queue[i].depth)

VisitInv ==
  pending # {} =>
    /\ Path(cur.path, cur.depth)
    /\ cur.depth < MaxDepth
    /\ pending \subseteq graph[cur.path]

ExpandInv == ExpandTypeOK /\ QueueInv /\ VisitInv /\ ScoredIsLinked

-----------------------------------------------------------------------------
LEMMA SeedPath ==
  ASSUME ExpandTypeOK, NEW i \in 1..Len(seeds)
  PROVE  Path(seeds[i], 0)
<1>1. seeds[i] \in Files
  BY DEF ExpandTypeOK
<1> DEFINE p == [j \in 0..0 |-> seeds[i]]
<1>2. p \in [0..0 -> Files] /\ p[0] = seeds[i]
  BY <1>1
<1>3. \A j \in 0..(0 - 1) : p[j + 1] \in graph[p[j]]
  OBVIOUS
<1> HIDE DEF p
<1> QED
  BY <1>2, <1>3 DEF Path

(* A path grows by the edge that its end has. *)
LEMMA LongerPath ==
  ASSUME NEW f \in Files, NEW d \in Nat, Path(f, d), NEW g \in graph[f], g \in Files
  PROVE  Path(g, d + 1)
<1>1. PICK p \in [0..d -> Files] : /\ \E i \in 1..Len(seeds) : p[0] = seeds[i]
                                   /\ p[d] = f
                                   /\ \A i \in 0..(d - 1) : p[i + 1] \in graph[p[i]]
  BY DEF Path
<1> DEFINE q == [i \in 0..(d + 1) |-> IF i = d + 1 THEN g ELSE p[i]]
<1>2. q \in [0..(d + 1) -> Files]
  BY <1>1
<1>3. q[0] = p[0] /\ q[d] = f /\ q[d + 1] = g
  BY <1>1
<1>4. ASSUME NEW i \in 0..((d + 1) - 1)
      PROVE  q[i + 1] \in graph[q[i]]
  <2>1. CASE i = d
    BY <2>1, <1>3
  <2>2. CASE i < d
    <3>1. i \in 0..(d - 1) /\ q[i + 1] = p[i + 1] /\ q[i] = p[i]
      BY <2>2, <1>4
    <3> QED
      BY <3>1, <1>1
  <2> QED
    BY <1>4, <2>1, <2>2
<1>5. \E i \in 1..Len(seeds) : q[0] = seeds[i]
  BY <1>1, <1>3
<1> HIDE DEF q
<1> QED
  BY <1>2, <1>3, <1>4, <1>5 DEF Path

-----------------------------------------------------------------------------
LEMMA ExpandInitInv ==
  ASSUME NEW g \in Graphs, NEW s \in Seq(Files), ExpandInit(g, s)
  PROVE  ExpandInv
<1> USE DEF ExpandInit, Item
<1>1. queue \in Seq(Items)
  <2>1. \A i \in 1..Len(s) : Item(s[i], 0) \in Items
    BY ExpandAssumption DEF Items
  <2> QED
    BY <2>1
<1>2. DOMAIN seen \subseteq Files /\ \A f \in DOMAIN seen : seen[f] \in 0..MaxDepth
  BY ExpandAssumption
<1>3. ExpandTypeOK
  BY <1>1, <1>2 DEF ExpandTypeOK
<1>4. QueueInv
  <2> SUFFICES ASSUME NEW i \in 1..Len(queue)
               PROVE  Path(queue[i].path, queue[i].depth)
    BY DEF QueueInv
  <2>1. Len(queue) = Len(s) /\ i \in 1..Len(seeds)
    OBVIOUS
  <2>2. queue[i].path = seeds[i] /\ queue[i].depth = 0
    BY <2>1
  <2> QED
    BY <1>3, <2>1, <2>2, SeedPath
<1> QED
  BY <1>3, <1>4 DEF ExpandInv, VisitInv, ScoredIsLinked

LEMMA VisitKeeps ==
  ASSUME ExpandInv, Visit
  PROVE  ExpandInv'
<1> USE DEF Visit
<1>1. /\ queue \in Seq(Items) /\ queue # <<>>
      /\ cur' = queue[1] /\ cur' \in Items
      /\ queue' = Tail(queue) /\ queue' \in Seq(Items)
  BY DEF ExpandInv, ExpandTypeOK
<1>2. Path(cur'.path, cur'.depth)
  BY <1>1 DEF ExpandInv, QueueInv
<1>3. /\ pending' \subseteq graph[cur'.path] /\ pending' \subseteq Files
      /\ pending' # {} => cur'.depth < MaxDepth
  <2>1. graph \in [Files -> SUBSET Files]
    BY ExpandAssumption DEF ExpandInv, ExpandTypeOK
  <2> QED
    BY <1>1, <2>1 DEF EdgesOf, Items
<1>4. \A f, d : Path(f, d)' <=> Path(f, d)
  BY DEF Path
<1>5. ExpandTypeOK'
  BY <1>1, <1>3 DEF ExpandInv, ExpandTypeOK
<1>6. QueueInv'
  <2> SUFFICES ASSUME NEW i \in 1..Len(queue')
               PROVE  Path(queue'[i].path, queue'[i].depth)
    BY <1>4 DEF QueueInv
  <2>1. i + 1 \in 1..Len(queue) /\ queue'[i] = queue[i + 1]
    BY <1>1
  <2> QED
    BY <2>1 DEF ExpandInv, QueueInv
<1>7. VisitInv'
  BY <1>2, <1>3, <1>4 DEF VisitInv
<1>8. ScoredIsLinked'
  BY <1>4 DEF ExpandInv, ScoredIsLinked
<1> QED
  BY <1>5, <1>6, <1>7, <1>8 DEF ExpandInv

LEMMA FollowKeeps ==
  ASSUME ExpandInv, NEW f \in Files, Follow(f)
  PROVE  ExpandInv'
<1> USE DEF Follow
<1> DEFINE n == cur.depth + 1
<1>1. cur \in Items /\ n \in 1..MaxDepth /\ cur.path \in Files /\ cur.depth \in Nat
  BY ExpandAssumption DEF ExpandInv, ExpandTypeOK, VisitInv, Items
<1>2. Path(f, n)
  <2>1. f \in graph[cur.path] /\ Path(cur.path, cur.depth)
    BY DEF ExpandInv, VisitInv
  <2> QED
    BY <1>1, <2>1, LongerPath
<1>3. Item(f, n) \in Items /\ Item(f, n).path = f /\ Item(f, n).depth = n
  BY <1>1 DEF Item, Items
<1>4. \A g, d : Path(g, d)' <=> Path(g, d)
  BY DEF Path
<1>5. /\ DOMAIN score' = DOMAIN score \cup {f}
      /\ \A g \in DOMAIN score' : score'[g] \in Nat
  <2>1. score' = Put(score, f, Get(score, f) + Bonus(n))
    OBVIOUS
  <2>2. Bonus(n) \in Nat
    BY <1>1, ExpandAssumption DEF Bonus
  <2>3. Get(score, f) \in Nat
    BY DEF Get, ExpandInv, ExpandTypeOK
  <2> HIDE DEF Follow
  <2> QED
    BY <2>1, <2>2, <2>3 DEF Put, ExpandInv, ExpandTypeOK
<1>6. \/ queue' = queue /\ seen' = seen
      \/ queue' = Append(queue, Item(f, n)) /\ seen' = Put(seen, f, n)
  OBVIOUS
<1>7. queue' \in Seq(Items)
  BY <1>3, <1>6 DEF ExpandInv, ExpandTypeOK
<1>8. DOMAIN seen' \subseteq Files /\ \A g \in DOMAIN seen' : seen'[g] \in 0..MaxDepth
  <2>1. DOMAIN seen \subseteq Files /\ \A g \in DOMAIN seen : seen[g] \in 0..MaxDepth
    BY DEF ExpandInv, ExpandTypeOK
  <2> HIDE DEF Follow
  <2> QED
    BY <1>1, <1>6, <2>1 DEF Put
<1>9. ExpandTypeOK'
  BY <1>5, <1>7, <1>8 DEF ExpandInv, ExpandTypeOK
<1>10. QueueInv'
  <2> SUFFICES ASSUME NEW i \in 1..Len(queue')
               PROVE  Path(queue'[i].path, queue'[i].depth)
    BY <1>4 DEF QueueInv
  <2>1. queue \in Seq(Items) /\ \A j \in 1..Len(queue) : Path(queue[j].path, queue[j].depth)
    BY DEF ExpandInv, ExpandTypeOK, QueueInv
  <2>2. \/ i \in 1..Len(queue) /\ queue'[i] = queue[i]
        \/ queue'[i] = Item(f, n)
    BY <1>6, <2>1
  <2> QED
    BY <1>2, <1>3, <2>1, <2>2
<1>11. VisitInv'
  BY <1>4 DEF ExpandInv, VisitInv
<1>12. ScoredIsLinked'
  <2> SUFFICES ASSUME NEW g \in DOMAIN score'
               PROVE  \E d \in 1..MaxDepth : Path(g, d)
    BY <1>4 DEF ScoredIsLinked
  <2>1. CASE g = f
    BY <1>1, <1>2, <2>1
  <2>2. CASE g \in DOMAIN score
    BY <2>2 DEF ExpandInv, ScoredIsLinked
  <2> QED
    BY <1>5, <2>1, <2>2
<1> QED
  BY <1>9, <1>10, <1>11, <1>12 DEF ExpandInv

LEMMA StutterKeeps ==
  ASSUME ExpandInv, UNCHANGED expandVars
  PROVE  ExpandInv'
<1> USE DEF expandVars
<1>1. \A f, d : Path(f, d)' <=> Path(f, d)
  BY DEF Path
<1>2. ExpandTypeOK' /\ VisitInv'
  BY <1>1 DEF ExpandInv, ExpandTypeOK, VisitInv
<1>3. QueueInv' /\ ScoredIsLinked'
  BY <1>1 DEF ExpandInv, QueueInv, ScoredIsLinked
<1> QED
  BY <1>2, <1>3 DEF ExpandInv

(* The types of Expand. *)
THEOREM ExpandTypeCorrect == ExpandSpec => []ExpandTypeOK
<1>1. (\E g \in Graphs, s \in Seq(Files) : ExpandInit(g, s)) => ExpandInv
  BY ExpandInitInv
<1>2. ExpandInv /\ [ExpandNext]_expandVars => ExpandInv'
  BY VisitKeeps, FollowKeeps, StutterKeeps DEF ExpandNext
<1>3. ExpandInv => ExpandTypeOK
  BY DEF ExpandInv
<1> QED
  BY <1>1, <1>2, <1>3, PTL DEF ExpandSpec

(* Only files that MaxDepth edges or fewer lead to from a seed are scored, *)
(* so nothing else of the repository gets a link bonus in the prompt.      *)
THEOREM ScoresAreLinked == ExpandSpec => []ScoredIsLinked
<1>1. (\E g \in Graphs, s \in Seq(Files) : ExpandInit(g, s)) => ExpandInv
  BY ExpandInitInv
<1>2. ExpandInv /\ [ExpandNext]_expandVars => ExpandInv'
  BY VisitKeeps, FollowKeeps, StutterKeeps DEF ExpandNext
<1>3. ExpandInv => ScoredIsLinked
  BY DEF ExpandInv
<1> QED
  BY <1>1, <1>2, <1>3, PTL DEF ExpandSpec

-----------------------------------------------------------------------------
(***************************************************************************)
(* The inventory                                                           *)
(***************************************************************************)
LEMMA FirstOfSeq ==
  ASSUME NEW S, NEW s \in Seq(S), NEW n \in Nat
  PROVE  FirstOf(s, n) \in Seq(S)
BY DEF FirstOf, Smaller

LEMMA RankedSeq ==
  ASSUME NEW S \in SUBSET Files, NEW sc, NEW s \in Ranked(S, sc)
  PROVE  s \in Seq(Files)
<1>1. Cardinality(S) \in Nat
  BY InventoryAssumption, FS_Subset, FS_CardinalityType
<1>2. s \in [1..Cardinality(S) -> S]
  BY DEF Ranked
<1> DEFINE n == Cardinality(S)
<1> HIDE DEF n
<1>3. s \in [1..n -> Files] /\ n \in Nat
  BY <1>1, <1>2 DEF n
<1> QED
  BY <1>3

LEMMA SeedsType == ASSUME NEW sc, NEW s \in Seeds(sc) PROVE s \in Seq(Files)
<1>1. PICK r \in Ranked(Files, sc) : s = FirstOf(r, Smaller(MaxFiles, SeedCap))
  BY DEF Seeds
<1>2. Smaller(MaxFiles, SeedCap) \in Nat
  BY InventoryAssumption DEF Smaller
<1> QED
  BY <1>1, <1>2, RankedSeq, FirstOfSeq

LEMMA SelectedType == ASSUME NEW sc, NEW s \in Selected(sc) PROVE s \in Seq(Files)
<1> DEFINE primary == IF Files \subseteq locks THEN Files ELSE Files \ locks
<1>1. PICK r \in Ranked(primary, sc) : s = FirstOf(r, MaxFiles)
  BY DEF Selected
<1>2. primary \in SUBSET Files /\ MaxFiles \in Nat
  BY InventoryAssumption
<1> HIDE DEF primary
<1> QED
  BY <1>1, <1>2, RankedSeq, FirstOfSeq

(* The search for links in the inventory is Expand, called once, with seeds *)
(* of the repository (buildTerraformRepoInventory).                         *)
THEOREM SearchIsExpand == Spec => ExpandSpec
<1>1. Init => \E g \in Graphs, s \in Seq(Files) : ExpandInit(g, s)
  BY SeedsType DEF Init
<1>2. [Next]_vars => [ExpandNext]_expandVars
  BY DEF Next, Expand, Choose, Emit, vars
<1> QED
  BY <1>1, <1>2, PTL DEF Spec, ExpandSpec

(* Only files that MaxDepth edges or fewer lead to from a seed get a bonus  *)
(* of Expand in the inventory.                                              *)
THEOREM ScoresOfInventoryAreLinked == Spec => []ScoredIsLinked
BY SearchIsExpand, ScoresAreLinked, PTL

-----------------------------------------------------------------------------
Pieces == [file : Files, from : 0..MaxBytes, to : 0..MaxBytes]

InventoryType ==
  /\ base \in Bases /\ locks \in LockSets /\ refs \in RefSets
  /\ phase \in {"expand", "print", "done"}
  /\ chosen \in Seq(Files)
  /\ printed \in Seq(Pieces)

(* What SpaceGoesToTheBest says of one piece. *)
PieceInv(i) ==
  /\ printed[i].file = chosen[i]
  /\ printed[i].from = IF i = 1 THEN 0 ELSE printed[i - 1].to
  /\ printed[i].to \in printed[i].from..MaxBytes
  /\ printed[i].to - printed[i].from = Size[printed[i].file] \/ (i = Len(printed) /\ printed[i].to = MaxBytes)

SpaceInv ==
  /\ phase = "expand" => printed = <<>>
  /\ Len(printed) <= Len(chosen)
  /\ \A i \in 1..Len(printed) : PieceInv(i)
  /\ phase = "done" /\ Len(printed) < Len(chosen) => Used = MaxBytes

IInv == InventoryType /\ SpaceInv

LEMMA UsedType == ASSUME InventoryType PROVE Used \in 0..MaxBytes
<1>1. printed \in Seq(Pieces) /\ MaxBytes \in Nat
  BY InventoryAssumption DEF InventoryType
<1>2. CASE printed = <<>>
  BY <1>1, <1>2 DEF Used
<1>3. CASE printed # <<>>
  <2>1. printed[Len(printed)] \in Pieces
    BY <1>1, <1>3
  <2> QED
    BY <1>3, <2>1 DEF Used, Pieces
<1> QED
  BY <1>2, <1>3

LEMMA InvInit == Init => IInv
<1> SUFFICES ASSUME Init PROVE IInv
  OBVIOUS
<1>1. InventoryType
  BY DEF Init, InventoryType
<1>2. SpaceInv
  <2>1. printed = <<>> /\ chosen = <<>> /\ phase = "expand"
    BY DEF Init
  <2> QED
    BY <2>1 DEF SpaceInv
<1> QED
  BY <1>1, <1>2 DEF IInv

(* A file that is printed takes what it needs of the space that is left. *)
LEMMA EmitStep == ASSUME IInv, Emit PROVE IInv'
<1>1. /\ phase = "print" /\ UNCHANGED <<base, locks, refs, chosen>>
      /\ chosen \in Seq(Files) /\ printed \in Seq(Pieces) /\ Len(printed) <= Len(chosen)
      /\ \A i \in 1..Len(printed) : PieceInv(i)
  BY DEF Emit, IInv, InventoryType, SpaceInv
<1>2. Used \in 0..MaxBytes /\ MaxBytes \in Nat /\ Size \in [Files -> Nat]
  BY UsedType, InventoryAssumption DEF IInv
<1>3. CASE Len(printed) < Len(chosen) /\ Used < MaxBytes
  <2> DEFINE n == Len(printed) + 1
             f == chosen[n]
             p == [file |-> f, from |-> Used, to |-> Used + Piece(f)]
  <2>1. n \in 1..Len(chosen) /\ f \in Files /\ Len(printed) \in Nat
    BY <1>1, <1>3
  <2>2. printed' = Append(printed, p) /\ phase' = "print"
    BY <1>1, <1>3 DEF Emit
  <2> HIDE DEF f
  <2>3. /\ Used + Piece(f) \in Used..MaxBytes
        /\ (Used + Piece(f)) - Used = Size[f] \/ Used + Piece(f) = MaxBytes
    <3>1. Size[f] \in Nat
      BY <1>2, <2>1
    <3> QED
      BY <1>2, <3>1 DEF Piece, Smaller
  <2>4. p \in Pieces /\ p.file = f /\ p.from = Used /\ p.to = Used + Piece(f)
    BY <1>2, <2>1, <2>3 DEF Pieces
  <2> HIDE DEF p
  <2>5. /\ printed' \in Seq(Pieces) /\ Len(printed') = n /\ printed'[n] = p
        /\ \A i \in 1..Len(printed) : printed'[i] = printed[i]
    BY <1>1, <2>2, <2>4
  <2>6. ASSUME NEW i \in 1..Len(printed') PROVE PieceInv(i)'
    <3>1. CASE i = n
      <4>1. p.from = IF n = 1 THEN 0 ELSE printed'[n - 1].to
        <5>1. CASE printed = <<>>
          BY <2>4, <5>1 DEF Used
        <5>2. CASE printed # <<>>
          <6>1. Len(printed) \in 1..Len(printed) /\ n - 1 = Len(printed) /\ n # 1
            BY <1>1, <2>1, <5>2
          <6> QED
            BY <2>4, <2>5, <5>2, <6>1 DEF Used
        <5> QED
          BY <5>1, <5>2
      <4> QED
        BY <1>1, <2>3, <2>4, <2>5, <3>1, <4>1 DEF PieceInv, f
    <3>2. CASE i # n
      <4>1. i \in 1..Len(printed) /\ (i # 1 => i - 1 \in 1..Len(printed))
        BY <2>1, <2>5, <2>6, <3>2
      <4>2. PieceInv(i) /\ printed'[i] = printed[i] /\ (i # 1 => printed'[i - 1] = printed[i - 1])
        BY <1>1, <2>5, <4>1
      <4>3. printed[i].to - printed[i].from = Size[printed[i].file]
        <5>1. i = Len(printed) /\ printed[i].to = MaxBytes => Used = MaxBytes
          BY <1>1, <4>1 DEF Used
        <5> QED
          BY <1>2, <1>3, <4>2, <5>1 DEF PieceInv
      <4> QED
        BY <1>1, <4>2, <4>3 DEF PieceInv
    <3> QED
      BY <3>1, <3>2
  <2>7. InventoryType'
    BY <1>1, <2>2, <2>5 DEF IInv, InventoryType
  <2>8. Len(printed') <= Len(chosen') /\ phase' = "print"
    BY <1>1, <2>1, <2>2, <2>5
  <2> QED
    BY <2>6, <2>7, <2>8 DEF IInv, SpaceInv
<1>4. CASE ~(Len(printed) < Len(chosen) /\ Used < MaxBytes)
  <2>1. phase' = "done" /\ UNCHANGED printed
    BY <1>4 DEF Emit
  <2>2. Used' = Used /\ (Len(printed) < Len(chosen) => Used = MaxBytes)
    BY <1>2, <1>4, <2>1 DEF Used
  <2>3. \A i \in 1..Len(printed') : PieceInv(i)'
    BY <1>1, <2>1 DEF PieceInv
  <2> QED
    BY <1>1, <2>1, <2>2, <2>3 DEF IInv, InventoryType, SpaceInv
<1> QED
  BY <1>3, <1>4

LEMMA InvNext == ASSUME IInv, [Next]_vars PROVE IInv'
<1>1. CASE Expand \/ UNCHANGED vars
  <2>1. UNCHANGED <<base, locks, refs, phase, chosen, printed>>
    BY <1>1 DEF Expand, vars
  <2>2. Used' = Used /\ \A i \in 1..Len(printed) : PieceInv(i)' <=> PieceInv(i)
    BY <2>1 DEF Used, PieceInv
  <2> QED
    BY <2>1, <2>2 DEF IInv, InventoryType, SpaceInv
<1>2. CASE Choose
  <2>1. /\ phase = "expand" /\ phase' = "print" /\ UNCHANGED <<base, locks, refs, printed>>
        /\ chosen' \in Selected(Final(score))
    BY <1>2 DEF Choose
  <2>2. chosen' \in Seq(Files)
    BY <2>1, SelectedType
  <2>3. printed' = <<>>
    BY <2>1 DEF IInv, SpaceInv
  <2> QED
    BY <2>1, <2>2, <2>3 DEF IInv, InventoryType, SpaceInv
<1> QED
  BY <1>1, <1>2, EmitStep DEF Next

LEMMA Invariance == Spec => []IInv
BY InvInit, InvNext, PTL DEF Spec

(* The types of the inventory and, with SearchIsExpand, of its search. *)
THEOREM TypeCorrect == Spec => []TypeOK
<1>1. ASSUME IInv, ExpandTypeOK PROVE TypeOK
  <2>1. InventoryType
    BY <1>1 DEF IInv
  <2>2. Range(chosen) \subseteq Files
    BY <2>1 DEF InventoryType, Range
  <2>3. \A i \in 1..Len(printed) : printed[i] \in Pieces
    BY <2>1 DEF InventoryType
  <2> QED
    BY <1>1, <2>1, <2>2, <2>3 DEF InventoryType, Pieces, TypeOK
<1> QED
  BY <1>1, Invariance, SearchIsExpand, ExpandTypeCorrect, PTL

(* For any files, scores, sizes and limits: the previews fill the space in  *)
(* the order of the ranking without a gap, only the last one is cut, where  *)
(* the space ends, and no file is left out while there is room.             *)
THEOREM SpaceIsUsedInOrder == Spec => []SpaceGoesToTheBest
<1>1. IInv => SpaceGoesToTheBest
  BY DEF IInv, SpaceInv, PieceInv, SpaceGoesToTheBest
<1> QED
  BY <1>1, Invariance, PTL
-----------------------------------------------------------------------------
(* The least element of a set of numbers.                                  *)
LEMMA HasLeast ==
  ASSUME NEW T, T \subseteq Nat, T # {}
  PROVE  \E x \in T : \A y \in T : x <= y
<1> DEFINE R == {ss \in Nat \X Nat : ss[1] < ss[2]}
<1>1. IsWellFoundedOn(R, Nat)
  BY NatLessThanWellFounded DEF OpToRel
<1>2. \A x, y \in Nat : ~(<<y, x>> \in R) => x <= y
  OBVIOUS
<1> HIDE DEF R
<1>3. \E x \in T : \A y \in T : ~(<<y, x>> \in R)
  BY <1>1, WFMin
<1> QED
  BY <1>2, <1>3

(* Induction up to a number, for the elements of a set.                   *)
LEMMA UpTo ==
  ASSUME NEW n \in Nat, NEW S, 0 \in S, \A k \in 1..n : k - 1 \in S => k \in S
  PROVE  n \in S /\ \A k \in 0..n : k \in S
<1> DEFINE T == {k \in 0..n : k \notin S}
<1>1. T \subseteq Nat
  OBVIOUS
<1>2. ASSUME T # {} PROVE FALSE
  <2>1. PICK m \in T : \A k \in T : m <= k
    <3> HIDE DEF T
    <3> QED
      BY <1>1, <1>2, HasLeast
  <2>2. m \in 1..n /\ m - 1 \in 0..n /\ m - 1 \notin T
    BY <2>1
  <2> QED
    BY <2>1, <2>2
<1> QED
  BY <1>2

-----------------------------------------------------------------------------
(***************************************************************************)
(* Sums                                                                    *)
(***************************************************************************)
Sums(h, c, n) == h \in [0..n -> Nat] /\ h[0] = 0 /\ \A d \in 1..n : h[d] = h[d - 1] + c[d]

Total(c, n) == (CHOOSE h : Sums(h, c, n))[n]

LEMMA SumsExist ==
  ASSUME NEW n \in Nat, NEW c \in [1..n -> Nat]
  PROVE  \E h : Sums(h, c, n)
<1> DEFINE S == {m \in 0..n : \E h : Sums(h, c, m)}
<1>1. 0 \in S
  <2>1. Sums([k \in 0..0 |-> 0], c, 0)
    BY DEF Sums
  <2> QED
    BY <2>1
<1>2. ASSUME NEW m \in 1..n, m - 1 \in S PROVE m \in S
  <2>1. PICK h : Sums(h, c, m - 1)
    BY <1>2
  <2> DEFINE k == [d \in 0..m |-> IF d = m THEN h[m - 1] + c[m] ELSE h[d]]
  <2>2. h \in [0..(m - 1) -> Nat] /\ h[0] = 0 /\ \A d \in 1..(m - 1) : h[d] = h[d - 1] + c[d]
    BY <2>1 DEF Sums
  <2>3. h[m - 1] + c[m] \in Nat
    BY <2>2
  <2>4. k \in [0..m -> Nat] /\ k[0] = 0
    BY <2>2, <2>3
  <2>5. ASSUME NEW d \in 1..m PROVE k[d] = k[d - 1] + c[d]
    <3>1. k[d - 1] = h[d - 1]
      OBVIOUS
    <3>2. CASE d = m
      BY <3>1, <3>2
    <3>3. CASE d # m
      <4>1. d \in 1..(m - 1) /\ k[d] = h[d]
        BY <3>3
      <4> QED
        BY <2>2, <3>1, <4>1
    <3> QED
      BY <3>2, <3>3
  <2> HIDE DEF k
  <2>6. Sums(k, c, m)
    BY <2>4, <2>5 DEF Sums
  <2> QED
    BY <2>6
<1>3. n \in S
  <2> HIDE DEF S
  <2> QED
    BY <1>1, <1>2, UpTo
<1> QED
  BY <1>3

LEMMA SumsAgree ==
  ASSUME NEW n \in Nat, NEW c \in [1..n -> Nat], NEW h, NEW k,
         h[0] = k[0], \A d \in 1..n : h[d] = h[d - 1] + c[d] /\ k[d] = k[d - 1] + c[d]
  PROVE  h[n] = k[n]
<1> DEFINE S == {d \in 0..n : h[d] = k[d]}
<1>1. 0 \in S
  OBVIOUS
<1>2. ASSUME NEW d \in 1..n, d - 1 \in S PROVE d \in S
  BY <1>2
<1>3. n \in S
  <2> HIDE DEF S
  <2> QED
    BY <1>1, <1>2, UpTo
<1> QED
  BY <1>3

LEMMA TotalIs ==
  ASSUME NEW n \in Nat, NEW c \in [1..n -> Nat], NEW h, h[0] = 0, \A d \in 1..n : h[d] = h[d - 1] + c[d]
  PROVE  Total(c, n) = h[n]
<1> DEFINE k == CHOOSE k : Sums(k, c, n)
<1>1. Sums(k, c, n)
  BY SumsExist
<1>2. Total(c, n) = k[n]
  BY DEF Total
<1> HIDE DEF k
<1>3. h[0] = k[0] /\ \A d \in 1..n : h[d] = h[d - 1] + c[d] /\ k[d] = k[d - 1] + c[d]
  BY <1>1 DEF Sums
<1>4. h[n] = k[n]
  BY <1>3, SumsAgree
<1> QED
  BY <1>2, <1>4

(* A sum grows by what one of its terms grows by.                          *)
LEMMA TotalGrows ==
  ASSUME NEW n \in Nat, NEW c \in [1..n -> Nat], NEW e \in [1..n -> Nat], NEW k \in 1..n, NEW b \in Nat,
         e[k] = c[k] + b, \A d \in 1..n : d # k => e[d] = c[d]
  PROVE  Total(e, n) = Total(c, n) + b
<1>1. PICK h : Sums(h, c, n)
  BY SumsExist
<1>2. h \in [0..n -> Nat] /\ h[0] = 0 /\ \A d \in 1..n : h[d] = h[d - 1] + c[d]
  BY <1>1 DEF Sums
<1> DEFINE g == [d \in 0..n |-> IF d < k THEN h[d] ELSE h[d] + b]
<1>3. g[0] = 0 /\ g[n] = h[n] + b
  BY <1>2
<1>4. ASSUME NEW d \in 1..n PROVE g[d] = g[d - 1] + e[d]
  <2>1. /\ d - 1 \in 0..n /\ d \in 0..n /\ h[d] = h[d - 1] + c[d]
        /\ h[d] \in Nat /\ h[d - 1] \in Nat /\ c[d] \in Nat
    BY <1>2
  <2>2. CASE d < k
    BY <2>1, <2>2
  <2>3. CASE d = k
    BY <2>1, <2>3
  <2>4. CASE d > k
    BY <2>1, <2>4
  <2> QED
    BY <2>2, <2>3, <2>4
<1> HIDE DEF g
<1>5. Total(e, n) = g[n]
  BY <1>3, <1>4, TotalIs
<1>6. Total(c, n) = h[n]
  BY <1>2, TotalIs
<1> QED
  BY <1>3, <1>5, <1>6

LEMMA TotalZero ==
  ASSUME NEW n \in Nat, NEW c \in [1..n -> Nat], \A d \in 1..n : c[d] = 0
  PROVE  Total(c, n) = 0
<1> DEFINE h == [d \in 0..n |-> 0]
<1>1. h[0] = 0 /\ h[n] = 0 /\ \A d \in 1..n : h[d] = h[d - 1] + c[d]
  OBVIOUS
<1> HIDE DEF h
<1> QED
  BY <1>1, TotalIs

-----------------------------------------------------------------------------
(***************************************************************************)
(* Rankings                                                                *)
(***************************************************************************)
LEMMA RankedIsUnique ==
  ASSUME NEW S \in SUBSET Files, NEW sc \in [Files -> Int], NEW s \in Ranked(S, sc), NEW t \in Ranked(S, sc)
  PROVE  s = t
<1> DEFINE n == Cardinality(S)
           Before(a, b) == sc[a] > sc[b] \/ (sc[a] = sc[b] /\ a < b)
<1>1. n \in Nat /\ IsFiniteSet(S) /\ S \subseteq Nat
  BY InventoryAssumption, FS_Subset, FS_CardinalityType
<1>2. \A a, b \in S : ~(Before(a, b) /\ Before(b, a))
  BY <1>1
<1>3. /\ s \in [1..n -> S] /\ \A i, j \in 1..n : i < j => Before(s[i], s[j])
      /\ t \in [1..n -> S] /\ \A i, j \in 1..n : i < j => Before(t[i], t[j])
  BY DEF Ranked
<1>4. IsFiniteSet(1..n) /\ Cardinality(1..n) = n
  BY <1>1, FS_Interval
<1> HIDE DEF n, Before
<1>5. ASSUME NEW u \in [1..n -> S], \A i, j \in 1..n : i < j => Before(u[i], u[j])
      PROVE  \A x \in S : \E i \in 1..n : u[i] = x
  <2>1. \A i, j \in 1..n : u[i] = u[j] => i = j
    <3> SUFFICES ASSUME NEW i \in 1..n, NEW j \in 1..n, u[i] = u[j], i # j PROVE FALSE
      OBVIOUS
    <3>1. i < j \/ j < i
      BY <1>1
    <3> QED
      BY <1>2, <1>5, <3>1
  <2>2. u \in Injection(1..n, S)
    BY <2>1 DEF Injection, IsInjective
  <2>3. u \in Surjection(1..n, S)
    BY <1>1, <1>4, <2>2, FS_Injection DEF n
  <2> QED
    BY <2>3 DEF Surjection
<1>6. ASSUME NEW i \in 1..n, \A k \in 1..(i - 1) : s[k] = t[k] PROVE s[i] = t[i]
  <2>1. PICK j \in 1..n : s[j] = t[i]
    BY <1>3, <1>5
  <2>2. PICK l \in 1..n : t[l] = s[i]
    BY <1>3, <1>5
  <2>3. ~(j < i)
    <3> SUFFICES ASSUME j < i PROVE FALSE
      OBVIOUS
    <3>1. j \in 1..(i - 1)
      BY <1>1
    <3>2. t[j] = t[i]
      BY <1>6, <2>1, <3>1
    <3> QED
      BY <1>2, <1>3, <3>2
  <2>4. ~(l < i)
    <3> SUFFICES ASSUME l < i PROVE FALSE
      OBVIOUS
    <3>1. l \in 1..(i - 1)
      BY <1>1
    <3>2. s[l] = s[i]
      BY <1>6, <2>2, <3>1
    <3> QED
      BY <1>2, <1>3, <3>2
  <2>5. CASE j = i
    BY <2>1, <2>5
  <2>6. CASE l = i
    BY <2>2, <2>6
  <2>7. CASE i < j /\ i < l
    <3>1. Before(s[i], t[i]) /\ Before(t[i], s[i])
      BY <1>3, <2>1, <2>2, <2>7
    <3> QED
      BY <1>2, <1>3, <3>1
  <2> QED
    BY <1>1, <2>3, <2>4, <2>5, <2>6, <2>7
<1>7. \A i \in 1..n : s[i] = t[i]
  <2> DEFINE A == {k \in 0..n : \A i \in 1..k : s[i] = t[i]}
  <2>1. 0 \in A
    BY <1>1
  <2>2. ASSUME NEW k \in 1..n, k - 1 \in A PROVE k \in A
    BY <1>1, <1>6, <2>2
  <2>3. n \in A
    <3> HIDE DEF A
    <3> QED
      BY <1>1, <2>1, <2>2, UpTo
  <2> QED
    BY <2>3
<1>8. s = [i \in 1..n |-> s[i]] /\ t = [i \in 1..n |-> t[i]]
  BY <1>3
<1> QED
  BY <1>7, <1>8

-----------------------------------------------------------------------------
(***************************************************************************)
(* Levels of the search                                                    *)
(***************************************************************************)
LEMMA ShorterPath ==
  ASSUME NEW f, NEW d \in Nat, Path(f, d + 1)
  PROVE  \E g \in Files : Path(g, d) /\ f \in graph[g]
<1>1. PICK p \in [0..(d + 1) -> Files] :
         /\ \E i \in 1..Len(seeds) : p[0] = seeds[i]
         /\ p[d + 1] = f
         /\ \A i \in 0..((d + 1) - 1) : p[i + 1] \in graph[p[i]]
  BY DEF Path
<1> DEFINE q == [i \in 0..d |-> p[i]]
<1>2. q \in [0..d -> Files] /\ q[0] = p[0] /\ q[d] = p[d] /\ p[d] \in Files
  BY <1>1
<1>3. \A i \in 0..(d - 1) : q[i + 1] \in graph[q[i]]
  BY <1>1
<1>4. f \in graph[p[d]]
  BY <1>1
<1> HIDE DEF q
<1>5. Path(p[d], d)
  BY <1>1, <1>2, <1>3 DEF Path
<1> QED
  BY <1>2, <1>4, <1>5

LEMMA PathToSeed ==
  ASSUME ExpandTypeOK, NEW f
  PROVE  Path(f, 0) <=> \E i \in 1..Len(seeds) : f = seeds[i]
<1>1. Path(f, 0) => \E i \in 1..Len(seeds) : f = seeds[i]
  BY DEF Path
<1> QED
  BY <1>1, SeedPath

LEMMA WithinIs ==
  ASSUME ExpandTypeOK
  PROVE  \A d \in Nat : Within[d] = {f \in Files : \E e \in 0..d : Path(f, e)}
<1> DEFINE Level(d) == {f \in Files : \E e \in 0..d : Path(f, e)}
           Step(h, d) == IF d = 0 THEN Range(seeds) ELSE h[d - 1] \cup UNION {graph[f] : f \in h[d - 1]}
           L == [d \in Nat |-> Level(d)]
<1>1. graph \in [Files -> SUBSET Files] /\ seeds \in Seq(Files)
  BY ExpandAssumption DEF ExpandTypeOK
<1>2. Level(0) = Range(seeds)
  BY <1>1, PathToSeed DEF Range
<1>3. ASSUME NEW d \in Nat, d # 0
      PROVE  Level(d) = Level(d - 1) \cup UNION {graph[f] : f \in Level(d - 1)}
  <2>1. ASSUME NEW f \in Level(d) PROVE f \in Level(d - 1) \/ \E g \in Level(d - 1) : f \in graph[g]
    <3>1. PICK e \in 0..d : Path(f, e)
      OBVIOUS
    <3>2. CASE e < d
      BY <1>3, <3>1, <3>2
    <3>3. CASE e = d
      <4>1. d - 1 \in Nat /\ (d - 1) + 1 = d
        BY <1>3
      <4>2. PICK g \in Files : Path(g, d - 1) /\ f \in graph[g]
        BY <3>1, <3>3, <4>1, ShorterPath
      <4> QED
        BY <4>1, <4>2
    <3> QED
      BY <3>2, <3>3
  <2>2. Level(d - 1) \subseteq Level(d)
    BY <1>3
  <2>3. ASSUME NEW g \in Level(d - 1), NEW f \in graph[g] PROVE f \in Level(d)
    <3>1. PICK e \in 0..(d - 1) : Path(g, e)
      OBVIOUS
    <3>2. f \in Files /\ e \in Nat /\ e + 1 \in 0..d
      BY <1>1, <1>3
    <3>3. Path(f, e + 1)
      BY <3>1, <3>2, LongerPath
    <3> QED
      BY <3>2, <3>3
  <2> HIDE DEF Level
  <2> QED
    BY <2>1, <2>2, <2>3
<1> HIDE DEF Level
<1>4. L = [d \in Nat |-> Step(L, d)]
  <2>1. ASSUME NEW d \in Nat PROVE L[d] = Step(L, d)
    <3>1. CASE d = 0
      BY <1>2, <3>1
    <3>2. CASE d # 0
      <4>1. d - 1 \in Nat
        BY <3>2
      <4> QED
        BY <1>3, <3>2, <4>1
    <3> QED
      BY <3>1, <3>2
  <2> HIDE DEF Step
  <2> QED
    BY <2>1
<1>5. Within = [d \in Nat |-> Step(Within, d)]
  <2> DEFINE W == CHOOSE h : h = [d \in Nat |-> Step(h, d)]
  <2>1. W = [d \in Nat |-> Step(W, d)]
    <3> HIDE DEF L, Step
    <3> QED
      BY <1>4
  <2>2. Within = W
    BY DEF Within
  <2> QED
    BY <2>1, <2>2
<1>6. ASSUME NEW d \in Nat PROVE Within[d] = Level(d)
  <2> DEFINE S == {k \in 0..d : Within[k] = Level(k)}
  <2>1. \A k \in Nat : Within[k] = Step(Within, k)
    <3> HIDE DEF Step
    <3> QED
      BY <1>5
  <2>2. 0 \in S
    <3>1. Step(Within, 0) = Range(seeds)
      OBVIOUS
    <3>2. Within[0] = Level(0)
      BY <1>2, <2>1, <3>1
    <3> QED
      BY <3>2
  <2>3. ASSUME NEW k \in 1..d, k - 1 \in S PROVE k \in S
    <3>1. k \in Nat /\ k # 0 /\ k - 1 \in Nat /\ Within[k - 1] = Level(k - 1)
      BY <2>3
    <3>2. Step(Within, k) = Within[k - 1] \cup UNION {graph[f] : f \in Within[k - 1]}
      BY <3>1
    <3>3. Within[k] = Level(k)
      BY <1>3, <2>1, <3>1, <3>2
    <3> QED
      BY <3>3
  <2>4. d \in S
    <3> HIDE DEF S
    <3> QED
      BY <2>2, <2>3, UpTo
  <2> QED
    BY <2>4
<1> QED
  BY <1>6 DEF Level

-----------------------------------------------------------------------------
InQueue(f) == \E i \in 1..Len(queue) : queue[i].path = f

(* The edges of a file over which the search has ranged. *)
Ranged(g) ==
  IF g \in DOMAIN seen /\ ~InQueue(g)
    THEN EdgesOf(Item(g, seen[g])) \ (IF g = cur.path THEN pending ELSE {})
    ELSE {}

(* A file waits once, with the depth at which it was seen, behind those of *)
(* its depth or less; nothing is deeper than what the file being visited   *)
(* leads to.                                                               *)
OrderInv ==
  /\ cur.depth \in Nat
  /\ \A i \in 1..Len(queue) :
       /\ queue[i].path \in DOMAIN seen /\ queue[i].depth = seen[queue[i].path]
       /\ queue[i].depth \in cur.depth..(cur.depth + 1)
       /\ \A j \in 1..Len(queue) : i < j => queue[i].path # queue[j].path /\ queue[i].depth <= queue[j].depth
  /\ \A f \in DOMAIN seen : seen[f] <= cur.depth + 1
  /\ pending # {} =>
       /\ cur.path \in DOMAIN seen /\ cur.depth = seen[cur.path]
       /\ ~InQueue(cur.path) /\ pending \subseteq EdgesOf(cur)

(* What is seen lies at the end of a path as long as its depth says, and   *)
(* what a file leads to is seen, at most one deeper, once it was ranged    *)
(* over.                                                                   *)
ReachInv ==
  /\ \A i \in 1..Len(seeds) : seeds[i] \in DOMAIN seen /\ seen[seeds[i]] = 0
  /\ \A f \in DOMAIN seen : Path(f, seen[f])
  /\ \A g \in Files : \A f \in Ranged(g) : f \in DOMAIN seen /\ seen[f] <= seen[g] + 1

(* The files at a depth whose edges gave f something, what the edges so    *)
(* far give it, by the depth at which they end, and in all.                *)
Sources(f, d) == {g \in Files : g \in DOMAIN seen /\ seen[g] = d - 1 /\ f \in Ranged(g)}
Given(f)      == [d \in 1..MaxDepth |-> Bonus(d) * Cardinality(Sources(f, d))]
ScoreInv      == \A f \in Files : Get(score, f) = Total(Given(f), MaxDepth)

SearchInv == OrderInv /\ ReachInv /\ ScoreInv

LEMMA GivenType == ASSUME NEW f PROVE Given(f) \in [1..MaxDepth -> Nat]
<1>1. ASSUME NEW d \in 1..MaxDepth PROVE Bonus(d) * Cardinality(Sources(f, d)) \in Nat
  <2>1. Bonus(d) \in Nat
    BY ExpandAssumption DEF Bonus
  <2>2. Sources(f, d) \in SUBSET Files
    BY DEF Sources
  <2>3. Cardinality(Sources(f, d)) \in Nat
    BY <2>2, InventoryAssumption, FS_Subset, FS_CardinalityType
  <2> HIDE DEF Sources
  <2> QED
    BY <2>1, <2>3
<1> QED
  BY <1>1 DEF Given

LEMMA SearchInit == ASSUME Init, ExpandTypeOK PROVE SearchInv
<1>1. PICK r \in Ranked(Files, Hinted) : seeds = FirstOf(r, Smaller(MaxFiles, SeedCap))
  BY DEF Init, ExpandInit, Seeds
<1>2. /\ queue = [i \in 1..Len(seeds) |-> Item(seeds[i], 0)] /\ pending = {}
      /\ cur.depth = 0
      /\ seen = [f \in {seeds[i] : i \in 1..Len(seeds)} |-> 0] /\ score = [f \in {} |-> 0]
  BY DEF Init, ExpandInit, Item
<1>3. seeds \in Seq(Files) /\ Len(seeds) \in Nat
  BY DEF ExpandTypeOK
<1>4. /\ Len(queue) = Len(seeds)
      /\ \A i \in 1..Len(seeds) : queue[i].path = seeds[i] /\ queue[i].depth = 0
  BY <1>2, <1>3 DEF Item
<1>5. DOMAIN seen = {seeds[i] : i \in 1..Len(seeds)} /\ \A f \in DOMAIN seen : seen[f] = 0
  BY <1>2
<1>6. \A i, j \in 1..Len(seeds) : i < j => seeds[i] # seeds[j]
  <2> DEFINE n == Cardinality(Files)
  <2>1. n \in Nat /\ Files \subseteq Nat
    BY InventoryAssumption, FS_CardinalityType
  <2>2. /\ r \in [1..n -> Files]
        /\ \A i, j \in 1..n : i < j => Hinted[r[i]] > Hinted[r[j]] \/ (Hinted[r[i]] = Hinted[r[j]] /\ r[i] < r[j])
    BY DEF Ranked
  <2>3. \A f \in Files : Hinted[f] \in Int
    <3>1. base \in [Files -> [score : Int, link : Nat]]
      BY InventoryAssumption DEF Init
    <3> QED
      BY <3>1 DEF Hinted
  <2> HIDE DEF n
  <2>4. ASSUME NEW i \in 1..n, NEW j \in 1..n, i < j PROVE r[i] # r[j]
    <3>1. r[i] \in Nat /\ Hinted[r[i]] \in Int
      BY <2>1, <2>2, <2>3
    <3>2. Hinted[r[i]] > Hinted[r[j]] \/ r[i] < r[j]
      BY <2>2, <2>4
    <3> QED
      BY <3>1, <3>2
  <2>5. r \in Seq(Files) /\ Len(r) = n
    BY <2>1, <2>2
  <2>6. Smaller(MaxFiles, SeedCap) \in Nat
    BY InventoryAssumption DEF Smaller
  <2>7. Len(seeds) <= n /\ \A i \in 1..Len(seeds) : seeds[i] = r[i]
    BY <1>1, <2>1, <2>5, <2>6 DEF FirstOf, Smaller
  <2> QED
    BY <1>3, <2>1, <2>4, <2>7
<1>7. \A f \in DOMAIN seen : InQueue(f)
  BY <1>4, <1>5 DEF InQueue
<1>8. \A g : Ranged(g) = {}
  BY <1>7 DEF Ranged
<1>9. OrderInv
  BY <1>2, <1>3, <1>4, <1>5, <1>6 DEF OrderInv
<1>10. ReachInv
  <2>1. \A f \in DOMAIN seen : Path(f, seen[f])
    BY <1>5, PathToSeed
  <2> QED
    BY <1>5, <1>8, <2>1 DEF ReachInv
<1>11. ScoreInv
  <2> SUFFICES ASSUME NEW f \in Files PROVE Get(score, f) = Total(Given(f), MaxDepth)
    BY DEF ScoreInv
  <2>1. Get(score, f) = 0
    BY <1>2 DEF Get
  <2>2. \A d \in 1..MaxDepth : Given(f)[d] = 0
    <3> SUFFICES ASSUME NEW d \in 1..MaxDepth PROVE Given(f)[d] = 0
      OBVIOUS
    <3>1. Sources(f, d) = {}
      BY <1>8 DEF Sources
    <3>2. Cardinality(Sources(f, d)) = 0
      BY <3>1, FS_EmptySet
    <3>3. Given(f)[d] = Bonus(d) * 0
      BY <3>2 DEF Given
    <3>4. Bonus(d) \in Nat
      BY ExpandAssumption DEF Bonus
    <3> QED
      BY <3>3, <3>4
  <2>3. Total(Given(f), MaxDepth) = 0
    BY <2>2, GivenType, TotalZero, ExpandAssumption
  <2> QED
    BY <2>1, <2>3
<1> QED
  BY <1>9, <1>10, <1>11 DEF SearchInv

(* Steps that keep what is ranged over and seen keep what that implies.    *)
LEMMA ReachKept ==
  ASSUME SearchInv, UNCHANGED <<graph, seeds, seen, score>>, \A g \in Files : Ranged(g)' = Ranged(g)
  PROVE  ReachInv' /\ ScoreInv'
<1>1. \A f, d : Path(f, d)' <=> Path(f, d)
  BY DEF Path
<1>2. ReachInv'
  BY <1>1 DEF SearchInv, ReachInv
<1>3. ASSUME NEW f \in Files PROVE Given(f)' = Given(f)
  <2>1. ASSUME NEW d PROVE Sources(f, d)' = Sources(f, d)
    BY DEF Sources
  <2> QED
    BY <2>1 DEF Given
<1>4. ASSUME NEW f \in Files PROVE Total(Given(f), MaxDepth)' = Total(Given(f), MaxDepth)
  BY <1>3 DEF Total, Sums
<1>5. ScoreInv'
  BY <1>4 DEF SearchInv, ScoreInv, Get
<1> QED
  BY <1>2, <1>5

LEMMA VisitSearches == ASSUME ExpandInv, SearchInv, Visit PROVE SearchInv'
<1>0. PICK c : c = queue[1]
  OBVIOUS
<1>1. /\ pending = {} /\ queue \in Seq(Items) /\ queue # <<>> /\ Len(queue) \in Nat
      /\ c = queue[1] /\ cur' = c /\ queue' = Tail(queue) /\ pending' = EdgesOf(c)
      /\ UNCHANGED <<graph, seeds, seen, score>>
  BY <1>0 DEF Visit, ExpandInv, ExpandTypeOK, EdgesOf
<1>2. OrderInv
  BY DEF SearchInv
<1>3. Len(queue) # 0 /\ Len(queue') = Len(queue) - 1 /\ \A i \in 1..Len(queue') : i + 1 \in 1..Len(queue) /\ queue'[i] = queue[i + 1]
  BY <1>1
<1>4. /\ c.path \in DOMAIN seen /\ c.depth = seen[c.path] /\ c.depth \in Nat
      /\ c.depth \in cur.depth..(cur.depth + 1)
  BY <1>1, <1>2, <1>3 DEF OrderInv
<1>5. ~InQueue(c.path)'
  <2>1. \A i \in 1..Len(queue') : queue[i + 1].path # queue[1].path
    BY <1>2, <1>3 DEF OrderInv
  <2> QED
    BY <1>1, <1>3, <2>1 DEF InQueue
<1>6. \A g : InQueue(g) <=> g = c.path \/ InQueue(g)'
  <2>1. ASSUME NEW g, InQueue(g), g # c.path PROVE InQueue(g)'
    <3>1. PICK i \in 1..Len(queue) : queue[i].path = g
      BY <2>1 DEF InQueue
    <3>2. i # 1 /\ i - 1 \in 1..Len(queue') /\ queue'[i - 1] = queue[(i - 1) + 1]
      BY <1>1, <1>3, <2>1, <3>1
    <3> QED
      BY <3>1, <3>2 DEF InQueue
  <2>2. ASSUME NEW g, InQueue(g)' PROVE InQueue(g)
    BY <1>3, <2>2 DEF InQueue
  <2>3. InQueue(c.path)
    BY <1>1, <1>3 DEF InQueue
  <2> QED
    BY <2>1, <2>2, <2>3
<1>7. \A i : EdgesOf(i)' = EdgesOf(i)
  BY <1>1 DEF EdgesOf
<1>8. ASSUME NEW g \in Files PROVE Ranged(g)' = Ranged(g)
  <2>1. CASE g = c.path
    <3>1. Ranged(g) = {}
      BY <1>6, <2>1 DEF Ranged
    <3>2. EdgesOf(Item(g, seen[g])) = EdgesOf(c)
      BY <1>4, <2>1 DEF EdgesOf, Item
    <3>3. Ranged(g)' = EdgesOf(Item(g, seen[g])) \ pending'
      BY <1>1, <1>4, <1>5, <1>7, <2>1 DEF Ranged, Item
    <3> QED
      BY <1>1, <3>1, <3>2, <3>3
  <2>2. CASE g # c.path
    <3>1. InQueue(g)' <=> InQueue(g)
      BY <1>6, <2>2
    <3>2. Item(g, seen[g])' = Item(g, seen[g]) /\ EdgesOf(Item(g, seen[g]))' = EdgesOf(Item(g, seen[g]))
      BY <1>1, <1>7 DEF Item, EdgesOf
    <3> QED
      BY <1>1, <2>2, <3>1, <3>2 DEF Ranged
  <2> QED
    BY <2>1, <2>2
<1>9. OrderInv'
  <2>1. ASSUME NEW i \in 1..Len(queue')
        PROVE  /\ queue'[i].path \in DOMAIN seen /\ queue'[i].depth = seen[queue'[i].path]
               /\ queue'[i].depth \in c.depth..(c.depth + 1)
               /\ \A j \in 1..Len(queue') : i < j =>
                    queue'[i].path # queue'[j].path /\ queue'[i].depth <= queue'[j].depth
    <3>1. /\ queue[i + 1].path \in DOMAIN seen /\ queue[i + 1].depth = seen[queue[i + 1].path]
          /\ queue[i + 1].depth \in cur.depth..(cur.depth + 1) /\ queue[1].depth <= queue[i + 1].depth
      BY <1>2, <1>3 DEF OrderInv
    <3>2. \A j \in 1..Len(queue') : i < j =>
            queue[i + 1].path # queue[j + 1].path /\ queue[i + 1].depth <= queue[j + 1].depth
      BY <1>2, <1>3 DEF OrderInv
    <3>3. cur.depth \in Nat
      BY <1>2 DEF OrderInv
    <3> QED
      BY <1>1, <1>3, <1>4, <3>1, <3>2, <3>3
  <2>2. \A f \in DOMAIN seen : seen[f] <= c.depth + 1
    <3>1. cur.depth \in Nat /\ \A f \in DOMAIN seen : seen[f] <= cur.depth + 1 /\ seen[f] \in Int
      BY <1>2, ExpandAssumption DEF OrderInv, ExpandInv, ExpandTypeOK
    <3> QED
      BY <1>4, <3>1
  <2> QED
    BY <1>1, <1>4, <1>5, <2>1, <2>2, <1>7 DEF OrderInv
<1>10. ReachInv' /\ ScoreInv'
  BY <1>1, <1>8, ReachKept
<1> QED
  BY <1>9, <1>10 DEF SearchInv

LEMMA FollowSearches == ASSUME ExpandInv, SearchInv, NEW f \in Files, Follow(f) PROVE SearchInv'
<1>0. PICK c, n : c = cur.path /\ n = cur.depth + 1
  OBVIOUS
<1>1. /\ f \in pending /\ pending' = pending \ {f} /\ UNCHANGED <<graph, seeds, cur>>
      /\ score' = Put(score, f, Get(score, f) + Bonus(n))
      /\ queue \in Seq(Items) /\ Len(queue) \in Nat
  BY <1>0 DEF Follow, ExpandInv, ExpandTypeOK
<1>2. /\ c \in DOMAIN seen /\ c \in Files /\ cur.depth = seen[c] /\ cur.depth = n - 1 /\ ~InQueue(c)
      /\ cur.depth \in 0..MaxDepth /\ n \in 1..MaxDepth /\ f \in EdgesOf(cur) /\ f \in graph[c]
  BY <1>0, <1>1, ExpandAssumption DEF SearchInv, OrderInv, ExpandInv, ExpandTypeOK, VisitInv, Items, EdgesOf
<1>3. OrderInv /\ ReachInv
  BY DEF SearchInv
<1>4. DOMAIN seen \subseteq Files /\ \A g \in DOMAIN seen : seen[g] \in Nat /\ seen[g] <= n
  BY <1>0, <1>3, ExpandAssumption DEF OrderInv, ExpandInv, ExpandTypeOK
<1>5. \/ f \in DOMAIN seen /\ seen[f] <= n /\ UNCHANGED <<queue, seen>>
      \/ f \notin DOMAIN seen /\ seen' = Put(seen, f, n) /\ queue' = Append(queue, Item(f, n))
  BY <1>0, <1>4 DEF Follow
<1>6. /\ DOMAIN seen' = DOMAIN seen \cup {f} /\ seen'[f] <= n /\ seen'[f] \in Nat
      /\ \A g \in DOMAIN seen : seen'[g] = seen[g]
      /\ f \notin DOMAIN seen => seen'[f] = n
  <2>1. CASE f \in DOMAIN seen /\ seen[f] <= n /\ UNCHANGED <<queue, seen>>
    BY <1>4, <2>1
  <2>2. CASE f \notin DOMAIN seen /\ seen' = Put(seen, f, n)
    <3>1. seen' = [g \in DOMAIN seen \cup {f} |-> IF g = f THEN n ELSE seen[g]]
      BY <2>2 DEF Put
    <3>2. DOMAIN seen' = DOMAIN seen \cup {f} /\ seen'[f] = n /\ \A g \in DOMAIN seen : seen'[g] = seen[g]
      BY <2>2, <3>1
    <3>3. n \in Nat
      BY <1>2
    <3> QED
      BY <2>2, <3>2, <3>3
  <2> QED
    BY <1>5, <2>1, <2>2
<1>7. \A g : InQueue(g)' <=> InQueue(g) \/ (g = f /\ f \notin DOMAIN seen)
  <2>1. CASE UNCHANGED queue /\ f \in DOMAIN seen
    BY <2>1 DEF InQueue
  <2>2. CASE f \notin DOMAIN seen /\ queue' = Append(queue, Item(f, n))
    <3>1. /\ Len(queue') = Len(queue) + 1 /\ queue'[Len(queue) + 1].path = f
          /\ \A i \in 1..Len(queue) : queue'[i] = queue[i]
      BY <1>1, <2>2 DEF Item
    <3>2. ASSUME NEW g, InQueue(g)' PROVE InQueue(g) \/ g = f
      <4>1. PICK i \in 1..Len(queue') : queue'[i].path = g
        BY <3>2 DEF InQueue
      <4>2. i \in 1..Len(queue) \/ i = Len(queue) + 1
        BY <1>1, <3>1
      <4> QED
        BY <3>1, <4>1, <4>2 DEF InQueue
    <3>3. ASSUME NEW g, InQueue(g) \/ g = f PROVE InQueue(g)'
      <4>1. Len(queue) + 1 \in 1..Len(queue') /\ \A i \in 1..Len(queue) : i \in 1..Len(queue')
        BY <1>1, <3>1
      <4> QED
        BY <3>1, <3>3, <4>1 DEF InQueue
    <3> QED
      BY <2>2, <3>2, <3>3
  <2> QED
    BY <1>5, <2>1, <2>2
<1>8. \A i : EdgesOf(i)' = EdgesOf(i)
  BY <1>1 DEF EdgesOf
<1>9. f # c
  BY <1>2, ExpandAssumption DEF ExpandInv, ExpandTypeOK
<1>10. Ranged(c)' = Ranged(c) \cup {f} /\ f \notin Ranged(c)
  <2>1. EdgesOf(Item(c, seen[c])) = EdgesOf(cur)
    BY <1>0, <1>2 DEF EdgesOf, Item
  <2>2. Ranged(c) = EdgesOf(cur) \ pending
    BY <1>0, <1>2, <2>1 DEF Ranged
  <2>3. ~InQueue(c)' /\ c \in DOMAIN seen' /\ seen'[c] = seen[c] /\ cur'.path = c
    BY <1>0, <1>1, <1>2, <1>6, <1>7, <1>9
  <2>4. EdgesOf(Item(c, seen[c]))' = EdgesOf(cur)
    BY <1>1, <2>1, <2>3 DEF EdgesOf, Item
  <2>5. Ranged(c)' = EdgesOf(cur) \ pending'
    BY <2>3, <2>4 DEF Ranged
  <2> QED
    BY <1>1, <1>2, <2>2, <2>5
<1>11. ASSUME NEW g \in Files, g # c PROVE Ranged(g)' = Ranged(g)
  <2>1. CASE g = f /\ f \notin DOMAIN seen
    <3>1. Ranged(g) = {}
      BY <2>1 DEF Ranged
    <3>2. InQueue(g)'
      BY <1>7, <2>1
    <3>3. Ranged(g)' = {}
      BY <3>2 DEF Ranged
    <3> QED
      BY <3>1, <3>3
  <2>2. CASE ~(g = f /\ f \notin DOMAIN seen)
    <3>1. (InQueue(g)' <=> InQueue(g)) /\ (g \in DOMAIN seen' <=> g \in DOMAIN seen)
      BY <1>6, <1>7, <2>2
    <3>2. CASE g \in DOMAIN seen
      <4>1. seen'[g] = seen[g] /\ cur'.path # g /\ cur.path # g
        BY <1>0, <1>1, <1>6, <1>11, <3>2
      <4>2. EdgesOf(Item(g, seen[g]))' = EdgesOf(Item(g, seen[g]))
        BY <1>1, <4>1 DEF EdgesOf, Item
      <4> QED
        BY <3>1, <4>1, <4>2 DEF Ranged
    <3>3. CASE g \notin DOMAIN seen
      BY <3>1, <3>3 DEF Ranged
    <3> QED
      BY <3>2, <3>3
  <2> QED
    BY <2>1, <2>2
<1>12. OrderInv'
  <2>1. CASE UNCHANGED <<queue, seen>> /\ f \in DOMAIN seen
    <3>1. ~InQueue(cur.path)' /\ pending' \subseteq EdgesOf(cur)'
      BY <1>0, <1>1, <1>2, <1>3, <1>7, <1>8, <2>1 DEF OrderInv
    <3>2. cur' = cur /\ queue' = queue /\ seen' = seen
      BY <1>1, <2>1
    <3> QED
      BY <1>0, <1>2, <1>3, <3>1, <3>2 DEF OrderInv
  <2>2. CASE f \notin DOMAIN seen /\ seen' = Put(seen, f, n) /\ queue' = Append(queue, Item(f, n))
    <3> DEFINE l == Len(queue) + 1
    <3>1. /\ Len(queue') = l /\ queue'[l].path = f /\ queue'[l].depth = n
          /\ \A i \in 1..Len(queue) : queue'[i] = queue[i]
      BY <1>1, <2>2 DEF Item
    <3>2. \A i \in 1..Len(queue) :
            /\ queue[i].path \in DOMAIN seen /\ queue[i].depth = seen[queue[i].path]
            /\ queue[i].depth \in cur.depth..(cur.depth + 1)
            /\ \A j \in 1..Len(queue) : i < j => queue[i].path # queue[j].path /\ queue[i].depth <= queue[j].depth
      BY <1>3 DEF OrderInv
    <3>3. ASSUME NEW i \in 1..l
          PROVE  /\ queue'[i].path \in DOMAIN seen' /\ queue'[i].depth = seen'[queue'[i].path]
                 /\ queue'[i].depth \in cur.depth..(cur.depth + 1)
                 /\ \A j \in 1..l : i < j => queue'[i].path # queue'[j].path /\ queue'[i].depth <= queue'[j].depth
      <4>1. CASE i = l
        BY <1>0, <1>1, <1>2, <1>6, <2>2, <3>1, <4>1
      <4>2. CASE i # l
        <5>1. i \in 1..Len(queue) /\ queue'[i] = queue[i]
          BY <1>1, <3>1, <4>2
        <5>2. queue[i].path # f /\ queue[i].depth <= n
          BY <1>0, <1>2, <2>2, <3>2, <5>1
        <5>3. \A j \in 1..l : j \in 1..Len(queue) \/ j = l
          BY <1>1
        <5> QED
          BY <1>6, <3>1, <3>2, <5>1, <5>2, <5>3
      <4> QED
        BY <4>1, <4>2
    <3>4. \A g \in DOMAIN seen' : seen'[g] <= cur.depth + 1
      BY <1>0, <1>4, <1>6
    <3>5. /\ cur'.path \in DOMAIN seen' /\ cur'.depth = seen'[cur'.path] /\ ~InQueue(cur.path)'
          /\ pending' \subseteq EdgesOf(cur)'
      BY <1>0, <1>1, <1>2, <1>3, <1>6, <1>7, <1>8, <1>9 DEF OrderInv
    <3>6. cur' = cur /\ cur.depth \in Nat
      BY <1>1, <1>3 DEF OrderInv
    <3> HIDE DEF l
    <3> QED
      BY <3>1, <3>3, <3>4, <3>5, <3>6 DEF OrderInv
  <2> QED
    BY <1>5, <2>1, <2>2
<1>13. ReachInv'
  <2>1. \A g, d : Path(g, d)' <=> Path(g, d)
    BY <1>1 DEF Path
  <2>2. \A i \in 1..Len(seeds) : seeds[i] \in DOMAIN seen' /\ seen'[seeds[i]] = 0
    BY <1>3, <1>6 DEF ReachInv
  <2>3. ASSUME NEW g \in DOMAIN seen' PROVE Path(g, seen'[g])
    <3>1. CASE g \in DOMAIN seen
      BY <1>3, <1>6, <3>1 DEF ReachInv
    <3>2. CASE g \notin DOMAIN seen
      <4>1. g = f /\ seen'[g] = n
        BY <1>6, <3>2
      <4>2. Path(c, seen[c]) /\ seen[c] \in Nat /\ n = seen[c] + 1
        <5>1. Path(c, seen[c])
          BY <1>2, <1>3 DEF ReachInv
        <5>2. seen[c] \in Nat /\ n = seen[c] + 1
          BY <1>2
        <5> QED
          BY <5>1, <5>2
      <4> QED
        BY <1>2, <4>1, <4>2, LongerPath
    <3> QED
      BY <3>1, <3>2
  <2>4. ASSUME NEW g \in Files, NEW h \in Ranged(g)' PROVE h \in DOMAIN seen' /\ seen'[h] <= seen'[g] + 1
    <3>1. CASE h \in Ranged(g)
      <4>1. h \in DOMAIN seen /\ seen[h] <= seen[g] + 1 /\ g \in DOMAIN seen
        BY <1>3, <3>1 DEF ReachInv, Ranged
      <4> QED
        BY <1>6, <4>1
    <3>2. CASE h \notin Ranged(g)
      <4>1. g = c /\ h = f
        BY <1>10, <1>11, <2>4, <3>2
      <4>2. seen'[c] = n - 1
        BY <1>2, <1>6
      <4> QED
        BY <1>2, <1>6, <4>1, <4>2
    <3> QED
      BY <3>1, <3>2
  <2> QED
    BY <1>1, <2>1, <2>2, <2>3, <2>4 DEF ReachInv
<1>14. ASSUME NEW x \in Files, NEW d \in 1..MaxDepth
       PROVE  Sources(x, d)' = IF x = f /\ d = n THEN Sources(x, d) \cup {c} ELSE Sources(x, d)
  <2>1. ASSUME NEW g \in Files, g # c PROVE g \in Sources(x, d)' <=> g \in Sources(x, d)
    <3>1. x \in Ranged(g)' <=> x \in Ranged(g)
      BY <1>11, <2>1
    <3>2. x \in Ranged(g) => g \in DOMAIN seen
      BY DEF Ranged
    <3>3. g \in DOMAIN seen => g \in DOMAIN seen' /\ seen'[g] = seen[g]
      BY <1>6
    <3> QED
      BY <3>1, <3>2, <3>3 DEF Sources
  <2>2. c \in Sources(x, d)' <=> (n = d /\ (x \in Ranged(c) \/ x = f))
    <3>1. c \in DOMAIN seen' /\ seen'[c] = n - 1
      BY <1>2, <1>6
    <3>2. n - 1 = d - 1 <=> n = d
      BY <1>2
    <3> QED
      BY <1>2, <1>10, <3>1, <3>2 DEF Sources
  <2>3. c \in Sources(x, d) <=> (n = d /\ x \in Ranged(c))
    <3>1. seen[c] = d - 1 <=> n = d
      BY <1>2
    <3> QED
      BY <1>2, <3>1 DEF Sources
  <2>4. Sources(x, d)' \subseteq Files /\ Sources(x, d) \subseteq Files
    BY DEF Sources
  <2> QED
    BY <1>2, <1>10, <2>1, <2>2, <2>3, <2>4
<1>15. c \notin Sources(f, n)
  BY <1>10 DEF Sources
<1>16. ScoreInv'
  <2> SUFFICES ASSUME NEW x \in Files PROVE Get(score, x)' = Total(Given(x)', MaxDepth)
    BY DEF ScoreInv, Total, Sums
  <2>1. Get(score, x) = Total(Given(x), MaxDepth)
    BY DEF SearchInv, ScoreInv
  <2>2. CASE x # f
    <3>1. Given(x)' = Given(x)
      BY <1>14, <2>2 DEF Given, Bonus
    <3>2. Get(score, x)' = Get(score, x)
      BY <1>1, <2>2 DEF Get, Put
    <3> QED
      BY <2>1, <3>1, <3>2
  <2>3. CASE x = f
    <3> DEFINE before == Given(f)
               after == Given(f)'
    <3>1. Bonus(n) \in Nat /\ MaxDepth \in Nat
      BY <1>2, ExpandAssumption DEF Bonus
    <3>2. \A d \in 1..MaxDepth : before[d] = Bonus(d) * Cardinality(Sources(f, d))
                                 /\ after[d] = Bonus(d) * Cardinality(Sources(f, d)')
      BY DEF Given, Bonus
    <3>3. after[n] = before[n] + Bonus(n)
      <4>1. IsFiniteSet(Sources(f, n)) /\ Cardinality(Sources(f, n)) \in Nat
        <5>1. Sources(f, n) \in SUBSET Files
          BY DEF Sources
        <5> QED
          BY <5>1, InventoryAssumption, FS_Subset, FS_CardinalityType
      <4>2. Cardinality(Sources(f, n)') = Cardinality(Sources(f, n)) + 1
        <5>1. Sources(f, n)' = Sources(f, n) \cup {c}
          BY <1>2, <1>14
        <5> QED
          BY <1>15, <4>1, <5>1, FS_AddElement
      <4>3. \A b, k \in Nat : b * (k + 1) = b * k + b
        OBVIOUS
      <4>4. Bonus(n) * (Cardinality(Sources(f, n)) + 1) = Bonus(n) * Cardinality(Sources(f, n)) + Bonus(n)
        BY <3>1, <4>1, <4>3
      <4> QED
        BY <1>2, <3>2, <4>2, <4>4
    <3>4. \A d \in 1..MaxDepth : d # n => after[d] = before[d]
      BY <1>14, <3>2
    <3>5. before \in [1..MaxDepth -> Nat]
      BY GivenType
    <3>6. after \in [1..MaxDepth -> Nat]
      <4>1. \A d \in 1..MaxDepth : after[d] \in Nat
        BY <1>2, <3>1, <3>3, <3>4, <3>5
      <4>2. after = [d \in 1..MaxDepth |-> after[d]]
        BY DEF Given
      <4> HIDE DEF after
      <4> QED
        BY <4>1, <4>2
    <3> HIDE DEF before, after
    <3>7. Total(after, MaxDepth) = Total(before, MaxDepth) + Bonus(n)
      BY <1>2, <3>1, <3>3, <3>4, <3>5, <3>6, TotalGrows
    <3>8. Get(score, f)' = Get(score, f) + Bonus(n)
      BY <1>1 DEF Get, Put
    <3> QED
      BY <2>1, <2>3, <3>7, <3>8 DEF before, after
  <2> QED
    BY <2>2, <2>3
<1> QED
  BY <1>12, <1>13, <1>16 DEF SearchInv

(* When nothing is left to visit, the levels are those of what was seen.   *)
LEMMA LevelsAreSeen ==
  ASSUME ExpandTypeOK, ReachInv, pending = {}, queue = <<>>, NEW d \in 0..MaxDepth
  PROVE  Within[d] = {f \in DOMAIN seen : seen[f] <= d}
<1>1. /\ DOMAIN seen \subseteq Files /\ \A f \in DOMAIN seen : seen[f] \in 0..MaxDepth
      /\ MaxDepth \in Nat /\ graph \in [Files -> SUBSET Files]
  BY ExpandAssumption DEF ExpandTypeOK
<1>2. ASSUME NEW g \in DOMAIN seen, seen[g] < MaxDepth PROVE Ranged(g) = graph[g]
  BY <1>2 DEF Ranged, InQueue, EdgesOf, Item
<1> DEFINE Reached(e) == \A f \in Files : Path(f, e) => f \in DOMAIN seen /\ seen[f] <= e
           S == {e \in 0..MaxDepth : Reached(e)}
<1>3. 0 \in S
  <2>1. Reached(0)
    BY <1>1, PathToSeed DEF ReachInv
  <2> QED
    BY <1>1, <2>1
<1>4. ASSUME NEW e \in 1..MaxDepth, e - 1 \in S PROVE e \in S
  <2>1. ASSUME NEW f \in Files, Path(f, e) PROVE f \in DOMAIN seen /\ seen[f] <= e
    <3>1. e - 1 \in Nat /\ (e - 1) + 1 = e
      OBVIOUS
    <3>2. PICK g \in Files : Path(g, e - 1) /\ f \in graph[g]
      BY <2>1, <3>1, ShorterPath
    <3>3. g \in DOMAIN seen /\ seen[g] <= e - 1 /\ seen[g] \in Nat
      BY <1>1, <1>4, <3>2
    <3>4. f \in Ranged(g)
      BY <1>1, <1>2, <3>2, <3>3
    <3>5. f \in DOMAIN seen /\ seen[f] <= seen[g] + 1
      BY <3>4 DEF ReachInv
    <3> QED
      BY <1>1, <3>3, <3>5
  <2> QED
    BY <2>1
<1>5. \A e \in 0..MaxDepth : Reached(e)
  <2>1. \A e \in 0..MaxDepth : e \in S
    <3> HIDE DEF S
    <3> QED
      BY <1>1, <1>3, <1>4, UpTo
  <2> QED
    BY <2>1
<1>6. Within[d] = {f \in Files : \E e \in 0..d : Path(f, e)}
  BY <1>1, WithinIs
<1>7. ASSUME NEW f \in Files, NEW e \in 0..d, Path(f, e) PROVE f \in DOMAIN seen /\ seen[f] <= d
  <2>1. e \in 0..MaxDepth
    BY <1>1
  <2>2. f \in DOMAIN seen /\ seen[f] <= e
    BY <1>5, <1>7, <2>1
  <2> QED
    BY <1>1, <2>2
<1>8. ASSUME NEW f \in DOMAIN seen, seen[f] <= d PROVE f \in Files /\ \E e \in 0..d : Path(f, e)
  <2>1. seen[f] \in 0..d /\ Path(f, seen[f])
    BY <1>1, <1>8 DEF ReachInv
  <2> QED
    BY <1>1, <2>1
<1> HIDE DEF Reached, S
<1> QED
  BY <1>6, <1>7, <1>8

LEMMA ScoresAreLinkScores ==
  ASSUME ExpandTypeOK, ReachInv, ScoreInv, pending = {}, queue = <<>>, NEW f \in Files
  PROVE  Get(score, f) = LinkScore(f)
<1>1. /\ DOMAIN seen \subseteq Files /\ \A g \in DOMAIN seen : seen[g] \in 0..MaxDepth
      /\ MaxDepth \in Nat
  BY ExpandAssumption DEF ExpandTypeOK
<1>2. ASSUME NEW d \in 1..MaxDepth PROVE {g \in AtDepth(d - 1) : f \in graph[g]} = Sources(f, d)
  <2>1. AtDepth(d - 1) = {g \in DOMAIN seen : seen[g] = d - 1}
    <3>1. d - 1 \in 0..MaxDepth
      BY <1>1
    <3>2. Within[d - 1] = {g \in DOMAIN seen : seen[g] <= d - 1}
      BY <3>1, LevelsAreSeen
    <3>3. CASE d = 1
      <4>1. \A g \in DOMAIN seen : seen[g] <= d - 1 <=> seen[g] = d - 1
        BY <1>1, <3>3
      <4>2. AtDepth(d - 1) = Within[d - 1]
        BY <3>3 DEF AtDepth
      <4> QED
        BY <3>2, <4>1, <4>2
    <3>4. CASE d # 1
      <4>1. (d - 1) - 1 \in 0..MaxDepth /\ d - 1 # 0
        BY <1>1, <3>4
      <4>2. Within[(d - 1) - 1] = {g \in DOMAIN seen : seen[g] <= (d - 1) - 1}
        BY <4>1, LevelsAreSeen
      <4>3. AtDepth(d - 1) = Within[d - 1] \ Within[(d - 1) - 1]
        BY <4>1 DEF AtDepth
      <4>4. \A g \in DOMAIN seen : (seen[g] <= d - 1 /\ ~(seen[g] <= (d - 1) - 1)) <=> seen[g] = d - 1
        BY <1>1
      <4> QED
        BY <3>2, <4>2, <4>3, <4>4
    <3> QED
      BY <3>3, <3>4
  <2>2. ASSUME NEW g \in DOMAIN seen, seen[g] = d - 1 PROVE Ranged(g) = graph[g]
    <3>1. seen[g] < MaxDepth
      BY <1>1, <2>2
    <3> QED
      BY <3>1 DEF Ranged, InQueue, EdgesOf, Item
  <2> QED
    BY <1>1, <2>1, <2>2 DEF Sources
<1> DEFINE Step(h) == [d \in 0..MaxDepth |->
             IF d = 0 THEN 0
             ELSE h[d - 1] + Bonus(d) * Cardinality({g \in AtDepth(d - 1) : f \in graph[g]})]
           up == CHOOSE h : h = Step(h)
<1>3. \A d \in 1..MaxDepth :
        Given(f)[d] = Bonus(d) * Cardinality({g \in AtDepth(d - 1) : f \in graph[g]})
  BY <1>2 DEF Given
<1>4. up = Step(up)
  <2>1. PICK h : Sums(h, Given(f), MaxDepth)
    BY <1>1, GivenType, SumsExist
  <2>2. /\ h \in [0..MaxDepth -> Nat] /\ h[0] = 0
        /\ \A d \in 1..MaxDepth : h[d] = h[d - 1] + Given(f)[d]
    BY <2>1 DEF Sums
  <2>3. ASSUME NEW d \in 0..MaxDepth
        PROVE  h[d] = IF d = 0 THEN 0
                      ELSE h[d - 1] + Bonus(d) * Cardinality({g \in AtDepth(d - 1) : f \in graph[g]})
    <3>1. d = 0 \/ d \in 1..MaxDepth
      BY <1>1
    <3> QED
      BY <1>3, <2>2, <3>1
  <2>4. h = Step(h)
    BY <2>2, <2>3
  <2> HIDE DEF Step
  <2> QED
    BY <2>4
<1>5. LinkScore(f) = up[MaxDepth]
  BY DEF LinkScore
<1> HIDE DEF up
<1>6. up[0] = 0 /\ \A d \in 1..MaxDepth : up[d] = up[d - 1] + Given(f)[d]
  <2>1. \A d \in 0..MaxDepth : up[d] = Step(up)[d]
    <3> HIDE DEF Step
    <3> QED
      BY <1>4
  <2>2. up[0] = 0
    <3>1. 0 \in 0..MaxDepth
      BY <1>1
    <3>2. Step(up)[0] = 0
      BY <3>1
    <3> QED
      BY <2>1, <3>1, <3>2
  <2>3. ASSUME NEW d \in 1..MaxDepth PROVE up[d] = up[d - 1] + Given(f)[d]
    <3>1. d \in 0..MaxDepth /\ d # 0
      BY <1>1
    <3>2. Step(up)[d] = up[d - 1] + Bonus(d) * Cardinality({g \in AtDepth(d - 1) : f \in graph[g]})
      BY <3>1
    <3> QED
      BY <1>3, <2>1, <3>1, <3>2
  <2> QED
    BY <2>2, <2>3
<1>7. Total(Given(f), MaxDepth) = up[MaxDepth]
  BY <1>1, <1>6, GivenType, TotalIs
<1> QED
  BY <1>5, <1>7 DEF ScoreInv

-----------------------------------------------------------------------------
(* What was chosen is what the scores say, once and for all.               *)
ChosenInv == phase # "expand" => pending = {} /\ chosen \in Selected(Final(score))

ChoiceInv == ExpandInv /\ SearchInv /\ InventoryType /\ ChosenInv

LEMMA ChoiceInit == Init /\ IInv => ChoiceInv
<1> SUFFICES ASSUME Init, IInv PROVE ChoiceInv
  OBVIOUS
<1>1. PICK g \in Graphs, s \in Seq(Files) : ExpandInit(g, s)
  BY SeedsType DEF Init
<1>2. ExpandInv
  BY <1>1, ExpandInitInv
<1>3. SearchInv
  BY <1>2, SearchInit DEF ExpandInv
<1>4. phase = "expand" /\ InventoryType
  BY DEF Init, IInv
<1> QED
  BY <1>2, <1>3, <1>4 DEF ChoiceInv, ChosenInv

LEMMA FinalKept ==
  ASSUME UNCHANGED <<expandVars, base, locks, refs>>
  PROVE  Selected(Final(score))' = Selected(Final(score))
<1>1. UNCHANGED <<seeds, score, base, locks, refs>>
  BY DEF expandVars
<1>2. Hinted' = Hinted /\ \A f : RefBonus(f)' = RefBonus(f) /\ Get(score, f)' = Get(score, f)
  BY <1>1 DEF Hinted, RefBonus, Get
<1>3. Final(score)' = Final(score)
  BY <1>1, <1>2 DEF Final
<1> QED
  BY <1>1, <1>3 DEF Selected, Ranked, FirstOf

LEMMA SearchStutters == ASSUME SearchInv, UNCHANGED expandVars PROVE SearchInv'
<1>1. UNCHANGED <<graph, seeds, queue, cur, pending, seen, score>>
  BY DEF expandVars
<1>2. (\A i : EdgesOf(i)' = EdgesOf(i)) /\ \A g : InQueue(g)' <=> InQueue(g)
  BY <1>1 DEF EdgesOf, InQueue
<1>3. ASSUME NEW g \in Files PROVE Ranged(g)' = Ranged(g)
  <2>1. EdgesOf(Item(g, seen[g]))' = EdgesOf(Item(g, seen[g]))
    BY <1>1 DEF EdgesOf, Item
  <2> QED
    BY <1>1, <1>2, <2>1 DEF Ranged
<1>4. OrderInv'
  <2>1. InQueue(cur.path)' <=> InQueue(cur.path)
    BY <1>1 DEF InQueue
  <2>2. EdgesOf(cur)' = EdgesOf(cur)
    BY <1>1 DEF EdgesOf
  <2> QED
    BY <1>1, <2>1, <2>2 DEF SearchInv, OrderInv
<1> QED
  BY <1>1, <1>3, <1>4, ReachKept DEF SearchInv

LEMMA ChoiceNext == ChoiceInv /\ IInv' /\ [Next]_vars => ChoiceInv'
<1> SUFFICES ASSUME ChoiceInv, IInv', [Next]_vars PROVE ChoiceInv'
  OBVIOUS
<1>1. InventoryType'
  BY DEF IInv
<1>2. ExpandInv /\ SearchInv /\ ChosenInv
  BY DEF ChoiceInv
<1>3. CASE Expand
  <2>1. ExpandNext /\ phase' = "expand"
    BY <1>3 DEF Expand
  <2>2. ExpandInv' /\ SearchInv'
    BY <1>2, <2>1, VisitKeeps, FollowKeeps, VisitSearches, FollowSearches DEF ExpandNext
  <2> QED
    BY <1>1, <2>1, <2>2 DEF ChoiceInv, ChosenInv
<1>4. CASE UNCHANGED expandVars /\ ~Expand
  <2>1. ExpandInv' /\ SearchInv'
    BY <1>2, <1>4, StutterKeeps, SearchStutters
  <2>2. ChosenInv'
    <3>1. UNCHANGED <<expandVars, base, locks, refs>> /\ pending' = pending
      BY <1>4 DEF Next, Choose, Emit, vars, expandVars
    <3>2. CASE Choose
      <4>1. pending = {} /\ chosen' \in Selected(Final(score))
        BY <3>2 DEF Choose, Expanded
      <4> QED
        BY <3>1, <4>1, FinalKept DEF ChosenInv
    <3>3. CASE Emit \/ UNCHANGED vars
      <4>1. chosen' = chosen /\ (phase' # "expand" => phase # "expand")
        BY <3>3 DEF Emit, vars
      <4> QED
        BY <1>2, <3>1, <4>1, FinalKept DEF ChosenInv
    <3> QED
      BY <1>4, <3>2, <3>3 DEF Next
  <2> QED
    BY <1>1, <2>1, <2>2 DEF ChoiceInv
<1> QED
  BY <1>3, <1>4 DEF Next, Choose, Emit, vars

(* For any files, graph, seeds, references and limits: unless the limit of *)
(* Expand cuts the search off, the order in which Go ranges over the edges *)
(* of a file decides nothing; the files that are chosen are those that the *)
(* scores of all links, level by level, put first.                         *)
THEOREM ChoiceIsSettled == Spec => []ChoiceIsDetermined
<1>1. ASSUME ChoiceInv PROVE ChoiceIsDetermined
  <2> SUFFICES ASSUME phase # "expand", queue = <<>>
               PROVE  Selected(Final([f \in Files |-> LinkScore(f)])) = {chosen}
    BY DEF ChoiceIsDetermined, Cut
  <2>1. /\ ExpandTypeOK /\ ReachInv /\ ScoreInv /\ pending = {} /\ InventoryType
        /\ chosen \in Selected(Final(score))
    BY <1>1 DEF ChoiceInv, ExpandInv, SearchInv, ChosenInv
  <2> DEFINE links == [f \in Files |-> LinkScore(f)]
  <2>2. \A f \in Files : Get(links, f) = Get(score, f)
    <3>1. \A f \in Files : Get(score, f) = LinkScore(f)
      BY <2>1, ScoresAreLinkScores
    <3> QED
      BY <3>1 DEF Get
  <2> HIDE DEF links
  <2>3. Final(links) = Final(score)
    BY <2>2 DEF Final
  <2>4. Final(score) \in [Files -> Int]
    <3>1. base \in [Files -> [score : Int, link : Nat]] /\ seeds \in Seq(Files)
      BY <2>1, InventoryAssumption DEF InventoryType, ExpandTypeOK
    <3>2. ASSUME NEW f \in Files PROVE Final(score)[f] \in Int
      <4>1. Hinted[f] \in Int
        BY <3>1 DEF Hinted
      <4>2. Get(score, f) \in Int
        BY <2>1 DEF ExpandTypeOK, Get
      <4>3. RefBonus(f) \in Int
        <5>1. {i \in 1..Len(seeds) : f \in refs[seeds[i]]} \in SUBSET (1..Len(seeds)) /\ IsFiniteSet(1..Len(seeds))
          BY <3>1, FS_Interval
        <5>2. Cardinality({i \in 1..Len(seeds) : f \in refs[seeds[i]]}) \in Nat
          BY <5>1, FS_Subset, FS_CardinalityType
        <5> QED
          BY <5>2 DEF RefBonus
      <4>4. Final(score)[f] = Hinted[f] + base[f].link + Get(score, f) + RefBonus(f)
        BY DEF Final
      <4> QED
        BY <3>1, <4>1, <4>2, <4>3, <4>4
    <3>3. Final(score) = [f \in Files |-> Final(score)[f]]
      BY DEF Final
    <3> QED
      BY <3>2, <3>3
  <2>5. \A a, b \in Selected(Final(score)) : a = b
    <3> DEFINE primary == IF Files \subseteq locks THEN Files ELSE Files \ locks
    <3>1. primary \in SUBSET Files
      OBVIOUS
    <3>2. Selected(Final(score)) = {FirstOf(s, MaxFiles) : s \in Ranked(primary, Final(score))}
      BY DEF Selected
    <3> HIDE DEF primary
    <3>3. \A s, t \in Ranked(primary, Final(score)) : s = t
      BY <2>4, <3>1, RankedIsUnique
    <3> QED
      BY <3>2, <3>3
  <2>6. Selected(Final(score)) = {chosen}
    BY <2>1, <2>5
  <2> QED
    BY <2>3, <2>6 DEF links
<1> QED
  BY <1>1, Invariance, ChoiceInit, ChoiceNext, PTL DEF Spec
=============================================================================
