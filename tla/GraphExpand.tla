---------------------------- MODULE GraphExpand -----------------------------
(***************************************************************************)
(* Graph.Expand (internal/infra/repositorygraph/graph.go): from the seeds, *)
(* breadth first along the edges between the files of a repository, every  *)
(* file that an edge leads to scores a bonus.  The edges of a node are a   *)
(* Go map, which is ranged over in any order.                              *)
(***************************************************************************)
EXTENDS Sequences, Naturals, FiniteSets

CONSTANTS
  Files,     \* files of the repository
  Graphs,    \* the graphs it may have
  MaxDepth,  \* maxDepth of Expand
  Limit      \* limit of Expand

ASSUME ExpandAssumption ==
  /\ Graphs \subseteq [Files -> SUBSET Files]
  /\ \A g \in Graphs, f \in Files : f \notin g[f]       \* addEdge
  /\ MaxDepth \in Nat /\ Limit \in Nat

VARIABLES
  graph,    \* Graph.Nodes and their Edges
  seeds,    \* the seeds, each of them once
  queue,    \* files to visit, and their depth
  cur,      \* the file that is being visited
  pending,  \* its edges that are left to range over
  seen,     \* the files with an entry in seenDepth, and their depth
  score     \* the files with an entry in score, and their score

expandVars == <<graph, seeds, queue, cur, pending, seen, score>>

Item(f, d) == [path |-> f, depth |-> d]
Items      == [path : Files, depth : 0..MaxDepth]
Put(m, f, v) == [x \in DOMAIN m \cup {f} |-> IF x = f THEN v ELSE m[x]]
Get(m, f)    == IF f \in DOMAIN m THEN m[f] ELSE 0

(* Expand is called on graph g with the seeds s. *)
ExpandInit(g, s) ==
  /\ graph = g
  /\ seeds = s
  /\ queue = [i \in 1..Len(s) |-> Item(s[i], 0)]
  /\ cur = Item(CHOOSE f \in Files : TRUE, 0)
  /\ pending = {}
  /\ seen = [f \in {s[i] : i \in 1..Len(s)} |-> 0]
  /\ score = [f \in {} |-> 0]

Bonus(depth) == IF depth >= 4 THEN 4 ELSE 18 - depth * 4

(* Mutant: maxDepth is not looked at. *)
EdgesOfAny(item) == graph[item.path]

(* Edges that are too deep are passed over. *)
EdgesOf(item) == IF item.depth < MaxDepth THEN graph[item.path] ELSE {}

(* The loop looks at the limit between two files only. *)
Visit ==
  /\ pending = {}
  /\ queue # <<>>
  /\ Cardinality(DOMAIN score) < Limit
  /\ cur' = Head(queue)
  /\ queue' = Tail(queue)
  /\ pending' = EdgesOf(cur')
  /\ UNCHANGED <<graph, seeds, seen, score>>

(* Mutant: a file that was seen before scores no more. *)
FollowNew(f) ==
  /\ f \in pending
  /\ pending' = pending \ {f}
  /\ IF f \in DOMAIN seen
       THEN UNCHANGED <<queue, seen, score>>
       ELSE /\ score' = Put(score, f, Bonus(cur.depth + 1))
            /\ seen' = Put(seen, f, cur.depth + 1)
            /\ queue' = Append(queue, Item(f, cur.depth + 1))
  /\ UNCHANGED <<graph, seeds, cur>>

(* One turn of the range over the edges. *)
Follow(f) ==
  /\ f \in pending
  /\ pending' = pending \ {f}
  /\ score' = Put(score, f, Get(score, f) + Bonus(cur.depth + 1))
  /\ IF f \in DOMAIN seen /\ seen[f] <= cur.depth + 1
       THEN UNCHANGED <<queue, seen>>
       ELSE /\ seen' = Put(seen, f, cur.depth + 1)
            /\ queue' = Append(queue, Item(f, cur.depth + 1))
  /\ UNCHANGED <<graph, seeds, cur>>

Expanded == pending = {} /\ (queue = <<>> \/ Cardinality(DOMAIN score) >= Limit)

ExpandNext == Visit \/ \E f \in Files : Follow(f)

ExpandSpec ==
  /\ \E g \in Graphs, s \in Seq(Files) : ExpandInit(g, s)
  /\ [][ExpandNext]_expandVars

-----------------------------------------------------------------------------
ExpandTypeOK ==
  /\ graph \in Graphs
  /\ seeds \in Seq(Files)
  /\ queue \in Seq(Items)
  /\ pending \subseteq Files
  /\ pending # {} => cur \in Items
  /\ DOMAIN seen \subseteq Files /\ \A f \in DOMAIN seen : seen[f] \in 0..MaxDepth
  /\ DOMAIN score \subseteq Files /\ \A f \in DOMAIN score : score[f] \in Nat

(* A path of d edges from a seed to f. *)
Path(f, d) ==
  \E p \in [0..d -> Files] :
    /\ \E i \in 1..Len(seeds) : p[0] = seeds[i]
    /\ p[d] = f
    /\ \A i \in 0..(d - 1) : p[i + 1] \in graph[p[i]]

(* Only what the seeds lead to, in MaxDepth edges at most, has a score. *)
ScoredIsLinked == \A f \in DOMAIN score : \E d \in 1..MaxDepth : Path(f, d)
=============================================================================
