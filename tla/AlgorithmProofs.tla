-------------------------- MODULE AlgorithmProofs ---------------------------
(***************************************************************************)
(* What MCAlgorithms checks over bounded inputs, for all inputs: of scores, *)
(* chats, locals and files that read each other, queries and backends,     *)
(* alarms, queries that fail, containers that crash, reports, diagnoses by *)
(* all analyzers, the links of a repository, and the edits of blocks.      *)
(***************************************************************************)
EXTENDS MCAlgorithms, FiniteSetTheorems, WellFoundedInduction, TLAPS

(***************************************************************************)
(* Sets of numbers                                                         *)
(***************************************************************************)
LEMMA HasLeast ==
  ASSUME NEW T, T \subseteq Nat, T # {}
  PROVE  \E x \in T : \A y \in T : x <= y
<1> DEFINE R == {ss \in Nat \X Nat : ss[1] < ss[2]}
<1>1. IsWellFoundedOn(R, Nat)
  BY NatLessThanWellFounded DEF OpToRel
<1>2. \A x, y \in Nat : ~(<<y, x>> \in R) => x <= y
  OBVIOUS
<1> HIDE DEF R
<1>3. \E x \in T : \A y \in T : ~(<<y, x>> \in R)
  BY <1>1, WFMin, Zenon
<1> QED
  BY <1>2, <1>3, Zenon

(* Induction up to a number, for the elements of a set.                   *)
LEMMA UpTo ==
  ASSUME NEW n \in Nat, NEW S, 0 \in S, \A k \in 1..n : k - 1 \in S => k \in S
  PROVE  n \in S /\ \A k \in 0..n : k \in S
<1> DEFINE T == {k \in 0..n : k \notin S}
<1>1. T \subseteq Nat
  OBVIOUS
<1>2. ASSUME T # {} PROVE FALSE
  <2>1. PICK m \in T : \A k \in T : m <= k
    <3> HIDE DEF T
    <3> QED
      BY <1>1, <1>2, HasLeast, Zenon
  <2>2. m \in 1..n /\ m - 1 \in 0..n /\ m - 1 \notin T
    BY <2>1
  <2> QED
    BY <2>1, <2>2
<1> QED
  BY <1>2

LEMMA HasGreatest ==
  ASSUME NEW n \in Nat, NEW T, T \subseteq 0..n, T # {}
  PROVE  \E x \in T : \A y \in T : y <= x
<1> DEFINE D == {n - x : x \in T}
<1>1. D \subseteq Nat /\ D # {}
  <2>1. \A x \in T : n - x \in Nat
    OBVIOUS
  <2> QED
    BY <2>1, Zenon
<1>2. PICK d \in D : \A e \in D : d <= e
  BY <1>1, HasLeast, Zenon
<1>3. PICK x \in T : d = n - x
  BY <1>2
<1>4. ASSUME NEW y \in T PROVE y <= x
  <2>1. n - y \in D
    OBVIOUS
  <2> QED
    BY <1>2, <1>3, <2>1
<1> QED
  BY <1>4

-----------------------------------------------------------------------------
(***************************************************************************)
(* Scores of workloads: any numbers of replicas, services, endpoints and   *)
(* containers, and any metrics.                                            *)
(***************************************************************************)
LEMMA IfRange == ASSUME NEW c \in BOOLEAN, NEW n \in Nat PROVE If(c, n) \in 0..n
BY DEF If

LEMMA IfMonotone ==
  ASSUME NEW c \in BOOLEAN, NEW d \in BOOLEAN, NEW n \in Nat, c => d
  PROVE  If(c, n) <= If(d, n)
BY DEF If

LEMMA PerContainerRange ==
  ASSUME NEW m \in Nat, NEW first \in Nat, NEW most \in Nat
  PROVE  PerContainer(m, first, most) \in 0..most
BY DEF PerContainer, If, Lesser

LEMMA PerContainerMonotone ==
  ASSUME NEW m \in Nat, NEW n \in Nat, NEW first \in Nat, NEW most \in Nat, m <= n
  PROVE  PerContainer(m, first, most) <= PerContainer(n, first, most)
BY DEF PerContainer, If, Lesser

LEMMA EndpointRange == ASSUME NEW p \in Profiles PROVE EndpointScore(p) \in 0..45
BY DEF EndpointScore, If, Profiles, Greater

LEMMA EndpointMonotone ==
  ASSUME NEW p \in Profiles, NEW q \in Profiles, Improves(q, p)
  PROVE  EndpointScore(q) <= EndpointScore(p)
BY DEF EndpointScore, If, Profiles, Greater, Improves

LEMMA ProfileMonotone ==
  ASSUME NEW p \in Profiles, NEW q \in Profiles, Improves(q, p)
  PROVE  ScoreProfile(q) <= ScoreProfile(p)
<1>1. EndpointScore(q) <= EndpointScore(p) /\ EndpointScore(q) \in Int /\ EndpointScore(p) \in Int
  BY EndpointMonotone, EndpointRange
<1>2. /\ PerContainer(q.missingReadiness, 6, 14) <= PerContainer(p.missingReadiness, 6, 14)
      /\ PerContainer(q.missingLiveness, 4, 10) <= PerContainer(p.missingLiveness, 4, 10)
      /\ PerContainer(q.missingRequests, 4, 10) <= PerContainer(p.missingRequests, 4, 10)
      /\ PerContainer(q.missingLimits, 2, 8) <= PerContainer(p.missingLimits, 2, 8)
  BY PerContainerMonotone, Zenon DEF Profiles, Improves
<1>3. \A r \in Profiles :
        /\ PerContainer(r.missingReadiness, 6, 14) \in Int
        /\ PerContainer(r.missingLiveness, 4, 10) \in Int
        /\ PerContainer(r.missingRequests, 4, 10) \in Int
        /\ PerContainer(r.missingLimits, 2, 8) \in Int
  BY DEF PerContainer, Lesser, If, Profiles
<1>4. If(q.ready < q.desired, 30) <= If(p.ready < p.desired, 30)
  BY DEF If, Profiles, Improves
<1>5. If(q.external > 0 /\ ~q.hpa, 12) <= If(p.external > 0 /\ ~p.hpa, 12)
  BY DEF If, Profiles, Improves
<1>6. If(q.services > 0 /\ q.desired > 1 /\ ~q.pdb, 10) <= If(p.services > 0 /\ p.desired > 1 /\ ~p.pdb, 10)
  BY DEF If, Profiles, Improves
<1>7. /\ If(q.services > 0 /\ q.desired = 1, 8) = If(p.services > 0 /\ p.desired = 1, 8)
      /\ If(q.external > 0 /\ q.desired = 1, 18) = If(p.external > 0 /\ p.desired = 1, 18)
      /\ If(q.stateful /\ q.pvc /\ q.external > 0 /\ q.desired = 1, 8)
           = If(p.stateful /\ p.pvc /\ p.external > 0 /\ p.desired = 1, 8)
  BY DEF Improves
<1>8. \A r \in Profiles :
        /\ If(r.ready < r.desired, 30) \in Int
        /\ If(r.services > 0 /\ r.desired = 1, 8) \in Int
        /\ If(r.external > 0 /\ r.desired = 1, 18) \in Int
        /\ If(r.external > 0 /\ ~r.hpa, 12) \in Int
        /\ If(r.services > 0 /\ r.desired > 1 /\ ~r.pdb, 10) \in Int
        /\ If(r.stateful /\ r.pvc /\ r.external > 0 /\ r.desired = 1, 8) \in Int
  BY DEF If
<1> QED
  BY <1>1, <1>2, <1>3, <1>4, <1>5, <1>6, <1>7, <1>8 DEF ScoreProfile

LEMMA TrendMonotone ==
  ASSUME NEW p \in Profiles, NEW q \in Profiles, NEW t \in Trends, Improves(q, p)
  PROVE  ScoreTrend(t, q) <= ScoreTrend(t, p)
<1> DEFINE Restarts == CASE t.restarts = 3 -> 20 [] t.restarts = 2 -> 8 [] OTHER -> 0
           Cpu      == CASE t.cpu = 2 -> 15 [] t.cpu = 1 -> 8 [] OTHER -> 0
           Memory   == CASE t.memory = 2 -> 15 [] t.memory = 1 -> 8 [] OTHER -> 0
           Throttle == CASE t.throttle = 2 -> 14 [] t.throttle = 1 -> 6 [] OTHER -> 0
           Kills    == If(t.oom = 1, 20)
           Shape(r) == If(r.services > 0 /\ r.desired = 1, 8) + If(r.external > 0 /\ r.desired = 1, 12)
                         + If(r.external > 0 /\ ~r.hpa, 8)
                         + If(r.services > 0 /\ r.desired > 1 /\ ~r.pdb, 6)
                         + If(r.missingReadiness > 0, 6) + If(r.missingLiveness > 0, 4)
                         + If(t.restarts > 0 /\ r.external > 0 /\ r.desired = 1, 15)
                         + If(r.external > 0 /\ r.endpoints = 0, 20)
<1>1. Restarts \in Int /\ Cpu \in Int /\ Memory \in Int /\ Throttle \in Int /\ Kills \in Int
  BY DEF If
<1>2. Shape(q) \in Int /\ Shape(p) \in Int /\ Shape(q) <= Shape(p)
  BY DEF If, Profiles, Improves
<1>3. ASSUME NEW r \in Profiles
      PROVE  ScoreTrend(t, r) = Restarts + Cpu + Memory + Throttle + Kills + Shape(r)
  BY <1>1 DEF ScoreTrend, If
<1> HIDE DEF Restarts, Cpu, Memory, Throttle, Kills, Shape
<1> QED
  BY <1>1, <1>2, <1>3

(* For any numbers: an autoscaler, a disruption budget, a probe, requests, *)
(* limits, a ready replica or a ready endpoint that is added never makes   *)
(* scoreProfile or scoreTrend give a workload more points.                 *)
THEOREM MoreGuardrailsNeverHurt ==
  \A p \in Profiles, q \in Profiles, t \in Trends : GuardrailsNeverHurt(q, p, t)
BY ProfileMonotone, TrendMonotone DEF GuardrailsNeverHurt

-----------------------------------------------------------------------------
(***************************************************************************)
(* Telegram: any updates, messages and ids.                                *)
(***************************************************************************)
LEMMA AllReceived ==
  ASSUME NEW u \in Seq(Messages), Len(u) <= Window
  PROVE  Received(u) = u
<1>1. Len(u) \in Nat /\ Window \in Nat
  BY ScanAssumption
<1>2. Received(u) = SubSeq(u, 1, Len(u))
  BY <1>1 DEF Received
<1> QED
  BY <1>2

LEMMA StatusOf ==
  ASSUME NEW u \in Seq(Messages), Len(u) <= Window, NEW i
  PROVE  LET ks == {k \in 1..Len(u) : Speaks(u[k], i)}
         IN  Status(u, i) = IF ks = {} THEN "pending"
                            ELSE Verdict(u[CHOOSE k \in ks : \A l \in ks : l <= k], i)
<1>1. Received(u) = u
  BY AllReceived
<1> QED
  BY <1>1 DEF Status

(* A plain message answers an id exactly if it has the words of an answer. *)
LEMMA PlainWords ==
  ASSUME NEW m \in Messages, NEW i \in Lower, Starts[i] = {i}, Plain(m)
  PROVE  /\ Speaks(m, i) <=> Answers(m, i)
         /\ Says(m, "approve", i) <=> [verb |-> "approve", id |-> i] \in m.says
<1>1. \A p \in m.says : p \in Phrases /\ p.verb # "disapprove"
  BY DEF Messages, Plain
<1>2. \A p \in Phrases : p = [verb |-> p.verb, id |-> p.id]
  BY DEF Phrases
<1>3. ASSUME NEW v \in {"approve", "deny"}
      PROVE  Says(m, v, i) <=> [verb |-> v, id |-> i] \in m.says
  <2>1. Says(m, v, i) => [verb |-> v, id |-> i] \in m.says
    BY <1>1, <1>2 DEF Says
  <2>2. [verb |-> v, id |-> i] \in m.says => Says(m, v, i)
    BY DEF Says
  <2> QED
    BY <2>1, <2>2
<1> QED
  BY <1>3 DEF Speaks, Answers

(* Among any updates, and for any id that is safe to look for: a message    *)
(* with an answer is the new decision, and any other leaves the decision    *)
(* alone (Telegram.Status takes the newest message that answers).           *)
THEOREM MessagesActLikeLedger ==
  \A updates \in Seq(Messages), m \in Messages, i \in Ids : ActsLikeLedger(updates, m, i)
<1> SUFFICES ASSUME NEW u \in Seq(Messages), NEW m \in Messages, NEW i \in Ids,
                    Len(u) < Window, i \in Lower, Starts[i] = {i}, Plain(m)
             PROVE  Status(Append(u, m), i) =
                      IF ~Answers(m, i) THEN Status(u, i)
                      ELSE IF [verb |-> "approve", id |-> i] \in m.says THEN "approved" ELSE "denied"
  BY DEF ActsLikeLedger
<1> DEFINE more == Append(u, m)
           n == Len(u)
           ks == {k \in 1..n : Speaks(u[k], i)}
           ls == {k \in 1..(n + 1) : Speaks(more[k], i)}
<1>1. /\ n \in Nat /\ more \in Seq(Messages) /\ Len(more) = n + 1
      /\ more[n + 1] = m /\ \A k \in 1..n : more[k] = u[k]
  OBVIOUS
<1>2. Len(u) <= Window /\ n + 1 <= Window
  BY <1>1, ScanAssumption
<1>3. /\ Status(u, i) = IF ks = {} THEN "pending"
                        ELSE Verdict(u[CHOOSE k \in ks : \A l \in ks : l <= k], i)
      /\ Status(more, i) = IF ls = {} THEN "pending"
                           ELSE Verdict(more[CHOOSE k \in ls : \A l \in ls : l <= k], i)
  <2>1. Status(u, i) = IF ks = {} THEN "pending"
                      ELSE Verdict(u[CHOOSE k \in ks : \A l \in ks : l <= k], i)
    BY <1>2, StatusOf, Zenon
  <2>2. more \in Seq(Messages) /\ Len(more) = n + 1 /\ Len(more) <= Window
    BY <1>1, <1>2
  <2> HIDE DEF more
  <2>3. Status(more, i) = IF ls = {} THEN "pending"
                         ELSE Verdict(more[CHOOSE k \in ls : \A l \in ls : l <= k], i)
    <3> DEFINE ms == {k \in 1..Len(more) : Speaks(more[k], i)}
    <3>1. Status(more, i) = IF ms = {} THEN "pending"
                           ELSE Verdict(more[CHOOSE k \in ms : \A l \in ms : l <= k], i)
      BY <2>2, StatusOf, Zenon
    <3>2. ms = ls
      BY <2>2
    <3> HIDE DEF ms, ls
    <3> QED
      BY <3>1, <3>2
  <2> QED
    BY <2>1, <2>3
<1>4. (n + 1 \in ls <=> Speaks(m, i)) /\ \A k \in 1..n : k \in ls <=> k \in ks
  BY <1>1
<1>5. ls \subseteq 1..(n + 1) /\ ks \subseteq 1..n
  OBVIOUS
<1>a. Speaks(m, i) <=> Answers(m, i)
  BY PlainWords, Zenon
<1> HIDE DEF more, ks, ls, n
<1>6. CASE Answers(m, i)
  <2>1. n + 1 \in ls /\ \A l \in ls : l <= n + 1
    <3>1. n + 1 \in ls
      BY <1>4, <1>6, <1>a, Zenon
    <3>2. n \in Nat
      BY <1>1
    <3> QED
      BY <1>5, <3>1, <3>2
  <2>2. (CHOOSE k \in ls : \A l \in ls : l <= k) = n + 1
    <3>1. \A k \in ls : (\A l \in ls : l <= k) => k = n + 1
      BY <1>1, <1>5, <2>1
    <3> QED
      BY <2>1, <3>1
  <2>3. Status(more, i) = Verdict(m, i)
    BY <1>1, <1>3, <2>1, <2>2, Zenon
  <2> QED
    BY <1>6, <2>3, PlainWords DEF Verdict, more
<1>7. CASE ~Answers(m, i)
  <2>1. ls = ks
    <3>1. \A k \in 1..(n + 1) : k \in 1..n \/ k = n + 1
      BY <1>1
    <3> QED
      BY <1>4, <1>5, <1>7, <1>a, <3>1, Zenon
  <2>2. CASE ks = {}
    BY <1>3, <1>7, <2>1, <2>2 DEF more
  <2>3. CASE ks # {}
    <3> DEFINE k == CHOOSE k \in ks : \A l \in ks : l <= k
    <3>1. k \in ks
      <4>1. ks \subseteq 0..n
        BY <1>1, <1>5
      <4> QED
        BY <1>1, <2>3, <4>1, HasGreatest, Zenon
    <3>2. more[k] = u[k]
      BY <1>1, <1>5, <3>1, Zenon
    <3> HIDE DEF k
    <3>3. Status(more, i) = Verdict(more[k], i) /\ Status(u, i) = Verdict(u[k], i)
      BY <1>3, <2>1, <2>3 DEF k
    <3> QED
      BY <1>7, <3>2, <3>3 DEF more
  <2> QED
    BY <2>2, <2>3
<1> QED
  BY <1>6, <1>7

-----------------------------------------------------------------------------
(***************************************************************************)
(* Locals of a terragrunt file: any number of them.                        *)
(***************************************************************************)

(* The locals with a value after one more pass, and the passes of a file.  *)
Pass(s, uses, broken) == s \cup {a \in (DOMAIN uses) \ broken : uses[a] \subseteq s}

PassesTo(f, n, uses, broken) ==
  /\ f \in [0..n -> SUBSET DOMAIN uses]
  /\ f[0] = {}
  /\ \A k \in 1..n : f[k] = Pass(f[k - 1], uses, broken)

LEMMA PassesExist ==
  ASSUME NEW n \in Nat, NEW uses, NEW broken
  PROVE  \E f : PassesTo(f, n, uses, broken)
<1> DEFINE S == {m \in 0..n : \E f : PassesTo(f, m, uses, broken)}
<1>1. 0 \in S
  <2>1. PassesTo([k \in 0..0 |-> {}], 0, uses, broken)
    BY DEF PassesTo
  <2> QED
    BY <2>1
<1>2. ASSUME NEW m \in 1..n, m - 1 \in S PROVE m \in S
  <2>1. PICK f : PassesTo(f, m - 1, uses, broken)
    BY <1>2
  <2> DEFINE g == [k \in 0..m |-> IF k = m THEN Pass(f[m - 1], uses, broken) ELSE f[k]]
  <2>2. /\ f \in [0..(m - 1) -> SUBSET DOMAIN uses] /\ f[0] = {}
        /\ \A k \in 1..(m - 1) : f[k] = Pass(f[k - 1], uses, broken)
    BY <2>1 DEF PassesTo
  <2>3. Pass(f[m - 1], uses, broken) \in SUBSET DOMAIN uses
    BY <2>2 DEF Pass
  <2>4. g \in [0..m -> SUBSET DOMAIN uses] /\ g[0] = {}
    BY <2>2, <2>3
  <2>5. ASSUME NEW k \in 1..m PROVE g[k] = Pass(g[k - 1], uses, broken)
    <3>1. g[k - 1] = f[k - 1]
      OBVIOUS
    <3>2. CASE k = m
      BY <3>1, <3>2
    <3>3. CASE k # m
      <4>1. k \in 1..(m - 1) /\ g[k] = f[k]
        BY <3>3
      <4> QED
        BY <2>2, <3>1, <4>1
    <3> QED
      BY <3>2, <3>3
  <2> HIDE DEF g
  <2>6. PassesTo(g, m, uses, broken)
    BY <2>4, <2>5 DEF PassesTo
  <2> QED
    BY <2>6
<1>3. n \in S
  <2> HIDE DEF S
  <2> QED
    BY <1>1, <1>2, UpTo
<1> QED
  BY <1>3

LEMMA AfterPassesIs ==
  ASSUME NEW n \in Nat, NEW uses, NEW broken
  PROVE  \E f : PassesTo(f, n, uses, broken) /\ AfterPasses(n, uses, broken) = f[n]
<1> DEFINE Body(g) == [k \in 0..n |-> IF k = 0 THEN {}
                        ELSE g[k - 1] \cup {a \in (DOMAIN uses) \ broken : uses[a] \subseteq g[k - 1]}]
           f == CHOOSE g : g = Body(g)
<1>1. \E g : g = Body(g)
  <2>1. PICK g : PassesTo(g, n, uses, broken)
    BY PassesExist
  <2>2. g = [k \in 0..n |-> g[k]]
    BY <2>1 DEF PassesTo
  <2>3. \A k \in 0..n : k = 0 \/ k \in 1..n
    OBVIOUS
  <2>4. g = Body(g)
    BY <2>1, <2>2, <2>3, Zenon DEF PassesTo, Pass
  <2> QED
    BY <2>4, Zenon
<1>2. f = Body(f)
  BY <1>1, Zenon
<1>3. AfterPasses(n, uses, broken) = f[n]
  BY DEF AfterPasses
<1> HIDE DEF f
<1>4. f[0] = {} /\ \A k \in 1..n : f[k] = Pass(f[k - 1], uses, broken)
  <2>1. ASSUME NEW k \in 0..n PROVE f[k] = Body(f)[k]
    BY <1>2, Zenon
  <2>2. f[0] = {}
    <3>1. 0 \in 0..n
      OBVIOUS
    <3>2. f[0] = Body(f)[0]
      BY <2>1, <3>1, Zenon
    <3>3. Body(f)[0] = {}
      BY <3>1
    <3> QED
      BY <3>2, <3>3
  <2>3. ASSUME NEW k \in 1..n PROVE f[k] = Pass(f[k - 1], uses, broken)
    <3>1. k \in 0..n /\ k # 0
      OBVIOUS
    <3>2. f[k] = Body(f)[k]
      BY <2>1, <3>1, Zenon
    <3> QED
      BY <3>1, <3>2 DEF Pass
  <2> QED
    BY <2>2, <2>3
<1>5. PICK g : PassesTo(g, n, uses, broken)
  BY PassesExist
<1>6. f = g
  <2> DEFINE S == {k \in 0..n : f[k] = g[k]}
  <2>1. 0 \in S
    <3>1. 0 \in 0..n /\ f[0] = {} /\ g[0] = {}
      BY <1>4, <1>5 DEF PassesTo
    <3> QED
      BY <3>1
  <2>2. ASSUME NEW k \in 1..n, k - 1 \in S PROVE k \in S
    BY <1>4, <1>5, <2>2 DEF PassesTo
  <2>3. \A k \in 0..n : k \in S
    <3> HIDE DEF S
    <3> QED
      BY <2>1, <2>2, UpTo
  <2>4. f = [k \in 0..n |-> f[k]] /\ g = [k \in 0..n |-> g[k]]
    BY <1>2, <1>5 DEF PassesTo
  <2> QED
    BY <2>3, <2>4
<1> QED
  BY <1>3, <1>5, <1>6

(* Needs is the least closed set of the locals that a local uses.          *)
LEMMA NeedsIsLeast ==
  ASSUME NEW D, NEW uses \in [D -> SUBSET D], NEW a \in D
  PROVE  /\ Needs(a, uses) \subseteq D
         /\ uses[a] \subseteq Needs(a, uses)
         /\ \A b \in Needs(a, uses) : uses[b] \subseteq Needs(a, uses)
         /\ \A t \in SUBSET D : uses[a] \subseteq t /\ (\A b \in t : uses[b] \subseteq t) => Needs(a, uses) \subseteq t
<1> DEFINE Closed(t) == uses[a] \subseteq t /\ \A b \in t : uses[b] \subseteq t
           least == {b \in D : \A t \in SUBSET D : Closed(t) => b \in t}
           needs == Needs(a, uses)
<1>1. DOMAIN uses = D /\ \A b \in D : uses[b] \subseteq D
  OBVIOUS
<1>2. Closed(least) /\ \A t \in SUBSET D : Closed(t) => least \subseteq t
  BY <1>1
<1>3. needs = CHOOSE s \in SUBSET D : Closed(s) /\ \A t \in SUBSET s : Closed(t) => s \subseteq t
  BY <1>1 DEF Needs
<1>4. least \in SUBSET D /\ Closed(least) /\ \A t \in SUBSET least : Closed(t) => least \subseteq t
  <2>1. least \subseteq D
    OBVIOUS
  <2> HIDE DEF least
  <2> QED
    BY <1>2, <2>1
<1>5. needs \in SUBSET D /\ Closed(needs) /\ \A t \in SUBSET needs : Closed(t) => needs \subseteq t
  <2> HIDE DEF least, needs, Closed
  <2> QED
    BY <1>3, <1>4
<1> HIDE DEF needs
<1>6. ASSUME NEW t \in SUBSET D, Closed(t) PROVE needs \subseteq t
  <2>1. Closed(t \cap needs)
    BY <1>5, <1>6
  <2>2. t \cap needs \in SUBSET needs
    OBVIOUS
  <2>3. needs \subseteq t \cap needs
    <3> HIDE DEF Closed
    <3> QED
      BY <1>5, <2>1, <2>2
  <2> QED
    BY <2>3
<1>7. needs \subseteq D /\ Closed(needs) /\ \A t \in SUBSET D : Closed(t) => needs \subseteq t
  BY <1>5, <1>6
<1> QED
  BY <1>7 DEF needs

(* No pass gives a value to a local that has none for good reasons.        *)
LEMMA PassesAreSound ==
  ASSUME NEW D, NEW uses \in [D -> SUBSET D], NEW broken, NEW n \in Nat, NEW f, PassesTo(f, n, uses, broken)
  PROVE  \A a \in f[n] : a \in D /\ \A b \in {a} \cup Needs(a, uses) : b \notin broken \cup Needs(b, uses)
<1> DEFINE Sound(s) == /\ s \subseteq D
                       /\ \A b \in s : uses[b] \subseteq s /\ b \notin broken \cup Needs(b, uses)
           S == {k \in 0..n : Sound(f[k])}
<1>1. ASSUME NEW s, Sound(s), NEW a \in s PROVE Needs(a, uses) \subseteq s
  BY <1>1, NeedsIsLeast
<1>2. 0 \in S
  BY DEF PassesTo
<1>3. ASSUME NEW k \in 1..n, k - 1 \in S PROVE k \in S
  <2> DEFINE s == f[k - 1]
  <2>1. Sound(s) /\ f[k] = s \cup {a \in D \ broken : uses[a] \subseteq s}
    BY <1>3 DEF PassesTo, Pass
  <2> HIDE DEF s
  <2>2. ASSUME NEW b \in f[k], b \notin s PROVE b \notin Needs(b, uses)
    <3>1. b \in D /\ uses[b] \subseteq s
      BY <2>1, <2>2
    <3>2. Needs(b, uses) \subseteq s
      BY <2>1, <3>1, NeedsIsLeast
    <3> QED
      BY <2>2, <3>2
  <2>3. Sound(f[k])
    BY <2>1, <2>2
  <2> QED
    BY <2>3
<1>4. n \in S
  <2> HIDE DEF S
  <2> QED
    BY <1>2, <1>3, UpTo
<1>5. Sound(f[n])
  BY <1>4
<1> QED
  BY <1>1, <1>5

(* Within as many passes as there are locals, one finds nothing.           *)
LEMMA PassesComeToRest ==
  ASSUME NEW uses, IsFiniteSet(DOMAIN uses), NEW broken,
         NEW n \in Nat, n > Cardinality(DOMAIN uses), NEW f, PassesTo(f, n, uses, broken)
  PROVE  \E s \in SUBSET f[n] : Pass(s, uses, broken) = s
<1> DEFINE D == DOMAIN uses
<1>1. /\ f[0] = {} /\ \A k \in 0..n : f[k] \subseteq D /\ IsFiniteSet(f[k])
      /\ \A k \in 1..n : f[k] = Pass(f[k - 1], uses, broken) /\ f[k - 1] \subseteq f[k]
  BY FS_Subset DEF PassesTo, Pass
<1>2. \A k \in 0..n : Cardinality(f[k]) \in Nat /\ Cardinality(f[k]) <= Cardinality(D)
  BY <1>1, FS_Subset, FS_CardinalityType
<1>3. PICK k \in 1..n : f[k] = f[k - 1]
  <2> SUFFICES ASSUME \A k \in 1..n : f[k] # f[k - 1] PROVE FALSE
    OBVIOUS
  <2> DEFINE S == {k \in 0..n : Cardinality(f[k]) >= k}
  <2>1. 0 \in S
    BY <1>2
  <2>2. ASSUME NEW k \in 1..n, k - 1 \in S PROVE k \in S
    <3>1. Cardinality(f[k - 1]) < Cardinality(f[k])
      <4>1. k \in 0..n /\ k - 1 \in 0..n
        OBVIOUS
      <4>2. IsFiniteSet(f[k]) /\ f[k - 1] \in SUBSET f[k] /\ f[k] # f[k - 1]
        BY <1>1, <4>1
      <4>3. Cardinality(f[k - 1]) <= Cardinality(f[k]) /\ Cardinality(f[k - 1]) # Cardinality(f[k])
        BY <4>2, FS_Subset
      <4> QED
        BY <1>2, <4>1, <4>3
    <3> QED
      BY <1>2, <2>2, <3>1
  <2>3. n \in S
    <3> HIDE DEF S
    <3> QED
      BY <2>1, <2>2, UpTo
  <2>4. Cardinality(D) \in Nat /\ n \in 0..n
    BY FS_CardinalityType
  <2> QED
    BY <1>2, <2>3, <2>4
<1>4. f[k - 1] \subseteq f[n]
  <2> DEFINE S == {m \in 0..n : m < k - 1 \/ f[k - 1] \subseteq f[m]}
  <2>1. 0 \in S
    OBVIOUS
  <2>2. ASSUME NEW m \in 1..n, m - 1 \in S PROVE m \in S
    BY <1>1, <2>2
  <2>3. n \in S
    <3> HIDE DEF S
    <3> QED
      BY <2>1, <2>2, UpTo
  <2> QED
    BY <2>3
<1> QED
  BY <1>1, <1>3, <1>4

(* Once a pass finds nothing, each local that has a value for good reasons *)
(* has one: of those that have not, the one with the fewest needs would    *)
(* use another one, with fewer needs still.                                *)
LEMMA RestIsComplete ==
  ASSUME NEW D, IsFiniteSet(D), NEW uses \in [D -> SUBSET D], NEW broken,
         NEW s, Pass(s, uses, broken) = s
  PROVE  {a \in D : \A b \in {a} \cup Needs(a, uses) : b \notin broken \cup Needs(b, uses)} \subseteq s
<1> DEFINE Fine(a) == \A b \in {a} \cup Needs(a, uses) : b \notin broken \cup Needs(b, uses)
           Size(a) == Cardinality(Needs(a, uses))
           B == {a \in D : Fine(a) /\ a \notin s}
<1>1. \A a \in D : IsFiniteSet(Needs(a, uses)) /\ Size(a) \in Nat
  BY NeedsIsLeast, FS_Subset, FS_CardinalityType
<1>2. ASSUME B # {} PROVE FALSE
  <2> DEFINE T == {Size(a) : a \in B}
  <2>1. T \subseteq Nat /\ T # {}
    BY <1>1, <1>2
  <2>2. PICK least \in T : \A t \in T : least <= t
    <3> HIDE DEF T
    <3> QED
      BY <2>1, HasLeast, Zenon
  <2>3. PICK a \in B : \A c \in B : Size(a) <= Size(c)
    BY <2>2
  <2>4. a \in D /\ Fine(a) /\ a \notin s
    OBVIOUS
  <2>5. PICK c \in uses[a] : c \notin s
    <3>1. a \in D \ broken /\ DOMAIN uses = D
      BY <2>4
    <3> QED
      BY <2>4, <3>1 DEF Pass
  <2>6. c \in D /\ c \in Needs(a, uses)
    BY <2>4, <2>5, NeedsIsLeast
  <2>7. Needs(c, uses) \subseteq Needs(a, uses)
    <3>1. Needs(a, uses) \subseteq D /\ uses[c] \subseteq Needs(a, uses)
          /\ \A b \in Needs(a, uses) : uses[b] \subseteq Needs(a, uses)
      BY <2>4, <2>6, NeedsIsLeast
    <3> QED
      BY <2>6, <3>1, NeedsIsLeast
  <2>8. Fine(c) /\ c \notin Needs(c, uses)
    BY <2>4, <2>6, <2>7
  <2>9. c \in B
    BY <2>5, <2>6, <2>8
  <2>10. Size(c) < Size(a)
    <3>1. Needs(c, uses) # Needs(a, uses)
      BY <2>6, <2>8
    <3> QED
      BY <1>1, <2>4, <2>7, <3>1, FS_Subset
  <2> HIDE DEF B
  <2> QED
    BY <1>1, <2>3, <2>4, <2>6, <2>9, <2>10
<1> QED
  BY <1>2

(* For any number of locals, in any order of the file: after the passes of *)
(* evaluateLocals (resolver.go) a local has a value exactly if its         *)
(* expression is sound and it needs neither a broken one nor itself.       *)
THEOREM PassesAreEnough ==
  ASSUME NEW D, IsFiniteSet(D), NEW uses \in [D -> SUBSET D], NEW broken
  PROVE  LocalsAreComplete(uses, broken)
<1> DEFINE n == Passes(Cardinality(D))
<1>1. DOMAIN uses = D /\ n \in Nat /\ n > Cardinality(D)
  BY FS_CardinalityType DEF Passes
<1> HIDE DEF n
<1>2. CASE D = {}
  BY <1>1, <1>2 DEF LocalsAreComplete, EvaluatedLocals
<1>3. CASE D # {}
  <2>1. PICK f : PassesTo(f, n, uses, broken) /\ AfterPasses(n, uses, broken) = f[n]
    BY <1>1, AfterPassesIs
  <2>2. EvaluatedLocals(uses, broken) = f[n]
    BY <1>1, <1>3, <2>1 DEF EvaluatedLocals, n
  <2>3. PICK s \in SUBSET f[n] : Pass(s, uses, broken) = s
    BY <1>1, <2>1, PassesComeToRest
  <2>4. {a \in D : \A b \in {a} \cup Needs(a, uses) : b \notin broken \cup Needs(b, uses)} \subseteq s
    BY <2>3, RestIsComplete
  <2>5. \A a \in f[n] : a \in D /\ \A b \in {a} \cup Needs(a, uses) : b \notin broken \cup Needs(b, uses)
    BY <1>1, <2>1, PassesAreSound, Zenon
  <2> QED
    BY <1>1, <2>2, <2>3, <2>4, <2>5 DEF LocalsAreComplete
<1> QED
  BY <1>2, <1>3

-----------------------------------------------------------------------------
(***************************************************************************)
(* Files that read each other: any number of them.                         *)
(***************************************************************************)

(* The chains of reads from f that do not come back to the stack or to a   *)
(* file they went through.                                                 *)
ChainsFrom(f, stack, reads, includes) ==
  {c \in Seq(DOMAIN reads) :
     /\ c # <<>> /\ c[1] = f
     /\ \A i, j \in 1..Len(c) : c[i] = c[j] => i = j
     /\ \A i \in 1..Len(c) : c[i] \notin stack
     /\ \A i \in 1..(Len(c) - 1) : c[i + 1] \in ReadsOf(c[i], reads, includes)}

Entered(stack, f) == stack \cup {f}

Longer(f, chains) == {<<f>> \o d : d \in chains}

LEMMA ChainsGrow ==
  ASSUME NEW D, NEW reads \in [D -> SUBSET D], NEW includes \in [D -> SUBSET D],
         NEW stack, NEW f \in D, f \notin stack
  PROVE  ChainsFrom(f, stack, reads, includes) =
           {<<f>>} \cup UNION {Longer(f, ChainsFrom(r, Entered(stack, f), reads, includes)) : r \in ReadsOf(f, reads, includes)}
<1> DEFINE R(g) == ReadsOf(g, reads, includes)
           C(g, s) == ChainsFrom(g, s, reads, includes)
           D1 == Entered(stack, f)
           IsChain(c, g, s) == /\ c # <<>> /\ c[1] = g
                               /\ \A i, j \in 1..Len(c) : c[i] = c[j] => i = j
                               /\ \A i \in 1..Len(c) : c[i] \notin s
                               /\ \A i \in 1..(Len(c) - 1) : c[i + 1] \in R(c[i])
<1>1. \A g, s : C(g, s) = {c \in Seq(D) : IsChain(c, g, s)}
  BY DEF ChainsFrom
<1>2. R(f) \subseteq D
  BY DEF ReadsOf
<1> HIDE DEF C, R
<1>3. <<f>> \in C(f, stack)
  <2>1. <<f>> \in Seq(D) /\ Len(<<f>>) = 1 /\ <<f>>[1] = f /\ <<f>> # <<>>
    OBVIOUS
  <2>2. IsChain(<<f>>, f, stack)
    BY <2>1
  <2> QED
    BY <1>1, <2>1, <2>2, Zenon
<1>4. ASSUME NEW r \in R(f), NEW d \in C(r, D1) PROVE <<f>> \o d \in C(f, stack)
  <2>1. d \in Seq(D) /\ IsChain(d, r, stack \cup {f})
    BY <1>1 DEF Entered
  <2> DEFINE c == <<f>> \o d
             n == Len(d)
  <2>2. /\ n \in Nat /\ n > 0 /\ c \in Seq(D) /\ Len(c) = n + 1 /\ c[1] = f /\ c # <<>>
        /\ \A i \in 2..(n + 1) : i - 1 \in 1..n /\ c[i] = d[i - 1]
    BY <2>1
  <2> HIDE DEF c
  <2>3. \A i, j \in 1..(n + 1) : c[i] = c[j] => i = j
    <3> SUFFICES ASSUME NEW i \in 1..(n + 1), NEW j \in 1..(n + 1), c[i] = c[j] PROVE i = j
      OBVIOUS
    <3>1. \A k \in 2..(n + 1) : c[k] # f
      BY <2>1, <2>2
    <3>2. CASE i = 1 \/ j = 1
      <4>1. i \in 2..(n + 1) \/ i = 1
        BY <2>2
      <4>2. j \in 2..(n + 1) \/ j = 1
        BY <2>2
      <4> QED
        BY <2>2, <3>1, <3>2, <4>1, <4>2
    <3>3. CASE i # 1 /\ j # 1
      <4>1. i \in 2..(n + 1) /\ j \in 2..(n + 1)
        BY <2>2, <3>3
      <4>2. d[i - 1] = d[j - 1] /\ i - 1 \in 1..n /\ j - 1 \in 1..n
        BY <2>2, <4>1
      <4>3. i - 1 = j - 1
        BY <2>1, <4>2
      <4> QED
        BY <2>2, <4>1, <4>3
    <3> QED
      BY <3>2, <3>3
  <2>4. \A i \in 1..(n + 1) : c[i] \notin stack
    <3>1. \A i \in 2..(n + 1) : c[i] \notin stack
      BY <2>1, <2>2
    <3> QED
      BY <2>2, <3>1
  <2>5. \A i \in 1..n : c[i + 1] \in R(c[i])
    <3> SUFFICES ASSUME NEW i \in 1..n PROVE c[i + 1] \in R(c[i])
      OBVIOUS
    <3>1. c[i + 1] = d[i]
      BY <2>2
    <3>2. CASE i = 1
      BY <2>1, <2>2, <3>1, <3>2
    <3>3. CASE i # 1
      <4>1. c[i] = d[i - 1] /\ i - 1 \in 1..(n - 1)
        BY <2>2, <3>3
      <4>2. d[(i - 1) + 1] \in R(d[i - 1])
        BY <2>1, <4>1
      <4> QED
        BY <2>2, <3>1, <4>1, <4>2
    <3> QED
      BY <3>2, <3>3
  <2>6. IsChain(c, f, stack)
    BY <2>2, <2>3, <2>4, <2>5
  <2> QED
    BY <1>1, <2>2, <2>6, Zenon DEF c
<1>5. ASSUME NEW c \in C(f, stack), c # <<f>>
      PROVE  \E r \in R(f) : \E d \in C(r, D1) : c = <<f>> \o d
  <2>1. c \in Seq(D) /\ IsChain(c, f, stack)
    BY <1>1
  <2> DEFINE n == Len(c)
             d == Tail(c)
             r == c[2]
  <2>2. n \in Nat /\ n > 1
    <3>1. n \in Nat /\ n # 0
      BY <2>1
    <3>2. n # 1
      BY <1>5, <2>1
    <3> QED
      BY <3>1, <3>2
  <2>3. d \in Seq(D) /\ Len(d) = n - 1 /\ d # <<>> /\ \A i \in 1..(n - 1) : d[i] = c[i + 1]
    <3>1. d \in Seq(D) /\ Len(d) = n - 1
      BY <2>1, <2>2
    <3>2. \A i \in 1..(n - 1) : d[i] = c[i + 1]
      BY <2>1, <2>2
    <3>3. d # <<>>
      <4> HIDE DEF d, n
      <4> QED
        BY <2>2, <3>1
    <3> QED
      BY <3>1, <3>2, <3>3
  <2>4. c = <<f>> \o d
    BY <2>1, <2>2, <2>3
  <2>5. r \in R(f)
    <3>1. 1 \in 1..(n - 1) /\ 1 + 1 = 2
      BY <2>2
    <3> QED
      BY <2>1, <3>1
  <2>6. IsChain(d, r, D1)
    <3>a. D1 = stack \cup {f}
      BY DEF Entered
    <3> HIDE DEF d
    <3>1. d[1] = r
      BY <2>2, <2>3
    <3>2. ASSUME NEW i \in 1..(n - 1), NEW j \in 1..(n - 1), d[i] = d[j] PROVE i = j
      <4>1. i + 1 \in 1..n /\ j + 1 \in 1..n /\ c[i + 1] = c[j + 1]
        BY <2>2, <2>3, <3>2
      <4>2. i + 1 = j + 1
        BY <2>1, <4>1
      <4> QED
        BY <2>2, <4>2
    <3>3. ASSUME NEW i \in 1..(n - 1) PROVE d[i] \notin D1
      <4>1. i + 1 \in 1..n /\ 1 \in 1..n /\ i + 1 # 1 /\ d[i] = c[i + 1]
        BY <2>2, <2>3
      <4> QED
        BY <2>1, <3>a, <4>1
    <3>4. ASSUME NEW i \in 1..((n - 1) - 1) PROVE d[i + 1] \in R(d[i])
      <4>1. i + 1 \in 1..(n - 1) /\ i \in 1..(n - 1) /\ d[i] = c[i + 1] /\ d[i + 1] = c[(i + 1) + 1]
        BY <2>2, <2>3
      <4> QED
        BY <2>1, <4>1
    <3> QED
      BY <2>3, <3>1, <3>2, <3>3, <3>4
  <2>7. d \in C(r, D1)
    BY <1>1, <2>3, <2>6, Zenon
  <2> QED
    BY <2>4, <2>5, <2>7, Zenon
<1>6. C(f, stack) = {<<f>>} \cup UNION {Longer(f, C(r, D1)) : r \in R(f)}
  <2> HIDE DEF D1
  <2>1. ASSUME NEW c \in C(f, stack) PROVE c \in {<<f>>} \cup UNION {Longer(f, C(r, D1)) : r \in R(f)}
    BY <1>5 DEF Longer
  <2>2. ASSUME NEW r \in R(f), NEW c \in Longer(f, C(r, D1)) PROVE c \in C(f, stack)
    BY <1>4, Zenon DEF Longer
  <2> QED
    BY <1>3, <2>1, <2>2
<1> QED
  BY <1>6, Zenon DEF C, R

(* What Config follows, without the functions inside of it.                *)
ReadNext(h, g, f, stack, rs) ==
  IF rs = {} THEN [chains |-> {<<f>>}, stack |-> Entered(stack, f)]
  ELSE LET r == CHOOSE r \in rs : TRUE
           s == h[rs \ {r}]
           c == g[s.stack][r]
       IN  [chains |-> s.chains \cup Longer(f, c.chains), stack |-> c.stack]

ReadAll(g, f, stack, R) == (CHOOSE h : h = [rs \in SUBSET R |-> ReadNext(h, g, f, stack, rs)])[R]

Entry(g, f, stack, reads, includes) ==
  LET all == ReadAll(g, f, stack, ReadsOf(f, reads, includes))
  IN  IF f \in stack THEN [chains |-> {}, stack |-> stack]
      ELSE [chains |-> all.chains, stack |-> Leave(all.stack, f)]

Entries(g, reads, includes) ==
  [stack \in SUBSET DOMAIN reads |-> [f \in DOMAIN reads |-> Entry(g, f, stack, reads, includes)]]

LEMMA ConfigIs ==
  ASSUME NEW file, NEW reads, NEW includes
  PROVE  Config(file, reads, includes) = (CHOOSE g : g = Entries(g, reads, includes))[{}][file]
BY Zenon DEF Config, Entries, Entry, ReadAll, ReadNext, Longer, Entered

(* If the files that f reads give their chains and leave the stack as it   *)
(* was, so do all of them, in any order.                                   *)
LEMMA ReadAllIs ==
  ASSUME NEW R, IsFiniteSet(R), NEW f, NEW stack, NEW g,
         \A r \in R : g[Entered(stack, f)][r].stack = Entered(stack, f)
  PROVE  ReadAll(g, f, stack, R) =
           [chains |-> {<<f>>} \cup UNION {Longer(f, g[Entered(stack, f)][r].chains) : r \in R}, stack |-> Entered(stack, f)]
<1> DEFINE Found(rs) == [chains |-> {<<f>>} \cup UNION {Longer(f, g[Entered(stack, f)][r].chains) : r \in rs}, stack |-> Entered(stack, f)]
           H == [rs \in SUBSET R |-> Found(rs)]
           Again(h) == [rs \in SUBSET R |-> ReadNext(h, g, f, stack, rs)]
           h0 == CHOOSE h : h = Again(h)
<1>1. ASSUME NEW h, NEW rs \in SUBSET R, rs # {} => h[rs \ {CHOOSE r \in rs : TRUE}] = Found(rs \ {CHOOSE r \in rs : TRUE})
      PROVE  ReadNext(h, g, f, stack, rs) = Found(rs)
  <2>1. CASE rs = {}
    BY <2>1 DEF ReadNext
  <2>2. CASE rs # {}
    <3> DEFINE r == CHOOSE r \in rs : TRUE
    <3>1. r \in rs /\ r \in R
      BY <2>2
    <3>2. h[rs \ {r}] = Found(rs \ {r})
      BY <1>1, <2>2
    <3>a. ReadNext(h, g, f, stack, rs) =
            LET s == h[rs \ {r}]
                c == g[s.stack][r]
            IN  [chains |-> s.chains \cup Longer(f, c.chains), stack |-> c.stack]
      BY <2>2 DEF ReadNext
    <3> HIDE DEF r
    <3>3. UNION {Longer(f, g[Entered(stack, f)][q].chains) : q \in rs} = Longer(f, g[Entered(stack, f)][r].chains) \cup UNION {Longer(f, g[Entered(stack, f)][q].chains) : q \in rs \ {r}}
      BY <3>1
    <3>4. Found(rs \ {r}).stack = Entered(stack, f)
          /\ Found(rs \ {r}).chains = {<<f>>} \cup UNION {Longer(f, g[Entered(stack, f)][q].chains) : q \in rs \ {r}}
      OBVIOUS
    <3>5. ReadNext(h, g, f, stack, rs) =
            [chains |-> Found(rs \ {r}).chains \cup Longer(f, g[Entered(stack, f)][r].chains), stack |-> Entered(stack, f)]
      <4> HIDE DEF Found
      <4>2. h[rs \ {r}].stack = Entered(stack, f) /\ h[rs \ {r}].chains = Found(rs \ {r}).chains
        BY <3>2, <3>4
      <4>3. g[h[rs \ {r}].stack][r].chains = g[Entered(stack, f)][r].chains /\ g[h[rs \ {r}].stack][r].stack = Entered(stack, f)
        BY <3>1, <4>2
      <4> QED
        BY <3>a, <4>2, <4>3
    <3> QED
      BY <3>3, <3>4, <3>5, Zenon
  <2> QED
    BY <2>1, <2>2
<1> HIDE DEF Found
<1>2. H = Again(H)
  <2>1. ASSUME NEW rs \in SUBSET R PROVE ReadNext(H, g, f, stack, rs) = Found(rs)
    <3>1. \A r : rs \ {r} \in SUBSET R
      OBVIOUS
    <3>2. \A r : H[rs \ {r}] = Found(rs \ {r})
      BY <3>1
    <3> HIDE DEF H
    <3> QED
      BY <1>1, <3>2, Zenon
  <2> QED
    BY <2>1, Zenon
<1>3. h0 = Again(h0)
  <2> HIDE DEF Again, H
  <2> QED
    BY <1>2
<1>4. ReadAll(g, f, stack, R) = h0[R]
  BY DEF ReadAll
<1> HIDE DEF h0
<1>5. \A rs \in SUBSET R : h0[rs] = ReadNext(h0, g, f, stack, rs)
  BY <1>3
<1>6. \A rs \in SUBSET R : IsFiniteSet(rs) /\ Cardinality(rs) \in Nat
  BY FS_Subset, FS_CardinalityType
<1> DEFINE B == {rs \in SUBSET R : h0[rs] # Found(rs)}
           T == {Cardinality(rs) : rs \in B}
<1>7. ASSUME B # {} PROVE FALSE
  <2>1. T \subseteq Nat /\ T # {}
    BY <1>6, <1>7
  <2>2. PICK least \in T : \A t \in T : least <= t
    <3> HIDE DEF T
    <3> QED
      BY <2>1, HasLeast, Zenon
  <2>3. PICK rs \in B : \A qs \in B : Cardinality(rs) <= Cardinality(qs)
    BY <2>2
  <2> DEFINE r == CHOOSE r \in rs : TRUE
  <2>4. rs # {} => r \in rs
    OBVIOUS
  <2> HIDE DEF r
  <2>5. rs \in SUBSET R /\ rs \ {r} \in SUBSET R
    OBVIOUS
  <2>6. rs # {} => Cardinality(rs \ {r}) < Cardinality(rs)
    <3>1. rs # {} => rs \ {r} # rs /\ rs \ {r} \in SUBSET rs
      BY <2>4
    <3> QED
      BY <1>6, <2>5, <3>1, FS_Subset
  <2>7. rs # {} => h0[rs \ {r}] = Found(rs \ {r})
    BY <1>6, <2>3, <2>5, <2>6
  <2>8. ReadNext(h0, g, f, stack, rs) = Found(rs)
    BY <1>1, <2>5, <2>7 DEF r
  <2> QED
    BY <1>5, <2>5, <2>8
<1>8. h0[R] = Found(R)
  BY <1>7
<1> QED
  BY <1>4, <1>8 DEF Found

Chained(f, stack, reads, includes) == [chains |-> ChainsFrom(f, stack, reads, includes), stack |-> stack]

LEMMA EntryIs ==
  ASSUME NEW D, IsFiniteSet(D), NEW reads \in [D -> SUBSET D], NEW includes \in [D -> SUBSET D],
         NEW stack, NEW f \in D, NEW g,
         f \notin stack => \A r \in D : g[Entered(stack, f)][r] = Chained(r, Entered(stack, f), reads, includes)
  PROVE  Entry(g, f, stack, reads, includes) = Chained(f, stack, reads, includes)
<1> DEFINE R == ReadsOf(f, reads, includes)
           all == ReadAll(g, f, stack, R)
           C(r, s) == ChainsFrom(r, s, reads, includes)
<1>1. Entry(g, f, stack, reads, includes) =
        IF f \in stack THEN [chains |-> {}, stack |-> stack]
        ELSE [chains |-> all.chains, stack |-> Leave(all.stack, f)]
  BY DEF Entry
<1> HIDE DEF all
<1>2. CASE f \in stack
  <2>1. \A c \in C(f, stack) : 1 \in 1..Len(c) /\ c[1] = f /\ c[1] \notin stack
    BY DEF ChainsFrom
  <2>2. C(f, stack) = {}
    <3> HIDE DEF C
    <3> QED
      BY <1>2, <2>1
  <2> QED
    BY <1>1, <1>2, <2>2 DEF Chained
<1>3. CASE f \notin stack
  <2>1. R \subseteq D
    BY DEF ReadsOf
  <2> HIDE DEF R
  <2>2. IsFiniteSet(R)
    BY <2>1, FS_Subset
  <2>3. \A r \in R : g[Entered(stack, f)][r].stack = Entered(stack, f) /\ g[Entered(stack, f)][r].chains = C(r, Entered(stack, f))
    <3> SUFFICES ASSUME NEW r \in R
                 PROVE  g[Entered(stack, f)][r].stack = Entered(stack, f) /\ g[Entered(stack, f)][r].chains = C(r, Entered(stack, f))
      OBVIOUS
    <3>1. r \in D
      BY <2>1
    <3>2. g[Entered(stack, f)][r] = Chained(r, Entered(stack, f), reads, includes)
      BY <1>3, <3>1
    <3> QED
      BY <3>2 DEF Chained
  <2> HIDE DEF C
  <2>5. all = [chains |-> {<<f>>} \cup UNION {Longer(f, g[Entered(stack, f)][r].chains) : r \in R}, stack |-> Entered(stack, f)]
    <3>1. \A r \in R : g[Entered(stack, f)][r].stack = Entered(stack, f)
      BY <2>3
    <3>2. ReadAll(g, f, stack, R) =
            [chains |-> {<<f>>} \cup UNION {Longer(f, g[Entered(stack, f)][r].chains) : r \in R}, stack |-> Entered(stack, f)]
      BY <2>2, <3>1, ReadAllIs
    <3> QED
      BY <3>2, Zenon DEF all
  <2>6. {Longer(f, g[Entered(stack, f)][r].chains) : r \in R} = {Longer(f, C(r, Entered(stack, f))) : r \in R}
    BY <2>3
  <2>7. C(f, stack) = {<<f>>} \cup UNION {Longer(f, C(r, Entered(stack, f))) : r \in R}
    <3>1. ChainsFrom(f, stack, reads, includes) =
            {<<f>>} \cup UNION {Longer(f, ChainsFrom(r, Entered(stack, f), reads, includes)) : r \in ReadsOf(f, reads, includes)}
      BY <1>3, ChainsGrow
    <3> QED
      BY <3>1, Zenon DEF C, R
  <2>8. all.chains = C(f, stack) /\ all.stack = Entered(stack, f)
    BY <2>5, <2>6, <2>7, Zenon
  <2>9. Leave(Entered(stack, f), f) = stack
    BY <1>3 DEF Leave, Entered
  <2> QED
    BY <1>1, <1>3, <2>8, <2>9 DEF Chained, C
<1> QED
  BY <1>2, <1>3

LEMMA EveryEntryIs ==
  ASSUME NEW D, IsFiniteSet(D), NEW reads \in [D -> SUBSET D], NEW includes \in [D -> SUBSET D],
         NEW g, \A s \in SUBSET D, f \in D : g[s][f] = Entry(g, f, s, reads, includes),
         NEW s0 \in SUBSET D, NEW f0 \in D
  PROVE  g[s0][f0] = Chained(f0, s0, reads, includes)
<1> DEFINE Right(s) == \A f \in D : g[s][f] = Chained(f, s, reads, includes)
           B == {s \in SUBSET D : ~Right(s)}
           Beyond(s) == Cardinality(D \ s)
           T == {Beyond(s) : s \in B}
<1>1. \A s \in SUBSET D, f \in D : g[s][f] = Entry(g, f, s, reads, includes)
  OBVIOUS
<1>2. \A s \in SUBSET D : IsFiniteSet(D \ s) /\ Beyond(s) \in Nat
  BY FS_Subset, FS_CardinalityType
<1>3. ASSUME B # {} PROVE FALSE
  <2>1. T \subseteq Nat /\ T # {}
    BY <1>2, <1>3, Zenon
  <2>2. PICK least \in T : \A t \in T : least <= t
    <3> HIDE DEF T
    <3> QED
      BY <2>1, HasLeast, Zenon
  <2>3. PICK s \in B : \A q \in B : Beyond(s) <= Beyond(q)
    BY <2>2, Zenon
  <2> HIDE DEF Right
  <2>4. s \in SUBSET D /\ ~Right(s)
    OBVIOUS
  <2>5. ASSUME NEW f \in D, f \notin s PROVE Right(Entered(s, f))
    <3>1. Entered(s, f) \in SUBSET D /\ D \ (Entered(s, f)) \in SUBSET (D \ s) /\ D \ (Entered(s, f)) # D \ s
      BY <2>4, <2>5 DEF Entered
    <3>2. Beyond(Entered(s, f)) < Beyond(s)
      <4>1. IsFiniteSet(D \ s)
        BY <1>2, <2>4, Zenon
      <4>2. Beyond(Entered(s, f)) <= Beyond(s) /\ Beyond(Entered(s, f)) # Beyond(s)
        BY <3>1, <4>1, FS_Subset, Zenon
      <4>3. Beyond(Entered(s, f)) \in Nat /\ Beyond(s) \in Nat
        BY <1>2, <2>4, <3>1, Zenon
      <4> HIDE DEF Beyond
      <4> QED
        BY <4>2, <4>3
    <3>3. Beyond(Entered(s, f)) \in Nat /\ Beyond(s) \in Nat
      BY <1>2, <2>4, <3>1, Zenon
    <3> HIDE DEF Beyond
    <3>4. Entered(s, f) \notin B
      <4> HIDE DEF B
      <4> QED
        BY <2>3, <3>2, <3>3
    <3> QED
      BY <3>1, <3>4
  <2>6. ASSUME NEW f \in D PROVE g[s][f] = Chained(f, s, reads, includes)
    <3>1. f \notin s => \A r \in D : g[Entered(s, f)][r] = Chained(r, Entered(s, f), reads, includes)
      BY <2>5 DEF Right
    <3>2. Entry(g, f, s, reads, includes) = Chained(f, s, reads, includes)
      <4> HIDE DEF B, T, Beyond
      <4> QED
        BY <3>1, EntryIs
    <3> QED
      BY <1>1, <2>4, <3>2
  <2> QED
    BY <2>4, <2>6 DEF Right
<1> QED
  BY <1>3

(* For any number of files, whatever they read and include: the evaluation *)
(* of evaluateTerragruntConfig (resolver.go) follows exactly the chains of *)
(* reads that do not come back to a file they went through.                *)
THEOREM EveryChainIsFollowed ==
  ASSUME NEW D, IsFiniteSet(D), NEW reads \in [D -> SUBSET D], NEW includes \in [D -> SUBSET D], NEW file \in D
  PROVE  ConfigIsWhole(file, reads, includes)
<1> DEFINE E == [s \in SUBSET D |-> [f \in D |-> Chained(f, s, reads, includes)]]
           g == CHOOSE h : h = Entries(h, reads, includes)
<1>1. E = Entries(E, reads, includes)
  <2>1. ASSUME NEW s \in SUBSET D, NEW f \in D
        PROVE  Entry(E, f, s, reads, includes) = Chained(f, s, reads, includes)
    <3>1. \A r \in D : E[Entered(s, f)][r] = Chained(r, Entered(s, f), reads, includes)
      <4>1. Entered(s, f) \in SUBSET D
        BY DEF Entered
      <4> QED
        BY <4>1
    <3> HIDE DEF E
    <3> QED
      BY <3>1, EntryIs
  <2>2. DOMAIN reads = D
    OBVIOUS
  <2> QED
    BY <2>1, <2>2, Zenon DEF Entries
<1>2. g = Entries(g, reads, includes)
  <2> HIDE DEF E
  <2> QED
    BY <1>1
<1>3. Config(file, reads, includes) = g[{}][file]
  BY ConfigIs
<1> HIDE DEF g
<1>4. Config(file, reads, includes).chains = ChainsFrom(file, {}, reads, includes)
  <2>1. \A s \in SUBSET D, f \in D : g[s][f] = Entry(g, f, s, reads, includes)
    BY <1>2 DEF Entries
  <2>2. g[{}][file] = Chained(file, {}, reads, includes)
    BY <2>1, EveryEntryIs
  <2> QED
    BY <1>3, <2>2 DEF Chained
<1> DEFINE Whole == {c \in UNION {[1..n -> DOMAIN reads] : n \in 1..Cardinality(DOMAIN reads)} :
                       /\ c[1] = file /\ IsInjective(c)
                       /\ \A i \in 1..(Len(c) - 1) : c[i + 1] \in ReadsOf(c[i], reads, includes)}
<1>5. ASSUME NEW c \in ChainsFrom(file, {}, reads, includes) PROVE c \in Whole
  <2>1. /\ c \in Seq(D) /\ c # <<>> /\ c[1] = file
        /\ \A i, j \in 1..Len(c) : c[i] = c[j] => i = j
        /\ \A i \in 1..(Len(c) - 1) : c[i + 1] \in ReadsOf(c[i], reads, includes)
    BY <1>5 DEF ChainsFrom
  <2>2. Len(c) \in Nat /\ Len(c) # 0 /\ c \in [1..Len(c) -> D] /\ DOMAIN c = 1..Len(c)
    BY <2>1
  <2>3. IsInjective(c)
    BY <2>1, <2>2 DEF IsInjective
  <2>4. Len(c) <= Cardinality(D)
    <3>1. c \in Injection(1..Len(c), D)
      BY <2>2, <2>3 DEF Injection
    <3>2. Cardinality(1..Len(c)) <= Cardinality(D)
      BY <3>1, FS_Injection
    <3>3. Cardinality(1..Len(c)) = Len(c)
      BY <2>2, FS_Interval
    <3> QED
      BY <3>2, <3>3
  <2>5. Cardinality(D) \in Nat /\ DOMAIN reads = D
    BY FS_CardinalityType
  <2>6. Len(c) \in 1..Cardinality(D)
    BY <2>2, <2>4, <2>5
  <2> QED
    BY <2>1, <2>2, <2>3, <2>5, <2>6
<1>6. ASSUME NEW c \in Whole PROVE c \in ChainsFrom(file, {}, reads, includes)
  <2>1. PICK n \in 1..Cardinality(D) : c \in [1..n -> D]
    OBVIOUS
  <2>2. n \in Nat /\ n # 0 /\ c \in Seq(D) /\ Len(c) = n /\ DOMAIN c = 1..n
    BY <2>1, FS_CardinalityType
  <2>3. c # <<>>
    BY <2>2
  <2>4. /\ c[1] = file /\ IsInjective(c)
        /\ \A i \in 1..(Len(c) - 1) : c[i + 1] \in ReadsOf(c[i], reads, includes)
    OBVIOUS
  <2>5. \A i, j \in 1..Len(c) : c[i] = c[j] => i = j
    BY <2>2, <2>4 DEF IsInjective
  <2> HIDE DEF Whole
  <2> QED
    BY <2>2, <2>3, <2>4, <2>5 DEF ChainsFrom
<1>7. ChainsFrom(file, {}, reads, includes) = Whole
  <2> HIDE DEF Whole
  <2> QED
    BY <1>5, <1>6
<1> QED
  BY <1>4, <1>7 DEF ConfigIsWhole

-----------------------------------------------------------------------------
(****************************************************************************)
(* Queries of a telemetry backend                                          *)
(****************************************************************************)
(* What SelectInSeq is of, for the places of a sequence that qualify.      *)
LEMMA LeastIs ==
  ASSUME NEW I, I \subseteq Nat, I # {}
  PROVE  X!Min(I) \in I /\ \A j \in I : X!Min(I) <= j
BY HasLeast, Zenon DEF X!Min

(* ProxyGetRaw gives the reply of a scheme, if there is one.               *)
RawIsReply(b, reply, p, e) ==
  LET raw == X!ProxyGetRaw(b, reply, p, e)
  IN  /\ raw = X!NoReply \/ \E s \in X!ToSet(b.schemes) : raw = reply[<<s, p, e>>]
      /\ raw = X!NoReply => \A s \in X!ToSet(b.schemes) : reply[<<s, p, e>>] = X!NoReply

LEMMA RawReply ==
  ASSUME NEW S, NEW b, b.schemes \in Seq(S), NEW reply, NEW p, NEW e
  PROVE  RawIsReply(b, reply, p, e)
<1> DEFINE n == Len(b.schemes)
           I == {i \in 1..n : reply[<<b.schemes[i], p, e>>] # X!NoReply}
           at == IF I # {} THEN X!Min(I) ELSE 0
<1>1. n \in Nat /\ X!ToSet(b.schemes) = {b.schemes[i] : i \in 1..n}
  BY DEF X!ToSet
<1>2. X!ProxyGetRaw(b, reply, p, e) = IF at = 0 THEN X!NoReply ELSE reply[<<b.schemes[at], p, e>>]
  BY DEF X!ProxyGetRaw, X!SelectInSeq
<1>3. I # {} => at \in I
  <2>1. I \subseteq Nat
    OBVIOUS
  <2> HIDE DEF I
  <2> QED
    BY <2>1, LeastIs, Zenon
<1> HIDE DEF at
<1>4. CASE I = {}
  BY <1>1, <1>2, <1>4, Zenon DEF at, RawIsReply
<1>5. CASE I # {}
  <2>1. at \in 1..n /\ reply[<<b.schemes[at], p, e>>] # X!NoReply
    BY <1>3, <1>5
  <2>2. at # 0 /\ b.schemes[at] \in X!ToSet(b.schemes)
    BY <1>1, <2>1
  <2>3. X!ProxyGetRaw(b, reply, p, e) = reply[<<b.schemes[at], p, e>>]
    BY <1>2, <2>2
  <2> QED
    BY <2>1, <2>2, <2>3 DEF RawIsReply
<1> QED
  BY <1>4, <1>5, Zenon

(* A path is found if one gives an answer of the type.                     *)
LEMMA PathForIs ==
  ASSUME NEW S, NEW b, b.prefixes \in Seq(S), NEW reply, NEW e, NEW type
  PROVE  LET k == X!PathFor(b, reply, e, type)
             Right(p) == X!Decodes(X!ProxyGetRaw(b, reply, p, e), type)
         IN  /\ k # 0 => b.prefixes[k] \in X!ToSet(b.prefixes) /\ Right(b.prefixes[k])
             /\ k = 0 => \A p \in X!ToSet(b.prefixes) : ~Right(p)
<1> DEFINE Right(p) == X!Decodes(X!ProxyGetRaw(b, reply, p, e), type)
           n == Len(b.prefixes)
           I == {i \in 1..n : Right(b.prefixes[i])}
           k == IF I # {} THEN X!Min(I) ELSE 0
<1>1. n \in Nat /\ X!ToSet(b.prefixes) = {b.prefixes[i] : i \in 1..n}
  BY DEF X!ToSet
<1>2. X!PathFor(b, reply, e, type) = k
  BY DEF X!PathFor, X!SelectInSeq
<1>3. I # {} => k \in I
  <2>1. I \subseteq Nat
    OBVIOUS
  <2> HIDE DEF I
  <2> QED
    BY <2>1, LeastIs, Zenon
<1> HIDE DEF Right
<1>4. k # 0 => b.prefixes[k] \in X!ToSet(b.prefixes) /\ Right(b.prefixes[k])
  BY <1>1, <1>3, Zenon
<1>5. k = 0 => \A p \in X!ToSet(b.prefixes) : ~Right(p)
  BY <1>1, <1>3
<1> QED
  BY <1>2, <1>4, <1>5, Zenon DEF Right

(* Whatever a backend replies, over any schemes, paths and expressions:    *)
(* where the schemes agree, a query of telemetry.go gives up only when     *)
(* none of them has a good answer, and else gives an answer to the first   *)
(* expression that has one.                                                *)
THEOREM QueriesFindAnswers ==
  ASSUME NEW S, NEW P, NEW E, NEW b, b.schemes \in Seq(S), b.prefixes \in Seq(P),
         NEW reply, NEW exprs \in Seq(E), NEW type, type # "none"
  PROVE  X!UsableAnswerIsFound(b, reply, exprs, type)
<1> DEFINE schemes == X!ToSet(b.schemes)
           prefixes == X!ToSet(b.prefixes)
           Good(s, p, e) == X!Decodes(reply[<<s, p, e>>], type)
           Usable(e) == \E s \in schemes, p \in prefixes : Good(s, p, e)
           Has(e) == X!PathFor(b, reply, e, type) # 0
           Answer(s, p, e, samples) == Good(s, p, e) /\ reply[<<s, p, e>>].samples = samples
           n == Len(exprs)
           I == {i \in 1..n : Has(exprs[i])}
           at == IF I # {} THEN X!Min(I) ELSE 0
           result == X!QueryFirst(b, reply, exprs, type)
<1> SUFFICES ASSUME \A s \in schemes, t \in schemes, p \in prefixes, e \in X!ToSet(exprs) :
                      X!NoReply \notin {reply[<<s, p, e>>], reply[<<t, p, e>>]} => (Good(s, p, e) <=> Good(t, p, e))
             PROVE  /\ result.ok <=> \E i \in DOMAIN exprs : Usable(exprs[i])
                    /\ result.ok => \E i \in DOMAIN exprs :
                         /\ exprs[i] = result.expression
                         /\ Usable(exprs[i])
                         /\ \A j \in 1..(i - 1) : ~Usable(exprs[j])
                         /\ \E s \in schemes : Answer(s, result.prefix, exprs[i], result.samples)
  BY Zenon DEF X!UsableAnswerIsFound
<1>1. n \in Nat /\ DOMAIN exprs = 1..n /\ X!ToSet(exprs) = {exprs[i] : i \in 1..n}
  BY DEF X!ToSet
<1>2. X!NoReply.type = "none" /\ ~X!Decodes(X!NoReply, type)
  BY DEF X!NoReply, X!Decodes
<1>3. ASSUME NEW e \in X!ToSet(exprs), NEW p \in prefixes
      PROVE  LET raw == X!ProxyGetRaw(b, reply, p, e)
             IN  /\ X!Decodes(raw, type) => \E s \in schemes : Answer(s, p, e, raw.samples)
                 /\ (\E s \in schemes : Good(s, p, e)) => X!Decodes(raw, type)
  <2> DEFINE raw == X!ProxyGetRaw(b, reply, p, e)
  <2>0. b.schemes \in Seq(S)
    OBVIOUS
  <2>1. /\ raw = X!NoReply \/ \E s \in schemes : raw = reply[<<s, p, e>>]
        /\ raw = X!NoReply => \A s \in schemes : reply[<<s, p, e>>] = X!NoReply
    <3>1. RawIsReply(b, reply, p, e)
      BY ONLY <2>0, RawReply
    <3> QED
      BY ONLY <3>1, Zenon DEF RawIsReply
  <2> HIDE DEF raw
  <2>2. X!Decodes(raw, type) => \E s \in schemes : Answer(s, p, e, raw.samples)
    BY <1>2, <2>1, Zenon
  <2>3. ASSUME NEW s \in schemes, Good(s, p, e) PROVE X!Decodes(raw, type)
    <3>1. raw # X!NoReply /\ reply[<<s, p, e>>] # X!NoReply
      BY <1>2, <2>1, <2>3
    <3>2. PICK t \in schemes : raw = reply[<<t, p, e>>]
      BY <2>1, <3>1, Zenon
    <3> QED
      BY <2>3, <3>1, <3>2
  <2> QED
    BY <2>2, <2>3, Zenon DEF raw
<1>4. ASSUME NEW e \in X!ToSet(exprs) PROVE Has(e) <=> Usable(e)
  <2>1. /\ Has(e) => \E p \in prefixes : X!Decodes(X!ProxyGetRaw(b, reply, p, e), type)
        /\ ~Has(e) => \A p \in prefixes : ~X!Decodes(X!ProxyGetRaw(b, reply, p, e), type)
    BY PathForIs
  <2> HIDE DEF Has
  <2> QED
    BY <1>3, <2>1, Zenon
<1>5. ASSUME NEW e \in X!ToSet(exprs), Has(e)
      PROVE  LET found == X!Found(b, reply, e, type)
             IN  /\ found.ok /\ found.expression = e
                 /\ \E s \in schemes : Answer(s, found.prefix, e, found.samples)
  <2> DEFINE k == X!PathFor(b, reply, e, type)
  <2>1. b.prefixes[k] \in prefixes /\ X!Decodes(X!ProxyGetRaw(b, reply, b.prefixes[k], e), type)
    BY <1>5, PathForIs
  <2>2. X!Found(b, reply, e, type) =
          [ok |-> TRUE, expression |-> e, prefix |-> b.prefixes[k],
           samples |-> X!ProxyGetRaw(b, reply, b.prefixes[k], e).samples]
    BY DEF X!Found
  <2> HIDE DEF k, Answer
  <2> QED
    BY <1>3, <2>1, <2>2
<1>6. result = IF at = 0 THEN X!Failed ELSE X!Found(b, reply, exprs[at], type)
  BY DEF X!QueryFirst, X!SelectInSeq
<1>7. I # {} => at \in I /\ \A j \in I : at <= j
  <2>1. I \subseteq Nat
    OBVIOUS
  <2> HIDE DEF I
  <2> QED
    BY <2>1, LeastIs
<1> HIDE DEF Has, Usable, Answer, at, result
<1>8. ~X!Failed.ok
  BY DEF X!Failed
<1>9. CASE I = {}
  <2>1. ~result.ok
    BY <1>6, <1>8, <1>9 DEF at
  <2> QED
    BY <1>1, <1>4, <1>9, <2>1
<1>10. CASE I # {}
  <2>1. at \in 1..n /\ Has(exprs[at]) /\ result = X!Found(b, reply, exprs[at], type)
    BY <1>6, <1>7, <1>10
  <2>2. \A j \in 1..(at - 1) : ~Has(exprs[j])
    BY <1>1, <1>7, <1>10, <2>1
  <2>3. \A j \in 1..n : exprs[j] \in X!ToSet(exprs)
    BY <1>1
  <2>4. \A j \in 1..(at - 1) : j \in 1..n
    BY <1>1, <2>1
  <2>5. /\ result.ok /\ result.expression = exprs[at]
        /\ \E s \in schemes : Answer(s, result.prefix, exprs[at], result.samples)
    BY <1>5, <2>1, <2>3
  <2>6. Usable(exprs[at]) /\ \A j \in 1..(at - 1) : ~Usable(exprs[j])
    BY <1>4, <2>1, <2>2, <2>3, <2>4
  <2> HIDE DEF I
  <2> QED
    BY <2>1, <2>5, <2>6
<1> QED
  BY <1>9, <1>10

-----------------------------------------------------------------------------
(****************************************************************************)
(* Backends of a service                                                   *)
(****************************************************************************)
(* The capability of which the name of a backend is a signal.              *)
SignalOf(w) ==
  IF w = "prometheus" THEN "time_series_metrics" ELSE IF w = "loki" THEN "logs_backend" ELSE "traces_backend"

LEMMA NameIsSignal ==
  ASSUME NEW svc, NEW w \in {"prometheus", "loki", "tempo", "jaeger"}, svc.words = {w}
  PROVE  SignalOf(w) \in X!DetectServiceSignals(svc)
<1> DEFINE rows == {i \in DOMAIN X!ServiceTable : X!ServiceTable[i].words \cap svc.words # {}}
           row == IF w = "prometheus" THEN 2 ELSE IF w = "loki" THEN 3 ELSE 4
<1>1. /\ DOMAIN X!ServiceTable = 1..5
      /\ X!ServiceTable[1].words = {"grafana"}
      /\ X!ServiceTable[2] = [words |-> {"prometheus"}, signal |-> "time_series_metrics"]
      /\ X!ServiceTable[3] = [words |-> {"loki"}, signal |-> "logs_backend"]
      /\ X!ServiceTable[4] = [words |-> {"tempo", "jaeger"}, signal |-> "traces_backend"]
      /\ X!ServiceTable[5].words = {"argocd", "argo-cd", "flux"}
  BY DEF X!ServiceTable, X!Row
<1>2. rows = {row}
  BY <1>1
<1>3. X!Min(rows) = row
  BY <1>2 DEF X!Min
<1>4. X!ServiceTable[row].signal = SignalOf(w)
  BY <1>1 DEF SignalOf
<1>5. X!FirstMatch(X!ServiceTable, LAMBDA r : r.words \cap svc.words # {})
        = IF rows = {} THEN {} ELSE {X!ServiceTable[X!Min(rows)].signal}
  BY DEF X!FirstMatch
<1> HIDE DEF rows, row
<1> QED
  BY <1>2, <1>3, <1>4, <1>5 DEF X!DetectServiceSignals

LEMMA SignalIsDetected ==
  ASSUME NEW c, NEW failing, "services" \notin failing, NEW includeSystem, NEW svc \in c.services,
         X!Included(svc.ns, includeSystem),
         NEW k \in {"time_series_metrics", "logs_backend", "traces_backend"}, k \in X!DetectServiceSignals(svc)
  PROVE  X!Detect(c, failing, includeSystem)[k] = "detected"
<1> DEFINE services == {s \in c.services : X!Included(s.ns, includeSystem)}
           groups == IF "groups" \in failing THEN {} ELSE c.groups
           components == IF "pods" \in failing THEN {} ELSE X!DetectPlatformComponents(c.pods, includeSystem)
           named == UNION {X!DetectServiceSignals(s) : s \in services}
           signals == X!Groups(groups) \cup X!Components(components) \cup X!Services(named)
<1>1. k \in named
  OBVIOUS
<1>2. <<"service", k>> \in signals
  BY <1>1 DEF X!Services
<1>3. X!Detect(c, failing, includeSystem) = X!BuildInventory(signals)
  BY DEF X!Detect
<1> HIDE DEF signals
<1>4. k \in DOMAIN X!DetectedBy /\ <<"service", k>> \in X!DetectedBy[k]
  BY DEF X!DetectedBy, X!Services
<1>5. k \in X!Capabilities /\ X!DetectedBy[k] \cap signals # {}
  BY <1>2, <1>4 DEF X!Capabilities
<1> QED
  BY <1>3, <1>5 DEF X!BuildInventory

LEMMA BackendIsFound ==
  ASSUME NEW svc, NEW p \in svc.ports, NEW w \in {"prometheus", "loki", "tempo", "jaeger"}, svc.words = {w},
         NEW inventory, inventory[SignalOf(w)] = "detected"
  PROVE  \E b \in X!DetectServiceBackends(svc, inventory) : b.ns = svc.ns /\ b.service = svc.name
<1> DEFINE Of(q) == (IF inventory["time_series_metrics"] # "not_confirmed" THEN X!MetricsBackends(svc, q) ELSE {})
                      \cup (IF inventory["logs_backend"] # "not_confirmed" THEN X!LogsBackends(svc, q) ELSE {})
                      \cup (IF inventory["traces_backend"] # "not_confirmed" THEN X!TracesBackends(svc, q) ELSE {})
           Right(b) == b.ns = svc.ns /\ b.service = svc.name
<1>1. X!DetectServiceBackends(svc, inventory) = UNION {Of(q) : q \in svc.ports}
  BY DEF X!DetectServiceBackends
<1>2. \A kind, vendor, prefixes : Right(X!Backend(kind, vendor, svc, p, prefixes))
  BY DEF X!Backend
<1> HIDE DEF Right
<1>3. \E b \in Of(p) : Right(b)
  <2>1. CASE w = "prometheus"
    <3>1. svc.words \cap X!MetricsWords # {} /\ inventory["time_series_metrics"] # "not_confirmed"
      BY <2>1 DEF X!MetricsWords, SignalOf
    <3>2. \E b \in X!MetricsBackends(svc, p) : Right(b)
      BY <3>1, <1>2 DEF X!MetricsBackends
    <3> QED
      BY <3>1, <3>2
  <2>2. CASE w = "loki"
    <3>1. "loki" \in svc.words /\ inventory["logs_backend"] # "not_confirmed"
      BY <2>2 DEF SignalOf
    <3>2. \E b \in X!LogsBackends(svc, p) : Right(b)
      BY <3>1, <1>2 DEF X!LogsBackends
    <3> QED
      BY <3>1, <3>2
  <2>3. CASE w \in {"tempo", "jaeger"}
    <3>1. "tempo" \in svc.words \/ ("tempo" \notin svc.words /\ "jaeger" \in svc.words)
      BY <2>3
    <3>2. inventory["traces_backend"] # "not_confirmed"
      BY <2>3 DEF SignalOf
    <3>3. \E b \in X!TracesBackends(svc, p) : Right(b)
      BY <3>1, <1>2 DEF X!TracesBackends
    <3> QED
      BY <3>2, <3>3
  <2> QED
    BY <2>1, <2>2, <2>3
<1> HIDE DEF Of
<1> QED
  BY <1>1, <1>3 DEF Right

(* For any services, ports, groups and failing calls: a service outside    *)
(* the system namespaces that is named for a backend of metrics, logs or   *)
(* traces is a backend that Discover finds.                                *)
THEOREM NamedBackendsAreDiscovered ==
  \A c, failing, includeSystem : X!NamedBackendIsDiscovered(c, failing, includeSystem)
<1> SUFFICES ASSUME NEW c, NEW failing, NEW includeSystem, "services" \notin failing, NEW svc \in c.services,
                    X!Included(svc.ns, includeSystem), svc.ports # {},
                    NEW w \in {"prometheus", "loki", "tempo", "jaeger"}, svc.words = {w}
             PROVE  \E b \in X!Discover(c.services, X!Detect(c, failing, includeSystem)) :
                      b.ns = svc.ns /\ b.service = svc.name
  BY DEF X!NamedBackendIsDiscovered
<1> DEFINE inventory == X!Detect(c, failing, includeSystem)
<1>1. SignalOf(w) \in {"time_series_metrics", "logs_backend", "traces_backend"}
  BY DEF SignalOf
<1>2. inventory[SignalOf(w)] = "detected"
  BY <1>1, NameIsSignal, SignalIsDetected
<1>3. PICK p \in svc.ports : TRUE
  OBVIOUS
<1> HIDE DEF inventory
<1>4. \E b \in X!DetectServiceBackends(svc, inventory) : b.ns = svc.ns /\ b.service = svc.name
  BY <1>2, <1>3, BackendIsFound
<1>5. X!DetectServiceBackends(svc, inventory) \subseteq X!Discover(c.services, inventory)
  BY DEF X!Discover
<1> QED
  BY <1>4, <1>5 DEF inventory

-----------------------------------------------------------------------------
(***************************************************************************)
(* Sums over finite sets                                                   *)
(***************************************************************************)
Some(s) == CHOOSE x \in s : TRUE
Without(s) == s \ {Some(s)}

LEMMA Smaller ==
  ASSUME NEW S, IsFiniteSet(S), NEW s \in SUBSET S, s # {}
  PROVE  /\ Some(s) \in s /\ Some(s) \in S /\ Without(s) \in SUBSET S
         /\ Cardinality(s) \in Nat /\ Cardinality(Without(s)) \in Nat
         /\ Cardinality(Without(s)) = Cardinality(s) - 1 /\ Cardinality(s) <= Cardinality(S)
<1>1. Some(s) \in s
  BY DEF Some
<1>2. IsFiniteSet(s)
  BY FS_Subset
<1>3. Cardinality(Without(s)) = Cardinality(s) - 1 /\ Cardinality(s) \in Nat
  BY <1>1, <1>2, FS_RemoveElement, FS_CardinalityType DEF Without
<1>4. IsFiniteSet(Without(s)) /\ Cardinality(Without(s)) \in Nat
  BY <1>2, FS_Subset, FS_CardinalityType DEF Without
<1>5. Cardinality(s) <= Cardinality(S)
  BY FS_Subset
<1> QED
  BY <1>1, <1>3, <1>4, <1>5 DEF Without

(* Induction over the subsets of a finite set, for those of a set of sets. *)
LEMMA Subsets ==
  ASSUME NEW S, IsFiniteSet(S), NEW G, {} \in G,
         \A s \in SUBSET S : s # {} /\ Without(s) \in G => s \in G
  PROVE  \A s \in SUBSET S : s \in G
<1> DEFINE bad == {s \in SUBSET S : s \notin G}
           T == {Cardinality(s) : s \in bad}
<1> SUFFICES ASSUME bad # {} PROVE FALSE
  OBVIOUS
<1>1. T \subseteq Nat /\ T # {}
  BY FS_Subset, FS_CardinalityType
<1>2. PICK n \in T : \A m \in T : n <= m
  <2> HIDE DEF T
  <2> QED
    BY <1>1, HasLeast, Zenon
<1>3. PICK s \in bad : Cardinality(s) = n
  BY <1>2
<1>4. s # {}
  BY <1>3
<1>5. /\ Without(s) \in SUBSET S
      /\ Cardinality(s) \in Nat /\ Cardinality(Without(s)) = Cardinality(s) - 1
  BY <1>3, <1>4, Smaller
<1>6. Without(s) \in bad
  BY <1>3, <1>4, <1>5
<1> HIDE DEF bad
<1> QED
  BY <1>2, <1>3, <1>5, <1>6

(* One step of the recursion of MapThenSumSet.                             *)
SumStep(h, f, s) == IF s = {} THEN 0 ELSE f[Some(s)] + h[Without(s)]
IsSum(h, f, S)  == h = [s \in SUBSET S |-> SumStep(h, f, s)]
SumsTo(h, f, S) == \A s \in SUBSET S : h[s] = SumStep(h, f, s)

SumOver(f, S) == (CHOOSE h : SumsTo(h, f, S))[S]

LEMMA SumsAgree ==
  ASSUME NEW S, IsFiniteSet(S), NEW f, NEW h, NEW k, SumsTo(h, f, S), SumsTo(k, f, S)
  PROVE  \A s \in SUBSET S : h[s] = k[s]
<1> DEFINE G == {s \in SUBSET S : h[s] = k[s]}
<1>1. {} \in G
  BY DEF SumsTo, SumStep
<1>2. ASSUME NEW s \in SUBSET S, s # {}, Without(s) \in G PROVE s \in G
  BY <1>2 DEF SumsTo, SumStep
<1> HIDE DEF G
<1>3. \A s \in SUBSET S : s \in G
  BY <1>1, <1>2, Subsets
<1> QED
  BY <1>3 DEF G

LEMMA SumsExist ==
  ASSUME NEW S, IsFiniteSet(S), NEW f
  PROVE  \E h : IsSum(h, f, S) /\ SumsTo(h, f, S)
<1> DEFINE Small(n) == {s \in SUBSET S : Cardinality(s) <= n}
           Upto(h, n) == \A s \in Small(n) : h[s] = SumStep(h, f, s)
           N == Cardinality(S)
           G == {n \in 0..N : \E h : DOMAIN h = SUBSET S /\ Upto(h, n)}
<1>1. N \in Nat
  BY FS_CardinalityType
<1>2. 0 \in G
  <2> DEFINE h == [s \in SUBSET S |-> 0]
  <2>1. ASSUME NEW s \in Small(0) PROVE h[s] = SumStep(h, f, s)
    <3>1. s = {}
      BY FS_Subset, FS_EmptySet, FS_CardinalityType
    <3> QED
      BY <3>1 DEF SumStep
  <2>2. DOMAIN h = SUBSET S
    OBVIOUS
  <2> HIDE DEF h, Small
  <2> QED
    BY <1>1, <2>1, <2>2
<1>3. ASSUME NEW n \in 1..N, n - 1 \in G PROVE n \in G
  <2>1. PICK h : DOMAIN h = SUBSET S /\ Upto(h, n - 1)
    BY <1>3
  <2> DEFINE k == [s \in SUBSET S |-> IF Cardinality(s) <= n - 1 THEN h[s] ELSE SumStep(h, f, s)]
  <2>2. ASSUME NEW s \in Small(n) PROVE k[s] = SumStep(k, f, s)
    <3>1. k[s] = SumStep(h, f, s)
      BY <2>1
    <3>2. CASE s = {}
      BY <3>1, <3>2 DEF SumStep
    <3>3. CASE s # {}
      <4>1. /\ Without(s) \in SUBSET S /\ Cardinality(s) \in Nat /\ Cardinality(Without(s)) = Cardinality(s) - 1
        BY <3>3, Smaller
      <4>2. Cardinality(Without(s)) <= n - 1
        BY <1>1, <4>1
      <4>3. k[Without(s)] = h[Without(s)]
        BY <4>1, <4>2
      <4> QED
        BY <3>1, <3>3, <4>3 DEF SumStep
    <3> QED
      BY <3>2, <3>3
  <2>3. DOMAIN k = SUBSET S
    OBVIOUS
  <2> HIDE DEF k, Small
  <2> QED
    BY <1>1, <2>2, <2>3
<1>4. N \in G
  <2> HIDE DEF G
  <2> QED
    BY <1>1, <1>2, <1>3, UpTo
<1>5. PICK h : DOMAIN h = SUBSET S /\ Upto(h, N)
  BY <1>4
<1>6. ASSUME NEW s \in SUBSET S PROVE s \in Small(N)
  BY FS_Subset
<1> DEFINE k == [s \in SUBSET S |-> SumStep(h, f, s)]
<1>7. ASSUME NEW s \in SUBSET S PROVE k[s] = SumStep(k, f, s)
  <2>1. k[s] = SumStep(h, f, s)
    OBVIOUS
  <2>2. s # {} => Without(s) \in SUBSET S /\ k[Without(s)] = h[Without(s)]
    BY <1>5, <1>6 DEF Without
  <2> QED
    BY <2>1, <2>2 DEF SumStep
<1>8. k = [s \in SUBSET S |-> k[s]]
  OBVIOUS
<1> HIDE DEF k
<1>9. k = [s \in SUBSET S |-> SumStep(k, f, s)]
  BY <1>7, <1>8
<1> QED
  BY <1>7, <1>9 DEF SumsTo, IsSum

LEMMA SumIs ==
  ASSUME NEW S, IsFiniteSet(S), NEW f, NEW h, SumsTo(h, f, S)
  PROVE  SumOver(f, S) = h[S]
<1> DEFINE k == CHOOSE k : SumsTo(k, f, S)
<1>1. SumsTo(k, f, S)
  OBVIOUS
<1>2. SumOver(f, S) = k[S]
  BY DEF SumOver
<1> HIDE DEF k
<1> QED
  BY <1>1, <1>2, SumsAgree

LEMMA SumNat ==
  ASSUME NEW S, IsFiniteSet(S), NEW f, \A x \in S : f[x] \in Nat
  PROVE  SumOver(f, S) \in Nat
<1>1. PICK h : SumsTo(h, f, S)
  BY SumsExist
<1> DEFINE G == {s \in SUBSET S : h[s] \in Nat}
<1>2. {} \in G
  BY <1>1 DEF SumsTo, SumStep
<1>3. ASSUME NEW s \in SUBSET S, s # {}, Without(s) \in G PROVE s \in G
  BY <1>1, <1>3, Smaller DEF SumsTo, SumStep
<1> HIDE DEF G
<1>4. S \in G
  BY <1>2, <1>3, Subsets
<1> QED
  BY <1>1, <1>4, SumIs DEF G

(* A sum of naturals is zero when all of them are.                         *)
LEMMA SumZero ==
  ASSUME NEW S, IsFiniteSet(S), NEW f, \A x \in S : f[x] \in Nat, SumOver(f, S) = 0
  PROVE  \A x \in S : f[x] = 0
<1>1. PICK h : SumsTo(h, f, S)
  BY SumsExist
<1> DEFINE G == {s \in SUBSET S : h[s] \in Nat /\ (h[s] = 0 => \A x \in s : f[x] = 0)}
<1>2. {} \in G
  <2>1. {} \in SUBSET S /\ h[{}] = 0
    BY <1>1, Zenon DEF SumsTo, SumStep
  <2> QED
    BY <2>1
<1>3. ASSUME NEW s \in SUBSET S, s # {}, Without(s) \in G PROVE s \in G
  <2>1. Some(s) \in s /\ f[Some(s)] \in Nat /\ h[s] = f[Some(s)] + h[Without(s)] /\ h[Without(s)] \in Nat
    BY <1>1, <1>3, Smaller DEF SumsTo, SumStep
  <2>2. \A x \in s : x = Some(s) \/ x \in Without(s)
    BY DEF Without
  <2> QED
    BY <1>3, <2>1, <2>2
<1> HIDE DEF G
<1>4. S \in G
  BY <1>2, <1>3, Subsets
<1> QED
  BY <1>1, <1>4, SumIs DEF G

(* What is less everywhere is less in sum.                                 *)
LEMMA SumLess ==
  ASSUME NEW S, IsFiniteSet(S), S # {}, NEW f, NEW g, NEW a \in Nat, NEW b \in Nat,
         \A x \in S : f[x] \in Nat /\ g[x] \in Nat /\ a * f[x] < b * g[x]
  PROVE  a * SumOver(f, S) < b * SumOver(g, S)
<1>1. PICK h : SumsTo(h, f, S)
  BY SumsExist, Zenon
<1>2. PICK k : SumsTo(k, g, S)
  BY SumsExist, Zenon
<1> DEFINE G == {s \in SUBSET S : /\ h[s] \in Nat /\ k[s] \in Nat /\ a * h[s] <= b * k[s]
                                  /\ s # {} => a * h[s] < b * k[s]}
<1>3. {} \in G
  <2>1. {} \in SUBSET S /\ h[{}] = 0 /\ k[{}] = 0
    BY <1>1, <1>2, Zenon DEF SumsTo, SumStep
  <2>2. a * 0 = 0 /\ b * 0 = 0
    OBVIOUS
  <2> QED
    BY <2>1, <2>2
<1>4. ASSUME NEW s \in SUBSET S, s # {}, Without(s) \in G PROVE s \in G
  <2> DEFINE x == f[Some(s)]
             y == g[Some(s)]
             u == h[Without(s)]
             v == k[Without(s)]
  <2>1. x \in Nat /\ y \in Nat /\ a * x < b * y
    BY <1>4, Smaller
  <2>2. h[s] = x + u /\ k[s] = y + v
    BY <1>1, <1>2, <1>4 DEF SumsTo, SumStep
  <2>3. u \in Nat /\ v \in Nat /\ a * u <= b * v
    BY <1>4
  <2> HIDE DEF x, y, u, v
  <2>4. a * (x + u) = a * x + a * u /\ b * (y + v) = b * y + b * v
    BY <2>1, <2>3
  <2>5. a * x \in Nat /\ a * u \in Nat /\ b * y \in Nat /\ b * v \in Nat
    BY <2>1, <2>3
  <2>6. a * h[s] < b * k[s] /\ h[s] \in Nat /\ k[s] \in Nat
    BY <2>1, <2>2, <2>3, <2>4, <2>5
  <2>7. a * h[s] \in Nat /\ b * k[s] \in Nat
    BY <2>2, <2>4, <2>5
  <2> QED
    BY <2>6, <2>7
<1> HIDE DEF G
<1>5. S \in G
  BY <1>3, <1>4, Subsets
<1> QED
  BY <1>1, <1>2, <1>5, SumIs DEF G

-----------------------------------------------------------------------------
(****************************************************************************)
(* Alarms of the workload analyzers                                        *)
(****************************************************************************)
(* The instance has its own copy of the operator.                          *)
LEMMA SameCardinality == ASSUME NEW S PROVE X!Cardinality(S) = Cardinality(S)
BY DEF X!Cardinality, Cardinality

LEMMA TotalIs ==
  ASSUME NEW D, IsFiniteSet(D), NEW f, DOMAIN f = D
  PROVE  X!Total(f) = SumOver(f, D)
<1> DEFINE E(h) == [t \in SUBSET D |-> IF t = {} THEN 0 ELSE f[Some(t)] + h[Without(t)]]
           g == CHOOSE h : h = E(h)
<1>1. X!Total(f) = g[D]
  BY DEF X!Total, X!MapThenSumSet, X!MapThenFoldSet, Some, Without
<1>2. PICK h : IsSum(h, f, D)
  BY SumsExist
<1>3. h = E(h)
  BY <1>2, Zenon DEF SumStep, IsSum
<1>4. g = E(g)
  <2> HIDE DEF E
  <2> QED
    BY <1>3
<1> HIDE DEF g
<1>5. SumsTo(g, f, D)
  BY <1>4 DEF SumsTo, SumStep
<1> QED
  BY <1>1, <1>5, SumIs

LEMMA EndpointsAre ==
  ASSUME NEW c, NEW w, IsFiniteSet(X!ServicesOf(c, w))
  PROVE  X!Profile(c, w).endpoints =
           SumOver([s \in X!ServicesOf(c, w) |-> X!ReadyEndpoints(c, s)], X!ServicesOf(c, w))
<1> DEFINE f == [s \in X!ServicesOf(c, w) |-> X!ReadyEndpoints(c, s)]
<1>1. X!Profile(c, w).endpoints = X!Total(f)
  BY DEF X!Profile, X!NewProfile
<1> QED
  BY <1>1, TotalIs

LEMMA ReadyAre ==
  ASSUME NEW c, NEW s, IsFiniteSet(X!SlicesBehind(c, s))
  PROVE  X!ReadyEndpoints(c, s) =
           SumOver([l \in X!SlicesBehind(c, s) |-> X!ReadyIn(l)], X!SlicesBehind(c, s))
BY TotalIs DEF X!ReadyEndpoints

(* The objects of a cluster that count as endpoints are finitely many.     *)
Finite(c) ==
  /\ IsFiniteSet(c.services) /\ IsFiniteSet(c.slices)
  /\ \A l \in c.slices : IsFiniteSet(DOMAIN l.endpoints)

LEMMA ReadyType ==
  ASSUME NEW c, NEW s, Finite(c)
  PROVE  X!ReadyEndpoints(c, s) \in Nat
<1> DEFINE D == X!SlicesBehind(c, s)
           f == [l \in D |-> X!ReadyIn(l)]
<1>1. IsFiniteSet(D) /\ \A l \in D : l \in c.slices
  BY FS_Subset DEF Finite, X!SlicesBehind, X!Seen
<1>2. SumOver(f, D) = X!ReadyEndpoints(c, s)
  BY <1>1, ReadyAre
<1>3. ASSUME NEW l \in D PROVE f[l] \in Nat
  <2>1. IsFiniteSet(DOMAIN l.endpoints)
    BY <1>1 DEF Finite
  <2> DEFINE R == {e \in DOMAIN l.endpoints : X!IsReady(l.endpoints[e])}
  <2>2. X!ReadyIn(l) = Cardinality(R)
    BY SameCardinality DEF X!ReadyIn
  <2>4. IsFiniteSet(R)
    BY <2>1, FS_Subset
  <2> HIDE DEF R
  <2>3. X!ReadyIn(l) \in Nat
    BY <2>2, <2>4, FS_CardinalityType
  <2> QED
    BY <2>3
<1> HIDE DEF f, D
<1> QED
  BY <1>1, <1>2, <1>3, SumNat

LEMMA ServicesAreFinite ==
  ASSUME NEW c, NEW w, Finite(c)
  PROVE  IsFiniteSet(X!ServicesOf(c, w))
BY FS_Subset DEF Finite, X!ServicesOf, X!Seen

(* An exposed workload without ready endpoints has an exposed service, and *)
(* none of its services has a ready endpoint.                              *)
LEMMA UnservedIs ==
  ASSUME NEW c, NEW w, Finite(c), X!Unserved(c, w)
  PROVE  /\ \E s \in X!ServicesOf(c, w) : X!External(c, s)
         /\ \A s \in X!ServicesOf(c, w) : X!ReadyEndpoints(c, s) = 0
<1> DEFINE D == X!ServicesOf(c, w)
           f == [s \in D |-> X!ReadyEndpoints(c, s)]
<1>1. X!Profile(c, w).external > 0 /\ X!Profile(c, w).endpoints = 0
  BY DEF X!Unserved
<1>2. X!Profile(c, w).external = Cardinality(X!ExternalOf(c, w))
  BY SameCardinality DEF X!Profile, X!NewProfile
<1>3. X!ExternalOf(c, w) # {}
  BY <1>1, <1>2, FS_EmptySet
<1>4. IsFiniteSet(D) /\ SumOver(f, D) = 0
  BY <1>1, ServicesAreFinite, EndpointsAre
<1>5. \A s \in D : f[s] \in Nat
  BY ReadyType
<1> HIDE DEF f, D
<1>6. \A s \in D : f[s] = 0
  BY <1>4, <1>5, SumZero
<1> QED
  BY <1>3, <1>6 DEF f, D, X!ExternalOf

-----------------------------------------------------------------------------
(* What one list of a view is: old, or new with all that are listed later. *)
LEMMA ViewIs ==
  ASSUME NEW old, NEW new, NEW cut \in Int, {"workloads", "services", "ingresses", "slices"} \subseteq DOMAIN old
  PROVE  LET seen == X!ViewOf(X!RiskLists, old, new, cut)
         IN  /\ seen.workloads = IF 1 >= cut THEN new.workloads ELSE old.workloads
             /\ seen.services = IF 2 >= cut THEN new.services ELSE old.services
             /\ seen.ingresses = IF 3 >= cut THEN new.ingresses ELSE old.ingresses
             /\ seen.slices = IF 4 >= cut THEN new.slices ELSE old.slices
<1> DEFINE place == [workloads |-> 1, services |-> 2, ingresses |-> 3, slices |-> 4]
           At(k) == {i \in 1..Len(X!RiskLists) : X!RiskLists[i] = k}
           seen == X!ViewOf(X!RiskLists, old, new, cut)
<1>1. ASSUME NEW k \in DOMAIN place PROVE seen[k] = IF place[k] >= cut THEN new[k] ELSE old[k]
  <2>1. At(k) = {place[k]} /\ place[k] \in Nat
    BY DEF X!RiskLists
  <2>2. X!Min(At(k)) = place[k]
    BY <2>1 DEF X!Min
  <2>3. k \in X!ToSet(X!RiskLists) /\ k \in DOMAIN old
    BY DEF X!ToSet, X!RiskLists
  <2>4. X!SelectInSeq(X!RiskLists, LAMBDA l : l = k) = IF At(k) # {} THEN X!Min(At(k)) ELSE 0
    BY DEF X!SelectInSeq
  <2> HIDE DEF At
  <2>5. X!SelectInSeq(X!RiskLists, LAMBDA l : l = k) = place[k]
    BY <2>1, <2>2, <2>4
  <2> QED
    BY <2>3, <2>5 DEF X!ViewOf
<1> HIDE DEF seen
<1> QED
  BY <1>1 DEF seen

LEMMA ReadyBySlices ==
  ASSUME NEW a, NEW b, NEW s, a.slices = b.slices, Finite(a), Finite(b)
  PROVE  X!ReadyEndpoints(a, s) = X!ReadyEndpoints(b, s)
<1>1. X!SlicesBehind(a, s) = X!SlicesBehind(b, s)
  BY DEF X!SlicesBehind, X!Seen
<1>2. IsFiniteSet(X!SlicesBehind(a, s))
  BY FS_Subset DEF Finite, X!SlicesBehind, X!Seen
<1> QED
  BY <1>1, <1>2, ReadyAre, Zenon

(* More services and ingresses keep a service and its exposure.            *)
LEMMA ExposedByMore ==
  ASSUME NEW a, NEW b, NEW w, NEW s \in X!ServicesOf(a, w), X!External(a, s),
         a.services \subseteq b.services, a.ingresses \subseteq b.ingresses
  PROVE  s \in X!ServicesOf(b, w) /\ X!External(b, s)
<1>1. s \in X!ServicesOf(b, w)
  BY DEF X!ServicesOf, X!Seen
<1>2. X!IngressesOf(a, s) \subseteq X!IngressesOf(b, s)
  BY DEF X!IngressesOf, X!Seen
<1> QED
  BY <1>1, <1>2 DEF X!External

Listed == {"workloads", "services", "ingresses", "slices"}

(* An alarm about an exposed workload that no endpoint is ready for is     *)
(* true of one of its services before or after, wherever between the calls *)
(* of workloadrisk the cluster changes, if nothing but endpoints is lost   *)
(* (workloadrisk.go:67, workloadrisk.go:176).                              *)
THEOREM ExposureAlarms ==
  ASSUME NEW old, NEW new, NEW cut \in Int, Finite(old), Finite(new), Listed \subseteq DOMAIN old
  PROVE  X!ExposureAlarmIsTrue(old, new, cut)
<1> DEFINE seen == X!ViewOf(X!RiskLists, old, new, cut)
           TrueOf(c, w) == \E s \in X!ServicesOf(c, w) : X!External(c, s) /\ X!ReadyEndpoints(c, s) = 0
<1> SUFFICES ASSUME \A k \in {"workloads", "services", "ingresses"} : old[k] \subseteq new[k],
                    NEW w \in seen.workloads, X!Unserved(seen, w)
             PROVE  TrueOf(old, w) \/ TrueOf(new, w)
  BY DEF X!ExposureAlarmIsTrue
<1>1. /\ seen.workloads = IF 1 >= cut THEN new.workloads ELSE old.workloads
      /\ seen.services = IF 2 >= cut THEN new.services ELSE old.services
      /\ seen.ingresses = IF 3 >= cut THEN new.ingresses ELSE old.ingresses
      /\ seen.slices = IF 4 >= cut THEN new.slices ELSE old.slices
  BY ViewIs DEF Listed
<1> HIDE DEF seen
<1>2. Finite(seen)
  BY <1>1 DEF Finite
<1>3. PICK s \in X!ServicesOf(seen, w) : X!External(seen, s)
  BY <1>2, UnservedIs
<1>4. X!ReadyEndpoints(seen, s) = 0
  BY <1>2, UnservedIs
<1>5. CASE 4 >= cut
  <2>1. /\ seen.services \subseteq new.services /\ seen.ingresses \subseteq new.ingresses
        /\ seen.slices = new.slices
    BY <1>1, <1>5
  <2>2. s \in X!ServicesOf(new, w) /\ X!External(new, s)
    BY <1>3, <2>1, ExposedByMore
  <2>3. X!ReadyEndpoints(new, s) = 0
    BY <1>2, <1>4, <2>1, ReadyBySlices
  <2> QED
    BY <2>2, <2>3
<1>6. CASE 4 < cut
  <2>1. seen.services = old.services /\ seen.ingresses = old.ingresses /\ seen.slices = old.slices
    BY <1>1, <1>6
  <2>2. s \in X!ServicesOf(old, w) /\ X!External(old, s)
    BY <1>3, <2>1, ExposedByMore
  <2>3. X!ReadyEndpoints(old, s) = 0
    BY <1>2, <1>4, <2>1, ReadyBySlices
  <2> QED
    BY <2>2, <2>3
<1> QED
  BY <1>5, <1>6

-----------------------------------------------------------------------------
(* The metrics of a cluster, with usage and requests in natural numbers.   *)
Metered(c) ==
  /\ IsFiniteSet(c.metrics)
  /\ \A m \in c.metrics : m.cpu \in Nat /\ m.mem \in Nat
  /\ \A p \in c.pods : p.request.cpu \in Nat /\ p.request.mem \in Nat

LEMMA MetricsType ==
  ASSUME NEW c, Metered(c), NEW key
  PROVE  /\ IsFiniteSet(X!MetricsOf(c, key))
         /\ \A m \in X!MetricsOf(c, key) :
              /\ m.cpu \in Nat /\ m.mem \in Nat
              /\ X!PodOf(c, m).request.cpu \in Nat /\ X!PodOf(c, m).request.mem \in Nat
<1>1. X!MetricsOf(c, key) \subseteq c.metrics
  BY DEF X!MetricsOf, X!Measured, X!Seen
<1>2. ASSUME NEW m \in X!MetricsOf(c, key) PROVE X!PodOf(c, m) \in c.pods
  BY DEF X!MetricsOf, X!Measured, X!Seen, X!PodOf
<1> QED
  BY <1>1, <1>2, FS_Subset DEF Metered

LEMMA UsageIs ==
  ASSUME NEW c, NEW key, IsFiniteSet(X!MetricsOf(c, key))
  PROVE  LET ms == X!MetricsOf(c, key)
             u  == X!UsageOf(c, key)
         IN  /\ u.cpu = SumOver([m \in ms |-> m.cpu], ms)
             /\ u.mem = SumOver([m \in ms |-> m.mem], ms)
             /\ u.cpuRequest = SumOver([m \in ms |-> X!PodOf(c, m).request.cpu], ms)
             /\ u.memRequest = SumOver([m \in ms |-> X!PodOf(c, m).request.mem], ms)
BY TotalIs DEF X!UsageOf

(* What a score of the use of resources says of the ratios.                *)
LEMMA ScoreSays ==
  ASSUME NEW u, u.cpu \in Nat, u.mem \in Nat, u.cpuRequest \in Nat \ {0}, u.memRequest \in Nat \ {0},
         X!ScoreRuntime(u) > 0
  PROVE  100 * u.cpu >= 90 * u.cpuRequest \/ 100 * u.mem >= 85 * u.memRequest
BY DEF X!ScoreRuntime, X!If

(* Where all pods have requests, a workload that runs hot has a pod that   *)
(* does: the ratio of sums is below the threshold if all of the ratios are *)
(* (runtimemetrics.go:93, runtimemetrics.go:321).                          *)
THEOREM HotWorkloads ==
  ASSUME NEW c, Metered(c)
  PROVE  X!HotWorkloadHasHotPod(c)
<1> SUFFICES ASSUME NEW k \in DOMAIN X!RuntimeScores(c), X!RuntimeScores(c)[k] > 0,
                    \A m \in X!MetricsOf(c, k) : X!PodOf(c, m).request.cpu > 0 /\ X!PodOf(c, m).request.mem > 0,
                    \A m \in X!MetricsOf(c, k) : /\ ~ (100 * m.cpu >= 90 * X!PodOf(c, m).request.cpu)
                                                 /\ ~ (100 * m.mem >= 85 * X!PodOf(c, m).request.mem)
             PROVE  FALSE
  BY DEF X!HotWorkloadHasHotPod
<1> DEFINE ms  == X!MetricsOf(c, k)
           u   == X!UsageOf(c, k)
           cpu == [m \in ms |-> m.cpu]
           mem == [m \in ms |-> m.mem]
           cpuRequest == [m \in ms |-> X!PodOf(c, m).request.cpu]
           memRequest == [m \in ms |-> X!PodOf(c, m).request.mem]
<1>1. ms # {}
  BY DEF X!RuntimeScores, X!MetricsOf
<1>2. X!ScoreRuntime(u) > 0
  BY DEF X!RuntimeScores
<1>3. IsFiniteSet(ms) /\ \A m \in ms : /\ cpu[m] \in Nat /\ cpuRequest[m] \in Nat
                                       /\ mem[m] \in Nat /\ memRequest[m] \in Nat
  BY MetricsType
<1>4. \A m \in ms : 100 * cpu[m] < 90 * cpuRequest[m] /\ 100 * mem[m] < 85 * memRequest[m]
  BY MetricsType
<1>5. /\ u.cpu = SumOver(cpu, ms) /\ u.cpuRequest = SumOver(cpuRequest, ms)
      /\ u.mem = SumOver(mem, ms) /\ u.memRequest = SumOver(memRequest, ms)
  BY <1>3, UsageIs, Zenon
<1> HIDE DEF ms, u, cpu, mem, cpuRequest, memRequest
<1>6. /\ u.cpu \in Nat /\ u.cpuRequest \in Nat /\ u.mem \in Nat /\ u.memRequest \in Nat
  BY <1>3, <1>5, SumNat
<1>7. 100 * u.cpu < 90 * u.cpuRequest
  BY <1>1, <1>3, <1>4, <1>5, SumLess
<1>8. 100 * u.mem < 85 * u.memRequest
  BY <1>1, <1>3, <1>4, <1>5, SumLess
<1> QED
  BY <1>2, <1>6, <1>7, <1>8, ScoreSays

LEMMA PairIsFinite == ASSUME NEW a, NEW b PROVE IsFiniteSet({a, b})
<1>1. IsFiniteSet({a}) /\ IsFiniteSet({b}) /\ {a, b} = {a} \cup {b}
  BY FS_Singleton, Zenon
<1> QED
  BY <1>1, FS_Union, Zenon

-----------------------------------------------------------------------------
(****************************************************************************)
(* Queries that are lost                                                   *)
(****************************************************************************)
LEMMA GreatestIs ==
  ASSUME NEW n \in Nat, NEW I, I \subseteq 0..n, I # {}
  PROVE  X!Max(I) \in I /\ \A j \in I : j <= X!Max(I)
<1>1. \E x \in I : \A y \in I : y <= x
  BY HasGreatest, Zenon
<1> QED
  BY <1>1, Zenon DEF X!Max

(* Levels that metrics may have, of each query.                            *)
Levels == [restarts |-> 3, cpu |-> 2, memory |-> 2, throttle |-> 2, oom |-> 1]

Levelled(t) == \A q \in X!Queries : t[q] \in 0..Levels[q]

LEMMA LevelsAre ==
  /\ X!Queries = DOMAIN Levels
  /\ \A q \in X!Queries : Levels[q] \in Nat
BY DEF X!Queries, Levels

(* Four parts of a score add up to one, and larger parts to a larger one.  *)
LEMMA InRange ==
  ASSUME NEW m \in 0..84, NEW s \in 0..44, NEW l \in 0..15, NEW d \in 0..20
  PROVE  m + s + l + d \in 0..200
OBVIOUS

LEMMA InOrder ==
  ASSUME NEW m \in 0..84, NEW n \in 0..84, NEW l \in 0..15, NEW k \in 0..15,
         NEW s \in 0..44, NEW d \in 0..20, n <= m, k <= l
  PROVE  n + s + k + d <= m + s + l + d
OBVIOUS

LEMMA LoadRaisesScore ==
  ASSUME NEW p, NEW t, NEW u, Levelled(t), Levelled(u), \A q \in X!Queries : u[q] <= t[q]
  PROVE  /\ X!ScoreTrend(t, p) \in 0..200 /\ X!ScoreTrend(u, p) \in 0..200
         /\ X!ScoreTrend(u, p) <= X!ScoreTrend(t, p)
<1> DEFINE Metrics(r) == (CASE r.restarts = 3 -> 20 [] r.restarts = 2 -> 8 [] OTHER -> 0)
                           + (CASE r.cpu = 2 -> 15 [] r.cpu = 1 -> 8 [] OTHER -> 0)
                           + (CASE r.memory = 2 -> 15 [] r.memory = 1 -> 8 [] OTHER -> 0)
                           + (CASE r.throttle = 2 -> 14 [] r.throttle = 1 -> 6 [] OTHER -> 0)
                           + X!If(r.oom = 1, 20)
           Shape == X!If(p.services > 0 /\ p.desired = 1, 8) + X!If(p.external > 0 /\ p.desired = 1, 12)
                      + X!If(p.external > 0 /\ ~p.hpa, 8)
                      + X!If(p.services > 0 /\ p.desired > 1 /\ ~p.pdb, 6)
                      + X!If(p.missingReadiness > 0, 6) + X!If(p.missingLiveness > 0, 4)
           Lonely(r) == X!If(r.restarts > 0 /\ p.external > 0 /\ p.desired = 1, 15)
           Dark == X!If(p.external > 0 /\ p.endpoints = 0, 20)
<1>1. /\ t.restarts \in 0..3 /\ t.cpu \in 0..2 /\ t.memory \in 0..2 /\ t.throttle \in 0..2 /\ t.oom \in 0..1
      /\ u.restarts \in 0..3 /\ u.cpu \in 0..2 /\ u.memory \in 0..2 /\ u.throttle \in 0..2 /\ u.oom \in 0..1
      /\ u.restarts <= t.restarts /\ u.cpu <= t.cpu /\ u.memory <= t.memory /\ u.throttle <= t.throttle
      /\ u.oom <= t.oom
  BY DEF Levelled, Levels, X!Queries
<1>2. Metrics(t) \in 0..84 /\ Metrics(u) \in 0..84 /\ Metrics(u) <= Metrics(t)
  BY <1>1 DEF X!If
<1>3. Shape \in 0..44 /\ Dark \in 0..20
  BY DEF X!If
<1>4. Lonely(t) \in 0..15 /\ Lonely(u) \in 0..15 /\ Lonely(u) <= Lonely(t)
  BY <1>1 DEF X!If
<1>5. X!ScoreTrend(t, p) = Metrics(t) + Shape + Lonely(t) + Dark
  BY <1>1 DEF X!ScoreTrend, X!If
<1>6. X!ScoreTrend(u, p) = Metrics(u) + Shape + Lonely(u) + Dark
  BY <1>1 DEF X!ScoreTrend, X!If
<1> HIDE DEF Metrics, Shape, Lonely, Dark
<1>7. PICK mt \in 0..84, mu \in 0..84 : mu <= mt /\ mt = Metrics(t) /\ mu = Metrics(u)
  BY <1>2
<1>8. PICK lt \in 0..15, lu \in 0..15 : lu <= lt /\ lt = Lonely(t) /\ lu = Lonely(u)
  BY <1>4
<1>9. PICK sh \in 0..44, dk \in 0..20 : sh = Shape /\ dk = Dark
  BY <1>3
<1>10. X!ScoreTrend(t, p) = mt + sh + lt + dk
  BY <1>5, <1>7, <1>8, <1>9
<1>11. X!ScoreTrend(u, p) = mu + sh + lu + dk
  BY <1>6, <1>7, <1>8, <1>9
<1>12. X!ScoreTrend(t, p) \in 0..200 /\ X!ScoreTrend(u, p) \in 0..200
  <2>1. mt + sh + lt + dk \in 0..200
    BY ONLY mt \in 0..84, sh \in 0..44, lt \in 0..15, dk \in 0..20, InRange, Zenon
  <2>2. mu + sh + lu + dk \in 0..200
    BY ONLY mu \in 0..84, sh \in 0..44, lu \in 0..15, dk \in 0..20, InRange, Zenon
  <2> QED
    BY ONLY <1>10, <1>11, <2>1, <2>2
<1>13. mu + sh + lu + dk <= mt + sh + lt + dk
  BY <1>7, <1>8, InOrder
<1> QED
  BY <1>10, <1>11, <1>12, <1>13

(* Answers to the queries: a failure, or samples with values in levels.    *)
Answered(answers) ==
  \A q \in X!Queries :
    /\ answers[q].ok \in BOOLEAN
    /\ answers[q].ok => \A s \in answers[q].samples : s.values \subseteq 0..Levels[q]

(* The answers that are left when some are lost.                           *)
Left(answers, lost) == [q \in X!Queries |-> IF q \in lost THEN X!Failed ELSE answers[q]]

LEMMA SamplesAre ==
  ASSUME NEW answers, Answered(answers), NEW lost, NEW q \in X!Queries
  PROVE  /\ X!SamplesOf(Left(answers, lost), q) = IF q \in lost THEN {} ELSE X!SamplesOf(answers, q)
         /\ \A s \in X!SamplesOf(answers, q) : s.values \subseteq 0..Levels[q]
BY DEF X!SamplesOf, Left, X!Failed, Answered

LEMMA PeakIs ==
  ASSUME NEW n \in Nat, NEW a, NEW b, a \subseteq b, \A s \in b : s.values \subseteq 0..n
  PROVE  X!Peak(a) \in 0..n /\ X!Peak(b) \in 0..n /\ X!Peak(a) <= X!Peak(b)
<1> DEFINE A == {0} \cup UNION {s.values : s \in a}
           B == {0} \cup UNION {s.values : s \in b}
<1>1. A \subseteq B /\ B \subseteq 0..n /\ A # {} /\ B # {} /\ A \subseteq 0..n
  OBVIOUS
<1>2. X!Peak(a) = X!Max(A) /\ X!Peak(b) = X!Max(B)
  BY DEF X!Peak
<1> HIDE DEF A, B
<1>3. X!Max(A) \in A /\ X!Max(B) \in B /\ \A j \in B : j <= X!Max(B)
  BY <1>1, GreatestIs, Zenon
<1> QED
  BY <1>1, <1>2, <1>3, Zenon

TrendKeys(c, answers) ==
  UNION {{X!WorkloadForMetric(c, s.metric) : s \in X!SamplesOf(answers, q)} : q \in X!Queries}

(* Fewer answers lower what is known of each workload.                     *)
LEMMA LossLowersTrend ==
  ASSUME NEW c, NEW answers, Answered(answers), NEW lost, NEW key
  PROVE  /\ Levelled(X!TrendOf(c, answers, key)) /\ Levelled(X!TrendOf(c, Left(answers, lost), key))
         /\ \A q \in X!Queries : X!TrendOf(c, Left(answers, lost), key)[q] <= X!TrendOf(c, answers, key)[q]
<1> DEFINE Of(ans, q) == {s \in X!SamplesOf(ans, q) : X!WorkloadForMetric(c, s.metric) = key}
<1>1. ASSUME NEW q \in X!Queries
      PROVE  /\ X!TrendOf(c, answers, key)[q] \in 0..Levels[q] /\ X!TrendOf(c, Left(answers, lost), key)[q] \in 0..Levels[q]
             /\ X!TrendOf(c, Left(answers, lost), key)[q] <= X!TrendOf(c, answers, key)[q]
  <2>1. /\ X!TrendOf(c, answers, key)[q] = X!Peak(Of(answers, q))
        /\ X!TrendOf(c, Left(answers, lost), key)[q] = X!Peak(Of(Left(answers, lost), q))
    BY DEF X!TrendOf
  <2>2. /\ Of(Left(answers, lost), q) \subseteq Of(answers, q)
        /\ \A s \in Of(answers, q) : s.values \subseteq 0..Levels[q]
    BY SamplesAre
  <2>3. Levels[q] \in Nat
    BY LevelsAre
  <2> HIDE DEF Of
  <2> QED
    BY <2>1, <2>2, <2>3, PeakIs
<1> QED
  BY <1>1 DEF Levelled

LEMMA LossLowersScores ==
  ASSUME NEW c, NEW answers, Answered(answers), NEW lost
  PROVE  LET full == X!TrendScores(c, answers)
             less == X!TrendScores(c, Left(answers, lost))
         IN  /\ DOMAIN less \subseteq DOMAIN full
             /\ \A k \in DOMAIN full : full[k] \in 0..200
             /\ \A k \in DOMAIN less : less[k] \in 0..200 /\ less[k] <= full[k]
<1> DEFINE full == X!TrendScores(c, answers)
           less == X!TrendScores(c, Left(answers, lost))
<1>1. DOMAIN full = TrendKeys(c, answers) /\ DOMAIN less = TrendKeys(c, Left(answers, lost))
  BY DEF X!TrendScores, TrendKeys
<1>2. TrendKeys(c, Left(answers, lost)) \subseteq TrendKeys(c, answers)
  BY SamplesAre DEF TrendKeys
<1>3. ASSUME NEW k \in DOMAIN full
      PROVE  /\ full[k] = X!ScoreTrend(X!TrendOf(c, answers, k), X!ProfileOfKey(c, k))
             /\ full[k] \in 0..200
  <2>1. full[k] = X!ScoreTrend(X!TrendOf(c, answers, k), X!ProfileOfKey(c, k))
    BY DEF X!TrendScores
  <2> QED
    BY <2>1, LossLowersTrend, LoadRaisesScore
<1>4. ASSUME NEW k \in DOMAIN less PROVE less[k] \in 0..200 /\ less[k] <= full[k]
  <2>1. less[k] = X!ScoreTrend(X!TrendOf(c, Left(answers, lost), k), X!ProfileOfKey(c, k))
    BY DEF X!TrendScores
  <2>2. full[k] = X!ScoreTrend(X!TrendOf(c, answers, k), X!ProfileOfKey(c, k))
    BY <1>1, <1>2, <1>3
  <2>3. /\ Levelled(X!TrendOf(c, answers, k)) /\ Levelled(X!TrendOf(c, Left(answers, lost), k))
        /\ \A q \in X!Queries : X!TrendOf(c, Left(answers, lost), k)[q] <= X!TrendOf(c, answers, k)[q]
    BY LossLowersTrend
  <2>4. X!ScoreTrend(X!TrendOf(c, Left(answers, lost), k), X!ProfileOfKey(c, k)) \in 0..200
        /\ X!ScoreTrend(X!TrendOf(c, Left(answers, lost), k), X!ProfileOfKey(c, k))
             <= X!ScoreTrend(X!TrendOf(c, answers, k), X!ProfileOfKey(c, k))
    BY <2>3, LoadRaisesScore
  <2> QED
    BY <2>1, <2>2, <2>4
<1> HIDE DEF full, less
<1> QED
  BY <1>1, <1>2, <1>3, <1>4 DEF full, less

(* The worst of the scores above zero.                                     *)
WorstOf(scores) == X!Worst({scores[k] : k \in {k \in DOMAIN scores : scores[k] > 0}})

LEMMA WorstIsMonotone ==
  ASSUME NEW less, NEW full, DOMAIN less \subseteq DOMAIN full,
         \A k \in DOMAIN full : full[k] \in 0..200,
         \A k \in DOMAIN less : less[k] \in 0..200 /\ less[k] <= full[k]
  PROVE  WorstOf(less) \in 0..200 /\ WorstOf(full) \in 0..200 /\ WorstOf(less) <= WorstOf(full)
<1> DEFINE A == {0} \cup {less[k] : k \in {k \in DOMAIN less : less[k] > 0}}
           B == {0} \cup {full[k] : k \in {k \in DOMAIN full : full[k] > 0}}
<1>1. A \subseteq 0..200 /\ B \subseteq 0..200 /\ A # {} /\ B # {}
  OBVIOUS
<1>2. ASSUME NEW x \in A PROVE \E y \in B : x <= y
  OBVIOUS
<1>3. WorstOf(less) = X!Max(A) /\ WorstOf(full) = X!Max(B)
  BY DEF WorstOf, X!Worst
<1> HIDE DEF A, B
<1>4. X!Max(A) \in A /\ X!Max(B) \in B /\ \A j \in B : j <= X!Max(B)
  BY <1>1, GreatestIs, Zenon
<1>5. PICK y \in B : X!Max(A) <= y
  BY <1>2, <1>4
<1>6. X!Max(A) \in 0..200 /\ X!Max(B) \in 0..200 /\ y \in 0..200 /\ y <= X!Max(B)
  BY <1>1, <1>4, Zenon
<1> QED
  BY <1>3, <1>5, <1>6

LEMMA RanksAre ==
  /\ X!SeverityRank("critical") = 0 /\ X!SeverityRank("high") = 1 /\ X!SeverityRank("medium") = 2
  /\ X!SeverityRank("low") = 3 /\ X!SeverityRank("info") = 4
<1> DEFINE At(s) == {i \in 1..Len(X!Severities) : X!Severities[i] = s}
           rank == [critical |-> 0, high |-> 1, medium |-> 2, low |-> 3, info |-> 4]
<1>1. ASSUME NEW s \in DOMAIN rank PROVE X!SeverityRank(s) = rank[s]
  <2>1. At(s) = {rank[s] + 1} /\ rank[s] \in Nat
    BY DEF X!Severities
  <2>2. X!Min(At(s)) = rank[s] + 1
    BY <2>1 DEF X!Min
  <2>3. X!SelectInSeq(X!Severities, LAMBDA x : x = s) = IF At(s) # {} THEN X!Min(At(s)) ELSE 0
    BY DEF X!SelectInSeq
  <2> HIDE DEF At
  <2>4. X!SelectInSeq(X!Severities, LAMBDA x : x = s) = rank[s] + 1
    BY <2>1, <2>2, <2>3
  <2> QED
    BY <2>1, <2>4 DEF X!SeverityRank
<1> QED
  BY <1>1

(* The worst severity that a result of pressure has.                       *)
WorstFound(r) == IF r.findings = <<>> THEN "info" ELSE r.findings[1].severity

LEMMA PressureSays ==
  ASSUME NEW scores, NEW usable, WorstOf(scores) \in 0..200
  PROVE  LET r == X!PressureOf(scores, usable)
         IN  /\ X!SeverityRank(WorstFound(r)) = IF WorstOf(scores) < 20 THEN 4
                                                ELSE IF WorstOf(scores) >= 55 THEN 1 ELSE 2
             /\ r.unknowns = Cardinality({"restarts", "cpu", "memory"} \ usable)
<1> DEFINE r == X!PressureOf(scores, usable)
           w == WorstOf(scores)
<1>1. r.findings = IF w < 20 THEN <<>>
                   ELSE <<X!Finding(X!TrendSeverity(w), "workloads/time-series-correlation", FALSE)>>
  BY DEF X!PressureOf, X!Result, WorstOf
<1>2. r.unknowns = Cardinality({"restarts", "cpu", "memory"} \ usable)
  BY SameCardinality DEF X!PressureOf, X!Result
<1> HIDE DEF r, w
<1>3. WorstFound(r) = IF w < 20 THEN "info" ELSE X!TrendSeverity(w)
  BY <1>1 DEF WorstFound, X!Finding
<1>4. X!TrendSeverity(w) = IF w >= 55 THEN "high" ELSE "medium"
  BY DEF X!TrendSeverity
<1>5. w \in 0..200
  BY DEF w
<1>6. X!SeverityRank(WorstFound(r)) = IF w < 20 THEN 4 ELSE IF w >= 55 THEN 1 ELSE 2
  BY <1>3, <1>4, <1>5, RanksAre
<1> QED
  BY <1>2, <1>6 DEF r, w

LEMMA UnknownsAdd ==
  ASSUME NEW T, IsFiniteSet(T), NEW ok, NEW lost
  PROVE  Cardinality(T \ (ok \ lost)) = Cardinality(T \ ok) + Cardinality((T \cap lost) \cap ok)
<1> DEFINE A == T \ ok
           B == (T \cap lost) \cap ok
<1>1. IsFiniteSet(A) /\ IsFiniteSet(B)
  BY FS_Subset
<1>2. T \ (ok \ lost) = A \cup B /\ A \cap B = {}
  OBVIOUS
<1>3. Cardinality({}) = 0
  BY FS_EmptySet
<1>4. Cardinality(A) \in Nat /\ Cardinality(B) \in Nat
  BY <1>1, FS_CardinalityType
<1> HIDE DEF A, B
<1>5. Cardinality(A \cup B) = Cardinality(A) + Cardinality(B) - Cardinality(A \cap B)
  BY <1>1, FS_Union
<1>6. Cardinality(T \ (ok \ lost)) = Cardinality(A \cup B) /\ Cardinality(A \cap B) = 0
  BY <1>2, <1>3, Zenon
<1>7. Cardinality(T \ (ok \ lost)) = Cardinality(A) + Cardinality(B)
  BY <1>4, <1>5, <1>6
<1> QED
  BY <1>7 DEF A, B

(* Answers that are lost only hide: no finding appears and none becomes    *)
(* worse, and each loss that the analyzer speaks of is one more unknown    *)
(* (timeseriespressure.go:103).                                            *)
THEOREM LostQueries ==
  ASSUME NEW c, NEW answers, Answered(answers), NEW lost
  PROVE  X!LostQueriesOnlyHide(c, answers, lost)
<1> DEFINE ok == {q \in X!Queries : answers[q].ok}
           full == X!TrendScores(c, answers)
           less == X!TrendScores(c, Left(answers, lost))
           T == {"restarts", "cpu", "memory"}
           Full == X!Pressure(c, answers)
           Less == X!Pressure(c, Left(answers, lost))
<1>1. {q \in X!Queries : Left(answers, lost)[q].ok} = ok \ lost
  BY DEF Left, X!Failed, Answered
<1>2. Full = X!PressureOf(full, ok) /\ Less = X!PressureOf(less, ok \ lost)
  BY <1>1, Zenon DEF X!Pressure
<1>3. /\ DOMAIN less \subseteq DOMAIN full
      /\ \A k \in DOMAIN full : full[k] \in 0..200
      /\ \A k \in DOMAIN less : less[k] \in 0..200 /\ less[k] <= full[k]
  BY LossLowersScores, Zenon
<1> DEFINE lost3 == {q \in lost \cap T : answers[q].ok}
<1>4. lost3 = (T \cap lost) \cap ok
  BY DEF X!Queries
<1>5. X!LostQueriesOnlyHide(c, answers, lost) <=>
        /\ X!SeverityRank(WorstFound(Less)) >= X!SeverityRank(WorstFound(Full))
        /\ Less.unknowns = Full.unknowns + Cardinality(lost3)
  BY SameCardinality DEF X!LostQueriesOnlyHide, WorstFound, Left
<1> HIDE DEF full, less, Full, Less, ok, lost3
<1>6. WorstOf(less) \in 0..200 /\ WorstOf(full) \in 0..200 /\ WorstOf(less) <= WorstOf(full)
  BY <1>3, WorstIsMonotone
<1>7. /\ X!SeverityRank(WorstFound(Full)) = IF WorstOf(full) < 20 THEN 4 ELSE IF WorstOf(full) >= 55 THEN 1 ELSE 2
      /\ Full.unknowns = Cardinality(T \ ok)
  BY <1>2, <1>6, PressureSays
<1>8. /\ X!SeverityRank(WorstFound(Less)) = IF WorstOf(less) < 20 THEN 4 ELSE IF WorstOf(less) >= 55 THEN 1 ELSE 2
      /\ Less.unknowns = Cardinality(T \ (ok \ lost))
  BY <1>2, <1>6, PressureSays
<1>9. IsFiniteSet(T)
  <2>1. T = {"restarts", "cpu"} \cup {"memory"}
    OBVIOUS
  <2>2. IsFiniteSet({"restarts", "cpu"}) /\ IsFiniteSet({"memory"})
    BY PairIsFinite, FS_Singleton, Zenon
  <2> HIDE DEF T
  <2> QED
    BY <2>1, <2>2, FS_Union, Zenon
<1>10. Less.unknowns = Full.unknowns + Cardinality(lost3)
  <2> HIDE DEF T
  <2>1. Cardinality(T \ (ok \ lost)) = Cardinality(T \ ok) + Cardinality((T \cap lost) \cap ok)
    BY ONLY <1>9, UnknownsAdd, Zenon
  <2> QED
    BY <1>4, <1>7, <1>8, <2>1
<1>11. X!SeverityRank(WorstFound(Less)) >= X!SeverityRank(WorstFound(Full))
  BY <1>6, <1>7, <1>8
<1> QED
  BY <1>5, <1>10, <1>11

-----------------------------------------------------------------------------
(****************************************************************************)
(* Containers that crash                                                   *)
(****************************************************************************)
LEMMA SameCardinalityThere == ASSUME NEW S PROVE X!Everywhere!Cardinality(S) = Cardinality(S)
BY DEF X!Everywhere!Cardinality, Cardinality

LEMMA ReportedIs ==
  ASSUME NEW top, NEW c \in top, X!Everywhere!Crashes(c), c.status.restarts >= 5
  PROVE  [severity |-> "medium", scope |-> "cluster/pods", unconfirmed |-> FALSE]
           \in X!Everywhere!ToSet(X!Everywhere!RestartFinding(top))
<1>1. X!Everywhere!RestartFinding(top) = <<X!Everywhere!Finding("medium", "cluster/pods", FALSE)>>
  BY Zenon DEF X!Everywhere!RestartFinding, X!Everywhere!Churns
<1>2. /\ 1 \in DOMAIN X!Everywhere!RestartFinding(top)
      /\ X!Everywhere!RestartFinding(top)[1] = [severity |-> "medium", scope |-> "cluster/pods", unconfirmed |-> FALSE]
  BY <1>1 DEF X!Everywhere!Finding
<1> QED
  BY <1>2 DEF X!Everywhere!ToSet

(* Finitely many containers, each with a place and a number of restarts.   *)
Listing(cs) ==
  IsFiniteSet(cs) /\ \A c \in cs : c.status.restarts \in Nat /\ c.place[1] \in Nat /\ c.place[2] \in Nat

LEMMA OneMore ==
  ASSUME NEW B, IsFiniteSet(B), NEW A, A \subseteq B, NEW c \in B, c \notin A
  PROVE  Cardinality(A) \in Nat /\ Cardinality(B) \in Nat /\ Cardinality(B) >= Cardinality(A) + 1
<1>1. IsFiniteSet(A) /\ Cardinality(A) \in Nat /\ Cardinality(B) \in Nat
  BY FS_Subset, FS_CardinalityType
<1>2. IsFiniteSet(A \cup {c}) /\ Cardinality(A \cup {c}) = Cardinality(A) + 1
  BY <1>1, FS_AddElement
<1>3. A \cup {c} \subseteq B
  OBVIOUS
<1>4. Cardinality(A \cup {c}) <= Cardinality(B)
  BY <1>3, FS_Subset
<1> QED
  BY <1>1, <1>2, <1>4

LEMMA RestsAhead ==
  ASSUME NEW cs, Listing(cs), NEW c \in cs, X!Everywhere!Restarted(c), c \notin X!Everywhere!TopRestarts(cs)
  PROVE  Cardinality({d \in cs : X!Everywhere!Restarted(d) /\ d.status.restarts >= c.status.restarts}) > MaxSamples
<1> DEFINE all == {d \in cs : X!Everywhere!Restarted(d)}
           Sooner(a, b) == \/ a.status.restarts > b.status.restarts
                           \/ a.status.restarts = b.status.restarts /\ X!Everywhere!Earlier(a.place, b.place)
           A == {d \in all : Sooner(d, c)}
           B == {d \in cs : X!Everywhere!Restarted(d) /\ d.status.restarts >= c.status.restarts}
<1>1. ~(Cardinality(A) < MaxSamples)
  BY SameCardinalityThere DEF X!Everywhere!TopRestarts
<1>2. A \subseteq B /\ c \in B /\ c \notin A
  BY DEF Listing, X!Everywhere!Earlier
<1>3. IsFiniteSet(B)
  BY FS_Subset DEF Listing
<1> HIDE DEF A
<1>4. Cardinality(A) \in Nat /\ Cardinality(B) \in Nat /\ Cardinality(B) >= Cardinality(A) + 1
  <2> HIDE DEF B
  <2> QED
    BY <1>2, <1>3, OneMore
<1>5. Cardinality(B) > MaxSamples
  <2> HIDE DEF B
  <2> QED
    BY <1>1, <1>4, AnalyzersAssumption
<1> QED
  BY <1>5

LEMMA ImageIsFinite ==
  ASSUME NEW S, IsFiniteSet(S), NEW f
  PROVE  IsFiniteSet({f[x] : x \in S})
<1> DEFINE T == {f[x] : x \in S}
           g == [x \in S |-> f[x]]
<1>1. g \in Surjection(S, T)
  BY DEF Surjection
<1> HIDE DEF g, T
<1>2. IsFiniteSet(T)
  BY <1>1, FS_Surjection
<1> QED
  BY <1>2 DEF T

(* Pods as the API lists them.                                             *)
PodList(pods) ==
  /\ IsFiniteSet(DOMAIN pods) /\ DOMAIN pods \subseteq Nat
  /\ \A i \in DOMAIN pods :
       /\ IsFiniteSet(DOMAIN pods[i].containers) /\ DOMAIN pods[i].containers \subseteq Nat
       /\ \A j \in DOMAIN pods[i].containers : pods[i].containers[j].restarts \in Nat

LEMMA ContainersAre ==
  ASSUME NEW pods, PodList(pods)
  PROVE  Listing(X!Everywhere!Containers(pods))
<1> DEFINE I == {i \in DOMAIN pods : X!Everywhere!Looked(pods[i])}
           rec(i) == [j \in DOMAIN pods[i].containers |->
                        [pod |-> pods[i], place |-> <<i, j>>, status |-> pods[i].containers[j]]]
           C == [i \in I |-> X!Everywhere!ContainersOf(pods, i)]
<1>1. X!Everywhere!Containers(pods) = UNION {C[i] : i \in I}
  BY DEF X!Everywhere!Containers
<1>2. ASSUME NEW i \in I PROVE IsFiniteSet(C[i])
  <2>1. IsFiniteSet(DOMAIN pods[i].containers)
    BY DEF PodList
  <2>2. IsFiniteSet({rec(i)[j] : j \in DOMAIN pods[i].containers})
    <3> HIDE DEF rec
    <3> QED
      BY <2>1, ImageIsFinite
  <2>3. C[i] = {rec(i)[j] : j \in DOMAIN pods[i].containers}
    BY Zenon DEF X!Everywhere!ContainersOf
  <2> QED
    BY <2>2, <2>3, Zenon
<1>3. IsFiniteSet(I)
  BY FS_Subset DEF PodList
<1>4. ASSUME NEW c \in X!Everywhere!Containers(pods)
      PROVE  c.status.restarts \in Nat /\ c.place[1] \in Nat /\ c.place[2] \in Nat
  <2>1. PICK i \in I : c \in C[i]
    BY <1>1
  <2>2. PICK j \in DOMAIN pods[i].containers : c = [pod |-> pods[i], place |-> <<i, j>>, status |-> pods[i].containers[j]]
    BY <2>1 DEF X!Everywhere!ContainersOf
  <2> QED
    BY <2>2 DEF PodList
<1>5. IsFiniteSet(UNION {C[i] : i \in I})
  <2> HIDE DEF C, I
  <2>1. IsFiniteSet({C[i] : i \in I})
    BY <1>3, ImageIsFinite
  <2>2. \A T \in {C[i] : i \in I} : IsFiniteSet(T)
    BY <1>2
  <2> QED
    BY <2>1, <2>2, FS_UNION
<1> QED
  BY <1>1, <1>4, <1>5 DEF Listing

(* A container whose logs are not fetched although they are of interest    *)
(* has as many before it as are fetched.                                   *)
LEMMA OthersAreFetched ==
  ASSUME NEW cs, IsFiniteSet(cs), NEW c \in cs, X!Everywhere!LogScore(c) > 0,
         NEW s \in X!Everywhere!TopLogCandidates(cs), c \notin s
  PROVE  Cardinality({d \in cs : X!Everywhere!LogScore(d) >= X!Everywhere!LogScore(c)}) > MaxHints
<1> DEFINE K == {d \in cs : X!Everywhere!LogScore(d) > 0}
           key(d) == <<-X!Everywhere!LogScore(d), d.pod.ns, d.pod.name>>
           Sooner(a, b) == \E i \in 1..3 : key(a)[i] < key(b)[i] /\ \A j \in 1..(i - 1) : key(a)[j] = key(b)[j]
           n == IF Cardinality(K) < MaxHints THEN Cardinality(K) ELSE MaxHints
           B == {d \in cs : X!Everywhere!LogScore(d) >= X!Everywhere!LogScore(c)}
<1>1. \A d \in cs : X!Everywhere!LogScore(d) \in {0, 40, 60, 80, 100}
  BY DEF X!Everywhere!LogScore
<1>2. s \in SUBSET K /\ Cardinality(s) = n /\ \A a \in K \ s, b \in s : ~Sooner(a, b)
  BY SameCardinalityThere DEF X!Everywhere!TopLogCandidates, X!Everywhere!kSubset
<1>3. c \in K
  OBVIOUS
<1>4. ASSUME NEW b \in s PROVE b \in B
  <2>1. b \in cs /\ ~Sooner(c, b)
    BY <1>2, <1>3
  <2>2. ~(key(c)[1] < key(b)[1])
    BY <2>1
  <2> QED
    BY <1>1, <2>1, <2>2
<1>5. IsFiniteSet(K) /\ IsFiniteSet(B) /\ c \in B
  BY <1>1, FS_Subset
<1>6. Cardinality(s) < Cardinality(K) /\ Cardinality(s) \in Nat /\ Cardinality(K) \in Nat
  <2> HIDE DEF K
  <2> QED
    BY <1>2, <1>3, <1>5, OneMore
<1>7. Cardinality(s) = MaxHints
  BY <1>2, <1>6, AnalyzersAssumption
<1>8. Cardinality(B) >= Cardinality(s) + 1 /\ Cardinality(B) \in Nat
  <2> HIDE DEF B
  <2> QED
    BY <1>4, <1>5, OneMore, Zenon
<1> QED
  BY <1>7, <1>8, AnalyzersAssumption

(* A container that keeps crashing is reported, unless as many others as   *)
(* are looked at restart no less often, and its logs are among those       *)
(* fetched, unless as many others need them no less                        *)
(* (clusterhealth.go:252, clusterhealth.go:405).                           *)
THEOREM CrashesEscalate ==
  ASSUME NEW pods, PodList(pods)
  PROVE  X!Everywhere!CrashesAreEscalated(pods)
<1> DEFINE cs == X!Everywhere!Containers(pods)
           Reported == [severity |-> "medium", scope |-> "cluster/pods", unconfirmed |-> FALSE]
                         \in X!Everywhere!ToSet(X!Everywhere!RestartFinding(X!Everywhere!TopRestarts(cs)))
<1>1. Listing(cs)
  BY ContainersAre
<1>2. ASSUME NEW c \in cs, X!Everywhere!Crashes(c), c.status.restarts >= 5
      PROVE  Reported \/ Cardinality({d \in cs : X!Everywhere!Restarted(d) /\ d.status.restarts >= c.status.restarts}) > MaxSamples
  <2> HIDE DEF cs
  <2>1. X!Everywhere!Restarted(c)
    BY <1>2 DEF X!Everywhere!Crashes
  <2>2. CASE c \in X!Everywhere!TopRestarts(cs)
    BY <1>2, <2>2, ReportedIs
  <2>3. CASE c \notin X!Everywhere!TopRestarts(cs)
    BY <1>1, <2>1, <2>3, RestsAhead
  <2> QED
    BY <2>2, <2>3
<1>3. ASSUME NEW c \in cs, X!Everywhere!LogScore(c) > 0, NEW s \in X!Everywhere!TopLogCandidates(cs)
      PROVE  c \in s \/ Cardinality({d \in cs : X!Everywhere!LogScore(d) >= X!Everywhere!LogScore(c)}) > MaxHints
  <2> HIDE DEF cs
  <2> QED
    BY <1>1, <1>3, OthersAreFetched DEF Listing
<1> QED
  BY <1>2, <1>3, SameCardinalityThere DEF X!Everywhere!CrashesAreEscalated

-----------------------------------------------------------------------------
(****************************************************************************)
(* The report                                                              *)
(****************************************************************************)
(* Induction over the subsets of a finite set, by their size.              *)
LEMMA SmallerFirst ==
  ASSUME NEW S, IsFiniteSet(S), NEW G,
         \A s \in SUBSET S : (\A t \in SUBSET S : Cardinality(t) < Cardinality(s) => t \in G) => s \in G
  PROVE  \A s \in SUBSET S : s \in G
<1> DEFINE bad == {s \in SUBSET S : s \notin G}
           T == {Cardinality(s) : s \in bad}
<1> SUFFICES ASSUME bad # {} PROVE FALSE
  OBVIOUS
<1>1. T \subseteq Nat /\ T # {}
  BY FS_Subset, FS_CardinalityType
<1>2. PICK n \in T : \A m \in T : n <= m
  <2> HIDE DEF T
  <2> QED
    BY <1>1, HasLeast, Zenon
<1>3. PICK s \in bad : Cardinality(s) = n
  BY <1>2
<1>4. \A t \in SUBSET S : Cardinality(t) \in Nat
  BY FS_Subset, FS_CardinalityType
<1>5. ASSUME NEW t \in SUBSET S, Cardinality(t) < Cardinality(s) PROVE t \in G
  <2>1. t \in bad => n <= Cardinality(t)
    BY <1>2
  <2>2. t \notin bad
    BY <1>3, <1>4, <1>5, <2>1
  <2> QED
    BY <2>2
<1> QED
  BY <1>3, <1>5

LEMMA RemoveOne ==
  ASSUME NEW s, IsFiniteSet(s), NEW x \in s
  PROVE  /\ IsFiniteSet(s \ {x}) /\ Cardinality(s) \in Nat /\ Cardinality(s \ {x}) \in Nat
         /\ Cardinality(s \ {x}) < Cardinality(s)
<1>1. IsFiniteSet(s \ {x}) /\ Cardinality(s \ {x}) = Cardinality(s) - 1
  BY FS_RemoveElement
<1>2. Cardinality(s) \in Nat /\ Cardinality(s \ {x}) \in Nat
  BY <1>1, FS_CardinalityType
<1> QED
  BY <1>1, <1>2

(* A sum may start with any element.                                       *)
StartsAnywhere(h, f, S) == \A s \in SUBSET S : h[s] \in Nat /\ \A x \in s : h[s] = f[x] + h[s \ {x}]

LEMMA AnyFirst ==
  ASSUME NEW S, IsFiniteSet(S), NEW f, \A x \in S : f[x] \in Nat, NEW h, SumsTo(h, f, S)
  PROVE  StartsAnywhere(h, f, S)
<1> DEFINE G == {s \in SUBSET S : h[s] \in Nat /\ \A x \in s : h[s] = f[x] + h[s \ {x}]}
<1>1. ASSUME NEW s \in SUBSET S, \A t \in SUBSET S : Cardinality(t) < Cardinality(s) => t \in G
      PROVE  s \in G
  <2>1. CASE s = {}
    <3>1. h[{}] = 0
      BY Zenon DEF SumsTo, SumStep
    <3> QED
      BY <2>1, <3>1
  <2>2. CASE s # {}
    <3> DEFINE y == Some(s)
    <3>1. y \in s /\ y \in S
      BY <2>2 DEF Some
    <3>2. h[s] = f[y] + h[s \ {y}]
      BY <2>2 DEF SumsTo, SumStep, Without
    <3>3. IsFiniteSet(s)
      BY FS_Subset
    <3> HIDE DEF y
    <3>4. ASSUME NEW x \in s PROVE s \ {x} \in G
      BY <1>1, <3>3, RemoveOne
    <3>5. h[s \ {y}] \in Nat /\ f[y] \in Nat
      BY <3>1, <3>4, Zenon
    <3>6. ASSUME NEW x \in s, x # y PROVE h[s] = f[x] + h[s \ {x}]
      <4> DEFINE r == (s \ {x}) \ {y}
      <4>1. y \in s \ {x} /\ x \in s \ {y} /\ r = (s \ {y}) \ {x}
        BY <3>1, <3>6
      <4>2. h[s \ {x}] = f[y] + h[r] /\ h[s \ {x}] \in Nat
        BY <3>4, <4>1
      <4>3. h[s \ {y}] = f[x] + h[r]
        BY <3>1, <3>4, <4>1
      <4>4. r \in G
        <5>1. r \in SUBSET S /\ IsFiniteSet(s \ {x})
          BY <3>3, RemoveOne
        <5>2. Cardinality(r) < Cardinality(s)
          BY <3>3, <4>1, <5>1, RemoveOne
        <5> QED
          BY <1>1, <5>1, <5>2, Zenon
      <4>5. h[r] \in Nat /\ f[x] \in Nat
        BY <4>4
      <4> HIDE DEF r
      <4> QED
        BY <3>2, <3>5, <4>2, <4>3, <4>5
    <3>7. h[s] \in Nat
      BY <3>2, <3>5
    <3>8. \A x \in s : h[s] = f[x] + h[s \ {x}]
      BY <3>2, <3>6, Zenon
    <3> QED
      BY <3>7, <3>8
  <2> QED
    BY <2>1, <2>2
<1> HIDE DEF G
<1>2. \A s \in SUBSET S : s \in G
  BY <1>1, SmallerFirst
<1> QED
  BY <1>2 DEF G, StartsAnywhere

(* What a sum is over a set without one element.                           *)
LEMMA SumOfRest ==
  ASSUME NEW S, IsFiniteSet(S), NEW f, \A x \in S : f[x] \in Nat, NEW x \in S
  PROVE  SumOver(f, S) = f[x] + SumOver(f, S \ {x}) /\ SumOver(f, S \ {x}) \in Nat
<1> DEFINE R == S \ {x}
<1>1. PICK h : SumsTo(h, f, S)
  BY SumsExist
<1>2. IsFiniteSet(R) /\ R \in SUBSET S
  BY FS_Subset
<1>3. SumsTo(h, f, R)
  BY <1>1, <1>2 DEF SumsTo
<1>4. SumOver(f, S) = h[S] /\ SumOver(f, R) = h[R]
  BY <1>1, <1>2, <1>3, SumIs
<1>5. StartsAnywhere(h, f, S)
  BY <1>1, AnyFirst
<1>6. h[S] = f[x] + h[R] /\ h[R] \in Nat
  BY <1>2, <1>5 DEF StartsAnywhere
<1> QED
  BY <1>4, <1>6

LEMMA SumOfNone ==
  ASSUME NEW f PROVE SumOver(f, {}) = 0
<1>1. IsFiniteSet({})
  BY FS_EmptySet
<1>2. PICK h : SumsTo(h, f, {})
  BY <1>1, SumsExist
<1>3. SumOver(f, {}) = h[{}]
  BY <1>1, <1>2, SumIs
<1>4. h[{}] = 0
  BY <1>2 DEF SumsTo, SumStep
<1> QED
  BY <1>3, <1>4

(* A sum does not depend on the names of the places.                       *)
LEMMA SumRenamed ==
  ASSUME NEW S, IsFiniteSet(S), NEW T, IsFiniteSet(T), NEW f, NEW g, NEW b \in Bijection(S, T),
         \A x \in S : f[x] = g[b[x]], \A y \in T : g[y] \in Nat
  PROVE  SumOver(f, S) = SumOver(g, T)
<1> DEFINE Img(s) == {b[x] : x \in s}
           G == {s \in SUBSET S : SumOver(f, s) = SumOver(g, Img(s))}
<1>1. /\ b \in [S -> T] /\ \A x, y \in S : b[x] = b[y] => x = y
      /\ \A y \in T : \E x \in S : b[x] = y
  BY DEF Bijection, Injection, Surjection, IsInjective
<1>2. \A x \in S : f[x] \in Nat
  BY <1>1
<1>3. {} \in G
  <2>1. Img({}) = {}
    OBVIOUS
  <2> QED
    BY <2>1, SumOfNone
<1>4. ASSUME NEW s \in SUBSET S, s # {}, Without(s) \in G PROVE s \in G
  <2> DEFINE x == Some(s)
  <2>1. x \in s /\ Without(s) = s \ {x} /\ x \in S
    BY <1>4 DEF Some, Without
  <2> HIDE DEF x
  <2>2. IsFiniteSet(s)
    BY FS_Subset
  <2>3. \A y \in s : f[y] \in Nat
    BY <1>2
  <2>4. SumOver(f, s) = f[x] + SumOver(f, s \ {x})
    BY <2>1, <2>2, <2>3, SumOfRest
  <2>5. Img(s) \subseteq T /\ b[x] \in Img(s) /\ Img(s \ {x}) = Img(s) \ {b[x]}
    BY <1>1, <2>1
  <2>6. IsFiniteSet(Img(s)) /\ \A y \in Img(s) : g[y] \in Nat
    BY <2>5, FS_Subset
  <2> DEFINE I == Img(s)
             J == Img(s \ {x})
  <2>7. SumOver(f, s \ {x}) = SumOver(g, J)
    BY <1>4, <2>1
  <2>8. SumOver(g, I) = g[b[x]] + SumOver(g, I \ {b[x]})
    <3> HIDE DEF I
    <3>1. IsFiniteSet(I) /\ (\A y \in I : g[y] \in Nat) /\ b[x] \in I
      BY <2>5, <2>6 DEF I
    <3> QED
      BY <3>1, SumOfRest
  <2>9. J = I \ {b[x]} /\ f[x] = g[b[x]]
    BY <2>1, <2>5
  <2>10. SumOver(f, s) = SumOver(g, I)
    <3> HIDE DEF I, J
    <3> QED
      BY <2>4, <2>7, <2>8, <2>9
  <2> QED
    BY <2>10
<1>5. Img(S) = T
  BY <1>1
<1>6. S \in G
  <2> HIDE DEF G
  <2> QED
    BY <1>3, <1>4, Subsets
<1>7. SumOver(f, S) = SumOver(g, Img(S))
  BY <1>6
<1> HIDE DEF Img
<1> QED
  BY <1>5, <1>7

SeverityNames == {"critical", "high", "medium", "low", "info"}

LEMMA RankIs ==
  ASSUME NEW s \in SeverityNames
  PROVE  X!SeverityRank(s) \in 0..4 /\ X!Severities[1 + X!SeverityRank(s)] = s
BY RanksAre DEF SeverityNames, X!Severities

(* Findings at their places.                                               *)
Located(found) ==
  /\ IsFiniteSet(DOMAIN found) /\ DOMAIN found \subseteq Nat \X Nat
  /\ \A p \in DOMAIN found : found[p].severity \in SeverityNames

(* The order in which they are reported is total and transitive.           *)
LEMMA AheadIsOrder ==
  ASSUME NEW found, Located(found), NEW p \in DOMAIN found, NEW q \in DOMAIN found
  PROVE  /\ p \notin X!Ahead(found, p) /\ X!Ahead(found, p) \subseteq DOMAIN found
         /\ p # q => p \in X!Ahead(found, q) \/ q \in X!Ahead(found, p)
         /\ q \in X!Ahead(found, p) => X!Ahead(found, q) \subseteq X!Ahead(found, p)
<1> DEFINE rank == [r \in DOMAIN found |-> X!SeverityRank(found[r].severity)]
<1>1. \A r \in DOMAIN found : rank[r] \in 0..4 /\ r[1] \in Nat /\ r[2] \in Nat /\ r = <<r[1], r[2]>>
  BY RankIs DEF Located
<1>2. ASSUME NEW r \in DOMAIN found, NEW t \in DOMAIN found
      PROVE  t \in X!Ahead(found, r) <=>
               \/ rank[t] < rank[r]
               \/ rank[t] = rank[r] /\ (t[1] < r[1] \/ (t[1] = r[1] /\ t[2] < r[2]))
  BY DEF X!Ahead, X!Earlier
<1>3. \A r \in DOMAIN found : X!Ahead(found, r) \subseteq DOMAIN found
  BY DEF X!Ahead
<1> HIDE DEF rank
<1>4. p \notin X!Ahead(found, p)
  BY <1>1, <1>2
<1>5. ASSUME p # q PROVE p \in X!Ahead(found, q) \/ q \in X!Ahead(found, p)
  <2>1. p[1] # q[1] \/ p[2] # q[2]
    BY <1>1, <1>5
  <2> QED
    BY <1>1, <1>2, <2>1
<1>6. ASSUME q \in X!Ahead(found, p), NEW t \in X!Ahead(found, q) PROVE t \in X!Ahead(found, p)
  BY <1>1, <1>2, <1>3, <1>6
<1> QED
  BY <1>3, <1>4, <1>5, <1>6

LEMMA AheadIsFewer ==
  ASSUME NEW found, Located(found), NEW p \in DOMAIN found, NEW q \in X!Ahead(found, p)
  PROVE  /\ Cardinality(X!Ahead(found, q)) \in Nat /\ Cardinality(X!Ahead(found, p)) \in Nat
         /\ Cardinality(X!Ahead(found, q)) < Cardinality(X!Ahead(found, p))
<1>1. q \in DOMAIN found
  BY DEF X!Ahead
<1>2. X!Ahead(found, q) \subseteq X!Ahead(found, p) /\ q \notin X!Ahead(found, q) /\ X!Ahead(found, p) \subseteq DOMAIN found
  BY <1>1, AheadIsOrder
<1>3. IsFiniteSet(X!Ahead(found, p))
  BY <1>2, FS_Subset DEF Located
<1> QED
  BY <1>2, <1>3, OneMore

(* Every finding is in the report, with as many before it as are ahead.    *)
LEMMA FindingsAreReported ==
  ASSUME NEW found, Located(found), NEW p \in DOMAIN found
  PROVE  /\ 1 + Cardinality(X!Ahead(found, p)) \in DOMAIN X!BySeverity(found)
         /\ X!BySeverity(found)[1 + Cardinality(X!Ahead(found, p))] = found[p]
<1> DEFINE D == DOMAIN found
           n == Cardinality(X!Ahead(found, p))
           At(i) == CHOOSE q \in D : X!Cardinality(X!Ahead(found, q)) = i - 1
<1>1. X!BySeverity(found) = [i \in 1..X!Cardinality(D) |-> found[At(i)]]
  BY DEF X!BySeverity
<1>2. n \in Nat /\ Cardinality(D) \in Nat /\ Cardinality(D) >= n + 1
  <2>1. X!Ahead(found, p) \subseteq D /\ p \notin X!Ahead(found, p) /\ IsFiniteSet(D)
    BY AheadIsOrder DEF Located
  <2> HIDE DEF D
  <2> QED
    BY <2>1, OneMore DEF D
<1>3. ASSUME NEW q \in D, Cardinality(X!Ahead(found, q)) = n PROVE q = p
  BY <1>3, AheadIsOrder, AheadIsFewer
<1>4. At(1 + n) = p
  BY <1>2, <1>3, SameCardinality
<1> HIDE DEF At
<1> QED
  BY <1>1, <1>2, <1>4, SameCardinality

(* The first of the report is of the risk that the assessment states.      *)
LEMMA FirstIsWorst ==
  ASSUME NEW found, Located(found), DOMAIN found # {}
  PROVE  X!BySeverity(found)[1].severity = X!TopRisk(found)
<1> DEFINE D == DOMAIN found
           T == {Cardinality(X!Ahead(found, p)) : p \in D}
           R == {X!SeverityRank(found[p].severity) : p \in D}
<1>1. T \subseteq Nat /\ T # {}
  <2>1. ASSUME NEW p \in D PROVE Cardinality(X!Ahead(found, p)) \in Nat
    <3>1. X!Ahead(found, p) \subseteq D /\ IsFiniteSet(D)
      BY AheadIsOrder DEF Located
    <3>2. IsFiniteSet(X!Ahead(found, p))
      BY <3>1, FS_Subset
    <3> QED
      BY <3>2, FS_CardinalityType
  <2> QED
    BY <2>1
<1>2. PICK n \in T : \A m \in T : n <= m
  <2> HIDE DEF T
  <2> QED
    BY <1>1, HasLeast, Zenon
<1>3. PICK p \in D : n = Cardinality(X!Ahead(found, p))
  BY <1>2
<1>4. X!Ahead(found, p) = {}
  <2> SUFFICES ASSUME NEW q \in X!Ahead(found, p) PROVE FALSE
    OBVIOUS
  <2>1. q \in D /\ Cardinality(X!Ahead(found, q)) < n /\ Cardinality(X!Ahead(found, q)) \in Nat /\ n \in Nat
    BY <1>3, AheadIsOrder, AheadIsFewer
  <2> QED
    BY <1>2, <2>1
<1>5. X!BySeverity(found)[1] = found[p]
  <2>1. Cardinality(X!Ahead(found, p)) = 0
    BY <1>4, FS_EmptySet
  <2> QED
    BY <2>1, FindingsAreReported
<1> DEFINE r == X!SeverityRank(found[p].severity)
<1>6. r \in 0..4 /\ X!Severities[1 + r] = found[p].severity
  BY RankIs DEF Located
<1>7. ASSUME NEW q \in D PROVE r <= X!SeverityRank(found[q].severity) /\ X!SeverityRank(found[q].severity) \in 0..4
  <2>1. X!SeverityRank(found[q].severity) \in 0..4
    BY RankIs DEF Located
  <2>2. ~(X!SeverityRank(found[q].severity) < r)
    BY <1>4 DEF X!Ahead
  <2> QED
    BY <1>6, <2>1, <2>2
<1>8. X!Min({4} \cup R) = r
  <2>1. {4} \cup R \subseteq Nat /\ r \in R /\ \A x \in {4} \cup R : r <= x
    BY <1>6, <1>7
  <2> HIDE DEF R, r
  <2>2. X!Min({4} \cup R) \in {4} \cup R /\ X!Min({4} \cup R) <= r
    BY <2>1, LeastIs
  <2> QED
    BY <2>1, <2>2
<1>9. X!TopRisk(found) = X!Severities[1 + r]
  BY <1>8 DEF X!TopRisk
<1> QED
  BY <1>5, <1>6, <1>9

LEMMA CardinalityRenamed ==
  ASSUME NEW S, IsFiniteSet(S), NEW T, NEW b \in Bijection(S, T), NEW P, P \subseteq S, NEW Q, Q \subseteq T,
         \A x \in S : x \in P <=> b[x] \in Q
  PROVE  Cardinality(P) = Cardinality(Q)
<1> DEFINE c == [x \in P |-> b[x]]
<1>1. /\ b \in [S -> T] /\ \A x, y \in S : b[x] = b[y] => x = y
      /\ \A y \in T : \E x \in S : b[x] = y
  BY DEF Bijection, Injection, Surjection, IsInjective
<1>2. c \in [P -> Q] /\ (\A x, y \in P : c[x] = c[y] => x = y) /\ \A y \in Q : \E x \in P : c[x] = y
  BY <1>1
<1> HIDE DEF c
<1>3. c \in Bijection(P, Q)
  BY <1>2 DEF Bijection, Injection, Surjection, IsInjective
<1>4. IsFiniteSet(P)
  BY FS_Subset
<1>5. ExistsBijection(P, Q)
  BY <1>3 DEF ExistsBijection
<1> QED
  BY <1>4, <1>5, FS_Bijection

LEMMA PointsAre == ASSUME NEW s PROVE X!Points(s) \in Nat
BY DEF X!Points

(* An assessment does not depend on the names of the places.               *)
LEMMA AssessmentRenamed ==
  ASSUME NEW f, NEW g, IsFiniteSet(DOMAIN f), IsFiniteSet(DOMAIN g),
         NEW b \in Bijection(DOMAIN f, DOMAIN g), \A p \in DOMAIN f : f[p] = g[b[p]],
         NEW e, NEW u, NEW c
  PROVE  X!Assess(f, e, u, c) = X!Assess(g, e, u, c)
<1>1. /\ b \in [DOMAIN f -> DOMAIN g] /\ \A x, y \in DOMAIN f : b[x] = b[y] => x = y
      /\ \A y \in DOMAIN g : \E x \in DOMAIN f : b[x] = y
  BY DEF Bijection, Injection, Surjection, IsInjective
<1>2. X!Total(X!PointsOf(f)) = X!Total(X!PointsOf(g))
  <2>1. X!Total(X!PointsOf(f)) = SumOver(X!PointsOf(f), DOMAIN f) /\ X!Total(X!PointsOf(g)) = SumOver(X!PointsOf(g), DOMAIN g)
    <3>1. DOMAIN X!PointsOf(f) = DOMAIN f /\ DOMAIN X!PointsOf(g) = DOMAIN g
      BY DEF X!PointsOf
    <3> QED
      BY <3>1, TotalIs
  <2>2. /\ \A p \in DOMAIN f : X!PointsOf(f)[p] = X!PointsOf(g)[b[p]]
        /\ \A p \in DOMAIN g : X!PointsOf(g)[p] \in Nat
    BY <1>1, PointsAre DEF X!PointsOf
  <2> QED
    BY <2>1, <2>2, SumRenamed
<1>3. X!TopRisk(f) = X!TopRisk(g)
  <2>1. {X!SeverityRank(f[p].severity) : p \in DOMAIN f} = {X!SeverityRank(g[p].severity) : p \in DOMAIN g}
    BY <1>1
  <2> QED
    BY <2>1, Zenon DEF X!TopRisk
<1>4. X!Unconfirmed(f) = X!Unconfirmed(g)
  BY <1>1 DEF X!Unconfirmed
<1>5. X!CountsOf(f) = X!CountsOf(g)
  <2> DEFINE S == {f[p].scope : p \in DOMAIN f}
             Of(h, s) == {p \in DOMAIN h : h[p].scope = s}
  <2>1. S = {g[p].scope : p \in DOMAIN g}
    BY <1>1
  <2>2. ASSUME NEW s \in S PROVE Cardinality(Of(f, s)) = Cardinality(Of(g, s))
    <3>1. Of(f, s) \subseteq DOMAIN f /\ Of(g, s) \subseteq DOMAIN g /\ \A p \in DOMAIN f : p \in Of(f, s) <=> b[p] \in Of(g, s)
      BY <1>1
    <3> HIDE DEF Of
    <3> QED
      BY <3>1, CardinalityRenamed
  <2>3. X!CountsOf(f) = [s \in S |-> X!Cardinality(Of(f, s))]
    BY DEF X!CountsOf
  <2>4. X!CountsOf(g) = [s \in S |-> X!Cardinality(Of(g, s))]
    BY <2>1 DEF X!CountsOf
  <2>5. \A s \in S : X!Cardinality(Of(f, s)) = X!Cardinality(Of(g, s))
    BY <2>2, SameCardinality, Zenon
  <2> HIDE DEF S, Of
  <2> QED
    BY <2>3, <2>4, <2>5
<1> QED
  BY <1>2, <1>3, <1>4, <1>5 DEF X!Assess

(* Results of analyzers.                                                   *)
Reportable(results) ==
  /\ IsFiniteSet(DOMAIN results) /\ DOMAIN results \subseteq Nat
  /\ \A i \in DOMAIN results :
       /\ IsFiniteSet(DOMAIN results[i].findings) /\ DOMAIN results[i].findings \subseteq Nat
       /\ \A j \in DOMAIN results[i].findings : results[i].findings[j].severity \in SeverityNames
       /\ results[i].evidence \in Nat /\ results[i].unknowns \in Nat

LEMMA FindingsAre ==
  ASSUME NEW results
  PROVE  LET found == X!FindingsOf(results)
         IN  /\ \A p : p \in DOMAIN found <=>
                         \E i \in DOMAIN results : \E j \in DOMAIN results[i].findings : p = <<i, j>>
             /\ \A i \in DOMAIN results : \A j \in DOMAIN results[i].findings :
                  found[<<i, j>>] = results[i].findings[j]
BY DEF X!FindingsOf

(* Results, each with findings.                                            *)
Findable(results) ==
  /\ IsFiniteSet(DOMAIN results) /\ DOMAIN results \subseteq Nat
  /\ \A i \in DOMAIN results :
       /\ IsFiniteSet(DOMAIN results[i].findings) /\ DOMAIN results[i].findings \subseteq Nat
       /\ \A j \in DOMAIN results[i].findings : results[i].findings[j].severity \in SeverityNames

LEMMA FoundAreLocated ==
  ASSUME NEW results, Findable(results)
  PROVE  Located(X!FindingsOf(results))
<1> DEFINE found == X!FindingsOf(results)
           P == [i \in DOMAIN results |-> {i} \X DOMAIN results[i].findings]
<1>1. DOMAIN found = UNION {P[i] : i \in DOMAIN results}
  BY DEF X!FindingsOf
<1>2. \A i \in DOMAIN results : IsFiniteSet(P[i])
  BY FS_Singleton, FS_Product, Zenon DEF Findable
<1>3. IsFiniteSet(UNION {P[i] : i \in DOMAIN results})
  <2> HIDE DEF P
  <2>1. IsFiniteSet({P[i] : i \in DOMAIN results})
    BY ImageIsFinite DEF Findable
  <2> QED
    BY <1>2, <2>1, FS_UNION
<1>4. ASSUME NEW p \in DOMAIN found PROVE p \in Nat \X Nat /\ found[p].severity \in SeverityNames
  <2>1. PICK i \in DOMAIN results : \E j \in DOMAIN results[i].findings : p = <<i, j>>
    BY FindingsAre
  <2>2. PICK j \in DOMAIN results[i].findings : p = <<i, j>>
    BY <2>1
  <2>3. found[p] = results[i].findings[j]
    BY <2>2, FindingsAre
  <2> HIDE DEF found
  <2> QED
    BY <2>2, <2>3 DEF Findable
<1> QED
  BY <1>1, <1>3, <1>4 DEF Located

LEMMA FindingsAreLocated ==
  ASSUME NEW results, Reportable(results)
  PROVE  Located(X!FindingsOf(results))
BY FoundAreLocated DEF Findable, Reportable

LEMMA SumSame ==
  ASSUME NEW D, IsFiniteSet(D), NEW f, NEW g, \A x \in D : f[x] = g[x] /\ g[x] \in Nat
  PROVE  SumOver(f, D) = SumOver(g, D)
<1> DEFINE b == [x \in D |-> x]
<1>1. b \in Bijection(D, D) /\ \A x \in D : b[x] = x
  BY DEF Bijection, Injection, Surjection, IsInjective
<1> HIDE DEF b
<1>2. (\A x \in D : f[x] = g[b[x]]) /\ \A x \in D : g[x] \in Nat
  BY <1>1
<1> QED
  BY <1>1, <1>2, SumRenamed

(* A total with one more place, and one with more at a place.              *)
LEMMA TotalOfOneMore ==
  ASSUME NEW D, IsFiniteSet(D), NEW a, a \notin D, NEW f, DOMAIN f = D, NEW g, DOMAIN g = D \cup {a},
         g[a] \in Nat, \A x \in D : f[x] = g[x] /\ g[x] \in Nat
  PROVE  X!Total(g) = g[a] + X!Total(f) /\ X!Total(f) \in Nat
<1> DEFINE E == D \cup {a}
<1>1. IsFiniteSet(E) /\ a \in E /\ E \ {a} = D /\ \A x \in E : g[x] \in Nat
  BY FS_AddElement
<1>2. X!Total(g) = SumOver(g, E) /\ X!Total(f) = SumOver(f, D)
  BY <1>1, TotalIs
<1>3. SumOver(g, E) = g[a] + SumOver(g, D)
  <2> HIDE DEF E
  <2> QED
    BY <1>1, SumOfRest
<1>4. SumOver(f, D) = SumOver(g, D)
  BY SumSame
<1>5. SumOver(f, D) \in Nat
  BY SumNat
<1> QED
  BY <1>2, <1>3, <1>4, <1>5

LEMMA TotalOfMore ==
  ASSUME NEW D, IsFiniteSet(D), NEW a \in D, NEW f, DOMAIN f = D, NEW g, DOMAIN g = D,
         \A x \in D : f[x] \in Nat, g[a] = f[a] + 1, \A x \in D \ {a} : g[x] = f[x]
  PROVE  X!Total(g) = X!Total(f) + 1 /\ X!Total(f) \in Nat
<1>1. X!Total(g) = SumOver(g, D) /\ X!Total(f) = SumOver(f, D)
  BY TotalIs
<1>2. \A x \in D : g[x] \in Nat
  OBVIOUS
<1>3. SumOver(f, D) = f[a] + SumOver(f, D \ {a}) /\ SumOver(f, D \ {a}) \in Nat
  BY SumOfRest
<1>4. SumOver(g, D) = g[a] + SumOver(g, D \ {a}) /\ SumOver(g, D \ {a}) \in Nat
  BY <1>2, SumOfRest
<1>5. SumOver(f, D \ {a}) = SumOver(g, D \ {a})
  <2>1. IsFiniteSet(D \ {a}) /\ \A x \in D \ {a} : f[x] = g[x] /\ g[x] \in Nat
    BY <1>2, FS_Subset
  <2> QED
    BY <2>1, SumSame
<1> QED
  BY <1>1, <1>3, <1>4, <1>5

(* The risk that an assessment states is the worst of its findings.        *)
LEMMA TopRiskIs ==
  ASSUME NEW found, Located(found)
  PROVE  LET R == {4} \cup {X!SeverityRank(found[p].severity) : p \in DOMAIN found}
         IN  /\ R \subseteq 0..4 /\ X!SeverityRank(X!TopRisk(found)) \in R
             /\ \A r \in R : X!SeverityRank(X!TopRisk(found)) <= r
             /\ X!TopRisk(found) \in SeverityNames
<1> DEFINE R == {4} \cup {X!SeverityRank(found[p].severity) : p \in DOMAIN found}
           m == X!Min(R)
<1>1. R \subseteq 0..4
  BY RankIs DEF Located
<1>2. m \in R /\ \A r \in R : m <= r
  <2>1. R \subseteq Nat /\ R # {}
    BY <1>1
  <2> HIDE DEF R
  <2> QED
    BY <2>1, LeastIs, Zenon
<1>3. X!TopRisk(found) = X!Severities[1 + m]
  BY DEF X!TopRisk
<1> HIDE DEF m, R
<1>4. m \in 0..4
  BY <1>1, <1>2
<1>5. X!Severities[1 + m] \in SeverityNames /\ X!SeverityRank(X!Severities[1 + m]) = m
  <2>1. m = 0 \/ m = 1 \/ m = 2 \/ m = 3 \/ m = 4
    BY <1>4
  <2> QED
    BY <2>1, RanksAre DEF X!Severities, SeverityNames
<1> QED
  BY <1>1, <1>2, <1>3, <1>5 DEF R

(* An assessment of more points, a worse risk, a doubt that was not there  *)
(* or more unknowns is not a better one.                                   *)
LEMMA WorseAssessment ==
  ASSUME NEW f, NEW g, NEW e \in Nat, NEW u \in Nat, NEW v \in Nat, NEW c \in BOOLEAN, u <= v,
         X!TopRisk(f) \in SeverityNames, X!TopRisk(g) \in SeverityNames,
         X!SeverityRank(X!TopRisk(g)) <= X!SeverityRank(X!TopRisk(f)),
         X!Total(X!PointsOf(f)) \in Nat, X!Total(X!PointsOf(g)) \in Nat,
         X!Total(X!PointsOf(f)) <= X!Total(X!PointsOf(g)), X!Unconfirmed(f) => X!Unconfirmed(g)
  PROVE  /\ X!Assess(g, e, v, c).score <= X!Assess(f, e, u, c).score
         /\ X!Confidence[X!Assess(g, e, v, c).confidence] <= X!Confidence[X!Assess(f, e, u, c).confidence]
         /\ X!SeverityRank(X!Assess(g, e, v, c).risk) <= X!SeverityRank(X!Assess(f, e, u, c).risk)
<1> DEFINE Low(h, n) == X!Unconfirmed(h) \/ n >= 3 \/ X!TopRisk(h) = "critical"
           Some3(h, n) == n > 0 \/ X!TopRisk(h) \in {"high", "medium"}
           Conf(h, n) == CASE Low(h, n) -> "low" [] ~Low(h, n) /\ Some3(h, n) -> "medium" [] OTHER -> "high"
           Raw(h, n) == 100 - X!Total(X!PointsOf(h)) - (IF 3 * n < 12 THEN 3 * n ELSE 12)
                            - (IF e < 5 THEN 6 ELSE 0) - (IF c THEN 2 ELSE 0)
<1>1. \A h : \A n \in Nat : X!Assess(h, e, n, c).score = IF Raw(h, n) < 0 THEN 0 ELSE Raw(h, n)
  BY DEF X!Assess
<1>2. \A h : \A n \in Nat : X!Assess(h, e, n, c).confidence = Conf(h, n)
  BY DEF X!Assess
<1>3. \A h : \A n \in Nat : X!Assess(h, e, n, c).risk = X!TopRisk(h)
  BY DEF X!Assess
<1>4. Raw(g, v) <= Raw(f, u) /\ Raw(g, v) \in Int /\ Raw(f, u) \in Int
  OBVIOUS
<1>5. X!Confidence[Conf(g, v)] <= X!Confidence[Conf(f, u)]
  <2>1. /\ X!TopRisk(f) = "critical" => X!TopRisk(g) = "critical"
        /\ X!TopRisk(f) \in {"high", "medium"} => X!TopRisk(g) \in {"critical", "high", "medium"}
    BY RanksAre DEF SeverityNames
  <2> DEFINE a == X!Unconfirmed(f)
             b == X!Unconfirmed(g)
             r == X!TopRisk(f)
             s == X!TopRisk(g)
  <2>2. /\ Conf(f, u) = "low" <=> (a \/ u >= 3 \/ r = "critical")
        /\ Conf(g, v) = "low" <=> (b \/ v >= 3 \/ s = "critical")
    OBVIOUS
  <2>3. /\ Conf(f, u) = "medium" <=> /\ ~(a \/ u >= 3 \/ r = "critical")
                                     /\ u > 0 \/ r \in {"high", "medium"}
        /\ Conf(g, v) = "medium" <=> /\ ~(b \/ v >= 3 \/ s = "critical")
                                     /\ v > 0 \/ s \in {"high", "medium"}
    OBVIOUS
  <2>4. Conf(f, u) \in {"low", "medium", "high"} /\ Conf(g, v) \in {"low", "medium", "high"}
    OBVIOUS
  <2>5. /\ Conf(f, u) = "low" => Conf(g, v) = "low"
        /\ Conf(f, u) = "medium" => Conf(g, v) \in {"low", "medium"}
    <3> HIDE DEF Conf
    <3> QED
      BY <2>1, <2>2, <2>3
  <2> HIDE DEF Conf
  <2> QED
    BY <2>4, <2>5 DEF X!Confidence
<1> HIDE DEF Conf, Raw
<1>6. X!Assess(g, e, v, c).score <= X!Assess(f, e, u, c).score
  BY <1>1, <1>4
<1> QED
  BY <1>2, <1>3, <1>5, <1>6

(* The parts of an assessment that the results give.                       *)
EvidenceOf(results) == [i \in DOMAIN results |-> results[i].evidence]
UnknownsOf(results) == [i \in DOMAIN results |-> results[i].unknowns]
Contradicted(results) == \E i \in DOMAIN results : results[i].contradicted

LEMMA AssessmentIs ==
  ASSUME NEW results
  PROVE  X!Build(results).assessment =
           X!Assess(X!FindingsOf(results), X!Total(EvidenceOf(results)), X!Total(UnknownsOf(results)), Contradicted(results))
BY DEF X!Build, EvidenceOf, UnknownsOf, Contradicted

LEMMA OrderOfResults ==
  ASSUME NEW results, Reportable(results), NEW order \in Bijection(DOMAIN results, DOMAIN results)
  PROVE  X!Build([i \in DOMAIN results |-> results[order[i]]]).assessment = X!Build(results).assessment
<1> DEFINE D == DOMAIN results
           moved == [i \in D |-> results[order[i]]]
           f == X!FindingsOf(moved)
           g == X!FindingsOf(results)
           b == [p \in DOMAIN f |-> <<order[p[1]], p[2]>>]
<1>1. /\ order \in [D -> D] /\ \A x, y \in D : order[x] = order[y] => x = y
      /\ \A y \in D : \E x \in D : order[x] = y
  BY DEF Bijection, Injection, Surjection, IsInjective
<1>2. DOMAIN moved = D /\ \A i \in D : moved[i] = results[order[i]] /\ order[i] \in D
  BY <1>1
<1> HIDE DEF moved
<1>3. Reportable(moved)
  BY <1>2 DEF Reportable
<1>4. IsFiniteSet(DOMAIN f) /\ IsFiniteSet(DOMAIN g) /\ IsFiniteSet(D)
  BY <1>3, FindingsAreLocated DEF Located, Reportable
<1>5. /\ \A p : p \in DOMAIN f <=> \E i \in D : \E j \in DOMAIN moved[i].findings : p = <<i, j>>
      /\ \A i \in D : \A j \in DOMAIN moved[i].findings : f[<<i, j>>] = moved[i].findings[j]
  BY <1>2, FindingsAre
<1>6. /\ \A p : p \in DOMAIN g <=> \E i \in D : \E j \in DOMAIN results[i].findings : p = <<i, j>>
      /\ \A i \in D : \A j \in DOMAIN results[i].findings : g[<<i, j>>] = results[i].findings[j]
  BY FindingsAre
<1> HIDE DEF f, g
<1>7. ASSUME NEW p \in DOMAIN f PROVE b[p] \in DOMAIN g /\ f[p] = g[b[p]]
  <2>1. PICK i \in D : \E j \in DOMAIN moved[i].findings : p = <<i, j>>
    BY <1>5
  <2>2. PICK j \in DOMAIN moved[i].findings : p = <<i, j>>
    BY <2>1
  <2>3. b[p] = <<order[i], j>> /\ moved[i] = results[order[i]] /\ order[i] \in D
    BY <1>2, <2>2
  <2> HIDE DEF b
  <2>4. b[p] \in DOMAIN g /\ g[b[p]] = results[order[i]].findings[j] /\ f[p] = moved[i].findings[j]
    BY <1>5, <1>6, <2>2, <2>3
  <2> QED
    BY <2>3, <2>4
<1>8. ASSUME NEW p \in DOMAIN f, NEW q \in DOMAIN f, b[p] = b[q] PROVE p = q
  <2>1. PICK i \in D : \E j \in DOMAIN moved[i].findings : p = <<i, j>>
    BY <1>5
  <2>2. PICK j \in DOMAIN moved[i].findings : p = <<i, j>>
    BY <2>1
  <2>3. PICK k \in D : \E l \in DOMAIN moved[k].findings : q = <<k, l>>
    BY <1>5
  <2>4. PICK l \in DOMAIN moved[k].findings : q = <<k, l>>
    BY <2>3
  <2>5. <<order[i], j>> = <<order[k], l>>
    BY <1>8, <2>2, <2>4
  <2> QED
    BY <1>1, <2>2, <2>4, <2>5
<1>9. ASSUME NEW q \in DOMAIN g PROVE \E p \in DOMAIN f : b[p] = q
  <2>1. PICK i \in D : \E j \in DOMAIN results[i].findings : q = <<i, j>>
    BY <1>6
  <2>2. PICK j \in DOMAIN results[i].findings : q = <<i, j>>
    BY <2>1
  <2>3. PICK k \in D : order[k] = i
    BY <1>1
  <2>4. <<k, j>> \in DOMAIN f
    BY <1>2, <1>5, <2>2, <2>3
  <2>5. b[<<k, j>>] = q
    BY <2>2, <2>3, <2>4
  <2> QED
    BY <2>4, <2>5
<1>10. b \in Bijection(DOMAIN f, DOMAIN g)
  <2>1. b \in [DOMAIN f -> DOMAIN g]
    BY <1>7
  <2> HIDE DEF b
  <2> QED
    BY <1>8, <1>9, <2>1 DEF Bijection, Injection, Surjection, IsInjective
<1>11. X!Assess(f, X!Total(EvidenceOf(moved)), X!Total(UnknownsOf(moved)), Contradicted(moved))
         = X!Assess(g, X!Total(EvidenceOf(moved)), X!Total(UnknownsOf(moved)), Contradicted(moved))
  <2> HIDE DEF b
  <2> QED
    BY <1>4, <1>7, <1>10, AssessmentRenamed
<1>12. ASSUME NEW h, NEW k, DOMAIN h = D, DOMAIN k = D, \A i \in D : h[i] = k[order[i]], \A i \in D : k[i] \in Nat
       PROVE  X!Total(h) = X!Total(k)
  <2>1. X!Total(h) = SumOver(h, D) /\ X!Total(k) = SumOver(k, D)
    BY <1>4, <1>12, TotalIs
  <2> QED
    BY <1>4, <1>12, <2>1, SumRenamed
<1>13. X!Total(EvidenceOf(moved)) = X!Total(EvidenceOf(results))
  <2>1. DOMAIN EvidenceOf(moved) = D /\ DOMAIN EvidenceOf(results) = D
    BY <1>2 DEF EvidenceOf
  <2>2. \A i \in D : EvidenceOf(moved)[i] = EvidenceOf(results)[order[i]] /\ EvidenceOf(results)[i] \in Nat
    BY <1>2 DEF EvidenceOf, Reportable
  <2> QED
    BY <1>12, <2>1, <2>2
<1>14. X!Total(UnknownsOf(moved)) = X!Total(UnknownsOf(results))
  <2>1. DOMAIN UnknownsOf(moved) = D /\ DOMAIN UnknownsOf(results) = D
    BY <1>2 DEF UnknownsOf
  <2>2. \A i \in D : UnknownsOf(moved)[i] = UnknownsOf(results)[order[i]] /\ UnknownsOf(results)[i] \in Nat
    BY <1>2 DEF UnknownsOf, Reportable
  <2> QED
    BY <1>12, <2>1, <2>2
<1>15. Contradicted(moved) = Contradicted(results)
  BY <1>1, <1>2 DEF Contradicted
<1>16. X!Build(moved).assessment = X!Build(results).assessment
  BY <1>11, <1>13, <1>14, <1>15, AssessmentIs DEF f, g
<1> QED
  BY <1>16 DEF moved

LEMMA LeadIsTheRisk ==
  ASSUME NEW results, Reportable(results), X!Build(results).findings # <<>>
  PROVE  X!Build(results).message.about.severity = X!Build(results).assessment.risk
<1> DEFINE found == X!FindingsOf(results)
<1>1. Located(found)
  BY FindingsAreLocated
<1>2. X!Build(results).findings = X!BySeverity(found)
  BY DEF X!Build
<1>3. X!Build(results).message.about = X!BySeverity(found)[1]
  <2> DEFINE s == X!BySeverity(found)
  <2>1. \E plan : X!Build(results).message = X!OperatorMessage(s, plan)
    BY Zenon DEF X!Build
  <2>2. s # <<>>
    BY <1>2
  <2>3. X!Build(results).message.about = s[1]
    <3> HIDE DEF s, found
    <3> QED
      BY <2>1, <2>2 DEF X!OperatorMessage
  <2> QED
    BY <2>3
<1>4. X!Build(results).assessment.risk = X!TopRisk(found)
  <2>1. \A h, e, u, c : X!Assess(h, e, u, c).risk = X!TopRisk(h)
    BY DEF X!Assess
  <2> QED
    BY <2>1, AssessmentIs
<1>5. DOMAIN found # {}
  <2> HIDE DEF found
  <2> SUFFICES ASSUME DOMAIN found = {} PROVE FALSE
    BY Zenon
  <2>1. X!Cardinality(DOMAIN found) = 0
    BY SameCardinality, FS_EmptySet
  <2> DEFINE v(i) == found[CHOOSE p \in DOMAIN found : X!Cardinality(X!Ahead(found, p)) = i - 1]
  <2>2. X!BySeverity(found) = [i \in 1..X!Cardinality(DOMAIN found) |-> v(i)]
    BY DEF X!BySeverity
  <2> HIDE DEF v
  <2>3. X!BySeverity(found) = <<>>
    BY <2>1, <2>2
  <2> QED
    BY <1>2, <2>3
<1> HIDE DEF found
<1> QED
  BY <1>1, <1>3, <1>4, <1>5, FirstIsWorst

(* What analyzers may return.                                              *)
AnyFinding == [severity : SeverityNames, scope : X!ToSet(X!Scopes), unconfirmed : BOOLEAN]
AnyResult ==
  [findings : Seq(AnyFinding), evidence : Nat, unknowns : Nat, contradicted : BOOLEAN,
   plan : {"none", "open", "gated"}]

LEMMA ResultsAre ==
  ASSUME NEW results \in Seq(AnyResult)
  PROVE  Reportable(results)
<1>1. IsFiniteSet(DOMAIN results) /\ DOMAIN results \subseteq Nat
  <2>1. DOMAIN results = 1..Len(results) /\ Len(results) \in Nat
    OBVIOUS
  <2>2. IsFiniteSet(1..Len(results))
    BY <2>1, FS_Interval
  <2> QED
    BY <2>1, <2>2
<1>2. ASSUME NEW i \in DOMAIN results
      PROVE  /\ IsFiniteSet(DOMAIN results[i].findings) /\ DOMAIN results[i].findings \subseteq Nat
             /\ \A j \in DOMAIN results[i].findings : results[i].findings[j].severity \in SeverityNames
             /\ results[i].evidence \in Nat /\ results[i].unknowns \in Nat
  <2>1. results[i] \in AnyResult
    OBVIOUS
  <2>2. PICK s \in Seq(AnyFinding) : s = results[i].findings
    BY <2>1 DEF AnyResult
  <2>3. DOMAIN s = 1..Len(s) /\ Len(s) \in Nat /\ \A j \in DOMAIN s : s[j] \in AnyFinding
    OBVIOUS
  <2>4. IsFiniteSet(1..Len(s))
    BY <2>3, FS_Interval
  <2> QED
    BY <2>1, <2>2, <2>3, <2>4 DEF AnyResult, AnyFinding
<1> QED
  BY <1>1, <1>2 DEF Reportable

(* The results r have the finding more at the place p and are otherwise as *)
(* the results.                                                            *)
HaveMore(r, results, p, more) ==
  LET found == X!FindingsOf(results)
      new == X!FindingsOf(r)
  IN  /\ r \in Seq(AnyResult) /\ DOMAIN r = DOMAIN results
      /\ EvidenceOf(r) = EvidenceOf(results) /\ UnknownsOf(r) = UnknownsOf(results)
      /\ Contradicted(r) = Contradicted(results)
      /\ DOMAIN new = DOMAIN found \cup {p} /\ p \notin DOMAIN found
      /\ new[p] = more /\ \A q \in DOMAIN found : new[q] = found[q]

LEMMA OneMoreFinding ==
  ASSUME NEW results \in Seq(AnyResult), NEW i \in DOMAIN results, NEW more \in AnyFinding
  PROVE  HaveMore([results EXCEPT ![i].findings = Append(@, more)], results,
                  <<i, Len(results[i].findings) + 1>>, more)
<1> DEFINE r == [results EXCEPT ![i].findings = Append(@, more)]
           s == results[i].findings
           n == Len(s) + 1
           found == X!FindingsOf(results)
           new == X!FindingsOf(r)
<1>1. results[i] \in AnyResult /\ s \in Seq(AnyFinding)
  <2>1. results[i] \in AnyResult
    OBVIOUS
  <2> QED
    BY <2>1 DEF AnyResult
<1>2. /\ DOMAIN r = DOMAIN results /\ r[i] = [results[i] EXCEPT !.findings = Append(s, more)]
      /\ \A j \in DOMAIN results : j # i => r[j] = results[j]
  OBVIOUS
<1>3. Append(s, more) \in Seq(AnyFinding) /\ DOMAIN Append(s, more) = DOMAIN s \cup {n} /\ n \notin DOMAIN s
      /\ Append(s, more)[n] = more /\ \A j \in DOMAIN s : Append(s, more)[j] = s[j]
  <2> HIDE DEF s
  <2> QED
    BY <1>1
<1>4. /\ r[i] \in AnyResult /\ r[i].findings = Append(s, more) /\ r[i].evidence = results[i].evidence
      /\ r[i].unknowns = results[i].unknowns /\ r[i].contradicted = results[i].contradicted
  <2>1. r[i] = [findings |-> Append(s, more), evidence |-> results[i].evidence, unknowns |-> results[i].unknowns,
                contradicted |-> results[i].contradicted, plan |-> results[i].plan]
    BY <1>1, <1>2, Zenon DEF AnyResult
  <2> HIDE DEF r, s
  <2> QED
    BY <1>1, <1>3, <2>1 DEF AnyResult
<1>5. r \in Seq(AnyResult)
  <2>1. \A j \in DOMAIN results : r[j] \in AnyResult
    BY <1>2, <1>4
  <2>2. Len(results) \in Nat /\ DOMAIN results = 1..Len(results)
    OBVIOUS
  <2>3. r \in [1..Len(results) -> AnyResult]
    <3>1. r = [j \in DOMAIN results |-> r[j]]
      BY Zenon
    <3> HIDE DEF r
    <3> QED
      BY <2>1, <2>2, <3>1
  <2> HIDE DEF r
  <2> QED
    BY <2>2, <2>3
<1> HIDE DEF r
<1>6. EvidenceOf(r) = EvidenceOf(results) /\ UnknownsOf(r) = UnknownsOf(results)
  BY <1>2, <1>4, Zenon DEF EvidenceOf, UnknownsOf
<1>7. Contradicted(r) = Contradicted(results)
  BY <1>2, <1>4, Zenon DEF Contradicted
<1>8. /\ \A p : p \in DOMAIN found <=> \E k \in DOMAIN results : \E j \in DOMAIN results[k].findings : p = <<k, j>>
      /\ \A k \in DOMAIN results : \A j \in DOMAIN results[k].findings : found[<<k, j>>] = results[k].findings[j]
  BY FindingsAre
<1>9. /\ \A p : p \in DOMAIN new <=> \E k \in DOMAIN results : \E j \in DOMAIN r[k].findings : p = <<k, j>>
      /\ \A k \in DOMAIN results : \A j \in DOMAIN r[k].findings : new[<<k, j>>] = r[k].findings[j]
  BY <1>2, FindingsAre
<1> HIDE DEF found, new, n
<1>10. \A k \in DOMAIN results : \A j : j \in DOMAIN r[k].findings <=> j \in DOMAIN results[k].findings \/ (k = i /\ j = n)
  <2> SUFFICES ASSUME NEW k \in DOMAIN results, NEW j
               PROVE  j \in DOMAIN r[k].findings <=> j \in DOMAIN results[k].findings \/ (k = i /\ j = n)
    OBVIOUS
  <2>1. CASE k = i
    BY <1>3, <1>4, <2>1
  <2>2. CASE k # i
    BY <1>2, <2>2
  <2> QED
    BY <2>1, <2>2
<1>11. \A k \in DOMAIN results : \A j \in DOMAIN results[k].findings : r[k].findings[j] = results[k].findings[j]
  BY <1>2, <1>3, <1>4, Zenon
<1>12. <<i, n>> \notin DOMAIN found
  BY <1>3, <1>8
<1>13. \A p : p \in DOMAIN new <=> p \in DOMAIN found \/ p = <<i, n>>
  BY <1>8, <1>9, <1>10
<1>14. new[<<i, n>>] = more
  BY <1>3, <1>4, <1>9, <1>10
<1>15. ASSUME NEW q \in DOMAIN found PROVE new[q] = found[q]
  BY <1>8, <1>9, <1>10, <1>11
<1>16. DOMAIN new = DOMAIN found \cup {<<i, n>>}
  BY <1>13, Zenon
<1>17. HaveMore(r, results, <<i, n>>, more)
  BY <1>2, <1>5, <1>6, <1>7, <1>12, <1>14, <1>15, <1>16 DEF HaveMore, found, new
<1> QED
  BY <1>17 DEF r, n

(* One more unknown in a result.                                           *)
LEMMA OneMoreUnknown ==
  ASSUME NEW results \in Seq(AnyResult), NEW i \in DOMAIN results
  PROVE  LET r == [results EXCEPT ![i].unknowns = @ + 1]
         IN  /\ DOMAIN r = DOMAIN results /\ X!FindingsOf(r) = X!FindingsOf(results)
             /\ EvidenceOf(r) = EvidenceOf(results) /\ Contradicted(r) = Contradicted(results)
             /\ UnknownsOf(r)[i] = UnknownsOf(results)[i] + 1
             /\ \A j \in DOMAIN results \ {i} : UnknownsOf(r)[j] = UnknownsOf(results)[j]
<1> DEFINE r == [results EXCEPT ![i].unknowns = @ + 1]
<1>1. results[i] \in AnyResult
  OBVIOUS
<1>2. /\ DOMAIN r = DOMAIN results /\ r[i] = [results[i] EXCEPT !.unknowns = @ + 1]
      /\ \A j \in DOMAIN results : j # i => r[j] = results[j]
  OBVIOUS
<1>3. /\ r[i].findings = results[i].findings /\ r[i].evidence = results[i].evidence
      /\ r[i].unknowns = results[i].unknowns + 1 /\ r[i].contradicted = results[i].contradicted
  BY <1>1, <1>2, Zenon DEF AnyResult
<1> HIDE DEF r
<1>4. \A j \in DOMAIN results : r[j].findings = results[j].findings
  BY <1>2, <1>3, Zenon
<1>5. X!FindingsOf(r) = X!FindingsOf(results)
  <2> DEFINE f == X!FindingsOf(r)
             g == X!FindingsOf(results)
  <2>1. /\ f = [p \in DOMAIN f |-> r[p[1]].findings[p[2]]]
        /\ g = [p \in DOMAIN g |-> results[p[1]].findings[p[2]]]
    BY DEF X!FindingsOf
  <2>2. \A p : p \in DOMAIN f <=> \E k \in DOMAIN results : \E j \in DOMAIN r[k].findings : p = <<k, j>>
    BY <1>2, FindingsAre
  <2>3. \A p : p \in DOMAIN g <=> \E k \in DOMAIN results : \E j \in DOMAIN results[k].findings : p = <<k, j>>
    BY FindingsAre
  <2> HIDE DEF f, g
  <2>4. DOMAIN f = DOMAIN g
    BY <1>4, <2>2, <2>3, Zenon
  <2>5. \A p \in DOMAIN f : r[p[1]].findings[p[2]] = results[p[1]].findings[p[2]]
    BY <1>4, <2>2, <2>3
  <2>6. f = g
    BY <2>1, <2>4, <2>5
  <2> QED
    BY <2>6 DEF f, g
<1>6. EvidenceOf(r) = EvidenceOf(results) /\ Contradicted(r) = Contradicted(results)
  BY <1>2, <1>3, Zenon DEF EvidenceOf, Contradicted
<1>7. UnknownsOf(r)[i] = UnknownsOf(results)[i] + 1 /\ \A j \in DOMAIN results \ {i} : UnknownsOf(r)[j] = UnknownsOf(results)[j]
  BY <1>2, <1>3, Zenon DEF UnknownsOf
<1> QED
  BY <1>2, <1>5, <1>6, <1>7, Zenon DEF r

LEMMA TotalsAre ==
  ASSUME NEW results \in Seq(AnyResult)
  PROVE  /\ X!Total(EvidenceOf(results)) \in Nat /\ X!Total(UnknownsOf(results)) \in Nat
         /\ Contradicted(results) \in BOOLEAN
<1> DEFINE D == DOMAIN results
<1>1. IsFiniteSet(D) /\ (\A i \in D : EvidenceOf(results)[i] \in Nat /\ UnknownsOf(results)[i] \in Nat)
      /\ DOMAIN EvidenceOf(results) = D /\ DOMAIN UnknownsOf(results) = D
  BY ResultsAre DEF Reportable, EvidenceOf, UnknownsOf
<1>2. X!Total(EvidenceOf(results)) \in Nat
  BY <1>1, TotalIs, SumNat
<1>3. X!Total(UnknownsOf(results)) \in Nat
  BY <1>1, TotalIs, SumNat
<1> QED
  BY <1>2, <1>3 DEF Contradicted

LEMMA PointsAdd ==
  ASSUME NEW found, Located(found), NEW new, Located(new), NEW p, p \notin DOMAIN found,
         DOMAIN new = DOMAIN found \cup {p}, \A q \in DOMAIN found : new[q] = found[q]
  PROVE  /\ X!Total(X!PointsOf(new)) = X!Points(new[p].severity) + X!Total(X!PointsOf(found))
         /\ X!Total(X!PointsOf(found)) \in Nat
<1> DEFINE f == X!PointsOf(found)
           g == X!PointsOf(new)
           D == DOMAIN found
<1>1. IsFiniteSet(D) /\ DOMAIN f = D /\ DOMAIN g = D \cup {p}
  BY DEF Located, X!PointsOf
<1>2. g[p] = X!Points(new[p].severity) /\ g[p] \in Nat /\ \A q \in D : f[q] = g[q] /\ g[q] \in Nat
  BY PointsAre DEF X!PointsOf
<1> HIDE DEF f, g
<1>3. X!Total(g) = g[p] + X!Total(f) /\ X!Total(f) \in Nat
  BY <1>1, <1>2, TotalOfOneMore
<1> QED
  BY <1>2, <1>3 DEF f, g

Fairer(a, b) ==
  /\ a.score <= b.score
  /\ X!Confidence[a.confidence] <= X!Confidence[b.confidence]
  /\ X!SeverityRank(a.risk) <= X!SeverityRank(b.risk)

LEMMA FindingIsFair ==
  ASSUME NEW results \in Seq(AnyResult), NEW i \in DOMAIN results, NEW more \in AnyFinding
  PROVE  Fairer(X!Build([results EXCEPT ![i].findings = Append(@, more)]).assessment, X!Build(results).assessment)
<1> DEFINE r == [results EXCEPT ![i].findings = Append(@, more)]
           f == X!FindingsOf(results)
           g == X!FindingsOf(r)
           p == <<i, Len(results[i].findings) + 1>>
           e == X!Total(EvidenceOf(results))
           u == X!Total(UnknownsOf(results))
           c == Contradicted(results)
<1>1. /\ r \in Seq(AnyResult)
      /\ EvidenceOf(r) = EvidenceOf(results) /\ UnknownsOf(r) = UnknownsOf(results)
      /\ Contradicted(r) = Contradicted(results)
      /\ DOMAIN g = DOMAIN f \cup {p} /\ p \notin DOMAIN f
      /\ g[p] = more /\ \A q \in DOMAIN f : g[q] = f[q]
  <2>1. HaveMore(r, results, p, more)
    BY OneMoreFinding, Zenon
  <2> HIDE DEF r, p
  <2> QED
    BY <2>1 DEF HaveMore
<1> HIDE DEF r
<1>2. Located(f) /\ Located(g)
  BY <1>1, ResultsAre, FindingsAreLocated
<1>3. X!Build(results).assessment = X!Assess(f, e, u, c) /\ X!Build(r).assessment = X!Assess(g, e, u, c)
  BY <1>1, AssessmentIs
<1>4. e \in Nat /\ u \in Nat /\ c \in BOOLEAN
  BY TotalsAre
<1> HIDE DEF f, g, p, e, u, c
<1>5. /\ X!Total(X!PointsOf(g)) = X!Points(g[p].severity) + X!Total(X!PointsOf(f))
      /\ X!Total(X!PointsOf(f)) \in Nat
  BY <1>1, <1>2, PointsAdd
<1>6. X!Points(g[p].severity) \in Nat
  BY PointsAre
<1> DEFINE R(h) == {4} \cup {X!SeverityRank(h[q].severity) : q \in DOMAIN h}
<1>7. /\ R(f) \subseteq 0..4 /\ X!SeverityRank(X!TopRisk(f)) \in R(f) /\ X!TopRisk(f) \in SeverityNames
      /\ R(g) \subseteq 0..4 /\ X!TopRisk(g) \in SeverityNames
      /\ \A k \in R(g) : X!SeverityRank(X!TopRisk(g)) <= k
  BY <1>2, TopRiskIs, Zenon
<1>8. R(f) \subseteq R(g)
  BY <1>1
<1>9. X!Unconfirmed(f) => X!Unconfirmed(g)
  BY <1>1 DEF X!Unconfirmed
<1> HIDE DEF R
<1>10. X!SeverityRank(X!TopRisk(g)) <= X!SeverityRank(X!TopRisk(f))
  BY <1>7, <1>8
<1>11. X!Total(X!PointsOf(g)) \in Nat /\ X!Total(X!PointsOf(f)) <= X!Total(X!PointsOf(g)) /\ u <= u
  BY <1>4, <1>5, <1>6
<1>12. Fairer(X!Assess(g, e, u, c), X!Assess(f, e, u, c))
  BY <1>4, <1>5, <1>7, <1>9, <1>10, <1>11, WorseAssessment DEF Fairer
<1> QED
  BY <1>3, <1>12 DEF r

LEMMA UnknownIsFair ==
  ASSUME NEW results \in Seq(AnyResult), NEW i \in DOMAIN results
  PROVE  Fairer(X!Build([results EXCEPT ![i].unknowns = @ + 1]).assessment, X!Build(results).assessment)
<1> DEFINE r == [results EXCEPT ![i].unknowns = @ + 1]
           f == X!FindingsOf(results)
           e == X!Total(EvidenceOf(results))
           u == X!Total(UnknownsOf(results))
           v == X!Total(UnknownsOf(r))
           c == Contradicted(results)
           D == DOMAIN results
<1>1. /\ DOMAIN r = D /\ X!FindingsOf(r) = f
      /\ EvidenceOf(r) = EvidenceOf(results) /\ Contradicted(r) = c
      /\ UnknownsOf(r)[i] = UnknownsOf(results)[i] + 1
      /\ \A j \in D \ {i} : UnknownsOf(r)[j] = UnknownsOf(results)[j]
  BY OneMoreUnknown, Zenon
<1> HIDE DEF r
<1>2. Located(f) /\ Reportable(results)
  BY ResultsAre, FindingsAreLocated
<1>3. X!Build(results).assessment = X!Assess(f, e, u, c) /\ X!Build(r).assessment = X!Assess(f, e, v, c)
  BY <1>1, AssessmentIs
<1>4. e \in Nat /\ u \in Nat /\ c \in BOOLEAN
  BY TotalsAre
<1>5. v = u + 1
  <2>1. /\ IsFiniteSet(D) /\ DOMAIN UnknownsOf(results) = D /\ DOMAIN UnknownsOf(r) = D
        /\ \A j \in D : UnknownsOf(results)[j] \in Nat
    BY <1>1, <1>2 DEF Reportable, UnknownsOf
  <2> HIDE DEF D
  <2> QED
    BY <1>1, <2>1, TotalOfMore DEF D
<1>6. X!TopRisk(f) \in SeverityNames /\ X!SeverityRank(X!TopRisk(f)) \in 0..4
  BY <1>2, TopRiskIs
<1>7. X!Total(X!PointsOf(f)) \in Nat
  <2>1. /\ IsFiniteSet(DOMAIN f) /\ DOMAIN X!PointsOf(f) = DOMAIN f
        /\ \A q \in DOMAIN f : X!PointsOf(f)[q] \in Nat
    BY <1>2, PointsAre DEF Located, X!PointsOf
  <2> HIDE DEF f
  <2> QED
    BY <2>1, TotalIs, SumNat
<1> HIDE DEF f, e, u, v, c
<1>8. /\ v \in Nat /\ u <= v /\ X!Total(X!PointsOf(f)) <= X!Total(X!PointsOf(f))
      /\ X!SeverityRank(X!TopRisk(f)) <= X!SeverityRank(X!TopRisk(f))
  BY <1>4, <1>5, <1>6, <1>7
<1>9. Fairer(X!Assess(f, e, v, c), X!Assess(f, e, u, c))
  BY <1>4, <1>6, <1>7, <1>8, WorseAssessment DEF Fairer
<1> QED
  BY <1>3, <1>9 DEF r

(* The report of any results leads with a finding of the risk that it      *)
(* states, the order of the analyzers does not change its assessment, and  *)
(* one more finding or unknown in any of them does not make it better      *)
(* (report.go:12, report.go:43).                                           *)
THEOREM ReportsAreFair ==
  ASSUME NEW results \in Seq(AnyResult), NEW more \in AnyFinding
  PROVE  X!AssessmentIsFair(results, more)
<1>1. Reportable(results)
  BY ResultsAre
<1>2. X!Build(results).findings # <<>> =>
        X!Build(results).message.about.severity = X!Build(results).assessment.risk
  BY <1>1, LeadIsTheRisk
<1>3. \A order \in X!Bijection(DOMAIN results, DOMAIN results) :
        X!Build([i \in DOMAIN results |-> results[order[i]]]).assessment = X!Build(results).assessment
  <2>1. X!Bijection(DOMAIN results, DOMAIN results) = Bijection(DOMAIN results, DOMAIN results)
    BY DEF X!Bijection, X!Injection, X!Surjection, X!IsInjective, Bijection, Injection, Surjection, IsInjective
  <2> QED
    BY <1>1, <2>1, OrderOfResults
<1>4. \A i \in DOMAIN results :
        Fairer(X!Build([results EXCEPT ![i].findings = Append(@, more)]).assessment, X!Build(results).assessment)
  BY FindingIsFair
<1>5. \A i \in DOMAIN results :
        Fairer(X!Build([results EXCEPT ![i].unknowns = @ + 1]).assessment, X!Build(results).assessment)
  BY UnknownIsFair
<1> QED
  BY <1>2, <1>3, <1>4, <1>5, Zenon DEF X!AssessmentIsFair, Fairer

-----------------------------------------------------------------------------
(***************************************************************************)
(* Diagnoses                                                               *)
(***************************************************************************)

Holds(s, x) == \E i \in DOMAIN s : s[i] = x

LEMMA Joined ==
  ASSUME NEW S, NEW s \in Seq(S), NEW t \in Seq(S)
  PROVE  s \o t \in Seq(S) /\ \A x : Holds(s, x) \/ Holds(t, x) => Holds(s \o t, x)
<1>1. s \o t \in Seq(S) /\ DOMAIN (s \o t) = 1..(Len(s) + Len(t)) /\ Len(s) \in Nat /\ Len(t) \in Nat
  OBVIOUS
<1>2. DOMAIN s = 1..Len(s) /\ DOMAIN t = 1..Len(t)
  OBVIOUS
<1>3. ASSUME NEW i \in DOMAIN s PROVE i \in DOMAIN (s \o t) /\ (s \o t)[i] = s[i]
  BY <1>1, <1>2
<1>4. ASSUME NEW i \in DOMAIN t PROVE Len(s) + i \in DOMAIN (s \o t) /\ (s \o t)[Len(s) + i] = t[i]
  BY <1>1, <1>2
<1> QED
  BY <1>1, <1>3, <1>4, Zenon DEF Holds

LEMMA ScopesAre ==
  X!ToSet(X!Scopes) =
    {"cluster/events", "cluster/nodes", "cluster/pods", "platform/api-compatibility",
     "platform/observability", "platform/telemetry", "platform/telemetry-runtime",
     "policies/namespaces", "policies/pdb", "storage/pvc",
     "traffic/services", "workloads/autoscaling", "workloads/deployments", "workloads/probes",
     "workloads/resources", "workloads/risk-profile", "workloads/runtime-metrics",
     "workloads/time-series-correlation"}
<1>1. DOMAIN X!Scopes = 1..18
  BY DEF X!Scopes
<1>2. X!ToSet(X!Scopes) = {X!Scopes[i] : i \in 1..18}
  BY <1>1 DEF X!ToSet
<1> QED
  BY <1>2 DEF X!Scopes

(* What an analyzer returns: that it failed, or findings.                  *)
Sound(r) == r = X!Aborted \/ r.findings \in Seq(AnyFinding)

LEMMA FindingIs ==
  ASSUME NEW severity \in SeverityNames, NEW scope \in X!ToSet(X!Scopes), NEW unconfirmed \in BOOLEAN
  PROVE  X!Finding(severity, scope, unconfirmed) \in AnyFinding
BY DEF X!Finding, AnyFinding

LEMMA OneFinding ==
  ASSUME NEW severity \in SeverityNames, NEW scope \in X!ToSet(X!Scopes), NEW unconfirmed \in BOOLEAN
  PROVE  <<X!Finding(severity, scope, unconfirmed)>> \in Seq(AnyFinding)
BY FindingIs

LEMMA NoneOrOne ==
  ASSUME NEW severity \in SeverityNames, NEW scope \in X!ToSet(X!Scopes),
         NEW f \in {<<>>, <<X!Finding(severity, scope, FALSE)>>}
  PROVE  f \in Seq(AnyFinding)
<1>1. <<X!Finding(severity, scope, FALSE)>> \in Seq(AnyFinding)
  BY OneFinding, Zenon
<1>2. <<>> \in Seq(AnyFinding)
  OBVIOUS
<1> QED
  BY <1>1, <1>2, Zenon

LEMMA FindingIfIs ==
  ASSUME NEW severity \in SeverityNames, NEW scope \in X!ToSet(X!Scopes), NEW condition
  PROVE  X!FindingIf(condition, severity, scope) \in Seq(AnyFinding)
<1>1. <<X!Finding(severity, scope, FALSE)>> \in Seq(AnyFinding)
  BY OneFinding, Zenon
<1>2. <<>> \in Seq(AnyFinding)
  OBVIOUS
<1> QED
  BY <1>1, <1>2, Zenon DEF X!FindingIf

LEMMA ResultIs ==
  ASSUME NEW findings \in Seq(AnyFinding), NEW evidence, NEW unknowns, NEW contradicted
  PROVE  Sound(X!Result(findings, evidence, unknowns, contradicted))
BY DEF Sound, X!Result

LEMMA AbortedIs == Sound(X!Aborted)
BY DEF Sound

LEMMA ClusterInfoIs == ASSUME NEW c, NEW failing PROVE Sound(X!ClusterInfo(c, failing))
<1> DEFINE kubelets == {n.kubelet : n \in c.nodes}
           variants == X!FindingIf(X!Cardinality(kubelets) > 2, "low", "cluster/nodes")
<1>1. variants \in Seq(AnyFinding)
  <2>1. "low" \in SeverityNames /\ "cluster/nodes" \in X!ToSet(X!Scopes)
    BY ScopesAre DEF SeverityNames
  <2> QED
    BY <2>1, FindingIfIs
<1>2. \E e, u, k, f : X!ClusterInfo(c, failing) = X!Result(f, e, u, k) /\ f \in {<<>>, variants}
  BY Zenon DEF X!ClusterInfo
<1> HIDE DEF variants
<1>3. PICK e, u, k, f : X!ClusterInfo(c, failing) = X!Result(f, e, u, k) /\ f \in {<<>>, variants}
  BY <1>2
<1>4. <<>> \in Seq(AnyFinding)
  OBVIOUS
<1>5. f \in Seq(AnyFinding)
  BY <1>1, <1>3, <1>4, Zenon
<1> QED
  BY <1>3, <1>5, ResultIs

LEMMA RolloutsIs == ASSUME NEW c, NEW failing PROVE Sound(X!Rollouts(c, failing))
<1> DEFINE deps == X!SeenHere(X!Deployments(c))
           a == X!FindingIf({w \in deps : w.unavailable > 0} # {}, "high", "workloads/deployments")
           b == X!FindingIf({w \in deps : X!ProgressingIsFalse(w)} # {}, "high", "workloads/deployments")
<1>1. a \in Seq(AnyFinding) /\ b \in Seq(AnyFinding)
  <2>1. "high" \in SeverityNames /\ "workloads/deployments" \in X!ToSet(X!Scopes)
    BY ScopesAre DEF SeverityNames
  <2> QED
    BY <2>1, FindingIfIs
<1>2. X!Rollouts(c, failing) = X!Aborted \/ \E e, u, k : X!Rollouts(c, failing) = X!Result(a \o b, e, u, k)
  BY Zenon DEF X!Rollouts
<1> HIDE DEF a, b
<1> QED
  BY <1>1, <1>2, ResultIs, AbortedIs, Joined, Zenon

LEMMA ResourcesIs == ASSUME NEW c, NEW failing PROVE Sound(X!Resources(c, failing))
<1>1. \E p, q, r, e, u, k :
        \/ X!Resources(c, failing) = X!Aborted
        \/ X!Resources(c, failing) = X!Result(X!FindingIf(p, "medium", "workloads/resources")
                                                \o X!FindingIf(q, "low", "workloads/resources")
                                                \o X!FindingIf(r, "medium", "workloads/probes"), e, u, k)
  BY Zenon DEF X!Resources
<1>2. PICK p, q, r, e, u, k :
        \/ X!Resources(c, failing) = X!Aborted
        \/ X!Resources(c, failing) = X!Result(X!FindingIf(p, "medium", "workloads/resources")
                                                \o X!FindingIf(q, "low", "workloads/resources")
                                                \o X!FindingIf(r, "medium", "workloads/probes"), e, u, k)
  BY <1>1
<1> DEFINE A == X!FindingIf(p, "medium", "workloads/resources")
           B == X!FindingIf(q, "low", "workloads/resources")
           C == X!FindingIf(r, "medium", "workloads/probes")
<1>3. A \in Seq(AnyFinding) /\ B \in Seq(AnyFinding) /\ C \in Seq(AnyFinding)
  <2>1. {"medium", "low"} \subseteq SeverityNames /\ {"workloads/resources", "workloads/probes"} \subseteq X!ToSet(X!Scopes)
    BY ScopesAre DEF SeverityNames
  <2> QED
    BY <2>1, FindingIfIs
<1>4. X!Resources(c, failing) = X!Aborted \/ X!Resources(c, failing) = X!Result(A \o B \o C, e, u, k)
  BY <1>2
<1> HIDE DEF A, B, C
<1>5. (A \o B) \o C \in Seq(AnyFinding)
  BY <1>3, Joined
<1> QED
  BY <1>4, <1>5, ResultIs, AbortedIs, Zenon

LEMMA EventsIs == ASSUME NEW c, NEW failing PROVE Sound(X!Events(c, failing))
<1>1. PICK p, e, u, k :
        \/ X!Events(c, failing) = X!Aborted
        \/ X!Events(c, failing) = X!Result(X!FindingIf(p, "medium", "cluster/events"), e, u, k)
  BY Zenon DEF X!Events
<1>2. "medium" \in SeverityNames /\ "cluster/events" \in X!ToSet(X!Scopes)
  BY ScopesAre DEF SeverityNames
<1> QED
  BY <1>1, <1>2, FindingIfIs, ResultIs, AbortedIs

LEMMA BudgetsIs == ASSUME NEW c, NEW failing PROVE Sound(X!Budgets(c, failing))
<1>1. PICK p, e, u, k :
        \/ X!Budgets(c, failing) = X!Aborted
        \/ X!Budgets(c, failing) = X!Result(X!FindingIf(p, "low", "policies/pdb"), e, u, k)
  BY Zenon DEF X!Budgets
<1>2. "low" \in SeverityNames /\ "policies/pdb" \in X!ToSet(X!Scopes)
  BY ScopesAre DEF SeverityNames
<1> QED
  BY <1>1, <1>2, FindingIfIs, ResultIs, AbortedIs

LEMMA TrafficIs ==
  ASSUME NEW c, NEW failing
  PROVE  Sound(X!TrafficExposure(c, failing))
<1>1. PICK p, e, u, k :
        \/ X!TrafficExposure(c, failing) = X!Aborted
        \/ X!TrafficExposure(c, failing) = X!Result(X!FindingIf(p, "high", "traffic/services"), e, u, k)
  BY Zenon DEF X!TrafficExposure
<1>2. "high" \in SeverityNames /\ "traffic/services" \in X!ToSet(X!Scopes)
  BY ScopesAre DEF SeverityNames
<1> QED
  BY <1>1, <1>2, FindingIfIs, ResultIs, AbortedIs

LEMMA AutoscalingIs ==
  ASSUME NEW c, NEW failing
  PROVE  Sound(X!AutoscalingPosture(c, failing))
<1>1. PICK p, e, u, k :
        \/ X!AutoscalingPosture(c, failing) = X!Aborted
        \/ X!AutoscalingPosture(c, failing) = X!Result(X!FindingIf(p, "medium", "workloads/autoscaling"), e, u, k)
  BY Zenon DEF X!AutoscalingPosture
<1>2. "medium" \in SeverityNames /\ "workloads/autoscaling" \in X!ToSet(X!Scopes)
  BY ScopesAre DEF SeverityNames
<1> QED
  BY <1>1, <1>2, FindingIfIs, ResultIs, AbortedIs

LEMMA PoliciesIs ==
  ASSUME NEW c, NEW failing
  PROVE  Sound(X!PolicyCoverage(c, failing))
<1>1. PICK p, e, u, k :
        \/ X!PolicyCoverage(c, failing) = X!Aborted
        \/ X!PolicyCoverage(c, failing) = X!Result(X!FindingIf(p, "low", "policies/namespaces"), e, u, k)
  BY Zenon DEF X!PolicyCoverage
<1>2. "low" \in SeverityNames /\ "policies/namespaces" \in X!ToSet(X!Scopes)
  BY ScopesAre DEF SeverityNames
<1> QED
  BY <1>1, <1>2, FindingIfIs, ResultIs, AbortedIs

LEMMA CoverageIs ==
  ASSUME NEW inventory
  PROVE  Sound(X!TelemetryCoverage(inventory))
<1>1. PICK p, e, u, k :
        X!TelemetryCoverage(inventory) = X!Result(X!FindingIf(p, "medium", "platform/telemetry"), e, u, k)
  BY Zenon DEF X!TelemetryCoverage
<1>2. "medium" \in SeverityNames /\ "platform/telemetry" \in X!ToSet(X!Scopes)
  BY ScopesAre DEF SeverityNames
<1> QED
  BY <1>1, <1>2, FindingIfIs, ResultIs

LEMMA RuntimeMetricsIs ==
  ASSUME NEW c, NEW failing
  PROVE  Sound(X!RuntimeMetrics(c, failing))
<1>1. PICK s, f, e, u, k :
        \/ X!RuntimeMetrics(c, failing) = X!Aborted
        \/ X!RuntimeMetrics(c, failing) = X!Result(f, e, u, k)
           /\ f \in {<<>>, <<X!Finding(X!RuntimeSeverity(s), "workloads/runtime-metrics", FALSE)>>}
  BY Zenon DEF X!RuntimeMetrics
<1>2. X!RuntimeSeverity(s) \in SeverityNames /\ "workloads/runtime-metrics" \in X!ToSet(X!Scopes)
  BY ScopesAre DEF SeverityNames, X!RuntimeSeverity
<1>3. f \in {<<>>, <<X!Finding(X!RuntimeSeverity(s), "workloads/runtime-metrics", FALSE)>>} => f \in Seq(AnyFinding)
  BY <1>2, NoneOrOne, Zenon
<1> QED
  BY <1>1, <1>3, ResultIs, AbortedIs, Zenon

LEMMA RiskIs ==
  ASSUME NEW c, NEW failing
  PROVE  Sound(X!WorkloadRisk(c, failing))
<1>1. PICK s, z, f, e, u, k :
        \/ X!WorkloadRisk(c, failing) = X!Aborted
        \/ X!WorkloadRisk(c, failing) = X!Result(f, e, u, k)
           /\ f \in {<<>>, <<X!Finding(X!WorkloadSeverity(s, z), "workloads/risk-profile", FALSE)>>}
  BY Zenon DEF X!WorkloadRisk
<1>2. X!WorkloadSeverity(s, z) \in SeverityNames /\ "workloads/risk-profile" \in X!ToSet(X!Scopes)
  BY ScopesAre DEF SeverityNames, X!WorkloadSeverity
<1>3. f \in {<<>>, <<X!Finding(X!WorkloadSeverity(s, z), "workloads/risk-profile", FALSE)>>} => f \in Seq(AnyFinding)
  BY <1>2, NoneOrOne, Zenon
<1> QED
  BY <1>1, <1>3, ResultIs, AbortedIs, Zenon

LEMMA TimeSeriesIs ==
  ASSUME NEW c, NEW failing, NEW inventory, NEW reply
  PROVE  Sound(X!TimeSeriesPressure(c, failing, inventory, reply))
<1>1. ASSUME NEW answers PROVE Sound(X!Pressure(c, answers))
  <2>1. PICK s, f, e, u, k :
          X!Pressure(c, answers) = X!Result(f, e, u, k)
           /\ f \in {<<>>, <<X!Finding(X!TrendSeverity(s), "workloads/time-series-correlation", FALSE)>>}
    BY Zenon DEF X!Pressure, X!PressureOf
  <2>2. X!TrendSeverity(s) \in SeverityNames /\ "workloads/time-series-correlation" \in X!ToSet(X!Scopes)
    BY ScopesAre DEF SeverityNames, X!TrendSeverity
  <2>3. f \in Seq(AnyFinding)
    BY <2>1, <2>2, NoneOrOne, Zenon
  <2> QED
    BY <2>1, <2>3, ResultIs
<1>2. ASSUME NEW backends PROVE Sound(X!AskFirst(c, failing, backends, reply))
  <2>1. PICK e, u, k, answers :
          X!AskFirst(c, failing, backends, reply) \in {X!Aborted, X!Result(<<>>, e, u, k), X!Pressure(c, answers)}
    BY Zenon DEF X!AskFirst
  <2>2. <<>> \in Seq(AnyFinding)
    OBVIOUS
  <2> QED
    BY <1>1, <2>1, <2>2, ResultIs, AbortedIs, Zenon
<1> QED
  BY <1>2, AbortedIs DEF X!TimeSeriesPressure

LEMMA DiscoveryIs == ASSUME NEW c, NEW failing PROVE Sound(X!Discovery(c, failing))
<1>1. PICK i, e, u, k :
        X!Discovery(c, failing) \in
          {X!Aborted, X!Result(X!NoAutoscalers(c, failing) \o X!PendingClaims(c, failing) \o X!Blind(c, i), e, u, k)}
  BY Zenon DEF X!Discovery
<1> DEFINE A == X!NoAutoscalers(c, failing)
           B == X!PendingClaims(c, failing)
           C == X!Blind(c, i)
<1>2. /\ {"high", "medium"} \subseteq SeverityNames
      /\ {"workloads/autoscaling", "storage/pvc", "platform/observability"} \subseteq X!ToSet(X!Scopes)
  BY ScopesAre DEF SeverityNames
<1>3. A \in Seq(AnyFinding)
  BY <1>2, FindingIfIs DEF X!NoAutoscalers
<1>4. B \in Seq(AnyFinding)
  BY <1>2, FindingIfIs DEF X!PendingClaims
<1>5. C \in Seq(AnyFinding)
  <2>1. <<X!Finding("medium", "platform/observability", TRUE)>> \in Seq(AnyFinding)
    BY <1>2, OneFinding, Zenon
  <2>2. <<>> \in Seq(AnyFinding)
    OBVIOUS
  <2>3. C \in {<<>>, <<X!Finding("medium", "platform/observability", TRUE)>>}
    BY DEF X!Blind
  <2> HIDE DEF C
  <2> QED
    BY <2>1, <2>2, <2>3, Zenon
<1> HIDE DEF A, B, C
<1>6. (A \o B) \o C \in Seq(AnyFinding)
  BY <1>3, <1>4, <1>5, Joined
<1>7. X!Discovery(c, failing) \in {X!Aborted, X!Result((A \o B) \o C, e, u, k)}
  BY <1>1 DEF A, B, C
<1> QED
  BY <1>6, <1>7, ResultIs, AbortedIs, Zenon

LEMMA HealthFindings ==
  ASSUME NEW severity \in SeverityNames, NEW scope \in X!ToSet(X!Scopes), NEW condition
  PROVE  X!H!FindingIf(condition, severity, scope) \in Seq(AnyFinding)
<1>1. X!H!FindingIf(condition, severity, scope) = X!FindingIf(condition, severity, scope)
  BY DEF X!H!FindingIf, X!FindingIf, X!H!Finding, X!Finding
<1> QED
  BY <1>1, FindingIfIs

LEMMA HealthIs ==
  ASSUME NEW nodes, NEW pods, NEW failing, NEW hinted, NEW logs
  PROVE  Sound(X!H!Health(nodes, pods, failing, hinted, logs))
<1> DEFINE N == X!H!NodeFindings(nodes)
           P == X!H!PodFindings(pods)
           R(top) == X!H!RestartFinding(top)
<1>1. /\ {"high", "medium", "low"} \subseteq SeverityNames
      /\ {"cluster/nodes", "cluster/pods"} \subseteq X!ToSet(X!Scopes)
  BY ScopesAre DEF SeverityNames
<1>2. N \in Seq(AnyFinding)
  BY <1>1, HealthFindings, Joined DEF X!H!NodeFindings
<1>3. P \in Seq(AnyFinding)
  <2> DEFINE a == X!H!FindingIf(X!H!Pending(pods) # {}, "medium", "cluster/pods")
             b == X!H!FindingIf(\E c \in X!H!Containers(pods) : X!H!CrashLoops(c), "high", "cluster/pods")
             d == X!H!FindingIf(\E c \in X!H!Containers(pods) : X!H!Killed(c), "high", "cluster/pods")
  <2>1. a \in Seq(AnyFinding) /\ b \in Seq(AnyFinding) /\ d \in Seq(AnyFinding)
    BY <1>1, HealthFindings, Zenon
  <2>2. P = (a \o b) \o d
    BY DEF X!H!PodFindings
  <2> HIDE DEF a, b, d, P
  <2> QED
    BY <2>1, <2>2, Joined
<1>4. ASSUME NEW top PROVE R(top) \in Seq(AnyFinding)
  <2>1. R(top) \in {<<>>, <<X!Finding("medium", "cluster/pods", FALSE)>>, <<X!Finding("low", "cluster/pods", FALSE)>>}
    BY DEF X!H!RestartFinding, X!H!Finding, X!Finding
  <2>2. /\ <<X!Finding("medium", "cluster/pods", FALSE)>> \in Seq(AnyFinding)
        /\ <<X!Finding("low", "cluster/pods", FALSE)>> \in Seq(AnyFinding)
    BY <1>1, OneFinding, Zenon
  <2>3. <<>> \in Seq(AnyFinding)
    OBVIOUS
  <2> HIDE DEF R
  <2> QED
    BY <2>1, <2>2, <2>3, Zenon
<1> DEFINE top == X!H!TopRestarts(X!H!Containers(pods))
           h == X!H!Health(nodes, pods, failing, hinted, logs)
<1>5. h = X!Aborted \/ h.findings = N \/ h.findings = (N \o P) \o R(top)
  <2>1. CASE "nodes" \in failing
    BY <2>1, Zenon DEF X!H!Health, X!H!Aborted, X!Aborted
  <2>2. CASE "nodes" \notin failing /\ "pods" \in failing
    BY <2>2 DEF X!H!Health, X!H!Result
  <2>3. CASE "nodes" \notin failing /\ "pods" \notin failing
    BY <2>3, Zenon DEF X!H!Health, X!H!Result
  <2> QED
    BY <2>1, <2>2, <2>3
<1> HIDE DEF N, P, R, h, top
<1>6. (N \o P) \o R(top) \in Seq(AnyFinding)
  BY <1>2, <1>3, <1>4, Joined
<1>7. h = X!Aborted \/ h.findings \in Seq(AnyFinding)
  BY <1>2, <1>5, <1>6, Zenon
<1> QED
  BY <1>7 DEF Sound, h

Finitely(services) == IsFiniteSet(services) /\ \A s \in services : IsFiniteSet(s.ports)

LEMMA DiscoverIsFinite ==
  ASSUME NEW services, NEW inventory, Finitely(services)
  PROVE  IsFiniteSet(X!Discover(services, inventory))
<1> DEFINE Of(svc, p) == (IF inventory["time_series_metrics"] # "not_confirmed" THEN X!MetricsBackends(svc, p) ELSE {})
                            \cup (IF inventory["logs_backend"] # "not_confirmed" THEN X!LogsBackends(svc, p) ELSE {})
                            \cup (IF inventory["traces_backend"] # "not_confirmed" THEN X!TracesBackends(svc, p) ELSE {})
           From(svc) == X!DetectServiceBackends(svc, inventory)
<1>1. ASSUME NEW svc, NEW p PROVE IsFiniteSet(Of(svc, p))
  <2>1. \A s : s = {} \/ (\E b : s = {b}) => IsFiniteSet(s)
    BY FS_EmptySet, FS_Singleton, Zenon
  <2>2. X!MetricsBackends(svc, p) = {} \/ \E b : X!MetricsBackends(svc, p) = {b}
    BY DEF X!MetricsBackends
  <2>3. X!LogsBackends(svc, p) = {} \/ \E b : X!LogsBackends(svc, p) = {b}
    BY DEF X!LogsBackends
  <2>4. X!TracesBackends(svc, p) = {} \/ \E b : X!TracesBackends(svc, p) = {b}
    BY DEF X!TracesBackends
  <2> QED
    BY <2>1, <2>2, <2>3, <2>4, FS_Union, Zenon
<1> HIDE DEF Of
<1>2. ASSUME NEW svc \in services PROVE IsFiniteSet(From(svc))
  <2> DEFINE f == [p \in svc.ports |-> Of(svc, p)]
  <2>1. From(svc) = UNION {f[p] : p \in svc.ports}
    BY Zenon DEF X!DetectServiceBackends, Of
  <2>2. IsFiniteSet(svc.ports)
    BY DEF Finitely
  <2>3. \A p \in svc.ports : IsFiniteSet(f[p])
    BY <1>1
  <2> HIDE DEF f, From
  <2>4. IsFiniteSet({f[p] : p \in svc.ports})
    BY <2>2, ImageIsFinite
  <2> QED
    BY <2>1, <2>3, <2>4, FS_UNION
<1> DEFINE g == [svc \in services |-> From(svc)]
<1>3. X!Discover(services, inventory) = UNION {g[svc] : svc \in services}
  BY DEF X!Discover
<1>4. \A svc \in services : IsFiniteSet(g[svc])
  BY <1>2
<1> HIDE DEF g
<1>5. IsFiniteSet({g[svc] : svc \in services})
  BY ImageIsFinite DEF Finitely
<1> QED
  BY <1>3, <1>4, <1>5, FS_UNION

LEMMA SequenceOf ==
  ASSUME NEW S, IsFiniteSet(S)
  PROVE  DOMAIN X!SetToSeq(S) = 1..Cardinality(S) /\ Cardinality(S) \in Nat
<1> DEFINE n == Cardinality(S)
<1>1. n \in Nat /\ ExistsBijection(1..n, S)
  BY FS_CardinalityType
<1>2. PICK f : f \in Bijection(1..n, S)
  BY <1>1 DEF ExistsBijection
<1>3. f \in [1..n -> S] /\ X!IsInjective(f)
  BY <1>2 DEF Bijection, Injection, IsInjective, X!IsInjective
<1>4. X!SetToSeq(S) \in [1..n -> S]
  <2>1. X!SetToSeq(S) = CHOOSE g \in [1..n -> S] : X!IsInjective(g)
    BY SameCardinality DEF X!SetToSeq
  <2> HIDE DEF n
  <2> QED
    BY <1>3, <2>1
<1> HIDE DEF n
<1> QED
  BY <1>1, <1>4 DEF n

LEMMA SequenceIs ==
  ASSUME NEW S, NEW n \in Nat, NEW f, DOMAIN f = 1..n, f = [i \in 1..n |-> f[i]], \A i \in 1..n : f[i] \in S
  PROVE  f \in Seq(S)
OBVIOUS

LEMMA RuntimeIs ==
  ASSUME NEW c, NEW failing, NEW inventory, NEW reply, Finitely(c.services)
  PROVE  Sound(X!TelemetryRuntime(c, failing, inventory, reply))
<1> DEFINE of == X!OfKind(X!Discover(c.services, inventory), "logs")
           logs == [b \in of |-> X!ProbeLogsBackend(b, reply[b.service])]
           reached == {b \in DOMAIN logs : logs[b].reachable}
           S == {b \in reached : logs[b].health \in {"yellow", "red"}}
           sick == X!SetToSeq(S)
           At(i) == X!Finding(X!HealthSeverity(logs[sick[i]].health), "platform/telemetry-runtime", FALSE)
           f == [i \in DOMAIN sick |-> At(i)]
           r == X!TelemetryRuntime(c, failing, inventory, reply)
<1>1. r = X!Aborted \/ r.findings = f
  BY Zenon DEF X!TelemetryRuntime, X!Result
<1>2. IsFiniteSet(S)
  <2>1. S \subseteq X!Discover(c.services, inventory)
    BY DEF X!OfKind
  <2> HIDE DEF S
  <2> QED
    BY <2>1, DiscoverIsFinite, FS_Subset
<1>3. DOMAIN sick = 1..Cardinality(S) /\ Cardinality(S) \in Nat
  <2> HIDE DEF S
  <2> QED
    BY <1>2, SequenceOf
<1>4. \A i : At(i) \in AnyFinding
  <2>1. "platform/telemetry-runtime" \in X!ToSet(X!Scopes)
    BY ScopesAre
  <2>2. \A s : X!HealthSeverity(s) \in SeverityNames
    BY DEF X!HealthSeverity, SeverityNames
  <2> QED
    BY <2>1, <2>2, FindingIs, Zenon
<1> HIDE DEF S, sick, At, r
<1>5. f \in Seq(AnyFinding)
  BY <1>3, <1>4, SequenceIs
<1> QED
  BY <1>1, <1>5 DEF Sound, r

Analyzers ==
  {"clusterinfo", "discovery", "clusterhealth", "events", "workloads", "resources", "workloadrisk", "pdb",
   "telemetrycoverage", "telemetryruntime", "timeseriespressure", "trafficexposure", "autoscalingposture",
   "policycoverage", "runtimemetrics"}

LEMMA NamesAre ==
  ASSUME NEW inventory
  PROVE  /\ X!DefaultAnalyzers(inventory) \in Seq(Analyzers)
         /\ Holds(X!DefaultAnalyzers(inventory), "workloadrisk")
         /\ X!Traffic(inventory) => Holds(X!DefaultAnalyzers(inventory), "trafficexposure")
<1> DEFINE When(b, n) == IF b THEN <<n>> ELSE <<>>
           Has(k) == inventory[k] # "not_confirmed"
           h == <<"clusterinfo", "discovery", "clusterhealth", "events", "workloads", "resources", "workloadrisk",
                  "pdb", "telemetrycoverage">>
           a == When(\E k \in {"time_series_metrics", "logs_backend", "traces_backend"} : Has(k), "telemetryruntime")
           b == When(Has("time_series_metrics"), "timeseriespressure")
           c == When(X!Traffic(inventory), "trafficexposure")
           d == When(Has("traffic_entrypoint") \/ Has("workload_autoscaling"), "autoscalingposture")
           e == <<"policycoverage">>
           f == When(inventory["resource_metrics"] = "detected", "runtimemetrics")
<1>1. X!DefaultAnalyzers(inventory) = (((((h \o a) \o b) \o c) \o d) \o e) \o f
  BY DEF X!DefaultAnalyzers
<1>2. h \in Seq(Analyzers) /\ h[7] = "workloadrisk" /\ 7 \in DOMAIN h
  BY DEF Analyzers
<1>3. ASSUME NEW n \in Analyzers, NEW p PROVE When(p, n) \in Seq(Analyzers)
  OBVIOUS
<1>4. /\ a \in Seq(Analyzers) /\ b \in Seq(Analyzers) /\ c \in Seq(Analyzers) /\ d \in Seq(Analyzers)
      /\ e \in Seq(Analyzers) /\ f \in Seq(Analyzers)
  <2>1. {"telemetryruntime", "timeseriespressure", "trafficexposure", "autoscalingposture", "policycoverage",
         "runtimemetrics"} \subseteq Analyzers
    BY DEF Analyzers
  <2> HIDE DEF When
  <2>2. a \in Seq(Analyzers) /\ b \in Seq(Analyzers) /\ c \in Seq(Analyzers) /\ d \in Seq(Analyzers)
    BY <1>3, <2>1, Zenon
  <2>3. f \in Seq(Analyzers)
    BY <1>3, <2>1
  <2>4. e \in Seq(Analyzers)
    BY <2>1
  <2> QED
    BY <2>2, <2>3, <2>4, Zenon
<1>5. Holds(h, "workloadrisk")
  BY <1>2, Zenon DEF Holds
<1>6. X!Traffic(inventory) => Holds(c, "trafficexposure")
  <2>1. ASSUME X!Traffic(inventory) PROVE c[1] = "trafficexposure" /\ 1 \in DOMAIN c
    BY <2>1
  <2> QED
    BY <2>1, Zenon DEF Holds
<1> HIDE DEF h, a, b, c, d, e, f
<1>7. h \o a \in Seq(Analyzers) /\ Holds(h \o a, "workloadrisk")
  BY <1>2, <1>4, <1>5, Joined
<1> DEFINE s == h \o a
<1> HIDE DEF s
<1>8. s \o b \in Seq(Analyzers) /\ Holds(s \o b, "workloadrisk")
  BY <1>4, <1>7, Joined, Zenon DEF s
<1> DEFINE t == s \o b
<1> HIDE DEF t
<1>9. /\ t \o c \in Seq(Analyzers) /\ Holds(t \o c, "workloadrisk")
      /\ X!Traffic(inventory) => Holds(t \o c, "trafficexposure")
  BY <1>4, <1>6, <1>8, Joined, Zenon DEF t
<1> DEFINE u == t \o c
<1> HIDE DEF u
<1>10. /\ u \o d \in Seq(Analyzers) /\ Holds(u \o d, "workloadrisk")
       /\ X!Traffic(inventory) => Holds(u \o d, "trafficexposure")
  BY <1>4, <1>9, Joined, Zenon DEF u
<1> DEFINE v == u \o d
<1> HIDE DEF v
<1>11. /\ v \o e \in Seq(Analyzers) /\ Holds(v \o e, "workloadrisk")
       /\ X!Traffic(inventory) => Holds(v \o e, "trafficexposure")
  BY <1>4, <1>10, Joined, Zenon DEF v
<1> DEFINE w == v \o e
<1> HIDE DEF w
<1>12. /\ w \o f \in Seq(Analyzers) /\ Holds(w \o f, "workloadrisk")
       /\ X!Traffic(inventory) => Holds(w \o f, "trafficexposure")
  BY <1>4, <1>11, Joined, Zenon DEF w
<1>13. X!DefaultAnalyzers(inventory) = w \o f
  BY <1>1 DEF w, v, u, t, s
<1> QED
  BY <1>12, <1>13

LEMMA AnalyzerIs ==
  ASSUME NEW name \in Analyzers, NEW run, NEW inventory, Finitely(run.cluster.services)
  PROVE  Sound(X!RunAnalyzer(name, run, inventory))
<1> DEFINE r == X!RunAnalyzer(name, run, inventory)
           c == run.cluster
           failing == run.fails[name]
<1>1. CASE name = "clusterinfo"
  BY <1>1, ClusterInfoIs DEF X!RunAnalyzer
<1>2. CASE name = "discovery"
  BY <1>2, DiscoveryIs DEF X!RunAnalyzer
<1>3. CASE name = "clusterhealth"
  BY <1>3, HealthIs DEF X!RunAnalyzer
<1>4. CASE name = "events"
  BY <1>4, EventsIs DEF X!RunAnalyzer
<1>5. CASE name = "workloads"
  BY <1>5, RolloutsIs DEF X!RunAnalyzer
<1>6. CASE name = "resources"
  BY <1>6, ResourcesIs DEF X!RunAnalyzer
<1>7. CASE name = "workloadrisk"
  BY <1>7, RiskIs DEF X!RunAnalyzer
<1>8. CASE name = "pdb"
  BY <1>8, BudgetsIs DEF X!RunAnalyzer
<1>9. CASE name = "telemetrycoverage"
  BY <1>9, CoverageIs DEF X!RunAnalyzer
<1>10. CASE name = "telemetryruntime"
  BY <1>10, RuntimeIs DEF X!RunAnalyzer
<1>11. CASE name = "timeseriespressure"
  BY <1>11, TimeSeriesIs DEF X!RunAnalyzer
<1>12. CASE name = "trafficexposure"
  BY <1>12, TrafficIs DEF X!RunAnalyzer
<1>13. CASE name = "autoscalingposture"
  BY <1>13, AutoscalingIs DEF X!RunAnalyzer
<1>14. CASE name = "policycoverage"
  BY <1>14, PoliciesIs DEF X!RunAnalyzer
<1>15. CASE name = "runtimemetrics"
  BY <1>15, RuntimeMetricsIs DEF X!RunAnalyzer
<1> QED
  BY <1>1, <1>2, <1>3, <1>4, <1>5, <1>6, <1>7, <1>8, <1>9, <1>10, <1>11, <1>12, <1>13, <1>14, <1>15 DEF Analyzers

LEMMA SoundAreFindable ==
  ASSUME NEW n \in Nat, NEW results, DOMAIN results = 1..n,
         \A i \in 1..n : results[i].findings \in Seq(AnyFinding)
  PROVE  Findable(results)
<1>1. IsFiniteSet(1..n)
  BY FS_Interval
<1>2. ASSUME NEW i \in 1..n
      PROVE  /\ IsFiniteSet(DOMAIN results[i].findings) /\ DOMAIN results[i].findings \subseteq Nat
             /\ \A j \in DOMAIN results[i].findings : results[i].findings[j].severity \in SeverityNames
  <2>1. PICK s \in Seq(AnyFinding) : s = results[i].findings
    OBVIOUS
  <2>2. DOMAIN s = 1..Len(s) /\ Len(s) \in Nat /\ \A j \in DOMAIN s : s[j] \in AnyFinding
    OBVIOUS
  <2>3. IsFiniteSet(1..Len(s))
    BY <2>2, FS_Interval
  <2> QED
    BY <2>1, <2>2, <2>3 DEF AnyFinding
<1> QED
  BY <1>1, <1>2 DEF Findable

(* A result that leads with a finding of a scope and a severity.           *)
Leads(r, scope, severities) ==
  1 \in DOMAIN r.findings /\ r.findings[1].scope = scope /\ r.findings[1].severity \in severities

LEMMA LeadIsTold ==
  ASSUME NEW results, Findable(results), NEW i \in DOMAIN results, NEW scope, NEW severities,
         Leads(results[i], scope, severities)
  PROVE  X!Tells(X!Build(results), scope, severities)
<1> DEFINE found == X!FindingsOf(results)
           p == <<i, 1>>
           n == 1 + Cardinality(X!Ahead(found, p))
<1>1. p \in DOMAIN found /\ found[p] = results[i].findings[1]
  BY FindingsAre DEF Leads
<1>2. Located(found)
  BY FoundAreLocated
<1>3. X!Build(results).findings = X!BySeverity(found)
  BY DEF X!Build
<1>4. found[p].scope = scope /\ found[p].severity \in severities
  BY <1>1 DEF Leads
<1> HIDE DEF found, p
<1>5. n \in DOMAIN X!BySeverity(found) /\ X!BySeverity(found)[n] = found[p]
  BY <1>1, <1>2, FindingsAreReported
<1> HIDE DEF n
<1>6. /\ n \in DOMAIN X!Build(results).findings
      /\ X!Build(results).findings[n].scope = scope /\ X!Build(results).findings[n].severity \in severities
  BY <1>3, <1>4, <1>5
<1> QED
  BY <1>6, Zenon DEF X!Tells

LEMMA WarningIs ==
  ASSUME NEW messages \in Seq(BOOLEAN)
  PROVE  X!WarningResult(messages).findings \in Seq(AnyFinding)
<1> DEFINE I == {i \in DOMAIN messages : messages[i]}
           n == Cardinality(I)
           x == X!Finding("medium", "platform/api-compatibility", FALSE)
           f == [i \in 1..n |-> x]
<1>1. X!WarningResult(messages).findings = f
  BY SameCardinality DEF X!WarningResult, X!Result
<1>2. n \in Nat
  <2>1. DOMAIN messages = 1..Len(messages) /\ Len(messages) \in Nat /\ I \subseteq DOMAIN messages
    OBVIOUS
  <2>2. IsFiniteSet(1..Len(messages))
    BY <2>1, FS_Interval
  <2> HIDE DEF I
  <2>3. IsFiniteSet(I)
    BY <2>1, <2>2, FS_Subset
  <2> QED
    BY <2>3, FS_CardinalityType
<1>3. x \in AnyFinding
  BY ScopesAre, FindingIs, Zenon DEF SeverityNames
<1> HIDE DEF n, x
<1>4. f \in Seq(AnyFinding)
  BY <1>2, <1>3, SequenceIs
<1> QED
  BY <1>1, <1>4

(* Diagnose with the inventory that the analyzers are chosen by.           *)
Inventory(run) == X!Detect(run.cluster, run.fails["detect"], TRUE)

ResultsOf(run) ==
  [i \in DOMAIN X!DefaultAnalyzers(Inventory(run)) |->
     X!RunAnalyzer(X!DefaultAnalyzers(Inventory(run))[i], run, Inventory(run))]

LEMMA ReportIs ==
  ASSUME NEW run, Finitely(run.cluster.services), run.warnings \in Seq(BOOLEAN), X!Diagnose(run) # X!NoReport,
         NEW name, Holds(X!DefaultAnalyzers(Inventory(run)), name)
  PROVE  LET r == X!RunAnalyzer(name, run, Inventory(run))
         IN  /\ r # X!Aborted
             /\ \A scope, severities : Leads(r, scope, severities) => X!Tells(X!Diagnose(run), scope, severities)
<1> DEFINE names == X!DefaultAnalyzers(Inventory(run))
           results == ResultsOf(run)
           n == Len(names)
           w == X!WarningResult(run.warnings)
           r == X!RunAnalyzer(name, run, Inventory(run))
<1>1. X!Diagnose(run) = X!ReportOf(X!RunEngine(results), run.warnings)
  BY DEF X!Diagnose, X!RunAll, ResultsOf, Inventory
<1>2. /\ names \in Seq(Analyzers) /\ n \in Nat /\ DOMAIN names = 1..n
      /\ \A i \in 1..n : names[i] \in Analyzers
  BY NamesAre
<1>3. DOMAIN results = 1..n /\ \A i \in 1..n : results[i] = X!RunAnalyzer(names[i], run, Inventory(run))
  BY <1>2 DEF ResultsOf
<1>4. \A i \in 1..n : Sound(results[i])
  BY <1>2, <1>3, AnalyzerIs
<1>5. PICK i \in 1..n : names[i] = name
  BY <1>2 DEF Holds
<1>6. results[i] = r
  BY <1>3, <1>5
<1> HIDE DEF results, n, names, w, r
<1>7. X!Aborted \notin X!ToSet(results)
  BY <1>1 DEF X!RunEngine, X!ReportOf
<1>8. \A j \in 1..n : results[j] # X!Aborted
  BY <1>3, <1>7 DEF X!ToSet
<1>9. \A j \in 1..n : results[j].findings \in Seq(AnyFinding)
  BY <1>4, <1>8 DEF Sound
<1>10. X!Diagnose(run) \in {X!Build(results), X!Build(Append(results, w))}
  BY <1>1, <1>7 DEF X!RunEngine, X!ReportOf, w
<1>11. Findable(results)
  BY <1>2, <1>3, <1>9, SoundAreFindable DEF n
<1>12. /\ DOMAIN Append(results, w) = 1..(n + 1) /\ i \in 1..(n + 1)
       /\ Append(results, w)[i] = r
       /\ \A j \in 1..(n + 1) : Append(results, w)[j].findings \in Seq(AnyFinding)
  <2> DEFINE T == {results[j] : j \in 1..n} \cup {w}
  <2>1. results = [j \in 1..n |-> results[j]]
    BY <1>2, <1>3 DEF results, ResultsOf, n, names
  <2>2. results \in Seq(T) /\ w \in T /\ Len(results) = n
    BY <1>2, <1>3, <2>1, SequenceIs
  <2> HIDE DEF T
  <2>3. /\ DOMAIN Append(results, w) = 1..(n + 1) /\ Append(results, w)[n + 1] = w
        /\ \A j \in 1..n : Append(results, w)[j] = results[j]
    BY <1>2, <2>2
  <2>4. \A j \in 1..(n + 1) : j = n + 1 \/ j \in 1..n
    BY <1>2
  <2>5. w.findings \in Seq(AnyFinding)
    BY WarningIs DEF w
  <2> QED
    BY <1>2, <1>6, <1>9, <2>3, <2>4, <2>5
<1>13. Findable(Append(results, w))
  <2>1. n + 1 \in Nat
    BY <1>2
  <2> QED
    BY <1>12, <2>1, SoundAreFindable, Zenon
<1>14. ASSUME NEW scope, NEW severities, Leads(r, scope, severities)
       PROVE  X!Tells(X!Diagnose(run), scope, severities)
  <2>1. X!Tells(X!Build(results), scope, severities)
    BY <1>3, <1>6, <1>11, <1>14, LeadIsTold, Zenon
  <2> DEFINE more == Append(results, w)
  <2>2. i \in DOMAIN more /\ more[i] = r /\ Findable(more)
    BY <1>12, <1>13
  <2> HIDE DEF more
  <2>3. X!Tells(X!Build(more), scope, severities)
    BY <1>14, <2>2, LeadIsTold
  <2> QED
    BY <1>10, <2>1, <2>3 DEF more
<1> QED
  BY <1>6, <1>8, <1>14 DEF r

(* Numbers of a workload as the API gives them.                            *)
Numbered(w) ==
  /\ w.replicas = Unset \/ w.replicas \in Nat
  /\ w.ready \in Nat
  /\ \A k \in {"readiness", "liveness", "requests", "limits"} : w.missing[k] \in Nat

LEMMA ProfileIs ==
  ASSUME NEW c, NEW w, Finite(c), Numbered(w)
  PROVE  LET p == X!Profile(c, w)
         IN  /\ p.desired \in Nat /\ p.ready \in Nat /\ p.services \in Nat /\ p.external \in Nat
             /\ p.missingReadiness \in Nat /\ p.missingLiveness \in Nat
             /\ p.missingRequests \in Nat /\ p.missingLimits \in Nat
             /\ p.desired = X!NewProfile(w).desired
             /\ p.external = Cardinality(X!ExternalOf(c, w)) /\ p.services = Cardinality(X!ServicesOf(c, w))
             /\ p.endpoints \in Nat
<1> DEFINE p == X!Profile(c, w)
<1>1. /\ p.desired = X!NewProfile(w).desired /\ p.ready = w.ready
      /\ p.missingReadiness = w.missing.readiness /\ p.missingLiveness = w.missing.liveness
      /\ p.missingRequests = w.missing.requests /\ p.missingLimits = w.missing.limits
      /\ p.external = Cardinality(X!ExternalOf(c, w)) /\ p.services = Cardinality(X!ServicesOf(c, w))
  BY SameCardinality DEF X!Profile, X!NewProfile
<1>2. X!NewProfile(w).desired \in Nat
  BY DEF X!NewProfile, Numbered
<1>3. w.ready \in Nat /\ w.missing.readiness \in Nat /\ w.missing.liveness \in Nat /\ w.missing.requests \in Nat
      /\ w.missing.limits \in Nat
  BY DEF Numbered
<1>4. IsFiniteSet(X!ServicesOf(c, w)) /\ IsFiniteSet(X!ExternalOf(c, w))
  BY ServicesAreFinite, FS_Subset DEF X!ExternalOf
<1>5. Cardinality(X!ServicesOf(c, w)) \in Nat /\ Cardinality(X!ExternalOf(c, w)) \in Nat
  BY <1>4, FS_CardinalityType
<1>6. p.endpoints \in Nat
  <2> DEFINE D == X!ServicesOf(c, w)
             f == [s \in D |-> X!ReadyEndpoints(c, s)]
  <2>1. p.endpoints = SumOver(f, D)
    BY <1>4, EndpointsAre
  <2>2. \A s \in D : f[s] \in Nat
    BY ReadyType
  <2> HIDE DEF f, D
  <2> QED
    BY <1>4, <2>1, <2>2, SumNat DEF D
<1> HIDE DEF p
<1> QED
  BY <1>1, <1>2, <1>3, <1>5, <1>6 DEF p

LEMMA MissingIs ==
  ASSUME NEW n \in Nat
  PROVE  /\ X!PerContainer(n, 6, 14) \in 0..14 /\ X!PerContainer(n, 4, 10) \in 0..10
         /\ X!PerContainer(n, 2, 8) \in 0..8
BY DEF X!PerContainer, X!If, X!Lesser

LEMMA ScoreIs ==
  ASSUME NEW c, NEW w, Finite(c), Numbered(w)
  PROVE  LET p == X!Profile(c, w)
         IN  /\ X!ScoreProfile(p) \in 0..200
             /\ X!Unserved(c, w) => X!ScoreProfile(p) >= 20
             /\ p.services > 0 /\ p.external > 0 /\ p.desired = 1 => X!ScoreProfile(p) >= 20
<1> DEFINE p == X!Profile(c, w)
<1>1. /\ p.desired \in Nat /\ p.ready \in Nat /\ p.services \in Nat /\ p.external \in Nat /\ p.endpoints \in Nat
      /\ p.missingReadiness \in Nat /\ p.missingLiveness \in Nat
      /\ p.missingRequests \in Nat /\ p.missingLimits \in Nat
  BY ProfileIs
<1>2. X!Unserved(c, w) <=> p.external > 0 /\ p.endpoints = 0
  BY DEF X!Unserved
<1> HIDE DEF p
<1>3. PICK a \in 0..30 : a = X!If(p.ready < p.desired, 30)
  BY DEF X!If
<1>4. PICK b \in 0..45 : b = X!EndpointScore(p) /\ (p.external > 0 /\ p.endpoints = 0 => b = 45)
  BY <1>1 DEF X!EndpointScore, X!If
<1>5. PICK s \in 0..8 : s = X!If(p.services > 0 /\ p.desired = 1, 8) /\ (p.services > 0 /\ p.desired = 1 => s = 8)
  BY DEF X!If
<1>6. PICK d \in 0..18 : d = X!If(p.external > 0 /\ p.desired = 1, 18) /\ (p.external > 0 /\ p.desired = 1 => d = 18)
  BY DEF X!If
<1>7. PICK e \in 0..12 : e = X!If(p.external > 0 /\ ~p.hpa, 12)
  BY DEF X!If
<1>8. PICK f \in 0..10 : f = X!If(p.services > 0 /\ p.desired > 1 /\ ~p.pdb, 10)
  BY DEF X!If
<1>9. PICK g \in 0..14 : g = X!PerContainer(p.missingReadiness, 6, 14)
  <2>1. X!PerContainer(p.missingReadiness, 6, 14) \in 0..14
    BY <1>1, MissingIs
  <2> QED
    BY <2>1
<1>10. PICK h \in 0..10 : h = X!PerContainer(p.missingLiveness, 4, 10)
  <2>1. X!PerContainer(p.missingLiveness, 4, 10) \in 0..10
    BY <1>1, MissingIs
  <2> QED
    BY <2>1
<1>11. PICK i \in 0..10 : i = X!PerContainer(p.missingRequests, 4, 10)
  <2>1. X!PerContainer(p.missingRequests, 4, 10) \in 0..10
    BY <1>1, MissingIs
  <2> QED
    BY <2>1
<1>12. PICK j \in 0..8 : j = X!PerContainer(p.missingLimits, 2, 8)
  <2>1. X!PerContainer(p.missingLimits, 2, 8) \in 0..8
    BY <1>1, MissingIs
  <2> QED
    BY <2>1
<1>13. PICK k \in 0..8 : k = X!If(p.stateful /\ p.pvc /\ p.external > 0 /\ p.desired = 1, 8)
  BY DEF X!If
<1>14. X!ScoreProfile(p) = a + b + s + d + e + f + g + h + i + j + k
  BY <1>3, <1>4, <1>5, <1>6, <1>7, <1>8, <1>9, <1>10, <1>11, <1>12, <1>13, Zenon DEF X!ScoreProfile
<1>15. /\ a + b + s + d + e + f + g + h + i + j + k \in 0..200
       /\ a + b + s + d + e + f + g + h + i + j + k >= b
       /\ a + b + s + d + e + f + g + h + i + j + k >= s + d
  BY ONLY a \in 0..30, b \in 0..45, s \in 0..8, d \in 0..18, e \in 0..12, f \in 0..10, g \in 0..14, h \in 0..10,
          i \in 0..10, j \in 0..8, k \in 0..8
<1>16. PICK score \in 0..200 : score = X!ScoreProfile(p) /\ score >= b /\ score >= s + d
  BY <1>14, <1>15, Zenon
<1>17. X!Unserved(c, w) => score >= 20
  BY <1>2, <1>4, <1>16
<1>18. p.services > 0 /\ p.external > 0 /\ p.desired = 1 => score >= 20
  BY <1>1, <1>5, <1>6, <1>16
<1> QED
  BY <1>16, <1>17, <1>18, Zenon DEF p

LEMMA SeveritiesAre == X!Range(X!Severities) = SeverityNames
<1>1. DOMAIN X!Severities = 1..5
  BY DEF X!Severities
<1>2. X!Range(X!Severities) = {X!Severities[i] : i \in 1..5}
  BY <1>1 DEF X!Range
<1> QED
  BY <1>2 DEF X!Severities, SeverityNames

(* A workload whose score is high is a risk.                               *)
LEMMA HighScoreIsRisk ==
  ASSUME NEW c, NEW failing, Finite(c), \A v \in X!Seen(c.workloads) : Numbered(v),
         NEW w \in X!Seen(c.workloads), X!ScoreProfile(X!Profile(c, w)) >= 20,
         X!WorkloadRisk(c, failing) # X!Aborted
  PROVE  Leads(X!WorkloadRisk(c, failing), "workloads/risk-profile", X!Range(X!Severities))
<1> DEFINE scores == X!RiskScores(c)
           scored == {v \in DOMAIN scores : scores[v] > 0}
           worst == X!Worst({scores[v] : v \in scored})
           zero == X!Cardinality({v \in scored : X!Unserved(c, v)})
           r == X!WorkloadRisk(c, failing)
           f == X!Finding(X!WorkloadSeverity(worst, zero), "workloads/risk-profile", FALSE)
           B == {0} \cup {scores[v] : v \in scored}
<1>1. DOMAIN scores = X!Seen(c.workloads) /\ \A v \in DOMAIN scores : scores[v] = X!ScoreProfile(X!Profile(c, v))
  BY DEF X!RiskScores
<1>2. \A v \in DOMAIN scores : scores[v] \in 0..200
  BY <1>1, ScoreIs
<1>3. scores[w] \in B /\ scores[w] >= 20
  BY <1>1, <1>2
<1>4. B \subseteq 0..200 /\ B # {}
  BY <1>2
<1>5. worst = X!Max(B)
  BY DEF X!Worst
<1> HIDE DEF B
<1>6. worst \in 0..200 /\ scores[w] <= worst
  BY <1>3, <1>4, <1>5, GreatestIs, Zenon
<1>7. ~(worst < 20)
  BY <1>1, <1>2, <1>3, <1>6
<1>8. failing \cap X!ToSet(X!RiskLists) = {}
  BY Zenon DEF X!WorkloadRisk
<1>9. r.findings = <<f>>
  BY <1>7, <1>8, Zenon DEF X!WorkloadRisk, X!Result
<1>10. f.scope = "workloads/risk-profile" /\ f.severity = X!WorkloadSeverity(worst, zero)
  BY DEF X!Finding
<1>11. X!WorkloadSeverity(worst, zero) \in X!Range(X!Severities)
  BY SeveritiesAre DEF X!WorkloadSeverity, SeverityNames
<1> HIDE DEF f, r
<1>12. 1 \in DOMAIN r.findings /\ r.findings[1] = f
  BY <1>9
<1> QED
  BY <1>10, <1>11, <1>12 DEF Leads, r

(* What has an exposed service but no ready endpoint makes trafficexposure *)
(* speak of that service.                                                  *)
LEMMA UnservedIsTold ==
  ASSUME NEW c, NEW failing, Finite(c), "slices" \notin failing,
         NEW w \in X!Seen(c.workloads), X!Unserved(c, w), NEW s \in X!ServicesOf(c, w), X!FromOutside(s),
         X!TrafficExposure(c, failing) # X!Aborted
  PROVE  Leads(X!TrafficExposure(c, failing), "traffic/services", {"high"})
<1> DEFINE r == X!TrafficExposure(c, failing)
           f == X!Finding("high", "traffic/services", FALSE)
<1>1. s \in X!Seen(c.services) /\ s.selector # {}
  BY DEF X!ServicesOf, X!Matches
<1>2. X!ReadyEndpoints(c, s) = 0
  BY UnservedIs
<1>3. ASSUME NEW l \in c.slices, l.ns = s.ns, l.service = s.name, NEW e \in DOMAIN l.endpoints
      PROVE  ~X!IsReady(l.endpoints[e])
  <2> DEFINE D == X!SlicesBehind(c, s)
             g == [t \in D |-> X!ReadyIn(t)]
             R(t) == {x \in DOMAIN t.endpoints : X!IsReady(t.endpoints[x])}
  <2>1. l \in D
    BY <1>1, <1>3 DEF X!SlicesBehind, X!Seen
  <2>2. IsFiniteSet(D) /\ \A t \in D : t \in c.slices
    BY FS_Subset DEF Finite, X!SlicesBehind, X!Seen
  <2>3. \A t \in D : IsFiniteSet(R(t))
    BY <2>2, FS_Subset DEF Finite
  <2>4. \A t \in D : g[t] = Cardinality(R(t))
    BY SameCardinality DEF X!ReadyIn
  <2> HIDE DEF R
  <2>5. \A t \in D : g[t] \in Nat
    BY <2>3, <2>4, FS_CardinalityType
  <2>6. SumOver(g, D) = 0
    BY <1>2, <2>2, ReadyAre
  <2> HIDE DEF D, g
  <2>7. g[l] = 0
    BY <2>1, <2>2, <2>5, <2>6, SumZero
  <2>8. R(l) = {}
    BY <2>1, <2>3, <2>4, <2>7, FS_EmptySet
  <2> QED
    BY <2>8 DEF R
<1>4. s \in X!UnservedServices(c)
  BY <1>1, <1>3 DEF X!UnservedServices
<1>5. "services" \notin failing
  BY Zenon DEF X!TrafficExposure
<1>6. r.findings = <<f>>
  BY <1>4, <1>5, Zenon DEF X!TrafficExposure, X!Result, X!FindingIf
<1>7. f.scope = "traffic/services" /\ f.severity = "high"
  BY DEF X!Finding
<1> HIDE DEF f, r
<1>8. 1 \in DOMAIN r.findings /\ r.findings[1] = f
  BY <1>6
<1> QED
  BY <1>7, <1>8 DEF Leads, r

(* What is exposed with one replica and no autoscaler has a high score.    *)
LEMMA SingleScores ==
  ASSUME NEW c, Finite(c), NEW w \in X!SingleReplicas(c), Numbered(w)
  PROVE  w \in X!Seen(c.workloads) /\ X!ScoreProfile(X!Profile(c, w)) >= 20
<1> DEFINE p == X!Profile(c, w)
<1>1. w \in X!Seen(c.workloads) /\ X!NewProfile(w).desired = 1
  BY DEF X!SingleReplicas, X!Seen, X!Deployments
<1>2. PICK s \in c.services : s.ns = w.ns /\ X!FromOutside(s) /\ X!Matches(s.selector, w.labels)
  BY DEF X!SingleReplicas
<1>3. s \in X!ServicesOf(c, w) /\ s \in X!ExternalOf(c, w)
  BY <1>1, <1>2 DEF X!ServicesOf, X!ExternalOf, X!External, X!Seen
<1>4. IsFiniteSet(X!ServicesOf(c, w)) /\ IsFiniteSet(X!ExternalOf(c, w))
  BY ServicesAreFinite, FS_Subset DEF X!ExternalOf
<1>5. \A S : IsFiniteSet(S) /\ S # {} => Cardinality(S) > 0
  BY FS_EmptySet, FS_CardinalityType
<1>6. Cardinality(X!ServicesOf(c, w)) > 0 /\ Cardinality(X!ExternalOf(c, w)) > 0
  BY <1>3, <1>4, <1>5
<1>7. p.desired = 1 /\ p.services > 0 /\ p.external > 0
  BY <1>1, <1>6, ProfileIs
<1> QED
  BY <1>1, <1>7, ScoreIs

SignalsOf(c, failing, includeSystem) ==
  X!Groups(IF "groups" \in failing THEN {} ELSE c.groups)
    \cup X!Components(IF "pods" \in failing THEN {} ELSE X!DetectPlatformComponents(c.pods, includeSystem))
    \cup X!Services(UNION {X!DetectServiceSignals(s) :
                             s \in IF "services" \in failing THEN {}
                                   ELSE {s \in c.services : X!Included(s.ns, includeSystem)}})

LEMMA DetectIs ==
  ASSUME NEW c, NEW failing, NEW includeSystem
  PROVE  X!Detect(c, failing, includeSystem) = X!BuildInventory(SignalsOf(c, failing, includeSystem))
BY DEF X!Detect, SignalsOf

(* What is seen without the system namespaces is seen with them.           *)
LEMMA MoreIsSeen ==
  ASSUME NEW c, NEW failing, NEW includeSystem
  PROVE  SignalsOf(c, failing, includeSystem) \subseteq SignalsOf(c, failing, TRUE)
<1> DEFINE pods(b) == {p \in c.pods : X!Included(p.ns, b)}
           Row(p) == X!FirstMatch(X!PodTable, LAMBDA r : r.words \cap p.words # {})
           services(b) == IF "services" \in failing THEN {} ELSE {s \in c.services : X!Included(s.ns, b)}
           components(b) == IF "pods" \in failing THEN {} ELSE X!DetectPlatformComponents(c.pods, b)
           named(b) == UNION {X!DetectServiceSignals(s) : s \in services(b)}
           groups == IF "groups" \in failing THEN {} ELSE c.groups
<1>1. pods(includeSystem) \subseteq pods(TRUE)
  BY DEF X!Included
<1>2. X!DetectPlatformComponents(c.pods, includeSystem) \subseteq X!DetectPlatformComponents(c.pods, TRUE)
  <2>1. \A b : X!DetectPlatformComponents(c.pods, b) = UNION {Row(p) : p \in pods(b)}
    BY DEF X!DetectPlatformComponents
  <2> HIDE DEF Row, pods
  <2> QED
    BY <1>1, <2>1, Zenon
<1>3. components(includeSystem) \subseteq components(TRUE)
  BY <1>2, Zenon
<1>4. services(includeSystem) \subseteq services(TRUE)
  BY DEF X!Included
<1> HIDE DEF services
<1>5. named(includeSystem) \subseteq named(TRUE)
  BY <1>4, Zenon
<1>6. \A b : SignalsOf(c, failing, b) = X!Groups(groups) \cup X!Components(components(b)) \cup X!Services(named(b))
  BY DEF SignalsOf, services
<1> HIDE DEF components, named, groups
<1>7. X!Components(components(includeSystem)) \subseteq X!Components(components(TRUE))
  BY <1>3, Zenon DEF X!Components
<1>8. X!Services(named(includeSystem)) \subseteq X!Services(named(TRUE))
  BY <1>5, Zenon DEF X!Services
<1> QED
  BY <1>6, <1>7, <1>8, Zenon

LEMMA MoreIsTrusted ==
  ASSUME NEW c, NEW failing, NEW includeSystem, NEW k \in X!Capabilities
  PROVE  X!Trust[X!Detect(c, failing, includeSystem)[k]] <= X!Trust[X!Detect(c, failing, TRUE)[k]]
<1> DEFINE a == SignalsOf(c, failing, includeSystem)
           b == SignalsOf(c, failing, TRUE)
           Confirmed(s) == CASE X!DetectedBy[k] \cap s # {} -> "detected"
                          [] X!DetectedBy[k] \cap s = {} /\ X!HintedBy[k] \cap s # {} -> "candidate"
                          [] OTHER -> "not_confirmed"
<1>1. a \subseteq b
  BY MoreIsSeen, Zenon
<1>2. X!Detect(c, failing, includeSystem)[k] = Confirmed(a) /\ X!Detect(c, failing, TRUE)[k] = Confirmed(b)
  BY DetectIs, Zenon DEF X!BuildInventory
<1> HIDE DEF a, b
<1>3. \/ Confirmed(b) = "detected"
      \/ Confirmed(b) = "candidate" /\ Confirmed(a) \in {"candidate", "not_confirmed"}
      \/ Confirmed(b) = "not_confirmed" /\ Confirmed(a) = "not_confirmed"
  BY <1>1
<1>4. Confirmed(a) \in {"detected", "candidate", "not_confirmed"}
  OBVIOUS
<1>5. X!Trust["not_confirmed"] = 0 /\ X!Trust["candidate"] = 1 /\ X!Trust["detected"] = 2
  BY DEF X!Trust
<1>6. PICK i \in {"detected", "candidate", "not_confirmed"}, j \in {"detected", "candidate", "not_confirmed"} :
        /\ i = Confirmed(a) /\ j = Confirmed(b)
        /\ \/ j = "detected"
           \/ j = "candidate" /\ i \in {"candidate", "not_confirmed"}
           \/ j = "not_confirmed" /\ i = "not_confirmed"
  BY <1>3, <1>4
<1> HIDE DEF Confirmed
<1>7. X!Trust[i] <= X!Trust[j]
  BY <1>5, <1>6
<1> QED
  BY <1>2, <1>6, <1>7, Zenon

LEMMA NetworkIsTraffic ==
  ASSUME NEW c, NEW failing, NEW includeSystem, "networking.k8s.io" \in c.groups, "groups" \notin failing
  PROVE  X!Traffic(X!Detect(c, failing, includeSystem))
<1> DEFINE s == SignalsOf(c, failing, includeSystem)
           g == <<"group", "networking.k8s.io">>
           k == "traffic_entrypoint"
<1>1. g \in s
  BY DEF SignalsOf, X!Groups
<1>2. k \in DOMAIN X!DetectedBy /\ g \in X!DetectedBy[k]
  BY DEF X!DetectedBy, X!Groups
<1> HIDE DEF s, g
<1>3. X!DetectedBy[k] \cap s # {}
  BY <1>1, <1>2
<1>4. X!BuildInventory(s)[k] = "detected"
  BY <1>2, <1>3 DEF X!BuildInventory, X!Capabilities
<1> QED
  BY <1>4, DetectIs DEF X!Traffic, s

(* Runs of which every analyzer can make something: finitely many services *)
(* with finitely many ports, finitely many slices of endpoints, workloads  *)
(* whose numbers are numbers, and every analyzer and the detection with    *)
(* the calls that fail in it.                                              *)
Observable(run) ==
  /\ Finite(run.cluster) /\ Finitely(run.cluster.services)
  /\ \A w \in run.cluster.workloads : Numbered(w)
  /\ Analyzers \cup {"detect"} \subseteq DOMAIN run.fails
  /\ run.warnings \in Seq(BOOLEAN)

(* In any such run, whatever calls fail: where trafficexposure should speak *)
(* of an exposed service without ready endpoints, it does, and so does     *)
(* workloadrisk; what autoscalingposture speaks of is a risk, too; and     *)
(* discovery is no more confident than the choice of the analyzers.        *)
THEOREM AnalyzersAreOfOneMind ==
  ASSUME NEW run, Observable(run)
  PROVE  X!AnalyzersAgreeOn(run)
<1> DEFINE c == run.cluster
           calls == UNION {run.fails[a] : a \in DOMAIN run.fails}
           report == X!Diagnose(run)
           inventory == Inventory(run)
           AtRisk == X!Tells(report, "workloads/risk-profile", X!Range(X!Severities))
           risk == X!WorkloadRisk(c, run.fails["workloadrisk"])
           traffic == X!TrafficExposure(c, run.fails["trafficexposure"])
<1>1. \A a \in Analyzers \cup {"detect"} : run.fails[a] \subseteq calls
  BY DEF Observable
<1>2. /\ Finite(c) /\ Finitely(c.services) /\ run.warnings \in Seq(BOOLEAN)
      /\ \A w \in X!Seen(c.workloads) : Numbered(w)
  BY DEF Observable, X!Seen
<1>3. X!RunAnalyzer("workloadrisk", run, inventory) = risk
  BY DEF X!RunAnalyzer
<1>4. X!RunAnalyzer("trafficexposure", run, inventory) = traffic
  BY DEF X!RunAnalyzer
<1> HIDE DEF risk, traffic, report, inventory, calls
<1>5. ASSUME report # X!NoReport
      PROVE  /\ risk # X!Aborted
             /\ Leads(risk, "workloads/risk-profile", X!Range(X!Severities)) => AtRisk
  <2>1. Holds(X!DefaultAnalyzers(inventory), "workloadrisk")
    BY NamesAre
  <2> QED
    BY <1>2, <1>3, <1>5, <2>1, ReportIs DEF report, inventory
<1>6. ASSUME report # X!NoReport, X!Traffic(inventory)
      PROVE  /\ traffic # X!Aborted
             /\ Leads(traffic, "traffic/services", {"high"}) => X!Tells(report, "traffic/services", {"high"})
  <2>1. Holds(X!DefaultAnalyzers(inventory), "trafficexposure")
    BY <1>6, NamesAre
  <2> QED
    BY <1>2, <1>4, <1>6, <2>1, ReportIs DEF report, inventory
<1>7. ASSUME report # X!NoReport, NEW w \in X!Seen(c.workloads), X!ScoreProfile(X!Profile(c, w)) >= 20
      PROVE  AtRisk
  BY <1>2, <1>5, <1>7, HighScoreIsRisk DEF risk
<1>8. ASSUME report # X!NoReport, "networking.k8s.io" \in c.groups, calls \cap {"groups", "slices"} = {},
             NEW w \in X!Seen(c.workloads), X!Unserved(c, w), NEW s \in X!ServicesOf(c, w), X!FromOutside(s)
      PROVE  X!Tells(report, "traffic/services", {"high"}) /\ AtRisk
  <2>1. X!Traffic(inventory)
    <3>1. "groups" \notin run.fails["detect"]
      BY <1>1, <1>8
    <3> QED
      BY <1>8, <3>1, NetworkIsTraffic, Zenon DEF inventory, Inventory
  <2>2. "slices" \notin run.fails["trafficexposure"]
    BY <1>1, <1>8 DEF Analyzers
  <2>3. Leads(traffic, "traffic/services", {"high"})
    BY <1>2, <1>6, <1>8, <2>1, <2>2, UnservedIsTold DEF traffic
  <2>4. X!ScoreProfile(X!Profile(c, w)) >= 20
    BY <1>2, <1>8, ScoreIs
  <2> QED
    BY <1>6, <1>7, <1>8, <2>1, <2>3, <2>4
<1>9. ASSUME report # X!NoReport, X!SingleReplicas(c) # {} PROVE AtRisk
  <2>1. PICK w \in X!SingleReplicas(c) : TRUE
    BY <1>9
  <2>2. w \in X!Seen(c.workloads)
    BY <2>1 DEF X!SingleReplicas, X!Seen, X!Deployments
  <2> QED
    BY <1>2, <1>7, <1>9, <2>1, <2>2, SingleScores
<1>10. \A k \in X!Capabilities :
         X!Trust[X!Detect(c, calls, IncludeSystem)[k]] <= X!Trust[X!Detect(c, calls, TRUE)[k]]
  BY MoreIsTrusted, Zenon
<1> QED
  BY <1>8, <1>9, <1>10, Zenon DEF X!AnalyzersAgreeOn, report, calls

-----------------------------------------------------------------------------
(***************************************************************************)
(* Links of a repository                                                   *)
(***************************************************************************)
(* A path has elements, the last of which is the name of the file.         *)
IsPath(p) == p # <<>> /\ \E S : p \in Seq(S)

LEMMA FrontIs ==
  ASSUME NEW p, IsPath(p)
  PROVE  /\ Len(p) \in Nat \ {0} /\ Len(L!Front(p)) = Len(p) - 1 /\ DOMAIN L!Front(p) = 1..(Len(p) - 1)
         /\ \A i \in 1..(Len(p) - 1) : L!Front(p)[i] = p[i]
         /\ \E S : L!Front(p) \in Seq(S)
<1>1. PICK S : p \in Seq(S)
  BY DEF IsPath
<1>2. p # <<>>
  BY DEF IsPath
<1>3. L!Front(p) = [i \in 1..(Len(p) - 1) |-> p[i]] /\ Len(p) \in Nat \ {0}
  BY <1>1, <1>2 DEF L!Front
<1>4. L!Front(p) \in Seq(S) /\ Len(L!Front(p)) = Len(p) - 1
  BY <1>1, <1>3
<1> QED
  BY <1>3, <1>4, Zenon

(* A file is below the directory that it is in, and below those above.     *)
LEMMA FrontIsPrefix ==
  ASSUME NEW p, IsPath(p)
  PROVE  L!IsPrefix(L!Front(p), p)
<1>1. PICK S : p \in Seq(S)
  BY DEF IsPath
<1>2. p # <<>>
  BY DEF IsPath
<1> QED
  BY <1>1, <1>2 DEF L!Front, L!IsPrefix

LEMMA PrefixIs ==
  ASSUME NEW p, NEW q, (\E S : p \in Seq(S)), (\E S : q \in Seq(S))
  PROVE  L!IsPrefix(p, q) <=> Len(p) <= Len(q) /\ \A i \in 1..Len(p) : p[i] = q[i]
<1>1. PICK S : p \in Seq(S)
  OBVIOUS
<1>2. PICK T : q \in Seq(T)
  OBVIOUS
<1>3. SubSeq(p, 1, Len(p)) = [i \in 1..Len(p) |-> p[i]]
  BY <1>1
<1>4. ASSUME Len(p) <= Len(q) PROVE SubSeq(q, 1, Len(p)) = [i \in 1..Len(p) |-> q[i]]
  BY <1>1, <1>2, <1>4
<1> QED
  BY <1>3, <1>4 DEF L!IsPrefix

Paths(repo) == \A f \in DOMAIN repo : IsPath(repo[f].path)

(* One edge, or none.                                                      *)
Edge(repo, f, g) == g = f \/ g \in L!Build(repo)[f]

LEMMA NearIs ==
  ASSUME NEW repo, NEW f, NEW g, NEW h, Edge(repo, f, g), Edge(repo, g, h)
  PROVE  h \in L!Near2(L!Build(repo), f)
BY DEF Edge, L!Near2, L!Onward

LEMMA FartherIs ==
  ASSUME NEW repo, NEW f, NEW g, NEW h, Edge(repo, f, g), h \in L!Near2(L!Build(repo), g)
  PROVE  h \in L!Near3(L!Build(repo), f)
<1> DEFINE b == L!Build(repo)
<1>1. h = g \/ h \in b[g] \/ \E k \in b[g] \cup {g} : h \in b[k]
  BY DEF L!Near2, L!Onward
<1>2. g = f \/ g \in b[f]
  BY DEF Edge
<1> HIDE DEF b
<1> QED
  BY <1>1, <1>2 DEF L!Near3, L!Near2, L!Onward, b

LEMMA IntrinsicIsEdge ==
  ASSUME NEW repo, NEW f \in DOMAIN repo, NEW g \in L!IntrinsicEdges(repo, f)
  PROVE  Edge(repo, f, g)
<1>1. \E rest : L!Build(repo)[f] = (L!IntrinsicEdges(repo, f) \cup rest) \ {f}
  BY Zenon DEF L!Build
<1> QED
  BY <1>1 DEF Edge

(* A chart in the directory p: its file, its values, its templates.        *)
ChartFile(repo, p, f)  == f \in L!FilesIn(repo, p) /\ repo[f].name = "Chart"
ValuesFile(repo, p, f) == f \in L!FilesIn(repo, p) /\ L!IsValues(repo[f]) /\ L!IsYAML(repo[f])
Template(repo, p, f)   == f \in L!FilesIn(repo, Append(p, "templates")) /\ repo[f].name # "Chart"

LEMMA ChartIs ==
  ASSUME NEW repo, Paths(repo), NEW p \in L!Charts(repo)
  PROVE  /\ p # <<>> /\ \E S : p \in Seq(S)
         /\ \E f : ChartFile(repo, p, f)
         /\ \E f : ValuesFile(repo, p, f)
<1>1. PICK f \in DOMAIN repo : repo[f].name = "Chart" /\ L!Dir(repo[f]) = p
  BY DEF L!Charts
<1>2. ChartFile(repo, p, f)
  BY <1>1 DEF ChartFile, L!FilesIn
<1>3. \E S : p \in Seq(S)
  BY <1>1, FrontIs DEF Paths, L!Dir
<1>4. p # <<>> /\ \E g : ValuesFile(repo, p, g)
  BY DEF L!Charts, ValuesFile
<1> QED
  BY <1>2, <1>3, <1>4

LEMMA TemplateIs ==
  ASSUME NEW repo, Paths(repo), NEW p, p # <<>>, (\E S : p \in Seq(S)),
         NEW f \in L!FilesIn(repo, Append(p, "templates"))
  PROVE  /\ f \in DOMAIN repo /\ L!Dir(repo[f]) = Append(p, "templates")
         /\ L!Front(L!Dir(repo[f])) = p
         /\ L!InTemplates(repo[f].path)
         /\ f \in L!Templates(repo, p)
<1> DEFINE q == repo[f].path
<1>1. f \in DOMAIN repo /\ L!Dir(repo[f]) = Append(p, "templates") /\ L!Front(q) = Append(p, "templates")
  BY DEF L!FilesIn, L!Dir
<1>2. PICK S : p \in Seq(S)
  OBVIOUS
<1>3. Len(p) \in Nat \ {0} /\ Len(Append(p, "templates")) = Len(p) + 1 /\ Append(p, "templates")[Len(p) + 1] = "templates"
  BY <1>2
<1>4. IsPath(q)
  BY <1>1 DEF Paths
<1> HIDE DEF q
<1>5. Len(q) = Len(p) + 2 /\ q[Len(p) + 1] = "templates"
  BY <1>1, <1>3, <1>4, FrontIs
<1>6. L!Front(Append(p, "templates")) = p
  BY <1>2, <1>3 DEF L!Front
<1>7. L!InTemplates(q)
  BY <1>3, <1>5 DEF L!InTemplates
<1>8. L!IsPrefix(Append(p, "templates"), q)
  BY <1>1, <1>4, FrontIsPrefix, Zenon
<1> QED
  BY <1>1, <1>6, <1>7, <1>8 DEF L!Templates, L!FilesBelow, L!Below, q

LEMMA FromChart ==
  ASSUME NEW repo, Paths(repo), NEW p, p # <<>>, (\E S : p \in Seq(S)), NEW f, ChartFile(repo, p, f), NEW g,
         ValuesFile(repo, p, g) \/ Template(repo, p, g)
  PROVE  Edge(repo, f, g)
<1>1. f \in DOMAIN repo /\ L!Dir(repo[f]) = p /\ repo[f].name = "Chart"
  BY DEF ChartFile, L!FilesIn
<1>2. L!IntrinsicEdges(repo, f) = L!Templates(repo, p) \cup ({h \in DOMAIN repo : L!IsValues(repo[h])} \cap L!FilesBelow(repo, p))
  <2>1. ~L!IsValues(repo[f]) /\ repo[f].name \notin {"helmfile", "kustomization"}
    BY <1>1 DEF L!IsValues
  <2> QED
    BY <1>1, <2>1 DEF L!IntrinsicEdges
<1>3. CASE Template(repo, p, g)
  <2>1. g \in L!Templates(repo, p)
    BY <1>3, TemplateIs DEF Template
  <2> QED
    BY <1>1, <1>2, <2>1, IntrinsicIsEdge
<1>4. CASE ValuesFile(repo, p, g)
  <2>1. g \in DOMAIN repo /\ L!Front(repo[g].path) = p /\ L!IsValues(repo[g])
    BY <1>4 DEF ValuesFile, L!FilesIn, L!Dir
  <2>2. g \in L!FilesBelow(repo, p)
    BY <2>1, FrontIsPrefix DEF Paths, L!FilesBelow, L!Below
  <2> QED
    BY <1>1, <1>2, <2>1, <2>2, IntrinsicIsEdge
<1> QED
  BY <1>3, <1>4

LEMMA ToChart ==
  ASSUME NEW repo, NEW f \in DOMAIN repo, (L!IsValues(repo[f]) /\ L!IsYAML(repo[f])) \/ repo[f].name = "helmfile",
         NEW p, NEW g, ChartFile(repo, p, g)
  PROVE  Edge(repo, f, g)
<1>1. g \in {h \in DOMAIN repo : repo[h].name = "Chart"}
  BY DEF ChartFile, L!FilesIn
<1>2. repo[f].name # "Chart" /\ (L!IsValues(repo[f]) => repo[f].name # "helmfile")
  BY DEF L!IsValues
<1> DEFINE charts == {h \in DOMAIN repo : repo[h].name = "Chart"}
<1>3. charts \subseteq L!IntrinsicEdges(repo, f)
  <2>1. CASE repo[f].name = "helmfile"
    <3>1. ~L!IsValues(repo[f])
      BY <2>1 DEF L!IsValues
    <3>2. L!IntrinsicEdges(repo, f) = {h \in DOMAIN repo : L!IsValues(repo[h]) /\ L!IsYAML(repo[h])} \cup charts
      BY <2>1, <3>1 DEF L!IntrinsicEdges
    <3> QED
      BY <3>2
  <2>2. CASE L!IsValues(repo[f]) /\ L!IsYAML(repo[f])
    <3>1. repo[f].name \notin {"Chart", "helmfile", "kustomization"}
      BY <2>2 DEF L!IsValues
    <3>2. L!IntrinsicEdges(repo, f) = L!Templates(repo, L!Dir(repo[f])) \cup charts
      BY <2>2, <3>1 DEF L!IntrinsicEdges
    <3> QED
      BY <3>2
  <2> QED
    BY <2>1, <2>2
<1> QED
  BY <1>1, <1>3, IntrinsicIsEdge

LEMMA FromTemplate ==
  ASSUME NEW repo, Paths(repo), NEW p, p # <<>>, (\E S : p \in Seq(S)), NEW f, Template(repo, p, f),
         repo[f].name # "helmfile", ~(L!IsValues(repo[f]) /\ L!IsYAML(repo[f])), NEW g,
         ValuesFile(repo, p, g) \/ Template(repo, p, g)
  PROVE  Edge(repo, f, g)
<1> DEFINE d == Append(p, "templates")
<1>1. f \in DOMAIN repo /\ L!Dir(repo[f]) = d /\ L!Front(L!Dir(repo[f])) = p /\ L!InTemplates(repo[f].path)
  BY TemplateIs DEF Template
<1>2. repo[f].name # "Chart"
  BY DEF Template
<1> HIDE DEF d
<1>3. L!IntrinsicEdges(repo, f) = L!FilesIn(repo, d) \cup ({h \in DOMAIN repo : L!IsValues(repo[h])} \cap L!FilesIn(repo, p))
  BY <1>1, <1>2 DEF L!IntrinsicEdges
<1>4. g \in L!IntrinsicEdges(repo, f)
  BY <1>3 DEF ValuesFile, Template, L!FilesIn, d
<1> QED
  BY <1>1, <1>4, IntrinsicIsEdge

OfChart(repo, p, f) == ChartFile(repo, p, f) \/ ValuesFile(repo, p, f) \/ Template(repo, p, f)

LEMMA OfChartAre ==
  ASSUME NEW repo, NEW p, NEW f \in L!ChartFiles(repo, p)
  PROVE  OfChart(repo, p, f) /\ f \in DOMAIN repo
BY DEF OfChart, ChartFile, ValuesFile, Template, L!ChartFiles, L!FilesIn

(* From any file of a chart to any other one in two edges: by the file of  *)
(* the chart, or by its values to that file.                               *)
LEMMA ChartIsNear ==
  ASSUME NEW repo, Paths(repo), NEW p \in L!Charts(repo), NEW f \in DOMAIN repo, OfChart(repo, p, f),
         NEW g, OfChart(repo, p, g)
  PROVE  g \in L!Near2(L!Build(repo), f)
<1>1. p # <<>> /\ \E S : p \in Seq(S)
  BY ChartIs
<1>2. PICK c : ChartFile(repo, p, c)
  BY ChartIs
<1>3. PICK v : ValuesFile(repo, p, v)
  BY ChartIs
<1>4. v \in DOMAIN repo /\ L!IsValues(repo[v]) /\ L!IsYAML(repo[v])
  BY <1>3 DEF ValuesFile, L!FilesIn
<1>5. \A x : Edge(repo, x, x)
  BY DEF Edge
<1>6. ASSUME NEW x, Edge(repo, f, x), Edge(repo, x, g) PROVE g \in L!Near2(L!Build(repo), f)
  BY <1>6, NearIs
<1>7. CASE ChartFile(repo, p, f)
  <2>1. CASE ChartFile(repo, p, g)
    <3>1. Edge(repo, f, v) /\ Edge(repo, v, g)
      BY <1>1, <1>3, <1>4, <1>7, <2>1, FromChart, ToChart
    <3> QED
      BY <1>6, <3>1
  <2>2. CASE ValuesFile(repo, p, g) \/ Template(repo, p, g)
    <3>1. Edge(repo, f, g)
      BY <1>1, <1>7, <2>2, FromChart
    <3> QED
      BY <1>5, <1>6, <3>1
  <2> QED
    BY <2>1, <2>2 DEF OfChart
<1>8. CASE (L!IsValues(repo[f]) /\ L!IsYAML(repo[f])) \/ repo[f].name = "helmfile"
  <2>1. CASE ChartFile(repo, p, g)
    <3>1. Edge(repo, f, g)
      BY <1>8, <2>1, ToChart
    <3> QED
      BY <1>5, <1>6, <3>1
  <2>2. CASE ValuesFile(repo, p, g) \/ Template(repo, p, g)
    <3>1. Edge(repo, f, c)
      BY <1>2, <1>8, ToChart
    <3>2. Edge(repo, c, g)
      BY <1>1, <1>2, <2>2, FromChart
    <3> QED
      BY <1>6, <3>1, <3>2
  <2> QED
    BY <2>1, <2>2 DEF OfChart
<1>9. CASE Template(repo, p, f) /\ ~(L!IsValues(repo[f]) /\ L!IsYAML(repo[f])) /\ repo[f].name # "helmfile"
  <2>1. CASE ChartFile(repo, p, g)
    <3>1. Edge(repo, f, v)
      BY <1>1, <1>3, <1>9, FromTemplate
    <3>2. Edge(repo, v, g)
      BY <1>4, <2>1, ToChart
    <3> QED
      BY <1>6, <3>1, <3>2
  <2>2. CASE ValuesFile(repo, p, g) \/ Template(repo, p, g)
    <3>1. Edge(repo, f, g)
      BY <1>1, <1>9, <2>2, FromTemplate
    <3> QED
      BY <1>5, <1>6, <3>1
  <2> QED
    BY <2>1, <2>2 DEF OfChart
<1> QED
  BY <1>7, <1>8, <1>9 DEF OfChart, ValuesFile

(* Any repository: all files of a chart are within two edges of each of    *)
(* them (graph.go:145).                                                    *)
THEOREM ChartsHangTogether ==
  ASSUME NEW repo, Paths(repo)
  PROVE  L!ChartHangsTogether(repo)
<1> SUFFICES ASSUME NEW p \in L!Charts(repo), NEW f \in L!ChartFiles(repo, p), NEW g \in L!ChartFiles(repo, p)
             PROVE  g \in L!Near2(L!Build(repo), f)
  BY DEF L!ChartHangsTogether
<1> QED
  BY OfChartAre, ChartIsNear

CleanNext(h, p, k) == IF k = 0 THEN <<>> ELSE L!CleanStep(h[k - 1], p[k])

LEMMA CleaningExists ==
  ASSUME NEW p, Len(p) \in Nat
  PROVE  \E h : h = [k \in 0..Len(p) |-> CleanNext(h, p, k)]
<1> DEFINE n == Len(p)
           Upto(h, m) == DOMAIN h = 0..n /\ \A k \in 0..m : h[k] = CleanNext(h, p, k)
           G == {m \in 0..n : \E h : Upto(h, m)}
<1>1. 0 \in G
  <2> DEFINE h == [k \in 0..n |-> <<>>]
  <2>1. Upto(h, 0)
    BY DEF CleanNext
  <2> HIDE DEF h
  <2> QED
    BY <2>1
<1>2. ASSUME NEW m \in 1..n, m - 1 \in G PROVE m \in G
  <2>1. PICK h : Upto(h, m - 1)
    BY <1>2
  <2> DEFINE g == [k \in 0..n |-> IF k <= m - 1 THEN h[k] ELSE CleanNext(h, p, k)]
  <2>2. DOMAIN g = 0..n
    OBVIOUS
  <2>3. ASSUME NEW k \in 0..m PROVE g[k] = CleanNext(g, p, k)
    <3>1. g[k] = CleanNext(h, p, k)
      BY <2>1
    <3>2. k # 0 => g[k - 1] = h[k - 1]
      OBVIOUS
    <3> QED
      BY <3>1, <3>2 DEF CleanNext
  <2> HIDE DEF g
  <2>4. Upto(g, m)
    BY <2>2, <2>3
  <2> QED
    BY <2>4
<1>3. n \in G
  <2> HIDE DEF G
  <2> QED
    BY <1>1, <1>2, UpTo
<1>4. PICK h : Upto(h, n)
  BY <1>3
<1>5. h = [k \in 0..n |-> CleanNext(h, p, k)]
  BY <1>4
<1> QED
  BY <1>5

LEMMA CleanIs ==
  ASSUME NEW p, Len(p) \in Nat
  PROVE  \E h : /\ L!Clean(p) = h[Len(p)] /\ h[0] = <<>>
                /\ \A k \in 1..Len(p) : h[k] = L!CleanStep(h[k - 1], p[k])
<1> DEFINE h == CHOOSE h : h = [k \in 0..Len(p) |-> CleanNext(h, p, k)]
<1>1. h = [k \in 0..Len(p) |-> CleanNext(h, p, k)]
  BY CleaningExists
<1>2. L!Clean(p) = h[Len(p)]
  BY DEF L!Clean, CleanNext
<1> HIDE DEF h
<1>3. h[0] = <<>> /\ \A k \in 1..Len(p) : h[k] = L!CleanStep(h[k - 1], p[k])
  BY <1>1 DEF CleanNext
<1> QED
  BY <1>2, <1>3

(* What is clean has dots only in front.                                   *)
Normal(q) == \A i \in 1..Len(q) : q[i] \notin {".", "/"} /\ (q[i] = ".." => i = 1 \/ q[i - 1] = "..")

LEMMA StepIsNormal ==
  ASSUME NEW S, NEW out \in Seq(S), Normal(out), NEW c \in S
  PROVE  L!CleanStep(out, c) \in Seq(S) /\ Normal(L!CleanStep(out, c))
<1>1. CASE c \in {".", "/"}
  BY <1>1 DEF L!CleanStep
<1>2. CASE c = ".." /\ out # <<>> /\ L!Last(out) # ".."
  <2>1. L!CleanStep(out, c) = [i \in 1..(Len(out) - 1) |-> out[i]] /\ Len(out) \in Nat \ {0}
    BY <1>2 DEF L!CleanStep, L!Front
  <2>2. L!CleanStep(out, c) \in Seq(S) /\ Len(L!CleanStep(out, c)) = Len(out) - 1
    BY <2>1
  <2> QED
    BY <2>1, <2>2 DEF Normal
<1>3. CASE c \notin {".", "/"} /\ ~(c = ".." /\ out # <<>> /\ L!Last(out) # "..")
  <2>1. L!CleanStep(out, c) = Append(out, c)
    BY <1>3 DEF L!CleanStep
  <2>2. Append(out, c) \in Seq(S) /\ Len(Append(out, c)) = Len(out) + 1 /\ Len(out) \in Nat
    OBVIOUS
  <2>3. Append(out, c)[Len(out) + 1] = c /\ \A i \in 1..Len(out) : Append(out, c)[i] = out[i]
    OBVIOUS
  <2>4. c = ".." /\ Len(out) # 0 => out[Len(out)] = ".."
    BY <1>3 DEF L!Last
  <2> QED
    BY <1>3, <2>1, <2>2, <2>3, <2>4 DEF Normal
<1> QED
  BY <1>1, <1>2, <1>3

LEMMA CleanIsNormal ==
  ASSUME NEW S, NEW p \in Seq(S)
  PROVE  L!Clean(p) \in Seq(S) /\ Normal(L!Clean(p))
<1> DEFINE n == Len(p)
<1>1. n \in Nat /\ \A k \in 1..n : p[k] \in S
  OBVIOUS
<1>2. PICK h : L!Clean(p) = h[n] /\ h[0] = <<>> /\ \A k \in 1..n : h[k] = L!CleanStep(h[k - 1], p[k])
  BY <1>1, CleanIs
<1> DEFINE G == {k \in 0..n : h[k] \in Seq(S) /\ Normal(h[k])}
<1> HIDE DEF n
<1>3. 0 \in G
  <2>1. <<>> \in Seq(S) /\ Len(<<>>) = 0
    OBVIOUS
  <2>2. Normal(<<>>)
    BY <2>1 DEF Normal
  <2>3. h[0] \in Seq(S) /\ Normal(h[0])
    BY ONLY <1>2, <2>1, <2>2, Zenon
  <2> QED
    BY <1>1, <2>3
<1>4. ASSUME NEW k \in 1..n, k - 1 \in G PROVE k \in G
  <2>1. h[k - 1] \in Seq(S) /\ Normal(h[k - 1]) /\ p[k] \in S /\ h[k] = L!CleanStep(h[k - 1], p[k])
    BY <1>1, <1>2, <1>4
  <2>2. h[k] \in Seq(S) /\ Normal(h[k])
    BY <2>1, StepIsNormal
  <2> QED
    BY <1>1, <2>2
<1> HIDE DEF G
<1>5. n \in G
  BY <1>1, <1>3, <1>4, UpTo
<1> QED
  BY <1>2, <1>5 DEF G

LEMMA NoDots ==
  ASSUME NEW S, NEW q \in Seq(S), Normal(q), q # <<>>, Head(q) # ".."
  PROVE  \A i \in 1..Len(q) : q[i] \notin {".", "/", ".."}
<1> DEFINE n == Len(q)
           G == {i \in 0..n : i # 0 => q[i] # ".."}
<1>1. n \in Nat \ {0} /\ q[1] # ".."
  OBVIOUS
<1>2. 0 \in G
  OBVIOUS
<1>3. ASSUME NEW i \in 1..n, i - 1 \in G PROVE i \in G
  BY <1>1, <1>3 DEF Normal
<1> HIDE DEF G
<1>4. \A i \in 0..n : i \in G
  BY <1>1, <1>2, <1>3, UpTo
<1> QED
  BY <1>4 DEF G, Normal

LEMMA CleanIsFixed ==
  ASSUME NEW S, NEW q \in Seq(S), \A i \in 1..Len(q) : q[i] \notin {".", "/", ".."}
  PROVE  L!Clean(q) = q
<1> DEFINE n == Len(q)
<1>1. n \in Nat
  OBVIOUS
<1>2. PICK h : L!Clean(q) = h[n] /\ h[0] = <<>> /\ \A k \in 1..n : h[k] = L!CleanStep(h[k - 1], q[k])
  BY <1>1, CleanIs
<1> DEFINE G == {k \in 0..n : h[k] = SubSeq(q, 1, k)}
<1>3. 0 \in G
  <2>1. SubSeq(q, 1, 0) = <<>>
    OBVIOUS
  <2>2. h[0] = SubSeq(q, 1, 0)
    BY ONLY <1>2, <2>1, Zenon
  <2> QED
    BY <1>1, <2>2
<1>4. ASSUME NEW k \in 1..n, k - 1 \in G PROVE k \in G
  <2>1. h[k] = Append(SubSeq(q, 1, k - 1), q[k])
    BY <1>2, <1>4, Zenon DEF L!CleanStep
  <2>2. Append(SubSeq(q, 1, k - 1), q[k]) = SubSeq(q, 1, k)
    OBVIOUS
  <2> QED
    BY <2>1, <2>2
<1> HIDE DEF G
<1>5. n \in G
  BY <1>1, <1>3, <1>4, UpTo
<1>6. SubSeq(q, 1, n) = q
  OBVIOUS
<1> QED
  BY <1>2, <1>5, <1>6 DEF G

(* A clean path that starts with a name stays as it is when it is cleaned  *)
(* again.                                                                  *)
LEMMA CleanTwice ==
  ASSUME NEW S, NEW p \in Seq(S), L!Clean(p) # <<>>, Head(L!Clean(p)) # ".."
  PROVE  L!Clean(L!Clean(p)) = L!Clean(p) /\ Head(L!Clean(p)) # "/"
<1> DEFINE q == L!Clean(p)
<1>1. q \in Seq(S) /\ Normal(q)
  BY CleanIsNormal
<1> HIDE DEF q
<1>2. q # <<>> /\ Head(q) # ".."
  BY DEF q
<1>3. \A i \in 1..Len(q) : q[i] \notin {".", "/", ".."}
  BY <1>1, <1>2, NoDots
<1>4. Head(q) # "/"
  BY <1>1, <1>2, <1>3
<1> QED
  BY <1>1, <1>3, <1>4, CleanIsFixed DEF q

LEMMA SameCardinalityOfFiles == ASSUME NEW S PROVE L!Cardinality(S) = Cardinality(S)
BY DEF L!Cardinality, Cardinality

FileTypes == {"yaml", "hcl", "tfvars", "command", "tpl", "other"}

(* The files of a repository, in an order, each with a type of its own.    *)
Files(repo) == (\E n \in Nat : DOMAIN repo = 1..n) /\ \A f \in DOMAIN repo : repo[f].type \in FileTypes

Ranks == {L!GraphRank, L!PromptRank}

LEMMA PriorityIs ==
  ASSUME NEW rank \in Ranks, NEW file, file.type \in FileTypes
  PROVE  L!Priority(rank, file) \in 0..100 /\ (L!Priority(rank, file) = 100 <=> file.name = "Chart")
<1>1. /\ DOMAIN L!GraphRank \cap FileTypes = FileTypes /\ "Chart" \in DOMAIN L!GraphRank
      /\ \A x \in DOMAIN L!GraphRank : L!GraphRank[x] \in 0..100 /\ (L!GraphRank[x] = 100 <=> x = "Chart")
  BY DEF L!GraphRank, FileTypes
<1>2. /\ DOMAIN L!PromptRank \cap FileTypes = FileTypes /\ "Chart" \in DOMAIN L!PromptRank
      /\ \A x \in DOMAIN L!PromptRank : L!PromptRank[x] \in 0..100 /\ (L!PromptRank[x] = 100 <=> x = "Chart")
  BY DEF L!PromptRank, FileTypes
<1>3. /\ FileTypes \subseteq DOMAIN rank /\ "Chart" \in DOMAIN rank
      /\ \A x \in DOMAIN rank : rank[x] \in 0..100 /\ (rank[x] = 100 <=> x = "Chart")
  BY <1>1, <1>2 DEF Ranks
<1>4. file.type # "Chart"
  BY DEF FileTypes
<1>5. L!RanksByName(rank, file) => file.name \in DOMAIN rank
  BY DEF L!RanksByName
<1>6. file.name = "Chart" => L!RanksByName(rank, file)
  BY <1>3 DEF L!RanksByName
<1>7. CASE L!RanksByName(rank, file)
  <2>1. L!Priority(rank, file) = rank[file.name]
    BY <1>7 DEF L!Priority
  <2> QED
    BY <1>3, <1>5, <1>7, <2>1
<1>8. CASE ~L!RanksByName(rank, file)
  <2>1. L!Priority(rank, file) = rank[file.type]
    BY <1>8 DEF L!Priority
  <2> QED
    BY <1>3, <1>4, <1>6, <1>8, <2>1
<1> QED
  BY <1>7, <1>8

PrecedesIn(repo, rank, g, f) ==
  LET p == L!Priority(rank, repo[g])
      q == L!Priority(rank, repo[f])
  IN  p > q \/ (p = q /\ g < f)

LEMMA BestIs ==
  ASSUME NEW repo, NEW files, NEW rank, NEW limit
  PROVE  L!Best(repo, files, rank, limit) =
           {f \in files : Cardinality({g \in files : PrecedesIn(repo, rank, g, f)}) < limit}
BY SameCardinalityOfFiles DEF L!Best, PrecedesIn

LEMMA FilesAre ==
  ASSUME NEW repo, Files(repo), NEW files \in SUBSET DOMAIN repo, NEW rank \in Ranks
  PROVE  /\ IsFiniteSet(files) /\ files \subseteq Nat
         /\ \A f \in files : /\ L!Priority(rank, repo[f]) \in 0..100
                             /\ (L!Priority(rank, repo[f]) = 100 <=> repo[f].name = "Chart")
<1>1. PICK n \in Nat : DOMAIN repo = 1..n
  BY DEF Files
<1>2. IsFiniteSet(1..n) /\ 1..n \subseteq Nat
  BY FS_Interval
<1>3. IsFiniteSet(files) /\ files \subseteq Nat
  BY <1>1, <1>2, FS_Subset
<1>4. ASSUME NEW f \in files
      PROVE  L!Priority(rank, repo[f]) \in 0..100 /\ (L!Priority(rank, repo[f]) = 100 <=> repo[f].name = "Chart")
  <2>1. repo[f].type \in FileTypes
    BY DEF Files
  <2> QED
    BY <2>1, PriorityIs
<1> QED
  BY <1>3, <1>4

(* Whatever the limit cuts off, the first remains: a chart if there is one. *)
LEMMA FirstRemains ==
  ASSUME NEW repo, Files(repo), NEW files \in SUBSET DOMAIN repo, files # {}, NEW rank \in Ranks,
         NEW limit \in Nat \ {0}
  PROVE  \E h \in L!Best(repo, files, rank, limit) :
           (\E c \in files : repo[c].name = "Chart") => repo[h].name = "Chart"
<1> DEFINE P(f) == L!Priority(rank, repo[f])
           Lacks == {100 - P(f) : f \in files}
<1>1. \A f \in files : P(f) \in 0..100 /\ (P(f) = 100 <=> repo[f].name = "Chart")
  BY FilesAre
<1>2. files \subseteq Nat
  BY FilesAre
<1> HIDE DEF P
<1>3. PICK m \in Lacks : \A x \in Lacks : m <= x
  <2>1. Lacks \subseteq Nat /\ Lacks # {}
    BY <1>1
  <2> HIDE DEF Lacks
  <2> QED
    BY <2>1, HasLeast, Zenon
<1> DEFINE Top == {f \in files : 100 - P(f) = m}
<1>4. PICK h \in Top : \A f \in Top : h <= f
  <2>1. Top # {} /\ Top \subseteq Nat
    BY <1>2, <1>3
  <2> HIDE DEF Top
  <2> QED
    BY <2>1, HasLeast, Zenon
<1>5. ASSUME NEW g \in files PROVE P(g) <= P(h) /\ (P(g) = P(h) => h <= g)
  <2>1. m <= 100 - P(g) /\ 100 - P(h) = m /\ P(g) \in 0..100 /\ P(h) \in 0..100
    BY <1>1, <1>3, <1>4
  <2>2. P(g) = P(h) => g \in Top
    BY <2>1
  <2> QED
    BY <1>4, <2>1, <2>2
<1>6. {g \in files : PrecedesIn(repo, rank, g, h)} = {}
  BY <1>1, <1>2, <1>4, <1>5 DEF PrecedesIn, P
<1>7. h \in L!Best(repo, files, rank, limit)
  <2>1. Cardinality({}) = 0 /\ 0 < limit
    BY FS_EmptySet
  <2> QED
    BY <1>4, <1>6, <2>1, BestIs
<1>8. ASSUME NEW c \in files, repo[c].name = "Chart" PROVE repo[h].name = "Chart"
  BY <1>1, <1>4, <1>5, <1>8
<1> QED
  BY <1>7, <1>8

(* As many charts as the limit allows remain, whatever else there is.      *)
LEMMA ChartsRemain ==
  ASSUME NEW repo, Files(repo), NEW files \in SUBSET DOMAIN repo, NEW rank \in Ranks, NEW limit \in Nat,
         Cardinality({g \in files : repo[g].name = "Chart"}) <= limit,
         NEW c \in files, repo[c].name = "Chart"
  PROVE  c \in L!Best(repo, files, rank, limit)
<1> DEFINE Charts == {g \in files : repo[g].name = "Chart"}
           Ahead == {g \in files : PrecedesIn(repo, rank, g, c)}
<1>1. /\ files \subseteq Nat
      /\ \A f \in files : L!Priority(rank, repo[f]) \in 0..100 /\ (L!Priority(rank, repo[f]) = 100 <=> repo[f].name = "Chart")
  BY FilesAre
<1>2. Ahead \subseteq Charts \ {c}
  BY <1>1 DEF PrecedesIn
<1>3. IsFiniteSet(files)
  BY FilesAre
<1>4. IsFiniteSet(Charts) /\ c \in Charts
  BY <1>3, FS_Subset
<1> HIDE DEF Charts
<1>5. IsFiniteSet(Charts \ {c}) /\ Cardinality(Charts \ {c}) = Cardinality(Charts) - 1
  BY <1>4, FS_RemoveElement, Zenon
<1>6. Cardinality(Charts) \in Nat /\ Cardinality(Charts) <= limit
  BY <1>4, FS_CardinalityType DEF Charts
<1> HIDE DEF Ahead
<1>7. IsFiniteSet(Ahead) /\ Cardinality(Ahead) <= Cardinality(Charts \ {c})
  BY <1>2, <1>5, FS_Subset
<1>8. Cardinality(Ahead) \in Nat
  BY <1>7, FS_CardinalityType
<1>9. Cardinality(Ahead) < limit
  BY <1>5, <1>6, <1>7, <1>8
<1> QED
  BY <1>9, BestIs DEF Ahead

(* A checkout with charts: what it names are paths, no file is a directory *)
(* of a chart, and below the templates of a chart there is no other chart  *)
(* and no directory of that name again.                                    *)
Checkout(repo) ==
  /\ Files(repo) /\ Paths(repo)
  /\ \A f \in DOMAIN repo : \A r \in repo[f].refs \cup repo[f].quoted \cup repo[f].commands : IsPath(r)
  /\ \A p \in L!Charts(repo) :
       /\ \A f \in DOMAIN repo : ~L!IsPrefix(repo[f].path, p)
       /\ \A f \in L!Templates(repo, p) : repo[f].name # "Chart"
       /\ L!Templates(repo, Append(p, "templates")) = {}

NamedBy(repo, f, r) == L!Clean(L!Dir(repo[f]) \o r)

LEMMA NamedIs ==
  ASSUME NEW repo, Paths(repo), NEW f \in DOMAIN repo, NEW r, IsPath(r)
  PROVE  \E S : L!Dir(repo[f]) \o r \in Seq(S) /\ NamedBy(repo, f, r) \in Seq(S)
<1>1. PICK S : L!Dir(repo[f]) \in Seq(S)
  BY FrontIs DEF Paths, L!Dir
<1>2. PICK T : r \in Seq(T)
  BY DEF IsPath
<1>3. L!Dir(repo[f]) \o r \in Seq(S \cup T)
  BY <1>1, <1>2
<1> QED
  BY <1>3, CleanIsNormal, Zenon DEF NamedBy

(* What a file names with a path it is linked to, within the limit.        *)
LEMMA NamedIsEdge ==
  ASSUME NEW repo, Paths(repo), NEW f \in DOMAIN repo, NEW r \in L!Named(repo[f]), IsPath(r),
         NamedBy(repo, f, r) # <<>>, Head(NamedBy(repo, f, r)) \notin L!Dotted,
         L!FilesBelow(repo, NamedBy(repo, f, r)) # {}
  PROVE  \E limit \in {10, 12} : \A g \in L!MatchCandidate(repo, NamedBy(repo, f, r), limit) : Edge(repo, f, g)
<1> DEFINE named == NamedBy(repo, f, r)
           d == L!Dir(repo[f])
<1>1. ASSUME NEW refs, NEW limit, NEW x \in refs, NEW g \in L!ResolveLocalTargets(repo, x, d, limit)
      PROVE  g \in L!LinkExpanded(repo, f, refs, limit)
  BY DEF L!LinkExpanded
<1>2. ASSUME NEW x, NEW limit, NEW g \in L!MatchCandidate(repo, L!Clean(d \o x), limit)
      PROVE  g \in L!ResolveLocalTargets(repo, x, d, limit)
  BY DEF L!ResolveLocalTargets
<1>3. CASE r \in repo[f].commands
  <2>1. ASSUME NEW g \in L!MatchCandidate(repo, named, 12) PROVE Edge(repo, f, g)
    <3>1. g \in L!LinkExpanded(repo, f, repo[f].commands, 12)
      BY <1>1, <1>2, <1>3 DEF NamedBy
    <3>2. \E rest : L!Build(repo)[f] = (rest \cup L!LinkExpanded(repo, f, repo[f].commands, 12)) \ {f}
      BY Zenon DEF L!Build
    <3> QED
      BY <3>1, <3>2 DEF Edge
  <2> QED
    BY <2>1
<1>4. CASE r \in repo[f].refs /\ L!IsYAML(repo[f])
  <2>1. ASSUME NEW g \in L!MatchCandidate(repo, named, 10) PROVE Edge(repo, f, g)
    <3>1. g \in L!LinkExpanded(repo, f, repo[f].refs, 10)
      BY <1>1, <1>2, <1>4 DEF NamedBy
    <3>2. L!LinkExpanded(repo, f, repo[f].refs, 10) \subseteq L!Build(repo)[f] \cup {f}
      BY <1>4 DEF L!Build
    <3> QED
      BY <3>1, <3>2 DEF Edge
  <2> QED
    BY <2>1
<1>5. CASE r \in repo[f].refs /\ L!IsHCL(repo[f]) /\ Head(r) # "/"
  <2>1. named \in L!DiscoverRefs(repo, f)
    <3>1. named \in L!ReferenceCandidates(r, d)
      BY <1>5 DEF L!ReferenceCandidates, NamedBy
    <3> QED
      BY <1>5, <3>1 DEF L!DiscoverRefs
  <2>2. L!Clean(named) = named /\ Head(named) # "/"
    <3>1. PICK S : d \o r \in Seq(S)
      BY NamedIs
    <3>2. Head(named) # ".."
      BY DEF L!Dotted
    <3> QED
      BY <3>1, <3>2, CleanTwice, Zenon DEF NamedBy
  <2>3. ASSUME NEW g \in L!MatchCandidate(repo, named, 12) PROVE Edge(repo, f, g)
    <3>1. g \in L!ResolveLocalTargets(repo, named, d, 12)
      <4> HIDE DEF named, d
      <4>1. L!Clean(named) # <<>> /\ Head(L!Clean(named)) \notin L!Dotted
        BY <2>2 DEF named
      <4> QED
        BY <2>2, <2>3, <4>1 DEF L!ResolveLocalTargets
    <3>2. g \in L!LinkExpanded(repo, f, L!DiscoverRefs(repo, f), 12)
      BY <1>1, <2>1, <3>1
    <3>3. L!LinkExpanded(repo, f, L!DiscoverRefs(repo, f), 12) \subseteq L!Build(repo)[f] \cup {f}
      BY <1>5 DEF L!Build
    <3> QED
      BY <3>2, <3>3 DEF Edge
  <2> QED
    BY <2>3
<1> QED
  BY <1>3, <1>4, <1>5 DEF L!Named

(* What is named above a chart leads to its file, however much there is    *)
(* below it.                                                               *)
LEMMA AboveLeadsToChart ==
  ASSUME NEW repo, Checkout(repo), NEW p \in L!Charts(repo), NEW named, named # <<>>, (\E S : named \in Seq(S)),
         L!IsPrefix(named, p), L!Cardinality({g \in L!FilesBelow(repo, named) : repo[g].name = "Chart"}) <= 10,
         NEW limit \in {10, 12}
  PROVE  \E c \in L!MatchCandidate(repo, named, limit) : c \in L!FilesBelow(repo, named) /\ OfChart(repo, p, c)
<1> DEFINE files == L!FilesBelow(repo, named)
<1>1. (\E S : p \in Seq(S)) /\ \E c : ChartFile(repo, p, c)
  BY ChartIs DEF Checkout
<1>2. PICK c : ChartFile(repo, p, c)
  BY <1>1
<1>3. c \in DOMAIN repo /\ L!Front(repo[c].path) = p /\ IsPath(repo[c].path) /\ repo[c].name = "Chart"
  BY <1>2 DEF ChartFile, L!FilesIn, L!Dir, Checkout, Paths
<1>4. c \in files
  <2>1. Len(named) <= Len(p) /\ \A i \in 1..Len(named) : named[i] = p[i]
    BY <1>1, PrefixIs
  <2>2. Len(p) = Len(repo[c].path) - 1 /\ Len(repo[c].path) \in Nat /\ \A i \in 1..Len(p) : p[i] = repo[c].path[i]
    BY <1>3, FrontIs, Zenon
  <2>3. Len(named) \in Nat
    OBVIOUS
  <2>4. Len(named) <= Len(repo[c].path) /\ \A i \in 1..Len(named) : named[i] = repo[c].path[i]
    BY <2>1, <2>2, <2>3
  <2>5. L!IsPrefix(named, repo[c].path)
    BY <1>3, <2>4, PrefixIs DEF IsPath
  <2> QED
    BY <1>3, <2>5 DEF L!FilesBelow, L!Below
<1>5. L!FilesAt(repo, named) = {}
  BY DEF L!FilesAt, Checkout
<1>6. L!MatchCandidate(repo, named, limit) = L!Best(repo, files, L!GraphRank, limit)
  BY <1>5 DEF L!MatchCandidate
<1>7. files \in SUBSET DOMAIN repo
  BY DEF L!FilesBelow
<1> HIDE DEF files
<1>8. Cardinality({g \in files : repo[g].name = "Chart"}) <= limit
  <2>1. Cardinality({g \in files : repo[g].name = "Chart"}) <= 10
    BY SameCardinalityOfFiles DEF files
  <2>2. Cardinality({g \in files : repo[g].name = "Chart"}) \in Nat
    <3>1. IsFiniteSet(files)
      BY <1>7, FilesAre DEF Checkout, Ranks
    <3> QED
      BY <3>1, FS_Subset, FS_CardinalityType
  <2> QED
    BY <2>1, <2>2
<1>9. c \in L!Best(repo, files, L!GraphRank, limit)
  BY <1>3, <1>4, <1>7, <1>8, ChartsRemain, Zenon DEF Checkout, Ranks
<1> QED
  BY <1>2, <1>4, <1>6, <1>9 DEF OfChart, files

(* What is named of a chart leads to a file of it, and if that is what it  *)
(* names or not depends on the limit.                                      *)
LEMMA PartLeadsToChart ==
  ASSUME NEW repo, Checkout(repo), NEW p \in L!Charts(repo), NEW named, named # <<>>,
         NEW g \in L!ChartFiles(repo, p), repo[g].path = named, NEW limit \in {10, 12}
  PROVE  \E c \in L!MatchCandidate(repo, named, limit) : c \in DOMAIN repo /\ OfChart(repo, p, c)
<1> DEFINE d == L!Dir(repo[g])
           files == {g} \cup L!FilesIn(repo, d) \cup L!Templates(repo, d)
<1>1. g \in DOMAIN repo /\ OfChart(repo, p, g)
  BY OfChartAre
<1>2. p # <<>> /\ \E S : p \in Seq(S)
  BY ChartIs DEF Checkout
<1>3. repo[g].name = "Chart" \/ L!InTemplates(repo[g].path) \/ L!IsValues(repo[g])
  BY <1>1, <1>2, TemplateIs DEF OfChart, ChartFile, ValuesFile, Template, Checkout
<1>4. L!ExpandTarget(repo, g, limit) = L!Best(repo, files, L!GraphRank, limit)
  BY <1>3, Zenon DEF L!ExpandTarget
<1>5. L!ExpandTarget(repo, g, limit) \subseteq L!MatchCandidate(repo, named, limit)
  BY <1>1 DEF L!MatchCandidate, L!FilesAt
<1>6. files \in SUBSET DOMAIN repo /\ g \in files
  BY <1>1 DEF L!FilesIn, L!Templates, L!FilesBelow
<1> HIDE DEF files
<1>7. PICK h \in L!Best(repo, files, L!GraphRank, limit) :
        (\E c \in files : repo[c].name = "Chart") => repo[h].name = "Chart"
  <2>1. Files(repo) /\ L!GraphRank \in Ranks /\ limit \in Nat \ {0} /\ files # {}
    BY <1>6 DEF Checkout, Ranks
  <2> QED
    BY <1>6, <2>1, FirstRemains
<1>8. h \in files /\ h \in DOMAIN repo
  BY <1>6, <1>7, BestIs, Zenon
<1>9. OfChart(repo, p, h)
  <2>1. CASE d = p
    <3>1. PICK c : ChartFile(repo, p, c)
      BY ChartIs DEF Checkout
    <3>2. c \in files /\ repo[c].name = "Chart"
      BY <2>1, <3>1 DEF ChartFile, files
    <3>3. repo[h].name = "Chart"
      BY <1>7, <3>2
    <3>4. h \notin L!Templates(repo, p)
      BY <3>3 DEF Checkout
    <3>5. h \in L!FilesIn(repo, p)
      BY <1>1, <1>8, <2>1, <3>4 DEF files, L!FilesIn
    <3> QED
      BY <3>3, <3>5 DEF OfChart, ChartFile
  <2>2. CASE d = Append(p, "templates")
    <3>1. L!Templates(repo, d) = {}
      BY <2>2 DEF Checkout
    <3>2. h \in L!FilesIn(repo, Append(p, "templates"))
      BY <1>1, <1>8, <2>2, <3>1 DEF files, L!FilesIn
    <3>3. h \in L!Templates(repo, p)
      BY <1>2, <3>2, TemplateIs DEF Checkout
    <3>4. repo[h].name # "Chart"
      BY <3>3 DEF Checkout
    <3> QED
      BY <3>2, <3>4 DEF OfChart, Template
  <2>3. d = p \/ d = Append(p, "templates")
    BY DEF L!ChartFiles, L!FilesIn
  <2> QED
    BY <2>1, <2>2, <2>3
<1> QED
  BY <1>4, <1>5, <1>7, <1>8, <1>9

(* Any checkout: from a file that names a part of a chart, or a directory  *)
(* that is or is above its own with at most ten charts below it, all files *)
(* of the chart are within three edges, however many files the limits cut  *)
(* off (graph.go:310, graph.go:370).                                       *)
THEOREM NamedChartsAreReached ==
  ASSUME NEW repo, Checkout(repo)
  PROVE  L!NamedChartIsReached(repo)
<1> SUFFICES ASSUME NEW f \in DOMAIN repo, NEW r \in L!Named(repo[f]), NEW p \in L!Charts(repo),
                    NEW x \in L!ChartFiles(repo, p),
                    NamedBy(repo, f, r) # <<>>, Head(NamedBy(repo, f, r)) \notin L!Dotted,
                    \/ /\ L!IsPrefix(NamedBy(repo, f, r), p)
                       /\ L!Cardinality({g \in L!FilesBelow(repo, NamedBy(repo, f, r)) : repo[g].name = "Chart"}) <= 10
                    \/ \E g \in L!ChartFiles(repo, p) : g # f /\ repo[g].path = NamedBy(repo, f, r)
             PROVE  x \in L!Near3(L!Build(repo), f)
  BY DEF L!NamedChartIsReached, NamedBy
<1> DEFINE named == NamedBy(repo, f, r)
<1>1. IsPath(r)
  BY DEF L!Named, Checkout
<1>2. \E S : named \in Seq(S)
  BY <1>1, NamedIs DEF Checkout
<1> HIDE DEF named
<1>3. ASSUME NEW limit \in {10, 12}
      PROVE  /\ L!FilesBelow(repo, named) # {}
             /\ \E c \in L!MatchCandidate(repo, named, limit) : c \in DOMAIN repo /\ OfChart(repo, p, c)
  <2>1. CASE /\ L!IsPrefix(named, p)
             /\ L!Cardinality({g \in L!FilesBelow(repo, named) : repo[g].name = "Chart"}) <= 10
    <3>1. PICK c \in L!MatchCandidate(repo, named, limit) : c \in L!FilesBelow(repo, named) /\ OfChart(repo, p, c)
      BY <1>2, <2>1, AboveLeadsToChart DEF named
    <3>2. c \in DOMAIN repo
      BY <3>1 DEF L!FilesBelow
    <3> QED
      BY <3>1, <3>2
  <2>2. CASE \E g \in L!ChartFiles(repo, p) : g # f /\ repo[g].path = named
    <3>1. PICK g \in L!ChartFiles(repo, p) : repo[g].path = named
      BY <2>2
    <3>2. g \in L!FilesBelow(repo, named)
      <4>1. g \in DOMAIN repo
        BY OfChartAre
      <4>2. L!IsPrefix(named, named)
        BY <1>2, PrefixIs
      <4> QED
        BY <3>1, <4>1, <4>2 DEF L!FilesBelow, L!Below
    <3> QED
      BY <3>1, <3>2, PartLeadsToChart DEF named
  <2> QED
    BY <2>1, <2>2 DEF named
<1>4. PICK limit \in {10, 12} : \A g \in L!MatchCandidate(repo, named, limit) : Edge(repo, f, g)
  <2>1. L!FilesBelow(repo, named) # {}
    BY <1>3
  <2> QED
    BY <1>1, <2>1, NamedIsEdge DEF named, Checkout
<1>5. PICK c \in DOMAIN repo : OfChart(repo, p, c) /\ Edge(repo, f, c)
  BY <1>3, <1>4
<1>6. x \in L!Near2(L!Build(repo), c)
  BY <1>5, OfChartAre, ChartIsNear DEF Checkout
<1> QED
  BY <1>5, <1>6, FartherIs

(* What stands for a directory, before the limit.                          *)
Around(repo, d) == IF d = <<>> THEN {f \in DOMAIN repo : Len(repo[f].path) <= 3} ELSE L!FilesBelow(repo, d)

(* Not more charts below the directory of a file of a chart than the limit *)
(* allows.                                                                 *)
FewCharts(repo) ==
  \A f \in DOMAIN repo : L!LooksLikeChartFile(repo[f]) =>
    Cardinality({g \in Around(repo, L!Dir(repo[f])) : repo[g].name = "Chart"}) <= 10

LEMMA ChartBesideRemains ==
  ASSUME NEW repo, Checkout(repo), NEW d, Cardinality({g \in Around(repo, d) : repo[g].name = "Chart"}) <= 10,
         NEW h \in L!FilesIn(repo, d), repo[h].name = "Chart"
  PROVE  h \in L!ExpandDirectoryTarget(repo, d)
<1> DEFINE files == Around(repo, d)
<1>1. h \in DOMAIN repo /\ L!Front(repo[h].path) = d /\ IsPath(repo[h].path)
  BY DEF L!FilesIn, L!Dir, Checkout, Paths
<1>2. h \in files
  <2>1. CASE d = <<>>
    <3>1. Len(L!Front(repo[h].path)) = Len(repo[h].path) - 1 /\ Len(repo[h].path) \in Nat
      BY <1>1, FrontIs
    <3>2. Len(L!Front(repo[h].path)) = 0
      BY <1>1, <2>1
    <3>3. Len(repo[h].path) <= 3
      BY <3>1, <3>2
    <3> QED
      BY <1>1, <2>1, <3>3 DEF Around
  <2>2. CASE d # <<>>
    BY <1>1, <2>2, FrontIsPrefix DEF Around, L!FilesBelow, L!Below
  <2> QED
    BY <2>1, <2>2
<1>3. files \in SUBSET DOMAIN repo
  BY DEF Around, L!FilesBelow
<1>4. L!ExpandDirectoryTarget(repo, d) = L!Best(repo, files, L!PromptRank, 10)
  BY DEF L!ExpandDirectoryTarget, Around
<1> HIDE DEF files
<1>5. Files(repo) /\ L!PromptRank \in Ranks /\ 10 \in Nat
  BY DEF Checkout, Ranks
<1>6. Cardinality({g \in files : repo[g].name = "Chart"}) <= 10
  BY DEF files
<1> QED
  BY <1>2, <1>3, <1>4, <1>5, <1>6, ChartsRemain

(* Any checkout with few charts in each other: what the text of a file     *)
(* names, literally or with a wildcard in its name, is found, and with any *)
(* file of a chart the Chart.yaml beside it                                *)
(* (infra_repo_inventory.go:849, infra_repo_inventory.go:888).             *)
THEOREM NamedFilesAreReferenced ==
  ASSUME NEW repo, Checkout(repo), FewCharts(repo)
  PROVE  L!NamedFileIsReferenced(repo)
<1> SUFFICES ASSUME NEW f \in DOMAIN repo, NEW r \in repo[f].quoted \cup repo[f].commands, Head(r) # "/",
                    NEW g \in L!FilesAt(repo, NamedBy(repo, f, r)) \ {f}
             PROVE  /\ g \in L!ReferenceTargets(repo, f)
                    /\ L!LooksLikeChartFile(repo[g]) =>
                         \A h \in L!FilesIn(repo, L!Dir(repo[g])) \ {f} :
                           repo[h].name = "Chart" => h \in L!ReferenceTargets(repo, f)
  BY DEF L!NamedFileIsReferenced, NamedBy
<1> DEFINE named == NamedBy(repo, f, r)
<1>1. g \in DOMAIN repo /\ repo[g].path = named /\ IsPath(named)
  BY DEF L!FilesAt, Checkout, Paths
<1>2. L!ExpandLinkedTarget(repo, named) \subseteq L!MatchReferenceCandidate(repo, named)
  <2>1. named # <<>> /\ L!FilesAt(repo, named) # {}
    BY <1>1 DEF IsPath, L!FilesAt
  <2>2. CASE L!Contains(named, "*")
    <3>1. ASSUME NEW x \in L!ExpandLinkedTarget(repo, named) PROVE x \in L!MatchWildcardTargets(repo, named)
      BY <1>1, <3>1 DEF L!MatchWildcardTargets
    <3> QED
      BY <2>1, <2>2, <3>1 DEF L!MatchReferenceCandidate
  <2>3. CASE ~L!Contains(named, "*")
    BY <2>1, <2>3 DEF L!MatchReferenceCandidate
  <2> QED
    BY <2>2, <2>3
<1>3. ASSUME NEW x \in L!ExpandLinkedTarget(repo, named), x # f PROVE x \in L!ReferenceTargets(repo, f)
  <2>1. named \in L!ReferenceCandidates(r, L!Dir(repo[f]))
    BY DEF L!ReferenceCandidates, NamedBy
  <2>2. x \in L!ResolveReferenceTargets(repo, r, L!Dir(repo[f]))
    BY <1>2, <1>3, <2>1 DEF L!ResolveReferenceTargets
  <2> DEFINE Found == UNION {L!ResolveReferenceTargets(repo, y, L!Dir(repo[f])) : y \in repo[f].quoted \cup repo[f].commands}
  <2>3. x \in Found
    BY <2>2
  <2> HIDE DEF Found
  <2>4. Found \ {f} \subseteq L!ReferenceTargets(repo, f)
    BY DEF L!ReferenceTargets, Found
  <2> QED
    BY <1>3, <2>3, <2>4
<1>4. g \in L!ExpandLinkedTarget(repo, named)
  BY <1>1 DEF L!ExpandLinkedTarget, L!FilesAt
<1>5. ASSUME L!LooksLikeChartFile(repo[g]), NEW h \in L!FilesIn(repo, L!Dir(repo[g])), repo[h].name = "Chart"
      PROVE  h \in L!ExpandLinkedTarget(repo, named)
  <2>1. h \in L!ExpandDirectoryTarget(repo, L!Dir(repo[g]))
    BY <1>1, <1>5, ChartBesideRemains, Zenon DEF FewCharts
  <2>2. L!Dir(repo[g]) = L!Front(named)
    BY <1>1 DEF L!Dir
  <2>3. g \in L!FilesAt(repo, named)
    BY <1>1 DEF L!FilesAt
  <2> QED
    BY <1>5, <2>1, <2>2, <2>3 DEF L!ExpandLinkedTarget
<1> QED
  BY <1>3, <1>4, <1>5

-----------------------------------------------------------------------------
(***************************************************************************)
(* The edits of blocks                                                     *)
(***************************************************************************)
(* A scan of q leads from one state to another, and never out of the block. *)
ScanStates == [quoted : BOOLEAN, escaped : BOOLEAN, depth : Int]

Run(q, from, to) ==
  \E s : /\ s \in [0..Len(q) -> ScanStates] /\ s[0] = from /\ s[Len(q)] = to
         /\ \A k \in 1..Len(q) : s[k] = Scan(s[k - 1], q[k])
         /\ \A k \in 0..Len(q) : s[k].depth \in Nat

(* Every brace in q that is not in a string has its counterpart, and       *)
(* every string ends.                                                      *)
Balanced(q) == Run(q, Clear, Clear)

ScanNext(h, src, i, k) == IF k = i THEN Clear ELSE Scan(h[k - 1], src[k - 1])

(* s[k] is the state k pieces after piece i of src.                        *)
Scans(s, src, i, m) == s[0] = Clear /\ \A k \in 1..m : s[k] = Scan(s[k - 1], src[i + k - 1])

LEMMA ScanIs ==
  ASSUME NEW src, NEW i \in Nat, NEW m \in Nat, NEW s, Scans(s, src, i, m)
  PROVE  ScanTo(src, i, i + m) = s[m]
<1>0. s[0] = Clear /\ \A k \in 1..m : s[k] = Scan(s[k - 1], src[i + k - 1])
  BY DEF Scans
<1> DEFINE Solves(h) == h = [k \in i..(i + m) |-> ScanNext(h, src, i, k)]
           g == [k \in i..(i + m) |-> s[k - i]]
<1>1. Solves(g)
  <2>1. ASSUME NEW k \in i..(i + m) PROVE g[k] = ScanNext(g, src, i, k)
    <3>1. CASE k = i
      BY <1>0, <3>1 DEF ScanNext
    <3>2. CASE k # i
      <4>1. k - i \in 1..m /\ k - 1 \in i..(i + m) /\ (k - 1) - i = (k - i) - 1 /\ i + (k - i) - 1 = k - 1
        BY <3>2
      <4>2. s[k - i] = Scan(s[(k - i) - 1], src[k - 1])
        BY <1>0, <4>1
      <4>3. g[k] = s[k - i] /\ g[k - 1] = s[(k - i) - 1]
        BY <4>1
      <4> QED
        BY <3>2, <4>2, <4>3 DEF ScanNext
    <3> QED
      BY <3>1, <3>2
  <2>2. g = [k \in i..(i + m) |-> g[k]]
    OBVIOUS
  <2> HIDE DEF g
  <2>3. [k \in i..(i + m) |-> g[k]] = [k \in i..(i + m) |-> ScanNext(g, src, i, k)]
    BY <2>1
  <2> QED
    BY <2>2, <2>3
<1> DEFINE h == CHOOSE h : Solves(h)
<1>2. Solves(h)
  <2> HIDE DEF g
  <2> QED
    BY <1>1, Zenon
<1>3. ScanTo(src, i, i + m) = h[i + m]
  BY DEF ScanTo, ScanNext
<1> HIDE DEF h
<1>4. \A k \in i..(i + m) : h[k] = ScanNext(h, src, i, k)
  BY <1>2
<1> DEFINE G == {k \in 0..m : h[i + k] = s[k]}
<1>5. 0 \in G
  BY <1>0, <1>4 DEF ScanNext
<1>6. ASSUME NEW k \in 1..m, k - 1 \in G PROVE k \in G
  <2>1. i + k \in i..(i + m) /\ i + k # i /\ (i + k) - 1 = i + (k - 1)
    OBVIOUS
  <2>2. h[i + k] = Scan(h[(i + k) - 1], src[(i + k) - 1])
    BY <1>4, <2>1 DEF ScanNext
  <2>3. s[k] = Scan(s[k - 1], src[(i + k) - 1])
    BY <1>0
  <2>4. h[(i + k) - 1] = s[k - 1]
    BY <1>6, <2>1
  <2> QED
    BY <2>2, <2>3, <2>4
<1>7. m \in G
  <2> HIDE DEF G
  <2> QED
    BY <1>5, <1>6, UpTo
<1> QED
  BY <1>3, <1>7

(* Deeper in a block the scan goes on in the same way.                     *)
Deeper(s) == [s EXCEPT !.depth = @ + 1]

(* What a turn of the loop does, by the kinds of states and pieces.        *)
LEMMA ScanCases ==
  ASSUME NEW s \in ScanStates, NEW c
  PROVE  /\ s.quoted /\ s.escaped => Scan(s, c) = [quoted |-> TRUE, escaped |-> FALSE, depth |-> s.depth]
         /\ s.quoted /\ ~s.escaped /\ c = "\\" => Scan(s, c) = [quoted |-> TRUE, escaped |-> TRUE, depth |-> s.depth]
         /\ s.quoted /\ ~s.escaped /\ c = "quote" => Scan(s, c) = [quoted |-> FALSE, escaped |-> FALSE, depth |-> s.depth]
         /\ s.quoted /\ ~s.escaped /\ c \notin {"\\", "quote"} =>
              Scan(s, c) = [quoted |-> TRUE, escaped |-> FALSE, depth |-> s.depth]
         /\ ~s.quoted /\ c = "quote" => Scan(s, c) = [quoted |-> TRUE, escaped |-> s.escaped, depth |-> s.depth]
         /\ ~s.quoted /\ c = "open" => Scan(s, c) = [quoted |-> FALSE, escaped |-> s.escaped, depth |-> s.depth + 1]
         /\ ~s.quoted /\ c = "close" => Scan(s, c) = [quoted |-> FALSE, escaped |-> s.escaped, depth |-> s.depth - 1]
         /\ ~s.quoted /\ c \notin {"quote", "open", "close"} =>
              Scan(s, c) = [quoted |-> FALSE, escaped |-> s.escaped, depth |-> s.depth]
<1>1. s = [quoted |-> s.quoted, escaped |-> s.escaped, depth |-> s.depth] /\ s.quoted \in BOOLEAN /\ s.escaped \in BOOLEAN
  BY DEF ScanStates
<1>2. CASE s.quoted /\ s.escaped
  BY <1>1, <1>2, Zenon DEF Scan, ScanStates
<1>3. CASE s.quoted /\ ~s.escaped
  <2>1. Scan(s, c) = [s EXCEPT !.escaped = (c = "\\"), !.quoted = (c # "quote")]
    BY <1>3, Zenon DEF Scan
  <2>2. ASSUME NEW a \in BOOLEAN, NEW b \in BOOLEAN
        PROVE  [s EXCEPT !.escaped = a, !.quoted = b] = [quoted |-> b, escaped |-> a, depth |-> s.depth]
    <3> DEFINE r == [s EXCEPT !.escaped = a, !.quoted = b]
    <3>1. r \in ScanStates
      BY Zenon DEF ScanStates
    <3>2. r.quoted = b /\ r.escaped = a /\ r.depth = s.depth
      BY DEF ScanStates
    <3> HIDE DEF r
    <3>3. r = [quoted |-> r.quoted, escaped |-> r.escaped, depth |-> r.depth]
      BY <3>1 DEF ScanStates
    <3> QED
      BY <3>2, <3>3 DEF r
  <2>3. Scan(s, c) = [quoted |-> c # "quote", escaped |-> c = "\\", depth |-> s.depth]
    BY <2>1, <2>2, Zenon
  <2>4. CASE c = "\\"
    <3>1. (c # "quote") = TRUE /\ (c = "\\") = TRUE
      BY <2>4
    <3> QED
      BY <1>3, <2>3, <2>4, <3>1, Zenon
  <2>5. CASE c = "quote"
    <3>1. (c # "quote") = FALSE /\ (c = "\\") = FALSE
      BY <2>5
    <3> QED
      BY <1>3, <2>3, <2>5, <3>1, Zenon
  <2>6. CASE c \notin {"\\", "quote"}
    <3>1. (c # "quote") = TRUE /\ (c = "\\") = FALSE
      BY <2>6
    <3> QED
      BY <1>3, <2>3, <2>6, <3>1, Zenon
  <2> QED
    BY <2>4, <2>5, <2>6
<1>4. CASE ~s.quoted
  <2> DEFINE depth == IF c = "open" THEN s.depth + 1 ELSE IF c = "close" THEN s.depth - 1 ELSE s.depth
  <2>1. Scan(s, c) = [s EXCEPT !.quoted = (c = "quote"), !.depth = depth]
    BY <1>4 DEF Scan, ScanStates
  <2>2. ASSUME NEW b \in BOOLEAN, NEW d \in Int
        PROVE  [s EXCEPT !.quoted = b, !.depth = d] = [quoted |-> b, escaped |-> s.escaped, depth |-> d]
    <3> DEFINE r == [s EXCEPT !.quoted = b, !.depth = d]
    <3>1. r \in ScanStates
      BY Zenon DEF ScanStates
    <3>2. r.quoted = b /\ r.escaped = s.escaped /\ r.depth = d
      BY DEF ScanStates
    <3> HIDE DEF r
    <3>3. r = [quoted |-> r.quoted, escaped |-> r.escaped, depth |-> r.depth]
      BY <3>1 DEF ScanStates
    <3> QED
      BY <3>2, <3>3 DEF r
  <2>3. Scan(s, c) = [quoted |-> c = "quote", escaped |-> s.escaped, depth |-> depth]
    <3>1. (c = "quote") \in BOOLEAN
      OBVIOUS
    <3>2. s.depth \in Int
      BY DEF ScanStates
    <3>3. depth \in Int
      <4>1. s.depth + 1 \in Int /\ s.depth - 1 \in Int
        BY <3>2
      <4> QED
        BY ONLY <3>2, <4>1, Zenon
    <3> HIDE DEF depth
    <3> QED
      BY <2>1, <2>2, <3>1, <3>3, Zenon
  <2>4. CASE c = "quote"
    <3>1. (c = "quote") = TRUE /\ depth = s.depth
      BY <2>4
    <3> QED
      BY <1>4, <2>3, <2>4, <3>1, Zenon
  <2>5. CASE c # "quote"
    <3>1. (c = "quote") = FALSE
      BY <2>5
    <3>2. Scan(s, c) = [quoted |-> FALSE, escaped |-> s.escaped, depth |-> depth]
      BY <2>3, <3>1, Zenon
    <3> QED
      BY <1>4, <2>5, <3>2, Zenon
  <2> QED
    BY <2>4, <2>5
<1> QED
  BY <1>1, <1>2, <1>3, <1>4

LEMMA ScanDeeper ==
  ASSUME NEW s \in ScanStates, NEW c
  PROVE  /\ Scan(s, c) \in ScanStates /\ Deeper(s) \in ScanStates
         /\ Scan(Deeper(s), c) = Deeper(Scan(s, c))
         /\ Deeper(s).quoted = s.quoted /\ Deeper(s).depth = s.depth + 1
<1> DEFINE State(q, e, d) == [quoted |-> q, escaped |-> e, depth |-> d]
<1>1. \A q, e \in BOOLEAN, d \in Int : State(q, e, d) \in ScanStates /\ Deeper(State(q, e, d)) = State(q, e, d + 1)
  BY DEF ScanStates, Deeper
<1>2. s = State(s.quoted, s.escaped, s.depth) /\ s.quoted \in BOOLEAN /\ s.escaped \in BOOLEAN /\ s.depth \in Int
  BY DEF ScanStates
<1>3. \A q, e, d : State(q, e, d).quoted = q /\ State(q, e, d).escaped = e /\ State(q, e, d).depth = d
  OBVIOUS
<1>4. TRUE \in BOOLEAN /\ FALSE \in BOOLEAN /\ s.depth + 1 \in Int /\ s.depth - 1 \in Int
      /\ (s.depth + 1) - 1 = s.depth /\ (s.depth - 1) + 1 = s.depth
  BY <1>2
<1> DEFINE t == State(s.quoted, s.escaped, s.depth + 1)
<1>5. Deeper(s) = t /\ t \in ScanStates /\ t.quoted = s.quoted /\ t.escaped = s.escaped /\ t.depth = s.depth + 1
  <2>1. Deeper(State(s.quoted, s.escaped, s.depth)) = t /\ t \in ScanStates
    BY <1>1, <1>2, <1>4, Zenon
  <2> HIDE DEF State
  <2> QED
    BY <1>2, <1>3, <2>1
<1>6. \/ s.quoted /\ s.escaped
      \/ s.quoted /\ ~s.escaped /\ c = "\\"
      \/ s.quoted /\ ~s.escaped /\ c = "quote"
      \/ s.quoted /\ ~s.escaped /\ c \notin {"\\", "quote"}
      \/ ~s.quoted /\ c = "quote"
      \/ ~s.quoted /\ c = "open"
      \/ ~s.quoted /\ c = "close"
      \/ ~s.quoted /\ c \notin {"quote", "open", "close"}
  OBVIOUS
<1>7. \E q, e \in BOOLEAN, d \in Int : Scan(s, c) = State(q, e, d) /\ Scan(t, c) = State(q, e, d + 1)
  <2> HIDE DEF t
  <2>1. CASE s.quoted /\ s.escaped
    BY <1>2, <1>4, <1>5, <2>1, ScanCases, Zenon
  <2>2. CASE s.quoted /\ ~s.escaped /\ c = "\\"
    BY <1>2, <1>4, <1>5, <2>2, ScanCases, Zenon
  <2>3. CASE s.quoted /\ ~s.escaped /\ c = "quote"
    BY <1>2, <1>4, <1>5, <2>3, ScanCases, Zenon
  <2>4. CASE s.quoted /\ ~s.escaped /\ c \notin {"\\", "quote"}
    BY <1>2, <1>4, <1>5, <2>4, ScanCases, Zenon
  <2>5. CASE ~s.quoted /\ c = "quote"
    <3>1. Scan(s, c) = State(TRUE, s.escaped, s.depth)
      BY <2>5, ScanCases
    <3>2. Scan(t, c) = State(TRUE, s.escaped, s.depth + 1)
      BY <1>4, <1>5, <2>5, ScanCases
    <3> QED
      BY <1>2, <1>4, <3>1, <3>2, Zenon
  <2>6. CASE ~s.quoted /\ c = "open"
    <3>1. Scan(s, c) = State(FALSE, s.escaped, s.depth + 1)
      BY <2>6, ScanCases
    <3>2. Scan(t, c) = State(FALSE, s.escaped, (s.depth + 1) + 1)
      BY <1>4, <1>5, <2>6, ScanCases
    <3> QED
      BY <1>2, <1>4, <3>1, <3>2, Zenon
  <2>7. CASE ~s.quoted /\ c = "close"
    <3>1. Scan(s, c) = State(FALSE, s.escaped, s.depth - 1)
      BY <2>7, ScanCases
    <3>2. Scan(t, c) = State(FALSE, s.escaped, (s.depth - 1) + 1)
      BY <1>4, <1>5, <2>7, ScanCases
    <3> QED
      BY <1>2, <1>4, <3>1, <3>2, Zenon
  <2>8. CASE ~s.quoted /\ c \notin {"quote", "open", "close"}
    <3>1. Scan(s, c) = State(FALSE, s.escaped, s.depth)
      BY <2>8, ScanCases
    <3>2. Scan(t, c) = State(FALSE, s.escaped, s.depth + 1)
      BY <1>4, <1>5, <2>8, ScanCases
    <3> QED
      BY <1>2, <1>4, <3>1, <3>2, Zenon
  <2> QED
    BY <1>6, <2>1, <2>2, <2>3, <2>4, <2>5, <2>6, <2>7, <2>8
<1>8. PICK q \in BOOLEAN, e \in BOOLEAN, d \in Int : Scan(s, c) = State(q, e, d) /\ Scan(t, c) = State(q, e, d + 1)
  BY <1>7
<1> HIDE DEF State, t
<1> QED
  BY <1>1, <1>5, <1>8

(* Sequences end to end.                                                   *)
Join(r, q) == r \o q

IsJoin(S, x, a, b) ==
  /\ x \in Seq(S) /\ Len(a) \in Nat /\ Len(b) \in Nat /\ Len(x) = Len(a) + Len(b)
  /\ \A i \in 1..Len(a) : x[i] = a[i]
  /\ \A i \in 1..Len(b) : x[Len(a) + i] = b[i]

LEMMA JoinIs ==
  ASSUME NEW S, NEW a \in Seq(S), NEW b \in Seq(S)
  PROVE  IsJoin(S, Join(a, b), a, b)
BY DEF Join, IsJoin

LEMMA SameSequence ==
  ASSUME NEW S, NEW a \in Seq(S), NEW b \in Seq(S), Len(a) = Len(b), \A i \in 1..Len(a) : a[i] = b[i]
  PROVE  a = b
<1>1. a = [i \in 1..Len(a) |-> a[i]] /\ b = [i \in 1..Len(b) |-> b[i]]
  OBVIOUS
<1> QED
  BY <1>1

LEMMA JoinOfJoins ==
  ASSUME NEW S, NEW a \in Seq(S), NEW b \in Seq(S), NEW c \in Seq(S)
  PROVE  a \o (b \o c) = a \o b \o c
<1>1. /\ a \o (b \o c) \in Seq(S) /\ a \o b \o c \in Seq(S) /\ Len(a \o (b \o c)) = Len(a \o b \o c)
      /\ Len(a) \in Nat /\ Len(b) \in Nat /\ Len(c) \in Nat /\ Len(a \o b \o c) = Len(a) + Len(b) + Len(c)
  OBVIOUS
<1>2. ASSUME NEW i \in 1..(Len(a) + Len(b) + Len(c)) PROVE (a \o (b \o c))[i] = (a \o b \o c)[i]
  <2>1. CASE i <= Len(a)
    BY <1>1, <2>1
  <2>2. CASE i > Len(a) /\ i <= Len(a) + Len(b)
    BY <1>1, <2>2
  <2>3. CASE i > Len(a) + Len(b)
    BY <1>1, <2>3
  <2> QED
    BY <1>1, <2>1, <2>2, <2>3
<1> QED
  BY <1>1, <1>2, SameSequence

LEMMA JoinEmpty ==
  ASSUME NEW S, NEW a \in Seq(S)
  PROVE  a \o <<>> = a /\ <<>> \o a = a
OBVIOUS

LEMMA JoinTwice ==
  ASSUME NEW S, NEW a \in Seq(S), NEW b \in Seq(S), NEW c \in Seq(S)
  PROVE  Join(a, Join(b, c)) = Join(Join(a, b), c)
BY JoinOfJoins DEF Join

LEMMA TwoPieces ==
  ASSUME NEW a, NEW b
  PROVE  <<a, b>> = Join(<<a>>, <<b>>)
<1> DEFINE S == {a, b}
           u == <<a, b>>
           v == Join(<<a>>, <<b>>)
<1>1. u \in Seq(S) /\ Len(u) = 2 /\ u[1] = a /\ u[2] = b
  OBVIOUS
<1>2. v \in Seq(S) /\ Len(v) = 2 /\ v[1] = a /\ v[2] = b
  BY DEF Join
<1>3. \A i \in 1..2 : i = 1 \/ i = 2
  OBVIOUS
<1> HIDE DEF u, v
<1>4. \A i \in 1..2 : u[i] = v[i]
  BY ONLY <1>1, <1>2, <1>3
<1>5. u = v
  BY ONLY <1>1, <1>2, <1>4, SameSequence
<1> QED
  BY ONLY <1>5 DEF u, v

LEMMA ThreePieces ==
  ASSUME NEW a, NEW b, NEW c
  PROVE  <<a, b, c>> = Join(<<a, b>>, <<c>>)
<1> DEFINE S == {a, b, c}
           u == <<a, b, c>>
           v == Join(<<a, b>>, <<c>>)
<1>1. u \in Seq(S) /\ Len(u) = 3 /\ u[1] = a /\ u[2] = b /\ u[3] = c
  OBVIOUS
<1>2. v \in Seq(S) /\ Len(v) = 3 /\ v[1] = a /\ v[2] = b /\ v[3] = c
  BY DEF Join
<1>3. \A i \in 1..3 : i = 1 \/ i = 2 \/ i = 3
  OBVIOUS
<1> HIDE DEF u, v
<1>4. \A i \in 1..3 : u[i] = v[i]
  BY ONLY <1>1, <1>2, <1>3
<1>5. u = v
  BY ONLY <1>1, <1>2, <1>4, SameSequence
<1> QED
  BY ONLY <1>5 DEF u, v

(* A text without its white space.                                         *)
Space == {"nl", "tab"}

SolidNext(h, s, k) == IF k = 0 THEN <<>> ELSE IF s[k] \in {"nl", "tab"} THEN h[k - 1] ELSE Append(h[k - 1], s[k])

LEMMA SolidExists ==
  ASSUME NEW p, Len(p) \in Nat
  PROVE  \E h : h = [k \in 0..Len(p) |-> SolidNext(h, p, k)]
<1> DEFINE n == Len(p)
           Upto(h, m) == DOMAIN h = 0..n /\ \A k \in 0..m : h[k] = SolidNext(h, p, k)
           G == {m \in 0..n : \E h : Upto(h, m)}
<1>1. 0 \in G
  <2> DEFINE h == [k \in 0..n |-> <<>>]
  <2>1. Upto(h, 0)
    BY DEF SolidNext
  <2> HIDE DEF h
  <2> QED
    BY <2>1
<1>2. ASSUME NEW m \in 1..n, m - 1 \in G PROVE m \in G
  <2>1. PICK h : Upto(h, m - 1)
    BY <1>2
  <2> DEFINE g == [k \in 0..n |-> IF k <= m - 1 THEN h[k] ELSE SolidNext(h, p, k)]
  <2>2. DOMAIN g = 0..n
    OBVIOUS
  <2>3. ASSUME NEW k \in 0..m PROVE g[k] = SolidNext(g, p, k)
    <3>1. g[k] = SolidNext(h, p, k)
      BY <2>1
    <3>2. k # 0 => g[k - 1] = h[k - 1]
      OBVIOUS
    <3> QED
      BY <3>1, <3>2 DEF SolidNext
  <2> HIDE DEF g
  <2>4. Upto(g, m)
    BY <2>2, <2>3
  <2> QED
    BY <2>4
<1>3. n \in G
  <2> HIDE DEF G
  <2> QED
    BY <1>1, <1>2, UpTo
<1>4. PICK h : Upto(h, n)
  BY <1>3
<1>5. h = [k \in 0..n |-> SolidNext(h, p, k)]
  BY <1>4
<1> QED
  BY <1>5

LEMMA SolidSteps ==
  ASSUME NEW p, Len(p) \in Nat
  PROVE  \E h : /\ Solid(p) = h[Len(p)] /\ h[0] = <<>>
                /\ \A k \in 1..Len(p) : h[k] = IF p[k] \in Space THEN h[k - 1] ELSE Append(h[k - 1], p[k])
<1> DEFINE h == CHOOSE h : h = [k \in 0..Len(p) |-> SolidNext(h, p, k)]
<1>1. h = [k \in 0..Len(p) |-> SolidNext(h, p, k)]
  BY SolidExists
<1>2. Solid(p) = h[Len(p)]
  BY DEF Solid, SolidNext
<1> HIDE DEF h
<1>3. h[0] = <<>> /\ \A k \in 1..Len(p) : h[k] = IF p[k] \in Space THEN h[k - 1] ELSE Append(h[k - 1], p[k])
  <2>1. \A k \in 0..Len(p) : h[k] = SolidNext(h, p, k)
    BY <1>1
  <2>2. 0 \in 0..Len(p) /\ \A k \in 1..Len(p) : k \in 0..Len(p) /\ k # 0
    OBVIOUS
  <2>3. h[0] = <<>>
    BY <2>1, <2>2 DEF SolidNext
  <2>4. ASSUME NEW k \in 1..Len(p) PROVE h[k] = IF p[k] \in Space THEN h[k - 1] ELSE Append(h[k - 1], p[k])
    BY ONLY <2>1, <2>2, <2>4 DEF SolidNext, Space
  <2> QED
    BY <2>3, <2>4
<1> QED
  BY <1>2, <1>3

SolidStep(r, c) == IF c \in Space THEN r ELSE Append(r, c)

LEMMA SolidStepIs ==
  ASSUME NEW S, NEW r \in Seq(S), NEW q \in Seq(S), NEW c \in S
  PROVE  SolidStep(r, c) \in Seq(S) /\ SolidStep(Join(r, q), c) = Join(r, SolidStep(q, c))
<1>1. Append(r, c) \in Seq(S)
  OBVIOUS
<1>2. Append(r \o q, c) = r \o Append(q, c)
  <2>1. /\ Append(r \o q, c) \in Seq(S) /\ r \o Append(q, c) \in Seq(S) /\ Len(r) \in Nat /\ Len(q) \in Nat
        /\ Len(Append(r \o q, c)) = Len(r) + Len(q) + 1 /\ Len(r \o Append(q, c)) = Len(r) + Len(q) + 1
    OBVIOUS
  <2>2. ASSUME NEW i \in 1..(Len(r) + Len(q) + 1) PROVE Append(r \o q, c)[i] = (r \o Append(q, c))[i]
    <3>1. CASE i <= Len(r)
      BY <2>1, <3>1
    <3>2. CASE i > Len(r) /\ i <= Len(r) + Len(q)
      BY <2>1, <3>2
    <3>3. CASE i > Len(r) + Len(q)
      BY <2>1, <3>3
    <3> QED
      BY <2>1, <3>1, <3>2, <3>3
  <2> QED
    BY <2>1, <2>2, SameSequence, Zenon
<1> QED
  BY <1>1, <1>2, Zenon DEF SolidStep, Join

(* White space apart, texts end to end are what they are by themselves.    *)
LEMMA SolidJoin ==
  ASSUME NEW S, NEW a \in Seq(S), NEW b \in Seq(S)
  PROVE  Solid(a \o b) = Solid(a) \o Solid(b) /\ Solid(a) \in Seq(S)
<1>1. PICK g : Solid(a) = g[Len(a)] /\ g[0] = <<>> /\ \A k \in 1..Len(a) : g[k] = SolidStep(g[k - 1], a[k])
  BY SolidSteps DEF SolidStep
<1>2. PICK h : Solid(b) = h[Len(b)] /\ h[0] = <<>> /\ \A k \in 1..Len(b) : h[k] = SolidStep(h[k - 1], b[k])
  BY SolidSteps DEF SolidStep
<1>3. PICK f : /\ Solid(a \o b) = f[Len(a \o b)] /\ f[0] = <<>>
               /\ \A k \in 1..Len(a \o b) : f[k] = SolidStep(f[k - 1], (a \o b)[k])
  <2>1. Len(a \o b) \in Nat
    OBVIOUS
  <2> QED
    BY <2>1, SolidSteps, Zenon DEF SolidStep
<1>4. /\ Len(a) \in Nat /\ Len(b) \in Nat /\ Len(a \o b) = Len(a) + Len(b)
      /\ \A k \in 1..Len(a) : k \in 1..Len(a \o b) /\ (a \o b)[k] = a[k] /\ a[k] \in S
      /\ \A k \in 1..Len(b) : Len(a) + k \in 1..Len(a \o b) /\ (a \o b)[Len(a) + k] = b[k] /\ b[k] \in S
                              /\ (Len(a) + k) - 1 = Len(a) + (k - 1)
  OBVIOUS
<1>5. <<>> \in Seq(S)
  OBVIOUS
<1> DEFINE G == {k \in 0..Len(a) : f[k] = g[k] /\ g[k] \in Seq(S)}
           H == {k \in 0..Len(b) : f[Len(a) + k] = Join(g[Len(a)], h[k]) /\ h[k] \in Seq(S)}
<1>6. 0 \in G
  <2>1. f[0] = g[0] /\ g[0] \in Seq(S)
    BY ONLY <1>1, <1>3, <1>5, Zenon
  <2>2. 0 \in 0..Len(a)
    BY <1>4
  <2> QED
    BY ONLY <2>1, <2>2
<1>7. ASSUME NEW k \in 1..Len(a), k - 1 \in G PROVE k \in G
  <2>1. f[k] = SolidStep(f[k - 1], a[k]) /\ g[k] = SolidStep(g[k - 1], a[k]) /\ a[k] \in S /\ k \in 0..Len(a)
    BY <1>1, <1>3, <1>4
  <2>2. f[k - 1] = g[k - 1] /\ g[k - 1] \in Seq(S)
    BY <1>7
  <2>3. SolidStep(g[k - 1], a[k]) \in Seq(S)
    BY <2>1, <2>2, SolidStepIs, Zenon
  <2>4. f[k] = g[k]
    BY ONLY <2>1, <2>2, Zenon
  <2>5. g[k] \in Seq(S)
    BY ONLY <2>1, <2>3, Zenon
  <2> QED
    BY ONLY <2>1, <2>4, <2>5
<1>8. Len(a) \in G
  <2> HIDE DEF G
  <2> QED
    BY <1>4, <1>6, <1>7, UpTo
<1>9. f[Len(a)] = g[Len(a)] /\ g[Len(a)] \in Seq(S)
  BY <1>8
<1>10. 0 \in H
  <2>1. Join(g[Len(a)], <<>>) = g[Len(a)]
    BY <1>9, JoinEmpty DEF Join
  <2>2. f[Len(a) + 0] = f[Len(a)]
    BY <1>4
  <2>3. f[Len(a) + 0] = Join(g[Len(a)], h[0]) /\ h[0] \in Seq(S)
    BY ONLY <1>2, <1>5, <1>9, <2>1, <2>2, Zenon
  <2>4. 0 \in 0..Len(b)
    BY <1>4
  <2> QED
    BY ONLY <2>3, <2>4
<1>11. ASSUME NEW k \in 1..Len(b), k - 1 \in H PROVE k \in H
  <2>1. f[Len(a) + k] = SolidStep(f[Len(a) + (k - 1)], b[k]) /\ h[k] = SolidStep(h[k - 1], b[k]) /\ b[k] \in S /\ k \in 0..Len(b)
    BY <1>2, <1>3, <1>4
  <2>2. f[Len(a) + (k - 1)] = Join(g[Len(a)], h[k - 1]) /\ h[k - 1] \in Seq(S)
    BY <1>11
  <2>3. /\ SolidStep(h[k - 1], b[k]) \in Seq(S)
        /\ SolidStep(Join(g[Len(a)], h[k - 1]), b[k]) = Join(g[Len(a)], SolidStep(h[k - 1], b[k]))
    <3>1. g[Len(a)] \in Seq(S) /\ h[k - 1] \in Seq(S) /\ b[k] \in S
      BY ONLY <1>9, <2>1, <2>2
    <3>2. SolidStep(h[k - 1], b[k]) \in Seq(S)
      BY ONLY <3>1, SolidStepIs
    <3>3. SolidStep(Join(g[Len(a)], h[k - 1]), b[k]) = Join(g[Len(a)], SolidStep(h[k - 1], b[k]))
      BY ONLY <3>1, SolidStepIs
    <3> QED
      BY <3>2, <3>3
  <2>4. f[Len(a) + k] = Join(g[Len(a)], h[k]) /\ h[k] \in Seq(S)
    BY ONLY <2>1, <2>2, <2>3, Zenon
  <2> QED
    BY ONLY <2>1, <2>4
<1>12. Len(b) \in H
  <2> HIDE DEF H
  <2> QED
    BY <1>4, <1>10, <1>11, UpTo
<1>13. f[Len(a) + Len(b)] = Join(g[Len(a)], h[Len(b)])
  BY <1>12
<1> QED
  BY ONLY <1>1, <1>2, <1>3, <1>4, <1>9, <1>13, Zenon DEF Join

LEMMA SolidOfSpace ==
  ASSUME NEW s \in Seq(Space)
  PROVE  Solid(s) = <<>>
<1>1. PICK h : Solid(s) = h[Len(s)] /\ h[0] = <<>> /\ \A k \in 1..Len(s) : h[k] = SolidStep(h[k - 1], s[k])
  BY SolidSteps DEF SolidStep
<1> DEFINE G == {k \in 0..Len(s) : h[k] = <<>>}
<1>2. 0 \in G
  BY <1>1
<1>3. ASSUME NEW k \in 1..Len(s), k - 1 \in G PROVE k \in G
  BY <1>1, <1>3 DEF SolidStep
<1>4. Len(s) \in G
  <2> HIDE DEF G
  <2> QED
    BY <1>2, <1>3, UpTo
<1> QED
  BY <1>1, <1>4

LEMMA SolidOfPiece ==
  ASSUME NEW c, c \notin Space
  PROVE  Solid(<<c>>) = <<c>>
<1>1. Len(<<c>>) = 1 /\ <<c>>[1] = c /\ 1 \in 1..1 /\ 1 - 1 = 0 /\ 1 \in Nat
  OBVIOUS
<1>2. PICK h : Solid(<<c>>) = h[Len(<<c>>)] /\ h[0] = <<>> /\ \A k \in 1..Len(<<c>>) : h[k] = SolidStep(h[k - 1], <<c>>[k])
  <2>1. Len(<<c>>) \in Nat
    OBVIOUS
  <2> QED
    BY <2>1, SolidSteps DEF SolidStep
<1>3. h[1] = SolidStep(h[1 - 1], <<c>>[1])
  BY ONLY <1>1, <1>2
<1>4. h[1] = SolidStep(<<>>, c)
  BY ONLY <1>1, <1>2, <1>3, Zenon
<1>5. SolidStep(<<>>, c) = Append(<<>>, c)
  BY Zenon DEF SolidStep
<1>6. Append(<<>>, c) = <<c>>
  OBVIOUS
<1> QED
  BY ONLY <1>1, <1>2, <1>4, <1>5, <1>6, Zenon

LEMMA SolidOfBraces ==
  Solid(<<"header", "open">>) = <<"header", "open">> /\ Solid(<<"close">>) = <<"close">>
<1> DEFINE head == <<"header">>
           open == <<"open">>
           S == {"header", "open"}
<1>1. "header" \notin Space /\ "open" \notin Space /\ "close" \notin Space
  BY DEF Space
<1>2. head \in Seq(S) /\ open \in Seq(S)
  OBVIOUS
<1>3. Solid(head) = head /\ Solid(open) = open /\ Solid(<<"close">>) = <<"close">>
  BY ONLY <1>1, SolidOfPiece, Zenon
<1>4. <<"header", "open">> = Join(head, open)
  BY TwoPieces
<1> HIDE DEF head, open, S
<1>5. Solid(Join(head, open)) = Join(Solid(head), Solid(open))
  BY ONLY <1>2, SolidJoin, Zenon DEF Join
<1> QED
  BY ONLY <1>3, <1>4, <1>5, Zenon

(* A file with a block in it, of any length: the header of the block stands *)
(* nowhere in front of it, what is in front are whole lines, and braces    *)
(* match in the body.                                                      *)
Editable(t) ==
  /\ \E S : {t.pre, t.indent, t.body, t.post} \subseteq Seq(S)
  /\ \A i \in 1..(Len(t.pre) - 1) : ~(t.pre[i] = "header" /\ t.pre[i + 1] = "open")
  /\ t.pre # <<>> => t.pre[Len(t.pre)] = "nl"
  /\ \A i \in 1..Len(t.indent) : t.indent[i] = "tab"
  /\ Balanced(t.body)

Marks == {"header", "open", "close", "nl", "tab"}

LEMMA RestIs ==
  ASSUME NEW t, NEW S, Marks \subseteq S, t.indent \in Seq(S), \A i \in 1..Len(t.indent) : t.indent[i] = "tab"
  PROVE  /\ Rest(t) \in Seq(S) /\ Len(Rest(t)) = IF t.ownLine THEN Len(t.indent) + 2 ELSE 1
         /\ Rest(t)[Len(Rest(t))] = "close"
         /\ \A i \in 1..(Len(Rest(t)) - 1) : Rest(t)[i] \in Space
<1> DEFINE nl == <<"nl">>
           brace == <<"close">>
           lead == IF t.ownLine THEN nl \o t.indent ELSE <<>>
<1>1. "nl" \in S /\ "close" \in S /\ "nl" \in Space /\ "tab" \in Space
  BY DEF Marks, Space
<1>2. nl \in Seq(S) /\ brace \in Seq(S) /\ Len(nl) = 1 /\ Len(brace) = 1 /\ nl[1] = "nl" /\ brace[1] = "close"
  BY <1>1
<1> HIDE DEF nl, brace
<1> DEFINE v == t.indent
<1>3. v \in Seq(S) /\ \A i \in 1..Len(v) : v[i] = "tab"
  OBVIOUS
<1> HIDE DEF v
<1>4. /\ nl \o v \in Seq(S) /\ Len(nl \o v) = Len(v) + 1 /\ Len(v) \in Nat
      /\ \A i \in 1..Len(nl \o v) : (nl \o v)[i] \in Space
  <2>1. nl \o v \in Seq(S) /\ Len(nl \o v) = Len(v) + 1 /\ Len(v) \in Nat
    <3>1. IsJoin(S, nl \o v, nl, v)
      BY <1>2, <1>3, JoinIs DEF Join
    <3> QED
      BY ONLY <1>2, <3>1 DEF IsJoin
  <2>2. (nl \o v)[1] = "nl"
    BY <1>2, <1>3
  <2>3. ASSUME NEW i \in 2..(Len(v) + 1) PROVE (nl \o v)[i] = "tab"
    <3>1. i - 1 \in 1..Len(v) /\ (nl \o v)[i] = v[i - 1]
      BY <1>2, <1>3, <2>1
    <3> QED
      BY <1>3, <3>1
  <2>4. \A i \in 1..(Len(v) + 1) : i = 1 \/ i \in 2..(Len(v) + 1)
    BY <2>1
  <2> QED
    BY ONLY <1>1, <2>1, <2>2, <2>3, <2>4
<1>5. /\ lead \in Seq(S) /\ Len(lead) = IF t.ownLine THEN Len(t.indent) + 1 ELSE 0
      /\ \A i \in 1..Len(lead) : lead[i] \in Space
  <2>1. CASE t.ownLine
    BY <1>4, <2>1 DEF v
  <2>2. CASE ~t.ownLine
    BY <2>2
  <2> QED
    BY <2>1, <2>2
<1>6. Rest(t) = lead \o brace
  BY DEF Rest, brace, nl
<1> HIDE DEF lead
<1>7. /\ lead \o brace \in Seq(S) /\ Len(lead \o brace) = Len(lead) + 1 /\ Len(lead) \in Nat
      /\ \A i \in 1..Len(lead) : (lead \o brace)[i] = lead[i]
      /\ (lead \o brace)[Len(lead) + 1] = brace[1]
  BY <1>2, <1>5
<1>8. Len(lead) + 1 = IF t.ownLine THEN Len(t.indent) + 2 ELSE 1
  BY <1>4, <1>5 DEF v
<1>9. (Len(lead) + 1) - 1 = Len(lead)
  BY ONLY <1>7
<1> QED
  BY ONLY <1>2, <1>5, <1>6, <1>7, <1>8, <1>9, Zenon

(* Where the parts of a file are.                                          *)
LEMMA TextIs ==
  ASSUME NEW t, NEW S, Marks \subseteq S, {t.pre, t.indent, t.body, t.post} \subseteq Seq(S), Rest(t) \in Seq(S)
  PROVE  /\ Own(t) \in Seq(S) /\ Text(t) \in Seq(S)
         /\ Len(t.pre) \in Nat /\ Len(t.indent) \in Nat /\ Len(t.body) \in Nat /\ Len(Rest(t)) \in Nat /\ Len(t.post) \in Nat
         /\ Len(Own(t)) = Len(t.pre) + Len(t.indent)
         /\ Len(Text(t)) = Len(Own(t)) + 2 + Len(t.body) + Len(Rest(t)) + Len(t.post)
         /\ \A i \in 1..Len(t.pre) : Own(t)[i] = t.pre[i]
         /\ \A i \in 1..Len(t.indent) : Own(t)[Len(t.pre) + i] = t.indent[i]
         /\ \A i \in 1..Len(Own(t)) : Text(t)[i] = Own(t)[i]
         /\ Text(t)[Len(Own(t)) + 1] = "header" /\ Text(t)[Len(Own(t)) + 2] = "open"
         /\ \A i \in 1..Len(t.body) : Text(t)[Len(Own(t)) + 2 + i] = t.body[i]
         /\ \A i \in 1..Len(Rest(t)) : Text(t)[Len(Own(t)) + 2 + Len(t.body) + i] = Rest(t)[i]
         /\ \A i \in 1..Len(t.post) : Text(t)[Len(Own(t)) + 2 + Len(t.body) + Len(Rest(t)) + i] = t.post[i]
<1> DEFINE head == <<"header", "open">>
           p == Own(t)
           r == Rest(t)
           a == Join(p, head)
           b == Join(a, t.body)
           c == Join(b, r)
<1>1. head \in Seq(S) /\ Len(head) = 2 /\ head[1] = "header" /\ head[2] = "open"
  BY DEF Marks
<1>2. t.pre \in Seq(S) /\ t.indent \in Seq(S) /\ t.body \in Seq(S) /\ t.post \in Seq(S) /\ r \in Seq(S)
  OBVIOUS
<1>3. IsJoin(S, p, t.pre, t.indent)
  BY <1>2, JoinIs DEF Own, Join
<1>4. Text(t) = Join(c, t.post)
  BY Zenon DEF Text, Join
<1> HIDE DEF head, p, r
<1>5. p \in Seq(S)
  BY <1>3 DEF IsJoin
<1>6. IsJoin(S, a, p, head)
  BY ONLY <1>1, <1>5, JoinIs
<1>7. IsJoin(S, b, a, t.body)
  <2>1. a \in Seq(S)
    BY <1>6 DEF IsJoin
  <2> QED
    BY ONLY <1>2, <2>1, JoinIs
<1>8. IsJoin(S, c, b, r)
  <2>1. b \in Seq(S)
    BY <1>7 DEF IsJoin
  <2> QED
    BY ONLY <1>2, <2>1, JoinIs
<1> DEFINE x == Text(t)
<1>9. IsJoin(S, x, c, t.post)
  <2>1. c \in Seq(S)
    BY <1>8 DEF IsJoin
  <2>2. IsJoin(S, Join(c, t.post), c, t.post)
    BY ONLY <1>2, <2>1, JoinIs
  <2> QED
    BY ONLY <1>4, <2>2, Zenon
<1> HIDE DEF a, b, c, x
<1>10. /\ Len(p) = Len(t.pre) + Len(t.indent) /\ Len(a) = Len(p) + Len(head) /\ Len(b) = Len(a) + Len(t.body)
       /\ Len(c) = Len(b) + Len(r) /\ Len(x) = Len(c) + Len(t.post)
       /\ Len(t.pre) \in Nat /\ Len(t.indent) \in Nat /\ Len(p) \in Nat /\ Len(a) \in Nat
       /\ Len(t.body) \in Nat /\ Len(b) \in Nat /\ Len(r) \in Nat /\ Len(c) \in Nat /\ Len(t.post) \in Nat
  BY ONLY <1>3, <1>6, <1>7, <1>8, <1>9, Zenon DEF IsJoin
<1>11. /\ \A i \in 1..Len(t.pre) : p[i] = t.pre[i]
       /\ \A i \in 1..Len(t.indent) : p[Len(t.pre) + i] = t.indent[i]
       /\ \A i \in 1..Len(p) : a[i] = p[i]
       /\ \A i \in 1..Len(head) : a[Len(p) + i] = head[i]
       /\ \A i \in 1..Len(a) : b[i] = a[i]
       /\ \A i \in 1..Len(t.body) : b[Len(a) + i] = t.body[i]
       /\ \A i \in 1..Len(b) : c[i] = b[i]
       /\ \A i \in 1..Len(r) : c[Len(b) + i] = r[i]
       /\ \A i \in 1..Len(c) : x[i] = c[i]
       /\ \A i \in 1..Len(t.post) : x[Len(c) + i] = t.post[i]
  BY ONLY <1>3, <1>6, <1>7, <1>8, <1>9, Zenon DEF IsJoin
<1>12. Len(head) = 2 /\ head[1] = "header" /\ head[2] = "open"
  BY ONLY <1>1
<1>13. /\ Len(a) = Len(p) + 2 /\ Len(b) = Len(p) + 2 + Len(t.body) /\ Len(c) = Len(p) + 2 + Len(t.body) + Len(r)
       /\ Len(x) = Len(p) + 2 + Len(t.body) + Len(r) + Len(t.post)
  BY ONLY <1>10, <1>12
<1>14. /\ \A i \in 1..Len(a) : i \in 1..Len(b) /\ i \in 1..Len(c)
       /\ \A i \in 1..Len(b) : i \in 1..Len(c)
       /\ \A i \in 1..Len(p) : i \in 1..Len(a)
       /\ \A i \in 1..Len(head) : Len(p) + i \in 1..Len(a)
       /\ \A i \in 1..Len(t.body) : Len(a) + i \in 1..Len(b)
       /\ \A i \in 1..Len(r) : Len(b) + i \in 1..Len(c)
       /\ 1 \in 1..Len(head) /\ 2 \in 1..Len(head)
  <2>1. ASSUME NEW k \in Nat, NEW m \in Nat
        PROVE  \A i \in 1..k : i \in 1..(k + m) /\ m + i \in 1..(m + k)
    OBVIOUS
  <2>2. 1 \in 1..2 /\ 2 \in 1..2 /\ 2 \in Nat
    OBVIOUS
  <2>3. \A i \in 1..Len(a) : i \in 1..Len(b)
    BY ONLY <1>10, <2>1, Zenon
  <2>4. \A i \in 1..Len(b) : i \in 1..Len(c)
    BY ONLY <1>10, <2>1, Zenon
  <2>5. \A i \in 1..Len(p) : i \in 1..Len(a)
    BY ONLY <1>10, <1>12, <2>1, <2>2, Zenon
  <2>6. \A i \in 1..Len(head) : Len(p) + i \in 1..Len(a)
    BY ONLY <1>10, <1>12, <2>1, <2>2, Zenon
  <2>7. \A i \in 1..Len(t.body) : Len(a) + i \in 1..Len(b)
    BY ONLY <1>10, <2>1, Zenon
  <2>8. \A i \in 1..Len(r) : Len(b) + i \in 1..Len(c)
    BY ONLY <1>10, <2>1, Zenon
  <2> QED
    BY ONLY <1>12, <2>2, <2>3, <2>4, <2>5, <2>6, <2>7, <2>8, Zenon
<1>15. \A i \in 1..Len(a) : x[i] = a[i]
  BY ONLY <1>11, <1>14, Zenon
<1>16. \A i \in 1..Len(t.body) : x[Len(a) + i] = t.body[i]
  BY ONLY <1>11, <1>14, Zenon
<1>17. \A i \in 1..Len(r) : x[Len(b) + i] = r[i]
  BY ONLY <1>11, <1>14, Zenon
<1>18. \A i \in 1..Len(p) : x[i] = p[i]
  BY ONLY <1>11, <1>14, <1>15, Zenon
<1>19. x[Len(p) + 1] = "header" /\ x[Len(p) + 2] = "open"
  BY ONLY <1>11, <1>12, <1>14, <1>15, Zenon
<1>20. x \in Seq(S)
  BY <1>9 DEF IsJoin
<1> QED
  BY ONLY <1>5, <1>10, <1>11, <1>13, <1>16, <1>17, <1>18, <1>19, <1>20, Zenon DEF x, p, r

Numbers(t) ==
  /\ Len(t.pre) \in Nat /\ Len(t.indent) \in Nat /\ Len(t.body) \in Nat /\ Len(t.post) \in Nat
  /\ Len(Own(t)) \in Nat /\ Len(Own(t)) = Len(t.pre) + Len(t.indent)
  /\ Len(Rest(t)) \in Nat /\ Len(Rest(t)) = IF t.ownLine THEN Len(t.indent) + 2 ELSE 1
  /\ Len(Text(t)) = Len(Own(t)) + 2 + Len(t.body) + Len(Rest(t)) + Len(t.post)

Pieces(t) ==
  /\ \A i \in 1..Len(t.pre) : Own(t)[i] = t.pre[i]
  /\ \A i \in 1..Len(t.indent) : Own(t)[Len(t.pre) + i] = t.indent[i] /\ t.indent[i] = "tab"
  /\ \A i \in 1..(Len(Rest(t)) - 1) : Rest(t)[i] \in Space
  /\ Rest(t)[Len(Rest(t))] = "close"
  /\ \A i \in 1..Len(Own(t)) : Text(t)[i] = Own(t)[i]
  /\ Text(t)[Len(Own(t)) + 1] = "header" /\ Text(t)[Len(Own(t)) + 2] = "open"
  /\ \A i \in 1..Len(t.body) : Text(t)[Len(Own(t)) + 2 + i] = t.body[i]
  /\ \A i \in 1..Len(Rest(t)) : Text(t)[Len(Own(t)) + 2 + Len(t.body) + i] = Rest(t)[i]
  /\ \A i \in 1..Len(t.post) : Text(t)[Len(Own(t)) + 2 + Len(t.body) + Len(Rest(t)) + i] = t.post[i]

Layout(t, S) ==
  /\ Marks \subseteq S /\ {t.pre, t.indent, t.body, t.post, Own(t), Rest(t), Text(t)} \subseteq Seq(S)
  /\ Numbers(t) /\ Pieces(t)

LEMMA LayoutIs ==
  ASSUME NEW t, Editable(t)
  PROVE  \E S : Layout(t, S)
<1>1. PICK T : {t.pre, t.indent, t.body, t.post} \subseteq Seq(T)
  BY DEF Editable
<1> DEFINE S == T \cup Marks
<1>2. Seq(T) \subseteq Seq(S)
  OBVIOUS
<1>3. {t.pre, t.indent, t.body, t.post} \subseteq Seq(S) /\ Marks \subseteq S
  BY ONLY <1>1, <1>2
<1> HIDE DEF S
<1>4. \A i \in 1..Len(t.indent) : t.indent[i] = "tab"
  BY DEF Editable
<1>5. t.indent \in Seq(S)
  BY ONLY <1>3
<1>6. /\ Rest(t) \in Seq(S) /\ Len(Rest(t)) = IF t.ownLine THEN Len(t.indent) + 2 ELSE 1
      /\ Rest(t)[Len(Rest(t))] = "close"
      /\ \A i \in 1..(Len(Rest(t)) - 1) : Rest(t)[i] \in Space
  BY ONLY <1>3, <1>4, <1>5, RestIs, Zenon
<1>7. /\ Own(t) \in Seq(S) /\ Text(t) \in Seq(S)
      /\ Len(t.pre) \in Nat /\ Len(t.indent) \in Nat /\ Len(t.body) \in Nat /\ Len(Rest(t)) \in Nat /\ Len(t.post) \in Nat
      /\ Len(Own(t)) = Len(t.pre) + Len(t.indent)
      /\ Len(Text(t)) = Len(Own(t)) + 2 + Len(t.body) + Len(Rest(t)) + Len(t.post)
      /\ \A i \in 1..Len(t.pre) : Own(t)[i] = t.pre[i]
      /\ \A i \in 1..Len(t.indent) : Own(t)[Len(t.pre) + i] = t.indent[i]
      /\ \A i \in 1..Len(Own(t)) : Text(t)[i] = Own(t)[i]
      /\ Text(t)[Len(Own(t)) + 1] = "header" /\ Text(t)[Len(Own(t)) + 2] = "open"
      /\ \A i \in 1..Len(t.body) : Text(t)[Len(Own(t)) + 2 + i] = t.body[i]
      /\ \A i \in 1..Len(Rest(t)) : Text(t)[Len(Own(t)) + 2 + Len(t.body) + i] = Rest(t)[i]
      /\ \A i \in 1..Len(t.post) : Text(t)[Len(Own(t)) + 2 + Len(t.body) + Len(Rest(t)) + i] = t.post[i]
  BY ONLY <1>3, <1>6, TextIs, Zenon
<1>8. Len(Own(t)) \in Nat
  <2>1. Len(t.pre) \in Nat /\ Len(t.indent) \in Nat /\ Len(Own(t)) = Len(t.pre) + Len(t.indent)
    BY ONLY <1>7, Zenon
  <2>2. \A a, b \in Nat : a + b \in Nat
    OBVIOUS
  <2> QED
    BY ONLY <2>1, <2>2, Zenon
<1>9. Numbers(t)
  BY ONLY <1>6, <1>7, <1>8, Zenon DEF Numbers
<1>10. Pieces(t)
  BY ONLY <1>4, <1>6, <1>7, Zenon DEF Pieces
<1>11. {t.pre, t.indent, t.body, t.post, Own(t), Rest(t), Text(t)} \subseteq Seq(S)
  BY ONLY <1>3, <1>6, <1>7
<1> QED
  BY ONLY <1>3, <1>9, <1>10, <1>11, Zenon DEF Layout

LEMMA FirstIs ==
  ASSUME NEW T, NEW n \in T, \A k \in T : k \in Int /\ n <= k
  PROVE  Smallest(T) = n
BY DEF Smallest

LEMMA LastIs ==
  ASSUME NEW T, NEW n \in T, \A k \in T : k \in Int /\ k <= n
  PROVE  Greatest(T) = n
<1>1. \E g \in T : \A m \in T : g >= m
  OBVIOUS
<1>2. Greatest(T) \in T /\ \A m \in T : Greatest(T) >= m
  BY ONLY <1>1, Zenon DEF Greatest
<1>3. \A g \in T : n >= g /\ g \in Int /\ (g >= n => g = n)
  OBVIOUS
<1>4. n \in T
  OBVIOUS
<1> QED
  BY ONLY <1>2, <1>3, <1>4, Zenon

(* The header stands nowhere before the block.                             *)
Headers(x) == {i \in 1..(Len(x) - 1) : x[i] = "header" /\ x[i + 1] = "open"}

LEMMA HeaderIs ==
  ASSUME NEW t, Editable(t), Numbers(t), Pieces(t)
  PROVE  Headers(Text(t)) # {} /\ Smallest(Headers(Text(t))) = Len(Own(t)) + 1
<1> DEFINE x == Text(t)
           n == Len(Own(t))
           l == Len(t.pre)
           v == Len(t.indent)
<1>1. /\ l \in Nat /\ v \in Nat /\ n = l + v /\ Len(x) \in Nat /\ Len(x) >= n + 3
  <2> DEFINE e == Len(Rest(t))
             m == Len(t.body)
             o == Len(t.post)
  <2>1. /\ l \in Nat /\ v \in Nat /\ m \in Nat /\ o \in Nat /\ n \in Nat /\ e \in Nat /\ n = l + v
        /\ e = (IF t.ownLine THEN v + 2 ELSE 1) /\ Len(x) = n + 2 + m + e + o
    BY Zenon DEF Numbers
  <2> HIDE DEF l, v, n, x, e, m, o
  <2> QED
    BY ONLY <2>1
<1>2. x[n + 1] = "header" /\ x[n + 2] = "open"
  BY Zenon DEF Pieces
<1>3. (\A i \in 1..n : x[i] = Own(t)[i]) /\ (\A i \in 1..l : Own(t)[i] = t.pre[i]) /\ \A i \in 1..v : Own(t)[l + i] = "tab"
  BY Zenon DEF Pieces
<1>4. /\ \A i \in 1..(l - 1) : ~(t.pre[i] = "header" /\ t.pre[i + 1] = "open")
      /\ t.pre # <<>> => t.pre[l] = "nl"
  BY DEF Editable
<1>5. l # 0 => t.pre # <<>>
  OBVIOUS
<1> HIDE DEF x, n, l, v
<1>6. n + 1 \in Headers(x)
  BY ONLY <1>1, <1>2 DEF Headers
<1>7. ASSUME NEW i \in Headers(x) PROVE i \in Int /\ n + 1 <= i
  <2>1. i \in 1..(Len(x) - 1) /\ x[i] = "header" /\ x[i + 1] = "open"
    BY DEF Headers
  <2>2. ASSUME i <= n PROVE FALSE
    <3>1. CASE i > l
      <4>1. i - l \in 1..v /\ l + (i - l) = i /\ i \in 1..n
        BY ONLY <1>1, <2>1, <2>2, <3>1
      <4>2. x[i] = "tab"
        BY ONLY <1>3, <4>1, Zenon
      <4> QED
        BY ONLY <2>1, <4>2
    <3>2. CASE i = l
      <4>1. i \in 1..n /\ i \in 1..l /\ l # 0
        BY ONLY <1>1, <2>1, <2>2, <3>2
      <4>2. x[i] = "nl"
        BY ONLY <1>3, <1>4, <1>5, <3>2, <4>1, Zenon
      <4> QED
        BY ONLY <2>1, <4>2
    <3>3. CASE i < l
      <4>1. i \in 1..n /\ i \in 1..l /\ i + 1 \in 1..n /\ i + 1 \in 1..l /\ i \in 1..(l - 1)
        BY ONLY <1>1, <2>1, <2>2, <3>3
      <4> QED
        BY ONLY <1>3, <1>4, <2>1, <4>1, Zenon
    <3> QED
      BY ONLY <1>1, <2>1, <3>1, <3>2, <3>3
  <2> QED
    BY ONLY <1>1, <2>1, <2>2
<1>8. Smallest(Headers(x)) = n + 1
  BY ONLY <1>6, <1>7, FirstIs
<1> QED
  BY <1>6, <1>8 DEF x, n

(* The indentation is what stands before the header in its line.           *)
LEMMA LineIs ==
  ASSUME NEW t, Editable(t), Numbers(t), Pieces(t)
  PROVE  Greatest({0} \cup {i \in 1..Len(Own(t)) : Text(t)[i] = "nl"}) = Len(t.pre)
<1> DEFINE x == Text(t)
           n == Len(Own(t))
           l == Len(t.pre)
           v == Len(t.indent)
           T == {0} \cup {i \in 1..n : x[i] = "nl"}
<1>1. l \in Nat /\ v \in Nat /\ n = l + v
  BY DEF Numbers
<1>2. (\A i \in 1..n : x[i] = Own(t)[i]) /\ (\A i \in 1..l : Own(t)[i] = t.pre[i]) /\ \A i \in 1..v : Own(t)[l + i] = "tab"
  BY Zenon DEF Pieces
<1>3. t.pre # <<>> => t.pre[l] = "nl"
  BY DEF Editable
<1>4. l # 0 => t.pre # <<>>
  OBVIOUS
<1> HIDE DEF x, n, l, v
<1>5. l \in T
  <2>1. CASE l = 0
    BY <2>1
  <2>2. CASE l # 0
    <3>1. l \in 1..l /\ l \in 1..n
      BY ONLY <1>1, <2>2
    <3>2. x[l] = "nl"
      BY ONLY <1>2, <1>3, <1>4, <2>2, <3>1, Zenon
    <3> QED
      BY <3>1, <3>2
  <2> QED
    BY <2>1, <2>2
<1>6. ASSUME NEW i \in T PROVE i \in Int /\ i <= l
  <2>1. i = 0 \/ (i \in 1..n /\ x[i] = "nl")
    OBVIOUS
  <2>2. ASSUME i \in 1..n, x[i] = "nl", i > l PROVE FALSE
    <3>1. i - l \in 1..v /\ l + (i - l) = i
      BY ONLY <1>1, <2>2
    <3>2. x[i] = "tab"
      BY ONLY <1>2, <2>2, <3>1, Zenon
    <3> QED
      BY ONLY <2>2, <3>2
  <2> QED
    BY ONLY <1>1, <2>1, <2>2
<1> HIDE DEF T
<1>7. \A i \in T : i \in Int /\ i <= l
  BY ONLY <1>6
<1>8. Greatest(T) = l
  BY ONLY <1>5, <1>7, LastIs, Zenon
<1> QED
  BY <1>8 DEF T, x, n, l

(* The scan of a space, or of the piece that closes, in a block.           *)
LEMMA ScanOfPieces ==
  /\ Clear \in ScanStates /\ Deeper(Clear) \in ScanStates
  /\ Deeper(Clear).quoted = FALSE /\ Deeper(Clear).depth = 1
  /\ Scan(Clear, "open") = Deeper(Clear)
  /\ \A c \in Space : Scan(Deeper(Clear), c) = Deeper(Clear)
<1>1. Clear \in ScanStates /\ Clear.quoted = FALSE /\ Clear.escaped = FALSE /\ Clear.depth = 0
  BY DEF Clear, ScanStates
<1>2. Deeper(Clear) = [quoted |-> FALSE, escaped |-> FALSE, depth |-> 1]
  <2> DEFINE c == Clear
             d == Deeper(c)
  <2>1. c \in ScanStates /\ c.quoted = FALSE /\ c.escaped = FALSE /\ c.depth = 0
    BY <1>1
  <2> HIDE DEF c
  <2>2. d.escaped = c.escaped
    BY <2>1 DEF Deeper, ScanStates
  <2>3. d \in ScanStates /\ d.quoted = c.quoted /\ d.depth = c.depth + 1
    BY <2>1, ScanDeeper
  <2> HIDE DEF d
  <2>4. d = [quoted |-> d.quoted, escaped |-> d.escaped, depth |-> d.depth]
    BY <2>3 DEF ScanStates
  <2> QED
    BY <2>1, <2>2, <2>3, <2>4 DEF c, d
<1>3. /\ Deeper(Clear) \in ScanStates /\ Deeper(Clear).quoted = FALSE
      /\ Deeper(Clear).escaped = FALSE /\ Deeper(Clear).depth = 1
  BY <1>2 DEF ScanStates
<1>4. Scan(Clear, "open") = Deeper(Clear)
  <2>1. Scan(Clear, "open") = [quoted |-> FALSE, escaped |-> Clear.escaped, depth |-> Clear.depth + 1]
    BY <1>1, ScanCases
  <2> QED
    BY <1>1, <1>2, <2>1
<1>5. ASSUME NEW c \in Space PROVE Scan(Deeper(Clear), c) = Deeper(Clear)
  <2>1. c \notin {"quote", "open", "close"}
    BY DEF Space
  <2>2. Scan(Deeper(Clear), c) =
          [quoted |-> FALSE, escaped |-> Deeper(Clear).escaped, depth |-> Deeper(Clear).depth]
    BY <1>3, <2>1, ScanCases
  <2> QED
    BY <1>2, <1>3, <2>2
<1> QED
  BY <1>1, <1>3, <1>4, <1>5

(* The states of the scan of a block q whose last pieces are spaces and    *)
(* the closing brace; y[k] is the piece k steps after the opening brace.   *)
BlockScan(st, y, n) ==
  /\ st[0] = Clear /\ \A k \in 1..n : st[k] = Scan(st[k - 1], y[k - 1])
  /\ st[n] = Deeper(Clear)
  /\ \A k \in 0..(n - 1) : y[k] = "close" => st[k].quoted \/ st[k].depth # 1

LEMMA BlockStates ==
  ASSUME NEW q, NEW y, NEW m, NEW e, Balanced(q), Len(q) = m /\ m \in Nat /\ e \in Nat /\ e >= 1, y[0] = "open",
         (\A k \in 1..m : y[k] = q[k]) /\ \A k \in (m + 1)..((m + e) - 1) : y[k] \in Space
  PROVE  \E st : BlockScan(st, y, m + e)
<1>1. PICK s : /\ s \in [0..Len(q) -> ScanStates] /\ s[0] = Clear /\ s[Len(q)] = Clear
               /\ \A k \in 1..Len(q) : s[k] = Scan(s[k - 1], q[k])
               /\ \A k \in 0..Len(q) : s[k].depth \in Nat
  BY DEF Balanced, Run
<1>2. /\ s[0] = Clear /\ s[m] = Clear /\ \A k \in 0..m : s[k] \in ScanStates /\ s[k].depth \in Nat
      /\ \A k \in 1..m : s[k] = Scan(s[k - 1], q[k])
  BY <1>1
<1> DEFINE st == [k \in 0..(m + e) |-> IF k = 0 THEN Clear ELSE IF k <= m + 1 THEN Deeper(s[k - 1]) ELSE Deeper(Clear)]
<1>3. st[0] = Clear /\ (\A k \in 1..(m + 1) : st[k] = Deeper(s[k - 1])) /\ \A k \in (m + 2)..(m + e) : st[k] = Deeper(Clear)
  <2>1. ASSUME NEW k \in 1..(m + 1) PROVE k \in 0..(m + e) /\ k # 0 /\ k <= m + 1
    OBVIOUS
  <2>2. ASSUME NEW k \in (m + 2)..(m + e) PROVE k \in 0..(m + e) /\ k # 0 /\ ~(k <= m + 1)
    OBVIOUS
  <2> QED
    BY <2>1, <2>2
<1> HIDE DEF st
<1>4. \A k \in (m + 1)..(m + e) : st[k] = Deeper(Clear)
  <2>1. m + 1 \in 1..(m + 1) /\ (m + 1) - 1 = m
    OBVIOUS
  <2>2. st[m + 1] = Deeper(Clear)
    BY <1>2, <1>3, <2>1
  <2>3. \A k \in (m + 1)..(m + e) : k = m + 1 \/ k \in (m + 2)..(m + e)
    OBVIOUS
  <2> QED
    BY <1>3, <2>2, <2>3
<1>5. ASSUME NEW k \in 1..(m + e) PROVE st[k] = Scan(st[k - 1], y[k - 1])
  <2>1. CASE k = 1
    <3>1. st[1] = Deeper(Clear) /\ st[0] = Clear /\ k - 1 = 0
      <4>1. 1 \in 1..(m + 1) /\ 1 - 1 = 0
        OBVIOUS
      <4> QED
        BY <1>2, <1>3, <2>1, <4>1
    <3> QED
      BY <2>1, <3>1, ScanOfPieces
  <2>2. CASE k \in 2..(m + 1)
    <3> DEFINE i == k - 1
    <3>1. i \in 1..m /\ i \in 1..(m + 1) /\ k \in 1..(m + 1) /\ i - 1 \in 0..m
      BY <2>2
    <3>2. st[k] = Deeper(s[i]) /\ st[i] = Deeper(s[i - 1]) /\ s[i] = Scan(s[i - 1], q[i]) /\ y[i] = q[i]
      BY <1>2, <1>3, <3>1
    <3>3. s[i - 1] \in ScanStates
      BY <1>2, <3>1
    <3>4. Scan(Deeper(s[i - 1]), q[i]) = Deeper(Scan(s[i - 1], q[i]))
      BY <3>3, ScanDeeper
    <3> QED
      BY <3>2, <3>4
  <2>3. CASE k \in (m + 2)..(m + e)
    <3>1. k - 1 \in (m + 1)..((m + e) - 1) /\ k - 1 \in (m + 1)..(m + e) /\ k \in (m + 1)..(m + e)
      BY <2>3
    <3>2. st[k] = Deeper(Clear) /\ st[k - 1] = Deeper(Clear) /\ y[k - 1] \in Space
      BY <1>4, <3>1
    <3> QED
      BY <3>2, ScanOfPieces
  <2> QED
    BY <2>1, <2>2, <2>3
<1>6. ASSUME NEW k \in 0..((m + e) - 1), y[k] = "close" PROVE st[k].quoted \/ st[k].depth # 1
  <2>1. k # 0
    BY <1>6
  <2>2. k \notin (m + 1)..((m + e) - 1)
    BY <1>6 DEF Space
  <2>3. k \in 1..m
    BY <2>1, <2>2
  <2>4. /\ k - 1 \in 0..m /\ k \in 0..m /\ s[k - 1] \in ScanStates /\ s[k] = Scan(s[k - 1], "close")
        /\ s[k].depth \in Nat /\ st[k] = Deeper(s[k - 1])
    <3>1. k - 1 \in 0..m /\ k \in 0..m /\ k \in 1..(m + 1)
      BY <2>3
    <3>2. q[k] = "close"
      BY <1>6, <2>3
    <3> QED
      BY <1>1, <1>2, <1>3, <2>3, <3>1, <3>2
  <2> DEFINE r == s[k - 1]
  <2>5. Deeper(r).quoted = r.quoted /\ Deeper(r).depth = r.depth + 1 /\ r.depth \in Int
    BY <2>4 DEF Deeper, ScanStates
  <2>6. ASSUME ~r.quoted, r.depth = 0 PROVE FALSE
    <3>1. Scan(r, "close") = [quoted |-> FALSE, escaped |-> r.escaped, depth |-> r.depth - 1]
      BY <2>4, <2>6, ScanCases
    <3>2. s[k].depth = 0 - 1
      BY <2>4, <2>6, <3>1
    <3> QED
      BY <2>4, <3>2
  <2> HIDE DEF r
  <2>7. r.depth + 1 = 1 => r.depth = 0
    BY <2>5
  <2> QED
    BY <2>4, <2>5, <2>6, <2>7 DEF r
<1>7. m + e \in (m + 1)..(m + e)
  OBVIOUS
<1>8. /\ st[0] = Clear /\ \A k \in 1..(m + e) : st[k] = Scan(st[k - 1], y[k - 1])
      /\ st[m + e] = Deeper(Clear)
      /\ \A k \in 0..((m + e) - 1) : y[k] = "close" => st[k].quoted \/ st[k].depth # 1
  BY <1>3, <1>4, <1>5, <1>6, <1>7, Zenon
<1> QED
  BY <1>8 DEF BlockScan

(* The scan finds the closing brace of the block and none before it.       *)
Ends(x, at) == {j \in (at + 1)..Len(x) : x[j] = "close" /\ LET s == ScanTo(x, at + 1, j)
                                                         IN  ~s.quoted /\ s.depth = 1}

LEMMA EndIs ==
  ASSUME NEW t, Editable(t), Numbers(t), Pieces(t)
  PROVE  LET last == Len(Text(t)) - Len(t.post)
         IN  /\ last \in Nat /\ last = Len(Own(t)) + 2 + Len(t.body) + Len(Rest(t))
             /\ Ends(Text(t), Len(Own(t)) + 1) # {} /\ Smallest(Ends(Text(t), Len(Own(t)) + 1)) = last
<1> DEFINE x == Text(t)
           n == Len(Own(t))
           m == Len(t.body)
           e == Len(Rest(t))
           o == Len(t.post)
           y == [k \in 0..(m + e) |-> x[n + 2 + k]]
<1>1. n \in Nat /\ m \in Nat /\ e \in Nat /\ e >= 1 /\ o \in Nat /\ Len(x) = n + 2 + m + e + o
  <2> DEFINE v == Len(t.indent)
  <2>1. /\ v \in Nat /\ m \in Nat /\ o \in Nat /\ n \in Nat /\ e \in Nat
        /\ e = (IF t.ownLine THEN v + 2 ELSE 1) /\ Len(x) = n + 2 + m + e + o
    BY Zenon DEF Numbers
  <2> HIDE DEF v, n, x, e, m, o
  <2> QED
    BY ONLY <2>1
<1>2. x[n + 2] = "open" /\ (\A i \in 1..m : x[n + 2 + i] = t.body[i]) /\ Balanced(t.body)
  BY Zenon DEF Pieces, Editable
<1>3. (\A i \in 1..e : x[n + 2 + m + i] = Rest(t)[i]) /\ (\A i \in 1..(e - 1) : Rest(t)[i] \in Space) /\ Rest(t)[e] = "close"
  BY Zenon DEF Pieces
<1>4. Len(t.body) = m
  OBVIOUS
<1> HIDE DEF x, n, m, e, o
<1>5. y[0] = "open"
  BY ONLY <1>1, <1>2
<1>6. \A k \in 1..m : y[k] = t.body[k]
  <2>1. \A k \in 1..m : k \in 0..(m + e)
    BY ONLY <1>1
  <2>2. \A k \in 1..m : y[k] = x[n + 2 + k]
    BY ONLY <2>1, Zenon
  <2> QED
    BY ONLY <1>2, <2>2, Zenon
<1>7. \A k \in (m + 1)..(m + e) : y[k] = Rest(t)[k - m]
  <2>1. ASSUME NEW k \in (m + 1)..(m + e) PROVE y[k] = Rest(t)[k - m]
    <3>1. k - m \in 1..e /\ k \in 0..(m + e) /\ n + 2 + m + (k - m) = n + 2 + k
      BY ONLY <1>1, <2>1
    <3>2. x[n + 2 + m + (k - m)] = Rest(t)[k - m]
      BY ONLY <1>3, <3>1, Zenon
    <3> QED
      BY ONLY <3>1, <3>2
  <2> QED
    BY <2>1
<1>8. \A k \in (m + 1)..((m + e) - 1) : y[k] \in Space
  <2>1. ASSUME NEW k \in (m + 1)..((m + e) - 1) PROVE y[k] \in Space
    <3>1. k \in (m + 1)..(m + e) /\ k - m \in 1..(e - 1)
      BY ONLY <1>1, <2>1
    <3> QED
      BY ONLY <1>3, <1>7, <3>1, Zenon
  <2> QED
    BY <2>1
<1>9. y[m + e] = "close"
  <2>1. m + e \in (m + 1)..(m + e) /\ (m + e) - m = e
    BY ONLY <1>1
  <2> QED
    BY ONLY <1>3, <1>7, <2>1, Zenon
<1>10. \A k \in 0..(m + e) : y[k] = x[n + 2 + k]
  OBVIOUS
<1> HIDE DEF y
<1>11. \E st : BlockScan(st, y, m + e)
  <2>1. (\A k \in 1..m : y[k] = t.body[k]) /\ \A k \in (m + 1)..((m + e) - 1) : y[k] \in Space
    BY ONLY <1>6, <1>8, Zenon
  <2>2. Len(t.body) = m /\ m \in Nat /\ e \in Nat /\ e >= 1
    BY ONLY <1>1, <1>4, Zenon
  <2>3. Balanced(t.body)
    BY <1>2
  <2> QED
    BY ONLY <1>5, <2>1, <2>2, <2>3, BlockStates, Zenon
<1>12. PICK st : BlockScan(st, y, m + e)
  BY ONLY <1>11
<1>13. /\ st[0] = Clear /\ \A k \in 1..(m + e) : st[k] = Scan(st[k - 1], y[k - 1])
       /\ st[m + e] = Deeper(Clear)
       /\ \A k \in 0..((m + e) - 1) : y[k] = "close" => st[k].quoted \/ st[k].depth # 1
  BY ONLY <1>12 DEF BlockScan
<1>14. ASSUME NEW k \in 0..(m + e) PROVE ScanTo(x, n + 2, n + 2 + k) = st[k]
  <2>1. k \in Nat /\ n + 2 \in Nat
    BY ONLY <1>1, <1>14
  <2>2. ASSUME NEW i \in 1..k PROVE st[i] = Scan(st[i - 1], x[(n + 2) + i - 1])
    <3>1. i \in 1..(m + e) /\ i - 1 \in 0..(m + e) /\ n + 2 + (i - 1) = (n + 2) + i - 1
      BY ONLY <1>1, <1>14, <2>2
    <3> QED
      BY ONLY <1>10, <1>13, <3>1, Zenon
  <2>3. Scans(st, x, n + 2, k)
    BY ONLY <1>13, <2>2, Zenon DEF Scans
  <2> QED
    BY ONLY <2>1, <2>3, ScanIs, Zenon
<1> DEFINE last == n + 2 + m + e
           E == Ends(x, n + 1)
<1>15. last \in Nat /\ last = Len(x) - o /\ last \in (n + 2)..Len(x) /\ (n + 1) + 1 = n + 2 /\ n + 2 + (m + e) = last /\ m + e \in 0..(m + e)
  BY ONLY <1>1
<1>16. last \in E
  <2>1. x[last] = "close" /\ ScanTo(x, n + 2, last) = Deeper(Clear)
    BY ONLY <1>9, <1>10, <1>13, <1>14, <1>15, Zenon
  <2> QED
    BY <1>15, <2>1, ScanOfPieces DEF Ends
<1>17. ASSUME NEW j \in E PROVE j \in Int /\ last <= j
  <2> DEFINE k == j - (n + 2)
  <2>1. j \in (n + 2)..Len(x) /\ x[j] = "close" /\ ~ScanTo(x, n + 2, j).quoted /\ ScanTo(x, n + 2, j).depth = 1
    BY ONLY <1>15, <1>17 DEF Ends
  <2>2. ASSUME j < last PROVE FALSE
    <3>1. k \in 0..(m + e) /\ k \in 0..((m + e) - 1) /\ n + 2 + k = j
      BY ONLY <1>1, <2>1, <2>2
    <3> HIDE DEF k
    <3>2. ScanTo(x, n + 2, j) = st[k] /\ y[k] = "close"
      BY ONLY <1>10, <1>14, <2>1, <3>1, Zenon
    <3> QED
      BY ONLY <1>13, <2>1, <3>1, <3>2, Zenon
  <2> QED
    BY ONLY <1>15, <2>1, <2>2
<1> HIDE DEF E, last
<1>18. \A j \in E : j \in Int /\ last <= j
  BY ONLY <1>17
<1>19. Smallest(E) = last /\ E # {}
  BY ONLY <1>16, <1>18, FirstIs
<1> QED
  BY ONLY <1>15, <1>19, Zenon DEF E, last, x, n, m, e, o

LEMMA LocateIs ==
  ASSUME NEW x
  PROVE  LET at == Smallest(Headers(x))
         IN  Locate(x) = IF Headers(x) = {} \/ Ends(x, at) = {} THEN NotFound
                         ELSE [found |-> TRUE, first |-> at, last |-> Smallest(Ends(x, at)),
                               indent |-> SubSeq(x, Greatest({0} \cup {i \in 1..(at - 1) : x[i] = "nl"}) + 1, at - 1)]
BY Zenon DEF Locate, Headers, Ends

(* A part of a sequence.                                                   *)
LEMMA PartIs ==
  ASSUME NEW S, NEW x \in Seq(S), NEW u \in Seq(S), NEW l \in Nat, NEW k, k = l + Len(u), k <= Len(x),
         \A i \in 1..Len(u) : x[l + i] = u[i]
  PROVE  SubSeq(x, l + 1, k) = u
<1>1. /\ SubSeq(x, l + 1, k) \in Seq(S) /\ Len(SubSeq(x, l + 1, k)) = Len(u) /\ Len(u) \in Nat
  OBVIOUS
<1>2. \A i \in 1..Len(u) : SubSeq(x, l + 1, k)[i] = u[i]
  OBVIOUS
<1> QED
  BY ONLY <1>1, <1>2, SameSequence, Zenon

LEMMA BlockIsFound ==
  ASSUME NEW t, Editable(t)
  PROVE  BlockIsLocated(t)
<1>1. PICK S : Layout(t, S)
  BY LayoutIs
<1>2. Numbers(t) /\ Pieces(t) /\ t.indent \in Seq(S) /\ Text(t) \in Seq(S)
  BY ONLY <1>1 DEF Layout
<1> DEFINE x == Text(t)
           n == Len(Own(t))
           l == Len(t.pre)
           v == Len(t.indent)
           last == Len(x) - Len(t.post)
<1>3. Headers(x) # {} /\ Smallest(Headers(x)) = n + 1
  BY ONLY <1>2, Editable(t), HeaderIs, Zenon
<1>4. Ends(x, n + 1) # {} /\ Smallest(Ends(x, n + 1)) = last
  BY ONLY <1>2, Editable(t), EndIs, Zenon
<1>5. Greatest({0} \cup {i \in 1..n : x[i] = "nl"}) = l
  BY ONLY <1>2, Editable(t), LineIs, Zenon
<1>6. n = l + v /\ l \in Nat /\ v \in Nat /\ n <= Len(x) /\ (n + 1) - 1 = n
  <2> DEFINE e == Len(Rest(t))
             m == Len(t.body)
             o == Len(t.post)
  <2>1. /\ l \in Nat /\ v \in Nat /\ m \in Nat /\ o \in Nat /\ n \in Nat /\ e \in Nat /\ n = l + v
        /\ Len(x) = n + 2 + m + e + o
    BY ONLY <1>2, Zenon DEF Numbers
  <2> HIDE DEF l, v, n, x, e, m, o
  <2> QED
    BY ONLY <2>1
<1>7. \A i \in 1..v : x[l + i] = t.indent[i]
  <2>1. (\A i \in 1..n : x[i] = Own(t)[i]) /\ \A i \in 1..v : Own(t)[l + i] = t.indent[i]
    BY ONLY <1>2, Zenon DEF Pieces
  <2>2. \A i \in 1..v : l + i \in 1..n
    <3> HIDE DEF l, v, n
    <3> QED
      BY ONLY <1>6
  <2> QED
    BY ONLY <2>1, <2>2, Zenon
<1>8. SubSeq(x, l + 1, n) = t.indent
  BY ONLY <1>2, <1>6, <1>7, PartIs, Zenon
<1> HIDE DEF x, n, l, v, last
<1>9. Locate(x) = [found |-> TRUE, first |-> n + 1, last |-> last, indent |-> t.indent]
  <2> DEFINE at == Smallest(Headers(x))
             Tab(a) == SubSeq(x, Greatest({0} \cup {i \in 1..(a - 1) : x[i] = "nl"}) + 1, a - 1)
  <2>1. Locate(x) = IF Headers(x) = {} \/ Ends(x, at) = {} THEN NotFound
                    ELSE [found |-> TRUE, first |-> at, last |-> Smallest(Ends(x, at)), indent |-> Tab(at)]
    BY ONLY LocateIs, Zenon
  <2>2. at = n + 1
    BY ONLY <1>3
  <2>3. Tab(n + 1) = t.indent
    BY ONLY <1>5, <1>6, <1>8, Zenon
  <2> HIDE DEF at, Tab
  <2> QED
    BY ONLY <1>3, <1>4, <2>1, <2>2, <2>3, Zenon
<1> QED
  BY ONLY <1>9, Zenon DEF BlockIsLocated, x, n, last

OwnBlock(t) == Join(Join(<<"header", "open">>, t.body), Rest(t))

(* What the edits cut a file into.                                         *)
LEMMA PartsAre ==
  ASSUME NEW t, NEW S, Editable(t), Layout(t, S)
  PROVE  LET b == Locate(Text(t))
         IN  /\ b.indent = t.indent /\ Before(Text(t), b) = Own(t) /\ After(Text(t), b) = t.post
             /\ Block(Text(t), b) = OwnBlock(t)
             /\ OwnBlock(t) \in Seq(S) /\ Len(OwnBlock(t)) = 2 + Len(t.body) + Len(Rest(t))
             /\ \A i \in 1..2 : OwnBlock(t)[i] = <<"header", "open">>[i]
             /\ \A i \in 1..Len(t.body) : OwnBlock(t)[2 + i] = t.body[i]
             /\ \A i \in 1..Len(Rest(t)) : OwnBlock(t)[2 + Len(t.body) + i] = Rest(t)[i]
<1> DEFINE b == Locate(Text(t))
           x == Text(t)
           n == Len(Own(t))
           last == Len(x) - Len(t.post)
           o == Len(t.post)
           m == Len(t.body)
           e == Len(Rest(t))
           head == <<"header", "open">>
           h == Join(head, t.body)
           u == Join(h, Rest(t))
<1>1. b = [found |-> TRUE, first |-> n + 1, indent |-> t.indent, last |-> last]
  BY BlockIsFound, Zenon DEF BlockIsLocated
<1>2. b.first = n + 1 /\ b.indent = t.indent /\ b.last = last
  <2> HIDE DEF n, last
  <2> QED
    BY ONLY <1>1
<1>3. x \in Seq(S) /\ Own(t) \in Seq(S) /\ t.post \in Seq(S) /\ t.body \in Seq(S) /\ Rest(t) \in Seq(S) /\ Marks \subseteq S
  BY Layout(t, S) DEF Layout
<1>4. n \in Nat /\ m \in Nat /\ e \in Nat /\ o \in Nat /\ Len(x) = n + 2 + m + e + o
  BY Zenon DEF Layout, Numbers
<1>5. /\ \A i \in 1..n : x[i] = Own(t)[i]
      /\ x[n + 1] = "header" /\ x[n + 2] = "open"
      /\ \A i \in 1..m : x[n + 2 + i] = t.body[i]
      /\ \A i \in 1..e : x[n + 2 + m + i] = Rest(t)[i]
      /\ \A i \in 1..o : x[n + 2 + m + e + i] = t.post[i]
  BY Zenon DEF Layout, Pieces
<1>6. head \in Seq(S) /\ Len(head) = 2 /\ head[1] = "header" /\ head[2] = "open"
  BY <1>3 DEF Marks
<1> HIDE DEF head
<1>7. IsJoin(S, h, head, t.body)
  BY ONLY <1>3, <1>6, JoinIs, Zenon
<1>8. IsJoin(S, u, h, Rest(t))
  <2>1. h \in Seq(S)
    BY ONLY <1>7 DEF IsJoin
  <2> QED
    BY ONLY <1>3, <2>1, JoinIs, Zenon
<1> HIDE DEF h, u
<1>9. /\ u \in Seq(S) /\ Len(h) = Len(head) + m /\ Len(u) = Len(h) + e /\ Len(h) \in Nat
      /\ \A i \in 1..Len(h) : u[i] = h[i]
      /\ \A i \in 1..e : u[Len(h) + i] = Rest(t)[i]
      /\ \A i \in 1..Len(head) : h[i] = head[i]
      /\ \A i \in 1..m : h[Len(head) + i] = t.body[i]
  BY ONLY <1>7, <1>8, Zenon DEF IsJoin
<1> DEFINE p == Own(t)
           r == Rest(t)
           q == t.body
           w == t.post
<1>10. Len(p) = n /\ p \in Seq(S) /\ Len(w) = o /\ w \in Seq(S)
  BY <1>3
<1> HIDE DEF x, n, o, m, e, last, b, p, r, q, w
<1>11. Len(h) = 2 + m /\ Len(u) = 2 + m + e
  BY ONLY <1>4, <1>6, <1>9
<1>12. /\ \A i \in 1..2 : u[i] = head[i]
       /\ \A i \in 1..m : u[2 + i] = q[i]
       /\ \A i \in 1..e : u[2 + m + i] = r[i]
  <2>1. \A i \in 1..2 : i \in 1..(2 + m)
    BY ONLY <1>4
  <2>2. \A i \in 1..m : 2 + i \in 1..(2 + m)
    BY ONLY <1>4
  <2> QED
    BY ONLY <1>6, <1>9, <1>11, <2>1, <2>2, Zenon DEF q, r
<1>13. \A i \in 1..(2 + m + e) : x[n + i] = u[i]
  <2>1. ASSUME NEW i \in 1..2 PROVE x[n + i] = u[i]
    <3>1. i = 1 \/ i = 2
      OBVIOUS
    <3> QED
      BY ONLY <1>5, <1>6, <1>12, <2>1, <3>1
  <2>2. ASSUME NEW i \in 1..m PROVE x[n + (2 + i)] = u[2 + i]
    <3>1. n + (2 + i) = n + 2 + i
      BY ONLY <1>4
    <3> QED
      BY ONLY <1>5, <1>12, <2>2, <3>1, Zenon DEF q
  <2>3. ASSUME NEW i \in 1..e PROVE x[n + (2 + m + i)] = u[2 + m + i]
    <3>1. n + (2 + m + i) = n + 2 + m + i
      BY ONLY <1>4
    <3> QED
      BY ONLY <1>5, <1>12, <2>3, <3>1, Zenon DEF r
  <2>4. ASSUME NEW i \in 1..(2 + m + e) PROVE x[n + i] = u[i]
    <3>1. CASE i <= 2
      BY ONLY <1>4, <2>1, <2>4, <3>1
    <3>2. CASE i > 2 /\ i <= 2 + m
      <4>1. i - 2 \in 1..m /\ 2 + (i - 2) = i
        BY ONLY <1>4, <2>4, <3>2
      <4> QED
        BY ONLY <2>2, <4>1, Zenon
    <3>3. CASE i > 2 + m
      <4>1. i - (2 + m) \in 1..e /\ 2 + m + (i - (2 + m)) = i
        BY ONLY <1>4, <2>4, <3>3
      <4> QED
        BY ONLY <2>3, <4>1, Zenon
    <3> QED
      BY ONLY <1>4, <2>4, <3>1, <3>2, <3>3
  <2> QED
    BY <2>4
<1>14. SubSeq(x, n + 1, last) = u
  <2>4. last = n + 2 + m + e /\ last \in Nat /\ Len(x) = last + o
    BY ONLY <1>4 DEF last, o
  <2>1. last = n + (2 + m + e) /\ last <= Len(x)
    BY ONLY <1>4, <2>4
  <2>2. last = n + Len(u) /\ \A i \in 1..Len(u) : x[n + i] = u[i]
    BY ONLY <1>11, <1>13, <2>1, Zenon
  <2>3. x \in Seq(S) /\ u \in Seq(S)
    BY ONLY <1>3, <1>9
  <2> QED
    BY ONLY <1>4, <2>1, <2>2, <2>3, PartIs
<1>15. SubSeq(x, 1, (n + 1) - 1) = p
  <2>1. 0 + 1 = 1 /\ (n + 1) - 1 = n /\ n = 0 + n /\ n <= Len(x) /\ 0 \in Nat /\ \A i \in 1..n : 0 + i = i
    BY ONLY <1>4
  <2>2. \A i \in 1..Len(p) : x[0 + i] = p[i]
    BY ONLY <1>5, <1>10, <2>1, Zenon DEF p
  <2> QED
    BY ONLY <1>3, <1>10, <2>1, <2>2, PartIs
<1>16. SubSeq(x, last + 1, Len(x)) = w
  <2>1. last = n + 2 + m + e /\ last \in Nat /\ Len(x) = last + o
    BY ONLY <1>4 DEF last, o
  <2>2. \A i \in 1..Len(w) : x[last + i] = w[i]
    BY ONLY <1>5, <1>10, <2>1, Zenon DEF w
  <2>3. Len(x) <= Len(x)
    BY ONLY <1>4
  <2> QED
    BY ONLY <1>3, <1>10, <2>1, <2>2, <2>3, PartIs, Zenon
<1>17. Before(x, b) = p /\ After(x, b) = w /\ Block(x, b) = u
  BY ONLY <1>2, <1>14, <1>15, <1>16, Zenon DEF Before, After, Block
<1>18. OwnBlock(t) = u
  BY ONLY Zenon DEF OwnBlock, u, h, head
<1> QED
  BY ONLY <1>2, <1>9, <1>11, <1>12, <1>17, <1>18, Zenon DEF x, b, p, q, r, w, m, e, head

LEMMA SequenceIn ==
  ASSUME NEW S, NEW s \in Seq(S), NEW R, \A i \in 1..Len(s) : s[i] \in R
  PROVE  s \in Seq(R)
<1>1. Len(s) \in Nat /\ s = [i \in 1..Len(s) |-> s[i]]
  OBVIOUS
<1>2. [i \in 1..Len(s) |-> s[i]] \in Seq(R)
  BY ONLY <1>1, \A i \in 1..Len(s) : s[i] \in R
<1> QED
  BY ONLY <1>1, <1>2, Zenon

LEMMA SolidOfJoin ==
  ASSUME NEW S, NEW a \in Seq(S), NEW b \in Seq(S)
  PROVE  Solid(Join(a, b)) = Join(Solid(a), Solid(b)) /\ Join(a, b) \in Seq(S) /\ Solid(a) \in Seq(S) /\ Solid(b) \in Seq(S)
<1>1. Solid(a \o b) = Solid(a) \o Solid(b) /\ Solid(a) \in Seq(S) /\ Solid(b) \in Seq(S)
  BY SolidJoin, Zenon
<1>2. a \o b \in Seq(S)
  OBVIOUS
<1> QED
  BY ONLY <1>1, <1>2, Zenon DEF Join

LEMMA SolidBeforeSpace ==
  ASSUME NEW S, NEW a \in Seq(S), NEW b \in Seq(S), b \in Seq(Space)
  PROVE  Solid(Join(a, b)) = Solid(a) /\ Join(a, b) \in Seq(S) /\ Solid(a) \in Seq(S)
<1>1. Solid(b) = <<>>
  BY SolidOfSpace
<1>2. Solid(Join(a, b)) = Join(Solid(a), Solid(b)) /\ Join(a, b) \in Seq(S) /\ Solid(a) \in Seq(S)
  BY SolidOfJoin
<1>3. Join(Solid(a), <<>>) = Solid(a)
  BY <1>2, JoinEmpty DEF Join
<1> QED
  BY ONLY <1>1, <1>2, <1>3

LEMMA ReplacesOnly ==
  ASSUME NEW t, NEW new, NEW S, Editable(t), Layout(t, S), new \in Seq(S)
  PROVE  ReplacesBlockOnly(t, new)
<1> DEFINE x == Text(t)
           b == Locate(x)
           p == t.pre
           v == t.indent
           w == t.post
           own == Join(p, v)
           c == Join(own, v)
           d == Join(c, new)
<1>1. b.indent = v /\ Before(x, b) = Own(t) /\ After(x, b) = w
  BY PartsAre, Zenon
<1>2. Own(t) = own
  BY Zenon DEF Own, Join
<1>3. Replaced(x, b, new) = Join(d, w)
  BY ONLY <1>1, <1>2, Zenon DEF Replaced, Join
<1>4. p \in Seq(S) /\ v \in Seq(S) /\ w \in Seq(S) /\ new \in Seq(S)
  BY DEF Layout
<1>5. v \in Seq(Space)
  <2>1. \A i \in 1..Len(v) : v[i] \in Space
    BY DEF Editable, Space
  <2> QED
    BY ONLY <1>4, <2>1, SequenceIn
<1> HIDE DEF x, b, p, v, w
<1>6. Solid(own) = Solid(p) /\ own \in Seq(S)
  BY ONLY <1>4, <1>5, SolidBeforeSpace, Zenon
<1> HIDE DEF own
<1>7. Solid(c) = Solid(own) /\ c \in Seq(S)
  BY ONLY <1>4, <1>5, <1>6, SolidBeforeSpace, Zenon
<1> HIDE DEF c
<1>8. Solid(d) = Join(Solid(c), Solid(new)) /\ d \in Seq(S)
  BY ONLY <1>4, <1>7, SolidOfJoin
<1> HIDE DEF d
<1>9. Solid(Join(d, w)) = Join(Solid(d), Solid(w))
  BY ONLY <1>4, <1>8, SolidOfJoin
<1>10. Solid(Replaced(x, b, new)) = Join(Join(Solid(p), Solid(new)), Solid(w))
  BY ONLY <1>3, <1>6, <1>7, <1>8, <1>9, Zenon
<1> QED
  BY ONLY <1>10, Zenon DEF ReplacesBlockOnly, Join, x, b, p, w

(* strings.TrimRight takes white space only.                               *)
LEMMA TrimIs ==
  ASSUME NEW S, NEW s \in Seq(S)
  PROVE  WithoutNewlines(s) \in Seq(S) /\ Solid(WithoutNewlines(s)) = Solid(s)
<1> DEFINE T == {0} \cup {i \in 1..Len(s) : s[i] # "nl"}
           g == Greatest(T)
           u == SubSeq(s, 1, g)
           z == SubSeq(s, g + 1, Len(s))
<1>1. Len(s) \in Nat /\ T \subseteq 0..Len(s) /\ 0 \in T
  OBVIOUS
<1>2. \E j \in T : \A k \in T : j >= k
  <2> HIDE DEF T
  <2>1. T \subseteq 0..Len(s) /\ T # {}
    BY ONLY <1>1
  <2>2. \E j \in T : \A k \in T : k <= j
    BY ONLY <1>1, <2>1, HasGreatest, Zenon
  <2> QED
    BY ONLY <1>1, <2>2
<1>3. g \in T /\ \A k \in T : g >= k
  <2> HIDE DEF T
  <2> QED
    BY ONLY <1>2, Zenon DEF Greatest
<1>4. g \in 0..Len(s) /\ \A k \in 1..Len(s) : k > g => s[k] = "nl"
  <2>1. g \in 0..Len(s)
    BY ONLY <1>1, <1>3
  <2>2. ASSUME NEW k \in 1..Len(s), k > g, s[k] # "nl" PROVE FALSE
    <3>1. k \in T
      BY ONLY <2>2
    <3>2. g >= k
      BY ONLY <1>3, <3>1, Zenon
    <3> HIDE DEF g
    <3> QED
      BY ONLY <1>1, <2>1, <2>2, <3>2
  <2> QED
    BY ONLY <2>1, <2>2
<1> HIDE DEF g, T
<1>5. u \in Seq(S) /\ z \in Seq(S) /\ z \in Seq(Space) /\ Len(u) = g /\ Len(z) = Len(s) - g
  <2>1. u \in Seq(S) /\ z \in Seq(S) /\ Len(u) = g /\ Len(z) = Len(s) - g
    BY <1>1, <1>4
  <2>2. \A i \in 1..Len(z) : z[i] = s[g + i] /\ g + i \in 1..Len(s) /\ g + i > g
    BY <1>1, <1>4, <2>1
  <2>3. \A i \in 1..Len(z) : z[i] \in Space
    <3> HIDE DEF z
    <3> QED
      BY <1>4, <2>2 DEF Space
  <2>4. z \in Seq(Space)
    BY ONLY <2>1, <2>3, SequenceIn, Zenon
  <2> QED
    BY ONLY <2>1, <2>4
<1>6. \A i \in 1..g : u[i] = s[i]
  BY <1>1, <1>4
<1>7. \A i \in 1..Len(z) : z[i] = s[g + i]
  BY <1>1, <1>4, <1>5
<1>8. WithoutNewlines(s) = u
  BY Zenon DEF WithoutNewlines, u, g, T
<1> HIDE DEF u, z
<1>9. s = Join(u, z)
  <2>1. Join(u, z) \in Seq(S) /\ Len(Join(u, z)) = Len(s)
    BY <1>1, <1>4, <1>5 DEF Join
  <2>2. ASSUME NEW i \in 1..Len(s) PROVE s[i] = Join(u, z)[i]
    <3>1. CASE i <= g
      BY <1>1, <1>4, <1>5, <1>6, <3>1 DEF Join
    <3>2. CASE i > g
      <4>1. i - g \in 1..Len(z) /\ g + (i - g) = i
        BY <1>1, <1>4, <1>5, <3>2
      <4>2. Join(u, z)[i] = z[i - g]
        BY <1>1, <1>4, <1>5, <3>2 DEF Join
      <4> QED
        BY <1>7, <4>1, <4>2
    <3> QED
      BY <1>1, <1>4, <3>1, <3>2
  <2> QED
    BY ONLY s \in Seq(S), <2>1, <2>2, SameSequence
<1>10. Solid(Join(u, z)) = Solid(u)
  BY <1>5, SolidBeforeSpace
<1> QED
  BY <1>5, <1>8, <1>9, <1>10

(* strings.LastIndex finds what stands at the end.                         *)
LEMMA SuffixIs ==
  ASSUME NEW S, NEW a \in Seq(S), NEW b \in Seq(S), Len(b) >= 1
  PROVE  LastIndex(Join(a, b), b) = Len(a) + 1 /\ SubSeq(Join(a, b), 1, Len(a)) = a
<1> DEFINE s == Join(a, b)
           k == Len(a)
           l == Len(b)
           T == {0} \cup {i \in 1..(Len(s) + 1 - l) : SubSeq(s, i, i + l - 1) = b}
<1>1. IsJoin(S, s, a, b)
  BY JoinIs
<1>2. /\ s \in Seq(S) /\ k \in Nat /\ l \in Nat /\ l >= 1 /\ Len(s) = k + l
      /\ \A i \in 1..k : s[i] = a[i]
      /\ \A i \in 1..l : s[k + i] = b[i]
  BY ONLY <1>1, Len(b) >= 1 DEF IsJoin
<1> HIDE DEF s
<1>3. SubSeq(s, k + 1, k + l) = b
  <2>1. k + l = k + Len(b) /\ k + l <= Len(s)
    BY ONLY <1>2
  <2> QED
    BY ONLY <1>2, <2>1, b \in Seq(S), PartIs
<1>4. SubSeq(s, 0 + 1, k) = a
  <2>1. k = 0 + Len(a) /\ k <= Len(s) /\ 0 \in Nat /\ \A i \in 1..k : s[0 + i] = a[i]
    BY ONLY <1>2
  <2> QED
    BY ONLY <1>2, <2>1, a \in Seq(S), PartIs
<1> HIDE DEF k, l
<1>5. k + 1 \in T
  <2>1. k + 1 \in 1..(Len(s) + 1 - l) /\ (k + 1) + l - 1 = k + l
    BY ONLY <1>2
  <2> QED
    BY ONLY <1>3, <2>1
<1>6. \A i \in T : i \in Int /\ i <= k + 1
  <2>1. \A i \in T : i = 0 \/ i \in 1..(Len(s) + 1 - l)
    OBVIOUS
  <2> QED
    BY ONLY <1>2, <2>1
<1> HIDE DEF T
<1>7. Greatest(T) = k + 1
  BY ONLY <1>5, <1>6, LastIs
<1>8. LastIndex(s, b) = k + 1
  BY ONLY <1>7, Zenon DEF LastIndex, T, l
<1>9. 0 + 1 = 1
  OBVIOUS
<1> QED
  BY ONLY <1>4, <1>8, <1>9, Zenon DEF s, k

(* The block without the line of its closing brace.                        *)
Lead(t) == IF t.ownLine THEN <<"nl">> ELSE <<>>
Kept(t) == Join(Join(<<"header", "open">>, t.body), Lead(t))

LEMMA KeptIs ==
  ASSUME NEW t, NEW S, Layout(t, S), t.ownLine \/ t.indent = <<>>
  PROVE  /\ OwnBlock(t) = Join(Kept(t), Join(t.indent, <<"close">>))
         /\ Kept(t) \in Seq(S) /\ Join(t.indent, <<"close">>) \in Seq(S) /\ Len(Join(t.indent, <<"close">>)) >= 1
         /\ Solid(Kept(t)) = Join(<<"header", "open">>, Solid(t.body))
<1> DEFINE v == t.indent
           q == t.body
           nl == <<"nl">>
           brace == <<"close">>
           head == <<"header", "open">>
           h == Join(head, q)
           lead == Lead(t)
           sub == Join(v, brace)
<1>1. v \in Seq(S) /\ q \in Seq(S) /\ "nl" \in S /\ "close" \in S /\ "header" \in S /\ "open" \in S
  BY Layout(t, S) DEF Layout, Marks
<1>2. /\ nl \in Seq(S) /\ brace \in Seq(S) /\ head \in Seq(S) /\ Len(brace) = 1 /\ lead \in Seq(S) /\ lead \in Seq(Space)
      /\ lead = IF t.ownLine THEN nl ELSE <<>>
  <2>1. nl \in Seq(S) /\ brace \in Seq(S) /\ head \in Seq(S) /\ Len(brace) = 1 /\ nl \in Seq(Space)
    BY <1>1 DEF Space
  <2>2. <<>> \in Seq(S) /\ <<>> \in Seq(Space)
    OBVIOUS
  <2>3. lead = IF t.ownLine THEN nl ELSE <<>>
    BY Zenon DEF Lead
  <2> HIDE DEF nl, brace, head, lead
  <2>4. lead \in Seq(S) /\ lead \in Seq(Space)
    BY ONLY <2>1, <2>2, <2>3
  <2> QED
    BY ONLY <2>1, <2>3, <2>4
<1>3. Solid(head) = head
  BY SolidOfBraces
<1>4. Rest(t) = Join(lead, sub)
  <2>1. Rest(t) = (IF t.ownLine THEN nl \o v ELSE <<>>) \o brace
    BY Zenon DEF Rest
  <2> HIDE DEF nl, brace, v, lead
  <2>2. CASE t.ownLine
    <3>1. Join(nl, Join(v, brace)) = Join(Join(nl, v), brace)
      BY ONLY <1>1, <1>2, JoinTwice
    <3>2. lead = nl /\ Rest(t) = nl \o v \o brace
      BY ONLY <1>2, <2>1, <2>2
    <3> QED
      BY ONLY <3>1, <3>2, Zenon DEF Join, sub
  <2>3. CASE ~t.ownLine
    <3>1. lead = <<>> /\ v = <<>> /\ Rest(t) = <<>> \o brace
      BY <1>2, <2>1, <2>3 DEF v
    <3>2. <<>> \o brace = brace
      BY ONLY <1>2, JoinEmpty
    <3> QED
      BY ONLY <3>1, <3>2, Zenon DEF Join, sub
  <2> QED
    BY <2>2, <2>3
<1> HIDE DEF nl, brace, v, lead, head, q
<1>5. sub \in Seq(S) /\ Len(sub) >= 1
  <2>1. IsJoin(S, sub, v, brace)
    BY ONLY <1>1, <1>2, JoinIs, Zenon
  <2> HIDE DEF sub
  <2> QED
    BY ONLY <1>2, <2>1 DEF IsJoin
<1> HIDE DEF sub
<1>6. Solid(h) = Join(head, Solid(q)) /\ h \in Seq(S)
  BY ONLY <1>1, <1>2, <1>3, SolidOfJoin
<1> HIDE DEF h
<1>7. Solid(Join(h, lead)) = Solid(h) /\ Join(h, lead) \in Seq(S)
  BY ONLY <1>2, <1>6, SolidBeforeSpace, Zenon
<1>8. Join(h, Join(lead, sub)) = Join(Join(h, lead), sub)
  <2>1. h \in Seq(S) /\ lead \in Seq(S) /\ sub \in Seq(S)
    BY ONLY <1>2, <1>5, <1>6
  <2> QED
    BY ONLY <2>1, JoinTwice
<1>9. Kept(t) = Join(h, lead)
  BY ONLY Zenon DEF Kept, h, lead, q, head
<1>10. OwnBlock(t) = Join(Kept(t), sub)
  BY ONLY <1>4, <1>8, <1>9, Zenon DEF OwnBlock, h, q, head
<1> QED
  BY ONLY <1>5, <1>6, <1>7, <1>9, <1>10, Zenon DEF sub, v, brace, head, q

LEMMA AppendsOnly ==
  ASSUME NEW t, NEW new, NEW S, Editable(t), Layout(t, S), new \in Seq(S)
  PROVE  AppendsToBlock(t, new)
<1> SUFFICES ASSUME t.ownLine \/ t.indent = <<>>
             PROVE  Solid(Appended(Text(t), Locate(Text(t)), new)) =
                      Solid(t.pre) \o <<"header", "open">> \o Solid(t.body) \o Solid(new) \o <<"close">> \o Solid(t.post)
  BY Zenon DEF AppendsToBlock
<1> DEFINE x == Text(t)
           b == Locate(x)
           p == t.pre
           v == t.indent
           q == t.body
           w == t.post
           nl == <<"nl">>
           tab == <<"tab">>
           brace == <<"close">>
           head == <<"header", "open">>
           block == OwnBlock(t)
           kept == Kept(t)
           sub == Join(v, brace)
           k == Closing(block, v)
           own == Join(p, v)
           trim == WithoutNewlines(kept)
           c1 == Join(own, trim)
           c2 == Join(c1, nl)
           c3 == Join(c2, v)
           c4 == Join(c3, tab)
           c5 == Join(c4, new)
           c6 == Join(c5, nl)
           c7 == Join(c6, v)
           c8 == Join(c7, brace)
<1>1. b.indent = v /\ Before(x, b) = Own(t) /\ After(x, b) = w /\ Block(x, b) = block
  BY PartsAre, Zenon
<1>2. Own(t) = own
  BY Zenon DEF Own, Join
<1>3. /\ block = Join(kept, sub) /\ kept \in Seq(S) /\ sub \in Seq(S) /\ Len(sub) >= 1
      /\ Solid(kept) = Join(head, Solid(q))
  BY KeptIs, Zenon
<1>4. p \in Seq(S) /\ v \in Seq(S) /\ q \in Seq(S) /\ w \in Seq(S) /\ new \in Seq(S) /\ Marks \subseteq S
  BY DEF Layout
<1>5. v \in Seq(Space)
  <2>1. \A i \in 1..Len(v) : v[i] \in Space
    BY DEF Editable, Space
  <2> QED
    BY ONLY <1>4, <2>1, SequenceIn
<1>6. /\ nl \in Seq(S) /\ tab \in Seq(S) /\ brace \in Seq(S) /\ head \in Seq(S)
      /\ nl \in Seq(Space) /\ tab \in Seq(Space)
  BY <1>4 DEF Marks, Space
<1>7. Solid(brace) = brace
  BY SolidOfBraces
<1>8. k - 1 = Len(kept)
  <2> HIDE DEF block, kept, sub, v
  <2>1. LastIndex(block, sub) = Len(kept) + 1 /\ Len(kept) \in Nat
    BY ONLY <1>3, SuffixIs
  <2>2. LastIndex(block, sub) # 0 /\ (Len(kept) + 1) - 1 = Len(kept)
    BY ONLY <2>1
  <2>3. k = LastIndex(block, sub)
    BY ONLY <2>2, Zenon DEF Closing, sub, Join, brace
  <2> QED
    BY ONLY <2>1, <2>2, <2>3, Zenon
<1>9. SubSeq(block, 1, k - 1) = kept
  <2> HIDE DEF block, kept, sub, k
  <2>1. SubSeq(block, 1, Len(kept)) = kept
    BY ONLY <1>3, SuffixIs
  <2> QED
    BY ONLY <1>8, <2>1, Zenon
<1>10. Appended(x, b, new) = Join(c8, w)
  <2> HIDE DEF x, b, p, v, w, block, kept, own
  <2> QED
    BY ONLY <1>1, <1>2, <1>9, Zenon DEF Appended, Join
<1> HIDE DEF x, b, p, v, q, w, nl, tab, brace, head, block, kept, sub, k
<1>11. Solid(own) = Solid(p) /\ own \in Seq(S)
  BY ONLY <1>4, <1>5, SolidBeforeSpace, Zenon
<1>12. trim \in Seq(S) /\ Solid(trim) = Join(head, Solid(q))
  BY ONLY <1>3, TrimIs, Zenon
<1> HIDE DEF own, trim
<1>13. Solid(c1) = Join(Solid(own), Solid(trim)) /\ c1 \in Seq(S) /\ Solid(own) \in Seq(S)
  BY ONLY <1>11, <1>12, SolidOfJoin
<1> HIDE DEF c1
<1>14. Solid(c2) = Solid(c1) /\ c2 \in Seq(S)
  BY ONLY <1>6, <1>13, SolidBeforeSpace, Zenon
<1> HIDE DEF c2
<1>15. Solid(c3) = Solid(c2) /\ c3 \in Seq(S)
  BY ONLY <1>4, <1>5, <1>14, SolidBeforeSpace, Zenon
<1> HIDE DEF c3
<1>16. Solid(c4) = Solid(c3) /\ c4 \in Seq(S)
  BY ONLY <1>6, <1>15, SolidBeforeSpace, Zenon
<1> HIDE DEF c4
<1>17. Solid(c5) = Join(Solid(c4), Solid(new)) /\ c5 \in Seq(S)
  BY ONLY <1>4, <1>16, SolidOfJoin
<1> HIDE DEF c5
<1>18. Solid(c6) = Solid(c5) /\ c6 \in Seq(S)
  BY ONLY <1>6, <1>17, SolidBeforeSpace, Zenon
<1> HIDE DEF c6
<1>19. Solid(c7) = Solid(c6) /\ c7 \in Seq(S)
  BY ONLY <1>4, <1>5, <1>18, SolidBeforeSpace, Zenon
<1> HIDE DEF c7
<1>20. Solid(c8) = Join(Solid(c7), Solid(brace)) /\ c8 \in Seq(S)
  BY ONLY <1>6, <1>19, SolidOfJoin
<1> HIDE DEF c8
<1>21. Solid(Join(c8, w)) = Join(Solid(c8), Solid(w))
  BY ONLY <1>4, <1>20, SolidOfJoin
<1>22. Join(Solid(p), Join(head, Solid(q))) = Join(Join(Solid(p), head), Solid(q))
  <2>1. Solid(p) \in Seq(S) /\ Solid(q) \in Seq(S)
    BY ONLY <1>4, SolidOfJoin, Zenon
  <2> QED
    BY ONLY <1>6, <2>1, JoinTwice
<1>23. Solid(Appended(x, b, new)) = Join(Join(Join(Join(Join(Solid(p), head), Solid(q)), Solid(new)), brace), Solid(w))
  BY ONLY <1>7, <1>10, <1>11, <1>12, <1>13, <1>14, <1>15, <1>16, <1>17, <1>18, <1>19, <1>20, <1>21, <1>22, Zenon
<1> QED
  BY ONLY <1>23, Zenon DEF Join, x, b, p, q, w, brace, head

(* However braces, quotes and escapes nest in a block, and whatever stands *)
(* behind it, the edits of HCL blocks find it, and change nothing else.    *)
THEOREM EditsAreLocal ==
  ASSUME NEW t, NEW new, Editable(t), \E S : new \in Seq(S)
  PROVE  BlockIsLocated(t) /\ ReplacesBlockOnly(t, new) /\ AppendsToBlock(t, new)
<1>1. PICK S : Layout(t, S)
  BY LayoutIs
<1>2. PICK T : new \in Seq(T)
  OBVIOUS
<1> DEFINE R == S \cup T
<1>3. Layout(t, R) /\ new \in Seq(R)
  <2>1. Seq(S) \subseteq Seq(R) /\ Seq(T) \subseteq Seq(R) /\ S \subseteq R
    OBVIOUS
  <2> HIDE DEF R
  <2> QED
    BY ONLY <1>1, <1>2, <2>1 DEF Layout
<1> HIDE DEF R
<1> QED
  BY <1>3, BlockIsFound, ReplacesOnly, AppendsOnly

-----------------------------------------------------------------------------
(***************************************************************************)
(* The inputs that MCAlgorithms enumerates are among them.                 *)
(***************************************************************************)
InputInv ==
  /\ input.kind = "chat" => input \in Chatter
  /\ input.kind = "profile" => input \in X!Improvements
  /\ input.kind = "locals" => input \in LocalGraphs
  /\ input.kind = "files" => input \in FileGraphs
  /\ input.kind = "change" => input \in X!Changes
  /\ input.kind = "load" => input \in X!Loads
  /\ input.kind = "series" => input \in X!Series
  /\ input.kind = "crashes" => input \in X!Crashing
  /\ input.kind = "report" => input \in X!Reports
  /\ input.kind = "run" => input \in X!Runs
  /\ input.kind = "repository" => input \in Repositories
  /\ input.kind = "text" => input \in Texts

LEMMA InputKinds == Spec => []InputInv
<1>1. Init => InputInv
  BY DEF Init, None, InputInv
<1>2. InputInv /\ [Next]_input => InputInv'
  <2> SUFFICES ASSUME InputInv, [Next]_input PROVE InputInv'
    OBVIOUS
  <2>1. CASE UNCHANGED input
    BY <2>1 DEF InputInv
  <2>2. CASE input' \in Chatter
    BY <2>2 DEF InputInv, Chatter
  <2>3. CASE input' \in X!Improvements
    BY <2>3 DEF InputInv, X!Improvements
  <2>4. CASE input'.kind \in {"query", "platform"}
    BY <2>4 DEF InputInv
  <2>5. CASE input' \in LocalGraphs
    BY <2>5 DEF InputInv, LocalGraphs
  <2>6. CASE input' \in FileGraphs
    BY <2>6 DEF InputInv, FileGraphs
  <2>7. CASE input' \in Texts
    BY <2>7 DEF InputInv, Texts
  <2>8. CASE input' \in Repositories
    BY <2>8 DEF InputInv, Repositories
  <2>9. CASE input' \in X!Replies
    BY <2>4, <2>9 DEF X!Replies
  <2>10. CASE input' \in X!Platforms
    BY <2>4, <2>10 DEF X!Platforms
  <2>11. CASE input' \in X!Changes
    BY <2>11 DEF InputInv, X!Changes
  <2>12. CASE input' \in X!Series
    BY <2>12 DEF InputInv, X!Series
  <2>13. CASE input' \in X!Loads
    BY <2>13 DEF InputInv, X!Loads
  <2>14. CASE input' \in X!Reports
    BY <2>14 DEF InputInv, X!Reports
  <2>15. CASE input' \in X!Crashing
    BY <2>15 DEF InputInv, X!Crashing
  <2>16. CASE input' \in X!Runs
    BY <2>16 DEF InputInv, X!Runs
  <2> QED
    BY <2>1, <2>2, <2>3, <2>5, <2>6, <2>7, <2>8, <2>9, <2>10, <2>11, <2>12, <2>13, <2>14, <2>15, <2>16 DEF Next, Choose
<1> QED
  BY <1>1, <1>2, PTL DEF Spec

(* What the run Algorithms shows of a message: for any number of updates   *)
(* and any ids.                                                            *)
THEOREM AnswersAreTaken == Spec => []AnswersAreDecisions
<1>1. ASSUME InputInv PROVE AnswersAreDecisions
  <2> SUFFICES ASSUME input.kind = "chat"
               PROVE  ActsLikeLedger(input.updates, input.message, input.id)
    BY DEF AnswersAreDecisions
  <2>1. input \in Chatter
    BY <1>1 DEF InputInv
  <2>2. input.updates \in SeqOf(SomeMessages, MaxUpdates) /\ input.message \in Messages /\ input.id \in Ids
    BY <2>1 DEF Chatter, SomeMessages
  <2>3. input.updates \in Seq(Messages)
    BY <2>2 DEF SeqOf, SomeMessages
  <2> QED
    BY <2>2, <2>3, MessagesActLikeLedger
<1> QED
  BY <1>1, InputKinds, PTL

(* What the run shows of a pair of profiles: of any pair.                  *)
THEOREM ScoresAreOrdered == Spec => []ScoresAreMonotone
<1>1. ASSUME InputInv PROVE ScoresAreMonotone
  <2> SUFFICES ASSUME input.kind = "profile"
               PROVE  GuardrailsNeverHurt(input.q, input.p, input.t)
    BY DEF ScoresAreMonotone
  <2>1. input \in X!Improvements
    BY <1>1 DEF InputInv
  <2>2. input.p \in Profiles /\ input.q \in Profiles
    <3>1. ASSUME NEW p \in X!SomeProfiles PROVE p \in Profiles
      <4> DEFINE Small == [
            desired : 1..2, ready : {0, 2}, services : 0..1, external : 0..1, endpoints : 0..2,
            hpa : BOOLEAN, pdb : BOOLEAN, stateful : {TRUE}, pvc : {TRUE},
            missingReadiness : {0, 2}, missingLiveness : 0..1, missingRequests : {1}, missingLimits : {1}]
      <4>1. p \in Small
        BY <3>1, Zenon DEF X!SomeProfiles
      <4>2. 1..2 \subseteq Nat /\ 0..1 \subseteq Nat /\ 0..2 \subseteq Nat /\ {0, 2} \subseteq Nat /\ {1} \subseteq Nat
        OBVIOUS
      <4>3. Small \subseteq Profiles
        BY <4>2, Zenon DEF Profiles
      <4> QED
        BY <4>1, <4>3, Zenon
    <3>2. input.p \in X!SomeProfiles /\ input.q \in X!SomeProfiles
      BY <2>1 DEF X!Improvements
    <3> QED
      BY <3>1, <3>2
  <2>3. input.t \in Trends
    BY <2>1 DEF X!Improvements, X!SomeTrends, Trends
  <2> QED
    BY <2>2, <2>3, MoreGuardrailsNeverHurt
<1> QED
  BY <1>1, InputKinds, PTL

(* What the run shows of locals and of files that read each other: of any  *)
(* number of them.                                                         *)
THEOREM ConfigurationsAreWhole == Spec => []ConfigurationIsWhole
<1>1. ASSUME InputInv, input.kind = "locals" PROVE LocalsAreComplete(input.uses, input.broken)
  <2>1. input.uses \in [Locals -> SUBSET Locals]
    BY <1>1 DEF InputInv, LocalGraphs
  <2> QED
    BY <2>1, LocalsAssumption, PassesAreEnough
<1>2. ASSUME InputInv, input.kind = "files" PROVE ConfigIsWhole(1, input.reads, input.includes)
  <2>1. input.reads \in [1..3 -> SUBSET (1..3)] /\ input.includes \in [1..3 -> SUBSET (1..3)]
    BY <1>2 DEF InputInv, FileGraphs
  <2>2. IsFiniteSet(1..3) /\ 1 \in 1..3
    <3>1. 1 \in Int /\ 3 \in Int
      OBVIOUS
    <3>2. IsFiniteSet(1..3)
      BY <3>1, FS_Interval, Zenon
    <3> QED
      BY <3>2
  <2> QED
    BY <2>1, <2>2, EveryChainIsFollowed
<1>3. InputInv => ConfigurationIsWhole
  BY <1>1, <1>2 DEF ConfigurationIsWhole
<1> QED
  BY <1>3, InputKinds, PTL

(* What the run shows of the replies of a backend: of any replies.         *)
THEOREM AnswersAreFound == Spec => []QueryFallsBack
<1>1. QueryFallsBack
  <2> DEFINE b == X!MetricsBackend
             exprs == <<<<"first">>, <<"second">>>>
  <2>1. /\ b.schemes = <<"http", "https">> /\ b.prefixes = <<"/api/v1", "/prometheus/api/v1">>
    BY DEF X!MetricsBackend, X!MetricsPathPrefixes
  <2>2. b.schemes \in Seq(X!ToSet(b.schemes)) /\ b.prefixes \in Seq(X!ToSet(b.prefixes)) /\ exprs \in Seq(X!ToSet(exprs))
    BY <2>1 DEF X!ToSet
  <2> HIDE DEF b, exprs
  <2>3. X!UsableAnswerIsFound(b, input.reply, exprs, "vector")
    BY <2>2, QueriesFindAnswers, Zenon
  <2> QED
    BY <2>3 DEF QueryFallsBack, b, exprs
<1> QED
  BY <1>1, PTL

(* What the run shows of a service: of any services.                       *)
THEOREM BackendsAreFound == Spec => []BackendsAreDiscovered
<1>1. BackendsAreDiscovered
  BY NamedBackendsAreDiscovered, Zenon DEF BackendsAreDiscovered
<1> QED
  BY <1>1, PTL

LEMMA SlicesAre ==
  ASSUME NEW name, NEW a \in X!SlicesOf(name)
  PROVE  IsFiniteSet(a) /\ \A l \in a : IsFiniteSet(DOMAIN l.endpoints)
<1>1. a = {} \/ \E s : a = {X!Slice(name, s)}
  BY DEF X!SlicesOf
<1>2. IsFiniteSet(a)
  BY <1>1, FS_EmptySet, FS_Singleton, Zenon
<1>3. ASSUME NEW l \in a PROVE IsFiniteSet(DOMAIN l.endpoints)
  <2>1. DOMAIN l.endpoints = {"web-1"}
    BY <1>1 DEF X!Slice
  <2> QED
    BY <2>1, FS_Singleton, Zenon
<1> QED
  BY <1>2, <1>3

LEMMA ExposedAre ==
  ASSUME NEW c \in X!Exposed
  PROVE  Finite(c) /\ Listed \subseteq DOMAIN c
<1> DEFINE Ingresses == {[ns |-> "app", backends |-> {1}]}
<1>1. PICK w \in SUBSET {X!Web}, s \in SUBSET X!Around, i \in SUBSET Ingresses, a \in X!SlicesOf(1), b \in X!SlicesOf(2) :
        c = X!ExposedBy(w, s, i, a, b)
  BY DEF X!Exposed
<1>2. c.services = s /\ c.slices = a \cup b /\ Listed \subseteq DOMAIN c
  BY <1>1 DEF X!ExposedBy, X!Bare, Listed
<1>3. IsFiniteSet(s)
  BY PairIsFinite, FS_Subset, Zenon DEF X!Around
<1>4. IsFiniteSet(a \cup b) /\ \A l \in a \cup b : IsFiniteSet(DOMAIN l.endpoints)
  BY SlicesAre, FS_Union, Zenon
<1> QED
  BY <1>2, <1>3, <1>4 DEF Finite

LEMMA LoadedAre ==
  ASSUME NEW c \in X!Loaded
  PROVE  Metered(c)
<1>1. PICK ns \in {"app", "kube", "shop"}, r \in X!Requests, s \in X!Requests, u \in X!Uses, v \in X!Uses :
        c = X!LoadedBy(ns, r, s, u, v)
  BY DEF X!Loaded
<1>2. c.metrics = {X!UseOf("app", "a", u), X!UseOf(ns, "b", v)} /\ c.pods = {X!WebPod("app", "a", r), X!WebPod(ns, "b", s)}
  BY <1>1 DEF X!LoadedBy, X!Quiet, X!Bare
<1>3. u.cpu \in Nat /\ u.mem \in Nat /\ v.cpu \in Nat /\ v.mem \in Nat
  BY DEF X!Uses
<1>4. r.cpu \in Nat /\ r.mem \in Nat /\ s.cpu \in Nat /\ s.mem \in Nat
  BY DEF X!Requests
<1>5. PICK m, n : c.metrics = {m, n} /\ m = X!UseOf("app", "a", u) /\ n = X!UseOf(ns, "b", v)
  BY <1>2, Zenon
<1>6. IsFiniteSet(c.metrics) /\ \A x \in c.metrics : x.cpu \in Nat /\ x.mem \in Nat
  <2>1. m.cpu \in Nat /\ m.mem \in Nat /\ n.cpu \in Nat /\ n.mem \in Nat
    BY <1>3, <1>5 DEF X!UseOf
  <2>2. IsFiniteSet({m, n})
    BY PairIsFinite, Zenon
  <2> QED
    BY ONLY <1>5, <2>1, <2>2
<1>7. \A p \in c.pods : p.request = r \/ p.request = s
  BY <1>2 DEF X!WebPod
<1> QED
  BY <1>4, <1>6, <1>7 DEF Metered

(* What the run shows of an exposed workload and of a hot one: of any in   *)
(* clusters that list finitely many services, slices and pods.             *)
THEOREM AlarmsHold == Spec => []AlarmsAreTrue
<1>1. ASSUME InputInv, input.kind = "change" PROVE X!ExposureAlarmIsTrue(input.old, input.new, input.cut)
  <2>1. input \in X!Changes
    BY <1>1 DEF InputInv
  <2>2. input.old \in X!Exposed /\ input.new \in X!Exposed /\ input.cut \in Int
    BY <2>1 DEF X!Changes
  <2>3. Finite(input.old) /\ Finite(input.new) /\ Listed \subseteq DOMAIN input.old
    BY <2>2, ExposedAre
  <2> QED
    BY <2>2, <2>3, ExposureAlarms
<1>2. ASSUME InputInv, input.kind = "load" PROVE X!HotWorkloadHasHotPod(input.c)
  <2>1. input.c \in X!Loaded
    BY <1>2 DEF InputInv, X!Loads
  <2> QED
    BY <2>1, LoadedAre, HotWorkloads
<1>3. InputInv => AlarmsAreTrue
  BY <1>1, <1>2 DEF AlarmsAreTrue
<1> QED
  BY <1>3, InputKinds, PTL

LEMMA SeriesAre ==
  ASSUME NEW a, \A q \in X!Queries : a[q] \in X!AnswersTo(q)
  PROVE  Answered(a)
<1>1. ASSUME NEW v, v \subseteq Nat PROVE X!Samples(v).ok = TRUE /\ \A s \in X!Samples(v).samples : s.values = v
  BY DEF X!Samples
<1>2. X!Failed.ok = FALSE
  BY DEF X!Failed
<1>3. ASSUME NEW q \in X!Queries PROVE a[q].ok \in BOOLEAN /\ (a[q].ok => \A s \in a[q].samples : s.values \subseteq 0..Levels[q])
  <2>1. /\ {} \subseteq Nat /\ {1} \subseteq Nat /\ {0, 2} \subseteq Nat
        /\ {} \subseteq 0..Levels[q] /\ {1} \subseteq 0..Levels[q]
        /\ q # "oom" => {0, 2} \subseteq 0..Levels[q]
    BY DEF X!Queries, Levels
  <2>2. \/ a[q] = X!Failed \/ a[q] = X!Samples({}) \/ a[q] = X!Samples({1})
        \/ q # "oom" /\ a[q] = X!Samples({0, 2})
    BY DEF X!AnswersTo
  <2>3. CASE a[q] = X!Failed
    BY <1>2, <2>3, Zenon
  <2>4. ASSUME NEW v, v \subseteq Nat, v \subseteq 0..Levels[q], a[q] = X!Samples(v)
        PROVE  a[q].ok \in BOOLEAN /\ \A s \in a[q].samples : s.values \subseteq 0..Levels[q]
    BY <1>1, <2>4, Zenon
  <2> QED
    BY <2>1, <2>2, <2>3, <2>4
<1> QED
  BY <1>3 DEF Answered

(* What the run shows of lost queries: of any of them and of any answers.  *)
THEOREM LossesAreReported == Spec => []LossIsReported
<1>1. ASSUME InputInv PROVE LossIsReported
  <2> SUFFICES ASSUME input.kind = "series"
               PROVE  X!LostQueriesOnlyHide(input.c, input.answers, input.lost)
    BY DEF LossIsReported
  <2>1. \A q \in X!Queries : input.answers[q] \in X!AnswersTo(q)
    BY <1>1 DEF InputInv, X!Series
  <2> QED
    BY <2>1, SeriesAre, LostQueries
<1> QED
  BY <1>1, InputKinds, PTL

LEMMA CrashingAre ==
  ASSUME NEW x \in X!Crashing
  PROVE  PodList(x.pods)
<1>1. \A s \in X!Statuses : s.restarts \in Nat
  BY DEF X!Statuses, X!Status
<1>2. PICK n \in {1, 2}, a \in X!Statuses, b \in X!Statuses, c \in X!Statuses, d \in X!Statuses :
        x.pods = X!ThreePods(n, a, b, c, d)
  <2>1. x.pods \in X!StatusPods
    BY DEF X!Crashing
  <2> QED
    BY <2>1 DEF X!StatusPods
<1>3. /\ DOMAIN x.pods = 1..3
      /\ x.pods[1].containers = <<a, b>> /\ x.pods[2].containers = <<c>> /\ x.pods[3].containers = <<d>>
  BY <1>2 DEF X!ThreePods, X!StatusPod
<1>4. \A k \in Nat : IsFiniteSet(1..k) /\ 1..k \subseteq Nat
  BY FS_Interval
<1>5. ASSUME NEW i \in DOMAIN x.pods
      PROVE  /\ IsFiniteSet(DOMAIN x.pods[i].containers) /\ DOMAIN x.pods[i].containers \subseteq Nat
             /\ \A j \in DOMAIN x.pods[i].containers : x.pods[i].containers[j].restarts \in Nat
  <2>1. DOMAIN x.pods[i].containers = 1..2 \/ DOMAIN x.pods[i].containers = 1..1
    BY <1>3
  <2>2. \A j \in DOMAIN x.pods[i].containers : x.pods[i].containers[j] \in X!Statuses
    BY <1>3
  <2> QED
    BY <1>1, <1>4, <2>1, <2>2, Zenon
<1>6. IsFiniteSet(DOMAIN x.pods) /\ DOMAIN x.pods \subseteq Nat
  BY <1>3, <1>4, Zenon
<1> QED
  BY <1>5, <1>6 DEF PodList

(* What the run shows of three pods: of any number of pods and containers. *)
THEOREM CrashesAreReported == Spec => []CrashesAreEscalated
<1>1. ASSUME InputInv PROVE CrashesAreEscalated
  <2> SUFFICES ASSUME input.kind = "crashes" PROVE X!Everywhere!CrashesAreEscalated(input.pods)
    BY DEF CrashesAreEscalated
  <2>1. input \in X!Crashing
    BY <1>1 DEF InputInv
  <2> QED
    BY <2>1, CrashingAre, CrashesEscalate
<1> QED
  BY <1>1, InputKinds, PTL

LEMMA ReportsAre ==
  ASSUME NEW x \in X!Reports
  PROVE  x.results \in Seq(AnyResult) /\ x.more \in AnyFinding
<1>1. X!SomeFindings \subseteq AnyFinding
  <2>1. ASSUME NEW s \in SeverityNames, NEW c \in X!ToSet(X!Scopes), NEW u \in BOOLEAN
        PROVE  X!Finding(s, c, u) \in AnyFinding
    BY DEF X!Finding, AnyFinding
  <2>2. /\ "cluster/nodes" \in X!ToSet(X!Scopes) /\ "storage/pvc" \in X!ToSet(X!Scopes)
        /\ "platform/observability" \in X!ToSet(X!Scopes)
    <3>1. 2 \in DOMAIN X!Scopes /\ 5 \in DOMAIN X!Scopes /\ 10 \in DOMAIN X!Scopes
      BY DEF X!Scopes
    <3>2. X!Scopes[2] = "cluster/nodes" /\ X!Scopes[5] = "platform/observability" /\ X!Scopes[10] = "storage/pvc"
      BY DEF X!Scopes
    <3> QED
      BY <3>1, <3>2 DEF X!ToSet
  <2>3. {"critical", "medium", "low"} \subseteq SeverityNames
    BY DEF SeverityNames
  <2> QED
    BY <2>1, <2>2, <2>3, Zenon DEF X!SomeFindings
<1>2. ASSUME NEW r \in X!SomeResults PROVE r \in AnyResult
  <2>1. ASSUME NEW f \in Seq(AnyFinding), NEW e \in Nat, NEW u \in Nat, NEW d \in BOOLEAN
        PROVE  X!Result(f, e, u, d) \in AnyResult
    BY DEF X!Result, AnyResult
  <2>2. X!SeqOf(X!SomeFindings, 2) \subseteq Seq(AnyFinding) /\ <<>> \in Seq(AnyFinding)
    <3>1. ASSUME NEW f \in X!SeqOf(X!SomeFindings, 2) PROVE f \in Seq(AnyFinding)
      <4>1. PICK n \in 0..2 : f \in [1..n -> X!SomeFindings]
        BY DEF X!SeqOf
      <4>2. f \in [1..n -> AnyFinding] /\ n \in Nat
        BY <1>1, <4>1
      <4> QED
        BY <4>2
    <3> QED
      BY <3>1
  <2>3. CASE r = X!InDoubt
    BY <2>1, <2>2, <2>3, Zenon DEF X!InDoubt
  <2>4. CASE \E f \in X!SeqOf(X!SomeFindings, 2), e \in {0, 5}, u \in {0, 2} : r = X!Undoubted(f, e, u)
    <3>1. {0, 5} \subseteq Nat /\ {0, 2} \subseteq Nat
      OBVIOUS
    <3>2. PICK f \in X!SeqOf(X!SomeFindings, 2), e \in {0, 5}, u \in {0, 2} : r = X!Undoubted(f, e, u)
      BY <2>4
    <3> QED
      BY <2>1, <2>2, <3>1, <3>2, Zenon DEF X!Undoubted
  <2> QED
    BY <2>3, <2>4 DEF X!SomeResults
<1>3. PICK a \in X!SomeResults, b \in X!SomeResults : x.results = <<a, b>>
  BY DEF X!Reports
<1>4. x.more \in X!SomeFindings
  BY DEF X!Reports
<1>5. <<a, b>> \in Seq(AnyResult)
  <2>1. a \in AnyResult /\ b \in AnyResult
    BY <1>2
  <2> QED
    BY <2>1
<1> QED
  BY <1>1, <1>3, <1>4, <1>5

(* What the run shows of the results of two analyzers: of any results of   *)
(* any number of them.                                                     *)
THEOREM ReportsHold == Spec => []ReportIsFair
<1>1. ASSUME InputInv PROVE ReportIsFair
  <2> SUFFICES ASSUME input.kind = "report" PROVE X!AssessmentIsFair(input.results, input.more)
    BY DEF ReportIsFair
  <2>1. input \in X!Reports
    BY <1>1 DEF InputInv
  <2> QED
    BY <2>1, ReportsAre, ReportsAreFair
<1> QED
  BY <1>1, InputKinds, PTL

LEMMA ServiceIs ==
  ASSUME NEW name, NEW type
  PROVE  IsFiniteSet(X!Service(name, type).ports)
BY FS_EmptySet DEF X!Service

LEMMA ClusterIs ==
  ASSUME NEW c \in X!SomeClusters
  PROVE  Finite(c) /\ Finitely(c.services) /\ \A w \in c.workloads : Numbered(w)
<1>1. PICK s, a, h, g, r :
        /\ s \in {{X!Service(2, "LoadBalancer")}, {X!Service(1, "ClusterIP"), X!Service(2, "LoadBalancer")},
                  {X!Service(2, "NodePort"), X!Loki}}
        /\ a \in X!SlicesOf(2) /\ r \in {Unset, 2} /\ c = X!Cluster(s, a, h, g, r)
  BY DEF X!SomeClusters
<1>2. c.services = s /\ c.slices = a /\ c.workloads = {[X!Web EXCEPT !.replicas = r]}
  BY <1>1 DEF X!Cluster, X!Bare
<1>3. IsFiniteSet(X!Loki.ports)
  <2> DEFINE p == [number |-> 3100, words |-> {}]
  <2>1. X!Loki.ports = {p}
    BY DEF X!Loki
  <2> HIDE DEF p
  <2> QED
    BY <2>1, FS_Singleton, Zenon
<1>4. Finitely(s)
  <2>1. PICK x, y : s = {x, y} /\ IsFiniteSet(x.ports) /\ IsFiniteSet(y.ports)
    <3>1. PICK k, l, m : /\ k = X!Service(2, "LoadBalancer") /\ l = X!Service(1, "ClusterIP")
                         /\ m = X!Service(2, "NodePort") /\ s \in {{k}, {l, k}, {m, X!Loki}}
      BY <1>1, Zenon
    <3>2. IsFiniteSet(k.ports) /\ IsFiniteSet(l.ports) /\ IsFiniteSet(m.ports)
      BY <3>1, ServiceIs
    <3> QED
      BY ONLY <1>3, <3>1, <3>2
  <2>2. IsFiniteSet({x, y})
    BY PairIsFinite, Zenon
  <2> QED
    BY ONLY <2>1, <2>2 DEF Finitely
<1>5. Finite(c)
  <2>1. IsFiniteSet(a) /\ \A l \in a : IsFiniteSet(DOMAIN l.endpoints)
    BY <1>1, SlicesAre
  <2> QED
    BY ONLY <1>2, <1>4, <2>1 DEF Finite, Finitely
<1>6. ASSUME NEW w \in c.workloads PROVE Numbered(w)
  <2>1. w = [X!Web EXCEPT !.replicas = r]
    BY <1>2
  <2>2. w.replicas = r /\ w.ready = 1 /\ w.missing = X!NothingMissing
    BY <2>1 DEF X!Web
  <2>3. \A k \in {"readiness", "liveness", "requests", "limits"} : X!NothingMissing[k] = 0
    BY DEF X!NothingMissing
  <2>4. 0 \in Nat /\ 1 \in Nat /\ 2 \in Nat
    OBVIOUS
  <2>5. w.replicas = Unset \/ w.replicas = 2
    BY <1>1, <2>2
  <2> QED
    BY ONLY <2>2, <2>3, <2>4, <2>5, Zenon DEF Numbered
<1> QED
  BY <1>2, <1>4, <1>5, <1>6

LEMMA RunsAre ==
  ASSUME NEW x \in X!Runs
  PROVE  Observable(X!RunOf(x))
<1>1. x.cluster \in X!SomeClusters
  BY DEF X!Runs
<1>2. PICK r : r = X!RunOf(x)
  OBVIOUS
<1>3. r.cluster = x.cluster /\ r.fails = X!FailsIn(x.step, x.calls) /\ r.warnings = <<TRUE, FALSE>>
  BY <1>2, Zenon DEF X!RunOf
<1>4. Analyzers \cup {"detect"} \subseteq DOMAIN r.fails
  <2>1. DOMAIN r.fails = X!Steps
    BY <1>3 DEF X!FailsIn
  <2> QED
    BY <2>1 DEF Analyzers, X!Steps
<1>5. r.warnings \in Seq(BOOLEAN)
  BY <1>3
<1> QED
  BY <1>1, <1>2, <1>3, <1>4, <1>5, ClusterIs DEF Observable

(* What the run shows of the analyzers, each by itself, in one diagnosis:  *)
(* of any run, whatever calls fail.                                        *)
THEOREM AnalyzersHold == Spec => []AnalyzersAgree
<1>1. ASSUME InputInv PROVE AnalyzersAgree
  <2> SUFFICES ASSUME input.kind = "run" PROVE X!AnalyzersAgreeOn(X!RunOf(input))
    BY DEF AnalyzersAgree
  <2>1. input \in X!Runs
    BY <1>1 DEF InputInv
  <2>2. Observable(X!RunOf(input))
    BY <2>1, RunsAre
  <2> QED
    BY <2>2, AnalyzersAreOfOneMind
<1> QED
  BY <1>1, InputKinds, PTL

(* The files of the repositories that are enumerated, for a chart in d:    *)
(* where they are and what they name.                                      *)
Lies(d, path, name) ==
  \/ path = <<"zone">> /\ name # "Chart"
  \/ \E s : path = <<"zone", s>> /\ name # "Chart"
  \/ \E s : path = <<"charts", "api", s>> /\ name # "Chart"
  \/ \E s : path = Append(d, s) /\ (name = "Chart" => s = "Chart.yaml")
  \/ \E s \in {"_helpers.tpl", "deployment.yaml"} : path = d \o <<"templates", s>> /\ name # "Chart"
  \/ path = d \o <<"templates", "tests", "run.yaml">> /\ name # "Chart"

IsFile(y, d, r) ==
  /\ Lies(d, y.path, y.name) /\ y.type \in FileTypes
  /\ y.refs \cup y.quoted \cup y.commands \subseteq {r}

LEMMA RepoFileIs ==
  ASSUME NEW d, NEW r, NEW path, NEW name, NEW type \in FileTypes, Lies(d, path, name)
  PROVE  IsFile(RepoFile(path, name, type), d, r)
BY DEF IsFile, RepoFile

LEMMA ReferrerIs ==
  ASSUME NEW d, NEW r, NEW y \in Referrers(r)
  PROVE  IsFile(y, d, r) /\ y.name # "Chart"
<1> DEFINE a == RepoFile(<<"zone", "main.tf">>, "plain", "hcl")
           b == RepoFile(<<"zone", "kustomization.yaml">>, "kustomization", "yaml")
           c == RepoFile(<<"zone", "run.sh">>, "plain", "command")
           e == RepoFile(<<"zone">>, "plain", "command")
<1>1. \E x \in {a, b, c, e} : /\ y.path = x.path /\ y.name = x.name /\ y.type = x.type
                              /\ y.refs \in {{}, {r}} /\ y.quoted \in {{}, {r}} /\ y.commands \in {{}, {r}}
  BY Zenon DEF Referrers, RepoFile
<1>2. ASSUME NEW s, NEW name, name # "Chart"
      PROVE  Lies(d, <<"zone", s>>, name) /\ Lies(d, <<"zone">>, name)
  BY <1>2, Zenon DEF Lies
<1>3. ASSUME NEW x \in {a, b, c, e} PROVE Lies(d, x.path, x.name) /\ x.name # "Chart" /\ x.type \in FileTypes
  <2>1. /\ a.path = <<"zone", "main.tf">> /\ b.path = <<"zone", "kustomization.yaml">>
        /\ c.path = <<"zone", "run.sh">> /\ e.path = <<"zone">>
        /\ a.name = "plain" /\ b.name = "kustomization" /\ c.name = "plain" /\ e.name = "plain"
        /\ {a.type, b.type, c.type, e.type} \subseteq FileTypes
    BY DEF RepoFile, FileTypes
  <2>2. x = a \/ x = b \/ x = c \/ x = e
    OBVIOUS
  <2> HIDE DEF a, b, c, e
  <2> QED
    BY <1>2, <2>1, <2>2, Zenon
<1> HIDE DEF a, b, c, e
<1> QED
  BY <1>1, <1>3 DEF IsFile

Helpers(d)     == RepoFile(d \o <<"templates", "_helpers.tpl">>, "plain", "tpl")
Deployment(d)  == RepoFile(d \o <<"templates", "deployment.yaml">>, "deployment", "yaml")
Nested1(d)     == RepoFile(d \o <<"templates", "tests", "run.yaml">>, "plain", "yaml")
Values(d)      == RepoFile(Append(d, "values.yaml"), "values", "yaml")
Environment(d, i) == RepoFile(Append(d, "values-" \o ToString(i)), "valuesEnv", "yaml")
Manifest(i)    == RepoFile(<<"charts", "api", ToString(i)>>, "plain", "yaml")
TheChart(d)    == RepoFile(Append(d, "Chart.yaml"), "Chart", "yaml")

Others(d, r) ==
  {Helpers(d), Deployment(d), Nested1(d), Values(d)} \cup {Environment(d, i) : i \in 1..12}
    \cup {Manifest(i) : i \in 1..12} \cup Referrers(r)

LEMMA OthersAre ==
  ASSUME NEW d, NEW r, NEW y \in Others(d, r) \cup {TheChart(d)}
  PROVE  IsFile(y, d, r) /\ (y \in Others(d, r) => y.name # "Chart")
<1>1. {"yaml", "tpl"} \subseteq FileTypes
  BY DEF FileTypes
<1>2. ASSUME NEW path, NEW name, NEW type PROVE RepoFile(path, name, type).name = name
  BY DEF RepoFile
<1>3. CASE y = TheChart(d)
  <2>1. Lies(d, Append(d, "Chart.yaml"), "Chart")
    BY Zenon DEF Lies
  <2>2. TheChart(d) \notin Others(d, r)
    <3>1. TheChart(d).name = "Chart"
      BY <1>2 DEF TheChart
    <3>2. \A x \in Others(d, r) : x.name # "Chart"
      BY <1>2, ReferrerIs DEF Others, Helpers, Deployment, Nested1, Values, Environment, Manifest
    <3> QED
      BY <3>1, <3>2
  <2> QED
    BY <1>1, <1>3, <2>1, <2>2, RepoFileIs DEF TheChart
<1>4. CASE y \in {Helpers(d), Deployment(d)}
  <2>1. ASSUME NEW s \in {"_helpers.tpl", "deployment.yaml"}, NEW name, name # "Chart"
        PROVE  Lies(d, d \o <<"templates", s>>, name)
    BY <2>1, Zenon DEF Lies
  <2> QED
    BY <1>1, <1>2, <1>4, <2>1, RepoFileIs DEF Helpers, Deployment
<1>5. CASE y = Nested1(d)
  <2>1. Lies(d, d \o <<"templates", "tests", "run.yaml">>, "plain")
    BY DEF Lies
  <2> QED
    BY <1>1, <1>2, <1>5, <2>1, RepoFileIs DEF Nested1
<1>6. ASSUME NEW s, NEW name, name # "Chart" PROVE Lies(d, Append(d, s), name)
  BY <1>6, Zenon DEF Lies
<1>7. CASE y = Values(d)
  BY <1>1, <1>2, <1>6, <1>7, RepoFileIs DEF Values
<1>8. CASE \E i \in 1..12 : y = Environment(d, i)
  BY <1>1, <1>2, <1>6, <1>8, RepoFileIs DEF Environment
<1>9. CASE \E i \in 1..12 : y = Manifest(i)
  <2>1. ASSUME NEW s PROVE Lies(d, <<"charts", "api", s>>, "plain")
    BY Zenon DEF Lies
  <2> QED
    BY <1>1, <1>2, <1>9, <2>1, RepoFileIs DEF Manifest
<1>10. CASE y \in Referrers(r)
  BY <1>10, ReferrerIs
<1> QED
  BY <1>3, <1>4, <1>5, <1>7, <1>8, <1>9, <1>10 DEF Others

(* All of q is in N, but for one place at most.                            *)
Single(q, N, c, k) == q \in Seq(N \cup {c}) /\ \A i \in DOMAIN q : q[i] \notin N => i = k

LEMMA SingleThen ==
  ASSUME NEW N, NEW c, NEW k, NEW q, Single(q, N, c, k), NEW t \in Seq(N)
  PROVE  Single(q \o t, N, c, k)
<1>1. q \in Seq(N \cup {c}) /\ t \in Seq(N \cup {c}) /\ \A i \in DOMAIN t : t[i] \in N
  BY DEF Single
<1>2. /\ q \o t \in Seq(N \cup {c}) /\ Len(q) \in Nat /\ Len(t) \in Nat
      /\ DOMAIN (q \o t) = 1..(Len(q) + Len(t)) /\ DOMAIN q = 1..Len(q) /\ DOMAIN t = 1..Len(t)
  BY <1>1
<1>3. ASSUME NEW i \in DOMAIN (q \o t), (q \o t)[i] \notin N PROVE i = k
  <2>1. CASE i \in DOMAIN q
    <3>1. (q \o t)[i] = q[i]
      BY <1>1, <1>2, <2>1
    <3> QED
      BY <1>3, <2>1, <3>1 DEF Single
  <2>2. CASE i \notin DOMAIN q
    <3>1. i - Len(q) \in DOMAIN t /\ (q \o t)[i] = t[i - Len(q)]
      BY <1>1, <1>2, <2>2
    <3> QED
      BY <1>1, <1>3, <3>1
  <2> QED
    BY <2>1, <2>2
<1> QED
  BY <1>2, <1>3 DEF Single

LEMMA ThenSingle ==
  ASSUME NEW N, NEW c, NEW q, Single(q, N, c, 1), NEW s \in Seq(N)
  PROVE  Single(s \o q, N, c, Len(s) + 1)
<1>1. q \in Seq(N \cup {c}) /\ s \in Seq(N \cup {c}) /\ \A i \in DOMAIN s : s[i] \in N
  BY DEF Single
<1>2. /\ s \o q \in Seq(N \cup {c}) /\ Len(q) \in Nat /\ Len(s) \in Nat
      /\ DOMAIN (s \o q) = 1..(Len(s) + Len(q)) /\ DOMAIN q = 1..Len(q) /\ DOMAIN s = 1..Len(s)
  BY <1>1
<1>3. ASSUME NEW i \in DOMAIN (s \o q), (s \o q)[i] \notin N PROVE i = Len(s) + 1
  <2>1. CASE i \in DOMAIN s
    <3>1. (s \o q)[i] = s[i]
      BY <1>1, <1>2, <2>1
    <3> QED
      BY <1>1, <1>3, <2>1, <3>1
  <2>2. CASE i \notin DOMAIN s
    <3>1. i - Len(s) \in DOMAIN q /\ (s \o q)[i] = q[i - Len(s)]
      BY <1>1, <1>2, <2>2
    <3>2. i - Len(s) = 1
      BY <1>3, <3>1 DEF Single
    <3> QED
      BY <1>2, <3>2
  <2> QED
    BY <2>1, <2>2
<1> QED
  BY <1>2, <1>3 DEF Single

LEMMA ManifestsAre ==
  ASSUME NEW m \in {0, 12}, NEW d, NEW r
  PROVE  Manifests(m) \in Seq(Others(d, r))
<1>1. \A i \in 1..m : Manifest(i) \in Others(d, r)
  BY DEF Others
<1>2. Manifests(m) = [i \in 1..m |-> Manifest(i)]
  BY DEF Manifests, Manifest
<1>3. m \in Nat
  OBVIOUS
<1> HIDE DEF Manifest
<1>4. [i \in 1..m |-> Manifest(i)] \in [1..m -> Others(d, r)]
  BY <1>1
<1> QED
  BY <1>2, <1>3, <1>4

LEMMA ChartAtIs ==
  ASSUME NEW d, NEW r, NEW parts, NEW v \in {0, 12}
  PROVE  Single(ChartAt(d, parts, v), Others(d, r), TheChart(d), 1)
<1> DEFINE N == Others(d, r)
           c == TheChart(d)
           Part(p, file) == IF p \in parts THEN <<file>> ELSE <<>>
           two == <<Helpers(d), Deployment(d)>>
           envs == [i \in 1..v |-> Environment(d, i)]
           chart == Part("Chart", c)
           nested == Part("nested", Nested1(d))
           values == Part("values", Values(d))
<1>1. ChartAt(d, parts, v) = chart \o two \o nested \o envs \o values
  BY Zenon DEF ChartAt, TheChart, Helpers, Deployment, Nested1, Values, Environment
<1>2. Helpers(d) \in N /\ Deployment(d) \in N /\ Nested1(d) \in N /\ Values(d) \in N /\ \A i \in 1..12 : Environment(d, i) \in N
  BY DEF Others
<1> HIDE DEF N, c
<1>3. Single(chart, N, c, 1)
  <2>1. <<>> \in Seq(N \cup {c}) /\ DOMAIN <<>> = {}
    OBVIOUS
  <2>2. <<c>> \in Seq(N \cup {c}) /\ DOMAIN <<c>> = 1..1
    OBVIOUS
  <2>3. \A i \in 1..1 : i = 1
    OBVIOUS
  <2>4. Single(<<>>, N, c, 1) /\ Single(<<c>>, N, c, 1)
    BY ONLY <2>1, <2>2, <2>3, Zenon DEF Single
  <2> QED
    BY <2>4, Zenon
<1>4. ASSUME NEW p, NEW x \in N PROVE Part(p, x) \in Seq(N)
  OBVIOUS
<1>5. two \in Seq(N) /\ nested \in Seq(N) /\ values \in Seq(N)
  BY <1>2, <1>4
<1>6. envs \in Seq(N)
  <2>1. v \in Nat /\ \A i \in 1..v : Environment(d, i) \in N
    BY <1>2
  <2> QED
    BY <2>1
<1> HIDE DEF chart, two, nested, envs, values
<1>7. Single(chart \o two \o nested \o envs \o values, N, c, 1)
  BY <1>3, <1>5, <1>6, SingleThen
<1> QED
  BY <1>1, <1>7 DEF N, c

LEMMA DirIs ==
  ASSUME NEW d \in Dirs
  PROVE  /\ d # <<>> /\ d \in Seq({"charts", "web"}) /\ Len(d) \in {1, 2} /\ d[1] \in {"charts", "web"}
         /\ (Len(d) = 1 => d[1] = "web")
<1>1. d = <<"web">> \/ d = <<"charts", "web">>
  BY DEF Dirs
<1>2. CASE d = <<"web">>
  BY <1>2
<1>3. CASE d = <<"charts", "web">>
  BY <1>3
<1> QED
  BY <1>1, <1>2, <1>3

Deep(d) == Append(Append(d, "templates"), "templates")

LEMMA LiesWhere ==
  ASSUME NEW d \in Dirs, NEW path, NEW name, Lies(d, path, name)
  PROVE  /\ IsPath(path) /\ ~L!IsPrefix(path, d) /\ ~L!IsPrefix(Deep(d), path)
         /\ name = "Chart" => path = Append(d, "Chart.yaml")
<1> DEFINE n == Len(d)
<1>1. d # <<>> /\ d \in Seq({"charts", "web"}) /\ n \in {1, 2} /\ d[1] \in {"charts", "web"} /\ (n = 1 => d[1] = "web")
  BY DirIs
<1>2. /\ \E S : d \in Seq(S)
      /\ \E S : Deep(d) \in Seq(S)
      /\ Len(Deep(d)) = n + 2 /\ Deep(d)[n + 2] = "templates" /\ \A i \in 1..n : Deep(d)[i] = d[i]
  <2>1. d \in Seq({"charts", "web", "templates"})
    BY <1>1
  <2>2. Deep(d) \in Seq({"charts", "web", "templates"}) /\ Len(Deep(d)) = n + 2
    BY <2>1 DEF Deep
  <2>3. Deep(d)[n + 2] = "templates" /\ \A i \in 1..n : Deep(d)[i] = d[i]
    BY <2>1 DEF Deep
  <2> QED
    BY <1>1, <2>2, <2>3
<1> HIDE DEF n
<1>3. ASSUME NEW S, path \in Seq(S), path # <<>>,
             \/ path[1] \notin {"charts", "web"}
             \/ path[1] = "charts" /\ Len(path) = 3
             \/ Len(path) = n + 1
             \/ Len(path) \in Nat /\ Len(path) > n + 1 /\ path[n + 2] # "templates"
      PROVE  IsPath(path) /\ ~L!IsPrefix(path, d) /\ ~L!IsPrefix(Deep(d), path)
  <2>1. IsPath(path) /\ Len(path) \in Nat \ {0}
    BY <1>3 DEF IsPath
  <2>2. /\ L!IsPrefix(path, d) <=> Len(path) <= n /\ \A i \in 1..Len(path) : path[i] = d[i]
        /\ L!IsPrefix(Deep(d), path) <=> n + 2 <= Len(path) /\ \A i \in 1..(n + 2) : Deep(d)[i] = path[i]
    BY <1>2, <1>3, PrefixIs DEF n
  <2>3. 1 \in 1..Len(path) /\ 1 \in 1..(n + 2) /\ Deep(d)[1] = d[1] /\ n + 2 \in 1..(n + 2)
    BY <1>1, <1>2, <2>1
  <2>4. ASSUME Len(path) <= n, \A i \in 1..Len(path) : path[i] = d[i] PROVE FALSE
    <3>1. path[1] = d[1]
      BY ONLY <2>3, <2>4
    <3>2. path[1] \in {"charts", "web"}
      BY ONLY <1>1, <3>1
    <3>3. ASSUME path[1] = "charts", Len(path) = 3 PROVE FALSE
      BY ONLY <1>1, <2>4, <3>3
    <3>4. ~(Len(path) = n + 1) /\ ~(Len(path) > n + 1)
      BY ONLY <1>1, <2>1, <2>4
    <3> QED
      BY ONLY <1>3, <3>2, <3>3, <3>4
  <2>5. ASSUME n + 2 <= Len(path), \A i \in 1..(n + 2) : Deep(d)[i] = path[i] PROVE FALSE
    <3>1. path[1] = d[1] /\ path[n + 2] = "templates"
      BY ONLY <1>2, <2>3, <2>5
    <3> QED
      BY ONLY <1>1, <1>3, <2>1, <2>5, <3>1
  <2> QED
    BY ONLY <2>1, <2>2, <2>4, <2>5
<1>4. CASE path = <<"zone">> /\ name # "Chart"
  <2>1. path \in Seq({"zone"}) /\ path # <<>> /\ path[1] = "zone"
    BY <1>4
  <2> QED
    BY <1>3, <1>4, <2>1, Zenon
<1>5. ASSUME NEW s, path = <<"zone", s>>, name # "Chart"
      PROVE  IsPath(path) /\ ~L!IsPrefix(path, d) /\ ~L!IsPrefix(Deep(d), path)
  <2>1. path \in Seq({"zone", s}) /\ path # <<>> /\ path[1] = "zone"
    BY <1>5
  <2> QED
    BY <1>3, <2>1
<1>6. ASSUME NEW s, path = <<"charts", "api", s>>, name # "Chart"
      PROVE  IsPath(path) /\ ~L!IsPrefix(path, d) /\ ~L!IsPrefix(Deep(d), path)
  <2>1. path \in Seq({"charts", "api", s}) /\ path # <<>> /\ path[1] = "charts" /\ Len(path) = 3
    BY <1>6
  <2> QED
    BY <1>3, <2>1
<1>7. ASSUME NEW s, path = Append(d, s)
      PROVE  IsPath(path) /\ ~L!IsPrefix(path, d) /\ ~L!IsPrefix(Deep(d), path)
  <2>1. path \in Seq({"charts", "web", s}) /\ Len(path) = n + 1
    BY <1>1, <1>7 DEF n
  <2>2. path # <<>>
    BY <1>1, <2>1
  <2> QED
    BY <1>3, <2>1, <2>2
<1>8. ASSUME NEW s \in {"_helpers.tpl", "deployment.yaml"}, path = d \o <<"templates", s>>
      PROVE  IsPath(path) /\ ~L!IsPrefix(path, d) /\ ~L!IsPrefix(Deep(d), path)
  <2>1. <<"templates", s>> \in Seq({"templates", s}) /\ Len(<<"templates", s>>) = 2 /\ <<"templates", s>>[2] = s
    OBVIOUS
  <2>2. path \in Seq({"charts", "web", "templates", s}) /\ Len(path) = n + 2 /\ path[n + 2] = s
    BY <1>1, <1>8, <2>1 DEF n
  <2>3. path # <<>> /\ Len(path) > n + 1 /\ Len(path) \in Nat /\ s # "templates"
    BY <1>1, <2>2
  <2> QED
    BY <1>3, <2>2, <2>3
<1>9. ASSUME path = d \o <<"templates", "tests", "run.yaml">>
      PROVE  IsPath(path) /\ ~L!IsPrefix(path, d) /\ ~L!IsPrefix(Deep(d), path)
  <2> DEFINE t == <<"templates", "tests", "run.yaml">>
  <2>1. t \in Seq({"templates", "tests", "run.yaml"}) /\ Len(t) = 3 /\ t[2] = "tests"
    OBVIOUS
  <2> HIDE DEF t
  <2>2. path \in Seq({"charts", "web", "templates", "tests", "run.yaml"}) /\ Len(path) = n + 3 /\ path[n + 2] = "tests"
    BY <1>1, <1>9, <2>1 DEF n, t
  <2>3. path # <<>> /\ Len(path) > n + 1 /\ Len(path) \in Nat
    BY <1>1, <2>2
  <2> QED
    BY <1>3, <2>2, <2>3
<1> QED
  BY <1>4, <1>5, <1>6, <1>7, <1>8, <1>9, Zenon DEF Lies

(* Each of them is a checkout with at most one chart.                      *)
LEMMA CheckoutIs ==
  ASSUME NEW d \in Dirs, NEW r, IsPath(r), NEW repo, NEW k, Single(repo, Others(d, r), TheChart(d), k)
  PROVE  Checkout(repo) /\ FewCharts(repo)
<1>1. /\ Len(repo) \in Nat /\ DOMAIN repo = 1..Len(repo)
      /\ \A f \in DOMAIN repo : IsFile(repo[f], d, r) /\ (repo[f].name = "Chart" => f = k)
  <2>1. repo \in Seq(Others(d, r) \cup {TheChart(d)})
    BY DEF Single
  <2>2. ASSUME NEW f \in DOMAIN repo
        PROVE  repo[f] \in Others(d, r) \cup {TheChart(d)} /\ (repo[f] \notin Others(d, r) => f = k)
    BY <2>1 DEF Single
  <2> QED
    BY <2>1, <2>2, OthersAre
<1>2. \A f \in DOMAIN repo : /\ IsPath(repo[f].path) /\ ~L!IsPrefix(repo[f].path, d)
                             /\ ~L!IsPrefix(Deep(d), repo[f].path)
                             /\ repo[f].name = "Chart" => repo[f].path = Append(d, "Chart.yaml")
  BY <1>1, LiesWhere DEF IsFile
<1>3. Files(repo) /\ Paths(repo) /\ \A f \in DOMAIN repo : \A x \in repo[f].refs \cup repo[f].quoted \cup repo[f].commands : IsPath(x)
  <2>1. Files(repo)
    BY <1>1, Zenon DEF Files, IsFile
  <2>2. Paths(repo)
    BY <1>2 DEF Paths
  <2> QED
    BY <1>1, <2>1, <2>2 DEF IsFile
<1>4. /\ d \in Seq({"charts", "web"}) /\ Len(d) \in Nat
      /\ Append(d, "Chart.yaml") \in Seq({"charts", "web", "Chart.yaml"})
      /\ Append(d, "templates") \in Seq({"charts", "web", "templates"})
      /\ Len(Append(d, "Chart.yaml")) = Len(d) + 1 /\ Append(d, "Chart.yaml")[Len(d) + 1] = "Chart.yaml"
      /\ Len(Append(d, "templates")) = Len(d) + 1 /\ Append(d, "templates")[Len(d) + 1] = "templates"
      /\ Append(d, "Chart.yaml") # <<>>
  BY DirIs
<1>5. \A p \in L!Charts(repo) : p = d
  <2>1. L!Front(Append(d, "Chart.yaml")) = d
    <3>1. \A i \in 1..Len(d) : Append(d, "Chart.yaml")[i] = d[i]
      BY <1>4
    <3>2. L!Front(Append(d, "Chart.yaml")) = [i \in 1..Len(d) |-> Append(d, "Chart.yaml")[i]]
      BY <1>4 DEF L!Front
    <3>3. d = [i \in 1..Len(d) |-> d[i]]
      BY <1>4
    <3> QED
      BY ONLY <3>1, <3>2, <3>3
  <2> QED
    BY <1>2, <2>1, Zenon DEF L!Charts, L!Dir
<1>6. ASSUME NEW f \in L!Templates(repo, d) PROVE repo[f].name # "Chart"
  <2>1. f \in DOMAIN repo /\ L!IsPrefix(Append(d, "templates"), repo[f].path)
    BY DEF L!Templates, L!FilesBelow, L!Below
  <2>2. ~L!IsPrefix(Append(d, "templates"), Append(d, "Chart.yaml"))
    <3>1. /\ \E S : Append(d, "templates") \in Seq(S)
          /\ \E S : Append(d, "Chart.yaml") \in Seq(S)
      BY <1>4
    <3> DEFINE p == Append(d, "templates")
               q == Append(d, "Chart.yaml")
    <3>2. Len(p) = Len(d) + 1 /\ Len(d) + 1 \in 1..(Len(d) + 1) /\ p[Len(d) + 1] # q[Len(d) + 1]
      BY <1>4
    <3> HIDE DEF p, q
    <3>3. L!IsPrefix(p, q) => \A i \in 1..Len(p) : p[i] = q[i]
      BY <3>1, PrefixIs, Zenon DEF p, q
    <3>4. ~L!IsPrefix(p, q)
      BY ONLY <3>2, <3>3
    <3> QED
      BY <3>4 DEF p, q
  <2> QED
    BY <1>2, <2>1, <2>2, Zenon
<1>7. L!Templates(repo, Append(d, "templates")) = {}
  BY <1>2 DEF L!Templates, L!FilesBelow, L!Below, Deep
<1>8. Checkout(repo)
  BY <1>2, <1>3, <1>5, <1>6, <1>7 DEF Checkout
<1>9. ASSUME NEW S, \A f \in S : f \in DOMAIN repo /\ repo[f].name = "Chart" PROVE Cardinality(S) <= 10
  <2>1. S \subseteq {k}
    BY <1>1, <1>9
  <2>2. IsFiniteSet({k}) /\ Cardinality({k}) = 1
    BY FS_Singleton, Zenon
  <2>3. IsFiniteSet(S) /\ Cardinality(S) <= 1
    BY <2>1, <2>2, FS_Subset
  <2>4. Cardinality(S) \in Nat
    BY <2>3, FS_CardinalityType
  <2> QED
    BY <2>3, <2>4
<1>10. FewCharts(repo)
  <2> SUFFICES ASSUME NEW f \in DOMAIN repo
               PROVE  Cardinality({g \in Around(repo, L!Dir(repo[f])) : repo[g].name = "Chart"}) <= 10
    BY DEF FewCharts
  <2> DEFINE S == {g \in Around(repo, L!Dir(repo[f])) : repo[g].name = "Chart"}
  <2>1. \A g \in S : g \in DOMAIN repo /\ repo[g].name = "Chart"
    BY DEF Around, L!FilesBelow
  <2> HIDE DEF S
  <2>2. Cardinality(S) <= 10
    BY <1>9, <2>1
  <2> QED
    BY <2>2 DEF S
<1> QED
  BY <1>8, <1>10

(* What the last file of such a repository names.                          *)
LEMMA WaysArePaths ==
  ASSUME NEW d \in Dirs, NEW p \in PartsOf(d), NEW r \in WaysTo(p)
  PROVE  IsPath(r)
<1> DEFINE Names == {"charts", "web", "Chart.yaml", "values.yaml", "templates", "deployment.yaml", ".", "..", "/", "checkout", "*"}
<1>1. d # <<>> /\ d \in Seq(Names) /\ Len(d) \in {1, 2}
  <2>1. d # <<>> /\ d \in Seq({"charts", "web"}) /\ Len(d) \in {1, 2}
    BY DirIs
  <2> QED
    BY <2>1
<1>2. p \in Seq(Names) /\ p # <<>>
  <2>1. ASSUME NEW s \in Names PROVE Append(d, s) \in Seq(Names) /\ Append(d, s) # <<>>
    BY <1>1
  <2>2. d \o <<"templates", "deployment.yaml">> \in Seq(Names) /\ d \o <<"templates", "deployment.yaml">> # <<>>
    <3>1. <<"templates", "deployment.yaml">> \in Seq(Names) /\ Len(<<"templates", "deployment.yaml">>) = 2
      OBVIOUS
    <3>2. Len(d \o <<"templates", "deployment.yaml">>) = Len(d) + 2
      BY <1>1, <3>1
    <3> QED
      BY <1>1, <3>1, <3>2
  <2>3. <<"charts">> \in Seq(Names) /\ <<"charts">> # <<>>
    OBVIOUS
  <2>4. {"Chart.yaml", "values.yaml", "templates"} \subseteq Names
    OBVIOUS
  <2> HIDE DEF Names
  <2>5. \/ p = d \/ p = <<"charts">> \/ p = d \o <<"templates", "deployment.yaml">>
        \/ \E s \in {"Chart.yaml", "values.yaml", "templates"} : p = Append(d, s)
    BY DEF PartsOf
  <2> QED
    BY <1>1, <2>1, <2>2, <2>3, <2>4, <2>5, Zenon
<1>3. <<".">> \in Seq(Names) /\ <<"..">> \in Seq(Names) /\ <<"/", "checkout">> \in Seq(Names) /\ "*" \in Names
  OBVIOUS
<1> HIDE DEF Names
<1>4. ASSUME NEW q \in Seq(Names) PROVE q \o p \in Seq(Names) /\ q \o p # <<>>
  <2>1. q \o p \in Seq(Names) /\ Len(q \o p) = Len(q) + Len(p) /\ Len(q) \in Nat /\ Len(p) \in Nat \ {0}
    BY <1>2
  <2> QED
    BY <2>1
<1>5. [p EXCEPT ![Len(p)] = "*"] \in Seq(Names) /\ [p EXCEPT ![Len(p)] = "*"] # <<>>
  <2> DEFINE q == [p EXCEPT ![Len(p)] = "*"]
  <2>1. Len(p) \in Nat \ {0} /\ p \in [1..Len(p) -> Names]
    BY <1>2
  <2>2. q \in [1..Len(p) -> Names]
    BY <1>3, <2>1
  <2>3. q \in Seq(Names) /\ Len(q) = Len(p)
    BY <2>1, <2>2
  <2> QED
    BY <2>1, <2>3
<1>6. r \in Seq(Names) /\ r # <<>>
  <2>1. r = p \/ r = <<".">> \o p \/ r = <<"..">> \o p \/ r = <<"/", "checkout">> \o p \/ r = [p EXCEPT ![Len(p)] = "*"]
    BY DEF WaysTo
  <2> QED
    BY <1>2, <1>3, <1>4, <1>5, <2>1, Zenon
<1> QED
  BY <1>6 DEF IsPath

LEMMA RepositoriesAre ==
  ASSUME NEW x \in Repositories
  PROVE  \E d \in Dirs : \E r, k : IsPath(r) /\ Single(x.files, Others(d, r), TheChart(d), k)
<1>1. PICK d \in Dirs : x.files \in RepositoriesIn(d)
  BY DEF Repositories
<1>2. PICK m \in {0, 12}, v \in {0, 12}, parts \in SUBSET {"Chart", "nested", "values"}, f \in NamingFiles(d) :
        x.files = RepositoryWith(d, m, parts, v, f)
  BY ONLY <1>1 DEF RepositoriesIn
<1>3. PICK p \in PartsOf(d) : \E r \in WaysTo(p) : f \in Referrers(r)
  BY ONLY <1>2, Zenon DEF NamingFiles
<1>4. PICK r \in WaysTo(p) : f \in Referrers(r)
  BY ONLY <1>3, Zenon
<1>5. IsPath(r)
  BY <1>4, WaysArePaths
<1> DEFINE N == Others(d, r)
           c == TheChart(d)
<1>6. Manifests(m) \in Seq(N) /\ Single(ChartAt(d, parts, v), N, c, 1)
  BY ManifestsAre, ChartAtIs
<1>7. f \in N
  BY <1>4 DEF Others
<1> HIDE DEF N, c
<1>8. <<f>> \in Seq(N)
  BY <1>7
<1>9. Single(Manifests(m) \o ChartAt(d, parts, v), N, c, Len(Manifests(m)) + 1)
  BY <1>6, ThenSingle
<1>10. Single(x.files, N, c, Len(Manifests(m)) + 1)
  BY <1>2, <1>8, <1>9, SingleThen, Zenon DEF RepositoryWith
<1> QED
  BY <1>5, <1>10 DEF N, c

(* What the run shows of the files of a repository: of any checkout with   *)
(* few charts in each other.                                               *)
THEOREM LinksHold == Spec => []RepositoryIsLinked
<1>1. ASSUME InputInv PROVE RepositoryIsLinked
  <2> SUFFICES ASSUME input.kind = "repository"
               PROVE  /\ L!ChartHangsTogether(input.files)
                      /\ L!NamedChartIsReached(input.files)
                      /\ L!NamedFileIsReferenced(input.files)
    BY DEF RepositoryIsLinked
  <2>1. input \in Repositories
    BY <1>1 DEF InputInv
  <2>2. Checkout(input.files) /\ FewCharts(input.files)
    BY <2>1, RepositoriesAre, CheckoutIs
  <2>3. Paths(input.files)
    BY <2>2 DEF Checkout
  <2> QED
    BY <2>2, <2>3, ChartsHangTogether, NamedChartsAreReached, NamedFilesAreReferenced
<1> QED
  BY <1>1, InputKinds, PTL

(* What the bodies of the run are put together from.                       *)
Glyphs == Marks \cup {"quote", "\\", "x"}

RunsFrom(q, from, to) == q \in Seq(Glyphs) /\ Run(q, from, to)

LEMMA RunOfNothing ==
  ASSUME NEW p \in ScanStates, p.depth \in Nat
  PROVE  RunsFrom(<<>>, p, p)
<1> DEFINE s == [k \in 0..0 |-> p]
<1>1. Len(<<>>) = 0 /\ <<>> \in Seq(Glyphs) /\ 1..0 = {}
  OBVIOUS
<1>2. s \in [0..0 -> ScanStates] /\ s[0] = p /\ \A k \in 0..0 : s[k].depth \in Nat
  OBVIOUS
<1> HIDE DEF s
<1> QED
  BY <1>1, <1>2 DEF RunsFrom, Run

LEMMA RunOfPiece ==
  ASSUME NEW p \in ScanStates, p.depth \in Nat, NEW c \in Glyphs, NEW q, q = Scan(p, c), q.depth \in Nat
  PROVE  RunsFrom(<<c>>, p, q)
<1> DEFINE s == [k \in 0..1 |-> IF k = 0 THEN p ELSE q]
           u == <<c>>
<1>1. Len(u) = 1 /\ u[1] = c /\ u \in Seq(Glyphs) /\ 1..1 = {1} /\ 0..1 = {0, 1}
  OBVIOUS
<1>2. q \in ScanStates
  BY ScanDeeper
<1>3. s \in [0..1 -> ScanStates] /\ s[0] = p /\ s[1] = q
  BY <1>2
<1> HIDE DEF s, u
<1>4. \A k \in 1..1 : s[k] = Scan(s[k - 1], u[k])
  <2>1. 1 - 1 = 0
    OBVIOUS
  <2> QED
    BY ONLY <1>1, <1>3, <2>1, q = Scan(p, c)
<1>5. \A k \in 0..1 : s[k].depth \in Nat
  BY <1>1, <1>3
<1> QED
  BY <1>1, <1>3, <1>4, <1>5 DEF RunsFrom, Run, u

LEMMA RunOfBoth ==
  ASSUME NEW a, NEW b, NEW o, NEW p, NEW q, RunsFrom(a, o, p), RunsFrom(b, p, q)
  PROVE  RunsFrom(Join(a, b), o, q)
<1> DEFINE m == Len(a)
           n == Len(b)
           u == Join(a, b)
<1>1. a \in Seq(Glyphs) /\ b \in Seq(Glyphs) /\ Run(a, o, p) /\ Run(b, p, q)
  BY DEF RunsFrom
<1>2. IsJoin(Glyphs, u, a, b)
  BY ONLY <1>1, JoinIs
<1> HIDE DEF u
<1>3. /\ u \in Seq(Glyphs) /\ m \in Nat /\ n \in Nat /\ Len(u) = m + n
      /\ \A i \in 1..m : u[i] = a[i]
      /\ \A i \in 1..n : u[m + i] = b[i]
  BY ONLY <1>2, Zenon DEF IsJoin
<1>4. PICK s : /\ s \in [0..m -> ScanStates] /\ s[0] = o /\ s[m] = p
               /\ \A k \in 1..m : s[k] = Scan(s[k - 1], a[k])
               /\ \A k \in 0..m : s[k].depth \in Nat
  BY ONLY <1>1, Zenon DEF Run
<1>5. PICK r : /\ r \in [0..n -> ScanStates] /\ r[0] = p /\ r[n] = q
               /\ \A k \in 1..n : r[k] = Scan(r[k - 1], b[k])
               /\ \A k \in 0..n : r[k].depth \in Nat
  BY ONLY <1>1, Zenon DEF Run
<1> HIDE DEF m, n
<1> DEFINE f == [k \in 0..(m + n) |-> IF k <= m THEN s[k] ELSE r[k - m]]
<1>6. /\ \A k \in 0..m : k \in 0..(m + n) /\ f[k] = s[k]
      /\ \A k \in 0..n : m + k \in 0..(m + n) /\ f[m + k] = r[k]
      /\ f \in [0..(m + n) -> ScanStates]
  <2>1. ASSUME NEW k \in 0..m PROVE k \in 0..(m + n) /\ f[k] = s[k]
    BY ONLY <1>3, <2>1
  <2>2. ASSUME NEW k \in 0..n PROVE m + k \in 0..(m + n) /\ f[m + k] = r[k]
    <3>1. m + k \in 0..(m + n) /\ (m + k) - m = k /\ (m + k <= m => k = 0 /\ m + k = m)
      BY ONLY <1>3, <2>2
    <3>2. f[m + k] = IF m + k <= m THEN s[m + k] ELSE r[(m + k) - m]
      BY ONLY <3>1
    <3> HIDE DEF f
    <3> QED
      BY ONLY <1>4, <1>5, <3>1, <3>2
  <2>3. ASSUME NEW k \in 0..(m + n) PROVE f[k] \in ScanStates
    <3>1. k <= m => k \in 0..m
      BY ONLY <1>3, <2>3
    <3>2. ~(k <= m) => k - m \in 0..n
      BY ONLY <1>3, <2>3
    <3> QED
      BY ONLY <1>4, <1>5, <2>3, <3>1, <3>2
  <2> QED
    BY <2>1, <2>2, <2>3
<1> HIDE DEF f
<1>7. f[0] = o /\ f[m + n] = q
  <2>1. 0 \in 0..m /\ n \in 0..n
    BY ONLY <1>3
  <2> QED
    BY ONLY <1>4, <1>5, <1>6, <2>1, Zenon
<1>8. ASSUME NEW k \in 1..(m + n) PROVE f[k] = Scan(f[k - 1], u[k])
  <2>1. CASE k <= m
    <3>1. k \in 1..m /\ k \in 0..m /\ k - 1 \in 0..m
      BY ONLY <1>3, <1>8, <2>1
    <3> QED
      BY ONLY <1>3, <1>4, <1>6, <3>1, Zenon
  <2>2. CASE k > m
    <3> DEFINE i == k - m
    <3>1. i \in 1..n /\ i \in 0..n /\ i - 1 \in 0..n /\ m + i = k /\ m + (i - 1) = k - 1
      BY ONLY <1>3, <1>8, <2>2
    <3> HIDE DEF i
    <3>2. f[m + i] = r[i] /\ f[m + (i - 1)] = r[i - 1] /\ u[m + i] = b[i] /\ r[i] = Scan(r[i - 1], b[i])
      BY ONLY <1>3, <1>5, <1>6, <3>1, Zenon
    <3> QED
      BY ONLY <3>1, <3>2, Zenon
  <2> QED
    BY <1>3, <2>1, <2>2
<1>9. ASSUME NEW k \in 0..(m + n) PROVE f[k].depth \in Nat
  <2>1. CASE k <= m
    <3>1. k \in 0..m
      BY ONLY <1>3, <1>9, <2>1
    <3> QED
      BY ONLY <1>4, <1>6, <3>1, Zenon
  <2>2. CASE k > m
    <3>1. k - m \in 0..n /\ m + (k - m) = k
      BY ONLY <1>3, <1>9, <2>2
    <3> QED
      BY ONLY <1>5, <1>6, <3>1, Zenon
  <2> QED
    BY <1>3, <2>1, <2>2
<1>10. Run(u, o, q)
  BY ONLY <1>3, <1>6, <1>7, <1>8, <1>9, Zenon DEF Run
<1> QED
  BY ONLY <1>3, <1>10 DEF RunsFrom, u

LEMMA RunIsDeeper ==
  ASSUME NEW a, NEW p, NEW q, RunsFrom(a, p, q)
  PROVE  RunsFrom(a, Deeper(p), Deeper(q))
<1> DEFINE m == Len(a)
<1>1. a \in Seq(Glyphs) /\ Run(a, p, q)
  BY DEF RunsFrom
<1>2. m \in Nat
  BY ONLY <1>1
<1>3. PICK s : /\ s \in [0..m -> ScanStates] /\ s[0] = p /\ s[m] = q
               /\ \A k \in 1..m : s[k] = Scan(s[k - 1], a[k])
               /\ \A k \in 0..m : s[k].depth \in Nat
  BY ONLY <1>1 DEF Run
<1> HIDE DEF m
<1> DEFINE f == [k \in 0..m |-> Deeper(s[k])]
<1>4. ASSUME NEW k \in 0..m PROVE f[k] \in ScanStates /\ f[k].depth \in Nat
  <2>1. s[k] \in ScanStates /\ s[k].depth \in Nat
    BY ONLY <1>3, <1>4
  <2>2. f[k] = Deeper(s[k])
    BY ONLY <1>4
  <2>3. Deeper(s[k]) \in ScanStates /\ Deeper(s[k]).depth = s[k].depth + 1
    BY ONLY <2>1, ScanDeeper
  <2> HIDE DEF f
  <2> QED
    BY ONLY <2>1, <2>2, <2>3
<1>5. ASSUME NEW k \in 1..m PROVE f[k] = Scan(f[k - 1], a[k])
  <2>1. k \in 0..m /\ k - 1 \in 0..m
    BY ONLY <1>2, <1>5
  <2>2. f[k] = Deeper(s[k]) /\ f[k - 1] = Deeper(s[k - 1]) /\ s[k] = Scan(s[k - 1], a[k])
    BY ONLY <1>3, <1>5, <2>1
  <2>3. Scan(Deeper(s[k - 1]), a[k]) = Deeper(Scan(s[k - 1], a[k]))
    <3>1. s[k - 1] \in ScanStates
      BY ONLY <1>3, <2>1
    <3> QED
      BY ONLY <3>1, ScanDeeper
  <2> HIDE DEF f
  <2> QED
    BY ONLY <2>2, <2>3, Zenon
<1>6. f[0] = Deeper(p) /\ f[m] = Deeper(q) /\ DOMAIN f = 0..m /\ f = [k \in 0..m |-> f[k]]
  BY ONLY <1>2, <1>3
<1> HIDE DEF f
<1>7. f \in [0..m -> ScanStates]
  BY ONLY <1>4, <1>6
<1>8. Run(a, Deeper(p), Deeper(q))
  BY ONLY <1>4, <1>5, <1>6, <1>7, Zenon DEF Run, m
<1> QED
  BY ONLY <1>1, <1>8 DEF RunsFrom

(* The scan in a string, and after a backslash in it.                      *)
InString == [quoted |-> TRUE, escaped |-> FALSE, depth |-> 0]
Escaped  == [quoted |-> TRUE, escaped |-> TRUE, depth |-> 0]

LEMMA StringSteps ==
  /\ RunsFrom(<<"quote">>, Clear, InString) /\ RunsFrom(<<"quote">>, InString, Clear)
  /\ RunsFrom(<<"open">>, InString, InString) /\ RunsFrom(<<"close">>, InString, InString)
  /\ RunsFrom(<<"\\">>, InString, Escaped) /\ RunsFrom(<<>>, InString, InString)
  /\ RunsFrom(<<"\\">>, Escaped, InString) /\ RunsFrom(<<"quote">>, Escaped, InString)
  /\ RunsFrom(<<"x">>, Clear, Clear) /\ RunsFrom(<<"nl">>, Clear, Clear) /\ RunsFrom(<<"tab">>, Clear, Clear)
  /\ RunsFrom(<<"open">>, Clear, Deeper(Clear)) /\ RunsFrom(<<"close">>, Deeper(Clear), Clear)
<1> DEFINE p == InString
           e == Escaped
           o == Clear
           d == Deeper(o)
<1>1. p \in ScanStates /\ p.quoted /\ ~p.escaped /\ p.depth = 0 /\ p.depth \in Nat
  BY DEF InString, ScanStates
<1>2. e \in ScanStates /\ e.quoted /\ e.escaped /\ e.depth = 0 /\ e.depth \in Nat
  BY DEF Escaped, ScanStates
<1>3. o \in ScanStates /\ ~o.quoted /\ o.escaped = FALSE /\ o.depth = 0 /\ o.depth \in Nat
  BY DEF Clear, ScanStates
<1>4. d \in ScanStates /\ d.quoted = o.quoted /\ d.depth = o.depth + 1
  BY <1>3, ScanDeeper
<1>5. d.escaped = o.escaped
  BY <1>3 DEF Deeper, ScanStates
<1>6. p = [quoted |-> TRUE, escaped |-> FALSE, depth |-> 0] /\ e = [quoted |-> TRUE, escaped |-> TRUE, depth |-> 0]
  BY DEF InString, Escaped
<1>7. o = [quoted |-> FALSE, escaped |-> FALSE, depth |-> 0]
  BY DEF Clear
<1>8. {"quote", "open", "close", "\\", "x", "nl", "tab"} \subseteq Glyphs
  BY DEF Glyphs, Marks
<1> HIDE DEF d, p, e, o
<1>9. Scan(o, "quote") = p
  BY <1>3, <1>6, ScanCases
<1>10. Scan(p, "quote") = o
  BY <1>1, <1>6, <1>7, ScanCases, Zenon
<1>11. Scan(p, "open") = p /\ Scan(p, "close") = p
  BY <1>1, <1>6, ScanCases, Zenon
<1>12. Scan(p, "\\") = e
  BY <1>1, <1>6, ScanCases, Zenon
<1>13. Scan(e, "\\") = p /\ Scan(e, "quote") = p
  BY <1>2, <1>6, ScanCases, Zenon
<1>14. Scan(o, "x") = o /\ Scan(o, "nl") = o /\ Scan(o, "tab") = o
  <2>1. ASSUME NEW c, c \notin {"quote", "open", "close"} PROVE Scan(o, c) = o
    <3>1. Scan(o, c) = [quoted |-> FALSE, escaped |-> o.escaped, depth |-> o.depth]
      BY <1>3, <2>1, ScanCases
    <3> QED
      BY <1>3, <1>7, <3>1
  <2> QED
    BY <2>1
<1>15. Scan(o, "open") = d
  BY ScanOfPieces DEF o, d
<1>16. Scan(d, "close") = o
  <2>1. Scan(d, "close") = [quoted |-> FALSE, escaped |-> d.escaped, depth |-> d.depth - 1]
    BY <1>3, <1>4, ScanCases
  <2> QED
    BY <1>3, <1>4, <1>5, <1>7, <2>1
<1>17. d.depth \in Nat
  BY <1>3, <1>4
<1>18. RunsFrom(<<"quote">>, o, p) /\ RunsFrom(<<"quote">>, p, o)
  BY <1>1, <1>3, <1>8, <1>9, <1>10, RunOfPiece
<1>19. RunsFrom(<<"open">>, p, p) /\ RunsFrom(<<"close">>, p, p) /\ RunsFrom(<<"\\">>, p, e) /\ RunsFrom(<<>>, p, p)
  BY <1>1, <1>2, <1>8, <1>11, <1>12, RunOfPiece, RunOfNothing
<1>20. RunsFrom(<<"\\">>, e, p) /\ RunsFrom(<<"quote">>, e, p)
  BY <1>1, <1>2, <1>8, <1>13, RunOfPiece
<1>21. RunsFrom(<<"x">>, o, o) /\ RunsFrom(<<"nl">>, o, o) /\ RunsFrom(<<"tab">>, o, o)
  BY <1>3, <1>8, <1>14, RunOfPiece
<1>22. RunsFrom(<<"open">>, o, d) /\ RunsFrom(<<"close">>, d, o)
  BY <1>3, <1>4, <1>8, <1>15, <1>16, <1>17, RunOfPiece
<1> QED
  BY <1>18, <1>19, <1>20, <1>21, <1>22 DEF p, e, o, d

Matched(q) == RunsFrom(q, Clear, Clear)

LEMMA StringsAreWhole == \A q \in Strings : Matched(q)
<1> DEFINE Quoted(s) == <<"quote">> \o s \o <<"quote">>
           p == InString
           esc == <<"\\">>
           quote == <<"quote">>
           brace == <<"close">>
<1>1. ASSUME NEW s, RunsFrom(s, p, p) PROVE Matched(Quoted(s))
  <2>1. RunsFrom(Join(quote, s), Clear, p)
    BY <1>1, StringSteps, RunOfBoth
  <2>2. RunsFrom(Join(Join(quote, s), quote), Clear, Clear)
    BY <2>1, StringSteps, RunOfBoth
  <2> QED
    BY ONLY <2>2, Zenon DEF Matched, Join
<1>2. RunsFrom(<<"\\", "quote", "close">>, p, p)
  <2>1. RunsFrom(Join(esc, quote), p, p)
    BY StringSteps, RunOfBoth
  <2>2. RunsFrom(Join(Join(esc, quote), brace), p, p)
    BY <2>1, StringSteps, RunOfBoth
  <2>3. <<"\\", "quote">> = Join(esc, quote)
    BY TwoPieces
  <2>4. <<"\\", "quote", "close">> = Join(<<"\\", "quote">>, brace)
    BY ThreePieces
  <2> QED
    BY ONLY <2>2, <2>3, <2>4, Zenon
<1>3. RunsFrom(<<"\\", "\\">>, p, p)
  <2>1. RunsFrom(Join(esc, esc), p, p)
    BY StringSteps, RunOfBoth
  <2> QED
    BY ONLY <2>1, TwoPieces, Zenon
<1>4. RunsFrom(<<>>, p, p) /\ RunsFrom(<<"open">>, p, p) /\ RunsFrom(<<"close">>, p, p)
  BY StringSteps
<1>5. ASSUME NEW q \in Strings
      PROVE  \E s \in {<<>>, <<"open">>, <<"close">>, <<"\\", "quote", "close">>, <<"\\", "\\">>} : q = Quoted(s)
  BY DEF Strings
<1> HIDE DEF Quoted, p
<1> QED
  BY <1>1, <1>2, <1>3, <1>4, <1>5

LEMMA SimpleIsWhole == \A q \in Simple : Matched(q)
<1>1. Matched(<<"x">>) /\ Matched(<<"nl">>)
  BY StringSteps DEF Matched
<1>2. Matched(<<"nl", "tab">>)
  <2>1. RunsFrom(Join(<<"nl">>, <<"tab">>), Clear, Clear)
    BY StringSteps, RunOfBoth
  <2> QED
    BY ONLY <2>1, TwoPieces, Zenon DEF Matched
<1> QED
  BY <1>1, <1>2, StringsAreWhole DEF Simple

LEMMA BracesAreWhole ==
  ASSUME NEW s, Matched(s)
  PROVE  Matched(<<"open">> \o s \o <<"close">>)
<1> DEFINE open == <<"open">>
           close == <<"close">>
<1>1. RunsFrom(s, Deeper(Clear), Deeper(Clear))
  BY RunIsDeeper DEF Matched
<1>2. RunsFrom(Join(open, s), Clear, Deeper(Clear))
  BY <1>1, StringSteps, RunOfBoth
<1>3. RunsFrom(Join(Join(open, s), close), Clear, Clear)
  BY <1>2, StringSteps, RunOfBoth
<1> QED
  BY ONLY <1>3, Zenon DEF Matched, Join

LEMMA ItemsAreWhole == \A q \in Items : Matched(q)
<1>1. \A q \in Nested : Matched(q)
  <2>1. ASSUME NEW s \in Simple PROVE Matched(<<"open">> \o s \o <<"close">>)
    BY SimpleIsWhole, BracesAreWhole
  <2> QED
    BY <2>1, Zenon DEF Nested
<1>2. ASSUME NEW s \in Nested PROVE Matched(<<"open">> \o s \o <<"nl", "tab", "close">>)
  <2> DEFINE lead == <<"nl", "tab">>
             open == <<"open">>
             close == <<"close">>
  <2>1. Matched(s) /\ Matched(lead)
    BY <1>1, SimpleIsWhole DEF Simple
  <2>2. Matched(Join(s, lead))
    BY <2>1, RunOfBoth DEF Matched
  <2>3. Matched(open \o Join(s, lead) \o close)
    BY <2>2, BracesAreWhole
  <2>4. <<"nl", "tab", "close">> = Join(lead, close)
    BY ThreePieces
  <2>5. Join(Join(open, Join(s, lead)), close) = Join(Join(open, s), Join(lead, close))
    <3>1. s \in Seq(Glyphs) /\ lead \in Seq(Glyphs) /\ open \in Seq(Glyphs) /\ close \in Seq(Glyphs)
      BY <2>1 DEF Matched, RunsFrom, Glyphs, Marks
    <3>2. Join(open, s) \in Seq(Glyphs)
      BY <3>1, SolidOfJoin, Zenon
    <3> HIDE DEF open, close, lead
    <3>3. Join(open, Join(s, lead)) = Join(Join(open, s), lead)
      BY ONLY <3>1, JoinTwice
    <3>4. Join(Join(open, s), Join(lead, close)) = Join(Join(Join(open, s), lead), close)
      BY ONLY <3>1, <3>2, JoinTwice
    <3> QED
      BY ONLY <3>3, <3>4, Zenon
  <2> QED
    BY ONLY <2>3, <2>4, <2>5, Zenon DEF Join
<1> QED
  BY <1>1, <1>2, SimpleIsWhole, Zenon DEF Items

FlatNext(h, s, i) == IF i = 1 THEN s[i] ELSE h[i - 1] \o s[i]

LEMMA FlatExists ==
  ASSUME NEW s, NEW n \in Nat
  PROVE  \E h : h = [i \in 1..n |-> FlatNext(h, s, i)]
<1> DEFINE Upto(h, m) == h = [k \in 1..n |-> h[k]] /\ \A k \in 1..m : h[k] = FlatNext(h, s, k)
           G == {m \in 0..n : \E h : Upto(h, m)}
<1>1. 0 \in G
  <2> DEFINE h == [k \in 1..n |-> <<>>]
  <2>1. Upto(h, 0)
    OBVIOUS
  <2> HIDE DEF h
  <2> QED
    BY <2>1
<1>2. ASSUME NEW m \in 1..n, m - 1 \in G PROVE m \in G
  <2>1. PICK h : Upto(h, m - 1)
    BY <1>2
  <2> DEFINE g == [k \in 1..n |-> IF k <= m - 1 THEN h[k] ELSE FlatNext(h, s, k)]
  <2>2. g = [k \in 1..n |-> g[k]]
    OBVIOUS
  <2>3. ASSUME NEW k \in 1..m PROVE g[k] = FlatNext(g, s, k)
    <3>1. g[k] = FlatNext(h, s, k)
      BY <2>1
    <3>2. k # 1 => g[k - 1] = h[k - 1]
      OBVIOUS
    <3> QED
      BY <3>1, <3>2 DEF FlatNext
  <2> HIDE DEF g
  <2>4. Upto(g, m)
    BY <2>2, <2>3
  <2> QED
    BY <2>4
<1>3. n \in G
  <2> HIDE DEF G
  <2> QED
    BY <1>1, <1>2, UpTo
<1>4. PICK h : Upto(h, n)
  BY <1>3
<1>5. h = [k \in 1..n |-> FlatNext(h, s, k)]
  BY <1>4
<1> QED
  BY <1>5

LEMMA BodiesAreMatched == \A q \in Bodies : Matched(q)
<1> SUFFICES ASSUME NEW n \in Nat, NEW s \in [1..n -> Items] PROVE Matched(FlattenSeq(s))
  BY DEF Bodies, SeqOf
<1>1. Len(s) = n /\ s \in Seq(Items)
  OBVIOUS
<1>2. CASE n = 0
  <2>1. s = <<>>
    BY <1>1, <1>2
  <2>2. Matched(<<>>)
    <3>1. Clear \in ScanStates /\ Clear.depth \in Nat
      BY DEF Clear, ScanStates
    <3> QED
      BY <3>1, RunOfNothing DEF Matched
  <2>3. FlattenSeq(s) = s
    BY ONLY <1>1, <1>2, Zenon DEF FlattenSeq
  <2> QED
    BY ONLY <2>1, <2>2, <2>3, Zenon
<1>3. CASE n # 0
  <2> DEFINE flat == CHOOSE h : h = [i \in 1..n |-> FlatNext(h, s, i)]
  <2>1. flat = [i \in 1..n |-> FlatNext(flat, s, i)]
    BY FlatExists
  <2>2. FlattenSeq(s) = flat[n]
    <3>1. FlattenSeq(s) = IF Len(s) = 0 THEN s ELSE (CHOOSE h : h = [i \in 1..Len(s) |-> FlatNext(h, s, i)])[Len(s)]
      BY DEF FlattenSeq, FlatNext
    <3> QED
      BY ONLY <1>1, <1>3, <3>1, Zenon
  <2> HIDE DEF flat
  <2> DEFINE G == {k \in 0..n : k = 0 \/ Matched(flat[k])}
  <2>3. \A k \in 1..n : flat[k] = FlatNext(flat, s, k) /\ Matched(s[k])
    BY <2>1, ItemsAreWhole
  <2>4. ASSUME NEW k \in 1..n, k - 1 \in G PROVE k \in G
    <3>1. CASE k = 1
      BY <2>3, <3>1 DEF FlatNext
    <3>2. CASE k # 1
      <4>1. flat[k] = Join(flat[k - 1], s[k])
        BY <2>3, <3>2, Zenon DEF FlatNext, Join
      <4>2. Matched(flat[k - 1]) /\ Matched(s[k])
        BY <2>3, <2>4, <3>2
      <4>3. Matched(Join(flat[k - 1], s[k]))
        BY ONLY <4>2, RunOfBoth DEF Matched
      <4> QED
        BY <4>1, <4>3
    <3> QED
      BY <3>1, <3>2
  <2>5. 0 \in G
    OBVIOUS
  <2>6. n \in G
    <3> HIDE DEF G
    <3> QED
      BY <2>4, <2>5, UpTo
  <2> QED
    BY <1>3, <2>2, <2>6
<1> QED
  BY <1>2, <1>3

LEMMA TextsAre == \A t \in Texts : Editable(t)
<1> SUFFICES ASSUME NEW t \in Texts PROVE Editable(t)
  OBVIOUS
<1>1. /\ t.pre \in {<<>>, <<"x", "nl">>, <<"header", "x", "open", "close", "nl">>}
      /\ t.indent \in {<<>>, <<"tab">>} /\ t.body \in Bodies
      /\ t.post \in {<<>>, <<"nl", "close">>, <<"nl", "header", "open", "close">>}
  BY DEF Texts
<1>2. {"x", "nl", "header", "open", "close", "tab"} \subseteq Glyphs
  BY DEF Glyphs, Marks
<1>3. t.body \in Seq(Glyphs) /\ Balanced(t.body)
  BY <1>1, BodiesAreMatched DEF Matched, RunsFrom, Balanced
<1>4. t.indent \in Seq(Glyphs) /\ \A i \in 1..Len(t.indent) : t.indent[i] = "tab"
  <2>1. CASE t.indent = <<>>
    BY <2>1
  <2>2. CASE t.indent = <<"tab">>
    BY <1>2, <2>2
  <2> QED
    BY <1>1, <2>1, <2>2
<1>5. t.post \in Seq(Glyphs)
  <2>1. <<>> \in Seq(Glyphs) /\ <<"nl", "close">> \in Seq(Glyphs) /\ <<"nl", "header", "open", "close">> \in Seq(Glyphs)
    BY <1>2
  <2> QED
    BY <1>1, <2>1, Zenon
<1>6. /\ t.pre \in Seq(Glyphs)
      /\ t.pre # <<>> => t.pre[Len(t.pre)] = "nl"
      /\ \A i \in 1..(Len(t.pre) - 1) : ~(t.pre[i] = "header" /\ t.pre[i + 1] = "open")
  <2>1. CASE t.pre = <<>>
    BY <2>1
  <2>2. CASE t.pre = <<"x", "nl">>
    <3>1. t.pre \in Seq(Glyphs) /\ Len(t.pre) = 2 /\ t.pre[1] = "x" /\ t.pre[2] = "nl"
      BY <1>2, <2>2
    <3> QED
      BY ONLY <3>1
  <2>3. CASE t.pre = <<"header", "x", "open", "close", "nl">>
    <3>1. /\ t.pre \in Seq(Glyphs) /\ Len(t.pre) = 5 /\ t.pre[2] = "x" /\ t.pre[3] = "open"
          /\ t.pre[4] = "close" /\ t.pre[5] = "nl"
      BY <1>2, <2>3
    <3> QED
      BY ONLY <3>1
  <2> QED
    BY <1>1, <2>1, <2>2, <2>3
<1>7. \E S : {t.pre, t.indent, t.body, t.post} \subseteq Seq(S)
  <2>1. {t.pre, t.indent, t.body, t.post} \subseteq Seq(Glyphs)
    BY <1>3, <1>4, <1>5, <1>6
  <2> QED
    BY ONLY <2>1
<1> QED
  BY <1>3, <1>4, <1>6, <1>7 DEF Editable

(* What the run shows of the edits: of any file that ends the strings and  *)
(* matches the braces of the block.                                        *)
THEOREM EditsHold == Spec => []EditsStayInBlock
<1> DEFINE new == <<"x", "open", "close">>
<1>1. ASSUME InputInv, input.kind = "text"
      PROVE  BlockIsLocated(input) /\ ReplacesBlockOnly(input, new) /\ AppendsToBlock(input, new)
  <2>1. Editable(input)
    BY <1>1, TextsAre DEF InputInv
  <2>2. \E S : new \in Seq(S)
    <3>1. new \in Seq({"x", "open", "close"})
      OBVIOUS
    <3> QED
      BY <3>1, Zenon
  <2> QED
    BY ONLY <2>1, <2>2, EditsAreLocal, Zenon
<1>2. InputInv => EditsStayInBlock
  BY ONLY <1>1, Zenon DEF EditsStayInBlock
<1> QED
  BY <1>2, InputKinds, PTL
=============================================================================
