----------------------------- MODULE HclConfig ------------------------------
(***************************************************************************)
(* How the resolver (internal/infra/hclresolver/resolver.go) evaluates the *)
(* locals of a terragrunt file, which may use each other, and the files    *)
(* that read_terragrunt_config and include blocks lead to, which may lead  *)
(* back.  Values are abstracted to whether, and from what, they are found. *)
(***************************************************************************)
EXTENDS Integers, FiniteSets, SequencesExt

(***************************************************************************)
(* evaluateLocals: uses[a] are the locals that the expression of a uses;   *)
(* the expressions of "broken" have errors of their own.                   *)
(***************************************************************************)

(* Mutant: the last local waits for a pass that does not come. *)
PassesShort(n) == IF n > 1 THEN n - 1 ELSE n

Passes(n) == n + 2

(* Every pass sees the values of the passes before.  (One that finds       *)
(* nothing is the last; those behind it would find nothing, either.)       *)
AfterPasses(n, uses, broken) ==
  LET After[k \in 0..n] ==
        IF k = 0 THEN {}
        ELSE After[k - 1] \cup {a \in (DOMAIN uses) \ broken : uses[a] \subseteq After[k - 1]}
  IN  After[n]

EvaluatedLocals(uses, broken) ==
  IF DOMAIN uses = {} THEN {} ELSE AfterPasses(Passes(Cardinality(DOMAIN uses)), uses, broken)

(***************************************************************************)
(* evaluateTerragruntConfig: reads[f] are the files that f reads, and      *)
(* includes[f] those it includes, whose locals are evaluated in its place  *)
(* and may read others.  The stack of the files under way is one map that  *)
(* all calls share.  What a file is made of is given by the chains of      *)
(* reads that its evaluation followed.                                     *)
(***************************************************************************)

ReadsOf(f, reads, includes) == UNION {reads[g] : g \in {f} \cup includes[f]}

(* Mutant: a file that has been evaluated stays on the stack. *)
StayOn(stack, f) == stack

Leave(stack, f) == stack \ {f}

Config(file, reads, includes) ==
  LET Evaluate[stack \in SUBSET DOMAIN reads] == [f \in DOMAIN reads |->
        LET Read[rs \in SUBSET ReadsOf(f, reads, includes)] ==
              IF rs = {} THEN [chains |-> {<<f>>}, stack |-> stack \cup {f}]
              ELSE LET r == CHOOSE r \in rs : TRUE
                       s == Read[rs \ {r}]
                       c == Evaluate[s.stack][r]
                   IN  [chains |-> s.chains \cup {<<f>> \o d : d \in c.chains}, stack |-> c.stack]
            all == Read[ReadsOf(f, reads, includes)]
        IN  IF f \in stack THEN [chains |-> {}, stack |-> stack]
            ELSE [chains |-> all.chains, stack |-> Leave(all.stack, f)]]
  IN  Evaluate[{}][file]

-----------------------------------------------------------------------------
(* What a local needs, directly or not. *)
Needs(a, uses) ==
  CHOOSE s \in SUBSET DOMAIN uses :
    /\ uses[a] \subseteq s /\ \A b \in s : uses[b] \subseteq s
    /\ \A t \in SUBSET s : uses[a] \subseteq t /\ (\A b \in t : uses[b] \subseteq t) => s \subseteq t

(* A local has a value exactly if its expression is sound and it needs     *)
(* neither a broken one nor one that needs itself: the number of passes    *)
(* cuts off no chain of locals, however long, in any order of the file.    *)
LocalsAreComplete(uses, broken) ==
  EvaluatedLocals(uses, broken) =
    {a \in DOMAIN uses : \A b \in {a} \cup Needs(a, uses) : b \notin broken \cup Needs(b, uses)}

(* A file that several others read is evaluated as a whole for each of     *)
(* them, and files that read each other are followed until a chain comes   *)
(* back to a file it went through: every other chain of reads is followed. *)
ConfigIsWhole(f, reads, includes) ==
  Config(f, reads, includes).chains =
    {c \in UNION {[1..n -> DOMAIN reads] : n \in 1..Cardinality(DOMAIN reads)} :
       /\ c[1] = f /\ IsInjective(c)
       /\ \A i \in 1..(Len(c) - 1) : c[i + 1] \in ReadsOf(c[i], reads, includes)}
=============================================================================
