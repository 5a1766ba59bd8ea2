------------------------- MODULE InfraExecutorProofs -------------------------
(* Theorems about InfraExecutor. *)
EXTENDS InfraExecutor, TLAPS

Active(r)   == pc[r] \notin {"start", "end"}
Working(r)  == pc[r] \notin {"start", "worktree", "prune", "delete", "rmdir", "end"}

(* From here on the run is on the branch of its plan. *)
OnBranch(r) ==
  \/ pc[r] \in {"add", "commit", "push", "pr"}
  \/ Isolated(r) /\ pc[r] \in {"changed", "fmt"}

CheckoutSteps == {"start", "ask", "edit", "fmt", "checkout", "add", "commit", "push", "pr", "end"}
WorktreeSteps == {"start", "worktree", "refine", "branch", "changed", "fmt", "add", "commit",
                  "push", "pr", "remove", "prune", "delete", "rmdir", "end"}

(* The checkout belongs to at most one run in place. *)
Exclusive ==
  \A r, s \in Runs : ~Isolated(r) /\ ~Isolated(s) /\ Active(r) /\ Active(s) => r = s

(* What is checked out somewhere exists, and is checked out nowhere else:  *)
(* no run can rename, commit to or delete the branch another is on.        *)
Heads ==
  \A p \in Places : tree[p] # None =>
    /\ Exists(tree[p].head)
    /\ \A q \in Places : tree[q] # None /\ tree[q].head = tree[p].head => q = p

(* Where a run in place or in a worktree is, and which of its worktree,    *)
(* its directory and its temporary branch there are, at each of its steps. *)
CheckoutRun(r) ==
  ~Isolated(r) =>
    /\ pc[r] \in CheckoutSteps
    /\ tree[r] = None /\ ~Exists(r) /\ r \notin dirs

WorktreeRun(r) ==
  Isolated(r) =>
    /\ pc[r] \in WorktreeSteps
    /\ effective[r] = plan[r]
    /\ pc[r] \in {"start", "worktree"} => tree[r] = None /\ ~Exists(r) /\ r \notin dirs
    /\ Working(r) => tree[r] # None /\ r \in dirs
    /\ pc[r] = "refine" => tree[r].head = r
    /\ Exists(r) => temp[r] \/ r \in strayed \/ r \in unclean

BranchRun(r) == OnBranch(r) => Here(r).head = effective[r].branch

(* What is left when each command of Cleanup has done its work. *)
EndedRun(r) ==
  r \notin unclean /\ result[r] # "killed" =>
    /\ pc[r] \in {"prune", "delete", "rmdir", "end"} => tree[r] = None /\ r \notin dirs
    /\ pc[r] \in {"rmdir", "end"} /\ r \notin strayed => ~Exists(r)

RunInv(r) == CheckoutRun(r) /\ WorktreeRun(r) /\ BranchRun(r) /\ EndedRun(r)

IInv == TypeOK /\ Exclusive /\ Heads /\ \A r \in Runs : RunInv(r)

(* What is in the place of a run, and in its commit, is its own. *)
OwnTree(t, r) == \A c \in t.dirty \cup t.index : c[2] \in {r, "fmt"}

OwnWork ==
  \A r \in Runs :
    /\ Isolated(r) /\ tree[r] # None => OwnTree(tree[r], r)
    /\ ~Isolated(r) /\ Active(r) => OwnTree(tree[Base], r)
    /\ \A c \in delta[r] : c[2] \in {r, "fmt"}

(* Where the commit of a run is. *)
Published ==
  /\ \A r \in Runs :
       /\ pc[r] \in {"push", "pr"} => commit[r] # None /\ commit[r] \subseteq branch[effective[r].branch]
       /\ pc[r] = "pr" => remote[effective[r].branch] # None /\ commit[r] \subseteq remote[effective[r].branch]
  /\ \A p \in pulls :
       /\ pc[p.run] \in CleanupSteps \cup {"end"}
       /\ commit[p.run] # None /\ commit[p.run] \subseteq p.changes
-----------------------------------------------------------------------------
(* What a step of one run leaves alone: the other runs, what they or the   *)
(* operator have checked out and the branches it is on.  A worktree goes   *)
(* off git's list only when its directory is gone.                         *)
Aside(s) ==
  /\ pc'[s] = pc[s] /\ effective'[s] = effective[s] /\ temp'[s] = temp[s]
  /\ result'[s] = result[s]
  /\ s \in dirs' <=> s \in dirs
  /\ s \in unclean' <=> s \in unclean
  /\ s \in strayed' <=> s \in strayed
  /\ ~Exists(s) => branch'[s] = None

PlaceLeft(p) ==
  /\ tree'[p] = tree[p] \/ (p \in Runs \ dirs /\ tree'[p] = None)
  /\ tree[p] # None => branch'[tree[p].head] = branch[tree[p].head]

Effect(r) ==
  /\ mode' = mode /\ plan' = plan
  /\ \A s \in Runs \ {r} : Aside(s)
  /\ \A p \in Places : p # Place(r) \/ ~Active(r) => PlaceLeft(p)

(* A working run has a place to work in. *)
LEMMA PlaceIsTree ==
  ASSUME IInv, NEW r \in Runs, Working(r)
  PROVE  Here(r) \in Trees /\ Here(r) # None /\ Place(r) \in Places
<1>1. tree[Base] \in Trees /\ tree \in [Places -> Trees \cup {None}]
  BY DEF IInv, TypeOK
<1>2. CASE Isolated(r)
  <2>1. tree[r] # None
    BY <1>2 DEF IInv, RunInv, WorktreeRun
  <2> QED BY <1>1, <1>2, <2>1 DEF Here, Place, Places
<1>3. CASE ~Isolated(r)
  BY <1>1, <1>3, NoneAssumption DEF Here, Place, Places
<1> QED BY <1>2, <1>3

(* The other runs keep their places, where they are active. *)
LEMMA OtherPlace ==
  ASSUME IInv, NEW r \in Runs, Effect(r), NEW s \in Runs \ {r}
  PROVE  /\ tree'[s] # None => tree'[s] = tree[s]
         /\ s \in dirs => tree'[s] = tree[s]
         /\ ~Isolated(s) /\ Active(s) => tree'[Base] = tree[Base]
         /\ Active(s) /\ Here(s) # None => branch'[Here(s).head] = branch[Here(s).head]
<1>1. s \in Places /\ s # Place(r) /\ Base \in Places /\ Base \notin Runs
  BY InfraAssumption DEF Place, Places
<1>2. PlaceLeft(s)
  BY <1>1 DEF Effect
<1>3. ~Isolated(s) /\ Active(s) => PlaceLeft(Base)
  BY <1>1 DEF Effect, IInv, Exclusive, Place
<1> QED BY <1>1, <1>2, <1>3 DEF PlaceLeft, Here, Place

LEMMA OthersKeepInvariant ==
  ASSUME IInv, NEW r \in Runs, Effect(r), NEW s \in Runs \ {r}
  PROVE  RunInv(s)'
<1>1. RunInv(s) /\ Aside(s) /\ mode' = mode /\ plan' = plan
  BY DEF IInv, Effect
<1>2. /\ tree'[s] # None => tree'[s] = tree[s]
      /\ s \in dirs => tree'[s] = tree[s]
      /\ ~Isolated(s) /\ Active(s) => tree'[Base] = tree[Base]
  BY OtherPlace
<1>3. CheckoutRun(s)'
  BY <1>1, <1>2 DEF RunInv, CheckoutRun, Aside, Isolated, Exists
<1>4. WorktreeRun(s)'
  BY <1>1, <1>2 DEF RunInv, WorktreeRun, Aside, Isolated, Working, Exists
<1>5. BranchRun(s)'
  <2>1. CASE Isolated(s) /\ OnBranch(s)
    <3>1. s \in dirs
      BY <1>1, <2>1 DEF RunInv, WorktreeRun, OnBranch, Working
    <3> QED BY <1>1, <1>2, <2>1, <3>1 DEF RunInv, BranchRun, OnBranch, Aside, Isolated, Here, Place
  <2>2. CASE ~Isolated(s) /\ OnBranch(s)
    BY <1>1, <1>2, <2>2 DEF RunInv, BranchRun, OnBranch, Active, Aside, Isolated, Here, Place
  <2>3. CASE ~OnBranch(s)
    BY <1>1, <2>3 DEF BranchRun, OnBranch, Aside, Isolated
  <2> QED BY <2>1, <2>2, <2>3
<1>6. EndedRun(s)'
  BY <1>1, <1>2 DEF RunInv, EndedRun, Aside, Exists
<1> QED BY <1>3, <1>4, <1>5, <1>6 DEF RunInv

(* A step keeps branches checked out once if it does where it works. *)
LEMMA HeadsKept ==
  ASSUME IInv, NEW r \in Runs, Effect(r),
         Active(r) /\ tree'[Place(r)] # None =>
           /\ branch'[tree'[Place(r)].head] # None
           /\ \A p \in Places \ {Place(r)} : tree[p] # None => tree[p].head # tree'[Place(r)].head
  PROVE  Heads'
<1>1. ASSUME NEW p \in Places, tree'[p] # None, p # Place(r) \/ ~Active(r)
      PROVE  tree'[p] = tree[p] /\ branch'[tree[p].head] # None
  <2>1. PlaceLeft(p)
    BY <1>1 DEF Effect
  <2> QED BY <1>1, <2>1 DEF PlaceLeft, IInv, Heads, Exists
<1> SUFFICES ASSUME NEW p \in Places, tree'[p] # None
             PROVE  /\ branch'[tree'[p].head] # None
                    /\ \A q \in Places : tree'[q] # None /\ tree'[q].head = tree'[p].head => q = p
  BY DEF Heads, Exists, Places
<1>2. CASE p # Place(r) \/ ~Active(r)
  BY <1>1, <1>2 DEF IInv, Heads
<1>3. CASE p = Place(r) /\ Active(r)
  BY <1>1, <1>3
<1> QED BY <1>2, <1>3

(* The invariant holds initially. *)
LEMMA InitInv == Init => IInv
<1> SUFFICES ASSUME Init PROVE IInv
  OBVIOUS
<1> USE InfraAssumption, NoneAssumption DEF Init
<1>1. TypeOK
  <2>1. tree \in [Places -> Trees \cup {None}] /\ tree[Base] \in Trees
    BY DEF Places, Trees, BranchNames
  <2>2. branch \in [BranchNames -> (SUBSET Changes) \cup {None}]
    BY DEF BranchNames
  <2> QED BY <2>1, <2>2 DEF TypeOK, Steps, Results
<1>2. Exclusive
  BY DEF Exclusive, Active
<1>3. Heads
  <2>1. {} # None
    BY DEF Changes
  <2> QED BY <2>1 DEF Heads, Exists, BranchNames, Places
<1>4. ASSUME NEW r \in Runs PROVE RunInv(r)
  <2>1. tree[r] = None /\ branch[r] = None
    BY DEF Places, BranchNames
  <2> QED BY <2>1 DEF RunInv, CheckoutRun, WorktreeRun, BranchRun, EndedRun, OnBranch, Working,
                      Exists, CheckoutSteps, WorktreeSteps
<1> QED BY <1>1, <1>2, <1>3, <1>4 DEF IInv
-----------------------------------------------------------------------------
(* What is shown of every step of a run. *)
Kept(r) == TypeOK' /\ Effect(r) /\ RunInv(r)' /\ Exclusive' /\ Heads'

(* A step of a run that is under way takes the checkout from nobody. *)
LEMMA ExclusiveKept == ASSUME IInv, NEW r \in Runs, Active(r), Effect(r) PROVE Exclusive'
<1>1. \A s \in Runs : s # r => pc'[s] = pc[s]
  BY DEF Effect, Aside
<1> QED BY <1>1 DEF IInv, Exclusive, Active, Effect, Isolated

(* Apply returns: to the deferred Cleanup if there is a worktree. *)
LEMMA ReturnKeepsInvariant ==
  ASSUME IInv, NEW r \in Runs, NEW res, Return(r, res),
         res \in {"ok", "refused", "failed", "panicked"},
         pc[r] \notin CleanupSteps \cup {"worktree", "end"},
         UNCHANGED <<mode, plan, effective, tree, branch, temp, disk>>
  PROVE  /\ pc' \in [Runs -> Steps]
         /\ result' \in [Runs -> Results]
         /\ Effect(r) /\ RunInv(r)' /\ Exclusive' /\ Heads'
<1>1. RunInv(r) /\ Exclusive /\ Heads /\ TypeOK
  BY DEF IInv
<1>2. /\ pc'[r] = IF tree[r] = None THEN "end" ELSE "remove"
      /\ pc' = [pc EXCEPT ![r] = pc'[r]]
      /\ result' = [result EXCEPT ![r] = res]
      /\ UNCHANGED <<dirs, unclean, strayed>>
  BY <1>1 DEF Return, TypeOK, disk
<1>3. /\ pc' \in [Runs -> Steps]
      /\ result' \in [Runs -> Results]
  BY <1>1, <1>2 DEF TypeOK, Steps, Results, CleanupSteps
<1>4. Effect(r)
  BY <1>1, <1>2 DEF Effect, Aside, PlaceLeft, TypeOK, Exists
<1>5. RunInv(r)'
  <2>1. tree[r] = None => ~Exists(r) /\ r \notin dirs
    BY <1>1 DEF RunInv, CheckoutRun, WorktreeRun, Working, WorktreeSteps, CleanupSteps
  <2>2. CheckoutRun(r)'
    BY <1>1, <1>2 DEF RunInv, CheckoutRun, Isolated, CheckoutSteps, Exists
  <2>3. tree[r] # None => Isolated(r) /\ Working(r)
    BY <1>1 DEF RunInv, CheckoutRun, WorktreeRun, Working, CleanupSteps
  <2>4. WorktreeRun(r)'
    BY <1>1, <1>2, <2>3 DEF RunInv, WorktreeRun, Isolated, Working, WorktreeSteps, Exists
  <2>5. BranchRun(r)' /\ EndedRun(r)'
    BY <1>2, <2>1 DEF BranchRun, EndedRun, OnBranch, Exists
  <2> QED BY <2>2, <2>4, <2>5 DEF RunInv
<1>6. Exclusive'
  BY <1>1, <1>2, <1>3 DEF Exclusive, Active, Isolated, TypeOK, RunInv, CheckoutRun
<1>7. Heads'
  BY <1>1 DEF Heads, Exists, Places
<1> QED BY <1>3, <1>4, <1>5, <1>6, <1>7

LEMMA CheckKeeps == ASSUME IInv, NEW r \in Runs, MayStart(r), Check(r) PROVE Kept(r)
<1>1. RunInv(r) /\ Exclusive /\ Heads /\ TypeOK
  BY DEF IInv
<1>2. CASE Goto(r, "start", FirstStep(r)) /\ UNCHANGED result
  <2>1. \/ FirstStep(r) = "worktree" /\ Isolated(r)
        \/ FirstStep(r) \in {"ask", "edit"} /\ ~Isolated(r)
    BY <1>1, InfraAssumption DEF FirstStep, Isolated, TypeOK
  <2>2. pc[r] = "start" /\ pc' = [pc EXCEPT ![r] = FirstStep(r)] /\ pc'[r] = FirstStep(r)
    BY <1>1, <1>2 DEF Goto, TypeOK
  <2>3. UNCHANGED <<mode, plan, effective, tree, branch, remote, pulls, applied, temp, commit, delta,
                    result, dirs, unclean, strayed>>
    BY <1>2 DEF Check, repo, disk
  <2>4. TypeOK'
    BY <1>1, <2>1, <2>2, <2>3 DEF TypeOK, Steps, Results
  <2>5. Effect(r)
    BY <1>1, <2>2, <2>3 DEF Effect, Aside, PlaceLeft, TypeOK, Exists
  <2>6. RunInv(r)'
    BY <1>1, <2>1, <2>2, <2>3
    DEF RunInv, CheckoutRun, WorktreeRun, BranchRun, EndedRun, OnBranch, Isolated, Working,
        CheckoutSteps, WorktreeSteps, Exists
  <2>7. Exclusive'
    <3>1. ~Isolated(r) => \A s \in Runs : ~Isolated(s) => ~Active(s)
      BY DEF MayStart, InUse, Active
    <3> QED BY <1>1, <2>1, <2>2, <2>3, <3>1 DEF Exclusive, Active, Isolated, TypeOK
  <2>8. Heads'
    BY <1>1, <2>3 DEF Heads, Exists, Places
  <2> QED BY <2>4, <2>5, <2>6, <2>7, <2>8 DEF Kept
<1>3. CASE Return(r, "refused")
  <2>1. /\ pc[r] = "start"
        /\ UNCHANGED <<mode, plan, effective, tree, branch, remote, pulls, applied, temp, commit, delta, disk>>
    BY DEF Check, repo
  <2>2. /\ pc' \in [Runs -> Steps]
        /\ result' \in [Runs -> Results]
        /\ Effect(r) /\ RunInv(r)' /\ Exclusive' /\ Heads'
    BY <1>3, <2>1, ReturnKeepsInvariant DEF CleanupSteps
  <2>3. TypeOK'
    BY <1>1, <2>1, <2>2 DEF TypeOK, disk
  <2> QED BY <2>2, <2>3 DEF Kept
<1> QED BY <1>2, <1>3 DEF Check

LEMMA EditPanicsKeeps == ASSUME IInv, NEW r \in Runs, EditPanics(r) PROVE Kept(r)
<1>1. TypeOK
  BY DEF IInv
<1>2. pc[r] = "edit" /\ UNCHANGED <<mode, plan, effective, tree, branch, remote, pulls, applied, temp, commit, delta, disk>>
  BY DEF EditPanics, repo
<1>3. /\ pc' \in [Runs -> Steps]
      /\ result' \in [Runs -> Results]
      /\ Effect(r) /\ RunInv(r)' /\ Exclusive' /\ Heads'
  BY <1>2, ReturnKeepsInvariant DEF EditPanics, CleanupSteps
<1>4. TypeOK'
  BY <1>1, <1>2, <1>3 DEF TypeOK, disk
<1> QED BY <1>3, <1>4 DEF Kept

LEMMA CommandFailsKeeps == ASSUME IInv, NEW r \in Runs, CommandFails(r) PROVE Kept(r)
<1>1. TypeOK
  BY DEF IInv
<1>2. pc[r] \notin CleanupSteps \cup {"worktree", "end"} /\ UNCHANGED <<mode, plan, effective, tree, branch, remote, pulls, applied, temp, commit, delta, disk>>
  BY DEF CommandFails, repo
<1>3. /\ pc' \in [Runs -> Steps]
      /\ result' \in [Runs -> Results]
      /\ Effect(r) /\ RunInv(r)' /\ Exclusive' /\ Heads'
  BY <1>2, ReturnKeepsInvariant DEF CommandFails
<1>4. TypeOK'
  BY <1>1, <1>2, <1>3 DEF TypeOK, disk
<1> QED BY <1>3, <1>4 DEF Kept

LEMMA OpenPullRequestKeeps == ASSUME IInv, NEW r \in Runs, OpenPullRequest(r) PROVE Kept(r)
<1>1. TypeOK
  BY DEF IInv
<1>2. pc[r] = "pr" /\ UNCHANGED <<mode, plan, effective, tree, branch, remote, applied, temp, commit, delta, disk>>
  BY DEF OpenPullRequest, repo
<1>3. /\ pc' \in [Runs -> Steps]
      /\ result' \in [Runs -> Results]
      /\ Effect(r) /\ RunInv(r)' /\ Exclusive' /\ Heads'
  BY <1>2, ReturnKeepsInvariant DEF OpenPullRequest, CleanupSteps
<1>4. TypeOK'
  <2>1. pulls' \subseteq [run : Runs, files : SUBSET Files, changes : SUBSET Changes]
    BY <1>1 DEF OpenPullRequest, TypeOK, Plans
  <2> QED BY <1>1, <1>2, <1>3, <2>1 DEF TypeOK, disk
<1> QED BY <1>3, <1>4 DEF Kept

LEMMA AddFailsKeeps == ASSUME IInv, NEW r \in Runs, AddFails(r) PROVE Kept(r)
<1> DEFINE t == [head |-> r, dirty |-> {}, index |-> {}]
<1>1. TypeOK /\ Exclusive /\ Heads /\ RunInv(r)
  BY DEF IInv
<1>2. /\ pc[r] = "worktree" /\ Return(r, "failed") /\ unclean' = unclean \cup {r}
      /\ dirs' \in {dirs, dirs \cup {r}}
      /\ \/ UNCHANGED <<tree, branch>>
         \/ /\ branch' = [branch EXCEPT ![r] = branch[tree[Base].head]]
            /\ tree' \in {tree, [tree EXCEPT ![r] = t]}
      /\ UNCHANGED <<mode, plan, effective, remote, pulls, applied, temp, commit, delta, strayed>>
  BY DEF AddFails
<1>3. /\ r \in Places /\ Base \in Places /\ Base # r /\ Runs \subseteq Places
      /\ r \in BranchNames /\ Runs \subseteq BranchNames
  BY InfraAssumption DEF Places, BranchNames
<1>4. t \in Trees /\ t # None /\ t.head = r /\ tree[Base].head \in BranchNames /\ tree[Base] # None
  BY <1>1, <1>3, NoneAssumption DEF Trees, TypeOK
<1> HIDE DEF t
<1>5. Isolated(r) /\ tree[r] = None /\ ~Exists(r) /\ r \notin dirs /\ Place(r) = r
  BY <1>1, <1>2 DEF RunInv, CheckoutRun, CheckoutSteps, WorktreeRun, Place
<1>6. /\ pc' \in [Runs -> Steps] /\ pc'[r] = "end" /\ \A s \in Runs \ {r} : pc'[s] = pc[s]
      /\ result' \in [Runs -> Results] /\ result'[r] = "failed"
      /\ \A s \in Runs \ {r} : result'[s] = result[s]
  BY <1>1, <1>2, <1>5 DEF Return, TypeOK, Steps, Results
<1>7. /\ tree' \in [Places -> Trees \cup {None}] /\ tree'[r] \in {None, t}
      /\ \A p \in Places \ {r} : tree'[p] = tree[p]
  BY <1>1, <1>2, <1>3, <1>4, <1>5 DEF TypeOK
<1>8. /\ branch' \in [BranchNames -> (SUBSET Changes) \cup {None}]
      /\ \A b \in BranchNames \ {r} : branch'[b] = branch[b]
      /\ tree'[r] = t => branch'[r] # None
  <2>1. branch[tree[Base].head] \in (SUBSET Changes) \cup {None} /\ branch[tree[Base].head] # None
    BY <1>1, <1>3, <1>4 DEF TypeOK, Heads, Exists
  <2>2. CASE UNCHANGED <<tree, branch>>
    BY <1>1, <1>4, <1>5, <2>2 DEF TypeOK
  <2>3. CASE branch' = [branch EXCEPT ![r] = branch[tree[Base].head]]
    BY <1>1, <1>3, <2>1, <2>3 DEF TypeOK
  <2> QED BY <1>2, <2>2, <2>3
<1>9. \A p \in Places : tree[p] # None => tree[p].head \in BranchNames /\ tree[p].head # r
  BY <1>1, <1>5 DEF Heads, TypeOK, Trees
<1>10. TypeOK'
  BY <1>1, <1>2, <1>3, <1>6, <1>7, <1>8 DEF TypeOK
<1>11. Effect(r)
  <2>1. \A p \in Places \ {r} : PlaceLeft(p)
    BY <1>7, <1>8, <1>9 DEF PlaceLeft
  <2>2. \A s \in Runs \ {r} : Aside(s)
    BY <1>2, <1>3, <1>6, <1>8 DEF Aside, Exists
  <2>3. Active(r)
    BY <1>2 DEF Active
  <2> QED BY <1>2, <1>5, <2>1, <2>2, <2>3 DEF Effect
<1>12. Exclusive'
  BY <1>2, <1>11, ExclusiveKept DEF Active
<1>13. Heads'
  BY <1>4, <1>5, <1>7, <1>8, <1>9, <1>11, HeadsKept
<1>14. RunInv(r)'
  BY <1>1, <1>2, <1>5, <1>6
  DEF RunInv, CheckoutRun, WorktreeRun, BranchRun, EndedRun, OnBranch, Isolated, Working, WorktreeSteps
<1> QED BY <1>10, <1>11, <1>12, <1>13, <1>14 DEF Kept

(* A step that changes the place of its run only. *)
LEMMA PlaceEffect ==
  ASSUME IInv, NEW r \in Runs, Working(r), NEW t \in Trees, SetHere(r, t),
         NEW q, pc' = [pc EXCEPT ![r] = q], UNCHANGED <<mode, plan, effective, result, dirs, unclean>>,
         \A s \in Runs \ {r} : temp'[s] = temp[s] /\ (s \in strayed' <=> s \in strayed),
         \A s \in Runs \ {r} : ~Exists(s) => branch'[s] = None,
         \A p \in Places \ {Place(r)} : tree[p] # None =>
           tree[p].head # t.head /\ branch'[tree[p].head] = branch[tree[p].head],
         branch'[t.head] # None
  PROVE  /\ Effect(r) /\ Exclusive' /\ Heads'
         /\ tree' \in [Places -> Trees \cup {None}] /\ tree'[Base] \in Trees
         /\ tree'[Place(r)] = t
         /\ \A p \in Places \ {Place(r)} : tree'[p] = tree[p]
<1>1. TypeOK /\ Exclusive /\ Place(r) \in Places /\ Active(r)
  BY PlaceIsTree DEF IInv, Working, Active
<1>2. /\ tree' \in [Places -> Trees \cup {None}] /\ tree'[Base] \in Trees
      /\ tree'[Place(r)] = t
      /\ \A p \in Places \ {Place(r)} : tree'[p] = tree[p]
  BY <1>1 DEF SetHere, TypeOK, Places
<1>3. ASSUME NEW s \in Runs \ {r} PROVE Aside(s)
  BY <1>1 DEF Aside, TypeOK
<1>4. Effect(r)
  BY <1>1, <1>2, <1>3 DEF Effect, PlaceLeft
<1>5. Heads'
  BY <1>2, <1>4, HeadsKept
<1> QED BY <1>1, <1>2, <1>4, <1>5, ExclusiveKept

(* A step that edits or stages files where its run is. *)
LEMMA EditingKeeps ==
  ASSUME IInv, NEW r \in Runs, NEW t \in Trees, t.head = Here(r).head, SetHere(r, t),
         NEW q, pc' = [pc EXCEPT ![r] = q],
         UNCHANGED <<mode, plan, effective, branch, temp, result, disk>>,
         \/ pc[r] = "edit" /\ q \in {"edit", "fmt"}
         \/ pc[r] = "fmt" /\ q = IF Isolated(r) THEN "add" ELSE "checkout"
         \/ pc[r] = "add" /\ q = "commit"
  PROVE  /\ pc' \in [Runs -> Steps]
         /\ tree' \in [Places -> Trees \cup {None}] /\ tree'[Base] \in Trees
         /\ Effect(r) /\ RunInv(r)' /\ Exclusive' /\ Heads'
<1>1. TypeOK /\ Exclusive /\ Heads /\ RunInv(r)
  BY DEF IInv
<1>2. Working(r) /\ UNCHANGED <<dirs, unclean, strayed>>
  BY DEF Working, disk
<1>3. Place(r) \in Places /\ Here(r) # None /\ Here(r) = tree[Place(r)]
  BY <1>2, PlaceIsTree DEF Here
<1>4. /\ Effect(r) /\ Exclusive' /\ Heads'
      /\ tree' \in [Places -> Trees \cup {None}] /\ tree'[Base] \in Trees
      /\ tree'[Place(r)] = t
      /\ \A p \in Places \ {Place(r)} : tree'[p] = tree[p]
  <2>1. \A p \in Places \ {Place(r)} : tree[p] # None => tree[p].head # t.head
    BY <1>1, <1>3 DEF Heads
  <2>2. branch'[t.head] # None
    BY <1>1, <1>3 DEF Heads, Exists
  <2>3. \A s \in Runs : ~Exists(s) => branch'[s] = None
    BY DEF Exists
  <2> QED BY <1>2, <2>1, <2>2, <2>3, PlaceEffect
<1>5. pc' \in [Runs -> Steps] /\ pc'[r] = q
  BY <1>1 DEF TypeOK, Steps
<1>6. Here(r)'.head = Here(r).head
  BY <1>4 DEF Here, Place, Isolated
<1>7. t # None
  BY NoneAssumption
<1>8. CASE Isolated(r)
  <2>1. tree'[r] = t
    BY <1>4, <1>8 DEF Place
  <2>2. WorktreeRun(r)' /\ CheckoutRun(r)'
    BY <1>1, <1>2, <1>5, <1>7, <1>8, <2>1
    DEF RunInv, WorktreeRun, CheckoutRun, WorktreeSteps, Isolated, Working, Exists
  <2>3. EndedRun(r)'
    BY <1>5, <1>8 DEF EndedRun
  <2>4. BranchRun(r)'
    BY <1>1, <1>5, <1>6, <1>8 DEF RunInv, BranchRun, OnBranch, Isolated, WorktreeRun, WorktreeSteps
  <2> QED BY <1>4, <1>5, <2>2, <2>3, <2>4 DEF RunInv
<1>9. CASE ~Isolated(r)
  <2>1. Base # r /\ r \in Places /\ Place(r) = Base
    BY <1>9, InfraAssumption DEF Places, Place
  <2>2. tree'[r] = tree[r]
    BY <1>4, <2>1
  <2>3. WorktreeRun(r)' /\ CheckoutRun(r)'
    BY <1>1, <1>2, <1>5, <1>9, <2>2
    DEF RunInv, WorktreeRun, CheckoutRun, CheckoutSteps, Isolated, Exists
  <2>4. EndedRun(r)'
    BY <1>5, <1>9 DEF EndedRun
  <2>5. BranchRun(r)'
    BY <1>1, <1>5, <1>6, <1>9 DEF RunInv, BranchRun, OnBranch, Isolated
  <2> QED BY <1>4, <1>5, <2>3, <2>4, <2>5 DEF RunInv
<1> QED BY <1>8, <1>9

LEMMA EditFileKeeps == ASSUME IInv, NEW r \in Runs, NEW f \in Files, EditFile(r, f) PROVE Kept(r)
<1> DEFINE t == [Here(r) EXCEPT !.dirty = @ \cup {<<f, r>>}]
           q == IF applied'[r] = effective[r].files THEN "fmt" ELSE "edit"
<1>1. TypeOK /\ Here(r) \in Trees
  BY PlaceIsTree DEF IInv, EditFile, Goto, Working
<1>2. /\ SetHere(r, t) /\ pc' = [pc EXCEPT ![r] = q]
      /\ UNCHANGED <<mode, plan, effective, branch, remote, pulls, temp, commit, delta, result, disk>>
  BY <1>1 DEF EditFile, Goto, TypeOK
<1>3. t \in Trees /\ t.head = Here(r).head
  BY <1>1 DEF Trees, Changes, Authors
<1> HIDE DEF t
<1>4. /\ pc' \in [Runs -> Steps]
      /\ tree' \in [Places -> Trees \cup {None}] /\ tree'[Base] \in Trees
      /\ Effect(r) /\ RunInv(r)' /\ Exclusive' /\ Heads'
  BY <1>2, <1>3, EditingKeeps DEF EditFile, Goto
<1>5. applied' \in [Runs -> SUBSET Files]
  BY <1>1 DEF EditFile, TypeOK
<1>6. TypeOK'
  BY <1>1, <1>2, <1>4, <1>5 DEF TypeOK, disk
<1> QED BY <1>4, <1>6 DEF Kept

LEMMA FmtKeeps == ASSUME IInv, NEW r \in Runs, Fmt(r) PROVE Kept(r)
<1>1. TypeOK /\ Here(r) \in Trees
  BY PlaceIsTree DEF IInv, Fmt, Goto, Working
<1>2. PICK fs \in SUBSET Files :
        SetHere(r, [Here(r) EXCEPT !.dirty = @ \cup (fs \X {"fmt"})])
  BY DEF Fmt
<1> DEFINE t == [Here(r) EXCEPT !.dirty = @ \cup (fs \X {"fmt"})]
           q == IF Isolated(r) THEN "add" ELSE "checkout"
<1>3. /\ SetHere(r, t) /\ pc' = [pc EXCEPT ![r] = q] /\ pc[r] = "fmt"
      /\ UNCHANGED <<mode, plan, effective, branch, remote, pulls, applied, temp, commit, delta, result, disk>>
  BY <1>2 DEF Fmt, Goto
<1>4. t \in Trees /\ t.head = Here(r).head
  BY <1>1 DEF Trees, Changes, Authors
<1> HIDE DEF t
<1>5. /\ pc' \in [Runs -> Steps]
      /\ tree' \in [Places -> Trees \cup {None}] /\ tree'[Base] \in Trees
      /\ Effect(r) /\ RunInv(r)' /\ Exclusive' /\ Heads'
  BY <1>3, <1>4, EditingKeeps
<1>6. TypeOK'
  BY <1>1, <1>3, <1>5 DEF TypeOK, disk
<1> QED BY <1>5, <1>6 DEF Kept

LEMMA AddKeeps == ASSUME IInv, NEW r \in Runs, Add(r) PROVE Kept(r)
<1> DEFINE added == {c \in Here(r).dirty : c[1] \in applied[r]}
           t == [Here(r) EXCEPT !.dirty = @ \ added, !.index = @ \cup added]
<1>1. TypeOK /\ Here(r) \in Trees
  BY PlaceIsTree DEF IInv, Add, Goto, Working
<1>2. /\ SetHere(r, t) /\ pc' = [pc EXCEPT ![r] = "commit"] /\ pc[r] = "add"
      /\ UNCHANGED <<mode, plan, effective, branch, remote, pulls, applied, temp, commit, delta, result, disk>>
  BY DEF Add, Goto
<1>3. t \in Trees /\ t.head = Here(r).head
  BY <1>1 DEF Trees
<1> HIDE DEF t
<1>4. /\ pc' \in [Runs -> Steps]
      /\ tree' \in [Places -> Trees \cup {None}] /\ tree'[Base] \in Trees
      /\ Effect(r) /\ RunInv(r)' /\ Exclusive' /\ Heads'
  BY <1>2, <1>3, EditingKeeps
<1>5. TypeOK'
  BY <1>1, <1>2, <1>4 DEF TypeOK, disk
<1> QED BY <1>4, <1>5 DEF Kept

(* A step that leaves the repository and its run where they are. *)
LEMMA WaitingKeeps ==
  ASSUME IInv, NEW r \in Runs, NEW q, pc' = [pc EXCEPT ![r] = q],
         UNCHANGED <<mode, plan, tree, branch, temp, result, disk>>,
         \A s \in Runs \ {r} : effective'[s] = effective[s],
         \/ pc[r] = "ask" /\ q = "edit"
         \/ /\ effective' = effective
            /\ \/ pc[r] = "changed" /\ q = "fmt"
               \/ pc[r] = "push" /\ q = "pr"
  PROVE  /\ pc' \in [Runs -> Steps]
         /\ Effect(r) /\ RunInv(r)' /\ Exclusive' /\ Heads'
<1>1. TypeOK /\ Exclusive /\ Heads /\ RunInv(r)
  BY DEF IInv
<1>2. pc' \in [Runs -> Steps] /\ pc'[r] = q /\ \A s \in Runs \ {r} : pc'[s] = pc[s]
  BY <1>1 DEF TypeOK, Steps
<1>3. Effect(r)
  BY <1>2 DEF Effect, Aside, PlaceLeft, Exists, disk
<1>4. Exclusive'
  BY <1>3, ExclusiveKept DEF Active
<1>5. Heads'
  BY <1>1 DEF Heads, Exists, Places
<1>6. CheckoutRun(r)'
  BY <1>1, <1>2 DEF RunInv, CheckoutRun, Isolated, CheckoutSteps, Exists, disk
<1>7. WorktreeRun(r)'
  BY <1>1, <1>2 DEF RunInv, WorktreeRun, Isolated, Working, WorktreeSteps, Exists, disk
<1>8. BranchRun(r)' /\ EndedRun(r)'
  BY <1>1, <1>2 DEF RunInv, BranchRun, WorktreeRun, CheckoutRun, EndedRun, OnBranch, Isolated,
                    Here, Place, WorktreeSteps, CheckoutSteps
<1> QED BY <1>2, <1>3, <1>4, <1>5, <1>6, <1>7, <1>8 DEF RunInv

LEMMA AskKeeps == ASSUME IInv, NEW r \in Runs, Ask(r) PROVE Kept(r)
<1>1. TypeOK
  BY DEF IInv
<1>2. PICK refined \in Replies : effective' = [effective EXCEPT ![r] = Merge(plan[r], refined)]
  BY DEF Ask
<1>3. Merge(plan[r], refined) \in Plans
  BY <1>1 DEF TypeOK, Merge, Replies, Plans
<1>4. effective' \in [Runs -> Plans] /\ \A s \in Runs \ {r} : effective'[s] = effective[s]
  BY <1>1, <1>2, <1>3 DEF TypeOK
<1>5. /\ pc[r] = "ask" /\ pc' = [pc EXCEPT ![r] = "edit"]
      /\ UNCHANGED <<mode, plan, repo, applied, temp, commit, delta, result, disk>>
  BY DEF Ask, Goto
<1>6. /\ pc' \in [Runs -> Steps]
      /\ Effect(r) /\ RunInv(r)' /\ Exclusive' /\ Heads'
  BY <1>4, <1>5, WaitingKeeps DEF repo
<1>7. TypeOK'
  BY <1>1, <1>4, <1>5, <1>6 DEF TypeOK, repo, disk
<1> QED BY <1>6, <1>7 DEF Kept

LEMMA ListChangesKeeps == ASSUME IInv, NEW r \in Runs, ListChanges(r) PROVE Kept(r)
<1>1. TypeOK
  BY DEF IInv
<1>2. pc[r] = "changed" /\ UNCHANGED <<mode, plan, effective, repo, temp, commit, delta, disk>>
  BY DEF ListChanges
<1>3. Here(r) \in Trees
  BY <1>2, PlaceIsTree DEF Working
<1>4. CASE Goto(r, "changed", "fmt") /\ UNCHANGED result
           /\ applied' = [applied EXCEPT ![r] = FilesOf(Here(r).dirty)]
  <2>1. /\ pc' \in [Runs -> Steps]
        /\ Effect(r) /\ RunInv(r)' /\ Exclusive' /\ Heads'
    BY <1>2, <1>4, WaitingKeeps DEF Goto, repo
  <2>2. FilesOf(Here(r).dirty) \in SUBSET Files
    BY <1>3 DEF FilesOf, Trees, Changes
  <2>3. TypeOK'
    BY <1>1, <1>2, <1>4, <2>1, <2>2 DEF TypeOK, repo, disk
  <2> QED BY <2>1, <2>3 DEF Kept
<1>5. CASE Return(r, "failed") /\ UNCHANGED applied
  <2>1. /\ pc' \in [Runs -> Steps] /\ result' \in [Runs -> Results]
        /\ Effect(r) /\ RunInv(r)' /\ Exclusive' /\ Heads'
    BY <1>2, <1>5, ReturnKeepsInvariant DEF repo, CleanupSteps
  <2>2. TypeOK'
    BY <1>1, <1>2, <1>5, <2>1 DEF TypeOK, repo, disk
  <2> QED BY <2>1, <2>2 DEF Kept
<1> QED BY <1>4, <1>5 DEF ListChanges

LEMMA PushBranchKeeps == ASSUME IInv, NEW r \in Runs, PushBranch(r) PROVE Kept(r)
<1>1. TypeOK
  BY DEF IInv
<1>2. /\ pc[r] = "push" /\ pc' = [pc EXCEPT ![r] = "pr"]
      /\ UNCHANGED <<mode, plan, effective, tree, branch, pulls, applied, temp, commit, delta, result, disk>>
  BY DEF PushBranch, Goto
<1>3. /\ pc' \in [Runs -> Steps]
      /\ Effect(r) /\ RunInv(r)' /\ Exclusive' /\ Heads'
  BY <1>2, WaitingKeeps
<1>4. remote' \in [Branches -> (SUBSET Changes) \cup {None}]
  <2>1. effective[r].branch \in Branches /\ effective[r].branch \in BranchNames
    BY <1>1 DEF TypeOK, Plans, BranchNames
  <2> QED BY <1>1, <2>1 DEF PushBranch, TypeOK
<1>5. TypeOK'
  BY <1>1, <1>2, <1>3, <1>4 DEF TypeOK, disk
<1> QED BY <1>3, <1>5 DEF Kept

LEMMA KillKeeps == ASSUME IInv, NEW r \in Runs, Kill(r) PROVE Kept(r)
<1>1. TypeOK /\ Exclusive /\ Heads /\ RunInv(r)
  BY DEF IInv
<1>2. /\ pc' = [pc EXCEPT ![r] = "end"] /\ result' = [result EXCEPT ![r] = "killed"]
      /\ UNCHANGED <<mode, plan, effective, tree, branch, remote, pulls, applied, temp, commit, delta,
                     dirs, unclean, strayed>>
  BY DEF Kill, repo, disk
<1>3. /\ pc' \in [Runs -> Steps] /\ result' \in [Runs -> Results]
      /\ pc'[r] = "end" /\ result'[r] = "killed"
      /\ \A s \in Runs \ {r} : pc'[s] = pc[s] /\ result'[s] = result[s]
  BY <1>1, <1>2 DEF TypeOK, Steps, Results
<1>4. TypeOK'
  BY <1>1, <1>2, <1>3 DEF TypeOK
<1>5. Effect(r)
  BY <1>2, <1>3 DEF Effect, Aside, PlaceLeft, Exists
<1>6. Exclusive'
  BY <1>1, <1>2, <1>3 DEF Exclusive, Active, Isolated
<1>7. Heads'
  BY <1>1, <1>2 DEF Heads, Exists, Places
<1>8. RunInv(r)'
  BY <1>1, <1>2, <1>3
  DEF RunInv, CheckoutRun, WorktreeRun, BranchRun, EndedRun, OnBranch, Isolated, Working,
      CheckoutSteps, WorktreeSteps, Exists
<1> QED BY <1>4, <1>5, <1>6, <1>7, <1>8 DEF Kept

(* A step of Cleanup: it takes away the worktree, the directory or the     *)
(* branch of its run, or leaves them, and takes other worktrees off git's  *)
(* list if they have no directory.                                         *)
LEMMA CleanupKeeps ==
  ASSUME IInv, NEW r \in Runs, NEW q, pc' = [pc EXCEPT ![r] = q],
         \/ pc[r] = "remove" /\ q = "prune"
         \/ pc[r] = "prune" /\ q = "delete"
         \/ pc[r] = "delete" /\ q = "rmdir"
         \/ pc[r] = "rmdir" /\ q = "end",
         UNCHANGED <<mode, plan, effective, remote, pulls, applied, temp, commit, delta, result, strayed>>,
         unclean' \in {unclean, unclean \cup {r}}, dirs' \in {dirs, dirs \ {r}},
         branch' \in {branch, [branch EXCEPT ![r] = None]},
         branch' # branch => ~CheckedOut(r),
         tree' \in [Places -> Trees \cup {None}],
         \A p \in Places : tree'[p] = tree[p] \/ (p \in Runs /\ tree'[p] = None),
         \A s \in Runs \ {r} : s \in dirs => tree'[s] = tree[s],
         \/ r \in unclean'
         \/ pc[r] = "remove" /\ tree'[r] = None /\ r \notin dirs'
         \/ pc[r] = "prune"
         \/ pc[r] = "delete" /\ branch' = IF temp[r] THEN [branch EXCEPT ![r] = None] ELSE branch
         \/ pc[r] = "rmdir"
  PROVE  Kept(r)
<1>1. TypeOK /\ Exclusive /\ Heads /\ RunInv(r)
  BY DEF IInv
<1>2. /\ Isolated(r) /\ Place(r) = r /\ Active(r)
      /\ r \in BranchNames /\ Runs \subseteq BranchNames /\ Base \in Places /\ Base \notin Runs
  BY <1>1, InfraAssumption
  DEF RunInv, CheckoutRun, CheckoutSteps, Place, Active, BranchNames, Places
<1>3. pc' \in [Runs -> Steps] /\ pc'[r] = q /\ \A s \in Runs \ {r} : pc'[s] = pc[s]
  BY <1>1 DEF TypeOK, Steps, CleanupSteps
<1>4. /\ branch' \in [BranchNames -> (SUBSET Changes) \cup {None}]
      /\ \A b \in BranchNames \ {r} : branch'[b] = branch[b]
      /\ branch'[r] = None \/ branch' = branch
  BY <1>1, <1>2 DEF TypeOK
<1>5. TypeOK'
  BY <1>1, <1>2, <1>3, <1>4 DEF TypeOK
<1>6. Effect(r)
  <2>1. ASSUME NEW p \in Places \ {r} PROVE PlaceLeft(p)
    <3>1. tree'[p] = tree[p] \/ (p \in Runs \ dirs /\ tree'[p] = None)
      BY <2>1
    <3>2. tree[p] # None => branch'[tree[p].head] = branch[tree[p].head]
      <4>1. CASE branch' = branch
        BY <4>1
      <4>2. CASE ~CheckedOut(r)
        <5>1. tree[p] # None => tree[p].head # r /\ tree[p].head \in BranchNames
          BY <1>1, <4>2 DEF CheckedOut, TypeOK, Trees
        <5> QED BY <1>4, <5>1
      <4> QED BY <4>1, <4>2
    <3> QED BY <3>1, <3>2 DEF PlaceLeft
  <2>2. \A s \in Runs \ {r} : Aside(s)
    BY <1>2, <1>3, <1>4 DEF Aside, Exists
  <2> QED BY <1>2, <2>1, <2>2 DEF Effect
<1>7. Exclusive'
  BY <1>2, <1>6, ExclusiveKept
<1>8. Heads'
  <2>1. ASSUME tree'[r] # None
        PROVE  /\ tree'[r] = tree[r] /\ branch'[tree'[r].head] # None
               /\ \A p \in Places \ {r} : tree[p] # None => tree[p].head # tree'[r].head
    <3>1. r \in Places /\ tree'[r] = tree[r] /\ tree[r] # None
      BY <2>1 DEF Places
    <3>2. tree[r].head \in BranchNames /\ Exists(tree[r].head)
      BY <1>1, <3>1 DEF Heads, TypeOK, Trees
    <3>3. branch'[tree[r].head] = branch[tree[r].head]
      BY <1>4, <3>1, <3>2 DEF CheckedOut
    <3> QED BY <1>1, <3>1, <3>2, <3>3 DEF Heads, Exists
  <2> QED BY <1>2, <1>6, <2>1, HeadsKept
<1>9. WorktreeRun(r)'
  BY <1>1, <1>2, <1>3, <1>4 DEF RunInv, WorktreeRun, WorktreeSteps, Isolated, Working, Exists
<1>10. CheckoutRun(r)' /\ BranchRun(r)'
  BY <1>2, <1>3 DEF CheckoutRun, BranchRun, OnBranch, Isolated
<1>11. EndedRun(r)'
  <2> SUFFICES ASSUME r \notin unclean', result[r] # "killed"
               PROVE  /\ tree'[r] = None /\ r \notin dirs'
                      /\ q \in {"rmdir", "end"} /\ r \notin strayed => branch'[r] = None
    BY <1>3 DEF EndedRun, Exists
  <2>1. r \notin unclean
    OBVIOUS
  <2>2. r \in Places
    BY DEF Places
  <2>3. tree'[r] = None /\ r \notin dirs'
    BY <1>1, <2>1, <2>2 DEF RunInv, EndedRun
  <2>4. ASSUME q \in {"rmdir", "end"}, r \notin strayed PROVE branch'[r] = None
    <3>1. CASE pc[r] = "delete"
      BY <1>1, <1>2, <2>1, <2>4, <3>1 DEF RunInv, WorktreeRun, Exists, TypeOK
    <3>2. CASE pc[r] = "rmdir"
      BY <1>1, <1>4, <2>1, <2>4, <3>2 DEF RunInv, EndedRun, Exists
    <3> QED BY <2>4, <3>1, <3>2
  <2> QED BY <2>3, <2>4
<1> QED BY <1>5, <1>6, <1>7, <1>8, <1>9, <1>10, <1>11 DEF Kept, RunInv

LEMMA CleanupStepKeeps == ASSUME IInv, NEW r \in Runs, CleanupStep(r) PROVE Kept(r)
<1>1. TypeOK /\ r \in Places /\ Base \notin Runs
  BY InfraAssumption DEF IInv, Places
<1>2. /\ [tree EXCEPT ![r] = None] \in [Places -> Trees \cup {None}]
      /\ \A p \in Places : [tree EXCEPT ![r] = None][p] = IF p = r THEN None ELSE tree[p]
  BY <1>1 DEF TypeOK
<1>3. CASE RemoveWorktree(r)
  <2>1. /\ tree' \in [Places -> Trees \cup {None}]
        /\ \A p \in Places : tree'[p] = IF p = r THEN None ELSE tree[p]
    BY <1>2, <1>3 DEF RemoveWorktree
  <2>2. /\ pc[r] = "remove" /\ pc' = [pc EXCEPT ![r] = "prune"] /\ dirs' = dirs \ {r}
        /\ UNCHANGED <<mode, plan, effective, branch, remote, pulls, applied, temp, commit, delta,
                       result, unclean, strayed>>
    BY <1>3 DEF RemoveWorktree, Goto
  <2>3. tree'[r] = None /\ \A s \in Runs \ {r} : tree'[s] = tree[s]
    BY <1>1, <2>1 DEF Places
  <2>4. \A p \in Places : tree'[p] = tree[p] \/ (p \in Runs /\ tree'[p] = None)
    BY <2>1
  <2> QED BY <2>1, <2>2, <2>3, <2>4, CleanupKeeps
<1>4. CASE Prune(r)
  <2>1. PICK locked \in SUBSET ((unclean \ dirs) \ {r}) :
          tree' = [p \in Places |-> IF p \in (Runs \ dirs) \ locked THEN None ELSE tree[p]]
    BY <1>4 DEF Prune
  <2>2. /\ tree' \in [Places -> Trees \cup {None}]
        /\ \A p \in Places : tree'[p] = tree[p] \/ (p \in Runs \ dirs /\ tree'[p] = None)
    BY <1>1, <2>1 DEF TypeOK
  <2> QED BY <1>4, <2>2, CleanupKeeps DEF Prune, Goto, disk, Places
<1>5. CASE DeleteTempBranch(r)
  BY <1>1, <1>5, CleanupKeeps DEF DeleteTempBranch, Goto, disk, TypeOK
<1>6. CASE RemoveDir(r)
  BY <1>1, <1>6, CleanupKeeps DEF RemoveDir, Goto, repo, TypeOK
<1>7. CASE CleanupFails(r)
  <2>1. /\ UNCHANGED <<mode, plan, effective, remote, pulls, applied, temp, commit, delta, result, strayed>>
        /\ unclean' = unclean \cup {r}
    BY <1>7 DEF CleanupFails
  <2>2. CASE /\ Goto(r, "remove", "prune") /\ dirs' \in {dirs, dirs \ {r}}
             /\ tree' \in {tree, [tree EXCEPT ![r] = None]} /\ UNCHANGED branch
    <3>1. /\ tree' \in [Places -> Trees \cup {None}]
          /\ \A p \in Places : tree'[p] = tree[p] \/ (p = r /\ tree'[p] = None)
      BY <1>1, <1>2, <2>2 DEF TypeOK
    <3>2. \A s \in Runs \ {r} : tree'[s] = tree[s]
      BY <3>1 DEF Places
    <3>3. \A p \in Places : tree'[p] = tree[p] \/ (p \in Runs /\ tree'[p] = None)
      BY <3>1
    <3>4. r \in unclean' /\ pc[r] = "remove" /\ pc' = [pc EXCEPT ![r] = "prune"]
      BY <2>1, <2>2 DEF Goto
    <3> QED BY <2>1, <2>2, <3>1, <3>2, <3>3, <3>4, CleanupKeeps
  <2>3. CASE /\ Goto(r, "prune", "delete") \/ Goto(r, "rmdir", "end")
             /\ UNCHANGED <<dirs, tree, branch>>
    BY <1>1, <2>1, <2>3, CleanupKeeps DEF Goto, TypeOK
  <2>4. CASE /\ Goto(r, "delete", "rmdir") /\ UNCHANGED <<dirs, tree>>
             /\ branch' = branch \/ (~CheckedOut(r) /\ branch' = [branch EXCEPT ![r] = None])
    BY <1>1, <2>1, <2>4, CleanupKeeps DEF Goto, TypeOK
  <2> QED BY <1>7, <2>2, <2>3, <2>4 DEF CleanupFails
<1> QED BY <1>3, <1>4, <1>5, <1>6, <1>7 DEF CleanupStep

LEMMA AddWorktreeKeeps == ASSUME IInv, NEW r \in Runs, AddWorktree(r) PROVE Kept(r)
<1> DEFINE t == [head |-> r, dirty |-> {}, index |-> {}]
<1>1. TypeOK /\ Exclusive /\ Heads /\ RunInv(r)
  BY DEF IInv
<1>2. /\ pc[r] = "worktree" /\ pc' = [pc EXCEPT ![r] = "refine"] /\ tree' = [tree EXCEPT ![r] = t]
      /\ branch' = [branch EXCEPT ![r] = branch[tree[Base].head]] /\ temp' = [temp EXCEPT ![r] = TRUE]
      /\ dirs' = dirs \cup {r}
      /\ UNCHANGED <<mode, plan, effective, remote, pulls, applied, commit, delta, result,
                     unclean, strayed>>
  BY DEF AddWorktree, Goto
<1>3. /\ r \in Places /\ Base \in Places /\ Base # r /\ Runs \subseteq Places
      /\ r \in BranchNames /\ Runs \subseteq BranchNames
  BY InfraAssumption DEF Places, BranchNames
<1>4. t \in Trees /\ t # None /\ t.head = r /\ tree[Base].head \in BranchNames /\ tree[Base] # None
  BY <1>1, <1>3, NoneAssumption DEF Trees, TypeOK
<1> HIDE DEF t
<1>5. Isolated(r) /\ ~Exists(r) /\ Place(r) = r /\ Active(r)
  BY <1>1, <1>2 DEF RunInv, CheckoutRun, CheckoutSteps, WorktreeRun, Place, Active
<1>6. /\ pc' \in [Runs -> Steps] /\ pc'[r] = "refine" /\ \A s \in Runs \ {r} : pc'[s] = pc[s]
      /\ tree' \in [Places -> Trees \cup {None}] /\ tree'[r] = t
      /\ \A p \in Places \ {r} : tree'[p] = tree[p]
  BY <1>1, <1>2, <1>3, <1>4 DEF TypeOK, Steps
<1>7. branch[tree[Base].head] \in (SUBSET Changes) \cup {None} /\ branch[tree[Base].head] # None
  BY <1>1, <1>3, <1>4 DEF TypeOK, Heads, Exists
<1>8. /\ branch' \in [BranchNames -> (SUBSET Changes) \cup {None}]
      /\ branch'[r] # None
      /\ \A b \in BranchNames \ {r} : branch'[b] = branch[b]
      /\ temp' \in [Runs -> BOOLEAN] /\ temp'[r] = TRUE /\ \A s \in Runs \ {r} : temp'[s] = temp[s]
  BY <1>1, <1>2, <1>3, <1>7 DEF TypeOK
<1>9. TypeOK'
  BY <1>1, <1>2, <1>3, <1>6, <1>8 DEF TypeOK
<1>10. \A p \in Places : tree[p] # None => tree[p].head \in BranchNames /\ tree[p].head # r
  BY <1>1, <1>5 DEF Heads, TypeOK, Trees
<1>11. Effect(r)
  <2>1. \A p \in Places \ {r} : PlaceLeft(p)
    BY <1>6, <1>8, <1>10 DEF PlaceLeft
  <2>2. \A s \in Runs \ {r} : Aside(s)
    BY <1>2, <1>3, <1>6, <1>8 DEF Aside, Exists
  <2> QED BY <1>2, <1>5, <2>1, <2>2 DEF Effect
<1>12. Exclusive'
  BY <1>5, <1>11, ExclusiveKept
<1>13. Heads'
  BY <1>4, <1>5, <1>6, <1>8, <1>10, <1>11, HeadsKept
<1>14. RunInv(r)'
  BY <1>1, <1>2, <1>4, <1>5, <1>6, <1>8
  DEF RunInv, CheckoutRun, WorktreeRun, BranchRun, EndedRun, OnBranch, Isolated, Working,
      CheckoutSteps, WorktreeSteps
<1> QED BY <1>9, <1>11, <1>12, <1>13, <1>14 DEF Kept

(* A step in a worktree that leaves its branch where it can be found. *)
LEMMA WorktreeKeeps ==
  ASSUME IInv, NEW r \in Runs, Isolated(r), NEW t \in Trees, SetHere(r, t),
         NEW q, pc' = [pc EXCEPT ![r] = q],
         UNCHANGED <<mode, plan, effective, result, dirs, unclean>>,
         \A s \in Runs \ {r} : temp'[s] = temp[s] /\ (s \in strayed' <=> s \in strayed),
         \A s \in Runs \ {r} : ~Exists(s) => branch'[s] = None,
         \A p \in Places \ {r} : tree[p] # None =>
           tree[p].head # t.head /\ branch'[tree[p].head] = branch[tree[p].head],
         branch'[r] # None => temp'[r] \/ r \in strayed' \/ r \in unclean, branch'[t.head] # None,
         \/ pc[r] = "refine" /\ q = "branch"
         \/ pc[r] = "branch" /\ q = "changed" /\ t.head = plan[r].branch
         \/ pc[r] = "commit" /\ q = "push" /\ t.head = plan[r].branch
  PROVE  /\ pc' \in [Runs -> Steps]
         /\ tree' \in [Places -> Trees \cup {None}] /\ tree'[Base] \in Trees
         /\ Effect(r) /\ RunInv(r)' /\ Exclusive' /\ Heads'
<1>1. TypeOK /\ RunInv(r) /\ Working(r) /\ Place(r) = r
  BY DEF IInv, Working, Place
<1>2. pc' \in [Runs -> Steps] /\ pc'[r] = q
  BY <1>1 DEF TypeOK, Steps
<1>3. /\ Effect(r) /\ Exclusive' /\ Heads'
      /\ tree' \in [Places -> Trees \cup {None}] /\ tree'[Base] \in Trees
      /\ tree'[r] = t
  BY <1>1, PlaceEffect, ZenonT(60)
<1>4. t # None
  BY NoneAssumption
<1>5. CheckoutRun(r)' /\ EndedRun(r)'
  BY <1>2 DEF CheckoutRun, EndedRun, Isolated
<1>6. WorktreeRun(r)'
  BY <1>1, <1>2, <1>3, <1>4 DEF RunInv, WorktreeRun, WorktreeSteps, Isolated, Working, Exists
<1>7. BranchRun(r)'
  BY <1>1, <1>2, <1>3 DEF RunInv, WorktreeRun, BranchRun, OnBranch, Isolated, Here, Place
<1> QED BY <1>2, <1>3, <1>5, <1>6, <1>7 DEF RunInv

LEMMA RefineKeeps == ASSUME IInv, NEW r \in Runs, Refine(r) PROVE Kept(r)
<1>1. TypeOK /\ Heads /\ RunInv(r)
  BY DEF IInv
<1>2. /\ pc[r] = "refine" /\ pc' = [pc EXCEPT ![r] = "branch"]
      /\ UNCHANGED <<mode, plan, effective, remote, pulls, applied, temp, commit, delta, result,
                     dirs, unclean, strayed>>
  BY DEF Refine, Goto, disk
<1>3. Isolated(r) /\ r \in BranchNames /\ r \in Places /\ Runs \subseteq BranchNames
  BY <1>1, <1>2 DEF RunInv, CheckoutRun, CheckoutSteps, BranchNames, Places
<1>4. tree[r] # None /\ tree[r].head = r /\ Exists(r)
  BY <1>1, <1>2, <1>3 DEF RunInv, WorktreeRun, Working, Heads
<1>5. PICK b \in BranchNames, t \in Trees, cs \in SUBSET Changes :
        /\ b = r \/ ~CheckedOut(b)
        /\ b \in Runs => Exists(b)
        /\ t.head = b /\ SetHere(r, t)
        /\ branch' = [branch EXCEPT ![b] = cs]
  <2>1. PICK fs \in SUBSET Files, b \in BranchNames :
          LET made == fs \X {r}
              from == IF Exists(b) THEN branch[b] ELSE branch[r] IN
            /\ b = r \/ ~CheckedOut(b)
            /\ b \in Runs => Exists(b)
            /\ \/ /\ SetHere(r, [head |-> b, dirty |-> made, index |-> {}])
                  /\ branch' = [branch EXCEPT ![b] = from]
               \/ /\ SetHere(r, [head |-> b, dirty |-> {}, index |-> made])
                  /\ branch' = [branch EXCEPT ![b] = from]
               \/ /\ SetHere(r, [head |-> b, dirty |-> {}, index |-> {}])
                  /\ branch' = [branch EXCEPT ![b] = from \cup made]
    BY DEF Refine
  <2> DEFINE made == fs \X {r}
             from == IF Exists(b) THEN branch[b] ELSE branch[r]
  <2>2. made \in SUBSET Changes /\ {} \in SUBSET Changes
    BY DEF Changes, Authors
  <2>3. from \in SUBSET Changes
    BY <1>1, <1>3, <1>4 DEF TypeOK, Exists
  <2>4. /\ [head |-> b, dirty |-> made, index |-> {}] \in Trees
        /\ [head |-> b, dirty |-> {}, index |-> made] \in Trees
        /\ [head |-> b, dirty |-> {}, index |-> {}] \in Trees
    BY <2>2 DEF Trees
  <2>5. from \cup made \in SUBSET Changes
    BY <2>2, <2>3
  <2>6. \/ /\ SetHere(r, [head |-> b, dirty |-> made, index |-> {}])
           /\ branch' = [branch EXCEPT ![b] = from]
        \/ /\ SetHere(r, [head |-> b, dirty |-> {}, index |-> made])
           /\ branch' = [branch EXCEPT ![b] = from]
        \/ /\ SetHere(r, [head |-> b, dirty |-> {}, index |-> {}])
           /\ branch' = [branch EXCEPT ![b] = from \cup made]
    BY <2>1
  <2> HIDE DEF made, from
  <2>7. \E t \in Trees, cs \in SUBSET Changes :
          t.head = b /\ SetHere(r, t) /\ branch' = [branch EXCEPT ![b] = cs]
    <3>1. CASE /\ SetHere(r, [head |-> b, dirty |-> made, index |-> {}])
               /\ branch' = [branch EXCEPT ![b] = from]
      BY <2>3, <2>4, <3>1
    <3>2. CASE /\ SetHere(r, [head |-> b, dirty |-> {}, index |-> made])
               /\ branch' = [branch EXCEPT ![b] = from]
      BY <2>3, <2>4, <3>2
    <3>3. CASE /\ SetHere(r, [head |-> b, dirty |-> {}, index |-> {}])
               /\ branch' = [branch EXCEPT ![b] = from \cup made]
      BY <2>4, <2>5, <3>3
    <3> QED BY <2>6, <3>1, <3>2, <3>3
  <2> QED BY <2>1, <2>7
<1>6. cs # None
  BY NoneAssumption
<1>7. /\ branch' \in [BranchNames -> (SUBSET Changes) \cup {None}]
      /\ branch'[b] = cs
      /\ \A c \in BranchNames \ {b} : branch'[c] = branch[c]
  BY <1>1, <1>5 DEF TypeOK
<1>8. ASSUME NEW p \in Places \ {r}, tree[p] # None
      PROVE  tree[p].head # b /\ branch'[tree[p].head] = branch[tree[p].head]
  <2>1. tree[p].head # b
    <3>1. CASE b = r
      BY <1>1, <1>3, <1>4, <1>8, <3>1 DEF Heads
    <3>2. CASE ~CheckedOut(b)
      BY <1>8, <3>2 DEF CheckedOut
    <3> QED BY <1>5, <3>1, <3>2
  <2>2. tree[p].head \in BranchNames
    BY <1>1, <1>8 DEF TypeOK, Trees
  <2> QED BY <1>7, <2>1, <2>2
<1>9. \A s \in Runs \ {r} : ~Exists(s) => branch'[s] = None
  BY <1>3, <1>5, <1>7 DEF Exists
<1>10. /\ pc' \in [Runs -> Steps]
       /\ tree' \in [Places -> Trees \cup {None}] /\ tree'[Base] \in Trees
       /\ Effect(r) /\ RunInv(r)' /\ Exclusive' /\ Heads'
  <2>1. temp'[r] \/ r \in strayed' \/ r \in unclean
    BY <1>1, <1>2, <1>3, <1>4 DEF RunInv, WorktreeRun
  <2>2. branch'[t.head] # None
    BY <1>5, <1>6, <1>7
  <2>3. \A p \in Places \ {r} : tree[p] # None =>
          tree[p].head # t.head /\ branch'[tree[p].head] = branch[tree[p].head]
    BY <1>5, <1>8
  <2>4. \A s \in Runs \ {r} : temp'[s] = temp[s] /\ (s \in strayed' <=> s \in strayed)
    BY <1>2
  <2>5. SetHere(r, t)
    BY <1>5
  <2>6. UNCHANGED <<mode, plan, effective, result, dirs, unclean>>
    BY <1>2
  <2> QED BY <1>2, <1>3, <1>9, <2>1, <2>2, <2>3, <2>4, <2>5, <2>6, WorktreeKeeps
<1>11. TypeOK'
  BY <1>1, <1>2, <1>7, <1>10 DEF TypeOK
<1> QED BY <1>10, <1>11 DEF Kept

LEMMA EnsureBranchKeeps == ASSUME IInv, NEW r \in Runs, EnsureBranch(r) PROVE Kept(r)
<1> DEFINE b == effective[r].branch
           h == Here(r).head
<1>1. TypeOK /\ Heads /\ RunInv(r)
  BY DEF IInv
<1>2. /\ pc[r] = "branch" /\ pc' = [pc EXCEPT ![r] = "changed"]
      /\ UNCHANGED <<mode, plan, effective, remote, pulls, applied, commit, delta, result, dirs, unclean>>
  BY DEF EnsureBranch, Goto
<1>3. Isolated(r)
  BY <1>1, <1>2 DEF RunInv, CheckoutRun, CheckoutSteps
<1>4. /\ b = plan[r].branch /\ Here(r) = tree[r]
      /\ Exists(r) => temp[r] \/ r \in strayed \/ r \in unclean
  BY <1>1, <1>2, <1>3 DEF RunInv, WorktreeRun, Here, Place
<1>5. /\ b \in Branches /\ b \in BranchNames /\ b \notin Runs /\ r \in BranchNames
      /\ r \in Places /\ Runs \subseteq BranchNames
  BY <1>1, InfraAssumption DEF TypeOK, Plans, BranchNames, Places
<1>6. Here(r) \in Trees /\ Here(r) # None /\ h \in BranchNames
  BY <1>2, PlaceIsTree DEF Working, Trees
<1>7. Exists(h) /\ \A p \in Places \ {r} : tree[p] # None => tree[p].head # h
  BY <1>1, <1>4, <1>5, <1>6 DEF Heads
<1>8. CASE Here(r).head = b /\ UNCHANGED <<tree, branch, temp, strayed>>
  <2>1. SetHere(r, Here(r))
    BY <1>1, <1>3, <1>8 DEF SetHere, Here, TypeOK
  <2>2. /\ branch'[r] # None => temp'[r] \/ r \in strayed' \/ r \in unclean
        /\ branch'[Here(r).head] # None
        /\ Here(r).head = plan[r].branch
        /\ \A s \in Runs : ~Exists(s) => branch'[s] = None
    BY <1>4, <1>7, <1>8 DEF Exists
  <2> HIDE DEF b, h
  <2>3. /\ pc' \in [Runs -> Steps]
        /\ tree' \in [Places -> Trees \cup {None}] /\ tree'[Base] \in Trees
        /\ Effect(r) /\ RunInv(r)' /\ Exclusive' /\ Heads'
    <3>1. \A p \in Places \ {r} : tree[p] # None => tree[p].head # Here(r).head
      BY <1>7 DEF h
    <3>2. /\ \A s \in Runs \ {r} : temp'[s] = temp[s] /\ (s \in strayed' <=> s \in strayed)
          /\ \A p \in Places \ {r} : tree[p] # None =>
               /\ tree[p].head # Here(r).head
               /\ branch'[tree[p].head] = branch[tree[p].head]
      BY <1>8, <3>1
    <3> QED BY <1>2, <1>3, <1>6, <2>1, <2>2, <3>2, WorktreeKeeps
  <2>4. TypeOK'
    BY <1>1, <1>2, <1>8, <2>3 DEF TypeOK
  <2> QED BY <2>3, <2>4 DEF Kept
<1>9. CASE /\ h # b /\ ~Exists(b)
           /\ SetHere(r, [Here(r) EXCEPT !.head = b])
           /\ branch' = [branch EXCEPT ![b] = branch[h], ![h] = None]
           /\ temp' = [temp EXCEPT ![r] = FALSE]
           /\ strayed' = IF h = r THEN strayed ELSE strayed \cup {r}
  <2> DEFINE t == [Here(r) EXCEPT !.head = b]
  <2>1. t \in Trees /\ t.head = b /\ SetHere(r, t)
    BY <1>5, <1>6, <1>9 DEF Trees
  <2>2. /\ branch' \in [BranchNames -> (SUBSET Changes) \cup {None}]
        /\ branch'[b] = branch[h] /\ branch'[h] = None
        /\ \A c \in BranchNames \ {b, h} : branch'[c] = branch[c]
        /\ temp' \in [Runs -> BOOLEAN] /\ \A s \in Runs \ {r} : temp'[s] = temp[s]
    BY <1>1, <1>5, <1>6, <1>9 DEF TypeOK
  <2>3. \A p \in Places \ {r} : tree[p] # None =>
          tree[p].head # b /\ branch'[tree[p].head] = branch[tree[p].head]
    <3>1. \A p \in Places : tree[p] # None => tree[p].head # b /\ tree[p].head \in BranchNames
      BY <1>1, <1>9 DEF Heads, TypeOK, Trees
    <3> QED BY <1>7, <2>2, <3>1
  <2>4. \A s \in Runs : ~Exists(s) => branch'[s] = None
    BY <1>5, <2>2 DEF Exists
  <2>5. branch'[t.head] # None
    BY <1>7, <2>1, <2>2 DEF Exists
  <2>6. /\ strayed' \subseteq Runs
        /\ \A s \in Runs \ {r} : s \in strayed' <=> s \in strayed
        /\ branch'[r] # None => r \in strayed'
    BY <1>1, <1>9, <2>2 DEF TypeOK
  <2>7. t.head = plan[r].branch
    BY <1>4, <2>1
  <2> HIDE DEF t, b, h
  <2>8. /\ pc' \in [Runs -> Steps]
        /\ tree' \in [Places -> Trees \cup {None}] /\ tree'[Base] \in Trees
        /\ Effect(r) /\ RunInv(r)' /\ Exclusive' /\ Heads'
    <3>1. \A s \in Runs \ {r} : temp'[s] = temp[s] /\ (s \in strayed' <=> s \in strayed)
      BY <2>2, <2>6
    <3>2. \A p \in Places \ {r} : tree[p] # None =>
            tree[p].head # t.head /\ branch'[tree[p].head] = branch[tree[p].head]
      BY <2>1, <2>3
    <3>3. branch'[r] # None => temp'[r] \/ r \in strayed' \/ r \in unclean
      BY <2>6
    <3>4. \A s \in Runs \ {r} : ~Exists(s) => branch'[s] = None
      BY <2>4
    <3>5. t \in Trees /\ SetHere(r, t)
      BY <2>1
    <3>6. UNCHANGED <<mode, plan, effective, result, dirs, unclean>>
      BY <1>2
    <3> QED BY <1>2, <1>3, <2>5, <2>7, <3>1, <3>2, <3>3, <3>4, <3>5, <3>6, WorktreeKeeps
  <2>9. TypeOK'
    BY <1>1, <1>2, <2>2, <2>6, <2>8 DEF TypeOK
  <2> QED BY <2>8, <2>9 DEF Kept
<1> QED BY <1>8, <1>9 DEF EnsureBranch

(* Where a run commits. *)
LEMMA CommitBranch ==
  ASSUME IInv, NEW r \in Runs, pc[r] \in {"add", "commit", "push", "pr"}
  PROVE  /\ Here(r) \in Trees /\ Here(r) # None /\ Here(r).head = effective[r].branch
         /\ effective[r].branch \in Branches /\ effective[r].branch \in BranchNames
         /\ branch[effective[r].branch] \in SUBSET Changes /\ Exists(effective[r].branch)
<1>1. TypeOK /\ Heads /\ RunInv(r)
  BY DEF IInv
<1>2. effective[r].branch \in Branches /\ effective[r].branch \in BranchNames
  BY <1>1 DEF TypeOK, Plans, BranchNames
<1>3. Here(r) \in Trees /\ Here(r) # None /\ Place(r) \in Places
  BY PlaceIsTree DEF Working
<1>4. Here(r).head = effective[r].branch
  BY <1>1 DEF RunInv, BranchRun, OnBranch
<1>5. Exists(effective[r].branch)
  BY <1>1, <1>3, <1>4 DEF Heads, Here
<1> QED BY <1>1, <1>2, <1>3, <1>4, <1>5 DEF TypeOK, Exists

(* A run in place on the branch of its plan. *)
LEMMA CheckoutKeepsInvariant ==
  ASSUME IInv, NEW r \in Runs, ~Isolated(r), NEW t \in Trees, SetHere(r, t),
         NEW q, pc' = [pc EXCEPT ![r] = q],
         UNCHANGED <<mode, plan, effective, temp, result, disk>>,
         \A s \in Runs : branch'[s] = branch[s],
         \A p \in Places \ {Base} : tree[p] # None =>
           tree[p].head # t.head /\ branch'[tree[p].head] = branch[tree[p].head],
         t.head = effective[r].branch, branch'[t.head] # None,
         \/ pc[r] = "checkout" /\ q = "add"
         \/ pc[r] = "commit" /\ q = "push"
  PROVE  /\ pc' \in [Runs -> Steps]
         /\ tree' \in [Places -> Trees \cup {None}] /\ tree'[Base] \in Trees
         /\ Effect(r) /\ RunInv(r)' /\ Exclusive' /\ Heads'
<1>1. TypeOK /\ Exclusive /\ Heads /\ RunInv(r)
  BY DEF IInv
<1>2. /\ r \in Places /\ Base # r /\ Place(r) = Base /\ Working(r)
      /\ UNCHANGED <<dirs, unclean, strayed>>
  BY InfraAssumption DEF Places, Place, Working, disk
<1>3. /\ Effect(r) /\ Exclusive' /\ Heads'
      /\ tree' \in [Places -> Trees \cup {None}] /\ tree'[Base] \in Trees
      /\ tree'[Base] = t /\ tree'[r] = tree[r]
  <2>1. \A s \in Runs : ~Exists(s) => branch'[s] = None
    BY DEF Exists
  <2> QED BY <1>2, <2>1, PlaceEffect, ZenonT(60)
<1>4. pc' \in [Runs -> Steps] /\ pc'[r] = q
  BY <1>1 DEF TypeOK, Steps
<1>5. CheckoutRun(r)' /\ WorktreeRun(r)'
  BY <1>1, <1>2, <1>3, <1>4 DEF RunInv, CheckoutRun, CheckoutSteps, WorktreeRun, Isolated, Exists
<1>6. BranchRun(r)' /\ EndedRun(r)'
  BY <1>3, <1>4 DEF BranchRun, EndedRun, OnBranch, Isolated, Here, Place
<1> QED BY <1>3, <1>4, <1>5, <1>6 DEF RunInv

LEMMA CheckoutKeeps == ASSUME IInv, NEW r \in Runs, Checkout(r) PROVE Kept(r)
<1> DEFINE b == effective[r].branch
           t == [Here(r) EXCEPT !.head = b]
<1>1. TypeOK /\ Heads /\ RunInv(r)
  BY DEF IInv
<1>2. /\ pc[r] = "checkout" /\ pc' = [pc EXCEPT ![r] = "add"] /\ ~Exists(b)
      /\ branch' = [branch EXCEPT ![b] = branch[Here(r).head]] /\ SetHere(r, t)
      /\ UNCHANGED <<mode, plan, effective, remote, pulls, applied, temp, commit, delta, result, disk>>
  BY DEF Checkout, Goto
<1>3. ~Isolated(r)
  BY <1>1, <1>2 DEF RunInv, WorktreeRun, WorktreeSteps
<1>4. b \in Branches /\ b \in BranchNames /\ Runs \subseteq BranchNames /\ b \notin Runs
  BY <1>1, InfraAssumption DEF TypeOK, Plans, BranchNames
<1>5. Here(r) \in Trees /\ Here(r) # None /\ Here(r) = tree[Base] /\ Base \in Places
  BY <1>2, <1>3, PlaceIsTree DEF Working, Here, Place, Places
<1>6. t \in Trees /\ t.head = b /\ branch[Here(r).head] \in SUBSET Changes
  BY <1>1, <1>4, <1>5 DEF Trees, TypeOK, Heads, Exists
<1>7. /\ branch' \in [BranchNames -> (SUBSET Changes) \cup {None}]
      /\ branch'[b] = branch[Here(r).head] /\ branch'[b] # None
      /\ \A c \in BranchNames \ {b} : branch'[c] = branch[c]
  BY <1>1, <1>2, <1>4, <1>6, NoneAssumption DEF TypeOK
<1>8. /\ \A s \in Runs : branch'[s] = branch[s]
      /\ \A p \in Places : tree[p] # None =>
           tree[p].head # b /\ branch'[tree[p].head] = branch[tree[p].head]
  <2>1. \A p \in Places : tree[p] # None => tree[p].head # b /\ tree[p].head \in BranchNames
    BY <1>1, <1>2 DEF Heads, TypeOK, Trees
  <2> QED BY <1>4, <1>7, <2>1
<1> HIDE DEF b
<1>9. /\ pc' \in [Runs -> Steps]
      /\ tree' \in [Places -> Trees \cup {None}] /\ tree'[Base] \in Trees
      /\ Effect(r) /\ RunInv(r)' /\ Exclusive' /\ Heads'
  <2>1. branch'[t.head] # None /\ t.head = effective[r].branch
    BY <1>6, <1>7 DEF b
  <2>2. \A p \in Places \ {Base} : tree[p] # None =>
          tree[p].head # t.head /\ branch'[tree[p].head] = branch[tree[p].head]
    BY <1>6, <1>8
  <2> HIDE DEF t
  <2> QED BY <1>2, <1>3, <1>6, <1>8, <2>1, <2>2, CheckoutKeepsInvariant
<1>10. TypeOK'
  BY <1>1, <1>2, <1>7, <1>9 DEF TypeOK, disk
<1> QED BY <1>9, <1>10 DEF Kept

LEMMA CommitKeeps == ASSUME IInv, NEW r \in Runs, Commit(r) PROVE Kept(r)
<1> DEFINE h == Here(r).head
           t == [Here(r) EXCEPT !.index = {}]
<1>1. TypeOK /\ Heads /\ RunInv(r)
  BY DEF IInv
<1>2. /\ pc[r] = "commit" /\ pc' = [pc EXCEPT ![r] = "push"] /\ SetHere(r, t)
      /\ branch' = [branch EXCEPT ![h] = @ \cup Here(r).index]
      /\ delta' = [delta EXCEPT ![r] = Here(r).index] /\ commit' = [commit EXCEPT ![r] = branch'[h]]
      /\ UNCHANGED <<mode, plan, effective, remote, pulls, applied, temp, result, disk>>
  BY DEF Commit, Goto
<1>3. /\ Here(r) \in Trees /\ Here(r) # None /\ h = effective[r].branch
      /\ h \in Branches /\ h \in BranchNames /\ branch[h] \in SUBSET Changes
  BY <1>2, CommitBranch
<1>4. Runs \subseteq BranchNames /\ h \notin Runs
  BY <1>3, InfraAssumption DEF BranchNames
<1>5. t \in Trees /\ t.head = h /\ Here(r).index \in SUBSET Changes
  BY <1>3 DEF Trees
<1>6. Place(r) \in Places /\ Here(r) = tree[Place(r)]
  BY <1>2, PlaceIsTree DEF Working, Here
<1> HIDE DEF t, h
<1>7. /\ branch' \in [BranchNames -> (SUBSET Changes) \cup {None}]
      /\ branch'[h] = branch[h] \cup Here(r).index /\ branch'[h] \in SUBSET Changes
      /\ branch'[h] # None
      /\ \A c \in BranchNames \ {h} : branch'[c] = branch[c]
  BY <1>1, <1>2, <1>3, <1>5, NoneAssumption DEF TypeOK
<1>8. \A p \in Places \ {Place(r)} : tree[p] # None =>
        tree[p].head # h /\ branch'[tree[p].head] = branch[tree[p].head]
  <2>1. \A p \in Places \ {Place(r)} : tree[p] # None => tree[p].head # h /\ tree[p].head \in BranchNames
    BY <1>1, <1>3, <1>6 DEF Heads, TypeOK, Trees, h
  <2> QED BY <1>7, <2>1
<1>9. commit' \in [Runs -> (SUBSET Changes) \cup {None}] /\ delta' \in [Runs -> SUBSET Changes]
  BY <1>1, <1>2, <1>5, <1>7 DEF TypeOK
<1>10. /\ pc' \in [Runs -> Steps]
       /\ tree' \in [Places -> Trees \cup {None}] /\ tree'[Base] \in Trees
       /\ Effect(r) /\ RunInv(r)' /\ Exclusive' /\ Heads'
  <2>1. /\ branch'[t.head] # None /\ t.head = effective[r].branch
        /\ \A s \in Runs : branch'[s] = branch[s]
        /\ \A s \in Runs : ~Exists(s) => branch'[s] = None
    BY <1>3, <1>4, <1>5, <1>7 DEF Exists
  <2>2. CASE Isolated(r)
    <3>1. effective[r] = plan[r] /\ (Exists(r) => temp[r] \/ r \in strayed \/ r \in unclean)
      BY <1>1, <2>2 DEF RunInv, WorktreeRun
    <3>2. /\ UNCHANGED <<dirs, unclean, strayed, temp>>
          /\ branch'[r] # None => temp'[r] \/ r \in strayed' \/ r \in unclean
          /\ t.head = plan[r].branch
      BY <1>2, <2>1, <3>1 DEF Exists, disk
    <3>3. \A p \in Places \ {r} : tree[p] # None =>
            tree[p].head # t.head /\ branch'[tree[p].head] = branch[tree[p].head]
      BY <1>5, <1>8, <2>2 DEF Place
    <3> QED BY <1>2, <1>5, <2>1, <2>2, <3>2, <3>3, WorktreeKeeps
  <2>3. CASE ~Isolated(r)
    <3>1. \A p \in Places \ {Base} : tree[p] # None =>
            tree[p].head # t.head /\ branch'[tree[p].head] = branch[tree[p].head]
      BY <1>5, <1>8, <2>3 DEF Place
    <3> QED BY <1>2, <1>5, <2>1, <2>3, <3>1, CheckoutKeepsInvariant
  <2> QED BY <2>2, <2>3
<1>11. TypeOK'
  BY <1>1, <1>2, <1>7, <1>9, <1>10 DEF TypeOK, disk
<1> QED BY <1>10, <1>11 DEF Kept

(* Every step of a run. *)
LEMMA RunsKeep == ASSUME IInv, NEW r \in Runs, Step(r) PROVE Kept(r)
  BY CheckKeeps, AddWorktreeKeeps, AddFailsKeeps, RefineKeeps, AskKeeps, EnsureBranchKeeps,
     ListChangesKeeps, EditFileKeeps, EditPanicsKeeps, FmtKeeps, CheckoutKeeps, AddKeeps,
     CommitKeeps, PushBranchKeeps, OpenPullRequestKeeps, CommandFailsKeeps, CleanupStepKeeps, KillKeeps
  DEF Step

(* The steps of the operator. *)
UserStep ==
  \/ \E f \in Files : UserEdits(f)
  \/ UserStages
  \/ \E b \in Branches : UserPushes(b, Files \X {"user"})

LEMMA UserStepKeepsInvariant ==
  ASSUME IInv, UserStep
  PROVE  /\ IInv'
         /\ UNCHANGED <<mode, plan, effective, branch, pulls, pc, applied, temp, commit, delta, result,
                        dirs, unclean, strayed>>
         /\ tree'[Base].head = tree[Base].head /\ \A r \in Runs : tree'[r] = tree[r]
<1>1. TypeOK /\ Exclusive /\ Heads
  BY DEF IInv
<1>2. UNCHANGED <<mode, plan, effective, branch, pulls, pc, applied, temp, commit, delta, result,
                        dirs, unclean, strayed>>
  BY DEF UserStep, UserEdits, UserStages, UserPushes, disk
<1>3. Base \in Places /\ Runs \subseteq Places /\ Base \notin Runs
  BY InfraAssumption DEF Places
<1>4. /\ tree' \in [Places -> Trees \cup {None}] /\ tree'[Base] \in Trees
      /\ remote' \in [Branches -> (SUBSET Changes) \cup {None}]
      /\ tree'[Base].head = tree[Base].head /\ \A r \in Runs : tree'[r] = tree[r]
  <2>1. ASSUME NEW ds \in SUBSET Changes, NEW is \in SUBSET Changes,
               tree' = [tree EXCEPT ![Base].dirty = ds, ![Base].index = is]
        PROVE  /\ tree' \in [Places -> Trees \cup {None}] /\ tree'[Base] \in Trees
               /\ tree'[Base].head = tree[Base].head /\ \A r \in Runs : tree'[r] = tree[r]
    BY <1>1, <1>3, <2>1 DEF TypeOK, Trees
  <2>2. tree[Base].dirty \in SUBSET Changes /\ tree[Base].index \in SUBSET Changes
    BY <1>1 DEF TypeOK, Trees
  <2>3. ASSUME NEW f \in Files, UserEdits(f)
        PROVE  /\ tree' \in [Places -> Trees \cup {None}] /\ tree'[Base] \in Trees
               /\ tree'[Base].head = tree[Base].head /\ \A r \in Runs : tree'[r] = tree[r]
               /\ remote' = remote
    BY <1>1, <1>3, <2>3 DEF UserEdits, TypeOK, Trees, Changes, Authors
  <2>4. CASE UserStages
    <3>1. /\ tree' \in [Places -> Trees \cup {None}] /\ tree'[Base] \in Trees
          /\ tree'[Base].head = tree[Base].head /\ \A r \in Runs : tree'[r] = tree[r]
          /\ remote' = remote
      BY <1>1, <1>3, <2>2, <2>4 DEF UserStages, TypeOK, Trees
    <3> QED BY <1>1, <3>1 DEF TypeOK
  <2>5. ASSUME NEW b \in Branches, UserPushes(b, Files \X {"user"})
        PROVE  /\ tree' = tree
               /\ remote' \in [Branches -> (SUBSET Changes) \cup {None}]
    BY <1>1, <2>5 DEF UserPushes, TypeOK, Changes, Authors
  <2> QED BY <1>1, <2>3, <2>4, <2>5 DEF UserStep, TypeOK
<1>5. TypeOK'
  BY <1>1, <1>2, <1>4 DEF TypeOK
<1>6. Exclusive' /\ Heads'
  <2>1. tree[Base] # None /\ tree'[Base] # None
    BY <1>1, <1>4, NoneAssumption DEF TypeOK
  <2>2. \A p \in Places : tree'[p] # None => tree[p] # None /\ tree'[p].head = tree[p].head
    BY <1>4, <2>1 DEF Places
  <2> QED BY <1>1, <1>2, <2>2 DEF Exclusive, Active, Isolated, Heads, Exists, Places
<1>7. ASSUME NEW r \in Runs PROVE RunInv(r)'
  BY <1>2, <1>4
  DEF IInv, RunInv, CheckoutRun, WorktreeRun, BranchRun, EndedRun, OnBranch, Isolated, Working,
      Exists, Here, Place
<1> QED BY <1>2, <1>4, <1>5, <1>6, <1>7 DEF IInv

(* The invariant is inductive. *)
LEMMA NextInv == IInv /\ [Next]_vars => IInv'
<1> SUFFICES ASSUME IInv, [Next]_vars PROVE IInv'
  OBVIOUS
<1>1. ASSUME NEW r \in Runs, Step(r) PROVE IInv'
  <2>1. Kept(r)
    BY <1>1, RunsKeep
  <2>2. \A s \in Runs \ {r} : RunInv(s)'
    BY <2>1, OthersKeepInvariant DEF Kept
  <2> QED BY <2>1, <2>2 DEF Kept, IInv
<1>2. CASE UserStep
  BY <1>2, UserStepKeepsInvariant
<1>3. CASE UNCHANGED vars
  BY <1>3
  DEF IInv, TypeOK, Exclusive, Heads, RunInv, CheckoutRun, WorktreeRun, BranchRun,
      EndedRun, OnBranch, Isolated, Active, Working, Exists, Here, Place, Places, vars
<1> QED BY <1>1, <1>2, <1>3 DEF Next, UserStep

LEMMA Invariant == Spec => []IInv
  BY InitInv, NextInv, PTL DEF Spec

(* The state of the runs and of the repositories is always of its type. *)
THEOREM TypeCorrect == Spec => []TypeOK
<1>1. IInv => TypeOK
  BY DEF IInv
<1> QED BY <1>1, Invariant, PTL

(* The deferred Cleanup of Apply: however a run ended, short of a kill,    *)
(* whatever its agent left in the worktree and whatever ran beside it, its *)
(* worktree and the directory are gone unless git failed to make or to     *)
(* remove them, and so is its temporary branch unless the agent ended on a *)
(* third one, which EnsureBranch takes for it.                             *)
THEOREM TemporaryFilesAreRemoved == Spec => []NothingTemporaryIsLeft
<1>1. IInv => NothingTemporaryIsLeft
  BY DEF IInv, RunInv, EndedRun, NothingTemporaryIsLeft
<1> QED BY <1>1, Invariant, PTL

-----------------------------------------------------------------------------
(* README: an external agent works in its worktree, "instead of editing    *)
(* the main working tree directly".  For any number of runs, whatever      *)
(* fails, is killed or runs at the same time, and whatever the operator    *)
(* does meanwhile: the checkout stays on main, main has no new commit, and *)
(* every edit in the checkout is its user's.                               *)
THEOREM CheckoutIsLeftAlone == Spec => []IsolatedRunsLeaveCheckoutAlone
<1> USE DEF IsolatedRunsLeaveCheckoutAlone
<1>1. Init => IsolatedRunsLeaveCheckoutAlone
  BY DEF Init, Places, BranchNames
<1>2. ASSUME IInv, IsolatedRunsLeaveCheckoutAlone, [Next]_vars PROVE IsolatedRunsLeaveCheckoutAlone'
  <2>1. ASSUME NEW r \in Runs, Step(r) PROVE IsolatedRunsLeaveCheckoutAlone'
    <3>1. Effect(r)
      BY <1>2, <2>1, RunsKeep DEF Kept
    <3>2. Base \in Places /\ Base \notin Runs /\ tree[Base] # None
      BY <1>2, InfraAssumption, NoneAssumption DEF Places, IInv, TypeOK
    <3>3. Isolated(r) => PlaceLeft(Base)
      BY <3>1, <3>2 DEF Effect, Place
    <3> QED BY <1>2, <3>1, <3>2, <3>3 DEF Effect, PlaceLeft, Isolated
  <2>2. CASE UserStep
    <3>1. branch' = branch /\ mode' = mode /\ tree'[Base].head = tree[Base].head
      BY <1>2, <2>2, UserStepKeepsInvariant
    <3>2. ASSUME \A c \in tree[Base].dirty \cup tree[Base].index : c[2] = "user"
          PROVE  \A c \in tree'[Base].dirty \cup tree'[Base].index : c[2] = "user"
      <4>1. tree \in [Places -> Trees \cup {None}] /\ tree[Base] \in Trees /\ Base \in Places
        BY <1>2 DEF IInv, TypeOK, Places
      <4>2. CASE UserStages
        BY <3>2, <4>1, <4>2 DEF UserStages, Trees
      <4>3. ASSUME NEW f \in Files, UserEdits(f)
            PROVE  \A c \in tree'[Base].dirty \cup tree'[Base].index : c[2] = "user"
        BY <3>2, <4>1, <4>3 DEF UserEdits, Trees
      <4>4. ASSUME NEW b \in Branches, UserPushes(b, Files \X {"user"})
            PROVE  tree' = tree
        BY <4>4 DEF UserPushes
      <4> QED BY <2>2, <3>2, <4>2, <4>3, <4>4 DEF UserStep
    <3> QED BY <1>2, <3>1, <3>2 DEF Isolated
  <2>3. CASE UNCHANGED vars
    BY <1>2, <2>3 DEF Isolated, vars
  <2> QED BY <1>2, <2>1, <2>2, <2>3 DEF Next, UserStep
<1> QED BY <1>1, <1>2, Invariant, PTL DEF Spec

-----------------------------------------------------------------------------
(* What a run does where it is. *)
LEMMA OwnPlace ==
  ASSUME IInv, NEW r \in Runs, Step(r), Working(r), OwnTree(Here(r), r), tree'[Place(r)] # None
  PROVE  OwnTree(tree'[Place(r)], r)
<1>1. TypeOK /\ Here(r) \in Trees /\ Place(r) \in Places
  BY PlaceIsTree DEF IInv
<1>2. ASSUME NEW t, SetHere(r, t), OwnTree(t, r) PROVE OwnTree(tree'[Place(r)], r)
  <2>1. tree'[Place(r)] = t
    BY <1>1, <1>2 DEF SetHere, TypeOK
  <2> QED BY <1>2, <2>1
<1>3. ASSUME UNCHANGED tree PROVE OwnTree(tree'[Place(r)], r)
  BY <1>3 DEF Here
<1>4. CASE Check(r) \/ Ask(r) \/ ListChanges(r) \/ EditPanics(r) \/ PushBranch(r)
             \/ OpenPullRequest(r) \/ CommandFails(r) \/ Kill(r)
  BY <1>3, <1>4 DEF Check, Ask, ListChanges, EditPanics, PushBranch, OpenPullRequest, CommandFails,
                    Kill, repo
<1>5. CASE AddWorktree(r) \/ AddFails(r) \/ CleanupStep(r)
  <2>1. pc[r] = "remove" /\ (tree' = tree \/ tree' = [tree EXCEPT ![r] = None])
    BY <1>5 DEF AddWorktree, AddFails, CleanupStep, RemoveWorktree, Prune, DeleteTempBranch, RemoveDir,
                CleanupFails, Goto, Working
  <2>2. Isolated(r)
    BY <2>1 DEF IInv, RunInv, CheckoutRun, CheckoutSteps
  <2> QED BY <1>1, <1>3, <2>1, <2>2 DEF TypeOK, Place
<1>6. CASE Refine(r)
  <2>1. PICK t : SetHere(r, t) /\ t \in [head : BranchNames, dirty : SUBSET (Files \X {r}),
                                         index : SUBSET (Files \X {r})]
    BY <1>6 DEF Refine
  <2>2. OwnTree(t, r)
    BY <2>1 DEF OwnTree
  <2> QED BY <1>2, <2>1, <2>2
<1>7. CASE EnsureBranch(r)
  <2>1. CASE UNCHANGED tree
    BY <1>3, <2>1
  <2>2. CASE SetHere(r, [Here(r) EXCEPT !.head = effective[r].branch])
    <3>1. OwnTree([Here(r) EXCEPT !.head = effective[r].branch], r)
      BY <1>1 DEF OwnTree, Trees
    <3> QED BY <1>2, <2>2, <3>1
  <2> QED BY <1>7, <2>1, <2>2 DEF EnsureBranch
<1>8. ASSUME NEW f \in Files, EditFile(r, f) PROVE OwnTree(tree'[Place(r)], r)
  <2>1. OwnTree([Here(r) EXCEPT !.dirty = @ \cup {<<f, r>>}], r)
    BY <1>1 DEF OwnTree, Trees
  <2> QED BY <1>2, <1>8, <2>1 DEF EditFile
<1>9. CASE Fmt(r)
  <2>1. PICK fs \in SUBSET Files :
          SetHere(r, [Here(r) EXCEPT !.dirty = @ \cup (fs \X {"fmt"})])
    BY <1>9 DEF Fmt
  <2>2. OwnTree([Here(r) EXCEPT !.dirty = @ \cup (fs \X {"fmt"})], r)
    BY <1>1 DEF OwnTree, Trees
  <2> QED BY <1>2, <2>1, <2>2
<1>10. CASE Checkout(r)
  <2>1. OwnTree([Here(r) EXCEPT !.head = effective[r].branch], r)
    BY <1>1 DEF OwnTree, Trees
  <2> QED BY <1>2, <1>10, <2>1 DEF Checkout
<1>11. CASE Add(r)
  <2> DEFINE added == {c \in Here(r).dirty : c[1] \in applied[r]}
  <2>1. OwnTree([Here(r) EXCEPT !.dirty = @ \ added, !.index = @ \cup added], r)
    BY <1>1 DEF OwnTree, Trees
  <2>2. SetHere(r, [Here(r) EXCEPT !.dirty = @ \ added, !.index = @ \cup added])
    BY <1>11 DEF Add
  <2> QED BY <1>2, <2>1, <2>2
<1>12. CASE Commit(r)
  <2>1. OwnTree([Here(r) EXCEPT !.index = {}], r)
    BY <1>1 DEF OwnTree, Trees
  <2> QED BY <1>2, <1>12, <2>1 DEF Commit
<1> QED BY <1>4, <1>5, <1>6, <1>7, <1>8, <1>9, <1>10, <1>11, <1>12 DEF Step

(* A run records the commit it makes; nothing else changes what was        *)
(* committed.                                                              *)
LEMMA CommitsAreKept ==
  ASSUME IInv, NEW r \in Runs, Step(r)
  PROVE  /\ \A s \in Runs \ {r} : commit'[s] = commit[s] /\ delta'[s] = delta[s]
         /\ Commit(r) \/ (commit' = commit /\ delta' = delta)
<1>1. Commit(r) \/ (commit' = commit /\ delta' = delta)
  BY DEF Step, Check, AddWorktree, AddFails, Refine, Ask, EnsureBranch, ListChanges, EditFile,
         EditPanics, Fmt, Checkout, Add, PushBranch, OpenPullRequest, CommandFails, CleanupStep,
         RemoveWorktree, Prune, DeleteTempBranch, RemoveDir, CleanupFails, Kill
<1>2. commit \in [Runs -> (SUBSET Changes) \cup {None}] /\ delta \in [Runs -> SUBSET Changes]
  BY DEF IInv, TypeOK
<1>3. CASE Commit(r)
  BY <1>2, <1>3 DEF Commit
<1> QED BY <1>1, <1>3

LEMMA OwnWorkIsKept ==
  ASSUME RequireClean, IInv, OwnWork, NEW r \in Runs, Step(r)
  PROVE  OwnWork'
<1>1. TypeOK /\ Exclusive /\ RunInv(r) /\ Effect(r) /\ TypeOK' /\ RunInv(r)'
  BY RunsKeep DEF IInv, Kept
<1>2. /\ \A s \in Runs \ {r} : commit'[s] = commit[s] /\ delta'[s] = delta[s]
      /\ Commit(r) \/ (commit' = commit /\ delta' = delta)
  BY CommitsAreKept
<1>3. mode' = mode /\ \A s \in Runs \ {r} : Aside(s)
  BY <1>1 DEF Effect
<1>4. ASSUME NEW s \in Runs \ {r}
      PROVE  /\ Isolated(s)' /\ tree'[s] # None => OwnTree(tree'[s], s)
             /\ ~Isolated(s)' /\ Active(s)' => OwnTree(tree'[Base], s)
             /\ \A c \in delta'[s] : c[2] \in {s, "fmt"}
  <2>1. Isolated(s)' = Isolated(s) /\ Active(s)' = Active(s)
    BY <1>3 DEF Aside, Isolated, Active
  <2>2. /\ tree'[s] # None => tree'[s] = tree[s]
        /\ ~Isolated(s) /\ Active(s) => tree'[Base] = tree[Base]
    BY <1>1, OtherPlace
  <2> QED BY <1>2, <2>1, <2>2 DEF OwnWork
<1>5. Isolated(r)' /\ tree'[r] # None => OwnTree(tree'[r], r)
  <2> SUFFICES ASSUME Isolated(r), tree'[r] # None PROVE OwnTree(tree'[r], r)
    BY <1>3 DEF Isolated
  <2>1. Place(r) = r
    BY DEF Place
  <2>2. CASE Working(r)
    <3>1. tree[r] # None
      BY <1>1, <2>2 DEF RunInv, WorktreeRun
    <3>2. OwnTree(Here(r), r)
      BY <2>1, <3>1 DEF OwnWork, Here
    <3> QED BY <2>1, <2>2, <3>2, OwnPlace
  <2>3. CASE ~Working(r)
    <3>1. pc[r] \in {"start", "worktree", "prune", "delete", "rmdir", "end"}
      BY <2>3 DEF Working
    <3>2. CASE AddWorktree(r) \/ AddFails(r)
      <4>1. tree'[r] \in {tree[r], [head |-> r, dirty |-> {}, index |-> {}]}
        BY <1>1, <3>2 DEF AddWorktree, AddFails, TypeOK, Places
      <4> QED BY <4>1 DEF OwnTree, OwnWork
    <3>3. CASE CleanupStep(r)
      <4>1. pc[r] # "remove" /\ r \in Places
        BY <3>1 DEF Places
      <4>2. tree'[r] = tree[r] \/ tree'[r] = None
        BY <1>1, <3>3, <4>1 DEF CleanupStep, RemoveWorktree, Prune, DeleteTempBranch, RemoveDir,
                                CleanupFails, Goto, repo, TypeOK
      <4> QED BY <4>2 DEF OwnWork
    <3>4. CASE ~AddWorktree(r) /\ ~AddFails(r) /\ ~CleanupStep(r)
      <4>1. Check(r) \/ CommandFails(r) \/ Kill(r)
        BY <3>1, <3>4 DEF Step, Refine, Ask, EnsureBranch, ListChanges, EditFile,
             EditPanics, Fmt, Checkout, Add, Commit, PushBranch, OpenPullRequest, Goto
      <4>2. tree' = tree
        BY <4>1 DEF Check, CommandFails, Kill, repo
      <4> QED BY <4>2 DEF OwnWork
    <3> QED BY <3>2, <3>3, <3>4
  <2> QED BY <2>2, <2>3
<1>6. ~Isolated(r)' /\ Active(r)' => OwnTree(tree'[Base], r)
  <2> SUFFICES ASSUME ~Isolated(r), Active(r)' PROVE OwnTree(tree'[Base], r)
    BY <1>3 DEF Isolated
  <2>1. Place(r) = Base
    BY DEF Place
  <2>2. CASE Active(r)
    <3>1. Working(r)
      BY <1>1, <2>2 DEF Active, Working, RunInv, CheckoutRun, CheckoutSteps
    <3>2. OwnTree(Here(r), r)
      BY <2>1, <2>2 DEF OwnWork, Here
    <3>3. tree'[Base] # None
      BY <1>1, NoneAssumption DEF TypeOK
    <3> QED BY <2>1, <3>1, <3>2, <3>3, OwnPlace
  <2>3. CASE ~Active(r)
    <3>1. Check(r)
      <4>1. pc[r] \in {"start", "end"} /\ ~Active(r) /\ pc'[r] \notin {"start", "end"}
        BY <2>3 DEF Active
      <4>2. Check(r) \/ CommandFails(r) \/ Kill(r)
        BY <4>1 DEF Step, CleanupStep, AddWorktree, AddFails, Refine, Ask, EnsureBranch, ListChanges,
             EditFile, EditPanics, Fmt, Checkout, Add, Commit, PushBranch, OpenPullRequest,
             RemoveWorktree, Prune, DeleteTempBranch, RemoveDir, CleanupFails, Goto
      <4>3. ~CommandFails(r)
        BY <1>1, <4>1 DEF CommandFails, Return, RunInv, CheckoutRun, TypeOK
      <4>4. ~Kill(r)
        BY <1>1, <4>1 DEF Kill, TypeOK
      <4> QED BY <4>2, <4>3, <4>4
    <3>2. Clean(tree[Base])
      <4>1. ~Return(r, "refused")
        BY <1>1 DEF Return, RunInv, CheckoutRun, TypeOK, Active
      <4> QED BY <3>1, <4>1 DEF Check
    <3>3. tree' = tree
      BY <3>1 DEF Check, repo
    <3> QED BY <3>2, <3>3 DEF OwnTree, Clean
  <2> QED BY <2>2, <2>3
<1>7. \A c \in delta'[r] : c[2] \in {r, "fmt"}
  <2>1. CASE Commit(r)
    <3>1. pc[r] = "commit" /\ delta' = [delta EXCEPT ![r] = Here(r).index]
      BY <2>1 DEF Commit, Goto
    <3>2. OwnTree(Here(r), r)
      BY <1>1, <3>1 DEF OwnWork, RunInv, WorktreeRun, Working, Active, Here, Place
    <3> QED BY <1>1, <3>1, <3>2 DEF OwnTree, TypeOK
  <2>2. CASE delta' = delta
    BY <2>2 DEF OwnWork
  <2> QED BY <1>2, <2>1, <2>2
<1> QED BY <1>4, <1>5, <1>6, <1>7 DEF OwnWork

(* With --require-clean-repo, what a run commits is its own work and the   *)
(* formatter's: no edit of the operator, of a run beside it, or of a run   *)
(* that failed before gets into its commit, in whichever modes the runs    *)
(* work and however many there are.  (Without the option it is not so: in  *)
(* place, git add and the index pick up what they find.)                   *)
THEOREM CommitsAreOwnWork ==
  ASSUME RequireClean
  PROVE  Spec => []CommitIsOwnWork
<1>1. Init => OwnWork
  <2> SUFFICES ASSUME Init, NEW r \in Runs
               PROVE  tree[r] = None /\ ~Active(r) /\ delta[r] = {}
    BY DEF OwnWork
  <2> QED BY InfraAssumption DEF Init, Places, Active
<1>2. ASSUME IInv, OwnWork, [Next]_vars PROVE OwnWork'
  <2>1. ASSUME NEW r \in Runs, Step(r) PROVE OwnWork'
    BY <1>2, <2>1, OwnWorkIsKept
  <2>2. CASE UserStep
    <3>1. /\ UNCHANGED <<mode, pc, delta>>
          /\ \A r \in Runs : tree'[r] = tree[r]
      BY <1>2, <2>2, UserStepKeepsInvariant
    <3>2. ASSUME NEW r \in Runs, ~Isolated(r), Active(r) PROVE tree' = tree
      BY <2>2, <3>2 DEF UserStep, UserEdits, UserStages, UserPushes, InUse, Active
    <3> QED BY <1>2, <3>1, <3>2 DEF OwnWork, Isolated, Active
  <2>3. CASE UNCHANGED vars
    BY <1>2, <2>3 DEF OwnWork, Isolated, Active, vars
  <2> QED BY <1>2, <2>1, <2>2, <2>3 DEF Next, UserStep
<1>3. OwnWork => CommitIsOwnWork
  BY DEF OwnWork, CommitIsOwnWork
<1> QED BY <1>1, <1>2, <1>3, Invariant, PTL DEF Spec

-----------------------------------------------------------------------------
(* What is on origin is only added to.  A run that has pushed has its      *)
(* branch there, and a pull request is opened by the last step of its run, *)
(* with what is on origin.                                                 *)
LEMMA OriginGrows ==
  ASSUME IInv, NEW r \in Runs, Step(r), NEW b \in Branches, remote[b] # None
  PROVE  remote'[b] # None /\ remote[b] \subseteq remote'[b]
<1>1. TypeOK
  BY DEF IInv
<1>2. CASE PushBranch(r)
  <2>1. effective[r].branch \in Branches
    BY <1>1 DEF TypeOK, Plans
  <2> QED BY <1>1, <1>2, <2>1 DEF PushBranch, CanPush, Exists, TypeOK
<1>3. CASE ~PushBranch(r)
  <2>1. remote' = remote
    BY <1>3 DEF Step, Check, AddWorktree, AddFails, Refine, Ask, EnsureBranch, ListChanges, EditFile,
         EditPanics, Fmt, Checkout, Add, Commit, OpenPullRequest, CommandFails, CleanupStep,
         RemoveWorktree, Prune, DeleteTempBranch, RemoveDir, CleanupFails, Kill, repo
  <2> QED BY <2>1
<1> QED BY <1>2, <1>3

LEMMA PulledAtTheEnd ==
  ASSUME IInv, NEW r \in Runs, Step(r), pulls' # pulls
  PROVE  /\ pc[r] = "pr" /\ pc'[r] \in {"remove", "end"} /\ commit' = commit
         /\ pulls' = pulls \cup {[run |-> r, files |-> applied[r],
                                  changes |-> remote[effective[r].branch]]}
<1>1. TypeOK
  BY DEF IInv
<1>2. OpenPullRequest(r)
  BY DEF Step, Check, AddWorktree, AddFails, Refine, Ask, EnsureBranch, ListChanges, EditFile,
         EditPanics, Fmt, Checkout, Add, Commit, PushBranch, CommandFails, CleanupStep,
         RemoveWorktree, Prune, DeleteTempBranch, RemoveDir, CleanupFails, Kill, repo
<1> QED BY <1>1, <1>2 DEF OpenPullRequest, Return, TypeOK

LEMMA PublishedIsKept ==
  ASSUME Push, IInv, Published, NEW r \in Runs, Step(r)
  PROVE  Published'
<1>1. TypeOK /\ RunInv(r) /\ Effect(r) /\ TypeOK'
  BY RunsKeep DEF IInv, Kept
<1>2. /\ \A s \in Runs \ {r} : commit'[s] = commit[s] /\ delta'[s] = delta[s]
      /\ Commit(r) \/ (commit' = commit /\ delta' = delta)
  BY CommitsAreKept
<1>3. \A s \in Runs \ {r} : Aside(s)
  BY <1>1 DEF Effect
<1>4. \A s \in Runs : effective[s].branch \in Branches
  BY <1>1 DEF TypeOK, Plans
<1>5. ASSUME NEW s \in Runs \ {r}, pc[s] \in {"push", "pr"}
      PROVE  branch'[effective[s].branch] = branch[effective[s].branch]
  <2>1. Here(s) # None /\ Here(s).head = effective[s].branch
    BY <1>5, CommitBranch
  <2>2. Active(s)
    BY <1>5 DEF Active
  <2> QED BY <1>1, <2>1, <2>2, OtherPlace
<1>6. ASSUME NEW s \in Runs, pc[s] = "pr"
      PROVE  /\ remote'[effective[s].branch] # None
             /\ remote[effective[s].branch] \subseteq remote'[effective[s].branch]
  BY <1>4, <1>6, OriginGrows DEF Published
<1>7. ASSUME NEW s \in Runs \ {r}
      PROVE  /\ pc'[s] \in {"push", "pr"} =>
                   commit'[s] # None /\ commit'[s] \subseteq branch'[effective'[s].branch]
             /\ pc'[s] = "pr" => /\ remote'[effective'[s].branch] # None
                                /\ commit'[s] \subseteq remote'[effective'[s].branch]
  <2>1. pc'[s] = pc[s] /\ effective'[s] = effective[s] /\ commit'[s] = commit[s]
    BY <1>2, <1>3 DEF Aside
  <2> QED BY <1>5, <1>6, <2>1 DEF Published
<1>8. CASE Commit(r)
  <2> DEFINE h == Here(r).head
  <2>1. /\ pc[r] = "commit" /\ pc' = [pc EXCEPT ![r] = "push"]
        /\ commit' = [commit EXCEPT ![r] = branch'[h]] /\ UNCHANGED <<effective, pulls>>
    BY <1>8 DEF Commit, Goto
  <2>2. h = effective[r].branch /\ h \in BranchNames /\ Exists(h) /\ h \in Branches
    BY <2>1, CommitBranch, NoneAssumption DEF Exists
  <2>3. pc'[r] = "push" /\ commit'[r] = branch'[effective'[r].branch] /\ commit'[r] # None
    <3>1. branch' = [branch EXCEPT ![h] = @ \cup Here(r).index] /\ branch[h] \in SUBSET Changes
      BY <1>8, <2>1, <2>2, CommitBranch DEF Commit
    <3>2. Here(r).index \in SUBSET Changes
      BY <2>1, CommitBranch DEF Trees
    <3>3. branch'[h] \in SUBSET Changes
      BY <1>1, <2>2, <3>1, <3>2 DEF TypeOK
    <3> QED BY <1>1, <2>1, <2>2, <3>3, NoneAssumption DEF TypeOK
  <2>4. ASSUME NEW p \in pulls PROVE pc'[p.run] = pc[p.run] /\ commit'[p.run] = commit[p.run]
    <3>1. p.run \in Runs /\ p.run # r
      BY <1>1, <2>1 DEF TypeOK, Published, CleanupSteps
    <3> QED BY <1>1, <2>1, <3>1 DEF TypeOK
  <2> QED BY <1>7, <2>1, <2>3, <2>4 DEF Published
<1>9. CASE commit' = commit
  <2>1. /\ pc'[r] \in {"push", "pr"} =>
              commit'[r] # None /\ commit'[r] \subseteq branch'[effective'[r].branch]
        /\ pc'[r] = "pr" => /\ remote'[effective'[r].branch] # None
                           /\ commit'[r] \subseteq remote'[effective'[r].branch]
    <3>1. CASE Commit(r)
      BY <1>8, <3>1 DEF Published
    <3>2. CASE PushBranch(r)
      <4>1. pc[r] = "push" /\ pc'[r] = "pr" /\ UNCHANGED <<effective, branch, commit>>
        BY <1>1, <3>2 DEF PushBranch, Goto, TypeOK
      <4>2. remote'[effective[r].branch] = branch[effective[r].branch]
        BY <1>1, <1>4, <3>2 DEF PushBranch, TypeOK
      <4>3. Exists(effective[r].branch)
        BY <4>1, CommitBranch
      <4> QED BY <4>1, <4>2, <4>3 DEF Published, Exists
    <3>3. CASE ~Commit(r) /\ ~PushBranch(r)
      <4>1. pc'[r] \notin {"push", "pr"}
        BY <1>1, <3>3 DEF Step, Check, FirstStep, AddWorktree, AddFails, Refine, Ask, EnsureBranch,
             ListChanges, EditFile, EditPanics, Fmt, Checkout, Add, OpenPullRequest, CommandFails,
             CleanupStep, RemoveWorktree, Prune, DeleteTempBranch, RemoveDir, CleanupFails, Kill,
             Goto, Return, TypeOK
      <4> QED BY <4>1
    <3> QED BY <3>1, <3>2, <3>3
  <2>2. ASSUME NEW p \in pulls
        PROVE  pc'[p.run] \in CleanupSteps \cup {"end"}
    <3>1. p.run \in Runs /\ pc[p.run] \in CleanupSteps \cup {"end"}
      BY <1>1 DEF TypeOK, Published
    <3>2. CASE p.run # r
      BY <1>3, <3>1, <3>2 DEF Aside
    <3>3. CASE p.run = r
      <4>1. CleanupStep(r) \/ Kill(r)
        BY <3>1, <3>3 DEF Step, Check, AddWorktree, AddFails, Refine, Ask, EnsureBranch, ListChanges,
             EditFile, EditPanics, Fmt, Checkout, Add, Commit, PushBranch, OpenPullRequest,
             CommandFails, Goto, CleanupSteps
      <4> QED BY <1>1, <3>3, <4>1 DEF CleanupStep, RemoveWorktree, Prune, DeleteTempBranch, RemoveDir,
                                      CleanupFails, Kill, Goto, TypeOK, CleanupSteps
    <3> QED BY <3>2, <3>3
  <2>3. CASE pulls' = pulls
    BY <1>7, <1>9, <2>1, <2>2, <2>3 DEF Published
  <2>4. CASE pulls' # pulls
    <3> DEFINE new == [run |-> r, files |-> applied[r], changes |-> remote[effective[r].branch]]
    <3>1. pc[r] = "pr" /\ pc'[r] \in {"remove", "end"} /\ pulls' = pulls \cup {new}
      BY <2>4, PulledAtTheEnd
    <3>2. commit[r] # None /\ commit[r] \subseteq new.changes /\ new.run = r
      BY <3>1 DEF Published
    <3> HIDE DEF new
    <3> QED BY <1>7, <1>9, <2>1, <2>2, <3>1, <3>2 DEF Published, CleanupSteps
  <2> QED BY <2>3, <2>4
<1> QED BY <1>2, <1>8, <1>9

(* Help of --open-pr: a pull request is opened "after push".  With         *)
(* --git-push, what a pull request offers for merging includes the commit  *)
(* of the run that opened it, whatever plans the language model rewrote,   *)
(* and whoever else pushes the same branch.                                *)
THEOREM PullRequestsCarryCommits ==
  ASSUME Push
  PROVE  Spec => []PullRequestCarriesCommit
<1>1. Init => Published
  BY DEF Init, Published
<1>2. ASSUME IInv, Published, [Next]_vars PROVE Published'
  <2>1. ASSUME NEW r \in Runs, Step(r) PROVE Published'
    BY <1>2, <2>1, PublishedIsKept
  <2>2. CASE UserStep
    <3>1. UNCHANGED <<effective, branch, pulls, pc, commit>>
      BY <1>2, <2>2, UserStepKeepsInvariant
    <3>2. ASSUME NEW s \in Runs, pc[s] = "pr"
          PROVE  remote'[effective[s].branch] = remote[effective[s].branch]
      <4>1. effective[s].branch \in Branches /\ remote[effective[s].branch] # None
        BY <1>2, <3>2 DEF IInv, TypeOK, Plans, Published
      <4> QED BY <1>2, <2>2, <4>1
          DEF IInv, TypeOK, UserStep, UserEdits, UserStages, UserPushes
    <3> QED BY <1>2, <3>1, <3>2 DEF Published
  <2>3. CASE UNCHANGED vars
    BY <1>2, <2>3 DEF Published, vars
  <2> QED BY <1>2, <2>1, <2>2, <2>3 DEF Next, UserStep
<1>3. Published => PullRequestCarriesCommit
  BY DEF Published, PullRequestCarriesCommit
<1> QED BY <1>1, <1>2, <1>3, Invariant, PTL DEF Spec
=============================================================================
