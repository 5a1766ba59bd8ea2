---------------------------- MODULE InfraExecutor ----------------------------
(***************************************************************************)
(* The infra executor (internal/infra/executor.go): it turns a plan into a *)
(* commit on a branch of its own, pushes it and opens a pull request.  It  *)
(* works in the operator's checkout or, for an external coding agent, in a *)
(* temporary git worktree.  A text is not modelled: a checkout, an index   *)
(* and a commit are sets of changes <<file, author>>.                      *)
(***************************************************************************)
EXTENDS Naturals

CONSTANTS
  Runs,          \* processes that apply an infra plan, with one plan each
  Files,         \* files of the repository
  Branches,      \* branch names of plans
  Modes,         \* "inplace", "refined" or "isolated": no agent, a language
                 \* model, or an external coding agent
  EditTypes,     \* "search_replace" or "hcl_attribute"
  RequireClean,  \* --require-clean-repo
  Push, OpenPR,  \* --git-push, --open-pr
  Kills,         \* may runs be killed?
  UserWorks,     \* does the operator work in the checkout meanwhile?
  Base,          \* the operator's checkout
  None           \* no such branch, worktree or commit

ASSUME InfraAssumption ==
  /\ Modes \subseteq {"inplace", "refined", "isolated"}
  /\ EditTypes \subseteq {"search_replace", "hcl_attribute"}
  /\ {RequireClean, Push, OpenPR, Kills, UserWorks} \subseteq BOOLEAN
  /\ Base \notin Runs
  /\ Runs \cap (Branches \cup {"main", "user", "fmt"}) = {}
  /\ "main" \notin Branches

Authors     == Runs \cup {"user", "fmt"}
Changes     == Files \X Authors
BranchNames == {"main"} \cup Branches \cup Runs   \* run r: its temporary branch
Places      == {Base} \cup Runs                   \* run r: its worktree
Trees       == [head : BranchNames, dirty : SUBSET Changes, index : SUBSET Changes]
Plans       == [branch : Branches, files : (SUBSET Files) \ {{}}, edit : EditTypes]
Replies     == [branch : Branches \cup {None}, files : SUBSET Files, edit : EditTypes]

ASSUME NoneAssumption ==
  /\ None \notin Branches
  /\ \A t \in Trees : t # None
  /\ \A cs \in SUBSET Changes : cs # None

VARIABLES
  mode,      \* how each run works
  plan,      \* the plan of each run, as it was approved
  effective, \* the plan as the agent left it
  tree,      \* the checkout and the worktrees git lists: branch, edits, staged edits
  branch,    \* local branches: the changes since the first commit of main
  remote,    \* branches of origin
  pulls,     \* pull requests: the run, its files, and what is to be merged
  pc,        \* next step of each run
  applied,   \* the files each run stages
  temp,      \* does the run still have a temporary branch to delete?
  commit,    \* the branch of each run as committed
  delta,     \* history: the changes in the commit of each run
  result,    \* how Apply ended
  dirs,      \* runs whose worktree directory is there
  unclean,   \* history: runs for which making or removing a worktree failed
  strayed    \* history: runs that renamed another branch than their temporary one

vars == <<mode, plan, effective, tree, branch, remote, pulls,
          pc, applied, temp, commit, delta, result, dirs, unclean, strayed>>

repo == <<tree, branch, remote, pulls>>
disk == <<dirs, unclean, strayed>>

Isolated(r)   == mode[r] = "isolated"
Exists(b)     == branch[b] # None
CheckedOut(b) == \E p \in Places : tree[p] # None /\ tree[p].head = b

(* Mutants: the agent is started in the checkout; edits that are not       *)
(* staged go unnoticed; lines of git status are taken for file names.      *)
PlaceIsCheckout(r) == Base
CleanIndex(t)      == t.index = {}
StatusLines(cs)    == cs

Place(r)    == IF Isolated(r) THEN r ELSE Base
Here(r)     == tree[Place(r)]
Clean(t)    == t.dirty = {} /\ t.index = {}
InUse       == \E r \in Runs : ~Isolated(r) /\ pc[r] \notin {"start", "end"}
FilesOf(cs) == {c[1] : c \in cs}

Init ==
  /\ mode \in [Runs -> Modes]
  /\ plan \in [Runs -> Plans]
  /\ effective = plan
  /\ tree = [p \in Places |->
               IF p = Base THEN [head |-> "main", dirty |-> {}, index |-> {}] ELSE None]
  /\ branch = [b \in BranchNames |-> IF b = "main" THEN {} ELSE None]
  /\ remote = [b \in Branches |-> None]
  /\ pulls = {}
  /\ pc = [r \in Runs |-> "start"]
  /\ applied = [r \in Runs |-> {}]
  /\ temp = [r \in Runs |-> FALSE]
  /\ commit = [r \in Runs |-> None]
  /\ delta = [r \in Runs |-> {}]
  /\ result = [r \in Runs |-> "none"]
  /\ dirs = {} /\ unclean = {} /\ strayed = {}

-----------------------------------------------------------------------------
Goto(r, from, to) == pc[r] = from /\ pc' = [pc EXCEPT ![r] = to]

(* Mutant: the worktree is cleaned up after success only. *)
ReturnUndeferred(r, res) ==
  /\ pc' = [pc EXCEPT ![r] = IF tree[r] = None \/ res # "ok" THEN "end" ELSE "remove"]
  /\ result' = [result EXCEPT ![r] = res]

(* Apply returns; the deferred Cleanup runs once there is a worktree. *)
Return(r, res) ==
  /\ pc' = [pc EXCEPT ![r] = IF tree[r] = None THEN "end" ELSE "remove"]
  /\ result' = [result EXCEPT ![r] = res]

SetHere(r, t) == tree' = [tree EXCEPT ![Place(r)] = t]

(***************************************************************************)
(* Executor.Apply                                                          *)
(***************************************************************************)

FirstStep(r) ==
  CASE mode[r] = "isolated" -> "worktree" [] mode[r] = "refined" -> "ask" [] OTHER -> "edit"

(* gitClean looks at the checkout, whatever the mode. *)
Check(r) ==
  /\ pc[r] = "start"
  /\ \/ /\ RequireClean => Clean(tree[Base])
        /\ Goto(r, "start", FirstStep(r))
        /\ UNCHANGED result
     \/ /\ RequireClean /\ ~Clean(tree[Base])
        /\ Return(r, "refused")
  /\ UNCHANGED <<mode, plan, effective, repo, applied, temp, commit, delta, disk>>

(* createRepoAgentWorkspace: a worktree on a branch of its own that starts *)
(* at the branch the checkout is on.                                       *)
AddWorktree(r) ==
  /\ Goto(r, "worktree", "refine")
  /\ tree' = [tree EXCEPT ![r] = [head |-> r, dirty |-> {}, index |-> {}]]
  /\ branch' = [branch EXCEPT ![r] = branch[tree[Base].head]]
  /\ temp' = [temp EXCEPT ![r] = TRUE]
  /\ dirs' = dirs \cup {r}
  /\ UNCHANGED <<mode, plan, effective, remote, pulls, applied, commit, delta, result,
                 unclean, strayed>>

(* A git worktree add that fails or is killed may leave the new branch, and *)
(* with it a worktree in git's list; the directory is removed, if it can   *)
(* be, and Apply fails before there is a Cleanup to defer.                 *)
AddFails(r) ==
  /\ pc[r] = "worktree"
  /\ Return(r, "failed")
  /\ unclean' = unclean \cup {r}
  /\ dirs' \in {dirs, dirs \cup {r}}
  /\ \/ UNCHANGED <<tree, branch>>
     \/ /\ branch' = [branch EXCEPT ![r] = branch[tree[Base].head]]
        /\ tree' \in {tree, [tree EXCEPT ![r] = [head |-> r, dirty |-> {}, index |-> {}]]}
  /\ UNCHANGED <<mode, plan, effective, remote, pulls, applied, temp, commit, delta, strayed>>

(* The external agent edits its worktree.  It may leave its edits there,   *)
(* stage them or commit them, on the temporary branch, on a new one, or on *)
(* any other that no worktree has checked out.  (With no branch checked    *)
(* out the next command fails.)                                            *)
Refine(r) ==
  /\ Goto(r, "refine", "branch")
  /\ \E fs \in SUBSET Files, b \in BranchNames :
       LET made == fs \X {r}
           from == IF Exists(b) THEN branch[b] ELSE branch[r] IN
       /\ b = r \/ ~CheckedOut(b)
       /\ b \in Runs => Exists(b)
       /\ \/ /\ SetHere(r, [head |-> b, dirty |-> made, index |-> {}])
             /\ branch' = [branch EXCEPT ![b] = from]
          \/ /\ SetHere(r, [head |-> b, dirty |-> {}, index |-> made])
             /\ branch' = [branch EXCEPT ![b] = from]
          \/ /\ SetHere(r, [head |-> b, dirty |-> {}, index |-> {}])
             /\ branch' = [branch EXCEPT ![b] = from \cup made]
  /\ UNCHANGED <<mode, plan, effective, remote, pulls, applied, temp, commit, delta, result, disk>>

(* mergeRepoAgentPlan: what the model leaves out is taken from the plan.    *)
Merge(base, refined) ==
  [branch |-> IF refined.branch = None THEN base.branch ELSE refined.branch,
   files  |-> IF refined.files = {} THEN base.files ELSE refined.files,
   edit   |-> IF refined.files = {} THEN base.edit ELSE refined.edit]

(* A language model is shown the plan and the inventory, and its answer is *)
(* merged into the plan.  EnsureBranch has nothing to do in the checkout.  *)
Ask(r) ==
  /\ Goto(r, "ask", "edit")
  /\ \E refined \in Replies :
       effective' = [effective EXCEPT ![r] = Merge(plan[r], refined)]
  /\ UNCHANGED <<mode, plan, repo, applied, temp, commit, delta, result, disk>>

(* EnsureBranch gives the branch the agent ended on the name in the plan,  *)
(* and takes it for the temporary one.                                     *)
EnsureBranch(r) ==
  LET b == effective[r].branch IN
  /\ Goto(r, "branch", "changed")
  /\ \/ /\ Here(r).head = b
        /\ UNCHANGED <<tree, branch, temp, strayed>>
     \/ /\ Here(r).head # b
        /\ ~Exists(b)
        /\ SetHere(r, [Here(r) EXCEPT !.head = b])
        /\ branch' = [branch EXCEPT ![b] = branch[Here(r).head], ![Here(r).head] = None]
        /\ temp' = [temp EXCEPT ![r] = FALSE]
        /\ strayed' = IF Here(r).head = r THEN strayed ELSE strayed \cup {r}
  /\ UNCHANGED <<mode, plan, effective, remote, pulls, applied, commit, delta, result, dirs, unclean>>

(* gitChangedFiles sees edits that are neither staged nor committed. *)
ListChanges(r) ==
  /\ pc[r] = "changed"
  /\ \/ /\ Here(r).dirty # {}
        /\ Goto(r, "changed", "fmt")
        /\ applied' = [applied EXCEPT ![r] = FilesOf(Here(r).dirty)]
        /\ UNCHANGED result
     \/ /\ Here(r).dirty = {}
        /\ Return(r, "failed")
        /\ UNCHANGED applied
  /\ UNCHANGED <<mode, plan, effective, repo, temp, commit, delta, disk>>

(* applyEdits writes one file after the other. *)
EditFile(r, f) ==
  /\ pc[r] = "edit"
  /\ effective[r].edit = "search_replace"
  /\ f \in effective[r].files \ applied[r]
  /\ applied' = [applied EXCEPT ![r] = @ \cup {f}]
  /\ pc' = [pc EXCEPT ![r] = IF applied'[r] = effective[r].files THEN "fmt" ELSE "edit"]
  /\ SetHere(r, [Here(r) EXCEPT !.dirty = @ \cup {<<f, r>>}])
  /\ UNCHANGED <<mode, plan, effective, branch, remote, pulls, temp, commit, delta, result, disk>>

(* findTopLevelAttribute compiles an expression Go's regexp rejects. *)
EditPanics(r) ==
  /\ pc[r] = "edit"
  /\ effective[r].edit = "hcl_attribute"
  /\ Return(r, "panicked")
  /\ UNCHANGED <<mode, plan, effective, repo, applied, temp, commit, delta, disk>>

(* The formatter rewrites files anywhere in the repository.  (It does so   *)
(* again after --validate, which changes no file and is not modelled.)     *)
Fmt(r) ==
  /\ Goto(r, "fmt", IF Isolated(r) THEN "add" ELSE "checkout")
  /\ \E fs \in SUBSET Files :
       SetHere(r, [Here(r) EXCEPT !.dirty = @ \cup (fs \X {"fmt"})])
  /\ UNCHANGED <<mode, plan, effective, branch, remote, pulls, applied, temp, commit, delta, result, disk>>

(* git checkout -b, in place, carries the edits over. *)
Checkout(r) ==
  LET b == effective[r].branch IN
  /\ Goto(r, "checkout", "add")
  /\ ~Exists(b)
  /\ branch' = [branch EXCEPT ![b] = branch[Here(r).head]]
  /\ SetHere(r, [Here(r) EXCEPT !.head = b])
  /\ UNCHANGED <<mode, plan, effective, remote, pulls, applied, temp, commit, delta, result, disk>>

Add(r) ==
  LET added == {c \in Here(r).dirty : c[1] \in applied[r]} IN
  /\ Goto(r, "add", "commit")
  /\ SetHere(r, [Here(r) EXCEPT !.dirty = @ \ added, !.index = @ \cup added])
  /\ UNCHANGED <<mode, plan, effective, branch, remote, pulls, applied, temp, commit, delta, result, disk>>

(* git commit takes the whole index, on whatever branch is checked out.    *)
Commit(r) ==
  LET h == Here(r).head IN
  /\ Goto(r, "commit", "push")
  /\ Here(r).index # {}
  /\ branch' = [branch EXCEPT ![h] = @ \cup Here(r).index]
  /\ delta' = [delta EXCEPT ![r] = Here(r).index]
  /\ commit' = [commit EXCEPT ![r] = branch'[h]]
  /\ SetHere(r, [Here(r) EXCEPT !.index = {}])
  /\ UNCHANGED <<mode, plan, effective, remote, pulls, applied, temp, result, disk>>

(* git push of the branch named in the plan; origin takes fast-forwards.   *)
CanPush(b) == Exists(b) /\ IF remote[b] = None THEN TRUE ELSE remote[b] \subseteq branch[b]

(* Mutant: the branch named in the approved plan is pushed. *)
PushApproved(r) ==
  LET b == plan[r].branch IN
  /\ Goto(r, "push", "pr")
  /\ IF Push
       THEN CanPush(b) /\ remote' = [remote EXCEPT ![b] = branch[b]]
       ELSE UNCHANGED remote
  /\ UNCHANGED <<mode, plan, effective, tree, branch, pulls, applied, temp, commit, delta, result, disk>>

(* Mutant: a push that origin rejects goes unnoticed. *)
PushUnchecked(r) ==
  LET b == effective[r].branch IN
  /\ Goto(r, "push", "pr")
  /\ IF Push /\ CanPush(b)
       THEN remote' = [remote EXCEPT ![b] = branch[b]]
       ELSE UNCHANGED remote
  /\ UNCHANGED <<mode, plan, effective, tree, branch, pulls, applied, temp, commit, delta, result, disk>>

PushBranch(r) ==
  LET b == effective[r].branch IN
  /\ Goto(r, "push", "pr")
  /\ IF Push
       THEN CanPush(b) /\ remote' = [remote EXCEPT ![b] = branch[b]]
       ELSE UNCHANGED remote
  /\ UNCHANGED <<mode, plan, effective, tree, branch, pulls, applied, temp, commit, delta, result, disk>>

(* gh pr create --head needs the branch on origin. *)
OpenPullRequest(r) ==
  LET b == effective[r].branch IN
  /\ pc[r] = "pr"
  /\ IF OpenPR
       THEN /\ remote[b] # None
            /\ pulls' = pulls \cup {[run |-> r, files |-> applied[r], changes |-> remote[b]]}
       ELSE UNCHANGED pulls
  /\ Return(r, "ok")
  /\ UNCHANGED <<mode, plan, effective, tree, branch, remote, applied, temp, commit, delta, disk>>

(***************************************************************************)
(* Failures and the deferred Cleanup                                       *)
(***************************************************************************)
CleanupSteps == {"remove", "prune", "delete", "rmdir"}

(* A command that fails ends Apply, and nothing is undone.                 *)
CommandFails(r) ==
  /\ pc[r] \notin CleanupSteps \cup {"worktree", "end"}
  /\ Return(r, "failed")
  /\ UNCHANGED <<mode, plan, effective, repo, applied, temp, commit, delta, disk>>

RemoveWorktree(r) ==
  /\ Goto(r, "remove", "prune")
  /\ tree' = [tree EXCEPT ![r] = None]
  /\ dirs' = dirs \ {r}
  /\ UNCHANGED <<mode, plan, effective, branch, remote, pulls, applied, temp, commit, delta, result,
                 unclean, strayed>>

(* git worktree prune takes worktrees without a directory off git's list,  *)
(* whosever they are, except those that an interrupted add left locked.    *)
Prune(r) ==
  /\ Goto(r, "prune", "delete")
  /\ \E locked \in SUBSET ((unclean \ dirs) \ {r}) :
       tree' = [p \in Places |-> IF p \in (Runs \ dirs) \ locked THEN None ELSE tree[p]]
  /\ UNCHANGED <<mode, plan, effective, branch, remote, pulls, applied, temp, commit, delta, result, disk>>

(* git refuses to delete a branch that a worktree has checked out. *)
DeleteTempBranch(r) ==
  /\ Goto(r, "delete", "rmdir")
  /\ IF temp[r]
       THEN Exists(r) /\ ~CheckedOut(r) /\ branch' = [branch EXCEPT ![r] = None]
       ELSE UNCHANGED branch
  /\ UNCHANGED <<mode, plan, effective, tree, remote, pulls, applied, temp, commit, delta, result, disk>>

RemoveDir(r) ==
  /\ Goto(r, "rmdir", "end")
  /\ dirs' = dirs \ {r}
  /\ UNCHANGED <<mode, plan, effective, repo, applied, temp, commit, delta, result, unclean, strayed>>

(* A command of Cleanup that fails or is killed at its deadline may have   *)
(* done its work or a part of it; the error is logged when all have run.   *)
CleanupFails(r) ==
  /\ unclean' = unclean \cup {r}
  /\ \/ /\ Goto(r, "remove", "prune")
        /\ dirs' \in {dirs, dirs \ {r}}
        /\ tree' \in {tree, [tree EXCEPT ![r] = None]}
        /\ UNCHANGED branch
     \/ /\ Goto(r, "prune", "delete")
        /\ UNCHANGED <<dirs, tree, branch>>
     \/ /\ Goto(r, "delete", "rmdir")
        /\ temp[r]
        /\ branch' = branch \/ (~CheckedOut(r) /\ branch' = [branch EXCEPT ![r] = None])
        /\ UNCHANGED <<dirs, tree>>
     \/ /\ Goto(r, "rmdir", "end")
        /\ UNCHANGED <<dirs, tree, branch>>
  /\ UNCHANGED <<mode, plan, effective, remote, pulls, applied, temp, commit, delta, result, strayed>>

Kill(r) ==
  /\ Kills
  /\ pc[r] # "end"
  /\ pc' = [pc EXCEPT ![r] = "end"]
  /\ result' = [result EXCEPT ![r] = "killed"]
  /\ UNCHANGED <<mode, plan, effective, repo, applied, temp, commit, delta, disk>>

(***************************************************************************)
(* The operator                                                            *)
(***************************************************************************)
UserEdits(f) ==
  /\ UserWorks /\ ~InUse
  /\ tree' = [tree EXCEPT ![Base].dirty = @ \cup {<<f, "user">>}]
  /\ UNCHANGED <<mode, plan, effective, branch, remote, pulls, pc, applied, temp, commit, delta, result, disk>>

UserStages ==
  /\ UserWorks /\ ~InUse
  /\ tree' = [tree EXCEPT ![Base].dirty = {}, ![Base].index = @ \cup tree[Base].dirty]
  /\ UNCHANGED <<mode, plan, effective, branch, remote, pulls, pc, applied, temp, commit, delta, result, disk>>

(* An earlier version of the branch of a plan is on origin. *)
UserPushes(b, cs) ==
  /\ UserWorks
  /\ remote[b] = None
  /\ remote' = [remote EXCEPT ![b] = cs]
  /\ UNCHANGED <<mode, plan, effective, tree, branch, pulls, pc, applied, temp, commit, delta, result, disk>>

-----------------------------------------------------------------------------
(* The operator starts a run in place when no other run works in the       *)
(* checkout.                                                               *)
MayStart(r) == ~Isolated(r) => ~InUse

CleanupStep(r) ==
  RemoveWorktree(r) \/ Prune(r) \/ DeleteTempBranch(r) \/ RemoveDir(r) \/ CleanupFails(r)

Step(r) ==
  \/ (MayStart(r) /\ Check(r)) \/ AddWorktree(r) \/ AddFails(r) \/ Refine(r) \/ Ask(r)
  \/ EnsureBranch(r) \/ ListChanges(r) \/ (\E f \in Files : EditFile(r, f)) \/ EditPanics(r)
  \/ Fmt(r) \/ Checkout(r) \/ Add(r) \/ Commit(r) \/ PushBranch(r) \/ OpenPullRequest(r)
  \/ CommandFails(r) \/ CleanupStep(r) \/ Kill(r)

Next ==
  \/ \E r \in Runs : Step(r)
  \/ \E f \in Files : UserEdits(f)
  \/ UserStages
  \/ \E b \in Branches : UserPushes(b, Files \X {"user"})

Spec == Init /\ [][Next]_vars

-----------------------------------------------------------------------------
Steps   == {"start", "worktree", "ask", "refine", "branch", "changed", "edit", "fmt",
            "checkout", "add", "commit", "push", "pr", "end"} \cup CleanupSteps
Results == {"none", "ok", "refused", "failed", "panicked", "killed"}

TypeOK ==
  /\ mode \in [Runs -> Modes]
  /\ plan \in [Runs -> Plans] /\ effective \in [Runs -> Plans]
  /\ tree \in [Places -> Trees \cup {None}] /\ tree[Base] \in Trees
  /\ branch \in [BranchNames -> (SUBSET Changes) \cup {None}]
  /\ remote \in [Branches -> (SUBSET Changes) \cup {None}]
  /\ pulls \subseteq [run : Runs, files : SUBSET Files, changes : SUBSET Changes]
  /\ pc \in [Runs -> Steps]
  /\ applied \in [Runs -> SUBSET Files]
  /\ temp \in [Runs -> BOOLEAN]
  /\ commit \in [Runs -> (SUBSET Changes) \cup {None}]
  /\ delta \in [Runs -> SUBSET Changes]
  /\ result \in [Runs -> Results]
  /\ dirs \subseteq Runs /\ unclean \subseteq Runs /\ strayed \subseteq Runs

(* An external agent works in its worktree "instead of editing the main    *)
(* working tree directly" (README): whatever fails, is killed or runs at   *)
(* the same time, the checkout stays on main with no edit but its user's.  *)
IsolatedRunsLeaveCheckoutAlone ==
  (\A r \in Runs : Isolated(r)) =>
    /\ tree[Base].head = "main" /\ branch["main"] = {}
    /\ \A c \in tree[Base].dirty \cup tree[Base].index : c[2] = "user"

(* What a run commits is its own work: neither the edits of the operator,  *)
(* nor those of a run beside it, nor what a run that failed before left in *)
(* the checkout get into its commit.                                       *)
CommitIsOwnWork ==
  \A r \in Runs : \A c \in delta[r] : c[2] \in {r, "fmt"}

(* The pull request of a run brings in no file that its body, made from    *)
(* the files the run applied, does not list (buildPRBody).                 *)
PullRequestListsItsFiles ==
  \A p \in pulls : FilesOf(p.changes) \subseteq p.files

(* A pull request is opened "after push" (help of --open-pr): what it      *)
(* offers for merging is the commit of the run that opened it.             *)
PullRequestCarriesCommit ==
  \A p \in pulls : commit[p.run] # None /\ commit[p.run] \subseteq p.changes

(* The deferred Cleanup: after Apply, however it ended short of a kill,    *)
(* neither the worktree nor its directory nor the temporary branch is      *)
(* left, unless making or removing them failed.  The branch also stays if  *)
(* the agent left it for one that EnsureBranch then took for it.           *)
NothingTemporaryIsLeft ==
  \A r \in Runs :
    pc[r] = "end" /\ result[r] # "killed" /\ r \notin unclean =>
      /\ tree[r] = None /\ r \notin dirs
      /\ r \notin strayed => ~Exists(r)

(* Deviation: so the branch stays although Cleanup reports no error.       *)
TemporaryBranchIsDeleted ==
  \A r \in Runs :
    pc[r] = "end" /\ result[r] # "killed" /\ r \notin unclean => ~Exists(r)

(* Deviation: what is committed follows the approved plan ("no impactful   *)
(* changes without explicit operator approval", README).  The answer of a  *)
(* language model may replace its edits and its branch.                    *)
ApprovedPlanIsUsed ==
  \A r \in Runs : delta[r] # {} => effective[r] = plan[r]

(* An HCL-aware edit is applied, or refused with an error (README).        *)
EditsNeverPanic == \A r \in Runs : result[r] # "panicked"
=============================================================================
