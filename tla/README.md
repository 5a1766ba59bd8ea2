# Formal verification of kube-ops-copilot

This directory holds TLA+ models of the parts of kube-ops-copilot that change
something outside the process (an approval, a cluster, a repository) and of the
algorithms it chooses by, the TLC runs that check them on small instances, and TLAPS proofs of the properties that
matter most. The models are written from the code under `src/`; the README and
the comments of the repository only say what is *expected* of it.

    tlc -workers 2 -config GateFresh.cfg MCApprovalGate   # one run
    tlapm ApprovalGateProofs.tla                          # one proof module

`PROJECT.json` lists the runs, the source lines each definition models, the
findings, the hazards and the theorems.

## The system

kube-ops-copilot is a CLI. A command collects findings about a cluster, lets a
language model propose a plan, asks an operator for approval, and carries the
plan out against the cluster or against a repository of infrastructure code.

| Component | State | Operations | Hard about it | What makes it correct |
|---|---|---|---|---|
| approval store (`approval/store.go`, `slack.go`) | a JSON file of records | request (CLI), callback (`approval serve`), status | unlocked rewrites of the whole file by several processes and goroutines; kills and full disks between truncation and write; errors that the reply to a callback does not tell | answers are those operators gave; acknowledged answers are kept; a broken file is not replaced |
| approval gate (`cli/approval_check.go`, `execute.go`, `remediate.go`, `approval.go`, ...) | plan file, approval ids, two timeouts | propose, request, execute; wait | the plan file and the id change hands between commands; deadline, ticker and context race | only an approved plan is applied; an approval in time is not missed; the wait ends |
| Telegram, n8n, manual providers | held by the service | request, status | ids of the workflow, old answers | as the gate |
| live executor (`exec/`) | one Deployment | patch, verify | status lags behind the spec; others scale; time | a verified rollout happened; verification ends |
| infra executor (`infra/executor.go`) | a checkout, worktrees, branches, an index, origin | edit, stage, commit, push, PR, clean up | a user and other runs in the same checkout; an agent that may commit; a failure or kill at each command | a run commits its own work only; nothing temporary stays that git could remove; a PR carries its commit |
| compound remediation (`cli/smart_remediate.go`, `compound_plan.go`) | phases, trace file, result file | live phase, infra phase | failures and kills between effects and the trace | live before infra; the trace is true |
| repo agent (`cli/repo_agent.go`) | none of its own | refine | a child process with a free hand in the worktree | as the infra executor |
| progress (`cli/progress.go`) | a live block on the terminal | animate, log, close | a goroutine and the command print concurrently | the log is never drawn over; the goroutine ends |
| inventory, repository graph (`cli/infra_repo_inventory.go`, `repositorygraph/`) | none | rank and link files for a prompt | Go maps in any order; depth, file and byte limits | the choice depends on the repository only; limits are kept; a chart is found as a whole |
| HCL resolver (`hclresolver/`) | files under evaluation | evaluate locals and files | locals and files that use each other | nothing is cut off, no circle is followed for ever |
| analyzers (`analyzer/*`) | none | list objects, join them, score them | separate calls while the cluster changes; calls that fail; thresholds and sums of points | an alarm is true of the cluster before or after; a failure hides and never alarms; analyzers that look at the same thing agree |
| engine, report, render | findings | run the analyzers, sort, score, print | findings of a dozen analyzers become one score | the report leads with the worst, whatever the order |
| telemetry, capability | none | detect capabilities, discover backends, query them | schemes, paths and expressions that fail or answer something else | a usable answer is found; what one part recognises the other does |
| llm, notify, kube | none | HTTP and API calls | - | - |

They interact through files and services: `propose` commands write the plan
file, `approval request` and `execute` read it; providers keep the answers;
the gate stands in front of both executors, and `smart-remediate` runs the live
and then the infra executor. `diagnose` and the commands that plan look at the
cluster once to detect its capabilities, choose the analyzers by them, and each
analyzer then makes calls of its own.

## Modules

| Module | Models |
|---|---|
| `ApprovalLedger` | what the commands expect of a provider: one decision per id, one step per operation |
| `ApprovalStore` | the JSON file and its writers, a step per file operation; implements `ApprovalLedger` when one process runs at a time |
| `ApprovalGate` | the commands, from the plan to the call of an executor; uses `ApprovalLedger` for the provider |
| `LiveRollout` | `exec.Executor` against the Deployment controller, the kubelet and an autoscaler |
| `InfraExecutor` | `infra.Executor` against git: checkout, worktrees, index, branches, origin |
| `PhaseSequence` | live, then infra, each started and ended once |
| `CompoundRemediation` | `executeSmartCompoundPlan` and its trace; implements `PhaseSequence` |
| `LiveProgress` | the live block of `liveProgress` and the terminal it is drawn on |
| `GraphExpand` | `Graph.Expand` over any graph, a step per edge |
| `RepoLinks` | `repositorygraph.Build`: from the paths that files name to the edges; and `extractLocalReferenceTargets` |
| `RepoInventory` | `buildTerraformRepoInventory` around it: seeds, links, ranking, selection, previews |
| `TelegramScan` | `Telegram.Status` as an operator on the updates of the bot |
| `HclConfig` | passes over locals, and files that read each other, as operators |
| `HclEdit` | block edits as operators on texts |
| `Capability`, `Telemetry` | signals and the status of capabilities; backends, their discovery and the queries with their fallbacks |
| `RiskScore` | the scores of workloads and their thresholds |
| `Workloads` | how objects are joined: the profile of a workload, the owner of a pod |
| `WorkloadAnalyzers` | `workloadrisk`, `timeseriespressure`, `runtimemetrics`, over `Workloads`, `Telemetry` and `Report` |
| `ClusterHealth`, `Posture` | `clusterhealth`; and `workloads`, `resources`, `events`, `pdb`, `trafficexposure`, `autoscalingposture`, `policycoverage` |
| `Report` | `Engine.Run` and `report.Build` |
| `Diagnosis` | `clusterinfo`, `discovery`, `telemetrycoverage`, `telemetryruntime`, and the composition: detection, the choice of the analyzers, their run and the report |
| `MC*` | instances for TLC |
| `*Proofs` | theorems |

Definitions carry the names of the code where they can. A definition commented
as a *mutant* is the neighbour of the one below it with a plausible bug; the
model does not use it. Each property has a mutant that violates it.

### ApprovalStore

`upsertRecord` is `Load` (read and edit a copy), `Truncate` and `Write`
(`os.WriteFile`), and `updateDecision` puts `Lookup` in front. A file is valid,
empty (truncated) or garbled. Where a second writer wrote in between, a longer
text leaves its tail. The ledger it implements may be lost by a fault, as a whole
and for ever. With `Faults` every call may fail: the reads (`Lookup`,
`LoadFails`), the directory or the open, which leaves the old text (`OpenFails`),
and the write, which leaves none, a part or all of the new one (`WriteFails`).
After an error a command ends, and a handler replies all the same (`Abort`,
step "ignore", `Reply`); `erred` remembers for which ids it did.
Signatures are modelled by the age of the callback: only what Slack signed
arrives, and what is older than five minutes is refused.

### ApprovalGate

`propose` stands for `remediate`, `terraform-pr` and `smart-remediate`, which
write a plan, request its approval and apply it; `request` for `approval
request`; `execute` for `execute` and `infra execute`. One provider is
configured per deployment. Time is counted in polling intervals of 5 seconds.
`asked` remembers under which id a command's request was registered, which for
n8n is not the id the command waits for.
`execute` takes the plan before it waits. A plan without an approval id, written
by hand, is accepted under any id; the code does this by design, and the
property excludes it. `Register` says what each provider does with an id that
is used again. A command that is killed takes no more steps, so a behaviour in
which a command stops stands for the kill.

### LiveRollout

`Patch` reads the Deployment and changes it in one call of the API server; a
call may fail before or after it took effect. The controller creates pods with
a surge of one (`RollingUpdate`), or removes old pods first (`Recreate`), and
writes the status whenever it gets to it. Time is counted in polling intervals
of 2 seconds; calls take less than one.

### InfraExecutor

A change is a pair of a file and its author; a commit a set of changes on top of
its branch. The agent may leave, stage or commit its edits, and may end on its
temporary branch, on the plan's, or on any other that no worktree has checked out,
a new one included. Then `EnsureBranch` renames *that* branch, as the code does, and
forgets the temporary one (`strayed`); the next command of an agent that ends on no
branch fails. The user of the checkout edits, stages and pushes where
`UserWorks` is TRUE. That a run in place has the checkout for itself is not in the
code but assumed of its operator: `MayStart` and `InUse` keep other runs in place
and the user away meanwhile. With a language model
(`Ask`) the answer is any plan, which is merged into the approved one as
`effective`; from there on the code, and the model, use `effective` only.

Every command may fail and every run may be killed. A command in front of the
cleanup that fails (`CommandFails`) is taken to change nothing and ends Apply, but for
`git worktree add -b` (`AddFails`), which may leave the branch, the worktree in git's
list and, if that cannot be removed, the directory. The deferred cleanup runs on
error and on panic, not on a kill: remove, prune, delete, remove the directory, one
step each, whatever the one before did. Each may fail or run into the limit of 15 s
(`CleanupFails`), with its work done, in part or not at all; the code only logs
that, and so `unclean` is history. `prune` takes all worktrees without a directory off
git's list, those of killed runs included, and `git branch -D` refuses a branch that
is checked out somewhere.

### CompoundRemediation

The command writes the trace before the phases, when a phase starts, when it
ends, and at the end; only errors of the first and the last write are returned.
What a phase does is an effect in two steps (patched, verified; edited,
published), so that a failure may fall between them. With `Faults` the command
may be killed and writes may fail, leaving the old trace or one that does not
parse; with `ResultFails` the result of the infra phase cannot be written.

### LiveProgress

The screen is a sequence of rows with a cursor, and moves as the escape sequences
say. A message fills one row or several (`Height`): the words of the repository
agent, which Apply passes to `Eventf` (`infra/executor.go:92`, `terraform_pr.go:316`),
have line breaks, and a line may be wider than the terminal. The code counts entries
(`rendered`), not rows; so does the model. What a text writes over a row from
another frame leaves the end of it standing (`Put`).

A line that is logged is one step, since the mutex is held; what it writes row after
row is written in one piece, which MCLiveProgress compares with the loop of the code.
A frame is a step for each of its entries (`Draw`, `DrawLine`), as `Close` may close the
channel and `finish` may write its last line, both without the mutex, in between.
`Close` may run again (commands defer it and also end with `Donef` or `Failf`). The
terminal is taken to be high enough: scrolling is outside the model.

### GraphExpand and RepoInventory

The queue, the depths and the scores are the variables of `Expand`; ranging over a
Go map is `Follow` of any edge that is left. A ranking is the one sequence of its
files that is in order (`Ranked`), and a printed file has the part of the space
that it takes, from `maxBytes - remaining` on. What the hints in a report score
(`base`) and what references a file contains (`refs`) are arbitrary.

### RepoLinks

A repository is a sequence of files in the order of their paths. A path is a
sequence of names, and a name what the code compares: how it starts (`Chart`,
`values`, `values-`, `deployment`, ...) and how it ends. The paths that a file
names are given, as HCL evaluates them, as YAML has them, quoted, and in command
lines. The edges that `Build` makes of them are a graph as `GraphExpand` has it.
There are two resolvers: that of the graph, whose limits count the file that is
named, and that of the prompt, which always keeps it. They rank files in their
own ways (`GraphRank`, `PromptRank`).

### TelegramScan, HclConfig, HclEdit

Pure functions, evaluated by TLC over all inputs that `MCAlgorithms` enumerates,
one per state. A message is the set of the phrases in it; what `strings.Contains`
finds by accident (an id that starts another, "disapprove") is in `Says`. A value
of a local is reduced to whether it is found, a configuration to the chains of
reads behind it. A text is a sequence of pieces: header, braces, quotes,
backslashes, newlines, indentation, anything else.

### The analyzers and the report

A cluster is a record of sets of objects with the fields that analyzers look at;
labels and selectors are sets. Names are sets of the words that
`strings.Contains` looks for in them. Metrics are levels against the thresholds
they are compared with. Each analyzer is an operator from a cluster and the set
of the calls that fail to a `Result`: its findings in order, how much evidence
and how many unknowns it has, and whether one of its hypotheses has evidence
against it. What the wording of a finding decides in the report (whether it says
that telemetry is not confirmed) is a field of the finding. A call that the code passes over
empties its list; any other makes the analyzer `Aborted`, and `RunEngine`
then discards all. `Telemetry` models a backend by its replies: to each scheme, path and
expression none, one that does not decode, or a good one. Restarts, logs and
terminations of containers are those of `ClusterHealth`, which sorts and cuts as
the code does. A choice by the order of a Go map is a set of the possible
choices (`TopLogCandidates`).

Restarted containers, findings and endpoints are functions of their places:
a stable sort by a key is the place with as many others ahead of it
(`Report!Ahead`, `ClusterHealth!TopRestarts`), and a count is a `Total`. That is
what the loops of the code come to, and what the proofs reason about.

## Runs

| Run | Checks | Shows |
|---|---|---|
| StoreConcurrent | TypeOK, AnswersComeFromClicks, BrokenStoreIsNeverReplaced | two commands and two callbacks at once, with kills and failing calls: no answer is invented, a broken file is not replaced |
| StoreSerial | PostedIdsAreKnown, StoredUnlessUpdateFailed, ImplementsLedger | one process at a time, killed or failing anywhere: the store is a ledger, until it is lost, and has every answer whose update returned no error |
| GateFresh | TypeOK, AppliedPlanWasApproved | two commands of any kind, a new id per request |
| GateWait | TimedOutUnanswered, WaitEnds | one command that waits: answers before, at and after its deadline |
| Rollout | VerifiedScaleWasReached, RecreatedPodsAreAvailable, RolledOutInTimeIsVerified, ApplyEnds | one executor and others that restart and scale, both strategies, until its verification or its context ends |
| InfraRuns | TypeOK, IsolatedRunsLeaveCheckoutAlone, CommitIsOwnWork, PullRequestCarriesCommit, NothingTemporaryIsLeft | two runs with plans of two branches, each in a worktree or in place, as approved or as a language model refined it, with an operator in the checkout; agents that end on any branch; commands that fail, also in the cleanup, panics and kills |
| CompoundTrace | TraceIsTrue, OkIsComplete, ImplementsSequence | both phases with all faults |
| Progress | LogLinesStay, ScreenIsLogAndLiveBlock, LoopEnds | frames and log lines in every order, of messages of one row and of two, with and without a terminal: the log is never written over, and frames of entries of one row each replace each other |
| Inventory | ScoredIsLinked, ChoiceIsDetermined, SpaceGoesToTheBest | every graph of four files with two edges each, in every order of the edges |
| Algorithms | AnswersAreDecisions, ConfigurationIsWhole, EditsStayInBlock | a message acts like a step of the ledger; no local and no file is missed; edits of blocks touch nothing else |
| | RepositoryIsLinked | from any file of a chart the search finds all of it within two edges, from any file that names a part of the chart, or a directory above it, within three; what a seed names is found with the `Chart.yaml` beside it; whatever the limits cut off |
| | QueryFallsBack, BackendsAreDiscovered | a query succeeds exactly when some scheme, path and expression has an answer, and takes the first such expression; a service that is named for a backend is discovered as one |
| | ScoresAreMonotone, AlarmsAreTrue, LossIsReported | a guardrail never costs points; an alarm about endpoints holds before or after a change that happens between any two calls, and what runs hot has a hot pod; lost queries hide only |
| | CrashesAreEscalated, ReportIsFair, AnalyzersAgree | crashes are not cut off by harmless restarts; the report leads with the worst and is the same in every order; analyzers that look at the same thing agree, whatever call fails in one of them |

`TypeOK` of LiveRollout, CompoundRemediation, LiveProgress and RepoInventory holds in
the runs Rollout, CompoundTrace, Progress and Inventory as well; it is left out of
them, as their other invariants say more.

Two runs are findings: TLC finds what the repository promises violated.

| Run | Finding |
|---|---|
| StoreLostAnswer | an answer is acknowledged with "Recorded" and overwritten by a request under way; no call fails |
| GateManual | `remediate --apply` with the manual provider asks nobody |

### Deviations

More places where the code does not do what is said of it. Each is a property of
a module, which a change of the named run's constants violates; the passing runs
keep clear of it by the premise in the last column.

| Property | Violated with | Because | Premise elsewhere |
|---|---|---|---|
| ApprovalStore!AcknowledgedAnswerIsStored | StoreSerial | the error of the update behind a callback is dropped (`slack.go:200`): when the file cannot be read, or the directory made or the file opened for writing, the file keeps the old decision, and the answer is acknowledged with "Recorded" (`slack.go:209`) all the same. One process is enough. If the write fails after the truncation the store cannot be read, and commands that poll it say so | `erred` |
| ApprovalGate!AppliedPlanWasApproved | GateManual with `Cmds = {c1, c2}`, `Kinds = {"propose"}`, `Providers = {"telegram"}`, `FreshIds = FALSE` | an old answer to a used `--approval-id` counts for the new plan (`telegram.go:78`) | `FreshIds` |
| ApprovalGate!TimedOutUnanswered | GateWait with `Ids = {i1, i2}`, `Kinds = {"propose"}`, `Providers = {"n8n"}` | the id that the workflow returned is dropped, and another is polled (`remediate.go:253`, `terraform_pr.go:261`, `smart_remediate.go:243`) | no n8n in GateWait |
| ApprovalGate!ApprovalInTimeIsUsed | GateWait | the plan approved during a wait is applied under the context that `--timeout` started before the investigation (`remediate.go:292`), while `--approval-timeout` is longer by default | not checked |
| LiveRollout!VerifiedPodsAreAvailable | Rollout | `status.availableReplicas` counts old pods, too: a rolling update is verified before a new pod is available (`executor.go:140`, whose comment at line 129 says "updated & available") | `strategy = "Recreate"` |
| InfraExecutor!PullRequestListsItsFiles | InfraRuns with `Modes = {"inplace"}`, two files | the branch starts where the run before left the checkout (`executor.go:155`), and its commits are in the pull request, too | not checked |
| InfraExecutor!PullRequestCarriesCommit | InfraRuns with `Push = FALSE` | `--open-pr` does not need `--git-push` (`executor.go:193`), though its help says "after push" | `Push` |
| InfraExecutor!NothingTemporaryIsLeft without `r \notin unclean` | InfraRuns | a `git worktree add -b` that fails may leave its branch, of which only the directory is removed (`executor.go:216`), and what fails in the cleanup is only logged (`executor.go:75`) | `unclean` |
| InfraExecutor!TemporaryBranchIsDeleted | InfraRuns | when the agent ended on a third branch `EnsureBranch` renames that one and clears `tempBranch` (`executor.go:257`): nothing fails, and the temporary branch stays | `strayed` |
| InfraExecutor!EditsNeverPanic | InfraRuns | the expression for HCL attributes has a lookahead and a backreference, which `regexp` does not compile (`executor.go:539`) | not checked |
| CompoundRemediation!EndedPhaseIsNotRunning | CompoundTrace with `Faults = FALSE` | a result that cannot be written ends the command without a last trace (`smart_remediate.go:525`) | not checked |
| CompoundRemediation!UnstartedPhaseIsSkipped | CompoundTrace with `Faults = FALSE` | "skipped" is set in a branch that no plan reaches (`smart_remediate.go:533`) | not checked |
| LiveProgress!FinalScreenIsLog | Progress | `select` may take a tick after `done` is closed, so that a frame is drawn after `Close` (`progress.go:145`) and the last line over it | `late` |
| LiveProgress!FramesReplaceEachOther | Progress | a frame counts its entries, not their rows (`progress.go:234`): after an entry of several rows the next frame, and what erases the block before a log line, start too low, and rows of old frames stay between the lines of the log | `tall` |
| RepoInventory!ChoiceIsDetermined without `~Cut` | Inventory | when the limit of `Expand` stops the search, which files were scored depends on the order of a Go map (`graph.go:125`) | `~Cut` |
| RepoLinks!NamedFileIsLinked | Algorithms | the limit on the files beside the one that is named counts it by its rank: behind a dozen `values-*.yaml`, the `values.yaml` that a file names is not linked (`graph.go:425`); the search finds it over the chart | not checked |
| RepoLinks!RootChartHangsTogether | Algorithms, with a chart at the root | files of the chart are looked for under the prefix `./templates/`, which no path has (`graph.go:156`) | charts with a directory |
| TelegramScan!ActsLikeLedger without its premises | Algorithms | no update is ever confirmed, so that behind 100 of them newer answers are not seen (`telegram.go:143`); `approve 12` answers for id `1`, "disapprove" approves, and an id with upper case letters is never found (`telegram.go:93`) | the premises |
| HclEdit!AppendsToBlock without its premise | Algorithms | in an indented block that ends in `} }` the inner brace is taken for the closing one, and the rest is cut off (`executor.go:569`) | closing brace on its own line |
| InfraExecutor!ApprovedPlanIsUsed | InfraRuns | the answer of the language model may replace the edits, the branch and everything else of the approved plan (`repo_agent.go:357`) | not checked |
| Telemetry!RecognisedBackendIsDiscovered | Algorithms | `capability.go:202` does not know the names Thanos, Mimir, Cortex, VictoriaMetrics, Elasticsearch and OpenSearch, which `telemetry.go:84` and `telemetry.go:109` look for, so that they are discovered only beside another signal | names both know |
| Telemetry!UsableAnswerIsFound without its premise | Algorithms | `ProxyGetRaw` takes the first scheme that answers anything (`telemetry.go:162`): an error page over HTTP hides the API over HTTPS | schemes agree |
| WorkloadAnalyzers!LostQueriesAreSaid | Algorithms | the queries for throttling and for kills by the kernel may fail without an unknown (`timeseriespressure.go:146`, `:158`) | not checked |
| WorkloadAnalyzers!HotspotsHaveNames | Algorithms, with a series without labels | an expression whose grouping labels a backend does not have answers with one series for all pods, and is not skipped (`prometheus.go:99`): the hotspot has no name | not checked |
| WorkloadAnalyzers!ExposureAlarmIsTrue for every service | Algorithms | ready endpoints are summed over all services of a workload (`workloadrisk.go:127`): a load balancer that serves nothing is hidden by an internal service that does | one of its services |
| RiskScore!ReplicasNeverHurt | Algorithms | with a second replica a workload behind an internal service lacks a disruption budget, which costs more than the single replica did (`workloadrisk.go:439`) | `Improves` keeps the replicas |
| ClusterHealth!CrashesAreReported | Algorithms | only the ten containers with the most restarts are looked at (`clusterhealth.go:274`): those that restart without harm push one that crashes out of sight | fewer restart as often |
| ClusterHealth!HintsAreDetermined | Algorithms | containers of one pod with the same score come in the order of a Go map (`clusterhealth.go:405`) | not checked |
| Diagnosis!TelemetryIsAgreed | Algorithms | `discovery` looks at the capabilities without system namespaces, the choice of the analyzers with them (`analyzers.go:56`): one says that backends are not confirmed, the other queries them | trust never decreases |
| Diagnosis!FailuresNeverFlatter | Algorithms | a list of autoscalers that fails removes a finding of 10 points and adds an unknown of 3 (`discovery.go:131`, `report.go:43`) | not checked |

Also seen: `confidence` is never "high" in `diagnose`, since some analyzer always
has an unknown; the title "only partially confirmed" of `telemetrycoverage` is
not one of the wordings that limit the confidence; one analyzer that fails
discards what all others found (`engine.go:16`).

Text of HCL that is outside `HclEdit`: a brace or quote in a comment or heredoc
counts like any other (`executor.go:596`).

### Bounds

- `MaxRequests`, `MaxClicks` (store): two requests per id are the first and a repeated one, three clicks an answer, its repetition and its reversal; with overlaps one request and two clicks. `MaxActive` is the number of processes in the file at once: 1 gives the serial runs; of 4 processes 3, since a lost update and a garbled file need two and one more can meet the result.
- Two ids, plans and commands (gate): a wrong plan or id needs one other. Timeouts of one interval in GateFresh, whose property does not depend on time; in GateWait a wait of three intervals leaves room for an answer before, at and after the last poll. `MaxTime` bounds the clock, and `Gate` starts no wait that it would cut off.
- `MaxGeneration`, `MaxReplicas` (rollout): a change by each executor and one by others; up to two replicas, so that a rolling update has an old and a new pod. Times of 2 for the verification and 3 for the context let either end first; `MaxTime` is 3. One executor: a second one is, for it, one of the others that change the Deployment.
- Two runs, one file (infra): a run and what the run before or beside it left in the file that it edits, too. Two branches of plans, so that an agent may end on one that is neither its own nor the plan's, or on that of the other run. Two of MCInfraExecutor's definitions keep this within minutes. `OneEditType`: only a plan that is applied in place as it is has a type of edits to choose, since an external agent does not look at it and a language model may answer with either. `OnlyEdits`: beside two runs in worktrees the operator edits, and beside one in the checkout stages and pushes, too. The invariants hold without the second, too, where the plans have one branch. A second file is beyond what TLC can visit. Partial edits of two files were checked with runs in place, which are those that edit file by file.
- `MaxCalls`, `MaxHistory`, `MaxRows` (progress): four calls fill a history of two and overflow it, log over a block of three entries and close twice. A message of one row and one of two; old rows pile up until ten are on the screen, after which no frame is begun, while what is under way ends.
- Four files (inventory), two seeds, depth 2, so that a file may be found at its shortest distance and again behind it; `Limit` 4 cuts the search in some graphs, and space for 3 bytes cuts previews of 1 to 4.
- Repositories: a chart in one of two places, with any of its optional parts, twelve more environments or manifests, so that every limit cuts, and one file that names a part of it, in one of four kinds of file and five forms of path.
- Three locals and three files: chains as long as there are locals, diamonds and circles. Two messages before the last one. Bodies of two items out of 24 nestings of strings and blocks.
- Backends: two prefixes, two schemes and two expressions, with every combination of no answer, garbage and an answer; services with two of five words and any of three ports. Expressions and words beyond the second repeat the same step of the same loop.
- Profiles and their improvements: values around each threshold (none, one, enough). The theorem has them all.
- Clusters: one workload behind none, one or two services and an ingress, each with no, ready, unknown or stopping endpoints, before and after a change at each of the calls; two pods in one or two namespaces, with use below, at and above the thresholds; four containers with eight kinds of status, of which two are sampled. More objects of a kind add to sums that are modelled as sums.
- Reports of two results with two findings each; diagnoses of 144 clusters in which a call fails in one of six steps.

Identifiers are only compared, so StoreConcurrent, GateFresh and InfraRuns use symmetry.
`CHECK_DEADLOCK FALSE` stands in all runs because commands end.

### Fairness

Time passes, and a command that waits for an approval or verifies a rollout goes
on (`FairSpec` of the gate and of the rollout): its loop waits for a ticker and
for calls that have a context, for no other process. The goroutine of the progress display draws (weakly fair), and as
`select` chooses at random among ready channels, it does not take a tick for ever
when it could stop (strongly fair). Nothing is assumed of operators, users, the cluster or the
network, except in the premises of the properties.

## Proofs

TLAPS checks these for every value of the constants, given the named ASSUMEs
(what a constant is: sets are disjoint or finite, numbers are naturals, and positive
where the code replaces others by a default) and the premises named below.

| Theorem | Argument |
|---|---|
| `CompoundRemediationProofs!TypeCorrect`, `TraceTrue`, `OkComplete`, `SequenceImplemented` | `IInv`: at each step of the command, what each phase may be (`LiveOf`, `InfraOf`), that the trace lags behind the phases (`TraceOf`), and that only a complete run reports success (`ExitOf`). `TraceIsTrue` alone is not inductive: it does not say what the *next* write of the trace will claim. |
| `ApprovalGateProofs!TypeCorrect` | with `Busy`: a command under way holds a plan and an id |
| `ApprovalGateProofs!OnlyApprovedPlansAreApplied` | `BindInv`: an id belongs, from the moment it is made up, to one plan, its owner. The plan file, the plan in memory and the message shown under an id carry the owner (`FileBound`, `HeldBound`, `ShownBound`), and an approval in the provider was given to it (`AnswerBound`); so a command that passed the gate holds an approved plan (`Cleared`). Premises: ids are not used twice (`FreshIds`), and no `propose` command runs with the manual provider. GateManual and the Deviations show that both are needed. |
| `ApprovalGateProofs!NoAnswerIsMissed` | `WaitInv`: a command waits for the id under which it asked (`AskedOwn`), an id without a request has no answer (`NewIds`), an approval stays in the provider (`AnswerKept`), and a command that is about to sleep again saw none at its last poll (`Recent`), at most one interval before (`Missed`). Premises: `FreshIds`, and no n8n, which the Deviations show to be needed. |
| `ApprovalStoreProofs!TypeCorrect`, `NoAnswerIsInvented`, `BrokenStoreStays` | `ClickInv`: every answer in the file, in the copy of a process or in the task of a handler was clicked; the copies are needed since a stale one may be written at any time |
| `ApprovalStoreProofs!ShownIdsAreKnown`, `AnswersAreStoredUnlessUpdateFailed`, `LedgerImplemented` | `SerialInv`: with one process in the file at a time (`Serial`), the file is what the ledger says or lost (`FileInv`), and the copy and the text of the active process extend it by its own operation (`TaskInv`). The write that completes is the step of the ledger; a truncation that is never followed by one loses it, and an error in front of it changes nothing. Premise: `MaxActive = 1`; StoreLostAnswer shows that it is needed, and the Deviations that an answer whose update failed must be excepted. |
| `LiveRolloutProofs!TypeCorrect`, `VerifiedScalesWereReached`, `RecreatedRolloutsAreAvailable`, `NoRolloutIsOverlooked` | `IInv`: what a status of a generation may say of the replicas and pods, so that what the executor read in `status` was true of the cluster when it was written; and how old the last poll is when the clock reaches the deadline |
| `LiveRolloutProofs!VerificationIsInTime` | the safety half of ApplyEnds: no executor verifies beyond its deadline, whatever else happens |
| `InfraExecutorProofs!TypeCorrect`, `TemporaryFilesAreRemoved`, `CheckoutIsLeftAlone`, `CommitsAreOwnWork`, `PullRequestsCarryCommits` | `IInv` says at each step of a run which of its worktree, directory and temporary branch there are (`CheckoutRun`, `WorktreeRun`, `EndedRun`) and when it is on the branch of its plan (`BranchRun`), that the run in place is alone in the checkout (`Exclusive`), and that what is checked out exists and is checked out once (`Heads`): so no run renames, commits to or deletes the branch another is on, and `git branch -D` finds the temporary branch free. What a step of one run leaves alone is `Effect`; a `prune` may take the worktree of another off the list, but only when its directory is gone (`PlaceLeft`). On top of it: nothing but a user's work reaches the main branch, what is in a run's files and index is its own (`OwnWork`), and what is pushed is its commit (`Published`). Premises: `RequireClean` for the commits, `Push` for the pull requests, as in the runs. |
| `LiveProgressProofs!TypeCorrect`, `LogIsKept`, `ScreenIsRight` | What erasing, drawing and logging do to any screen are lemmas about the rows (`Putting`, `Erasing`, `Clearing`, `Logging`, `Drawing`). `LogIsAbove`: the rows that are logged lie above `First`, where the next frame or erasure will start; it holds for messages of any number of rows, since an entry of several rows only makes that start lower. `RestIsEmpty`: below the cursor, or the rest of a frame that is being written over, there is nothing. `BlockIsCurrent`: while every entry fills one row, the block on the screen is the one that a frame drawn now would have, and it follows the log. What they need is `Mode`: how many entries are on the screen, and that no block is there when the last line is written. |
| `RepoInventoryProofs!ScoresAreLinked`, `ExpandTypeCorrect` | `ExpandInv`: whatever is in the queue, being visited or scored lies at the end of a path from a seed as long as its depth says; an edge extends the path by one |
| `RepoInventoryProofs!SearchIsExpand`, `ScoresOfInventoryAreLinked`, `TypeCorrect` | the inventory implements `ExpandSpec` step by step, and has what was proved of it |
| `RepoInventoryProofs!SpaceIsUsedInOrder` | `SpaceInv`: a file that was cut is the last and has used up the space, so that none follows |
| `RepoInventoryProofs!ChoiceIsSettled` | `OrderInv`: the queue is sorted by depth, a file waits in it once, and nothing is deeper than what the visited file leads to, so that no file is queued again with a smaller depth. `ReachInv`: what was seen lies at the end of a path of its depth, and what a file leads to is seen once it was ranged over. `ScoreInv`: a score is what the edges so far give, level by level. When nothing waits any more, the levels are those of `Within` (`LevelsAreSeen`) and the scores `LinkScore`, whatever the order was; and scores have one ranking (`RankedIsUnique`). It needs no limit on the edges or the files; `~Cut` is needed, see the Deviations. |
| `AlgorithmProofs!PassesAreEnough` | what is found is closed, and a local that is new in a pass needs only what was found before, so not itself (`PassesAreSound`). As many passes as there are locals come to rest (`PassesComeToRest`); of the locals still without a value then, the one with the fewest needs would use another one with fewer still (`RestIsComplete`). |
| `AlgorithmProofs!EveryChainIsFollowed`, `ConfigurationsAreWhole` | a chain is its file alone or a chain of a file it reads, with the file put in front (`ChainsGrow`). By the number of files that are not on the stack: what is read from a file are its chains, and the stack is afterwards what it was (`ReadAllIs`, `EveryEntryIs`); that the same chains satisfy the equation of the recursion shows that there is a solution at all. |
| `AlgorithmProofs!MoreGuardrailsNeverHurt`, `ScoresAreOrdered` | each of the conditions that `scoreProfile` and `scoreTrend` add up is monotone in the guardrails (`IfMonotone`, `PerContainerMonotone`), and so are the points for endpoints, whose two conditions exclude each other (`EndpointMonotone`); the sums follow term by term. It is what ScoresAreMonotone checks, without its bounds. |
| `AlgorithmProofs!MessagesActLikeLedger`, `AnswersAreTaken` | in a message without "disapprove" the words that `Speaks` looks for are those of an answer to the id, since no other id starts with it (`PlainWords`); the message that `Status` takes is the one with the greatest index (`HasGreatest`), the new one if it answers and the same as before if not. It is what AnswersAreDecisions checks, for any number of updates. |
| `AlgorithmProofs!QueriesFindAnswers`, `AnswersAreFound` | the reply that counts for a path is that of the first scheme with any (`RawReply`); where the schemes agree it is good exactly when one of them is, so that `PathFor` finds a path when there is one (`PathForIs`). The expression that answers is the least with such a path (`LeastIs`). |
| `AlgorithmProofs!NamedBackendsAreDiscovered`, `BackendsAreFound` | a name of one backend is a signal (`NameIsSignal`), a signal makes its capability detected (`SignalIsDetected`), and for a detected capability `Discover` keeps what the name of the service says (`BackendIsFound`). The capabilities are detected from all services, backends from each. |
| `AlgorithmProofs!ExposureAlarms`, `HotWorkloads`, `AlarmsHold` | sums over finite sets of naturals are functions of the subsets (`SumsExist`, `TotalIs`), zero only if every term is (`SumZero`). So a workload that is reported has services without a ready endpoint in the slices that were seen; the services of that view were there before or are there after, and its slices are those of one side of the change (`ViewIs`). A workload that is hot has a sum of use near the sum of requests, impossible if it is less for each pod (`SumLess`). |
| `AlgorithmProofs!LostQueries`, `LossesAreReported` | the level of a metric without samples is the least there is (`LossLowersTrend`), more load never scores less (`LoadRaisesScore`), so all scores fall (`LossLowersScores`), and with them the worst, whose severity is what is reported (`WorstIsMonotone`, `PressureSays`). The unknowns are counted apart (`UnknownsAdd`). Premise: values are at the levels of the thresholds. |
| `AlgorithmProofs!CrashesEscalate`, `CrashesAreReported` | a container that is not among the samples has as many that rank before it (`RestsAhead`), and one that is not among any choice of the containers to look into has as many with a score no lower (`OthersAreFetched`). |
| `AlgorithmProofs!ReportsAreFair`, `ReportsHold` | the places ahead of a finding are fewer than those ahead of the next (`AheadIsFewer`), so that each finding has a position of its own in the report and the first is of the worst severity (`FirstIsWorst`). Another order of the results renames the places: sums, counts and the worst severity stay (`SumRenamed`, `CardinalityRenamed`, `AssessmentRenamed`). One more finding adds its points to the total, one more unknown at most three (`OneMoreFinding`, `OneMoreUnknown`), and an assessment of more points, a worse risk or more unknowns is no better (`WorseAssessment`). |
| `AlgorithmProofs!AnalyzersAreOfOneMind`, `AnalyzersHold` | every analyzer that does not fail returns findings of known severities (`AnalyzerIs`), whatever calls fail in it, so that the report has what each of them leads with (`ReportIs`, `LeadIsTold`). An exposed workload without ready endpoints scores at least 20 (`ScoreIs`), as does a single replica (`SingleScores`), and a score of 20 is a risk (`HighScoreIsRisk`); a service in front of that workload is in trafficexposure's list (`UnservedIsTold`), and the group of ingresses is why trafficexposure runs at all (`NetworkIsTraffic`). What is seen without the system namespaces is seen with them (`MoreIsSeen`), so nothing is less trusted (`MoreIsTrusted`). Premise: numbers of a workload are numbers. |
| `AlgorithmProofs!ChartsHangTogether` | the `Chart.yaml` has edges to the templates and the values (`FromChart`), values have edges to every `Chart.yaml` and to the templates (`ToChart`), a template to those beside it and to the values in front of them (`FromTemplate`); two edges are enough (`ChartIsNear`). No limit cuts these edges, so nothing is assumed but that files have paths. |
| `AlgorithmProofs!NamedChartsAreReached`, `NamedFilesAreReferenced`, `LinksHold` | cleaning leaves no `.` and a `..` only in front (`CleanIsNormal`), and a path that starts with no dot as it is (`CleanIsFixed`): what `DiscoverRefs` cleans is cleaned again by the graph with the same result (`CleanTwice`). Of any files, `Best` keeps the one that nothing precedes (`FirstRemains`) and every `Chart.yaml`, which ranks first, as long as they are not more than the limit (`ChartsRemain`). So what is named above a chart or in it leads to its `Chart.yaml` or its templates in one edge (`AboveLeadsToChart`, `PartLeadsToChart`), and two more lead to all of it. Premises (`Checkout`, `FewCharts`): no file has the path of a chart's directory; below the templates of a chart there is no `Chart.yaml` and no `templates/templates`; at most ten charts below the directory of a file of a chart. Each repository of the run has them (`CheckoutIs`). |
| `AlgorithmProofs!EditsAreLocal`, `EditsHold` | a scan of a text is a function of the pieces in front (`ScanIs`), and in a block the same scan one level deeper (`ScanDeeper`). So in a block whose braces match and whose strings end, a brace that brings the depth to zero is the one behind the body and no other (`BlockStates`, `EndIs`); with the first header (`HeaderIs`) and the last newline in front of it (`LineIs`) this is where the block stands, and what is cut out are the parts that the text was put together from (`PartsAre`). Without white space texts end to end are what they are apart (`SolidJoin`), so indentation and what `TrimRight` takes make no difference; `LastIndex` finds the indented brace at the end (`SuffixIs`), which keeps the rest (`KeptIs`). Premises (`Editable`): the header stands nowhere in front of the block, what is in front are whole lines, braces match in the body, and every string in it ends; nothing of what follows the block. The bodies of the run are such: runs of the scan go on from where others end (`RunOfBoth`). |

The inductive invariants were checked by TLC, too, on the instances of the runs
and, for `WaitInv`, on one with two commands that wait.

Only model-checked are the liveness properties (WaitEnds, ApplyEnds, LoopEnds),
which are outside the logic of the provers used.
Induction is available to the proofs only as the least element of a set of numbers (`HasLeast`, `UpTo`),
or of the sizes of the subsets of a finite set (`Subsets`, `SmallerFirst`), which
makes each that follows a recursion a long one.

## Not modelled

Rendering, the language models, prompts and the parsing of their answers, HTTP,
flags and environment: I/O without state that a later command depends on. The
text of logs, recommendations and evidence. Which paths and hints the text of a
file or a report has: they are inputs of `RepoLinks` and arbitrary in
`RepoInventory`, so what is shown there holds however they are found. Search-and-replace and attribute edits of HCL.
`PROJECT.json` has the reason per component.

## Plan

1. done: ApprovalLedger, ApprovalStore, ApprovalGate, LiveRollout, InfraExecutor, PhaseSequence, CompoundRemediation, LiveProgress, GraphExpand, RepoInventory, TelegramScan, HclConfig, HclEdit; proofs of the store, the gate, the compound command and the graph search.
2. done: the plan refined by a language model; the analyzers, their backends and the report; the proof about scores.
3. done: proofs of the ledger refinement, the waits of the gate, the executors, the display, the inventory, the chats, the configurations, the scores, the queries, the alarms, the report, the agreement of the analyzers, the links of a repository and the edits of blocks.
4. done: how the repository graph is built (targets, priorities). Left: what the hints of a report are.
