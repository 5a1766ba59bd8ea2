--------------------------- MODULE MCAlgorithms ----------------------------
(* Each state holds one input of one of the algorithms. *)
EXTENDS TelegramScan, HclConfig, HclEdit, RiskScore

CONSTANTS
  Locals,      \* names of locals
  MaxUpdates,  \* messages of the bot before the last one
  MaxPieces    \* items in the body of a block

CONSTANTS SystemNamespaces, SystemPrefixed, KubeNamespaces, IncludeSystem, Unset, MaxSamples, MaxHints

ASSUME LocalsAssumption == IsFiniteSet(Locals)

ASSUME AnalyzersAssumption == IncludeSystem \in BOOLEAN /\ MaxSamples \in Nat /\ MaxHints \in Nat

VARIABLE input

X == INSTANCE MCAnalyzers

L == INSTANCE RepoLinks

MCStarts == [i \in Ids |-> IF i = "id" THEN {"id", "id2"} ELSE {i}]
MCLower  == Ids
MCUnset  == -1

None == [kind |-> "none"]

(***************************************************************************)
(* Chats                                                                   *)
(***************************************************************************)

SomeMessages == {m \in Messages : Cardinality(m.says) <= 2}

Chatter == [kind : {"chat"}, updates : SeqOf(SomeMessages, MaxUpdates), message : SomeMessages, id : Ids]

(***************************************************************************)
(* Configurations                                                          *)
(***************************************************************************)

LocalGraphs == [kind : {"locals"}, uses : [Locals -> SUBSET Locals], broken : SUBSET Locals]

FileGraphs ==
  [kind : {"files"}, reads : [1..3 -> SUBSET (1..3)],
   includes : [1..3 -> {s \in SUBSET (1..3) : Cardinality(s) <= 1}]]

(***************************************************************************)
(* Texts                                                                   *)
(***************************************************************************)

Strings == {<<"quote">> \o s \o <<"quote">> :
              s \in {<<>>, <<"open">>, <<"close">>, <<"\\", "quote", "close">>, <<"\\", "\\">>}}
Simple  == Strings \cup {<<"x">>, <<"nl">>, <<"nl", "tab">>}
Nested  == {<<"open">> \o s \o <<"close">> : s \in Simple}
Items   == Simple \cup Nested \cup {<<"open">> \o s \o <<"nl", "tab", "close">> : s \in Nested}

Bodies == {FlattenSeq(s) : s \in SeqOf(Items, MaxPieces)}

Texts ==
  [kind : {"text"}, pre : {<<>>, <<"x", "nl">>, <<"header", "x", "open", "close", "nl">>},
   indent : {<<>>, <<"tab">>}, body : Bodies, ownLine : BOOLEAN,
   post : {<<>>, <<"nl", "close">>, <<"nl", "header", "open", "close">>}]

(***************************************************************************)
(* Repositories: a chart, more values or manifests than the limits allow,  *)
(* and a file that names a part of the chart in one of the ways there are. *)
(***************************************************************************)

RepoFile(path, name, type) ==
  [path |-> path, name |-> name, type |-> type, refs |-> {}, quoted |-> {}, commands |-> {}]

ChartAt(dir, parts, values) ==
  LET Part(p, file) == IF p \in parts THEN <<file>> ELSE <<>>
  IN  Part("Chart", RepoFile(Append(dir, "Chart.yaml"), "Chart", "yaml"))
      \o <<RepoFile(dir \o <<"templates", "_helpers.tpl">>, "plain", "tpl"),
           RepoFile(dir \o <<"templates", "deployment.yaml">>, "deployment", "yaml")>>
      \o Part("nested", RepoFile(dir \o <<"templates", "tests", "run.yaml">>, "plain", "yaml"))
      \o [i \in 1..values |-> RepoFile(Append(dir, "values-" \o ToString(i)), "valuesEnv", "yaml")]
      \o Part("values", RepoFile(Append(dir, "values.yaml"), "values", "yaml"))

Manifests(n) == [i \in 1..n |-> RepoFile(<<"charts", "api", ToString(i)>>, "plain", "yaml")]

Dirs == {<<"charts", "web">>, <<"web">>}

PartsOf(dir) ==
  {dir, Append(dir, "Chart.yaml"), Append(dir, "values.yaml"), <<"charts">>,
   Append(dir, "templates"), dir \o <<"templates", "deployment.yaml">>}

WaysTo(p) == {p, <<".">> \o p, <<"..">> \o p, <<"/", "checkout">> \o p, [p EXCEPT ![Len(p)] = "*"]}

Referrers(r) ==
  {[RepoFile(<<"zone", "main.tf">>, "plain", "hcl") EXCEPT !.refs = {r}, !.quoted = {r}],
   [RepoFile(<<"zone", "kustomization.yaml">>, "kustomization", "yaml") EXCEPT !.refs = {r}],
   [RepoFile(<<"zone", "run.sh">>, "plain", "command") EXCEPT !.commands = {r}],
   [RepoFile(<<"zone">>, "plain", "command") EXCEPT !.commands = {r}]}

NamingFiles(dir) == UNION {Referrers(r) : r \in UNION {WaysTo(p) : p \in PartsOf(dir)}}

RepositoryWith(dir, manifests, parts, values, f) == Manifests(manifests) \o ChartAt(dir, parts, values) \o <<f>>

RepositoriesIn(dir) ==
  {RepositoryWith(dir, m, parts, v, f) :
     m \in {0, 12}, v \in {0, 12}, parts \in SUBSET {"Chart", "nested", "values"}, f \in NamingFiles(dir)}

Repositories == [kind : {"repository"}, files : UNION {RepositoriesIn(d) : d \in Dirs}]

-----------------------------------------------------------------------------
Init == input = None

Choose(inputs) == input = None /\ input' \in inputs

Next ==
  \/ Choose(Chatter) \/ Choose(LocalGraphs) \/ Choose(FileGraphs) \/ Choose(Texts)
  \/ Choose(X!Replies) \/ Choose(X!Platforms) \/ Choose(X!Improvements) \/ Choose(X!Changes)
  \/ Choose(X!Series) \/ Choose(X!Loads) \/ Choose(X!Reports)
  \/ Choose(X!Crashing) \/ Choose(X!Runs) \/ Choose(Repositories)

Spec == Init /\ [][Next]_input

(* ActsLikeLedger of telegram.go.                                          *)
AnswersAreDecisions ==
  input.kind = "chat" => ActsLikeLedger(input.updates, input.message, input.id)

(* LocalsAreComplete and ConfigIsWhole of resolver.go.                     *)
ConfigurationIsWhole ==
  /\ input.kind = "locals" => LocalsAreComplete(input.uses, input.broken)
  /\ input.kind = "files" => ConfigIsWhole(1, input.reads, input.includes)

(* ChartHangsTogether and NamedChartIsReached of graph.go, and             *)
(* NamedFileIsReferenced of infra_repo_inventory.go.                       *)
RepositoryIsLinked ==
  input.kind = "repository" =>
    /\ L!ChartHangsTogether(input.files)
    /\ L!NamedChartIsReached(input.files)
    /\ L!NamedFileIsReferenced(input.files)

(* The three properties of the edits of blocks of executor.go.             *)
EditsStayInBlock ==
  input.kind = "text" =>
    /\ BlockIsLocated(input)
    /\ ReplacesBlockOnly(input, <<"x", "open", "close">>)
    /\ AppendsToBlock(input, <<"x", "open", "close">>)

(* UsableAnswerIsFound and NamedBackendIsDiscovered of telemetry.go.       *)
QueryFallsBack ==
  input.kind = "query" =>
    X!UsableAnswerIsFound(X!MetricsBackend, input.reply, <<<<"first">>, <<"second">>>>, "vector")

BackendsAreDiscovered ==
  input.kind = "platform" => X!NamedBackendIsDiscovered(input.c, input.failing, FALSE)

(* GuardrailsNeverHurt of scoreProfile and scoreTrend.                     *)
ScoresAreMonotone == input.kind = "profile" => GuardrailsNeverHurt(input.q, input.p, input.t)

(* ExposureAlarmIsTrue of workloadrisk.go and HotWorkloadHasHotPod of      *)
(* runtimemetrics.go.                                                      *)
AlarmsAreTrue ==
  /\ input.kind = "change" => X!ExposureAlarmIsTrue(input.old, input.new, input.cut)
  /\ input.kind = "load" => X!HotWorkloadHasHotPod(input.c)

(* LostQueriesOnlyHide of timeseriespressure.go.                           *)
LossIsReported == input.kind = "series" => X!LostQueriesOnlyHide(input.c, input.answers, input.lost)

(* AssessmentIsFair of report.go.                                          *)
ReportIsFair == input.kind = "report" => X!AssessmentIsFair(input.results, input.more)

(* CrashesAreEscalated of clusterhealth.go and AnalyzersAgreeOn of the     *)
(* analyzers of diagnose.                                                  *)
CrashesAreEscalated == input.kind = "crashes" => X!Everywhere!CrashesAreEscalated(input.pods)

AnalyzersAgree == input.kind = "run" => X!AnalyzersAgreeOn(X!RunOf(input))
=============================================================================
