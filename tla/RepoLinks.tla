----------------------------- MODULE RepoLinks ------------------------------
(***************************************************************************)
(* Which files of a repository belong together: the edges that Build       *)
(* (internal/infra/repositorygraph/graph.go) gives the graph that Expand   *)
(* follows, and the files that the text of a seed names                    *)
(* (extractLocalReferenceTargets, internal/cli/infra_repo_inventory.go).   *)
(*                                                                         *)
(* A repository is a sequence of files in the order of their paths.  Of    *)
(* the name of a file there is what it starts with (name) and how it ends  *)
(* (type).  Its refs are the paths that its HCL or YAML evaluates to, and  *)
(* its text has quoted paths and paths in command lines (commands).        *)
(***************************************************************************)
EXTENDS Integers, FiniteSets, SequencesExt

Dir(f) == Front(f.path)
Below(p, f) == IsPrefix(p, f.path)

IsYAML(f)   == f.type = "yaml"
IsHCL(f)    == f.type \in {"hcl", "tfvars"}
IsValues(f) == f.name \in {"values", "valuesEnv", "valuesOther"}

(* "/templates/" is in the path: a directory at the root has no slash      *)
(* before it.                                                              *)
InTemplates(p) == \E i \in 2..(Len(p) - 1) : p[i] = "templates"

(* filepath.Clean, element by element; "/" is the mark of an absolute      *)
(* path.                                                                   *)
CleanStep(out, c) ==
  IF c \in {".", "/"} THEN out
  ELSE IF c = ".." /\ out # <<>> /\ Last(out) # ".." THEN Front(out)
  ELSE Append(out, c)

Clean(p) ==
  LET out[k \in 0..Len(p)] == IF k = 0 THEN <<>> ELSE CleanStep(out[k - 1], p[k])
  IN  out[Len(p)]

Dotted == {".", "..", ".github"}

(***************************************************************************)
(* What comes first where there are too many files.                        *)
(***************************************************************************)

(* targetPriority and linkedTargetPriority: by name, else by type. *)
GraphRank ==
  [Chart |-> 100, helmfile |-> 97, valuesEnv |-> 95, values |-> 90, deployment |-> 88,
   statefulset |-> 87, service |-> 86, ingress |-> 85, hpa |-> 84, kustomization |-> 83,
   command |-> 78, yaml |-> 70, hcl |-> 60, tfvars |-> 60, tpl |-> 10, other |-> 10]

PromptRank ==
  [Chart |-> 100, helmfile |-> 97, valuesEnv |-> 95, values |-> 90, deployment |-> 88,
   statefulset |-> 87, service |-> 85, ingress |-> 84, hpa |-> 83, pdb |-> 82,
   tpl |-> 80, command |-> 76, yaml |-> 70, hcl |-> 60, tfvars |-> 10, other |-> 10]

RanksByName(rank, f) ==
  /\ f.name \in DOMAIN rank
  /\ f.name \in {"valuesEnv", "values"} => IsYAML(f)
  /\ f.name \in {"deployment", "statefulset", "service", "ingress", "hpa", "pdb"} =>
       InTemplates(f.path) /\ Last(Dir(f)) = "templates"

Priority(rank, f) == rank[IF RanksByName(rank, f) THEN f.name ELSE f.type]

(* Mutant: in the order of the paths only. *)
BestByPath(repo, files, rank, limit) ==
  {f \in files : Cardinality({g \in files : g < f}) < limit}

Best(repo, files, rank, limit) ==
  LET Before(g, f) == LET p == Priority(rank, repo[g])
                          q == Priority(rank, repo[f])
                      IN  p > q \/ (p = q /\ g < f)
  IN  {f \in files : Cardinality({g \in files : Before(g, f)}) < limit}

FilesAt(repo, p)    == {f \in DOMAIN repo : repo[f].path = p}
FilesIn(repo, p)    == {f \in DOMAIN repo : Dir(repo[f]) = p}
FilesBelow(repo, p) == {f \in DOMAIN repo : Below(p, repo[f])}

(* The prefix "./templates/" of a file at the root has no file below it. *)
Templates(repo, dir) ==
  IF dir = <<>> THEN {} ELSE FilesBelow(repo, Append(dir, "templates"))

(***************************************************************************)
(* Where a path is looked for.                                             *)
(***************************************************************************)

(* An absolute path may lead into the checkout. *)
ReferenceCandidates(ref, dir) ==
  IF Head(ref) = "/"
    THEN IF IsPrefix(<<"/", "checkout">>, ref) THEN {Clean(SubSeq(ref, 3, Len(ref)))} ELSE {}
    ELSE {Clean(dir \o ref)} \cup (IF Head(ref) \in Dotted THEN {} ELSE {Clean(ref)})

(* DiscoverRefs: HCL leads to what there is, as a path from the root.      *)
DiscoverRefs(repo, f) ==
  {p \in UNION {ReferenceCandidates(r, Dir(repo[f])) : r \in repo[f].refs} : FilesBelow(repo, p) # {}}

-----------------------------------------------------------------------------
(***************************************************************************)
(* Build                                                                   *)
(***************************************************************************)

(* expandTarget: a file of a chart stands for the files beside it. *)
ExpandTarget(repo, f, limit) ==
  LET file == repo[f]
      dir  == Dir(file)
  IN  Best(repo,
           {f} \cup (IF file.name = "Chart" \/ InTemplates(file.path) \/ IsValues(file)
                     THEN FilesIn(repo, dir) \cup Templates(repo, dir) ELSE {}),
           GraphRank, limit)

MatchCandidate(repo, p, limit) ==
  IF p = <<>> THEN {}
  ELSE IF FilesAt(repo, p) # {} THEN UNION {ExpandTarget(repo, f, limit) : f \in FilesAt(repo, p)}
  ELSE Best(repo, FilesBelow(repo, p), GraphRank, limit)

(* Here a path is not looked for from the root if it still starts with a   *)
(* dot once it is clean.                                                   *)
ResolveLocalTargets(repo, ref, dir, limit) ==
  LET fromRoot == Clean(ref) # <<>> /\ Head(ref) # "/" /\ Head(Clean(ref)) \notin Dotted
      candidates == {Clean(dir \o ref)} \cup (IF fromRoot THEN {Clean(ref)} ELSE {})
  IN  UNION {MatchCandidate(repo, c, limit) : c \in candidates}

LinkExpanded(repo, f, refs, limit) ==
  UNION {ResolveLocalTargets(repo, r, Dir(repo[f]), limit) : r \in refs}

IntrinsicEdges(repo, f) ==
  LET file   == repo[f]
      dir    == Dir(file)
      values == {g \in DOMAIN repo : IsValues(repo[g])}
      charts == {g \in DOMAIN repo : repo[g].name = "Chart"}
      byName == file.name \in {"Chart", "helmfile"} \/ (IsValues(file) /\ IsYAML(file))
  IN  CASE file.name = "Chart" /\ dir = <<>> -> {}
        [] file.name = "Chart" /\ dir # <<>> -> Templates(repo, dir) \cup (values \cap FilesBelow(repo, dir))
        [] file.name = "helmfile"            -> {g \in values : IsYAML(repo[g])} \cup charts
        [] IsValues(file) /\ IsYAML(file)    -> Templates(repo, dir) \cup charts
        [] ~byName /\ InTemplates(file.path)      -> FilesIn(repo, dir) \cup (values \cap FilesIn(repo, Front(dir)))
        [] file.name = "kustomization" /\ ~InTemplates(file.path) -> FilesIn(repo, dir)
        [] OTHER -> {}

(* Build: what comes out is a member of Graphs of GraphExpand. *)
Build(repo) ==
  [f \in DOMAIN repo |->
    (IntrinsicEdges(repo, f)
      \cup (IF IsHCL(repo[f]) THEN LinkExpanded(repo, f, DiscoverRefs(repo, f), 12) ELSE {})
      \cup (IF IsYAML(repo[f]) THEN LinkExpanded(repo, f, repo[f].refs, 10) ELSE {})
      \cup LinkExpanded(repo, f, repo[f].commands, 12)) \ {f}]

-----------------------------------------------------------------------------
(***************************************************************************)
(* The references in the text of a seed                                    *)
(***************************************************************************)

(* From the root, a file is in at most two directories. *)
ExpandDirectoryTarget(repo, p) ==
  Best(repo,
       IF p = <<>> THEN {f \in DOMAIN repo : Len(repo[f].path) <= 3} ELSE FilesBelow(repo, p),
       PromptRank, 10)

LooksLikeChartFile(f) ==
  \/ f.name \in {"Chart", "helmfile"}
  \/ f.name \in {"values", "valuesEnv"} /\ IsYAML(f)
  \/ InTemplates(f.path)

(* A file that is named is not subject to the limit. *)
ExpandLinkedTarget(repo, p) ==
  FilesAt(repo, p)
    \cup (IF InTemplates(p) \/ \E f \in FilesAt(repo, p) : LooksLikeChartFile(repo[f])
          THEN ExpandDirectoryTarget(repo, Front(p)) ELSE {})

(* What the program cannot evaluate is a "*" and stands for any name. *)
MatchWildcardTargets(repo, p) ==
  LET Matches(f) == Len(repo[f].path) = Len(p) /\ \A i \in 1..Len(p) : p[i] \in {"*", repo[f].path[i]}
  IN  UNION {ExpandLinkedTarget(repo, repo[f].path) : f \in {g \in DOMAIN repo : Matches(g)}}

MatchReferenceCandidate(repo, p) ==
  IF p = <<>> THEN {}
  ELSE IF Contains(p, "*") THEN MatchWildcardTargets(repo, p)
  ELSE IF FilesAt(repo, p) # {} THEN ExpandLinkedTarget(repo, p)
  ELSE ExpandDirectoryTarget(repo, p)

ResolveReferenceTargets(repo, ref, dir) ==
  UNION {MatchReferenceCandidate(repo, c) : c \in ReferenceCandidates(ref, dir)}

(* A bonus goes to what the values of HCL name, and to what the text does. *)
ReferenceTargets(repo, f) ==
  LET file == repo[f]
      raw  == file.quoted \cup file.commands
  IN  (IF IsHCL(file) THEN UNION {ExpandLinkedTarget(repo, p) : p \in DiscoverRefs(repo, f)} ELSE {})
        \cup ((UNION {ResolveReferenceTargets(repo, r, Dir(file)) : r \in raw}) \ {f})

-----------------------------------------------------------------------------
(* The files, and those one edge further. *)
Onward(graph, files) == files \cup UNION {graph[g] : g \in files}

Near2(graph, f) == Onward(graph, Onward(graph, {f}))
Near3(graph, f) == Onward(graph, Near2(graph, f))

(* The charts that have a directory and values, and the files that make    *)
(* them up: of a directory, or of the templates right below it.            *)
Charts(repo) ==
  {p \in {Dir(repo[f]) : f \in {g \in DOMAIN repo : repo[g].name = "Chart"}} \ {<<>>} :
     \E f \in FilesIn(repo, p) : IsValues(repo[f]) /\ IsYAML(repo[f])}

ChartFiles(repo, p) ==
  {f \in FilesIn(repo, p) : repo[f].name = "Chart" \/ (IsValues(repo[f]) /\ IsYAML(repo[f]))}
    \cup {f \in FilesIn(repo, Append(p, "templates")) : repo[f].name \notin {"Chart", "helmfile"}}

(* Whichever file of a chart is a seed, the search finds all of the chart: *)
(* the defaults, the environments and the templates of a workload come to  *)
(* the model together.                                                     *)
ChartHangsTogether(repo) ==
  \A p \in Charts(repo) : \A f \in ChartFiles(repo, p) :
    ChartFiles(repo, p) \subseteq Near2(Build(repo), f)

(* The paths that Build reads in a file. *)
Named(f) == f.commands \cup {r \in f.refs : IsYAML(f) \/ (IsHCL(f) /\ Head(r) # "/")}

(* So does the search from a file that names the directory of a chart, or  *)
(* one above it, or a file of it, within the three edges that it follows,  *)
(* however many other files the limits cut off.                            *)
NamedChartIsReached(repo) ==
  \A f \in DOMAIN repo : \A r \in Named(repo[f]) : \A p \in Charts(repo) :
    LET named == Clean(Dir(repo[f]) \o r)
        few   == Cardinality({g \in FilesBelow(repo, named) : repo[g].name = "Chart"}) <= 10
    IN  /\ named # <<>> /\ Head(named) \notin Dotted
        /\ \/ IsPrefix(named, p) /\ few
           \/ \E g \in ChartFiles(repo, p) : g # f /\ repo[g].path = named
        => ChartFiles(repo, p) \subseteq Near3(Build(repo), f)

(* A file that the text of a seed names has its bonus, and so has the      *)
(* Chart.yaml beside it, however many files the limit cuts off.            *)
NamedFileIsReferenced(repo) ==
  \A f \in DOMAIN repo : \A r \in repo[f].quoted \cup repo[f].commands :
    Head(r) # "/" =>
      \A g \in FilesAt(repo, Clean(Dir(repo[f]) \o r)) \ {f} :
        {g} \cup (IF LooksLikeChartFile(repo[g])
                 THEN {h \in FilesIn(repo, Dir(repo[g])) \ {f} : repo[h].name = "Chart"} ELSE {})
          \subseteq ReferenceTargets(repo, f)

(* Deviation: a file that another one names is linked to it.  The limit    *)
(* may cut off the very file that is named (graph.go:425).                 *)
NamedFileIsLinked(repo) ==
  \A f \in DOMAIN repo : \A r \in Named(repo[f]) :
    FilesAt(repo, Clean(Dir(repo[f]) \o r)) \ {f} \subseteq Build(repo)[f]

(* Deviation: a chart at the root hangs together, too.  The code looks for *)
(* paths that start with "./", which none does (graph.go:156).             *)
RootChartHangsTogether(repo) ==
  \A f \in FilesIn(repo, <<>>) :
    repo[f].name = "Chart" => FilesBelow(repo, <<"templates">>) \subseteq Near2(Build(repo), f)
=============================================================================
