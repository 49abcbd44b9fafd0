---------------------------- MODULE PipelineDecl ----------------------------
(***************************************************************************)
(* The declarations of a pipeline file and the checks on a whole pipeline  *)
(* (src/src/pipeline/pipeline.c).  A YAML node is a kind with its items;   *)
(* its text is a value.  A parser returns the set of what it accepted: one *)
(* declaration, or nothing when it reported an error.                      *)
(***************************************************************************)
EXTENDS Naturals, Sequences, FiniteSets, SequencesExt

\* YAML nodes; Absent is what map_get answers for a key that is not there.
Absent == [kind |-> "absent", items |-> << >>]
Scalar(v) == [kind |-> "scalar", items |-> <<v>>]
List(nodes) == [kind |-> "seq", items |-> nodes]

IsAbsent(n) == n.kind = "absent"
IsScalar(n) == n.kind = "scalar"
IsSeq(n) == n.kind = "seq"
Text(n) == n.items[1]
NonEmptyScalar(n) == IsScalar(n) /\ Text(n) # ""
ScalarOr(n, default) == IF IsScalar(n) THEN Text(n) ELSE default

\* All parts of a list parsed, or nothing.
AllParsed(parts) ==
  IF \E i \in DOMAIN parts : parts[i] = {} THEN {}
  ELSE {[i \in DOMAIN parts |-> CHOOSE x \in parts[i] : TRUE]}

\* A string or a list of strings; no node is the empty list.
StringList(n) ==
  CASE IsAbsent(n) -> {<< >>}
    [] IsScalar(n) -> {n.items}
    [] IsSeq(n) /\ \A i \in DOMAIN n.items : IsScalar(n.items[i]) ->
         {[i \in DOMAIN n.items |-> Text(n.items[i])]}
    [] OTHER -> {}

----------------------------------------------------------------------------
(***************************************************************************)
(* Connections and parameters.  A dsn is its references and whether its    *)
(* literal text carries a password.                                        *)
(***************************************************************************)
SecretSources == {"env", "secret", "params"}

ParseConnection(raw) ==
  LET placeholder == \E i \in DOMAIN raw.refs : raw.refs[i].prefix \in SecretSources
  IN IF raw.shape = "map" /\ raw.dsn = "scalar" /\ (raw.password => placeholder)
       THEN {[name |-> raw.name, refs |-> raw.refs]}
       ELSE {}

ParseParameter(raw) ==
  LET required == ScalarOr(raw.required, "false")
      decl == [name |-> raw.name,
               type |-> ScalarOr(raw.type, ""),
               required |-> required = "true",
               default |-> IF IsScalar(raw.default) THEN {Text(raw.default)} ELSE {}]
  IN CASE raw.shape = "scalar" -> {[decl EXCEPT !.required = FALSE, !.default = {}]}
       [] /\ raw.shape = "map"
          /\ IsScalar(raw.type)
          /\ required \in {"true", "false"}
          /\ IsAbsent(raw.default) \/ IsScalar(raw.default)
          /\ ~(decl.required /\ decl.default # {}) -> {decl}
       [] OTHER -> {}

----------------------------------------------------------------------------
(***************************************************************************)
(* Steps and stages.                                                       *)
(***************************************************************************)
ParseStep(raw) ==
  IF raw.shape = "map" /\ IsScalar(raw.id) /\ IsScalar(raw.type)
    THEN {[id |-> Text(raw.id), type |-> Text(raw.type), from |-> f] : f \in StringList(raw.from)}
    ELSE {}

NoBody == [steps |-> << >>, children |-> << >>, source |-> "none", var |-> ""]

ParseDataflow(raw) ==
  IF ~IsSeq(raw.steps) THEN {}
  ELSE {[NoBody EXCEPT !.steps = s] :
          s \in AllParsed([i \in DOMAIN raw.steps.items |-> ParseStep(raw.steps.items[i])])
                \ {<< >>}}

\* Exactly one of the three sources, and that one must be usable.
ForeachSources(raw) ==
  LET given == {k \in {"over", "over_glob", "over_query"} : ~IsAbsent(raw[k])}
      usable(k) == CASE k = "over" -> StringList(raw.over) \notin {{}, {<< >>}}
                     [] k = "over_glob" -> NonEmptyScalar(raw.over_glob)
                     [] k = "over_query" -> /\ NonEmptyScalar(raw.over_query)
                                            /\ NonEmptyScalar(raw.connection)
  IN IF Cardinality(given) # 1 THEN {} ELSE {k \in given : usable(k)}

ParseTask(raw) ==
  IF IsAbsent(raw.steps) /\ IsAbsent(raw.body) THEN {NoBody} ELSE {}

OnFailure(n) ==
  CASE IsAbsent(n) -> {"unset"}
    [] IsScalar(n) /\ Text(n) \in {"stop", "continue"} -> {Text(n)}
    [] OTHER -> {}

\* A text to test for truth, or an expression with the engine that computes it.
Condition(n) ==
  CASE IsAbsent(n) -> {"none"}
    [] IsScalar(n) -> {"text"}
    [] /\ n.kind = "map"
       /\ IsScalar(n.lang)
       /\ IsScalar(n.expr) \/ IsScalar(n.value) -> {"engine"}
    [] OTHER -> {}

RECURSIVE ParseStage(_)
ParseForeach(raw) ==
  IF ~IsAbsent(raw.steps) \/ ~NonEmptyScalar(raw.as) \/ ~IsSeq(raw.body) THEN {}
  ELSE {[NoBody EXCEPT !.source = k, !.var = Text(raw.as), !.children = c] :
          k \in ForeachSources(raw),
          c \in AllParsed([i \in DOMAIN raw.body.items |-> ParseStage(raw.body.items[i])])
                \ {<< >>}}

ParseStage(raw) ==
  IF raw.shape # "map" \/ ~IsScalar(raw.id) \/ ~IsScalar(raw.type) THEN {}
  ELSE LET kind == IF Text(raw.type) \in {"dataflow", "foreach"} THEN Text(raw.type) ELSE "task"
           content == CASE kind = "dataflow" -> ParseDataflow(raw)
                        [] kind = "foreach" -> ParseForeach(raw)
                        [] kind = "task" -> ParseTask(raw)
       IN {[id |-> Text(raw.id), kind |-> kind, type |-> Text(raw.type),
            after |-> a, on_failure |-> f, condition |-> c, steps |-> b.steps,
            children |-> b.children, source |-> b.source, var |-> b.var] :
             a \in StringList(raw.after), f \in OnFailure(raw.on_failure),
             c \in Condition(raw.condition), b \in content}

----------------------------------------------------------------------------
(***************************************************************************)
(* Checks on the whole pipeline, as the code computes them.                *)
(***************************************************************************)
RECURSIVE CollectIds(_)
\* Every stage id of the tree in the order of declaration.
CollectIds(arr) ==
  FoldLeft(LAMBDA acc, s : Append(acc, s.id) \o CollectIds(s.children), << >>, arr)

UniqueStageIds(arr) == IsInjective(CollectIds(arr))

UniqueStepIds(s) ==
  \A i, j \in DOMAIN s.steps : i < j => s.steps[i].id # s.steps[j].id

\* The first sibling with an id, 0 if there is none.
FindIndex(arr, id) ==
  LET hits == {i \in DOMAIN arr : arr[i].id = id}
  IN IF hits = {} THEN 0 ELSE CHOOSE i \in hits : \A j \in hits : i <= j

\* `after:` reaches siblings of the same level only, and never itself.
RECURSIVE AfterRefsResolve(_)
AfterRefsResolve(arr) ==
  \A i \in DOMAIN arr :
    /\ \A k \in DOMAIN arr[i].after :
         arr[i].after[k] # arr[i].id /\ FindIndex(arr, arr[i].after[k]) # 0
    /\ AfterRefsResolve(arr[i].children)

\* `from:` names a step, or a step and a port of it.
FindStepRef(s, ref) == FindIndex(s.steps, ref.step)

FromRefsResolve(s) ==
  \A i \in DOMAIN s.steps : \A k \in DOMAIN s.steps[i].from :
    FindStepRef(s, s.steps[i].from[k]) \notin {0, i}

\* Depth-first search with three colours: 0 unvisited, 1 on the stack, 2 done.
\* Nothing is returned when a node on the stack is met again.
RECURSIVE Dfs(_, _, _)
Dfs(next, i, state) ==
  CASE state[i] = 2 -> {state}
    [] state[i] = 1 -> {}
    [] OTHER ->
         LET visit(acc, j) == IF j = 0 THEN acc ELSE UNION {Dfs(next, j, st) : st \in acc}
         IN {[st EXCEPT ![i] = 2] :
               st \in FoldLeft(visit, {[state EXCEPT ![i] = 1]}, next[i])}

FreeOfCycles(next) ==
  LET visit(acc, i) == UNION {Dfs(next, i, st) : st \in acc}
  IN FoldLeft(visit, {[i \in DOMAIN next |-> 0]}, [i \in DOMAIN next |-> i]) # {}

\* As NoStageCycles would be if it stayed at the top level.
NoStageCycles_TopOnly(arr) ==
  FreeOfCycles([i \in DOMAIN arr |->
    [k \in DOMAIN arr[i].after |-> FindIndex(arr, arr[i].after[k])]])

\* Each foreach body is a scope of its own.
RECURSIVE NoStageCycles(_)
NoStageCycles(arr) ==
  /\ FreeOfCycles([i \in DOMAIN arr |->
       [k \in DOMAIN arr[i].after |-> FindIndex(arr, arr[i].after[k])]])
  /\ \A i \in DOMAIN arr : arr[i].children # << >> => NoStageCycles(arr[i].children)

StepSuccessors(s) ==
  [i \in DOMAIN s.steps |->
     [k \in DOMAIN s.steps[i].from |-> FindStepRef(s, s.steps[i].from[k])]]

NoStepCycles(s) == FreeOfCycles(StepSuccessors(s))

RECURSIVE DataflowStagesSound(_)
DataflowStagesSound(arr) ==
  \A i \in DOMAIN arr :
    /\ arr[i].kind = "dataflow" =>
         UniqueStepIds(arr[i]) /\ FromRefsResolve(arr[i]) /\ NoStepCycles(arr[i])
    /\ DataflowStagesSound(arr[i].children)
=============================================================================
