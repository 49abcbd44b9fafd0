------------------------------ MODULE Startup -------------------------------
(***************************************************************************)
(* The command line (src/src/cli/cmd_run.c, cmd_validate.c): the pipeline  *)
(* is loaded, the registry filled, parameters and connections are applied  *)
(* to the context, the pipeline runs, and everything is released.          *)
(* What a run itself does is the subject of RunStages; here it answers.    *)
(***************************************************************************)
EXTENDS PipelineLoad, Registry

CONSTANTS
  MaxOverrides, \* size of the array of --param values
  MaxExplicit,  \* size of the array of --provider values
  Builtins,     \* [label, def]: the built-in providers, in the order they register
  Scenarios,    \* commands with their arguments and what is on disk
  Env           \* environment variables that are set, with their values

VARIABLES
  found,     \* libraries each glob of autoload_providers finds, in order
  pc,        \* the step of the command
  argv,      \* the arguments after the command's name
  args,      \* what was parsed: path, overrides, explicit providers
  todo,      \* providers still to be loaded: groups in order, each in any order
  params,    \* the context's parameters
  conns,     \* the context's connections
  ran,       \* what betl_run was given, none before it is called
  exit       \* the exit status, -1 until there is one

hostVars == <<found, pc, argv, args, todo, params, conns, ran, exit>>
vars == <<loadVars, regVars, hostVars>>

NoArgs == [path |-> {}, overrides |-> << >>, explicit |-> << >>, ok |-> TRUE]
NoValues == [n \in {} |-> Null]

HostInit ==
  /\ \E s \in Scenarios :
       /\ files = s.files /\ argv = s.argv /\ found = s.found
       /\ pc = IF s.command = "run" THEN "arguments" ELSE "validate"
  /\ args = NoArgs /\ todo = << >>
  /\ params = NoValues /\ conns = NoValues /\ ran = {} /\ exit = -1

\* The arguments and the disk stay as they are.
Goto(here, there) == pc = here /\ pc' = there

----------------------------------------------------------------------------
(***************************************************************************)
(* Arguments.                                                              *)
(***************************************************************************)
\* One argument after the other; the first one that is wrong ends the scan.
TakeArgument(acc, a) ==
  CASE ~acc.ok -> acc
    [] a.kind = "param" /\ a.given /\ Len(acc.overrides) < MaxOverrides ->
         [acc EXCEPT !.overrides = Append(@, a.value)]
    [] a.kind = "provider" /\ a.given /\ Len(acc.explicit) < MaxExplicit ->
         [acc EXCEPT !.explicit = Append(@, a.value)]
    [] a.kind = "path" /\ acc.path = {} -> [acc EXCEPT !.path = {a.value}]
    [] OTHER -> [acc EXCEPT !.ok = FALSE]

ParseArguments ==
  LET parsed == FoldLeft(TakeArgument, NoArgs, argv)
  IN /\ pc = "arguments"
     /\ args' = parsed
     /\ IF parsed.ok /\ parsed.path # {}
          THEN pc' = "load" /\ UNCHANGED exit
          ELSE pc' = "done" /\ exit' = 2
     /\ UNCHANGED <<loadVars, regVars, found, argv, todo, params, conns, ran>>

----------------------------------------------------------------------------
(***************************************************************************)
(* Loading the pipeline; `validate` looks at the discriminator first.      *)
(***************************************************************************)
Path == CHOOSE f \in args.path : TRUE

BeginLoad ==
  /\ Goto("load", "loading")
  /\ LoadStart(Path)
  /\ UNCHANGED <<regVars, found, argv, args, todo, params, conns, ran, exit>>

LoadStep ==
  /\ pc = "loading"
  /\ LoadNext
  /\ UNCHANGED <<regVars, hostVars>>

LoadFailed ==
  /\ Goto("loading", "done") /\ verdict = "refused"
  /\ exit' = 1
  /\ UNCHANGED <<loadVars, regVars, found, argv, args, todo, params, conns, ran>>

\* A context or a registry that cannot be allocated is an error of its own.
LoadSucceeded ==
  /\ pc = "loading" /\ verdict = "accepted"
  /\ \/ pc' = "builtins" /\ UNCHANGED exit
     \/ pc' = "cleanup" /\ exit' = 1
  /\ UNCHANGED <<loadVars, regVars, found, argv, args, todo, params, conns, ran>>

\* betl validate: only a pipeline file is really loaded.
Validate ==
  /\ pc = "validate"
  /\ LET f == argv[1].value
         kind == IF f \in DOMAIN files THEN files[f].kind ELSE "missing"
     IN IF kind = "pipeline"
          THEN pc' = "validating" /\ LoadStart(f) /\ UNCHANGED exit
          ELSE /\ pc' = "done"
               /\ exit' = IF kind \in {"bundle", "schema"} THEN 0 ELSE 1
               /\ UNCHANGED loadVars
  /\ UNCHANGED <<regVars, found, argv, args, todo, params, conns, ran>>

ValidateStep ==
  /\ pc = "validating"
  /\ LoadNext
  /\ UNCHANGED <<regVars, hostVars>>

Validated ==
  /\ Goto("validating", "done") /\ verdict \in {"accepted", "refused"}
  /\ exit' = IF verdict = "accepted" THEN 0 ELSE 1
  /\ pipeline' = EmptyPipeline
  /\ UNCHANGED <<files, frames, loading, loaded, verdict, regVars, found, argv, args, todo, params, conns, ran>>

----------------------------------------------------------------------------
(***************************************************************************)
(* Providers: the built-in ones must register, any other may fail.         *)
(***************************************************************************)
\* betl_register_builtins: one after another, the first that fails is the last.
RegisterBuiltins ==
  /\ pc = "builtins"
  /\ LET next == Builtins[Len(table) + 1] IN RegisterBuiltin(next.label, next.def)
  /\ CASE table' = table -> pc' = "cleanup" /\ exit' = 1 /\ UNCHANGED todo
       [] table' # table /\ Len(table') < Len(Builtins) -> UNCHANGED <<pc, exit, todo>>
       [] OTHER -> /\ pc' = "providers" /\ UNCHANGED exit
                   /\ todo' = found \o [i \in DOMAIN args.explicit |-> {args.explicit[i]}]
  /\ UNCHANGED <<loadVars, found, argv, args, params, conns, ran>>

LoadProvider ==
  /\ pc = "providers" /\ todo # << >>
  /\ \E label \in Head(todo) :
       /\ LoadLibrary(label)
       /\ todo' = IF Head(todo) = {label} THEN Tail(todo)
                  ELSE [todo EXCEPT ![1] = @ \ {label}]
  /\ UNCHANGED <<loadVars, found, pc, argv, args, params, conns, ran, exit>>

ProvidersDone ==
  /\ Goto("providers", "parameters") /\ todo = << >>
  /\ UNCHANGED <<loadVars, regVars, found, argv, args, todo, params, conns, ran, exit>>

----------------------------------------------------------------------------
(***************************************************************************)
(* Parameters and connections.  A text is what it looks like and its       *)
(* identity; the clock gives a text of its own.                            *)
(***************************************************************************)
LooksLike(type, v) ==
  CASE type = "bool" -> v.shape = "bool"
    [] type \in {"int", "int32", "int64"} -> v.shape = "int"
    [] type = "date" -> v.shape = "date"
    [] type = "timestamp" -> v.shape = "timestamp"
    [] OTHER -> TRUE

\* `today` and `now` as defaults are read from the clock.
Resolve(v) ==
  CASE v.text = "today" -> [text |-> "clock", shape |-> "date"]
    [] v.text = "now" -> [text |-> "clock", shape |-> "timestamp"]
    [] OTHER -> v

\* The first --param that names the parameter.
FindOverride(name) ==
  LET hits == {i \in DOMAIN args.overrides : args.overrides[i].name = name}
  IN IF hits = {} THEN {} ELSE {args.overrides[CHOOSE i \in hits : \A j \in hits : i <= j].value}

Declared == {pipeline.params[i].name : i \in DOMAIN pipeline.params}

OverridesDeclared ==
  \A i \in DOMAIN args.overrides :
    args.overrides[i].assigns /\ args.overrides[i].name \in Declared

\* As Supplied would be if a default came before the command line.
Supplied_DefaultFirst(decl) ==
  IF decl.default # {} THEN {Resolve(v) : v \in decl.default} ELSE FindOverride(decl.name)

\* The value of one parameter, none when it stays unset.
Supplied(decl) ==
  IF FindOverride(decl.name) # {} THEN FindOverride(decl.name)
  ELSE {Resolve(v) : v \in decl.default}

ParameterFails(decl) ==
  \/ Supplied(decl) = {} /\ decl.required
  \/ \E v \in Supplied(decl) : ~LooksLike(decl.type, v)

\* The values of the first n parameters.
Applied(n) ==
  LET valued == {i \in 1 .. n : Supplied(pipeline.params[i]) # {}}
  IN [name \in {pipeline.params[i].name : i \in valued} |->
        LET d == CHOOSE d \in Range(pipeline.params) : d.name = name
        IN CHOOSE v \in Supplied(d) : TRUE]

\* Parameters are set in order up to one that is wrong or, for want of memory,
\* cannot be kept.
ApplyParameters ==
  /\ pc = "parameters"
  /\ \/ /\ OverridesDeclared /\ \A i \in DOMAIN pipeline.params : ~ParameterFails(pipeline.params[i])
        /\ pc' = "connections" /\ UNCHANGED exit
        /\ params' = Applied(Len(pipeline.params))
     \/ ~OverridesDeclared /\ pc' = "cleanup" /\ exit' = 1 /\ UNCHANGED params
     \/ /\ OverridesDeclared
        /\ \E n \in DOMAIN pipeline.params :
             /\ \A i \in 1 .. n - 1 : ~ParameterFails(pipeline.params[i])
             /\ ParameterFails(pipeline.params[n]) \/ Supplied(pipeline.params[n]) # {}
             /\ params' = Applied(n - 1)
        /\ pc' = "cleanup" /\ exit' = 1
  /\ UNCHANGED <<loadVars, regVars, found, argv, args, todo, conns, ran>>

\* One reference of a text: its value, or nothing when it is an error.  An
\* unknown prefix stays as it is written.  No variable is bound yet.
Substitute(ref) ==
  CASE ref.prefix = "env" /\ ref.name \in DOMAIN Env -> {Env[ref.name]}
    [] ref.prefix = "params" /\ ref.name \in DOMAIN params -> {params[ref.name]}
    [] ref.prefix \in {"env", "params", "vars"} -> {}
    [] OTHER -> {[text |-> "as written", shape |-> ref.prefix]}

ResolveConnection(c) == AllParsed([i \in DOMAIN c.refs |-> Substitute(c.refs[i])])

\* The first n connections with what their references stand for.
Resolved(n) ==
  [name \in {pipeline.conns[i].name : i \in 1 .. n} |->
     LET c == CHOOSE c \in Range(pipeline.conns) : c.name = name
     IN CHOOSE refs \in ResolveConnection(c) : TRUE]

ApplyConnections ==
  /\ pc = "connections"
  /\ \/ /\ \A i \in DOMAIN pipeline.conns : ResolveConnection(pipeline.conns[i]) # {}
        /\ pc' = "run" /\ UNCHANGED exit
        /\ conns' = Resolved(Len(pipeline.conns))
     \/ /\ \E n \in DOMAIN pipeline.conns :
             /\ \A i \in 1 .. n - 1 : ResolveConnection(pipeline.conns[i]) # {}
             /\ conns' = Resolved(n - 1)
        /\ pc' = "cleanup" /\ exit' = 1
  /\ UNCHANGED <<loadVars, regVars, found, argv, args, todo, params, ran>>

----------------------------------------------------------------------------
RunPipeline ==
  /\ Goto("run", "cleanup")
  /\ \E ok \in BOOLEAN :
       /\ ran' = {[stages |-> pipeline.stages, params |-> params, conns |-> conns,
                   comps |-> Names(comps), ok |-> ok]}
       /\ exit' = IF ok THEN 0 ELSE 1
  /\ UNCHANGED <<loadVars, regVars, found, argv, args, todo, params, conns>>

Cleanup ==
  /\ Goto("cleanup", "done")
  /\ pipeline' = EmptyPipeline
  /\ DestroyRegistry
  /\ params' = NoValues /\ conns' = NoValues
  /\ UNCHANGED <<files, frames, loading, loaded, verdict, found, argv, args, todo, ran, exit>>

\* The process has ended.
Exited == pc = "done" /\ UNCHANGED vars

Next ==
  \/ ParseArguments \/ BeginLoad \/ LoadStep \/ LoadFailed \/ LoadSucceeded
  \/ Validate \/ ValidateStep \/ Validated
  \/ RegisterBuiltins \/ LoadProvider \/ ProvidersDone
  \/ ApplyParameters \/ ApplyConnections \/ RunPipeline \/ Cleanup \/ Exited

Init ==
  /\ LoadInit /\ RegInit /\ HostInit

Spec == Init /\ [][Next]_vars /\ WF_vars(Next)

----------------------------------------------------------------------------
(***************************************************************************)
(* Properties.                                                             *)
(***************************************************************************)
Root == IF args.path # {} THEN Path ELSE argv[1].value

\* Include edges, and what is reached from the root through them.
Includes(f) == IF f \in DOMAIN files THEN Range(files[f].include) ELSE {}
Layers[n \in Nat] ==
  IF n = 0 THEN {Root} ELSE Layers[n - 1] \union UNION {Includes(f) : f \in Layers[n - 1]}
Reached == Layers[Cardinality(DOMAIN files)]

\* A way to number things so that every edge goes down exists only without a cycle.
Ranked(nodes, before(_)) ==
  \E rank \in [nodes -> 1..Cardinality(nodes)] :
    \A n \in nodes : \A m \in before(n) \intersect nodes : rank[m] < rank[n]

Disjoint(f, g, key) ==
  f # g => {files[f][key][i].name : i \in DOMAIN files[f][key]}
             \intersect {files[g][key][i].name : i \in DOMAIN files[g][key]} = {}

WellFormedFile(f) ==
  /\ files[f].kind \in {"pipeline", "bundle"} /\ files[f].misshapen = {}
  /\ AllParsed([i \in DOMAIN files[f].conns |-> ParseConnection(files[f].conns[i])]) # {}
  /\ IsInjective([i \in DOMAIN files[f].conns |-> files[f].conns[i].name])
  /\ files[f].kind = "bundle" => IsAbsent(files[f].stages) /\ files[f].params = << >>
  /\ AllParsed([i \in DOMAIN files[f].params |-> ParseParameter(files[f].params[i])]) # {}
  /\ IsInjective([i \in DOMAIN files[f].params |-> files[f].params[i].name])
  /\ IsAbsent(files[f].stages) \/ IsSeq(files[f].stages)
  /\ AllParsed([i \in DOMAIN files[f].stages.items |->
                  ParseStage(files[f].stages.items[i])]) # {}

\* The files as a whole can be merged: the include graph has no cycle, nothing
\* is missing, and no name is declared by two files.
Mergeable ==
  /\ Reached \subseteq DOMAIN files
  /\ \A f \in Reached : WellFormedFile(f)
  /\ Ranked(Reached, Includes)
  /\ \A f, g \in Reached : Disjoint(f, g, "conns") /\ Disjoint(f, g, "params")
  /\ files[Root].kind = "pipeline" => ~IsAbsent(files[Root].stages)

OwnIds(f) == [i \in DOMAIN files[f].stages.items |-> Text(files[f].stages.items[i].id)]
PlaceOf(id) == CHOOSE i \in DOMAIN pipeline.stages : pipeline.stages[i].id = id

\* A file that is included has its stages before those of the file that
\* includes it; each file's stages stay together, once and in order.
InIncludeOrder ==
  /\ \A f \in Reached : Len(OwnIds(f)) > 0 =>
       LET first == PlaceOf(OwnIds(f)[1])
       IN /\ \A i \in DOMAIN OwnIds(f) : PlaceOf(OwnIds(f)[i]) = first + i - 1
          /\ \A g \in Includes(f) : \A i \in DOMAIN OwnIds(g) : PlaceOf(OwnIds(g)[i]) < first
  /\ {pipeline.stages[i].id : i \in DOMAIN pipeline.stages}
       = UNION {Range(OwnIds(f)) : f \in Reached}
  /\ Names(pipeline.conns) = UNION {Names(files[f].conns) : f \in Reached}
  /\ Names(pipeline.params) = UNION {Names(files[f].params) : f \in Reached}

\* The stage lists of a tree: the top level and every foreach body.
RECURSIVE Scopes(_)
Scopes(arr) == {arr} \union UNION {Scopes(arr[i].children) :
                                     i \in {j \in DOMAIN arr : arr[j].kind = "foreach"}}

Ids(arr) == {arr[i].id : i \in DOMAIN arr}
WithId(arr, id) == arr[CHOOSE i \in DOMAIN arr : arr[i].id = id]

\* What the executor relies on in one list of stages: it can be ordered so that
\* every stage comes after those it names, and so can the steps of a dataflow.
Orderable(arr, edges(_)) ==
  /\ Cardinality(Ids(arr)) = Len(arr)
  /\ \A i \in DOMAIN arr : edges(arr[i]) \subseteq Ids(arr)
  /\ Ranked(Ids(arr), LAMBDA id : edges(WithId(arr, id)))

Runnable(stages) ==
  LET scopes == Scopes(stages)
  IN /\ << >> \notin scopes
     /\ \A arr \in scopes :
          /\ Orderable(arr, LAMBDA s : Range(s.after))
          /\ \A i \in DOMAIN arr : arr[i].kind = "dataflow" =>
               /\ arr[i].steps # << >>
               /\ Orderable(arr[i].steps, LAMBDA t : {t.from[k].step : k \in DOMAIN t.from})
     /\ \A a, b \in scopes : a # b => Ids(a) \intersect Ids(b) = {}

DeclaredStages ==
  FoldLeft(LAMBDA acc, f : acc \o (CHOOSE s \in AllParsed([i \in DOMAIN files[f].stages.items |->
                                      ParseStage(files[f].stages.items[i])]) : TRUE),
           << >>, SetToSeq(Reached))

\* Loading merges a set of files exactly when they can be merged: a file that
\* two files include is taken once and is no cycle, a real cycle is always
\* found, and the merged pipeline holds every declaration of every reached
\* file once, included files first.  Nothing sound is refused.
LoadIsExact ==
  /\ verdict = "checking" => Mergeable
  /\ verdict = "refused" => ~(Mergeable /\ Runnable(DeclaredStages))
  /\ verdict = "accepted" /\ pc \in {"loading", "validating"} => InIncludeOrder

\* What the checks let through is what the executor takes for granted: every
\* list of stages and every dataflow has an order in which each comes after those
\* it names (TopoSort finds it unless a name is repeated in `after:`), ids name
\* one thing, references stay inside their list.
AcceptedIsRunnable ==
  verdict = "accepted" /\ pc # "done" => Runnable(pipeline.stages)

Registered == {table[i].def.name : i \in DOMAIN table}
Count(what, p) == Cardinality({i \in DOMAIN events : events[i] = [what |-> what, def |-> p]})

\* A provider is in the registry as a whole or not at all, whatever failed on
\* the way in: all its components and its language, its library open, its
\* initialisation not yet undone; one that is not has none of these left.  When
\* the process ends every initialised provider has been shut down, the one
\* initialised last first.
RegistryIsSound ==
  /\ \A i \in DOMAIN table :
       /\ Range(table[i].def.comps) = {comps[k].name : k \in {m \in DOMAIN comps : comps[m].owner = i}}
       /\ {e.lang : e \in table[i].def.engine}
            = {exprs[k].name : k \in {m \in DOMAIN exprs : exprs[m].owner = i}}
  /\ IsInjective([k \in DOMAIN comps |-> comps[k].name])
  /\ IsInjective([k \in DOMAIN exprs |-> exprs[k].name])
  /\ \A k \in DOMAIN comps : comps[k].owner \in DOMAIN table
  /\ handles = Labels \ {Builtins[i].label : i \in DOMAIN Builtins}
  /\ \A d \in {Library[l].def : l \in DOMAIN Library} :
       /\ "init" \in d.hooks /\ "shutdown" \in d.hooks =>
            Count("init", d.name) - Count("shutdown", d.name)
              = (IF d.name \in Registered THEN 1 ELSE 0)
  /\ pc = "done" =>
       LET both == {d.name : d \in {e \in {Library[l].def : l \in DOMAIN Library} :
                                      e.hooks = {"init", "shutdown"}}}
           pending == FoldLeft(LAMBDA st, e :
                        IF e.def \notin both THEN st
                        ELSE IF e.what = "init" THEN Append(st, e.def)
                        ELSE IF st # << >> /\ Last(st) = e.def THEN Front(st)
                        ELSE Append(st, "out of order"), << >>, events)
       IN pending = << >>

Overriding(name) == {args.overrides[i].value :
                       i \in {j \in DOMAIN args.overrides : args.overrides[j].name = name}}

\* The pipeline runs only on a configuration that is what was declared and
\* asked for: each parameter has the value given on the command line, or its
\* default when none was given, in its type; a required one has a value; each
\* connection was built from values of this run; the built-in components are
\* there; and the command reports success only when such a run succeeded.
RunsAsConfigured ==
  /\ \A r \in ran :
       /\ \A i \in DOMAIN Builtins : Range(Builtins[i].def.comps) \subseteq r.comps
       /\ DOMAIN r.conns = UNION {Names(files[f].conns) : f \in Reached}
       /\ \A f \in Reached : \A i \in DOMAIN files[f].params :
            LET d == CHOOSE d \in ParseParameter(files[f].params[i]) : TRUE
            IN IF d.name \in DOMAIN r.params
                 THEN /\ LooksLike(d.type, r.params[d.name])
                      /\ IF Overriding(d.name) # {} THEN r.params[d.name] \in Overriding(d.name)
                         ELSE d.default # {} /\ r.params[d.name] \in {Resolve(v) : v \in d.default}
                 ELSE ~d.required /\ d.default = {} /\ Overriding(d.name) = {}
       /\ \A f \in Reached : \A i \in DOMAIN files[f].conns :
            LET c == files[f].conns[i]
            IN \A k \in DOMAIN c.refs : c.refs[k].prefix = "params" =>
                 r.conns[c.name][k] = r.params[c.refs[k].name]
  /\ exit = 0 /\ args.path # {} => \E r \in ran : r.ok
  /\ pc = "done" => pipeline = EmptyPipeline /\ params = NoValues

=============================================================================
