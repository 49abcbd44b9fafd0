------------------------------ MODULE MCStartup ------------------------------
(***************************************************************************)
(* Small instances of Startup: every way three files can include each      *)
(* other, a selection of stage graphs, and a selection of command lines,   *)
(* parameter declarations and provider libraries.                          *)
(***************************************************************************)
EXTENDS Startup

RawStage(id, type) ==
  [shape |-> "map", id |-> Scalar(id), type |-> Scalar(type), after |-> Absent,
   steps |-> Absent, over |-> Absent, over_glob |-> Absent, over_query |-> Absent,
   connection |-> Absent, as |-> Absent, body |-> Absent, on_failure |-> Absent,
   condition |-> Absent]

Task(id, after) ==
  [RawStage(id, "shell") EXCEPT !.after =
     IF after = << >> THEN Absent ELSE List([i \in DOMAIN after |-> Scalar(after[i])])]

Step(id, from) ==
  [shape |-> "map", id |-> Scalar(id), type |-> Scalar("t"),
   from |-> List([i \in DOMAIN from |-> Scalar([step |-> from[i], port |-> "p"])])]

Dataflow(id, steps) == [RawStage(id, "dataflow") EXCEPT !.steps = List(steps)]

Foreach(id, body) ==
  [RawStage(id, "foreach") EXCEPT
     !.over = List(<<Scalar("a")>>), !.as = Scalar("v"), !.body = List(body)]

Conn(name, refs) == [name |-> name, shape |-> "map", dsn |-> "scalar", password |-> FALSE, refs |-> refs]
Ref(prefix, name) == [prefix |-> prefix, name |-> name]
Param(name, type, required, default) ==
  [name |-> name, shape |-> "map", type |-> Scalar(type), required |-> required, default |-> default]

Int1 == [text |-> "1", shape |-> "int"]
Int2 == [text |-> "2", shape |-> "int"]
Word == [text |-> "x", shape |-> "other"]
Today == [text |-> "today", shape |-> "other"]

PipelineFile(include, cs, ps, stages) ==
  [kind |-> "pipeline", include |-> include, conns |-> cs, params |-> ps, stages |-> stages,
   misshapen |-> {}]
Bundle(include, cs) ==
  [kind |-> "bundle", include |-> include, conns |-> cs, params |-> << >>, stages |-> Absent,
   misshapen |-> {}]

----------------------------------------------------------------------------
\* Three files, any two includes each (a fourth name is not on disk).
Names3 == {"root", "left", "right"}
IncludeLists == {<< >>} \union {<<f>> : f \in Names3 \union {"missing"}}
                \union {<<f, g>> : f \in Names3, g \in Names3}

IncludeScenarios ==
  {[f \in Names3 |->
      CASE f = "root" -> PipelineFile(inc[f], << >>, << >>, List(<<Task("r1", << >>), Task("r2", << >>)>>))
        [] f = "left" -> PipelineFile(inc[f], <<Conn("c", << >>)>>, << >>, List(<<Task("l1", << >>)>>))
        [] f = "right" -> IF twin
             THEN PipelineFile(inc[f], <<Conn("c", << >>)>>, << >>, Absent)
             ELSE Bundle(inc[f], <<Conn("d", << >>)>>)] :
     inc \in {i \in [Names3 -> IncludeLists] : Len(i["right"]) <= 1},
     twin \in BOOLEAN}

\* One file with three stages, or a foreach, or a dataflow of three steps.
Lists(S) == {<< >>} \union {<<a>> : a \in S} \union {<<a, b>> : a \in S, b \in S}
Ids3 == {"a", "b", "c"}

StageScenarios ==
  {<<Task("a", x), Task("b", y), Task(third, z)>> :
     x \in Lists(Ids3 \ {"a"}) \union {<<"a">>}, y \in Lists({"a", "c"}), z \in Lists({"a", "b", "z"}),
     third \in {"c", "b"}}
  \union
  {<<Dataflow("flow", <<Step("a", x), Step("b", y), Step(third, z)>>)>> :
     x \in Lists({"b", "c"}), y \in Lists({"a", "c", "b"}), z \in Lists({"a", "z"}),
     third \in {"c", "a"}}
  \union
  {<<Task("a", x), Foreach("b", <<Task(c, y), Task("d", z)>>)>> :
     x \in Lists({"b"}), c \in {"c", "a"}, y \in Lists({"d", "a"}), z \in Lists({"c"})}
  \union
  {<<>>, <<Foreach("b", << >>)>>, <<Dataflow("b", << >>)>>,
   <<[Foreach("b", <<Task("c", << >>)>>) EXCEPT !.over_glob = Scalar("*")]>>,
   <<[Foreach("b", <<Task("c", << >>)>>) EXCEPT !.over = Absent, !.over_query = Scalar("q")]>>,
   <<[Task("a", << >>) EXCEPT !.body = List(<< >>)]>>,
   <<[Task("a", << >>) EXCEPT !.on_failure = Scalar("retry")]>>}

OneFile(stages) == [f \in {"root"} |-> PipelineFile(<< >>, << >>, << >>, List(stages))]

\* Parameters and connections of a single file.
ConfigScenarios ==
  {[f \in {"root"} |->
      PipelineFile(<< >>, <<Conn("c", <<ref>>)>>,
                   <<Param("p", type, required, default), Param("q", "string", Absent, Absent)>>,
                   List(<<Task("a", << >>)>>))] :
     ref \in {Ref("env", "HOME"), Ref("env", "NONE"), Ref("params", "p"), Ref("params", "q"),
              Ref("secret", "s")},
     type \in {"int", "date", "string"},
     required \in {Absent, Scalar("true")},
     default \in {Absent, Scalar(Int1), Scalar(Word), Scalar(Today)}}

Over(name, v) == [kind |-> "param", given |-> TRUE, value |-> [name |-> name, assigns |-> TRUE, value |-> v]]
PathArg(f) == [kind |-> "path", given |-> TRUE, value |-> f]
ProviderArg(l) == [kind |-> "provider", given |-> TRUE, value |-> l]

ConfigArgv ==
  {<<PathArg("root")>>, <<PathArg("root"), Over("p", Int2)>>,
   <<Over("p", Int1), PathArg("root"), Over("p", Int2)>>,
   <<PathArg("root"), Over("p", Word), Over("q", Word)>>, <<PathArg("root"), Over("z", Word)>>,
   <<PathArg("root"), [Over("p", Word) EXCEPT !.value.assigns = FALSE]>>,
   <<Over("p", Int1), Over("p", Int1), Over("p", Int1), PathArg("root")>>,
   <<>>, <<PathArg("root"), PathArg("root")>>, <<[Over("p", Int1) EXCEPT !.given = FALSE]>>}

\* Plugin libraries: two that collide, one with an engine, one that is broken.
Def(name, cs, engine, hooks) ==
  [name |-> name, abi |-> TRUE, described |-> TRUE, comps |-> cs, engine |-> engine, hooks |-> hooks]
Lib(def) == [opens |-> TRUE, def |-> def]
Hooks == {"init", "shutdown"}
Lua == {[lang |-> "lua", complete |-> TRUE]}

MCLibrary ==
  [l \in {"x.so", "y.so", "twin.so", "old.so", "gone.so"} |->
     CASE l = "x.so" -> Lib(Def("x", <<"x.read", "x.write">>, {}, Hooks))
       [] l = "y.so" -> Lib(Def("y", <<"y.read">>, Lua, Hooks))
       [] l = "twin.so" -> Lib(Def("twin", <<"t.read", "x.read">>, Lua, Hooks))
       [] l = "old.so" -> Lib([Def("old", <<"o.read">>, {}, Hooks) EXCEPT !.abi = FALSE])
       [] l = "gone.so" -> [opens |-> FALSE, def |-> Def("gone", << >>, {}, {})]]
MCBuiltins ==
  <<[label |-> "<builtin:csv>", def |-> Def("csv", <<"csv.read", "csv.write">>, {}, {})],
    [label |-> "<builtin:literal>", def |-> Def("literal", << >>, {[lang |-> "literal", complete |-> TRUE]}, {})],
    [label |-> "<builtin:shell>", def |-> Def("shell", <<"shell">>, {}, {})]>>
MCDiscovered == <<{"x.so", "y.so"}, {"gone.so", "twin.so"}>>
MCFirstSlots == [providers |-> 2, components |-> 2, exprs |-> 1]
MCEnv == [e \in {"HOME"} |-> Word]

ProviderArgv ==
  {<<PathArg("root")>>} \union
  {<<PathArg("root"), ProviderArg(l)>> : l \in {"old.so", "twin.so", "x.so"}}

Plain == OneFile(<<Task("a", << >>)>>)
Schema == [f \in {"root"} |-> [Bundle(<< >>, << >>) EXCEPT !.kind = "schema"]]

----------------------------------------------------------------------------
Command(name, fs, arguments, libraries) ==
  [command |-> name, files |-> fs, argv |-> arguments, found |-> libraries]
Root0 == <<PathArg("root")>>

\* A file whose blocks are not what they must be, and one that includes it.
MisshapenScenarios ==
  {[f \in {"root", "left"} |->
      CASE f = "root" -> [PipelineFile(<<"left">>, << >>, << >>, List(<<Task("a", << >>)>>)) EXCEPT !.misshapen = x]
        [] f = "left" -> [PipelineFile(<< >>, << >>, << >>, y.stages) EXCEPT !.misshapen = y.blocks]] :
     x \in {{}, {"include"}},
     y \in {[stages |-> n, blocks |-> b] :
              n \in {Absent, Scalar("b"), List(<<Task("b", << >>)>>)},
              b \in {{}, {"include"}, {"connections"}, {"parameters"}}}}

MCScenarios ==
  {Command("validate", fs, Root0, << >>) :
     fs \in IncludeScenarios \union {OneFile(s) : s \in StageScenarios} \union {Schema}
            \union MisshapenScenarios}
  \union {Command("run", fs, <<PathArg(f)>>, << >>) :
            f \in Names3 \ {"left"},
            fs \in {s \in IncludeScenarios : s["root"].include = <<"right">>}}
  \union {Command("run", fs, a, << >>) : fs \in ConfigScenarios, a \in ConfigArgv}
  \union {Command("run", Plain, a, MCDiscovered) : a \in ProviderArgv}
=============================================================================
