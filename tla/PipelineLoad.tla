---------------------------- MODULE PipelineLoad ----------------------------
(***************************************************************************)
(* betl_pipeline_load (src/src/pipeline/pipeline.c): a file is read, its   *)
(* includes are loaded depth first into the same pipeline, its own content *)
(* follows, and the checks run on the whole.  The call stack of load_one   *)
(* is `frames`, its innermost call last.                                   *)
(***************************************************************************)
EXTENDS PipelineDecl

VARIABLES
  files,    \* what is on disk: a name to its readable content, fixed for a run
  frames,   \* the calls of load_one that have not returned
  loading,  \* files on the current path
  loaded,   \* files whose content is in the pipeline
  pipeline, \* what has been merged so far
  verdict   \* how far the load is

loadVars == <<files, frames, loading, loaded, pipeline, verdict>>

EmptyPipeline == [named |-> FALSE, conns |-> << >>, params |-> << >>, stages |-> << >>]
Top == frames[Len(frames)]
File == files[Top.file]

LoadInit ==
  /\ frames = << >> /\ loading = {} /\ loaded = {}
  /\ pipeline = EmptyPipeline /\ verdict = "idle"

\* An error: every call returns -1 and takes its file off the path, the caller
\* frees the pipeline.
Refuse ==
  /\ verdict' = "refused"
  /\ frames' = << >> /\ loading' = {} /\ loaded' = {} /\ pipeline' = EmptyPipeline

\* The entry of load_one: a file on the current path is a cycle, one already
\* merged is skipped, any other goes on the path.
EnterFile(f, callers) ==
  CASE f \notin DOMAIN files \/ f \in loading -> Refuse
    [] f \in loaded ->
         /\ frames' = callers /\ verdict' = "reading"
         /\ UNCHANGED <<loading, loaded, pipeline>>
    [] OTHER ->
         /\ frames' = Append(callers, [file |-> f, next |-> 1, root |-> callers = << >>])
         /\ loading' = loading \union {f} /\ verdict' = "reading"
         /\ UNCHANGED <<loaded, pipeline>>

LoadStart(f) == verdict = "idle" /\ EnterFile(f, << >>) /\ UNCHANGED files

\* Text that is no YAML mapping, one without a discriminator, or an `include:` that
\* is no sequence.
BadFile ==
  /\ verdict = "reading" /\ frames # << >>
  /\ File.kind \notin {"pipeline", "bundle"} \/ "include" \in File.misshapen
  /\ Refuse /\ UNCHANGED files

ProcessInclude ==
  /\ verdict = "reading" /\ frames # << >>
  /\ File.kind \in {"pipeline", "bundle"} /\ "include" \notin File.misshapen
  /\ Top.next <= Len(File.include)
  /\ EnterFile(File.include[Top.next], [frames EXCEPT ![Len(frames)].next = @ + 1])
  /\ UNCHANGED files

\* The names of a block, with those merged before, must stay distinct.
Merge(have, blocks) ==
  LET all == have \o blocks
  IN IF IsInjective([i \in DOMAIN all |-> all[i].name]) THEN {all} ELSE {}

MergedConnections ==
  UNION {Merge(pipeline.conns, c) :
           c \in AllParsed([i \in DOMAIN File.conns |-> ParseConnection(File.conns[i])])}

MergedParameters ==
  UNION {Merge(pipeline.params, q) :
           q \in AllParsed([i \in DOMAIN File.params |-> ParseParameter(File.params[i])])}

MergedStages ==
  {pipeline.stages \o s :
     s \in AllParsed([i \in DOMAIN File.stages.items |-> ParseStage(File.stages.items[i])])}

\* What the file itself contributes, once its includes are in.  Each block must be
\* written as what it is: a mapping, and a sequence for the stages.
OwnContent ==
  IF File.misshapen # {} \/ ~(IsAbsent(File.stages) \/ IsSeq(File.stages)) THEN {}
  ELSE IF File.kind = "bundle"
    THEN IF ~IsAbsent(File.stages) \/ File.params # << >> THEN {}
         ELSE {[pipeline EXCEPT !.conns = c] : c \in MergedConnections}
    ELSE IF Top.root /\ IsAbsent(File.stages) THEN {}
         ELSE {[named |-> pipeline.named \/ Top.root, conns |-> c, params |-> q, stages |-> s] :
                 c \in MergedConnections, q \in MergedParameters, s \in MergedStages}

\* As FinishFile would be if a merged file were not remembered.
FinishFile_Forgets ==
  /\ verdict = "reading" /\ frames # << >>
  /\ File.kind \in {"pipeline", "bundle"} /\ "include" \notin File.misshapen
  /\ Top.next > Len(File.include)
  /\ IF OwnContent = {} THEN Refuse
     ELSE /\ pipeline' \in OwnContent
          /\ loading' = loading \ {Top.file}
          /\ frames' = Front(frames)
          /\ verdict' = IF Len(frames) = 1 THEN "checking" ELSE "reading"
          /\ UNCHANGED loaded
  /\ UNCHANGED files

FinishFile ==
  /\ verdict = "reading" /\ frames # << >>
  /\ File.kind \in {"pipeline", "bundle"} /\ "include" \notin File.misshapen
  /\ Top.next > Len(File.include)
  /\ IF OwnContent = {} THEN Refuse
     ELSE /\ pipeline' \in OwnContent
          /\ loading' = loading \ {Top.file}
          /\ loaded' = loaded \union {Top.file}
          /\ frames' = Front(frames)
          /\ verdict' = IF Len(frames) = 1 THEN "checking" ELSE "reading"
  /\ UNCHANGED files

\* The checks, in their order; each later one relies on the earlier ones.
PipelineSound(stages) ==
  /\ stages # << >>
  /\ UniqueStageIds(stages)
  /\ AfterRefsResolve(stages)
  /\ NoStageCycles(stages)
  /\ DataflowStagesSound(stages)

CheckPipeline ==
  /\ verdict = "checking"
  /\ IF PipelineSound(pipeline.stages)
       THEN verdict' = "accepted" /\ UNCHANGED <<frames, loading, loaded, pipeline>>
       ELSE Refuse
  /\ UNCHANGED files

LoadNext == BadFile \/ ProcessInclude \/ FinishFile \/ CheckPipeline
=============================================================================
