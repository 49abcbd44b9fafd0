------------------------------ MODULE RunStages ------------------------------
(***************************************************************************)
(* The control flow of src/runtime/exec.c: run_stages walks one scope in   *)
(* topological order, a foreach stage runs its body's scope once per value *)
(* with the loop variable bound, and a host may request cancellation at    *)
(* any time.                                                               *)
(*                                                                         *)
(* Tasks and dataflows are "work" with an outcome; "set" is var.set, which *)
(* later stages can see.  A text that is substituted before use (a         *)
(* condition, a value, a list entry) is either a value or the name of a    *)
(* variable; substituting a variable that is not set is an error.          *)
(***************************************************************************)
EXTENDS Naturals, Sequences, FiniteSets, SequencesExt

CONSTANTS
  Vars,         \* names of pipeline variables
  Values,       \* texts, "true" and "false" among them
  Unset,        \* a variable without a value
  Pipelines,    \* the pipelines considered: sequences of scopes; scope 1 is the top level
  Cancellable   \* whether the host may request cancellation

Text == Values \cup Vars

\* kind: "work", "set" or "foreach"; after: indices of siblings; gate: the
\* condition; proceed: on_failure is "continue"; var: the variable set or
\* bound; texts: the value to set, or `over:`; body: a foreach's scope.
Stage == [kind : {"work", "set", "foreach"}, after : SUBSET Nat, gate : Text,
          proceed : BOOLEAN, var : Vars, texts : Seq(Text), body : Nat]

ASSUME ValuesAssumption == {"true", "false"} \subseteq Values /\ Unset \notin Values
ASSUME VarsAssumption == Vars # {} /\ Vars \cap Values = {}

\* What the parser hands over: a top level, a body for every foreach, a value for
\* every var.set.
ASSUME PipelinesAssumption ==
  \A p \in Pipelines :
    /\ p \in Seq(Seq(Stage)) /\ p # <<>>
    /\ \A s \in DOMAIN p : \A i \in DOMAIN p[s] :
         /\ p[s][i].kind = "foreach" => p[s][i].body \in DOMAIN p
         /\ p[s][i].kind = "set" => p[s][i].texts # <<>>
ASSUME CancellableAssumption == Cancellable \in BOOLEAN

VARIABLES
  pipeline,
  var,      \* the context's variables
  cancel,   \* the context's cancel flag
  stack,    \* the active scopes, the innermost last
  pc,       \* what the executor does next, in the innermost scope
  rc,       \* status of what ended last: "ok", "error", "cancelled"
  fatal,    \* history: a failure that no on_failure covers has occurred
  late      \* history: work stages started after the cancel request

vars == <<pipeline, var, cancel, stack, pc, rc, fatal, late>>

\* What topo_sort can return for a scope (module TopoSort).
Orders(scope) ==
  {o \in [DOMAIN scope -> DOMAIN scope] :
     \A i, j \in DOMAIN scope :
       (o[i] = o[j] => i = j) /\ (o[j] \in scope[o[i]].after => j < i)}

\* One call of run_stages; for a foreach body also its loop: the variable, its
\* value before the loop, the values to iterate and how many were bound.
Frame(s, o, x, saved, values) ==
  [scope |-> s, order |-> o, at |-> 1, var |-> x, saved |-> saved,
   values |-> values, bound |-> 0]

Top == stack[Len(stack)]
Current == pipeline[Top.scope][Top.order[Top.at]]
WithTop(f) == [stack EXCEPT ![Len(stack)] = f]

Init ==
  /\ pipeline \in Pipelines
  /\ var = [x \in Vars |-> Unset] /\ cancel = FALSE
  /\ \E o \in Orders(pipeline[1]) :
       stack = <<Frame(1, o, CHOOSE x \in Vars : TRUE, Unset, <<>>)>>
  /\ pc = "next" /\ rc = "ok"
  /\ fatal = FALSE /\ late = 0

Subst(t) == IF t \in Vars THEN var[t] ELSE t

\* Some stage on the stack, from depth d outwards, goes on after a failure.
Covered(d) ==
  \E i \in 1 .. d : pipeline[stack[i].scope][stack[i].order[stack[i].at]].proceed

\* The current stage ended with status s.
StageEnds(s) ==
  /\ pc' = "ended" /\ rc' = s
  /\ fatal' = (fatal \/ (s = "error" /\ ~Covered(Len(stack))))

------------------------------------------------------------------------------
(* run_stages                                                               *)

Advance == stack' = WithTop([Top EXCEPT !.at = @ + 1]) /\ pc' = "next"

ScopeDone ==
  /\ pc = "next" /\ Top.at > Len(Top.order)
  /\ pc' = "return" /\ rc' = "ok"
  /\ UNCHANGED <<pipeline, var, cancel, stack, fatal, late>>

CancelSeen == cancel

NextStage ==
  /\ pc = "next" /\ Top.at <= Len(Top.order)
  /\ IF CancelSeen THEN pc' = "return" /\ rc' = "cancelled"
                   ELSE pc' = "gate" /\ UNCHANGED rc
  /\ UNCHANGED <<pipeline, var, cancel, stack, fatal, late>>

\* eval_condition; a condition that is neither true nor false ends the scope,
\* whatever the stage's on_failure.
Gate ==
  /\ pc = "gate"
  /\ \/ Subst(Current.gate) = "true" /\ pc' = "start" /\ UNCHANGED <<stack, rc, fatal>>
     \/ Subst(Current.gate) = "false" /\ Advance /\ UNCHANGED <<rc, fatal>>
     \/ /\ Subst(Current.gate) \notin {"true", "false"}
        /\ pc' = "return" /\ rc' = "error"
        /\ fatal' = (fatal \/ ~Covered(Len(stack) - 1))
        /\ UNCHANGED stack
  /\ UNCHANGED <<pipeline, var, cancel, late>>

WorkStarts ==
  /\ pc = "start" /\ Current.kind = "work"
  /\ pc' = "busy"
  /\ late' = IF cancel THEN late + 1 ELSE late
  /\ UNCHANGED <<pipeline, var, cancel, stack, rc, fatal>>

\* A task notices the flag or not; other failures are its own.
WorkEnds ==
  /\ pc = "busy"
  /\ \E s \in {"ok", "error"} \cup (IF cancel THEN {"cancelled"} ELSE {}) : StageEnds(s)
  /\ UNCHANGED <<pipeline, var, cancel, stack, late>>

\* var.set with a substituted value.
SetVar ==
  /\ pc = "start" /\ Current.kind = "set"
  /\ LET v == Subst(Current.texts[1]) IN
       IF v = Unset THEN StageEnds("error") /\ UNCHANGED var
                    ELSE StageEnds("ok") /\ var' = [var EXCEPT ![Current.var] = v]
  /\ UNCHANGED <<pipeline, cancel, stack, late>>

Excused_AlsoCancel == rc # "ok" /\ Current.proceed
Excused_Always == rc = "error"
Excused == rc = "error" /\ Current.proceed

StageEnded ==
  /\ pc = "ended"
  /\ IF rc = "ok" \/ Excused THEN Advance ELSE pc' = "return" /\ UNCHANGED stack
  /\ UNCHANGED <<pipeline, var, cancel, rc, fatal, late>>

------------------------------------------------------------------------------
(* run_foreach_stage                                                        *)

Resolved(values) == Unset \notin ToSet(values)

\* All list entries are substituted before the first iteration.
EnterForeach ==
  /\ pc = "start" /\ Current.kind = "foreach"
  /\ LET values == [i \in DOMAIN Current.texts |-> Subst(Current.texts[i])] IN
       IF Resolved(values)
         THEN /\ \E o \in Orders(pipeline[Current.body]) :
                   stack' = Append(stack, Frame(Current.body, o, Current.var,
                                                var[Current.var], values))
              /\ pc' = "iterate" /\ UNCHANGED <<rc, fatal>>
         ELSE StageEnds("error") /\ UNCHANGED stack
  /\ UNCHANGED <<pipeline, var, cancel, late>>

NextValue_Stuck(f) == [f EXCEPT !.at = 1]
NextValue(f) == [f EXCEPT !.at = 1, !.bound = @ + 1]

Iterate ==
  /\ pc = "iterate" /\ Top.bound < Len(Top.values) /\ ~cancel
  /\ var' = [var EXCEPT ![Top.var] = Top.values[Top.bound + 1]]
  /\ stack' = WithTop(NextValue(Top))
  /\ pc' = "next"
  /\ UNCHANGED <<pipeline, cancel, rc, fatal, late>>

LoopEnds ==
  /\ pc = "iterate" /\ (Top.bound = Len(Top.values) \/ cancel)
  /\ pc' = "leave"
  /\ rc' = IF Top.bound < Len(Top.values) THEN "cancelled" ELSE "ok"
  /\ UNCHANGED <<pipeline, var, cancel, stack, fatal, late>>

\* run_stages returns, to betl_run or to the loop that called it.
Return ==
  /\ pc = "return"
  /\ pc' = IF Len(stack) = 1 THEN "done" ELSE IF rc = "ok" THEN "iterate" ELSE "leave"
  /\ UNCHANGED <<pipeline, var, cancel, stack, rc, fatal, late>>

Restored_Unset(f) == Unset
Restored(f) == f.saved

\* The variable gets its earlier value back, or none.
Leave ==
  /\ pc = "leave"
  /\ var' = [var EXCEPT ![Top.var] = Restored(Top)]
  /\ stack' = Front(stack)
  /\ pc' = "ended"
  /\ UNCHANGED <<pipeline, cancel, rc, fatal, late>>

------------------------------------------------------------------------------
RequestCancel ==
  /\ Cancellable /\ ~cancel /\ pc # "done"
  /\ cancel' = TRUE
  /\ UNCHANGED <<pipeline, var, stack, pc, rc, fatal, late>>

Executor ==
  \/ ScopeDone \/ NextStage \/ Gate \/ WorkStarts \/ WorkEnds \/ SetVar
  \/ StageEnded \/ EnterForeach \/ Iterate \/ LoopEnds \/ Return \/ Leave

Terminated == pc = "done" /\ UNCHANGED vars

Next == Executor \/ RequestCancel \/ Terminated

Spec == Init /\ [][Next]_vars

\* The executor's thread runs, and every task and dataflow returns.
FairSpec == Spec /\ WF_vars(Executor)

------------------------------------------------------------------------------
(* Properties                                                               *)

TypeOK ==
  /\ pipeline \in Pipelines
  /\ var \in [Vars -> Values \cup {Unset}] /\ cancel \in BOOLEAN
  /\ stack # <<>>
  /\ \A i \in DOMAIN stack :
       /\ stack[i].scope \in DOMAIN pipeline
       /\ stack[i].order \in Orders(pipeline[stack[i].scope])
       /\ stack[i].at \in 1 .. Len(stack[i].order) + 1
       /\ stack[i].var \in Vars /\ stack[i].saved \in Values \cup {Unset}
       /\ stack[i].values \in Seq(Values)
       /\ stack[i].bound \in 0 .. Len(stack[i].values)
  /\ pc \in {"next", "gate", "start", "busy", "ended", "iterate", "return",
             "leave", "done"}
  /\ rc \in {"ok", "error", "cancelled"} /\ fatal \in BOOLEAN /\ late \in Nat

\* The loops that have x bound, and the variables that only loops write.
Loops(x) == {i \in 2 .. Len(stack) : stack[i].var = x /\ stack[i].bound > 0}
SetBySomeStage(x) ==
  \E s \in DOMAIN pipeline : \E i \in DOMAIN pipeline[s] :
    pipeline[s][i].kind = "set" /\ pipeline[s][i].var = x

(* A loop variable that no stage sets always has the current value of the   *)
(* innermost loop over it, and no value outside all loops: also when loops  *)
(* over one name are nested, and whichever way an inner loop ends           *)
(* (run_foreach_stage's save and restore).                                  *)
LoopVarIsInnermost ==
  \A x \in {y \in Vars : ~SetBySomeStage(y)} :
    IF Loops(x) = {} THEN var[x] = Unset
    ELSE \E i \in Loops(x) : /\ \A j \in Loops(x) : j <= i
                            /\ var[x] = stack[i].values[stack[i].bound]

(* A failure stops the pipeline unless the stage, or a foreach around it,   *)
(* says on_failure: continue; nothing more is started, and betl_run's       *)
(* status tells.                                                            *)
FailureIsFinal ==
  /\ fatal => rc = "error" /\ pc \in {"ended", "return", "leave", "done"}
  /\ pc = "done" /\ rc = "error" => fatal

(* "Ctrl-C / host cancel always halts" (exec.c:1023): after the request at  *)
(* most one more task or dataflow starts, the one already past its check.   *)
CancelHalts == late <= 1

(* ... and a stage that ended as cancelled is never excused by on_failure:  *)
(* every scope around it ends as cancelled too, and so does the run.        *)
Leaving == pc \in {"ended", "return", "leave", "done"} /\ rc = "cancelled"
CancelIsNotExcused == [][Leaving => Leaving']_vars

(* A cancellation takes hold: nothing more starts, and the run says so.      *)
CancelIsHonoured == []CancelHalts /\ CancelIsNotExcused

(* Loops are scoped: every frame is one the stages allow, and each loop       *)
(* variable has the value of its innermost loop.                              *)
LoopsAreScoped == TypeOK /\ LoopVarIsInnermost

(* The run ends.                                                            *)
RunEnds == <>(pc = "done")
==============================================================================
