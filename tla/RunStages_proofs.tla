--------------------------- MODULE RunStages_proofs ---------------------------
(***************************************************************************)
(* Part 1: scoping, failures and cancellation of run_stages and            *)
(* run_foreach_stage for every pipeline: any number of stages, loops       *)
(* nested to any depth, any conditions and any list entries.               *)
(*                                                                         *)
(* Part 2: safety of topo_sort, which orders the stages of a scope, for    *)
(* every number of nodes, every resolver capacity, every reference list    *)
(* and both resolvers.                                                     *)
(***************************************************************************)
EXTENDS RunStages, TopoSort, FiniteSetTheorems, SequenceTheorems, TLAPS

------------------------------------------------------------------------------
(* Part 1: run_stages and run_foreach_stage                                 *)

USE ValuesAssumption, VarsAssumption, CancellableAssumption

------------------------------------------------------------------------------
(* The inductive invariant                                                  *)

Frames == [scope : Nat, order : Seq(Nat), at : Nat, var : Vars,
           saved : Values \cup {Unset}, values : Seq(Values), bound : Nat]

Depth == Len(stack)

\* Frame i belongs to the pipeline, and its positions are inside their lists.
FrameOK(f) ==
  /\ f.scope \in DOMAIN pipeline
  /\ f.order \in Orders(pipeline[f.scope])
  /\ f.at \in 1 .. Len(f.order) + 1
  /\ f.bound \in 0 .. Len(f.values)

ShapeInv ==
  /\ pipeline \in Pipelines
  /\ var \in [Vars -> Values \cup {Unset}] /\ cancel \in BOOLEAN
  /\ stack \in Seq(Frames) /\ stack # <<>>
  /\ \A i \in 1 .. Depth : FrameOK(stack[i])
  /\ pc \in {"next", "gate", "start", "busy", "ended", "iterate", "return",
             "leave", "done"}
  /\ rc \in {"ok", "error", "cancelled"} /\ fatal \in BOOLEAN /\ late \in Nat

(* The stage a frame is at exists where it is used: in the frames below the *)
(* top, which are inside a foreach, and in the top while a stage runs.      *)
PlaceInv ==
  /\ \A i \in 1 .. Depth - 1 : stack[i].at <= Len(stack[i].order)
  /\ pc \in {"gate", "start", "busy", "ended"} => Top.at <= Len(Top.order)
  /\ pc \in {"iterate", "leave"} => Depth >= 2

\* The loops over x among the first d frames of st, as Loops has them among all.
LoopsTo(st, x, d) == {i \in 2 .. d : st[i].var = x /\ st[i].bound > 0}

(* v is what x has, seen from inside the first d frames: the current value  *)
(* of the innermost loop over it there, or none.                            *)
ValueTo(st, x, d, v) ==
  IF LoopsTo(st, x, d) = {} THEN v = Unset
  ELSE \E i \in LoopsTo(st, x, d) : /\ \A j \in LoopsTo(st, x, d) : j <= i
                                    /\ v = st[i].values[st[i].bound]

(* A loop has saved what its variable is outside of it.                     *)
ScopedVar(x) ==
  /\ ValueTo(stack, x, Depth, var[x])
  /\ \A i \in 2 .. Depth :
       stack[i].var = x => ValueTo(stack, x, i - 1, stack[i].saved)

ScopeInv == \A x \in Vars : ~SetBySomeStage(x) => ScopedVar(x)

(* A failure on its way out is fatal exactly if no stage around it goes on. *)
FailInv ==
  /\ fatal => rc = "error" /\ pc \in {"ended", "return", "leave", "done"}
  /\ pc = "ended" /\ rc = "error" => (fatal <=> ~Covered(Depth))
  /\ pc \in {"return", "leave"} /\ rc = "error" => (fatal <=> ~Covered(Depth - 1))
  /\ pc = "done" /\ rc = "error" => fatal

(* After the request a task can start only from behind the check.           *)
CancelInv ==
  /\ late <= 1
  /\ late = 1 => cancel /\ pc \notin {"gate", "start"}

IInv == ShapeInv /\ PlaceInv /\ ScopeInv /\ FailInv /\ CancelInv

------------------------------------------------------------------------------
(* Frames and stages                                                        *)

(* An order of a scope is a list of its stages, as long as the scope.       *)
LEMMA OrderShape ==
  ASSUME NEW scope \in Seq(Stage), NEW o \in Orders(scope)
  PROVE  /\ o \in Seq(Nat) /\ Len(o) = Len(scope)
         /\ \A k \in 1 .. Len(o) : o[k] \in DOMAIN scope
<1>1. DOMAIN scope = 1 .. Len(scope) /\ Len(scope) \in Nat OBVIOUS
<1>2. o \in [1 .. Len(scope) -> 1 .. Len(scope)] BY <1>1 DEF Orders
<1> QED BY <1>1, <1>2

(* What the pipeline's assumption says of one stage.                        *)
LEMMA StageShape ==
  ASSUME pipeline \in Pipelines, NEW s \in DOMAIN pipeline
  PROVE  /\ pipeline[s] \in Seq(Stage)
         /\ s \in Nat
         /\ \A i \in DOMAIN pipeline[s] :
              /\ pipeline[s][i] \in Stage
              /\ pipeline[s][i].kind = "foreach" => pipeline[s][i].body \in DOMAIN pipeline
              /\ pipeline[s][i].kind = "set" => pipeline[s][i].texts # <<>>
<1>1. pipeline \in Seq(Seq(Stage)) BY PipelinesAssumption
<1>2. pipeline[s] \in Seq(Stage) /\ s \in Nat BY <1>1
<1>3. \A i \in DOMAIN pipeline[s] : pipeline[s][i] \in Stage BY <1>2
<1> QED BY <1>2, <1>3, PipelinesAssumption

(* The innermost frame, and the stage it is at.                             *)
LEMMA TopShape ==
  ASSUME ShapeInv
  PROVE  /\ Depth \in Nat \ {0} /\ Top \in Frames /\ FrameOK(Top)
         /\ Top.at <= Len(Top.order) =>
              /\ Current \in Stage
              /\ Current.kind = "foreach" => Current.body \in DOMAIN pipeline
              /\ Current.kind = "set" => /\ Current.texts # <<>>
                                        /\ SetBySomeStage(Current.var)
<1>1. Depth \in Nat \ {0} /\ Top \in Frames /\ FrameOK(Top)
  BY DEF ShapeInv, Top, Depth
<1>2. ASSUME Top.at <= Len(Top.order)
      PROVE  Top.order[Top.at] \in DOMAIN pipeline[Top.scope]
  <2>1. Top.at \in 1 .. Len(Top.order)
    BY <1>1, <1>2 DEF FrameOK, Frames
  <2> QED BY <1>1, <2>1, OrderShape, StageShape DEF FrameOK, ShapeInv
<1>3. Top.scope \in DOMAIN pipeline BY <1>1 DEF FrameOK
<1>4. ASSUME Top.at <= Len(Top.order)
      PROVE  /\ Current \in Stage
             /\ Current.kind = "foreach" => Current.body \in DOMAIN pipeline
             /\ Current.kind = "set" => Current.texts # <<>>
  BY <1>2, <1>3, <1>4, StageShape DEF Current, ShapeInv
<1>5. ASSUME Top.at <= Len(Top.order), Current.kind = "set"
      PROVE  SetBySomeStage(Current.var)
  BY <1>2, <1>3, <1>5 DEF Current, SetBySomeStage
<1> QED BY <1>1, <1>4, <1>5

(* A text is substituted by a value or, if its variable has none, by none.  *)
LEMMA SubstType ==
  ASSUME ShapeInv, NEW t \in Text
  PROVE  Subst(t) \in Values \cup {Unset}
BY DEF Subst, Text, ShapeInv

(* Changing the innermost frame changes no other.                           *)
LEMMA WithTopShape ==
  ASSUME ShapeInv, NEW f \in Frames, stack' = WithTop(f)
  PROVE  /\ stack' \in Seq(Frames) /\ stack' # <<>> /\ Len(stack') = Depth
         /\ stack'[Depth] = f
         /\ \A i \in 1 .. Depth - 1 : stack'[i] = stack[i]
BY TopShape DEF WithTop, ShapeInv, Depth

(* The frame of a foreach is put on top.                                    *)
LEMMA PushShape ==
  ASSUME ShapeInv, NEW f \in Frames, stack' = Append(stack, f)
  PROVE  /\ stack' \in Seq(Frames) /\ stack' # <<>> /\ Len(stack') = Depth + 1
         /\ stack'[Depth + 1] = f
         /\ \A i \in 1 .. Depth : stack'[i] = stack[i]
BY TopShape DEF ShapeInv, Depth

(* The frame of a foreach is taken off; its caller's is on top again.       *)
LEMMA PopShape ==
  ASSUME ShapeInv, Depth >= 2, stack' = Front(stack)
  PROVE  /\ stack' \in Seq(Frames) /\ stack' # <<>> /\ Len(stack') = Depth - 1
         /\ \A i \in 1 .. Depth - 1 : stack'[i] = stack[i]
<1>1. Depth \in Nat /\ stack \in Seq(Frames) BY DEF ShapeInv, Depth
<1>2. \A i \in 1 .. Depth - 1 : stack[i] \in Frames BY <1>1 DEF Depth
<1>3. /\ SubSeq(stack, 1, Depth - 1) \in Seq(Frames)
      /\ Len(SubSeq(stack, 1, Depth - 1)) = Depth - 1
      /\ \A i \in 1 .. Depth - 1 : SubSeq(stack, 1, Depth - 1)[i] = stack[i]
  BY <1>1, <1>2, SubSeqProperties
<1>4. stack' = SubSeq(stack, 1, Depth - 1) BY DEF Front, Depth
<1> DEFINE t == SubSeq(stack, 1, Depth - 1)
<1>5. t \in Seq(Frames) /\ Len(t) = Depth - 1 /\ \A i \in 1 .. Depth - 1 : t[i] = stack[i]
  BY <1>3
<1>6. stack' = t BY <1>4
<1> HIDE DEF t
<1>7. t # <<>> BY <1>1, <1>5
<1> QED BY <1>5, <1>6, <1>7

------------------------------------------------------------------------------
(* Types and positions                                                      *)

LEMMA InitInv == Init => IInv
<1> SUFFICES ASSUME Init PROVE IInv OBVIOUS
<1>1. pipeline \in Pipelines /\ pipeline \in Seq(Seq(Stage)) /\ pipeline # <<>>
  BY PipelinesAssumption DEF Init
<1>2. 1 \in DOMAIN pipeline /\ pipeline[1] \in Seq(Stage) BY <1>1
<1>3. PICK o \in Orders(pipeline[1]) :
        stack = <<Frame(1, o, CHOOSE x \in Vars : TRUE, Unset, <<>>)>>
  BY DEF Init
<1>4. o \in Seq(Nat) BY <1>2, OrderShape
<1> DEFINE f == Frame(1, o, CHOOSE x \in Vars : TRUE, Unset, <<>>)
<1>5. f \in Frames /\ FrameOK(f)
  BY <1>2, <1>4 DEF Frame, Frames, FrameOK
<1> HIDE DEF f
<1>6. stack = <<f>> BY <1>3 DEF f
<1>7. ShapeInv
  <2>1. stack \in Seq(Frames) /\ stack # <<>> /\ Depth = 1 /\ stack[1] = f
    BY <1>5, <1>6 DEF Depth
  <2>2. \A i \in 1 .. Depth : FrameOK(stack[i]) BY <1>5, <2>1
  <2> QED BY <1>1, <2>1, <2>2 DEF ShapeInv, Init
<1>8. PlaceInv BY <1>6 DEF PlaceInv, Init, Depth
<1>9. ScopeInv BY <1>6 DEF ScopeInv, ScopedVar, ValueTo, LoopsTo, Depth, Init
<1> QED BY <1>7, <1>8, <1>9 DEF IInv, FailInv, CancelInv, Init

(* What a step leaves of the frames when it does not touch the stack.       *)
LEMMA SameFrames ==
  ASSUME ShapeInv, UNCHANGED <<pipeline, stack>>
  PROVE  /\ pipeline' \in Pipelines /\ stack' \in Seq(Frames) /\ stack' # <<>>
         /\ \A i \in 1 .. Depth' : FrameOK(stack[i])'
         /\ Depth' = Depth /\ Top' = Top
BY DEF ShapeInv, FrameOK, Depth, Top

(* ... and when it changes positions of the innermost frame only.           *)
LEMMA TopChanges ==
  ASSUME ShapeInv, pipeline' = pipeline, NEW f \in Frames, FrameOK(f),
         stack' = WithTop(f)
  PROVE  /\ pipeline' \in Pipelines /\ stack' \in Seq(Frames) /\ stack' # <<>>
         /\ \A i \in 1 .. Depth' : FrameOK(stack[i])'
         /\ Depth' = Depth /\ Top' = f
<1>1. Len(stack') = Depth /\ Depth' = Depth BY WithTopShape DEF Depth
<1>2. ASSUME NEW i \in 1 .. Depth PROVE FrameOK(stack[i])'
  <2>1. CASE i = Depth BY <2>1, WithTopShape DEF FrameOK
  <2>2. CASE i # Depth
    <3>1. i \in 1 .. Depth - 1 BY <2>2, TopShape
    <3>2. stack'[i] = stack[i] BY <3>1, WithTopShape
    <3> QED BY <3>2 DEF FrameOK, ShapeInv
  <2> QED BY <2>1, <2>2
<1> QED BY <1>1, <1>2, WithTopShape DEF ShapeInv, Top, Depth

(* Leaving a stage behind is a change of the innermost frame's position.    *)
LEMMA AdvanceFrame ==
  ASSUME ShapeInv, Top.at <= Len(Top.order)
  PROVE  LET f == [Top EXCEPT !.at = @ + 1]
         IN  /\ f \in Frames /\ FrameOK(f)
             /\ f.var = Top.var /\ f.bound = Top.bound /\ f.values = Top.values
             /\ f.saved = Top.saved
<1> DEFINE f == [Top EXCEPT !.at = @ + 1]
<1>1. Top \in Frames /\ FrameOK(Top) BY TopShape
<1>2. Len(Top.order) \in Nat BY <1>1 DEF Frames
<1>3. f \in Frames /\ f.at = Top.at + 1 BY <1>1 DEF Frames
<1>4. /\ f.scope = Top.scope /\ f.order = Top.order /\ f.values = Top.values
      /\ f.var = Top.var /\ f.bound = Top.bound /\ f.saved = Top.saved
  BY <1>1 DEF Frames
<1> HIDE DEF f
<1>5. FrameOK(f) BY <1>1, <1>2, <1>3, <1>4 DEF FrameOK
<1>6. f \in Frames /\ FrameOK(f) /\ f.var = Top.var /\ f.bound = Top.bound
      /\ f.values = Top.values /\ f.saved = Top.saved
  BY <1>3, <1>4, <1>5
<1> QED BY <1>6 DEF f

(* A foreach binds its next value and starts its body from the beginning.   *)
LEMMA NextValueFrame ==
  ASSUME ShapeInv, Top.bound < Len(Top.values)
  PROVE  /\ NextValue(Top) \in Frames /\ FrameOK(NextValue(Top))
         /\ NextValue(Top).var = Top.var /\ NextValue(Top).bound = Top.bound + 1
         /\ NextValue(Top).values = Top.values /\ NextValue(Top).saved = Top.saved
         /\ Top.values[Top.bound + 1] \in Values
<1> DEFINE f == NextValue(Top)
<1>1. Top \in Frames /\ FrameOK(Top) BY TopShape
<1>2. /\ Len(Top.order) \in Nat /\ Len(Top.values) \in Nat /\ Top.bound \in Nat
      /\ Top.values \in Seq(Values)
  BY <1>1 DEF Frames
<1> DEFINE g == [Top EXCEPT !.at = 1]
<1>0. g \in Frames /\ g.at = 1 /\ g.bound = Top.bound BY <1>1 DEF Frames
<1>3. f \in Frames /\ f.at = 1 /\ f.bound = Top.bound + 1
  <2>1. f = [g EXCEPT !.bound = Top.bound + 1] BY <1>1 DEF Frames, NextValue
  <2>2. Top.bound + 1 \in Nat BY <1>2
  <2> HIDE DEF f, g
  <2> QED BY <1>0, <2>1, <2>2 DEF Frames
<1>4. /\ f.scope = Top.scope /\ f.order = Top.order /\ f.values = Top.values
      /\ f.var = Top.var /\ f.saved = Top.saved
  BY <1>1 DEF Frames, NextValue
<1> HIDE DEF f
<1>5. FrameOK(f) BY <1>1, <1>2, <1>3, <1>4 DEF FrameOK
<1>6. Top.values[Top.bound + 1] \in Values BY <1>2
<1>7. f = NextValue(Top) BY DEF f
<1> QED BY <1>3, <1>4, <1>5, <1>6, <1>7

(* The frame a foreach starts with.                                         *)
LEMMA ForeachFrame ==
  ASSUME ShapeInv, Top.at <= Len(Top.order), Current.kind = "foreach",
         NEW o \in Orders(pipeline[Current.body]),
         NEW values, values = [i \in DOMAIN Current.texts |-> Subst(Current.texts[i])],
         Resolved(values)
  PROVE  LET f == Frame(Current.body, o, Current.var, var[Current.var], values)
         IN  /\ f \in Frames /\ FrameOK(f)
             /\ f.var = Current.var /\ f.bound = 0 /\ f.saved = var[Current.var]
<1>1. /\ Current \in Stage /\ Current.body \in DOMAIN pipeline BY TopShape
<1>2. pipeline[Current.body] \in Seq(Stage) /\ Current.body \in Nat
  BY <1>1, StageShape DEF ShapeInv
<1>3. o \in Seq(Nat) BY <1>2, OrderShape
<1>4. Current.texts \in Seq(Text) /\ Current.var \in Vars BY <1>1 DEF Stage
<1>5. \A i \in DOMAIN Current.texts : values[i] \in Values
  <2>1. \A i \in DOMAIN Current.texts : Current.texts[i] \in Text BY <1>4
  <2>2. \A i \in DOMAIN Current.texts : values[i] \in Values \cup {Unset}
    BY <2>1, SubstType
  <2>3. \A i \in DOMAIN Current.texts : values[i] \in ToSet(values) BY DEF ToSet
  <2> QED BY <2>2, <2>3 DEF Resolved
<1>6. values \in Seq(Values)
  <2>1. DOMAIN Current.texts = 1 .. Len(Current.texts) /\ Len(Current.texts) \in Nat
    BY <1>4
  <2>2. values \in [1 .. Len(Current.texts) -> Values] BY <1>5, <2>1
  <2> QED BY <2>1, <2>2
<1>7. var[Current.var] \in Values \cup {Unset} BY <1>4 DEF ShapeInv
<1> QED BY <1>1, <1>2, <1>3, <1>4, <1>6, <1>7 DEF Frame, Frames, FrameOK

(* The frames after a stage is left behind ...                              *)
LEMMA AdvanceKeeps ==
  ASSUME ShapeInv, PlaceInv, Top.at <= Len(Top.order), Advance, pipeline' = pipeline
  PROVE  /\ pipeline' \in Pipelines /\ stack' \in Seq(Frames) /\ stack' # <<>>
         /\ \A i \in 1 .. Depth' : FrameOK(stack[i])'
         /\ Depth' = Depth /\ pc' = "next" /\ PlaceInv'
<1> DEFINE f == [Top EXCEPT !.at = @ + 1]
<1>1. f \in Frames /\ FrameOK(f) BY AdvanceFrame
<1>2. stack' = WithTop(f) /\ pc' = "next" BY DEF Advance
<1> HIDE DEF f
<1>3. /\ pipeline' \in Pipelines /\ stack' \in Seq(Frames) /\ stack' # <<>>
      /\ \A i \in 1 .. Depth' : FrameOK(stack[i])'
      /\ Depth' = Depth
  BY <1>1, <1>2, TopChanges
<1>4. \A i \in 1 .. Depth - 1 : stack'[i] = stack[i] BY <1>1, <1>2, WithTopShape
<1> QED BY <1>2, <1>3, <1>4 DEF PlaceInv

(* ... after a foreach is entered ...                                       *)
LEMMA PushKeeps ==
  ASSUME ShapeInv, PlaceInv, NEW f \in Frames, FrameOK(f), Top.at <= Len(Top.order),
         stack' = Append(stack, f), pipeline' = pipeline, pc' = "iterate"
  PROVE  /\ stack' \in Seq(Frames) /\ stack' # <<>>
         /\ \A i \in 1 .. Depth' : FrameOK(stack[i])'
         /\ Depth' = Depth + 1 /\ PlaceInv'
<1>1. /\ stack' \in Seq(Frames) /\ stack' # <<>> /\ Depth' = Depth + 1
      /\ stack'[Depth + 1] = f
      /\ \A i \in 1 .. Depth : stack'[i] = stack[i]
  BY PushShape DEF Depth
<1>2. Depth \in Nat \ {0} BY TopShape
<1>3. ASSUME NEW i \in 1 .. Depth' PROVE FrameOK(stack[i])'
  <2>1. CASE i = Depth + 1 BY <1>1, <2>1 DEF FrameOK
  <2>2. CASE i # Depth + 1
    <3>1. i \in 1 .. Depth BY <1>1, <1>2, <2>2
    <3> QED BY <1>1, <3>1 DEF FrameOK, ShapeInv
  <2> QED BY <2>1, <2>2
<1>4. \A i \in 1 .. Depth : stack[i].at <= Len(stack[i].order)
  BY <1>2 DEF PlaceInv, Top, Depth
<1>5. Depth' - 1 = Depth /\ Depth' >= 2 BY <1>1, <1>2
<1>6. PlaceInv'
  <2>1. \A i \in 1 .. Depth : stack'[i].at <= Len(stack'[i].order) BY <1>1, <1>4
  <2> QED BY <1>5, <2>1 DEF PlaceInv
<1> QED BY <1>1, <1>3, <1>6

(* ... and after one is left.                                               *)
LEMMA PopKeeps ==
  ASSUME ShapeInv, PlaceInv, Depth >= 2, stack' = Front(stack), pipeline' = pipeline,
         pc' = "ended"
  PROVE  /\ stack' \in Seq(Frames) /\ stack' # <<>>
         /\ \A i \in 1 .. Depth' : FrameOK(stack[i])'
         /\ Depth' = Depth - 1 /\ PlaceInv'
<1>1. /\ stack' \in Seq(Frames) /\ stack' # <<>> /\ Depth' = Depth - 1
      /\ \A i \in 1 .. Depth - 1 : stack'[i] = stack[i]
  BY PopShape DEF Depth
<1>2. Depth \in Nat \ {0} BY TopShape
<1>3. ASSUME NEW i \in 1 .. Depth' PROVE FrameOK(stack[i])'
  <2>1. i \in 1 .. Depth - 1 /\ i \in 1 .. Depth BY <1>1, <1>2
  <2>2. stack'[i] = stack[i] /\ FrameOK(stack[i]) BY <1>1, <2>1 DEF ShapeInv
  <2> QED BY <2>2 DEF FrameOK
<1>4. \A i \in 1 .. Depth' : stack'[i].at <= Len(stack'[i].order)
  BY <1>1, <1>2 DEF PlaceInv
<1>5. Top'.at <= Len(Top'.order) BY <1>1, <1>2, <1>4 DEF Top, Depth
<1>6. PlaceInv' BY <1>1, <1>2, <1>4, <1>5 DEF PlaceInv
<1> QED BY <1>1, <1>3, <1>6

(* Steps keep the types of the frames and the positions in them.            *)
LEMMA ShapeStep == ShapeInv /\ PlaceInv /\ [Next]_vars => ShapeInv' /\ PlaceInv'
<1> SUFFICES ASSUME ShapeInv, PlaceInv, [Next]_vars PROVE ShapeInv' /\ PlaceInv'
  OBVIOUS
<1> USE DEF ShapeInv
<1>1. CASE ScopeDone BY <1>1, SameFrames DEF ScopeDone, PlaceInv
<1>2. CASE NextStage BY <1>2, SameFrames DEF NextStage, PlaceInv
<1>3. CASE Gate
  <2>1. CASE UNCHANGED stack
    <3>1. /\ pc = "gate" /\ UNCHANGED <<pipeline, var, cancel, late>>
          /\ \/ pc' \in {"start", "return"}
             \/ Advance
          /\ rc' \in {"ok", "error", "cancelled"} /\ fatal' \in BOOLEAN
      BY <1>3 DEF Gate
    <3>2. CASE Advance
      <4>1. Top.at <= Len(Top.order) BY <3>1 DEF PlaceInv
      <4> QED BY <3>1, <3>2, <4>1, AdvanceKeeps
    <3>3. CASE pc' \in {"start", "return"}
      BY <2>1, <3>1, <3>3, SameFrames DEF PlaceInv
    <3> QED BY <3>1, <3>2, <3>3
  <2>2. CASE Advance
    <3>1. Top.at <= Len(Top.order) BY <1>3 DEF Gate, PlaceInv
    <3> QED BY <1>3, <2>2, <3>1, AdvanceKeeps DEF Gate, Advance
  <2> QED BY <1>3, <2>1, <2>2 DEF Gate
<1>4. CASE WorkStarts BY <1>4, SameFrames DEF WorkStarts, PlaceInv
<1>5. CASE WorkEnds BY <1>5, SameFrames DEF WorkEnds, StageEnds, PlaceInv
<1>6. CASE SetVar
  <2>1. /\ pc = "start" /\ Current.kind = "set" /\ UNCHANGED <<pipeline, cancel, stack, late>>
        /\ pc' = "ended" /\ rc' \in {"ok", "error"} /\ fatal' \in BOOLEAN
    BY <1>6 DEF SetVar, StageEnds
  <2>2. var' \in [Vars -> Values \cup {Unset}]
    <3>1. Current \in Stage /\ Current.texts # <<>> BY <2>1, TopShape DEF PlaceInv
    <3>2. Current.texts[1] \in Text BY <3>1 DEF Stage
    <3>3. Subst(Current.texts[1]) \in Values \cup {Unset} BY <3>2, SubstType
    <3> QED BY <1>6, <3>3 DEF SetVar
  <2> QED BY <2>1, <2>2, SameFrames DEF PlaceInv
<1>7. CASE StageEnded
  <2>1. CASE UNCHANGED stack /\ pc' = "return"
    BY <1>7, <2>1, SameFrames DEF StageEnded, PlaceInv
  <2>2. CASE Advance
    <3>1. Top.at <= Len(Top.order) BY <1>7 DEF StageEnded, PlaceInv
    <3> QED BY <1>7, <2>2, <3>1, AdvanceKeeps DEF StageEnded, Advance
  <2> QED BY <1>7, <2>1, <2>2 DEF StageEnded
<1>8. CASE EnterForeach
  <2> DEFINE values == [i \in DOMAIN Current.texts |-> Subst(Current.texts[i])]
  <2>1. CASE Resolved(values)
    <3>1. PICK o \in Orders(pipeline[Current.body]) :
            stack' = Append(stack, Frame(Current.body, o, Current.var,
                                         var[Current.var], values))
      BY <1>8, <2>1 DEF EnterForeach
    <3> DEFINE f == Frame(Current.body, o, Current.var, var[Current.var], values)
    <3>2. Top.at <= Len(Top.order) /\ Current.kind = "foreach"
      BY <1>8 DEF EnterForeach, PlaceInv
    <3>3. f \in Frames /\ FrameOK(f) BY <2>1, <3>2, ForeachFrame
    <3>4. pc' = "iterate" /\ UNCHANGED <<pipeline, var, cancel, late, rc, fatal>>
      BY <1>8, <2>1 DEF EnterForeach
    <3>5. stack' = Append(stack, f) BY <3>1
    <3> HIDE DEF f, values
    <3> QED BY <3>2, <3>3, <3>4, <3>5, PushKeeps
  <2>2. CASE ~Resolved(values)
    BY <1>8, <2>2, SameFrames DEF EnterForeach, StageEnds, PlaceInv
  <2> QED BY <2>1, <2>2
<1>9. CASE Iterate
  <2>1. /\ NextValue(Top) \in Frames /\ FrameOK(NextValue(Top))
        /\ Top.values[Top.bound + 1] \in Values
    BY <1>9, NextValueFrame DEF Iterate
  <2>2. \A i \in 1 .. Depth - 1 : stack'[i] = stack[i]
    BY <1>9, <2>1, WithTopShape DEF Iterate
  <2>3. /\ pipeline' \in Pipelines /\ stack' \in Seq(Frames) /\ stack' # <<>>
        /\ \A i \in 1 .. Depth' : FrameOK(stack[i])'
        /\ Depth' = Depth
    BY <1>9, <2>1, TopChanges DEF Iterate
  <2> QED BY <1>9, <2>1, <2>2, <2>3 DEF Iterate, PlaceInv
<1>10. CASE LoopEnds BY <1>10, SameFrames DEF LoopEnds, PlaceInv
<1>11. CASE Return
  <2>1. /\ UNCHANGED <<pipeline, var, cancel, stack, rc, fatal, late>>
        /\ pc' \in {"done", "iterate", "leave"}
        /\ pc' # "done" => Len(stack) # 1
    BY <1>11 DEF Return
  <2>2. pc' # "done" => Depth # 1 BY <2>1 DEF Depth
  <2>3. Depth \in Nat \ {0} BY TopShape
  <2>4. /\ pipeline' \in Pipelines /\ stack' \in Seq(Frames) /\ stack' # <<>>
        /\ \A i \in 1 .. Depth' : FrameOK(stack[i])'
        /\ Depth' = Depth /\ stack' = stack
    BY <2>1, SameFrames
  <2>5. PlaceInv' BY <2>1, <2>2, <2>3, <2>4 DEF PlaceInv
  <2>6. var' \in [Vars -> Values \cup {Unset}] /\ late' \in Nat BY <2>1
  <2> QED BY <2>1, <2>4, <2>5, <2>6
<1>12. CASE Leave
  <2>1. Depth >= 2 BY <1>12 DEF Leave, PlaceInv
  <2>2. var' \in [Vars -> Values \cup {Unset}]
    <3>1. Top.saved \in Values \cup {Unset} BY TopShape DEF Frames
    <3> QED BY <1>12, <3>1 DEF Leave, Restored
  <2> QED BY <1>12, <2>1, <2>2, PopKeeps DEF Leave
<1>13. CASE RequestCancel BY <1>13, SameFrames DEF RequestCancel, PlaceInv
<1>14. CASE UNCHANGED vars BY <1>14, SameFrames DEF vars, PlaceInv
<1> QED
  BY <1>1, <1>2, <1>3, <1>4, <1>5, <1>6, <1>7, <1>8, <1>9, <1>10, <1>11, <1>12, <1>13, <1>14
  DEF Next, Executor, Terminated
------------------------------------------------------------------------------
(* Scoping                                                                  *)

(* What a variable has depends on the loops' variables, values and counts.  *)
LEMMA SameValues ==
  ASSUME NEW s, NEW t, NEW d,
         \A i \in 2 .. d : /\ t[i].var = s[i].var /\ t[i].bound = s[i].bound
                          /\ t[i].values = s[i].values,
         NEW x, NEW v
  PROVE  ValueTo(t, x, d, v) <=> ValueTo(s, x, d, v)
<1>1. LoopsTo(t, x, d) = LoopsTo(s, x, d) BY DEF LoopsTo
<1>2. \A i \in LoopsTo(s, x, d) : t[i].values[t[i].bound] = s[i].values[s[i].bound]
  BY DEF LoopsTo
<1> QED BY <1>1, <1>2 DEF ValueTo

(* A frame over another variable, or one that has bound nothing, adds none. *)
LEMMA SkippedFrame ==
  ASSUME NEW s, NEW d \in Nat, NEW e \in Nat, d = e + 1, NEW x, NEW v,
         s[d].var # x \/ s[d].bound = 0
  PROVE  ValueTo(s, x, d, v) <=> ValueTo(s, x, e, v)
<1>1. LoopsTo(s, x, d) = LoopsTo(s, x, e) BY DEF LoopsTo
<1> QED BY <1>1 DEF ValueTo

(* No step changes the pipeline.                                            *)
LEMMA SamePipeline == [Next]_vars => pipeline' = pipeline
BY DEF Next, Executor, Terminated, vars, ScopeDone, NextStage, Gate, WorkStarts, WorkEnds,
       SetVar, StageEnded, EnterForeach, Iterate, LoopEnds, Return, Leave, RequestCancel

(* Neither a position nor a stage that sets other variables changes scopes. *)
LEMMA ScopeKept ==
  ASSUME ShapeInv, ScopeInv, pipeline' = pipeline, Len(stack') = Depth,
         \A i \in 2 .. Depth : /\ stack'[i].var = stack[i].var
                               /\ stack'[i].bound = stack[i].bound
                               /\ stack'[i].values = stack[i].values
                               /\ stack'[i].saved = stack[i].saved,
         \A x \in Vars : ~SetBySomeStage(x) => var'[x] = var[x]
  PROVE  ScopeInv'
<1> SUFFICES ASSUME NEW x \in Vars, ~SetBySomeStage(x) PROVE ScopedVar(x)'
  BY DEF ScopeInv, SetBySomeStage
<1>1. ScopedVar(x) /\ var'[x] = var[x] BY DEF ScopeInv
<1>2. Depth \in Nat \ {0} BY TopShape
<1>3. ValueTo(stack', x, Depth, var'[x])
  <2>1. ValueTo(stack, x, Depth, var'[x]) BY <1>1 DEF ScopedVar
  <2> QED BY <2>1, SameValues
<1>4. ASSUME NEW i \in 2 .. Depth, stack'[i].var = x
      PROVE  ValueTo(stack', x, i - 1, stack'[i].saved)
  <2>1. ValueTo(stack, x, i - 1, stack'[i].saved) BY <1>1, <1>4 DEF ScopedVar
  <2>2. \A j \in 2 .. i - 1 : j \in 2 .. Depth BY <1>2
  <2> QED BY <2>1, <2>2, SameValues
<1> QED BY <1>3, <1>4 DEF ScopedVar, Depth

(* Entering a loop saves what its variable is and binds nothing.            *)
LEMMA ScopePushed ==
  ASSUME ShapeInv, ScopeInv, UNCHANGED <<pipeline, var>>,
         NEW f \in Frames, stack' = Append(stack, f),
         f.bound = 0, f.saved = var[f.var]
  PROVE  ScopeInv'
<1> SUFFICES ASSUME NEW x \in Vars, ~SetBySomeStage(x) PROVE ScopedVar(x)'
  BY DEF ScopeInv, SetBySomeStage
<1>1. /\ Len(stack') = Depth + 1 /\ stack'[Depth + 1] = f
      /\ \A i \in 1 .. Depth : stack'[i] = stack[i]
  BY PushShape
<1>2. Depth \in Nat \ {0} BY TopShape
<1>3. ScopedVar(x) BY DEF ScopeInv
<1>4. ValueTo(stack', x, Depth, var[x])
  <2>1. ValueTo(stack, x, Depth, var[x]) BY <1>3 DEF ScopedVar
  <2>2. ASSUME NEW i \in 2 .. Depth PROVE stack'[i] = stack[i]
    <3>1. i \in 1 .. Depth OBVIOUS
    <3> QED BY <1>1, <3>1
  <2> QED BY <2>1, <2>2, SameValues
<1>5. ValueTo(stack', x, Depth + 1, var[x])
  <2>1. Depth + 1 \in Nat /\ Depth \in Nat BY <1>2
  <2>2. stack'[Depth + 1].bound = 0 BY <1>1
  <2> QED BY <1>4, <2>1, <2>2, SkippedFrame
<1>6. ASSUME NEW i \in 2 .. Depth + 1, stack'[i].var = x
      PROVE  ValueTo(stack', x, i - 1, stack'[i].saved)
  <2>1. CASE i = Depth + 1
    <3>1. stack'[i].saved = var[x] /\ i - 1 = Depth BY <1>1, <1>2, <1>6, <2>1
    <3> QED BY <1>4, <3>1
  <2>2. CASE i # Depth + 1
    <3>1. i \in 2 .. Depth BY <1>2, <2>2
    <3>2. stack'[i] = stack[i] BY <1>1, <3>1
    <3>3. ValueTo(stack, x, i - 1, stack'[i].saved)
      BY <1>3, <1>6, <3>1, <3>2 DEF ScopedVar
    <3>4. \A j \in 2 .. i - 1 : stack'[j] = stack[j] BY <1>1, <3>1, <1>2
    <3> QED BY <3>3, <3>4, SameValues
  <2> QED BY <2>1, <2>2
<1> QED BY <1>1, <1>5, <1>6 DEF ScopedVar, Depth

(* Binding the next value makes the top frame the variable's innermost loop. *)
LEMMA ScopeBound ==
  ASSUME ShapeInv, ScopeInv, Depth >= 2, pipeline' = pipeline,
         Top.bound < Len(Top.values), stack' = WithTop(NextValue(Top)),
         var' = [var EXCEPT ![Top.var] = Top.values[Top.bound + 1]]
  PROVE  ScopeInv'
<1> SUFFICES ASSUME NEW x \in Vars, ~SetBySomeStage(x) PROVE ScopedVar(x)'
  BY DEF ScopeInv, SetBySomeStage
<1> DEFINE f == NextValue(Top)
<1>1. /\ f \in Frames /\ f.var = Top.var /\ f.bound = Top.bound + 1
      /\ f.values = Top.values /\ f.saved = Top.saved
  BY NextValueFrame
<1>2. stack' = WithTop(f) OBVIOUS
<1> HIDE DEF f
<1>3. /\ Len(stack') = Depth /\ stack'[Depth] = f
      /\ \A i \in 1 .. Depth - 1 : stack'[i] = stack[i]
  BY <1>1, <1>2, WithTopShape
<1>4. /\ Depth \in Nat \ {0} /\ Depth - 1 \in Nat /\ Depth = Depth - 1 + 1
      /\ Top \in Frames
  BY TopShape
<1>5. Top = stack[Depth] /\ Top.bound \in Nat BY <1>4 DEF Top, Depth, Frames
<1>6. ScopedVar(x) BY DEF ScopeInv
<1>7. ValueTo(stack', x, Depth, var'[x])
  <2>1. CASE x = Top.var
    <3>1. Depth \in LoopsTo(stack', x, Depth)
      BY <1>1, <1>3, <1>4, <1>5, <2>1 DEF LoopsTo
    <3>2. \A j \in LoopsTo(stack', x, Depth) : j <= Depth BY <1>4 DEF LoopsTo
    <3>3. var'[x] = stack'[Depth].values[stack'[Depth].bound]
      BY <1>1, <1>3, <2>1 DEF ShapeInv
    <3> QED BY <3>1, <3>2, <3>3 DEF ValueTo
  <2>2. CASE x # Top.var
    <3>1. var'[x] = var[x] BY <2>2 DEF ShapeInv
    <3>2. ValueTo(stack, x, Depth - 1, var[x])
      BY <1>4, <1>5, <1>6, <2>2, SkippedFrame DEF ScopedVar
    <3>3. \A i \in 2 .. Depth - 1 : stack'[i] = stack[i] BY <1>3
    <3>4. ValueTo(stack', x, Depth - 1, var[x]) BY <3>2, <3>3, SameValues
    <3>5. stack'[Depth].var # x BY <1>1, <1>3, <2>2
    <3> QED BY <1>4, <3>1, <3>4, <3>5, SkippedFrame
  <2> QED BY <2>1, <2>2
<1>8. ASSUME NEW i \in 2 .. Depth, stack'[i].var = x
      PROVE  ValueTo(stack', x, i - 1, stack'[i].saved)
  <2>1. stack'[i].saved = stack[i].saved /\ stack'[i].var = stack[i].var
    <3>1. CASE i = Depth BY <1>1, <1>3, <1>5, <3>1
    <3>2. CASE i # Depth
      <4>1. i \in 1 .. Depth - 1 BY <1>4, <3>2
      <4> QED BY <1>3, <4>1
    <3> QED BY <3>1, <3>2
  <2>2. ValueTo(stack, x, i - 1, stack'[i].saved) BY <1>6, <1>8, <2>1 DEF ScopedVar
  <2>3. \A j \in 2 .. i - 1 : stack'[j] = stack[j] BY <1>3, <1>4
  <2> QED BY <2>2, <2>3, SameValues
<1> QED BY <1>3, <1>7, <1>8 DEF ScopedVar, Depth

(* Leaving a loop gives its variable what it is outside.                    *)
LEMMA ScopePopped ==
  ASSUME ShapeInv, ScopeInv, Depth >= 2, pipeline' = pipeline,
         stack' = Front(stack), var' = [var EXCEPT ![Top.var] = Restored(Top)]
  PROVE  ScopeInv'
<1> SUFFICES ASSUME NEW x \in Vars, ~SetBySomeStage(x) PROVE ScopedVar(x)'
  BY DEF ScopeInv, SetBySomeStage
<1>1. Len(stack') = Depth - 1 /\ \A i \in 1 .. Depth - 1 : stack'[i] = stack[i]
  BY PopShape
<1>2. /\ Depth \in Nat \ {0} /\ Depth - 1 \in Nat /\ Depth = Depth - 1 + 1
      /\ Top = stack[Depth]
  BY TopShape DEF Top, Depth
<1>3. ScopedVar(x) BY DEF ScopeInv
<1>4. ValueTo(stack, x, Depth - 1, var'[x])
  <2>1. CASE x = Top.var
    <3>1. var'[x] = stack[Depth].saved BY <1>2, <2>1 DEF ShapeInv, Restored
    <3> QED BY <1>2, <1>3, <2>1, <3>1 DEF ScopedVar
  <2>2. CASE x # Top.var
    <3>1. var'[x] = var[x] BY <2>2 DEF ShapeInv
    <3> QED BY <1>2, <1>3, <2>2, <3>1, SkippedFrame DEF ScopedVar
  <2> QED BY <2>1, <2>2
<1>5. ValueTo(stack', x, Depth - 1, var'[x])
  <2>1. \A i \in 2 .. Depth - 1 : stack'[i] = stack[i] BY <1>1
  <2> QED BY <1>4, <2>1, SameValues
<1>6. ASSUME NEW i \in 2 .. Depth - 1, stack'[i].var = x
      PROVE  ValueTo(stack', x, i - 1, stack'[i].saved)
  <2>1. i \in 2 .. Depth /\ stack'[i] = stack[i] BY <1>1, <1>2
  <2>2. ValueTo(stack, x, i - 1, stack'[i].saved) BY <1>3, <1>6, <2>1 DEF ScopedVar
  <2>3. \A j \in 2 .. i - 1 : stack'[j] = stack[j] BY <1>1, <1>2
  <2> QED BY <2>2, <2>3, SameValues
<1> QED BY <1>1, <1>5, <1>6 DEF ScopedVar, Depth

(* Every step keeps the scopes.                                             *)
LEMMA ScopeStep == ShapeInv /\ PlaceInv /\ ScopeInv /\ [Next]_vars => ScopeInv'
<1> SUFFICES ASSUME ShapeInv, PlaceInv, ScopeInv, [Next]_vars PROVE ScopeInv'
  OBVIOUS
<1>0. pipeline' = pipeline BY SamePipeline
<1>1. ASSUME UNCHANGED stack, \A x \in Vars : ~SetBySomeStage(x) => var'[x] = var[x]
      PROVE  ScopeInv'
  <2>1. Len(stack') = Depth BY <1>1 DEF Depth
  <2> QED BY <1>0, <1>1, <2>1, ScopeKept
<1>2. ASSUME Advance, Top.at <= Len(Top.order), UNCHANGED var
      PROVE  ScopeInv'
  <2> DEFINE f == [Top EXCEPT !.at = @ + 1]
  <2>1. /\ f \in Frames /\ f.var = Top.var /\ f.bound = Top.bound
        /\ f.values = Top.values /\ f.saved = Top.saved
    BY <1>2, AdvanceFrame
  <2>2. stack' = WithTop(f) BY <1>2 DEF Advance
  <2> HIDE DEF f
  <2>3. /\ Len(stack') = Depth /\ stack'[Depth] = f
        /\ \A i \in 1 .. Depth - 1 : stack'[i] = stack[i]
    BY <2>1, <2>2, WithTopShape
  <2>4. ASSUME NEW i \in 2 .. Depth
        PROVE  /\ stack'[i].var = stack[i].var /\ stack'[i].bound = stack[i].bound
               /\ stack'[i].values = stack[i].values /\ stack'[i].saved = stack[i].saved
    <3>1. CASE i = Depth BY <2>1, <2>3, <3>1 DEF Top, Depth
    <3>2. CASE i # Depth
      <4>1. i \in 1 .. Depth - 1 BY <3>2, TopShape
      <4> QED BY <2>3, <4>1
    <3> QED BY <3>1, <3>2
  <2> QED BY <1>0, <1>2, <2>3, <2>4, ScopeKept
<1>3. CASE \/ ScopeDone \/ NextStage \/ WorkStarts \/ WorkEnds \/ LoopEnds \/ Return
           \/ RequestCancel \/ UNCHANGED vars
  BY <1>1, <1>3 DEF ScopeDone, NextStage, WorkStarts, WorkEnds, LoopEnds, Return,
                    RequestCancel, vars
<1>4. CASE Gate
  <2>1. Top.at <= Len(Top.order) /\ UNCHANGED var /\ (UNCHANGED stack \/ Advance)
    BY <1>4 DEF Gate, PlaceInv
  <2> QED BY <1>1, <1>2, <2>1
<1>5. CASE StageEnded
  <2>1. Top.at <= Len(Top.order) /\ UNCHANGED var /\ (UNCHANGED stack \/ Advance)
    BY <1>5 DEF StageEnded, PlaceInv
  <2> QED BY <1>1, <1>2, <2>1
<1>6. CASE SetVar
  <2>1. SetBySomeStage(Current.var) BY <1>6, TopShape DEF SetVar, PlaceInv
  <2>2. \A x \in Vars : ~SetBySomeStage(x) => var'[x] = var[x]
    BY <1>6, <2>1 DEF SetVar, ShapeInv
  <2> QED BY <1>1, <1>6, <2>2 DEF SetVar
<1>7. CASE EnterForeach
  <2> DEFINE values == [i \in DOMAIN Current.texts |-> Subst(Current.texts[i])]
  <2>1. CASE Resolved(values)
    <3>1. PICK o \in Orders(pipeline[Current.body]) :
            stack' = Append(stack, Frame(Current.body, o, Current.var,
                                         var[Current.var], values))
      BY <1>7, <2>1 DEF EnterForeach
    <3> DEFINE f == Frame(Current.body, o, Current.var, var[Current.var], values)
    <3>2. Top.at <= Len(Top.order) /\ Current.kind = "foreach"
      BY <1>7 DEF EnterForeach, PlaceInv
    <3>3. /\ f \in Frames /\ f.var = Current.var /\ f.bound = 0
          /\ f.saved = var[Current.var]
      BY <2>1, <3>2, ForeachFrame
    <3>4. stack' = Append(stack, f) /\ UNCHANGED var
      BY <1>7, <3>1 DEF EnterForeach
    <3> HIDE DEF f, values
    <3> QED BY <1>0, <3>3, <3>4, ScopePushed
  <2>2. CASE ~Resolved(values) BY <1>1, <1>7, <2>2 DEF EnterForeach
  <2> QED BY <2>1, <2>2
<1>8. CASE Iterate
  <2>1. Depth >= 2 BY <1>8 DEF Iterate, PlaceInv
  <2> QED BY <1>0, <1>8, <2>1, ScopeBound DEF Iterate
<1>9. CASE Leave
  <2>1. Depth >= 2 BY <1>9 DEF Leave, PlaceInv
  <2> QED BY <1>0, <1>9, <2>1, ScopePopped DEF Leave
<1> QED BY <1>3, <1>4, <1>5, <1>6, <1>7, <1>8, <1>9 DEF Next, Executor, Terminated

------------------------------------------------------------------------------
(* Failures and cancellation                                                *)

(* What covers a failure depends on the frames up to its depth.             *)
LEMMA CoveredSame ==
  ASSUME pipeline' = pipeline, NEW d, \A i \in 1 .. d : stack'[i] = stack[i]
  PROVE  Covered(d)' <=> Covered(d)
BY DEF Covered

(* One frame more covers by what its stage says.                            *)
LEMMA CoveredTop ==
  ASSUME ShapeInv
  PROVE  Covered(Depth) <=> Covered(Depth - 1) \/ Current.proceed
<1>1. Depth \in Nat \ {0} /\ Top = stack[Depth] BY TopShape DEF Top, Depth
<1>2. 1 .. Depth = (1 .. Depth - 1) \cup {Depth} BY <1>1
<1> QED BY <1>1, <1>2 DEF Covered, Current

(* Every step keeps what is said of failures.                               *)
LEMMA FailStep == ShapeInv /\ PlaceInv /\ FailInv /\ [Next]_vars => FailInv'
<1> SUFFICES ASSUME ShapeInv, PlaceInv, FailInv, [Next]_vars PROVE FailInv'
  OBVIOUS
<1>0. pipeline' = pipeline BY SamePipeline
<1>1. Depth \in Nat \ {0} BY TopShape
<1>2. ASSUME UNCHANGED stack
      PROVE  /\ Depth' = Depth
             /\ Covered(Depth)' <=> Covered(Depth)
             /\ Covered(Depth - 1)' <=> Covered(Depth - 1)
  BY <1>0, <1>2 DEF Covered, Depth
<1>3. CASE \/ ScopeDone \/ NextStage \/ WorkStarts \/ LoopEnds \/ Iterate
           \/ RequestCancel
  BY <1>2, <1>3 DEF ScopeDone, NextStage, WorkStarts, LoopEnds, Iterate, RequestCancel,
                    FailInv
<1>4. CASE UNCHANGED vars BY <1>2, <1>4 DEF vars, FailInv
<1>5. CASE Gate
  <2>1. CASE UNCHANGED <<rc, fatal>> /\ pc' \in {"next", "start"}
    BY <1>5, <2>1 DEF Gate, FailInv
  <2>2. CASE /\ UNCHANGED stack /\ pc' = "return"
             /\ fatal' = (fatal \/ ~Covered(Depth - 1)) /\ rc' = "error"
    BY <1>2, <1>5, <2>2 DEF Gate, FailInv
  <2> QED BY <1>5, <2>1, <2>2 DEF Gate, Advance, Depth
<1>6. ASSUME NEW s, StageEnds(s), UNCHANGED stack, ~fatal
      PROVE  FailInv'
  BY <1>2, <1>6 DEF StageEnds, FailInv, Depth
<1>7. CASE WorkEnds BY <1>6, <1>7 DEF WorkEnds, FailInv
<1>8. CASE SetVar BY <1>6, <1>8 DEF SetVar, FailInv
<1>9. CASE EnterForeach
  BY <1>6, <1>9 DEF EnterForeach, FailInv
<1>10. CASE StageEnded
  <2>1. CASE rc = "ok" \/ Excused
    <3>1. ~fatal BY <1>10, <2>1, CoveredTop DEF StageEnded, Excused, FailInv
    <3> QED BY <1>10, <2>1, <3>1 DEF StageEnded, Advance, FailInv
  <2>2. CASE ~(rc = "ok" \/ Excused)
    <3>1. pc' = "return" /\ UNCHANGED <<stack, rc, fatal>>
      BY <1>10, <2>2 DEF StageEnded
    <3>2. rc = "error" => (fatal <=> ~Covered(Depth - 1))
      BY <1>10, <2>2, CoveredTop DEF StageEnded, Excused, FailInv
    <3> QED BY <1>2, <1>10, <3>1, <3>2 DEF StageEnded, FailInv
  <2> QED BY <2>1, <2>2
<1>11. CASE Return
  <2>1. Depth = 1 => ~Covered(Depth - 1) BY DEF Covered
  <2>2. pc = "return" /\ UNCHANGED <<stack, rc, fatal>> BY <1>11 DEF Return
  <2>3. \/ pc' = "done" /\ Depth = 1
        \/ pc' = "iterate" /\ rc = "ok"
        \/ pc' = "leave"
    BY <1>11 DEF Return, Depth
  <2> QED BY <1>2, <2>1, <2>2, <2>3 DEF FailInv
<1>12. CASE Leave
  <2>1. Depth >= 2 BY <1>12 DEF Leave, PlaceInv
  <2>2. Depth' = Depth - 1 /\ \A i \in 1 .. Depth - 1 : stack'[i] = stack[i]
    BY <1>12, <2>1, PopShape DEF Leave, Depth
  <2>3. Covered(Depth)' <=> Covered(Depth - 1) BY <1>0, <2>2 DEF Covered
  <2> QED BY <1>12, <2>3 DEF Leave, FailInv
<1> QED
  BY <1>3, <1>4, <1>5, <1>7, <1>8, <1>9, <1>10, <1>11, <1>12 DEF Next, Executor, Terminated

(* Every step keeps what is said of work after the request.                 *)
LEMMA CancelStep == ShapeInv /\ CancelInv /\ [Next]_vars => CancelInv'
<1> SUFFICES ASSUME ShapeInv, CancelInv, [Next]_vars PROVE CancelInv'
  OBVIOUS
<1>1. late \in {0, 1} BY DEF ShapeInv, CancelInv
<1> QED
  BY <1>1
  DEF CancelInv, Next, Executor, Terminated, vars, ScopeDone, NextStage, CancelSeen, Gate,
      Advance, WorkStarts, WorkEnds, SetVar, StageEnds, StageEnded, EnterForeach, Iterate,
      LoopEnds, Return, Leave, RequestCancel

(* IInv holds initially, and every step keeps it.                           *)
LEMMA Inductive == Spec => []IInv
<1>1. IInv /\ [Next]_vars => IInv'
  BY ShapeStep, ScopeStep, FailStep, CancelStep DEF IInv
<1> QED BY InitInv, <1>1, PTL DEF Spec

------------------------------------------------------------------------------
(* What a pipeline's run promises                                           *)

(* LoopsAreScoped (run_foreach_stage's save and restore) for every          *)
(* pipeline: whatever loops are nested and however they end, a variable     *)
(* that no stage sets has the value of the innermost loop over it.          *)
THEOREM ScopesAreKept == Spec => []LoopsAreScoped
<1>1. IInv => TypeOK
  <2> SUFFICES ASSUME ShapeInv PROVE TypeOK BY DEF IInv
  <2>1. ASSUME NEW i \in DOMAIN stack
        PROVE  /\ stack[i] \in Frames /\ FrameOK(stack[i])
    <3>1. i \in 1 .. Depth BY DEF ShapeInv, Depth
    <3> QED BY <3>1 DEF ShapeInv, Depth
  <2> QED BY <2>1 DEF TypeOK, ShapeInv, Frames, FrameOK
<1>2. IInv => LoopVarIsInnermost
  BY DEF IInv, ScopeInv, ScopedVar, ValueTo, LoopsTo, LoopVarIsInnermost, Loops, Depth
<1>3. IInv => LoopsAreScoped BY <1>1, <1>2 DEF LoopsAreScoped
<1> QED BY Inductive, <1>3, PTL

(* FailureIsFinal (run_stages' on_failure) for every pipeline: a failure    *)
(* that no stage on the stack excuses is the run's status, and nothing      *)
(* starts after it.                                                         *)
THEOREM FailuresStop == Spec => []FailureIsFinal
<1>1. IInv => FailureIsFinal BY DEF IInv, FailInv, FailureIsFinal
<1> QED BY Inductive, <1>1, PTL

(* CancelIsHonoured (the check in run_stages) for every pipeline: after the *)
(* request at most one task starts, and a cancelled stage ends every scope  *)
(* around it as cancelled.                                                  *)
THEOREM CancelEndsTheRun == Spec => CancelIsHonoured
<1>1. IInv => CancelHalts BY DEF IInv, CancelInv, CancelHalts
<1>2. IInv /\ [Next]_vars => [Leaving => Leaving']_vars
  BY DEF IInv, ShapeInv, Leaving, Next, Executor, Terminated, vars, ScopeDone, NextStage,
         Gate, WorkStarts, WorkEnds, SetVar, StageEnded, Excused, EnterForeach, Iterate,
         LoopEnds, Return, Leave, RequestCancel
<1> QED BY Inductive, <1>1, <1>2, PTL DEF CancelIsHonoured, CancelIsNotExcused, Spec

------------------------------------------------------------------------------
(* Part 2: topo_sort                                                        *)

USE NAssumption, CapAssumption, DedupAssumption, MaxRefsAssumption

------------------------------------------------------------------------------
(* The inductive invariant                                                  *)

Queued == {queue[k] : k \in 1 .. Len(queue)}

(* The produced nodes whose successor scan has passed node i.               *)
Passed(i) == IF phase = "scan" /\ next <= i THEN qhead - 1 ELSE qhead
Gone(i) == {queue[k] : k \in 1 .. Passed(i)}

(* indeg is as in SortTypeOK but for its range, which follows from Counts.  *)
SortShapeInv ==
  /\ refs \in [Nodes -> RefLists]
  /\ indeg \in [Nodes -> Int]
  /\ queue \in Seq(Nodes)
  /\ qhead \in 0 .. Len(queue)
  /\ next \in 1 .. N + 1
  /\ phase \in {"seed", "take", "scan"}
  /\ phase = "scan" => qhead >= 1
  /\ phase = "seed" => qhead = 0

(* No node is queued twice.                                                 *)
NoRepeats == \A j, k \in 1 .. Len(queue) : queue[j] = queue[k] => j = k

(* A node's counter is what its edges were less the upstreams gone.         *)
Counts ==
  \A i \in Nodes :
    indeg[i] = Cardinality(Incoming(i)) - Cardinality(Upstream(i) \cap Gone(i))

(* A node is in the queue exactly if its counter is zero (and the seeding   *)
(* has come to it): this is why no node is queued twice or forgotten.       *)
QueuedIffZero ==
  \A i \in Nodes :
    i \in Queued <=> indeg[i] = 0 /\ (phase = "seed" => i < next)

(* What a queued node depends on is in the queue before it.                 *)
UpstreamFirst ==
  \A i \in Nodes : \A k \in 1 .. Len(queue) :
    queue[k] = i => \A up \in Upstream(i) : \E j \in 1 .. k - 1 : queue[j] = up

SortIInv ==
  /\ SortShapeInv /\ NoRepeats /\ Counts /\ QueuedIffZero /\ UpstreamFirst

------------------------------------------------------------------------------
(* The edge resolvers                                                       *)

(* A reference list is a function on 1 .. its length, at most MaxRefs.      *)
LEMMA ListShape ==
  ASSUME refs \in [Nodes -> RefLists], NEW i \in Nodes
  PROVE  /\ Len(refs[i]) \in 0 .. MaxRefs
         /\ refs[i] \in [1 .. Len(refs[i]) -> Nodes]
         /\ DOMAIN refs[i] = 1 .. Len(refs[i])
<1>1. PICK m \in 0 .. MaxRefs : refs[i] \in [1 .. m -> Nodes] BY DEF RefLists
<1>2. refs[i] \in Seq(Nodes) BY <1>1
<1>3. Len(refs[i]) = m BY <1>1, <1>2
<1> QED BY <1>1, <1>3

(* What a resolver reports are positions of the list.                       *)
LEMMA IncomingInList ==
  ASSUME refs \in [Nodes -> RefLists], NEW i \in Nodes
  PROVE  /\ Incoming(i) \subseteq 1 .. Len(refs[i])
         /\ Upstream(i) \subseteq Nodes
<1>1. Incoming(i) \subseteq 1 .. Len(refs[i])
  BY ListShape DEF Incoming, Listed, FirstOccurrences
<1> QED BY <1>1, ListShape DEF Upstream

(* The positions 1 .. m are m.                                              *)
LEMMA IntervalSize ==
  ASSUME NEW m \in Nat
  PROVE  IsFiniteSet(1 .. m) /\ Cardinality(1 .. m) = m
<1>1. /\ IsFiniteSet(1 .. m)
      /\ Cardinality(1 .. m) = IF 1 > m THEN 0 ELSE m - 1 + 1
  BY FS_Interval
<1> QED BY <1>1

(* It reports finitely many, at most MaxRefs, and names no more upstreams   *)
(* than positions: as many if repeats are skipped.                          *)
LEMMA IncomingCount ==
  ASSUME refs \in [Nodes -> RefLists], NEW i \in Nodes
  PROVE  /\ IsFiniteSet(Incoming(i)) /\ Cardinality(Incoming(i)) \in 0 .. MaxRefs
         /\ IsFiniteSet(Upstream(i)) /\ Cardinality(Upstream(i)) \in Nat
         /\ Cardinality(Upstream(i)) <= Cardinality(Incoming(i))
         /\ Dedup => Cardinality(Upstream(i)) = Cardinality(Incoming(i))
<1> DEFINE m == Len(refs[i])
           up == [k \in Incoming(i) |-> refs[i][k]]
<1>1. m \in 0 .. MaxRefs /\ Incoming(i) \subseteq 1 .. m
  BY ListShape, IncomingInList
<1>2. IsFiniteSet(1 .. m) /\ Cardinality(1 .. m) = m
  BY <1>1, IntervalSize
<1>3. /\ IsFiniteSet(Incoming(i))
      /\ Cardinality(Incoming(i)) <= m
      /\ Cardinality(Incoming(i)) \in Nat
  <2>1. IsFiniteSet(Incoming(i)) /\ Cardinality(Incoming(i)) <= m
    BY <1>1, <1>2, FS_Subset
  <2> QED BY <2>1, FS_CardinalityType
<1>4. up \in Surjection(Incoming(i), Upstream(i))
  BY DEF Surjection, Upstream
<1>5. /\ IsFiniteSet(Upstream(i))
      /\ Cardinality(Upstream(i)) <= Cardinality(Incoming(i))
      /\ up \in Injection(Incoming(i), Upstream(i))
           => Cardinality(Upstream(i)) = Cardinality(Incoming(i))
  BY <1>3, <1>4, FS_Surjection
<1>6. ASSUME Dedup PROVE up \in Injection(Incoming(i), Upstream(i))
  <2>1. Incoming(i) \subseteq FirstOccurrences(refs[i])
    BY <1>6 DEF Incoming, Listed
  <2>2. \A j, k \in Incoming(i) : refs[i][j] = refs[i][k] => ~ (j < k)
    BY <1>1, <2>1 DEF FirstOccurrences
  <2>3. \A j, k \in Incoming(i) : refs[i][j] = refs[i][k] => j = k
    BY <1>1, <2>2
  <2> QED BY <1>4, <2>3 DEF Injection, Surjection, IsInjective
<1>7. Cardinality(Upstream(i)) \in Nat BY <1>5, FS_CardinalityType
<1> QED BY <1>1, <1>3, <1>5, <1>6, <1>7

(* A set of positions has a least one.                                      *)
LEMMA LeastPosition ==
  ASSUME NEW K \in SUBSET (Nat \ {0}), K # {}
  PROVE  \E k \in K : \A j \in K : k <= j
<1> DEFINE R == StrictSubsetOrdering(Nat)
           S == FiniteSubsetsOf(Nat)
           T == {1 .. k : k \in K}
<1>1. IsWellFoundedOn(R, S) BY FS_StrictSubsetOrderingWellFounded
<1>2. T \subseteq S /\ T # {}
  <2>1. \A k \in K : 1 .. k \in SUBSET Nat /\ IsFiniteSet(1 .. k)
    <3> SUFFICES ASSUME NEW k \in K
                 PROVE  1 .. k \in SUBSET Nat /\ IsFiniteSet(1 .. k)
      OBVIOUS
    <3>1. k \in Int OBVIOUS
    <3>2. IsFiniteSet(1 .. k) BY <3>1, FS_Interval
    <3> QED BY <3>2
  <2>2. \A k \in K : 1 .. k \in S BY <2>1 DEF FiniteSubsetsOf
  <2>3. PICK k \in K : TRUE OBVIOUS
  <2> HIDE DEF S
  <2> QED BY <2>2, <2>3
<1>3. PICK x \in T : \A y \in T : ~ (<<y, x>> \in R)
  BY <1>1, <1>2, WFMin
<1>4. PICK k \in K : x = 1 .. k BY <1>3
<1>5. \A j \in K : ~ (j < k)
  <2> SUFFICES ASSUME NEW j \in K, j < k PROVE FALSE OBVIOUS
  <2>1. 1 .. j \subseteq 1 .. k /\ 1 .. j # 1 .. k
    <3>1. k \in 1 .. k /\ k \notin 1 .. j OBVIOUS
    <3> QED BY <3>1
  <2>2. <<1 .. j, 1 .. k>> \in R BY <2>1 DEF StrictSubsetOrdering
  <2> QED BY <1>3, <1>4, <2>2
<1> QED BY <1>5

(* A list that fits the resolver's array is reported in full.               *)
LEMMA NothingDropped ==
  ASSUME refs \in [Nodes -> RefLists], NEW i \in Nodes, Len(refs[i]) <= Cap
  PROVE  References(i) \subseteq Upstream(i)
<1> DEFINE s == refs[i]
           m == Len(refs[i])
<1>1. m \in Nat /\ DOMAIN s = 1 .. m BY ListShape
<1>2. ASSUME NEW k \in Listed(s) PROVE k \in Incoming(i)
  <2>1. Listed(s) \subseteq 1 .. m BY <1>1 DEF Listed, FirstOccurrences
  <2> DEFINE before == {j \in Listed(s) : j < k}
  <2>2. k \in 1 .. m /\ before \subseteq 1 .. k - 1 BY <2>1
  <2>3. k - 1 \in Nat BY <1>1, <2>2
  <2>4. IsFiniteSet(1 .. k - 1) /\ Cardinality(1 .. k - 1) = k - 1
    BY <2>3, IntervalSize
  <2>5. IsFiniteSet(before) /\ Cardinality(before) <= k - 1
    BY <2>2, <2>4, FS_Subset
  <2>6. Cardinality(before) \in Nat BY <2>5, FS_CardinalityType
  <2>7. Cardinality(before) < Cap BY <1>1, <2>2, <2>5, <2>6
  <2> QED BY <2>7 DEF Incoming
<1>3. ASSUME NEW k \in DOMAIN s PROVE \E j \in Listed(s) : s[j] = s[k]
  <2> DEFINE K == {j \in DOMAIN s : s[j] = s[k]}
  <2>1. K \in SUBSET (Nat \ {0}) /\ K # {} BY <1>1
  <2>2. PICK j \in K : \A l \in K : j <= l BY <2>1, LeastPosition
  <2>3. j \in FirstOccurrences(s) BY <1>1, <2>2 DEF FirstOccurrences
  <2> QED BY <2>2, <2>3 DEF Listed
<1> QED BY <1>2, <1>3 DEF References, Upstream

------------------------------------------------------------------------------
(* Steps on the queue                                                       *)

(* A node whose edges are all accounted for by G has all its upstreams in G.*)
LEMMA AllGone ==
  ASSUME refs \in [Nodes -> RefLists], NEW i \in Nodes, NEW G,
         Cardinality(Incoming(i)) = Cardinality(Upstream(i) \cap G)
  PROVE  Upstream(i) \subseteq G
<1> DEFINE U == Upstream(i)
<1>1. /\ IsFiniteSet(U) /\ Cardinality(U) \in Nat
      /\ Cardinality(U) <= Cardinality(U \cap G)
  BY IncomingCount
<1> HIDE DEF U
<1>2. IsFiniteSet(U \cap G) /\ Cardinality(U \cap G) <= Cardinality(U)
  BY <1>1, FS_Intersection
<1>3. Cardinality(U \cap G) \in Nat BY <1>2, FS_CardinalityType
<1>4. Cardinality(U) = Cardinality(U \cap G) BY <1>1, <1>2, <1>3
<1>5. U \cap G \in SUBSET U OBVIOUS
<1>6. U = U \cap G BY <1>1, <1>4, <1>5, FS_Subset
<1> QED BY <1>6 DEF U

(* The resolvers depend on the reference lists alone, which never change.   *)
LEMMA SameEdges ==
  ASSUME refs' = refs, NEW i \in Nodes
  PROVE  /\ Incoming(i)' = Incoming(i)
         /\ Upstream(i)' = Upstream(i)
<1>1. Incoming(i)' = Incoming(i)
  BY DEF Incoming, Listed, FirstOccurrences
<1> QED BY <1>1 DEF Upstream

(* Queueing a new node whose upstreams are queued keeps the queue in order. *)
LEMMA Enqueue ==
  ASSUME queue \in Seq(Nodes), NoRepeats, UpstreamFirst, refs' = refs,
         NEW i \in Nodes, i \notin Queued, Upstream(i) \subseteq Queued,
         queue' = Append(queue, i)
  PROVE  /\ queue' \in Seq(Nodes)
         /\ Len(queue') = Len(queue) + 1
         /\ \A k \in 1 .. Len(queue) : queue'[k] = queue[k]
         /\ Queued' = Queued \cup {i}
         /\ NoRepeats'
         /\ UpstreamFirst'
<1>1. /\ queue' \in Seq(Nodes)
      /\ Len(queue') = Len(queue) + 1
      /\ \A k \in 1 .. Len(queue) : queue'[k] = queue[k]
      /\ queue'[Len(queue) + 1] = i
  OBVIOUS
<1> DEFINE n == Len(queue)
<1>2. n \in Nat OBVIOUS
<1> HIDE DEF n
<1>3. 1 .. n + 1 = (1 .. n) \cup {n + 1} BY <1>2
<1>4. Queued' = Queued \cup {i} BY <1>1, <1>3 DEF Queued, n
<1>5. NoRepeats'
  <2> SUFFICES ASSUME NEW j \in 1 .. n + 1, NEW k \in 1 .. n + 1,
                      queue'[j] = queue'[k]
               PROVE  j = k
    BY <1>1 DEF NoRepeats, n
  <2>1. \A l \in 1 .. n : queue'[l] # i BY <1>1 DEF Queued, n
  <2>2. CASE j = n + 1 \/ k = n + 1 BY <1>1, <1>3, <2>1, <2>2 DEF n
  <2>3. CASE j \in 1 .. n /\ k \in 1 .. n BY <1>1, <2>3 DEF NoRepeats, n
  <2> QED BY <1>3, <2>2, <2>3
<1>6. UpstreamFirst'
  <2> SUFFICES ASSUME NEW x \in Nodes, NEW k \in 1 .. n + 1, queue'[k] = x,
                      NEW up \in Upstream(x)
               PROVE  \E j \in 1 .. k - 1 : queue'[j] = up
    BY <1>1, SameEdges DEF UpstreamFirst, n
  <2>1. CASE k = n + 1
    <3>1. x = i BY <1>1, <2>1 DEF n
    <3>2. PICK j \in 1 .. n : queue[j] = up BY <3>1 DEF Queued, n
    <3> QED BY <1>1, <1>2, <2>1, <3>2 DEF n
  <2>2. CASE k \in 1 .. n
    <3>1. queue[k] = x BY <1>1, <2>2 DEF n
    <3>2. PICK j \in 1 .. k - 1 : queue[j] = up
      BY <2>2, <3>1 DEF UpstreamFirst, n
    <3>3. j \in 1 .. n BY <1>2, <2>2
    <3> QED BY <1>1, <3>2, <3>3 DEF n
  <2> QED BY <1>3, <2>1, <2>2
<1> QED BY <1>1, <1>4, <1>5, <1>6

(* A step that leaves the queue alone leaves what is said of it alone.      *)
LEMMA SameQueue ==
  ASSUME queue \in Seq(Nodes), refs' = refs, queue' = queue
  PROVE  /\ Queued' = Queued
         /\ NoRepeats => NoRepeats'
         /\ UpstreamFirst => UpstreamFirst'
<1>1. Queued' = Queued BY DEF Queued
<1>2. NoRepeats => NoRepeats' BY DEF NoRepeats
<1>3. UpstreamFirst => UpstreamFirst' BY SameEdges DEF UpstreamFirst
<1> QED BY <1>1, <1>2, <1>3

------------------------------------------------------------------------------
(* The invariant is inductive                                               *)

(* Before anything is queued every counter is the node's in-degree.         *)
LEMMA SortInitInv == SortInit => SortIInv
<1> SUFFICES ASSUME SortInit PROVE SortIInv OBVIOUS
<1>1. refs \in [Nodes -> RefLists] /\ queue = <<>> /\ Len(queue) = 0 /\ qhead = 0
  BY DEF SortInit
<1>2. \A i \in Nodes : indeg[i] = Cardinality(Incoming(i))
  BY DEF SortInit, InDegree
<1>3. \A i \in Nodes : Cardinality(Incoming(i)) \in Int
  BY <1>1, IncomingCount
<1>4. SortShapeInv
  <2>1. indeg \in [Nodes -> Int] BY <1>3 DEF SortInit, InDegree
  <2> QED BY <1>1, <2>1 DEF SortInit, SortShapeInv
<1>5. Counts
  <2> SUFFICES ASSUME NEW i \in Nodes
               PROVE  indeg[i] = Cardinality(Incoming(i))
                                   - Cardinality(Upstream(i) \cap Gone(i))
    BY DEF Counts
  <2>1. Upstream(i) \cap Gone(i) = {}
    BY <1>1 DEF Gone, Passed, SortInit
  <2>2. Cardinality(Upstream(i) \cap Gone(i)) = 0 BY <2>1, FS_EmptySet
  <2> QED BY <1>2, <1>3, <2>2
<1>6. NoRepeats /\ UpstreamFirst
  BY <1>1 DEF NoRepeats, UpstreamFirst
<1>7. QueuedIffZero
  <2>1. Queued = {} BY <1>1 DEF Queued
  <2>2. phase = "seed" /\ next = 1 BY DEF SortInit
  <2>3. \A i \in Nodes : ~ (i < 1) BY DEF Nodes
  <2> QED BY <2>1, <2>2, <2>3 DEF QueuedIffZero
<1> QED BY <1>4, <1>5, <1>6, <1>7 DEF SortIInv

(* A node without incoming edges is queued once and waits for nobody.       *)
LEMMA SeedInv == SortIInv /\ Seed => SortIInv'
<1> SUFFICES ASSUME SortIInv, Seed PROVE SortIInv' OBVIOUS
<1> USE DEF SortIInv
<1>1. /\ next \in Nodes /\ phase = "seed" /\ qhead = 0
      /\ next' = next + 1 /\ refs' = refs /\ indeg' = indeg
      /\ qhead' = qhead /\ phase' = phase
  BY DEF Seed, SortShapeInv, Nodes
<1>2. \A i \in Nodes : Gone(i) = {} /\ Gone(i)' = {}
  BY <1>1 DEF Gone, Passed
<1>3. Counts'
  BY <1>1, <1>2, SameEdges DEF Counts
<1>4. next \notin Queued BY <1>1 DEF QueuedIffZero, Nodes
<1>5. CASE indeg[next] = 0
  <2>1. queue' = Append(queue, next) BY <1>5 DEF Seed, Ready
  <2>2. Upstream(next) \subseteq Gone(next)
    <3>1. Cardinality(Incoming(next)) \in Int BY <1>1, IncomingCount DEF SortShapeInv
    <3>2. Cardinality(Upstream(next) \cap Gone(next)) = 0
      BY <1>1, <1>2, FS_EmptySet
    <3>3. Cardinality(Incoming(next)) = Cardinality(Upstream(next) \cap Gone(next))
      BY <1>1, <1>5, <3>1, <3>2 DEF Counts
    <3> QED BY <1>1, <3>3, AllGone DEF SortShapeInv
  <2>3. Upstream(next) \subseteq Queued BY <1>1, <1>2, <2>2
  <2>4. /\ queue' \in Seq(Nodes) /\ Len(queue') = Len(queue) + 1
        /\ Queued' = Queued \cup {next} /\ NoRepeats' /\ UpstreamFirst'
    BY <1>1, <1>4, <2>1, <2>3, Enqueue DEF SortShapeInv
  <2>5. SortShapeInv' BY <1>1, <2>4 DEF SortShapeInv, Nodes
  <2>6. QueuedIffZero' BY <1>1, <1>5, <2>4 DEF QueuedIffZero, Nodes, SortShapeInv
  <2> QED BY <1>3, <2>4, <2>5, <2>6
<1>6. CASE indeg[next] # 0
  <2>1. queue' = queue BY <1>6 DEF Seed, Ready
  <2>2. Queued' = Queued /\ NoRepeats' /\ UpstreamFirst'
    BY <1>1, <2>1, SameQueue DEF SortShapeInv
  <2>3. SortShapeInv' BY <1>1, <2>1 DEF SortShapeInv, Nodes
  <2>4. QueuedIffZero'
    <3>1. next \in Nat /\ \A i \in Nodes : i \in Nat BY DEF SortShapeInv, Nodes
    <3>2. \A i \in Nodes : i \in Queued <=> indeg[i] = 0 /\ i < next
      BY <1>1 DEF QueuedIffZero
    <3>3. \A i \in Nodes : i < next + 1 <=> i < next \/ i = next BY <3>1
    <3> QED BY <1>1, <1>6, <2>2, <3>2, <3>3 DEF QueuedIffZero
  <2> QED BY <1>3, <2>2, <2>3, <2>4
<1> QED BY <1>5, <1>6

(* The scan passes a node: if the produced node is an upstream of it, one   *)
(* edge goes, and the node is queued when that was its last.                *)
LEMMA ScanInv == SortIInv /\ Scan => SortIInv'
<1> SUFFICES ASSUME SortIInv, Scan PROVE SortIInv' OBVIOUS
<1> USE DEF SortIInv
<1>0. PICK n \in Nodes : n = next BY DEF Scan, SortShapeInv, Nodes
<1>1. /\ n = next /\ phase = "scan" /\ qhead \in 1 .. Len(queue)
      /\ next' = n + 1 /\ refs' = refs /\ qhead' = qhead /\ phase' = phase
      /\ queue \in Seq(Nodes) /\ indeg \in [Nodes -> Int]
      /\ refs \in [Nodes -> RefLists]
  <2>1. phase = "scan" /\ next' = n + 1 /\ refs' = refs /\ qhead' = qhead /\ phase' = phase
    BY <1>0 DEF Scan
  <2>2. /\ queue \in Seq(Nodes) /\ indeg \in [Nodes -> Int] /\ refs \in [Nodes -> RefLists]
        /\ qhead \in 0 .. Len(queue) /\ (phase = "scan" => qhead >= 1)
    BY DEF SortShapeInv
  <2>3. qhead \in 1 .. Len(queue) BY <2>1, <2>2
  <2> QED BY <1>0, <2>1, <2>2, <2>3
<1>2. Passed(n) = qhead - 1 /\ Passed(n)' = qhead
  BY <1>1 DEF Passed, Nodes
<1>3. \A i \in Nodes \ {n} : Passed(i)' = Passed(i)
  BY <1>1 DEF Passed, Nodes
<1>4. \A i \in Nodes : Passed(i) \in 0 .. Len(queue) /\ Passed(i)' \in 0 .. Len(queue)
  BY <1>1 DEF Passed
<1> DEFINE before == Upstream(n) \cap Gone(n)
<1>5. /\ IsFiniteSet(before) /\ Cardinality(before) \in Nat
      /\ Cardinality(Incoming(n)) \in Nat
  <2>1. IsFiniteSet(Upstream(n)) /\ Cardinality(Incoming(n)) \in Nat
    BY <1>1, IncomingCount
  <2>2. IsFiniteSet(before) BY <2>1, FS_Intersection
  <2> QED BY <2>1, <2>2, FS_CardinalityType
<1>6. indeg[n] = Cardinality(Incoming(n)) - Cardinality(before)
  BY <1>1 DEF Counts
<1>7. Taken \in Nodes /\ Taken \notin Gone(n)
  <2>1. \A k \in 1 .. qhead - 1 : queue[k] # queue[qhead]
    BY <1>1 DEF NoRepeats
  <2> QED BY <1>1, <1>2, <2>1 DEF Gone, Taken
<1>8. ASSUME \A k \in 1 .. Len(queue) : queue'[k] = queue[k]
      PROVE  /\ \A i \in Nodes \ {n} : Gone(i)' = Gone(i)
             /\ Gone(n)' = Gone(n) \cup {Taken}
  <2>1. \A i \in Nodes : Gone(i)' = {queue[k] : k \in 1 .. Passed(i)'}
    BY <1>4, <1>8 DEF Gone
  <2>2. 1 .. qhead = (1 .. qhead - 1) \cup {qhead} BY <1>1
  <2>3. \A i \in Nodes \ {n} : Gone(i)' = Gone(i) BY <1>3, <2>1 DEF Gone
  <2>4. Gone(n)' = {queue[k] : k \in 1 .. qhead} BY <1>2, <2>1
  <2>5. Gone(n) = {queue[k] : k \in 1 .. qhead - 1} BY <1>2 DEF Gone
  <2> QED BY <2>2, <2>3, <2>4, <2>5 DEF Taken
<1>9. CASE Taken \in Upstream(n)
  <2>1. /\ indeg' = [indeg EXCEPT ![n] = indeg[n] - 1]
        /\ queue' = IF Ready(indeg[n] - 1) THEN Append(queue, n) ELSE queue
    BY <1>1, <1>9 DEF Scan
  <2> DEFINE after == before \cup {Taken}
  <2>2. Taken \notin before BY <1>7
  <2>3. IsFiniteSet(after) /\ Cardinality(after) = Cardinality(before) + 1
    <3> HIDE DEF before
    <3> QED BY <1>5, <2>2, FS_AddElement
  <2>4. indeg[n] - 1 = Cardinality(Incoming(n)) - Cardinality(after)
    BY <1>5, <1>6, <2>3
  <2>5. indeg[n] >= 1
    <3>1. /\ Cardinality(Upstream(n)) <= Cardinality(Incoming(n))
          /\ IsFiniteSet(Upstream(n)) /\ Cardinality(Upstream(n)) \in Nat
      BY <1>1, IncomingCount
    <3>2. after \in SUBSET Upstream(n) BY <1>9
    <3>3. Cardinality(after) <= Cardinality(Upstream(n)) BY <3>1, <3>2, FS_Subset
    <3> QED BY <1>5, <1>6, <2>3, <3>1, <3>3
  <2>6. n \notin Queued BY <1>1, <2>5 DEF QueuedIffZero
  <2>7. \A k \in 1 .. Len(queue) : queue'[k] = queue[k]
    BY <1>1, <2>1
  <2>8. Upstream(n) \cap Gone(n)' = after BY <1>8, <1>9, <2>7
  <2>9. Counts'
    <3> SUFFICES ASSUME NEW i \in Nodes
                 PROVE  indeg'[i] = Cardinality(Incoming(i))
                                     - Cardinality(Upstream(i) \cap Gone(i)')
      BY <1>1, SameEdges DEF Counts
    <3>1. CASE i = n BY <1>1, <2>1, <2>4, <2>8, <3>1
    <3>2. CASE i # n BY <1>1, <1>8, <2>1, <2>7, <3>2 DEF Counts
    <3> QED BY <3>1, <3>2
  <2>10. CASE indeg[n] - 1 = 0
    <3>1. queue' = Append(queue, n) BY <2>1, <2>10 DEF Ready
    <3>2. Upstream(n) \subseteq Gone(n)'
      <4>1. Cardinality(Incoming(n)) = Cardinality(after)
        BY <1>5, <2>3, <2>4, <2>10
      <4>2. Cardinality(Incoming(n)) = Cardinality(Upstream(n) \cap after)
        <5>1. Upstream(n) \cap after = after BY <1>9
        <5> QED BY <4>1, <5>1
      <4> HIDE DEF after
      <4>3. Upstream(n) \subseteq after BY <1>1, <4>2, AllGone
      <4> QED BY <2>8, <4>3
    <3>3. Upstream(n) \subseteq Queued
      <4>1. Gone(n) \subseteq Queued BY <1>1, <1>2 DEF Gone, Queued
      <4>2. Taken \in Queued BY <1>1 DEF Taken, Queued
      <4> QED BY <1>8, <2>7, <3>2, <4>1, <4>2
    <3>4. /\ queue' \in Seq(Nodes) /\ Len(queue') = Len(queue) + 1
          /\ Queued' = Queued \cup {n} /\ NoRepeats' /\ UpstreamFirst'
      BY <1>1, <2>6, <3>1, <3>3, Enqueue
    <3>5. SortShapeInv'
      <4>1. indeg' \in [Nodes -> Int] BY <1>1, <2>1 DEF SortShapeInv
      <4>2. qhead' \in 0 .. Len(queue') BY <1>1, <2>1, <3>4 DEF SortShapeInv
      <4>3. next' \in 1 .. N + 1 BY <1>1, <2>1 DEF SortShapeInv, Nodes
      <4> QED BY <1>1, <2>1, <3>4, <4>1, <4>2, <4>3 DEF SortShapeInv
    <3>6. QueuedIffZero' BY <1>1, <2>1, <2>10, <3>4 DEF QueuedIffZero
    <3> QED BY <2>9, <3>4, <3>5, <3>6
  <2>11. CASE indeg[n] - 1 # 0
    <3>1. queue' = queue BY <2>1, <2>11 DEF Ready
    <3>2. Queued' = Queued /\ NoRepeats' /\ UpstreamFirst'
      BY <1>1, <3>1, SameQueue
    <3>3. SortShapeInv' BY <1>1, <2>1, <3>1 DEF SortShapeInv, Nodes
    <3>4. QueuedIffZero' BY <1>1, <2>1, <2>6, <2>11, <3>2 DEF QueuedIffZero
    <3> QED BY <2>9, <3>2, <3>3, <3>4
  <2> QED BY <2>10, <2>11
<1>10. CASE Taken \notin Upstream(n)
  <2>1. indeg' = indeg /\ queue' = queue BY <1>1, <1>10 DEF Scan
  <2>2. Queued' = Queued /\ NoRepeats' /\ UpstreamFirst'
    BY <1>1, <2>1, SameQueue
  <2>3. \A i \in Nodes : Upstream(i) \cap Gone(i)' = Upstream(i) \cap Gone(i)
    BY <1>8, <1>10, <2>1
  <2>4. Counts' BY <1>1, <2>1, <2>3, SameEdges DEF Counts
  <2>5. SortShapeInv' BY <1>1, <2>1 DEF SortShapeInv, Nodes
  <2>6. QueuedIffZero' BY <1>1, <2>1, <2>2 DEF QueuedIffZero
  <2> QED BY <2>2, <2>4, <2>5, <2>6
<1> QED BY <1>9, <1>10

(* The remaining steps move the loop to its next phase.                     *)
LEMMA PhaseInv ==
  ASSUME SortIInv, Seeded \/ Take \/ Scanned \/ UNCHANGED sortVars
  PROVE  SortIInv'
<1> USE DEF SortIInv
<1>1. /\ refs' = refs /\ queue' = queue /\ indeg' = indeg
      /\ queue \in Seq(Nodes)
  BY DEF Seeded, Take, Scanned, sortVars, SortShapeInv
<1>2. SortShapeInv'
  BY DEF Seeded, Take, Scanned, sortVars, SortShapeInv
<1>3. Queued' = Queued /\ NoRepeats' /\ UpstreamFirst'
  BY <1>1, SameQueue
<1>4. \A i \in Nodes : Passed(i)' = Passed(i)
  <2>1. CASE Seeded BY <2>1 DEF Seeded, Passed
  <2>2. CASE Take BY <2>2 DEF Take, Passed, SortShapeInv, Nodes
  <2>3. CASE Scanned BY <2>3 DEF Scanned, Passed, SortShapeInv, Nodes
  <2>4. CASE UNCHANGED sortVars BY <2>4 DEF sortVars, Passed
  <2> QED BY <2>1, <2>2, <2>3, <2>4
<1>5. \A i \in Nodes : Gone(i)' = Gone(i) BY <1>1, <1>4 DEF Gone
<1>6. Counts' BY <1>1, <1>5, SameEdges DEF Counts
<1>7. QueuedIffZero'
  <2>1. \/ phase' = phase /\ next' = next
        \/ phase = "seed" /\ phase' # "seed" /\ next = N + 1
        \/ phase # "seed" /\ phase' # "seed"
    BY DEF Seeded, Take, Scanned, sortVars
  <2>2. \A i \in Nodes : i < N + 1 BY DEF Nodes
  <2> QED BY <1>1, <1>3, <2>1, <2>2 DEF QueuedIffZero
<1> QED BY <1>2, <1>3, <1>6, <1>7

(* Every step of topo_sort, and every stutter, keeps the invariant.         *)
LEMMA NextInv == SortIInv /\ [SortNext]_sortVars => SortIInv'
<1> SUFFICES ASSUME SortIInv, [SortNext]_sortVars PROVE SortIInv' OBVIOUS
<1>1. CASE Seed BY <1>1, SeedInv
<1>2. CASE Scan BY <1>2, ScanInv
<1>3. CASE Seeded \/ Take \/ Scanned BY <1>3, PhaseInv
<1>4. CASE Done \/ UNCHANGED sortVars BY <1>4, PhaseInv DEF Done
<1> QED BY <1>1, <1>2, <1>3, <1>4 DEF SortNext

(* The invariant holds in every state topo_sort reaches.                    *)
THEOREM SortInductive == SortSpec => []SortIInv
<1> QED BY SortInitInv, NextInv, PTL DEF SortSpec

------------------------------------------------------------------------------
(* What follows from it                                                     *)

(* A counter never goes below zero or above the length of the longest list. *)
LEMMA InvTypeOK == SortIInv => SortTypeOK
<1> SUFFICES ASSUME SortIInv PROVE SortTypeOK OBVIOUS
<1> USE DEF SortIInv
<1>1. ASSUME NEW i \in Nodes PROVE indeg[i] \in 0 .. MaxRefs
  <2> DEFINE gone == Upstream(i) \cap Gone(i)
  <2>1. /\ IsFiniteSet(Upstream(i)) /\ Cardinality(Upstream(i)) \in Nat
        /\ Cardinality(Incoming(i)) \in 0 .. MaxRefs
        /\ Cardinality(Upstream(i)) <= Cardinality(Incoming(i))
    BY IncomingCount DEF SortShapeInv
  <2>2. IsFiniteSet(gone) /\ Cardinality(gone) <= Cardinality(Upstream(i))
    BY <2>1, FS_Intersection
  <2>3. Cardinality(gone) \in Nat BY <2>2, FS_CardinalityType
  <2>4. indeg[i] = Cardinality(Incoming(i)) - Cardinality(gone) BY DEF Counts
  <2> QED BY <2>1, <2>2, <2>3, <2>4
<1> QED BY <1>1 DEF SortTypeOK, SortShapeInv

(* Queue positions inject into the nodes, and cover them only if all nodes  *)
(* are queued.                                                              *)
LEMMA QueueSize ==
  ASSUME queue \in Seq(Nodes), NoRepeats
  PROVE  /\ Len(queue) <= N
         /\ Queued = Nodes => Len(queue) = N
<1> DEFINE n == Len(queue)
           D == 1 .. n
           at == [k \in D |-> queue[k]]
<1>1. n \in Nat OBVIOUS
<1>2. /\ IsFiniteSet(D) /\ Cardinality(D) = n
      /\ IsFiniteSet(Nodes) /\ Cardinality(Nodes) = N
  BY <1>1, IntervalSize DEF Nodes
<1>3. at \in Injection(D, Nodes)
  BY DEF Injection, IsInjective, NoRepeats
<1>4. /\ Cardinality(D) <= Cardinality(Nodes)
      /\ at \in Surjection(D, Nodes) => Cardinality(D) = Cardinality(Nodes)
  BY <1>2, <1>3, FS_Injection
<1>5. Queued = Nodes => at \in Surjection(D, Nodes)
  BY DEF Surjection, Queued
<1> QED BY <1>2, <1>4, <1>5

(* Distinct nodes in the queue: no more of them than nodes.                 *)
LEMMA InvQueueFits == SortIInv => QueueFits
BY QueueSize DEF SortIInv, SortShapeInv, NoRepeats, QueueFits

(* What a resolver reports of a list that fits is all of it.                *)
LEMMA InvOrder == SortIInv => OrderRespectsRefs
<1> SUFFICES ASSUME SortIInv, NEW k \in 1 .. Len(queue), Len(refs[queue[k]]) <= Cap,
                    NEW up \in References(queue[k])
             PROVE  \E j \in 1 .. k - 1 : queue[j] = up
  BY DEF OrderRespectsRefs
<1>1. queue[k] \in Nodes /\ refs \in [Nodes -> RefLists] BY DEF SortIInv, SortShapeInv
<1>2. up \in Upstream(queue[k]) BY <1>1, NothingDropped
<1> QED BY <1>1, <1>2 DEF SortIInv, UpstreamFirst

(* If the queue ran empty before all nodes were queued, each node left out  *)
(* would refer to another one left out: a cycle.                            *)
LEMMA InvSorted == Dedup /\ SortIInv => EveryDAGIsSorted
<1> SUFFICES ASSUME Dedup, SortIInv, Finished, Acyclic PROVE Sorted
  BY DEF EveryDAGIsSorted
<1> USE DEF SortIInv
<1>1. phase = "take" /\ qhead = Len(queue) BY DEF Finished
<1>2. \A i \in Nodes : Gone(i) = Queued BY <1>1 DEF Gone, Passed, Queued
<1> DEFINE Left == Nodes \ Queued
<1>3. ASSUME Left # {} PROVE FALSE
  <2>1. PICK i \in Left : References(i) \cap Left = {}
    BY <1>3 DEF Acyclic
  <2>2. Upstream(i) \subseteq References(i)
    BY IncomingInList, ListShape DEF SortShapeInv, Upstream, References
  <2>3. Upstream(i) \cap Gone(i) = Upstream(i)
    BY <1>2, <2>1, <2>2, IncomingInList DEF SortShapeInv
  <2>4. /\ Cardinality(Incoming(i)) \in Nat
        /\ Cardinality(Upstream(i)) = Cardinality(Incoming(i))
    BY <2>1, IncomingCount DEF SortShapeInv
  <2>5. indeg[i] = 0 BY <2>1, <2>3, <2>4 DEF Counts
  <2>6. i \in Queued BY <1>1, <2>1, <2>5 DEF QueuedIffZero
  <2> QED BY <2>1, <2>6
<1>4. Queued \subseteq Nodes BY DEF Queued, SortShapeInv
<1>5. Queued = Nodes BY <1>3, <1>4
<1>6. Len(queue) = N BY <1>5, QueueSize DEF SortShapeInv
<1> QED BY <1>1, <1>6 DEF Sorted, Finished

(* Every variable of topo_sort keeps its type: no counter goes negative.    *)
THEOREM TypeCorrect == SortSpec => []SortTypeOK
<1> QED BY SortInductive, InvTypeOK, PTL

(* The arrays of n entries that topo_sort allocates are never overrun.      *)
THEOREM ArraysNeverOverflow == SortSpec => []ArraysFit
<1>1. SortIInv => ArraysFit BY InvTypeOK, InvQueueFits DEF ArraysFit
<1> QED BY SortInductive, <1>1, PTL

(* Stages and steps run after what they refer to, whichever resolver is     *)
(* used, as long as a list fits the resolver's array.                       *)
THEOREM OrderIsTopological == SortSpec => []OrderRespectsRefs
<1> QED BY SortInductive, InvOrder, PTL

(* Both together, the invariant the run checks: whatever the references, no *)
(* array is overrun and upstreams come first (exec.c:37-76).                *)
THEOREM OrdersAreSound == SortSpec => []SortIsSound
<1> QED BY ArraysNeverOverflow, OrderIsTopological, PTL DEF SortIsSound

(* With the resolver that skips repeats (steps), an acyclic graph is never  *)
(* taken for a cycle, even one whose lists are cut off.                     *)
THEOREM StepsAreAllSorted ==
  ASSUME Dedup
  PROVE  SortSpec => []EveryDAGIsSorted
<1>1. SortIInv => EveryDAGIsSorted BY InvSorted
<1> QED BY SortInductive, <1>1, PTL
==============================================================================
