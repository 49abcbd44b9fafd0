------------------------- MODULE DataflowStage_proofs -------------------------
(***************************************************************************)
(* The dataflow stage, for every stage a pipeline can describe and every   *)
(* point it can fail at: what was acquired is given back once, the streams *)
(* are connected as written, the sinks are drained in order, and no thread *)
(* is in a step that was destroyed.  And the transform in a step, for      *)
(* every configuration and any batches: it is honest about the end of its  *)
(* inputs, and the row-wise ones give what they are configured to give.    *)
(***************************************************************************)
EXTENDS DataflowStage, Transforms, DataLemmas, FunctionTheorems

------------------------------------------------------------------------------
(* The inductive invariant                                                  *)

Setup   == {"resolve", "init"}
Connect == {"output", "wrap", "input"}
Ending  == {"cleanup", "destroy", "done"}

\* Where the stage's thread is, and what it has initialised.
PlaceInv ==
  /\ order \in Orders(stage)
  /\ pc = "resolve" => inited = {}
  /\ pc = "init" => k <= stage.n + 1 /\ inited = 1 .. k - 1
  /\ pc \in Connect \cup {"drive"} => k <= stage.n + 1 /\ inited = Steps
  /\ pc \in {"wrap", "input"} =>
       k <= stage.n /\ pi <= Len(stage.from[order[k]]) /\ PortKnown
  /\ pc = "output" /\ k <= stage.n => pi <= Len(stage.from[order[k]]) + 1
  /\ pc = "destroy" => k <= stage.n + 1
  /\ streams # <<>> => pc \notin Setup /\ inited = Steps
  /\ pc \notin Ending => rc = "ok"
  /\ running # 0 => pc = "drive" /\ k <= stage.n /\ running = order[k] /\ IsSink(running)

\* Stream s is kept by a step; it is an edge on its way to one.
Owned(s)   == \E i \in Steps : s \in Range(inputs[i])
Passed(s) == hand = s /\ Parallel

\* The stream of the current input is in the slot it was made in.
InSlot ==
  /\ attached[Up][Port] /\ slot[Up][Port] # 0
  /\ streams[slot[Up][Port]] = [up |-> Up, port |-> Port]

(* A stream has one owner until it is released: the step that keeps it, the *)
(* slot it was made in, or the executor on its way from one to the other.   *)
OwnInv ==
  /\ \A i, j \in Steps : \A a \in DOMAIN inputs[i], b \in DOMAIN inputs[j] :
       inputs[i][a] = inputs[j][b] => i = j /\ a = b
  /\ \A s \in Made :
       /\ released[s] = 0 <=> Owned(s) \/ s \in InSlots \/ Passed(s)
       /\ Owned(s) => s \notin InSlots /\ ~Passed(s)
       /\ Passed(s) => s \notin InSlots

MadeAtPorts == \A s \in Made : streams[s].port \in Ports(streams[s].up)
Free        == \A i \in Steps : \A p \in Ports(i) : ~attached[i][p]
OnlyCurrent == \A i \in Steps : \A p \in Ports(i) : attached[i][p] => i = Up /\ p = Port
Zeroed      == \A i \in Steps : \A p \in Ports(i) : slot[i][p] = 0
InHand      == hand # 0 /\ streams[hand] = [up |-> Up, port |-> Port]

\* The slots that are in use: at most that of the stream being passed on.
SlotInv ==
  /\ MadeAtPorts
  /\ pc \in Setup \cup {"output", "drive"} => Free
  /\ pc \in {"wrap", "input"} => OnlyCurrent
  /\ pc = "wrap" => InSlot
  /\ pc = "input" => InHand /\ IF Parallel THEN Free ELSE InSlot /\ slot[Up][Port] = hand
  /\ pc # "input" => hand = 0
  /\ pc \in {"destroy", "done"} => Zeroed

\* The steps destroyed so far, in reverse order of their declaration.
Gone(i) == inputs[i] = <<>> /\ destroys[i] = (IF i \in inited THEN 1 ELSE 0)

DestroyInv ==
  /\ pc \notin {"destroy", "done"} => \A i \in Steps : destroys[i] = 0
  /\ pc = "destroy" =>
       \A i \in Steps : IF i > DestroyTurn THEN Gone(i) ELSE destroys[i] = 0
  /\ pc = "done" => \A i \in Steps : Gone(i)

(* The steps before the current one in the order have all their inputs, as  *)
(* written; the current one has its first ones.                             *)
WiredIn(own, made, refs, n) == Len(own) = n /\ \A r \in 1 .. n : made[own[r]] = refs[r]
Wired(i, n) == WiredIn(inputs[i], streams, stage.from[i], n)

InputsNamed ==
  \A i \in Steps : \A a \in DOMAIN inputs[i] :
    \E r \in DOMAIN stage.from[i] : streams[inputs[i][a]] = stage.from[i][r]
WiredSoFar ==
  \A m \in Steps : /\ m < k => Wired(order[m], Len(stage.from[order[m]]))
                   /\ m = k => Wired(order[m], pi - 1)
                   /\ m > k => Wired(order[m], 0)
OpenedFromWired == \A s \in Made : \E m \in Steps : m < k /\ order[m] = streams[s].up

WiringInv ==
  /\ InputsNamed
  /\ pc \in Connect => WiredSoFar /\ OpenedFromWired
  /\ pc = "drive" => \A i \in Steps : Wired(i, Len(stage.from[i]))

\* An edge whose thread runs is an input some step still keeps.
ThreadInv == \A s \in threads : Owned(s) /\ Parallel

\* Before the end, what was drained is what the order has so far.
InOrder ==
  \A a, b \in DOMAIN drained :
    a < b => \E m, n \in Steps : m < n /\ order[m] = drained[a] /\ order[n] = drained[b]

SinksIn(g, o, n) == {o[m] : m \in {p \in 1 .. n : g.kind[o[p]] = "sink"}}

DrainInv ==
  /\ pc \in Setup \cup Connect => drained = <<>>
  /\ pc = "drive" => Range(drained) = SinksIn(stage, order, k - 1)
  /\ pc \in Ending => /\ \E n \in 0 .. stage.n : Range(drained) = SinksIn(stage, order, n)
                      /\ rc = "ok" => Range(drained) = SinksIn(stage, order, stage.n)
  /\ InOrder

IInv == /\ TypeOK /\ PlaceInv /\ OwnInv /\ SlotInv /\ DestroyInv /\ WiringInv
        /\ ThreadInv /\ DrainInv

------------------------------------------------------------------------------
(* Stages, sequences, and the inputs of a stage                             *)

LEMMA StageShape ==
  ASSUME TypeOK
  PROVE  /\ stage.n \in Nat /\ Parallel \in BOOLEAN
         /\ stage.kind \in [Steps -> {"source", "transform", "sink"}]
         /\ stage.from \in [Steps -> Seq([up : Steps, port : Int])]
         /\ stage.nOut \in [Steps -> Nat]
         /\ stage.accepts \in [Steps -> {"one", "two", "many"}]
BY StagesAssumption DEF TypeOK, Steps, Parallel

LEMMA StageKept ==
  ASSUME [Next]_vars
  PROVE  stage' = stage /\ order' = order
BY DEF Next, Resolve, InitStep, AllInit, RejectRef, AttachOutput, Wrap, AttachInput,
       AttachInputFails, NextStep, AllConnected, NoSink, SinkStart, SinkDone, SinkFails,
       AllDriven, ThreadStart, ThreadEnds, CleanupSlots, DestroyStep, Finish, Terminated, vars

LEMMA AppendShape ==
  ASSUME NEW S, NEW s \in Seq(S), NEW e \in S
  PROVE  /\ Append(s, e) \in Seq(S) /\ Len(s) \in Nat /\ Len(Append(s, e)) = Len(s) + 1
         /\ Append(s, e)[Len(s) + 1] = e
         /\ \A i \in 1 .. Len(s) : Append(s, e)[i] = s[i]
         /\ DOMAIN s = 1 .. Len(s) /\ DOMAIN Append(s, e) = DOMAIN s \cup {Len(s) + 1}
<1>1. /\ Append(s, e) \in Seq(S) /\ Len(s) \in Nat /\ Len(Append(s, e)) = Len(s) + 1
      /\ Append(s, e)[Len(s) + 1] = e
      /\ \A i \in 1 .. Len(s) : Append(s, e)[i] = s[i]
  OBVIOUS
<1>2. DOMAIN s = 1 .. Len(s) /\ DOMAIN Append(s, e) = 1 .. Len(s) + 1 BY <1>1
<1>3. 1 .. Len(s) + 1 = (1 .. Len(s)) \cup {Len(s) + 1} BY <1>1
<1> QED BY <1>1, <1>2, <1>3

\* The input that is being connected.
LEMMA EdgeShape ==
  ASSUME TypeOK, k <= stage.n, pi <= Len(stage.from[order[k]])
  PROVE  /\ k \in Steps /\ order[k] \in Steps /\ pi \in DOMAIN stage.from[order[k]]
         /\ Edge.step = order[k] /\ Edge.input = pi /\ Up \in Steps /\ Port \in Int
         /\ [up |-> Up, port |-> Port] = stage.from[order[k]][pi]
         /\ Up = stage.from[order[k]][pi].up
<1>1. k \in Steps /\ order[k] \in Steps BY StageShape DEF TypeOK, Steps
<1>2. stage.from[order[k]] \in Seq([up : Steps, port : Int]) BY <1>1, StageShape
<1>3. pi \in DOMAIN stage.from[order[k]] /\ pi \in 1 .. Len(stage.from[order[k]])
  <2>1. /\ Len(stage.from[order[k]]) \in Nat
        /\ DOMAIN stage.from[order[k]] = 1 .. Len(stage.from[order[k]])
    BY <1>2
  <2>2. pi \in Nat \ {0} BY DEF TypeOK
  <2> QED BY <2>1, <2>2
<1>4. stage.from[order[k]][pi] \in [up : Steps, port : Int]
  BY <1>2, <1>3, ElementOfSeq
<1>5. Edge.step = order[k] /\ Edge.input = pi /\ Edge.ref = stage.from[order[k]][pi]
  BY DEF Edge
<1> QED BY <1>1, <1>3, <1>4, <1>5 DEF Up, Port

LEMMA PortShape ==
  ASSUME TypeOK, k <= stage.n, pi <= Len(stage.from[order[k]]), PortKnown
  PROVE  /\ Port \in Ports(Up) /\ Port \in Nat
         /\ slot[Up] \in [Ports(Up) -> Made \cup {0}]
         /\ attached[Up] \in [Ports(Up) -> BOOLEAN]
<1>1. Up \in Steps BY EdgeShape
<1>2. Port \in Ports(Up) /\ Port \in Nat BY <1>1, StageShape DEF PortKnown, Ports
<1> QED BY <1>1, <1>2 DEF TypeOK

------------------------------------------------------------------------------
(* What each step does to the streams                                       *)

\* A stream is released: the counts of the others stay.
LEMMA ReleaseShape ==
  ASSUME TypeOK, NEW S, Release(S), \A s \in Made \cap S : released[s] = 0
  PROVE  /\ released' \in Seq({0, 1}) /\ Len(released') = Len(streams)
         /\ \A s \in Made : released'[s] = IF s \in S THEN 1 ELSE released[s]
<1>1. Made = 1 .. Len(streams) /\ Len(streams) \in Nat BY DEF TypeOK, Made
<1>2. released \in [Made -> {0, 1}]
  <2>1. Len(released) = Len(streams) /\ released \in Seq({0, 1}) BY DEF TypeOK
  <2> QED BY <1>1, <2>1
<1>3. \A s \in Made : released'[s] = IF s \in S THEN 1 ELSE released[s]
  BY <1>2 DEF Release
<1>4. released' \in [Made -> {0, 1}] BY <1>2, <1>3 DEF Release
<1>5. released' \in Seq({0, 1}) BY <1>1, <1>4, SeqDef
<1>6. Len(released') = Len(streams) BY <1>1, <1>4, LenProperties, <1>5
<1> QED BY <1>3, <1>5, <1>6

\* attach_output: one stream more, in the slot of its port.
LEMMA AttachShape ==
  ASSUME TypeOK, PlaceInv, SlotInv, AttachOutput
  PROVE  \/ /\ pc' = "wrap" /\ UNCHANGED <<k, pi, rc>>
            /\ PortKnown /\ k <= stage.n /\ pi <= Len(stage.from[order[k]])
            /\ streams' = Append(streams, [up |-> Up, port |-> Port])
            /\ released' = Append(released, 0)
            /\ slot' = [slot EXCEPT ![Up][Port] = Len(streams) + 1]
            /\ attached' = [attached EXCEPT ![Up][Port] = TRUE]
         \/ pc' = "cleanup" /\ UNCHANGED <<slot, attached, streams, released>>
<1>1. /\ PortKnown /\ k <= stage.n /\ pi <= Len(stage.from[order[k]]) /\ pc = "output"
  BY DEF AttachOutput, HasInput, Connecting
<1>2. Up \in Steps /\ Port \in Ports(Up) BY <1>1, EdgeShape, PortShape
<1>3. ~attached[Up][Port] BY <1>1, <1>2 DEF SlotInv, Free
<1> QED BY <1>1, <1>3 DEF AttachOutput, Then, Fail, Goto

LEMMA SlotTypes ==
  ASSUME TypeOK, NEW i \in Steps, NEW p \in Ports(i), NEW v
  PROVE  /\ DOMAIN [slot EXCEPT ![i][p] = v] = Steps
         /\ DOMAIN [attached EXCEPT ![i][p] = v] = Steps
         /\ \A j \in Steps : \A q \in Ports(j) :
              /\ [slot EXCEPT ![i][p] = v][j][q] = IF j = i /\ q = p THEN v ELSE slot[j][q]
              /\ [attached EXCEPT ![i][p] = v][j][q] =
                   IF j = i /\ q = p THEN v ELSE attached[j][q]
         /\ \A j \in Steps : \A T :
              /\ v \in T /\ Made \cup {0} \subseteq T
                   => [slot EXCEPT ![i][p] = v][j] \in [Ports(j) -> T]
              /\ v \in BOOLEAN => [attached EXCEPT ![i][p] = v][j] \in [Ports(j) -> BOOLEAN]
<1>1. DOMAIN slot = Steps /\ DOMAIN attached = Steps BY DEF TypeOK
<1>2. \A j \in Steps : /\ slot[j] \in [Ports(j) -> Made \cup {0}]
                       /\ attached[j] \in [Ports(j) -> BOOLEAN]
  BY DEF TypeOK
<1>3. \A j \in Steps :
        /\ [slot EXCEPT ![i][p] = v][j] = IF j = i THEN [slot[i] EXCEPT ![p] = v] ELSE slot[j]
        /\ [attached EXCEPT ![i][p] = v][j] =
             IF j = i THEN [attached[i] EXCEPT ![p] = v] ELSE attached[j]
  BY <1>1
<1> QED BY <1>1, <1>2, <1>3

------------------------------------------------------------------------------
(* Types                                                                    *)

\* The steps that leave the streams and where they are alone.
Quiet ==
  \/ Resolve \/ InitStep \/ AllInit \/ RejectRef \/ NextStep \/ AllConnected \/ NoSink
  \/ SinkStart \/ SinkDone \/ SinkFails \/ AllDriven \/ ThreadStart \/ ThreadEnds \/ Finish

LEMMA QuietFrame ==
  ASSUME Quiet
  PROVE  UNCHANGED <<stage, order, streams, slot, attached, hand, inputs, released, destroys>>
BY DEF Quiet, Resolve, InitStep, AllInit, RejectRef, NextStep, AllConnected, NoSink, SinkStart,
       SinkDone, SinkFails, AllDriven, ThreadStart, ThreadEnds, Finish, setup, steps

LEMMA TypeQuiet ==
  ASSUME TypeOK, PlaceInv, Quiet
  PROVE  TypeOK'
<1>1. UNCHANGED <<stage, order, streams, slot, attached, hand, inputs, released, destroys>>
  BY QuietFrame
<1>2. k \in Nat \ {0} /\ stage.n \in Nat BY StageShape DEF TypeOK
<1>3. /\ pc' \in {"resolve", "init", "output", "wrap", "input", "drive", "cleanup",
                  "destroy", "done"}
      /\ k' \in Nat \ {0} /\ pi' \in Nat \ {0} /\ rc' \in {"ok", "fail"}
  BY <1>2 DEF Quiet, Resolve, InitStep, AllInit, RejectRef, NextStep, AllConnected, NoSink,
     SinkStart, SinkDone, SinkFails, AllDriven, ThreadStart, ThreadEnds, Finish, Goto, Fail,
     AfterSinkFailure, TypeOK
<1>4. inited' \subseteq Steps
  <2>1. CASE InitStep
    <3>1. k \in Steps BY <1>2, <2>1 DEF InitStep, Steps
    <3> QED BY <2>1, <3>1 DEF InitStep, TypeOK
  <2>2. CASE ~InitStep
    BY <2>2 DEF Quiet, Resolve, AllInit, RejectRef, NextStep, AllConnected, NoSink, SinkStart,
       SinkDone, SinkFails, AllDriven, ThreadStart, ThreadEnds, Finish, steps, TypeOK
  <2> QED BY <2>1, <2>2
<1>5. running' \in Steps \cup {0} /\ drained' \in Seq(Steps)
  <2>1. CASE SinkStart
    <3>1. k \in Steps BY <1>2, <2>1 DEF SinkStart, Steps
    <3> QED BY <2>1, <3>1 DEF SinkStart, TypeOK
  <2>2. CASE SinkDone
    <3>1. running \in Steps BY <2>2 DEF SinkDone, TypeOK
    <3>2. drained \in Seq(Steps) BY DEF TypeOK
    <3> QED BY <2>2, <3>1, <3>2, AppendShape DEF SinkDone
  <2>3. CASE ~SinkStart /\ ~SinkDone
    BY <2>3 DEF Quiet, Resolve, InitStep, AllInit, RejectRef, NextStep, AllConnected, NoSink,
       SinkFails, AllDriven, ThreadStart, ThreadEnds, Finish, run, TypeOK
  <2> QED BY <2>1, <2>2, <2>3
<1>6. started' \subseteq Made /\ threads' \subseteq started'
  <2>1. CASE ThreadStart
    <3>0. PICK i \in Steps : \E s \in Range(inputs[i]) \ started :
            started' = started \cup {s} /\ threads' = threads \cup {s}
      BY <2>1 DEF ThreadStart
    <3>1. PICK s \in Range(inputs[i]) : started' = started \cup {s} /\ threads' = threads \cup {s}
      BY <3>0
    <3>2. inputs[i] \in Seq(Made) BY DEF TypeOK
    <3>3. s \in Made BY <3>1, <3>2 DEF Range
    <3> QED BY <3>1, <3>3 DEF TypeOK
  <2>2. CASE ThreadEnds BY <2>2 DEF ThreadEnds, TypeOK
  <2>3. CASE ~ThreadStart /\ ~ThreadEnds
    BY <2>3 DEF Quiet, Resolve, InitStep, AllInit, RejectRef, NextStep, AllConnected, NoSink,
       SinkStart, SinkDone, SinkFails, AllDriven, Finish, edges, TypeOK
  <2> QED BY <2>1, <2>2, <2>3
<1>7. Made' = Made /\ Steps' = Steps /\ \A i \in Steps : Ports(i)' = Ports(i)
  BY <1>1 DEF Made, Steps, Ports
<1> QED BY <1>1, <1>3, <1>4, <1>5, <1>6, <1>7 DEF TypeOK

\* attach_output, the edge, attach_input.
LEMMA TypeAttach ==
  ASSUME TypeOK, PlaceInv, SlotInv, AttachOutput
  PROVE  TypeOK'
<1>0. /\ UNCHANGED <<stage, order, hand, inputs, inited, destroys, running, drained, started,
                     threads>>
      /\ k' \in Nat \ {0} /\ pi' \in Nat \ {0} /\ rc' \in {"ok", "fail"}
      /\ pc' \in {"wrap", "cleanup"}
  BY DEF AttachOutput, Then, Fail, Goto, TypeOK, steps, run, edges
<1>1. Steps' = Steps /\ \A i \in Steps : Ports(i)' = Ports(i) BY <1>0 DEF Steps, Ports
<1>2. CASE UNCHANGED <<slot, attached, streams, released>>
  <2>1. Made' = Made BY <1>2 DEF Made
  <2> QED BY <1>0, <1>1, <1>2, <2>1 DEF TypeOK
<1>3. CASE ~UNCHANGED <<slot, attached, streams, released>>
  <2>1. /\ PortKnown /\ k <= stage.n /\ pi <= Len(stage.from[order[k]])
        /\ streams' = Append(streams, [up |-> Up, port |-> Port])
        /\ released' = Append(released, 0)
        /\ slot' = [slot EXCEPT ![Up][Port] = Len(streams) + 1]
        /\ attached' = [attached EXCEPT ![Up][Port] = TRUE]
    BY <1>3, AttachShape
  <2>2. Up \in Steps /\ Port \in Ports(Up) /\ Port \in Nat BY <2>1, EdgeShape, PortShape
  <2>3. /\ streams' \in Seq([up : Steps, port : Nat]) /\ Len(streams') = Len(streams) + 1
        /\ Made' = Made \cup {Len(streams) + 1}
    <3>1. streams \in Seq([up : Steps, port : Nat]) BY DEF TypeOK
    <3>2. [up |-> Up, port |-> Port] \in [up : Steps, port : Nat] BY <2>2
    <3> QED BY <2>1, <3>1, <3>2, AppendShape DEF Made
  <2>4. released' \in Seq({0, 1}) /\ Len(released') = Len(streams')
    BY <2>1, <2>3, AppendShape DEF TypeOK
  <2>5. /\ DOMAIN slot' = Steps /\ DOMAIN attached' = Steps
        /\ \A i \in Steps : /\ slot'[i] \in [Ports(i) -> Made' \cup {0}]
                            /\ attached'[i] \in [Ports(i) -> BOOLEAN]
    BY <2>1, <2>2, <2>3, SlotTypes
  <2>6. \A i \in Steps : inputs'[i] \in Seq(Made') BY <1>0, <2>3, SeqMonotonic DEF TypeOK
  <2>7. inputs' \in [Steps -> Seq(Made')] BY <1>0, <2>6 DEF TypeOK
  <2> QED BY <1>0, <1>1, <2>3, <2>4, <2>5, <2>7 DEF TypeOK
<1> QED BY <1>2, <1>3

LEMMA ClearTypes ==
  ASSUME TypeOK, PlaceInv, pc \in {"wrap", "input"}, stage' = stage, streams' = streams,
         ClearSlot \/ UNCHANGED <<slot, attached>>
  PROVE  /\ DOMAIN slot' = Steps' /\ DOMAIN attached' = Steps'
         /\ \A i \in Steps' : /\ slot'[i] \in [Ports(i)' -> Made' \cup {0}]
                              /\ attached'[i] \in [Ports(i)' -> BOOLEAN]
<1>1. Steps' = Steps /\ Made' = Made /\ \A i \in Steps : Ports(i)' = Ports(i)
  BY DEF Steps, Made, Ports
<1>2. Up \in Steps /\ Port \in Ports(Up) BY EdgeShape, PortShape DEF PlaceInv
<1>3. CASE ClearSlot BY <1>1, <1>2, <1>3, SlotTypes DEF ClearSlot
<1>4. CASE UNCHANGED <<slot, attached>> BY <1>1, <1>4 DEF TypeOK
<1> QED BY <1>3, <1>4

LEMMA TypeConnect ==
  ASSUME TypeOK, PlaceInv, SlotInv, OwnInv, Wrap \/ AttachInput \/ AttachInputFails
  PROVE  TypeOK'
<1>0. /\ UNCHANGED <<stage, order, streams, inited, destroys, running, drained, started,
                     threads>>
      /\ pc \in {"wrap", "input"} /\ k <= stage.n /\ pi <= Len(stage.from[order[k]]) /\ PortKnown
      /\ ClearSlot \/ UNCHANGED <<slot, attached>>
  BY DEF Wrap, AttachInput, AttachInputFails, PlaceInv, steps, run, edges
<1>1. /\ k' \in Nat \ {0} /\ pi' \in Nat \ {0} /\ rc' \in {"ok", "fail"}
      /\ pc' \in {"output", "wrap", "input", "cleanup"}
  BY DEF Wrap, AttachInput, AttachInputFails, Then, Fail, Goto, TypeOK
<1>2. Steps' = Steps /\ Made' = Made /\ \A i \in Steps : Ports(i)' = Ports(i)
  BY <1>0 DEF Steps, Made, Ports
<1>3. /\ DOMAIN slot' = Steps' /\ DOMAIN attached' = Steps'
      /\ \A i \in Steps' : /\ slot'[i] \in [Ports(i)' -> Made' \cup {0}]
                           /\ attached'[i] \in [Ports(i)' -> BOOLEAN]
  BY <1>0, ClearTypes
<1>4. hand' \in Made \cup {0}
  <2>1. Up \in Steps /\ slot[Up][Port] \in Made \cup {0} BY <1>0, EdgeShape, PortShape
  <2> QED BY <2>1 DEF Wrap, AttachInput, AttachInputFails, TypeOK
<1>5. inputs' \in [Steps -> Seq(Made)]
  <2>1. CASE AttachInput
    <3>1. hand \in Made BY <2>1 DEF AttachInput, SlotInv, InHand, TypeOK
    <3>2. Edge.step \in Steps BY <1>0, EdgeShape
    <3>3. KeptInputs(Edge.step, hand) \in Seq(Made)
      <4>1. inputs[Edge.step] \in Seq(Made) BY <3>2 DEF TypeOK
      <4>2. Append(inputs[Edge.step], hand) \in Seq(Made) /\ <<hand>> \in Seq(Made)
        BY <3>1, <4>1, AppendShape
      <4> QED BY <4>2 DEF KeptInputs
    <3> QED BY <2>1, <3>2, <3>3 DEF AttachInput, TypeOK
  <2>2. CASE Wrap \/ AttachInputFails BY <2>2 DEF Wrap, AttachInputFails, TypeOK
  <2> QED BY <2>1, <2>2
<1>6. released' \in Seq({0, 1}) /\ Len(released') = Len(streams)
  <2>1. CASE AttachInputFails /\ Parallel
    <3>1. hand \in Made /\ Passed(hand)
      BY <2>1 DEF AttachInputFails, SlotInv, InHand, TypeOK, Passed
    <3>2. released[hand] = 0 BY <3>1 DEF OwnInv
    <3> QED BY <2>1, <3>2, ReleaseShape DEF AttachInputFails
  <2>2. CASE ~(AttachInputFails /\ Parallel)
    BY <2>2 DEF Wrap, AttachInput, AttachInputFails, TypeOK
  <2> QED BY <2>1, <2>2
<1> QED BY <1>0, <1>1, <1>2, <1>3, <1>4, <1>5, <1>6 DEF TypeOK

LEMMA TypeCleanup ==
  ASSUME TypeOK, PlaceInv, OwnInv, CleanupSlots \/ DestroyStep
  PROVE  TypeOK'
<1>0. /\ UNCHANGED <<stage, order, streams, rc, attached, hand, inited, running, drained,
                     started, threads>>
      /\ pc' = "destroy" /\ k' \in Nat \ {0} /\ pi' \in Nat \ {0}
  BY DEF CleanupSlots, DestroyStep, Goto, TypeOK, steps, run, edges
<1>1. Steps' = Steps /\ Made' = Made /\ \A i \in Steps : Ports(i)' = Ports(i)
  BY <1>0 DEF Steps, Made, Ports
<1>2. CASE CleanupSlots
  <2>1. /\ Release(InSlots) /\ slot' = [i \in Steps |-> [p \in Ports(i) |-> 0]]
        /\ UNCHANGED <<inputs, destroys>>
    BY <1>2 DEF CleanupSlots, steps
  <2>2. \A s \in Made \cap InSlots : released[s] = 0 BY DEF OwnInv
  <2>3. released' \in Seq({0, 1}) /\ Len(released') = Len(streams)
    BY <2>1, <2>2, ReleaseShape
  <2> QED BY <1>0, <1>1, <2>1, <2>3 DEF TypeOK
<1>3. CASE DestroyStep
  <2>1. slot' = slot BY <1>3 DEF DestroyStep
  <2>2. DestroyTurn \in Steps
    <3>1. k <= stage.n /\ k \in Nat \ {0} /\ stage.n \in Nat
      BY <1>3, StageShape DEF DestroyStep, TypeOK
    <3> QED BY <3>1 DEF DestroyTurn, Steps
  <2>3. CASE Alive(DestroyTurn)
    <3>1. /\ Release(Range(inputs[DestroyTurn]))
          /\ inputs' = [inputs EXCEPT ![DestroyTurn] = <<>>]
          /\ destroys' = [destroys EXCEPT ![DestroyTurn] = @ + 1] /\ destroys[DestroyTurn] = 0
      BY <1>3, <2>3 DEF DestroyStep, Alive
    <3>2. \A s \in Made \cap Range(inputs[DestroyTurn]) : released[s] = 0
      BY <2>2 DEF OwnInv, Owned
    <3>3. released' \in Seq({0, 1}) /\ Len(released') = Len(streams)
      BY <3>1, <3>2, ReleaseShape
    <3>4. <<>> \in Seq(Made) OBVIOUS
    <3>5. inputs' \in [Steps -> Seq(Made)] /\ destroys' \in [Steps -> {0, 1}]
      BY <2>2, <3>1, <3>4 DEF TypeOK
    <3> QED BY <1>0, <1>1, <2>1, <3>3, <3>5 DEF TypeOK
  <2>4. CASE ~Alive(DestroyTurn)
    BY <1>0, <1>1, <1>3, <2>1, <2>4 DEF DestroyStep, TypeOK
  <2> QED BY <2>3, <2>4
<1> QED BY <1>2, <1>3

LEMMA TypeStep ==
  ASSUME TypeOK, PlaceInv, SlotInv, OwnInv, Next
  PROVE  TypeOK'
<1>1. CASE Quiet BY <1>1, TypeQuiet
<1>2. CASE AttachOutput BY <1>2, TypeAttach
<1>3. CASE Wrap \/ AttachInput \/ AttachInputFails BY <1>3, TypeConnect
<1>4. CASE CleanupSlots \/ DestroyStep BY <1>4, TypeCleanup
<1>5. CASE Terminated BY <1>5 DEF Terminated, vars, setup, steps, run, edges, TypeOK, Steps,
                          Made, Ports
<1> QED BY <1>1, <1>2, <1>3, <1>4, <1>5 DEF Next, Quiet

------------------------------------------------------------------------------
(* Where the stage's thread is                                              *)

\* The steps that leave the place of the stage's thread alone.
LEMMA PlaceStep ==
  ASSUME TypeOK, PlaceInv, SlotInv, Next
  PROVE  PlaceInv'
<1>0. /\ stage' = stage /\ order' = order /\ Steps' = Steps
      /\ k \in Nat \ {0} /\ pi \in Nat \ {0} /\ stage.n \in Nat
  BY StageShape, StageKept DEF Steps, TypeOK
<1>1. order \in Orders(stage)' BY <1>0 DEF PlaceInv, Orders
<1>2. CASE Resolve
  <2>1. 1 .. 1 - 1 = {} OBVIOUS
  <2>2. inited = {} /\ running = 0 /\ streams = <<>> /\ rc = "ok"
    BY <1>2 DEF Resolve, PlaceInv, Setup, Connect, Ending
  <2>3. /\ UNCHANGED <<inited, running, streams>>
        /\ \/ pc' = "init" /\ k' = 1 /\ rc' = rc
           \/ pc' = "cleanup"
    BY <1>2 DEF Resolve, Goto, Fail, setup, steps, run
  <2>4. k' = 1 => k' <= stage.n + 1 /\ inited' = 1 .. k' - 1 BY <1>0, <2>1, <2>2, <2>3
  <2> QED BY <1>0, <1>1, <2>2, <2>3, <2>4 DEF PlaceInv, Setup, Connect, Ending
<1>3. CASE InitStep
  <2>1. k \in Steps BY <1>0, <1>3 DEF InitStep, Steps
  <2>2. k + 1 - 1 = k /\ 1 .. k = (1 .. k - 1) \cup {k} BY <1>0
  <2>3. inited = 1 .. k - 1 /\ running = 0 /\ streams = <<>> /\ rc = "ok"
    BY <1>3 DEF InitStep, PlaceInv, Setup, Connect, Ending
  <2>4. /\ streams' = streams /\ running' = running
        /\ \/ inited' = inited \cup {k} /\ pc' = "init" /\ k' = k + 1 /\ rc' = rc
           \/ pc' = "cleanup"
    BY <1>3 DEF InitStep, Goto, Fail, setup, run
  <2>5. inited' = inited \cup {k} /\ k' = k + 1 => inited' = 1 .. k' - 1
    <3>1. k' = k + 1 => k' - 1 = k BY <2>2
    <3> QED BY <2>2, <2>3, <3>1
  <2>6. k + 1 <= stage.n + 1 BY <2>1, <1>0 DEF Steps
  <2> QED BY <1>0, <1>1, <2>3, <2>4, <2>5, <2>6 DEF PlaceInv, Setup, Connect, Ending
<1>4. CASE AllInit
  <2>1. inited = Steps /\ 1 <= stage.n + 1 BY <1>0, <1>4 DEF AllInit, PlaceInv, Steps
  <2>2. \A i \in Steps : Len(stage.from[i]) \in Nat BY StageShape
  <2>3. 1 <= stage.n => order[1] \in Steps
    <3>1. order \in [Steps -> Steps] BY DEF TypeOK
    <3>2. 1 <= stage.n => 1 \in Steps BY <1>0 DEF Steps
    <3> QED BY <3>1, <3>2
  <2> QED BY <1>0, <1>1, <1>4, <2>1, <2>2, <2>3 DEF AllInit, Goto, setup, steps, run, PlaceInv,
             Setup, Connect, Ending
<1>5. CASE RejectRef
  BY <1>0, <1>1, <1>5 DEF RejectRef, HasInput, Connecting, Fail, Goto, setup, steps, run, PlaceInv,
     Setup, Connect, Ending
<1>6. CASE AttachOutput
  <2>1. pc = "output" /\ UNCHANGED <<inited, running>> BY <1>6
    DEF AttachOutput, HasInput, Connecting, steps, run
  <2>2. CASE pc' = "cleanup"
    BY <1>0, <1>1, <2>1, <2>2, <1>6 DEF PlaceInv, Setup, Connect, Ending
  <2>3. CASE pc' # "cleanup"
    <3>1. /\ pc' = "wrap" /\ UNCHANGED <<k, pi, rc>>
          /\ PortKnown /\ k <= stage.n /\ pi <= Len(stage.from[order[k]])
      BY <1>6, <2>3, AttachShape
    <3>2. PortKnown' BY <1>0, <3>1 DEF PortKnown, Port, Up, Edge, Ports
    <3> QED BY <1>0, <1>1, <2>1, <3>1, <3>2 DEF PlaceInv, Setup, Connect, Ending
  <2> QED BY <2>2, <2>3
<1>7. CASE Wrap
  <2>1. /\ pc = "wrap" /\ UNCHANGED <<inited, running, streams>>
        /\ \/ pc' = "input" /\ UNCHANGED <<k, pi, rc>>
           \/ pc' = "cleanup"
    BY <1>7 DEF Wrap, Then, Fail, Goto, steps, run
  <2>2. CASE pc' = "cleanup" BY <1>0, <1>1, <2>1, <2>2 DEF PlaceInv, Setup, Connect, Ending
  <2>3. CASE pc' = "input" /\ UNCHANGED <<k, pi, rc>>
    <3>1. PortKnown' BY <1>0, <2>1, <2>3 DEF PlaceInv, PortKnown, Port, Up, Edge, Ports
    <3> QED BY <1>0, <1>1, <2>1, <2>3, <3>1 DEF PlaceInv, Setup, Connect, Ending
  <2> QED BY <2>1, <2>2, <2>3
<1>8. CASE AttachInput
  <2>1. /\ pc = "input" /\ UNCHANGED <<inited, running, streams, k, rc>>
        /\ pc' = "output" /\ pi' = pi + 1
    BY <1>8 DEF AttachInput, steps, run
  <2>2. Len(stage.from[order[k]]) \in Nat BY <2>1, StageShape, EdgeShape DEF PlaceInv
  <2> QED BY <1>0, <1>1, <2>1, <2>2 DEF PlaceInv, Setup, Connect, Ending
<1>9. CASE AttachInputFails
  BY <1>0, <1>1, <1>9 DEF AttachInputFails, Fail, Goto, steps, run, PlaceInv, Setup, Connect, Ending
<1>10. CASE NextStep
  <2>1. /\ pc = "output" /\ k <= stage.n /\ pc' = "output" /\ k' = k + 1 /\ pi' = 1
        /\ UNCHANGED <<inited, running, streams, rc>>
    BY <1>10 DEF NextStep, Connecting, Goto, setup, steps, run
  <2>2. k' <= stage.n => Len(stage.from[order[k']]) \in Nat
    BY <1>0, <2>1, StageShape DEF TypeOK, Steps
  <2> QED BY <1>0, <1>1, <2>1, <2>2 DEF PlaceInv, Setup, Connect, Ending
<1>11. CASE AllConnected
  BY <1>0, <1>1, <1>11 DEF AllConnected, Goto, setup, steps, run, PlaceInv, Setup, Connect, Ending
<1>12. CASE NoSink
  <2>1. running = 0 BY <1>12 DEF NoSink, PlaceInv
  <2> QED BY <1>0, <1>1, <1>12, <2>1 DEF NoSink, Goto, setup, steps, run, PlaceInv, Setup, Connect,
             Ending
<1>13. CASE SinkStart
  BY <1>0, <1>1, <1>13 DEF SinkStart, IsSink, setup, steps, PlaceInv, Setup, Connect, Ending
<1>14. CASE SinkDone
  BY <1>0, <1>1, <1>14 DEF SinkDone, Goto, setup, steps, PlaceInv, Setup, Connect, Ending
<1>15. CASE SinkFails
  BY <1>0, <1>1, <1>15 DEF SinkFails, AfterSinkFailure, Fail, Goto, setup, steps, PlaceInv, Setup,
     Connect, Ending
<1>16. CASE AllDriven
  <2>1. running = 0 BY <1>0, <1>16 DEF AllDriven, PlaceInv
  <2> QED BY <1>0, <1>1, <1>16, <2>1 DEF AllDriven, Goto, setup, steps, run, PlaceInv, Setup,
     Connect, Ending
<1>17. CASE CleanupSlots
  BY <1>0, <1>1, <1>17 DEF CleanupSlots, Goto, steps, run, PlaceInv, Setup, Connect, Ending
<1>18. CASE DestroyStep
  BY <1>0, <1>1, <1>18 DEF DestroyStep, Goto, run, PlaceInv, Setup, Connect, Ending
<1>19. CASE Finish
  BY <1>0, <1>1, <1>19 DEF Finish, Goto, setup, steps, run, PlaceInv, Setup, Connect, Ending
<1>20. CASE ThreadStart \/ ThreadEnds \/ Terminated
  <2>1. UNCHANGED <<pc, k, pi, rc, inited, running, streams>>
    BY <1>20 DEF ThreadStart, ThreadEnds, Terminated, vars, setup, steps, run
  <2>2. PortKnown' = PortKnown BY <1>0, <2>1 DEF PortKnown, Port, Up, Edge, Ports
  <2> QED BY <1>0, <1>1, <2>1, <2>2 DEF PlaceInv, IsSink
<1> QED BY <1>2, <1>3, <1>4, <1>5, <1>6, <1>7, <1>8, <1>9, <1>10, <1>11, <1>12, <1>13, <1>14,
           <1>15, <1>16, <1>17, <1>18, <1>19, <1>20 DEF Next

------------------------------------------------------------------------------
(* The slots                                                                *)

\* What a step that leaves them alone keeps.
LEMMA SlotFrame ==
  ASSUME TypeOK, MadeAtPorts, stage' = stage, order' = order
  PROVE  /\ streams' = streams => MadeAtPorts'
         /\ Free /\ attached' = attached => Free'
         /\ Zeroed /\ slot' = slot => Zeroed'
         /\ UNCHANGED <<k, pi>> => Up' = Up /\ Port' = Port
         /\ UNCHANGED <<k, pi>> => PortKnown' = PortKnown
         /\ UNCHANGED <<k, pi, attached>> => OnlyCurrent' = OnlyCurrent
         /\ UNCHANGED <<k, pi, attached, slot, streams>> => InSlot' = InSlot
         /\ UNCHANGED <<k, pi, hand, streams>> => InHand' = InHand
         /\ Parallel' = Parallel /\ Steps' = Steps
<1>1. streams' = streams => MadeAtPorts' BY DEF MadeAtPorts, Made, Ports
<1>2. Free /\ attached' = attached => Free' BY DEF Free, Steps, Ports
<1>3. Zeroed /\ slot' = slot => Zeroed' BY DEF Zeroed, Steps, Ports
<1>4. UNCHANGED <<k, pi>> => Up' = Up /\ Port' = Port BY DEF Up, Port, Edge
<1>5. UNCHANGED <<k, pi>> => PortKnown' = PortKnown BY <1>4 DEF PortKnown, Ports
<1>6. UNCHANGED <<k, pi, attached>> => OnlyCurrent' = OnlyCurrent
  BY <1>4 DEF OnlyCurrent, Steps, Ports
<1>7. UNCHANGED <<k, pi, attached, slot, streams>> => InSlot' = InSlot BY <1>4 DEF InSlot
<1>8. UNCHANGED <<k, pi, hand, streams>> => InHand' = InHand BY <1>4 DEF InHand
<1>9. Parallel' = Parallel /\ Steps' = Steps BY DEF Parallel, Steps
<1> QED BY <1>1, <1>2, <1>3, <1>4, <1>5, <1>6, <1>7, <1>8, <1>9

LEMMA ClearedSlot ==
  ASSUME TypeOK, PlaceInv, SlotInv, pc \in {"wrap", "input"}, stage' = stage, ClearSlot
  PROVE  Free'
<1>1. Up \in Steps /\ Port \in Ports(Up) BY EdgeShape, PortShape DEF PlaceInv
<1>2. \A i \in Steps : \A p \in Ports(i) : attached[i][p] => i = Up /\ p = Port
  BY DEF SlotInv, OnlyCurrent
<1>3. attached' = [attached EXCEPT ![Up][Port] = FALSE] BY DEF ClearSlot
<1>4. ASSUME NEW i \in Steps, NEW p \in Ports(i) PROVE ~attached'[i][p]
  <2>1. attached'[i][p] = IF i = Up /\ p = Port THEN FALSE ELSE attached[i][p]
    BY <1>1, <1>3, SlotTypes, Zenon
  <2> QED BY <1>2, <2>1
<1> QED BY <1>4 DEF Free, Steps, Ports

LEMMA NewSlot ==
  ASSUME TypeOK, PlaceInv, SlotInv, AttachOutput, stage' = stage, order' = order,
         pc' # "cleanup"
  PROVE  /\ pc' = "wrap" /\ OnlyCurrent' /\ InSlot' /\ MadeAtPorts'
         /\ slot'[Up][Port] = Len(streams) + 1
         /\ Made' = Made \cup {Len(streams) + 1} /\ Len(streams) + 1 \notin Made
         /\ \A s \in Made : streams'[s] = streams[s] /\ released'[s] = released[s]
         /\ streams'[Len(streams) + 1] = [up |-> Up, port |-> Port]
         /\ released'[Len(streams) + 1] = 0 /\ Up' = Up /\ Port' = Port
         /\ Up \in Steps /\ Port \in Ports(Up)
<1>1. /\ pc' = "wrap" /\ UNCHANGED <<k, pi, rc>> /\ pc = "output"
      /\ PortKnown /\ k <= stage.n /\ pi <= Len(stage.from[order[k]])
      /\ streams' = Append(streams, [up |-> Up, port |-> Port])
      /\ released' = Append(released, 0)
      /\ slot' = [slot EXCEPT ![Up][Port] = Len(streams) + 1]
      /\ attached' = [attached EXCEPT ![Up][Port] = TRUE]
  BY AttachShape DEF AttachOutput, HasInput, Connecting
<1>2. Up \in Steps /\ Port \in Ports(Up) /\ Port \in Nat BY <1>1, EdgeShape, PortShape
<1>3. /\ Up' = Up /\ Port' = Port BY <1>1, SlotFrame DEF SlotInv
<1>4. /\ \A s \in Made : streams'[s] = streams[s]
      /\ streams'[Len(streams) + 1] = [up |-> Up, port |-> Port]
      /\ Made' = Made \cup {Len(streams) + 1} /\ Len(streams) + 1 # 0
      /\ Made = 1 .. Len(streams) /\ Len(streams) \in Nat
  <2>1. streams \in Seq([up : Steps, port : Nat]) BY DEF TypeOK
  <2>2. [up |-> Up, port |-> Port] \in [up : Steps, port : Nat] BY <1>2
  <2> QED BY <1>1, <2>1, <2>2, AppendShape DEF Made
<1>5. /\ released'[Len(streams) + 1] = 0
      /\ \A s \in Made : released'[s] = released[s]
  <2>1. released \in Seq({0, 1}) /\ Len(released) = Len(streams) BY DEF TypeOK
  <2> QED BY <1>1, <1>4, <2>1, AppendShape
<1>6. OnlyCurrent'
  <2>1. ASSUME NEW i \in Steps, NEW p \in Ports(i), attached'[i][p] PROVE i = Up /\ p = Port
    <3>1. ~attached[i][p] BY <1>1, <2>1 DEF SlotInv, Free
    <3>2. attached'[i][p] = IF i = Up /\ p = Port THEN TRUE ELSE attached[i][p]
      BY <1>1, <1>2, SlotTypes, Zenon
    <3> QED BY <2>1, <3>1, <3>2
  <2> QED BY <1>3, <2>1 DEF OnlyCurrent, Steps, Ports
<1>7. slot'[Up][Port] = Len(streams) + 1 /\ attached'[Up][Port]
  <2>1. slot'[Up][Port] = Len(streams) + 1
    <3>1. slot[Up] \in [Ports(Up) -> Made \cup {0}] /\ DOMAIN slot = Steps BY <1>2 DEF TypeOK
    <3> QED BY <1>1, <1>2, <3>1
  <2>2. attached'[Up][Port] = TRUE BY <1>1, <1>2, SlotTypes, Zenon
  <2> QED BY <2>1, <2>2
<1>8. InSlot' BY <1>3, <1>4, <1>7 DEF InSlot
<1>9. MadeAtPorts'
  <2>1. ASSUME NEW s \in Made' PROVE streams'[s].port \in Ports(streams'[s].up)
    BY <1>2, <1>4, <2>1 DEF SlotInv, MadeAtPorts
  <2> QED BY <2>1 DEF MadeAtPorts, Ports
<1>10. Len(streams) + 1 \notin Made BY <1>4
<1> QED BY <1>1, <1>2, <1>3, <1>4, <1>5, <1>6, <1>7, <1>8, <1>9, <1>10

LEMMA SlotStep ==
  ASSUME TypeOK, PlaceInv, SlotInv, Next
  PROVE  SlotInv'
<1>0. stage' = stage /\ order' = order /\ MadeAtPorts BY StageKept DEF SlotInv
<1>1. CASE Quiet
  <2>1. UNCHANGED <<streams, slot, attached, hand>> BY <1>1, QuietFrame
  <2>2. \/ /\ pc \in Setup \cup {"output", "drive"}
           /\ pc' \in Setup \cup {"output", "drive", "cleanup"}
        \/ pc = "destroy" /\ pc' = "done"
        \/ UNCHANGED <<pc, k, pi>>
    BY <1>1 DEF Quiet, Resolve, InitStep, AllInit, RejectRef, NextStep, AllConnected, NoSink,
       SinkStart, SinkDone, SinkFails, AllDriven, ThreadStart, ThreadEnds, Finish, Goto, Fail,
       AfterSinkFailure, HasInput, Connecting, Setup, PlaceInv
  <2>3. CASE UNCHANGED <<pc, k, pi>>
    BY <1>0, <2>1, <2>3, SlotFrame DEF SlotInv
  <2> QED BY <1>0, <2>1, <2>2, <2>3, SlotFrame DEF SlotInv, Setup
<1>2. CASE AttachOutput
  <2>1. pc = "output" /\ hand' = hand /\ hand = 0
    BY <1>2 DEF AttachOutput, HasInput, Connecting, SlotInv
  <2>2. CASE pc' = "cleanup"
    <3>1. streams' = streams BY <1>2, <2>2, AttachShape
    <3> QED BY <1>0, <2>1, <2>2, <3>1, SlotFrame DEF SlotInv, Setup
  <2>3. CASE pc' # "cleanup" BY <1>0, <1>2, <2>1, <2>3, NewSlot DEF SlotInv, Setup
  <2> QED BY <2>2, <2>3
<1>3. CASE Wrap
  <2>1. pc = "wrap" /\ streams' = streams /\ MadeAtPorts' BY <1>0, <1>3, SlotFrame DEF Wrap
  <2>2. CASE hand' = slot[Up][Port] /\ pc' = "input"
    <3>1. /\ UNCHANGED <<k, pi>>
          /\ IF Parallel THEN ClearSlot ELSE UNCHANGED <<slot, attached>>
      BY <1>3, <2>2 DEF Wrap, Then, Fail, Goto
    <3>2. Up' = Up /\ Port' = Port /\ Parallel' = Parallel BY <1>0, <3>1, SlotFrame
    <3>3. InSlot BY <2>1 DEF SlotInv
    <3>4. InHand' BY <2>1, <2>2, <3>2, <3>3 DEF InSlot, InHand
    <3>5. CASE Parallel
      <4>1. Free' BY <1>0, <2>1, <3>1, <3>5, ClearedSlot
      <4>2. OnlyCurrent' BY <4>1 DEF Free, OnlyCurrent
      <4> QED BY <2>1, <2>2, <3>2, <3>4, <3>5, <4>1, <4>2 DEF SlotInv, Setup
    <3>6. CASE ~Parallel
      <4>1. InSlot' /\ OnlyCurrent' BY <1>0, <2>1, <3>1, <3>6, SlotFrame DEF SlotInv
      <4>2. slot'[Up'][Port'] = hand' BY <2>2, <3>1, <3>2, <3>6
      <4> QED BY <2>1, <2>2, <3>2, <3>4, <3>6, <4>1, <4>2 DEF SlotInv, Setup
    <3> QED BY <3>5, <3>6
  <2>3. CASE pc' = "cleanup" /\ hand' = hand BY <2>1, <2>3 DEF SlotInv, Setup
  <2> QED BY <1>3, <2>2, <2>3 DEF Wrap, Then, Fail, Goto
<1>4. CASE AttachInput
  <2>1. /\ pc = "input" /\ pc' = "output" /\ hand' = 0 /\ streams' = streams
        /\ IF Parallel THEN UNCHANGED <<slot, attached>> ELSE ClearSlot
    BY <1>4 DEF AttachInput
  <2>2. Free' BY <1>0, <2>1, ClearedSlot, SlotFrame DEF SlotInv
  <2> QED BY <1>0, <2>1, <2>2, SlotFrame DEF SlotInv, Setup
<1>5. CASE AttachInputFails
  BY <1>0, <1>5, SlotFrame DEF AttachInputFails, Fail, Goto, SlotInv, Setup
<1>6. CASE CleanupSlots
  <2>1. /\ UNCHANGED <<streams, hand>> /\ pc' = "destroy" /\ pc = "cleanup"
        /\ slot' = [i \in Steps |-> [p \in Ports(i) |-> 0]]
    BY <1>6 DEF CleanupSlots, Goto
  <2>2. Zeroed' BY <1>0, <2>1 DEF Zeroed, Steps, Ports
  <2> QED BY <1>0, <2>1, <2>2, SlotFrame DEF SlotInv, Setup
<1>7. CASE DestroyStep
  BY <1>0, <1>7, SlotFrame DEF DestroyStep, Goto, SlotInv, Setup
<1>8. CASE Terminated
  <2>1. UNCHANGED <<pc, k, pi, streams, slot, attached, hand>>
    BY <1>8 DEF Terminated, vars, setup
  <2> QED BY <1>0, <2>1, SlotFrame DEF SlotInv
<1> QED BY <1>1, <1>2, <1>3, <1>4, <1>5, <1>6, <1>7, <1>8 DEF Next, Quiet

------------------------------------------------------------------------------
(* Who owns a stream                                                        *)

\* The streams in the slots, by the place of the stage's thread.
SlotsKnown ==
  /\ pc \in Setup \cup {"output", "drive", "destroy", "done"} => InSlots = {}
  /\ pc = "wrap" => InSlots = {slot[Up][Port]} /\ slot[Up][Port] \in Made
  /\ pc = "input" => InSlots = (IF Parallel THEN {} ELSE {hand}) /\ hand \in Made

LEMMA InSlotsShape == TypeOK /\ PlaceInv /\ SlotInv => SlotsKnown
<1> SUFFICES ASSUME TypeOK, PlaceInv, SlotInv PROVE SlotsKnown OBVIOUS
<1>1. \A s \in Made : /\ streams[s].up \in Steps /\ streams[s].port \in Ports(streams[s].up)
                      /\ s # 0
  <2>1. \A s \in Made : streams[s] \in [up : Steps, port : Nat] /\ s # 0
    <3>1. streams \in Seq([up : Steps, port : Nat]) BY DEF TypeOK
    <3>2. Made = 1 .. Len(streams) /\ Len(streams) \in Nat BY <3>1 DEF Made
    <3>3. \A s \in Made : streams[s] \in [up : Steps, port : Nat] BY <3>1, <3>2, ElementOfSeq
    <3> QED BY <3>2, <3>3
  <2> QED BY <2>1 DEF SlotInv, MadeAtPorts
<1>2. Free => InSlots = {} BY <1>1 DEF Free, InSlots
<1>3. Zeroed => InSlots = {} BY <1>1 DEF Zeroed, InSlots
<1>4. pc \in {"wrap", "input"} /\ InSlot => InSlots = {slot[Up][Port]} /\ slot[Up][Port] \in Made
  <2> SUFFICES ASSUME pc \in {"wrap", "input"}, InSlot
               PROVE  InSlots = {slot[Up][Port]} /\ slot[Up][Port] \in Made
    OBVIOUS
  <2>1. Up \in Steps /\ slot[Up][Port] \in Made BY EdgeShape, PortShape DEF PlaceInv, InSlot
  <2>2. slot[Up][Port] \in InSlots BY <2>1 DEF InSlot, InSlots
  <2>3. ASSUME NEW s \in InSlots PROVE s = slot[Up][Port]
    <3>1. /\ s \in Made /\ attached[streams[s].up][streams[s].port]
          /\ slot[streams[s].up][streams[s].port] = s
      BY <2>3 DEF InSlots
    <3>2. streams[s].up = Up /\ streams[s].port = Port
      BY <1>1, <3>1 DEF SlotInv, OnlyCurrent
    <3> QED BY <3>1, <3>2
  <2> QED BY <2>1, <2>2, <2>3
<1>5. pc = "input" => hand \in Made BY DEF SlotInv, InHand, TypeOK
<1> QED BY <1>2, <1>3, <1>4, <1>5 DEF SlotInv, SlotsKnown

LEMMA InSlotsNext == TypeOK' /\ PlaceInv' /\ SlotInv' => SlotsKnown'
BY InSlotsShape, PTL

\* A component that keeps one input gets only one (SingleInputs): each keeps
\* all that it was given.
LEMMA AttachKeeps ==
  ASSUME SingleInputs, TypeOK, PlaceInv, SlotInv, WiringInv, AttachInput
  PROVE  /\ Edge.step \in Steps /\ hand \in Made /\ inputs[Edge.step] \in Seq(Made)
         /\ Len(inputs[Edge.step]) = pi - 1 /\ Edge.step = order[k]
         /\ inputs' = [inputs EXCEPT ![Edge.step] = Append(inputs[Edge.step], hand)]
<1>1. /\ pc = "input" /\ k <= stage.n /\ pi <= Len(stage.from[order[k]])
      /\ inputs' = [inputs EXCEPT ![Edge.step] = KeptInputs(Edge.step, hand)]
  BY DEF AttachInput, PlaceInv
<1>2. Edge.step \in Steps /\ Edge.step = order[k] /\ k \in Steps BY <1>1, EdgeShape
<1>3. hand \in Made /\ inputs[Edge.step] \in Seq(Made)
  BY <1>1, <1>2 DEF SlotInv, InHand, TypeOK
<1>4. Len(inputs[Edge.step]) = pi - 1
  BY <1>1, <1>2 DEF WiringInv, Connect, WiredSoFar, Wired, WiredIn
<1>5. ASSUME stage.accepts[Edge.step] = "one"
      PROVE  <<hand>> = Append(inputs[Edge.step], hand)
  <2>1. Len(stage.from[order[k]]) <= 1 BY <1>2, <1>5 DEF SingleInputs, TypeOK, Steps
  <2>2. Len(stage.from[order[k]]) \in Nat BY <1>2, StageShape
  <2>3. Len(inputs[Edge.step]) = 0 BY <1>1, <1>4, <2>1, <2>2 DEF TypeOK
  <2>4. inputs[Edge.step] = <<>> BY <1>3, <2>3, EmptySeq
  <2> QED BY <2>4
<1> QED BY <1>1, <1>2, <1>3, <1>4, <1>5 DEF KeptInputs

LEMMA OwnQuiet ==
  ASSUME OwnInv, UNCHANGED <<stage, streams, slot, attached, hand, inputs, released>>
  PROVE  OwnInv'
BY DEF OwnInv, Owned, Passed, InSlots, Made, Steps, Parallel

\* The owners are all that OwnInv speaks of.
LEMMA OwnFrame ==
  ASSUME OwnInv, UNCHANGED <<stage, streams, inputs, released>>,
         \A s \in Made : (s \in InSlots \/ Passed(s)) = (s \in InSlots \/ Passed(s))',
         \A s \in Made : Passed(s)' => s \notin InSlots'
  PROVE  OwnInv'
<1>1. Steps' = Steps /\ Made' = Made /\ \A s : Owned(s)' = Owned(s) BY DEF Steps, Made, Owned
<1>2. \A s \in Made :
        /\ released'[s] = 0 <=> Owned(s)' \/ (s \in InSlots)' \/ Passed(s)'
        /\ Owned(s)' => ~(s \in InSlots)' /\ ~Passed(s)'
        /\ Passed(s)' => ~(s \in InSlots)'
  BY <1>1 DEF OwnInv
<1> QED BY <1>1, <1>2 DEF OwnInv

LEMMA MadeShape ==
  ASSUME TypeOK
  PROVE  /\ Made = 1 .. Len(streams) /\ Len(streams) \in Nat /\ 0 \notin Made
         /\ \A i \in Steps : inputs[i] \in Seq(Made)
         /\ \A i \in Steps : Range(inputs[i]) \subseteq Made
         /\ \A s : Owned(s) => s \in Made
<1>1. Made = 1 .. Len(streams) /\ Len(streams) \in Nat BY DEF TypeOK, Made
<1>2. \A i \in Steps : inputs[i] \in Seq(Made) BY DEF TypeOK
<1>3. \A i \in Steps : Range(inputs[i]) \subseteq Made BY <1>2 DEF Range
<1> QED BY <1>1, <1>2, <1>3 DEF Owned

\* attach_output: the new stream is in the slot of its port.
LEMMA OwnAttach ==
  ASSUME TypeOK, PlaceInv, SlotInv, OwnInv, TypeOK', PlaceInv', SlotInv', AttachOutput
  PROVE  OwnInv'
<1>1. /\ stage' = stage /\ order' = order /\ inputs' = inputs /\ hand' = hand /\ pc = "output"
      /\ hand = 0
  BY DEF AttachOutput, HasInput, Connecting, SlotInv
<1>2. CASE pc' = "cleanup"
  <2>1. UNCHANGED <<slot, attached, streams, released>> BY <1>2, AttachShape
  <2> QED BY <1>1, <2>1, OwnQuiet
<1>3. CASE pc' # "cleanup"
  <2> DEFINE n == Len(streams) + 1
  <2>1. /\ pc' = "wrap" /\ slot'[Up][Port] = n /\ Made' = Made \cup {n} /\ n \notin Made
        /\ \A s \in Made : released'[s] = released[s]
        /\ released'[n] = 0 /\ Up' = Up /\ Port' = Port
    BY <1>1, <1>3, NewSlot
  <2>2. InSlots = {} /\ InSlots' = {n}
    BY <1>1, <2>1, InSlotsShape, InSlotsNext DEF SlotsKnown
  <2>3. \A s : Owned(s)' = Owned(s) /\ (s \in Made' => ~Passed(s) /\ ~Passed(s)')
    BY <1>1, <2>1, MadeShape DEF Owned, Steps, Passed
  <2>4. ~Owned(n) BY <2>1, MadeShape
  <2>5. \A s \in Made' :
          /\ released'[s] = 0 <=> Owned(s)' \/ (s \in InSlots)' \/ Passed(s)'
          /\ Owned(s)' => ~(s \in InSlots)' /\ ~Passed(s)'
          /\ Passed(s)' => ~(s \in InSlots)'
    BY <2>1, <2>2, <2>3, <2>4 DEF OwnInv
  <2>6. Steps' = Steps BY <1>1 DEF Steps
  <2> QED BY <1>1, <2>5, <2>6 DEF OwnInv
<1> QED BY <1>2, <1>3

\* The edge takes the stream out of the slot.
LEMMA OwnWrap ==
  ASSUME TypeOK, PlaceInv, SlotInv, OwnInv, TypeOK', PlaceInv', SlotInv', Wrap
  PROVE  OwnInv'
<1>1. /\ UNCHANGED <<stage, order, streams, inputs, released>> /\ pc = "wrap" /\ hand = 0
  BY DEF Wrap, SlotInv
<1>2. CASE pc' = "cleanup"
  <2>1. UNCHANGED <<slot, attached, hand>> BY <1>2 DEF Wrap, Then
  <2> QED BY <1>1, <2>1, OwnQuiet
<1>3. CASE pc' # "cleanup"
  <2>1. pc' = "input" /\ hand' = slot[Up][Port] BY <1>3 DEF Wrap, Then, Fail, Goto
  <2>2. Parallel' = Parallel BY <1>1 DEF Parallel
  <2>3. InSlots = {hand'} /\ InSlots' = (IF Parallel THEN {} ELSE {hand'})
    BY <1>1, <2>1, <2>2, InSlotsShape, InSlotsNext DEF SlotsKnown
  <2>4. \A s \in Made : ~Passed(s) /\ (Passed(s)' <=> (hand' = s /\ Parallel))
    BY <1>1, <2>2, MadeShape DEF Passed
  <2>5. \A s \in Made : (s \in InSlots \/ Passed(s)) = (s \in InSlots \/ Passed(s))'
    BY <2>3, <2>4, StageShape
  <2>6. \A s \in Made : Passed(s)' => s \notin InSlots' BY <2>3, <2>4
  <2> QED BY <1>1, <2>5, <2>6, OwnFrame
<1> QED BY <1>2, <1>3

\* The step keeps the stream it is passed.
LEMMA OwnAttachInput ==
  ASSUME SingleInputs, TypeOK, PlaceInv, SlotInv, WiringInv, OwnInv,
         TypeOK', PlaceInv', SlotInv', AttachInput
  PROVE  OwnInv'
<1>1. /\ UNCHANGED <<stage, order, streams, released>> /\ pc = "input" /\ pc' = "output"
      /\ hand' = 0
  BY DEF AttachInput
<1> DEFINE i0 == Edge.step
           n  == Len(inputs[i0]) + 1
<1>2. /\ i0 \in Steps /\ hand \in Made /\ inputs[i0] \in Seq(Made)
      /\ inputs' = [inputs EXCEPT ![i0] = Append(inputs[i0], hand)]
  BY AttachKeeps
<1>3. Steps' = Steps /\ Made' = Made BY <1>1 DEF Steps, Made
<1>4. /\ \A i \in Steps : DOMAIN inputs'[i] = IF i = i0 THEN DOMAIN inputs[i] \cup {n}
                                                      ELSE DOMAIN inputs[i]
      /\ \A i \in Steps : \A a \in DOMAIN inputs[i] : inputs'[i][a] = inputs[i][a]
      /\ inputs'[i0][n] = hand /\ n \notin DOMAIN inputs[i0]
  <2>1. /\ \A i \in Steps : i # i0 => inputs'[i] = inputs[i]
        /\ inputs'[i0] = Append(inputs[i0], hand)
    BY <1>2 DEF TypeOK
  <2>2. /\ DOMAIN inputs'[i0] = DOMAIN inputs[i0] \cup {n} /\ inputs'[i0][n] = hand
        /\ \A a \in DOMAIN inputs[i0] : inputs'[i0][a] = inputs[i0][a]
        /\ n \notin DOMAIN inputs[i0]
    BY <1>2, <2>1, AppendShape
  <2> QED BY <2>1, <2>2
<1>5. InSlots = (IF Parallel THEN {} ELSE {hand}) /\ InSlots' = {}
  BY <1>1, InSlotsShape, InSlotsNext DEF SlotsKnown
<1>6. \A s \in Made : s \in InSlots \/ Passed(s) <=> s = hand BY <1>5 DEF Passed
<1>7. ~Owned(hand) BY <1>2, <1>6 DEF OwnInv
<1>a. ASSUME NEW i \in Steps, NEW a \in DOMAIN inputs'[i], a \notin DOMAIN inputs[i]
      PROVE  i = i0 /\ a = n /\ inputs'[i][a] = hand
  <2>1. i = i0 BY <1>4, <1>a
  <2>2. a = n BY <1>4, <1>a, <2>1
  <2> QED BY <1>4, <2>1, <2>2
<1>8. \A s \in Made : Owned(s)' <=> Owned(s) \/ s = hand
  <2>1. ASSUME NEW s \in Made, Owned(s)' PROVE Owned(s) \/ s = hand
    <3>1. PICK i \in Steps : s \in Range(inputs'[i]) BY <1>3, <2>1 DEF Owned
    <3>2. PICK a \in DOMAIN inputs'[i] : s = inputs'[i][a] BY <3>1 DEF Range
    <3>3. CASE a \in DOMAIN inputs[i] BY <1>4, <3>2, <3>3 DEF Owned, Range
    <3>4. CASE a \notin DOMAIN inputs[i] BY <1>a, <3>2, <3>4
    <3> QED BY <3>3, <3>4
  <2>2. ASSUME NEW s \in Made, Owned(s) PROVE Owned(s)'
    <3>1. PICK i \in Steps : s \in Range(inputs[i]) BY <2>2 DEF Owned
    <3>2. PICK a \in DOMAIN inputs[i] : s = inputs[i][a] BY <3>1 DEF Range
    <3>3. a \in DOMAIN inputs'[i] /\ inputs'[i][a] = s BY <1>4, <3>2
    <3> QED BY <1>3, <3>3 DEF Owned, Range
  <2>3. ASSUME NEW s \in Made, s = hand PROVE Owned(s)'
    <3>1. n \in DOMAIN inputs'[i0] /\ inputs'[i0][n] = s BY <1>2, <1>4, <2>3
    <3> QED BY <1>2, <1>3, <3>1 DEF Owned, Range
  <2> QED BY <2>1, <2>2, <2>3
<1>9. \A s \in Made : ~Passed(s)' BY <1>1, MadeShape DEF Passed
<1>10. \A s \in Made :
         /\ released'[s] = 0 <=> Owned(s)' \/ (s \in InSlots)' \/ Passed(s)'
         /\ Owned(s)' => ~(s \in InSlots)' /\ ~Passed(s)'
         /\ Passed(s)' => ~(s \in InSlots)'
  BY <1>1, <1>5, <1>6, <1>8, <1>9 DEF OwnInv
<1>11. ASSUME NEW i \in Steps, NEW j \in Steps, NEW a \in DOMAIN inputs'[i],
              NEW b \in DOMAIN inputs'[j], inputs'[i][a] = inputs'[j][b]
       PROVE  i = j /\ a = b
  <2>1. CASE a \in DOMAIN inputs[i] /\ b \in DOMAIN inputs[j]
    BY <1>4, <1>11, <2>1 DEF OwnInv
  <2>2. CASE a \notin DOMAIN inputs[i] /\ b \in DOMAIN inputs[j]
    <3>1. inputs[j][b] = hand BY <1>a, <1>4, <1>11, <2>2
    <3> QED BY <1>7, <2>2, <3>1 DEF Owned, Range
  <2>3. CASE a \in DOMAIN inputs[i] /\ b \notin DOMAIN inputs[j]
    <3>1. inputs[i][a] = hand BY <1>a, <1>4, <1>11, <2>3
    <3> QED BY <1>7, <2>3, <3>1 DEF Owned, Range
  <2>4. CASE a \notin DOMAIN inputs[i] /\ b \notin DOMAIN inputs[j]
    BY <1>a, <2>4
  <2> QED BY <2>1, <2>2, <2>3, <2>4
<1> QED BY <1>3, <1>10, <1>11 DEF OwnInv

\* attach_input fails: an edge is released on the spot.
LEMMA OwnAttachFails ==
  ASSUME TypeOK, PlaceInv, SlotInv, OwnInv, AttachInputFails
  PROVE  OwnInv'
<1>1. /\ UNCHANGED <<stage, order, streams, slot, attached, inputs>> /\ pc = "input"
      /\ hand' = 0 /\ IF Parallel THEN Release({hand}) ELSE UNCHANGED released
  BY DEF AttachInputFails
<1>2. InSlots = (IF Parallel THEN {} ELSE {hand}) /\ hand \in Made
  BY <1>1, InSlotsShape DEF SlotsKnown
<1>3. /\ Steps' = Steps /\ Made' = Made /\ InSlots' = InSlots /\ \A s : Owned(s)' = Owned(s)
  BY <1>1 DEF Steps, Made, InSlots, Owned
<1>4. \A s \in Made : ~Passed(s)' BY <1>1, MadeShape DEF Passed
<1>5. \A s \in Made : released'[s] = IF Parallel /\ s = hand THEN 1 ELSE released[s]
  <2>1. CASE Parallel
    <3>1. released[hand] = 0 BY <1>2, <2>1 DEF OwnInv, Passed
    <3>2. \A s \in Made : released'[s] = IF s \in {hand} THEN 1 ELSE released[s]
      BY <1>1, <2>1, <3>1, ReleaseShape
    <3> QED BY <2>1, <3>2
  <2>2. CASE ~Parallel BY <1>1, <2>2
  <2> QED BY <2>1, <2>2
<1>6. Parallel => ~Owned(hand) BY <1>2 DEF OwnInv, Passed
<1>7. \A s \in Made :
         /\ released'[s] = 0 <=> Owned(s)' \/ (s \in InSlots)' \/ Passed(s)'
         /\ Owned(s)' => ~(s \in InSlots)' /\ ~Passed(s)'
         /\ Passed(s)' => ~(s \in InSlots)'
  <2>1. CASE Parallel
    <3>1. \A s \in Made : Passed(s) <=> s = hand BY <2>1 DEF Passed
    <3> QED BY <1>2, <1>3, <1>4, <1>5, <1>6, <2>1, <3>1 DEF OwnInv
  <2>2. CASE ~Parallel
    <3>1. \A s \in Made : ~Passed(s) BY <2>2 DEF Passed
    <3> QED BY <1>2, <1>3, <1>4, <1>5, <2>2, <3>1 DEF OwnInv
  <2> QED BY <2>1, <2>2
<1> QED BY <1>1, <1>3, <1>7 DEF OwnInv

\* cleanup: the streams that were never passed on.
LEMMA OwnCleanup ==
  ASSUME TypeOK, PlaceInv, SlotInv, OwnInv, TypeOK', PlaceInv', SlotInv', CleanupSlots
  PROVE  OwnInv'
<1>1. /\ UNCHANGED <<stage, order, streams, inputs, hand>> /\ pc = "cleanup"
      /\ pc' = "destroy" /\ hand = 0 /\ Release(InSlots)
  BY DEF CleanupSlots, Goto, SlotInv
<1>2. InSlots' = {} BY <1>1, InSlotsNext DEF SlotsKnown
<1>3. Steps' = Steps /\ Made' = Made /\ \A s : Owned(s)' = Owned(s)
  BY <1>1 DEF Steps, Made, Owned
<1>4. \A s \in Made : ~Passed(s) /\ ~Passed(s)' BY <1>1, MadeShape DEF Passed
<1>5. \A s \in Made \cap InSlots : released[s] = 0 BY DEF OwnInv
<1>6. \A s \in Made : released'[s] = IF s \in InSlots THEN 1 ELSE released[s]
  BY <1>1, <1>5, ReleaseShape
<1>7. \A s \in Made :
         /\ released'[s] = 0 <=> Owned(s)' \/ (s \in InSlots)' \/ Passed(s)'
         /\ Owned(s)' => ~(s \in InSlots)' /\ ~Passed(s)'
         /\ Passed(s)' => ~(s \in InSlots)'
  BY <1>2, <1>3, <1>4, <1>6 DEF OwnInv
<1> QED BY <1>1, <1>3, <1>7 DEF OwnInv

\* destroy: the inputs of one step.
LEMMA OwnDestroy ==
  ASSUME TypeOK, PlaceInv, SlotInv, OwnInv, TypeOK', PlaceInv', SlotInv', DestroyStep
  PROVE  OwnInv'
<1>1. /\ UNCHANGED <<stage, order, streams, slot, attached, hand>> /\ pc = "destroy"
      /\ pc' = "destroy" /\ hand = 0
  BY DEF DestroyStep, Goto, SlotInv
<1> DEFINE i0 == DestroyTurn
<1>2. CASE ~Alive(i0)
  BY <1>1, <1>2, OwnQuiet DEF DestroyStep
<1>3. CASE Alive(i0)
  <2>1. Release(Range(inputs[i0])) /\ inputs' = [inputs EXCEPT ![i0] = <<>>]
    BY <1>3 DEF DestroyStep
  <2>2. i0 \in Steps
    <3>1. k <= stage.n /\ k \in Nat \ {0} /\ stage.n \in Nat
      BY StageShape DEF DestroyStep, TypeOK
    <3> QED BY <3>1 DEF DestroyTurn, Steps
  <2>3. InSlots = {} /\ InSlots' = {}
    BY <1>1, InSlotsShape, InSlotsNext DEF SlotsKnown
  <2>4. Steps' = Steps /\ Made' = Made BY <1>1 DEF Steps, Made
  <2>5. \A s \in Made : ~Passed(s) /\ ~Passed(s)' BY <1>1, MadeShape DEF Passed
  <2>6. \A s \in Made \cap Range(inputs[i0]) : released[s] = 0 BY <2>2 DEF OwnInv, Owned
  <2>7. \A s \in Made : released'[s] = IF s \in Range(inputs[i0]) THEN 1 ELSE released[s]
    BY <2>1, <2>6, ReleaseShape
  <2>8. /\ \A i \in Steps \ {i0} : inputs'[i] = inputs[i]
        /\ inputs'[i0] = <<>> /\ DOMAIN inputs'[i0] = {} /\ Range(inputs'[i0]) = {}
    <3>1. /\ \A i \in Steps \ {i0} : inputs'[i] = inputs[i]
          /\ inputs'[i0] = <<>>
      BY <2>1, <2>2 DEF TypeOK
    <3>2. DOMAIN inputs'[i0] = {} BY <3>1
    <3> QED BY <3>1, <3>2 DEF Range
  <2>9. \A s \in Made : Owned(s)' <=> Owned(s) /\ s \notin Range(inputs[i0])
    <3>1. ASSUME NEW s \in Made, Owned(s)' PROVE Owned(s) /\ s \notin Range(inputs[i0])
      <4>1. PICK i \in Steps : s \in Range(inputs'[i]) BY <2>4, <3>1 DEF Owned
      <4>2. i # i0 BY <2>8, <4>1
      <4>3. s \in Range(inputs[i]) BY <2>8, <4>1, <4>2
      <4>4. s \notin Range(inputs[i0]) BY <2>2, <4>2, <4>3 DEF OwnInv, Range
      <4> QED BY <4>3, <4>4 DEF Owned
    <3>2. ASSUME NEW s \in Made, Owned(s), s \notin Range(inputs[i0]) PROVE Owned(s)'
      BY <2>4, <2>8, <3>2 DEF Owned
    <3> QED BY <3>1, <3>2
  <2>10. \A s \in Range(inputs[i0]) : Owned(s) BY <2>2 DEF Owned
  <2>11. \A s \in Made :
           /\ released'[s] = 0 <=> Owned(s)' \/ (s \in InSlots)' \/ Passed(s)'
           /\ Owned(s)' => ~(s \in InSlots)' /\ ~Passed(s)'
           /\ Passed(s)' => ~(s \in InSlots)'
    BY <2>3, <2>5, <2>7, <2>9, <2>10 DEF OwnInv
  <2>12. \A i, j \in Steps : \A a \in DOMAIN inputs'[i], b \in DOMAIN inputs'[j] :
           inputs'[i][a] = inputs'[j][b] => i = j /\ a = b
    <3>1. ASSUME NEW i \in Steps, NEW j \in Steps, NEW a \in DOMAIN inputs'[i],
                 NEW b \in DOMAIN inputs'[j], inputs'[i][a] = inputs'[j][b]
          PROVE  i = j /\ a = b
      <4>1. i # i0 /\ j # i0 BY <2>8, <3>1
      <4> QED BY <2>8, <3>1, <4>1 DEF OwnInv
    <3> QED BY <3>1
  <2> QED BY <2>4, <2>11, <2>12 DEF OwnInv
<1> QED BY <1>2, <1>3

LEMMA OwnStep ==
  ASSUME SingleInputs, TypeOK, PlaceInv, SlotInv, WiringInv, OwnInv, Next
  PROVE  OwnInv'
<1>1. TypeOK' /\ PlaceInv' /\ SlotInv' BY TypeStep, PlaceStep, SlotStep
<1>2. CASE Quiet BY <1>2, QuietFrame, OwnQuiet
<1>3. CASE AttachOutput BY <1>1, <1>3, OwnAttach
<1>4. CASE Wrap BY <1>1, <1>4, OwnWrap
<1>5. CASE AttachInput BY <1>1, <1>5, OwnAttachInput
<1>6. CASE AttachInputFails BY <1>6, OwnAttachFails
<1>7. CASE CleanupSlots BY <1>1, <1>7, OwnCleanup
<1>8. CASE DestroyStep BY <1>1, <1>8, OwnDestroy
<1>9. CASE Terminated
  BY <1>9, OwnQuiet DEF Terminated, vars, setup
<1> QED BY <1>2, <1>3, <1>4, <1>5, <1>6, <1>7, <1>8, <1>9 DEF Next, Quiet

------------------------------------------------------------------------------
(* Which steps have been destroyed                                          *)

LEMMA DestroyInvStep ==
  ASSUME TypeOK, PlaceInv, SlotInv, DestroyInv, Next
  PROVE  DestroyInv'
<1>0. /\ stage' = stage /\ Steps' = Steps /\ stage.n \in Nat /\ k \in Nat \ {0}
  BY StageKept, StageShape DEF Steps, TypeOK
<1>1. CASE ThreadStart \/ ThreadEnds \/ Terminated
  <2>1. UNCHANGED <<pc, k, inited, inputs, destroys>>
    BY <1>1 DEF ThreadStart, ThreadEnds, Terminated, vars, setup, steps
  <2> QED BY <1>0, <2>1 DEF DestroyInv, Gone, DestroyTurn
<1>2. CASE CleanupSlots
  <2>1. pc = "cleanup" /\ pc' = "destroy" /\ k' = 1 /\ destroys' = destroys
    BY <1>2 DEF CleanupSlots, Goto, steps
  <2>2. DestroyTurn' = stage.n BY <1>0, <2>1 DEF DestroyTurn
  <2>3. \A i \in Steps : destroys'[i] = 0 /\ ~(i > DestroyTurn')
    BY <1>0, <2>1, <2>2 DEF DestroyInv, Steps
  <2> QED BY <1>0, <2>1, <2>3 DEF DestroyInv
<1>3. CASE DestroyStep
  <2>1. /\ pc = "destroy" /\ k <= stage.n /\ pc' = "destroy" /\ k' = k + 1
        /\ UNCHANGED <<inited, streams>>
    BY <1>3 DEF DestroyStep, Goto
  <2> DEFINE i0 == DestroyTurn
  <2>2. i0 \in Steps /\ DestroyTurn' = i0 - 1 /\ i0 \in Nat BY <1>0, <2>1 DEF DestroyTurn, Steps
  <2>3. \A i \in Steps : IF i > i0 THEN Gone(i) ELSE destroys[i] = 0 BY <2>1 DEF DestroyInv
  <2>4. /\ \A i \in Steps : i # i0 => inputs'[i] = inputs[i] /\ destroys'[i] = destroys[i]
        /\ inputs'[i0] = <<>> /\ destroys'[i0] = IF i0 \in inited THEN 1 ELSE 0
    <3>1. destroys[i0] = 0 BY <2>2, <2>3
    <3>2. CASE i0 \in inited
      <4>1. /\ inputs' = [inputs EXCEPT ![i0] = <<>>]
            /\ destroys' = [destroys EXCEPT ![i0] = @ + 1]
        BY <1>3, <3>1, <3>2 DEF DestroyStep, Alive
      <4>2. inputs \in [Steps -> Seq(Made)] /\ destroys \in [Steps -> {0, 1}] BY DEF TypeOK
      <4> QED BY <2>2, <3>1, <3>2, <4>1, <4>2
    <3>3. CASE i0 \notin inited
      <4>1. inputs' = inputs /\ destroys' = destroys BY <1>3, <3>3 DEF DestroyStep, Alive
      <4>2. streams = <<>> BY <2>2, <3>3 DEF PlaceInv
      <4>3. inputs[i0] \in Seq({}) BY <2>2, <4>2, MadeShape DEF Made
      <4>4. inputs[i0] = <<>> BY <4>3
      <4> QED BY <3>1, <3>3, <4>1, <4>4
    <3> QED BY <3>2, <3>3
  <2>5. \A i \in Steps : IF i > i0 - 1
                           THEN inputs'[i] = <<>> /\ destroys'[i] = IF i \in inited THEN 1 ELSE 0
                           ELSE destroys'[i] = 0
    BY <2>2, <2>3, <2>4 DEF Gone, Steps
  <2> QED BY <1>0, <2>1, <2>2, <2>5 DEF DestroyInv, Gone
<1>4. CASE Finish
  <2>1. /\ pc = "destroy" /\ k = stage.n + 1 /\ pc' = "done"
        /\ UNCHANGED <<inited, inputs, destroys>>
    BY <1>4 DEF Finish, Goto, setup, steps
  <2>2. \A i \in Steps : i > DestroyTurn BY <1>0, <2>1 DEF DestroyTurn, Steps
  <2> QED BY <1>0, <2>1, <2>2 DEF DestroyInv, Gone
<1>5. CASE ~(\/ ThreadStart \/ ThreadEnds \/ Terminated
            \/ CleanupSlots \/ DestroyStep \/ Finish)
  <2>1. destroys' = destroys /\ pc \notin {"destroy", "done"} /\ pc' \notin {"destroy", "done"}
    BY <1>5 DEF Next, Resolve, InitStep, AllInit, RejectRef, AttachOutput, Wrap, AttachInput,
       AttachInputFails, NextStep, AllConnected, NoSink, SinkStart, SinkDone, SinkFails,
       AllDriven, AfterSinkFailure, HasInput, Connecting, Then, Fail, Goto, steps, PlaceInv
  <2> QED BY <1>0, <2>1 DEF DestroyInv
<1> QED BY <1>1, <1>2, <1>3, <1>4, <1>5

------------------------------------------------------------------------------
(* The threads                                                              *)

\* Destroying a step joins its edges' threads before it drops the inputs.
LEMMA ThreadInvStep ==
  ASSUME SingleInputs, TypeOK, PlaceInv, SlotInv, WiringInv, ThreadInv, Next
  PROVE  ThreadInv'
<1>0. Steps' = Steps /\ Parallel' = Parallel BY StageKept DEF Steps, Parallel
<1>1. CASE ThreadStart
  <2>1. inputs' = inputs BY <1>1 DEF ThreadStart, setup
  <2>2. PICK i \in Steps : \E s \in Range(inputs[i]) \ started : threads' = threads \cup {s}
    BY <1>1 DEF ThreadStart
  <2>3. Parallel BY <1>1 DEF ThreadStart
  <2> QED BY <1>0, <2>1, <2>2, <2>3 DEF ThreadInv, Owned
<1>2. CASE AttachInput
  <2>1. /\ Edge.step \in Steps /\ inputs[Edge.step] \in Seq(Made) /\ hand \in Made
        /\ inputs' = [inputs EXCEPT ![Edge.step] = Append(inputs[Edge.step], hand)]
        /\ threads' = threads
    BY <1>2, AttachKeeps DEF AttachInput, edges
  <2>2. ASSUME NEW s \in threads PROVE \E i \in Steps : s \in Range(inputs'[i])
    <3>1. PICK i \in Steps : s \in Range(inputs[i]) BY <2>2 DEF ThreadInv, Owned
    <3>2. CASE i # Edge.step BY <2>1, <3>1, <3>2 DEF TypeOK
    <3>3. CASE i = Edge.step
      <4>1. inputs'[i] = Append(inputs[i], hand) BY <2>1, <3>3 DEF TypeOK
      <4>2. PICK a \in DOMAIN inputs[i] : s = inputs[i][a] BY <3>1 DEF Range
      <4>3. a \in DOMAIN inputs'[i] /\ inputs'[i][a] = s BY <2>1, <3>3, <4>1, <4>2, AppendShape
      <4> QED BY <4>3 DEF Range
    <3> QED BY <3>2, <3>3
  <2> QED BY <1>0, <2>1, <2>2 DEF ThreadInv, Owned
<1>3. CASE DestroyStep
  <2>1. threads' = threads BY <1>3 DEF DestroyStep, edges
  <2>2. ASSUME NEW s \in threads PROVE \E i \in Steps : s \in Range(inputs'[i])
    <3>1. PICK i \in Steps : s \in Range(inputs[i]) BY <2>2 DEF ThreadInv, Owned
    <3>2. CASE Alive(DestroyTurn)
      <4>1. Joined(DestroyTurn) /\ inputs' = [inputs EXCEPT ![DestroyTurn] = <<>>]
        BY <1>3, <3>2 DEF DestroyStep
      <4>2. i # DestroyTurn BY <2>2, <3>1, <4>1 DEF Joined
      <4> QED BY <3>1, <4>1, <4>2 DEF TypeOK
    <3>3. CASE ~Alive(DestroyTurn) BY <1>3, <3>1, <3>3 DEF DestroyStep
    <3> QED BY <3>2, <3>3
  <2> QED BY <1>0, <2>1, <2>2 DEF ThreadInv, Owned
<1>4. CASE ~(ThreadStart \/ AttachInput \/ DestroyStep)
  <2>1. inputs' = inputs /\ threads' \subseteq threads
    BY <1>4 DEF Next, Resolve, InitStep, AllInit, RejectRef, AttachOutput, Wrap,
       AttachInputFails, NextStep, AllConnected, NoSink, SinkStart, SinkDone, SinkFails,
       AllDriven, ThreadEnds, CleanupSlots, Finish, Terminated, vars, setup, edges
  <2> QED BY <1>0, <2>1 DEF ThreadInv, Owned
<1> QED BY <1>1, <1>2, <1>3, <1>4

------------------------------------------------------------------------------
(* The wiring                                                               *)

\* Every step has its place in the order.
LEMMA OrderOnto ==
  ASSUME TypeOK, PlaceInv
  PROVE  \A i \in Steps : \E m \in Steps : order[m] = i
<1>1. stage.n \in Nat /\ order \in [Steps -> Steps] BY StageShape DEF TypeOK
<1>2. IsFiniteSet(Steps) BY <1>1, FS_Interval DEF Steps
<1> DEFINE places == {order[m] : m \in Steps}
<1>3. order \in Surjection(Steps, places) BY <1>1 DEF Surjection
<1>4. order \in Injection(Steps, places)
  <2>1. \A i, j \in Steps : order[i] = order[j] => i = j BY DEF PlaceInv, Orders, Steps
  <2> QED BY <1>1, <1>3, <2>1 DEF Injection, Surjection, IsInjective
<1>5. Cardinality(places) = Cardinality(Steps) BY <1>2, <1>3, <1>4, FS_Surjection
<1>6. places \subseteq Steps BY <1>1
<1> HIDE DEF places
<1>7. places = Steps BY <1>2, <1>5, <1>6, FS_Subset
<1> QED BY <1>7 DEF places

\* A stream that a step keeps or that is being passed on stays what it is.
LEMMA StreamsKept ==
  ASSUME TypeOK, PlaceInv, SlotInv, Next
  PROVE  /\ Made \subseteq Made' /\ \A s \in Made : streams'[s] = streams[s]
         /\ ~AttachOutput => streams' = streams
<1>1. CASE AttachOutput
  <2>1. stage' = stage /\ order' = order BY StageKept
  <2>2. CASE pc' = "cleanup"
    <3>1. streams' = streams BY <1>1, <2>2, AttachShape
    <3> QED BY <1>1, <3>1 DEF Made
  <2>3. CASE pc' # "cleanup" BY <1>1, <2>1, <2>3, NewSlot
  <2> QED BY <2>2, <2>3
<1>2. CASE ~AttachOutput
  <2>1. streams' = streams
    BY <1>2 DEF Next, Resolve, InitStep, AllInit, RejectRef, Wrap, AttachInput, AttachInputFails,
       NextStep, AllConnected, NoSink, SinkStart, SinkDone, SinkFails, AllDriven, ThreadStart,
       ThreadEnds, CleanupSlots, DestroyStep, Finish, Terminated, vars, setup
  <2> QED BY <1>2, <2>1 DEF Made
<1> QED BY <1>1, <1>2

\* The inputs of a step are wired to what it names as long as they stay.
LEMMA WiredKept ==
  ASSUME TypeOK, PlaceInv, SlotInv, Next, NEW i \in Steps, NEW n \in Nat,
         Wired(i, n), inputs'[i] = inputs[i]
  PROVE  WiredIn(inputs'[i], streams', stage.from[i], n)
<1>1. inputs[i] \in Seq(Made) BY DEF TypeOK
<1>2. \A r \in 1 .. n : inputs[i][r] \in Made
  BY <1>1, ElementOfSeq DEF Wired, WiredIn
<1> QED BY <1>2, StreamsKept DEF Wired, WiredIn

LEMMA NamedStep ==
  ASSUME SingleInputs, TypeOK, PlaceInv, SlotInv, WiringInv, Next
  PROVE  InputsNamed'
<1>0. stage' = stage /\ Steps' = Steps BY StageKept DEF Steps
<1>1. ASSUME NEW i \in Steps, NEW a \in DOMAIN inputs[i]
      PROVE  \E r \in DOMAIN stage.from[i] : streams'[inputs[i][a]] = stage.from[i][r]
  <2>1. inputs[i][a] \in Made BY MadeShape, <1>1 DEF Range
  <2> QED BY <2>1, StreamsKept DEF WiringInv, InputsNamed
<1>2. CASE AttachInput
  <2>1. /\ Edge.step \in Steps /\ Edge.step = order[k] /\ hand \in Made
        /\ inputs[Edge.step] \in Seq(Made)
        /\ inputs' = [inputs EXCEPT ![Edge.step] = Append(inputs[Edge.step], hand)]
    BY <1>2, AttachKeeps
  <2>2. /\ pi \in DOMAIN stage.from[order[k]]
        /\ streams[hand] = stage.from[order[k]][pi] /\ streams' = streams
    <3>1. pc = "input" /\ streams' = streams BY <1>2 DEF AttachInput
    <3>2. k <= stage.n /\ pi <= Len(stage.from[order[k]]) BY <3>1 DEF PlaceInv
    <3> QED BY <3>1, <3>2, EdgeShape DEF SlotInv, InHand
  <2>3. ASSUME NEW i \in Steps, NEW a \in DOMAIN inputs'[i]
        PROVE  \E r \in DOMAIN stage.from[i] : streams'[inputs'[i][a]] = stage.from[i][r]
    <3>1. CASE i # Edge.step
      <4>1. inputs'[i] = inputs[i] BY <2>1, <3>1 DEF TypeOK
      <4> QED BY <1>1, <2>3, <4>1
    <3>2. CASE i = Edge.step
      <4>1. inputs'[i] = Append(inputs[i], hand) /\ inputs[i] \in Seq(Made)
        BY <2>1, <3>2 DEF TypeOK
      <4>2. CASE a \in DOMAIN inputs[i]
        <5>1. inputs'[i][a] = inputs[i][a] BY <2>1, <4>1, <4>2, AppendShape
        <5> QED BY <1>1, <4>2, <5>1
      <4>3. CASE a \notin DOMAIN inputs[i]
        <5>1. inputs'[i][a] = hand BY <2>1, <2>3, <4>1, <4>3, AppendShape
        <5> QED BY <2>1, <2>2, <3>2, <5>1
      <4> QED BY <4>2, <4>3
    <3> QED BY <3>1, <3>2
  <2> QED BY <1>0, <2>3 DEF InputsNamed
<1>3. CASE ~AttachInput
  <2>1. ASSUME NEW i \in Steps, NEW a \in DOMAIN inputs'[i]
        PROVE  a \in DOMAIN inputs[i] /\ inputs'[i][a] = inputs[i][a]
    <3>1. CASE inputs' = inputs BY <2>1, <3>1
    <3>2. CASE inputs' = [inputs EXCEPT ![DestroyTurn] = <<>>]
      <4>1. i # DestroyTurn
        <5>1. i = DestroyTurn => inputs'[i] = <<>> BY <3>2 DEF TypeOK
        <5>2. <<>> \in Seq({}) /\ DOMAIN <<>> = {} OBVIOUS
        <5> QED BY <2>1, <5>1, <5>2
      <4> QED BY <2>1, <3>2, <4>1 DEF TypeOK
    <3>3. inputs' = inputs \/ inputs' = [inputs EXCEPT ![DestroyTurn] = <<>>]
      BY <1>3 DEF Next, Resolve, InitStep, AllInit, RejectRef, AttachOutput, Wrap,
         AttachInputFails, NextStep, AllConnected, NoSink, SinkStart, SinkDone, SinkFails,
         AllDriven, ThreadStart, ThreadEnds, CleanupSlots, DestroyStep, Finish, Terminated,
         vars, setup
    <3> QED BY <3>1, <3>2, <3>3
  <2> QED BY <1>0, <1>1, <2>1 DEF InputsNamed
<1> QED BY <1>2, <1>3

\* The wiring goes on while the steps are being connected.
LEMMA SoFarStep ==
  ASSUME SingleInputs, TypeOK, PlaceInv, SlotInv, WiringInv, TypeOK', Next, pc' \in Connect
  PROVE  WiredSoFar' /\ OpenedFromWired'
<1>0. /\ stage' = stage /\ order' = order /\ Steps' = Steps /\ stage.n \in Nat
      /\ \A m \in Steps : order[m] \in Steps
      /\ k \in Nat \ {0} /\ pi \in Nat \ {0}
  BY StageKept, StageShape DEF Steps, TypeOK
<1>b. \A i \in Steps : Len(stage.from[i]) \in Nat BY StageShape
<1>a. \A i \in Steps : \A n \in Nat :
        Wired(i, n) /\ inputs'[i] = inputs[i] => WiredIn(inputs'[i], streams', stage.from[i], n)
  BY WiredKept
<1>1. CASE UNCHANGED <<k, pi, inputs>> /\ pc \in Connect
  <2>1. WiredSoFar /\ OpenedFromWired BY <1>1 DEF WiringInv
  <2>2. WiredSoFar'
    <3>1. \A m \in Steps : \A n \in Nat : Wired(order[m], n) =>
            WiredIn(inputs'[order[m]], streams', stage.from[order[m]], n)
      BY <1>0, <1>1, <1>a
    <3>2. pi - 1 \in Nat /\ 0 \in Nat BY <1>0
    <3>3. ASSUME NEW m \in Steps
          PROVE  /\ m < k => WiredIn(inputs'[order[m]], streams', stage.from[order[m]],
                                    Len(stage.from[order[m]]))
                 /\ m = k => WiredIn(inputs'[order[m]], streams', stage.from[order[m]], pi - 1)
                 /\ m > k => WiredIn(inputs'[order[m]], streams', stage.from[order[m]], 0)
      <4>1. Len(stage.from[order[m]]) \in Nat BY <1>0, <1>b
      <4> QED BY <2>1, <3>1, <3>2, <4>1 DEF WiredSoFar
    <3> QED BY <1>0, <1>1, <3>3 DEF WiredSoFar, Wired
  <2>3. CASE streams' = streams BY <1>0, <1>1, <2>1, <2>2, <2>3 DEF OpenedFromWired, Made
  <2>4. CASE streams' # streams
    <3>1. AttachOutput BY <2>4, StreamsKept
    <3>2. pc' # "cleanup" BY DEF Connect
    <3>3. /\ Made' = Made \cup {Len(streams) + 1} /\ \A s \in Made : streams'[s] = streams[s]
          /\ streams'[Len(streams) + 1] = [up |-> Up, port |-> Port]
      BY <1>0, <3>1, <3>2, NewSlot
    <3>4. \E m \in Steps : m < k /\ order[m] = Up
      <4>1. k <= stage.n /\ pi <= Len(stage.from[order[k]])
        BY <3>1 DEF AttachOutput, HasInput, Connecting
      <4>2. k \in Steps /\ pi \in DOMAIN stage.from[order[k]] /\ Up \in Steps
            /\ stage.from[order[k]][pi].up = Up
        BY <4>1, EdgeShape
      <4>3. PICK m \in Steps : order[m] = Up BY <4>2, OrderOnto
      <4>4. m < k BY <4>2, <4>3 DEF PlaceInv, Orders, Steps
      <4> QED BY <4>3, <4>4
    <3>5. \A s \in Made' : \E m \in Steps : m < k /\ order[m] = streams'[s].up
      BY <2>1, <3>3, <3>4 DEF OpenedFromWired
    <3> QED BY <1>0, <1>1, <2>2, <3>5 DEF OpenedFromWired
  <2> QED BY <2>2, <2>3, <2>4
<1>2. CASE AllInit
  <2>1. /\ pc = "init" /\ k' = 1 /\ pi' = 1 /\ UNCHANGED <<streams, inputs>>
    BY <1>2 DEF AllInit, Goto, setup
  <2>2. streams = <<>> /\ Made = {} BY <2>1 DEF PlaceInv, Setup, Made
  <2>3. \A i \in Steps : Len(inputs[i]) = 0
    <3>1. \A i \in Steps : inputs[i] \in Seq({}) BY <2>2, MadeShape
    <3>2. \A i \in Steps : inputs[i] = <<>> BY <3>1
    <3> QED BY <3>2
  <2>4. \A i \in Steps : WiredIn(inputs'[i], streams', stage.from[i], 0)
    BY <2>1, <2>3 DEF WiredIn
  <2>5. WiredSoFar' BY <1>0, <2>1, <2>4 DEF WiredSoFar, Wired, Steps
  <2> QED BY <2>1, <2>2, <2>5 DEF OpenedFromWired, Made
<1>3. CASE AttachInput
  <2>1. /\ Edge.step \in Steps /\ Edge.step = order[k] /\ hand \in Made
        /\ inputs[Edge.step] \in Seq(Made) /\ Len(inputs[Edge.step]) = pi - 1
        /\ inputs' = [inputs EXCEPT ![Edge.step] = Append(inputs[Edge.step], hand)]
    BY <1>3, AttachKeeps
  <2>2. pc = "input" /\ streams' = streams /\ k' = k /\ pi' = pi + 1
    BY <1>3 DEF AttachInput
  <2>3. k <= stage.n /\ pi <= Len(stage.from[order[k]]) BY <2>2 DEF PlaceInv
  <2>4. k \in Steps /\ streams[hand] = stage.from[order[k]][pi]
    BY <2>2, <2>3, EdgeShape DEF SlotInv, InHand
  <2>5. WiredSoFar /\ OpenedFromWired BY <2>2 DEF WiringInv, Connect
  <2>6. Wired(order[k], pi - 1) BY <2>4, <2>5 DEF WiredSoFar
  <2>7. /\ inputs'[order[k]] = Append(inputs[order[k]], hand)
        /\ \A m \in Steps : m # k => inputs'[order[m]] = inputs[order[m]]
    <3>1. \A m \in Steps : m # k => order[m] # order[k]
      BY <2>4 DEF PlaceInv, Orders, Steps
    <3> QED BY <1>0, <2>1, <3>1 DEF TypeOK
  <2>8. WiredIn(inputs'[order[k]], streams', stage.from[order[k]], pi)
    <3>1. Len(inputs'[order[k]]) = pi BY <1>0, <2>1, <2>7, AppendShape
    <3>2. ASSUME NEW r \in 1 .. pi PROVE streams[inputs'[order[k]][r]] = stage.from[order[k]][r]
      <4>1. CASE r = pi
        <5>1. inputs'[order[k]][r] = hand BY <1>0, <2>1, <2>7, <4>1, AppendShape
        <5> QED BY <2>4, <4>1, <5>1
      <4>2. CASE r # pi
        <5>1. r \in 1 .. pi - 1 BY <1>0, <3>2, <4>2
        <5>2. inputs'[order[k]][r] = inputs[order[k]][r] BY <2>1, <2>7, <5>1, AppendShape
        <5> QED BY <2>6, <5>1, <5>2 DEF Wired, WiredIn
      <4> QED BY <4>1, <4>2
    <3> QED BY <2>2, <3>1, <3>2 DEF WiredIn
  <2>9. WiredSoFar'
    <3>1. \A m \in Steps : m # k => \A n \in Nat : Wired(order[m], n) =>
            WiredIn(inputs'[order[m]], streams', stage.from[order[m]], n)
      BY <1>0, <1>a, <2>7
    <3> QED BY <1>0, <1>b, <2>2, <2>5, <2>8, <3>1 DEF WiredSoFar, Wired
  <2>10. OpenedFromWired' BY <1>0, <2>2, <2>5 DEF OpenedFromWired, Made
  <2> QED BY <2>9, <2>10
<1>4. CASE NextStep
  <2>1. /\ pc = "output" /\ k <= stage.n /\ pi > Len(stage.from[order[k]]) /\ k' = k + 1
        /\ pi' = 1 /\ UNCHANGED <<streams, inputs>>
    BY <1>4 DEF NextStep, Connecting, Goto, setup
  <2>2. k \in Steps /\ pi - 1 = Len(stage.from[order[k]])
    <3>1. k \in Steps BY <1>0, <2>1 DEF Steps
    <3>2. pi <= Len(stage.from[order[k]]) + 1 BY <2>1 DEF PlaceInv
    <3> QED BY <1>0, <1>b, <2>1, <3>1, <3>2
  <2>3. WiredSoFar /\ OpenedFromWired BY <2>1 DEF WiringInv, Connect
  <2>4. WiredSoFar'
    <3>1. ASSUME NEW m \in Steps
          PROVE  /\ m < k + 1 => Wired(order[m], Len(stage.from[order[m]]))
                 /\ m >= k + 1 => Wired(order[m], 0)
      <4>1. (m < k + 1 => m < k \/ m = k) /\ (m >= k + 1 => m > k) BY <1>0 DEF Steps
      <4> QED BY <2>2, <2>3, <4>1 DEF WiredSoFar
    <3>2. \A m \in Steps : (m = k + 1 \/ m > k + 1 => m >= k + 1) /\ 1 - 1 = 0
      BY <1>0 DEF Steps
    <3>3. \A m \in Steps' : /\ m < k' => Wired(order[m], Len(stage.from[order[m]]))
                            /\ m = k' => Wired(order[m], pi' - 1)
                            /\ m > k' => Wired(order[m], 0)
      BY <1>0, <2>1, <3>1, <3>2
    <3> QED BY <1>0, <2>1, <3>3 DEF WiredSoFar, Wired
  <2>5. OpenedFromWired' BY <1>0, <2>1, <2>3 DEF OpenedFromWired, Made, Steps
  <2> QED BY <2>4, <2>5
<1>5. CASE ~(AllInit \/ AttachInput \/ NextStep)
  <2>1. UNCHANGED <<k, pi, inputs>> /\ pc \in Connect
    BY <1>5 DEF Next, Resolve, InitStep, RejectRef, AttachOutput, Wrap, AttachInputFails,
       AllConnected, NoSink, SinkStart, SinkDone, SinkFails, AfterSinkFailure, AllDriven,
       ThreadStart, ThreadEnds, CleanupSlots, DestroyStep, Finish, Terminated, vars, setup,
       HasInput, Connecting, Then, Fail, Goto, Connect, PlaceInv
  <2> QED BY <1>1, <2>1
<1> QED BY <1>2, <1>3, <1>4, <1>5

LEMMA WiringStep ==
  ASSUME SingleInputs, TypeOK, PlaceInv, SlotInv, WiringInv, TypeOK', Next
  PROVE  WiringInv'
<1>0. /\ stage' = stage /\ order' = order /\ Steps' = Steps /\ stage.n \in Nat
  BY StageKept, StageShape DEF Steps
<1>1. CASE AllConnected
  <2>1. /\ pc = "output" /\ k = stage.n + 1 /\ UNCHANGED <<streams, inputs>> /\ pc' = "drive"
    BY <1>1 DEF AllConnected, Goto, setup
  <2>2. ASSUME NEW i \in Steps PROVE Wired(i, Len(stage.from[i]))
    <3>1. PICK m \in Steps : order[m] = i BY OrderOnto
    <3>2. m < k BY <1>0, <2>1 DEF Steps
    <3> QED BY <2>1, <3>1, <3>2 DEF WiringInv, Connect, WiredSoFar
  <2>3. (\A i \in Steps : Wired(i, Len(stage.from[i])))' BY <1>0, <2>1, <2>2 DEF Wired
  <2> QED BY <2>1, <2>3, NamedStep DEF WiringInv, Connect
<1>2. CASE ~AllConnected
  <2>1. ASSUME pc' = "drive" PROVE pc = "drive" /\ UNCHANGED <<streams, inputs>>
    BY <1>2, <2>1 DEF Next, Resolve, InitStep, AllInit, RejectRef, AttachOutput, Wrap, AttachInput,
       AttachInputFails, NextStep, NoSink, SinkStart, SinkDone, SinkFails, AfterSinkFailure,
       AllDriven, ThreadStart, ThreadEnds, CleanupSlots, DestroyStep, Finish, Terminated, vars,
       setup, HasInput, Connecting, Then, Fail, Goto, PlaceInv
  <2>2. pc' = "drive" => (\A i \in Steps : Wired(i, Len(stage.from[i])))'
    BY <1>0, <2>1 DEF WiringInv, Wired
  <2> QED BY <2>2, NamedStep, SoFarStep DEF WiringInv
<1> QED BY <1>1, <1>2

------------------------------------------------------------------------------
(* The sinks                                                                *)

LEMMA DrainStep ==
  ASSUME TypeOK, PlaceInv, DrainInv, Next
  PROVE  DrainInv'
<1>0. /\ stage' = stage /\ order' = order /\ Steps' = Steps /\ stage.n \in Nat
      /\ k \in Nat \ {0} /\ order \in [Steps -> Steps] /\ drained \in Seq(Steps)
  BY StageKept, StageShape DEF Steps, TypeOK
<1>a. ASSUME pc = "drive", k <= stage.n
      PROVE  SinksIn(stage, order, k) = SinksIn(stage, order, k - 1)
                                          \cup (IF IsSink(order[k]) THEN {order[k]} ELSE {})
  <2>1. 1 .. k = (1 .. k - 1) \cup {k} /\ k \in 1 .. k BY <1>0
  <2> QED BY <2>1 DEF SinksIn, IsSink
<1>1. CASE SinkDone
  <2>1. /\ pc = "drive" /\ k <= stage.n /\ running = order[k] /\ IsSink(running)
        /\ drained' = Append(drained, running) /\ pc' = "drive" /\ k' = k + 1
    BY <1>1 DEF SinkDone, Goto, PlaceInv
  <2>2. k \in Steps /\ running \in Steps BY <1>0, <2>1 DEF Steps
  <2>3. Range(drained) = SinksIn(stage, order, k - 1) /\ InOrder BY <2>1 DEF DrainInv
  <2> DEFINE d == Len(drained) + 1
  <2>4. /\ DOMAIN drained' = DOMAIN drained \cup {d} /\ drained'[d] = running
        /\ \A a \in DOMAIN drained : drained'[a] = drained[a] /\ a < d /\ a \in Nat
        /\ d \in Nat
    <3>1. drained \in Seq(Steps) BY <1>0
    <3>2. /\ DOMAIN drained = 1 .. Len(drained) /\ Len(drained) \in Nat
          /\ DOMAIN drained' = DOMAIN drained \cup {d} /\ drained'[d] = running
          /\ \A a \in DOMAIN drained : drained'[a] = drained[a]
      BY <2>1, <2>2, <3>1, AppendShape
    <3> QED BY <3>2
  <2>5. Range(drained') = Range(drained) \cup {running} BY <2>4 DEF Range
  <2>6. Range(drained') = SinksIn(stage, order, k) BY <1>a, <2>1, <2>3, <2>5
  <2>7. \A a \in DOMAIN drained : \E m \in Steps : m < k /\ order[m] = drained[a]
    <3> SUFFICES ASSUME NEW a \in DOMAIN drained
                 PROVE  \E m \in Steps : m < k /\ order[m] = drained[a]
      OBVIOUS
    <3>1. drained[a] \in SinksIn(stage, order, k - 1) BY <2>3 DEF Range
    <3>2. PICK m \in 1 .. k - 1 : order[m] = drained[a] BY <3>1 DEF SinksIn
    <3>3. m \in Steps /\ m < k BY <1>0, <2>1 DEF Steps
    <3> QED BY <3>2, <3>3
  <2>8. ASSUME NEW a \in DOMAIN drained', NEW b \in DOMAIN drained', a < b
        PROVE  \E m, n \in Steps : m < n /\ order[m] = drained'[a] /\ order[n] = drained'[b]
    <3>1. a \in DOMAIN drained BY <2>4, <2>8
    <3>2. CASE b \in DOMAIN drained BY <2>3, <2>4, <2>8, <3>1, <3>2 DEF InOrder
    <3>3. CASE b = d
      <4>1. drained'[b] = order[k] BY <2>1, <2>4, <3>3
      <4>2. PICK m \in Steps : m < k /\ order[m] = drained[a] BY <2>7, <3>1
      <4> QED BY <2>2, <2>4, <3>1, <4>1, <4>2
    <3> QED BY <2>4, <3>2, <3>3
  <2>9. InOrder' BY <1>0, <2>8 DEF InOrder
  <2>10. k' - 1 = k BY <1>0, <2>1
  <2> QED BY <1>0, <2>1, <2>6, <2>9, <2>10 DEF DrainInv, Setup, Connect, Ending
<1>2. CASE ~SinkDone
  <2>1. drained' = drained
    BY <1>2 DEF Next, Resolve, InitStep, AllInit, RejectRef, AttachOutput, Wrap, AttachInput,
       AttachInputFails, NextStep, AllConnected, NoSink, SinkStart, SinkFails, AllDriven,
       ThreadStart, ThreadEnds, CleanupSlots, DestroyStep, Finish, Terminated, vars, run
  <2>2. InOrder' BY <1>0, <2>1 DEF DrainInv, InOrder
  <2>3. pc' \in Setup \cup Connect => drained' = <<>>
    <3>1. pc' \in Setup \cup Connect => pc \in Setup \cup Connect
      BY <1>2 DEF Next, Resolve, InitStep, AllInit, RejectRef, AttachOutput, Wrap, AttachInput,
         AttachInputFails, NextStep, AllConnected, NoSink, SinkStart, SinkFails, AfterSinkFailure,
         AllDriven, ThreadStart, ThreadEnds, CleanupSlots, DestroyStep, Finish, Terminated, vars,
         HasInput, Connecting, Then, Fail, Goto, Setup, Connect, PlaceInv
    <3> QED BY <2>1, <3>1 DEF DrainInv
  <2>4. ASSUME pc' = "drive" PROVE Range(drained) = SinksIn(stage, order, k' - 1)
    <3>1. CASE pc = "drive" /\ k' = k BY <3>1 DEF DrainInv
    <3>2. CASE NoSink
      <4>1. pc = "drive" /\ k <= stage.n /\ ~IsSink(order[k]) /\ k' = k + 1
        BY <3>2 DEF NoSink, Goto
      <4>2. k' - 1 = k BY <1>0, <4>1
      <4>3. SinksIn(stage, order, k) = SinksIn(stage, order, k - 1) BY <1>a, <4>1
      <4> QED BY <4>1, <4>2, <4>3 DEF DrainInv
    <3>3. CASE AllConnected
      <4>1. pc = "output" /\ k' = 1 BY <3>3 DEF AllConnected, Goto
      <4>2. drained = <<>> BY <4>1 DEF DrainInv, Connect
      <4>3. SinksIn(stage, order, k' - 1) = {} BY <4>1 DEF SinksIn
      <4>4. Range(<<>>) = {} BY DEF Range
      <4> QED BY <4>2, <4>3, <4>4
    <3>4. (pc = "drive" /\ k' = k) \/ NoSink \/ AllConnected
      BY <1>2, <2>4 DEF Next, Resolve, InitStep, AllInit, RejectRef, AttachOutput, Wrap,
         AttachInput, AttachInputFails, NextStep, SinkStart, SinkFails, AfterSinkFailure,
         AllDriven, ThreadStart, ThreadEnds, CleanupSlots, DestroyStep, Finish, Terminated, vars,
         HasInput, Connecting, Then, Fail, Goto, PlaceInv
    <3> QED BY <3>1, <3>2, <3>3, <3>4
  <2>5. ASSUME pc' \in Ending
        PROVE  /\ \E n \in 0 .. stage.n : Range(drained) = SinksIn(stage, order, n)
               /\ rc' = "ok" => Range(drained) = SinksIn(stage, order, stage.n)
    <3>1. CASE pc \in Ending
      <4>1. rc' = rc
        BY <1>2, <3>1 DEF Next, Resolve, InitStep, AllInit, RejectRef, AttachOutput, Wrap,
           AttachInput, AttachInputFails, NextStep, AllConnected, NoSink, SinkStart, SinkFails,
           AllDriven, ThreadStart, ThreadEnds, CleanupSlots, DestroyStep, Finish, Terminated,
           vars, HasInput, Connecting, PlaceInv, Ending
      <4> QED BY <3>1, <4>1 DEF DrainInv
    <3>2. CASE pc = "drive"
      <4>1. Range(drained) = SinksIn(stage, order, k - 1) /\ k <= stage.n + 1
        BY <3>2 DEF DrainInv, PlaceInv, Connect
      <4>2. k - 1 \in 0 .. stage.n BY <1>0, <4>1
      <4>3. rc' = "ok" => k = stage.n + 1
        BY <1>2, <2>5, <3>2 DEF Next, Resolve, InitStep, AllInit, RejectRef, AttachOutput, Wrap,
           AttachInput, AttachInputFails, NextStep, AllConnected, NoSink, SinkStart, SinkFails,
           AfterSinkFailure, AllDriven, ThreadStart, ThreadEnds, CleanupSlots, DestroyStep,
           Finish, Terminated, vars, HasInput, Connecting, Fail, Goto, Ending
      <4>4. k = stage.n + 1 => k - 1 = stage.n BY <1>0
      <4> QED BY <4>1, <4>2, <4>3, <4>4
    <3>3. CASE pc \in Setup \cup Connect
      <4>1. rc' = "fail"
        BY <1>2, <2>5, <3>3 DEF Next, Resolve, InitStep, AllInit, RejectRef, AttachOutput, Wrap,
           AttachInput, AttachInputFails, NextStep, AllConnected, NoSink, SinkStart, SinkFails,
           AfterSinkFailure, AllDriven, ThreadStart, ThreadEnds, CleanupSlots, DestroyStep,
           Finish, Terminated, vars, HasInput, Connecting, Then, Fail, Goto, Setup, Connect,
           Ending, PlaceInv
      <4>2. drained = <<>> BY <3>3 DEF DrainInv
      <4>3. SinksIn(stage, order, 0) = {} BY DEF SinksIn
      <4>4. Range(<<>>) = {} BY DEF Range
      <4>5. 0 \in 0 .. stage.n /\ rc' # "ok" BY <1>0, <4>1
      <4> QED BY <4>2, <4>3, <4>4, <4>5
    <3> QED BY <3>1, <3>2, <3>3 DEF TypeOK, Setup, Connect, Ending
  <2> QED BY <1>0, <2>1, <2>2, <2>3, <2>4, <2>5 DEF DrainInv
<1> QED BY <1>1, <1>2

------------------------------------------------------------------------------
(* The invariant                                                            *)

LEMMA InitInv == Init => IInv
<1> SUFFICES ASSUME Init PROVE IInv OBVIOUS
<1>1. /\ stage \in Stages /\ order \in [Steps -> Steps] /\ order \in Orders(stage)
      /\ pc = "resolve" /\ k = 1 /\ pi = 1 /\ rc = "ok" /\ hand = 0 /\ streams = <<>>
      /\ released = <<>> /\ inited = {} /\ running = 0 /\ drained = <<>> /\ started = {}
      /\ threads = {} /\ Made = {}
      /\ slot = [i \in Steps |-> [p \in Ports(i) |-> 0]]
      /\ attached = [i \in Steps |-> [p \in Ports(i) |-> FALSE]]
      /\ inputs = [i \in Steps |-> <<>>] /\ destroys = [i \in Steps |-> 0]
  <2>1. /\ stage \in Stages /\ order \in Orders(stage)
        /\ pc = "resolve" /\ k = 1 /\ pi = 1 /\ rc = "ok" /\ hand = 0 /\ streams = <<>>
        /\ released = <<>> /\ inited = {} /\ running = 0 /\ drained = <<>> /\ started = {}
        /\ threads = {}
    BY DEF Init
  <2>2. /\ slot = [i \in Steps |-> [p \in Ports(i) |-> 0]]
        /\ attached = [i \in Steps |-> [p \in Ports(i) |-> FALSE]]
        /\ inputs = [i \in Steps |-> <<>>] /\ destroys = [i \in Steps |-> 0]
    BY DEF Init, Steps
  <2>3. order \in [Steps -> Steps] BY <2>1 DEF Orders, Steps
  <2>4. Made = {} BY <2>1 DEF Made
  <2> QED BY <2>1, <2>2, <2>3, <2>4
<1>2. TypeOK
  <2>1. <<>> \in Seq(Made) OBVIOUS
  <2>2. inputs \in [Steps -> Seq(Made)] BY <1>1, <2>1
  <2>3. \A i \in Steps : /\ slot[i] \in [Ports(i) -> Made \cup {0}]
                         /\ attached[i] \in [Ports(i) -> BOOLEAN]
    BY <1>1
  <2> QED BY <1>1, <2>2, <2>3 DEF TypeOK
<1>3. PlaceInv BY <1>1 DEF PlaceInv, Connect, Ending
<1>4. OwnInv
  <2>1. \A i \in Steps : DOMAIN inputs[i] = {} BY <1>1
  <2> QED BY <1>1, <2>1 DEF OwnInv
<1>5. SlotInv BY <1>1 DEF SlotInv, MadeAtPorts, Free
<1>6. DestroyInv BY <1>1 DEF DestroyInv
<1>7. WiringInv
  <2>1. \A i \in Steps : DOMAIN inputs[i] = {} BY <1>1
  <2> QED BY <1>1, <2>1 DEF WiringInv, InputsNamed, Connect
<1>8. ThreadInv BY <1>1 DEF ThreadInv
<1>9. DrainInv BY <1>1 DEF DrainInv, InOrder, Ending
<1> QED BY <1>2, <1>3, <1>4, <1>5, <1>6, <1>7, <1>8, <1>9 DEF IInv

LEMMA Inductive == SingleInputs /\ IInv /\ [Next]_vars => IInv'
<1> SUFFICES ASSUME SingleInputs, IInv, [Next]_vars PROVE IInv' OBVIOUS
<1>1. CASE Next
  <2> USE <1>1 DEF IInv
  <2>1. TypeOK' BY TypeStep
  <2>2. PlaceInv' BY PlaceStep
  <2>3. SlotInv' BY SlotStep
  <2>4. WiringInv' BY <2>1, WiringStep
  <2>5. OwnInv' BY OwnStep
  <2>6. DestroyInv' BY DestroyInvStep
  <2>7. ThreadInv' BY ThreadInvStep
  <2>8. DrainInv' BY DrainStep
  <2> QED BY <2>1, <2>2, <2>3, <2>4, <2>5, <2>6, <2>7, <2>8
<1>2. CASE UNCHANGED vars
  <2>1. UNCHANGED <<stage, order, pc, k, pi, rc, slot, attached, hand, inputs, streams, released,
                    inited, destroys, running, drained, started, threads>>
    BY <1>2 DEF vars, setup, steps, run, edges
  <2>2. /\ Steps' = Steps /\ Parallel' = Parallel /\ Made' = Made /\ Up' = Up /\ Port' = Port
        /\ \A i : Ports(i)' = Ports(i)
    BY <2>1 DEF Steps, Parallel, Made, Up, Port, Edge, Ports
  <2>3. TypeOK' BY <2>1, <2>2 DEF IInv, TypeOK
  <2>4. PlaceInv' BY <2>1, <2>2 DEF IInv, PlaceInv, PortKnown, IsSink
  <2>5. OwnInv' BY <2>1, OwnQuiet DEF IInv
  <2>6. SlotInv' BY <2>1, SlotFrame DEF IInv, SlotInv
  <2>7. DestroyInv' BY <2>1, <2>2 DEF IInv, DestroyInv, Gone, DestroyTurn
  <2>8. WiringInv'
    BY <2>1, <2>2 DEF IInv, WiringInv, InputsNamed, WiredSoFar, OpenedFromWired, Wired
  <2>9. ThreadInv' BY <2>1, <2>2 DEF IInv, ThreadInv, Owned
  <2>10. DrainInv' BY <2>1, <2>2 DEF IInv, DrainInv, InOrder
  <2> QED BY <2>3, <2>4, <2>5, <2>6, <2>7, <2>8, <2>9, <2>10 DEF IInv
<1> QED BY <1>1, <1>2

LEMMA Invariant == ASSUME SingleInputs PROVE Spec => []IInv
<1>1. IInv /\ [Next]_vars => IInv' BY Inductive
<1> QED BY <1>1, InitInv, PTL DEF Spec

------------------------------------------------------------------------------
(* What follows                                                             *)

(* Whatever a stage acquires it gives back once (provider.h:334, 390): each  *)
(* stream made is released once, each step initialised destroyed once,       *)
(* wherever the stage fails, for every stage whose single-input components   *)
(* have one input.                                                           *)
THEOREM StageCleansUp ==
  ASSUME SingleInputs PROVE Spec => []CleanedUpOnce
<1>1. IInv => CleanedUpOnce
  <2> SUFFICES ASSUME IInv PROVE CleanedUpOnce OBVIOUS
  <2>1. TypeOK /\ PlaceInv /\ OwnInv /\ SlotInv /\ DestroyInv BY DEF IInv
  <2>2. \A s \in Made : released[s] \in {0, 1}
    <3>1. released \in Seq({0, 1}) /\ Len(released) = Len(streams) BY <2>1 DEF TypeOK
    <3>2. Made = 1 .. Len(released) BY <2>1, <3>1, MadeShape
    <3> QED BY <3>1, <3>2, ElementOfSeq
  <2>3. ASSUME pc = "done", NEW s \in Made PROVE released[s] = 1
    <3>1. ~Owned(s)
      <4>1. \A i \in Steps : inputs[i] = <<>> BY <2>1, <2>3 DEF DestroyInv, Gone
      <4>2. DOMAIN <<>> = {} OBVIOUS
      <4> QED BY <4>1, <4>2 DEF Owned, Range
    <3>2. s \notin InSlots BY <2>1, <2>3, InSlotsShape DEF SlotsKnown
    <3>3. ~Passed(s) BY <2>1, <2>3, MadeShape DEF SlotInv, Passed
    <3> QED BY <2>1, <2>2, <3>1, <3>2, <3>3 DEF OwnInv
  <2>4. StreamsReleasedOnce BY <2>2, <2>3 DEF StreamsReleasedOnce
  <2>5. \A i \in Steps : destroys[i] = 0 \/ destroys[i] = IF i \in inited THEN 1 ELSE 0
    BY <2>1 DEF DestroyInv, Gone
  <2>6. pc = "done" => \A i \in inited : destroys[i] = 1
    BY <2>1 DEF DestroyInv, Gone, TypeOK
  <2>7. DestroyedOncePerInit BY <2>5, <2>6 DEF DestroyedOncePerInit
  <2> QED BY <2>1, <2>4, <2>7 DEF CleanedUpOnce
<1> QED BY <1>1, Invariant, PTL

(* The streams are connected as `from:` says, and a step's output is opened  *)
(* only when the step has all its inputs.                                    *)
THEOREM StageIsWired ==
  ASSUME SingleInputs PROVE Spec => []WiringIsSound
<1>1. IInv => WiringIsSound
  <2> SUFFICES ASSUME IInv PROVE WiringIsSound OBVIOUS
  <2>1. TypeOK /\ PlaceInv /\ WiringInv BY DEF IInv
  <2>2. \A s \in Made : streams[s].up \in Steps
    <3>1. streams \in Seq([up : Steps, port : Nat]) BY <2>1 DEF TypeOK
    <3>2. \A s \in Made : streams[s] \in [up : Steps, port : Nat]
      BY <2>1, <3>1, MadeShape, ElementOfSeq
    <3> QED BY <3>2
  <2>3. ASSUME NEW s \in Made, pc \in {"output", "wrap", "input", "drive"}
        PROVE  Len(inputs[streams[s].up]) = Len(stage.from[streams[s].up])
    <3>1. CASE pc = "drive" BY <2>1, <2>2, <2>3, <3>1 DEF WiringInv, Wired, WiredIn
    <3>2. CASE pc \in Connect
      <4>1. PICK m \in Steps : m < k /\ order[m] = streams[s].up
        BY <2>1, <2>3, <3>2 DEF WiringInv, OpenedFromWired
      <4> QED BY <2>1, <3>2, <4>1 DEF WiringInv, WiredSoFar, Wired, WiredIn
    <3> QED BY <2>3, <3>1, <3>2 DEF Connect
  <2>4. ASSUME pc = "drive", NEW i \in Steps
        PROVE  [r \in DOMAIN inputs[i] |-> streams[inputs[i][r]]] = stage.from[i]
    <3>1. /\ Len(inputs[i]) = Len(stage.from[i])
          /\ \A r \in 1 .. Len(stage.from[i]) : streams[inputs[i][r]] = stage.from[i][r]
      BY <2>1, <2>4 DEF WiringInv, Wired, WiredIn
    <3>2. stage.from[i] \in Seq([up : Steps, port : Int]) /\ inputs[i] \in Seq(Made)
      BY <2>1, StageShape, MadeShape
    <3>3. DOMAIN inputs[i] = 1 .. Len(stage.from[i]) BY <3>1, <3>2, LenProperties
    <3>4. stage.from[i] \in [1 .. Len(stage.from[i]) -> [up : Steps, port : Int]]
      BY <3>2, LenProperties
    <3> QED BY <3>1, <3>3, <3>4
  <2> QED BY <2>3, <2>4 DEF WiringIsSound, InputsBeforeOutputs, WiredAsWritten
<1> QED BY <1>1, Invariant, PTL

(* The stage succeeds only if every sink returned BETL_OK; what was drained  *)
(* is always a beginning of the order, in that order (exec.c:457-474).       *)
THEOREM StageDrainsItsSinks ==
  ASSUME SingleInputs PROVE Spec => []SuccessMeansDrained
<1>1. IInv => SuccessMeansDrained
  <2> SUFFICES ASSUME IInv PROVE SuccessMeansDrained OBVIOUS
  <2>1. TypeOK /\ PlaceInv /\ DrainInv BY DEF IInv
  <2>2. \A n : SinksAmong(n) = SinksIn(stage, order, n) BY DEF SinksAmong, SinksIn, IsSink
  <2>3. stage.n \in Nat /\ k \in Nat \ {0} BY <2>1, StageShape DEF TypeOK
  <2>4. \E n \in 0 .. stage.n : Range(drained) = SinksAmong(n)
    <3>1. CASE pc \in Setup \cup Connect
      <4>1. drained = <<>> BY <2>1, <3>1 DEF DrainInv
      <4>2. SinksAmong(0) = {} BY DEF SinksAmong
      <4>3. Range(<<>>) = {} BY DEF Range
      <4>4. 0 \in 0 .. stage.n BY <2>3
      <4> QED BY <4>1, <4>2, <4>3, <4>4
    <3>2. CASE pc = "drive"
      <4>1. k <= stage.n + 1 BY <2>1, <3>2 DEF PlaceInv
      <4>2. k - 1 \in 0 .. stage.n BY <2>3, <4>1
      <4> QED BY <2>1, <2>2, <3>2, <4>2 DEF DrainInv
    <3>3. CASE pc \in Ending BY <2>1, <2>2, <3>3 DEF DrainInv
    <3> QED BY <2>1, <3>1, <3>2, <3>3 DEF TypeOK, Setup, Connect, Ending
  <2>5. pc = "done" /\ rc = "ok" => Range(drained) = SinksAmong(stage.n)
    BY <2>1, <2>2 DEF DrainInv, Ending
  <2>6. InOrder BY <2>1 DEF DrainInv
  <2> QED BY <2>4, <2>5, <2>6 DEF SuccessMeansDrained, InOrder
<1> QED BY <1>1, Invariant, PTL

(* No thread of an edge is inside a step that has been destroyed, if the     *)
(* stages that run in parallel declare upstreams first: steps are destroyed  *)
(* in reverse declaration order, each joining its edges' threads             *)
(* (exec.c:484-490).                                                         *)
THEOREM ThreadsEndBeforeTheirStep ==
  ASSUME SingleInputs, DeclaredInOrder PROVE Spec => []NoTouchAfterDestroy
<1>1. IInv => NoTouchAfterDestroy
  <2> SUFFICES ASSUME IInv, NEW s \in threads PROVE Alive(streams[s].up)
    BY DEF NoTouchAfterDestroy
  <2>1. TypeOK /\ PlaceInv /\ DestroyInv /\ WiringInv /\ ThreadInv BY DEF IInv
  <2>2. PICK i \in Steps : s \in Range(inputs[i]) BY <2>1 DEF ThreadInv, Owned
  <2>3. PICK a \in DOMAIN inputs[i] : inputs[i][a] = s BY <2>2 DEF Range
  <2>4. PICK r \in DOMAIN stage.from[i] : streams[s] = stage.from[i][r]
    BY <2>1, <2>3 DEF WiringInv, InputsNamed
  <2>5. streams[s].up < i
    BY <2>1, <2>4 DEF ThreadInv, Parallel, DeclaredInOrder, TypeOK, Steps
  <2>6. streams[s].up \in Steps /\ stage.n \in Nat /\ k \in Nat
    <3>1. stage.from[i] \in Seq([up : Steps, port : Int]) BY <2>1, StageShape
    <3>2. r \in 1 .. Len(stage.from[i]) BY <3>1
    <3>3. stage.from[i][r] \in [up : Steps, port : Int] BY <3>1, <3>2, ElementOfSeq
    <3> QED BY <2>1, <2>4, <3>3, StageShape DEF TypeOK
  <2>7. inputs[i] # <<>>
    <3>1. DOMAIN <<>> = {} OBVIOUS
    <3> QED BY <2>3, <3>1
  <2>8. destroys[streams[s].up] = 0
    <3>1. CASE pc \notin {"destroy", "done"} BY <2>1, <2>6, <3>1 DEF DestroyInv
    <3>2. CASE pc = "destroy"
      <4>1. ~(i > DestroyTurn) BY <2>1, <2>7, <3>2 DEF DestroyInv, Gone
      <4>2. ~(streams[s].up > DestroyTurn) BY <2>5, <2>6, <4>1 DEF DestroyTurn, Steps
      <4> QED BY <2>1, <2>6, <3>2, <4>2 DEF DestroyInv
    <3>3. CASE pc = "done" BY <2>1, <2>7, <3>3 DEF DestroyInv, Gone
    <3> QED BY <3>1, <3>2, <3>3
  <2>9. streams[s].up \in inited
    <3>1. s \in Made BY <2>1 DEF TypeOK
    <3>2. streams # <<>> BY <3>1 DEF Made
    <3> QED BY <2>1, <2>6, <3>2 DEF PlaceInv
  <2> QED BY <2>8, <2>9 DEF Alive
<1> QED BY <1>1, Invariant, PTL

------------------------------------------------------------------------------
(* One transform in a step: its invariant                                   *)

Ways == {"new", "refused", "ready", "call", "eof", "eio", "dead"}

Streams == [rows : Seq(op.rows), n : Nat, end : {"open", "eof", "err"}, late : BOOLEAN]

TransformType == op \in Ops /\ phase \in Ways /\ in \in [1 .. 2 -> Streams]

NotLate == \A i \in 1 .. 2 : ~in[i].late

\* Nothing happens before init.
Untouched ==
  phase = "new" => outp = << >> /\ \A i \in 1 .. 2 : in[i].rows = << >> /\ in[i].end = "open"

\* The inputs the transform holds to have ended.
Ended(i) ==
  CASE op.kind = "union" -> i < st.cur
    [] op.kind = "join" -> i < st.side
    [] op.kind \in {"sort", "aggregate"} -> st.materialized
    [] op.kind = "pivot" -> st.eof
    [] OTHER -> FALSE

Running == phase \in {"ready", "call"}

\* It is right about them as long as it is called.
EndsAgree == Running => \A i \in Inputs : in[i].end = IF Ended(i) THEN "eof" ELSE "open"

HonestEnd ==
  phase = "eof" =>
    \A i \in Inputs :
      in[i].end = "eof" \/ (op.kind = "limit" /\ in[i].end # "err" /\ Len(outp) = op.n)

\* What the transform keeps between two calls.
StateOf ==
  /\ op.kind = "limit" => st = [emitted |-> Len(outp)]
  /\ op.kind = "union" => \E c \in 1 .. 3 : st = [cur |-> c]
  /\ op.kind = "unpivot" => st = [eof |-> FALSE]
  /\ op.kind = "sort" => \E t : \E m, e \in BOOLEAN :
       st = [tab |-> t, materialized |-> m, emitted |-> e]
  /\ op.kind = "aggregate" => \E g : \E m, e \in BOOLEAN :
       st = [groups |-> g, materialized |-> m, emitted |-> e]
  /\ op.kind = "pivot" => \E p : \E e \in BOOLEAN : st = [p |-> p, eof |-> e]
  /\ op.kind = "join" => \E t, l, p : \E s \in 1 .. 3, e \in BOOLEAN :
       st = [tabs |-> t, side |-> s, li |-> l, pairs |-> p, emitted |-> e]

KeepsState == Running => StateOf

\* The first n rows, all of them if there are fewer.
Least(m, n) == IF m < n THEN m ELSE n
Taken(s, n) == SubSeq(s, 1, Least(Len(s), n))

Passes    == {r \in op.rows : Eval(op.where.e, r) = 1}
MapOf     == [r \in op.rows |-> MapRow(op, r)]
AuditOf   == [r \in op.rows |-> AuditRow(op, r)]
Evaluates == {r \in op.rows : \A j \in DOMAIN op.cols : Eval(MapCols(op)[j], r) # ERR}

\* What was given out, from what came in.
OutputOf ==
  /\ op.kind = "limit" => outp = Taken(Rows(1), op.n)
  /\ op.kind = "union" => outp = Concat(Rows(1), Rows(2)) /\ (Rows(2) # << >> => in[1].end = "eof")
  /\ op.kind = "filter" => outp = Kept(Rows(1), Passes)
  /\ op.kind = "map" => outp = Mapped(MapOf, Rows(1)) /\ Rows(1) \in Seq(Evaluates)
  /\ op.kind = "audit" => outp = Mapped(AuditOf, Rows(1))

GivesOut == Running \/ phase = "eof" => OutputOf

TransformInv ==
  TransformType /\ NotLate /\ Untouched /\ EndsAgree /\ HonestEnd /\ KeepsState /\ GivesOut

------------------------------------------------------------------------------
(* Pulling                                                                  *)

LEMMA BatchesAreRows ==
  ASSUME op \in Ops PROVE Batches \subseteq Seq(op.rows)
<1> SUFFICES ASSUME NEW n \in 0 .. MaxBatch, NEW b \in [1 .. n -> op.rows] PROVE b \in Seq(op.rows)
  BY DEF Batches
<1>1. n \in Nat BY BoundsAssumption
<1> QED BY <1>1

\* What a pull of input i leaves of the inputs when it answers r.
Got(i, r) ==
  /\ in' \in [1 .. 2 -> Streams]
  /\ r.t \in {"eof", "err", "batch"}
  /\ r.t # "batch" => in'[i].rows = in[i].rows
  /\ r.t = "batch" => r.rows \in Seq(op.rows) /\ in'[i].rows = Concat(in[i].rows, r.rows)
  /\ in'[i].end = IF r.t = "batch" THEN "open" ELSE r.t
  /\ \A j \in 1 .. 2 : j # i => in'[j] = in[j]
  /\ NotLate'

LEMMA PullGets ==
  ASSUME TransformType, NotLate, NEW i \in 1 .. 2, in[i].end = "open",
         NEW r \in Responses(i), in' = Delivered(i, r)
  PROVE  Got(i, r)
<1>1. in \in [1 .. 2 -> Streams] BY DEF TransformType
<1>2. PICK s \in Streams : s = in[i] /\ ~s.late /\ s.end = "open" BY <1>1 DEF NotLate
<1>3. \/ r = [t |-> "eof", rows |-> << >>]
      \/ r = [t |-> "err", rows |-> << >>]
      \/ \E b \in Batches : r = [t |-> "batch", rows |-> b]
  BY DEF Responses
<1>4. r.t \in {"eof", "err", "batch"} /\ (r.t # "batch" => r.rows = << >>)
      /\ r.rows \in Seq(op.rows)
  <2>1. << >> \in Seq(op.rows) OBVIOUS
  <2>2. \A b \in Batches : b \in Seq(op.rows) BY BatchesAreRows DEF TransformType
  <2>3. CASE \E b \in Batches : r = [t |-> "batch", rows |-> b]
    <3>1. PICK b : b \in Seq(op.rows) /\ r = [t |-> "batch", rows |-> b] BY <2>2, <2>3
    <3>2. r.t = "batch" /\ r.rows = b BY <3>1
    <3> QED BY <3>1, <3>2
  <2>4. CASE r = [t |-> "eof", rows |-> << >>] \/ r = [t |-> "err", rows |-> << >>]
    <3>1. PICK e \in {"eof", "err"} : r = [t |-> e, rows |-> << >>] BY <2>4
    <3>2. r.t = e /\ r.rows = << >> BY <3>1
    <3> QED BY <2>1, <3>1, <3>2
  <2> QED BY <1>3, <2>3, <2>4
<1>5. PICK x : x = [rows |-> s.rows \o r.rows,
                    n    |-> IF r.t = "batch" THEN s.n + 1 ELSE s.n,
                    end  |-> IF r.t = "batch" THEN s.end ELSE r.t,
                    late |-> s.late \/ s.end # "open"]
  OBVIOUS
<1>6. in' = [in EXCEPT ![i] = x] BY <1>2, <1>5 DEF Delivered
<1>7. s.rows \in Seq(op.rows) /\ s.n \in Nat BY <1>2 DEF Streams
<1>8. x \in Streams
  <2>1. PICK w \in Seq(op.rows) : w = s.rows \o r.rows
    <3>1. PICK a, b \in Seq(op.rows) : a = s.rows /\ b = r.rows BY <1>4, <1>7
    <3>2. a \o b \in Seq(op.rows) OBVIOUS
    <3> QED BY <3>1, <3>2
  <2>2. PICK n \in Nat : n = IF r.t = "batch" THEN s.n + 1 ELSE s.n BY <1>7
  <2>3. PICK e \in {"open", "eof", "err"} : e = IF r.t = "batch" THEN s.end ELSE r.t
    BY <1>2, <1>4
  <2>4. PICK l \in BOOLEAN : l = (s.late \/ s.end # "open") OBVIOUS
  <2>5. x = [rows |-> w, n |-> n, end |-> e, late |-> l] BY <1>5, <2>1, <2>2, <2>3, <2>4
  <2> QED BY <2>5 DEF Streams
<1>9. /\ in' \in [1 .. 2 -> Streams] /\ in'[i] = x
      /\ \A j \in 1 .. 2 : j # i => in'[j] = in[j]
  BY <1>1, <1>6, <1>8
<1>10. x.rows = Concat(s.rows, r.rows) /\ ~x.late /\ x.end = IF r.t = "batch" THEN "open" ELSE r.t
  BY <1>2, <1>5 DEF Concat
<1>11. r.t # "batch" => x.rows = s.rows BY <1>4, <1>7, <1>10, NothingAfter
<1>12. NotLate' BY <1>9, <1>10 DEF NotLate
<1> QED BY <1>2, <1>4, <1>9, <1>10, <1>11, <1>12 DEF Got

\* A step after which no call is answered any more.
LEMMA GivenUp ==
  ASSUME TransformInv, op' = op, phase' \in {"eio", "dead", "refused"},
         in' \in [1 .. 2 -> Streams], NotLate'
  PROVE  TransformInv'
<1>1. TransformType'
  <2>1. Streams' = Streams BY DEF Streams
  <2> QED BY <2>1 DEF TransformInv, TransformType, Ways
<1> QED BY <1>1 DEF TransformInv, Untouched, EndsAgree, HonestEnd, KeepsState, GivesOut, Running

\* The rows that came in are the same.
LEMMA SameRows ==
  ASSUME OutputOf, op' = op, outp' = outp,
         \A i \in 1 .. 2 : in'[i].rows = in[i].rows, in[1].end = "eof" => in'[1].end = "eof"
  PROVE  OutputOf'
<1>1. Rows(1)' = Rows(1) /\ Rows(2)' = Rows(2) BY DEF Rows
<1>2. Passes' = Passes /\ MapOf' = MapOf /\ AuditOf' = AuditOf /\ Evaluates' = Evaluates
  BY DEF Passes, MapOf, AuditOf, Evaluates
<1> QED BY <1>1, <1>2 DEF OutputOf

------------------------------------------------------------------------------
(* Each kind of transform                                                   *)

LEMMA TakenAll ==
  ASSUME NEW S, NEW s \in Seq(S), NEW n \in Nat, Len(s) <= n PROVE Taken(s, n) = s
<1>1. PICK m \in Nat : m = Len(s) BY LenProperties
<1>2. Least(m, n) = m BY <1>1 DEF Least
<1>3. SubSeq(s, 1, m) = s BY <1>1, SubSeqFull
<1> QED BY <1>1, <1>2, <1>3 DEF Taken

LEMMA TakenLength ==
  ASSUME NEW S, NEW s \in Seq(S), NEW n \in Nat
  PROVE  Taken(s, n) \in Seq(S) /\ Len(Taken(s, n)) = Least(Len(s), n)
<1>1. PICK m \in Nat : m = Len(s) BY LenProperties
<1>2. PICK l \in Nat : l = Least(m, n) /\ l <= m BY DEF Least
<1>3. \A i \in 1 .. l : s[i] \in S BY <1>1, <1>2
<1>4. SubSeq(s, 1, l) \in Seq(S) /\ Len(SubSeq(s, 1, l)) = l BY <1>1, <1>2, <1>3
<1> QED BY <1>1, <1>2, <1>4 DEF Taken

\* A batch goes through as far as the limit is not reached.
Cut(b, room) == IF Len(b) <= room THEN b ELSE SubSeq(b, 1, room)

LEMMA TakenGrows ==
  ASSUME NEW S, NEW a \in Seq(S), NEW b \in Seq(S), NEW room \in Nat, NEW n \in Nat, n = Len(a) + room
  PROVE  Cut(b, room) \in Seq(S) /\ Concat(a, Cut(b, room)) = Taken(Concat(a, b), n)
<1>t. PICK t : t = Cut(b, room) OBVIOUS
<1>1. PICK p, q \in Nat : p = Len(a) /\ q = Len(b) BY LenProperties
<1>2. PICK c \in Seq(S) : c = Concat(a, b) BY ConcatIsSeq
<1>3. Chained(c, a, b, p, q) BY <1>1, <1>2, ConcatIs
<1>4. Len(c) = p + q BY <1>3 DEF Chained
<1>5. CASE q <= room
  <2>1. t = b BY <1>1, <1>5, <1>t DEF Cut
  <2>2. Taken(c, n) = c BY <1>1, <1>4, <1>5, TakenAll
  <2> QED BY <1>2, <1>t, <2>1, <2>2
<1>6. CASE ~(q <= room)
  <2>1. PICK l \in Nat : l = room /\ l < q /\ n = p + l BY <1>1, <1>6
  <2>2. t = SubSeq(b, 1, l) BY <1>1, <1>6, <1>t, <2>1 DEF Cut
  <2>3. \A i \in 1 .. q : b[i] \in S BY <1>1, ElementOfSeq
  <2>4. t \in Seq(S) /\ Len(t) = l /\ \A i \in 1 .. l : t[i] = b[i]
    BY <1>1, <2>1, <2>2, <2>3
  <2>5. PICK d \in Seq(S) : d = Taken(c, n) /\ Len(d) = n BY <1>4, <2>1, TakenLength DEF Least
  <2>6. \A i \in 1 .. n : d[i] = c[i]
    <3>1. d = SubSeq(c, 1, n) BY <1>4, <2>1, <2>5 DEF Taken, Least
    <3> QED BY <1>4, <2>1, <3>1
  <2>7. Chained(d, a, t, p, l)
    <3>1. \A i \in 1 .. p : d[i] = a[i] BY <1>3, <2>1, <2>6 DEF Chained
    <3>2. \A i \in 1 .. l : d[p + i] = t[i]
      <4>1. \A i \in 1 .. l : p + i \in 1 .. n /\ i \in 1 .. q BY <2>1
      <4>2. \A i \in 1 .. q : c[p + i] = b[i] BY <1>3 DEF Chained
      <4> QED BY <2>4, <2>6, <4>1, <4>2
    <3> QED BY <2>1, <2>5, <3>1, <3>2 DEF Chained
  <2>8. d = Concat(a, t) BY <1>1, <2>4, <2>7, IsConcat
  <2> QED BY <1>2, <1>t, <2>4, <2>5, <2>8
<1> QED BY <1>1, <1>5, <1>6

\* A call that is answered with the end, or goes on, after a pull that gave
\* no row; one that gave rows.
LEMMA Answers ==
  ASSUME TransformInv, Running, op' = op, in' \in [1 .. 2 -> Streams], NotLate',
         phase' \in {"ready", "call", "eof"}, EndsAgree', HonestEnd', KeepsState', OutputOf'
  PROVE  TransformInv'
<1>1. Streams' = Streams BY DEF Streams
<1>2. TransformType' BY <1>1 DEF TransformInv, TransformType, Ways
<1> QED BY <1>2 DEF TransformInv, Untouched, GivesOut

LEMMA LimitKeeps ==
  ASSUME TransformInv, LimitNext PROVE TransformInv'
<1>0. /\ phase = "call" /\ op.kind = "limit" /\ Running /\ op \in Ops
      /\ in \in [1 .. 2 -> Streams] /\ NotLate
  BY DEF LimitNext, TransformInv, TransformType, Running
<1>n. op.n \in Nat BY <1>0, OpsAssumption
<1>in. Inputs = {1} BY <1>0 DEF Inputs
<1>S. PICK S : S = op.rows OBVIOUS
<1>rows. PICK s \in Seq(S) : s = in[1].rows BY <1>0, <1>S DEF Streams
<1>1. /\ in[1].end = "open" /\ st = [emitted |-> Len(outp)]
      /\ outp = Taken(s, op.n)
  BY <1>0, <1>in, <1>rows DEF TransformInv, EndsAgree, Ended, KeepsState, StateOf, GivesOut, OutputOf, Rows
<1>2. outp \in Seq(S) /\ Len(outp) = Least(Len(s), op.n) BY <1>n, <1>1, TakenLength
<1>st. st.emitted = Len(outp) BY <1>1
<1>3. CASE op.n - st.emitted <= 0 /\ EndOfStream /\ UNCHANGED in
  <2>1. op' = op /\ outp' = outp /\ phase' = "eof" /\ in' = in BY <1>3 DEF EndOfStream, Answer
  <2>2. Len(outp) = op.n BY <1>n, <1>2, <1>3, <1>st, LenProperties DEF Least
  <2>3. HonestEnd' BY <1>0, <1>1, <1>in, <2>1, <2>2 DEF HonestEnd, Inputs
  <2>4. OutputOf' BY <1>0, <2>1, SameRows DEF TransformInv, GivesOut
  <2>5. NotLate' BY <1>0, <2>1 DEF NotLate
  <2> QED BY <1>0, <2>1, <2>3, <2>4, <2>5, Answers DEF EndsAgree, KeepsState, Running
<1>4. ASSUME ~(op.n - st.emitted <= 0), NEW r \in Responses(1), Got(1, r), r.t = "err", FailCall
      PROVE  TransformInv'
  <2>1. op' = op /\ phase' = "eio" BY <1>4 DEF FailCall, Answer
  <2> QED BY <1>4, <2>1, GivenUp DEF Got
<1>5. ASSUME NEW r \in Responses(1), Got(1, r), r.t = "eof", EndOfStream
      PROVE  TransformInv'
  <2>1. op' = op /\ outp' = outp /\ phase' = "eof" BY <1>5 DEF EndOfStream, Answer
  <2>2. in'[1].end = "eof" /\ \A i \in 1 .. 2 : in'[i].rows = in[i].rows BY <1>5 DEF Got
  <2>3. HonestEnd' BY <1>in, <2>1, <2>2 DEF HonestEnd, Inputs
  <2>4. OutputOf' BY <1>0, <2>1, <2>2, SameRows DEF TransformInv, GivesOut
  <2> QED BY <1>0, <1>5, <2>1, <2>3, <2>4, Answers DEF EndsAgree, KeepsState, Running, Got
<1>6. ASSUME ~(op.n - st.emitted <= 0), NEW r \in Responses(1), Got(1, r), r.t = "batch",
             Emit(LimitTake(op, st.emitted, r.rows)),
             st' = [emitted |-> st.emitted + Len(LimitTake(op, st.emitted, r.rows))]
      PROVE  TransformInv'
  <2>1. PICK b \in Seq(S) : b = r.rows /\ in'[1].rows = Concat(s, b) BY <1>6, <1>S, <1>rows DEF Got
  <2>2. PICK x : x = LimitTake(op, st.emitted, b) OBVIOUS
  <2>3. Len(outp) < op.n BY <1>n, <1>2, <1>6, <1>st, LenProperties DEF Least
  <2>4. outp = s
    <3>1. Len(s) <= op.n BY <1>n, <1>2, <2>3, LenProperties DEF Least
    <3> QED BY <1>n, <1>1, <3>1, TakenAll
  <2>5. x = IF Len(b) <= op.n - Len(s) THEN b ELSE SubSeq(b, 1, op.n - Len(s))
    BY <1>st, <2>2, <2>4 DEF LimitTake, SliceBatch
  <2>6. x \in Seq(S) /\ Concat(s, x) = Taken(Concat(s, b), op.n)
    <3>1. PICK n, m \in Nat : n = op.n /\ m = Len(s) BY <1>n, LenProperties
    <3>2. PICK room \in Nat : room = n - m /\ n = m + room
      <4>1. m < n BY <2>3, <2>4, <3>1
      <4>2. n - m \in Nat /\ n = m + (n - m) BY <4>1
      <4> QED BY <4>2
    <3>3. n = Len(s) + room BY <3>1, <3>2
    <3>4. PICK y : y = Cut(b, room) OBVIOUS
    <3>5. y \in Seq(S) /\ Concat(s, y) = Taken(Concat(s, b), n) BY <3>3, <3>4, TakenGrows
    <3>6. x = y BY <2>5, <3>1, <3>2, <3>4 DEF Cut
    <3> QED BY <3>1, <3>5, <3>6
  <2>7. op' = op /\ outp' = Concat(s, x) /\ phase' = "ready"
    BY <1>6, <2>1, <2>2, <2>4 DEF Emit, Concat
  <2>8. OutputOf'
    <3>1. Rows(1)' = Concat(s, b) BY <2>1 DEF Rows
    <3> QED BY <1>0, <2>6, <2>7, <3>1 DEF OutputOf
  <2>9. st' = [emitted |-> Len(outp')]
    <3>1. Len(Concat(s, x)) = Len(s) + Len(x) BY <2>6 DEF Concat
    <3> QED BY <1>6, <1>st, <2>1, <2>2, <2>4, <2>7, <3>1
  <2>10. KeepsState' BY <1>0, <2>7, <2>9 DEF KeepsState, StateOf
  <2>11. EndsAgree' BY <1>0, <1>6, <1>in, <2>7 DEF EndsAgree, Ended, Got, Inputs
  <2>12. HonestEnd' BY <2>7 DEF HonestEnd
  <2> QED BY <1>0, <1>6, <2>7, <2>8, <2>10, <2>11, <2>12, Answers DEF Got
<1>7. CASE ~(op.n - st.emitted <= 0)
  <2>1. PICK r \in Responses(1) :
          /\ in' = Delivered(1, r)
          /\ \/ r.t = "err" /\ FailCall
             \/ r.t = "eof" /\ EndOfStream
             \/ /\ r.t = "batch" /\ Emit(LimitTake(op, st.emitted, r.rows))
                /\ st' = [emitted |-> st.emitted + Len(LimitTake(op, st.emitted, r.rows))]
    BY <1>7 DEF LimitNext, Pull
  <2>2. Got(1, r) BY <1>0, <1>1, <2>1, PullGets DEF TransformInv
  <2> QED BY <1>4, <1>5, <1>6, <1>7, <2>1, <2>2
<1> QED BY <1>3, <1>7 DEF LimitNext

LEMMA UnionKeeps ==
  ASSUME TransformInv, UnionNext PROVE TransformInv'
<1>0. /\ phase = "call" /\ op.kind = "union" /\ Running /\ op \in Ops
      /\ in \in [1 .. 2 -> Streams] /\ NotLate
  BY DEF UnionNext, TransformInv, TransformType, Running
<1>in. Inputs = 1 .. 2 BY <1>0 DEF Inputs
<1>S. PICK S : S = op.rows OBVIOUS
<1>rows. PICK s, t \in Seq(S) : s = in[1].rows /\ t = in[2].rows BY <1>0, <1>S DEF Streams
<1>1. PICK c \in 1 .. 3 : st = [cur |-> c]
  BY <1>0 DEF TransformInv, KeepsState, StateOf
<1>2. st.cur = c BY <1>1
<1>3. \A i \in 1 .. 2 : in[i].end = IF i < c THEN "eof" ELSE "open"
  BY <1>0, <1>2, <1>in DEF TransformInv, EndsAgree, Ended
<1>4. outp = Concat(s, t) /\ (t # << >> => in[1].end = "eof")
  BY <1>0, <1>rows DEF TransformInv, GivesOut, OutputOf, Rows
<1>5. CASE c = 3
  <2>1. EndOfStream /\ UNCHANGED in BY <1>2, <1>5 DEF UnionNext
  <2>2. op' = op /\ outp' = outp /\ phase' = "eof" /\ in' = in BY <2>1 DEF EndOfStream, Answer
  <2>3. HonestEnd' BY <1>3, <1>5, <1>in, <2>2 DEF HonestEnd, Inputs
  <2>4. OutputOf' BY <1>0, <2>2, SameRows DEF TransformInv, GivesOut
  <2>5. NotLate' BY <1>0, <2>2 DEF NotLate
  <2> QED BY <1>0, <2>2, <2>3, <2>4, <2>5, Answers DEF EndsAgree, KeepsState, Running
<1>6. ASSUME c \in 1 .. 2, NEW r \in Responses(c), Got(c, r), r.t = "err", FailCall
      PROVE  TransformInv'
  <2>1. op' = op /\ phase' = "eio" BY <1>6 DEF FailCall, Answer
  <2> QED BY <1>6, <2>1, GivenUp DEF Got
<1>7. ASSUME c \in 1 .. 2, NEW r \in Responses(c), Got(c, r), r.t = "eof",
             Continue, st' = [cur |-> st.cur + 1]
      PROVE  TransformInv'
  <2>1. op' = op /\ outp' = outp /\ phase' = "call" BY <1>7 DEF Continue, Answer
  <2>2. \A i \in 1 .. 2 : in'[i].rows = in[i].rows BY <1>7 DEF Got
  <2>3. st' = [cur |-> c + 1] /\ c + 1 \in 1 .. 3 /\ st'.cur = c + 1 BY <1>2, <1>7
  <2>4. \A i \in 1 .. 2 : in'[i].end = IF i < c + 1 THEN "eof" ELSE "open"
    <3>1. \A i \in 1 .. 2 : i # c => in'[i] = in[i] BY <1>7 DEF Got
    <3>2. in'[c].end = "eof" BY <1>7 DEF Got
    <3> QED BY <1>3, <3>1, <3>2
  <2>5. EndsAgree' BY <1>0, <1>in, <2>1, <2>3, <2>4 DEF EndsAgree, Ended, Inputs
  <2>6. in[1].end = "eof" => in'[1].end = "eof" BY <1>3, <2>4
  <2>7. OutputOf' BY <1>0, <2>1, <2>2, <2>6, SameRows DEF TransformInv, GivesOut
  <2>8. KeepsState' BY <1>0, <2>1, <2>3 DEF KeepsState, StateOf
  <2> QED BY <1>0, <1>7, <2>1, <2>5, <2>7, <2>8, Answers DEF HonestEnd, Got
<1>8. ASSUME c \in 1 .. 2, NEW r \in Responses(c), Got(c, r), r.t = "batch",
             Emit(r.rows), UNCHANGED st
      PROVE  TransformInv'
  <2>1. op' = op /\ phase' = "ready" BY <1>8 DEF Emit
  <2>2. PICK b \in Seq(S) : b = r.rows /\ in'[c].rows = Concat(in[c].rows, b)
    BY <1>8, <1>S DEF Got
  <2>3. outp' = Concat(Concat(s, t), b) BY <1>4, <1>8, <2>2 DEF Emit, Concat
  <2>4. \A i \in 1 .. 2 : i # c => in'[i] = in[i] BY <1>8 DEF Got
  <2>5. \A i \in 1 .. 2 : in'[i].end = in[i].end
    <3>1. in'[c].end = "open" BY <1>8 DEF Got
    <3> QED BY <1>3, <2>4, <3>1
  <2>6. outp' = Concat(in'[1].rows, in'[2].rows) /\ (in'[2].rows # << >> => in'[1].end = "eof")
    <3>1. CASE c = 1
      <4>1. t = << >> BY <1>3, <1>4, <3>1
      <4>2. in'[1].rows = Concat(s, b) /\ in'[2].rows = t BY <1>rows, <2>2, <2>4, <3>1
      <4>3. Concat(s, t) = s BY <4>1, NothingAfter
      <4>4. Concat(Concat(s, b), t) = Concat(s, b)
        <5>1. PICK w \in Seq(S) : w = Concat(s, b) BY ConcatIsSeq
        <5> QED BY <4>1, <5>1, NothingAfter
      <4> QED BY <2>3, <4>1, <4>2, <4>3, <4>4
    <3>2. CASE c = 2
      <4>1. in'[1].rows = s /\ in'[2].rows = Concat(t, b) BY <1>rows, <2>2, <2>4, <3>2
      <4>2. Concat(Concat(s, t), b) = Concat(s, Concat(t, b)) BY ConcatAssociates
      <4> QED BY <1>3, <2>3, <2>5, <3>2, <4>1, <4>2
    <3> QED BY <1>8, <3>1, <3>2
  <2>7. OutputOf' BY <1>0, <2>1, <2>6 DEF OutputOf, Rows
  <2>8. EndsAgree' BY <1>0, <1>2, <1>3, <1>8, <1>in, <2>1, <2>5 DEF EndsAgree, Ended, Inputs
  <2>9. KeepsState' BY <1>0, <1>1, <1>8, <2>1 DEF KeepsState, StateOf
  <2> QED BY <1>0, <1>8, <2>1, <2>7, <2>8, <2>9, Answers DEF HonestEnd, Got
<1>9. CASE c \in 1 .. 2
  <2>1. PICK r \in Responses(c) :
          /\ in' = Delivered(c, r)
          /\ \/ r.t = "err" /\ FailCall
             \/ r.t = "eof" /\ Continue /\ st' = [cur |-> st.cur + 1]
             \/ r.t = "batch" /\ Emit(r.rows) /\ UNCHANGED st
    BY <1>2, <1>9 DEF UnionNext, Pull
  <2>2. Got(c, r) BY <1>0, <1>3, <1>9, <2>1, PullGets DEF TransformInv
  <2> QED BY <1>6, <1>7, <1>8, <1>9, <2>1, <2>2
<1> QED BY <1>5, <1>9


\* A pull that fails; one of the only input that ends the stream.
LEMMA PullFails ==
  ASSUME TransformInv, NEW i \in 1 .. 2, NEW r, Got(i, r), FailCall PROVE TransformInv'
<1>1. op' = op /\ phase' = "eio" BY DEF FailCall, Answer
<1> QED BY <1>1, GivenUp DEF Got

LEMMA StreamEnds ==
  ASSUME TransformInv, phase = "call", op.kind # "union", op.kind # "join",
         NEW r, Got(1, r), r.t = "eof", op' = op, outp' = outp, phase' = "eof"
  PROVE  TransformInv'
<1>1. in'[1].end = "eof" /\ \A i \in 1 .. 2 : in'[i].rows = in[i].rows BY DEF Got
<1>2. HonestEnd' BY <1>1 DEF HonestEnd, Inputs
<1>3. OutputOf' BY <1>1, SameRows DEF TransformInv, GivesOut, Running
<1> QED BY <1>2, <1>3, Answers DEF EndsAgree, KeepsState, Running, Got

\* A batch of an input that the transform does not count on to have ended.
LEMMA BatchComes ==
  ASSUME TransformInv, phase = "call", op.kind \in RowWise \cup {"distinct"},
         NEW r, Got(1, r), r.t = "batch", op' = op, phase' \in {"ready", "call"},
         KeepsState', OutputOf'
  PROVE  TransformInv'
<1>1. in'[1].end = "open" BY DEF Got
<1>2. EndsAgree' BY <1>1 DEF EndsAgree, Ended, Inputs, RowWise
<1> QED BY <1>2, Answers DEF HonestEnd, Running, Got

\* What the mask of a filter leaves of a batch.
LEMMA FilterLeaves ==
  ASSUME op \in Ops, op.kind = "filter", NEW b \in Seq(op.rows), ~EvalFails(op.where.e, b)
  PROVE  FilterBatch(op, b) = Kept(b, Passes)
<1>1. PICK n \in Nat : n = Len(b) BY LenProperties
<1>2. DOMAIN b = 1 .. n /\ \A i \in 1 .. n : b[i] \in op.rows BY <1>1
<1> DEFINE S == 1 .. n
           idx == [i \in 1 .. n |-> i]
           A == {i \in 1 .. n : Eval(op.where.e, b[i]) \notin {NULL, 0}}
<1>3. idx \in Seq(S) /\ Len(idx) = n OBVIOUS
<1>4. \A i \in S : i \in A <=> b[i] \in Passes
  <2> SUFFICES ASSUME NEW i \in 1 .. n
               PROVE  Eval(op.where.e, b[i]) \notin {NULL, 0} <=> Eval(op.where.e, b[i]) = 1
    BY <1>2 DEF Passes
  <2>1. PICK v : v = Eval(op.where.e, b[i]) OBVIOUS
  <2>2. v \in {0, 1, NULL, ERR} BY <1>2, <2>1, PredicateAssumption
  <2>3. v # ERR BY <1>2, <2>1 DEF EvalFails
  <2> QED BY <2>1, <2>2, <2>3, NullAssumption
<1>5. Mapped(b, idx) = b
  <2>1. Mapped(b, idx) = [i \in 1 .. n |-> b[i]] BY <1>3 DEF Mapped
  <2> QED BY <1>2, <2>1
<1>6. FilterBatch(op, b) = Mapped(b, Kept(idx, A))
  <2>1. PICK keep : keep = [i \in 1 .. n |-> Eval(op.where.e, b[i]) \notin {NULL, 0}] OBVIOUS
  <2>2. A = {i \in 1 .. n : keep[i]} BY <2>1
  <2>3. FilterBatch(op, b) = KeepRows(b, keep) BY <1>2, <2>1 DEF FilterBatch
  <2>4. PICK kept \in Seq(S) : kept = Kept(idx, A)
    <3> HIDE DEF idx, A, S
    <3> QED BY <1>3, KeptIsSeq
  <2>5. KeepRows(b, keep) = [i \in DOMAIN kept |-> b[kept[i]]] BY <1>2, <2>2, <2>4 DEF KeepRows
  <2>6. DOMAIN kept = 1 .. Len(kept) OBVIOUS
  <2> QED BY <2>3, <2>4, <2>5, <2>6 DEF Mapped
<1> HIDE DEF idx, A, S
<1>7. Mapped(b, Kept(idx, A)) = Kept(Mapped(b, idx), Passes) BY <1>3, <1>4, KeptThrough
<1> QED BY <1>5, <1>6, <1>7

LEMMA FilterKeeps ==
  ASSUME TransformInv, FilterNext PROVE TransformInv'
<1>0. /\ phase = "call" /\ op.kind = "filter" /\ Running /\ op \in Ops
      /\ in \in [1 .. 2 -> Streams] /\ NotLate
  BY DEF FilterNext, TransformInv, TransformType, Running
<1>1. in[1].end = "open" BY <1>0 DEF TransformInv, EndsAgree, Ended, Inputs
<1>2. PICK r \in Responses(1) :
        /\ in' = Delivered(1, r)
        /\ \/ r.t = "err" /\ FailCall
           \/ r.t = "eof" /\ EndOfStream
           \/ r.t = "batch" /\ (IF EvalFails(op.where.e, r.rows) THEN FailCall
                                ELSE Emit(FilterBatch(op, r.rows)) /\ UNCHANGED st)
  BY DEF FilterNext, Pull
<1>3. Got(1, r) BY <1>0, <1>1, <1>2, PullGets DEF TransformInv
<1>4. CASE FailCall BY <1>3, <1>4, PullFails
<1>5. CASE r.t = "eof" /\ EndOfStream
  BY <1>0, <1>3, <1>5, StreamEnds DEF EndOfStream, Answer
<1>6. CASE r.t = "batch" /\ ~EvalFails(op.where.e, r.rows) /\ Emit(FilterBatch(op, r.rows))
  <2>1. op' = op /\ phase' = "ready" BY <1>6 DEF Emit
  <2>S. PICK S : S = op.rows OBVIOUS
  <2>2. PICK s, b \in Seq(S) : s = in[1].rows /\ b = r.rows /\ in'[1].rows = Concat(s, b)
    BY <1>0, <1>3, <1>6, <2>S DEF Got, Streams
  <2>3. outp' = Concat(Kept(s, Passes), Kept(b, Passes))
    <3>1. outp = Kept(s, Passes) BY <1>0, <2>2 DEF TransformInv, GivesOut, OutputOf, Rows
    <3>2. FilterBatch(op, b) = Kept(b, Passes) BY <1>0, <1>6, <2>2, <2>S, FilterLeaves
    <3> QED BY <1>6, <2>2, <3>1, <3>2 DEF Emit, Concat
  <2>4. Kept(Concat(s, b), Passes) = Concat(Kept(s, Passes), Kept(b, Passes)) BY KeptJoins
  <2>5. Passes' = Passes BY <2>1 DEF Passes
  <2>6. OutputOf' BY <1>0, <2>1, <2>2, <2>3, <2>4, <2>5 DEF OutputOf, Rows
  <2>7. KeepsState' BY <1>0, <2>1 DEF KeepsState, StateOf
  <2> QED BY <1>0, <1>3, <1>6, <2>1, <2>6, <2>7, BatchComes DEF RowWise
<1> QED BY <1>2, <1>4, <1>5, <1>6

\* The rows that no expression fails on.
LEMMA RowsEvaluate ==
  ASSUME NEW b \in Seq(op.rows), ~MapFails(op, b) PROVE b \in Seq(Evaluates)
<1>1. \A i \in 1 .. Len(b) : b[i] \in op.rows OBVIOUS
<1>2. \A i \in 1 .. Len(b) : b[i] \in Evaluates
  <2> SUFFICES ASSUME NEW i \in 1 .. Len(b), NEW j \in DOMAIN op.cols
               PROVE  Eval(MapCols(op)[j], b[i]) # ERR
    BY <1>1 DEF Evaluates
  <2>1. i \in DOMAIN b OBVIOUS
  <2> QED BY <2>1 DEF MapFails, EvalFails
<1> QED BY <1>2

LEMMA MapKeeps ==
  ASSUME TransformInv, MapNext PROVE TransformInv'
<1>0. /\ phase = "call" /\ op.kind = "map" /\ Running /\ op \in Ops
      /\ in \in [1 .. 2 -> Streams] /\ NotLate
  BY DEF MapNext, TransformInv, TransformType, Running
<1>1. in[1].end = "open" BY <1>0 DEF TransformInv, EndsAgree, Ended, Inputs
<1>2. PICK r \in Responses(1) :
        /\ in' = Delivered(1, r)
        /\ \/ r.t = "err" /\ FailCall
           \/ r.t = "eof" /\ EndOfStream
           \/ r.t = "batch" /\ (IF MapFails(op, r.rows) THEN FailCall
                                ELSE /\ Emit([i \in DOMAIN r.rows |-> MapRow(op, r.rows[i])])
                                     /\ UNCHANGED st)
  BY DEF MapNext, Pull
<1>3. Got(1, r) BY <1>0, <1>1, <1>2, PullGets DEF TransformInv
<1>4. CASE FailCall BY <1>3, <1>4, PullFails
<1>5. CASE r.t = "eof" /\ EndOfStream
  BY <1>0, <1>3, <1>5, StreamEnds DEF EndOfStream, Answer
<1>6. CASE r.t = "batch" /\ ~MapFails(op, r.rows)
             /\ Emit([i \in DOMAIN r.rows |-> MapRow(op, r.rows[i])])
  <2>1. op' = op /\ phase' = "ready" BY <1>6 DEF Emit
  <2>S. PICK S : S = op.rows OBVIOUS
  <2>2. PICK s, b \in Seq(S) : s = in[1].rows /\ b = r.rows /\ in'[1].rows = Concat(s, b)
    BY <1>0, <1>3, <1>6, <2>S DEF Got, Streams
  <2>3. outp = Mapped(MapOf, s) /\ s \in Seq(Evaluates)
    BY <1>0, <2>2 DEF TransformInv, GivesOut, OutputOf, Rows
  <2>4. [i \in DOMAIN b |-> MapRow(op, b[i])] = Mapped(MapOf, b)
    <3>1. DOMAIN b = 1 .. Len(b) /\ \A i \in 1 .. Len(b) : b[i] \in op.rows BY <2>S
    <3> QED BY <3>1 DEF Mapped, MapOf
  <2>5. outp' = Concat(Mapped(MapOf, s), Mapped(MapOf, b))
    BY <1>6, <2>2, <2>3, <2>4 DEF Emit, Concat
  <2>6. Mapped(MapOf, Concat(s, b)) = Concat(Mapped(MapOf, s), Mapped(MapOf, b))
    BY MappedOfConcat
  <2>7. MapOf' = MapOf /\ Evaluates' = Evaluates BY <2>1 DEF MapOf, Evaluates
  <2>8. Concat(s, b) \in Seq(Evaluates)
    <3>1. b \in Seq(Evaluates) BY <1>6, <2>2, <2>S, RowsEvaluate
    <3> QED BY <2>3, <3>1, ConcatIsSeq
  <2>9. OutputOf' BY <1>0, <2>1, <2>2, <2>5, <2>6, <2>7, <2>8 DEF OutputOf, Rows
  <2>10. KeepsState' BY <1>0, <2>1 DEF KeepsState, StateOf
  <2> QED BY <1>0, <1>3, <1>6, <2>1, <2>9, <2>10, BatchComes DEF RowWise
<1> QED BY <1>2, <1>4, <1>5, <1>6

LEMMA AuditKeeps ==
  ASSUME TransformInv, AuditNext PROVE TransformInv'
<1>0. /\ phase = "call" /\ op.kind = "audit" /\ Running /\ op \in Ops
      /\ in \in [1 .. 2 -> Streams] /\ NotLate
  BY DEF AuditNext, TransformInv, TransformType, Running
<1>1. in[1].end = "open" BY <1>0 DEF TransformInv, EndsAgree, Ended, Inputs
<1>2. PICK r \in Responses(1) :
        /\ in' = Delivered(1, r)
        /\ \/ r.t = "err" /\ FailCall
           \/ r.t = "eof" /\ EndOfStream
           \/ r.t = "batch" /\ Emit([i \in DOMAIN r.rows |-> AuditRow(op, r.rows[i])])
  BY DEF AuditNext, Pull
<1>3. Got(1, r) BY <1>0, <1>1, <1>2, PullGets DEF TransformInv
<1>4. CASE FailCall BY <1>3, <1>4, PullFails
<1>5. CASE r.t = "eof" /\ EndOfStream
  BY <1>0, <1>3, <1>5, StreamEnds DEF EndOfStream, Answer
<1>6. CASE r.t = "batch" /\ Emit([i \in DOMAIN r.rows |-> AuditRow(op, r.rows[i])])
  <2>1. op' = op /\ phase' = "ready" BY <1>6 DEF Emit
  <2>S. PICK S : S = op.rows OBVIOUS
  <2>2. PICK s, b \in Seq(S) : s = in[1].rows /\ b = r.rows /\ in'[1].rows = Concat(s, b)
    BY <1>0, <1>3, <1>6, <2>S DEF Got, Streams
  <2>3. outp = Mapped(AuditOf, s)
    BY <1>0, <2>2 DEF TransformInv, GivesOut, OutputOf, Rows
  <2>4. [i \in DOMAIN b |-> AuditRow(op, b[i])] = Mapped(AuditOf, b)
    <3>1. DOMAIN b = 1 .. Len(b) /\ \A i \in 1 .. Len(b) : b[i] \in op.rows BY <2>S
    <3> QED BY <3>1 DEF Mapped, AuditOf
  <2>5. outp' = Concat(Mapped(AuditOf, s), Mapped(AuditOf, b))
    BY <1>6, <2>2, <2>3, <2>4 DEF Emit, Concat
  <2>6. Mapped(AuditOf, Concat(s, b)) = Concat(Mapped(AuditOf, s), Mapped(AuditOf, b))
    BY MappedOfConcat
  <2>7. AuditOf' = AuditOf BY <2>1 DEF AuditOf
  <2>8. OutputOf' BY <1>0, <2>1, <2>2, <2>5, <2>6, <2>7 DEF OutputOf, Rows
  <2>9. KeepsState' BY <1>0, <2>1 DEF KeepsState, StateOf
  <2> QED BY <1>0, <1>3, <1>6, <2>1, <2>8, <2>9, BatchComes DEF RowWise
<1> QED BY <1>2, <1>4, <1>5, <1>6

\* unpivot and distinct pull one input and keep nothing of it.
LEMMA UnpivotKeeps ==
  ASSUME TransformInv, UnpivotNext PROVE TransformInv'
<1>0. /\ phase = "call" /\ op.kind = "unpivot" /\ Running /\ op \in Ops
      /\ in \in [1 .. 2 -> Streams] /\ NotLate
  BY DEF UnpivotNext, TransformInv, TransformType, Running
<1>1. in[1].end = "open" /\ st = [eof |-> FALSE]
  BY <1>0 DEF TransformInv, EndsAgree, Ended, Inputs, KeepsState, StateOf
<1>2. PICK r \in Responses(1) :
        /\ in' = Delivered(1, r)
        /\ \/ r.t = "err" /\ FailCall
           \/ r.t = "eof" /\ Answer("eof")
           \/ r.t = "batch" /\ (IF UnpivotFails(op) THEN FailCall
                                ELSE Emit(UnpivotBatch(op, r.rows)) /\ UNCHANGED st)
  <2>1. ~st.eof BY <1>1
  <2> QED BY <2>1 DEF UnpivotNext, Pull
<1>3. Got(1, r) BY <1>0, <1>1, <1>2, PullGets DEF TransformInv
<1>4. CASE FailCall BY <1>3, <1>4, PullFails
<1>5. CASE r.t = "eof" /\ Answer("eof") BY <1>0, <1>3, <1>5, StreamEnds DEF Answer
<1>6. CASE r.t = "batch" /\ Emit(UnpivotBatch(op, r.rows)) /\ UNCHANGED st
  <2>1. op' = op /\ phase' = "ready" BY <1>6 DEF Emit
  <2>2. OutputOf' BY <1>0, <2>1 DEF OutputOf
  <2>3. KeepsState' BY <1>0, <1>1, <1>6, <2>1 DEF KeepsState, StateOf
  <2> QED BY <1>0, <1>3, <1>6, <2>1, <2>2, <2>3, BatchComes DEF RowWise
<1> QED BY <1>2, <1>4, <1>5, <1>6

LEMMA DistinctKeeps ==
  ASSUME TransformInv, DistinctNext PROVE TransformInv'
<1>0. /\ phase = "call" /\ op.kind = "distinct" /\ Running /\ op \in Ops
      /\ in \in [1 .. 2 -> Streams] /\ NotLate
  BY DEF DistinctNext, TransformInv, TransformType, Running
<1>1. in[1].end = "open" BY <1>0 DEF TransformInv, EndsAgree, Ended, Inputs
<1>2. PICK r \in Responses(1) :
        /\ in' = Delivered(1, r)
        /\ \/ r.t = "err" /\ FailCall
           \/ r.t = "eof" /\ EndOfStream
           \/ r.t = "batch" /\ (LET d == DistinctBatch(op, st.seen, r.rows)
                                IN  /\ st' = [seen |-> d.seen]
                                    /\ IF d.kept = << >> THEN Continue ELSE Emit(d.kept))
  BY DEF DistinctNext, Pull
<1>3. Got(1, r) BY <1>0, <1>1, <1>2, PullGets DEF TransformInv
<1>4. CASE FailCall BY <1>3, <1>4, PullFails
<1>5. CASE r.t = "eof" /\ EndOfStream
  BY <1>0, <1>3, <1>5, StreamEnds DEF EndOfStream, Answer
<1>6. ASSUME r.t = "batch", NEW d, Continue \/ Emit(d) PROVE TransformInv'
  <2>1. op' = op /\ phase' \in {"ready", "call"} BY <1>6 DEF Emit, Continue, Answer
  <2>2. OutputOf' BY <1>0, <2>1 DEF OutputOf
  <2>3. KeepsState' BY <1>0, <2>1 DEF KeepsState, StateOf
  <2> QED BY <1>0, <1>3, <1>6, <2>1, <2>2, <2>3, BatchComes
<1> QED BY <1>2, <1>4, <1>5, <1>6

\* The other kinds give out rows this invariant says nothing of.
LEMMA NotRowWise ==
  ASSUME op.kind \in {"sort", "aggregate", "pivot", "join"}, op' = op PROVE OutputOf'
BY DEF OutputOf

\* sort and aggregate read their input to its end before they answer.
Gathers(what) ==
  /\ op.kind = what /\ phase = "call" /\ ~st.materialized
  /\ IF cancel THEN FailCall /\ UNCHANGED in
     ELSE \E r \in Responses(1) :
            /\ in' = Delivered(1, r)
            /\ \/ FailCall
               \/ /\ r.t = "batch" /\ Continue
                  /\ IF what = "sort" THEN \E t : st' = [st EXCEPT !.tab = t]
                     ELSE \E g : st' = [st EXCEPT !.groups = g]
               \/ r.t = "eof" /\ Continue /\ st' = [st EXCEPT !.materialized = TRUE]

LEMMA GatherKeeps ==
  ASSUME TransformInv, NEW what \in {"sort", "aggregate"}, Gathers(what) PROVE TransformInv'
<1>0. /\ phase = "call" /\ op.kind = what /\ Running /\ op \in Ops
      /\ in \in [1 .. 2 -> Streams] /\ NotLate /\ ~st.materialized
  BY DEF Gathers, TransformInv, TransformType, Running
<1>in. Inputs = {1} BY <1>0 DEF Inputs
<1>1. in[1].end = "open" BY <1>0, <1>in DEF TransformInv, EndsAgree, Ended
<1>2. CASE cancel
  <2>1. op' = op /\ phase' = "eio" /\ in' = in BY <1>2 DEF Gathers, FailCall, Answer
  <2> QED BY <1>0, <2>1, GivenUp DEF NotLate
<1>3. CASE ~cancel
  <2>1. PICK r \in Responses(1) :
          /\ in' = Delivered(1, r)
          /\ \/ FailCall
             \/ /\ r.t = "batch" /\ Continue
                /\ IF what = "sort" THEN \E t : st' = [st EXCEPT !.tab = t]
                   ELSE \E g : st' = [st EXCEPT !.groups = g]
             \/ r.t = "eof" /\ Continue /\ st' = [st EXCEPT !.materialized = TRUE]
    BY <1>3 DEF Gathers
  <2>2. Got(1, r) BY <1>0, <1>1, <2>1, PullGets DEF TransformInv
  <2>3. CASE FailCall BY <2>2, <2>3, PullFails
  <2>4. CASE ~FailCall
    <3>1. op' = op /\ phase' = "call" /\ r.t \in {"batch", "eof"} BY <2>1, <2>4 DEF Continue, Answer
    <3>2. StateOf' /\ st'.materialized = (r.t = "eof")
      <4>1. CASE what = "sort"
        <5>s. PICK t : \E m, e \in BOOLEAN : st = [tab |-> t, materialized |-> m, emitted |-> e]
          BY <1>0, <4>1 DEF TransformInv, KeepsState, StateOf
        <5>1. PICK e \in BOOLEAN : st = [tab |-> t, materialized |-> FALSE, emitted |-> e]
          <6>1. PICK m, e \in BOOLEAN : st = [tab |-> t, materialized |-> m, emitted |-> e] BY <5>s
          <6>2. st.materialized = m BY <6>1
          <6> QED BY <1>0, <6>1, <6>2
        <5>2. PICK m \in BOOLEAN : m = (r.t = "eof") OBVIOUS
        <5>3. PICK u : st' = [tab |-> u, materialized |-> m, emitted |-> e]
          BY <2>1, <2>4, <4>1, <5>1, <5>2
        <5>4. st'.materialized = m BY <5>3
        <5> QED BY <1>0, <3>1, <4>1, <5>1, <5>2, <5>3, <5>4 DEF StateOf
      <4>2. CASE what = "aggregate"
        <5>s. PICK g : \E m, e \in BOOLEAN : st = [groups |-> g, materialized |-> m, emitted |-> e]
          BY <1>0, <4>2 DEF TransformInv, KeepsState, StateOf
        <5>1. PICK e \in BOOLEAN : st = [groups |-> g, materialized |-> FALSE, emitted |-> e]
          <6>1. PICK m, e \in BOOLEAN : st = [groups |-> g, materialized |-> m, emitted |-> e] BY <5>s
          <6>2. st.materialized = m BY <6>1
          <6> QED BY <1>0, <6>1, <6>2
        <5>2. PICK m \in BOOLEAN : m = (r.t = "eof") OBVIOUS
        <5>3. PICK u : st' = [groups |-> u, materialized |-> m, emitted |-> e]
          BY <2>1, <2>4, <4>2, <5>1, <5>2
        <5>4. st'.materialized = m BY <5>3
        <5> QED BY <1>0, <3>1, <4>2, <5>1, <5>2, <5>3, <5>4 DEF StateOf
      <4> QED BY <4>1, <4>2
    <3>3. in'[1].end = IF st'.materialized THEN "eof" ELSE "open" BY <2>2, <3>1, <3>2 DEF Got
    <3>4. EndsAgree' BY <1>0, <3>1, <3>3 DEF EndsAgree, Ended, Inputs
    <3>5. KeepsState' BY <3>2 DEF KeepsState
    <3>6. OutputOf' BY <1>0, <3>1, NotRowWise
    <3> QED BY <1>0, <2>2, <3>1, <3>4, <3>5, <3>6, Answers DEF HonestEnd, Got
  <2> QED BY <2>3, <2>4
<1> QED BY <1>2, <1>3

LEMMA SortPullKeeps ==
  ASSUME TransformInv, SortPull PROVE TransformInv'
<1>1. Gathers("sort") BY DEF SortPull, Pull, Gathers, EndOfStream
<1> QED BY <1>1, GatherKeeps

LEMMA AggregatePullKeeps ==
  ASSUME TransformInv, AggregatePull PROVE TransformInv'
<1>1. Gathers("aggregate") BY DEF AggregatePull, Pull, Gathers, EndOfStream
<1> QED BY <1>1, GatherKeeps

\* ... and then give one batch and the end.
LEMMA SortEmitKeeps ==
  ASSUME TransformInv, SortEmit PROVE TransformInv'
<1>0. /\ phase = "call" /\ op.kind = "sort" /\ Running /\ st.materialized /\ in' = in
      /\ in \in [1 .. 2 -> Streams] /\ NotLate /\ NotLate'
  BY DEF SortEmit, TransformInv, TransformType, Running, NotLate
<1>1. in[1].end = "eof" BY <1>0 DEF TransformInv, EndsAgree, Ended, Inputs
<1>2. op' = op /\ phase' \in {"ready", "eof"} BY DEF SortEmit, EndOfStream, Answer, Emit
<1>3. HonestEnd' BY <1>0, <1>1, <1>2 DEF HonestEnd, Inputs
<1>4. OutputOf' BY <1>0, <1>2, NotRowWise
<1>5. StateOf' /\ st'.materialized
  <2>1. PICK t : \E m, e \in BOOLEAN : st = [tab |-> t, materialized |-> m, emitted |-> e]
    BY <1>0 DEF TransformInv, KeepsState, StateOf
  <2>2. PICK m, e \in BOOLEAN : st = [tab |-> t, materialized |-> m, emitted |-> e] BY <2>1
  <2>3. m = TRUE
    <3>1. st.materialized = m BY <2>2
    <3> QED BY <1>0, <3>1
  <2>4. st' = st \/ st' = [st EXCEPT !.emitted = TRUE] BY DEF SortEmit, EndOfStream
  <2>5. PICK d \in BOOLEAN : st' = [tab |-> t, materialized |-> TRUE, emitted |-> d]
    BY <2>2, <2>3, <2>4
  <2>6. st'.materialized BY <2>5
  <2> QED BY <1>0, <1>2, <2>5, <2>6 DEF StateOf
<1>6. EndsAgree' BY <1>0, <1>1, <1>2, <1>5 DEF EndsAgree, Ended, Inputs
<1>7. KeepsState' BY <1>5 DEF KeepsState
<1> QED BY <1>0, <1>2, <1>3, <1>4, <1>6, <1>7, Answers

LEMMA AggregateEmitKeeps ==
  ASSUME TransformInv, AggregateEmit PROVE TransformInv'
<1>0. /\ phase = "call" /\ op.kind = "aggregate" /\ Running /\ st.materialized /\ in' = in
      /\ in \in [1 .. 2 -> Streams] /\ NotLate /\ NotLate'
  BY DEF AggregateEmit, TransformInv, TransformType, Running, NotLate
<1>1. in[1].end = "eof" BY <1>0 DEF TransformInv, EndsAgree, Ended, Inputs
<1>2. op' = op /\ phase' \in {"ready", "eof"} BY DEF AggregateEmit, EndOfStream, Answer, Emit
<1>3. HonestEnd' BY <1>0, <1>1, <1>2 DEF HonestEnd, Inputs
<1>4. OutputOf' BY <1>0, <1>2, NotRowWise
<1>5. StateOf' /\ st'.materialized
  <2>1. PICK g : \E m, e \in BOOLEAN : st = [groups |-> g, materialized |-> m, emitted |-> e]
    BY <1>0 DEF TransformInv, KeepsState, StateOf
  <2>2. PICK m, e \in BOOLEAN : st = [groups |-> g, materialized |-> m, emitted |-> e] BY <2>1
  <2>3. m = TRUE
    <3>1. st.materialized = m BY <2>2
    <3> QED BY <1>0, <3>1
  <2>4. st' = st \/ st' = [st EXCEPT !.emitted = TRUE] BY DEF AggregateEmit, EndOfStream
  <2>5. PICK d \in BOOLEAN : st' = [groups |-> g, materialized |-> TRUE, emitted |-> d]
    BY <2>2, <2>3, <2>4
  <2>6. st'.materialized BY <2>5
  <2> QED BY <1>0, <1>2, <2>5, <2>6 DEF StateOf
<1>6. EndsAgree' BY <1>0, <1>1, <1>2, <1>5 DEF EndsAgree, Ended, Inputs
<1>7. KeepsState' BY <1>5 DEF KeepsState
<1> QED BY <1>0, <1>2, <1>3, <1>4, <1>6, <1>7, Answers

LEMMA PivotKeeps ==
  ASSUME TransformInv, PivotNext PROVE TransformInv'
<1>0. /\ phase = "call" /\ op.kind = "pivot" /\ Running
      /\ in \in [1 .. 2 -> Streams] /\ NotLate
  BY DEF PivotNext, TransformInv, TransformType, Running
<1>in. Inputs = {1} BY <1>0 DEF Inputs
<1>p. PICK p : \E e \in BOOLEAN : st = [p |-> p, eof |-> e]
  BY <1>0 DEF TransformInv, KeepsState, StateOf
<1>1. PICK e \in BOOLEAN : st = [p |-> p, eof |-> e] BY <1>p
<1>2. st.eof = e BY <1>1
<1>3. in[1].end = IF e THEN "eof" ELSE "open" BY <1>0, <1>2, <1>in DEF TransformInv, EndsAgree, Ended
<1>4. CASE e
  <2>1. op' = op /\ phase' = "eof" /\ in' = in /\ outp' = outp
    BY <1>2, <1>4 DEF PivotNext, EndOfStream, Answer
  <2>2. HonestEnd' BY <1>0, <1>3, <1>4, <2>1 DEF HonestEnd, Inputs
  <2>3. OutputOf' BY <1>0, <2>1, NotRowWise
  <2>4. NotLate' BY <1>0, <2>1 DEF NotLate
  <2> QED BY <1>0, <2>1, <2>2, <2>3, <2>4, Answers DEF EndsAgree, KeepsState, Running
<1>5. CASE ~e
  <2>1. PICK r \in Responses(1) :
          /\ in' = Delivered(1, r)
          /\ \/ r.t = "err" /\ FailCall
             \/ r.t = "eof" /\ LET q == FlushGroup(op, st.p)
                               IN  IF q.n > 0 /\ PivotFails(op) THEN FailCall
                                   ELSE /\ st' = [p |-> PivotReset(q), eof |-> TRUE]
                                        /\ IF q.n = 0 THEN Answer("eof") ELSE Emit(PivotEmit(op, q))
             \/ r.t = "batch" /\ LET q == PivotBatch(op, st.p, r.rows)
                                 IN  IF q.n = 0 THEN Continue /\ st' = [st EXCEPT !.p = q]
                                     ELSE IF PivotFails(op) THEN FailCall
                                     ELSE /\ Emit(PivotEmit(op, q))
                                          /\ st' = [st EXCEPT !.p = PivotReset(q)]
    BY <1>2, <1>5 DEF PivotNext, Pull
  <2>2. Got(1, r) BY <1>0, <1>3, <1>5, <2>1, PullGets DEF TransformInv
  <2>3. CASE FailCall BY <2>2, <2>3, PullFails
  <2>4. CASE ~FailCall
    <3>1. op' = op /\ phase' \in {"ready", "call", "eof"} /\ (phase' = "eof" => r.t = "eof")
          /\ r.t \in {"eof", "batch"}
      BY <2>1, <2>4 DEF Continue, Answer, Emit
    <3>2. PICK q : st' = [p |-> q, eof |-> (r.t = "eof")] BY <1>1, <1>5, <2>1, <2>4
    <3>3. st'.eof = (r.t = "eof") BY <3>2
    <3>4. in'[1].end = IF st'.eof THEN "eof" ELSE "open" BY <2>2, <3>1, <3>3 DEF Got
    <3>5. EndsAgree' BY <1>0, <3>1, <3>4 DEF EndsAgree, Ended, Inputs
    <3>6. HonestEnd' BY <1>0, <3>1, <3>3, <3>4 DEF HonestEnd, Inputs
    <3>7. KeepsState'
      <4>1. PICK d \in BOOLEAN : d = (r.t = "eof") OBVIOUS
      <4> QED BY <1>0, <3>1, <3>2, <4>1 DEF KeepsState, StateOf
    <3>8. OutputOf' BY <1>0, <3>1, NotRowWise
    <3> QED BY <1>0, <2>2, <3>1, <3>5, <3>6, <3>7, <3>8, Answers DEF Got
  <2> QED BY <2>3, <2>4
<1> QED BY <1>4, <1>5

\* join: what the three parts of a call have in common.
JoinState(s, e) == \E t, l, p : st = [tabs |-> t, side |-> s, li |-> l, pairs |-> p, emitted |-> e]

LEMMA JoinHolds ==
  ASSUME TransformInv, Running, op.kind = "join"
  PROVE  \E s \in 1 .. 3, e \in BOOLEAN : JoinState(s, e) /\ st.side = s /\ st.emitted = e
<1>1. PICK s \in 1 .. 3, e \in BOOLEAN : JoinState(s, e)
  <2>1. \E t, l, p : \E s \in 1 .. 3, e \in BOOLEAN :
          st = [tabs |-> t, side |-> s, li |-> l, pairs |-> p, emitted |-> e]
    BY DEF TransformInv, KeepsState, StateOf
  <2> QED BY <2>1 DEF JoinState
<1>2. st.side = s /\ st.emitted = e BY <1>1 DEF JoinState
<1> QED BY <1>1, <1>2

LEMMA JoinPullKeeps ==
  ASSUME TransformInv, JoinPull PROVE TransformInv'
<1>0. /\ phase = "call" /\ op.kind = "join" /\ Running /\ st.side <= 2
      /\ in \in [1 .. 2 -> Streams] /\ NotLate
  BY DEF JoinPull, TransformInv, TransformType, Running
<1>in. Inputs = 1 .. 2 BY <1>0 DEF Inputs
<1>1. PICK s \in 1 .. 3, e \in BOOLEAN : JoinState(s, e) /\ st.side = s /\ st.emitted = e
  BY <1>0, JoinHolds
<1>2. s \in 1 .. 2 BY <1>0, <1>1
<1>3. \A i \in 1 .. 2 : in[i].end = IF i < s THEN "eof" ELSE "open"
  BY <1>0, <1>1, <1>in DEF TransformInv, EndsAgree, Ended
<1>4. PICK r \in Responses(s) :
        /\ in' = Delivered(s, r)
        /\ \/ r.t = "err" /\ FailCall
           \/ r.t = "eof" /\ Continue /\ st' = [st EXCEPT !.side = @ + 1]
           \/ r.t = "batch" /\ Continue /\ \E t : st' = [st EXCEPT !.tabs = t]
  BY <1>1 DEF JoinPull, Pull
<1>5. Got(s, r) BY <1>0, <1>2, <1>3, <1>4, PullGets DEF TransformInv
<1>6. CASE FailCall BY <1>2, <1>5, <1>6, PullFails
<1>7. CASE ~FailCall
  <2>1. op' = op /\ phase' = "call" /\ r.t \in {"eof", "batch"} BY <1>4, <1>7 DEF Continue, Answer
  <2>2. PICK n \in 1 .. 3 : n = IF r.t = "eof" THEN s + 1 ELSE s BY <1>2
  <2>3. JoinState(n, e)' /\ st'.side = n
    <3>1. PICK t, l, p : st = [tabs |-> t, side |-> s, li |-> l, pairs |-> p, emitted |-> e]
      BY <1>1 DEF JoinState
    <3>2. \E u : st' = [tabs |-> u, side |-> n, li |-> l, pairs |-> p, emitted |-> e]
      BY <1>1, <1>4, <1>7, <2>1, <2>2, <3>1
    <3>3. st'.side = n BY <3>2
    <3> QED BY <3>2, <3>3 DEF JoinState
  <2>4. \A i \in 1 .. 2 : in'[i].end = IF i < n THEN "eof" ELSE "open"
    <3>1. \A i \in 1 .. 2 : i # s => in'[i] = in[i] BY <1>5 DEF Got
    <3>2. in'[s].end = IF r.t = "batch" THEN "open" ELSE r.t BY <1>5 DEF Got
    <3> QED BY <1>2, <1>3, <2>1, <2>2, <3>1, <3>2
  <2>5. EndsAgree' BY <1>0, <1>in, <2>1, <2>3, <2>4 DEF EndsAgree, Ended, Inputs
  <2>6. KeepsState' BY <1>0, <2>1, <2>3 DEF KeepsState, StateOf, JoinState
  <2>7. OutputOf' BY <1>0, <2>1, NotRowWise
  <2> QED BY <1>0, <1>5, <2>1, <2>5, <2>6, <2>7, Answers DEF HonestEnd, Got
<1> QED BY <1>6, <1>7

LEMMA JoinGivesKeeps ==
  ASSUME TransformInv, JoinProbe \/ JoinEmit PROVE TransformInv'
<1>0. /\ phase = "call" /\ op.kind = "join" /\ Running /\ st.side > 2 /\ in' = in /\ op' = op
      /\ in \in [1 .. 2 -> Streams] /\ NotLate /\ NotLate'
  BY DEF JoinProbe, JoinEmit, TransformInv, TransformType, Running, NotLate, FailCall,
         Continue, EndOfStream, Answer, Emit
<1>in. Inputs = 1 .. 2 BY <1>0 DEF Inputs
<1>1. PICK s \in 1 .. 3, e \in BOOLEAN : JoinState(s, e) /\ st.side = s /\ st.emitted = e
  BY <1>0, JoinHolds
<1>2. s = 3 BY <1>0, <1>1
<1>3. \A i \in 1 .. 2 : in[i].end = "eof"
  BY <1>0, <1>1, <1>2, <1>in DEF TransformInv, EndsAgree, Ended
<1>4. CASE phase' = "eio" BY <1>0, <1>4, GivenUp
<1>5. CASE phase' # "eio"
  <2>1. phase' \in {"call", "ready", "eof"}
    BY <1>5 DEF JoinProbe, JoinEmit, FailCall, Continue, EndOfStream, Answer, Emit
  <2>2. \/ st' = st
        \/ st' = [st EXCEPT !.emitted = TRUE]
        \/ \E x, y : st' = [st EXCEPT !.li = x, !.pairs = y]
    BY <1>5 DEF JoinProbe, JoinEmit, FailCall, EndOfStream, Answer
  <2>3. \E d \in BOOLEAN : JoinState(3, d)' /\ st'.side = 3
    <3>1. PICK t, l, p : st = [tabs |-> t, side |-> 3, li |-> l, pairs |-> p, emitted |-> e]
      BY <1>1, <1>2 DEF JoinState
    <3>2. PICK d \in BOOLEAN :
            \E x, y : st' = [tabs |-> t, side |-> 3, li |-> x, pairs |-> y, emitted |-> d]
      BY <2>2, <3>1
    <3>3. st'.side = 3 BY <3>2
    <3> QED BY <3>2, <3>3 DEF JoinState
  <2>4. EndsAgree' BY <1>0, <1>3, <1>in, <2>3 DEF EndsAgree, Ended, Inputs
  <2>5. HonestEnd' BY <1>0, <1>3, <1>in DEF HonestEnd, Inputs
  <2>6. KeepsState'
    <3>1. PICK d \in BOOLEAN : JoinState(3, d)' BY <2>3
    <3>2. 3 \in 1 .. 3 OBVIOUS
    <3> QED BY <1>0, <3>1, <3>2 DEF KeepsState, StateOf, JoinState
  <2>7. OutputOf' BY <1>0, NotRowWise
  <2> QED BY <1>0, <2>1, <2>4, <2>5, <2>6, <2>7, Answers
<1> QED BY <1>4, <1>5

------------------------------------------------------------------------------
(* init, the consumer's call, cancel and destroy                            *)

\* After init and attach nothing was given out and no input has ended.
LEMMA StartHolds ==
  ASSUME TransformInv, InitComponent PROVE TransformInv'
<1>0. /\ phase = "new" /\ op' = op /\ in' = in /\ outp' = outp /\ op \in Ops
      /\ in \in [1 .. 2 -> Streams] /\ NotLate /\ NotLate'
      /\ outp = << >> /\ \A i \in 1 .. 2 : in[i].rows = << >> /\ in[i].end = "open"
  BY DEF InitComponent, TransformInv, TransformType, NotLate, Untouched
<1>1. CASE ~InitOk
  <2>1. phase' = "refused" BY <1>1 DEF InitComponent
  <2> QED BY <1>0, <2>1, GivenUp
<1>2. CASE InitOk
  <2>1. phase' = "ready" /\ st' = Start BY <1>2 DEF InitComponent
  <2>kind. op.kind \in Kinds BY <1>0, OpsAssumption
  <2>2. StateOf'
    <3>1. op.kind = "limit" => st' = [emitted |-> Len(outp')]
      <4>1. Len(<< >>) = 0 OBVIOUS
      <4>2. op.kind = "limit" => st' = [emitted |-> 0] BY <2>1 DEF Start, RowWise
      <4> QED BY <1>0, <4>1, <4>2
    <3>2. op.kind = "union" => st' = [cur |-> 1] BY <2>1 DEF Start, RowWise
    <3>3. op.kind = "unpivot" => st' = [eof |-> FALSE]
      BY <2>1 DEF Start, RowWise
    <3>4. op.kind = "sort" => st' = [tab |-> << >>, materialized |-> FALSE, emitted |-> FALSE]
      BY <2>1 DEF Start, RowWise
    <3>5. op.kind = "aggregate" => st' = [groups |-> << >>, materialized |-> FALSE, emitted |-> FALSE]
      BY <2>1 DEF Start, RowWise
    <3>6. op.kind = "pivot" => st' = [p |-> PivotFresh, eof |-> FALSE]
      BY <2>1 DEF Start, RowWise
    <3>7. op.kind = "join" => st' = [tabs |-> << << >>, << >> >>, side |-> 1, li |-> 1,
                                     pairs |-> << >>, emitted |-> FALSE]
      BY <2>1 DEF Start, RowWise
    <3>8. 1 \in 1 .. 3 OBVIOUS
    <3>9. op.kind = "join" => \E t, l, p : \E s \in 1 .. 3, e \in BOOLEAN :
            st' = [tabs |-> t, side |-> s, li |-> l, pairs |-> p, emitted |-> e]
      BY <3>7, <3>8
    <3>10. op.kind = "sort" => \E t : \E m, e \in BOOLEAN :
             st' = [tab |-> t, materialized |-> m, emitted |-> e]
      BY <3>4
    <3>11. op.kind = "aggregate" => \E g : \E m, e \in BOOLEAN :
             st' = [groups |-> g, materialized |-> m, emitted |-> e]
      BY <3>5
    <3>12. op.kind = "pivot" => \E p : \E e \in BOOLEAN : st' = [p |-> p, eof |-> e] BY <3>6
    <3> QED BY <1>0, <3>1, <3>2, <3>3, <3>8, <3>9, <3>10, <3>11, <3>12 DEF StateOf
  <2>3. \A i \in 1 .. 2 : ~Ended(i)'
    <3> SUFFICES ASSUME NEW i \in 1 .. 2 PROVE ~Ended(i)' OBVIOUS
    <3>1. CASE op.kind = "union"
      <4>1. st' = [cur |-> 1] BY <2>1, <3>1 DEF Start, RowWise
      <4> QED BY <1>0, <3>1, <4>1 DEF Ended
    <3>2. CASE op.kind = "join"
      <4>1. st'.side = 1 BY <2>1, <3>2 DEF Start, RowWise
      <4> QED BY <1>0, <3>2, <4>1 DEF Ended
    <3>3. CASE op.kind \in {"sort", "aggregate"}
      <4>1. st'.materialized = FALSE BY <2>1, <3>3 DEF Start, RowWise
      <4> QED BY <1>0, <3>3, <4>1 DEF Ended
    <3>4. CASE op.kind = "pivot"
      <4>1. st'.eof = FALSE BY <2>1, <3>4 DEF Start, RowWise
      <4> QED BY <1>0, <3>4, <4>1 DEF Ended
    <3>5. CASE op.kind \notin {"union", "join", "sort", "aggregate", "pivot"}
      BY <1>0, <3>5 DEF Ended
    <3> QED BY <3>1, <3>2, <3>3, <3>4, <3>5
  <2>4. OutputOf'
    <3>1. Rows(1)' = << >> /\ Rows(2)' = << >> BY <1>0 DEF Rows
    <3>2. op.kind = "limit" => << >> = Taken(<< >>, op.n)
      <4>1. ASSUME op.kind = "limit" PROVE Least(Len(<< >>), op.n) = 0
        <5>1. op.n \in Nat /\ Len(<< >>) = 0 BY <1>0, <4>1, OpsAssumption
        <5> QED BY <5>1 DEF Least
      <4>2. SubSeq(<< >>, 1, 0) = << >> OBVIOUS
      <4> QED BY <4>1, <4>2 DEF Taken
    <3>3. << >> = Concat(<< >>, << >>) BY DEF Concat
    <3>4. << >> = Kept(<< >>, Passes')
      <4>1. PICK e \in Seq(op.rows) : e = << >> /\ Len(e) = 0
        <5>1. << >> \in Seq(op.rows) /\ Len(<< >>) = 0 OBVIOUS
        <5> QED BY <5>1
      <4>2. PICK P : P = Passes' OBVIOUS
      <4>3. \A i \in 1 .. Len(e) : e[i] \notin P BY <4>1
      <4>4. Kept(e, P) = << >> BY <4>3, KeptIsEmpty
      <4> QED BY <4>1, <4>2, <4>4
    <3>5. \A g : << >> = Mapped(g, << >>) BY DEF Mapped
    <3>6. << >> \in Seq(Evaluates') OBVIOUS
    <3> QED BY <1>0, <3>1, <3>2, <3>3, <3>4, <3>5, <3>6 DEF OutputOf
  <2>5. EndsAgree'
    <3>1. Inputs' = Inputs /\ Inputs \subseteq 1 .. 2 BY <1>0 DEF Inputs
    <3> QED BY <1>0, <2>3, <3>1 DEF EndsAgree
  <2>6. TransformType'
    <3>1. Streams' = Streams BY <1>0 DEF Streams
    <3> QED BY <1>0, <2>1, <3>1 DEF TransformType, Ways
  <2> QED BY <1>0, <2>1, <2>2, <2>4, <2>5, <2>6
      DEF TransformInv, Untouched, HonestEnd, KeepsState, GivesOut
<1> QED BY <1>1, <1>2

\* A call begins, or a cancellation comes: nothing the invariant speaks of
\* changes but the phase.
LEMMA NothingMoves ==
  ASSUME TransformInv, UNCHANGED <<op, st, in, outp>>,
         phase' = phase \/ (Running /\ Running')
  PROVE  TransformInv'
<1>1. Streams' = Streams /\ Inputs' = Inputs /\ StateOf' = StateOf /\ \A i \in 1 .. 2 : Ended(i)' = Ended(i)
  BY DEF Streams, Inputs, StateOf, Ended
<1>2. Inputs \subseteq 1 .. 2 BY DEF Inputs
<1>3. NotLate' = NotLate BY DEF NotLate
<1>4. OutputOf => OutputOf' BY SameRows
<1>5. Running' => Running BY DEF Running
<1>6. phase' = "new" => phase = "new" BY DEF Running
<1>7. phase' = "eof" => phase = "eof" BY DEF Running
<1>8. phase' \in Ways BY DEF TransformInv, TransformType, Running, Ways
<1>9. TransformType' BY <1>1, <1>8 DEF TransformInv, TransformType
<1>10. Untouched' BY <1>6 DEF TransformInv, Untouched
<1>11. EndsAgree'
  <2> SUFFICES ASSUME Running', NEW i \in Inputs
               PROVE  in'[i].end = IF Ended(i)' THEN "eof" ELSE "open"
    BY <1>1 DEF EndsAgree
  <2>1. in[i].end = IF Ended(i) THEN "eof" ELSE "open" BY <1>5 DEF TransformInv, EndsAgree
  <2> QED BY <1>1, <1>2, <2>1
<1>12. HonestEnd' BY <1>1, <1>7 DEF TransformInv, HonestEnd
<1>13. KeepsState' BY <1>1, <1>5 DEF TransformInv, KeepsState
<1>14. GivesOut' BY <1>4, <1>5, <1>7 DEF TransformInv, GivesOut
<1> QED BY <1>3, <1>9, <1>10, <1>11, <1>12, <1>13, <1>14 DEF TransformInv

LEMMA StepKeeps ==
  ASSUME TransformInv, [TransformNext]_transformVars PROVE TransformInv'
<1>1. CASE InitComponent BY <1>1, StartHolds
<1>2. CASE Call
  <2>0. phase = "ready" /\ op' = op /\ in' = in /\ st' = st /\ outp' = outp
        /\ phase' \in {"call", "eio"}
    BY <1>2 DEF Call
  <2>1. CASE phase' = "eio"
    <3>1. NotLate' /\ in \in [1 .. 2 -> Streams]
      BY <2>0 DEF TransformInv, TransformType, NotLate
    <3> QED BY <2>0, <2>1, <3>1, GivenUp
  <2>2. CASE phase' = "call" BY <2>0, <2>2, NothingMoves DEF Running
  <2> QED BY <2>0, <2>1, <2>2
<1>3. CASE Cancel BY <1>3, NothingMoves DEF Cancel
<1>4. CASE Destroy
  <2>1. phase' = "dead" /\ op' = op /\ in' = in BY <1>4 DEF Destroy
  <2>2. NotLate' /\ in \in [1 .. 2 -> Streams] BY <2>1 DEF TransformInv, TransformType, NotLate
  <2> QED BY <2>1, <2>2, GivenUp
<1>5. CASE UNCHANGED transformVars BY <1>5, NothingMoves DEF transformVars
<1>6. CASE GetNext
  BY <1>6, LimitKeeps, UnionKeeps, FilterKeeps, MapKeeps, AuditKeeps, UnpivotKeeps, DistinctKeeps,
     SortPullKeeps, SortEmitKeeps, AggregatePullKeeps, AggregateEmitKeeps, PivotKeeps,
     JoinPullKeeps, JoinGivesKeeps
  DEF GetNext
<1> QED BY <1>1, <1>2, <1>3, <1>4, <1>5, <1>6 DEF TransformNext

LEMMA BeginHolds == TransformInit => TransformInv
<1> SUFFICES ASSUME TransformInit PROVE TransformInv OBVIOUS
<1>1. \A i \in 1 .. 2 : in[i] = [rows |-> << >>, n |-> 0, end |-> "open", late |-> FALSE]
  BY DEF TransformInit
<1>2. in \in [1 .. 2 -> Streams]
  <2>1. [rows |-> << >>, n |-> 0, end |-> "open", late |-> FALSE] \in Streams
    <3>1. << >> \in Seq(op.rows) OBVIOUS
    <3> QED BY <3>1 DEF Streams
  <2> QED BY <2>1 DEF TransformInit
<1>3. NotLate /\ Untouched BY <1>1 DEF NotLate, Untouched, TransformInit
<1>4. phase = "new" /\ op \in Ops BY DEF TransformInit
<1> QED BY <1>2, <1>3, <1>4
    DEF TransformInv, TransformType, Ways, EndsAgree, HonestEnd, KeepsState, GivesOut, Running

(* The invariant: what a transform holds of its inputs' ends is right while *)
(* it is called, and what it gave out is what its configuration makes of    *)
(* the rows it was given.                                                   *)
THEOREM TransformsKeepTheirBooks == TransformSpec => []TransformInv
BY BeginHolds, StepKeeps, PTL DEF TransformSpec

------------------------------------------------------------------------------
(* What the invariant gives                                                 *)

(* EndIsHonest of every configuration: no input is pulled after its end, a  *)
(* clean end is only given when every input ended cleanly or the limit was  *)
(* reached (the get_next of every transform).                               *)
THEOREM EndsAreHonest == TransformSpec => []EndIsHonest
<1>1. TransformInv => EndIsHonest
  BY DEF TransformInv, HonestEnd, NotLate, EndIsHonest
<1> QED BY <1>1, TransformsKeepTheirBooks, PTL

LEMMA LimitIsFaithful ==
  ASSUME TransformInv, OutputOf, op.kind = "limit"
  PROVE  /\ IsPrefix(outp, Rows(1))
         /\ Len(outp) = (IF Len(Rows(1)) < op.n THEN Len(Rows(1)) ELSE op.n)
<1>n. PICK n \in Nat : n = op.n BY OpsAssumption DEF TransformInv, TransformType
<1>S. PICK S : S = op.rows OBVIOUS
<1>1. PICK s \in Seq(S) : s = Rows(1) BY <1>S DEF TransformInv, TransformType, Streams, Rows
<1>2. PICK m \in Nat : m = Len(s) BY LenProperties
<1>3. PICK l \in Nat : l = Least(m, n) /\ l <= m BY DEF Least
<1>4. outp = SubSeq(s, 1, l) BY <1>n, <1>1, <1>2, <1>3 DEF OutputOf, Taken
<1>5. outp \in Seq(S) /\ Len(outp) = l
  <2>1. outp = Taken(s, n) BY <1>n, <1>1 DEF OutputOf
  <2> QED BY <1>2, <1>3, <2>1, TakenLength
<1>6. SubSeq(outp, 1, l) = outp BY <1>5, SubSeqFull
<1>7. IsPrefix(outp, s) BY <1>2, <1>3, <1>4, <1>5, <1>6 DEF IsPrefix
<1> QED BY <1>n, <1>1, <1>2, <1>3, <1>5, <1>7 DEF Least

LEMMA FilterIsFaithful ==
  ASSUME OutputOf, op.kind = "filter"
  PROVE  outp = Kept(Rows(1), {r \in op.rows : Eval(op.where.e, r) = 1})
BY DEF OutputOf, Passes

\* A computed row is as wide as declared, holds no failure, and is the row and the
\* entries' cells.
WellFormed(x, row) ==
  /\ Len(x) = Width /\ \A c \in DOMAIN x : x[c] # ERR
  /\ Copied > 0 => SubSeq(x, 1, Copied) = row
  /\ \A j \in DOMAIN op.cols : x[Copied + j] = NewCell(j, row)

LEMMA AppendedIs ==
  ASSUME NEW A, NEW row \in Seq(A), ERR \notin ToSet(row),
         NEW B, NEW more \in Seq(B), \A j \in 1 .. Len(more) : more[j] # ERR
  PROVE  /\ Len(row \o more) = Len(row) + Len(more)
         /\ \A c \in DOMAIN (row \o more) : (row \o more)[c] # ERR
         /\ SubSeq(row \o more, 1, Len(row)) = row
         /\ \A j \in 1 .. Len(more) : (row \o more)[Len(row) + j] = more[j]
<1> DEFINE S == A \cup B
<1>0. PICK a, b \in Seq(S) : a = row /\ b = more
  <2>1. row \in Seq(S) /\ more \in Seq(S) OBVIOUS
  <2> QED BY <2>1
<1> HIDE DEF S
<1>1. PICK m, n \in Nat : m = Len(a) /\ n = Len(b) BY LenProperties
<1>2. PICK x \in Seq(S) : x = Concat(a, b) BY ConcatIsSeq
<1>3. Chained(x, a, b, m, n) BY <1>1, <1>2, ConcatIs
<1>4. SubSeq(x, 1, m) = a BY <1>1, <1>2, ConcatHead
<1>5. \A c \in 1 .. m + n : x[c] # ERR
  <2> SUFFICES ASSUME NEW c \in 1 .. m + n PROVE x[c] # ERR OBVIOUS
  <2>1. CASE c \in 1 .. m
    <3>1. x[c] = a[c] BY <1>3, <2>1 DEF Chained
    <3>2. a[c] \in ToSet(a)
      <4>1. DOMAIN a = 1 .. m BY <1>1
      <4> QED BY <2>1, <4>1 DEF ToSet
    <3> QED BY <1>0, <3>1, <3>2
  <2>2. CASE c \notin 1 .. m
    <3>1. PICK j \in 1 .. n : c = m + j
      <4>1. c - m \in 1 .. n /\ c = m + (c - m) BY <2>2
      <4> QED BY <4>1
    <3>2. x[m + j] = b[j] BY <1>3 DEF Chained
    <3> QED BY <1>0, <1>1, <3>1, <3>2
  <2> QED BY <2>1, <2>2
<1>6. Len(x) = m + n /\ DOMAIN x = 1 .. m + n BY <1>3 DEF Chained
<1>7. x = row \o more BY <1>0, <1>2 DEF Concat
<1>8. \A j \in 1 .. n : x[m + j] = b[j] BY <1>3 DEF Chained
<1> QED BY <1>0, <1>1, <1>4, <1>5, <1>6, <1>7, <1>8

LEMMA MapRowIs ==
  ASSUME op \in Ops, op.kind = "map", NEW row \in Evaluates
  PROVE  WellFormed(MapRow(op, row), row)
<1>1. row \in op.rows /\ \A j \in DOMAIN op.cols : Eval(MapCols(op)[j], row) # ERR
  BY DEF Evaluates
<1>2. IsList(row) /\ Len(row) = Len(op.fmts) /\ ERR \notin ToSet(row) /\ IsList(op.cols)
  BY <1>1, OpsAssumption
<1>3. PICK n \in Nat : n = Len(op.cols) /\ DOMAIN op.cols = 1 .. n
  <2>1. op.cols \in Seq(ToSet(op.cols)) BY <1>2 DEF IsList
  <2>2. PICK T : T = ToSet(op.cols) OBVIOUS
  <2>3. PICK c \in Seq(T) : c = op.cols BY <2>1, <2>2
  <2>4. Len(c) \in Nat /\ DOMAIN c = 1 .. Len(c) BY <2>3
  <2> QED BY <2>3, <2>4
<1> DEFINE computed == [j \in 1 .. n |-> Eval(MapCols(op)[j], row)]
           B == {Eval(MapCols(op)[j], row) : j \in 1 .. n}
<1>4. computed \in Seq(B) /\ Len(computed) = n /\ DOMAIN computed = 1 .. n
  <2>1. \A j \in 1 .. n : Eval(MapCols(op)[j], row) \in B OBVIOUS
  <2> HIDE DEF B
  <2> QED BY <2>1
<1>5. \A j \in 1 .. n : computed[j] # ERR BY <1>1, <1>3
<1>6. MapRow(op, row) = IF op.mode = "add" THEN row \o computed ELSE computed
  BY <1>3 DEF MapRow
<1>12. \A j \in 1 .. n : computed[j] = NewCell(j, row) BY DEF NewCell
<1> HIDE DEF computed, B
<1>7. PICK A : A = ToSet(row) OBVIOUS
<1>8. PICK w \in Seq(A) : w = row BY <1>2, <1>7 DEF IsList
<1>9. Width = MapWidth(op) BY DEF Width
<1>10. CASE op.mode = "add"
  <2>1. /\ Len(w \o computed) = Len(w) + Len(computed)
        /\ \A c \in DOMAIN (w \o computed) : (w \o computed)[c] # ERR
        /\ SubSeq(w \o computed, 1, Len(w)) = w
        /\ \A j \in 1 .. Len(computed) : (w \o computed)[Len(w) + j] = computed[j]
    <3>1. \A j \in 1 .. Len(computed) : computed[j] # ERR BY <1>4, <1>5
    <3>2. ERR \notin ToSet(w) BY <1>2, <1>8
    <3>3. PICK T : computed \in Seq(T) BY <1>4
    <3> QED BY <1>8, <3>1, <3>2, <3>3, AppendedIs
  <2>2. Copied = Len(w) BY <1>2, <1>8, <1>10 DEF Copied
  <2>3. \A j \in 1 .. n : MapRow(op, row)[Copied + j] = NewCell(j, row)
    BY <1>4, <1>6, <1>8, <1>10, <1>12, <2>1, <2>2
  <2> QED BY <1>2, <1>3, <1>4, <1>6, <1>8, <1>9, <1>10, <2>1, <2>2, <2>3 DEF WellFormed, MapWidth
<1>11. CASE op.mode # "add"
  <2>1. Copied = 0 BY <1>11 DEF Copied
  <2>2. \A j \in 1 .. n : Copied + j = j BY <2>1
  <2> QED BY <1>3, <1>4, <1>5, <1>6, <1>9, <1>11, <1>12, <2>1, <2>2 DEF WellFormed, MapWidth
<1> QED BY <1>10, <1>11

LEMMA AuditRowIs ==
  ASSUME op \in Ops, op.kind = "audit", NEW row \in op.rows
  PROVE  WellFormed(AuditRow(op, row), row)
<1>1. IsList(row) /\ Len(row) = Len(op.fmts) /\ ERR \notin ToSet(row)
      /\ IsList(op.cols) /\ ERR \notin ToSet(op.cols)
  BY OpsAssumption
<1>2. PICK A, B : A = ToSet(row) /\ B = ToSet(op.cols) OBVIOUS
<1>3. PICK w \in Seq(A) : w = row BY <1>1, <1>2 DEF IsList
<1>4. PICK c \in Seq(B) : c = op.cols BY <1>1, <1>2 DEF IsList
<1>5. \A j \in 1 .. Len(c) : c[j] # ERR
  <2>1. \A j \in 1 .. Len(c) : c[j] \in ToSet(c) BY DEF ToSet
  <2> QED BY <1>1, <1>4, <2>1
<1>6. /\ Len(w \o c) = Len(w) + Len(c)
      /\ \A i \in DOMAIN (w \o c) : (w \o c)[i] # ERR
      /\ SubSeq(w \o c, 1, Len(w)) = w
      /\ \A j \in 1 .. Len(c) : (w \o c)[Len(w) + j] = c[j]
  BY <1>1, <1>3, <1>5, AppendedIs
<1>7. Width = AuditWidth(op) BY DEF Width
<1>8. Copied = Len(w) BY <1>1, <1>3 DEF Copied
<1>9. \A j \in 1 .. Len(c) : AuditRow(op, row)[Copied + j] = NewCell(j, row)
  BY <1>3, <1>4, <1>6, <1>8 DEF NewCell, AuditRow
<1>10. DOMAIN op.cols = 1 .. Len(c) BY <1>4
<1> QED BY <1>1, <1>3, <1>4, <1>6, <1>7, <1>8, <1>9, <1>10 DEF WellFormed, AuditWidth, AuditRow

LEMMA ComputedAreFaithful ==
  ASSUME TransformInv, OutputOf, op.kind \in {"map", "audit"}
  PROVE  Len(outp) = Len(Rows(1)) /\ \A i \in DOMAIN outp : WellFormed(outp[i], Rows(1)[i])
<1>0. op \in Ops BY DEF TransformInv, TransformType
<1>1. PICK s : s = Rows(1) OBVIOUS
<1>2. CASE op.kind = "map"
  <2>1. PICK S : S = Evaluates OBVIOUS
  <2>2. s \in Seq(S) /\ outp = Mapped(MapOf, s) BY <1>1, <1>2, <2>1 DEF OutputOf
  <2>3. PICK n \in Nat : n = Len(s) BY <2>2, LenProperties
  <2>4. Len(outp) = n /\ DOMAIN outp = 1 .. n /\ \A i \in 1 .. n : outp[i] = MapOf[s[i]]
    BY <2>2, <2>3 DEF Mapped
  <2>5. ASSUME NEW i \in 1 .. n PROVE WellFormed(outp[i], s[i])
    <3>1. s[i] \in Evaluates /\ s[i] \in op.rows BY <2>1, <2>2, <2>3, ElementOfSeq DEF Evaluates
    <3>2. MapOf[s[i]] = MapRow(op, s[i]) BY <3>1 DEF MapOf
    <3> QED BY <1>0, <1>2, <2>4, <3>1, <3>2, MapRowIs
  <2> QED BY <1>1, <2>3, <2>4, <2>5
<1>3. CASE op.kind = "audit"
  <2>1. PICK S : S = op.rows OBVIOUS
  <2>2. s \in Seq(S) /\ outp = Mapped(AuditOf, s)
    BY <1>1, <1>3, <2>1 DEF OutputOf, TransformInv, TransformType, Streams, Rows
  <2>3. PICK n \in Nat : n = Len(s) BY <2>2, LenProperties
  <2>4. Len(outp) = n /\ DOMAIN outp = 1 .. n /\ \A i \in 1 .. n : outp[i] = AuditOf[s[i]]
    BY <2>2, <2>3 DEF Mapped
  <2>5. ASSUME NEW i \in 1 .. n PROVE WellFormed(outp[i], s[i])
    <3>1. s[i] \in op.rows BY <2>1, <2>2, <2>3, ElementOfSeq
    <3>2. AuditOf[s[i]] = AuditRow(op, s[i]) BY <3>1 DEF AuditOf
    <3> QED BY <1>0, <1>3, <2>4, <3>1, <3>2, AuditRowIs
  <2> QED BY <1>1, <2>3, <2>4, <2>5
<1> QED BY <1>2, <1>3

(* RowWiseFaithful of every configuration, for any rows in any batches:     *)
(* limit gives the first n rows, union its inputs one after the other,      *)
(* filter the rows its predicate is true of, map and audit every row with   *)
(* its new cells (the get_next of limit, union, filter, map and audit).     *)
THEOREM RowWiseTransformsAreFaithful == TransformSpec => []RowWiseFaithful
<1>1. ASSUME TransformInv PROVE RowWiseFaithful
  <2> SUFFICES ASSUME Answered PROVE RowWiseFaithful BY DEF RowWiseFaithful
  <2>1. OutputOf BY <1>1 DEF TransformInv, GivesOut, Running, Answered
  <2>2. op.kind = "union" => outp = Rows(1) \o Rows(2) /\ (Rows(2) # << >> => in[1].end = "eof")
    BY <2>1 DEF OutputOf, Concat
  <2>3. op.kind \in {"map", "audit"} =>
          /\ Len(outp) = Len(Rows(1))
          /\ \A i \in DOMAIN outp :
               /\ Len(outp[i]) = Width /\ \A c \in DOMAIN outp[i] : outp[i][c] # ERR
               /\ Copied > 0 => SubSeq(outp[i], 1, Copied) = Rows(1)[i]
               /\ \A j \in DOMAIN op.cols : outp[i][Copied + j] = NewCell(j, Rows(1)[i])
    BY <1>1, <2>1, ComputedAreFaithful DEF WellFormed
  <2> QED BY <1>1, <2>1, <2>2, <2>3, LimitIsFaithful, FilterIsFaithful DEF RowWiseFaithful
<1> QED BY <1>1, TransformsKeepTheirBooks, PTL
==============================================================================
