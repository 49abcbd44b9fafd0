---------------------------- MODULE DataflowStage ----------------------------
(***************************************************************************)
(* run_dataflow_stage of src/runtime/exec.c: initialise the steps of a     *)
(* stage in declaration order, connect them in topological order, drive    *)
(* the sinks one after the other, and clean up whatever was set up so far. *)
(*                                                                         *)
(* The stage is described by its steps: kind, references (`from:`), number *)
(* of output ports, and how many inputs attach_input keeps ("one": a later *)
(* input overwrites the earlier one; "two": join; "many": union).  Every   *)
(* call into a component may fail.  A stream is created by attach_output;  *)
(* with Parallel it is wrapped into an edge whose thread runs inside the   *)
(* upstream step (module AsyncStream).                                     *)
(***************************************************************************)
EXTENDS Integers, Sequences, Functions

CONSTANT
  Stages   \* the stages considered: records [n, kind, from, nOut, accepts, parallel]

ASSUME StagesAssumption ==
  \A g \in Stages :
    /\ g.n \in Nat
    /\ g.kind \in [1 .. g.n -> {"source", "transform", "sink"}]
    /\ g.from \in [1 .. g.n -> Seq([up : 1 .. g.n, port : Int])]
    /\ g.nOut \in [1 .. g.n -> Nat]
    /\ g.accepts \in [1 .. g.n -> {"one", "two", "many"}]
    /\ g.parallel \in BOOLEAN

VARIABLES
  stage,      \* the stage being run
  order,      \* topo_sort's result
  pc,         \* what the stage's thread does next
  k, pi,      \* the step, or place in order, and the input it does it for
  rc,         \* "ok" or "fail"
  slot,       \* slot[i][p]: the stream in runners[i].outputs[p], 0 if zeroed
  attached,   \* runners[i].output_attached[p]
  hand,       \* the stream being passed to attach_input, 0 if none
  inputs,     \* inputs[i]: the streams step i keeps
  streams,    \* every stream created: [up, port]
  released,   \* how often each stream was released
  inited,     \* steps whose init succeeded
  destroys,   \* how often each step was destroyed
  running,    \* the sink whose sink_run is running, 0 if none
  drained,    \* sinks whose sink_run returned BETL_OK, in order
  started,    \* edges whose thread was started
  threads     \* edges whose thread is running

setup == <<slot, attached, hand, inputs, streams>>
steps == <<inited, destroys>>
run   == <<running, drained>>
edges == <<started, threads>>
vars  == <<stage, order, pc, k, pi, rc, setup, released, steps, run, edges>>

Steps == 1 .. stage.n
Parallel == stage.parallel  \* betl_pipeline_parallel_enabled()
Ports(i) == 0 .. stage.nOut[i] - 1
Made == DOMAIN streams

\* What topo_sort can return (module TopoSort): upstreams come first.
Orders(g) ==
  {o \in [1 .. g.n -> 1 .. g.n] :
     \A i, j \in 1 .. g.n :
       /\ o[i] = o[j] => i = j
       /\ (\E r \in DOMAIN g.from[o[i]] : g.from[o[i]][r].up = o[j]) => j < i}

Init ==
  /\ stage \in Stages /\ order \in Orders(stage)
  /\ pc = "resolve" /\ k = 1 /\ pi = 1 /\ rc = "ok"
  /\ slot = [i \in Steps |-> [p \in Ports(i) |-> 0]]
  /\ attached = [i \in Steps |-> [p \in Ports(i) |-> FALSE]]
  /\ hand = 0
  /\ inputs = [i \in Steps |-> <<>>]
  /\ streams = <<>> /\ released = <<>>
  /\ inited = {} /\ destroys = [i \in Steps |-> 0]
  /\ running = 0 /\ drained = <<>>
  /\ started = {} /\ threads = {}

------------------------------------------------------------------------------
(* Resolve and initialise                                                   *)

Goto(loc, at) == pc' = loc /\ k' = at /\ pi' = 1

\* goto cleanup with an error.
Fail == Goto("cleanup", 1) /\ rc' = "fail"

\* All component types are looked up before the first init.
Resolve ==
  /\ pc = "resolve"
  /\ \/ Goto("init", 1) /\ UNCHANGED rc
     \/ Fail
  /\ UNCHANGED <<stage, order, setup, released, steps, run, edges>>

InitStep ==
  /\ pc = "init" /\ k <= stage.n
  /\ \/ inited' = inited \cup {k} /\ Goto("init", k + 1) /\ UNCHANGED rc
     \/ Fail /\ UNCHANGED inited
  /\ UNCHANGED <<stage, order, setup, released, destroys, run, edges>>

AllInit ==
  /\ pc = "init" /\ k = stage.n + 1
  /\ Goto("output", 1)
  /\ UNCHANGED <<stage, order, rc, setup, released, steps, run, edges>>

------------------------------------------------------------------------------
(* Connect the steps, upstreams first                                       *)

\* Input pi of the step at place k of the order.
Edge == [step |-> order[k], input |-> pi, ref |-> stage.from[order[k]][pi]]
Up   == Edge.ref.up

Connecting == pc = "output" /\ k <= stage.n
HasInput   == Connecting /\ pi <= Len(stage.from[order[k]])

\* The next thing to do for the same input.
Then(loc) == pc' = loc /\ UNCHANGED <<k, pi>>

Port_Default == 0
Port == Edge.ref.port

PortKnown == Port \in Ports(Up)

\* The port does not exist, or somebody took the stream out of the slot.
RejectRef ==
  /\ HasInput
  /\ PortKnown => attached[Up][Port] /\ slot[Up][Port] = 0
  /\ Fail
  /\ UNCHANGED <<stage, order, setup, released, steps, run, edges>>

AttachOutput ==
  /\ HasInput /\ PortKnown
  /\ IF attached[Up][Port]
       THEN /\ slot[Up][Port] # 0 /\ Then("wrap")
            /\ UNCHANGED <<rc, slot, attached, streams, released>>
       ELSE \/ /\ streams' = Append(streams, [up |-> Up, port |-> Port])
               /\ released' = Append(released, 0)
               /\ slot' = [slot EXCEPT ![Up][Port] = Len(streams) + 1]
               /\ attached' = [attached EXCEPT ![Up][Port] = TRUE]
               /\ Then("wrap") /\ UNCHANGED rc
            \/ Fail /\ UNCHANGED <<slot, attached, streams, released>>
  /\ UNCHANGED <<stage, order, hand, inputs, steps, run, edges>>

\* The stream leaves the slot: nobody else releases it from there.
ClearSlot ==
  /\ slot' = [slot EXCEPT ![Up][Port] = 0]
  /\ attached' = [attached EXCEPT ![Up][Port] = FALSE]

\* betl_async_wrap moves the stream out of the slot, into the edge; there may
\* be no attach_input, or no memory for the edge.
Wrap ==
  /\ pc = "wrap"
  /\ \/ /\ hand' = slot[Up][Port] /\ Then("input")
        /\ IF Parallel THEN ClearSlot ELSE UNCHANGED <<slot, attached>>
        /\ UNCHANGED rc
     \/ Fail /\ UNCHANGED <<slot, attached, hand>>
  /\ UNCHANGED <<stage, order, inputs, streams, released, steps, run, edges>>

\* attach_input of a component: what it keeps after one more input.
KeptInputs(i, s) ==
  IF stage.accepts[i] = "one" THEN <<s>> ELSE Append(inputs[i], s)

Refuses(i) == stage.accepts[i] = "two" /\ Edge.input > 2

AttachInput ==
  /\ pc = "input" /\ ~Refuses(Edge.step)
  /\ inputs' = [inputs EXCEPT ![Edge.step] = KeptInputs(Edge.step, hand)]
  /\ hand' = 0
  /\ IF Parallel THEN UNCHANGED <<slot, attached>> ELSE ClearSlot
  /\ pc' = "output" /\ k' = k /\ pi' = pi + 1
  /\ UNCHANGED <<stage, order, rc, streams, released, steps, run, edges>>

Release(S) ==
  released' = [s \in Made |-> IF s \in S THEN released[s] + 1 ELSE released[s]]

\* The component did not take the stream: an edge is released here, a plain
\* stream is still in its slot.
AttachInputFails ==
  /\ pc = "input" /\ (Refuses(Edge.step) \/ stage.accepts[Edge.step] = "many")
  /\ IF Parallel THEN Release({hand}) ELSE UNCHANGED released
  /\ hand' = 0
  /\ Fail
  /\ UNCHANGED <<stage, order, slot, attached, inputs, streams, steps, run, edges>>

NextStep ==
  /\ Connecting /\ pi > Len(stage.from[order[k]])
  /\ Goto("output", k + 1)
  /\ UNCHANGED <<stage, order, rc, setup, released, steps, run, edges>>

AllConnected ==
  /\ pc = "output" /\ k = stage.n + 1
  /\ Goto("drive", 1)
  /\ UNCHANGED <<stage, order, rc, setup, released, steps, run, edges>>

------------------------------------------------------------------------------
(* Drive the sinks in topological order                                     *)

IsSink(i) == stage.kind[i] = "sink"

NoSink ==
  /\ pc = "drive" /\ k <= stage.n /\ ~IsSink(order[k])
  /\ Goto("drive", k + 1)
  /\ UNCHANGED <<stage, order, rc, setup, released, steps, run, edges>>

SinkStart ==
  /\ pc = "drive" /\ running = 0 /\ k <= stage.n /\ IsSink(order[k])
  /\ running' = order[k]
  /\ UNCHANGED <<stage, order, pc, k, pi, rc, setup, released, steps, drained, edges>>

\* BETL_OK: the sink has pulled its inputs to their end, so the threads of its
\* own edges are not inside an upstream any more; those further up may be.
SinkDone ==
  /\ running # 0
  /\ Range(inputs[running]) \cap threads = {}
  /\ Parallel => Range(inputs[running]) \subseteq started
  /\ running' = 0 /\ drained' = Append(drained, running)
  /\ Goto("drive", k + 1)
  /\ UNCHANGED <<stage, order, rc, setup, released, steps, edges>>

\* As if the loop went on to the next sink and rc was overwritten.
AfterSinkFailure_GoOn == Goto("drive", k + 1) /\ UNCHANGED rc
AfterSinkFailure == Fail

SinkFails ==
  /\ running # 0
  /\ running' = 0 /\ AfterSinkFailure
  /\ UNCHANGED <<stage, order, setup, released, steps, drained, edges>>

AllDriven ==
  /\ pc = "drive" /\ k = stage.n + 1
  /\ Goto("cleanup", 1)
  /\ UNCHANGED <<stage, order, rc, setup, released, steps, run, edges>>

------------------------------------------------------------------------------
(* The threads of the edges                                                 *)

Alive(i) == i \in inited /\ destroys[i] = 0

\* Step i is executing: its sink_run, or the get_next of one of its streams.
Active(i) == running = i \/ \E s \in threads : streams[s].up = i

\* The first pull on an input starts the edge's thread.
ThreadStart ==
  /\ Parallel
  /\ \E i \in Steps : \E s \in Range(inputs[i]) \ started :
       /\ Active(i)
       /\ started' = started \cup {s} /\ threads' = threads \cup {s}
  /\ UNCHANGED <<stage, order, pc, k, pi, rc, setup, released, steps, run>>

ThreadEnds ==
  /\ \E s \in threads : threads' = threads \ {s}
  /\ UNCHANGED <<stage, order, pc, k, pi, rc, setup, released, steps, run, started>>

------------------------------------------------------------------------------
(* Clean up                                                                 *)

InSlots_Forgotten == {}
InSlots ==
  {s \in Made : LET up == streams[s].up  port == streams[s].port
                IN attached[up][port] /\ slot[up][port] = s}

\* Streams attached but never passed on.
CleanupSlots ==
  /\ pc = "cleanup"
  /\ Release(InSlots)
  /\ slot' = [i \in Steps |-> [p \in Ports(i) |-> 0]]
  /\ Goto("destroy", 1)
  /\ UNCHANGED <<stage, order, rc, attached, hand, inputs, streams, steps, run, edges>>

\* Reverse declaration order.
DestroyTurn == stage.n + 1 - k

Joined_NoWait(i) == TRUE
\* async_release of each input joins the edge's thread.
Joined(i) == \A s \in Range(inputs[i]) : s \notin threads

\* destroy releases the inputs the step keeps, then frees its state.
DestroyStep ==
  /\ pc = "destroy" /\ k <= stage.n
  /\ LET i == DestroyTurn IN
       IF Alive(i)
         THEN /\ Joined(i)
              /\ Release(Range(inputs[i]))
              /\ inputs' = [inputs EXCEPT ![i] = <<>>]
              /\ destroys' = [destroys EXCEPT ![i] = @ + 1]
         ELSE UNCHANGED <<released, inputs, destroys>>
  /\ Goto("destroy", k + 1)
  /\ UNCHANGED <<stage, order, rc, slot, attached, hand, streams, inited, run, edges>>

Finish ==
  /\ pc = "destroy" /\ k = stage.n + 1
  /\ Goto("done", 1)
  /\ UNCHANGED <<stage, order, rc, setup, released, steps, run, edges>>

Terminated == pc = "done" /\ threads = {} /\ UNCHANGED vars

Next ==
  \/ Resolve \/ InitStep \/ AllInit
  \/ RejectRef \/ AttachOutput \/ Wrap \/ AttachInput \/ AttachInputFails
  \/ NextStep \/ AllConnected
  \/ NoSink \/ SinkStart \/ SinkDone \/ SinkFails \/ AllDriven
  \/ ThreadStart \/ ThreadEnds
  \/ CleanupSlots \/ DestroyStep \/ Finish \/ Terminated

Spec == Init /\ [][Next]_vars

------------------------------------------------------------------------------
(* Properties                                                               *)

TypeOK ==
  /\ stage \in Stages /\ order \in [Steps -> Steps]
  /\ pc \in {"resolve", "init", "output", "wrap", "input", "drive", "cleanup",
             "destroy", "done"}
  /\ k \in Nat \ {0} /\ pi \in Nat \ {0} /\ rc \in {"ok", "fail"}
  /\ streams \in Seq([up : Steps, port : Nat])
  /\ DOMAIN slot = Steps /\ DOMAIN attached = Steps
  /\ \A i \in Steps : /\ slot[i] \in [Ports(i) -> Made \cup {0}]
                      /\ attached[i] \in [Ports(i) -> BOOLEAN]
  /\ hand \in Made \cup {0} /\ inputs \in [Steps -> Seq(Made)]
  /\ released \in Seq({0, 1}) /\ Len(released) = Len(streams)
  /\ destroys \in [Steps -> {0, 1}]
  /\ inited \subseteq Steps /\ running \in Steps \cup {0}
  /\ drained \in Seq(Steps) /\ started \subseteq Made /\ threads \subseteq started

(* "The component MUST eventually call in_stream->release(in_stream)"       *)
(* (provider.h:390): after the stage every stream that attach_output made   *)
(* has been released, exactly once, wherever the stage failed.              *)
StreamsReleasedOnce ==
  /\ \A s \in Made : released[s] <= 1
  /\ pc = "done" => \A s \in Made : released[s] = 1

(* "Called exactly once even on error paths" (provider.h:334): each step    *)
(* whose init succeeded is destroyed once, the others never.                *)
DestroyedOncePerInit ==
  /\ \A i \in Steps : destroys[i] <= IF i \in inited THEN 1 ELSE 0
  /\ pc = "done" => \A i \in inited : destroys[i] = 1

(* No thread is inside a step whose state has been freed.                   *)
NoTouchAfterDestroy == \A s \in threads : Alive(streams[s].up)

(* A step's output is opened only when all its inputs are there: components *)
(* derive their schema from upstream.                                       *)
InputsBeforeOutputs ==
  \A s \in Made : pc \in {"output", "wrap", "input", "drive"} =>
    Len(inputs[streams[s].up]) = Len(stage.from[streams[s].up])

(* When the sinks run, input r of each step is the port its r-th reference  *)
(* names.                                                                   *)
WiredAsWritten ==
  pc = "drive" =>
    \A i \in Steps : [r \in DOMAIN inputs[i] |-> streams[inputs[i][r]]]
                         = stage.from[i]

(* The stage succeeds only if every sink was drained; the sinks drained are  *)
(* the first ones of the order, each once.                                   *)
SinksAmong(n) == {order[m] : m \in {p \in 1 .. n : IsSink(order[p])}}
SuccessMeansDrained ==
  /\ pc = "done" /\ rc = "ok" => Range(drained) = SinksAmong(stage.n)
  /\ \E n \in 0 .. stage.n : Range(drained) = SinksAmong(n)
  /\ \A a, b \in DOMAIN drained :
       a < b => \E m, n \in Steps : m < n /\ order[m] = drained[a] /\ order[n] = drained[b]

(* What the stage acquires it gives back, once: every stream and every step,  *)
(* wherever it fails.                                                         *)
CleanedUpOnce ==
  /\ TypeOK
  /\ StreamsReleasedOnce
  /\ DestroyedOncePerInit

\* The components of a stage, and its declaration order, that these hold for.
SingleInputs ==
  \A g \in Stages : \A i \in 1 .. g.n : g.accepts[i] = "one" => Len(g.from[i]) <= 1
DeclaredInOrder ==
  \A g \in Stages : g.parallel =>
    \A i \in 1 .. g.n : \A r \in DOMAIN g.from[i] : g.from[i][r].up < i

(* The streams are connected as `from:` says, upstream schemas first.         *)
WiringIsSound == InputsBeforeOutputs /\ WiredAsWritten
==============================================================================
