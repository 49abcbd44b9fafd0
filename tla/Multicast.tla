------------------------------ MODULE Multicast ------------------------------
(***************************************************************************)
(* The multicast transform (src/runtime/transform_multicast.c) behind the  *)
(* edges the executor puts on its taps: each consumed tap has a producer   *)
(* thread that calls the tap's get_next and fills that edge's ring; the    *)
(* sinks are driven one after the other by the stage's thread; then the    *)
(* edges are released and mc_destroy drains what is left.                  *)
(*                                                                         *)
(* One upstream batch is shared by all taps through a reference count.     *)
(* McState has no lock, so its operations are cut at every access to the   *)
(* shared queues and counts.  An edge is the ordered stream AsyncStream    *)
(* implements: a bounded sequence, an end, a stop request, and the host's  *)
(* cancel, which stops it without an end.                                  *)
(***************************************************************************)
EXTENDS Naturals, Sequences, FiniteSets

CONSTANTS
  NTaps,       \* the taps are 1 .. NTaps
  Sinks,       \* the consumed taps, in the order their sinks are driven
  Limit,       \* Limit[t]: batches after which t's consumer stops pulling
  Depth,       \* ring size of an edge
  MaxBatches,  \* bound: batches the upstream can produce
  AllocFails   \* whether calloc may fail

Taps    == 1 .. NTaps
Batches == 1 .. MaxBatches

ASSUME NTapsAssumption == NTaps \in 1 .. 16
ASSUME SinksAssumption ==
  /\ Sinks \in Seq(Taps)
  /\ \A i, j \in DOMAIN Sinks : Sinks[i] = Sinks[j] => i = j
ASSUME LimitAssumption == Limit \in [Taps -> Nat]
ASSUME DepthAssumption == Depth \in Nat \ {0}
ASSUME MaxBatchesAssumption == MaxBatches \in Nat
ASSUME AllocFailsAssumption == AllocFails \in BOOLEAN

VARIABLES
  queue,         \* queue[t]: McTap's FIFO of shared batches
  refcount,      \* refcount[b]: SharedBatch.refcount
  upstream_eof,  \* McState.upstream_eof
  pulled, upEnd, \* batches the upstream returned; how it ended
  released,      \* batches whose upstream release has run
  tpc,           \* where the thread of tap t's edge is
  cur, nxt,      \* its local batch; the tap it pushes to next
  ring, end,     \* the edge of tap t: queued views, and how it ended
  stop,          \* the edge's stop flag
  phase, pos,    \* the stage's thread: what it does, for which sink
  view,          \* the view its current sink holds, 0 if none
  got, ended,    \* per tap: views received; how its consumer saw it end
  cancel         \* the context's cancel_flag

mc     == <<queue, refcount, upstream_eof, released>>
up     == <<pulled, upEnd>>
thread == <<tpc, cur, nxt>>
edge   == <<ring, end, stop>>
driver == <<phase, pos, view, got, ended>>
vars   == <<mc, up, thread, edge, driver, cancel>>

Init ==
  /\ queue = [t \in Taps |-> <<>>] /\ refcount = [b \in Batches |-> 0]
  /\ upstream_eof = FALSE /\ released = {}
  /\ pulled = 0 /\ upEnd = "open"
  /\ tpc = [t \in Taps |-> "none"]
  /\ cur = [t \in Taps |-> 0] /\ nxt = [t \in Taps |-> 1]
  /\ ring = [t \in Taps |-> <<>>] /\ end = [t \in Taps |-> "open"]
  /\ stop = [t \in Taps |-> FALSE]
  /\ phase = "drive" /\ pos = 1 /\ view = 0
  /\ got = [t \in Taps |-> <<>>] /\ ended = [t \in Taps |-> "open"]
  /\ cancel = FALSE

------------------------------------------------------------------------------
(* Reference counting                                                       *)

InitialRefs == NTaps

LastReference_OffByOne(b) == refcount[b] <= 2
LastReference(b) == refcount[b] = 1

\* shared_release: drop one reference, release the batch with the last one.
SharedRelease(b) ==
  /\ refcount' = [refcount EXCEPT ![b] = @ - 1]
  /\ released' = IF LastReference(b) THEN released \cup {b} ELSE released

\* After a failed push only the nodes already queued hold a reference.
CollapsedRefs(pushed) == pushed

------------------------------------------------------------------------------
(* A tap's thread: producer_loop around port_get_next                       *)

Goto(t, loc) == tpc' = [tpc EXCEPT ![t] = loc]

\* The thread reports how its get_next ended, and leaves.
Leave(t, how) == Goto(t, "exit") /\ end' = [end EXCEPT ![t] = how]

RoomOrStop_StopIgnored(t) == Len(ring[t]) < Depth
RoomOrStop(t) == stop[t] \/ Len(ring[t]) < Depth

\* Room in the ring, or a request to stop.  A cancel raises the edge's stop
\* flag and ends the thread; the edge reports no end.
TRoom(t) ==
  /\ tpc[t] = "room" /\ RoomOrStop(t)
  /\ Goto(t, IF stop[t] \/ cancel THEN "exit" ELSE "check")
  /\ stop' = [stop EXCEPT ![t] = @ \/ cancel]
  /\ UNCHANGED <<mc, up, cur, nxt, ring, end, driver>>

TapEnded_EofFirst(t) == upstream_eof

\* Clean end of this tap: the upstream ended and its own queue is drained.
TapEnded(t) == upstream_eof /\ queue[t] = <<>>

TEof(t) ==
  /\ tpc[t] = "check" /\ TapEnded(t)
  /\ Leave(t, "eof")
  /\ UNCHANGED <<mc, up, cur, nxt, ring, stop, driver>>

\* Hand out a view of the oldest queued batch.
TPop(t) ==
  /\ tpc[t] = "check" /\ ~TapEnded(t) /\ queue[t] # <<>>
  /\ cur' = [cur EXCEPT ![t] = Head(queue[t])]
  /\ queue' = [queue EXCEPT ![t] = Tail(@)]
  /\ Goto(t, "put")
  /\ UNCHANGED <<refcount, upstream_eof, released, up, nxt, edge, driver>>

\* mc_pull_one: enter the upstream's get_next.
TPullOne(t) ==
  /\ tpc[t] = "check" /\ ~TapEnded(t) /\ queue[t] = <<>>
  /\ Goto(t, "up")
  /\ UNCHANGED <<mc, up, cur, nxt, edge, driver>>

TUpstreamEnds(t) ==
  /\ tpc[t] = "up"
  /\ \/ /\ upEnd \in {"open", "eof"}
        /\ upEnd' = "eof" /\ upstream_eof' = TRUE
        /\ Goto(t, "check") /\ UNCHANGED end
     \/ /\ upEnd \in {"open", "error"}
        /\ upEnd' = "error" /\ Leave(t, "error") /\ UNCHANGED upstream_eof
  /\ UNCHANGED <<queue, refcount, released, pulled, cur, nxt, ring, stop, driver>>

\* A batch arrives: share it between all taps, or fail to allocate the share.
TUpstreamBatch(t) ==
  /\ tpc[t] = "up" /\ upEnd = "open" /\ pulled < MaxBatches
  /\ pulled' = pulled + 1
  /\ \/ /\ refcount' = [refcount EXCEPT ![pulled + 1] = InitialRefs]
        /\ cur' = [cur EXCEPT ![t] = pulled + 1]
        /\ nxt' = [nxt EXCEPT ![t] = 1]
        /\ Goto(t, "push") /\ UNCHANGED <<released, end>>
     \/ /\ AllocFails
        /\ released' = released \cup {pulled + 1}
        /\ Leave(t, "error") /\ UNCHANGED <<refcount, cur, nxt>>
  /\ UNCHANGED <<queue, upstream_eof, upEnd, ring, stop, driver>>

Enqueue(q, b) == Append(q, b)

\* Queue a node on the next tap.
TPush(t) ==
  /\ tpc[t] = "push"
  /\ queue' = [queue EXCEPT ![nxt[t]] = Enqueue(@, cur[t])]
  /\ nxt' = [nxt EXCEPT ![t] = @ + 1]
  /\ IF nxt[t] = NTaps THEN Goto(t, "check") /\ cur' = [cur EXCEPT ![t] = 0]
                       ELSE UNCHANGED <<tpc, cur>>
  /\ UNCHANGED <<refcount, upstream_eof, released, up, edge, driver>>

\* The node cannot be allocated: keep the references already queued.
TPushFails(t) ==
  /\ tpc[t] = "push" /\ AllocFails
  /\ refcount' = [refcount EXCEPT ![cur[t]] = CollapsedRefs(nxt[t] - 1)]
  /\ released' = IF nxt[t] = 1 THEN released \cup {cur[t]} ELSE released
  /\ cur' = [cur EXCEPT ![t] = 0]
  /\ Leave(t, "error")
  /\ UNCHANGED <<queue, upstream_eof, up, nxt, ring, stop, driver>>

\* Push the view into the edge's ring, or release it when stopped.
TPut(t) ==
  /\ tpc[t] = "put"
  /\ cur' = [cur EXCEPT ![t] = 0]
  /\ IF stop[t]
       THEN Goto(t, "exit") /\ SharedRelease(cur[t]) /\ UNCHANGED ring
       ELSE /\ Goto(t, "room")
            /\ ring' = [ring EXCEPT ![t] = Append(@, cur[t])]
            /\ UNCHANGED <<refcount, released>>
  /\ UNCHANGED <<queue, upstream_eof, up, nxt, end, stop, driver>>

Thread(t) ==
  /\ UNCHANGED cancel
  /\ \/ TRoom(t) \/ TEof(t) \/ TPop(t) \/ TPullOne(t) \/ TUpstreamEnds(t)
     \/ TUpstreamBatch(t) \/ TPush(t) \/ TPushFails(t) \/ TPut(t)

------------------------------------------------------------------------------
(* The stage's thread: drive each sink to its end, then tear down           *)

Sink == Sinks[pos]

\* The consumer has had what it wants (limit) and reports end to its sink.
Satisfied == Len(got[Sink]) >= Limit[Sink]

Driving == phase = "drive" /\ pos <= Len(Sinks) /\ view = 0

\* The first pull of a tap starts its thread.
DStart ==
  /\ Driving /\ ~Satisfied /\ tpc[Sink] = "none"
  /\ Goto(Sink, "room")
  /\ UNCHANGED <<mc, up, cur, nxt, edge, driver>>

DPull ==
  /\ Driving /\ ~Satisfied /\ ring[Sink] # <<>>
  /\ view' = Head(ring[Sink])
  /\ ring' = [ring EXCEPT ![Sink] = Tail(@)]
  /\ got' = [got EXCEPT ![Sink] = Append(@, view')]
  /\ UNCHANGED <<mc, up, thread, end, stop, phase, pos, ended>>

\* consumer_release of the view the sink is done with; it pulls the next one,
\* or has failed on this one and ends the stage.
DRelease ==
  /\ view # 0
  /\ SharedRelease(view)
  /\ view' = 0
  /\ phase' \in {"drive", "release"}
  /\ UNCHANGED <<queue, upstream_eof, up, thread, edge, pos, got, ended>>

DNextSink ==
  /\ Driving
  /\ \/ Satisfied /\ UNCHANGED ended
     \/ /\ ~Satisfied /\ ring[Sink] = <<>> /\ end[Sink] = "eof"
        /\ ended' = [ended EXCEPT ![Sink] = "eof"]
  /\ pos' = pos + 1
  /\ UNCHANGED <<mc, up, thread, edge, phase, view, got>>

EdgeFailed == Driving /\ ~Satisfied /\ ring[Sink] = <<>> /\ end[Sink] = "error"

\* All sinks are done, a sink fails before its first pull (or its thread does
\* not start), or its edge reports an error.  A sink that waits in
\* async_get_next cannot stop.
DStop ==
  /\ phase = "drive" /\ view = 0
  /\ \/ pos > Len(Sinks) /\ UNCHANGED ended
     \/ Driving /\ tpc[Sink] = "none" /\ UNCHANGED ended
     \/ EdgeFailed /\ ended' = [ended EXCEPT ![Sink] = "error"]
  /\ phase' = "release"
  /\ UNCHANGED <<mc, up, thread, edge, pos, view, got>>

Consumed == {Sinks[i] : i \in DOMAIN Sinks}
Joined(t) == tpc[t] \in {"none", "exit"}
EdgeReleased(t) == stop[t] /\ Joined(t) /\ ring[t] = <<>>

\* async_release of one consumed tap's edge after another: stop its thread,
\* join it, drain its ring.  The order is that of the sinks' declarations.
DStopEdge ==
  /\ phase = "release"
  /\ \E t \in Consumed :
       /\ ~stop[t] /\ \A u \in Consumed : stop[u] => EdgeReleased(u)
       /\ stop' = [stop EXCEPT ![t] = TRUE]
  /\ UNCHANGED <<mc, up, thread, ring, end, driver>>

DDrainEdge ==
  /\ phase = "release"
  /\ \A u \in Consumed : stop[u] => Joined(u)
  /\ \E t \in Consumed :
       /\ stop[t] /\ ring[t] # <<>>
       /\ SharedRelease(Head(ring[t]))
       /\ ring' = [ring EXCEPT ![t] = Tail(@)]
  /\ UNCHANGED <<queue, upstream_eof, up, thread, end, stop, driver>>

DEdgesReleased ==
  /\ phase = "release" /\ \A t \in Consumed : EdgeReleased(t)
  /\ phase' = "destroy"
  /\ UNCHANGED <<mc, up, thread, edge, pos, view, got, ended>>

\* mc_destroy: queue_drain of every tap, the ones nobody consumed included.
DDrain ==
  /\ phase = "destroy"
  /\ \E t \in Taps :
       /\ queue[t] # <<>>
       /\ SharedRelease(Head(queue[t]))
       /\ queue' = [queue EXCEPT ![t] = Tail(@)]
  /\ UNCHANGED <<upstream_eof, up, thread, edge, driver>>

DrainDone == \A t \in Taps : queue[t] = <<>>

DDestroyed ==
  /\ phase = "destroy" /\ DrainDone
  /\ phase' = "done"
  /\ UNCHANGED <<mc, up, thread, edge, pos, view, got, ended>>

Driver ==
  /\ UNCHANGED cancel
  /\ \/ DStart \/ DPull \/ DRelease \/ DNextSink \/ DStop
     \/ DStopEdge \/ DDrainEdge \/ DEdgesReleased \/ DDrain \/ DDestroyed

\* betl_context_request_cancel
Cancel == ~cancel /\ cancel' = TRUE /\ UNCHANGED <<mc, up, thread, edge, driver>>

Terminated == phase = "done" /\ UNCHANGED vars

\* The sink waits on an edge whose thread a cancel has ended: for ever.
WaitsOnCancelled ==
  /\ Driving /\ ~Satisfied /\ ring[Sink] = <<>>
  /\ cancel /\ tpc[Sink] = "exit" /\ end[Sink] = "open"
  /\ UNCHANGED vars

Next ==
  \/ Driver \/ (\E t \in Taps : Thread(t)) \/ Cancel
  \/ Terminated \/ WaitsOnCancelled

Spec == Init /\ [][Next]_vars

\* Every thread is scheduled and the upstream's get_next returns; the host may
\* cancel at any moment, or never.
FairSpec == Spec /\ WF_vars(Driver) /\ \A t \in Taps : WF_vars(Thread(t))

------------------------------------------------------------------------------
(* Properties                                                               *)

TypeOK ==
  /\ queue \in [Taps -> Seq(Batches)] /\ refcount \in [Batches -> 0 .. NTaps]
  /\ upstream_eof \in BOOLEAN /\ released \in SUBSET Batches
  /\ pulled \in 0 .. MaxBatches /\ upEnd \in {"open", "eof", "error"}
  /\ tpc \in [Taps -> {"none", "room", "check", "up", "push", "put", "exit"}]
  /\ cur \in [Taps -> 0 .. MaxBatches] /\ nxt \in [Taps -> 1 .. NTaps + 1]
  /\ ring \in [Taps -> Seq(Batches)]
  /\ end \in [Taps -> {"open", "eof", "error"}] /\ stop \in [Taps -> BOOLEAN]
  /\ phase \in {"drive", "release", "destroy", "done"}
  /\ pos \in 1 .. Len(Sinks) + 1 /\ view \in 0 .. MaxBatches
  /\ got \in [Taps -> Seq(Batches)]
  /\ ended \in [Taps -> {"open", "eof", "error"}] /\ cancel \in BOOLEAN

\* The queued nodes, queued views and views in hand that refer to batch b.
At(s, b) == {i \in DOMAIN s : s[i] = b}
Referring(t, b) ==
  ({"queue"} \X At(queue[t], b)) \cup ({"ring"} \X At(ring[t], b))
    \cup (IF tpc[t] = "put" /\ cur[t] = b THEN {<<"hand", 1>>} ELSE {})
    \cup (IF view = b /\ t = Sink THEN {<<"view", 1>>} ELSE {})
References(b) == Cardinality(UNION {{t} \X Referring(t, b) : t \in Taps})

(* A shared batch is alive as long as some tap can still read it: the       *)
(* upstream's release never runs under a queued node, a queued view or a    *)
(* view a consumer holds (shared_release).                                  *)
NoUseAfterFree == \A b \in released : References(b) = 0

(* The count is exact whenever nobody is queueing the batch: no reference   *)
(* is lost, also when an allocation fails half way through the taps.        *)
RefcountExact ==
  \A b \in 1 .. pulled :
    (\A t \in Taps : tpc[t] = "push" => cur[t] # b)
      => refcount[b] = References(b)

(* Every tap delivers every upstream batch, in upstream order.              *)
TapsSeeEverything ==
  \A t \in Taps :
    /\ \A i \in DOMAIN got[t] : got[t][i] = i
    /\ ended[t] = "eof" => Len(got[t]) = pulled /\ upEnd = "eof"

(* After mc_destroy every batch of the upstream has been released once its  *)
(* consumers are gone, also those of a tap that no step consumes.           *)
NothingLeaked == phase = "done" => released = 1 .. pulled

(* "each component's state is still touched by exactly one thread"          *)
(* (README.md:209): never two threads inside the multicast at once.         *)
InMulticast(t) == tpc[t] \in {"check", "up", "push"}
OneThreadInComponent ==
  \A t, u \in Taps : InMulticast(t) /\ InMulticast(u) => t = u

\* Only the consumer of the sink driven last may stop before its stream ends.
OnlyLastStopsEarly ==
  \A i \in DOMAIN Sinks : i < Len(Sinks) => Limit[Sinks[i]] > MaxBatches

(* A batch that several taps share lives exactly as long as one of them      *)
(* refers to it, and its count is only ever touched by one thread.           *)
SharingIsSound ==
  /\ TypeOK
  /\ NoUseAfterFree
  /\ RefcountExact
  /\ NothingLeaked
  /\ OneThreadInComponent

(* No sink waits for ever on its edge, whichever tap pulled the upstream to  *)
(* its end or failed, unless the host cancels (AsyncStream's CancelReturns   *)
(* shows that wait); and once the stage is left, every thread is joined and  *)
(* every queue drained, also after a cancel.                                 *)
StageTerminates ==
  /\ <>(cancel \/ phase = "done")
  /\ phase = "release" ~> phase = "done"
==============================================================================
