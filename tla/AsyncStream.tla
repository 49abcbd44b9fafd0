----------------------------- MODULE AsyncStream -----------------------------
(***************************************************************************)
(* One dataflow edge (src/runtime/async_stream.c): a producer thread pulls *)
(* the upstream stream into a bounded ring, the consumer thread takes      *)
(* batches out of the ring.  The critical sections under q->mu are one     *)
(* action each; upstream.get_next runs outside the lock; a thread blocked  *)
(* in pthread_cond_wait is at a pc of its own ("waitFull", "waitEmpty")    *)
(* that only a signal, a broadcast or a spurious wake-up leaves.           *)
(*                                                                         *)
(* Batches are numbered 1, 2, ... as the upstream returns them; 0 is a     *)
(* zeroed ArrowArray.  The host may request cancellation at any time.      *)
(***************************************************************************)
EXTENDS Naturals, Sequences, FiniteSets

CONSTANTS
  Depth,        \* q->cap: BETL_PARALLEL_DEPTH, clamped to 1..64
  MaxBatches,   \* bound: batches the upstream can produce
  Cancellable   \* whether the host may request cancellation

ASSUME DepthAssumption == Depth \in Nat \ {0}
ASSUME MaxBatchesAssumption == MaxBatches \in Nat
ASSUME CancellableAssumption == Cancellable \in BOOLEAN

VARIABLES
  ring, head, n,         \* q->ring, q->head, q->n
  eof, err_set, stop,    \* q->eof, q->err_set, q->stop
  started,               \* q->started: the producer thread exists
  ppc,                   \* where the producer thread is
  batch,                 \* the producer's local batch, 0 when zeroed
  cpc,                   \* where the consumer thread is
  status,                \* what the last async_get_next returned
  out,                   \* the batches async_get_next has returned
  cancel,                \* the context's cancel_flag
  pulled,                \* batches the upstream has returned
  upEnd,                 \* how upstream.get_next ended: "open" until it has
  freed,                 \* batches the edge itself has released
  upReleased             \* upstream.release has been called

queue == <<ring, head, n>>
flags == <<eof, err_set, stop, started>>
prod  == <<ppc, batch>>
cons  == <<cpc, status, out>>
up    == <<pulled, upEnd, upReleased>>
vars  == <<queue, flags, prod, cons, cancel, up, freed>>

Slots == 0 .. Depth - 1

\* betl_async_wrap: an empty ring around a stream that is not yet pulled.
Init ==
  /\ ring = [s \in Slots |-> 0] /\ head = 0 /\ n = 0
  /\ eof = FALSE /\ err_set = FALSE /\ stop = FALSE /\ started = FALSE
  /\ ppc = "none" /\ batch = 0
  /\ cpc = "idle" /\ status = "none" /\ out = <<>>
  /\ cancel = FALSE
  /\ pulled = 0 /\ upEnd = "open" /\ upReleased = FALSE
  /\ freed = {}

------------------------------------------------------------------------------
(* pthread_cond_signal / broadcast: wake the one thread that can wait.      *)

WakeProducer_Lost == UNCHANGED ppc

WakeConsumer == cpc' = IF cpc = "waitEmpty" THEN "get" ELSE cpc
WakeProducer == ppc' = IF ppc = "waitFull" THEN "room" ELSE ppc

------------------------------------------------------------------------------
(* The ring                                                                 *)

TailSlot_OffByOne == (head + n + 1) % Depth

RingFull == n = Depth
TailSlot == (head + n) % Depth
NextHead == (head + 1) % Depth

\* Take the oldest batch out of the ring and zero its slot.
Pop ==
  /\ ring' = [ring EXCEPT ![head] = 0]
  /\ head' = NextHead
  /\ n' = n - 1

------------------------------------------------------------------------------
(* producer_loop                                                            *)

\* Top of the loop: leave on stop, wait while the ring is full.
PRoom ==
  /\ ppc = "room"
  /\ ppc' = IF stop THEN "exit" ELSE IF RingFull THEN "waitFull" ELSE "check"
  /\ UNCHANGED <<queue, flags, batch, cons, cancel, up, freed>>

\* betl_should_cancel: on cancel, raise stop, wake the consumer and leave.
PCheckCancel ==
  /\ ppc = "check"
  /\ IF cancel
       THEN ppc' = "exit" /\ stop' = TRUE /\ WakeConsumer
       ELSE ppc' = "pull" /\ UNCHANGED <<stop, cpc>>
  /\ UNCHANGED <<queue, eof, err_set, started, batch, status, out, cancel,
                 up, freed>>

\* upstream.get_next returns a batch ...
PPullBatch ==
  /\ ppc = "pull"
  /\ pulled < MaxBatches
  /\ pulled' = pulled + 1
  /\ batch' = pulled + 1
  /\ ppc' = "put"
  /\ UNCHANGED <<queue, flags, cons, cancel, upEnd, upReleased, freed>>

\* ... or its end: a released array for end of stream, a nonzero rc.
PPullEnd ==
  /\ ppc = "pull"
  /\ \E e \in {"eof", "error"} : upEnd' = e /\ ppc' = e
  /\ UNCHANGED <<queue, flags, batch, cons, cancel, pulled, upReleased, freed>>

\* Under the lock: record the end, wake the consumer, leave.
PReportEnd ==
  /\ ppc \in {"eof", "error"}
  /\ IF ppc = "eof"
       THEN eof' = TRUE /\ UNCHANGED err_set
       ELSE err_set' = TRUE /\ UNCHANGED eof
  /\ ppc' = "exit"
  /\ WakeConsumer
  /\ UNCHANGED <<queue, stop, started, batch, status, out, cancel, up, freed>>

Discard_Leak == UNCHANGED freed

\* batch.release: the consumer stopped while get_next was running.
Discard == freed' = freed \cup {batch}

\* Under the lock: push at the tail, or discard when the consumer has stopped.
PPut ==
  /\ ppc = "put"
  /\ batch' = 0
  /\ IF stop
       THEN /\ Discard
            /\ ppc' = "exit"
            /\ UNCHANGED <<queue, cpc>>
       ELSE /\ ring' = [ring EXCEPT ![TailSlot] = batch]
            /\ n' = n + 1
            /\ ppc' = "room"
            /\ WakeConsumer
            /\ UNCHANGED <<head, freed>>
  /\ UNCHANGED <<flags, status, out, cancel, up>>

Producer == PRoom \/ PCheckCancel \/ PPullBatch \/ PPullEnd \/ PReportEnd \/ PPut

------------------------------------------------------------------------------
(* async_get_next                                                           *)

\* The first pull spawns the producer; pthread_create may fail with EIO.
CSpawn ==
  /\ cpc = "idle" /\ ~started
  /\ \/ started' = TRUE /\ ppc' = "room" /\ cpc' = "get" /\ status' = "none"
     \/ status' = "error" /\ UNCHANGED <<started, ppc, cpc>>
  /\ UNCHANGED <<queue, eof, err_set, stop, batch, out, cancel, up, freed>>

CCall ==
  /\ cpc = "idle" /\ started
  /\ cpc' = "get" /\ status' = "none"
  /\ UNCHANGED <<queue, flags, prod, out, cancel, up, freed>>

EndVisible_FlagsFirst == eof \/ err_set

\* What the end flags tell the consumer, once the ring is empty.
EndVisible == n = 0 /\ (eof \/ err_set)
EndStatus == IF err_set THEN "error" ELSE "eof"

CWait ==
  /\ cpc = "get" /\ n = 0 /\ ~EndVisible
  /\ cpc' = "waitEmpty"
  /\ UNCHANGED <<queue, flags, prod, status, out, cancel, up, freed>>

\* Queued batches come out before the end of the stream is reported.
CTake ==
  /\ cpc = "get" /\ n > 0
  /\ out' = Append(out, ring[head])
  /\ Pop
  /\ status' = "batch"
  /\ cpc' = "idle"
  /\ WakeProducer
  /\ UNCHANGED <<flags, batch, cancel, up, freed>>

CEnd ==
  /\ cpc = "get" /\ EndVisible
  /\ status' = EndStatus
  /\ cpc' = "idle"
  /\ UNCHANGED <<queue, flags, prod, out, cancel, up, freed>>

------------------------------------------------------------------------------
(* async_release                                                            *)

CRelease ==
  /\ cpc = "idle"
  /\ IF started
       THEN stop' = TRUE /\ WakeProducer /\ cpc' = "join"
       ELSE cpc' = "drain" /\ UNCHANGED <<stop, ppc>>
  /\ UNCHANGED <<queue, eof, err_set, started, batch, status, out, cancel,
                 up, freed>>

\* pthread_join returns once producer_loop has.
ProducerDone == ppc = "exit"

CJoin ==
  /\ cpc = "join" /\ ProducerDone
  /\ cpc' = "drain"
  /\ UNCHANGED <<queue, flags, prod, status, out, cancel, up, freed>>

\* One iteration of the drain loop over abandoned batches.
CDrain ==
  /\ cpc = "drain" /\ n > 0
  /\ freed' = freed \cup {ring[head]}
  /\ Pop
  /\ UNCHANGED <<flags, prod, cons, cancel, up>>

\* The ring is freed, then the upstream is released.
CFree ==
  /\ cpc = "drain" /\ n = 0
  /\ upReleased' = TRUE
  /\ cpc' = "freed"
  /\ UNCHANGED <<queue, flags, prod, status, out, cancel, pulled, upEnd, freed>>

Pull    == CSpawn \/ CCall \/ CWait \/ CTake \/ CEnd
Release == CRelease \/ CJoin \/ CDrain \/ CFree

------------------------------------------------------------------------------
(* The environment                                                          *)

\* betl_context_request_cancel
RequestCancel ==
  /\ Cancellable /\ ~cancel
  /\ cancel' = TRUE
  /\ UNCHANGED <<queue, flags, prod, cons, up, freed>>

\* POSIX lets pthread_cond_wait return without a signal.
SpuriousWakeup ==
  /\ \/ ppc = "waitFull" /\ WakeProducer /\ UNCHANGED cpc
     \/ cpc = "waitEmpty" /\ WakeConsumer /\ UNCHANGED ppc
  /\ UNCHANGED <<queue, flags, batch, status, out, cancel, up, freed>>

\* The stream is gone: nothing is left to run.
Terminated == cpc = "freed" /\ UNCHANGED vars

Next == Producer \/ Pull \/ Release \/ RequestCancel \/ SpuriousWakeup
          \/ Terminated

Spec == Init /\ [][Next]_vars

(* Both threads are scheduled and the upstream's get_next returns.  Nothing *)
(* forces the consumer to pull again or to release: those are its choices.  *)
Fairness ==
  /\ WF_vars(Producer)
  /\ WF_vars(CWait \/ CTake \/ CEnd)
  /\ WF_vars(CJoin \/ CDrain \/ CFree)

FairSpec == Spec /\ Fairness

------------------------------------------------------------------------------
(* Properties                                                               *)

Batches == 1 .. MaxBatches

TypeOK ==
  /\ ring \in [Slots -> Nat] /\ head \in Slots /\ n \in 0 .. Depth
  /\ eof \in BOOLEAN /\ err_set \in BOOLEAN /\ stop \in BOOLEAN
  /\ started \in BOOLEAN
  /\ ppc \in {"none", "room", "waitFull", "check", "pull", "put", "eof",
              "error", "exit"}
  /\ batch \in Nat
  /\ cpc \in {"idle", "get", "waitEmpty", "join", "drain", "freed"}
  /\ status \in {"none", "batch", "eof", "error"}
  /\ out \in Seq(Nat)
  /\ cancel \in BOOLEAN
  /\ pulled \in Nat /\ upEnd \in {"open", "eof", "error"}
  /\ upReleased \in BOOLEAN
  /\ freed \in SUBSET Nat

\* Slot of the i-th queued batch, counting from 0.
Slot(i) == (head + i) % Depth

Delivered == {out[i] : i \in 1 .. Len(out)}
Queued    == {ring[Slot(i)] : i \in 0 .. n - 1}
InHand    == {batch} \ {0}

(* The consumer receives the upstream's batches in order with none skipped  *)
(* or repeated (async_get_next / producer_loop), and as long as it can pull *)
(* the ring holds exactly the ones that come next.                          *)
FIFO ==
  /\ \A i \in 1 .. Len(out) : out[i] = i
  /\ cpc \notin {"drain", "freed"} =>
        \A i \in 0 .. n - 1 : ring[Slot(i)] = Len(out) + i + 1

(* Read-ahead is bounded by the ring: room is reserved before the upstream  *)
(* is pulled, so a batch in hand always finds a free slot and at most Depth *)
(* batches of the edge exist at a time.                                     *)
InFlightBounded ==
  /\ n <= Depth
  /\ ppc \in {"check", "pull", "put"} => n < Depth

(* Ownership: a batch the upstream handed over is with the consumer, in the *)
(* ring, in the producer's hand or released by the edge, and in only one of *)
(* these places (no leak, no double release, no use after release); once    *)
(* async_release is done the edge holds none.                               *)
Ownership ==
  /\ Delivered \cup Queued \cup InHand \cup freed = 1 .. pulled
  /\ Delivered \cap (Queued \cup InHand \cup freed) = {}
  /\ Queued \cap (InHand \cup freed) = {} /\ InHand \cap freed = {}
  /\ \A i, j \in 0 .. n - 1 : ring[Slot(i)] = ring[Slot(j)] => i = j
  /\ cpc = "freed" => Queued \cup InHand = {}

(* async_get_next reports the end of the stream only when the upstream has  *)
(* ended and every batch it produced has been delivered, and reports the    *)
(* end that happened: an upstream error is never turned into a clean EOF.   *)
EndIsTrue ==
  /\ status = "eof" => upEnd = "eof" /\ Len(out) = pulled
  /\ status = "error" /\ started => upEnd = "error" /\ Len(out) = pulled

(* async_release joins the producer before it frees the ring and releases   *)
(* the upstream, so neither is touched after it is gone.                    *)
NoUseAfterRelease ==
  cpc \in {"drain", "freed"} => ppc \in {"none", "exit"}

(* What holds of the edge at any moment: order, the bound of the ring, an    *)
(* end that is reported as it happened and only after the last batch, and    *)
(* no thread left when the ring is freed.                                    *)
StreamIsSound ==
  /\ TypeOK
  /\ FIFO
  /\ InFlightBounded
  /\ EndIsTrue
  /\ NoUseAfterRelease

(* A pull returns unless the host cancels (see CancelReturns): no wake-up   *)
(* is lost between the two threads.                                         *)
PullReturns == cpc \in {"get", "waitEmpty"} ~> cpc = "idle" \/ cancel

(* Releasing the stream terminates, also with a producer blocked on a full  *)
(* ring and also after a cancellation.                                      *)
ReleaseReturns == cpc = "join" ~> cpc = "freed"

(* No call of the consumer hangs: the waits of the two threads are matched   *)
(* by wake-ups whatever the interleaving.                                    *)
CallsReturn == PullReturns /\ ReleaseReturns

(* "Cooperative cancel from the host" (async_stream.c:103): a consumer that *)
(* waits for a batch when the host cancels is told so and returns.          *)
CancelReturns == cancel /\ cpc \in {"get", "waitEmpty"} ~> cpc = "idle"

\* The edge is an ordered stream with a read-ahead of Depth batches.
Stream == INSTANCE OrderedStream WITH
  Lookahead <- Depth, sent <- pulled, got <- Len(out), end <- upEnd,
  seen <- status, closed <- cpc \in {"join", "drain", "freed"}

(* The wrapper is transparent: what the consumer sees is an ordered stream  *)
(* of the upstream's batches, ended the way the upstream ended.             *)
ImplementsOrderedStream == Stream!OSpec
==============================================================================
