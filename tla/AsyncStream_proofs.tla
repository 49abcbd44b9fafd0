-------------------------- MODULE AsyncStream_proofs --------------------------
(***************************************************************************)
(* Safety of one dataflow edge for every ring depth, every number of       *)
(* batches and every interleaving of producer, consumer and host.          *)
(***************************************************************************)
EXTENDS AsyncStream, TLAPS

USE DepthAssumption, MaxBatchesAssumption, CancellableAssumption

------------------------------------------------------------------------------
(* The inductive invariant                                                  *)

\* The number of batches in the producer's hand.
Held == IF batch = 0 THEN 0 ELSE 1

\* The consumer is past the join: the producer thread is gone for good.
Closing == cpc \in {"drain", "freed"}

(* Where the two threads can be relative to each other.                     *)
ThreadInv ==
  /\ started <=> ppc # "none"
  /\ cpc \in {"get", "waitEmpty", "join"} => started
  /\ Closing => ppc \in {"none", "exit"}
  /\ ~started => n = 0 /\ pulled = 0 /\ upEnd = "open" /\ ~eof /\ ~err_set
  /\ cpc \in {"get", "waitEmpty"} => status \notin {"eof", "error"}

(* The producer holds a batch between get_next and the push, the last one.  *)
HandInv ==
  /\ batch # 0 <=> ppc = "put"
  /\ batch # 0 => batch = pulled

(* The flags say how the upstream ended, and it is not pulled after that.   *)
EndInv ==
  /\ eof => upEnd = "eof" /\ ppc = "exit"
  /\ err_set => upEnd = "error" /\ ppc = "exit"
  /\ upEnd # "open" => ppc \in {"eof", "error", "exit"}
  /\ ppc \in {"eof", "error"} => upEnd = ppc

(* The ring holds k+1 .. k+n in order; what came before k was delivered or  *)
(* drained, what comes after is in the producer's hand or was discarded.    *)
Window(k) ==
  /\ Len(out) <= k
  /\ k + n + Held <= pulled
  /\ \A i \in 0 .. n - 1 : ring[Slot(i)] = k + i + 1
  /\ freed = (Len(out) + 1 .. k) \cup (k + n + 1 .. pulled - Held)

(* Before the drain nothing of the ring is released, and the edge releases  *)
(* at most the one batch in the producer's hand, when it leaves on stop.    *)
NoLossInv ==
  /\ \E k \in Nat : Window(k) /\ (~Closing => k = Len(out))
  /\ \A i \in 1 .. Len(out) : out[i] = i
  /\ ~Closing /\ (ppc # "exit" \/ upEnd # "open") => Len(out) + n + Held = pulled
  /\ cpc = "freed" => n = 0

IInv ==
  /\ TypeOK /\ ThreadInv /\ HandInv /\ EndInv
  /\ InFlightBounded /\ NoLossInv /\ EndIsTrue

------------------------------------------------------------------------------
(* Arithmetic of the ring                                                   *)

(* A slot index is taken modulo the ring's size and stays inside the ring.  *)
LEMMA SlotInRing ==
  ASSUME NEW h \in Slots, NEW i \in Nat
  PROVE  (h + i) % Depth \in Slots
BY DEF Slots

(* The offset 0 is the head.                                                *)
LEMMA SlotZero ==
  ASSUME NEW h \in Slots
  PROVE  (h + 0) % Depth = h
<1>1. h \in Nat /\ h < Depth BY DEF Slots
<1>2. h % Depth = h BY <1>1
<1> QED BY <1>1, <1>2

(* An interval grows by its new upper bound.                                *)
LEMMA IntervalGrows ==
  ASSUME NEW a \in Nat, NEW b \in Nat, a <= b
  PROVE  a + 1 .. b + 1 = (a + 1 .. b) \cup {b + 1}
OBVIOUS

(* Two offsets smaller than the ring's size reach different slots.          *)
LEMMA SlotInjective ==
  ASSUME NEW h \in Slots, NEW i \in 0 .. Depth - 1, NEW j \in 0 .. Depth - 1,
         (h + i) % Depth = (h + j) % Depth
  PROVE  i = j
BY DEF Slots

(* After the head advances, offset i reaches what offset i+1 reached.       *)
LEMMA SlotAdvance ==
  ASSUME NEW h \in Slots, NEW i \in Nat, i + 1 < Depth
  PROVE  (((h + 1) % Depth) + i) % Depth = (h + (i + 1)) % Depth
<1>1. CASE h + 1 < Depth
  BY <1>1 DEF Slots
<1>2. CASE h + 1 = Depth
  <2>1. (h + 1) % Depth = 0
    BY <1>2
  <2>2. (h + (i + 1)) % Depth = i
    BY <1>2 DEF Slots
  <2> QED BY <2>1, <2>2
<1> QED BY <1>1, <1>2 DEF Slots

------------------------------------------------------------------------------
(* Type correctness                                                         *)

LEMMA InitType == Init => TypeOK
BY DEF Init, TypeOK, Slots

LEMMA TypeStep == TypeOK /\ ThreadInv /\ InFlightBounded /\ [Next]_vars => TypeOK'
<1> SUFFICES ASSUME TypeOK, ThreadInv, InFlightBounded, [Next]_vars PROVE TypeOK'
  OBVIOUS
<1> USE DEF TypeOK, queue, flags, prod, cons, up, vars
<1>1. CASE PRoom BY <1>1 DEF PRoom, RingFull
<1>2. CASE PCheckCancel
  <2>1. CASE cancel BY <1>2, <2>1 DEF PCheckCancel, WakeConsumer
  <2>2. CASE ~cancel BY <1>2, <2>2 DEF PCheckCancel
  <2> QED BY <2>1, <2>2
<1>3. CASE PPullBatch BY <1>3 DEF PPullBatch
<1>4. CASE PPullEnd BY <1>4 DEF PPullEnd
<1>5. CASE PReportEnd BY <1>5 DEF PReportEnd, WakeConsumer
<1>6. CASE PPut
  <2>1. CASE stop BY <1>6, <2>1 DEF PPut, Discard
  <2>2. CASE ~stop
    <3>1. TailSlot \in Slots BY SlotInRing DEF TailSlot
    <3>2. n < Depth BY <1>6 DEF PPut, InFlightBounded
    <3>3. n' \in 0 .. Depth /\ ring' \in [Slots -> Nat]
      BY <1>6, <2>2, <3>1, <3>2 DEF PPut
    <3> QED BY <1>6, <2>2, <3>3 DEF PPut, WakeConsumer
  <2> QED BY <2>1, <2>2
<1>7. CASE CSpawn BY <1>7 DEF CSpawn
<1>8. CASE CCall BY <1>8 DEF CCall
<1>9. CASE CWait BY <1>9 DEF CWait
<1>10. NextHead \in Slots BY SlotInRing DEF NextHead
<1>11. CASE CTake BY <1>10, <1>11 DEF CTake, Pop, WakeProducer, Slots
<1>12. CASE CEnd BY <1>12 DEF CEnd, EndStatus
<1>13. CASE CRelease
  <2>1. CASE started BY <1>13, <2>1 DEF CRelease, WakeProducer
  <2>2. CASE ~started BY <1>13, <2>2 DEF CRelease
  <2> QED BY <2>1, <2>2
<1>14. CASE CJoin BY <1>14 DEF CJoin
<1>15. CASE CDrain
  <2>1. ring[head] \in Nat OBVIOUS
  <2>2. freed' \in SUBSET Nat BY <1>15, <2>1 DEF CDrain
  <2> QED BY <1>10, <1>15, <2>2 DEF CDrain, Pop
<1>16. CASE CFree BY <1>16 DEF CFree
<1>17. CASE RequestCancel BY <1>17 DEF RequestCancel
<1>18. CASE SpuriousWakeup
  BY <1>18 DEF SpuriousWakeup, WakeProducer, WakeConsumer
<1>19. CASE Terminated BY <1>19 DEF Terminated
<1>20. CASE UNCHANGED vars BY <1>20
<1> QED
  BY <1>1, <1>2, <1>3, <1>4, <1>5, <1>6, <1>7, <1>8, <1>9, <1>11, <1>12, <1>13,
     <1>14, <1>15, <1>16, <1>17, <1>18, <1>19, <1>20
  DEF Next, Producer, Pull, Release

------------------------------------------------------------------------------
(* Control: which thread can be where, and the room reserved in the ring    *)

ControlInv == ThreadInv /\ HandInv /\ EndInv /\ InFlightBounded

LEMMA ControlStep == TypeOK /\ ControlInv /\ [Next]_vars => ControlInv'
<1> SUFFICES ASSUME TypeOK, ControlInv, [Next]_vars PROVE ControlInv'
  OBVIOUS
<1> USE DEF TypeOK, ControlInv, ThreadInv, HandInv, EndInv, InFlightBounded,
            Closing, queue, flags, prod, cons, up, vars
<1>1. CASE PRoom BY <1>1 DEF PRoom, RingFull
<1>2. CASE PCheckCancel
  <2>1. CASE cancel BY <1>2, <2>1 DEF PCheckCancel, WakeConsumer
  <2>2. CASE ~cancel BY <1>2, <2>2 DEF PCheckCancel
  <2> QED BY <2>1, <2>2
<1>3. CASE PPullBatch BY <1>3 DEF PPullBatch
<1>4. CASE PPullEnd BY <1>4 DEF PPullEnd
<1>5. CASE PReportEnd
  <2>1. CASE ppc = "eof" BY <1>5, <2>1 DEF PReportEnd, WakeConsumer
  <2>2. CASE ppc = "error" BY <1>5, <2>2 DEF PReportEnd, WakeConsumer
  <2> QED BY <1>5, <2>1, <2>2 DEF PReportEnd
<1>6. CASE PPut
  <2>1. CASE stop BY <1>6, <2>1 DEF PPut, Discard
  <2>2. CASE ~stop BY <1>6, <2>2 DEF PPut, WakeConsumer
  <2> QED BY <2>1, <2>2
<1>7. CASE CSpawn BY <1>7 DEF CSpawn
<1>8. CASE CCall BY <1>8 DEF CCall
<1>9. CASE CWait BY <1>9 DEF CWait
<1>10. CASE CTake BY <1>10 DEF CTake, Pop, WakeProducer
<1>11. CASE CEnd BY <1>11 DEF CEnd
<1>12. CASE CRelease
  <2>1. CASE started BY <1>12, <2>1 DEF CRelease, WakeProducer
  <2>2. CASE ~started BY <1>12, <2>2 DEF CRelease
  <2> QED BY <2>1, <2>2
<1>13. CASE CJoin BY <1>13 DEF CJoin, ProducerDone
<1>14. CASE CDrain BY <1>14 DEF CDrain, Pop
<1>15. CASE CFree BY <1>15 DEF CFree
<1>16. CASE RequestCancel BY <1>16 DEF RequestCancel
<1>17. CASE SpuriousWakeup
  BY <1>17 DEF SpuriousWakeup, WakeProducer, WakeConsumer
<1>18. CASE Terminated BY <1>18 DEF Terminated
<1>19. CASE UNCHANGED vars BY <1>19
<1> QED
  BY <1>1, <1>2, <1>3, <1>4, <1>5, <1>6, <1>7, <1>8, <1>9, <1>10, <1>11, <1>12,
     <1>13, <1>14, <1>15, <1>16, <1>17, <1>18, <1>19
  DEF Next, Producer, Pull, Release

------------------------------------------------------------------------------
(* No loss: the ring is the window of batches that come next                *)

(* The window only depends on the ring, the hand and the two histories.     *)
LEMMA WindowUnchanged ==
  ASSUME NEW k, UNCHANGED <<ring, head, n, batch, pulled, out, freed>>, Window(k)
  PROVE  Window(k)'
BY DEF Window, Held, Slot

(* Popping the oldest batch moves the window up by one.                     *)
LEMMA PopWindow ==
  ASSUME TypeOK, NEW k \in Nat, Window(k), n > 0, Pop
  PROVE  /\ ring[head] = k + 1
         /\ \A i \in 0 .. n' - 1 : (ring[Slot(i)] = k + 1 + i + 1)'
<1> USE DEF TypeOK
<1>1. ring[head] = k + 1
  <2>1. Slot(0) = head BY SlotZero DEF Slot
  <2> QED BY <2>1 DEF Window
<1>2. ASSUME NEW i \in 0 .. n' - 1 PROVE (ring[Slot(i)] = k + 1 + i + 1)'
  <2>1. i \in Nat /\ i + 1 < Depth /\ i + 1 \in 0 .. n - 1 BY DEF Pop
  <2>2. (Slot(i))' = Slot(i + 1)
    BY <2>1, SlotAdvance DEF Slot, Pop, NextHead
  <2>3. Slot(i + 1) \in Slots BY <2>1, SlotInRing DEF Slot
  <2>4. Slot(i + 1) # head
    <3>1. head = (head + 0) % Depth BY SlotZero
    <3>2. 0 \in 0 .. Depth - 1 /\ i + 1 \in 0 .. Depth - 1 BY <2>1
    <3> QED BY <2>1, <3>1, <3>2, SlotInjective DEF Slot
  <2>5. ring'[Slot(i + 1)] = ring[Slot(i + 1)] BY <2>3, <2>4 DEF Pop
  <2>6. ring[Slot(i + 1)] = k + (i + 1) + 1 BY <2>1 DEF Window
  <2> QED BY <2>1, <2>2, <2>5, <2>6
<1> QED BY <1>1, <1>2

(* Pushing at the tail extends the window by one.                           *)
LEMMA PushWindow ==
  ASSUME TypeOK, NEW k \in Nat, Window(k), n < Depth, head' = head, n' = n + 1,
         ring' = [ring EXCEPT ![TailSlot] = k + n + 1]
  PROVE  \A i \in 0 .. n' - 1 : (ring[Slot(i)] = k + i + 1)'
<1> USE DEF TypeOK
<1> SUFFICES ASSUME NEW i \in 0 .. n PROVE ring'[Slot(i)] = k + i + 1
  BY DEF Slot
<1>1. Slot(i) \in Slots BY SlotInRing DEF Slot
<1>2. CASE i = n BY <1>1, <1>2 DEF TailSlot, Slot
<1>3. CASE i < n
  <2>1. Slot(i) # TailSlot BY <1>3, SlotInjective DEF Slot, TailSlot
  <2> QED BY <1>1, <1>3, <2>1 DEF Window
<1> QED BY <1>2, <1>3

LEMMA NoLossStep ==
  TypeOK /\ ControlInv /\ NoLossInv /\ [Next]_vars => NoLossInv'
<1> SUFFICES ASSUME TypeOK, ControlInv, NoLossInv, [Next]_vars PROVE NoLossInv'
  OBVIOUS
<1> PICK k \in Nat : Window(k) /\ (~Closing => k = Len(out))
  BY DEF NoLossInv
<1> USE DEF TypeOK, Closing, queue, flags, prod, cons, up, vars
<1>0. ASSUME UNCHANGED <<ring, head, n, batch, pulled, out, freed>>,
             Closing => Closing',
             ~Closing' /\ (ppc' # "exit" \/ upEnd' # "open") =>
               ppc # "exit" \/ upEnd # "open",
             cpc' = "freed" => n = 0 \/ cpc = "freed"
      PROVE  NoLossInv'
  <2>1. Window(k)' BY <1>0, WindowUnchanged
  <2>2. ~Closing' => ~Closing BY <1>0
  <2> QED BY <1>0, <2>1, <2>2 DEF NoLossInv, Held
<1>1. CASE PRoom BY <1>0, <1>1 DEF PRoom, RingFull
<1>2. CASE PCheckCancel
  BY <1>0, <1>2 DEF PCheckCancel, WakeConsumer
<1>3. CASE PPullBatch
  <2>1. batch = 0 /\ ~Closing BY <1>3 DEF PPullBatch, ControlInv, HandInv, ThreadInv
  <2>2. Len(out) + n = pulled BY <1>3, <2>1 DEF PPullBatch, NoLossInv, Held
  <2>3. Window(k)' BY <1>3, <2>1, <2>2 DEF PPullBatch, Window, Held, Slot
  <2> QED BY <1>3, <2>1, <2>2, <2>3 DEF PPullBatch, NoLossInv, Held
<1>4. CASE PPullEnd BY <1>0, <1>4 DEF PPullEnd
<1>5. CASE PReportEnd
  BY <1>0, <1>5 DEF PReportEnd, WakeConsumer
<1>6. CASE PPut
  <2>1. batch # 0 /\ batch = pulled /\ ~Closing /\ n < Depth /\ upEnd = "open"
    BY <1>6 DEF PPut, ControlInv, HandInv, ThreadInv, InFlightBounded, EndInv
  <2>2. k = Len(out) /\ k + n + 1 = pulled
    BY <1>6, <2>1 DEF PPut, NoLossInv, Held
  <2>3. freed = {} BY <2>1, <2>2 DEF Window, Held
  <2>4. CASE stop
    <3>1. freed' = {pulled} /\ batch' = 0 /\ UNCHANGED <<queue, out, pulled, upEnd, cpc>>
            /\ ppc' = "exit"
      BY <1>6, <2>1, <2>3, <2>4 DEF PPut, Discard
    <3>2. Window(k)' BY <2>2, <3>1 DEF Window, Held, Slot
    <3> QED BY <2>1, <2>2, <3>1, <3>2 DEF NoLossInv, Held
  <2>5. CASE ~stop
    <3>1. /\ ring' = [ring EXCEPT ![TailSlot] = k + n + 1]
          /\ n' = n + 1 /\ batch' = 0
          /\ UNCHANGED <<head, out, pulled, freed, upEnd>>
          /\ ~Closing' /\ cpc' # "freed"
      BY <1>6, <2>1, <2>2, <2>5 DEF PPut, WakeConsumer
    <3>2. \A i \in 0 .. n' - 1 : (ring[Slot(i)] = k + i + 1)'
      BY <2>1, <3>1, PushWindow
    <3>3. Window(k)' BY <2>2, <2>3, <3>1, <3>2 DEF Window, Held
    <3> QED BY <2>2, <3>1, <3>3 DEF NoLossInv, Held
  <2> QED BY <2>4, <2>5
<1>7. CASE CSpawn
  BY <1>0, <1>7 DEF CSpawn, ControlInv, ThreadInv
<1>8. CASE CCall BY <1>0, <1>8 DEF CCall
<1>9. CASE CWait BY <1>0, <1>9 DEF CWait
<1>10. CASE CTake
  <2>1. /\ ~Closing /\ ~Closing' /\ n > 0 /\ cpc' # "freed"
        /\ Pop /\ out' = Append(out, ring[head])
        /\ UNCHANGED <<batch, pulled, upEnd, freed>>
        /\ ppc' = "exit" <=> ppc = "exit"
    BY <1>10 DEF CTake, WakeProducer
  <2>2. k = Len(out) BY <2>1
  <2>3. /\ ring[head] = k + 1
        /\ \A i \in 0 .. n' - 1 : (ring[Slot(i)] = k + 1 + i + 1)'
    BY <2>1, PopWindow
  <2>4. Len(out') = k + 1 /\ \A i \in 1 .. Len(out') : out'[i] = i
    BY <2>1, <2>2, <2>3 DEF NoLossInv
  <2>5. n' = n - 1 BY <2>1 DEF Pop
  <2>6. Window(k + 1)' BY <2>1, <2>2, <2>3, <2>4, <2>5 DEF Window, Held
  <2>7. (ppc # "exit" \/ upEnd # "open" => Len(out) + n + Held = pulled)'
    BY <2>1, <2>2, <2>4, <2>5 DEF NoLossInv, Held
  <2> QED BY <2>1, <2>2, <2>4, <2>6, <2>7 DEF NoLossInv
<1>11. CASE CEnd BY <1>0, <1>11 DEF CEnd
<1>12. CASE CRelease
  BY <1>0, <1>12 DEF CRelease, WakeProducer
<1>13. CASE CJoin BY <1>0, <1>13 DEF CJoin
<1>14. CASE CDrain
  <2>1. /\ Closing /\ Closing' /\ n > 0 /\ cpc' # "freed" /\ Pop
        /\ freed' = freed \cup {ring[head]}
        /\ UNCHANGED <<batch, pulled, upEnd, out>>
    BY <1>14 DEF CDrain
  <2>2. /\ ring[head] = k + 1
        /\ \A i \in 0 .. n' - 1 : (ring[Slot(i)] = k + 1 + i + 1)'
    BY <2>1, PopWindow
  <2>3. n' = n - 1 BY <2>1 DEF Pop
  <2>4. freed' = (Len(out) + 1 .. k + 1) \cup (k + 1 + n' + 1 .. pulled - Held)
    <3>1. freed = (Len(out) + 1 .. k) \cup (k + n + 1 .. pulled - Held)
      BY DEF Window
    <3>2. Len(out) + 1 .. k + 1 = (Len(out) + 1 .. k) \cup {k + 1}
      <4>1. Len(out) \in Nat /\ Len(out) <= k BY DEF Window
      <4> QED BY <4>1, IntervalGrows
    <3> QED BY <2>1, <2>2, <2>3, <3>1, <3>2
  <2>5. Window(k + 1)' BY <2>1, <2>2, <2>3, <2>4 DEF Window, Held
  <2> QED BY <2>1, <2>5 DEF NoLossInv
<1>15. CASE CFree BY <1>0, <1>15 DEF CFree
<1>16. CASE RequestCancel BY <1>0, <1>16 DEF RequestCancel
<1>17. CASE SpuriousWakeup
  BY <1>0, <1>17 DEF SpuriousWakeup, WakeProducer, WakeConsumer
<1>18. CASE Terminated
  BY <1>0, <1>18 DEF Terminated, NoLossInv
<1>19. CASE UNCHANGED vars
  BY <1>0, <1>19 DEF NoLossInv
<1> QED
  BY <1>1, <1>2, <1>3, <1>4, <1>5, <1>6, <1>7, <1>8, <1>9, <1>10, <1>11, <1>12,
     <1>13, <1>14, <1>15, <1>16, <1>17, <1>18, <1>19
  DEF Next, Producer, Pull, Release

------------------------------------------------------------------------------
(* The end of the stream is reported truthfully                             *)

LEMMA EndStep ==
  TypeOK /\ ControlInv /\ NoLossInv /\ EndIsTrue /\ [Next]_vars => EndIsTrue'
<1> SUFFICES ASSUME TypeOK, ControlInv, NoLossInv, EndIsTrue, [Next]_vars
             PROVE  EndIsTrue'
  OBVIOUS
<1> USE DEF TypeOK, EndIsTrue, queue, flags, prod, cons, up, vars
<1>1. CASE CEnd
  <2>1. n = 0 /\ batch = 0 /\ ~Closing /\ upEnd # "open"
        /\ (err_set => upEnd = "error") /\ (~err_set => upEnd = "eof")
    BY <1>1 DEF CEnd, EndVisible, ControlInv, EndInv, HandInv, Closing
  <2>2. Len(out) = pulled BY <2>1 DEF NoLossInv, Held
  <2>3. UNCHANGED <<out, pulled, upEnd>> BY <1>1 DEF CEnd
  <2>4. CASE err_set BY <1>1, <2>1, <2>2, <2>3, <2>4 DEF CEnd, EndStatus
  <2>5. CASE ~err_set BY <1>1, <2>1, <2>2, <2>3, <2>5 DEF CEnd, EndStatus
  <2> QED BY <2>4, <2>5
<1>2. CASE CSpawn BY <1>2 DEF CSpawn
<1>3. CASE CCall BY <1>3 DEF CCall
<1>4. CASE CTake BY <1>4 DEF CTake
<1>5. ASSUME PPullBatch \/ PPullEnd, status \in {"eof", "error"}, started
      PROVE  FALSE
  BY <1>5 DEF PPullBatch, PPullEnd, ControlInv, EndInv
<1>6. CASE PPullBatch \/ PPullEnd
  <2>1. UNCHANGED <<status, started>> BY <1>6 DEF PPullBatch, PPullEnd
  <2>2. started BY <1>6 DEF PPullBatch, PPullEnd, ControlInv, ThreadInv
  <2> QED BY <1>5, <1>6, <2>1, <2>2
<1>7. CASE UNCHANGED <<status, started, out, pulled, upEnd>> BY <1>7
<1>8. PRoom \/ PCheckCancel \/ PReportEnd \/ PPut \/ CWait \/ CRelease \/ CJoin
        \/ CDrain \/ CFree \/ RequestCancel \/ SpuriousWakeup \/ Terminated
        \/ UNCHANGED vars
      => UNCHANGED <<status, started, out, pulled, upEnd>>
  BY DEF PRoom, PCheckCancel, PReportEnd, PPut, CWait, CRelease, CJoin, CDrain,
         CFree, RequestCancel, SpuriousWakeup, Terminated
<1> QED
  BY <1>1, <1>2, <1>3, <1>4, <1>6, <1>7, <1>8 DEF Next, Producer, Pull, Release

------------------------------------------------------------------------------
(* The theorems                                                             *)

LEMMA InitInv == Init => IInv
<1> SUFFICES ASSUME Init PROVE IInv
  OBVIOUS
<1> USE DEF Init
<1>1. TypeOK BY InitType
<1>2. ThreadInv /\ HandInv /\ EndInv /\ InFlightBounded /\ EndIsTrue
  BY DEF ThreadInv, HandInv, EndInv, InFlightBounded, EndIsTrue, Closing
<1>3. Window(0) BY DEF Window, Held
<1>4. NoLossInv BY <1>3 DEF NoLossInv, Held, Closing
<1> QED BY <1>1, <1>2, <1>4 DEF IInv

LEMMA StepInv == IInv /\ [Next]_vars => IInv'
BY TypeStep, ControlStep, NoLossStep, EndStep DEF IInv, ControlInv

LEMMA Invariance == Spec => []IInv
BY InitInv, StepInv, PTL DEF Spec

(* Every variable keeps its type; in particular the ring indices stay in    *)
(* the ring and n never exceeds the ring's size.                            *)
THEOREM TypeCorrect == Spec => []TypeOK
BY Invariance, PTL DEF IInv

(* The consumer receives the upstream's batches in order, none skipped, none *)
(* repeated, whatever the ring's depth and the scheduling.                  *)
THEOREM StreamIsFIFO == Spec => []FIFO
<1>1. IInv => FIFO
  BY DEF IInv, NoLossInv, FIFO, Window, Closing
<1> QED BY <1>1, Invariance, PTL

(* A batch in hand always has a slot: the ring never overflows.             *)
THEOREM RingNeverOverflows == Spec => []InFlightBounded
BY Invariance, PTL DEF IInv

(* End of stream is reported only when all batches of a stream that ended   *)
(* cleanly were delivered; an upstream error is reported as an error.       *)
THEOREM EndOfStreamIsTrue == Spec => []EndIsTrue
BY Invariance, PTL DEF IInv

(* The producer thread is gone before the ring and the upstream are freed.  *)
THEOREM ReleaseIsSafe == Spec => []NoUseAfterRelease
<1>1. IInv => NoUseAfterRelease
  BY DEF IInv, ThreadInv, Closing, NoUseAfterRelease
<1> QED BY <1>1, Invariance, PTL

(* Every batch has exactly one owner at any time, and none is left in the   *)
(* edge after async_release: no leak and no double release.                 *)
THEOREM BatchesHaveOneOwner == Spec => []Ownership
<1>1. IInv => Ownership
  <2> SUFFICES ASSUME IInv PROVE Ownership
    OBVIOUS
  <2> USE DEF IInv, TypeOK
  <2> PICK k \in Nat : Window(k) /\ (~Closing => k = Len(out))
    BY DEF NoLossInv
  <2>1. Delivered = 1 .. Len(out) BY DEF Delivered, NoLossInv
  <2>2. Queued = k + 1 .. k + n
    <3>1. Queued = {k + i + 1 : i \in 0 .. n - 1} BY DEF Window, Queued
    <3>2. ASSUME NEW b \in k + 1 .. k + n
          PROVE  \E i \in 0 .. n - 1 : b = k + i + 1
      <4>1. b - k - 1 \in 0 .. n - 1 /\ b = k + (b - k - 1) + 1 OBVIOUS
      <4> QED BY <4>1
    <3>3. ASSUME NEW i \in 0 .. n - 1 PROVE k + i + 1 \in k + 1 .. k + n
      OBVIOUS
    <3> QED BY <3>1, <3>2, <3>3
  <2>3. InHand = IF batch = 0 THEN {} ELSE {pulled}
    BY DEF InHand, HandInv
  <2>4. freed = (Len(out) + 1 .. k) \cup (k + n + 1 .. pulled - Held)
    BY DEF Window
  <2>5. Len(out) <= k /\ k + n + Held <= pulled BY DEF Window
  <2>6. InHand = pulled - Held + 1 .. pulled /\ Held \in {0, 1}
    <3>1. CASE batch = 0 BY <2>3, <3>1 DEF Held
    <3>2. CASE batch # 0 BY <2>3, <3>2 DEF Held
    <3> QED BY <3>1, <3>2
  <2>7. /\ Delivered \cup Queued \cup InHand \cup freed = 1 .. pulled
        /\ Delivered \cap (Queued \cup InHand \cup freed) = {}
        /\ Queued \cap (InHand \cup freed) = {} /\ InHand \cap freed = {}
    <3> HIDE DEF IInv, TypeOK
    <3>1. Len(out) \in Nat /\ n \in Nat /\ pulled \in Nat BY DEF IInv, TypeOK
    <3>2. Delivered \cap (Queued \cup InHand \cup freed) = {}
      BY <2>1, <2>2, <2>4, <2>5, <2>6, <3>1
    <3>3. Queued \cap (InHand \cup freed) = {} /\ InHand \cap freed = {}
      BY <2>2, <2>4, <2>5, <2>6, <3>1
    <3>4. Delivered \cup Queued \cup InHand \cup freed = 1 .. pulled
      BY <2>1, <2>2, <2>4, <2>5, <2>6, <3>1
    <3> QED BY <3>2, <3>3, <3>4
  <2>8. \A i, j \in 0 .. n - 1 : ring[Slot(i)] = ring[Slot(j)] => i = j
    BY DEF Window
  <2>9. cpc = "freed" => Queued \cup InHand = {}
    BY <2>2, <2>3 DEF NoLossInv, ThreadInv, HandInv, Closing
  <2> QED BY <2>7, <2>8, <2>9 DEF Ownership
<1> QED BY <1>1, Invariance, PTL

------------------------------------------------------------------------------
(* Refinement                                                               *)

(* Every step of the edge is a step of the ordered stream, or a stutter.    *)
LEMMA StepRefines == IInv /\ [Next]_vars => [Stream!ONext]_(Stream!ovars)
<1> SUFFICES ASSUME IInv, [Next]_vars PROVE [Stream!ONext]_(Stream!ovars)
  OBVIOUS
<1> USE DEF IInv, TypeOK, Stream!ovars, queue, flags, prod, cons, up, vars
<1>1. CASE PPullBatch
  <2>1. Len(out) + n = pulled /\ n < Depth /\ upEnd = "open"
    BY <1>1 DEF PPullBatch, NoLossInv, InFlightBounded, EndInv, ThreadInv,
                Closing, HandInv, Held
  <2>2. Stream!Produce BY <1>1, <2>1 DEF PPullBatch, Stream!Produce
  <2> QED BY <2>2 DEF Stream!ONext
<1>2. CASE PPullEnd
  <2>1. Stream!Finish BY <1>2 DEF PPullEnd, Stream!Finish, EndInv
  <2> QED BY <2>1 DEF Stream!ONext
<1>3. CASE CSpawn \/ CCall
  <2>1. CASE status' = "none"
    <3>1. Stream!Ask BY <1>3, <2>1 DEF CSpawn, CCall, Stream!Ask
    <3> QED BY <3>1 DEF Stream!ONext
  <2>2. CASE status' # "none"
    <3>1. Stream!Refuse BY <1>3, <2>2 DEF CSpawn, CCall, Stream!Refuse, ThreadInv
    <3> QED BY <3>1 DEF Stream!ONext
  <2> QED BY <2>1, <2>2
<1>4. CASE CTake
  <2>1. Len(out) < pulled
    BY <1>4 DEF CTake, NoLossInv, Window, Closing, Held
  <2>2. Len(out') = Len(out) + 1 BY <1>4 DEF CTake
  <2>3. Stream!Receive BY <1>4, <2>1, <2>2 DEF CTake, Stream!Receive
  <2> QED BY <2>3 DEF Stream!ONext
<1>5. CASE CEnd
  <2>1. n = 0 /\ batch = 0 /\ ~Closing /\ upEnd # "open"
        /\ (err_set => upEnd = "error") /\ (~err_set => upEnd = "eof")
    BY <1>5 DEF CEnd, EndVisible, EndInv, HandInv, Closing
  <2>2. Len(out) = pulled BY <2>1 DEF NoLossInv, Held
  <2>3. status' = upEnd BY <1>5, <2>1 DEF CEnd, EndStatus
  <2>4. Stream!ReceiveEnd BY <1>5, <2>1, <2>2, <2>3 DEF CEnd, Stream!ReceiveEnd
  <2> QED BY <2>4 DEF Stream!ONext
<1>6. CASE CRelease
  <2>1. Stream!Close BY <1>6 DEF CRelease, Stream!Close
  <2> QED BY <2>1 DEF Stream!ONext
<1>7. CASE PRoom \/ PCheckCancel \/ PReportEnd \/ PPut \/ CWait \/ RequestCancel
             \/ SpuriousWakeup
  BY <1>7 DEF PRoom, PCheckCancel, PReportEnd, PPut, CWait, RequestCancel,
              SpuriousWakeup, WakeConsumer, WakeProducer
<1>8. CASE CJoin \/ CDrain \/ CFree \/ Terminated \/ UNCHANGED vars
  BY <1>8 DEF CJoin, CDrain, CFree, Terminated
<1> QED
  BY <1>1, <1>2, <1>3, <1>4, <1>5, <1>6, <1>7, <1>8 DEF Next, Producer, Pull, Release

(* The background thread is transparent: an edge of any depth implements    *)
(* the ordered stream whose read-ahead is that depth.                       *)
THEOREM EdgeRefinesOrderedStream == Spec => ImplementsOrderedStream
<1>1. Init => Stream!OInit BY DEF Init, Stream!OInit
<1> QED
  BY <1>1, StepRefines, Invariance, PTL
  DEF Spec, ImplementsOrderedStream, Stream!OSpec

(* What the run checks of an edge at any moment, for every depth: order, the *)
(* bound of the ring, a truthful end, and no thread left behind.             *)
THEOREM EdgeIsSound == Spec => []StreamIsSound
<1>1. TypeOK /\ FIFO /\ InFlightBounded /\ EndIsTrue /\ NoUseAfterRelease
        => StreamIsSound
  BY DEF StreamIsSound
<1> QED
  BY <1>1, TypeCorrect, StreamIsFIFO, RingNeverOverflows, EndOfStreamIsTrue,
     ReleaseIsSafe, PTL
==============================================================================
