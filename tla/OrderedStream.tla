---------------------------- MODULE OrderedStream ----------------------------
(***************************************************************************)
(* What an Arrow stream promises its consumer, with or without a           *)
(* background thread in front of it: the upstream's batches in order, each *)
(* once, then the upstream's own end (end of stream or an error), with at  *)
(* most Lookahead batches obtained from the upstream and not yet handed    *)
(* over.  Batches are numbered in the order the upstream produces them, so *)
(* two counters stand for the two streams.  AsyncStream implements it.     *)
(***************************************************************************)
EXTENDS Naturals

CONSTANT Lookahead  \* batches that may be read ahead of the consumer

VARIABLES
  sent,    \* batches the upstream has produced
  got,     \* batches the consumer has received
  end,     \* how the upstream ended: "open" while it has not
  seen,    \* what the consumer's last pull returned
  closed   \* the consumer has released the stream

ovars == <<sent, got, end, seen, closed>>

OInit ==
  /\ sent = 0 /\ got = 0
  /\ end = "open"
  /\ seen = "none"
  /\ closed = FALSE

\* The upstream produces its next batch, if there is room to keep it.
Produce ==
  /\ end = "open"
  /\ sent - got < Lookahead
  /\ sent' = sent + 1
  /\ UNCHANGED <<got, end, seen, closed>>

\* The upstream reports end of stream or an error; it is not asked again.
Finish ==
  /\ end = "open"
  /\ end' \in {"eof", "error"}
  /\ UNCHANGED <<sent, got, seen, closed>>

\* A pull is under way.
Ask ==
  /\ ~closed
  /\ seen' = "none"
  /\ UNCHANGED <<sent, got, end, closed>>

\* A pull returns the oldest batch not yet received.
Receive ==
  /\ ~closed
  /\ got < sent
  /\ got' = got + 1
  /\ seen' = "batch"
  /\ UNCHANGED <<sent, end, closed>>

\* A pull reports the upstream's end, and only after its last batch.
ReceiveEnd ==
  /\ ~closed
  /\ got = sent
  /\ end # "open"
  /\ seen' = end
  /\ UNCHANGED <<sent, got, end, closed>>

\* A stream that cannot start fails the pull before the upstream is asked.
Refuse ==
  /\ ~closed
  /\ sent = 0 /\ end = "open"
  /\ seen' = "error"
  /\ UNCHANGED <<sent, got, end, closed>>

Close ==
  /\ closed' = TRUE
  /\ UNCHANGED <<sent, got, end, seen>>

ONext == Produce \/ Finish \/ Ask \/ Receive \/ ReceiveEnd \/ Refuse \/ Close

OSpec == OInit /\ [][ONext]_ovars
==============================================================================
