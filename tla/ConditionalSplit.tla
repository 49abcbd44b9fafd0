--------------------------- MODULE ConditionalSplit ---------------------------
(***************************************************************************)
(* The conditional_split transform (src/runtime/transform_split.c): each   *)
(* row of each upstream batch is routed to the first case whose predicate  *)
(* is true, to the default, or dropped.  One upstream batch becomes at     *)
(* most one slice per port; slices wait in per-port queues until their     *)
(* port is pulled.  A pull on any port reads the upstream for all of them. *)
(*                                                                         *)
(* Rows are numbered in input order; a predicate's value on a row is "yes",*)
(* "no", "null" or "error": the engine refuses the row, and with it the    *)
(* batch.  The ports are pulled by one thread at a time, in any order (see *)
(* Multicast for what happens with two).                                   *)
(***************************************************************************)
EXTENDS Naturals, Sequences, FiniteSets, SequencesExt, Selection

CONSTANTS
  NCases,      \* cases with a predicate, 1 .. NCases
  HasDefault,  \* whether a default port NCases + 1 exists
  NRows,       \* bound: rows of the input
  BatchSize,   \* most rows in an upstream batch
  Values,      \* what a predicate can say of a row
  MayFail      \* whether the upstream and allocations may fail

ASSUME NCasesAssumption == NCases \in Nat \ {0}
ASSUME HasDefaultAssumption == HasDefault \in BOOLEAN
ASSUME NRowsAssumption == NRows \in Nat
ASSUME BatchSizeAssumption == BatchSize \in Nat \ {0}
ASSUME ValuesAssumption == Values \subseteq {"yes", "no", "null", "error"}
ASSUME MayFailAssumption == MayFail \in BOOLEAN

Cases == 1 .. NCases
Ports == 1 .. (IF HasDefault THEN NCases + 1 ELSE NCases)
Rows  == 1 .. NRows

VARIABLES
  pred,          \* pred[c][r]: what case c's predicate says of row r
  read,          \* rows pulled from the upstream
  slices,        \* slices[p]: slices waiting for port p, each a sequence of rows
  split_eof,     \* SplitState.upstream_eof
  pulling,       \* the port whose get_next is running, 0 if none
  out,           \* out[p]: slices port p has returned
  ports_ended,   \* ports that have returned end of stream
  failed         \* why a get_next returned EIO: "no", "predicate" or "other";
                 \* the stage then stops pulling

splitVars == <<pred, read, slices, split_eof, pulling, out, ports_ended, failed>>

SplitInit ==
  /\ pred \in [Cases -> [Rows -> Values]]
  /\ read = 0
  /\ slices = [p \in Ports |-> <<>>]
  /\ split_eof = FALSE
  /\ pulling = 0
  /\ out = [p \in Ports |-> <<>>]
  /\ ports_ended = {} /\ failed = "no"

------------------------------------------------------------------------------
(* Routing of one batch                                                     *)

Matches_NullIsTrue(c, r) == pred[c][r] # "no"
\* A null predicate does not match.
Matches(c, r) == pred[c][r] = "yes"

Unclaimed(rows, taken) == rows \ taken

\* The rows taken by the first i cases: each case claims among the untaken.
Taken(rows) ==
  LET taken[i \in 0 .. NCases] ==
        IF i = 0 THEN {}
        ELSE taken[i - 1] \cup
               {r \in Unclaimed(rows, taken[i - 1]) : Matches(i, r)}
  IN taken

\* keep[p]: the rows of the batch that go to port p.
Keep(rows) ==
  [p \in Ports |->
     IF p \in Cases
       THEN {r \in Unclaimed(rows, Taken(rows)[p - 1]) : Matches(p, r)}
       ELSE rows \ Taken(rows)[NCases]]

\* The next k rows of the upstream.
Batch(k) == [i \in 1 .. k |-> read + i]

\* A slice holds the kept rows in batch order; an empty slice is not queued.
PushSlices(rows, keep) ==
  [p \in Ports |-> IF keep[p] = {} THEN slices[p]
                   ELSE Append(slices[p], Kept(rows, keep[p]))]

------------------------------------------------------------------------------
(* port_get_next                                                            *)

Call(p) ==
  /\ pulling = 0 /\ failed = "no"
  /\ pulling' = p
  /\ UNCHANGED <<pred, read, slices, split_eof, out, ports_ended, failed>>

\* The port's own queue decides, and the upstream is read only when it is empty.
MustRead == pulling # 0 /\ slices[pulling] = <<>> /\ ~split_eof

\* Every predicate runs on every row of the batch, before any row is routed.
EvaluationFails(rows) == \E c \in Cases, r \in rows : pred[c][r] = "error"

\* route_one_batch: a batch of any size, also an empty one.
RouteBatch ==
  /\ MustRead
  /\ \E k \in 0 .. BatchSize :
       /\ read + k <= NRows /\ ~EvaluationFails(read + 1 .. read + k)
       /\ read' = read + k
       /\ slices' = PushSlices(Batch(k), Keep(read + 1 .. read + k))
  /\ UNCHANGED <<pred, split_eof, pulling, out, ports_ended, failed>>

UpstreamEof ==
  /\ MustRead /\ read = NRows
  /\ split_eof' = TRUE
  /\ UNCHANGED <<pred, read, slices, pulling, out, ports_ended, failed>>

UpstreamFails ==
  /\ MustRead /\ MayFail
  /\ failed' = "other" /\ pulling' = 0
  /\ UNCHANGED <<pred, read, slices, split_eof, out, ports_ended>>

PredicateFails ==
  /\ MustRead
  /\ \E k \in 1 .. BatchSize :
       /\ read + k <= NRows /\ EvaluationFails(read + 1 .. read + k)
       /\ read' = read + k
  /\ failed' = "predicate" /\ pulling' = 0
  /\ UNCHANGED <<pred, slices, split_eof, out, ports_ended>>

\* The slice of port i + 1 cannot be built: the first i ports keep theirs.
SliceFails ==
  /\ MustRead /\ MayFail
  /\ \E k \in 1 .. BatchSize, i \in 0 .. Cardinality(Ports) - 1 :
       /\ read + k <= NRows /\ ~EvaluationFails(read + 1 .. read + k)
       /\ read' = read + k
       /\ slices' = [p \in Ports |->
            IF p <= i THEN PushSlices(Batch(k), Keep(read + 1 .. read + k))[p] ELSE slices[p]]
  /\ failed' = "other" /\ pulling' = 0
  /\ UNCHANGED <<pred, split_eof, out, ports_ended>>

Emit ==
  /\ pulling # 0 /\ slices[pulling] # <<>>
  /\ out' = [out EXCEPT ![pulling] = Append(@, Head(slices[pulling]))]
  /\ slices' = [slices EXCEPT ![pulling] = Tail(@)]
  /\ pulling' = 0
  /\ UNCHANGED <<pred, read, split_eof, ports_ended, failed>>

PortDone_EofFirst == split_eof
PortDone == slices[pulling] = <<>> /\ split_eof

EndPort ==
  /\ pulling # 0 /\ PortDone
  /\ ports_ended' = ports_ended \cup {pulling}
  /\ pulling' = 0
  /\ UNCHANGED <<pred, read, slices, split_eof, out, failed>>

\* All ports have ended, or the stage has given up.
SplitOver == pulling = 0 /\ (failed # "no" \/ ports_ended = Ports) /\ UNCHANGED splitVars

SplitNext ==
  \/ \E p \in Ports : Call(p)
  \/ RouteBatch \/ UpstreamEof \/ UpstreamFails \/ PredicateFails
  \/ SliceFails \/ Emit \/ EndPort
  \/ SplitOver

SplitSpec == SplitInit /\ [][SplitNext]_splitVars

------------------------------------------------------------------------------
(* Properties                                                               *)

SplitTypeOK ==
  /\ pred \in [Cases -> [Rows -> Values]]
  /\ read \in 0 .. NRows
  /\ slices \in [Ports -> Seq(Seq(Rows) \ {<<>>})]
  /\ out \in [Ports -> Seq(Seq(Rows) \ {<<>>})]
  /\ split_eof \in BOOLEAN /\ failed \in {"no", "predicate", "other"}
  /\ pulling \in Ports \cup {0} /\ ports_ended \in SUBSET Ports

\* Where a row belongs, said without the masks: its first true case, else the
\* default, else nowhere (0).
Home(r) ==
  IF \E c \in Cases : pred[c][r] = "yes"
    THEN CHOOSE c \in Cases : /\ pred[c][r] = "yes"
                              /\ \A d \in 1 .. c - 1 : pred[d][r] # "yes"
    ELSE IF HasDefault THEN NCases + 1 ELSE 0

\* The first n rows of the input, and the ones among all that belong to port p.
UpTo(n) == [i \in 1 .. n |-> i]
Belonging(p) == {r \in Rows : Home(r) = p}

\* The rows of port p so far, in the order it returns them.
PortRows(p) == FlattenSeq(out[p] \o slices[p])

(* Every row read goes to its first matching case, exactly once, in input   *)
(* order within the port; unmatched rows go to the default or are dropped   *)
(* ("Earlier cases win", transform_split.c:19).                             *)
RoutedToFirstMatch ==
  failed = "no" => \A p \in Ports :
    PortRows(p) = Kept(UpTo(read), Belonging(p))

(* A batch that fails half way through its slices leaves no gap: what a     *)
(* port has returned or queued is still a prefix of its rows.               *)
PortsArePrefixes ==
  \A p \in Ports : IsPrefix(PortRows(p), Kept(UpTo(NRows), Belonging(p)))

(* A port reports end of stream only after it has returned all its rows,    *)
(* also the ones that other ports' pulls queued for it.                     *)
EndOfPortIsComplete ==
  \A p \in ports_ended :
    FlattenSeq(out[p]) = Kept(UpTo(NRows), Belonging(p))

(* The ports are complete prefixes of what belongs to them, whatever failed  *)
(* and in whatever order they are pulled.                                    *)
PortsAreSound ==
  /\ SplitTypeOK
  /\ PortsArePrefixes
  /\ EndOfPortIsComplete
==============================================================================
