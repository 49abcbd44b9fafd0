------------------------------- MODULE TopoSort -------------------------------
(***************************************************************************)
(* topo_sort of src/runtime/exec.c: the Kahn-style pass that orders the    *)
(* steps of a dataflow stage (`from:` edges) and the stages of one scope   *)
(* (`after:` edges).                                                       *)
(*                                                                         *)
(* A node's references are a list, as written in the pipeline file.  The   *)
(* two edge resolvers differ: step_incoming lists each upstream once,      *)
(* stage_incoming as often as it is written.  Both stop at Cap entries.    *)
(* order[0 .. produced) is always queue[0 .. qhead), so one sequence       *)
(* stands for both arrays.                                                 *)
(***************************************************************************)
EXTENDS Integers, Sequences, FiniteSets

CONSTANTS
  N,        \* nodes are 1 .. N
  Cap,      \* entries a resolver's neighbour array holds (64)
  Dedup,    \* TRUE: step_incoming, FALSE: stage_incoming
  MaxRefs   \* bound: references of one node

Nodes == 1 .. N

ASSUME NAssumption == N \in Nat
ASSUME CapAssumption == Cap \in Nat
ASSUME DedupAssumption == Dedup \in BOOLEAN
ASSUME MaxRefsAssumption == MaxRefs \in Nat

VARIABLES
  refs,    \* refs[i]: the nodes that node i refers to, in the file's order
  indeg,   \* incoming edges not yet removed
  queue,   \* the queue array up to qtail
  qhead,   \* nodes taken from it: queue[1 .. qhead] is the order so far
  next,    \* the node the current loop looks at
  phase    \* "seed" the queue, "take" a node, "scan" for its successors

sortVars == <<refs, indeg, queue, qhead, next, phase>>

------------------------------------------------------------------------------
(* Edge resolvers: the positions of a reference list they report            *)

FirstOccurrences(s) == {k \in DOMAIN s : \A j \in 1 .. k - 1 : s[j] # s[k]}

Listed_Duplicates(s) == DOMAIN s
Listed(s) == IF Dedup THEN FirstOccurrences(s) ELSE DOMAIN s

Incoming(i) ==
  {k \in Listed(refs[i]) :
     Cardinality({j \in Listed(refs[i]) : j < k}) < Cap}

Upstream(i) == {refs[i][k] : k \in Incoming(i)}

------------------------------------------------------------------------------
(* topo_sort                                                                *)

InDegree_OneShort(i) == Cardinality(Incoming(i)) - 1
InDegree(i) == Cardinality(Incoming(i))

Ready(d) == d = 0

RefLists == UNION {[1 .. m -> Nodes] : m \in 0 .. MaxRefs}

SortInit ==
  /\ refs \in [Nodes -> RefLists]
  /\ indeg = [i \in Nodes |-> InDegree(i)]
  /\ queue = <<>> /\ qhead = 0
  /\ next = 1 /\ phase = "seed"

\* Queue the nodes without incoming edges.
Seed ==
  /\ phase = "seed" /\ next <= N
  /\ queue' = IF Ready(indeg[next]) THEN Append(queue, next) ELSE queue
  /\ next' = next + 1
  /\ UNCHANGED <<refs, indeg, qhead, phase>>

Seeded ==
  /\ phase = "seed" /\ next = N + 1
  /\ phase' = "take"
  /\ UNCHANGED <<refs, indeg, queue, qhead, next>>

Take ==
  /\ phase = "take" /\ qhead < Len(queue)
  /\ qhead' = qhead + 1
  /\ next' = 1 /\ phase' = "scan"
  /\ UNCHANGED <<refs, indeg, queue>>

\* The node being produced.
Taken == queue[qhead]

\* One decrement per node that refers to Taken, however often it does.
Scan ==
  /\ phase = "scan" /\ next <= N
  /\ IF Taken \in Upstream(next)
       THEN /\ indeg' = [indeg EXCEPT ![next] = @ - 1]
            /\ queue' = IF Ready(indeg[next] - 1) THEN Append(queue, next)
                                                  ELSE queue
       ELSE UNCHANGED <<indeg, queue>>
  /\ next' = next + 1
  /\ UNCHANGED <<refs, qhead, phase>>

Scanned ==
  /\ phase = "scan" /\ next = N + 1
  /\ phase' = "take"
  /\ UNCHANGED <<refs, indeg, queue, qhead, next>>

\* The queue is empty: the caller sees success iff all N nodes were produced.
Finished == phase = "take" /\ qhead = Len(queue)
Sorted == Finished /\ qhead = N

Done == Finished /\ UNCHANGED sortVars

SortNext == Seed \/ Seeded \/ Take \/ Scan \/ Scanned \/ Done

SortSpec == SortInit /\ [][SortNext]_sortVars

------------------------------------------------------------------------------
(* Properties                                                               *)

SortTypeOK ==
  /\ refs \in [Nodes -> RefLists]
  /\ indeg \in [Nodes -> 0 .. MaxRefs]
  /\ queue \in Seq(Nodes)
  /\ qhead \in 0 .. Len(queue)
  /\ next \in 1 .. N + 1
  /\ phase \in {"seed", "take", "scan"}
  /\ phase = "scan" => qhead >= 1

(* The queue and order arrays have room for n entries (malloc(n), exec.c:52):*)
(* no node is queued twice, so neither is ever written past its end.        *)
QueueFits ==
  /\ Len(queue) <= N
  /\ \A j, k \in 1 .. Len(queue) : queue[j] = queue[k] => j = k

\* The indices and counters stay in the arrays topo_sort allocates.
ArraysFit == SortTypeOK /\ QueueFits

References(i) == {refs[i][k] : k \in DOMAIN refs[i]}

(* A node is produced only after everything it refers to, as long as its    *)
(* list fits the resolver's array.                                          *)
OrderRespectsRefs ==
  \A k \in 1 .. Len(queue) :
    Len(refs[queue[k]]) <= Cap =>
      \A up \in References(queue[k]) : \E j \in 1 .. k - 1 : queue[j] = up

(* What the callers of topo_sort rely on at any moment, cyclic graphs       *)
(* included: the arrays of n entries are not overrun, and nothing is        *)
(* produced before what it refers to.                                       *)
SortIsSound == ArraysFit /\ OrderRespectsRefs

\* No set of nodes in which every node refers to one of the set.
Acyclic ==
  \A S \in (SUBSET Nodes) \ {{}} : \E i \in S : References(i) \cap S = {}

(* "-1 if a cycle is detected (shouldn't happen - parser already rejects    *)
(* cycles ...)" (exec.c:33): a graph without cycles is sorted completely.   *)
EveryDAGIsSorted == Finished /\ Acyclic => Sorted
==============================================================================
