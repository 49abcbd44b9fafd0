--------------------------- MODULE MCDataflowStage ---------------------------
(* Stages for TLC: small graphs of the shapes the examples and tests use,   *)
(* and shapes the executor does not expect.  The sort the executor begins   *)
(* with is checked on every small graph, also one no stage has: a run       *)
(* either sorts a graph or carries out a stage in an order it may produce.  *)
EXTENDS DataflowStage, TopoSort, TLC

VARIABLE sorting   \* whether this run is one of topo_sort

Ref(i) == [up |-> i, port |-> 0]
RefPort(i, p) == [up |-> i, port |-> p]

\* source -> transform -> sink
Chain == [n |-> 3, kind |-> <<"source", "transform", "sink">>,
  from |-> << <<>>, <<Ref(1)>>, <<Ref(2)>> >>,
  nOut |-> <<1, 1, 0>>, accepts |-> <<"one", "one", "one">>]

\* source -> multicast with three taps -> two sinks; tap 1 has no consumer
Fan == [n |-> 4, kind |-> <<"source", "transform", "sink", "sink">>,
  from |-> << <<>>, <<Ref(1)>>, <<RefPort(2, 2)>>, <<RefPort(2, 0)>> >>,
  nOut |-> <<1, 3, 0, 0>>, accepts |-> <<"one", "one", "one", "one">>]

\* two sources -> join -> sink
Join == [n |-> 4, kind |-> <<"source", "source", "transform", "sink">>,
  from |-> << <<>>, <<>>, <<Ref(2), Ref(1)>>, <<Ref(3)>> >>,
  nOut |-> <<1, 1, 1, 0>>, accepts |-> <<"one", "one", "two", "one">>]

\* source -> split -> both ports into one union -> sink
Diamond == [n |-> 4, kind |-> <<"source", "transform", "transform", "sink">>,
  from |-> << <<>>, <<Ref(1)>>, <<RefPort(2, 1), RefPort(2, 0)>>, <<Ref(3)>> >>,
  nOut |-> <<1, 2, 1, 0>>, accepts |-> <<"one", "one", "many", "one">>]

\* a reference to a port that does not exist, and a third input of a join
Wrong ==
  { [Chain EXCEPT !.from = << <<>>, <<Ref(1)>>, <<RefPort(2, -1)>> >>],
    [n |-> 4, kind |-> <<"source", "transform", "transform", "sink">>,
     from |-> << <<>>, <<Ref(1)>>,
                 <<RefPort(2, 0), RefPort(2, 1), RefPort(2, 2)>>, <<Ref(3)>> >>,
     nOut |-> <<1, 3, 1, 0>>, accepts |-> <<"one", "one", "two", "one">>] }

WellFormed == {Chain, Fan, Join, Diamond} \cup Wrong

\* Every step is declared before the steps it reads from.
Reversed == { [n |-> 3, kind |-> <<"sink", "transform", "source">>,
  from |-> << <<Ref(2)>>, <<Ref(3)>>, <<>> >>,
  nOut |-> <<0, 1, 1>>, accepts |-> <<"one", "one", "one">>] }

Threaded(S) == {g @@ [parallel |-> TRUE] : g \in S}
Serial(S)   == {g @@ [parallel |-> FALSE] : g \in S}

Checked == Threaded(WellFormed) \cup Serial(WellFormed \cup Reversed)

SortOrStageInit ==
  \/ sorting = TRUE /\ stage \in Serial({Chain}) /\ Init /\ SortInit
  \/ sorting = FALSE /\ refs = [i \in Nodes |-> <<>>] /\ SortInit /\ Init

SortOrStageNext ==
  \/ sorting /\ SortNext /\ UNCHANGED <<vars, sorting>>
  \/ ~sorting /\ Next /\ UNCHANGED <<sortVars, sorting>>

SortOrStage == SortOrStageInit /\ [][SortOrStageNext]_<<vars, sortVars, sorting>>
==============================================================================
