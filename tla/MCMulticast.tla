----------------------------- MODULE MCMulticast -----------------------------
(* Instances of Multicast for TLC: taps 1 and 2 feed sinks, tap 3 is        *)
(* declared but consumed by no step.                                        *)
EXTENDS Multicast

Unlimited == MaxBatches + 1

\* Sinks driven out of declaration order.
SinksTwoOfThree == <<2, 1>>

\* Only the consumer of the last sink driven stops early.
LimitLast == [t \in Taps |-> IF t = 1 THEN 1 ELSE Unlimited]
==============================================================================
