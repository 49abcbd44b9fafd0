----------------------------- MODULE MCRunStages -----------------------------
(* Pipelines for TLC.                                                       *)
EXTENDS RunStages

Work(after, gate, proceed) ==
  [kind |-> "work", after |-> after, gate |-> gate, proceed |-> proceed,
   var |-> "x", texts |-> <<>>, body |-> 0]
Set(after, gate, x, t) ==
  [kind |-> "set", after |-> after, gate |-> gate, proceed |-> FALSE,
   var |-> x, texts |-> <<t>>, body |-> 0]
Loop(after, proceed, x, texts, body) ==
  [kind |-> "foreach", after |-> after, gate |-> "true", proceed |-> proceed,
   var |-> x, texts |-> texts, body |-> body]

\* A loop whose body is gated by its variable, then two tasks after it.
Simple == <<
  << Work({2}, "true", FALSE), Loop({}, FALSE, "x", <<"true", "false">>, 2) >>,
  << Work({}, "x", TRUE), Work({1}, "true", FALSE) >> >>

\* Nested loops over one name; the inner loop may fail without stopping the outer.
Nested == <<
  << Loop({}, FALSE, "x", <<"true", "a">>, 2), Work({1}, "true", TRUE) >>,
  << Loop({}, TRUE, "x", <<"false", "true">>, 3), Work({1}, "x", FALSE) >>,
  << Work({}, "x", FALSE) >> >>

\* A variable set by one stage is a condition and a list entry of others, which
\* may run before it is set.
Flags == <<
  << Set({}, "true", "y", "true"), Work({1}, "y", FALSE),
     Loop({}, TRUE, "x", <<"y", "a">>, 2), Work({3}, "x", FALSE) >>,
  << Work({}, "x", FALSE), Set({1}, "true", "y", "x") >> >>

AllPipelines == {Simple, Nested, Flags}
==============================================================================
