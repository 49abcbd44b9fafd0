---------------------------- MODULE MCTransforms ----------------------------
(* Small configurations of every transform: good ones, ones init refuses   *)
(* and ones the schema refutes.                                            *)
EXTENDS Transforms

MCHash(key) == FoldLeft(LAMBDA h, c : h + (2 * c), 1, key)

LL == <<"l", "l">>
Bad == <<"l", "x">>

Cells == {<<0, 0>>, <<0, 1>>, <<1, NULL>>, <<NULL, 1>>}

Base(k) == [kind |-> k, fmts |-> LL, rows |-> Cells, max |-> 3]

Limits == {[Base("limit") EXCEPT !.fmts = f] @@ [n |-> n] : n \in {0, 1, 2}, f \in {LL, Bad}}

Unions == {Base("union") @@ [fmts2 |-> f] : f \in {LL, <<"l">>}}

Col(c) == [t |-> "col", col |-> c]
Inv(c) == [t |-> "inv", col |-> c]

Filters ==
    {Base("filter") @@ [where |-> w] :
        w \in {[form |-> "string", e |-> Col(1)],
               [form |-> "object", lang |-> TRUE, src |-> TRUE, e |-> Inv(2)],
               [form |-> "object", lang |-> FALSE, src |-> TRUE, e |-> Col(1)]}}

Entry(f, n, from, e, v) == [form |-> f, name |-> n, from |-> from, expr |-> e, value |-> v]

Maps ==
    {Base("map") @@ [mode |-> m, cols |-> c] :
        m \in {"add", "select", "both"},
        c \in {<<Entry("object", 1, NULL, Inv(1), 1), Entry("object", 2, NULL, NULL, 1)>>,
               <<Entry("string", 2, NULL, NULL, NULL), Entry("object", 1, 2, NULL, NULL)>>,
               <<Entry("object", 1, 3, NULL, NULL)>>, <<Entry("object", NULL, 1, NULL, NULL)>>}}

Audits == {Base("audit") @@ [cols |-> c] : c \in {<<5>>, <<NULL>>, <<>>}}

Unpivots ==
    {[Base("unpivot") EXCEPT !.fmts = f, !.rows = {<<a, b, c>> : a \in {0, 1}, b, c \in {NULL, 1}}]
        @@ [ids |-> <<1>>, vals |-> v] :
        f \in {<<"l", "u", "u">>, <<"x", "l", "l">>, <<"l", "l", "u">>}, v \in {<<2, 3>>, <<>>}}

Sorts ==
    {[Base("sort") EXCEPT !.rows = Cells \cup {<<1, 0>>}] @@ [by |-> b] :
        b \in {<<[col |-> 1, dir |-> "desc"]>>, <<[col |-> 3, dir |-> "asc"]>>,
               <<[col |-> 1, dir |-> "up"]>>,
               <<[col |-> 2, dir |-> "asc"], [col |-> 1, dir |-> "desc"]>>}}

Distincts ==
    {Base("distinct") @@ [given |-> g, keys |-> k] :
        g \in BOOLEAN, k \in {<<>>, <<2>>}}

Agg(a, o) == [agg |-> a, over |-> o]

Aggregates ==
    {[Base("aggregate") EXCEPT !.rows = {<<0, 1>>, <<1, NULL>>, <<0, -1>>}, !.max = 4]
        @@ [by |-> b, compute |-> c] :
        b \in {<<1>>, <<3>>},
        c \in {<<Agg("count", NULL), Agg("sum", 2)>>, <<Agg("min", 2), Agg("max", 2)>>,
               <<Agg("sum", NULL)>>}}
    \cup {Base("aggregate") @@ [by |-> <<1>>, compute |-> <<Agg("count", NULL)>>]}

Pivots ==
    {[Base("pivot") EXCEPT !.fmts = f, !.max = 4,
                           !.rows = {<<0, 0, 1>>, <<0, 1, 2>>, <<1, 0, NULL>>, <<1, 1, 1>>, <<NULL, NULL, 1>>}]
        @@ [ids |-> <<1>>, name |-> 2, value |-> 3, keys |-> k] :
        f \in {<<"l", "u", "l">>, <<"x", "u", "l">>, <<"l", "l", "l">>}, k \in {<<0, 1>>, <<>>}}

Joins ==
    {[Base("join") EXCEPT !.rows = {<<0, 1>>, <<1, 0>>, <<NULL, 1>>}, !.max = 2]
        @@ [fmts2 |-> f, jkind |-> j, on |-> o] :
        f \in {LL, <<"l", "u">>}, j \in {"inner", "left", "outer", "cross"},
        o \in {<<<<1, 2>>>>}}

MCOps == Limits \cup Unions \cup Filters \cup Maps \cup Audits \cup Unpivots \cup Sorts
         \cup Distincts \cup Aggregates \cup Pivots \cup Joins
=============================================================================
