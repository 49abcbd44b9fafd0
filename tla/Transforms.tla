----------------------------- MODULE Transforms -----------------------------
(***************************************************************************)
(* One transform of a dataflow step, from init to destroy: it is           *)
(* configured, its inputs are attached, its consumer pulls its output      *)
(* batch by batch, and it pulls its inputs, which deliver batches, end or  *)
(* fail.  `op' is the configuration and decides which transform it is; the *)
(* functions on rows are those of StreamTransforms and                     *)
(* BlockingTransforms.  Consumer: the executor's drain loop and every      *)
(* transform stop at the first end or error and then destroy.              *)
(***************************************************************************)
EXTENDS BlockingTransforms, FiniteSets

CONSTANTS Ops,        \* the configurations
          MaxBatch,   \* rows in a batch
          MaxBatches  \* batches an input delivers before it ends

Kinds == {"limit", "union", "filter", "map", "audit", "unpivot", "sort", "distinct",
          "aggregate", "pivot", "join"}

\* A list of anything.
IsList(s) == s \in Seq(ToSet(s))

\* The null cell is no Boolean.
ASSUME NullAssumption == NULL \notin {0, 1}

ASSUME BoundsAssumption == MaxBatch \in Nat /\ MaxBatches \in Nat

\* A configuration is one of the kinds; the rows of its input are as wide
\* as its schema, and no cell of them is an engine's failure.
ASSUME OpsAssumption ==
    \A o \in Ops :
        /\ o.kind \in Kinds /\ IsList(o.fmts)
        /\ \A r \in o.rows : IsList(r) /\ Len(r) = Len(o.fmts) /\ ERR \notin ToSet(r)
        /\ o.kind = "limit" => o.n \in Nat
        /\ o.kind \in {"map", "audit"} => IsList(o.cols)
        /\ o.kind = "audit" => ERR \notin ToSet(o.cols)

\* A predicate is compiled to a Boolean (transform_filter.c:238 asks the
\* engine for one), so it is true, false, null or it fails.
ASSUME PredicateAssumption ==
    \A o \in Ops : o.kind = "filter" =>
        \A r \in o.rows : Eval(o.where.e, r) \in {0, 1, NULL, ERR}

VARIABLES op,      \* the configuration
          phase,   \* where the component and the consumer's call are
          st,      \* what the transform keeps between batches
          in,      \* per input: the rows delivered, how it ended
          outp,    \* the rows given to the consumer
          cancel   \* a cancellation was asked for

transformVars == <<op, phase, st, in, outp, cancel>>

RowWise == {"filter", "map", "audit", "unpivot"}

InitOk ==
    CASE op.kind = "limit" -> LimitInit(op)
      [] op.kind = "union" -> TRUE
      [] op.kind = "filter" -> ParseWhere(op.where)
      [] op.kind = "map" -> MapInit(op)
      [] op.kind = "audit" -> AuditInit(op)
      [] op.kind = "unpivot" -> UnpivotInit(op)
      [] op.kind = "sort" -> SortInit(op)
      [] op.kind = "distinct" -> DistinctInit(op)
      [] op.kind = "aggregate" -> AggregateInit(op)
      [] op.kind = "pivot" -> PivotInit(op)
      [] op.kind = "join" -> JoinInit(op)

Inputs == IF op.kind \in {"union", "join"} THEN 1 .. 2 ELSE {1}

Resolves ==
    CASE op.kind = "limit" -> LimitResolve(op)
      [] op.kind = "union" -> VerifySchemas(UnionAttach(UnionAttach(<<>>, op.fmts), op.fmts2))
      [] op.kind = "filter" -> FilterResolve(op)
      [] op.kind = "map" -> MapEnsureReady(op)
      [] op.kind = "audit" -> TRUE
      [] op.kind = "unpivot" -> UnpivotResolve(op)
      [] op.kind = "sort" -> SortResolve(op)
      [] op.kind = "distinct" -> DistinctResolve(op)
      [] op.kind = "aggregate" -> AggregateResolve(op)
      [] op.kind = "pivot" -> PivotResolve(op)
      [] op.kind = "join" -> JoinResolve(op)

\* The state after init and attach.
Start ==
    CASE op.kind = "limit" -> [emitted |-> 0]
      [] op.kind = "union" -> [cur |-> 1]
      [] op.kind \in RowWise -> [eof |-> FALSE]
      [] op.kind = "sort" -> [tab |-> <<>>, materialized |-> FALSE, emitted |-> FALSE]
      [] op.kind = "distinct" -> [seen |-> <<>>]
      [] op.kind = "aggregate" -> [groups |-> <<>>, materialized |-> FALSE, emitted |-> FALSE]
      [] op.kind = "pivot" -> [p |-> PivotFresh, eof |-> FALSE]
      [] op.kind = "join" -> [tabs |-> <<<<>>, <<>>>>, side |-> 1, li |-> 1,
                              pairs |-> <<>>, emitted |-> FALSE]

TransformInit ==
    /\ op \in Ops
    /\ phase = "new"
    /\ st = [eof |-> FALSE]
    /\ in = [i \in 1 .. 2 |-> [rows |-> <<>>, n |-> 0, end |-> "open", late |-> FALSE]]
    /\ outp = <<>>
    /\ cancel = FALSE

-----------------------------------------------------------------------------
(* The upstream and the answers of get_next.                               *)

Batches == UNION {[1 .. n -> op.rows] : n \in 0 .. MaxBatch}

\* What get_next of input i answers; an ended input repeats its end.
Responses(i) ==
    IF in[i].end # "open" THEN {[t |-> in[i].end, rows |-> <<>>]}
    ELSE {[t |-> e, rows |-> <<>>] : e \in {"eof", "err"}}
         \cup (IF in[i].n = MaxBatches THEN {}
               ELSE {[t |-> "batch", rows |-> b] :
                        b \in {x \in Batches : Len(x) + Len(in[i].rows) <= op.max}})

Delivered(i, r) ==
    [in EXCEPT ![i] =
        [rows |-> @.rows \o r.rows,
         n    |-> IF r.t = "batch" THEN @.n + 1 ELSE @.n,
         end  |-> IF r.t = "batch" THEN @.end ELSE r.t,
         late |-> @.late \/ @.end # "open"]]

Answer(p) == phase' = p /\ UNCHANGED <<op, outp, cancel>>

FailCall == Answer("eio") /\ UNCHANGED st

EndOfStream == Answer("eof") /\ UNCHANGED st

Continue == Answer("call")

Emit(rows) == outp' = outp \o rows /\ phase' = "ready" /\ UNCHANGED <<op, cancel>>

\* One pull: an upstream error fails the call, the rest is the transform's.
Pull(i, OnBatch(_), OnEof) ==
    \E r \in Responses(i) :
        /\ in' = Delivered(i, r)
        /\ \/ r.t = "err" /\ FailCall
           \/ r.t = "eof" /\ OnEof
           \/ r.t = "batch" /\ OnBatch(r.rows)

-----------------------------------------------------------------------------
(* init, attach, the consumer's call, cancel, destroy                      *)

InitComponent ==
    /\ phase = "new"
    /\ phase' = IF InitOk THEN "ready" ELSE "refused"
    /\ st' = IF InitOk THEN Start ELSE st
    /\ UNCHANGED <<op, in, outp, cancel>>

\* get_next resolves the schema first; a failure is an error of the call.
Call ==
    /\ phase = "ready"
    /\ phase' = IF Resolves THEN "call" ELSE "eio"
    /\ UNCHANGED <<op, st, in, outp, cancel>>

Cancel ==
    /\ ~cancel /\ phase \in {"ready", "call"}
    /\ cancel' = TRUE
    /\ UNCHANGED <<op, phase, st, in, outp>>

Destroy ==
    /\ phase \in {"ready", "eof", "eio"}
    /\ phase' = "dead"
    /\ UNCHANGED <<op, st, in, outp, cancel>>

-----------------------------------------------------------------------------
(* get_next of each transform                                              *)

\* Mutant: at the limit the loop goes round again.
LimitNext_Spins ==
    /\ phase = "call" /\ op.kind = "limit"
    /\ IF op.n - st.emitted <= 0 THEN Continue /\ UNCHANGED <<st, in>>
       ELSE Pull(1, LAMBDA b : /\ Emit(LimitTake(op, st.emitted, b))
                               /\ st' = [emitted |-> st.emitted + Len(LimitTake(op, st.emitted, b))],
                 EndOfStream)

LimitNext ==
    /\ phase = "call" /\ op.kind = "limit"
    /\ IF op.n - st.emitted <= 0 THEN EndOfStream /\ UNCHANGED in
       ELSE Pull(1, LAMBDA b : /\ Emit(LimitTake(op, st.emitted, b))
                               /\ st' = [emitted |-> st.emitted + Len(LimitTake(op, st.emitted, b))],
                 EndOfStream)

\* Mutant: the end of an input does not move on to the next.
UnionNext_Stays ==
    /\ phase = "call" /\ op.kind = "union"
    /\ IF st.cur > 2 THEN EndOfStream /\ UNCHANGED in
       ELSE Pull(st.cur, LAMBDA b : Emit(b) /\ UNCHANGED st,
                 Continue /\ UNCHANGED st)

UnionNext ==
    /\ phase = "call" /\ op.kind = "union"
    /\ IF st.cur > 2 THEN EndOfStream /\ UNCHANGED in
       ELSE Pull(st.cur, LAMBDA b : Emit(b) /\ UNCHANGED st,
                 Continue /\ st' = [cur |-> st.cur + 1])

FilterNext ==
    /\ phase = "call" /\ op.kind = "filter"
    /\ Pull(1, LAMBDA b : IF EvalFails(op.where.e, b) THEN FailCall
                          ELSE Emit(FilterBatch(op, b)) /\ UNCHANGED st,
            EndOfStream)

MapNext ==
    /\ phase = "call" /\ op.kind = "map"
    /\ Pull(1, LAMBDA b : IF MapFails(op, b) THEN FailCall
                          ELSE /\ Emit([i \in DOMAIN b |-> MapRow(op, b[i])])
                               /\ UNCHANGED st,
            EndOfStream)

AuditNext ==
    /\ phase = "call" /\ op.kind = "audit"
    /\ Pull(1, LAMBDA b : /\ Emit([i \in DOMAIN b |-> AuditRow(op, b[i])])
                          /\ UNCHANGED st,
            EndOfStream)

UnpivotNext ==
    /\ phase = "call" /\ op.kind = "unpivot"
    /\ IF st.eof THEN EndOfStream /\ UNCHANGED in
       ELSE Pull(1, LAMBDA b : IF UnpivotFails(op) THEN FailCall
                               ELSE Emit(UnpivotBatch(op, b)) /\ UNCHANGED st,
                 Answer("eof") /\ st' = [eof |-> TRUE])

\* Batches without a new row are not passed on: the next one is pulled.
DistinctNext ==
    /\ phase = "call" /\ op.kind = "distinct"
    /\ Pull(1, LAMBDA b : LET d == DistinctBatch(op, st.seen, b)
                          IN  /\ st' = [seen |-> d.seen]
                              /\ IF d.kept = <<>> THEN Continue ELSE Emit(d.kept),
            EndOfStream)

\* Everything is read first; the cancel flag is looked at before each pull.
SortPull ==
    /\ phase = "call" /\ op.kind = "sort" /\ ~st.materialized
    /\ IF cancel THEN FailCall /\ UNCHANGED in
       ELSE Pull(1, LAMBDA b : /\ Continue
                               /\ st' = [st EXCEPT !.tab = SortMaterialize(@, b)],
                 Continue /\ st' = [st EXCEPT !.materialized = TRUE])

\* One batch, an empty one included, and then the end.
SortEmit ==
    /\ phase = "call" /\ op.kind = "sort" /\ st.materialized
    /\ IF st.emitted THEN EndOfStream
       ELSE Emit(SortBuild(op, st.tab)) /\ st' = [st EXCEPT !.emitted = TRUE]
    /\ UNCHANGED in

AggregatePull ==
    /\ phase = "call" /\ op.kind = "aggregate" /\ ~st.materialized
    /\ IF cancel THEN FailCall /\ UNCHANGED in
       ELSE Pull(1, LAMBDA b : IF AggregateFails(op, b) THEN FailCall
                               ELSE /\ Continue
                                    /\ st' = [st EXCEPT !.groups = AggregateBatch(op, @, b)],
                 Continue /\ st' = [st EXCEPT !.materialized = TRUE])

AggregateEmit ==
    /\ phase = "call" /\ op.kind = "aggregate" /\ st.materialized
    /\ IF st.emitted THEN EndOfStream
       ELSE Emit(AggregateBuild(op, st.groups)) /\ st' = [st EXCEPT !.emitted = TRUE]
    /\ UNCHANGED in

\* Batches are read until a group is complete; the end closes the open one.
PivotNext ==
    /\ phase = "call" /\ op.kind = "pivot"
    /\ IF st.eof THEN EndOfStream /\ UNCHANGED in
       ELSE Pull(1, LAMBDA b : LET p == PivotBatch(op, st.p, b)
                               IN  IF p.n = 0 THEN Continue /\ st' = [st EXCEPT !.p = p]
                                   ELSE IF PivotFails(op) THEN FailCall
                                   ELSE /\ Emit(PivotEmit(op, p))
                                        /\ st' = [st EXCEPT !.p = PivotReset(p)],
                 LET p == FlushGroup(op, st.p)
                 IN  IF p.n > 0 /\ PivotFails(op) THEN FailCall
                     ELSE /\ st' = [p |-> PivotReset(p), eof |-> TRUE]
                          /\ IF p.n = 0 THEN Answer("eof") ELSE Emit(PivotEmit(op, p)))

\* The left input is read to its end, then the right one.
JoinPull ==
    /\ phase = "call" /\ op.kind = "join" /\ st.side <= 2
    /\ Pull(st.side, LAMBDA b : /\ Continue
                                /\ st' = [st EXCEPT !.tabs[st.side] = JtabPull(@, b)],
            Continue /\ st' = [st EXCEPT !.side = @ + 1])

\* One left row is matched; the cancel flag is looked at before each row.
JoinProbe ==
    /\ phase = "call" /\ op.kind = "join" /\ st.side > 2 /\ ~st.emitted
    /\ st.li <= Len(st.tabs[1])
    /\ IF cancel THEN FailCall
       ELSE /\ Continue
            /\ st' = [st EXCEPT !.li = @ + 1,
                                !.pairs = @ \o ProbeRow(op, st.tabs[1], st.tabs[2], st.li)]
    /\ UNCHANGED in

JoinEmit ==
    /\ phase = "call" /\ op.kind = "join" /\ st.side > 2
    /\ st.li > Len(st.tabs[1])
    /\ IF st.emitted THEN EndOfStream
       ELSE /\ Emit(JoinBuild(op, st.tabs[1], st.tabs[2],
                              st.pairs \o UnmatchedRight(op, st.tabs[2], st.pairs)))
            /\ st' = [st EXCEPT !.emitted = TRUE]
    /\ UNCHANGED in

GetNext ==
    \/ LimitNext \/ UnionNext \/ FilterNext \/ MapNext \/ AuditNext \/ UnpivotNext
    \/ DistinctNext \/ SortPull \/ SortEmit \/ AggregatePull \/ AggregateEmit
    \/ PivotNext \/ JoinPull \/ JoinProbe \/ JoinEmit

TransformNext == InitComponent \/ Call \/ Cancel \/ GetNext \/ Destroy

\* A call runs to its answer: it is one thread's loop.
TransformSpec == TransformInit /\ [][TransformNext]_transformVars /\ WF_transformVars(GetNext)

-----------------------------------------------------------------------------
(* Properties                                                              *)

Rows(i) == in[i].rows

\* The input rows as the value buffers hold them.
RawRows(i) == [r \in DOMAIN Rows(i) |-> RawRow(Rows(i)[r])]

Answered == phase \in {"ready", "eof"}

Width ==
    CASE op.kind = "map" -> MapWidth(op)
      [] op.kind = "audit" -> AuditWidth(op)
      [] op.kind = "unpivot" -> UnpivotWidth(op)
      [] op.kind = "aggregate" -> AggregateWidth(op)
      [] op.kind = "pivot" -> PivotWidth(op)
      [] op.kind = "join" -> JoinWidth(op)
      [] OTHER -> Len(op.fmts)

\* The columns of the input come first, but for a map that selects; then each entry's
\* value, a constant of audit or what the entry of map computes.
Copied == IF op.kind = "audit" \/ op.mode = "add" THEN Len(op.fmts) ELSE 0
NewCell(j, row) == IF op.kind = "audit" THEN op.cols[j] ELSE Eval(MapCols(op)[j], row)

\* Whatever the batches were cut into, the rows given out so far are those
\* the configuration asks for: the first n, the inputs one after the other,
\* the rows whose predicate is true, each row with its computed or constant
\* cells (the get_next functions of limit, union, filter, map and audit).
RowWiseFaithful ==
    Answered =>
      /\ op.kind = "limit" =>
            IsPrefix(outp, Rows(1)) /\ Len(outp) = (IF Len(Rows(1)) < op.n THEN Len(Rows(1)) ELSE op.n)
      /\ op.kind = "union" =>
            outp = Rows(1) \o Rows(2) /\ (Rows(2) # <<>> => in[1].end = "eof")
      /\ op.kind = "filter" =>
            outp = Kept(Rows(1), {r \in op.rows : Eval(op.where.e, r) = 1})
      /\ op.kind \in {"map", "audit"} =>
            /\ Len(outp) = Len(Rows(1))
            /\ \A i \in DOMAIN outp :
                  /\ Len(outp[i]) = Width /\ \A c \in DOMAIN outp[i] : outp[i][c] # ERR
                  /\ Copied > 0 => SubSeq(outp[i], 1, Copied) = Rows(1)[i]
                  /\ \A j \in DOMAIN op.cols : outp[i][Copied + j] = NewCell(j, Rows(1)[i])

FirstRows ==
    LET firsts == SelectSeq([i \in DOMAIN Rows(1) |-> i],
                     LAMBDA i : \A j \in 1 .. (i - 1) :
                                   DistinctKey(op, Rows(1)[j]) # DistinctKey(op, Rows(1)[i]))
    IN  [m \in DOMAIN firsts |-> Rows(1)[firsts[m]]]

\* The runs of rows with equal id columns, by the positions they start at.
RunStarts ==
    SelectSeq([i \in DOMAIN Rows(1) |-> i],
              LAMBDA i : i = 1 \/ Project(Rows(1)[i], op.ids) # Project(Rows(1)[i - 1], op.ids))

RunRow(m) ==
    LET from == RunStarts[m]
        to   == IF m = Len(RunStarts) THEN Len(Rows(1)) ELSE RunStarts[m + 1] - 1
        Named(k) == {i \in from .. to : Rows(1)[i][op.name] = op.keys[k]}
    IN  Project(Rows(1)[from], op.ids) \o
        [k \in DOMAIN op.keys |->
            IF Named(k) = {} THEN NULL
            ELSE Rows(1)[CHOOSE i \in Named(k) : \A j \in Named(k) : j <= i][op.value]]

AggregateAgrees(row) ==
    LET key   == SubSeq(row, 1, Len(op.by))
        mine  == {i \in DOMAIN Rows(1) : Project(Rows(1)[i], op.by) = key}
        Of(c) == {i \in mine : Rows(1)[i][c.over] # NULL}
        Vals(c) == {Rows(1)[i][c.over] : i \in Of(c)}
        Sum(c) == FoldLeft(LAMBDA t, i : IF i \in Of(c) THEN t + Rows(1)[i][c.over] ELSE t,
                           0, [i \in DOMAIN Rows(1) |-> i])
    IN  /\ mine # {}
        /\ \A j \in DOMAIN op.compute :
              LET c == op.compute[j]
                  v == row[Len(op.by) + j]
              IN  CASE c.agg = "count" -> v = Cardinality(mine)
                    [] c.agg = "sum" -> v \in MinInt .. MaxInt /\ (v - Sum(c)) % (2 ^ Bits) = 0
                    [] c.agg = "min" -> IF Of(c) = {} THEN v = 0 ELSE v \in Vals(c) /\ \A x \in Vals(c) : v <= x
                    [] c.agg = "max" -> IF Of(c) = {} THEN v = 0 ELSE v \in Vals(c) /\ \A x \in Vals(c) : x <= v

\* Rows are grouped as the configuration says, over all batches: distinct
\* keeps the first row of each key, aggregate has one row per key with the
\* exact values (the sum modulo the width of an integer), pivot one row per
\* run of equal ids with the last value of each name, and folding what
\* unpivot produced gives its input back (src/src/runtime/transform_pivot.c
\* calls itself the inverse of unpivot).
GroupsExact ==
    /\ op.kind = "distinct" /\ Answered => outp = FirstRows
    /\ op.kind = "aggregate" /\ phase = "eof" =>
          /\ \A i \in DOMAIN outp : Len(outp[i]) = Width /\ AggregateAgrees(outp[i])
          /\ {SubSeq(outp[i], 1, Len(op.by)) : i \in DOMAIN outp}
                = {Project(Rows(1)[i], op.by) : i \in DOMAIN Rows(1)}
          /\ \A i, j \in DOMAIN outp : i # j => SubSeq(outp[i], 1, Len(op.by)) # SubSeq(outp[j], 1, Len(op.by))
    /\ op.kind = "pivot" /\ Answered =>
          /\ outp = [m \in DOMAIN outp |-> RunRow(m)]
          /\ \A m \in DOMAIN outp : Len(outp[m]) = Width
          /\ phase = "eof" => Len(outp) = Len(RunStarts)
    /\ op.kind = "unpivot" /\ Answered /\ Len(RunStarts) = Len(Rows(1)) =>
          LET back == [kind |-> "pivot", fmts |-> [i \in 1 .. Width |-> "l"], ids |-> [i \in DOMAIN op.ids |-> i], keys |-> op.vals,
                       name |-> Width - 1, value |-> Width]
          IN  PivotEmit(back, FlushGroup(back, PivotBatch(back, PivotFresh, outp)))
                 = [i \in DOMAIN Rows(1) |-> Project(Rows(1)[i], op.ids) \o Project(Rows(1)[i], op.vals)]

KeyCols == [k \in DOMAIN op.by |-> op.by[k].col]

KeyBefore(a, b) ==
    \E k \in DOMAIN a :
        /\ \A m \in 1 .. (k - 1) : a[m] = b[m]
        /\ IF op.by[k].dir = "asc" THEN a[k] < b[k] ELSE b[k] < a[k]

\* The sorted output is in key order and, for every key, holds exactly the
\* input rows with that key in the order they arrived: nothing is lost or
\* invented and equal rows keep their order (sort_cmp_rows, sort_get_next).
SortIsStable ==
    op.kind = "sort" /\ phase = "eof" =>
      /\ \A i, j \in DOMAIN outp : i < j =>
            ~KeyBefore(Project(outp[j], KeyCols), Project(outp[i], KeyCols))
      /\ Len(outp) = Len(Rows(1))
      /\ \A i \in DOMAIN RawRows(1) :
            LET Same(r) == Project(r, KeyCols) = Project(RawRows(1)[i], KeyCols)
            IN  SelectSeq(outp, Same) = SelectSeq(RawRows(1), Same)

JoinPairs ==
    LET L == DOMAIN Rows(1)
        R == DOMAIN Rows(2)
        match == {p \in L \X R : RowKeysEqual(op, RawRows(1)[p[1]], RawRows(2)[p[2]])}
    IN  match
        \cup (IF op.jkind = "inner" THEN {}
              ELSE {<<l, NULL>> : l \in {x \in L : \A r \in R : <<x, r>> \notin match}})
        \cup (IF op.jkind # "outer" THEN {}
              ELSE {<<NULL, r>> : r \in {x \in R : \A l \in L : <<l, x>> \notin match}})

PairRow(p) == JoinLeaf(op.fmts, RawRows(1), p[1]) \o JoinLeaf(op.fmts2, RawRows(2), p[2])

\* The hashed join gives each row of the relational join as often as it
\* occurs there, whatever the hash function and however the keys collide:
\* matching pairs, and the rows without a partner the kind asks for
\* (join_get_next, src/src/runtime/transform_join.c "Null semantics").
JoinIsRelational ==
    op.kind = "join" /\ phase = "eof" =>
      /\ \A x \in {outp[i] : i \in DOMAIN outp} \cup {PairRow(p) : p \in JoinPairs} :
            Cardinality({i \in DOMAIN outp : outp[i] = x}) = Cardinality({p \in JoinPairs : PairRow(p) = x})
      /\ \A i \in DOMAIN outp : Len(outp[i]) = Width

\* A clean end is only reported when every input ended cleanly (or the limit
\* was reached), and an input that ended or failed is never pulled again.
EndIsHonest ==
    /\ phase = "eof" =>
          \A i \in Inputs : in[i].end = "eof" \/ (op.kind = "limit" /\ in[i].end # "err" /\ Len(outp) = op.n)
    /\ \A i \in 1 .. 2 : ~in[i].late

\* Every call of get_next comes back: a transform that passes no row on, or
\* that is at its limit, does not go round for ever.
CallReturns == phase = "call" ~> phase # "call"

=============================================================================
