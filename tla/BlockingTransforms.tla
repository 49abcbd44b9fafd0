------------------------- MODULE BlockingTransforms -------------------------
(***************************************************************************)
(* The transforms of betl that keep rows between batches: sort, distinct,  *)
(* aggregate, pivot and join (src/src/runtime/transform_*.c), as functions *)
(* on the state each of them keeps.  Rows, batches and formats are those   *)
(* of StreamTransforms.                                                    *)
(***************************************************************************)
EXTENDS StreamTransforms, TLC

CONSTANTS Bits,     \* the width of an integer column
          Cap0,     \* the first capacity of pivot's output arrays
          GARBAGE,  \* a cell read from memory nothing was written to
          Hash(_)   \* the hash of a tuple of key cells

\* The value buffer under a null cell holds zero.
Raw(c) == IF c = NULL THEN 0 ELSE c

RawRow(row) == [i \in DOMAIN row |-> Raw(row[i])]

MaxInt == 2 ^ (Bits - 1) - 1
MinInt == -(2 ^ (Bits - 1))
Wrapped(x) == ((x - MinInt) % (2 ^ Bits)) + MinInt

-----------------------------------------------------------------------------
(* sort *)

\* An entry is a column name, or an object with a column and a direction.
SortByVisit(b) == b.dir \in {"asc", "desc"}

SortInit(op) == op.by # <<>> /\ \A i \in DOMAIN op.by : SortByVisit(op.by[i])

SortResolve(op) ==
    AllSupported(op.fmts) /\ \A i \in DOMAIN op.by : Known(op.fmts, op.by[i].col)

\* Rows are stashed by value: the validity bitmap is not read.
SortStash(batch) == [i \in DOMAIN batch |-> RawRow(batch[i])]

SortMaterialize(tab, batch) == tab \o SortStash(batch)

\* Mutant: equal rows in reverse.
CmpRows_Unstable(op, tab, i, j) ==
    LET differs == {k \in DOMAIN op.by : tab[i][op.by[k].col] # tab[j][op.by[k].col]}
    IN  IF differs = {} THEN j < i
        ELSE LET k == CHOOSE k \in differs : \A m \in differs : k <= m
                 c == op.by[k].col
             IN  IF op.by[k].dir = "asc" THEN tab[i][c] < tab[j][c]
                 ELSE tab[j][c] < tab[i][c]

\* First key that differs decides, the input position when none does.
CmpRows(op, tab, i, j) ==
    LET differs == {k \in DOMAIN op.by : tab[i][op.by[k].col] # tab[j][op.by[k].col]}
    IN  IF differs = {} THEN i < j
        ELSE LET k == CHOOSE k \in differs : \A m \in differs : k <= m
                 c == op.by[k].col
             IN  IF op.by[k].dir = "asc" THEN tab[i][c] < tab[j][c]
                 ELSE tab[j][c] < tab[i][c]

\* The columns are rebuilt in the order qsort leaves the row numbers in.
SortBuild(op, tab) ==
    LET idx == SortSeq([i \in DOMAIN tab |-> i], LAMBDA i, j : CmpRows(op, tab, i, j))
    IN  [i \in DOMAIN tab |-> tab[idx[i]]]

-----------------------------------------------------------------------------
(* distinct *)

DistinctInit(op) == ~op.given \/ op.keys # <<>>

DistinctResolve(op) ==
    AllSupported(op.fmts) /\ \A i \in DOMAIN op.keys : Known(op.fmts, op.keys[i])

\* Without keys every column is one.
DistinctKey(op, row) ==
    Project(row, IF op.given THEN op.keys ELSE [i \in DOMAIN op.fmts |-> i])

\* A null equals a null.
SeenContains(seen, key) == \E i \in DOMAIN seen : seen[i] = key

SeenAdd(seen, key) == Append(seen, key)

\* Row by row: a new key is remembered and its row kept.
DistinctBatch(op, seen, batch) ==
    FoldLeft(LAMBDA d, row :
                IF SeenContains(d.seen, DistinctKey(op, row)) THEN d
                ELSE [seen |-> SeenAdd(d.seen, DistinctKey(op, row)),
                      kept |-> Append(d.kept, row)],
             [seen |-> seen, kept |-> <<>>], batch)

-----------------------------------------------------------------------------
(* aggregate *)

ComputeVisit(c) ==
    c.agg = "count" \/ (c.agg \in {"sum", "min", "max"} /\ c.over # NULL)

GroupByVisit(g) == g # NULL

AggregateInit(op) ==
    /\ op.by # <<>> /\ \A i \in DOMAIN op.by : GroupByVisit(op.by[i])
    /\ op.compute # <<>> /\ \A i \in DOMAIN op.compute : ComputeVisit(op.compute[i])

AggregateResolve(op) ==
    /\ op.fmts # <<>>
    /\ \A i \in DOMAIN op.by : Known(op.fmts, op.by[i]) /\ op.fmts[op.by[i]] = "l"
    /\ \A i \in DOMAIN op.compute :
          op.compute[i].agg # "count" =>
             Known(op.fmts, op.compute[i].over) /\ op.fmts[op.compute[i].over] = "l"

AggregateWidth(op) == Len(op.by) + Len(op.compute)

EmptyAccum == [count |-> 0, sum |-> 0, mn |-> MaxInt, mx |-> MinInt, seen |-> FALSE]

\* The position of a key among the groups, in order of first appearance.
FindOrCreate(op, groups, key) ==
    IF \E i \in DOMAIN groups : groups[i].key = key
    THEN [groups |-> groups, at |-> CHOOSE i \in DOMAIN groups : groups[i].key = key]
    ELSE [groups |-> Append(groups, [key |-> key,
                                     accs |-> [i \in DOMAIN op.compute |-> EmptyAccum]]),
          at |-> Len(groups) + 1]

\* count counts rows; the others skip null cells, and the sum wraps.
Accumulate(c, acc, row) ==
    IF c.agg = "count" THEN [acc EXCEPT !.count = @ + 1]
    ELSE IF row[c.over] = NULL THEN acc
    ELSE LET v == row[c.over]
         IN  [acc EXCEPT !.sum = Wrapped(@ + v),
                         !.mn = IF v < @ THEN v ELSE @,
                         !.mx = IF v > @ THEN v ELSE @,
                         !.seen = TRUE]

AggregateRow(op, groups, row) ==
    LET f == FindOrCreate(op, groups, Project(row, op.by))
    IN  [f.groups EXCEPT ![f.at].accs =
            [i \in DOMAIN op.compute |-> Accumulate(op.compute[i], @[i], row)]]

\* A null in a group_by column is an error.
AggregateFails(op, batch) ==
    \E i \in DOMAIN batch : \E j \in DOMAIN op.by : batch[i][op.by[j]] = NULL

AggregateBatch(op, groups, batch) ==
    FoldLeft(LAMBDA g, row : AggregateRow(op, g, row), groups, batch)

\* A minimum or maximum of no value is zero, not null.
AggregateCell(c, acc) ==
    CASE c.agg = "count" -> acc.count
      [] c.agg = "sum"   -> acc.sum
      [] c.agg = "min"   -> IF acc.seen THEN acc.mn ELSE 0
      [] c.agg = "max"   -> IF acc.seen THEN acc.mx ELSE 0

AggregateBuild(op, groups) ==
    [g \in DOMAIN groups |->
        groups[g].key \o
        [i \in DOMAIN op.compute |-> AggregateCell(op.compute[i], groups[g].accs[i])]]

-----------------------------------------------------------------------------
(* pivot: the open group, and finished rows in flat column-major arrays    *)
(* (cell r of column k lies at k * cap + r) until they are emitted.        *)

PivotInit(op) == op.keys # <<>> /\ op.name # NULL /\ op.value # NULL

PivotResolve(op) ==
    /\ op.fmts # <<>>
    /\ \A i \in DOMAIN op.ids : Known(op.fmts, op.ids[i])
    /\ Known(op.fmts, op.name) /\ Known(op.fmts, op.value)
    /\ op.fmts[op.name] = "u"
    /\ Supported(op.fmts[op.value])

PivotWidth(op) == Len(op.ids) + Len(op.keys)

PivotFresh == [open |-> FALSE, id |-> <<>>, slots |-> <<>>,
               n |-> 0, cap |-> 0, ids |-> <<>>, cells |-> <<>>]

\* Cells of a type that cannot be read are all alike; rows with such an id cannot
\* be given out in the end.
IdCells(op, row) ==
    [k \in DOMAIN op.ids |->
        IF Supported(op.fmts[op.ids[k]]) \/ row[op.ids[k]] = NULL THEN row[op.ids[k]] ELSE 0]

PivotFails(op) == \E k \in DOMAIN op.ids : ~Supported(op.fmts[op.ids[k]])

\* Nulls match nulls.
IdMatches(op, p, row) == IdCells(op, row) = p.id

\* Mutant: the slots of the previous group stay.
CaptureGroupId_Stale(op, p, row) ==
    [p EXCEPT !.open = TRUE, !.id = IdCells(op, row),
              !.slots = IF p.slots = <<>> THEN [k \in DOMAIN op.keys |-> NULL] ELSE @]

CaptureGroupId(op, p, row) ==
    [p EXCEPT !.open = TRUE, !.id = IdCells(op, row),
              !.slots = [k \in DOMAIN op.keys |-> NULL]]

\* A null or an undeclared name is dropped; a later value replaces an
\* earlier one, a null value clears the slot.
SlotPivotValue(op, p, row) ==
    LET named == {k \in DOMAIN op.keys : op.keys[k] = row[op.name]}
    IN  IF row[op.name] = NULL \/ named = {} THEN p
        ELSE [p EXCEPT !.slots[CHOOSE k \in named : \A m \in named : k <= m] = row[op.value]]

\* Growing an array keeps its bytes where they were: columns do not move.
Regrow(arr, width, cap, new) ==
    [i \in 1 .. width * new |-> IF i <= width * cap THEN arr[i] ELSE GARBAGE]

OutReserve(op, p) ==
    IF p.cap > p.n THEN p
    ELSE LET new == IF p.cap > 0 THEN 2 * p.cap ELSE Cap0
         IN  [p EXCEPT !.cap = new,
                       !.ids = Regrow(@, Len(op.ids), p.cap, new),
                       !.cells = Regrow(@, Len(op.keys), p.cap, new)]

Store(arr, cap, r, vals) ==
    [i \in DOMAIN arr |->
        IF \E k \in DOMAIN vals : i = ((k - 1) * cap) + r
        THEN vals[((i - r) \div cap) + 1] ELSE arr[i]]

FlushGroup(op, p) ==
    IF ~p.open THEN p
    ELSE LET q == OutReserve(op, p)
         IN  [q EXCEPT !.n = @ + 1, !.open = FALSE,
                       !.ids = Store(@, q.cap, q.n + 1, p.id),
                       !.cells = Store(@, q.cap, q.n + 1, p.slots)]

PivotRow(op, p, row) ==
    LET q == IF p.open /\ ~IdMatches(op, p, row) THEN FlushGroup(op, p) ELSE p
        o == IF q.open THEN q ELSE CaptureGroupId(op, q, row)
    IN  SlotPivotValue(op, o, row)

PivotBatch(op, p, batch) == FoldLeft(LAMBDA q, row : PivotRow(op, q, row), p, batch)

PivotColumn(arr, cap, width, r) == [k \in 1 .. width |-> arr[((k - 1) * cap) + r]]

\* The finished rows; the arrays keep their size.
PivotEmit(op, p) ==
    [r \in 1 .. p.n |-> PivotColumn(p.ids, p.cap, Len(op.ids), r)
                          \o PivotColumn(p.cells, p.cap, Len(op.keys), r)]

PivotReset(p) == [p EXCEPT !.n = 0]

-----------------------------------------------------------------------------
(* join: both sides are read into tables, the right one is hashed.         *)

JoinOnVisit(k) == k[2] # NULL

JoinInit(op) ==
    /\ op.jkind \in {"inner", "left", "outer"}
    /\ op.on # <<>> /\ \A i \in DOMAIN op.on : JoinOnVisit(op.on[i])

JtabSetSchema(fmts) == AllSupported(fmts)

JoinResolve(op) ==
    /\ JtabSetSchema(op.fmts) /\ JtabSetSchema(op.fmts2)
    /\ \A i \in DOMAIN op.on :
          /\ Known(op.fmts, op.on[i][1]) /\ Known(op.fmts2, op.on[i][2])
          /\ op.fmts[op.on[i][1]] = op.fmts2[op.on[i][2]]

JoinWidth(op) == Len(op.fmts) + Len(op.fmts2)

\* Cells are stashed by value: the validity bitmap is not read.
JtabStash(row) == RawRow(row)

JtabPull(tab, batch) == tab \o [i \in DOMAIN batch |-> JtabStash(batch[i])]

SideKey(op, side, row) == Project(row, [i \in DOMAIN op.on |-> op.on[i][side]])

RowKeysEqual(op, l, r) == SideKey(op, 1, l) = SideKey(op, 2, r)

RowKeysHash(op, side, row) == Hash(SideKey(op, side, row))

\* The next power of two that is at least twice the number of right rows.
Buckets(R) == CHOOSE n \in {2 ^ i : i \in 0 .. 24} : n >= 2 * Len(R) /\ n < 4 * Len(R)

\* The right rows of a bucket, last inserted first.
BucketChain(op, R, b) ==
    Reverse(SelectSeq([i \in DOMAIN R |-> i],
                      LAMBDA i : RowKeysHash(op, 2, R[i]) % Buckets(R) = b))

\* Mutant: the rows of a bucket are taken for matches.
ProbeRow_HashOnly(op, L, R, li) ==
    LET chain == IF R = <<>> THEN <<>>
                 ELSE BucketChain(op, R, RowKeysHash(op, 1, L[li]) % Buckets(R))
    IN  IF chain = <<>> /\ op.jkind # "inner" THEN <<[l |-> li, r |-> NULL]>>
        ELSE [m \in DOMAIN chain |-> [l |-> li, r |-> chain[m]]]

\* What one left row contributes: its matches, or itself with no partner.
ProbeRow(op, L, R, li) ==
    LET chain == IF R = <<>> THEN <<>>
                 ELSE BucketChain(op, R, RowKeysHash(op, 1, L[li]) % Buckets(R))
        found == SelectSeq(chain, LAMBDA ri : RowKeysEqual(op, L[li], R[ri]))
    IN  IF found = <<>> /\ op.jkind # "inner" THEN <<[l |-> li, r |-> NULL]>>
        ELSE [m \in DOMAIN found |-> [l |-> li, r |-> found[m]]]

\* An outer join ends with the right rows no left row matched.
UnmatchedRight(op, R, pairs) ==
    LET free == SelectSeq([i \in DOMAIN R |-> i],
                          LAMBDA i : \A p \in DOMAIN pairs : pairs[p].r # i)
    IN  IF op.jkind # "outer" THEN <<>>
        ELSE [m \in DOMAIN free |-> [l |-> NULL, r |-> free[m]]]

\* The cells one side of a pair gives.
JoinLeaf(fmts, tab, i) == IF i = NULL THEN [c \in DOMAIN fmts |-> NULL] ELSE tab[i]

JoinBuild(op, L, R, pairs) ==
    [p \in DOMAIN pairs |-> JoinLeaf(op.fmts, L, pairs[p].l)
                              \o JoinLeaf(op.fmts2, R, pairs[p].r)]
=============================================================================
