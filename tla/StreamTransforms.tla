-------------------------- MODULE StreamTransforms --------------------------
(***************************************************************************)
(* The row-wise transforms of betl: limit, union, filter, map, audit and   *)
(* unpivot (src/src/runtime/transform_*.c).  Each is given by what its     *)
(* init accepts, what its schema resolution accepts, the columns it        *)
(* declares and what one batch becomes.  A row is a sequence of cells, a   *)
(* batch a sequence of rows, a column is named by its position and has a   *)
(* format: "l" (64-bit integer), "u" (text) or any other one.              *)
(***************************************************************************)
EXTENDS Integers, Sequences, SequencesExt, Selection

CONSTANTS NULL,     \* the null cell
          ERR       \* what an expression engine answers when it fails

Supported(f) == f \in {"l", "u"}

AllSupported(fmts) == fmts # <<>> /\ \A i \in DOMAIN fmts : Supported(fmts[i])

Known(fmts, c) == c \in DOMAIN fmts

\* The cells of a row at a list of columns.
Project(row, cols) == [i \in DOMAIN cols |-> row[cols[i]]]

\* Rows of a batch under a keep mask; the validity of a kept cell is kept.
KeepRows(batch, keep) ==
    LET kept == Kept([i \in DOMAIN batch |-> i], {i \in DOMAIN batch : keep[i]})
    IN  [i \in DOMAIN kept |-> batch[kept[i]]]

-----------------------------------------------------------------------------
(* Expressions: a column, a constant, or a quotient (it fails on zero and  *)
(* is null on null).                                                       *)

Eval(e, row) ==
    CASE e.t = "col"   -> row[e.col]
      [] e.t = "const" -> e.v
      [] e.t = "inv"   -> IF row[e.col] = NULL THEN NULL
                          ELSE IF row[e.col] = 0 THEN ERR ELSE 1

EvalFails(e, batch) == \E i \in DOMAIN batch : Eval(e, batch[i]) = ERR

Compiles(e, fmts) == e.t = "const" \/ Known(fmts, e.col)

-----------------------------------------------------------------------------
(* limit *)

LimitInit(op) == op.n > 0

LimitResolve(op) == AllSupported(op.fmts)

SliceBatch(batch, n) == SubSeq(batch, 1, n)

\* A batch that fits goes through unchanged, a longer one is cut.
LimitTake(op, emitted, batch) ==
    IF Len(batch) <= op.n - emitted THEN batch
    ELSE SliceBatch(batch, op.n - emitted)

-----------------------------------------------------------------------------
(* union *)

UnionAttach(inputs, fmts) == Append(inputs, fmts)

SchemasMatch(a, b) == a = b

VerifySchemas(inputs) ==
    /\ inputs # <<>>
    /\ \A i \in DOMAIN inputs : SchemasMatch(inputs[i], inputs[1])

-----------------------------------------------------------------------------
(* filter *)

\* `where` is a string, or an object with a language and an expression.
ParseWhere(w) == w.form = "string" \/ (w.form = "object" /\ w.lang /\ w.src)

FilterResolve(op) == AllSupported(op.fmts) /\ Compiles(op.where.e, op.fmts)

\* Mutant: only FALSE drops a row.
FilterBatch_NullKept(op, batch) ==
    KeepRows(batch, [i \in DOMAIN batch |-> Eval(op.where.e, batch[i]) # 0])

\* A null predicate drops its row, as FALSE does.
FilterBatch(op, batch) ==
    KeepRows(batch, [i \in DOMAIN batch |->
                        Eval(op.where.e, batch[i]) \notin {NULL, 0}])

-----------------------------------------------------------------------------
(* map: `add` appends computed columns, `select` replaces the columns.  An *)
(* entry of the configuration is text (form "string") or an object; an     *)
(* absent field is NULL, and an expression wins over a literal value.      *)

Source(c) == IF c.expr # NULL THEN c.expr ELSE [t |-> "const", v |-> c.value]

AddVisit(c) ==
    IF c.form # "object" \/ (c.expr = NULL /\ c.value = NULL) THEN ERR
    ELSE Source(c)

SelVisit(c) ==
    CASE c.form = "string" -> [t |-> "col", col |-> c.name]
      [] c.form = "object" /\ c.name # NULL /\ (c.expr # NULL \/ c.value # NULL) -> Source(c)
      [] c.form = "object" /\ c.name # NULL /\ c.expr = NULL /\ c.value = NULL /\ c.from # NULL ->
            [t |-> "col", col |-> c.from]
      [] OTHER -> ERR

MapCols(op) ==
    [j \in DOMAIN op.cols |->
        IF op.mode = "add" THEN AddVisit(op.cols[j]) ELSE SelVisit(op.cols[j])]

MapInit(op) ==
    /\ op.mode \in {"add", "select"}
    /\ op.cols # <<>>
    /\ \A j \in DOMAIN op.cols : MapCols(op)[j] # ERR

MapEnsureReady(op) ==
    /\ AllSupported(op.fmts)
    /\ \A j \in DOMAIN op.cols : Compiles(MapCols(op)[j], op.fmts)

MapWidth(op) ==
    IF op.mode = "add" THEN Len(op.fmts) + Len(op.cols) ELSE Len(op.cols)

\* Added columns see the input columns only, never one another.
MapRow(op, row) ==
    LET computed == [j \in DOMAIN op.cols |-> Eval(MapCols(op)[j], row)]
    IN  IF op.mode = "add" THEN row \o computed ELSE computed

\* One failing entry fails the whole batch.
MapFails(op, batch) == \E j \in DOMAIN op.cols : EvalFails(MapCols(op)[j], batch)

-----------------------------------------------------------------------------
(* audit *)

\* A literal is text, an integer or a float; anything else is refused.
AuditLiteralOk(v) == v # NULL

AuditInit(op) == op.cols # <<>> /\ \A j \in DOMAIN op.cols : AuditLiteralOk(op.cols[j])

AuditWidth(op) == Len(op.fmts) + Len(op.cols)

AuditRow(op, row) == row \o op.cols

-----------------------------------------------------------------------------
(* unpivot: one row per input row and value column, with the column's name. *)

UnpivotInit(op) == op.vals # <<>>

UnpivotResolve(op) ==
    /\ op.fmts # <<>>
    /\ \A i \in DOMAIN op.ids : Known(op.fmts, op.ids[i])
    /\ \A i \in DOMAIN op.vals : Known(op.fmts, op.vals[i])
    /\ \A i \in DOMAIN op.vals : op.fmts[op.vals[i]] = op.fmts[op.vals[1]]
    /\ Supported(op.fmts[op.vals[1]])

UnpivotWidth(op) == Len(op.ids) + 2

\* The formats of the id columns are looked at only when a batch is built.
UnpivotFails(op) == \E i \in DOMAIN op.ids : ~Supported(op.fmts[op.ids[i]])

\* A cell is copied with its validity.
UnpivotCell(row, c) == row[c]

\* Output row r * n_value + k comes from input row r and value column k.
UnpivotBatch(op, batch) ==
    LET n == Len(op.vals)
    IN  [d \in 1 .. Len(batch) * n |->
            LET row == batch[((d - 1) \div n) + 1]
                c   == op.vals[((d - 1) % n) + 1]
            IN  Project(row, op.ids) \o <<c, UnpivotCell(row, c)>>]
=============================================================================
