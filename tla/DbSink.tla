------------------------------- MODULE DbSink -------------------------------
(***************************************************************************)
(* One database writer of a dataflow step, from init to destroy:           *)
(* postgres.upsert, postgres.copy, mssql.upsert and mssql.bulkinsert       *)
(* (array and bcp) run as sinks and pull their input to the end;           *)
(* postgres.exec and mssql.exec are transforms that write each row when    *)
(* their consumer pulls, forward it, and end their transaction when they   *)
(* are destroyed.  `db' is what other sessions see, `txn' the writer's own *)
(* view while its transaction is open.                                     *)
(***************************************************************************)
EXTENDS DbSql

CONSTANTS Ops,        \* the configurations
          MaxBatch,   \* rows in a batch
          MaxBatches, \* batches the input delivers before it ends
          LongVals,   \* values longer than the scratch a column starts with
          WIDE,       \* an unsigned value above the signed range
          NULTEXT,    \* a text with a NUL in it
          GARBAGE     \* what is not the value that was delivered

\* A table is a sequence of rows; `old' is what is in it before the run.
ASSUME OpsAssumption ==
    /\ MaxBatch \in Nat
    /\ \A o \in Ops : o.old \in Seq(ToSet(o.old))

VARIABLES op,      \* the configuration
          phase,   \* where the writer is
          rc,      \* what it has answered so far: "ok" or why it failed
          stmt,    \* the prepared statement
          db,      \* the committed table
          txn,     \* the table inside the open transaction, NULL without one
          buf,     \* per written column: its bound buffer
          pend,    \* rows buffered but not executed yet
          batch,   \* rows of the current batch still to be written
          in,      \* every row the input delivered
          end,     \* how the input ended
          given,   \* exec: rows forwarded to the consumer
          cancel   \* a cancellation was asked for

vars == <<op, phase, rc, stmt, db, txn, buf, pend, batch, in, end, given, cancel>>

Exec == {"pg_exec", "ms_exec"}

Rows(cells) == [i \in DOMAIN cells |-> [c |-> cells[i], w |-> 1]]

Init ==
    /\ op \in Ops
    /\ phase = "new"
    /\ rc = "ok"
    /\ stmt = NULL
    /\ db = Rows(op.old)
    /\ txn = NULL
    /\ buf = <<>>
    /\ pend = <<>>
    /\ batch = <<>>
    /\ in = <<>>
    /\ end = "open"
    /\ given = 0
    /\ cancel = FALSE

-----------------------------------------------------------------------------
(* Init.  A connection is "ok", "down" or not given; an exec's `table' is  *)
(* the one its statement names, <<>> when there is no statement.           *)

Named == op.connection # NULL /\ op.table # <<>>

PgConnects == op.connection = "ok"

MsConnects == op.connection = "ok"

BcpOpens == op.connection = "ok"

PgUpsertInit ==
    Named /\ op.key # <<>> /\ ParseOnConflict(op.mode) # ERR /\ PgConnects

CopyInit == Named /\ PgConnects

PgExecInit == Named /\ PgConnects

MsUpsertInit ==
    Named /\ op.key # <<>> /\ ParseOnConflict(op.mode) # ERR /\ MsConnects

BI_MAX_BATCH == 65535

\* bcp connects when it runs.
BulkInit ==
    /\ Named /\ op.batch_size \in 1 .. BI_MAX_BATCH
    /\ op.kind = "ms_bulk" => MsConnects

MsExecInit == Named /\ MsConnects

InitOk ==
    CASE op.kind = "pg_upsert" -> PgUpsertInit
      [] op.kind = "pg_copy" -> CopyInit
      [] op.kind = "pg_exec" -> PgExecInit
      [] op.kind = "ms_upsert" -> MsUpsertInit
      [] op.kind \in {"ms_bulk", "ms_bcp"} -> BulkInit
      [] op.kind = "ms_exec" -> MsExecInit

InitWriter ==
    /\ phase = "new"
    /\ phase' = IF InitOk THEN "ready" ELSE "refused"
    /\ UNCHANGED <<op, rc, stmt, db, txn, buf, pend, batch, in, end, given, cancel>>

-----------------------------------------------------------------------------
(* The columns written and their types.  `columns' is NULL for all of the  *)
(* input; only an exec takes an empty list at its word.                    *)

ArrowToPg ==
    {"c", "C", "s", "S", "i", "I", "l", "L", "f", "g", "b", "u", "z",
     "tdD", "tsu:", "tsu:UTC", "ttu", "w:16", "d:38,2"}

FmtToPcType == {"s", "i", "l", "f", "g", "u", "b"}

FmtToPeType == {"c", "s", "i", "l", "f", "g", "u", "b"}

ArrowToMs == ArrowToPg

MsBulkArrowToMs == ArrowToPg

FmtToExType == FmtToPeType

Types ==
    CASE op.kind = "pg_upsert" -> ArrowToPg
      [] op.kind = "pg_copy" -> FmtToPcType
      [] op.kind = "pg_exec" -> FmtToPeType
      [] op.kind = "ms_upsert" -> ArrowToMs
      [] op.kind \in {"ms_bulk", "ms_bcp"} -> MsBulkArrowToMs
      [] op.kind = "ms_exec" -> FmtToExType

Columns ==
    IF op.columns = NULL \/ (op.columns = <<>> /\ op.kind \notin Exec)
    THEN [i \in DOMAIN op.fmts |-> i] ELSE op.columns

ColumnsOk == \A i \in DOMAIN Columns : Columns[i] \in DOMAIN op.fmts /\ op.fmts[Columns[i]] \in Types

\* bcp binds by position in the table, every other writer by name.
Target(i) == IF op.kind = "ms_bcp" THEN i ELSE Columns[i]

\* The server knows the table and every column.
Prepares(s) == TableExists(op.table) /\ \A i \in DOMAIN s.cols : Target(i) \in 1 .. op.width

-----------------------------------------------------------------------------
(* The start of a run.  What is refused before a transaction is begun ends *)
(* the run at once; a refusal inside it rolls back.                        *)

Refuse(why) ==
    /\ rc' = why
    /\ phase' = "done"
    /\ UNCHANGED <<stmt, txn, buf>>

Fail(why) ==
    /\ rc' = why
    /\ phase' = IF op.kind \in Exec THEN "stopped" ELSE "finish"

\* Every text or binary column has a scratch buffer of its own.
Begin(s, table) ==
    /\ stmt' = s
    /\ txn' = table
    /\ buf' = [i \in DOMAIN Columns |-> "small"]
    /\ IF Prepares(s) THEN phase' = "loop" /\ UNCHANGED rc ELSE Fail("io")

Starting(kind) ==
    /\ phase = "ready" /\ op.kind = kind
    /\ UNCHANGED <<op, db, pend, batch, in, end, given, cancel>>

StartPgUpsert ==
    /\ Starting("pg_upsert")
    /\ LET s == BuildUpsertSql(op.table, Columns, op.key, ParseOnConflict(op.mode))
       IN  IF ~ ColumnsOk THEN Refuse("type")
           ELSE IF s = ERR THEN Refuse("invalid")
           ELSE Refuse("io") \/ Begin(s, db)

StartCopy ==
    /\ Starting("pg_copy")
    /\ IF ~ ColumnsOk THEN Refuse("type")
       ELSE \/ Refuse("io")
            \/ Begin(BuildCopySql(Columns), IF op.truncate THEN <<>> ELSE db)

StartMsUpsert ==
    /\ Starting("ms_upsert")
    /\ LET s == BuildMergeSql(op.table, Columns, op.key, ParseOnConflict(op.mode))
       IN  IF ~ ColumnsOk THEN Refuse("type")
           ELSE IF s = ERR THEN Refuse("invalid")
           ELSE IF ~ Prepares(s) THEN Refuse("io")
           ELSE Refuse("io") \/ Begin(s, db)

StartBulk ==
    /\ Starting("ms_bulk")
    /\ LET s == BuildInsertSql("bracket", op.table, Columns)
       IN  IF ~ ColumnsOk THEN Refuse("type")
           ELSE IF s = ERR THEN Refuse("invalid")
           ELSE IF ~ Prepares(s) THEN Refuse("io")
           ELSE Refuse("io") \/ Begin(s, db)

\* Opening the connection, the table and binding each column; no
\* transaction, and what fails here is not followed by bcp_done.
StartBcp ==
    /\ Starting("ms_bcp")
    /\ IF ~ ColumnsOk THEN Refuse("type")
       ELSE IF ~ BcpOpens THEN Refuse("auth")
       ELSE IF ~ Prepares(PlainInsert(Columns)) THEN Refuse("io")
       ELSE Refuse("io") \/ Begin(PlainInsert(Columns), NULL)

\* The first pull of an exec's consumer.
StartPgExec ==
    /\ Starting("pg_exec")
    /\ IF ~ ColumnsOk THEN Refuse("type") ELSE Refuse("io") \/ Begin(PlainInsert(Columns), db)

StartMsExec ==
    /\ Starting("ms_exec")
    /\ IF ~ ColumnsOk THEN Refuse("type")
       ELSE IF ~ Prepares(PlainInsert(Columns)) THEN Refuse("io")
       ELSE Refuse("io") \/ Begin(PlainInsert(Columns), db)

-----------------------------------------------------------------------------
(* The input: a batch, its end or its failure.                             *)

Batches == UNION {[1 .. n -> op.rows] : n \in 0 .. MaxBatch}

Delivers(b) ==
    /\ Len(in) < MaxBatch * MaxBatches
    /\ batch' = b
    /\ in' = in \o b
    /\ UNCHANGED <<rc, end>>

InputFails == end' = "fail" /\ Fail("io") /\ UNCHANGED <<batch, in>>

\* A sink asks for cancellation before each batch.
Pull ==
    /\ phase = "loop" /\ op.kind \notin Exec
    /\ IF cancel
       THEN Fail("cancelled") /\ UNCHANGED <<batch, in, end>>
       ELSE \/ \E b \in Batches \ {<<>>} : Delivers(b) /\ phase' = "rows"
            \/ InputFails
            \/ end' = "eof" /\ phase' = "finish" /\ UNCHANGED <<rc, batch, in>>
    /\ UNCHANGED <<op, stmt, db, txn, buf, pend, given, cancel>>

ExecPull ==
    /\ phase = "loop" /\ op.kind \in Exec
    /\ \/ \E b \in Batches : Delivers(b) /\ phase' = IF b = <<>> THEN "given" ELSE "rows"
       \/ InputFails
       \/ end' = "eof" /\ phase' = "stopped" /\ UNCHANGED <<rc, batch, in>>
    /\ UNCHANGED <<op, stmt, db, txn, buf, pend, given, cancel>>

-----------------------------------------------------------------------------
(* Cells on their way to the server.  PostgreSQL's text parameters end at  *)
(* a NUL, SQL Server's integers are bound as signed.                       *)

Narrowed(v, lost) == IF v \in lost THEN GARBAGE ELSE v

RenderCell(v) == Narrowed(v, {NULTEXT})

EncodeCell(v) == Narrowed(v, {NULTEXT})

\* Binary COPY sends the text as it is, and the server refuses a NUL.
CopyRefuses(rows) == \E i \in DOMAIN rows : NULTEXT \in ToSet(rows[i])

\* A bound buffer is "small", "big" once a long value made it grow, and
\* "stale" when growing moved it and the driver still has the old address.
Grown(f, v, b) ==
    IF f \in {"u", "z"} /\ v \in LongVals /\ b = "small" THEN {"big", "moved"} ELSE {b}

Address(b, rebound) == IF b # "moved" THEN b ELSE IF rebound THEN "big" ELSE "stale"

Bound(v, b) == IF v = NULL THEN NULL ELSE IF b = "stale" THEN GARBAGE ELSE Narrowed(v, {WIDE})

\* Mutant: a buffer that has moved is never bound again.
MsUpsertRebinds_Never(f) == FALSE

\* mssql.upsert looks for a move in text columns only; mssql.exec binds
\* text again for every row, bcp text and binary.
MsUpsertRebinds(f) == f = "u"

MsExecRebinds(f) == f = "u"

BcpRebinds(f) == f \in {"u", "z"}

\* bulkinsert's slots have a fixed size.
BulkFits(row) == \A i \in DOMAIN Columns :
    ~ (op.fmts[Columns[i]] \in {"u", "z"} /\ row[Columns[i]] \in LongVals)

\* The table row a row of written cells makes.
Placed(cells) ==
    [t \in 1 .. op.width |->
        LET hits == {i \in DOMAIN Columns : Target(i) = t}
        IN  IF hits = {} THEN NULL ELSE cells[CHOOSE i \in hits : TRUE]]

Cell(row, i) == row[Columns[i]]

Moves(row, Rebinds(_)) ==
    {[i \in DOMAIN Columns |-> Address(m[i], Rebinds(op.fmts[Columns[i]]))] :
        m \in {m \in [DOMAIN Columns -> {"small", "big", "moved", "stale"}] :
            \A i \in DOMAIN Columns : m[i] \in Grown(op.fmts[Columns[i]], Cell(row, i), buf[i])}}

-----------------------------------------------------------------------------
(* One row.                                                                *)

Writing(kind) ==
    /\ phase = "rows" /\ op.kind = kind
    /\ UNCHANGED <<op, stmt, in, end, given, cancel>>

RowFails(why, held) ==
    /\ Fail(why)
    /\ pend' = held
    /\ batch' = <<>>
    /\ UNCHANGED <<db, txn>>

RowDone(held) ==
    /\ pend' = held
    /\ batch' = Tail(batch)
    /\ phase' = IF Len(batch) > 1 THEN "rows" ELSE IF op.kind \in Exec THEN "given" ELSE "loop"
    /\ UNCHANGED rc

\* What the statement made of the row or the group, in the transaction: the
\* server may refuse it, and the connection may go.
InTxn(work) ==
    \/ RowFails("io", <<>>)
    \/ work # ERR /\ RowDone(<<>>) /\ txn' = work /\ UNCHANGED db

Insert(table, rows) == ExecuteAll(MsExecute, table, op.uniq, stmt, rows)

PgUpsertRow ==
    /\ Writing("pg_upsert")
    /\ LET new == Placed([i \in DOMAIN Columns |-> RenderCell(Cell(Head(batch), i))])
       IN  InTxn(PgExecute(txn, op.uniq, stmt, new))
    /\ UNCHANGED buf

\* COPY only sends the row; the server answers at the end.
CopyRow ==
    /\ Writing("pg_copy")
    /\ \/ RowFails("io", <<>>)
       \/ /\ RowDone(Append(pend, Placed([i \in DOMAIN Columns |-> Cell(Head(batch), i)])))
          /\ UNCHANGED <<db, txn>>
    /\ UNCHANGED buf

MsUpsertRow ==
    /\ Writing("ms_upsert")
    /\ \E b \in Moves(Head(batch), MsUpsertRebinds) :
         LET new == Placed([i \in DOMAIN Columns |-> Bound(Cell(Head(batch), i), b[i])])
         IN  buf' = b /\ InTxn(MsExecute(txn, op.uniq, stmt, new))

\* bulkinsert executes a full group.
BulkRow ==
    /\ Writing("ms_bulk")
    /\ LET new == Placed([i \in DOMAIN Columns |-> Bound(Cell(Head(batch), i), "small")])
           group == Append(pend, new)
       IN  IF ~ BulkFits(Head(batch)) THEN RowFails("invalid", pend)
           ELSE IF Len(group) = op.batch_size THEN InTxn(Insert(txn, group))
           ELSE RowDone(group) /\ UNCHANGED <<db, txn>>
    /\ UNCHANGED buf

\* Mutant: a group is sent one row late.
GroupFull_Late(group) == Len(group) > op.batch_size

GroupFull(group) == Len(group) >= op.batch_size

\* bcp_batch commits a full group; its answer may be lost.
BcpBatch(work) ==
    \/ RowFails("io", <<>>)
    \/ /\ work # ERR /\ db' = work /\ UNCHANGED txn
       /\ RowDone(<<>>) \/ (Fail("io") /\ pend' = <<>> /\ batch' = <<>>)

\* A row's columns are handed over and it is sent: each call may fail.
BcpRow ==
    /\ Writing("ms_bcp")
    /\ \E b \in Moves(Head(batch), BcpRebinds) :
         LET new == Placed([i \in DOMAIN Columns |-> Bound(Cell(Head(batch), i), b[i])])
             group == Append(pend, new)
         IN  /\ buf' = b
             /\ \/ RowFails("io", pend)
                \/ GroupFull(group) /\ BcpBatch(Insert(db, group))
                \/ ~ GroupFull(group) /\ RowDone(group) /\ UNCHANGED <<db, txn>>

\* An exec asks for cancellation before each row.
PgExecRow ==
    /\ Writing("pg_exec")
    /\ LET new == Placed([i \in DOMAIN Columns |-> EncodeCell(Cell(Head(batch), i))])
       IN  IF cancel THEN RowFails("cancelled", <<>>) ELSE InTxn(PgExecute(txn, op.uniq, stmt, new))
    /\ UNCHANGED buf

MsExecRow ==
    /\ Writing("ms_exec")
    /\ IF cancel THEN RowFails("cancelled", <<>>) /\ UNCHANGED buf
       ELSE \E b \in Moves(Head(batch), MsExecRebinds) :
              LET new == Placed([i \in DOMAIN Columns |-> Bound(Cell(Head(batch), i), b[i])])
              IN  buf' = b /\ InTxn(MsExecute(txn, op.uniq, stmt, new))

-----------------------------------------------------------------------------
(* The end of a sink's run.  A COMMIT that fails is an error, also when it *)
(* took effect and only its answer was lost.                               *)

Ending(kind) ==
    /\ phase = "finish" /\ op.kind = kind
    /\ UNCHANGED <<op, stmt, buf, batch, in, end, given, cancel>>

Ended(table, answer) ==
    /\ db' = table
    /\ rc' = answer
    /\ txn' = NULL
    /\ pend' = <<>>
    /\ phase' = "done"

\* Mutant: the transaction is committed whatever happened.
EndTran_Commits(work) == IF work = ERR THEN Ended(db, "io") ELSE Ended(work, rc)

\* COMMIT when all went well, ROLLBACK otherwise.
EndTran(work) ==
    IF rc # "ok" THEN Ended(db, rc)
    ELSE \/ Ended(db, "io")
         \/ work # ERR /\ \E answer \in {"ok", "io"} : Ended(work, answer)

FinishPgUpsert == Ending("pg_upsert") /\ EndTran(txn)

\* The end of COPY is where it meets its constraint violations.
FinishCopy ==
    /\ Ending("pg_copy")
    /\ EndTran(IF CopyRefuses(pend) THEN ERR ELSE ExecuteAll(PgExecute, txn, op.uniq, stmt, pend))

FinishMsUpsert == Ending("ms_upsert") /\ EndTran(txn)

\* The last group, if the rest went well.
FinishBulk == Ending("ms_bulk") /\ EndTran(Insert(txn, pend))

\* bcp_done commits the rows held, also after an error, which its own
\* failure does not replace.
FinishBcp ==
    /\ Ending("ms_bcp")
    /\ LET work == Insert(db, pend)
           failed == IF rc = "ok" THEN "io" ELSE rc
       IN  \/ Ended(db, failed)
           \/ work # ERR /\ \E answer \in {rc, failed} : Ended(work, answer)

-----------------------------------------------------------------------------
(* An exec's consumer takes the batch and pulls again, or stops (it has    *)
(* enough rows, or failed); the transaction ends in destroy, and the       *)
(* answer to the COMMIT is not looked at.                                  *)

Forward ==
    /\ phase = "given"
    /\ given' = Len(in)
    /\ phase' \in {"loop", "stopped"}
    /\ UNCHANGED <<op, rc, stmt, db, txn, buf, pend, batch, in, end, cancel>>

Destroying == phase \in {"ready", "done", "stopped"} /\ phase' = "gone" /\ txn' = NULL

Destroy ==
    /\ op.kind \notin Exec /\ Destroying
    /\ UNCHANGED <<op, rc, stmt, db, buf, pend, batch, in, end, given, cancel>>

PgExecDestroy ==
    /\ op.kind = "pg_exec" /\ Destroying
    /\ IF txn # NULL /\ end = "eof" THEN db' \in {txn, db} ELSE UNCHANGED db
    /\ UNCHANGED <<op, rc, stmt, buf, pend, batch, in, end, given, cancel>>

MsExecDestroy ==
    /\ op.kind = "ms_exec" /\ Destroying
    /\ IF txn # NULL /\ end = "eof" THEN db' \in {txn, db} ELSE UNCHANGED db
    /\ UNCHANGED <<op, rc, stmt, buf, pend, batch, in, end, given, cancel>>

\* The host asks for cancellation (context.c).
Cancel ==
    /\ ~ cancel /\ phase \in {"loop", "rows", "given"}
    /\ cancel' = TRUE
    /\ UNCHANGED <<op, phase, rc, stmt, db, txn, buf, pend, batch, in, end, given>>

Over == phase \in {"gone", "refused"} /\ UNCHANGED vars

Next ==
    \/ InitWriter
    \/ StartPgUpsert \/ StartCopy \/ StartMsUpsert \/ StartBulk \/ StartBcp \/ StartPgExec
    \/ StartMsExec \/ Pull \/ ExecPull
    \/ PgUpsertRow \/ CopyRow \/ MsUpsertRow \/ BulkRow \/ BcpRow \/ PgExecRow \/ MsExecRow
    \/ FinishPgUpsert \/ FinishCopy \/ FinishMsUpsert \/ FinishBulk \/ FinishBcp
    \/ Forward \/ Destroy \/ PgExecDestroy \/ MsExecDestroy \/ Cancel \/ Over

Spec == Init /\ [][Next]_vars

-----------------------------------------------------------------------------
(* Properties.                                                             *)

Cells(table) == [i \in DOMAIN table |-> table[i].c]

\* The row of the table an input row stands for: columns go by name.
Wanted(row) ==
    [t \in 1 .. op.width |->
        IF \E i \in DOMAIN Columns : Columns[i] = t THEN row[t] ELSE NULL]

WantedRows == [i \in DOMAIN in |-> Wanted(in[i])]

Stored == db # Rows(op.old)

\* The writer has committed a transaction, or (bcp and the sinks) says that
\* all of its input is in the table.
Settled ==
    \/ op.kind # "ms_bcp" /\ Stored
    \/ op.kind \notin Exec /\ phase \in {"done", "gone"} /\ rc = "ok" /\ end = "eof"

\* Other sessions see nothing of a writer until its last row is in, and
\* nothing at all of one that failed or was cancelled on its way, was never
\* run or (exec) was not read to the end of its input: a change that is seen
\* is that of a run that is over, came to its input's end, and failed, if it
\* did, in its COMMIT alone.  bcp does not promise this.
AllOrNothing ==
    (Stored /\ op.kind # "ms_bcp") =>
        /\ end = "eof"
        /\ IF op.kind \in Exec THEN rc = "ok" /\ phase = "gone"
           ELSE rc \in {"ok", "io"} /\ phase \in {"done", "gone"}

\* on_conflict update_if_changed writes a row only when it changes it.
UnchangedRowsUntouched ==
    (op.kind \in {"pg_upsert", "ms_upsert"} /\ op.mode = "update_if_changed") =>
        \A i \in DOMAIN op.old :
            (Stored /\ \A j \in DOMAIN in :
                \/ KeyOf(Wanted(in[j]), op.key) # KeyOf(op.old[i], op.key)
                \/ \A c \in ToSet(Columns) : Wanted(in[j])[c] = op.old[i][c])
            => db[i].w = 1

\* What a transaction has stored, whatever came of the answer to its COMMIT,
\* and what a writer that succeeded has stored, is exactly the input: for
\* upserts every key holds the row its mode promises and no other key
\* appears, for the other writers each row is there once, in order; and a row
\* the mode says to leave alone was not written.
StoresItsInput ==
    /\ UnchangedRowsUntouched
    /\ Settled =>
             LET start == IF op.kind = "pg_copy" /\ op.truncate THEN <<>> ELSE op.old
                 now == Cells(db)
                 mode == IF op.mode = NULL THEN "update" ELSE op.mode
             IN  IF op.kind \in {"pg_upsert", "ms_upsert"}
                 THEN /\ Keys(now, op.key) = Keys(start \o WantedRows, op.key)
                      /\ \A k \in Keys(now, op.key) :
                            /\ KeyedBy(now, op.key, k) =
                                  <<Promised(start, WantedRows, Columns, op.key, mode, k)>>
                            /\ mode = "error" => Len(KeyedBy(start \o WantedRows, op.key, k)) = 1
                 ELSE now = start \o WantedRows

\* bcp commits whole prefixes of its input, whatever the run's outcome.
BcpStoresAPrefix ==
    op.kind = "ms_bcp" =>
        LET n == Len(db) - Len(op.old)
        IN  /\ n \in 0 .. Len(in)
            /\ Cells(db) = op.old \o SubSeq(WantedRows, 1, n)
            /\ phase \in {"loop", "rows"} => n % op.batch_size = 0
=============================================================================
