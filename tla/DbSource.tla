------------------------------ MODULE DbSource ------------------------------
(***************************************************************************)
(* The components that read a database: postgres.read and mssql.read       *)
(* (sources pulled in batches), postgres.lookup and mssql.lookup           *)
(* (transforms that answer each input row from a table read once), and the *)
(* sql.execute task.  Each is followed from init to destroy while other    *)
(* sessions commit new versions of the table.                              *)
(***************************************************************************)
EXTENDS Naturals, FiniteSets, SequencesExt, Selection

CONSTANTS Ops,         \* the configurations
          MaxVersions, \* versions of the table there may be
          MaxBatch,    \* rows in a batch of a lookup's input
          MaxBatches,  \* batches before the input ends
          SMALL,       \* bytes a first read of a text or binary cell can take
          NULL, ERR,
          BAD          \* a value the column's parser refuses, such as date 'infinity' or
                       \* a time with a seventh fractional digit

ASSUME SourceAssumption == MaxVersions \in Nat \ {0} /\ MaxBatch \in Nat /\ SMALL \in Nat \ {0, 1}

ASSUME MarksAssumption == NULL \notin Nat /\ ERR \notin Nat /\ NULL # ERR

\* A table is a sequence of rows with a cell for every column; a text or
\* binary cell that is not null is a sequence of characters or bytes.
IsTable(t, types) ==
    /\ t \in Seq(ToSet(t))
    /\ \A r \in DOMAIN t :
          /\ DOMAIN t[r] = DOMAIN types
          /\ \A i \in DOMAIN types :
                types[i] \in {"text", "bytea", "varchar", "varbinary"} =>
                    t[r][i] = NULL \/ t[r][i] \in Seq(ToSet(t[r][i]))

ASSUME OpsAssumption ==
    \A o \in Ops :
        /\ o.batch_size \in Nat \ {0}
        /\ o.match \in Seq(ToSet(o.match)) /\ Len(o.match) <= 16 /\ o.select \in Seq(ToSet(o.select))
        /\ \A t \in {o.table} \cup o.writes : IsTable(t, o.types)

VARIABLES op,       \* the configuration
          phase,    \* where the component is
          rc,       \* what it has answered so far
          versions, \* committed versions of the table, the last one is current
          snap,     \* the result set or the lookup's cache, NULL before
          scan,     \* the version that the rows still to be fetched are from
          pos,      \* rows of the result set fetched
          held,     \* mssql.read: rows of the batch being filled
          eof,      \* the reader has seen the end of its result set
          in,       \* every row a lookup's input delivered
          out,      \* rows delivered; sql.execute: statements that took effect
          junk,     \* cache slots that are allocated and hold no text yet
          wild,     \* destroy has freed a slot that held no text
          cancel    \* a cancellation was asked for

vars == <<op, phase, rc, versions, snap, scan, pos, held, eof, in, out, junk, wild, cancel>>

Current == Last(versions)

Init ==
    /\ op \in Ops
    /\ phase = "new"
    /\ rc = "ok"
    /\ versions = <<op.table>>
    /\ snap = NULL
    /\ scan = 0
    /\ pos = 0
    /\ held = <<>>
    /\ eof = FALSE
    /\ in = <<>>
    /\ out = <<>>
    /\ junk = {}
    /\ wild = FALSE
    /\ cancel = FALSE

Stop(why) == rc' = why /\ phase' = "stopped"

Loop == UNCHANGED <<rc, phase>>

-----------------------------------------------------------------------------
(* Init.  A source connects and runs its query; a lookup and sql.execute   *)
(* only look at their configuration.                                       *)

Connected == op.connection = "ok"

QueryRuns == op.query = "ok"

PgReadInit == Connected /\ QueryRuns

MsReadInit == Connected /\ QueryRuns

PgLookupInit == op.connection # NULL /\ op.match # <<>> /\ op.select # <<>> /\ op.on_miss \in {"error", "null", "drop"}

MsLookupInit == op.connection # NULL /\ op.match # <<>> /\ op.select # <<>> /\ op.on_miss \in {"error", "null", "drop"}

ExecuteInit == op.connection # NULL /\ op.script # NULL

Reads == op.kind \in {"pg_read", "ms_read"}

\* postgres.read's cursor sees the table as of its DECLARE; mssql.read's
\* scan of the table begins with SQLExecDirect.
InitComponent ==
    /\ phase = "new"
    /\ LET ok == CASE op.kind = "pg_read" -> PgReadInit
                   [] op.kind = "ms_read" -> MsReadInit
                   [] op.kind = "pg_lookup" -> PgLookupInit
                   [] op.kind = "ms_lookup" -> MsLookupInit
                   [] op.kind = "execute" -> ExecuteInit
       IN  /\ phase' = IF ok THEN "ready" ELSE "refused"
           /\ snap' = IF ok /\ Reads THEN Current ELSE NULL
           /\ scan' = IF ok /\ Reads THEN Len(versions) ELSE 0
    /\ UNCHANGED <<op, rc, versions, pos, held, eof, in, out, junk, wild, cancel>>

-----------------------------------------------------------------------------
(* Column types, by the server's name, and the formats they are read as.   *)

PgOidToFmt ==
    [int8 |-> "l", int4 |-> "i", int2 |-> "s", float4 |-> "f", float8 |-> "g", text |-> "u",
     date |-> "D", timestamp |-> "T", timestamptz |-> "Z", time |-> "M", numeric |-> "N",
     uuid |-> "U", bytea |-> "B"]

SqlTypeToFmt ==
    [bigint |-> "l", int |-> "i", smallint |-> "s", tinyint |-> "C", varchar |-> "u", date |-> "D",
     datetime2 |-> "T", datetimeoffset |-> "Z", uniqueidentifier |-> "U", time |-> "M", real |-> "f",
     float |-> "g", varbinary |-> "B", decimal |-> "N"]

PgLookupFmt == [int8 |-> "l", int4 |-> "i", int2 |-> "s", text |-> "u"]

MsLookupFmt == [bigint |-> "l", int |-> "i", smallint |-> "s", tinyint |-> "C", varchar |-> "u"]

\* A numeric column needs a precision and a scale Arrow can carry.
PrecisionOk(t) ==
    t \in {"numeric", "decimal"} => op.numeric # NULL /\ op.numeric[1] \in 1 .. 38 /\ op.numeric[2] \in 0 .. op.numeric[1]

Resolves(to_fmt) == \A i \in DOMAIN op.types : op.types[i] \in DOMAIN to_fmt /\ PrecisionOk(op.types[i])

PgFmt(i) == PgOidToFmt[op.types[i]]

MsFmt(i) == SqlTypeToFmt[op.types[i]]

PgResolve ==
    /\ phase = "ready" /\ op.kind = "pg_read"
    /\ IF Resolves(PgOidToFmt) THEN phase' = "loop" /\ UNCHANGED rc ELSE Stop("io")
    /\ UNCHANGED <<op, versions, snap, scan, pos, held, eof, in, out, junk, wild, cancel>>

MsResolve ==
    /\ phase = "ready" /\ op.kind = "ms_read"
    /\ IF Resolves(SqlTypeToFmt) THEN phase' = "loop" /\ UNCHANGED rc ELSE Stop("io")
    /\ UNCHANGED <<op, versions, snap, scan, pos, held, eof, in, out, junk, wild, cancel>>

-----------------------------------------------------------------------------
(* One cell.  mssql.read takes a text or binary value in two calls when it *)
(* does not fit the first; a terminator takes a byte of a text's first     *)
(* call.  SQL Server's 100 ns ticks are cut to microseconds.               *)

PgCell(f, v) == IF v = BAD /\ f # "u" THEN ERR ELSE v

AtMost(s, n) == IF n < Len(s) THEN SubSeq(s, 1, n) ELSE s

FirstCall(f, v) == AtMost(v, IF f = "u" THEN SMALL - 1 ELSE SMALL)

\* Mutant: a terminator is taken off a binary value too.
Got_Text(f, v) == IF Len(v) < SMALL THEN Len(v) ELSE SMALL - 1

Got(f, v) ==
    LET room == IF f = "u" THEN SMALL - 1 ELSE SMALL
    IN  IF Len(v) < room THEN Len(v) ELSE room

MsGetData(f, v) ==
    LET first == FirstCall(f, v)
    IN  IF Len(first) = Len(v) THEN first
        ELSE SubSeq(first, 1, Got(f, v)) \o SubSeq(v, Len(first) + 1, Len(v))

\* What SQL Server sends as text and the reader parses.
MsParsed(v) == IF v = BAD THEN ERR ELSE v

MsCell(f, v) ==
    IF v = NULL THEN NULL
    ELSE IF f \in {"Z", "M", "U", "N"} THEN MsParsed(v)
    ELSE IF f \in {"u", "B"} THEN MsGetData(f, v)
    ELSE IF f = "T" THEN v \div 10
    ELSE v

PgColumns(rows) == [r \in DOMAIN rows |-> [i \in DOMAIN rows[r] |-> PgCell(PgFmt(i), rows[r][i])]]

Readable(row) == \A i \in DOMAIN row : row[i] # ERR

-----------------------------------------------------------------------------
(* The readers' get_next.                                                  *)

Ended(kind) == phase = "loop" /\ op.kind = kind /\ UNCHANGED <<op, versions, snap, scan, in, junk, wild, cancel>>

\* One FETCH: a value that cannot be parsed loses the whole batch.
PgGetNext ==
    /\ Ended("pg_read")
    /\ UNCHANGED held
    /\ IF cancel THEN Stop("cancelled") /\ UNCHANGED <<pos, eof, out>>
       ELSE \/ Stop("io") /\ UNCHANGED <<pos, eof, out>>
            \/ LET got == AtMost(SubSeq(snap, pos + 1, Len(snap)), op.batch_size)
                   rows == PgColumns(got)
               IN  /\ pos' = pos + Len(got)
                   /\ eof' = (got = <<>>)
                   /\ IF \A r \in DOMAIN rows : Readable(rows[r])
                      THEN out' = out \o rows /\ (IF eof' THEN Stop("ok") ELSE Loop)
                      ELSE Stop("io") /\ UNCHANGED out

\* One SQLFetch into the batch; what fails drops the rows held.
MsFetch ==
    /\ Ended("ms_read")
    /\ ~ eof /\ Len(held) < op.batch_size
    /\ UNCHANGED out
    /\ IF cancel THEN Stop("cancelled") /\ UNCHANGED <<pos, held, eof>>
       ELSE \/ Stop("io") /\ UNCHANGED <<pos, held, eof>>
            \/ IF pos = Len(snap) THEN eof' = TRUE /\ Loop /\ UNCHANGED <<pos, held>>
               ELSE LET row == [i \in DOMAIN op.types |-> MsCell(MsFmt(i), snap[pos + 1][i])]
                    IN  /\ pos' = pos + 1
                        /\ UNCHANGED eof
                        /\ IF Readable(row) THEN held' = Append(held, row) /\ Loop
                           ELSE Stop("io") /\ UNCHANGED held

\* The batch is full or the result set is at its end; an empty batch is the
\* end of the stream.
MsGetNext ==
    /\ Ended("ms_read")
    /\ eof \/ Len(held) = op.batch_size
    /\ out' = out \o held
    /\ held' = <<>>
    /\ IF held = <<>> THEN Stop("ok") ELSE Loop
    /\ UNCHANGED <<pos, eof>>

-----------------------------------------------------------------------------
(* A lookup's cache: the match and select columns of the whole table, read *)
(* by one SELECT when the consumer first asks for the schema or a batch.   *)

UsedCols == [i \in DOMAIN op.match |-> op.match[i].col] \o op.select

LookupFmt == IF op.kind = "pg_lookup" THEN PgLookupFmt ELSE MsLookupFmt

IsInt(f) == f \in {"l", "i", "s", "C"}

\* An identifier with the closing quote of the dialect in it is refused.
Quotable == op.table_name \notin (IF op.kind = "pg_lookup" THEN {"dquote"} ELSE {"bracket"})

BuildSelectSql == [cols |-> UsedCols, from |-> op.table_name]

SelectRuns ==
    Connected /\ Quotable /\ BuildSelectSql.from = "t" /\ \A i \in DOMAIN BuildSelectSql.cols : BuildSelectSql.cols[i] \in DOMAIN op.types

TypesCached == \A i \in DOMAIN UsedCols : op.types[UsedCols[i]] \in DOMAIN LookupFmt

Cached(table) == [r \in DOMAIN table |-> [i \in DOMAIN UsedCols |-> table[r][UsedCols[i]]]]

NullAt(rows) == {a \in (DOMAIN rows) \X (DOMAIN UsedCols) : rows[a[1]][a[2]] = NULL}

Before(a, b) == a[1] < b[1] \/ (a[1] = b[1] /\ a[2] < b[2])

\* postgres.lookup allocates every slot and sets cache_rows before it looks
\* at the first row.
PgUnwritten(rows) ==
    LET first == CHOOSE a \in NullAt(rows) : \A b \in NullAt(rows) : a = b \/ Before(a, b)
    IN  {s \in (DOMAIN rows) \X (DOMAIN UsedCols) :
            ~ IsInt(LookupFmt[op.types[UsedCols[s[2]]]]) /\ ~ Before(s, first)}

\* What the input must look like: integers and text only, and each match
\* column of the very format of the column it is compared with.
InputFits ==
    /\ \A i \in DOMAIN op.fmts : op.fmts[i] = "u" \/ (IsInt(op.fmts[i]) /\ (op.fmts[i] = "C" => op.kind = "ms_lookup"))
    /\ \A i \in DOMAIN op.match :
          op.match[i].input \in DOMAIN op.fmts /\ op.fmts[op.match[i].input] = LookupFmt[op.types[op.match[i].col]]

\* One statement has one snapshot in PostgreSQL, and PQexec returns with all
\* of its rows.
PgLookupResolve ==
    /\ phase = "ready" /\ op.kind = "pg_lookup"
    /\ LET rows == Cached(Current)
       IN  \/ Stop("io") /\ UNCHANGED <<snap, junk>>
           \/ /\ SelectRuns /\ TypesCached
              /\ IF NullAt(rows) # {} THEN Stop("io") /\ junk' = PgUnwritten(rows) /\ UNCHANGED snap
                 ELSE /\ snap' = rows
                      /\ IF InputFits THEN phase' = "loop" /\ UNCHANGED rc ELSE Stop("io")
                      /\ UNCHANGED junk
    /\ UNCHANGED <<op, versions, scan, pos, held, eof, in, out, wild, cancel>>

MsLookupResolve ==
    /\ phase = "ready" /\ op.kind = "ms_lookup"
    /\ IF SelectRuns /\ TypesCached
       THEN phase' = "loading" /\ snap' = Current /\ scan' = Len(versions) /\ UNCHANGED rc
       ELSE Stop("io") /\ UNCHANGED <<snap, scan>>
    /\ UNCHANGED <<op, versions, pos, held, eof, in, out, junk, wild, cancel>>

\* One SQLFetch of the load.  Only a load that reaches the end of the result
\* set sets cache_rows: destroy frees no text of one that does not.
MsLookupFetch ==
    /\ phase = "loading" /\ op.kind = "ms_lookup"
    /\ \/ Stop("io") /\ UNCHANGED <<snap, pos>>
       \/ /\ pos < Len(snap)
          /\ pos' = pos + 1
          /\ IF NullAt(Cached(<<snap[pos + 1]>>)) # {} THEN Stop("io") ELSE Loop
          /\ UNCHANGED snap
       \/ /\ pos = Len(snap)
          /\ snap' = Cached(snap)
          /\ IF InputFits THEN phase' = "loop" /\ UNCHANGED rc ELSE Stop("io")
          /\ UNCHANGED pos
    /\ UNCHANGED <<op, versions, scan, held, eof, in, out, junk, wild, cancel>>

-----------------------------------------------------------------------------
(* A lookup's get_next: pull a batch, probe the cache for every row, give  *)
(* back the rows kept.  Cells are read past their validity: a null reads   *)
(* as 0 or the empty text, as a key and in the output.                     *)

RawCell(f, v) == IF v # NULL THEN v ELSE IF f = "u" THEN <<>> ELSE 0

RawRow(row) == [i \in DOMAIN row |-> RawCell(op.fmts[i], row[i])]

Hits(row, cache) ==
    {r \in DOMAIN cache : \A k \in DOMAIN op.match : cache[r][k] = row[op.match[k].input]}

\* Mutant: the first of several matches is taken.
LookupProbe_First(row, cache) ==
    LET hits == Hits(row, cache)
    IN  IF hits = {} THEN NULL ELSE CHOOSE r \in hits : \A s \in hits : r <= s

LookupProbe(row, cache) ==
    LET hits == Hits(row, cache)
    IN  IF hits = {} THEN NULL ELSE IF Cardinality(hits) > 1 THEN ERR ELSE CHOOSE r \in hits : TRUE

Refuses(hit) == hit = ERR \/ (hit = NULL /\ op.on_miss = "error")

Answer(row, hit, cache) ==
    row \o [i \in DOMAIN op.select |-> IF hit = NULL THEN NULL ELSE cache[hit][Len(op.match) + i]]

RawRows(batch) == [r \in DOMAIN batch |-> RawRow(batch[r])]

RefusesOne(rows, cache) == \E r \in DOMAIN rows : Refuses(LookupProbe(rows[r], cache))

LookupRows(rows, cache) ==
    LET kept == Kept(rows, {row \in ToSet(rows) : ~ (LookupProbe(row, cache) = NULL /\ op.on_miss = "drop")})
    IN  [i \in DOMAIN kept |-> Answer(kept[i], LookupProbe(kept[i], cache), cache)]

Batches == UNION {[1 .. n -> op.rows] : n \in 0 .. MaxBatch}

LookupGetNext(kind) ==
    /\ phase = "loop" /\ op.kind = kind
    /\ \/ Stop("io") /\ UNCHANGED <<in, out, eof>>
       \/ Stop("ok") /\ eof' = TRUE /\ UNCHANGED <<in, out>>
       \/ /\ Len(in) < MaxBatch * MaxBatches
          /\ \E batch \in Batches \ {<<>>} :
                /\ in' = in \o batch
                /\ IF RefusesOne(RawRows(batch), snap) THEN Stop("io") /\ UNCHANGED out
                   ELSE out' = out \o LookupRows(RawRows(batch), snap) /\ Loop
          /\ UNCHANGED eof
    /\ UNCHANGED <<op, versions, snap, scan, pos, held, junk, wild, cancel>>

PgLookupGetNext == LookupGetNext("pg_lookup")

MsLookupGetNext == LookupGetNext("ms_lookup")

-----------------------------------------------------------------------------
(* sql.execute: the whole text in one call, no cancellation.  PostgreSQL   *)
(* runs it as one transaction; SQL Server runs the statements one by one,  *)
(* and the call answers for the first of them only.                        *)

Works == [i \in DOMAIN op.script |-> op.script[i] = "works"]

All == [i \in DOMAIN op.script |-> i]

\* Mutant: each statement is sent and committed on its own.
RunPg_Stepwise ==
    \E n \in 0 .. Len(op.script) :
        /\ \A i \in 1 .. n : Works[i]
        /\ out' = SubSeq(All, 1, n)
        /\ rc' = IF n = Len(op.script) THEN "ok" ELSE "io"

\* The answer may be lost with the connection, before or after the commit.
RunPg ==
    \/ rc' = "io" /\ out' \in {<<>>, IF \A i \in DOMAIN Works : Works[i] THEN All ELSE <<>>}
    \/ (\A i \in DOMAIN Works : Works[i]) /\ rc' = "ok" /\ out' = All

RunMssql ==
    /\ \E n \in 1 .. Len(op.script) : out' = SelectSeq(SubSeq(All, 1, n), LAMBDA i : Works[i])
    /\ rc' \in {"io", IF Works[1] THEN "ok" ELSE "io"}

Execute ==
    /\ phase = "ready" /\ op.kind = "execute"
    /\ phase' = "stopped"
    /\ IF op.server \notin {"postgres", "mssql"} THEN rc' = "invalid" /\ UNCHANGED out
       ELSE IF ~ Connected THEN rc' = "auth" /\ UNCHANGED out
       ELSE IF op.server = "postgres" THEN RunPg ELSE RunMssql
    /\ UNCHANGED <<op, versions, snap, scan, pos, held, eof, in, junk, wild, cancel>>

-----------------------------------------------------------------------------
(* The end: a reader's cursor and transaction go with its connection, a    *)
(* lookup frees every slot of its cache.                                   *)

\* The consumer may stop pulling at any time.
Done == phase \in {"ready", "loading", "loop", "stopped"} /\ phase' = "gone"

PgReadDestroy ==
    /\ op.kind = "pg_read" /\ Done
    /\ UNCHANGED <<op, rc, versions, snap, scan, pos, held, eof, in, out, junk, wild, cancel>>

MsReadDestroy ==
    /\ op.kind = "ms_read" /\ Done
    /\ held' = <<>>
    /\ UNCHANGED <<op, rc, versions, snap, scan, pos, eof, in, out, junk, wild, cancel>>

LookupDestroy ==
    /\ op.kind \in {"pg_lookup", "ms_lookup"} /\ Done
    /\ snap' = NULL
    /\ wild' = (junk # {})
    /\ UNCHANGED <<op, rc, versions, scan, pos, held, eof, in, out, junk, cancel>>

ExecuteDestroy ==
    /\ op.kind = "execute" /\ Done
    /\ UNCHANGED <<op, rc, versions, snap, scan, pos, held, eof, in, out, junk, wild, cancel>>

\* SQL Server sends a result set while it scans the table, and under READ
\* COMMITTED, which nothing here changes, the scan holds no lock on what it
\* has passed or not yet reached: the rows to come are those of a table
\* committed meanwhile.
MsScan ==
    /\ \/ op.kind = "ms_read" /\ phase = "loop" /\ ~ eof
       \/ op.kind = "ms_lookup" /\ phase = "loading"
    /\ \E v \in scan + 1 .. Len(versions) :
          /\ snap' = SubSeq(snap, 1, pos) \o SubSeq(versions[v], pos + 1, Len(versions[v]))
          /\ scan' = v
    /\ UNCHANGED <<op, phase, rc, versions, pos, held, eof, in, out, junk, wild, cancel>>

\* Another session, or an earlier sink of the stage, commits a change.
Commit ==
    /\ Len(versions) < MaxVersions
    /\ \E t \in op.writes : versions' = Append(versions, t)
    /\ UNCHANGED <<op, phase, rc, snap, scan, pos, held, eof, in, out, junk, wild, cancel>>

Cancel ==
    /\ ~ cancel /\ phase = "loop"
    /\ cancel' = TRUE
    /\ UNCHANGED <<op, phase, rc, versions, snap, scan, pos, held, eof, in, out, junk, wild>>

Over == phase \in {"gone", "refused"} /\ UNCHANGED vars

Next ==
    \/ InitComponent \/ PgResolve \/ MsResolve \/ PgLookupResolve \/ MsLookupResolve \/ MsLookupFetch
    \/ PgGetNext \/ MsFetch \/ MsGetNext \/ PgLookupGetNext \/ MsLookupGetNext \/ Execute
    \/ PgReadDestroy \/ MsReadDestroy \/ LookupDestroy \/ ExecuteDestroy
    \/ MsScan \/ Commit \/ Cancel \/ Over

Spec == Init /\ [][Next]_vars

-----------------------------------------------------------------------------
(* Properties.                                                             *)

\* What the column's documentation promises of a stored value.
Promised(t, v) == IF v # NULL /\ t = "datetime2" THEN v \div 10 ELSE v

\* What a scan by SQL Server may return: row i from the version it has got to
\* by then, at[i], never an earlier one than before, and no row more than the
\* version has that it ends in.
IsScan(at, n) ==
    /\ at \in [1 .. n + 1 -> DOMAIN versions]
    /\ \A i, j \in 1 .. n + 1 : i <= j => at[i] <= at[j]
    /\ \A i \in 1 .. n : i <= Len(versions[at[i]])
    /\ Len(versions[at[n + 1]]) <= n

Scanned(at, n) == [i \in 1 .. n |-> versions[at[i]][i]]

Scans ==
    LET lengths == UNION {0 .. Len(t) : t \in ToSet(versions)}
    IN  UNION {{Scanned(at, n) : at \in {a \in [1 .. n + 1 -> DOMAIN versions] : IsScan(a, n)}} : n \in lengths}

\* What one query may see: on PostgreSQL one committed version.
Views == IF op.kind \in {"pg_read", "pg_lookup"} THEN ToSet(versions) ELSE Scans

\* A reader delivers the rows its one query sees, in their order and without a
\* gap, each value whole; and it ends its stream without an error only when
\* the last of them was delivered.
ReadsOneView ==
    (Reads /\ (out # <<>> \/ (eof /\ phase = "stopped"))) =>
        \E v \in Views :
            LET rows == [r \in DOMAIN v |-> [i \in DOMAIN op.types |-> Promised(op.types[i], v[r][i])]]
            IN  /\ IsPrefix(out, rows)
                /\ (phase = "stopped" /\ rc = "ok") => out = rows

\* The rows of view v that a row's keys select, the row with what it is given
\* from there, and the rows that are given something.
Candidates(v, row) ==
    {r \in DOMAIN v : \A k \in DOMAIN op.match : v[r][op.match[k].col] = row[op.match[k].input]}

Given(v, row) ==
    row \o [i \in DOMAIN op.select |->
              IF Candidates(v, row) = {} THEN NULL
              ELSE v[CHOOSE r \in Candidates(v, row) : TRUE][op.select[i]]]

Stays(v, rows) == Kept(rows, {row \in ToSet(rows) : op.on_miss # "drop" \/ Candidates(v, row) # {}})

\* Every row a lookup delivers, in whatever batch, is its input row with the
\* one row that its keys select in the one view its query had of the table; a
\* row with two candidates is never delivered, and a row without one is
\* dropped, given nulls or refused as `on_miss' says.
LooksUpOneView ==
    (op.kind \in {"pg_lookup", "ms_lookup"} /\ out # <<>>) =>
        \E v \in Views, n \in 0 .. Len(in) :
            LET rows == SubSeq(RawRows(in), 1, n)
                kept == Stays(v, rows)
            IN  /\ \A row \in ToSet(rows) : Cardinality(Candidates(v, row)) <= 1
                /\ op.on_miss = "error" => \A row \in ToSet(rows) : Candidates(v, row) # {}
                /\ out = [i \in DOMAIN kept |-> Given(v, kept[i])]
                /\ rc = "ok" => n = Len(in)

\* sql.execute on PostgreSQL applies its whole script or none of it, and
\* success means all of it.
ScriptIsAtomic ==
    (op.kind = "execute" /\ op.script # NULL /\ op.server # "mssql") =>
        out \in {<<>>, All} /\ ((phase = "stopped" /\ rc = "ok") => out = All)
=============================================================================
