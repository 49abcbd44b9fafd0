------------------------------- MODULE DbSql -------------------------------
(***************************************************************************)
(* The statements betl's database writers build (pg_sql.c, mssql_sql.c,    *)
(* postgres_copy.c) and what the server makes of them.  A statement is a   *)
(* record, not text: the columns it writes, the key it resolves conflicts  *)
(* on and what it does with a row that is there already.  A table is a     *)
(* sequence of rows [c, w]: the cells, one per table column, and how often *)
(* the row was written.                                                    *)
(***************************************************************************)
EXTENDS Selection, Integers, SequencesExt, FiniteSets

CONSTANTS NULL,     \* the null cell, and an absent setting
          ERR       \* a refused configuration, statement or row

\* A setting that is absent is none of those there are.
ASSUME NullAssumption == NULL \notin {"update", "update_if_changed", "ignore", "error"}

-----------------------------------------------------------------------------
(* Building statements.  A name is refused when it holds the server's own  *)
(* quote character; a table name is split at its first dot, so what comes  *)
(* after is one name even if it has a dot too.                             *)

IdentOk(name, quote) == name # quote

SplitTable(parts) == IF Len(parts) = 1 THEN parts ELSE <<Head(parts), Tail(parts)>>

TableExists(parts) == Len(SplitTable(parts)) = 1 \/ Len(SplitTable(parts)[2]) = 1

ParseOnConflict(s) ==
    CASE s = NULL -> "update"
      [] s \in {"update", "update_if_changed", "ignore", "error"} -> s
      [] OTHER -> ERR

IsKey(c, keys) == c \in ToSet(keys)

PlainInsert(cols) == [do |-> "error", cols |-> cols, keys |-> <<>>, set |-> {}, guarded |-> FALSE]

\* Every key must be a written column; with nothing but keys to write, an
\* update becomes "do nothing".
BuildSql(quote, parts, cols, keys, mode, guarded) ==
    LET set == {c \in ToSet(cols) : ~ IsKey(c, keys)}
    IN  IF \/ \E i \in DOMAIN keys : ~ IsKey(keys[i], cols)
           \/ \E i \in DOMAIN parts : ~ IdentOk(parts[i], quote)
        THEN ERR
        ELSE IF mode = "error" THEN PlainInsert(cols)
        ELSE [do |-> IF mode = "ignore" \/ set = {} THEN "nothing" ELSE "update",
              cols |-> cols, keys |-> keys, set |-> set, guarded |-> guarded]

\* update_if_changed only touches rows that differ.
BuildUpsertSql(parts, cols, keys, mode) ==
    BuildSql("dquote", parts, cols, keys, mode, mode = "update_if_changed")

BuildMergeSql(parts, cols, keys, mode) ==
    BuildSql("bracket", parts, cols, keys, mode, mode = "update_if_changed")

BuildInsertSql(quote, parts, cols) == BuildSql(quote, parts, cols, <<>>, "error", FALSE)

\* COPY doubles quotes instead of refusing them.
BuildCopySql(cols) == PlainInsert(cols)

-----------------------------------------------------------------------------
(* The server (external).  `new' gives a cell to every table column.       *)

Same(a, b, cols) == \A c \in cols : a[c] # NULL /\ a[c] = b[c]

Written(old, new, set) ==
    [c |-> [i \in DOMAIN old.c |-> IF i \in set THEN new[i] ELSE old.c[i]], w |-> old.w + 1]

Touch(stmt, old, new) ==
    IF stmt.guarded /\ \A c \in stmt.set : old.c[c] = new[c] THEN old
    ELSE Written(old, new, stmt.set)

\* PostgreSQL: nulls never conflict; ON CONFLICT needs the unique key.
PgExecute(table, uniq, stmt, new) ==
    LET hits == {i \in DOMAIN table : uniq # {} /\ Same(new, table[i].c, uniq)}
    IN  IF stmt.do # "error" /\ ToSet(stmt.keys) # uniq THEN ERR
        ELSE IF hits = {} THEN Append(table, [c |-> new, w |-> 1])
        ELSE CASE stmt.do = "error" -> ERR
               [] stmt.do = "nothing" -> table
               [] stmt.do = "update" ->
                    [i \in DOMAIN table |-> IF i \in hits THEN Touch(stmt, table[i], new) ELSE table[i]]

\* SQL Server: a unique index takes one null; MERGE matches with `='.
Unique(table, uniq) ==
    uniq = {} \/ \A i, j \in DOMAIN table : i # j => \E c \in uniq : table[i].c[c] # table[j].c[c]

MsExecute(table, uniq, stmt, new) ==
    LET hits == {i \in DOMAIN table : stmt.do # "error" /\ Same(new, table[i].c, ToSet(stmt.keys))}
        then == IF hits = {} THEN Append(table, [c |-> new, w |-> 1])
                ELSE IF stmt.do = "nothing" THEN table
                ELSE [i \in DOMAIN table |-> IF i \in hits THEN Touch(stmt, table[i], new) ELSE table[i]]
    IN  IF Unique(then, uniq) THEN then ELSE ERR

\* Rows sent in one go; the first that fails fails them all.
ExecuteAll(Execute(_, _, _, _), table, uniq, stmt, rows) ==
    LET after[n \in 0 .. Len(rows)] ==
            IF n = 0 THEN table
            ELSE IF after[n - 1] = ERR THEN ERR ELSE Execute(after[n - 1], uniq, stmt, rows[n])
    IN  after[Len(rows)]

-----------------------------------------------------------------------------
(* What the writers promise: the content of a table with unique key `keys' *)
(* after `rows' (cells of all table columns, the unwritten ones null) were *)
(* written in order to the table with rows `old'.                          *)

KeyOf(row, keys) == [i \in DOMAIN keys |-> row[keys[i]]]

KeyedBy(rows, keys, k) == Kept(rows, {r \in ToSet(rows) : KeyOf(r, keys) = k})

Keys(rows, keys) ==
    {k \in {KeyOf(rows[i], keys) : i \in DOMAIN rows} : NULL \notin ToSet(k)}

Promised(old, rows, cols, keys, mode, k) ==
    LET was == KeyedBy(old, keys, k)
        new == KeyedBy(rows, keys, k)
    IN  IF new = <<>> THEN was[1]
        ELSE IF was = <<>>
             THEN IF mode = "ignore" THEN new[1] ELSE Last(new)
             ELSE IF mode = "ignore" THEN was[1]
                  ELSE [c \in DOMAIN was[1] |-> IF c \in ToSet(cols) THEN Last(new)[c] ELSE was[1][c]]

=============================================================================
