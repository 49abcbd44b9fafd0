------------------------------ MODULE MCDbSink ------------------------------
(* Small configurations of every writer: a table of two or three columns,  *)
(* a row that is there already, inputs that repeat keys, hold nulls and    *)
(* long values, and configurations that are refused.                       *)
EXTENDS DbSink

LU == <<"l", "u">>

Cfg(k) ==
    [kind |-> k, connection |-> "ok", table |-> <<"s", "t">>, key |-> <<1>>, mode |-> NULL,
     columns |-> NULL, fmts |-> LU, width |-> 2, uniq |-> {1}, old |-> <<<<1, 1>>>>,
     rows |-> {<<1, 1>>, <<1, 2>>, <<2, 0>>, <<NULL, 1>>}, batch_size |-> 2, truncate |-> FALSE]

Upserts ==
    {[Cfg(k) EXCEPT !.mode = m] : k \in {"pg_upsert", "ms_upsert"},
        m \in {NULL, "update_if_changed", "ignore", "error", "replace"}}
    \cup {[Cfg(k) EXCEPT !.columns = <<1>>] : k \in {"pg_upsert", "ms_upsert"}}
    \cup {[Cfg(k) EXCEPT !.width = 3, !.old = <<<<1, 1, 1>>>>, !.columns = <<2, 1>>] :
            k \in {"pg_upsert", "ms_upsert"}}

Refused ==
    {[Cfg("pg_upsert") EXCEPT !.table = <<"dquote">>], [Cfg("ms_upsert") EXCEPT !.columns = <<2>>],
     [Cfg("ms_upsert") EXCEPT !.table = <<"bracket">>],
     [Cfg("ms_bulk") EXCEPT !.table = <<"d", "s", "t">>], [Cfg("pg_exec") EXCEPT !.fmts = <<"l", "z">>],
     [Cfg("ms_bcp") EXCEPT !.batch_size = 0],
     [Cfg("ms_bcp") EXCEPT !.connection = "down"], [Cfg("ms_bulk") EXCEPT !.connection = "down"], [Cfg("pg_copy") EXCEPT !.columns = <<3>>],
     [Cfg("ms_exec") EXCEPT !.connection = NULL]}

Inserts ==
    {[Cfg(k) EXCEPT !.uniq = u, !.rows = {<<2, 0>>, <<3, 2>>, <<NULL, 1>>}] :
        k \in {"pg_copy", "ms_bulk", "ms_bcp", "pg_exec", "ms_exec"}, u \in {{}, {1}}}
    \cup {[Cfg("pg_copy") EXCEPT !.truncate = TRUE],
          [Cfg("pg_copy") EXCEPT !.columns = <<2, 1>>, !.uniq = {}],
          [Cfg("pg_exec") EXCEPT !.columns = <<>>, !.uniq = {}]}

MCOps == Upserts \cup Refused \cup Inserts
=============================================================================
