----------------------------- MODULE MCDbSource -----------------------------
(* Small configurations of the components that read a database: tables of  *)
(* up to three rows with nulls, repeated keys, long texts and values that  *)
(* do not parse, replaced by another session at any time.                  *)
EXTENDS DbSource

Cfg(k) ==
    [kind |-> k, connection |-> "ok", query |-> "ok", types |-> <<"int8", "text">>, numeric |-> NULL,
     batch_size |-> 2, table_name |-> "t", match |-> <<[input |-> 1, col |-> 1]>>, select |-> <<2>>,
     on_miss |-> "null", fmts |-> <<"l">>, rows |-> {<<1>>, <<2>>, <<0>>, <<NULL>>}, script |-> <<"works">>,
     server |-> "postgres", table |-> <<<<1, <<"a">>>>, <<2, <<"b">>>>, <<0, <<>>>>>>,
     writes |-> {<<<<1, <<"b">>>>>>, <<<<1, <<"a">>>>, <<1, <<"b">>>>>>}]

Ms(k) == [Cfg(k) EXCEPT !.types = <<"bigint", "varchar">>]

Nulls == <<<<NULL, <<"a", "b", "c", "d">>>>, <<3, NULL>>, <<4, <<"a", "b">>>>>>

Readers ==
    {[Cfg("pg_read") EXCEPT !.batch_size = n] : n \in 1 .. 2}
    \cup {[Ms("ms_read") EXCEPT !.batch_size = n, !.table = Nulls] : n \in 1 .. 2}
    \cup {[Ms("ms_read") EXCEPT !.types = <<"datetime2", "varbinary">>,
             !.table = <<<<19, <<"a", "b", "c">>>>, <<20, <<"a", "b", "c", "d">>>>>>, !.writes = {}],
          [Cfg("pg_read") EXCEPT !.types = <<"numeric", "text">>, !.numeric = <<4, 2>>, !.table = Nulls],
          [Cfg("pg_read") EXCEPT !.types = <<"date", "text">>, !.table = <<<<1, <<>>>>, <<2, <<>>>>, <<BAD, <<>>>>>>],
          [Ms("ms_read") EXCEPT !.types = <<"datetimeoffset", "varchar">>, !.table = <<<<1, <<>>>>, <<BAD, <<>>>>>>]}

Lookups ==
    {[Cfg("pg_lookup") EXCEPT !.on_miss = m] : m \in {"error", "null", "drop"}}
    \cup {[Ms("ms_lookup") EXCEPT !.on_miss = m, !.rows = {<<1>>, <<0>>, <<NULL>>}] : m \in {"error", "null", "drop"}}
    \cup {[Ms("ms_lookup") EXCEPT !.table = Nulls],
          [Cfg("pg_lookup") EXCEPT !.types = <<"int8", "int8">>, !.table = <<<<1, 1>>, <<2, NULL>>>>, !.writes = {}],
          [Cfg("pg_lookup") EXCEPT !.match = <<[input |-> 1, col |-> 1], [input |-> 2, col |-> 2]>>,
             !.fmts = <<"l", "u">>, !.rows = {<<1, <<"a">>>>, <<1, <<"b">>>>, <<NULL, NULL>>}]}

Refused ==
    {[Cfg("pg_read") EXCEPT !.connection = "down"], [Ms("ms_read") EXCEPT !.query = "bad"],
     [Cfg("pg_read") EXCEPT !.types = <<"numeric", "text">>], [Ms("ms_read") EXCEPT !.types = <<"bigint", "xml">>],
     [Cfg("pg_lookup") EXCEPT !.on_miss = "skip"], [Ms("ms_lookup") EXCEPT !.match = <<>>],
     [Cfg("pg_lookup") EXCEPT !.fmts = <<"i">>], [Ms("ms_lookup") EXCEPT !.table_name = "bracket"],
     [Ms("ms_lookup") EXCEPT !.select = <<3>>]}

Scripts ==
    {[Cfg("execute") EXCEPT !.server = s, !.script = t] :
        s \in {"postgres", "mssql"}, t \in {<<"works", "fails", "works">>, <<"works", "works">>, <<"fails", "works">>}}
    \cup {[Cfg("execute") EXCEPT !.server = "sqlite"], [Cfg("execute") EXCEPT !.connection = "down"],
          [Cfg("execute") EXCEPT !.script = NULL]}

\* A table with a null in a text column, cached by postgres.lookup.
NullTables == {[Cfg("pg_lookup") EXCEPT !.table = Nulls, !.on_miss = m] : m \in {"error", "null", "drop"}}

MCOps == Readers \cup Lookups \cup NullTables \cup Refused \cup Scripts
=============================================================================
