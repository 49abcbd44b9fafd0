----------------------------- MODULE MCLocalIO ------------------------------
(***************************************************************************)
(* A small instance of LocalIO: timeouts of zero to three ticks and texts  *)
(* that are refused; a file of three units read two at a time; texts of up *)
(* to five characters in chunks of four bytes and blocks of six; tables of *)
(* up to two rows and two columns.                                         *)
(***************************************************************************)
EXTENDS LocalIO

Raw(number, unit) == [number |-> number, unit |-> unit]
MCRawTimeouts ==
  {Raw(0, "absent"), Raw(0, "s"), Raw(1, "s"), Raw(2, ""), Raw(1, "m"), Raw(2, "m"),
   Raw(1, "h"), Raw(-1, "s")}
MCBody == <<"a", "b", "c">>
MCOld == <<"z">>

\* "e" is one byte in the other encoding and two in UTF-8, "t" one and three, "k"
\* two and three; "u" is only in UTF-8.
MCForeign == [k \in Kinds |-> IF k = "k" THEN 2 ELSE 1]
MCUtf8 ==
  [k \in Kinds |-> CASE k \in {"e", "u"} -> 2 [] k \in {"t", "k"} -> 3 [] k \in {"a", BAD} -> 1]
MCTexts == UNION {[1 .. n -> Kinds] : n \in 0 .. 5}

MCReaders == {[batch |-> 1, expects |-> TRUE], [batch |-> 2, expects |-> FALSE]}
TextCells == {NULL, << >>, <<"x">>, <<Q>>, <<",">>, <<"-", LF>>, <<CR, LF>>, <<"x", Q>>,
              <<"x", NUL, "x">>}
FewTexts == {NULL, <<"x", Q>>, <<"-", CR>>}
Numbers == {NULL, <<"1">>}
Wholes == {NULL, <<"-", BIG>>, <<BIG>>}
Reals == {NULL, <<"1">>, <<NAN>>}
Dates == {NULL, <<"1", "-", "1">>}
TablesOf(columns, cells, max) ==
  {[types |-> columns, rows |-> r] : r \in UNION {[1 .. n -> cells] : n \in 0 .. max}}
MCTables ==
  TablesOf(<<"text">>, {<<c>> : c \in TextCells}, 2) \cup TablesOf(<<"number">>, {<<c>> : c \in Numbers}, 2)
  \cup TablesOf(<<"text", "text">>, TextCells \X TextCells, 1)
  \cup TablesOf(<<"text", "number">>, FewTexts \X Numbers, 2)
  \cup TablesOf(<<"number", "real">>, Wholes \X Reals, 2)
  \cup TablesOf(<<"number", "date">>, Numbers \X Dates, 2)
FewTables == TablesOf(<<"text">>, {<<c>> : c \in TextCells}, 1)
=============================================================================
