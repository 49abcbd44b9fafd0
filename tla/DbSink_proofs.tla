---------------------------- MODULE DbSink_proofs ----------------------------
(***************************************************************************)
(* What other sessions see of a database writer, for every configuration,  *)
(* table, input and order of failures and cancel requests.                 *)
(***************************************************************************)
EXTENDS DbSink, DataLemmas

------------------------------------------------------------------------------
(* The inductive invariant                                                  *)

\* Nothing has failed and the input goes on.
RunningInv ==
  phase \in {"new", "ready", "refused", "loop", "rows", "given"} => rc = "ok" /\ end = "open"

(* A sink that comes to its end without an error has read its input to the  *)
(* end, and so has an exec that will commit; one whose run was refused has  *)
(* read nothing.                                                            *)
EndingInv ==
  /\ phase = "finish" => op.kind \notin Exec /\ (rc = "ok" => end = "eof")
  /\ phase = "stopped" /\ end = "eof" => rc = "ok"
  /\ phase = "done" /\ op.kind \in Exec => end = "open"

(* Until a commit there is nothing to be seen.                              *)
HiddenInv ==
  op.kind # "ms_bcp" =>
    /\ phase \in {"new", "ready", "refused", "loop", "rows", "given", "finish", "stopped"} => ~Stored
    /\ phase = "done" /\ op.kind \in Exec => ~Stored

Phases == {"new", "ready", "refused", "loop", "rows", "given", "finish", "stopped", "done", "gone"}

IInv == phase \in Phases /\ RunningInv /\ EndingInv /\ HiddenInv /\ AllOrNothing

------------------------------------------------------------------------------
(* The steps                                                                *)

(* A step that fails or goes on, and shows nothing.                         *)
Shows == op.kind # "ms_bcp" => db' = db

\* A run goes on, is refused, or fails on its way.
GoesOn == phase' \in {"new", "ready", "refused", "loop", "rows", "given"} /\ UNCHANGED <<rc, end>>
IsRefused == phase' = "done" /\ rc' # "ok" /\ UNCHANGED end
Fails == rc' # "ok" /\ phase' = (IF op.kind \in Exec THEN "stopped" ELSE "finish")
EndsInput == end' = "eof" /\ UNCHANGED rc /\ phase' = (IF op.kind \in Exec THEN "stopped" ELSE "finish")

LEMMA RunKeeps ==
  ASSUME IInv, op' = op, phase \in {"new", "ready", "loop", "rows", "given"}, Shows,
         \/ GoesOn \/ IsRefused \/ (Fails /\ end' \in {"open", "fail"}) \/ EndsInput
  PROVE  IInv'
<1>1. rc = "ok" /\ end = "open" /\ (op.kind # "ms_bcp" => ~Stored) BY DEF IInv, RunningInv, HiddenInv
<1>2. op.kind # "ms_bcp" => ~Stored' BY <1>1 DEF Shows, Stored
<1>3. CASE GoesOn
  BY <1>1, <1>2, <1>3
  DEF GoesOn, IInv, Phases, RunningInv, EndingInv, HiddenInv, AllOrNothing
<1>4. CASE IsRefused
  BY <1>1, <1>2, <1>4
  DEF IsRefused, IInv, Phases, RunningInv, EndingInv, HiddenInv, AllOrNothing
<1>5. CASE Fails /\ end' \in {"open", "fail"}
  BY <1>1, <1>2, <1>5
  DEF Fails, IInv, Phases, RunningInv, EndingInv, HiddenInv, AllOrNothing
<1>6. CASE EndsInput
  BY <1>1, <1>2, <1>6
  DEF EndsInput, IInv, Phases, RunningInv, EndingInv, HiddenInv, AllOrNothing
<1> QED BY <1>3, <1>4, <1>5, <1>6

LEMMA StartKeeps ==
  ASSUME IInv, StartPgUpsert \/ StartCopy \/ StartMsUpsert \/ StartBulk \/ StartBcp
               \/ StartPgExec \/ StartMsExec
  PROVE  IInv'
<1>1. phase = "ready" /\ op' = op /\ db' = db /\ end' = end
  BY DEF StartPgUpsert, StartCopy, StartMsUpsert, StartBulk, StartBcp, StartPgExec, StartMsExec,
         Starting
<1>2. \/ \E why \in {"type", "invalid", "io", "auth"} : Refuse(why)
      \/ \E s, t : Begin(s, t)
  BY DEF StartPgUpsert, StartCopy, StartMsUpsert, StartBulk, StartBcp, StartPgExec, StartMsExec
<1>3. IsRefused \/ GoesOn \/ Fails
  BY <1>1, <1>2 DEF Refuse, Begin, Fail, IsRefused, GoesOn, Fails
<1>4. end = "open" BY <1>1 DEF IInv, RunningInv
<1> QED BY <1>1, <1>3, <1>4, RunKeeps DEF Shows

LEMMA PullKeeps == IInv /\ (Pull \/ ExecPull) => IInv'
<1> SUFFICES ASSUME IInv, Pull \/ ExecPull PROVE IInv' OBVIOUS
<1>1. phase = "loop" /\ op' = op /\ db' = db BY DEF Pull, ExecPull
<1>2. end = "open" BY <1>1 DEF IInv, RunningInv
<1>3. \/ GoesOn \/ (Fails /\ end' \in {"open", "fail"}) \/ EndsInput
  <2>1. CASE Pull
    BY <1>2, <2>1 DEF Pull, Delivers, InputFails, Fail, GoesOn, Fails, EndsInput
  <2>2. CASE ExecPull
    BY <1>2, <2>2 DEF ExecPull, Delivers, InputFails, Fail, GoesOn, Fails, EndsInput
  <2> QED BY <2>1, <2>2
<1> QED BY <1>1, <1>3, RunKeeps DEF Shows

(* A row that is written, or held, or fails: in the transaction, or (bcp)   *)
(* in the table.                                                            *)
LEMMA InTxnRuns ==
  ASSUME NEW work, InTxn(work), end = "open", UNCHANGED end, rc = "ok"
  PROVE  db' = db /\ (GoesOn \/ (Fails /\ end' \in {"open", "fail"}))
BY DEF InTxn, RowFails, RowDone, Fail, Fails, GoesOn

LEMMA RowKeeps ==
  ASSUME IInv, PgUpsertRow \/ CopyRow \/ MsUpsertRow \/ BulkRow \/ BcpRow \/ PgExecRow \/ MsExecRow
  PROVE  IInv'
<1>1. phase = "rows" /\ op' = op /\ end' = end
  BY DEF PgUpsertRow, CopyRow, MsUpsertRow, BulkRow, BcpRow, PgExecRow, MsExecRow, Writing
<1>2. end = "open" /\ rc = "ok" BY <1>1 DEF IInv, RunningInv
<1>3. CASE PgUpsertRow
  <2>1. \E work : InTxn(work) BY <1>3 DEF PgUpsertRow
  <2> QED BY <1>1, <1>2, <2>1, InTxnRuns, RunKeeps DEF Shows
<1>4. CASE CopyRow
  <2>1. (GoesOn \/ Fails) /\ db' = db
    BY <1>1, <1>4 DEF CopyRow, RowDone, RowFails, Fail, GoesOn, Fails
  <2> QED BY <1>1, <1>2, <2>1, RunKeeps DEF Shows
<1>5. CASE MsUpsertRow
  <2>1. \E work : InTxn(work) BY <1>5 DEF MsUpsertRow
  <2> QED BY <1>1, <1>2, <2>1, InTxnRuns, RunKeeps DEF Shows
<1>6. CASE BulkRow
  <2>1. \/ \E work : InTxn(work)
        \/ \E held : RowFails("invalid", held)
        \/ \E group : RowDone(group) /\ UNCHANGED <<db, txn>>
    BY <1>6 DEF BulkRow
  <2>2. CASE \E work : InTxn(work)
    BY <1>1, <1>2, <2>2, InTxnRuns, RunKeeps DEF Shows
  <2>3. CASE ~ \E work : InTxn(work)
    <3>1. db' = db /\ (GoesOn \/ Fails)
      BY <1>1, <2>1, <2>3 DEF RowFails, RowDone, Fail, Fails, GoesOn
    <3> QED BY <1>1, <1>2, <3>1, RunKeeps DEF Shows
  <2> QED BY <2>2, <2>3
<1>7. CASE BcpRow
  <2>1. op.kind = "ms_bcp" BY <1>7 DEF BcpRow, Writing
  <2>2. (\E group : RowDone(group)) \/ Fail("io") BY <1>7 DEF BcpRow, BcpBatch, RowFails
  <2>3. GoesOn \/ Fails BY <1>1, <2>2 DEF RowDone, Fail, Fails, GoesOn
  <2> QED BY <1>1, <1>2, <2>1, <2>3, RunKeeps DEF Shows
<1>8. CASE PgExecRow
  <2>1. RowFails("cancelled", <<>>) \/ \E work : InTxn(work) BY <1>8 DEF PgExecRow
  <2>2. db' = db /\ (GoesOn \/ Fails)
    BY <1>1, <1>2, <2>1, InTxnRuns DEF RowFails, Fail, Fails
  <2> QED BY <1>1, <1>2, <2>2, RunKeeps DEF Shows
<1>9. CASE MsExecRow
  <2>1. RowFails("cancelled", <<>>) \/ \E work : InTxn(work) BY <1>9 DEF MsExecRow
  <2>2. db' = db /\ (GoesOn \/ Fails)
    BY <1>1, <1>2, <2>1, InTxnRuns DEF RowFails, Fail, Fails
  <2> QED BY <1>1, <1>2, <2>2, RunKeeps DEF Shows
<1> QED BY <1>3, <1>4, <1>5, <1>6, <1>7, <1>8, <1>9

(* The end of a sink's run: a commit only when all went well.               *)
LEMMA EndTranCommits ==
  ASSUME NEW work, EndTran(work)
  PROVE  phase' = "done" /\ (db' = db \/ (rc = "ok" /\ rc' \in {"ok", "io"}))
BY DEF EndTran, Ended

LEMMA FinishKeeps ==
  ASSUME IInv, FinishPgUpsert \/ FinishCopy \/ FinishMsUpsert \/ FinishBulk \/ FinishBcp
  PROVE  IInv'
<1>1. phase = "finish" /\ op' = op /\ end' = end
  BY DEF FinishPgUpsert, FinishCopy, FinishMsUpsert, FinishBulk, FinishBcp, Ending
<1>2. op.kind \notin Exec /\ (rc = "ok" => end = "eof") /\ (op.kind # "ms_bcp" => ~Stored)
  BY <1>1 DEF IInv, EndingInv, HiddenInv
<1>3. phase' = "done" BY DEF FinishPgUpsert, FinishCopy, FinishMsUpsert, FinishBulk, FinishBcp,
                             EndTran, Ended
<1>4. op.kind # "ms_bcp" => db' = db \/ (rc = "ok" /\ rc' \in {"ok", "io"})
  <2>1. CASE FinishBcp BY <2>1 DEF FinishBcp, Ending
  <2>2. CASE ~FinishBcp
    <3>1. \E work : EndTran(work)
      BY <2>2 DEF FinishPgUpsert, FinishCopy, FinishMsUpsert, FinishBulk
    <3> QED BY <3>1, EndTranCommits
  <2> QED BY <2>1, <2>2
<1>5. op.kind # "ms_bcp" => ~Stored' \/ (rc' \in {"ok", "io"} /\ end' = "eof")
  BY <1>1, <1>2, <1>4 DEF Stored
<1> QED
  BY <1>1, <1>2, <1>3, <1>5
  DEF IInv, Phases, RunningInv, EndingInv, HiddenInv, AllOrNothing

(* An exec's transaction ends in destroy.                                   *)
LEMMA DestroyKeeps ==
  ASSUME IInv, Destroy \/ PgExecDestroy \/ MsExecDestroy
  PROVE  IInv'
<1>1. /\ phase \in {"ready", "done", "stopped"} /\ phase' = "gone"
      /\ op' = op /\ rc' = rc /\ end' = end
  BY DEF Destroy, PgExecDestroy, MsExecDestroy, Destroying
<1>2. \/ db' = db
      \/ op.kind \in Exec /\ end = "eof"
  BY DEF Destroy, PgExecDestroy, MsExecDestroy, Exec
<1>3. op.kind # "ms_bcp" /\ Stored' =>
        end = "eof" /\ IF op.kind \in Exec THEN rc = "ok" ELSE rc \in {"ok", "io"}
  <2> SUFFICES ASSUME op.kind # "ms_bcp", Stored'
               PROVE  end = "eof" /\ IF op.kind \in Exec THEN rc = "ok" ELSE rc \in {"ok", "io"}
    OBVIOUS
  <2>1. CASE db' = db
    <3>1. Stored BY <1>1, <2>1 DEF Stored
    <3> QED BY <3>1 DEF IInv, AllOrNothing
  <2>2. CASE op.kind \in Exec /\ end = "eof"
    <3>1. phase = "stopped" BY <1>1, <2>2 DEF IInv, RunningInv, EndingInv
    <3> QED BY <2>2, <3>1 DEF IInv, EndingInv
  <2> QED BY <1>2, <2>1, <2>2
<1> QED
  BY <1>1, <1>3 DEF IInv, Phases, RunningInv, EndingInv, HiddenInv, AllOrNothing

LEMMA Inductive == Spec => []IInv
<1>1. Init => IInv
  BY DEF Init, IInv, Phases, RunningInv, EndingInv, HiddenInv, AllOrNothing, Stored
<1>2. IInv /\ [Next]_vars => IInv'
  <2> SUFFICES ASSUME IInv, [Next]_vars PROVE IInv' OBVIOUS
  <2>1. CASE InitWriter
    <3>1. GoesOn /\ phase = "new" /\ op' = op /\ db' = db BY <2>1 DEF InitWriter, GoesOn
    <3> QED BY <3>1, RunKeeps DEF Shows
  <2>2. CASE Forward
    <3>1. phase = "given" /\ op' = op /\ db' = db /\ UNCHANGED <<rc, end>>
          /\ phase' \in {"loop", "stopped"}
      BY <2>2 DEF Forward
    <3>2. rc = "ok" /\ end = "open" /\ (op.kind # "ms_bcp" => ~Stored')
      BY <3>1 DEF IInv, RunningInv, HiddenInv, Stored
    <3> QED
      BY <3>1, <3>2 DEF IInv, Phases, RunningInv, EndingInv, HiddenInv, AllOrNothing
  <2>3. CASE Cancel \/ Over \/ UNCHANGED vars
    <3>1. UNCHANGED <<op, phase, rc, db, end>> BY <2>3 DEF Cancel, Over, vars
    <3> QED
      BY <3>1 DEF IInv, Phases, RunningInv, EndingInv, HiddenInv, AllOrNothing, Stored
  <2> QED
    BY <2>1, <2>2, <2>3, StartKeeps, PullKeeps, RowKeeps, FinishKeeps, DestroyKeeps DEF Next
<1> QED BY <1>1, <1>2, PTL DEF Spec

(* Nothing of a writer is seen until its last row is in, and nothing at all *)
(* of one that failed or was cancelled on its way, was never run or was not *)
(* read to the end: what is seen was committed at the end of the input, and *)
(* the run failed, if it did, in its COMMIT alone (pg_commit, SQLEndTran,   *)
(* the execs' destroy).                                                     *)
THEOREM WritersAreAtomic == Spec => []AllOrNothing
<1>1. IInv => AllOrNothing BY DEF IInv
<1> QED BY <1>1, Inductive, PTL
------------------------------------------------------------------------------
(* What bcp leaves in the table                                             *)

(* bcp binds its columns by position, and integers as signed: what it       *)
(* promises, it promises of columns given in the table's order and of       *)
(* values in the signed range.                                              *)
BoundAsNamed ==
  \A o \in Ops :
    o.kind = "ms_bcp" =>
      /\ o.columns # NULL => \A i \in DOMAIN o.columns : o.columns[i] = i
      /\ \A row \in o.rows :
           \A i \in DOMAIN (IF o.columns = NULL \/ o.columns = << >> THEN o.fmts ELSE o.columns) :
             row[i] # WIDE

\* The table's row for each row there may be in the input.
Image == [row \in op.rows |-> Wanted(row)]
Images == {Image[row] : row \in op.rows}
Recs == {[c |-> x, w |-> 1] : x \in ToSet(op.old) \cup Images}

\* Rows of the input that are committed.
Sent == Len(db) - Len(op.old)

TableInv ==
  /\ db \in Seq(Recs) /\ Sent \in Nat /\ Sent + Len(pend) <= Len(in)
  /\ \A i \in 1 .. Len(op.old) : db[i].c = op.old[i]
  /\ \A i \in 1 .. Sent : db[Len(op.old) + i].c = Image[in[i]]

(* The rows held are the next ones, and the rows of the batch come after    *)
(* them; only whole groups have been committed.                             *)
HeldInv ==
  /\ in \in Seq(op.rows) /\ pend \in Seq(Images)
  /\ \A i \in 1 .. Len(pend) : pend[i] = Image[in[Sent + i]]

BatchInv ==
  /\ phase \in {"new", "ready"} => in = << >>
  /\ phase = "loop" => Sent + Len(pend) = Len(in)
  /\ phase = "rows" =>
       /\ batch \in Seq(op.rows) /\ Sent + Len(pend) + Len(batch) = Len(in)
       /\ Len(batch) > 0
       /\ \A i \in 1 .. Len(batch) : batch[i] = in[Sent + Len(pend) + i]

GroupInv ==
  /\ phase \notin {"new", "refused"} => op.batch_size \in Nat \ {0}
  /\ phase \in {"loop", "rows", "finish"} => stmt.do = "error"
  /\ phase \in {"loop", "rows"} => Sent % op.batch_size = 0 /\ Len(pend) < op.batch_size
  /\ phase \in {"loop", "rows"} => \A i \in DOMAIN Columns : buf[i] \in {"small", "big"}
  /\ phase # "given"

BcpInv == op \in Ops /\ (op.kind = "ms_bcp" => TableInv /\ HeldInv /\ BatchInv /\ GroupInv)
------------------------------------------------------------------------------
(* What executing a group of plain inserts makes of a table                 *)

\* The table t with the first n of the rows after it.
Extended(t, rows, n) ==
  [i \in 1 .. Len(t) + n |-> IF i <= Len(t) THEN t[i] ELSE [c |-> rows[i - Len(t)], w |-> 1]]

LEMMA ExtendedIsTable ==
  ASSUME NEW S, NEW t \in Seq(S), NEW X, NEW rows \in Seq(X),
         \A x \in X : [c |-> x, w |-> 1] \in S, NEW n \in 0 .. Len(rows)
  PROVE  Extended(t, rows, n) \in Seq(S) /\ Len(Extended(t, rows, n)) = Len(t) + n
<1>1. PICK len \in Nat : len = Len(t) BY LenProperties
<1>2. PICK m \in Nat : m = n
  <2>1. Len(rows) \in Nat BY LenProperties
  <2> QED BY <2>1
<1>3. \A i \in 1 .. m : [c |-> rows[i], w |-> 1] \in S
  <2>1. PICK all \in Nat : all = Len(rows) BY LenProperties
  <2>2. \A i \in 1 .. all : [c |-> rows[i], w |-> 1] \in S BY <2>1, ElementOfSeq
  <2> QED BY <1>2, <2>1, <2>2
<1>4. \A i \in 1 .. len : t[i] \in S BY <1>1, ElementOfSeq
<1>5. ASSUME NEW i \in 1 .. len + m PROVE Extended(t, rows, m)[i] \in S
  <2>1. CASE i <= len BY <1>1, <1>4, <2>1 DEF Extended
  <2>2. CASE ~(i <= len)
    <3>1. i - len \in 1 .. m BY <2>2
    <3> QED BY <1>1, <1>3, <2>2, <3>1 DEF Extended
  <2> QED BY <2>1, <2>2
<1>6. PICK e : e = Extended(t, rows, m) OBVIOUS
<1>7. e = [i \in 1 .. len + m |-> e[i]] BY <1>1, <1>6 DEF Extended
<1>8. e \in [1 .. len + m -> S] BY <1>5, <1>6, <1>7, Zenon
<1>9. len + m \in Nat OBVIOUS
<1>10. e \in Seq(S) BY <1>8, <1>9
<1>11. Len(e) = len + m
  <2>1. DOMAIN e = 1 .. len + m BY <1>7
  <2> QED BY <1>9, <1>10, <2>1, LenProperties
<1> QED BY <1>1, <1>2, <1>6, <1>10, <1>11

LEMMA ExtendedLength ==
  ASSUME NEW S, NEW t \in Seq(S), NEW X, NEW rows \in Seq(X),
         \A x \in X : [c |-> x, w |-> 1] \in S, NEW n \in 0 .. Len(rows)
  PROVE  Len(Extended(t, rows, n)) = Len(t) + n
BY ExtendedIsTable

LEMMA ExtendedGrows ==
  ASSUME NEW S, NEW t \in Seq(S), NEW X, NEW rows \in Seq(X),
         \A x \in X : [c |-> x, w |-> 1] \in S, NEW n \in 0 .. Len(rows)
  PROVE  /\ n > 0 => Append(Extended(t, rows, n - 1), [c |-> rows[n], w |-> 1]) = Extended(t, rows, n)
         /\ n = 0 => Extended(t, rows, n) = t
<1>1. PICK len \in Nat : len = Len(t) BY LenProperties
<1>2. PICK all \in Nat : all = Len(rows) BY LenProperties
<1>3. ASSUME n > 0
      PROVE  Append(Extended(t, rows, n - 1), [c |-> rows[n], w |-> 1]) = Extended(t, rows, n)
  <2>1. n \in 0 .. all /\ n - 1 \in 0 .. all BY <1>2, <1>3
  <2>2. PICK a \in Seq(S) : a = Extended(t, rows, n - 1) /\ Len(a) = len + (n - 1)
    <3>1. PICK m \in 0 .. Len(rows) : m = n - 1 BY <1>2, <2>1
    <3>2. Extended(t, rows, m) \in Seq(S) BY ExtendedIsTable
    <3>3. Len(Extended(t, rows, m)) = Len(t) + m BY ExtendedLength
    <3> QED BY <1>1, <3>1, <3>2, <3>3
  <2>3. PICK b \in Seq(S) : b = Extended(t, rows, n) /\ Len(b) = len + n
    <3>1. Extended(t, rows, n) \in Seq(S) BY <1>2, <2>1, ExtendedIsTable
    <3>2. Len(Extended(t, rows, n)) = Len(t) + n BY <1>2, <2>1, ExtendedLength
    <3> QED BY <1>1, <3>1, <3>2
  <2>4. PICK e \in S : e = [c |-> rows[n], w |-> 1]
    <3>1. n \in 1 .. Len(rows) BY <1>2, <1>3, <2>1
    <3>2. rows[n] \in X BY <3>1, ElementOfSeq
    <3> QED BY <3>2
  <2>5. /\ Append(a, e) \in Seq(S) /\ Len(Append(a, e)) = Len(a) + 1
        /\ \A i \in 1 .. Len(a) : Append(a, e)[i] = a[i]
        /\ Append(a, e)[Len(a) + 1] = e
    BY AppendProperties
  <2>6. /\ \A i \in 1 .. len + (n - 1) :
             a[i] = IF i <= len THEN t[i] ELSE [c |-> rows[i - len], w |-> 1]
        /\ \A i \in 1 .. len + n :
             b[i] = IF i <= len THEN t[i] ELSE [c |-> rows[i - len], w |-> 1]
    BY <1>1, <2>2, <2>3 DEF Extended
  <2>7. Len(Append(a, e)) = Len(b) /\ Len(a) + 1 = len + n
    <3>1. Len(a) + 1 = (len + (n - 1)) + 1 /\ (len + (n - 1)) + 1 = len + n BY <2>1, <2>2
    <3>2. Len(Append(a, e)) = Len(a) + 1 BY <2>5
    <3> QED BY <2>3, <3>1, <3>2
  <2>8. ASSUME NEW i \in 1 .. len + n PROVE Append(a, e)[i] = b[i]
    <3>1. CASE i = len + n
      <4>1. ~(i <= len) /\ i - len = n BY <1>3, <2>1, <3>1
      <4> QED BY <2>4, <2>5, <2>6, <2>7, <3>1, <4>1
    <3>2. CASE i # len + n
      <4>1. i \in 1 .. Len(a) /\ i \in 1 .. len + (n - 1) BY <2>1, <2>2, <3>2
      <4> QED BY <2>5, <2>6, <4>1
    <3> QED BY <3>1, <3>2
  <2>9. Append(a, e) = b BY <2>3, <2>5, <2>7, <2>8, SeqEqual
  <2> QED BY <2>2, <2>3, <2>4, <2>9
<1>4. n = 0 => Extended(t, rows, n) = t
  <2>1. 0 \in 0 .. Len(rows) BY <1>2
  <2>2. PICK a \in Seq(S) : a = Extended(t, rows, 0) /\ Len(a) = len + 0
    BY <1>1, <2>1, ExtendedIsTable
  <2>3. Len(a) = len BY <2>2
  <2>4. \A i \in 1 .. len : a[i] = t[i]
    <3> SUFFICES ASSUME NEW i \in 1 .. len PROVE a[i] = t[i] OBVIOUS
    <3>1. i <= len /\ i \in 1 .. len + 0 OBVIOUS
    <3> QED BY <1>1, <2>2, <3>1 DEF Extended
  <2>5. a = t BY <1>1, <2>3, <2>4, SeqEqual
  <2> QED BY <2>2, <2>5
<1> QED BY <1>3, <1>4

\* A plain insert appends its row, or is refused.
LEMMA PlainInsertAppends ==
  ASSUME NEW t, NEW u, NEW s, s.do = "error", NEW new
  PROVE  MsExecute(t, u, s, new) \in {Append(t, [c |-> new, w |-> 1]), ERR}
BY DEF MsExecute

LEMMA InsertExtends ==
  ASSUME stmt.do = "error", NEW S, NEW t \in Seq(S), NEW X, NEW rows \in Seq(X),
         \A x \in X : [c |-> x, w |-> 1] \in S, Insert(t, rows) # ERR
  PROVE  Insert(t, rows) = Extended(t, rows, Len(rows))
<1> DEFINE Step(f, n) == IF n = 0 THEN t
                         ELSE IF f[n - 1] = ERR THEN ERR
                         ELSE MsExecute(f[n - 1], op.uniq, stmt, rows[n])
           Solves(f) == f = [n \in 0 .. Len(rows) |-> Step(f, n)]
           After == CHOOSE f : Solves(f)
<1>0. PICK len \in Nat : len = Len(rows) BY LenProperties
<1>1. Insert(t, rows) = After[len] BY <1>0 DEF Insert, ExecuteAll
<1>2. ASSUME NEW n \in 0 .. len
      PROVE  /\ n > 0 => Append(Extended(t, rows, n - 1), [c |-> rows[n], w |-> 1]) = Extended(t, rows, n)
             /\ n = 0 => Extended(t, rows, n) = t
  <2>1. n \in 0 .. Len(rows) BY <1>0
  <2> QED BY <2>1, ExtendedGrows
<1>3. \E f : Solves(f)
  <2> DEFINE Runs(n) == \A k \in 1 .. n :
                          /\ Extended(t, rows, k - 1) # ERR
                          /\ MsExecute(Extended(t, rows, k - 1), op.uniq, stmt, rows[k])
                               = Extended(t, rows, k)
             g == [n \in 0 .. len |-> IF Runs(n) THEN Extended(t, rows, n) ELSE ERR]
  <2>1. ASSUME NEW n \in 0 .. len PROVE g[n] = Step(g, n)
    <3>1. CASE n = 0
      <4>1. Runs(0) OBVIOUS
      <4> QED BY <1>2, <3>1, <4>1
    <3>2. CASE n # 0
      <4>1. n - 1 \in 0 .. len /\ n \in 1 .. n BY <3>2
      <4>2. g[n - 1] = IF Runs(n - 1) THEN Extended(t, rows, n - 1) ELSE ERR BY <4>1
      <4>3. g[n] = IF Runs(n) THEN Extended(t, rows, n) ELSE ERR OBVIOUS
      <4>4. Runs(n) <=> /\ Runs(n - 1) /\ Extended(t, rows, n - 1) # ERR
                        /\ MsExecute(Extended(t, rows, n - 1), op.uniq, stmt, rows[n])
                             = Extended(t, rows, n)
        <5>1. \A k \in 1 .. n : k = n \/ k \in 1 .. n - 1 BY <3>2
        <5>2. \A k \in 1 .. n - 1 : k \in 1 .. n BY <3>2
        <5> QED BY <4>1, <5>1, <5>2
      <4>5. /\ MsExecute(Extended(t, rows, n - 1), op.uniq, stmt, rows[n])
                 \in {Append(Extended(t, rows, n - 1), [c |-> rows[n], w |-> 1]), ERR}
            /\ Append(Extended(t, rows, n - 1), [c |-> rows[n], w |-> 1]) = Extended(t, rows, n)
        BY <1>2, <3>2, PlainInsertAppends
      <4> HIDE DEF Runs, g
      <4> QED BY <3>2, <4>2, <4>3, <4>4, <4>5
    <3> QED BY <3>1, <3>2
  <2>2. g = [n \in 0 .. len |-> Step(g, n)]
    <3>1. g = [n \in 0 .. len |-> g[n]] OBVIOUS
    <3> HIDE DEF g, Step
    <3> QED BY <2>1, <3>1
  <2> HIDE DEF g, Step
  <2> QED BY <1>0, <2>2
<1>4. After = [n \in 0 .. len |-> Step(After, n)]
  <2>1. Solves(After)
    <3> HIDE DEF Solves
    <3> QED BY <1>3
  <2> HIDE DEF After, Step
  <2> QED BY <1>0, <2>1
<1>5. \A n \in 0 .. len : After[n] \in {ERR, Extended(t, rows, n)}
  <2> DEFINE Bad == {n \in 0 .. len : After[n] \notin {ERR, Extended(t, rows, n)}}
  <2> SUFFICES ASSUME Bad # {} PROVE FALSE OBVIOUS
  <2>1. PICK n \in Bad : \A k \in Bad : n <= k
    <3>1. Bad \in SUBSET Nat OBVIOUS
    <3> HIDE DEF Bad
    <3> QED BY <3>1, LeastElement
  <2>2. n \in 0 .. len /\ After[n] = Step(After, n)
    <3> HIDE DEF After, Step
    <3> QED BY <1>4, <2>1
  <2>3. CASE n = 0
    <3> HIDE DEF After
    <3> QED BY <1>2, <2>1, <2>2, <2>3
  <2>4. CASE n # 0
    <3>1. n - 1 \in 0 .. len /\ n - 1 \notin Bad
      <4>1. n - 1 \in 0 .. len /\ ~(n <= n - 1) BY <2>2, <2>4
      <4> HIDE DEF Bad
      <4> QED BY <2>1, <4>1
    <3>2. After[n - 1] \in {ERR, Extended(t, rows, n - 1)}
      <4> HIDE DEF After
      <4> QED BY <3>1
    <3>3. /\ MsExecute(Extended(t, rows, n - 1), op.uniq, stmt, rows[n])
               \in {Append(Extended(t, rows, n - 1), [c |-> rows[n], w |-> 1]), ERR}
          /\ Append(Extended(t, rows, n - 1), [c |-> rows[n], w |-> 1]) = Extended(t, rows, n)
      BY <1>2, <2>2, <2>4, PlainInsertAppends
    <3> HIDE DEF After
    <3> QED BY <2>1, <2>2, <2>4, <3>2, <3>3
  <2> QED BY <2>3, <2>4
<1>6. len \in 0 .. len OBVIOUS
<1> HIDE DEF After
<1> QED BY <1>0, <1>1, <1>5, <1>6
------------------------------------------------------------------------------
(* The steps of bcp                                                         *)

(* The rows of a group that goes in are the next ones of the input.         *)
LEMMA GroupExtends ==
  ASSUME BcpInv, op.kind = "ms_bcp", stmt.do = "error", NEW group \in Seq(Images),
         Sent + Len(group) <= Len(in),
         \A i \in 1 .. Len(group) : group[i] = Image[in[Sent + i]],
         NEW work, work = Insert(db, group), work # ERR
  PROVE  /\ work \in Seq(Recs) /\ Len(work) = Len(db) + Len(group)
         /\ \A i \in 1 .. Len(op.old) : work[i].c = op.old[i]
         /\ \A i \in 1 .. Sent + Len(group) : work[Len(op.old) + i].c = Image[in[i]]
<1>1. TableInv BY DEF BcpInv
<1>2. PICK o \in Nat : o = Len(op.old)
  <2>1. op.old \in Seq(ToSet(op.old)) BY OpsAssumption DEF BcpInv
  <2> QED BY <2>1, LenProperties
<1>3. PICK s \in Nat : s = Sent BY <1>1 DEF TableInv
<1>4. PICK g \in Nat : g = Len(group) BY LenProperties
<1>5. PICK t \in Seq(Recs) : t = db BY <1>1 DEF TableInv
<1>6. Len(t) = o + s
  <2>1. Len(t) \in Nat BY LenProperties
  <2> QED BY <1>2, <1>3, <1>5, <2>1 DEF Sent
<1>7. work = Extended(t, group, g)
  <2>1. \A x \in Images : [c |-> x, w |-> 1] \in Recs BY DEF Recs
  <2> QED BY <1>4, <1>5, <2>1, InsertExtends
<1>8. work \in Seq(Recs) /\ Len(work) = Len(t) + g
  <2>1. PICK R, M : R = Recs /\ M = Images OBVIOUS
  <2>2. \A x \in M : [c |-> x, w |-> 1] \in R BY <2>1 DEF Recs
  <2>3. t \in Seq(R) /\ group \in Seq(M) /\ g \in 0 .. Len(group) BY <1>4, <2>1
  <2>4. Extended(t, group, g) \in Seq(R) BY <2>2, <2>3, ExtendedIsTable
  <2>5. Len(Extended(t, group, g)) = Len(t) + g BY <2>2, <2>3, ExtendedLength
  <2> QED BY <1>7, <2>1, <2>4, <2>5
<1>9. \A i \in 1 .. o + s + g : work[i] = IF i <= o + s THEN t[i] ELSE [c |-> group[i - (o + s)], w |-> 1]
  BY <1>6, <1>7 DEF Extended
<1>10. \A i \in 1 .. o : work[i].c = op.old[i]
  <2> SUFFICES ASSUME NEW i \in 1 .. o PROVE work[i].c = op.old[i] OBVIOUS
  <2>1. i \in 1 .. o + s + g /\ i <= o + s OBVIOUS
  <2>2. work[i] = t[i] BY <1>9, <2>1
  <2> QED BY <1>1, <1>2, <1>5, <2>2 DEF TableInv
<1>11. ASSUME NEW i \in 1 .. s + g PROVE work[o + i].c = Image[in[i]]
  <2>1. o + i \in 1 .. o + s + g OBVIOUS
  <2>2. CASE i <= s
    <3>1. i \in 1 .. s /\ o + i <= o + s BY <2>2
    <3>2. work[o + i] = t[o + i] BY <1>9, <2>1, <3>1
    <3>3. db[Len(op.old) + i].c = Image[in[i]] BY <1>1, <1>3, <3>1 DEF TableInv
    <3> QED BY <1>2, <1>5, <3>2, <3>3
  <2>3. CASE ~(i <= s)
    <3>1. ~(o + i <= o + s) /\ (o + i) - (o + s) = i - s BY <2>3
    <3>2. work[o + i].c = group[i - s]
      <4>1. PICK k \in 1 .. o + s + g : k = o + i BY <2>1
      <4>2. ~(k <= o + s) /\ k - (o + s) = i - s BY <3>1, <4>1
      <4>3. work[k] = [c |-> group[i - s], w |-> 1] BY <1>9, <4>2
      <4> QED BY <4>1, <4>3
    <3>3. i - s \in 1 .. g /\ s + (i - s) = i BY <2>3
    <3>4. group[i - s] = Image[in[s + (i - s)]] BY <1>3, <1>4, <3>3
    <3> QED BY <3>2, <3>3, <3>4
  <2> QED BY <2>2, <2>3
<1> QED BY <1>2, <1>3, <1>4, <1>5, <1>8, <1>10, <1>11

\* A row's cells arrive at the server as they are, in the right columns.
Buffers(row, b) ==
  \A i \in DOMAIN Columns :
    \E m \in Grown(op.fmts[Columns[i]], Cell(row, i), buf[i]) :
      b[i] = Address(m, BcpRebinds(op.fmts[Columns[i]]))

LEMMA RowIsBound ==
  ASSUME BoundAsNamed, op \in Ops, op.kind = "ms_bcp",
         \A i \in DOMAIN Columns : buf[i] \in {"small", "big"},
         NEW row \in op.rows, NEW b, Buffers(row, b)
  PROVE  /\ \A i \in DOMAIN Columns : b[i] \in {"small", "big"}
         /\ Placed([i \in DOMAIN Columns |-> Bound(Cell(row, i), b[i])]) = Image[row]
<1>1. \A i \in DOMAIN Columns : Columns[i] = i /\ row[i] # WIDE
  <2>1. CASE op.columns = NULL \/ op.columns = << >>
    BY <2>1 DEF BoundAsNamed, Columns, Exec
  <2>2. CASE ~(op.columns = NULL \/ op.columns = << >>)
    BY <2>2 DEF BoundAsNamed, Columns, Exec
  <2> QED BY <2>1, <2>2
<1>2. \A i \in DOMAIN Columns : b[i] \in {"small", "big"}
  <2> SUFFICES ASSUME NEW i \in DOMAIN Columns PROVE b[i] \in {"small", "big"} OBVIOUS
  <2>1. PICK m \in Grown(op.fmts[Columns[i]], Cell(row, i), buf[i]) :
          b[i] = Address(m, BcpRebinds(op.fmts[Columns[i]]))
    BY DEF Buffers
  <2> QED BY <2>1 DEF Grown, Address, BcpRebinds
<1>3. \A i \in DOMAIN Columns : Bound(Cell(row, i), b[i]) = row[i]
  BY <1>1, <1>2 DEF Bound, Narrowed, Cell
<1>4. PICK cells : cells = [i \in DOMAIN Columns |-> Bound(Cell(row, i), b[i])] OBVIOUS
<1>5. \A i \in DOMAIN Columns : cells[i] = row[i] BY <1>3, <1>4
<1>6. \A t \in 1 .. op.width :
        Placed(cells)[t] = IF \E i \in DOMAIN Columns : Columns[i] = t THEN row[t] ELSE NULL
  <2> SUFFICES ASSUME NEW t \in 1 .. op.width
               PROVE  Placed(cells)[t] = IF \E i \in DOMAIN Columns : Columns[i] = t THEN row[t] ELSE NULL
    OBVIOUS
  <2>1. Placed(cells)[t] = LET hits == {i \in DOMAIN Columns : Target(i) = t}
                           IN  IF hits = {} THEN NULL ELSE cells[CHOOSE i \in hits : TRUE]
    BY DEF Placed
  <2>2. {i \in DOMAIN Columns : Target(i) = t} = IF t \in DOMAIN Columns THEN {t} ELSE {}
    BY DEF Target
  <2>3. (\E i \in DOMAIN Columns : Columns[i] = t) <=> t \in DOMAIN Columns BY <1>1
  <2>4. CASE t \in DOMAIN Columns
    <3>1. (CHOOSE i \in {t} : TRUE) = t OBVIOUS
    <3> QED BY <1>5, <2>1, <2>2, <2>3, <2>4, <3>1
  <2>5. CASE t \notin DOMAIN Columns BY <2>1, <2>2, <2>3, <2>5
  <2> QED BY <2>4, <2>5
<1>7. Placed(cells) = Wanted(row)
  <2>1. Placed(cells) = [t \in 1 .. op.width |-> Placed(cells)[t]] BY DEF Placed
  <2> QED BY <1>6, <2>1 DEF Wanted
<1> QED BY <1>2, <1>4, <1>7 DEF Image

\* Whole groups and one more are whole groups.
LEMMA OneMoreGroup ==
  ASSUME NEW n \in Nat, NEW b \in Nat \ {0}, n % b = 0
  PROVE  (n + b) % b = 0
<1>1. PICK q \in Nat : n = q * b
  <2>1. n \div b \in Nat OBVIOUS
  <2>2. n = (n \div b) * b + (n % b) OBVIOUS
  <2> QED BY <2>1, <2>2
<1>2. PICK r \in Nat : r = q + 1 OBVIOUS
<1>3. n + b = r * b BY <1>1, <1>2
<1>4. (r * b) % b = 0 OBVIOUS
<1> QED BY <1>3, <1>4

(* What leaves the table, the input and the rows held alone.                *)
LEMMA BcpStays ==
  ASSUME BcpInv, op.kind = "ms_bcp", UNCHANGED <<op, db, in, pend>>
  PROVE  TableInv' /\ HeldInv'
<1>1. TableInv /\ HeldInv BY DEF BcpInv
<1>2. Image' = Image BY DEF Image, Wanted, Columns, Exec
<1>3. Images' = Images BY <1>2 DEF Images
<1>4. Recs' = Recs BY <1>3 DEF Recs
<1>5. Sent' = Sent BY DEF Sent
<1>6. TableInv' BY <1>1, <1>2, <1>4, <1>5 DEF TableInv
<1>7. HeldInv' BY <1>1, <1>2, <1>3, <1>5 DEF HeldInv
<1> QED BY <1>6, <1>7

\* What no other kind of writer can break.
LEMMA OnlyBcp == ASSUME BcpInv, op' = op, op.kind # "ms_bcp" PROVE BcpInv'
BY DEF BcpInv

LEMMA BcpSizes ==
  ASSUME BcpInv, op.kind = "ms_bcp"
  PROVE  Sent \in Nat /\ Len(pend) \in Nat /\ Len(in) \in Nat /\ Sent + Len(pend) <= Len(in)
<1>1. TableInv /\ HeldInv BY DEF BcpInv
<1> QED BY <1>1, LenProperties DEF TableInv, HeldInv

LEMMA BcpInits == ASSUME BcpInv, op.kind = "ms_bcp", InitWriter PROVE BcpInv'
<1>1. phase = "new" /\ UNCHANGED <<op, rc, stmt, db, txn, buf, pend, batch, in>> BY DEF InitWriter
<1>2. phase' \in {"ready", "refused"} /\ (phase' = "ready" => op.batch_size \in Nat \ {0})
  <2>1. InitOk = BulkInit BY DEF InitOk
  <2>2. BulkInit => op.batch_size \in Nat \ {0} BY DEF BulkInit
  <2> QED BY <2>1, <2>2 DEF InitWriter
<1>3. TableInv' /\ HeldInv' BY <1>1, BcpStays
<1>4. BatchInv' BY <1>1, <1>2 DEF BcpInv, BatchInv
<1>5. GroupInv' BY <1>1, <1>2 DEF BcpInv, GroupInv
<1> QED BY <1>1, <1>3, <1>4, <1>5 DEF BcpInv

LEMMA BcpStarts == ASSUME BcpInv, op.kind = "ms_bcp", StartBcp PROVE BcpInv'
<1>1. phase = "ready" /\ UNCHANGED <<op, db, pend, batch, in>> BY DEF StartBcp, Starting
<1>2. \/ phase' = "done"
      \/ /\ phase' \in {"loop", "finish"} /\ stmt'.do = "error"
         /\ \A i \in DOMAIN Columns : buf'[i] \in {"small", "big"}
  BY DEF StartBcp, Refuse, Begin, Fail, PlainInsert, Exec
<1>3. TableInv' /\ HeldInv' BY <1>1, BcpStays
<1>4. op.batch_size \in Nat \ {0} BY <1>1 DEF BcpInv, GroupInv
<1>5. Sent = 0 /\ Len(pend) = 0 /\ Len(in) = 0
  <2>1. in = << >> BY <1>1 DEF BcpInv, BatchInv
  <2>2. Len(in) = 0 BY <2>1
  <2> QED BY <2>2, BcpSizes
<1>6. Sent' = 0 /\ Len(pend') = 0 /\ Len(in') = 0 BY <1>1, <1>5 DEF Sent
<1>7. Columns' = Columns BY <1>1 DEF Columns, Exec
<1>8. BatchInv' BY <1>2, <1>6 DEF BatchInv
<1>9. GroupInv'
  <2>1. 0 % op.batch_size = 0 /\ 0 < op.batch_size BY <1>4
  <2> QED BY <1>1, <1>2, <1>4, <1>6, <1>7, <2>1 DEF GroupInv
<1> QED BY <1>1, <1>3, <1>8, <1>9 DEF BcpInv

\* A batch comes after everything delivered so far.
LEMMA BcpPulls == ASSUME BcpInv, op.kind = "ms_bcp", Pull PROVE BcpInv'
<1>1. phase = "loop" /\ UNCHANGED <<op, stmt, db, buf, pend>> BY DEF Pull
<1>2. TableInv /\ HeldInv /\ BatchInv /\ GroupInv BY DEF BcpInv
<1>3. Image' = Image /\ Sent' = Sent /\ Columns' = Columns
  BY <1>1 DEF Image, Wanted, Sent, Columns, Exec
<1>4. Images' = Images /\ Recs' = Recs BY <1>1, <1>3 DEF Images, Recs
<1>5. CASE UNCHANGED in /\ phase' = "finish"
  <2>1. TableInv' /\ HeldInv' BY <1>1, <1>5, BcpStays
  <2>2. BatchInv' BY <1>5 DEF BatchInv
  <2>3. GroupInv' BY <1>1, <1>2, <1>5 DEF GroupInv
  <2> QED BY <1>1, <2>1, <2>2, <2>3 DEF BcpInv
<1>6. CASE \E b \in Batches \ {<< >>} : Delivers(b) /\ phase' = "rows"
  <2>1. PICK b \in Batches \ {<< >>} : in' = in \o b /\ batch' = b /\ phase' = "rows"
    BY <1>6 DEF Delivers
  <2>2. b \in Seq(op.rows) /\ Len(b) > 0
    <3>1. PICK n \in 0 .. MaxBatch : b \in [1 .. n -> op.rows] BY DEF Batches
    <3>2. n \in Nat BY OpsAssumption
    <3>3. b \in Seq(op.rows) BY <3>1, <3>2
    <3> QED BY <2>1, <3>3, EmptySeq, LenProperties
  <2>3. PICK i, p, n \in Nat : i = Len(in) /\ p = Sent + Len(pend) /\ n = Len(b)
    BY <2>2, BcpSizes, LenProperties
  <2>4. i = p BY <1>1, <1>2, <2>3 DEF BatchInv
  <2>5. /\ in' \in Seq(op.rows) /\ Len(in') = i + n
        /\ \A k \in 1 .. i + n : in'[k] = IF k <= i THEN in[k] ELSE b[k - i]
    BY <1>2, <2>1, <2>2, <2>3, ConcatProperties DEF HeldInv
  <2>6. \A k \in 1 .. i : in'[k] = in[k]
    <3> SUFFICES ASSUME NEW k \in 1 .. i PROVE in'[k] = in[k] OBVIOUS
    <3>1. k \in 1 .. i + n /\ k <= i OBVIOUS
    <3> QED BY <2>5, <3>1
  <2>7. PICK s, h \in Nat : s = Sent /\ h = Len(pend) /\ i = s + h BY <2>3, <2>4, BcpSizes
  <2>8. TableInv'
    <3>1. s + h <= i + n BY <2>7
    <3>2. \A k \in 1 .. s : db[Len(op.old) + k].c = Image[in'[k]]
      <4>1. \A k \in 1 .. s : k \in 1 .. i BY <2>7
      <4>2. \A k \in 1 .. s : db[Len(op.old) + k].c = Image[in[k]] BY <1>2, <2>7 DEF TableInv
      <4> QED BY <2>6, <4>1, <4>2
    <3> QED BY <1>1, <1>2, <1>3, <1>4, <2>5, <2>7, <3>1, <3>2 DEF TableInv
  <2>9. HeldInv'
    <3>1. \A k \in 1 .. h : pend[k] = Image[in'[s + k]]
      <4>1. \A k \in 1 .. h : s + k \in 1 .. i BY <2>7
      <4>2. \A k \in 1 .. h : pend[k] = Image[in[s + k]] BY <1>2, <2>7 DEF HeldInv
      <4> QED BY <2>6, <4>1, <4>2
    <3> QED BY <1>1, <1>2, <1>3, <1>4, <2>5, <2>7, <3>1 DEF HeldInv
  <2>10. BatchInv'
    <3>1. \A k \in 1 .. n : b[k] = in'[i + k]
      <4> SUFFICES ASSUME NEW k \in 1 .. n PROVE b[k] = in'[i + k] OBVIOUS
      <4>1. i + k \in 1 .. i + n /\ ~(i + k <= i) /\ (i + k) - i = k OBVIOUS
      <4> QED BY <2>5, <4>1
    <3>2. Sent' + Len(pend') + Len(batch') = Len(in') /\ Sent' + Len(pend') = i
      BY <1>1, <1>3, <2>1, <2>3, <2>5, <2>7
    <3> QED BY <1>1, <2>1, <2>2, <2>3, <3>1, <3>2 DEF BatchInv
  <2>11. GroupInv' BY <1>1, <1>2, <1>3, <2>1 DEF GroupInv
  <2> QED BY <1>1, <2>8, <2>9, <2>10, <2>11 DEF BcpInv
<1> QED BY <1>5, <1>6 DEF Pull, InputFails, Fail, Exec

\* What a row does once its cells are bound.
Holds(group) == ~ GroupFull(group) /\ RowDone(group) /\ UNCHANGED <<db, txn>>
Breaks == RowFails("io", pend) \/ RowFails("io", << >>)
GoesIn(group) == GroupFull(group) /\ Insert(db, group) # ERR
                 /\ (RowDone(<< >>) \/ (Fail("io") /\ pend' = << >> /\ batch' = << >>))
                 /\ db' = Insert(db, group) /\ UNCHANGED txn

LEMMA BcpRowIs ==
  ASSUME BcpRow
  PROVE  \E b : /\ Buffers(Head(batch), b) /\ buf' = b
                /\ LET new == Placed([i \in DOMAIN Columns |-> Bound(Cell(Head(batch), i), b[i])])
                       group == Append(pend, new)
                   IN  Holds(group) \/ Breaks \/ GoesIn(group)
<1>1. PICK b \in Moves(Head(batch), BcpRebinds) :
        LET new == Placed([i \in DOMAIN Columns |-> Bound(Cell(Head(batch), i), b[i])])
            group == Append(pend, new)
        IN  /\ buf' = b
            /\ \/ RowFails("io", pend)
               \/ GroupFull(group) /\ BcpBatch(Insert(db, group))
               \/ ~ GroupFull(group) /\ RowDone(group) /\ UNCHANGED <<db, txn>>
  BY DEF BcpRow
<1>2. Buffers(Head(batch), b) BY DEF Moves, Buffers
<1> QED BY <1>1, <1>2 DEF Holds, Breaks, GoesIn, BcpBatch

LEMMA BcpWrites == ASSUME BoundAsNamed, BcpInv, op.kind = "ms_bcp", BcpRow PROVE BcpInv'
<1>1. phase = "rows" /\ UNCHANGED <<op, stmt, in>> BY DEF BcpRow, Writing
<1>2. TableInv /\ HeldInv /\ BatchInv /\ GroupInv BY DEF BcpInv
<1>3. Image' = Image /\ Columns' = Columns BY <1>1 DEF Image, Wanted, Columns, Exec
<1>4. Images' = Images /\ Recs' = Recs BY <1>1, <1>3 DEF Images, Recs
<1>5. batch \in Seq(op.rows) /\ Len(batch) > 0 /\ stmt.do = "error" /\ op.batch_size \in Nat \ {0}
  BY <1>1, <1>2 DEF BatchInv, GroupInv
<1>6. Head(batch) \in op.rows /\ Head(batch) = batch[1] BY <1>5
<1>7. PICK b, group :
        /\ Buffers(Head(batch), b) /\ buf' = b
        /\ group = Append(pend, Placed([i \in DOMAIN Columns |-> Bound(Cell(Head(batch), i), b[i])]))
        /\ Holds(group) \/ Breaks \/ GoesIn(group)
  BY BcpRowIs
<1>8. /\ \A i \in DOMAIN Columns : b[i] \in {"small", "big"}
      /\ group = Append(pend, Image[Head(batch)])
  <2>1. op \in Ops /\ \A i \in DOMAIN Columns : buf[i] \in {"small", "big"}
    BY <1>1, <1>2 DEF BcpInv, GroupInv
  <2> QED BY <1>6, <1>7, <2>1, RowIsBound
<1>9. PICK s, h, i, n \in Nat : s = Sent /\ h = Len(pend) /\ i = Len(in) /\ n = Len(batch)
  BY <1>5, BcpSizes, LenProperties
<1>10. s + h + n = i /\ s % op.batch_size = 0 /\ h < op.batch_size
  BY <1>1, <1>2, <1>9 DEF BatchInv, GroupInv
<1>11. group \in Seq(Images) /\ Len(group) = h + 1
  <2>1. Image[Head(batch)] \in Images BY <1>6 DEF Images
  <2>2. pend \in Seq(Images) BY <1>2 DEF HeldInv
  <2> QED BY <1>8, <1>9, <2>1, <2>2, AppendProperties
<1>12. ASSUME NEW k \in 1 .. h + 1 PROVE group[k] = Image[in[s + k]]
  <2>1. pend \in Seq(Images) /\ Image[Head(batch)] \in Images
    BY <1>2, <1>6 DEF HeldInv, Images
  <2>2. (\A j \in 1 .. h : group[j] = pend[j]) /\ group[h + 1] = Image[Head(batch)]
    BY <1>8, <1>9, <2>1, AppendProperties
  <2>3. CASE k = h + 1
    <3>1. \A j \in 1 .. n : batch[j] = in[s + h + j] BY <1>1, <1>2, <1>9 DEF BatchInv
    <3>2. 1 \in 1 .. n /\ s + h + 1 = s + k BY <1>5, <1>9, <2>3
    <3> QED BY <1>6, <2>2, <2>3, <3>1, <3>2
  <2>4. CASE k # h + 1
    <3>1. k \in 1 .. h BY <2>4
    <3>2. pend[k] = Image[in[s + k]] BY <1>2, <1>9, <3>1 DEF HeldInv
    <3> QED BY <2>2, <3>1, <3>2
  <2> QED BY <2>3, <2>4
<1>13. Tail(batch) \in Seq(op.rows) /\ Len(Tail(batch)) = n - 1
       /\ \A k \in 1 .. n - 1 : Tail(batch)[k] = in[s + h + 1 + k]
  <2>1. batch # << >> BY <1>5, EmptySeq
  <2>2. Tail(batch) \in Seq(op.rows) /\ Len(Tail(batch)) = n - 1
    BY <1>5, <1>9, <2>1, HeadTailProperties
  <2>3. ASSUME NEW k \in 1 .. n - 1 PROVE Tail(batch)[k] = in[s + h + 1 + k]
    <3>1. Tail(batch)[k] = batch[k + 1] BY <1>5, <2>1, <2>2, <2>3, HeadTailProperties
    <3>2. k + 1 \in 1 .. n /\ s + h + (k + 1) = s + h + 1 + k OBVIOUS
    <3>3. batch[k + 1] = in[s + h + (k + 1)] BY <1>1, <1>2, <1>9, <3>2 DEF BatchInv
    <3> QED BY <3>1, <3>2, <3>3
  <2> QED BY <2>2, <2>3
<1>14. ASSUME batch' = Tail(batch), phase' = (IF n > 1 THEN "rows" ELSE "loop"),
              Sent' + Len(pend') = s + h + 1
       PROVE  BatchInv'
  <2>1. PICK p \in Nat : p = s + h + 1 OBVIOUS
  <2>2. n >= 1 /\ p + (n - 1) = i BY <1>5, <1>9, <1>10, <2>1
  <2>3. PICK sent, held, rest : sent = Sent' /\ held = Len(pend') /\ rest = batch' OBVIOUS
  <2>4. sent + held = p /\ rest \in Seq(op.rows) /\ Len(rest) = n - 1
    BY <1>13, <1>14, <2>1, <2>3
  <2>5. \A k \in 1 .. n - 1 : rest[k] = in[p + k] BY <1>13, <1>14, <2>1, <2>3
  <2>6. n = 1 => sent + held = i BY <2>2, <2>4
  <2>7. n > 1 => sent + held + Len(rest) = i /\ Len(rest) > 0 BY <2>2, <2>4
  <2>8. \A k \in 1 .. Len(rest) : rest[k] = in[sent + held + k] BY <2>4, <2>5
  <2>9. n = 1 \/ n > 1 BY <2>2
  <2> QED BY <1>1, <1>9, <1>14, <2>3, <2>4, <2>6, <2>7, <2>8, <2>9 DEF BatchInv
<1>15. CASE Holds(group)
  <2>1. UNCHANGED db /\ pend' = group /\ batch' = Tail(batch)
        /\ phase' = (IF n > 1 THEN "rows" ELSE "loop") /\ h + 1 < op.batch_size
    BY <1>5, <1>9, <1>11, <1>15 DEF Holds, GroupFull, RowDone, Exec
  <2>2. Sent' = s BY <1>1, <1>9, <2>1 DEF Sent
  <2>3. TableInv' BY <1>1, <1>2, <1>3, <1>4, <1>5, <1>9, <1>10, <1>11, <2>1, <2>2 DEF TableInv
  <2>4. HeldInv' BY <1>1, <1>2, <1>3, <1>4, <1>11, <1>12, <2>1, <2>2 DEF HeldInv
  <2>5. BatchInv'
    <3>1. Len(pend') = h + 1 BY <1>11, <2>1
    <3>2. Sent' + Len(pend') = s + h + 1 BY <2>2, <3>1
    <3> QED BY <1>14, <2>1, <3>2
  <2>6. GroupInv' BY <1>1, <1>3, <1>5, <1>7, <1>8, <1>10, <1>11, <2>1, <2>2 DEF GroupInv
  <2> QED BY <1>1, <2>3, <2>4, <2>5, <2>6 DEF BcpInv
<1>16. CASE Breaks
  <2>1. UNCHANGED db /\ (pend' = pend \/ pend' = << >>) /\ phase' = "finish"
    BY <1>16 DEF Breaks, RowFails, Fail, Exec
  <2>2. Sent' = s /\ Len(pend') \in {0, h} BY <1>1, <1>9, <2>1 DEF Sent
  <2>3. TableInv' BY <1>1, <1>2, <1>3, <1>4, <1>9, <1>10, <2>1, <2>2 DEF TableInv
  <2>4. HeldInv'
    <3>1. CASE pend' = pend BY <1>1, <1>2, <1>3, <1>4, <1>9, <2>2, <3>1 DEF HeldInv
    <3>2. CASE pend' = << >> BY <1>1, <1>2, <1>4, <3>2 DEF HeldInv
    <3> QED BY <2>1, <3>1, <3>2
  <2>5. BatchInv' BY <2>1 DEF BatchInv
  <2>6. GroupInv' BY <1>1, <1>5, <2>1 DEF GroupInv
  <2> QED BY <1>1, <2>3, <2>4, <2>5, <2>6 DEF BcpInv
<1>17. CASE GoesIn(group)
  <2>1. PICK work : work = Insert(db, group) OBVIOUS
  <2>2. db' = work /\ work # ERR /\ pend' = << >> /\ ~(h + 1 < op.batch_size)
        /\ \/ phase' = "finish"
           \/ batch' = Tail(batch) /\ phase' = (IF n > 1 THEN "rows" ELSE "loop")
    BY <1>5, <1>9, <1>11, <1>17, <2>1 DEF GoesIn, GroupFull, RowDone, Fail, Exec
  <2>3. h + 1 = op.batch_size /\ s + (h + 1) <= i /\ s + (h + 1) + (n - 1) = i
    <3>1. h < op.batch_size /\ ~(h + 1 < op.batch_size) BY <1>10, <2>2
    <3>2. h + 1 = op.batch_size BY <1>5, <3>1
    <3>3. s + h + n = i /\ n > 0 BY <1>5, <1>9, <1>10
    <3> QED BY <3>2, <3>3
  <2>4. /\ work \in Seq(Recs) /\ Len(work) = Len(db) + (h + 1)
        /\ \A k \in 1 .. Len(op.old) : work[k].c = op.old[k]
        /\ \A k \in 1 .. s + (h + 1) : work[Len(op.old) + k].c = Image[in[k]]
    <3>1. Sent + Len(group) <= Len(in) /\ \A k \in 1 .. Len(group) : group[k] = Image[in[Sent + k]]
      BY <1>9, <1>11, <1>12, <2>3
    <3>2. stmt.do = "error" /\ group \in Seq(Images) /\ work = Insert(db, group) /\ work # ERR
      BY <1>5, <1>11, <2>1, <2>2
    <3>3. /\ work \in Seq(Recs) /\ Len(work) = Len(db) + Len(group)
          /\ \A k \in 1 .. Len(op.old) : work[k].c = op.old[k]
          /\ \A k \in 1 .. Sent + Len(group) : work[Len(op.old) + k].c = Image[in[k]]
      BY <3>1, <3>2, GroupExtends
    <3> QED BY <1>9, <1>11, <3>3
  <2>5. Sent' = s + (h + 1) /\ Len(pend') = 0
    <3>1. Len(op.old) \in Nat /\ Len(db) = Len(op.old) + s
      <4>1. op.old \in Seq(ToSet(op.old)) BY OpsAssumption DEF BcpInv
      <4>2. db \in Seq(Recs) BY <1>2 DEF TableInv
      <4> QED BY <1>9, <4>1, <4>2, LenProperties DEF Sent
    <3>2. PICK o, d \in Nat : o = Len(op.old) /\ d = Len(db) /\ d = o + s BY <3>1
    <3>3. Len(db') = d + (h + 1) /\ Len(op'.old) = o BY <1>1, <2>2, <2>4, <3>2
    <3>4. Sent' = (d + (h + 1)) - o BY <3>3 DEF Sent
    <3>5. (d + (h + 1)) - o = s + (h + 1)
      <4>1. d = o + s BY <3>2
      <4> QED BY <4>1
    <3>6. Len(pend') = 0 BY <2>2
    <3> QED BY <3>4, <3>5, <3>6
  <2>6. TableInv' BY <1>1, <1>3, <1>4, <1>9, <2>2, <2>3, <2>4, <2>5 DEF TableInv
  <2>7. HeldInv' BY <1>1, <1>2, <1>4, <2>2, <2>5 DEF HeldInv
  <2>8. BatchInv'
    <3>1. Sent' + Len(pend') = s + h + 1 BY <2>5
    <3>2. CASE phase' = "finish" BY <3>2 DEF BatchInv
    <3> QED BY <1>14, <2>2, <3>1, <3>2
  <2>9. GroupInv'
    <3>1. (s + op.batch_size) % op.batch_size = 0 BY <1>5, <1>10, OneMoreGroup
    <3>2. Sent' % op'.batch_size = 0 /\ Len(pend') < op'.batch_size BY <1>1, <1>5, <2>3, <2>5, <3>1
    <3> QED BY <1>1, <1>3, <1>5, <1>7, <1>8, <2>2, <3>2 DEF GroupInv
  <2> QED BY <1>1, <2>6, <2>7, <2>8, <2>9 DEF BcpInv
<1> QED BY <1>7, <1>15, <1>16, <1>17

\* bcp_done commits the rows held.
LEMMA BcpFinishes == ASSUME BcpInv, op.kind = "ms_bcp", FinishBcp PROVE BcpInv'
<1>1. phase = "finish" /\ phase' = "done" /\ UNCHANGED <<op, in>> /\ pend' = << >>
  BY DEF FinishBcp, Ending, Ended
<1>2. TableInv /\ HeldInv /\ GroupInv BY DEF BcpInv
<1>3. Image' = Image BY <1>1 DEF Image, Wanted, Columns, Exec
<1>4. Images' = Images /\ Recs' = Recs BY <1>1, <1>3 DEF Images, Recs
<1>5. PICK s, h, i \in Nat : s = Sent /\ h = Len(pend) /\ i = Len(in) /\ s + h <= i BY BcpSizes
<1>6. Len(pend') = 0 BY <1>1
<1>7. TableInv'
  <2>1. CASE db' = db
    <3>1. Sent' = s BY <1>1, <1>5, <2>1 DEF Sent
    <3> QED BY <1>1, <1>2, <1>3, <1>4, <1>5, <1>6, <2>1, <3>1 DEF TableInv
  <2>2. CASE db' = Insert(db, pend) /\ Insert(db, pend) # ERR
    <3>1. PICK work : work = Insert(db, pend) /\ work # ERR /\ db' = work BY <2>2
    <3>2. stmt.do = "error" /\ pend \in Seq(Images) /\ Sent + Len(pend) <= Len(in)
          /\ \A k \in 1 .. Len(pend) : pend[k] = Image[in[Sent + k]]
      BY <1>1, <1>2, <1>5 DEF HeldInv, GroupInv
    <3>3. /\ work \in Seq(Recs) /\ Len(work) = Len(db) + h
          /\ \A k \in 1 .. Len(op.old) : work[k].c = op.old[k]
          /\ \A k \in 1 .. s + h : work[Len(op.old) + k].c = Image[in[k]]
      <4>1. /\ work \in Seq(Recs) /\ Len(work) = Len(db) + Len(pend)
            /\ \A k \in 1 .. Len(op.old) : work[k].c = op.old[k]
            /\ \A k \in 1 .. Sent + Len(pend) : work[Len(op.old) + k].c = Image[in[k]]
        BY <3>1, <3>2, GroupExtends
      <4> QED BY <1>5, <4>1
    <3>4. Len(op.old) \in Nat /\ Len(db) \in Nat
      <4>1. op.old \in Seq(ToSet(op.old)) BY OpsAssumption DEF BcpInv
      <4>2. db \in Seq(Recs) BY <1>2 DEF TableInv
      <4> QED BY <4>1, <4>2, LenProperties
    <3>5. PICK o, d \in Nat : o = Len(op.old) /\ d = Len(db) /\ d - o = s BY <1>5, <3>4 DEF Sent
    <3>6. Len(db') = d + h /\ Len(op'.old) = o BY <1>1, <3>1, <3>3, <3>5
    <3>7. Sent' = (d + h) - o BY <3>6 DEF Sent
    <3>8. Sent' = s + h
      <4>1. d - o = s BY <3>5
      <4>2. (d + h) - o = s + h BY <4>1
      <4> QED BY <3>7, <4>2
    <3> QED BY <1>1, <1>3, <1>4, <1>5, <1>6, <3>1, <3>3, <3>8 DEF TableInv
  <2> QED BY <2>1, <2>2 DEF FinishBcp, Ended
<1>8. HeldInv' BY <1>1, <1>2, <1>4, <1>6 DEF HeldInv
<1>9. BatchInv' BY <1>1 DEF BatchInv
<1>10. GroupInv' BY <1>1, <1>2 DEF GroupInv
<1> QED BY <1>1, <1>7, <1>8, <1>9, <1>10 DEF BcpInv

LEMMA BcpInductive == ASSUME BoundAsNamed PROVE Spec => []BcpInv
<1>1. ASSUME Init PROVE BcpInv
  <2>1. op \in Ops /\ op.old \in Seq(ToSet(op.old)) BY <1>1, OpsAssumption DEF Init
  <2>2. PICK o \in Nat : o = Len(op.old) BY <2>1, LenProperties
  <2>3. /\ db \in Seq(Recs) /\ Len(db) = o
        /\ \A i \in 1 .. o : db[i].c = op.old[i]
    <3>1. db = [i \in 1 .. o |-> [c |-> op.old[i], w |-> 1]] BY <1>1, <2>1, <2>2 DEF Init, Rows
    <3>2. ASSUME NEW i \in 1 .. o PROVE [c |-> op.old[i], w |-> 1] \in Recs
      <4>1. op.old[i] \in ToSet(op.old) BY <2>1, <2>2, ElementOfSeq
      <4> QED BY <4>1 DEF Recs
    <3>3. db \in [1 .. o -> Recs]
      <4> HIDE DEF Recs
      <4> QED BY <3>1, <3>2
    <3>4. db \in Seq(Recs) BY <2>2, <3>3
    <3> QED BY <2>2, <3>1, <3>3, <3>4, LenProperties
  <2>4. Sent = 0 BY <2>2, <2>3 DEF Sent
  <2>5. in = << >> /\ pend = << >> /\ Len(in) = 0 /\ Len(pend) = 0 BY <1>1 DEF Init
  <2>6. TableInv BY <2>2, <2>3, <2>4, <2>5 DEF TableInv
  <2>7. HeldInv BY <2>5 DEF HeldInv
  <2>8. BatchInv /\ GroupInv BY <1>1 DEF Init, BatchInv, GroupInv
  <2> QED BY <2>1, <2>6, <2>7, <2>8 DEF BcpInv
<1>2. ASSUME BcpInv, [Next]_vars PROVE BcpInv'
  <2>1. op' = op
    BY <1>2
    DEF Next, vars, InitWriter, StartPgUpsert, StartCopy, StartMsUpsert, StartBulk, StartBcp,
        StartPgExec, StartMsExec, Starting, Pull, ExecPull, PgUpsertRow, CopyRow, MsUpsertRow,
        BulkRow, BcpRow, PgExecRow, MsExecRow, Writing, FinishPgUpsert, FinishCopy, FinishMsUpsert,
        FinishBulk, FinishBcp, Ending, Forward, Destroy, PgExecDestroy, MsExecDestroy, Cancel, Over
  <2>2. CASE op.kind # "ms_bcp" BY <1>2, <2>1, <2>2, OnlyBcp
  <2>3. CASE op.kind = "ms_bcp"
    <3>1. \/ InitWriter \/ StartBcp \/ Pull \/ BcpRow \/ FinishBcp
          \/ Forward \/ Destroy \/ Cancel \/ Over \/ UNCHANGED vars
      BY <1>2, <2>3
      DEF Next, StartPgUpsert, StartCopy, StartMsUpsert, StartBulk, StartPgExec, StartMsExec,
          Starting, ExecPull, PgUpsertRow, CopyRow, MsUpsertRow, BulkRow, PgExecRow, MsExecRow,
          Writing, FinishPgUpsert, FinishCopy, FinishMsUpsert, FinishBulk, Ending, PgExecDestroy,
          MsExecDestroy, Exec
    <3>2. CASE Forward BY <1>2, <2>3, <3>2 DEF Forward, BcpInv, GroupInv
    <3>3. CASE Destroy \/ Cancel \/ Over \/ UNCHANGED vars
      <4>1. UNCHANGED <<op, stmt, db, buf, pend, batch, in>>
            /\ (phase' = phase \/ (phase' = "gone" /\ phase \notin {"new", "refused"}))
        BY <3>3 DEF Destroy, Destroying, Cancel, Over, vars
      <4>2. BatchInv /\ GroupInv BY <1>2, <2>3 DEF BcpInv
      <4>3. TableInv' /\ HeldInv' BY <1>2, <2>3, <4>1, BcpStays
      <4>4. Sent' = Sent /\ Columns' = Columns BY <4>1 DEF Sent, Columns, Exec
      <4>5. BatchInv' BY <4>1, <4>2, <4>4 DEF BatchInv
      <4>6. GroupInv'
        <5>1. CASE phase' = "gone" /\ phase \notin {"new", "refused"} BY <4>1, <4>2, <5>1 DEF GroupInv
        <5>2. CASE phase' = phase BY <4>1, <4>2, <4>4, <5>2 DEF GroupInv
        <5> QED BY <4>1, <5>1, <5>2
      <4> QED BY <1>2, <4>1, <4>3, <4>5, <4>6 DEF BcpInv
    <3> QED BY <1>2, <2>3, <3>1, <3>2, <3>3, BcpInits, BcpStarts, BcpPulls, BcpWrites, BcpFinishes
  <2> QED BY <2>2, <2>3
<1> QED BY <1>1, <1>2, PTL DEF Spec

(* Whatever becomes of its run, bcp leaves the table with the rows that     *)
(* were there and, after them, the first rows of its input, each as it was  *)
(* delivered; while it runs they are whole groups (ms_bcp_run, bcp_batch,   *)
(* bcp_done).                                                               *)
THEOREM BcpCommitsPrefixes == ASSUME BoundAsNamed PROVE Spec => []BcpStoresAPrefix
<1>1. ASSUME BcpInv PROVE BcpStoresAPrefix
  <2> SUFFICES ASSUME op.kind = "ms_bcp" PROVE BcpStoresAPrefix BY DEF BcpStoresAPrefix
  <2>1. TableInv /\ HeldInv /\ GroupInv BY <1>1 DEF BcpInv
  <2>2. op.old \in Seq(ToSet(op.old)) BY <1>1, OpsAssumption DEF BcpInv
  <2>3. PICK o, n, i \in Nat : o = Len(op.old) /\ n = Sent /\ i = Len(in) /\ n <= i
    BY <1>1, <2>2, BcpSizes, LenProperties
  <2>4. Len(db) = o + n
    <3>1. Len(db) \in Nat BY <2>1, LenProperties DEF TableInv
    <3> QED BY <2>3, <3>1 DEF Sent
  <2>5. PICK X : X = ToSet(op.old) \cup Images OBVIOUS
  <2>6. WantedRows \in Seq(X) /\ Len(WantedRows) = i /\ \A k \in 1 .. i : WantedRows[k] = Image[in[k]]
    <3>1. \A k \in 1 .. i : in[k] \in op.rows BY <2>1, <2>3, ElementOfSeq DEF HeldInv
    <3>2. \A k \in 1 .. i : Wanted(in[k]) = Image[in[k]] /\ Wanted(in[k]) \in X
      BY <2>5, <3>1 DEF Image, Images
    <3>3. WantedRows = [k \in 1 .. i |-> Wanted(in[k])]
      <4>1. DOMAIN in = 1 .. i BY <2>1, <2>3, LenProperties DEF HeldInv
      <4> QED BY <4>1 DEF WantedRows
    <3>4. WantedRows \in [1 .. i -> X] BY <3>2, <3>3
    <3>5. WantedRows \in Seq(X) BY <3>4
    <3> QED BY <3>2, <3>3, <3>4, <3>5, LenProperties
  <2>7. PICK first \in Seq(X) : /\ first = SubSeq(WantedRows, 1, n) /\ Len(first) = n
                                /\ \A k \in 1 .. n : first[k] = Image[in[k]]
    <3>1. \A k \in 1 .. n : k \in 1 .. i BY <2>3
    <3>2. /\ SubSeq(WantedRows, 1, n) \in Seq(X) /\ Len(SubSeq(WantedRows, 1, n)) = n
          /\ \A k \in 1 .. n : SubSeq(WantedRows, 1, n)[k] = WantedRows[k]
      BY <2>3, <2>6, <3>1, SubSeqProperties
    <3> QED BY <2>6, <3>1, <3>2
  <2>8. PICK old \in Seq(X) : old = op.old /\ Len(old) = o
    <3>1. \A k \in 1 .. o : op.old[k] \in X BY <2>2, <2>3, <2>5, ElementOfSeq
    <3>2. op.old \in Seq(X) BY <2>2, <2>3, <3>1, SeqOfRange
    <3> QED BY <2>3, <3>2
  <2>9. PICK all \in Seq(X) : /\ all = old \o first /\ Len(all) = o + n
                              /\ \A k \in 1 .. o + n : all[k] = IF k <= o THEN old[k] ELSE first[k - o]
    <3>1. /\ old \o first \in Seq(X) /\ Len(old \o first) = Len(old) + Len(first)
          /\ \A k \in 1 .. Len(old) + Len(first) :
               (old \o first)[k] = IF k <= Len(old) THEN old[k] ELSE first[k - Len(old)]
      BY ConcatProperties
    <3>2. Len(old) = o /\ Len(first) = n BY <2>7, <2>8
    <3> QED BY <3>1, <3>2
  <2>10. Cells(db) = [k \in 1 .. o + n |-> db[k].c]
    <3>1. DOMAIN db = 1 .. o + n BY <2>1, <2>4, LenProperties DEF TableInv
    <3> QED BY <3>1 DEF Cells
  <2>11. \A k \in 1 .. o + n : all[k] = db[k].c
    <3> SUFFICES ASSUME NEW k \in 1 .. o + n PROVE all[k] = db[k].c OBVIOUS
    <3>1. CASE k <= o
      <4>1. k \in 1 .. o BY <3>1
      <4> QED BY <2>1, <2>3, <2>8, <2>9, <3>1, <4>1 DEF TableInv
    <3>2. CASE ~(k <= o)
      <4>1. k - o \in 1 .. n /\ o + (k - o) = k BY <3>2
      <4>2. db[o + (k - o)].c = Image[in[k - o]] BY <2>1, <2>3, <4>1 DEF TableInv
      <4> QED BY <2>7, <2>9, <3>2, <4>1, <4>2
    <3> QED BY <3>1, <3>2
  <2>12. Cells(db) = all
    <3>1. all = [k \in 1 .. o + n |-> all[k]] BY <2>9, LenProperties
    <3> QED BY <2>10, <2>11, <3>1
  <2>13. phase \in {"loop", "rows"} => n % op.batch_size = 0 BY <2>1, <2>3 DEF GroupInv
  <2>14. n \in 0 .. Len(in) BY <2>3
  <2> QED BY <2>3, <2>7, <2>8, <2>9, <2>12, <2>13, <2>14 DEF BcpStoresAPrefix, Sent
<1> QED BY <1>1, BcpInductive, PTL

------------------------------------------------------------------------------
(* What a writer has stored                                                 *)

(* The configuration's columns, the table's row for a row of its input and  *)
(* the rows its writing starts from, of a configuration o.                  *)
ColumnsOf(o) ==
  IF o.columns = NULL \/ (o.columns = << >> /\ o.kind \notin Exec)
  THEN [i \in DOMAIN o.fmts |-> i] ELSE o.columns

ImageOf(o) ==
  [row \in o.rows |->
    [t \in 1 .. o.width |->
      IF \E i \in DOMAIN ColumnsOf(o) : ColumnsOf(o)[i] = t THEN row[t] ELSE NULL]]

ImagesOf(o) == {ImageOf(o)[row] : row \in o.rows}

StartOf(o) == IF o.kind = "pg_copy" /\ o.truncate THEN << >> ELSE o.old

ModeOf(o) == IF o.mode = NULL THEN "update" ELSE o.mode

Upserters == {"pg_upsert", "ms_upsert"}

(* The same of this configuration.                                          *)
LEMMA OfThis == Columns = ColumnsOf(op) /\ Image = ImageOf(op) /\ Images = ImagesOf(op)
<1>1. Columns = ColumnsOf(op) BY DEF Columns, ColumnsOf
<1>2. Image = ImageOf(op) BY <1>1 DEF Image, Wanted, ImageOf
<1> QED BY <1>1, <1>2 DEF Images, ImagesOf

(* A table's rows, the row a cell vector makes.                             *)
Fresh(x) == [c |-> x, w |-> 1]

LEMMA RowsOfConcat ==
  ASSUME NEW X, NEW a \in Seq(X), NEW b \in Seq(X)
  PROVE  Rows(Concat(a, b)) = Concat(Rows(a), Rows(b))
<1>1. PICK g : g = [x \in X |-> Fresh(x)] OBVIOUS
<1>2. ASSUME NEW s \in Seq(X) PROVE Rows(s) = Mapped(g, s)
  <2>1. PICK n \in Nat : n = Len(s) /\ DOMAIN s = 1 .. n BY LenProperties
  <2>2. \A i \in 1 .. n : s[i] \in X BY <2>1, ElementOfSeq
  <2>3. \A i \in 1 .. n : g[s[i]] = [c |-> s[i], w |-> 1] BY <1>1, <2>2 DEF Fresh
  <2> QED BY <2>1, <2>3 DEF Rows, Mapped
<1>3. Concat(a, b) \in Seq(X) BY ConcatIsSeq
<1>4. Mapped(g, Concat(a, b)) = Concat(Mapped(g, a), Mapped(g, b)) BY MappedOfConcat
<1> QED BY <1>2, <1>3, <1>4

LEMMA RowsIsTable ==
  ASSUME NEW X, NEW a \in Seq(X), NEW n \in Nat, n = Len(a)
  PROVE  /\ Rows(a) \in Seq({Fresh(x) : x \in X}) /\ Len(Rows(a)) = n
         /\ \A i \in 1 .. n : Rows(a)[i] = Fresh(a[i])
<1>1. PICK r : r = Rows(a) OBVIOUS
<1>2. r = [i \in 1 .. n |-> Fresh(a[i])]
  <2>1. DOMAIN a = 1 .. n BY LenProperties
  <2> QED BY <1>1, <2>1 DEF Rows, Fresh
<1>3. \A i \in 1 .. n : a[i] \in X BY ElementOfSeq
<1>4. PICK S : S = {Fresh(x) : x \in X} OBVIOUS
<1>5. \A i \in 1 .. n : Fresh(a[i]) \in S BY <1>3, <1>4
<1>6. r \in [1 .. n -> S] BY <1>2, <1>5
<1>7. r \in Seq(S) /\ Len(r) = n BY <1>6
<1>8. \A i \in 1 .. n : r[i] = Fresh(a[i]) BY <1>2
<1> QED BY <1>1, <1>4, <1>7, <1>8

LEMMA RowsOfOne == ASSUME NEW x PROVE Rows(<<x>>) = <<Fresh(x)>>
BY DEF Rows, Fresh

(* A row that is inserted.                                                  *)
LEMMA OneRowMore ==
  ASSUME NEW X, NEW a \in Seq(X), NEW x \in X
  PROVE  Append(Rows(a), Fresh(x)) = Rows(Append(a, x))
<1>1. PICK n \in Nat : n = Len(a) BY LenProperties
<1>2. PICK S : S = {Fresh(e) : e \in X} OBVIOUS
<1>3. Rows(a) \in Seq(S) /\ Fresh(x) \in S BY <1>1, <1>2, RowsIsTable
<1>4. Append(Rows(a), Fresh(x)) = Concat(Rows(a), <<Fresh(x)>>) BY <1>3, AppendIs
<1>5. Append(a, x) = Concat(a, <<x>>) BY AppendIs
<1>6. <<x>> \in Seq(X) BY OneIsSeq
<1>7. Rows(Concat(a, <<x>>)) = Concat(Rows(a), Rows(<<x>>)) BY <1>6, RowsOfConcat
<1> QED BY <1>4, <1>5, <1>7, RowsOfOne

(* A group that is inserted.                                                *)
LEMMA ExtendedByRows ==
  ASSUME NEW X, NEW a \in Seq(X), NEW b \in Seq(X)
  PROVE  Extended(Rows(a), b, Len(b)) = Rows(Concat(a, b))
<1>1. PICK m \in Nat, n \in Nat : m = Len(a) /\ n = Len(b) BY LenProperties
<1>2. PICK S : S = {Fresh(e) : e \in X} OBVIOUS
<1>3. PICK t \in Seq(S) : t = Rows(a) /\ Len(t) = m BY <1>1, <1>2, RowsIsTable
<1>4. PICK r \in Seq(S) : r = Rows(b) /\ Len(r) = n /\ \A i \in 1 .. n : r[i] = Fresh(b[i])
  BY <1>1, <1>2, RowsIsTable
<1>5. PICK e : e = Extended(t, b, n) OBVIOUS
<1>6. e \in Seq(S) /\ Len(e) = m + n
  <2>1. \A x \in X : [c |-> x, w |-> 1] \in S BY <1>2 DEF Fresh
  <2>2. n \in 0 .. Len(b) BY <1>1
  <2>3. Extended(t, b, n) \in Seq(S) BY <2>1, <2>2, ExtendedIsTable
  <2>4. DOMAIN e = 1 .. m + n BY <1>3, <1>5 DEF Extended
  <2>5. m + n \in Nat OBVIOUS
  <2> QED BY <1>5, <2>3, <2>4, <2>5, LenProperties
<1>7. \A i \in 1 .. m + n : e[i] = IF i <= m THEN t[i] ELSE [c |-> b[i - m], w |-> 1]
  BY <1>3, <1>5 DEF Extended
<1>8. \A i \in 1 .. m : e[i] = t[i]
  <2>1. \A i \in 1 .. m : i \in 1 .. m + n /\ i <= m OBVIOUS
  <2> QED BY <1>7, <2>1
<1>9. ASSUME NEW i \in 1 .. n PROVE e[m + i] = r[i]
  <2>1. PICK k \in 1 .. m + n : k = m + i /\ ~(k <= m) /\ k - m = i
    <3>1. m + i \in 1 .. m + n /\ ~(m + i <= m) /\ (m + i) - m = i OBVIOUS
    <3> QED BY <3>1
  <2>2. e[k] = [c |-> b[i], w |-> 1] BY <1>7, <2>1
  <2> QED BY <1>4, <2>1, <2>2 DEF Fresh
<1>10. Chained(e, t, r, m, n) BY <1>6, <1>8, <1>9 DEF Chained
<1>11. e = Concat(t, r) BY <1>3, <1>4, <1>6, <1>10, IsConcat
<1>12. Rows(Concat(a, b)) = Concat(Rows(a), Rows(b)) BY RowsOfConcat
<1> QED BY <1>1, <1>3, <1>4, <1>5, <1>11, <1>12

LEMMA ExtendedByNothing ==
  ASSUME NEW S, NEW t \in Seq(S), NEW rows
  PROVE  Extended(t, rows, 0) = t
<1>1. PICK m \in Nat : m = Len(t) BY LenProperties
<1>2. PICK e : e = Extended(t, rows, 0) OBVIOUS
<1>3. e = [i \in 1 .. m |-> t[i]]
  <2>1. m + 0 = m /\ \A i \in 1 .. m : i <= m OBVIOUS
  <2> QED BY <1>1, <1>2, <2>1 DEF Extended
<1>4. t = [i \in 1 .. m |-> t[i]] BY <1>1, LenProperties
<1> QED BY <1>2, <1>3, <1>4

(* COPY's rows go in as a group does, or are refused.                       *)
LEMMA CopyInserts ==
  ASSUME NEW t, NEW u, NEW s, s.do = "error", NEW new
  PROVE  PgExecute(t, u, s, new) \in {Append(t, Fresh(new)), ERR}
BY DEF PgExecute, Fresh

(* COPY stops at the first row that is refused.                             *)
LEMMA CopyExtends ==
  ASSUME NEW s, s.do = "error", NEW u, NEW S, NEW t \in Seq(S), NEW X, NEW rows \in Seq(X),
         \A x \in X : Fresh(x) \in S
  PROVE  ExecuteAll(PgExecute, t, u, s, rows) \in {ERR, Extended(t, rows, Len(rows))}
<1> DEFINE Body(f, n) == IF n = 0 THEN t
                         ELSE IF f[n - 1] = ERR THEN ERR
                         ELSE PgExecute(f[n - 1], u, s, rows[n])
           Solves(f) == f = [n \in 0 .. Len(rows) |-> Body(f, n)]
           After == CHOOSE f : Solves(f)
<1>0. PICK len \in Nat : len = Len(rows) BY LenProperties
<1>1. ExecuteAll(PgExecute, t, u, s, rows) = After[len] BY <1>0 DEF ExecuteAll
<1>2. PICK T : T = Seq(S) \cup {ERR} OBVIOUS
<1> DEFINE step == [p \in T \X (1 .. len) |->
                      IF p[1] = ERR THEN ERR ELSE PgExecute(p[1], u, s, rows[p[2]])]
<1>3. step \in [T \X (1 .. len) -> T]
  <2> SUFFICES ASSUME NEW v \in T, NEW n \in 1 .. len
               PROVE  (IF v = ERR THEN ERR ELSE PgExecute(v, u, s, rows[n])) \in T
    OBVIOUS
  <2>1. CASE v = ERR BY <1>2, <2>1
  <2>2. CASE v # ERR
    <3>1. PICK e \in S : e = Fresh(rows[n])
      <4>1. rows[n] \in X BY <1>0, ElementOfSeq
      <4> QED BY <4>1
    <3>2. PICK w \in Seq(S) : w = v BY <1>2, <2>2
    <3>3. Append(w, e) \in Seq(S) BY AppendProperties
    <3>4. PgExecute(v, u, s, rows[n]) \in {Append(v, Fresh(rows[n])), ERR} BY CopyInserts
    <3> QED BY <1>2, <2>2, <3>1, <3>2, <3>3, <3>4
  <2> QED BY <2>1, <2>2
<1>4. t \in T BY <1>2
<1>5. PICK f \in [0 .. len -> T] : Follows(f, len, t, step)
  <2> HIDE DEF step
  <2> QED BY <1>3, <1>4, RecursiveFunction
<1>6. Solves(f)
  <2>1. ASSUME NEW n \in 0 .. len PROVE f[n] = Body(f, n)
    <3>1. CASE n = 0 BY <1>5, <3>1 DEF Follows
    <3>2. CASE n # 0
      <4>1. n \in 1 .. len /\ n - 1 \in 0 .. len BY <3>2
      <4>2. f[n] = step[<<f[n - 1], n>>] BY <1>5, <4>1 DEF Follows
      <4>3. <<f[n - 1], n>> \in T \X (1 .. len) BY <1>5, <4>1
      <4>4. step[<<f[n - 1], n>>] = IF f[n - 1] = ERR THEN ERR ELSE PgExecute(f[n - 1], u, s, rows[n])
        BY <4>3
      <4> QED BY <3>2, <4>2, <4>4
    <3> QED BY <3>1, <3>2
  <2>2. f = [n \in 0 .. len |-> f[n]] BY <1>5
  <2> HIDE DEF Body
  <2> QED BY <1>0, <2>1, <2>2
<1>7. Solves(After)
  <2> HIDE DEF Solves
  <2> QED BY <1>6
<1>8. \A n \in 0 .. len : After[n] = Body(After, n)
  <2> HIDE DEF After, Body
  <2> QED BY <1>0, <1>7
<1> HIDE DEF After, step, Solves
<1> DEFINE P == {n \in 0 .. len : After[n] \in {ERR, Extended(t, rows, n)}}
<1>9. 0 \in P
  <2>1. 0 \in 0 .. len OBVIOUS
  <2>2. After[0] = t BY <1>8, <2>1
  <2>3. Extended(t, rows, 0) = t BY ExtendedByNothing
  <2> QED BY <2>1, <2>2, <2>3
<1>10. ASSUME NEW n \in 0 .. len, n # len, n \in P PROVE n + 1 \in P
  <2>1. PICK m \in 0 .. len : m = n + 1 /\ m # 0 /\ m - 1 = n /\ m > 0
    <3>1. n + 1 \in 0 .. len /\ n + 1 # 0 /\ (n + 1) - 1 = n /\ n + 1 > 0 BY <1>10
    <3> QED BY <3>1
  <2>2. After[m] = IF After[n] = ERR THEN ERR ELSE PgExecute(After[n], u, s, rows[m])
    BY <1>8, <2>1
  <2>3. After[n] = ERR \/ After[n] = Extended(t, rows, n) BY <1>10
  <2>4. Append(Extended(t, rows, n), Fresh(rows[m])) = Extended(t, rows, m)
    <3>1. m \in 0 .. Len(rows) BY <1>0
    <3>2. \A x \in X : [c |-> x, w |-> 1] \in S BY DEF Fresh
    <3>3. Append(Extended(t, rows, m - 1), [c |-> rows[m], w |-> 1]) = Extended(t, rows, m)
      BY <2>1, <3>1, <3>2, ExtendedGrows
    <3> QED BY <2>1, <3>3 DEF Fresh
  <2>5. PgExecute(After[n], u, s, rows[m]) \in {Append(After[n], Fresh(rows[m])), ERR} BY CopyInserts
  <2> QED BY <2>1, <2>2, <2>3, <2>4, <2>5
<1>11. len \in P
  <2>1. len \in 0 .. len OBVIOUS
  <2> HIDE DEF P
  <2> QED BY <1>9, <1>10, <2>1, Induction
<1> QED BY <1>0, <1>1, <1>11

(* What a group makes of a table of fresh rows.                             *)
LEMMA CopiesGroup ==
  ASSUME NEW s, s.do = "error", NEW u, NEW X, NEW a \in Seq(X), NEW b \in Seq(X), NEW work,
         work = ExecuteAll(PgExecute, Rows(a), u, s, b), work # ERR
  PROVE  work = Rows(Concat(a, b))
<1>1. PICK n \in Nat : n = Len(a) BY LenProperties
<1>2. PICK S : S = {Fresh(e) : e \in X} OBVIOUS
<1>3. PICK t \in Seq(S) : t = Rows(a) BY <1>1, <1>2, RowsIsTable
<1>4. \A x \in X : Fresh(x) \in S BY <1>2
<1>5. ExecuteAll(PgExecute, t, u, s, b) \in {ERR, Extended(t, b, Len(b))} BY <1>4, CopyExtends
<1>6. Extended(Rows(a), b, Len(b)) = Rows(Concat(a, b)) BY ExtendedByRows
<1> QED BY <1>3, <1>5, <1>6

LEMMA InsertsGroup ==
  ASSUME stmt.do = "error", NEW X, NEW a \in Seq(X), NEW b \in Seq(X), NEW work,
         work = Insert(Rows(a), b), work # ERR
  PROVE  work = Rows(Concat(a, b))
<1>1. PICK n \in Nat : n = Len(a) BY LenProperties
<1>2. PICK S : S = {Fresh(e) : e \in X} OBVIOUS
<1>3. PICK t \in Seq(S) : t = Rows(a) BY <1>1, <1>2, RowsIsTable
<1>4. \A x \in X : [c |-> x, w |-> 1] \in S BY <1>2 DEF Fresh
<1>5. Insert(t, b) # ERR BY <1>3
<1>6. Insert(t, b) = Extended(t, b, Len(b)) BY <1>4, <1>5, InsertExtends
<1>7. Extended(Rows(a), b, Len(b)) = Rows(Concat(a, b)) BY ExtendedByRows
<1> QED BY <1>3, <1>6, <1>7

(* A row whose cells arrive as they are is put in its columns.              *)
LEMMA PlacedByName ==
  ASSUME NEW row, NEW cells, \A i \in DOMAIN Columns : cells[i] = row[Columns[i]],
         \A i \in DOMAIN Columns : Target(i) = Columns[i]
  PROVE  Placed(cells) = Wanted(row)
<1>1. ASSUME NEW t \in 1 .. op.width
      PROVE  Placed(cells)[t] = IF \E i \in DOMAIN Columns : Columns[i] = t THEN row[t] ELSE NULL
  <2>1. PICK hits : hits = {i \in DOMAIN Columns : Target(i) = t} OBVIOUS
  <2>2. Placed(cells)[t] = IF hits = {} THEN NULL ELSE cells[CHOOSE i \in hits : TRUE]
    BY <2>1 DEF Placed
  <2>3. CASE hits = {} BY <2>1, <2>2, <2>3
  <2>4. CASE hits # {}
    <3>1. PICK k : k = CHOOSE i \in hits : TRUE OBVIOUS
    <3>2. k \in hits BY <2>4, <3>1
    <3> QED BY <2>1, <2>2, <2>4, <3>1, <3>2
  <2> QED BY <2>3, <2>4
<1>2. Placed(cells) = [t \in 1 .. op.width |-> Placed(cells)[t]] BY DEF Placed
<1> QED BY <1>1, <1>2 DEF Wanted

------------------------------------------------------------------------------
(* What an upsert promises                                                  *)

WrittenBy(o) == ToSet(ColumnsOf(o))

Key(o, r) == KeyOf(r, o.key)
Whole(k) == NULL \notin ToSet(k)

Overwritten(o, r, n) == [c \in 1 .. o.width |-> IF c \in WrittenBy(o) THEN n[c] ELSE r[c]]

\* A row of the table is a cell of V for each column.
Vectors(o, V) == [1 .. o.width -> V]
Records(o, V) == [c : Vectors(o, V), w : Nat]

\* The rows with key k.
KeyedAs(o, V, k) == {r \in Vectors(o, V) : Key(o, r) = k}

(* The rows with a key are a selection.                                     *)
LEMMA KeyedByIs ==
  ASSUME NEW o, NEW V, NEW s \in Seq(Vectors(o, V)), NEW k
  PROVE  /\ KeyedBy(s, o.key, k) = Kept(s, KeyedAs(o, V, k))
         /\ KeyedBy(s, o.key, k) \in Seq(Vectors(o, V))
<1>1. PICK X : X = Vectors(o, V) OBVIOUS
<1>2. PICK n \in Nat : n = Len(s) BY LenProperties
<1>3. PICK all, some : all = {r \in X : Key(o, r) = k} /\ some = {r \in ToSet(s) : Key(o, r) = k} OBVIOUS
<1>4. \A i \in 1 .. n : s[i] \in X /\ s[i] \in ToSet(s)
  <2>1. \A i \in 1 .. n : s[i] \in X BY <1>1, <1>2, ElementOfSeq
  <2>2. DOMAIN s = 1 .. n BY <1>2, LenProperties
  <2> QED BY <2>1, <2>2 DEF ToSet
<1>5. \A i \in 1 .. n : s[i] \in all <=> s[i] \in some BY <1>3, <1>4
<1>6. s \in Seq(X) BY <1>1
<1>7. Kept(s, all) = Kept(s, some) BY <1>2, <1>5, <1>6, KeptAgrees
<1>8. Kept(s, all) \in Seq(X) BY <1>6, KeptIsSeq
<1>9. KeyedBy(s, o.key, k) = Kept(s, some) BY <1>3 DEF KeyedBy, Key
<1> QED BY <1>1, <1>3, <1>7, <1>8, <1>9 DEF KeyedAs

LEMMA KeyedByNone ==
  ASSUME NEW o, NEW V, NEW s \in Seq(Vectors(o, V)), NEW k
  PROVE  KeyedBy(s, o.key, k) = << >> <=> \A i \in DOMAIN s : Key(o, s[i]) # k
<1>1. PICK X : X = Vectors(o, V) OBVIOUS
<1>2. PICK n \in Nat : n = Len(s) /\ DOMAIN s = 1 .. n BY LenProperties
<1>3. PICK all : all = {r \in X : Key(o, r) = k} OBVIOUS
<1>4. \A i \in 1 .. n : s[i] \in X BY <1>1, <1>2, ElementOfSeq
<1>5. s \in Seq(X) BY <1>1
<1>6. Kept(s, all) = << >> <=> \A i \in 1 .. n : s[i] \notin all BY <1>2, <1>5, KeptIsEmpty
<1>7. KeyedBy(s, o.key, k) = Kept(s, all)
  <2>1. KeyedBy(s, o.key, k) = Kept(s, KeyedAs(o, V, k)) BY KeyedByIs
  <2> QED BY <1>1, <1>3, <2>1 DEF KeyedAs
<1> QED BY <1>2, <1>3, <1>4, <1>6, <1>7

LEMMA KeyedByOne ==
  ASSUME NEW o, NEW V, NEW s \in Seq(Vectors(o, V)), NEW i \in DOMAIN s,
         \A j \in DOMAIN s : Key(o, s[j]) = Key(o, s[i]) => j = i
  PROVE  KeyedBy(s, o.key, Key(o, s[i])) = <<s[i]>>
<1>1. PICK X : X = Vectors(o, V) OBVIOUS
<1>2. PICK n \in Nat : n = Len(s) /\ DOMAIN s = 1 .. n BY LenProperties
<1>3. PICK all : all = {r \in X : Key(o, r) = Key(o, s[i])} OBVIOUS
<1>4. \A j \in 1 .. n : s[j] \in X BY <1>1, <1>2, ElementOfSeq
<1>5. s \in Seq(X) /\ i \in 1 .. n BY <1>1, <1>2
<1>6. s[i] \in all /\ \A j \in 1 .. n : s[j] \in all => j = i BY <1>2, <1>3, <1>4, <1>5
<1>7. Kept(s, all) = <<s[i]>> BY <1>2, <1>5, <1>6, KeptIsOne
<1>8. KeyedBy(s, o.key, Key(o, s[i])) = Kept(s, all)
  <2>1. PICK k : k = Key(o, s[i]) OBVIOUS
  <2>2. KeyedBy(s, o.key, k) = Kept(s, KeyedAs(o, V, k)) BY KeyedByIs
  <2> QED BY <1>1, <1>3, <2>1, <2>2 DEF KeyedAs
<1> QED BY <1>7, <1>8

LEMMA KeyedByOfAppend ==
  ASSUME NEW o, NEW V, NEW s \in Seq(Vectors(o, V)), NEW n \in Vectors(o, V), NEW k
  PROVE  KeyedBy(Append(s, n), o.key, k)
           = IF Key(o, n) = k THEN Append(KeyedBy(s, o.key, k), n) ELSE KeyedBy(s, o.key, k)
<1>1. PICK X : X = Vectors(o, V) OBVIOUS
<1>2. PICK all : all = KeyedAs(o, V, k) /\ (n \in all <=> Key(o, n) = k)
  <2>1. n \in KeyedAs(o, V, k) <=> Key(o, n) = k BY DEF KeyedAs
  <2> QED BY <2>1
<1>3. PICK one \in Seq(X) : one = <<n>> BY <1>1, OneIsSeq
<1>4. PICK t \in Seq(X) : t = Append(s, n) BY <1>1, AppendProperties
<1>5. t = Concat(s, one) BY <1>1, <1>3, <1>4, AppendIs
<1>6. Kept(t, all) = Concat(Kept(s, all), Kept(one, all))
  <2>1. s \in Seq(X) BY <1>1
  <2>2. Kept(Concat(s, one), all) = Concat(Kept(s, all), Kept(one, all)) BY <2>1, KeptJoins
  <2> QED BY <1>5, <2>2
<1>7. PICK a \in Seq(X) : a = Kept(s, all) /\ a = KeyedBy(s, o.key, k)
  BY <1>1, <1>2, KeyedByIs
<1>8. Kept(t, all) = KeyedBy(t, o.key, k) BY <1>1, <1>2, <1>4, KeyedByIs
<1>9. CASE n \in all
  <2>1. Kept(one, all) = one BY <1>1, <1>3, <1>9, KeptOfOne
  <2>2. Append(a, n) = Concat(a, <<n>>) BY <1>1, AppendIs
  <2> QED BY <1>2, <1>3, <1>4, <1>6, <1>7, <1>8, <1>9, <2>1, <2>2
<1>10. CASE n \notin all
  <2>1. Kept(one, all) = << >> BY <1>1, <1>3, <1>10, KeptOfOne
  <2>2. Concat(a, << >>) = a BY NothingAfter
  <2> QED BY <1>2, <1>4, <1>6, <1>7, <1>8, <1>10, <2>1, <2>2
<1> QED BY <1>9, <1>10

LEMMA LastOfAppend ==
  ASSUME NEW X, NEW s \in Seq(X), NEW e \in X
  PROVE  Last(Append(s, e)) = e /\ Append(s, e) # << >> /\ Append(s, e)[1] = IF s = << >> THEN e ELSE s[1]
<1>1. PICK n \in Nat : n = Len(s) /\ (s = << >> <=> n = 0)
  <2>1. Len(s) \in Nat BY LenProperties
  <2>2. s = << >> <=> Len(s) = 0 BY EmptySeq
  <2> QED BY <2>1, <2>2
<1>2. PICK t \in Seq(X) : /\ t = Append(s, e) /\ Len(t) = n + 1 /\ t[n + 1] = e
                          /\ \A i \in 1 .. n : t[i] = s[i]
  <2>1. /\ Append(s, e) \in Seq(X) /\ Len(Append(s, e)) = Len(s) + 1
        /\ \A i \in 1 .. Len(s) : Append(s, e)[i] = s[i]
        /\ Append(s, e)[Len(s) + 1] = e
    BY AppendProperties
  <2> QED BY <1>1, <2>1
<1>3. t # << >> BY <1>2
<1>4. Last(t) = e BY <1>2 DEF Last
<1>5. t[1] = IF s = << >> THEN e ELSE s[1]
  <2>1. CASE n = 0
    <3>1. n + 1 = 1 BY <2>1
    <3> QED BY <1>1, <1>2, <2>1, <3>1
  <2>2. CASE n # 0
    <3>1. 1 \in 1 .. n BY <2>2
    <3> QED BY <1>1, <1>2, <2>2, <3>1
  <2> QED BY <2>1, <2>2
<1> QED BY <1>2, <1>3, <1>4, <1>5

PromisedBy(o, d, k) == Promised(o.old, d, ColumnsOf(o), o.key, ModeOf(o), k)

TypedBy(o, V) == o.old \in Seq(Vectors(o, V)) /\ ImagesOf(o) \subseteq Vectors(o, V)

LEMMA ImageIsNullElsewhere ==
  ASSUME NEW o, NEW n \in ImagesOf(o)
  PROVE  /\ n = [c \in 1 .. o.width |-> n[c]]
         /\ \A c \in 1 .. o.width : c \notin WrittenBy(o) => n[c] = NULL
<1>1. PICK row \in o.rows : n = ImageOf(o)[row] BY DEF ImagesOf
<1>2. n = [t \in 1 .. o.width |->
             IF \E i \in DOMAIN ColumnsOf(o) : ColumnsOf(o)[i] = t THEN row[t] ELSE NULL]
  BY <1>1 DEF ImageOf
<1>3. \A t : (\E i \in DOMAIN ColumnsOf(o) : ColumnsOf(o)[i] = t) <=> t \in WrittenBy(o)
  BY DEF WrittenBy, ToSet
<1> QED BY <1>2, <1>3

LEMMA KeyedByStays ==
  ASSUME NEW o, NEW S, NEW s \in Seq(S), NEW k
  PROVE  KeyedBy(s, o.key, k) \in Seq(S)
BY KeptIsSeq DEF KeyedBy

LEMMA FirstAndLast ==
  ASSUME NEW S, NEW s \in Seq(S), s # << >>
  PROVE  s[1] \in S /\ Last(s) \in S
<1>1. PICK n \in Nat : n = Len(s) /\ n > 0
  <2>1. Len(s) \in Nat \ {0} BY EmptySeq
  <2> QED BY <2>1
<1>2. 1 \in 1 .. n /\ n \in 1 .. n BY <1>1
<1>3. s[1] \in S /\ s[n] \in S BY <1>1, <1>2, ElementOfSeq
<1> QED BY <1>1, <1>3 DEF Last

(* Whether a row with key k was there or was written.                       *)
Known(o, d, k) == KeyedBy(o.old, o.key, k) # << >> \/ KeyedBy(d, o.key, k) # << >>

(* What one more row changes of a promise: nothing, unless it has the key.  *)
LEMMA PromisedLater ==
  ASSUME NEW o, NEW V, TypedBy(o, V), NEW d \in Seq(ImagesOf(o)), NEW n \in ImagesOf(o), NEW k
  PROVE  PromisedBy(o, Append(d, n), k)
           = IF Key(o, n) # k THEN PromisedBy(o, d, k)
             ELSE IF ~ Known(o, d, k) THEN n
             ELSE IF ModeOf(o) = "ignore" THEN PromisedBy(o, d, k)
             ELSE Overwritten(o, PromisedBy(o, d, k), n)
<1>1. PICK X, I : X = Vectors(o, V) /\ I = ImagesOf(o) /\ I \subseteq X BY DEF TypedBy
<1>2. PICK was \in Seq(X) : was = KeyedBy(o.old, o.key, k)
  <2>1. o.old \in Seq(X) BY <1>1 DEF TypedBy
  <2> QED BY <2>1, KeyedByStays
<1>3. PICK new \in Seq(I) : new = KeyedBy(d, o.key, k)
  <2>1. d \in Seq(I) BY <1>1
  <2> QED BY <2>1, KeyedByStays
<1>4. PICK later : later = KeyedBy(Append(d, n), o.key, k) OBVIOUS
<1>5. later = IF Key(o, n) = k THEN Append(new, n) ELSE new
  <2>1. d \in Seq(Vectors(o, V)) /\ n \in Vectors(o, V) BY <1>1
  <2>2. KeyedBy(Append(d, n), o.key, k)
           = IF Key(o, n) = k THEN Append(KeyedBy(d, o.key, k), n) ELSE KeyedBy(d, o.key, k)
    BY <2>1, KeyedByOfAppend
  <2> QED BY <1>3, <1>4, <2>2
<1>6. PICK now, then : now = PromisedBy(o, d, k) /\ then = PromisedBy(o, Append(d, n), k) OBVIOUS
<1> DEFINE Merge(last) == [c \in DOMAIN was[1] |-> IF c \in WrittenBy(o) THEN last[c] ELSE was[1][c]]
           Says(rows) == IF rows = << >> THEN was[1]
                         ELSE IF was = << >>
                              THEN IF ModeOf(o) = "ignore" THEN rows[1] ELSE Last(rows)
                              ELSE IF ModeOf(o) = "ignore" THEN was[1] ELSE Merge(Last(rows))
<1>7. now = Says(new) /\ then = Says(later)
  BY <1>2, <1>3, <1>4, <1>6 DEF PromisedBy, Promised, WrittenBy
<1>8. Known(o, d, k) <=> was # << >> \/ new # << >> BY <1>2, <1>3 DEF Known
<1>9. n \in I /\ Last(Append(new, n)) = n /\ Append(new, n) # << >>
      /\ Append(new, n)[1] = IF new = << >> THEN n ELSE new[1]
  BY <1>1, LastOfAppend
<1>10. CASE Key(o, n) # k BY <1>5, <1>6, <1>7, <1>10
<1>11. CASE Key(o, n) = k /\ ~ Known(o, d, k)
  <2>1. then = n BY <1>5, <1>7, <1>8, <1>9, <1>11
  <2> QED BY <1>6, <1>11, <2>1
<1>12. CASE Key(o, n) = k /\ Known(o, d, k) /\ ModeOf(o) = "ignore"
  <2>1. then = now BY <1>5, <1>7, <1>8, <1>9, <1>12
  <2> QED BY <1>6, <1>12, <2>1
<1>13. CASE Key(o, n) = k /\ Known(o, d, k) /\ ModeOf(o) # "ignore"
  <2>1. CASE was = << >>
    <3>1. then = n BY <1>5, <1>7, <1>9, <1>13, <2>1
    <3>2. new # << >> /\ now = Last(new) BY <1>7, <1>8, <1>13, <2>1
    <3>3. now \in I BY <3>2, FirstAndLast
    <3>4. \A c \in 1 .. o.width : c \notin WrittenBy(o) => now[c] = NULL /\ n[c] = NULL
      BY <1>1, <3>3, ImageIsNullElsewhere
    <3>5. n = [c \in 1 .. o.width |-> n[c]] BY ImageIsNullElsewhere
    <3>6. Overwritten(o, now, n) = [c \in 1 .. o.width |-> n[c]] BY <3>4 DEF Overwritten
    <3> QED BY <1>6, <1>13, <3>1, <3>5, <3>6
  <2>2. CASE was # << >>
    <3>1. then = Merge(n) BY <1>5, <1>7, <1>9, <1>13, <2>2
    <3>2. was[1] \in X BY <2>2, FirstAndLast
    <3>3. DOMAIN was[1] = 1 .. o.width BY <1>1, <3>2 DEF Vectors
    <3>4. now = was[1] \/ now = Merge(Last(new)) BY <1>7, <1>13, <2>2
    <3>5. \A c \in 1 .. o.width : c \notin WrittenBy(o) => now[c] = was[1][c]
      BY <3>3, <3>4
    <3>6. Merge(n) = Overwritten(o, now, n) BY <3>3, <3>5 DEF Overwritten
    <3> QED BY <1>6, <1>13, <3>1, <3>6
  <2> QED BY <2>1, <2>2
<1> QED BY <1>10, <1>11, <1>12, <1>13

(* What one upsert makes of a table v: the row is new, or those with its    *)
(* key are written over, or left.                                           *)
Hits(o, r, n) == Whole(Key(o, n)) /\ Key(o, r.c) = Key(o, n)

Rewritten(o, r, n, new) ==
  /\ new.c = (IF ModeOf(o) = "ignore" THEN r.c ELSE Overwritten(o, r.c, n))
  /\ ModeOf(o) = "update_if_changed" => new = r \/ \E c \in WrittenBy(o) : r.c[c] # n[c]

IsNew(o, v, n, work) ==
  /\ \A i \in DOMAIN v : ~ Hits(o, v[i], n)
  /\ work = Append(v, Fresh(n))

IsOld(o, V, v, n, work) ==
  /\ ModeOf(o) # "error" /\ \E i \in DOMAIN v : Hits(o, v[i], n)
  /\ work \in Seq(Records(o, V)) /\ DOMAIN work = DOMAIN v
  /\ \A i \in DOMAIN v : IF Hits(o, v[i], n) THEN Rewritten(o, v[i], n, work[i]) ELSE work[i] = v[i]

\* The statement of an upsert.
Prepared(o, s) ==
  /\ o.key \in Seq(Nat) /\ o.key # << >> /\ ToSet(o.key) \subseteq WrittenBy(o)
  /\ WrittenBy(o) \subseteq 1 .. o.width
  /\ IF ModeOf(o) = "error" THEN s.do = "error"
     ELSE /\ s.keys = o.key /\ s.set = WrittenBy(o) \ ToSet(o.key)
          /\ s.do = IF ModeOf(o) = "ignore" \/ s.set = {} THEN "nothing" ELSE "update"
          /\ s.guarded <=> ModeOf(o) = "update_if_changed"

(* A unique key conflicts with a row that has no null in it.                *)
LEMMA SameIsHit ==
  ASSUME NEW o, NEW r, NEW n
  PROVE  Same(n, r.c, ToSet(o.key)) <=> Hits(o, r, n)
<1>1. PICK keys, old : keys = o.key /\ old = r.c OBVIOUS
<1>2. \A x : DOMAIN KeyOf(x, keys) = DOMAIN keys /\ \A i \in DOMAIN keys : KeyOf(x, keys)[i] = x[keys[i]]
  BY DEF KeyOf
<1>3. KeyOf(old, keys) = KeyOf(n, keys) <=> \A i \in DOMAIN keys : old[keys[i]] = n[keys[i]]
  BY DEF KeyOf
<1>4. Whole(KeyOf(n, keys)) <=> \A i \in DOMAIN keys : n[keys[i]] # NULL
  BY <1>2 DEF Whole, ToSet
<1>5. Same(n, old, ToSet(keys)) <=> \A i \in DOMAIN keys : n[keys[i]] # NULL /\ n[keys[i]] = old[keys[i]]
  BY DEF Same, ToSet
<1> QED BY <1>1, <1>3, <1>4, <1>5 DEF Hits, Key

(* Writing over the columns of a row that has the key already.              *)
LEMMA KeyIsTheirs ==
  ASSUME NEW o, NEW a, NEW b, Key(o, a) = Key(o, b), NEW c \in ToSet(o.key)
  PROVE  a[c] = b[c]
<1>1. PICK i \in DOMAIN o.key : c = o.key[i] BY DEF ToSet
<1>2. Key(o, a)[i] = a[o.key[i]] /\ Key(o, b)[i] = b[o.key[i]] BY DEF Key, KeyOf
<1> QED BY <1>1, <1>2

(* An update writes all but the key, which is the same.                     *)
LEMMA TouchRewrites ==
  ASSUME NEW o, NEW V, NEW s, Prepared(o, s), s.do = "update",
         NEW r \in Records(o, V), NEW n \in Vectors(o, V), Hits(o, r, n)
  PROVE  Rewritten(o, r, n, Touch(s, r, n)) /\ Touch(s, r, n) \in Records(o, V)
<1>1. /\ ModeOf(o) # "error" /\ ModeOf(o) # "ignore" /\ s.set = WrittenBy(o) \ ToSet(o.key)
      /\ s.guarded <=> ModeOf(o) = "update_if_changed"
  BY DEF Prepared
<1>2. PICK old : old = r.c /\ old \in Vectors(o, V) /\ r.w \in Nat BY DEF Records
<1>3. DOMAIN old = 1 .. o.width /\ old = [c \in 1 .. o.width |-> old[c]] BY <1>2 DEF Vectors
<1>4. \A c \in ToSet(o.key) : old[c] = n[c] BY <1>2, KeyIsTheirs DEF Hits
<1>5. \A c \in 1 .. o.width :
        Overwritten(o, old, n)[c] = IF c \in s.set THEN n[c] ELSE old[c]
  BY <1>1, <1>4 DEF Overwritten
<1>6. Overwritten(o, old, n) = [c \in 1 .. o.width |-> IF c \in s.set THEN n[c] ELSE old[c]]
  BY <1>5 DEF Overwritten
<1>7. CASE s.guarded /\ \A c \in s.set : old[c] = n[c]
  <2>1. Touch(s, r, n) = r BY <1>2, <1>7 DEF Touch
  <2>2. \A c \in 1 .. o.width : (IF c \in s.set THEN n[c] ELSE old[c]) = old[c] BY <1>7
  <2>3. Overwritten(o, old, n) = old BY <1>3, <1>6, <2>2
  <2> QED BY <1>1, <1>2, <2>1, <2>3 DEF Rewritten
<1>8. CASE ~(s.guarded /\ \A c \in s.set : old[c] = n[c])
  <2>1. Touch(s, r, n) = Written(r, n, s.set) BY <1>2, <1>8 DEF Touch
  <2>2. Written(r, n, s.set) = [c |-> Overwritten(o, old, n), w |-> r.w + 1]
    BY <1>2, <1>3, <1>6 DEF Written
  <2>3. s.guarded => \E c \in WrittenBy(o) : old[c] # n[c] BY <1>1, <1>8
  <2>4. Overwritten(o, old, n) \in Vectors(o, V) BY <1>2 DEF Overwritten, Vectors
  <2>5. r.w + 1 \in Nat BY <1>2
  <2>6. [c |-> Overwritten(o, old, n), w |-> r.w + 1] \in Records(o, V) BY <2>4, <2>5 DEF Records
  <2> QED BY <1>1, <1>2, <2>1, <2>2, <2>3, <2>6 DEF Rewritten
<1> QED BY <1>7, <1>8

\* With nothing but the key to write, there is nothing to write.
LEMMA NothingRewrites ==
  ASSUME NEW o, NEW V, NEW s, Prepared(o, s), s.do = "nothing",
         NEW r \in Records(o, V), NEW n \in Vectors(o, V), Hits(o, r, n)
  PROVE  Rewritten(o, r, n, r)
<1>1. CASE ModeOf(o) = "ignore" BY <1>1 DEF Rewritten
<1>2. CASE ModeOf(o) # "ignore"
  <2>1. WrittenBy(o) \subseteq ToSet(o.key) BY <1>2 DEF Prepared
  <2>2. PICK old : old = r.c /\ old \in Vectors(o, V) BY DEF Records
  <2>3. old = [c \in 1 .. o.width |-> old[c]] BY <2>2 DEF Vectors
  <2>4. \A c \in ToSet(o.key) : old[c] = n[c] BY <2>2, KeyIsTheirs DEF Hits
  <2>5. \A c \in 1 .. o.width : (IF c \in WrittenBy(o) THEN n[c] ELSE old[c]) = old[c] BY <2>1, <2>4
  <2>6. Overwritten(o, old, n) = old BY <2>3, <2>5 DEF Overwritten
  <2> QED BY <1>2, <2>2, <2>6 DEF Rewritten
<1> QED BY <1>1, <1>2

(* The rows an update rewrites, and what it makes of the table.             *)
RowsHit(o, v, n) == {i \in DOMAIN v : Hits(o, v[i], n)}
Merged(s, v, n, hits) == [i \in DOMAIN v |-> IF i \in hits THEN Touch(s, v[i], n) ELSE v[i]]

(* The rows an update or a "do nothing" leaves.                             *)
LEMMA HitsAreWritten ==
  ASSUME NEW o, NEW V, NEW s, Prepared(o, s), ModeOf(o) # "error",
         NEW v \in Seq(Records(o, V)), NEW n \in Vectors(o, V), NEW work,
         RowsHit(o, v, n) # {},
         work = IF s.do = "nothing" THEN v ELSE Merged(s, v, n, RowsHit(o, v, n))
  PROVE  IsOld(o, V, v, n, work)
<1>1. PICK m \in Nat : m = Len(v) /\ DOMAIN v = 1 .. m BY LenProperties
<1>2. \A i \in 1 .. m : v[i] \in Records(o, V) BY <1>1, ElementOfSeq
<1>0. \E i \in DOMAIN v : Hits(o, v[i], n) BY DEF RowsHit
<1>3. CASE s.do = "nothing"
  <2>1. work = v BY <1>3
  <2>2. \A i \in DOMAIN v : Hits(o, v[i], n) => Rewritten(o, v[i], n, v[i])
    BY <1>1, <1>2, <1>3, NothingRewrites
  <2> QED BY <1>0, <2>1, <2>2 DEF IsOld
<1>4. CASE s.do # "nothing"
  <2>1. s.do = "update" BY <1>4 DEF Prepared
  <2>2. PICK hits : hits = RowsHit(o, v, n) /\ \A i \in 1 .. m : i \in hits <=> Hits(o, v[i], n)
    <3>1. \A i \in 1 .. m : i \in RowsHit(o, v, n) <=> Hits(o, v[i], n) BY <1>1, Zenon DEF RowsHit
    <3> QED BY <3>1
  <2>3. work = [i \in 1 .. m |-> IF i \in hits THEN Touch(s, v[i], n) ELSE v[i]]
    BY <1>1, <1>4, <2>2 DEF Merged
  <2>4. \A i \in 1 .. m : i \in hits =>
          Rewritten(o, v[i], n, Touch(s, v[i], n)) /\ Touch(s, v[i], n) \in Records(o, V)
    BY <1>2, <2>1, <2>2, TouchRewrites
  <2>5. \A i \in 1 .. m : work[i] \in Records(o, V) BY <1>2, <2>3, <2>4
  <2>6. work = [i \in 1 .. m |-> work[i]] BY <2>3
  <2>7. work \in [1 .. m -> Records(o, V)] BY <2>5, <2>6
  <2>8. work \in Seq(Records(o, V)) BY <2>7
  <2>9. DOMAIN work = DOMAIN v BY <1>1, <2>6
  <2>10. \A i \in DOMAIN v : IF Hits(o, v[i], n) THEN Rewritten(o, v[i], n, work[i]) ELSE work[i] = v[i]
    BY <1>1, <2>2, <2>3, <2>4
  <2> QED BY <1>0, <2>8, <2>9, <2>10 DEF IsOld
<1> QED BY <1>3, <1>4

(* INSERT ... ON CONFLICT and MERGE.                                        *)
PgHits(v, uniq, n) == {i \in DOMAIN v : uniq # {} /\ Same(n, v[i].c, uniq)}
MsHits(v, s, n) == {i \in DOMAIN v : s.do # "error" /\ Same(n, v[i].c, ToSet(s.keys))}

LEMMA PgExecuteIs ==
  ASSUME NEW v, NEW uniq, NEW s, NEW n
  PROVE  PgExecute(v, uniq, s, n) =
           IF s.do # "error" /\ ToSet(s.keys) # uniq THEN ERR
           ELSE IF PgHits(v, uniq, n) = {} THEN Append(v, Fresh(n))
           ELSE CASE s.do = "error" -> ERR
                  [] s.do = "nothing" -> v
                  [] s.do = "update" -> Merged(s, v, n, PgHits(v, uniq, n))
BY DEF PgExecute, PgHits, Merged, Fresh

MsResult(v, s, n) ==
  IF MsHits(v, s, n) = {} THEN Append(v, Fresh(n))
  ELSE IF s.do = "nothing" THEN v ELSE Merged(s, v, n, MsHits(v, s, n))

LEMMA MsExecuteIs ==
  ASSUME NEW v, NEW uniq, NEW s, NEW n
  PROVE  MsExecute(v, uniq, s, n) = IF Unique(MsResult(v, s, n), uniq) THEN MsResult(v, s, n) ELSE ERR
BY DEF MsExecute, MsResult, MsHits, Merged, Fresh

(* ON CONFLICT: the row is new, or those with its key are rewritten.        *)
LEMMA PgMerges ==
  ASSUME NEW o, NEW V, NEW s, Prepared(o, s), o.uniq = ToSet(o.key),
         NEW v \in Seq(Records(o, V)), NEW n \in Vectors(o, V),
         NEW work, work = PgExecute(v, o.uniq, s, n), work # ERR
  PROVE  IsNew(o, v, n, work) \/ IsOld(o, V, v, n, work)
<1>1. PICK hits : hits = RowsHit(o, v, n) OBVIOUS
<1>2. PgHits(v, o.uniq, n) = hits
  <2>1. o.uniq # {}
    <3>1. 1 \in DOMAIN o.key BY DEF Prepared
    <3> QED BY <3>1 DEF ToSet
  <2>2. \A i \in DOMAIN v : Same(n, v[i].c, o.uniq) <=> Hits(o, v[i], n) BY SameIsHit
  <2> QED BY <1>1, <2>1, <2>2 DEF PgHits, RowsHit
<1>3. /\ hits = {} => work = Append(v, Fresh(n))
      /\ hits # {} => s.do # "error"
      /\ hits # {} /\ s.do = "nothing" => work = v
      /\ hits # {} /\ s.do = "update" => work = Merged(s, v, n, hits)
  BY <1>2, PgExecuteIs
<1>4. CASE hits = {} BY <1>1, <1>3, <1>4 DEF IsNew, RowsHit
<1>5. CASE hits # {}
  <2>1. ModeOf(o) # "error" /\ s.do \in {"nothing", "update"} BY <1>3, <1>5 DEF Prepared
  <2>2. work = IF s.do = "nothing" THEN v ELSE Merged(s, v, n, RowsHit(o, v, n))
    BY <1>1, <1>3, <1>5, <2>1
  <2> QED BY <1>1, <1>5, <2>1, <2>2, HitsAreWritten
<1> QED BY <1>4, <1>5

(* MERGE does the same.                                                     *)
LEMMA MsMerges ==
  ASSUME NEW o, NEW V, NEW s, Prepared(o, s), o.uniq = ToSet(o.key),
         NEW v \in Seq(Records(o, V)), NEW n \in Vectors(o, V),
         NEW work, work = MsExecute(v, o.uniq, s, n), work # ERR
  PROVE  IsNew(o, v, n, work) \/ IsOld(o, V, v, n, work)
<1>1. PICK hits : hits = RowsHit(o, v, n) OBVIOUS
<1>0. work = MsResult(v, s, n) /\ Unique(work, o.uniq) BY MsExecuteIs
<1>2. CASE s.do = "error"
  <2>1. work = Append(v, Fresh(n)) /\ Unique(Append(v, Fresh(n)), o.uniq)
    <3>1. MsHits(v, s, n) = {} BY <1>2 DEF MsHits
    <3> QED BY <1>0, <3>1 DEF MsResult
  <2>2. PICK m \in Nat : m = Len(v) /\ DOMAIN v = 1 .. m BY LenProperties
  <2>3. PICK all : all = Append(v, Fresh(n)) OBVIOUS
  <2>4. DOMAIN all = 1 .. m + 1 /\ all[m + 1] = Fresh(n) /\ \A i \in 1 .. m : all[i] = v[i]
    <3>1. PICK S : S = Records(o, V) \cup {Fresh(n)} OBVIOUS
    <3>2. v \in Seq(S) /\ Fresh(n) \in S
      <4>1. \A i \in 1 .. m : v[i] \in S BY <2>2, <3>1, ElementOfSeq
      <4>2. v \in Seq(S) BY <2>2, <4>1, SeqOfRange
      <4> QED BY <3>1, <4>2
    <3>3. /\ Append(v, Fresh(n)) \in Seq(S) /\ Len(Append(v, Fresh(n))) = Len(v) + 1
          /\ \A i \in 1 .. Len(v) : Append(v, Fresh(n))[i] = v[i]
          /\ Append(v, Fresh(n))[Len(v) + 1] = Fresh(n)
      BY <3>2, AppendProperties
    <3>4. all \in Seq(S) /\ Len(all) = m + 1 BY <2>2, <2>3, <3>3
    <3>5. DOMAIN all = 1 .. m + 1 BY <3>4, LenProperties
    <3> QED BY <2>2, <2>3, <3>3, <3>5
  <2>5. o.uniq # {}
    <3>1. 1 \in DOMAIN o.key BY DEF Prepared
    <3> QED BY <3>1 DEF ToSet
  <2>6. ASSUME NEW i \in DOMAIN v, Hits(o, v[i], n) PROVE FALSE
    <3>1. i \in 1 .. m + 1 /\ m + 1 \in 1 .. m + 1 /\ i # m + 1 BY <2>2
    <3>2. \E c \in o.uniq : all[i].c[c] # all[m + 1].c[c] BY <2>1, <2>3, <2>4, <2>5, <3>1 DEF Unique
    <3>3. PICK c \in ToSet(o.key) : v[i].c[c] # n[c] BY <2>2, <2>4, <3>2 DEF Fresh
    <3>4. Key(o, v[i].c) = Key(o, n) BY <2>6 DEF Hits
    <3> QED BY <3>3, <3>4, KeyIsTheirs
  <2> QED BY <2>1, <2>6 DEF IsNew
<1>3. CASE s.do # "error"
  <2>1. ModeOf(o) # "error" /\ s.keys = o.key /\ s.do \in {"nothing", "update"} BY <1>3 DEF Prepared
  <2>2. MsHits(v, s, n) = hits
    <3>1. \A i \in DOMAIN v : Same(n, v[i].c, ToSet(s.keys)) <=> Hits(o, v[i], n) BY <2>1, SameIsHit
    <3> QED BY <1>1, <1>3, <3>1 DEF MsHits, RowsHit
  <2>3. CASE hits = {} BY <1>0, <1>1, <2>2, <2>3 DEF MsResult, IsNew, RowsHit
  <2>4. CASE hits # {}
    <3>1. work = IF s.do = "nothing" THEN v ELSE Merged(s, v, n, RowsHit(o, v, n))
      BY <1>0, <1>1, <2>2, <2>4 DEF MsResult
    <3> QED BY <1>1, <2>1, <2>4, <3>1, HitsAreWritten
  <2> QED BY <2>3, <2>4
<1> QED BY <1>2, <1>3

TableKeys(o, v) == {k \in {Key(o, v[i].c) : i \in DOMAIN v} : Whole(k)}

\* A row of d has the key of row i of the table as it was, and another cell.
Changed(o, d, i) ==
  \E j \in DOMAIN d : /\ Key(o, d[j]) = Key(o, o.old[i])
                      /\ \E c \in WrittenBy(o) : d[j][c] # o.old[i][c]

OneForEach(o, v) ==
  \A i, j \in DOMAIN v : i # j /\ Whole(Key(o, v[i].c)) => Key(o, v[i].c) # Key(o, v[j].c)

AsPromised(o, v, d) ==
  \A i \in DOMAIN v : Whole(Key(o, v[i].c)) => v[i].c = PromisedBy(o, d, Key(o, v[i].c))

LeftAlone(o, v, d) ==
  \A i \in DOMAIN o.old :
    /\ i \in DOMAIN v /\ Key(o, v[i].c) = Key(o, o.old[i])
    /\ (v[i].w = 1 /\ v[i].c = o.old[i]) \/ Changed(o, d, i)

(* What is in the table v once the rows of d are upserted.                  *)
Upserted(o, V, v, d) ==
  /\ v \in Seq(Records(o, V))
  /\ OneForEach(o, v)
  /\ TableKeys(o, v) = Keys(o.old, o.key) \cup Keys(d, o.key)
  /\ AsPromised(o, v, d)
  /\ ModeOf(o) = "error" => v = Rows(Concat(o.old, d))
  /\ ModeOf(o) = "update_if_changed" => LeftAlone(o, v, d)

(* The keys of one more row.                                                *)
LEMMA KeysOfAppend ==
  ASSUME NEW o, NEW S, NEW d \in Seq(S), NEW n \in S
  PROVE  Keys(Append(d, n), o.key) = Keys(d, o.key) \cup {k \in {Key(o, n)} : Whole(k)}
<1>1. PICK m \in Nat : m = Len(d) /\ DOMAIN d = 1 .. m BY LenProperties
<1>2. PICK t : t = Append(d, n) OBVIOUS
<1>3. DOMAIN t = 1 .. m + 1 /\ t[m + 1] = n /\ \A i \in 1 .. m : t[i] = d[i]
  <2>1. /\ Append(d, n) \in Seq(S) /\ Len(Append(d, n)) = Len(d) + 1
        /\ \A i \in 1 .. Len(d) : Append(d, n)[i] = d[i]
        /\ Append(d, n)[Len(d) + 1] = n
    BY AppendProperties
  <2>2. t \in Seq(S) /\ Len(t) = m + 1 BY <1>1, <1>2, <2>1
  <2>3. DOMAIN t = 1 .. m + 1 BY <2>2, LenProperties
  <2> QED BY <1>1, <1>2, <2>1, <2>3
<1>4. \A i \in 1 .. m + 1 : i \in 1 .. m \/ i = m + 1 BY <1>1
<1>5. \A i \in 1 .. m : i \in 1 .. m + 1 BY <1>1
<1>6. m + 1 \in 1 .. m + 1 BY <1>1
<1>7. {Key(o, t[i]) : i \in DOMAIN t} = {Key(o, d[i]) : i \in DOMAIN d} \cup {Key(o, n)}
  BY <1>1, <1>3, <1>4, <1>5, <1>6
<1> QED BY <1>2, <1>7 DEF Keys, Whole, Key

(* A key is known when a row has it.                                        *)
LEMMA KeyIsKnown ==
  ASSUME NEW o, NEW V, TypedBy(o, V), NEW d \in Seq(ImagesOf(o)), NEW k, Whole(k)
  PROVE  Known(o, d, k) <=> k \in Keys(o.old, o.key) \cup Keys(d, o.key)
<1>1. PICK X : X = Vectors(o, V) /\ o.old \in Seq(X) /\ ImagesOf(o) \subseteq X BY DEF TypedBy
<1>2. d \in Seq(X)
  <2>1. PICK m \in Nat : m = Len(d) BY LenProperties
  <2>2. \A i \in 1 .. m : d[i] \in X BY <1>1, <2>1, ElementOfSeq
  <2> QED BY <2>1, <2>2, SeqOfRange
<1>3. ASSUME NEW s \in Seq(X) PROVE KeyedBy(s, o.key, k) # << >> <=> k \in Keys(s, o.key)
  <2>1. KeyedBy(s, o.key, k) = << >> <=> \A i \in DOMAIN s : Key(o, s[i]) # k
    BY <1>1, KeyedByNone
  <2> QED BY <2>1 DEF Keys, Whole, Key
<1> QED BY <1>1, <1>2, <1>3 DEF Known

(* A row that is new.                                                       *)
LEMMA NewKeepsPromises ==
  ASSUME NEW o, NEW V, TypedBy(o, V), NEW v, NEW d \in Seq(ImagesOf(o)), Upserted(o, V, v, d),
         NEW n \in ImagesOf(o), NEW work, IsNew(o, v, n, work)
  PROVE  Upserted(o, V, work, Append(d, n))
<1>1. PICK S : S = Records(o, V) /\ v \in Seq(S) BY DEF Upserted
<1>2. PICK m \in Nat : m = Len(v) /\ DOMAIN v = 1 .. m BY <1>1, LenProperties
<1>3. n \in Vectors(o, V) BY DEF TypedBy
<1>4. Fresh(n) \in S BY <1>1, <1>3 DEF Records, Fresh
<1>5. work \in Seq(S) /\ DOMAIN work = 1 .. m + 1
      /\ work[m + 1] = Fresh(n) /\ \A i \in 1 .. m : work[i] = v[i]
  <2>1. work = Append(v, Fresh(n)) BY DEF IsNew
  <2>2. /\ work \in Seq(S) /\ Len(work) = Len(v) + 1
        /\ \A i \in 1 .. Len(v) : work[i] = v[i]
        /\ work[Len(v) + 1] = Fresh(n)
    BY <1>1, <1>4, <2>1, AppendProperties
  <2>3. DOMAIN work = 1 .. m + 1 BY <1>2, <2>2, LenProperties
  <2> QED BY <1>2, <2>2, <2>3
<1>6. PICK kn : kn = Key(o, n) /\ kn = Key(o, work[m + 1].c) BY <1>5 DEF Fresh
<1>7. Whole(kn) => kn \notin TableKeys(o, v) /\ \A i \in 1 .. m : Key(o, v[i].c) # kn
  BY <1>2, <1>6 DEF IsNew, Hits, TableKeys
<1>8. Whole(kn) => ~ Known(o, d, kn) BY <1>7, KeyIsKnown DEF Upserted
<1>9. \A i \in 1 .. m + 1 : i \in 1 .. m \/ i = m + 1 BY <1>2
<1>10. OneForEach(o, work)
  <2> SUFFICES ASSUME NEW i \in 1 .. m + 1, NEW j \in 1 .. m + 1, i # j, Whole(Key(o, work[i].c))
               PROVE  Key(o, work[i].c) # Key(o, work[j].c)
    BY <1>5 DEF OneForEach
  <2>1. CASE i \in 1 .. m /\ j \in 1 .. m BY <1>2, <1>5, <2>1 DEF Upserted, OneForEach
  <2>2. CASE i \in 1 .. m /\ j = m + 1 BY <1>5, <1>6, <1>7, <2>2
  <2>3. CASE i = m + 1 /\ j \in 1 .. m BY <1>5, <1>6, <1>7, <2>3
  <2> QED BY <1>9, <2>1, <2>2, <2>3
<1>11. TableKeys(o, work) = Keys(o.old, o.key) \cup Keys(Append(d, n), o.key)
  <2>1. m + 1 \in 1 .. m + 1 /\ \A i \in 1 .. m : i \in 1 .. m + 1 BY <1>2
  <2>2. {Key(o, work[i].c) : i \in 1 .. m + 1} = {Key(o, v[i].c) : i \in 1 .. m} \cup {kn}
    BY <1>5, <1>6, <1>9, <2>1
  <2>3. TableKeys(o, work) = TableKeys(o, v) \cup {k \in {kn} : Whole(k)}
    BY <1>2, <1>5, <2>2 DEF TableKeys
  <2>4. Keys(Append(d, n), o.key) = Keys(d, o.key) \cup {k \in {kn} : Whole(k)}
    <3>1. Keys(Append(d, n), o.key) = Keys(d, o.key) \cup {k \in {Key(o, n)} : Whole(k)}
      BY KeysOfAppend
    <3>2. Key(o, n) = kn BY <1>6
    <3> QED BY <3>1, <3>2
  <2>5. TableKeys(o, v) = Keys(o.old, o.key) \cup Keys(d, o.key) BY DEF Upserted
  <2> QED BY <2>3, <2>4, <2>5
<1>12. AsPromised(o, work, Append(d, n))
  <2> SUFFICES ASSUME NEW i \in 1 .. m + 1, NEW k, k = Key(o, work[i].c), Whole(k)
               PROVE  work[i].c = PromisedBy(o, Append(d, n), k)
    BY <1>5 DEF AsPromised
  <2>1. PromisedBy(o, Append(d, n), k)
           = IF Key(o, n) # k THEN PromisedBy(o, d, k)
             ELSE IF ~ Known(o, d, k) THEN n
             ELSE IF ModeOf(o) = "ignore" THEN PromisedBy(o, d, k)
             ELSE Overwritten(o, PromisedBy(o, d, k), n)
    BY PromisedLater
  <2>2. CASE i \in 1 .. m
    <3>1. k = Key(o, v[i].c) /\ k # kn BY <1>5, <1>7, <2>2
    <3>2. v[i].c = PromisedBy(o, d, k) BY <1>2, <2>2, <3>1 DEF Upserted, AsPromised
    <3> QED BY <1>5, <1>6, <2>1, <2>2, <3>1, <3>2
  <2>3. CASE i = m + 1
    <3>1. k = kn /\ work[i].c = n BY <1>5, <1>6, <2>3 DEF Fresh
    <3> QED BY <1>6, <1>8, <2>1, <3>1
  <2> QED BY <1>9, <2>2, <2>3
<1>13. ModeOf(o) = "error" => work = Rows(Concat(o.old, Append(d, n)))
  <2> SUFFICES ASSUME v = Rows(Concat(o.old, d))
               PROVE  work = Rows(Concat(o.old, Append(d, n)))
    BY DEF Upserted
  <2>1. PICK X : X = Vectors(o, V) /\ o.old \in Seq(X) /\ ImagesOf(o) \subseteq X BY DEF TypedBy
  <2>2. d \in Seq(X)
    <3>1. PICK len \in Nat : len = Len(d) BY LenProperties
    <3>2. \A i \in 1 .. len : d[i] \in X BY <2>1, <3>1, ElementOfSeq
    <3> QED BY <3>1, <3>2, SeqOfRange
  <2>3. PICK a \in Seq(X) : a = Concat(o.old, d) BY <2>1, <2>2, ConcatIsSeq
  <2>4. Append(Rows(a), Fresh(n)) = Rows(Append(a, n)) BY <1>3, <2>1, OneRowMore
  <2>5. Append(a, n) = Concat(o.old, Append(d, n))
    <3>1. \A b \in Seq(X), e \in X : Append(Concat(b, d), e) = Concat(b, Append(d, e))
      BY <2>2, AppendLater
    <3> QED BY <1>3, <2>1, <2>3, <3>1
  <2> QED BY <2>3, <2>4, <2>5 DEF IsNew
<1>14. ModeOf(o) = "update_if_changed" => LeftAlone(o, work, Append(d, n))
  <2> SUFFICES ASSUME LeftAlone(o, v, d), NEW i \in DOMAIN o.old
               PROVE  /\ i \in DOMAIN work /\ Key(o, work[i].c) = Key(o, o.old[i])
                      /\ (work[i].w = 1 /\ work[i].c = o.old[i]) \/ Changed(o, Append(d, n), i)
    BY DEF Upserted, LeftAlone
  <2>1. /\ i \in 1 .. m /\ Key(o, v[i].c) = Key(o, o.old[i])
        /\ (v[i].w = 1 /\ v[i].c = o.old[i]) \/ Changed(o, d, i)
    BY <1>2 DEF LeftAlone
  <2>2. i \in 1 .. m + 1 /\ work[i] = v[i] BY <1>2, <1>5, <2>1
  <2>3. Changed(o, d, i) => Changed(o, Append(d, n), i)
    <3>1. \A j \in DOMAIN d : j \in DOMAIN Append(d, n) /\ Append(d, n)[j] = d[j] OBVIOUS
    <3> QED BY <3>1 DEF Changed
  <2> QED BY <1>5, <2>1, <2>2, <2>3
<1> QED BY <1>1, <1>5, <1>10, <1>11, <1>12, <1>13, <1>14 DEF Upserted

(* A row with a key that is there.                                          *)
LEMMA OldKeepsPromises ==
  ASSUME NEW o, NEW V, TypedBy(o, V), NEW v, NEW d \in Seq(ImagesOf(o)), Upserted(o, V, v, d),
         NEW n \in ImagesOf(o), NEW work, IsOld(o, V, v, n, work),
         ToSet(o.key) \subseteq WrittenBy(o), WrittenBy(o) \subseteq 1 .. o.width
  PROVE  Upserted(o, V, work, Append(d, n))
<1>1. PICK D : D = DOMAIN v /\ D = DOMAIN work BY DEF IsOld
<1>2. PICK kn : kn = Key(o, n) OBVIOUS
<1>3. /\ \E i \in D : Hits(o, v[i], n)
      /\ \A i \in D : IF Hits(o, v[i], n) THEN Rewritten(o, v[i], n, work[i]) ELSE work[i] = v[i]
      /\ ModeOf(o) # "error"
  BY <1>1 DEF IsOld
<1>4. Whole(kn) /\ kn \in TableKeys(o, v) BY <1>1, <1>2, <1>3 DEF Hits, TableKeys
<1>5. Known(o, d, kn) BY <1>4, KeyIsKnown DEF Upserted
<1>6. ASSUME NEW r PROVE Key(o, Overwritten(o, r, n)) = kn
  <2>1. \A i \in DOMAIN o.key : Overwritten(o, r, n)[o.key[i]] = n[o.key[i]]
    <3>1. \A i \in DOMAIN o.key : o.key[i] \in WrittenBy(o) /\ o.key[i] \in 1 .. o.width BY DEF ToSet
    <3> QED BY <3>1 DEF Overwritten
  <2> QED BY <1>2, <2>1 DEF Key, KeyOf
<1>7. ASSUME NEW i \in D PROVE Key(o, work[i].c) = Key(o, v[i].c)
  <2>1. CASE Hits(o, v[i], n) BY <1>2, <1>3, <1>6, <2>1 DEF Hits, Rewritten
  <2>2. CASE ~ Hits(o, v[i], n) BY <1>3, <2>2
  <2> QED BY <2>1, <2>2
<1>8. OneForEach(o, work) BY <1>1, <1>7 DEF Upserted, OneForEach
<1>9. TableKeys(o, work) = Keys(o.old, o.key) \cup Keys(Append(d, n), o.key)
  <2>1. {Key(o, work[i].c) : i \in D} = {Key(o, v[i].c) : i \in D} BY <1>7
  <2>2. TableKeys(o, work) = TableKeys(o, v) BY <1>1, <2>1 DEF TableKeys
  <2>3. Keys(Append(d, n), o.key) = Keys(d, o.key) \cup {k \in {kn} : Whole(k)}
    BY <1>2, KeysOfAppend
  <2>4. TableKeys(o, v) = Keys(o.old, o.key) \cup Keys(d, o.key) BY DEF Upserted
  <2> QED BY <1>4, <2>2, <2>3, <2>4
<1>10. AsPromised(o, work, Append(d, n))
  <2> SUFFICES ASSUME NEW i \in D, NEW k, k = Key(o, work[i].c), Whole(k)
               PROVE  work[i].c = PromisedBy(o, Append(d, n), k)
    BY <1>1 DEF AsPromised
  <2>1. PromisedBy(o, Append(d, n), k)
           = IF Key(o, n) # k THEN PromisedBy(o, d, k)
             ELSE IF ~ Known(o, d, k) THEN n
             ELSE IF ModeOf(o) = "ignore" THEN PromisedBy(o, d, k)
             ELSE Overwritten(o, PromisedBy(o, d, k), n)
    BY PromisedLater
  <2>2. k = Key(o, v[i].c) BY <1>7
  <2>3. v[i].c = PromisedBy(o, d, k) BY <1>1, <2>2 DEF Upserted, AsPromised
  <2>4. Hits(o, v[i], n) <=> k = kn BY <1>2, <1>4, <2>2 DEF Hits
  <2>5. CASE k = kn
    <3>1. Rewritten(o, v[i], n, work[i]) BY <1>3, <2>4, <2>5
    <3> QED BY <1>2, <1>5, <2>1, <2>3, <2>5, <3>1 DEF Rewritten
  <2>6. CASE k # kn
    <3>1. work[i] = v[i] BY <1>3, <2>4, <2>6
    <3> QED BY <1>2, <2>1, <2>3, <2>6, <3>1
  <2> QED BY <2>5, <2>6
<1>11. ModeOf(o) = "update_if_changed" => LeftAlone(o, work, Append(d, n))
  <2> SUFFICES ASSUME ModeOf(o) = "update_if_changed", LeftAlone(o, v, d), NEW i \in DOMAIN o.old
               PROVE  /\ i \in D /\ Key(o, work[i].c) = Key(o, o.old[i])
                      /\ (work[i].w = 1 /\ work[i].c = o.old[i]) \/ Changed(o, Append(d, n), i)
    BY <1>1 DEF Upserted, LeftAlone
  <2>1. /\ i \in D /\ Key(o, v[i].c) = Key(o, o.old[i])
        /\ (v[i].w = 1 /\ v[i].c = o.old[i]) \/ Changed(o, d, i)
    BY <1>1 DEF LeftAlone
  <2>2. PICK m \in Nat : m = Len(d) /\ DOMAIN d = 1 .. m BY LenProperties
  <2>3. PICK t : t = Append(d, n) OBVIOUS
  <2>4. DOMAIN t = 1 .. m + 1 /\ t[m + 1] = n /\ \A j \in 1 .. m : t[j] = d[j] BY <2>2, <2>3
  <2>5. m + 1 \in 1 .. m + 1 /\ \A j \in 1 .. m : j \in 1 .. m + 1 BY <2>2
  <2>6. Changed(o, d, i) => Changed(o, t, i) BY <2>2, <2>4, <2>5 DEF Changed
  <2>7. ASSUME Key(o, o.old[i]) = kn, NEW c \in WrittenBy(o), o.old[i][c] # n[c] PROVE Changed(o, t, i)
    BY <1>2, <2>4, <2>5, <2>7 DEF Changed
  <2>8. CASE Hits(o, v[i], n) /\ ~ Changed(o, d, i)
    <3>1. v[i].w = 1 /\ v[i].c = o.old[i] /\ Key(o, o.old[i]) = kn BY <1>2, <2>1, <2>8 DEF Hits
    <3>2. work[i] = v[i] \/ \E c \in WrittenBy(o) : v[i].c[c] # n[c] BY <1>3, <2>1, <2>8 DEF Rewritten
    <3> QED BY <1>7, <2>1, <2>3, <2>7, <3>1, <3>2
  <2>9. CASE ~ Hits(o, v[i], n) \/ Changed(o, d, i)
    <3>1. work[i] = v[i] \/ Changed(o, d, i) BY <1>3, <2>1, <2>9
    <3> QED BY <1>7, <2>1, <2>3, <2>6, <3>1
  <2> QED BY <2>8, <2>9
<1> QED BY <1>3, <1>8, <1>9, <1>10, <1>11 DEF Upserted, IsOld

(* Before the first row.                                                    *)
Keyed(o, V) ==
  /\ TypedBy(o, V) /\ o.uniq = ToSet(o.key)
  /\ \A i, j \in DOMAIN o.old :
       i # j /\ Whole(Key(o, o.old[i])) => Key(o, o.old[i]) # Key(o, o.old[j])

(* The table before the first row.                                          *)
LEMMA NothingUpserted ==
  ASSUME NEW o, NEW V, Keyed(o, V)
  PROVE  Upserted(o, V, Rows(o.old), << >>)
<1>1. PICK X : X = Vectors(o, V) /\ o.old \in Seq(X) BY DEF Keyed, TypedBy
<1>2. PICK m \in Nat : m = Len(o.old) /\ DOMAIN o.old = 1 .. m BY <1>1, LenProperties
<1>3. PICK S : S = Records(o, V) OBVIOUS
<1>4. PICK v \in Seq(S) : v = Rows(o.old) /\ DOMAIN v = 1 .. m /\ \A i \in 1 .. m : v[i] = Fresh(o.old[i])
  <2>1. PICK F : F = {Fresh(x) : x \in X} OBVIOUS
  <2>2. PICK v \in Seq(F) : v = Rows(o.old) /\ Len(v) = m /\ \A i \in 1 .. m : v[i] = Fresh(o.old[i])
    <3>1. PICK b \in Seq(X) : b = o.old BY <1>1
    <3>2. m = Len(b) BY <1>2, <3>1
    <3>3. /\ Rows(b) \in Seq({Fresh(x) : x \in X}) /\ Len(Rows(b)) = m
          /\ \A i \in 1 .. m : Rows(b)[i] = Fresh(b[i])
      BY <3>1, <3>2, RowsIsTable
    <3> QED BY <2>1, <3>1, <3>3
  <2>3. F \subseteq S BY <1>1, <1>3, <2>1 DEF Records, Fresh
  <2>4. \A i \in 1 .. m : v[i] \in S BY <2>2, <2>3, ElementOfSeq
  <2>5. v \in Seq(S) BY <2>2, <2>4, SeqOfRange
  <2>6. DOMAIN v = 1 .. m BY <2>2, LenProperties
  <2> QED BY <2>2, <2>5, <2>6
<1>5. \A i \in 1 .. m : v[i].c = o.old[i] /\ v[i].w = 1
  <2>1. \A x : Fresh(x).c = x /\ Fresh(x).w = 1 BY DEF Fresh
  <2> QED BY <1>4, <2>1
<1>6. OneForEach(o, v) BY <1>2, <1>4, <1>5 DEF OneForEach, Keyed
<1>7. TableKeys(o, v) = Keys(o.old, o.key) \cup Keys(<< >>, o.key)
  <2>1. DOMAIN << >> = {} OBVIOUS
  <2>2. Keys(<< >>, o.key) = {} BY <2>1 DEF Keys
  <2>3. {Key(o, v[i].c) : i \in 1 .. m} = {Key(o, o.old[i]) : i \in 1 .. m} BY <1>5
  <2> QED BY <1>2, <1>4, <2>2, <2>3 DEF TableKeys, Keys, Key, Whole
<1>8. AsPromised(o, v, << >>)
  <2> SUFFICES ASSUME NEW i \in 1 .. m, Whole(Key(o, o.old[i]))
               PROVE  o.old[i] = PromisedBy(o, << >>, Key(o, o.old[i]))
    BY <1>4, <1>5 DEF AsPromised
  <2>1. KeyedBy(o.old, o.key, Key(o, o.old[i])) = <<o.old[i]>>
    <3>1. o.old \in Seq(Vectors(o, V)) /\ i \in DOMAIN o.old BY <1>1, <1>2
    <3>2. \A j \in DOMAIN o.old : Key(o, o.old[j]) = Key(o, o.old[i]) => j = i
      BY <1>2 DEF Keyed
    <3> QED BY <3>1, <3>2, KeyedByOne
  <2>2. KeyedBy(<< >>, o.key, Key(o, o.old[i])) = << >>
    <3>1. << >> \in Seq(Vectors(o, V)) /\ DOMAIN << >> = {} OBVIOUS
    <3> QED BY <3>1, KeyedByNone
  <2> QED BY <2>1, <2>2 DEF PromisedBy, Promised
<1>9. v = Rows(Concat(o.old, << >>)) BY <1>1, <1>4, NothingAfter
<1>10. LeftAlone(o, v, << >>) BY <1>2, <1>4, <1>5 DEF LeftAlone
<1> QED BY <1>3, <1>4, <1>6, <1>7, <1>8, <1>9, <1>10 DEF Upserted

(* The keys of the table and of the input.                                  *)
LEMMA KeysOfConcat ==
  ASSUME NEW keys, NEW S, NEW a \in Seq(S), NEW b \in Seq(S)
  PROVE  Keys(Concat(a, b), keys) = Keys(a, keys) \cup Keys(b, keys)
<1>1. ASSUME NEW s \in Seq(S) PROVE Keys(s, keys) = {k \in {KeyOf(x, keys) : x \in ToSet(s)} : Whole(k)}
  <2>1. {KeyOf(s[i], keys) : i \in DOMAIN s} = {KeyOf(x, keys) : x \in ToSet(s)} BY DEF ToSet
  <2> QED BY <2>1 DEF Keys, Whole
<1>2. Concat(a, b) \in Seq(S) BY ConcatIsSeq
<1>3. ToSet(Concat(a, b)) = ToSet(a) \cup ToSet(b) BY ConcatElements
<1>4. {KeyOf(x, keys) : x \in ToSet(a) \cup ToSet(b)}
        = {KeyOf(x, keys) : x \in ToSet(a)} \cup {KeyOf(x, keys) : x \in ToSet(b)}
  OBVIOUS
<1> QED BY <1>1, <1>2, <1>3, <1>4

(* What is left in the table is what the mode promises of each key.         *)
LEMMA UpsertedIsPromised ==
  ASSUME NEW o, NEW V, Keyed(o, V), NEW v, NEW d \in Seq(ImagesOf(o)), Upserted(o, V, v, d)
  PROVE  /\ Keys(Cells(v), o.key) = Keys(o.old \o d, o.key)
         /\ \A k \in Keys(Cells(v), o.key) :
              /\ KeyedBy(Cells(v), o.key, k) = <<PromisedBy(o, d, k)>>
              /\ ModeOf(o) = "error" => Len(KeyedBy(o.old \o d, o.key, k)) = 1
<1>1. PICK X : X = Vectors(o, V) /\ o.old \in Seq(X) /\ ImagesOf(o) \subseteq X
  BY DEF Keyed, TypedBy
<1>2. d \in Seq(X)
  <2>1. PICK len \in Nat : len = Len(d) BY LenProperties
  <2>2. \A i \in 1 .. len : d[i] \in X BY <1>1, <2>1, ElementOfSeq
  <2> QED BY <2>1, <2>2, SeqOfRange
<1>3. PICK m \in Nat : m = Len(v) /\ DOMAIN v = 1 .. m BY LenProperties DEF Upserted
<1>4. \A i \in 1 .. m : v[i].c \in X
  <2>1. \A i \in 1 .. m : v[i] \in Records(o, V) BY <1>3, ElementOfSeq DEF Upserted
  <2> QED BY <1>1, <2>1 DEF Records
<1>5. PICK now \in Seq(X) : now = Cells(v) /\ DOMAIN now = 1 .. m /\ \A i \in 1 .. m : now[i] = v[i].c
  <2>1. PICK now : now = [i \in 1 .. m |-> v[i].c] OBVIOUS
  <2>2. now = Cells(v) BY <1>3, <2>1 DEF Cells
  <2>3. now \in [1 .. m -> X] BY <1>4, <2>1
  <2>4. now \in Seq(X) BY <2>3
  <2> QED BY <2>1, <2>2, <2>4
<1>6. Keys(now, o.key) = TableKeys(o, v)
  <2>1. {Key(o, v[i].c) : i \in 1 .. m} = {Key(o, now[i]) : i \in 1 .. m} BY <1>5
  <2> QED BY <1>3, <1>5, <2>1 DEF TableKeys, Keys, Key, Whole
<1>7. Keys(now, o.key) = Keys(o.old \o d, o.key)
  <2>1. Keys(Concat(o.old, d), o.key) = Keys(o.old, o.key) \cup Keys(d, o.key)
    BY <1>1, <1>2, KeysOfConcat
  <2>2. TableKeys(o, v) = Keys(o.old, o.key) \cup Keys(d, o.key) BY DEF Upserted
  <2>3. Concat(o.old, d) = o.old \o d BY DEF Concat
  <2> QED BY <1>6, <2>1, <2>2, <2>3
<1>8. ASSUME NEW k \in Keys(now, o.key)
      PROVE  /\ KeyedBy(now, o.key, k) = <<PromisedBy(o, d, k)>>
             /\ ModeOf(o) = "error" => Len(KeyedBy(o.old \o d, o.key, k)) = 1
  <2>1. PICK i \in 1 .. m : k = Key(o, v[i].c) /\ Whole(k) BY <1>3, <1>6 DEF TableKeys
  <2>2. \A j \in DOMAIN now : Key(o, now[j]) = Key(o, now[i]) => j = i
    BY <1>3, <1>5, <2>1 DEF Upserted, OneForEach
  <2>3. KeyedBy(now, o.key, k) = <<now[i]>>
    <3>1. now \in Seq(Vectors(o, V)) /\ i \in DOMAIN now BY <1>1, <1>5
    <3>2. KeyedBy(now, o.key, Key(o, now[i])) = <<now[i]>> BY <2>2, <3>1, KeyedByOne
    <3> QED BY <1>5, <2>1, <3>2
  <2>4. now[i] = PromisedBy(o, d, k) BY <1>3, <1>5, <2>1 DEF Upserted, AsPromised
  <2>5. ASSUME ModeOf(o) = "error" PROVE Len(KeyedBy(o.old \o d, o.key, k)) = 1
    <3>1. PICK all \in Seq(X) : all = Concat(o.old, d) BY <1>1, <1>2, ConcatIsSeq
    <3>2. v = Rows(all) BY <2>5, <3>1 DEF Upserted
    <3>3. PICK n \in Nat : n = Len(all) /\ DOMAIN all = 1 .. n BY LenProperties
    <3>4. now = all
      <4>1. DOMAIN v = 1 .. n /\ \A j \in 1 .. n : v[j].c = all[j] BY <3>2, <3>3 DEF Rows
      <4>2. now = [j \in 1 .. n |-> all[j]] BY <1>5, <4>1 DEF Cells
      <4> QED BY <3>3, <4>2, LenProperties
    <3> QED BY <2>3, <3>1, <3>4 DEF Concat
  <2> QED BY <2>3, <2>4, <2>5
<1> QED BY <1>5, <1>7, <1>8

(* A row that nothing changes is not written.                               *)
LEMMA UpsertedIsLeftAlone ==
  ASSUME NEW o, NEW V, NEW v, NEW d, Upserted(o, V, v, d), ModeOf(o) = "update_if_changed",
         NEW i \in DOMAIN o.old,
         \A j \in DOMAIN d : \/ Key(o, d[j]) # Key(o, o.old[i])
                             \/ \A c \in WrittenBy(o) : d[j][c] = o.old[i][c]
  PROVE  v[i].w = 1
<1>1. LeftAlone(o, v, d) BY DEF Upserted
<1>2. ~ Changed(o, d, i) BY DEF Changed
<1> QED BY <1>1, <1>2 DEF LeftAlone
------------------------------------------------------------------------------
(* What the input must be like for the table to have it                     *)

(* The code garbles some values on their way: PostgreSQL's text parameters  *)
(* end at a NUL, SQL Server's integers are bound as signed, mssql.upsert    *)
(* does not bind a binary buffer again that has moved; and bcp binds by     *)
(* position.  What is promised is promised of the other values.             *)
ArrivesAsGiven ==
  \A o \in Ops : \A row \in o.rows : \A i \in DOMAIN ColumnsOf(o) :
    LET col == ColumnsOf(o)[i]
    IN  /\ o.kind \in {"pg_upsert", "pg_exec"} => row[col] # NULTEXT
        /\ o.kind \in {"ms_upsert", "ms_bulk", "ms_bcp", "ms_exec"} => row[col] # WIDE
        /\ o.kind = "ms_upsert" /\ o.fmts[col] = "z" => row[col] \notin LongVals
        /\ o.kind = "ms_bcp" => col = i

\* The cells there may be in the table.
CellsOf(o) == {x[c] : x \in ToSet(o.old) \cup ImagesOf(o), c \in 1 .. o.width}

(* The key of an upsert is the unique key of its table, which the rows of   *)
(* the table have kept.                                                     *)
KeyedTables ==
  \A o \in Ops : o.kind \in Upserters =>
    /\ o.key \in Seq(Nat) /\ o.uniq = ToSet(o.key)
    /\ \A i \in DOMAIN o.old : o.old[i] = [c \in 1 .. o.width |-> o.old[i][c]]
    /\ \A i, j \in DOMAIN o.old :
         i # j /\ Whole(Key(o, o.old[i])) => Key(o, o.old[i]) # Key(o, o.old[j])

(* The rows of an upsert are vectors of cells.                              *)
LEMMA UpsertersAreKeyed ==
  ASSUME KeyedTables, NEW o \in Ops, o.kind \in Upserters
  PROVE  Keyed(o, CellsOf(o))
<1>1. o.old \in Seq(ToSet(o.old)) BY OpsAssumption
<1>2. PICK m \in Nat : m = Len(o.old) /\ DOMAIN o.old = 1 .. m BY <1>1, LenProperties
<1>3. PICK V : V = CellsOf(o) OBVIOUS
<1>4. ASSUME NEW x \in ToSet(o.old) \cup ImagesOf(o), x = [c \in 1 .. o.width |-> x[c]]
      PROVE  x \in Vectors(o, V)
  <2>1. \A c \in 1 .. o.width : x[c] \in V BY <1>3 DEF CellsOf
  <2> QED BY <1>4, <2>1 DEF Vectors
<1>5. \A i \in 1 .. m : o.old[i] \in Vectors(o, V)
  <2>1. \A i \in 1 .. m : o.old[i] \in ToSet(o.old) BY <1>2 DEF ToSet
  <2> QED BY <1>2, <1>4, <2>1 DEF KeyedTables
<1>6. o.old \in Seq(Vectors(o, V)) BY <1>1, <1>2, <1>5, SeqOfRange
<1>7. ImagesOf(o) \subseteq Vectors(o, V) BY <1>4, ImageIsNullElsewhere
<1> QED BY <1>3, <1>6, <1>7 DEF Keyed, TypedBy, KeyedTables

(* What the table v has of the rows `done' of the input.                    *)
HasStored(o, v, done) ==
  IF o.kind \in Upserters THEN Upserted(o, CellsOf(o), v, Mapped(ImageOf(o), done))
  ELSE v = Rows(Concat(StartOf(o), Mapped(ImageOf(o), done)))

LEMMA MappedAppend ==
  ASSUME NEW S, NEW g, NEW s \in Seq(S), NEW e \in S
  PROVE  Mapped(g, Append(s, e)) = Append(Mapped(g, s), g[e])
<1>1. PICK X : X = {g[x] : x \in S} OBVIOUS
<1>2. PICK m \in Seq(X) : m = Mapped(g, s)
  <2>1. PICK n \in Nat : n = Len(s) BY LenProperties
  <2> QED BY <1>1, <2>1, MappedIs
<1>3. g[e] \in X BY <1>1
<1>4. Append(s, e) = Concat(s, <<e>>) BY AppendIs
<1>5. PICK one \in Seq(S) : one = <<e>> BY OneIsSeq
<1>6. Mapped(g, Concat(s, one)) = Concat(Mapped(g, s), Mapped(g, one)) BY MappedOfConcat
<1>7. Mapped(g, <<e>>) = <<g[e]>> BY MappedOfOne
<1>8. Append(m, g[e]) = Concat(m, <<g[e]>>) BY <1>3, AppendIs
<1> QED BY <1>2, <1>4, <1>5, <1>6, <1>7, <1>8

LEMMA MappedIsImages ==
  ASSUME NEW o, NEW s \in Seq(o.rows)
  PROVE  Mapped(ImageOf(o), s) \in Seq(ImagesOf(o))
<1>1. PICK n \in Nat : n = Len(s) BY LenProperties
<1>2. Mapped(ImageOf(o), s) \in Seq({ImageOf(o)[e] : e \in o.rows}) BY <1>1, MappedIs
<1> QED BY <1>2 DEF ImagesOf

LEMMA MappedToNothing ==
  ASSUME NEW S, NEW g, NEW s \in Seq(S), Mapped(g, s) = << >>
  PROVE  s = << >>
<1>1. PICK n \in Nat : n = Len(s) BY LenProperties
<1>2. MapsTo(Mapped(g, s), g, s, n) BY <1>1, MappedIs
<1>3. n = 0 BY <1>2 DEF MapsTo
<1> QED BY <1>1, <1>3, EmptySeq

LEMMA NothingMapped == ASSUME NEW g PROVE Mapped(g, << >>) = << >>
BY DEF Mapped

(* Before the first row.                                                    *)
LEMMA ContainsNothing ==
  ASSUME KeyedTables, NEW o \in Ops
  PROVE  HasStored(o, Rows(StartOf(o)), << >>)
<1>1. Mapped(ImageOf(o), << >>) = << >> BY NothingMapped
<1>2. CASE o.kind \in Upserters
  <2>1. Keyed(o, CellsOf(o)) BY <1>2, UpsertersAreKeyed
  <2>2. Upserted(o, CellsOf(o), Rows(o.old), << >>) BY <2>1, NothingUpserted
  <2>3. StartOf(o) = o.old BY <1>2 DEF StartOf, Upserters
  <2> QED BY <1>1, <1>2, <2>2, <2>3 DEF HasStored
<1>3. CASE o.kind \notin Upserters
  <2>1. PICK S : StartOf(o) \in Seq(S)
    <3>1. o.old \in Seq(ToSet(o.old)) BY OpsAssumption
    <3>2. << >> \in Seq(ToSet(o.old)) OBVIOUS
    <3> QED BY <3>1, <3>2 DEF StartOf
  <2>2. Concat(StartOf(o), << >>) = StartOf(o) BY <2>1, NothingAfter
  <2> QED BY <1>1, <1>3, <2>2 DEF HasStored
<1> QED BY <1>2, <1>3

(* One row is upserted.                                                     *)
LEMMA UpsertAdvances ==
  ASSUME KeyedTables, NEW o \in Ops, o.kind \in Upserters, NEW s, Prepared(o, s),
         NEW done \in Seq(o.rows), NEW row \in o.rows, NEW v, HasStored(o, v, done), NEW work,
         work # ERR,
         \/ work = PgExecute(v, o.uniq, s, ImageOf(o)[row])
         \/ work = MsExecute(v, o.uniq, s, ImageOf(o)[row])
  PROVE  HasStored(o, work, Append(done, row))
<1>1. PICK V : V = CellsOf(o) /\ Keyed(o, V) /\ TypedBy(o, V) /\ o.uniq = ToSet(o.key)
  <2>1. Keyed(o, CellsOf(o)) BY UpsertersAreKeyed
  <2> QED BY <2>1 DEF Keyed
<1>2. PICK d \in Seq(ImagesOf(o)) : d = Mapped(ImageOf(o), done) BY MappedIsImages
<1>3. PICK n \in ImagesOf(o) : n = ImageOf(o)[row] BY DEF ImagesOf
<1>4. Mapped(ImageOf(o), Append(done, row)) = Append(d, n) BY <1>2, <1>3, MappedAppend
<1>5. Upserted(o, V, v, d) BY <1>1, <1>2 DEF HasStored
<1>6. v \in Seq(Records(o, V)) BY <1>5 DEF Upserted
<1>7. n \in Vectors(o, V) BY <1>1 DEF TypedBy
<1>8. IsNew(o, v, n, work) \/ IsOld(o, V, v, n, work) BY <1>1, <1>3, <1>6, <1>7, PgMerges, MsMerges
<1>9. ToSet(o.key) \subseteq WrittenBy(o) /\ WrittenBy(o) \subseteq 1 .. o.width BY DEF Prepared
<1>10. Upserted(o, V, work, Append(d, n))
  BY <1>1, <1>5, <1>8, <1>9, NewKeepsPromises, OldKeepsPromises
<1> QED BY <1>1, <1>4, <1>10 DEF HasStored

(* Rows that are inserted, one or a group.                                  *)
LEMMA RowsAreTyped ==
  ASSUME NEW o \in Ops
  PROVE  \E X : /\ StartOf(o) \in Seq(X) /\ ImagesOf(o) \subseteq X
                /\ \A s \in Seq(o.rows) : Mapped(ImageOf(o), s) \in Seq(X)
<1>1. PICK X : X = ToSet(o.old) \cup ImagesOf(o) OBVIOUS
<1>2. StartOf(o) \in Seq(X)
  <2>1. o.old \in Seq(ToSet(o.old)) BY OpsAssumption
  <2>2. PICK n \in Nat : n = Len(o.old) BY <2>1, LenProperties
  <2>3. \A i \in 1 .. n : o.old[i] \in X BY <1>1, <2>1, <2>2, ElementOfSeq
  <2>4. o.old \in Seq(X) BY <2>1, <2>2, <2>3, SeqOfRange
  <2>5. << >> \in Seq(X) OBVIOUS
  <2> QED BY <2>4, <2>5 DEF StartOf
<1>3. ASSUME NEW s \in Seq(o.rows) PROVE Mapped(ImageOf(o), s) \in Seq(X)
  <2>1. PICK d \in Seq(ImagesOf(o)) : d = Mapped(ImageOf(o), s) BY MappedIsImages
  <2>2. PICK n \in Nat : n = Len(d) BY LenProperties
  <2>3. \A i \in 1 .. n : d[i] \in X BY <1>1, <2>2, ElementOfSeq
  <2> QED BY <2>1, <2>2, <2>3, SeqOfRange
<1> QED BY <1>1, <1>2, <1>3

(* One row is inserted.                                                     *)
LEMMA RowAdvances ==
  ASSUME NEW o \in Ops, o.kind \notin Upserters, NEW s, s.do = "error",
         NEW done \in Seq(o.rows), NEW row \in o.rows, NEW v, HasStored(o, v, done), NEW work,
         work # ERR,
         \/ work = PgExecute(v, o.uniq, s, ImageOf(o)[row])
         \/ work = MsExecute(v, o.uniq, s, ImageOf(o)[row])
  PROVE  HasStored(o, work, Append(done, row))
<1>1. PICK X : /\ StartOf(o) \in Seq(X) /\ ImagesOf(o) \subseteq X
               /\ \A q \in Seq(o.rows) : Mapped(ImageOf(o), q) \in Seq(X)
  BY RowsAreTyped
<1>2. PICK b \in Seq(X) : b = StartOf(o) BY <1>1
<1>3. PICK d \in Seq(X) : d = Mapped(ImageOf(o), done) BY <1>1
<1>4. PICK n \in X : n = ImageOf(o)[row] BY <1>1 DEF ImagesOf
<1>5. PICK a \in Seq(X) : a = Concat(b, d) BY ConcatIsSeq
<1>6. v = Rows(a) BY <1>2, <1>3, <1>5 DEF HasStored
<1>7. work = Append(v, Fresh(n))
  <2>1. MsExecute(v, o.uniq, s, n) \in {Append(v, [c |-> n, w |-> 1]), ERR} BY PlainInsertAppends
  <2>2. PgExecute(v, o.uniq, s, n) \in {Append(v, Fresh(n)), ERR} BY CopyInserts
  <2> QED BY <1>4, <2>1, <2>2 DEF Fresh
<1>8. Append(Rows(a), Fresh(n)) = Rows(Append(a, n)) BY OneRowMore
<1>9. Append(Concat(b, d), n) = Concat(b, Append(d, n)) BY AppendLater
<1>10. Mapped(ImageOf(o), Append(done, row)) = Append(d, n) BY <1>3, <1>4, MappedAppend
<1> QED BY <1>2, <1>5, <1>6, <1>7, <1>8, <1>9, <1>10 DEF HasStored

(* A group is inserted, or what COPY sent.                                  *)
LEMMA GroupAdvances ==
  ASSUME op \in Ops, op.kind \notin Upserters, stmt.do = "error",
         NEW done \in Seq(op.rows), NEW held \in Seq(op.rows), NEW v, HasStored(op, v, done),
         NEW group, group = Mapped(ImageOf(op), held), NEW work, work # ERR,
         \/ work = Insert(v, group)
         \/ work = ExecuteAll(PgExecute, v, op.uniq, stmt, group)
  PROVE  HasStored(op, work, Concat(done, held))
<1>1. PICK X : /\ StartOf(op) \in Seq(X) /\ ImagesOf(op) \subseteq X
               /\ \A q \in Seq(op.rows) : Mapped(ImageOf(op), q) \in Seq(X)
  BY RowsAreTyped
<1>2. PICK b \in Seq(X) : b = StartOf(op) BY <1>1
<1>3. PICK d \in Seq(X) : d = Mapped(ImageOf(op), done) BY <1>1
<1>4. PICK g \in Seq(X) : g = group BY <1>1
<1>5. PICK a \in Seq(X) : a = Concat(b, d) BY ConcatIsSeq
<1>6. v = Rows(a) BY <1>2, <1>3, <1>5 DEF HasStored
<1>7. work = Rows(Concat(a, g))
  <2>1. CASE work = Insert(Rows(a), g) BY <2>1, InsertsGroup
  <2>2. CASE work = ExecuteAll(PgExecute, Rows(a), op.uniq, stmt, g) BY <2>2, CopiesGroup
  <2> QED BY <1>4, <1>6, <2>1, <2>2
<1>8. Concat(Concat(b, d), g) = Concat(b, Concat(d, g)) BY ConcatAssociates
<1>9. Mapped(ImageOf(op), Concat(done, held)) = Concat(d, g)
  BY <1>3, <1>4, MappedOfConcat
<1> QED BY <1>2, <1>5, <1>7, <1>8, <1>9 DEF HasStored

------------------------------------------------------------------------------
(* The inductive invariant of a writer that stores its input                *)

\* The writer's own view of the table: bcp has no transaction.
View == IF op.kind = "ms_bcp" THEN db ELSE txn

\* Rows of the batch that are still to be written.
Rest == IF phase = "rows" THEN batch ELSE << >>

\* The run has not failed, and its input is not over unless it was read to
\* the end.
GoesWell ==
  \/ phase \in {"loop", "rows", "given"}
  \/ phase = "finish" /\ rc = "ok"
  \/ phase = "stopped" /\ end = "eof"

(* The input i is the rows stored in v, those held and the rest.            *)
Holding(o, v, p, i, rest) ==
  \E done, held \in Seq(o.rows) :
    /\ i = Concat(Concat(done, held), rest)
    /\ p = Mapped(ImageOf(o), held)
    /\ HasStored(o, v, done)

(* The statement is the one that was asked for, and no buffer has moved     *)
(* behind the driver's back.                                                *)
Bindings(o, s, b) ==
  /\ IF o.kind \in Upserters THEN Prepared(o, s) ELSE s.do = "error"
  /\ \A i \in DOMAIN ColumnsOf(o) :
       /\ b[i] \in {"small", "big"}
       /\ o.kind = "ms_exec" => o.fmts[ColumnsOf(o)[i]] # "z"

NothingYet == in = << >> /\ pend = << >> /\ db = Rows(op.old)

Checked == op.key # << >> /\ ParseOnConflict(op.mode) # ERR

WellInv ==
  /\ Bindings(op, stmt, buf)
  /\ op.kind \in Upserters \cup Exec => pend = << >>
  /\ phase = "rows" => batch \in Seq(op.rows) /\ batch # << >>
  /\ Holding(op, View, pend, in, Rest)

StoreInv ==
  /\ op \in Ops
  /\ phase \in {"new", "ready"} => NothingYet
  /\ phase = "ready" /\ op.kind \in Upserters => Checked
  /\ phase \in {"given", "stopped"} => op.kind \in Exec
  /\ GoesWell => WellInv
  /\ Settled => in \in Seq(op.rows) /\ HasStored(op, db, in)

\* A run that goes on, or did not come to its input's end, has stored nothing.
LEMMA NotSettled ==
  ASSUME IInv', phase' \notin {"done", "gone"} \/ end' # "eof" PROVE ~ Settled'
BY DEF IInv, AllOrNothing, Settled

------------------------------------------------------------------------------
(* One row                                                                  *)

RowFailed == rc' # "ok" /\ phase' = (IF op.kind \in Exec THEN "stopped" ELSE "finish")

RowTaken ==
  /\ rc' = rc /\ batch' = Tail(batch)
  /\ phase' = IF Len(batch) > 1 THEN "rows" ELSE IF op.kind \in Exec THEN "given" ELSE "loop"

\* The row is held, or what was held and the row are written.
RowHeld(row) == View' = View /\ pend' = Append(pend, ImageOf(op)[row])

RowWritten(row) ==
  /\ pend' = << >>
  /\ \A done, held \in Seq(op.rows) :
       pend = Mapped(ImageOf(op), held) /\ HasStored(op, View, done)
       => HasStored(op, View', Concat(done, Append(held, row)))

(* The next row of the batch goes from the rest to the rows held.           *)
LEMMA NextRow ==
  ASSUME NEW S, NEW done \in Seq(S), NEW held \in Seq(S), NEW s \in Seq(S), s # << >>
  PROVE  Concat(Concat(done, held), s) = Concat(Concat(done, Append(held, Head(s))), Tail(s))
<1>1. PICK row \in S : row = Head(s) BY FirstAndRest
<1>2. PICK rest \in Seq(S) : rest = Tail(s) BY FirstAndRest
<1>3. s = Concat(<<row>>, rest) BY <1>1, <1>2, FirstAndRest
<1>4. PICK one \in Seq(S) : one = <<row>> BY OneIsSeq
<1>5. PICK all \in Seq(S) : all = Concat(done, held) BY ConcatIsSeq
<1>6. Concat(Concat(all, one), rest) = Concat(all, Concat(one, rest)) BY ConcatAssociates
<1>7. Append(all, row) = Concat(all, <<row>>) BY AppendIs
<1>8. Append(Concat(done, held), row) = Concat(done, Append(held, row)) BY AppendLater
<1> QED BY <1>1, <1>2, <1>3, <1>4, <1>5, <1>6, <1>7, <1>8

LEMMA LastIsTaken ==
  ASSUME NEW S, NEW s \in Seq(S), s # << >>
  PROVE  Tail(s) \in Seq(S) /\ (Len(s) > 1 <=> Tail(s) # << >>)
<1>1. PICK t \in Seq(S) : t = Tail(s) BY FirstAndRest
<1>2. PICK n \in Nat : n = Len(t) BY LenProperties
<1>3. Len(s) = n + 1
  <2>1. Len(Tail(s)) = Len(s) - 1 /\ Len(s) \in Nat BY HeadTailProperties, LenProperties
  <2> QED BY <1>1, <1>2, <2>1
<1>4. t = << >> <=> n = 0 BY <1>2, EmptySeq
<1> QED BY <1>1, <1>3, <1>4

(* What a row does keeps the invariant.                                     *)
LEMMA RowKeepsStore ==
  ASSUME StoreInv, IInv, IInv', phase = "rows", UNCHANGED <<op, stmt, in, end>>,
         \/ RowFailed
         \/ /\ RowTaken /\ Bindings(op, stmt, buf')
            /\ op.kind \in Upserters \cup Exec => pend' = << >>
            /\ RowHeld(Head(batch)) \/ RowWritten(Head(batch))
  PROVE  StoreInv'
<1>1. op \in Ops /\ WellInv BY DEF StoreInv, GoesWell
<1>2. end = "open" BY DEF IInv, RunningInv
<1>3. CASE RowFailed
  <2>1. ~ GoesWell' BY <1>2, <1>3 DEF RowFailed, GoesWell
  <2>2. ~ Settled' BY <1>2, NotSettled
  <2> QED BY <1>1, <1>3, <2>1, <2>2 DEF RowFailed, StoreInv
<1>4. CASE RowTaken /\ Bindings(op, stmt, buf') /\ (op.kind \in Upserters \cup Exec => pend' = << >>)
           /\ (RowHeld(Head(batch)) \/ RowWritten(Head(batch)))
  <2>1. batch \in Seq(op.rows) /\ batch # << >> /\ Rest = batch BY <1>1 DEF WellInv, Rest
  <2>2. Tail(batch) \in Seq(op.rows) /\ (Len(batch) > 1 <=> Tail(batch) # << >>) BY <2>1, LastIsTaken
  <2>3. Rest' = Tail(batch) BY <1>4, <2>2 DEF RowTaken, Rest
  <2>4. phase' = "rows" => batch' \in Seq(op.rows) /\ batch' # << >> BY <1>4, <2>2 DEF RowTaken
  <2>5. PICK done \in Seq(op.rows) : \E held \in Seq(op.rows) :
          /\ in = Concat(Concat(done, held), batch)
          /\ pend = Mapped(ImageOf(op), held)
          /\ HasStored(op, View, done)
    BY <1>1, <2>1 DEF WellInv, Holding
  <2>6. PICK held \in Seq(op.rows) :
          /\ in = Concat(Concat(done, held), batch)
          /\ pend = Mapped(ImageOf(op), held)
          /\ HasStored(op, View, done)
    BY <2>5
  <2>7. PICK row \in op.rows : row = Head(batch) BY <2>1, FirstAndRest
  <2>8. in = Concat(Concat(done, Append(held, row)), Tail(batch)) BY <2>1, <2>6, <2>7, NextRow
  <2>9. PICK more \in Seq(op.rows) : more = Append(held, row) BY AppendProperties
  <2>10. Holding(op, View', pend', in, Tail(batch))
    <3>1. CASE RowHeld(row)
      <4>1. Mapped(ImageOf(op), more) = Append(pend, ImageOf(op)[row]) BY <2>6, <2>9, MappedAppend
      <4> QED BY <2>6, <2>8, <2>9, <3>1, <4>1 DEF RowHeld, Holding
    <3>2. CASE RowWritten(row)
      <4>1. PICK all \in Seq(op.rows) : all = Concat(done, more) BY ConcatIsSeq
      <4>2. HasStored(op, View', all) /\ pend' = << >> BY <2>6, <2>9, <3>2, <4>1 DEF RowWritten
      <4>3. << >> \in Seq(op.rows) /\ Mapped(ImageOf(op), << >>) = << >> BY NothingMapped
      <4>4. Concat(all, << >>) = all BY NothingAfter
      <4> QED BY <2>8, <2>9, <4>1, <4>2, <4>3, <4>4 DEF Holding
    <3> QED BY <1>4, <2>7, <3>1, <3>2
  <2>11. WellInv' BY <1>4, <2>3, <2>4, <2>10 DEF WellInv
  <2>12. phase' \in {"rows", "given", "loop"} /\ (phase' = "given" => op.kind \in Exec)
    BY <1>4 DEF RowTaken
  <2>13. ~ Settled' BY <1>2, NotSettled
  <2> QED BY <1>1, <2>11, <2>12, <2>13 DEF StoreInv
<1> QED BY <1>3, <1>4

(* A row's cells arrive as they are, in its columns.                        *)
LEMMA CellsArrive ==
  ASSUME op.kind # "ms_bcp" \/ \A i \in DOMAIN ColumnsOf(op) : ColumnsOf(op)[i] = i,
         NEW row \in op.rows, NEW cells,
         \A i \in DOMAIN ColumnsOf(op) : cells[i] = row[ColumnsOf(op)[i]]
  PROVE  Placed(cells) = ImageOf(op)[row]
<1>1. Columns = ColumnsOf(op) BY OfThis
<1>2. \A i \in DOMAIN Columns : Target(i) = Columns[i] BY <1>1 DEF Target
<1>3. Placed(cells) = Wanted(row) BY <1>1, <1>2, PlacedByName
<1>4. ImageOf(op)[row] = Wanted(row)
  <2>1. ImageOf(op) = Image BY OfThis
  <2> QED BY <2>1 DEF Image
<1> QED BY <1>3, <1>4

(* A text parameter without a NUL arrives as it is.                         *)
LEMMA PgCellsArrive ==
  ASSUME ArrivesAsGiven, op \in Ops, op.kind \in {"pg_upsert", "pg_exec"}, NEW row \in op.rows
  PROVE  /\ Placed([i \in DOMAIN Columns |-> RenderCell(Cell(row, i))]) = ImageOf(op)[row]
         /\ Placed([i \in DOMAIN Columns |-> EncodeCell(Cell(row, i))]) = ImageOf(op)[row]
<1>1. Columns = ColumnsOf(op) BY OfThis
<1>2. \A i \in DOMAIN Columns : row[Columns[i]] # NULTEXT BY <1>1 DEF ArrivesAsGiven
<1>3. \A i \in DOMAIN Columns : RenderCell(Cell(row, i)) = row[Columns[i]]
                                /\ EncodeCell(Cell(row, i)) = row[Columns[i]]
  BY <1>2 DEF RenderCell, EncodeCell, Narrowed, Cell
<1>4. PICK a, b : /\ a = [i \in DOMAIN Columns |-> RenderCell(Cell(row, i))]
                  /\ b = [i \in DOMAIN Columns |-> EncodeCell(Cell(row, i))]
  OBVIOUS
<1>5. \A i \in DOMAIN ColumnsOf(op) : a[i] = row[ColumnsOf(op)[i]] /\ b[i] = row[ColumnsOf(op)[i]]
  BY <1>1, <1>3, <1>4
<1>6. Placed(a) = ImageOf(op)[row] /\ Placed(b) = ImageOf(op)[row] BY <1>5, CellsArrive
<1> QED BY <1>4, <1>6

LEMMA CopyCellsArrive ==
  ASSUME op.kind = "pg_copy", NEW row \in op.rows
  PROVE  Placed([i \in DOMAIN Columns |-> Cell(row, i)]) = ImageOf(op)[row]
<1>1. Columns = ColumnsOf(op) BY OfThis
<1>2. PICK a : a = [i \in DOMAIN Columns |-> Cell(row, i)] OBVIOUS
<1>3. \A i \in DOMAIN ColumnsOf(op) : a[i] = row[ColumnsOf(op)[i]] BY <1>1, <1>2 DEF Cell
<1> QED BY <1>2, <1>3, CellsArrive

(* So does a bound cell whose buffer is where the driver thinks it is.      *)
LEMMA MsCellsArrive ==
  ASSUME ArrivesAsGiven, op \in Ops, op.kind \in {"ms_upsert", "ms_bulk", "ms_bcp", "ms_exec"},
         NEW row \in op.rows, NEW b, \A i \in DOMAIN Columns : b[i] \in {"small", "big"}
  PROVE  Placed([i \in DOMAIN Columns |-> Bound(Cell(row, i), b[i])]) = ImageOf(op)[row]
<1>1. Columns = ColumnsOf(op) BY OfThis
<1>2. \A i \in DOMAIN Columns : row[Columns[i]] # WIDE /\ (op.kind = "ms_bcp" => Columns[i] = i)
  BY <1>1 DEF ArrivesAsGiven
<1>3. \A i \in DOMAIN Columns : Bound(Cell(row, i), b[i]) = row[Columns[i]]
  BY <1>2 DEF Bound, Narrowed, Cell
<1>4. PICK a : a = [i \in DOMAIN Columns |-> Bound(Cell(row, i), b[i])] OBVIOUS
<1>5. \A i \in DOMAIN ColumnsOf(op) : a[i] = row[ColumnsOf(op)[i]] BY <1>1, <1>3, <1>4
<1>6. Placed(a) = ImageOf(op)[row] BY <1>1, <1>2, <1>5, CellsArrive
<1> QED BY <1>4, <1>6

(* No buffer moves behind the driver's back.                                *)
LEMMA BuffersStay ==
  ASSUME ArrivesAsGiven, op \in Ops, Bindings(op, stmt, buf), NEW row \in op.rows, NEW b,
         \/ op.kind = "ms_upsert" /\ b \in Moves(row, MsUpsertRebinds)
         \/ op.kind = "ms_exec" /\ b \in Moves(row, MsExecRebinds)
         \/ op.kind = "ms_bcp" /\ b \in Moves(row, BcpRebinds)
  PROVE  Bindings(op, stmt, b) /\ \A i \in DOMAIN Columns : b[i] \in {"small", "big"}
<1>1. Columns = ColumnsOf(op) BY OfThis
<1>2. ASSUME NEW i \in DOMAIN Columns PROVE b[i] \in {"small", "big"}
  <2>1. PICK f, v : f = op.fmts[Columns[i]] /\ v = Cell(row, i) OBVIOUS
  <2>2. buf[i] \in {"small", "big"} /\ (op.kind = "ms_exec" => f # "z")
    BY <1>1, <2>1 DEF Bindings
  <2>3. op.kind = "ms_upsert" /\ f = "z" => v \notin LongVals
    BY <1>1, <2>1 DEF ArrivesAsGiven, Cell
  <2>4. CASE op.kind = "ms_upsert"
    <3>1. \E m \in Grown(f, v, buf[i]) : b[i] = Address(m, MsUpsertRebinds(f))
      BY <2>1, <2>4 DEF Moves
    <3> QED BY <2>2, <2>3, <2>4, <3>1 DEF Grown, Address, MsUpsertRebinds
  <2>5. CASE op.kind = "ms_exec"
    <3>1. \E m \in Grown(f, v, buf[i]) : b[i] = Address(m, MsExecRebinds(f))
      BY <2>1, <2>5 DEF Moves
    <3> QED BY <2>2, <2>5, <3>1 DEF Grown, Address, MsExecRebinds
  <2>6. CASE op.kind = "ms_bcp"
    <3>1. \E m \in Grown(f, v, buf[i]) : b[i] = Address(m, BcpRebinds(f))
      BY <2>1, <2>6 DEF Moves
    <3> QED BY <2>2, <2>6, <3>1 DEF Grown, Address, BcpRebinds
  <2> QED BY <2>4, <2>5, <2>6
<1> QED BY <1>1, <1>2 DEF Bindings

(* A row that is written by itself.                                         *)
LEMMA OneRowWritten ==
  ASSUME NEW row \in op.rows, pend = << >>, pend' = << >>,
         \A done \in Seq(op.rows) : HasStored(op, View, done) => HasStored(op, View', Append(done, row))
  PROVE  RowWritten(row)
<1> SUFFICES ASSUME NEW done \in Seq(op.rows), NEW held \in Seq(op.rows),
                    << >> = Mapped(ImageOf(op), held), HasStored(op, View, done)
             PROVE  HasStored(op, View', Concat(done, Append(held, row)))
  BY DEF RowWritten
<1>1. held = << >> BY MappedToNothing
<1>2. Append(<< >>, row) = <<row>> OBVIOUS
<1>3. Concat(done, <<row>>) = Append(done, row) BY AppendIs
<1> QED BY <1>1, <1>2, <1>3

LEMMA InTxnTakes ==
  ASSUME NEW work, InTxn(work), UNCHANGED op, op.kind # "ms_bcp"
  PROVE  \/ RowFailed
         \/ RowTaken /\ work # ERR /\ pend' = << >> /\ View' = work /\ View = txn
BY DEF InTxn, RowFails, Fail, RowFailed, RowDone, RowTaken, View

LEMMA RowIsNext ==
  ASSUME StoreInv, phase = "rows"
  PROVE  /\ op \in Ops /\ Bindings(op, stmt, buf) /\ Head(batch) \in op.rows
         /\ op.kind \in Upserters \cup Exec => pend = << >>
<1>1. op \in Ops /\ WellInv BY DEF StoreInv, GoesWell
<1>2. batch \in Seq(op.rows) /\ batch # << >> BY <1>1 DEF WellInv
<1>3. Head(batch) \in op.rows BY <1>2, FirstAndRest
<1> QED BY <1>1, <1>3 DEF WellInv

(* A writer that executes each row.                                         *)
LEMMA OneRowStored ==
  ASSUME KeyedTables, StoreInv, IInv, IInv', phase = "rows", UNCHANGED <<op, stmt, in, end>>,
         op.kind \in Upserters \cup Exec, Bindings(op, stmt, buf'),
         NEW new, new = ImageOf(op)[Head(batch)], NEW work, InTxn(work),
         \/ work = PgExecute(txn, op.uniq, stmt, new)
         \/ work = MsExecute(txn, op.uniq, stmt, new)
  PROVE  StoreInv'
<1>1. PICK row \in op.rows : row = Head(batch) /\ new = ImageOf(op)[row] BY RowIsNext
<1>2. op \in Ops /\ Bindings(op, stmt, buf) /\ pend = << >> BY RowIsNext
<1>3. op.kind # "ms_bcp" BY DEF Upserters, Exec
<1>4. CASE RowFailed BY <1>4, RowKeepsStore
<1>5. CASE RowTaken /\ work # ERR /\ pend' = << >> /\ View' = work /\ View = txn
  <2>1. ASSUME NEW done \in Seq(op.rows), HasStored(op, txn, done)
        PROVE  HasStored(op, work, Append(done, row))
    <3>1. CASE op.kind \in Upserters
      <4>1. Prepared(op, stmt) BY <1>2, <3>1 DEF Bindings
      <4> QED BY <1>1, <1>2, <1>5, <2>1, <3>1, <4>1, UpsertAdvances
    <3>2. CASE op.kind \notin Upserters
      <4>1. stmt.do = "error" BY <1>2, <3>2 DEF Bindings
      <4> QED BY <1>1, <1>2, <1>5, <2>1, <3>2, <4>1, RowAdvances
    <3> QED BY <3>1, <3>2
  <2>2. RowWritten(row) BY <1>2, <1>5, <2>1, OneRowWritten
  <2> QED BY <1>1, <1>5, <2>2, RowKeepsStore
<1> QED BY <1>3, <1>4, <1>5, InTxnTakes

LEMMA PgUpsertStores ==
  ASSUME ArrivesAsGiven, KeyedTables, StoreInv, IInv, IInv', PgUpsertRow PROVE StoreInv'
<1>1. phase = "rows" /\ op.kind = "pg_upsert" /\ UNCHANGED <<op, stmt, in, end, buf>>
  BY DEF PgUpsertRow, Writing
<1>2. PICK row \in op.rows : row = Head(batch) BY <1>1, RowIsNext
<1>3. PICK new : new = Placed([i \in DOMAIN Columns |-> RenderCell(Cell(row, i))]) OBVIOUS
<1>4. PICK work : work = PgExecute(txn, op.uniq, stmt, new) /\ InTxn(work)
  BY <1>2, <1>3 DEF PgUpsertRow
<1>5. op \in Ops /\ Bindings(op, stmt, buf) BY <1>1, RowIsNext
<1>6. new = ImageOf(op)[row] BY <1>1, <1>3, <1>5, PgCellsArrive
<1>7. op.kind \in Upserters \cup Exec /\ Bindings(op, stmt, buf') BY <1>1, <1>5 DEF Upserters
<1> QED BY <1>1, <1>2, <1>4, <1>6, <1>7, OneRowStored

LEMMA PgExecStores ==
  ASSUME ArrivesAsGiven, KeyedTables, StoreInv, IInv, IInv', PgExecRow PROVE StoreInv'
<1>1. phase = "rows" /\ op.kind = "pg_exec" /\ UNCHANGED <<op, stmt, in, end, buf>>
  BY DEF PgExecRow, Writing
<1>2. PICK row \in op.rows : row = Head(batch) BY <1>1, RowIsNext
<1>3. PICK new : new = Placed([i \in DOMAIN Columns |-> EncodeCell(Cell(row, i))]) OBVIOUS
<1>4. RowFails("cancelled", << >>) \/ InTxn(PgExecute(txn, op.uniq, stmt, new))
  BY <1>2, <1>3 DEF PgExecRow
<1>5. op \in Ops /\ Bindings(op, stmt, buf) BY <1>1, RowIsNext
<1>6. new = ImageOf(op)[row] BY <1>1, <1>3, <1>5, PgCellsArrive
<1>7. op.kind \in Upserters \cup Exec /\ Bindings(op, stmt, buf') BY <1>1, <1>5 DEF Exec
<1>8. CASE RowFails("cancelled", << >>)
  <2>1. RowFailed BY <1>8 DEF RowFails, Fail, RowFailed
  <2> QED BY <1>1, <2>1, RowKeepsStore
<1>9. CASE InTxn(PgExecute(txn, op.uniq, stmt, new))
  BY <1>1, <1>2, <1>6, <1>7, <1>9, OneRowStored
<1> QED BY <1>4, <1>8, <1>9

LEMMA MsUpsertStores ==
  ASSUME ArrivesAsGiven, KeyedTables, StoreInv, IInv, IInv', MsUpsertRow PROVE StoreInv'
<1>1. phase = "rows" /\ op.kind = "ms_upsert" /\ UNCHANGED <<op, stmt, in, end>>
  BY DEF MsUpsertRow, Writing
<1>2. PICK row \in op.rows : row = Head(batch) BY <1>1, RowIsNext
<1>3. PICK b \in Moves(row, MsUpsertRebinds) :
        LET new == Placed([i \in DOMAIN Columns |-> Bound(Cell(row, i), b[i])])
        IN  buf' = b /\ InTxn(MsExecute(txn, op.uniq, stmt, new))
  BY <1>2 DEF MsUpsertRow
<1>4. PICK new : new = Placed([i \in DOMAIN Columns |-> Bound(Cell(row, i), b[i])]) OBVIOUS
<1>5. op \in Ops /\ Bindings(op, stmt, buf) BY <1>1, RowIsNext
<1>6. Bindings(op, stmt, b) /\ \A i \in DOMAIN Columns : b[i] \in {"small", "big"}
  BY <1>1, <1>3, <1>5, BuffersStay
<1>7. new = ImageOf(op)[row] BY <1>1, <1>4, <1>5, <1>6, MsCellsArrive
<1>8. PICK work : work = MsExecute(txn, op.uniq, stmt, new) /\ InTxn(work) BY <1>3, <1>4
<1>9. op.kind \in Upserters \cup Exec /\ Bindings(op, stmt, buf') BY <1>1, <1>3, <1>6 DEF Upserters
<1> QED BY <1>1, <1>2, <1>7, <1>8, <1>9, OneRowStored

LEMMA MsExecStores ==
  ASSUME ArrivesAsGiven, KeyedTables, StoreInv, IInv, IInv', MsExecRow PROVE StoreInv'
<1>1. phase = "rows" /\ op.kind = "ms_exec" /\ UNCHANGED <<op, stmt, in, end>>
  BY DEF MsExecRow, Writing
<1>2. PICK row \in op.rows : row = Head(batch) BY <1>1, RowIsNext
<1>3. CASE cancel
  <2>1. RowFailed BY <1>3 DEF MsExecRow, RowFails, Fail, RowFailed
  <2> QED BY <1>1, <2>1, RowKeepsStore
<1>4. CASE ~ cancel
  <2>1. PICK b \in Moves(row, MsExecRebinds) :
          LET new == Placed([i \in DOMAIN Columns |-> Bound(Cell(row, i), b[i])])
          IN  buf' = b /\ InTxn(MsExecute(txn, op.uniq, stmt, new))
    BY <1>2, <1>4 DEF MsExecRow
  <2>2. PICK new : new = Placed([i \in DOMAIN Columns |-> Bound(Cell(row, i), b[i])]) OBVIOUS
  <2>3. op \in Ops /\ Bindings(op, stmt, buf) BY <1>1, RowIsNext
  <2>4. Bindings(op, stmt, b) /\ \A i \in DOMAIN Columns : b[i] \in {"small", "big"}
    BY <1>1, <2>1, <2>3, BuffersStay
  <2>5. new = ImageOf(op)[row] BY <1>1, <2>2, <2>3, <2>4, MsCellsArrive
  <2>6. PICK work : work = MsExecute(txn, op.uniq, stmt, new) /\ InTxn(work) BY <2>1, <2>2
  <2>7. op.kind \in Upserters \cup Exec /\ Bindings(op, stmt, buf') BY <1>1, <2>1, <2>4 DEF Exec
  <2> QED BY <1>1, <1>2, <2>5, <2>6, <2>7, OneRowStored
<1> QED BY <1>3, <1>4

(* COPY and bulkinsert hold rows; bulkinsert and bcp write whole groups.    *)
LEMMA GroupWritten ==
  ASSUME op \in Ops, op.kind \notin Upserters, stmt.do = "error", NEW row \in op.rows,
         NEW group, group = Append(pend, ImageOf(op)[row]), pend' = << >>,
         View' = Insert(View, group), View' # ERR
  PROVE  RowWritten(row)
<1> SUFFICES ASSUME NEW done \in Seq(op.rows), NEW held \in Seq(op.rows),
                    pend = Mapped(ImageOf(op), held), HasStored(op, View, done)
             PROVE  HasStored(op, View', Concat(done, Append(held, row)))
  BY DEF RowWritten
<1>1. PICK more \in Seq(op.rows) : more = Append(held, row) BY AppendProperties
<1>2. Mapped(ImageOf(op), more) = group BY <1>1, MappedAppend
<1>3. PICK v, work : v = View /\ work = View' OBVIOUS
<1>4. HasStored(op, work, Concat(done, more)) BY <1>2, <1>3, GroupAdvances
<1> QED BY <1>1, <1>3, <1>4

LEMMA RowDoneTakes ==
  ASSUME NEW held, RowDone(held) PROVE RowTaken /\ pend' = held
BY DEF RowDone, RowTaken

LEMMA CopyStores ==
  ASSUME ArrivesAsGiven, KeyedTables, StoreInv, IInv, IInv', CopyRow PROVE StoreInv'
<1>1. phase = "rows" /\ op.kind = "pg_copy" /\ UNCHANGED <<op, stmt, in, end, buf, db, txn>>
  BY DEF CopyRow, Writing, RowFails
<1>2. PICK row \in op.rows : row = Head(batch) BY <1>1, RowIsNext
<1>3. PICK new : new = Placed([i \in DOMAIN Columns |-> Cell(row, i)]) OBVIOUS
<1>4. RowFails("io", << >>) \/ RowDone(Append(pend, new)) BY <1>2, <1>3 DEF CopyRow
<1>5. new = ImageOf(op)[row] BY <1>1, <1>3, CopyCellsArrive
<1>6. CASE RowFails("io", << >>)
  <2>1. RowFailed BY <1>6 DEF RowFails, Fail, RowFailed
  <2> QED BY <1>1, <2>1, RowKeepsStore
<1>7. CASE RowDone(Append(pend, new))
  <2>1. RowTaken /\ pend' = Append(pend, new) BY <1>7, RowDoneTakes
  <2>2. RowHeld(row) BY <1>1, <1>5, <2>1 DEF RowHeld, View
  <2>3. Bindings(op, stmt, buf') BY <1>1, RowIsNext
  <2>4. op.kind \notin Upserters \cup Exec BY <1>1 DEF Upserters, Exec
  <2> QED BY <1>1, <1>2, <2>1, <2>2, <2>3, <2>4, RowKeepsStore
<1> QED BY <1>4, <1>6, <1>7

LEMMA BulkStores ==
  ASSUME ArrivesAsGiven, KeyedTables, StoreInv, IInv, IInv', BulkRow PROVE StoreInv'
<1>1. phase = "rows" /\ op.kind = "ms_bulk" /\ UNCHANGED <<op, stmt, in, end, buf>>
  BY DEF BulkRow, Writing
<1>2. PICK row \in op.rows : row = Head(batch) BY <1>1, RowIsNext
<1>3. PICK b : b = [i \in DOMAIN Columns |-> "small"] OBVIOUS
<1>4. PICK new : new = Placed([i \in DOMAIN Columns |-> Bound(Cell(row, i), b[i])]) OBVIOUS
<1>5. new = Placed([i \in DOMAIN Columns |-> Bound(Cell(row, i), "small")]) BY <1>3, <1>4
<1>6. PICK group : group = Append(pend, new) OBVIOUS
<1>7. \/ RowFails("invalid", pend)
      \/ InTxn(Insert(txn, group))
      \/ RowDone(group) /\ UNCHANGED <<db, txn>>
  BY <1>2, <1>5, <1>6 DEF BulkRow
<1>8. op \in Ops /\ Bindings(op, stmt, buf) BY <1>1, RowIsNext
<1>9. new = ImageOf(op)[row]
  <2>1. \A i \in DOMAIN Columns : b[i] \in {"small", "big"} BY <1>3
  <2> QED BY <1>1, <1>4, <1>8, <2>1, MsCellsArrive
<1>10. op.kind \notin Upserters \cup Exec /\ op.kind # "ms_bcp" BY <1>1 DEF Upserters, Exec
<1>11. stmt.do = "error" BY <1>8, <1>10 DEF Bindings
<1>12. CASE RowFails("invalid", pend)
  <2>1. RowFailed BY <1>12 DEF RowFails, Fail, RowFailed
  <2> QED BY <1>1, <2>1, RowKeepsStore
<1>13. CASE InTxn(Insert(txn, group))
  <2>1. PICK work : work = Insert(txn, group) /\ InTxn(work) BY <1>13
  <2>2. CASE RowFailed BY <1>1, <2>2, RowKeepsStore
  <2>3. CASE RowTaken /\ work # ERR /\ pend' = << >> /\ View' = work /\ View = txn
    <3>1. RowWritten(row) BY <1>6, <1>8, <1>9, <1>10, <1>11, <2>1, <2>3, GroupWritten
    <3> QED BY <1>1, <1>2, <1>8, <1>10, <2>3, <3>1, RowKeepsStore
  <2> QED BY <1>1, <1>10, <2>1, <2>2, <2>3, InTxnTakes
<1>14. CASE RowDone(group) /\ UNCHANGED <<db, txn>>
  <2>1. RowTaken /\ pend' = group BY <1>14, RowDoneTakes
  <2>2. RowHeld(row) BY <1>1, <1>6, <1>9, <1>14, <2>1 DEF RowHeld, View
  <2> QED BY <1>1, <1>2, <1>8, <1>10, <2>1, <2>2, RowKeepsStore
<1> QED BY <1>7, <1>12, <1>13, <1>14

LEMMA BcpStores ==
  ASSUME ArrivesAsGiven, KeyedTables, StoreInv, IInv, IInv', BcpRow PROVE StoreInv'
<1>1. phase = "rows" /\ op.kind = "ms_bcp" /\ UNCHANGED <<op, stmt, in, end>>
  BY DEF BcpRow, Writing
<1>2. PICK row \in op.rows : row = Head(batch) BY <1>1, RowIsNext
<1>3. PICK b \in Moves(row, BcpRebinds) :
        LET new == Placed([i \in DOMAIN Columns |-> Bound(Cell(row, i), b[i])])
            group == Append(pend, new)
        IN  /\ buf' = b
            /\ \/ RowFails("io", pend)
               \/ GroupFull(group) /\ BcpBatch(Insert(db, group))
               \/ ~ GroupFull(group) /\ RowDone(group) /\ UNCHANGED <<db, txn>>
  BY <1>2 DEF BcpRow
<1>4. PICK new : new = Placed([i \in DOMAIN Columns |-> Bound(Cell(row, i), b[i])]) OBVIOUS
<1>5. PICK group : group = Append(pend, new) OBVIOUS
<1>6. op \in Ops /\ Bindings(op, stmt, buf) BY <1>1, RowIsNext
<1>7. Bindings(op, stmt, b) /\ \A i \in DOMAIN Columns : b[i] \in {"small", "big"}
  BY <1>1, <1>3, <1>6, BuffersStay
<1>8. new = ImageOf(op)[row] BY <1>1, <1>4, <1>6, <1>7, MsCellsArrive
<1>9. Bindings(op, stmt, buf') BY <1>3, <1>7
<1>10. op.kind \notin Upserters \cup Exec BY <1>1 DEF Upserters, Exec
<1>11. stmt.do = "error" BY <1>6, <1>10 DEF Bindings
<1>12. \/ RowDone(group) /\ UNCHANGED db
       \/ Fail("io")
       \/ RowDone(<< >>) /\ db' = Insert(db, group) /\ db' # ERR
  BY <1>3, <1>4, <1>5 DEF BcpBatch, RowFails
<1>13. CASE RowDone(group) /\ UNCHANGED db
  <2>1. RowTaken /\ pend' = group BY <1>13, RowDoneTakes
  <2>2. RowHeld(row) BY <1>1, <1>5, <1>8, <1>13, <2>1 DEF RowHeld, View
  <2> QED BY <1>1, <1>2, <1>9, <1>10, <2>1, <2>2, RowKeepsStore
<1>14. CASE Fail("io")
  <2>1. RowFailed BY <1>14 DEF Fail, RowFailed
  <2> QED BY <1>1, <2>1, RowKeepsStore
<1>15. CASE RowDone(<< >>) /\ db' = Insert(db, group) /\ db' # ERR
  <2>1. RowTaken /\ pend' = << >> BY <1>15, RowDoneTakes
  <2>2. View' = Insert(View, group) /\ View' # ERR BY <1>1, <1>15 DEF View
  <2>3. RowWritten(row) BY <1>5, <1>6, <1>8, <1>10, <1>11, <2>1, <2>2, GroupWritten
  <2> QED BY <1>1, <1>2, <1>9, <1>10, <2>1, <2>3, RowKeepsStore
<1> QED BY <1>12, <1>13, <1>14, <1>15

------------------------------------------------------------------------------
(* The start of a run                                                       *)

LEMMA ModeIsParsed ==
  ASSUME NEW m, ParseOnConflict(m) # ERR
  PROVE  ParseOnConflict(m) = (IF m = NULL THEN "update" ELSE m)
<1>1. CASE m = NULL
  <2>1. m \notin {"update", "update_if_changed", "ignore", "error"} BY <1>1, NullAssumption
  <2> QED BY <1>1, <2>1 DEF ParseOnConflict
<1>2. CASE m # NULL BY <1>2 DEF ParseOnConflict
<1> QED BY <1>1, <1>2

(* The statement an upsert prepares.                                        *)
LEMMA UpsertIsPrepared ==
  ASSUME KeyedTables, op \in Ops, op.kind \in Upserters, Checked, NEW quote, NEW s, s # ERR,
         s = BuildSql(quote, op.table, Columns, op.key, ParseOnConflict(op.mode),
                      ParseOnConflict(op.mode) = "update_if_changed"),
         Prepares(s)
  PROVE  Prepared(op, s)
<1>1. Columns = ColumnsOf(op) BY OfThis
<1>2. PICK cols, mode : cols = Columns /\ mode = ModeOf(op) OBVIOUS
<1>3. ParseOnConflict(op.mode) = mode BY <1>2, ModeIsParsed DEF Checked, ModeOf
<1>4. PICK set : set = {c \in ToSet(cols) : ~ IsKey(c, op.key)} OBVIOUS
<1>5. /\ \A i \in DOMAIN op.key : IsKey(op.key[i], cols)
      /\ s = IF mode = "error" THEN PlainInsert(cols)
             ELSE [do |-> IF mode = "ignore" \/ set = {} THEN "nothing" ELSE "update",
                   cols |-> cols, keys |-> op.key, set |-> set, guarded |-> mode = "update_if_changed"]
  BY <1>2, <1>3, <1>4 DEF BuildSql
<1>6. s.cols = cols BY <1>5 DEF PlainInsert
<1>7. WrittenBy(op) = ToSet(cols) BY <1>1, <1>2 DEF WrittenBy
<1>8. set = WrittenBy(op) \ ToSet(op.key) BY <1>4, <1>7 DEF IsKey
<1>9. ToSet(op.key) \subseteq WrittenBy(op) BY <1>5, <1>7 DEF IsKey, ToSet
<1>10. WrittenBy(op) \subseteq 1 .. op.width
  <2>1. op.kind # "ms_bcp" BY DEF Upserters
  <2>2. \A i \in DOMAIN cols : cols[i] \in 1 .. op.width BY <1>2, <1>6, <2>1 DEF Prepares, Target
  <2> QED BY <1>7, <2>2 DEF ToSet
<1>11. op.key \in Seq(Nat) /\ op.key # << >> BY DEF KeyedTables, Checked
<1>12. CASE mode = "error"
  <2>1. s.do = "error" BY <1>5, <1>12 DEF PlainInsert
  <2> QED BY <1>2, <1>9, <1>10, <1>11, <1>12, <2>1 DEF Prepared
<1>13. CASE mode # "error"
  <2>1. /\ s.do = (IF mode = "ignore" \/ set = {} THEN "nothing" ELSE "update")
        /\ s.keys = op.key /\ s.set = set /\ s.guarded = (mode = "update_if_changed")
    BY <1>5, <1>13
  <2> QED BY <1>2, <1>8, <1>9, <1>10, <1>11, <1>13, <2>1 DEF Prepared
<1> QED BY <1>12, <1>13

\* A run is refused, fails, or begins.
RunRefused == rc' # "ok" /\ phase' = "done"

RunBegins ==
  /\ phase' = "loop"
  /\ \A i \in DOMAIN Columns : buf'[i] = "small"
  /\ IF op.kind \in Upserters THEN Prepared(op, stmt') ELSE stmt'.do = "error"
  /\ View' = Rows(StartOf(op))

(* However a run starts.                                                    *)
LEMMA StartStores ==
  ASSUME KeyedTables, StoreInv, IInv, IInv', phase = "ready", UNCHANGED <<op, db, pend, batch, in, end>>,
         ColumnsOk \/ ~ RunBegins, RunRefused \/ RowFailed \/ RunBegins
  PROVE  StoreInv'
<1>1. op \in Ops /\ NothingYet /\ end = "open" BY DEF StoreInv, IInv, RunningInv
<1>5. ~ Settled' BY <1>1, NotSettled
<1>2. CASE RunRefused
  <2>1. ~ GoesWell' BY <1>2 DEF RunRefused, GoesWell
  <2> QED BY <1>1, <1>2, <1>5, <2>1 DEF RunRefused, StoreInv
<1>3. CASE RowFailed
  <2>1. ~ GoesWell' BY <1>1, <1>3 DEF RowFailed, GoesWell
  <2> QED BY <1>1, <1>3, <1>5, <2>1 DEF RowFailed, StoreInv
<1>4. CASE RunBegins
  <2>1. Columns = ColumnsOf(op) BY OfThis
  <2>2. ASSUME NEW i \in DOMAIN ColumnsOf(op), op.kind = "ms_exec" PROVE op.fmts[ColumnsOf(op)[i]] # "z"
    <3>1. op.fmts[ColumnsOf(op)[i]] \in FmtToExType
      BY <1>4, <2>1, <2>2 DEF ColumnsOk, Types
    <3> QED BY <3>1 DEF FmtToExType, FmtToPeType
  <2>3. Bindings(op, stmt', buf') BY <1>4, <2>1, <2>2 DEF RunBegins, Bindings
  <2>4. Holding(op, View', << >>, << >>, << >>)
    <3>1. HasStored(op, View', << >>) BY <1>1, <1>4, ContainsNothing DEF RunBegins
    <3>2. << >> \in Seq(op.rows) /\ Mapped(ImageOf(op), << >>) = << >> BY NothingMapped
    <3>3. Concat(Concat(<< >>, << >>), << >>) = << >> BY <3>2, NothingAfter
    <3> QED BY <3>1, <3>2, <3>3 DEF Holding
  <2>5. Rest' = << >> /\ phase' = "loop" BY <1>4 DEF RunBegins, Rest
  <2>6. WellInv' BY <1>1, <2>3, <2>4, <2>5 DEF WellInv, NothingYet
  <2> QED BY <1>1, <1>5, <2>5, <2>6 DEF StoreInv
<1> QED BY <1>2, <1>3, <1>4

LEMMA BeginIs ==
  ASSUME NEW s, NEW table, Begin(s, table), UNCHANGED <<op, db>>
  PROVE  \/ RowFailed
         \/ /\ Prepares(s) /\ phase' = "loop" /\ stmt' = s
            /\ \A i \in DOMAIN Columns : buf'[i] = "small"
            /\ View' = IF op.kind = "ms_bcp" THEN db ELSE table
BY DEF Begin, Fail, RowFailed, View

(* The upserts prepare their statement.                                     *)
LEMMA UpsertStarts ==
  ASSUME KeyedTables, StoreInv, IInv, IInv', StartPgUpsert \/ StartMsUpsert
  PROVE  StoreInv'
<1>1. phase = "ready" /\ UNCHANGED <<op, db, pend, batch, in, end>> /\ op.kind \in Upserters
  BY DEF StartPgUpsert, StartMsUpsert, Starting, Upserters
<1>2. op \in Ops /\ NothingYet /\ Checked BY <1>1 DEF StoreInv
<1>3. PICK quote, s :
        /\ s = BuildSql(quote, op.table, Columns, op.key, ParseOnConflict(op.mode),
                        ParseOnConflict(op.mode) = "update_if_changed")
        /\ RunRefused \/ (ColumnsOk /\ s # ERR /\ Begin(s, db))
  BY DEF StartPgUpsert, StartMsUpsert, BuildUpsertSql, BuildMergeSql, Refuse, RunRefused
<1>4. CASE RunRefused BY <1>1, <1>4, StartStores DEF RunRefused, RunBegins
<1>5. CASE ColumnsOk /\ s # ERR /\ Begin(s, db)
  <2>1. CASE RowFailed BY <1>1, <1>5, <2>1, StartStores
  <2>2. CASE /\ Prepares(s) /\ phase' = "loop" /\ stmt' = s
             /\ \A i \in DOMAIN Columns : buf'[i] = "small"
             /\ View' = IF op.kind = "ms_bcp" THEN db ELSE db
    <3>1. Prepared(op, s) BY <1>1, <1>2, <1>3, <1>5, <2>2, UpsertIsPrepared
    <3>2. StartOf(op) = op.old /\ db = Rows(op.old)
      BY <1>1, <1>2 DEF StartOf, Upserters, NothingYet
    <3>3. RunBegins BY <1>1, <2>2, <3>1, <3>2 DEF RunBegins
    <3> QED BY <1>1, <1>5, <3>3, StartStores
  <2> QED BY <1>1, <1>5, <2>1, <2>2, BeginIs
<1> QED BY <1>3, <1>4, <1>5

(* The others insert, COPY after a TRUNCATE if asked for.                   *)
LEMMA InserterStarts ==
  ASSUME KeyedTables, StoreInv, IInv, IInv',
         StartCopy \/ StartBulk \/ StartBcp \/ StartPgExec \/ StartMsExec
  PROVE  StoreInv'
<1>1. phase = "ready" /\ UNCHANGED <<op, db, pend, batch, in, end>> /\ op.kind \notin Upserters
  BY DEF StartCopy, StartBulk, StartBcp, StartPgExec, StartMsExec, Starting, Upserters
<1>2. op \in Ops /\ NothingYet BY <1>1 DEF StoreInv
<1>3. db = Rows(op.old) BY <1>2 DEF NothingYet
<1>4. \/ RunRefused
      \/ \E s, table : /\ ColumnsOk /\ s.do = "error" /\ Begin(s, table)
                       /\ (IF op.kind = "ms_bcp" THEN db ELSE table) = Rows(StartOf(op))
  <2>1. CASE StartCopy
    <3>1. op.kind = "pg_copy" BY <2>1 DEF StartCopy, Starting
    <3>2. (IF op.truncate THEN << >> ELSE db) = Rows(StartOf(op))
      <4>1. Rows(<< >>) = << >> BY DEF Rows
      <4> QED BY <1>3, <3>1, <4>1 DEF StartOf
    <3>3. RunRefused
          \/ (ColumnsOk /\ Begin(BuildCopySql(Columns), IF op.truncate THEN << >> ELSE db))
      BY <2>1 DEF StartCopy, Refuse, RunRefused
    <3>4. BuildCopySql(Columns).do = "error" BY DEF BuildCopySql, PlainInsert
    <3> QED BY <3>1, <3>2, <3>3, <3>4
  <2>2. CASE ~ StartCopy
    <3>1. op.kind # "pg_copy"
      BY <2>2 DEF StartBulk, StartBcp, StartPgExec, StartMsExec, Starting
    <3>2. db = Rows(StartOf(op)) BY <1>3, <3>1 DEF StartOf
    <3>3. PlainInsert(Columns).do = "error" BY DEF PlainInsert
    <3>4. CASE StartBulk
      <4>1. PICK s : s = BuildInsertSql("bracket", op.table, Columns) OBVIOUS
      <4>2. RunRefused \/ (ColumnsOk /\ s # ERR /\ Begin(s, db))
        BY <3>4, <4>1 DEF StartBulk, Refuse, RunRefused
      <4>3. s # ERR => s = PlainInsert(Columns) BY <4>1 DEF BuildInsertSql, BuildSql
      <4> QED BY <3>2, <3>3, <4>2, <4>3
    <3>5. CASE StartBcp
      <4>1. RunRefused \/ (ColumnsOk /\ Begin(PlainInsert(Columns), NULL))
        BY <3>5 DEF StartBcp, Refuse, RunRefused
      <4>2. op.kind = "ms_bcp" BY <3>5 DEF StartBcp, Starting
      <4> QED BY <3>2, <3>3, <4>1, <4>2
    <3>6. CASE StartPgExec \/ StartMsExec
      <4>1. RunRefused \/ (ColumnsOk /\ Begin(PlainInsert(Columns), db))
        BY <3>6 DEF StartPgExec, StartMsExec, Refuse, RunRefused
      <4> QED BY <3>2, <3>3, <4>1
    <3> QED BY <2>2, <3>4, <3>5, <3>6
  <2> QED BY <2>1, <2>2
<1>5. CASE RunRefused BY <1>1, <1>5, StartStores DEF RunRefused, RunBegins
<1>6. ASSUME NEW s, NEW table, ColumnsOk, s.do = "error", Begin(s, table),
             (IF op.kind = "ms_bcp" THEN db ELSE table) = Rows(StartOf(op))
      PROVE  StoreInv'
  <2>1. CASE RowFailed BY <1>1, <1>6, <2>1, StartStores
  <2>2. CASE RunBegins BY <1>1, <1>6, <2>2, StartStores
  <2>3. RowFailed \/ RunBegins BY <1>1, <1>6, BeginIs DEF RunBegins
  <2> QED BY <2>1, <2>2, <2>3
<1> QED BY <1>4, <1>5, <1>6

------------------------------------------------------------------------------
(* The other steps                                                          *)

LEMMA InitStores ==
  ASSUME StoreInv, IInv', InitWriter PROVE StoreInv'
<1>1. phase = "new" /\ phase' \in {"ready", "refused"} /\ UNCHANGED <<op, rc, db, pend, in, end>>
      /\ (phase' = "ready" => InitOk)
  BY DEF InitWriter
<1>2. op \in Ops /\ NothingYet BY <1>1 DEF StoreInv
<1>3. InitOk /\ op.kind \in Upserters => Checked
  BY DEF InitOk, PgUpsertInit, MsUpsertInit, Upserters, Checked
<1>4. ~ GoesWell' /\ ~ Settled' BY <1>1, NotSettled DEF GoesWell
<1>5. NothingYet' /\ (phase' = "ready" /\ op.kind \in Upserters => Checked')
  BY <1>1, <1>2, <1>3 DEF NothingYet, Checked
<1> QED BY <1>1, <1>2, <1>4, <1>5 DEF StoreInv

\* Between two rows, all that was delivered is stored or held.
LEMMA HoldingAll ==
  ASSUME NEW o, NEW v, NEW p, NEW i, Holding(o, v, p, i, << >>)
  PROVE  i \in Seq(o.rows) /\ \E done, held \in Seq(o.rows) :
           i = Concat(done, held) /\ p = Mapped(ImageOf(o), held) /\ HasStored(o, v, done)
<1>1. PICK done \in Seq(o.rows) : \E held \in Seq(o.rows) :
        i = Concat(Concat(done, held), << >>) /\ p = Mapped(ImageOf(o), held) /\ HasStored(o, v, done)
  BY DEF Holding
<1>2. PICK held \in Seq(o.rows) :
        i = Concat(Concat(done, held), << >>) /\ p = Mapped(ImageOf(o), held) /\ HasStored(o, v, done)
  BY <1>1
<1>3. PICK all \in Seq(o.rows) : all = Concat(done, held) BY ConcatIsSeq
<1>4. Concat(all, << >>) = all BY NothingAfter
<1> QED BY <1>2, <1>3, <1>4

(* A batch comes after everything delivered so far.                         *)
LEMMA PullStores ==
  ASSUME StoreInv, IInv, IInv', Pull \/ ExecPull PROVE StoreInv'
<1>1. phase = "loop" /\ UNCHANGED <<op, stmt, db, txn, buf, pend>> BY DEF Pull, ExecPull
<1>2. op \in Ops /\ WellInv /\ Rest = << >> /\ end = "open" /\ rc = "ok"
  BY <1>1 DEF StoreInv, GoesWell, Rest, IInv, RunningInv
<1>3. \/ Fail("cancelled") /\ UNCHANGED end
      \/ InputFails
      \/ EndsInput /\ UNCHANGED in
      \/ \E b \in Batches :
           /\ Delivers(b)
           /\ (phase' = "rows" /\ b # << >>) \/ (phase' = "given" /\ b = << >> /\ op.kind \in Exec)
  <2>1. CASE Pull BY <2>1 DEF Pull, EndsInput
  <2>2. CASE ExecPull
    <3>1. op.kind \in Exec BY <2>2 DEF ExecPull
    <3>2. CASE \E b \in Batches :
                 Delivers(b) /\ phase' = IF b = << >> THEN "given" ELSE "rows"
      BY <3>1, <3>2
    <3>3. CASE InputFails BY <3>3
    <3>4. CASE end' = "eof" /\ phase' = "stopped" /\ UNCHANGED <<rc, batch, in>>
      BY <3>1, <3>4 DEF EndsInput
    <3> QED BY <2>2, <3>2, <3>3, <3>4 DEF ExecPull
  <2> QED BY <2>1, <2>2
<1>4. View' = View BY <1>1 DEF View
<1>5. CASE Fail("cancelled") /\ UNCHANGED end
  <2>1. ~ GoesWell' /\ ~ Settled' BY <1>2, <1>5, NotSettled DEF Fail, GoesWell
  <2> QED BY <1>1, <1>2, <1>5, <2>1 DEF Fail, StoreInv
<1>6. CASE InputFails
  <2>1. ~ GoesWell' /\ ~ Settled' BY <1>6, NotSettled DEF InputFails, Fail, GoesWell
  <2> QED BY <1>1, <1>2, <1>6, <2>1 DEF InputFails, Fail, StoreInv
<1>7. CASE EndsInput /\ UNCHANGED in
  <2>1. phase' \in {"finish", "stopped"} /\ (phase' = "stopped" => op.kind \in Exec)
    BY <1>7 DEF EndsInput
  <2>2. Rest' = << >> /\ ~ Settled' BY <2>1, NotSettled DEF Rest
  <2>3. WellInv' BY <1>1, <1>2, <1>4, <1>7, <2>1, <2>2 DEF WellInv
  <2> QED BY <1>1, <1>2, <2>1, <2>2, <2>3 DEF StoreInv
<1>8. ASSUME NEW b \in Batches, Delivers(b),
             (phase' = "rows" /\ b # << >>) \/ (phase' = "given" /\ b = << >> /\ op.kind \in Exec)
      PROVE  StoreInv'
  <2>1. b \in Seq(op.rows)
    <3>1. PICK n \in 0 .. MaxBatch : b \in [1 .. n -> op.rows] BY DEF Batches
    <3>2. n \in Nat BY OpsAssumption
    <3> QED BY <3>1, <3>2
  <2>2. batch' = b /\ in' = Concat(in, b) BY <1>8 DEF Delivers, Concat
  <2>3. Rest' = b BY <1>8, <2>2 DEF Rest
  <2>4. Holding(op, View, pend, in, << >>) BY <1>2 DEF WellInv
  <2>5. Holding(op, View', pend, in', b)
    <3>1. PICK done \in Seq(op.rows) : \E held \in Seq(op.rows) :
            in = Concat(done, held) /\ pend = Mapped(ImageOf(op), held) /\ HasStored(op, View, done)
      BY <2>4, HoldingAll
    <3>2. PICK held \in Seq(op.rows) :
            in = Concat(done, held) /\ pend = Mapped(ImageOf(op), held) /\ HasStored(op, View, done)
      BY <3>1
    <3>3. in' = Concat(Concat(done, held), b) BY <2>2, <3>2
    <3> QED BY <1>4, <3>2, <3>3 DEF Holding
  <2>6. WellInv' BY <1>1, <1>2, <1>8, <2>1, <2>2, <2>3, <2>5 DEF WellInv
  <2>7. ~ Settled' BY <1>8, NotSettled
  <2> QED BY <1>1, <1>2, <1>8, <2>6, <2>7 DEF StoreInv
<1> QED BY <1>3, <1>5, <1>6, <1>7, <1>8

LEMMA ForwardStores ==
  ASSUME StoreInv, IInv, IInv', Forward PROVE StoreInv'
<1>1. phase = "given" /\ phase' \in {"loop", "stopped"}
      /\ UNCHANGED <<op, rc, stmt, db, txn, buf, pend, batch, in, end>>
  BY DEF Forward
<1>2. op \in Ops /\ WellInv /\ op.kind \in Exec /\ end = "open"
  BY <1>1 DEF StoreInv, GoesWell, IInv, RunningInv
<1>3. View' = View /\ Rest' = Rest /\ ~ Settled' BY <1>1, NotSettled DEF View, Rest
<1>4. WellInv' BY <1>1, <1>2, <1>3 DEF WellInv
<1> QED BY <1>1, <1>2, <1>3, <1>4 DEF StoreInv

(* A run that ends has left things as they were, or, when all went well so  *)
(* far, has written what it held.                                           *)
LeftAsItWas == rc' # "ok" /\ (db' = db \/ op.kind = "ms_bcp")

LEMMA EndStores ==
  ASSUME StoreInv, IInv, phase = "finish", phase' = "done", UNCHANGED <<op, in, end>>, op.kind \notin Exec,
         \/ LeftAsItWas
         \/ /\ rc = "ok"
            /\ \A done, held \in Seq(op.rows) :
                 pend = Mapped(ImageOf(op), held) /\ HasStored(op, View, done)
                 => HasStored(op, db', Concat(done, held))
  PROVE  StoreInv'
<1>1. op \in Ops /\ ~ GoesWell' BY DEF StoreInv, GoesWell
<1>2. ASSUME Settled' PROVE in \in Seq(op.rows) /\ HasStored(op, db', in)
  <2>1. ~ LeftAsItWas
    <3>1. op.kind # "ms_bcp" => ~ Stored BY DEF IInv, HiddenInv
    <3> QED BY <1>2, <3>1 DEF LeftAsItWas, Settled, Stored
  <2>2. WellInv /\ Rest = << >> BY <2>1 DEF StoreInv, GoesWell, Rest
  <2>3. Holding(op, View, pend, in, << >>) BY <2>2 DEF WellInv
  <2> QED BY <2>1, <2>3, HoldingAll
<1> QED BY <1>1, <1>2 DEF StoreInv

(* A COMMIT, the end of COPY, the last group.                               *)
LEMMA FinishStores ==
  ASSUME StoreInv, IInv,
         FinishPgUpsert \/ FinishCopy \/ FinishMsUpsert \/ FinishBulk \/ FinishBcp
  PROVE  StoreInv'
<1>1. phase = "finish" /\ phase' = "done" /\ UNCHANGED <<op, in, end>>
  BY DEF FinishPgUpsert, FinishCopy, FinishMsUpsert, FinishBulk, FinishBcp, Ending, EndTran, Ended
<1>2. op \in Ops /\ op.kind \notin Exec /\ (rc = "ok" => WellInv)
  BY <1>1 DEF StoreInv, GoesWell, IInv, EndingInv
<1>3. CASE FinishPgUpsert \/ FinishMsUpsert
  <2>1. op.kind \in Upserters /\ EndTran(txn) /\ op.kind # "ms_bcp"
    BY <1>3 DEF FinishPgUpsert, FinishMsUpsert, Ending, Upserters
  <2>2. LeftAsItWas \/ (rc = "ok" /\ db' = txn) BY <2>1 DEF EndTran, Ended, LeftAsItWas
  <2>3. ASSUME rc = "ok", NEW done \in Seq(op.rows), NEW held \in Seq(op.rows),
               pend = Mapped(ImageOf(op), held), HasStored(op, txn, done)
        PROVE  HasStored(op, txn, Concat(done, held))
    <3>1. pend = << >> BY <1>2, <2>1, <2>3 DEF WellInv
    <3>2. held = << >> BY <2>3, <3>1, MappedToNothing
    <3>3. Concat(done, << >>) = done BY NothingAfter
    <3> QED BY <2>3, <3>2, <3>3
  <2>4. View = txn BY <2>1 DEF View
  <2> QED BY <1>1, <1>2, <2>2, <2>3, <2>4, EndStores
<1>4. CASE FinishCopy \/ FinishBulk \/ FinishBcp
  <2>1. op.kind \notin Upserters \cup Exec BY <1>4 DEF FinishCopy, FinishBulk, FinishBcp, Ending, Upserters, Exec
  <2>2. \/ LeftAsItWas
        \/ /\ rc = "ok" /\ db' # ERR
           /\ db' = Insert(View, pend) \/ db' = ExecuteAll(PgExecute, View, op.uniq, stmt, pend)
    <3>1. CASE FinishCopy
      <4>1. View = txn BY <3>1 DEF FinishCopy, Ending, View
      <4>2. PICK work : /\ EndTran(work)
                        /\ work = IF CopyRefuses(pend) THEN ERR
                                  ELSE ExecuteAll(PgExecute, View, op.uniq, stmt, pend)
        BY <3>1, <4>1 DEF FinishCopy
      <4>3. LeftAsItWas \/ (rc = "ok" /\ work # ERR /\ db' = work)
        BY <4>2 DEF EndTran, Ended, LeftAsItWas
      <4> QED BY <4>2, <4>3
    <3>2. CASE FinishBulk
      <4>1. View = txn BY <3>2 DEF FinishBulk, Ending, View
      <4>2. PICK work : EndTran(work) /\ work = Insert(View, pend) BY <3>2, <4>1 DEF FinishBulk
      <4>3. LeftAsItWas \/ (rc = "ok" /\ work # ERR /\ db' = work)
        BY <4>2 DEF EndTran, Ended, LeftAsItWas
      <4> QED BY <4>2, <4>3
    <3>3. CASE FinishBcp
      <4>1. View = db BY <3>3 DEF FinishBcp, Ending, View
      <4>2. PICK work : /\ work = Insert(View, pend)
                        /\ \/ Ended(db, IF rc = "ok" THEN "io" ELSE rc)
                           \/ /\ work # ERR
                              /\ \E answer \in {rc, IF rc = "ok" THEN "io" ELSE rc} :
                                   Ended(work, answer)
        BY <3>3, <4>1 DEF FinishBcp
      <4>3. op.kind = "ms_bcp" BY <3>3 DEF FinishBcp, Ending
      <4> QED BY <4>2, <4>3 DEF Ended, LeftAsItWas
    <3> QED BY <1>4, <3>1, <3>2, <3>3
  <2>3. ASSUME ~ LeftAsItWas, NEW done \in Seq(op.rows), NEW held \in Seq(op.rows),
               pend = Mapped(ImageOf(op), held), HasStored(op, View, done)
        PROVE  HasStored(op, db', Concat(done, held))
    <3>1. stmt.do = "error" BY <1>2, <2>1, <2>2, <2>3 DEF WellInv, Bindings
    <3>2. PICK v, work : v = View /\ work = db' OBVIOUS
    <3>3. work # ERR /\ (work = Insert(v, pend) \/ work = ExecuteAll(PgExecute, v, op.uniq, stmt, pend))
      BY <2>2, <2>3, <3>2
    <3>4. HasStored(op, work, Concat(done, held)) BY <1>2, <2>1, <2>3, <3>1, <3>2, <3>3, GroupAdvances
    <3> QED BY <3>2, <3>4
  <2> QED BY <1>1, <1>2, <2>2, <2>3, EndStores
<1> QED BY <1>3, <1>4

(* An exec's transaction is committed when its input was read to the end.   *)
LEMMA DestroyStores ==
  ASSUME StoreInv, IInv, Destroy \/ PgExecDestroy \/ MsExecDestroy
  PROVE  StoreInv'
<1>1. /\ phase \in {"ready", "done", "stopped"} /\ phase' = "gone"
      /\ UNCHANGED <<op, rc, in, end>>
  BY DEF Destroy, PgExecDestroy, MsExecDestroy, Destroying
<1>2. op \in Ops /\ ~ GoesWell' BY <1>1 DEF StoreInv, GoesWell
<1>3. ASSUME Settled' PROVE in \in Seq(op.rows) /\ HasStored(op, db', in)
  <2>1. CASE op.kind \notin Exec
    <3>1. db' = db BY <2>1 DEF Destroy, PgExecDestroy, MsExecDestroy, Exec
    <3>2. phase # "stopped" BY <2>1 DEF StoreInv
    <3>3. end = "eof" => phase = "done" BY <1>1, <3>2 DEF IInv, RunningInv
    <3>4. Settled BY <1>1, <1>3, <3>1, <3>3 DEF Settled, Stored
    <3> QED BY <3>1, <3>4 DEF StoreInv
  <2>2. CASE op.kind \in Exec
    <3>1. ~ Stored
      <4>1. op.kind # "ms_bcp" BY <2>2 DEF Exec
      <4> QED BY <1>1, <2>2, <4>1 DEF IInv, HiddenInv
    <3>2. Stored' BY <1>1, <1>3, <2>2 DEF Settled
    <3>3. db' # db BY <1>1, <3>1, <3>2 DEF Stored
    <3>4. db' = txn /\ end = "eof" BY <2>2, <3>3 DEF Destroy, PgExecDestroy, MsExecDestroy, Exec
    <3>5. phase = "stopped" BY <1>1, <2>2, <3>4 DEF IInv, RunningInv, EndingInv
    <3>6. WellInv /\ Rest = << >> /\ View = txn
      BY <2>2, <3>4, <3>5 DEF StoreInv, GoesWell, Rest, View, Exec
    <3>7. Holding(op, txn, << >>, in, << >>) BY <2>2, <3>6 DEF WellInv
    <3>8. PICK done \in Seq(op.rows) : \E held \in Seq(op.rows) :
            in = Concat(done, held) /\ << >> = Mapped(ImageOf(op), held) /\ HasStored(op, txn, done)
      BY <3>7, HoldingAll
    <3>9. PICK held \in Seq(op.rows) :
            in = Concat(done, held) /\ << >> = Mapped(ImageOf(op), held) /\ HasStored(op, txn, done)
      BY <3>8
    <3>10. held = << >> BY <3>9, MappedToNothing
    <3>11. Concat(done, << >>) = done BY NothingAfter
    <3> QED BY <3>4, <3>9, <3>10, <3>11
  <2> QED BY <2>1, <2>2
<1> QED BY <1>1, <1>2, <1>3 DEF StoreInv

LEMMA RestStores ==
  ASSUME StoreInv, Cancel \/ Over \/ UNCHANGED vars
  PROVE  StoreInv'
<1>1. UNCHANGED <<op, phase, rc, stmt, db, txn, buf, pend, batch, in, end>> BY DEF Cancel, Over, vars
<1>2. GoesWell' = GoesWell /\ View' = View /\ Rest' = Rest BY <1>1 DEF GoesWell, View, Rest
<1>3. Settled' = Settled BY <1>1 DEF Settled, Stored
<1>4. WellInv' = WellInv BY <1>1, <1>2 DEF WellInv
<1> QED BY <1>1, <1>2, <1>3, <1>4 DEF StoreInv, NothingYet, Checked

LEMMA StoreInductive == ASSUME ArrivesAsGiven, KeyedTables PROVE Spec => []StoreInv
<1>1. ASSUME Init PROVE StoreInv
  <2>1. op \in Ops /\ phase = "new" /\ NothingYet BY <1>1 DEF Init, NothingYet
  <2>2. ~ GoesWell /\ ~ Settled BY <2>1 DEF GoesWell, Settled, Stored, NothingYet
  <2> QED BY <2>1, <2>2 DEF StoreInv
<1>2. ASSUME StoreInv, IInv, IInv', [Next]_vars PROVE StoreInv'
  <2>1. CASE InitWriter BY <1>2, <2>1, InitStores
  <2>2. CASE StartPgUpsert \/ StartMsUpsert BY <1>2, <2>2, UpsertStarts
  <2>3. CASE StartCopy \/ StartBulk \/ StartBcp \/ StartPgExec \/ StartMsExec
    BY <1>2, <2>3, InserterStarts
  <2>4. CASE Pull \/ ExecPull BY <1>2, <2>4, PullStores
  <2>5. CASE PgUpsertRow \/ MsUpsertRow BY <1>2, <2>5, PgUpsertStores, MsUpsertStores
  <2>6. CASE PgExecRow \/ MsExecRow BY <1>2, <2>6, PgExecStores, MsExecStores
  <2>7. CASE CopyRow \/ BulkRow \/ BcpRow BY <1>2, <2>7, CopyStores, BulkStores, BcpStores
  <2>8. CASE FinishPgUpsert \/ FinishCopy \/ FinishMsUpsert \/ FinishBulk \/ FinishBcp
    BY <1>2, <2>8, FinishStores
  <2>9. CASE Forward BY <1>2, <2>9, ForwardStores
  <2>10. CASE Destroy \/ PgExecDestroy \/ MsExecDestroy BY <1>2, <2>10, DestroyStores
  <2>11. CASE Cancel \/ Over \/ UNCHANGED vars BY <1>2, <2>11, RestStores
  <2> QED
    BY <1>2, <2>1, <2>2, <2>3, <2>4, <2>5, <2>6, <2>7, <2>8, <2>9, <2>10, <2>11 DEF Next
<1>3. Spec => []IInv BY Inductive
<1> QED BY <1>1, <1>2, <1>3, PTL DEF Spec

LEMMA CellsOfRows == ASSUME NEW X, NEW s \in Seq(X) PROVE Cells(Rows(s)) = s
<1>1. PICK n \in Nat : n = Len(s) /\ DOMAIN s = 1 .. n BY LenProperties
<1>2. PICK r : r = Rows(s) OBVIOUS
<1>3. r = [i \in 1 .. n |-> [c |-> s[i], w |-> 1]] BY <1>1, <1>2 DEF Rows
<1>4. Cells(r) = [i \in 1 .. n |-> s[i]] BY <1>3 DEF Cells
<1>5. s = [i \in 1 .. n |-> s[i]] BY <1>1, LenProperties
<1> QED BY <1>2, <1>4, <1>5

LEMMA WantedIsMapped ==
  ASSUME in \in Seq(op.rows) PROVE WantedRows = Mapped(ImageOf(op), in)
<1>1. PICK n \in Nat : n = Len(in) /\ DOMAIN in = 1 .. n BY LenProperties
<1>2. \A i \in 1 .. n : in[i] \in op.rows BY <1>1, ElementOfSeq
<1>3. \A i \in 1 .. n : ImageOf(op)[in[i]] = Wanted(in[i])
  <2>1. ImageOf(op) = Image BY OfThis
  <2> QED BY <1>2, <2>1 DEF Image
<1> QED BY <1>1, <1>3 DEF WantedRows, Mapped

(* What an upsert promised.                                                 *)
LEMMA UpsertsStore ==
  ASSUME KeyedTables, StoreInv, Settled, op.kind \in Upserters
  PROVE  /\ Keys(Cells(db), op.key) = Keys(op.old \o WantedRows, op.key)
         /\ \A k \in Keys(Cells(db), op.key) :
              /\ KeyedBy(Cells(db), op.key, k)
                   = <<Promised(op.old, WantedRows, Columns, op.key, ModeOf(op), k)>>
              /\ ModeOf(op) = "error" => Len(KeyedBy(op.old \o WantedRows, op.key, k)) = 1
<1>1. op \in Ops /\ in \in Seq(op.rows) /\ HasStored(op, db, in) BY DEF StoreInv
<1>2. PICK V : V = CellsOf(op) /\ Keyed(op, V) BY <1>1, UpsertersAreKeyed
<1>3. PICK d \in Seq(ImagesOf(op)) : d = Mapped(ImageOf(op), in) /\ d = WantedRows
  BY <1>1, MappedIsImages, WantedIsMapped
<1>4. Upserted(op, V, db, d) BY <1>1, <1>2, <1>3 DEF HasStored
<1>5. /\ Keys(Cells(db), op.key) = Keys(op.old \o d, op.key)
      /\ \A k \in Keys(Cells(db), op.key) :
           /\ KeyedBy(Cells(db), op.key, k) = <<PromisedBy(op, d, k)>>
           /\ ModeOf(op) = "error" => Len(KeyedBy(op.old \o d, op.key, k)) = 1
  BY <1>2, <1>4, UpsertedIsPromised
<1>6. Columns = ColumnsOf(op) BY OfThis
<1> QED BY <1>3, <1>5, <1>6 DEF PromisedBy

(* What the other writers promised.                                         *)
LEMMA InsertersStore ==
  ASSUME StoreInv, Settled, op.kind \notin Upserters
  PROVE  Cells(db) = StartOf(op) \o WantedRows
<1>1. op \in Ops /\ in \in Seq(op.rows) /\ HasStored(op, db, in) BY DEF StoreInv
<1>2. PICK X : /\ StartOf(op) \in Seq(X) /\ ImagesOf(op) \subseteq X
               /\ \A q \in Seq(op.rows) : Mapped(ImageOf(op), q) \in Seq(X)
  BY <1>1, RowsAreTyped
<1>3. PICK d \in Seq(X) : d = Mapped(ImageOf(op), in) BY <1>1, <1>2
<1>4. PICK all \in Seq(X) : all = Concat(StartOf(op), d) BY <1>2, ConcatIsSeq
<1>5. db = Rows(all) BY <1>1, <1>3, <1>4 DEF HasStored
<1>6. Cells(db) = all BY <1>5, CellsOfRows
<1>7. d = WantedRows BY <1>1, <1>3, WantedIsMapped
<1> QED BY <1>4, <1>6, <1>7 DEF Concat

LEMMA UntouchedStay ==
  ASSUME KeyedTables, StoreInv PROVE UnchangedRowsUntouched
<1> SUFFICES ASSUME op.kind \in Upserters, op.mode = "update_if_changed", NEW i \in DOMAIN op.old, Stored,
                    \A j \in DOMAIN in :
                      \/ KeyOf(Wanted(in[j]), op.key) # KeyOf(op.old[i], op.key)
                      \/ \A c \in ToSet(Columns) : Wanted(in[j])[c] = op.old[i][c]
             PROVE  db[i].w = 1
  BY DEF UnchangedRowsUntouched, Upserters
<1>1. Settled BY DEF Settled, Upserters
<1>2. op \in Ops /\ in \in Seq(op.rows) /\ HasStored(op, db, in) BY <1>1 DEF StoreInv
<1>3. PICK V, d : V = CellsOf(op) /\ d = Mapped(ImageOf(op), in) OBVIOUS
<1>4. Upserted(op, V, db, d) BY <1>2, <1>3 DEF HasStored
<1>5. ModeOf(op) = "update_if_changed" BY NullAssumption DEF ModeOf
<1>6. d = WantedRows BY <1>2, <1>3, WantedIsMapped
<1>7. DOMAIN d = DOMAIN in /\ \A j \in DOMAIN in : d[j] = Wanted(in[j]) BY <1>6 DEF WantedRows
<1>8. Columns = ColumnsOf(op) BY OfThis
<1>9. \A j \in DOMAIN d : \/ Key(op, d[j]) # Key(op, op.old[i])
                          \/ \A c \in WrittenBy(op) : d[j][c] = op.old[i][c]
  BY <1>7, <1>8 DEF Key, WrittenBy
<1> QED BY <1>4, <1>5, <1>9, UpsertedIsLeftAlone

(* What a transaction has stored, whatever came of the answer to its        *)
(* COMMIT, and what a writer that succeeded has stored, is exactly its      *)
(* input.  Of an upsert's table, every key that was there or was delivered  *)
(* has one row, and it is the one its on_conflict mode promises; the other  *)
(* writers' table is what it was and then the input, row by row in the      *)
(* columns the configuration names; and update_if_changed writes no row     *)
(* that it does not change (build_upsert_sql and build_merge_sql, the row   *)
(* loops of the writers, batches, groups and commits).                      *)
THEOREM WritersStoreTheirInput ==
  ASSUME ArrivesAsGiven, KeyedTables PROVE Spec => []StoresItsInput
<1>1. ASSUME StoreInv PROVE StoresItsInput
  <2>1. UnchangedRowsUntouched BY <1>1, UntouchedStay
  <2>2. CASE ~ Settled BY <2>1, <2>2 DEF StoresItsInput
  <2>3. CASE Settled /\ op.kind \in Upserters
    <3>1. /\ Keys(Cells(db), op.key) = Keys(op.old \o WantedRows, op.key)
          /\ \A k \in Keys(Cells(db), op.key) :
               /\ KeyedBy(Cells(db), op.key, k)
                    = <<Promised(op.old, WantedRows, Columns, op.key, ModeOf(op), k)>>
               /\ ModeOf(op) = "error" => Len(KeyedBy(op.old \o WantedRows, op.key, k)) = 1
      BY <1>1, <2>3, UpsertsStore
    <3>2. op.kind # "pg_copy" /\ op.kind \in {"pg_upsert", "ms_upsert"} BY <2>3 DEF Upserters
    <3> QED BY <2>1, <3>1, <3>2 DEF StoresItsInput, ModeOf
  <2>4. CASE Settled /\ op.kind \notin Upserters
    <3>1. Cells(db) = StartOf(op) \o WantedRows BY <1>1, <2>4, InsertersStore
    <3>2. op.kind \notin {"pg_upsert", "ms_upsert"} BY <2>4 DEF Upserters
    <3> QED BY <2>1, <3>1, <3>2 DEF StoresItsInput, StartOf
  <2> QED BY <2>2, <2>3, <2>4
<1>2. Spec => []StoreInv BY StoreInductive
<1> QED BY <1>1, <1>2, PTL
=============================================================================
