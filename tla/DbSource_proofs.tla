--------------------------- MODULE DbSource_proofs ---------------------------
(***************************************************************************)
(* What the database readers deliver and what sql.execute leaves behind,   *)
(* for every configuration, tables of any length, any size of batch and    *)
(* any number of commits by other sessions.                                *)
(***************************************************************************)
EXTENDS DbSource, DataLemmas

------------------------------------------------------------------------------
(* The inductive invariant                                                  *)

\* The rows a reader owes its consumer: the result set, each value converted.
Wanted == [r \in DOMAIN snap |-> [i \in DOMAIN op.types |-> Promised(op.types[i], snap[r][i])]]

\* What comes after the first m elements, up to the n-th.
Stretch(w, m, n) == SubSeq(w, m + 1, n)

Tables == {op.table} \cup op.writes

OpsInv == op \in Ops /\ versions \in Seq(Tables) /\ versions # << >>

(* A reader has a result set from init on, a view of the table, and nothing *)
(* of it has been fetched before the column types are resolved.             *)
FreshInv ==
  Reads /\ phase \in {"new", "refused", "ready"} =>
      out = << >> /\ held = << >> /\ pos = 0 /\ ~eof

SnapInv == Reads /\ phase \notin {"new", "refused"} => snap \in Views

(* What is delivered is the result set so far, what is held is its next     *)
(* rows, and the reader has fetched as many rows as it accounts for.        *)
DeliveredInv ==
  Reads /\ phase \notin {"new", "refused"} =>
      Len(out) \in 0 .. Len(snap) /\ out = Stretch(Wanted, 0, Len(out))

LoopInv ==
  Reads /\ phase = "loop" =>
      /\ pos \in Len(out) .. Len(snap)
      /\ held = Stretch(Wanted, Len(out), pos)
      /\ eof => pos = Len(snap)
      /\ op.kind = "pg_read" => pos = Len(out) /\ Resolves(PgOidToFmt)
      /\ op.kind = "ms_read" => Resolves(SqlTypeToFmt)

EndInv == Reads /\ phase = "stopped" /\ rc = "ok" => Len(out) = Len(snap)

ReaderInv == FreshInv /\ SnapInv /\ DeliveredInv /\ LoopInv /\ EndInv

\* sql.execute takes one step.
ExecuteInv ==
  op.kind = "execute" =>
      /\ phase \in {"new", "refused", "ready", "stopped", "gone"}
      /\ phase \in {"new", "refused", "ready"} => out = << >>
      /\ ScriptIsAtomic

(* While SQL Server may still go on with a later version, the result set is *)
(* a scan that ends in the version it has got to.                           *)
Streaming ==
  \/ op.kind = "ms_read" /\ phase \in {"ready", "loop"}
  \/ op.kind = "ms_lookup" /\ phase = "loading"

ScanInv ==
  Streaming =>
      \E n \in Nat : \E at \in [1 .. n + 1 -> DOMAIN versions] :
          IsScan(at, n) /\ snap = Scanned(at, n) /\ at[n + 1] = scan /\ pos \in 0 .. n

\* Before a scan starts nothing has been fetched.
PosInv == phase \in {"new", "ready"} => pos = 0

IInv == OpsInv /\ ReaderInv /\ ScanInv /\ PosInv /\ ExecuteInv

------------------------------------------------------------------------------
(* Stretches of a sequence                                                  *)

LEMMA StretchIs ==
  ASSUME NEW S, NEW w \in Seq(S), NEW m \in 0 .. Len(w), NEW n \in m .. Len(w)
  PROVE  /\ Stretch(w, m, n) \in Seq(S)
         /\ Len(Stretch(w, m, n)) = n - m
         /\ \A i \in 1 .. n - m : Stretch(w, m, n)[i] = w[m + i]
<1>0. Len(w) \in Nat BY LenProperties
<1>1. m + 1 \in Int /\ n \in Int /\ \A i \in m + 1 .. n : w[i] \in S BY <1>0, ElementOfSeq
<1>2. /\ SubSeq(w, m + 1, n) \in Seq(S)
      /\ Len(SubSeq(w, m + 1, n)) = IF m + 1 <= n THEN n - (m + 1) + 1 ELSE 0
      /\ \A i \in 1 .. n - (m + 1) + 1 : SubSeq(w, m + 1, n)[i] = w[(m + 1) + i - 1]
  BY <1>1, SubSeqProperties
<1>3. Len(SubSeq(w, m + 1, n)) = n - m BY <1>0, <1>2
<1>4. \A i \in 1 .. n - m : SubSeq(w, m + 1, n)[i] = w[m + i]
  <2> SUFFICES ASSUME NEW i \in 1 .. n - m PROVE SubSeq(w, m + 1, n)[i] = w[m + i] OBVIOUS
  <2>1. i \in 1 .. n - (m + 1) + 1 /\ (m + 1) + i - 1 = m + i BY <1>0
  <2> QED BY <1>2, <2>1
<1> QED BY <1>2, <1>3, <1>4 DEF Stretch

LEMMA StretchesMeet ==
  ASSUME NEW S, NEW w \in Seq(S), NEW m \in 0 .. Len(w), NEW k \in m .. Len(w), NEW n \in k .. Len(w)
  PROVE  Stretch(w, m, k) \o Stretch(w, k, n) = Stretch(w, m, n)
<1>1. m + 1 \in 1 .. Len(w) + 1 /\ k \in (m + 1) - 1 .. Len(w) BY LenProperties
<1>2. SubSeq(w, m + 1, k) \o SubSeq(w, k + 1, n) = SubSeq(w, m + 1, n)
  BY <1>1, ConcatAdjacentSubSeq
<1> QED BY <1>2 DEF Stretch

LEMMA StretchGrows ==
  ASSUME NEW S, NEW w \in Seq(S), NEW m \in 0 .. Len(w), NEW n \in m .. Len(w) - 1
  PROVE  Append(Stretch(w, m, n), w[n + 1]) = Stretch(w, m, n + 1)
<1>0. Len(w) \in Nat BY LenProperties
<1>1. SubSeq(w, m + 1, n + 1) = SubSeq(w, m + 1, n) \o <<w[n + 1]>>
  <2>1. m + 1 \in 1 .. Len(w) /\ n + 1 \in m + 1 .. Len(w) /\ (n + 1) - 1 = n BY <1>0
  <2> QED BY <2>1, SubSeqRecursiveSecond
<1>2. Stretch(w, m, n) \in Seq(S)
  <2>1. n \in m .. Len(w) BY <1>0
  <2> QED BY <2>1, StretchIs
<1>3. w[n + 1] \in S BY <1>0, ElementOfSeq
<1> QED BY <1>1, <1>2, <1>3, AppendIsConcat DEF Stretch

LEMMA StretchAgrees ==
  ASSUME NEW S, NEW w \in Seq(S), NEW u \in Seq(S), NEW n \in 0 .. Len(w), n <= Len(u),
         \A i \in 1 .. n : w[i] = u[i], NEW m \in 0 .. n
  PROVE  Stretch(w, m, n) = Stretch(u, m, n)
<1>1. /\ m \in 0 .. Len(w) /\ n \in m .. Len(w)
      /\ m \in 0 .. Len(u) /\ n \in m .. Len(u)
  BY LenProperties
<1>2. PICK x \in Seq(S) : /\ x = Stretch(w, m, n) /\ Len(x) = n - m
                          /\ \A i \in 1 .. n - m : x[i] = w[m + i]
  BY <1>1, StretchIs
<1>3. PICK y \in Seq(S) : /\ y = Stretch(u, m, n) /\ Len(y) = n - m
                          /\ \A i \in 1 .. n - m : y[i] = u[m + i]
  BY <1>1, StretchIs
<1>4. \A i \in 1 .. n - m : m + i \in 1 .. n BY <1>1
<1>5. \A i \in 1 .. n - m : x[i] = y[i] BY <1>2, <1>3, <1>4
<1>6. x = y BY <1>2, <1>3, <1>5, SeqEqual
<1> QED BY <1>2, <1>3, <1>6

\* The first p elements of s, and then t from the next one on.
GoingOn(s, t, p) == SubSeq(s, 1, p) \o SubSeq(t, p + 1, Len(t))

LEMMA GoesOnIs ==
  ASSUME NEW S, NEW s \in Seq(S), NEW t \in Seq(S), NEW p \in 0 .. Len(s),
         NEW k \in Nat, p < Len(t) => k = Len(t), ~(p < Len(t)) => k = p
  PROVE  /\ GoingOn(s, t, p) \in Seq(S) /\ Len(GoingOn(s, t, p)) = k
         /\ \A i \in 1 .. p : GoingOn(s, t, p)[i] = s[i]
         /\ \A i \in p + 1 .. k : GoingOn(s, t, p)[i] = t[i]
<1>0. Len(s) \in Nat /\ Len(t) \in Nat BY LenProperties
<1>1. PICK x \in Seq(S) : /\ x = SubSeq(s, 1, p) /\ Len(x) = p
                          /\ \A i \in 1 .. p : x[i] = s[i]
  <2>1. 0 \in 0 .. Len(s) /\ p \in 0 .. Len(s) BY <1>0
  <2>2. /\ Stretch(s, 0, p) \in Seq(S) /\ Len(Stretch(s, 0, p)) = p - 0
        /\ \A i \in 1 .. p - 0 : Stretch(s, 0, p)[i] = s[0 + i]
    BY <2>1, StretchIs
  <2>3. Stretch(s, 0, p) = SubSeq(s, 1, p) BY DEF Stretch
  <2>4. p - 0 = p /\ \A i \in 1 .. p : 0 + i = i BY <1>0
  <2> QED BY <2>2, <2>3, <2>4
<1>2. PICK y \in Seq(S) : /\ y = SubSeq(t, p + 1, Len(t)) /\ Len(y) = k - p
                          /\ \A i \in 1 .. k - p : y[i] = t[p + i]
  <2>1. CASE p < Len(t)
    <3>1. p \in 0 .. Len(t) /\ Len(t) \in p .. Len(t) BY <1>0, <2>1
    <3>a. PICK l \in p .. Len(t) : l = Len(t) BY <3>1
    <3>b. /\ Stretch(t, p, l) \in Seq(S) /\ Len(Stretch(t, p, l)) = l - p
          /\ \A i \in 1 .. l - p : Stretch(t, p, l)[i] = t[p + i]
      BY <3>1, StretchIs
    <3>2. /\ Stretch(t, p, Len(t)) \in Seq(S) /\ Len(Stretch(t, p, Len(t))) = Len(t) - p
          /\ \A i \in 1 .. Len(t) - p : Stretch(t, p, Len(t))[i] = t[p + i]
      BY <3>a, <3>b
    <3>3. Stretch(t, p, Len(t)) = SubSeq(t, p + 1, Len(t)) BY DEF Stretch
    <3> QED BY <2>1, <3>2, <3>3
  <2>2. CASE ~(p < Len(t))
    <3>1. SubSeq(t, p + 1, Len(t)) = << >>
      <4>1. p + 1 \in Int /\ Len(t) \in Int /\ Len(t) < p + 1 BY <1>0, <2>2
      <4> QED BY <4>1, SubSeqEmpty
    <3>2. k - p = 0 /\ 1 .. k - p = {} BY <1>0, <2>2
    <3>3. PICK e \in Seq(S) : e = << >> /\ Len(e) = 0
      <4>1. << >> \in Seq(S) /\ Len(<< >>) = 0 OBVIOUS
      <4> QED BY <4>1
    <3> QED BY <3>1, <3>2, <3>3
  <2> QED BY <2>1, <2>2
<1>3. /\ x \o y \in Seq(S) /\ Len(x \o y) = p + (k - p)
      /\ \A i \in 1 .. p : (x \o y)[i] = x[i]
      /\ \A i \in 1 .. k - p : (x \o y)[p + i] = y[i]
  <2>1. x \o y \in Seq(S) /\ Len(x \o y) = Len(x) + Len(y) OBVIOUS
  <2>2. \A i \in 1 .. Len(x) : (x \o y)[i] = x[i] OBVIOUS
  <2>3. \A i \in 1 .. Len(y) : (x \o y)[Len(x) + i] = y[i] OBVIOUS
  <2>4. Len(x) = p /\ Len(y) = k - p BY <1>1, <1>2
  <2> QED BY <2>1, <2>2, <2>3, <2>4
<1>4. PICK w : w = GoingOn(s, t, p) /\ w = x \o y BY <1>1, <1>2 DEF GoingOn
<1>5. p + (k - p) = k BY <1>0
<1>6. ASSUME NEW i \in p + 1 .. k PROVE w[i] = t[i]
  <2>1. PICK j \in 1 .. k - p : p + j = i
    <3>1. i - p \in 1 .. k - p /\ p + (i - p) = i BY <1>0
    <3> QED BY <3>1
  <2>2. y[j] = t[p + j] BY <1>2
  <2>3. (x \o y)[p + j] = y[j] BY <1>3
  <2> QED BY <1>4, <2>1, <2>2, <2>3
<1> QED BY <1>1, <1>3, <1>4, <1>5, <1>6

LEMMA StretchIsEmpty ==
  ASSUME NEW w, NEW m \in Nat
  PROVE  Stretch(w, m, m) = << >>
BY SubSeqEmpty DEF Stretch

LEMMA StretchIsPrefix ==
  ASSUME NEW S, NEW w \in Seq(S), NEW n \in 0 .. Len(w), NEW o, o = Stretch(w, 0, n)
  PROVE  IsPrefix(o, w) /\ (n = Len(w) => o = w)
<1>0. Len(w) \in Nat BY LenProperties
<1>1. Len(o) = n /\ o \in Seq(S)
  <2>1. 0 \in 0 .. Len(w) BY <1>0
  <2> QED BY <2>1, StretchIs
<1>2. SubSeq(o, 1, n) = o BY <1>1, SubSeqFull
<1>3. o = SubSeq(w, 1, n) BY DEF Stretch
<1>4. n = Len(w) => o = w BY <1>3, SubSeqFull
<1> QED BY <1>0, <1>1, <1>2, <1>3, <1>4 DEF IsPrefix

(* What is left of s after p elements, at most b of it, is a stretch; it is *)
(* empty at the end only.                                                   *)
LEMMA BatchIsStretch ==
  ASSUME NEW S, NEW s \in Seq(S), NEW p \in 0 .. Len(s), NEW b \in Nat \ {0}
  PROVE  \E g \in 0 .. Len(s) - p :
           /\ AtMost(SubSeq(s, p + 1, Len(s)), b) = Stretch(s, p, p + g)
           /\ g = 0 => p = Len(s)
<1>0. Len(s) \in Nat BY LenProperties
<1>1. PICK rest \in Seq(S) : rest = Stretch(s, p, Len(s)) /\ Len(rest) = Len(s) - p
  <2>1. Len(s) \in p .. Len(s) BY <1>0
  <2>2. Stretch(s, p, Len(s)) \in Seq(S) /\ Len(Stretch(s, p, Len(s))) = Len(s) - p
    BY <2>1, StretchIs
  <2> QED BY <2>2
<1>2. CASE ~(b < Len(rest))
  <2>1. AtMost(SubSeq(s, p + 1, Len(s)), b) = Stretch(s, p, p + (Len(s) - p))
    <3>1. p + (Len(s) - p) = Len(s) BY <1>0
    <3> QED BY <1>1, <1>2, <3>1 DEF AtMost, Stretch
  <2> WITNESS Len(s) - p \in 0 .. Len(s) - p
  <2> QED BY <1>0, <2>1
<1>3. CASE b < Len(rest)
  <2>1. SubSeq(SubSeq(s, p + 1, Len(s)), 1, b) = SubSeq(s, p + 1, p + b)
    <3>1. /\ p + 1 \in 1 .. Len(s) /\ Len(s) \in 1 .. Len(s)
          /\ 1 \in 1 .. Len(s) - (p + 1) + 1 /\ b \in 1 .. Len(s) - (p + 1) + 1
          /\ (p + 1) + 1 - 1 = p + 1 /\ (p + 1) + b - 1 = p + b
      BY <1>0, <1>1, <1>3
    <3>2. SubSeq(SubSeq(s, p + 1, Len(s)), 1, b) = SubSeq(s, (p + 1) + 1 - 1, (p + 1) + b - 1)
      BY <3>1, SubSeqOfSubSeq
    <3> QED BY <3>1, <3>2
  <2>2. AtMost(SubSeq(s, p + 1, Len(s)), b) = Stretch(s, p, p + b)
    BY <1>1, <1>3, <2>1 DEF AtMost, Stretch
  <2>3. b \in 0 .. Len(s) - p BY <1>0, <1>1, <1>3
  <2> QED BY <2>2, <2>3
<1> QED BY <1>2, <1>3

LEMMA LastIsElement ==
  ASSUME NEW S, NEW s \in Seq(S), s # << >>
  PROVE  Last(s) \in ToSet(s) /\ Last(s) \in S
<1>1. Len(s) \in 1 .. Len(s) BY EmptySeq, LenProperties
<1>2. Len(s) \in DOMAIN s BY <1>1, LenProperties
<1> QED BY <1>1, <1>2, ElementOfSeq DEF Last, ToSet

LEMMA AppendKeeps ==
  ASSUME NEW S, NEW s \in Seq(S), NEW e \in S
  PROVE  /\ Append(s, e) \in Seq(S) /\ Append(s, e) # << >>
         /\ ToSet(s) \subseteq ToSet(Append(s, e))
<1>1. /\ Append(s, e) \in Seq(S) /\ Append(s, e) # << >> /\ Len(Append(s, e)) = Len(s) + 1
      /\ \A i \in 1 .. Len(s) : Append(s, e)[i] = s[i]
  BY AppendProperties
<1>2. ASSUME NEW i \in DOMAIN s PROVE s[i] \in ToSet(Append(s, e))
  <2>1. i \in 1 .. Len(s) /\ Len(s) \in Nat BY LenProperties
  <2>2. i \in DOMAIN Append(s, e) BY <1>1, <2>1, LenProperties
  <2> QED BY <1>1, <2>1, <2>2 DEF ToSet
<1> QED BY <1>1, <1>2 DEF ToSet

------------------------------------------------------------------------------
(* Views                                                                    *)

LEMMA VersionIsTable ==
  ASSUME OpsInv, NEW k \in DOMAIN versions
  PROVE  IsTable(versions[k], op.types) /\ Len(versions[k]) \in Nat
         /\ DOMAIN versions[k] = 1 .. Len(versions[k])
<1>1. versions[k] \in Tables BY LenProperties, ElementOfSeq DEF OpsInv
<1>2. IsTable(versions[k], op.types) BY <1>1, OpsAssumption DEF OpsInv, Tables
<1> QED BY <1>2, LenProperties DEF IsTable

LEMMA ScannedIsTable ==
  ASSUME OpsInv, NEW n \in Nat, NEW at \in [1 .. n + 1 -> DOMAIN versions], IsScan(at, n),
         NEW w, w = Scanned(at, n)
  PROVE  IsTable(w, op.types) /\ w \in Seq(ToSet(w)) /\ Len(w) = n /\ DOMAIN w = 1 .. n
<1>1. DOMAIN w = 1 .. n /\ (\A i \in 1 .. n : w[i] = versions[at[i]][i]) /\ w = [j \in 1 .. n |-> w[j]]
  BY DEF Scanned
<1>2. \A i \in 1 .. n : at[i] \in DOMAIN versions /\ i <= Len(versions[at[i]])
  <2>1. \A i \in 1 .. n : i \in 1 .. n + 1 OBVIOUS
  <2> QED BY <2>1 DEF IsScan
<1>3. ASSUME NEW i \in 1 .. n
      PROVE  /\ DOMAIN w[i] = DOMAIN op.types
             /\ \A c \in DOMAIN op.types :
                  op.types[c] \in {"text", "bytea", "varchar", "varbinary"} =>
                      w[i][c] = NULL \/ w[i][c] \in Seq(ToSet(w[i][c]))
  <2>1. PICK t : t = versions[at[i]] OBVIOUS
  <2>2. IsTable(t, op.types) /\ i \in DOMAIN t BY <1>2, <2>1, VersionIsTable
  <2>3. w[i] = t[i] BY <1>1, <2>1
  <2> QED BY <2>2, <2>3 DEF IsTable
<1>4. w \in Seq(ToSet(w)) /\ Len(w) = n
  <2>1. \A i \in 1 .. n : w[i] \in ToSet(w) BY <1>1 DEF ToSet
  <2>2. w \in [1 .. n -> ToSet(w)] BY <1>1, <2>1, Zenon
  <2>3. w \in Seq(ToSet(w)) BY <2>2
  <2> QED BY <1>1, <2>3, LenProperties
<1> QED BY <1>1, <1>3, <1>4 DEF IsTable

LEMMA ScannedIsView ==
  ASSUME OpsInv, op.kind \notin {"pg_read", "pg_lookup"},
         NEW n \in Nat, NEW at \in [1 .. n + 1 -> DOMAIN versions], IsScan(at, n)
  PROVE  Scanned(at, n) \in Views
<1>1. \E k \in DOMAIN versions : n <= Len(versions[k])
  <2>1. CASE n = 0
    <3>1. 1 \in DOMAIN versions BY EmptySeq, LenProperties DEF OpsInv
    <3> QED BY <2>1, <3>1, VersionIsTable
  <2>2. CASE n # 0
    <3>1. n \in 1 .. n /\ n \in 1 .. n + 1 BY <2>2
    <3> QED BY <3>1 DEF IsScan
  <2> QED BY <2>1, <2>2
<1>2. n \in UNION {0 .. Len(t) : t \in ToSet(versions)}
  <2>1. PICK k \in DOMAIN versions : n \in 0 .. Len(versions[k]) BY <1>1, VersionIsTable
  <2>2. versions[k] \in ToSet(versions) BY DEF ToSet
  <2> QED BY <2>1, <2>2
<1>3. Scanned(at, n) \in {Scanned(a, n) : a \in {b \in [1 .. n + 1 -> DOMAIN versions] : IsScan(b, n)}}
  OBVIOUS
<1> QED BY <1>2, <1>3 DEF Views, Scans

LEMMA ViewIsScan ==
  ASSUME OpsInv, op.kind \notin {"pg_read", "pg_lookup"}, NEW v \in Views
  PROVE  \E n \in Nat : \E at \in [1 .. n + 1 -> DOMAIN versions] : IsScan(at, n) /\ v = Scanned(at, n)
<1>1. v \in Scans BY DEF Views
<1>2. PICK n \in UNION {0 .. Len(t) : t \in ToSet(versions)} :
        v \in {Scanned(a, n) : a \in {b \in [1 .. n + 1 -> DOMAIN versions] : IsScan(b, n)}}
  BY <1>1 DEF Scans
<1>3. n \in Nat
  <2>1. PICK t \in ToSet(versions) : n \in 0 .. Len(t) OBVIOUS
  <2>2. PICK k \in DOMAIN versions : t = versions[k] BY DEF ToSet
  <2> QED BY <2>1, <2>2, VersionIsTable
<1>4. PICK at \in [1 .. n + 1 -> DOMAIN versions] : IsScan(at, n) /\ v = Scanned(at, n) BY <1>2
<1> QED BY <1>3, <1>4

LEMMA ViewIsTable ==
  ASSUME OpsInv, NEW v \in Views
  PROVE  IsTable(v, op.types)
<1>1. CASE op.kind \in {"pg_read", "pg_lookup"}
  <2>1. v \in ToSet(versions) BY <1>1 DEF Views
  <2>2. PICK k \in DOMAIN versions : v = versions[k] BY <2>1 DEF ToSet
  <2> QED BY <2>2, VersionIsTable
<1>2. CASE op.kind \notin {"pg_read", "pg_lookup"}
  <2>1. PICK n \in Nat : \E at \in [1 .. n + 1 -> DOMAIN versions] : IsScan(at, n) /\ v = Scanned(at, n)
    BY <1>2, ViewIsScan
  <2>2. PICK at \in [1 .. n + 1 -> DOMAIN versions] : IsScan(at, n) /\ v = Scanned(at, n)
    BY <2>1
  <2> QED BY <2>2, ScannedIsTable
<1> QED BY <1>1, <1>2

(* A scan that no commit comes between returns the current table.           *)
LEMMA CurrentIsScanned ==
  ASSUME OpsInv
  PROVE  \E n \in Nat : \E at \in [1 .. n + 1 -> DOMAIN versions] :
            IsScan(at, n) /\ Current = Scanned(at, n) /\ at[n + 1] = Len(versions)
<1>1. PICK k \in DOMAIN versions : k = Len(versions) /\ k \in Nat /\ Current = versions[k]
  <2>1. Len(versions) \in 1 .. Len(versions) BY EmptySeq, LenProperties DEF OpsInv
  <2>2. Len(versions) \in DOMAIN versions BY <2>1, LenProperties DEF OpsInv
  <2> QED BY <2>1, <2>2 DEF Current, Last
<1>2. PICK n \in Nat : n = Len(versions[k]) /\ DOMAIN versions[k] = 1 .. n BY VersionIsTable
<1>3. PICK at \in [1 .. n + 1 -> DOMAIN versions] : at = [i \in 1 .. n + 1 |-> k] OBVIOUS
<1>4. n + 1 \in 1 .. n + 1 /\ \A i \in 1 .. n : i \in 1 .. n + 1 OBVIOUS
<1>5. IsScan(at, n)
  <2>1. \A i \in 1 .. n + 1 : at[i] = k BY <1>3
  <2>2. \A i \in 1 .. n : i <= Len(versions[at[i]]) BY <1>2, <1>4, <2>1
  <2>3. Len(versions[at[n + 1]]) <= n BY <1>2, <1>4, <2>1
  <2>4. \A i, j \in 1 .. n + 1 : i <= j => at[i] <= at[j] BY <1>1, <2>1
  <2> QED BY <2>2, <2>3, <2>4 DEF IsScan
<1>6. versions[k] = [i \in 1 .. n |-> versions[k][i]]
  <2>1. IsTable(versions[k], op.types) BY VersionIsTable
  <2>2. versions[k] \in Seq(ToSet(versions[k])) BY <2>1 DEF IsTable
  <2> QED BY <1>2, <2>2
<1>7. Scanned(at, n) = [i \in 1 .. n |-> versions[k][i]] BY <1>3, <1>4 DEF Scanned
<1> QED BY <1>1, <1>3, <1>4, <1>5, <1>6, <1>7

LEMMA CurrentIsView ==
  ASSUME OpsInv
  PROVE  Current \in Views
<1>1. CASE op.kind \in {"pg_read", "pg_lookup"}
  <2>1. Last(versions) \in ToSet(versions) BY LastIsElement DEF OpsInv
  <2> QED BY <1>1, <2>1 DEF Views, Current
<1>2. CASE op.kind \notin {"pg_read", "pg_lookup"}
  <2>1. PICK n \in Nat : \E at \in [1 .. n + 1 -> DOMAIN versions] : IsScan(at, n) /\ Current = Scanned(at, n)
    BY CurrentIsScanned
  <2>2. PICK at \in [1 .. n + 1 -> DOMAIN versions] : IsScan(at, n) /\ Current = Scanned(at, n)
    BY <2>1
  <2> QED BY <1>2, <2>2, ScannedIsView
<1> QED BY <1>1, <1>2

------------------------------------------------------------------------------
(* Cells                                                                    *)

LEMMA PgCellIsPromised ==
  ASSUME NEW t \in DOMAIN PgOidToFmt, NEW v, PgCell(PgOidToFmt[t], v) # ERR
  PROVE  PgCell(PgOidToFmt[t], v) = Promised(t, v)
<1>1. t # "datetime2" BY DEF PgOidToFmt
<1> QED BY <1>1 DEF PgCell, Promised

(* A value that does not fit the first call is put together again.          *)
LEMMA GetDataIsWhole ==
  ASSUME NEW S, NEW v \in Seq(S), NEW f \in {"u", "B"}
  PROVE  MsGetData(f, v) = v
<1>0. PICK room \in Nat : room = IF f = "u" THEN SMALL - 1 ELSE SMALL
  BY SourceAssumption
<1>b. Len(v) \in Nat BY LenProperties
<1>1. CASE Len(v) <= room
  <2>1. FirstCall(f, v) = v BY <1>0, <1>b, <1>1 DEF FirstCall, AtMost
  <2> QED BY <2>1 DEF MsGetData
<1>2. CASE room < Len(v)
  <2>1. FirstCall(f, v) = SubSeq(v, 1, room) BY <1>0, <1>2 DEF FirstCall, AtMost
  <2>2. Got(f, v) = room BY <1>0, <1>b, <1>2 DEF Got
  <2>3. room \in 0 .. Len(v) /\ Len(v) \in room .. Len(v) BY <1>b, <1>2
  <2>4. PICK first \in Seq(S) : first = SubSeq(v, 1, room) /\ Len(first) = room
    <3>1. \A i \in 1 .. room : v[i] \in S BY <1>b, <2>3, ElementOfSeq
    <3>2. SubSeq(v, 1, room) \in Seq(S) BY <3>1, SubSeqProperties
    <3>3. Len(SubSeq(v, 1, room)) = room BY <2>3, <3>1, SubSeqProperties
    <3> QED BY <3>2, <3>3
  <2>5. first \o SubSeq(v, room + 1, Len(v)) = v
    <3>1. 1 \in 1 .. Len(v) + 1 /\ room \in 1 - 1 .. Len(v) BY <1>b, <2>3
    <3>2. SubSeq(v, 1, room) \o SubSeq(v, room + 1, Len(v)) = SubSeq(v, 1, Len(v))
      BY <2>3, <3>1, ConcatAdjacentSubSeq
    <3> QED BY <2>4, <3>2, SubSeqFull
  <2>6. SubSeq(first, 1, room) = first BY <2>4, SubSeqFull
  <2>7. MsGetData(f, v) = SubSeq(first, 1, room) \o SubSeq(v, room + 1, Len(v))
    <3>1. FirstCall(f, v) = first /\ Len(first) # Len(v) BY <1>b, <1>2, <2>1, <2>4
    <3> QED BY <2>2, <2>4, <3>1 DEF MsGetData
  <2> QED BY <2>5, <2>6, <2>7
<1> QED BY <1>b, <1>1, <1>2

LEMMA MsCellIsPromised ==
  ASSUME NEW t \in DOMAIN SqlTypeToFmt, NEW v, MsCell(SqlTypeToFmt[t], v) # ERR,
         t \in {"varchar", "varbinary"} => v = NULL \/ v \in Seq(ToSet(v))
  PROVE  MsCell(SqlTypeToFmt[t], v) = Promised(t, v)
<1>1. /\ SqlTypeToFmt[t] \in {"u", "B"} => t \in {"varchar", "varbinary"}
      /\ SqlTypeToFmt[t] = "T" <=> t = "datetime2"
  BY DEF SqlTypeToFmt
<1>2. CASE v = NULL BY <1>2 DEF MsCell, Promised
<1>3. CASE v # NULL /\ SqlTypeToFmt[t] \in {"u", "B"}
  <2>1. MsGetData(SqlTypeToFmt[t], v) = v BY <1>1, <1>3, GetDataIsWhole
  <2> QED BY <1>1, <1>3, <2>1 DEF MsCell, Promised
<1>4. CASE v # NULL /\ SqlTypeToFmt[t] \notin {"u", "B"}
  BY <1>1, <1>4 DEF MsCell, MsParsed, Promised
<1> QED BY <1>2, <1>3, <1>4
------------------------------------------------------------------------------
(* Rows                                                                     *)

LEMMA SnapIsTable ==
  ASSUME OpsInv, SnapInv, Reads, phase \notin {"new", "refused"}
  PROVE  /\ IsTable(snap, op.types)
         /\ snap \in Seq(ToSet(snap)) /\ Len(snap) \in Nat /\ DOMAIN snap = 1 .. Len(snap)
<1>2. IsTable(snap, op.types) BY ViewIsTable DEF SnapInv
<1>3. snap \in Seq(ToSet(snap)) BY <1>2 DEF IsTable
<1> QED BY <1>2, <1>3, LenProperties

LEMMA WantedRows ==
  ASSUME Len(snap) \in Nat, DOMAIN snap = 1 .. Len(snap)
  PROVE  /\ Wanted \in Seq(ToSet(Wanted)) /\ Len(Wanted) = Len(snap)
         /\ \A r \in 1 .. Len(snap) :
              Wanted[r] = [i \in DOMAIN op.types |-> Promised(op.types[i], snap[r][i])]
<1>1. PICK n \in Nat : n = Len(snap) OBVIOUS
<1>2. /\ DOMAIN Wanted = 1 .. n
      /\ \A r \in 1 .. n : Wanted[r] = [i \in DOMAIN op.types |-> Promised(op.types[i], snap[r][i])]
  BY <1>1 DEF Wanted
<1>3. Wanted \in [1 .. n -> ToSet(Wanted)]
  <2>1. \A r \in 1 .. n : Wanted[r] \in ToSet(Wanted) BY <1>2 DEF ToSet
  <2>2. Wanted = [r \in 1 .. n |-> Wanted[r]] BY <1>1 DEF Wanted
  <2> QED BY <2>1, <2>2, Zenon
<1>4. Wanted \in Seq(ToSet(Wanted)) BY <1>3
<1>5. Len(Wanted) = n BY <1>2, <1>4, LenProperties
<1> QED BY <1>1, <1>2, <1>4, <1>5

(* A batch of rows that could all be parsed is the stretch asked for.       *)
LEMMA ColumnsArePromised ==
  ASSUME IsTable(snap, op.types), Len(snap) \in Nat, DOMAIN snap = 1 .. Len(snap),
         Resolves(PgOidToFmt),
         NEW p \in 0 .. Len(snap), NEW g \in 0 .. Len(snap) - p,
         NEW batch, batch = Stretch(snap, p, p + g),
         \A r \in DOMAIN PgColumns(batch) : Readable(PgColumns(batch)[r])
  PROVE  PgColumns(batch) = Stretch(Wanted, p, p + g) /\ Len(batch) = g
<1>1. PICK h \in Nat : h = p + g /\ h \in p .. Len(snap) OBVIOUS
<1>2. /\ batch \in Seq(ToSet(snap)) /\ Len(batch) = g
      /\ \A r \in 1 .. g : batch[r] = snap[p + r]
  <2>1. snap \in Seq(ToSet(snap)) BY DEF IsTable
  <2>2. /\ Stretch(snap, p, h) \in Seq(ToSet(snap)) /\ Len(Stretch(snap, p, h)) = h - p
        /\ \A r \in 1 .. h - p : Stretch(snap, p, h)[r] = snap[p + r]
    BY <1>1, <2>1, StretchIs
  <2>3. h - p = g BY <1>1
  <2> QED BY <1>1, <2>2, <2>3
<1>3. PICK w \in Seq(ToSet(Wanted)) : w = Stretch(Wanted, p, p + g) /\ Len(w) = g
        /\ \A r \in 1 .. g : w[r] = Wanted[p + r]
  <2>1. Wanted \in Seq(ToSet(Wanted)) /\ Len(Wanted) = Len(snap) BY WantedRows
  <2>2. /\ Stretch(Wanted, p, h) \in Seq(ToSet(Wanted)) /\ Len(Stretch(Wanted, p, h)) = h - p
        /\ \A r \in 1 .. h - p : Stretch(Wanted, p, h)[r] = Wanted[p + r]
    BY <1>1, <2>1, StretchIs
  <2>3. h - p = g BY <1>1
  <2> QED BY <1>1, <2>2, <2>3
<1>4. DOMAIN batch = 1 .. g BY <1>2, LenProperties
<1>5. ASSUME NEW r \in 1 .. g
      PROVE  [i \in DOMAIN batch[r] |-> PgCell(PgFmt(i), batch[r][i])] = w[r]
  <2>1. p + r \in 1 .. Len(snap) OBVIOUS
  <2>2. DOMAIN batch[r] = DOMAIN op.types BY <1>2, <2>1 DEF IsTable
  <2>3. w[r] = [i \in DOMAIN op.types |-> Promised(op.types[i], batch[r][i])]
    BY <1>2, <1>3, <2>1, WantedRows
  <2>4. PgColumns(batch)[r] = [i \in DOMAIN op.types |-> PgCell(PgFmt(i), batch[r][i])]
    BY <1>4, <2>2 DEF PgColumns
  <2>5. Readable(PgColumns(batch)[r]) BY <1>4 DEF PgColumns
  <2>6. ASSUME NEW i \in DOMAIN op.types
        PROVE  PgCell(PgFmt(i), batch[r][i]) = Promised(op.types[i], batch[r][i])
    <3>1. PgCell(PgFmt(i), batch[r][i]) # ERR BY <2>4, <2>5 DEF Readable
    <3>2. op.types[i] \in DOMAIN PgOidToFmt BY DEF Resolves
    <3> QED BY <3>1, <3>2, PgCellIsPromised DEF PgFmt
  <2> QED BY <2>2, <2>3, <2>6
<1>6. PgColumns(batch) = [r \in 1 .. g |-> w[r]]
  BY <1>4, <1>5 DEF PgColumns
<1>7. w = [r \in 1 .. g |-> w[r]] BY <1>3, LenProperties
<1> QED BY <1>2, <1>3, <1>6, <1>7

(* A row fetched from SQL Server that could be parsed is the next one.      *)
LEMMA RowIsPromised ==
  ASSUME IsTable(snap, op.types), Len(snap) \in Nat, DOMAIN snap = 1 .. Len(snap),
         Resolves(SqlTypeToFmt), NEW p \in 1 .. Len(snap),
         NEW row, row = [i \in DOMAIN op.types |-> MsCell(MsFmt(i), snap[p][i])], Readable(row)
  PROVE  row = Wanted[p]
<1>1. Wanted[p] = [i \in DOMAIN op.types |-> Promised(op.types[i], snap[p][i])] BY WantedRows
<1>2. ASSUME NEW i \in DOMAIN op.types
      PROVE  MsCell(MsFmt(i), snap[p][i]) = Promised(op.types[i], snap[p][i])
  <2>1. MsCell(MsFmt(i), snap[p][i]) # ERR BY DEF Readable
  <2>2. op.types[i] \in DOMAIN SqlTypeToFmt BY DEF Resolves
  <2>3. op.types[i] \in {"varchar", "varbinary"} =>
            snap[p][i] = NULL \/ snap[p][i] \in Seq(ToSet(snap[p][i]))
    BY DEF IsTable
  <2> QED BY <2>1, <2>2, <2>3, MsCellIsPromised DEF MsFmt
<1> QED BY <1>1, <1>2
------------------------------------------------------------------------------
(* The steps                                                                *)

LEMMA Starts == Init => IInv
<1> SUFFICES ASSUME Init PROVE IInv OBVIOUS
<1>1. OpsInv
  <2>1. op.table \in Tables BY DEF Tables
  <2> QED BY <2>1 DEF Init, OpsInv
<1>2. ReaderInv BY DEF Init, ReaderInv, FreshInv, SnapInv, DeliveredInv, LoopInv, EndInv
<1>3. ExecuteInv BY DEF Init, ExecuteInv, ScriptIsAtomic
<1>4. ScanInv /\ PosInv BY DEF Init, ScanInv, PosInv, Streaming
<1> QED BY <1>1, <1>2, <1>3, <1>4 DEF IInv

\* The configuration stays, and only another session changes the table.
LEMMA OpStays == [Next]_vars => op' = op
BY DEF Next, vars, InitComponent, PgResolve, MsResolve, PgLookupResolve, MsLookupResolve,
       MsLookupFetch, MsScan, PgGetNext, MsFetch, MsGetNext, Ended, PgLookupGetNext, MsLookupGetNext,
       LookupGetNext, Execute, PgReadDestroy, MsReadDestroy, LookupDestroy, ExecuteDestroy,
       Commit, Cancel, Over

LEMMA VersionsStay == [Next]_vars => versions' = versions \/ Commit
BY DEF Next, vars, InitComponent, PgResolve, MsResolve, PgLookupResolve, MsLookupResolve,
       MsLookupFetch, MsScan, PgGetNext, MsFetch, MsGetNext, Ended, PgLookupGetNext, MsLookupGetNext,
       LookupGetNext, Execute, PgReadDestroy, MsReadDestroy, LookupDestroy, ExecuteDestroy,
       Cancel, Over

(* Versions are only ever added, and so are views.                          *)
LEMMA VersionsAdd ==
  ASSUME OpsInv, [Next]_vars
  PROVE  /\ DOMAIN versions \subseteq DOMAIN versions'
         /\ \A k \in DOMAIN versions : versions'[k] = versions[k]
<1>1. CASE versions' = versions BY <1>1
<1>2. CASE Commit
  <2>1. PICK t \in Tables : versions' = Append(versions, t) BY <1>2 DEF Commit, Tables
  <2>2. /\ Append(versions, t) \in Seq(Tables) /\ Len(Append(versions, t)) = Len(versions) + 1
        /\ \A i \in 1 .. Len(versions) : Append(versions, t)[i] = versions[i]
    BY AppendProperties DEF OpsInv
  <2>3. /\ DOMAIN versions = 1 .. Len(versions) /\ Len(versions) \in Nat
        /\ DOMAIN versions' = 1 .. Len(versions) + 1
    BY <2>1, <2>2, LenProperties DEF OpsInv
  <2> QED BY <2>1, <2>2, <2>3
<1> QED BY <1>1, <1>2, VersionsStay

LEMMA ScansStay ==
  ASSUME OpsInv, [Next]_vars, NEW n \in Nat, NEW at \in [1 .. n + 1 -> DOMAIN versions], IsScan(at, n)
  PROVE  at \in [1 .. n + 1 -> DOMAIN versions'] /\ IsScan(at, n)' /\ Scanned(at, n)' = Scanned(at, n)
<1>1. /\ DOMAIN versions \subseteq DOMAIN versions'
      /\ \A k \in DOMAIN versions : versions'[k] = versions[k]
  BY VersionsAdd
<1>2. n + 1 \in 1 .. n + 1 /\ \A i \in 1 .. n : i \in 1 .. n + 1 OBVIOUS
<1>3. \A i \in 1 .. n + 1 : versions'[at[i]] = versions[at[i]] BY <1>1
<1>4. at \in [1 .. n + 1 -> DOMAIN versions'] BY <1>1
<1>5. IsScan(at, n)' BY <1>2, <1>3, <1>4 DEF IsScan
<1>6. [i \in 1 .. n |-> versions'[at[i]][i]] = [i \in 1 .. n |-> versions[at[i]][i]] BY <1>2, <1>3
<1> QED BY <1>4, <1>5, <1>6 DEF Scanned

LEMMA OpsKeep == OpsInv /\ [Next]_vars => OpsInv' /\ ToSet(versions) \subseteq ToSet(versions')
<1> SUFFICES ASSUME OpsInv, [Next]_vars
             PROVE  OpsInv' /\ ToSet(versions) \subseteq ToSet(versions')
  OBVIOUS
<1>1. op' = op /\ Tables' = Tables BY OpStays DEF Tables
<1>2. CASE versions' = versions BY <1>1, <1>2 DEF OpsInv
<1>3. CASE Commit
  <2>1. PICK t \in Tables : versions' = Append(versions, t) BY <1>3 DEF Commit, Tables
  <2> QED BY <1>1, <2>1, AppendKeeps DEF OpsInv
<1> QED BY <1>2, <1>3, VersionsStay

LEMMA ViewsGrow == OpsInv /\ [Next]_vars => Views \subseteq Views'
<1> SUFFICES ASSUME OpsInv, [Next]_vars, NEW v \in Views PROVE v \in Views' OBVIOUS
<1>1. op' = op /\ OpsInv' /\ ToSet(versions) \subseteq ToSet(versions') BY OpStays, OpsKeep
<1>2. CASE op.kind \in {"pg_read", "pg_lookup"} BY <1>1, <1>2 DEF Views
<1>3. CASE op.kind \notin {"pg_read", "pg_lookup"}
  <2>1. v \in Scans BY <1>3 DEF Views
  <2>2. PICK n \in UNION {0 .. Len(t) : t \in ToSet(versions)} :
          v \in {Scanned(a, n) : a \in {b \in [1 .. n + 1 -> DOMAIN versions] : IsScan(b, n)}}
    BY <2>1 DEF Scans
  <2>3. PICK at \in [1 .. n + 1 -> DOMAIN versions] : IsScan(at, n) /\ v = Scanned(at, n) BY <2>2
  <2>4. n \in Nat
    <3>1. PICK t \in ToSet(versions) : n \in 0 .. Len(t) OBVIOUS
    <3>2. PICK k \in DOMAIN versions : t = versions[k] BY DEF ToSet
    <3> QED BY <3>1, <3>2, VersionIsTable
  <2>5. n \in UNION {0 .. Len(t) : t \in ToSet(versions')} BY <1>1
  <2>6. at \in [1 .. n + 1 -> DOMAIN versions'] /\ IsScan(at, n)' /\ Scanned(at, n)' = v
    BY <2>3, <2>4, ScansStay
  <2>7. v \in {Scanned(a, n)' : a \in {b \in [1 .. n + 1 -> DOMAIN versions'] : IsScan(b, n)'}}
    BY <2>6
  <2>8. v \in Scans' BY <2>5, <2>7 DEF Scans
  <2> QED BY <1>1, <1>3, <2>8 DEF Views
<1> QED BY <1>2, <1>3

LEMMA ViewsStay ==
  ASSUME UNCHANGED <<op, versions>>
  PROVE  Views' = Views
BY DEF Views, Scans, IsScan, Scanned

(* A reader that stops, or is destroyed, with what it has delivered.        *)
LEMMA StopKeeps ==
  ASSUME ReaderInv, Reads, phase \notin {"new", "refused"}, op' = op,
         Views \subseteq Views', UNCHANGED <<snap, out>>,
         phase' \in {"stopped", "gone"}, phase' = "stopped" => rc' # "ok"
  PROVE  ReaderInv'
<1>1. Wanted' = Wanted BY DEF Wanted
<1>2. FreshInv' /\ SnapInv' /\ LoopInv' /\ EndInv'
  BY DEF ReaderInv, FreshInv, SnapInv, LoopInv, EndInv
<1>3. DeliveredInv' BY <1>1 DEF ReaderInv, DeliveredInv, Stretch, Reads
<1> QED BY <1>2, <1>3 DEF ReaderInv

(* What changes neither the reader nor what it has read.                    *)
LEMMA BesideKeeps ==
  ASSUME ReaderInv, op' = op, Views \subseteq Views',
         UNCHANGED <<phase, rc, snap, pos, held, eof, out>>
  PROVE  ReaderInv'
<1>1. Wanted' = Wanted BY DEF Wanted
<1>2. Reads' = Reads BY DEF Reads
<1>3. FreshInv' /\ SnapInv' /\ EndInv' BY <1>2 DEF ReaderInv, FreshInv, SnapInv, EndInv
<1>4. DeliveredInv' BY <1>1, <1>2 DEF ReaderInv, DeliveredInv, Stretch
<1>5. LoopInv' BY <1>1, <1>2 DEF ReaderInv, LoopInv, Stretch, Resolves, PrecisionOk
<1> QED BY <1>3, <1>4, <1>5 DEF ReaderInv

LEMMA InitKeeps ==
  ASSUME OpsInv, ReaderInv, Reads, InitComponent
  PROVE  ReaderInv'
<1>1. /\ op' = op /\ phase = "new" /\ phase' \in {"ready", "refused"}
      /\ UNCHANGED <<rc, versions, pos, held, eof, out>>
  BY DEF InitComponent
<1>2. FreshInv' BY <1>1 DEF ReaderInv, FreshInv, Reads
<1>3. out = << >> BY <1>1 DEF ReaderInv, FreshInv
<1>4. phase' = "ready" => snap' \in Views BY CurrentIsView DEF InitComponent
<1>5. SnapInv'
  <2>1. Views' = Views BY <1>1, ViewsStay
  <2> QED BY <1>1, <1>4, <2>1 DEF SnapInv
<1>6. ASSUME phase' = "ready" PROVE DeliveredInv'
  <2>2. IsTable(snap', op.types) BY <1>4, <1>6, ViewIsTable
  <2>3. Len(snap') \in Nat BY <2>2, LenProperties DEF IsTable
  <2>4. SubSeq(Wanted', 1, 0) = << >> BY SubSeqEmpty
  <2>5. out' = << >> /\ Len(out') = 0 BY <1>1, <1>3
  <2> QED BY <2>3, <2>4, <2>5 DEF DeliveredInv, Stretch
<1>7. LoopInv' /\ EndInv' BY <1>1 DEF LoopInv, EndInv
<1>8. phase' = "refused" => DeliveredInv' BY DEF DeliveredInv
<1> QED BY <1>1, <1>2, <1>5, <1>6, <1>7, <1>8 DEF ReaderInv

LEMMA ResolveKeeps ==
  ASSUME OpsInv, ReaderInv, PgResolve \/ MsResolve
  PROVE  ReaderInv'
<1>1. /\ op' = op /\ phase = "ready" /\ Reads
      /\ UNCHANGED <<versions, snap, pos, held, eof, out>>
  BY DEF PgResolve, MsResolve, Reads
<1>v. Views' = Views BY <1>1, ViewsStay
<1>2. CASE phase' = "stopped" /\ rc' = "io" BY <1>1, <1>v, <1>2, StopKeeps
<1>3. CASE phase' = "loop" /\ rc' = rc
  <2>1. op.kind = "pg_read" => Resolves(PgOidToFmt) BY <1>3 DEF PgResolve, MsResolve, Stop
  <2>2. op.kind = "ms_read" => Resolves(SqlTypeToFmt) BY <1>3 DEF PgResolve, MsResolve, Stop
  <2>3. Wanted' = Wanted /\ Reads' BY <1>1 DEF Wanted, Reads
  <2>4. out = << >> /\ held = << >> /\ pos = 0 /\ ~eof /\ Len(out) = 0
    BY <1>1 DEF ReaderInv, FreshInv
  <2>5. FreshInv' /\ SnapInv' /\ EndInv' BY <1>1, <1>v, <1>3 DEF ReaderInv, FreshInv, SnapInv, EndInv
  <2>6. DeliveredInv' BY <1>1, <2>3 DEF ReaderInv, DeliveredInv, Stretch
  <2>7. SubSeq(Wanted, 1, 0) = << >> BY SubSeqEmpty
  <2>8. Len(snap) \in Nat BY <1>1, SnapIsTable DEF ReaderInv
  <2>9. LoopInv'
    BY <1>1, <2>1, <2>2, <2>3, <2>4, <2>7, <2>8 DEF LoopInv, Stretch, Resolves, PrecisionOk
  <2> QED BY <2>5, <2>6, <2>9 DEF ReaderInv
<1> QED BY <1>2, <1>3 DEF PgResolve, MsResolve, Stop

(* The rows of the result set as the loop has them.                         *)
LEMMA InLoop ==
  ASSUME OpsInv, ReaderInv, Reads, phase = "loop"
  PROVE  /\ IsTable(snap, op.types) /\ DOMAIN snap = 1 .. Len(snap) /\ Len(snap) \in Nat
         /\ snap \in Seq(ToSet(snap))
         /\ Wanted \in Seq(ToSet(Wanted)) /\ Len(Wanted) = Len(snap)
         /\ Len(out) \in 0 .. Len(snap) /\ out = Stretch(Wanted, 0, Len(out))
         /\ pos \in Len(out) .. Len(snap) /\ held = Stretch(Wanted, Len(out), pos)
         /\ SnapInv
<1>1. SnapInv BY DEF ReaderInv
<1>2. /\ IsTable(snap, op.types) /\ DOMAIN snap = 1 .. Len(snap) /\ Len(snap) \in Nat
      /\ snap \in Seq(ToSet(snap))
  BY <1>1, SnapIsTable
<1>3. Wanted \in Seq(ToSet(Wanted)) /\ Len(Wanted) = Len(snap) BY <1>2, WantedRows
<1> QED BY <1>1, <1>2, <1>3 DEF ReaderInv, DeliveredInv, LoopInv

(* A step of the loop that delivers or holds more of the result set.        *)
LEMMA LoopKeeps ==
  ASSUME OpsInv, ReaderInv, Reads, phase = "loop", UNCHANGED <<op, snap, versions>>,
         NEW n \in 0 .. Len(snap), out' = Stretch(Wanted, 0, n), Len(out') = n,
         \/ /\ phase' = "loop" /\ rc' = rc
            /\ pos' \in n .. Len(snap) /\ held' = Stretch(Wanted, n, pos')
            /\ eof' => pos' = Len(snap)
            /\ op.kind = "pg_read" => pos' = n
         \/ phase' = "stopped" /\ n = Len(snap)
  PROVE  ReaderInv'
<1>1. Wanted' = Wanted /\ Reads' BY DEF Wanted, Reads
<1>v. Views' = Views BY ViewsStay
<1>2. FreshInv' /\ SnapInv' /\ EndInv' BY <1>v DEF ReaderInv, FreshInv, SnapInv, EndInv
<1>3. DeliveredInv' BY <1>1 DEF DeliveredInv, Stretch
<1>4. LoopInv'
  <2>1. CASE phase' = "stopped" BY <2>1 DEF LoopInv
  <2>2. CASE phase' = "loop"
    <3>1. /\ op.kind = "pg_read" => Resolves(PgOidToFmt)'
          /\ op.kind = "ms_read" => Resolves(SqlTypeToFmt)'
      BY DEF ReaderInv, LoopInv, Resolves, PrecisionOk
    <3>2. held' = SubSeq(Wanted', n + 1, pos') BY <1>1, <2>2 DEF Stretch
    <3> QED BY <2>2, <3>1, <3>2 DEF LoopInv, Stretch
  <2> QED BY <2>1, <2>2
<1> QED BY <1>2, <1>3, <1>4 DEF ReaderInv

LEMMA PgGetNextKeeps ==
  ASSUME OpsInv, ReaderInv, PgGetNext
  PROVE  ReaderInv'
<1>1. /\ Reads /\ phase = "loop" /\ op.kind = "pg_read"
      /\ UNCHANGED <<op, versions, snap, held>>
  BY DEF PgGetNext, Ended, Reads
<1>v. Views' = Views BY <1>1, ViewsStay
<1>2. CASE out' = out /\ phase' = "stopped" /\ rc' # "ok" BY <1>1, <1>v, <1>2, StopKeeps
<1>3. CASE ~(out' = out /\ phase' = "stopped" /\ rc' # "ok")
  <2> DEFINE got == AtMost(SubSeq(snap, pos + 1, Len(snap)), op.batch_size)
  <2>1. /\ pos' = pos + Len(got)
        /\ eof' = (got = << >>)
        /\ \A r \in DOMAIN PgColumns(got) : Readable(PgColumns(got)[r])
        /\ out' = out \o PgColumns(got)
        /\ IF eof' THEN Stop("ok") ELSE Loop
    BY <1>3 DEF PgGetNext, Stop
  <2>2. pos = Len(out) /\ Resolves(PgOidToFmt) BY <1>1 DEF ReaderInv, LoopInv
  <2>3. pos \in 0 .. Len(snap) BY <1>1, <2>2, InLoop
  <2>4. op.batch_size \in Nat \ {0} BY OpsAssumption DEF OpsInv
  <2>5. PICK g \in 0 .. Len(snap) - pos :
          got = Stretch(snap, pos, pos + g) /\ (g = 0 => pos = Len(snap))
    BY <1>1, <2>3, <2>4, InLoop, BatchIsStretch
  <2> HIDE DEF got
  <2>6. PgColumns(got) = Stretch(Wanted, pos, pos + g) /\ Len(got) = g
    BY <1>1, <2>1, <2>2, <2>3, <2>5, InLoop, ColumnsArePromised
  <2>7. out' = Stretch(Wanted, 0, pos + g) /\ Len(out') = pos + g
    <3>1. PICK w \in Seq(ToSet(Wanted)) : w = Wanted /\ Len(w) = Len(snap) BY <1>1, InLoop
    <3>2. out = Stretch(w, 0, pos) BY <1>1, <2>2, <3>1, InLoop
    <3>3. 0 \in 0 .. Len(w) /\ pos \in 0 .. Len(w) /\ pos + g \in pos .. Len(w) /\ pos + g \in 0 .. Len(w)
      BY <1>1, <2>3, <3>1, InLoop
    <3>4. Stretch(w, 0, pos) \o Stretch(w, pos, pos + g) = Stretch(w, 0, pos + g)
      BY <3>3, StretchesMeet
    <3>5. Len(Stretch(w, 0, pos + g)) = pos + g - 0 BY <3>3, StretchIs
    <3>6. pos + g - 0 = pos + g BY <3>3
    <3> QED BY <2>1, <2>6, <3>1, <3>2, <3>4, <3>5, <3>6
  <2>8. pos' = pos + g /\ pos + g \in 0 .. Len(snap) BY <1>1, <2>1, <2>3, <2>6, InLoop
  <2>9. held' = Stretch(Wanted, pos + g, pos')
    <3>1. held = Stretch(Wanted, pos, pos) BY <1>1, <2>2, InLoop
    <3>2. held = << >> BY <2>3, <3>1, StretchIsEmpty
    <3>3. Stretch(Wanted, pos + g, pos + g) = << >> BY <2>8, StretchIsEmpty
    <3> QED BY <1>1, <2>8, <3>2, <3>3
  <2>10. CASE eof'
    <3>1. g = 0 BY <2>1, <2>6, <2>10, EmptySeq
    <3>2. phase' = "stopped" /\ pos + g = Len(snap) BY <2>1, <2>3, <2>5, <2>10, <3>1 DEF Stop
    <3> QED BY <1>1, <2>7, <2>8, <3>2, LoopKeeps
  <2>11. CASE ~eof'
    <3>1. phase' = "loop" /\ rc' = rc BY <1>1, <2>1, <2>11 DEF Loop
    <3>2. pos' \in pos + g .. Len(snap) BY <2>8
    <3> QED BY <1>1, <2>7, <2>8, <2>9, <2>11, <3>1, <3>2, LoopKeeps
  <2> QED BY <2>10, <2>11
<1> QED BY <1>2, <1>3
LEMMA MsFetchKeeps ==
  ASSUME OpsInv, ReaderInv, MsFetch
  PROVE  ReaderInv'
<1>1. /\ Reads /\ phase = "loop" /\ op.kind = "ms_read" /\ ~eof
      /\ UNCHANGED <<op, versions, snap, out>>
  BY DEF MsFetch, Ended, Reads
<1>v. Views' = Views BY <1>1, ViewsStay
<1>2. CASE phase' = "stopped" /\ rc' # "ok" BY <1>1, <1>v, <1>2, StopKeeps
<1>b. Len(out) \in 0 .. Len(snap) /\ out = Stretch(Wanted, 0, Len(out))
  BY <1>1, InLoop
<1>3. CASE pos = Len(snap) /\ eof' = TRUE /\ Loop /\ UNCHANGED <<pos, held>>
  <2>1. pos \in Len(out) .. Len(snap) /\ held = Stretch(Wanted, Len(out), pos)
    BY <1>1, InLoop
  <2> QED BY <1>1, <1>b, <1>3, <2>1, LoopKeeps DEF Loop
<1> DEFINE row == [i \in DOMAIN op.types |-> MsCell(MsFmt(i), snap[pos + 1][i])]
<1>4. CASE /\ pos # Len(snap) /\ pos' = pos + 1 /\ eof' = eof
           /\ Readable(row) /\ held' = Append(held, row) /\ Loop
  <2>1. PICK w \in Seq(ToSet(Wanted)) : w = Wanted /\ Len(w) = Len(snap) /\ Len(w) \in Nat
    BY <1>1, InLoop
  <2>2. /\ Len(out) \in 0 .. Len(w) /\ pos \in Len(out) .. Len(w) - 1
        /\ pos + 1 \in 1 .. Len(snap) /\ held = Stretch(w, Len(out), pos)
    BY <1>1, <1>4, <2>1, InLoop
  <2>3. Resolves(SqlTypeToFmt) BY <1>1 DEF ReaderInv, LoopInv
  <2>4. row = w[pos + 1]
    <3>1. PICK p \in 1 .. Len(snap) : p = pos + 1 BY <2>2
    <3> QED BY <1>1, <1>4, <2>1, <2>3, <3>1, InLoop, RowIsPromised
  <2> HIDE DEF row
  <2>5. held' = Stretch(Wanted, Len(out), pos + 1)
    BY <1>4, <2>1, <2>2, <2>4, StretchGrows
  <2>6. pos' \in Len(out) .. Len(snap) BY <1>b, <1>4, <2>1, <2>2
  <2> QED BY <1>1, <1>b, <1>4, <2>5, <2>6, LoopKeeps DEF Loop
<1> QED BY <1>2, <1>3, <1>4 DEF MsFetch, Stop

LEMMA MsGetNextKeeps ==
  ASSUME OpsInv, ReaderInv, MsGetNext
  PROVE  ReaderInv'
<1>1. /\ Reads /\ phase = "loop" /\ op.kind = "ms_read"
      /\ out' = out \o held /\ held' = << >>
      /\ UNCHANGED <<op, versions, snap, pos, eof>>
  BY DEF MsGetNext, Ended, Reads
<1>2. PICK w \in Seq(ToSet(Wanted)) : w = Wanted /\ Len(w) = Len(snap) /\ Len(w) \in Nat
  BY <1>1, InLoop
<1>3. /\ Len(out) \in 0 .. Len(w) /\ out = Stretch(w, 0, Len(out))
      /\ pos \in Len(out) .. Len(w) /\ held = Stretch(w, Len(out), pos)
  BY <1>1, <1>2, InLoop
<1>4. out' = Stretch(w, 0, pos) /\ Len(out') = pos /\ pos \in 0 .. Len(w)
  <2>1. PICK n \in 0 .. Len(w) : n = Len(out) BY <1>3
  <2>2. 0 \in 0 .. Len(w) /\ n \in 0 .. Len(w) /\ pos \in n .. Len(w) /\ pos \in 0 .. Len(w)
    BY <1>2, <1>3, <2>1
  <2>3. Stretch(w, 0, n) \o Stretch(w, n, pos) = Stretch(w, 0, pos) BY <2>2, StretchesMeet
  <2>4. Len(Stretch(w, 0, pos)) = pos - 0 BY <2>2, StretchIs
  <2> QED BY <1>1, <1>3, <2>1, <2>2, <2>3, <2>4
<1>5. held' = Stretch(w, pos, pos) BY <1>1, <1>2, <1>4, StretchIsEmpty
<1>6. eof => pos = Len(snap) BY <1>1 DEF ReaderInv, LoopInv
<1>7. CASE held # << >>
  <2>1. phase' = "loop" /\ rc' = rc BY <1>1, <1>7 DEF MsGetNext, Loop
  <2>2. pos' \in pos .. Len(snap) /\ pos \in 0 .. Len(snap) BY <1>1, <1>2, <1>4
  <2> QED BY <1>1, <1>2, <1>4, <1>5, <1>6, <2>1, <2>2, LoopKeeps
<1>8. CASE held = << >>
  <2>1. phase' = "stopped" BY <1>8 DEF MsGetNext, Stop
  <2>2. op.batch_size \in Nat \ {0} BY OpsAssumption DEF OpsInv
  <2>3. eof BY <1>8, <2>2, EmptySeq DEF MsGetNext
  <2> QED BY <1>1, <1>2, <1>4, <1>6, <2>1, <2>3, LoopKeeps
<1> QED BY <1>7, <1>8

(* The rows fetched stay as they are when the scan goes on; the rest of the *)
(* result set, of which the reader has seen nothing, is another.            *)
LEMMA ScanGoesOn ==
  ASSUME OpsInv, ScanInv, MsScan
  PROVE  /\ pos \in 0 .. Len(snap) /\ Len(snap) \in Nat /\ DOMAIN snap = 1 .. Len(snap)
         /\ Len(snap') \in Nat /\ DOMAIN snap' = 1 .. Len(snap') /\ pos <= Len(snap')
         /\ \A i \in 1 .. pos : snap'[i] = snap[i]
         /\ snap' \in Views
         /\ \E n \in Nat : \E at \in [1 .. n + 1 -> DOMAIN versions] :
               IsScan(at, n) /\ snap' = Scanned(at, n) /\ at[n + 1] = scan' /\ pos \in 0 .. n
<1>0. Streaming /\ op.kind \notin {"pg_read", "pg_lookup"} BY DEF MsScan, Streaming
<1>1. PICK n \in Nat : \E at \in [1 .. n + 1 -> DOMAIN versions] :
        IsScan(at, n) /\ snap = Scanned(at, n) /\ at[n + 1] = scan /\ pos \in 0 .. n
  BY <1>0 DEF ScanInv
<1>2. PICK at \in [1 .. n + 1 -> DOMAIN versions] :
        IsScan(at, n) /\ snap = Scanned(at, n) /\ at[n + 1] = scan /\ pos \in 0 .. n
  BY <1>1
<1>3. PICK p \in 0 .. n : p = pos BY <1>2
<1>4. snap \in Seq(ToSet(snap)) /\ Len(snap) = n /\ DOMAIN snap = 1 .. n
  BY <1>2, ScannedIsTable
<1>5. PICK v \in scan + 1 .. Len(versions) :
        /\ snap' = SubSeq(snap, 1, p) \o SubSeq(versions[v], p + 1, Len(versions[v]))
        /\ scan' = v
  BY <1>3 DEF MsScan
<1>6. /\ DOMAIN versions = 1 .. Len(versions) /\ Len(versions) \in Nat
      /\ n + 1 \in 1 .. n + 1 /\ scan \in 1 .. Len(versions) /\ v \in DOMAIN versions /\ v \in Nat
  <2>1. DOMAIN versions = 1 .. Len(versions) /\ Len(versions) \in Nat BY LenProperties DEF OpsInv
  <2>2. n + 1 \in 1 .. n + 1 OBVIOUS
  <2> QED BY <1>2, <1>5, <2>1, <2>2
<1>7. PICK t : t = versions[v] OBVIOUS
<1>8. t \in Seq(ToSet(t)) /\ Len(t) \in Nat /\ DOMAIN t = 1 .. Len(t)
  BY <1>6, <1>7, VersionIsTable DEF IsTable
<1>9. PICK k \in Nat : k = IF p < Len(t) THEN Len(t) ELSE p
  <2>1. Len(t) \in Nat /\ p \in Nat BY <1>8
  <2>2. (IF p < Len(t) THEN Len(t) ELSE p) \in Nat BY <2>1
  <2> QED BY <2>2
<1>10. PICK S : S = ToSet(snap) \cup ToSet(t) OBVIOUS
<1>11. snap \in Seq(S) /\ t \in Seq(S) BY <1>4, <1>8, <1>10
<1>12. PICK w : w = snap' /\ w = GoingOn(snap, t, p) BY <1>5, <1>7 DEF GoingOn
<1>21. /\ GoingOn(snap, t, p) \in Seq(S) /\ Len(GoingOn(snap, t, p)) = k
       /\ \A i \in 1 .. p : GoingOn(snap, t, p)[i] = snap[i]
       /\ \A i \in p + 1 .. k : GoingOn(snap, t, p)[i] = t[i]
  <2>1. p \in 0 .. Len(snap) BY <1>3, <1>4
  <2>2. PICK s : s = snap OBVIOUS
  <2>3. s \in Seq(S) /\ t \in Seq(S) /\ p \in 0 .. Len(s) BY <1>11, <2>1, <2>2
  <2>4. (p < Len(t) => k = Len(t)) /\ (~(p < Len(t)) => k = p) BY <1>9
  <2>5. /\ GoingOn(s, t, p) \in Seq(S) /\ Len(GoingOn(s, t, p)) = k
        /\ \A i \in 1 .. p : GoingOn(s, t, p)[i] = s[i]
        /\ \A i \in p + 1 .. k : GoingOn(s, t, p)[i] = t[i]
    BY <2>3, <2>4, GoesOnIs
  <2> QED BY <2>2, <2>5
<1>22. w \in Seq(S) /\ Len(w) = k BY <1>12, <1>21
<1>23. \A i \in 1 .. p : w[i] = snap[i] BY <1>12, <1>21
<1>24. \A i \in p + 1 .. k : w[i] = t[i] BY <1>12, <1>21
<1>13. DOMAIN w = 1 .. k /\ p <= k /\ Len(t) <= k
  <2>1. DOMAIN w = 1 .. k BY <1>22, LenProperties
  <2>2. Len(t) \in Nat /\ p \in Nat BY <1>8
  <2>3. (p < Len(t) => k = Len(t)) /\ (~(p < Len(t)) => k = p) BY <1>9
  <2>4. p <= k /\ Len(t) <= k BY <2>2, <2>3
  <2> QED BY <2>1, <2>4
<1>14. PICK to \in [1 .. k + 1 -> DOMAIN versions] : to = [i \in 1 .. k + 1 |-> IF i <= p THEN at[i] ELSE v]
  <2>1. \A i \in 1 .. p : i \in 1 .. n + 1 BY <1>3
  <2>2. \A i \in 1 .. k + 1 : i <= p => i \in 1 .. p OBVIOUS
  <2>3. [i \in 1 .. k + 1 |-> IF i <= p THEN at[i] ELSE v] \in [1 .. k + 1 -> DOMAIN versions]
    BY <1>6, <2>1, <2>2
  <2> QED BY <2>3
<1>15. /\ \A i \in 1 .. p : to[i] = at[i] /\ i \in 1 .. n /\ i \in 1 .. n + 1 /\ i \in 1 .. k + 1
       /\ \A i \in p + 1 .. k + 1 : to[i] = v
       /\ k + 1 \in p + 1 .. k + 1
  BY <1>3, <1>13, <1>14
<1>16. \A i \in 1 .. p : at[i] <= scan /\ at[i] \in Nat
  <2>1. \A i \in 1 .. p : i <= n + 1 BY <1>3
  <2>2. \A i \in 1 .. p : at[i] <= at[n + 1] BY <1>2, <1>6, <1>15, <2>1 DEF IsScan
  <2>3. \A i \in 1 .. p : at[i] \in DOMAIN versions BY <1>15
  <2> QED BY <1>2, <1>6, <2>2, <2>3
<1>17. IsScan(to, k)
  <2>1. ASSUME NEW i \in 1 .. k + 1, NEW j \in 1 .. k + 1, i <= j PROVE to[i] <= to[j]
    <3>1. CASE j <= p
      <4>1. i \in 1 .. p /\ j \in 1 .. p BY <2>1, <3>1
      <4> QED BY <1>2, <1>15, <2>1, <4>1 DEF IsScan
    <3>2. CASE i <= p /\ ~(j <= p)
      <4>1. i \in 1 .. p /\ j \in p + 1 .. k + 1 BY <3>2
      <4> QED BY <1>5, <1>6, <1>15, <1>16, <4>1
    <3>3. CASE ~(i <= p)
      <4>1. i \in p + 1 .. k + 1 /\ j \in p + 1 .. k + 1 BY <2>1, <3>3
      <4> QED BY <1>6, <1>15, <4>1
    <3> QED BY <3>1, <3>2, <3>3
  <2>2. ASSUME NEW i \in 1 .. k PROVE i <= Len(versions[to[i]])
    <3>1. CASE i <= p
      <4>1. i \in 1 .. p BY <3>1
      <4> QED BY <1>2, <1>15, <4>1 DEF IsScan
    <3>2. CASE ~(i <= p)
      <4>1. i \in p + 1 .. k + 1 /\ k = Len(t) BY <1>9, <3>2
      <4> QED BY <1>7, <1>15, <4>1
    <3> QED BY <3>1, <3>2
  <2>3. Len(versions[to[k + 1]]) <= k BY <1>7, <1>13, <1>15
  <2> QED BY <2>1, <2>2, <2>3 DEF IsScan
<1>18. w = Scanned(to, k)
  <2>1. \A i \in 1 .. p : snap[i] = versions[at[i]][i] BY <1>2, <1>15 DEF Scanned
  <2>2. ASSUME NEW i \in 1 .. k PROVE w[i] = versions[to[i]][i]
    <3>1. CASE i <= p
      <4>1. i \in 1 .. p BY <3>1
      <4> QED BY <1>15, <1>23, <2>1, <4>1
    <3>2. CASE ~(i <= p)
      <4>1. i \in p + 1 .. k /\ i \in p + 1 .. k + 1 BY <3>2
      <4> QED BY <1>7, <1>15, <1>24, <4>1
    <3> QED BY <3>1, <3>2
  <2>3. w = [i \in 1 .. k |-> w[i]] BY <1>13, <1>22
  <2> QED BY <2>2, <2>3 DEF Scanned
<1>19. to[k + 1] = scan' /\ p \in 0 .. k BY <1>3, <1>5, <1>13, <1>15
<1>20. w \in Views BY <1>0, <1>17, <1>18, ScannedIsView
<1>25. Len(w) = k /\ p <= Len(w) /\ p \in 0 .. Len(snap) BY <1>4, <1>13, <1>22
<1> QED BY <1>3, <1>4, <1>12, <1>13, <1>17, <1>18, <1>19, <1>20, <1>23, <1>25

LEMMA MsScanKeeps ==
  ASSUME OpsInv, ReaderInv, ScanInv, Reads, MsScan
  PROVE  ReaderInv'
<1>1. /\ phase = "loop" /\ op.kind = "ms_read" /\ ~eof
      /\ UNCHANGED <<op, phase, rc, versions, pos, held, eof, out>>
  BY DEF MsScan, Reads
<1>2. Views' = Views /\ Reads' BY <1>1, ViewsStay DEF Reads
<1>3. PICK one \in Seq(ToSet(Wanted)), two \in Seq(ToSet(Wanted')) :
        /\ one = Wanted /\ two = Wanted' /\ Len(one) = Len(snap) /\ Len(two) = Len(snap')
        /\ pos \in 0 .. Len(one) /\ pos <= Len(two) /\ Len(two) \in Nat
        /\ \A i \in 1 .. pos : one[i] = two[i]
  <2>1. Wanted \in Seq(ToSet(Wanted)) /\ Len(Wanted) = Len(snap) BY <1>1, InLoop
  <2>2. PICK u : u = snap' OBVIOUS
  <2>3. /\ pos \in 0 .. Len(snap) /\ DOMAIN snap = 1 .. Len(snap) /\ Len(snap) \in Nat
        /\ Len(u) \in Nat /\ DOMAIN u = 1 .. Len(u) /\ pos <= Len(u)
        /\ \A i \in 1 .. pos : u[i] = snap[i]
    BY <2>2, ScanGoesOn
  <2>4. PICK w : w = [r \in 1 .. Len(u) |-> [i \in DOMAIN op.types |-> Promised(op.types[i], u[r][i])]]
    OBVIOUS
  <2>5. Wanted' = w BY <1>1, <2>2, <2>3, <2>4 DEF Wanted, Promised
  <2>6. w \in Seq(ToSet(w)) /\ Len(w) = Len(u)
    <3>1. DOMAIN w = 1 .. Len(u) BY <2>4
    <3>2. \A r \in 1 .. Len(u) : w[r] \in ToSet(w) BY <3>1 DEF ToSet
    <3>3. w = [r \in 1 .. Len(u) |-> w[r]] BY <2>4
    <3>4. w \in [1 .. Len(u) -> ToSet(w)] BY <3>2, <3>3, Zenon
    <3>5. w \in Seq(ToSet(w)) BY <2>3, <3>4
    <3> QED BY <2>3, <3>1, <3>5, LenProperties
  <2>7. \A i \in 1 .. pos : Wanted[i] = w[i]
    <3>1. \A i \in 1 .. pos : i \in 1 .. Len(snap) /\ i \in 1 .. Len(u) BY <2>3
    <3> QED BY <2>3, <2>4, <3>1 DEF Wanted
  <2> QED BY <2>1, <2>2, <2>3, <2>5, <2>6, <2>7
<1>4. PICK S : S = ToSet(Wanted) \cup ToSet(Wanted') OBVIOUS
<1>5. one \in Seq(S) /\ two \in Seq(S) BY <1>3, <1>4
<1>6. /\ Len(out) \in 0 .. Len(one) /\ out = Stretch(one, 0, Len(out))
      /\ pos \in Len(out) .. Len(one) /\ held = Stretch(one, Len(out), pos)
  BY <1>1, <1>3, InLoop
<1>7. PICK n \in Nat : n = Len(out) /\ n \in 0 .. pos /\ n \in 0 .. Len(one) /\ n <= Len(two)
  BY <1>3, <1>6
<1>8. out = Stretch(two, 0, n)
  <2>1. 0 \in 0 .. n /\ \A i \in 1 .. n : i \in 1 .. pos BY <1>7, <1>3
  <2>2. Stretch(one, 0, n) = Stretch(two, 0, n) BY <1>3, <1>5, <1>7, <2>1, StretchAgrees
  <2> QED BY <1>6, <1>7, <2>2
<1>9. held = Stretch(two, n, pos)
  <2>1. Stretch(one, n, pos) = Stretch(two, n, pos) BY <1>3, <1>5, <1>7, StretchAgrees
  <2> QED BY <1>6, <1>7, <2>1
<1>10. FreshInv' /\ EndInv' BY <1>1 DEF FreshInv, EndInv
<1>11. SnapInv' BY <1>2, ScanGoesOn DEF SnapInv
<1>12. DeliveredInv'
  <2>1. Len(out)' = n /\ n \in 0 .. Len(snap') BY <1>1, <1>3, <1>7
  <2> QED BY <1>1, <1>3, <1>8, <2>1 DEF DeliveredInv, Stretch
<1>13. LoopInv'
  <2>1. Resolves(SqlTypeToFmt)' BY <1>1 DEF ReaderInv, LoopInv, Resolves, PrecisionOk
  <2>2. pos \in n .. Len(snap') BY <1>3, <1>7
  <2>3. held' = SubSeq(Wanted', n + 1, pos') BY <1>1, <1>3, <1>9 DEF Stretch
  <2> QED BY <1>1, <1>7, <2>1, <2>2, <2>3 DEF LoopInv, Stretch
<1> QED BY <1>10, <1>11, <1>12, <1>13 DEF ReaderInv

LEMMA ReaderKeeps == OpsInv /\ ReaderInv /\ ScanInv /\ [Next]_vars => ReaderInv'
<1> SUFFICES ASSUME OpsInv, ReaderInv, ScanInv, [Next]_vars PROVE ReaderInv' OBVIOUS
<1>0. op' = op /\ Views \subseteq Views' BY OpStays, ViewsGrow
<1>1. CASE ~Reads
  BY <1>0, <1>1 DEF ReaderInv, FreshInv, SnapInv, DeliveredInv, LoopInv, EndInv, Reads
<1>2. CASE Reads
  <2>1. CASE InitComponent BY <1>2, <2>1, InitKeeps
  <2>2. CASE PgResolve \/ MsResolve BY <2>2, ResolveKeeps
  <2>3. CASE PgGetNext BY <2>3, PgGetNextKeeps
  <2>4. CASE MsFetch BY <2>4, MsFetchKeeps
  <2>5. CASE MsGetNext BY <2>5, MsGetNextKeeps
  <2>6. CASE PgReadDestroy \/ MsReadDestroy
    <3>1. /\ phase \notin {"new", "refused"} /\ phase' = "gone" /\ UNCHANGED <<snap, out>>
      BY <2>6 DEF PgReadDestroy, MsReadDestroy, Done
    <3> QED BY <1>0, <1>2, <3>1, StopKeeps
  <2>7. CASE Commit \/ Cancel \/ Over \/ UNCHANGED vars
    <3>1. UNCHANGED <<phase, rc, snap, pos, held, eof, out>>
      BY <2>7 DEF Commit, Cancel, Over, vars
    <3> QED BY <1>0, <3>1, BesideKeeps
  <2>9. CASE MsScan BY <1>2, <2>9, MsScanKeeps
  <2>8. CASE \/ PgLookupResolve \/ MsLookupResolve \/ MsLookupFetch \/ PgLookupGetNext \/ MsLookupGetNext
             \/ Execute \/ LookupDestroy \/ ExecuteDestroy
    BY <1>2, <2>8
    DEF Reads, PgLookupResolve, MsLookupResolve, MsLookupFetch, PgLookupGetNext, MsLookupGetNext,
        LookupGetNext, Execute, LookupDestroy, ExecuteDestroy
  <2> QED BY <2>1, <2>2, <2>3, <2>4, <2>5, <2>6, <2>7, <2>8, <2>9 DEF Next
<1> QED BY <1>1, <1>2

(* The scan stays where it is, or goes on.                                  *)
LEMMA ScanStays ==
  ASSUME OpsInv, ScanInv, [Next]_vars, UNCHANGED <<op, snap, scan>>,
         Streaming' => Streaming /\ pos' \in 0 .. Len(snap)
  PROVE  ScanInv'
<1> SUFFICES ASSUME Streaming, pos' \in 0 .. Len(snap) PROVE ScanInv' BY DEF ScanInv
<1>1. PICK n \in Nat : \E at \in [1 .. n + 1 -> DOMAIN versions] :
        IsScan(at, n) /\ snap = Scanned(at, n) /\ at[n + 1] = scan /\ pos \in 0 .. n
  BY DEF ScanInv
<1>2. PICK at \in [1 .. n + 1 -> DOMAIN versions] :
        IsScan(at, n) /\ snap = Scanned(at, n) /\ at[n + 1] = scan
  BY <1>1
<1>3. at \in [1 .. n + 1 -> DOMAIN versions'] /\ IsScan(at, n)' /\ Scanned(at, n)' = Scanned(at, n)
  BY <1>2, ScansStay
<1>4. pos' \in 0 .. n BY <1>2, ScannedIsTable
<1> QED BY <1>2, <1>3, <1>4 DEF ScanInv

(* A scan starts with the current table.                                    *)
LEMMA ScanStarts ==
  ASSUME OpsInv, UNCHANGED <<op, versions>>, snap' = Current, scan' = Len(versions), pos' = 0
  PROVE  ScanInv'
<1>1. PICK n \in Nat : \E at \in [1 .. n + 1 -> DOMAIN versions] :
        IsScan(at, n) /\ Current = Scanned(at, n) /\ at[n + 1] = Len(versions)
  BY CurrentIsScanned
<1>2. PICK at \in [1 .. n + 1 -> DOMAIN versions] :
        IsScan(at, n) /\ Current = Scanned(at, n) /\ at[n + 1] = Len(versions)
  BY <1>1
<1>3. at \in [1 .. n + 1 -> DOMAIN versions'] /\ IsScan(at, n)' /\ snap' = Scanned(at, n)'
  BY <1>2 DEF IsScan, Scanned
<1> QED BY <1>2, <1>3 DEF ScanInv

LEMMA ScanKeeps == OpsInv /\ ReaderInv /\ ScanInv /\ PosInv /\ ReaderInv' /\ [Next]_vars => ScanInv' /\ PosInv'
<1> SUFFICES ASSUME OpsInv, ReaderInv, ScanInv, PosInv, ReaderInv', [Next]_vars PROVE ScanInv' /\ PosInv'
  OBVIOUS
<1>0. op' = op BY OpStays
<1>s. Streaming => pos \in 0 .. Len(snap) /\ Len(snap) \in Nat
  <2> SUFFICES ASSUME Streaming PROVE pos \in 0 .. Len(snap) /\ Len(snap) \in Nat OBVIOUS
  <2>1. PICK n \in Nat : \E at \in [1 .. n + 1 -> DOMAIN versions] :
          IsScan(at, n) /\ snap = Scanned(at, n) /\ at[n + 1] = scan /\ pos \in 0 .. n
    BY DEF ScanInv
  <2>2. Len(snap) = n BY <2>1, ScannedIsTable
  <2> QED BY <2>1, <2>2
<1>1. PosInv'
  BY DEF PosInv, Next, vars, InitComponent, PgResolve, MsResolve, PgLookupResolve, MsLookupResolve,
         MsLookupFetch, MsScan, PgGetNext, MsFetch, MsGetNext, Ended, PgLookupGetNext, MsLookupGetNext,
         LookupGetNext, Execute, PgReadDestroy, MsReadDestroy, LookupDestroy, ExecuteDestroy, Done,
         Stop, Loop, Commit, Cancel, Over
<1>2. CASE InitComponent
  <2>1. /\ UNCHANGED <<op, versions, pos>> /\ phase = "new" /\ phase' \in {"ready", "refused"}
        /\ Reads /\ phase' = "ready" => snap' = Current /\ scan' = Len(versions)
    BY <1>2 DEF InitComponent
  <2>2. CASE Reads /\ phase' = "ready"
    BY <2>1, <2>2, ScanStarts DEF PosInv
  <2>3. CASE ~(Reads /\ phase' = "ready")
    <3>1. ~ Streaming' BY <2>1, <2>3 DEF Streaming, Reads
    <3> QED BY <1>1, <3>1 DEF ScanInv
  <2> QED BY <1>1, <2>2, <2>3
<1>3. CASE MsLookupResolve
  <2>1. /\ UNCHANGED <<op, versions, pos>> /\ phase = "ready"
        /\ phase' = "stopped" \/ (snap' = Current /\ scan' = Len(versions))
    BY <1>3 DEF MsLookupResolve, Stop
  <2>2. CASE snap' = Current /\ scan' = Len(versions) BY <1>1, <2>1, <2>2, ScanStarts DEF PosInv
  <2>3. CASE phase' = "stopped" BY <1>1, <2>3 DEF ScanInv, Streaming
  <2> QED BY <2>1, <2>2, <2>3
<1>4. CASE MsScan
  <2>1. UNCHANGED <<op, versions, pos>> BY <1>4 DEF MsScan
  <2>2. PICK n \in Nat : \E at \in [1 .. n + 1 -> DOMAIN versions] :
          IsScan(at, n) /\ snap' = Scanned(at, n) /\ at[n + 1] = scan' /\ pos \in 0 .. n
    BY <1>4, ScanGoesOn
  <2>3. PICK at \in [1 .. n + 1 -> DOMAIN versions] :
          IsScan(at, n) /\ snap' = Scanned(at, n) /\ at[n + 1] = scan' /\ pos \in 0 .. n
    BY <2>2
  <2>4. at \in [1 .. n + 1 -> DOMAIN versions'] /\ IsScan(at, n)' /\ snap' = Scanned(at, n)'
    BY <2>1, <2>3 DEF IsScan, Scanned
  <2> QED BY <1>1, <2>1, <2>3, <2>4 DEF ScanInv
<1>5. CASE MsResolve \/ MsFetch \/ MsGetNext \/ MsLookupFetch
  <2>1. CASE MsResolve
    <3>1. UNCHANGED <<snap, scan, pos>> /\ op.kind = "ms_read" /\ phase = "ready" BY <2>1 DEF MsResolve
    <3>2. Streaming BY <3>1 DEF Streaming
    <3> QED BY <1>0, <1>1, <1>s, <3>1, <3>2, ScanStays
  <2>2. CASE MsFetch
    <3>1. /\ UNCHANGED <<snap, scan>> /\ op.kind = "ms_read" /\ phase = "loop"
          /\ pos' = pos \/ (pos # Len(snap) /\ pos' = pos + 1)
      BY <2>2 DEF MsFetch, Ended
    <3>2. Streaming BY <3>1 DEF Streaming
    <3>3. pos' \in 0 .. Len(snap) BY <1>s, <3>1, <3>2
    <3> QED BY <1>0, <1>1, <3>1, <3>2, <3>3, ScanStays
  <2>3. CASE MsGetNext
    <3>1. UNCHANGED <<snap, scan, pos>> /\ op.kind = "ms_read" /\ phase = "loop"
      BY <2>3 DEF MsGetNext, Ended
    <3>2. Streaming BY <3>1 DEF Streaming
    <3> QED BY <1>0, <1>1, <1>s, <3>1, <3>2, ScanStays
  <2>4. CASE MsLookupFetch
    <3>1. \/ phase' = "stopped"
          \/ op.kind = "ms_lookup" /\ phase' = "loop"
          \/ UNCHANGED <<snap, scan>> /\ Streaming /\ pos < Len(snap) /\ pos' = pos + 1
      BY <2>4 DEF MsLookupFetch, Stop, Loop, Streaming
    <3>2. CASE phase' = "stopped" \/ (op.kind = "ms_lookup" /\ phase' = "loop")
      BY <1>0, <1>1, <3>2 DEF ScanInv, Streaming
    <3>3. CASE UNCHANGED <<snap, scan>> /\ Streaming /\ pos < Len(snap) /\ pos' = pos + 1
      <4>1. pos' \in 0 .. Len(snap) BY <1>s, <3>3
      <4> QED BY <1>0, <1>1, <3>3, <4>1, ScanStays
    <3> QED BY <3>1, <3>2, <3>3
  <2> QED BY <1>5, <2>1, <2>2, <2>3, <2>4
<1>6. CASE ~(InitComponent \/ MsLookupResolve \/ MsScan \/ MsResolve \/ MsFetch \/ MsGetNext \/ MsLookupFetch)
  <2>1. UNCHANGED <<snap, scan, pos, phase>> \/ ~ Streaming'
    BY <1>0, <1>6
    DEF Next, vars, PgResolve, PgLookupResolve, PgGetNext, Ended, PgLookupGetNext, MsLookupGetNext,
         LookupGetNext, Execute, PgReadDestroy, MsReadDestroy, LookupDestroy, ExecuteDestroy, Done,
        Stop, Loop, Commit, Cancel, Over, Streaming
  <2>2. CASE ~ Streaming' BY <1>1, <2>2 DEF ScanInv
  <2>3. CASE UNCHANGED <<snap, scan, pos, phase>>
    <3>1. Streaming' = Streaming BY <1>0, <2>3 DEF Streaming
    <3> QED BY <1>0, <1>1, <1>s, <2>3, <3>1, ScanStays
  <2> QED BY <2>1, <2>2, <2>3
<1> QED BY <1>2, <1>3, <1>4, <1>5, <1>6

(* The script runs in one step, between nothing and all of it.              *)
LEMMA ExecuteKeeps == ExecuteInv /\ [Next]_vars => ExecuteInv'
<1> SUFFICES ASSUME ExecuteInv, [Next]_vars, op.kind = "execute" PROVE ExecuteInv'
  BY OpStays DEF ExecuteInv
<1>0. op' = op /\ All' = All BY OpStays DEF All
<1>1. CASE InitComponent BY <1>0, <1>1 DEF InitComponent, ExecuteInv, ScriptIsAtomic
<1>2. CASE Execute
  <2>1. phase = "ready" /\ phase' = "stopped" /\ out = << >> BY <1>2 DEF Execute, ExecuteInv
  <2>2. CASE op.server = "mssql" BY <1>0, <2>1, <2>2 DEF ExecuteInv, ScriptIsAtomic
  <2>3. CASE op.server # "mssql" /\ out' = << >> /\ rc' # "ok"
    BY <1>0, <2>1, <2>3 DEF ExecuteInv, ScriptIsAtomic
  <2>4. CASE op.server # "mssql" /\ RunPg
    <3>1. out' \in {<< >>, All} /\ (rc' = "ok" => out' = All) BY <2>4 DEF RunPg
    <3> QED BY <1>0, <2>1, <3>1 DEF ExecuteInv, ScriptIsAtomic
  <2> QED BY <1>2, <2>1, <2>2, <2>3, <2>4 DEF Execute
<1>3. CASE ExecuteDestroy
  <2>1. phase' = "gone" /\ phase \in {"ready", "stopped"} /\ out' = out
    BY <1>3 DEF ExecuteDestroy, Done, ExecuteInv
  <2> QED BY <1>0, <2>1 DEF ExecuteInv, ScriptIsAtomic
<1>4. CASE Commit \/ Cancel \/ Over \/ UNCHANGED vars
  <2>1. UNCHANGED <<phase, rc, out>> BY <1>4 DEF Commit, Cancel, Over, vars
  <2> QED BY <1>0, <2>1 DEF ExecuteInv, ScriptIsAtomic
<1>5. CASE \/ PgResolve \/ MsResolve \/ PgLookupResolve \/ MsLookupResolve \/ MsLookupFetch \/ MsScan \/ PgGetNext
           \/ MsFetch \/ MsGetNext \/ PgLookupGetNext \/ MsLookupGetNext
           \/ PgReadDestroy \/ MsReadDestroy \/ LookupDestroy
  BY <1>5
  DEF PgResolve, MsResolve, PgLookupResolve, MsLookupResolve, MsLookupFetch, MsScan, PgGetNext, MsFetch,
      MsGetNext, Ended, PgLookupGetNext, MsLookupGetNext, LookupGetNext, PgReadDestroy,
      MsReadDestroy, LookupDestroy
<1> QED BY <1>1, <1>2, <1>3, <1>4, <1>5 DEF Next

LEMMA Inductive == Spec => []IInv
<1>1. IInv /\ [Next]_vars => IInv' BY OpsKeep, ReaderKeeps, ScanKeeps, ExecuteKeeps DEF IInv
<1> QED BY <1>1, Starts, PTL DEF Spec

------------------------------------------------------------------------------
(* Lookups                                                                  *)

Lookup == op.kind \in {"pg_lookup", "ms_lookup"}

\* What each of the rows that stay is given.
GivenTo(v, kept) == [i \in DOMAIN kept |-> Given(v, kept[i])]

\* o answers the rows, each from version v.
AnsweredBy(v, rows, o) ==
  /\ \A row \in ToSet(rows) : Cardinality(Candidates(v, row)) <= 1
  /\ op.on_miss = "error" => \A row \in ToSet(rows) : Candidates(v, row) # {}
  /\ o = GivenTo(v, Stays(v, rows))

(* A cache holds the match and select columns of a view: what a row hits    *)
(* in it is what it selects from that view.                                 *)
LEMMA UsedColsAre ==
  ASSUME OpsInv
  PROVE  /\ \A k \in DOMAIN op.match : k \in DOMAIN UsedCols /\ UsedCols[k] = op.match[k].col
         /\ \A i \in DOMAIN op.select :
              /\ Len(op.match) + i \in DOMAIN UsedCols
              /\ UsedCols[Len(op.match) + i] = op.select[i]
<1> DEFINE m == [i \in DOMAIN op.match |-> op.match[i].col]
<1>1. op.match \in Seq(ToSet(op.match)) /\ op.select \in Seq(ToSet(op.select))
  BY OpsAssumption DEF OpsInv
<1>2. PICK a \in Nat : a = Len(op.match) /\ DOMAIN op.match = 1 .. a BY <1>1
<1>3. PICK b \in Nat : b = Len(op.select) /\ DOMAIN op.select = 1 .. b BY <1>1
<1> DEFINE S == {m[i] : i \in 1 .. a} \cup ToSet(op.select)
<1>4. m \in Seq(S) /\ Len(m) = a
  <2>1. m = [i \in 1 .. a |-> op.match[i].col] BY <1>2
  <2> QED BY <2>1
<1>5. op.select \in Seq(S)
  <2>1. \A i \in 1 .. b : op.select[i] \in S BY <1>1, <1>3 DEF ToSet
  <2>2. op.select = [i \in 1 .. b |-> op.select[i]] BY <1>1, <1>3
  <2> HIDE DEF S
  <2> QED BY <2>1, <2>2
<1>6. \A i \in 1 .. a : m[i] = op.match[i].col BY <1>2
<1>7. UsedCols = m \o op.select BY DEF UsedCols
<1> HIDE DEF m, S
<1>8. /\ Len(UsedCols) = a + b /\ DOMAIN UsedCols = 1 .. a + b
      /\ \A i \in 1 .. a : UsedCols[i] = m[i]
      /\ \A i \in 1 .. b : UsedCols[a + i] = op.select[i]
  <2>1. PICK x \in Seq(S), y \in Seq(S) : x = m /\ y = op.select /\ Len(x) = a /\ Len(y) = b
    BY <1>3, <1>4, <1>5
  <2>2. x \o y \in Seq(S) /\ Len(x \o y) = a + b BY <2>1
  <2>3. \A i \in 1 .. Len(x) : (x \o y)[i] = x[i] OBVIOUS
  <2>4. \A i \in 1 .. Len(y) : (x \o y)[Len(x) + i] = y[i] OBVIOUS
  <2> QED BY <1>7, <2>1, <2>2, <2>3, <2>4
<1>9. \A k \in 1 .. a : k \in 1 .. a + b OBVIOUS
<1>10. \A i \in 1 .. b : a + i \in 1 .. a + b OBVIOUS
<1> QED BY <1>2, <1>3, <1>6, <1>8, <1>9, <1>10

LEMMA HitsAreCandidates ==
  ASSUME OpsInv, NEW v, NEW row
  PROVE  Hits(row, Cached(v)) = Candidates(v, row)
<1>1. \A r \in DOMAIN v, k \in DOMAIN op.match : Cached(v)[r][k] = v[r][op.match[k].col]
  BY UsedColsAre DEF Cached
<1>2. DOMAIN Cached(v) = DOMAIN v BY DEF Cached
<1> QED BY <1>1, <1>2 DEF Hits, Candidates

LEMMA ProbeIs ==
  ASSUME OpsInv, NEW v, IsTable(v, op.types), NEW row,
         ~ Refuses(LookupProbe(row, Cached(v)))
  PROVE  /\ Cardinality(Candidates(v, row)) <= 1
         /\ LookupProbe(row, Cached(v)) = NULL <=> Candidates(v, row) = {}
         /\ Candidates(v, row) # {} => LookupProbe(row, Cached(v)) = CHOOSE r \in Candidates(v, row) : TRUE
         /\ op.on_miss = "error" => Candidates(v, row) # {}
<1> DEFINE cands == Candidates(v, row)
           probe == LookupProbe(row, Cached(v))
<1>0. v \in Seq(ToSet(v)) BY DEF IsTable
<1>1. cands \in SUBSET (1 .. Len(v)) BY <1>0 DEF Candidates
<1>2. IsFiniteSet(cands) /\ cands \in SUBSET Nat
  <2>1. IsFiniteSet(1 .. Len(v))
    <3>1. Len(v) \in Int BY <1>0
    <3> QED BY <3>1, FS_Interval
  <2> HIDE DEF cands
  <2>2. cands \in SUBSET Nat BY <1>0, <1>1
  <2>3. IsFiniteSet(cands) BY <1>1, <2>1, FS_Subset
  <2> QED BY <2>2, <2>3
<1>3. Cardinality(cands) \in Nat
  <2> HIDE DEF cands
  <2> QED BY <1>2, FS_CardinalityType
<1>4. probe = IF cands = {} THEN NULL ELSE IF Cardinality(cands) > 1 THEN ERR ELSE CHOOSE r \in cands : TRUE
  BY HitsAreCandidates DEF LookupProbe
<1>5. cands # {} => (CHOOSE r \in cands : TRUE) \in Nat
  <2> HIDE DEF cands
  <2> QED BY <1>2
<1>6. probe # ERR /\ ~(probe = NULL /\ op.on_miss = "error") BY DEF Refuses
<1> HIDE DEF cands, probe
<1>7. /\ Cardinality(cands) <= 1
      /\ probe = NULL <=> cands = {}
      /\ cands # {} => probe = CHOOSE r \in cands : TRUE
      /\ op.on_miss = "error" => cands # {}
  <2>1. CASE cands = {}
    <3>1. Cardinality(cands) = 0 BY <2>1, FS_EmptySet
    <3>2. probe = NULL BY <1>4, <2>1
    <3> QED BY <1>6, <2>1, <3>1, <3>2
  <2>2. CASE cands # {}
    <3>1. ~(Cardinality(cands) > 1) BY <1>4, <1>6, <2>2
    <3>2. probe = CHOOSE r \in cands : TRUE BY <1>4, <2>2, <3>1
    <3>3. Cardinality(cands) <= 1 BY <1>3, <3>1
    <3>4. probe # NULL BY <1>5, <2>2, <3>2, MarksAssumption
    <3> QED BY <2>2, <3>2, <3>3, <3>4
  <2> QED BY <2>1, <2>2
<1> QED BY <1>7 DEF cands, probe

LEMMA AnswerIsGiven ==
  ASSUME OpsInv, NEW v, IsTable(v, op.types), NEW row,
         ~ Refuses(LookupProbe(row, Cached(v)))
  PROVE  Answer(row, LookupProbe(row, Cached(v)), Cached(v)) = Given(v, row)
<1> DEFINE hit == LookupProbe(row, Cached(v))
<1>1. /\ hit = NULL <=> Candidates(v, row) = {}
      /\ Candidates(v, row) # {} => hit = CHOOSE r \in Candidates(v, row) : TRUE
  BY ProbeIs
<1>2. Candidates(v, row) # {} => hit \in DOMAIN v BY <1>1 DEF Candidates
<1> HIDE DEF hit
<1>3. \A i \in DOMAIN op.select : Candidates(v, row) # {} => Cached(v)[hit][Len(op.match) + i] = v[hit][op.select[i]]
  BY <1>2, UsedColsAre DEF Cached
<1> DEFINE was == [i \in DOMAIN op.select |-> IF hit = NULL THEN NULL ELSE Cached(v)[hit][Len(op.match) + i]]
           is == [i \in DOMAIN op.select |->
                    IF Candidates(v, row) = {} THEN NULL
                    ELSE v[CHOOSE r \in Candidates(v, row) : TRUE][op.select[i]]]
<1>4. was = is BY <1>1, <1>3
<1> QED BY <1>4 DEF Answer, Given, hit

\* The rows that stay, said of a set that may hold more rows.
Staying(v, S) == {row \in S : op.on_miss # "drop" \/ Candidates(v, row) # {}}

LEMMA StaysIs ==
  ASSUME NEW v, NEW S, NEW rows \in Seq(S)
  PROVE  Stays(v, rows) = Kept(rows, Staying(v, S)) /\ Stays(v, rows) \in Seq(S)
<1> DEFINE mine == {row \in ToSet(rows) : op.on_miss # "drop" \/ Candidates(v, row) # {}}
<1>1. \A i \in 1 .. Len(rows) : rows[i] \in mine <=> rows[i] \in Staying(v, S)
  BY DEF Staying, ToSet
<1>2. Stays(v, rows) = Kept(rows, mine) BY DEF Stays
<1> HIDE DEF mine
<1>3. Kept(rows, mine) = Kept(rows, Staying(v, S)) BY <1>1, KeptAgrees
<1>4. Kept(rows, mine) \in Seq(S) BY KeptIsSeq
<1> QED BY <1>2, <1>3, <1>4

(* A batch that is not refused is answered from the version of the cache.   *)
LEMMA BatchIsAnswered ==
  ASSUME OpsInv, NEW v, IsTable(v, op.types), NEW S, NEW rows \in Seq(S), ~ RefusesOne(rows, Cached(v))
  PROVE  AnsweredBy(v, rows, LookupRows(rows, Cached(v)))
<1> DEFINE probe(row) == LookupProbe(row, Cached(v))
           left == {row \in ToSet(rows) : ~ (probe(row) = NULL /\ op.on_miss = "drop")}
           kept == Kept(rows, left)
<1>1. \A row \in ToSet(rows) : ~ Refuses(probe(row)) BY DEF RefusesOne, ToSet
<1>2. \A row \in ToSet(rows) : probe(row) = NULL <=> Candidates(v, row) = {} BY <1>1, ProbeIs
<1>3. kept = Stays(v, rows)
  <2>1. \A i \in 1 .. Len(rows) : rows[i] \in left <=> rows[i] \in Staying(v, S)
    <3>1. \A i \in 1 .. Len(rows) : rows[i] \in ToSet(rows) /\ rows[i] \in S BY DEF ToSet
    <3> QED BY <1>2, <3>1 DEF Staying
  <2> HIDE DEF left
  <2>2. Kept(rows, left) = Kept(rows, Staying(v, S)) BY <2>1, KeptAgrees
  <2> QED BY <2>2, StaysIs
<1>4. \A i \in DOMAIN kept : kept[i] \in ToSet(rows)
  <2>1. rows \in Seq(ToSet(rows))
    <3>1. \A i \in 1 .. Len(rows) : rows[i] \in ToSet(rows) BY DEF ToSet
    <3>2. rows = [i \in 1 .. Len(rows) |-> rows[i]] /\ Len(rows) \in Nat OBVIOUS
    <3> QED BY <3>1, <3>2
  <2>2. kept \in Seq(ToSet(rows)) BY <1>3, <2>1, StaysIs
  <2> QED BY <2>2
<1>5. \A i \in DOMAIN kept : Answer(kept[i], probe(kept[i]), Cached(v)) = Given(v, kept[i])
  BY <1>1, <1>4, AnswerIsGiven
<1>6. LookupRows(rows, Cached(v)) = [i \in DOMAIN kept |-> Answer(kept[i], probe(kept[i]), Cached(v))]
  BY DEF LookupRows
<1>7. LookupRows(rows, Cached(v)) = GivenTo(v, kept)
  <2> HIDE DEF kept, probe
  <2>1. [i \in DOMAIN kept |-> Answer(kept[i], probe(kept[i]), Cached(v))] = [i \in DOMAIN kept |-> Given(v, kept[i])]
    BY <1>5
  <2> QED BY <1>6, <2>1 DEF GivenTo
<1>8. \A row \in ToSet(rows) : /\ Cardinality(Candidates(v, row)) <= 1
                               /\ op.on_miss = "error" => Candidates(v, row) # {}
  BY <1>1, ProbeIs
<1> QED BY <1>3, <1>7, <1>8 DEF AnsweredBy

(* The answers to rows and then to more are the answers to all of them.     *)
LEMMA AnswersJoin ==
  ASSUME NEW v, NEW S, NEW rows \in Seq(S), NEW more \in Seq(S), NEW o, NEW p,
         AnsweredBy(v, rows, o), AnsweredBy(v, more, p)
  PROVE  AnsweredBy(v, Concat(rows, more), Concat(o, p))
<1> DEFINE G == [row \in S |-> Given(v, row)]
<1>1. PICK a \in Seq(S) : a = Stays(v, rows) BY StaysIs
<1>2. PICK b \in Seq(S) : b = Stays(v, more) BY StaysIs
<1>3. PICK all \in Seq(S) : all = Concat(rows, more) BY ConcatIsSeq
<1>4. Stays(v, all) = Concat(a, b)
  <2>1. Stays(v, all) = Kept(all, Staying(v, S)) BY StaysIs
  <2>2. Kept(Concat(rows, more), Staying(v, S))
          = Concat(Kept(rows, Staying(v, S)), Kept(more, Staying(v, S)))
    BY KeptJoins
  <2>3. a = Kept(rows, Staying(v, S)) BY <1>1, StaysIs
  <2>4. b = Kept(more, Staying(v, S)) BY <1>2, StaysIs
  <2> QED BY <1>3, <2>1, <2>2, <2>3, <2>4
<1>5. \A s \in Seq(S) : GivenTo(v, s) = Mapped(G, s)
  <2> SUFFICES ASSUME NEW s \in Seq(S) PROVE GivenTo(v, s) = Mapped(G, s)
    OBVIOUS
  <2>1. DOMAIN s = 1 .. Len(s) /\ \A i \in 1 .. Len(s) : s[i] \in S OBVIOUS
  <2> QED BY <2>1 DEF Mapped, GivenTo
<1> HIDE DEF G
<1>7. o = Mapped(G, a) BY <1>1, <1>5 DEF AnsweredBy
<1>8. p = Mapped(G, b) BY <1>2, <1>5 DEF AnsweredBy
<1>9. PICK c \in Seq(S) : c = Concat(a, b) BY ConcatIsSeq
<1>10. GivenTo(v, c) = Mapped(G, c) BY <1>5
<1>11. Mapped(G, Concat(a, b)) = Concat(Mapped(G, a), Mapped(G, b)) BY MappedOfConcat
<1>12. Concat(o, p) = GivenTo(v, Stays(v, all)) BY <1>4, <1>7, <1>8, <1>9, <1>10, <1>11
<1>13. ToSet(all) = ToSet(rows) \cup ToSet(more) BY <1>3, ConcatElements
<1>14. \A row \in ToSet(all) : /\ Cardinality(Candidates(v, row)) <= 1
                               /\ op.on_miss = "error" => Candidates(v, row) # {}
  BY <1>13 DEF AnsweredBy
<1>15. AnsweredBy(v, all, Concat(o, p)) BY <1>12, <1>14 DEF AnsweredBy
<1> QED BY <1>3, <1>15

(* Only the configuration says what answers what.                           *)
LEMMA AnsweredStays ==
  ASSUME op' = op, NEW v, NEW rows, NEW o
  PROVE  AnsweredBy(v, rows, o)' = AnsweredBy(v, rows, o)
BY DEF AnsweredBy, GivenTo, Given, Stays, Candidates

LEMMA NothingIsKept ==
  ASSUME NEW set
  PROVE  Kept(<< >>, set) = << >>
<1>0. PICK S : S = {} OBVIOUS
<1>1. PICK e \in Seq(S) : e = << >>
  <2>1. << >> \in Seq(S) OBVIOUS
  <2> QED BY <2>1
<1>2. Kept(e, set) = << >> <=> \A i \in 1 .. Len(e) : e[i] \notin set
  BY KeptIsEmpty
<1>3. 1 .. Len(e) = {} BY <1>1
<1> QED BY <1>1, <1>2, <1>3

LEMMA NothingIsAnswered ==
  ASSUME NEW v
  PROVE  AnsweredBy(v, << >>, << >>)
<1>1. Stays(v, << >>) = << >> BY NothingIsKept DEF Stays
<1>2. GivenTo(v, << >>) = << >> BY DEF GivenTo
<1>3. ToSet(<< >>) = {} BY DEF ToSet
<1> QED BY <1>1, <1>2, <1>3 DEF AnsweredBy

\* What a lookup reads of the rows of its input.
RawSet == {RawRow(r) : r \in op.rows}

LEMMA RawRowsAre ==
  ASSUME NEW batch \in Seq(op.rows)
  PROVE  RawRows(batch) \in Seq(RawSet) /\ Len(RawRows(batch)) = Len(batch)
<1>1. \A i \in 1 .. Len(batch) : RawRow(batch[i]) \in RawSet BY DEF RawSet
<1>2. RawRows(batch) = [i \in 1 .. Len(batch) |-> RawRow(batch[i])] BY DEF RawRows
<1> QED BY <1>1, <1>2

LEMMA RawRowsJoin ==
  ASSUME NEW one \in Seq(op.rows), NEW two \in Seq(op.rows)
  PROVE  RawRows(Concat(one, two)) = Concat(RawRows(one), RawRows(two))
<1> DEFINE G == [row \in op.rows |-> RawRow(row)]
<1>1. \A s \in Seq(op.rows) : RawRows(s) = Mapped(G, s)
  <2> SUFFICES ASSUME NEW s \in Seq(op.rows) PROVE RawRows(s) = Mapped(G, s) OBVIOUS
  <2>1. DOMAIN s = 1 .. Len(s) /\ \A i \in 1 .. Len(s) : s[i] \in op.rows OBVIOUS
  <2> QED BY <2>1 DEF RawRows, Mapped
<1> HIDE DEF G
<1>2. PICK S : S = op.rows OBVIOUS
<1>3. one \in Seq(S) /\ two \in Seq(S) BY <1>2
<1>4. Mapped(G, Concat(one, two)) = Concat(Mapped(G, one), Mapped(G, two)) BY <1>3, MappedOfConcat
<1>5. PICK all \in Seq(op.rows) : all = Concat(one, two) BY <1>2, <1>3, ConcatIsSeq
<1> QED BY <1>1, <1>4, <1>5

\* v answers the first n rows of the input; without an error, all of them.
Serves(v, n) ==
  /\ phase = "loop" => snap = Cached(v)
  /\ AnsweredBy(v, SubSeq(RawRows(in), 1, n), out)
  /\ rc = "ok" => n = Len(in)

(* One view answers every row a lookup has delivered, and while it runs it  *)
(* is the one in the cache.                                                 *)
LookupInv ==
  Lookup =>
    /\ in \in Seq(op.rows)
    /\ phase \in {"new", "refused", "ready", "loading"} => in = << >> /\ out = << >>
    /\ phase \in {"new", "refused", "ready", "loading", "loop"} => rc = "ok"
    /\ \E v \in Views, n \in 0 .. Len(in) : Serves(v, n)

LEMMA AllIsServed ==
  ASSUME Lookup, in \in Seq(op.rows), NEW v, phase = "loop" => snap = Cached(v),
         AnsweredBy(v, RawRows(in), out)
  PROVE  \E n \in 0 .. Len(in) : Serves(v, n)
<1>1. PICK n \in Nat : n = Len(in) OBVIOUS
<1>2. RawRows(in) \in Seq(RawSet) /\ Len(RawRows(in)) = n BY <1>1, RawRowsAre
<1>3. SubSeq(RawRows(in), 1, n) = RawRows(in) BY <1>2, SubSeqFull
<1>4. Serves(v, n) BY <1>1, <1>3 DEF Serves
<1> QED BY <1>1, <1>4

LEMMA LookupStarts == Init => LookupInv
<1> SUFFICES ASSUME Init, Lookup
             PROVE  /\ in \in Seq(op.rows)
                    /\ in = << >> /\ out = << >> /\ rc = "ok"
                    /\ \E v \in Views, n \in 0 .. Len(in) : Serves(v, n)
  BY DEF LookupInv
<1>1. in \in Seq(op.rows) /\ in = << >> /\ out = << >> /\ phase = "new" /\ rc = "ok" BY DEF Init
<1>2. op.table \in Views
  <2>1. OpsInv /\ Current = op.table BY Starts DEF IInv, Init, Current, Last
  <2> QED BY <2>1, CurrentIsView
<1>3. RawRows(in) = << >>
  <2>1. RawRows(in) \in Seq(RawSet) /\ Len(RawRows(in)) = 0 BY <1>1, RawRowsAre
  <2> QED BY <2>1
<1>4. AnsweredBy(op.table, RawRows(in), out) BY <1>1, <1>3, NothingIsAnswered
<1>5. \E n \in 0 .. Len(in) : Serves(op.table, n) BY <1>1, <1>4, AllIsServed
<1> QED BY <1>1, <1>2, <1>5

(* A step that neither reads input nor delivers leaves the answers.         *)
LEMMA ServedStays ==
  ASSUME OpsInv, LookupInv, [Next]_vars, UNCHANGED <<in, out>>,
         phase' = "loop" => phase = "loop" /\ snap' = snap,
         phase' \in {"new", "refused", "ready", "loading"} => phase \in {"new", "refused", "ready", "loading"},
         rc' = "ok" => rc = "ok", rc' # rc => phase' \in {"stopped", "gone"}
  PROVE  LookupInv'
<1>0. op' = op /\ Views \subseteq Views' BY OpStays, ViewsGrow
<1> SUFFICES ASSUME Lookup PROVE LookupInv' BY <1>0 DEF LookupInv, Lookup
<1>1. PICK v \in Views, n \in 0 .. Len(in) : Serves(v, n) BY DEF LookupInv
<1>2. Cached(v)' = Cached(v) BY <1>0 DEF Cached, UsedCols
<1>3. RawRows(in)' = RawRows(in) BY <1>0 DEF RawRows, RawRow
<1>4. PICK rows : rows = SubSeq(RawRows(in), 1, n) OBVIOUS
<1>5. PICK o : o = out OBVIOUS
<1>6. Serves(v, n)'
  <2>1. SubSeq(RawRows(in), 1, n)' = rows /\ out' = o BY <1>3, <1>4, <1>5
  <2>2. AnsweredBy(v, rows, o) BY <1>1, <1>4, <1>5 DEF Serves
  <2>3. AnsweredBy(v, rows, o)' BY <1>0, <2>2, AnsweredStays
  <2>4. AnsweredBy(v, SubSeq(RawRows(in), 1, n), out)' BY <2>1, <2>3
  <2> QED BY <1>1, <1>2, <2>4 DEF Serves
<1>7. n \in 0 .. Len(in)' /\ v \in Views' BY <1>0
<1> QED BY <1>0, <1>6, <1>7 DEF LookupInv

(* A step that leaves everything said of the input and the output, or puts  *)
(* a view in the cache before the first row.                                *)
LEMMA CacheServes ==
  ASSUME OpsInv, LookupInv, Lookup, op' = op, Views \subseteq Views',
         in = << >>, out = << >>, UNCHANGED <<in, out>>,
         NEW v \in Views, phase' = "loop" => snap' = Cached(v),
         phase' \in {"new", "refused", "ready", "loading", "loop"} => rc' = "ok"
  PROVE  LookupInv'
<1>1. in \in Seq(op.rows) BY DEF LookupInv
<1>2. RawRows(in) = << >>
  <2>1. RawRows(in) \in Seq(RawSet) /\ Len(RawRows(in)) = 0 BY <1>1, RawRowsAre
  <2> QED BY <2>1
<1>3. AnsweredBy(v, RawRows(in), out)' = AnsweredBy(v, RawRows(in), out)
  BY DEF AnsweredBy, GivenTo, Given, Stays, Candidates, RawRows, RawRow
<1>4. SubSeq(RawRows(in), 1, 0)' = RawRows(in)'
  <2>1. RawRows(in)' = << >> BY <1>2 DEF RawRows, RawRow
  <2>2. SubSeq(<< >>, 1, 0) = << >> BY SubSeqEmpty
  <2> QED BY <2>1, <2>2
<1>5. AnsweredBy(v, SubSeq(RawRows(in), 1, 0), out)'
  <2>1. AnsweredBy(v, RawRows(in), out) BY <1>2, NothingIsAnswered
  <2> QED BY <1>3, <1>4, <2>1
<1>6. Cached(v)' = Cached(v) BY DEF Cached, UsedCols
<1>7. Serves(v, 0)' BY <1>5, <1>6 DEF Serves
<1>8. 0 \in 0 .. Len(in)' /\ v \in Views' OBVIOUS
<1> QED BY <1>1, <1>7, <1>8 DEF LookupInv

LEMMA LookupResolveKeeps ==
  ASSUME OpsInv, ScanInv, LookupInv, [Next]_vars, PgLookupResolve \/ MsLookupResolve \/ MsLookupFetch
  PROVE  LookupInv'
<1>0. op' = op /\ Views \subseteq Views' BY OpStays, ViewsGrow
<1>1. /\ Lookup /\ phase \in {"ready", "loading"} /\ UNCHANGED <<in, out>>
      /\ \/ phase' = "stopped"
         \/ phase' = "loading" /\ UNCHANGED rc
         \/ phase = "ready" /\ phase' = "loop" /\ snap' = Cached(Current) /\ UNCHANGED rc
         \/ op.kind = "ms_lookup" /\ phase = "loading" /\ phase' = "loop" /\ snap' = Cached(snap) /\ UNCHANGED rc
  BY DEF PgLookupResolve, MsLookupResolve, MsLookupFetch, Lookup, Stop, Loop
<1>2. in = << >> /\ out = << >> /\ rc = "ok" BY <1>1 DEF LookupInv
<1>3. PICK v \in Views : v = Current BY CurrentIsView
<1>4. CASE phase' = "stopped"
  <2>1. ~(phase' = "loop") /\ ~(phase' \in {"new", "refused", "ready", "loading", "loop"}) BY <1>4
  <2> QED BY <1>0, <1>1, <1>2, <1>3, <2>1, CacheServes
<1>5. CASE phase' = "loading" /\ UNCHANGED rc
  <2>1. ~(phase' = "loop") /\ rc' = "ok" BY <1>2, <1>5
  <2> QED BY <1>0, <1>1, <1>2, <1>3, <2>1, CacheServes
<1>6. CASE phase = "ready" /\ phase' = "loop" /\ snap' = Cached(Current) /\ UNCHANGED rc
  <2>1. snap' = Cached(v) /\ rc' = "ok" BY <1>2, <1>3, <1>6
  <2> QED BY <1>0, <1>1, <1>2, <2>1, CacheServes
<1>7. CASE op.kind = "ms_lookup" /\ phase = "loading" /\ phase' = "loop" /\ snap' = Cached(snap) /\ UNCHANGED rc
  <2>1. Streaming /\ op.kind \notin {"pg_read", "pg_lookup"} BY <1>7 DEF Streaming
  <2>2. PICK n \in Nat : \E at \in [1 .. n + 1 -> DOMAIN versions] : IsScan(at, n) /\ snap = Scanned(at, n)
    BY <2>1 DEF ScanInv
  <2>3. snap \in Views BY <2>1, <2>2, ScannedIsView
  <2>4. PICK w \in Views : w = snap BY <2>3
  <2>5. snap' = Cached(w) /\ rc' = "ok" BY <1>2, <1>7, <2>4
  <2> QED BY <1>0, <1>1, <1>2, <2>5, CacheServes
<1> QED BY <1>1, <1>4, <1>5, <1>6, <1>7

LEMMA LookupGetNextKeeps ==
  ASSUME OpsInv, LookupInv, [Next]_vars, PgLookupGetNext \/ MsLookupGetNext
  PROVE  LookupInv'
<1>0. op' = op /\ Views \subseteq Views' BY OpStays, ViewsGrow
<1>1. /\ Lookup /\ phase = "loop" /\ UNCHANGED <<versions, snap>>
      /\ \/ UNCHANGED <<in, out>> /\ phase' = "stopped"
         \/ \E batch \in Batches \ {<< >>} :
              /\ in' = in \o batch
              /\ \/ rc' = "io" /\ phase' = "stopped" /\ UNCHANGED out
                 \/ /\ ~ RefusesOne(RawRows(batch), snap)
                    /\ out' = out \o LookupRows(RawRows(batch), snap) /\ Loop
  BY DEF PgLookupGetNext, MsLookupGetNext, LookupGetNext, Lookup, Stop
<1>2. rc = "ok" /\ in \in Seq(op.rows) BY <1>1 DEF LookupInv
<1>3. CASE UNCHANGED <<in, out>> /\ phase' = "stopped"
  <2>1. /\ ~(phase' = "loop") /\ ~(phase' \in {"new", "refused", "ready", "loading"}) BY <1>3
  <2> QED BY <1>2, <1>3, <2>1, ServedStays
<1>4. CASE ~(UNCHANGED <<in, out>> /\ phase' = "stopped")
  <2>1. PICK batch \in Batches \ {<< >>} :
              /\ in' = in \o batch
              /\ \/ rc' = "io" /\ phase' = "stopped" /\ UNCHANGED out
                 \/ /\ ~ RefusesOne(RawRows(batch), snap)
                    /\ out' = out \o LookupRows(RawRows(batch), snap) /\ Loop
    BY <1>1, <1>4
  <2>2. batch \in Seq(op.rows) BY SourceAssumption DEF Batches
  <2>3. PICK S : S = op.rows OBVIOUS
  <2>4. PICK one \in Seq(S) : one = in /\ in \in Seq(S) BY <1>2, <2>3
  <2>5. PICK all \in Seq(S) : all = Concat(one, batch) /\ in' = all
    BY <2>1, <2>2, <2>3, <2>4, ConcatIsSeq DEF Concat
  <2>6. PICK v \in Views, n \in 0 .. Len(in) : Serves(v, n) BY <1>1 DEF LookupInv
  <2>7. n = Len(in) /\ snap = Cached(v) /\ IsTable(v, op.types)
    BY <1>1, <1>2, <2>6, ViewIsTable DEF Serves
  <2>8. /\ RawRows(in) \in Seq(RawSet) /\ Len(RawRows(in)) = n
        /\ RawRows(batch) \in Seq(RawSet)
        /\ RawRows(all) \in Seq(RawSet) /\ Len(RawRows(all)) = Len(all)
    BY <1>2, <2>2, <2>3, <2>5, <2>7, RawRowsAre
  <2>9. RawRows(all) = Concat(RawRows(in), RawRows(batch)) BY <1>2, <2>2, <2>4, <2>5, RawRowsJoin
  <2>10. AnsweredBy(v, RawRows(in), out)
    <3>1. SubSeq(RawRows(in), 1, n) = RawRows(in) BY <2>8, SubSeqFull
    <3> QED BY <2>6, <3>1 DEF Serves
  <2>11. RawRows(in)' = RawRows(all) BY <1>0, <2>5 DEF RawRows, RawRow
  <2>12. n \in 0 .. Len(all) /\ Len(in)' = Len(all)
    <3>1. Len(Concat(one, batch)) = Len(one) + Len(batch) BY <2>2, <2>3, ConcatIs DEF Chained
    <3> QED BY <2>2, <2>4, <2>5, <2>7, <3>1
  <2>13. in' \in Seq(op.rows)' BY <1>0, <2>3, <2>5
  <2>14. CASE rc' = "io" /\ phase' = "stopped" /\ UNCHANGED out
    <3>1. SubSeq(RawRows(all), 1, n) = RawRows(in)
      <4>1. n \in Nat BY <1>2, <2>7
      <4>2. SubSeq(Concat(RawRows(in), RawRows(batch)), 1, n) = RawRows(in) BY <2>8, <4>1, ConcatHead
      <4> QED BY <2>9, <4>2
    <3>2. PICK rows, o : rows = RawRows(in) /\ o = out OBVIOUS
    <3>3. AnsweredBy(v, rows, o)' BY <1>0, <2>10, <3>2, AnsweredStays
    <3>4. SubSeq(RawRows(in), 1, n)' = rows /\ out' = o BY <2>11, <2>14, <3>1, <3>2
    <3>5. AnsweredBy(v, SubSeq(RawRows(in), 1, n), out)' BY <3>3, <3>4
    <3>6. Serves(v, n)' BY <2>14, <3>5 DEF Serves
    <3> QED BY <1>0, <1>1, <2>12, <2>13, <2>14, <3>6 DEF LookupInv
  <2>15. CASE ~ RefusesOne(RawRows(batch), snap) /\ out' = out \o LookupRows(RawRows(batch), snap) /\ Loop
    <3>0. PICK p : p = LookupRows(RawRows(batch), snap) OBVIOUS
    <3>1. PICK more \in Seq(RawSet) : more = RawRows(batch) /\ p = LookupRows(more, snap) BY <2>8, <3>0
    <3>2. AnsweredBy(v, more, p) BY <2>7, <2>15, <3>1, BatchIsAnswered
    <3>before. PICK before \in Seq(RawSet) : before = RawRows(in) BY <2>8
    <3>3. PICK o : o = out OBVIOUS
    <3>4. AnsweredBy(v, Concat(before, more), Concat(o, p)) BY <2>10, <3>2, <3>before, <3>3, AnswersJoin
    <3>5. PICK after : after = Concat(o, p) /\ out' = after BY <2>15, <3>1, <3>3 DEF Concat
    <3>m. PICK m \in Nat : m = Len(all) BY LenProperties
    <3>6. PICK rows \in Seq(RawSet) : rows = RawRows(all) /\ m = Len(all) /\ Len(rows) = m
      BY <2>8, <3>m
    <3>7. rows = Concat(before, more) BY <2>9, <3>1, <3>before, <3>6
    <3>8. SubSeq(rows, 1, m) = rows BY <3>6, SubSeqFull
    <3>9. AnsweredBy(v, rows, after)' BY <1>0, <3>4, <3>5, <3>7, AnsweredStays
    <3>10. SubSeq(RawRows(in), 1, m)' = rows BY <2>11, <3>6, <3>8
    <3>11. AnsweredBy(v, SubSeq(RawRows(in), 1, m), out)' BY <3>5, <3>9, <3>10
    <3>12. Cached(v)' = Cached(v) BY <1>0 DEF Cached, UsedCols
    <3>13. Serves(v, m)' BY <1>1, <2>7, <2>12, <3>6, <3>11, <3>12 DEF Serves
    <3>14. m \in 0 .. Len(in)' BY <2>12, <3>6
    <3>15. phase' = "loop" /\ rc' = "ok" BY <1>1, <1>2, <2>15 DEF Loop
    <3> QED BY <1>0, <1>1, <2>13, <3>13, <3>14, <3>15 DEF LookupInv
  <2> QED BY <2>1, <2>14, <2>15
<1> QED BY <1>3, <1>4

LEMMA LookupKeeps == OpsInv /\ ScanInv /\ LookupInv /\ [Next]_vars => LookupInv'
<1> SUFFICES ASSUME OpsInv, ScanInv, LookupInv, [Next]_vars PROVE LookupInv' OBVIOUS
<1>0. op' = op BY OpStays
<1>1. CASE ~Lookup BY <1>0, <1>1 DEF LookupInv, Lookup
<1>2. CASE Lookup
  <2>1. CASE InitComponent
    <3>1. /\ UNCHANGED <<rc, in, out>> /\ phase = "new" /\ phase' \in {"ready", "refused"}
      BY <2>1 DEF InitComponent
    <3>2. ~(phase' = "loop") BY <3>1
    <3> QED BY <3>1, <3>2, ServedStays
  <2>2. CASE PgLookupResolve \/ MsLookupResolve \/ MsLookupFetch BY <2>2, LookupResolveKeeps
  <2>3. CASE PgLookupGetNext \/ MsLookupGetNext BY <2>3, LookupGetNextKeeps
  <2>4. CASE LookupDestroy
    <3>1. UNCHANGED <<rc, in, out>> /\ phase' = "gone" BY <2>4 DEF LookupDestroy, Done
    <3>2. ~(phase' = "loop") /\ ~(phase' \in {"new", "refused", "ready", "loading"}) BY <3>1
    <3> QED BY <3>1, <3>2, ServedStays
  <2>5. CASE Commit \/ Cancel \/ Over \/ UNCHANGED vars
    <3>1. UNCHANGED <<rc, in, out, phase, snap>> BY <2>5 DEF Commit, Cancel, Over, vars
    <3> QED BY <3>1, ServedStays
  <2>7. CASE MsScan
    <3>1. UNCHANGED <<rc, in, out, phase>> /\ op.kind \in {"ms_read", "ms_lookup"} /\ phase' # "loop"
      BY <1>2, <2>7 DEF MsScan, Lookup
    <3> QED BY <3>1, ServedStays
  <2>6. CASE \/ PgResolve \/ MsResolve \/ PgGetNext \/ MsFetch \/ MsGetNext \/ Execute
             \/ PgReadDestroy \/ MsReadDestroy \/ ExecuteDestroy
    BY <1>2, <2>6
    DEF Lookup, PgResolve, MsResolve, PgGetNext, MsFetch, MsGetNext, Ended, Execute, PgReadDestroy,
        MsReadDestroy, ExecuteDestroy
  <2> QED BY <2>1, <2>2, <2>3, <2>4, <2>5, <2>6, <2>7 DEF Next
<1> QED BY <1>1, <1>2

LEMMA LookupsServe == Spec => []LookupInv
<1>1. IInv => OpsInv /\ ScanInv BY DEF IInv
<1> QED BY <1>1, LookupStarts, LookupKeeps, Inductive, PTL DEF Spec

------------------------------------------------------------------------------
(* The theorems                                                             *)

(* postgres.read delivers the rows of one committed version, mssql.read     *)
(* those of one scan that goes on to later versions as they are committed;  *)
(* each in their order, each value whole, and to an end without an error    *)
(* only after the last of them.                                             *)
THEOREM ReadersSeeOneView == Spec => []ReadsOneView
<1>1. IInv => ReadsOneView
  <2> SUFFICES ASSUME IInv, Reads, out # << >> \/ (eof /\ phase = "stopped")
               PROVE  \E v \in Views :
                        LET promised == [r \in DOMAIN v |->
                                           [i \in DOMAIN op.types |-> Promised(op.types[i], v[r][i])]]
                        IN  /\ IsPrefix(out, promised)
                            /\ (phase = "stopped" /\ rc = "ok") => out = promised
    BY DEF ReadsOneView
  <2>1. phase \notin {"new", "refused"} BY DEF IInv, ReaderInv, FreshInv
  <2>2. /\ snap \in Views
        /\ Len(out) \in 0 .. Len(snap) /\ out = Stretch(Wanted, 0, Len(out))
    BY <2>1 DEF IInv, ReaderInv, SnapInv, DeliveredInv
  <2>3. Wanted \in Seq(ToSet(Wanted)) /\ Len(Wanted) = Len(snap)
    BY <2>1, SnapIsTable, WantedRows DEF IInv, ReaderInv
  <2>4. IsPrefix(out, Wanted) /\ (Len(out) = Len(Wanted) => out = Wanted)
    BY <2>2, <2>3, StretchIsPrefix
  <2>5. phase = "stopped" /\ rc = "ok" => out = Wanted
    BY <2>3, <2>4 DEF IInv, ReaderInv, EndInv
  <2> QED BY <2>2, <2>4, <2>5 DEF Wanted
<1> QED BY <1>1, Inductive, PTL

(* Every row a lookup delivers carries what its keys select from one and    *)
(* the same view of the table; a row with two candidates is never delivered, *)
(* and a row without one is dropped, given nulls or refused as `on_miss'     *)
(* says, however the input is cut into batches.                              *)
THEOREM LookupsUseOneView == Spec => []LooksUpOneView
<1>1. LookupInv => LooksUpOneView
  <2> SUFFICES ASSUME LookupInv, Lookup PROVE LooksUpOneView BY DEF LooksUpOneView, Lookup
  <2>1. PICK v \in Views, n \in 0 .. Len(in) : Serves(v, n) BY DEF LookupInv
  <2>2. AnsweredBy(v, SubSeq(RawRows(in), 1, n), out) /\ (rc = "ok" => n = Len(in))
    BY <2>1 DEF Serves
  <2> QED BY <2>1, <2>2 DEF LooksUpOneView, AnsweredBy, GivenTo
<1> QED BY <1>1, LookupsServe, PTL

(* sql.execute on PostgreSQL applies its whole script or none of it, and    *)
(* success means all of it.                                                 *)
THEOREM ScriptsAreAtomic == Spec => []ScriptIsAtomic
<1>1. IInv => ScriptIsAtomic BY DEF IInv, ExecuteInv, ScriptIsAtomic
<1> QED BY <1>1, Inductive, PTL
==============================================================================
