--------------------------- MODULE Multicast_proofs ---------------------------
(***************************************************************************)
(* The two transforms with several outputs.                                *)
(*                                                                         *)
(* Part 1: the routing of conditional_split, for any number of cases,      *)
(* rows, batch sizes and orders of the pulls, and any answers of the       *)
(* predicates: every row in its order to the port of its first match.      *)
(*                                                                         *)
(* Part 2: the shared batches of the multicast, for any number of taps,    *)
(* ring sizes and batches: counted exactly, released once and by the last  *)
(* reference, delivered to every tap in order.                             *)
(*                                                                         *)
(* Hypothesis of part 2: only the consumer of the sink driven last may     *)
(* stop before its stream ends (OnlyLastStopsEarly).  Without it two       *)
(* producer threads meet in the component, which has no lock.              *)
(***************************************************************************)
EXTENDS Multicast, ConditionalSplit, DataLemmas, FunctionTheorems

------------------------------------------------------------------------------
(* Part 1: conditional_split                                                *)

------------------------------------------------------------------------------
(* Where a row goes                                                         *)

\* A row is for case c when c is its first true case.
FirstMatch(c, r) == pred[c][r] = "yes" /\ \A d \in 1 .. c - 1 : pred[d][r] # "yes"

LEMMA HomeIsFirstMatch ==
  ASSUME NEW r, NEW c \in Cases
  PROVE  Home(r) = c <=> FirstMatch(c, r)
<1>0. NCases \in Nat \ {0} BY NCasesAssumption
<1>1. CASE \E d \in Cases : pred[d][r] = "yes"
  <2> DEFINE Yes == {d \in Cases : pred[d][r] = "yes"}
  <2>1. Yes \in SUBSET Nat /\ Yes # {} BY <1>0, <1>1 DEF Cases
  <2>2. PICK least \in Yes : \A d \in Yes : least <= d
    <3> HIDE DEF Yes
    <3> QED BY <2>1, LeastElement
  <2>3. least \in Cases /\ FirstMatch(least, r)
    <3>1. ASSUME NEW d \in 1 .. least - 1 PROVE pred[d][r] # "yes"
      <4>1. d \in Cases /\ ~(least <= d) BY <1>0, <2>2 DEF Cases
      <4> QED BY <2>2, <4>1
    <3> QED BY <2>2, <3>1 DEF FirstMatch
  <2>4. \A d \in Cases : FirstMatch(d, r) => d = least
    <3> SUFFICES ASSUME NEW d \in Cases, FirstMatch(d, r) PROVE d = least OBVIOUS
    <3>1. d \in Yes /\ least <= d BY <2>2 DEF FirstMatch
    <3>2. ~(least < d)
      <4>1. least < d => least \in 1 .. d - 1 BY <1>0, <2>3 DEF Cases
      <4> QED BY <2>3, <4>1 DEF FirstMatch
    <3> QED BY <1>0, <2>3, <3>1, <3>2 DEF Cases
  <2>5. Home(r) = CHOOSE d \in Cases : FirstMatch(d, r) BY <1>1 DEF Home, FirstMatch
  <2>6. Home(r) \in Cases /\ FirstMatch(Home(r), r) BY <2>3, <2>5
  <2> QED BY <2>4, <2>6
<1>2. CASE ~ \E d \in Cases : pred[d][r] = "yes"
  <2>1. Home(r) \notin Cases BY <1>0, <1>2 DEF Home, Cases
  <2>2. ~ FirstMatch(c, r) BY <1>2 DEF FirstMatch
  <2> QED BY <2>1, <2>2
<1> QED BY <1>1, <1>2

LEMMA HomeIsDefault ==
  ASSUME NEW r, HasDefault
  PROVE  Home(r) = NCases + 1 <=> \A c \in Cases : pred[c][r] # "yes"
<1>0. NCases \in Nat \ {0} BY NCasesAssumption
<1>1. CASE \E d \in Cases : pred[d][r] = "yes"
  <2>1. PICK d \in Cases : pred[d][r] = "yes" BY <1>1
  <2>2. Home(r) # NCases + 1
    <3> SUFFICES ASSUME Home(r) = NCases + 1 PROVE FALSE OBVIOUS
    <3>1. NCases + 1 \notin Cases BY <1>0 DEF Cases
    <3> DEFINE Yes == {e \in Cases : pred[e][r] = "yes"}
    <3>2. PICK least \in Yes : \A e \in Yes : least <= e
      <4>1. Yes \in SUBSET Nat /\ Yes # {} BY <1>0, <2>1 DEF Cases
      <4> HIDE DEF Yes
      <4> QED BY <4>1, LeastElement
    <3>3. FirstMatch(least, r)
      <4>1. ASSUME NEW e \in 1 .. least - 1 PROVE pred[e][r] # "yes"
        <5>1. e \in Cases /\ ~(least <= e) BY <1>0, <3>2 DEF Cases
        <5> QED BY <3>2, <5>1
      <4> QED BY <3>2, <4>1 DEF FirstMatch
    <3>4. Home(r) = least BY <3>2, <3>3, HomeIsFirstMatch
    <3> QED BY <3>1, <3>2, <3>4
  <2> QED BY <2>1, <2>2
<1>2. CASE ~ \E d \in Cases : pred[d][r] = "yes" BY <1>2 DEF Home
<1> QED BY <1>1, <1>2

(* The first i cases take the rows that match one of them.                  *)
LEMMA TakenIs ==
  ASSUME NEW rows
  PROVE  \A i \in 0 .. NCases : Taken(rows)[i] = {r \in rows : \E c \in 1 .. i : Matches(c, r)}
<1>0. NCases \in Nat BY NCasesAssumption
<1> DEFINE Body(f, i) == IF i = 0 THEN {}
                         ELSE f[i - 1] \cup {r \in Unclaimed(rows, f[i - 1]) : Matches(i, r)}
           Solves(f) == f = [i \in 0 .. NCases |-> Body(f, i)]
           t == CHOOSE f : Solves(f)
           Upto(i) == {r \in rows : \E c \in 1 .. i : Matches(c, r)}
<1>1. \A i \in 0 .. NCases : i # 0 =>
         Upto(i) = Upto(i - 1) \cup {r \in Unclaimed(rows, Upto(i - 1)) : Matches(i, r)}
  <2> SUFFICES ASSUME NEW i \in 0 .. NCases, i # 0
               PROVE  Upto(i) = Upto(i - 1) \cup {r \in Unclaimed(rows, Upto(i - 1)) : Matches(i, r)}
    OBVIOUS
  <2>1. \A c : c \in 1 .. i <=> c = i \/ c \in 1 .. i - 1 BY <1>0
  <2> QED BY <2>1 DEF Unclaimed
<1>2. Upto(0) = {} OBVIOUS
<1>3. \E f : Solves(f)
  <2> DEFINE f == [i \in 0 .. NCases |-> Upto(i)]
  <2>1. ASSUME NEW i \in 0 .. NCases PROVE f[i] = Body(f, i)
    <3>1. f[i] = Upto(i) OBVIOUS
    <3>2. i # 0 => f[i - 1] = Upto(i - 1)
      <4>1. i # 0 => i - 1 \in 0 .. NCases BY <1>0
      <4> QED BY <4>1
    <3> HIDE DEF Upto, f
    <3> QED BY <1>1, <1>2, <3>1, <3>2
  <2>2. f = [i \in 0 .. NCases |-> f[i]] OBVIOUS
  <2> HIDE DEF f, Body
  <2>3. Solves(f) BY <2>1, <2>2
  <2> QED BY <2>3
<1>4. Solves(t)
  <2> HIDE DEF Solves
  <2> QED BY <1>3
<1>5. \A i \in 0 .. NCases : t[i] = Body(t, i)
  <2> HIDE DEF t, Body
  <2> QED BY <1>4
<1> HIDE DEF t
<1> DEFINE P == {i \in 0 .. NCases : t[i] = Upto(i)}
<1>6. 0 \in P
  <2>1. 0 \in 0 .. NCases BY <1>0
  <2> QED BY <1>2, <1>5, <2>1
<1>7. ASSUME NEW i \in 0 .. NCases, i # NCases, i \in P PROVE i + 1 \in P
  <2>1. i + 1 \in 0 .. NCases /\ i + 1 # 0 /\ (i + 1) - 1 = i BY <1>0, <1>7
  <2>2. t[i + 1] = t[i] \cup {r \in Unclaimed(rows, t[i]) : Matches(i + 1, r)} BY <1>5, <2>1
  <2>3. Upto(i + 1) = Upto(i) \cup {r \in Unclaimed(rows, Upto(i)) : Matches(i + 1, r)}
    <3> HIDE DEF Upto
    <3> QED BY <1>1, <2>1
  <2>4. t[i] = Upto(i) BY <1>7
  <2> HIDE DEF Upto
  <2> QED BY <2>1, <2>2, <2>3, <2>4
<1>8. \A i \in 0 .. NCases : i \in P
  <2> HIDE DEF P
  <2> QED BY <1>0, <1>6, <1>7, Induction
<1>9. Taken(rows) = t BY DEF Taken, t
<1> QED BY <1>8, <1>9

(* A port keeps of a batch the rows that are at home there.                 *)
LEMMA KeepIs ==
  ASSUME NEW rows, NEW p \in Ports
  PROVE  Keep(rows)[p] = {r \in rows : Home(r) = p}
<1>0. NCases \in Nat \ {0} BY NCasesAssumption
<1>1. CASE p \in Cases
  <2>1. p - 1 \in 0 .. NCases BY <1>0, <1>1 DEF Cases
  <2>2. Keep(rows)[p] = {r \in rows : r \notin Taken(rows)[p - 1] /\ Matches(p, r)}
    BY <1>1 DEF Keep, Unclaimed
  <2>3. \A r \in rows : r \notin Taken(rows)[p - 1] <=> \A c \in 1 .. p - 1 : pred[c][r] # "yes"
    BY <2>1, TakenIs DEF Matches
  <2>4. \A r : Home(r) = p <=> FirstMatch(p, r) BY <1>1, HomeIsFirstMatch
  <2> QED BY <2>2, <2>3, <2>4 DEF FirstMatch, Matches
<1>2. CASE p \notin Cases
  <2>1. HasDefault /\ p = NCases + 1 BY <1>0, <1>2 DEF Ports, Cases
  <2>2. Keep(rows)[p] = rows \ Taken(rows)[NCases] BY <1>2 DEF Keep
  <2>3. \A r \in rows : r \notin Taken(rows)[NCases] <=> \A c \in Cases : pred[c][r] # "yes"
    <3>1. NCases \in 0 .. NCases BY <1>0
    <3> QED BY <3>1, TakenIs DEF Matches, Cases
  <2>4. \A r : Home(r) = p <=> \A c \in Cases : pred[c][r] # "yes" BY <2>1, HomeIsDefault
  <2> QED BY <2>2, <2>3, <2>4
<1> QED BY <1>1, <1>2
------------------------------------------------------------------------------
(* The rows of the input                                                    *)

\* k rows after the n-th.
From(n, k) == [i \in 1 .. k |-> n + i]

LEMMA FromIsSeq ==
  ASSUME NEW n \in Nat, NEW k \in Nat, n + k <= NRows
  PROVE  /\ From(n, k) \in Seq(Rows) /\ Len(From(n, k)) = k
         /\ \A i \in 1 .. k : From(n, k)[i] = n + i
<1>0. NRows \in Nat BY NRowsAssumption
<1>1. \A i \in 1 .. k : n + i \in Rows BY <1>0 DEF Rows
<1>2. From(n, k) \in [1 .. k -> Rows] BY <1>1 DEF From
<1> QED BY <1>2 DEF From

LEMMA UpToIsFrom == ASSUME NEW n \in Nat PROVE UpTo(n) = From(0, n)
BY DEF UpTo, From

\* What is first read up to n and then k more.
LEMMA FromAfter ==
  ASSUME NEW n \in Nat, NEW k \in Nat, n + k <= NRows
  PROVE  UpTo(n + k) = Concat(UpTo(n), From(n, k))
<1>0. NRows \in Nat BY NRowsAssumption
<1>1. PICK a \in Seq(Rows) : a = UpTo(n) /\ Len(a) = n /\ \A i \in 1 .. n : a[i] = i
  <2>1. 0 + n <= NRows /\ n \in Nat /\ 0 \in Nat BY <1>0
  <2>2. From(0, n) \in Seq(Rows) /\ Len(From(0, n)) = n /\ \A i \in 1 .. n : From(0, n)[i] = 0 + i
    BY <2>1, FromIsSeq
  <2> QED BY <2>2, UpToIsFrom
<1>2. PICK b \in Seq(Rows) : b = From(n, k) /\ Len(b) = k /\ \A i \in 1 .. k : b[i] = n + i
  BY FromIsSeq
<1>3. PICK c \in Seq(Rows) : c = UpTo(n + k) /\ Len(c) = n + k /\ \A i \in 1 .. n + k : c[i] = i
  <2>1. PICK m \in Nat : m = n + k OBVIOUS
  <2>2. 0 + m <= NRows /\ 0 \in Nat BY <1>0, <2>1
  <2>3. From(0, m) \in Seq(Rows) /\ Len(From(0, m)) = m /\ \A i \in 1 .. m : From(0, m)[i] = 0 + i
    BY <2>2, FromIsSeq
  <2> QED BY <2>1, <2>3, UpToIsFrom
<1>4. \A i \in 1 .. n : c[i] = a[i] BY <1>1, <1>3
<1>5. \A i \in 1 .. k : c[n + i] = b[i]
  <2>1. \A i \in 1 .. k : n + i \in 1 .. n + k OBVIOUS
  <2> QED BY <1>2, <1>3, <2>1
<1>6. Chained(c, a, b, n, k) BY <1>3, <1>4, <1>5 DEF Chained
<1>7. c = Concat(a, b) BY <1>1, <1>2, <1>6, IsConcat
<1> QED BY <1>1, <1>2, <1>3, <1>7

\* The rows of port p among the first n, and among k rows after the n-th.
Due(p, n) == Kept(UpTo(n), Belonging(p))
Added(p, n, k) == Kept(From(n, k), Belonging(p))

LEMMA DueGrows ==
  ASSUME NEW p, NEW n \in Nat, NEW k \in Nat, n + k <= NRows
  PROVE  Due(p, n + k) = Concat(Due(p, n), Added(p, n, k))
<1>0. NRows \in Nat BY NRowsAssumption
<1>1. PICK a \in Seq(Rows) : a = UpTo(n)
  <2>1. 0 + n <= NRows /\ 0 \in Nat BY <1>0
  <2>2. From(0, n) \in Seq(Rows) BY <2>1, FromIsSeq
  <2> QED BY <2>2, UpToIsFrom
<1>2. PICK b \in Seq(Rows) : b = From(n, k) BY FromIsSeq
<1>3. UpTo(n + k) = a \o b BY <1>1, <1>2, FromAfter DEF Concat
<1>4. Kept(a \o b, Belonging(p)) = Kept(a, Belonging(p)) \o Kept(b, Belonging(p))
  BY KeptOfConcat
<1> QED BY <1>1, <1>2, <1>3, <1>4 DEF Due, Added, Concat

LEMMA DueIsSeq ==
  ASSUME NEW p, NEW n \in 0 .. NRows
  PROVE  Due(p, n) \in Seq(Rows)
<1>0. NRows \in Nat BY NRowsAssumption
<1>1. n \in Nat /\ 0 \in Nat /\ 0 + n <= NRows BY <1>0
<1>2. UpTo(n) \in Seq(Rows) BY <1>1, FromIsSeq, UpToIsFrom
<1> QED BY <1>2, KeptIsSeq DEF Due

LEMMA AddedIsSeq ==
  ASSUME NEW p, NEW n \in Nat, NEW k \in Nat, n + k <= NRows
  PROVE  Added(p, n, k) \in Seq(Rows)
BY FromIsSeq, KeptIsSeq DEF Added

LEMMA DueIsPrefix ==
  ASSUME NEW p, NEW n \in 0 .. NRows
  PROVE  IsPrefix(Due(p, n), Due(p, NRows))
<1>0. NRows \in Nat BY NRowsAssumption
<1>1. PICK k \in Nat : n + k = NRows /\ n \in Nat
  <2>1. NRows - n \in Nat /\ n + (NRows - n) = NRows BY <1>0
  <2> QED BY <2>1
<1>2. n + k <= NRows BY <1>0, <1>1
<1>3. Due(p, n + k) = Concat(Due(p, n), Added(p, n, k)) BY <1>1, <1>2, DueGrows
<1>4. Due(p, n) \in Seq(Rows) /\ Added(p, n, k) \in Seq(Rows)
  BY <1>1, <1>2, DueIsSeq, AddedIsSeq
<1>5. IsPrefix(Due(p, n), Concat(Due(p, n), Added(p, n, k))) BY <1>4, ConcatIsLonger
<1> QED BY <1>1, <1>3, <1>5

------------------------------------------------------------------------------
(* What one step does to a port's rows                                      *)

\* What a slice holds, and a queue of slices.
Slice == Seq(Rows) \ {<<>>}

\* The queue q after a batch of which x is kept.
Pushed(q, x) == IF x = <<>> THEN q ELSE Append(q, x)

LEMMA PushedIsSeq ==
  ASSUME NEW q \in Seq(Slice), NEW x \in Seq(Rows)
  PROVE  Pushed(q, x) \in Seq(Slice)
BY DEF Pushed, Slice

LEMMA QueuesAreFlat ==
  ASSUME NEW o \in Seq(Slice), NEW q \in Seq(Slice)
  PROVE  o \o q \in Seq(Seq(Rows))
<1>1. o \in Seq(Seq(Rows)) /\ q \in Seq(Seq(Rows))
  <2>1. \A s \in Seq(Slice) : s \in Seq(Seq(Rows))
    <3> SUFFICES ASSUME NEW s \in Seq(Slice) PROVE s \in Seq(Seq(Rows)) OBVIOUS
    <3>1. Len(s) \in Nat /\ \A i \in 1 .. Len(s) : s[i] \in Seq(Rows) BY DEF Slice
    <3>2. s = [i \in 1 .. Len(s) |-> s[i]] OBVIOUS
    <3> QED BY <3>1, <3>2
  <2> QED BY <2>1
<1> QED BY <1>1

(* Queueing a slice adds its rows at the end of the port's.                 *)
LEMMA PushedRows ==
  ASSUME NEW o \in Seq(Slice), NEW q \in Seq(Slice), NEW x \in Seq(Rows)
  PROVE  FlattenSeq(o \o Pushed(q, x)) = Concat(FlattenSeq(o \o q), x)
<1>0. PICK all \in Seq(Seq(Rows)) : all = o \o q BY QueuesAreFlat
<1>1. PICK rows \in Seq(Rows) : rows = FlattenSeq(all) BY FlattenIsSeq
<1>2. CASE x = <<>>
  <2>1. Concat(rows, x) = rows BY <1>2 DEF Concat
  <2>2. Pushed(q, x) = q BY <1>2 DEF Pushed
  <2> QED BY <1>0, <1>1, <2>1, <2>2
<1>3. CASE x # <<>>
  <2>1. x \in Slice BY <1>3 DEF Slice
  <2>2. Append(Concat(o, q), x) = Concat(o, Append(q, x)) BY <2>1, AppendLater
  <2>3. o \o Pushed(q, x) = Append(all, x) BY <1>0, <1>3, <2>2 DEF Pushed, Concat
  <2>4. FlattenSeq(Append(all, x)) = Concat(FlattenSeq(all), x) BY FlattenOfAppend
  <2> QED BY <1>0, <2>3, <2>4
<1> QED BY <1>2, <1>3

(* Returning the first waiting slice leaves the port's rows as they were.   *)
LEMMA EmittedRows ==
  ASSUME NEW o \in Seq(Slice), NEW q \in Seq(Slice), q # <<>>
  PROVE  /\ Append(o, Head(q)) \in Seq(Slice) /\ Tail(q) \in Seq(Slice)
         /\ Append(o, Head(q)) \o Tail(q) = o \o q
<1>1. PICK n \in Nat : n = Len(q) /\ n > 0 OBVIOUS
<1>2. PICK e \in Slice : e = Head(q) /\ e = q[1] BY <1>1
<1>3. PICK t \in Seq(Slice) : t = Tail(q) /\ Len(t) = n - 1 /\ \A i \in 1 .. n - 1 : t[i] = q[i + 1]
  <2>1. Tail(q) \in Seq(Slice) /\ Len(Tail(q)) = n - 1 BY <1>1
  <2>2. \A i \in 1 .. n - 1 : Tail(q)[i] = q[i + 1] BY <1>1
  <2> QED BY <2>1, <2>2
<1>4. PICK m \in Nat : m = Len(o) OBVIOUS
<1>5. PICK a \in Seq(Slice) : /\ a = Append(o, e) /\ Len(a) = m + 1 /\ a[m + 1] = e
                              /\ \A i \in 1 .. m : a[i] = o[i]
  <2>1. Append(o, e) \in Seq(Slice) /\ Len(Append(o, e)) = m + 1 BY <1>4
  <2>2. Append(o, e)[m + 1] = e BY <1>4
  <2>3. \A i \in 1 .. m : Append(o, e)[i] = o[i] BY <1>4
  <2> QED BY <2>1, <2>2, <2>3
<1>6. PICK c \in Seq(Slice) : /\ c = a \o t /\ Len(c) = m + n
                              /\ \A i \in 1 .. m + 1 : c[i] = a[i]
                              /\ \A i \in 1 .. n - 1 : c[m + 1 + i] = t[i]
  <2>0. a \o t \in Seq(Slice) OBVIOUS
  <2>1. PICK w \in Seq(Slice) : w = a \o t BY <2>0
  <2>2. Len(w) = Len(a) + Len(t) BY <2>1
  <2>3. \A i \in 1 .. Len(a) : w[i] = a[i] BY <2>1
  <2>4. \A i \in 1 .. Len(t) : w[Len(a) + i] = t[i] BY <2>1
  <2>5. Len(w) = m + n BY <1>1, <1>3, <1>5, <2>2
  <2>6. \A i \in 1 .. n - 1 : w[m + 1 + i] = t[i] BY <1>3, <1>5, <2>4
  <2>7. \A i \in 1 .. m + 1 : w[i] = a[i] BY <1>5, <2>3
  <2> QED BY <2>1, <2>5, <2>6, <2>7
<1>7. PICK d \in Seq(Slice) : /\ d = o \o q /\ Len(d) = m + n
                              /\ \A i \in 1 .. m : d[i] = o[i]
                              /\ \A i \in 1 .. n : d[m + i] = q[i]
  <2>1. o \o q \in Seq(Slice) /\ Len(o \o q) = Len(o) + Len(q) OBVIOUS
  <2>2. \A i \in 1 .. Len(o) : (o \o q)[i] = o[i] OBVIOUS
  <2>3. \A i \in 1 .. Len(q) : (o \o q)[Len(o) + i] = q[i] OBVIOUS
  <2> QED BY <1>1, <1>4, <2>1, <2>2, <2>3
<1>8. ASSUME NEW i \in 1 .. m + n PROVE c[i] = d[i]
  <2>1. CASE i <= m
    <3>1. i \in 1 .. m /\ i \in 1 .. m + 1 BY <2>1
    <3> QED BY <1>5, <1>6, <1>7, <3>1
  <2>2. CASE i = m + 1
    <3>1. m + 1 \in 1 .. m + 1 /\ 1 \in 1 .. n BY <1>1
    <3>2. c[m + 1] = e /\ d[m + 1] = q[1] BY <1>5, <1>6, <1>7, <3>1
    <3> QED BY <1>2, <2>2, <3>2
  <2>3. CASE i > m + 1
    <3>1. PICK j \in 1 .. n - 1 : i = m + 1 + j
      <4>1. i - (m + 1) \in 1 .. n - 1 /\ i = m + 1 + (i - (m + 1)) BY <1>1, <2>3
      <4> QED BY <4>1
    <3>2. j + 1 \in 1 .. n /\ m + 1 + j = m + (j + 1) BY <1>1
    <3>3. c[m + 1 + j] = q[j + 1] BY <1>3, <1>6
    <3>4. d[m + (j + 1)] = q[j + 1] BY <1>7, <3>2
    <3> QED BY <3>1, <3>2, <3>3, <3>4
  <2> QED BY <2>1, <2>2, <2>3
<1>9. c = d BY <1>1, <1>6, <1>7, <1>8, SeqEqual
<1> QED BY <1>2, <1>3, <1>5, <1>6, <1>7, <1>9

(* PushSlices gives each port the rows of the batch that belong to it.      *)
LEMMA PushSlicesAdds ==
  ASSUME NEW k \in Nat, read \in Nat, read + k <= NRows, NEW p \in Ports
  PROVE  PushSlices(Batch(k), Keep(read + 1 .. read + k))[p]
           = Pushed(slices[p], Added(p, read, k))
<1> DEFINE rows == read + 1 .. read + k
           keep == Keep(rows)[p]
<1>0. NRows \in Nat BY NRowsAssumption
<1>1. keep = {r \in rows : Home(r) = p} BY KeepIs
<1>2. PICK b \in Seq(Rows) : b = From(read, k) /\ Len(b) = k /\ \A i \in 1 .. k : b[i] = read + i
  BY FromIsSeq
<1>3. \A i \in 1 .. k : read + i \in rows /\ read + i \in Rows BY <1>0 DEF Rows
<1>4. \A i \in 1 .. Len(b) : b[i] \in keep <=> b[i] \in Belonging(p)
  <2> HIDE DEF keep, rows
  <2> QED BY <1>1, <1>2, <1>3 DEF Belonging
<1>5. Kept(b, keep) = Added(p, read, k)
  <2>1. Kept(b, keep) = Kept(b, Belonging(p))
    <3> HIDE DEF keep
    <3> QED BY <1>4, KeptAgrees
  <2> QED BY <1>2, <2>1 DEF Added
<1>6. Kept(b, keep) = <<>> <=> keep = {}
  <2>1. Kept(b, keep) = <<>> <=> \A i \in 1 .. Len(b) : b[i] \notin keep
    <3> HIDE DEF keep
    <3> QED BY KeptIsEmpty
  <2>2. ASSUME NEW r \in keep PROVE \E i \in 1 .. Len(b) : b[i] \in keep
    <3>1. r \in rows BY <1>1
    <3>2. PICK i \in 1 .. k : r = read + i
      <4>1. r - read \in 1 .. k /\ r = read + (r - read) BY <3>1
      <4> QED BY <4>1
    <3>3. b[i] = r /\ i \in 1 .. Len(b) BY <1>2, <3>2
    <3> HIDE DEF keep
    <3> QED BY <2>2, <3>3
  <2> HIDE DEF keep
  <2> QED BY <2>1, <2>2
<1>7. PushSlices(Batch(k), Keep(rows))[p] = IF keep = {} THEN slices[p] ELSE Append(slices[p], Kept(b, keep))
  BY <1>2 DEF PushSlices, Batch, From
<1> HIDE DEF keep, rows
<1>8. PushSlices(Batch(k), Keep(rows))[p] = Pushed(slices[p], Added(p, read, k))
  BY <1>5, <1>6, <1>7 DEF Pushed
<1> QED BY <1>8 DEF rows

------------------------------------------------------------------------------
(* The inductive invariant                                                  *)

\* While nothing has failed, each port's rows are the ones due among those
\* read; after a failure, the ones due among the first n for some n of its own.
ReadIsRouted == failed = "no" => \A p \in Ports : PortRows(p) = Due(p, read)
SomeIsRouted == \A p \in Ports : \E n \in 0 .. NRows : PortRows(p) = Due(p, n)

\* A pull in progress has not failed; the end of the upstream is the end of the
\* rows; a port that has ended has nothing waiting.
PullsAreLive   == pulling # 0 => failed = "no"
EofIsTheEnd    == split_eof => read = NRows /\ failed = "no"
EndedAreDrained == \A p \in ports_ended : split_eof /\ slices[p] = <<>>

SplitIInv ==
  SplitTypeOK /\ ReadIsRouted /\ SomeIsRouted /\ PullsAreLive /\ EofIsTheEnd /\ EndedAreDrained

LEMMA SplitTypeIs == SplitTypeOK =>
  /\ read \in Nat /\ read \in 0 .. NRows
  /\ \A p \in Ports : slices[p] \in Seq(Slice) /\ out[p] \in Seq(Slice)
  /\ DOMAIN slices = Ports /\ DOMAIN out = Ports /\ 0 \notin Ports
BY NRowsAssumption, NCasesAssumption DEF SplitTypeOK, Slice, Ports

LEMMA SplitInitInv == SplitInit => SplitIInv
<1> SUFFICES ASSUME SplitInit PROVE SplitIInv OBVIOUS
<1>0. NRows \in Nat /\ 0 \in 0 .. NRows BY NRowsAssumption
<1>1. SplitTypeOK
  <2>1. [p \in Ports |-> <<>>] \in [Ports -> Seq(Seq(Rows) \ {<<>>})] OBVIOUS
  <2>2. slices \in [Ports -> Seq(Seq(Rows) \ {<<>>})] /\ out \in [Ports -> Seq(Seq(Rows) \ {<<>>})]
    BY <2>1 DEF SplitInit
  <2> QED BY <1>0, <2>2 DEF SplitInit, SplitTypeOK
<1>2. ASSUME NEW p \in Ports PROVE PortRows(p) = Due(p, 0)
  <2>1. FlattenSeq(<<>> \o <<>>) = <<>>
    <3>1. << >> \o << >> = << >> OBVIOUS
    <3> QED BY <3>1, FlattenOfEmpty
  <2>2. PortRows(p) = <<>> BY <2>1 DEF PortRows, SplitInit
  <2>3. From(0, 0) \in Seq(Rows) /\ Len(From(0, 0)) = 0 /\ UpTo(0) = From(0, 0)
    BY <1>0, FromIsSeq, UpToIsFrom
  <2>4. Kept(From(0, 0), Belonging(p)) = <<>> BY <2>3, KeptIsEmpty
  <2> QED BY <2>2, <2>3, <2>4 DEF Due
<1>3. ReadIsRouted /\ SomeIsRouted BY <1>0, <1>2 DEF ReadIsRouted, SomeIsRouted, SplitInit
<1>4. PullsAreLive /\ EofIsTheEnd /\ EndedAreDrained
  BY DEF PullsAreLive, EofIsTheEnd, EndedAreDrained, SplitInit
<1> QED BY <1>1, <1>3, <1>4 DEF SplitIInv

\* The rows due to a port depend on the predicates only.
LEMMA DueIsFixed ==
  ASSUME pred' = pred, NEW p, NEW n
  PROVE  Due(p, n)' = Due(p, n)
BY DEF Due, Belonging, Home

\* A step that leaves the rows where they are.
Unmoved == UNCHANGED <<pred, slices, out>>

LEMMA UnmovedRows ==
  ASSUME Unmoved, SomeIsRouted
  PROVE  SomeIsRouted' /\ \A p \in Ports : PortRows(p)' = PortRows(p)
<1>1. \A p \in Ports : PortRows(p)' = PortRows(p) BY DEF Unmoved, PortRows
<1>2. \A p \in Ports, n \in 0 .. NRows : Due(p, n)' = Due(p, n) BY DueIsFixed DEF Unmoved
<1> QED BY <1>1, <1>2 DEF SomeIsRouted

LEMMA UnmovedRouted ==
  ASSUME SplitIInv, Unmoved, read' = read, failed' = "no" => failed = "no"
  PROVE  ReadIsRouted' /\ SomeIsRouted'
<1>1. \A p \in Ports : PortRows(p)' = PortRows(p) BY UnmovedRows DEF SplitIInv
<1>2. \A p \in Ports : Due(p, read)' = Due(p, read)
  <2> SUFFICES ASSUME NEW p \in Ports PROVE Due(p, read)' = Due(p, read) OBVIOUS
  <2> QED BY DEF Due, Belonging, Home, UpTo, Unmoved
<1>3. SomeIsRouted' BY UnmovedRows DEF SplitIInv
<1> QED BY <1>1, <1>2, <1>3 DEF SplitIInv, ReadIsRouted

(* A port that gets its part of the next k rows has what is due among the   *)
(* rows read and those k.                                                   *)
LEMMA BatchRows ==
  ASSUME SplitIInv, failed = "no", NEW k \in Nat, read + k <= NRows, NEW p \in Ports,
         out' = out, slices'[p] = PushSlices(Batch(k), Keep(read + 1 .. read + k))[p]
  PROVE  PortRows(p)' = Due(p, read + k) /\ slices'[p] \in Seq(Slice)
<1>0. read \in Nat /\ slices[p] \in Seq(Slice) /\ out[p] \in Seq(Slice)
  BY SplitTypeIs DEF SplitIInv
<1>1. PICK x \in Seq(Rows) : x = Added(p, read, k) BY <1>0, AddedIsSeq
<1>2. slices'[p] = Pushed(slices[p], x) BY <1>0, <1>1, PushSlicesAdds
<1>3. PortRows(p) = Due(p, read) BY DEF SplitIInv, ReadIsRouted
<1>4. FlattenSeq(out[p] \o Pushed(slices[p], x)) = Concat(FlattenSeq(out[p] \o slices[p]), x)
  BY <1>0, PushedRows
<1>5. PortRows(p)' = Concat(PortRows(p), x) BY <1>2, <1>4 DEF PortRows
<1>6. Due(p, read + k) = Concat(Due(p, read), Added(p, read, k)) BY <1>0, DueGrows
<1>7. slices'[p] \in Seq(Slice) BY <1>0, <1>2, PushedIsSeq
<1> QED BY <1>1, <1>3, <1>5, <1>6, <1>7

LEMMA RouteBatchInv == SplitIInv /\ RouteBatch => SplitIInv'
<1> SUFFICES ASSUME SplitIInv, RouteBatch PROVE SplitIInv' OBVIOUS
<1>0. NRows \in Nat /\ BatchSize \in Nat BY NRowsAssumption, BatchSizeAssumption
<1>1. PICK k \in 0 .. BatchSize :
         /\ read + k <= NRows /\ read' = read + k
         /\ slices' = PushSlices(Batch(k), Keep(read + 1 .. read + k))
  BY DEF RouteBatch
<1>2. k \in Nat /\ read' \in 0 .. NRows BY <1>0, <1>1, SplitTypeIs DEF SplitIInv
<1>3. failed = "no" /\ ~split_eof BY DEF RouteBatch, MustRead, SplitIInv, PullsAreLive
<1>4. ASSUME NEW p \in Ports PROVE PortRows(p)' = Due(p, read)' /\ slices'[p] \in Seq(Slice)
  <2>1. slices'[p] = PushSlices(Batch(k), Keep(read + 1 .. read + k))[p] BY <1>1
  <2>2. PortRows(p)' = Due(p, read + k) /\ slices'[p] \in Seq(Slice)
    BY <1>1, <1>2, <1>3, <2>1, BatchRows DEF RouteBatch
  <2>3. Due(p, read)' = Due(p, read + k) BY <1>1 DEF Due, Belonging, Home, UpTo, RouteBatch
  <2> QED BY <2>2, <2>3
<1>5. slices' \in [Ports -> Seq(Slice)] BY <1>1, <1>4 DEF PushSlices
<1>6. SplitTypeOK' BY <1>2, <1>5 DEF SplitIInv, SplitTypeOK, RouteBatch, Slice
<1>7. ReadIsRouted' BY <1>4 DEF ReadIsRouted
<1>8. SomeIsRouted'
  <2> SUFFICES ASSUME NEW p \in Ports PROVE (\E n \in 0 .. NRows : PortRows(p) = Due(p, n))'
    BY DEF SomeIsRouted
  <2>1. PICK n \in 0 .. NRows : n = read + k BY <1>1, <1>2
  <2>2. slices'[p] = PushSlices(Batch(k), Keep(read + 1 .. read + k))[p] BY <1>1
  <2>3. PortRows(p)' = Due(p, n) BY <1>1, <1>2, <1>3, <2>1, <2>2, BatchRows DEF RouteBatch
  <2>4. Due(p, n)' = Due(p, n) BY DueIsFixed DEF RouteBatch
  <2> QED BY <2>3, <2>4
<1>9. PullsAreLive' /\ EofIsTheEnd' /\ EndedAreDrained'
  BY <1>3 DEF SplitIInv, PullsAreLive, EofIsTheEnd, EndedAreDrained, RouteBatch
<1> QED BY <1>6, <1>7, <1>8, <1>9 DEF SplitIInv

LEMMA SliceFailsInv == SplitIInv /\ SliceFails => SplitIInv'
<1> SUFFICES ASSUME SplitIInv, SliceFails PROVE SplitIInv' OBVIOUS
<1>0. NRows \in Nat /\ BatchSize \in Nat BY NRowsAssumption, BatchSizeAssumption
<1>1. PICK k \in 1 .. BatchSize, i \in 0 .. Cardinality(Ports) - 1 :
         /\ read + k <= NRows /\ read' = read + k
         /\ slices' = [p \in Ports |->
              IF p <= i THEN PushSlices(Batch(k), Keep(read + 1 .. read + k))[p] ELSE slices[p]]
  BY DEF SliceFails
<1>2. k \in Nat /\ read' \in 0 .. NRows BY <1>0, <1>1, SplitTypeIs DEF SplitIInv
<1>3. failed = "no" /\ ~split_eof BY DEF SliceFails, MustRead, SplitIInv, PullsAreLive
<1>4. ASSUME NEW p \in Ports
      PROVE  slices'[p] \in Seq(Slice) /\ (\E n \in 0 .. NRows : PortRows(p) = Due(p, n))'
  <2>1. CASE p <= i
    <3>1. slices'[p] = PushSlices(Batch(k), Keep(read + 1 .. read + k))[p] BY <1>1, <2>1
    <3>2. PICK n \in 0 .. NRows : n = read + k BY <1>1, <1>2
    <3>3. PortRows(p)' = Due(p, n) /\ slices'[p] \in Seq(Slice)
      BY <1>1, <1>2, <1>3, <3>1, <3>2, BatchRows DEF SliceFails
    <3>4. Due(p, n)' = Due(p, n) BY DueIsFixed DEF SliceFails
    <3> QED BY <3>3, <3>4
  <2>2. CASE ~(p <= i)
    <3>1. slices'[p] = slices[p] BY <1>1, <2>2
    <3>2. PortRows(p)' = PortRows(p) BY <3>1 DEF PortRows, SliceFails
    <3>3. PICK n \in 0 .. NRows : PortRows(p) = Due(p, n) BY DEF SplitIInv, SomeIsRouted
    <3>4. Due(p, n)' = Due(p, n) BY DueIsFixed DEF SliceFails
    <3>5. slices'[p] \in Seq(Slice) BY <3>1, SplitTypeIs DEF SplitIInv
    <3> QED BY <3>2, <3>3, <3>4, <3>5
  <2> QED BY <2>1, <2>2
<1>5. slices' \in [Ports -> Seq(Slice)] BY <1>1, <1>4
<1>6. SplitTypeOK' BY <1>2, <1>5, SplitTypeIs DEF SplitIInv, SplitTypeOK, SliceFails, Slice
<1>7. ReadIsRouted' BY DEF ReadIsRouted, SliceFails
<1>8. SomeIsRouted' BY <1>4 DEF SomeIsRouted
<1>9. PullsAreLive' /\ EofIsTheEnd' /\ EndedAreDrained'
  BY <1>3 DEF SplitIInv, PullsAreLive, EofIsTheEnd, EndedAreDrained, SliceFails
<1> QED BY <1>6, <1>7, <1>8, <1>9 DEF SplitIInv

LEMMA EmitInv == SplitIInv /\ Emit => SplitIInv'
<1> SUFFICES ASSUME SplitIInv, Emit PROVE SplitIInv' OBVIOUS
<1> DEFINE o == out[pulling]
           q == slices[pulling]
<1>1. pulling \in Ports BY DEF SplitIInv, SplitTypeOK, Emit
<1>2. o \in Seq(Slice) /\ q \in Seq(Slice) /\ q # <<>> BY <1>1, SplitTypeIs DEF SplitIInv, Emit
<1>3. /\ Append(o, Head(q)) \in Seq(Slice) /\ Tail(q) \in Seq(Slice)
      /\ Append(o, Head(q)) \o Tail(q) = o \o q
  <2> HIDE DEF o, q
  <2> QED BY <1>2, EmittedRows
<1>4. out' = [out EXCEPT ![pulling] = Append(o, Head(q))] /\ slices' = [slices EXCEPT ![pulling] = Tail(q)]
  BY DEF Emit
<1>5. out' \in [Ports -> Seq(Slice)] /\ slices' \in [Ports -> Seq(Slice)]
  <2> HIDE DEF o, q
  <2> QED BY <1>1, <1>3, <1>4 DEF SplitIInv, SplitTypeOK, Slice
<1>6. ASSUME NEW p \in Ports PROVE PortRows(p)' = PortRows(p)
  <2>1. CASE p = pulling
    <3>1. out'[p] = Append(o, Head(q)) /\ slices'[p] = Tail(q)
      BY <1>1, <1>4, <2>1, SplitTypeIs DEF SplitIInv
    <3>2. out'[p] \o slices'[p] = out[p] \o slices[p] BY <1>3, <2>1, <3>1
    <3> QED BY <3>2 DEF PortRows
  <2>2. CASE p # pulling
    <3>1. out'[p] = out[p] /\ slices'[p] = slices[p] BY <1>4, <2>2, SplitTypeIs DEF SplitIInv
    <3> QED BY <3>1 DEF PortRows
  <2> QED BY <2>1, <2>2
<1>7. SplitTypeOK' BY <1>5 DEF SplitIInv, SplitTypeOK, Emit, Slice
<1>8. ReadIsRouted'
  <2>1. \A p \in Ports : Due(p, read)' = Due(p, read) BY DEF Due, Belonging, Home, UpTo, Emit
  <2> QED BY <1>6, <2>1 DEF SplitIInv, ReadIsRouted, Emit
<1>9. SomeIsRouted'
  <2>1. \A p \in Ports, n \in 0 .. NRows : Due(p, n)' = Due(p, n) BY DueIsFixed DEF Emit
  <2> QED BY <1>6, <2>1 DEF SplitIInv, SomeIsRouted
<1>10. PullsAreLive' /\ EofIsTheEnd'
  BY DEF SplitIInv, PullsAreLive, EofIsTheEnd, Emit
<1>11. EndedAreDrained'
  <2>1. pulling \notin ports_ended BY DEF SplitIInv, EndedAreDrained, Emit
  <2>2. \A p \in ports_ended : slices'[p] = slices[p]
    BY <1>4, <2>1, SplitTypeIs DEF SplitIInv, SplitTypeOK
  <2> QED BY <2>2 DEF SplitIInv, EndedAreDrained, Emit
<1> QED BY <1>7, <1>8, <1>9, <1>10, <1>11 DEF SplitIInv

LEMMA CallInv == ASSUME SplitIInv, NEW p \in Ports, Call(p) PROVE SplitIInv'
<1>1. SplitTypeOK' BY DEF SplitIInv, SplitTypeOK, Call
<1>2. ReadIsRouted' /\ SomeIsRouted' BY UnmovedRouted DEF Unmoved, Call
<1>3. PullsAreLive' /\ EofIsTheEnd' /\ EndedAreDrained'
  BY DEF SplitIInv, PullsAreLive, EofIsTheEnd, EndedAreDrained, Call
<1> QED BY <1>1, <1>2, <1>3 DEF SplitIInv

LEMMA UpstreamEofInv == SplitIInv /\ UpstreamEof => SplitIInv'
<1> SUFFICES ASSUME SplitIInv, UpstreamEof PROVE SplitIInv' OBVIOUS
<1>1. SplitTypeOK' BY DEF SplitIInv, SplitTypeOK, UpstreamEof
<1>2. ReadIsRouted' /\ SomeIsRouted' BY UnmovedRouted DEF Unmoved, UpstreamEof
<1>3. PullsAreLive' /\ EofIsTheEnd' /\ EndedAreDrained'
  BY DEF SplitIInv, PullsAreLive, EofIsTheEnd, EndedAreDrained, UpstreamEof, MustRead
<1> QED BY <1>1, <1>2, <1>3 DEF SplitIInv

LEMMA UpstreamFailsInv == SplitIInv /\ UpstreamFails => SplitIInv'
<1> SUFFICES ASSUME SplitIInv, UpstreamFails PROVE SplitIInv' OBVIOUS
<1>1. SplitTypeOK' BY DEF SplitIInv, SplitTypeOK, UpstreamFails
<1>2. ReadIsRouted' /\ SomeIsRouted' BY UnmovedRouted DEF Unmoved, UpstreamFails
<1>3. PullsAreLive' /\ EofIsTheEnd' /\ EndedAreDrained'
  BY DEF SplitIInv, PullsAreLive, EofIsTheEnd, EndedAreDrained, UpstreamFails, MustRead
<1> QED BY <1>1, <1>2, <1>3 DEF SplitIInv

LEMMA PredicateFailsInv == SplitIInv /\ PredicateFails => SplitIInv'
<1> SUFFICES ASSUME SplitIInv, PredicateFails PROVE SplitIInv' OBVIOUS
<1>1. read' \in 0 .. NRows
  <2>1. PICK k \in 1 .. BatchSize : read + k <= NRows /\ read' = read + k BY DEF PredicateFails
  <2> QED BY <2>1, NRowsAssumption, BatchSizeAssumption, SplitTypeIs DEF SplitIInv
<1>2. SplitTypeOK' BY <1>1 DEF SplitIInv, SplitTypeOK, PredicateFails
<1>3. ReadIsRouted' BY DEF ReadIsRouted, PredicateFails
<1>4. SomeIsRouted' BY UnmovedRows DEF SplitIInv, Unmoved, PredicateFails
<1>5. PullsAreLive' /\ EofIsTheEnd' /\ EndedAreDrained'
  BY DEF SplitIInv, PullsAreLive, EofIsTheEnd, EndedAreDrained, PredicateFails, MustRead
<1> QED BY <1>2, <1>3, <1>4, <1>5 DEF SplitIInv

LEMMA EndPortInv == SplitIInv /\ EndPort => SplitIInv'
<1> SUFFICES ASSUME SplitIInv, EndPort PROVE SplitIInv' OBVIOUS
<1>1. SplitTypeOK' BY DEF SplitIInv, SplitTypeOK, EndPort
<1>2. ReadIsRouted' /\ SomeIsRouted' BY UnmovedRouted DEF Unmoved, EndPort
<1>3. PullsAreLive' /\ EofIsTheEnd' BY DEF SplitIInv, PullsAreLive, EofIsTheEnd, EndPort
<1>4. EndedAreDrained' BY DEF SplitIInv, EndedAreDrained, EndPort, PortDone
<1> QED BY <1>1, <1>2, <1>3, <1>4 DEF SplitIInv

LEMMA SplitStutterInv == SplitIInv /\ UNCHANGED splitVars => SplitIInv'
<1> SUFFICES ASSUME SplitIInv, UNCHANGED splitVars PROVE SplitIInv' OBVIOUS
<1>1. SplitTypeOK' BY DEF SplitIInv, SplitTypeOK, splitVars
<1>2. ReadIsRouted' /\ SomeIsRouted' BY UnmovedRouted DEF Unmoved, splitVars
<1>3. PullsAreLive' /\ EofIsTheEnd' /\ EndedAreDrained'
  BY DEF SplitIInv, PullsAreLive, EofIsTheEnd, EndedAreDrained, splitVars
<1> QED BY <1>1, <1>2, <1>3 DEF SplitIInv

LEMMA SplitNextInv == SplitIInv /\ [SplitNext]_splitVars => SplitIInv'
<1> SUFFICES ASSUME SplitIInv, [SplitNext]_splitVars PROVE SplitIInv' OBVIOUS
<1>1. ASSUME NEW p \in Ports, Call(p) PROVE SplitIInv' BY <1>1, CallInv
<1>2. CASE RouteBatch BY <1>2, RouteBatchInv
<1>3. CASE UpstreamEof BY <1>3, UpstreamEofInv
<1>4. CASE UpstreamFails BY <1>4, UpstreamFailsInv
<1>5. CASE PredicateFails BY <1>5, PredicateFailsInv
<1>6. CASE SliceFails BY <1>6, SliceFailsInv
<1>7. CASE Emit BY <1>7, EmitInv
<1>8. CASE EndPort BY <1>8, EndPortInv
<1>9. CASE SplitOver \/ UNCHANGED splitVars BY <1>9, SplitStutterInv DEF SplitOver
<1> QED BY <1>1, <1>2, <1>3, <1>4, <1>5, <1>6, <1>7, <1>8, <1>9 DEF SplitNext

LEMMA SplitInvariance == SplitSpec => []SplitIInv
BY SplitInitInv, SplitNextInv, PTL DEF SplitSpec

LEMMA InvIsRouted == SplitIInv => RoutedToFirstMatch
BY DEF SplitIInv, ReadIsRouted, RoutedToFirstMatch, Due

LEMMA InvIsSound == SplitIInv => PortsAreSound
<1> SUFFICES ASSUME SplitIInv PROVE PortsAreSound OBVIOUS
<1>1. PortsArePrefixes
  <2> SUFFICES ASSUME NEW p \in Ports PROVE IsPrefix(PortRows(p), Due(p, NRows))
    BY DEF PortsArePrefixes, Due
  <2> QED BY DueIsPrefix DEF SplitIInv, SomeIsRouted
<1>2. EndOfPortIsComplete
  <2> SUFFICES ASSUME NEW p \in ports_ended PROVE FlattenSeq(out[p]) = Due(p, NRows)
    BY DEF EndOfPortIsComplete, Due
  <2>1. p \in Ports /\ slices[p] = <<>> /\ read = NRows /\ failed = "no"
    BY DEF SplitIInv, SplitTypeOK, EndedAreDrained, EofIsTheEnd
  <2>2. PortRows(p) = Due(p, NRows) BY <2>1 DEF SplitIInv, ReadIsRouted
  <2>3. out[p] \o <<>> = out[p]
    <3>1. out[p] \in Seq(Slice) BY <2>1, SplitTypeIs DEF SplitIInv
    <3> QED BY <3>1
  <2> QED BY <2>1, <2>2, <2>3 DEF PortRows
<1> QED BY <1>1, <1>2 DEF PortsAreSound, SplitIInv

(* Every row read goes to its first matching case exactly once and in input  *)
(* order, whatever the predicates say, however the input is cut into batches *)
(* and in whatever order the ports are pulled.                               *)
THEOREM SplitRoutesToFirstMatch == SplitSpec => []RoutedToFirstMatch
BY SplitInvariance, InvIsRouted, PTL

(* What a port has returned or queued is a prefix of its rows, whatever has  *)
(* failed, and a port that reports its end has returned them all.            *)
THEOREM SplitPortsAreSound == SplitSpec => []PortsAreSound
BY SplitInvariance, InvIsSound, PTL

------------------------------------------------------------------------------
(* Part 2: the multicast                                                    *)

USE NTapsAssumption, SinksAssumption, LimitAssumption, DepthAssumption,
    MaxBatchesAssumption, AllocFailsAssumption

------------------------------------------------------------------------------
(* The inductive invariant                                                  *)

LastSink == Len(Sinks)

(* Threads: those of the sinks before the current one have ended their      *)
(* streams, those after it have not started, so one runs at most.           *)
ThreadInv ==
  /\ \A t \in Taps \ Consumed : tpc[t] = "none"
  /\ \A i \in DOMAIN Sinks :
       /\ i > pos => tpc[Sinks[i]] = "none"
       /\ i < pos /\ i < LastSink => tpc[Sinks[i]] = "exit" /\ end[Sinks[i]] = "eof"
  /\ \A t \in Taps :
       /\ end[t] # "open" => tpc[t] = "exit"
       /\ tpc[t] = "none" => ring[t] = <<>> /\ got[t] = <<>>
       /\ tpc[t] = "push" => cur[t] = pulled /\ pulled > 0 /\ nxt[t] \in Taps
       /\ tpc[t] = "put" => cur[t] > 0

\* What the stage's thread has done when it is where it is.
PhaseInv ==
  /\ phase = "drive" => \A t \in Taps : stop[t] => tpc[t] = "exit"
  /\ phase \in {"destroy", "done"} => \A t \in Taps : Joined(t) /\ ring[t] = <<>>
  /\ phase = "done" => \A t \in Taps : queue[t] = <<>>
  /\ view # 0 => /\ phase = "drive" /\ pos \in DOMAIN Sinks
                  /\ view = Len(got[Sink])

\* Tap t refers to b: from its queue, its ring, its thread's hand or its view.
In(s, b) == \E i \in 1 .. Len(s) : s[i] = b
InHand(t, b) == tpc[t] = "put" /\ cur[t] = b
InView(t, b) == view = b /\ t = Sink
Held(t, b) == In(queue[t], b) \/ In(ring[t], b) \/ InHand(t, b) \/ InView(t, b)

Holders(b) == {t \in Taps : Held(t, b)}

Sorted(s) == \A i, j \in 1 .. Len(s) : i < j => s[i] < s[j]

(* What a tap refers to is in upstream order: the view, the ring, the       *)
(* thread's batch, the queue; so it refers to a batch once.                 *)
OrderInv ==
  /\ \A t \in Taps :
       /\ Sorted(ring[t]) /\ Sorted(queue[t])
       /\ \A b, c \in Batches :
            /\ In(ring[t], b) /\ In(queue[t], c) => b < c
            /\ In(ring[t], b) /\ InHand(t, c) => b < c
            /\ InHand(t, b) /\ In(queue[t], c) => b < c
            /\ InView(t, b) /\ (In(ring[t], c) \/ InHand(t, c) \/ In(queue[t], c)) => b < c
       /\ \A b \in Batches : Held(t, b) => b <= pulled
  /\ \A t, u \in Taps :
       tpc[t] = "push" => ~InView(u, pulled) /\ ~In(ring[u], pulled)

Pushing(t, b) == tpc[t] = "push" /\ cur[t] = b

(* The count is the number of taps that refer to the batch; while it is     *)
(* queued, those it is queued on already, and it is counted for all.        *)
CountInv ==
  /\ \A b \in Batches :
       IF \E t \in Taps : Pushing(t, b)
         THEN /\ refcount[b] = NTaps
              /\ \A t \in Taps : Pushing(t, b) => Holders(b) = 1 .. nxt[t] - 1
         ELSE refcount[b] = Cardinality(Holders(b))
  /\ released = {b \in 1 .. pulled : refcount[b] = 0}

(* The batches of tap t by their position in its stream: what its consumer   *)
(* has, what is in the ring, in the thread's hand, on the queue.            *)
Numbered(s, n) == \A i \in 1 .. Len(s) : s[i] = n + i
Hand(t) == IF tpc[t] = "put" THEN 1 ELSE 0

Placed(t) ==
  /\ Numbered(ring[t], Len(got[t]))
  /\ tpc[t] = "put" => cur[t] = Len(got[t]) + Len(ring[t]) + 1
  /\ Numbered(queue[t], Len(got[t]) + Len(ring[t]) + Hand(t))

\* How far the stream of tap t has come, and how far it should have come.
Level(t) == Len(got[t]) + Len(ring[t]) + Hand(t) + Len(queue[t])
Expected(t) ==
  IF \E u \in Taps : tpc[u] = "push" /\ t >= nxt[u] THEN pulled - 1 ELSE pulled

NoError == \A t \in Taps : end[t] # "error"

(* Every tap is handed the batches 1, 2, 3, ...; without an error those     *)
(* pulled, but for the taps that a push has not come to yet.                *)
StreamInv ==
  /\ \A t \in Taps : Numbered(got[t], 0)
  /\ phase = "drive" => \A t \in Taps : Placed(t)
  /\ phase = "drive" /\ NoError => \A t \in Taps : Level(t) = Expected(t)

EndInv ==
  /\ upstream_eof <=> upEnd = "eof"
  /\ \A t \in Taps :
       /\ end[t] = "eof" =>
            /\ upEnd = "eof"
            /\ phase = "drive" => Len(got[t]) + Len(ring[t]) = pulled
       /\ ended[t] = "eof" => Len(got[t]) = pulled /\ upEnd = "eof"

IInv == /\ TypeOK /\ ThreadInv /\ PhaseInv /\ OrderInv /\ CountInv /\ StreamInv
        /\ EndInv
------------------------------------------------------------------------------
(* Sequences and sets                                                       *)

LEMMA TailShape ==
  ASSUME NEW S, NEW s \in Seq(S), s # <<>>
  PROVE  /\ Len(s) \in Nat \ {0} /\ Head(s) = s[1] /\ s[1] \in S
         /\ Tail(s) \in Seq(S) /\ Len(Tail(s)) = Len(s) - 1
         /\ \A i \in 1 .. Len(s) - 1 : Tail(s)[i] = s[i + 1]
BY HeadTailProperties

LEMMA AppendShape ==
  ASSUME NEW S, NEW s \in Seq(S), NEW e \in S
  PROVE  /\ Append(s, e) \in Seq(S) /\ Len(Append(s, e)) = Len(s) + 1
         /\ Append(s, e)[Len(s) + 1] = e
         /\ \A i \in 1 .. Len(s) : Append(s, e)[i] = s[i]
OBVIOUS

(* What a sequence has when its head is taken, or an element is added.      *)
LEMMA InTail ==
  ASSUME NEW S, NEW s \in Seq(S), s # <<>>
  PROVE  /\ \A b : In(s, b) <=> b = Head(s) \/ In(Tail(s), b)
         /\ In(s, Head(s))
<1>1. /\ Len(s) \in Nat \ {0} /\ Head(s) = s[1] /\ Len(Tail(s)) = Len(s) - 1
      /\ \A i \in 1 .. Len(s) - 1 : Tail(s)[i] = s[i + 1]
  BY TailShape
<1>2. ASSUME NEW b, In(s, b) PROVE b = Head(s) \/ In(Tail(s), b)
  <2>1. PICK i \in 1 .. Len(s) : s[i] = b BY <1>2 DEF In
  <2>2. CASE i = 1 BY <1>1, <2>1, <2>2
  <2>3. CASE i # 1
    <3>1. i - 1 \in 1 .. Len(s) - 1 BY <1>1, <2>3
    <3>2. Tail(s)[i - 1] = b BY <1>1, <2>1, <3>1
    <3> QED BY <1>1, <3>1, <3>2 DEF In
  <2> QED BY <2>2, <2>3
<1>3. ASSUME NEW b, In(Tail(s), b) PROVE In(s, b)
  <2>1. PICK i \in 1 .. Len(s) - 1 : Tail(s)[i] = b BY <1>1, <1>3 DEF In
  <2>2. i + 1 \in 1 .. Len(s) /\ s[i + 1] = b BY <1>1, <2>1
  <2> QED BY <2>2 DEF In
<1>4. In(s, Head(s)) BY <1>1 DEF In
<1> QED BY <1>2, <1>3, <1>4

LEMMA InAppend ==
  ASSUME NEW S, NEW s \in Seq(S), NEW e \in S
  PROVE  \A b : In(Append(s, e), b) <=> In(s, b) \/ b = e
<1>1. /\ Len(s) \in Nat /\ Len(Append(s, e)) = Len(s) + 1
      /\ Append(s, e)[Len(s) + 1] = e
      /\ \A i \in 1 .. Len(s) : Append(s, e)[i] = s[i]
  BY AppendShape
<1>0. Len(s) \in Nat OBVIOUS
<1>2. 1 .. Len(s) + 1 = (1 .. Len(s)) \cup {Len(s) + 1} BY <1>0
<1> QED BY <1>1, <1>2 DEF In

LEMMA SortedTail ==
  ASSUME NEW s \in Seq(Nat), s # <<>>, Sorted(s)
  PROVE  /\ Sorted(Tail(s))
         /\ \A b : In(Tail(s), b) => Head(s) < b
<1>1. /\ Len(s) \in Nat \ {0} /\ Head(s) = s[1] /\ Len(Tail(s)) = Len(s) - 1
      /\ \A i \in 1 .. Len(s) - 1 : Tail(s)[i] = s[i + 1]
  BY TailShape
<1>2. \A i \in 1 .. Len(s) - 1 : i + 1 \in 1 .. Len(s) BY <1>1
<1>3. Sorted(Tail(s)) BY <1>1, <1>2 DEF Sorted
<1>4. ASSUME NEW b, In(Tail(s), b) PROVE Head(s) < b
  <2>1. PICK i \in 1 .. Len(s) - 1 : Tail(s)[i] = b BY <1>1, <1>4 DEF In
  <2>2. i + 1 \in 1 .. Len(s) /\ 1 \in 1 .. Len(s) /\ 1 < i + 1 BY <1>1, <2>1
  <2> QED BY <1>1, <2>1, <2>2 DEF Sorted
<1> QED BY <1>3, <1>4

LEMMA SortedAppend ==
  ASSUME NEW s \in Seq(Nat), NEW e \in Nat, Sorted(s), \A b \in Nat : In(s, b) => b < e
  PROVE  Sorted(Append(s, e))
<1>1. /\ Len(s) \in Nat /\ Len(Append(s, e)) = Len(s) + 1
      /\ Append(s, e)[Len(s) + 1] = e
      /\ \A i \in 1 .. Len(s) : Append(s, e)[i] = s[i]
  BY AppendShape
<1>2. \A i \in 1 .. Len(s) : s[i] \in Nat /\ s[i] < e BY DEF In
<1>3. ASSUME NEW i \in 1 .. Len(s) + 1, NEW j \in 1 .. Len(s) + 1, i < j
      PROVE  Append(s, e)[i] < Append(s, e)[j]
  <2>1. i \in 1 .. Len(s) BY <1>1, <1>3
  <2>2. CASE j \in 1 .. Len(s) BY <1>1, <1>3, <2>1, <2>2 DEF Sorted
  <2>3. CASE j = Len(s) + 1 BY <1>1, <1>2, <2>1, <2>3
  <2>4. Len(s) \in Nat OBVIOUS
  <2>5. \A n \in Nat : \A k \in 1 .. n + 1 : k \in 1 .. n \/ k = n + 1 OBVIOUS
  <2>6. j \in 1 .. Len(s) \/ j = Len(s) + 1 BY <2>4, <2>5
  <2> QED BY <2>2, <2>3, <2>6
<1> QED BY <1>1, <1>3 DEF Sorted

(* Sets of taps are finite and no larger than the number of taps.           *)
LEMMA TapSets ==
  ASSUME NEW H \in SUBSET Taps
  PROVE  /\ IsFiniteSet(H) /\ Cardinality(H) \in 0 .. NTaps
         /\ Cardinality(H) = 0 <=> H = {}
         /\ \A t \in H : Cardinality(H \ {t}) = Cardinality(H) - 1
<1>1. NTaps \in Nat OBVIOUS
<1>2. IsFiniteSet(Taps) /\ Cardinality(Taps) = NTaps
  BY <1>1, FS_Interval DEF Taps
<1>3. IsFiniteSet(H) /\ Cardinality(H) <= Cardinality(Taps)
  BY <1>2, FS_Subset
<1>4. Cardinality(H) \in Nat BY <1>3, FS_CardinalityType
<1>5. \A t \in H : Cardinality(H \ {t}) = Cardinality(H) - 1
  BY <1>3, FS_RemoveElement
<1>6. Cardinality(H) = 0 <=> H = {} BY <1>3, FS_EmptySet
<1> QED BY <1>1, <1>2, <1>3, <1>4, <1>5, <1>6

LEMMA IntervalCard ==
  ASSUME NEW n \in 0 .. NTaps
  PROVE  Cardinality(1 .. n) = n /\ 1 .. n \subseteq Taps
<1>1. n \in Int /\ 1 \in Int OBVIOUS
<1>2. Cardinality(1 .. n) = IF 1 > n THEN 0 ELSE n - 1 + 1 BY <1>1, FS_Interval
<1>3. Cardinality(1 .. n) = n BY <1>2
<1>4. 1 .. n \subseteq Taps BY DEF Taps
<1> QED BY <1>3, <1>4

------------------------------------------------------------------------------
(* Threads                                                                  *)

Running(t) == tpc[t] \notin {"none", "exit"}

LEMMA SinksAreTaps == Consumed \subseteq Taps
BY DEF Consumed

(* A thread that runs serves the current sink, or the last one driven.      *)
LEMMA RunningSink ==
  ASSUME TypeOK, ThreadInv, NEW t \in Taps, Running(t)
  PROVE  \E i \in DOMAIN Sinks : Sinks[i] = t /\ (i = pos \/ (i = LastSink /\ pos = LastSink + 1))
<1>1. PICK i \in DOMAIN Sinks : Sinks[i] = t BY DEF ThreadInv, Running, Consumed
<1>2. DOMAIN Sinks = 1 .. LastSink /\ LastSink \in Nat BY DEF LastSink
<1>3. pos \in 1 .. LastSink + 1 BY DEF TypeOK, LastSink
<1>4. ~(i > pos) /\ ~(i < pos /\ i < LastSink) BY <1>1 DEF ThreadInv, Running
<1> QED BY <1>1, <1>2, <1>3, <1>4

(* One thread runs at most ...                                              *)
LEMMA OneRuns ==
  ASSUME TypeOK, ThreadInv, NEW t \in Taps, NEW u \in Taps, Running(t), Running(u)
  PROVE  t = u
<1>1. PICK i \in DOMAIN Sinks : Sinks[i] = t /\ (i = pos \/ (i = LastSink /\ pos = LastSink + 1))
  BY RunningSink
<1>2. PICK j \in DOMAIN Sinks : Sinks[j] = u /\ (j = pos \/ (j = LastSink /\ pos = LastSink + 1))
  BY RunningSink
<1>3. DOMAIN Sinks = 1 .. LastSink /\ LastSink \in Nat BY DEF LastSink
<1> QED BY <1>1, <1>2, <1>3

(* ... and none once an edge has failed.                                    *)
LEMMA NoneAfterError ==
  ASSUME TypeOK, ThreadInv, NEW t \in Taps, Running(t)
  PROVE  \A u \in Taps : end[u] # "error"
<1> SUFFICES ASSUME NEW u \in Taps, end[u] = "error" PROVE FALSE OBVIOUS
<1>1. tpc[u] = "exit" BY DEF ThreadInv
<1>2. PICK j \in DOMAIN Sinks : Sinks[j] = u BY <1>1 DEF ThreadInv, Consumed
<1>3. PICK i \in DOMAIN Sinks : Sinks[i] = t /\ (i = pos \/ (i = LastSink /\ pos = LastSink + 1))
  BY RunningSink
<1>4. DOMAIN Sinks = 1 .. LastSink /\ LastSink \in Nat BY DEF LastSink
<1>5. pos \in 1 .. LastSink + 1 BY DEF TypeOK, LastSink
<1>6. ~(j > pos) /\ ~(j < pos /\ j < LastSink) BY <1>1, <1>2 DEF ThreadInv
<1>7. i = j BY <1>3, <1>4, <1>5, <1>6
<1> QED BY <1>1, <1>2, <1>3, <1>7 DEF Running

------------------------------------------------------------------------------
(* References                                                               *)

(* What a tap refers to has been pulled.                                    *)
LEMMA HeldPulled ==
  ASSUME TypeOK, OrderInv, NEW t \in Taps, NEW b \in Batches, Held(t, b)
  PROVE  b \in 1 .. pulled
<1>1. b <= pulled /\ pulled \in Nat BY DEF OrderInv, TypeOK
<1> QED BY <1>1 DEF Batches

(* A batch that is being pushed is on queues only.                          *)
LEMMA PushedIsQueued ==
  ASSUME TypeOK, ThreadInv, OrderInv, NEW t \in Taps, tpc[t] = "push"
  PROVE  /\ cur[t] \in Batches
         /\ \A u \in Taps : /\ ~InView(u, cur[t]) /\ ~In(ring[u], cur[t])
                             /\ ~InHand(u, cur[t])
<1>1. cur[t] = pulled /\ cur[t] \in Batches BY DEF ThreadInv, TypeOK, Batches
<1>2. \A u \in Taps : ~InView(u, pulled) /\ ~In(ring[u], pulled) BY DEF OrderInv
<1>3. \A u \in Taps : tpc[u] # "put" BY OneRuns DEF Running
<1> QED BY <1>1, <1>2, <1>3 DEF InHand

(* A tap gives up its reference to a batch that nobody pushes.              *)
LEMMA CountReleased ==
  ASSUME TypeOK, OrderInv, CountInv, NEW t \in Taps, NEW b \in Batches, Held(t, b),
         \A u \in Taps : ~Pushing(u, b),
         \A u \in Taps, c \in Batches : Pushing(u, c)' <=> Pushing(u, c),
         \A u \in Taps, c \in Batches : Held(u, c)' <=> Held(u, c) /\ ~(u = t /\ c = b),
         UNCHANGED <<nxt, pulled>>, SharedRelease(b)
  PROVE  /\ CountInv' /\ refcount' \in [Batches -> 0 .. NTaps]
         /\ released' \in SUBSET Batches
<1>1. /\ t \in Holders(b) /\ Holders(b) \in SUBSET Taps
      /\ refcount[b] = Cardinality(Holders(b))
  BY DEF Holders, CountInv
<1>2. refcount[b] \in 1 .. NTaps /\ Cardinality(Holders(b) \ {t}) = refcount[b] - 1
  BY <1>1, TapSets
<1>3. /\ refcount \in [Batches -> 0 .. NTaps]
      /\ refcount' = [refcount EXCEPT ![b] = @ - 1]
  BY DEF TypeOK, SharedRelease
<1>4. refcount' \in [Batches -> 0 .. NTaps] BY <1>2, <1>3
<1>5. Holders(b)' = Holders(b) \ {t} BY DEF Holders
<1>6. \A c \in Batches \ {b} : Holders(c)' = Holders(c) BY DEF Holders
<1>7. released' = {c \in 1 .. pulled' : refcount'[c] = 0}
  <2>1. b \in 1 .. pulled BY HeldPulled
  <2>2. 1 .. pulled \subseteq Batches BY DEF TypeOK, Batches
  <2>3. refcount[b] # 0 /\ b \notin released BY <1>2 DEF CountInv
  <2> QED BY <1>2, <1>3, <2>1, <2>2, <2>3 DEF CountInv, SharedRelease, LastReference
<1>8. ASSUME NEW c \in Batches
      PROVE  IF \E u \in Taps : Pushing(u, c)'
               THEN /\ refcount'[c] = NTaps
                    /\ \A u \in Taps : Pushing(u, c)' => Holders(c)' = 1 .. nxt'[u] - 1
               ELSE refcount'[c] = Cardinality(Holders(c)')
  <2>1. CASE c = b BY <1>2, <1>3, <1>5, <2>1
  <2>2. CASE c # b
    <3>1. Holders(c)' = Holders(c) /\ refcount'[c] = refcount[c]
      BY <1>3, <1>6, <2>2
    <3> QED BY <3>1 DEF CountInv
  <2> QED BY <2>1, <2>2
<1>9. released' \in SUBSET Batches BY <1>7 DEF TypeOK, Batches
<1> QED BY <1>4, <1>7, <1>8, <1>9 DEF CountInv

(* A step that changes no reference and no count.                           *)
LEMMA CountKept ==
  ASSUME TypeOK, CountInv,
         \A u \in Taps, c \in Batches : Pushing(u, c)' <=> Pushing(u, c),
         \A u \in Taps, c \in Batches : Held(u, c)' <=> Held(u, c),
         UNCHANGED <<nxt, pulled, refcount, released>>
  PROVE  CountInv'
<1>1. \A c \in Batches : Holders(c)' = Holders(c) BY DEF Holders
<1> QED BY <1>1 DEF CountInv

------------------------------------------------------------------------------
(* What each step does to the references                                    *)

(* A step that leaves the queues, the rings, the view and every thread that *)
(* has a batch in hand alone.                                               *)
LEMMA HeldKept ==
  ASSUME UNCHANGED <<queue, ring, view>>, view = 0 \/ pos' = pos,
         \A u \in Taps, c \in Batches : InHand(u, c)' <=> InHand(u, c)
  PROVE  \A u \in Taps, c \in Batches :
           /\ InView(u, c)' <=> InView(u, c)
           /\ Held(u, c)' <=> Held(u, c)
<1>1. \A u \in Taps, c \in Batches : InView(u, c)' <=> InView(u, c)
  BY DEF InView, Sink, Batches
<1> QED BY <1>1 DEF Held, In

LEMMA PopMoves ==
  ASSUME TypeOK, OrderInv, NEW t \in Taps, TPop(t)
  PROVE  /\ cur'[t] \in Batches /\ ~InHand(t, cur'[t]) /\ In(queue[t], cur'[t])
         /\ \A u \in Taps, c \in Batches :
              /\ In(queue[u], c) <=> In(queue'[u], c) \/ (u = t /\ c = cur'[t])
              /\ InHand(u, c)' <=> InHand(u, c) \/ (u = t /\ c = cur'[t])
              /\ In(ring'[u], c) <=> In(ring[u], c)
              /\ InView(u, c)' <=> InView(u, c)
         /\ \A u \in Taps : Sorted(queue'[u]) /\ ring'[u] = ring[u]
         /\ \A c \in Batches : In(queue'[t], c) => cur'[t] < c
<1>1. /\ tpc[t] = "check" /\ queue[t] \in Seq(Batches) /\ queue[t] # <<>>
      /\ queue[t] \in Seq(Nat) /\ Sorted(queue[t])
  BY DEF TPop, TypeOK, OrderInv, Batches
<1>2. /\ cur' = [cur EXCEPT ![t] = Head(queue[t])] /\ queue' = [queue EXCEPT ![t] = Tail(@)]
      /\ tpc' = [tpc EXCEPT ![t] = "put"] /\ UNCHANGED <<ring, view, pos>>
  BY DEF TPop, Goto, edge, driver
<1>3. cur'[t] = Head(queue[t]) /\ queue'[t] = Tail(queue[t]) /\ tpc'[t] = "put"
  BY <1>2 DEF TypeOK
<1>4. \A u \in Taps \ {t} : cur'[u] = cur[u] /\ queue'[u] = queue[u] /\ tpc'[u] = tpc[u]
  BY <1>2 DEF TypeOK
<1>5. cur'[t] \in Batches BY <1>1, <1>3, TailShape
<1>6. In(queue[t], cur'[t]) /\ \A c : In(queue[t], c) <=> c = cur'[t] \/ In(queue'[t], c)
  BY <1>1, <1>3, InTail
<1>7. Sorted(queue'[t]) /\ \A c : In(queue'[t], c) => cur'[t] < c
  BY <1>1, <1>3, SortedTail
<1>8. \A u \in Taps : Sorted(queue'[u]) /\ ring'[u] = ring[u]
  BY <1>2, <1>4, <1>7 DEF OrderInv
<1> QED BY <1>1, <1>2, <1>3, <1>4, <1>5, <1>6, <1>7, <1>8 DEF InHand, InView, Sink

LEMMA PutMoves ==
  ASSUME TypeOK, ThreadInv, OrderInv, NEW t \in Taps, TPut(t), ~stop[t]
  PROVE  /\ cur[t] \in Batches /\ InHand(t, cur[t])
         /\ \A u \in Taps, c \in Batches :
              /\ In(queue'[u], c) <=> In(queue[u], c)
              /\ InHand(u, c)' <=> InHand(u, c) /\ u # t
              /\ In(ring'[u], c) <=> In(ring[u], c) \/ (u = t /\ c = cur[t])
              /\ InView(u, c)' <=> InView(u, c)
         /\ \A u \in Taps : queue'[u] = queue[u] /\ Sorted(ring'[u])
         /\ ring'[t] = Append(ring[t], cur[t]) /\ ring' \in [Taps -> Seq(Batches)]
<1>0. tpc[t] = "put" /\ cur[t] > 0 /\ cur[t] \in 0 .. MaxBatches
  BY DEF TPut, TypeOK, ThreadInv
<1>1. /\ tpc[t] = "put" /\ cur[t] \in Batches /\ ring[t] \in Seq(Batches)
      /\ ring[t] \in Seq(Nat) /\ Sorted(ring[t]) /\ cur[t] \in Nat
  <2>1. cur[t] \in Batches /\ cur[t] \in Nat BY <1>0 DEF Batches
  <2>2. ring[t] \in Seq(Batches) /\ ring[t] \in Seq(Nat) BY DEF TypeOK, Batches
  <2> QED BY <1>0, <2>1, <2>2 DEF OrderInv
<1>2. /\ ring' = [ring EXCEPT ![t] = Append(@, cur[t])]
      /\ tpc' = [tpc EXCEPT ![t] = "room"] /\ cur' = [cur EXCEPT ![t] = 0]
      /\ UNCHANGED <<queue, view, pos>>
  BY DEF TPut, Goto, driver
<1>3. ring'[t] = Append(ring[t], cur[t]) /\ tpc'[t] = "room"
  BY <1>2 DEF TypeOK
<1>4. \A u \in Taps \ {t} : cur'[u] = cur[u] /\ ring'[u] = ring[u] /\ tpc'[u] = tpc[u]
  BY <1>2 DEF TypeOK
<1>5. \A c : In(ring'[t], c) <=> In(ring[t], c) \/ c = cur[t]
  BY <1>1, <1>3, InAppend
<1>6. Sorted(ring'[t])
  <2>1. \A c \in Nat : In(ring[t], c) => c < cur[t]
    <3>1. \A c \in Batches : In(ring[t], c) => c < cur[t]
      BY <1>1 DEF OrderInv, InHand
    <3>2. \A c : In(ring[t], c) => c \in Batches BY <1>1 DEF In
    <3> QED BY <3>1, <3>2
  <2> QED BY <1>1, <1>3, <2>1, SortedAppend
<1>7. \A u \in Taps : queue'[u] = queue[u] /\ Sorted(ring'[u])
  BY <1>2, <1>4, <1>6 DEF OrderInv
<1>8. ring' \in [Taps -> Seq(Batches)]
  <2>1. Append(ring[t], cur[t]) \in Seq(Batches) BY <1>1, AppendShape
  <2> QED BY <1>2, <2>1 DEF TypeOK
<1> QED BY <1>1, <1>2, <1>3, <1>4, <1>5, <1>7, <1>8 DEF InHand, InView, Sink

LEMMA PullMoves ==
  ASSUME TypeOK, OrderInv, DPull
  PROVE  /\ Sink \in Taps /\ view' \in Batches /\ In(ring[Sink], view')
         /\ \A u \in Taps, c \in Batches :
              /\ In(queue'[u], c) <=> In(queue[u], c)
              /\ InHand(u, c)' <=> InHand(u, c)
              /\ In(ring[u], c) <=> In(ring'[u], c) \/ (u = Sink /\ c = view')
              /\ ~InView(u, c)
              /\ InView(u, c)' <=> (u = Sink /\ c = view')
         /\ \A u \in Taps : queue'[u] = queue[u] /\ Sorted(ring'[u])
         /\ \A c \in Batches : In(ring'[Sink], c) => view' < c
         /\ ring'[Sink] = Tail(ring[Sink]) /\ ring' \in [Taps -> Seq(Batches)]
         /\ \A u \in Taps \ {Sink} : ring'[u] = ring[u]
<1>1. pos \in DOMAIN Sinks /\ Sink \in Taps BY DEF DPull, Driving, TypeOK, Sink
<1>2. /\ ring[Sink] \in Seq(Batches) /\ ring[Sink] # <<>> /\ ring[Sink] \in Seq(Nat)
      /\ Sorted(ring[Sink]) /\ view = 0
  BY <1>1 DEF DPull, Driving, TypeOK, OrderInv, Batches
<1>3. /\ view' = Head(ring[Sink]) /\ ring' = [ring EXCEPT ![Sink] = Tail(@)]
      /\ UNCHANGED <<queue, tpc, cur, pos>> /\ Sink' = Sink
  BY DEF DPull, mc, thread, Sink
<1>4. ring'[Sink] = Tail(ring[Sink]) /\ \A u \in Taps \ {Sink} : ring'[u] = ring[u]
  BY <1>1, <1>3 DEF TypeOK
<1>5. view' \in Batches /\ Tail(ring[Sink]) \in Seq(Batches) BY <1>2, <1>3, TailShape
<1>6. In(ring[Sink], view') /\ \A c : In(ring[Sink], c) <=> c = view' \/ In(ring'[Sink], c)
  BY <1>2, <1>3, <1>4, InTail
<1>7. Sorted(ring'[Sink]) /\ \A c : In(ring'[Sink], c) => view' < c
  BY <1>2, <1>3, <1>4, SortedTail
<1>8. \A u \in Taps : queue'[u] = queue[u] /\ Sorted(ring'[u])
  BY <1>3, <1>4, <1>7 DEF OrderInv
<1>9. ring' \in [Taps -> Seq(Batches)] BY <1>3, <1>5 DEF TypeOK
<1>10. \A u \in Taps, c \in Batches : ~InView(u, c) BY <1>2 DEF InView, Batches
<1> QED
  BY <1>1, <1>3, <1>4, <1>5, <1>6, <1>7, <1>8, <1>9, <1>10 DEF InHand, InView

(* What of the order two references of one tap have to show.                *)
InOrder(t) ==
  \A b, c \in Batches :
    /\ In(ring[t], b) /\ In(queue[t], c) => b < c
    /\ In(ring[t], b) /\ InHand(t, c) => b < c
    /\ InHand(t, b) /\ In(queue[t], c) => b < c
    /\ InView(t, b) /\ (In(ring[t], c) \/ InHand(t, c) \/ In(queue[t], c)) => b < c

(* Where references only move from the queue to the view, or go, what is    *)
(* left to show is the order of each tap.                                   *)
LEMMA OrderMoves ==
  ASSUME TypeOK, ThreadInv, OrderInv, pulled' = pulled,
         \A u \in Taps : (tpc'[u] = "push") => (tpc[u] = "push"),
         \A u \in Taps, c \in Batches :
           /\ In(queue'[u], c) => In(queue[u], c)
           /\ InHand(u, c)' => InHand(u, c) \/ In(queue[u], c)
           /\ In(ring'[u], c) => In(ring[u], c) \/ InHand(u, c)
           /\ InView(u, c)' => InView(u, c) \/ In(ring[u], c),
         \A u \in Taps : Sorted(queue'[u]) /\ Sorted(ring'[u]) /\ InOrder(u)'
  PROVE  OrderInv'
<1>1. \A u \in Taps, c \in Batches : Held(u, c)' => c <= pulled'
  BY DEF OrderInv, Held
<1>2. ASSUME NEW t \in Taps, NEW u \in Taps, tpc'[t] = "push"
      PROVE  ~InView(u, pulled)' /\ ~In(ring'[u], pulled')
  <2>1. tpc[t] = "push" /\ cur[t] = pulled BY <1>2 DEF ThreadInv
  <2>2. pulled \in Batches /\ ~InView(u, pulled) /\ ~In(ring[u], pulled) /\ ~InHand(u, pulled)
    BY <2>1, PushedIsQueued
  <2>3. \A c \in Batches : pulled' = c /\ InView(u, pulled)' => InView(u, c)'
    BY DEF InView
  <2> QED BY <2>2, <2>3
<1> QED BY <1>1, <1>2 DEF OrderInv, InOrder

(* The step gives up tap t's reference to b, and no other.                  *)
Drops(t, b) ==
  /\ Held(t, b)
  /\ \A u \in Taps, c \in Batches :
       /\ In(queue'[u], c) => In(queue[u], c)
       /\ In(ring'[u], c) => In(ring[u], c)
       /\ InHand(u, c)' => InHand(u, c)
       /\ InView(u, c)' => InView(u, c)
       /\ Held(u, c)' <=> Held(u, c) /\ ~(u = t /\ c = b)
  /\ \A u \in Taps : Sorted(queue'[u]) /\ Sorted(ring'[u])

LEMMA StoppedPutDrops ==
  ASSUME TypeOK, ThreadInv, OrderInv, NEW t \in Taps, TPut(t), stop[t]
  PROVE  cur[t] \in Batches /\ Drops(t, cur[t])
<1>1. /\ tpc[t] = "put" /\ cur[t] > 0 /\ cur[t] \in 0 .. MaxBatches
      /\ tpc' = [tpc EXCEPT ![t] = "exit"] /\ cur' = [cur EXCEPT ![t] = 0]
      /\ UNCHANGED <<ring, queue, view, pos>>
  BY DEF TPut, TypeOK, ThreadInv, Goto, driver
<1>2. cur[t] \in Batches /\ InHand(t, cur[t]) BY <1>1 DEF Batches, InHand
<1>3. \A u \in Taps, c \in Batches : InHand(u, c)' <=> InHand(u, c) /\ u # t
  BY <1>1 DEF InHand, TypeOK
<1>4. \A u \in Taps, c \in Batches : InView(u, c)' <=> InView(u, c)
  BY <1>1 DEF InView, Sink
<1>5. ~In(queue[t], cur[t]) /\ ~In(ring[t], cur[t]) /\ ~InView(t, cur[t])
  <2>1. ~(cur[t] < cur[t]) BY <1>1
  <2> QED BY <1>2, <2>1 DEF OrderInv
<1>6. \A c \in Batches : InHand(t, c) <=> c = cur[t] BY <1>1 DEF InHand
<1>7. \A u \in Taps, c \in Batches : Held(u, c)' <=> Held(u, c) /\ ~(u = t /\ c = cur[t])
  BY <1>1, <1>3, <1>4, <1>5, <1>6 DEF Held
<1>8. \A u \in Taps : Sorted(queue'[u]) /\ Sorted(ring'[u]) BY <1>1 DEF OrderInv
<1> QED BY <1>1, <1>2, <1>3, <1>4, <1>7, <1>8 DEF Drops, Held

LEMMA ReleaseDrops ==
  ASSUME TypeOK, PhaseInv, OrderInv, DRelease
  PROVE  view \in Batches /\ Sink \in Taps /\ Drops(Sink, view)
<1>1. /\ view # 0 /\ view \in 0 .. MaxBatches /\ view' = 0
      /\ UNCHANGED <<queue, ring, tpc, cur, pos>>
  BY DEF DRelease, TypeOK, thread, edge
<1>2. view \in Batches BY <1>1 DEF Batches
<1>3. Sink \in Taps BY <1>1 DEF PhaseInv, Sink
<1>4. \A u \in Taps, c \in Batches : ~InView(u, c)' BY <1>1 DEF InView, Batches
<1>5. \A u \in Taps, c \in Batches : InHand(u, c)' <=> InHand(u, c) BY <1>1 DEF InHand
<1>6. InView(Sink, view) BY DEF InView
<1>7. ~In(queue[Sink], view) /\ ~In(ring[Sink], view) /\ ~InHand(Sink, view)
  <2>1. ~(view < view) BY <1>1
  <2> QED BY <1>2, <1>3, <1>6, <2>1 DEF OrderInv
<1>8. \A u \in Taps, c \in Batches : InView(u, c) <=> u = Sink /\ c = view
  BY DEF InView
<1>9. \A u \in Taps, c \in Batches : Held(u, c)' <=> Held(u, c) /\ ~(u = Sink /\ c = view)
  BY <1>1, <1>4, <1>5, <1>7, <1>8 DEF Held
<1>10. \A u \in Taps : Sorted(queue'[u]) /\ Sorted(ring'[u]) BY <1>1 DEF OrderInv
<1> QED BY <1>1, <1>2, <1>3, <1>4, <1>5, <1>6, <1>9, <1>10 DEF Drops, Held

LEMMA DrainEdgeDrops ==
  ASSUME TypeOK, ThreadInv, PhaseInv, OrderInv, NEW t \in Taps, Joined(t),
         phase = "release", ring[t] # <<>>, ring' = [ring EXCEPT ![t] = Tail(@)],
         UNCHANGED <<queue, tpc, cur, view, pos>>
  PROVE  Head(ring[t]) \in Batches /\ Drops(t, Head(ring[t]))
<1> DEFINE b == Head(ring[t])
<1>1. /\ ring[t] \in Seq(Batches) /\ ring[t] \in Seq(Nat) /\ Sorted(ring[t])
  BY DEF TypeOK, Batches, OrderInv
<1>2. ring'[t] = Tail(ring[t]) /\ \A u \in Taps \ {t} : ring'[u] = ring[u]
  BY DEF TypeOK
<1>3. b \in Batches BY <1>1, TailShape
<1>4. In(ring[t], b) /\ \A c : In(ring[t], c) <=> c = b \/ In(ring'[t], c)
  BY <1>1, <1>2, InTail
<1>5. Sorted(ring'[t]) /\ \A c : In(ring'[t], c) => b < c BY <1>1, <1>2, SortedTail
<1> HIDE DEF b
<1>6. ~In(ring'[t], b) /\ ~In(queue[t], b) /\ ~InHand(t, b) /\ ~InView(t, b)
  <2>1. ~(b < b) BY <1>3 DEF Batches
  <2>2. view = 0 BY DEF PhaseInv
  <2> QED BY <1>3, <1>4, <1>5, <2>1, <2>2 DEF OrderInv, InView, Batches
<1>7. \A u \in Taps, c \in Batches : /\ InView(u, c)' <=> InView(u, c)
                                     /\ InHand(u, c)' <=> InHand(u, c)
  BY DEF InView, InHand, Sink
<1>8. \A u \in Taps, c \in Batches : Held(u, c)' <=> Held(u, c) /\ ~(u = t /\ c = b)
  BY <1>2, <1>4, <1>6, <1>7 DEF Held
<1>9. \A u \in Taps : Sorted(queue'[u]) /\ Sorted(ring'[u]) BY <1>2, <1>5 DEF OrderInv
<1>10. \A u \in Taps, c \in Batches : In(ring'[u], c) => In(ring[u], c)
  BY <1>2, <1>4
<1>11. Drops(t, b) BY <1>4, <1>7, <1>8, <1>9, <1>10 DEF Drops, Held
<1> QED BY <1>3, <1>11 DEF b

LEMMA DrainDrops ==
  ASSUME TypeOK, ThreadInv, PhaseInv, OrderInv, NEW t \in Taps, phase = "destroy",
         queue[t] # <<>>, queue' = [queue EXCEPT ![t] = Tail(@)],
         UNCHANGED <<ring, tpc, cur, view, pos>>
  PROVE  Head(queue[t]) \in Batches /\ Drops(t, Head(queue[t]))
<1> DEFINE b == Head(queue[t])
<1>1. /\ queue[t] \in Seq(Batches) /\ queue[t] \in Seq(Nat) /\ Sorted(queue[t])
  BY DEF TypeOK, Batches, OrderInv
<1>2. queue'[t] = Tail(queue[t]) /\ \A u \in Taps \ {t} : queue'[u] = queue[u]
  BY DEF TypeOK
<1>3. b \in Batches BY <1>1, TailShape
<1>4. In(queue[t], b) /\ \A c : In(queue[t], c) <=> c = b \/ In(queue'[t], c)
  BY <1>1, <1>2, InTail
<1>5. Sorted(queue'[t]) /\ \A c : In(queue'[t], c) => b < c BY <1>1, <1>2, SortedTail
<1> HIDE DEF b
<1>6. ~In(queue'[t], b) /\ ~In(ring[t], b) /\ ~InHand(t, b) /\ ~InView(t, b)
  <2>1. ~(b < b) BY <1>3 DEF Batches
  <2>2. view = 0 BY DEF PhaseInv
  <2> QED BY <1>3, <1>4, <1>5, <2>1, <2>2 DEF OrderInv, InView, Batches
<1>7. \A u \in Taps, c \in Batches : /\ InView(u, c)' <=> InView(u, c)
                                     /\ InHand(u, c)' <=> InHand(u, c)
  BY DEF InView, InHand, Sink
<1>8. \A u \in Taps, c \in Batches : Held(u, c)' <=> Held(u, c) /\ ~(u = t /\ c = b)
  BY <1>2, <1>4, <1>6, <1>7 DEF Held
<1>9. \A u \in Taps : Sorted(queue'[u]) /\ Sorted(ring'[u]) BY <1>2, <1>5 DEF OrderInv
<1>10. \A u \in Taps, c \in Batches : In(queue'[u], c) => In(queue[u], c)
  BY <1>2, <1>4
<1>11. Drops(t, b) BY <1>4, <1>7, <1>8, <1>9, <1>10 DEF Drops, Held
<1> QED BY <1>3, <1>11 DEF b

(* A node is queued on one tap more.                                        *)
LEMMA PushAdds ==
  ASSUME TypeOK, ThreadInv, OrderInv, CountInv, NEW t \in Taps, TPush(t)
  PROVE  /\ cur[t] \in Batches /\ cur[t] = pulled /\ nxt[t] \in Taps
         /\ Holders(cur[t]) = 1 .. nxt[t] - 1
         /\ \A u \in Taps, c \in Batches :
              /\ In(queue'[u], c) <=> In(queue[u], c) \/ (u = nxt[t] /\ c = cur[t])
              /\ In(ring'[u], c) <=> In(ring[u], c)
              /\ InHand(u, c)' <=> InHand(u, c)
              /\ InView(u, c)' <=> InView(u, c)
              /\ Held(u, c)' <=> Held(u, c) \/ (u = nxt[t] /\ c = cur[t])
         /\ \A u \in Taps : Sorted(queue'[u]) /\ Sorted(ring'[u])
         /\ queue' \in [Taps -> Seq(Batches)]
         /\ queue'[nxt[t]] = Append(queue[nxt[t]], cur[t])
         /\ \A u \in Taps \ {nxt[t]} : queue'[u] = queue[u]
<1> DEFINE n == nxt[t]
           b == cur[t]
<1>1. /\ tpc[t] = "push" /\ cur[t] = pulled /\ pulled > 0 /\ nxt[t] \in Taps
  BY DEF TPush, ThreadInv
<1>2. cur[t] \in Batches /\ cur[t] \in Nat BY <1>1 DEF TypeOK, Batches
<1>3. Pushing(t, b) BY <1>1 DEF Pushing
<1>4. Holders(b) = 1 .. n - 1 BY <1>2, <1>3 DEF CountInv
<1>5. /\ queue' = [queue EXCEPT ![n] = Append(@, b)] /\ UNCHANGED <<ring, view, pos>>
  BY DEF TPush, Enqueue, edge, driver
<1>6. \A u \in Taps, c \in Batches : InHand(u, c)' <=> InHand(u, c)
  <2>1. \A u \in Taps : tpc[u] # "put" BY <1>1, OneRuns DEF Running
  <2>2. \A u \in Taps : tpc'[u] # "put" BY <2>1 DEF TPush, Goto, TypeOK
  <2> QED BY <2>1, <2>2 DEF InHand
<1>7. queue[n] \in Seq(Batches) /\ queue[n] \in Seq(Nat) /\ Sorted(queue[n])
  <2>1. queue[n] \in Seq(Batches) BY <1>1 DEF TypeOK
  <2>2. queue[n] \in Seq(Nat) BY <2>1 DEF Batches
  <2> QED BY <1>1, <2>1, <2>2 DEF OrderInv
<1>8. queue'[n] = Append(queue[n], b) /\ \A u \in Taps \ {n} : queue'[u] = queue[u]
  BY <1>1, <1>5 DEF TypeOK
<1>9. \A c : In(queue'[n], c) <=> In(queue[n], c) \/ c = b BY <1>2, <1>7, <1>8, InAppend
<1>10. Sorted(queue'[n])
  <2>1. n \notin Holders(b) BY <1>1, <1>4 DEF Taps
  <2>2. \A c : In(queue[n], c) => c \in Batches BY <1>7 DEF In
  <2>3. \A c \in Batches : In(queue[n], c) => c <= b
    BY <1>1 DEF OrderInv, Held
  <2>4. ~In(queue[n], b) BY <1>1, <2>1 DEF Holders, Held
  <2>5. \A c \in Nat : In(queue[n], c) => c < b BY <1>2, <2>2, <2>3, <2>4
  <2> QED BY <1>2, <1>7, <1>8, <2>5, SortedAppend
<1>11. queue' \in [Taps -> Seq(Batches)]
  <2>1. Append(queue[n], b) \in Seq(Batches) BY <1>2, <1>7, AppendShape
  <2> QED BY <1>5, <2>1 DEF TypeOK
<1>12. \A u \in Taps, c \in Batches : InView(u, c)' <=> InView(u, c)
  BY <1>5 DEF InView, Sink
<1>13. \A u \in Taps : Sorted(queue'[u]) /\ Sorted(ring'[u])
  BY <1>5, <1>8, <1>10 DEF OrderInv
<1>14. \A u \in Taps, c \in Batches :
         In(queue'[u], c) <=> In(queue[u], c) \/ (u = n /\ c = b)
  BY <1>8, <1>9
<1>15. \A u \in Taps, c \in Batches : In(ring'[u], c) <=> In(ring[u], c) BY <1>5
<1> HIDE DEF n, b
<1>16. \A u \in Taps, c \in Batches : Held(u, c)' <=> Held(u, c) \/ (u = n /\ c = b)
  BY <1>6, <1>12, <1>14, <1>15 DEF Held
<1> QED BY <1>1, <1>2, <1>4, <1>6, <1>8, <1>11, <1>12, <1>13, <1>14, <1>15, <1>16 DEF n, b

------------------------------------------------------------------------------
(* Every step keeps the order of the references                             *)

LEMMA OrderDrops ==
  ASSUME TypeOK, ThreadInv, OrderInv, NEW t \in Taps, NEW b, Drops(t, b),
         pulled' = pulled, \A u \in Taps : (tpc'[u] = "push") => (tpc[u] = "push")
  PROVE  OrderInv'
<1>1. \A u \in Taps : InOrder(u)' BY DEF Drops, InOrder, OrderInv
<1> QED BY <1>1, OrderMoves DEF Drops

LEMMA OrderKept ==
  ASSUME TypeOK, ThreadInv, OrderInv, UNCHANGED <<queue, ring, view, pulled>>,
         view = 0 \/ pos' = pos,
         \A u \in Taps, c \in Batches : InHand(u, c)' <=> InHand(u, c),
         \A u \in Taps : (tpc'[u] = "push") => (tpc[u] = "push")
  PROVE  OrderInv'
<1>1. \A u \in Taps, c \in Batches : InView(u, c)' <=> InView(u, c) BY HeldKept
<1>2. \A u \in Taps : InOrder(u)' BY <1>1 DEF InOrder, OrderInv
<1>3. \A u \in Taps : Sorted(queue'[u]) /\ Sorted(ring'[u]) BY DEF OrderInv
<1> QED BY <1>1, <1>2, <1>3, OrderMoves

LEMMA OrderThread ==
  ASSUME TypeOK, ThreadInv, OrderInv, CountInv, NEW t \in Taps, Thread(t)
  PROVE  OrderInv'
<1>1. CASE TRoom(t)
  BY <1>1, OrderKept DEF TRoom, Goto, TypeOK, mc, up, edge, driver, InHand
<1>2. CASE TEof(t)
  BY <1>2, OrderKept DEF TEof, Leave, Goto, TypeOK, mc, up, driver, InHand
<1>3. CASE TPop(t)
  <2>1. /\ pulled' = pulled /\ tpc[t] = "check"
        /\ \A u \in Taps : (tpc'[u] = "push") => (tpc[u] = "push")
    BY <1>3 DEF TPop, up, Goto, TypeOK
  <2>2. /\ cur'[t] \in Batches /\ In(queue[t], cur'[t])
        /\ \A u \in Taps, c \in Batches :
             /\ In(queue[u], c) <=> In(queue'[u], c) \/ (u = t /\ c = cur'[t])
             /\ InHand(u, c)' <=> InHand(u, c) \/ (u = t /\ c = cur'[t])
             /\ In(ring'[u], c) <=> In(ring[u], c)
             /\ InView(u, c)' <=> InView(u, c)
        /\ \A u \in Taps : Sorted(queue'[u]) /\ ring'[u] = ring[u]
        /\ \A c \in Batches : In(queue'[t], c) => cur'[t] < c
    BY <1>3, PopMoves
  <2>3. \A c \in Batches : ~InHand(t, c) BY <2>1 DEF InHand
  <2>4. \A u \in Taps : InOrder(u)' BY <2>2, <2>3 DEF InOrder, OrderInv
  <2>5. \A u \in Taps : Sorted(ring'[u]) BY <2>2 DEF OrderInv
  <2> QED BY <2>1, <2>2, <2>4, <2>5, OrderMoves
<1>4. CASE TPullOne(t)
  BY <1>4, OrderKept DEF TPullOne, Goto, TypeOK, mc, up, edge, driver, InHand
<1>5. CASE TUpstreamEnds(t)
  BY <1>5, OrderKept DEF TUpstreamEnds, Leave, Goto, TypeOK, driver, InHand
<1>6. CASE TUpstreamBatch(t)
  <2>1. /\ tpc[t] = "up" /\ UNCHANGED <<queue, ring, view, pos>> /\ pulled' = pulled + 1
        /\ tpc'[t] # "put" /\ \A u \in Taps \ {t} : tpc'[u] = tpc[u] /\ cur'[u] = cur[u]
    BY <1>6 DEF TUpstreamBatch, Leave, Goto, TypeOK, driver
  <2>2. \A u \in Taps, c \in Batches : InHand(u, c)' <=> InHand(u, c) BY <2>1 DEF InHand
  <2>3. \A u \in Taps, c \in Batches : /\ InView(u, c)' <=> InView(u, c)
                                       /\ Held(u, c)' <=> Held(u, c)
    BY <2>1, <2>2, HeldKept
  <2>4. \A u \in Taps : InOrder(u)' BY <2>1, <2>2, <2>3 DEF InOrder, OrderInv
  <2>5. pulled \in Nat /\ pulled' \in Batches
    BY <1>6, <2>1 DEF TUpstreamBatch, TypeOK, Batches
  <2>6. \A u \in Taps, c \in Batches : Held(u, c)' => c <= pulled
    BY <2>3 DEF OrderInv
  <2>7. \A u \in Taps, c \in Batches : Held(u, c)' => c <= pulled'
    BY <2>1, <2>5, <2>6 DEF Batches
  <2>8. \A u \in Taps : ~InView(u, pulled)' /\ ~In(ring'[u], pulled')
    <3>1. \A u \in Taps : ~Held(u, pulled)'
      <4>1. ~(pulled' <= pulled) BY <2>1, <2>5
      <4>2. \A u \in Taps, c \in Batches : c = pulled' => ~Held(u, c)'
        BY <4>1, <2>6
      <4>3. \A u \in Taps, c \in Batches : c = pulled' /\ Held(u, pulled)' => Held(u, c)'
        BY DEF Held, InHand, InView
      <4> QED BY <2>5, <4>2, <4>3
    <3> QED BY <3>1 DEF Held
  <2>9. \A u \in Taps : Sorted(queue'[u]) /\ Sorted(ring'[u]) BY <2>1 DEF OrderInv
  <2> QED BY <2>4, <2>7, <2>8, <2>9 DEF OrderInv, InOrder
<1>7. CASE TPush(t)
  <2>1. /\ cur[t] \in Batches /\ cur[t] = pulled /\ nxt[t] \in Taps
        /\ \A u \in Taps, c \in Batches :
             /\ In(queue'[u], c) <=> In(queue[u], c) \/ (u = nxt[t] /\ c = cur[t])
             /\ In(ring'[u], c) <=> In(ring[u], c)
             /\ InHand(u, c)' <=> InHand(u, c)
             /\ InView(u, c)' <=> InView(u, c)
             /\ Held(u, c)' <=> Held(u, c) \/ (u = nxt[t] /\ c = cur[t])
        /\ \A u \in Taps : Sorted(queue'[u]) /\ Sorted(ring'[u])
    BY <1>7, PushAdds
  <2>2. tpc[t] = "push" /\ UNCHANGED <<pulled, view, ring, pos>>
    BY <1>7 DEF TPush, up, edge, driver
  <2>3. \A u \in Taps : ~InView(u, pulled) /\ ~In(ring[u], pulled) /\ ~InHand(u, pulled)
    BY <2>1, <2>2, PushedIsQueued
  <2>4. \A u \in Taps, c \in Batches :
          In(ring[u], c) \/ InHand(u, c) \/ InView(u, c) => c < pulled
    <3>1. \A u \in Taps, c \in Batches :
            In(ring[u], c) \/ InHand(u, c) \/ InView(u, c) => c <= pulled /\ c # pulled
      BY <2>3 DEF OrderInv, Held
    <3> QED BY <2>1, <3>1 DEF Batches
  <2>5. \A u \in Taps : InOrder(u)' BY <2>1, <2>4 DEF InOrder, OrderInv
  <2>6. \A u \in Taps, c \in Batches : Held(u, c)' => c <= pulled'
    BY <2>1, <2>2 DEF OrderInv, Batches
  <2>7. \A u \in Taps : ~InView(u, pulled)' /\ ~In(ring'[u], pulled')
    BY <2>2, <2>3 DEF InView, Sink
  <2> QED BY <2>1, <2>5, <2>6, <2>7 DEF OrderInv, InOrder
<1>8. CASE TPushFails(t)
  <2>1. \A u \in Taps, c \in Batches : InHand(u, c)' <=> InHand(u, c)
    BY <1>8 DEF TPushFails, Leave, Goto, TypeOK, InHand
  <2> QED BY <1>8, <2>1, OrderKept DEF TPushFails, Leave, Goto, TypeOK, up, driver
<1>9. CASE TPut(t)
  <2>1. pulled' = pulled /\ \A u \in Taps : (tpc'[u] = "push") => (tpc[u] = "push")
    BY <1>9 DEF TPut, up, Goto, TypeOK
  <2>2. CASE stop[t] BY <1>9, <2>1, <2>2, StoppedPutDrops, OrderDrops
  <2>3. CASE ~stop[t]
    <3>1. /\ cur[t] \in Batches /\ InHand(t, cur[t])
          /\ \A u \in Taps, c \in Batches :
               /\ In(queue'[u], c) <=> In(queue[u], c)
               /\ InHand(u, c)' <=> InHand(u, c) /\ u # t
               /\ In(ring'[u], c) <=> In(ring[u], c) \/ (u = t /\ c = cur[t])
               /\ InView(u, c)' <=> InView(u, c)
          /\ \A u \in Taps : queue'[u] = queue[u] /\ Sorted(ring'[u])
      BY <1>9, <2>3, PutMoves
    <3>2. \A u \in Taps : InOrder(u)' BY <3>1 DEF InOrder, OrderInv
    <3>3. \A u \in Taps : Sorted(queue'[u]) BY <3>1 DEF OrderInv
    <3> QED BY <2>1, <3>1, <3>2, <3>3, OrderMoves
  <2> QED BY <2>2, <2>3
<1> QED BY <1>1, <1>2, <1>3, <1>4, <1>5, <1>6, <1>7, <1>8, <1>9 DEF Thread

LEMMA OrderDriver ==
  ASSUME TypeOK, ThreadInv, PhaseInv, OrderInv, Driver
  PROVE  OrderInv'
<1>1. CASE DStart
  BY <1>1, OrderKept DEF DStart, Goto, TypeOK, mc, up, edge, driver, InHand
<1>2. CASE DPull
  <2>1. /\ Sink \in Taps /\ view' \in Batches /\ In(ring[Sink], view')
        /\ \A u \in Taps, c \in Batches :
             /\ In(queue'[u], c) <=> In(queue[u], c)
             /\ InHand(u, c)' <=> InHand(u, c)
             /\ In(ring[u], c) <=> In(ring'[u], c) \/ (u = Sink /\ c = view')
             /\ ~InView(u, c)
             /\ InView(u, c)' <=> (u = Sink /\ c = view')
        /\ \A u \in Taps : queue'[u] = queue[u] /\ Sorted(ring'[u])
        /\ \A c \in Batches : In(ring'[Sink], c) => view' < c
    BY <1>2, PullMoves
  <2>2. pulled' = pulled /\ tpc' = tpc BY <1>2 DEF DPull, up, thread
  <2>3. \A u \in Taps : InOrder(u)' BY <2>1 DEF InOrder, OrderInv
  <2>4. \A u \in Taps : Sorted(queue'[u]) BY <2>1 DEF OrderInv
  <2> QED BY <2>1, <2>2, <2>3, <2>4, OrderMoves
<1>3. CASE DRelease
  <2>1. pulled' = pulled /\ tpc' = tpc BY <1>3 DEF DRelease, up, thread
  <2> QED BY <1>3, <2>1, ReleaseDrops, OrderDrops
<1>4. CASE DNextSink \/ DStop \/ DStopEdge \/ DEdgesReleased \/ DDestroyed
  <2>1. /\ UNCHANGED <<queue, ring, view, pulled, tpc, cur>>
        /\ view = 0 \/ pos' = pos
    BY <1>4 DEF DNextSink, DStop, DStopEdge, DEdgesReleased, DDestroyed, Driving, mc, up,
                thread, edge, driver
  <2>2. \A u \in Taps, c \in Batches : InHand(u, c)' <=> InHand(u, c) BY <2>1 DEF InHand
  <2> QED BY <2>1, <2>2, OrderKept
<1>5. CASE DDrainEdge
  <2>1. PICK t \in Taps :
          /\ phase = "release" /\ Joined(t) /\ ring[t] # <<>>
          /\ ring' = [ring EXCEPT ![t] = Tail(@)]
    BY <1>5, SinksAreTaps DEF DDrainEdge
  <2>2. UNCHANGED <<queue, tpc, cur, view, pos, pulled>>
    BY <1>5 DEF DDrainEdge, up, thread, driver
  <2>3. Head(ring[t]) \in Batches /\ Drops(t, Head(ring[t]))
    BY <2>1, <2>2, DrainEdgeDrops
  <2> QED BY <2>2, <2>3, OrderDrops
<1>6. CASE DDrain
  <2>1. PICK t \in Taps :
          /\ phase = "destroy" /\ queue[t] # <<>> /\ queue' = [queue EXCEPT ![t] = Tail(@)]
    BY <1>6 DEF DDrain
  <2>2. UNCHANGED <<ring, tpc, cur, view, pos, pulled>>
    BY <1>6 DEF DDrain, up, thread, edge, driver
  <2>3. Head(queue[t]) \in Batches /\ Drops(t, Head(queue[t]))
    BY <2>1, <2>2, DrainDrops
  <2> QED BY <2>2, <2>3, OrderDrops
<1> QED BY <1>1, <1>2, <1>3, <1>4, <1>5, <1>6 DEF Driver

------------------------------------------------------------------------------
(* Every step keeps the counts                                              *)

LEMMA CountDrops ==
  ASSUME TypeOK, ThreadInv, OrderInv, CountInv, NEW t \in Taps, NEW b \in Batches,
         Drops(t, b), \A u \in Taps : ~Pushing(u, b),
         \A u \in Taps, c \in Batches : Pushing(u, c)' <=> Pushing(u, c),
         UNCHANGED <<nxt, pulled>>, SharedRelease(b)
  PROVE  /\ CountInv' /\ refcount' \in [Batches -> 0 .. NTaps]
         /\ released' \in SUBSET Batches
BY CountReleased DEF Drops

LEMMA CountThread ==
  ASSUME TypeOK, ThreadInv, OrderInv, CountInv, NEW t \in Taps, Thread(t)
  PROVE  /\ CountInv' /\ refcount' \in [Batches -> 0 .. NTaps]
         /\ released' \in SUBSET Batches
<1>0. refcount \in [Batches -> 0 .. NTaps] /\ released \in SUBSET Batches
  BY DEF TypeOK
<1>1. ASSUME UNCHANGED <<queue, ring, view, pos, nxt, pulled, refcount, released>>,
             \A u \in Taps : tpc[u] \in {"push", "put"} \/ tpc'[u] \in {"push", "put"}
                             => tpc'[u] = tpc[u] /\ cur'[u] = cur[u]
      PROVE  CountInv'
  <2>1. \A u \in Taps, c \in Batches : InHand(u, c)' <=> InHand(u, c)
    BY <1>1 DEF InHand
  <2>2. \A u \in Taps, c \in Batches : Held(u, c)' <=> Held(u, c)
    BY <1>1, <2>1, HeldKept
  <2>3. \A u \in Taps, c \in Batches : Pushing(u, c)' <=> Pushing(u, c)
    BY <1>1 DEF Pushing
  <2> QED BY <1>1, <2>2, <2>3, CountKept
<1>2. CASE TRoom(t)
  BY <1>0, <1>1, <1>2 DEF TRoom, Goto, TypeOK, mc, up, edge, driver
<1>3. CASE TEof(t)
  BY <1>0, <1>1, <1>3 DEF TEof, Leave, Goto, TypeOK, mc, up, driver
<1>4. CASE TPop(t)
  <2>1. /\ UNCHANGED <<nxt, pulled, refcount, released>> /\ tpc[t] = "check"
        /\ tpc'[t] = "put" /\ \A u \in Taps \ {t} : tpc'[u] = tpc[u] /\ cur'[u] = cur[u]
    BY <1>4 DEF TPop, up, Goto, TypeOK
  <2>2. \A u \in Taps, c \in Batches : Pushing(u, c)' <=> Pushing(u, c)
    BY <2>1 DEF Pushing
  <2>3. \A u \in Taps, c \in Batches : Held(u, c)' <=> Held(u, c)
    BY <1>4, PopMoves DEF Held
  <2> QED BY <1>0, <2>1, <2>2, <2>3, CountKept
<1>5. CASE TPullOne(t)
  BY <1>0, <1>1, <1>5 DEF TPullOne, Goto, TypeOK, mc, up, edge, driver
<1>6. CASE TUpstreamEnds(t)
  BY <1>0, <1>1, <1>6 DEF TUpstreamEnds, Leave, Goto, TypeOK, driver
<1>7. CASE TUpstreamBatch(t)
  <2>0. PICK b \in Batches : b = pulled + 1
    BY <1>7 DEF TUpstreamBatch, TypeOK, Batches
  <2>1. /\ tpc[t] = "up" /\ UNCHANGED <<queue, ring, view, pos>> /\ pulled' = pulled + 1
        /\ tpc'[t] # "put" /\ \A u \in Taps \ {t} : tpc'[u] = tpc[u] /\ cur'[u] = cur[u]
    BY <1>7 DEF TUpstreamBatch, Leave, Goto, TypeOK, driver
  <2>2. \A u \in Taps, c \in Batches : InHand(u, c)' <=> InHand(u, c) BY <2>1 DEF InHand
  <2>3. \A u \in Taps, c \in Batches : Held(u, c)' <=> Held(u, c)
    BY <2>1, <2>2, HeldKept
  <2>4. pulled \in Nat /\ pulled' = b BY <2>0, <2>1 DEF TypeOK
  <2>5. \A c \in Batches : Holders(c)' = Holders(c) BY <2>3 DEF Holders
  <2>6. Holders(b) = {}
    <3>1. ~(b <= pulled) BY <2>0, <2>4
    <3> QED BY <2>4, <3>1 DEF Holders, OrderInv
  <2>7. \A u \in Taps : tpc[u] # "push" BY <2>1, OneRuns DEF Running
  <2>8. \A c \in Batches : refcount[c] = Cardinality(Holders(c))
    BY <2>7 DEF CountInv, Pushing
  <2>9. refcount[b] = 0 BY <2>4, <2>6, <2>8, FS_EmptySet
  <2>10. 1 .. pulled' = (1 .. pulled) \cup {b} /\ b \notin 1 .. pulled BY <2>0, <2>4
  <2>11. CASE tpc'[t] = "push"
    <3>1. /\ refcount' = [refcount EXCEPT ![b] = NTaps] /\ cur'[t] = b /\ nxt'[t] = 1
          /\ released' = released
      BY <1>7, <2>0, <2>11 DEF TUpstreamBatch, Leave, Goto, TypeOK, InitialRefs
    <3>2. refcount' \in [Batches -> 0 .. NTaps] BY <1>0, <3>1
    <3>3. refcount'[b] = NTaps /\ \A c \in Batches \ {b} : refcount'[c] = refcount[c]
      BY <1>0, <2>4, <3>1
    <3>4. \A u \in Taps, c \in Batches : Pushing(u, c)' <=> (u = t /\ c = b)
      BY <2>1, <2>7, <2>11, <3>1 DEF Pushing
    <3>5. Holders(b)' = 1 .. nxt'[t] - 1 BY <2>4, <2>5, <2>6, <3>1
    <3>6. released' = {c \in 1 .. pulled' : refcount'[c] = 0}
      <4>1. 1 .. pulled \subseteq Batches BY DEF TypeOK, Batches
      <4> QED BY <2>10, <3>1, <3>3, <4>1 DEF CountInv
    <3>7. ASSUME NEW c \in Batches
          PROVE  IF \E u \in Taps : Pushing(u, c)'
                   THEN /\ refcount'[c] = NTaps
                        /\ \A u \in Taps : Pushing(u, c)' => Holders(c)' = 1 .. nxt'[u] - 1
                   ELSE refcount'[c] = Cardinality(Holders(c)')
      <4>1. CASE c = b BY <3>3, <3>4, <3>5, <4>1
      <4>2. CASE c # b BY <2>5, <2>8, <3>3, <3>4, <4>2
      <4> QED BY <4>1, <4>2
    <3> QED BY <1>0, <3>1, <3>2, <3>6, <3>7 DEF CountInv
  <2>12. CASE tpc'[t] # "push"
    <3>1. released' = released \cup {b} /\ refcount' = refcount
      BY <1>7, <2>0, <2>12 DEF TUpstreamBatch, Goto, TypeOK
    <3>2. \A u \in Taps, c \in Batches : ~Pushing(u, c)'
      BY <2>1, <2>7, <2>12 DEF Pushing
    <3>3. released' = {c \in 1 .. pulled' : refcount'[c] = 0}
      BY <2>9, <2>10, <3>1 DEF CountInv
    <3> QED BY <1>0, <2>4, <2>5, <2>8, <3>1, <3>2, <3>3 DEF CountInv
  <2> QED BY <2>11, <2>12
<1>8. CASE TPush(t)
  <2>0. PICK b \in Batches, n \in Taps : b = cur[t] /\ n = nxt[t]
    BY <1>8, PushAdds
  <2>1. /\ b \in Batches /\ b = pulled /\ n \in Taps /\ Holders(b) = 1 .. n - 1
        /\ \A u \in Taps, c \in Batches :
             Held(u, c)' <=> Held(u, c) \/ (u = n /\ c = b)
    BY <1>8, <2>0, PushAdds
  <2>2. /\ tpc[t] = "push" /\ UNCHANGED <<refcount, released, pulled>>
        /\ nxt' = [nxt EXCEPT ![t] = n + 1] /\ nxt'[t] = n + 1
        /\ \A u \in Taps \ {t} : tpc'[u] = tpc[u] /\ cur'[u] = cur[u]
        /\ IF n = NTaps THEN tpc'[t] = "check" ELSE tpc'[t] = "push" /\ cur'[t] = b
    BY <1>8, <2>0 DEF TPush, Goto, TypeOK, up
  <2>3. Holders(b)' = 1 .. n
    <3>1. Holders(b)' = Holders(b) \cup {n} BY <2>1 DEF Holders
    <3>2. n \in Nat \ {0} BY <2>1 DEF Taps
    <3> QED BY <2>1, <3>1, <3>2
  <2>4. \A c \in Batches \ {b} : Holders(c)' = Holders(c) BY <2>1 DEF Holders
  <2>5. \A u \in Taps \ {t} : tpc[u] # "push" BY <2>2, OneRuns DEF Running
  <2>6. Pushing(t, b) /\ refcount[b] = NTaps BY <2>0, <2>1, <2>2 DEF Pushing, CountInv
  <2>7. \A c \in Batches \ {b} : refcount[c] = Cardinality(Holders(c))
    BY <2>0, <2>5 DEF CountInv, Pushing
  <2>8. \A u \in Taps, c \in Batches : Pushing(u, c)' <=> (u = t /\ c = b /\ n # NTaps)
    BY <2>0, <2>2, <2>5 DEF Pushing
  <2>9. Cardinality(1 .. NTaps) = NTaps /\ n + 1 - 1 = n
    BY <2>1, IntervalCard DEF Taps
  <2>10. ASSUME NEW c \in Batches
         PROVE  IF \E u \in Taps : Pushing(u, c)'
                  THEN /\ refcount'[c] = NTaps
                       /\ \A u \in Taps : Pushing(u, c)' => Holders(c)' = 1 .. nxt'[u] - 1
                  ELSE refcount'[c] = Cardinality(Holders(c)')
    <3>1. CASE c = b
      <4>1. refcount'[c] = NTaps /\ Holders(c)' = 1 .. n
        BY <2>2, <2>3, <2>6, <3>1
      <4>2. CASE n = NTaps BY <2>8, <2>9, <4>1, <4>2
      <4>3. CASE n # NTaps
        <5>1. Pushing(t, c)' /\ \A u \in Taps : Pushing(u, c)' => u = t
          BY <2>8, <3>1, <4>3
        <5>2. nxt'[t] - 1 = n
          <6>1. n \in Nat /\ nxt'[t] = n + 1 BY <2>2 DEF Taps
          <6> QED BY <6>1
        <5> QED BY <4>1, <5>1, <5>2
      <4> QED BY <4>2, <4>3
    <3>2. CASE c # b BY <2>2, <2>4, <2>7, <2>8, <3>2
    <3> QED BY <3>1, <3>2
  <2>11. released' = {c \in 1 .. pulled' : refcount'[c] = 0}
    BY <2>2 DEF CountInv
  <2> QED BY <1>0, <2>2, <2>10, <2>11 DEF CountInv
<1>9. CASE TPushFails(t)
  <2>0. PICK b \in Batches, n \in Taps : b = cur[t] /\ n = nxt[t]
    BY <1>9 DEF TPushFails, ThreadInv, TypeOK, Batches
  <2>1. /\ tpc[t] = "push" /\ b = pulled /\ n \in Taps /\ pulled > 0
    BY <1>9, <2>0 DEF TPushFails, ThreadInv
  <2>2. /\ UNCHANGED <<queue, ring, view, pos, nxt, pulled>>
        /\ refcount' = [refcount EXCEPT ![b] = n - 1]
        /\ released' = IF n = 1 THEN released \cup {b} ELSE released
        /\ tpc'[t] = "exit" /\ \A u \in Taps \ {t} : tpc'[u] = tpc[u] /\ cur'[u] = cur[u]
    BY <1>9, <2>0 DEF TPushFails, Leave, Goto, TypeOK, CollapsedRefs, up, driver
  <2>3. pulled \in Nat /\ b \in 1 .. pulled
    BY <2>1 DEF TypeOK, Batches
  <2>4. n - 1 \in 0 .. NTaps BY <2>1 DEF Taps
  <2>5. Pushing(t, b) /\ Holders(b) = 1 .. n - 1 /\ refcount[b] = NTaps
    BY <2>0, <2>1, <2>3 DEF Pushing, CountInv
  <2>6. \A u \in Taps \ {t} : tpc[u] # "push" BY <2>1, OneRuns DEF Running
  <2>7. \A u \in Taps, c \in Batches : ~Pushing(u, c)' BY <2>2, <2>6 DEF Pushing
  <2>8. \A u \in Taps, c \in Batches : InHand(u, c)' <=> InHand(u, c)
    BY <2>1, <2>2 DEF InHand
  <2>9. \A u \in Taps, c \in Batches : Held(u, c)' <=> Held(u, c)
    BY <2>2, <2>8, HeldKept
  <2>10. \A c \in Batches : Holders(c)' = Holders(c) BY <2>9 DEF Holders
  <2>11. refcount' \in [Batches -> 0 .. NTaps] BY <1>0, <2>2, <2>4
  <2>12. refcount'[b] = n - 1 /\ \A c \in Batches \ {b} : refcount'[c] = refcount[c]
    BY <1>0, <2>2, <2>3
  <2>13. \A c \in Batches \ {b} : refcount[c] = Cardinality(Holders(c))
    BY <2>0, <2>6 DEF CountInv, Pushing
  <2>14. Cardinality(1 .. n - 1) = n - 1 BY <2>4, IntervalCard
  <2>15. \A c \in Batches : refcount'[c] = Cardinality(Holders(c)')
    BY <2>5, <2>10, <2>12, <2>13, <2>14
  <2>16. released' = {c \in 1 .. pulled' : refcount'[c] = 0}
    <3>1. 1 .. pulled \subseteq Batches BY DEF TypeOK, Batches
    <3>2. b \notin released BY <2>5 DEF CountInv
    <3>3. n - 1 = 0 <=> n = 1 BY <2>1 DEF Taps
    <3> QED BY <2>2, <2>3, <2>12, <3>1, <3>2, <3>3 DEF CountInv
  <2>17. released' \in SUBSET Batches BY <2>2, <2>16 DEF TypeOK, Batches
  <2> QED BY <2>7, <2>11, <2>15, <2>16, <2>17 DEF CountInv
<1>10. CASE TPut(t)
  <2>1. /\ UNCHANGED <<nxt, pulled>> /\ tpc[t] = "put" /\ tpc'[t] # "push"
        /\ \A u \in Taps \ {t} : tpc'[u] = tpc[u] /\ cur'[u] = cur[u]
    BY <1>10 DEF TPut, up, Goto, TypeOK
  <2>2. \A u \in Taps, c \in Batches : Pushing(u, c)' <=> Pushing(u, c)
    BY <2>1 DEF Pushing
  <2>3. \A u \in Taps : tpc[u] # "push" BY <2>1, OneRuns DEF Running
  <2>4. CASE stop[t]
    <3>1. cur[t] \in Batches /\ Drops(t, cur[t]) BY <1>10, <2>4, StoppedPutDrops
    <3>2. SharedRelease(cur[t]) BY <1>10, <2>4 DEF TPut
    <3>3. \A u \in Taps : ~Pushing(u, cur[t]) BY <2>3 DEF Pushing
    <3> QED BY <2>1, <2>2, <3>1, <3>2, <3>3, CountDrops
  <2>5. CASE ~stop[t]
    <3>1. UNCHANGED <<refcount, released>> BY <1>10, <2>5 DEF TPut
    <3>2. \A u \in Taps, c \in Batches : InHand(t, c) <=> c = cur[t]
      BY <2>1 DEF InHand
    <3>3. \A u \in Taps, c \in Batches : Held(u, c)' <=> Held(u, c)
      BY <1>10, <2>5, <3>2, PutMoves DEF Held
    <3> QED BY <1>0, <2>1, <2>2, <3>1, <3>3, CountKept
  <2> QED BY <2>4, <2>5
<1> QED BY <1>2, <1>3, <1>4, <1>5, <1>6, <1>7, <1>8, <1>9, <1>10 DEF Thread

LEMMA CountDriver ==
  ASSUME TypeOK, ThreadInv, PhaseInv, OrderInv, CountInv, Driver
  PROVE  /\ CountInv' /\ refcount' \in [Batches -> 0 .. NTaps]
         /\ released' \in SUBSET Batches
<1>0. refcount \in [Batches -> 0 .. NTaps] /\ released \in SUBSET Batches
  BY DEF TypeOK
<1>1. CASE \/ DStart \/ DPull \/ DNextSink \/ DStop \/ DStopEdge \/ DEdgesReleased
           \/ DDestroyed
  <2>1. /\ UNCHANGED <<nxt, pulled, refcount, released, cur>>
        /\ \A u \in Taps : tpc'[u] # tpc[u] => tpc[u] = "none" /\ tpc'[u] = "room"
    BY <1>1 DEF DStart, DPull, DNextSink, DStop, DStopEdge, DEdgesReleased, DDestroyed,
                Goto, TypeOK, mc, up, thread
  <2>2. \A u \in Taps, c \in Batches : Pushing(u, c)' <=> Pushing(u, c)
    BY <2>1 DEF Pushing
  <2>3. \A u \in Taps, c \in Batches : InHand(u, c)' <=> InHand(u, c)
    BY <2>1 DEF InHand
  <2>4. \A u \in Taps, c \in Batches : Held(u, c)' <=> Held(u, c)
    <3>1. CASE DPull BY <3>1, PullMoves DEF Held
    <3>2. CASE ~DPull
      <4>1. UNCHANGED <<queue, ring, view>> /\ (view = 0 \/ pos' = pos)
        BY <1>1, <3>2 DEF DStart, DNextSink, DStop, DStopEdge, DEdgesReleased, DDestroyed,
                          Driving, mc, edge, driver
      <4> QED BY <2>3, <4>1, HeldKept
    <3> QED BY <3>1, <3>2
  <2> QED BY <1>0, <2>1, <2>2, <2>4, CountKept
<1>2. CASE DRelease
  <2>1. /\ UNCHANGED <<nxt, pulled, tpc, cur>> /\ SharedRelease(view)
    BY <1>2 DEF DRelease, up, thread
  <2>2. view \in Batches /\ Sink \in Taps /\ Drops(Sink, view) BY <1>2, ReleaseDrops
  <2>3. \A u \in Taps : ~Pushing(u, view)
    BY <2>2, PushedIsQueued DEF Pushing, InView
  <2>4. \A u \in Taps, c \in Batches : Pushing(u, c)' <=> Pushing(u, c)
    BY <2>1 DEF Pushing
  <2> QED BY <2>1, <2>2, <2>3, <2>4, CountDrops
<1>3. CASE DDrainEdge
  <2>1. PICK t \in Taps :
          /\ phase = "release" /\ Joined(t) /\ ring[t] # <<>>
          /\ SharedRelease(Head(ring[t])) /\ ring' = [ring EXCEPT ![t] = Tail(@)]
    BY <1>3, SinksAreTaps DEF DDrainEdge
  <2>2. UNCHANGED <<queue, tpc, cur, nxt, view, pos, pulled>>
    BY <1>3 DEF DDrainEdge, up, thread, driver
  <2>3. Head(ring[t]) \in Batches /\ Drops(t, Head(ring[t]))
    BY <2>1, <2>2, DrainEdgeDrops
  <2>4. \A u \in Taps : ~Pushing(u, Head(ring[t]))
    <3>1. In(ring[t], Head(ring[t])) BY <2>1, InTail DEF TypeOK
    <3> QED BY <3>1, PushedIsQueued DEF Pushing
  <2>5. \A u \in Taps, c \in Batches : Pushing(u, c)' <=> Pushing(u, c)
    BY <2>2 DEF Pushing
  <2> QED BY <2>1, <2>2, <2>3, <2>4, <2>5, CountDrops
<1>4. CASE DDrain
  <2>1. PICK t \in Taps :
          /\ phase = "destroy" /\ queue[t] # <<>> /\ SharedRelease(Head(queue[t]))
          /\ queue' = [queue EXCEPT ![t] = Tail(@)]
    BY <1>4 DEF DDrain
  <2>2. UNCHANGED <<ring, tpc, cur, nxt, view, pos, pulled>>
    BY <1>4 DEF DDrain, up, thread, edge, driver
  <2>3. Head(queue[t]) \in Batches /\ Drops(t, Head(queue[t]))
    BY <2>1, <2>2, DrainDrops
  <2>4. \A u \in Taps : tpc[u] # "push" BY <2>1 DEF PhaseInv, Joined
  <2>5. \A u \in Taps, c \in Batches : ~Pushing(u, c) /\ ~Pushing(u, c)'
    BY <2>2, <2>4 DEF Pushing
  <2> QED BY <2>1, <2>2, <2>3, <2>5, CountDrops
<1> QED BY <1>1, <1>2, <1>3, <1>4 DEF Driver

------------------------------------------------------------------------------
(* Types, threads and phases                                                *)

LEMMA TypeThread ==
  ASSUME TypeOK, ThreadInv, OrderInv, CountInv, NEW t \in Taps, Thread(t)
  PROVE  TypeOK'
<1>0. /\ refcount' \in [Batches -> 0 .. NTaps] /\ released' \in SUBSET Batches
      /\ cancel' \in BOOLEAN
  BY CountThread DEF Thread, TypeOK
<1> USE DEF TypeOK, Goto, Leave
<1>1. CASE TRoom(t)
  <2>1. stop' \in [Taps -> BOOLEAN] BY <1>1 DEF TRoom
  <2> QED BY <1>0, <1>1, <2>1 DEF TRoom, mc, up, driver
<1>2. CASE TEof(t) BY <1>0, <1>2 DEF TEof, mc, up, driver
<1>3. CASE TPop(t)
  <2>1. Head(queue[t]) \in Batches /\ Tail(queue[t]) \in Seq(Batches)
    BY <1>3, TailShape DEF TPop
  <2>2. queue' \in [Taps -> Seq(Batches)]
    <3>1. queue' = [queue EXCEPT ![t] = Tail(queue[t])] BY <1>3 DEF TPop
    <3> QED BY <2>1, <3>1
  <2>3. cur' \in [Taps -> 0 .. MaxBatches]
    <3>1. Head(queue[t]) \in 0 .. MaxBatches
      <4>1. PICK h \in Batches : h = Head(queue[t]) BY <2>1
      <4>2. h \in 0 .. MaxBatches BY DEF Batches
      <4> QED BY <4>1, <4>2
    <3>2. cur' = [cur EXCEPT ![t] = Head(queue[t])] BY <1>3 DEF TPop
    <3> QED BY <3>1, <3>2
  <2>4. UNCHANGED <<refcount, upstream_eof, released, up, nxt, edge, driver>> BY <1>3 DEF TPop
  <2>5. tpc' \in [Taps -> {"none", "room", "check", "up", "push", "put", "exit"}]
    BY <1>3 DEF TPop
  <2> QED BY <1>0, <2>2, <2>3, <2>4, <2>5 DEF up, edge, driver
<1>4. CASE TPullOne(t) BY <1>0, <1>4 DEF TPullOne, mc, up, edge, driver
<1>5. CASE TUpstreamEnds(t) BY <1>0, <1>5 DEF TUpstreamEnds, driver
<1>6. CASE TUpstreamBatch(t)
  <2>1. pulled' \in 0 .. MaxBatches BY <1>6 DEF TUpstreamBatch
  <2>2. cur' \in [Taps -> 0 .. MaxBatches]
    <3>1. pulled + 1 \in 0 .. MaxBatches BY <1>6 DEF TUpstreamBatch
    <3>2. cur' = [cur EXCEPT ![t] = pulled + 1] \/ cur' = cur BY <1>6 DEF TUpstreamBatch
    <3> QED BY <3>1, <3>2
  <2>3. nxt' \in [Taps -> 1 .. NTaps + 1]
    <3>1. 1 \in 1 .. NTaps + 1 OBVIOUS
    <3>2. nxt' = [nxt EXCEPT ![t] = 1] \/ nxt' = nxt BY <1>6 DEF TUpstreamBatch
    <3> QED BY <3>1, <3>2
  <2>4. /\ tpc' \in [Taps -> {"none", "room", "check", "up", "push", "put", "exit"}]
        /\ end' \in [Taps -> {"open", "eof", "error"}]
    BY <1>6 DEF TUpstreamBatch
  <2>5. UNCHANGED <<queue, upstream_eof, upEnd, ring, stop, driver>>
    BY <1>6 DEF TUpstreamBatch
  <2> QED BY <1>0, <2>1, <2>2, <2>3, <2>4, <2>5 DEF driver
<1>7. CASE TPush(t)
  <2>1. queue' \in [Taps -> Seq(Batches)] /\ nxt[t] \in Taps BY <1>7, PushAdds
  <2>2. nxt' \in [Taps -> 1 .. NTaps + 1]
    <3>1. \A k \in Taps : k + 1 \in 1 .. NTaps + 1 BY DEF Taps
    <3>2. nxt' = [nxt EXCEPT ![t] = nxt[t] + 1] BY <1>7 DEF TPush
    <3> QED BY <2>1, <3>1, <3>2
  <2>3. cur' \in [Taps -> 0 .. MaxBatches]
    <3>1. 0 \in 0 .. MaxBatches OBVIOUS
    <3>2. cur' = [cur EXCEPT ![t] = 0] \/ cur' = cur BY <1>7 DEF TPush
    <3> QED BY <3>1, <3>2
  <2>4. tpc' \in [Taps -> {"none", "room", "check", "up", "push", "put", "exit"}]
    <3>1. tpc' = [tpc EXCEPT ![t] = "check"] \/ tpc' = tpc BY <1>7 DEF TPush
    <3> QED BY <3>1
  <2>5. UNCHANGED <<refcount, upstream_eof, released, up, edge, driver>> BY <1>7 DEF TPush
  <2> QED BY <1>0, <2>1, <2>2, <2>3, <2>4, <2>5 DEF up, edge, driver
<1>8. CASE TPushFails(t)
  <2>1. cur' \in [Taps -> 0 .. MaxBatches]
    <3>1. 0 \in 0 .. MaxBatches OBVIOUS
    <3> QED BY <1>8, <3>1 DEF TPushFails
  <2>2. /\ tpc' \in [Taps -> {"none", "room", "check", "up", "push", "put", "exit"}]
        /\ end' \in [Taps -> {"open", "eof", "error"}]
    BY <1>8 DEF TPushFails
  <2>3. UNCHANGED <<queue, upstream_eof, up, nxt, ring, stop, driver>>
    BY <1>8 DEF TPushFails
  <2> QED BY <1>0, <2>1, <2>2, <2>3 DEF up, driver
<1>9. CASE TPut(t)
  <2>1. ring' \in [Taps -> Seq(Batches)]
    <3>1. CASE stop[t] BY <1>9, <3>1 DEF TPut
    <3>2. CASE ~stop[t] BY <1>9, <3>2, PutMoves
    <3> QED BY <3>1, <3>2
  <2>2. cur' \in [Taps -> 0 .. MaxBatches]
    <3>1. 0 \in 0 .. MaxBatches OBVIOUS
    <3> QED BY <1>9, <3>1 DEF TPut
  <2>3. tpc' \in [Taps -> {"none", "room", "check", "up", "push", "put", "exit"}]
    <3>1. tpc' = [tpc EXCEPT ![t] = "exit"] \/ tpc' = [tpc EXCEPT ![t] = "room"]
      BY <1>9 DEF TPut
    <3> QED BY <3>1
  <2>4. UNCHANGED <<queue, upstream_eof, up, nxt, end, stop, driver>> BY <1>9 DEF TPut
  <2> QED BY <1>0, <2>1, <2>2, <2>3, <2>4 DEF up, driver
<1> QED BY <1>1, <1>2, <1>3, <1>4, <1>5, <1>6, <1>7, <1>8, <1>9 DEF Thread

LEMMA TypeDriver ==
  ASSUME TypeOK, ThreadInv, PhaseInv, OrderInv, CountInv, Driver
  PROVE  TypeOK'
<1>0. /\ refcount' \in [Batches -> 0 .. NTaps] /\ released' \in SUBSET Batches
      /\ cancel' \in BOOLEAN
  BY CountDriver DEF Driver, TypeOK
<1>00. Len(Sinks) \in Nat /\ (pos <= Len(Sinks) => Sink \in Taps)
  BY DEF TypeOK, Sink
<1> USE DEF TypeOK
<1>1. CASE DStart
  BY <1>0, <1>00, <1>1 DEF DStart, Driving, Goto, mc, up, edge, driver
<1>2. CASE DPull
  <2>1. /\ Sink \in Taps /\ view' \in Batches /\ ring' \in [Taps -> Seq(Batches)]
    BY <1>2, PullMoves
  <2>2. got[Sink] \in Seq(Batches) /\ Append(got[Sink], view') \in Seq(Batches)
    BY <2>1, AppendShape
  <2>3. got' \in [Taps -> Seq(Batches)] BY <1>2, <2>2 DEF DPull
  <2>4. view' \in 0 .. MaxBatches BY <2>1 DEF Batches
  <2>5. UNCHANGED <<mc, up, thread, end, stop, phase, pos, ended>> BY <1>2 DEF DPull
  <2> QED BY <1>0, <2>1, <2>3, <2>4, <2>5 DEF mc, up, thread
<1>3. CASE DRelease
  <2>1. view' \in 0 .. MaxBatches /\ phase' \in {"drive", "release", "destroy", "done"}
    BY <1>3 DEF DRelease
  <2>2. UNCHANGED <<queue, upstream_eof, up, thread, edge, pos, got, ended>>
    BY <1>3 DEF DRelease
  <2> QED BY <1>0, <2>1, <2>2 DEF up, thread, edge
<1>4. CASE DNextSink
  <2>1. pos + 1 \in 1 .. Len(Sinks) + 1 BY <1>00, <1>4 DEF DNextSink, Driving
  <2> QED BY <1>0, <1>4, <2>1 DEF DNextSink, mc, up, thread, edge
<1>5. CASE DStop BY <1>0, <1>00, <1>5 DEF DStop, EdgeFailed, Driving, mc, up, thread, edge
<1>6. CASE DStopEdge BY <1>0, <1>6 DEF DStopEdge, mc, up, thread, driver
<1>7. CASE DDrainEdge
  <2>1. PICK t \in Taps : ring[t] # <<>> /\ ring' = [ring EXCEPT ![t] = Tail(@)]
    BY <1>7, SinksAreTaps DEF DDrainEdge
  <2>2. Tail(ring[t]) \in Seq(Batches) BY <2>1, TailShape
  <2>3. ring' \in [Taps -> Seq(Batches)] BY <2>1, <2>2
  <2> QED BY <1>0, <1>7, <2>3 DEF DDrainEdge, up, thread, driver
<1>8. CASE DEdgesReleased BY <1>0, <1>8 DEF DEdgesReleased, mc, up, thread, edge
<1>9. CASE DDrain
  <2>1. PICK t \in Taps : queue[t] # <<>> /\ queue' = [queue EXCEPT ![t] = Tail(@)]
    BY <1>9 DEF DDrain
  <2>2. Tail(queue[t]) \in Seq(Batches) BY <2>1, TailShape
  <2>3. queue' \in [Taps -> Seq(Batches)] BY <2>1, <2>2
  <2> QED BY <1>0, <1>9, <2>3 DEF DDrain, up, thread, edge, driver
<1>10. CASE DDestroyed BY <1>0, <1>10 DEF DDestroyed, mc, up, thread, edge
<1> QED BY <1>1, <1>2, <1>3, <1>4, <1>5, <1>6, <1>7, <1>8, <1>9, <1>10 DEF Driver

(* A step of t's thread leaves the other threads where they are.            *)
LEMMA ThreadFrame ==
  ASSUME TypeOK, NEW t \in Taps, Thread(t)
  PROVE  /\ tpc'[t] \in {"room", "check", "up", "push", "put", "exit"}
         /\ UNCHANGED <<pos, got, view, phase, ended>>
         /\ \A u \in Taps \ {t} : /\ tpc'[u] = tpc[u] /\ end'[u] = end[u]
                                  /\ ring'[u] = ring[u] /\ nxt'[u] = nxt[u]
                                  /\ cur'[u] = cur[u] /\ stop'[u] = stop[u]
         /\ stop'[t] # stop[t] => tpc'[t] = "exit"
         /\ end'[t] # end[t] => tpc'[t] = "exit"
<1>1. CASE TRoom(t)
  BY <1>1 DEF TRoom, Goto, Leave, TypeOK, edge, driver
<1>2. CASE TEof(t)
  BY <1>2 DEF TEof, Goto, Leave, TypeOK, edge, driver
<1>3. CASE TPop(t)
  BY <1>3 DEF TPop, Goto, Leave, TypeOK, edge, driver
<1>4. CASE TPullOne(t)
  BY <1>4 DEF TPullOne, Goto, Leave, TypeOK, edge, driver
<1>5. CASE TUpstreamEnds(t)
  BY <1>5 DEF TUpstreamEnds, Goto, Leave, TypeOK, edge, driver
<1>6. CASE TUpstreamBatch(t)
  BY <1>6 DEF TUpstreamBatch, Goto, Leave, TypeOK, edge, driver
<1>7. CASE TPush(t)
  BY <1>7 DEF TPush, Goto, Leave, TypeOK, edge, driver
<1>8. CASE TPushFails(t)
  BY <1>8 DEF TPushFails, Goto, Leave, TypeOK, edge, driver
<1>9. CASE TPut(t)
  BY <1>9 DEF TPut, Goto, Leave, TypeOK, edge, driver
<1> QED BY <1>1, <1>2, <1>3, <1>4, <1>5, <1>6, <1>7, <1>8, <1>9 DEF Thread

LEMMA ThreadThread ==
  ASSUME TypeOK, ThreadInv, CountInv, NEW t \in Taps, Thread(t)
  PROVE  ThreadInv'
<1>1. /\ tpc[t] \notin {"none", "exit"} /\ end[t] = "open" /\ t \in Consumed
  BY DEF Thread, TRoom, TEof, TPop, TPullOne, TUpstreamEnds, TUpstreamBatch, TPush,
         TPushFails, TPut, ThreadInv
<1>2. /\ tpc'[t] \in {"room", "check", "up", "push", "put", "exit"}
      /\ UNCHANGED <<pos, got>>
      /\ \A u \in Taps \ {t} : /\ tpc'[u] = tpc[u] /\ end'[u] = end[u]
                               /\ ring'[u] = ring[u] /\ nxt'[u] = nxt[u]
                               /\ cur'[u] = cur[u]
      /\ end'[t] # "open" => tpc'[t] = "exit"
  BY <1>1, ThreadFrame
<1>3. \A u \in Taps \ {t} : tpc[u] \in {"none", "exit"} BY <1>1, OneRuns DEF Running
<1>4. tpc'[t] = "push" => cur'[t] = pulled' /\ pulled' > 0 /\ nxt'[t] \in Taps
  <2>1. CASE TUpstreamBatch(t)
    <3>1. 1 \in Taps BY DEF Taps
    <3>2. pulled' = pulled + 1 /\ pulled \in Nat BY <2>1 DEF TUpstreamBatch, TypeOK
    <3>3. tpc'[t] = "push" => cur'[t] = pulled + 1 /\ nxt'[t] = 1
      BY <2>1 DEF TUpstreamBatch, Goto, Leave, TypeOK
    <3> QED BY <3>1, <3>2, <3>3
  <2>2. CASE TPush(t)
    <3>1. /\ nxt[t] \in Taps /\ nxt'[t] = nxt[t] + 1 /\ pulled' = pulled
          /\ tpc[t] = "push"
      BY <2>2 DEF TPush, ThreadInv, TypeOK, up
    <3>3. tpc'[t] = "push" => nxt[t] # NTaps /\ cur'[t] = cur[t]
      BY <2>2 DEF TPush, TypeOK, Goto
    <3>2. \A k \in Taps : k # NTaps => k + 1 \in Taps BY DEF Taps
    <3> QED BY <3>1, <3>2, <3>3 DEF ThreadInv
  <2>3. CASE ~TUpstreamBatch(t) /\ ~TPush(t)
    BY <2>3 DEF Thread, TRoom, TEof, TPop, TPullOne, TUpstreamEnds, TPushFails, TPut,
                Goto, Leave, TypeOK
  <2> QED BY <2>1, <2>2, <2>3
<1>5. tpc'[t] = "put" => cur'[t] > 0
  <2>1. tpc'[t] = "put" => TPop(t)
    BY DEF Thread, TRoom, TEof, TPullOne, TUpstreamEnds, TUpstreamBatch, TPush, TPushFails,
           TPut, Goto, Leave, TypeOK
  <2>2. TPop(t) => cur'[t] \in Batches
    <3>1. TPop(t) => cur'[t] = Head(queue[t]) /\ queue[t] # <<>> /\ queue[t] \in Seq(Batches)
      BY DEF TPop, TypeOK
    <3> QED BY <3>1, TailShape
  <2> QED BY <2>1, <2>2 DEF Batches
<1>6. \A i \in DOMAIN Sinks : Sinks[i] = t => ~(i > pos) /\ ~(i < pos /\ i < LastSink)
  BY <1>1 DEF ThreadInv
<1>7. \A i \in DOMAIN Sinks : Sinks[i] \in Taps OBVIOUS
<1>8. \A u \in Taps \ Consumed : tpc'[u] = "none" BY <1>1, <1>2 DEF ThreadInv
<1>9. \A i \in DOMAIN Sinks :
        /\ i > pos' => tpc'[Sinks[i]] = "none"
        /\ i < pos' /\ i < LastSink => tpc'[Sinks[i]] = "exit" /\ end'[Sinks[i]] = "eof"
  BY <1>2, <1>6, <1>7 DEF ThreadInv
<1>10. \A u \in Taps :
        /\ end'[u] # "open" => tpc'[u] = "exit"
        /\ tpc'[u] = "none" => ring'[u] = <<>> /\ got'[u] = <<>>
        /\ tpc'[u] = "push" => cur'[u] = pulled' /\ pulled' > 0 /\ nxt'[u] \in Taps
        /\ tpc'[u] = "put" => cur'[u] > 0
  BY <1>2, <1>3, <1>4, <1>5 DEF ThreadInv
<1> QED BY <1>8, <1>9, <1>10 DEF ThreadInv

(* The hypothesis: the sinks before the last one driven never stop early,   *)
(* as their taps cannot be handed as many batches as they would take.       *)
LEMMA ThreadDriver ==
  ASSUME OnlyLastStopsEarly, TypeOK, ThreadInv, StreamInv, Driver
  PROVE  ThreadInv'
<1>0. DOMAIN Sinks = 1 .. LastSink /\ LastSink \in Nat /\ pos \in 1 .. LastSink + 1
  BY DEF TypeOK, LastSink
<1>1. CASE DStart
  <2>1. /\ pos \in DOMAIN Sinks /\ Sink \in Taps /\ tpc[Sink] = "none"
        /\ tpc' = [tpc EXCEPT ![Sink] = "room"]
        /\ UNCHANGED <<end, ring, got, cur, nxt, pulled, pos>>
    BY <1>1 DEF DStart, Driving, TypeOK, Goto, Sink, up, edge, driver
  <2>2. tpc'[Sink] = "room" /\ \A u \in Taps \ {Sink} : tpc'[u] = tpc[u]
    BY <2>1 DEF TypeOK
  <2>3. \A i \in DOMAIN Sinks : Sinks[i] = Sink => i = pos BY <2>1 DEF Sink
  <2>4. Sink \in Consumed BY <2>1 DEF Consumed, Sink
  <2>5. \A i \in DOMAIN Sinks : Sinks[i] \in Taps OBVIOUS
  <2>6. \A i \in DOMAIN Sinks :
          /\ i > pos' => tpc'[Sinks[i]] = "none"
          /\ i < pos' /\ i < LastSink => tpc'[Sinks[i]] = "exit" /\ end'[Sinks[i]] = "eof"
    BY <1>0, <2>1, <2>2, <2>3, <2>5 DEF ThreadInv
  <2>7. \A u \in Taps \ Consumed : tpc'[u] = "none" BY <2>2, <2>4 DEF ThreadInv
  <2>8. \A u \in Taps :
          /\ end'[u] # "open" => tpc'[u] = "exit"
          /\ tpc'[u] = "none" => ring'[u] = <<>> /\ got'[u] = <<>>
          /\ tpc'[u] = "push" => cur'[u] = pulled' /\ pulled' > 0 /\ nxt'[u] \in Taps
          /\ tpc'[u] = "put" => cur'[u] > 0
    BY <2>1, <2>2 DEF ThreadInv
  <2> QED BY <2>6, <2>7, <2>8 DEF ThreadInv
<1>2. CASE DPull
  <2>1. /\ Sink \in Taps /\ ring[Sink] # <<>> /\ UNCHANGED <<tpc, cur, nxt, end, pulled, pos>>
        /\ \A u \in Taps \ {Sink} : ring'[u] = ring[u] /\ got'[u] = got[u]
    <3>1. Sink \in Taps BY <1>0, <1>2 DEF DPull, Driving, Sink, LastSink
    <3>2. /\ ring[Sink] # <<>> /\ ring' = [ring EXCEPT ![Sink] = Tail(@)]
          /\ got' = [got EXCEPT ![Sink] = Append(@, view')]
          /\ UNCHANGED <<tpc, cur, nxt, end, pulled, pos>>
      BY <1>2 DEF DPull, up, thread
    <3> QED BY <3>1, <3>2 DEF TypeOK
  <2>2. tpc[Sink] # "none" BY <2>1 DEF ThreadInv
  <2> QED BY <2>1, <2>2 DEF ThreadInv
<1>3. CASE DNextSink
  <2>1. /\ pos \in DOMAIN Sinks /\ Sink \in Taps /\ pos' = pos + 1
        /\ UNCHANGED <<tpc, cur, nxt, end, ring, got, pulled>>
        /\ Satisfied \/ (ring[Sink] = <<>> /\ end[Sink] = "eof")
    <3>1. pos \in DOMAIN Sinks BY <1>0, <1>3 DEF DNextSink, Driving, LastSink
    <3>2. Sink \in Taps BY <3>1 DEF Sink
    <3> QED BY <1>3, <3>1, <3>2 DEF DNextSink, up, thread, edge
  <2>2. pos < LastSink => end[Sink] = "eof"
    <3>1. ASSUME pos < LastSink, Satisfied PROVE FALSE
      <4>1. Limit[Sink] > MaxBatches BY <2>1, <3>1 DEF OnlyLastStopsEarly, Sink, LastSink
      <4>2. Len(got[Sink]) <= MaxBatches
        <5>0. got[Sink] \in Seq(Batches) /\ Numbered(got[Sink], 0)
          BY <2>1 DEF TypeOK, StreamInv
        <5>1. got[Sink] \in Seq(Batches) /\ \A i \in 1 .. Len(got[Sink]) : got[Sink][i] = i
          BY <5>0 DEF Numbered
        <5>2. Len(got[Sink]) \in Nat BY <5>1
        <5>3. CASE Len(got[Sink]) = 0 BY <5>3
        <5>4. CASE Len(got[Sink]) # 0
          <6>1. Len(got[Sink]) \in 1 .. Len(got[Sink]) BY <5>2, <5>4
          <6>2. got[Sink][Len(got[Sink])] \in Batches BY <5>1, <6>1
          <6>3. got[Sink][Len(got[Sink])] = Len(got[Sink]) BY <5>1, <6>1
          <6> QED BY <6>2, <6>3 DEF Batches
        <5> QED BY <5>3, <5>4
      <4>3. Len(got[Sink]) \in Nat /\ Limit[Sink] \in Nat
        BY <2>1 DEF TypeOK
      <4> QED BY <3>1, <4>1, <4>2, <4>3 DEF Satisfied
    <3> QED BY <2>1, <3>1
  <2>3. end[Sink] = "eof" => tpc[Sink] = "exit" BY <2>1 DEF ThreadInv
  <2>4. \A i \in DOMAIN Sinks :
          /\ i > pos' => tpc'[Sinks[i]] = "none"
          /\ i < pos' /\ i < LastSink => tpc'[Sinks[i]] = "exit" /\ end'[Sinks[i]] = "eof"
    <3>1. \A i \in DOMAIN Sinks : i > pos' => i > pos BY <1>0, <2>1
    <3>2. \A i \in DOMAIN Sinks : i < pos' => i < pos \/ i = pos BY <1>0, <2>1
    <3> QED BY <2>1, <2>2, <2>3, <3>1, <3>2 DEF ThreadInv, Sink
  <2> QED BY <2>1, <2>4 DEF ThreadInv
<1>4. CASE DDrainEdge
  <2>1. /\ UNCHANGED <<tpc, cur, nxt, end, pulled, pos, got>>
        /\ \E t \in Taps : ring[t] # <<>> /\ ring' = [ring EXCEPT ![t] = Tail(@)]
    BY <1>4, SinksAreTaps DEF DDrainEdge, up, thread, driver
  <2>2. \A u \in Taps : ring[u] = <<>> => ring'[u] = <<>> BY <2>1 DEF TypeOK
  <2> QED BY <2>1, <2>2 DEF ThreadInv
<1>5. CASE \/ DRelease \/ DStop \/ DStopEdge \/ DEdgesReleased \/ DDrain \/ DDestroyed
  <2>1. UNCHANGED <<tpc, cur, nxt, end, ring, pulled, pos, got>>
    BY <1>5 DEF DRelease, DStop, DStopEdge, DEdgesReleased, DDrain, DDestroyed, up, thread,
                edge, driver
  <2> QED BY <2>1 DEF ThreadInv
<1> QED BY <1>1, <1>2, <1>3, <1>4, <1>5 DEF Driver

LEMMA PhaseStep ==
  ASSUME TypeOK, ThreadInv, PhaseInv, StreamInv, Next
  PROVE  PhaseInv'
<1>0. DOMAIN Sinks = 1 .. LastSink /\ LastSink \in Nat /\ pos \in 1 .. LastSink + 1
  BY DEF TypeOK, LastSink
<1>1. CASE \E t \in Taps : Thread(t)
  <2>1. PICK t \in Taps : Thread(t) BY <1>1
  <2>2. tpc[t] \notin {"none", "exit"}
    BY <2>1 DEF Thread, TRoom, TEof, TPop, TPullOne, TUpstreamEnds, TUpstreamBatch, TPush,
                TPushFails, TPut
  <2>3. phase \notin {"destroy", "done"} BY <2>2 DEF PhaseInv, Joined
  <2>4. UNCHANGED <<pos, got, view, phase>> BY <2>1, ThreadFrame
  <2>5. phase = "drive" => \A u \in Taps : stop'[u] => tpc'[u] = "exit"
    <3>1. ASSUME phase = "drive" PROVE \A u \in Taps : stop'[u] => tpc'[u] = "exit"
      <4>1. \A u \in Taps \ {t} : tpc'[u] = tpc[u] /\ stop'[u] = stop[u]
        BY <2>1, ThreadFrame
      <4>2. ~stop[t] BY <2>2, <3>1 DEF PhaseInv
      <4>3. stop'[t] # stop[t] => tpc'[t] = "exit" BY <2>1, ThreadFrame
      <4> QED BY <3>1, <4>1, <4>2, <4>3 DEF PhaseInv, TypeOK
    <3> QED BY <3>1
  <2> QED BY <2>3, <2>4, <2>5 DEF PhaseInv, Sink
<1>2. CASE DPull
  <2>1. /\ phase = "drive" /\ pos \in DOMAIN Sinks /\ UNCHANGED <<phase, pos, stop, tpc>>
        /\ ring[Sink] # <<>> /\ view' = Head(ring[Sink])
        /\ got' = [got EXCEPT ![Sink] = Append(@, view')]
    BY <1>0, <1>2 DEF DPull, Driving, LastSink, thread
  <2>2. Sink \in Taps /\ Sink' = Sink BY <2>1 DEF Sink
  <2>3. /\ ring[Sink] \in Seq(Batches) /\ got[Sink] \in Seq(Batches)
        /\ Len(ring[Sink]) \in Nat \ {0} /\ Head(ring[Sink]) = ring[Sink][1]
    BY <2>1, <2>2, TailShape DEF TypeOK
  <2>4. view' = Len(got[Sink]) + 1
    <3>1. Numbered(ring[Sink], Len(got[Sink])) BY <2>1, <2>2 DEF StreamInv, Placed
    <3>2. 1 \in 1 .. Len(ring[Sink]) BY <2>3
    <3>3. ring[Sink][1] = Len(got[Sink]) + 1 BY <3>1, <3>2 DEF Numbered
    <3> QED BY <2>1, <2>3, <3>3
  <2>5. got'[Sink] = Append(got[Sink], view') BY <2>1, <2>2 DEF TypeOK
  <2>6. view' \in Batches BY <2>1, <2>3, TailShape
  <2>7. Len(got'[Sink]) = Len(got[Sink]) + 1 BY <2>3, <2>5, <2>6, AppendShape
  <2> QED BY <2>1, <2>2, <2>4, <2>7 DEF PhaseInv
<1>3. CASE DEdgesReleased
  <2>1. /\ phase' = "destroy" /\ UNCHANGED <<tpc, ring, view>> /\ phase = "release"
        /\ \A t \in Consumed : EdgeReleased(t)
    BY <1>3 DEF DEdgesReleased, thread, edge
  <2>2. \A t \in Taps : Joined(t) /\ ring[t] = <<>>
    BY <2>1 DEF ThreadInv, EdgeReleased, Joined
  <2> QED BY <2>1, <2>2 DEF PhaseInv, Joined
<1>4. CASE DDrain
  BY <1>4 DEF DDrain, PhaseInv, Joined, up, thread, edge, driver
<1>5. CASE DDestroyed
  BY <1>5 DEF DDestroyed, DrainDone, PhaseInv, Joined, mc, up, thread, edge
<1>6. CASE DStart \/ DRelease \/ DNextSink \/ DStop
  <2>1. /\ phase' \in {"drive", "release"} /\ stop' = stop /\ phase = "drive"
        /\ view' # 0 => view' = view /\ UNCHANGED <<phase, pos, got>>
    BY <1>6 DEF DStart, DRelease, DNextSink, DStop, Driving, PhaseInv, edge, driver
  <2>2. \A u \in Taps : tpc[u] = "exit" => tpc'[u] = "exit"
    BY <1>6 DEF DStart, DRelease, DNextSink, DStop, Goto, TypeOK, thread
  <2> QED BY <2>1, <2>2 DEF PhaseInv, Sink
<1>7. CASE DStopEdge \/ DDrainEdge
  <2>1. phase = "release" /\ UNCHANGED <<phase, pos, got, view>>
    BY <1>7 DEF DStopEdge, DDrainEdge, driver
  <2> QED BY <2>1 DEF PhaseInv, Sink
<1>8. CASE Cancel \/ Terminated \/ WaitsOnCancelled
  <2>1. UNCHANGED <<mc, up, thread, edge, driver>>
    BY <1>8 DEF Cancel, Terminated, WaitsOnCancelled, vars
  <2> QED BY <2>1 DEF mc, up, thread, edge, driver, PhaseInv, Joined, Sink
<1> QED BY <1>1, <1>2, <1>3, <1>4, <1>5, <1>6, <1>7, <1>8 DEF Next, Driver

------------------------------------------------------------------------------
(* What the taps are handed                                                 *)

LEMMA NumberedTail ==
  ASSUME NEW s \in Seq(Batches), NEW n \in Nat, s # <<>>, Numbered(s, n)
  PROVE  Head(s) = n + 1 /\ Numbered(Tail(s), n + 1)
<1>1. /\ Len(s) \in Nat \ {0} /\ Head(s) = s[1] /\ Len(Tail(s)) = Len(s) - 1
      /\ \A i \in 1 .. Len(s) - 1 : Tail(s)[i] = s[i + 1]
  BY TailShape
<1>2. Head(s) = n + 1 BY <1>1 DEF Numbered
<1>3. ASSUME NEW i \in 1 .. Len(s) - 1 PROVE Tail(s)[i] = n + 1 + i
  <2>1. i + 1 \in 1 .. Len(s) BY <1>1
  <2>2. s[i + 1] = n + (i + 1) BY <2>1 DEF Numbered
  <2> QED BY <1>1, <2>2
<1> QED BY <1>1, <1>2, <1>3 DEF Numbered

LEMMA NumberedAppend ==
  ASSUME NEW s \in Seq(Batches), NEW n \in Nat, NEW e \in Batches, e = n + Len(s) + 1,
         Numbered(s, n)
  PROVE  Numbered(Append(s, e), n)
<1>1. /\ Len(Append(s, e)) = Len(s) + 1 /\ Append(s, e)[Len(s) + 1] = e
      /\ \A i \in 1 .. Len(s) : Append(s, e)[i] = s[i]
  BY AppendShape
<1>2. Len(s) \in Nat OBVIOUS
<1>3. \A m \in Nat : \A k \in 1 .. m + 1 : k \in 1 .. m \/ k = m + 1 OBVIOUS
<1>4. e = n + (Len(s) + 1) BY <1>2
<1>5. ASSUME NEW i \in 1 .. Len(s) + 1 PROVE Append(s, e)[i] = n + i
  <2>1. i \in 1 .. Len(s) \/ i = Len(s) + 1 BY <1>2, <1>3
  <2>2. CASE i \in 1 .. Len(s)
    <3>1. s[i] = n + i BY <2>2 DEF Numbered
    <3> QED BY <1>1, <2>2, <3>1
  <2>3. CASE i = Len(s) + 1 BY <1>1, <1>4, <2>3
  <2> QED BY <2>1, <2>2, <2>3
<1> QED BY <1>1, <1>5 DEF Numbered

LEMMA TapTypes ==
  ASSUME TypeOK, NEW t \in Taps
  PROVE  /\ got[t] \in Seq(Batches) /\ ring[t] \in Seq(Batches) /\ queue[t] \in Seq(Batches)
         /\ Len(got[t]) \in Nat /\ Len(ring[t]) \in Nat /\ Len(queue[t]) \in Nat
         /\ Hand(t) \in {0, 1} /\ pulled \in Nat /\ Level(t) \in Nat
<1>1. got[t] \in Seq(Batches) /\ ring[t] \in Seq(Batches) /\ queue[t] \in Seq(Batches)
  BY DEF TypeOK
<1>2. Len(got[t]) \in Nat /\ Len(ring[t]) \in Nat /\ Len(queue[t]) \in Nat BY <1>1
<1>3. Hand(t) \in {0, 1} /\ pulled \in Nat BY DEF TypeOK, Hand
<1>4. PICK g \in Nat, r \in Nat, h \in Nat, q \in Nat :
        g = Len(got[t]) /\ r = Len(ring[t]) /\ h = Hand(t) /\ q = Len(queue[t])
  BY <1>2, <1>3
<1>5. Level(t) = g + r + h + q BY <1>4 DEF Level
<1>6. g + r + h + q \in Nat OBVIOUS
<1> QED BY <1>1, <1>2, <1>3, <1>5, <1>6

(* A step that moves no batch keeps every tap's place and level.            *)
LEMMA PlacedKept ==
  ASSUME NEW u \in Taps, ring'[u] = ring[u], queue'[u] = queue[u], got'[u] = got[u],
         (tpc'[u] = "put") <=> (tpc[u] = "put"), tpc[u] = "put" => cur'[u] = cur[u]
  PROVE  (Placed(u)' <=> Placed(u)) /\ Level(u)' = Level(u)
BY DEF Placed, Level, Hand, Numbered

(* A batch moves from the queue into the thread's hand ...                  *)
LEMMA PlacedPop ==
  ASSUME TypeOK, NEW t \in Taps, TPop(t), Placed(t)
  PROVE  Placed(t)' /\ Level(t)' = Level(t)
<1>1. /\ tpc[t] = "check" /\ tpc'[t] = "put" /\ queue[t] # <<>>
      /\ cur'[t] = Head(queue[t]) /\ queue'[t] = Tail(queue[t])
      /\ ring'[t] = ring[t] /\ got'[t] = got[t]
  BY DEF TPop, Goto, TypeOK, edge, driver
<1>2. queue[t] \in Seq(Batches) BY TapTypes
<1>3. PICK g \in Nat, r \in Nat, q \in Nat :
        g = Len(got[t]) /\ r = Len(ring[t]) /\ q = Len(queue[t])
  BY TapTypes
<1>4. Hand(t) = 0 /\ Hand(t)' = 1 BY <1>1 DEF Hand
<1>5. Numbered(ring[t], g) /\ Numbered(queue[t], g + r + 0) BY <1>3, <1>4 DEF Placed
<1>6. g + r + 0 \in Nat OBVIOUS
<1>7. Head(queue[t]) = g + r + 0 + 1 /\ Numbered(Tail(queue[t]), g + r + 0 + 1)
  BY <1>1, <1>2, <1>5, <1>6, NumberedTail
<1>8. cur'[t] = g + r + 1 /\ Numbered(queue'[t], g + r + 1)
  <2>1. g + r + 0 + 1 = g + r + 1 OBVIOUS
  <2> QED BY <1>1, <1>7, <2>1
<1>9. Len(queue'[t]) = q - 1 /\ q \in Nat \ {0} BY <1>1, <1>2, <1>3, TailShape
<1>10. Len(got'[t]) = g /\ Len(ring'[t]) = r BY <1>1, <1>3
<1>11. Placed(t)' BY <1>1, <1>4, <1>5, <1>8, <1>10 DEF Placed
<1>12. Level(t)' = g + r + 1 + (q - 1) /\ Level(t) = g + r + 0 + q
  BY <1>3, <1>4, <1>9, <1>10 DEF Level
<1> QED BY <1>11, <1>12

(* ... from there into the ring ...                                         *)
LEMMA PlacedPut ==
  ASSUME TypeOK, ThreadInv, NEW t \in Taps, TPut(t), ~stop[t], Placed(t)
  PROVE  Placed(t)' /\ Level(t)' = Level(t)
<1>1. /\ tpc[t] = "put" /\ tpc'[t] = "room" /\ ring'[t] = Append(ring[t], cur[t])
      /\ queue'[t] = queue[t] /\ got'[t] = got[t]
  BY DEF TPut, Goto, TypeOK, driver
<1>2. ring[t] \in Seq(Batches) /\ cur[t] \in Batches
  <2>1. cur[t] \in 0 .. MaxBatches /\ cur[t] > 0 BY <1>1 DEF TypeOK, ThreadInv
  <2> QED BY <2>1, TapTypes DEF Batches
<1>3. PICK g \in Nat, r \in Nat, q \in Nat :
        g = Len(got[t]) /\ r = Len(ring[t]) /\ q = Len(queue[t])
  BY TapTypes
<1>4. Hand(t) = 1 /\ Hand(t)' = 0 BY <1>1 DEF Hand
<1>5. Numbered(ring[t], g) /\ Numbered(queue[t], g + r + 1) /\ cur[t] = g + r + 1
  BY <1>1, <1>3, <1>4 DEF Placed
<1>6. Numbered(ring'[t], g) BY <1>1, <1>2, <1>3, <1>5, NumberedAppend
<1>7. Len(ring'[t]) = r + 1 BY <1>1, <1>2, <1>3, AppendShape
<1>8. Len(got'[t]) = g /\ Len(queue'[t]) = q BY <1>1, <1>3
<1>9. Numbered(queue'[t], g + (r + 1) + 0)
  <2>1. g + (r + 1) + 0 = g + r + 1 OBVIOUS
  <2> QED BY <1>1, <1>5, <2>1
<1>10. Placed(t)' BY <1>1, <1>4, <1>6, <1>7, <1>8, <1>9 DEF Placed
<1>11. Level(t)' = g + (r + 1) + 0 + q /\ Level(t) = g + r + 1 + q
  BY <1>3, <1>4, <1>7, <1>8 DEF Level
<1> QED BY <1>10, <1>11

(* ... and from the ring to the consumer.                                   *)
LEMMA PlacedPull ==
  ASSUME TypeOK, NEW t \in Taps, t = Sink, DPull, Placed(t), Numbered(got[t], 0)
  PROVE  /\ Placed(t)' /\ Level(t)' = Level(t) /\ Numbered(got'[t], 0)
         /\ Len(got'[t]) = Len(got[t]) + 1
         /\ Len(ring'[t]) = Len(ring[t]) - 1 /\ Len(ring[t]) \in Nat \ {0}
<1>1. /\ ring[t] # <<>> /\ view' = Head(ring[t]) /\ ring'[t] = Tail(ring[t])
      /\ got'[t] = Append(got[t], view') /\ UNCHANGED <<tpc, cur, queue>>
  BY DEF DPull, TypeOK, mc, thread
<1>2. ring[t] \in Seq(Batches) /\ got[t] \in Seq(Batches) BY TapTypes
<1>3. PICK g \in Nat, r \in Nat, q \in Nat, h \in {0, 1} :
        g = Len(got[t]) /\ r = Len(ring[t]) /\ q = Len(queue[t]) /\ h = Hand(t)
  BY TapTypes
<1>4. Hand(t)' = h BY <1>1, <1>3 DEF Hand
<1>5. Numbered(ring[t], g) BY <1>3 DEF Placed
<1>6. Head(ring[t]) = g + 1 /\ Numbered(Tail(ring[t]), g + 1)
  BY <1>1, <1>2, <1>5, NumberedTail
<1>7. Head(ring[t]) \in Batches /\ Len(ring'[t]) = r - 1 /\ r \in Nat \ {0}
  BY <1>1, <1>2, <1>3, TailShape
<1>8. Len(got'[t]) = g + 1 BY <1>1, <1>2, <1>3, <1>7, AppendShape
<1>9. Numbered(got'[t], 0)
  <2>1. view' = 0 + Len(got[t]) + 1 BY <1>1, <1>3, <1>6
  <2> QED BY <1>1, <1>2, <1>7, <2>1, NumberedAppend
<1>10. tpc[t] = "put" => cur[t] = g + 1 + (r - 1) + 1
  <2>1. tpc[t] = "put" => cur[t] = g + r + 1 BY <1>3 DEF Placed
  <2>2. g + r + 1 = g + 1 + (r - 1) + 1 BY <1>7
  <2> QED BY <2>1, <2>2
<1>11. Numbered(queue[t], g + 1 + (r - 1) + h)
  <2>1. Numbered(queue[t], g + r + h) BY <1>3 DEF Placed
  <2>2. g + r + h = g + 1 + (r - 1) + h BY <1>7
  <2> QED BY <2>1, <2>2
<1>12. Placed(t)' BY <1>1, <1>4, <1>6, <1>7, <1>8, <1>10, <1>11 DEF Placed
<1>13. Level(t)' = g + 1 + (r - 1) + h + q /\ Level(t) = g + r + h + q
  BY <1>1, <1>3, <1>4, <1>7, <1>8 DEF Level
<1>14. g + 1 + (r - 1) + h + q = g + r + h + q BY <1>7
<1> QED BY <1>3, <1>7, <1>8, <1>9, <1>12, <1>13, <1>14

LEMMA ExpectedKept ==
  ASSUME pulled' = pulled,
         \A u \in Taps : /\ (tpc'[u] = "push") <=> (tpc[u] = "push")
                         /\ tpc[u] = "push" => nxt'[u] = nxt[u]
  PROVE  \A t \in Taps : Expected(t)' = Expected(t)
BY DEF Expected

LEMMA StreamThread ==
  ASSUME TypeOK, ThreadInv, PhaseInv, OrderInv, CountInv, StreamInv, NEW t \in Taps, Thread(t)
  PROVE  StreamInv'
<1>1. UNCHANGED <<pos, got, view, phase>> BY ThreadFrame
<1>2. Running(t)
  BY DEF Running, Thread, TRoom, TEof, TPop, TPullOne, TUpstreamEnds, TUpstreamBatch, TPush,
         TPushFails, TPut
<1>3. NoError BY <1>2, NoneAfterError DEF NoError
<1>4. \A u \in Taps : Numbered(got'[u], 0) BY <1>1 DEF StreamInv
<1>5. CASE phase # "drive" BY <1>1, <1>4, <1>5 DEF StreamInv
<1>6. CASE phase = "drive"
  <2>1. /\ \A u \in Taps : Placed(u) /\ Level(u) = Expected(u)
        /\ ~stop[t]
    BY <1>2, <1>3, <1>6 DEF StreamInv, PhaseInv, Running
  <2> SUFFICES /\ \A u \in Taps : Placed(u)'
               /\ NoError' => \A u \in Taps : Level(u)' = Expected(u)'
    BY <1>4 DEF StreamInv
  <2>2. \A u \in Taps \ {t} : tpc[u] # "push" BY <1>2, OneRuns DEF Running
  <2>3. CASE TRoom(t) \/ TEof(t) \/ TPullOne(t) \/ TUpstreamEnds(t)
    <3>1. /\ UNCHANGED <<ring, queue, cur, nxt, pulled>>
          /\ \A u \in Taps : /\ (tpc'[u] = "push") <=> (tpc[u] = "push")
                             /\ (tpc'[u] = "put") <=> (tpc[u] = "put")
      BY <2>3 DEF TRoom, TEof, TPullOne, TUpstreamEnds, Leave, Goto, TypeOK, mc, up, edge
    <3>2. \A u \in Taps : Placed(u)' /\ Level(u)' = Level(u)
      BY <1>1, <2>1, <3>1, PlacedKept
    <3>3. \A u \in Taps : Expected(u)' = Expected(u) BY <3>1, ExpectedKept
    <3> QED BY <2>1, <3>2, <3>3
  <2>4. CASE TPop(t) \/ TPut(t)
    <3>1. /\ UNCHANGED <<nxt, pulled>>
          /\ \A u \in Taps : /\ (tpc'[u] = "push") <=> (tpc[u] = "push")
          /\ \A u \in Taps \ {t} : /\ tpc'[u] = tpc[u] /\ cur'[u] = cur[u]
                                   /\ ring'[u] = ring[u] /\ queue'[u] = queue[u]
      <4>1. CASE TPop(t) BY <4>1 DEF TPop, Goto, TypeOK, up, edge
      <4>2. CASE TPut(t) BY <4>2 DEF TPut, Goto, TypeOK, up, edge
      <4> QED BY <2>4, <4>1, <4>2
    <3>2. Placed(t)' /\ Level(t)' = Level(t) BY <2>1, <2>4, PlacedPop, PlacedPut
    <3>3. \A u \in Taps \ {t} : Placed(u)' /\ Level(u)' = Level(u)
      BY <1>1, <2>1, <3>1, PlacedKept
    <3>4. \A u \in Taps : Expected(u)' = Expected(u) BY <3>1, ExpectedKept
    <3> QED BY <2>1, <3>2, <3>3, <3>4
  <2>5. CASE TUpstreamBatch(t)
    <3>1. /\ UNCHANGED <<ring, queue>> /\ pulled' = pulled + 1 /\ tpc[t] = "up"
          /\ tpc'[t] # "put" /\ \A u \in Taps \ {t} : tpc'[u] = tpc[u] /\ cur'[u] = cur[u]
          /\ NoError' => tpc'[t] = "push" /\ nxt'[t] = 1
      BY <2>5 DEF TUpstreamBatch, Leave, Goto, TypeOK, NoError
    <3>2. \A u \in Taps : Placed(u)' /\ Level(u)' = Level(u)
      BY <1>1, <2>1, <3>1, PlacedKept
    <3>3. \A u \in Taps : Expected(u) = pulled BY <2>2, <3>1 DEF Expected
    <3>4. pulled' - 1 = pulled
      <4>1. pulled \in Nat BY DEF TypeOK
      <4> QED BY <3>1, <4>1
    <3>5. ASSUME NoError', NEW u \in Taps PROVE Expected(u)' = pulled
      <4>1. u >= 1 BY DEF Taps
      <4>2. \E v \in Taps : tpc'[v] = "push" /\ u >= nxt'[v] BY <3>1, <3>5, <4>1
      <4>3. Expected(u)' = pulled' - 1 BY <4>2 DEF Expected
      <4> QED BY <3>1, <3>4, <4>3
    <3> QED BY <2>1, <3>2, <3>3, <3>5
  <2>6. CASE TPush(t)
    <3>1. PICK b \in Batches, n \in Taps : b = cur[t] /\ n = nxt[t] /\ b = pulled
      BY <2>6, PushAdds
    <3>2. /\ queue'[n] = Append(queue[n], b) /\ \A u \in Taps \ {n} : queue'[u] = queue[u]
      BY <2>6, <3>1, PushAdds
    <3>3. /\ tpc[t] = "push" /\ UNCHANGED <<ring, pulled>>
          /\ \A u \in Taps \ {t} : tpc'[u] = tpc[u] /\ cur'[u] = cur[u]
          /\ nxt'[t] = n + 1 /\ tpc'[t] # "put"
          /\ (tpc'[t] = "push") <=> (n # NTaps)
      BY <2>6, <3>1 DEF TPush, Goto, TypeOK, up, edge
    <3>4. ASSUME NEW u \in Taps \ {n} PROVE Placed(u)' /\ Level(u)' = Level(u)
      <4>1. /\ queue'[u] = queue[u] /\ ring'[u] = ring[u] /\ got'[u] = got[u]
            /\ (tpc'[u] = "put") <=> (tpc[u] = "put")
            /\ tpc[u] = "put" => cur'[u] = cur[u]
        BY <1>1, <3>2, <3>3
      <4> QED BY <2>1, <4>1, PlacedKept
    <3>5. PICK g \in Nat, r \in Nat, q \in Nat, h \in Nat :
            g = Len(got[n]) /\ r = Len(ring[n]) /\ q = Len(queue[n]) /\ h = Hand(n)
      BY TapTypes
    <3>6. pulled \in Nat /\ b \in Nat BY DEF TypeOK, Batches
    <3>7. \A u \in Taps : Expected(u) = IF u >= n THEN pulled - 1 ELSE pulled
      BY <2>2, <3>1, <3>3 DEF Expected
    <3>8. Level(n) = pulled - 1
      <4>1. n >= n BY DEF Taps
      <4> QED BY <2>1, <3>7, <4>1
    <3>9. b = g + r + h + q + 1
      <4>1. Level(n) = g + r + h + q BY <3>5 DEF Level
      <4>2. b - 1 = g + r + h + q BY <3>1, <3>8, <4>1
      <4> QED BY <3>6, <4>2
    <3>10. Hand(n)' = h BY <3>3, <3>5 DEF Hand
    <3>11. Placed(n)'
      <4>1. Numbered(queue[n], g + r + h) BY <2>1, <3>5 DEF Placed
      <4>2. g + r + h \in Nat OBVIOUS
      <4>3. Numbered(queue'[n], g + r + h)
        <5>1. queue[n] \in Seq(Batches) /\ b = g + r + h + Len(queue[n]) + 1
          BY <3>5, <3>9, TapTypes
        <5> QED BY <3>2, <4>1, <4>2, <5>1, NumberedAppend
      <4>4. tpc'[n] # "put"
        <5>1. n # t => tpc[n] \in {"none", "exit"} BY <1>2, OneRuns DEF Running
        <5> QED BY <3>3, <5>1
      <4> QED BY <1>1, <2>1, <3>3, <3>5, <3>10, <4>3, <4>4 DEF Placed
    <3>12. Level(n)' = pulled
      <4>1. Len(queue'[n]) = q + 1 BY <3>2, <3>5, TapTypes, AppendShape
      <4>2. Level(n)' = g + r + h + (q + 1) BY <1>1, <3>3, <3>5, <3>10, <4>1 DEF Level
      <4>3. g + r + h + (q + 1) = g + r + h + q + 1 OBVIOUS
      <4> QED BY <3>1, <3>9, <4>2, <4>3
    <3>13. \A u \in Taps : Expected(u)' = IF u >= n + 1 /\ n # NTaps THEN pulled - 1 ELSE pulled
      BY <2>2, <3>3 DEF Expected
    <3>14. \A u \in Taps : u >= n + 1 /\ n # NTaps <=> u >= n /\ u # n BY DEF Taps
    <3> QED BY <2>1, <3>4, <3>7, <3>11, <3>12, <3>13, <3>14
  <2>7. CASE TPushFails(t)
    <3>1. /\ UNCHANGED <<ring, queue>> /\ tpc[t] = "push" /\ tpc'[t] = "exit" /\ ~NoError'
          /\ \A u \in Taps \ {t} : tpc'[u] = tpc[u] /\ cur'[u] = cur[u]
      BY <2>7 DEF TPushFails, Leave, Goto, TypeOK, NoError
    <3> QED BY <1>1, <2>1, <3>1, PlacedKept
  <2> QED BY <2>3, <2>4, <2>5, <2>6, <2>7 DEF Thread
<1> QED BY <1>5, <1>6

LEMMA StreamDriver ==
  ASSUME TypeOK, ThreadInv, PhaseInv, OrderInv, StreamInv, Driver
  PROVE  StreamInv'
<1>1. CASE DPull
  <2>1. /\ phase = "drive" /\ pos \in DOMAIN Sinks
        /\ UNCHANGED <<phase, pos, queue, tpc, cur, nxt, end, pulled>>
    BY <1>1 DEF DPull, Driving, TypeOK, mc, up, thread
  <2>2. PICK t \in Taps : t = Sink BY <2>1 DEF Sink
  <2>3. \A u \in Taps \ {t} : ring'[u] = ring[u] /\ got'[u] = got[u]
    BY <1>1, <2>2 DEF DPull, TypeOK
  <2>4. Placed(t) /\ Numbered(got[t], 0) BY <2>1 DEF StreamInv
  <2>5. Placed(t)' /\ Level(t)' = Level(t) /\ Numbered(got'[t], 0)
    BY <1>1, <2>2, <2>4, PlacedPull
  <2>6. \A u \in Taps \ {t} : (Placed(u)' <=> Placed(u)) /\ Level(u)' = Level(u)
    BY <2>1, <2>3, PlacedKept
  <2>7. \A u \in Taps : Expected(u)' = Expected(u) BY <2>1, ExpectedKept
  <2>8. NoError' <=> NoError BY <2>1 DEF NoError
  <2> QED BY <2>1, <2>3, <2>5, <2>6, <2>7, <2>8 DEF StreamInv
<1>2. CASE phase' = "drive" /\ (DStart \/ DRelease \/ DNextSink)
  <2>1. /\ phase = "drive" /\ UNCHANGED <<queue, ring, got, cur, nxt, end, pulled>>
        /\ \A u \in Taps : tpc'[u] = tpc[u] \/ (tpc[u] = "none" /\ tpc'[u] = "room")
    BY <1>2 DEF DStart, DRelease, DNextSink, Driving, Goto, TypeOK, PhaseInv, mc, up,
                thread, edge, driver
  <2>2. \A u \in Taps : (Placed(u)' <=> Placed(u)) /\ Level(u)' = Level(u)
    BY <2>1, PlacedKept
  <2>3. \A u \in Taps : Expected(u)' = Expected(u) BY <2>1, ExpectedKept
  <2>4. NoError' <=> NoError BY <2>1 DEF NoError
  <2> QED BY <2>1, <2>2, <2>3, <2>4 DEF StreamInv
<1>3. CASE phase' # "drive" /\ ~DPull
  <2>1. got' = got
    BY <1>3 DEF Driver, DStart, DRelease, DNextSink, DStop, DStopEdge, DDrainEdge,
                DEdgesReleased, DDrain, DDestroyed, driver
  <2> QED BY <1>3, <2>1 DEF StreamInv
<1>4. CASE DStop \/ DStopEdge \/ DDrainEdge \/ DEdgesReleased \/ DDrain \/ DDestroyed
  <2>1. phase' # "drive" /\ got' = got
    BY <1>4 DEF DStop, DStopEdge, DDrainEdge, DEdgesReleased, DDrain, DDestroyed, driver
  <2> QED BY <2>1 DEF StreamInv
<1> QED BY <1>1, <1>2, <1>3, <1>4 DEF Driver

LEMMA EndThread ==
  ASSUME TypeOK, ThreadInv, OrderInv, StreamInv, EndInv, NEW t \in Taps, Thread(t)
  PROVE  EndInv'
<1>1. UNCHANGED <<got, phase, ended>> BY ThreadFrame
<1>2. Running(t) /\ end[t] = "open"
  BY DEF Running, Thread, TRoom, TEof, TPop, TPullOne, TUpstreamEnds, TUpstreamBatch, TPush,
         TPushFails, TPut, ThreadInv
<1>3. \A u \in Taps \ {t} : end'[u] = end[u] /\ ring'[u] = ring[u] BY ThreadFrame
<1>4. (upstream_eof' <=> upEnd' = "eof") /\ (upEnd = "eof" => upEnd' = "eof" /\ pulled' = pulled)
  BY DEF EndInv, Thread, TRoom, TEof, TPop, TPullOne, TUpstreamEnds, TUpstreamBatch, TPush,
         TPushFails, TPut, mc, up
<1>5. \A u \in Taps \ {t} :
        end'[u] = "eof" =>
          /\ upEnd' = "eof"
          /\ phase' = "drive" => Len(got'[u]) + Len(ring'[u]) = pulled'
  BY <1>1, <1>3, <1>4 DEF EndInv
<1>6. \A u \in Taps : ended'[u] = "eof" => Len(got'[u]) = pulled' /\ upEnd' = "eof"
  BY <1>1, <1>4 DEF EndInv
<1>7. ASSUME end'[t] = "eof"
      PROVE  /\ upEnd' = "eof"
             /\ phase' = "drive" => Len(got'[t]) + Len(ring'[t]) = pulled'
  <2>1. TEof(t)
    BY <1>2, <1>7 DEF Thread, TRoom, TPop, TPullOne, TUpstreamEnds, TUpstreamBatch, TPush,
                      TPushFails, TPut, Leave, TypeOK, edge
  <2>2. /\ tpc[t] = "check" /\ upstream_eof /\ queue[t] = <<>>
        /\ UNCHANGED <<ring, pulled, upEnd>>
    BY <2>1 DEF TEof, TapEnded, up
  <2>3. ASSUME phase = "drive" PROVE Len(got[t]) + Len(ring[t]) = pulled
    <3>1. NoError BY <1>2, NoneAfterError DEF NoError
    <3>2. \A u \in Taps : tpc[u] # "push" BY <1>2, <2>2, OneRuns DEF Running
    <3>3. Level(t) = pulled BY <2>3, <3>1, <3>2 DEF StreamInv, Expected
    <3>4. Hand(t) = 0 /\ Len(queue[t]) = 0 BY <2>2 DEF Hand
    <3>5. PICK g \in Nat, r \in Nat : g = Len(got[t]) /\ r = Len(ring[t]) BY TapTypes
    <3>6. Level(t) = g + r + 0 + 0 BY <3>4, <3>5 DEF Level
    <3>7. g + r + 0 + 0 = g + r OBVIOUS
    <3> QED BY <3>3, <3>5, <3>6, <3>7
  <2> QED BY <1>1, <2>2, <2>3 DEF EndInv
<1> QED BY <1>4, <1>5, <1>6, <1>7 DEF EndInv

LEMMA EndDriver ==
  ASSUME TypeOK, ThreadInv, PhaseInv, OrderInv, StreamInv, EndInv, Driver
  PROVE  EndInv'
<1>0. UNCHANGED <<upstream_eof, upEnd, pulled, end>>
  BY DEF Driver, DStart, DPull, DRelease, DNextSink, DStop, DStopEdge, DDrainEdge,
         DEdgesReleased, DDrain, DDestroyed, mc, up, edge
<1>1. CASE DPull
  <2>1. phase = "drive" /\ phase' = phase /\ ended' = ended /\ pos \in DOMAIN Sinks
    BY <1>1 DEF DPull, Driving, TypeOK
  <2>2. PICK t \in Taps : t = Sink BY <2>1 DEF Sink
  <2>3. \A u \in Taps \ {t} : ring'[u] = ring[u] /\ got'[u] = got[u]
    BY <1>1, <2>2 DEF DPull, TypeOK
  <2>4. Placed(t) /\ Numbered(got[t], 0) BY <2>1 DEF StreamInv
  <2>5. PICK g \in Nat, r \in Nat \ {0} :
          /\ g = Len(got[t]) /\ r = Len(ring[t])
          /\ Len(got'[t]) = g + 1 /\ Len(ring'[t]) = r - 1
    BY <1>1, <2>2, <2>4, PlacedPull, TapTypes
  <2>6. g + 1 + (r - 1) = g + r OBVIOUS
  <2>7. ended[t] # "eof"
    <3>1. /\ ring[t] \in Seq(Batches) /\ ring[t] # <<>> /\ Head(ring[t]) = g + 1
      BY <1>1, <2>2, <2>4, <2>5, TapTypes, NumberedTail DEF DPull, Placed
    <3>2. In(ring[t], Head(ring[t])) /\ Head(ring[t]) \in Batches BY <3>1, InTail, TailShape
    <3>3. g + 1 \in 1 .. pulled BY <3>1, <3>2, HeldPulled DEF Held
    <3>4. g # pulled BY <3>3
    <3> QED BY <2>5, <3>4 DEF EndInv
  <2> QED BY <1>0, <2>1, <2>3, <2>5, <2>6, <2>7 DEF EndInv
<1>2. CASE DNextSink
  <2>1. /\ phase = "drive" /\ UNCHANGED <<phase, got, ring>> /\ pos \in DOMAIN Sinks
    BY <1>2 DEF DNextSink, Driving, TypeOK, edge
  <2>2. PICK t \in Taps : t = Sink BY <2>1 DEF Sink
  <2>3. \/ ended' = ended
        \/ /\ ended' = [ended EXCEPT ![t] = "eof"] /\ ring[t] = <<>> /\ end[t] = "eof"
    BY <1>2, <2>2 DEF DNextSink
  <2>4. Len(got[t]) \in Nat /\ (ring[t] = <<>> => Len(ring[t]) = 0) BY TapTypes
  <2>5. ring[t] = <<>> /\ end[t] = "eof" => Len(got[t]) = pulled /\ upEnd = "eof"
    <3>1. end[t] = "eof" => Len(got[t]) + Len(ring[t]) = pulled /\ upEnd = "eof"
      BY <2>1 DEF EndInv
    <3>2. PICK g \in Nat : g = Len(got[t]) BY <2>4
    <3>3. g + 0 = g OBVIOUS
    <3> QED BY <2>4, <3>1, <3>2, <3>3
  <2>6. \A u \in Taps : ended'[u] = "eof" => Len(got[u]) = pulled /\ upEnd = "eof"
    BY <2>3, <2>5 DEF EndInv, TypeOK
  <2> QED BY <1>0, <2>1, <2>6 DEF EndInv
<1>3. CASE DStop \/ DStopEdge \/ DDrainEdge \/ DEdgesReleased \/ DDrain \/ DDestroyed
  <2>1. /\ phase' # "drive" /\ got' = got
        /\ \A u \in Taps : (ended'[u] = "eof") => (ended[u] = "eof")
    BY <1>3 DEF DStop, DStopEdge, DDrainEdge, DEdgesReleased, DDrain, DDestroyed, driver, TypeOK
  <2> QED BY <1>0, <2>1 DEF EndInv
<1>4. CASE DStart \/ DRelease
  <2>1. UNCHANGED <<got, ring, ended>> /\ phase = "drive"
    BY <1>4 DEF DStart, DRelease, Driving, PhaseInv, edge, driver
  <2> QED BY <1>0, <2>1 DEF EndInv
<1> QED BY <1>1, <1>2, <1>3, <1>4 DEF Driver

------------------------------------------------------------------------------
(* The invariant is inductive                                               *)

LEMMA InitInv == ASSUME Init PROVE IInv
<1> USE DEF Init
<1>0. Len(Sinks) \in Nat /\ NTaps \in Nat OBVIOUS
<1>1. 1 \in 1 .. Len(Sinks) + 1 /\ 0 \in 0 .. NTaps /\ 1 \in 1 .. NTaps + 1 BY <1>0
<1>2. TypeOK
  <2>1. queue \in [Taps -> Seq(Batches)] /\ ring \in [Taps -> Seq(Batches)]
        /\ got \in [Taps -> Seq(Batches)]
    OBVIOUS
  <2>2. /\ refcount \in [Batches -> 0 .. NTaps] /\ nxt \in [Taps -> 1 .. NTaps + 1]
        /\ pos \in 1 .. Len(Sinks) + 1 /\ pulled \in 0 .. MaxBatches
        /\ view \in 0 .. MaxBatches /\ cur \in [Taps -> 0 .. MaxBatches]
    BY <1>1
  <2> QED BY <2>1, <2>2 DEF TypeOK
<1>3. ThreadInv
  <2>1. \A i \in DOMAIN Sinks : i \in Nat \ {0} /\ Sinks[i] \in Taps OBVIOUS
  <2> QED BY <2>1 DEF ThreadInv
<1>4. PhaseInv BY DEF PhaseInv
<1>5. \A t \in Taps, b \in Batches : ~Held(t, b)
  BY DEF Held, In, InHand, InView, Batches
<1>6. OrderInv
  <2>1. \A t \in Taps : Sorted(ring[t]) /\ Sorted(queue[t]) BY DEF Sorted
  <2> QED BY <1>5, <2>1 DEF OrderInv, Held
<1>7. CountInv
  <2>1. \A b \in Batches : Holders(b) = {} BY <1>5 DEF Holders
  <2>2. \A b \in Batches : refcount[b] = Cardinality(Holders(b)) BY <2>1, FS_EmptySet
  <2>3. \A t \in Taps, b \in Batches : ~Pushing(t, b) BY DEF Pushing
  <2>4. 1 .. pulled = {} OBVIOUS
  <2> QED BY <2>2, <2>3, <2>4 DEF CountInv
<1>8. StreamInv
  <2>1. \A t \in Taps : Numbered(got[t], 0) /\ Placed(t) BY DEF Numbered, Placed
  <2>2. \A t \in Taps : Level(t) = 0 BY DEF Level, Hand
  <2>3. \A t \in Taps : Expected(t) = 0 BY DEF Expected
  <2> QED BY <2>1, <2>2, <2>3 DEF StreamInv
<1>9. EndInv BY DEF EndInv
<1> QED BY <1>2, <1>3, <1>4, <1>6, <1>7, <1>8, <1>9 DEF IInv

LEMMA InvKept ==
  ASSUME IInv, UNCHANGED <<mc, up, thread, edge, driver>>, cancel' \in BOOLEAN
  PROVE  IInv'
<1> USE DEF mc, up, thread, edge, driver
<1>1. TypeOK' BY DEF IInv, TypeOK
<1>2. ThreadInv' BY DEF IInv, ThreadInv
<1>3. PhaseInv' BY DEF IInv, PhaseInv, Joined, Sink
<1>4. \A t \in Taps, b \in Batches : /\ InHand(t, b)' <=> InHand(t, b)
                                     /\ Pushing(t, b)' <=> Pushing(t, b)
  BY DEF InHand, Pushing
<1>5. OrderInv' BY <1>4, OrderKept DEF IInv
<1>6. CountInv'
  <2>1. \A t \in Taps, b \in Batches : Held(t, b)' <=> Held(t, b) BY <1>4, HeldKept
  <2> QED BY <1>4, <2>1, CountKept DEF IInv
<1>7. StreamInv'
  <2>1. \A t \in Taps : (Placed(t)' <=> Placed(t)) /\ Level(t)' = Level(t)
    BY PlacedKept
  <2>2. \A t \in Taps : Expected(t)' = Expected(t) BY ExpectedKept
  <2>3. NoError' <=> NoError BY DEF NoError
  <2> QED BY <2>1, <2>2, <2>3 DEF IInv, StreamInv
<1>8. EndInv' BY DEF IInv, EndInv
<1> QED BY <1>1, <1>2, <1>3, <1>5, <1>6, <1>7, <1>8 DEF IInv

LEMMA StepInv == ASSUME OnlyLastStopsEarly, IInv, [Next]_vars PROVE IInv'
<1> USE DEF IInv
<1>1. CASE Driver
  <2>1. TypeOK' BY <1>1, TypeDriver
  <2>2. ThreadInv' BY <1>1, ThreadDriver
  <2>3. PhaseInv' BY <1>1, PhaseStep DEF Next
  <2>4. OrderInv' BY <1>1, OrderDriver
  <2>5. CountInv' BY <1>1, CountDriver
  <2>6. StreamInv' BY <1>1, StreamDriver
  <2>7. EndInv' BY <1>1, EndDriver
  <2> QED BY <2>1, <2>2, <2>3, <2>4, <2>5, <2>6, <2>7
<1>2. CASE \E t \in Taps : Thread(t)
  <2> PICK t \in Taps : Thread(t) BY <1>2
  <2>1. TypeOK' BY TypeThread
  <2>2. ThreadInv' BY ThreadThread
  <2>3. PhaseInv' BY PhaseStep DEF Next
  <2>4. OrderInv' BY OrderThread
  <2>5. CountInv' BY CountThread
  <2>6. StreamInv' BY StreamThread
  <2>7. EndInv' BY EndThread
  <2> QED BY <2>1, <2>2, <2>3, <2>4, <2>5, <2>6, <2>7
<1>3. CASE Cancel \/ Terminated \/ WaitsOnCancelled \/ UNCHANGED vars
  <2>1. UNCHANGED <<mc, up, thread, edge, driver>> /\ cancel' \in BOOLEAN
    BY <1>3 DEF Cancel, Terminated, WaitsOnCancelled, vars, TypeOK
  <2> QED BY <2>1, InvKept
<1> QED BY <1>1, <1>2, <1>3 DEF Next

LEMMA Inductive == ASSUME OnlyLastStopsEarly PROVE Spec => []IInv
<1>1. Init => IInv BY InitInv
<1>2. IInv /\ [Next]_vars => IInv' BY StepInv
<1> QED BY <1>1, <1>2, PTL DEF Spec

------------------------------------------------------------------------------
(* What the invariant says of the properties                                *)

\* A tap refers to a batch once.
LEMMA ReferringOnce ==
  ASSUME TypeOK, PhaseInv, OrderInv, NEW t \in Taps, NEW b \in Batches
  PROVE  /\ Held(t, b) <=> Referring(t, b) # {}
         /\ \A x, y \in Referring(t, b) : x = y
<1>1. /\ ring[t] \in Seq(Batches) /\ queue[t] \in Seq(Batches) /\ b \in Nat
  BY TapTypes DEF Batches
<1>2. \A s \in Seq(Batches) : In(s, b) <=> At(s, b) # {} BY DEF In, At
<1>3. ASSUME NEW s \in Seq(Batches), Sorted(s), NEW i \in At(s, b), NEW j \in At(s, b)
      PROVE  i = j
  <2>1. i \in 1 .. Len(s) /\ j \in 1 .. Len(s) /\ s[i] = b /\ s[j] = b BY <1>3 DEF At
  <2>2. ~(i < j) /\ ~(j < i) BY <1>1, <1>3, <2>1 DEF Sorted
  <2> QED BY <2>1, <2>2
<1>4. Sorted(ring[t]) /\ Sorted(queue[t]) BY DEF OrderInv
<1>5. /\ ~(In(ring[t], b) /\ In(queue[t], b)) /\ ~(In(ring[t], b) /\ InHand(t, b))
      /\ ~(InHand(t, b) /\ In(queue[t], b))
      /\ ~(InView(t, b) /\ (In(ring[t], b) \/ InHand(t, b) \/ In(queue[t], b)))
  <2>1. ~(b < b) BY <1>1
  <2> QED BY <2>1 DEF OrderInv
<1>6. \A x : x \in Referring(t, b) <=>
        \/ \E i \in At(queue[t], b) : x = <<"queue", i>>
        \/ \E i \in At(ring[t], b) : x = <<"ring", i>>
        \/ InHand(t, b) /\ x = <<"hand", 1>>
        \/ InView(t, b) /\ x = <<"view", 1>>
  BY DEF Referring, InHand, InView
<1>7. Held(t, b) <=> Referring(t, b) # {}
  <2>1. ASSUME Held(t, b) PROVE Referring(t, b) # {}
    BY <1>1, <1>2, <1>6, <2>1 DEF Held
  <2>2. ASSUME Referring(t, b) # {} PROVE Held(t, b)
    BY <1>1, <1>2, <1>6, <2>2 DEF Held
  <2> QED BY <2>1, <2>2
<1>8. ASSUME NEW x \in Referring(t, b), NEW y \in Referring(t, b) PROVE x = y
  <2>1. CASE In(queue[t], b)
    <3>1. \E i, j \in At(queue[t], b) : x = <<"queue", i>> /\ y = <<"queue", j>>
      BY <1>1, <1>2, <1>5, <1>6, <2>1
    <3> QED BY <1>1, <1>3, <1>4, <3>1
  <2>2. CASE In(ring[t], b)
    <3>1. \E i, j \in At(ring[t], b) : x = <<"ring", i>> /\ y = <<"ring", j>>
      BY <1>1, <1>2, <1>5, <1>6, <2>2
    <3> QED BY <1>1, <1>3, <1>4, <3>1
  <2>3. CASE ~In(queue[t], b) /\ ~In(ring[t], b)
    <3>1. \A z \in Referring(t, b) :
            \/ InHand(t, b) /\ z = <<"hand", 1>>
            \/ InView(t, b) /\ z = <<"view", 1>>
      BY <1>1, <1>2, <1>6, <2>3
    <3> QED BY <1>5, <3>1
  <2> QED BY <2>1, <2>2, <2>3
<1> QED BY <1>7, <1>8

\* ... so the references to it are as many as the taps that hold it.
LEMMA ReferencesAreHolders ==
  ASSUME TypeOK, PhaseInv, OrderInv, NEW b \in Batches
  PROVE  References(b) = Cardinality(Holders(b))
<1> DEFINE R == UNION {{t} \X Referring(t, b) : t \in Taps}
           f == [t \in Holders(b) |-> <<t, CHOOSE x : x \in Referring(t, b)>>]
<1>1. \A t \in Holders(b) : \E x : x \in Referring(t, b)
  BY ReferringOnce DEF Holders
<1>2. \A t \in Holders(b) :
        /\ t \in Taps /\ f[t] = <<t, CHOOSE x : x \in Referring(t, b)>>
        /\ (CHOOSE x : x \in Referring(t, b)) \in Referring(t, b)
  BY <1>1 DEF Holders
<1>3. \A t \in Holders(b) : f[t] \in R
  <2>1. \A t \in Taps : \A y \in Referring(t, b) : <<t, y>> \in R OBVIOUS
  <2>2. ASSUME NEW t \in Holders(b) PROVE f[t] \in R
    <3>1. PICK y \in Referring(t, b) : f[t] = <<t, y>> BY <1>2
    <3> HIDE DEF f, R
    <3> QED BY <1>2, <2>1, <3>1
  <2> QED BY <2>2
<1>4. \A t, u \in Holders(b) : f[t] = f[u] => t = u BY <1>2
<1>5. ASSUME NEW e \in R PROVE \E t \in Holders(b) : f[t] = e
  <2>0. PICK t \in Taps : e \in {t} \X Referring(t, b) OBVIOUS
  <2>1. PICK x \in Referring(t, b) : e = <<t, x>> BY <2>0
  <2>2. t \in Holders(b) BY <2>1, ReferringOnce DEF Holders
  <2>3. (CHOOSE y : y \in Referring(t, b)) = x BY <1>2, <2>1, <2>2, ReferringOnce
  <2> QED BY <1>2, <2>1, <2>2, <2>3
<1>6. f \in Bijection(Holders(b), R)
  <2>1. f \in [Holders(b) -> R] BY <1>3
  <2> QED BY <1>4, <1>5, <2>1, Fun_IsBij
<1>7. IsFiniteSet(Holders(b)) BY TapSets DEF Holders
<1>8. Cardinality(R) = Cardinality(Holders(b))
  BY <1>6, <1>7, FS_Bijection DEF ExistsBijection
<1> QED BY <1>8 DEF References

(* The shared batches: alive while referred to, counted exactly, released   *)
(* in the end; one thread in the component at a time (SharingIsSound).      *)
THEOREM SharedBatchesAreSound ==
  ASSUME OnlyLastStopsEarly
  PROVE  Spec => []SharingIsSound
<1>1. ASSUME IInv PROVE SharingIsSound
  <2> USE DEF IInv
  <2>1. 1 .. pulled \subseteq Batches BY <1>1 DEF TypeOK, Batches
  <2>2. \A b \in 1 .. pulled : References(b) = Cardinality(Holders(b))
    BY <1>1, <2>1, ReferencesAreHolders
  <2>3. \A b \in 1 .. pulled :
          ~(\E t \in Taps : Pushing(t, b)) => refcount[b] = References(b)
    BY <1>1, <2>1, <2>2 DEF CountInv
  <2>4. NoUseAfterFree
    <3>1. \A b \in released : b \in 1 .. pulled /\ refcount[b] = 0 BY <1>1 DEF CountInv
    <3>2. \A b \in 1 .. pulled : (\E t \in Taps : Pushing(t, b)) => refcount[b] # 0
      BY <1>1, <2>1 DEF CountInv
    <3> QED BY <2>3, <3>1, <3>2 DEF NoUseAfterFree
  <2>5. RefcountExact BY <2>3 DEF RefcountExact, Pushing
  <2>6. NothingLeaked
    <3>1. ASSUME phase = "done" PROVE released = 1 .. pulled
      <4>1. \A t \in Taps : /\ tpc[t] \in {"none", "exit"} /\ ring[t] = <<>>
                            /\ queue[t] = <<>> /\ view = 0
        BY <1>1, <3>1 DEF PhaseInv, Joined
      <4>2. \A t \in Taps, b \in Batches : ~Held(t, b) /\ ~Pushing(t, b)
        BY <4>1 DEF Held, In, InHand, InView, Pushing, Batches
      <4>3. \A b \in Batches : Holders(b) = {} BY <4>2 DEF Holders
      <4>4. \A b \in Batches : refcount[b] = 0
        BY <1>1, <4>2, <4>3, FS_EmptySet DEF CountInv
      <4> QED BY <1>1, <2>1, <4>4 DEF CountInv
    <3> QED BY <3>1 DEF NothingLeaked
  <2>7. OneThreadInComponent BY <1>1, OneRuns DEF OneThreadInComponent, InMulticast, Running
  <2> QED BY <1>1, <2>4, <2>5, <2>6, <2>7 DEF SharingIsSound
<1> QED BY <1>1, Inductive, PTL

(* Every tap hands its consumer the batches of the upstream from the first  *)
(* on, in order, and a consumer that saw the end of its stream had them all *)
(* (TapsSeeEverything).                                                     *)
THEOREM EveryTapSeesEveryBatch ==
  ASSUME OnlyLastStopsEarly
  PROVE  Spec => []TapsSeeEverything
<1>1. ASSUME IInv PROVE TapsSeeEverything
  <2>1. \A t \in Taps : got[t] \in Seq(Batches) /\ Numbered(got[t], 0)
    BY <1>1 DEF IInv, TypeOK, StreamInv
  <2>2. \A t \in Taps : \A i \in DOMAIN got[t] : got[t][i] = i BY <2>1 DEF Numbered
  <2> QED BY <1>1, <2>2 DEF IInv, EndInv, TapsSeeEverything
<1> QED BY <1>1, Inductive, PTL
==============================================================================
