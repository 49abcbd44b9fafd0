----------------------------- MODULE DataLemmas -----------------------------
(***************************************************************************)
(* Facts about data that the proofs of several modules need: induction     *)
(* over the natural numbers and recursive functions, said about sets so    *)
(* that a proof can cite them; selecting from a sequence and flattening    *)
(* one.                                                                    *)
(***************************************************************************)
EXTENDS Selection, SequencesExt, FiniteSetTheorems, SequenceTheorems, TLAPS

------------------------------------------------------------------------------
(* Induction                                                                *)

(* A set of naturals has a least one.                                       *)
LEMMA LeastElement ==
  ASSUME NEW K \in SUBSET Nat, K # {}
  PROVE  \E k \in K : \A j \in K : k <= j
<1> DEFINE R == StrictSubsetOrdering(Nat)
           S == FiniteSubsetsOf(Nat)
           T == {0 .. k : k \in K}
<1>1. IsWellFoundedOn(R, S) BY FS_StrictSubsetOrderingWellFounded
<1>2. T \subseteq S /\ T # {}
  <2>1. \A k \in K : 0 .. k \in SUBSET Nat /\ IsFiniteSet(0 .. k)
    <3> SUFFICES ASSUME NEW k \in K PROVE 0 .. k \in SUBSET Nat /\ IsFiniteSet(0 .. k)
      OBVIOUS
    <3>1. 0 \in Int /\ k \in Int OBVIOUS
    <3>2. IsFiniteSet(0 .. k) BY <3>1, FS_Interval
    <3> QED BY <3>2
  <2>2. \A k \in K : 0 .. k \in S BY <2>1 DEF FiniteSubsetsOf
  <2>3. PICK k \in K : TRUE OBVIOUS
  <2> HIDE DEF S
  <2> QED BY <2>2, <2>3
<1>3. PICK x \in T : \A y \in T : ~ (<<y, x>> \in R) BY <1>1, <1>2, WFMin
<1>4. PICK k \in K : x = 0 .. k BY <1>3
<1>5. \A j \in K : ~ (j < k)
  <2> SUFFICES ASSUME NEW j \in K, j < k PROVE FALSE OBVIOUS
  <2>1. 0 .. j \subseteq 0 .. k /\ 0 .. j # 0 .. k
    <3>1. k \in 0 .. k /\ k \notin 0 .. j OBVIOUS
    <3> QED BY <3>1
  <2>2. <<0 .. j, 0 .. k>> \in R BY <2>1 DEF StrictSubsetOrdering
  <2> QED BY <1>3, <1>4, <2>2
<1> QED BY <1>5

(* What holds of 0 and passes from each number below n to the next holds up *)
(* to n.                                                                    *)
LEMMA Induction ==
  ASSUME NEW n \in Nat, NEW P, 0 \in P, \A k \in 0 .. n : k # n /\ k \in P => k + 1 \in P
  PROVE  \A k \in 0 .. n : k \in P
<1> DEFINE Bad == {k \in 0 .. n : k \notin P}
<1> SUFFICES ASSUME Bad # {} PROVE FALSE OBVIOUS
<1>1. PICK k \in Bad : \A j \in Bad : k <= j
  <2>1. Bad \in SUBSET Nat OBVIOUS
  <2> HIDE DEF Bad
  <2> QED BY <2>1, LeastElement
<1>2. k # 0 /\ k \in 0 .. n BY <1>1
<1>3. PICK j \in 0 .. n : k = j + 1 /\ j # n
  <2>1. k - 1 \in 0 .. n /\ k - 1 # n /\ k = (k - 1) + 1 BY <1>2
  <2> QED BY <2>1
<1>4. j \in P
  <2>1. ~(k <= j) BY <1>3
  <2> QED BY <1>1, <1>3, <2>1
<1> QED BY <1>1, <1>3, <1>4

(* A function on 0 .. n is defined by its first value and by the value that *)
(* follows each.                                                            *)
Follows(f, n, first, step) ==
  f[0] = first /\ \A i \in 1 .. n : f[i] = step[<<f[i - 1], i>>]

LEMMA RecursiveFunction ==
  ASSUME NEW n \in Nat, NEW S, NEW first \in S, NEW step \in [S \X (1 .. n) -> S]
  PROVE  \E f \in [0 .. n -> S] : Follows(f, n, first, step)
<1> DEFINE P == {k \in 0 .. n : \E f \in [0 .. k -> S] : Follows(f, k, first, step)}
<1>1. 0 \in P
  <2> DEFINE f == [i \in 0 .. 0 |-> first]
  <2>1. f \in [0 .. 0 -> S] /\ Follows(f, 0, first, step) BY DEF Follows
  <2> QED BY <2>1
<1>2. ASSUME NEW k \in 0 .. n, k # n, k \in P PROVE k + 1 \in P
  <2>1. PICK f \in [0 .. k -> S] : Follows(f, k, first, step) BY <1>2
  <2>2. k \in Nat /\ k + 1 \in 1 .. n /\ k + 1 \in 0 .. n BY <1>2
  <2>3. PICK next \in S : next = step[<<f[k], k + 1>>]
    <3>1. f[k] \in S BY <2>1, <2>2
    <3> QED BY <2>2, <3>1
  <2> DEFINE g == [i \in 0 .. k + 1 |-> IF i = k + 1 THEN next ELSE f[i]]
  <2>4. g \in [0 .. k + 1 -> S]
    <3>1. \A i \in 0 .. k + 1 : i # k + 1 => i \in 0 .. k BY <2>2
    <3> QED BY <2>1, <2>3, <3>1
  <2>5. g[0] = first /\ g[k + 1] = next /\ \A i \in 0 .. k : g[i] = f[i]
    <3>1. 0 \in 0 .. k + 1 /\ 0 # k + 1 /\ k + 1 \in 0 .. k + 1 BY <2>2
    <3>2. \A i \in 0 .. k : i \in 0 .. k + 1 /\ i # k + 1 BY <2>2
    <3> QED BY <2>1, <3>1, <3>2 DEF Follows
  <2>6. ASSUME NEW i \in 1 .. k + 1 PROVE g[i] = step[<<g[i - 1], i>>]
    <3>1. i - 1 \in 0 .. k BY <2>2
    <3>2. g[i - 1] = f[i - 1] BY <2>5, <3>1
    <3>3. CASE i = k + 1
      <4>1. i - 1 = k BY <2>2, <3>3
      <4> HIDE DEF g
      <4> QED BY <2>3, <2>5, <3>2, <3>3, <4>1
    <3>4. CASE i # k + 1
      <4>1. i \in 0 .. k /\ i \in 1 .. k BY <2>2, <3>4
      <4> HIDE DEF g
      <4> QED BY <2>1, <2>5, <3>2, <4>1 DEF Follows
    <3> QED BY <3>3, <3>4
  <2> HIDE DEF g
  <2>7. Follows(g, k + 1, first, step) BY <2>5, <2>6 DEF Follows
  <2> QED BY <2>2, <2>4, <2>7
<1>3. n \in P
  <2>1. n \in 0 .. n OBVIOUS
  <2> HIDE DEF P
  <2> QED BY <1>1, <1>2, <2>1, Induction
<1> QED BY <1>3
------------------------------------------------------------------------------
(* Selecting from a sequence                                                *)

(* k[i] is what is kept of the first i elements of s.                       *)
Keeps(k, s, set) ==
  /\ k[0] = << >>
  /\ \A i \in 1 .. Len(s) : k[i] = IF s[i] \in set THEN Append(k[i - 1], s[i]) ELSE k[i - 1]

LEMMA KeptIsComputed ==
  ASSUME NEW S, NEW s \in Seq(S), NEW set
  PROVE  \E k \in [0 .. Len(s) -> Seq(S)] : Keeps(k, s, set) /\ Kept(s, set) = k[Len(s)]
<1>0. PICK n \in Nat : n = Len(s) BY LenProperties
<1> DEFINE Body(f, i) == IF i = 0 THEN << >>
                         ELSE IF s[i] \in set THEN Append(f[i - 1], s[i]) ELSE f[i - 1]
           Solves(f) == f = [i \in 0 .. Len(s) |-> Body(f, i)]
           k == CHOOSE f : Solves(f)
           step == [p \in Seq(S) \X (1 .. n) |-> IF s[p[2]] \in set THEN Append(p[1], s[p[2]]) ELSE p[1]]
<1>1. step \in [Seq(S) \X (1 .. n) -> Seq(S)]
  <2> SUFFICES ASSUME NEW a \in Seq(S), NEW i \in 1 .. n
               PROVE  (IF s[i] \in set THEN Append(a, s[i]) ELSE a) \in Seq(S)
    OBVIOUS
  <2>1. s[i] \in S BY <1>0, ElementOfSeq
  <2> QED BY <2>1, AppendProperties
<1>2. << >> \in Seq(S) OBVIOUS
<1>3. PICK f \in [0 .. n -> Seq(S)] : Follows(f, n, << >>, step)
  <2> HIDE DEF step
  <2> QED BY <1>1, <1>2, RecursiveFunction
<1>4. Solves(f)
  <2>1. ASSUME NEW i \in 0 .. n PROVE f[i] = Body(f, i)
    <3>1. CASE i = 0 BY <1>3, <3>1 DEF Follows
    <3>2. CASE i # 0
      <4>1. i \in 1 .. n /\ i - 1 \in 0 .. n BY <3>2
      <4>2. f[i] = step[<<f[i - 1], i>>] BY <1>3, <4>1 DEF Follows
      <4>3. f[i - 1] \in Seq(S) BY <1>3, <4>1
      <4>4. <<f[i - 1], i>> \in Seq(S) \X (1 .. n) BY <4>1, <4>3
      <4>5. step[<<f[i - 1], i>>] = IF s[i] \in set THEN Append(f[i - 1], s[i]) ELSE f[i - 1]
        BY <4>4
      <4> QED BY <3>2, <4>2, <4>5
    <3> QED BY <3>1, <3>2
  <2>2. f = [i \in 0 .. n |-> f[i]] BY <1>3
  <2> HIDE DEF Body
  <2> QED BY <1>0, <2>1, <2>2
<1>5. Solves(k)
  <2> HIDE DEF Solves
  <2> QED BY <1>4
<1>6. \A i \in 0 .. n : k[i] = Body(k, i)
  <2> HIDE DEF k, Body
  <2> QED BY <1>0, <1>5
<1>7. Keeps(k, s, set)
  <2>1. k[0] = << >>
    <3>1. 0 \in 0 .. n OBVIOUS
    <3> HIDE DEF k
    <3> QED BY <1>6, <3>1
  <2>2. ASSUME NEW i \in 1 .. n
        PROVE  k[i] = IF s[i] \in set THEN Append(k[i - 1], s[i]) ELSE k[i - 1]
    <3>1. i \in 0 .. n /\ i # 0 OBVIOUS
    <3> HIDE DEF k
    <3> QED BY <1>6, <3>1
  <2> HIDE DEF k
  <2> QED BY <1>0, <2>1, <2>2 DEF Keeps
<1>8. k \in [0 .. n -> Seq(S)]
  <2> HIDE DEF k
  <2> DEFINE P == {i \in 0 .. n : k[i] \in Seq(S)}
  <2>1. 0 \in P
    <3>1. 0 \in 0 .. n /\ k[0] = << >> BY <1>7 DEF Keeps
    <3> QED BY <1>2, <3>1
  <2>2. ASSUME NEW i \in 0 .. n, i # n, i \in P PROVE i + 1 \in P
    <3>1. i + 1 \in 1 .. n /\ i + 1 \in 0 .. n /\ (i + 1) - 1 = i BY <2>2
    <3>2. s[i + 1] \in S BY <1>0, <3>1, ElementOfSeq
    <3>3. k[i + 1] = IF s[i + 1] \in set THEN Append(k[i], s[i + 1]) ELSE k[i]
      BY <1>0, <1>7, <3>1 DEF Keeps
    <3>4. Append(k[i], s[i + 1]) \in Seq(S) BY <2>2, <3>2, AppendProperties
    <3> QED BY <2>2, <3>1, <3>3, <3>4
  <2>3. \A i \in 0 .. n : k[i] \in Seq(S)
    <3>1. \A i \in 0 .. n : i \in P
      <4> HIDE DEF P
      <4> QED BY <2>1, <2>2, Induction
    <3> QED BY <3>1
  <2>4. k = [i \in 0 .. n |-> Body(k, i)]
    <3> HIDE DEF Body
    <3> QED BY <1>0, <1>5
  <2>5. \A i \in 0 .. n : Body(k, i) \in Seq(S)
    <3> HIDE DEF Body
    <3> QED BY <1>6, <2>3
  <2> HIDE DEF Body
  <2> QED BY <2>4, <2>5
<1>9. Kept(s, set) = k[Len(s)] BY DEF Kept
<1> HIDE DEF k
<1> QED BY <1>0, <1>7, <1>8, <1>9

LEMMA KeptIsSeq ==
  ASSUME NEW S, NEW s \in Seq(S), NEW set
  PROVE  Kept(s, set) \in Seq(S)
<1>1. Len(s) \in 0 .. Len(s) BY LenProperties
<1> QED BY <1>1, KeptIsComputed

(* a and b after it, under a name that keeps the provers from computing.    *)
Concat(a, b) == a \o b

LEMMA AppendLater ==
  ASSUME NEW S, NEW a \in Seq(S), NEW b \in Seq(S), NEW e \in S
  PROVE  Append(Concat(a, b), e) = Concat(a, Append(b, e))
<1>1. Append(b, e) = b \o <<e>> BY AppendIsConcat
<1>2. a \o b \in Seq(S) /\ <<e>> \in Seq(S) OBVIOUS
<1>3. Append(a \o b, e) = (a \o b) \o <<e>> BY <1>2, AppendIsConcat
<1>4. (a \o b) \o <<e>> = a \o (b \o <<e>>) BY <1>2, ConcatAssociative
<1> QED BY <1>1, <1>3, <1>4 DEF Concat

(* What is kept of s and then t is what is kept of each.                    *)
LEMMA KeptOfConcat ==
  ASSUME NEW S, NEW s \in Seq(S), NEW t \in Seq(S), NEW set
  PROVE  Kept(s \o t, set) = Kept(s, set) \o Kept(t, set)
<1>0. \A a \in Seq(S), b \in Seq(S), e \in S : Append(Concat(a, b), e) = Concat(a, Append(b, e))
  BY AppendLater
<1>1. PICK m, n \in Nat : m = Len(s) /\ n = Len(t) BY LenProperties
<1>2. PICK u \in Seq(S) :
        /\ u = s \o t /\ Len(u) = m + n
        /\ \A i \in 1 .. m : u[i] = s[i]
        /\ \A i \in 1 .. n : u[m + i] = t[i]
  <2>1. s \o t \in Seq(S) OBVIOUS
  <2>2. Len(s \o t) = m + n BY <1>1, ConcatProperties
  <2>3. \A i \in 1 .. m : (s \o t)[i] = s[i] BY <1>1
  <2>4. \A i \in 1 .. n : (s \o t)[m + i] = t[i] BY <1>1
  <2> QED BY <2>1, <2>2, <2>3, <2>4
<1>3. PICK k \in [0 .. m -> Seq(S)] : Keeps(k, s, set) /\ Kept(s, set) = k[m]
  BY <1>1, KeptIsComputed
<1>4. PICK l \in [0 .. n -> Seq(S)] : Keeps(l, t, set) /\ Kept(t, set) = l[n]
  BY <1>1, KeptIsComputed
<1>5. PICK w \in [0 .. m + n -> Seq(S)] : Keeps(w, u, set) /\ Kept(u, set) = w[m + n]
  <2>1. PICK w \in [0 .. Len(u) -> Seq(S)] : Keeps(w, u, set) /\ Kept(u, set) = w[Len(u)]
    BY KeptIsComputed
  <2> QED BY <1>2, <2>1
<1>6. w[m] = k[m]
  <2> DEFINE P == {i \in 0 .. m : w[i] = k[i]}
  <2>1. 0 \in P BY <1>3, <1>5 DEF Keeps
  <2>2. ASSUME NEW i \in 0 .. m, i # m, i \in P PROVE i + 1 \in P
    <3>1. i + 1 \in 1 .. m /\ i + 1 \in 1 .. m + n /\ (i + 1) - 1 = i BY <2>2
    <3>2. w[i + 1] = IF u[i + 1] \in set THEN Append(w[i], u[i + 1]) ELSE w[i]
      BY <1>2, <1>5, <3>1 DEF Keeps
    <3>3. k[i + 1] = IF s[i + 1] \in set THEN Append(k[i], s[i + 1]) ELSE k[i]
      BY <1>1, <1>3, <3>1 DEF Keeps
    <3>4. u[i + 1] = s[i + 1] BY <1>2, <3>1
    <3>5. w[i] = k[i] BY <2>2
    <3>6. w[i + 1] = k[i + 1] BY <3>2, <3>3, <3>4, <3>5
    <3>7. i + 1 \in 0 .. m BY <3>1
    <3> QED BY <3>6, <3>7
  <2>3. m \in P
    <3>1. m \in 0 .. m OBVIOUS
    <3> HIDE DEF P
    <3> QED BY <2>1, <2>2, <3>1, Induction
  <2> QED BY <2>3
<1>7. w[m + n] = Concat(k[m], l[n])
  <2> DEFINE P == {i \in 0 .. n : w[m + i] = Concat(k[m], l[i])}
  <2>0. k[m] \in Seq(S) BY <1>3
  <2>1. 0 \in P
    <3>1. l[0] = << >> /\ Concat(k[m], << >>) = k[m] BY <1>4, <2>0, ConcatEmptySeq DEF Keeps, Concat
    <3>2. m + 0 = m /\ 0 \in 0 .. n OBVIOUS
    <3> QED BY <1>6, <3>1, <3>2
  <2>2. ASSUME NEW i \in 0 .. n, i # n, i \in P PROVE i + 1 \in P
    <3>1. i + 1 \in 1 .. n /\ (i + 1) - 1 = i BY <2>2
    <3>2. m + (i + 1) \in 1 .. m + n /\ (m + (i + 1)) - 1 = m + i BY <2>2
    <3>3. w[m + (i + 1)] = IF u[m + (i + 1)] \in set
                           THEN Append(w[m + i], u[m + (i + 1)]) ELSE w[m + i]
      <4>1. PICK j \in 1 .. m + n : j = m + (i + 1) BY <3>2
      <4>2. w[j] = IF u[j] \in set THEN Append(w[j - 1], u[j]) ELSE w[j - 1]
        BY <1>2, <1>5 DEF Keeps
      <4>3. j - 1 = m + i BY <3>2, <4>1
      <4> QED BY <4>1, <4>2, <4>3
    <3>4. l[i + 1] = IF t[i + 1] \in set THEN Append(l[i], t[i + 1]) ELSE l[i]
      BY <1>1, <1>4, <3>1 DEF Keeps
    <3>5. u[m + (i + 1)] = t[i + 1] BY <1>2, <3>1
    <3>6. l[i] \in Seq(S) /\ t[i + 1] \in S BY <1>1, <1>4, <3>1, ElementOfSeq
    <3>7. Append(Concat(k[m], l[i]), t[i + 1]) = Concat(k[m], Append(l[i], t[i + 1]))
      BY <1>0, <2>0, <3>6, Zenon
    <3>8. i + 1 \in 0 .. n BY <3>1
    <3> QED BY <2>2, <3>3, <3>4, <3>5, <3>7, <3>8
  <2>3. n \in P
    <3>1. n \in 0 .. n OBVIOUS
    <3> HIDE DEF P
    <3> QED BY <2>1, <2>2, <3>1, Induction
  <2> QED BY <2>3
<1> QED BY <1>2, <1>3, <1>4, <1>5, <1>7 DEF Concat

LEMMA KeptJoins ==
  ASSUME NEW S, NEW s \in Seq(S), NEW t \in Seq(S), NEW set
  PROVE  Kept(Concat(s, t), set) = Concat(Kept(s, set), Kept(t, set))
BY KeptOfConcat DEF Concat

(* Only which elements of s are in the set matters.                         *)
LEMMA KeptAgrees ==
  ASSUME NEW S, NEW s \in Seq(S), NEW set, NEW other,
         \A i \in 1 .. Len(s) : s[i] \in set <=> s[i] \in other
  PROVE  Kept(s, set) = Kept(s, other)
<1>1. PICK n \in Nat : n = Len(s) BY LenProperties
<1>2. PICK k \in [0 .. n -> Seq(S)] : Keeps(k, s, set) /\ Kept(s, set) = k[n]
  BY <1>1, KeptIsComputed
<1>3. PICK l \in [0 .. n -> Seq(S)] : Keeps(l, s, other) /\ Kept(s, other) = l[n]
  BY <1>1, KeptIsComputed
<1> DEFINE P == {i \in 0 .. n : k[i] = l[i]}
<1>4. 0 \in P BY <1>2, <1>3 DEF Keeps
<1>5. ASSUME NEW i \in 0 .. n, i # n, i \in P PROVE i + 1 \in P
  <2>1. i + 1 \in 1 .. n /\ i + 1 \in 0 .. n /\ (i + 1) - 1 = i BY <1>5
  <2>2. k[i + 1] = IF s[i + 1] \in set THEN Append(k[i], s[i + 1]) ELSE k[i]
    BY <1>1, <1>2, <2>1 DEF Keeps
  <2>3. l[i + 1] = IF s[i + 1] \in other THEN Append(l[i], s[i + 1]) ELSE l[i]
    BY <1>1, <1>3, <2>1 DEF Keeps
  <2>4. s[i + 1] \in set <=> s[i + 1] \in other BY <1>1, <2>1
  <2> QED BY <1>5, <2>1, <2>2, <2>3, <2>4
<1>6. n \in P
  <2>1. n \in 0 .. n OBVIOUS
  <2> HIDE DEF P
  <2> QED BY <1>4, <1>5, <2>1, Induction
<1> QED BY <1>2, <1>3, <1>6
(* Nothing is kept exactly if nothing of s is in the set.                   *)
LEMMA KeptIsEmpty ==
  ASSUME NEW S, NEW s \in Seq(S), NEW set
  PROVE  Kept(s, set) = << >> <=> \A i \in 1 .. Len(s) : s[i] \notin set
<1>0. \A a \in Seq(S), e \in S : Append(a, e) # << >> BY AppendProperties
<1>1. PICK n \in Nat : n = Len(s) BY LenProperties
<1>2. PICK k \in [0 .. n -> Seq(S)] : Keeps(k, s, set) /\ Kept(s, set) = k[n]
  BY <1>1, KeptIsComputed
<1> DEFINE P == {i \in 0 .. n : k[i] = << >> <=> \A j \in 1 .. i : s[j] \notin set}
<1>3. 0 \in P
  <2>1. k[0] = << >> /\ 0 \in 0 .. n BY <1>2 DEF Keeps
  <2> QED BY <2>1
<1>4. ASSUME NEW i \in 0 .. n, i # n, i \in P PROVE i + 1 \in P
  <2>1. i + 1 \in 1 .. n /\ i + 1 \in 0 .. n /\ (i + 1) - 1 = i BY <1>4
  <2>2. k[i + 1] = IF s[i + 1] \in set THEN Append(k[i], s[i + 1]) ELSE k[i]
    BY <1>1, <1>2, <2>1 DEF Keeps
  <2>3. Append(k[i], s[i + 1]) # << >>
    <3>1. s[i + 1] \in S BY <1>1, <2>1, ElementOfSeq
    <3>2. k[i] \in Seq(S) BY <1>2
    <3> QED BY <1>0, <3>1, <3>2, Zenon
  <2>4. (\A j \in 1 .. i + 1 : s[j] \notin set)
          <=> s[i + 1] \notin set /\ \A j \in 1 .. i : s[j] \notin set
    <3>1. \A j : j \in 1 .. i + 1 <=> j = i + 1 \/ j \in 1 .. i BY <2>1
    <3> QED BY <3>1
  <2>5. k[i] = << >> <=> \A j \in 1 .. i : s[j] \notin set BY <1>4
  <2>6. k[i + 1] = << >> <=> \A j \in 1 .. i + 1 : s[j] \notin set BY <2>2, <2>3, <2>4, <2>5
  <2> QED BY <2>1, <2>6
<1>5. n \in P
  <2>1. n \in 0 .. n OBVIOUS
  <2> HIDE DEF P
  <2> QED BY <1>3, <1>4, <2>1, Induction
<1> QED BY <1>1, <1>2, <1>5

LEMMA ConcatIsSeq ==
  ASSUME NEW S, NEW a \in Seq(S), NEW b \in Seq(S)
  PROVE  Concat(a, b) \in Seq(S)
BY DEF Concat

(* What a and then b is, element by element.                                *)
Chained(c, a, b, m, n) ==
  /\ Len(c) = m + n
  /\ \A i \in 1 .. m : c[i] = a[i]
  /\ \A i \in 1 .. n : c[m + i] = b[i]

LEMMA ConcatIs ==
  ASSUME NEW S, NEW a \in Seq(S), NEW b \in Seq(S),
         NEW m \in Nat, NEW n \in Nat, m = Len(a), n = Len(b)
  PROVE  Chained(Concat(a, b), a, b, m, n)
<1>1. Len(a \o b) = m + n OBVIOUS
<1>2. \A i \in 1 .. m : (a \o b)[i] = a[i] OBVIOUS
<1>3. \A i \in 1 .. n : (a \o b)[m + i] = b[i] OBVIOUS
<1> QED BY <1>1, <1>2, <1>3 DEF Concat, Chained

(* A sequence is a then b if it has their elements.                         *)
LEMMA IsConcat ==
  ASSUME NEW S, NEW a \in Seq(S), NEW b \in Seq(S), NEW c \in Seq(S),
         NEW m \in Nat, NEW n \in Nat, m = Len(a), n = Len(b), Chained(c, a, b, m, n)
  PROVE  c = Concat(a, b)
<1>1. PICK d \in Seq(S) : d = Concat(a, b) BY ConcatIsSeq
<1>joined. Chained(d, a, b, m, n) BY <1>1, ConcatIs
<1>2. Len(d) = m + n BY <1>joined DEF Chained
<1>3. \A i \in 1 .. m : d[i] = a[i] BY <1>joined DEF Chained
<1>4. \A i \in 1 .. n : d[m + i] = b[i] BY <1>joined DEF Chained
<1>5. ASSUME NEW i \in 1 .. m + n PROVE c[i] = d[i]
  <2>1. CASE i \in 1 .. m BY <1>3, <2>1 DEF Chained
  <2>2. CASE i \notin 1 .. m
    <3>1. PICK j \in 1 .. n : i = m + j
      <4>1. i - m \in 1 .. n /\ i = m + (i - m) BY <2>2
      <4> QED BY <4>1
    <3>2. c[m + j] = b[j] /\ d[m + j] = b[j] BY <1>4 DEF Chained
    <3> QED BY <3>1, <3>2
  <2> QED BY <2>1, <2>2
<1>6. c = d BY <1>2, <1>5, SeqEqual DEF Chained
<1> QED BY <1>1, <1>6

(* What a sequence begins with is its first elements.                       *)
LEMMA ConcatHead ==
  ASSUME NEW S, NEW a \in Seq(S), NEW b \in Seq(S), NEW m \in Nat, m = Len(a)
  PROVE  SubSeq(Concat(a, b), 1, m) = a
<1>1. PICK n \in Nat : n = Len(b) OBVIOUS
<1>2. PICK c \in Seq(S) : c = Concat(a, b) BY ConcatIsSeq
<1>3. Chained(c, a, b, m, n) BY <1>1, <1>2, ConcatIs
<1>4. Len(c) = m + n /\ \A i \in 1 .. m : c[i] = a[i] BY <1>3 DEF Chained
<1>5. \A i \in 1 .. m : c[i] \in S BY <1>4
<1>6. /\ SubSeq(c, 1, m) \in Seq(S) /\ Len(SubSeq(c, 1, m)) = m
      /\ \A i \in 1 .. m : SubSeq(c, 1, m)[i] = c[i]
  BY <1>4, <1>5
<1>7. PICK d \in Seq(S) : d = SubSeq(c, 1, m) /\ Len(d) = m BY <1>6
<1>8. \A i \in 1 .. m : d[i] = a[i] BY <1>4, <1>6, <1>7
<1>9. d = a BY <1>7, <1>8, SeqEqual
<1> QED BY <1>2, <1>7, <1>9

(* Every element of s replaced by what g maps it to.                        *)
Mapped(g, s) == [i \in 1 .. Len(s) |-> g[s[i]]]

MapsTo(x, g, s, n) == Len(x) = n /\ \A i \in 1 .. n : x[i] = g[s[i]]

LEMMA MappedIs ==
  ASSUME NEW S, NEW g, NEW s \in Seq(S), NEW n \in Nat, n = Len(s)
  PROVE  Mapped(g, s) \in Seq({g[e] : e \in S}) /\ MapsTo(Mapped(g, s), g, s, n)
<1>1. \A i \in 1 .. n : Mapped(g, s)[i] = g[s[i]] BY DEF Mapped
<1>2. \A i \in 1 .. n : g[s[i]] \in {g[e] : e \in S} OBVIOUS
<1>3. Mapped(g, s) \in Seq({g[e] : e \in S}) /\ Len(Mapped(g, s)) = n BY <1>2 DEF Mapped
<1> QED BY <1>1, <1>3 DEF MapsTo

LEMMA MappedOfConcat ==
  ASSUME NEW S, NEW g, NEW a \in Seq(S), NEW b \in Seq(S)
  PROVE  Mapped(g, Concat(a, b)) = Concat(Mapped(g, a), Mapped(g, b))
<1>0. PICK m \in Nat, n \in Nat : m = Len(a) /\ n = Len(b) OBVIOUS
<1>1. PICK c \in Seq(S) : c = Concat(a, b) BY ConcatIsSeq
<1>joined. Chained(c, a, b, m, n) BY <1>0, <1>1, ConcatIs
<1>2. Len(c) = m + n BY <1>joined DEF Chained
<1>3. \A i \in 1 .. m : c[i] = a[i] BY <1>joined DEF Chained
<1>4. \A i \in 1 .. n : c[m + i] = b[i] BY <1>joined DEF Chained
<1> DEFINE T == {g[e] : e \in S}
<1>5. PICK x \in Seq(T) : x = Mapped(g, a) /\ MapsTo(x, g, a, m)
  BY <1>0, MappedIs
<1>6. PICK y \in Seq(T) : y = Mapped(g, b) /\ MapsTo(y, g, b, n)
  BY <1>0, MappedIs
<1>7. PICK k \in Nat : k = m + n OBVIOUS
<1>8. PICK z \in Seq(T) : z = Mapped(g, c) /\ MapsTo(z, g, c, k)
  BY <1>2, <1>7, MappedIs
<1>9. ASSUME NEW i \in 1 .. m PROVE z[i] = x[i]
  <2>1. i \in 1 .. k BY <1>7
  <2> QED BY <1>3, <1>5, <1>8, <2>1 DEF MapsTo
<1>10. ASSUME NEW i \in 1 .. n PROVE z[m + i] = y[i]
  <2>1. PICK j \in 1 .. k : j = m + i
    <3>1. m + i \in 1 .. k BY <1>7
    <3> QED BY <3>1
  <2>2. z[j] = g[c[j]] /\ c[j] = b[i] BY <1>4, <1>8, <2>1 DEF MapsTo
  <2> QED BY <1>6, <2>1, <2>2 DEF MapsTo
<1>11. Len(z) = m + n /\ Len(x) = m /\ Len(y) = n BY <1>5, <1>6, <1>7, <1>8 DEF MapsTo
<1>12. Chained(z, x, y, m, n) BY <1>9, <1>10, <1>11 DEF Chained
<1>13. z = Concat(x, y) BY <1>11, <1>12, IsConcat
<1> QED BY <1>1, <1>5, <1>6, <1>8, <1>13

(* The elements of a and then b are those of both.                          *)
LEMMA ConcatElements ==
  ASSUME NEW S, NEW a \in Seq(S), NEW b \in Seq(S)
  PROVE  ToSet(Concat(a, b)) = ToSet(a) \cup ToSet(b)
<1>0. PICK m \in Nat, n \in Nat : m = Len(a) /\ n = Len(b) OBVIOUS
<1>1. PICK c \in Seq(S) : c = Concat(a, b) BY ConcatIsSeq
<1>joined. Chained(c, a, b, m, n) BY <1>0, <1>1, ConcatIs
<1>2. Len(c) = m + n BY <1>joined DEF Chained
<1>3. \A i \in 1 .. m : c[i] = a[i] BY <1>joined DEF Chained
<1>4. \A i \in 1 .. n : c[m + i] = b[i] BY <1>joined DEF Chained
<1>5. ToSet(a) = {a[i] : i \in 1 .. m} /\ ToSet(b) = {b[i] : i \in 1 .. n}
  <2>1. DOMAIN a = 1 .. m /\ DOMAIN b = 1 .. n BY <1>0
  <2> QED BY <2>1 DEF ToSet
<1>6. ToSet(c) = {c[i] : i \in 1 .. m + n} BY <1>2 DEF ToSet
<1>7. ASSUME NEW i \in 1 .. m + n PROVE c[i] \in ToSet(a) \cup ToSet(b)
  <2>1. CASE i \in 1 .. m BY <1>3, <1>5, <2>1
  <2>2. CASE i \notin 1 .. m
    <3>1. PICK j \in 1 .. n : i = m + j
      <4>1. i - m \in 1 .. n /\ i = m + (i - m) BY <2>2
      <4> QED BY <4>1
    <3> QED BY <1>4, <1>5, <3>1
  <2> QED BY <2>1, <2>2
<1>8. ASSUME NEW i \in 1 .. m PROVE a[i] \in ToSet(c)
  <2>1. i \in 1 .. m + n OBVIOUS
  <2> QED BY <1>3, <1>6, <2>1
<1>9. ASSUME NEW i \in 1 .. n PROVE b[i] \in ToSet(c)
  <2>1. PICK j \in 1 .. m + n : j = m + i
    <3>1. m + i \in 1 .. m + n OBVIOUS
    <3> QED BY <3>1
  <2>2. c[j] = b[i] BY <1>4, <2>1
  <2> QED BY <1>6, <2>2
<1> QED BY <1>1, <1>5, <1>6, <1>7, <1>8, <1>9

(* What something follows is a prefix.                                      *)
LEMMA ConcatIsLonger ==
  ASSUME NEW S, NEW a \in Seq(S), NEW b \in Seq(S)
  PROVE  IsPrefix(a, Concat(a, b))
<1>1. PICK m, n \in Nat : m = Len(a) /\ n = Len(b) BY LenProperties
<1>2. Len(a \o b) = m + n BY <1>1, ConcatProperties
<1>3. SubSeq(a \o b, 1, m) = a BY <1>1, SubSeqOfConcat1
<1>4. SubSeq(a, 1, m) = a BY <1>1, SubSeqFull
<1>5. m <= m + n OBVIOUS
<1> QED BY <1>1, <1>2, <1>3, <1>4, <1>5 DEF IsPrefix, Concat

------------------------------------------------------------------------------
(* Sequences one after the other                                            *)

LEMMA ConcatAssociates ==
  ASSUME NEW S, NEW a \in Seq(S), NEW b \in Seq(S), NEW c \in Seq(S)
  PROVE  Concat(Concat(a, b), c) = Concat(a, Concat(b, c))
BY ConcatAssociative DEF Concat

LEMMA NothingAfter ==
  ASSUME NEW S, NEW a \in Seq(S)
  PROVE  Concat(a, << >>) = a
BY ConcatEmptySeq DEF Concat

LEMMA NothingBefore ==
  ASSUME NEW S, NEW a \in Seq(S)
  PROVE  Concat(<< >>, a) = a
BY ConcatEmptySeq DEF Concat

LEMMA OneIsSeq == ASSUME NEW S, NEW e \in S PROVE <<e>> \in Seq(S) /\ Len(<<e>>) = 1
OBVIOUS

LEMMA AppendIs ==
  ASSUME NEW S, NEW a \in Seq(S), NEW e \in S
  PROVE  Append(a, e) = Concat(a, <<e>>)
BY AppendIsConcat DEF Concat

LEMMA FirstAndRest ==
  ASSUME NEW S, NEW s \in Seq(S), s # << >>
  PROVE  s = Concat(<<Head(s)>>, Tail(s)) /\ Head(s) \in S /\ Tail(s) \in Seq(S)
<1>1. Head(s) \in S /\ Tail(s) \in Seq(S) /\ Len(Tail(s)) = Len(s) - 1
      /\ \A i \in 1 .. Len(Tail(s)) : Tail(s)[i] = s[i + 1]
  BY HeadTailProperties
<1>2. PICK n \in Nat : n = Len(s) - 1 /\ Len(s) = 1 + n
  <2>1. Len(s) \in Nat \ {0} BY EmptySeq
  <2>2. Len(s) - 1 \in Nat BY <2>1
  <2> QED BY <2>1, <2>2
<1>3. PICK one \in Seq(S) : one = <<Head(s)>> /\ Len(one) = 1 /\ one[1] = Head(s)
  <2>1. <<Head(s)>> \in Seq(S) /\ Len(<<Head(s)>>) = 1 BY <1>1, OneIsSeq
  <2>2. <<Head(s)>>[1] = Head(s) OBVIOUS
  <2> QED BY <2>1, <2>2
<1>4. PICK rest \in Seq(S) : rest = Tail(s) /\ Len(rest) = n /\ \A i \in 1 .. n : rest[i] = s[i + 1]
  BY <1>1, <1>2
<1>5. Head(s) = s[1] BY <1>2
<1>6. \A i \in 1 .. 1 : s[i] = one[i] BY <1>3, <1>5
<1>7. \A i \in 1 .. n : s[1 + i] = rest[i] BY <1>4
<1>8. Chained(s, one, rest, 1, n) BY <1>2, <1>6, <1>7 DEF Chained
<1>9. 1 \in Nat /\ 1 = Len(one) /\ n = Len(rest) BY <1>3, <1>4
<1>10. s = Concat(one, rest) BY <1>8, <1>9, IsConcat
<1> QED BY <1>1, <1>3, <1>4, <1>10

(* An element of s, with what is before it and what is after it.            *)
Around(s, i, n, a, b) ==
  /\ s = Concat(Concat(a, <<s[i]>>), b)
  /\ Len(a) = i - 1 /\ \A j \in 1 .. i - 1 : a[j] = s[j]
  /\ Len(b) = n - i /\ \A j \in 1 .. n - i : b[j] = s[i + j]

LEMMA BeforeAndAfter ==
  ASSUME NEW S, NEW s \in Seq(S), NEW n \in Nat, n = Len(s), NEW i \in 1 .. n
  PROVE  \E a, b \in Seq(S) : Around(s, i, n, a, b)
<1>1. \A j \in 1 .. n : s[j] \in S BY ElementOfSeq
<1>2. PICK a \in Seq(S) : a = [j \in 1 .. i - 1 |-> s[j]] /\ Len(a) = i - 1
  <2>1. PICK k \in Nat : k = i - 1 OBVIOUS
  <2>2. PICK a : a = [j \in 1 .. k |-> s[j]] OBVIOUS
  <2>3. \A j \in 1 .. k : s[j] \in S BY <1>1, <2>1
  <2>4. a \in [1 .. k -> S] BY <2>2, <2>3
  <2>5. a \in Seq(S) /\ Len(a) = k BY <2>4
  <2> QED BY <2>1, <2>2, <2>5
<1>3. PICK b \in Seq(S) : b = [j \in 1 .. n - i |-> s[i + j]] /\ Len(b) = n - i
  <2>0. n - i \in Nat OBVIOUS
  <2>1. PICK k \in Nat : k = n - i BY <2>0
  <2>2. PICK b : b = [j \in 1 .. k |-> s[i + j]] OBVIOUS
  <2>3. \A j \in 1 .. k : s[i + j] \in S BY <1>1, <2>1
  <2>4. b \in [1 .. k -> S] BY <2>2, <2>3
  <2>5. b \in Seq(S) /\ Len(b) = k BY <2>4
  <2> QED BY <2>1, <2>2, <2>5
<1>4. PICK one \in Seq(S) : one = <<s[i]>> /\ Len(one) = 1 /\ one[1] = s[i]
  <2>1. s[i] \in S BY <1>1
  <2>2. <<s[i]>> \in Seq(S) /\ Len(<<s[i]>>) = 1 BY <2>1, OneIsSeq
  <2> QED BY <2>2
<1>5. PICK k \in Nat : k = i - 1 /\ i = k + 1 OBVIOUS
<1>6. PICK c \in Seq(S) : c = Concat(a, one) BY ConcatIsSeq
<1>7. Chained(c, a, one, k, 1) BY <1>2, <1>4, <1>5, <1>6, ConcatIs
<1>8. \A j \in 1 .. i : c[j] = s[j]
  <2> SUFFICES ASSUME NEW j \in 1 .. i PROVE c[j] = s[j] OBVIOUS
  <2>1. CASE j \in 1 .. k BY <1>2, <1>5, <1>7, <2>1 DEF Chained
  <2>2. CASE j = k + 1
    <3>1. c[k + 1] = one[1] BY <1>7 DEF Chained
    <3> QED BY <1>4, <1>5, <2>2, <3>1
  <2>3. j \in 1 .. k \/ j = k + 1 BY <1>5
  <2> QED BY <2>1, <2>2, <2>3
<1>9. PICK m \in Nat : m = n - i /\ n = i + m
  <2>1. n - i \in Nat /\ n = i + (n - i) OBVIOUS
  <2> QED BY <2>1
<1>10. Len(c) = i BY <1>5, <1>7 DEF Chained
<1>11. Chained(s, c, b, i, m)
  <2>1. \A j \in 1 .. m : s[i + j] = b[j] BY <1>3, <1>9
  <2> QED BY <1>8, <1>9, <2>1 DEF Chained
<1>12. i \in Nat OBVIOUS
<1>13. s = Concat(c, b) BY <1>3, <1>9, <1>10, <1>11, <1>12, IsConcat
<1> QED BY <1>2, <1>3, <1>4, <1>6, <1>13 DEF Around

(* Of one element, itself or nothing is kept.                               *)
LEMMA KeptOfOne ==
  ASSUME NEW S, NEW e \in S, NEW set
  PROVE  /\ e \in set => Kept(<<e>>, set) = <<e>>
         /\ e \notin set => Kept(<<e>>, set) = << >>
<1>1. PICK s \in Seq(S) : s = <<e>> /\ Len(s) = 1 /\ s[1] = e
  <2>1. <<e>> \in Seq(S) /\ Len(<<e>>) = 1 BY OneIsSeq
  <2>2. <<e>>[1] = e OBVIOUS
  <2> QED BY <2>1, <2>2
<1>2. PICK k \in [0 .. Len(s) -> Seq(S)] : Keeps(k, s, set) /\ Kept(s, set) = k[Len(s)]
  BY KeptIsComputed
<1>3. k[0] = << >> /\ k[1] = IF s[1] \in set THEN Append(k[1 - 1], s[1]) ELSE k[1 - 1]
  BY <1>1, <1>2 DEF Keeps
<1>4. 1 - 1 = 0 OBVIOUS
<1>5. Append(<< >>, e) = <<e>> OBVIOUS
<1> QED BY <1>1, <1>2, <1>3, <1>4, <1>5

(* What g maps one element to.                                              *)
LEMMA MappedOfOne == ASSUME NEW g, NEW e PROVE Mapped(g, <<e>>) = <<g[e]>>
BY DEF Mapped

(* The one element of s that is in the set.                                 *)
LEMMA KeptIsOne ==
  ASSUME NEW S, NEW s \in Seq(S), NEW set, NEW n \in Nat, n = Len(s), NEW i \in 1 .. n,
         s[i] \in set, \A j \in 1 .. n : s[j] \in set => j = i
  PROVE  Kept(s, set) = <<s[i]>>
<1>around. PICK a, b \in Seq(S) : Around(s, i, n, a, b) BY BeforeAndAfter
<1>1. /\ s = Concat(Concat(a, <<s[i]>>), b)
      /\ Len(a) = i - 1 /\ \A j \in 1 .. i - 1 : a[j] = s[j]
      /\ Len(b) = n - i /\ \A j \in 1 .. n - i : b[j] = s[i + j]
  BY <1>around DEF Around
<1>2. PICK e \in S : e = s[i]
  <2>1. s[i] \in S BY ElementOfSeq
  <2> QED BY <2>1
<1>3. PICK one \in Seq(S) : one = <<e>> /\ Len(one) = 1 BY OneIsSeq
<1>4. Kept(a, set) = << >>
  <2>1. \A j \in 1 .. i - 1 : s[j] \notin set
    <3>1. \A j \in 1 .. i - 1 : j \in 1 .. n /\ j # i OBVIOUS
    <3> QED BY <3>1
  <2>2. \A j \in 1 .. Len(a) : a[j] \notin set BY <1>1, <2>1
  <2> QED BY <2>2, KeptIsEmpty
<1>5. Kept(b, set) = << >>
  <2>1. \A j \in 1 .. n - i : s[i + j] \notin set
    <3>1. \A j \in 1 .. n - i : i + j \in 1 .. n /\ i + j # i OBVIOUS
    <3> QED BY <3>1
  <2>2. \A j \in 1 .. Len(b) : b[j] \notin set BY <1>1, <2>1
  <2> QED BY <2>2, KeptIsEmpty
<1>6. Kept(one, set) = one BY <1>2, <1>3, KeptOfOne
<1>7. PICK c \in Seq(S) : c = Concat(a, one) BY ConcatIsSeq
<1>8. Kept(c, set) = Concat(Kept(a, set), Kept(one, set)) BY <1>7, KeptJoins
<1>9. Kept(c, set) = one BY <1>4, <1>6, <1>8, NothingBefore
<1>10. s = Concat(c, b) BY <1>1, <1>2, <1>3, <1>7
<1>11. Kept(s, set) = Concat(Kept(c, set), Kept(b, set)) BY <1>10, KeptJoins
<1> QED BY <1>2, <1>3, <1>5, <1>9, <1>11, NothingAfter

------------------------------------------------------------------------------
(* Flattening a sequence of sequences                                       *)

(* f[i] is the first i sequences one after the other.                       *)
Flattens(f, ss) ==
  /\ f[0] = << >>
  /\ \A i \in 1 .. Len(ss) : f[i] = Concat(f[i - 1], ss[i])

LEMMA FlattenIsComputed ==
  ASSUME NEW S, NEW ss \in Seq(Seq(S))
  PROVE  \E f \in [0 .. Len(ss) -> Seq(S)] : Flattens(f, ss) /\ FlattenSeq(ss) = f[Len(ss)]
<1>0. PICK n \in Nat : n = Len(ss) BY LenProperties
<1>1. \A i \in 1 .. n : ss[i] \in Seq(S)
  <2>1. PICK T : T = Seq(S) OBVIOUS
  <2>2. ss \in Seq(T) BY <2>1
  <2>3. \A i \in 1 .. n : ss[i] \in T BY <1>0, <2>2, ElementOfSeq
  <2> QED BY <2>1, <2>3
<1> DEFINE step == [p \in Seq(S) \X (1 .. n) |-> Concat(p[1], ss[p[2]])]
           Body(f, i) == IF i = 1 THEN ss[i] ELSE f[i - 1] \o ss[i]
           Solves(f) == f = [i \in 1 .. Len(ss) |-> Body(f, i)]
           k == CHOOSE f : Solves(f)
<1>2. step \in [Seq(S) \X (1 .. n) -> Seq(S)]
  <2> SUFFICES ASSUME NEW a \in Seq(S), NEW i \in 1 .. n PROVE Concat(a, ss[i]) \in Seq(S)
    OBVIOUS
  <2> QED BY <1>1, ConcatProperties DEF Concat
<1>3. << >> \in Seq(S) OBVIOUS
<1>4. PICK f \in [0 .. n -> Seq(S)] : Follows(f, n, << >>, step)
  <2> HIDE DEF step
  <2> QED BY <1>2, <1>3, RecursiveFunction
<1>5. f[0] = << >> /\ \A i \in 1 .. n : f[i] = Concat(f[i - 1], ss[i])
  <2>1. ASSUME NEW i \in 1 .. n PROVE f[i] = Concat(f[i - 1], ss[i])
    <3>1. f[i] = step[<<f[i - 1], i>>] BY <1>4 DEF Follows
    <3>2. <<f[i - 1], i>> \in Seq(S) \X (1 .. n)
      <4>1. i - 1 \in 0 .. n OBVIOUS
      <4> QED BY <1>4, <4>1
    <3> QED BY <3>1, <3>2
  <2> QED BY <1>4, <2>1 DEF Follows
<1>6. ASSUME NEW i \in 1 .. n, i = 1 PROVE f[i] = ss[i]
  <2>1. Concat(<< >>, ss[i]) = ss[i] BY <1>1, ConcatEmptySeq DEF Concat
  <2> QED BY <1>5, <1>6, <2>1
<1>7. CASE n = 0
  <2>1. FlattenSeq(ss) = ss BY <1>0, <1>7 DEF FlattenSeq
  <2>2. ss = << >> BY <1>0, <1>7, EmptySeq
  <2> QED BY <1>0, <1>5, <1>7, <2>1, <2>2 DEF Flattens
<1>8. CASE n # 0
  <2>1. \E g : Solves(g)
    <3> DEFINE g == [i \in 1 .. n |-> f[i]]
    <3>1. ASSUME NEW i \in 1 .. n PROVE g[i] = Body(g, i)
      <4>1. CASE i = 1 BY <1>6, <4>1
      <4>2. CASE i # 1
        <5>1. i - 1 \in 1 .. n BY <4>2
        <5>2. g[i - 1] = f[i - 1] BY <5>1
        <5>3. g[i] = f[i] OBVIOUS
        <5>4. f[i] = f[i - 1] \o ss[i] BY <1>5 DEF Concat
        <5> HIDE DEF g
        <5> QED BY <4>2, <5>2, <5>3, <5>4
      <4> QED BY <4>1, <4>2
    <3>2. g = [i \in 1 .. n |-> g[i]] OBVIOUS
    <3> HIDE DEF g, Body
    <3>3. Solves(g) BY <1>0, <3>1, <3>2
    <3> QED BY <3>3
  <2>2. Solves(k)
    <3> HIDE DEF Solves
    <3> QED BY <2>1
  <2>3. \A i \in 1 .. n : k[i] = Body(k, i)
    <3> HIDE DEF k, Body
    <3> QED BY <1>0, <2>2
  <2> HIDE DEF k
  <2> DEFINE P == {i \in 0 .. n : i > 0 => k[i] = f[i]}
  <2>4. 0 \in P OBVIOUS
  <2>5. ASSUME NEW i \in 0 .. n, i # n, i \in P PROVE i + 1 \in P
    <3>1. i + 1 \in 1 .. n /\ i + 1 \in 0 .. n /\ (i + 1) - 1 = i BY <2>5
    <3>2. k[i + 1] = IF i + 1 = 1 THEN ss[i + 1] ELSE k[i] \o ss[i + 1] BY <2>3, <3>1
    <3>3. f[i + 1] = f[i] \o ss[i + 1] BY <1>5, <3>1 DEF Concat
    <3>4. CASE i = 0 BY <1>6, <3>1, <3>2, <3>4
    <3>5. CASE i # 0
      <4>1. k[i] = f[i] /\ i + 1 # 1 BY <2>5, <3>5
      <4>2. k[i + 1] = f[i + 1] BY <3>2, <3>3, <4>1
      <4> QED BY <3>1, <4>2
    <3> QED BY <3>4, <3>5
  <2>6. n \in P
    <3>1. n \in 0 .. n OBVIOUS
    <3> HIDE DEF P
    <3> QED BY <2>4, <2>5, <3>1, Induction
  <2>7. k[n] = f[n] BY <1>8, <2>6
  <2>8. FlattenSeq(ss) = k[n] BY <1>0, <1>8 DEF FlattenSeq, k
  <2> QED BY <1>0, <1>5, <2>7, <2>8 DEF Flattens
<1> QED BY <1>7, <1>8

LEMMA FlattenIsSeq ==
  ASSUME NEW S, NEW ss \in Seq(Seq(S))
  PROVE  FlattenSeq(ss) \in Seq(S)
<1>1. PICK n \in Nat : n = Len(ss) BY LenProperties
<1>2. PICK f \in [0 .. n -> Seq(S)] : FlattenSeq(ss) = f[n] BY <1>1, FlattenIsComputed
<1>3. n \in 0 .. n OBVIOUS
<1> QED BY <1>2, <1>3

LEMMA FlattenOfEmpty == FlattenSeq(<< >>) = << >>
BY DEF FlattenSeq

(* One more sequence goes to the end.                                       *)
LEMMA FlattenOfAppend ==
  ASSUME NEW S, NEW ss \in Seq(Seq(S)), NEW x \in Seq(S)
  PROVE  FlattenSeq(Append(ss, x)) = Concat(FlattenSeq(ss), x)
<1>1. PICK n \in Nat : n = Len(ss) BY LenProperties
<1>2. PICK T : T = Seq(S) OBVIOUS
<1>3. PICK tt \in Seq(T) :
        tt = Append(ss, x) /\ Len(tt) = n + 1 /\ tt[n + 1] = x /\ \A i \in 1 .. n : tt[i] = ss[i]
  <2>1. ss \in Seq(T) /\ x \in T BY <1>2
  <2>2. /\ Append(ss, x) \in Seq(T) /\ Len(Append(ss, x)) = Len(ss) + 1
        /\ \A i \in 1 .. Len(ss) : Append(ss, x)[i] = ss[i]
        /\ Append(ss, x)[Len(ss) + 1] = x
    BY <2>1, AppendProperties
  <2>3. PICK tt \in Seq(T) : tt = Append(ss, x) BY <2>2
  <2> QED BY <1>1, <2>2, <2>3
<1>4. PICK f \in [0 .. n -> Seq(S)] : Flattens(f, ss) /\ FlattenSeq(ss) = f[n]
  BY <1>1, FlattenIsComputed
<1>5. PICK g \in [0 .. n + 1 -> Seq(S)] : Flattens(g, tt) /\ FlattenSeq(tt) = g[n + 1]
  <2>1. tt \in Seq(Seq(S)) BY <1>2
  <2>2. PICK g \in [0 .. Len(tt) -> Seq(S)] : Flattens(g, tt) /\ FlattenSeq(tt) = g[Len(tt)]
    BY <2>1, FlattenIsComputed
  <2> QED BY <1>3, <2>2
<1> DEFINE P == {i \in 0 .. n : g[i] = f[i]}
<1>6. 0 \in P BY <1>4, <1>5 DEF Flattens
<1>7. ASSUME NEW i \in 0 .. n, i # n, i \in P PROVE i + 1 \in P
  <2>1. i + 1 \in 1 .. n /\ i + 1 \in 0 .. n /\ i + 1 \in 1 .. n + 1 /\ (i + 1) - 1 = i BY <1>7
  <2>2. f[i + 1] = Concat(f[i], ss[i + 1]) BY <1>1, <1>4, <2>1 DEF Flattens
  <2>3. g[i + 1] = Concat(g[i], tt[i + 1]) BY <1>3, <1>5, <2>1 DEF Flattens
  <2>4. tt[i + 1] = ss[i + 1] BY <1>3, <2>1
  <2> QED BY <1>7, <2>1, <2>2, <2>3, <2>4
<1>8. n \in P
  <2>1. n \in 0 .. n OBVIOUS
  <2> HIDE DEF P
  <2> QED BY <1>6, <1>7, <2>1, Induction
<1>9. g[n + 1] = Concat(g[n], x)
  <2>1. n + 1 \in 1 .. n + 1 /\ (n + 1) - 1 = n OBVIOUS
  <2> QED BY <1>3, <1>5, <2>1 DEF Flattens
<1> QED BY <1>3, <1>4, <1>5, <1>8, <1>9

(* One more element goes to the end.                                       *)
LEMMA MappedOfAppend ==
  ASSUME NEW S, NEW s \in Seq(S), NEW e \in S, NEW g
  PROVE  Mapped(g, Append(s, e)) = Append(Mapped(g, s), g[e])
<1> DEFINE T == {g[x] : x \in S}
<1>1. PICK m \in Seq(T) : m = Mapped(g, s)
  <2>1. PICK n \in Nat : n = Len(s) BY LenProperties
  <2> QED BY <2>1, MappedIs
<1>2. Append(s, e) = Concat(s, <<e>>) BY AppendIs
<1>3. <<e>> \in Seq(S) BY OneIsSeq
<1>4. Mapped(g, Concat(s, <<e>>)) = Concat(m, Mapped(g, <<e>>))
  <2>1. PICK y \in Seq(S) : y = <<e>> BY <1>3
  <2>2. Mapped(g, Concat(s, y)) = Concat(Mapped(g, s), Mapped(g, y)) BY MappedOfConcat
  <2> QED BY <1>1, <2>1, <2>2
<1>5. Mapped(g, <<e>>) = <<g[e]>> BY MappedOfOne
<1>6. g[e] \in T OBVIOUS
<1>7. Append(m, g[e]) = Concat(m, <<g[e]>>)
  <2> HIDE DEF T
  <2> QED BY <1>6, AppendIs
<1> QED BY <1>1, <1>2, <1>4, <1>5, <1>7

(* Selecting and then mapping is mapping and then selecting.                *)
LEMMA KeptThrough ==
  ASSUME NEW S, NEW s \in Seq(S), NEW g, NEW A, NEW B, \A e \in S : e \in A <=> g[e] \in B
  PROVE  Mapped(g, Kept(s, A)) = Kept(Mapped(g, s), B)
<1> DEFINE T == {g[x] : x \in S}
<1>1. PICK n \in Nat : n = Len(s) BY LenProperties
<1>2. PICK m \in Seq(T) : m = Mapped(g, s) /\ MapsTo(m, g, s, n) BY <1>1, MappedIs
<1> HIDE DEF T
<1>3. Len(m) = n /\ \A i \in 1 .. n : m[i] = g[s[i]] BY <1>2 DEF MapsTo
<1>4. PICK k \in [0 .. n -> Seq(S)] : Keeps(k, s, A) /\ Kept(s, A) = k[n]
  BY <1>1, KeptIsComputed
<1>5. PICK l \in [0 .. n -> Seq(T)] : Keeps(l, m, B) /\ Kept(m, B) = l[n]
  <2>1. m \in Seq(T) BY <1>2
  <2>2. \E l \in [0 .. Len(m) -> Seq(T)] : Keeps(l, m, B) /\ Kept(m, B) = l[Len(m)]
    BY <2>1, KeptIsComputed
  <2> QED BY <1>3, <2>2
<1>6. \A x \in Seq(S), e \in S : Mapped(g, Append(x, e)) = Append(Mapped(g, x), g[e])
  BY MappedOfAppend
<1> DEFINE P == {i \in 0 .. n : Mapped(g, k[i]) = l[i]}
<1>7. 0 \in P
  <2>1. k[0] = << >> /\ l[0] = << >> BY <1>4, <1>5 DEF Keeps
  <2>2. Mapped(g, << >>) = << >> BY DEF Mapped
  <2> QED BY <2>1, <2>2
<1>8. ASSUME NEW i \in 0 .. n, i # n, i \in P PROVE i + 1 \in P
  <2>1. i + 1 \in 1 .. n /\ i + 1 \in 0 .. n /\ (i + 1) - 1 = i BY <1>8
  <2>2. k[i + 1] = IF s[i + 1] \in A THEN Append(k[i], s[i + 1]) ELSE k[i]
    BY <1>1, <1>4, <2>1 DEF Keeps
  <2>3. l[i + 1] = IF m[i + 1] \in B THEN Append(l[i], m[i + 1]) ELSE l[i]
    BY <1>3, <1>5, <2>1 DEF Keeps
  <2>4. s[i + 1] \in S BY <1>1, <2>1, ElementOfSeq
  <2>5. m[i + 1] = g[s[i + 1]] BY <1>3, <2>1
  <2>6. s[i + 1] \in A <=> m[i + 1] \in B BY <2>4, <2>5
  <2>7. k[i] \in Seq(S) BY <1>4
  <2>8. Mapped(g, Append(k[i], s[i + 1])) = Append(Mapped(g, k[i]), g[s[i + 1]])
    BY <1>6, <2>4, <2>7, Zenon
  <2>9. Mapped(g, k[i]) = l[i] BY <1>8
  <2>10. Mapped(g, k[i + 1]) = l[i + 1] BY <2>2, <2>3, <2>5, <2>6, <2>8, <2>9
  <2> QED BY <2>1, <2>10
<1>9. n \in P
  <2>1. n \in 0 .. n OBVIOUS
  <2> HIDE DEF P
  <2> QED BY <1>7, <1>8, <2>1, Induction
<1> QED BY <1>2, <1>4, <1>5, <1>9
==============================================================================
