---------------------------- MODULE SessionProofs ---------------------------
(***************************************************************************)
(* Proofs about Setup, for any files, functions, answers of LLDB and       *)
(* internal breakpoints: the four invariants of the set-up.  The argument  *)
(* is the count of numbers: the table has an entry more than LLDB has      *)
(* given numbers, before and after every step, because the only number     *)
(* that is lost (its breakpoint is deleted at once) gets an entry as well. *)
(*                                                                         *)
(* Then about Session, for any scenarios: recordings are whole and kept,   *)
(* what was chosen is launched, the newest run is indexed, and the output  *)
(* is shown.                                                               *)
(*                                                                         *)
(* Then about Parser, for any tree of items: what is found, how it is      *)
(* marked, and where its breakpoints are.  With that, about Session again: *)
(* maps are of their sources, its debuggers go through the set-up that is  *)
(* proved above, and the state is well formed.                             *)
(*                                                                         *)
(* Last about Workspace, for any workspace whose packages are laid out as  *)
(* Session's assumptions say: what parse_workspace reads of it is right.   *)
(***************************************************************************)
EXTENDS Session, TLAPS, WellFoundedInduction, FiniteSetTheorems

(* Of requests, answers and files nothing is known: what is said of a sequence is that it is one. *)
IsSequence(s) == \E S : s \in Seq(S)

LEMMA SequenceShape ==
    ASSUME NEW s, IsSequence(s)
    PROVE  Len(s) \in Nat /\ DOMAIN s = 1 .. Len(s)
  BY DEF IsSequence

Appends(t, s, x) == t = Append(s, x)

LEMMA IsSequenceAppend ==
    ASSUME NEW s, IsSequence(s), NEW x, NEW t, Appends(t, s, x)
    PROVE  /\ IsSequence(t) /\ Len(t) = Len(s) + 1 /\ DOMAIN t = 1 .. Len(s) + 1
           /\ t[Len(s) + 1] = x /\ \A i \in 1 .. Len(s) : t[i] = s[i]
<1>1. PICK S : s \in Seq(S)
  BY DEF IsSequence
<1>2. PICK T : T = S \cup {x}
  OBVIOUS
<1>3. s \in Seq(T) /\ x \in T
  BY <1>1, <1>2
<1>4. /\ t \in Seq(T) /\ Len(t) = Len(s) + 1 /\ DOMAIN t = 1 .. Len(s) + 1
      /\ t[Len(s) + 1] = x /\ \A i \in 1 .. Len(s) : t[i] = s[i]
  BY <1>3 DEF Appends
<1>5. QED BY <1>4 DEF IsSequence

Joins(u, s, t) == u = s \o t

LEMMA IsSequenceConcat ==
    ASSUME NEW s, IsSequence(s), NEW t, IsSequence(t), NEW u, Joins(u, s, t)
    PROVE  /\ IsSequence(u) /\ Len(u) = Len(s) + Len(t)
           /\ \A i \in 1 .. Len(s) : u[i] = s[i]
           /\ \A i \in 1 .. Len(t) : u[Len(s) + i] = t[i]
           /\ \A i \in 1 .. Len(u) : i \in 1 .. Len(s) \/ i - Len(s) \in 1 .. Len(t)
<1>1. PICK S : s \in Seq(S)
  BY DEF IsSequence
<1>2. PICK T : t \in Seq(T)
  BY DEF IsSequence
<1>3. PICK U : U = S \cup T
  OBVIOUS
<1>4. s \in Seq(U) /\ t \in Seq(U)
  BY <1>1, <1>2, <1>3
<1>5. /\ u \in Seq(U) /\ Len(u) = Len(s) + Len(t) /\ Len(s) \in Nat /\ Len(t) \in Nat
      /\ \A i \in 1 .. Len(s) : u[i] = s[i]
      /\ \A i \in 1 .. Len(t) : u[Len(s) + i] = t[i]
  BY <1>4 DEF Joins
<1>6. QED BY <1>5 DEF IsSequence

(* The first element of a sequence, and the others. *)
LEMMA IsSequenceTail ==
    ASSUME NEW s, IsSequence(s), s # <<>>
    PROVE  /\ 1 \in DOMAIN s /\ Head(s) = s[1] /\ IsSequence(Tail(s))
           /\ \A k \in DOMAIN Tail(s) : k + 1 \in DOMAIN s /\ Tail(s)[k] = s[k + 1]
<1>1. PICK S : s \in Seq(S)
  BY DEF IsSequence
<1>2. Tail(s) \in Seq(S)
  BY <1>1
<1>3. QED BY <1>1, <1>2 DEF IsSequence

-----------------------------------------------------------------------------
(***************************************************************************)
(* Lists: numbers in rising order, what a list of lists holds, and what is *)
(* kept of a list.                                                         *)
(***************************************************************************)
LEMMA NothingListed == IsSequence(<<>>) /\ DOMAIN <<>> = {}
<1>1. <<>> \in Seq({})
  OBVIOUS
<1> QED BY <1>1 DEF IsSequence

(* Every nonempty set of naturals has a least element. *)
LEMMA LeastNatural ==
    ASSUME NEW T, T \subseteq Nat, T # {}
    PROVE  \E x \in T : \A y \in T : x <= y
<1> DEFINE R == {ss \in Nat \X Nat : ss[1] < ss[2]}
<1>1. IsWellFoundedOn(R, Nat)
  BY NatLessThanWellFounded DEF OpToRel
<1>2. \A x, y \in T : y < x => <<y, x>> \in R
  OBVIOUS
<1>3. PICK x \in T : \A y \in T : <<y, x>> \notin R
  <2> HIDE DEF R
  <2> QED BY <1>1, WFMin
<1> HIDE DEF R
<1>4. \A y \in T : ~(y < x)
  BY <1>2, <1>3
<1> QED BY <1>4

\* What holds of 0 and of the number after each of which it holds, holds of all.
LEMMA NumberSets ==
    ASSUME NEW T, 0 \in T, \A n \in Nat : n \in T => n + 1 \in T
    PROVE  \A n \in Nat : n \in T
<1> SUFFICES ASSUME NEW n \in Nat, n \notin T PROVE FALSE
  OBVIOUS
<1>1. PICK L : L = {m \in Nat : m \notin T}
  OBVIOUS
<1>2. PICK x \in L : \A y \in L : x <= y
  BY <1>1, LeastNatural
<1>3. x \in Nat /\ x \notin T /\ x # 0 /\ x - 1 \in Nat /\ x = (x - 1) + 1
  BY <1>1, <1>2
<1>4. x - 1 \in T
  BY <1>1, <1>2, <1>3
<1> QED BY <1>3, <1>4

(* Of the numbers in S, in rising order, the n-th is the one as many are not above. *)
Rank(S, j) == Cardinality({k \in S : k <= j})

LEMMA RanksRise ==
    ASSUME NEW S \in SUBSET Nat, IsFiniteSet(S), NEW i \in S, NEW j \in S
    PROVE  /\ Rank(S, i) \in 1 .. Cardinality(S)
           /\ i < j => Rank(S, i) < Rank(S, j)
<1>1. PICK A : A = {k \in S : k <= i}
  OBVIOUS
<1>2. PICK B : B = {k \in S : k <= j}
  OBVIOUS
<1>3. i \in A /\ j \in B /\ A \in SUBSET S /\ B \in SUBSET S
  BY <1>1, <1>2
<1>4. /\ IsFiniteSet(A) /\ IsFiniteSet(B)
      /\ Cardinality(A) \in Nat /\ Cardinality(B) \in Nat /\ Cardinality(S) \in Nat
      /\ Cardinality(A) <= Cardinality(S)
  BY <1>3, FS_Subset, FS_CardinalityType
<1>5. Cardinality(A) # 0
  BY <1>3, <1>4, FS_EmptySet
<1>6. ASSUME i < j PROVE Cardinality(A) < Cardinality(B)
  <2>1. A \in SUBSET B /\ j \notin A
    <3>1. \A k \in S : k <= i => k <= j
      BY <1>6
    <3>2. ~(j <= i)
      BY <1>6
    <3> QED BY <1>1, <1>2, <3>1, <3>2
  <2>2. Cardinality(A) <= Cardinality(B) /\ Cardinality(A) # Cardinality(B)
    BY <1>3, <1>4, <2>1, FS_Subset
  <2> QED BY <1>4, <2>2
<1> QED BY <1>1, <1>2, <1>4, <1>5, <1>6 DEF Rank

LEMMA EachRankIsThere ==
    ASSUME NEW S \in SUBSET Nat, IsFiniteSet(S), NEW n \in 1 .. Cardinality(S)
    PROVE  \E j \in S : Rank(S, j) = n
<1>1. PICK f : f = [j \in S |-> Rank(S, j)]
  OBVIOUS
<1>2. PICK c \in Nat : c = Cardinality(S)
  BY FS_CardinalityType
<1>3. f \in [S -> 1 .. c]
  BY <1>1, <1>2, RanksRise
<1>4. \A i, j \in S : i # j => f[i] # f[j]
  <2> SUFFICES ASSUME NEW i \in S, NEW j \in S, i # j PROVE f[i] # f[j]
    OBVIOUS
  <2>1. i < j \/ j < i
    OBVIOUS
  <2>2. Rank(S, i) \in Int /\ Rank(S, j) \in Int
    BY RanksRise
  <2> QED BY <1>1, <2>1, <2>2, RanksRise
<1>5. f \in Injection(S, 1 .. c)
  BY <1>3, <1>4 DEF Injection, IsInjective
<1>6. IsFiniteSet(1 .. c) /\ Cardinality(1 .. c) = c
  BY <1>2, FS_Interval
<1>7. f \in Surjection(S, 1 .. c)
  BY <1>2, <1>5, <1>6, FS_Injection
<1>8. \E j \in S : f[j] = n
  BY <1>2, <1>7 DEF Surjection
<1> QED BY <1>1, <1>8

Enumerates(e, S) == e = [n \in 1 .. Cardinality(S) |-> CHOOSE j \in S : Cardinality({k \in S : k <= j}) = n]

LEMMA ItemsEnumerated ==
    ASSUME NEW S \in SUBSET Nat, IsFiniteSet(S), NEW e, Enumerates(e, S)
    PROVE  /\ Cardinality(S) \in Nat /\ e \in Seq(S) /\ Len(e) = Cardinality(S) /\ DOMAIN e = 1 .. Cardinality(S)
           /\ \A n \in DOMAIN e : e[n] \in S
           /\ \A j \in S : \E n \in DOMAIN e : e[n] = j
           /\ \A m, n \in DOMAIN e : m < n => e[m] < e[n]
<1>1. PICK c \in Nat : c = Cardinality(S)
  BY FS_CardinalityType
<1>2. \A n \in 1 .. c : e[n] \in S /\ Rank(S, e[n]) = n
  BY <1>1, EachRankIsThere DEF Rank, Enumerates
<1>3. e \in [1 .. c -> S]
  BY <1>1, <1>2 DEF Enumerates
<1>4. e \in Seq(S) /\ Len(e) = c /\ DOMAIN e = 1 .. c
  BY <1>3
<1>5. ASSUME NEW j \in S PROVE \E n \in 1 .. c : e[n] = j
  <2>1. PICK n \in 1 .. c : n = Rank(S, j)
    BY <1>1, RanksRise
  <2>2. e[n] \in S /\ Rank(S, e[n]) = Rank(S, j)
    BY <1>2, <2>1
  <2>3. e[n] = j
    <3>1. PICK x \in S : x = e[n]
      BY <2>2
    <3>2. Rank(S, x) = n /\ Rank(S, j) = n
      BY <1>2, <2>1, <3>1
    <3>3. ~(x < j) /\ ~(j < x)
      BY <3>2, RanksRise
    <3> QED BY <3>1, <3>3
  <2> QED BY <2>3
<1>6. ASSUME NEW m \in 1 .. c, NEW n \in 1 .. c, m < n PROVE e[m] < e[n]
  <2>1. PICK x \in S : x = e[m]
    BY <1>2
  <2>2. PICK y \in S : y = e[n]
    BY <1>2
  <2>3. Rank(S, x) = m /\ Rank(S, y) = n
    BY <1>2, <2>1, <2>2
  <2>4. x # y /\ ~(y < x)
    BY <1>6, <2>3, RanksRise
  <2> QED BY <2>1, <2>2, <2>4
<1> QED BY <1>1, <1>2, <1>4, <1>5, <1>6

Rising(s) == \A k, l \in DOMAIN s : k < l => s[k].fn_name < s[l].fn_name

AllBefore(s, t) == \A k \in DOMAIN s, l \in DOMAIN t : s[k].fn_name < t[l].fn_name

LEMMA JoinRises ==
    ASSUME NEW s, IsSequence(s), NEW t, IsSequence(t), NEW u, Joins(u, s, t),
           Rising(s), Rising(t), AllBefore(s, t)
    PROVE  Rising(u)
<1>1. /\ IsSequence(u) /\ Len(u) = Len(s) + Len(t)
      /\ \A i \in 1 .. Len(s) : u[i] = s[i]
      /\ \A i \in 1 .. Len(t) : u[Len(s) + i] = t[i]
      /\ \A i \in 1 .. Len(u) : i \in 1 .. Len(s) \/ i - Len(s) \in 1 .. Len(t)
  BY IsSequenceConcat
<1>2. PICK m \in Nat : m = Len(s) /\ DOMAIN s = 1 .. m
  BY SequenceShape
<1>3. PICK n \in Nat : n = Len(t) /\ DOMAIN t = 1 .. n
  BY SequenceShape
<1>4. DOMAIN u = 1 .. m + n
  BY <1>1, <1>2, <1>3, SequenceShape
<1>5. ASSUME NEW k \in 1 .. m + n, NEW l \in 1 .. m + n, k < l PROVE u[k].fn_name < u[l].fn_name
  <2>1. CASE l <= m
    <3>1. k \in 1 .. m /\ l \in 1 .. m
      BY <1>5, <2>1
    <3>2. u[k] = s[k] /\ u[l] = s[l]
      BY <1>1, <1>2, <3>1
    <3> QED BY <1>2, <1>5, <3>1, <3>2 DEF Rising
  <2>2. CASE k > m
    <3>1. PICK i \in 1 .. n : i = k - m
      BY <1>5, <2>2
    <3>2. PICK j \in 1 .. n : j = l - m
      BY <1>5, <2>2
    <3>3. i < j /\ k = m + i /\ l = m + j
      BY <1>5, <3>1, <3>2
    <3>4. u[k] = t[i] /\ u[l] = t[j]
      BY <1>1, <1>2, <1>3, <3>3
    <3> QED BY <1>3, <3>3, <3>4 DEF Rising
  <2>3. CASE k <= m /\ l > m
    <3>1. k \in 1 .. m
      BY <2>3
    <3>2. PICK j \in 1 .. n : j = l - m
      BY <2>3
    <3>3. l = m + j
      BY <3>2
    <3>4. u[k] = s[k] /\ u[l] = t[j]
      BY <1>1, <1>2, <1>3, <3>1, <3>3
    <3> QED BY <1>2, <1>3, <3>1, <3>4 DEF AllBefore
  <2> QED BY <2>1, <2>2, <2>3
<1> QED BY <1>4, <1>5 DEF Rising

-----------------------------------------------------------------------------
\* The lists of `seqs` up to the n-th, one after the other.
FlatBy(seqs, f, i) == IF i = 1 THEN seqs[i] ELSE f[i - 1] \o seqs[i]

IsFlat(seqs, f, n) == f = [i \in 1 .. n |-> FlatBy(seqs, f, i)]

LEMMA FlatNext ==
    ASSUME NEW seqs, NEW n \in Nat, NEW f, IsFlat(seqs, f, n)
    PROVE  \E g : IsFlat(seqs, g, n + 1)
<1> DEFINE g == [i \in 1 .. n + 1 |-> IF i <= n THEN f[i] ELSE FlatBy(seqs, f, i)]
<1>1. ASSUME NEW i \in 1 .. n + 1 PROVE g[i] = FlatBy(seqs, g, i)
  <2>1. g[i] = FlatBy(seqs, f, i)
    <3>1. CASE i <= n
      <4>1. i \in 1 .. n
        BY <3>1
      <4> QED BY <3>1, <4>1 DEF IsFlat
    <3>2. CASE ~(i <= n)
      BY <3>2
    <3> QED BY <3>1, <3>2
  <2>2. CASE i = 1
    <3> HIDE DEF g
    <3> QED BY <2>1, <2>2 DEF FlatBy
  <2>3. CASE i # 1
    <3>1. i - 1 \in 1 .. n + 1 /\ i - 1 <= n
      BY <2>3
    <3>2. g[i - 1] = f[i - 1]
      BY <3>1
    <3> HIDE DEF g
    <3> QED BY <2>1, <2>3, <3>2 DEF FlatBy
  <2> QED BY <2>2, <2>3
<1>2. g = [i \in 1 .. n + 1 |-> g[i]]
  OBVIOUS
<1> HIDE DEF g
<1>3. IsFlat(seqs, g, n + 1)
  BY <1>1, <1>2 DEF IsFlat
<1> QED BY <1>3

LEMMA FlatExists == \A n \in Nat : \A seqs : \E f : IsFlat(seqs, f, n)
<1>1. PICK T : T = {n \in Nat : \A seqs : \E f : IsFlat(seqs, f, n)}
  OBVIOUS
<1>2. 0 \in T
  <2>1. ASSUME NEW seqs PROVE \E f : IsFlat(seqs, f, 0)
    <3>1. PICK f : f = [i \in 1 .. 0 |-> {}]
      OBVIOUS
    <3>2. IsFlat(seqs, f, 0)
      BY <3>1 DEF IsFlat
    <3> QED BY <3>2
  <2> QED BY <1>1, <2>1
<1>3. ASSUME NEW n \in Nat, n \in T PROVE n + 1 \in T
  BY <1>1, <1>3, FlatNext
<1>4. \A n \in Nat : n \in T
  BY <1>2, <1>3, NumberSets
<1> QED BY <1>1, <1>4

\* s holds what the first n lists of `seqs` hold.
Holds(s, seqs, n) ==
    /\ IsSequence(s)
    /\ \A l \in DOMAIN s : \E k \in 1 .. n : \E m \in DOMAIN seqs[k] : s[l] = seqs[k][m]
    /\ \A k \in 1 .. n : \A m \in DOMAIN seqs[k] : \E l \in DOMAIN s : s[l] = seqs[k][m]

InOrder(seqs) ==
    /\ \A k \in DOMAIN seqs : Rising(seqs[k])
    /\ \A k, l \in DOMAIN seqs : k < l => AllBefore(seqs[k], seqs[l])

LEMMA HoldsMore ==
    ASSUME NEW seqs, NEW n \in Nat \ {0}, n + 1 \in DOMAIN seqs, DOMAIN seqs \subseteq Nat,
           1 .. n + 1 \subseteq DOMAIN seqs,
           IsSequence(seqs[n + 1]), NEW s, Holds(s, seqs, n), NEW u, Joins(u, s, seqs[n + 1])
    PROVE  /\ Holds(u, seqs, n + 1)
           /\ InOrder(seqs) /\ Rising(s) => Rising(u)
<1>1. PICK t : t = seqs[n + 1] /\ IsSequence(t) /\ Joins(u, s, t) /\ IsSequence(s)
  BY DEF Holds
<1>2. /\ IsSequence(u) /\ Len(u) = Len(s) + Len(t)
      /\ \A i \in 1 .. Len(s) : u[i] = s[i]
      /\ \A i \in 1 .. Len(t) : u[Len(s) + i] = t[i]
      /\ \A i \in 1 .. Len(u) : i \in 1 .. Len(s) \/ i - Len(s) \in 1 .. Len(t)
  BY <1>1, IsSequenceConcat
<1>3. PICK a \in Nat : a = Len(s) /\ DOMAIN s = 1 .. a
  BY <1>1, SequenceShape
<1>4. PICK b \in Nat : b = Len(t) /\ DOMAIN t = 1 .. b
  BY <1>1, SequenceShape
<1>5. DOMAIN u = 1 .. a + b
  BY <1>2, <1>3, <1>4, SequenceShape
<1>6. ASSUME NEW l \in DOMAIN u PROVE \E k \in 1 .. n + 1 : \E m \in DOMAIN seqs[k] : u[l] = seqs[k][m]
  <2>1. CASE l \in 1 .. a
    <3>1. PICK k \in 1 .. n : \E m \in DOMAIN seqs[k] : s[l] = seqs[k][m]
      BY <1>3, <2>1 DEF Holds
    <3>2. k \in 1 .. n + 1 /\ u[l] = s[l]
      BY <1>2, <1>3, <2>1
    <3> QED BY <3>1, <3>2
  <2>2. CASE l - a \in 1 .. b
    <3>1. PICK m \in 1 .. b : m = l - a /\ l = a + m
      BY <1>5, <2>2
    <3>2. u[l] = t[m] /\ n + 1 \in 1 .. n + 1
      BY <1>2, <1>3, <1>4, <3>1
    <3> QED BY <1>1, <1>4, <3>2
  <2> QED BY <1>2, <1>3, <1>4, <1>5, <2>1, <2>2
<1>7. ASSUME NEW k \in 1 .. n + 1, NEW m \in DOMAIN seqs[k] PROVE \E l \in DOMAIN u : u[l] = seqs[k][m]
  <2>1. CASE k \in 1 .. n
    <3>1. PICK l \in DOMAIN s : s[l] = seqs[k][m]
      BY <2>1 DEF Holds
    <3>2. l \in DOMAIN u /\ u[l] = s[l]
      BY <1>2, <1>3, <1>5
    <3> QED BY <3>1, <3>2
  <2>2. CASE k = n + 1
    <3>1. m \in 1 .. b /\ a + m \in DOMAIN u
      BY <1>1, <1>4, <1>5, <2>2
    <3>2. u[a + m] = t[m]
      BY <1>2, <1>3, <1>4, <3>1
    <3> QED BY <1>1, <2>2, <3>1, <3>2
  <2> QED BY <2>1, <2>2
<1>8. ASSUME InOrder(seqs), Rising(s) PROVE Rising(u)
  <2>1. Rising(t)
    BY <1>1, <1>8 DEF InOrder
  <2>2. ASSUME NEW l \in DOMAIN s, NEW m \in DOMAIN t PROVE s[l].fn_name < t[m].fn_name
    <3>1. PICK k \in 1 .. n : \E j \in DOMAIN seqs[k] : s[l] = seqs[k][j]
      BY DEF Holds
    <3>2. k \in DOMAIN seqs /\ k < n + 1
      OBVIOUS
    <3>3. AllBefore(seqs[k], t)
      BY <1>1, <1>8, <3>2 DEF InOrder
    <3> QED BY <3>1, <3>3 DEF AllBefore
  <2>3. AllBefore(s, t)
    BY <2>2 DEF AllBefore
  <2> QED BY <1>1, <1>8, <2>1, <2>3, JoinRises
<1>9. Holds(u, seqs, n + 1)
  BY <1>2, <1>6, <1>7 DEF Holds
<1> QED BY <1>8, <1>9

\* What FlattenSeq makes of a list of lists: what they hold, in their order.
LEMMA Flattened ==
    ASSUME NEW seqs, IsSequence(seqs), \A k \in DOMAIN seqs : IsSequence(seqs[k]),
           NEW s, s = FlattenSeq(seqs)
    PROVE  /\ Holds(s, seqs, Len(seqs))
           /\ InOrder(seqs) => Rising(s)
<1>1. PICK n \in Nat : n = Len(seqs) /\ DOMAIN seqs = 1 .. n
  BY SequenceShape
<1>2. CASE n = 0
  <2>1. s = seqs /\ DOMAIN s = {}
    BY <1>1, <1>2 DEF FlattenSeq
  <2> QED BY <1>1, <1>2, <2>1 DEF Holds, Rising
<1>3. CASE n # 0
  <2>1. PICK f : f = CHOOSE h : IsFlat(seqs, h, n)
    OBVIOUS
  <2>2. IsFlat(seqs, f, n)
    BY <2>1, FlatExists
  <2>3. s = f[n]
    BY <1>1, <1>3, <2>1 DEF FlattenSeq, IsFlat, FlatBy
  <2>4. \A i \in 1 .. n : f[i] = FlatBy(seqs, f, i)
    BY <2>2 DEF IsFlat
  <2>5. PICK T : T = {m \in Nat : m < n => /\ Holds(f[m + 1], seqs, m + 1)
                                           /\ InOrder(seqs) => Rising(f[m + 1])}
    OBVIOUS
  <2>6. 0 \in T
    <3>1. PICK t : t = seqs[1]
      OBVIOUS
    <3>2. f[1] = t /\ 1 \in DOMAIN seqs /\ IsSequence(t)
      BY <1>1, <1>3, <2>4, <3>1 DEF FlatBy
    <3>3. Holds(t, seqs, 1)
      BY <3>1, <3>2 DEF Holds
    <3>4. InOrder(seqs) => Rising(t)
      BY <3>1, <3>2 DEF InOrder
    <3> QED BY <2>5, <3>2, <3>3, <3>4
  <2>7. ASSUME NEW m \in Nat, m \in T PROVE m + 1 \in T
    <3> SUFFICES ASSUME m + 1 < n
                 PROVE /\ Holds(f[m + 2], seqs, m + 2)
                       /\ InOrder(seqs) => Rising(f[m + 2])
      BY <2>5
    <3>1. PICK i \in Nat \ {0} : i = m + 1 /\ i + 1 = m + 2 /\ i + 1 # 1 /\ (i + 1) - 1 = i
      OBVIOUS
    <3>2. i + 1 \in 1 .. n /\ 1 .. i + 1 \subseteq 1 .. n /\ m < n
      BY <3>1
    <3>3. PICK v : v = f[i]
      OBVIOUS
    <3>4. Holds(v, seqs, i) /\ (InOrder(seqs) => Rising(v))
      BY <2>5, <2>7, <3>1, <3>2, <3>3
    <3>5. PICK u : u = f[i + 1]
      OBVIOUS
    <3>6. Joins(u, v, seqs[i + 1])
      BY <2>4, <3>1, <3>2, <3>3, <3>5 DEF Joins, FlatBy
    <3>7. IsSequence(seqs[i + 1]) /\ DOMAIN seqs \subseteq Nat
      BY <1>1, <3>2
    <3>8. Holds(u, seqs, i + 1) /\ (InOrder(seqs) /\ Rising(v) => Rising(u))
      BY <1>1, <3>2, <3>4, <3>6, <3>7, HoldsMore
    <3> QED BY <3>1, <3>4, <3>5, <3>8
  <2>8. n - 1 \in T
    <3>1. n - 1 \in Nat
      BY <1>3
    <3> QED BY <2>6, <2>7, <3>1, NumberSets
  <2>9. n - 1 < n /\ (n - 1) + 1 = n /\ n - 1 \in Nat
    BY <1>3
  <2> QED BY <1>1, <2>3, <2>5, <2>8, <2>9
<1> QED BY <1>2, <1>3

\* The items of an item, or of the file, in their order.

\* A list that is made of another, element by element.
LEMMA Relisted ==
    ASSUME NEW s, IsSequence(s), NEW t, DOMAIN t = DOMAIN s, t = [k \in DOMAIN t |-> t[k]]
    PROVE  IsSequence(t)
<1>1. PICK n \in Nat : n = Len(s) /\ DOMAIN s = 1 .. n
  BY SequenceShape
<1>2. PICK S : S = {t[k] : k \in 1 .. n}
  OBVIOUS
<1>3. t \in [1 .. n -> S]
  BY <1>1, <1>2
<1>4. t \in Seq(S)
  BY <1>3
<1>5. QED BY <1>4 DEF IsSequence

\* What a list holds that holds what the lists of `seqs` do.
LEMMA Holding ==
    ASSUME NEW seqs, IsSequence(seqs), NEW s, Holds(s, seqs, Len(seqs)), NEW x
    PROVE  x \in Range(s) <=> \E k \in DOMAIN seqs : x \in Range(seqs[k])
<1>1. DOMAIN seqs = 1 .. Len(seqs)
  BY SequenceShape
<1>2. ASSUME NEW l \in DOMAIN s PROVE \E k \in DOMAIN seqs : s[l] \in Range(seqs[k])
  <2>1. PICK k \in DOMAIN seqs : \E m \in DOMAIN seqs[k] : s[l] = seqs[k][m]
    BY <1>1 DEF Holds
  <2> QED BY <2>1 DEF Range
<1>3. ASSUME NEW k \in DOMAIN seqs, NEW m \in DOMAIN seqs[k] PROVE seqs[k][m] \in Range(s)
  <2>1. PICK l \in DOMAIN s : s[l] = seqs[k][m]
    BY <1>1 DEF Holds
  <2> QED BY <2>1 DEF Range
<1> QED BY <1>2, <1>3 DEF Range

\* The least of some places of a list.
LEMMA LeastPlace ==
    ASSUME NEW n \in Nat, NEW I \in SUBSET (1 .. n), I # {}
    PROVE  Min(I) \in I /\ \A i \in I : Min(I) <= i
<1>1. I \subseteq Nat
  OBVIOUS
<1>2. \E x \in I : \A y \in I : x <= y
  BY <1>1, LeastNatural
<1> QED BY <1>2 DEF Min

\* What is kept of the first n of a list, when those at these places are kept.
KeptSoFar(s, seq, places, n) ==
    /\ IsSequence(s)
    /\ \A k \in DOMAIN s : \E m \in places : m <= n /\ s[k] = seq[m]
    /\ \A m \in places : m <= n => \E k \in DOMAIN s : s[k] = seq[m]

\* What is kept up to the next.
KeptNext(s, seq, places, n) == IF n \in places THEN Append(s, seq[n]) ELSE s

LEMMA KeptMore ==
    ASSUME NEW seq, NEW places \in SUBSET Nat, NEW n \in Nat, NEW s, KeptSoFar(s, seq, places, n),
           NEW t, t = KeptNext(s, seq, places, n + 1)
    PROVE  KeptSoFar(t, seq, places, n + 1)
<1>1. CASE n + 1 \notin places
  <2>1. t = s
    BY <1>1 DEF KeptNext
  <2>2. \A m \in places : m <= n + 1 => m <= n
    BY <1>1
  <2>3. \A m \in places : m <= n => m <= n + 1
    OBVIOUS
  <2> QED BY <2>1, <2>2, <2>3 DEF KeptSoFar
<1>2. CASE n + 1 \in places
  <2>1. Appends(t, s, seq[n + 1])
    BY <1>2 DEF Appends, KeptNext
  <2>2. PICK c \in Nat : c = Len(s) /\ DOMAIN s = 1 .. c
    BY SequenceShape DEF KeptSoFar
  <2>3. IsSequence(t) /\ DOMAIN t = 1 .. c + 1 /\ t[c + 1] = seq[n + 1] /\ \A i \in 1 .. c : t[i] = s[i]
    BY <2>1, <2>2, IsSequenceAppend DEF KeptSoFar
  <2>4. ASSUME NEW k \in DOMAIN t PROVE \E m \in places : m <= n + 1 /\ t[k] = seq[m]
    <3>1. CASE k = c + 1
      BY <1>2, <2>3, <3>1
    <3>2. CASE k \in 1 .. c
      <4>1. PICK m \in places : m <= n /\ s[k] = seq[m]
        BY <2>2, <3>2 DEF KeptSoFar
      <4> QED BY <2>3, <3>2, <4>1
    <3>3. \A i \in 1 .. c + 1 : i = c + 1 \/ i \in 1 .. c
      OBVIOUS
    <3> QED BY <2>3, <3>1, <3>2, <3>3
  <2>5. ASSUME NEW m \in places, m <= n + 1 PROVE \E k \in DOMAIN t : t[k] = seq[m]
    <3>1. CASE m = n + 1
      BY <2>3, <3>1
    <3>2. CASE m <= n
      <4>1. PICK k \in 1 .. c : s[k] = seq[m]
        BY <2>2, <3>2 DEF KeptSoFar
      <4>2. k \in DOMAIN t /\ t[k] = s[k]
        BY <2>3
      <4> QED BY <4>1, <4>2
    <3> QED BY <2>5, <3>1, <3>2
  <2> QED BY <2>3, <2>4, <2>5 DEF KeptSoFar
<1> QED BY <1>1, <1>2

\* The values up to n, when there is an element for each.
UpTo(g, seq, places, n) == g = [i \in 0 .. n |-> IF i = 0 THEN <<>> ELSE KeptNext(g[i - 1], seq, places, i)]

LEMMA KeptExists ==
    ASSUME NEW seq, NEW places, NEW n \in Nat
    PROVE  \E g : UpTo(g, seq, places, n)
<1>1. PICK T : T = {m \in Nat : \E g : UpTo(g, seq, places, m)}
  OBVIOUS
<1>2. 0 \in T
  <2>1. PICK g : g = [i \in 0 .. 0 |-> <<>>]
    OBVIOUS
  <2>2. g = [i \in 0 .. 0 |-> IF i = 0 THEN <<>> ELSE KeptNext(g[i - 1], seq, places, i)]
    BY <2>1
  <2> QED BY <1>1, <2>2 DEF UpTo
<1>3. ASSUME NEW m \in Nat, m \in T PROVE m + 1 \in T
  <2>1. PICK g : UpTo(g, seq, places, m)
    BY <1>1, <1>3
  <2>2. PICK h : h = [i \in 0 .. m + 1 |-> IF i = m + 1 THEN KeptNext(g[m], seq, places, m + 1) ELSE g[i]]
    OBVIOUS
  <2>3. ASSUME NEW i \in 0 .. m + 1
        PROVE  h[i] = IF i = 0 THEN <<>> ELSE KeptNext(h[i - 1], seq, places, i)
    <3>1. CASE i = 0
      <4>1. h[0] = g[0] /\ g[0] = <<>>
        BY <2>1, <2>2 DEF UpTo
      <4> QED BY <3>1, <4>1
    <3>2. CASE i \in 1 .. m
      <4>1. h[i] = g[i] /\ h[i - 1] = g[i - 1] /\ i # 0 /\ i \in 0 .. m
        BY <2>2, <3>2
      <4>2. g[i] = KeptNext(g[i - 1], seq, places, i)
        BY <2>1, <4>1 DEF UpTo
      <4> QED BY <4>1, <4>2
    <3>3. CASE i = m + 1
      <4>1. h[i] = KeptNext(g[m], seq, places, m + 1) /\ i # 0 /\ i - 1 = m
        BY <2>2, <3>3
      <4>2. h[m] = g[m]
        BY <2>2
      <4> QED BY <3>3, <4>1, <4>2
    <3> QED BY <3>1, <3>2, <3>3
  <2>4. h = [i \in 0 .. m + 1 |-> h[i]]
    BY <2>2
  <2>5. UpTo(h, seq, places, m + 1)
    BY <2>3, <2>4 DEF UpTo
  <2> QED BY <1>1, <2>5
<1>4. n \in T
  BY <1>2, <1>3, NumberSets
<1> QED BY <1>1, <1>4

LEMMA KeptAre ==
    ASSUME NEW seq, IsSequence(seq), NEW places \in SUBSET (DOMAIN seq),
           NEW g, UpTo(g, seq, places, Len(seq))
    PROVE  /\ IsSequence(g[Len(seq)])
           /\ Range(g[Len(seq)]) = {seq[m] : m \in places}
<1>1. PICK n \in Nat : n = Len(seq) /\ DOMAIN seq = 1 .. n
  BY SequenceShape
<1>2. PICK T : T = {m \in Nat : m <= n => KeptSoFar(g[m], seq, places, m)}
  OBVIOUS
<1>3. g[0] = <<>> /\ \A i \in 1 .. n : g[i] = KeptNext(g[i - 1], seq, places, i)
  BY <1>1 DEF UpTo
<1>4. 0 \in T
  <2>1. IsSequence(<<>>) /\ DOMAIN <<>> = {}
    BY NothingListed
  <2>2. \A m \in places : ~(m <= 0)
    BY <1>1
  <2>3. KeptSoFar(g[0], seq, places, 0)
    BY <1>3, <2>1, <2>2 DEF KeptSoFar
  <2> QED BY <1>2, <2>3
<1>5. ASSUME NEW m \in Nat, m \in T PROVE m + 1 \in T
  <2> SUFFICES ASSUME m + 1 <= n PROVE KeptSoFar(g[m + 1], seq, places, m + 1)
    BY <1>2
  <2>1. m <= n /\ m + 1 \in 1 .. n /\ (m + 1) - 1 = m
    OBVIOUS
  <2>2. KeptSoFar(g[m], seq, places, m)
    BY <1>2, <1>5, <2>1
  <2>3. g[m + 1] = KeptNext(g[m], seq, places, m + 1)
    BY <1>3, <2>1
  <2>4. places \in SUBSET Nat
    BY <1>1
  <2> QED BY <2>2, <2>3, <2>4, KeptMore
<1>6. n \in T
  BY <1>4, <1>5, NumberSets
<1>7. PICK s : s = g[n] /\ KeptSoFar(s, seq, places, n)
  BY <1>2, <1>6
<1>8. \A m \in places : m <= n
  BY <1>1
<1>9. Range(s) = {seq[m] : m \in places}
  <2>1. Range(s) = {s[k] : k \in DOMAIN s}
    BY DEF Range
  <2>2. \A k \in DOMAIN s : \E m \in places : s[k] = seq[m]
    BY <1>7 DEF KeptSoFar
  <2>3. \A m \in places : \E k \in DOMAIN s : s[k] = seq[m]
    BY <1>7, <1>8 DEF KeptSoFar
  <2> QED BY <2>1, <2>2, <2>3
<1> QED BY <1>1, <1>7, <1>9 DEF KeptSoFar

-----------------------------------------------------------------------------
IsWanted(r) == r.file_id \in Nat /\ r.file_id + 1 \in DOMAIN files
Announcements == [key : {"file", "breakpoint"}, id : Nat]

(* The shape of the state, and how far it is. *)
Shape ==
    /\ IsSequence(files)
    /\ IsSequence(wanted) /\ \A k \in DOMAIN wanted : IsWanted(wanted[k])
    /\ IsSequence(breakpoints)
    /\ created \in Nat
    /\ Len(breakpoints) = created + 1
    /\ DOMAIN sb \subseteq 1..created
    /\ stage \in {"files", "internal", "functions", "ready"}
    /\ stage \in {"files", "internal"} => created <= Len(Internal)
    /\ stage \in {"functions", "ready"} => created >= Len(Internal)
    /\ announced \in Seq(Announcements)

(* An entry of the table for a breakpoint of a function is one that was asked for. *)
EntriesWereWanted ==
    \A id \in DOMAIN sb : id > Len(Internal) => IsWanted(breakpoints[id + 1].request)

(* LLDB's record: what is enabled is the first location in each symbol. *)
Enabled ==
    \A id \in DOMAIN sb :
        /\ IsSequence(sb[id].locations)
        /\ sb[id].enabled = IF id <= Len(Internal) THEN DOMAIN sb[id].locations
                            ELSE FirstPerSymbol(sb[id].locations)

(* The files were announced first, each at the place of its number; then breakpoints that are kept. *)
FilesAnnounced ==
    /\ Len(announced) >= Len(files)
    /\ \A i \in 1..Len(files) : announced[i].key = "file" /\ announced[i].id = i - 1
    /\ \A i \in (Len(files) + 1)..Len(announced) :
            announced[i].key = "breakpoint" /\ announced[i].id \in DOMAIN sb
    /\ \A i, j \in (Len(files) + 1)..Len(announced) : i # j => announced[i].id # announced[j].id

FilesFirst == IF stage = "files" THEN announced = <<>> ELSE FilesAnnounced

SetupInv == Shape /\ EntriesWereWanted /\ Enabled /\ FilesFirst /\ IdsAgree /\ AddressesResolve

-----------------------------------------------------------------------------
(* Of the locations of an answer, the enabled ones have each symbol exactly once. *)
LEMMA FirstPerSymbolIsOne ==
    ASSUME NEW locs, IsSequence(locs), NEW k \in DOMAIN locs
    PROVE  \E j \in FirstPerSymbol(locs) :
                /\ locs[j].symbol = locs[k].symbol
                /\ \A i \in FirstPerSymbol(locs) : locs[i].symbol = locs[k].symbol => i = j
<1> DEFINE Same == {i \in DOMAIN locs : locs[i].symbol = locs[k].symbol}
<1>1. DOMAIN locs = 1..Len(locs) /\ Len(locs) \in Nat
  BY SequenceShape
<1>2. Same \subseteq Nat /\ k \in Same
  BY <1>1
<1>3. PICK j \in Same : \A i \in Same : j <= i
  BY <1>2, LeastNatural
<1>4. j \in FirstPerSymbol(locs)
  BY <1>1, <1>3 DEF FirstPerSymbol
<1>5. \A i \in FirstPerSymbol(locs) : locs[i].symbol = locs[k].symbol => i = j
  BY <1>1, <1>3 DEF FirstPerSymbol
<1> QED BY <1>3, <1>4, <1>5

-----------------------------------------------------------------------------
(* The state a debugger starts from, with its files and what is wanted of them. *)
LEMMA StartHolds ==
    ASSUME SetupStart, IsSequence(files), IsSequence(wanted), \A k \in DOMAIN wanted : IsWanted(wanted[k])
    PROVE  SetupInv
<1>1. IsSequence(breakpoints) /\ Len(breakpoints) = 1
  <2>1. breakpoints \in Seq({NoEntry}) /\ Len(breakpoints) = 1
    BY DEF SetupStart
  <2>2. QED BY <2>1 DEF IsSequence
<1>2. Len(Internal) \in Nat
  BY SetupAssumption
<1>3. /\ DOMAIN sb = {} /\ created = 0 /\ DOMAIN breakpoint_addresses = {}
      /\ announced = <<>> /\ stage = "files"
  BY DEF SetupStart
<1>4. Shape
  BY <1>1, <1>2, <1>3 DEF Shape
<1>5. QED BY <1>3, <1>4 DEF SetupInv, EntriesWereWanted, Enabled, FilesFirst, IdsAgree, AddressesResolve

LEMMA InitHolds == SetupInit => SetupInv
<1> SUFFICES ASSUME SetupInit PROVE SetupInv
  OBVIOUS
<1>1. PICK W : W = {r \in Requests : r.file_id + 1 \in DOMAIN files}
  OBVIOUS
<1>2. files \in Seq(Files) /\ wanted \in Seq(W) /\ SetupStart
  BY <1>1 DEF SetupInit
<1>3. \A k \in DOMAIN wanted : wanted[k] \in W
  BY <1>2
<1>4. \A k \in DOMAIN wanted : IsWanted(wanted[k])
  BY <1>1, <1>3, SetupAssumption DEF IsWanted
<1>5. QED BY <1>2, <1>4, StartHolds DEF IsSequence

(* What an appended element changes. *)
LEMMA Appended ==
    ASSUME NEW S, NEW seq \in Seq(S), NEW e \in S
    PROVE  /\ Append(seq, e) \in Seq(S) /\ Len(Append(seq, e)) = Len(seq) + 1
           /\ DOMAIN seq = 1..Len(seq) /\ DOMAIN Append(seq, e) = 1..(Len(seq) + 1)
           /\ \A i \in 1..Len(seq) : Append(seq, e)[i] = seq[i]
           /\ Append(seq, e)[Len(seq) + 1] = e
OBVIOUS

(* A breakpoint with a new number is announced. *)
LEMMA StillAnnounced ==
    ASSUME FilesAnnounced, announced \in Seq(Announcements), Len(files) \in Nat,
           NEW id, id \notin DOMAIN sb, DOMAIN sb' = DOMAIN sb \cup {id}, files' = files,
           announced' = Append(announced, [key |-> "breakpoint", id |-> id])
    PROVE  FilesAnnounced'
<1> DEFINE n == Len(files)
           m == Len(announced)
           new == [key |-> "breakpoint", id |-> id]
<1>1. n \in Nat /\ m \in Nat /\ n <= m
  BY DEF FilesAnnounced
<1>2. Len(announced') = m + 1 /\ announced'[m + 1] = new /\ \A i \in 1..m : announced'[i] = announced[i]
  OBVIOUS
<1>3. new.key = "breakpoint" /\ new.id = id
  OBVIOUS
<1>4. /\ \A i \in 1..n : announced[i].key = "file" /\ announced[i].id = i - 1
      /\ \A i \in (n + 1)..m : announced[i].key = "breakpoint" /\ announced[i].id \in DOMAIN sb
      /\ \A i, j \in (n + 1)..m : i # j => announced[i].id # announced[j].id
  BY DEF FilesAnnounced
<1> HIDE DEF n, m, new
<1>5. \A i \in (n + 1)..(m + 1) : i \in (n + 1)..m \/ i = m + 1
  BY <1>1
<1>6. \A i \in (n + 1)..m : announced'[i] = announced[i]
  BY <1>1, <1>2
<1>7. \A i \in 1..n : announced'[i].key = "file" /\ announced'[i].id = i - 1
  BY <1>1, <1>2, <1>4
<1>8. \A i \in (n + 1)..(m + 1) : announced'[i].key = "breakpoint" /\ announced'[i].id \in DOMAIN sb'
  <2>1. \A i \in (n + 1)..m : announced'[i].key = "breakpoint" /\ announced'[i].id \in DOMAIN sb'
    BY <1>4, <1>6
  <2>2. announced'[m + 1].key = "breakpoint" /\ announced'[m + 1].id \in DOMAIN sb'
    BY <1>2, <1>3
  <2> QED BY <1>5, <2>1, <2>2
<1>9. \A i, j \in (n + 1)..(m + 1) : i # j => announced'[i].id # announced'[j].id
  <2>1. \A i \in (n + 1)..m : announced'[i].id # announced'[m + 1].id
    <3>1. announced'[m + 1].id = id
      BY <1>2, <1>3
    <3>2. \A i \in (n + 1)..m : announced'[i].id \in DOMAIN sb
      BY <1>4, <1>6
    <3> QED BY <3>1, <3>2
  <2>2. \A i, j \in (n + 1)..m : i # j => announced'[i].id # announced'[j].id
    BY <1>4, <1>6
  <2> QED BY <1>5, <2>1, <2>2
<1> QED BY <1>1, <1>2, <1>7, <1>8, <1>9 DEF FilesAnnounced, n

(* A breakpoint with a new number takes the addresses it has; the others keep theirs. *)
LEMMA StillResolve ==
    ASSUME AddressesResolve, NEW id, id \notin DOMAIN sb, NEW locs,
           DOMAIN sb' = DOMAIN sb \cup {id}, \A i \in DOMAIN sb : sb'[i] = sb[i],
           sb'[id].locations = locs, sb'[id].enabled \subseteq DOMAIN locs,
           breakpoint_addresses' = register_breakpoint(breakpoint_addresses, id, locs)
    PROVE  AddressesResolve'
<1> DEFINE old == breakpoint_addresses
           new == breakpoint_addresses'
<1>1. /\ DOMAIN new = DOMAIN old \cup AddressesOfAnswer(locs)
      /\ \A a \in AddressesOfAnswer(locs) : new[a] = id
      /\ \A a \in DOMAIN old : a \notin AddressesOfAnswer(locs) => new[a] = old[a]
  BY DEF register_breakpoint
<1>2. \A k \in DOMAIN locs : locs[k].address \in AddressesOfAnswer(locs)
  BY DEF AddressesOfAnswer
<1> HIDE DEF old, new
<1>3. ASSUME NEW i \in DOMAIN sb', NEW k \in sb'[i].enabled
      PROVE  sb'[i].locations[k].address \in DOMAIN new
  <2>1. CASE i = id
    BY <1>1, <1>2, <1>3, <2>1
  <2>2. CASE i \in DOMAIN sb
    BY <1>1, <1>3, <2>2 DEF AddressesResolve, old
  <2> QED BY <2>1, <2>2
<1>4. ASSUME NEW a \in DOMAIN new
      PROVE  new[a] \in DOMAIN sb' /\ a \in AddressesOfAnswer(sb'[new[a]].locations)
  <2>1. CASE a \in AddressesOfAnswer(locs)
    BY <1>1, <2>1
  <2>2. CASE a \notin AddressesOfAnswer(locs)
    <3>1. a \in DOMAIN old /\ new[a] = old[a]
      BY <1>1, <2>2
    <3>2. old[a] \in DOMAIN sb /\ a \in AddressesOfAnswer(sb[old[a]].locations)
      BY <3>1 DEF AddressesResolve, old
    <3> QED BY <3>1, <3>2
  <2> QED BY <2>1, <2>2
<1> QED BY <1>3, <1>4 DEF AddressesResolve, AddressesOfAnswer, new

(* LLDB's number `id` and the entry for it are made together: nothing that was there is touched. *)
LEMMA SettleKeeps ==
    ASSUME SetupInv, stage = "functions", wanted # <<>>,
           NEW id \in Nat, id > created,
           NEW table, IsSequence(table), Len(table) = id,
           \A i \in DOMAIN breakpoints : table[i] = breakpoints[i],
           NEW locs, IsSequence(locs),
           NEW kept, DOMAIN kept = DOMAIN sb, \A i \in DOMAIN sb : kept[i] = sb[i],
           NEW at, at \in PlacesOf(id, Head(wanted)),
           Settle(Head(wanted), id, at, kept, table, locs),
           created' = id, wanted' = Tail(wanted), UNCHANGED <<files, stage>>
    PROVE  SetupInv'
<1> DEFINE request == Head(wanted)
<1>1. /\ IsWanted(request) /\ IsSequence(wanted') /\ \A k \in DOMAIN wanted' : IsWanted(wanted'[k])
      /\ \A r : IsWanted(r)' <=> (r.file_id \in Nat /\ r.file_id + 1 \in DOMAIN files)
  <2>1. IsSequence(wanted) /\ \A k \in DOMAIN wanted : IsWanted(wanted[k])
    BY DEF SetupInv, Shape
  <2>2. /\ 1 \in DOMAIN wanted /\ request = wanted[1] /\ IsSequence(wanted')
        /\ \A k \in DOMAIN wanted' : k + 1 \in DOMAIN wanted /\ wanted'[k] = wanted[k + 1]
    BY <2>1, IsSequenceTail
  <2> QED BY <2>1, <2>2 DEF IsWanted
<1>2. created \in Nat /\ Len(breakpoints) = created + 1 /\ DOMAIN sb \subseteq 1..created
      /\ id > Len(Internal) /\ IsSequence(breakpoints) /\ Len(Internal) \in Nat
  BY SetupAssumption DEF SetupInv, Shape
<1>3. /\ breakpoints' = Append(table, Entry(id, request))
      /\ DOMAIN sb' = DOMAIN sb \cup {id} /\ id \notin DOMAIN sb
      /\ \A i \in DOMAIN sb : sb'[i] = sb[i]
      /\ sb'[id] = SbBreakpoint(at, locs, FirstPerSymbol(locs))
  BY <1>2 DEF Settle
<1>4. /\ IsSequence(breakpoints') /\ Len(breakpoints') = id + 1
      /\ \A i \in DOMAIN breakpoints : i \in DOMAIN breakpoints' /\ breakpoints'[i] = breakpoints[i]
      /\ breakpoints'[id + 1] = Entry(id, request)
  <2>1. PICK entry, t : /\ entry = Entry(id, request) /\ Appends(t, table, entry)
                        /\ t = Append(table, Entry(id, request))
    BY DEF Appends
  <2>2. DOMAIN breakpoints = 1..(created + 1) /\ 1..(created + 1) \subseteq 1..id
    BY <1>2, SequenceShape
  <2> HIDE DEF request
  <2>3. /\ IsSequence(breakpoints') /\ Len(breakpoints') = id + 1 /\ DOMAIN breakpoints' = 1..(id + 1)
        /\ \A i \in 1..id : breakpoints'[i] = table[i]
        /\ breakpoints'[id + 1] = Entry(id, request)
    BY <1>3, <2>1, IsSequenceAppend
  <2>4. \A i \in 1..id : i \in 1..(id + 1)
    OBVIOUS
  <2> QED BY <2>2, <2>3, <2>4
<1>5. \A i \in DOMAIN sb : i + 1 \in DOMAIN breakpoints
  BY <1>2, SequenceShape
<1> HIDE DEF request
<1>6. /\ announced' = announced \/ announced' = Append(announced, [key |-> "breakpoint", id |-> id])
      /\ announced' \in Seq(Announcements)
  <2>1. announced' = announced \/ announced' = Append(announced, [key |-> "breakpoint", id |-> id])
    BY DEF Settle
  <2>2. [key |-> "breakpoint", id |-> id] \in Announcements
    BY DEF Announcements
  <2>3. announced \in Seq(Announcements)
    BY DEF SetupInv, Shape
  <2>4. Append(announced, [key |-> "breakpoint", id |-> id]) \in Seq(Announcements)
    BY <2>2, <2>3, Appended
  <2> QED BY <2>1, <2>3, <2>4
<1>7. Shape'
  <2>1. IsSequence(files') /\ stage' = "functions"
    BY DEF SetupInv, Shape
  <2>2. \A k \in DOMAIN wanted' : IsWanted(wanted[k])'
    BY <1>1 DEF IsWanted
  <2>3. DOMAIN sb' \subseteq 1..created' /\ created' \in Nat /\ created' >= Len(Internal)
    BY <1>2, <1>3
  <2> QED BY <1>1, <1>4, <1>6, <2>1, <2>2, <2>3 DEF Shape
<1>8. EntriesWereWanted'
  <2>1. \A i \in DOMAIN sb : i > Len(Internal) => IsWanted(breakpoints'[i + 1].request)
    BY <1>4, <1>5 DEF SetupInv, EntriesWereWanted
  <2>2. IsWanted(breakpoints'[id + 1].request)
    BY <1>1, <1>4 DEF Entry
  <2> QED BY <1>3, <2>1, <2>2 DEF EntriesWereWanted, IsWanted
<1>9. Enabled'
  BY <1>2, <1>3 DEF SetupInv, Enabled, SbBreakpoint
<1>10. FilesFirst'
  <2>1. announced \in Seq(Announcements) /\ Len(files) \in Nat /\ Len(announced) \in Nat /\ FilesAnnounced
    BY DEF SetupInv, Shape, FilesFirst
  <2>2. CASE announced' = announced
    BY <1>3, <2>1, <2>2 DEF FilesFirst, FilesAnnounced
  <2>3. CASE announced' = Append(announced, [key |-> "breakpoint", id |-> id])
    BY <1>3, <2>1, <2>3, StillAnnounced DEF FilesFirst
  <2> QED BY <1>6, <2>2, <2>3
<1>11. IdsAgree'
  <2>1. \A i \in DOMAIN sb : /\ i + 1 \in DOMAIN breakpoints' /\ breakpoints'[i + 1].id = i
                             /\ sb'[i].at \in PlacesOf(i, breakpoints'[i + 1].request)
    BY <1>3, <1>4, <1>5 DEF SetupInv, IdsAgree
  <2>2. /\ id + 1 \in DOMAIN breakpoints' /\ breakpoints'[id + 1].id = id
        /\ sb'[id].at \in PlacesOf(id, breakpoints'[id + 1].request)
    BY <1>2, <1>3, <1>4 DEF Entry, SbBreakpoint, request
  <2> QED BY <1>3, <2>1, <2>2 DEF IdsAgree
<1>12. AddressesResolve'
  <2>1. breakpoint_addresses' = register_breakpoint(breakpoint_addresses, id, locs)
    BY DEF Settle
  <2>2. sb'[id].locations = locs /\ sb'[id].enabled \subseteq DOMAIN locs
    BY <1>3 DEF FirstPerSymbol, SbBreakpoint
  <2>3. AddressesResolve
    BY DEF SetupInv
  <2> QED BY <1>3, <2>1, <2>2, <2>3, StillResolve
<1> QED BY <1>7, <1>8, <1>9, <1>10, <1>11, <1>12 DEF SetupInv

LEMMA AddFunctionKeeps ==
    ASSUME SetupInv, NEW locs, IsSequence(locs), AddFunction(locs) PROVE SetupInv'
<1>1. /\ created \in Nat /\ Len(breakpoints) = created + 1 /\ IsSequence(breakpoints)
      /\ created >= Len(Internal) /\ Len(Internal) \in Nat /\ DOMAIN sb \subseteq 1..created
  BY SetupAssumption DEF SetupInv, Shape, AddFunction
<1> DEFINE id == created + 1
           at == At(Head(wanted).file_id, Head(wanted).loc)
<1>2. /\ Settle(Head(wanted), id, at, sb, breakpoints, locs)
      /\ stage = "functions" /\ wanted # <<>> /\ created' = id
      /\ wanted' = Tail(wanted) /\ UNCHANGED <<files, stage>>
  BY DEF AddFunction
<1>3. id \in Nat /\ id > created /\ Len(breakpoints) = id
  BY <1>1
<1>4. at \in PlacesOf(id, Head(wanted))
  BY <1>1 DEF PlacesOf
<1> HIDE DEF id, at
<1> QED BY <1>1, <1>2, <1>3, <1>4, SettleKeeps

LEMMA AddFunctionAtEndKeeps ==
    ASSUME SetupInv, NEW locs, NEW locs_end, IsSequence(locs_end), AddFunctionAtEnd(locs, locs_end)
    PROVE  SetupInv'
<1>1. /\ created \in Nat /\ Len(breakpoints) = created + 1 /\ IsSequence(breakpoints)
      /\ created >= Len(Internal) /\ Len(Internal) \in Nat /\ DOMAIN sb \subseteq 1..created
  BY SetupAssumption DEF SetupInv, Shape, AddFunctionAtEnd
<1> DEFINE request == Head(wanted)
           id      == created + 1
           made    == [i \in DOMAIN sb \cup {id} |->
                        IF i = id THEN SbBreakpoint(At(request.file_id, request.loc), locs, DOMAIN locs)
                        ELSE sb[i]]
           kept    == [i \in DOMAIN made \ {DeleteId(breakpoints)} |-> made[i]]
           at      == At(request.file_id, request.loc_end)
           table   == Padded(breakpoints)
<1>2. /\ Settle(request, id + 1, at, kept, table, locs_end)
      /\ stage = "functions" /\ wanted # <<>> /\ created' = id + 1
      /\ wanted' = Tail(wanted) /\ UNCHANGED <<files, stage>>
  BY DEF AddFunctionAtEnd
<1>3. DOMAIN kept = DOMAIN sb /\ \A i \in DOMAIN sb : kept[i] = sb[i]
  <2>1. DeleteId(breakpoints) = id /\ id \notin DOMAIN sb
    BY <1>1 DEF DeleteId
  <2>2. DOMAIN made = DOMAIN sb \cup {id} /\ \A i \in DOMAIN sb : i # id => made[i] = sb[i]
    OBVIOUS
  <2> HIDE DEF made, id
  <2> QED BY <2>1, <2>2
<1>4. /\ IsSequence(table) /\ Len(table) = id + 1
      /\ \A i \in DOMAIN breakpoints : table[i] = breakpoints[i]
  <2>1. PICK t : Appends(t, breakpoints, NoEntry) /\ t = table
    BY DEF Appends, Padded
  <2>2. DOMAIN breakpoints = 1..Len(breakpoints)
    BY <1>1, SequenceShape
  <2> HIDE DEF table
  <2> QED BY <1>1, <2>1, <2>2, IsSequenceAppend
<1>5. at \in PlacesOf(id + 1, request)
  BY <1>1 DEF PlacesOf
<1>6. id + 1 \in Nat /\ id + 1 > created
  BY <1>1
<1> DEFINE next == id + 1
<1> HIDE DEF request, id, made, kept, at, table
<1>7. /\ Settle(request, next, at, kept, table, locs_end) /\ created' = next
      /\ next \in Nat /\ next > created /\ Len(table) = next /\ at \in PlacesOf(next, request)
  BY <1>2, <1>4, <1>5, <1>6
<1> HIDE DEF next
<1> QED BY <1>2, <1>3, <1>4, <1>7, SettleKeeps DEF request

LEMMA AddInternalKeeps ==
    ASSUME SetupInv, NEW locs, IsSequence(locs), AddInternal(locs) PROVE SetupInv'
<1>1. /\ created \in Nat /\ Len(breakpoints) = created + 1 /\ IsSequence(breakpoints)
      /\ created < Len(Internal) /\ Len(Internal) \in Nat /\ DOMAIN sb \subseteq 1..created
      /\ stage = "internal"
  BY SetupAssumption DEF SetupInv, Shape, AddInternal
<1> DEFINE id    == created + 1
           place == Internal[Len(breakpoints)]
<1>2. /\ id \notin DOMAIN sb /\ id \in Nat /\ id <= Len(Internal) /\ place \in STRING
      /\ Len(breakpoints) = id
  BY <1>1, SetupAssumption
<1>3. /\ breakpoints' = Append(breakpoints, Entry(id, place))
      /\ created' = id /\ DOMAIN sb' = DOMAIN sb \cup {id}
      /\ \A i \in DOMAIN sb : sb'[i] = sb[i]
      /\ sb'[id] = SbBreakpoint(place, locs, DOMAIN locs)
      /\ announced' = Append(announced, [key |-> "breakpoint", id |-> id])
      /\ breakpoint_addresses' = register_breakpoint(breakpoint_addresses, id, locs)
      /\ UNCHANGED <<files, wanted, stage>>
  BY <1>1, <1>2 DEF AddInternal
<1> HIDE DEF id, place
<1>4. /\ IsSequence(breakpoints') /\ Len(breakpoints') = id + 1 /\ DOMAIN breakpoints' = 1..(id + 1)
      /\ \A i \in 1..id : breakpoints'[i] = breakpoints[i]
      /\ breakpoints'[id + 1] = Entry(id, place) /\ DOMAIN breakpoints = 1..id
  <2>1. PICK entry, t : /\ entry = Entry(id, place) /\ Appends(t, breakpoints, entry)
                        /\ t = Append(breakpoints, Entry(id, place))
    BY DEF Appends
  <2> QED BY <1>1, <1>2, <1>3, <2>1, SequenceShape, IsSequenceAppend
<1>5. announced' \in Seq(Announcements)
  <2>1. [key |-> "breakpoint", id |-> id] \in Announcements /\ announced \in Seq(Announcements)
    BY <1>2 DEF Announcements, SetupInv, Shape
  <2> QED BY <1>3, <2>1, Appended
<1>6. \A r : IsWanted(r)' <=> IsWanted(r)
  BY <1>3 DEF IsWanted
<1>7. Shape'
  BY <1>1, <1>2, <1>3, <1>4, <1>5 DEF SetupInv, Shape, IsWanted, id
<1>8. EntriesWereWanted'
  <2>1. \A i \in DOMAIN sb : i \in 1..created /\ i \in 1..id
    BY <1>1 DEF id
  <2>2. \A i \in DOMAIN sb' : ~(i > Len(Internal))
    BY <1>1, <1>2, <1>3, <2>1
  <2> QED BY <2>2 DEF EntriesWereWanted
<1>9. Enabled'
  BY <1>2, <1>3 DEF SetupInv, Enabled, SbBreakpoint
<1>10. FilesFirst'
  <2>1. announced \in Seq(Announcements) /\ Len(files) \in Nat /\ Len(announced) \in Nat /\ FilesAnnounced
    BY <1>1 DEF SetupInv, Shape, FilesFirst
  <2>2. id \notin DOMAIN sb /\ files' = files /\ stage' = "internal"
    BY <1>1, <1>2, <1>3
  <2> QED BY <1>3, <2>1, <2>2, StillAnnounced DEF FilesFirst
<1>11. IdsAgree'
  <2>1. \A i \in DOMAIN sb : /\ i + 1 \in DOMAIN breakpoints' /\ breakpoints'[i + 1].id = i
                             /\ sb'[i].at \in PlacesOf(i, breakpoints'[i + 1].request)
    BY <1>1, <1>2, <1>3, <1>4 DEF SetupInv, IdsAgree
  <2>2. /\ id + 1 \in DOMAIN breakpoints' /\ breakpoints'[id + 1].id = id
        /\ sb'[id].at \in PlacesOf(id, breakpoints'[id + 1].request)
    BY <1>2, <1>3, <1>4 DEF Entry, SbBreakpoint, PlacesOf
  <2> QED BY <1>3, <2>1, <2>2 DEF IdsAgree
<1>12. AddressesResolve'
  <2>1. sb'[id].locations = locs /\ sb'[id].enabled \subseteq DOMAIN locs /\ id \notin DOMAIN sb
    BY <1>1, <1>2, <1>3 DEF SbBreakpoint
  <2>2. AddressesResolve
    BY DEF SetupInv
  <2> QED BY <1>3, <2>1, <2>2, StillResolve
<1> QED BY <1>7, <1>8, <1>9, <1>10, <1>11, <1>12 DEF SetupInv

LEMMA SendFilesKeeps == SetupInv /\ SendFiles => SetupInv'
<1> SUFFICES ASSUME SetupInv, SendFiles PROVE SetupInv'
  OBVIOUS
<1>1. /\ announced' = [i \in 1..Len(files) |-> [key |-> "file", id |-> i - 1]]
      /\ stage = "files" /\ stage' = "internal" /\ Len(files) \in Nat
      /\ UNCHANGED <<files, wanted, breakpoints, sb, created, breakpoint_addresses>>
  BY SequenceShape DEF SendFiles, SetupInv, Shape
<1>2. announced' \in Seq(Announcements) /\ Len(announced') = Len(files)
  BY <1>1 DEF Announcements
<1>3. Shape'
  BY <1>1, <1>2 DEF SetupInv, Shape, IsWanted
<1>4. FilesFirst'
  BY <1>1, <1>2 DEF FilesFirst, FilesAnnounced
<1> QED BY <1>1, <1>3, <1>4 DEF SetupInv, EntriesWereWanted, Enabled, IdsAgree, AddressesResolve, IsWanted

LEMMA NextStageKeeps == SetupInv /\ (InternalAdded \/ FunctionsAdded) => SetupInv'
<1> SUFFICES ASSUME SetupInv, InternalAdded \/ FunctionsAdded PROVE SetupInv'
  OBVIOUS
<1>1. /\ stage # "files" /\ stage' \in {"functions", "ready"} /\ created >= Len(Internal)
      /\ UNCHANGED <<files, wanted, breakpoints, sb, created, breakpoint_addresses, announced>>
  BY SetupAssumption DEF InternalAdded, FunctionsAdded, SetupInv, Shape
<1> QED BY <1>1 DEF SetupInv, Shape, EntriesWereWanted, Enabled, FilesFirst, FilesAnnounced, IdsAgree, AddressesResolve, IsWanted

(* A step of the set-up, with any answers. *)
LEMMA StepKeeps ==
    ASSUME SetupInv,
           \/ SendFiles \/ InternalAdded \/ FunctionsAdded
           \/ \E locs : IsSequence(locs) /\ AddInternal(locs)
           \/ \E locs : IsSequence(locs) /\ AddFunction(locs)
           \/ \E locs, locs_end : IsSequence(locs_end) /\ AddFunctionAtEnd(locs, locs_end)
    PROVE  SetupInv'
BY SendFilesKeeps, AddInternalKeeps, NextStageKeeps, AddFunctionKeeps, AddFunctionAtEndKeeps

LEMMA NextKeeps == SetupInv /\ [SetupNext]_setupVars => SetupInv'
<1> SUFFICES ASSUME SetupInv, [SetupNext]_setupVars PROVE SetupInv'
  OBVIOUS
<1>1. CASE UNCHANGED setupVars
  BY <1>1 DEF setupVars, SetupInv, Shape, EntriesWereWanted, Enabled, FilesFirst, FilesAnnounced, IdsAgree, AddressesResolve, IsWanted
<1>2. CASE SetupNext
  <2>1. \A locs \in Answers : IsSequence(locs)
    BY SetupAssumption DEF IsSequence
  <2> QED BY <1>2, <2>1, StepKeeps DEF SetupNext
<1> QED BY <1>1, <1>2

LEMMA SetupIsRight == SetupSpec => []SetupInv
BY InitHolds, NextKeeps, PTL DEF SetupSpec

LEMMA OneStop == SetupInv => OneStopPerCall
<1> SUFFICES ASSUME SetupInv, NEW id \in DOMAIN sb, id > Len(Internal), NEW k \in DOMAIN sb[id].locations
             PROVE  \E j \in sb[id].enabled :
                      /\ sb[id].locations[j].symbol = sb[id].locations[k].symbol
                      /\ \A i \in sb[id].enabled :
                            sb[id].locations[i].symbol = sb[id].locations[k].symbol => i = j
  BY DEF OneStopPerCall
<1>1. IsSequence(sb[id].locations) /\ sb[id].enabled = FirstPerSymbol(sb[id].locations)
  BY SetupAssumption DEF SetupInv, Shape, Enabled
<1> QED BY <1>1, FirstPerSymbolIsOne

LEMMA Announced == SetupInv => AnnouncedIsKnown
<1> SUFFICES ASSUME SetupInv, NEW n \in DOMAIN announced, announced[n].key = "breakpoint"
             PROVE  /\ announced[n].id \in DOMAIN sb
                    /\ announced[n].id > Len(Internal) =>
                          \E m \in 1..(n - 1) : announced[m] =
                              [key |-> "file", id |-> breakpoints[announced[n].id + 1].request.file_id]
                    /\ \A m \in 1..(n - 1) : announced[m] # announced[n]
  BY DEF AnnouncedIsKnown
<1>1. /\ announced \in Seq(Announcements) /\ Len(files) \in Nat /\ FilesAnnounced
      /\ DOMAIN files = 1..Len(files) /\ DOMAIN announced = 1..Len(announced) /\ Len(announced) \in Nat
  BY SequenceShape DEF SetupInv, Shape, FilesFirst
<1>2. n \in (Len(files) + 1)..Len(announced)
  <2>1. \A i \in 1..Len(files) : announced[i].key = "file"
    BY <1>1 DEF FilesAnnounced
  <2>2. n \notin 1..Len(files)
    BY <2>1
  <2> QED BY <1>1, <2>2
<1>3. announced[n].id \in DOMAIN sb
  BY <1>1, <1>2 DEF FilesAnnounced
<1>4. ASSUME announced[n].id > Len(Internal)
      PROVE  \E m \in 1..(n - 1) : announced[m] =
                  [key |-> "file", id |-> breakpoints[announced[n].id + 1].request.file_id]
  <2> DEFINE request == breakpoints[announced[n].id + 1].request
  <2>1. IsWanted(request)
    BY <1>3, <1>4 DEF SetupInv, EntriesWereWanted
  <2>2. request.file_id \in Nat /\ request.file_id + 1 \in 1..Len(files)
    BY <1>1, <2>1, SetupAssumption DEF IsWanted
  <2> HIDE DEF request
  <2>3. announced[request.file_id + 1] = [key |-> "file", id |-> request.file_id]
        /\ request.file_id + 1 \in 1..(n - 1)
    <3>1. request.file_id + 1 \in 1..(n - 1) /\ request.file_id + 1 \in 1..Len(announced)
      BY <1>1, <1>2, <2>2
    <3>2. announced[request.file_id + 1].key = "file" /\ announced[request.file_id + 1].id = request.file_id
      BY <1>1, <2>2 DEF FilesAnnounced
    <3>3. announced[request.file_id + 1] \in Announcements
      BY <1>1, <3>1
    <3> QED BY <3>1, <3>2, <3>3 DEF Announcements
  <2> QED BY <2>3 DEF request
<1>5. \A m \in 1..(n - 1) : announced[m] # announced[n]
  <2> TAKE m \in 1..(n - 1)
  <2>1. CASE m <= Len(files)
    <3>1. announced[m].key = "file"
      BY <1>1, <2>1 DEF FilesAnnounced
    <3> QED BY <3>1
  <2>2. CASE m > Len(files)
    BY <1>1, <1>2, <2>2 DEF FilesAnnounced
  <2> QED BY <1>1, <2>1, <2>2
<1> QED BY <1>3, <1>4, <1>5

LEMMA TablesFit == SetupInv => TablesFitLLDB
BY OneStop, Announced DEF SetupInv, TablesFitLLDB

-----------------------------------------------------------------------------
(* However many locations LLDB rejects, the entry that is found under the number of a breakpoint is for *)
(* the place where LLDB has it (debugger.rs:238-302).                                                    *)
THEOREM IdsAlwaysAgree == SetupSpec => []IdsAgree
BY SetupIsRight, PTL DEF SetupInv

(* An enabled location is recognised by its address, and an address leads to a breakpoint LLDB has. *)
THEOREM AddressesAlwaysResolve == SetupSpec => []AddressesResolve
BY SetupIsRight, PTL DEF SetupInv

(* Whatever LLDB answers, a call of a function stops the program once per breakpoint. *)
THEOREM CallsStopOnce == SetupSpec => []OneStopPerCall
BY OneStop, SetupIsRight, PTL

(* What the streams announce can be looked up: in the table, and its file among those announced before. *)
THEOREM AnnouncedIsAlwaysKnown == SetupSpec => []AnnouncedIsKnown
BY Announced, SetupIsRight, PTL

(* The tables fit LLDB's, whatever LLDB answers: the four results above. *)
THEOREM TablesAlwaysFit == SetupSpec => []TablesFitLLDB
BY TablesFit, SetupIsRight, PTL

-----------------------------------------------------------------------------
(***************************************************************************)
(* Proofs about Session: its recordings.                                   *)
(***************************************************************************)
IsEnd(t, s, m) == t = SubSeq(s, m, Len(s))

LEMMA IsSequenceSub ==
    ASSUME NEW s, IsSequence(s), NEW m \in Nat \ {0}, NEW t, IsEnd(t, s, m)
    PROVE  /\ IsSequence(t)
           /\ \A i \in DOMAIN t : \E j \in DOMAIN s : t[i] = s[j]
<1>1. PICK S : s \in Seq(S)
  BY DEF IsSequence
<1>2. Len(s) \in Nat /\ DOMAIN s = 1 .. Len(s)
  BY <1>1
<1>3. t \in Seq(S)
  BY <1>1, <1>2 DEF IsEnd
<1>4. DOMAIN t = 1 .. Len(s) - m + 1 \/ DOMAIN t = {}
  BY <1>1, <1>2 DEF IsEnd
<1>5. \A i \in DOMAIN t : t[i] = s[m + i - 1] /\ m + i - 1 \in 1 .. Len(s)
  BY <1>1, <1>2, <1>4 DEF IsEnd
<1>6. QED BY <1>2, <1>3, <1>5 DEF IsSequence

-----------------------------------------------------------------------------
(***************************************************************************)
(* The recordings and the debuggers: one recording is being written while  *)
(* a debugger is at work, the last, and it belongs to the debugger that    *)
(* ends next.                                                              *)
(***************************************************************************)
Active == pc \in {"read", "setup", "running", "end", "notify", "join"}

LastRecording == recordings[Len(recordings)]

Books ==
    /\ IsSequence(recordings) /\ IsSequence(results)
    /\ \A n \in DOMAIN recordings :
           /\ DOMAIN recordings[n] = {"output", "by", "sent"}
           /\ recordings[n].by \in DOMAIN results \/ (Active /\ n = Len(recordings))
    /\ Active => recordings # <<>> /\ LastRecording.by = Len(results) + 1

\* The debugger that is at work ends, or one that has no recording.
LEMMA EndBooks ==
    ASSUME Books, NEW result, results' = Append(results, result), recordings' = recordings,
           pc' = "prompt"
    PROVE  /\ Books'
           /\ \A n \in DOMAIN recordings : recordings[n].by \in DOMAIN results =>
                  recordings[n].by # Len(results) + 1
           /\ results'[Len(results) + 1] = result
           /\ \A k \in DOMAIN results : results'[k] = results[k]
           /\ DOMAIN results' = DOMAIN results \cup {Len(results) + 1}
<1>1. /\ IsSequence(results') /\ Len(results') = Len(results) + 1 /\ DOMAIN results' = 1 .. Len(results) + 1
      /\ results'[Len(results) + 1] = result /\ \A k \in 1 .. Len(results) : results'[k] = results[k]
  <2>1. IsSequence(results)
    BY DEF Books
  <2>2. PICK t : t = results' /\ Appends(t, results, result)
    BY DEF Appends
  <2>3. /\ IsSequence(t) /\ Len(t) = Len(results) + 1 /\ DOMAIN t = 1 .. Len(results) + 1
        /\ t[Len(results) + 1] = result /\ \A k \in 1 .. Len(results) : t[k] = results[k]
    BY <2>1, <2>2, IsSequenceAppend
  <2>4. QED BY <2>2, <2>3
<1>2. Len(results) \in Nat /\ DOMAIN results = 1 .. Len(results)
  BY SequenceShape DEF Books
<1>3. DOMAIN results' = DOMAIN results \cup {Len(results) + 1}
  BY <1>1, <1>2
<1>4. ~Active'
  BY DEF Active
<1>5. Books'
  BY <1>1, <1>3, <1>4 DEF Books, LastRecording
<1>6. QED BY <1>1, <1>2, <1>3, <1>5

\* Something is sent to the recording that is being written.
LEMMA SentBooks ==
    ASSUME Books, Active, Active', NEW more, recordings' = Sent(more), results' = results
    PROVE  /\ Books' /\ Len(recordings') = Len(recordings) /\ DOMAIN recordings' = DOMAIN recordings
           /\ Len(recordings) \in DOMAIN recordings
           /\ LastRecording' = [LastRecording EXCEPT !.sent = LastRecording.sent \o more] /\ LastRecording'.sent = LastRecording.sent \o more
           /\ \A n \in DOMAIN recordings : n # Len(recordings) => recordings'[n] = recordings[n]
           /\ \A n \in DOMAIN recordings : recordings[n].by \in DOMAIN results => n # Len(recordings)
<1>1. PICK S : recordings \in Seq(S)
  BY DEF Books, IsSequence
<1>2. PICK n \in Nat : n = Len(recordings)
  BY <1>1
<1>3. DOMAIN recordings = 1 .. n /\ n \in 1 .. n
  BY <1>1, <1>2 DEF Books
<1>4. PICK r : r = [LastRecording EXCEPT !.sent = LastRecording.sent \o more]
  OBVIOUS
<1>5. recordings' = [recordings EXCEPT ![n] = r]
  BY <1>2, <1>3, <1>4 DEF Sent, LastRecording
<1>6. /\ DOMAIN recordings' = 1 .. n /\ recordings'[n] = r
      /\ \A k \in 1 .. n : k # n => recordings'[k] = recordings[k]
  BY <1>3, <1>5
<1>7. PICK T : T = S \cup {r}
  OBVIOUS
<1>8. recordings' \in Seq(T) /\ Len(recordings') = n
  BY <1>1, <1>2, <1>3, <1>5, <1>7
<1>9. DOMAIN LastRecording = {"output", "by", "sent"}
  BY <1>2, <1>3 DEF Books, LastRecording
<1>10. DOMAIN r = {"output", "by", "sent"} /\ r.by = LastRecording.by /\ r.sent = LastRecording.sent \o more
  BY <1>4, <1>9
<1>11. LastRecording' = r
  BY <1>2, <1>6, <1>8 DEF LastRecording
<1>12. Len(results) \in Nat /\ DOMAIN results = 1 .. Len(results)
  BY SequenceShape DEF Books
<1>13. \A k \in DOMAIN recordings : recordings[k].by \in DOMAIN results => k # n
  BY <1>2, <1>12 DEF Books, LastRecording
<1>14. Books'
  <2>1. IsSequence(recordings') /\ IsSequence(results')
    BY <1>8 DEF Books, IsSequence
  <2>2. ASSUME NEW k \in 1 .. n
        PROVE  /\ DOMAIN recordings'[k] = {"output", "by", "sent"}
               /\ recordings'[k].by \in DOMAIN results \/ k = n
    BY <1>2, <1>3, <1>6, <1>10 DEF Books
  <2>3. recordings' # <<>> /\ LastRecording'.by = Len(results) + 1
    BY <1>3, <1>6, <1>10, <1>11 DEF Books
  <2>4. QED BY <1>6, <1>8, <2>1, <2>2, <2>3 DEF Books
<1>15. QED BY <1>2, <1>3, <1>4, <1>6, <1>8, <1>10, <1>11, <1>13, <1>14

\* A recording is begun, of which there was no file.
LEMMA ConnectBooks ==
    ASSUME Books, Connect
    PROVE  /\ Books' /\ recordings' = Append(recordings, LastRecording') /\ LastRecording'.sent = <<>>
           /\ Len(recordings') = Len(recordings) + 1
           /\ DOMAIN recordings' = DOMAIN recordings \cup {Len(recordings) + 1}
           /\ \A n \in DOMAIN recordings : recordings'[n] = recordings[n]
<1>1. PICK S : recordings \in Seq(S)
  BY DEF Books, IsSequence
<1>2. PICK n \in Nat : n = Len(recordings)
  BY <1>1
<1>3. PICK r : r = [output |-> job.output, by |-> Len(results) + 1, sent |-> <<>>]
  OBVIOUS
<1>4. DOMAIN r = {"output", "by", "sent"} /\ r.by = Len(results) + 1 /\ r.sent = <<>>
  BY <1>3
<1>5. \A k \in DOMAIN recordings : Truncated(recordings[k]) = recordings[k]
  BY DEF Connect, MayCreate, Truncated
<1>6. [k \in DOMAIN recordings |-> Truncated(recordings[k])] = recordings
  BY <1>1, <1>5
<1>7. recordings' = Append(recordings, r)
  BY <1>3, <1>6 DEF Connect
<1>8. /\ IsSequence(recordings') /\ Len(recordings') = n + 1 /\ DOMAIN recordings' = 1 .. n + 1
      /\ recordings'[n + 1] = r /\ \A k \in 1 .. n : recordings'[k] = recordings[k]
  <2>1. IsSequence(recordings)
    BY DEF Books
  <2>2. PICK t : t = recordings' /\ Appends(t, recordings, r)
    BY <1>7 DEF Appends
  <2>3. /\ IsSequence(t) /\ Len(t) = Len(recordings) + 1 /\ DOMAIN t = 1 .. Len(recordings) + 1
        /\ t[Len(recordings) + 1] = r /\ \A k \in 1 .. Len(recordings) : t[k] = recordings[k]
    BY <2>1, <2>2, IsSequenceAppend
  <2>4. QED BY <1>2, <2>2, <2>3
<1>9. DOMAIN recordings = 1 .. n /\ DOMAIN recordings' = DOMAIN recordings \cup {n + 1}
  BY <1>1, <1>2, <1>8
<1>10. LastRecording' = r
  BY <1>8 DEF LastRecording
<1>11. pc = "connect" /\ pc' = "read" /\ results' = results
  BY DEF Connect
<1>12. Active' /\ ~Active
  BY <1>11 DEF Active
<1>13. Books'
  <2>1. ASSUME NEW k \in 1 .. n + 1
        PROVE  /\ DOMAIN recordings'[k] = {"output", "by", "sent"}
               /\ recordings'[k].by \in DOMAIN results \/ k = n + 1
    <3>1. CASE k \in 1 .. n
      BY <1>8, <1>9, <1>12, <3>1 DEF Books
    <3>2. CASE k = n + 1
      BY <1>4, <1>8, <3>2
    <3>3. QED BY <3>1, <3>2
  <2>2. recordings' # <<>>
    BY <1>8
  <2>3. QED BY <1>4, <1>8, <1>10, <1>11, <1>12, <2>1, <2>2 DEF Books
<1>14. QED BY <1>2, <1>4, <1>7, <1>8, <1>9, <1>10, <1>13

-----------------------------------------------------------------------------
(***************************************************************************)
(* What is sent: the set-up sends files and breakpoints, the engine says   *)
(* that the program has ended, and the end comes after that and last.      *)
(***************************************************************************)
IsAnnouncement(m) == m.key \in {"file", "breakpoint"}

Announces ==
    /\ IsSequence(files) /\ IsSequence(announced)
    /\ \A i \in DOMAIN announced : IsAnnouncement(announced[i])

HasNoEnd(s) == \A i \in DOMAIN s : s[i].key # "end"

EndsWithExit(s) == s # <<>> /\ s[Len(s)] = Info("exit")

EndsWhole(s) == IsSuffix(<<Info("exit"), Info("end")>>, s)

Sending ==
    /\ \A n \in DOMAIN recordings : IsSequence(recordings[n].sent)
    /\ pc \in {"read", "setup", "running", "end"} => HasNoEnd(LastRecording.sent)
    /\ pc = "end" => EndsWithExit(LastRecording.sent)
    /\ pc \in {"notify", "join"} => EndsWhole(LastRecording.sent)

WholeInv == Books /\ Announces /\ Sending /\ RecordingIsWhole

\* What an empty or a longer stream is.
LEMMA NothingSent == IsSequence(<<>>) /\ HasNoEnd(<<>>)
<1>1. <<>> \in Seq({})
  OBVIOUS
<1>2. QED BY <1>1 DEF IsSequence, HasNoEnd

LEMMA SentKeepsNoEnd ==
    ASSUME NEW s, IsSequence(s), NEW t, IsSequence(t), HasNoEnd(s), HasNoEnd(t)
    PROVE  HasNoEnd(s \o t) /\ IsSequence(s \o t)
<1>1. PICK u : u = s \o t /\ Joins(u, s, t)
  BY DEF Joins
<1>2. /\ IsSequence(u) /\ Len(u) = Len(s) + Len(t)
      /\ \A i \in 1 .. Len(s) : u[i] = s[i]
      /\ \A i \in 1 .. Len(t) : u[Len(s) + i] = t[i]
      /\ \A i \in 1 .. Len(u) : i \in 1 .. Len(s) \/ i - Len(s) \in 1 .. Len(t)
  BY <1>1, IsSequenceConcat
<1>3. /\ DOMAIN s = 1 .. Len(s) /\ DOMAIN t = 1 .. Len(t) /\ DOMAIN u = 1 .. Len(u)
      /\ Len(s) \in Nat /\ Len(t) \in Nat
  BY <1>2, SequenceShape
<1>4. ASSUME NEW i \in 1 .. Len(u) PROVE u[i].key # "end"
  <2>1. CASE i \in 1 .. Len(s)
    BY <1>2, <1>3, <2>1 DEF HasNoEnd
  <2>2. CASE i - Len(s) \in 1 .. Len(t)
    <3>1. PICK k \in 1 .. Len(t) : k = i - Len(s)
      BY <2>2
    <3>2. i = Len(s) + k
      BY <1>3, <3>1
    <3>3. QED BY <1>2, <1>3, <3>2 DEF HasNoEnd
  <2>3. QED BY <1>2, <2>1, <2>2
<1>5. QED BY <1>1, <1>2, <1>3, <1>4 DEF HasNoEnd

LEMMA SentOne ==
    ASSUME NEW s, IsSequence(s), NEW m
    PROVE  /\ IsSequence(s \o <<m>>) /\ s \o <<m>> # <<>>
           /\ (s \o <<m>>)[Len(s \o <<m>>)] = m
           /\ Len(s \o <<m>>) = Len(s) + 1 /\ \A i \in 1 .. Len(s) : (s \o <<m>>)[i] = s[i]
<1>1. PICK S : s \in Seq(S)
  BY DEF IsSequence
<1>2. PICK T : T = S \cup {m}
  OBVIOUS
<1>3. s \in Seq(T) /\ <<m>> \in Seq(T)
  BY <1>1, <1>2
<1>4. PICK u : u = s \o <<m>>
  OBVIOUS
<1>5. /\ u \in Seq(T) /\ Len(u) = Len(s) + 1 /\ u[Len(s) + 1] = m
      /\ \A i \in 1 .. Len(s) : u[i] = s[i]
  BY <1>3, <1>4
<1>6. u # <<>>
  BY <1>3, <1>5
<1>7. QED BY <1>4, <1>5, <1>6 DEF IsSequence

\* The end that follows the exit makes a recording whole; without one it is not.
LEMMA EndMakesWhole ==
    ASSUME NEW s, IsSequence(s), EndsWithExit(s)
    PROVE  EndsWhole(s \o <<Info("end")>>) /\ IsSequence(s \o <<Info("end")>>)
<1>1. PICK e, x : e = Info("end") /\ x = Info("exit")
  OBVIOUS
<1>2. PICK u : u = s \o <<e>>
  OBVIOUS
<1>3. PICK n : n = Len(s)
  OBVIOUS
<1>4. IsSequence(u) /\ Len(u) = n + 1 /\ u[n + 1] = e /\ \A i \in 1 .. n : u[i] = s[i]
  BY <1>2, <1>3, SentOne
<1>5. n \in Nat \ {0} /\ s[n] = x
  <2>1. PICK S : s \in Seq(S)
    BY DEF IsSequence
  <2>2. QED BY <1>1, <1>3, <2>1 DEF EndsWithExit
<1>6. u[n] = x
  BY <1>4, <1>5
<1>7. PICK S : u \in Seq(S)
  BY <1>4 DEF IsSequence
<1>8. PICK w : w = <<x, e>>
  OBVIOUS
<1>9. Len(w) = 2 /\ w[1] = x /\ w[2] = e
  BY <1>8
<1>10. PICK r, q : r = Reverse(w) /\ q = Reverse(u)
  OBVIOUS
<1>11. /\ DOMAIN r = 1 .. 2 /\ \A i \in 1 .. 2 : r[i] = w[2 - i + 1]
       /\ DOMAIN q = 1 .. n + 1 /\ \A i \in 1 .. n + 1 : q[i] = u[n + 1 - i + 1]
       /\ r \in [1 .. 2 -> {w[1], w[2]}] /\ q \in [1 .. n + 1 -> S]
  <2>1. r = [i \in 1 .. Len(w) |-> w[Len(w) - i + 1]]
    BY <1>10 DEF Reverse
  <2>2. q = [i \in 1 .. Len(u) |-> u[Len(u) - i + 1]]
    BY <1>10 DEF Reverse
  <2>3. DOMAIN r = 1 .. 2 /\ \A i \in 1 .. 2 : r[i] = w[2 - i + 1]
    BY <1>9, <2>1
  <2>4. r \in [1 .. 2 -> {w[1], w[2]}]
    BY <1>9, <2>1
  <2>5. DOMAIN q = 1 .. n + 1 /\ \A i \in 1 .. n + 1 : q[i] = u[n + 1 - i + 1]
    <3>1. Len(u) = n + 1
      BY <1>4
    <3>2. DOMAIN q = 1 .. Len(u) /\ \A i \in 1 .. Len(u) : q[i] = u[Len(u) - i + 1]
      BY <2>2
    <3>3. QED BY <1>5, <3>1, <3>2
  <2>6. \A i \in 1 .. Len(u) : u[Len(u) - i + 1] \in S
    BY <1>7
  <2>7. q \in [1 .. Len(u) -> S]
    BY <2>2, <2>6
  <2>8. QED BY <1>4, <2>3, <2>4, <2>5, <2>7
<1>12. /\ r \in Seq({x, e}) /\ Len(r) = 2 /\ r[1] = e /\ r[2] = x
       /\ q \in Seq(S) /\ Len(q) = n + 1 /\ q[1] = e /\ q[2] = x
  <2>1. /\ r \in Seq({x, e}) /\ Len(r) = 2 /\ r[1] = e /\ r[2] = x
    <3>1. r[1] = w[2] /\ r[2] = w[1]
      BY <1>11
    <3>2. r \in [1 .. 2 -> {x, e}]
      BY <1>9, <1>11
    <3>3. r \in Seq({x, e}) /\ Len(r) = 2
      <4>1. \A k \in Nat : \A T : \A f \in [1 .. k -> T] : f \in Seq(T) /\ Len(f) = k
        OBVIOUS
      <4>2. QED BY <3>2, <4>1
    <3>4. QED BY <1>9, <3>1, <3>3
  <2>2. q \in Seq(S) /\ Len(q) = n + 1
    BY <1>5, <1>11
  <2>3. q[1] = e /\ q[2] = x
    BY <1>4, <1>5, <1>6, <1>11
  <2>4. QED BY <2>1, <2>2, <2>3
<1>13. IsPrefix(r, q)
  BY <1>5, <1>12 DEF IsPrefix
<1>14. IsSuffix(w, u)
  BY <1>10, <1>13 DEF IsSuffix
<1>15. QED BY <1>1, <1>2, <1>4, <1>8, <1>14 DEF EndsWhole

LEMMA OneSent ==
    ASSUME NEW m, m.key # "end"
    PROVE  IsSequence(<<m>>) /\ HasNoEnd(<<m>>)
<1>1. PICK t : t = <<m>>
  OBVIOUS
<1>2. t \in Seq({m}) /\ DOMAIN t = {1} /\ t[1] = m
  BY <1>1
<1>3. IsSequence(t) /\ HasNoEnd(t)
  BY <1>2 DEF IsSequence, HasNoEnd
<1> QED BY <1>1, <1>3

LEMMA NoEndContained ==
    ASSUME NEW s, IsSequence(s), HasNoEnd(s)
    PROVE  ~Contains(s, Info("end"))
<1>1. DOMAIN s = 1 .. Len(s)
  BY SequenceShape
<1>2. QED BY <1>1 DEF Contains, HasNoEnd, Info

\* The set-up announces files and breakpoints only.
LEMMA SetUpAnnounces ==
    ASSUME Announces, SetUp
    PROVE  Announces'
<1>1. files' = files
  BY DEF SetUp, SendFiles, AddInternal, InternalAdded, AddFunction, AddFunctionAtEnd, FunctionsAdded
<1>2. ASSUME NEW id, announced' = Append(announced, [key |-> "breakpoint", id |-> id])
      PROVE  Announces'
  <2>1. PICK t : t = announced'
    OBVIOUS
  <2>2. PICK m : m = [key |-> "breakpoint", id |-> id] /\ IsAnnouncement(m)
    <3>1. PICK m : m = [key |-> "breakpoint", id |-> id]
      OBVIOUS
    <3>2. m.key = "breakpoint"
      BY <3>1
    <3>3. QED BY <3>1, <3>2 DEF IsAnnouncement
  <2>3. Appends(t, announced, m) /\ IsSequence(announced)
    BY <1>2, <2>1, <2>2 DEF Appends, Announces
  <2>4. /\ IsSequence(t) /\ DOMAIN t = 1 .. Len(announced) + 1
        /\ t[Len(announced) + 1] = m /\ \A i \in 1 .. Len(announced) : t[i] = announced[i]
    BY <2>3, IsSequenceAppend
  <2>5. DOMAIN announced = 1 .. Len(announced) /\ Len(announced) \in Nat
    BY <2>3, SequenceShape
  <2>6. \A i \in 1 .. Len(announced) + 1 : i \in 1 .. Len(announced) \/ i = Len(announced) + 1
    BY <2>5
  <2>7. \A i \in DOMAIN t : IsAnnouncement(t[i])
    BY <2>2, <2>4, <2>5, <2>6 DEF Announces
  <2>8. QED BY <1>1, <2>1, <2>4, <2>7 DEF Announces, IsAnnouncement
<1>3. ASSUME announced' = announced PROVE Announces'
  BY <1>1, <1>3 DEF Announces, IsAnnouncement
<1>4. CASE SendFiles
  <2>1. PICK n \in Nat : n = Len(files)
    BY SequenceShape DEF Announces
  <2>2. PICK t : t = announced' /\ t = [i \in 1 .. n |-> [key |-> "file", id |-> i - 1]]
    BY <1>4, <2>1 DEF SendFiles
  <2>3. PICK S : t \in Seq(S)
    <3>1. PICK S : S = {t[i] : i \in 1 .. n}
      OBVIOUS
    <3>2. t = [i \in 1 .. n |-> t[i]] /\ \A i \in 1 .. n : t[i] \in S
      BY <2>2, <3>1
    <3>3. t \in [1 .. n -> S]
      BY <2>2, <3>2
    <3>4. t \in Seq(S)
      BY <3>3
    <3>5. QED BY <3>4
  <2>4. \A i \in DOMAIN t : IsAnnouncement(t[i])
    BY <2>2 DEF IsAnnouncement
  <2>5. IsSequence(t)
    BY <2>3 DEF IsSequence
  <2>6. QED BY <1>1, <2>2, <2>4, <2>5 DEF Announces, IsAnnouncement
<1>5. CASE \E locs \in scenario.internal : AddInternal(locs)
  BY <1>2, <1>5 DEF AddInternal
<1>6. CASE InternalAdded \/ FunctionsAdded
  BY <1>3, <1>6 DEF InternalAdded, FunctionsAdded
<1>7. CASE \/ \E locs \in scenario.answers : AddFunction(locs)
           \/ \E locs, locs_end \in scenario.answers : AddFunctionAtEnd(locs, locs_end)
  <2>1. \/ announced' = announced
        \/ \E id : announced' = Append(announced, [key |-> "breakpoint", id |-> id])
    BY <1>7 DEF AddFunction, AddFunctionAtEnd, Settle
  <2>2. QED BY <1>2, <1>3, <2>1
<1>8. QED BY <1>4, <1>5, <1>6, <1>7 DEF SetUp

-----------------------------------------------------------------------------
(***************************************************************************)
(* The steps.                                                              *)
(***************************************************************************)
\* A finished recording stays as it is.
FinishedKept ==
    \A n \in DOMAIN recordings : recordings[n].by \in DOMAIN results =>
        n \in DOMAIN recordings' /\ recordings'[n] = recordings[n]

\* What neither sends nor begins nor ends a recording.
LEMMA QuietKeeps ==
    ASSUME WholeInv, UNCHANGED <<recordings, results, files, announced>>,
           \/ pc' = pc
           \/ ~Active /\ ~Active'
           \/ pc = "setup" /\ pc' = "running"
           \/ pc = "notify" /\ pc' = "join"
    PROVE  WholeInv' /\ FinishedKept
<1>1. Active' = Active
  BY DEF Active
<1>2. Books'
  BY <1>1 DEF WholeInv, Books, LastRecording
<1>3. Announces' /\ RecordingIsWhole'
  BY DEF WholeInv, Announces, IsAnnouncement, RecordingIsWhole, Info, Contains, IsSuffix, IsPrefix, Reverse
<1>4. Sending'
  BY DEF WholeInv, Sending, Active, LastRecording, HasNoEnd, EndsWithExit, EndsWhole, Info, IsSuffix, IsPrefix, Reverse
<1>5. QED BY <1>2, <1>3, <1>4 DEF WholeInv, FinishedKept

\* Something is sent: what is finished is as it was, and what is written is not finished.
LEMMA SentKeeps ==
    ASSUME WholeInv, Active, Active', NEW more, recordings' = Sent(more), results' = results,
           IsSequence(LastRecording.sent \o more), Announces',
           pc' \in {"read", "setup", "running", "end"} => HasNoEnd(LastRecording.sent \o more),
           pc' = "end" => EndsWithExit(LastRecording.sent \o more),
           pc' \in {"notify", "join"} => EndsWhole(LastRecording.sent \o more)
    PROVE  WholeInv' /\ FinishedKept
<1>1. Books /\ Sending /\ RecordingIsWhole
  BY DEF WholeInv
<1>2. PICK s : s = LastRecording.sent \o more
  OBVIOUS
<1>3. PICK m : m = Len(recordings)
  OBVIOUS
<1>4. /\ Books' /\ Len(recordings') = m /\ DOMAIN recordings' = DOMAIN recordings
      /\ m \in DOMAIN recordings /\ LastRecording'.sent = s
      /\ \A n \in DOMAIN recordings : n # m => recordings'[n] = recordings[n]
      /\ \A n \in DOMAIN recordings : recordings[n].by \in DOMAIN results => n # m
  BY <1>1, <1>2, <1>3, SentBooks
<1>5. LastRecording' = recordings'[m]
  BY <1>4 DEF LastRecording
<1>6. \A n \in DOMAIN recordings' : IsSequence(recordings'[n].sent)
  BY <1>1, <1>2, <1>4, <1>5 DEF Sending
<1>7. Sending'
  BY <1>2, <1>4, <1>6 DEF Sending, IsSequence, HasNoEnd, EndsWithExit, EndsWhole, Info, IsSuffix, IsPrefix, Reverse
<1>8. ASSUME NEW n \in DOMAIN recordings', recordings'[n].by \in DOMAIN results
      PROVE  n # m
  <2>1. LastRecording'.by = Len(results') + 1
    BY <1>4 DEF Books
  <2>2. Len(results) \in Nat /\ DOMAIN results = 1 .. Len(results)
    BY <1>1, SequenceShape DEF Books
  <2>3. QED BY <1>5, <1>8, <2>1, <2>2
<1>9. RecordingIsWhole'
  <2>1. ASSUME NEW n \in DOMAIN recordings', recordings'[n].by \in DOMAIN results
        PROVE  \/ EndsWhole(recordings'[n].sent)
               \/ /\ results[recordings'[n].by] \in {"panicked", "failed"}
                  /\ ~Contains(recordings'[n].sent, Info("end"))
    <3>1. recordings'[n] = recordings[n] /\ n \in DOMAIN recordings
      BY <1>4, <1>8, <2>1
    <3> QED BY <1>1, <2>1, <3>1 DEF RecordingIsWhole, EndsWhole
  <2> QED BY <2>1 DEF RecordingIsWhole, EndsWhole, Info, Contains, IsSuffix, IsPrefix, Reverse
<1>10. FinishedKept
  BY <1>4 DEF FinishedKept
<1>11. QED BY <1>4, <1>7, <1>9, <1>10 DEF WholeInv

LEMMA ConnectKeeps ==
    ASSUME WholeInv, Connect
    PROVE  WholeInv' /\ FinishedKept
<1>1. Books /\ Sending /\ RecordingIsWhole /\ Announces
  BY DEF WholeInv
<1>2. /\ Books' /\ LastRecording'.sent = <<>>
      /\ Len(recordings') = Len(recordings) + 1
      /\ DOMAIN recordings' = DOMAIN recordings \cup {Len(recordings) + 1}
      /\ \A n \in DOMAIN recordings : recordings'[n] = recordings[n]
  BY <1>1, ConnectBooks
<1>3. /\ pc = "connect" /\ pc' = "read" /\ results' = results
      /\ UNCHANGED <<files, announced>>
  BY DEF Connect, setupVars
<1>4. Announces'
  BY <1>1, <1>3 DEF Announces, IsAnnouncement
<1>5. LastRecording' = recordings'[Len(recordings) + 1]
  BY <1>2 DEF LastRecording
<1>6. Sending'
  <2>1. \A n \in DOMAIN recordings' : IsSequence(recordings'[n].sent)
    BY <1>1, <1>2, <1>5, NothingSent DEF Sending
  <2>2. HasNoEnd(LastRecording'.sent)
    BY <1>2, NothingSent
  <2>3. QED BY <1>3, <2>1, <2>2 DEF Sending, HasNoEnd, IsSequence
<1>7. ASSUME NEW n \in DOMAIN recordings', recordings'[n].by \in DOMAIN results
      PROVE  n \in DOMAIN recordings
  <2>1. LastRecording'.by = Len(results) + 1
    BY <1>2, <1>3 DEF Books, Active
  <2>2. Len(results) \in Nat /\ DOMAIN results = 1 .. Len(results)
    BY <1>1, SequenceShape DEF Books
  <2>3. QED BY <1>2, <1>5, <1>7, <2>1, <2>2
<1>8. RecordingIsWhole'
  BY <1>1, <1>2, <1>3, <1>7 DEF RecordingIsWhole, Info, Contains, IsSuffix, IsPrefix, Reverse
<1>9. FinishedKept
  BY <1>2 DEF FinishedKept
<1>10. QED BY <1>2, <1>4, <1>6, <1>8, <1>9 DEF WholeInv

\* A debugger ends: it has panicked or failed, or was refused, or its recording is whole.
LEMMA EndKeeps ==
    ASSUME WholeInv, NEW result, DebuggerEnds(result), recordings' = recordings,
           \/ pc = "connect"
           \/ pc \in {"read", "setup", "running", "end", "notify"} /\ result \in {"panicked", "failed"}
           \/ pc = "join"
    PROVE  WholeInv' /\ FinishedKept
<1>1. Books /\ Sending /\ RecordingIsWhole
  BY DEF WholeInv
<1>2. PICK k : k = Len(results) + 1
  OBVIOUS
<1>3. results' = Append(results, result) /\ pc' = "prompt" /\ files' = <<>> /\ announced' = <<>>
  BY DEF DebuggerEnds
<1>4. /\ Books'
      /\ \A n \in DOMAIN recordings : recordings[n].by \in DOMAIN results => recordings[n].by # k
      /\ results'[k] = result
      /\ \A i \in DOMAIN results : results'[i] = results[i]
      /\ DOMAIN results' = DOMAIN results \cup {k}
  BY <1>1, <1>2, <1>3, EndBooks
<1>5. Announces'
  BY <1>3, NothingSent DEF Announces
<1>6. Sending'
  BY <1>1, <1>3 DEF Sending, IsSequence
<1>7. ASSUME NEW n \in DOMAIN recordings, recordings[n].by \in DOMAIN results'
      PROVE  \/ EndsWhole(recordings[n].sent)
             \/ /\ results'[recordings[n].by] \in {"panicked", "failed"}
                /\ ~Contains(recordings[n].sent, Info("end"))
  <2>1. CASE recordings[n].by \in DOMAIN results
    BY <1>1, <1>4, <2>1 DEF RecordingIsWhole, EndsWhole
  <2>2. CASE recordings[n].by \notin DOMAIN results
    <3>1. recordings[n].by = k /\ Active /\ n = Len(recordings)
      BY <1>1, <1>4, <1>7, <2>2 DEF Books
    <3>2. recordings[n] = LastRecording
      BY <3>1 DEF LastRecording
    <3>3. CASE pc \in {"read", "setup", "running", "end"}
      <4>1. HasNoEnd(recordings[n].sent) /\ IsSequence(recordings[n].sent)
        BY <1>1, <3>1, <3>2, <3>3 DEF Sending
      <4>2. result \in {"panicked", "failed"}
        BY <3>3
      <4>3. QED BY <1>4, <3>1, <4>1, <4>2, NoEndContained
    <3>4. CASE pc \notin {"read", "setup", "running", "end"}
      <4>1. pc \in {"notify", "join"}
        BY <3>1, <3>4 DEF Active
      <4>2. QED BY <1>1, <3>2, <4>1 DEF Sending
    <3>5. QED BY <3>3, <3>4
  <2>3. QED BY <2>1, <2>2
<1>8. RecordingIsWhole'
  BY <1>7 DEF RecordingIsWhole, EndsWhole, Info, Contains, IsSuffix, IsPrefix, Reverse
<1>9. QED BY <1>4, <1>5, <1>6, <1>8 DEF WholeInv, FinishedKept

-----------------------------------------------------------------------------
(***************************************************************************)
(* Paths: sequences over a set of names and separators.                    *)
(***************************************************************************)
LEMMA PrefixIs ==
    ASSUME NEW T, NEW s \in Seq(T), NEW t \in Seq(T)
    PROVE  IsPrefix(s, t) <=> Len(s) <= Len(t) /\ \A i \in 1 .. Len(s) : s[i] = t[i]
<1>1. PICK m \in Nat : m = Len(s)
  OBVIOUS
<1>2. PICK n \in Nat : n = Len(t)
  OBVIOUS
<1>3. PICK u : u = SubSeq(s, 1, m)
  OBVIOUS
<1>4. PICK v : v = SubSeq(t, 1, m)
  OBVIOUS
<1>5. u = s
  BY <1>1, <1>3
<1>6. ASSUME m <= n
      PROVE  (u = v) <=> \A i \in 1 .. m : s[i] = t[i]
  <2>1. v \in Seq(T) /\ Len(v) = m /\ \A i \in 1 .. m : v[i] = t[i]
    BY <1>1, <1>2, <1>4, <1>6
  <2> QED BY <1>1, <1>5, <2>1
<1> QED BY <1>1, <1>2, <1>3, <1>4, <1>6 DEF IsPrefix

\* A path and what is put behind it.
IsJoin(u, s, t, m, k) ==
    /\ Len(u) = m + k
    /\ \A i \in 1 .. m : u[i] = s[i]
    /\ \A i \in 1 .. k : u[m + i] = t[i]

LEMMA JoinedPath ==
    ASSUME NEW T, NEW s \in Seq(T), NEW t \in Seq(T), NEW m, m = Len(s), NEW k, k = Len(t),
           NEW u, Joins(u, s, t)
    PROVE  u \in Seq(T) /\ IsJoin(u, s, t, m, k)
<1>1. IsSequence(s) /\ IsSequence(t)
  BY DEF IsSequence
<1>2. u \in Seq(T)
  BY DEF Joins
<1> QED BY <1>1, <1>2, IsSequenceConcat DEF IsJoin

LEMMA PrefixJoined ==
    ASSUME NEW T, NEW s \in Seq(T), NEW t \in Seq(T)
    PROVE  IsPrefix(s, s \o t)
<1>1. PICK u : u = s \o t
  OBVIOUS
<1>2. PICK m \in Nat : m = Len(s)
  OBVIOUS
<1>3. PICK k \in Nat : k = Len(t)
  OBVIOUS
<1>4. Joins(u, s, t)
  BY <1>1 DEF Joins
<1>5. u \in Seq(T) /\ IsJoin(u, s, t, m, k)
  BY <1>2, <1>3, <1>4, JoinedPath
<1>6. Len(s) <= Len(u) /\ \A i \in 1 .. Len(s) : s[i] = u[i]
  BY <1>2, <1>5 DEF IsJoin
<1>7. IsPrefix(s, u)
  BY <1>5, <1>6, PrefixIs
<1> QED BY <1>1, <1>7

LEMMA PrefixOver ==
    ASSUME NEW T, NEW s \in Seq(T), NEW t \in Seq(T), NEW u \in Seq(T), IsPrefix(s, t), IsPrefix(t, u)
    PROVE  IsPrefix(s, u)
<1>1. Len(s) \in Nat /\ Len(t) \in Nat /\ Len(u) \in Nat
  OBVIOUS
<1>2. Len(s) <= Len(t) /\ \A i \in 1 .. Len(s) : s[i] = t[i]
  BY PrefixIs
<1>3. Len(t) <= Len(u) /\ \A i \in 1 .. Len(t) : t[i] = u[i]
  BY PrefixIs
<1>4. \A i \in 1 .. Len(s) : i \in 1 .. Len(t)
  BY <1>1, <1>2
<1>5. Len(s) <= Len(u) /\ \A i \in 1 .. Len(s) : s[i] = u[i]
  BY <1>1, <1>2, <1>3, <1>4
<1> QED BY <1>5, PrefixIs

\* What is under a directory of a directory is under that one.
LEMMA UnderInner ==
    ASSUME NEW S, NEW dir \in Seq(S), NEW path \in Seq(S), NEW name, Under(path, dir \o <<"/", name>>)
    PROVE  Under(path, dir)
<1>1. PICK T : T = S \cup {"/", name}
  OBVIOUS
<1>2. dir \in Seq(T) /\ path \in Seq(T) /\ "/" \in T /\ name \in T
  BY <1>1
<1>3. PICK m \in Nat : m = Len(dir)
  BY <1>2
<1>4. PICK one : one = <<"/">>
  OBVIOUS
<1>5. one \in Seq(T) /\ Len(one) = 1 /\ one[1] = "/"
  BY <1>2, <1>4
<1>6. PICK two : two = <<"/", name>>
  OBVIOUS
<1>7. two \in Seq(T) /\ Len(two) = 2 /\ two[1] = "/"
  BY <1>2, <1>6
<1>8. PICK x : x = dir \o one /\ Joins(x, dir, one)
  BY DEF Joins
<1>9. x \in Seq(T) /\ IsJoin(x, dir, one, m, 1)
  BY <1>2, <1>3, <1>5, <1>8, JoinedPath
<1>10. PICK y : y = dir \o two /\ Joins(y, dir, two)
  BY DEF Joins
<1>11. y \in Seq(T) /\ IsJoin(y, dir, two, m, 2)
  BY <1>2, <1>3, <1>7, <1>10, JoinedPath
<1>12. IsPrefix(x, y)
  <2>1. Len(x) = m + 1 /\ Len(y) = m + 2
    BY <1>9, <1>11 DEF IsJoin
  <2>2. x[m + 1] = "/" /\ y[m + 1] = "/"
    BY <1>5, <1>7, <1>9, <1>11 DEF IsJoin
  <2>3. \A i \in 1 .. m : x[i] = y[i]
    BY <1>9, <1>11 DEF IsJoin
  <2>4. \A i \in 1 .. m + 1 : i \in 1 .. m \/ i = m + 1
    OBVIOUS
  <2>5. Len(x) <= Len(y) /\ \A i \in 1 .. Len(x) : x[i] = y[i]
    BY <2>1, <2>2, <2>3, <2>4
  <2> QED BY <1>9, <1>11, <2>5, PrefixIs
<1>13. PICK z : z = y \o one
  OBVIOUS
<1>14. z \in Seq(T) /\ IsPrefix(y, z)
  <2>1. z \in Seq(T)
    BY <1>5, <1>11, <1>13
  <2> QED BY <1>5, <1>11, <1>13, <2>1, PrefixJoined
<1>15. IsPrefix(z, path)
  BY <1>4, <1>6, <1>10, <1>13 DEF Under
<1>16. IsPrefix(x, path)
  <2>1. IsPrefix(y, path)
    BY <1>2, <1>11, <1>14, <1>15, PrefixOver
  <2> QED BY <1>2, <1>9, <1>11, <1>12, <2>1, PrefixOver
<1> QED BY <1>4, <1>8, <1>16 DEF Under

\* What is under a directory that is under the root is under the root.
LEMMA UnderOuter ==
    ASSUME NEW S, NEW dir \in Seq(S), NEW path \in Seq(S), NEW root \in Seq(S),
           Under(path, dir), Under(dir, root)
    PROVE  Under(path, root)
<1>1. PICK T : T = S \cup {"/"}
  OBVIOUS
<1>2. dir \in Seq(T) /\ path \in Seq(T) /\ root \in Seq(T) /\ "/" \in T
  BY <1>1
<1>3. PICK one : one = <<"/">>
  OBVIOUS
<1> one \in Seq(T)
  BY <1>2, <1>3
<1>4. /\ root \o one \in Seq(T) /\ dir \o one \in Seq(T)
      /\ IsPrefix(dir, dir \o one)
  BY <1>2, PrefixJoined
<1>5. IsPrefix(root \o one, dir) /\ IsPrefix(dir \o one, path)
  BY <1>3 DEF Under
<1>6. IsPrefix(root \o one, dir \o one)
  BY <1>2, <1>4, <1>5, PrefixOver
<1>7. IsPrefix(root \o one, path)
  BY <1>2, <1>4, <1>5, <1>6, PrefixOver
<1> QED BY <1>3, <1>7 DEF Under

LEMMA BehindHas ==
    ASSUME NEW T, NEW s \in Seq(T), NEW n \in Nat, NEW l \in Nat, Len(s) = n + l
    PROVE  /\ SubSeq(s, n + 1, n + l) \in Seq(T) /\ Len(SubSeq(s, n + 1, n + l)) = l
           /\ \A i \in 1 .. l : SubSeq(s, n + 1, n + l)[i] = s[n + i]
<1>1. PICK t : t = SubSeq(s, n + 1, n + l)
  OBVIOUS
<1>2. t \in Seq(T)
  BY <1>1
<1>3. Len(t) = l
  BY <1>1
<1>4. \A i \in 1 .. l : t[i] = s[n + i]
  BY <1>1
<1>5. QED BY <1>1, <1>2, <1>3, <1>4

\* What is behind the root is the same, with its separator or after it.
LEMMA BehindRoot ==
    ASSUME NEW S, NEW c, NEW d, NEW path \in Seq(S), NEW root \in Seq(S), IsPrefix(root \o <<d>>, path)
    PROVE  <<c>> \o SubSeq(path, Len(root) + 1, Len(path)) = <<c, d>> \o SubSeq(path, Len(root) + 2, Len(path))
<1>0. PICK T : T = S \cup {c, d}
  OBVIOUS
<1> path \in Seq(T) /\ root \in Seq(T) /\ c \in T /\ d \in T
  BY <1>0
<1>1. PICK dir : dir = root \o <<d>>
  OBVIOUS
<1>2. PICK n, m : n = Len(root) /\ m = Len(path)
  OBVIOUS
<1>3. n \in Nat /\ m \in Nat
  BY <1>2
<1>4. dir \in Seq(T) /\ Len(dir) = n + 1 /\ dir[n + 1] = d
  BY <1>1, <1>2
<1>5. Len(dir) <= m /\ SubSeq(dir, 1, Len(dir)) = SubSeq(path, 1, Len(dir))
  BY <1>1, <1>2 DEF IsPrefix
<1>6. path[n + 1] = d /\ n + 1 <= m
  <2>1. SubSeq(dir, 1, n + 1)[n + 1] = dir[n + 1] /\ SubSeq(path, 1, n + 1)[n + 1] = path[n + 1]
    BY <1>2, <1>3, <1>4, <1>5
  <2>2. QED BY <1>3, <1>4, <1>5, <2>1
<1>7. PICK l : l = m - n
  OBVIOUS
<1>8. l \in Nat /\ l >= 1 /\ m = n + l
  BY <1>3, <1>6, <1>7
<1>9. PICK a : a = SubSeq(path, n + 1, m)
  OBVIOUS
<1>10. a \in Seq(T) /\ Len(a) = l /\ \A i \in 1 .. l : a[i] = path[n + i]
  <2>1. Len(path) = n + l /\ m = n + l
    BY <1>2, <1>8
  <2>2. QED BY <1>3, <1>8, <1>9, <2>1, BehindHas
<1>11. PICK b : b = SubSeq(path, n + 2, m)
  OBVIOUS
<1>12. b \in Seq(T) /\ Len(b) = l - 1 /\ \A i \in 1 .. l - 1 : b[i] = path[n + 1 + i]
  <2>1. PICK N \in Nat : N = n + 1
    BY <1>3
  <2>2. PICK L \in Nat : L = l - 1
    BY <1>8
  <2>3. Len(path) = N + L /\ m = N + L /\ n + 2 = N + 1
    BY <1>2, <1>3, <1>8, <2>1, <2>2
  <2>4. b = SubSeq(path, N + 1, N + L)
    BY <1>11, <2>3
  <2>5. b \in Seq(T) /\ Len(b) = L /\ \A i \in 1 .. L : b[i] = path[N + i]
    BY <2>3, <2>4, BehindHas
  <2>6. QED BY <2>1, <2>2, <2>5
<1>13. PICK u : u = <<c>> \o a
  OBVIOUS
<1>14. u \in Seq(T) /\ Len(u) = l + 1 /\ u[1] = c /\ \A i \in 1 .. l : u[1 + i] = a[i]
  BY <1>8, <1>10, <1>13
<1>15. PICK v : v = <<c, d>> \o b
  OBVIOUS
<1>16. /\ v \in Seq(T) /\ Len(v) = l + 1 /\ v[1] = c /\ v[2] = d
       /\ \A i \in 1 .. l - 1 : v[2 + i] = b[i]
  BY <1>8, <1>12, <1>15
<1>17. ASSUME NEW i \in 1 .. l + 1 PROVE u[i] = v[i]
  <2>1. CASE i = 1
    BY <1>14, <1>16, <2>1
  <2>2. CASE i = 2
    <3>1. u[1 + 1] = a[1] /\ a[1] = path[n + 1]
      BY <1>8, <1>10, <1>14
    <3>2. QED BY <1>6, <1>16, <2>2, <3>1
  <2>3. CASE i > 2
    <3>1. PICK k : k = i - 2
      OBVIOUS
    <3>2. /\ k \in 1 .. l - 1 /\ k + 1 \in 1 .. l
          /\ 1 + (k + 1) = i /\ 2 + k = i /\ n + (k + 1) = n + 1 + k
      BY <1>3, <1>8, <2>3, <3>1
    <3>3. u[1 + (k + 1)] = a[k + 1] /\ a[k + 1] = path[n + (k + 1)]
      BY <1>10, <1>14, <3>2
    <3>4. v[2 + k] = b[k] /\ b[k] = path[n + 1 + k]
      BY <1>12, <1>16, <3>2
    <3>5. QED BY <3>2, <3>3, <3>4
  <2>4. i = 1 \/ i = 2 \/ i > 2
    BY <1>8
  <2>5. QED BY <2>1, <2>2, <2>3, <2>4
<1>18. u = v
  BY <1>14, <1>16, <1>17
<1>19. QED BY <1>2, <1>9, <1>11, <1>13, <1>15, <1>18

\* What is behind the root, put behind it again.
LEMMA BehindAgain ==
    ASSUME NEW S, NEW dir \in Seq(S), NEW root \in Seq(S), Under(dir, root)
    PROVE  root \o <<"/">> \o Behind(dir, root) = dir /\ IsSequence(Behind(dir, root))
<1>1. PICK T : T = S \cup {"/"}
  OBVIOUS
<1>2. dir \in Seq(T) /\ root \in Seq(T) /\ "/" \in T
  BY <1>1
<1>3. PICK one : one = <<"/">>
  OBVIOUS
<1> one \in Seq(T) /\ Len(one) = 1
  BY <1>2, <1>3
<1>4. PICK m \in Nat : m = Len(root)
  BY <1>2
<1>5. PICK r : r = root \o one /\ Joins(r, root, one)
  BY DEF Joins
<1>6. r \in Seq(T) /\ Len(r) = m + 1
  <2>1. Len(one) = 1
    OBVIOUS
  <2>2. r \in Seq(T) /\ IsJoin(r, root, one, m, 1)
    BY <1>2, <1>4, <1>5, <2>1, JoinedPath
  <2> QED BY <2>2 DEF IsJoin
<1>7. m + 1 <= Len(dir) /\ \A i \in 1 .. m + 1 : r[i] = dir[i]
  <2>1. IsPrefix(r, dir)
    BY <1>3, <1>5 DEF Under
  <2> QED BY <1>2, <1>6, <2>1, PrefixIs
<1>8. PICK l : l = Len(dir) - (m + 1)
  OBVIOUS
<1>9. PICK n : n = m + 1
  OBVIOUS
<1>10. n \in Nat /\ l \in Nat /\ Len(dir) = n + l /\ m + 2 = n + 1
  BY <1>2, <1>7, <1>8, <1>9
<1>11. PICK b : b = SubSeq(dir, n + 1, n + l)
  OBVIOUS
<1>12. b \in Seq(T) /\ Len(b) = l /\ \A i \in 1 .. l : b[i] = dir[n + i]
  <2>1. /\ SubSeq(dir, n + 1, n + l) \in Seq(T) /\ Len(SubSeq(dir, n + 1, n + l)) = l
        /\ \A i \in 1 .. l : SubSeq(dir, n + 1, n + l)[i] = dir[n + i]
    BY <1>2, <1>10, BehindHas
  <2> QED BY <1>11, <2>1, Zenon
<1>13. b = Behind(dir, root)
  BY <1>4, <1>10, <1>11 DEF Behind
<1>14. PICK u : u = r \o b /\ Joins(u, r, b)
  BY DEF Joins
<1>15. /\ u \in Seq(T) /\ Len(u) = n + l
       /\ \A i \in 1 .. n : u[i] = r[i]
       /\ \A i \in 1 .. l : u[n + i] = b[i]
  <2>1. n = Len(r) /\ l = Len(b)
    BY <1>6, <1>9, <1>12
  <2>2. u \in Seq(T) /\ IsJoin(u, r, b, n, l)
    BY <1>6, <1>12, <1>14, <2>1, JoinedPath
  <2> QED BY <2>2 DEF IsJoin
<1>16. ASSUME NEW i \in 1 .. n + l PROVE u[i] = dir[i]
  <2>1. CASE i <= n
    <3>1. i \in 1 .. n /\ i \in 1 .. m + 1
      BY <1>9, <1>10, <2>1
    <3>2. u[i] = r[i]
      BY <1>15, <3>1
    <3>3. r[i] = dir[i]
      BY <1>7, <3>1
    <3> QED BY <3>2, <3>3
  <2>2. CASE i > n
    <3>1. PICK k : k = i - n
      OBVIOUS
    <3>2. k \in 1 .. l /\ n + k = i
      BY <1>10, <2>2, <3>1
    <3> QED BY <1>12, <1>15, <3>2
  <2> QED BY <1>10, <2>1, <2>2
<1>17. u = dir
  BY <1>2, <1>10, <1>15, <1>16
<1>18. IsSequence(b)
  BY <1>12 DEF IsSequence
<1> QED BY <1>3, <1>5, <1>13, <1>14, <1>17, <1>18

\* An argument says what it was made of.
LEMMA ArgumentRead ==
    ASSUME NEW S, NEW path \in Seq(S), NEW trace
    PROVE  parse_package_cfg(path \o <<"/", trace>>) = [package |-> path, trace |-> trace]
<1>1. PICK T : T = S \cup {"/", trace}
  OBVIOUS
<1>2. path \in Seq(T) /\ "/" \in T /\ trace \in T
  BY <1>1
<1>3. PICK end : end = <<"/", trace>>
  OBVIOUS
<1>4. end \in Seq(T) /\ Len(end) = 2 /\ end[2] = trace
  BY <1>2, <1>3
<1>5. PICK n \in Nat : n = Len(path)
  BY <1>2
<1>6. PICK src : src = path \o end /\ Joins(src, path, end)
  BY DEF Joins
<1>7. /\ src \in Seq(T) /\ Len(src) = n + 2 /\ src[n + 2] = trace
      /\ \A i \in 1 .. n : src[i] = path[i]
  <2>1. src \in Seq(T) /\ IsJoin(src, path, end, n, 2)
    BY <1>2, <1>4, <1>5, <1>6, JoinedPath
  <2>2. src[n + 2] = end[2]
    BY <2>1 DEF IsJoin
  <2> QED BY <1>4, <2>1, <2>2 DEF IsJoin
<1>8. PICK p : p = SubSeq(src, 1, n)
  OBVIOUS
<1>9. p \in Seq(T) /\ Len(p) = n /\ \A i \in 1 .. n : p[i] = src[i]
  BY <1>5, <1>7, <1>8
<1>10. p = path
  BY <1>2, <1>5, <1>7, <1>9
<1>11. Len(src) - 2 = n
  BY <1>5, <1>7
<1>12. parse_package_cfg(src) = [package |-> p, trace |-> trace]
  BY <1>7, <1>8, <1>11 DEF parse_package_cfg
<1> QED BY <1>3, <1>6, <1>10, <1>12

GlobUpTo(f, paths, dir) ==
    f = [n \in 0 .. Len(paths) |->
            IF n = 0 THEN <<>>
            ELSE IF Under(paths[n], dir) THEN Append(f[n - 1], paths[n]) ELSE f[n - 1]]

\* The directory of a package, and what an argument says of it.
PackageDir(root, package) == IF package = <<".">> THEN root ELSE root \o <<"/">> \o package
PackagePath(root, dir)    == IF dir # root THEN Behind(dir, root) ELSE <<".">>

\* The files of a directory are those that are under it.
LEMMA GlobHas ==
    ASSUME NEW paths, IsSequence(paths), NEW root, NEW package, NEW src_dir
    PROVE  /\ IsSequence(Glob(paths, root, package, src_dir))
           /\ Range(Glob(paths, root, package, src_dir)) =
                {path \in Range(paths) : Under(path, PackageDir(root, package) \o <<"/", src_dir>>)}
<1>0. PICK dir : dir = PackageDir(root, package) \o <<"/", src_dir>>
  OBVIOUS
<1>1. PICK n \in Nat : n = Len(paths) /\ DOMAIN paths = 1 .. n
  BY SequenceShape
<1>2. PICK places : places = {k \in DOMAIN paths : Under(paths[k], dir)}
  OBVIOUS
<1>3. ASSUME NEW f PROVE GlobUpTo(f, paths, dir) <=> UpTo(f, paths, places, n)
  <2>1. \A i \in 0 .. n : i # 0 => i \in DOMAIN paths
    BY <1>1
  <2>2. \A i \in 0 .. n : i # 0 => (i \in places <=> Under(paths[i], dir))
    BY <1>2, <2>1
  <2>3. \A i \in 0 .. n :
            (IF i = 0 THEN <<>> ELSE IF Under(paths[i], dir) THEN Append(f[i - 1], paths[i]) ELSE f[i - 1])
            = (IF i = 0 THEN <<>> ELSE KeptNext(f[i - 1], paths, places, i))
    BY <2>2 DEF KeptNext
  <2> QED BY <1>1, <2>3 DEF GlobUpTo, UpTo
<1>4. PICK f : f = CHOOSE h : GlobUpTo(h, paths, dir)
  OBVIOUS
<1>5. UpTo(f, paths, places, n)
  <2>1. \E g : GlobUpTo(g, paths, dir)
    BY <1>1, <1>3, KeptExists
  <2>2. GlobUpTo(f, paths, dir)
    BY <1>4, <2>1
  <2> QED BY <1>3, <2>2
<1>6. Glob(paths, root, package, src_dir) = f[n]
  BY <1>0, <1>1, <1>4 DEF Glob, Those, GlobUpTo, PackageDir
<1>7. IsSequence(f[n]) /\ Range(f[n]) = {paths[m] : m \in places}
  BY <1>1, <1>2, <1>5, KeptAre
<1>8. {paths[m] : m \in places} = {path \in Range(paths) : Under(path, dir)}
  BY <1>2 DEF Range
<1> QED BY <1>0, <1>6, <1>7, <1>8

-----------------------------------------------------------------------------
(***************************************************************************)
(* The workspace: its packages and their targets, and the sources that are *)
(* under the directories of those that are traced.                         *)
(***************************************************************************)
\* The packages of the workspace are a list, and their targets are lists.
LocalUpTo(f, raw) ==
    f = [n \in 0 .. Len(raw.packages) |->
            IF n = 0 THEN <<>>
            ELSE IF raw.packages[n].scheme = "path+file" /\ IsPrefix(raw.root, raw.packages[n].dir)
                 THEN Append(f[n - 1], raw.packages[n]) ELSE f[n - 1]]

OfKindUpTo(f, targets, kind) ==
    f = [n \in 0 .. Len(targets) |->
            IF n = 0 THEN <<>>
            ELSE IF kind \in targets[n].kind THEN Append(f[n - 1], targets[n]) ELSE f[n - 1]]

LEMMA TargetsAreListed ==
    ASSUME NEW raw, IsSequence(raw.targets), NEW kind
    PROVE  IsSequence(TargetsOf(raw, kind))
<1>0. PICK targets : targets = raw.targets
  OBVIOUS
<1>1. PICK n \in Nat : n = Len(targets) /\ DOMAIN targets = 1 .. n
  BY <1>0, SequenceShape
<1>2. PICK places : places = {k \in DOMAIN targets : kind \in targets[k].kind}
  OBVIOUS
<1>3. ASSUME NEW f PROVE OfKindUpTo(f, targets, kind) <=> UpTo(f, targets, places, n)
  <2>1. \A i \in 0 .. n : i # 0 => i \in DOMAIN targets
    BY <1>1
  <2>2. \A i \in 0 .. n : i # 0 => (i \in places <=> kind \in targets[i].kind)
    BY <1>2, <2>1
  <2>3. \A i \in 0 .. n :
            (IF i = 0 THEN <<>> ELSE IF kind \in targets[i].kind THEN Append(f[i - 1], targets[i]) ELSE f[i - 1])
            = (IF i = 0 THEN <<>> ELSE KeptNext(f[i - 1], targets, places, i))
    BY <2>2 DEF KeptNext
  <2> QED BY <1>1, <2>3 DEF OfKindUpTo, UpTo
<1>4. PICK f : f = CHOOSE h : OfKindUpTo(h, targets, kind)
  OBVIOUS
<1>5. UpTo(f, targets, places, n)
  <2>1. \E g : OfKindUpTo(g, targets, kind)
    BY <1>1, <1>3, KeptExists
  <2>2. OfKindUpTo(f, targets, kind)
    BY <1>4, <2>1
  <2> QED BY <1>3, <2>2
<1>6. IsSequence(f[n])
  BY <1>0, <1>1, <1>2, <1>5, KeptAre
<1>7. TargetsOf(raw, kind) = [k \in DOMAIN f[n] |-> f[n][k].name]
  BY <1>0, <1>1, <1>4 DEF TargetsOf, Those, OfKindUpTo
<1>8. PICK t : t = TargetsOf(raw, kind) /\ DOMAIN t = DOMAIN f[n] /\ t = [k \in DOMAIN t |-> t[k]]
  BY <1>7
<1> QED BY <1>6, <1>8, Relisted

PackageOf(raw) ==
    [name     |-> raw.name,
     root_dir |-> raw.dir,
     bin      |-> TargetsOf(raw, "bin"),
     test     |-> TargetsOf(raw, "test"),
     example  |-> TargetsOf(raw, "example"),
     has_lib  |-> TargetsOf(raw, "lib") # <<>>]

LEMMA WorkspaceIs ==
    ASSUME NEW s \in Scenarios, NEW w, w = parse_workspace(s.raw)
    PROVE  /\ w.root_dir = s.raw.root /\ IsSequence(w.packages)
           /\ \A p \in Range(w.packages) : IsSequence(p.bin) /\ IsSequence(p.test) /\ IsSequence(p.example)
<1>0. PICK raw : raw = s.raw
  OBVIOUS
<1>1. IsSequence(raw.packages) /\ \A p \in Range(raw.packages) : IsSequence(p.targets)
  BY <1>0, WorkspacesAssumption DEF IsSequence
<1>2. PICK packages : packages = raw.packages
  OBVIOUS
<1>3. PICK n \in Nat : n = Len(packages) /\ DOMAIN packages = 1 .. n
  BY <1>1, <1>2, SequenceShape
<1>4. PICK places : places = {k \in DOMAIN packages :
                                packages[k].scheme = "path+file" /\ IsPrefix(raw.root, packages[k].dir)}
  OBVIOUS
<1>5. ASSUME NEW f PROVE LocalUpTo(f, raw) <=> UpTo(f, packages, places, n)
  <2>1. \A i \in 0 .. n : i # 0 => i \in DOMAIN packages
    BY <1>3
  <2>2. \A i \in 0 .. n : i # 0 => (i \in places <=>
            packages[i].scheme = "path+file" /\ IsPrefix(raw.root, packages[i].dir))
    BY <1>4, <2>1
  <2>3. \A i \in 0 .. n :
            (IF i = 0 THEN <<>>
             ELSE IF packages[i].scheme = "path+file" /\ IsPrefix(raw.root, packages[i].dir)
                  THEN Append(f[i - 1], packages[i]) ELSE f[i - 1])
            = (IF i = 0 THEN <<>> ELSE KeptNext(f[i - 1], packages, places, i))
    BY <2>2 DEF KeptNext
  <2> QED BY <1>2, <1>3, <2>3 DEF LocalUpTo, UpTo
<1>6. PICK f : f = CHOOSE h : LocalUpTo(h, raw)
  OBVIOUS
<1>7. UpTo(f, packages, places, n)
  <2>1. \E g : LocalUpTo(g, raw)
    BY <1>3, <1>5, KeptExists
  <2>2. LocalUpTo(f, raw)
    BY <1>6, <2>1
  <2> QED BY <1>5, <2>2
<1>8. IsSequence(f[n]) /\ Range(f[n]) = {packages[m] : m \in places}
  <2>1. IsSequence(packages) /\ places \in SUBSET (DOMAIN packages) /\ UpTo(f, packages, places, Len(packages))
    BY <1>1, <1>2, <1>3, <1>4, <1>7
  <2> QED BY <1>3, <2>1, KeptAre
<1>9. PICK local : local = LocalPackages(raw)
  OBVIOUS
<1>10. local = f[n]
  BY <1>2, <1>3, <1>6, <1>9 DEF LocalPackages, Those, LocalUpTo
<1>11. w = [root_dir |-> raw.root, packages |-> [k \in DOMAIN local |-> PackageOf(local[k])]]
  BY <1>0, <1>9 DEF parse_workspace, PackageOf
<1>12. PICK t : t = w.packages /\ DOMAIN t = DOMAIN local /\ t = [k \in DOMAIN t |-> t[k]]
  BY <1>11
<1>13. IsSequence(t)
  BY <1>8, <1>12, <1>10, Relisted
<1>14. ASSUME NEW p \in Range(t) PROVE IsSequence(p.bin) /\ IsSequence(p.test) /\ IsSequence(p.example)
  <2>1. PICK k \in DOMAIN local : p = PackageOf(local[k])
    BY <1>11, <1>12 DEF Range
  <2>2. PICK m \in places : local[k] = packages[m]
    BY <1>8, <1>10 DEF Range
  <2>3. IsSequence(local[k].targets)
    BY <1>1, <1>2, <1>4, <2>2 DEF Range
  <2> QED BY <2>1, <2>3, TargetsAreListed DEF PackageOf
<1> QED BY <1>0, <1>11, <1>12, <1>13, <1>14
LEMMA PackagesAre ==
    ASSUME NEW s \in Scenarios, NEW w, w = parse_workspace(s.raw)
    PROVE  /\ s.raw.root \in Seq(STRING) /\ None \notin Range(w.packages)
           /\ \A p \in Range(w.packages) :
                  /\ p.name \in Nat /\ p.root_dir \in Seq(STRING)
                  /\ \/ p.root_dir = s.raw.root
                     \/ Under(p.root_dir, s.raw.root) /\ Behind(p.root_dir, s.raw.root) # <<".">>
                  /\ \A q \in Range(w.packages) : p.name = q.name => p = q
  BY WorkspacesAssumption

LEMMA FoundByName ==
    ASSUME NEW w, IsSequence(w.packages), NEW p \in Range(w.packages),
           \A q \in Range(w.packages) : p.name = q.name => p = q
    PROVE  find_package(w, p.name) = p
<1>1. PICK packages : packages = w.packages
  OBVIOUS
<1>2. PICK n \in Nat : n = Len(packages) /\ DOMAIN packages = 1 .. n
  BY <1>1, SequenceShape
<1>3. PICK I : I = {i \in 1 .. n : packages[i].name = p.name}
  OBVIOUS
<1>4. PICK k \in 1 .. n : packages[k] = p
  BY <1>1, <1>2 DEF Range
<1>5. I # {} /\ Min(I) \in I
  BY <1>3, <1>4, LeastPlace
<1>6. packages[Min(I)] = p
  BY <1>1, <1>2, <1>3, <1>5 DEF Range
<1>7. Min(I) # 0
  BY <1>3, <1>5
<1>8. find_package(w, p.name) = packages[Min(I)]
  BY <1>1, <1>2, <1>3, <1>5, <1>7 DEF find_package, FirstOf, SelectInSeq
<1> QED BY <1>6, <1>8

\* What an argument says of a package leads to its directory.
LEMMA ArgumentDirs ==
    ASSUME NEW root \in Seq(STRING), NEW dir \in Seq(STRING),
           dir = root \/ (Under(dir, root) /\ Behind(dir, root) # <<".">>), NEW trace,
           NEW path, path = PackagePath(root, dir)
    PROVE  /\ parse_package_cfg(path \o <<"/", trace>>) = [package |-> path, trace |-> trace]
           /\ PackageDir(root, path) = dir
<1>1. CASE dir = root
  <2>1. PICK x : path = <<x>>
    BY <1>1 DEF PackagePath
  <2>2. path \in Seq({x})
    <3>1. \A y : <<y>> \in Seq({y})
      OBVIOUS
    <3> QED BY <2>1, <3>1, Zenon
  <2>3. PackageDir(root, path) = dir
    BY <1>1 DEF PackagePath, PackageDir
  <2> QED BY <2>2, <2>3, ArgumentRead
<1>2. CASE dir # root
  <2>1. path = Behind(dir, root) /\ path # <<".">> /\ IsSequence(path) /\ root \o <<"/">> \o path = dir
    BY <1>2, BehindAgain DEF PackagePath
  <2>2. PICK S : path \in Seq(S)
    BY <2>1 DEF IsSequence
  <2>3. PackageDir(root, path) = dir
    BY <2>1 DEF PackageDir
  <2> QED BY <2>2, <2>3, ArgumentRead
<1> QED BY <1>1, <1>2

GlobsIn(paths, dirs, root, package) == [d \in DOMAIN dirs |-> Glob(paths, root, package, dirs[d])]

\* The list has the paths that are under some of these directories of a package.
HasThoseUnder(list, paths, dir, dirs) ==
    /\ IsSequence(list)
    /\ \A path : path \in Range(list) <=>
            path \in Range(paths) /\ \E d \in Range(dirs) : Under(path, dir \o <<"/", d>>)

LEMMA Globbed ==
    ASSUME NEW paths, IsSequence(paths), NEW dirs, IsSequence(dirs), NEW root, NEW package,
           NEW dir, dir = PackageDir(root, package),
           NEW list, list = FlattenSeq(GlobsIn(paths, dirs, root, package))
    PROVE  HasThoseUnder(list, paths, dir, dirs)
<1>0. PICK globs : globs = GlobsIn(paths, dirs, root, package)
  OBVIOUS
<1>1. globs = [d \in DOMAIN dirs |-> Glob(paths, root, package, dirs[d])]
  BY <1>0 DEF GlobsIn
<1>2. DOMAIN globs = DOMAIN dirs /\ globs = [d \in DOMAIN globs |-> globs[d]]
  BY <1>1
<1>3. IsSequence(globs)
  BY <1>2, Relisted
<1>4. ASSUME NEW d \in DOMAIN globs
      PROVE  /\ IsSequence(globs[d])
             /\ Range(globs[d]) = {path \in Range(paths) : Under(path, dir \o <<"/", dirs[d]>>)}
  <2>1. globs[d] = Glob(paths, root, package, dirs[d])
    BY <1>1
  <2> QED BY <2>1, GlobHas
<1>5. Holds(list, globs, Len(globs))
  BY <1>0, <1>3, <1>4, Flattened
<1>6. ASSUME NEW path
      PROVE  path \in Range(list) <=>
                path \in Range(paths) /\ \E d \in Range(dirs) : Under(path, dir \o <<"/", d>>)
  <2>1. path \in Range(list) <=> \E d \in DOMAIN dirs : path \in Range(globs[d])
    BY <1>2, <1>3, <1>5, Holding
  <2>2. \A d \in DOMAIN dirs :
            path \in Range(globs[d]) <=> path \in Range(paths) /\ Under(path, dir \o <<"/", dirs[d]>>)
    BY <1>2, <1>4
  <2> QED BY <2>1, <2>2 DEF Range
<1> QED BY <1>5, <1>6 DEF Holds, HasThoseUnder

TracesIn(s, w, selected) == parse_trace_config(s.config, w, selected.package)

\* The sources of a target: what is under the directories of the packages that are traced.
ReadsTraced(s, w, selected, paths) ==
    /\ IsSequence(paths)
    /\ \A path : path \in Range(paths) <=>
            /\ path \in Range(PathsIn(s))
            /\ \E p \in Range(w.packages), d \in Range(SrcDirs(selected.sort)) :
                    /\ TracesIn(s, w, selected)[p.name] \in {"full", "call-only"}
                    /\ Under(path, p.root_dir \o <<"/", d>>)

LEMMA SourcesAre ==
    ASSUME NEW s \in Scenarios, NEW w, w = parse_workspace(s.raw), NEW selected,
           NEW paths, paths = SourceFiles(s, Arguments(s, w, selected), selected.sort),
           IsSequence(SrcDirs(selected.sort))
    PROVE  ReadsTraced(s, w, selected, paths)
<1>1. PICK root : root = s.raw.root
  OBVIOUS
<1>2. PICK P : P = Range(w.packages)
  OBVIOUS
<1>3. /\ w.root_dir = root /\ IsSequence(w.packages)
      /\ \A p \in P : find_package(w, p.name) = p
  BY <1>1, <1>2, WorkspaceIs, PackagesAre, FoundByName
<1>4. /\ root \in Seq(STRING)
      /\ \A p \in P : /\ p.name \in Nat /\ p.root_dir \in Seq(STRING)
                      /\ \/ p.root_dir = root
                         \/ Under(p.root_dir, root) /\ Behind(p.root_dir, root) # <<".">>
  BY <1>1, <1>2, PackagesAre
<1>5. PICK trace : trace = TracesIn(s, w, selected)
  OBVIOUS
<1>6. PICK N : N = DOMAIN trace /\ N = {p.name : p \in P}
  BY <1>2, <1>5 DEF TracesIn, parse_trace_config
<1>7. N \in SUBSET Nat /\ IsFiniteSet(N)
  <2>1. PICK n \in Nat : n = Len(w.packages) /\ DOMAIN w.packages = 1 .. n
    BY <1>3, SequenceShape
  <2>2. PICK f : f = [k \in 1 .. n |-> w.packages[k].name]
    OBVIOUS
  <2>3. f \in [1 .. n -> N]
    BY <1>2, <1>6, <2>1, <2>2 DEF Range
  <2>4. f \in Surjection(1 .. n, N)
    <3>1. ASSUME NEW x \in N PROVE \E k \in 1 .. n : f[k] = x
      <4>1. PICK k \in 1 .. n : x = w.packages[k].name
        BY <1>2, <1>6, <2>1 DEF Range
      <4> QED BY <2>2, <4>1
    <3> QED BY <2>3, <3>1 DEF Surjection
  <2>5. IsFiniteSet(1 .. n)
    BY <2>1, FS_Interval
  <2>6. IsFiniteSet(N)
    BY <2>4, <2>5, FS_Surjection
  <2> QED BY <1>4, <1>6, <2>6
<1>8. PICK names : names = Ascending(N)
  OBVIOUS
<1>9. /\ IsSequence(names)
      /\ \A k \in DOMAIN names : names[k] \in N
      /\ \A x \in N : \E k \in DOMAIN names : names[k] = x
  <2>1. Enumerates(names, N)
    BY <1>8 DEF Ascending, Enumerates
  <2> QED BY <1>7, <2>1, ItemsEnumerated DEF IsSequence
<1>10. PICK arguments : arguments = Arguments(s, w, selected)
  BY Zenon
<1>11. arguments = [k \in DOMAIN names |->
            PackagePath(root, find_package(w, names[k]).root_dir) \o <<"/", trace[names[k]]>>]
  BY <1>3, <1>5, <1>6, <1>8, <1>10, ZenonT(40) DEF Arguments, PackageArguments, TracesIn, PackagePath
<1>12. PICK dirs, all : /\ dirs = SrcDirs(selected.sort) /\ all = PathsIn(s)
                         /\ IsSequence(dirs) /\ IsSequence(all)
  <2>1. IsSequence(s.files)
    BY ScenariosAssumption DEF IsSequence
  <2>2. DOMAIN PathsIn(s) = DOMAIN s.files /\ PathsIn(s) = [k \in DOMAIN PathsIn(s) |-> PathsIn(s)[k]]
    BY DEF PathsIn
  <2>3. IsSequence(PathsIn(s))
    BY <2>1, <2>2, Relisted
  <2> QED BY <2>3
<1>13. PICK lists : lists =
            [k \in DOMAIN arguments |->
                IF parse_package_cfg(arguments[k]).trace \in {"full", "call-only"}
                THEN FlattenSeq(GlobsIn(all, dirs, root, parse_package_cfg(arguments[k]).package))
                ELSE <<>>]
  OBVIOUS
<1>14. paths = FlattenSeq(lists)
  BY <1>1, <1>10, <1>12, <1>13 DEF SourceFiles, src_files, GlobsIn
<1>15. ASSUME NEW k \in DOMAIN names, NEW p \in P, p.name = names[k]
       PROVE  /\ IsSequence(lists[k])
              /\ \A path : path \in Range(lists[k]) <=>
                    /\ trace[p.name] \in {"full", "call-only"}
                    /\ path \in Range(all) /\ \E d \in Range(dirs) : Under(path, p.root_dir \o <<"/", d>>)
  <2>1. PICK package : package = PackagePath(root, p.root_dir)
    OBVIOUS
  <2>2. arguments[k] = package \o <<"/", trace[p.name]>> /\ k \in DOMAIN arguments
    BY <1>3, <1>11, <1>15, <2>1
  <2>3. /\ parse_package_cfg(arguments[k]) = [package |-> package, trace |-> trace[p.name]]
        /\ PackageDir(root, package) = p.root_dir
    <3>1. PICK dir \in Seq(STRING) :
              /\ dir = p.root_dir
              /\ dir = root \/ (Under(dir, root) /\ Behind(dir, root) # <<".">>)
      BY <1>4
    <3>2. PICK mode : mode = trace[p.name]
      OBVIOUS
    <3>3. root \in Seq(STRING) /\ package = PackagePath(root, dir) /\ arguments[k] = package \o <<"/", mode>>
      BY <1>4, <2>1, <2>2, <3>1, <3>2
    <3>4. /\ parse_package_cfg(package \o <<"/", mode>>) = [package |-> package, trace |-> mode]
          /\ PackageDir(root, package) = dir
      BY <3>1, <3>3, ArgumentDirs
    <3> QED BY <3>1, <3>2, <3>3, <3>4
  <2>4. /\ parse_package_cfg(arguments[k]).package = package
        /\ parse_package_cfg(arguments[k]).trace = trace[p.name]
    BY <2>3
  <2>5. CASE trace[p.name] \notin {"full", "call-only"}
    <3>1. lists[k] = <<>>
      BY <1>13, <2>2, <2>4, <2>5
    <3>2. IsSequence(<<>>) /\ Range(<<>>) = {}
      BY NothingListed DEF Range
    <3> QED BY <2>5, <3>1, <3>2
  <2>6. CASE trace[p.name] \in {"full", "call-only"}
    <3>1. PICK list : list = FlattenSeq(GlobsIn(all, dirs, root, package))
      OBVIOUS
    <3>2. lists[k] = list
      BY <1>13, <2>2, <2>4, <2>6, <3>1
    <3>3. PICK dir : dir = PackageDir(root, package) /\ dir = p.root_dir
      BY <2>3
    <3>4. IsSequence(all) /\ IsSequence(dirs)
      BY <1>12
    <3>5. HasThoseUnder(list, all, dir, dirs)
      BY <3>1, <3>3, <3>4, Globbed
    <3> QED BY <2>6, <3>2, <3>3, <3>5 DEF HasThoseUnder
  <2> QED BY <2>5, <2>6
<1>16. \A k \in DOMAIN names : \E p \in P : p.name = names[k]
  BY <1>6, <1>9
<1>17. DOMAIN lists = DOMAIN names /\ lists = [k \in DOMAIN lists |-> lists[k]]
  BY <1>11, <1>13
<1>18. IsSequence(lists)
  BY <1>9, <1>17, Relisted
<1>19. Holds(paths, lists, Len(lists))
  BY <1>14, <1>15, <1>16, <1>17, <1>18, Flattened
<1>20. ASSUME NEW path
       PROVE  path \in Range(paths) <=>
                /\ path \in Range(all)
                /\ \E p \in P, d \in Range(dirs) :
                      trace[p.name] \in {"full", "call-only"} /\ Under(path, p.root_dir \o <<"/", d>>)
  <2>1. path \in Range(paths) <=> \E k \in DOMAIN names : path \in Range(lists[k])
    BY <1>17, <1>18, <1>19, Holding
  <2>2. ASSUME NEW k \in DOMAIN names, path \in Range(lists[k])
        PROVE  /\ path \in Range(all)
               /\ \E p \in P, d \in Range(dirs) :
                      trace[p.name] \in {"full", "call-only"} /\ Under(path, p.root_dir \o <<"/", d>>)
    <3>1. PICK p \in P : p.name = names[k]
      BY <1>16
    <3> QED BY <1>15, <2>2, <3>1
  <2>3. ASSUME path \in Range(all), NEW p \in P, NEW d \in Range(dirs),
               trace[p.name] \in {"full", "call-only"}, Under(path, p.root_dir \o <<"/", d>>)
        PROVE  \E k \in DOMAIN names : path \in Range(lists[k])
    <3>1. PICK k \in DOMAIN names : names[k] = p.name
      BY <1>6, <1>9
    <3> QED BY <1>15, <2>3, <3>1
  <2> QED BY <2>1, <2>2, <2>3
<1> QED BY <1>2, <1>5, <1>12, <1>19, <1>20 DEF Holds, ReadsTraced

-----------------------------------------------------------------------------
(***************************************************************************)
(* The job of a command: the target that was chosen for it, what is to be  *)
(* traced, and, once it is built, its executable.                          *)
(***************************************************************************)
Sorts == {"bin", "test", "unit-test", "example"}

Planned ==
    /\ DOMAIN job = DOMAIN NoJob
    /\ todo # <<>> /\ IsRun(command)
    /\ job.selected # None /\ job.selected.sort \in Sorts
    /\ job.selected = Choose(ws, scenario.cases, command)
    /\ job.arguments = Arguments(scenario, ws, job.selected)

Built ==
    /\ job.executable \in DOMAIN executables
    /\ executables[job.executable] = Tail(BuildCommand(job.selected))

JobInv ==
    /\ scenario \in Scenarios /\ ws = parse_workspace(scenario.raw)
    /\ todo \in Seq(Range(scenario.commands))
    /\ pc # "prompt" => Planned
    /\ pc \in {"connect", "read", "setup", "running"} => Built

LEMMA ChosenSort ==
    ASSUME NEW in, NEW cases, NEW cmd, IsRun(cmd), Choose(in, cases, cmd) # None
    PROVE  Choose(in, cases, cmd).sort \in Sorts
<1>1. \A package, sort, target, testcase : Selected(package, sort, target, testcase).sort = sort
  BY DEF Selected
<1>2. CASE cmd.kind = "run"
  <2>1. Choose(in, cases, cmd) = ChooseBinary(in, cmd)
    BY <1>2 DEF Choose
  <2>2. ChooseBinary(in, cmd) = None \/ \E x, y, z : ChooseBinary(in, cmd) = Selected(x, "bin", y, z)
    BY DEF ChooseBinary
  <2>3. QED BY <1>1, <2>1, <2>2 DEF Sorts
<1>3. CASE cmd.kind = "test"
  <2>1. Choose(in, cases, cmd) = ChooseTest(in, cases, cmd)
    BY <1>3 DEF Choose
  <2>2. ChooseTest(in, cases, cmd) = None \/ \E x, y, z : ChooseTest(in, cases, cmd) = Selected(x, "test", y, z)
    BY DEF ChooseTest
  <2>3. QED BY <1>1, <2>1, <2>2 DEF Sorts
<1>4. CASE cmd.kind = "unit-test"
  <2>1. Choose(in, cases, cmd) = ChooseUnitTest(in, cases, cmd)
    BY <1>4 DEF Choose
  <2>2. \/ ChooseUnitTest(in, cases, cmd) = None
        \/ \E x, y, z : ChooseUnitTest(in, cases, cmd) = Selected(x, "unit-test", y, z)
    BY DEF ChooseUnitTest
  <2>3. QED BY <1>1, <2>1, <2>2 DEF Sorts
<1>5. CASE cmd.kind = "example"
  <2>1. Choose(in, cases, cmd) = ChooseExample(in, cmd)
    BY <1>5 DEF Choose
  <2>2. ChooseExample(in, cmd) = None \/ \E x, y, z : ChooseExample(in, cmd) = Selected(x, "example", y, z)
    BY DEF ChooseExample
  <2>3. QED BY <1>1, <2>1, <2>2 DEF Sorts
<1>6. QED BY <1>2, <1>3, <1>4, <1>5 DEF IsRun

\* What is behind the first two of a path is put behind them again.
LEMMA BehindTwo ==
    ASSUME NEW a, NEW b, NEW c, NEW d
    PROVE  <<a, b>> \o SubSeq(<<a, b, c, d>>, 3, Len(<<a, b, c, d>>)) = <<a, b, c, d>>
<1>1. PICK T : T = {a, b, c, d}
  OBVIOUS
<1>2. PICK path : path = <<a, b, c, d>>
  OBVIOUS
<1>3. path \in Seq(T) /\ Len(path) = 4 /\ path[1] = a /\ path[2] = b /\ path[3] = c /\ path[4] = d
  BY <1>1, <1>2
<1>4. PICK rest : rest = SubSeq(path, 3, Len(path))
  OBVIOUS
<1>5. rest \in Seq(T) /\ Len(rest) = 2 /\ rest[1] = c /\ rest[2] = d
  BY <1>3, <1>4, SMTT(30)
<1>6. PICK first : first = <<a, b>>
  OBVIOUS
<1>7. first \in Seq(T) /\ Len(first) = 2 /\ first[1] = a /\ first[2] = b
  BY <1>1, <1>6
<1>8. PICK whole : whole = first \o rest
  OBVIOUS
<1>9. whole \in Seq(T) /\ Len(whole) = 4 /\ whole[1] = a /\ whole[2] = b /\ whole[3] = c /\ whole[4] = d
  <2>1. Joins(whole, first, rest) /\ IsSequence(first) /\ IsSequence(rest)
    BY <1>5, <1>7, <1>8 DEF Joins, IsSequence
  <2>2. /\ \A i \in 1 .. Len(first) : whole[i] = first[i]
        /\ \A i \in 1 .. Len(rest) : whole[Len(first) + i] = rest[i]
        /\ Len(whole) = Len(first) + Len(rest)
    BY <2>1, IsSequenceConcat
  <2>3. whole[1] = a /\ whole[2] = b
    BY <1>7, <2>2
  <2>4. whole[2 + 1] = c /\ whole[2 + 2] = d
    BY <1>5, <1>7, <2>2
  <2>5. whole \in Seq(T)
    BY <1>5, <1>7, <1>8
  <2>6. QED BY <1>5, <1>7, <2>2, <2>3, <2>4, <2>5
<1>10. whole = path
  <2>1. \A k \in 1 .. 4 : k = 1 \/ k = 2 \/ k = 3 \/ k = 4
    OBVIOUS
  <2>2. \A k \in 1 .. 4 : whole[k] = path[k]
    BY <1>3, <1>9, <2>1
  <2>3. QED BY <1>3, <1>9, <2>2
<1>11. QED BY <1>2, <1>4, <1>6, <1>8, <1>10

\* The command looks for an executable where cargo puts it.
LEMMA FoundWhereMade ==
    ASSUME NEW selected, selected.sort \in Sorts
    PROVE  /\ ExecutablePath(selected, Cargo(BuildCommand(selected)).path) = Cargo(BuildCommand(selected)).path
           /\ Cargo(BuildCommand(selected)).is = Tail(BuildCommand(selected))
<1>1. PICK arguments : arguments = BuildCommand(selected)
  OBVIOUS
<1>2. PICK made : made = Cargo(arguments)
  OBVIOUS
<1>3. made.is = Tail(arguments)
  BY <1>2 DEF Cargo
<1>4. ExecutablePath(selected, made.path) = made.path
  <2>1. CASE selected.sort = "bin"
    <3>1. arguments[3] = "--bin" /\ arguments[4] = selected.target
      BY <1>1, <2>1 DEF BuildCommand
    <3>2. made.path = <<"debug", selected.target>>
      BY <1>2, <3>1 DEF Cargo
    <3>3. QED BY <2>1, <3>2 DEF ExecutablePath
  <2>2. CASE selected.sort = "example"
    <3>1. arguments[3] = "--example" /\ arguments[4] = selected.target
      BY <1>1, <2>2 DEF BuildCommand
    <3>2. made.path = <<"debug", "examples", selected.target>>
      BY <1>2, <3>1 DEF Cargo
    <3>3. QED BY <2>2, <3>2 DEF ExecutablePath
  <2>3. CASE selected.sort \in {"test", "unit-test"}
    <3>1. arguments[3] # "--bin" /\ arguments[3] # "--example"
      BY <1>1, <2>3 DEF BuildCommand
    <3>2. made.path = <<"debug", "deps", arguments[4], arguments[2]>>
      BY <1>2, <3>1 DEF Cargo
    <3>3. PICK path : path = made.path
      OBVIOUS
    <3>4. ExecutablePath(selected, path) = <<"debug", "deps">> \o SubSeq(path, 3, Len(path))
      BY <2>3 DEF ExecutablePath
    <3>5. <<"debug", "deps">> \o SubSeq(path, 3, Len(path)) = path
      BY <3>2, <3>3, BehindTwo
    <3>6. QED BY <3>3, <3>4, <3>5
  <2>4. QED BY <2>1, <2>2, <2>3 DEF Sorts
<1>5. QED BY <1>1, <1>2, <1>3, <1>4

\* A step that goes on with the job.
LEMMA PlannedKept ==
    ASSUME Planned, UNCHANGED <<scenario, ws, todo>>,
           DOMAIN job' = DOMAIN job, job'.selected = job.selected, job'.arguments = job.arguments
    PROVE  Planned'
<1>1. DOMAIN job' = DOMAIN NoJob' /\ todo' # <<>> /\ IsRun(command')
  BY DEF Planned, NoJob, IsRun, command
<1>2. job'.selected # None /\ job'.selected.sort \in Sorts
  BY DEF Planned
<1>3. command' = command
  BY DEF command
<1>4. Choose(ws', scenario'.cases, command') = Choose(ws, scenario.cases, command)
  BY <1>3
<1>5. Arguments(scenario', ws', job'.selected) = Arguments(scenario, ws, job.selected)
  OBVIOUS
<1>6. job'.selected = Choose(ws', scenario'.cases, command')
  BY <1>4 DEF Planned
<1>7. job'.arguments = Arguments(scenario', ws', job'.selected)
  BY <1>5 DEF Planned
<1>8. QED BY <1>1, <1>2, <1>6, <1>7 DEF Planned

\* A step that ends a command, or does all of it.
LEMMA CommandDone ==
    ASSUME JobInv, UNCHANGED <<scenario, ws>>, pc' = "prompt", todo # <<>>,
           todo' = Tail(todo)
    PROVE  JobInv'
<1>1. PICK S : S = Range(scenario.commands) /\ todo \in Seq(S)
  BY DEF JobInv
<1>2. Tail(todo) \in Seq(S)
  BY <1>1
<1>3. todo' \in Seq(Range(scenario'.commands))
  BY <1>1, <1>2
<1>4. scenario' \in Scenarios /\ ws' = parse_workspace(scenario'.raw)
  BY DEF JobInv
<1>5. QED BY <1>3, <1>4 DEF JobInv

\* A step that goes on with the job and its executable.
LEMMA JobKept ==
    ASSUME JobInv, UNCHANGED <<scenario, ws, todo, executables>>, pc # "prompt",
           DOMAIN job' = DOMAIN job, job'.selected = job.selected, job'.arguments = job.arguments,
           job'.executable = job.executable,
           pc' \in {"connect", "read", "setup", "running"} => pc \in {"connect", "read", "setup", "running"}
    PROVE  JobInv'
<1>1. Planned'
  BY PlannedKept DEF JobInv
<1>2. ASSUME pc' \in {"connect", "read", "setup", "running"} PROVE Built'
  BY <1>2 DEF JobInv, Built
<1>3. /\ scenario' \in Scenarios /\ ws' = parse_workspace(scenario'.raw)
      /\ todo' \in Seq(Range(scenario'.commands))
  BY DEF JobInv
<1>4. QED BY <1>1, <1>2, <1>3 DEF JobInv

LEMMA DispatchKeepsJob ==
    ASSUME JobInv, Dispatch
    PROVE  JobInv'
<1>1. /\ pc = "prompt" /\ todo # <<>> /\ IsRun(command) /\ UNCHANGED <<scenario, ws>>
  BY DEF Dispatch
<1>2. CASE GiveUp
  <2>1. pc' = "prompt" /\ todo' = Tail(todo)
    BY <1>1, <1>2 DEF GiveUp
  <2>2. QED BY <1>1, <2>1, CommandDone
<1>3. CASE ~GiveUp
  <2>1. PICK selected : selected = Choose(ws, scenario.cases, command)
    OBVIOUS
  <2>2. PICK argv : argv = Argv(scenario.config, command, selected)
    OBVIOUS
  <2>3. /\ selected # None /\ pc' = "cache" /\ todo' = todo
        /\ job' = [NoJob EXCEPT !.selected = selected, !.argv = argv,
                                !.arguments = Arguments(scenario, ws, selected)]
    BY <1>3, <2>1, <2>2 DEF Dispatch
  <2>4. DOMAIN job' = DOMAIN NoJob /\ job'.selected = selected /\ job'.arguments = Arguments(scenario, ws, selected)
    BY <2>3 DEF NoJob
  <2>5. selected.sort \in Sorts
    BY <1>1, <2>1, <2>3, ChosenSort
  <2>6. command' = command
    BY <2>3 DEF command
  <2>7. Planned'
    <3>1. DOMAIN job' = DOMAIN NoJob' /\ todo' # <<>> /\ IsRun(command')
      BY <1>1, <2>3, <2>4, <2>6 DEF NoJob
    <3>2. job'.selected = Choose(ws', scenario'.cases, command')
      BY <1>1, <2>1, <2>4, <2>6
    <3>3. job'.arguments = Arguments(scenario', ws', job'.selected)
      BY <1>1, <2>4
    <3>4. QED BY <2>3, <2>4, <2>5, <3>1, <3>2, <3>3 DEF Planned
  <2>8. /\ scenario' \in Scenarios /\ ws' = parse_workspace(scenario'.raw)
        /\ todo' \in Seq(Range(scenario'.commands))
    BY <1>1, <2>3 DEF JobInv
  <2>9. QED BY <2>3, <2>7, <2>8 DEF JobInv
<1>4. QED BY <1>2, <1>3

LEMMA BuildKeepsJob ==
    ASSUME JobInv, Build
    PROVE  JobInv'
<1>1. pc = "build" /\ pc' = "connect" /\ UNCHANGED <<scenario, ws, todo>>
  BY DEF Build
<1>2. PICK made : made = Cargo(BuildCommand(job.selected))
  OBVIOUS
<1>3. PICK output : job' = [job EXCEPT !.executable = ExecutablePath(job.selected, made.path), !.output = output]
  BY <1>2 DEF Build
<1>4. executables' = [path \in DOMAIN executables \cup {made.path} |->
                            IF path = made.path THEN made.is ELSE executables[path]]
  BY <1>2 DEF Build
<1>5. Planned
  BY <1>1 DEF JobInv
<1>6. /\ DOMAIN job' = DOMAIN job /\ job'.selected = job.selected /\ job'.arguments = job.arguments
      /\ job'.executable = ExecutablePath(job.selected, made.path)
  BY <1>3, <1>5 DEF Planned, NoJob
<1>7. Planned'
  BY <1>1, <1>5, <1>6, PlannedKept
<1>8. ExecutablePath(job.selected, made.path) = made.path /\ made.is = Tail(BuildCommand(job.selected))
  BY <1>2, <1>5, FoundWhereMade DEF Planned
<1>9. made.path \in DOMAIN executables' /\ executables'[made.path] = made.is
  BY <1>4
<1>10. Built'
  BY <1>6, <1>8, <1>9 DEF Built
<1>11. /\ scenario' \in Scenarios /\ ws' = parse_workspace(scenario'.raw)
       /\ todo' \in Seq(Range(scenario'.commands))
  BY <1>1 DEF JobInv
<1>12. QED BY <1>7, <1>10, <1>11 DEF JobInv

\* The sources that are read for a job.
LEMMA SourcesOfJob ==
    ASSUME JobInv, Planned, NEW paths, paths = SourceFiles(scenario, job.arguments, job.selected.sort)
    PROVE  scenario \in Scenarios /\ ReadsTraced(scenario, ws, job.selected, paths)
<1>1. /\ scenario \in Scenarios /\ ws = parse_workspace(scenario.raw)
      /\ job.arguments = Arguments(scenario, ws, job.selected) /\ job.selected.sort \in Sorts
  BY DEF JobInv, Planned
<1>2. IsSequence(SrcDirs(job.selected.sort))
  <2>1. PICK x, y : SrcDirs(job.selected.sort) = <<x, y>>
    BY <1>1 DEF SrcDirs, Sorts
  <2>2. <<x, y>> \in Seq({x, y})
    OBVIOUS
  <2> QED BY <2>1, <2>2 DEF IsSequence
<1> QED BY <1>1, <1>2, SourcesAre

\* They are a list.
LEMMA SourcesAreListed ==
    ASSUME JobInv, Planned
    PROVE  IsSequence(SourceFiles(scenario, job.arguments, job.selected.sort))
  BY SourcesOfJob DEF ReadsTraced

\* They are files, below the root and in one of its packages.
LEMMA SourcesInPackages ==
    ASSUME JobInv, Planned, NEW paths, paths = SourceFiles(scenario, job.arguments, job.selected.sort),
           NEW k \in DOMAIN paths
    PROVE  /\ paths[k] \in Range(PathsIn(scenario)) /\ Under(paths[k], scenario.raw.root)
           /\ \E package \in Range(ws.packages) : Under(paths[k], package.root_dir)
<1>1. PICK path : path = paths[k] /\ path \in Range(paths)
  BY DEF Range
<1>2. scenario \in Scenarios /\ path \in Range(PathsIn(scenario))
  BY <1>1, SourcesOfJob DEF ReadsTraced
<1>3. PICK p \in Range(ws.packages) : \E d : Under(path, p.root_dir \o <<"/", d>>)
  BY <1>1, SourcesOfJob DEF ReadsTraced
<1>4. PICK root : root = scenario.raw.root
  OBVIOUS
<1>5. path \in Seq(STRING)
  <2>1. PICK file \in Range(scenario.files) : path = file.path
    BY <1>2 DEF PathsIn, Range
  <2> QED BY <1>2, <2>1, ScenariosAssumption
<1>6. root \in Seq(STRING) /\ p.root_dir \in Seq(STRING) /\ (p.root_dir = root \/ Under(p.root_dir, root))
  BY <1>2, <1>4, PackagesAre DEF JobInv
<1>7. Under(path, p.root_dir)
  BY <1>3, <1>5, <1>6, UnderInner
<1>8. Under(path, root)
  BY <1>5, <1>6, <1>7, UnderOuter
<1> QED BY <1>1, <1>2, <1>4, <1>7, <1>8

LEMMA ReadKeeps ==
    ASSUME WholeInv, JobInv, Read
    PROVE  WholeInv' /\ JobInv' /\ FinishedKept
<1>1. /\ pc = "read" /\ pc' = "setup" /\ results' = results /\ announced' = announced
      /\ recordings' = Sent(<<Info("debugger")>>) /\ UNCHANGED commandVars
  BY DEF Read
<1>2. Planned
  BY <1>1 DEF JobInv
<1>3. PICK paths : paths = SourceFiles(scenario, job.arguments, job.selected.sort)
  OBVIOUS
<1>4. IsSequence(paths)
  BY <1>2, <1>3, SourcesAreListed
<1>5. JobInv'
  <2>1. PICK argv : job' = [job EXCEPT !.paths = paths, !.argv = argv]
    BY <1>3 DEF Read
  <2>2. /\ DOMAIN job' = DOMAIN job /\ job'.selected = job.selected /\ job'.arguments = job.arguments
        /\ job'.executable = job.executable
    BY <1>2, <2>1 DEF Planned, NoJob
  <2>3. UNCHANGED <<scenario, ws, todo, executables>>
    BY <1>1 DEF commandVars
  <2>4. QED BY <1>1, <2>2, <2>3, JobKept
<1>6. IsSequence(files')
  <2>1. PICK t : /\ files' = <<InternalFile>> \o t /\ DOMAIN t = DOMAIN paths
                 /\ t = [k \in DOMAIN t |-> t[k]]
    <3>1. PICK t : t = [k \in DOMAIN paths |-> MapOf(paths[k]).crate_name]
      OBVIOUS
    <3>2. files' = <<InternalFile>> \o t
      BY <1>3, <3>1 DEF Read
    <3>3. DOMAIN t = DOMAIN paths /\ t = [k \in DOMAIN t |-> t[k]]
      BY <3>1
    <3>4. QED BY <3>2, <3>3
  <2>2. IsSequence(t)
    BY <1>4, <2>1, Relisted
  <2>3. IsSequence(<<InternalFile>>)
    <3>1. <<InternalFile>> \in Seq({InternalFile})
      OBVIOUS
    <3>2. QED BY <3>1 DEF IsSequence
  <2>4. PICK u : Joins(u, <<InternalFile>>, t) /\ files' = u
    BY <2>1 DEF Joins
  <2>5. QED BY <2>2, <2>3, <2>4, IsSequenceConcat
<1>7. Announces'
  BY <1>1, <1>6 DEF WholeInv, Announces, IsAnnouncement
<1>8. PICK s : s = LastRecording.sent /\ IsSequence(s) /\ HasNoEnd(s)
  BY <1>1 DEF WholeInv, Sending, Books, Active, LastRecording
<1>9. PICK t : t = <<Info("debugger")>> /\ IsSequence(t) /\ HasNoEnd(t)
  BY OneSent DEF Info
<1>10. HasNoEnd(s \o t) /\ IsSequence(s \o t)
  BY <1>8, <1>9, SentKeepsNoEnd
<1>11. Active /\ Active'
  BY <1>1 DEF Active
<1>12. WholeInv' /\ FinishedKept
  BY <1>1, <1>7, <1>8, <1>9, <1>10, <1>11, SentKeeps
<1>13. QED BY <1>5, <1>12

LEMMA SetUpKeeps ==
    ASSUME WholeInv, SetUp
    PROVE  WholeInv' /\ FinishedKept
<1>1. /\ pc = "setup" /\ pc' = "setup" /\ results' = results
      /\ recordings' = Sent(SubSeq(announced', Len(announced) + 1, Len(announced')))
  BY DEF SetUp
<1>2. Announces /\ Announces'
  BY SetUpAnnounces DEF WholeInv
<1>3. PICK s : s = LastRecording.sent /\ IsSequence(s) /\ HasNoEnd(s)
  BY <1>1 DEF WholeInv, Sending, Books, Active, LastRecording
<1>4. PICK a : a = announced' /\ IsSequence(a)
  BY <1>2 DEF Announces
<1>5. PICK k \in Nat \ {0} : k = Len(announced) + 1
  BY <1>2, SequenceShape DEF Announces
<1>6. PICK t : IsEnd(t, a, k) /\ t = SubSeq(announced', Len(announced) + 1, Len(announced'))
  BY <1>4, <1>5 DEF IsEnd
<1>7. IsSequence(t) /\ \A i \in DOMAIN t : \E j \in DOMAIN a : t[i] = a[j]
  BY <1>4, <1>5, <1>6, IsSequenceSub
<1>8. HasNoEnd(t)
  BY <1>2, <1>4, <1>7 DEF Announces, IsAnnouncement, HasNoEnd
<1>9. HasNoEnd(s \o t) /\ IsSequence(s \o t)
  BY <1>3, <1>7, <1>8, SentKeepsNoEnd
<1>10. Active /\ Active'
  BY <1>1 DEF Active
<1>11. QED BY <1>1, <1>2, <1>3, <1>6, <1>9, <1>10, SentKeeps

LEMMA EngineReturnsKeeps ==
    ASSUME WholeInv, EngineReturns
    PROVE  WholeInv' /\ FinishedKept
<1>1. /\ pc = "running" /\ pc' = "end" /\ UNCHANGED <<results, files, announced>>
      /\ recordings' = Sent(<<Info("exit")>>)
  BY DEF EngineReturns, setupVars
<1>2. PICK s : s = LastRecording.sent /\ IsSequence(s) /\ HasNoEnd(s)
  BY <1>1 DEF WholeInv, Sending, Books, Active, LastRecording
<1>3. /\ IsSequence(s \o <<Info("exit")>>) /\ EndsWithExit(s \o <<Info("exit")>>)
      /\ HasNoEnd(s \o <<Info("exit")>>)
  <2>1. PICK m : m = Info("exit")
    OBVIOUS
  <2>2. m.key # "end"
    BY <2>1 DEF Info
  <2>3. IsSequence(<<m>>) /\ HasNoEnd(<<m>>)
    BY <2>2, OneSent
  <2>4. HasNoEnd(s \o <<m>>)
    BY <1>2, <2>3, SentKeepsNoEnd
  <2> QED BY <1>2, <2>1, <2>4, SentOne DEF EndsWithExit
<1>4. Announces'
  BY <1>1 DEF WholeInv, Announces, IsAnnouncement
<1>5. Active /\ Active'
  BY <1>1 DEF Active
<1>6. QED BY <1>1, <1>2, <1>3, <1>4, <1>5, SentKeeps

LEMMA EndKeepsWhole ==
    ASSUME WholeInv, End
    PROVE  WholeInv' /\ FinishedKept
<1>1. /\ pc = "end" /\ pc' = "notify" /\ UNCHANGED <<results, files, announced>>
      /\ recordings' = Sent(<<Info("end")>>)
  BY DEF End, setupVars
<1>2. PICK s : s = LastRecording.sent /\ IsSequence(s) /\ EndsWithExit(s)
  BY <1>1 DEF WholeInv, Sending, Books, Active, LastRecording
<1>3. IsSequence(s \o <<Info("end")>>) /\ EndsWhole(s \o <<Info("end")>>)
  BY <1>2, EndMakesWhole
<1>4. Announces'
  BY <1>1 DEF WholeInv, Announces, IsAnnouncement
<1>5. Active /\ Active'
  BY <1>1 DEF Active
<1>6. QED BY <1>1, <1>2, <1>3, <1>4, <1>5, SentKeeps

-----------------------------------------------------------------------------
(***************************************************************************)
(* Every step, and the theorems.                                           *)
(***************************************************************************)
LEMMA FirstState ==
    ASSUME Init
    PROVE  WholeInv /\ JobInv
<1>1. /\ scenario \in Scenarios /\ ws = parse_workspace(scenario.raw) /\ todo = scenario.commands
      /\ pc = "prompt" /\ recordings = <<>> /\ files = <<>> /\ results = <<>> /\ announced = <<>>
  BY DEF Init, SetupStart
<1>2. IsSequence(<<>>) /\ DOMAIN <<>> = {}
  BY NothingSent
<1>3. Books
  BY <1>1, <1>2 DEF Books, Active
<1>4. Announces /\ Sending /\ RecordingIsWhole
  BY <1>1, <1>2 DEF Announces, Sending, RecordingIsWhole
<1>5. todo \in Seq(Range(scenario.commands))
  BY <1>1, ScenariosAssumption
<1>6. JobInv
  BY <1>1, <1>5 DEF JobInv
<1>7. QED BY <1>3, <1>4, <1>6 DEF WholeInv

\* The task touches nothing but the output; nor do the steps of the command that is at work.
LEMMA TaskKeeps ==
    ASSUME WholeInv, JobInv, TailTask \/ Write \/ Notify \/ Launch \/ UNCHANGED vars
    PROVE  WholeInv' /\ JobInv' /\ FinishedKept
<1>1. /\ UNCHANGED <<files, announced, recordings, results, job, scenario, ws, todo, executables>>
      /\ \/ pc' = pc
         \/ pc = "notify" /\ pc' = "join"
         \/ pc = "setup" /\ pc' = "running"
  BY DEF TailTask, TailCreates, TailFails, TailReads, TailIsNotified, TailDrains, Write, Notify, Launch,
         vars, setupVars, commandVars
<1>2. WholeInv' /\ FinishedKept
  BY <1>1, QuietKeeps
<1>3. CASE pc = "prompt"
  BY <1>1, <1>2, <1>3 DEF JobInv
<1>4. CASE pc # "prompt"
  BY <1>1, <1>2, <1>4, JobKept
<1>5. QED BY <1>2, <1>3, <1>4

LEMMA CommandKeeps ==
    ASSUME WholeInv, JobInv, Command
    PROVE  WholeInv' /\ JobInv' /\ FinishedKept
<1>1. UNCHANGED <<files, announced, recordings, results>> /\ ~Active /\ ~Active'
  BY DEF Command, Dispatch, GiveUp, Cache, BuildFails, Build, IndexOrOpen, setupVars, Active
<1>2. WholeInv' /\ FinishedKept
  BY <1>1, QuietKeeps
<1>3. CASE Dispatch
  BY <1>2, <1>3, DispatchKeepsJob
<1>4. CASE Cache
  <2>1. /\ pc = "cache" /\ pc' = "build" /\ UNCHANGED <<scenario, ws, todo, executables, job>>
    BY <1>4 DEF Cache
  <2>2. QED BY <1>2, <2>1, JobKept
<1>5. CASE BuildFails
  <2>1. pc = "build" /\ pc' = "prompt" /\ todo' = Tail(todo) /\ UNCHANGED <<scenario, ws>>
    BY <1>5 DEF BuildFails
  <2>2. todo # <<>>
    BY <2>1 DEF JobInv, Planned
  <2>3. QED BY <1>2, <2>1, <2>2, CommandDone
<1>6. CASE Build
  BY <1>2, <1>6, BuildKeepsJob
<1>7. CASE IndexOrOpen
  <2>1. pc' = "prompt" /\ todo # <<>> /\ todo' = Tail(todo) /\ UNCHANGED <<scenario, ws>>
    BY <1>7 DEF IndexOrOpen
  <2>2. QED BY <1>2, <2>1, CommandDone
<1>8. QED BY <1>3, <1>4, <1>5, <1>6, <1>7 DEF Command

LEMMA DebuggerKeeps ==
    ASSUME WholeInv, JobInv, Debugger
    PROVE  WholeInv' /\ JobInv' /\ FinishedKept
<1>1. ASSUME NEW result, DebuggerEnds(result), pc # "prompt" PROVE JobInv'
  <2>1. pc' = "prompt" /\ todo' = Tail(todo) /\ UNCHANGED <<scenario, ws>>
    BY <1>1 DEF DebuggerEnds
  <2>2. todo # <<>>
    BY <1>1 DEF JobInv, Planned
  <2>3. QED BY <2>1, <2>2, CommandDone
<1>2. ASSUME UNCHANGED <<commandVars, job>>, pc # "prompt",
             pc' \in {"connect", "read", "setup", "running"} => pc \in {"connect", "read", "setup", "running"}
      PROVE  JobInv'
  <2>1. UNCHANGED <<scenario, ws, todo, executables>>
    BY <1>2 DEF commandVars
  <2>2. QED BY <1>2, <2>1, JobKept
<1>3. CASE Refused
  <2>1. pc = "connect" /\ DebuggerEnds("refused") /\ recordings' = recordings
    BY <1>3 DEF Refused
  <2>2. QED BY <1>1, <2>1, EndKeeps
<1>4. CASE Connect
  <2>1. pc = "connect" /\ pc' = "read" /\ UNCHANGED <<commandVars, job>>
    BY <1>4 DEF Connect
  <2>2. QED BY <1>2, <1>4, <2>1, ConnectKeeps
<1>5. CASE Read
  BY <1>5, ReadKeeps
<1>6. CASE SetUp
  <2>1. pc = "setup" /\ pc' = pc /\ UNCHANGED <<commandVars, job>>
    BY <1>6 DEF SetUp
  <2>2. QED BY <1>2, <1>6, <2>1, SetUpKeeps
<1>7. CASE Launch \/ Write \/ Notify
  BY <1>7, TaskKeeps
<1>8. CASE ReadFails \/ EnginePanics \/ EndFails
  <2>1. PICK result \in {"panicked", "failed"} : DebuggerEnds(result)
    BY <1>8 DEF ReadFails, EnginePanics, EndFails
  <2>2. pc \in {"read", "setup", "running", "end", "notify"} /\ recordings' = recordings
    BY <1>8 DEF ReadFails, EnginePanics, EndFails
  <2>3. QED BY <1>1, <2>1, <2>2, EndKeeps
<1>9. CASE EngineReturns
  <2>1. pc = "running" /\ pc' = "end" /\ UNCHANGED <<commandVars, job>>
    BY <1>9 DEF EngineReturns
  <2>2. QED BY <1>2, <1>9, <2>1, EngineReturnsKeeps
<1>10. CASE End
  <2>1. pc = "end" /\ pc' = "notify" /\ UNCHANGED <<commandVars, job>>
    BY <1>10 DEF End
  <2>2. QED BY <1>2, <1>10, <2>1, EndKeepsWhole
<1>11. CASE Join
  <2>1. PICK result : pc = "join" /\ DebuggerEnds(result) /\ recordings' = recordings
    BY <1>11 DEF Join
  <2>2. QED BY <1>1, <2>1, EndKeeps
<1>12. QED BY <1>3, <1>4, <1>5, <1>6, <1>7, <1>8, <1>9, <1>10, <1>11 DEF Debugger

LEMMA EveryStepKeeps ==
    ASSUME WholeInv, JobInv, [Next]_vars
    PROVE  WholeInv' /\ JobInv' /\ FinishedKept
BY CommandKeeps, DebuggerKeeps, TaskKeeps DEF Next

\* A recording that is finished has its end, right after the exit of the program; it is without an end only if
\* the debugger panicked or returned an error, of a map it cannot read or of the stream (debugger/src/main.rs:114,
\* :197-199, :262-267).
THEOREM RecordingsAreWhole == Spec => []RecordingIsWhole
<1>1. Init => WholeInv /\ JobInv
  BY FirstState
<1>2. WholeInv /\ JobInv /\ [Next]_vars => (WholeInv /\ JobInv)'
  BY EveryStepKeeps
<1>3. WholeInv => RecordingIsWhole
  BY DEF WholeInv
<1>4. QED BY <1>1, <1>2, <1>3, PTL DEF Spec

\* Nothing is ever written to a recording that is finished: a debugger only writes the file it has created
\* itself (debugger/src/main.rs:272-294).
THEOREM FinishedRecordingsAreKept == Spec => RecordingsAreKept
<1>1. Init => WholeInv /\ JobInv
  BY FirstState
<1>2. WholeInv /\ JobInv /\ [Next]_vars => (WholeInv /\ JobInv)'
  BY EveryStepKeeps
<1>3. WholeInv /\ JobInv /\ [Next]_vars =>
        [\A n \in DOMAIN recordings : recordings[n].by \in DOMAIN results =>
            n \in DOMAIN recordings' /\ recordings'[n] = recordings[n]]_vars
  BY EveryStepKeeps DEF FinishedKept
<1>4. QED BY <1>1, <1>2, <1>3, PTL DEF Spec, RecordingsAreKept

-----------------------------------------------------------------------------
(***************************************************************************)
(* What `firedbg index` and `firedbg open` took.  The output of a          *)
(* recording is never changed, so what was the newest when it was taken    *)
(* is still the newest of those that were there.                           *)
(***************************************************************************)
Grown ==
    /\ Len(recordings') \in Nat /\ Len(recordings') >= Len(recordings)
    /\ \A n \in 1 .. Len(recordings) : recordings'[n].output = recordings[n].output

Listed(seen) == {n \in 1 .. seen : recordings[n].output[1] = "target"}

TookRight(g) ==
    /\ g.seen \in Nat /\ g.seen <= Len(recordings)
    /\ g.idx = 0 => g.took = None
    /\ g.idx = 1 /\ Listed(g.seen) # {} =>
            \E n \in Listed(g.seen) : g.took = recordings[n].output /\ \A k \in Listed(g.seen) : k <= n

GivenInv == \A g \in given : TookRight(g)

\* A set of numbers that is not empty and has a bound has a greatest.
LEMMA Greatest ==
    ASSUME NEW n \in Nat, NEW S \in SUBSET (1 .. n), S # {}
    PROVE  \E m \in S : \A k \in S : k <= m
<1>1. PICK D : D = {n - k : k \in S}
  OBVIOUS
<1>2. D \subseteq Nat /\ D # {}
  <2>1. \A k \in S : n - k \in Nat
    OBVIOUS
  <2>2. \E k : k \in S
    OBVIOUS
  <2>3. QED BY <1>1, <2>1, <2>2
<1>3. PICK d \in D : \A e \in D : d <= e
  BY <1>2, LeastNatural
<1>4. PICK m \in S : d = n - m
  BY <1>1, <1>3
<1>5. ASSUME NEW k \in S PROVE k <= m
  <2>1. d <= n - k
    BY <1>1, <1>3
  <2>2. QED BY <1>4, <2>1
<1>6. QED BY <1>4, <1>5

\* The newest of the recordings in firedbg/target.
LEMMA FirstIsNewest ==
    ASSUME Books, InTarget # {}
    PROVE  /\ Newest(1) \in InTarget /\ \A k \in InTarget : k <= Newest(1)
           /\ Cardinality(InTarget) \in Nat \ {0}
<1>1. PICK l \in Nat : l = Len(recordings) /\ DOMAIN recordings = 1 .. l
  BY SequenceShape DEF Books
<1>2. InTarget \in SUBSET (1 .. l)
  BY <1>1 DEF InTarget
<1>3. PICK m \in InTarget : \A k \in InTarget : k <= m
  BY <1>1, <1>2, Greatest
<1>4. IsFiniteSet(InTarget)
  <2>1. IsFiniteSet(1 .. l)
    BY <1>1, FS_Interval
  <2>2. QED BY <1>2, <2>1, FS_Subset
<1>5. {k \in InTarget : k >= m} = {m}
  <2>1. \A k \in InTarget : k >= m => k = m
    BY <1>2, <1>3
  <2>2. m >= m
    BY <1>2, <1>3
  <2>3. QED BY <1>3, <2>1, <2>2
<1>6. Cardinality({k \in InTarget : k >= m}) = 1
  BY <1>5, FS_Singleton
<1>7. PICK c : c = Newest(1)
  OBVIOUS
<1>8. c \in InTarget /\ Cardinality({k \in InTarget : k >= c}) = 1
  BY <1>6, <1>7 DEF Newest
<1>9. c = m
  <2>1. PICK T : T = {k \in InTarget : k >= c}
    OBVIOUS
  <2>2. m \in T /\ c \in T
    BY <1>2, <1>3, <1>8, <2>1
  <2>3. T \in SUBSET InTarget /\ IsFiniteSet(T)
    BY <1>4, <2>1, FS_Subset
  <2>4. \E x : T = {x}
    BY <1>8, <2>1, <2>3, FS_Singleton
  <2>5. QED BY <2>2, <2>4
<1>10. Cardinality(InTarget) \in Nat /\ Cardinality(InTarget) # 0
  BY <1>4, FS_CardinalityType, FS_EmptySet
<1>11. QED BY <1>3, <1>7, <1>9, <1>10

LEMMA GrownKeeps ==
    ASSUME GivenInv, Books, Grown, given' = given
    PROVE  GivenInv'
<1>1. Len(recordings) \in Nat
  BY SequenceShape DEF Books
<1>2. ASSUME NEW g \in given PROVE TookRight(g)'
  <2>1. TookRight(g)
    BY DEF GivenInv
  <2>2. g.seen \in Nat /\ g.seen <= Len(recordings')
    BY <1>1, <2>1 DEF TookRight, Grown
  <2>3. \A n \in 1 .. g.seen : recordings'[n].output = recordings[n].output
    BY <1>1, <2>1 DEF TookRight, Grown
  <2>4. Listed(g.seen)' = Listed(g.seen)
    BY <2>3 DEF Listed
  <2>5. \A n \in Listed(g.seen) : recordings'[n].output = recordings[n].output
    BY <2>3 DEF Listed
  <2>6. QED BY <2>1, <2>2, <2>4, <2>5 DEF TookRight
<1>3. QED BY <1>2 DEF GivenInv

LEMMA SentGrows ==
    ASSUME Books, Active, Active', NEW more, recordings' = Sent(more), results' = results
    PROVE  Grown
<1>1. PICK m \in Nat : m = Len(recordings) /\ DOMAIN recordings = 1 .. m
  BY SequenceShape DEF Books
<1>2. /\ Len(recordings') = m
      /\ LastRecording' = [LastRecording EXCEPT !.sent = LastRecording.sent \o more]
      /\ \A n \in 1 .. m : n # m => recordings'[n] = recordings[n]
      /\ m \in 1 .. m
  BY <1>1, SentBooks
<1>3. recordings'[m] = [recordings[m] EXCEPT !.sent = LastRecording.sent \o more]
  BY <1>1, <1>2 DEF LastRecording
<1>4. DOMAIN recordings[m] = {"output", "by", "sent"}
  BY <1>1, <1>2 DEF Books
<1>5. recordings'[m].output = recordings[m].output
  BY <1>3, <1>4
<1>6. QED BY <1>1, <1>2, <1>5 DEF Grown

LEMMA EveryStepGrows ==
    ASSUME WholeInv, [Next]_vars, ~IndexOrOpen
    PROVE  Grown /\ given' = given
<1>1. Books /\ Len(recordings) \in Nat
  BY SequenceShape DEF WholeInv, Books
<1>2. given' = given
  BY DEF Next, Command, Dispatch, Cache, BuildFails, Build, Debugger, Refused, Connect, ReadFails, Read, SetUp,
         Launch, Write, EnginePanics, EngineReturns, EndFails, End, Notify, Join, DebuggerEnds, TailTask,
         TailCreates, TailFails, TailReads, TailIsNotified, TailDrains, vars, commandVars
<1>3. CASE recordings' = recordings
  BY <1>1, <1>2, <1>3 DEF Grown
<1>4. CASE Read \/ SetUp \/ EngineReturns \/ End
  <2>1. Active /\ Active' /\ results' = results /\ \E more : recordings' = Sent(more)
    BY <1>4 DEF Read, SetUp, EngineReturns, End, Active
  <2>2. QED BY <1>1, <1>2, <2>1, SentGrows
<1>5. CASE Connect
  <2>1. /\ Len(recordings') = Len(recordings) + 1
        /\ \A n \in DOMAIN recordings : recordings'[n] = recordings[n]
    BY <1>1, <1>5, ConnectBooks
  <2>2. DOMAIN recordings = 1 .. Len(recordings)
    BY <1>1, SequenceShape DEF Books
  <2>3. QED BY <1>1, <1>2, <2>1, <2>2 DEF Grown
<1>6. QED
  <2>1. recordings' = recordings \/ Read \/ SetUp \/ EngineReturns \/ End \/ Connect
    BY DEF Next, Command, Dispatch, Cache, BuildFails, Build, Debugger, Refused, ReadFails, Launch, Write,
           EnginePanics, EndFails, Notify, Join, TailTask, TailCreates, TailFails, TailReads, TailIsNotified,
           TailDrains, vars
  <2>2. QED BY <1>2, <1>3, <1>4, <1>5, <2>1

LEMMA IndexKeeps ==
    ASSUME WholeInv, GivenInv, IndexOrOpen
    PROVE  GivenInv'
<1>1. Books /\ Len(recordings) \in Nat /\ DOMAIN recordings = 1 .. Len(recordings)
  BY SequenceShape DEF WholeInv, Books
<1>2. PICK g : /\ given' = given \cup {g}
               /\ g = [idx  |-> command.name,
                       took |-> IF command.name \in DOMAIN get_firedbg_runs
                                THEN get_firedbg_runs[command.name].output ELSE None,
                       seen |-> Len(recordings)]
  BY DEF IndexOrOpen
<1>3. recordings' = recordings
  BY DEF IndexOrOpen
<1>4. DOMAIN get_firedbg_runs = 1 .. Cardinality(InTarget)
  BY DEF get_firedbg_runs
<1>5. g.seen = Len(recordings) /\ g.idx = command.name
  BY <1>2
<1>6. InTarget = Listed(g.seen)
  BY <1>1, <1>5 DEF InTarget, Listed
<1>7. Cardinality(InTarget) \in Nat
  <2>1. IsFiniteSet(1 .. Len(recordings)) /\ InTarget \in SUBSET (1 .. Len(recordings))
    BY <1>1, FS_Interval DEF InTarget
  <2>2. QED BY <2>1, FS_Subset, FS_CardinalityType
<1>8. g.idx = 0 => g.took = None
  BY <1>2, <1>4, <1>7
<1>9. ASSUME g.idx = 1, Listed(g.seen) # {}
      PROVE  \E n \in Listed(g.seen) : g.took = recordings[n].output /\ \A k \in Listed(g.seen) : k <= n
  <2>1. PICK n : n = Newest(1)
    OBVIOUS
  <2>2. n \in InTarget /\ (\A k \in InTarget : k <= n) /\ 1 \in 1 .. Cardinality(InTarget)
    BY <1>1, <1>6, <1>9, <2>1, FirstIsNewest
  <2>3. get_firedbg_runs[1] = recordings[n]
    BY <2>1, <2>2 DEF get_firedbg_runs
  <2>4. g.took = recordings[n].output
    BY <1>2, <1>4, <1>9, <2>2, <2>3
  <2>5. QED BY <1>6, <2>2, <2>4
<1>10. TookRight(g)
  BY <1>1, <1>5, <1>8, <1>9 DEF TookRight
<1>11. QED BY <1>2, <1>3, <1>10 DEF GivenInv, TookRight, Listed

\* The program that is debugged is the one that cargo made of the selected target, whatever was built
\* before under whatever name; and an index or a debugger is given the newest run there was
\* (command/src/main.rs:374-392, :700-862).
THEOREM EveryCommandDoesAsAsked == Spec => []CommandsDoAsAsked
<1>1. Init => WholeInv /\ JobInv /\ GivenInv
  BY FirstState DEF Init, GivenInv
<1>2. WholeInv /\ JobInv /\ GivenInv /\ [Next]_vars => (WholeInv /\ JobInv /\ GivenInv)'
  <2>1. WholeInv /\ GivenInv /\ [Next]_vars => GivenInv'
    BY EveryStepGrows, GrownKeeps, IndexKeeps DEF WholeInv
  <2>2. QED BY <2>1, EveryStepKeeps
<1>3. JobInv => LaunchedIsSelected
  BY DEF JobInv, Built, LaunchedIsSelected
<1>4. GivenInv => IndexedIsLatest
  BY DEF GivenInv, TookRight, Listed, IndexedIsLatest
<1>5. JobInv /\ GivenInv => CommandsDoAsAsked
  BY <1>3, <1>4 DEF CommandsDoAsAsked
<1>6. QED BY <1>1, <1>2, <1>5, PTL DEF Spec

-----------------------------------------------------------------------------
(***************************************************************************)
(* The output.  The task is only told to drain after the end of the        *)
(* program, so what it drains is all that was written.                     *)
(***************************************************************************)
OutputInv ==
    /\ permit => pc = "join"
    /\ tail \in {"draining", "done"} => pc = "join"
    /\ (tail = "done" /\ "late" \notin scenario.troubles) => printed = wrote

\* What the program printed since the task created its file has been shown when the task has ended without an
\* error, unless the file watcher was late (debugger/src/main.rs:231-259).
THEOREM AllOutputIsShown == Spec => []OutputIsShown
<1>1. Init => OutputInv
  BY DEF Init, OutputInv
<1>2. OutputInv /\ [Next]_vars => OutputInv'
  <2> SUFFICES ASSUME OutputInv, [Next]_vars PROVE OutputInv'
    OBVIOUS
  <2>1. scenario' = scenario
    BY DEF Next, Command, Dispatch, Cache, BuildFails, Build, IndexOrOpen, Debugger, Refused, Connect,
           ReadFails, Read, SetUp, Launch, Write, EnginePanics, EngineReturns, EndFails, End, Notify, Join,
           DebuggerEnds, TailTask, TailCreates, TailFails, TailReads, TailIsNotified, TailDrains, vars,
           commandVars
  <2>2. ASSUME NEW result, DebuggerEnds(result) PROVE OutputInv'
    BY <2>2 DEF DebuggerEnds, OutputInv
  <2>3. ASSUME UNCHANGED <<permit, tail, printed, wrote>>, pc # "join" \/ pc' = pc PROVE OutputInv'
    BY <2>1, <2>3 DEF OutputInv
  <2>4. CASE Command
    BY <2>3, <2>4 DEF Command, Dispatch, GiveUp, Cache, BuildFails, Build, IndexOrOpen, tailVars
  <2>5. CASE Refused \/ ReadFails \/ EnginePanics \/ EndFails \/ Join
    BY <2>2, <2>5 DEF Refused, ReadFails, EnginePanics, EndFails, Join
  <2>6. CASE Connect \/ SetUp \/ Launch \/ EngineReturns \/ End
    BY <2>3, <2>6 DEF Connect, SetUp, Launch, EngineReturns, End, tailVars
  <2>7. CASE Read
    BY <2>7 DEF Read, OutputInv
  <2>8. CASE Write
    BY <2>8 DEF Write, OutputInv
  <2>9. CASE Notify
    BY <2>1, <2>9 DEF Notify, NotifyOne, OutputInv
  <2>10. CASE TailCreates \/ TailFails \/ TailReads
    BY <2>10 DEF TailCreates, TailFails, TailReads, print_to_stdout, OutputInv
  <2>11. CASE TailIsNotified
    BY <2>11 DEF TailIsNotified, OutputInv
  <2>12. CASE TailDrains
    BY <2>1, <2>12 DEF TailDrains, Drained, print_to_stdout, OutputInv
  <2>13. CASE UNCHANGED vars
    BY <2>3, <2>13 DEF vars, tailVars
  <2>14. QED BY <2>4, <2>5, <2>6, <2>7, <2>8, <2>9, <2>10, <2>11, <2>12, <2>13 DEF Next, Debugger, TailTask
<1>3. OutputInv => OutputIsShown
  BY DEF OutputInv, OutputIsShown
<1>4. QED BY <1>1, <1>2, <1>3, PTL DEF Spec

-----------------------------------------------------------------------------
(***************************************************************************)
(* Proofs about Parser, for any tree of items.  What is around an item,    *)
(* and what parse_file finds from an item on, are functions that are       *)
(* defined by themselves: the first by the parent, which comes before, the *)
(* second by the items inside, which come behind.  So an argument about    *)
(* all items is one about the first (or the last) that is not as it says.  *)
(*                                                                         *)
(* The numbers of the items in an item are in rising order, all that is in *)
(* one of them comes before all that is in the next, and what is found in  *)
(* an item is what is found in its items, with a function it is itself.    *)
(***************************************************************************)
\* The items around i, if f has those around its parent.
AroundBy(file, f, i) ==
    IF i = 0 \/ file[i].parent = 0 THEN {} ELSE {file[i].parent} \cup f[file[i].parent]

IsAround(file, f, n) == f = [i \in 0 .. n |-> AroundBy(file, f, i)]

LEMMA TreeParents ==
    ASSUME NEW file, IsTree(file)
    PROVE  /\ Len(file) \in Nat /\ DOMAIN file = 1 .. Len(file)
           /\ \A i \in DOMAIN file : file[i].parent \in Nat /\ file[i].parent < i
<1>1. PICK T : T = [kind : STRING, parent : Nat]
  OBVIOUS
<1>2. file \in Seq(T)
  BY <1>1 DEF IsTree
<1>3. \A i \in DOMAIN file : file[i] \in T
  BY <1>2
<1>4. \A item \in T : item.parent \in Nat
  BY <1>1
<1>5. \A i \in DOMAIN file : file[i].parent < i
  BY DEF IsTree
<1> QED BY <1>2, <1>3, <1>4, <1>5

LEMMA AroundNext ==
    ASSUME NEW file, IsTree(file), NEW n \in Nat, n + 1 \in DOMAIN file, NEW f, IsAround(file, f, n)
    PROVE  \E g : IsAround(file, g, n + 1)
<1> DEFINE g == [i \in 0 .. n + 1 |-> IF i <= n THEN f[i] ELSE AroundBy(file, f, i)]
<1>1. ASSUME NEW i \in 0 .. n + 1 PROVE g[i] = AroundBy(file, g, i)
  <2>1. g[i] = AroundBy(file, f, i)
    <3>1. CASE i <= n
      <4>1. i \in 0 .. n
        BY <3>1
      <4> QED BY <3>1, <4>1 DEF IsAround
    <3>2. CASE ~(i <= n)
      BY <3>2
    <3> QED BY <3>1, <3>2
  <2>2. CASE i = 0
    <3> HIDE DEF g
    <3> QED BY <2>1, <2>2 DEF AroundBy
  <2>3. CASE i # 0
    <3>1. i \in DOMAIN file /\ DOMAIN file = 1 .. Len(file) /\ Len(file) \in Nat
      BY <2>3, TreeParents
    <3>2. file[i].parent \in Nat /\ file[i].parent < i
      BY <3>1, TreeParents
    <3>3. PICK p \in 0 .. n : p = file[i].parent
      BY <3>2
    <3>4. g[p] = f[p]
      OBVIOUS
    <3> HIDE DEF g
    <3> QED BY <2>1, <3>3, <3>4 DEF AroundBy
  <2> QED BY <2>2, <2>3
<1>2. g = [i \in 0 .. n + 1 |-> g[i]]
  OBVIOUS
<1> HIDE DEF g
<1>3. IsAround(file, g, n + 1)
  BY <1>1, <1>2 DEF IsAround
<1> QED BY <1>3

\* What is around the items of a file is what its definition says.
LEMMA AroundIs ==
    ASSUME NEW file, IsTree(file)
    PROVE  /\ Len(file) \in Nat /\ DOMAIN file = 1 .. Len(file)
           /\ \A i \in 0 .. Len(file) : Around(file)[i] = AroundBy(file, Around(file), i)
<1>1. PICK l \in Nat : l = Len(file) /\ DOMAIN file = 1 .. l
  BY TreeParents
<1>2. PICK T : T = {n \in Nat : n <= l => \E f : IsAround(file, f, n)}
  OBVIOUS
<1>3. 0 \in T
  <2>1. PICK f : f = [i \in 0 .. 0 |-> {}]
    OBVIOUS
  <2>2. \A i \in 0 .. 0 : AroundBy(file, f, i) = {}
    BY DEF AroundBy
  <2>3. IsAround(file, f, 0)
    BY <2>1, <2>2 DEF IsAround
  <2> QED BY <1>2, <2>3
<1>4. ASSUME NEW n \in Nat, n \in T PROVE n + 1 \in T
  <2> SUFFICES ASSUME n + 1 <= l PROVE \E f : IsAround(file, f, n + 1)
    BY <1>2
  <2>1. n <= l /\ n + 1 \in DOMAIN file
    BY <1>1
  <2>2. PICK f : IsAround(file, f, n)
    BY <1>2, <1>4, <2>1
  <2> QED BY <2>1, <2>2, AroundNext
<1>5. l \in T
  BY <1>3, <1>4, NumberSets
<1>6. \E f : IsAround(file, f, l)
  BY <1>1, <1>2, <1>5
<1>7. Around(file) = CHOOSE f : IsAround(file, f, l)
  BY <1>1 DEF Around, IsAround, AroundBy
<1>8. IsAround(file, Around(file), l)
  BY <1>6, <1>7
<1>9. PICK f : f = Around(file)
  OBVIOUS
<1>10. \A i \in 0 .. l : f[i] = AroundBy(file, f, i)
  BY <1>8, <1>9 DEF IsAround
<1> QED BY <1>1, <1>9, <1>10

LEMMA AroundFacts ==
    ASSUME NEW file, IsTree(file), NEW j \in DOMAIN file, NEW p, p = file[j].parent,
           NEW A, A = Around(file)
    PROVE  /\ j \in Nat /\ p \in Nat /\ p < j
           /\ p = 0 => A[j] = {}
           /\ p # 0 => p \in DOMAIN file /\ A[j] = {p} \cup A[p]
<1>1. Len(file) \in Nat /\ DOMAIN file = 1 .. Len(file) /\ A[j] = AroundBy(file, A, j)
  BY AroundIs
<1>2. p \in Nat /\ p < j /\ j \in Nat /\ j # 0
  BY <1>1, TreeParents
<1>3. p # 0 => p \in DOMAIN file
  BY <1>1, <1>2
<1>4. A[j] = IF p = 0 THEN {} ELSE {p} \cup A[p]
  BY <1>1, <1>2 DEF AroundBy
<1> QED BY <1>2, <1>3, <1>4

LEMMA AroundBefore ==
    ASSUME NEW file, IsTree(file)
    PROVE  \A j \in DOMAIN file : \A k \in Around(file)[j] : k \in DOMAIN file /\ k < j
<1>1. PICK A : A = Around(file)
  OBVIOUS
<1>2. DOMAIN file \subseteq Nat
  BY TreeParents
<1>3. PICK T : T = {j \in DOMAIN file : \E k \in A[j] : ~(k \in DOMAIN file /\ k < j)}
  OBVIOUS
<1>4. ASSUME NEW j \in T, \A x \in T : j <= x PROVE FALSE
  <2>1. j \in DOMAIN file /\ j \in Nat
    BY <1>2, <1>3
  <2>2. PICK k \in A[j] : ~(k \in DOMAIN file /\ k < j)
    BY <1>3
  <2>3. PICK p : p = file[j].parent
    OBVIOUS
  <2>4. /\ p \in Nat /\ p < j /\ p # 0 /\ p \in DOMAIN file /\ A[j] = {p} \cup A[p]
    BY <1>1, <2>1, <2>2, <2>3, AroundFacts
  <2>5. p \notin T
    BY <1>4, <2>1, <2>4
  <2>6. k \in A[p]
    BY <2>2, <2>4
  <2>7. k \in DOMAIN file /\ k < p
    BY <1>3, <2>4, <2>5, <2>6
  <2> QED BY <1>2, <2>1, <2>2, <2>4, <2>7
<1>5. T = {}
  BY <1>2, <1>3, <1>4, LeastNatural
<1> QED BY <1>1, <1>3, <1>5

LEMMA AroundNested ==
    ASSUME NEW file, IsTree(file)
    PROVE  \A j \in DOMAIN file : \A k \in Around(file)[j] : Around(file)[k] \subseteq Around(file)[j]
<1>1. PICK A : A = Around(file)
  OBVIOUS
<1>2. DOMAIN file \subseteq Nat
  BY TreeParents
<1>3. PICK T : T = {j \in DOMAIN file : \E k \in A[j] : ~(A[k] \subseteq A[j])}
  OBVIOUS
<1>4. ASSUME NEW j \in T, \A x \in T : j <= x PROVE FALSE
  <2>1. j \in DOMAIN file /\ j \in Nat
    BY <1>2, <1>3
  <2>2. PICK k \in A[j] : ~(A[k] \subseteq A[j])
    BY <1>3
  <2>3. PICK p : p = file[j].parent
    OBVIOUS
  <2>4. /\ p \in Nat /\ p < j /\ p # 0 /\ p \in DOMAIN file /\ A[j] = {p} \cup A[p]
    BY <1>1, <2>1, <2>2, <2>3, AroundFacts
  <2>5. p \notin T
    BY <1>4, <2>1, <2>4
  <2>6. k \in A[p]
    BY <2>2, <2>4
  <2>7. A[k] \subseteq A[p]
    BY <1>3, <2>4, <2>5, <2>6
  <2> QED BY <2>2, <2>4, <2>7
<1>5. T = {}
  BY <1>2, <1>3, <1>4, LeastNatural
<1> QED BY <1>1, <1>3, <1>5

\* What is between an item and one that it is around is in it as well.
LEMMA AroundBetween ==
    ASSUME NEW file, IsTree(file)
    PROVE  \A j \in DOMAIN file : \A a \in Around(file)[j] : \A b \in DOMAIN file :
              a < b /\ b < j => a \in Around(file)[b]
<1>1. PICK A : A = Around(file)
  OBVIOUS
<1>2. DOMAIN file = 1 .. Len(file) /\ Len(file) \in Nat /\ DOMAIN file \subseteq Nat
  BY TreeParents
<1>3. PICK T : T = {j \in DOMAIN file : \E a \in A[j] : \E b \in DOMAIN file : a < b /\ b < j /\ a \notin A[b]}
  OBVIOUS
<1>4. ASSUME NEW j \in T, \A x \in T : j <= x PROVE FALSE
  <2>1. j \in DOMAIN file /\ j \in Nat
    BY <1>2, <1>3
  <2>2. PICK a \in A[j] : \E b \in DOMAIN file : a < b /\ b < j /\ a \notin A[b]
    BY <1>3
  <2>3. PICK b \in DOMAIN file : a < b /\ b < j /\ a \notin A[b]
    BY <2>2
  <2>4. PICK p : p = file[j].parent
    OBVIOUS
  <2>5. /\ p \in Nat /\ p < j /\ p # 0 /\ p \in DOMAIN file /\ A[j] = {p} \cup A[p]
    BY <1>1, <2>1, <2>2, <2>4, AroundFacts
  <2>6. a \in Nat /\ b \in Nat
    BY <1>1, <1>2, <2>1, <2>2, AroundBefore
  <2>7. PICK q \in DOMAIN file : q = j - 1 /\ q \in Nat /\ q < j /\ b <= q /\ a < q
    BY <1>2, <2>1, <2>3, <2>6
  <2>8. p = q \/ p \in A[q]
    <3>1. j > 1
      BY <1>2, <2>1, <2>7
    <3>2. p \in {0, j - 1} \cup A[j - 1]
      BY <1>1, <2>1, <2>4, <3>1 DEF IsTree
    <3> QED BY <2>5, <2>7, <3>2
  <2>9. a \in A[q]
    <3>1. CASE p = q
      BY <2>2, <2>5, <2>6, <2>7, <3>1
    <3>2. CASE p \in A[q]
      <4>1. A[p] \subseteq A[q]
        BY <1>1, <2>7, <3>2, AroundNested
      <4> QED BY <2>2, <2>5, <3>2, <4>1
    <3> QED BY <2>8, <3>1, <3>2
  <2>10. b = q \/ b < q
    BY <2>6, <2>7
  <2>11. q \notin T
    BY <1>4, <2>1, <2>7
  <2> QED BY <1>3, <2>3, <2>7, <2>9, <2>10, <2>11
<1>5. T = {}
  BY <1>2, <1>3, <1>4, LeastNatural
<1> QED BY <1>1, <1>3, <1>5

-----------------------------------------------------------------------------
\* The item j is i, or in it; everything is in the file, 0.
Within(file, i, j) == i = 0 \/ j = i \/ i \in Around(file)[j]

LEMMA ChildToward ==
    ASSUME NEW file, IsTree(file)
    PROVE  \A j \in DOMAIN file : \A i \in {0} \cup Around(file)[j] :
              \E c \in DOMAIN file : file[c].parent = i /\ (c = j \/ c \in Around(file)[j])
<1>1. PICK A : A = Around(file)
  OBVIOUS
<1>2. DOMAIN file \subseteq Nat
  BY TreeParents
<1>3. PICK T : T = {j \in DOMAIN file : \E i \in {0} \cup A[j] :
                        ~ \E c \in DOMAIN file : file[c].parent = i /\ (c = j \/ c \in A[j])}
  OBVIOUS
<1>4. ASSUME NEW j \in T, \A x \in T : j <= x PROVE FALSE
  <2>1. j \in DOMAIN file /\ j \in Nat
    BY <1>2, <1>3
  <2>2. PICK i \in {0} \cup A[j] : ~ \E c \in DOMAIN file : file[c].parent = i /\ (c = j \/ c \in A[j])
    BY <1>3
  <2>3. PICK p : p = file[j].parent
    OBVIOUS
  <2>4. p # i
    BY <2>1, <2>2, <2>3
  <2>5. /\ p \in Nat /\ p < j /\ p # 0 /\ p \in DOMAIN file /\ A[j] = {p} \cup A[p]
    BY <1>1, <2>1, <2>2, <2>3, <2>4, AroundFacts
  <2>6. p \notin T
    BY <1>4, <2>1, <2>5
  <2>7. i \in {0} \cup A[p]
    BY <2>2, <2>4, <2>5
  <2>8. PICK c \in DOMAIN file : file[c].parent = i /\ (c = p \/ c \in A[p])
    BY <1>3, <2>5, <2>6, <2>7
  <2> QED BY <2>2, <2>5, <2>8
<1>5. T = {}
  BY <1>2, <1>3, <1>4, LeastNatural
<1> QED BY <1>1, <1>3, <1>5

\* Items of one item are apart: all that is in the first comes before all that is in the second.
LEMMA ChildrenApart ==
    ASSUME NEW file, IsTree(file), NEW c \in DOMAIN file, NEW d \in DOMAIN file,
           file[c].parent = file[d].parent, c < d,
           NEW j \in DOMAIN file, NEW l \in DOMAIN file, Within(file, c, j), Within(file, d, l)
    PROVE  j < d /\ j < l /\ c <= j
<1>1. PICK A : A = Around(file)
  OBVIOUS
<1>2. DOMAIN file \subseteq Nat /\ 0 \notin DOMAIN file
  BY TreeParents
<1>3. c \notin A[d]
  <2>1. PICK p : p = file[d].parent
    OBVIOUS
  <2>2. p < c /\ p \in Nat
    BY <2>1, AroundFacts
  <2>3. c \in A[d] => c \in A[p] /\ p \in DOMAIN file
    BY <1>1, <2>1, <2>2, AroundFacts
  <2>4. ASSUME c \in A[p], p \in DOMAIN file PROVE FALSE
    <3>1. c < p
      BY <1>1, <2>4, AroundBefore
    <3> QED BY <1>2, <2>2, <3>1
  <2> QED BY <2>3, <2>4
<1>4. j = c \/ c \in A[j]
  BY <1>1, <1>2 DEF Within
<1>5. l = d \/ d \in A[l]
  BY <1>1, <1>2 DEF Within
<1>6. c <= j
  BY <1>1, <1>2, <1>4, AroundBefore
<1>7. d <= l
  BY <1>1, <1>2, <1>5, AroundBefore
<1>8. j < d
  <2>1. j # d
    BY <1>2, <1>3, <1>4
  <2>2. ~(d < j)
    BY <1>1, <1>2, <1>3, <1>4, AroundBetween
  <2> QED BY <1>2, <2>1, <2>2
<1> QED BY <1>2, <1>6, <1>7, <1>8

\* What is around j inside i is i, and what is inside the item of i that leads to j.
LEMMA AroundInside ==
    ASSUME NEW file, IsTree(file), NEW c \in DOMAIN file, NEW i, i = file[c].parent,
           NEW j \in DOMAIN file, Within(file, c, j), NEW k \in Around(file)[j]
    PROVE  Within(file, i, k) <=> k = i \/ Within(file, c, k)
<1>1. PICK A : A = Around(file)
  OBVIOUS
<1>2. DOMAIN file \subseteq Nat /\ 0 \notin DOMAIN file
  BY TreeParents
<1>3. k \in DOMAIN file /\ k < j
  BY AroundBefore
<1>4. j = c \/ c \in A[j]
  BY <1>1, <1>2 DEF Within
<1>5. /\ i \in Nat /\ i < c
      /\ i = 0 => A[c] = {}
      /\ i # 0 => i \in DOMAIN file /\ A[c] = {i} \cup A[i]
  BY <1>1, AroundFacts
<1>6. ASSUME Within(file, c, k) PROVE Within(file, i, k)
  <2>1. k = c \/ c \in A[k]
    BY <1>1, <1>2, <1>6 DEF Within
  <2>2. c \in A[k] => A[c] \subseteq A[k]
    BY <1>1, <1>3, AroundNested
  <2>3. i = 0 \/ i \in A[c]
    BY <1>5
  <2> QED BY <1>1, <2>1, <2>2, <2>3 DEF Within
<1>7. ASSUME Within(file, i, k), k # i, ~Within(file, c, k) PROVE FALSE
  <2>1. k # c /\ c \notin A[k]
    BY <1>1, <1>7 DEF Within
  <2>2. ~(c < k)
    BY <1>1, <1>3, <1>4, <2>1, <1>2, AroundBetween
  <2>3. k < c
    BY <1>2, <1>3, <2>1, <2>2
  <2>4. k \in A[c]
    <3>1. CASE j = c
      BY <1>1, <3>1
    <3>2. CASE c \in A[j]
      <4>1. c < j
        BY <1>1, <3>2, AroundBefore
      <4> QED BY <1>1, <2>3, <4>1, AroundBetween
    <3> QED BY <1>4, <3>1, <3>2
  <2>5. i \in DOMAIN file /\ k \in A[i] /\ i # 0
    BY <1>5, <1>7, <2>4
  <2>6. k < i
    BY <1>1, <2>5, AroundBefore
  <2>7. i \in A[k]
    BY <1>1, <1>7, <2>5 DEF Within
  <2>8. i < k
    BY <1>1, <1>3, <2>7, AroundBefore
  <2> QED BY <1>2, <1>3, <1>5, <2>6, <2>8
<1>8. k = i => Within(file, i, k)
  BY DEF Within
<1> QED BY <1>6, <1>7, <1>8

LEMMA ItemsAre ==
    ASSUME NEW file, IsTree(file), NEW i \in 0 .. Len(file), NEW e, e = ItemsIn(file, i)
    PROVE  /\ IsSequence(e)
           /\ \A n \in DOMAIN e : e[n] \in DOMAIN file /\ file[e[n]].parent = i /\ e[n] \in i + 1 .. Len(file)
           /\ \A j \in DOMAIN file : file[j].parent = i => \E n \in DOMAIN e : e[n] = j
           /\ \A m, n \in DOMAIN e : m < n => e[m] < e[n]
<1>1. PICK S : S = {j \in DOMAIN file : file[j].parent = i}
  OBVIOUS
<1>2. /\ Len(file) \in Nat /\ DOMAIN file = 1 .. Len(file)
      /\ \A j \in DOMAIN file : file[j].parent \in Nat /\ file[j].parent < j
  BY TreeParents
<1>3. S \in SUBSET (1 .. Len(file)) /\ S \in SUBSET Nat
  BY <1>1, <1>2
<1>4. IsFiniteSet(S)
  <2>1. IsFiniteSet(1 .. Len(file))
    BY <1>2, FS_Interval
  <2> QED BY <1>3, <2>1, FS_Subset
<1>5. Enumerates(e, S)
  BY <1>1 DEF ItemsIn, Enumerates, Ascending
<1>6. /\ e \in Seq(S)
      /\ \A n \in DOMAIN e : e[n] \in S
      /\ \A j \in S : \E n \in DOMAIN e : e[n] = j
      /\ \A m, n \in DOMAIN e : m < n => e[m] < e[n]
  BY <1>3, <1>4, <1>5, ItemsEnumerated
<1>7. \A j \in S : j \in DOMAIN file /\ file[j].parent = i /\ j \in i + 1 .. Len(file)
  BY <1>1, <1>2
<1>8. IsSequence(e)
  BY <1>6 DEF IsSequence
<1>9. \A j \in DOMAIN file : file[j].parent = i => j \in S
  BY <1>1
<1> QED BY <1>6, <1>7, <1>8, <1>9

-----------------------------------------------------------------------------
\* What is found in the items of i, and with i, if g is what is found from the items behind i on.
Inside(file, g, i) == FlattenSeq([k \in DOMAIN ItemsIn(file, i) |-> g[ItemsIn(file, i)[k]]])

ParsedBy(file, layout, g, i) ==
    IF i = 0 \/ file[i].kind \in Scopes THEN Inside(file, g, i)
    ELSE IF file[i].kind \in Bodies
         THEN parse_nested_func(FunctionDef(file, layout, i), Inside(file, g, i))
         ELSE <<>>

IsParse(file, layout, g, n) == g = [i \in n .. Len(file) |-> ParsedBy(file, layout, g, i)]

LEMMA InsideSame ==
    ASSUME NEW file, IsTree(file), NEW i \in 0 .. Len(file), NEW g, NEW h,
           \A j \in i + 1 .. Len(file) : g[j] = h[j], NEW layout
    PROVE  ParsedBy(file, layout, g, i) = ParsedBy(file, layout, h, i)
<1>1. PICK e : e = ItemsIn(file, i)
  OBVIOUS
<1>2. \A k \in DOMAIN e : g[e[k]] = h[e[k]]
  BY <1>1, ItemsAre
<1>3. [k \in DOMAIN e |-> g[e[k]]] = [k \in DOMAIN e |-> h[e[k]]]
  BY <1>2
<1>4. Inside(file, g, i) = Inside(file, h, i)
  BY <1>1, <1>3 DEF Inside
<1> QED BY <1>4 DEF ParsedBy

LEMMA ParseNext ==
    ASSUME NEW file, IsTree(file), NEW layout, NEW n \in 0 .. Len(file), NEW f, IsParse(file, layout, f, n + 1)
    PROVE  \E g : IsParse(file, layout, g, n)
<1> DEFINE g == [i \in n .. Len(file) |-> IF i = n THEN ParsedBy(file, layout, f, i) ELSE f[i]]
<1>0. Len(file) \in Nat
  BY TreeParents
<1>1. ASSUME NEW i \in n .. Len(file) PROVE g[i] = ParsedBy(file, layout, g, i)
  <2>1. g[i] = ParsedBy(file, layout, f, i)
    <3>1. CASE i = n
      BY <3>1
    <3>2. CASE i # n
      <4>1. i \in n + 1 .. Len(file)
        BY <1>0, <3>2
      <4>2. f[i] = ParsedBy(file, layout, f, i)
        BY <4>1 DEF IsParse
      <4> QED BY <3>2, <4>2
    <3> QED BY <3>1, <3>2
  <2>2. i \in 0 .. Len(file)
    BY <1>0
  <2>3. \A j \in i + 1 .. Len(file) : f[j] = g[j]
    <3>1. \A j \in i + 1 .. Len(file) : j \in n .. Len(file) /\ j # n
      BY <1>0
    <3> QED BY <3>1
  <2> HIDE DEF g
  <2> QED BY <2>1, <2>2, <2>3, InsideSame
<1>2. g = [i \in n .. Len(file) |-> g[i]]
  OBVIOUS
<1> HIDE DEF g
<1>3. IsParse(file, layout, g, n)
  BY <1>1, <1>2 DEF IsParse
<1> QED BY <1>3

\* The result of parse_file is what its definition says.
LEMMA ParseIs ==
    ASSUME NEW file, IsTree(file), NEW layout
    PROVE  \E g : /\ parse_file(file, layout) = g[0]
                  /\ \A i \in 0 .. Len(file) : g[i] = ParsedBy(file, layout, g, i)
<1>1. PICK l \in Nat : l = Len(file)
  BY TreeParents
<1>2. PICK T : T = {m \in Nat : m <= l + 1 => \E f : IsParse(file, layout, f, l + 1 - m)}
  OBVIOUS
<1>3. 0 \in T
  <2>1. PICK f : f = [i \in l + 1 .. l |-> {}]
    OBVIOUS
  <2>2. l + 1 .. l = {}
    OBVIOUS
  <2>3. f = [i \in l + 1 .. l |-> ParsedBy(file, layout, f, i)]
    BY <2>1, <2>2
  <2>4. IsParse(file, layout, f, l + 1)
    BY <1>1, <2>3 DEF IsParse
  <2> QED BY <1>2, <2>4
<1>4. ASSUME NEW m \in Nat, m \in T PROVE m + 1 \in T
  <2> SUFFICES ASSUME m + 1 <= l + 1 PROVE \E f : IsParse(file, layout, f, l + 1 - (m + 1))
    BY <1>2
  <2>1. PICK n \in 0 .. l : n = l - m /\ n + 1 = l + 1 - m /\ n = l + 1 - (m + 1)
    OBVIOUS
  <2>2. m <= l + 1
    OBVIOUS
  <2>3. PICK f : IsParse(file, layout, f, n + 1)
    BY <1>2, <1>4, <2>1, <2>2
  <2> QED BY <1>1, <2>1, <2>3, ParseNext
<1>5. l + 1 \in T
  BY <1>3, <1>4, NumberSets
<1>6. \E f : IsParse(file, layout, f, 0)
  <2>1. l + 1 - (l + 1) = 0 /\ l + 1 <= l + 1
    OBVIOUS
  <2> QED BY <1>2, <1>5, <2>1
<1>7. PICK g : g = CHOOSE f : IsParse(file, layout, f, 0)
  OBVIOUS
<1>8. IsParse(file, layout, g, 0)
  BY <1>6, <1>7
<1>9. parse_file(file, layout) = g[0]
  BY <1>7 DEF parse_file, IsParse, ParsedBy, Inside
<1>10. \A i \in 0 .. Len(file) : g[i] = ParsedBy(file, layout, g, i)
  BY <1>8 DEF IsParse
<1> QED BY <1>9, <1>10

\* The functions inside i that can be found from there, and the bodies that are around j in i.
FoundIn(file, i) ==
    {j \in DOMAIN file :
        /\ Within(file, i, j)
        /\ file[j].kind \in Bodies
        /\ \A k \in Around(file)[j] : Within(file, i, k) => file[k].kind \in Bodies \cup Scopes}

OuterIn(file, i, j) == {k \in Around(file)[j] : Within(file, i, k) /\ file[k].kind \in Bodies}

\* The entry e is for a function that is found inside i, and right as far as i goes.
Described(file, layout, i, e) ==
    /\ DOMAIN e = {"ty", "fn_name", "parent_func", "loc", "end"}
    /\ e.fn_name \in FoundIn(file, i)
    /\ e.loc = FunctionDef(file, layout, e.fn_name).loc
    /\ (e.ty = "NestedFn") <=> (OuterIn(file, i, e.fn_name) # {})
    /\ OuterIn(file, i, e.fn_name) # {} => e.parent_func \in OuterIn(file, i, e.fn_name)

\* The list s has the functions that are found inside i, each once and in order.
ListsFound(file, layout, i, s) ==
    /\ IsSequence(s) /\ Rising(s)
    /\ \A l \in DOMAIN s : Described(file, layout, i, s[l])
    /\ \A j \in FoundIn(file, i) : \E l \in DOMAIN s : s[l].fn_name = j

\* What is in an item of i is in i.
LEMMA WithinChild ==
    ASSUME NEW file, IsTree(file), NEW c \in DOMAIN file, NEW i, i = file[c].parent,
           NEW j \in DOMAIN file, Within(file, c, j)
    PROVE  Within(file, i, j) /\ j # i /\ (i # 0 => i \in Around(file)[j])
<1>1. PICK A : A = Around(file)
  OBVIOUS
<1>2. 0 \notin DOMAIN file /\ DOMAIN file \subseteq Nat
  BY TreeParents
<1>3. /\ i \in Nat /\ i < c
      /\ i # 0 => i \in DOMAIN file /\ i \in A[c]
  BY <1>1, AroundFacts
<1>4. j = c \/ c \in A[j]
  BY <1>1, <1>2 DEF Within
<1>5. i # 0 => i \in A[j]
  BY <1>1, <1>3, <1>4, AroundNested
<1>6. i \in A[j] => i < j
  BY <1>1, AroundBefore
<1>7. j # i
  BY <1>2, <1>5, <1>6, <1>3
<1> QED BY <1>1, <1>5, <1>7 DEF Within

\* What is found inside i, and is not i, is found inside one of its items.
LEMMA FoundInChild ==
    ASSUME NEW file, IsTree(file), NEW i \in 0 .. Len(file), NEW j \in FoundIn(file, i), j # i
    PROVE  \E c \in DOMAIN file : file[c].parent = i /\ j \in FoundIn(file, c)
<1>1. PICK A : A = Around(file)
  OBVIOUS
<1>2. /\ j \in DOMAIN file /\ Within(file, i, j) /\ file[j].kind \in Bodies
      /\ \A k \in A[j] : Within(file, i, k) => file[k].kind \in Bodies \cup Scopes
  BY <1>1 DEF FoundIn
<1>3. i \in {0} \cup A[j]
  BY <1>1, <1>2 DEF Within
<1>4. PICK c \in DOMAIN file : file[c].parent = i /\ (c = j \/ c \in A[j])
  BY <1>1, <1>2, <1>3, ChildToward
<1>5. Within(file, c, j)
  BY <1>1, <1>4 DEF Within
<1>6. \A k \in A[j] : Within(file, c, k) => Within(file, i, k)
  BY <1>1, <1>2, <1>4, <1>5, AroundInside
<1>7. j \in FoundIn(file, c)
  BY <1>1, <1>2, <1>5, <1>6 DEF FoundIn
<1> QED BY <1>4, <1>7

\* What is found inside an item of i is found inside i, if i is looked into.
LEMMA FoundFromChild ==
    ASSUME NEW file, IsTree(file), NEW c \in DOMAIN file, NEW i, i = file[c].parent,
           i = 0 \/ file[i].kind \in Bodies \cup Scopes, NEW j \in FoundIn(file, c)
    PROVE  /\ j \in FoundIn(file, i) /\ j # i
           /\ i = 0 \/ file[i].kind \notin Bodies => OuterIn(file, i, j) = OuterIn(file, c, j)
           /\ i # 0 /\ file[i].kind \in Bodies => i \in OuterIn(file, i, j)
<1>1. PICK A : A = Around(file)
  OBVIOUS
<1>2. /\ j \in DOMAIN file /\ Within(file, c, j) /\ file[j].kind \in Bodies
      /\ \A k \in A[j] : Within(file, c, k) => file[k].kind \in Bodies \cup Scopes
  BY <1>1 DEF FoundIn
<1>3. Within(file, i, j) /\ j # i /\ (i # 0 => i \in A[j])
  BY <1>1, <1>2, WithinChild
<1>4. \A k \in A[j] : Within(file, i, k) <=> k = i \/ Within(file, c, k)
  BY <1>1, <1>2, AroundInside
<1>5. \A k \in A[j] : k # 0
  BY <1>1, <1>2, AroundBefore, TreeParents
<1>6. j \in FoundIn(file, i)
  BY <1>1, <1>2, <1>3, <1>4, <1>5 DEF FoundIn
<1>7. i = 0 \/ file[i].kind \notin Bodies => OuterIn(file, i, j) = OuterIn(file, c, j)
  BY <1>1, <1>4, <1>5 DEF OuterIn
<1>8. i # 0 /\ file[i].kind \in Bodies => i \in OuterIn(file, i, j)
  BY <1>1, <1>3, <1>4 DEF OuterIn
<1> QED BY <1>3, <1>6, <1>7, <1>8

\* The names of what is found inside one item come before those of what is found inside the next.
LEMMA DescribedApart ==
    ASSUME NEW file, IsTree(file), NEW layout, NEW c \in DOMAIN file, NEW d \in DOMAIN file,
           file[c].parent = file[d].parent, c < d, NEW s, NEW t,
           \A l \in DOMAIN s : Described(file, layout, c, s[l]),
           \A l \in DOMAIN t : Described(file, layout, d, t[l])
    PROVE  AllBefore(s, t)
<1>1. ASSUME NEW k \in DOMAIN s, NEW l \in DOMAIN t PROVE s[k].fn_name < t[l].fn_name
  <2>1. PICK x : x = s[k].fn_name /\ x \in DOMAIN file /\ Within(file, c, x)
    BY DEF Described, FoundIn
  <2>2. PICK y : y = t[l].fn_name /\ y \in DOMAIN file /\ Within(file, d, y)
    BY DEF Described, FoundIn
  <2>3. x < y
    BY <2>1, <2>2, ChildrenApart
  <2> QED BY <2>1, <2>2, <2>3
<1> QED BY <1>1 DEF AllBefore

\* The lists of what is behind i are right.
BehindListed(file, layout, i, g) == \A c \in i + 1 .. Len(file) : ListsFound(file, layout, c, g[c])

\* The list s has what is found inside the items of i.
ListsItems(file, layout, i, s) ==
    /\ IsSequence(s) /\ Rising(s)
    /\ \A l \in DOMAIN s : \E c \in DOMAIN file : file[c].parent = i /\ Described(file, layout, c, s[l])
    /\ \A c \in DOMAIN file : file[c].parent = i =>
         \A j \in FoundIn(file, c) : \E l \in DOMAIN s : s[l].fn_name = j

\* The lists of the items of i, one after the other.
LEMMA InsideLists ==
    ASSUME NEW file, IsTree(file), NEW layout, NEW i \in 0 .. Len(file), NEW g,
           BehindListed(file, layout, i, g), NEW s, s = Inside(file, g, i)
    PROVE  ListsItems(file, layout, i, s)
<1>1. PICK e : e = ItemsIn(file, i)
  OBVIOUS
<1>2. /\ IsSequence(e)
      /\ \A n \in DOMAIN e : e[n] \in DOMAIN file /\ file[e[n]].parent = i /\ e[n] \in i + 1 .. Len(file)
      /\ \A j \in DOMAIN file : file[j].parent = i => \E n \in DOMAIN e : e[n] = j
      /\ \A m, n \in DOMAIN e : m < n => e[m] < e[n]
  BY <1>1, ItemsAre
<1>3. PICK seqs : seqs = [k \in DOMAIN e |-> g[e[k]]]
  OBVIOUS
<1>4. PICK n \in Nat : n = Len(e) /\ DOMAIN e = 1 .. n
  BY <1>2, SequenceShape
<1>5. IsSequence(seqs) /\ DOMAIN seqs = 1 .. n
  <2>1. PICK S : S = {seqs[k] : k \in 1 .. n}
    OBVIOUS
  <2>2. seqs \in [1 .. n -> S]
    BY <1>3, <1>4, <2>1
  <2>3. seqs \in Seq(S) /\ DOMAIN seqs = 1 .. n
    BY <2>2
  <2> QED BY <2>3 DEF IsSequence
<1>6. Len(seqs) = n
  BY <1>5, SequenceShape
<1>7. \A k \in 1 .. n : ListsFound(file, layout, e[k], seqs[k])
  BY <1>2, <1>3, <1>4 DEF BehindListed
<1>8. \A k \in DOMAIN seqs : IsSequence(seqs[k])
  BY <1>5, <1>7 DEF ListsFound
<1>9. InOrder(seqs)
  <2>1. \A k \in DOMAIN seqs : Rising(seqs[k])
    BY <1>5, <1>7 DEF ListsFound
  <2>2. ASSUME NEW k \in 1 .. n, NEW l \in 1 .. n, k < l PROVE AllBefore(seqs[k], seqs[l])
    <3>1. PICK c \in DOMAIN file : c = e[k] /\ file[c].parent = i
      BY <1>2, <1>4
    <3>2. PICK d \in DOMAIN file : d = e[l] /\ file[d].parent = i
      BY <1>2, <1>4
    <3>3. c < d
      BY <1>2, <1>4, <2>2, <3>1, <3>2
    <3>4. PICK x : x = seqs[k]
      OBVIOUS
    <3>5. PICK y : y = seqs[l]
      OBVIOUS
    <3>6. ListsFound(file, layout, c, x) /\ ListsFound(file, layout, d, y)
      BY <1>7, <3>1, <3>2, <3>4, <3>5
    <3>7. /\ \A m \in DOMAIN x : Described(file, layout, c, x[m])
          /\ \A m \in DOMAIN y : Described(file, layout, d, y[m])
      BY <3>6 DEF ListsFound
    <3>8. AllBefore(x, y)
      BY <3>1, <3>2, <3>3, <3>7, DescribedApart
    <3> QED BY <3>4, <3>5, <3>8
  <2> QED BY <1>5, <2>1, <2>2 DEF InOrder
<1>10. s = FlattenSeq(seqs)
  BY <1>1, <1>3 DEF Inside
<1>11. Holds(s, seqs, n) /\ Rising(s)
  BY <1>5, <1>6, <1>8, <1>9, <1>10, Flattened
<1>12. ASSUME NEW l \in DOMAIN s
       PROVE  \E c \in DOMAIN file : file[c].parent = i /\ Described(file, layout, c, s[l])
  <2>1. PICK k \in 1 .. n : \E m \in DOMAIN seqs[k] : s[l] = seqs[k][m]
    BY <1>11 DEF Holds
  <2>2. PICK c \in DOMAIN file : c = e[k] /\ file[c].parent = i
    BY <1>2, <1>4
  <2>3. Described(file, layout, c, s[l])
    BY <1>7, <2>1, <2>2 DEF ListsFound
  <2> QED BY <2>2, <2>3
<1>13. ASSUME NEW c \in DOMAIN file, file[c].parent = i, NEW j \in FoundIn(file, c)
       PROVE  \E l \in DOMAIN s : s[l].fn_name = j
  <2>1. PICK k \in 1 .. n : e[k] = c
    BY <1>2, <1>4, <1>13
  <2>2. PICK m \in DOMAIN seqs[k] : seqs[k][m].fn_name = j
    BY <1>7, <1>13, <2>1 DEF ListsFound
  <2>3. PICK l \in DOMAIN s : s[l] = seqs[k][m]
    BY <1>11 DEF Holds
  <2> QED BY <2>2, <2>3
<1> QED BY <1>11, <1>12, <1>13 DEF Holds, ListsItems

LEMMA DefIs ==
    ASSUME NEW file, NEW layout, NEW i, NEW def, def = FunctionDef(file, layout, i)
    PROVE  /\ DOMAIN def = {"ty", "fn_name", "parent_func", "loc", "end"}
           /\ def.fn_name = i /\ def.ty # "NestedFn"
  BY DEF FunctionDef

LEMMA NestedIs ==
    ASSUME NEW e, DOMAIN e = {"ty", "fn_name", "parent_func", "loc", "end"}, NEW def,
           NEW n, n = into_nested_func(e, def)
    PROVE  /\ DOMAIN n = DOMAIN e /\ n.fn_name = e.fn_name /\ n.loc = e.loc
           /\ n.ty = "NestedFn" /\ n.parent_func = def.fn_name
  BY DEF into_nested_func

\* Nothing is found inside an item that is not looked into.
LEMMA NotLookedInto ==
    ASSUME NEW file, IsTree(file), NEW layout, NEW i \in DOMAIN file, file[i].kind \notin Bodies \cup Scopes
    PROVE  ListsFound(file, layout, i, <<>>)
<1>1. ASSUME NEW j \in FoundIn(file, i) PROVE FALSE
  <2>1. /\ j \in DOMAIN file /\ (j = i \/ i \in Around(file)[j]) /\ file[j].kind \in Bodies
        /\ \A k \in Around(file)[j] : Within(file, i, k) => file[k].kind \in Bodies \cup Scopes
    <3>1. i # 0
      BY TreeParents
    <3> QED BY <3>1 DEF FoundIn, Within
  <2>2. Within(file, i, i)
    BY DEF Within
  <2> QED BY <2>1, <2>2
<1>2. <<>> \in Seq({})
  OBVIOUS
<1>3. DOMAIN <<>> = {}
  OBVIOUS
<1> QED BY <1>1, <1>2, <1>3 DEF ListsFound, IsSequence, Rising

LEMMA ScopeLists ==
    ASSUME NEW file, IsTree(file), NEW layout, NEW i \in 0 .. Len(file), NEW g,
           BehindListed(file, layout, i, g),
           i = 0 \/ file[i].kind \in Scopes
    PROVE  ListsFound(file, layout, i, Inside(file, g, i))
<1>1. PICK s : s = Inside(file, g, i)
  OBVIOUS
<1>2. /\ IsSequence(s) /\ Rising(s)
      /\ \A l \in DOMAIN s : \E c \in DOMAIN file : file[c].parent = i /\ Described(file, layout, c, s[l])
      /\ \A c \in DOMAIN file : file[c].parent = i =>
           \A j \in FoundIn(file, c) : \E l \in DOMAIN s : s[l].fn_name = j
  <2>1. ListsItems(file, layout, i, s)
    BY <1>1, InsideLists
  <2> QED BY <2>1 DEF ListsItems
<1>3. ASSUME NEW l \in DOMAIN s PROVE Described(file, layout, i, s[l])
  <2>1. PICK c \in DOMAIN file : file[c].parent = i /\ Described(file, layout, c, s[l])
    BY <1>2
  <2>2. PICK e : e = s[l]
    OBVIOUS
  <2>3. PICK j : j = e.fn_name /\ j \in FoundIn(file, c)
    BY <2>1, <2>2 DEF Described
  <2>4. i = 0 \/ file[i].kind \notin Bodies
    BY DEF Bodies, Scopes
  <2>5. j \in FoundIn(file, i) /\ OuterIn(file, i, j) = OuterIn(file, c, j)
    BY <2>1, <2>3, <2>4, FoundFromChild
  <2>6. Described(file, layout, i, e)
    BY <2>1, <2>2, <2>3, <2>5 DEF Described
  <2> QED BY <2>2, <2>6
<1>4. ASSUME NEW j \in FoundIn(file, i) PROVE \E l \in DOMAIN s : s[l].fn_name = j
  <2>1. j \in DOMAIN file /\ file[j].kind \in Bodies
    BY DEF FoundIn
  <2>2. j # i
    BY <2>1, TreeParents DEF Bodies, Scopes
  <2>3. PICK c \in DOMAIN file : file[c].parent = i /\ j \in FoundIn(file, c)
    BY <2>2, FoundInChild
  <2> QED BY <1>2, <2>3
<1> QED BY <1>1, <1>2, <1>3, <1>4 DEF ListsFound

LEMMA BodyLists ==
    ASSUME NEW file, IsTree(file), NEW layout, NEW i \in DOMAIN file, NEW g,
           BehindListed(file, layout, i, g),
           file[i].kind \in Bodies
    PROVE  ListsFound(file, layout, i, parse_nested_func(FunctionDef(file, layout, i), Inside(file, g, i)))
<1>0. i \in 0 .. Len(file) /\ i # 0 /\ i \in Nat
  BY TreeParents
<1>1. PICK s : s = Inside(file, g, i)
  OBVIOUS
<1>2. /\ IsSequence(s) /\ Rising(s)
      /\ \A l \in DOMAIN s : \E c \in DOMAIN file : file[c].parent = i /\ Described(file, layout, c, s[l])
      /\ \A c \in DOMAIN file : file[c].parent = i =>
           \A j \in FoundIn(file, c) : \E l \in DOMAIN s : s[l].fn_name = j
  <2>1. ListsItems(file, layout, i, s)
    BY <1>0, <1>1, InsideLists
  <2> QED BY <2>1 DEF ListsItems
<1>3. PICK def : /\ def = FunctionDef(file, layout, i)
                 /\ DOMAIN def = {"ty", "fn_name", "parent_func", "loc", "end"}
                 /\ def.fn_name = i /\ def.ty # "NestedFn"
  BY DefIs
<1>4. PICK n \in Nat : n = Len(s) /\ DOMAIN s = 1 .. n
  BY <1>2, SequenceShape
<1>5. PICK t : t = [k \in DOMAIN s |-> into_nested_func(s[k], def)]
  OBVIOUS
<1>6. DOMAIN t = 1 .. n /\ IsSequence(t)
  <2>1. PICK S : S = {t[k] : k \in 1 .. n}
    OBVIOUS
  <2>2. t \in [1 .. n -> S]
    BY <1>4, <1>5, <2>1
  <2>3. t \in Seq(S) /\ DOMAIN t = 1 .. n
    BY <2>2
  <2> QED BY <2>3 DEF IsSequence
<1>7. ASSUME NEW l \in 1 .. n
      PROVE  /\ t[l].fn_name = s[l].fn_name /\ i < t[l].fn_name
             /\ Described(file, layout, i, t[l])
  <2>1. PICK c \in DOMAIN file : file[c].parent = i /\ Described(file, layout, c, s[l])
    BY <1>2, <1>4
  <2>2. PICK e : e = s[l]
    OBVIOUS
  <2>3. PICK j : j = e.fn_name /\ j \in FoundIn(file, c)
    BY <2>1, <2>2 DEF Described
  <2>4. j \in FoundIn(file, i) /\ j # i /\ i \in OuterIn(file, i, j)
    BY <1>0, <2>1, <2>3, FoundFromChild
  <2>5. PICK x : x = t[l]
    OBVIOUS
  <2>6. x = into_nested_func(e, def)
    BY <1>4, <1>5, <2>2, <2>5
  <2>7. DOMAIN e = {"ty", "fn_name", "parent_func", "loc", "end"} /\ e.loc = FunctionDef(file, layout, j).loc
    BY <2>1, <2>2, <2>3 DEF Described
  <2>8. DOMAIN x = DOMAIN e /\ x.fn_name = j /\ x.loc = e.loc /\ x.ty = "NestedFn" /\ x.parent_func = i
    BY <1>3, <2>3, <2>6, <2>7, NestedIs
  <2>9. Described(file, layout, i, x)
    BY <2>4, <2>7, <2>8 DEF Described
  <2>10. i < j
    <3>1. i \in Around(file)[j] /\ j \in DOMAIN file
      BY <2>4 DEF OuterIn, FoundIn
    <3> QED BY <3>1, AroundBefore
  <2> QED BY <2>2, <2>3, <2>5, <2>8, <2>9, <2>10
<1>8. PICK one : /\ one = <<def>> /\ IsSequence(one) /\ DOMAIN one = {1} /\ one[1] = def /\ Len(one) = 1
  <2>1. PICK one : one = <<def>>
    OBVIOUS
  <2>2. one \in Seq({def}) /\ DOMAIN one = {1} /\ one[1] = def /\ Len(one) = 1
    BY <2>1
  <2> QED BY <2>1, <2>2 DEF IsSequence
<1>9. PICK u : Joins(u, one, t)
  BY DEF Joins
<1>10. u = parse_nested_func(FunctionDef(file, layout, i), Inside(file, g, i))
  BY <1>1, <1>3, <1>5, <1>8, <1>9 DEF parse_nested_func, Joins
<1>11. /\ IsSequence(u) /\ Len(u) = 1 + Len(t)
       /\ u[1] = one[1] /\ \A l \in 1 .. Len(t) : u[1 + l] = t[l]
  <2>1. /\ IsSequence(u) /\ Len(u) = Len(one) + Len(t)
        /\ \A l \in 1 .. Len(one) : u[l] = one[l]
        /\ \A l \in 1 .. Len(t) : u[Len(one) + l] = t[l]
    <3>1. IsSequence(one) /\ IsSequence(t)
      BY <1>6, <1>8
    <3> QED BY <1>9, <3>1, IsSequenceConcat
  <2>2. Len(one) = 1 /\ 1 \in 1 .. Len(one)
    BY <1>8
  <2> QED BY <2>1, <2>2
<1>12. DOMAIN u = 1 .. 1 + n /\ Len(t) = n
  BY <1>6, <1>11, SequenceShape
<1>13. Rising(u)
  <2>1. Rising(one)
    BY <1>8 DEF Rising
  <2>2. Rising(t)
    BY <1>2, <1>4, <1>6, <1>7 DEF Rising
  <2>3. AllBefore(one, t)
    BY <1>3, <1>6, <1>7, <1>8 DEF AllBefore
  <2> QED BY <1>6, <1>8, <1>9, <2>1, <2>2, <2>3, JoinRises
<1>14. Described(file, layout, i, def)
  <2>1. ASSUME NEW k \in Around(file)[i] PROVE ~Within(file, i, k)
    <3>1. k \in DOMAIN file /\ k < i
      BY AroundBefore
    <3>2. ~(i < k) /\ k # i
      BY <1>0, <3>1, TreeParents
    <3>3. i \notin Around(file)[k]
      BY <3>1, <3>2, AroundBefore
    <3> QED BY <1>0, <3>2, <3>3 DEF Within
  <2>2. Within(file, i, i)
    BY DEF Within
  <2>3. i \in FoundIn(file, i)
    BY <2>1, <2>2 DEF FoundIn
  <2>4. OuterIn(file, i, i) = {}
    BY <2>1 DEF OuterIn
  <2> QED BY <1>3, <2>3, <2>4 DEF Described
<1>15. ASSUME NEW l \in DOMAIN u PROVE Described(file, layout, i, u[l])
  <2>1. CASE l = 1
    BY <1>8, <1>11, <1>14, <2>1
  <2>2. CASE l # 1
    <3>1. PICK m \in 1 .. n : m = l - 1 /\ l = 1 + m
      BY <1>12, <2>2
    <3>2. u[l] = t[m]
      BY <1>11, <1>12, <3>1
    <3> QED BY <1>7, <3>2
  <2> QED BY <2>1, <2>2
<1>16. ASSUME NEW j \in FoundIn(file, i) PROVE \E l \in DOMAIN u : u[l].fn_name = j
  <2>1. CASE j = i
    <3>1. u[1].fn_name = i /\ 1 \in DOMAIN u
      BY <1>3, <1>8, <1>11, <1>12
    <3> QED BY <2>1, <3>1
  <2>2. CASE j # i
    <3>1. PICK c \in DOMAIN file : file[c].parent = i /\ j \in FoundIn(file, c)
      BY <1>0, <2>2, FoundInChild
    <3>2. PICK m \in 1 .. n : s[m].fn_name = j
      BY <1>2, <1>4, <3>1
    <3>3. u[1 + m] = t[m] /\ 1 + m \in DOMAIN u
      BY <1>11, <1>12
    <3>4. u[1 + m].fn_name = j
      BY <1>7, <3>2, <3>3
    <3> QED BY <3>3, <3>4
  <2> QED BY <2>1, <2>2
<1>17. ListsFound(file, layout, i, u)
  BY <1>11, <1>13, <1>15, <1>16 DEF ListsFound
<1> QED BY <1>10, <1>17

\* The list that parse_file returns.
LEMMA ParsedListsFound ==
    ASSUME NEW file, IsTree(file), NEW layout
    PROVE  ListsFound(file, layout, 0, parse_file(file, layout))
<1>1. PICK g : /\ parse_file(file, layout) = g[0]
               /\ \A i \in 0 .. Len(file) : g[i] = ParsedBy(file, layout, g, i)
  BY ParseIs
<1>2. PICK l \in Nat : l = Len(file) /\ DOMAIN file = 1 .. l
  BY TreeParents
<1>3. PICK T : T = {m \in Nat : m <= l + 1 => \A i \in l + 1 - m .. l : ListsFound(file, layout, i, g[i])}
  OBVIOUS
<1>4. 0 \in T
  <2>1. l + 1 - 0 .. l = {} /\ 0 \in Nat
    OBVIOUS
  <2> QED BY <1>3, <2>1
<1>5. ASSUME NEW m \in Nat, m \in T PROVE m + 1 \in T
  <2> SUFFICES ASSUME m + 1 <= l + 1, NEW i \in l + 1 - (m + 1) .. l PROVE ListsFound(file, layout, i, g[i])
    BY <1>3
  <2>1. \A c \in l + 1 - m .. l : ListsFound(file, layout, c, g[c])
    BY <1>3, <1>5
  <2>2. CASE i \in l + 1 - m .. l
    BY <2>1, <2>2
  <2>3. CASE i = l - m
    <3>1. i \in 0 .. Len(file)
      BY <1>2, <2>3
    <3>2. BehindListed(file, layout, i, g)
      <4>1. i + 1 = l + 1 - m
        BY <2>3
      <4> QED BY <1>2, <2>1, <4>1 DEF BehindListed
    <3>3. g[i] = ParsedBy(file, layout, g, i)
      BY <1>1, <3>1
    <3>4. CASE i = 0 \/ file[i].kind \in Scopes
      <4>1. g[i] = Inside(file, g, i)
        BY <3>3, <3>4 DEF ParsedBy
      <4>2. ListsFound(file, layout, i, Inside(file, g, i))
        BY <3>1, <3>2, <3>4, ScopeLists
      <4> QED BY <4>1, <4>2
    <3>5. CASE i # 0 /\ file[i].kind \in Bodies
      <4>1. i \in DOMAIN file /\ file[i].kind \notin Scopes
        BY <1>2, <3>1, <3>5 DEF Bodies, Scopes
      <4>2. g[i] = parse_nested_func(FunctionDef(file, layout, i), Inside(file, g, i))
        BY <3>3, <3>5, <4>1 DEF ParsedBy
      <4>3. ListsFound(file, layout, i, parse_nested_func(FunctionDef(file, layout, i), Inside(file, g, i)))
        BY <3>2, <3>5, <4>1, BodyLists
      <4> QED BY <4>2, <4>3
    <3>6. CASE i # 0 /\ file[i].kind \notin Bodies \cup Scopes
      <4>1. i \in DOMAIN file
        BY <1>2, <3>1, <3>6
      <4>2. g[i] = <<>>
        BY <3>3, <3>6 DEF ParsedBy
      <4> QED BY <3>6, <4>1, <4>2, NotLookedInto
    <3> QED BY <3>4, <3>5, <3>6
  <2>4. i \in l + 1 - m .. l \/ i = l - m
    OBVIOUS
  <2> QED BY <2>2, <2>3, <2>4
<1>6. l + 1 \in T
  BY <1>4, <1>5, NumberSets
<1>7. 0 \in l + 1 - (l + 1) .. l
  OBVIOUS
<1>8. ListsFound(file, layout, 0, g[0])
  BY <1>3, <1>6, <1>7
<1> QED BY <1>1, <1>8

\* Every function is found, once and in order, with how it is nested.
LEMMA FindsAll ==
    ASSUME NEW file, IsTree(file), NEW layout, NEW found, found = parse_file(file, layout)
    PROVE  FoundInOrder(file, found) /\ NestingIsRecorded(file, found)
<1>1. ListsFound(file, layout, 0, found)
  BY ParsedListsFound
<1>2. \A j : Within(file, 0, j)
  BY DEF Within
<1>3. FoundIn(file, 0) = {i \in DOMAIN file : /\ file[i].kind \in Bodies
                              /\ \A j \in Around(file)[i] : file[j].kind \in Bodies \cup Scopes}
  BY <1>2 DEF FoundIn
<1>4. \A k \in DOMAIN found : found[k].fn_name \in FoundIn(file, 0)
  BY <1>1 DEF ListsFound, Described
<1>5. \A j \in FoundIn(file, 0) : \E k \in DOMAIN found : found[k].fn_name = j
  BY <1>1 DEF ListsFound
<1>6. {found[k].fn_name : k \in DOMAIN found} = FoundIn(file, 0)
  BY <1>4, <1>5
<1>7. FoundInOrder(file, found)
  BY <1>1, <1>3, <1>6 DEF ListsFound, Rising, FoundInOrder
<1>8. ASSUME NEW k \in DOMAIN found,
             NEW outer, outer = {j \in Around(file)[found[k].fn_name] : file[j].kind \in Bodies}
      PROVE  (found[k].ty = "NestedFn") = (outer # {}) /\ (outer # {} => found[k].parent_func \in outer)
  <2>1. outer = OuterIn(file, 0, found[k].fn_name)
    BY <1>2, <1>8 DEF OuterIn
  <2>2. Described(file, layout, 0, found[k])
    BY <1>1 DEF ListsFound
  <2> QED BY <2>1, <2>2 DEF Described
<1>9. NestingIsRecorded(file, found)
  BY <1>8 DEF NestingIsRecorded
<1> QED BY <1>7, <1>9

-----------------------------------------------------------------------------
\* Where the items of an item begin, and where all that is in it ends.
LEMMA SpanOf ==
    ASSUME NEW file, IsTree(file), NEW i \in DOMAIN file, NEW e, e = ItemsIn(file, i),
           NEW last, last = LastWithin(file, i)
    PROVE  /\ i \in Nat \ {0} /\ last \in Nat /\ i <= last
           /\ \A j \in DOMAIN file : i \in Around(file)[j] => j \in Nat /\ i < j /\ j <= last
           /\ e = <<>> => \A j \in DOMAIN file : i \notin Around(file)[j]
           /\ e # <<>> => /\ e[1] \in Nat /\ i < e[1] /\ e[1] <= last
                          /\ \A j \in DOMAIN file : i \in Around(file)[j] => e[1] <= j
<1>1. PICK A : A = Around(file)
  OBVIOUS
<1>2. PICK l \in Nat : l = Len(file) /\ DOMAIN file = 1 .. l
  BY TreeParents
<1>3. i \in Nat \ {0} /\ i \in 0 .. Len(file) /\ i \in 1 .. l
  BY <1>2
<1>4. PICK S : S = {j \in DOMAIN file : j = i \/ i \in A[j]}
  OBVIOUS
<1>5. S \in SUBSET (1 .. l) /\ S # {}
  BY <1>2, <1>4
<1>6. PICK m \in S : \A k \in S : k <= m
  BY <1>5, Greatest
<1>7. \A j \in DOMAIN file : i \in A[j] => j \in Nat /\ i < j
  BY <1>1, <1>2, AroundBefore
<1>8. m \in i .. l /\ (m = i \/ i \in A[m])
  BY <1>2, <1>3, <1>4, <1>6, <1>7
<1>9. ASSUME NEW k \in m + 1 .. l PROVE i \notin A[k]
  <2>1. k \in DOMAIN file /\ ~(k <= m)
    BY <1>2, <1>5, <1>9
  <2> QED BY <1>4, <1>6, <2>1
<1>10. last \in i .. l /\ \A k \in last + 1 .. l : i \notin A[k]
  <2>1. \E j \in i .. l : (j = i \/ i \in A[j]) /\ \A k \in j + 1 .. l : i \notin A[k]
    BY <1>8, <1>9
  <2>2. last = CHOOSE j \in i .. l : (j = i \/ i \in A[j]) /\ \A k \in j + 1 .. l : i \notin A[k]
    BY <1>1, <1>2 DEF LastWithin
  <2> QED BY <2>1, <2>2
<1>11. ASSUME NEW j \in DOMAIN file, i \in A[j] PROVE j <= last
  <2>1. ~(j \in last + 1 .. l)
    BY <1>10, <1>11
  <2> QED BY <1>2, <1>3, <1>10, <2>1
<1>12. /\ IsSequence(e)
       /\ \A n \in DOMAIN e : e[n] \in DOMAIN file /\ file[e[n]].parent = i /\ e[n] \in i + 1 .. l
       /\ \A j \in DOMAIN file : file[j].parent = i => \E n \in DOMAIN e : e[n] = j
       /\ \A a, b \in DOMAIN e : a < b => e[a] < e[b]
  BY <1>2, <1>3, ItemsAre
<1>13. PICK n \in Nat : n = Len(e) /\ DOMAIN e = 1 .. n
  BY <1>12, SequenceShape
<1>14. ASSUME NEW j \in DOMAIN file, i \in A[j]
       PROVE  \E k \in 1 .. n : e[k] <= j
  <2>1. PICK c \in DOMAIN file : file[c].parent = i /\ (c = j \/ c \in A[j])
    <3>1. i \in {0} \cup Around(file)[j]
      BY <1>1, <1>14
    <3>2. \E c \in DOMAIN file : file[c].parent = i /\ (c = j \/ c \in Around(file)[j])
      BY <1>14, <3>1, ChildToward, Zenon
    <3> QED BY <1>1, <3>2
  <2>2. PICK k \in 1 .. n : e[k] = c
    BY <1>12, <1>13, <2>1
  <2>3. c <= j
    BY <1>1, <1>2, <2>1, AroundBefore
  <2> QED BY <2>2, <2>3
<1>15. e = <<>> => n = 0
  BY <1>13
<1>16. ASSUME e # <<>>
       PROVE  /\ e[1] \in Nat /\ i < e[1] /\ e[1] <= last
              /\ \A j \in DOMAIN file : i \in A[j] => e[1] <= j
  <2>1. n # 0
    <3>1. PICK T : e \in Seq(T)
      BY <1>12 DEF IsSequence
    <3> QED BY <1>13, <1>16, <3>1
  <2>2. 1 \in DOMAIN e /\ 1 \in 1 .. n
    BY <1>13, <2>1
  <2>3. PICK f \in DOMAIN file : f = e[1] /\ file[f].parent = i /\ f \in i + 1 .. l
    BY <1>12, <2>2
  <2>4. i \in A[f]
    BY <1>1, <1>3, <2>3, AroundFacts
  <2>5. f <= last
    BY <1>11, <2>4
  <2>6. ASSUME NEW j \in DOMAIN file, i \in A[j] PROVE f <= j
    <3>1. PICK k \in 1 .. n : e[k] <= j
      BY <1>14, <2>6
    <3>2. k = 1 \/ e[1] < e[k]
      BY <1>12, <1>13, <2>2
    <3>3. e[k] \in Nat
      BY <1>2, <1>12, <1>13
    <3> QED BY <1>2, <2>3, <3>1, <3>2, <3>3
  <2> QED BY <1>3, <2>3, <2>5, <2>6
<1> QED BY <1>1, <1>3, <1>7, <1>10, <1>11, <1>13, <1>14, <1>15, <1>16

\* Either place of a breakpoint is in the body of the function, and before those inside it.
LEMMA PlacesInside ==
    ASSUME NEW file, IsTree(file), NEW layout \in {"lines", "tight"}, NEW i \in DOMAIN file,
           NEW at, at \in {parse_body_loc_start(file, layout, i), parse_body_loc_end(file, layout, i)}
    PROVE  /\ Before(Right(OpenAt(file, layout, i), 1), at)
           /\ ~Before(Right(CloseAt(file, layout, i), 1), at)
           /\ \A j \in DOMAIN file : i \in Around(file)[j] => Before(at, OpenAt(file, layout, j))
<1>1. PICK e : e = ItemsIn(file, i)
  OBVIOUS
<1>2. PICK last : last = LastWithin(file, i)
  OBVIOUS
<1>3. /\ i \in Nat \ {0} /\ last \in Nat /\ i <= last
      /\ \A j \in DOMAIN file : i \in Around(file)[j] => j \in Nat /\ i < j /\ j <= last
      /\ e = <<>> => \A j \in DOMAIN file : i \notin Around(file)[j]
      /\ e # <<>> => /\ e[1] \in Nat /\ i < e[1] /\ e[1] <= last
                     /\ \A j \in DOMAIN file : i \in Around(file)[j] => e[1] <= j
  BY <1>1, <1>2, SpanOf
<1>4. CloseAt(file, layout, i) = IF layout = "lines" THEN <<last, 9 + last - i>> ELSE <<1, 20 * last + (9 + last - i)>>
  BY <1>2 DEF CloseAt, Place
<1>5. \A j : \E c \in {8, 19} :
         OpenAt(file, layout, j) = IF layout = "lines" THEN <<j, c>> ELSE <<1, 20 * j + c>>
  BY DEF OpenAt, Place
<1>6. CASE e = <<>>
  <2>1. OpenAt(file, layout, i) = IF layout = "lines" THEN <<i, 8>> ELSE <<1, 20 * i + 8>>
    BY <1>1, <1>6 DEF OpenAt, Place
  <2>2. at = Right(OpenAt(file, layout, i), 2)
    BY <1>1, <1>6 DEF parse_body_loc_start, parse_body_loc_end
  <2>3. CASE layout = "lines"
    BY <1>3, <1>4, <1>6, <2>1, <2>2, <2>3 DEF Right, Before
  <2>4. CASE layout = "tight"
    BY <1>3, <1>4, <1>6, <2>1, <2>2, <2>4 DEF Right, Before
  <2> QED BY <2>3, <2>4
<1>7. CASE e # <<>>
  <2>1. OpenAt(file, layout, i) = IF layout = "lines" THEN <<i, 19>> ELSE <<1, 20 * i + 19>>
    BY <1>1, <1>7 DEF OpenAt, Place
  <2>2. PICK f \in Nat : /\ f = e[1] /\ i < f /\ f <= last
                         /\ \A j \in DOMAIN file : i \in Around(file)[j] => f <= j
    BY <1>3, <1>7
  <2>3. \/ at = Right(OpenAt(file, layout, i), 2)
        \/ at = Right(IF layout = "lines" THEN <<f, 0>> ELSE <<1, 20 * f + 0>>, 1)
    BY <1>1, <1>7, <2>2 DEF parse_body_loc_start, parse_body_loc_end, ItemAt, Place
  <2>6. layout = "tight" => \E x \in Nat : at = <<1, x>> /\ 20 * i + 20 < x /\ x <= 20 * f + 1
    <3>1. ASSUME layout = "tight" PROVE at = <<1, 20 * i + 21>> \/ at = <<1, 20 * f + 1>>
      BY <1>3, <2>1, <2>2, <2>3, <3>1 DEF Right
    <3>2. 20 * i + 21 \in Nat /\ 20 * f + 1 \in Nat /\ 20 * i + 20 < 20 * f + 1 /\ 20 * i + 21 <= 20 * f + 1
      BY <1>3, <2>2
    <3> QED BY <1>3, <2>2, <3>1, <3>2
  <2>4. /\ Before(Right(OpenAt(file, layout, i), 1), at)
        /\ ~Before(Right(CloseAt(file, layout, i), 1), at)
    <3>1. CASE layout = "lines"
      BY <1>3, <1>4, <2>1, <2>2, <2>3, <3>1 DEF Right, Before
    <3>2. CASE layout = "tight"
      <4>1. PICK x \in Nat : at = <<1, x>> /\ 20 * i + 20 < x /\ x <= 20 * f + 1
        BY <1>3, <2>6, <3>2
      <4>2. Right(OpenAt(file, layout, i), 1) = <<1, 20 * i + 20>>
        BY <1>3, <2>1, <3>2 DEF Right
      <4>3. PICK y \in Nat : Right(CloseAt(file, layout, i), 1) = <<1, y>> /\ 20 * f + 1 < y
        BY <1>3, <1>4, <2>2, <3>2 DEF Right
      <4> QED BY <1>3, <4>1, <4>2, <4>3 DEF Before
    <3> QED BY <3>1, <3>2
  <2>5. ASSUME NEW j \in DOMAIN file, i \in Around(file)[j] PROVE Before(at, OpenAt(file, layout, j))
    <3>1. j \in Nat /\ i < j /\ f <= j
      BY <1>3, <2>2, <2>5
    <3>2. PICK c \in {8, 19} : OpenAt(file, layout, j) = IF layout = "lines" THEN <<j, c>> ELSE <<1, 20 * j + c>>
      BY <1>5
    <3>3. CASE layout = "lines"
      BY <1>3, <2>1, <2>2, <2>3, <3>1, <3>2, <3>3 DEF Right, Before
    <3>4. CASE layout = "tight"
      <4>1. PICK x \in Nat : at = <<1, x>> /\ x <= 20 * f + 1
        BY <1>3, <2>6, <3>4
      <4>2. PICK y \in Nat : OpenAt(file, layout, j) = <<1, y>> /\ 20 * f + 1 < y
        BY <2>2, <3>1, <3>2, <3>4
      <4> QED BY <4>1, <4>2, <2>2 DEF Before
    <3> QED BY <3>3, <3>4
  <2> QED BY <2>4, <2>5
<1> QED BY <1>6, <1>7

LEMMA AllInOwnBody ==
    ASSUME NEW file, IsTree(file), NEW layout \in {"lines", "tight"},
           NEW found, found = parse_file(file, layout)
    PROVE  InOwnBody(file, layout, found)
<1>1. ListsFound(file, layout, 0, found)
  BY ParsedListsFound
<1>2. ASSUME NEW k \in DOMAIN found, NEW i, i = found[k].fn_name,
             NEW at \in {found[k].loc.start, found[k].loc.end}
      PROVE  /\ Before(Right(OpenAt(file, layout, i), 1), at)
             /\ ~Before(Right(CloseAt(file, layout, i), 1), at)
             /\ \A j \in DOMAIN file : i \in Around(file)[j] => Before(at, OpenAt(file, layout, j))
  <2>1. Described(file, layout, 0, found[k])
    BY <1>1 DEF ListsFound
  <2>2. i \in DOMAIN file /\ found[k].loc = FunctionDef(file, layout, i).loc
    BY <1>2, <2>1 DEF Described, FoundIn
  <2>3. at \in {parse_body_loc_start(file, layout, i), parse_body_loc_end(file, layout, i)}
    BY <2>2 DEF FunctionDef
  <2> QED BY <2>2, <2>3, PlacesInside
<1> QED BY <1>2 DEF InOwnBody

-----------------------------------------------------------------------------
(***************************************************************************)
(* The maps that the command caches: each is what the parser makes of one  *)
(* of the sources, and a path is that of one source.                       *)
(***************************************************************************)
MapOfSource(map) ==
    \E file \in Range(scenario.files) :
        /\ map.at = MapPath(file.path) /\ map.path = file.path
        /\ map.functions = parse_file(file.tree, file.layout)

MapsInv == scenario \in Scenarios /\ \A map \in maps : MapOfSource(map)

LEMMA CacheKeepsMaps ==
    ASSUME MapsInv, Cache
    PROVE  MapsInv'
<1>1. scenario' = scenario
  BY DEF Cache
<1>2. ASSUME NEW map \in maps' PROVE MapOfSource(map)'
  <2>1. CASE map \in maps
    BY <1>1, <2>1 DEF MapsInv, MapOfSource, MapPath
  <2>2. CASE map \notin maps
    <3>1. PICK file \in Range(scenario.files) :
            map = [at |-> MapPath(file.path), path |-> file.path, crate_name |-> CrateOf(file.path),
                   functions |-> parse_file(file.tree, file.layout)]
      BY <2>2 DEF Cache
    <3>2. MapOfSource(map)
      BY <3>1 DEF MapOfSource
    <3>3. QED BY <1>1, <3>2 DEF MapOfSource, MapPath
  <2>3. QED BY <2>1, <2>2
<1>3. QED BY <1>1, <1>2 DEF MapsInv

LEMMA EveryStepKeepsMaps ==
    ASSUME MapsInv, [Next]_vars
    PROVE  MapsInv'
<1>1. CASE Cache
  BY <1>1, CacheKeepsMaps
<1>2. CASE ~Cache
  <2>1. scenario' = scenario /\ maps' = maps
    BY <1>2 DEF Next, Command, Dispatch, BuildFails, Build, IndexOrOpen, Debugger, Refused, Connect, ReadFails,
                Read, SetUp, Launch, Write, EnginePanics, EngineReturns, EndFails, End, Notify, Join,
                DebuggerEnds, TailTask, TailCreates, TailFails, TailReads, TailIsNotified, TailDrains, vars,
                commandVars
  <2>2. QED BY <2>1 DEF MapsInv, MapOfSource, MapPath
<1>3. QED BY <1>1, <1>2

\* What is known of the source that a map is of.
LEMMA SourceOfMap ==
    ASSUME MapsInv, NEW map \in maps
    PROVE  LET file == FileAt(map.path)
           IN  /\ IsTree(file.tree) /\ file.layout \in {"lines", "tight"}
               /\ map.functions = parse_file(file.tree, file.layout)
<1>1. PICK file \in Range(scenario.files) :
        map.path = file.path /\ map.functions = parse_file(file.tree, file.layout)
  BY DEF MapsInv, MapOfSource
<1>2. /\ IsTree(file.tree) /\ file.layout \in {"lines", "tight"}
      /\ \A g \in Range(scenario.files) : file.path = g.path => file = g
  BY ScenariosAssumption DEF MapsInv
<1>3. PICK g : g = FileAt(map.path)
  OBVIOUS
<1>4. g \in Range(scenario.files) /\ g.path = map.path
  BY <1>1, <1>3 DEF FileAt
<1>5. g = file
  BY <1>1, <1>2, <1>4
<1>6. QED BY <1>1, <1>2, <1>3, <1>5

\* A map has every function of its source that has a body and is inside functions and scopes only, once and
\* in the order of the source, marked as nested with a function that is around it; and either place of a
\* breakpoint is in the body of its own function, before every function inside it
\* (parser/src/parsing/function.rs, source.rs).
THEOREM MapsAreOfTheirSources ==
    Spec => [](FunctionsFound /\ NestedFunctionsAreMarked /\ BreakpointsAreInside)
<1>1. Init => MapsInv
  BY DEF Init, MapsInv
<1>2. MapsInv /\ [Next]_vars => MapsInv'
  BY EveryStepKeepsMaps
<1>3. MapsInv => FunctionsFound /\ NestedFunctionsAreMarked /\ BreakpointsAreInside
  <2> SUFFICES ASSUME MapsInv, NEW map \in maps
               PROVE  /\ FoundInOrder(FileAt(map.path).tree, map.functions)
                      /\ NestingIsRecorded(FileAt(map.path).tree, map.functions)
                      /\ InOwnBody(FileAt(map.path).tree, FileAt(map.path).layout, map.functions)
    BY DEF FunctionsFound, NestedFunctionsAreMarked, BreakpointsAreInside
  <2>1. PICK file : file = FileAt(map.path)
    OBVIOUS
  <2>2. /\ IsTree(file.tree) /\ file.layout \in {"lines", "tight"}
        /\ map.functions = parse_file(file.tree, file.layout)
    BY <2>1, SourceOfMap
  <2>3. FoundInOrder(file.tree, map.functions) /\ NestingIsRecorded(file.tree, map.functions)
    BY <2>2, FindsAll
  <2>4. InOwnBody(file.tree, file.layout, map.functions)
    BY <2>2, AllInOwnBody
  <2>5. QED BY <2>1, <2>3, <2>4
<1>4. QED BY <1>1, <1>2, <1>3, PTL DEF Spec

-----------------------------------------------------------------------------
(***************************************************************************)
(* The set-up, as the debugger goes through it: it begins with the files   *)
(* and functions that are read from the maps, numbered from 1 on, and      *)
(* another debugger begins anew.                                           *)
(***************************************************************************)
StartReady == SetupStart /\ IsSequence(files) /\ IsSequence(wanted) /\ \A k \in DOMAIN wanted : IsWanted(wanted[k])

FromOne == \A k \in DOMAIN wanted : wanted[k].file_id # 0

SetupGoesOn ==
    /\ SetupInv /\ FromOne
    /\ pc \in {"prompt", "cache", "build", "connect", "read"} => SetupStart

\* Once the sources are parsed, every file in a package has its map.
MapsThere ==
    pc \in {"build", "connect", "read"} =>
        \A file \in Range(scenario.files) :
            (\E package \in Range(ws.packages) : Under(file.path, package.root_dir)) =>
                \E map \in maps : map.at = MapPath(file.path)

LEMMA ReadyAgain == StartReady' => SetupInv'
<1>1. StartReady => SetupInv
  BY StartHolds DEF StartReady
<1>2. QED BY <1>1, PTL

LEMMA BeginsAnew ==
    ASSUME NEW result, DebuggerEnds(result)
    PROVE  SetupGoesOn' /\ pc' = "prompt"
<1>1. files' = <<>> /\ wanted' = <<>> /\ SetupStart' /\ pc' = "prompt"
  BY DEF DebuggerEnds, SetupStart
<1>2. IsSequence(<<>>) /\ DOMAIN <<>> = {}
  BY NothingSent
<1>3. StartReady'
  BY <1>1, <1>2 DEF StartReady
<1>4. QED BY <1>1, <1>2, <1>3, ReadyAgain DEF SetupGoesOn, FromOne

\* The map that is read for a source is a map, and lists functions.
LEMMA MapOfIsThere ==
    ASSUME MapsInv, MapsThere, pc = "read", NEW path, path \in Range(PathsIn(scenario)),
           Under(path, scenario.raw.root),
           NEW package \in Range(ws.packages), Under(path, package.root_dir)
    PROVE  MapOf(path) \in maps /\ IsSequence(MapOf(path).functions)
<1>1. PICK file \in Range(scenario.files) : file.path = path
  BY DEF Range, PathsIn
<1>2. PICK map \in maps : map.at = MapPath(path)
  BY <1>1 DEF MapsThere
<1>3. path \in Seq(STRING) /\ scenario.raw.root \in Seq(STRING)
  BY <1>1, ScenariosAssumption, WorkspacesAssumption DEF MapsInv
<1>4. MapPath(path) = <<"firedbg", "/">> \o Behind(path, scenario.raw.root)
  <2>1. PICK root : root = scenario.raw.root
    OBVIOUS
  <2>2. path \in Seq(STRING) /\ root \in Seq(STRING) /\ IsPrefix(root \o <<"/">>, path)
    BY <1>3, <2>1 DEF Under
  <2>3. <<"firedbg">> \o SubSeq(path, Len(root) + 1, Len(path))
        = <<"firedbg", "/">> \o SubSeq(path, Len(root) + 2, Len(path))
    BY <2>2, BehindRoot
  <2>4. QED BY <2>1, <2>3 DEF MapPath, Behind
<1>5. PICK found : found = MapOf(path)
  OBVIOUS
<1>6. found \in maps
  BY <1>2, <1>4, <1>5 DEF MapOf
<1>7. PICK source \in Range(scenario.files) : found.functions = parse_file(source.tree, source.layout)
  BY <1>6 DEF MapsInv, MapOfSource
<1>8. IsTree(source.tree)
  BY ScenariosAssumption DEF MapsInv
<1>9. IsSequence(found.functions)
  BY <1>7, <1>8, ParsedListsFound DEF ListsFound
<1>10. QED BY <1>5, <1>6, <1>9

\* The files are the internal one and the sources; every function that is wanted is in one of the sources.
LEMMA ReadIsReady ==
    ASSUME JobInv, MapsInv, MapsThere, SetupGoesOn, Read
    PROVE  SetupGoesOn'
<1>1. pc = "read" /\ pc' = "setup" /\ Planned
  BY DEF Read, JobInv
<1>2. PICK paths : paths = SourceFiles(scenario, job.arguments, job.selected.sort)
  OBVIOUS
<1>3. PICK n \in Nat : IsSequence(paths) /\ n = Len(paths) /\ DOMAIN paths = 1 .. n
  BY <1>1, <1>2, SourcesAreListed, SequenceShape
<1>4. ASSUME NEW k \in 1 .. n PROVE IsSequence(MapOf(paths[k]).functions)
  <2>1. /\ paths[k] \in Range(PathsIn(scenario)) /\ Under(paths[k], scenario.raw.root)
        /\ \E package \in Range(ws.packages) : Under(paths[k], package.root_dir)
    BY <1>1, <1>2, <1>3, SourcesInPackages
  <2>2. QED BY <1>1, <2>1, MapOfIsThere
<1>5. PICK lists : lists = [k \in DOMAIN paths |-> BreakpointsOf(k, MapOf(paths[k]))]
  OBVIOUS
<1>6. IsSequence(lists) /\ DOMAIN lists = 1 .. n /\ Len(lists) = n
  <2>1. DOMAIN lists = DOMAIN paths /\ lists = [k \in DOMAIN lists |-> lists[k]]
    BY <1>5
  <2>2. IsSequence(lists)
    BY <1>3, <2>1, Relisted
  <2>3. QED BY <1>3, <2>1, <2>2, SequenceShape
<1>7. ASSUME NEW k \in 1 .. n
      PROVE  IsSequence(lists[k]) /\ \A m \in DOMAIN lists[k] : lists[k][m].file_id = k
  <2>1. PICK fs : fs = MapOf(paths[k]).functions /\ IsSequence(fs)
    BY <1>4
  <2>2. PICK t : t = lists[k] /\ t = BreakpointsOf(k, MapOf(paths[k]))
    BY <1>3, <1>5
  <2>3. t = [m \in DOMAIN fs |-> [file_id |-> FileId(k), fn_name |-> fs[m].fn_name,
                                  loc |-> fs[m].loc.start, loc_end |-> fs[m].loc.end]]
    BY <2>1, <2>2 DEF BreakpointsOf
  <2>4. DOMAIN t = DOMAIN fs /\ t = [m \in DOMAIN t |-> t[m]]
    BY <2>3
  <2>5. IsSequence(t)
    BY <2>1, <2>4, Relisted
  <2>6. \A m \in DOMAIN t : t[m].file_id = k
    BY <2>3 DEF FileId
  <2>7. QED BY <2>2, <2>5, <2>6
<1>8. PICK s : s = wanted' /\ s = FlattenSeq(lists)
  BY <1>2, <1>5 DEF Read
<1>9. Holds(s, lists, n)
  BY <1>6, <1>7, <1>8, Flattened
<1>10. IsSequence(files') /\ DOMAIN files' = 1 .. n + 1
  <2>1. PICK t : t = [k \in DOMAIN paths |-> MapOf(paths[k]).crate_name]
    OBVIOUS
  <2>2. DOMAIN t = DOMAIN paths /\ t = [k \in DOMAIN t |-> t[k]]
    BY <2>1
  <2>3. IsSequence(t) /\ Len(t) = n
    BY <1>3, <2>2, Relisted, SequenceShape
  <2>4. PICK first : first = <<InternalFile>>
    OBVIOUS
  <2>5. IsSequence(first) /\ Len(first) = 1
    <3>1. first \in Seq({InternalFile}) /\ Len(first) = 1
      BY <2>4
    <3>2. QED BY <3>1 DEF IsSequence
  <2>6. PICK u : Joins(u, first, t) /\ files' = u
    BY <1>2, <2>1, <2>4 DEF Joins, Read
  <2>7. IsSequence(u) /\ Len(u) = 1 + n
    <3>1. IsSequence(u) /\ Len(u) = Len(first) + Len(t)
      BY <2>3, <2>5, <2>6, IsSequenceConcat, Zenon
    <3>2. QED BY <2>3, <2>5, <3>1
  <2>8. QED BY <1>3, <2>6, <2>7, SequenceShape
<1>11. ASSUME NEW l \in DOMAIN s PROVE s[l].file_id \in 1 .. n
  <2>1. PICK k \in 1 .. n : \E m \in DOMAIN lists[k] : s[l] = lists[k][m]
    BY <1>9 DEF Holds
  <2>2. s[l].file_id = k
    BY <1>7, <2>1
  <2>3. QED BY <2>2
<1>12. \A l \in DOMAIN s : s[l].file_id \in Nat /\ s[l].file_id + 1 \in DOMAIN files' /\ s[l].file_id # 0
  BY <1>10, <1>11
<1>13. SetupStart'
  BY <1>1 DEF Read, SetupGoesOn, SetupStart
<1>14. StartReady'
  BY <1>8, <1>9, <1>10, <1>12, <1>13 DEF StartReady, IsWanted, Holds
<1>15. FromOne'
  BY <1>8, <1>12 DEF FromOne
<1>16. QED BY <1>1, <1>14, <1>15, ReadyAgain DEF SetupGoesOn

LEMMA SetUpGoesOn ==
    ASSUME scenario \in Scenarios, SetupGoesOn, SetUp
    PROVE  SetupGoesOn'
<1>1. \A locs \in scenario.answers \cup scenario.internal : IsSequence(locs)
  BY ScenariosAssumption DEF IsSequence
<1>2. SetupInv'
  BY <1>1, StepKeeps DEF SetUp, SetupGoesOn
<1>3. wanted' = wanted \/ (wanted # <<>> /\ wanted' = Tail(wanted))
  BY DEF SetUp, SendFiles, AddInternal, InternalAdded, AddFunction, AddFunctionAtEnd, FunctionsAdded
<1>4. FromOne'
  <2>1. IsSequence(wanted)
    BY DEF SetupGoesOn, SetupInv, Shape
  <2>2. QED BY <1>3, <2>1, IsSequenceTail DEF SetupGoesOn, FromOne
<1>5. pc' = "setup"
  BY DEF SetUp
<1>6. QED BY <1>2, <1>4, <1>5 DEF SetupGoesOn

LEMMA EveryStepGoesOn ==
    ASSUME JobInv, MapsInv, MapsThere, SetupGoesOn, [Next]_vars
    PROVE  SetupGoesOn'
<1>1. ASSUME setupVars' = setupVars,
             pc' \in {"prompt", "cache", "build", "connect", "read"} =>
                pc \in {"prompt", "cache", "build", "connect", "read"}
      PROVE  SetupGoesOn'
  <2>1. UNCHANGED <<files, wanted, breakpoints, sb, created, breakpoint_addresses, announced, stage>>
    BY <1>1 DEF setupVars
  <2>2. SetupInv' /\ FromOne'
    BY <2>1 DEF SetupGoesOn, SetupInv, Shape, EntriesWereWanted, Enabled, FilesFirst, FilesAnnounced, IdsAgree,
                AddressesResolve, IsWanted, FromOne
  <2>3. SetupStart' <=> SetupStart
    BY <2>1 DEF SetupStart
  <2>4. QED BY <1>1, <2>2, <2>3 DEF SetupGoesOn
<1>2. CASE Command
  BY <1>1, <1>2 DEF Command, Dispatch, GiveUp, Cache, BuildFails, Build, IndexOrOpen
<1>3. CASE Refused \/ ReadFails \/ EnginePanics \/ EndFails \/ Join
  BY <1>3, BeginsAnew DEF Refused, ReadFails, EnginePanics, EndFails, Join
<1>4. CASE Connect \/ Launch \/ Write \/ EngineReturns \/ End \/ Notify \/ TailTask \/ UNCHANGED vars
  BY <1>1, <1>4 DEF Connect, Launch, Write, EngineReturns, End, Notify, TailTask, TailCreates, TailFails,
                    TailReads, TailIsNotified, TailDrains, vars
<1>5. CASE Read
  BY <1>5, ReadIsReady
<1>6. CASE SetUp
  BY <1>6, SetUpGoesOn DEF JobInv
<1>7. QED BY <1>2, <1>3, <1>4, <1>5, <1>6 DEF Next, Debugger

LEMMA EveryStepKeepsMapsThere ==
    ASSUME MapsThere, [Next]_vars
    PROVE  MapsThere'
<1>1. scenario' = scenario /\ ws' = ws /\ maps \subseteq maps'
  BY DEF Next, Command, Dispatch, Cache, BuildFails, Build, IndexOrOpen, Debugger, Refused, Connect, ReadFails,
         Read, SetUp, Launch, Write, EnginePanics, EngineReturns, EndFails, End, Notify, Join, DebuggerEnds,
         TailTask, TailCreates, TailFails, TailReads, TailIsNotified, TailDrains, vars, commandVars
<1>2. \A path : MapPath(path)' = MapPath(path)
  BY <1>1 DEF MapPath
<1>3. CASE pc' \notin {"build", "connect", "read"}
  BY <1>3 DEF MapsThere
<1>4. CASE pc \in {"build", "connect", "read"}
  BY <1>1, <1>2, <1>4 DEF MapsThere
<1>5. CASE pc \notin {"build", "connect", "read"} /\ pc' \in {"build", "connect", "read"}
  <2>1. Cache
    BY <1>5 DEF Next, Command, Dispatch, GiveUp, BuildFails, Build, IndexOrOpen, Debugger, Refused, Connect,
                ReadFails, Read, SetUp, Launch, Write, EnginePanics, EngineReturns, EndFails, End, Notify, Join,
                DebuggerEnds, TailTask, TailCreates, TailFails, TailReads, TailIsNotified, TailDrains, vars,
                commandVars
  <2>2. ASSUME NEW file \in Range(scenario.files),
               NEW package \in Range(ws.packages), Under(file.path, package.root_dir)
        PROVE  \E map \in maps' : map.at = MapPath(file.path)
    <3>1. CASE \E map \in maps : map.at = MapPath(file.path)
      BY <1>1, <3>1
    <3>2. CASE \A map \in maps : map.at # MapPath(file.path)
      <4>1. PICK map : map = [at |-> MapPath(file.path), path |-> file.path, crate_name |-> CrateOf(file.path),
                              functions |-> parse_file(file.tree, file.layout)]
        OBVIOUS
      <4>2. map \in maps'
        BY <2>1, <2>2, <3>2, <4>1 DEF Cache
      <4>3. map.at = MapPath(file.path)
        BY <4>1
      <4>4. QED BY <4>2, <4>3
    <3>3. QED BY <3>1, <3>2
  <2>3. QED BY <1>1, <1>2, <2>2 DEF MapsThere
<1>6. QED BY <1>3, <1>4, <1>5

LEMMA SessionStarts ==
    ASSUME Init
    PROVE  MapsInv /\ MapsThere /\ SetupGoesOn
<1>1. /\ scenario \in Scenarios /\ maps = {} /\ pc = "prompt"
      /\ files = <<>> /\ wanted = <<>> /\ SetupStart
  BY DEF Init
<1>2. IsSequence(<<>>) /\ DOMAIN <<>> = {}
  BY NothingSent
<1>3. SetupInv
  BY <1>1, <1>2, StartHolds
<1>4. QED BY <1>1, <1>2, <1>3 DEF MapsInv, MapsThere, SetupGoesOn, FromOne

\* In every run of every session the tables of the debugger fit what LLDB was made to set, whatever files and
\* functions are read from the maps (debugger/src/main.rs:143-172) and whatever LLDB answers.
THEOREM TablesAlwaysFitInSessions == Spec => []TablesFitLLDB
<1>1. Init => WholeInv /\ JobInv /\ MapsInv /\ MapsThere /\ SetupGoesOn
  BY FirstState, SessionStarts
<1>2. WholeInv /\ JobInv /\ MapsInv /\ MapsThere /\ SetupGoesOn /\ [Next]_vars =>
        (WholeInv /\ JobInv /\ MapsInv /\ MapsThere /\ SetupGoesOn)'
  BY EveryStepKeeps, EveryStepKeepsMaps, EveryStepKeepsMapsThere, EveryStepGoesOn
<1>3. SetupGoesOn => TablesFitLLDB
  BY TablesFit DEF SetupGoesOn
<1>4. QED BY <1>1, <1>2, <1>3, PTL DEF Spec

-----------------------------------------------------------------------------
(***************************************************************************)
(* The rest of the state: what is shown was written before.                *)
(***************************************************************************)
Counts == lost \in Nat /\ printed \in Nat /\ wrote \in Nat /\ lost <= printed /\ printed <= wrote

Control ==
    /\ pc \in {"prompt", "cache", "build", "connect", "read", "setup", "running", "end", "notify", "join"}
    /\ tail \in {"none", "spawned", "reading", "draining", "done", "failed"} /\ permit \in BOOLEAN
    /\ \A k \in DOMAIN results : results[k] \in {"ok", "tail failed", "panicked", "failed", "refused"}

\* A number of bytes is the sum of the widths of so many characters.
SumTo(upto, n, i) == IF i = 0 THEN 0 ELSE upto[i - 1] + scenario.output[i]

IsSum(upto, n) == upto = [i \in 0 .. n |-> SumTo(upto, n, i)]

LEMMA SumNext ==
    ASSUME NEW n \in Nat, NEW f, IsSum(f, n)
    PROVE  \E g : IsSum(g, n + 1)
<1>1. PICK g : g = [i \in 0 .. n + 1 |-> IF i = n + 1 THEN f[n] + scenario.output[n + 1] ELSE f[i]]
  OBVIOUS
<1>2. DOMAIN f = 0 .. n /\ \A i \in 0 .. n : f[i] = SumTo(f, n, i)
  BY DEF IsSum
<1>3. ASSUME NEW i \in 0 .. n + 1 PROVE g[i] = SumTo(g, n + 1, i)
  <2>1. CASE i = n + 1
    <3>1. n \in 0 .. n + 1 /\ n # n + 1 /\ i # 0 /\ i - 1 = n
      BY <2>1
    <3>2. g[n] = f[n] /\ g[i] = f[n] + scenario.output[n + 1]
      BY <1>1, <2>1, <3>1
    <3>3. QED BY <2>1, <3>1, <3>2 DEF SumTo
  <2>2. CASE i # n + 1
    <3>1. i \in 0 .. n /\ g[i] = f[i] /\ (i # 0 => i - 1 \in 0 .. n + 1 /\ i - 1 # n + 1)
      BY <1>1, <2>2
    <3>2. i # 0 => g[i - 1] = f[i - 1]
      BY <1>1, <3>1
    <3>3. QED BY <1>2, <3>1, <3>2 DEF SumTo
  <2>3. QED BY <2>1, <2>2
<1>4. IsSum(g, n + 1)
  <2>1. g = [i \in 0 .. n + 1 |-> g[i]]
    BY <1>1
  <2>2. QED BY <1>3, <2>1 DEF IsSum
<1>5. QED BY <1>4

LEMMA BoundariesAreNumbers ==
    ASSUME scenario \in Scenarios
    PROVE  Boundaries \subseteq Nat
<1>1. PICK n \in Nat : n = Len(scenario.output) /\ \A i \in 1 .. n : scenario.output[i] \in Nat
  <2>1. PICK output : output = scenario.output /\ output \in Seq(Nat)
    BY ScenariosAssumption
  <2>2. Len(output) \in Nat /\ \A i \in 1 .. Len(output) : output[i] \in Nat
    BY <2>1
  <2>3. QED BY <2>1, <2>2
<1>2. \A m \in Nat : \E f : IsSum(f, m)
  <2>1. PICK T : T = {m \in Nat : \E f : IsSum(f, m)}
    OBVIOUS
  <2>2. 0 \in T
    <3>1. PICK f : f = [i \in {0} |-> 0]
      OBVIOUS
    <3>2. IsSum(f, 0)
      <4>1. 0 .. 0 = {0} /\ \A i \in {0} : SumTo(f, 0, i) = 0
        BY DEF SumTo
      <4>2. [i \in 0 .. 0 |-> SumTo(f, 0, i)] = [i \in {0} |-> 0]
        BY <4>1
      <4>3. QED BY <3>1, <4>2 DEF IsSum
    <3>3. QED BY <2>1, <3>2
  <2>3. \A m \in Nat : m \in T => m + 1 \in T
    BY <2>1, SumNext
  <2>4. \A m \in Nat : m \in T
    BY <2>2, <2>3, NumberSets
  <2>5. QED BY <2>1, <2>4
<1>3. PICK upto : upto = CHOOSE f : IsSum(f, n)
  OBVIOUS
<1>4. IsSum(upto, n)
  BY <1>2, <1>3
<1>5. Boundaries = {upto[i] : i \in 0 .. n}
  BY <1>1, <1>3 DEF Boundaries, IsSum, SumTo
<1>6. \A i \in 0 .. n : upto[i] = SumTo(upto, n, i)
  BY <1>4 DEF IsSum
<1>7. \A i \in Nat : i \in 0 .. n => upto[i] \in Nat
  <2>1. PICK T : T = {i \in Nat : i \in 0 .. n => upto[i] \in Nat}
    OBVIOUS
  <2>2. 0 \in T
    BY <1>6, <2>1 DEF SumTo
  <2>3. ASSUME NEW i \in Nat, i \in T PROVE i + 1 \in T
    <3>1. CASE i + 1 \in 0 .. n
      <4>1. i \in 0 .. n /\ i + 1 \in 1 .. n /\ i + 1 # 0 /\ (i + 1) - 1 = i
        BY <3>1
      <4>2. upto[i + 1] = upto[i] + scenario.output[i + 1]
        BY <1>6, <3>1, <4>1 DEF SumTo
      <4>3. upto[i] \in Nat /\ scenario.output[i + 1] \in Nat
        BY <1>1, <2>1, <2>3, <4>1
      <4>4. QED BY <2>1, <4>2, <4>3
    <3>2. CASE i + 1 \notin 0 .. n
      BY <2>1, <3>2
    <3>3. QED BY <3>1, <3>2
  <2>4. \A i \in Nat : i \in T
    BY <2>2, <2>3, NumberSets
  <2>5. QED BY <2>1, <2>4
<1>8. QED BY <1>5, <1>7

LEMMA EveryStepCounts ==
    ASSUME scenario \in Scenarios, Counts, [Next]_vars
    PROVE  Counts'
<1>1. ASSUME UNCHANGED <<wrote, lost, printed>> PROVE Counts'
  BY <1>1 DEF Counts
<1>2. ASSUME NEW to \in Nat, to >= printed, to <= wrote, NEW next, print_to_stdout(to, next),
             UNCHANGED <<wrote, lost>>
      PROVE  Counts'
  <2>1. printed' = to \/ printed' = printed
    BY <1>2 DEF print_to_stdout
  <2>2. QED BY <1>2, <2>1 DEF Counts
<1>3. CASE Command
  BY <1>1, <1>3 DEF Command, Dispatch, Cache, BuildFails, Build, IndexOrOpen, tailVars
<1>4. CASE Refused \/ ReadFails \/ EnginePanics \/ EndFails \/ Join
  <2>1. wrote' = 0 /\ lost' = 0 /\ printed' = 0
    BY <1>4 DEF Refused, ReadFails, EnginePanics, EndFails, Join, DebuggerEnds
  <2>2. QED BY <2>1 DEF Counts
<1>5. CASE Connect \/ Read \/ SetUp \/ Launch \/ EngineReturns \/ End \/ Notify \/ UNCHANGED vars
  BY <1>1, <1>5 DEF Connect, Read, SetUp, Launch, EngineReturns, End, Notify, tailVars, vars
<1>6. CASE Write
  <2>1. PICK to \in Boundaries : to > wrote /\ wrote' = to /\ UNCHANGED <<lost, printed>>
    BY <1>6 DEF Write
  <2>2. to \in Nat
    BY BoundariesAreNumbers
  <2>3. QED BY <2>1, <2>2 DEF Counts
<1>7. CASE TailCreates
  BY <1>7 DEF TailCreates, Counts
<1>8. CASE TailReads
  <2>1. PICK to \in (printed + 1) .. wrote : print_to_stdout(to, "reading") /\ UNCHANGED <<wrote, lost>>
    BY <1>8 DEF TailReads
  <2>2. to \in Nat /\ to >= printed /\ to <= wrote
    BY DEF Counts
  <2>3. QED BY <1>2, <2>1, <2>2
<1>9. CASE TailFails \/ TailIsNotified
  BY <1>1, <1>9 DEF TailFails, TailIsNotified
<1>10. CASE TailDrains
  <2>1. PICK to \in Drained : print_to_stdout(to, "done") /\ UNCHANGED <<wrote, lost>>
    BY <1>10 DEF TailDrains
  <2>2. to \in Nat /\ to >= printed /\ to <= wrote
    BY DEF Counts, Drained
  <2>3. QED BY <1>2, <2>1, <2>2
<1>11. QED BY <1>3, <1>4, <1>5, <1>6, <1>7, <1>8, <1>9, <1>10 DEF Next, Debugger, TailTask

LEMMA AppendedIn ==
    ASSUME NEW s, IsSequence(s), NEW S, \A k \in DOMAIN s : s[k] \in S, NEW x \in S, NEW t, Appends(t, s, x)
    PROVE  \A k \in DOMAIN t : t[k] \in S
<1>1. PICK n \in Nat : n = Len(s) /\ DOMAIN s = 1 .. n
  BY SequenceShape
<1>2. DOMAIN t = 1 .. n + 1 /\ t[n + 1] = x /\ \A k \in 1 .. n : t[k] = s[k]
  BY <1>1, IsSequenceAppend
<1>3. \A k \in 1 .. n + 1 : k \in 1 .. n \/ k = n + 1
  OBVIOUS
<1>4. QED BY <1>1, <1>2, <1>3

LEMMA EndControls ==
    ASSUME IsSequence(results), Control,
           NEW result \in {"ok", "tail failed", "panicked", "failed", "refused"}, DebuggerEnds(result)
    PROVE  Control'
<1> DEFINE Ends == {"ok", "tail failed", "panicked", "failed", "refused"}
<1>1. Appends(results', results, result)
  BY DEF DebuggerEnds, Appends
<1>2. \A k \in DOMAIN results : results[k] \in Ends
  BY DEF Control
<1>3. result \in Ends
  OBVIOUS
<1> HIDE DEF Ends
<1>4. \A k \in DOMAIN results' : results'[k] \in Ends
  BY <1>1, <1>2, <1>3, AppendedIn
<1>5. pc' = "prompt" /\ tail' = "none" /\ permit' = FALSE
  BY DEF DebuggerEnds
<1>6. QED BY <1>4, <1>5 DEF Control, Ends

LEMMA EveryStepControls ==
    ASSUME IsSequence(results), Control, [Next]_vars
    PROVE  Control'
<1>1. ASSUME NEW result \in {"ok", "tail failed", "panicked", "failed", "refused"}, DebuggerEnds(result)
      PROVE  Control'
  BY <1>1, EndControls
<1>2. CASE Command
  BY <1>2 DEF Command, Dispatch, GiveUp, Cache, BuildFails, Build, IndexOrOpen, tailVars, Control
<1>3. CASE Refused \/ ReadFails \/ EnginePanics \/ EndFails \/ Join
  BY <1>1, <1>3 DEF Refused, ReadFails, EnginePanics, EndFails, Join
<1>4. CASE Connect \/ Read \/ SetUp \/ Launch \/ Write
  BY <1>4 DEF Connect, Read, SetUp, Launch, Write, tailVars, Control
<1>5. CASE EngineReturns \/ End \/ Notify \/ UNCHANGED vars
  BY <1>5 DEF EngineReturns, End, Notify, NotifyOne, tailVars, vars, Control
<1>6. CASE TailTask
  BY <1>6 DEF TailTask, TailCreates, TailFails, TailReads, TailIsNotified, TailDrains, print_to_stdout, Control
<1>7. QED BY <1>2, <1>3, <1>4, <1>5, <1>6 DEF Next, Debugger

\* The state is well formed: a function that is to be set has a file that is a source, and what is shown was
\* written.
THEOREM SessionsAreWellFormed == Spec => []TypeOK
<1> DEFINE Everything == WholeInv /\ JobInv /\ MapsInv /\ MapsThere /\ SetupGoesOn /\ Counts /\ Control
<1>1. Init => Everything
  <2>1. Init => Counts /\ Control
    <3>1. Init => Counts
      <4>1. Init => lost = 0 /\ printed = 0 /\ wrote = 0
        BY DEF Init
      <4>2. QED BY <4>1 DEF Counts
    <3>2. Init => Control
      <4>1. Init => pc = "prompt" /\ tail = "none" /\ permit = FALSE /\ DOMAIN results = {}
        BY NothingSent DEF Init
      <4>2. QED BY <4>1 DEF Control
    <3>3. QED BY <3>1, <3>2
  <2>2. QED BY <2>1, FirstState, SessionStarts
<1>2. Everything /\ [Next]_vars => Everything'
  <2>1. WholeInv => IsSequence(results)
    BY DEF WholeInv, Books
  <2>2. JobInv => scenario \in Scenarios
    BY DEF JobInv
  <2>3. QED BY <2>1, <2>2, EveryStepKeeps, EveryStepKeepsMaps, EveryStepKeepsMapsThere, EveryStepGoesOn,
               EveryStepCounts, EveryStepControls
<1>3. Everything => TypeOK
  <2> SUFFICES ASSUME SetupGoesOn, Counts, Control PROVE TypeOK
    OBVIOUS
  <2>1. IsSequence(files) /\ \A k \in DOMAIN wanted : IsWanted(wanted[k]) /\ wanted[k].file_id # 0
    BY DEF SetupGoesOn, SetupInv, Shape, FromOne
  <2>2. PICK n \in Nat : n = Len(files) /\ DOMAIN files = 1 .. n
    BY <2>1, SequenceShape
  <2>3. \A k \in DOMAIN wanted : wanted[k].file_id \in 1 .. (Len(files) - 1)
    BY <2>1, <2>2 DEF IsWanted
  <2>4. QED BY <2>3 DEF Counts, Control, TypeOK
<1>4. QED BY <1>1, <1>2, <1>3, PTL DEF Spec

-----------------------------------------------------------------------------
(***************************************************************************)
(* The workspace is read right.                                            *)
(***************************************************************************)
\* The sources of the debugger are those that are read for its job; a map has the crate of its source.
SourcesRead == pc = "setup" => job.paths = SourceFiles(scenario, job.arguments, job.selected.sort)

CratesWritten ==
    \A map \in maps : /\ map.crate_name = CrateOf(map.path)
                      /\ \E package \in Range(ws.packages) : Under(map.path, package.root_dir)

LEMMA EveryStepReads ==
    ASSUME JobInv, SourcesRead, [Next]_vars
    PROVE  SourcesRead'
<1>1. CASE Read
  <2>1. PICK paths, argv : /\ paths = SourceFiles(scenario, job.arguments, job.selected.sort)
                           /\ job' = [job EXCEPT !.paths = paths, !.argv = argv]
    BY <1>1 DEF Read
  <2>2. Planned /\ scenario' = scenario
    BY <1>1 DEF Read, JobInv, commandVars
  <2>3. job'.paths = paths /\ job'.arguments = job.arguments /\ job'.selected = job.selected
    BY <2>1, <2>2 DEF Planned, NoJob
  <2>4. PathsIn(scenario') = PathsIn(scenario)
    BY <2>2 DEF PathsIn
  <2> QED BY <2>1, <2>2, <2>3, <2>4 DEF SourcesRead, SourceFiles
<1>2. CASE SetUp \/ UNCHANGED vars
  <2>1. scenario' = scenario /\ job' = job /\ pc' = pc
    BY <1>2 DEF SetUp, vars, commandVars
  <2> QED BY <2>1 DEF SourcesRead, SourceFiles, PathsIn
<1>3. CASE pc = "setup" /\ UNCHANGED <<scenario, job, pc>>
  BY <1>3 DEF SourcesRead, SourceFiles, PathsIn
<1>4. CASE pc' # "setup"
  BY <1>4 DEF SourcesRead
<1>5. Read \/ SetUp \/ UNCHANGED vars \/ pc' # "setup" \/ UNCHANGED <<scenario, job, pc>>
  BY DEF Next, Command, Dispatch, GiveUp, Cache, BuildFails, Build, IndexOrOpen, Debugger, Refused, Connect,
         ReadFails, Launch, Write, EnginePanics, EngineReturns, EndFails, End, Notify, Join, DebuggerEnds,
         TailTask, TailCreates, TailFails, TailReads, TailIsNotified, TailDrains, vars, commandVars
<1> QED BY <1>1, <1>2, <1>3, <1>4, <1>5

LEMMA EveryStepWritesCrates ==
    ASSUME CratesWritten, [Next]_vars
    PROVE  CratesWritten'
<1>1. ws' = ws
  BY DEF Next, Command, Dispatch, Cache, BuildFails, Build, IndexOrOpen, Debugger, Refused, Connect, ReadFails,
         Read, SetUp, Launch, Write, EnginePanics, EngineReturns, EndFails, End, Notify, Join, DebuggerEnds,
         TailTask, TailCreates, TailFails, TailReads, TailIsNotified, TailDrains, vars, commandVars
<1>2. \A path : CrateOf(path)' = CrateOf(path)
  BY <1>1 DEF CrateOf, FirstOf, SelectInSeq
<1>3. CASE Cache
  <2>1. ASSUME NEW map \in maps', map \notin maps
        PROVE  /\ map.crate_name = CrateOf(map.path)
               /\ \E package \in Range(ws.packages) : Under(map.path, package.root_dir)
    <3>1. PICK file : /\ \E package \in Range(ws.packages) : Under(file.path, package.root_dir)
                      /\ map = [at |-> MapPath(file.path), path |-> file.path, crate_name |-> CrateOf(file.path),
                                functions |-> parse_file(file.tree, file.layout)]
      BY <1>3, <2>1 DEF Cache
    <3> QED BY <3>1
  <2> QED BY <1>1, <1>2, <2>1 DEF CratesWritten
<1>4. CASE ~Cache
  <2>1. maps' = maps
    BY <1>4 DEF Next, Command, Dispatch, BuildFails, Build, IndexOrOpen, Debugger, Refused, Connect, ReadFails,
                Read, SetUp, Launch, Write, EnginePanics, EngineReturns, EndFails, End, Notify, Join,
                DebuggerEnds, TailTask, TailCreates, TailFails, TailReads, TailIsNotified, TailDrains, vars,
                commandVars
  <2> QED BY <1>1, <1>2, <2>1 DEF CratesWritten
<1> QED BY <1>3, <1>4

\* What is known of a source.
LEMMA OwnerOf ==
    ASSUME NEW s \in Scenarios, NEW w, w = parse_workspace(s.raw), NEW file \in Range(s.files)
    PROVE  /\ \E p \in Range(w.packages) : p.name = file.owner /\ Under(file.path, p.root_dir)
           /\ \A p \in Range(w.packages), dir \in {"src", "bin", "tests", "examples"} :
                  Under(file.path, p.root_dir \o <<"/", dir>>) <=> (p.name = file.owner /\ file.in = dir)
  BY WorkspacesAssumption

LEMMA CratesOfSources ==
    ASSUME scenario \in Scenarios, ws = parse_workspace(scenario.raw), MapsInv, CratesWritten
    PROVE  CratesAreRight
<1> SUFFICES ASSUME NEW map \in maps, NEW file, file = FileAt(map.path), map.crate_name # file.owner,
                    NEW k, k = CHOOSE i \in DOMAIN ws.packages : ws.packages[i].name = file.owner
             PROVE  \E j \in 1 .. (k - 1) : Under(map.path, ws.packages[j].root_dir)
  BY DEF CratesAreRight
<1>1. file \in Range(scenario.files) /\ file.path = map.path
  <2>1. \E g \in Range(scenario.files) : g.path = map.path
    BY DEF MapsInv, MapOfSource
  <2> QED BY <2>1 DEF FileAt
<1>2. PICK packages : packages = ws.packages /\ IsSequence(packages)
  BY WorkspaceIs
<1>3. PICK n \in Nat : n = Len(packages) /\ DOMAIN packages = 1 .. n
  BY <1>2, SequenceShape
<1>4. PICK p \in Range(packages) : p.name = file.owner /\ Under(map.path, p.root_dir)
  BY <1>1, <1>2, OwnerOf
<1>5. k \in 1 .. n /\ packages[k].name = file.owner
  <2>1. \E i \in 1 .. n : packages[i].name = file.owner
    BY <1>3, <1>4 DEF Range
  <2> QED BY <1>2, <1>3, <2>1
<1>6. packages[k] = p
  <2>1. packages[k] \in Range(ws.packages) /\ p \in Range(ws.packages)
    BY <1>2, <1>3, <1>4, <1>5 DEF Range
  <2> QED BY <1>4, <1>5, <2>1, PackagesAre
<1>7. PICK I : I = {i \in 1 .. n : Under(map.path, packages[i].root_dir)}
  OBVIOUS
<1>8. I # {} /\ Min(I) \in I /\ \A i \in I : Min(I) <= i
  BY <1>4, <1>5, <1>6, <1>7, LeastPlace
<1>9. PICK j \in 1 .. n : j = Min(I) /\ Under(map.path, packages[j].root_dir) /\ j <= k
  BY <1>4, <1>5, <1>6, <1>7, <1>8
<1>10. map.crate_name = packages[j].name
  <2>1. map.crate_name = CrateOf(map.path)
    BY DEF CratesWritten
  <2>2. Min(I) # 0
    BY <1>9
  <2> QED BY <1>2, <1>3, <1>7, <1>8, <1>9, <2>1, <2>2 DEF CrateOf, FirstOf, SelectInSeq
<1>11. j # k
  BY <1>5, <1>10
<1>12. j \in 1 .. (k - 1)
  BY <1>5, <1>9, <1>11
<1> QED BY <1>2, <1>9, <1>12

LEMMA TracesAreAsked ==
    ASSUME JobInv, SourcesRead
    PROVE  TracedAsAsked
<1> SUFFICES ASSUME pc = "setup"
             PROVE  \A k \in DOMAIN scenario.files :
                        Contains(job.paths, Paths[k]) <=>
                            /\ Asked(scenario.files[k].owner)
                            /\ scenario.files[k].in \in {"src", CASE job.selected.sort = "bin"     -> "bin"
                                                                  [] job.selected.sort = "example" -> "examples"
                                                                  [] OTHER                         -> "tests"}
  BY DEF TracedAsAsked
<1>1. Planned /\ scenario \in Scenarios /\ ws = parse_workspace(scenario.raw)
  BY DEF JobInv
<1>2. PICK paths : paths = job.paths /\ ReadsTraced(scenario, ws, job.selected, paths)
  BY <1>1, SourcesOfJob DEF SourcesRead
<1>3. PICK D : D = Range(SrcDirs(job.selected.sort))
  OBVIOUS
<1>4. /\ D \subseteq {"src", "bin", "tests", "examples"}
      /\ D = {"src", CASE job.selected.sort = "bin"     -> "bin"
                      [] job.selected.sort = "example" -> "examples"
                      [] OTHER                         -> "tests"}
  <2>1. job.selected.sort \in Sorts
    BY <1>1 DEF Planned
  <2>2. \A x, y : Range(<<x, y>>) = {x, y}
    BY DEF Range
  <2>3. CASE job.selected.sort = "bin"
    BY <1>3, <2>2, <2>3 DEF SrcDirs
  <2>4. CASE job.selected.sort \in {"test", "unit-test"}
    BY <1>3, <2>2, <2>4 DEF SrcDirs
  <2>5. CASE job.selected.sort = "example"
    BY <1>3, <2>2, <2>5 DEF SrcDirs
  <2> QED BY <2>1, <2>3, <2>4, <2>5 DEF Sorts
<1>5. PICK trace : trace = TracesIn(scenario, ws, job.selected)
  OBVIOUS
<1>6. ASSUME NEW p \in Range(ws.packages)
      PROVE  trace[p.name] \in {"full", "call-only"} <=> Asked(p.name)
  <2>1. trace[p.name] = IF p.name \in DOMAIN scenario.config.members THEN scenario.config.members[p.name]
                        ELSE IF p.name = job.selected.package.name THEN "full" ELSE "none"
    BY <1>5 DEF TracesIn, parse_trace_config
  <2>2. p.name \in DOMAIN scenario.config.members =>
            scenario.config.members[p.name] \in {"none", "call-only", "full"}
    BY <1>1, WorkspacesAssumption
  <2> QED BY <2>1, <2>2 DEF Asked
<1>7. ASSUME NEW k \in DOMAIN scenario.files
      PROVE  Contains(paths, Paths[k]) <=> Asked(scenario.files[k].owner) /\ scenario.files[k].in \in D
  <2>1. PICK file \in Range(scenario.files) : file = scenario.files[k]
    BY DEF Range
  <2>2. Paths[k] = file.path /\ file.path \in Range(PathsIn(scenario))
    BY <2>1 DEF Paths, PathsIn, Range
  <2>3. Contains(paths, file.path) <=> file.path \in Range(paths)
    <3>1. DOMAIN paths = 1 .. Len(paths)
      BY <1>2, SequenceShape DEF ReadsTraced
    <3> QED BY <3>1 DEF Contains, Range
  <2>4. file.path \in Range(paths) <=>
            \E p \in Range(ws.packages), d \in D :
                trace[p.name] \in {"full", "call-only"} /\ Under(file.path, p.root_dir \o <<"/", d>>)
    BY <1>2, <1>3, <1>5, <2>2 DEF ReadsTraced
  <2>5. \A p \in Range(ws.packages), d \in D :
            Under(file.path, p.root_dir \o <<"/", d>>) <=> (p.name = file.owner /\ file.in = d)
    BY <1>1, <1>4, OwnerOf
  <2>6. file.path \in Range(paths) <=>
            \E p \in Range(ws.packages), d \in D : Asked(p.name) /\ p.name = file.owner /\ file.in = d
    BY <1>6, <2>4, <2>5
  <2>7. \E p \in Range(ws.packages) : p.name = file.owner
    BY <1>1, OwnerOf
  <2> QED BY <2>1, <2>2, <2>3, <2>6, <2>7
<1> QED BY <1>2, <1>4, <1>7

-----------------------------------------------------------------------------
(* The targets that are offered. *)
HasTarget(w, sort, name, k) ==
    /\ k \in DOMAIN w.packages /\ Contains(w.packages[k][sort], name)
    /\ \A j \in 1 .. (k - 1) : ~Contains(w.packages[j][sort], name)

LEMMA FoundFirst ==
    ASSUME NEW w, IsSequence(w.packages), NEW sort, NEW name,
           NEW p \in Range(w.packages), Contains(p[sort], name)
    PROVE  \E k : HasTarget(w, sort, name, k) /\ find_target(w, sort, name) = w.packages[k]
<1>1. PICK packages : packages = w.packages
  OBVIOUS
<1>2. PICK n \in Nat : n = Len(packages) /\ DOMAIN packages = 1 .. n
  BY <1>1, SequenceShape
<1>3. PICK I : I = {i \in 1 .. n : Contains(packages[i][sort], name)}
  OBVIOUS
<1>4. PICK i \in 1 .. n : packages[i] = p
  BY <1>1, <1>2 DEF Range
<1>5. I # {} /\ Min(I) \in I /\ \A j \in I : Min(I) <= j
  BY <1>3, <1>4, LeastPlace
<1>6. PICK k : k = Min(I) /\ k \in I /\ \A j \in I : k <= j
  BY <1>5
<1> k \in 1 .. n /\ k # 0 /\ Contains(packages[k][sort], name)
  BY <1>3, <1>6
<1>7. \A j \in 1 .. (k - 1) : j \in 1 .. n /\ ~(k <= j)
  OBVIOUS
<1>8. HasTarget(w, sort, name, k)
  BY <1>1, <1>2, <1>3, <1>6, <1>7 DEF HasTarget
<1>9. find_target(w, sort, name) = packages[k]
  BY <1>1, <1>2, <1>3, <1>5, <1>6 DEF find_target, FirstOf, SelectInSeq
<1> QED BY <1>1, <1>8, <1>9

NamesOf(p)      == Range(p.bin) \cup Range(p.test) \cup Range(p.example)
CasesOf(s, p)   == UNION {s.cases[p.name][name] : name \in Range(p.test) \cup {"lib"}}

\* A selection of what there is is not None.
LEMMA SelectionIsThere ==
    ASSUME NEW s \in Scenarios, NEW w, w = parse_workspace(s.raw),
           NEW p \in Range(w.packages), NEW q \in Range(w.packages), NEW sort \in Sorts,
           NEW target \in NamesOf(p) \cup {"lib"}, NEW testcase \in CasesOf(s, q) \cup {None}
    PROVE  /\ p # None /\ \A name \in NamesOf(p) : name # None
           /\ Selected(q, sort, target, testcase) # None
<1>1. PICK P : P = Range(w.packages)
  OBVIOUS
<1>2. PICK names : names = UNION {Range(r.bin) \cup Range(r.test) \cup Range(r.example) : r \in P}
  OBVIOUS
<1>3. PICK cases : cases = UNION {UNION {s.cases[r.name][name] : name \in Range(r.test) \cup {"lib"}} : r \in P}
  OBVIOUS
<1>4. /\ None \notin P /\ None \notin names
      /\ None \notin [package : P, sort : {"bin", "test", "unit-test", "example"},
                      target : names \cup {"lib"}, testcase : cases \cup {None}]
  BY <1>1, <1>2, <1>3, WorkspacesAssumption
<1>5. NamesOf(p) \subseteq names
  BY <1>1, <1>2 DEF NamesOf
<1>6. CasesOf(s, q) \subseteq cases
  BY <1>1, <1>3 DEF CasesOf
<1>7. target \in names \cup {"lib"} /\ testcase \in cases \cup {None}
  BY <1>5, <1>6
<1>8. Selected(q, sort, target, testcase) \in
            [package : P, sort : {"bin", "test", "unit-test", "example"},
             target : names \cup {"lib"}, testcase : cases \cup {None}]
  BY <1>1, <1>7 DEF Selected, Sorts
<1> QED BY <1>1, <1>4, <1>5, <1>8

\* What is offered of a target can be run.
LEMMA TargetFound ==
    ASSUME NEW s \in Scenarios, NEW w, w = parse_workspace(s.raw), NEW sort \in {"bin", "test", "example"},
           NEW p \in Range(w.packages), NEW name \in Range(p[sort])
    PROVE  /\ name # None
           /\ \E k : /\ HasTarget(w, sort, name, k)
                    /\ find_target(w, sort, name) = w.packages[k]
                    /\ w.packages[k] \in Range(w.packages) /\ w.packages[k] # None
                    /\ name \in Range(w.packages[k][sort])
<1>1. /\ IsSequence(w.packages)
      /\ \A q \in Range(w.packages) : IsSequence(q.bin) /\ IsSequence(q.test) /\ IsSequence(q.example)
  BY WorkspaceIs
<1>2. \A q \in Range(w.packages) : IsSequence(q[sort])
  BY <1>1
<1>3. \A q \in Range(w.packages) : Contains(q[sort], name) <=> name \in Range(q[sort])
  <2>1. ASSUME NEW q \in Range(w.packages) PROVE Contains(q[sort], name) <=> name \in Range(q[sort])
    <3>1. DOMAIN q[sort] = 1 .. Len(q[sort])
      BY <1>2, SequenceShape
    <3> QED BY <3>1 DEF Contains, Range
  <2> QED BY <2>1
<1>4. PICK k : HasTarget(w, sort, name, k) /\ find_target(w, sort, name) = w.packages[k]
  BY <1>1, <1>3, FoundFirst
<1>5. w.packages[k] \in Range(w.packages) /\ name \in Range(w.packages[k][sort])
  BY <1>3, <1>4 DEF HasTarget, Range
<1>6. name \in NamesOf(p)
  BY DEF NamesOf
<1>7. "bin" \in Sorts /\ None \in CasesOf(s, p) \cup {None} /\ "lib" \in NamesOf(p) \cup {"lib"}
  BY DEF Sorts
<1>8. name # None
  BY <1>6, <1>7, SelectionIsThere
<1>9. w.packages[k] # None
  BY <1>5, PackagesAre
<1> QED BY <1>4, <1>5, <1>8, <1>9

Offer(kind, name, testcase) == [kind |-> kind, name |-> name, testcase |-> testcase]

LEMMA BinaryRuns ==
    ASSUME NEW s \in Scenarios, NEW w, w = parse_workspace(s.raw), NEW p \in Range(w.packages),
           NEW name \in Range(p.bin), NEW cmd, cmd = Offer("run", name, None)
    PROVE  \E q : Choose(w, s.cases, cmd) = Selected(q, "bin", name, None) /\ Choose(w, s.cases, cmd) # None
<1>1. cmd.kind = "run" /\ cmd.name = name
  BY DEF Offer
<1>2. name \in Range(p["bin"])
  OBVIOUS
<1>3. PICK k : /\ name # None /\ find_target(w, "bin", name) = w.packages[k]
               /\ w.packages[k] \in Range(w.packages) /\ w.packages[k] # None
               /\ name \in Range(w.packages[k]["bin"])
  BY <1>2, TargetFound
<1>4. PICK q : q = w.packages[k]
  OBVIOUS
<1>5. PICK names : names = target_names(w, "bin")
  OBVIOUS
<1>6. names # <<>>
  <2>1. IsSequence(w.packages) /\ \A r \in Range(w.packages) : IsSequence(r.bin)
    BY WorkspaceIs
  <2>2. PICK lists : lists = [i \in DOMAIN w.packages |-> w.packages[i]["bin"]]
    OBVIOUS
  <2>3. DOMAIN lists = DOMAIN w.packages /\ lists = [i \in DOMAIN lists |-> lists[i]]
    BY <2>2
  <2>4. IsSequence(lists)
    BY <2>1, <2>3, Relisted
  <2>5. \A i \in DOMAIN lists : IsSequence(lists[i])
    BY <2>1, <2>2 DEF Range
  <2>6. names = FlattenSeq(lists)
    BY <1>5, <2>2 DEF target_names
  <2>7. Holds(names, lists, Len(lists))
    BY <2>4, <2>5, <2>6, Flattened
  <2>8. \E i \in DOMAIN lists : name \in Range(lists[i])
    <3>1. PICK i \in DOMAIN w.packages : w.packages[i] = p
      BY DEF Range
    <3> QED BY <1>2, <2>2, <3>1
  <2>9. name \in Range(names)
    BY <2>4, <2>7, <2>8, Holding
  <2>10. Range(<<>>) = {}
    BY DEF Range
  <2> QED BY <2>9, <2>10
<1>7. Choose(w, s.cases, cmd) = ChooseBinary(w, cmd)
  BY <1>1 DEF Choose
<1>8. ChooseBinary(w, cmd) = Selected(q, "bin", name, None)
  BY <1>1, <1>3, <1>4, <1>5, <1>6 DEF ChooseBinary
<1>9. Selected(q, "bin", name, None) # None
  <2>1. "bin" \in Sorts /\ name \in NamesOf(q) \cup {"lib"} /\ None \in CasesOf(s, q) \cup {None}
    BY <1>3, <1>4 DEF Sorts, NamesOf
  <2> QED BY <1>3, <1>4, <2>1, SelectionIsThere
<1> QED BY <1>7, <1>8, <1>9

LEMMA ExampleRuns ==
    ASSUME NEW s \in Scenarios, NEW w, w = parse_workspace(s.raw), NEW p \in Range(w.packages),
           NEW name \in Range(p.example), NEW cmd, cmd = Offer("example", name, None)
    PROVE  \E q : Choose(w, s.cases, cmd) = Selected(q, "example", name, None) /\ Choose(w, s.cases, cmd) # None
<1>1. cmd.kind = "example" /\ cmd.name = name
  BY DEF Offer
<1>2. name \in Range(p["example"])
  OBVIOUS
<1>3. PICK k : /\ find_target(w, "example", name) = w.packages[k]
               /\ w.packages[k] \in Range(w.packages) /\ w.packages[k] # None
               /\ name \in Range(w.packages[k]["example"])
  BY <1>2, TargetFound
<1>4. PICK q : q = w.packages[k]
  OBVIOUS
<1>5. Choose(w, s.cases, cmd) = ChooseExample(w, cmd)
  BY <1>1 DEF Choose
<1>6. ChooseExample(w, cmd) = Selected(q, "example", name, None)
  BY <1>1, <1>3, <1>4 DEF ChooseExample
<1>7. Selected(q, "example", name, None) # None
  <2>1. "example" \in Sorts /\ name \in NamesOf(q) \cup {"lib"} /\ None \in CasesOf(s, q) \cup {None}
    BY <1>3, <1>4 DEF Sorts, NamesOf
  <2> QED BY <1>3, <1>4, <2>1, SelectionIsThere
<1> QED BY <1>5, <1>6, <1>7

\* Of a test, unless the first package with a test of that name has not that case.
LEMMA TestRuns ==
    ASSUME NEW s \in Scenarios, NEW w, w = parse_workspace(s.raw), NEW p \in Range(w.packages),
           NEW name \in Range(p.test), NEW testcase, NEW cmd, cmd = Offer("test", name, testcase)
    PROVE  \E k : /\ HasTarget(w, "test", name, k)
                  /\ \/ testcase \notin s.cases[w.packages[k].name][name]
                     \/ /\ Choose(w, s.cases, cmd) = Selected(w.packages[k], "test", name, testcase)
                        /\ Choose(w, s.cases, cmd) # None
<1>1. cmd.kind = "test" /\ cmd.name = name /\ cmd.testcase = testcase
  BY DEF Offer
<1>2. name \in Range(p["test"])
  OBVIOUS
<1>3. PICK k : /\ HasTarget(w, "test", name, k) /\ find_target(w, "test", name) = w.packages[k]
               /\ w.packages[k] \in Range(w.packages) /\ w.packages[k] # None
               /\ name \in Range(w.packages[k]["test"])
  BY <1>2, TargetFound
<1>4. PICK q : q = w.packages[k]
  OBVIOUS
<1>5. CASE testcase \notin s.cases[q.name][name]
  BY <1>3, <1>4, <1>5
<1>6. CASE testcase \in s.cases[q.name][name]
  <2>1. Choose(w, s.cases, cmd) = ChooseTest(w, s.cases, cmd)
    BY <1>1 DEF Choose
  <2>2. ChooseTest(w, s.cases, cmd) = Selected(q, "test", name, testcase)
    BY <1>1, <1>3, <1>4, <1>6 DEF ChooseTest
  <2>3. Selected(q, "test", name, testcase) # None
    <3>1. "test" \in Sorts /\ name \in NamesOf(q) \cup {"lib"} /\ testcase \in CasesOf(s, q) \cup {None}
      BY <1>3, <1>4, <1>6 DEF Sorts, NamesOf, CasesOf
    <3> QED BY <1>3, <1>4, <3>1, SelectionIsThere
  <2> QED BY <1>3, <1>4, <2>1, <2>2, <2>3
<1> QED BY <1>5, <1>6

LEMMA UnitTestRuns ==
    ASSUME NEW s \in Scenarios, NEW w, w = parse_workspace(s.raw), NEW p \in Range(w.packages), p.has_lib,
           NEW testcase \in s.cases[p.name]["lib"], NEW cmd, cmd = Offer("unit-test", p.name, testcase)
    PROVE  /\ Choose(w, s.cases, cmd) = Selected(p, "unit-test", "lib", testcase)
           /\ Choose(w, s.cases, cmd) # None
<1>1. cmd.kind = "unit-test" /\ cmd.name = p.name /\ cmd.testcase = testcase
  BY DEF Offer
<1>2. find_package(w, p.name) = p /\ p # None
  BY WorkspaceIs, PackagesAre, FoundByName
<1>3. Choose(w, s.cases, cmd) = ChooseUnitTest(w, s.cases, cmd)
  BY <1>1 DEF Choose
<1>4. ChooseUnitTest(w, s.cases, cmd) = Selected(p, "unit-test", "lib", testcase)
  BY <1>1, <1>2 DEF ChooseUnitTest
<1>5. Selected(p, "unit-test", "lib", testcase) # None
  <2>1. "unit-test" \in Sorts /\ testcase \in CasesOf(s, p) \cup {None}
    BY DEF Sorts, CasesOf
  <2> QED BY <2>1, SelectionIsThere
<1> QED BY <1>3, <1>4, <1>5

LEMMA OneHasIt ==
    ASSUME NEW w, IsSequence(w.packages), NEW sort, NEW name,
           NEW i, HasTarget(w, sort, name, i), NEW k, HasTarget(w, sort, name, k)
    PROVE  i = k
<1>1. PICK n \in Nat : DOMAIN w.packages = 1 .. n
  BY SequenceShape
<1>2. i \in 1 .. n /\ k \in 1 .. n
  BY <1>1 DEF HasTarget
<1>3. ~(k \in 1 .. (i - 1)) /\ ~(i \in 1 .. (k - 1))
  BY DEF HasTarget
<1> QED BY <1>2, <1>3

\* What a command of the output of list-target is for.
LEMMA OffersAre ==
    ASSUME NEW w, NEW cases, NEW sorts, NEW cmd \in list_target(w, cases, sorts).commands
    PROVE  \E p \in Range(w.packages) :
              \/ \E name \in Range(p.bin)     : cmd = Offer("run", name, None)
              \/ \E name \in Range(p.example) : cmd = Offer("example", name, None)
              \/ \E name \in Range(p.test) : \E c : cmd = Offer("test", name, c)
              \/ p.has_lib /\ \E c \in cases[p.name]["lib"] : cmd = Offer("unit-test", p.name, c)
  BY SMTT(40) DEF list_target, Offer

LEMMA OffersRun ==
    ASSUME scenario \in Scenarios, ws = parse_workspace(scenario.raw)
    PROVE  ListedIsRunnable
<1> SUFFICES ASSUME NEW sorts, NEW offer \in list_target(ws, scenario.cases, sorts).commands,
                    NEW selected, selected = Choose(ws, scenario.cases, offer),
                    NEW first, first = CHOOSE k \in DOMAIN ws.packages :
                                            /\ Contains(ws.packages[k].test, offer.name)
                                            /\ \A j \in 1..(k - 1) : ~Contains(ws.packages[j].test, offer.name)
             PROVE  \/ /\ selected # None
                       /\ selected.target = (IF offer.kind = "unit-test" THEN "lib" ELSE offer.name)
                       /\ selected.testcase = offer.testcase
                    \/ /\ offer.kind = "test"
                       /\ offer.testcase \notin scenario.cases[ws.packages[first].name][offer.name]
  BY ZenonT(40) DEF ListedIsRunnable
<1>1. \A q, sort, target, testcase : /\ Selected(q, sort, target, testcase).target = target
                                     /\ Selected(q, sort, target, testcase).testcase = testcase
  BY DEF Selected
<1>2. \A kind, name, testcase : /\ Offer(kind, name, testcase).kind = kind
                                /\ Offer(kind, name, testcase).name = name
                                /\ Offer(kind, name, testcase).testcase = testcase
  BY DEF Offer
<1>3. PICK p \in Range(ws.packages) :
            \/ \E name \in Range(p.bin)     : offer = Offer("run", name, None)
            \/ \E name \in Range(p.example) : offer = Offer("example", name, None)
            \/ \E name \in Range(p.test) : \E c : offer = Offer("test", name, c)
            \/ p.has_lib /\ \E c \in scenario.cases[p.name]["lib"] : offer = Offer("unit-test", p.name, c)
  BY OffersAre
<1>4. ASSUME NEW name \in Range(p.bin), offer = Offer("run", name, None)
      PROVE  /\ selected # None /\ offer.kind # "unit-test"
             /\ selected.target = offer.name /\ selected.testcase = offer.testcase
  <2>1. PICK q : selected = Selected(q, "bin", name, None) /\ selected # None
    BY <1>4, BinaryRuns
  <2> QED BY <1>1, <1>2, <1>4, <2>1
<1>5. ASSUME NEW name \in Range(p.example), offer = Offer("example", name, None)
      PROVE  /\ selected # None /\ offer.kind # "unit-test"
             /\ selected.target = offer.name /\ selected.testcase = offer.testcase
  <2>1. PICK q : selected = Selected(q, "example", name, None) /\ selected # None
    BY <1>5, ExampleRuns
  <2> QED BY <1>1, <1>2, <1>5, <2>1
<1>6. ASSUME NEW name \in Range(p.test), NEW c, offer = Offer("test", name, c)
      PROVE  /\ offer.kind = "test"
             /\ \/ offer.testcase \notin scenario.cases[ws.packages[first].name][offer.name]
                \/ selected # None /\ selected.target = offer.name /\ selected.testcase = offer.testcase
  <2>1. offer.kind = "test" /\ offer.name = name /\ offer.testcase = c
    BY <1>2, <1>6
  <2>2. PICK k : /\ HasTarget(ws, "test", name, k)
                 /\ \/ c \notin scenario.cases[ws.packages[k].name][name]
                    \/ selected = Selected(ws.packages[k], "test", name, c) /\ selected # None
    BY <1>6, TestRuns, SMTT(40)
  <2>3. HasTarget(ws, "test", name, first)
    BY <2>1, <2>2 DEF HasTarget
  <2>4. first = k
    BY <2>2, <2>3, WorkspaceIs, OneHasIt, SMTT(40)
  <2>5. CASE c \notin scenario.cases[ws.packages[k].name][name]
    BY <2>1, <2>4, <2>5, ZenonT(40)
  <2>6. CASE selected = Selected(ws.packages[k], "test", name, c) /\ selected # None
    <3>1. selected.target = name /\ selected.testcase = c
      BY <1>1, <2>6
    <3> QED BY <2>1, <2>6, <3>1
  <2> QED BY <2>2, <2>5, <2>6
<1>7. ASSUME p.has_lib, NEW c \in scenario.cases[p.name]["lib"], offer = Offer("unit-test", p.name, c)
      PROVE  /\ selected # None /\ offer.kind = "unit-test"
             /\ selected.target = "lib" /\ selected.testcase = offer.testcase
  <2>1. selected = Selected(p, "unit-test", "lib", c) /\ selected # None
    BY <1>7, UnitTestRuns, SMTT(40)
  <2> QED BY <1>1, <1>2, <1>7, <2>1
<1>8. CASE \E name \in Range(p.test) : \E c : offer = Offer("test", name, c)
  BY <1>6, <1>8
<1> QED BY <1>3, <1>4, <1>5, <1>7, <1>8, ZenonT(40)

\* The workspace is read right, however many packages, targets and sources it has: every map describes its source
\* and names the crate it belongs to, what list-target offers can be run and runs that, and the sources traced
\* are those of the packages that were asked for (parser/src/parsing, def/workspace.rs, main.rs:908-1058,
\* debugger/src/main.rs:85-193).
THEOREM WorkspaceIsAlwaysReadRight == Spec => []WorkspaceIsReadRight
<1>1. Init => WholeInv /\ JobInv /\ MapsInv /\ SourcesRead /\ CratesWritten
  <2>1. Init => SourcesRead /\ CratesWritten
    BY DEF Init, SourcesRead, CratesWritten
  <2> QED BY <2>1, FirstState, SessionStarts
<1>2. WholeInv /\ JobInv /\ MapsInv /\ SourcesRead /\ CratesWritten /\ [Next]_vars =>
        (WholeInv /\ JobInv /\ MapsInv /\ SourcesRead /\ CratesWritten)'
  BY EveryStepKeeps, EveryStepKeepsMaps, EveryStepReads, EveryStepWritesCrates
<1>3. JobInv /\ MapsInv /\ SourcesRead /\ CratesWritten => CratesAreRight /\ ListedIsRunnable /\ TracedAsAsked
  BY CratesOfSources, OffersRun, TracesAreAsked DEF JobInv
<1>4. FunctionsFound /\ NestedFunctionsAreMarked /\ BreakpointsAreInside
        /\ CratesAreRight /\ ListedIsRunnable /\ TracedAsAsked => WorkspaceIsReadRight
  BY DEF WorkspaceIsReadRight, MapsDescribeSources
<1> QED BY <1>1, <1>2, <1>3, <1>4, MapsAreOfTheirSources, PTL DEF Spec
=============================================================================
