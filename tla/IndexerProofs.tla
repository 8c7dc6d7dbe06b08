---------------------------- MODULE IndexerProofs ----------------------------
(***************************************************************************)
(* Proofs about the stream indexer (Indexer), for any threads, capacity of *)
(* the channel and length of the file: the types; that no message is lost, *)
(* doubled or overtaken; that neither assertion of the indexer fails; the  *)
(* hit counts; and the parents of calls.                                   *)
(***************************************************************************)
EXTENDS Indexer, SequenceTheorems, FiniteSetTheorems, WellFoundedInduction, TLAPS

-----------------------------------------------------------------------------
(***************************************************************************)
(* The messages of a stream (Of), by the last message and by parts.        *)
(***************************************************************************)
(* A set of naturals with 0 and with the successors of its members is all of them. *)
LEMMA SetInduction ==
    ASSUME NEW T, 0 \in T, \A n \in Nat : n \in T => n + 1 \in T
    PROVE  \A n \in Nat : n \in T
<1> SUFFICES ASSUME Nat \ T # {} PROVE FALSE
  OBVIOUS
<1> DEFINE R == {ss \in Nat \X Nat : ss[1] < ss[2]}
           L == Nat \ T
<1>1. IsWellFoundedOn(R, Nat)
  BY NatLessThanWellFounded DEF OpToRel
<1>2. \A x, y \in Nat : y < x => <<y, x>> \in R
  OBVIOUS
<1>3. PICK x \in L : \A y \in L : <<y, x>> \notin R
  <2>1. L \subseteq Nat /\ L # {}
    OBVIOUS
  <2> HIDE DEF R, L
  <2> QED BY <1>1, <2>1, WFMin
<1> HIDE DEF R
<1>4. x \in Nat \ {0} /\ x - 1 \in Nat /\ x - 1 < x /\ x = (x - 1) + 1
  OBVIOUS
<1>5. x - 1 \notin L
  BY <1>2, <1>3, <1>4
<1> QED BY <1>3, <1>4, <1>5

Keeps(f, s, stream, n) ==
    f = [k \in 0 .. n |->
            IF k = 0 THEN <<>>
            ELSE IF s[k].stream = stream THEN Append(f[k - 1], s[k]) ELSE f[k - 1]]

LEMMA OfIsChosen ==
    ASSUME NEW s, NEW stream
    PROVE  Of(s, stream) = (CHOOSE f : Keeps(f, s, stream, Len(s)))[Len(s)]
BY DEF Of, Keeps

LEMMA KeepsNext ==
    ASSUME NEW s, NEW stream, NEW n \in Nat, NEW f, Keeps(f, s, stream, n)
    PROVE  \E g : Keeps(g, s, stream, n + 1)
<1> DEFINE g == [k \in 0 .. n + 1 |->
                    IF k <= n THEN f[k]
                    ELSE IF s[k].stream = stream THEN Append(f[n], s[k]) ELSE f[n]]
<1>1. ASSUME NEW k \in 0 .. n + 1
      PROVE  g[k] = IF k = 0 THEN <<>>
                    ELSE IF s[k].stream = stream THEN Append(g[k - 1], s[k]) ELSE g[k - 1]
  <2>1. CASE k <= n
    <3>1. k \in 0 .. n /\ g[k] = f[k] /\ (k # 0 => g[k - 1] = f[k - 1])
      BY <2>1
    <3>2. f[k] = IF k = 0 THEN <<>>
                 ELSE IF s[k].stream = stream THEN Append(f[k - 1], s[k]) ELSE f[k - 1]
      BY <3>1 DEF Keeps
    <3> QED BY <3>1, <3>2
  <2>2. CASE k = n + 1
    BY <2>2
  <2> QED BY <2>1, <2>2
<1>2. Keeps(g, s, stream, n + 1)
  BY <1>1 DEF Keeps
<1> QED BY <1>2

LEMMA KeepsExists ==
    ASSUME NEW s, NEW stream PROVE \A n \in Nat : \E f : Keeps(f, s, stream, n)
<1> DEFINE T == {n \in Nat : \E f : Keeps(f, s, stream, n)}
<1>1. 0 \in T
  <2>1. Keeps([k \in 0 .. 0 |-> <<>>], s, stream, 0)
    BY DEF Keeps
  <2> QED BY <2>1
<1>2. ASSUME NEW n \in Nat, n \in T PROVE n + 1 \in T
  <2>1. PICK f : Keeps(f, s, stream, n)
    BY <1>2
  <2>2. \E g : Keeps(g, s, stream, n + 1)
    BY <2>1, KeepsNext
  <2> QED BY <2>2
<1> HIDE DEF T
<1>3. \A n \in Nat : n \in T
  BY <1>1, <1>2, SetInduction
<1> QED BY <1>3 DEF T

(* A prefix tells what is kept of it. *)
LEMMA KeepsUnique ==
    ASSUME NEW s, NEW u, NEW stream, NEW n \in Nat, NEW m \in Nat, n <= m, NEW f, NEW g,
           Keeps(f, s, stream, n), Keeps(g, u, stream, m), \A k \in 1 .. n : s[k] = u[k]
    PROVE  f[n] = g[n]
<1> DEFINE T == {k \in Nat : k <= n => f[k] = g[k]}
<1>1. \A k \in 0 .. n : f[k] = IF k = 0 THEN <<>>
            ELSE IF s[k].stream = stream THEN Append(f[k - 1], s[k]) ELSE f[k - 1]
  BY DEF Keeps
<1>2. \A k \in 0 .. n : g[k] = IF k = 0 THEN <<>>
            ELSE IF u[k].stream = stream THEN Append(g[k - 1], u[k]) ELSE g[k - 1]
  <2>1. \A k \in 0 .. m : g[k] = IF k = 0 THEN <<>>
            ELSE IF u[k].stream = stream THEN Append(g[k - 1], u[k]) ELSE g[k - 1]
    BY DEF Keeps
  <2> QED BY <2>1
<1>3. 0 \in T
  BY <1>1, <1>2
<1>4. ASSUME NEW k \in Nat, k \in T PROVE k + 1 \in T
  <2> SUFFICES ASSUME k + 1 <= n PROVE f[k + 1] = g[k + 1]
    OBVIOUS
  <2>1. f[k] = g[k] /\ s[k + 1] = u[k + 1] /\ (k + 1) - 1 = k
    BY <1>4
  <2> QED BY <1>1, <1>2, <2>1
<1> HIDE DEF T
<1>5. \A k \in Nat : k \in T
  BY <1>3, <1>4, SetInduction
<1> QED BY <1>5 DEF T

LEMMA OfEmpty == ASSUME NEW stream PROVE Of(<<>>, stream) = <<>>
<1>1. PICK f : f = CHOOSE h : Keeps(h, <<>>, stream, 0)
  OBVIOUS
<1>2. Keeps(f, <<>>, stream, 0)
  BY <1>1, KeepsExists
<1>3. f[0] = <<>>
  BY <1>2 DEF Keeps
<1> QED BY <1>1, <1>3, OfIsChosen

LEMMA OfAppend ==
    ASSUME NEW S, NEW s \in Seq(S), NEW m \in S, NEW stream
    PROVE  Of(Append(s, m), stream) =
                IF m.stream = stream THEN Append(Of(s, stream), m) ELSE Of(s, stream)
<1> DEFINE n == Len(s)
           u == Append(s, m)
           f == CHOOSE h : Keeps(h, s, stream, n)
           g == CHOOSE h : Keeps(h, u, stream, Len(u))
<1>1. n \in Nat /\ Len(u) = n + 1 /\ u[n + 1] = m /\ \A k \in 1 .. n : s[k] = u[k]
  BY AppendProperties, LenProperties
<1> HIDE DEF n, u
<1>2. Keeps(f, s, stream, n) /\ Keeps(g, u, stream, n + 1)
  <2>1. \E h : Keeps(h, s, stream, n)
    BY <1>1, KeepsExists
  <2>2. Len(u) \in Nat /\ Len(u) = n + 1
    BY <1>1
  <2>3. \E h : Keeps(h, u, stream, Len(u))
    BY <2>2, KeepsExists
  <2>4. Keeps(f, s, stream, n) /\ Keeps(g, u, stream, Len(u))
    BY <2>1, <2>3
  <2> QED BY <2>2, <2>4
<1>3. Of(s, stream) = f[n] /\ Of(u, stream) = g[n + 1]
  <2>1. Of(s, stream) = f[n]
    BY OfIsChosen DEF n
  <2>2. Of(u, stream) = g[Len(u)]
    BY OfIsChosen
  <2> HIDE DEF f, g
  <2> QED BY <1>1, <2>1, <2>2
<1> HIDE DEF f, g
<1>4. f[n] = g[n]
  <2>1. n + 1 \in Nat /\ n <= n + 1 /\ n \in 0 .. n
    BY <1>1
  <2>2. n \in Nat /\ \A k \in 1 .. n : s[k] = u[k]
    BY <1>1
  <2> QED BY <1>2, <2>1, <2>2, KeepsUnique
<1>5. g[n + 1] = IF u[n + 1].stream = stream THEN Append(g[n], u[n + 1]) ELSE g[n]
  <2>1. n + 1 \in 0 .. n + 1 /\ n + 1 # 0 /\ (n + 1) - 1 = n
    BY <1>1
  <2> QED BY <1>2, <2>1 DEF Keeps
<1> QED BY <1>1, <1>3, <1>4, <1>5 DEF u

LEMMA PrefixProperties ==
    ASSUME NEW S, NEW s \in Seq(S), NEW n \in 0 .. Len(s)
    PROVE  /\ SubSeq(s, 1, n) \in Seq(S) /\ Len(SubSeq(s, 1, n)) = n
           /\ \A i \in 1 .. n : SubSeq(s, 1, n)[i] = s[i]
  OBVIOUS

LEMMA TopType == ASSUME NEW S, NEW s \in Seq(S), s # <<>> PROVE s[Len(s)] \in S
<1>1. Len(s) \in 1 .. Len(s)
  BY EmptySeq
<1> QED BY <1>1

LEMMA PushAndPop ==
    ASSUME NEW S, NEW s \in Seq(S), NEW x \in S
    PROVE  /\ Append(s, x) # <<>> /\ Append(s, x)[Len(Append(s, x))] = x
           /\ SubSeq(Append(s, x), 1, Len(Append(s, x)) - 1) = s
<1> DEFINE u == Append(s, x)
<1>1. /\ u \in Seq(S) /\ Len(u) = Len(s) + 1 /\ u[Len(s) + 1] = x /\ Len(s) \in Nat
      /\ \A i \in 1 .. Len(s) : u[i] = s[i]
  BY AppendProperties
<1> HIDE DEF u
<1>2. u # <<>> /\ Len(u) - 1 = Len(s) /\ Len(s) \in 0 .. Len(u)
  BY <1>1
<1>3. /\ SubSeq(u, 1, Len(s)) \in Seq(S) /\ Len(SubSeq(u, 1, Len(s))) = Len(s)
      /\ \A i \in 1 .. Len(s) : SubSeq(u, 1, Len(s))[i] = u[i]
  BY <1>1, <1>2, PrefixProperties
<1>4. SubSeq(u, 1, Len(s)) = s
  <2>1. \A i \in 1 .. Len(s) : SubSeq(u, 1, Len(s))[i] = s[i]
    BY <1>1, <1>3
  <2> QED BY <1>3, <2>1, SeqEqual
<1> QED BY <1>1, <1>2, <1>4 DEF u

LEMMA PairIsConcat ==
    ASSUME NEW x, NEW y PROVE <<x, y>> = <<x>> \o <<y>>
<1> DEFINE S == {x, y}
<1>1. <<x>> \in Seq(S) /\ <<y>> \in Seq(S) /\ <<x, y>> \in Seq(S)
  OBVIOUS
<1>2. /\ Len(<<x>>) = 1 /\ Len(<<y>>) = 1 /\ Len(<<x, y>>) = 2
      /\ <<x>>[1] = x /\ <<y>>[1] = y /\ <<x, y>>[1] = x /\ <<x, y>>[2] = y
  OBVIOUS
<1>3. /\ <<x>> \o <<y>> \in Seq(S) /\ Len(<<x>> \o <<y>>) = 2
      /\ \A i \in 1 .. 2 : (<<x>> \o <<y>>)[i] = IF i <= 1 THEN <<x>>[i] ELSE <<y>>[i - 1]
  BY <1>1, <1>2, ConcatProperties
<1>4. \A i \in 1 .. 2 : (<<x>> \o <<y>>)[i] = <<x, y>>[i]
  BY <1>2, <1>3
<1> QED BY <1>1, <1>2, <1>3, <1>4, SeqEqual

LEMMA PrefixNext ==
    ASSUME NEW S, NEW s \in Seq(S), NEW n \in Nat, n < Len(s)
    PROVE  /\ SubSeq(s, 1, n) \in Seq(S) /\ Len(SubSeq(s, 1, n)) = n /\ s[n + 1] \in S
           /\ SubSeq(s, 1, n + 1) = Append(SubSeq(s, 1, n), s[n + 1])
           /\ SubSeq(s, 1, n + 1) \in Seq(S)
<1>1. /\ SubSeq(s, 1, n) \in Seq(S) /\ Len(SubSeq(s, 1, n)) = n
      /\ \A i \in 1 .. n : SubSeq(s, 1, n)[i] = s[i]
  OBVIOUS
<1>2. /\ SubSeq(s, 1, n + 1) \in Seq(S) /\ Len(SubSeq(s, 1, n + 1)) = n + 1
      /\ \A i \in 1 .. n + 1 : SubSeq(s, 1, n + 1)[i] = s[i]
  OBVIOUS
<1>3. s[n + 1] \in S
  OBVIOUS
<1>4. /\ Append(SubSeq(s, 1, n), s[n + 1]) \in Seq(S)
      /\ Len(Append(SubSeq(s, 1, n), s[n + 1])) = n + 1
      /\ \A i \in 1 .. n : Append(SubSeq(s, 1, n), s[n + 1])[i] = s[i]
      /\ Append(SubSeq(s, 1, n), s[n + 1])[n + 1] = s[n + 1]
  BY <1>1, <1>3, AppendProperties
<1>5. \A i \in 1 .. n + 1 : Append(SubSeq(s, 1, n), s[n + 1])[i] = SubSeq(s, 1, n + 1)[i]
  BY <1>2, <1>4
<1> QED BY <1>1, <1>2, <1>3, <1>4, <1>5, SeqEqual

LEMMA OfNext ==
    ASSUME NEW S, NEW s \in Seq(S), NEW n \in Nat, n < Len(s), NEW stream
    PROVE  Of(SubSeq(s, 1, n + 1), stream) =
                IF s[n + 1].stream = stream THEN Append(Of(SubSeq(s, 1, n), stream), s[n + 1])
                ELSE Of(SubSeq(s, 1, n), stream)
<1> DEFINE before == SubSeq(s, 1, n)
           m == s[n + 1]
<1>1. before \in Seq(S) /\ m \in S /\ SubSeq(s, 1, n + 1) = Append(before, m)
  BY PrefixNext
<1> HIDE DEF before, m
<1>2. Of(Append(before, m), stream) =
            IF m.stream = stream THEN Append(Of(before, stream), m) ELSE Of(before, stream)
  BY <1>1, OfAppend
<1> QED BY <1>1, <1>2 DEF before, m

LEMMA OfPrefixType ==
    ASSUME NEW S, NEW s \in Seq(S), NEW stream
    PROVE  \A n \in 0 .. Len(s) : Of(SubSeq(s, 1, n), stream) \in Seq(S)
<1> DEFINE T == {n \in Nat : n <= Len(s) => Of(SubSeq(s, 1, n), stream) \in Seq(S)}
<1>1. 0 \in T
  <2>1. SubSeq(s, 1, 0) = <<>> /\ <<>> \in Seq(S)
    OBVIOUS
  <2>2. Of(SubSeq(s, 1, 0), stream) \in Seq(S)
    BY <2>1, OfEmpty
  <2> QED BY <2>2
<1>2. ASSUME NEW n \in Nat, n \in T PROVE n + 1 \in T
  <2> SUFFICES ASSUME n + 1 <= Len(s) PROVE Of(SubSeq(s, 1, n + 1), stream) \in Seq(S)
    OBVIOUS
  <2>1. n < Len(s) /\ Of(SubSeq(s, 1, n), stream) \in Seq(S) /\ s[n + 1] \in S
    BY <1>2
  <2>2. Append(Of(SubSeq(s, 1, n), stream), s[n + 1]) \in Seq(S)
    BY <2>1, AppendProperties
  <2>3. Of(SubSeq(s, 1, n + 1), stream) =
            IF s[n + 1].stream = stream THEN Append(Of(SubSeq(s, 1, n), stream), s[n + 1])
            ELSE Of(SubSeq(s, 1, n), stream)
    BY <2>1, OfNext
  <2> QED BY <2>1, <2>2, <2>3
<1> HIDE DEF T
<1>3. \A n \in Nat : n \in T
  BY <1>1, <1>2, SetInduction
<1> QED BY <1>3 DEF T

LEMMA OfType ==
    ASSUME NEW S, NEW s \in Seq(S), NEW stream PROVE Of(s, stream) \in Seq(S)
<1>1. SubSeq(s, 1, Len(s)) = s /\ Len(s) \in 0 .. Len(s)
  OBVIOUS
<1> QED BY <1>1, OfPrefixType

(* More messages, no fewer of a stream. *)
LEMMA OfGrows ==
    ASSUME NEW S, NEW s \in Seq(S), NEW stream, NEW k \in 0 .. Len(s)
    PROVE  Len(Of(SubSeq(s, 1, k), stream)) <= Len(Of(s, stream))
<1> DEFINE L(n) == Len(Of(SubSeq(s, 1, n), stream))
           T == {n \in Nat : k <= n /\ n <= Len(s) => L(k) <= L(n)}
<1>1. \A n \in 0 .. Len(s) : Of(SubSeq(s, 1, n), stream) \in Seq(S) /\ L(n) \in Nat
  BY OfPrefixType
<1>2. \A n \in Nat : n < Len(s) => L(n + 1) \in {L(n), L(n) + 1}
  <2> SUFFICES ASSUME NEW n \in Nat, n < Len(s) PROVE L(n + 1) \in {L(n), L(n) + 1}
    OBVIOUS
  <2>1. Of(SubSeq(s, 1, n), stream) \in Seq(S) /\ s[n + 1] \in S
    BY <1>1
  <2>2. Len(Append(Of(SubSeq(s, 1, n), stream), s[n + 1])) = L(n) + 1
    BY <2>1, AppendProperties
  <2>3. Of(SubSeq(s, 1, n + 1), stream) =
            IF s[n + 1].stream = stream THEN Append(Of(SubSeq(s, 1, n), stream), s[n + 1])
            ELSE Of(SubSeq(s, 1, n), stream)
    BY OfNext
  <2> QED BY <2>2, <2>3
<1>3. 0 \in T
  BY <1>1
<1>4. ASSUME NEW n \in Nat, n \in T PROVE n + 1 \in T
  <2> SUFFICES ASSUME k <= n + 1, n + 1 <= Len(s) PROVE L(k) <= L(n + 1)
    OBVIOUS
  <2>1. n < Len(s) /\ n \in 0 .. Len(s) /\ n + 1 \in 0 .. Len(s)
    OBVIOUS
  <2>2. L(n) \in Nat /\ L(n + 1) \in {L(n), L(n) + 1} /\ L(k) \in Nat
    BY <1>1, <1>2, <2>1
  <2>3. k = n + 1 \/ L(k) <= L(n)
    BY <1>4
  <2> HIDE DEF L
  <2> QED BY <2>2, <2>3
<1> HIDE DEF T
<1>5. \A n \in Nat : n \in T
  BY <1>3, <1>4, SetInduction
<1>6. SubSeq(s, 1, Len(s)) = s /\ Len(s) \in Nat
  OBVIOUS
<1>7. L(k) <= L(Len(s))
  <2>1. Len(s) \in T /\ k <= Len(s)
    BY <1>5, <1>6
  <2> QED BY <2>1 DEF T
<1> QED BY <1>6, <1>7

LEMMA ConcatAppend ==
    ASSUME NEW S, NEW a \in Seq(S), NEW b \in Seq(S), NEW m \in S
    PROVE  a \o b \in Seq(S) /\ a \o Append(b, m) = Append(a \o b, m)
<1>1. a \o b \in Seq(S) /\ Append(b, m) \in Seq(S) /\ <<m>> \in Seq(S)
  BY AppendProperties, ConcatProperties
<1>2. Append(b, m) = b \o <<m>> /\ Append(a \o b, m) = (a \o b) \o <<m>>
  BY <1>1, AppendIsConcat
<1> QED BY <1>1, <1>2, ConcatAssociative

LEMMA OfConcat ==
    ASSUME NEW S, NEW a \in Seq(S), NEW b \in Seq(S), NEW stream
    PROVE  Of(a \o b, stream) = Of(a, stream) \o Of(b, stream)
<1> DEFINE P(n) == SubSeq(b, 1, n)
           T == {n \in Nat : n <= Len(b) => Of(a \o P(n), stream) = Of(a, stream) \o Of(P(n), stream)}
<1>1. Of(a, stream) \in Seq(S)
  BY OfType
<1>2. 0 \in T
  <2>1. P(0) = <<>> /\ a \o P(0) = a
    OBVIOUS
  <2>2. Of(a, stream) \o <<>> = Of(a, stream)
    BY <1>1
  <2> QED BY <2>1, <2>2, OfEmpty
<1>3. ASSUME NEW n \in Nat, n \in T PROVE n + 1 \in T
  <2> SUFFICES ASSUME n + 1 <= Len(b)
               PROVE  Of(a \o P(n + 1), stream) = Of(a, stream) \o Of(P(n + 1), stream)
    OBVIOUS
  <2> DEFINE m == b[n + 1]
  <2>1. n < Len(b) /\ Of(a \o P(n), stream) = Of(a, stream) \o Of(P(n), stream)
    BY <1>3
  <2>2. P(n) \in Seq(S) /\ m \in S /\ P(n + 1) = Append(P(n), m)
    BY <2>1, PrefixNext
  <2>3. Of(P(n), stream) \in Seq(S)
    BY <2>2, OfType
  <2> HIDE DEF P, m
  <2>4. a \o P(n) \in Seq(S) /\ a \o P(n + 1) = Append(a \o P(n), m)
    <3>1. a \o P(n) \in Seq(S) /\ a \o Append(P(n), m) = Append(a \o P(n), m)
      <4>1. P(n) \in Seq(S) /\ m \in S
        BY <2>2
      <4> QED BY <4>1, ConcatAppend
    <3> QED BY <2>2, <3>1, Zenon
  <2>5. Of(Append(a \o P(n), m), stream) =
            IF m.stream = stream THEN Append(Of(a \o P(n), stream), m) ELSE Of(a \o P(n), stream)
    BY <2>2, <2>4, OfAppend
  <2>6. Of(Append(P(n), m), stream) =
            IF m.stream = stream THEN Append(Of(P(n), stream), m) ELSE Of(P(n), stream)
    BY <2>2, OfAppend
  <2>7. Of(a, stream) \o Append(Of(P(n), stream), m) = Append(Of(a, stream) \o Of(P(n), stream), m)
    BY <1>1, <2>2, <2>3, ConcatAppend
  <2> QED BY <2>1, <2>2, <2>4, <2>5, <2>6, <2>7
<1>4. P(Len(b)) = b /\ Len(b) \in Nat
  OBVIOUS
<1> HIDE DEF T
<1>5. \A n \in Nat : n \in T
  BY <1>2, <1>3, SetInduction
<1>6. Len(b) \in T
  BY <1>4, <1>5
<1> HIDE DEF P
<1>7. Of(a \o P(Len(b)), stream) = Of(a, stream) \o Of(P(Len(b)), stream)
  BY <1>4, <1>6 DEF T
<1> QED BY <1>4, <1>7

-----------------------------------------------------------------------------
(***************************************************************************)
(* What there is in a file.                                                *)
(***************************************************************************)
Others    == {Info(TRUE), Info(FALSE), EndOfStream}
Bps       == {Bp(id) : id \in 1 .. MaxBreakpoints}
Allocs    == {Allocation(n) : n \in 1 .. MaxAllocations}
EventsAll == {Event(e, id) : e \in Entries, id \in 1 .. MaxBreakpoints}

LEMMA MessageSets == Messages = Others \cup Bps \cup Allocs \cup EventsAll
  BY DEF Messages, Others, Bps, Allocs, EventsAll


LEMMA MessageSplit ==
    \A m : m \in Messages <=> m \in Others \/ m \in Bps \/ m \in Allocs \/ m \in EventsAll
  BY MessageSets

LEMMA PlainMessages ==
    /\ Info(TRUE) \in Messages /\ Info(FALSE) \in Messages /\ EndOfStream \in Messages
    /\ \A id \in 1 .. MaxBreakpoints : Bp(id) \in Messages
    /\ \A k \in 1 .. MaxAllocations : Allocation(k) \in Messages
    /\ \A e \in Entries, id \in 1 .. MaxBreakpoints : Event(e, id) \in Messages
<1>1. Info(TRUE) \in Others /\ Info(FALSE) \in Others /\ EndOfStream \in Others
  BY DEF Others
<1>2. \A id \in 1 .. MaxBreakpoints : Bp(id) \in Bps
  BY DEF Bps
<1>3. \A k \in 1 .. MaxAllocations : Allocation(k) \in Allocs
  BY DEF Allocs
<1>4. \A e \in Entries, id \in 1 .. MaxBreakpoints : Event(e, id) \in EventsAll
  BY DEF EventsAll
<1> QED BY <1>1, <1>2, <1>3, <1>4, MessageSplit

LEMMA MessageKinds ==
    \A m \in Messages :
        \/ m = Info(TRUE) \/ m = Info(FALSE) \/ m = EndOfStream
        \/ \E id \in 1 .. MaxBreakpoints : m = Bp(id)
        \/ \E k \in 1 .. MaxAllocations : m = Allocation(k)
        \/ \E e \in Entries, id \in 1 .. MaxBreakpoints : m = Event(e, id)
<1>1. \A m \in Others : m = Info(TRUE) \/ m = Info(FALSE) \/ m = EndOfStream
  BY DEF Others
<1>2. \A m \in Bps : \E id \in 1 .. MaxBreakpoints : m = Bp(id)
  BY DEF Bps
<1>3. \A m \in Allocs : \E k \in 1 .. MaxAllocations : m = Allocation(k)
  BY DEF Allocs
<1>4. \A m \in EventsAll : \E e \in Entries, id \in 1 .. MaxBreakpoints : m = Event(e, id)
  BY DEF EventsAll
<1> QED BY <1>1, <1>2, <1>3, <1>4, MessageSplit

LEMMA PlainStreams ==
    /\ Info(TRUE).stream = "info" /\ Info(TRUE).exit = TRUE
    /\ Info(FALSE).stream = "info" /\ Info(FALSE).exit = FALSE
    /\ EndOfStream.stream = "eos"
    /\ \A id : Bp(id).stream = "breakpoint"
    /\ \A k : Allocation(k).stream = "allocation"
    /\ \A e, id : Event(e, id).stream = "event" /\ Event(e, id).entry = e /\ Event(e, id).bp = id
  BY DEF Info, EndOfStream, Bp, Allocation, Event

LEMMA EventShapes ==
    \A m \in Messages :
        m.stream = "event" => /\ m.entry \in Entries /\ m.bp \in 1 .. MaxBreakpoints
                              /\ m = Event(m.entry, m.bp)
<1> SUFFICES ASSUME NEW m \in Messages, m.stream = "event"
             PROVE  m.entry \in Entries /\ m.bp \in 1 .. MaxBreakpoints /\ m = Event(m.entry, m.bp)
  OBVIOUS
<1>1. PICK e \in Entries, id \in 1 .. MaxBreakpoints : m = Event(e, id)
  BY MessageKinds, PlainStreams
<1> QED BY <1>1, PlainStreams

LEMMA OtherShapes ==
    \A m \in Messages :
        /\ m.stream \in {"info", "breakpoint", "event", "allocation", "eos"}
        /\ m.stream = "info" => (m = Info(TRUE) /\ m.exit = TRUE) \/ (m = Info(FALSE) /\ m.exit = FALSE)
        /\ m.stream = "eos" <=> m = EndOfStream
<1> SUFFICES ASSUME NEW m \in Messages
             PROVE  /\ m.stream \in {"info", "breakpoint", "event", "allocation", "eos"}
                    /\ m.stream = "info" =>
                            (m = Info(TRUE) /\ m.exit = TRUE) \/ (m = Info(FALSE) /\ m.exit = FALSE)
                    /\ (m.stream = "eos" <=> m = EndOfStream)
  BY Zenon
<1>1. CASE m = Info(TRUE)
  BY <1>1, PlainStreams
<1>2. CASE m = Info(FALSE)
  BY <1>2, PlainStreams
<1>3. CASE m = EndOfStream
  BY <1>3, PlainStreams
<1>4. CASE m.stream \in {"breakpoint", "event", "allocation"}
  BY <1>4, PlainStreams
<1>5. \/ m = Info(TRUE) \/ m = Info(FALSE) \/ m = EndOfStream
      \/ m.stream \in {"breakpoint", "event", "allocation"}
  <2>1. /\ \A id : Bp(id).stream \in {"breakpoint", "event", "allocation"}
        /\ \A k : Allocation(k).stream \in {"breakpoint", "event", "allocation"}
        /\ \A e, id : Event(e, id).stream \in {"breakpoint", "event", "allocation"}
    BY PlainStreams
  <2> QED BY <2>1, MessageKinds
<1> QED BY <1>1, <1>2, <1>3, <1>4, <1>5

-----------------------------------------------------------------------------
(***************************************************************************)
(* The file and the calls.  At a point of the file the calls o are open    *)
(* and each thread t has made c[t] calls; H[k] and C[k] are these after    *)
(* the first k messages.                                                   *)
(***************************************************************************)
Stacks == [Threads -> Seq(1 .. MaxEvents)]

Rising(s) == \A i, j \in 1 .. Len(s) : i < j => s[i] < s[j]

Point(o, c) ==
    /\ o \in Stacks /\ c \in [Threads -> 0 .. MaxEvents]
    /\ \A t \in Threads : Rising(o[t]) /\ \A i \in 1 .. Len(o[t]) : o[t][i] <= c[t]

IsCall(m)   == m.stream = "event" /\ m.entry.type = "call"
IsReturn(m) == m.stream = "event" /\ m.entry.type = "return"

\* From the point o, c to the point p, d by the message m.
Follows(o, c, m, p, d) ==
    \/ /\ IsCall(m)
       /\ m.entry.frame_id = c[m.entry.thread] + 1
       /\ p = [o EXCEPT ![m.entry.thread] = Append(@, m.entry.frame_id)]
       /\ d = [c EXCEPT ![m.entry.thread] = @ + 1]
    \/ /\ IsReturn(m)
       /\ o[m.entry.thread] # <<>>
       /\ o[m.entry.thread][Len(o[m.entry.thread])] = m.entry.frame_id
       /\ p = [o EXCEPT ![m.entry.thread] = SubSeq(@, 1, Len(@) - 1)]
       /\ d = c
    \/ ~IsCall(m) /\ ~IsReturn(m) /\ p = o /\ d = c

History(f, o, c, H, C) ==
    /\ H \in [0 .. Len(f) -> Stacks] /\ C \in [0 .. Len(f) -> [Threads -> 0 .. MaxEvents]]
    /\ H[Len(f)] = o /\ C[Len(f)] = c
    /\ \A k \in 1 .. Len(f) : Follows(H[k - 1], C[k - 1], f[k], H[k], C[k])
    /\ \A k \in 0 .. Len(f) : Point(H[k], C[k])

\* An event is of a breakpoint that was announced before it.
HitsKnown(f) ==
    \A k \in 1 .. Len(f) :
        f[k].stream = "event" => f[k].bp <= Len(Of(SubSeq(f, 1, k - 1), "breakpoint"))

Sound(f, n) ==
    /\ f \in Seq(Messages) /\ Len(f) >= 1 /\ f[1] = Info(FALSE)
    /\ n \in 0 .. MaxEvents /\ Len(Of(f, "event")) = n
    /\ Len(Of(f, "breakpoint")) <= MaxBreakpoints
    /\ HitsKnown(f)

\* To push a number that is larger than the others, and to pop one.
LEMMA PushRises ==
    ASSUME NEW s \in Seq(1 .. MaxEvents), Rising(s), NEW c \in 0 .. MaxEvents,
           \A i \in 1 .. Len(s) : s[i] <= c, c + 1 <= MaxEvents
    PROVE  /\ Append(s, c + 1) \in Seq(1 .. MaxEvents) /\ Rising(Append(s, c + 1))
           /\ \A i \in 1 .. Len(Append(s, c + 1)) : Append(s, c + 1)[i] <= c + 1
<1> DEFINE u == Append(s, c + 1)
<1>1. c + 1 \in 1 .. MaxEvents /\ MaxEvents \in Nat
  BY BoundsAssumption
<1>2. /\ u \in Seq(1 .. MaxEvents) /\ Len(u) = Len(s) + 1 /\ u[Len(s) + 1] = c + 1
      /\ \A i \in 1 .. Len(s) : u[i] = s[i] /\ s[i] \in 1 .. MaxEvents
      /\ Len(s) \in Nat
  BY <1>1, AppendProperties
<1> HIDE DEF u
<1>3. \A i, j \in 1 .. Len(s) : i < j => s[i] < s[j]
  BY DEF Rising
<1>4. ASSUME NEW i \in 1 .. Len(s) + 1 PROVE u[i] <= c + 1 /\ (i # Len(s) + 1 => u[i] < c + 1)
  <2>1. CASE i = Len(s) + 1
    BY <1>2, <2>1
  <2>2. CASE i \in 1 .. Len(s)
    <3>1. u[i] = s[i] /\ s[i] \in 1 .. MaxEvents /\ s[i] <= c
      BY <1>2, <2>2
    <3> QED BY <1>1, <1>2, <2>2, <3>1
  <2> QED BY <1>2, <2>1, <2>2
<1>5. ASSUME NEW i \in 1 .. Len(s) + 1, NEW j \in 1 .. Len(s) + 1, i < j PROVE u[i] < u[j]
  <2>1. i \in 1 .. Len(s) /\ i # Len(s) + 1
    BY <1>2, <1>5
  <2>2. CASE j = Len(s) + 1
    BY <1>2, <1>4, <2>1, <2>2
  <2>3. CASE j \in 1 .. Len(s)
    BY <1>2, <1>3, <1>5, <2>1, <2>3
  <2> QED BY <1>2, <2>2, <2>3
<1>6. Rising(u) /\ \A i \in 1 .. Len(u) : u[i] <= c + 1
  BY <1>2, <1>4, <1>5 DEF Rising
<1> QED BY <1>2, <1>6 DEF u

LEMMA PopRises ==
    ASSUME NEW s \in Seq(1 .. MaxEvents), Rising(s), s # <<>>
    PROVE  /\ SubSeq(s, 1, Len(s) - 1) \in Seq(1 .. MaxEvents)
           /\ Len(SubSeq(s, 1, Len(s) - 1)) = Len(s) - 1
           /\ \A i \in 1 .. Len(s) - 1 : SubSeq(s, 1, Len(s) - 1)[i] = s[i]
           /\ Rising(SubSeq(s, 1, Len(s) - 1))
<1> DEFINE u == SubSeq(s, 1, Len(s) - 1)
<1>1. Len(s) \in Nat \ {0}
  BY EmptySeq
<1>2. /\ u \in Seq(1 .. MaxEvents) /\ Len(u) = Len(s) - 1
      /\ \A i \in 1 .. Len(s) - 1 : u[i] = s[i]
  <2>1. Len(s) - 1 \in 0 .. Len(s)
    BY <1>1
  <2> QED BY <2>1, PrefixProperties
<1> HIDE DEF u
<1>3. Rising(u)
  BY <1>1, <1>2 DEF Rising
<1> QED BY <1>2, <1>3 DEF u

LEMMA FollowsKeepsPoint ==
    ASSUME NEW o, NEW c, Point(o, c), NEW m \in Messages, NEW p, NEW d, Follows(o, c, m, p, d)
    PROVE  Point(p, d)
<1> DEFINE t == m.entry.thread
<1>1. MaxEvents \in Nat
  BY BoundsAssumption
<1>2. CASE IsCall(m) \/ IsReturn(m)
  <2>1. t \in Threads /\ m.entry.frame_id \in 0 .. MaxEvents
    BY <1>2, EventShapes DEF Entries, IsCall, IsReturn
  <2>2. /\ o[t] \in Seq(1 .. MaxEvents) /\ Rising(o[t]) /\ c[t] \in 0 .. MaxEvents
        /\ \A i \in 1 .. Len(o[t]) : o[t][i] <= c[t]
    BY <2>1 DEF Point, Stacks
  <2>3. CASE IsCall(m)
    <3>1. /\ m.entry.frame_id = c[t] + 1
          /\ p = [o EXCEPT ![t] = Append(o[t], c[t] + 1)]
          /\ d = [c EXCEPT ![t] = c[t] + 1]
      BY <2>3 DEF Follows, IsCall, IsReturn
    <3>2. /\ Append(o[t], c[t] + 1) \in Seq(1 .. MaxEvents) /\ Rising(Append(o[t], c[t] + 1))
          /\ \A i \in 1 .. Len(Append(o[t], c[t] + 1)) : Append(o[t], c[t] + 1)[i] <= c[t] + 1
      <4>1. c[t] \in 0 .. MaxEvents /\ c[t] + 1 <= MaxEvents
        BY <2>1, <2>2, <3>1
      <4> HIDE DEF t
      <4> QED BY <2>2, <4>1, PushRises
    <3>3. c[t] + 1 \in 0 .. MaxEvents
      BY <2>1, <3>1
    <3> HIDE DEF t
    <3>4. p \in Stacks /\ d \in [Threads -> 0 .. MaxEvents]
      BY <2>1, <3>1, <3>2, <3>3 DEF Point, Stacks
    <3>5. ASSUME NEW x \in Threads
          PROVE  Rising(p[x]) /\ \A i \in 1 .. Len(p[x]) : p[x][i] <= d[x]
      <4>1. CASE x = t
        <5>1. p[x] = Append(o[t], c[t] + 1) /\ d[x] = c[t] + 1
          BY <2>1, <3>1, <4>1 DEF Point, Stacks
        <5> QED BY <3>2, <5>1
      <4>2. CASE x # t
        <5>1. p[x] = o[x] /\ d[x] = c[x]
          BY <3>1, <4>2 DEF Point, Stacks
        <5> QED BY <5>1 DEF Point
      <4> QED BY <4>1, <4>2
    <3> QED BY <3>4, <3>5 DEF Point
  <2>4. CASE IsReturn(m)
    <3>1. /\ o[t] # <<>>
          /\ p = [o EXCEPT ![t] = SubSeq(o[t], 1, Len(o[t]) - 1)]
          /\ d = c
      BY <2>4 DEF Follows, IsCall, IsReturn
    <3>2. /\ SubSeq(o[t], 1, Len(o[t]) - 1) \in Seq(1 .. MaxEvents)
          /\ Len(SubSeq(o[t], 1, Len(o[t]) - 1)) = Len(o[t]) - 1
          /\ \A i \in 1 .. Len(o[t]) - 1 : SubSeq(o[t], 1, Len(o[t]) - 1)[i] = o[t][i]
          /\ Rising(SubSeq(o[t], 1, Len(o[t]) - 1))
      BY <2>2, <3>1, PopRises
    <3> HIDE DEF t
    <3>4. p \in Stacks
      BY <2>1, <3>1, <3>2 DEF Point, Stacks
    <3>5. ASSUME NEW x \in Threads
          PROVE  Rising(p[x]) /\ \A i \in 1 .. Len(p[x]) : p[x][i] <= d[x]
      <4>1. CASE x = t
        <5>1. p[x] = SubSeq(o[t], 1, Len(o[t]) - 1) /\ d[x] = c[t]
          BY <2>1, <3>1, <4>1 DEF Point, Stacks
        <5>2. Len(o[t]) \in Nat
          BY <2>2
        <5> QED BY <2>2, <3>2, <5>1, <5>2
      <4>2. CASE x # t
        <5>1. p[x] = o[x] /\ d[x] = c[x]
          BY <3>1, <4>2 DEF Point, Stacks
        <5> QED BY <5>1 DEF Point
      <4> QED BY <4>1, <4>2
    <3> QED BY <3>1, <3>4, <3>5 DEF Point
  <2> QED BY <1>2, <2>3, <2>4
<1>3. CASE ~IsCall(m) /\ ~IsReturn(m)
  BY <1>3 DEF Follows
<1> QED BY <1>2, <1>3

(* One message more in the file. *)
LEMMA HistoryNext ==
    ASSUME NEW f \in Seq(Messages), NEW o, NEW c, NEW H, NEW C, History(f, o, c, H, C),
           NEW m \in Messages, NEW p, NEW d, Follows(o, c, m, p, d)
    PROVE  \E G, D : /\ History(Append(f, m), p, d, G, D)
                     /\ \A k \in 0 .. Len(f) : G[k] = H[k] /\ D[k] = C[k]
<1> DEFINE n == Len(f)
           u == Append(f, m)
           G == [k \in 0 .. n + 1 |-> IF k <= n THEN H[k] ELSE p]
           D == [k \in 0 .. n + 1 |-> IF k <= n THEN C[k] ELSE d]
<1>1. /\ n \in Nat /\ Len(u) = n + 1 /\ u[n + 1] = m
      /\ \A k \in 1 .. n : u[k] = f[k]
  BY AppendProperties
<1>2. /\ \A k \in 0 .. n : G[k] = H[k] /\ D[k] = C[k]
      /\ G[n + 1] = p /\ D[n + 1] = d
  BY <1>1
<1>3. G = [k \in 0 .. n + 1 |-> G[k]] /\ D = [k \in 0 .. n + 1 |-> D[k]]
  OBVIOUS
<1> HIDE DEF G, D, u, n
<1>4. /\ H[n] = o /\ C[n] = c
      /\ \A k \in 0 .. n : Point(H[k], C[k])
      /\ \A k \in 1 .. n : Follows(H[k - 1], C[k - 1], f[k], H[k], C[k])
  BY DEF History, n
<1>5. Point(p, d)
  <2>1. Point(o, c)
    BY <1>1, <1>4
  <2> QED BY <2>1, FollowsKeepsPoint
<1>6. ASSUME NEW k \in 0 .. n + 1 PROVE Point(G[k], D[k])
  <2>1. CASE k = n + 1
    BY <1>2, <1>5, <2>1
  <2>2. CASE k \in 0 .. n
    BY <1>2, <1>4, <2>2
  <2> QED BY <1>1, <2>1, <2>2
<1>7. G \in [0 .. n + 1 -> Stacks] /\ D \in [0 .. n + 1 -> [Threads -> 0 .. MaxEvents]]
  BY <1>3, <1>6 DEF Point
<1>8. ASSUME NEW k \in 1 .. n + 1
      PROVE  Follows(G[k - 1], D[k - 1], u[k], G[k], D[k])
  <2>1. CASE k = n + 1
    <3>1. k - 1 = n /\ n \in 0 .. n
      BY <1>1, <2>1
    <3> QED BY <1>1, <1>2, <1>4, <2>1, <3>1
  <2>2. CASE k \in 1 .. n
    <3>1. k - 1 \in 0 .. n /\ k \in 0 .. n
      BY <1>1, <2>2
    <3>2. /\ G[k - 1] = H[k - 1] /\ D[k - 1] = C[k - 1] /\ G[k] = H[k] /\ D[k] = C[k]
          /\ u[k] = f[k] /\ Follows(H[k - 1], C[k - 1], f[k], H[k], C[k])
      BY <1>1, <1>2, <1>4, <2>2, <3>1
    <3> QED BY <3>2
  <2> QED BY <1>1, <2>1, <2>2
<1>9. History(u, p, d, G, D)
  BY <1>1, <1>2, <1>6, <1>7, <1>8 DEF History
<1> QED BY <1>2, <1>9 DEF u, n

LEMMA HitsStayKnown ==
    ASSUME NEW f \in Seq(Messages), HitsKnown(f), NEW m \in Messages,
           m.stream = "event" => m.bp <= Len(Of(f, "breakpoint"))
    PROVE  HitsKnown(Append(f, m))
<1> DEFINE n == Len(f)
           u == Append(f, m)
<1>1. /\ n \in Nat /\ Len(u) = n + 1 /\ u[n + 1] = m /\ u \in Seq(Messages)
      /\ \A k \in 1 .. n : u[k] = f[k]
  BY AppendProperties
<1>2. ASSUME NEW k \in 0 .. n PROVE SubSeq(u, 1, k) = SubSeq(f, 1, k)
  <2>1. k \in 0 .. Len(u) /\ k \in 0 .. Len(f)
    BY <1>1
  <2>2. /\ SubSeq(f, 1, k) \in Seq(Messages) /\ Len(SubSeq(f, 1, k)) = k
        /\ \A i \in 1 .. k : SubSeq(f, 1, k)[i] = f[i]
    BY <2>1, PrefixProperties
  <2> HIDE DEF u
  <2>3. /\ SubSeq(u, 1, k) \in Seq(Messages) /\ Len(SubSeq(u, 1, k)) = k
        /\ \A i \in 1 .. k : SubSeq(u, 1, k)[i] = u[i]
    BY <1>1, <2>1, PrefixProperties
  <2>4. \A i \in 1 .. k : SubSeq(u, 1, k)[i] = SubSeq(f, 1, k)[i]
    BY <1>1, <2>2, <2>3
  <2> QED BY <2>2, <2>3, <2>4, SeqEqual
<1>3. SubSeq(f, 1, n) = f
  BY SubSeqFull
<1> HIDE DEF u, n
<1>4. ASSUME NEW k \in 1 .. n + 1, u[k].stream = "event"
      PROVE  u[k].bp <= Len(Of(SubSeq(u, 1, k - 1), "breakpoint"))
  <2>1. k - 1 \in 0 .. n
    BY <1>1
  <2>2. SubSeq(u, 1, k - 1) = SubSeq(f, 1, k - 1)
    BY <1>2, <2>1
  <2>3. CASE k = n + 1
    <3>1. k - 1 = n /\ u[k] = m
      BY <1>1, <2>3
    <3> QED BY <1>3, <1>4, <2>2, <3>1
  <2>4. CASE k \in 1 .. n
    <3>1. u[k] = f[k] /\ f[k].stream = "event"
      BY <1>1, <1>4, <2>4
    <3>2. f[k].bp <= Len(Of(SubSeq(f, 1, k - 1), "breakpoint"))
      BY <2>4, <3>1 DEF HitsKnown, n
    <3> QED BY <2>2, <3>1, <3>2
  <2> QED BY <1>1, <2>3, <2>4
<1> QED BY <1>1, <1>4 DEF HitsKnown, u

LEMMA SoundNext ==
    ASSUME NEW f, NEW n, Sound(f, n), NEW m \in Messages,
           m.stream = "event" => n < MaxEvents /\ m.bp <= Len(Of(f, "breakpoint")),
           m.stream = "breakpoint" => Len(Of(f, "breakpoint")) < MaxBreakpoints
    PROVE  Sound(Append(f, m), IF m.stream = "event" THEN n + 1 ELSE n)
<1> DEFINE u == Append(f, m)
<1>1. f \in Seq(Messages) /\ Len(f) >= 1 /\ f[1] = Info(FALSE)
  BY DEF Sound
<1>2. u \in Seq(Messages) /\ Len(u) = Len(f) + 1 /\ u[1] = f[1]
  <2>1. /\ u \in Seq(Messages) /\ Len(u) = Len(f) + 1
        /\ \A i \in 1 .. Len(f) : u[i] = f[i]
    BY <1>1, AppendProperties
  <2>2. 1 \in 1 .. Len(f)
    BY <1>1
  <2> QED BY <2>1, <2>2
<1>3. HitsKnown(u)
  <2>1. HitsKnown(f) /\ (m.stream = "event" => m.bp <= Len(Of(f, "breakpoint")))
    BY DEF Sound
  <2> QED BY <1>1, <2>1, HitsStayKnown
<1>4. /\ Of(f, "event") \in Seq(Messages) /\ Of(f, "breakpoint") \in Seq(Messages)
      /\ Of(u, "event") = IF m.stream = "event" THEN Append(Of(f, "event"), m) ELSE Of(f, "event")
      /\ Of(u, "breakpoint") = IF m.stream = "breakpoint" THEN Append(Of(f, "breakpoint"), m)
                               ELSE Of(f, "breakpoint")
  BY <1>1, OfType, OfAppend
<1>5. /\ Len(Append(Of(f, "event"), m)) = Len(Of(f, "event")) + 1
      /\ Len(Append(Of(f, "breakpoint"), m)) = Len(Of(f, "breakpoint")) + 1
      /\ Len(Of(f, "breakpoint")) \in Nat
  BY <1>4, AppendProperties
<1>6. n \in 0 .. MaxEvents /\ Len(Of(f, "event")) = n /\ Len(Of(f, "breakpoint")) <= MaxBreakpoints
  BY DEF Sound
<1>7. MaxEvents \in Nat /\ MaxBreakpoints \in Nat
  BY BoundsAssumption
<1> HIDE DEF u
<1>8. Len(Of(u, "event")) = IF m.stream = "event" THEN n + 1 ELSE n
  BY <1>4, <1>5, <1>6
<1>9. (IF m.stream = "event" THEN n + 1 ELSE n) \in 0 .. MaxEvents
  BY <1>6, <1>7
<1>10. Len(Of(u, "breakpoint")) <= MaxBreakpoints
  BY <1>4, <1>5, <1>6, <1>7
<1>11. Len(u) >= 1
  BY <1>1, <1>2
<1> QED BY <1>1, <1>2, <1>3, <1>8, <1>9, <1>10, <1>11 DEF Sound, u

-----------------------------------------------------------------------------
(***************************************************************************)
(* The invariant.                                                          *)
(***************************************************************************)
\* What the debugger has written.
Written ==
    /\ log \in Seq(Entries) /\ calls \in [Threads -> 0 .. Len(log)]
    /\ Sound(file, Len(log))

\* The messages that the main loop has looked at.
Looked == read - Len(InFlight)

\* Those in flight are the next ones of the file.
Flowing ==
    /\ read \in 0 .. Len(file)
    /\ reader \in {"next", "send", "ended"} /\ (reader = "send" => read >= 1)
    /\ queue \in Seq(Messages) /\ Len(queue) <= QueueSize
    /\ batch \in Seq(Messages)
    /\ main \in {"is_empty", "is_disconnected", "drain", "wait", "process", "events",
                 "hits", "allocations", "end", "finished"}
    /\ main \notin {"wait", "process"} => batch = <<>>
    /\ Len(InFlight) <= read
    /\ \A i \in 1 .. Len(InFlight) : InFlight[i] = file[Looked + i]

EventRows == [stream : {"event"}, entry : Entries, bp : 1 .. MaxBreakpoints, parent : 0 .. MaxEvents]

RowsOf(table) == IF table = "event" THEN EventRows ELSE {m \in Messages : m.stream = table}

\* The rows of a table, those of the batch included.
Known(table) == db[table] \o (IF main = "hits" /\ table = "event" THEN <<>> ELSE rows[table])

Sources(s) == [i \in DOMAIN s |-> Source(s[i])]

\* Every message looked at is a row of its table, in the order of the file.
Stored ==
    /\ DOMAIN rows = Tables /\ DOMAIN db = Tables
    /\ \A table \in Tables : rows[table] \in Seq(RowsOf(table)) /\ db[table] \in Seq(RowsOf(table))
    /\ \A table \in Tables \ {"info"} : Sources(Known(table)) = Of(SubSeq(file, 1, Looked), table)
    /\ Looked >= 1 => db["info"] # <<>>

\* The hits of the events in the table are counted, but for those of the batch
\* while they are waited for, and every event has its breakpoint.
Counting ==
    /\ main \in {"events", "hits"} => rows["breakpoint"] = <<>>
    /\ hit_count \in Seq(Nat) /\ Len(hit_count) = Len(db["breakpoint"])
    /\ \A i \in 1 .. Len(db["event"]) : db["event"][i].bp <= Len(db["breakpoint"])
    /\ \A i \in 1 .. Len(rows["event"]) :
            rows["event"][i].bp <= Len(db["breakpoint"]) + Len(rows["breakpoint"])
    /\ \A id \in 1 .. Len(hit_count) :
            HitsIn(db["event"], id) =
                hit_count[id] + (IF main = "hits" THEN HitsIn(rows["event"], id) ELSE 0)

CallAt(s, j, t) == s[j].entry.thread = t /\ s[j].entry.type = "call"

\* The call s[j] of t has not returned before s[n + 1].
Unreturned(s, j, t, n) ==
    /\ CallAt(s, j, t)
    /\ \A k \in j + 1 .. n : s[k].entry # [s[j].entry EXCEPT !.type = "return"]

\* The calls of s are numbered and have the right parents; those that have not
\* returned are o.
Calling(s, o, c) ==
    /\ \A t \in Threads : \A j \in 1 .. Len(s) : CallAt(s, j, t) =>
            /\ s[j].entry.frame_id \in 1 .. c[t]
            /\ \A k \in 1 .. j - 1 : CallAt(s, k, t) => s[k].entry.frame_id < s[j].entry.frame_id
            /\ s[j].parent = CallerInLog(s, j)
    /\ \A t \in Threads : \A j \in 1 .. Len(s) :
            Unreturned(s, j, t, Len(s)) => \E i \in 1 .. Len(o[t]) : o[t][i] = s[j].entry.frame_id
    /\ \A t \in Threads : \A i \in 1 .. Len(o[t]) :
            \E j \in 1 .. Len(s) : Unreturned(s, j, t, Len(s)) /\ o[t][i] = s[j].entry.frame_id

Replayed ==
    \E H, C : /\ History(file, open, calls, H, C)
              /\ stack = H[Looked]
              /\ Calling(Known("event"), H[Looked], C[Looked])

Inv == Written /\ Flowing /\ Stored /\ Counting /\ Replayed

(* Where the main loop is. *)
LEMMA LookedAt ==
    ASSUME Flowing, file \in Seq(Messages)
    PROVE  /\ InFlight \in Seq(Messages) /\ Len(InFlight) \in Nat
           /\ read \in Nat /\ Len(file) \in Nat
           /\ Looked \in 0 .. read /\ Looked \in 0 .. Len(file) /\ read = Looked + Len(InFlight)
<1>1. read \in 0 .. Len(file) /\ Len(file) \in Nat /\ Len(InFlight) <= read
  BY DEF Flowing
<1>2. (IF reader = "send" THEN <<file[read]>> ELSE <<>>) \in Seq(Messages)
  <2>1. CASE reader = "send"
    <3>1. read \in 1 .. Len(file)
      BY <1>1, <2>1 DEF Flowing
    <3>2. file[read] \in Messages
      BY <3>1
    <3> QED BY <2>1, <3>2
  <2>2. CASE reader # "send"
    BY <2>2
  <2> QED BY <2>1, <2>2
<1>3. batch \in Seq(Messages) /\ queue \in Seq(Messages)
  BY DEF Flowing
<1>4. batch \o queue \in Seq(Messages)
  BY <1>3, ConcatProperties
<1>5. InFlight \in Seq(Messages)
  BY <1>2, <1>4, ConcatProperties DEF InFlight
<1>6. Len(InFlight) \in Nat
  BY <1>5, LenProperties
<1> QED BY <1>1, <1>5, <1>6 DEF Looked

(* The prefix of a longer file. *)
LEMMA SamePrefix ==
    ASSUME NEW S, NEW f \in Seq(S), NEW u \in Seq(S), Len(f) <= Len(u),
           \A i \in 1 .. Len(f) : u[i] = f[i], NEW k \in 0 .. Len(f)
    PROVE  SubSeq(u, 1, k) = SubSeq(f, 1, k)
<1>1. k \in 0 .. Len(u) /\ Len(f) \in Nat
  OBVIOUS
<1>2. /\ SubSeq(f, 1, k) \in Seq(S) /\ Len(SubSeq(f, 1, k)) = k
      /\ \A i \in 1 .. k : SubSeq(f, 1, k)[i] = f[i]
  BY PrefixProperties
<1>3. /\ SubSeq(u, 1, k) \in Seq(S) /\ Len(SubSeq(u, 1, k)) = k
      /\ \A i \in 1 .. k : SubSeq(u, 1, k)[i] = u[i]
  BY <1>1, PrefixProperties
<1>4. \A i \in 1 .. k : SubSeq(u, 1, k)[i] = SubSeq(f, 1, k)[i]
  BY <1>1, <1>2, <1>3
<1> QED BY <1>2, <1>3, <1>4, SeqEqual

-----------------------------------------------------------------------------
(***************************************************************************)
(* The steps of the debugger.                                              *)
(***************************************************************************)
Lengthens(f, u) == Len(f) <= Len(u) /\ \A i \in 1 .. Len(f) : u[i] = f[i]

Continued ==
    \A H, C : History(file, open, calls, H, C) =>
        \E G, D : /\ History(file', open', calls', G, D)
                  /\ \A k \in 0 .. Len(file) : G[k] = H[k] /\ D[k] = C[k]

LEMMA InvWhenWritten ==
    ASSUME Inv, UNCHANGED <<readerVars, queue, loopVars, db, hit_count>>,
           Written', Lengthens(file, file'), Continued
    PROVE  Inv'
<1>1. /\ read' = read /\ reader' = reader /\ queue' = queue /\ main' = main /\ batch' = batch
      /\ rows' = rows /\ stack' = stack /\ db' = db /\ hit_count' = hit_count
  BY DEF readerVars, loopVars
<1>2. file \in Seq(Messages) /\ file' \in Seq(Messages)
  BY DEF Inv, Written, Sound
<1>3. /\ InFlight \in Seq(Messages) /\ Len(InFlight) \in Nat /\ read \in Nat /\ Len(file) \in Nat
      /\ Looked \in 0 .. read /\ Looked \in 0 .. Len(file) /\ read = Looked + Len(InFlight)
  BY <1>2, LookedAt DEF Inv
<1>4. read \in 0 .. Len(file) /\ (reader = "send" => read \in 1 .. Len(file)) /\ Len(file') \in Nat
  BY <1>2 DEF Inv, Flowing
<1>5. Len(file) <= Len(file') /\ \A i \in 1 .. Len(file) : file'[i] = file[i]
  BY DEF Lengthens
<1>6. InFlight' = InFlight
  BY <1>1, <1>4, <1>5 DEF InFlight
<1>7. Looked' = Looked
  BY <1>1, <1>6 DEF Looked
<1>8. \A table : Known(table)' = Known(table)
  BY <1>1 DEF Known
<1>9. Flowing'
  <2>1. read' \in 0 .. Len(file')
    BY <1>1, <1>4, <1>5
  <2>2. \A i \in 1 .. Len(InFlight) : InFlight[i] = file'[Looked + i]
    <3>1. \A i \in 1 .. Len(InFlight) : Looked + i \in 1 .. Len(file)
      BY <1>3, <1>4
    <3> QED BY <1>5, <3>1 DEF Inv, Flowing
  <2> QED BY <1>1, <1>6, <1>7, <2>1, <2>2 DEF Inv, Flowing
<1>10. Stored'
  <2>1. SubSeq(file', 1, Looked) = SubSeq(file, 1, Looked)
    BY <1>2, <1>3, <1>5, SamePrefix
  <2> QED BY <1>1, <1>7, <1>8, <2>1 DEF Inv, Stored
<1>11. Counting'
  BY <1>1 DEF Inv, Counting
<1>12. Replayed'
  <2>1. PICK H, C : /\ History(file, open, calls, H, C) /\ stack = H[Looked]
                    /\ Calling(Known("event"), H[Looked], C[Looked])
    BY DEF Inv, Replayed
  <2>2. PICK G, D : /\ History(file', open', calls', G, D)
                    /\ \A k \in 0 .. Len(file) : G[k] = H[k] /\ D[k] = C[k]
    BY <2>1 DEF Continued
  <2>3. G[Looked] = H[Looked] /\ D[Looked] = C[Looked]
    BY <1>3, <2>2
  <2>4. stack' = G[Looked'] /\ Calling(Known("event")', G[Looked'], D[Looked'])
    BY <1>1, <1>7, <1>8, <2>1, <2>3
  <2> QED BY <2>2, <2>4 DEF Replayed
<1> QED BY <1>9, <1>10, <1>11, <1>12 DEF Inv

\* What a step of the debugger needs of the invariant.
LEMMA WhatIsWritten ==
    ASSUME Inv
    PROVE  /\ file \in Seq(Messages) /\ log \in Seq(Entries) /\ Len(log) \in 0 .. MaxEvents
           /\ MaxEvents \in Nat
           /\ Sound(file, Len(log))
           /\ Point(open, calls) /\ calls \in [Threads -> 0 .. Len(log)]
<1>1. /\ file \in Seq(Messages) /\ log \in Seq(Entries) /\ Len(log) \in 0 .. MaxEvents
      /\ Sound(file, Len(log)) /\ calls \in [Threads -> 0 .. Len(log)]
  BY DEF Inv, Written, Sound
<1>2. PICK H, C : History(file, open, calls, H, C)
  BY DEF Inv, Replayed
<1>3. Len(file) \in 0 .. Len(file)
  BY <1>1
<1>4. Point(open, calls)
  BY <1>2, <1>3 DEF History
<1> QED BY <1>1, <1>4, BoundsAssumption

LEMMA AppendLengthens ==
    ASSUME NEW S, NEW f \in Seq(S), NEW m \in S PROVE Lengthens(f, Append(f, m))
<1>1. Len(Append(f, m)) = Len(f) + 1 /\ \A i \in 1 .. Len(f) : Append(f, m)[i] = f[i]
  BY AppendProperties
<1>2. Len(f) \in Nat
  OBVIOUS
<1> QED BY <1>1, <1>2 DEF Lengthens

LEMMA PlainWritten ==
    ASSUME Inv, UNCHANGED <<readerVars, queue, loopVars, db, hit_count>>,
           UNCHANGED <<log, calls, open>>,
           NEW m \in Messages, m.stream # "event", file' = Append(file, m),
           m.stream = "breakpoint" => Len(Of(file, "breakpoint")) < MaxBreakpoints
    PROVE  Inv'
<1>1. /\ file \in Seq(Messages) /\ log \in Seq(Entries) /\ Sound(file, Len(log))
      /\ calls \in [Threads -> 0 .. Len(log)]
  BY WhatIsWritten
<1>2. Sound(file', Len(log))
  <2>1. Sound(Append(file, m), IF m.stream = "event" THEN Len(log) + 1 ELSE Len(log))
    BY <1>1, SoundNext
  <2> QED BY <2>1
<1>3. Written'
  BY <1>1, <1>2 DEF Written
<1>4. Lengthens(file, file')
  BY <1>1, AppendLengthens
<1>5. Follows(open, calls, m, open', calls')
  BY DEF Follows, IsCall, IsReturn
<1>6. Continued
  <2> SUFFICES ASSUME NEW H, NEW C, History(file, open, calls, H, C)
               PROVE  \E G, D : /\ History(Append(file, m), open', calls', G, D)
                                /\ \A k \in 0 .. Len(file) : G[k] = H[k] /\ D[k] = C[k]
    BY DEF Continued
  <2> QED BY <1>1, <1>5, HistoryNext
<1> QED BY <1>3, <1>4, <1>6, InvWhenWritten

LEMMA EventWritten ==
    ASSUME Inv, UNCHANGED <<readerVars, queue, loopVars, db, hit_count>>,
           NEW e \in Entries, NEW id \in 1 .. Len(Of(file, "breakpoint")), id <= MaxBreakpoints,
           Len(log) < MaxEvents, log' = Append(log, e), file' = Append(file, Event(e, id)),
           calls' \in [Threads -> 0 .. Len(log) + 1],
           Follows(open, calls, Event(e, id), open', calls')
    PROVE  Inv'
<1> DEFINE m == Event(e, id)
<1>1. /\ file \in Seq(Messages) /\ log \in Seq(Entries) /\ Sound(file, Len(log)) /\ Len(log) \in Nat
  BY WhatIsWritten
<1>2. m \in Messages /\ m.stream = "event" /\ m.bp = id
  <2>1. id \in 1 .. MaxBreakpoints
    BY BoundsAssumption
  <2> QED BY <2>1, PlainMessages, PlainStreams
<1>3. log' \in Seq(Entries) /\ Len(log') = Len(log) + 1
  BY <1>1, AppendProperties
<1> HIDE DEF m
<1>4. file' = Append(file, m)
  BY DEF m
<1>5. Sound(file', Len(log'))
  <2>1. m.bp <= Len(Of(file, "breakpoint"))
    BY <1>2
  <2>2. Sound(Append(file, m), IF m.stream = "event" THEN Len(log) + 1 ELSE Len(log))
    BY <1>1, <1>2, <2>1, SoundNext
  <2> QED BY <1>2, <1>3, <1>4, <2>2
<1>6. Written'
  BY <1>3, <1>5 DEF Written
<1>7. Lengthens(file, file')
  BY <1>1, <1>2, <1>4, AppendLengthens
<1>8. Continued
  <2> SUFFICES ASSUME NEW H, NEW C, History(file, open, calls, H, C)
               PROVE  \E G, D : /\ History(Append(file, m), open', calls', G, D)
                                /\ \A k \in 0 .. Len(file) : G[k] = H[k] /\ D[k] = C[k]
    BY <1>4 DEF Continued
  <2>1. Follows(open, calls, m, open', calls')
    BY DEF m
  <2> QED BY <1>1, <1>2, <2>1, HistoryNext
<1> QED BY <1>6, <1>7, <1>8, InvWhenWritten

(* A call with its return, in one step. *)
LEMMA TwoEventsWritten ==
    ASSUME Inv, UNCHANGED <<readerVars, queue, loopVars, db, hit_count>>,
           NEW e1 \in Entries, NEW e2 \in Entries,
           NEW id \in 1 .. Len(Of(file, "breakpoint")), id <= MaxBreakpoints,
           Len(log) + 2 <= MaxEvents, log' = Append(Append(log, e1), e2),
           file' = Append(Append(file, Event(e1, id)), Event(e2, id)),
           calls' \in [Threads -> 0 .. Len(log) + 2],
           NEW o, NEW c, Follows(open, calls, Event(e1, id), o, c),
           Follows(o, c, Event(e2, id), open', calls')
    PROVE  Inv'
<1> DEFINE m1 == Event(e1, id)
           m2 == Event(e2, id)
           f  == Append(file, m1)
<1>1. /\ file \in Seq(Messages) /\ log \in Seq(Entries) /\ Sound(file, Len(log)) /\ Len(log) \in Nat
      /\ MaxEvents \in Nat
  BY WhatIsWritten
<1>2. /\ m1 \in Messages /\ m1.stream = "event" /\ m1.bp = id
      /\ m2 \in Messages /\ m2.stream = "event" /\ m2.bp = id
  <2>1. id \in 1 .. MaxBreakpoints
    BY BoundsAssumption
  <2> QED BY <2>1, PlainMessages, PlainStreams
<1>3. log' \in Seq(Entries) /\ Len(log') = Len(log) + 2
  <2>1. Append(log, e1) \in Seq(Entries) /\ Len(Append(log, e1)) = Len(log) + 1
    BY <1>1, AppendProperties
  <2>2. /\ Append(Append(log, e1), e2) \in Seq(Entries)
        /\ Len(Append(Append(log, e1), e2)) = Len(Append(log, e1)) + 1
    BY <2>1, AppendProperties
  <2> QED BY <1>1, <2>1, <2>2
<1>4. f \in Seq(Messages) /\ Len(f) = Len(file) + 1 /\ Len(file) \in Nat
  BY <1>1, <1>2, AppendProperties
<1>5. Of(f, "breakpoint") = Of(file, "breakpoint")
  <2>1. Of(Append(file, m1), "breakpoint") =
            IF m1.stream = "breakpoint" THEN Append(Of(file, "breakpoint"), m1)
            ELSE Of(file, "breakpoint")
    BY <1>1, <1>2, OfAppend
  <2> QED BY <1>2, <2>1
<1> HIDE DEF m1, m2
<1>6. Sound(f, Len(log) + 1)
  <2>1. m1.bp <= Len(Of(file, "breakpoint")) /\ Len(log) < MaxEvents
    BY <1>1, <1>2
  <2>2. Sound(Append(file, m1), IF m1.stream = "event" THEN Len(log) + 1 ELSE Len(log))
    BY <1>1, <1>2, <2>1, SoundNext
  <2> QED BY <1>2, <2>2
<1>7. Lengthens(file, f)
  BY <1>1, <1>2, AppendLengthens
<1>8. \A H, C : History(file, open, calls, H, C) =>
        \E G, D : /\ History(f, o, c, G, D)
                  /\ \A k \in 0 .. Len(file) : G[k] = H[k] /\ D[k] = C[k]
  <2> SUFFICES ASSUME NEW H, NEW C, History(file, open, calls, H, C)
               PROVE  \E G, D : /\ History(Append(file, m1), o, c, G, D)
                                /\ \A k \in 0 .. Len(file) : G[k] = H[k] /\ D[k] = C[k]
    OBVIOUS
  <2>1. Follows(open, calls, m1, o, c)
    BY DEF m1
  <2> QED BY <1>1, <1>2, <2>1, HistoryNext
<1> HIDE DEF f
<1>9. file' = Append(f, m2)
  BY DEF f, m1, m2
<1>10. Sound(file', Len(log'))
  <2>1. m2.bp <= Len(Of(f, "breakpoint")) /\ Len(log) + 1 < MaxEvents
    BY <1>1, <1>2, <1>5
  <2>2. Sound(Append(f, m2), IF m2.stream = "event" THEN (Len(log) + 1) + 1 ELSE Len(log) + 1)
    BY <1>2, <1>6, <2>1, SoundNext
  <2>3. (Len(log) + 1) + 1 = Len(log')
    BY <1>1, <1>3
  <2> QED BY <1>2, <1>9, <2>2, <2>3
<1>11. Written'
  BY <1>3, <1>10 DEF Written
<1>12. Lengthens(file, file')
  <2>1. Lengthens(f, file')
    BY <1>2, <1>4, <1>9, AppendLengthens
  <2>2. Len(file') \in Nat
    BY <1>2, <1>4, <1>9, AppendProperties
  <2> QED BY <1>4, <1>7, <2>1, <2>2 DEF Lengthens
<1>13. Continued
  <2> SUFFICES ASSUME NEW H, NEW C, History(file, open, calls, H, C)
               PROVE  \E G, D : /\ History(Append(f, m2), open', calls', G, D)
                                /\ \A k \in 0 .. Len(file) : G[k] = H[k] /\ D[k] = C[k]
    BY <1>9 DEF Continued
  <2>1. PICK G1, D1 : /\ History(f, o, c, G1, D1)
                      /\ \A k \in 0 .. Len(file) : G1[k] = H[k] /\ D1[k] = C[k]
    BY <1>8
  <2>2. Follows(o, c, m2, open', calls')
    BY DEF m2
  <2>3. PICK G, D : /\ History(Append(f, m2), open', calls', G, D)
                    /\ \A k \in 0 .. Len(f) : G[k] = G1[k] /\ D[k] = D1[k]
    BY <1>2, <1>4, <2>1, <2>2, HistoryNext
  <2>4. \A k \in 0 .. Len(file) : k \in 0 .. Len(f)
    BY <1>4
  <2>5. \A k \in 0 .. Len(file) : G[k] = H[k] /\ D[k] = C[k]
    BY <2>1, <2>3, <2>4
  <2> QED BY <2>3, <2>5
<1> QED BY <1>11, <1>12, <1>13, InvWhenWritten

\* The messages that a step of the debugger appends.
LEMMA OneAppended ==
    ASSUME NEW s \in Seq(Messages), NEW l \in Seq(Entries), NEW e \in Entries, NEW id,
           Event(e, id) \in Messages, NEW k, k = Append(l, e)
    PROVE  s \o [i \in 1 .. Len(k) - Len(l) |-> Event(k[Len(l) + i], id)] = Append(s, Event(e, id))
<1>1. Len(k) = Len(l) + 1 /\ k[Len(l) + 1] = e /\ Len(l) \in Nat
  BY AppendProperties
<1>2. [i \in 1 .. Len(k) - Len(l) |-> Event(k[Len(l) + i], id)] = <<Event(e, id)>>
  BY <1>1
<1>3. Append(s, Event(e, id)) = s \o <<Event(e, id)>>
  BY AppendIsConcat
<1> QED BY <1>2, <1>3

LEMMA TwoAppended ==
    ASSUME NEW s \in Seq(Messages), NEW l \in Seq(Entries), NEW e1 \in Entries, NEW e2 \in Entries,
           NEW id, Event(e1, id) \in Messages, Event(e2, id) \in Messages,
           NEW k, k = Append(Append(l, e1), e2)
    PROVE  s \o [i \in 1 .. Len(k) - Len(l) |-> Event(k[Len(l) + i], id)] =
                Append(Append(s, Event(e1, id)), Event(e2, id))
<1> DEFINE m1 == Event(e1, id)
           m2 == Event(e2, id)
<1>1. /\ Append(l, e1) \in Seq(Entries) /\ Len(Append(l, e1)) = Len(l) + 1 /\ Len(l) \in Nat
      /\ Append(l, e1)[Len(l) + 1] = e1
  BY AppendProperties
<1>2. /\ Len(k) = Len(Append(l, e1)) + 1 /\ k[Len(Append(l, e1)) + 1] = e2
      /\ \A i \in 1 .. Len(Append(l, e1)) : k[i] = Append(l, e1)[i]
  BY <1>1, AppendProperties
<1>3. Len(k) - Len(l) = 2 /\ k[Len(l) + 1] = e1 /\ k[Len(l) + 2] = e2
  BY <1>1, <1>2
<1>4. [i \in 1 .. Len(k) - Len(l) |-> Event(k[Len(l) + i], id)] = <<m1, m2>>
  BY <1>3
<1> HIDE DEF m1, m2
<1>5. /\ s \o <<m1>> \in Seq(Messages) /\ <<m1>> \in Seq(Messages) /\ <<m2>> \in Seq(Messages)
      /\ Append(s, m1) = s \o <<m1>> /\ Append(s, m1) \in Seq(Messages)
  <2>1. m1 \in Messages /\ m2 \in Messages
    BY DEF m1, m2
  <2>2. <<m1>> \in Seq(Messages) /\ <<m2>> \in Seq(Messages)
    BY <2>1
  <2>3. Append(s, m1) = s \o <<m1>> /\ Append(s, m1) \in Seq(Messages)
    BY <2>1, AppendIsConcat, AppendProperties
  <2> QED BY <2>2, <2>3
<1>6. Append(Append(s, m1), m2) = (s \o <<m1>>) \o <<m2>>
  <2>1. m2 \in Messages
    BY DEF m2
  <2> QED BY <1>5, <2>1, AppendIsConcat
<1>7. (s \o <<m1>>) \o <<m2>> = s \o (<<m1>> \o <<m2>>)
  BY <1>5, ConcatAssociative
<1>8. Append(Append(s, m1), m2) = s \o <<m1, m2>>
  BY <1>6, <1>7, PairIsConcat
<1> QED BY <1>4, <1>8 DEF m1, m2

LEMMA WriteEventStep ==
    ASSUME Inv, WriteEvent, UNCHANGED <<readerVars, queue, loopVars, db, hit_count>>
    PROVE  Inv'
<1>1. PICK id \in 1 .. Len(Of(file, "breakpoint")) :
            file' = file \o [i \in 1 .. Len(log') - Len(log) |-> Event(log'[Len(log) + i], id)]
  BY DEF WriteEvent, Count
<1>2. /\ file \in Seq(Messages) /\ log \in Seq(Entries) /\ Len(log) \in 0 .. MaxEvents
      /\ MaxEvents \in Nat /\ MaxBreakpoints \in Nat
      /\ Point(open, calls) /\ calls \in [Threads -> 0 .. Len(log)]
  BY WhatIsWritten, BoundsAssumption
<1>3. id \in 1 .. MaxBreakpoints /\ id <= MaxBreakpoints
  <2>1. Of(file, "breakpoint") \in Seq(Messages)
    BY <1>2, OfType
  <2>2. Len(Of(file, "breakpoint")) <= MaxBreakpoints /\ Len(Of(file, "breakpoint")) \in Nat
    BY <2>1 DEF Inv, Written, Sound
  <2> QED BY <1>2, <2>2
<1>4. Debugger!Next /\ Len(log') <= MaxEvents
  BY DEF WriteEvent
<1>5. PICK t \in Threads : \/ Debugger!Call(t) \/ Debugger!Return(t)
                           \/ Debugger!CallAndReturn(t) \/ Debugger!Mark(t)
  BY <1>4 DEF Debugger!Next
<1>6. calls[t] \in 0 .. Len(log) /\ open[t] \in Seq(1 .. MaxEvents)
  BY <1>2 DEF Point, Stacks
<1> DEFINE Of1(type, n) == Debugger!Entry(type, t, n)
<1>7. \A n \in 0 .. MaxEvents : \A type \in {"call", "return", "breakpoint"} :
        /\ Of1(type, n) \in Entries /\ Of1(type, n).type = type
        /\ Of1(type, n).thread = t /\ Of1(type, n).frame_id = n
        /\ Event(Of1(type, n), id) \in Messages
        /\ Event(Of1(type, n), id).stream = "event"
        /\ Event(Of1(type, n), id).entry = Of1(type, n)
  <2> SUFFICES ASSUME NEW n \in 0 .. MaxEvents, NEW type \in {"call", "return", "breakpoint"}
               PROVE  /\ Of1(type, n) \in Entries /\ Of1(type, n).type = type
                      /\ Of1(type, n).thread = t /\ Of1(type, n).frame_id = n
                      /\ Event(Of1(type, n), id) \in Messages
                      /\ Event(Of1(type, n), id).stream = "event"
                      /\ Event(Of1(type, n), id).entry = Of1(type, n)
    OBVIOUS
  <2>1. /\ Of1(type, n) \in Entries /\ Of1(type, n).type = type
        /\ Of1(type, n).thread = t /\ Of1(type, n).frame_id = n
    BY DEF Entries, Debugger!Entry
  <2> HIDE DEF Of1
  <2> QED BY <1>3, <2>1, PlainMessages, PlainStreams
<1>8. CASE Debugger!Call(t)
  <2> DEFINE e == Of1("call", calls[t] + 1)
  <2>1. /\ calls' = [calls EXCEPT ![t] = calls[t] + 1]
        /\ open' = [open EXCEPT ![t] = Append(open[t], calls[t] + 1)]
        /\ log' = Append(log, e)
    BY <1>8 DEF Debugger!Call
  <2>2. Len(log') = Len(log) + 1
    BY <1>2, <2>1
  <2>3. calls[t] + 1 \in 0 .. MaxEvents /\ Len(log) < MaxEvents
    BY <1>2, <1>4, <1>6, <2>2
  <2>4. /\ e \in Entries /\ e.type = "call" /\ e.thread = t /\ e.frame_id = calls[t] + 1
        /\ Event(e, id) \in Messages /\ Event(e, id).stream = "event" /\ Event(e, id).entry = e
    BY <1>7, <2>3
  <2>5. calls' \in [Threads -> 0 .. Len(log) + 1]
    BY <1>2, <1>6, <2>1
  <2> HIDE DEF e, Of1
  <2>6. file' = Append(file, Event(e, id))
    BY <1>1, <1>2, <2>1, <2>4, OneAppended
  <2>7. Follows(open, calls, Event(e, id), open', calls')
    BY <2>1, <2>4 DEF Follows, IsCall
  <2> QED BY <1>3, <2>1, <2>3, <2>4, <2>5, <2>6, <2>7, EventWritten
<1>9. CASE Debugger!Return(t)
  <2> DEFINE top == open[t][Len(open[t])]
             e   == Of1("return", top)
  <2>1. /\ open[t] # <<>>
        /\ open' = [open EXCEPT ![t] = SubSeq(open[t], 1, Len(open[t]) - 1)]
        /\ log' = Append(log, e) /\ calls' = calls
    BY <1>9 DEF Debugger!Return, Debugger!Innermost
  <2>2. Len(log') = Len(log) + 1
    BY <1>2, <2>1
  <2>3. top \in 0 .. MaxEvents /\ Len(log) < MaxEvents
    <3>2. top \in 1 .. MaxEvents
      BY <1>6, <2>1, TopType
    <3> QED BY <1>2, <1>4, <2>2, <3>2
  <2> HIDE DEF top
  <2>4. /\ e \in Entries /\ e.type = "return" /\ e.thread = t /\ e.frame_id = top
        /\ Event(e, id) \in Messages /\ Event(e, id).stream = "event" /\ Event(e, id).entry = e
    BY <1>7, <2>3
  <2>5. calls' \in [Threads -> 0 .. Len(log) + 1]
    BY <1>2, <2>1
  <2> HIDE DEF e, Of1
  <2>6. file' = Append(file, Event(e, id))
    BY <1>1, <1>2, <2>1, <2>4, OneAppended
  <2>7. Follows(open, calls, Event(e, id), open', calls')
    BY <2>1, <2>4 DEF Follows, IsReturn, top
  <2> QED BY <1>3, <2>1, <2>3, <2>4, <2>5, <2>6, <2>7, EventWritten
<1>10. CASE Debugger!CallAndReturn(t)
  <2> DEFINE e1 == Of1("call", calls[t] + 1)
             e2 == Of1("return", calls[t] + 1)
             o  == [open EXCEPT ![t] = Append(open[t], calls[t] + 1)]
  <2>1. /\ calls' = [calls EXCEPT ![t] = calls[t] + 1]
        /\ log' = log \o <<e1, e2>> /\ open' = open
    BY <1>10 DEF Debugger!CallAndReturn
  <2>2. Len(log') = Len(log) + 2
    BY <1>2, <2>1
  <2>3. calls[t] + 1 \in 0 .. MaxEvents /\ Len(log) + 2 <= MaxEvents
    BY <1>2, <1>4, <1>6, <2>2
  <2>4. /\ e1 \in Entries /\ e1.type = "call" /\ e1.thread = t /\ e1.frame_id = calls[t] + 1
        /\ Event(e1, id) \in Messages /\ Event(e1, id).stream = "event" /\ Event(e1, id).entry = e1
    BY <1>7, <2>3
  <2>5. /\ e2 \in Entries /\ e2.type = "return" /\ e2.thread = t /\ e2.frame_id = calls[t] + 1
        /\ Event(e2, id) \in Messages /\ Event(e2, id).stream = "event" /\ Event(e2, id).entry = e2
    BY <1>7, <2>3
  <2>6. calls' \in [Threads -> 0 .. Len(log) + 2]
    BY <1>2, <1>6, <2>1
  <2> HIDE DEF e1, e2, Of1
  <2>7. log' = Append(Append(log, e1), e2)
    BY <1>2, <2>1, <2>4, <2>5
  <2>8. file' = Append(Append(file, Event(e1, id)), Event(e2, id))
    BY <1>1, <1>2, <2>4, <2>5, <2>7, TwoAppended
  <2>9. Follows(open, calls, Event(e1, id), o, calls')
    BY <2>1, <2>4 DEF Follows, IsCall
  <2>10. /\ o[t] = Append(open[t], calls[t] + 1) /\ o[t] # <<>>
         /\ o[t][Len(o[t])] = calls[t] + 1
         /\ SubSeq(o[t], 1, Len(o[t]) - 1) = open[t]
         /\ [o EXCEPT ![t] = SubSeq(o[t], 1, Len(o[t]) - 1)] = open
    <3>1. o[t] = Append(open[t], calls[t] + 1)
      BY <1>2 DEF Point, Stacks
    <3>2. calls[t] + 1 \in 1 .. MaxEvents
      BY <1>6, <2>3
    <3> DEFINE u == Append(open[t], calls[t] + 1)
    <3>3. u # <<>> /\ u[Len(u)] = calls[t] + 1 /\ SubSeq(u, 1, Len(u) - 1) = open[t]
      BY <1>6, <3>2, PushAndPop
    <3>4. [o EXCEPT ![t] = open[t]] = open
      BY <1>2 DEF Point, Stacks
    <3> HIDE DEF o, u
    <3> QED BY <3>1, <3>3, <3>4 DEF u
  <2> HIDE DEF o
  <2>11. Follows(o, calls', Event(e2, id), open', calls')
    BY <2>1, <2>5, <2>10 DEF Follows, IsReturn
  <2> QED BY <1>3, <2>3, <2>4, <2>5, <2>6, <2>7, <2>8, <2>9, <2>11, TwoEventsWritten
<1>11. CASE Debugger!Mark(t)
  <2> DEFINE top == IF open[t] = <<>> THEN 0 ELSE open[t][Len(open[t])]
             e   == Of1("breakpoint", top)
  <2>1. log' = Append(log, e) /\ calls' = calls /\ open' = open
    BY <1>11 DEF Debugger!Mark, Debugger!Innermost
  <2>2. Len(log') = Len(log) + 1
    BY <1>2, <2>1
  <2>3. top \in 0 .. MaxEvents /\ Len(log) < MaxEvents
    <3>1. open[t] # <<>> => open[t][Len(open[t])] \in 1 .. MaxEvents
      BY <1>6, TopType
    <3> QED BY <1>2, <1>4, <2>2, <3>1
  <2> HIDE DEF top
  <2>4. /\ e \in Entries /\ e.type = "breakpoint" /\ e.thread = t
        /\ Event(e, id) \in Messages /\ Event(e, id).stream = "event" /\ Event(e, id).entry = e
    BY <1>7, <2>3
  <2>5. calls' \in [Threads -> 0 .. Len(log) + 1]
    BY <1>2, <2>1
  <2> HIDE DEF e, Of1
  <2>6. file' = Append(file, Event(e, id))
    BY <1>1, <1>2, <2>1, <2>4, OneAppended
  <2>7. Follows(open, calls, Event(e, id), open', calls')
    BY <2>1, <2>4 DEF Follows, IsCall, IsReturn
  <2> QED BY <1>3, <2>1, <2>3, <2>4, <2>5, <2>6, <2>7, EventWritten
<1> QED BY <1>5, <1>8, <1>9, <1>10, <1>11

LEMMA WriteStep == Inv /\ Write => Inv'
<1> SUFFICES ASSUME Inv, Write PROVE Inv'
  OBVIOUS
<1>1. UNCHANGED <<readerVars, queue, loopVars, db, hit_count>>
  BY DEF Write
<1>2. file \in Seq(Messages) /\ Of(file, "breakpoint") \in Seq(Messages)
      /\ Of(file, "allocation") \in Seq(Messages)
  BY WhatIsWritten, OfType
<1>3. CASE WriteBreakpoint
  <2> DEFINE n == Len(Of(file, "breakpoint"))
  <2>1. n < MaxBreakpoints /\ file' = Append(file, Bp(n + 1)) /\ UNCHANGED <<log, calls, open>>
    BY <1>3 DEF WriteBreakpoint, Count
  <2>2. n + 1 \in 1 .. MaxBreakpoints
    BY <1>2, <2>1, BoundsAssumption
  <2>3. Bp(n + 1) \in Messages /\ Bp(n + 1).stream = "breakpoint"
    BY <2>2, PlainMessages, PlainStreams
  <2> QED BY <1>1, <2>1, <2>3, PlainWritten
<1>4. CASE WriteEvent
  BY <1>1, <1>4, WriteEventStep
<1>5. CASE WriteAllocation
  <2> DEFINE n == Len(Of(file, "allocation"))
  <2>1. n < MaxAllocations /\ file' = Append(file, Allocation(n + 1)) /\ UNCHANGED <<log, calls, open>>
    BY <1>5 DEF WriteAllocation, Count
  <2>2. n + 1 \in 1 .. MaxAllocations
    BY <1>2, <2>1, BoundsAssumption
  <2>3. Allocation(n + 1) \in Messages /\ Allocation(n + 1).stream = "allocation"
    BY <2>2, PlainMessages, PlainStreams
  <2> QED BY <1>1, <2>1, <2>3, PlainWritten
<1>6. CASE WriteExit
  <2>1. file' = Append(file, Info(TRUE)) /\ UNCHANGED <<log, calls, open>>
    BY <1>6 DEF WriteExit
  <2>2. Info(TRUE) \in Messages /\ Info(TRUE).stream = "info"
    BY PlainMessages, PlainStreams
  <2> QED BY <1>1, <2>1, <2>2, PlainWritten
<1>7. CASE WriteEnd
  <2>1. file' = Append(file, EndOfStream) /\ UNCHANGED <<log, calls, open>>
    BY <1>7 DEF WriteEnd
  <2>2. EndOfStream \in Messages /\ EndOfStream.stream = "eos"
    BY PlainMessages, PlainStreams
  <2> QED BY <1>1, <2>1, <2>2, PlainWritten
<1> QED BY <1>3, <1>4, <1>5, <1>6, <1>7 DEF Write

-----------------------------------------------------------------------------
(***************************************************************************)
(* The steps that move messages.                                           *)
(***************************************************************************)
LEMMA InvWhenMoved ==
    ASSUME Inv, UNCHANGED writerVars, UNCHANGED <<rows, stack, db, hit_count>>,
           main' = main \/ (main \notin {"events", "hits"} /\ main' \notin {"events", "hits"}),
           Flowing', Looked' = Looked
    PROVE  Inv'
<1>1. /\ log' = log /\ calls' = calls /\ open' = open /\ file' = file
      /\ rows' = rows /\ stack' = stack /\ db' = db /\ hit_count' = hit_count
  BY DEF writerVars
<1>2. \A table : Known(table)' = Known(table)
  BY <1>1 DEF Known
<1>3. Written'
  BY <1>1 DEF Inv, Written
<1>4. Stored'
  BY <1>1, <1>2 DEF Inv, Stored
<1>5. Counting'
  <2>1. main' = "hits" <=> main = "hits"
    OBVIOUS
  <2>2. main' \in {"events", "hits"} <=> main \in {"events", "hits"}
    OBVIOUS
  <2> QED BY <1>1, <2>1, <2>2 DEF Inv, Counting
<1>6. Replayed'
  BY <1>1, <1>2 DEF Inv, Replayed
<1> QED BY <1>3, <1>4, <1>5, <1>6 DEF Inv

\* What is in flight, without the message that the reader task holds.
LEMMA InFlightUnlessSend ==
    ASSUME batch \in Seq(Messages), queue \in Seq(Messages)
    PROVE  /\ reader # "send" => InFlight = batch \o queue
           /\ reader = "send" => InFlight = (batch \o queue) \o <<file[read]>>
<1>1. batch \o queue \in Seq(Messages)
  BY ConcatProperties
<1>2. (batch \o queue) \o <<>> = batch \o queue
  BY <1>1
<1> QED BY <1>2 DEF InFlight

LEMMA ReadNextStep == Inv /\ ReadNext => Inv'
<1> SUFFICES ASSUME Inv, ReadNext PROVE Inv'
  OBVIOUS
<1>1. /\ UNCHANGED writerVars /\ UNCHANGED <<rows, stack, db, hit_count>>
      /\ queue' = queue /\ batch' = batch /\ main' = main /\ file' = file
      /\ reader = "next" /\ read < Len(file)
  BY DEF ReadNext, writerVars, loopVars
<1>2. file \in Seq(Messages)
  BY WhatIsWritten
<1>3. /\ InFlight \in Seq(Messages) /\ Len(InFlight) \in Nat /\ read \in Nat /\ Len(file) \in Nat
      /\ Looked \in 0 .. read /\ Looked \in 0 .. Len(file) /\ read = Looked + Len(InFlight)
  BY <1>2, LookedAt DEF Inv
<1>4. /\ batch \in Seq(Messages) /\ queue \in Seq(Messages)
      /\ \A i \in 1 .. Len(InFlight) : InFlight[i] = file[Looked + i]
  BY DEF Inv, Flowing
<1>5. InFlight = batch \o queue
  BY <1>1, <1>4, InFlightUnlessSend
<1>6. CASE reader' = "ended" /\ read' = read
  <2>1. InFlight' = batch \o queue
    <3>1. batch \o queue \in Seq(Messages)
      BY <1>4, ConcatProperties
    <3>2. (batch \o queue) \o <<>> = batch \o queue
      BY <3>1
    <3> QED BY <1>1, <1>6, <3>2 DEF InFlight
  <2>2. InFlight' = InFlight
    BY <1>5, <2>1
  <2>3. Looked' = Looked
    BY <1>6, <2>2 DEF Looked
  <2>4. Flowing'
    BY <1>1, <1>6, <2>2, <2>3 DEF Inv, Flowing
  <2> QED BY <1>1, <2>3, <2>4, InvWhenMoved
<1>7. CASE reader' = "send" /\ read' = read + 1
  <2> DEFINE m == file[read + 1]
  <2>1. m \in Messages
    BY <1>1, <1>2, <1>3
  <2> HIDE DEF m
  <2>2. InFlight' = InFlight \o <<m>>
    BY <1>1, <1>5, <1>7 DEF InFlight, m
  <2>3. InFlight' = Append(InFlight, m)
    BY <1>3, <2>1, <2>2, AppendIsConcat
  <2>4. /\ Len(InFlight') = Len(InFlight) + 1 /\ InFlight'[Len(InFlight) + 1] = m
        /\ \A i \in 1 .. Len(InFlight) : InFlight'[i] = InFlight[i]
    BY <1>3, <2>1, <2>3, AppendProperties
  <2>5. Looked' = Looked
    <3>1. Looked' = read' - Len(InFlight')
      BY DEF Looked
    <3> QED BY <1>3, <1>7, <2>4, <3>1
  <2>6. ASSUME NEW i \in 1 .. Len(InFlight) + 1 PROVE InFlight'[i] = file[Looked + i]
    <3>1. CASE i = Len(InFlight) + 1
      <4>1. Looked + i = read + 1
        BY <1>3, <3>1
      <4> QED BY <2>4, <3>1, <4>1 DEF m
    <3>2. CASE i \in 1 .. Len(InFlight)
      BY <1>4, <2>4, <3>2
    <3> QED BY <1>3, <3>1, <3>2
  <2>7. read' \in 0 .. Len(file) /\ read' >= 1 /\ Len(InFlight') <= read'
    BY <1>1, <1>3, <1>7, <2>4
  <2>8. Flowing'
    BY <1>1, <1>7, <2>4, <2>5, <2>6, <2>7 DEF Inv, Flowing
  <2> QED BY <1>1, <2>5, <2>8, InvWhenMoved
<1> QED BY <1>6, <1>7 DEF ReadNext, AfterEnd

LEMMA SendStep == Inv /\ Send => Inv'
<1> SUFFICES ASSUME Inv, Send PROVE Inv'
  OBVIOUS
<1>1. /\ UNCHANGED writerVars /\ UNCHANGED <<rows, stack, db, hit_count>>
      /\ queue' = Append(queue, file[read]) /\ batch' = batch /\ main' = main
      /\ file' = file /\ read' = read /\ reader = "send" /\ reader' = "next"
      /\ Len(queue) < QueueSize
  BY DEF Send, writerVars, loopVars, HasRoom
<1>2. file \in Seq(Messages) /\ file[read] \in Messages
  <2>1. file \in Seq(Messages)
    BY WhatIsWritten
  <2>2. read \in 1 .. Len(file)
    BY <1>1, <2>1 DEF Inv, Flowing
  <2> QED BY <2>1, <2>2
<1>3. batch \in Seq(Messages) /\ queue \in Seq(Messages)
  BY DEF Inv, Flowing
<1>4. queue' \in Seq(Messages) /\ Len(queue') = Len(queue) + 1 /\ Len(queue) \in Nat
  BY <1>1, <1>2, <1>3, AppendProperties
<1>5. InFlight' = InFlight
  <2>1. InFlight = (batch \o queue) \o <<file[read]>>
    BY <1>1, <1>3, InFlightUnlessSend
  <2>2. batch \o Append(queue, file[read]) = Append(batch \o queue, file[read])
    BY <1>2, <1>3, ConcatAppend
  <2>3. batch \o queue \in Seq(Messages)
    BY <1>3, ConcatProperties
  <2>4. Append(batch \o queue, file[read]) = (batch \o queue) \o <<file[read]>>
    BY <1>2, <2>3, AppendIsConcat
  <2>5. batch' \o queue' \in Seq(Messages)
    BY <1>1, <1>3, <1>4, ConcatProperties
  <2>6. (batch' \o queue') \o <<>> = batch' \o queue'
    BY <2>5
  <2>7. InFlight' = batch' \o queue'
    BY <1>1, <2>6 DEF InFlight
  <2> QED BY <1>1, <2>1, <2>2, <2>4, <2>7
<1>6. Looked' = Looked
  BY <1>1, <1>5 DEF Looked
<1>7. Flowing'
  <2>1. Len(queue') <= QueueSize
    BY <1>1, <1>4, BoundsAssumption
  <2> QED BY <1>1, <1>4, <1>5, <1>6, <2>1 DEF Inv, Flowing
<1> QED BY <1>1, <1>6, <1>7, InvWhenMoved

\* To take the whole queue behind the batch.
LEMMA QueueTaken ==
    ASSUME batch \in Seq(Messages), queue \in Seq(Messages),
           batch' = batch \o queue, queue' = <<>>, read' = read, reader' = reader, file' = file
    PROVE  InFlight' = InFlight /\ batch' \in Seq(Messages) /\ queue' \in Seq(Messages)
<1>1. batch \o queue \in Seq(Messages)
  BY ConcatProperties
<1>2. (batch \o queue) \o <<>> = batch \o queue
  BY <1>1
<1>3. batch' \o queue' = batch \o queue
  BY <1>2
<1>4. queue' \in Seq(Messages)
  OBVIOUS
<1> QED BY <1>1, <1>3, <1>4 DEF InFlight

LEMMA MoveSteps ==
    Inv /\ (IsEmpty \/ IsDisconnected \/ Drain \/ WaitForMore \/ End) => Inv'
<1> SUFFICES ASSUME Inv, IsEmpty \/ IsDisconnected \/ Drain \/ WaitForMore \/ End PROVE Inv'
  OBVIOUS
<1>1. CASE IsEmpty \/ IsDisconnected \/ End
  <2>1. /\ UNCHANGED writerVars /\ UNCHANGED <<rows, stack, db, hit_count>>
        /\ queue' = queue /\ batch' = batch /\ file' = file /\ read' = read /\ reader' = reader
    BY <1>1 DEF IsEmpty, IsDisconnected, End, writerVars, readerVars
  <2>2. /\ main \in {"is_empty", "is_disconnected", "end"}
        /\ main' \in {"is_disconnected", "drain", "end", "finished"}
    BY <1>1 DEF IsEmpty, IsDisconnected, End
  <2>3. InFlight' = InFlight /\ Looked' = Looked
    BY <2>1 DEF InFlight, Looked
  <2>4. batch = <<>>
    BY <2>2 DEF Inv, Flowing
  <2>5. Flowing'
    BY <2>1, <2>2, <2>3, <2>4 DEF Inv, Flowing
  <2>6. main \notin {"events", "hits"} /\ main' \notin {"events", "hits"}
    BY <2>2
  <2> QED BY <2>1, <2>3, <2>5, <2>6, InvWhenMoved
<1>2. CASE Drain
  <2>1. /\ UNCHANGED writerVars /\ UNCHANGED <<rows, stack, db, hit_count>>
        /\ queue' = <<>> /\ batch' = queue /\ file' = file /\ read' = read /\ reader' = reader
        /\ main = "drain" /\ main' = AfterDrain(queue)
    BY <1>2 DEF Drain, writerVars, readerVars
  <2>2. batch = <<>> /\ queue \in Seq(Messages) /\ batch \in Seq(Messages)
    BY <2>1 DEF Inv, Flowing
  <2>3. batch \o queue = queue
    BY <2>2
  <2>4. InFlight' = InFlight /\ batch' \in Seq(Messages) /\ queue' \in Seq(Messages)
    BY <2>1, <2>2, <2>3, QueueTaken
  <2>5. Looked' = Looked
    BY <2>1, <2>4 DEF Looked
  <2>6. Len(queue) \in Nat /\ (Len(queue) = 0 => queue = <<>>)
    BY <2>2
  <2>7. /\ main' \in {"is_empty", "wait", "process"}
        /\ main' \notin {"wait", "process"} => batch' = <<>>
    BY <2>1, <2>6 DEF AfterDrain
  <2>8. Len(queue') <= QueueSize
    <3>1. Len(<<>>) = 0
      OBVIOUS
    <3> QED BY <2>1, <3>1, BoundsAssumption
  <2>9. Flowing'
    BY <2>1, <2>4, <2>5, <2>7, <2>8 DEF Inv, Flowing
  <2>10. main \notin {"events", "hits"} /\ main' \notin {"events", "hits"}
    BY <2>1, <2>7
  <2> QED BY <2>1, <2>5, <2>9, <2>10, InvWhenMoved
<1>3. CASE WaitForMore
  <2>1. /\ UNCHANGED writerVars /\ UNCHANGED <<rows, stack, db, hit_count>>
        /\ queue' = <<>> /\ batch' = batch \o queue /\ file' = file /\ read' = read /\ reader' = reader
        /\ main = "wait" /\ main' = "process"
    BY <1>3 DEF WaitForMore, writerVars, readerVars, Chain
  <2>2. queue \in Seq(Messages) /\ batch \in Seq(Messages)
    BY DEF Inv, Flowing
  <2>3. InFlight' = InFlight /\ batch' \in Seq(Messages) /\ queue' \in Seq(Messages)
    BY <2>1, <2>2, QueueTaken
  <2>4. Looked' = Looked
    BY <2>1, <2>3 DEF Looked
  <2>5. Len(queue') <= QueueSize
    <3>1. Len(<<>>) = 0
      OBVIOUS
    <3> QED BY <2>1, <3>1, BoundsAssumption
  <2>6. Flowing'
    BY <2>1, <2>3, <2>4, <2>5 DEF Inv, Flowing
  <2>7. main \notin {"events", "hits"} /\ main' \notin {"events", "hits"}
    BY <2>1
  <2> QED BY <2>1, <2>4, <2>6, <2>7, InvWhenMoved
<1> QED BY <1>1, <1>2, <1>3

-----------------------------------------------------------------------------
(***************************************************************************)
(* Rows and the messages they are of; the hits of a sequence of rows.      *)
(***************************************************************************)
LEMMA SourceTypes ==
    ASSUME NEW table \in Tables, NEW row \in RowsOf(table)
    PROVE  /\ Source(row) \in Messages /\ Source(row).stream = table
           /\ table = "event" => row.bp = Source(row).bp /\ row.entry = Source(row).entry
<1>1. CASE table = "event"
  <2>1. /\ row.stream = "event" /\ row.entry \in Entries /\ row.bp \in 1 .. MaxBreakpoints
    BY <1>1 DEF RowsOf, EventRows
  <2>2. Source(row) = Event(row.entry, row.bp)
    BY <2>1 DEF Source
  <2> QED BY <1>1, <2>1, <2>2, PlainMessages, PlainStreams
<1>2. CASE table # "event"
  <2>1. row \in Messages /\ row.stream = table
    BY <1>2 DEF RowsOf
  <2> QED BY <1>2, <2>1 DEF Source
<1> QED BY <1>1, <1>2

LEMMA SourcesType ==
    ASSUME NEW table \in Tables, NEW s \in Seq(RowsOf(table))
    PROVE  /\ Sources(s) \in Seq(Messages) /\ Len(Sources(s)) = Len(s)
           /\ \A i \in 1 .. Len(s) : Sources(s)[i] = Source(s[i])
<1>1. \A i \in 1 .. Len(s) : s[i] \in RowsOf(table)
  OBVIOUS
<1>2. \A i \in 1 .. Len(s) : Source(s[i]) \in Messages
  BY <1>1, SourceTypes
<1>3. Sources(s) = [i \in 1 .. Len(s) |-> Source(s[i])] /\ Len(s) \in Nat
  BY DEF Sources
<1> QED BY <1>2, <1>3

LEMMA SourcesAppend ==
    ASSUME NEW table \in Tables, NEW s \in Seq(RowsOf(table)), NEW r \in RowsOf(table)
    PROVE  Sources(Append(s, r)) = Append(Sources(s), Source(r))
<1> DEFINE u == Append(s, r)
<1>1. /\ u \in Seq(RowsOf(table)) /\ Len(u) = Len(s) + 1 /\ u[Len(s) + 1] = r
      /\ Len(s) \in Nat
      /\ \A i \in 1 .. Len(s) : u[i] = s[i]
  BY AppendProperties
<1>2. /\ Sources(s) \in Seq(Messages) /\ Len(Sources(s)) = Len(s)
      /\ \A i \in 1 .. Len(s) : Sources(s)[i] = Source(s[i])
  BY SourcesType
<1> HIDE DEF u
<1>3. /\ Sources(u) \in Seq(Messages) /\ Len(Sources(u)) = Len(u)
      /\ \A i \in 1 .. Len(u) : Sources(u)[i] = Source(u[i])
  BY <1>1, SourcesType
<1>4. Source(r) \in Messages
  BY SourceTypes
<1> DEFINE v == Append(Sources(s), Source(r))
<1>5. /\ v \in Seq(Messages) /\ Len(v) = Len(s) + 1 /\ v[Len(s) + 1] = Source(r)
      /\ \A i \in 1 .. Len(s) : v[i] = Source(s[i])
  BY <1>2, <1>4, AppendProperties
<1> HIDE DEF v
<1>6. ASSUME NEW i \in 1 .. Len(s) + 1 PROVE Sources(u)[i] = v[i]
  <2>1. CASE i = Len(s) + 1
    BY <1>1, <1>3, <1>5, <2>1
  <2>2. CASE i \in 1 .. Len(s)
    BY <1>1, <1>3, <1>5, <2>2
  <2> QED BY <1>1, <2>1, <2>2
<1>7. Sources(u) = v
  BY <1>1, <1>3, <1>5, <1>6, SeqEqual
<1> QED BY <1>7 DEF u, v

LEMMA HitsType ==
    ASSUME NEW R, NEW s \in Seq(R), NEW id
    PROVE  HitsIn(s, id) \in 0 .. Len(s)
<1> DEFINE H == {i \in DOMAIN s : s[i].bp = id}
<1>1. Len(s) \in Nat /\ DOMAIN s = 1 .. Len(s)
  OBVIOUS
<1>2. IsFiniteSet(1 .. Len(s)) /\ Cardinality(1 .. Len(s)) = Len(s)
  BY <1>1, FS_Interval
<1>3. H \subseteq 1 .. Len(s)
  BY <1>1
<1> HIDE DEF H
<1>4. IsFiniteSet(H) /\ Cardinality(H) <= Len(s) /\ Cardinality(H) \in Nat
  BY <1>2, <1>3, FS_Subset, FS_CardinalityType
<1> QED BY <1>1, <1>4 DEF HitsIn, H

LEMMA HitsNone ==
    ASSUME NEW R, NEW s \in Seq(R), NEW id, \A i \in 1 .. Len(s) : s[i].bp # id
    PROVE  HitsIn(s, id) = 0
<1>1. {i \in DOMAIN s : s[i].bp = id} = {}
  OBVIOUS
<1> QED BY <1>1, FS_EmptySet DEF HitsIn

LEMMA HitsEmpty == ASSUME NEW id PROVE HitsIn(<<>>, id) = 0
<1>1. {i \in DOMAIN <<>> : <<>>[i].bp = id} = {}
  OBVIOUS
<1> QED BY <1>1, FS_EmptySet DEF HitsIn

LEMMA HitsAppend ==
    ASSUME NEW R, NEW s \in Seq(R), NEW r \in R, NEW id
    PROVE  HitsIn(Append(s, r), id) = HitsIn(s, id) + (IF r.bp = id THEN 1 ELSE 0)
<1> DEFINE u == Append(s, r)
           H == {i \in DOMAIN s : s[i].bp = id}
           G == {i \in DOMAIN u : u[i].bp = id}
<1>1. /\ u \in Seq(R) /\ Len(u) = Len(s) + 1 /\ u[Len(s) + 1] = r /\ Len(s) \in Nat
      /\ \A i \in 1 .. Len(s) : u[i] = s[i]
      /\ DOMAIN s = 1 .. Len(s) /\ DOMAIN u = 1 .. Len(s) + 1
  BY AppendProperties
<1> HIDE DEF u
<1>2. IsFiniteSet(H)
  <2>1. IsFiniteSet(1 .. Len(s))
    BY <1>1, FS_Interval
  <2>2. H \subseteq 1 .. Len(s)
    BY <1>1
  <2> QED BY <2>1, <2>2, FS_Subset
<1>3. CASE r.bp = id
  <2>1. G = H \cup {Len(s) + 1} /\ Len(s) + 1 \notin H
    BY <1>1, <1>3
  <2> HIDE DEF H, G
  <2>2. Cardinality(G) = Cardinality(H) + 1
    BY <1>2, <2>1, FS_AddElement
  <2> QED BY <1>3, <2>2 DEF HitsIn, H, G, u
<1>4. CASE r.bp # id
  <2>1. G = H
    BY <1>1, <1>4
  <2>2. Cardinality(H) \in Nat
    BY <1>2, FS_CardinalityType
  <2>3. HitsIn(s, id) = Cardinality(H) /\ HitsIn(u, id) = Cardinality(G)
    BY DEF HitsIn
  <2> HIDE DEF H, G
  <2> QED BY <1>4, <2>1, <2>2, <2>3 DEF u
<1> QED BY <1>3, <1>4

LEMMA HitsConcat ==
    ASSUME NEW R, NEW a \in Seq(R), NEW b \in Seq(R), NEW id
    PROVE  HitsIn(a \o b, id) = HitsIn(a, id) + HitsIn(b, id)
<1> DEFINE P(n) == SubSeq(b, 1, n)
           T == {n \in Nat : n <= Len(b) => HitsIn(a \o P(n), id) = HitsIn(a, id) + HitsIn(P(n), id)}
<1>1. HitsIn(a, id) \in Nat /\ Len(b) \in Nat
  BY HitsType
<1>2. 0 \in T
  <2>1. P(0) = <<>> /\ a \o P(0) = a
    OBVIOUS
  <2>2. HitsIn(<<>>, id) = 0
    BY HitsEmpty
  <2> HIDE DEF P
  <2>3. HitsIn(a \o P(0), id) = HitsIn(a, id) + HitsIn(P(0), id)
    <3>1. HitsIn(a \o P(0), id) = HitsIn(a, id) /\ HitsIn(P(0), id) = 0
      BY <2>1, <2>2, Zenon
    <3> HIDE DEF T
    <3> QED BY <1>1, <3>1
  <2> QED BY <2>3
<1>3. ASSUME NEW n \in Nat, n \in T PROVE n + 1 \in T
  <2> SUFFICES ASSUME n + 1 <= Len(b)
               PROVE  HitsIn(a \o P(n + 1), id) = HitsIn(a, id) + HitsIn(P(n + 1), id)
    OBVIOUS
  <2> DEFINE m == b[n + 1]
  <2>1. n < Len(b) /\ HitsIn(a \o P(n), id) = HitsIn(a, id) + HitsIn(P(n), id)
    BY <1>1, <1>3
  <2>2. P(n) \in Seq(R) /\ m \in R /\ P(n + 1) = Append(P(n), m)
    BY <2>1, PrefixNext
  <2> HIDE DEF P, m
  <2>3. a \o P(n) \in Seq(R) /\ a \o P(n + 1) = Append(a \o P(n), m)
    <3>1. a \o P(n) \in Seq(R) /\ a \o Append(P(n), m) = Append(a \o P(n), m)
      <4>1. P(n) \in Seq(R) /\ m \in R
        BY <2>2
      <4> QED BY <4>1, ConcatAppend
    <3> QED BY <2>2, <3>1, Zenon
  <2>4. HitsIn(Append(a \o P(n), m), id) = HitsIn(a \o P(n), id) + (IF m.bp = id THEN 1 ELSE 0)
    BY <2>2, <2>3, HitsAppend
  <2>5. HitsIn(Append(P(n), m), id) = HitsIn(P(n), id) + (IF m.bp = id THEN 1 ELSE 0)
    BY <2>2, HitsAppend
  <2>6. HitsIn(P(n), id) \in Nat
    BY <2>2, HitsType
  <2>7. /\ HitsIn(a \o P(n + 1), id) = HitsIn(a \o P(n), id) + (IF m.bp = id THEN 1 ELSE 0)
        /\ HitsIn(P(n + 1), id) = HitsIn(P(n), id) + (IF m.bp = id THEN 1 ELSE 0)
    BY <2>2, <2>3, <2>4, <2>5, Zenon
  <2> HIDE DEF T
  <2> QED BY <1>1, <2>1, <2>6, <2>7
<1>4. P(Len(b)) = b
  OBVIOUS
<1> HIDE DEF T
<1>5. \A n \in Nat : n \in T
  BY <1>2, <1>3, SetInduction
<1>6. Len(b) \in T
  BY <1>1, <1>5
<1> HIDE DEF P
<1>7. HitsIn(a \o P(Len(b)), id) = HitsIn(a, id) + HitsIn(P(Len(b)), id)
  BY <1>1, <1>6 DEF T
<1> QED BY <1>4, <1>7

-----------------------------------------------------------------------------
(***************************************************************************)
(* The steps that insert the rows of a batch.                              *)
(***************************************************************************)
\* The rows that there are, and what is known of them.
LEMMA WhatIsStored ==
    ASSUME Inv
    PROVE  /\ DOMAIN rows = Tables /\ DOMAIN db = Tables
           /\ \A table \in Tables :
                /\ rows[table] \in Seq(RowsOf(table)) /\ db[table] \in Seq(RowsOf(table))
                /\ Len(rows[table]) \in Nat /\ Len(db[table]) \in Nat
                /\ Known(table) \in Seq(RowsOf(table))
<1>1. DOMAIN rows = Tables /\ DOMAIN db = Tables
  BY DEF Inv, Stored
<1>2. ASSUME NEW table \in Tables
      PROVE  /\ rows[table] \in Seq(RowsOf(table)) /\ db[table] \in Seq(RowsOf(table))
             /\ Len(rows[table]) \in Nat /\ Len(db[table]) \in Nat
             /\ Known(table) \in Seq(RowsOf(table))
  <2>1. rows[table] \in Seq(RowsOf(table)) /\ db[table] \in Seq(RowsOf(table))
    BY DEF Inv, Stored
  <2>2. <<>> \in Seq(RowsOf(table))
    OBVIOUS
  <2>3. db[table] \o rows[table] \in Seq(RowsOf(table)) /\ db[table] \o <<>> \in Seq(RowsOf(table))
    BY <2>1, <2>2, ConcatProperties
  <2>4. Len(rows[table]) \in Nat /\ Len(db[table]) \in Nat
    BY <2>1, LenProperties
  <2> QED BY <2>1, <2>3, <2>4 DEF Known
<1> QED BY <1>1, <1>2

\* An event knows its breakpoint by number.
LEMMA EventRowShapes ==
    \A row \in RowsOf("event") : row.bp \in 1 .. MaxBreakpoints /\ row.entry \in Entries
  BY DEF RowsOf, EventRows

LEMMA InvWhenInserted ==
    ASSUME Inv, UNCHANGED <<writerVars, readerVars, queue, batch, stack>>,
           main \in {"process", "events", "hits", "allocations"}, batch = <<>>,
           main' \in {"events", "hits", "allocations", "is_empty"},
           DOMAIN rows' = Tables, DOMAIN db' = Tables,
           \A table \in Tables :
                rows'[table] \in Seq(RowsOf(table)) /\ db'[table] \in Seq(RowsOf(table)),
           \A table \in Tables : Known(table)' = Known(table),
           db'["info"] = db["info"], Counting'
    PROVE  Inv'
<1>1. /\ log' = log /\ calls' = calls /\ open' = open /\ file' = file /\ read' = read
      /\ reader' = reader /\ queue' = queue /\ batch' = batch /\ stack' = stack
  BY DEF writerVars, readerVars
<1>2. InFlight' = InFlight /\ Looked' = Looked
  BY <1>1 DEF InFlight, Looked
<1>3. Written'
  BY <1>1 DEF Inv, Written
<1>4. Flowing'
  BY <1>1, <1>2 DEF Inv, Flowing
<1>5. Stored'
  BY <1>1, <1>2 DEF Inv, Stored
<1>6. Replayed'
  <2>1. Known("event")' = Known("event")
    BY DEF Tables
  <2> QED BY <1>1, <1>2, <2>1 DEF Inv, Replayed
<1> QED BY <1>3, <1>4, <1>5, <1>6 DEF Inv

\* A table and its rows of the batch, before and after they are inserted.
LEMMA InsertedAreKnown ==
    ASSUME Inv, NEW table \in Tables,
           db' = [db EXCEPT ![table] = @ \o rows[table]],
           rows' = [rows EXCEPT ![table] = <<>>],
           main # "hits", main' # "hits"
    PROVE  /\ DOMAIN rows' = Tables /\ DOMAIN db' = Tables
           /\ \A other \in Tables :
                rows'[other] \in Seq(RowsOf(other)) /\ db'[other] \in Seq(RowsOf(other))
           /\ \A other \in Tables : Known(other)' = Known(other)
           /\ db'[table] = db[table] \o rows[table] /\ rows'[table] = <<>>
           /\ \A other \in Tables \ {table} : db'[other] = db[other] /\ rows'[other] = rows[other]
<1>1. /\ DOMAIN rows = Tables /\ DOMAIN db = Tables
      /\ \A other \in Tables :
            rows[other] \in Seq(RowsOf(other)) /\ db[other] \in Seq(RowsOf(other))
  BY WhatIsStored
<1>2. /\ DOMAIN rows' = Tables /\ DOMAIN db' = Tables
      /\ db'[table] = db[table] \o rows[table] /\ rows'[table] = <<>>
      /\ \A other \in Tables \ {table} : db'[other] = db[other] /\ rows'[other] = rows[other]
  BY <1>1
<1>3. db[table] \o rows[table] \in Seq(RowsOf(table)) /\ <<>> \in Seq(RowsOf(table))
  BY <1>1, ConcatProperties
<1>4. (db[table] \o rows[table]) \o <<>> = db[table] \o rows[table]
  BY <1>3
<1>5. ASSUME NEW other \in Tables
      PROVE  /\ rows'[other] \in Seq(RowsOf(other)) /\ db'[other] \in Seq(RowsOf(other))
             /\ Known(other)' = Known(other)
  <2>1. CASE other = table
    <3>1. Known(table)' = db'[table] \o rows'[table] /\ Known(table) = db[table] \o rows[table]
      BY DEF Known
    <3>2. Known(table)' = Known(table)
      BY <1>2, <1>4, <3>1, Zenon
    <3> QED BY <1>2, <1>3, <2>1, <3>2
  <2>2. CASE other # table
    BY <1>1, <1>2, <2>2 DEF Known
  <2> QED BY <2>1, <2>2
<1> QED BY <1>2, <1>5

LEMMA InsertAllocationsStep == Inv /\ InsertAllocations => Inv'
<1> SUFFICES ASSUME Inv, InsertAllocations PROVE Inv'
  OBVIOUS
<1>1. /\ main = "allocations" /\ main' = "is_empty" /\ hit_count' = hit_count
      /\ db' = [db EXCEPT !["allocation"] = @ \o rows["allocation"]]
      /\ rows' = [rows EXCEPT !["allocation"] = <<>>]
      /\ UNCHANGED <<writerVars, readerVars, queue, batch, stack>>
  BY DEF InsertAllocations, Insert
<1>2. batch = <<>>
  BY <1>1 DEF Inv, Flowing
<1>3. /\ DOMAIN rows' = Tables /\ DOMAIN db' = Tables
      /\ \A other \in Tables :
            rows'[other] \in Seq(RowsOf(other)) /\ db'[other] \in Seq(RowsOf(other))
      /\ \A other \in Tables : Known(other)' = Known(other)
      /\ \A other \in Tables \ {"allocation"} : db'[other] = db[other] /\ rows'[other] = rows[other]
  <2>1. "allocation" \in Tables
    BY DEF Tables
  <2> QED BY <1>1, <2>1, InsertedAreKnown
<1>4. /\ db'["info"] = db["info"] /\ db'["event"] = db["event"] /\ rows'["event"] = rows["event"]
      /\ db'["breakpoint"] = db["breakpoint"] /\ rows'["breakpoint"] = rows["breakpoint"]
  BY <1>3 DEF Tables
<1>5. Counting'
  BY <1>1, <1>4 DEF Inv, Counting
<1> QED BY <1>1, <1>2, <1>3, <1>4, <1>5, InvWhenInserted

LEMMA InsertBreakpointsStep == Inv /\ InsertBreakpoints => Inv'
<1> SUFFICES ASSUME Inv, InsertBreakpoints PROVE Inv'
  OBVIOUS
<1> DEFINE new == Len(rows["breakpoint"])
           n   == Len(db["breakpoint"])
<1>1. /\ main = "process" /\ main' = "events" /\ batch = <<>>
      /\ hit_count' = hit_count \o [i \in 1 .. new |-> 0]
      /\ db' = [db EXCEPT !["breakpoint"] = @ \o rows["breakpoint"]]
      /\ rows' = [rows EXCEPT !["breakpoint"] = <<>>]
      /\ UNCHANGED <<writerVars, readerVars, queue, batch, stack>>
  BY DEF InsertBreakpoints, Insert
<1>2. "breakpoint" \in Tables /\ "event" \in Tables
  BY DEF Tables
<1>3. /\ DOMAIN rows' = Tables /\ DOMAIN db' = Tables
      /\ \A other \in Tables :
            rows'[other] \in Seq(RowsOf(other)) /\ db'[other] \in Seq(RowsOf(other))
      /\ \A other \in Tables : Known(other)' = Known(other)
      /\ db'["breakpoint"] = db["breakpoint"] \o rows["breakpoint"] /\ rows'["breakpoint"] = <<>>
      /\ \A other \in Tables \ {"breakpoint"} : db'[other] = db[other] /\ rows'[other] = rows[other]
  BY <1>1, <1>2, InsertedAreKnown
<1>4. db'["info"] = db["info"] /\ db'["event"] = db["event"] /\ rows'["event"] = rows["event"]
  BY <1>3 DEF Tables
<1>5. /\ db["breakpoint"] \in Seq(RowsOf("breakpoint")) /\ n \in Nat
      /\ rows["breakpoint"] \in Seq(RowsOf("breakpoint")) /\ new \in Nat
      /\ db["event"] \in Seq(RowsOf("event"))
  BY <1>2, WhatIsStored
<1>6. Len(db'["breakpoint"]) = n + new /\ Len(rows'["breakpoint"]) = 0
  BY <1>3, <1>5, ConcatProperties
<1> DEFINE zeros == [i \in 1 .. new |-> 0]
<1>7. zeros \in Seq(Nat) /\ Len(zeros) = new /\ \A i \in 1 .. new : zeros[i] = 0
  BY <1>5
<1>8. /\ hit_count \in Seq(Nat) /\ Len(hit_count) = n
      /\ \A i \in 1 .. Len(db["event"]) : db["event"][i].bp <= n
      /\ \A id \in 1 .. n : HitsIn(db["event"], id) = hit_count[id] + 0
      /\ \A i \in 1 .. Len(rows["event"]) : rows["event"][i].bp <= n + new
  BY <1>1 DEF Inv, Counting
<1> HIDE DEF new, n, zeros
<1>9. /\ hit_count' \in Seq(Nat) /\ Len(hit_count') = n + new
      /\ \A i \in 1 .. n + new : hit_count'[i] = IF i <= n THEN hit_count[i] ELSE zeros[i - n]
  <2>1. hit_count' = hit_count \o zeros
    BY <1>1 DEF zeros
  <2> QED BY <1>7, <1>8, <2>1, ConcatProperties
<1>10. ASSUME NEW id \in 1 .. n + new PROVE HitsIn(db["event"], id) = hit_count'[id] + 0
  <2>1. CASE id <= n
    <3>1. id \in 1 .. n
      BY <1>5, <2>1
    <3> QED BY <1>8, <1>9, <2>1, <3>1
  <2>2. CASE ~(id <= n)
    <3>1. id - n \in 1 .. new
      BY <1>5, <2>2
    <3>2. hit_count'[id] = 0
      BY <1>7, <1>9, <2>2, <3>1
    <3>3. \A i \in 1 .. Len(db["event"]) : db["event"][i].bp # id
      <4>1. \A i \in 1 .. Len(db["event"]) : db["event"][i].bp \in Nat
        <5>1. \A i \in 1 .. Len(db["event"]) : db["event"][i] \in RowsOf("event")
          BY <1>5
        <5> QED BY <5>1, EventRowShapes
      <4> QED BY <1>5, <1>8, <2>2, <4>1
    <3>4. HitsIn(db["event"], id) = 0
      BY <1>5, <3>3, HitsNone
    <3> QED BY <3>2, <3>4
  <2> QED BY <2>1, <2>2
<1>11. \A i \in 1 .. Len(db["event"]) : db["event"][i].bp <= n + new
  <2>1. \A i \in 1 .. Len(db["event"]) : db["event"][i].bp \in Nat
    <3>1. \A i \in 1 .. Len(db["event"]) : db["event"][i] \in RowsOf("event")
      BY <1>5
    <3> QED BY <3>1, EventRowShapes
  <2> QED BY <1>5, <1>8, <2>1
<1>12. (n + new) + 0 = n + new
  BY <1>5 DEF n, new
<1>13. Counting'
  <2>1. main' # "hits" /\ rows'["breakpoint"] = <<>>
    BY <1>1, <1>3
  <2>2. Len(db'["breakpoint"]) + Len(rows'["breakpoint"]) = n + new
    BY <1>6, <1>12
  <2> QED BY <1>4, <1>6, <1>8, <1>9, <1>10, <1>11, <2>1, <2>2 DEF Counting
<1> QED BY <1>1, <1>3, <1>4, <1>13, InvWhenInserted

LEMMA InsertEventsStep == Inv /\ InsertEvents => Inv'
<1> SUFFICES ASSUME Inv, InsertEvents PROVE Inv'
  OBVIOUS
<1> DEFINE old == db["event"]
           new == rows["event"]
<1>1. /\ main = "events" /\ main' = "hits" /\ rows' = rows /\ hit_count' = hit_count
      /\ db' = [db EXCEPT !["event"] = old \o new]
      /\ UNCHANGED <<writerVars, readerVars, queue, batch, stack>>
  BY DEF InsertEvents
<1>2. "breakpoint" \in Tables /\ "event" \in Tables
  BY DEF Tables
<1>3. /\ DOMAIN rows = Tables /\ DOMAIN db = Tables
      /\ \A table \in Tables :
            rows[table] \in Seq(RowsOf(table)) /\ db[table] \in Seq(RowsOf(table))
      /\ old \in Seq(RowsOf("event")) /\ new \in Seq(RowsOf("event"))
      /\ Len(old) \in Nat /\ Len(new) \in Nat /\ Len(db["breakpoint"]) \in Nat
  BY <1>2, WhatIsStored
<1>4. batch = <<>>
  BY <1>1 DEF Inv, Flowing
<1>5. /\ DOMAIN db' = Tables /\ db'["event"] = old \o new
      /\ \A table \in Tables \ {"event"} : db'[table] = db[table]
  BY <1>1, <1>2, <1>3
<1> HIDE DEF old, new
<1>6. /\ old \o new \in Seq(RowsOf("event")) /\ Len(old \o new) = Len(old) + Len(new)
      /\ \A i \in 1 .. Len(old) + Len(new) :
            (old \o new)[i] = IF i <= Len(old) THEN old[i] ELSE new[i - Len(old)]
  BY <1>3, ConcatProperties
<1>7. \A table \in Tables : db'[table] \in Seq(RowsOf(table))
  BY <1>3, <1>5, <1>6
<1>8. ASSUME NEW table \in Tables PROVE Known(table)' = Known(table)
  <2>1. CASE table = "event"
    <3>1. Known("event")' = db'["event"] \o <<>> /\ Known("event") = old \o new
      BY <1>1 DEF Known, old, new
    <3>2. (old \o new) \o <<>> = old \o new
      BY <1>6
    <3>3. Known("event")' = Known("event")
      BY <1>5, <3>1, <3>2, Zenon
    <3> QED BY <2>1, <3>3
  <2>2. CASE table # "event"
    BY <1>1, <1>5, <2>2 DEF Known
  <2> QED BY <2>1, <2>2
<1>9. db'["info"] = db["info"] /\ db'["breakpoint"] = db["breakpoint"]
  BY <1>5 DEF Tables
<1>10. /\ rows["breakpoint"] = <<>> /\ Len(rows["breakpoint"]) = 0
       /\ hit_count \in Seq(Nat) /\ Len(hit_count) = Len(db["breakpoint"])
       /\ \A i \in 1 .. Len(old) : old[i].bp <= Len(db["breakpoint"])
       /\ \A i \in 1 .. Len(new) : new[i].bp <= Len(db["breakpoint"]) + Len(rows["breakpoint"])
       /\ \A id \in 1 .. Len(hit_count) : HitsIn(old, id) = hit_count[id] + 0
  BY <1>1 DEF Inv, Counting, old, new
<1>11. ASSUME NEW i \in 1 .. Len(old \o new) PROVE (old \o new)[i].bp <= Len(db["breakpoint"])
  <2>1. CASE i <= Len(old)
    BY <1>3, <1>6, <1>10, <2>1
  <2>2. CASE ~(i <= Len(old))
    <3>1. i - Len(old) \in 1 .. Len(new)
      BY <1>3, <1>6, <2>2
    <3>2. new[i - Len(old)].bp <= Len(db["breakpoint"]) + 0
      BY <1>10, <3>1
    <3>3. (old \o new)[i] = new[i - Len(old)]
      BY <1>6, <2>2
    <3>4. Len(db["breakpoint"]) + 0 = Len(db["breakpoint"])
      BY <1>3
    <3> QED BY <3>2, <3>3, <3>4
  <2> QED BY <2>1, <2>2
<1>12. ASSUME NEW id \in 1 .. Len(hit_count)
       PROVE  HitsIn(old \o new, id) = hit_count[id] + HitsIn(new, id)
  <2>1. HitsIn(old \o new, id) = HitsIn(old, id) + HitsIn(new, id)
    BY <1>3, HitsConcat
  <2>2. HitsIn(old, id) = hit_count[id] + 0 /\ hit_count[id] \in Nat /\ HitsIn(new, id) \in Nat
    BY <1>3, <1>10, HitsType
  <2> QED BY <2>1, <2>2
<1>13. Counting'
  <2>1. /\ \A i \in 1 .. Len(db'["event"]) : db'["event"][i].bp <= Len(db'["breakpoint"])
        /\ \A id \in 1 .. Len(hit_count') :
                HitsIn(db'["event"], id) = hit_count'[id] + HitsIn(rows'["event"], id)
    BY <1>1, <1>5, <1>9, <1>11, <1>12 DEF new
  <2>2. /\ rows'["breakpoint"] = <<>>
        /\ hit_count' \in Seq(Nat) /\ Len(hit_count') = Len(db'["breakpoint"])
        /\ \A i \in 1 .. Len(rows'["event"]) :
                rows'["event"][i].bp <= Len(db'["breakpoint"]) + Len(rows'["breakpoint"])
    BY <1>1, <1>9, <1>10 DEF new
  <2> QED BY <1>1, <2>1, <2>2 DEF Counting
<1>14. \A table \in Tables :
            rows'[table] \in Seq(RowsOf(table)) /\ db'[table] \in Seq(RowsOf(table))
  BY <1>1, <1>3, <1>7
<1> QED BY <1>1, <1>3, <1>4, <1>5, <1>8, <1>9, <1>13, <1>14, InvWhenInserted

LEMMA IncHitCountStep == Inv /\ IncHitCount => Inv'
<1> SUFFICES ASSUME Inv, IncHitCount PROVE Inv'
  OBVIOUS
<1> DEFINE new == rows["event"]
<1>1. /\ main = "hits" /\ main' = "allocations" /\ db' = db
      /\ rows' = [rows EXCEPT !["event"] = <<>>]
      /\ hit_count' = [id \in DOMAIN hit_count |->
                        IF HitsIn(new, id) = 0 THEN hit_count[id] ELSE hit_count[id] + HitsIn(new, id)]
      /\ UNCHANGED <<writerVars, readerVars, queue, batch, stack>>
  BY DEF IncHitCount, Counted
<1>2. "breakpoint" \in Tables /\ "event" \in Tables
  BY DEF Tables
<1>3. /\ DOMAIN rows = Tables /\ DOMAIN db = Tables
      /\ \A table \in Tables :
            rows[table] \in Seq(RowsOf(table)) /\ db[table] \in Seq(RowsOf(table))
      /\ new \in Seq(RowsOf("event"))
  BY <1>2, WhatIsStored
<1>4. batch = <<>>
  BY <1>1 DEF Inv, Flowing
<1>5. /\ DOMAIN rows' = Tables /\ rows'["event"] = <<>>
      /\ \A table \in Tables \ {"event"} : rows'[table] = rows[table]
  BY <1>1, <1>2, <1>3
<1>6. \A table \in Tables :
            rows'[table] \in Seq(RowsOf(table)) /\ db'[table] \in Seq(RowsOf(table))
  <2>1. <<>> \in Seq(RowsOf("event"))
    OBVIOUS
  <2> QED BY <1>1, <1>3, <1>5, <2>1
<1>7. \A table \in Tables : Known(table)' = Known(table)
  BY <1>1, <1>5 DEF Known
<1>8. /\ rows["breakpoint"] = <<>> /\ rows'["breakpoint"] = rows["breakpoint"]
      /\ hit_count \in Seq(Nat) /\ Len(hit_count) = Len(db["breakpoint"])
      /\ \A i \in 1 .. Len(db["event"]) : db["event"][i].bp <= Len(db["breakpoint"])
      /\ \A id \in 1 .. Len(hit_count) : HitsIn(db["event"], id) = hit_count[id] + HitsIn(new, id)
  BY <1>1, <1>2, <1>5 DEF Inv, Counting
<1> HIDE DEF new
<1>9. \A id \in 1 .. Len(hit_count) : hit_count[id] \in Nat /\ HitsIn(new, id) \in Nat
  BY <1>3, <1>8, HitsType
<1>10. DOMAIN hit_count = 1 .. Len(hit_count) /\ Len(hit_count) \in Nat
  BY <1>8
<1>11. \A id \in 1 .. Len(hit_count) : hit_count'[id] = hit_count[id] + HitsIn(new, id)
  BY <1>1, <1>9, <1>10
<1>12. hit_count' \in Seq(Nat) /\ Len(hit_count') = Len(hit_count)
  <2>1. \A id \in 1 .. Len(hit_count) : hit_count[id] + HitsIn(new, id) \in Nat
    BY <1>9
  <2>2. hit_count' = [id \in 1 .. Len(hit_count) |-> hit_count[id] + HitsIn(new, id)]
    BY <1>1, <1>9, <1>10
  <2> QED BY <1>10, <2>1, <2>2
<1>13. \A id \in 1 .. Len(hit_count) : HitsIn(db["event"], id) = hit_count'[id] + 0
  BY <1>8, <1>9, <1>11
<1>14. Counting'
  <2>1. \A i \in 1 .. Len(rows'["event"]) :
            rows'["event"][i].bp <= Len(db'["breakpoint"]) + Len(rows'["breakpoint"])
    <3>1. Len(<<>>) = 0
      OBVIOUS
    <3> QED BY <1>5, <3>1
  <2> QED BY <1>1, <1>8, <1>12, <1>13, <2>1 DEF Counting
<1> QED BY <1>1, <1>3, <1>4, <1>5, <1>6, <1>7, <1>14, InvWhenInserted

-----------------------------------------------------------------------------
(***************************************************************************)
(* The caller of a call, by the events before it.                          *)
(***************************************************************************)
LEMMA LastExists ==
    ASSUME NEW n \in Nat, NEW S, S \subseteq 1 .. n, S # {}
    PROVE  \E x \in S : \A y \in S : y <= x
<1> DEFINE Bounded(k) == \A Q \in SUBSET (1 .. k) : Q # {} => \E x \in Q : \A y \in Q : y <= x
           T == {k \in Nat : Bounded(k)}
<1>1. 0 \in T
  <2>1. 1 .. 0 = {}
    OBVIOUS
  <2>2. \A Q \in SUBSET (1 .. 0) : Q = {}
    BY <2>1
  <2> QED BY <2>2
<1>2. ASSUME NEW k \in Nat, k \in T PROVE k + 1 \in T
  <2> SUFFICES ASSUME NEW Q \in SUBSET (1 .. k + 1), Q # {}
               PROVE  \E x \in Q : \A y \in Q : y <= x
    OBVIOUS
  <2>1. CASE k + 1 \in Q
    <3>1. \A y \in Q : y <= k + 1
      OBVIOUS
    <3> QED BY <2>1, <3>1
  <2>2. CASE k + 1 \notin Q
    <3>1. Q \in SUBSET (1 .. k)
      BY <2>2
    <3>2. Bounded(k)
      BY <1>2
    <3> QED BY <3>1, <3>2
  <2> QED BY <2>1, <2>2
<1> HIDE DEF T
<1>3. \A k \in Nat : k \in T
  BY <1>1, <1>2, SetInduction
<1>4. Bounded(n)
  BY <1>3 DEF T
<1> QED BY <1>4

\* The calls of the thread of s[i] that have not returned before it.
Callers(s, i) == {j \in 1 .. i - 1 : Unreturned(s, j, s[i].entry.thread, i - 1)}

LEMMA CallerIsChosen ==
    ASSUME NEW s, NEW i
    PROVE  CallerInLog(s, i) =
                IF Callers(s, i) = {} THEN 0
                ELSE s[CHOOSE j \in Callers(s, i) : \A k \in Callers(s, i) : k <= j].entry.frame_id
<1>1. Callers(s, i) =
        {j \in 1 .. i - 1 :
            /\ s[j].entry.thread = s[i].entry.thread
            /\ s[j].entry.type = "call"
            /\ \A k \in j + 1 .. i - 1 : s[k].entry # [s[j].entry EXCEPT !.type = "return"]}
  BY DEF Callers, Unreturned, CallAt
<1> QED BY <1>1 DEF CallerInLog

LEMMA LastCaller ==
    ASSUME NEW s, NEW i \in Nat, Callers(s, i) # {}
    PROVE  \E j \in Callers(s, i) :
                (\A k \in Callers(s, i) : k <= j) /\ CallerInLog(s, i) = s[j].entry.frame_id
<1> DEFINE last == CHOOSE j \in Callers(s, i) : \A k \in Callers(s, i) : k <= j
<1>1. i # 0 /\ i - 1 \in Nat /\ Callers(s, i) \subseteq 1 .. i - 1
  BY DEF Callers
<1>2. \E j \in Callers(s, i) : \A k \in Callers(s, i) : k <= j
  BY <1>1, LastExists
<1>3. last \in Callers(s, i) /\ \A k \in Callers(s, i) : k <= last
  BY <1>2
<1>4. CallerInLog(s, i) = s[last].entry.frame_id
  BY CallerIsChosen
<1> HIDE DEF last
<1> QED BY <1>3, <1>4

\* What comes after it does not matter to the caller.
LEMMA SameCaller ==
    ASSUME NEW s, NEW u, NEW i \in Nat, \A k \in 1 .. i : u[k] = s[k], i >= 1
    PROVE  CallerInLog(u, i) = CallerInLog(s, i)
<1>1. \A j \in 1 .. i - 1 : u[j] = s[j] /\ \A k \in j + 1 .. i - 1 : u[k] = s[k]
  OBVIOUS
<1>2. u[i] = s[i]
  OBVIOUS
<1>3. \A j \in 1 .. i - 1 :
        Unreturned(u, j, u[i].entry.thread, i - 1) <=> Unreturned(s, j, s[i].entry.thread, i - 1)
  BY <1>1, <1>2 DEF Unreturned, CallAt
<1>4. Callers(u, i) = Callers(s, i)
  BY <1>3 DEF Callers
<1>5. CASE Callers(s, i) = {}
  <2>1. CallerInLog(u, i) = 0 /\ CallerInLog(s, i) = 0
    BY <1>4, <1>5, CallerIsChosen
  <2> QED BY <2>1
<1>6. CASE Callers(s, i) # {}
  <2>1. PICK j \in Callers(s, i) :
            (\A k \in Callers(s, i) : k <= j) /\ CallerInLog(s, i) = s[j].entry.frame_id
    BY <1>6, LastCaller
  <2>2. PICK l \in Callers(s, i) :
            (\A k \in Callers(s, i) : k <= l) /\ CallerInLog(u, i) = u[l].entry.frame_id
    BY <1>4, <1>6, LastCaller
  <2>3. j \in 1 .. i - 1 /\ l \in 1 .. i - 1 /\ j <= l /\ l <= j
    BY <2>1, <2>2 DEF Callers
  <2>4. j = l
    BY <2>3
  <2> QED BY <1>1, <2>1, <2>2, <2>3, <2>4
<1> QED BY <1>5, <1>6

LEMMA ReturnOf ==
    \A a, b \in Entries :
        b = [a EXCEPT !.type = "return"] <=>
            b.type = "return" /\ b.thread = a.thread /\ b.frame_id = a.frame_id
  BY DEF Entries

\* The rows of the calls, one event later.
LEMMA UnreturnedNext ==
    ASSUME NEW s \in Seq(EventRows), NEW r \in EventRows, NEW t
    PROVE  /\ \A j \in 1 .. Len(s) :
                Unreturned(Append(s, r), j, t, Len(s) + 1) <=>
                    /\ Unreturned(s, j, t, Len(s))
                    /\ ~ (r.entry.type = "return" /\ r.entry.thread = t
                            /\ r.entry.frame_id = s[j].entry.frame_id)
           /\ \A j \in 1 .. Len(s) : Unreturned(Append(s, r), j, t, Len(s)) <=> Unreturned(s, j, t, Len(s))
           /\ Unreturned(Append(s, r), Len(s) + 1, t, Len(s) + 1) <=>
                    r.entry.type = "call" /\ r.entry.thread = t
<1> DEFINE n == Len(s)
           u == Append(s, r)
<1>1. /\ n \in Nat /\ u[n + 1] = r
      /\ \A j \in 1 .. n : u[j] = s[j]
  BY AppendProperties
<1>2. r.entry \in Entries /\ \A j \in 1 .. n : s[j].entry \in Entries
  <2>1. \A j \in 1 .. n : s[j] \in EventRows
    OBVIOUS
  <2>2. \A x \in EventRows : x.entry \in Entries
    BY DEF EventRows
  <2> QED BY <2>1, <2>2
<1> HIDE DEF u, n
<1>3. ASSUME NEW j \in 1 .. n
      PROVE  /\ Unreturned(u, j, t, n + 1) <=>
                    /\ Unreturned(s, j, t, n)
                    /\ ~ (r.entry.type = "return" /\ r.entry.thread = t
                            /\ r.entry.frame_id = s[j].entry.frame_id)
             /\ Unreturned(u, j, t, n) <=> Unreturned(s, j, t, n)
  <2>1. /\ u[j] = s[j]
        /\ \A k \in j + 1 .. n : u[k] = s[k]
        /\ \A k \in j + 1 .. n + 1 : k = n + 1 \/ k \in j + 1 .. n
        /\ n + 1 \in j + 1 .. n + 1 /\ \A k \in j + 1 .. n : k \in j + 1 .. n + 1
    BY <1>1
  <2>2. r.entry = [s[j].entry EXCEPT !.type = "return"] <=>
            /\ r.entry.type = "return" /\ r.entry.thread = s[j].entry.thread
            /\ r.entry.frame_id = s[j].entry.frame_id
    BY <1>2, ReturnOf
  <2> DEFINE Back == [s[j].entry EXCEPT !.type = "return"]
  <2> HIDE DEF Back
  <2>3. Unreturned(s, j, t, n) <=> CallAt(s, j, t) /\ \A k \in j + 1 .. n : s[k].entry # Back
    BY DEF Unreturned, Back
  <2>4. Unreturned(u, j, t, n) <=> CallAt(s, j, t) /\ \A k \in j + 1 .. n : u[k].entry # Back
    BY <2>1 DEF Unreturned, Back, CallAt
  <2>5. Unreturned(u, j, t, n + 1) <=> CallAt(s, j, t) /\ \A k \in j + 1 .. n + 1 : u[k].entry # Back
    BY <2>1 DEF Unreturned, Back, CallAt
  <2>6. (\A k \in j + 1 .. n + 1 : u[k].entry # Back) <=>
            (\A k \in j + 1 .. n : s[k].entry # Back) /\ r.entry # Back
    BY <1>1, <2>1
  <2>7. CallAt(s, j, t) => s[j].entry.thread = t
    BY DEF CallAt
  <2> QED BY <2>1, <2>2, <2>3, <2>4, <2>5, <2>6, <2>7 DEF Back
<1>4. Unreturned(u, n + 1, t, n + 1) <=> r.entry.type = "call" /\ r.entry.thread = t
  <2>1. \A k \in (n + 1) + 1 .. n + 1 : FALSE
    BY <1>1
  <2> QED BY <1>1, <2>1 DEF Unreturned, CallAt
<1> QED BY <1>3, <1>4 DEF u, n

\* The innermost open call is the caller.
LEMMA CallerIsInnermost ==
    ASSUME NEW s \in Seq(EventRows), NEW o, NEW c, Point(o, c), Calling(s, o, c),
           NEW r \in EventRows, NEW t \in Threads, r.entry.thread = t
    PROVE  CallerInLog(Append(s, r), Len(s) + 1) = IF o[t] = <<>> THEN 0 ELSE o[t][Len(o[t])]
<1> DEFINE n == Len(s)
           u == Append(s, r)
           L == Len(o[t])
<1>1. /\ n \in Nat /\ u[n + 1] = r
      /\ \A j \in 1 .. n : u[j] = s[j]
  BY AppendProperties
<1>2. /\ o[t] \in Seq(1 .. MaxEvents) /\ L \in Nat
      /\ \A i, j \in 1 .. L : i < j => o[t][i] < o[t][j]
      /\ \A i \in 1 .. L : o[t][i] \in 1 .. MaxEvents
  <2>1. o[t] \in Seq(1 .. MaxEvents) /\ Rising(o[t])
    BY DEF Point, Stacks
  <2>2. L \in Nat /\ \A i \in 1 .. L : o[t][i] \in 1 .. MaxEvents
    BY <2>1, LenProperties, ElementOfSeq
  <2>3. \A i, j \in 1 .. L : i < j => o[t][i] < o[t][j]
    BY <2>1 DEF Rising
  <2> QED BY <2>1, <2>2, <2>3
<1>3. Callers(u, n + 1) = {j \in 1 .. n : Unreturned(s, j, t, n)}
  <2>1. u[n + 1].entry.thread = t /\ (n + 1) - 1 = n
    BY <1>1
  <2>2. \A j \in 1 .. n : Unreturned(u, j, t, n) <=> Unreturned(s, j, t, n)
    <3>1. \A j \in 1 .. Len(s) :
            Unreturned(Append(s, r), j, t, Len(s)) <=> Unreturned(s, j, t, Len(s))
      BY UnreturnedNext
    <3> QED BY <3>1
  <2> HIDE DEF u, n
  <2> QED BY <2>1, <2>2 DEF Callers
<1>4. /\ \A j \in 1 .. n : Unreturned(s, j, t, n) => \E i \in 1 .. L : o[t][i] = s[j].entry.frame_id
      /\ \A i \in 1 .. L : \E j \in 1 .. n : Unreturned(s, j, t, n) /\ o[t][i] = s[j].entry.frame_id
      /\ \A j \in 1 .. n : CallAt(s, j, t) =>
            \A k \in 1 .. j - 1 : CallAt(s, k, t) => s[k].entry.frame_id < s[j].entry.frame_id
  BY DEF Calling
<1>5. \A j : Unreturned(s, j, t, n) => CallAt(s, j, t)
  BY DEF Unreturned
<1> HIDE DEF u, n
<1>6. CASE o[t] = <<>>
  <2>1. L = 0
    BY <1>6
  <2>2. Callers(u, n + 1) = {}
    BY <1>3, <1>4, <2>1
  <2> QED BY <1>6, <2>2, CallerIsChosen DEF u, n
<1>7. CASE o[t] # <<>>
  <2>1. L \in 1 .. L
    BY <1>2, <1>7
  <2>2. PICK j \in 1 .. n : Unreturned(s, j, t, n) /\ o[t][L] = s[j].entry.frame_id
    BY <1>4, <2>1
  <2>3. PICK l \in Callers(u, n + 1) :
            (\A k \in Callers(u, n + 1) : k <= l) /\ CallerInLog(u, n + 1) = u[l].entry.frame_id
    <3>1. Callers(u, n + 1) # {} /\ n + 1 \in Nat
      BY <1>1, <1>3, <2>2
    <3> QED BY <3>1, LastCaller
  <2>4. l \in 1 .. n /\ Unreturned(s, l, t, n) /\ j <= l
    BY <1>3, <2>2, <2>3
  <2>5. PICK i \in 1 .. L : o[t][i] = s[l].entry.frame_id
    BY <1>4, <2>4
  <2>6. o[t][i] <= o[t][L] /\ o[t][i] \in Nat /\ o[t][L] \in Nat
    <3>1. i = L \/ i < L
      BY <1>2
    <3>2. o[t][i] \in 1 .. MaxEvents /\ o[t][L] \in 1 .. MaxEvents
      BY <1>2, <2>1
    <3>3. i < L => o[t][i] < o[t][L]
      BY <1>2, <2>1
    <3> QED BY <3>1, <3>2, <3>3
  <2>7. j < l => s[j].entry.frame_id < s[l].entry.frame_id
    <3> SUFFICES ASSUME j < l PROVE s[j].entry.frame_id < s[l].entry.frame_id
      OBVIOUS
    <3>1. j \in 1 .. l - 1
      BY <2>4
    <3> QED BY <1>4, <1>5, <2>2, <2>4, <3>1
  <2>8. j = l
    <3>1. ~ (j < l)
      BY <2>2, <2>5, <2>6, <2>7
    <3> QED BY <2>4, <3>1
  <2>9. CallerInLog(u, n + 1) = o[t][L]
    BY <1>1, <2>2, <2>3, <2>8
  <2> QED BY <1>7, <2>9 DEF u, n
<1> QED BY <1>6, <1>7

\* The calls of a stack, by thread.
LEMMA PointStacks ==
    ASSUME NEW o, NEW c, Point(o, c), NEW t \in Threads
    PROVE  /\ o[t] \in Seq(1 .. MaxEvents) /\ Len(o[t]) \in Nat /\ Rising(o[t]) /\ c[t] \in Nat
           /\ \A i \in 1 .. Len(o[t]) : o[t][i] \in 1 .. MaxEvents /\ o[t][i] <= c[t]
<1>1. o[t] \in Seq(1 .. MaxEvents) /\ Rising(o[t]) /\ \A i \in 1 .. Len(o[t]) : o[t][i] <= c[t]
  BY DEF Point, Stacks
<1>2. c[t] \in Nat
  BY BoundsAssumption DEF Point
<1>3. Len(o[t]) \in Nat /\ \A i \in 1 .. Len(o[t]) : o[t][i] \in 1 .. MaxEvents
  BY <1>1, LenProperties, ElementOfSeq
<1> QED BY <1>1, <1>2, <1>3

\* The calls of s before a point, one event later: numbers and parents.
LEMMA NumbersNext ==
    ASSUME NEW s \in Seq(EventRows), NEW o, NEW c, Point(o, c), Calling(s, o, c),
           NEW r \in EventRows, NEW d, \A t \in Threads : d[t] \in Nat /\ c[t] <= d[t],
           NEW t \in Threads, NEW j \in 1 .. Len(s), CallAt(Append(s, r), j, t)
    PROVE  /\ Append(s, r)[j].entry.frame_id \in 1 .. d[t]
           /\ \A k \in 1 .. j - 1 : CallAt(Append(s, r), k, t) =>
                    Append(s, r)[k].entry.frame_id < Append(s, r)[j].entry.frame_id
           /\ Append(s, r)[j].parent = CallerInLog(Append(s, r), j)
<1> DEFINE u == Append(s, r)
<1>1. Len(s) \in Nat /\ \A k \in 1 .. Len(s) : u[k] = s[k]
  BY AppendProperties
<1> HIDE DEF u
<1>2. /\ j \in Nat /\ j >= 1 /\ \A k \in 1 .. j : u[k] = s[k]
      /\ \A k \in 1 .. j - 1 : u[k] = s[k]
      /\ u[j] = s[j]
  BY <1>1
<1>3. CallAt(s, j, t) /\ \A k \in 1 .. j - 1 : CallAt(u, k, t) => CallAt(s, k, t)
  BY <1>2 DEF CallAt, u
<1>4. /\ s[j].entry.frame_id \in 1 .. c[t]
      /\ \A k \in 1 .. j - 1 : CallAt(s, k, t) => s[k].entry.frame_id < s[j].entry.frame_id
      /\ s[j].parent = CallerInLog(s, j)
  BY <1>3 DEF Calling
<1>5. CallerInLog(u, j) = CallerInLog(s, j)
  BY <1>2, SameCaller
<1>6. s[j].entry.frame_id \in 1 .. d[t]
  BY <1>4, PointStacks
<1>7. \A k \in 1 .. j - 1 : CallAt(u, k, t) => u[k].entry.frame_id < u[j].entry.frame_id
  BY <1>2, <1>3, <1>4
<1>8. u[j].parent = CallerInLog(u, j) /\ u[j].entry.frame_id \in 1 .. d[t]
  BY <1>2, <1>4, <1>5, <1>6
<1> QED BY <1>7, <1>8 DEF u

LEMMA CallingNext ==
    ASSUME NEW s \in Seq(EventRows), NEW o, NEW c, Point(o, c), Calling(s, o, c),
           NEW r \in EventRows, NEW m \in Messages, m.stream = "event", r.entry = m.entry,
           NEW p, NEW d, Follows(o, c, m, p, d),
           r.entry.type = "call" =>
                r.parent = IF o[r.entry.thread] = <<>> THEN 0
                           ELSE o[r.entry.thread][Len(o[r.entry.thread])]
    PROVE  Calling(Append(s, r), p, d)
<1> DEFINE n == Len(s)
           u == Append(s, r)
           e == r.entry
           x == e.thread
<1>1. /\ n \in Nat /\ Len(u) = n + 1 /\ u[n + 1] = r
      /\ \A j \in 1 .. n : u[j] = s[j]
  BY AppendProperties
<1>2. e \in Entries /\ x \in Threads /\ e.type \in {"call", "return", "breakpoint"}
  BY DEF EventRows, Entries
<1>3. Point(p, d)
  BY FollowsKeepsPoint
<1>4. /\ \A t, j : CallAt(s, j, t) <=> s[j].entry.thread = t /\ s[j].entry.type = "call"
      /\ \A t, j : Unreturned(s, j, t, n) => s[j].entry.thread = t
  BY DEF CallAt, Unreturned
<1>5. /\ \A t \in Threads, j \in 1 .. n :
            Unreturned(u, j, t, n + 1) <=>
                /\ Unreturned(s, j, t, n)
                /\ ~ (e.type = "return" /\ x = t /\ e.frame_id = s[j].entry.frame_id)
      /\ \A t \in Threads : Unreturned(u, n + 1, t, n + 1) <=> e.type = "call" /\ x = t
  <2>1. ASSUME NEW t \in Threads
        PROVE  /\ \A j \in 1 .. n :
                    Unreturned(u, j, t, n + 1) <=>
                        /\ Unreturned(s, j, t, n)
                        /\ ~ (e.type = "return" /\ x = t /\ e.frame_id = s[j].entry.frame_id)
               /\ Unreturned(u, n + 1, t, n + 1) <=> e.type = "call" /\ x = t
    BY UnreturnedNext
  <2> HIDE DEF u, n, e, x
  <2> QED BY <2>1
<1>6. /\ \A t \in Threads, j \in 1 .. n :
            Unreturned(s, j, t, n) => \E i \in 1 .. Len(o[t]) : o[t][i] = s[j].entry.frame_id
      /\ \A t \in Threads : \A i \in 1 .. Len(o[t]) :
            \E j \in 1 .. n : Unreturned(s, j, t, n) /\ o[t][i] = s[j].entry.frame_id
      /\ \A t \in Threads, j \in 1 .. n : CallAt(s, j, t) => s[j].entry.frame_id \in 1 .. c[t]
  BY DEF Calling
<1>7. CASE e.type = "call"
  <2>1. /\ e.frame_id = c[x] + 1
        /\ p = [o EXCEPT ![x] = Append(o[x], c[x] + 1)]
        /\ d = [c EXCEPT ![x] = c[x] + 1]
    BY <1>7 DEF Follows, IsCall, IsReturn
  <2>2. /\ o[x] \in Seq(1 .. MaxEvents) /\ Len(o[x]) \in Nat /\ c[x] \in Nat
        /\ \A t \in Threads : d[t] \in Nat /\ c[t] \in Nat
    BY <1>2, <1>3, PointStacks
  <2>3. /\ p[x] = Append(o[x], c[x] + 1) /\ d[x] = c[x] + 1
        /\ \A t \in Threads : t # x => p[t] = o[t] /\ d[t] = c[t]
    BY <1>2, <2>1 DEF Point, Stacks
  <2>4. /\ Len(p[x]) = Len(o[x]) + 1 /\ p[x][Len(o[x]) + 1] = c[x] + 1
        /\ \A i \in 1 .. Len(o[x]) : p[x][i] = o[x][i]
    <3>1. c[x] + 1 \in 1 .. MaxEvents
      <4>1. e.frame_id \in 0 .. MaxEvents
        BY <1>2 DEF Entries
      <4> QED BY <2>1, <2>2, <4>1, BoundsAssumption
    <3> HIDE DEF x
    <3> QED BY <2>2, <2>3, <3>1, AppendProperties
  <2>5. \A t \in Threads : d[t] \in Nat /\ c[t] <= d[t]
    BY <2>2, <2>3
  <2> HIDE DEF u, e, x, n
  <2>6. ASSUME NEW t \in Threads, NEW j \in 1 .. n + 1, CallAt(u, j, t)
        PROVE  /\ u[j].entry.frame_id \in 1 .. d[t]
               /\ \A k \in 1 .. j - 1 : CallAt(u, k, t) => u[k].entry.frame_id < u[j].entry.frame_id
               /\ u[j].parent = CallerInLog(u, j)
    <3>1. CASE j \in 1 .. n
      <4>1. j \in 1 .. Len(s) /\ CallAt(Append(s, r), j, t)
        BY <2>6, <3>1 DEF n, u
      <4> QED BY <2>5, <4>1, NumbersNext DEF u
    <3>2. CASE j = n + 1
      <4>1. u[j] = r /\ t = x /\ r.entry = e
        BY <1>1, <2>6, <3>2 DEF CallAt, e, x
      <4>2. u[j].entry.frame_id = d[t]
        BY <2>1, <2>3, <4>1
      <4>3. ASSUME NEW k \in 1 .. j - 1, CallAt(u, k, t)
            PROVE  u[k].entry.frame_id < u[j].entry.frame_id
        <5>1. k \in 1 .. n /\ u[k] = s[k]
          BY <1>1, <3>2
        <5>2. CallAt(s, k, x)
          BY <4>1, <4>3, <5>1 DEF CallAt
        <5>3. s[k].entry.frame_id \in 1 .. c[x]
          BY <1>2, <1>6, <5>1, <5>2
        <5> QED BY <2>2, <2>3, <4>1, <4>2, <5>1, <5>3
      <4>4. r.parent = IF o[x] = <<>> THEN 0 ELSE o[x][Len(o[x])]
        BY <1>7 DEF e, x
      <4>5. CallerInLog(u, n + 1) = IF o[x] = <<>> THEN 0 ELSE o[x][Len(o[x])]
        BY <1>2, CallerIsInnermost DEF u, n, e, x
      <4>6. d[t] \in 1 .. d[t]
        BY <2>2, <2>3, <4>1
      <4> QED BY <3>2, <4>1, <4>2, <4>3, <4>4, <4>5, <4>6
    <3> QED BY <1>1, <3>1, <3>2
  <2>7. ASSUME NEW t \in Threads, NEW j \in 1 .. n + 1, Unreturned(u, j, t, n + 1)
        PROVE  \E i \in 1 .. Len(p[t]) : p[t][i] = u[j].entry.frame_id
    <3>1. CASE j \in 1 .. n
      <4>1. Unreturned(s, j, t, n) /\ u[j] = s[j]
        BY <1>1, <1>5, <2>7, <3>1
      <4>2. PICK i \in 1 .. Len(o[t]) : o[t][i] = s[j].entry.frame_id
        BY <1>6, <3>1, <4>1
      <4>3. i \in 1 .. Len(p[t]) /\ p[t][i] = o[t][i]
        <5>1. CASE t = x
          <6>1. i \in 1 .. Len(o[x]) /\ i \in 1 .. Len(o[x]) + 1
            BY <2>2, <4>2, <5>1
          <6> QED BY <2>4, <5>1, <6>1
        <5>2. CASE t # x
          BY <2>3, <4>2, <5>2
        <5> QED BY <5>1, <5>2
      <4> QED BY <4>1, <4>2, <4>3
    <3>2. CASE j = n + 1
      <4>1. t = x /\ u[j].entry = e
        BY <1>1, <1>5, <2>7, <3>2 DEF e
      <4>2. Len(o[x]) + 1 \in 1 .. Len(p[t])
        BY <2>2, <2>4, <4>1
      <4>3. p[t][Len(o[x]) + 1] = u[j].entry.frame_id
        BY <2>1, <2>4, <4>1
      <4> QED BY <4>2, <4>3
    <3> QED BY <1>1, <3>1, <3>2
  <2>8. ASSUME NEW t \in Threads, NEW i \in 1 .. Len(p[t])
        PROVE  \E j \in 1 .. n + 1 : Unreturned(u, j, t, n + 1) /\ p[t][i] = u[j].entry.frame_id
    <3>1. CASE t = x /\ i = Len(o[x]) + 1
      <4>1. Unreturned(u, n + 1, t, n + 1)
        BY <1>5, <1>7, <3>1
      <4>2. p[t][i] = u[n + 1].entry.frame_id
        BY <1>1, <2>1, <2>4, <3>1 DEF e
      <4>3. n + 1 \in 1 .. n + 1
        BY <1>1
      <4> QED BY <4>1, <4>2, <4>3
    <3>2. CASE ~(t = x /\ i = Len(o[x]) + 1)
      <4>1. i \in 1 .. Len(o[t]) /\ p[t][i] = o[t][i]
        BY <2>2, <2>3, <2>4, <3>2
      <4>2. PICK j \in 1 .. n : Unreturned(s, j, t, n) /\ o[t][i] = s[j].entry.frame_id
        BY <1>6, <4>1
      <4>3. Unreturned(u, j, t, n + 1)
        BY <1>5, <1>7, <4>2
      <4>4. u[j] = s[j] /\ j \in 1 .. n + 1
        BY <1>1
      <4> QED BY <4>1, <4>2, <4>3, <4>4
    <3> QED BY <3>1, <3>2
  <2>9. Calling(u, p, d)
    BY <1>1, <2>6, <2>7, <2>8 DEF Calling
  <2> QED BY <2>9 DEF u
<1>8. CASE e.type # "call"
  <2> DEFINE L == Len(o[x])
             back == e.type = "return"
  <2>1. /\ d = c
        /\ back => /\ o[x] # <<>> /\ o[x][L] = e.frame_id
                   /\ p = [o EXCEPT ![x] = SubSeq(o[x], 1, L - 1)]
        /\ ~back => p = o
    BY <1>8 DEF Follows, IsCall, IsReturn
  <2>2. /\ o[x] \in Seq(1 .. MaxEvents) /\ L \in Nat /\ Rising(o[x])
        /\ \A i \in 1 .. L : o[x][i] \in 1 .. MaxEvents
        /\ \A t \in Threads : c[t] \in Nat /\ c[t] <= d[t] /\ d[t] \in Nat
    BY <1>2, <2>1, PointStacks
  <2>3. back => /\ L \in 1 .. L
                /\ Len(p[x]) = L - 1 /\ \A i \in 1 .. L - 1 : p[x][i] = o[x][i]
                /\ \A t \in Threads : t # x => p[t] = o[t]
    <3> SUFFICES ASSUME back
                 PROVE  /\ L \in 1 .. L
                        /\ Len(p[x]) = L - 1 /\ \A i \in 1 .. L - 1 : p[x][i] = o[x][i]
                        /\ \A t \in Threads : t # x => p[t] = o[t]
      OBVIOUS
    <3>1. /\ p[x] = SubSeq(o[x], 1, L - 1)
          /\ \A t \in Threads : t # x => p[t] = o[t]
      BY <1>2, <2>1 DEF Point, Stacks
    <3>2. /\ Len(SubSeq(o[x], 1, L - 1)) = L - 1
          /\ \A i \in 1 .. L - 1 : SubSeq(o[x], 1, L - 1)[i] = o[x][i]
      BY <2>1, <2>2, PopRises
    <3>3. L # 0
      BY <2>1, <2>2, EmptySeq
    <3> QED BY <2>2, <3>1, <3>2, <3>3
  <2> HIDE DEF u, e, x, n, L, back
  <2>4. \A t \in Threads : \A i \in 1 .. Len(p[t]) :
            i \in 1 .. Len(o[t]) /\ p[t][i] = o[t][i] /\ (back /\ t = x => i < L)
    BY <2>1, <2>2, <2>3 DEF L
  <2>5. \A t \in Threads : \A i \in 1 .. Len(o[t]) :
            (back /\ t = x /\ i = L) \/ (i \in 1 .. Len(p[t]) /\ p[t][i] = o[t][i])
    BY <2>1, <2>2, <2>3 DEF L
  <2>6. ASSUME NEW t \in Threads, NEW j \in 1 .. n + 1, CallAt(u, j, t)
        PROVE  /\ u[j].entry.frame_id \in 1 .. d[t]
               /\ \A k \in 1 .. j - 1 : CallAt(u, k, t) => u[k].entry.frame_id < u[j].entry.frame_id
               /\ u[j].parent = CallerInLog(u, j)
    <3>1. j # n + 1
      BY <1>1, <1>8, <2>6 DEF CallAt, e
    <3>2. j \in 1 .. Len(s) /\ CallAt(Append(s, r), j, t)
      BY <1>1, <2>6, <3>1 DEF n, u
    <3> QED BY <2>2, <3>2, NumbersNext DEF u
  <2>7. ASSUME NEW t \in Threads, NEW j \in 1 .. n + 1, Unreturned(u, j, t, n + 1)
        PROVE  \E i \in 1 .. Len(p[t]) : p[t][i] = u[j].entry.frame_id
    <3>1. j # n + 1
      BY <1>5, <1>8, <2>7
    <3>2. j \in 1 .. n
      BY <1>1, <3>1
    <3>3. /\ Unreturned(s, j, t, n) /\ u[j] = s[j]
          /\ ~ (back /\ x = t /\ e.frame_id = s[j].entry.frame_id)
      BY <1>1, <1>5, <2>7, <3>2 DEF back
    <3>4. PICK i \in 1 .. Len(o[t]) : o[t][i] = s[j].entry.frame_id
      BY <1>6, <3>2, <3>3
    <3>5. ~(back /\ t = x /\ i = L)
      BY <2>1, <3>3, <3>4
    <3>6. i \in 1 .. Len(p[t]) /\ p[t][i] = o[t][i]
      BY <2>5, <3>5
    <3> QED BY <3>3, <3>4, <3>6
  <2>8. ASSUME NEW t \in Threads, NEW i \in 1 .. Len(p[t])
        PROVE  \E j \in 1 .. n + 1 : Unreturned(u, j, t, n + 1) /\ p[t][i] = u[j].entry.frame_id
    <3>1. i \in 1 .. Len(o[t]) /\ p[t][i] = o[t][i] /\ (back /\ t = x => i < L)
      BY <2>4
    <3>2. PICK j \in 1 .. n : Unreturned(s, j, t, n) /\ o[t][i] = s[j].entry.frame_id
      BY <1>6, <3>1
    <3>3. ~ (back /\ x = t /\ e.frame_id = s[j].entry.frame_id)
      <4> SUFFICES ASSUME back, x = t PROVE e.frame_id # s[j].entry.frame_id
        OBVIOUS
      <4>1. i < L /\ i \in 1 .. L /\ L \in 1 .. L
        BY <2>3, <3>1 DEF L
      <4>2. o[x][i] < o[x][L]
        BY <2>2, <4>1 DEF Rising, L
      <4>3. o[x][i] \in 1 .. MaxEvents /\ o[x][L] \in 1 .. MaxEvents
        BY <2>2, <4>1
      <4> QED BY <2>1, <3>2, <4>2, <4>3
    <3>4. Unreturned(u, j, t, n + 1)
      BY <1>5, <3>2, <3>3 DEF back
    <3>5. u[j] = s[j] /\ j \in 1 .. n + 1
      BY <1>1
    <3> QED BY <3>1, <3>2, <3>4, <3>5
  <2>9. Calling(u, p, d)
    BY <1>1, <2>6, <2>7, <2>8 DEF Calling
  <2> QED BY <2>9 DEF u
<1> QED BY <1>7, <1>8

-----------------------------------------------------------------------------
(***************************************************************************)
(* The steps that look at a message.                                       *)
(***************************************************************************)
LEMMA TailOfConcat ==
    ASSUME NEW S, NEW a \in Seq(S), NEW b \in Seq(S), a # <<>>
    PROVE  /\ Tail(a) \o b \in Seq(S) /\ Len(Tail(a) \o b) = Len(a \o b) - 1
           /\ \A i \in 1 .. Len(Tail(a) \o b) : (Tail(a) \o b)[i] = (a \o b)[i + 1]
           /\ Len(a \o b) >= 1 /\ (a \o b)[1] = Head(a)
<1>1. /\ Len(a) \in Nat \ {0} /\ Len(b) \in Nat /\ Head(a) = a[1]
      /\ Tail(a) \in Seq(S) /\ Len(Tail(a)) = Len(a) - 1
      /\ \A i \in 1 .. Len(Tail(a)) : Tail(a)[i] = a[i + 1]
  BY EmptySeq, HeadTailProperties, LenProperties
<1>2. /\ a \o b \in Seq(S) /\ Len(a \o b) = Len(a) + Len(b)
      /\ \A i \in 1 .. Len(a) + Len(b) : (a \o b)[i] = IF i <= Len(a) THEN a[i] ELSE b[i - Len(a)]
  BY ConcatProperties
<1> DEFINE c == Tail(a)
<1>3. /\ c \in Seq(S) /\ Len(c) = Len(a) - 1
      /\ \A i \in 1 .. Len(c) : c[i] = a[i + 1]
  BY <1>1
<1> HIDE DEF c
<1>4. /\ c \o b \in Seq(S) /\ Len(c \o b) = Len(c) + Len(b)
      /\ \A i \in 1 .. Len(c) + Len(b) : (c \o b)[i] = IF i <= Len(c) THEN c[i] ELSE b[i - Len(c)]
  BY <1>3, ConcatProperties
<1>5. ASSUME NEW i \in 1 .. Len(c) + Len(b) PROVE (c \o b)[i] = (a \o b)[i + 1]
  <2>1. i + 1 \in 1 .. Len(a) + Len(b)
    BY <1>1, <1>3
  <2>2. CASE i <= Len(c)
    <3>1. i \in 1 .. Len(c) /\ i + 1 <= Len(a)
      BY <1>1, <1>3, <2>2
    <3> QED BY <1>2, <1>3, <1>4, <2>1, <2>2, <3>1
  <2>3. CASE ~(i <= Len(c))
    <3>1. ~(i + 1 <= Len(a)) /\ (i + 1) - Len(a) = i - Len(c)
      BY <1>1, <1>3, <2>3
    <3> QED BY <1>2, <1>4, <2>1, <2>3, <3>1
  <2> QED BY <2>2, <2>3
<1>6. Len(c \o b) = Len(a \o b) - 1 /\ Len(a \o b) >= 1
  BY <1>1, <1>2, <1>3, <1>4
<1>7. (a \o b)[1] = Head(a)
  <2>1. 1 \in 1 .. Len(a) + Len(b) /\ 1 <= Len(a)
    BY <1>1
  <2> QED BY <1>1, <1>2, <2>1
<1> QED BY <1>4, <1>5, <1>6, <1>7 DEF c

\* What is in flight behind the batch.
Held   == IF reader = "send" THEN <<file[read]>> ELSE <<>>
Behind == queue \o Held

LEMMA BehindBatch ==
    ASSUME Inv
    PROVE  /\ Held \in Seq(Messages) /\ Behind \in Seq(Messages) /\ batch \in Seq(Messages)
           /\ queue \in Seq(Messages) /\ InFlight = batch \o Behind
<1>1. file \in Seq(Messages) /\ batch \in Seq(Messages) /\ queue \in Seq(Messages)
  BY WhatIsWritten DEF Inv, Flowing
<1>2. Held \in Seq(Messages)
  <2>1. CASE reader = "send"
    <3>1. read \in 1 .. Len(file)
      BY <1>1, <2>1 DEF Inv, Flowing
    <3>2. file[read] \in Messages
      BY <1>1, <3>1
    <3> QED BY <2>1, <3>2 DEF Held
  <2>2. CASE reader # "send"
    BY <2>2 DEF Held
  <2> QED BY <2>1, <2>2
<1>3. Behind \in Seq(Messages)
  BY <1>1, <1>2, ConcatProperties DEF Behind
<1>4. InFlight = (batch \o queue) \o Held
  BY DEF InFlight, Held
<1>5. (batch \o queue) \o Held = batch \o (queue \o Held)
  BY <1>1, <1>2, ConcatAssociative
<1> QED BY <1>1, <1>2, <1>3, <1>4, <1>5 DEF Behind

\* The next message of the batch is the next of the file.
LEMMA NextMessage ==
    ASSUME Inv, main = "process", batch # <<>>
    PROVE  /\ Head(batch) = file[Looked + 1] /\ Looked \in Nat /\ Looked < Len(file)
           /\ Looked + 1 <= read /\ Head(batch) \in Messages
<1>1. file \in Seq(Messages)
  BY WhatIsWritten
<1>2. /\ InFlight \in Seq(Messages) /\ Len(InFlight) \in Nat /\ read \in Nat /\ Len(file) \in Nat
      /\ Looked \in 0 .. read /\ Looked \in 0 .. Len(file) /\ read = Looked + Len(InFlight)
  BY <1>1, LookedAt DEF Inv
<1>3. batch \in Seq(Messages) /\ Behind \in Seq(Messages) /\ InFlight = batch \o Behind
  BY BehindBatch
<1>4. Len(InFlight) >= 1 /\ InFlight[1] = Head(batch)
  BY <1>1, <1>3, TailOfConcat
<1>5. InFlight[1] = file[Looked + 1]
  <2>1. 1 \in 1 .. Len(InFlight)
    BY <1>2, <1>4
  <2> QED BY <2>1 DEF Inv, Flowing
<1>6. Looked < Len(file) /\ Looked + 1 <= read
  <2>1. read <= Len(file)
    BY <1>1 DEF Inv, Flowing
  <2> QED BY <1>2, <1>4, <2>1
<1>7. Looked + 1 \in 1 .. Len(file)
  BY <1>2, <1>6
<1> QED BY <1>1, <1>2, <1>4, <1>5, <1>6, <1>7

LEMMA Taken ==
    ASSUME Inv, main = "process", batch # <<>>, batch' = Tail(batch), main' = main,
           UNCHANGED <<writerVars, readerVars, queue>>
    PROVE  Flowing' /\ Looked' = Looked + 1
<1>1. /\ file' = file /\ read' = read /\ reader' = reader /\ queue' = queue
  BY DEF writerVars, readerVars
<1>2. file \in Seq(Messages) /\ batch \in Seq(Messages) /\ queue \in Seq(Messages)
  BY WhatIsWritten DEF Inv, Flowing
<1>3. /\ InFlight \in Seq(Messages) /\ Len(InFlight) \in Nat /\ read \in Nat /\ Len(file) \in Nat
      /\ Looked \in 0 .. read /\ Looked \in 0 .. Len(file) /\ read = Looked + Len(InFlight)
  BY <1>2, LookedAt DEF Inv
<1>4. Held \in Seq(Messages) /\ Behind \in Seq(Messages) /\ InFlight = batch \o Behind
  BY BehindBatch
<1>5. Tail(batch) \in Seq(Messages)
  BY <1>2, HeadTailProperties
<1>6. InFlight' = Tail(batch) \o Behind
  <2>1. InFlight' = (Tail(batch) \o queue) \o Held
    BY <1>1 DEF InFlight, Held
  <2> DEFINE c == Tail(batch)
  <2>2. c \in Seq(Messages)
    BY <1>5
  <2> HIDE DEF c
  <2>3. (c \o queue) \o Held = c \o (queue \o Held)
    <3>1. queue \in Seq(Messages) /\ Held \in Seq(Messages)
      BY <1>2, <1>4
    <3> QED BY <2>2, <3>1, ConcatAssociative
  <2>4. InFlight' = c \o Behind
    BY <2>1, <2>3 DEF Behind, c
  <2> QED BY <2>4 DEF c
<1>7. /\ InFlight' \in Seq(Messages) /\ Len(InFlight') = Len(InFlight) - 1 /\ Len(InFlight) >= 1
      /\ \A i \in 1 .. Len(InFlight') : InFlight'[i] = InFlight[i + 1]
  <2>1. /\ Tail(batch) \o Behind \in Seq(Messages) /\ Len(Tail(batch) \o Behind) = Len(batch \o Behind) - 1
        /\ \A i \in 1 .. Len(Tail(batch) \o Behind) : (Tail(batch) \o Behind)[i] = (batch \o Behind)[i + 1]
        /\ Len(batch \o Behind) >= 1
    BY <1>2, <1>4, TailOfConcat
  <2> QED BY <1>4, <1>6, <2>1, Zenon
<1>8. Looked' = Looked + 1
  <2>1. Looked' = read - Len(InFlight') /\ Looked = read - Len(InFlight)
    BY <1>1 DEF Looked
  <2> QED BY <1>3, <1>7, <2>1
<1>9. \A i \in 1 .. Len(InFlight') : InFlight'[i] = file[Looked' + i]
  <2> SUFFICES ASSUME NEW i \in 1 .. Len(InFlight') PROVE InFlight'[i] = file[Looked' + i]
    OBVIOUS
  <2>1. i + 1 \in 1 .. Len(InFlight) /\ Looked' + i = Looked + (i + 1)
    BY <1>3, <1>7, <1>8
  <2>2. InFlight[i + 1] = file[Looked + (i + 1)]
    BY <2>1 DEF Inv, Flowing
  <2> QED BY <1>7, <2>1, <2>2
<1>10. Len(InFlight') <= read
  BY <1>3, <1>7, <1>8
<1>11. Flowing'
  BY <1>1, <1>5, <1>9, <1>10 DEF Inv, Flowing
<1> QED BY <1>8, <1>11

\* What is looked at, and where its history stands.
LEMMA WhatComesNext ==
    ASSUME Inv, main = "process", batch # <<>>
    PROVE  \E H, C :
              /\ History(file, open, calls, H, C) /\ stack = H[Looked]
              /\ Calling(Known("event"), H[Looked], C[Looked]) /\ Point(H[Looked], C[Looked])
              /\ Follows(H[Looked], C[Looked], Head(batch), H[Looked + 1], C[Looked + 1])
<1>1. PICK H, C : /\ History(file, open, calls, H, C) /\ stack = H[Looked]
                  /\ Calling(Known("event"), H[Looked], C[Looked])
  BY DEF Inv, Replayed
<1>2. Head(batch) = file[Looked + 1] /\ Looked \in Nat /\ Looked < Len(file)
  BY NextMessage
<1>3. Len(file) \in Nat
  BY WhatIsWritten, LenProperties
<1>4. Looked \in 0 .. Len(file) /\ Looked + 1 \in 1 .. Len(file) /\ (Looked + 1) - 1 = Looked
  BY <1>2, <1>3
<1>5. Point(H[Looked], C[Looked])
  BY <1>1, <1>4 DEF History
<1>6. Follows(H[Looked], C[Looked], file[Looked + 1], H[Looked + 1], C[Looked + 1])
  <2>1. \A k \in 1 .. Len(file) : Follows(H[k - 1], C[k - 1], file[k], H[k], C[k])
    BY <1>1 DEF History
  <2>2. Follows(H[(Looked + 1) - 1], C[(Looked + 1) - 1], file[Looked + 1], H[Looked + 1], C[Looked + 1])
    BY <1>4, <2>1
  <2> QED BY <1>4, <2>2
<1> QED BY <1>1, <1>2, <1>5, <1>6

\* The first message is the info that the table of it has had since.
LEMMA InfoIsFirst ==
    ASSUME Inv, main = "process", batch # <<>>
    PROVE  /\ Head(batch).stream # "info" => db["info"] # <<>>
           /\ Head(batch).stream = "info" /\ Head(batch).exit => db["info"] # <<>>
<1>1. Head(batch) = file[Looked + 1] /\ Looked \in Nat
  BY NextMessage
<1>2. file[1] = Info(FALSE)
  BY WhatIsWritten DEF Sound
<1>3. CASE Looked = 0
  <2>1. Looked + 1 = 1
    BY <1>3
  <2>2. Head(batch) = Info(FALSE)
    BY <1>1, <1>2, <2>1, Zenon
  <2> QED BY <2>2, PlainStreams
<1>4. CASE Looked # 0
  <2>1. Looked >= 1
    BY <1>1, <1>4
  <2> QED BY <2>1 DEF Inv, Stored
<1> QED BY <1>3, <1>4

LEMMA InvWhenTaken ==
    ASSUME Inv, main = "process", batch # <<>>, batch' = Tail(batch), main' = main,
           UNCHANGED <<writerVars, readerVars, queue>>,
           DOMAIN rows' = Tables, DOMAIN db' = Tables,
           \A table \in Tables :
                rows'[table] \in Seq(RowsOf(table)) /\ db'[table] \in Seq(RowsOf(table)),
           db'["info"] # <<>>,
           \A table \in Tables \ {"info"} : table # Head(batch).stream => Known(table)' = Known(table),
           \A table \in Tables \ {"info"} : table = Head(batch).stream =>
                \E row \in RowsOf(table) :
                    Source(row) = Head(batch) /\ Known(table)' = Append(Known(table), row),
           Counting', Replayed'
    PROVE  Inv'
<1> DEFINE m == Head(batch)
<1>1. file' = file /\ log' = log /\ calls' = calls
  BY DEF writerVars
<1>2. Flowing' /\ Looked' = Looked + 1
  BY Taken
<1>3. m = file[Looked + 1] /\ Looked \in Nat /\ Looked < Len(file) /\ m \in Messages
  BY NextMessage
<1>4. file \in Seq(Messages)
  BY WhatIsWritten
<1>5. Written'
  BY <1>1 DEF Inv, Written
<1> HIDE DEF m
<1>6. ASSUME NEW table \in Tables \ {"info"}
      PROVE  Sources(Known(table)') = Of(SubSeq(file, 1, Looked + 1), table)
  <2>1. Of(SubSeq(file, 1, Looked + 1), table) =
            IF m.stream = table THEN Append(Of(SubSeq(file, 1, Looked), table), m)
            ELSE Of(SubSeq(file, 1, Looked), table)
    BY <1>3, <1>4, OfNext
  <2>2. Sources(Known(table)) = Of(SubSeq(file, 1, Looked), table)
    BY DEF Inv, Stored
  <2>3. CASE m.stream = table
    <3>1. PICK row \in RowsOf(table) : Source(row) = m /\ Known(table)' = Append(Known(table), row)
      BY <2>3 DEF m
    <3>2. Known(table) \in Seq(RowsOf(table))
      BY WhatIsStored
    <3>3. Sources(Append(Known(table), row)) = Append(Sources(Known(table)), Source(row))
      BY <3>2, SourcesAppend
    <3>4. Sources(Known(table)') = Append(Sources(Known(table)), m)
      BY <3>1, <3>3, Zenon
    <3> QED BY <2>1, <2>2, <2>3, <3>4
  <2>4. CASE m.stream # table
    <3>1. Known(table)' = Known(table)
      BY <2>4 DEF m
    <3> QED BY <2>1, <2>2, <2>4, <3>1
  <2> QED BY <2>3, <2>4
<1>7. Stored'
  <2>1. \A table \in Tables \ {"info"} :
            Sources(Known(table)') = Of(SubSeq(file', 1, Looked'), table)
    BY <1>1, <1>2, <1>6
  <2>2. \A table : Sources(Known(table))' = Sources(Known(table)')
    BY DEF Sources, Source, Event
  <2> QED BY <2>1, <2>2 DEF Stored
<1> QED BY <1>2, <1>5, <1>7 DEF Inv

\* One row more in a table.
LEMMA Collected ==
    ASSUME Inv, main = "process", main' = main, db' = db,
           NEW table \in Tables, NEW row \in RowsOf(table), Collect(row, table)
    PROVE  /\ DOMAIN rows' = Tables /\ DOMAIN db' = Tables
           /\ \A other \in Tables :
                rows'[other] \in Seq(RowsOf(other)) /\ db'[other] \in Seq(RowsOf(other))
           /\ \A other \in Tables : table # other =>
                rows'[other] = rows[other] /\ Known(other)' = Known(other)
           /\ rows'[table] = Append(rows[table], row)
           /\ Known(table)' = Append(Known(table), row)
<1>1. /\ DOMAIN rows = Tables /\ DOMAIN db = Tables
      /\ \A other \in Tables :
            rows[other] \in Seq(RowsOf(other)) /\ db[other] \in Seq(RowsOf(other))
  BY WhatIsStored
<1>2. /\ DOMAIN rows' = Tables /\ rows'[table] = Append(rows[table], row)
      /\ \A other \in Tables : table # other => rows'[other] = rows[other]
  BY <1>1 DEF Collect
<1>3. Append(rows[table], row) \in Seq(RowsOf(table))
  BY <1>1, AppendProperties
<1>4. \A other : Known(other)' = db[other] \o rows'[other] /\ Known(other) = db[other] \o rows[other]
  BY DEF Known
<1>5. db[table] \o Append(rows[table], row) = Append(db[table] \o rows[table], row)
  BY <1>1, ConcatAppend
<1>6. Known(table)' = Append(Known(table), row)
  BY <1>2, <1>4, <1>5, Zenon
<1>7. \A other \in Tables : table # other => Known(other)' = Known(other)
  BY <1>2, <1>4, Zenon
<1>8. \A other \in Tables :
            rows'[other] \in Seq(RowsOf(other)) /\ db'[other] \in Seq(RowsOf(other))
  <2> SUFFICES ASSUME NEW other \in Tables
               PROVE  rows'[other] \in Seq(RowsOf(other)) /\ db'[other] \in Seq(RowsOf(other))
    OBVIOUS
  <2>1. CASE other = table
    BY <1>1, <1>2, <1>3, <2>1, Zenon
  <2>2. CASE other # table
    BY <1>1, <1>2, <2>2, Zenon
  <2> QED BY <2>1, <2>2
<1> QED BY <1>1, <1>2, <1>6, <1>7, <1>8

LEMMA SaveInfoStep ==
    ASSUME Inv, main = "process", batch # <<>>, batch' = Tail(batch), SaveInfo(Head(batch)),
           UNCHANGED <<writerVars, readerVars, queue, hit_count>>
    PROVE  Inv'
<1> DEFINE m == Head(batch)
           info == IF m.exit THEN <<m>> ELSE Append(db["info"], m)
<1>1. m.stream = "info" /\ rows' = rows /\ stack' = stack
  BY DEF SaveInfo
<1>2. ~(m.exit /\ db["info"] = <<>>)
  BY <1>1, InfoIsFirst
<1>3. main' = main /\ db' = [db EXCEPT !["info"] = info]
  BY <1>2 DEF SaveInfo
<1>4. m \in Messages
  BY NextMessage
<1>5. "info" \in Tables /\ "event" \in Tables \ {"info"} /\ "breakpoint" \in Tables \ {"info"}
  BY DEF Tables
<1>6. /\ DOMAIN rows = Tables /\ DOMAIN db = Tables
      /\ \A table \in Tables :
            rows[table] \in Seq(RowsOf(table)) /\ db[table] \in Seq(RowsOf(table))
  BY WhatIsStored
<1>7. m \in RowsOf("info")
  BY <1>1, <1>4 DEF RowsOf
<1> HIDE DEF m
<1>8. info \in Seq(RowsOf("info")) /\ info # <<>>
  <2>1. db["info"] \in Seq(RowsOf("info"))
    BY <1>5, <1>6
  <2>2. Append(db["info"], m) \in Seq(RowsOf("info")) /\ Append(db["info"], m) # <<>>
    BY <1>7, <2>1, PushAndPop, AppendProperties
  <2>3. <<m>> \in Seq(RowsOf("info")) /\ <<m>> # <<>>
    BY <1>7
  <2> QED BY <2>2, <2>3
<1> HIDE DEF info
<1>9. /\ DOMAIN db' = Tables /\ db'["info"] = info
      /\ \A table \in Tables \ {"info"} : db'[table] = db[table]
  BY <1>3, <1>5, <1>6
<1>10. \A table \in Tables :
            rows'[table] \in Seq(RowsOf(table)) /\ db'[table] \in Seq(RowsOf(table))
  <2> SUFFICES ASSUME NEW table \in Tables
               PROVE  rows'[table] \in Seq(RowsOf(table)) /\ db'[table] \in Seq(RowsOf(table))
    OBVIOUS
  <2>1. CASE table = "info"
    BY <1>1, <1>6, <1>8, <1>9, <2>1, Zenon
  <2>2. CASE table # "info"
    BY <1>1, <1>6, <1>9, <2>2
  <2> QED BY <2>1, <2>2
<1>11. \A table \in Tables \ {"info"} : Known(table)' = Known(table)
  BY <1>1, <1>3, <1>9 DEF Known
<1>12. Counting'
  <2>1. db'["event"] = db["event"] /\ db'["breakpoint"] = db["breakpoint"]
    BY <1>5, <1>9
  <2> QED BY <1>1, <1>3, <2>1 DEF Inv, Counting
<1>13. Replayed'
  <2>1. PICK H, C :
            /\ History(file, open, calls, H, C) /\ stack = H[Looked]
            /\ Calling(Known("event"), H[Looked], C[Looked])
            /\ Follows(H[Looked], C[Looked], m, H[Looked + 1], C[Looked + 1])
    BY WhatComesNext DEF m
  <2>2. H[Looked + 1] = H[Looked] /\ C[Looked + 1] = C[Looked]
    BY <1>1, <2>1 DEF Follows, IsCall, IsReturn
  <2>3. Looked' = Looked + 1
    BY <1>3, Taken
  <2>4. file' = file /\ open' = open /\ calls' = calls
    BY DEF writerVars
  <2>5. Known("event")' = Known("event")
    BY <1>5, <1>11
  <2>6. stack' = H[Looked'] /\ Calling(Known("event")', H[Looked'], C[Looked'])
    BY <1>1, <2>1, <2>2, <2>3, <2>5
  <2>7. History(file', open', calls', H, C)
    BY <2>1, <2>4
  <2> QED BY <2>6, <2>7 DEF Replayed
<1>14. \A table \in Tables \ {"info"} : table # m.stream /\ (table = m.stream => FALSE)
  BY <1>1
<1> QED BY <1>1, <1>3, <1>6, <1>8, <1>9, <1>10, <1>11, <1>12, <1>13, <1>14, InvWhenTaken DEF m

LEMMA CollectPlainStep ==
    ASSUME Inv, main = "process", batch # <<>>, batch' = Tail(batch), CollectPlain(Head(batch)),
           UNCHANGED <<writerVars, readerVars, queue, hit_count>>
    PROVE  Inv'
<1> DEFINE m == Head(batch)
           table == m.stream
<1>1. /\ table \in {"breakpoint", "allocation"} /\ Collect(m, table)
      /\ main' = main /\ stack' = stack /\ db' = db /\ hit_count' = hit_count
  BY DEF CollectPlain
<1>2. m \in Messages
  BY NextMessage
<1>3. /\ table \in Tables \ {"info"} /\ table # "event" /\ "info" \in Tables
      /\ "event" \in Tables /\ "breakpoint" \in Tables
  BY <1>1 DEF Tables
<1>4. m \in RowsOf(table)
  BY <1>2, <1>3 DEF RowsOf
<1>5. /\ DOMAIN rows' = Tables /\ DOMAIN db' = Tables
      /\ \A other \in Tables :
            rows'[other] \in Seq(RowsOf(other)) /\ db'[other] \in Seq(RowsOf(other))
      /\ \A other \in Tables : table # other =>
            rows'[other] = rows[other] /\ Known(other)' = Known(other)
      /\ rows'[table] = Append(rows[table], m)
  <2> DEFINE x == table
             r == m
  <2>1. x \in Tables /\ r \in RowsOf(x) /\ Collect(r, x)
    BY <1>1, <1>3, <1>4
  <2> HIDE DEF x, r
  <2>2. /\ DOMAIN rows' = Tables /\ DOMAIN db' = Tables
        /\ \A other \in Tables :
              rows'[other] \in Seq(RowsOf(other)) /\ db'[other] \in Seq(RowsOf(other))
        /\ \A other \in Tables : x # other =>
              rows'[other] = rows[other] /\ Known(other)' = Known(other)
        /\ rows'[x] = Append(rows[x], r)
    BY <1>1, <2>1, Collected
  <2> QED BY <2>2 DEF x, r
<1>6. \A other \in Tables \ {"info"} : other = table =>
            \E row \in RowsOf(other) :
                Source(row) = m /\ Known(other)' = Append(Known(other), row)
  <2> SUFFICES ASSUME NEW other \in Tables \ {"info"}, other = table
               PROVE  Source(m) = m /\ Known(other)' = Append(Known(other), m)
    BY <1>4
  <2> DEFINE r == m
  <2>1. other \in Tables /\ r \in RowsOf(other) /\ Collect(r, other)
    BY <1>1, <1>4
  <2>2. Source(m) = m
    BY <1>3 DEF Source
  <2> HIDE DEF r
  <2>3. Known(other)' = Append(Known(other), r)
    BY <1>1, <2>1, Collected
  <2> QED BY <2>2, <2>3 DEF r
<1>7. db'["info"] # <<>>
  BY <1>1, <1>3, InfoIsFirst
<1>8. /\ rows["breakpoint"] \in Seq(RowsOf("breakpoint")) /\ Len(rows["breakpoint"]) \in Nat
      /\ Len(db["breakpoint"]) \in Nat /\ rows["event"] \in Seq(RowsOf("event"))
  BY <1>3, WhatIsStored
<1> HIDE DEF m, table
<1>9. Counting'
  <2>1. rows'["event"] = rows["event"]
    BY <1>3, <1>5
  <2>2. /\ Len(rows'["breakpoint"]) \in Nat
        /\ Len(rows["breakpoint"]) <= Len(rows'["breakpoint"])
    <3>1. CASE table = "breakpoint"
      <4>1. rows'["breakpoint"] = Append(rows["breakpoint"], m) /\ m \in RowsOf("breakpoint")
        BY <1>4, <1>5, <3>1
      <4>2. Len(Append(rows["breakpoint"], m)) = Len(rows["breakpoint"]) + 1
        BY <1>8, <4>1, AppendProperties
      <4> QED BY <1>8, <4>1, <4>2
    <3>2. CASE table # "breakpoint"
      BY <1>3, <1>5, <1>8, <3>2
    <3> QED BY <3>1, <3>2
  <2>3. \A i \in 1 .. Len(rows["event"]) :
            rows["event"][i].bp <= Len(db["breakpoint"]) + Len(rows'["breakpoint"])
    <3> SUFFICES ASSUME NEW i \in 1 .. Len(rows["event"])
                 PROVE  rows["event"][i].bp <= Len(db["breakpoint"]) + Len(rows'["breakpoint"])
      OBVIOUS
    <3>1. rows["event"][i].bp <= Len(db["breakpoint"]) + Len(rows["breakpoint"])
      BY DEF Inv, Counting
    <3>2. rows["event"][i].bp \in Nat
      <4>1. rows["event"][i] \in RowsOf("event")
        BY <1>8, ElementOfSeq
      <4> QED BY <4>1, EventRowShapes
    <3>3. \A x, a, b, c \in Nat : x <= a + b /\ b <= c => x <= a + c
      OBVIOUS
    <3>4. Len(db["breakpoint"]) \in Nat /\ Len(rows["breakpoint"]) \in Nat
      BY <1>8
    <3> QED BY <2>2, <3>1, <3>2, <3>3, <3>4, Zenon
  <2>4. main' \notin {"events", "hits"}
    BY <1>1
  <2>5. /\ hit_count' \in Seq(Nat) /\ Len(hit_count') = Len(db'["breakpoint"])
        /\ \A i \in 1 .. Len(db'["event"]) : db'["event"][i].bp <= Len(db'["breakpoint"])
        /\ \A id \in 1 .. Len(hit_count') : HitsIn(db'["event"], id) = hit_count'[id] + 0
    BY <1>1 DEF Inv, Counting
  <2> QED BY <1>1, <2>1, <2>3, <2>4, <2>5 DEF Counting
<1>10. Replayed'
  <2>1. PICK H, C :
            /\ History(file, open, calls, H, C) /\ stack = H[Looked]
            /\ Calling(Known("event"), H[Looked], C[Looked])
            /\ Follows(H[Looked], C[Looked], m, H[Looked + 1], C[Looked + 1])
    BY WhatComesNext DEF m
  <2>2. H[Looked + 1] = H[Looked] /\ C[Looked + 1] = C[Looked]
    <3>1. m.stream # "event"
      BY <1>3 DEF table
    <3> QED BY <2>1, <3>1 DEF Follows, IsCall, IsReturn
  <2>3. Looked' = Looked + 1
    BY <1>1, Taken
  <2>4. file' = file /\ open' = open /\ calls' = calls
    BY DEF writerVars
  <2>5. Known("event")' = Known("event")
    BY <1>3, <1>5
  <2>6. stack' = H[Looked'] /\ Calling(Known("event")', H[Looked'], C[Looked'])
    BY <1>1, <2>1, <2>2, <2>3, <2>5
  <2>7. History(file', open', calls', H, C)
    BY <2>1, <2>4
  <2> QED BY <2>6, <2>7 DEF Replayed
<1>11. \A other \in Tables \ {"info"} : other # m.stream => Known(other)' = Known(other)
  BY <1>5 DEF table
<1>12. \A other \in Tables \ {"info"} : other = m.stream =>
            \E row \in RowsOf(other) :
                Source(row) = m /\ Known(other)' = Append(Known(other), row)
  BY <1>6 DEF table
<1> QED BY <1>1, <1>5, <1>7, <1>9, <1>10, <1>11, <1>12, InvWhenTaken DEF m

\* An event is of a breakpoint that is known.
LEMMA HitIsKnown ==
    ASSUME Inv, main = "process", batch # <<>>, Head(batch).stream = "event"
    PROVE  Head(batch).bp <= Len(db["breakpoint"]) + Len(rows["breakpoint"])
<1>1. Head(batch) = file[Looked + 1] /\ Looked \in Nat /\ Looked < Len(file)
  BY NextMessage
<1>2. file \in Seq(Messages) /\ HitsKnown(file)
  BY WhatIsWritten DEF Sound
<1>3. Looked + 1 \in 1 .. Len(file) /\ (Looked + 1) - 1 = Looked
  BY <1>1, <1>2
<1>4. file[Looked + 1].bp <= Len(Of(SubSeq(file, 1, (Looked + 1) - 1), "breakpoint"))
  BY <1>1, <1>2, <1>3 DEF HitsKnown
<1>5. "breakpoint" \in Tables \ {"info"}
  BY DEF Tables
<1>6. Sources(Known("breakpoint")) = Of(SubSeq(file, 1, Looked), "breakpoint")
  BY <1>5 DEF Inv, Stored
<1>7. /\ Known("breakpoint") \in Seq(RowsOf("breakpoint"))
      /\ rows["breakpoint"] \in Seq(RowsOf("breakpoint"))
      /\ db["breakpoint"] \in Seq(RowsOf("breakpoint"))
  BY <1>5, WhatIsStored
<1>8. Len(Sources(Known("breakpoint"))) = Len(Known("breakpoint"))
  BY <1>5, <1>7, SourcesType
<1>9. Len(Known("breakpoint")) = Len(db["breakpoint"]) + Len(rows["breakpoint"])
  BY <1>7, ConcatProperties DEF Known
<1> QED BY <1>1, <1>3, <1>4, <1>6, <1>8, <1>9, Zenon

LEMMA EventCollected ==
    ASSUME Inv, main = "process", batch # <<>>, batch' = Tail(batch),
           main' = main, db' = db, hit_count' = hit_count,
           UNCHANGED <<writerVars, readerVars, queue>>,
           Head(batch).stream = "event",
           NEW parent \in 0 .. MaxEvents, Collect(Row(Head(batch), parent), "event"),
           Head(batch).entry.type = "call" => parent = Caller(Head(batch).entry.thread),
           \A c, p, d : Point(stack, c) /\ Follows(stack, c, Head(batch), p, d) => stack' = p
    PROVE  Inv'
<1> DEFINE m == Head(batch)
           row == Row(m, parent)
<1>1. m \in Messages
  BY NextMessage
<1>2. m.entry \in Entries /\ m.bp \in 1 .. MaxBreakpoints /\ m = Event(m.entry, m.bp)
  BY <1>1, EventShapes
<1>3. /\ row \in EventRows /\ row.entry = m.entry /\ row.bp = m.bp /\ row.parent = parent
      /\ row.stream = "event"
  BY <1>2 DEF Row, EventRows
<1>4. Source(row) = m
  BY <1>2, <1>3 DEF Source
<1>5. "event" \in Tables \ {"info"} /\ "breakpoint" \in Tables /\ "info" \in Tables
  BY DEF Tables
<1>6. row \in RowsOf("event") /\ Collect(row, "event")
  BY <1>3 DEF RowsOf
<1> HIDE DEF row
<1>7. /\ DOMAIN rows' = Tables /\ DOMAIN db' = Tables
      /\ \A other \in Tables :
            rows'[other] \in Seq(RowsOf(other)) /\ db'[other] \in Seq(RowsOf(other))
      /\ \A other \in Tables : "event" # other =>
            rows'[other] = rows[other] /\ Known(other)' = Known(other)
      /\ rows'["event"] = Append(rows["event"], row)
      /\ Known("event")' = Append(Known("event"), row)
  BY <1>5, <1>6, Collected
<1>8. db'["info"] # <<>>
  BY InfoIsFirst
<1>9. /\ rows["event"] \in Seq(RowsOf("event")) /\ Known("event") \in Seq(EventRows)
  BY <1>5, WhatIsStored DEF RowsOf
<1> HIDE DEF m
<1>10. Counting'
  <2>1. rows'["breakpoint"] = rows["breakpoint"]
    BY <1>5, <1>7
  <2>2. row.bp <= Len(db["breakpoint"]) + Len(rows["breakpoint"])
    BY <1>3, HitIsKnown DEF m
  <2> DEFINE new == rows'["event"]
             old == rows["event"]
  <2>3. /\ Len(old) \in Nat /\ Len(new) = Len(old) + 1 /\ new[Len(old) + 1] = row
        /\ \A i \in 1 .. Len(old) : new[i] = old[i]
    BY <1>6, <1>7, <1>9, AppendProperties
  <2>4. \A i \in 1 .. Len(old) : old[i].bp <= Len(db["breakpoint"]) + Len(rows["breakpoint"])
    BY DEF Inv, Counting
  <2> HIDE DEF new, old
  <2>5. \A i \in 1 .. Len(new) : new[i].bp <= Len(db["breakpoint"]) + Len(rows["breakpoint"])
    <3> SUFFICES ASSUME NEW i \in 1 .. Len(old) + 1
                 PROVE  new[i].bp <= Len(db["breakpoint"]) + Len(rows["breakpoint"])
      BY <2>3
    <3>1. CASE i = Len(old) + 1
      BY <2>2, <2>3, <3>1, Zenon
    <3>2. CASE i \in 1 .. Len(old)
      BY <2>3, <2>4, <3>2, Zenon
    <3>3. \A n \in Nat : \A k \in 1 .. n + 1 : k = n + 1 \/ k \in 1 .. n
      OBVIOUS
    <3> QED BY <2>3, <3>1, <3>2, <3>3, Zenon
  <2>6. main' \notin {"events", "hits"}
    OBVIOUS
  <2>7. /\ hit_count' \in Seq(Nat) /\ Len(hit_count') = Len(db'["breakpoint"])
        /\ \A i \in 1 .. Len(db'["event"]) : db'["event"][i].bp <= Len(db'["breakpoint"])
        /\ \A id \in 1 .. Len(hit_count') : HitsIn(db'["event"], id) = hit_count'[id] + 0
    BY DEF Inv, Counting
  <2>8. \A i \in 1 .. Len(rows'["event"]) :
            rows'["event"][i].bp <= Len(db'["breakpoint"]) + Len(rows'["breakpoint"])
    BY <2>1, <2>5 DEF new
  <2> QED BY <2>6, <2>7, <2>8 DEF Counting
<1>11. Replayed'
  <2>1. PICK H, C :
            /\ History(file, open, calls, H, C) /\ stack = H[Looked]
            /\ Calling(Known("event"), H[Looked], C[Looked]) /\ Point(H[Looked], C[Looked])
            /\ Follows(H[Looked], C[Looked], m, H[Looked + 1], C[Looked + 1])
    BY WhatComesNext DEF m
  <2>2. stack' = H[Looked + 1]
    BY <2>1 DEF m
  <2>3. Looked' = Looked + 1
    BY Taken
  <2>4. file' = file /\ open' = open /\ calls' = calls
    BY DEF writerVars
  <2>5. m.stream = "event"
    BY DEF m
  <2>6. row.entry.type = "call" =>
            row.parent = IF H[Looked][row.entry.thread] = <<>> THEN 0
                         ELSE H[Looked][row.entry.thread][Len(H[Looked][row.entry.thread])]
    BY <1>3, <2>1 DEF Caller, m
  <2> DEFINE s == Known("event")
             o == H[Looked]
             c == C[Looked]
             p == H[Looked + 1]
             d == C[Looked + 1]
  <2>7. /\ s \in Seq(EventRows) /\ Point(o, c) /\ Calling(s, o, c) /\ Follows(o, c, m, p, d)
        /\ row.entry.type = "call" =>
                row.parent = IF o[row.entry.thread] = <<>> THEN 0
                             ELSE o[row.entry.thread][Len(o[row.entry.thread])]
    BY <1>9, <2>1, <2>6
  <2> HIDE DEF s, o, c, p, d
  <2>8. Calling(Append(s, row), p, d)
    BY <1>1, <1>3, <2>5, <2>7, CallingNext
  <2>9. stack' = H[Looked'] /\ Calling(Known("event")', H[Looked'], C[Looked'])
    <3>1. Known("event")' = Append(s, row)
      BY <1>7 DEF s
    <3>2. H[Looked'] = p /\ C[Looked'] = d
      BY <2>3 DEF p, d
    <3> QED BY <2>2, <2>8, <3>1, <3>2, Zenon DEF p
  <2>10. History(file', open', calls', H, C)
    BY <2>1, <2>4
  <2> QED BY <2>9, <2>10 DEF Replayed
<1>12. \A other \in Tables \ {"info"} : other # m.stream => Known(other)' = Known(other)
  BY <1>7 DEF m
<1>13. \A other \in Tables \ {"info"} : other = m.stream =>
            \E r \in RowsOf(other) : Source(r) = m /\ Known(other)' = Append(Known(other), r)
  BY <1>4, <1>6, <1>7 DEF m
<1> QED BY <1>7, <1>8, <1>10, <1>11, <1>12, <1>13, InvWhenTaken DEF m

LEMMA CollectCallStep ==
    ASSUME Inv, main = "process", batch # <<>>, batch' = Tail(batch), CollectCall(Head(batch)),
           UNCHANGED <<writerVars, readerVars, queue, hit_count>>
    PROVE  Inv'
<1> DEFINE m == Head(batch)
           t == m.entry.thread
           parent == Caller(t)
<1>1. /\ m.stream = "event" /\ m.entry.type = "call" /\ Collect(Row(m, parent), "event")
      /\ stack' = [stack EXCEPT ![t] = Append(@, m.entry.frame_id)]
      /\ main' = main /\ db' = db /\ hit_count' = hit_count
  BY DEF CollectCall
<1>2. t \in Threads
  <2>1. m \in Messages
    BY NextMessage
  <2>2. m.entry \in Entries
    BY <1>1, <2>1, EventShapes
  <2> QED BY <2>2 DEF Entries
<1>3. parent \in 0 .. MaxEvents
  <2>1. PICK H, C : stack = H[Looked] /\ Point(H[Looked], C[Looked])
    BY WhatComesNext
  <2>2. stack[t] \in Seq(1 .. MaxEvents)
    BY <1>2, <2>1, PointStacks
  <2>3. MaxEvents \in Nat
    BY BoundsAssumption
  <2>4. stack[t] # <<>> => stack[t][Len(stack[t])] \in 1 .. MaxEvents
    BY <2>2, TopType
  <2> HIDE DEF t
  <2> QED BY <2>3, <2>4 DEF Caller
<1>4. \A c, p, d : Point(stack, c) /\ Follows(stack, c, m, p, d) => stack' = p
  BY <1>1 DEF Follows, IsCall, IsReturn
<1> HIDE DEF parent
<1>5. m.entry.type = "call" => parent = Caller(m.entry.thread)
  BY DEF parent
<1> QED BY <1>1, <1>3, <1>4, <1>5, EventCollected

LEMMA CollectReturnStep ==
    ASSUME Inv, main = "process", batch # <<>>, batch' = Tail(batch), CollectReturn(Head(batch)),
           UNCHANGED <<writerVars, readerVars, queue, hit_count>>
    PROVE  Inv'
<1> DEFINE m == Head(batch)
           t == m.entry.thread
<1>1. m.stream = "event" /\ m.entry.type = "return"
  BY DEF CollectReturn
<1>2. PICK H, C : /\ stack = H[Looked] /\ Point(H[Looked], C[Looked])
                  /\ Follows(H[Looked], C[Looked], m, H[Looked + 1], C[Looked + 1])
  BY WhatComesNext
<1>3. ~(stack[t] = <<>> \/ Caller(t) # m.entry.frame_id)
  BY <1>1, <1>2 DEF Follows, IsCall, IsReturn, Caller
<1>4. /\ stack' = [stack EXCEPT ![t] = SubSeq(@, 1, Len(@) - 1)] /\ Collect(Row(m, 0), "event")
      /\ main' = main /\ db' = db /\ hit_count' = hit_count
  BY <1>3 DEF CollectReturn, Popped
<1>5. \A c, p, d : Point(stack, c) /\ Follows(stack, c, m, p, d) => stack' = p
  BY <1>1, <1>4 DEF Follows, IsCall, IsReturn
<1>6. 0 \in 0 .. MaxEvents
  BY BoundsAssumption
<1>7. m.entry.type = "call" => 0 = Caller(m.entry.thread)
  BY <1>1
<1> QED BY <1>1, <1>4, <1>5, <1>6, <1>7, EventCollected

LEMMA CollectBreakpointStep ==
    ASSUME Inv, main = "process", batch # <<>>, batch' = Tail(batch), CollectBreakpoint(Head(batch)),
           UNCHANGED <<writerVars, readerVars, queue, hit_count>>
    PROVE  Inv'
<1> DEFINE m == Head(batch)
<1>1. /\ m.stream = "event" /\ m.entry.type = "breakpoint" /\ Collect(Row(m, 0), "event")
      /\ main' = main /\ stack' = stack /\ db' = db /\ hit_count' = hit_count
  BY DEF CollectBreakpoint
<1>2. \A c, p, d : Point(stack, c) /\ Follows(stack, c, m, p, d) => stack' = p
  BY <1>1 DEF Follows, IsCall, IsReturn
<1>3. 0 \in 0 .. MaxEvents
  BY BoundsAssumption
<1>4. m.entry.type = "call" => 0 = Caller(m.entry.thread)
  BY <1>1
<1> QED BY <1>1, <1>2, <1>3, <1>4, EventCollected

LEMMA ProcessMessageStep == Inv /\ ProcessMessage => Inv'
<1> SUFFICES ASSUME Inv, ProcessMessage PROVE Inv'
  OBVIOUS
<1>1. /\ main = "process" /\ batch # <<>> /\ batch' = Tail(batch)
      /\ UNCHANGED <<writerVars, readerVars, queue, hit_count>>
  BY DEF ProcessMessage, Take
<1>2. \/ SaveInfo(Head(batch)) \/ CollectPlain(Head(batch)) \/ CollectCall(Head(batch))
      \/ CollectReturn(Head(batch)) \/ CollectBreakpoint(Head(batch))
  BY DEF ProcessMessage
<1> QED BY <1>1, <1>2, SaveInfoStep, CollectPlainStep, CollectCallStep, CollectReturnStep,
           CollectBreakpointStep

-----------------------------------------------------------------------------
(***************************************************************************)
(* The invariant is one.                                                   *)
(***************************************************************************)
\* The file at first.
LEMMA FirstFile ==
    ASSUME Init
    PROVE  /\ file \in Seq(Messages) /\ Len(file) = 2 /\ file[1] = Info(FALSE) /\ file[2] = Bp(1)
           /\ \A table : Of(<<>>, table) = <<>>
           /\ Sound(file, 0)
<1>1. file = <<Info(FALSE), Bp(1)>>
  BY DEF Init
<1>2. 1 \in 1 .. MaxBreakpoints /\ MaxEvents \in Nat /\ MaxBreakpoints \in Nat /\ 1 <= MaxBreakpoints
  BY BoundsAssumption
<1>3. Info(FALSE) \in Messages /\ Bp(1) \in Messages
  BY <1>2, PlainMessages
<1>4. file \in Seq(Messages) /\ Len(file) = 2 /\ file[1] = Info(FALSE) /\ file[2] = Bp(1)
  <2>1. \A S : \A x, y \in S :
            <<x, y>> \in Seq(S) /\ Len(<<x, y>>) = 2 /\ <<x, y>>[1] = x /\ <<x, y>>[2] = y
    OBVIOUS
  <2> QED BY <1>1, <1>3, <2>1, Zenon
<1>5. \A table : Of(<<>>, table) = <<>>
  BY OfEmpty
<1>6. SubSeq(file, 1, 0) = <<>> /\ SubSeq(file, 1, 2) = file
  BY <1>4
<1> DEFINE P(n) == SubSeq(file, 1, n)
<1>7. \A table : /\ Of(P(1), table) = IF table = "info" THEN Append(<<>>, file[1]) ELSE <<>>
                 /\ Of(P(2), table) = IF table = "breakpoint" THEN Append(Of(P(1), table), file[2])
                                      ELSE Of(P(1), table)
  <2> SUFFICES ASSUME NEW table
               PROVE  /\ Of(P(1), table) = IF table = "info" THEN Append(<<>>, file[1]) ELSE <<>>
                      /\ Of(P(2), table) =
                            IF table = "breakpoint" THEN Append(Of(P(1), table), file[2])
                            ELSE Of(P(1), table)
    OBVIOUS
  <2>1. 0 \in Nat /\ 0 < Len(file) /\ 1 \in Nat /\ 1 < Len(file) /\ 0 + 1 = 1 /\ 1 + 1 = 2
    BY <1>4
  <2>2. /\ Of(P(0 + 1), table) = IF file[0 + 1].stream = table THEN Append(Of(P(0), table), file[0 + 1])
                                 ELSE Of(P(0), table)
        /\ Of(P(1 + 1), table) = IF file[1 + 1].stream = table THEN Append(Of(P(1), table), file[1 + 1])
                                 ELSE Of(P(1), table)
    <3>1. \A n \in Nat : n < Len(file) =>
                Of(P(n + 1), table) = IF file[n + 1].stream = table
                                      THEN Append(Of(P(n), table), file[n + 1])
                                      ELSE Of(P(n), table)
      BY <1>4, OfNext
    <3> HIDE DEF P
    <3> QED BY <2>1, <3>1, Zenon
  <2>3. file[1].stream = "info" /\ file[2].stream = "breakpoint"
    BY <1>4, PlainStreams
  <2>4. Of(P(0), table) = <<>>
    BY <1>5, <1>6
  <2> HIDE DEF P
  <2> QED BY <2>1, <2>2, <2>3, <2>4
<1>8. Len(Append(<<>>, file[2])) = 1
  OBVIOUS
<1>9. Of(file, "event") = <<>> /\ Of(file, "breakpoint") = Append(<<>>, file[2])
  BY <1>6, <1>7
<1>10. HitsKnown(file)
  <2> SUFFICES ASSUME NEW k \in 1 .. Len(file), file[k].stream = "event" PROVE FALSE
    BY DEF HitsKnown
  <2>1. k = 1 \/ k = 2
    BY <1>4
  <2> QED BY <1>4, <2>1, PlainStreams
<1> HIDE DEF P
<1>11. Sound(file, 0)
  BY <1>2, <1>4, <1>8, <1>9, <1>10 DEF Sound
<1> QED BY <1>4, <1>5, <1>11

LEMMA InitInv == Init => Inv
<1> SUFFICES ASSUME Init PROVE Inv
  OBVIOUS
<1>1. /\ log = <<>> /\ calls = [t \in Threads |-> 0] /\ open = [t \in Threads |-> <<>>]
      /\ read = 0 /\ reader = "next" /\ queue = <<>> /\ main = "is_empty" /\ batch = <<>>
      /\ rows = NoRows /\ stack = open /\ db = NoRows /\ hit_count = <<>>
  BY DEF Init, Debugger!Init
<1>2. /\ file \in Seq(Messages) /\ Len(file) = 2 /\ file[1] = Info(FALSE) /\ file[2] = Bp(1)
      /\ \A table : Of(<<>>, table) = <<>>
      /\ Sound(file, 0)
  BY FirstFile
<1>3. MaxEvents \in Nat /\ 0 <= QueueSize
  BY BoundsAssumption
<1>4. Written
  <2>1. Len(log) = 0 /\ log \in Seq(Entries)
    BY <1>1
  <2> QED BY <1>1, <1>2, <2>1 DEF Written
<1>5. InFlight = <<>> /\ Len(InFlight) = 0
  <2>1. InFlight = (<<>> \o <<>>) \o <<>>
    BY <1>1 DEF InFlight
  <2> QED BY <2>1
<1>6. Looked = 0
  <2>1. read = 0 /\ Len(InFlight) = 0
    BY <1>1, <1>5
  <2> QED BY <2>1 DEF Looked
<1>7. Flowing
  <2>1. <<>> \in Seq(Messages) /\ Len(<<>>) = 0
    OBVIOUS
  <2>2. read \in 0 .. Len(file)
    BY <1>1, <1>2
  <2>3. \A i \in 1 .. Len(InFlight) : FALSE
    BY <1>5
  <2> QED BY <1>1, <1>3, <1>5, <2>1, <2>2, <2>3 DEF Flowing
<1>8. \A table \in Tables : rows[table] = <<>> /\ db[table] = <<>> /\ Known(table) = <<>>
  <2> SUFFICES ASSUME NEW table \in Tables
               PROVE  rows[table] = <<>> /\ db[table] = <<>> /\ Known(table) = <<>>
    OBVIOUS
  <2>1. rows[table] = <<>> /\ db[table] = <<>>
    BY <1>1 DEF NoRows
  <2>2. Known(table) = <<>> \o <<>>
    BY <1>1, <2>1 DEF Known
  <2> QED BY <2>1, <2>2
<1>9. SubSeq(file, 1, 0) = <<>>
  BY <1>2
<1>10. Stored
  <2>1. \A table \in Tables :
            rows[table] \in Seq(RowsOf(table)) /\ db[table] \in Seq(RowsOf(table))
    <3>1. \A S : <<>> \in Seq(S)
      OBVIOUS
    <3> QED BY <1>8, <3>1, Zenon
  <2>2. Sources(<<>>) = <<>>
    BY DEF Sources
  <2>3. \A table \in Tables \ {"info"} : Sources(Known(table)) = Of(SubSeq(file, 1, Looked), table)
    BY <1>2, <1>6, <1>8, <1>9, <2>2
  <2>4. DOMAIN rows = Tables /\ DOMAIN db = Tables
    BY <1>1 DEF NoRows
  <2> QED BY <1>6, <2>1, <2>3, <2>4 DEF Stored
<1>11. "event" \in Tables /\ "breakpoint" \in Tables
  BY DEF Tables
<1>12. Counting
  <2>1. Len(db["event"]) = 0 /\ Len(rows["event"]) = 0 /\ Len(db["breakpoint"]) = 0
    BY <1>8, <1>11
  <2>2. hit_count \in Seq(Nat) /\ Len(hit_count) = 0
    BY <1>1
  <2>3. main \notin {"events", "hits"}
    BY <1>1
  <2>4. 1 .. 0 = {}
    OBVIOUS
  <2> QED BY <2>1, <2>2, <2>3, <2>4 DEF Counting
<1>13. Replayed
  <2> DEFINE H == [k \in 0 .. 2 |-> open]
             C == [k \in 0 .. 2 |-> calls]
  <2>1. Point(open, calls)
    <3>1. <<>> \in Seq(1 .. MaxEvents) /\ Len(<<>>) = 0 /\ 0 \in 0 .. MaxEvents
      BY <1>3
    <3>2. open \in Stacks /\ calls \in [Threads -> 0 .. MaxEvents]
      BY <1>1, <3>1 DEF Stacks
    <3>3. \A t \in Threads : Len(open[t]) = 0
      BY <1>1, <3>1
    <3> QED BY <3>2, <3>3 DEF Point, Rising
  <2>2. \A k \in 0 .. 2 : H[k] = open /\ C[k] = calls
    OBVIOUS
  <2>3. H \in [0 .. 2 -> Stacks] /\ C \in [0 .. 2 -> [Threads -> 0 .. MaxEvents]]
    BY <2>1 DEF Point
  <2> HIDE DEF H, C
  <2>4. ASSUME NEW k \in 1 .. 2 PROVE Follows(H[k - 1], C[k - 1], file[k], H[k], C[k])
    <3>1. k \in 0 .. 2 /\ k - 1 \in 0 .. 2
      OBVIOUS
    <3>2. ~IsCall(file[k]) /\ ~IsReturn(file[k])
      <4>1. k = 1 \/ k = 2
        OBVIOUS
      <4>2. file[1].stream = "info" /\ file[2].stream = "breakpoint"
        BY <1>2, PlainStreams
      <4>3. file[k].stream # "event"
        BY <4>1, <4>2
      <4> QED BY <4>3 DEF IsCall, IsReturn
    <3> QED BY <2>2, <3>1, <3>2 DEF Follows
  <2>5. History(file, open, calls, H, C)
    BY <1>2, <2>1, <2>2, <2>3, <2>4 DEF History
  <2>6. Known("event") = <<>> /\ Len(Known("event")) = 0
    BY <1>8, <1>11
  <2>7. Calling(Known("event"), open, calls)
    <3>1. \A t \in Threads : Len(open[t]) = 0
      BY <1>1
    <3>2. 1 .. 0 = {}
      OBVIOUS
    <3> QED BY <2>6, <3>1, <3>2 DEF Calling
  <2>8. H[Looked] = open /\ C[Looked] = calls
    BY <1>6, <2>2
  <2> QED BY <1>1, <2>5, <2>7, <2>8 DEF Replayed
<1> QED BY <1>4, <1>7, <1>10, <1>12, <1>13 DEF Inv

LEMMA NextInv == Inv /\ [Next]_vars => Inv'
<1> SUFFICES ASSUME Inv, [Next]_vars PROVE Inv'
  OBVIOUS
<1>1. CASE Write
  BY <1>1, WriteStep
<1>2. CASE ReadNext
  BY <1>2, ReadNextStep
<1>3. CASE Send
  BY <1>3, SendStep
<1>4. CASE Loop
  <2>1. CASE IsEmpty \/ IsDisconnected \/ Drain \/ WaitForMore \/ End
    BY <2>1, MoveSteps
  <2>2. CASE ProcessMessage
    BY <2>2, ProcessMessageStep
  <2>3. CASE InsertBreakpoints
    BY <2>3, InsertBreakpointsStep
  <2>4. CASE InsertEvents
    BY <2>4, InsertEventsStep
  <2>5. CASE IncHitCount
    BY <2>5, IncHitCountStep
  <2>6. CASE InsertAllocations
    BY <2>6, InsertAllocationsStep
  <2> QED BY <1>4, <2>1, <2>2, <2>3, <2>4, <2>5, <2>6 DEF Loop
<1>5. CASE UNCHANGED vars
  <2>1. UNCHANGED writerVars /\ UNCHANGED <<rows, stack, db, hit_count>> /\ main' = main
    BY <1>5 DEF vars, loopVars
  <2>2. /\ file' = file /\ read' = read /\ reader' = reader /\ queue' = queue
        /\ batch' = batch
    BY <1>5 DEF vars, writerVars, readerVars, loopVars
  <2>3. InFlight' = InFlight /\ Looked' = Looked
    BY <2>2 DEF InFlight, Looked
  <2>4. Flowing'
    BY <2>1, <2>2, <2>3 DEF Inv, Flowing
  <2> QED BY <2>1, <2>3, <2>4, InvWhenMoved
<1> QED BY <1>1, <1>2, <1>3, <1>4, <1>5 DEF Next, Done

LEMMA InvAlways == Spec => []Inv
<1> QED BY InitInv, NextInv, PTL DEF Spec

-----------------------------------------------------------------------------
(***************************************************************************)
(* What the invariant says of the database.                                *)
(***************************************************************************)
\* The rows of a table are the first of those known.
LEMMA RowsAreKnown ==
    ASSUME Inv, NEW table \in Tables
    PROVE  /\ db[table] \in Seq(RowsOf(table)) /\ Known(table) \in Seq(RowsOf(table))
           /\ Len(db[table]) \in Nat /\ Len(Known(table)) \in Nat
           /\ Len(db[table]) <= Len(Known(table))
           /\ \A i \in 1 .. Len(db[table]) : Known(table)[i] = db[table][i]
<1> DEFINE more == IF main = "hits" /\ table = "event" THEN <<>> ELSE rows[table]
<1>1. /\ db[table] \in Seq(RowsOf(table)) /\ Known(table) \in Seq(RowsOf(table))
      /\ rows[table] \in Seq(RowsOf(table))
  BY WhatIsStored
<1>2. more \in Seq(RowsOf(table))
  <2>1. <<>> \in Seq(RowsOf(table))
    OBVIOUS
  <2> QED BY <1>1, <2>1
<1>3. Known(table) = db[table] \o more
  BY DEF Known
<1> HIDE DEF more
<1>4. /\ Len(db[table] \o more) = Len(db[table]) + Len(more)
      /\ \A i \in 1 .. Len(db[table]) + Len(more) :
            (db[table] \o more)[i] = IF i <= Len(db[table]) THEN db[table][i]
                                     ELSE more[i - Len(db[table])]
  BY <1>1, <1>2, ConcatProperties
<1>5. Len(db[table]) \in Nat /\ Len(more) \in Nat
  BY <1>1, <1>2, LenProperties
<1> DEFINE a == Len(db[table])
           b == Len(more)
<1>6. a \in Nat /\ b \in Nat /\ Len(Known(table)) = a + b
  BY <1>3, <1>4, <1>5, Zenon
<1>7. ASSUME NEW i \in 1 .. a PROVE Known(table)[i] = db[table][i]
  <2> HIDE DEF a, b
  <2>1. i \in 1 .. a + b /\ i <= a
    BY <1>6
  <2> QED BY <1>3, <1>4, <2>1, Zenon DEF a, b
<1> HIDE DEF a, b
<1>8. a <= Len(Known(table)) /\ Len(Known(table)) \in Nat
  BY <1>6
<1> QED BY <1>1, <1>5, <1>7, <1>8 DEF a

\* No more events in the database than the debugger has logged.
LEMMA EventsAreLogged ==
    ASSUME Inv
    PROVE  Len(db["event"]) <= MaxEvents /\ Len(db["event"]) \in Nat /\ MaxEvents \in Nat
<1>1. "event" \in Tables \ {"info"}
  BY DEF Tables
<1>2. /\ Len(db["event"]) <= Len(Known("event")) /\ Len(db["event"]) \in Nat
      /\ Known("event") \in Seq(RowsOf("event"))
  BY <1>1, RowsAreKnown
<1>3. Sources(Known("event")) = Of(SubSeq(file, 1, Looked), "event")
  BY <1>1 DEF Inv, Stored
<1>4. Len(Sources(Known("event"))) = Len(Known("event"))
  BY <1>1, <1>2, SourcesType
<1>5. file \in Seq(Messages) /\ Looked \in 0 .. Len(file)
  BY WhatIsWritten, LookedAt DEF Inv
<1>6. Len(Of(SubSeq(file, 1, Looked), "event")) <= Len(Of(file, "event"))
  BY <1>5, OfGrows
<1>7. Len(Of(file, "event")) = Len(log) /\ Len(log) \in 0 .. MaxEvents /\ MaxEvents \in Nat
  BY WhatIsWritten DEF Sound
<1> DEFINE a == Len(db["event"])
           k == Len(Known("event"))
           l == Len(log)
<1>8. a <= k /\ k <= l /\ a \in Nat /\ k \in Nat /\ l \in 0 .. MaxEvents /\ MaxEvents \in Nat
  <2>1. k \in Nat
    BY <1>2, LenProperties
  <2>2. k <= l
    BY <1>3, <1>4, <1>6, <1>7, Zenon
  <2> QED BY <1>2, <1>7, <2>1, <2>2
<1> HIDE DEF a, k, l
<1>9. a <= MaxEvents
  BY <1>8
<1> QED BY <1>8, <1>9 DEF a

LEMMA InvTypes == Inv => TypeOK
<1> SUFFICES ASSUME Inv PROVE TypeOK
  OBVIOUS
<1>1. file \in Seq(Messages)
  BY WhatIsWritten
<1>2. stack \in [Threads -> Seq(1 .. MaxEvents)]
  <2>1. PICK H, C : History(file, open, calls, H, C) /\ stack = H[Looked]
    BY DEF Inv, Replayed
  <2>2. Looked \in 0 .. Len(file)
    BY <1>1, LookedAt DEF Inv
  <2>3. Point(H[Looked], C[Looked])
    BY <2>1, <2>2 DEF History
  <2> QED BY <2>1, <2>3 DEF Point, Stacks
<1>3. hit_count \in Seq(0 .. MaxEvents)
  <2>1. hit_count \in Seq(Nat)
    BY DEF Inv, Counting
  <2>2. ASSUME NEW id \in 1 .. Len(hit_count) PROVE hit_count[id] \in 0 .. MaxEvents
    <3>1. hit_count[id] \in Nat
      BY <2>1, ElementOfSeq
    <3>2. "event" \in Tables
      BY DEF Tables
    <3>3. db["event"] \in Seq(RowsOf("event")) /\ rows["event"] \in Seq(RowsOf("event"))
      BY <3>2, WhatIsStored
    <3>4. HitsIn(db["event"], id) \in 0 .. Len(db["event"]) /\ HitsIn(rows["event"], id) \in Nat
      BY <3>3, HitsType
    <3>5. HitsIn(db["event"], id) =
                hit_count[id] + (IF main = "hits" THEN HitsIn(rows["event"], id) ELSE 0)
      BY DEF Inv, Counting
    <3>6. Len(db["event"]) <= MaxEvents /\ Len(db["event"]) \in Nat /\ MaxEvents \in Nat
      BY EventsAreLogged
    <3> DEFINE h == HitsIn(db["event"], id)
               w == HitsIn(rows["event"], id)
               n == Len(db["event"])
    <3> HIDE DEF h, w, n
    <3>7. /\ h \in 0 .. n /\ w \in Nat /\ n <= MaxEvents /\ n \in Nat /\ MaxEvents \in Nat
          /\ h = hit_count[id] + (IF main = "hits" THEN w ELSE 0)
      BY <3>4, <3>5, <3>6 DEF h, w, n
    <3> QED BY <3>1, <3>7
  <2>3. \A S, T : \A s \in Seq(S) : (\A i \in 1 .. Len(s) : s[i] \in T) => s \in Seq(T)
    OBVIOUS
  <2> QED BY <2>1, <2>2, <2>3
<1>4. Flowing /\ DOMAIN rows = Tables /\ DOMAIN db = Tables
  BY DEF Inv, Stored
<1> QED BY <1>1, <1>2, <1>3, <1>4 DEF TypeOK, Flowing

LEMMA InvNothingLost == Inv => NothingLostOrReordered
<1> SUFFICES ASSUME Inv, NEW table \in Tables \ {"info"}
             PROVE  Indexed(table) = Of(SubSeq(file, 1, read), table)
  BY DEF NothingLostOrReordered
<1> DEFINE done == SubSeq(file, 1, Looked)
<1>1. /\ file \in Seq(Messages) /\ InFlight \in Seq(Messages) /\ Len(InFlight) \in Nat
      /\ read \in Nat /\ Looked \in 0 .. read /\ Looked \in 0 .. Len(file)
      /\ read = Looked + Len(InFlight) /\ read \in 0 .. Len(file)
  BY WhatIsWritten, LookedAt DEF Inv, Flowing
<1>2. \A i \in 1 .. Len(InFlight) : InFlight[i] = file[Looked + i]
  BY DEF Inv, Flowing
<1>3. Indexed(table) = Sources(Known(table)) \o Of(InFlight, table)
  BY DEF Indexed, Sources, Known
<1>4. Sources(Known(table)) = Of(done, table)
  BY DEF Inv, Stored
<1>5. done \in Seq(Messages) /\ Len(done) = Looked /\ \A i \in 1 .. Looked : done[i] = file[i]
  BY <1>1, PrefixProperties
<1> HIDE DEF done
<1>6. Of(done \o InFlight, table) = Of(done, table) \o Of(InFlight, table)
  BY <1>1, <1>5, OfConcat
<1>7. done \o InFlight = SubSeq(file, 1, read)
  <2> DEFINE n == Len(InFlight)
  <2>1. /\ done \o InFlight \in Seq(Messages) /\ Len(done \o InFlight) = Looked + n
        /\ \A i \in 1 .. Looked + n :
            (done \o InFlight)[i] = IF i <= Looked THEN done[i] ELSE InFlight[i - Looked]
    BY <1>1, <1>5, ConcatProperties
  <2>2. /\ SubSeq(file, 1, read) \in Seq(Messages) /\ Len(SubSeq(file, 1, read)) = read
        /\ \A i \in 1 .. read : SubSeq(file, 1, read)[i] = file[i]
    BY <1>1, PrefixProperties
  <2>3. n \in Nat /\ Looked \in Nat /\ read = Looked + n
    BY <1>1
  <2> HIDE DEF n
  <2>4. ASSUME NEW i \in 1 .. Looked + n PROVE (done \o InFlight)[i] = file[i]
    <3>1. CASE i <= Looked
      <4>1. i \in 1 .. Looked
        BY <2>3, <3>1
      <4> QED BY <1>5, <2>1, <3>1, <4>1, Zenon
    <3>2. CASE ~(i <= Looked)
      <4>1. i - Looked \in 1 .. n /\ Looked + (i - Looked) = i
        BY <2>3, <3>2
      <4>2. InFlight[i - Looked] = file[Looked + (i - Looked)]
        BY <1>2, <4>1 DEF n
      <4> QED BY <2>1, <3>2, <4>1, <4>2, Zenon
    <3> QED BY <3>1, <3>2
  <2>5. \A i \in 1 .. read : (done \o InFlight)[i] = SubSeq(file, 1, read)[i]
    BY <2>2, <2>3, <2>4, Zenon
  <2>6. Len(done \o InFlight) = read
    BY <2>1, <2>3, Zenon
  <2> HIDE DEF InFlight
  <2> QED BY <2>1, <2>2, <2>5, <2>6, SeqEqual
<1> QED BY <1>3, <1>4, <1>6, <1>7, Zenon

LEMMA InvHitCounts == Inv => HitCountsMatch
<1> SUFFICES ASSUME Inv, main # "hits", NEW id \in 1 .. MaxBreakpoints
             PROVE  HitsIn(db["event"], id) = IF id \in DOMAIN hit_count THEN hit_count[id] ELSE 0
  BY DEF HitCountsMatch
<1>1. /\ hit_count \in Seq(Nat) /\ Len(hit_count) = Len(db["breakpoint"])
      /\ \A i \in 1 .. Len(db["event"]) : db["event"][i].bp <= Len(db["breakpoint"])
      /\ \A k \in 1 .. Len(hit_count) : HitsIn(db["event"], k) = hit_count[k] + 0
  BY DEF Inv, Counting
<1>2. DOMAIN hit_count = 1 .. Len(hit_count) /\ Len(hit_count) \in Nat
  BY <1>1
<1>3. CASE id \in 1 .. Len(hit_count)
  <2>1. hit_count[id] \in Nat
    BY <1>1, <1>3, ElementOfSeq
  <2> QED BY <1>1, <1>2, <1>3, <2>1
<1>4. CASE id \notin 1 .. Len(hit_count)
  <2>1. "event" \in Tables
    BY DEF Tables
  <2>2. db["event"] \in Seq(RowsOf("event"))
    BY <2>1, WhatIsStored
  <2>3. \A i \in 1 .. Len(db["event"]) : db["event"][i].bp \in Nat
    <3>1. \A i \in 1 .. Len(db["event"]) : db["event"][i] \in RowsOf("event")
      BY <2>2, ElementOfSeq
    <3>2. \A row \in RowsOf("event") : row.bp \in Nat
      BY EventRowShapes
    <3> QED BY <3>1, <3>2, Zenon
  <2>4. \A i \in 1 .. Len(db["event"]) : db["event"][i].bp # id
    <3> SUFFICES ASSUME NEW i \in 1 .. Len(db["event"]) PROVE db["event"][i].bp # id
      OBVIOUS
    <3>1. db["event"][i].bp \in Nat /\ db["event"][i].bp <= Len(hit_count)
      BY <1>1, <2>3
    <3>2. id \in Nat /\ id > Len(hit_count)
      BY <1>2, <1>4
    <3> QED BY <1>2, <3>1, <3>2
  <2>5. HitsIn(db["event"], id) = 0
    BY <2>2, <2>4, HitsNone
  <2> QED BY <1>2, <1>4, <2>5
<1> QED BY <1>3, <1>4

LEMMA InvParents == Inv => ParentsAreCallers
<1> SUFFICES ASSUME Inv, NEW i \in DOMAIN db["event"], db["event"][i].entry.type = "call"
             PROVE  db["event"][i].parent = CallerInLog(db["event"], i)
  BY DEF ParentsAreCallers
<1> DEFINE s == Known("event")
           e == db["event"]
           t == e[i].entry.thread
<1>1. "event" \in Tables
  BY DEF Tables
<1>2. /\ e \in Seq(RowsOf("event")) /\ Len(e) \in Nat /\ Len(s) \in Nat /\ Len(e) <= Len(s)
      /\ \A k \in 1 .. Len(e) : s[k] = e[k]
  BY <1>1, RowsAreKnown
<1>3. i \in 1 .. Len(e)
  BY <1>2
<1>4. t \in Threads
  <2>1. e[i] \in RowsOf("event")
    BY <1>2, <1>3, ElementOfSeq
  <2> QED BY <2>1, EventRowShapes DEF Entries
<1>5. PICK H, C : Calling(s, H[Looked], C[Looked])
  BY DEF Inv, Replayed
<1> HIDE DEF s, e
<1>6. i \in 1 .. Len(s) /\ i \in Nat /\ i >= 1 /\ \A k \in 1 .. i : k \in 1 .. Len(e)
  BY <1>2, <1>3
<1>7. s[i] = e[i] /\ \A k \in 1 .. i : e[k] = s[k]
  BY <1>2, <1>3, <1>6
<1>8. CallAt(s, i, t)
  BY <1>7 DEF CallAt, e
<1>9. s[i].parent = CallerInLog(s, i)
  BY <1>4, <1>5, <1>6, <1>8 DEF Calling
<1>10. CallerInLog(e, i) = CallerInLog(s, i)
  BY <1>6, <1>7, SameCaller
<1> QED BY <1>7, <1>9, <1>10 DEF e

\* The types of the indexer, with the capacity of its channel, for any length of
\* the file and however the tasks and the debugger interleave.
THEOREM IndexerTypeCorrect == Spec => []TypeOK
<1> QED BY InvAlways, InvTypes, PTL

\* From the file to the tables no message is lost, doubled or overtaken: the rows
\* of a table, those of the batch and the messages on their way to it are those
\* the reader task has taken (the channel, drain and batch).
THEOREM EveryMessageIsIndexed == Spec => []NothingLostOrReordered
<1> QED BY InvAlways, InvNothingLost, PTL

\* Neither the assertion on returns nor the update of the exit code fails: by the
\* time a return is processed its call is the innermost of the stack of its thread.
THEOREM AssertionsHold == Spec => []NeverFails
<1>1. Inv => NeverFails
  BY DEF Inv, Flowing, NeverFails
<1> QED BY <1>1, InvAlways, PTL

\* Between two batches the hit count of a breakpoint is the number of its events
\* in the database, and no event is of a breakpoint without a row.
THEOREM HitsAreCounted == Spec => []HitCountsMatch
<1> QED BY InvAlways, InvHitCounts, PTL

\* The parent of a call in the database is the call it was made from, however the
\* stream was cut into batches and however the threads interleave.
THEOREM ParentsAreRight == Spec => []ParentsAreCallers
<1> QED BY InvAlways, InvParents, PTL
=============================================================================
