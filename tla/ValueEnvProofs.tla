--------------------------- MODULE ValueEnvProofs ---------------------------
(***************************************************************************)
(* Proofs about ValueEnv, whatever the memory looks like and whatever the  *)
(* limit is: the environment fits the calls (TypeOK), nothing that is      *)
(* referred to is missing from the event (RefsAreSet) and nothing is       *)
(* written twice (WrittenOnce); where only leaves are shared or all        *)
(* pointers are followed each time, every reference is resolved            *)
(* (SharedResolve); and a tree is read back as it is (TreesReadBack).      *)
(***************************************************************************)
EXTENDS ValueEnv, SequenceTheorems, WellFoundedInduction, TLAPS

IsObject(c) == c.role = "pointee"

Holds(a, f) == \E l \in DOMAIN heap[a] : heap[a][l] = f

\* The calls under way: the first is that of the variable, the others are each for a
\* pointer, and what a call has still to write is part of what it is for.
CallOK(c) ==
    /\ IsObject(c) => \A k \in DOMAIN c.todo : Holds(c.field.to, c.todo[k])
    /\ c.role \in {"children", "fallback"} =>
          \A k \in DOMAIN c.todo : c.todo[k] \in Pointers /\ c.todo[k].to = c.field.to
    /\ c.role = "fallback" => Len(c.written) + Len(c.todo) = 1

StackOK ==
    /\ \A i \in DOMAIN stack : stack[i].role = "variable" <=> i = 1
    /\ \A i \in DOMAIN stack : i < Len(stack) => stack[i].todo # <<>>
    /\ \A i \in DOMAIN stack : CallOK(stack[i])

\* An object that is being written leads to those above it.
Descends ==
    \A i, j \in DOMAIN stack :
        (IsObject(stack[i]) /\ i < j) => stack[j].field.to \in Within(heap, stack[i].field.to)

Pending(a) == \E i \in DOMAIN stack : IsObject(stack[i]) /\ stack[i].field.to = a

\* What is allocated is set, or being written, or could not be written.
Accounted(a) == env[a] # None \/ SetAt(a) # {} \/ HoldsBad(a) \/ Pending(a)

AllAccounted == \A a \in Addr : Allocated(a) => Accounted(a)

RefersFrom(s, a) == \E k \in DOMAIN s : s[k] = Ref(a)

\* "The Addr must have been allocated already."
RefsAllocated ==
    \A a \in Addr :
        (\/ \E i \in DOMAIN stack : RefersFrom(stack[i].written, a)
         \/ \E b \in Addr : Refers(env[b], a)) => Allocated(a)

\* A variable is being written until the next one is taken.
Busy == stack # <<>> => next <= Len(event.variables)

Inv == TypeOK /\ Busy /\ StackOK /\ Descends /\ AllAccounted /\ RefsAllocated /\ RefsAreSet

-----------------------------------------------------------------------------
(***************************************************************************)
(* The operators of the model.                                             *)
(***************************************************************************)
\* The calls of s up to the n-th, which has written its next field as v.
LEMMA WroteProperties ==
    ASSUME NEW s \in Seq(Calls), NEW n \in 1 .. Len(s), s[n].todo # <<>>,
           NEW v \in WrittenField
    PROVE  LET t == Wrote(SubSeq(s, 1, n), v)
           IN  /\ t \in Seq(Calls)
               /\ Len(t) = n
               /\ \A i \in 1 .. n : i < n => t[i] = s[i]
               /\ t[n].role = s[n].role /\ t[n].field = s[n].field
               /\ t[n].todo = Tail(s[n].todo) /\ t[n].written = Append(s[n].written, v)
<1> DEFINE p == SubSeq(s, 1, n)
           t == Wrote(p, v)
           c == [s[n] EXCEPT !.todo = Tail(s[n].todo), !.written = Append(s[n].written, v)]
<1>1. p \in Seq(Calls) /\ Len(p) = n /\ \A i \in 1 .. n : p[i] = s[i]
  OBVIOUS
<1>2. s[n] \in Calls /\ p[n] = s[n]
  BY <1>1
<1>3. Tail(s[n].todo) \in Seq(Fields) /\ Append(s[n].written, v) \in Seq(WrittenField)
  BY <1>2 DEF Calls
<1>4. c \in Calls
  BY <1>2, <1>3 DEF Calls
<1>5. t = [p EXCEPT ![n] = c]
  BY <1>1, <1>2 DEF Wrote
<1>6. /\ c.role = s[n].role /\ c.field = s[n].field
      /\ c.todo = Tail(s[n].todo) /\ c.written = Append(s[n].written, v)
  BY <1>2, <1>3 DEF Calls
<1> HIDE DEF p, c, t
<1>7. t \in Seq(Calls) /\ Len(t) = n /\ t[n] = c /\ \A i \in 1 .. n : i < n => t[i] = s[i]
  BY <1>1, <1>4, <1>5
<1>8. QED BY <1>6, <1>7 DEF t, p

\* What comes of appending a call.
LEMMA PushProperties ==
    ASSUME NEW s \in Seq(Calls), NEW c \in Calls, NEW t, t = Append(s, c)
    PROVE  /\ t \in Seq(Calls)
           /\ Len(t) = Len(s) + 1
           /\ \A i \in 1 .. Len(s) : t[i] = s[i]
           /\ t[Len(s) + 1] = c
  OBVIOUS

\* alloc_env adds a to the keys, which stay distinct.
LEMMA MovedProperties ==
    ASSUME order \in Seq(Addr), \A i, j \in DOMAIN order : order[i] = order[j] => i = j,
           NEW a \in Addr
    PROVE  /\ Moved(a) \in Seq(Addr)
           /\ \A i, j \in DOMAIN Moved(a) : Moved(a)[i] = Moved(a)[j] => i = j
           /\ \E i \in DOMAIN Moved(a) : Moved(a)[i] = a
           /\ \A i \in DOMAIN order : \E j \in DOMAIN Moved(a) : Moved(a)[j] = order[i]
           /\ \A i \in DOMAIN Moved(a) : Moved(a)[i] = a \/ Allocated(Moved(a)[i])
<1>1. CASE ~Allocated(a)
  <2> DEFINE m == Append(order, a)
             n == Len(order)
  <2>1. Moved(a) = m
    BY <1>1 DEF Moved
  <2>2. /\ n \in Nat /\ m \in Seq(Addr) /\ DOMAIN m = 1 .. n + 1 /\ DOMAIN order = 1 .. n
        /\ m[n + 1] = a /\ \A i \in 1 .. n : m[i] = order[i]
    OBVIOUS
  <2>3. \A i \in 1 .. n : m[i] # a
    BY <1>1, <2>2 DEF Allocated
  <2> HIDE DEF m, n
  <2>4. \A i \in 1 .. n + 1 : i \in 1 .. n \/ i = n + 1
    BY <2>2
  <2>5. \A i, j \in 1 .. n + 1 : m[i] = m[j] => i = j
    BY <2>2, <2>3, <2>4
  <2>6. \A i \in 1 .. n : \E j \in 1 .. n + 1 : m[j] = order[i]
    BY <2>2
  <2>7. \A i \in 1 .. n + 1 : m[i] = a \/ Allocated(m[i])
    BY <2>2, <2>4 DEF Allocated
  <2>8. n + 1 \in 1 .. n + 1
    BY <2>2
  <2>9. QED BY <2>1, <2>2, <2>5, <2>6, <2>7, <2>8
<1>2. CASE Allocated(a)
  <2> DEFINE n == Len(order)
             k == CHOOSE k \in 1 .. n : order[k] = a
             m == [i \in 1 .. n |-> IF i < k THEN order[i] ELSE IF i < n THEN order[i + 1] ELSE a]
  <2>1. n \in Nat /\ k \in 1 .. n /\ order[k] = a
    BY <1>2 DEF Allocated
  <2>2. Moved(a) = m
    BY <1>2 DEF Moved
  <2> HIDE DEF k
  <2>3. m \in Seq(Addr) /\ DOMAIN m = 1 .. n /\ DOMAIN order = 1 .. n
    BY <2>1
  <2>4. \A i \in 1 .. n : m[i] = IF i < k THEN order[i] ELSE IF i < n THEN order[i + 1] ELSE a
    OBVIOUS
  <2>5. \A i, j \in 1 .. n : m[i] = m[j] => i = j
    BY <2>1, <2>3, <2>4
  <2>6. m[n] = a /\ n \in 1 .. n
    BY <2>1, <2>4
  <2>7. ASSUME NEW i \in 1 .. n PROVE \E j \in 1 .. n : m[j] = order[i]
    <3>1. CASE i < k
      BY <2>1, <2>4, <3>1
    <3>2. CASE i = k
      BY <2>1, <2>6, <3>2
    <3>3. CASE i > k
      <4>1. i - 1 \in 1 .. n /\ ~(i - 1 < k) /\ i - 1 < n /\ i - 1 + 1 = i
        BY <2>1, <3>3
      <4>2. m[i - 1] = order[i]
        BY <2>4, <4>1
      <4>3. QED BY <4>1, <4>2
    <3>4. QED BY <2>1, <3>1, <3>2, <3>3
  <2>8. \A i \in 1 .. n : m[i] = a \/ \E j \in 1 .. n : order[j] = m[i]
    BY <2>1, <2>4
  <2> HIDE DEF m
  <2>9. QED BY <2>2, <2>3, <2>5, <2>6, <2>7, <2>8 DEF Allocated
<1>3. QED BY <1>1, <1>2

\* What an object points to is within it, ...
LEMMA WithinBase ==
    ASSUME NEW h, NEW a \in Addr, NEW b \in Addr, PointsTo(h[a], b) # {}
    PROVE  b \in Within(h, a)
  BY DEF Within

\* ... and so is what those point to that are.
LEMMA WithinStep ==
    ASSUME NEW h, NEW a \in Addr, NEW b \in Within(h, a), NEW c \in Addr, PointsTo(h[b], c) # {}
    PROVE  c \in Within(h, a)
  BY DEF Within

-----------------------------------------------------------------------------
(***************************************************************************)
(* The call stack: what calls have in common with those before the step.   *)
(***************************************************************************)
CallsTyped ==
    /\ stack \in Seq(Calls)
    /\ \A i \in DOMAIN stack : /\ stack[i].role # "variable" => stack[i].field \in Pointers
                               /\ stack[i].role = "pointee" => Allocated(stack[i].field.to)

StackInv == CallsTyped /\ StackOK /\ Descends

StillAllocated == \A a \in Addr : Allocated(a) => Allocated(a)'

WrittenRef(a) == \E i \in DOMAIN stack : RefersFrom(stack[i].written, a)

\* A call stays in order when it has written its next field.
LEMMA NextCallOK ==
    ASSUME NEW c \in Calls, CallOK(c), c.todo # <<>>, NEW v,
           NEW d \in Calls, d.role = c.role, d.field = c.field,
           d.todo = Tail(c.todo), d.written = Append(c.written, v)
    PROVE  CallOK(d)
<1>1. PICK q \in Seq(Fields) : q = c.todo
  BY DEF Calls
<1>2. PICK w \in Seq(WrittenField) : w = c.written
  BY DEF Calls
<1>3. /\ Tail(q) \in Seq(Fields) /\ Len(Tail(q)) = Len(q) - 1 /\ Len(q) \in Nat
      /\ \A k \in 1 .. Len(Tail(q)) : Tail(q)[k] = q[k + 1]
  BY <1>1, HeadTailProperties
<1>4. PICK x \in Seq(Fields) : x = d.todo
  BY <1>1, <1>3
<1>5. /\ Len(x) = Len(q) - 1 /\ DOMAIN x = 1 .. Len(q) - 1 /\ DOMAIN q = 1 .. Len(q)
      /\ \A k \in 1 .. Len(x) : x[k] = q[k + 1]
  BY <1>1, <1>3, <1>4
<1>6. \A k \in DOMAIN x : k + 1 \in DOMAIN q /\ x[k] = q[k + 1]
  BY <1>3, <1>5
<1>7. Len(d.written) = Len(w) + 1 /\ Len(w) \in Nat
  BY <1>2
<1>8. IsObject(d) => \A k \in DOMAIN d.todo : Holds(d.field.to, d.todo[k])
  BY <1>1, <1>4, <1>6 DEF CallOK, IsObject
<1>9. d.role \in {"children", "fallback"} =>
          \A k \in DOMAIN d.todo : d.todo[k] \in Pointers /\ d.todo[k].to = d.field.to
  BY <1>1, <1>4, <1>6 DEF CallOK
<1>10. d.role = "fallback" => Len(d.written) + Len(d.todo) = 1
  <2>1. c.role = "fallback" => Len(w) + Len(q) = 1
    BY <1>1, <1>2 DEF CallOK
  <2>2. ASSUME Len(w) + Len(q) = 1 PROVE Len(w) + 1 + Len(x) = 1
    BY <1>3, <1>5, <1>7, <2>2
  <2>3. Len(w) + Len(q) = 1 => Len(d.written) + Len(d.todo) = 1
    BY <2>2, <1>4, <1>7
  <2>4. QED BY <2>1, <2>3
<1>11. QED BY <1>8, <1>9, <1>10 DEF CallOK

\* A step that hands the field v to the n-th call.
LEMMA CutKeeps ==
    ASSUME StackInv, NEW n \in 1 .. Len(stack), stack[n].todo # <<>>,
           NEW v \in WrittenField, stack' = Wrote(SubSeq(stack, 1, n), v),
           event' = event, StillAllocated
    PROVE  /\ StackInv'
           /\ \A a \in Addr : WrittenRef(a)' => v = Ref(a) \/ WrittenRef(a)
           /\ \A a \in Addr : \A i \in 1 .. n :
                (IsObject(stack[i]) /\ stack[i].field.to = a) => Pending(a)'
<1> DEFINE s == stack
           t == stack'
<1>1. s \in Seq(Calls) /\ n \in Nat /\ 0 < n /\ n <= Len(s) /\ DOMAIN s = 1 .. Len(s)
  BY DEF StackInv, CallsTyped
<1>2. /\ t \in Seq(Calls) /\ Len(t) = n /\ DOMAIN t = 1 .. n
      /\ \A i \in 1 .. n : i < n => t[i] = s[i]
      /\ t[n].role = s[n].role /\ t[n].field = s[n].field
      /\ t[n].todo = Tail(s[n].todo) /\ t[n].written = Append(s[n].written, v)
  <2> DEFINE u == Wrote(SubSeq(s, 1, n), v)
  <2>1. /\ u \in Seq(Calls) /\ Len(u) = n
        /\ \A i \in 1 .. n : i < n => u[i] = s[i]
        /\ u[n].role = s[n].role /\ u[n].field = s[n].field
        /\ u[n].todo = Tail(s[n].todo) /\ u[n].written = Append(s[n].written, v)
    BY <1>1, WroteProperties
  <2>2. t = u
    OBVIOUS
  <2> HIDE DEF s, t, u
  <2>3. DOMAIN u = 1 .. n
    BY <2>1
  <2>4. QED BY <2>1, <2>2, <2>3
<1>3. s[n].todo \in Seq(Fields) /\ s[n].written \in Seq(WrittenField)
  <2>1. s[n] \in Calls
    BY <1>1
  <2>2. QED BY <2>1 DEF Calls
<1>4. \A i \in 1 .. n : /\ t[i].role = s[i].role /\ t[i].field = s[i].field
                        /\ i \in 1 .. Len(s)
  BY <1>1, <1>2
<1>6. CallsTyped'
  <2>1. \A i \in 1 .. Len(s) : /\ s[i].role # "variable" => s[i].field \in Pointers
                               /\ s[i].role = "pointee" => Allocated(s[i].field.to)
    BY <1>1 DEF StackInv, CallsTyped
  <2>2. ASSUME NEW i \in 1 .. n
        PROVE  /\ t[i].role # "variable" => t[i].field \in Pointers
               /\ t[i].role = "pointee" => Allocated(stack[i].field.to)'
    <3>1. s[i].role = "pointee" => s[i].field.to \in Addr
      BY <2>1, <1>4 DEF Pointers
    <3>2. QED BY <2>1, <1>4, <3>1 DEF StillAllocated
  <2>3. QED BY <1>2, <2>2 DEF CallsTyped
<1>7. StackOK'
  <2>1. \A i \in 1 .. n : t[i].role = "variable" <=> i = 1
    BY <1>1, <1>4 DEF StackInv, StackOK
  <2>2. \A i \in 1 .. n : i < n => t[i].todo # <<>>
    BY <1>1, <1>2, <1>4 DEF StackInv, StackOK
  <2>3. ASSUME NEW i \in 1 .. n, i < n PROVE CallOK(stack[i])'
    <3>1. CallOK(s[i]) /\ t[i] = s[i]
      BY <1>1, <1>2, <1>4, <2>3 DEF StackInv, StackOK
    <3>2. QED BY <3>1 DEF CallOK, IsObject, Holds, heap
  <2>4. CallOK(stack[n])'
    <3>1. CallOK(s[n]) /\ s[n] \in Calls /\ t[n] \in Calls
      BY <1>1, <1>2 DEF StackInv, StackOK
    <3>2. CallOK(t[n])
      BY <3>1, <1>2, NextCallOK
    <3>3. QED BY <3>2 DEF CallOK, IsObject, Holds, heap
  <2>5. DOMAIN stack' = 1 .. n /\ Len(stack') = n /\ n \in Nat
    BY <1>1, <1>2
  <2>6. \A i \in 1 .. n : i < n \/ i = n
    BY <2>5
  <2>7. \A i \in DOMAIN stack' : CallOK(stack[i])'
    BY <2>3, <2>4, <2>5, <2>6
  <2>8. QED BY <2>1, <2>2, <2>5, <2>7 DEF StackOK
<1>8. Descends'
  BY <1>1, <1>2, <1>4 DEF StackInv, Descends, IsObject, heap
<1>9. ASSUME NEW a \in Addr, WrittenRef(a)' PROVE v = Ref(a) \/ WrittenRef(a)
  <2>1. PICK i \in 1 .. n : RefersFrom(t[i].written, a)
    BY <1>2, <1>9 DEF WrittenRef, RefersFrom
  <2>2. CASE i < n
    BY <1>1, <1>2, <1>4, <2>1, <2>2 DEF WrittenRef
  <2>3. CASE i = n
    <3>1. PICK k \in DOMAIN Append(s[n].written, v) : Append(s[n].written, v)[k] = Ref(a)
      BY <1>2, <2>1, <2>3 DEF RefersFrom
    <3>2. CASE k = Len(s[n].written) + 1
      BY <1>3, <3>1, <3>2
    <3>3. CASE k # Len(s[n].written) + 1
      <4>1. k \in DOMAIN s[n].written /\ s[n].written[k] = Ref(a)
        BY <1>3, <3>1, <3>3
      <4>2. QED BY <1>1, <4>1 DEF WrittenRef, RefersFrom
    <3>4. QED BY <3>2, <3>3
  <2>4. QED BY <1>1, <2>2, <2>3
<1>10. ASSUME NEW a \in Addr, NEW i \in 1 .. n, IsObject(s[i]), s[i].field.to = a PROVE Pending(a)'
  BY <1>2, <1>4, <1>10 DEF Pending, IsObject
<1>11. QED BY <1>6, <1>7, <1>8, <1>9, <1>10 DEF StackInv

\* A step that begins to write what the next field of the last call is for.
LEMMA PushKeeps ==
    ASSUME StackInv, stack # <<>>, Top.todo # <<>>,
           NEW f \in Pointers, f = Head(Top.todo),
           NEW c \in Calls, c.role \in {"pointee", "children"}, c.field = f,
           c.written = <<>>, CallOK(c), c.role = "pointee" => Allocated(f.to)',
           stack' = Append(stack, c), event' = event, StillAllocated
    PROVE  /\ StackInv'
           /\ \A a \in Addr : WrittenRef(a)' => WrittenRef(a)
           /\ \A a \in Addr : Pending(a) => Pending(a)'
           /\ c.role = "pointee" => Pending(f.to)'
<1> DEFINE s == stack
           t == stack'
<1>0. PICK n \in Nat : n = Len(s)
  BY DEF StackInv, CallsTyped
<1>1. s \in Seq(Calls) /\ 0 < n /\ DOMAIN s = 1 .. n
  BY <1>0 DEF StackInv, CallsTyped
<1>2. /\ t \in Seq(Calls) /\ Len(t) = n + 1 /\ DOMAIN t = 1 .. n + 1
      /\ \A i \in 1 .. n : t[i] = s[i]
      /\ t[n + 1] = c
  BY <1>0, <1>1
<1> HIDE DEF s, t
<1>3. s[n] \in Calls /\ s[n].todo \in Seq(Fields) /\ s[n].todo # <<>> /\ s[n].todo[1] = f
      /\ 1 \in DOMAIN s[n].todo
  <2>1. s[n] \in Calls
    BY <1>1
  <2>2. s[n].todo \in Seq(Fields) /\ s[n].todo # <<>> /\ f = Head(s[n].todo)
    BY <1>0, <2>1 DEF Calls, Top, s
  <2>3. QED BY <2>1, <2>2
<1>4. f.to \in Addr
  BY DEF Pointers
<1>5. CallsTyped'
  <2>1. \A i \in 1 .. n : /\ s[i].role # "variable" => s[i].field \in Pointers
                          /\ s[i].role = "pointee" => Allocated(s[i].field.to)
    BY <1>1 DEF StackInv, CallsTyped, s
  <2>2. ASSUME NEW i \in 1 .. n
        PROVE  /\ t[i].role # "variable" => t[i].field \in Pointers
               /\ t[i].role = "pointee" => Allocated(stack[i].field.to)'
    <3>1. s[i].role = "pointee" => s[i].field.to \in Addr
      BY <2>1 DEF Pointers
    <3>2. QED BY <2>1, <1>2, <3>1 DEF StillAllocated, t
  <2>3. /\ t[n + 1].role # "variable" => t[n + 1].field \in Pointers
        /\ t[n + 1].role = "pointee" => Allocated(stack[n + 1].field.to)'
    BY <1>2 DEF t
  <2>4. \A i \in 1 .. n + 1 : i \in 1 .. n \/ i = n + 1
    BY <1>1
  <2>5. QED BY <1>2, <2>2, <2>3, <2>4 DEF CallsTyped, t
<1>6. StackOK'
  <2>1. \A i \in 1 .. n + 1 : t[i].role = "variable" <=> i = 1
    <3>1. \A i \in 1 .. n : s[i].role = "variable" <=> i = 1
      BY <1>1 DEF StackInv, StackOK, s
    <3>2. t[n + 1].role # "variable" /\ n + 1 # 1
      BY <1>1, <1>2
    <3>3. \A i \in 1 .. n + 1 : i \in 1 .. n \/ i = n + 1
      BY <1>1
    <3>4. QED BY <1>2, <3>1, <3>2, <3>3
  <2>2. \A i \in 1 .. n + 1 : i < n + 1 => t[i].todo # <<>>
    <3>1. \A i \in 1 .. n : i < n => s[i].todo # <<>>
      BY <1>0, <1>1 DEF StackInv, StackOK, s
    <3>2. QED BY <1>1, <1>2, <1>3, <3>1
  <2>3. ASSUME NEW i \in 1 .. n + 1 PROVE CallOK(t[i])
    BY <1>1, <1>2 DEF StackInv, StackOK, s
  <2>4. ASSUME NEW i \in 1 .. n + 1 PROVE CallOK(stack[i])'
    BY <2>3 DEF CallOK, IsObject, Holds, heap, t
  <2>5. QED BY <1>2, <2>1, <2>2, <2>4 DEF StackOK, t
<1>7. Descends'
  <2>1. \A i, j \in 1 .. n :
            (IsObject(s[i]) /\ i < j) => s[j].field.to \in Within(heap, s[i].field.to)
    BY <1>1 DEF StackInv, Descends, s
  <2>2. IsObject(s[n]) => PointsTo(heap[s[n].field.to], f.to) # {}
    <3>1. CallOK(s[n])
      BY <1>1 DEF StackInv, StackOK, s
    <3>2. IsObject(s[n]) => Holds(s[n].field.to, f)
      BY <1>3, <3>1 DEF CallOK
    <3>3. QED BY <3>2 DEF Holds, PointsTo, To
  <2>3. ASSUME NEW i \in 1 .. n, IsObject(s[i]) PROVE f.to \in Within(heap, s[i].field.to)
    <3>1. s[i].field.to \in Addr
      BY <1>1, <2>3 DEF StackInv, CallsTyped, s, IsObject, Pointers
    <3>2. CASE i = n
      BY <1>4, <2>2, <2>3, <3>1, <3>2, WithinBase
    <3>3. CASE i # n
      <4>1. s[n].field.to \in Within(heap, s[i].field.to)
        BY <1>1, <2>1, <2>3, <3>3
      <4>2. s[n].role # "variable"
        BY <1>1, <3>3 DEF StackInv, StackOK, s
      <4>3. CASE IsObject(s[n])
        <5>1. s[n].field.to \in Addr
          BY <1>1, <4>3 DEF StackInv, CallsTyped, s, IsObject, Pointers
        <5>2. QED BY <1>4, <2>2, <3>1, <4>1, <4>3, <5>1, WithinStep
      <4>4. CASE ~IsObject(s[n])
        <5>1. s[n].role \in {"children", "fallback"}
          BY <1>3, <4>2, <4>4 DEF Calls, IsObject
        <5>2. CallOK(s[n])
          BY <1>1 DEF StackInv, StackOK, s
        <5>3. f.to = s[n].field.to
          BY <1>3, <5>1, <5>2 DEF CallOK
        <5>4. QED BY <4>1, <5>3
      <4>5. QED BY <4>3, <4>4
    <3>4. QED BY <3>2, <3>3
  <2>4. ASSUME NEW i \in 1 .. n + 1, NEW j \in 1 .. n + 1, IsObject(t[i]), i < j
        PROVE  t[j].field.to \in Within(heap, t[i].field.to)
    <3>1. i \in 1 .. n /\ t[i] = s[i]
      BY <1>1, <1>2, <2>4
    <3>2. CASE j = n + 1
      BY <1>2, <2>3, <2>4, <3>1, <3>2
    <3>3. CASE j # n + 1
      <4>1. j \in 1 .. n /\ t[j] = s[j]
        BY <1>1, <1>2, <3>3
      <4>2. QED BY <2>1, <2>4, <3>1, <4>1
    <3>4. QED BY <3>2, <3>3
  <2>5. QED BY <1>2, <2>4 DEF Descends, IsObject, heap, t
<1>8. ASSUME NEW a \in Addr, WrittenRef(a)' PROVE WrittenRef(a)
  BY <1>1, <1>2, <1>8 DEF WrittenRef, RefersFrom, s, t
<1>9. ASSUME NEW a \in Addr, Pending(a) PROVE Pending(a)'
  BY <1>1, <1>2, <1>9 DEF Pending, IsObject, s, t
<1>10. c.role = "pointee" => Pending(f.to)'
  BY <1>1, <1>2 DEF Pending, IsObject, t
<1>11. QED BY <1>5, <1>6, <1>7, <1>8, <1>9, <1>10 DEF StackInv

\* A step that writes the enum of the last call again, as the variant that is assumed.
LEMMA FallBackKeeps ==
    ASSUME StackInv, limit \in Nat, FallBack, StillAllocated
    PROVE  /\ StackInv'
           /\ \A a \in Addr : WrittenRef(a)' => WrittenRef(a)
           /\ \A a \in Addr : Pending(a) => Pending(a)'
<1> DEFINE s == stack
           t == stack'
<1>0. PICK n \in Nat : n = Len(s)
  BY DEF StackInv, CallsTyped
<1>1. PICK f : f = Top.field
  OBVIOUS
<1>2. PICK c : c = Call("fallback", f, <<[f EXCEPT !.lost = FALSE]>>, limit)
  OBVIOUS
<1>3. /\ s \in Seq(Calls) /\ 0 < n /\ DOMAIN s = 1 .. n /\ Top = s[n] /\ s[n] \in Calls
      /\ s[n].role = "children" /\ s[n].field = f /\ f \in Pointers
  BY <1>0, <1>1 DEF StackInv, CallsTyped, FallBack, Top
<1>4. [f EXCEPT !.lost = FALSE] \in Pointers /\ [f EXCEPT !.lost = FALSE].to = f.to
  BY <1>3 DEF Pointers
<1>5. c \in Calls /\ c.role = "fallback" /\ c.field = f /\ c.written = <<>> /\ c.todo # <<>>
  <2>1. PICK g \in Pointers : g = [f EXCEPT !.lost = FALSE]
    BY <1>4
  <2>2. f \in Fields /\ <<g>> \in Seq(Fields) /\ <<g>> # <<>> /\ <<>> \in Seq(WrittenField)
    BY <1>3 DEF Fields
  <2>3. c = [role |-> "fallback", field |-> f, todo |-> <<g>>, written |-> <<>>, r |-> limit]
    BY <1>2, <2>1 DEF Call
  <2>4. QED BY <2>2, <2>3 DEF Calls
<1>6. CallOK(c)
  <2>1. PICK g \in Pointers : g = [f EXCEPT !.lost = FALSE] /\ g.to = f.to
    BY <1>4
  <2>2. c = [role |-> "fallback", field |-> f, todo |-> <<g>>, written |-> <<>>, r |-> limit]
    BY <1>2, <2>1 DEF Call
  <2>3. /\ c.todo = <<g>> /\ Len(c.todo) = 1 /\ DOMAIN c.todo = {1} /\ c.todo[1] = g
        /\ Len(c.written) = 0
    BY <2>2
  <2>4. ~IsObject(c)
    BY <2>2 DEF IsObject
  <2>5. \A k \in DOMAIN c.todo : c.todo[k] \in Pointers /\ c.todo[k].to = c.field.to
    BY <1>5, <2>1, <2>3
  <2>6. Len(c.written) + Len(c.todo) = 1
    BY <2>3
  <2>7. QED BY <2>4, <2>5, <2>6 DEF CallOK
<1>7. /\ Below \in Seq(Calls) /\ Len(Below) = n - 1
      /\ \A i \in 1 .. n : i < n => Below[i] = s[i]
  BY <1>0, <1>3 DEF Below
<1>8. /\ t \in Seq(Calls) /\ Len(t) = n /\ DOMAIN t = 1 .. n /\ t[n] = c
      /\ \A i \in 1 .. n : i < n => t[i] = s[i]
  <2>1. t = Append(Below, c)
    BY <1>1, <1>2 DEF FallBack
  <2> HIDE DEF t, s
  <2>2. QED BY <1>3, <1>5, <1>7, <2>1
<1>9. event' = event
  BY DEF FallBack, Writing
<1> HIDE DEF s, t
<1>10. \A i \in 1 .. n : t[i].field = s[i].field /\ (IsObject(t[i]) <=> IsObject(s[i]))
  BY <1>3, <1>5, <1>8 DEF IsObject
<1>11. CallsTyped'
  <2>1. \A i \in 1 .. n : /\ s[i].role # "variable" => s[i].field \in Pointers
                          /\ s[i].role = "pointee" => Allocated(s[i].field.to)
    BY <1>3 DEF StackInv, CallsTyped, s
  <2>2. ASSUME NEW i \in 1 .. n
        PROVE  /\ t[i].role # "variable" => t[i].field \in Pointers
               /\ t[i].role = "pointee" => Allocated(stack[i].field.to)'
    <3>1. s[i].role = "pointee" => s[i].field.to \in Addr
      BY <2>1 DEF Pointers
    <3>2. CASE i < n
      BY <2>1, <1>8, <3>1, <3>2 DEF StillAllocated, t
    <3>3. CASE i = n
      BY <1>3, <1>5, <1>8, <3>3
    <3>4. QED BY <3>2, <3>3
  <2>3. QED BY <1>8, <2>2 DEF CallsTyped, t
<1>12. StackOK'
  <2>1. \A i \in 1 .. n : t[i].role = "variable" <=> i = 1
    <3>1. \A i \in 1 .. n : s[i].role = "variable" <=> i = 1
      BY <1>3 DEF StackInv, StackOK, s
    <3>2. \A i \in 1 .. n : i < n \/ i = n
      OBVIOUS
    <3>3. QED BY <1>3, <1>5, <1>8, <3>1, <3>2
  <2>2. \A i \in 1 .. n : i < n => t[i].todo # <<>>
    BY <1>0, <1>3, <1>8 DEF StackInv, StackOK, s
  <2>3. ASSUME NEW i \in 1 .. n PROVE CallOK(t[i])
    <3>1. CallOK(s[i])
      BY <1>3 DEF StackInv, StackOK, s
    <3>2. i < n \/ i = n
      OBVIOUS
    <3>3. QED BY <1>6, <1>8, <3>1, <3>2
  <2>4. ASSUME NEW i \in 1 .. n PROVE CallOK(stack[i])'
    BY <1>9, <2>3 DEF CallOK, IsObject, Holds, heap, t
  <2>5. QED BY <1>8, <2>1, <2>2, <2>4 DEF StackOK, t
<1>13. Descends'
  <2>1. \A i, j \in 1 .. n :
            (IsObject(s[i]) /\ i < j) => s[j].field.to \in Within(heap, s[i].field.to)
    BY <1>3 DEF StackInv, Descends, s
  <2>2. \A i, j \in 1 .. n :
            (IsObject(t[i]) /\ i < j) => t[j].field.to \in Within(heap, t[i].field.to)
    BY <1>10, <2>1
  <2>3. QED BY <1>8, <1>9, <2>2 DEF Descends, IsObject, heap, t
<1>14. ASSUME NEW a \in Addr, WrittenRef(a)' PROVE WrittenRef(a)
  <2>1. PICK i \in 1 .. n : RefersFrom(t[i].written, a)
    BY <1>8, <1>14 DEF WrittenRef, RefersFrom, t
  <2>2. i # n
    BY <1>5, <1>8, <2>1 DEF RefersFrom
  <2>3. QED BY <1>3, <1>8, <2>1, <2>2 DEF WrittenRef, s
<1>15. ASSUME NEW a \in Addr, Pending(a) PROVE Pending(a)'
  <2>1. PICK i \in 1 .. n : IsObject(s[i]) /\ s[i].field.to = a
    BY <1>3, <1>15 DEF Pending, s
  <2>2. IsObject(t[i]) /\ t[i].field.to = a
    BY <1>10, <2>1
  <2>3. QED BY <1>8, <2>2 DEF Pending, IsObject, t
<1>16. QED BY <1>11, <1>12, <1>13, <1>14, <1>15 DEF StackInv

\* The first call, and no call.
LEMMA FirstCall ==
    ASSUME NEW c \in Calls, c.role = "variable", c.written = <<>>, stack' = <<c>>
    PROVE  StackInv' /\ \A a \in Addr : ~WrittenRef(a)'
<1>1. /\ stack' \in Seq(Calls) /\ Len(stack') = 1 /\ DOMAIN stack' = {1} /\ stack'[1] = c
  OBVIOUS
<1>2. CallsTyped'
  BY <1>1 DEF CallsTyped
<1>3. StackOK'
  <2>1. CallOK(stack[1])'
    BY <1>1 DEF CallOK, IsObject
  <2>2. QED BY <1>1, <2>1 DEF StackOK
<1>4. Descends'
  BY <1>1 DEF Descends, IsObject
<1>5. QED BY <1>1, <1>2, <1>3, <1>4 DEF StackInv, WrittenRef, RefersFrom

LEMMA NoCall ==
    ASSUME stack' = <<>>
    PROVE  StackInv' /\ \A a \in Addr : ~WrittenRef(a)'
<1>1. stack' \in Seq(Calls) /\ DOMAIN stack' = {}
  OBVIOUS
<1>2. QED BY <1>1 DEF StackInv, CallsTyped, StackOK, Descends, WrittenRef

-----------------------------------------------------------------------------
(***************************************************************************)
(* The environment.                                                        *)
(***************************************************************************)
OrderOK == order \in Seq(Addr) /\ \A i, j \in DOMAIN order : order[i] = order[j] => i = j

EnvInv ==
    /\ OrderOK
    /\ env \in Env
    /\ \A a \in Addr : env[a] # None => Allocated(a)
    /\ AllAccounted
    /\ RefsAllocated

\* A step that keeps what is set and accounts for what it sets, drops and allocates.
LEMMA EnvKeeps ==
    ASSUME EnvInv, RefsAreSet, event' = event, out' = out,
           OrderOK', StillAllocated, env' \in Env,
           \A a \in Addr : env'[a] # None => env[a] # None \/ Allocated(a)',
           \A a \in Addr : env[a] # None => env'[a] # None,
           \A a \in Addr : WrittenRef(a)' => WrittenRef(a) \/ Allocated(a)',
           \A a, b \in Addr : Refers(env'[b], a) => Refers(env[b], a) \/ WrittenRef(a),
           \A a \in Addr : Pending(a) => Accounted(a)',
           \A a \in Addr : Allocated(a)' => Allocated(a) \/ Accounted(a)'
    PROVE  EnvInv' /\ RefsAreSet'
<1>1. \A a \in Addr : SetAt(a)' = SetAt(a) /\ HoldsBad(a)' = HoldsBad(a) /\ IsReferred(a)' = IsReferred(a)
  BY DEF SetAt, HoldsBad, IsReferred, heap
<1>2. ASSUME NEW a \in Addr, Allocated(a)' PROVE Accounted(a)'
  <2>1. CASE Allocated(a)
    <3>1. Accounted(a)
      BY <2>1 DEF EnvInv, AllAccounted
    <3>2. QED BY <3>1, <1>1 DEF Accounted
  <2>2. CASE ~Allocated(a)
    BY <1>2, <2>2
  <2>3. QED BY <2>1, <2>2
<1>3. ASSUME NEW a \in Addr, WrittenRef(a)' \/ \E b \in Addr : Refers(env'[b], a)
      PROVE  Allocated(a)'
  <2>1. \/ Allocated(a)' \/ WrittenRef(a) \/ \E b \in Addr : Refers(env[b], a)
    BY <1>3
  <2>2. (WrittenRef(a) \/ \E b \in Addr : Refers(env[b], a)) => Allocated(a)
    BY DEF EnvInv, RefsAllocated, WrittenRef
  <2>3. QED BY <2>1, <2>2 DEF StillAllocated
<1>4. RefsAllocated'
  BY <1>3 DEF RefsAllocated, WrittenRef, Refers
<1>5. AllAccounted'
  BY <1>2 DEF AllAccounted
<1>6. \A a \in Addr : env'[a] # None => Allocated(a)'
  BY DEF EnvInv, StillAllocated
<1>7. RefsAreSet'
  BY <1>1 DEF RefsAreSet
<1>8. QED BY <1>4, <1>5, <1>6, <1>7 DEF EnvInv

-----------------------------------------------------------------------------
(***************************************************************************)
(* The invariant is preserved by each action of the writer.                *)
(***************************************************************************)
Static ==
    /\ event.heap \in [Addr -> Seq(Fields)] /\ event.variables \in Seq(Seq(Fields))
    /\ limit \in Limits
    /\ next \in 1 .. Len(event.variables) + 1
    /\ out \in Seq(Bytes)
    /\ entry \in Nat /\ Len(values) <= Len(out)
    /\ Busy

LEMMA InvParts == Inv <=> Static /\ StackInv /\ EnvInv /\ RefsAreSet
  BY DEF Inv, TypeOK, Static, StackInv, CallsTyped, EnvInv, OrderOK

LEMMA InvPartsNext == Static' /\ StackInv' /\ EnvInv' /\ RefsAreSet' => Inv'
  BY DEF Inv, TypeOK, Static, StackInv, CallsTyped, EnvInv, OrderOK

LEMMA StaticKept ==
    ASSUME Static, stack # <<>>, Writing, UNCHANGED <<next, out>>
    PROVE  Static' /\ event' = event
  BY DEF Static, Busy, Writing

\* The last call, and the one below it.
LEMMA TopFacts ==
    ASSUME StackInv, stack # <<>>, NEW n, n = Len(stack)
    PROVE  /\ n \in 1 .. Len(stack) /\ stack \in Seq(Calls) /\ DOMAIN stack = 1 .. n
           /\ Top = stack[n] /\ Top \in Calls /\ CallOK(Top)
           /\ Top.todo \in Seq(Fields) /\ Top.written \in Seq(WrittenField) /\ Top.r \in Nat
           /\ SubSeq(stack, 1, n) = stack
           /\ Below = SubSeq(stack, 1, n - 1)
           /\ Top.role # "variable" => /\ Top.field \in Pointers
                                       /\ Top.field.to \in Addr
                                       /\ n - 1 \in 1 .. Len(stack) /\ stack[n - 1].todo # <<>>
<1>1. n \in 1 .. Len(stack) /\ stack \in Seq(Calls) /\ DOMAIN stack = 1 .. n /\ Top = stack[n]
  BY DEF StackInv, CallsTyped, Top
<1>2. Top \in Calls /\ CallOK(Top)
  BY <1>1 DEF StackInv, StackOK
<1>3. Top.todo \in Seq(Fields) /\ Top.written \in Seq(WrittenField) /\ Top.r \in Nat
  BY <1>2 DEF Calls
<1>4. SubSeq(stack, 1, n) = stack
  BY <1>1, SubSeqFull
<1>5. Top.role # "variable" => Top.field \in Pointers /\ Top.field.to \in Addr
  BY <1>1 DEF StackInv, CallsTyped, Pointers
<1>6. Top.role # "variable" => n - 1 \in 1 .. Len(stack) /\ stack[n - 1].todo # <<>>
  BY <1>1 DEF StackInv, StackOK
<1>7. QED BY <1>1, <1>2, <1>3, <1>4, <1>5, <1>6 DEF Below

\* A field whose value is no reference: WriteOpaque, WritePlain.
LEMMA WriteFieldKeeps ==
    ASSUME Inv, stack # <<>>, Top.todo # <<>>, NEW v \in {Plain, Opaque},
           stack' = Wrote(stack, v), Writing, UNCHANGED <<next, order, env, out>>
    PROVE  Inv'
<1>1. Static /\ StackInv /\ EnvInv /\ RefsAreSet
  BY InvParts
<1>2. Static' /\ event' = event /\ StillAllocated
  BY <1>1, StaticKept DEF StillAllocated, Allocated
<1>3. PICK n : n = Len(stack)
  OBVIOUS
<1>4. /\ n \in 1 .. Len(stack) /\ Top = stack[n] /\ SubSeq(stack, 1, n) = stack
      /\ DOMAIN stack = 1 .. n
  BY <1>1, <1>3, TopFacts
<1>5. v \in WrittenField /\ \A a \in Addr : v # Ref(a)
  BY DEF WrittenField, Plain, Opaque, Ref
<1>6. /\ StackInv'
      /\ \A a \in Addr : WrittenRef(a)' => WrittenRef(a)
      /\ \A a \in Addr : \A i \in 1 .. n :
            (IsObject(stack[i]) /\ stack[i].field.to = a) => Pending(a)'
  BY <1>1, <1>2, <1>4, <1>5, CutKeeps
<1>7. ASSUME NEW a \in Addr, Pending(a) PROVE Accounted(a)'
  <2>1. PICK i \in 1 .. n : IsObject(stack[i]) /\ stack[i].field.to = a
    BY <1>4, <1>7 DEF Pending
  <2>2. Pending(a)'
    BY <1>6, <2>1
  <2>3. QED BY <2>2 DEF Accounted
<1>8. EnvInv' /\ RefsAreSet'
  BY <1>1, <1>2, <1>6, <1>7, EnvKeeps DEF EnvInv, OrderOK, Allocated
<1>9. QED BY <1>2, <1>6, <1>8, InvPartsNext

\* The value of an enum without a variant: GiveUp, FallbackWritten.
LEMMA PopKeeps ==
    ASSUME Inv, stack # <<>>, Top.role \in {"children", "fallback"},
           NEW v \in WrittenField, \A a \in Addr : v = Ref(a) => WrittenRef(a),
           stack' = Wrote(Below, v), Writing, UNCHANGED <<next, order, env, out>>
    PROVE  Inv'
<1>1. Static /\ StackInv /\ EnvInv /\ RefsAreSet
  BY InvParts
<1>2. Static' /\ event' = event /\ StillAllocated
  BY <1>1, StaticKept DEF StillAllocated, Allocated
<1>3. PICK n : n = Len(stack)
  OBVIOUS
<1>4. /\ n \in Nat /\ n - 1 \in 1 .. Len(stack) /\ stack[n - 1].todo # <<>>
      /\ Top = stack[n] /\ Below = SubSeq(stack, 1, n - 1)
      /\ DOMAIN stack = 1 .. n
  BY <1>1, <1>3, TopFacts
<1>5. /\ StackInv'
      /\ \A a \in Addr : WrittenRef(a)' => WrittenRef(a)
      /\ \A a \in Addr : \A i \in 1 .. n - 1 :
            (IsObject(stack[i]) /\ stack[i].field.to = a) => Pending(a)'
  BY <1>1, <1>2, <1>4, CutKeeps
<1>6. ASSUME NEW a \in Addr, Pending(a) PROVE Accounted(a)'
  <2>1. PICK i \in 1 .. n : IsObject(stack[i]) /\ stack[i].field.to = a
    BY <1>4, <1>6 DEF Pending
  <2>2. i # n
    BY <1>4, <2>1 DEF IsObject
  <2>3. i \in 1 .. n - 1
    BY <1>4, <2>2
  <2>4. Pending(a)'
    BY <1>5, <2>1, <2>3
  <2>5. QED BY <2>4 DEF Accounted
<1>7. EnvInv' /\ RefsAreSet'
  BY <1>1, <1>2, <1>5, <1>6, EnvKeeps DEF EnvInv, OrderOK, Allocated
<1>8. QED BY <1>2, <1>5, <1>7, InvPartsNext

\* alloc_env: what was allocated still is, and so is a.
LEMMA AllocKeeps ==
    ASSUME EnvInv, NEW a \in Addr, AllocEnv(a)
    PROVE  /\ OrderOK' /\ StillAllocated /\ Allocated(a)'
           /\ \A b \in Addr : Allocated(b)' => b = a \/ Allocated(b)
<1>1. /\ Moved(a) \in Seq(Addr)
      /\ \A i, j \in DOMAIN Moved(a) : Moved(a)[i] = Moved(a)[j] => i = j
      /\ \E i \in DOMAIN Moved(a) : Moved(a)[i] = a
      /\ \A i \in DOMAIN order : \E j \in DOMAIN Moved(a) : Moved(a)[j] = order[i]
      /\ \A i \in DOMAIN Moved(a) : Moved(a)[i] = a \/ Allocated(Moved(a)[i])
  BY MovedProperties DEF EnvInv, OrderOK
<1>2. order' = Moved(a)
  BY DEF AllocEnv
<1>3. QED BY <1>1, <1>2 DEF OrderOK, StillAllocated, Allocated

LEMMA SetEnv ==
    ASSUME env \in Env, NEW a \in Addr, NEW v \in WrittenValue, env' = [env EXCEPT ![a] = v]
    PROVE  /\ env' \in Env /\ env'[a] = v /\ v # None
           /\ \A b \in Addr : b # a => env'[b] = env[b]
<1>1. v # None
  BY DEF WrittenValue, Opaque, None
<1>2. QED BY <1>1 DEF Env

\* A pointer at the limit: its pointee is opaque.
LEMMA CutPointee ==
    ASSUME Inv, stack # <<>>, Top.todo # <<>>, NEW f \in Pointers, AllocEnv(f.to),
           env' = [env EXCEPT ![f.to] = Opaque], stack' = Wrote(stack, Ref(f.to)),
           Writing, UNCHANGED <<next, out>>
    PROVE  Inv'
<1>1. Static /\ StackInv /\ EnvInv /\ RefsAreSet
  BY InvParts
<1>2. Static' /\ event' = event /\ out' = out /\ f.to \in Addr
  BY <1>1, StaticKept DEF Pointers
<1>3. /\ OrderOK' /\ StillAllocated /\ Allocated(f.to)'
      /\ \A b \in Addr : Allocated(b)' => b = f.to \/ Allocated(b)
  BY <1>1, <1>2, AllocKeeps
<1>4. PICK n : n = Len(stack)
  OBVIOUS
<1>5. /\ n \in 1 .. Len(stack) /\ Top = stack[n] /\ SubSeq(stack, 1, n) = stack
      /\ DOMAIN stack = 1 .. n
  BY <1>1, <1>4, TopFacts
<1>6. Ref(f.to) \in WrittenField /\ \A a \in Addr : Ref(f.to) = Ref(a) => a = f.to
  BY <1>2 DEF WrittenField, Ref
<1>7. /\ StackInv'
      /\ \A a \in Addr : WrittenRef(a)' => Ref(f.to) = Ref(a) \/ WrittenRef(a)
      /\ \A a \in Addr : \A i \in 1 .. n :
            (IsObject(stack[i]) /\ stack[i].field.to = a) => Pending(a)'
  BY <1>1, <1>2, <1>3, <1>5, <1>6, CutKeeps
<1>8. Opaque \in WrittenValue /\ \A a : ~Refers(Opaque, a)
  BY DEF WrittenValue, Refers, Opaque
<1>9. /\ env' \in Env /\ env'[f.to] = Opaque /\ Opaque # None
      /\ \A b \in Addr : b # f.to => env'[b] = env[b]
  BY <1>1, <1>2, <1>8, SetEnv DEF EnvInv
<1>10. ASSUME NEW a \in Addr, Pending(a) PROVE Accounted(a)'
  <2>1. PICK i \in 1 .. n : IsObject(stack[i]) /\ stack[i].field.to = a
    BY <1>5, <1>10 DEF Pending
  <2>2. Pending(a)'
    BY <1>7, <2>1
  <2>3. QED BY <2>2 DEF Accounted
<1>11. Accounted(f.to)'
  BY <1>9 DEF Accounted
<1>12. \A a, b \in Addr : Refers(env'[b], a) => Refers(env[b], a)
  BY <1>8, <1>9
<1>13. \A a \in Addr : env'[a] # None => env[a] # None \/ Allocated(a)'
  BY <1>3, <1>9
<1>14. \A a \in Addr : env[a] # None => env'[a] # None
  BY <1>9
<1>15. \A a \in Addr : WrittenRef(a)' => WrittenRef(a) \/ Allocated(a)'
  BY <1>3, <1>6, <1>7
<1>16. \A a \in Addr : Allocated(a)' => Allocated(a) \/ Accounted(a)'
  BY <1>3, <1>11
<1>17. EnvInv' /\ RefsAreSet'
  BY <1>1, <1>2, <1>3, <1>9, <1>10, <1>12, <1>13, <1>14, <1>15, <1>16, EnvKeeps
<1>18. QED BY <1>2, <1>7, <1>17, InvPartsNext

\* A pointer whose pointee is begun, or the children of an enum.
LEMMA BeginKeeps ==
    ASSUME Inv, stack # <<>>, Top.todo # <<>>, NEW f \in Pointers, f = Head(Top.todo),
           NEW c \in Calls, c.role \in {"pointee", "children"}, c.field = f,
           c.written = <<>>, CallOK(c), stack' = Append(stack, c),
           OrderOK', StillAllocated,
           \A b \in Addr : Allocated(b)' => Allocated(b) \/ (b = f.to /\ c.role = "pointee"),
           c.role = "pointee" => Allocated(f.to)',
           Writing, UNCHANGED <<next, out, env>>
    PROVE  Inv'
<1>1. Static /\ StackInv /\ EnvInv /\ RefsAreSet
  BY InvParts
<1>2. Static' /\ event' = event /\ out' = out /\ env' = env
  BY <1>1, StaticKept
<1>3. /\ StackInv'
      /\ \A a \in Addr : WrittenRef(a)' => WrittenRef(a)
      /\ \A a \in Addr : Pending(a) => Pending(a)'
      /\ c.role = "pointee" => Pending(f.to)'
  BY <1>1, <1>2, PushKeeps
<1>4. \A a \in Addr : Pending(a) => Accounted(a)'
  BY <1>3 DEF Accounted
<1>5. \A a \in Addr : Allocated(a)' => Allocated(a) \/ Accounted(a)'
  BY <1>3 DEF Accounted
<1>6. EnvInv' /\ RefsAreSet'
  BY <1>1, <1>2, <1>3, <1>4, <1>5, EnvKeeps DEF EnvInv
<1>7. QED BY <1>2, <1>3, <1>6, InvPartsNext

\* A pointer that is followed.
LEMMA FollowKeeps ==
    ASSUME Inv, NEW f \in Pointers, AtField(f), AllocEnv(f.to), WritePointee(f, Top.r - 1),
           Writing, UNCHANGED <<next, out>>
    PROVE  Inv'
<1>1. Static /\ StackInv /\ EnvInv /\ RefsAreSet
  BY InvParts
<1>2. stack # <<>> /\ Top.todo # <<>> /\ f = Head(Top.todo) /\ Top.r > 0
  BY DEF AtField
<1>3. CASE Top.r - 1 = 0
  BY <1>2, <1>3, CutPointee DEF WritePointee
<1>4. CASE Top.r - 1 # 0
  <2>1. PICK n : n = Len(stack)
    OBVIOUS
  <2>2. Top.r \in Nat
    BY <1>1, <1>2, <2>1, TopFacts
  <2>3. PICK r \in Nat : r = Top.r - 1 - 1
    BY <1>2, <1>4, <2>2
  <2>4. PICK todo \in Seq(Fields) : todo = heap[f.to]
    BY <1>1 DEF Static, heap, Pointers
  <2>5. PICK c : c = Call("pointee", f, todo, r)
    OBVIOUS
  <2>6. /\ c.role = "pointee" /\ c.field = f /\ c.written = <<>> /\ c.todo = todo
        /\ c \in Calls
    BY <2>5 DEF Call, Calls, Fields
  <2>7. CallOK(c)
    BY <2>4, <2>6 DEF CallOK, IsObject, Holds
  <2>8. stack' = Append(stack, c) /\ env' = env
    BY <1>4, <2>3, <2>4, <2>5 DEF WritePointee
  <2>9. /\ OrderOK' /\ StillAllocated /\ Allocated(f.to)'
        /\ \A b \in Addr : Allocated(b)' => b = f.to \/ Allocated(b)
    BY <1>1, AllocKeeps DEF Pointers
  <2>10. QED BY <1>2, <2>6, <2>7, <2>8, <2>9, BeginKeeps
<1>5. QED BY <1>3, <1>4

\* A reference to what has been written already, or is being written.
LEMMA ReferenceKeeps ==
    ASSUME Inv, NEW f \in Pointers, AtField(f), AllocEnv(f.to), Allocated(f.to),
           stack' = Wrote(stack, Ref(f.to)), Writing, UNCHANGED <<next, out, env>>
    PROVE  Inv'
<1>1. Static /\ StackInv /\ EnvInv /\ RefsAreSet
  BY InvParts
<1>2. Static' /\ event' = event /\ out' = out /\ f.to \in Addr
  BY <1>1, StaticKept DEF Pointers, AtField
<1>3. /\ OrderOK' /\ StillAllocated /\ Allocated(f.to)'
      /\ \A b \in Addr : Allocated(b)' => b = f.to \/ Allocated(b)
  BY <1>1, <1>2, AllocKeeps
<1>4. PICK n : n = Len(stack)
  OBVIOUS
<1>5. /\ n \in 1 .. Len(stack) /\ Top = stack[n] /\ SubSeq(stack, 1, n) = stack
      /\ DOMAIN stack = 1 .. n /\ Top.todo # <<>>
  BY <1>1, <1>4, TopFacts DEF AtField
<1>6. Ref(f.to) \in WrittenField /\ \A a \in Addr : Ref(f.to) = Ref(a) => a = f.to
  BY <1>2 DEF WrittenField, Ref
<1>7. /\ StackInv'
      /\ \A a \in Addr : WrittenRef(a)' => Ref(f.to) = Ref(a) \/ WrittenRef(a)
      /\ \A a \in Addr : \A i \in 1 .. n :
            (IsObject(stack[i]) /\ stack[i].field.to = a) => Pending(a)'
  BY <1>1, <1>2, <1>3, <1>5, <1>6, CutKeeps
<1>8. ASSUME NEW a \in Addr, Pending(a) PROVE Accounted(a)'
  <2>1. PICK i \in 1 .. n : IsObject(stack[i]) /\ stack[i].field.to = a
    BY <1>5, <1>8 DEF Pending
  <2>2. Pending(a)'
    BY <1>7, <2>1
  <2>3. QED BY <2>2 DEF Accounted
<1>9. \A a \in Addr : WrittenRef(a)' => WrittenRef(a) \/ Allocated(a)'
  BY <1>3, <1>6, <1>7
<1>10. \A a \in Addr : Allocated(a)' => Allocated(a)
  BY <1>3
<1>11. EnvInv' /\ RefsAreSet'
  BY <1>1, <1>2, <1>3, <1>8, <1>9, <1>10, EnvKeeps DEF EnvInv
<1>12. QED BY <1>2, <1>7, <1>11, InvPartsNext

\* An object is complete.
LEMMA PointeeKeeps ==
    ASSUME Inv, PointeeWritten
    PROVE  Inv'
<1>1. Static /\ StackInv /\ EnvInv /\ RefsAreSet
  BY InvParts
<1>2. stack # <<>> /\ Top.role = "pointee" /\ Writing /\ UNCHANGED <<next, order, out>>
  BY DEF PointeeWritten
<1>3. Static' /\ event' = event /\ out' = out /\ StillAllocated
  BY <1>1, <1>2, StaticKept DEF StillAllocated, Allocated
<1>4. PICK n : n = Len(stack)
  OBVIOUS
<1>5. /\ n \in 1 .. Len(stack) /\ n - 1 \in 1 .. Len(stack) /\ stack[n - 1].todo # <<>>
      /\ Top = stack[n] /\ Below = SubSeq(stack, 1, n - 1)
      /\ DOMAIN stack = 1 .. n /\ Top.written \in Seq(WrittenField) /\ Top.field.to \in Addr
  BY <1>1, <1>2, <1>4, TopFacts
<1>6. PICK a \in Addr : a = Top.field.to
  BY <1>5
<1>7. PICK w \in Seq(WrittenField) : w = Top.written
  BY <1>5
<1>8. Allocated(a)
  BY <1>1, <1>2, <1>5, <1>6 DEF StackInv, CallsTyped
<1>9. Ref(a) \in WrittenField /\ \A b \in Addr : Ref(a) = Ref(b) => b = a
  BY DEF WrittenField, Ref
<1>10. stack' = Wrote(SubSeq(stack, 1, n - 1), Ref(a)) /\ env' = [env EXCEPT ![a] = Struct(w)]
  BY <1>5, <1>6, <1>7 DEF PointeeWritten
<1>11. /\ StackInv'
       /\ \A b \in Addr : WrittenRef(b)' => Ref(a) = Ref(b) \/ WrittenRef(b)
       /\ \A b \in Addr : \A i \in 1 .. n - 1 :
             (IsObject(stack[i]) /\ stack[i].field.to = b) => Pending(b)'
  BY <1>1, <1>3, <1>5, <1>9, <1>10, CutKeeps
<1>12. Struct(w) \in WrittenValue /\ \A b : Refers(Struct(w), b) => RefersFrom(w, b)
  BY DEF WrittenValue, Struct, Refers, RefersFrom
<1>13. /\ env' \in Env /\ env'[a] = Struct(w) /\ Struct(w) # None
       /\ \A b \in Addr : b # a => env'[b] = env[b]
  BY <1>1, <1>10, <1>12, SetEnv DEF EnvInv
<1>14. ASSUME NEW b \in Addr, Pending(b) PROVE Accounted(b)'
  <2>1. PICK i \in 1 .. n : IsObject(stack[i]) /\ stack[i].field.to = b
    BY <1>5, <1>14 DEF Pending
  <2>2. CASE i = n
    BY <1>5, <1>6, <1>13, <2>1, <2>2 DEF Accounted
  <2>3. CASE i # n
    <3>1. Pending(b)'
      BY <1>5, <1>11, <2>1, <2>3
    <3>2. QED BY <3>1 DEF Accounted
  <2>4. QED BY <2>2, <2>3
<1>15. \A b, x \in Addr : Refers(env'[x], b) => Refers(env[x], b) \/ WrittenRef(b)
  BY <1>5, <1>7, <1>12, <1>13 DEF WrittenRef
<1>16. \A b \in Addr : env'[b] # None => env[b] # None \/ Allocated(b)'
  BY <1>3, <1>8, <1>13 DEF StillAllocated
<1>17. \A b \in Addr : env[b] # None => env'[b] # None
  BY <1>13
<1>18. \A b \in Addr : WrittenRef(b)' => WrittenRef(b) \/ Allocated(b)'
  BY <1>3, <1>8, <1>9, <1>11 DEF StillAllocated
<1>19. OrderOK' /\ \A b \in Addr : Allocated(b)' => Allocated(b)
  BY <1>1, <1>2 DEF EnvInv, OrderOK, Allocated
<1>20. EnvInv' /\ RefsAreSet'
  BY <1>1, <1>3, <1>13, <1>14, <1>15, <1>16, <1>17, <1>18, <1>19, EnvKeeps
<1>21. QED BY <1>3, <1>11, <1>20, InvPartsNext

\* The children of an enum are begun.
LEMMA ChildrenKeep ==
    ASSUME Inv, WriteChildren
    PROVE  Inv'
<1>1. Static /\ StackInv /\ EnvInv /\ RefsAreSet
  BY InvParts
<1>2. PICK f \in Pointers :
        /\ AtField(f)
        /\ stack' = Append(stack, Call("children", f, <<[f EXCEPT !.lost = FALSE]>>, Top.r - 1))
        /\ Writing /\ UNCHANGED <<next, order, env, out>>
  BY DEF WriteChildren
<1>3. stack # <<>> /\ Top.todo # <<>> /\ f = Head(Top.todo) /\ Top.r > 0
  BY <1>2 DEF AtField
<1>4. PICK r \in Nat : r = Top.r - 1
  <2>1. PICK n : n = Len(stack)
    OBVIOUS
  <2>2. Top.r \in Nat
    BY <1>1, <1>3, <2>1, TopFacts
  <2>3. QED BY <1>3, <2>2
<1>5. PICK g \in Pointers : g = [f EXCEPT !.lost = FALSE] /\ g.to = f.to
  <2>1. [f EXCEPT !.lost = FALSE] \in Pointers /\ [f EXCEPT !.lost = FALSE].to = f.to
    BY DEF Pointers
  <2>2. QED BY <2>1
<1>6. PICK c : c = [role |-> "children", field |-> f, todo |-> <<g>>, written |-> <<>>, r |-> r]
  OBVIOUS
<1>7. /\ c.role = "children" /\ c.field = f /\ c.written = <<>> /\ c.todo = <<g>> /\ c \in Calls
  <2>1. f \in Fields /\ <<g>> \in Seq(Fields) /\ <<>> \in Seq(WrittenField)
    BY DEF Fields
  <2>2. QED BY <1>6, <2>1 DEF Calls
<1>8. CallOK(c)
  <2>1. DOMAIN c.todo = {1} /\ c.todo[1] = g
    BY <1>7
  <2>2. QED BY <1>5, <1>7, <2>1 DEF CallOK, IsObject
<1>9. stack' = Append(stack, c)
  BY <1>2, <1>4, <1>5, <1>6 DEF Call
<1>10. OrderOK' /\ StillAllocated /\ \A b \in Addr : Allocated(b)' => Allocated(b)
  BY <1>1, <1>2 DEF EnvInv, OrderOK, StillAllocated, Allocated
<1>11. QED BY <1>2, <1>3, <1>7, <1>8, <1>9, <1>10, BeginKeeps

\* Its variant is assumed.
LEMMA AssumedKeeps ==
    ASSUME Inv, FallBack
    PROVE  Inv'
<1>1. Static /\ StackInv /\ EnvInv /\ RefsAreSet
  BY InvParts
<1>2. stack # <<>> /\ Writing /\ UNCHANGED <<next, order, env, out>>
  BY DEF FallBack
<1>3. Static' /\ event' = event /\ StillAllocated
  BY <1>1, <1>2, StaticKept DEF StillAllocated, Allocated
<1>4. limit \in Nat
  BY <1>1, EventsAssumption DEF Static
<1>5. /\ StackInv'
      /\ \A a \in Addr : WrittenRef(a)' => WrittenRef(a)
      /\ \A a \in Addr : Pending(a) => Pending(a)'
  BY <1>1, <1>3, <1>4, FallBackKeeps
<1>6. \A a \in Addr : Pending(a) => Accounted(a)'
  BY <1>5 DEF Accounted
<1>7. OrderOK' /\ \A b \in Addr : Allocated(b)' => Allocated(b)
  BY <1>1, <1>2 DEF EnvInv, OrderOK, Allocated
<1>8. EnvInv' /\ RefsAreSet'
  BY <1>1, <1>2, <1>3, <1>5, <1>6, <1>7, EnvKeeps DEF EnvInv
<1>9. QED BY <1>3, <1>5, <1>8, InvPartsNext

\* When a field cannot be read, what is being written leads to it.
LEMMA PendingIsBad ==
    ASSUME Inv, AtField(BadField), NEW a \in Addr, Pending(a)
    PROVE  HoldsBad(a)
<1>1. StackInv
  BY InvParts
<1>2. PICK n : n = Len(stack)
  OBVIOUS
<1>3. /\ n \in Nat /\ DOMAIN stack = 1 .. n /\ Top = stack[n] /\ n \in 1 .. n /\ CallOK(Top)
      /\ Top.todo \in Seq(Fields) /\ Top.todo # <<>> /\ Top.todo[1] = BadField
      /\ Top \in Calls
  BY <1>1, <1>2, TopFacts DEF AtField
<1>4. PICK i \in 1 .. n : IsObject(stack[i]) /\ stack[i].field.to = a
  BY <1>3 DEF Pending
<1>5. BadField \notin Pointers
  BY DEF BadField, Pointers
<1>6. 1 \in DOMAIN Top.todo
  BY <1>3
<1>7. IsObject(Top) => Holds(Top.field.to, BadField)
  BY <1>3, <1>6 DEF CallOK
<1>8. Top.role = "variable" \/ IsObject(Top)
  BY <1>3, <1>5, <1>6 DEF CallOK, IsObject, Calls
<1>9. CASE i = n
  BY <1>3, <1>4, <1>7, <1>9 DEF HoldsBad, Holds
<1>10. CASE i # n
  <2>1. IsObject(Top)
    BY <1>1, <1>3, <1>4, <1>8, <1>10 DEF StackInv, StackOK
  <2>2. Top.field.to \in Within(heap, a)
    BY <1>1, <1>3, <1>4, <1>10 DEF StackInv, Descends
  <2>3. QED BY <1>7, <2>1, <2>2 DEF HoldsBad, Holds
<1>11. QED BY <1>9, <1>10

\* What a variable adds to the event.
LEMMA OutGrows ==
    ASSUME out \in Seq(Bytes), NEW b \in Bytes, out' = Append(out, b)
    PROVE  /\ out' \in Seq(Bytes) /\ Len(out') = Len(out) + 1
           /\ \A a \in Addr : SetAt(a) # {} => SetAt(a)' # {}
           /\ \A a \in Addr : b.env[a] # None => SetAt(a)' # {}
           /\ \A a \in Addr : IsReferred(a)' =>
                 IsReferred(a) \/ Refers(b.value, a) \/ \E x \in Addr : Refers(b.env[x], a)
<1> DEFINE o == out'
<1>1. PICK n \in Nat : n = Len(out)
  OBVIOUS
<1>2. /\ o \in Seq(Bytes) /\ Len(o) = n + 1 /\ DOMAIN o = 1 .. n + 1 /\ DOMAIN out = 1 .. n
      /\ o[n + 1] = b /\ \A i \in 1 .. n : o[i] = out[i]
  BY <1>1
<1> HIDE DEF o
<1>3. \A i \in 1 .. n : i \in 1 .. n + 1
  OBVIOUS
<1>4. ASSUME NEW a \in Addr, SetAt(a) # {} PROVE SetAt(a)' # {}
  <2>1. PICK i \in 1 .. n : out[i].env[a] # None
    BY <1>2, <1>4 DEF SetAt
  <2>2. i \in DOMAIN o /\ o[i].env[a] # None
    BY <1>2, <1>3, <2>1
  <2>3. QED BY <2>2 DEF SetAt, o
<1>5. ASSUME NEW a \in Addr, b.env[a] # None PROVE SetAt(a)' # {}
  <2>1. n + 1 \in DOMAIN o /\ o[n + 1].env[a] # None
    BY <1>2, <1>5
  <2>2. QED BY <2>1 DEF SetAt, o
<1>6. ASSUME NEW a \in Addr, IsReferred(a)'
      PROVE  IsReferred(a) \/ Refers(b.value, a) \/ \E x \in Addr : Refers(b.env[x], a)
  <2>1. PICK i \in DOMAIN o : Refers(o[i].value, a) \/ \E x \in Addr : Refers(o[i].env[x], a)
    BY <1>6 DEF IsReferred, Refers, o
  <2>2. CASE i = n + 1
    BY <1>2, <2>1, <2>2
  <2>3. CASE i # n + 1
    <3>1. i \in DOMAIN out /\ o[i] = out[i]
      BY <1>2, <2>3
    <3>2. QED BY <2>1, <3>1 DEF IsReferred
  <2>4. QED BY <2>2, <2>3
<1>7. QED BY <1>1, <1>2, <1>4, <1>5, <1>6 DEF o

\* What follows when a variable ends, read or not.
LEMMA EndKeeps ==
    ASSUME Inv, stack # <<>>, NEW b \in Bytes, out' = Append(out, b),
           stack' = <<>>, next' = next + 1, order' = order, env' \in Env, Writing,
           \A a \in Addr : env'[a] # None => env'[a] = env[a],
           \A a \in Addr : env[a] # None => env'[a] # None \/ b.env[a] # None,
           \A a \in Addr : Pending(a) => HoldsBad(a),
           \A a \in Addr : Refers(b.value, a) \/ (\E x \in Addr : Refers(b.env[x], a)) =>
                              Allocated(a) /\ \A x \in Addr : env'[x] = None
    PROVE  Inv'
<1>1. Static /\ StackInv /\ EnvInv /\ RefsAreSet
  BY InvParts
<1>2. /\ out' \in Seq(Bytes) /\ Len(out') = Len(out) + 1
      /\ \A a \in Addr : SetAt(a) # {} => SetAt(a)' # {}
      /\ \A a \in Addr : b.env[a] # None => SetAt(a)' # {}
      /\ \A a \in Addr : IsReferred(a)' =>
            IsReferred(a) \/ Refers(b.value, a) \/ \E x \in Addr : Refers(b.env[x], a)
  BY <1>1, OutGrows DEF Static
<1>3. event' = event /\ entry' = entry /\ values' = values /\ limit' = limit
  BY DEF Writing
<1>4. Static'
  <2>1. Len(out) \in Nat /\ Len(values) <= Len(out) + 1
    BY <1>1 DEF Static
  <2>2. next' \in 1 .. Len(event.variables) + 1
    BY <1>1 DEF Static, Busy
  <2>3. QED BY <1>1, <1>2, <1>3, <2>1, <2>2 DEF Static, Busy
<1>5. StackInv' /\ \A a \in Addr : ~WrittenRef(a)'
  BY NoCall
<1>6. \A a \in Addr : HoldsBad(a)' = HoldsBad(a) /\ Allocated(a)' = Allocated(a)
  BY <1>3 DEF HoldsBad, heap, Allocated
<1>7. ASSUME NEW a \in Addr, Allocated(a) PROVE env'[a] # None \/ SetAt(a)' # {} \/ HoldsBad(a)
  <2>1. env[a] # None \/ SetAt(a) # {} \/ HoldsBad(a) \/ Pending(a)
    BY <1>1, <1>7 DEF EnvInv, AllAccounted, Accounted
  <2>2. QED BY <1>2, <2>1
<1>8. AllAccounted'
  BY <1>6, <1>7 DEF AllAccounted, Accounted
<1>9. ASSUME NEW a \in Addr, \E x \in Addr : Refers(env'[x], a) PROVE Allocated(a)
  <2>1. PICK x \in Addr : Refers(env'[x], a)
    BY <1>9
  <2>2. env'[x] # None
    BY <2>1 DEF Refers, None
  <2>3. Refers(env[x], a)
    BY <2>1, <2>2
  <2>4. QED BY <1>1, <2>3 DEF EnvInv, RefsAllocated
<1>10. RefsAllocated'
  BY <1>5, <1>6, <1>9 DEF RefsAllocated, WrittenRef, Refers
<1>11. EnvInv'
  BY <1>1, <1>6, <1>8, <1>10 DEF EnvInv, OrderOK
<1>12. ASSUME NEW a \in Addr, SetAt(a)' = {}, IsReferred(a)' PROVE HoldsBad(a)
  <2>1. CASE IsReferred(a)
    BY <1>1, <1>2, <1>12, <2>1 DEF RefsAreSet
  <2>2. CASE ~IsReferred(a)
    BY <1>2, <1>7, <1>12, <2>2
  <2>3. QED BY <2>1, <2>2
<1>13. RefsAreSet'
  BY <1>6, <1>12 DEF RefsAreSet
<1>14. QED BY <1>4, <1>5, <1>11, <1>13, InvPartsNext

\* A field that cannot be read.
LEMMA FailKeeps ==
    ASSUME Inv, Fail
    PROVE  Inv'
<1>1. Static /\ StackInv /\ EnvInv /\ RefsAreSet
  BY InvParts
<1>2. AtField(BadField) /\ stack # <<>> /\ Writing /\ UNCHANGED <<order, env>>
  BY DEF Fail, AtField
<1>3. \A a \in Addr : Pending(a) => HoldsBad(a)
  BY <1>2, PendingIsBad
<1>4. Opaque \in WrittenField /\ Opaque \in WrittenValue /\ \A a \in Addr : Opaque # Ref(a)
  BY DEF WrittenField, WrittenValue, Opaque, Ref
<1>5. ASSUME NEW i \in Fallbacks, stack' = Wrote(SubSeq(stack, 1, i - 1), Opaque),
             UNCHANGED <<next, out>>
      PROVE  Inv'
  <2>1. i - 1 \in 1 .. Len(stack) /\ stack[i - 1].todo # <<>>
    BY <1>1, <1>5 DEF Fallbacks, StackInv, CallsTyped, StackOK
  <2>2. Static' /\ event' = event /\ StillAllocated
    BY <1>1, <1>2, <1>5, StaticKept DEF StillAllocated, Allocated
  <2>3. PICK m : m = i - 1
    OBVIOUS
  <2>4. StackInv' /\ \A a \in Addr : WrittenRef(a)' => WrittenRef(a)
    BY <1>1, <1>4, <1>5, <2>1, <2>2, <2>3, CutKeeps
  <2>5. \A a \in Addr : HoldsBad(a)' = HoldsBad(a)
    BY <2>2 DEF HoldsBad, heap
  <2>6. \A a \in Addr : Pending(a) => Accounted(a)'
    BY <1>3, <2>5 DEF Accounted
  <2>7. OrderOK' /\ \A b \in Addr : Allocated(b)' => Allocated(b)
    BY <1>1, <1>2 DEF EnvInv, OrderOK, Allocated
  <2>8. EnvInv' /\ RefsAreSet'
    BY <1>1, <1>2, <1>5, <2>2, <2>4, <2>6, <2>7, EnvKeeps DEF EnvInv
  <2>9. QED BY <2>2, <2>4, <2>8, InvPartsNext
<1>6. ASSUME stack' = <<>>, next' = next + 1,
             out' = Append(out, [keys |-> <<>>, env |-> NoEnv, value |-> Opaque])
      PROVE  Inv'
  <2>1. PICK b : b = [keys |-> <<>>, env |-> NoEnv, value |-> Opaque]
    OBVIOUS
  <2>2. b \in Bytes /\ b.env = NoEnv /\ b.value = Opaque
    BY <1>4, <2>1 DEF Bytes, NoEnv, Env
  <2>3. \A a \in Addr : ~Refers(b.value, a) /\ \A x \in Addr : ~Refers(b.env[x], a)
    BY <2>2 DEF Refers, NoEnv, Opaque, None
  <2>4. env' \in Env /\ env' = env /\ order' = order
    BY <1>1, <1>2 DEF EnvInv
  <2>5. QED BY <1>2, <1>3, <1>6, <2>1, <2>2, <2>3, <2>4, EndKeeps
<1>7. QED BY <1>2, <1>5, <1>6 DEF Fail

\* A variable is complete, with nothing under way but itself.
LEMMA VariableKeeps ==
    ASSUME Inv, VariableWritten
    PROVE  Inv'
<1>1. Static /\ StackInv /\ EnvInv /\ RefsAreSet
  BY InvParts
<1>2. PICK n : n = Len(stack)
  OBVIOUS
<1>3. /\ stack # <<>> /\ Top.role = "variable" /\ DOMAIN stack = 1 .. n /\ Top = stack[n]
      /\ n \in 1 .. n /\ Top.written \in Seq(WrittenField)
  BY <1>1, <1>2, TopFacts DEF VariableWritten
<1>4. n = 1
  BY <1>1, <1>3 DEF StackInv, StackOK
<1>5. \A a \in Addr : ~Pending(a)
  BY <1>3, <1>4 DEF Pending, IsObject
<1>6. PICK w \in Seq(WrittenField) : w = Top.written
  BY <1>3
<1>7. PICK b : b = [keys |-> EmitOrder, env |-> env, value |-> Struct(w)]
  OBVIOUS
<1>8. EmitOrder \in Seq(Addr)
  BY <1>1 DEF EnvInv, OrderOK, EmitOrder
<1>9. Struct(w) \in WrittenValue /\ \A a : Refers(Struct(w), a) => RefersFrom(w, a)
  BY DEF WrittenValue, Struct, Refers, RefersFrom
<1>10. b \in Bytes /\ b.env = env /\ b.value = Struct(w)
  BY <1>1, <1>7, <1>8, <1>9 DEF Bytes, EnvInv
<1>11. /\ out' = Append(out, b) /\ stack' = <<>> /\ next' = next + 1 /\ order' = order
       /\ env' = NoEnv /\ Writing
  BY <1>6, <1>7 DEF VariableWritten
<1>12. env' \in Env /\ \A a \in Addr : env'[a] = None
  BY <1>11 DEF NoEnv, Env
<1>13. ASSUME NEW a \in Addr, Refers(b.value, a) \/ \E x \in Addr : Refers(b.env[x], a)
       PROVE  Allocated(a)
  <2>1. WrittenRef(a) \/ \E x \in Addr : Refers(env[x], a)
    BY <1>3, <1>6, <1>9, <1>10, <1>13 DEF WrittenRef
  <2>2. QED BY <1>1, <2>1 DEF EnvInv, RefsAllocated, WrittenRef
<1>14. QED BY <1>3, <1>5, <1>10, <1>11, <1>12, <1>13, EndKeeps

\* The next variable.
LEMMA BeginVariableKeeps ==
    ASSUME Inv, BeginVariable
    PROVE  Inv'
<1>1. Static /\ StackInv /\ EnvInv /\ RefsAreSet
  BY InvParts
<1>2. event' = event /\ StillAllocated
  BY DEF BeginVariable, Writing, StillAllocated, Allocated
<1>3. Static'
  BY <1>1 DEF BeginVariable, Writing, Static, Busy
<1>4. PICK c \in Calls : c.role = "variable" /\ c.written = <<>> /\ stack' = <<c>>
  <2>1. limit - 1 \in Nat
    BY <1>1, EventsAssumption DEF Static
  <2>2. event.variables[next] \in Seq(Fields)
    BY <1>1 DEF Static, BeginVariable
  <2>3. PICK c : c = Call("variable", PlainField, event.variables[next], limit - 1)
    OBVIOUS
  <2>4. c \in Calls /\ c.role = "variable" /\ c.written = <<>>
    BY <2>1, <2>2, <2>3 DEF Call, Calls, Fields
  <2>5. QED BY <2>3, <2>4 DEF BeginVariable
<1>5. StackInv' /\ \A a \in Addr : ~WrittenRef(a)'
  BY <1>4, FirstCall
<1>6. \A a \in Addr : ~Pending(a)
  BY DEF BeginVariable, Pending
<1>7. OrderOK' /\ out' = out /\ env' = env /\ \A b \in Addr : Allocated(b)' => Allocated(b)
  BY <1>1 DEF BeginVariable, EnvInv, OrderOK, Allocated
<1>8. EnvInv' /\ RefsAreSet'
  BY <1>1, <1>2, <1>5, <1>6, <1>7, EnvKeeps DEF EnvInv
<1>9. QED BY <1>3, <1>5, <1>8, InvPartsNext

-----------------------------------------------------------------------------
(***************************************************************************)
(* The invariant holds of every behaviour.                                 *)
(***************************************************************************)
LEMMA InitInv == Init => Inv
<1> SUFFICES ASSUME Init PROVE Inv
  OBVIOUS
<1>1. Static
  BY EventsAssumption DEF Init, Static, Busy
<1>2. StackInv
  BY DEF Init, StackInv, CallsTyped, StackOK, Descends
<1>3. EnvInv
  <2>1. order = <<>> /\ env = NoEnv /\ stack = <<>> /\ \A a \in Addr : ~Allocated(a)
    BY DEF Init, Allocated
  <2>2. OrderOK
    BY <2>1 DEF OrderOK
  <2>3. env \in Env /\ \A a \in Addr : env[a] = None
    BY <2>1 DEF NoEnv, Env
  <2>4. \A a, b \in Addr : ~Refers(env[b], a)
    BY <2>3 DEF Refers, None
  <2>5. AllAccounted /\ RefsAllocated
    BY <2>1, <2>4 DEF AllAccounted, RefsAllocated
  <2>6. QED BY <2>2, <2>3, <2>5 DEF EnvInv
<1>4. RefsAreSet
  BY DEF Init, RefsAreSet, IsReferred
<1>5. QED BY <1>1, <1>2, <1>3, <1>4, InvParts

\* What does not touch the writer's state keeps it.
LEMMA ReadKeeps ==
    ASSUME Inv, Read \/ UNCHANGED vars
    PROVE  Inv'
<1>1. Static /\ StackInv /\ EnvInv /\ RefsAreSet
  BY InvParts
<1>2. UNCHANGED <<event, limit, next, stack, order, env, out>>
  BY DEF Read, ReadEntry, ReadValue, Reads, vars
<1>3. entry' \in Nat /\ Len(values') <= Len(out)
  <2>1. CASE ReadEntry
    BY <1>1, <2>1 DEF ReadEntry, Static
  <2>2. CASE ReadValue
    <3>1. Len(values') = Len(values) + 1
      BY <2>2 DEF ReadValue
    <3>2. QED BY <1>1, <2>2, <3>1 DEF ReadValue, Reads, Static
  <2>3. CASE UNCHANGED vars
    BY <1>1, <2>3 DEF vars, Static
  <2>4. QED BY <2>1, <2>2, <2>3 DEF Read
<1>4. Static'
  BY <1>1, <1>2, <1>3 DEF Static, Busy
<1>5. StackInv'
  BY <1>1, <1>2 DEF StackInv, CallsTyped, StackOK, Descends, CallOK, IsObject, Holds, heap, Allocated
<1>6. EnvInv'
  BY <1>1, <1>2 DEF EnvInv, OrderOK, AllAccounted, Accounted, SetAt, HoldsBad, Pending, IsObject, heap,
                    RefsAllocated, RefersFrom, Refers, Allocated
<1>7. RefsAreSet'
  BY <1>1, <1>2 DEF RefsAreSet, SetAt, IsReferred, Refers, HoldsBad, heap
<1>8. QED BY <1>4, <1>5, <1>6, <1>7, InvPartsNext

LEMMA NextInv == Inv /\ [Next]_vars => Inv'
<1> SUFFICES ASSUME Inv, [Next]_vars PROVE Inv'
  OBVIOUS
<1>1. CASE BeginVariable
  BY <1>1, BeginVariableKeeps
<1>2. CASE WriteOpaque
  BY <1>2, WriteFieldKeeps DEF WriteOpaque
<1>3. CASE WritePlain
  BY <1>3, WriteFieldKeeps DEF WritePlain, AtField
<1>4. CASE WriteRef
  <2>1. PICK f \in Pointers :
          /\ AtField(f) /\ AllocEnv(f.to)
          /\ IF Allocated(f.to)
             THEN stack' = Wrote(stack, Ref(f.to)) /\ UNCHANGED env
             ELSE WritePointee(f, Top.r - 1)
          /\ Writing /\ UNCHANGED <<next, out>>
    BY <1>4 DEF WriteRef
  <2>2. CASE Allocated(f.to)
    BY <2>1, <2>2, ReferenceKeeps
  <2>3. CASE ~Allocated(f.to)
    BY <2>1, <2>3, FollowKeeps
  <2>4. QED BY <2>2, <2>3
<1>5. CASE WriteOpt
  BY <1>5, FollowKeeps DEF WriteOpt
<1>6. CASE PointeeWritten
  BY <1>6, PointeeKeeps
<1>7. CASE WriteChildren
  BY <1>7, ChildrenKeep
<1>8. CASE FallBack
  BY <1>8, AssumedKeeps
<1>9. CASE GiveUp
  <2>1. Opaque \in WrittenField /\ \A a \in Addr : Opaque # Ref(a)
    BY DEF WrittenField, Opaque, Ref
  <2>2. QED BY <1>9, <2>1, PopKeeps DEF GiveUp
<1>10. CASE FallbackWritten
  <2>1. stack # <<>> /\ Top.role = "fallback" /\ Top.todo = <<>>
    BY <1>10 DEF FallbackWritten
  <2>2. PICK n : n = Len(stack)
    OBVIOUS
  <2>3. /\ n \in 1 .. n /\ DOMAIN stack = 1 .. n /\ Top = stack[n] /\ CallOK(Top)
        /\ Top.written \in Seq(WrittenField)
    BY <2>1, <2>2, InvParts, TopFacts
  <2>4. Len(Top.written) = 1
    BY <2>1, <2>3 DEF CallOK
  <2>5. 1 \in DOMAIN Top.written /\ Top.written[1] \in WrittenField
    BY <2>3, <2>4
  <2>6. \A a \in Addr : Top.written[1] = Ref(a) => WrittenRef(a)
    BY <2>3, <2>5 DEF WrittenRef, RefersFrom
  <2>7. QED BY <1>10, <2>1, <2>5, <2>6, PopKeeps DEF FallbackWritten
<1>11. CASE Fail
  BY <1>11, FailKeeps
<1>12. CASE VariableWritten
  BY <1>12, VariableKeeps
<1>13. CASE Read \/ UNCHANGED vars
  BY <1>13, ReadKeeps
<1>14. QED
  BY <1>1, <1>2, <1>3, <1>4, <1>5, <1>6, <1>7, <1>8, <1>9, <1>10, <1>11, <1>12, <1>13
     DEF Next, Write, Done

\* The environment fits the calls: its keys stay distinct, what is set is among them, and
\* set_env finds its address (value_writer.rs, p_set_env), whatever the memory and the limit.
THEOREM EnvFitsCalls == Spec => []TypeOK
<1>1. Inv => TypeOK
  BY DEF Inv
<1>2. QED BY <1>1, InitInv, NextInv, PTL DEF Spec

\* Nothing is forgotten: what a reference in the event points to is in the event, unless it cannot
\* be read (value/base.rs, alloc_env and set_env), however objects are shared and wherever
\* the limit, an error or an enum of lost variant cuts the writing short.
THEOREM NothingIsForgotten == Spec => []RefsAreSet
<1>1. Inv => RefsAreSet
  BY DEF Inv
<1>2. QED BY <1>1, InitInv, NextInv, PTL DEF Spec

-----------------------------------------------------------------------------
(***************************************************************************)
(* Where all pointers are references, an object is in one place at most:   *)
(* it is being written, or set in env, or in one entry of the event.  It   *)
(* is then allocated, and a reference to it is not followed.               *)
(***************************************************************************)
NoOptCall(c) == ~IsOpt(c.field) /\ \A k \in DOMAIN c.todo : ~IsOpt(c.todo[k])

NeverOpt == \A i \in DOMAIN stack : NoOptCall(stack[i])

BegunOnce ==
    \A i, j \in DOMAIN stack :
        (IsObject(stack[i]) /\ IsObject(stack[j]) /\ stack[i].field.to = stack[j].field.to) => i = j

InOnePlace(a) ==
    /\ Pending(a) => Allocated(a) /\ env[a] = None /\ SetAt(a) = {}
    /\ env[a] # None => Allocated(a) /\ SetAt(a) = {}
    /\ SetAt(a) # {} => Allocated(a)
    /\ \A i, j \in SetAt(a) : i = j

OnePlace == \A a \in Addr : InOnePlace(a)

OnceInv == Somewhere(IsOpt) \/ (NeverOpt /\ BegunOnce /\ OnePlace)

\* The objects being written were being written before the step.
ObjectsOfBefore ==
    \A i \in DOMAIN stack' :
        IsObject(stack'[i]) => /\ i \in DOMAIN stack
                               /\ IsObject(stack[i]) /\ stack[i].field = stack'[i].field

\* Where no pointer of the event is of the other kind, none of a variable or an object is.
LEMMA NowhereOpt ==
    ASSUME ~Somewhere(IsOpt)
    PROVE  /\ \A i \in DOMAIN event.variables : \A j \in DOMAIN event.variables[i] :
                 ~IsOpt(event.variables[i][j])
           /\ \A a \in Addr : \A j \in DOMAIN heap[a] : ~IsOpt(heap[a][j])
  BY DEF Somewhere

LEMMA OptIsStatic == event' = event => (Somewhere(IsOpt)' <=> Somewhere(IsOpt))
  BY DEF Somewhere, IsOpt, heap

\* A step that begins no object and sets none.
LEMMA NoneBegun ==
    ASSUME BegunOnce, OnePlace, ObjectsOfBefore, StillAllocated, env' = env, out' = out
    PROVE  BegunOnce' /\ OnePlace'
<1>1. ASSUME NEW a \in Addr PROVE SetAt(a)' = SetAt(a) /\ (Pending(a)' => Pending(a))
  BY DEF SetAt, Pending, ObjectsOfBefore, IsObject
<1>2. BegunOnce'
  BY DEF BegunOnce, ObjectsOfBefore, IsObject
<1>3. ASSUME NEW a \in Addr PROVE InOnePlace(a)'
  <2>1. InOnePlace(a)
    BY DEF OnePlace
  <2>2. QED BY <1>1, <2>1 DEF InOnePlace, StillAllocated
<1>4. QED BY <1>2, <1>3 DEF OnePlace

\* A step that sets an object that was in no place but was being written.
LEMMA OneSet ==
    ASSUME BegunOnce, OnePlace, ObjectsOfBefore, StillAllocated, out' = out,
           env \in Env, NEW a \in Addr, NEW v \in WrittenValue, env' = [env EXCEPT ![a] = v],
           SetAt(a) = {}, Allocated(a)', ~Pending(a)'
    PROVE  BegunOnce' /\ OnePlace'
<1>1. ASSUME NEW b \in Addr PROVE SetAt(b)' = SetAt(b) /\ (Pending(b)' => Pending(b))
  BY DEF SetAt, Pending, ObjectsOfBefore, IsObject
<1>2. BegunOnce'
  BY DEF BegunOnce, ObjectsOfBefore, IsObject
<1>3. \A b \in Addr : b # a => env'[b] = env[b]
  BY SetEnv
<1>4. ASSUME NEW b \in Addr PROVE InOnePlace(b)'
  <2>1. InOnePlace(b)
    BY DEF OnePlace
  <2>2. CASE b = a
    BY <1>1, <2>1, <2>2 DEF InOnePlace
  <2>3. CASE b # a
    BY <1>1, <1>3, <2>1, <2>3 DEF InOnePlace, StillAllocated
  <2>4. QED BY <2>2, <2>3
<1>5. QED BY <1>2, <1>4 DEF OnePlace

\* A step that begins an object whose address was not allocated.
LEMMA OneBegun ==
    ASSUME BegunOnce, OnePlace, stack \in Seq(Calls), NEW c \in Calls, stack' = Append(stack, c),
           c.field.to \in Addr, ~Allocated(c.field.to), Allocated(c.field.to)',
           StillAllocated, env' = env, out' = out
    PROVE  BegunOnce' /\ OnePlace'
<1>1. PICK n \in Nat : n = Len(stack)
  OBVIOUS
<1>2. PICK t : t = stack'
  OBVIOUS
<1>3. /\ DOMAIN t = 1 .. n + 1 /\ DOMAIN stack = 1 .. n /\ t[n + 1] = c
      /\ \A i \in 1 .. n : t[i] = stack[i]
  BY <1>1, <1>2
<1>4. PICK a \in Addr : a = c.field.to
  OBVIOUS
<1>5. InOnePlace(a) /\ ~Allocated(a)
  BY <1>4 DEF OnePlace
<1>6. env[a] = None /\ SetAt(a) = {} /\ ~Pending(a)
  BY <1>5 DEF InOnePlace
<1>7. \A i \in 1 .. n : IsObject(t[i]) => t[i].field.to # a
  BY <1>3, <1>6 DEF Pending
<1>8. \A i \in 1 .. n + 1 : i \in 1 .. n \/ i = n + 1
  BY <1>1
<1>9. BegunOnce'
  <2>1. \A i, j \in 1 .. n :
            (IsObject(t[i]) /\ IsObject(t[j]) /\ t[i].field.to = t[j].field.to) => i = j
    BY <1>3 DEF BegunOnce
  <2>2. \A i, j \in 1 .. n + 1 :
            (IsObject(t[i]) /\ IsObject(t[j]) /\ t[i].field.to = t[j].field.to) => i = j
    BY <1>3, <1>4, <1>7, <1>8, <2>1
  <2>3. QED BY <1>2, <1>3, <2>2 DEF BegunOnce, IsObject
<1>10. ASSUME NEW b \in Addr, b # a, Pending(b)' PROVE Pending(b)
  <2>1. PICK i \in 1 .. n + 1 : IsObject(t[i]) /\ t[i].field.to = b
    BY <1>2, <1>3, <1>10 DEF Pending, IsObject
  <2>2. i \in 1 .. n
    BY <1>3, <1>4, <1>8, <1>10, <2>1
  <2>3. QED BY <1>3, <2>1, <2>2 DEF Pending
<1>11. \A b \in Addr : SetAt(b)' = SetAt(b)
  BY DEF SetAt
<1>12. ASSUME NEW b \in Addr PROVE InOnePlace(b)'
  <2>1. CASE b = a
    BY <1>4, <1>6, <1>11, <2>1 DEF InOnePlace
  <2>2. CASE b # a
    <3>1. InOnePlace(b)
      BY DEF OnePlace
    <3>2. QED BY <1>10, <1>11, <2>2, <3>1 DEF InOnePlace, StillAllocated
  <2>3. QED BY <2>1, <2>2
<1>13. QED BY <1>9, <1>12 DEF OnePlace

\* A step that ends a variable: what is set goes to the event, or it stays.
LEMMA AllEnded ==
    ASSUME OnePlace, out \in Seq(Bytes), NEW b \in Bytes, out' = Append(out, b),
           stack' = <<>>, order' = order,
           \/ b.env = env /\ \A a \in Addr : env'[a] = None
           \/ env' = env /\ \A a \in Addr : b.env[a] = None
    PROVE  NeverOpt' /\ BegunOnce' /\ OnePlace'
<1>1. PICK n \in Nat : n = Len(out)
  OBVIOUS
<1>2. PICK o : o = out'
  OBVIOUS
<1>3. /\ DOMAIN o = 1 .. n + 1 /\ DOMAIN out = 1 .. n /\ o[n + 1] = b
      /\ \A i \in 1 .. n : o[i] = out[i]
  BY <1>1, <1>2
<1>4. \A i \in 1 .. n + 1 : i \in 1 .. n \/ i = n + 1
  BY <1>1
<1>5. \A a \in Addr : ~Pending(a)' /\ (Allocated(a)' <=> Allocated(a))
  BY DEF Pending, Allocated
<1>6. ASSUME NEW a \in Addr
      PROVE  SetAt(a)' = {i \in 1 .. n + 1 : o[i].env[a] # None} /\ SetAt(a) = {i \in 1 .. n : out[i].env[a] # None}
  BY <1>2, <1>3 DEF SetAt
<1>7. ASSUME NEW a \in Addr PROVE InOnePlace(a)'
  <2>1. InOnePlace(a)
    BY DEF OnePlace
  <2>2. CASE b.env[a] = None
    <3>1. \A i \in 1 .. n + 1 : o[i].env[a] # None => i \in 1 .. n /\ out[i].env[a] # None
      BY <1>3, <1>4, <2>2
    <3>2. \A i \in 1 .. n : out[i].env[a] # None => i \in 1 .. n + 1 /\ o[i].env[a] # None
      BY <1>1, <1>3
    <3>3. SetAt(a)' = SetAt(a)
      BY <1>6, <3>1, <3>2
    <3>4. env'[a] # None => env[a] # None
      OBVIOUS
    <3>5. QED BY <1>5, <2>1, <3>3, <3>4 DEF InOnePlace
  <2>3. CASE b.env[a] # None
    <3>1. env[a] # None /\ env'[a] = None
      BY <2>3
    <3>2. SetAt(a) = {} /\ Allocated(a)
      BY <2>1, <3>1 DEF InOnePlace
    <3>3. \A i \in 1 .. n : out[i].env[a] = None
      BY <1>6, <3>2
    <3>4. SetAt(a)' \subseteq {n + 1}
      BY <1>3, <1>4, <1>6, <3>3
    <3>5. QED BY <1>5, <3>1, <3>2, <3>4 DEF InOnePlace
  <2>4. QED BY <2>2, <2>3
<1>8. NeverOpt' /\ BegunOnce'
  BY DEF NeverOpt, BegunOnce
<1>9. QED BY <1>7, <1>8 DEF OnePlace

\* The last call has written a field, or a call below it has.
LEMMA CutOnce ==
    ASSUME StackInv, NeverOpt, NEW n \in 1 .. Len(stack), stack[n].todo # <<>>,
           NEW v \in WrittenField, stack' = Wrote(SubSeq(stack, 1, n), v)
    PROVE  /\ NeverOpt' /\ ObjectsOfBefore
           /\ DOMAIN stack' = 1 .. n /\ \A i \in 1 .. n : /\ stack'[i].role = stack[i].role
                                                          /\ stack'[i].field = stack[i].field
<1>1. stack \in Seq(Calls) /\ n \in Nat /\ DOMAIN stack = 1 .. Len(stack) /\ n <= Len(stack)
  BY DEF StackInv, CallsTyped
<1>2. PICK t : t = stack'
  OBVIOUS
<1>3. /\ t \in Seq(Calls) /\ Len(t) = n /\ DOMAIN t = 1 .. n
      /\ \A i \in 1 .. n : i < n => t[i] = stack[i]
      /\ t[n].role = stack[n].role /\ t[n].field = stack[n].field
      /\ t[n].todo = Tail(stack[n].todo)
  <2> DEFINE u == Wrote(SubSeq(stack, 1, n), v)
  <2>1. /\ u \in Seq(Calls) /\ Len(u) = n
        /\ \A i \in 1 .. n : i < n => u[i] = stack[i]
        /\ u[n].role = stack[n].role /\ u[n].field = stack[n].field
        /\ u[n].todo = Tail(stack[n].todo) /\ u[n].written = Append(stack[n].written, v)
    BY <1>1, WroteProperties
  <2>2. t = u
    BY <1>2
  <2> HIDE DEF u
  <2>3. QED BY <2>1, <2>2
<1>4. \A i \in 1 .. n : /\ t[i].role = stack[i].role /\ t[i].field = stack[i].field
                        /\ i \in 1 .. Len(stack) /\ (i < n \/ i = n)
  BY <1>1, <1>3
<1>5. ASSUME NEW i \in 1 .. n PROVE NoOptCall(t[i])
  <2>1. NoOptCall(stack[i])
    BY <1>1, <1>4 DEF NeverOpt
  <2>2. CASE i < n
    BY <1>3, <2>1, <2>2
  <2>3. CASE i = n
    <3>1. stack[n] \in Calls
      BY <1>1
    <3>2. PICK q \in Seq(Fields) : q = stack[n].todo /\ q # <<>>
      BY <3>1 DEF Calls
    <3>3. \A k \in DOMAIN Tail(q) : k + 1 \in DOMAIN q /\ Tail(q)[k] = q[k + 1]
      BY <3>2
    <3>4. t[i].todo = Tail(q) /\ t[i].field = stack[i].field
      BY <1>3, <2>3, <3>2
    <3>5. \A k \in DOMAIN q : ~IsOpt(q[k])
      BY <2>1, <2>3, <3>2 DEF NoOptCall
    <3>6. \A k \in DOMAIN t[i].todo : ~IsOpt(t[i].todo[k])
      BY <3>3, <3>4, <3>5
    <3>7. QED BY <2>1, <3>4, <3>6 DEF NoOptCall
  <2>4. QED BY <1>4, <2>2, <2>3
<1>6. NeverOpt'
  BY <1>2, <1>3, <1>5 DEF NeverOpt, NoOptCall, IsOpt
<1>7. ObjectsOfBefore
  BY <1>1, <1>2, <1>3, <1>4 DEF ObjectsOfBefore, IsObject
<1>8. QED BY <1>2, <1>3, <1>4, <1>6, <1>7

\* A call is added to those there were, or to those below the last.
LEMMA PushOnce ==
    ASSUME StackInv, NeverOpt, NEW n \in 0 .. Len(stack), NEW c \in Calls, NoOptCall(c),
           stack' = Append(SubSeq(stack, 1, n), c)
    PROVE  NeverOpt' /\ (~IsObject(c) => ObjectsOfBefore)
<1>1. stack \in Seq(Calls) /\ n \in Nat /\ DOMAIN stack = 1 .. Len(stack) /\ n <= Len(stack)
  BY DEF StackInv, CallsTyped
<1>2. PICK t : t = stack'
  OBVIOUS
<1>3. DOMAIN t = 1 .. n + 1 /\ t[n + 1] = c /\ \A i \in 1 .. n : t[i] = stack[i]
  BY <1>1, <1>2
<1>4. \A i \in 1 .. n + 1 : i = n + 1 \/ (i \in 1 .. n /\ i \in DOMAIN stack)
  BY <1>1
<1>5. \A i \in 1 .. n + 1 : NoOptCall(t[i])
  BY <1>3, <1>4 DEF NeverOpt
<1>6. NeverOpt'
  BY <1>2, <1>3, <1>5 DEF NeverOpt, NoOptCall, IsOpt
<1>7. ~IsObject(c) => ObjectsOfBefore
  BY <1>2, <1>3, <1>4 DEF ObjectsOfBefore
<1>8. QED BY <1>6, <1>7

\* The invariant, where it says something, ...
OnlyRefs == ~Somewhere(IsOpt) /\ NeverOpt /\ BegunOnce /\ OnePlace

\* ... is preserved when a call has written a field and nothing is set, ...
LEMMA FieldOnce ==
    ASSUME Inv, OnlyRefs, NEW n \in 1 .. Len(stack), stack[n].todo # <<>>,
           NEW v \in WrittenField, stack' = Wrote(SubSeq(stack, 1, n), v),
           StillAllocated, env' = env, out' = out
    PROVE  NeverOpt' /\ BegunOnce' /\ OnePlace'
<1>1. NeverOpt' /\ ObjectsOfBefore
  BY InvParts, CutOnce DEF OnlyRefs
<1>2. QED BY <1>1, NoneBegun DEF OnlyRefs

\* ... when the last call has (WriteOpaque, WritePlain, a reference that is not followed), ...
LEMMA LastFieldOnce ==
    ASSUME Inv, OnlyRefs, stack # <<>>, Top.todo # <<>>,
           NEW v \in WrittenField, stack' = Wrote(stack, v),
           StillAllocated, env' = env, out' = out
    PROVE  NeverOpt' /\ BegunOnce' /\ OnePlace'
<1>1. PICK n : n = Len(stack)
  OBVIOUS
<1>2. n \in 1 .. Len(stack) /\ Top = stack[n] /\ SubSeq(stack, 1, n) = stack
  BY <1>1, InvParts, TopFacts
<1>3. QED BY <1>2, FieldOnce

\* ... when the one below it has (GiveUp, FallbackWritten), ...
LEMMA PoppedOnce ==
    ASSUME Inv, OnlyRefs, stack # <<>>, Top.role # "variable",
           NEW v \in WrittenField, stack' = Wrote(Below, v),
           UNCHANGED <<order, env, out>>
    PROVE  NeverOpt' /\ BegunOnce' /\ OnePlace'
<1>1. PICK n : n = Len(stack)
  OBVIOUS
<1>2. n - 1 \in 1 .. Len(stack) /\ stack[n - 1].todo # <<>> /\ Below = SubSeq(stack, 1, n - 1)
  BY <1>1, InvParts, TopFacts
<1>3. StillAllocated
  BY DEF StillAllocated, Allocated
<1>4. PICK m : m = n - 1
  OBVIOUS
<1>5. QED BY <1>2, <1>3, <1>4, FieldOnce

\* ... when a reference is followed for the first time, ...
LEMMA FollowedOnce ==
    ASSUME Inv, OnlyRefs, NEW f \in Pointers, AtField(f), f.kind = "ref", AllocEnv(f.to),
           ~Allocated(f.to), WritePointee(f, Top.r - 1), UNCHANGED <<event, out>>
    PROVE  NeverOpt' /\ BegunOnce' /\ OnePlace'
<1>1. Static /\ StackInv /\ EnvInv
  BY InvParts
<1>2. stack # <<>> /\ Top.todo # <<>> /\ f.to \in Addr
  BY DEF AtField, Pointers
<1>3. PICK n : n = Len(stack)
  OBVIOUS
<1>4. /\ n \in 1 .. Len(stack) /\ Top = stack[n] /\ SubSeq(stack, 1, n) = stack
      /\ DOMAIN stack = 1 .. n /\ Top.r \in Nat /\ stack \in Seq(Calls)
  BY <1>1, <1>2, <1>3, TopFacts
<1>5. StillAllocated /\ Allocated(f.to)'
  BY <1>1, <1>2, AllocKeeps
<1>6. env[f.to] = None /\ SetAt(f.to) = {} /\ ~Pending(f.to)
  BY <1>2 DEF OnlyRefs, OnePlace, InOnePlace
<1>7. CASE Top.r - 1 = 0
  <2>1. stack' = Wrote(stack, Ref(f.to)) /\ env' = [env EXCEPT ![f.to] = Opaque]
    BY <1>7 DEF WritePointee
  <2>2. Ref(f.to) \in WrittenField /\ Opaque \in WrittenValue
    BY <1>2 DEF WrittenField, WrittenValue
  <2>3. stack[n].todo # <<>> /\ stack' = Wrote(SubSeq(stack, 1, n), Ref(f.to))
    BY <1>2, <1>4, <2>1
  <2>4. NeverOpt' /\ ObjectsOfBefore
    BY <1>1, <1>4, <2>2, <2>3, CutOnce DEF OnlyRefs
  <2>5. ~Pending(f.to)'
    BY <1>6, <2>4 DEF Pending, ObjectsOfBefore, IsObject
  <2>6. QED BY <1>1, <1>2, <1>5, <1>6, <2>1, <2>2, <2>4, <2>5, OneSet DEF OnlyRefs, EnvInv
<1>8. CASE Top.r - 1 # 0
  <2>1. PICK todo \in Seq(Fields) : todo = heap[f.to]
    BY <1>1, <1>2 DEF Static, heap
  <2>2. PICK r \in Nat : r = Top.r - 1 - 1
    BY <1>4, <1>8 DEF AtField
  <2>3. PICK c : c = Call("pointee", f, todo, r)
    OBVIOUS
  <2>4. c \in Calls /\ c.field = f /\ c.todo = todo /\ IsObject(c)
    BY <2>3 DEF Call, Calls, Fields, IsObject
  <2>5. \A j \in DOMAIN todo : ~IsOpt(todo[j])
    BY <1>2, <2>1, NowhereOpt DEF OnlyRefs
  <2>6. NoOptCall(c)
    BY <2>4, <2>5 DEF NoOptCall, IsOpt
  <2>7. stack' = Append(stack, c) /\ env' = env
    BY <1>8, <2>1, <2>2, <2>3 DEF WritePointee
  <2>8. n \in 0 .. Len(stack) /\ stack' = Append(SubSeq(stack, 1, n), c)
    BY <1>4, <2>7
  <2>9. NeverOpt'
    BY <1>1, <2>4, <2>6, <2>8, PushOnce DEF OnlyRefs
  <2>10. BegunOnce' /\ OnePlace'
    BY <1>2, <1>4, <1>5, <2>4, <2>7, OneBegun DEF OnlyRefs
  <2>11. QED BY <2>9, <2>10
<1>9. QED BY <1>7, <1>8

\* ... when an object is complete, ...
LEMMA CompleteOnce ==
    ASSUME Inv, OnlyRefs, PointeeWritten
    PROVE  NeverOpt' /\ BegunOnce' /\ OnePlace'
<1>1. Static /\ StackInv /\ EnvInv
  BY InvParts
<1>2. stack # <<>> /\ Top.role = "pointee" /\ UNCHANGED <<order, out>>
  BY DEF PointeeWritten
<1>3. PICK n : n = Len(stack)
  OBVIOUS
<1>4. /\ n \in 1 .. n /\ n - 1 \in 1 .. Len(stack) /\ stack[n - 1].todo # <<>> /\ n \in Nat
      /\ Top = stack[n] /\ Below = SubSeq(stack, 1, n - 1)
      /\ DOMAIN stack = 1 .. n /\ Top.written \in Seq(WrittenField) /\ Top.field.to \in Addr
  BY <1>1, <1>2, <1>3, TopFacts
<1>5. PICK a \in Addr : a = Top.field.to
  BY <1>4
<1>6. PICK w \in Seq(WrittenField) : w = Top.written
  BY <1>4
<1>7. Ref(a) \in WrittenField /\ Struct(w) \in WrittenValue
  BY DEF WrittenField, WrittenValue, Struct
<1>8. stack' = Wrote(SubSeq(stack, 1, n - 1), Ref(a)) /\ env' = [env EXCEPT ![a] = Struct(w)]
  BY <1>4, <1>5, <1>6 DEF PointeeWritten
<1>9. PICK m : m = n - 1
  OBVIOUS
<1>10. /\ NeverOpt' /\ ObjectsOfBefore
       /\ DOMAIN stack' = 1 .. m
       /\ \A i \in 1 .. m : stack'[i].role = stack[i].role /\ stack'[i].field = stack[i].field
  <2>1. m \in 1 .. Len(stack) /\ stack[m].todo # <<>> /\ stack' = Wrote(SubSeq(stack, 1, m), Ref(a))
    BY <1>4, <1>8, <1>9
  <2>2. QED BY <1>1, <1>7, <2>1, CutOnce DEF OnlyRefs
<1>11. IsObject(stack[n]) /\ stack[n].field.to = a /\ Pending(a)
  BY <1>2, <1>4, <1>5 DEF IsObject, Pending
<1>12. SetAt(a) = {} /\ Allocated(a)
  BY <1>11 DEF OnlyRefs, OnePlace, InOnePlace
<1>13. ~Pending(a)'
  <2>1. \A i \in 1 .. m : i \in 1 .. n /\ i # n
    BY <1>4, <1>9
  <2>2. \A i \in 1 .. m : ~(IsObject(stack[i]) /\ stack[i].field.to = a)
    BY <1>4, <1>11, <2>1 DEF OnlyRefs, BegunOnce
  <2>3. QED BY <1>10, <2>2 DEF Pending, IsObject
<1>14. StillAllocated /\ Allocated(a)'
  BY <1>2, <1>12 DEF StillAllocated, Allocated
<1>15. QED
  BY <1>1, <1>2, <1>7, <1>8, <1>10, <1>12, <1>13, <1>14, OneSet DEF OnlyRefs, EnvInv

\* ... when the children of an enum are begun, or its variant is assumed, ...
LEMMA EnumOnce ==
    ASSUME Inv, OnlyRefs, WriteChildren \/ FallBack
    PROVE  NeverOpt' /\ BegunOnce' /\ OnePlace'
<1>1. Static /\ StackInv /\ limit \in Nat
  BY InvParts, EventsAssumption DEF Static
<1>2. PICK n : n = Len(stack)
  OBVIOUS
<1>3. stack # <<>>
  BY DEF WriteChildren, FallBack, AtField
<1>4. /\ n \in 1 .. Len(stack) /\ Top = stack[n] /\ SubSeq(stack, 1, n) = stack
      /\ DOMAIN stack = 1 .. n /\ Top.r \in Nat /\ n \in Nat /\ Top.todo \in Seq(Fields)
      /\ Below = SubSeq(stack, 1, n - 1) /\ (Top.role # "variable" => Top.field \in Pointers)
  BY <1>1, <1>2, <1>3, TopFacts
<1>5. NoOptCall(Top)
  BY <1>4 DEF OnlyRefs, NeverOpt
<1>6. \A f \in Pointers : ~IsOpt(f) =>
          [f EXCEPT !.lost = FALSE] \in Pointers /\ ~IsOpt([f EXCEPT !.lost = FALSE])
  BY DEF Pointers, IsOpt
<1>7. PICK f \in Pointers, role \in {"children", "fallback"}, r \in Nat, m \in 0 .. Len(stack) :
          /\ ~IsOpt(f)
          /\ stack' = Append(SubSeq(stack, 1, m), Call(role, f, <<[f EXCEPT !.lost = FALSE]>>, r))
  <2>1. CASE WriteChildren
    <3>1. PICK f \in Pointers :
            /\ AtField(f)
            /\ stack' = Append(stack, Call("children", f, <<[f EXCEPT !.lost = FALSE]>>, Top.r - 1))
      BY <2>1 DEF WriteChildren
    <3>2. Top.todo # <<>> /\ f = Head(Top.todo) /\ Top.r > 0
      BY <3>1 DEF AtField
    <3>3. 1 \in DOMAIN Top.todo /\ f = Top.todo[1]
      BY <1>4, <3>2
    <3>4. ~IsOpt(f)
      BY <1>5, <3>3 DEF NoOptCall
    <3>5. Top.r - 1 \in Nat /\ n \in 0 .. Len(stack)
      BY <1>4, <3>2
    <3>6. stack' = Append(SubSeq(stack, 1, n), Call("children", f, <<[f EXCEPT !.lost = FALSE]>>, Top.r - 1))
      BY <1>4, <3>1
    <3>7. QED BY <3>4, <3>5, <3>6
  <2>2. CASE FallBack
    <3>1. /\ Top.role = "children"
          /\ stack' = Append(Below, Call("fallback", Top.field, <<[Top.field EXCEPT !.lost = FALSE]>>, limit))
      BY <2>2 DEF FallBack
    <3>2. Top.field \in Pointers /\ ~IsOpt(Top.field)
      BY <1>4, <1>5, <3>1 DEF NoOptCall
    <3>3. n - 1 \in 0 .. Len(stack)
      BY <1>4
    <3>4. stack' = Append(SubSeq(stack, 1, n - 1), Call("fallback", Top.field, <<[Top.field EXCEPT !.lost = FALSE]>>, limit))
      BY <1>4, <3>1
    <3>5. QED BY <1>1, <3>2, <3>3, <3>4
  <2>3. QED BY <2>1, <2>2
<1>8. PICK g \in Pointers : g = [f EXCEPT !.lost = FALSE] /\ ~IsOpt(g)
  BY <1>6, <1>7
<1>9. PICK c : c = [role |-> role, field |-> f, todo |-> <<g>>, written |-> <<>>, r |-> r]
  OBVIOUS
<1>10. c \in Calls
  <2>1. f \in Fields /\ <<g>> \in Seq(Fields) /\ <<>> \in Seq(WrittenField)
    BY DEF Fields
  <2>2. QED BY <1>9, <2>1 DEF Calls
<1>11. NoOptCall(c) /\ ~IsObject(c)
  <2>1. c.field = f /\ c.todo = <<g>> /\ c.role = role
    BY <1>9
  <2>2. DOMAIN c.todo = {1} /\ c.todo[1] = g
    BY <2>1
  <2>3. QED BY <1>7, <1>8, <2>1, <2>2 DEF NoOptCall, IsObject
<1>12. stack' = Append(SubSeq(stack, 1, m), c)
  BY <1>7, <1>8, <1>9 DEF Call
<1>13. NeverOpt' /\ ObjectsOfBefore
  BY <1>1, <1>10, <1>11, <1>12, PushOnce DEF OnlyRefs
<1>14. UNCHANGED <<order, env, out>>
  BY DEF WriteChildren, FallBack
<1>15. StillAllocated
  BY <1>14 DEF StillAllocated, Allocated
<1>16. QED BY <1>13, <1>14, <1>15, NoneBegun DEF OnlyRefs

\* ... when a field cannot be read, ...
LEMMA FailedOnce ==
    ASSUME Inv, OnlyRefs, Fail
    PROVE  NeverOpt' /\ BegunOnce' /\ OnePlace'
<1>1. Static /\ StackInv
  BY InvParts
<1>2. UNCHANGED <<order, env>>
  BY DEF Fail
<1>3. Opaque \in WrittenField /\ Opaque \in WrittenValue
  BY DEF WrittenField, WrittenValue
<1>4. ASSUME NEW i \in Fallbacks, stack' = Wrote(SubSeq(stack, 1, i - 1), Opaque),
             UNCHANGED <<next, out>>
      PROVE  NeverOpt' /\ BegunOnce' /\ OnePlace'
  <2>1. i - 1 \in 1 .. Len(stack) /\ stack[i - 1].todo # <<>>
    BY <1>1 DEF Fallbacks, StackInv, CallsTyped, StackOK
  <2>2. StillAllocated
    BY <1>2 DEF StillAllocated, Allocated
  <2>3. PICK m : m = i - 1
    OBVIOUS
  <2>4. QED BY <1>2, <1>3, <1>4, <2>1, <2>2, <2>3, FieldOnce
<1>5. ASSUME stack' = <<>>, out' = Append(out, [keys |-> <<>>, env |-> NoEnv, value |-> Opaque])
      PROVE  NeverOpt' /\ BegunOnce' /\ OnePlace'
  <2>1. PICK b : b = [keys |-> <<>>, env |-> NoEnv, value |-> Opaque]
    OBVIOUS
  <2>2. b \in Bytes /\ \A a \in Addr : b.env[a] = None
    BY <1>3, <2>1 DEF Bytes, NoEnv, Env
  <2>3. out \in Seq(Bytes) /\ OnePlace /\ out' = Append(out, b)
    BY <1>1, <1>5, <2>1 DEF Static, OnlyRefs
  <2>4. QED BY <1>2, <1>5, <2>2, <2>3, AllEnded
<1>6. QED BY <1>4, <1>5 DEF Fail

\* ... when a variable is complete, ...
LEMMA EndedOnce ==
    ASSUME Inv, OnlyRefs, VariableWritten
    PROVE  NeverOpt' /\ BegunOnce' /\ OnePlace'
<1>1. Static /\ StackInv /\ EnvInv
  BY InvParts
<1>2. PICK n : n = Len(stack)
  OBVIOUS
<1>3. Top.written \in Seq(WrittenField)
  BY <1>1, <1>2, TopFacts DEF VariableWritten
<1>4. PICK w \in Seq(WrittenField) : w = Top.written
  BY <1>3
<1>5. PICK b : b = [keys |-> EmitOrder, env |-> env, value |-> Struct(w)]
  OBVIOUS
<1>6. EmitOrder \in Seq(Addr) /\ Struct(w) \in WrittenValue
  BY <1>1 DEF EnvInv, OrderOK, EmitOrder, WrittenValue, Struct
<1>7. b \in Bytes /\ b.env = env
  BY <1>1, <1>5, <1>6 DEF Bytes, EnvInv
<1>8. /\ out' = Append(out, b) /\ stack' = <<>> /\ order' = order
      /\ \A a \in Addr : env'[a] = None
  BY <1>4, <1>5 DEF VariableWritten, NoEnv
<1>9. out \in Seq(Bytes) /\ OnePlace
  BY <1>1 DEF Static, OnlyRefs
<1>10. QED BY <1>7, <1>8, <1>9, AllEnded

\* ... and when the next one is begun.
LEMMA BegunVariableOnce ==
    ASSUME Inv, OnlyRefs, BeginVariable
    PROVE  NeverOpt' /\ BegunOnce' /\ OnePlace'
<1>1. Static /\ limit - 1 \in Nat
  <2>1. Static
    BY InvParts
  <2>2. limit \in Nat \ {0}
    BY <2>1, EventsAssumption DEF Static
  <2>3. QED BY <2>1, <2>2
<1>2. PICK todo \in Seq(Fields) : todo = event.variables[next]
  BY <1>1 DEF Static, BeginVariable
<1>3. next \in DOMAIN event.variables
  BY <1>1 DEF Static, BeginVariable
<1>4. \A j \in DOMAIN todo : ~IsOpt(todo[j])
  BY <1>2, <1>3, NowhereOpt DEF OnlyRefs
<1>5. PICK c : c = Call("variable", PlainField, todo, limit - 1)
  OBVIOUS
<1>6. c.todo = todo /\ c.field = PlainField /\ ~IsObject(c)
  BY <1>5 DEF Call, IsObject
<1>7. NoOptCall(c)
  BY <1>4, <1>6 DEF NoOptCall, IsOpt, Pointers, PlainField
<1>8. DOMAIN stack' = {1} /\ stack'[1] = c
  BY <1>2, <1>5 DEF BeginVariable
<1>9. NeverOpt' /\ ObjectsOfBefore
  BY <1>6, <1>7, <1>8 DEF NeverOpt, NoOptCall, IsOpt, ObjectsOfBefore
<1>10. StillAllocated /\ env' = env /\ out' = out
  BY DEF BeginVariable, StillAllocated, Allocated
<1>11. QED BY <1>9, <1>10, NoneBegun DEF OnlyRefs

LEMMA OnceNext ==
    ASSUME Inv, OnceInv, [Next]_vars
    PROVE  OnceInv'
<1>1. CASE Somewhere(IsOpt)
  <2>1. event' = event
    BY DEF Next, Write, Read, Done, vars, BeginVariable, WriteOpaque, WritePlain, WriteRef, WriteOpt,
           PointeeWritten, WriteChildren, FallBack, GiveUp, FallbackWritten, Fail, VariableWritten,
           ReadEntry, ReadValue, Reads, Writing
  <2>2. QED BY <1>1, <2>1, OptIsStatic DEF OnceInv
<1>2. CASE ~Somewhere(IsOpt)
  <2>1. OnlyRefs
    BY <1>2 DEF OnlyRefs, OnceInv
  <2>2. Static /\ StackInv /\ EnvInv
    BY InvParts
  <2>3. Plain \in WrittenField /\ Opaque \in WrittenField /\ \A a \in Addr : Ref(a) \in WrittenField
    BY DEF WrittenField
  <2>4. UNCHANGED <<order, env, out>> => StillAllocated
    BY DEF StillAllocated, Allocated
  <2>5. CASE BeginVariable
    BY <2>1, <2>5, BegunVariableOnce DEF OnceInv
  <2>6. CASE WriteOpaque
    BY <2>1, <2>3, <2>4, <2>6, LastFieldOnce DEF WriteOpaque, OnceInv
  <2>7. CASE WritePlain
    BY <2>1, <2>3, <2>4, <2>7, LastFieldOnce DEF WritePlain, AtField, OnceInv
  <2>8. CASE WriteRef
    <3>1. PICK f \in Pointers :
            /\ AtField(f) /\ f.kind = "ref" /\ AllocEnv(f.to)
            /\ IF Allocated(f.to)
               THEN stack' = Wrote(stack, Ref(f.to)) /\ UNCHANGED env
               ELSE WritePointee(f, Top.r - 1)
            /\ UNCHANGED <<event, out>>
      BY <2>8 DEF WriteRef, Writing
    <3>2. f.to \in Addr /\ stack # <<>> /\ Top.todo # <<>>
      BY <3>1 DEF Pointers, AtField
    <3>3. StillAllocated
      BY <2>2, <3>1, <3>2, AllocKeeps
    <3>4. CASE Allocated(f.to)
      BY <2>1, <2>3, <3>1, <3>2, <3>3, <3>4, LastFieldOnce DEF OnceInv
    <3>5. CASE ~Allocated(f.to)
      BY <2>1, <3>1, <3>5, FollowedOnce DEF OnceInv
    <3>6. QED BY <3>4, <3>5
  <2>9. CASE WriteOpt
    <3>1. PICK f \in Pointers : AtField(f) /\ f.kind = "opt"
      BY <2>9 DEF WriteOpt
    <3>2. PICK n : n = Len(stack)
      OBVIOUS
    <3>3. Top = stack[n] /\ n \in DOMAIN stack /\ Top.todo \in Seq(Fields) /\ Top.todo # <<>> /\ f = Head(Top.todo)
      BY <2>2, <3>1, <3>2, TopFacts DEF AtField
    <3>4. 1 \in DOMAIN Top.todo /\ f = Top.todo[1]
      BY <3>3
    <3>5. ~IsOpt(f)
      BY <2>1, <3>3, <3>4 DEF OnlyRefs, NeverOpt, NoOptCall
    <3>6. QED BY <3>1, <3>5 DEF IsOpt
  <2>10. CASE PointeeWritten
    BY <2>1, <2>10, CompleteOnce DEF OnceInv
  <2>11. CASE WriteChildren \/ FallBack
    BY <2>1, <2>11, EnumOnce DEF OnceInv
  <2>12. CASE GiveUp
    BY <2>1, <2>3, <2>12, PoppedOnce DEF GiveUp, OnceInv
  <2>13. CASE FallbackWritten
    <3>1. stack # <<>> /\ Top.role = "fallback" /\ Top.todo = <<>>
      BY <2>13 DEF FallbackWritten
    <3>2. PICK n : n = Len(stack)
      OBVIOUS
    <3>3. CallOK(Top) /\ Top.written \in Seq(WrittenField)
      BY <2>2, <3>1, <3>2, TopFacts
    <3>4. Len(Top.written) = 1
      BY <3>1, <3>3 DEF CallOK
    <3>5. Top.written[1] \in WrittenField
      BY <3>3, <3>4
    <3>6. QED BY <2>1, <2>13, <3>1, <3>5, PoppedOnce DEF FallbackWritten, OnceInv
  <2>14. CASE Fail
    BY <2>1, <2>14, FailedOnce DEF OnceInv
  <2>15. CASE VariableWritten
    BY <2>1, <2>15, EndedOnce DEF OnceInv
  <2>16. CASE Read \/ UNCHANGED vars
    <3>1. UNCHANGED <<event, stack, order, env, out>>
      BY <2>16 DEF Read, ReadEntry, ReadValue, Reads, vars
    <3>2. NeverOpt' /\ ObjectsOfBefore
      BY <2>1, <3>1 DEF OnlyRefs, NeverOpt, NoOptCall, IsOpt, ObjectsOfBefore
    <3>3. QED BY <2>1, <2>4, <3>1, <3>2, NoneBegun DEF OnlyRefs, OnceInv
  <2>17. QED
    BY <2>5, <2>6, <2>7, <2>8, <2>9, <2>10, <2>11, <2>12, <2>13, <2>14, <2>15, <2>16
       DEF Next, Write, Done
<1>3. QED BY <1>1, <1>2

\* What only references point to is written once per event, however many there are and whether or
\* not they form cycles (value/base.rs, alloc_env): whatever the memory and the limit, and with
\* errors and enums of lost variant.
THEOREM ReferencesAreWrittenOnce == Spec => []WrittenOnce
<1>1. Init => OnceInv
  <2> SUFFICES ASSUME Init PROVE NeverOpt /\ BegunOnce /\ OnePlace
    BY DEF OnceInv
  <2>1. \A a \in Addr : ~Pending(a) /\ env[a] = None /\ SetAt(a) = {}
    BY DEF Init, Pending, NoEnv, SetAt
  <2>2. OnePlace
    BY <2>1 DEF OnePlace, InOnePlace
  <2>3. QED BY <2>2 DEF Init, NeverOpt, BegunOnce
<1>2. Inv /\ OnceInv /\ [Next]_vars => OnceInv'
  BY OnceNext
<1>3. OnceInv => WrittenOnce
  BY DEF OnceInv, WrittenOnce, OnePlace, InOnePlace
<1>4. QED BY <1>1, <1>2, <1>3, InitInv, NextInv, PTL DEF Spec

-----------------------------------------------------------------------------
(***************************************************************************)
(* What the steps of the writer do to the calls: a value is handed to a    *)
(* call, those above it being over, or a call is put on top of one.        *)
(***************************************************************************)
Handed(n, v) ==
    /\ n \in DOMAIN stack /\ stack[n].todo # <<>> /\ v \in WrittenField
    /\ stack' = Wrote(SubSeq(stack, 1, n), v)

Pushed(n, c) ==
    /\ n \in 0 .. Len(stack) /\ c \in Calls /\ c.written = <<>>
    /\ stack' = Append(SubSeq(stack, 1, n), c)

\* The call d is c when it has written its next field as v.
NextOf(c, d, v) ==
    /\ d.role = c.role /\ d.field = c.field /\ d.r = c.r
    /\ Len(c.todo) = Len(d.todo) + 1 /\ Len(d.written) = Len(c.written) + 1
    /\ \A k \in DOMAIN d.todo : k + 1 \in DOMAIN c.todo /\ d.todo[k] = c.todo[k + 1]
    /\ \A k \in DOMAIN d.written :
          \/ k \in DOMAIN c.written /\ d.written[k] = c.written[k]
          \/ k = Len(c.written) + 1 /\ d.written[k] = v

LEMMA HandedFacts ==
    ASSUME StackInv, NEW n, NEW v, Handed(n, v), NEW t, t = stack'
    PROVE  /\ stack \in Seq(Calls) /\ DOMAIN stack = 1 .. Len(stack) /\ n \in Nat /\ 0 < n /\ n <= Len(stack)
           /\ t \in Seq(Calls) /\ Len(t) = n /\ DOMAIN t = 1 .. n
           /\ \A i \in 1 .. n : /\ i \in DOMAIN stack /\ (i < n => t[i] = stack[i])
                                /\ t[i].role = stack[i].role /\ t[i].field = stack[i].field
                                /\ t[i].r = stack[i].r
           /\ NextOf(stack[n], t[n], v)
           /\ 1 \in DOMAIN stack[n].todo
<1>1. stack \in Seq(Calls) /\ DOMAIN stack = 1 .. Len(stack) /\ n \in 1 .. Len(stack)
  BY DEF StackInv, CallsTyped, Handed
<1>2. n \in Nat /\ 0 < n /\ n <= Len(stack)
  BY <1>1
<1> DEFINE p == SubSeq(stack, 1, n)
<1>3. p \in Seq(Calls) /\ Len(p) = n /\ DOMAIN p = 1 .. n /\ \A i \in 1 .. n : p[i] = stack[i]
  BY <1>1
<1>4. PICK c : c = stack[n]
  OBVIOUS
<1>5. c \in Calls /\ p[n] = c
  BY <1>1, <1>2, <1>3, <1>4
<1>6. PICK q \in Seq(Fields) : q = c.todo
  BY <1>5 DEF Calls
<1>7. PICK w \in Seq(WrittenField) : w = c.written
  BY <1>5 DEF Calls
<1>8. q # <<>> /\ v \in WrittenField
  BY <1>4, <1>6 DEF Handed
<1>9. PICK x : x = Tail(q)
  OBVIOUS
<1>10. PICK y : y = Append(w, v)
  OBVIOUS
<1>11. /\ x \in Seq(Fields) /\ Len(q) = Len(x) + 1 /\ 1 \in DOMAIN q
       /\ \A k \in DOMAIN x : k + 1 \in DOMAIN q /\ x[k] = q[k + 1]
  BY <1>8, <1>9
<1>12. /\ y \in Seq(WrittenField) /\ Len(y) = Len(w) + 1
       /\ \A k \in DOMAIN y : (k \in DOMAIN w /\ y[k] = w[k]) \/ (k = Len(w) + 1 /\ y[k] = v)
  BY <1>8, <1>10
<1>13. PICK d : d = [c EXCEPT !.todo = x, !.written = y]
  OBVIOUS
<1>14. /\ d \in Calls /\ d.role = c.role /\ d.field = c.field /\ d.r = c.r
       /\ d.todo = x /\ d.written = y
  BY <1>5, <1>11, <1>12, <1>13 DEF Calls
<1>15. t = [p EXCEPT ![n] = d]
  BY <1>3, <1>5, <1>6, <1>7, <1>9, <1>10, <1>13 DEF Wrote, Handed
<1> HIDE DEF p
<1>16. /\ t \in Seq(Calls) /\ Len(t) = n /\ DOMAIN t = 1 .. n /\ t[n] = d
       /\ \A i \in 1 .. n : i < n => t[i] = p[i]
  BY <1>2, <1>3, <1>14, <1>15
<1>17. NextOf(stack[n], t[n], v)
  BY <1>4, <1>6, <1>7, <1>11, <1>12, <1>14, <1>16 DEF NextOf
<1>18. ASSUME NEW i \in 1 .. n
       PROVE  /\ i \in DOMAIN stack /\ (i < n => t[i] = stack[i])
              /\ t[i].role = stack[i].role /\ t[i].field = stack[i].field
              /\ t[i].r = stack[i].r
  <2>1. i \in DOMAIN stack /\ (i < n \/ i = n)
    BY <1>1, <1>2
  <2>2. QED BY <2>1, <1>3, <1>4, <1>14, <1>16
<1>19. QED BY <1>1, <1>2, <1>4, <1>6, <1>11, <1>16, <1>17, <1>18

LEMMA PushedFacts ==
    ASSUME StackInv, NEW n, NEW c, Pushed(n, c), NEW t, t = stack'
    PROVE  /\ stack \in Seq(Calls) /\ DOMAIN stack = 1 .. Len(stack) /\ n \in Nat /\ n <= Len(stack)
           /\ t \in Seq(Calls) /\ Len(t) = n + 1 /\ DOMAIN t = 1 .. n + 1
           /\ \A i \in 1 .. n : i \in DOMAIN stack /\ t[i] = stack[i]
           /\ t[n + 1] = c
           /\ \A i \in 1 .. n + 1 : i \in 1 .. n \/ i = n + 1
<1>1. stack \in Seq(Calls) /\ DOMAIN stack = 1 .. Len(stack) /\ n \in 0 .. Len(stack) /\ c \in Calls
  BY DEF StackInv, CallsTyped, Pushed
<1>2. n \in Nat /\ n <= Len(stack)
  BY <1>1
<1> DEFINE p == SubSeq(stack, 1, n)
<1>3. p \in Seq(Calls) /\ Len(p) = n /\ DOMAIN p = 1 .. n /\ \A i \in 1 .. n : p[i] = stack[i]
  BY <1>1
<1>4. t = Append(p, c)
  BY DEF Pushed
<1> HIDE DEF p
<1>5. /\ t \in Seq(Calls) /\ Len(t) = n + 1 /\ DOMAIN t = 1 .. n + 1 /\ t[n + 1] = c
      /\ \A i \in 1 .. n : t[i] = p[i]
  BY <1>1, <1>2, <1>3, <1>4
<1>6. \A i \in 1 .. n : i \in DOMAIN stack
  BY <1>1, <1>2
<1>7. QED BY <1>1, <1>2, <1>3, <1>5, <1>6

-----------------------------------------------------------------------------
(***************************************************************************)
(* The steps of the writer by these, with what they do to the rest.        *)
(***************************************************************************)
Same == UNCHANGED <<event, limit, next, entry, known, values, out>>

FieldStep ==
    /\ stack # <<>> /\ Same /\ UNCHANGED <<order, env>>
    /\ \/ Top.r = 0 /\ Handed(Len(stack), Opaque)
       \/ Top.r > 0 /\ Top.todo[1] = PlainField /\ Handed(Len(stack), Plain)

\* The pointer f is followed, ...
FollowStep(f) ==
    /\ stack # <<>> /\ Same /\ f \in Pointers /\ ~f.lost /\ f = Top.todo[1]
    /\ Top.todo # <<>> /\ Top.r > 0 /\ AllocEnv(f.to)

\* ... to what is too deep, ...
CutStep(f) ==
    /\ FollowStep(f) /\ (IsOpt(f) \/ ~Allocated(f.to)) /\ Top.r = 1
    /\ Handed(Len(stack), Ref(f.to))
    /\ env' = [env EXCEPT ![f.to] = Opaque]

\* ... to an object, ...
BeginStep(f) ==
    /\ FollowStep(f) /\ (IsOpt(f) \/ ~Allocated(f.to)) /\ Top.r > 1
    /\ Pushed(Len(stack), Call("pointee", f, heap[f.to], Top.r - 2))
    /\ env' = env

\* ... or to what needs not be written.
KnownStep(f) ==
    /\ FollowStep(f) /\ IsRef(f) /\ Allocated(f.to)
    /\ Handed(Len(stack), Ref(f.to))
    /\ env' = env

SetStep ==
    /\ stack # <<>> /\ Same /\ IsObject(Top) /\ Top.todo = <<>> /\ order' = order
    /\ Handed(Len(stack) - 1, Ref(Top.field.to))
    /\ env' = [env EXCEPT ![Top.field.to] = Struct(Top.written)]

\* The call for an enum of lost variant is put on top of the n-th.
EnumStep(n, c) ==
    /\ stack # <<>> /\ Same /\ UNCHANGED <<order, env>>
    /\ n \in DOMAIN stack /\ stack[n].todo # <<>>
    /\ n = Len(stack) \/ (n + 1 = Len(stack) /\ Top.role = "children")
    /\ Pushed(n, c) /\ c.role \in {"children", "fallback"}
    /\ c.field \in Pointers /\ c.field.lost /\ c.field = stack[n].todo[1]
    /\ c.todo = <<[c.field EXCEPT !.lost = FALSE]>>

PopStep ==
    /\ stack # <<>> /\ Same /\ UNCHANGED <<order, env>>
    /\ Top.role \in {"children", "fallback"}
    /\ \/ Handed(Len(stack) - 1, Opaque)
       \/ Top.role = "fallback" /\ Top.todo = <<>> /\ Handed(Len(stack) - 1, Top.written[1])

RescueStep ==
    /\ AtField(BadField) /\ Same /\ UNCHANGED <<order, env>>
    /\ \E i \in DOMAIN stack : stack[i].role = "fallback" /\ Handed(i - 1, Opaque)

FailStep ==
    /\ AtField(BadField) /\ Writing /\ UNCHANGED <<order, env>>
    /\ stack' = <<>> /\ next' = next + 1
    /\ out' = Append(out, [keys |-> <<>>, env |-> NoEnv, value |-> Opaque])

WriterStep ==
    \/ BeginVariable \/ FieldStep \/ SetStep \/ PopStep \/ RescueStep \/ FailStep \/ VariableWritten
    \/ \E f \in Pointers : CutStep(f) \/ BeginStep(f) \/ KnownStep(f)
    \/ \E n, c : EnumStep(n, c)

-----------------------------------------------------------------------------
(***************************************************************************)
(* Where the calls are in the memory: what a call has written and what it  *)
(* has still to write are the fields of what it is for, in order, each     *)
(* call is for the field the one below it is at, and references are to     *)
(* what is pointed to at their place.                                      *)
(***************************************************************************)
Told(f) == [f EXCEPT !.lost = FALSE]

Source(c) ==
    IF c.role = "variable" THEN event.variables[next]
    ELSE IF IsObject(c) THEN heap[c.field.to]
    ELSE <<Told(c.field)>>

CallFollows(c) ==
    /\ Len(c.written) + Len(c.todo) = Len(Source(c))
    /\ \A k \in DOMAIN c.todo : c.todo[k] = Source(c)[Len(c.written) + k]
    /\ \A k \in DOMAIN c.written : \A b \in Addr : c.written[k] = Ref(b) => To(Source(c)[k], b)
    /\ c.role \in {"children", "fallback"} => c.field.lost

CallsFollow == \A i \in DOMAIN stack : CallFollows(stack[i])

Chained ==
    \A i \in DOMAIN stack : i + 1 \in DOMAIN stack => stack[i + 1].field = stack[i].todo[1]

EnvFollows == \A a, b \in Addr : Refers(env[a], b) => PointsTo(heap[a], b) # {}

MemInv == CallsFollow /\ Chained /\ EnvFollows

LEMMA WriteSteps ==
    ASSUME Inv, MemInv, Write
    PROVE  WriterStep
<1>1. StackInv /\ EnvInv /\ Static
  BY InvParts
<1>2. PICK n : n = Len(stack)
  OBVIOUS
<1>3. stack # <<>> =>
        /\ n \in 1 .. Len(stack) /\ stack \in Seq(Calls) /\ DOMAIN stack = 1 .. n
        /\ Top = stack[n] /\ Top \in Calls /\ CallOK(Top)
        /\ Top.todo \in Seq(Fields) /\ Top.written \in Seq(WrittenField) /\ Top.r \in Nat
        /\ SubSeq(stack, 1, n) = stack
        /\ Below = SubSeq(stack, 1, n - 1)
        /\ Top.role # "variable" => /\ Top.field \in Pointers
                                    /\ Top.field.to \in Addr
                                    /\ n - 1 \in 1 .. Len(stack) /\ stack[n - 1].todo # <<>>
  BY <1>1, <1>2, TopFacts
<1>4. Plain \in WrittenField /\ Opaque \in WrittenField /\ \A a \in Addr : Ref(a) \in WrittenField
  BY DEF WrittenField
<1>5. \A v : (stack # <<>> /\ Top.todo # <<>> /\ v \in WrittenField /\ stack' = Wrote(stack, v))
             => Handed(n, v)
  BY <1>2, <1>3 DEF Handed
<1>6. \A v : (stack # <<>> /\ Top.role # "variable" /\ v \in WrittenField /\ stack' = Wrote(Below, v))
             => Handed(n - 1, v)
  BY <1>2, <1>3 DEF Handed
<1>7. \A f : AtField(f) => /\ f = Top.todo[1] /\ Top.r > 0 /\ stack # <<>> /\ Top.todo # <<>>
  BY <1>3 DEF AtField
<1>8. CASE WriteOpaque
  <2>1. stack # <<>> /\ Top.r = 0 /\ Top.todo # <<>> /\ stack' = Wrote(stack, Opaque)
    BY <1>8 DEF WriteOpaque
  <2>2. Handed(n, Opaque)
    BY <1>4, <1>5, <2>1
  <2> QED BY <1>2, <1>8, <2>1, <2>2 DEF WriteOpaque, Writing, Same, FieldStep, WriterStep
<1>9. CASE WritePlain
  <2>1. stack # <<>> /\ Top.r > 0 /\ Top.todo # <<>> /\ Top.todo[1] = PlainField /\ stack' = Wrote(stack, Plain)
    BY <1>7, <1>9 DEF WritePlain
  <2>2. Handed(n, Plain)
    BY <1>4, <1>5, <2>1
  <2> QED BY <1>2, <1>9, <2>1, <2>2 DEF WritePlain, Writing, Same, FieldStep, WriterStep
<1>10. ASSUME NEW f \in Pointers, AtField(f), Follows(f), AllocEnv(f.to), Writing, UNCHANGED <<next, out>>
       PROVE  FollowStep(f)
  BY <1>7, <1>10 DEF FollowStep, Same, Writing, Follows
<1>11. ASSUME NEW f \in Pointers, AtField(f), Follows(f), AllocEnv(f.to), Writing, UNCHANGED <<next, out>>,
              IsOpt(f) \/ ~Allocated(f.to), WritePointee(f, Top.r - 1)
       PROVE  CutStep(f) \/ BeginStep(f)
  <2>1. FollowStep(f) /\ stack # <<>> /\ Top.todo # <<>> /\ Top.r > 0 /\ f.to \in Addr
    BY <1>7, <1>10, <1>11 DEF Pointers
  <2>2. CASE Top.r = 1
    <3>1. Top.r - 1 = 0
      BY <2>2
    <3>2. stack' = Wrote(stack, Ref(f.to)) /\ env' = [env EXCEPT ![f.to] = Opaque]
      BY <1>11, <3>1 DEF WritePointee
    <3>3. Handed(n, Ref(f.to))
      BY <1>4, <1>5, <2>1, <3>2
    <3> QED BY <1>2, <1>11, <2>1, <2>2, <3>2, <3>3 DEF CutStep
  <2>3. CASE Top.r # 1
    <3>1. Top.r - 1 # 0 /\ Top.r > 1 /\ Top.r - 1 - 1 = Top.r - 2 /\ Top.r - 2 \in Nat
      BY <1>3, <2>1, <2>3
    <3>2. PICK c : c = Call("pointee", f, heap[f.to], Top.r - 2)
      OBVIOUS
    <3>3. stack' = Append(stack, c) /\ env' = env
      BY <1>11, <3>1, <3>2 DEF WritePointee
    <3>4. heap[f.to] \in Seq(Fields)
      BY <1>1, <2>1 DEF Static, heap
    <3>5. c \in Calls /\ c.written = <<>>
      BY <3>1, <3>2, <3>4 DEF Call, Calls, Fields
    <3>6. Pushed(n, c)
      BY <1>2, <1>3, <2>1, <3>3, <3>5 DEF Pushed
    <3> QED BY <1>2, <1>11, <2>1, <3>1, <3>2, <3>3, <3>6 DEF BeginStep
  <2> QED BY <2>2, <2>3
<1>12. CASE WriteRef
  <2>1. PICK f \in Pointers :
            /\ AtField(f) /\ Follows(f) /\ f.kind = "ref" /\ AllocEnv(f.to)
            /\ IF Allocated(f.to) THEN stack' = Wrote(stack, Ref(f.to)) /\ UNCHANGED env
               ELSE WritePointee(f, Top.r - 1)
            /\ Writing /\ UNCHANGED <<next, out>>
    BY <1>12 DEF WriteRef
  <2>2. CASE Allocated(f.to)
    <3>1. FollowStep(f) /\ IsRef(f) /\ Handed(n, Ref(f.to)) /\ env' = env
      <4>1. stack # <<>> /\ Top.todo # <<>> /\ Ref(f.to) \in WrittenField
        BY <1>4, <1>7, <2>1 DEF Pointers
      <4>2. Handed(n, Ref(f.to))
        BY <1>5, <2>1, <2>2, <4>1
      <4> QED BY <1>10, <2>1, <2>2, <4>2 DEF IsRef
    <3> QED BY <1>2, <2>2, <3>1 DEF KnownStep, WriterStep
  <2>3. CASE ~Allocated(f.to)
    BY <1>11, <2>1, <2>3 DEF WriterStep
  <2> QED BY <2>2, <2>3
<1>13. CASE WriteOpt
  <2>1. PICK f \in Pointers :
            /\ AtField(f) /\ Follows(f) /\ f.kind = "opt" /\ AllocEnv(f.to)
            /\ WritePointee(f, Top.r - 1)
            /\ Writing /\ UNCHANGED <<next, out>>
    BY <1>13 DEF WriteOpt
  <2> QED BY <1>11, <2>1 DEF IsOpt, WriterStep
<1>14. CASE PointeeWritten
  <2>1. stack # <<>> /\ Top.role = "pointee" /\ stack' = Wrote(Below, Ref(Top.field.to))
    BY <1>14 DEF PointeeWritten
  <2>2. Handed(n - 1, Ref(Top.field.to))
    BY <1>3, <1>4, <1>6, <2>1
  <2> QED BY <1>2, <1>14, <2>1, <2>2 DEF PointeeWritten, Writing, Same, SetStep, IsObject, WriterStep
<1>15. ASSUME NEW f \in Pointers PROVE /\ [f EXCEPT !.lost = FALSE] \in Pointers /\ f \in Fields
                                       /\ <<[f EXCEPT !.lost = FALSE]>> \in Seq(Fields)
  <2>1. [f EXCEPT !.lost = FALSE] \in Pointers
    BY DEF Pointers
  <2>2. \A g \in Pointers : g \in Fields /\ <<g>> \in Seq(Fields)
    BY DEF Fields
  <2> QED BY <2>1, <2>2
<1>16. CASE WriteChildren
  <2>1. PICK f \in Pointers :
            /\ AtField(f) /\ f.lost
            /\ stack' = Append(stack, Call("children", f, <<[f EXCEPT !.lost = FALSE]>>, Top.r - 1))
            /\ Writing /\ UNCHANGED <<next, order, env, out>>
    BY <1>16 DEF WriteChildren
  <2>2. PICK c : c = Call("children", f, <<[f EXCEPT !.lost = FALSE]>>, Top.r - 1)
    OBVIOUS
  <2>3. stack # <<>> /\ Top.todo # <<>> /\ f = Top.todo[1] /\ Top.r - 1 \in Nat
    <3>1. stack # <<>> /\ Top.todo # <<>> /\ f = Top.todo[1] /\ Top.r > 0
      BY <1>7, <2>1
    <3>2. Top.r \in Nat
      BY <1>3, <3>1
    <3>3. Top.r - 1 \in Nat
      BY <3>1, <3>2
    <3> QED BY <3>1, <3>3
  <2>4. /\ c \in Calls /\ c.written = <<>> /\ c.role = "children" /\ c.field = f
        /\ c.todo = <<[f EXCEPT !.lost = FALSE]>>
    <3>1. PICK q \in Seq(Fields) : q = <<[f EXCEPT !.lost = FALSE]>>
      BY <1>15
    <3>2. PICK r \in Nat : r = Top.r - 1
      BY <2>3
    <3>3. c = Call("children", f, q, r)
      BY <2>2, <3>1, <3>2
    <3>4. /\ c \in Calls /\ c.written = <<>> /\ c.role = "children" /\ c.field = f /\ c.todo = q
      <4>1. f \in Fields
        BY <1>15
      <4> QED BY <3>3, <4>1 DEF Call, Calls
    <3> QED BY <3>1, <3>4
  <2>5. Pushed(n, c)
    BY <1>2, <1>3, <2>1, <2>2, <2>3, <2>4 DEF Pushed
  <2>6. EnumStep(n, c)
    BY <1>2, <1>3, <2>1, <2>3, <2>4, <2>5 DEF EnumStep, Same, Writing
  <2> QED BY <2>6 DEF WriterStep
<1>17. CASE FallBack
  <2>1. /\ stack # <<>> /\ Top.role = "children" /\ Top.todo = <<>>
        /\ stack' = Append(Below, Call("fallback", Top.field, <<[Top.field EXCEPT !.lost = FALSE]>>, limit))
        /\ Writing /\ UNCHANGED <<next, order, env, out>>
    BY <1>17 DEF FallBack
  <2>2. PICK c : c = Call("fallback", Top.field, <<[Top.field EXCEPT !.lost = FALSE]>>, limit)
    OBVIOUS
  <2>3. /\ n - 1 \in 1 .. Len(stack) /\ stack[n - 1].todo # <<>> /\ Top.field \in Pointers
        /\ n - 1 \in Nat /\ n - 1 + 1 = n
    BY <1>3, <2>1
  <2>4. limit \in Nat
    BY <1>1, EventsAssumption DEF Static
  <2>5. /\ c \in Calls /\ c.written = <<>> /\ c.role = "fallback" /\ c.field = Top.field
        /\ c.todo = <<[c.field EXCEPT !.lost = FALSE]>>
    <3>1. PICK q \in Seq(Fields) : q = <<[Top.field EXCEPT !.lost = FALSE]>>
      BY <1>15, <2>3
    <3>2. PICK f \in Pointers : f = Top.field
      BY <2>3
    <3>3. c = Call("fallback", f, q, limit)
      BY <2>2, <3>1, <3>2
    <3>4. /\ c \in Calls /\ c.written = <<>> /\ c.role = "fallback" /\ c.field = f /\ c.todo = q
      <4>1. f \in Fields
        BY <1>15
      <4> QED BY <2>4, <3>3, <4>1 DEF Call, Calls
    <3> QED BY <3>1, <3>2, <3>4
  <2>6. Pushed(n - 1, c)
    BY <1>2, <1>3, <2>1, <2>2, <2>3, <2>5 DEF Pushed
  <2>7. Top.field = stack[n - 1].todo[1]
    BY <1>2, <1>3, <2>1, <2>3 DEF MemInv, Chained
  <2>8. Top.field.lost
    BY <1>2, <1>3, <2>1 DEF MemInv, CallsFollow, CallFollows
  <2>9. EnumStep(n - 1, c)
    BY <1>2, <1>3, <2>1, <2>3, <2>5, <2>6, <2>7, <2>8 DEF EnumStep, Same, Writing
  <2> QED BY <2>9 DEF WriterStep
<1>18. CASE GiveUp
  <2>1. stack # <<>> /\ Top.role = "children" /\ stack' = Wrote(Below, Opaque)
    BY <1>18 DEF GiveUp
  <2>2. Handed(n - 1, Opaque)
    BY <1>3, <1>4, <1>6, <2>1
  <2> QED BY <1>2, <1>18, <2>1, <2>2 DEF GiveUp, Writing, Same, PopStep, WriterStep
<1>19. CASE FallbackWritten
  <2>1. stack # <<>> /\ Top.role = "fallback" /\ Top.todo = <<>> /\ stack' = Wrote(Below, Top.written[1])
    BY <1>19 DEF FallbackWritten
  <2>2. Top.written[1] \in WrittenField
    BY <1>3, <2>1 DEF CallOK
  <2>3. Handed(n - 1, Top.written[1])
    BY <1>3, <1>6, <2>1, <2>2
  <2> QED BY <1>2, <1>19, <2>1, <2>3 DEF FallbackWritten, Writing, Same, PopStep, WriterStep
<1>20. CASE Fail
  <2>1. CASE \E i \in Fallbacks :
             /\ \A j \in Fallbacks : j <= i
             /\ stack' = Wrote(SubSeq(stack, 1, i - 1), Opaque)
             /\ UNCHANGED <<next, out>>
    <3>1. PICK i \in Fallbacks : stack' = Wrote(SubSeq(stack, 1, i - 1), Opaque) /\ UNCHANGED <<next, out>>
      BY <2>1
    <3>2. AtField(BadField) /\ stack # <<>> /\ i \in 1 .. n /\ stack[i].role = "fallback"
      BY <1>3, <1>7, <1>20, <3>1 DEF Fail, Fallbacks
    <3>3. i # 1
      BY <1>1, <1>3, <3>2 DEF StackInv, StackOK
    <3>4. i - 1 \in 1 .. n /\ i - 1 < n
      BY <1>2, <1>3, <3>2, <3>3
    <3>5. stack[i - 1].todo # <<>>
      BY <1>1, <1>2, <1>3, <3>2, <3>4 DEF StackInv, StackOK
    <3>6. Handed(i - 1, Opaque)
      BY <1>3, <1>4, <3>1, <3>2, <3>4, <3>5 DEF Handed
    <3> QED BY <1>3, <1>20, <3>1, <3>2, <3>6 DEF Fail, Writing, Same, RescueStep, WriterStep
  <2>2. CASE ~\E i \in Fallbacks :
             /\ \A j \in Fallbacks : j <= i
             /\ stack' = Wrote(SubSeq(stack, 1, i - 1), Opaque)
             /\ UNCHANGED <<next, out>>
    BY <1>20, <2>2 DEF Fail, FailStep, WriterStep
  <2> QED BY <2>1, <2>2
<1>21. QED BY <1>8, <1>9, <1>12, <1>13, <1>14, <1>16, <1>17, <1>18, <1>19, <1>20 DEF Write, WriterStep

LEMMA NextFollows ==
    ASSUME NEW c \in Calls, CallFollows(c), NEW d \in Calls, NEW v, NextOf(c, d, v),
           1 \in DOMAIN c.todo, \A b \in Addr : v = Ref(b) => To(c.todo[1], b)
    PROVE  CallFollows(d)
<1>1. PICK s : s = Source(c)
  OBVIOUS
<1>2. Source(d) = s
  BY <1>1 DEF Source, NextOf, IsObject
<1>3. PICK q \in Seq(Fields) : q = c.todo
  BY DEF Calls
<1>4. PICK w \in Seq(WrittenField) : w = c.written
  BY DEF Calls
<1>5. PICK x \in Seq(Fields) : x = d.todo
  BY DEF Calls
<1>6. PICK y \in Seq(WrittenField) : y = d.written
  BY DEF Calls
<1>7. /\ Len(q) = Len(x) + 1 /\ Len(y) = Len(w) + 1
      /\ \A k \in DOMAIN x : k + 1 \in DOMAIN q /\ x[k] = q[k + 1]
      /\ \A k \in DOMAIN y : (k \in DOMAIN w /\ y[k] = w[k]) \/ (k = Len(w) + 1 /\ y[k] = v)
  BY <1>3, <1>4, <1>5, <1>6 DEF NextOf
<1>8. /\ Len(w) + Len(q) = Len(s)
      /\ \A k \in DOMAIN q : q[k] = s[Len(w) + k]
      /\ \A k \in DOMAIN w : \A b \in Addr : w[k] = Ref(b) => To(s[k], b)
  BY <1>1, <1>3, <1>4 DEF CallFollows
<1>9. Len(y) + Len(x) = Len(s)
  BY <1>7, <1>8
<1>10. ASSUME NEW k \in DOMAIN x PROVE x[k] = s[Len(y) + k]
  <2>1. k + 1 \in DOMAIN q /\ x[k] = q[k + 1] /\ k \in Nat
    BY <1>7
  <2>2. q[k + 1] = s[Len(w) + (k + 1)]
    BY <1>8, <2>1
  <2>3. Len(w) + (k + 1) = Len(y) + k
    BY <1>7, <2>1
  <2> QED BY <2>1, <2>2, <2>3
<1>11. q[1] = s[Len(w) + 1]
  BY <1>3, <1>8
<1>12. ASSUME NEW k \in DOMAIN y, NEW b \in Addr, y[k] = Ref(b) PROVE To(s[k], b)
  <2>1. CASE k \in DOMAIN w /\ y[k] = w[k]
    BY <1>8, <1>12, <2>1
  <2>2. CASE k = Len(w) + 1 /\ y[k] = v
    BY <1>3, <1>11, <1>12, <2>2
  <2> QED BY <1>7, <2>1, <2>2
<1>13. d.role \in {"children", "fallback"} => d.field.lost
  BY DEF NextOf, CallFollows
<1> QED BY <1>2, <1>5, <1>6, <1>9, <1>10, <1>12, <1>13 DEF CallFollows

\* Calls that are as they were follow the memory as they did.
LEMMA FollowStill ==
    ASSUME NEW t, t = stack', \A i \in DOMAIN t : CallFollows(t[i]), event' = event, next' = next
    PROVE  CallsFollow'
<1>1. ASSUME NEW i \in DOMAIN t PROVE CallFollows(stack[i])'
  <2>1. PICK c : c = t[i]
    OBVIOUS
  <2>2. PICK s : s = Source(c)
    OBVIOUS
  <2>3. (stack[i])' = c /\ Source(stack[i])' = s
    BY <2>1, <2>2 DEF Source, heap, IsObject
  <2>4. CallFollows(c)
    BY <2>1
  <2>5. /\ Len(c.written) + Len(c.todo) = Len(s)
        /\ \A k \in DOMAIN c.todo : c.todo[k] = s[Len(c.written) + k]
        /\ \A k \in DOMAIN c.written : \A b \in Addr : c.written[k] = Ref(b) => To(s[k], b)
        /\ c.role \in {"children", "fallback"} => c.field.lost
    BY <2>2, <2>4 DEF CallFollows
  <2> QED BY <2>3, <2>5 DEF CallFollows
<1> QED BY <1>1 DEF CallsFollow

LEMMA HandFollows ==
    ASSUME StackInv, CallsFollow, Chained, NEW n, NEW v, Handed(n, v),
           event' = event, next' = next,
           \A b \in Addr : v = Ref(b) => To(stack[n].todo[1], b)
    PROVE  CallsFollow' /\ Chained'
<1>1. PICK t : t = stack'
  OBVIOUS
<1>2. /\ stack \in Seq(Calls) /\ DOMAIN stack = 1 .. Len(stack) /\ n \in Nat /\ 0 < n /\ n <= Len(stack)
      /\ t \in Seq(Calls) /\ Len(t) = n /\ DOMAIN t = 1 .. n
      /\ \A i \in 1 .. n : /\ i \in DOMAIN stack /\ (i < n => t[i] = stack[i])
                           /\ t[i].role = stack[i].role /\ t[i].field = stack[i].field
                           /\ t[i].r = stack[i].r
      /\ NextOf(stack[n], t[n], v)
      /\ 1 \in DOMAIN stack[n].todo
  BY <1>1, HandedFacts
<1>3. ASSUME NEW i \in 1 .. n PROVE CallFollows(t[i])
  <2>1. CallFollows(stack[i]) /\ i \in DOMAIN stack
    BY <1>2 DEF CallsFollow
  <2>2. CASE i < n
    BY <1>2, <2>1, <2>2
  <2>3. CASE i = n
    <3>1. stack[n] \in Calls /\ t[n] \in Calls
      BY <1>2
    <3>2. CallFollows(t[n])
      BY <1>2, <2>1, <2>3, <3>1, NextFollows
    <3> QED BY <2>3, <3>2
  <2> QED BY <1>2, <2>2, <2>3
<1>4. CallsFollow'
  BY <1>1, <1>2, <1>3, FollowStill
<1>5. ASSUME NEW i \in 1 .. n, i + 1 \in 1 .. n PROVE t[i + 1].field = t[i].todo[1]
  <2>1. i < n /\ t[i] = stack[i] /\ t[i + 1].field = stack[i + 1].field /\ i \in DOMAIN stack /\ i + 1 \in DOMAIN stack
    BY <1>2, <1>5
  <2> QED BY <2>1 DEF Chained
<1>6. Chained'
  BY <1>1, <1>2, <1>5 DEF Chained
<1> QED BY <1>4, <1>6

\* A call that has not begun.
LEMMA NewFollows ==
    ASSUME NEW c \in Calls, c.written = <<>>, c.todo = Source(c),
           c.role \in {"children", "fallback"} => c.field.lost
    PROVE  CallFollows(c)
<1>1. PICK q \in Seq(Fields) : q = c.todo /\ q = Source(c)
  BY DEF Calls
<1>2. PICK w \in Seq(WrittenField) : w = c.written /\ Len(w) = 0 /\ DOMAIN w = {}
  BY DEF Calls
<1>3. \A k \in DOMAIN q : 0 + k = k /\ 0 + Len(q) = Len(q)
  OBVIOUS
<1> QED BY <1>1, <1>2, <1>3 DEF CallFollows

LEMMA PushFollows ==
    ASSUME StackInv, CallsFollow, Chained, NEW n, NEW c, Pushed(n, c),
           event' = event, next' = next, c.todo = Source(c),
           c.role \in {"children", "fallback"} => c.field.lost,
           n # 0 => c.field = stack[n].todo[1]
    PROVE  CallsFollow' /\ Chained'
<1>1. PICK t : t = stack'
  OBVIOUS
<1>2. /\ stack \in Seq(Calls) /\ DOMAIN stack = 1 .. Len(stack) /\ n \in Nat /\ n <= Len(stack)
      /\ t \in Seq(Calls) /\ Len(t) = n + 1 /\ DOMAIN t = 1 .. n + 1
      /\ \A i \in 1 .. n : i \in DOMAIN stack /\ t[i] = stack[i]
      /\ t[n + 1] = c
      /\ \A i \in 1 .. n + 1 : i \in 1 .. n \/ i = n + 1
  BY <1>1, PushedFacts
<1>3. CallFollows(c)
  BY NewFollows DEF Pushed
<1>4. \A i \in 1 .. n + 1 : CallFollows(t[i])
  BY <1>2, <1>3 DEF CallsFollow
<1>5. CallsFollow'
  BY <1>1, <1>2, <1>4, FollowStill
<1>6. ASSUME NEW i \in 1 .. n + 1, i + 1 \in 1 .. n + 1 PROVE t[i + 1].field = t[i].todo[1]
  <2>1. i \in 1 .. n /\ t[i] = stack[i] /\ i \in DOMAIN stack
    BY <1>2, <1>6
  <2>2. CASE i + 1 \in 1 .. n
    BY <1>2, <2>1, <2>2 DEF Chained
  <2>3. CASE i + 1 = n + 1
    BY <1>2, <2>1, <2>3
  <2> QED BY <1>2, <1>6, <2>2, <2>3
<1>7. Chained'
  BY <1>1, <1>2, <1>6 DEF Chained
<1> QED BY <1>5, <1>7

\* The reference that a call for an object or an enum comes to is to what its field points to.
LEMMA ResultFollows ==
    ASSUME Inv, MemInv, stack # <<>>, Top.role # "variable", NEW n, n = Len(stack)
    PROVE  /\ n - 1 \in DOMAIN stack /\ stack[n - 1].todo[1] = Top.field
           /\ Top.field \in Pointers /\ Top.field.to \in Addr /\ To(Top.field, Top.field.to)
           /\ IsObject(Top) => \A k \in DOMAIN Top.written : \A b \in Addr :
                                   Top.written[k] = Ref(b) => PointsTo(heap[Top.field.to], b) # {}
           /\ Top.role \in {"children", "fallback"} =>
                 \A k \in DOMAIN Top.written : \A b \in Addr :
                     Top.written[k] = Ref(b) => b = Top.field.to
<1>1. StackInv
  BY InvParts
<1>2. /\ n \in 1 .. Len(stack) /\ DOMAIN stack = 1 .. n /\ Top = stack[n] /\ Top \in Calls
      /\ Top.todo \in Seq(Fields) /\ Top.written \in Seq(WrittenField)
      /\ Top.field \in Pointers /\ Top.field.to \in Addr /\ n - 1 \in 1 .. Len(stack)
  BY <1>1, TopFacts
<1>3. n - 1 \in DOMAIN stack /\ n - 1 + 1 = n /\ n \in DOMAIN stack
  BY <1>2
<1>4. stack[n - 1].todo[1] = Top.field
  BY <1>2, <1>3 DEF MemInv, Chained
<1>5. To(Top.field, Top.field.to)
  BY <1>2 DEF To
<1>6. CallFollows(Top)
  BY <1>2, <1>3 DEF MemInv, CallsFollow
<1>7. PICK q \in Seq(Fields) : q = Top.todo
  BY <1>2
<1>8. PICK w \in Seq(WrittenField) : w = Top.written
  BY <1>2
<1>9. \A k \in DOMAIN w : k \in 1 .. Len(Source(Top))
  <2>1. Len(w) + Len(q) = Len(Source(Top))
    BY <1>6, <1>7, <1>8 DEF CallFollows
  <2> QED BY <2>1
<1>10. ASSUME IsObject(Top), NEW k \in DOMAIN Top.written, NEW b \in Addr, Top.written[k] = Ref(b)
       PROVE  PointsTo(heap[Top.field.to], b) # {}
  <2>1. Source(Top) = heap[Top.field.to]
    BY <1>10 DEF Source, IsObject
  <2>2. heap[Top.field.to] \in Seq(Fields)
    BY <1>2 DEF Inv, TypeOK, heap
  <2>3. k \in DOMAIN heap[Top.field.to]
    BY <1>8, <1>9, <1>10, <2>1, <2>2
  <2>4. To(heap[Top.field.to][k], b)
    BY <1>6, <1>10, <2>1 DEF CallFollows
  <2> QED BY <2>3, <2>4 DEF PointsTo
<1>11. ASSUME Top.role \in {"children", "fallback"}, NEW k \in DOMAIN Top.written, NEW b \in Addr,
              Top.written[k] = Ref(b)
       PROVE  b = Top.field.to
  <2>1. Source(Top) = <<Told(Top.field)>>
    BY <1>11 DEF Source, IsObject
  <2>2. Len(Source(Top)) = 1
    BY <2>1
  <2>3. k = 1
    BY <1>8, <1>9, <1>11, <2>2
  <2>4. To(Told(Top.field), b)
    BY <1>6, <1>11, <2>1, <2>3 DEF CallFollows
  <2>5. Told(Top.field).to = Top.field.to
    BY <1>2 DEF Pointers, Told
  <2> QED BY <2>4, <2>5 DEF To
<1> QED BY <1>2, <1>3, <1>4, <1>5, <1>10, <1>11

LEMMA NoReference == \A a : Plain # Ref(a) /\ Opaque # Ref(a) /\ ~Refers(Opaque, a) /\ ~Refers(None, a)
  BY DEF Plain, Opaque, Ref, Refers, None

LEMMA RefIs == \A a, b : Ref(a) = Ref(b) <=> a = b
  BY DEF Ref

LEMMA StructRefers == \A s, a : Refers(Struct(s), a) <=> RefersFrom(s, a)
  BY DEF Struct, Refers, RefersFrom

\* The environment when one object is set.
LEMMA EnvSetFollows ==
    ASSUME EnvFollows, env \in Env, NEW a \in Addr, NEW v \in WrittenValue,
           env' = [env EXCEPT ![a] = v], event' = event,
           \A b \in Addr : Refers(v, b) => PointsTo(heap[a], b) # {}
    PROVE  EnvFollows'
<1>1. env'[a] = v /\ \A b \in Addr : b # a => env'[b] = env[b]
  BY SetEnv
<1>2. ASSUME NEW x \in Addr, NEW b \in Addr, Refers(env'[x], b) PROVE PointsTo(heap[x], b) # {}
  <2>1. CASE x = a
    BY <1>1, <1>2, <2>1
  <2>2. CASE x # a
    BY <1>1, <1>2, <2>2 DEF EnvFollows
  <2> QED BY <2>1, <2>2
<1>3. \A x, b \in Addr : PointsTo(heap[x], b)' = PointsTo(heap[x], b)
  BY DEF heap, PointsTo, To
<1>4. \A x, b \in Addr : Refers(env[x], b)' <=> Refers(env'[x], b)
  BY DEF Refers
<1> QED BY <1>2, <1>3, <1>4 DEF EnvFollows

LEMMA EnvStillFollows ==
    ASSUME EnvFollows, event' = event, \A a \in Addr : env'[a] = env[a] \/ env'[a] = None
    PROVE  EnvFollows'
<1>1. \A x, b \in Addr : PointsTo(heap[x], b)' = PointsTo(heap[x], b)
  BY DEF heap, PointsTo, To
<1>2. \A x, b \in Addr : Refers(env[x], b)' <=> Refers(env'[x], b)
  BY DEF Refers
<1> QED BY <1>1, <1>2, NoReference DEF EnvFollows

LEMMA NoCallFollows == stack' = <<>> => CallsFollow' /\ Chained'
  BY DEF CallsFollow, Chained

LEMMA MemWriter ==
    ASSUME Inv, MemInv, WriterStep
    PROVE  MemInv'
<1>1. StackInv /\ EnvInv /\ Static
  BY InvParts
<1>2. CallsFollow /\ Chained /\ EnvFollows /\ env \in Env
  BY <1>1 DEF MemInv, EnvInv
<1>3. PICK n : n = Len(stack)
  OBVIOUS
<1>4. stack # <<>> =>
        /\ n \in 1 .. Len(stack) /\ stack \in Seq(Calls) /\ DOMAIN stack = 1 .. n
        /\ Top = stack[n] /\ Top \in Calls /\ CallOK(Top)
        /\ Top.todo \in Seq(Fields) /\ Top.written \in Seq(WrittenField) /\ Top.r \in Nat
  BY <1>1, <1>3, TopFacts
<1>5. \A a \in Addr : Opaque \in WrittenValue /\ ~Refers(Opaque, a)
  BY NoReference DEF WrittenValue
<1>6. CASE BeginVariable
  <2>1. PICK c : c = Call("variable", PlainField, event.variables[next], limit - 1)
    OBVIOUS
  <2>2. stack = <<>> /\ stack' = <<c>> /\ next <= Len(event.variables) /\ Writing /\ UNCHANGED <<next, order, env, out>>
    BY <1>6, <2>1 DEF BeginVariable
  <2>3. event.variables[next] \in Seq(Fields) /\ limit - 1 \in Nat
    BY <1>1, <2>2, EventsAssumption DEF Static
  <2>4. c \in Calls /\ c.written = <<>> /\ c.role = "variable" /\ c.todo = event.variables[next]
    BY <2>1, <2>3 DEF Call, Calls, Fields
  <2>5. stack' = Append(SubSeq(stack, 1, 0), c) /\ 0 \in 0 .. Len(stack)
    BY <2>2
  <2>6. Pushed(0, c)
    BY <2>4, <2>5 DEF Pushed
  <2>7. c.todo = Source(c)
    BY <2>4 DEF Source
  <2>8. CallsFollow' /\ Chained'
    BY <1>1, <1>2, <2>2, <2>4, <2>6, <2>7, PushFollows DEF Writing
  <2>9. EnvFollows'
    BY <1>2, <2>2, EnvStillFollows DEF Writing
  <2> QED BY <2>8, <2>9 DEF MemInv
<1>7. CASE FieldStep
  <2>1. PICK v \in {Plain, Opaque} : Handed(n, v)
    BY <1>3, <1>7 DEF FieldStep
  <2>2. event' = event /\ next' = next /\ env' = env
    BY <1>7 DEF FieldStep, Same
  <2>3. CallsFollow' /\ Chained'
    BY <1>1, <1>2, <2>1, <2>2, HandFollows, NoReference
  <2>4. EnvFollows'
    BY <1>2, <2>2, EnvStillFollows
  <2> QED BY <2>3, <2>4 DEF MemInv
<1>8. ASSUME NEW f \in Pointers, FollowStep(f), Handed(n, Ref(f.to))
      PROVE  CallsFollow' /\ Chained'
  <2>1. f = stack[n].todo[1] /\ event' = event /\ next' = next
    BY <1>4, <1>8 DEF FollowStep, Same
  <2>2. \A b \in Addr : Ref(f.to) = Ref(b) => To(stack[n].todo[1], b)
    BY <2>1, RefIs DEF To
  <2> QED BY <1>1, <1>2, <1>8, <2>1, <2>2, HandFollows
<1>9. ASSUME NEW f \in Pointers, CutStep(f) PROVE MemInv'
  <2>1. CallsFollow' /\ Chained'
    BY <1>3, <1>8, <1>9 DEF CutStep
  <2>2. env' = [env EXCEPT ![f.to] = Opaque] /\ event' = event /\ f.to \in Addr
    BY <1>9 DEF CutStep, FollowStep, Same, Pointers
  <2>3. EnvFollows'
    BY <1>2, <1>5, <2>2, EnvSetFollows
  <2> QED BY <2>1, <2>3 DEF MemInv
<1>10. ASSUME NEW f \in Pointers, KnownStep(f) PROVE MemInv'
  <2>1. CallsFollow' /\ Chained'
    BY <1>3, <1>8, <1>10 DEF KnownStep
  <2>2. EnvFollows'
    BY <1>2, <1>10, EnvStillFollows DEF KnownStep, FollowStep, Same
  <2> QED BY <2>1, <2>2 DEF MemInv
<1>11. ASSUME NEW f \in Pointers, BeginStep(f) PROVE MemInv'
  <2>1. PICK c : c = Call("pointee", f, heap[f.to], Top.r - 2)
    OBVIOUS
  <2>2. Pushed(n, c) /\ event' = event /\ next' = next /\ env' = env /\ stack # <<>> /\ f = Top.todo[1]
    BY <1>3, <1>11, <2>1 DEF BeginStep, FollowStep, Same
  <2>3. c.role = "pointee" /\ c.field = f /\ c.todo = heap[f.to]
    BY <2>1 DEF Call
  <2>4. c.todo = Source(c)
    BY <2>3 DEF Source, IsObject
  <2>5. f = stack[n].todo[1]
    BY <1>4, <2>2
  <2>6. CallsFollow' /\ Chained'
    BY <1>1, <1>2, <2>2, <2>3, <2>4, <2>5, PushFollows
  <2>7. EnvFollows'
    BY <1>2, <2>2, EnvStillFollows
  <2> QED BY <2>6, <2>7 DEF MemInv
<1>12. CASE SetStep
  <2>1. /\ stack # <<>> /\ IsObject(Top) /\ event' = event /\ next' = next
        /\ Handed(n - 1, Ref(Top.field.to))
        /\ env' = [env EXCEPT ![Top.field.to] = Struct(Top.written)]
    BY <1>3, <1>12 DEF SetStep, Same
  <2>2. Top.role # "variable"
    BY <2>1 DEF IsObject
  <2>3. /\ n - 1 \in DOMAIN stack /\ stack[n - 1].todo[1] = Top.field
        /\ Top.field.to \in Addr /\ To(Top.field, Top.field.to)
        /\ \A k \in DOMAIN Top.written : \A b \in Addr :
              Top.written[k] = Ref(b) => PointsTo(heap[Top.field.to], b) # {}
    BY <1>3, <2>1, <2>2, ResultFollows
  <2>4. CallsFollow' /\ Chained'
    BY <1>1, <1>2, <2>1, <2>3, HandFollows, RefIs
  <2>5. PICK w \in Seq(WrittenField) : w = Top.written
    BY <1>4, <2>1
  <2>6. Struct(w) \in WrittenValue
    BY DEF WrittenValue, Struct
  <2>7. \A b \in Addr : Refers(Struct(w), b) => PointsTo(heap[Top.field.to], b) # {}
    BY <2>3, <2>5, StructRefers DEF RefersFrom
  <2>8. EnvFollows'
    BY <1>2, <2>1, <2>3, <2>5, <2>6, <2>7, EnvSetFollows
  <2> QED BY <2>4, <2>8 DEF MemInv
<1>13. CASE PopStep
  <2>1. stack # <<>> /\ Top.role \in {"children", "fallback"} /\ event' = event /\ next' = next /\ env' = env
    BY <1>13 DEF PopStep, Same
  <2>2. Top.role # "variable"
    BY <2>1
  <2>3. /\ n - 1 \in DOMAIN stack /\ stack[n - 1].todo[1] = Top.field
        /\ To(Top.field, Top.field.to)
        /\ \A k \in DOMAIN Top.written : \A b \in Addr :
              Top.written[k] = Ref(b) => b = Top.field.to
    BY <1>3, <2>1, <2>2, ResultFollows
  <2>4. CASE Handed(n - 1, Opaque)
    BY <1>1, <1>2, <2>1, <2>4, HandFollows, NoReference, EnvStillFollows DEF MemInv
  <2>5. CASE Top.role = "fallback" /\ Top.todo = <<>> /\ Handed(n - 1, Top.written[1])
    <3>1. 1 \in DOMAIN Top.written
      BY <1>4, <2>1, <2>5 DEF CallOK
    <3>2. \A b \in Addr : Top.written[1] = Ref(b) => To(stack[n - 1].todo[1], b)
      BY <2>3, <3>1
    <3>3. CallsFollow' /\ Chained'
      BY <1>1, <1>2, <2>1, <2>5, <3>2, HandFollows
    <3> QED BY <1>2, <2>1, <3>3, EnvStillFollows DEF MemInv
  <2> QED BY <1>3, <1>13, <2>4, <2>5 DEF PopStep
<1>14. CASE RescueStep
  <2>1. PICK i \in DOMAIN stack : Handed(i - 1, Opaque)
    BY <1>14 DEF RescueStep
  <2>2. event' = event /\ next' = next /\ env' = env
    BY <1>14 DEF RescueStep, Same
  <2> QED BY <1>1, <1>2, <2>1, <2>2, HandFollows, NoReference, EnvStillFollows DEF MemInv
<1>15. CASE FailStep
  <2>1. stack' = <<>> /\ env' = env /\ event' = event
    BY <1>15 DEF FailStep, Writing
  <2> QED BY <1>2, <2>1, NoCallFollows, EnvStillFollows DEF MemInv
<1>16. CASE VariableWritten
  <2>1. stack' = <<>> /\ event' = event /\ \A a \in Addr : env'[a] = None
    BY <1>16 DEF VariableWritten, Writing, NoEnv
  <2> QED BY <1>2, <2>1, NoCallFollows, EnvStillFollows DEF MemInv
<1>17. ASSUME NEW k, NEW c, EnumStep(k, c) PROVE MemInv'
  <2>1. Pushed(k, c) /\ event' = event /\ next' = next /\ env' = env
    BY <1>17 DEF EnumStep, Same
  <2>2. /\ c.role \in {"children", "fallback"} /\ c.field.lost /\ c.field = stack[k].todo[1]
        /\ c.todo = <<Told(c.field)>>
    BY <1>17 DEF EnumStep, Told
  <2>3. c.todo = Source(c)
    BY <2>2 DEF Source, IsObject
  <2>4. CallsFollow' /\ Chained'
    BY <1>1, <1>2, <2>1, <2>2, <2>3, PushFollows
  <2> QED BY <1>2, <2>1, <2>4, EnvStillFollows DEF MemInv
<1> QED BY <1>6, <1>7, <1>9, <1>10, <1>11, <1>12, <1>13, <1>14, <1>15, <1>16, <1>17 DEF WriterStep

\* The reader leaves the writer's part alone.
Written == UNCHANGED <<event, limit, next, stack, order, env, out>>

LEMMA ReadIsOnly ==
    ASSUME Read \/ Done \/ UNCHANGED vars PROVE Written
  BY DEF Read, ReadEntry, ReadValue, Reads, Done, vars, Written

LEMMA MemStill ==
    ASSUME MemInv, Written PROVE MemInv'
<1>1. CallsFollow'
  <2>1. \A i \in DOMAIN stack : CallFollows(stack[i])
    BY DEF MemInv, CallsFollow
  <2> QED BY <2>1, FollowStill DEF Written
<1>2. Chained'
  BY DEF MemInv, Chained, Written
<1>3. EnvFollows'
  BY EnvStillFollows DEF MemInv, Written
<1> QED BY <1>1, <1>2, <1>3 DEF MemInv

LEMMA MemNext == Inv /\ MemInv /\ [Next]_vars => MemInv'
<1> SUFFICES ASSUME Inv, MemInv, [Next]_vars PROVE MemInv'
  OBVIOUS
<1>1. CASE Write
  BY <1>1, WriteSteps, MemWriter
<1>2. CASE Read \/ Done \/ UNCHANGED vars
  BY <1>2, ReadIsOnly, MemStill
<1> QED BY <1>1, <1>2 DEF Next

LEMMA MemInit == Init => MemInv
  BY NoReference DEF Init, MemInv, CallsFollow, Chained, EnvFollows, NoEnv

-----------------------------------------------------------------------------
(***************************************************************************)
(* The order of the environment.                                           *)
(***************************************************************************)
Before(a, b) == \E i, j \in DOMAIN order : i < j /\ order[i] = a /\ order[j] = b

\* alloc_env puts x behind all others, and leaves these as they are.
LEMMA MovedOrder ==
    ASSUME OrderOK, NEW x \in Addr, AllocEnv(x)
    PROVE  /\ \A a, b \in Addr : (Before(a, b) /\ a # x) => Before(a, b)'
           /\ \A a \in Addr : (Allocated(a) /\ a # x) => Before(a, x)'
<1>1. PICK m : m = order' /\ m = Moved(x)
  BY DEF AllocEnv
<1>2. PICK n \in Nat : n = Len(order)
  BY DEF OrderOK
<1>3. order \in Seq(Addr) /\ DOMAIN order = 1 .. n
  BY <1>2 DEF OrderOK
<1>4. CASE ~Allocated(x)
  <2>1. m = Append(order, x)
    BY <1>1, <1>4 DEF Moved
  <2>2. DOMAIN m = 1 .. n + 1 /\ m[n + 1] = x /\ \A i \in 1 .. n : m[i] = order[i]
    BY <1>2, <1>3, <2>1
  <2>3. \A i \in 1 .. n : i \in 1 .. n + 1 /\ i < n + 1
    BY <1>2
  <2>4. n + 1 \in 1 .. n + 1
    BY <1>2
  <2>5. ASSUME NEW a \in Addr, NEW b \in Addr, Before(a, b) PROVE Before(a, b)'
    <3>1. PICK i \in 1 .. n, j \in 1 .. n : i < j /\ order[i] = a /\ order[j] = b
      BY <1>3, <2>5 DEF Before
    <3>2. i \in DOMAIN m /\ j \in DOMAIN m /\ m[i] = a /\ m[j] = b
      BY <2>2, <2>3, <3>1
    <3> QED BY <1>1, <3>1, <3>2 DEF Before
  <2>6. ASSUME NEW a \in Addr, Allocated(a) PROVE Before(a, x)'
    <3>1. PICK i \in 1 .. n : order[i] = a
      BY <1>3, <2>6 DEF Allocated
    <3>2. i \in DOMAIN m /\ n + 1 \in DOMAIN m /\ m[i] = a /\ m[n + 1] = x /\ i < n + 1
      BY <2>2, <2>3, <2>4, <3>1
    <3> QED BY <1>1, <3>2 DEF Before
  <2> QED BY <2>5, <2>6
<1>5. CASE Allocated(x)
  <2> DEFINE k == CHOOSE k \in 1 .. n : order[k] = x
  <2>1. k \in 1 .. n /\ order[k] = x
    BY <1>3, <1>5 DEF Allocated
  <2>2. m = [i \in 1 .. n |-> IF i < k THEN order[i] ELSE IF i < n THEN order[i + 1] ELSE x]
    BY <1>1, <1>2, <1>5 DEF Moved
  <2> HIDE DEF k
  <2>3. DOMAIN m = 1 .. n
    BY <2>2
  <2>4. n \in DOMAIN m /\ m[n] = x
    BY <2>1, <2>2
  \* the new place of what was at i
  <2>5. ASSUME NEW i \in 1 .. n, i # k
        PROVE  /\ i < k => i \in DOMAIN m /\ m[i] = order[i] /\ i < n
               /\ i > k => i - 1 \in DOMAIN m /\ m[i - 1] = order[i] /\ i - 1 < n
    <3>1. CASE i < k
      BY <2>1, <2>2, <2>3, <3>1
    <3>2. CASE i > k
      <4>1. i - 1 \in 1 .. n /\ ~(i - 1 < k) /\ i - 1 < n /\ i - 1 + 1 = i
        BY <2>1, <3>2
      <4>2. m[i - 1] = order[i]
        BY <2>2, <4>1
      <4>3. ~(i < k)
        BY <2>1, <3>2
      <4> QED BY <2>3, <4>1, <4>2, <4>3
    <3> QED BY <2>1, <2>5, <3>1, <3>2
  <2>6. ASSUME NEW a \in Addr, Allocated(a), a # x PROVE Before(a, x)'
    <3>1. PICK i \in 1 .. n : order[i] = a
      BY <1>3, <2>6 DEF Allocated
    <3>2. i # k
      BY <2>1, <2>6, <3>1
    <3>3. PICK p \in DOMAIN m : m[p] = a /\ p < n
      BY <2>1, <2>5, <3>1, <3>2
    <3> QED BY <1>1, <2>4, <3>3 DEF Before
  <2>7. ASSUME NEW a \in Addr, NEW b \in Addr, Before(a, b), a # x PROVE Before(a, b)'
    <3>1. PICK i \in 1 .. n, j \in 1 .. n : i < j /\ order[i] = a /\ order[j] = b
      BY <1>3, <2>7 DEF Before
    <3>2. i # k /\ Allocated(a)
      BY <1>3, <2>1, <2>7, <3>1 DEF Allocated
    <3>3. CASE j = k
      BY <2>1, <2>6, <2>7, <3>1, <3>2, <3>3
    <3>4. CASE j # k
      <4>1. \E p, q \in DOMAIN m : p < q /\ m[p] = a /\ m[q] = b
        <5>1. CASE i < k /\ j < k
          BY <2>5, <3>1, <3>2, <3>4, <5>1
        <5>2. CASE i < k /\ j > k
          <6>1. i < j - 1
            BY <2>1, <3>1, <5>2
          <6> QED BY <2>5, <3>1, <3>2, <3>4, <5>2, <6>1
        <5>3. CASE i > k /\ j > k
          <6>1. i - 1 < j - 1
            BY <2>1, <3>1
          <6> QED BY <2>5, <3>1, <3>2, <3>4, <5>3, <6>1
        <5> QED BY <2>1, <3>1, <3>2, <3>4, <5>1, <5>2, <5>3
      <4> QED BY <1>1, <4>1 DEF Before
    <3> QED BY <3>3, <3>4
  <2> QED BY <2>6, <2>7
<1> QED BY <1>4, <1>5

-----------------------------------------------------------------------------
(***************************************************************************)
(* An object that is being written is not met again, where there are no    *)
(* cycles and where it points to nothing.  The objects being written are   *)
(* then in the order in which they were begun.                             *)
(***************************************************************************)
InOrder ==
    \A i, j \in DOMAIN stack :
        (i < j /\ IsObject(stack[i]) /\ IsObject(stack[j]))
            => Before(stack[i].field.to, stack[j].field.to)

\* The field a call is at.
LEMMA AtSource ==
    ASSUME NEW c \in Calls, CallFollows(c), c.todo # <<>>, Source(c) \in Seq(Fields)
    PROVE  /\ Len(c.written) + 1 \in DOMAIN Source(c)
           /\ c.todo[1] = Source(c)[Len(c.written) + 1]
<1>1. PICK q \in Seq(Fields) : q = c.todo /\ q # <<>>
  BY DEF Calls
<1>2. PICK w \in Seq(WrittenField) : w = c.written
  BY DEF Calls
<1>3. PICK s \in Seq(Fields) : s = Source(c)
  OBVIOUS
<1>4. Len(w) + Len(q) = Len(s) /\ \A k \in DOMAIN q : q[k] = s[Len(w) + k]
  BY <1>1, <1>2, <1>3 DEF CallFollows
<1>5. 1 \in DOMAIN q /\ Len(w) + 1 \in DOMAIN s
  BY <1>1, <1>4
<1> QED BY <1>1, <1>2, <1>3, <1>4, <1>5

\* An object points to what the field it is at does.
LEMMA ObjectHolds ==
    ASSUME Inv, MemInv, NEW i \in DOMAIN stack, IsObject(stack[i]), stack[i].todo # <<>>,
           NEW a \in Addr, To(stack[i].todo[1], a)
    PROVE  stack[i].field.to \in Addr /\ PointsTo(heap[stack[i].field.to], a) # {}
<1>1. PICK c \in Calls : c = stack[i]
  BY DEF Inv, TypeOK
<1>2. CallFollows(c) /\ c.field \in Pointers /\ c.field.to \in Addr
  BY <1>1 DEF MemInv, CallsFollow, Inv, TypeOK, IsObject, Pointers
<1>3. Source(c) = heap[c.field.to] /\ Source(c) \in Seq(Fields)
  BY <1>1, <1>2 DEF Source, IsObject, Inv, TypeOK, heap
<1>4. Len(c.written) + 1 \in DOMAIN Source(c) /\ c.todo[1] = Source(c)[Len(c.written) + 1]
  BY <1>1, <1>2, <1>3, AtSource
<1> QED BY <1>1, <1>2, <1>3, <1>4 DEF PointsTo

\* The call above is for a pointer.
LEMMA AboveIsFor ==
    ASSUME Inv, MemInv, NEW i \in DOMAIN stack, i < Len(stack)
    PROVE  /\ i + 1 \in DOMAIN stack /\ stack[i].todo # <<>> /\ stack[i + 1].field = stack[i].todo[1]
           /\ stack[i + 1].field \in Pointers /\ stack[i + 1].field.to \in Addr
<1>1. stack \in Seq(Calls) /\ DOMAIN stack = 1 .. Len(stack)
  BY DEF Inv, TypeOK
<1>2. i + 1 \in DOMAIN stack /\ i + 1 # 1
  BY <1>1
<1>3. stack[i].todo # <<>> /\ stack[i + 1].role # "variable"
  BY <1>1, <1>2 DEF Inv, StackOK
<1>4. stack[i + 1].field = stack[i].todo[1]
  BY <1>2 DEF MemInv, Chained
<1>5. stack[i + 1].field \in Pointers
  BY <1>2, <1>3 DEF Inv, TypeOK
<1> QED BY <1>2, <1>3, <1>4, <1>5 DEF Pointers

LEMMA LeafIsOver ==
    ASSUME Inv, MemInv, stack # <<>>, Top.todo # <<>>, NEW f \in Pointers, f = Top.todo[1],
           IsLeaf(f.to)
    PROVE  ~Pending(f.to)
<1> SUFFICES ASSUME NEW i \in DOMAIN stack, IsObject(stack[i]), stack[i].field.to = f.to PROVE FALSE
  BY DEF Pending
<1>1. stack \in Seq(Calls) /\ DOMAIN stack = 1 .. Len(stack) /\ f.to \in Addr /\ Top = stack[Len(stack)]
  BY DEF Inv, TypeOK, Pointers, Top
<1>2. CASE i = Len(stack)
  <2>1. To(stack[i].todo[1], f.to) /\ stack[i].todo # <<>>
    BY <1>1, <1>2 DEF To
  <2>2. PointsTo(heap[f.to], f.to) # {}
    BY <1>1, <2>1, ObjectHolds
  <2> QED BY <1>1, <2>2 DEF IsLeaf
<1>3. CASE i < Len(stack)
  <2>1. /\ stack[i].todo # <<>> /\ stack[i + 1].field = stack[i].todo[1]
        /\ stack[i + 1].field \in Pointers /\ stack[i + 1].field.to \in Addr
    BY <1>3, AboveIsFor
  <2>2. To(stack[i].todo[1], stack[i + 1].field.to)
    BY <2>1 DEF To
  <2>3. PointsTo(heap[f.to], stack[i + 1].field.to) # {}
    BY <2>1, <2>2, ObjectHolds
  <2> QED BY <2>1, <2>3 DEF IsLeaf
<1> QED BY <1>1, <1>2, <1>3

LEMMA NoCycleIsMet ==
    ASSUME Inv, MemInv, stack # <<>>, Top.todo # <<>>, NEW f \in Pointers, f = Top.todo[1],
           Acyclic
    PROVE  ~Pending(f.to)
<1> SUFFICES ASSUME NEW i \in DOMAIN stack, IsObject(stack[i]), stack[i].field.to = f.to PROVE FALSE
  BY DEF Pending
<1>0. PICK n : n = Len(stack)
  OBVIOUS
<1>1. /\ stack \in Seq(Calls) /\ DOMAIN stack = 1 .. n /\ f.to \in Addr /\ Top = stack[n]
      /\ n \in DOMAIN stack /\ To(stack[n].todo[1], f.to) /\ stack[n].todo # <<>>
  BY <1>0 DEF Inv, TypeOK, Pointers, Top, To
<1>2. f.to \notin Within(heap, f.to)
  BY <1>1 DEF Acyclic
<1>3. CASE i = n
  <2>1. PointsTo(heap[f.to], f.to) # {}
    BY <1>1, <1>3, ObjectHolds
  <2> QED BY <1>1, <1>2, <2>1, WithinBase
<1>4. CASE i < n
  <2>1. stack[n].field.to \in Within(heap, f.to)
    BY <1>1, <1>4 DEF Inv, Descends
  <2>2. stack[n].role # "variable" /\ stack[n] \in Calls
    BY <1>1, <1>4 DEF Inv, StackOK
  <2>3. CASE IsObject(stack[n])
    <3>1. stack[n].field.to \in Addr /\ PointsTo(heap[stack[n].field.to], f.to) # {}
      BY <1>1, <2>3, ObjectHolds
    <3> QED BY <1>1, <1>2, <2>1, <3>1, WithinStep
  <2>4. CASE ~IsObject(stack[n])
    <3>1. stack[n].role \in {"children", "fallback"}
      BY <2>2, <2>4 DEF Calls, IsObject
    <3>2. CallOK(stack[n]) /\ stack[n].todo \in Seq(Fields)
      BY <1>1, <2>2 DEF Inv, StackOK, Calls
    <3>3. 1 \in DOMAIN stack[n].todo
      BY <1>1, <3>2
    <3>4. stack[n].todo[1].to = stack[n].field.to
      BY <3>1, <3>2, <3>3 DEF CallOK
    <3> QED BY <1>1, <1>2, <2>1, <3>4
  <2> QED BY <2>3, <2>4
<1> QED BY <1>1, <1>3, <1>4

NotMet == \A f \in Pointers : FollowStep(f) => ~Pending(f.to)

\* A step that begins no object.
LEMMA OrderKept ==
    ASSUME StackInv, InOrder, ObjectsOfBefore, NEW n, DOMAIN stack' = 1 .. n,
           \A i, j \in 1 .. n : i < j => i \in DOMAIN stack /\ j \in DOMAIN stack,
           \/ order' = order
           \/ \E x \in Addr : OrderOK /\ AllocEnv(x) /\ ~Pending(x)
    PROVE  InOrder'
<1>1. PICK t : t = stack'
  OBVIOUS
<1>2. \A i \in DOMAIN stack : IsObject(stack[i]) => stack[i].field.to \in Addr /\ Pending(stack[i].field.to)
  BY DEF StackInv, CallsTyped, IsObject, Pointers, Pending
<1>3. \A a, b \in Addr : (Before(a, b) /\ Pending(a)) => Before(a, b)'
  <2>1. CASE order' = order
    BY <2>1 DEF Before
  <2>2. CASE \E x \in Addr : OrderOK /\ AllocEnv(x) /\ ~Pending(x)
    BY <2>2, MovedOrder
  <2> QED BY <2>1, <2>2
<1>4. ASSUME NEW i \in DOMAIN t, NEW j \in DOMAIN t, i < j, IsObject(t[i]), IsObject(t[j])
      PROVE  Before(t[i].field.to, t[j].field.to)'
  <2>1. /\ i \in DOMAIN stack /\ IsObject(stack[i]) /\ stack[i].field = t[i].field
        /\ j \in DOMAIN stack /\ IsObject(stack[j]) /\ stack[j].field = t[j].field
    BY <1>1, <1>4 DEF ObjectsOfBefore
  <2>2. Before(stack[i].field.to, stack[j].field.to)
    BY <1>4, <2>1 DEF InOrder
  <2> QED BY <1>2, <1>3, <2>1, <2>2
<1> QED BY <1>1, <1>4 DEF InOrder, IsObject, Before

LEMMA HandedOrder ==
    ASSUME StackInv, InOrder, NEW n, NEW v, Handed(n, v),
           \/ order' = order
           \/ \E x \in Addr : OrderOK /\ AllocEnv(x) /\ ~Pending(x)
    PROVE  InOrder' /\ ObjectsOfBefore
<1>1. PICK t : t = stack'
  OBVIOUS
<1>2. /\ DOMAIN t = 1 .. n
      /\ \A i \in 1 .. n : /\ i \in DOMAIN stack
                           /\ t[i].role = stack[i].role /\ t[i].field = stack[i].field
  BY <1>1, HandedFacts
<1>3. ObjectsOfBefore
  BY <1>1, <1>2 DEF ObjectsOfBefore, IsObject
<1> QED BY <1>1, <1>2, <1>3, OrderKept

LEMMA OrderWriter ==
    ASSUME Inv, MemInv, InOrder, NotMet, WriterStep
    PROVE  InOrder'
<1>1. StackInv /\ OrderOK /\ \A f \in Pointers : f.to \in Addr
  BY InvParts DEF EnvInv, Pointers
<1>2. CASE stack' = <<>>
  BY <1>2 DEF InOrder
<1>3. CASE BeginVariable
  <2>1. PICK c : stack' = <<c>> /\ c.role = "variable"
    BY <1>3 DEF BeginVariable, Call
  <2>2. DOMAIN stack' = {1}
    BY <2>1
  <2> QED BY <2>2 DEF InOrder
<1>4. ASSUME order' = order, NEW n, NEW v, Handed(n, v) PROVE InOrder'
  BY <1>1, <1>4, HandedOrder
<1>5. CASE FieldStep
  BY <1>4, <1>5 DEF FieldStep
<1>6. CASE SetStep
  BY <1>4, <1>6 DEF SetStep
<1>7. CASE PopStep
  BY <1>4, <1>7 DEF PopStep
<1>8. CASE RescueStep
  BY <1>4, <1>8 DEF RescueStep
<1>9. ASSUME NEW f \in Pointers, CutStep(f) \/ KnownStep(f) PROVE InOrder'
  <2>1. FollowStep(f) /\ Handed(Len(stack), Ref(f.to))
    BY <1>9 DEF CutStep, KnownStep
  <2>2. AllocEnv(f.to) /\ ~Pending(f.to)
    BY <2>1 DEF FollowStep, NotMet
  <2> QED BY <1>1, <2>1, <2>2, HandedOrder
<1>10. ASSUME NEW n, NEW c, EnumStep(n, c) PROVE InOrder'
  <2>1. PICK t : t = stack'
    OBVIOUS
  <2>2. Pushed(n, c) /\ ~IsObject(c) /\ order' = order
    BY <1>10 DEF EnumStep, IsObject
  <2>3. /\ n \in Nat /\ DOMAIN stack = 1 .. Len(stack) /\ DOMAIN t = 1 .. n + 1
        /\ \A i \in 1 .. n : i \in DOMAIN stack /\ t[i] = stack[i]
        /\ t[n + 1] = c
        /\ \A i \in 1 .. n + 1 : i \in 1 .. n \/ i = n + 1
    BY <1>1, <2>1, <2>2, PushedFacts
  <2>4. ASSUME NEW i \in DOMAIN t, NEW j \in DOMAIN t, i < j, IsObject(t[i]), IsObject(t[j])
        PROVE  Before(t[i].field.to, t[j].field.to)
    <3>1. i \in 1 .. n /\ j \in 1 .. n
      BY <2>2, <2>3, <2>4
    <3> QED BY <2>3, <2>4, <3>1 DEF InOrder
  <2> QED BY <2>1, <2>2, <2>4 DEF InOrder, IsObject, Before
<1>11. ASSUME NEW f \in Pointers, BeginStep(f) PROVE InOrder'
  <2>1. PICK t : t = stack'
    OBVIOUS
  <2>2. PICK c : c = Call("pointee", f, heap[f.to], Top.r - 2)
    OBVIOUS
  <2>3. PICK n : n = Len(stack)
    OBVIOUS
  <2>4. PICK x \in Addr : x = f.to
    BY <1>1
  <2>5. Pushed(n, c) /\ c.field.to = x /\ AllocEnv(x) /\ ~Pending(x)
    BY <1>11, <2>2, <2>3, <2>4 DEF BeginStep, FollowStep, NotMet, Call
  <2>6. /\ n \in Nat /\ DOMAIN stack = 1 .. n /\ DOMAIN t = 1 .. n + 1
        /\ \A i \in 1 .. n : i \in DOMAIN stack /\ t[i] = stack[i]
        /\ t[n + 1] = c
        /\ \A i \in 1 .. n + 1 : i \in 1 .. n \/ i = n + 1
    BY <1>1, <2>1, <2>3, <2>5, PushedFacts
  <2>7. \A i \in DOMAIN stack : IsObject(stack[i]) =>
            /\ stack[i].field.to \in Addr /\ Allocated(stack[i].field.to) /\ stack[i].field.to # x
    BY <1>1, <2>5 DEF StackInv, CallsTyped, IsObject, Pointers, Pending
  <2>8. /\ \A a, b \in Addr : (Before(a, b) /\ a # x) => Before(a, b)'
        /\ \A a \in Addr : (Allocated(a) /\ a # x) => Before(a, x)'
    BY <1>1, <2>5, MovedOrder
  <2>9. ASSUME NEW i \in DOMAIN t, NEW j \in DOMAIN t, i < j, IsObject(t[i]), IsObject(t[j])
        PROVE  Before(t[i].field.to, t[j].field.to)'
    <3>1. i \in 1 .. n /\ t[i] = stack[i]
      BY <2>6, <2>9
    <3>2. CASE j \in 1 .. n
      <4>1. Before(stack[i].field.to, stack[j].field.to) /\ t[j] = stack[j]
        BY <2>6, <2>9, <3>1, <3>2 DEF InOrder
      <4> QED BY <2>6, <2>7, <2>8, <2>9, <3>1, <3>2, <4>1
    <3>3. CASE j = n + 1
      <4>1. t[j].field.to = x
        BY <2>5, <2>6, <3>3
      <4> QED BY <2>6, <2>7, <2>8, <2>9, <3>1, <4>1
    <3> QED BY <2>6, <2>9, <3>2, <3>3
  <2> QED BY <2>1, <2>9 DEF InOrder, IsObject, Before
<1> QED BY <1>2, <1>3, <1>5, <1>6, <1>7, <1>8, <1>9, <1>10, <1>11
        DEF WriterStep, FailStep, VariableWritten

-----------------------------------------------------------------------------
(***************************************************************************)
(* Where only leaves are shared, an object that is no leaf is met once:    *)
(* what is allocated is shared, or the one pointer to it has been met.     *)
(***************************************************************************)
Sparse == \A a \in Addr : Shared(a) => IsLeaf(a)

\* How many of its fields the i-th call has begun.
Progress(i) == Len(stack[i].written) + (IF i = Len(stack) THEN 0 ELSE 1)

MetInVariable(i, j) == i < next \/ (i = next /\ stack # <<>> /\ j <= Progress(1))

MetInObject(b, j) ==
    /\ Allocated(b)
    /\ \A i \in DOMAIN stack : (IsObject(stack[i]) /\ stack[i].field.to = b) => j <= Progress(i)

Met(a) ==
    \/ Shared(a)
    \/ \E i \in DOMAIN event.variables : \E j \in PointsTo(event.variables[i], a) : MetInVariable(i, j)
    \/ \E b \in Addr : \E j \in PointsTo(heap[b], a) : MetInObject(b, j)

MetOnce == \A a \in Addr : Allocated(a) => Met(a)

LEMMA SharedIsStatic == event' = event => \A a \in Addr : (Shared(a)' <=> Shared(a)) /\ (IsLeaf(a)' <=> IsLeaf(a))
  BY DEF Shared, IsLeaf, Sites, PointsTo, To, Somewhere, heap

LEMMA SparseIsStatic == event' = event => (Sparse' <=> Sparse)
  BY SharedIsStatic DEF Sparse

\* Two pointers to an object make it shared.
LEMMA TwoSites ==
    ASSUME NEW a \in Addr, ~Shared(a)
    PROVE  /\ \A i, k \in DOMAIN event.variables :
                 \A j \in PointsTo(event.variables[i], a), l \in PointsTo(event.variables[k], a) :
                     i = k /\ j = l
           /\ \A b, c \in Addr : \A j \in PointsTo(heap[b], a), l \in PointsTo(heap[c], a) : b = c /\ j = l
           /\ \A i \in DOMAIN event.variables : \A b \in Addr :
                 PointsTo(event.variables[i], a) = {} \/ PointsTo(heap[b], a) = {}
<1>1. \A s1, s2 \in Sites(a) : s1 = s2
  BY DEF Shared
<1>2. \A i \in DOMAIN event.variables : \A j \in PointsTo(event.variables[i], a) : <<"variable", i, j>> \in Sites(a)
  BY DEF Sites
<1>3. \A b \in Addr : \A j \in PointsTo(heap[b], a) : <<"object", b, j>> \in Sites(a)
  BY DEF Sites
<1>4. \A i, j, b, l : <<"variable", i, j>> # <<"object", b, l>>
  OBVIOUS
<1> QED BY <1>1, <1>2, <1>3, <1>4

\* A pointer of lost variant makes what it points to shared.
LEMMA LostIsShared ==
    ASSUME NEW a \in Addr, NEW f, To(f, a), f.lost,
           \/ \E i \in DOMAIN event.variables : \E j \in DOMAIN event.variables[i] : event.variables[i][j] = f
           \/ \E b \in Addr : \E j \in DOMAIN heap[b] : heap[b][j] = f
    PROVE  Shared(a)
  BY DEF Shared, Somewhere

\* The field the last call is at.
LEMMA HereFacts ==
    ASSUME Inv, MemInv, stack # <<>>, Top.todo # <<>>, NEW n, n = Len(stack),
           NEW p, p = Len(Top.written) + 1
    PROVE  /\ n \in DOMAIN stack /\ Top = stack[n] /\ p \in Nat /\ Progress(n) = p - 1
           /\ Top.role = "variable" => /\ n = 1 /\ next \in DOMAIN event.variables
                                       /\ p \in DOMAIN event.variables[next]
                                       /\ Top.todo[1] = event.variables[next][p]
           /\ IsObject(Top) => /\ Top.field.to \in Addr /\ p \in DOMAIN heap[Top.field.to]
                               /\ Top.todo[1] = heap[Top.field.to][p]
           /\ Top.role # "variable" /\ ~IsObject(Top) =>
                 /\ \A a \in Addr : To(Top.todo[1], a) => Shared(a)
                 /\ Top.todo[1] \in Pointers => ~Top.todo[1].lost
<1>1. /\ n \in 1 .. Len(stack) /\ DOMAIN stack = 1 .. n /\ Top = stack[n] /\ Top \in Calls
      /\ Top.todo \in Seq(Fields) /\ Top.written \in Seq(WrittenField)
      /\ Top.role # "variable" => Top.field \in Pointers /\ Top.field.to \in Addr
  BY InvParts, TopFacts
<1>2. p \in Nat /\ Progress(n) = p - 1
  BY <1>1 DEF Progress
<1>3. CallFollows(Top)
  BY <1>1 DEF MemInv, CallsFollow
<1>4. ASSUME Top.role = "variable"
      PROVE  /\ n = 1 /\ next \in DOMAIN event.variables
             /\ p \in DOMAIN event.variables[next]
             /\ Top.todo[1] = event.variables[next][p]
  <2>1. n = 1
    BY <1>1, <1>4 DEF Inv, StackOK
  <2>2. next \in DOMAIN event.variables /\ event.variables[next] \in Seq(Fields)
    BY DEF Inv, TypeOK, Busy
  <2>3. Source(Top) = event.variables[next]
    BY <1>4 DEF Source
  <2> QED BY <1>1, <1>3, <2>1, <2>2, <2>3, AtSource
<1>5. ASSUME IsObject(Top)
      PROVE  /\ Top.field.to \in Addr /\ p \in DOMAIN heap[Top.field.to]
             /\ Top.todo[1] = heap[Top.field.to][p]
  <2>1. Top.field.to \in Addr
    BY <1>1, <1>5 DEF IsObject
  <2>2. heap[Top.field.to] \in Seq(Fields)
    BY <2>1 DEF Inv, TypeOK, heap
  <2>3. Source(Top) = heap[Top.field.to]
    BY <1>5 DEF Source, IsObject
  <2> QED BY <1>1, <1>3, <2>1, <2>2, <2>3, AtSource
<1>6. ASSUME Top.role # "variable", ~IsObject(Top)
      PROVE  /\ \A a \in Addr : To(Top.todo[1], a) => Shared(a)
             /\ Top.todo[1] \in Pointers => ~Top.todo[1].lost
  <2>1. Top.role \in {"children", "fallback"}
    BY <1>1, <1>6 DEF Calls, IsObject
  <2>2. Source(Top) = <<Told(Top.field)>>
    BY <1>6 DEF Source
  <2>3. /\ Told(Top.field) \in Pointers /\ ~Told(Top.field).lost
        /\ Told(Top.field).to = Top.field.to
    BY <1>1, <1>6 DEF Told, Pointers
  <2>4. Source(Top) \in Seq(Fields) /\ Len(Source(Top)) = 1 /\ DOMAIN Source(Top) = {1} /\ Source(Top)[1] = Told(Top.field)
    BY <2>2, <2>3 DEF Fields
  <2>5. Top.todo[1] = Told(Top.field)
    BY <1>1, <1>3, <2>4, AtSource
  <2>6. Top.field.lost /\ Top.field \in Pointers /\ Top.field.to \in Addr
    BY <1>1, <1>3, <2>1 DEF CallFollows
  <2>7. n # 1
    BY <1>1, <1>6 DEF Inv, StackOK
  <2>8. PICK m \in DOMAIN stack : m + 1 = n /\ m < Len(stack)
    <3>1. n - 1 \in 1 .. n /\ n - 1 + 1 = n
      BY <1>1, <2>7
    <3>2. n - 1 < Len(stack)
      BY <1>1
    <3> QED BY <1>1, <3>1, <3>2
  <2>9. stack[m].todo # <<>> /\ Top.field = stack[m].todo[1]
    BY <1>1, <2>8, AboveIsFor
  <2>10. PICK c \in Calls : c = stack[m] /\ CallFollows(c)
    BY <2>8 DEF Inv, TypeOK, MemInv, CallsFollow
  <2>11. PICK q \in Nat : q = Len(c.written) + 1
    BY <2>10 DEF Calls
  <2>12. Shared(Top.field.to)
    <3>1. To(Top.field, Top.field.to)
      BY <2>6 DEF To
    <3>2. CASE c.role = "variable"
      <4>1. next \in DOMAIN event.variables /\ event.variables[next] \in Seq(Fields)
        BY DEF Inv, TypeOK, Busy
      <4>2. Source(c) = event.variables[next]
        BY <3>2 DEF Source
      <4>3. q \in DOMAIN event.variables[next] /\ event.variables[next][q] = Top.field
        BY <2>9, <2>10, <2>11, <4>1, <4>2, AtSource
      <4> QED BY <2>6, <3>1, <4>1, <4>3, LostIsShared
    <3>3. CASE IsObject(c)
      <4>1. c.field.to \in Addr
        BY <2>8, <2>10, <3>3 DEF Inv, TypeOK, IsObject, Pointers
      <4>2. Source(c) = heap[c.field.to] /\ heap[c.field.to] \in Seq(Fields)
        BY <3>3, <4>1 DEF Source, IsObject, Inv, TypeOK, heap
      <4>3. q \in DOMAIN heap[c.field.to] /\ heap[c.field.to][q] = Top.field
        BY <2>9, <2>10, <2>11, <4>2, AtSource
      <4> QED BY <2>6, <3>1, <4>1, <4>3, LostIsShared
    <3>4. CASE c.role # "variable" /\ ~IsObject(c)
      <4>1. Source(c) = <<Told(c.field)>>
        BY <3>4 DEF Source
      <4>2. c.field \in Pointers
        BY <2>8, <2>10, <3>4 DEF Inv, TypeOK
      <4>3. Told(c.field) \in Pointers /\ ~Told(c.field).lost
        BY <4>2 DEF Told, Pointers
      <4>4. Source(c) \in Seq(Fields) /\ DOMAIN Source(c) = {1} /\ Source(c)[1] = Told(c.field)
        BY <4>1, <4>3 DEF Fields
      <4>5. Top.field = Told(c.field)
        BY <2>9, <2>10, <4>4, AtSource
      <4> QED BY <2>6, <4>3, <4>5
    <3> QED BY <3>2, <3>3, <3>4
  <2>13. \A a \in Addr : To(Top.todo[1], a) => a = Top.field.to
    BY <2>3, <2>5 DEF To
  <2> QED BY <2>3, <2>5, <2>12, <2>13
<1> QED BY <1>1, <1>2, <1>4, <1>5, <1>6

\* What is met where only leaves are shared is new or a leaf, ...
LEMMA NewOrLeaf ==
    ASSUME Inv, MemInv, MetOnce, Sparse, NEW f \in Pointers, stack # <<>>, Top.todo # <<>>, f = Top.todo[1]
    PROVE  /\ ~Allocated(f.to) \/ (Shared(f.to) /\ IsLeaf(f.to))
           /\ ~Pending(f.to)
<1>1. PICK x \in Addr : x = f.to
  BY DEF Pointers
<1>2. PICK n : n = Len(stack)
  OBVIOUS
<1>3. PICK p : p = Len(Top.written) + 1
  OBVIOUS
<1>4. /\ n \in DOMAIN stack /\ Top = stack[n] /\ p \in Nat /\ Progress(n) = p - 1
      /\ Top.role = "variable" => /\ n = 1 /\ next \in DOMAIN event.variables
                                  /\ p \in DOMAIN event.variables[next]
                                  /\ Top.todo[1] = event.variables[next][p]
      /\ IsObject(Top) => /\ Top.field.to \in Addr /\ p \in DOMAIN heap[Top.field.to]
                          /\ Top.todo[1] = heap[Top.field.to][p]
      /\ Top.role # "variable" /\ ~IsObject(Top) =>
            /\ \A a \in Addr : To(Top.todo[1], a) => Shared(a)
            /\ Top.todo[1] \in Pointers => ~Top.todo[1].lost
  BY <1>2, <1>3, HereFacts
<1>5. To(Top.todo[1], x)
  BY <1>1 DEF To
<1>6. ASSUME Allocated(x), ~Shared(x) PROVE FALSE
  <2>1. Top.role = "variable" \/ IsObject(Top)
    BY <1>4, <1>5, <1>6
  <2>2. \/ \E i \in DOMAIN event.variables : \E j \in PointsTo(event.variables[i], x) : MetInVariable(i, j)
        \/ \E b \in Addr : \E j \in PointsTo(heap[b], x) : MetInObject(b, j)
    BY <1>6 DEF MetOnce, Met
  <2>3. CASE Top.role = "variable"
    <3>1. next \in DOMAIN event.variables /\ p \in PointsTo(event.variables[next], x)
      BY <1>4, <1>5, <2>3 DEF PointsTo
    <3>2. PICK i \in DOMAIN event.variables : \E j \in PointsTo(event.variables[i], x) : MetInVariable(i, j)
      BY <1>6, <2>2, <3>1, TwoSites
    <3>5. PICK j \in PointsTo(event.variables[i], x) : MetInVariable(i, j)
      BY <3>2
    <3>6. \A k \in DOMAIN event.variables : \A l \in PointsTo(event.variables[k], x) : k = next /\ l = p
      BY <1>6, <3>1, TwoSites
    <3>3. i = next /\ j = p
      BY <3>2, <3>5, <3>6
    <3>4. Progress(1) = p - 1 /\ next \in Nat
      BY <1>4, <2>3 DEF Inv, TypeOK
    <3> QED BY <1>4, <3>3, <3>4, <3>5 DEF MetInVariable
  <2>4. CASE IsObject(Top)
    <3>1. Top.field.to \in Addr /\ p \in PointsTo(heap[Top.field.to], x)
      BY <1>4, <1>5, <2>4 DEF PointsTo
    <3>2. PICK b \in Addr : \E j \in PointsTo(heap[b], x) : MetInObject(b, j)
      BY <1>6, <2>2, <3>1, TwoSites
    <3>5. PICK j \in PointsTo(heap[b], x) : MetInObject(b, j)
      BY <3>2
    <3>3. b = Top.field.to /\ j = p
      BY <1>6, <3>1, <3>2, <3>5, TwoSites
    <3> QED BY <1>4, <2>4, <3>3, <3>5 DEF MetInObject
  <2> QED BY <2>1, <2>3, <2>4
<1>7. ~Allocated(x) \/ (Shared(x) /\ IsLeaf(x))
  BY <1>6 DEF Sparse
<1>8. ~Pending(x)
  <2>1. CASE IsLeaf(x)
    BY <1>1, <2>1, LeafIsOver
  <2>2. CASE ~Allocated(x)
    BY <2>2 DEF Pending, Inv, TypeOK, IsObject
  <2> QED BY <1>7, <2>1, <2>2
<1> QED BY <1>1, <1>7, <1>8

LEMMA WrittenLength == \A c \in Calls : Len(c.written) \in Nat
<1> SUFFICES ASSUME NEW c \in Calls PROVE Len(c.written) \in Nat
  OBVIOUS
<1>1. c.written \in Seq(WrittenField)
  BY DEF Calls
<1> QED BY <1>1

LEMMA PlacesAreNumbers ==
    ASSUME Static
    PROVE  /\ \A i \in DOMAIN event.variables : i \in Nat /\ event.variables[i] \in Seq(Fields)
           /\ \A b \in Addr : heap[b] \in Seq(Fields)
           /\ \A i \in DOMAIN event.variables : \A a \in Addr : PointsTo(event.variables[i], a) \subseteq Nat
           /\ \A b \in Addr : \A a \in Addr : PointsTo(heap[b], a) \subseteq Nat
<1>1. \A s \in Seq(Fields) : \A a : PointsTo(s, a) \subseteq Nat
  BY DEF PointsTo
<1>2. event.variables \in Seq(Seq(Fields)) /\ \A b \in Addr : heap[b] \in Seq(Fields)
  BY DEF Static, heap
<1>3. \A i \in DOMAIN event.variables : i \in Nat /\ event.variables[i] \in Seq(Fields)
  BY <1>2
<1> QED BY <1>1, <1>2, <1>3

\* What has been met stays met, ...
LEMMA MetStill ==
    ASSUME Static, event' = event, NEW a \in Addr, Met(a),
           \A i, j \in Nat : MetInVariable(i, j) => MetInVariable(i, j)',
           \A b \in Addr : \A j \in PointsTo(heap[b], a) : MetInObject(b, j) => MetInObject(b, j)'
    PROVE  Met(a)'
<1>1. /\ Shared(a) => Shared(a)'
      /\ DOMAIN event'.variables = DOMAIN event.variables
      /\ \A i : PointsTo(event.variables[i], a)' = PointsTo(event.variables[i], a)
      /\ \A b : PointsTo(heap[b], a)' = PointsTo(heap[b], a)
  BY SharedIsStatic DEF PointsTo, To, heap
<1>2. CASE Shared(a)
  BY <1>1, <1>2 DEF Met
<1>3. CASE \E i \in DOMAIN event.variables : \E j \in PointsTo(event.variables[i], a) : MetInVariable(i, j)
  <2>1. PICK i \in DOMAIN event.variables : \E j \in PointsTo(event.variables[i], a) : MetInVariable(i, j)
    BY <1>3
  <2>2. PICK j \in PointsTo(event.variables[i], a) : MetInVariable(i, j)
    BY <2>1
  <2>3. i \in Nat /\ j \in Nat
    BY <2>1, <2>2, PlacesAreNumbers
  <2>4. MetInVariable(i, j)'
    BY <2>2, <2>3
  <2> QED BY <1>1, <2>1, <2>2, <2>4 DEF Met
<1>4. CASE \E b \in Addr : \E j \in PointsTo(heap[b], a) : MetInObject(b, j)
  <2>1. PICK b \in Addr : \E j \in PointsTo(heap[b], a) : MetInObject(b, j)
    BY <1>4
  <2>2. PICK j \in PointsTo(heap[b], a) : MetInObject(b, j)
    BY <2>1
  <2>3. MetInObject(b, j)'
    BY <2>2
  <2> QED BY <1>1, <2>1, <2>2, <2>3 DEF Met
<1> QED BY <1>2, <1>3, <1>4 DEF Met

\* ... when a value is handed on, ...
LEMMA HandedMet ==
    ASSUME Static, StackInv, NEW n, NEW v, Handed(n, v), event' = event, next' = next,
           \A b \in Addr : Allocated(b) => Allocated(b)'
    PROVE  /\ \A a \in Addr : Met(a) => Met(a)'
           /\ stack' # <<>>
           /\ Progress(n)' = Len(stack[n].written) + 1
           /\ \A i \in DOMAIN stack' : i \in DOMAIN stack /\ i <= n
                                       /\ (IsObject(stack'[i]) <=> IsObject(stack[i]))
                                       /\ stack'[i].field = stack[i].field
<1>1. PICK t : t = stack'
  OBVIOUS
<1>2. /\ stack \in Seq(Calls) /\ DOMAIN stack = 1 .. Len(stack) /\ n \in Nat /\ 0 < n /\ n <= Len(stack)
      /\ t \in Seq(Calls) /\ Len(t) = n /\ DOMAIN t = 1 .. n
      /\ \A i \in 1 .. n : /\ i \in DOMAIN stack /\ (i < n => t[i] = stack[i])
                           /\ t[i].role = stack[i].role /\ t[i].field = stack[i].field
                           /\ t[i].r = stack[i].r
      /\ NextOf(stack[n], t[n], v)
  BY <1>1, HandedFacts
<1>3. /\ \A i \in 1 .. n : i <= n /\ i \in Nat /\ (i < n \/ i = n)
      /\ \A i \in 1 .. n : i < n => i # Len(stack) /\ i # n
  BY <1>2
<1>4. \A i \in DOMAIN stack : Len(stack[i].written) \in Nat
  <2>1. \A i \in DOMAIN stack : stack[i] \in Calls
    BY <1>2
  <2> QED BY <2>1, WrittenLength
<1>5. Len(t[n].written) = Len(stack[n].written) + 1 /\ n \in DOMAIN stack
  BY <1>2 DEF NextOf
<1>6. 1 \in 1 .. n
  BY <1>2
<1>8. Progress(n)' = Len(stack[n].written) + 1 /\ stack' # <<>>
  BY <1>1, <1>2, <1>4, <1>5 DEF Progress
<1>7. ASSUME NEW i \in 1 .. n PROVE Progress(i)' \in Nat /\ Progress(i) \in Nat /\ Progress(i) <= Progress(i)'
  <2>1. CASE i = n
    <3>1. PICK m \in Nat : m = Len(stack[n].written)
      BY <1>4, <1>5
    <3>2. Progress(n) = m + (IF n = Len(stack) THEN 0 ELSE 1)
      BY <3>1 DEF Progress
    <3>3. Progress(n)' = m + 1
      BY <1>8, <3>1
    <3> QED BY <2>1, <3>2, <3>3
  <2>2. CASE i < n
    <3>1. t[i] = stack[i] /\ i # n /\ i # Len(stack) /\ Len(stack[i].written) \in Nat
      BY <1>2, <1>3, <1>4, <2>2
    <3>2. Progress(i)' = Len(stack[i].written) + 1 /\ Progress(i) = Len(stack[i].written) + 1
      BY <1>1, <1>2, <3>1 DEF Progress
    <3> QED BY <3>1, <3>2
  <2> QED BY <1>3, <2>1, <2>2
<1>9. ASSUME NEW i \in Nat, NEW j \in Nat, MetInVariable(i, j) PROVE MetInVariable(i, j)'
  <2>1. CASE i < next
    BY <2>1 DEF MetInVariable
  <2>2. CASE i = next /\ stack # <<>> /\ j <= Progress(1)
    <3>1. j <= Progress(1)'
      BY <1>6, <1>7, <2>2
    <3> QED BY <1>8, <2>2, <3>1 DEF MetInVariable
  <2> QED BY <1>9, <2>1, <2>2 DEF MetInVariable
<1>10. \A i \in DOMAIN t : /\ i \in DOMAIN stack /\ i <= n
                           /\ (IsObject(t[i]) <=> IsObject(stack[i]))
                           /\ t[i].field = stack[i].field
  BY <1>2, <1>3 DEF IsObject
<1>11. ASSUME NEW b \in Addr, NEW j \in Nat, MetInObject(b, j) PROVE MetInObject(b, j)'
  <2>1. ASSUME NEW i \in DOMAIN t, IsObject(t[i]), t[i].field.to = b PROVE j <= Progress(i)'
    <3>1. j <= Progress(i)
      BY <1>10, <1>11, <2>1 DEF MetInObject
    <3> QED BY <1>2, <1>7, <3>1
  <2> QED BY <1>1, <1>11, <2>1 DEF MetInObject, IsObject
<1>12. \A a \in Addr : Met(a) => Met(a)'
  BY <1>9, <1>11, MetStill, PlacesAreNumbers
<1> QED BY <1>1, <1>8, <1>10, <1>12

\* ... and when a call is put on top, be it for a new object or for a leaf.
LEMMA PushedMet ==
    ASSUME Static, StackInv, NEW n, NEW c, Pushed(n, c), n # 0, event' = event, next' = next,
           \A b \in Addr : Allocated(b) => Allocated(b)',
           IsObject(c) => ~Allocated(c.field.to) \/ IsLeaf(c.field.to)
    PROVE  /\ \A a \in Addr : Met(a) => Met(a)'
           /\ stack' # <<>>
           /\ Progress(n)' = Len(stack[n].written) + 1
           /\ \A i \in DOMAIN stack' :
                 \/ /\ i \in DOMAIN stack /\ i <= n
                    /\ (IsObject(stack'[i]) <=> IsObject(stack[i]))
                    /\ stack'[i].field = stack[i].field
                 \/ stack'[i] = c
<1>1. PICK t : t = stack'
  OBVIOUS
<1>2. /\ stack \in Seq(Calls) /\ DOMAIN stack = 1 .. Len(stack) /\ n \in Nat /\ n <= Len(stack)
      /\ t \in Seq(Calls) /\ Len(t) = n + 1 /\ DOMAIN t = 1 .. n + 1
      /\ \A i \in 1 .. n : i \in DOMAIN stack /\ t[i] = stack[i]
      /\ t[n + 1] = c
      /\ \A i \in 1 .. n + 1 : i \in 1 .. n \/ i = n + 1
  BY <1>1, PushedFacts
<1>3. \A i \in 1 .. n : i <= n /\ i \in Nat /\ i # n + 1
  BY <1>2
<1>4. \A i \in DOMAIN stack : Len(stack[i].written) \in Nat
  <2>1. \A i \in DOMAIN stack : stack[i] \in Calls
    BY <1>2
  <2> QED BY <2>1, WrittenLength
<1>5. 1 \in 1 .. n /\ n \in 1 .. n /\ stack' # <<>>
  BY <1>1, <1>2
<1>6. ASSUME NEW i \in 1 .. n
      PROVE  /\ Progress(i)' = Len(stack[i].written) + 1
             /\ Progress(i)' \in Nat /\ Progress(i) \in Nat /\ Progress(i) <= Progress(i)'
  <2>1. t[i] = stack[i] /\ i # n + 1
    BY <1>2, <1>3
  <2>2. PICK m \in Nat : m = Len(stack[i].written)
    BY <1>2, <1>4
  <2>3. Progress(i)' = m + 1
    BY <1>1, <1>2, <2>1, <2>2 DEF Progress
  <2>4. Progress(i) = m + (IF i = Len(stack) THEN 0 ELSE 1)
    BY <2>2 DEF Progress
  <2>5. Progress(i) = m \/ Progress(i) = m + 1
    <3>1. CASE i = Len(stack)
      BY <2>2, <2>4, <3>1
    <3>2. CASE i # Len(stack)
      BY <2>2, <2>4, <3>2
    <3> QED BY <3>1, <3>2
  <2> QED BY <2>2, <2>3, <2>5
<1>7. ASSUME NEW i \in Nat, NEW j \in Nat, MetInVariable(i, j) PROVE MetInVariable(i, j)'
  <2>1. CASE i < next
    BY <2>1 DEF MetInVariable
  <2>2. CASE i = next /\ stack # <<>> /\ j <= Progress(1)
    <3>1. j <= Progress(1)'
      BY <1>5, <1>6, <2>2
    <3> QED BY <1>5, <2>2, <3>1 DEF MetInVariable
  <2> QED BY <1>7, <2>1, <2>2 DEF MetInVariable
<1>8. ASSUME NEW b \in Addr, NEW a \in Addr, NEW j \in PointsTo(heap[b], a), MetInObject(b, j)
      PROVE  MetInObject(b, j)'
  <2>1. ASSUME NEW i \in DOMAIN t, IsObject(t[i]), t[i].field.to = b PROVE j <= Progress(i)'
    <3>1. CASE i \in 1 .. n
      <4>1. j <= Progress(i) /\ j \in Nat
        BY <1>2, <1>8, <2>1, <3>1, PlacesAreNumbers DEF MetInObject
      <4> QED BY <1>6, <3>1, <4>1
    <3>2. CASE i = n + 1
      <4>1. ~Allocated(b) \/ IsLeaf(b)
        BY <1>2, <2>1, <3>2
      <4> QED BY <1>8, <4>1 DEF MetInObject, IsLeaf
    <3> QED BY <1>2, <3>1, <3>2
  <2> QED BY <1>1, <1>8, <2>1 DEF MetInObject, IsObject
<1>9. \A a \in Addr : Met(a) => Met(a)'
  BY <1>7, <1>8, MetStill
<1> QED BY <1>1, <1>2, <1>3, <1>5, <1>6, <1>9

\* No two objects being written have the same address.
LEMMA OneCallEach ==
    ASSUME StackInv, OrderOK, InOrder, NEW i \in DOMAIN stack, NEW j \in DOMAIN stack,
           IsObject(stack[i]), IsObject(stack[j]), stack[i].field.to = stack[j].field.to
    PROVE  i = j
<1>1. i \in Nat /\ j \in Nat
  BY DEF StackInv, CallsTyped
<1>2. \A a : ~Before(a, a)
  <2> SUFFICES ASSUME NEW a, Before(a, a) PROVE FALSE
    OBVIOUS
  <2>1. PICK k \in DOMAIN order, l \in DOMAIN order : k < l /\ order[k] = a /\ order[l] = a
    BY DEF Before
  <2> QED BY <2>1 DEF OrderOK
<1>3. CASE i < j
  BY <1>2, <1>3 DEF InOrder
<1>4. CASE j < i
  BY <1>2, <1>4 DEF InOrder
<1> QED BY <1>1, <1>3, <1>4

\* A pointer that is followed is where its object has been met.
LEMMA FollowedIsMet ==
    ASSUME Inv, MemInv, InOrder, NEW f \in Pointers, FollowStep(f), ~Pending(f.to), Allocated(f.to)',
           \A b \in Addr : Allocated(b) => Allocated(b)',
           NEW n, n = Len(stack), stack' # <<>>, Progress(n)' = Len(stack[n].written) + 1,
           \A i \in DOMAIN stack' :
                 \/ /\ i \in DOMAIN stack
                    /\ (IsObject(stack'[i]) <=> IsObject(stack[i]))
                    /\ stack'[i].field = stack[i].field
                 \/ stack'[i].field.to = f.to
    PROVE  Met(f.to)'
<1>1. PICK x \in Addr : x = f.to
  BY DEF Pointers
<1>2. PICK p : p = Len(Top.written) + 1
  OBVIOUS
<1>3. stack # <<>> /\ Top.todo # <<>> /\ f = Top.todo[1] /\ event' = event /\ next' = next
  BY DEF FollowStep, Same
<1>4. /\ n \in DOMAIN stack /\ Top = stack[n] /\ p \in Nat
      /\ Top.role = "variable" => /\ n = 1 /\ next \in DOMAIN event.variables
                                  /\ p \in DOMAIN event.variables[next]
                                  /\ Top.todo[1] = event.variables[next][p]
      /\ IsObject(Top) => /\ Top.field.to \in Addr /\ p \in DOMAIN heap[Top.field.to]
                          /\ Top.todo[1] = heap[Top.field.to][p]
      /\ Top.role # "variable" /\ ~IsObject(Top) => \A a \in Addr : To(Top.todo[1], a) => Shared(a)
  BY <1>2, <1>3, HereFacts
<1>5. Progress(n)' = p /\ p <= Progress(n)' /\ To(Top.todo[1], x)
  BY <1>1, <1>2, <1>3, <1>4 DEF To
<1>6. /\ Shared(x) => Shared(x)'
      /\ DOMAIN event'.variables = DOMAIN event.variables
      /\ \A i : PointsTo(event.variables[i], x)' = PointsTo(event.variables[i], x)
      /\ \A b : PointsTo(heap[b], x)' = PointsTo(heap[b], x)
  BY <1>3, SharedIsStatic DEF PointsTo, To, heap
<1>7. CASE Top.role = "variable"
  <2>1. next \in DOMAIN event.variables /\ p \in PointsTo(event.variables[next], x)
    BY <1>4, <1>5, <1>7 DEF PointsTo
  <2>2. PICK i : i = next
    OBVIOUS
  <2>3. MetInVariable(i, p)'
    BY <1>3, <1>4, <1>5, <1>7, <2>2 DEF MetInVariable
  <2> QED BY <1>1, <1>6, <2>1, <2>2, <2>3 DEF Met
<1>8. CASE IsObject(Top)
  <2>1. PICK b \in Addr : b = Top.field.to
    BY <1>4, <1>8
  <2>2. p \in PointsTo(heap[b], x)
    BY <1>4, <1>5, <1>8, <2>1 DEF PointsTo
  <2>3. Allocated(b) /\ b # x
    BY <1>1, <1>4, <1>8, <2>1 DEF Inv, TypeOK, IsObject, Pending
  <2>4. ASSUME NEW i \in DOMAIN stack', IsObject(stack'[i]), stack'[i].field.to = b PROVE p <= Progress(i)'
    <3>1. i \in DOMAIN stack /\ IsObject(stack[i]) /\ stack[i].field.to = b
      BY <1>1, <2>3, <2>4
    <3>2. i = n
      BY <1>4, <1>8, <2>1, <3>1, OneCallEach, InvParts DEF EnvInv
    <3> QED BY <1>5, <3>2
  <2>5. MetInObject(b, p)'
    BY <2>3, <2>4 DEF MetInObject, IsObject
  <2> QED BY <1>1, <1>6, <2>1, <2>2, <2>5 DEF Met
<1>9. CASE Top.role # "variable" /\ ~IsObject(Top)
  BY <1>1, <1>4, <1>5, <1>6, <1>9 DEF Met
<1> QED BY <1>7, <1>8, <1>9

\* The calls are over: the variable is, too.
LEMMA OverMet ==
    ASSUME Static, MetOnce, event' = event, next' = next + 1, stack' = <<>>, order' = order
    PROVE  MetOnce'
<1>1. next \in Nat
  BY DEF Static
<1>2. \A b : Allocated(b)' <=> Allocated(b)
  BY DEF Allocated
<1>3. \A i, j \in Nat : MetInVariable(i, j) => MetInVariable(i, j)'
  BY <1>1 DEF MetInVariable
<1>4. \A b, j : MetInObject(b, j) => MetInObject(b, j)'
  BY <1>2 DEF MetInObject
<1>5. \A a \in Addr : Met(a) => Met(a)'
  BY <1>3, <1>4, MetStill
<1> QED BY <1>2, <1>5 DEF MetOnce

LEMMA MetWriter ==
    ASSUME Inv, MemInv, MetOnce, Sparse, InOrder, WriterStep
    PROVE  MetOnce'
<1>1. Static /\ StackInv /\ EnvInv
  BY InvParts
<1>2. order' = order => \A b : Allocated(b)' <=> Allocated(b)
  BY DEF Allocated
<1>3. CASE BeginVariable
  <2>1. PICK c : c = Call("variable", PlainField, event.variables[next], limit - 1)
    OBVIOUS
  <2>2. c.role = "variable" /\ stack = <<>> /\ stack' = <<c>> /\ event' = event /\ next' = next /\ order' = order
    BY <1>3, <2>1 DEF BeginVariable, Writing, Call
  <2>3. DOMAIN stack' = {1} /\ stack'[1] = c
    BY <2>2
  <2>4. \A i, j \in Nat : MetInVariable(i, j) => MetInVariable(i, j)'
    BY <2>2 DEF MetInVariable
  <2>5. \A b, j : MetInObject(b, j) => MetInObject(b, j)'
    BY <1>2, <2>2, <2>3 DEF MetInObject, IsObject
  <2>6. \A a \in Addr : Met(a) => Met(a)'
    BY <1>1, <2>2, <2>4, <2>5, MetStill
  <2> QED BY <1>2, <2>2, <2>6 DEF MetOnce
<1>4. ASSUME event' = event, next' = next, order' = order, NEW n, NEW v, Handed(n, v) PROVE MetOnce'
  BY <1>1, <1>2, <1>4, HandedMet DEF MetOnce
<1>5. CASE FieldStep
  BY <1>4, <1>5 DEF FieldStep, Same
<1>6. CASE SetStep
  BY <1>4, <1>6 DEF SetStep, Same
<1>7. CASE PopStep
  BY <1>4, <1>7 DEF PopStep, Same
<1>8. CASE RescueStep
  BY <1>4, <1>8 DEF RescueStep, Same
<1>9. CASE FailStep
  BY <1>1, <1>9, OverMet DEF FailStep, Writing
<1>10. CASE VariableWritten
  BY <1>1, <1>10, OverMet DEF VariableWritten, Writing
<1>11. ASSUME NEW n, NEW c, EnumStep(n, c) PROVE MetOnce'
  <2>1. Pushed(n, c) /\ ~IsObject(c) /\ order' = order /\ event' = event /\ next' = next
    BY <1>11 DEF EnumStep, IsObject, Same
  <2>2. n # 0
    BY <1>1, <1>11 DEF EnumStep, StackInv, CallsTyped
  <2>3. \A a \in Addr : Met(a) => Met(a)'
    BY <1>1, <1>2, <2>1, <2>2, PushedMet
  <2> QED BY <1>2, <2>1, <2>3 DEF MetOnce
<1>12. ASSUME NEW f \in Pointers, FollowStep(f)
       PROVE  /\ f.to \in Addr /\ ~Pending(f.to) /\ (~Allocated(f.to) \/ IsLeaf(f.to))
              /\ StillAllocated /\ Allocated(f.to)' /\ \A b \in Addr : Allocated(b)' => b = f.to \/ Allocated(b)
              /\ event' = event /\ next' = next
  <2>1. f.to \in Addr
    BY DEF Pointers
  <2>2. stack # <<>> /\ Top.todo # <<>> /\ f = Top.todo[1] /\ AllocEnv(f.to) /\ event' = event /\ next' = next
    BY <1>12 DEF FollowStep, Same
  <2>3. ~Pending(f.to) /\ (~Allocated(f.to) \/ IsLeaf(f.to))
    BY <2>2, NewOrLeaf
  <2> QED BY <1>1, <2>1, <2>2, <2>3, AllocKeeps
<1>13. ASSUME NEW f \in Pointers, FollowStep(f), \A a \in Addr : Met(a) => Met(a)', Met(f.to)' PROVE MetOnce'
  BY <1>12, <1>13 DEF MetOnce
<1>14. ASSUME NEW f \in Pointers, CutStep(f) \/ KnownStep(f) PROVE MetOnce'
  <2>1. PICK n : n = Len(stack)
    OBVIOUS
  <2>2. FollowStep(f) /\ Handed(n, Ref(f.to))
    BY <1>14, <2>1 DEF CutStep, KnownStep
  <2>3. /\ \A a \in Addr : Met(a) => Met(a)'
        /\ stack' # <<>>
        /\ Progress(n)' = Len(stack[n].written) + 1
        /\ \A i \in DOMAIN stack' : /\ i \in DOMAIN stack
                                    /\ (IsObject(stack'[i]) <=> IsObject(stack[i]))
                                    /\ stack'[i].field = stack[i].field
    BY <1>1, <1>12, <2>2, HandedMet DEF StillAllocated
  <2>5. ~Pending(f.to) /\ Allocated(f.to)' /\ \A b \in Addr : Allocated(b) => Allocated(b)'
    BY <1>12, <2>2 DEF StillAllocated
  <2>6. \A i \in DOMAIN stack' :
              \/ /\ i \in DOMAIN stack
                 /\ (IsObject(stack'[i]) <=> IsObject(stack[i]))
                 /\ stack'[i].field = stack[i].field
              \/ stack'[i].field.to = f.to
    BY <2>3
  <2>4. Met(f.to)'
    BY <2>1, <2>2, <2>3, <2>5, <2>6, FollowedIsMet
  <2> QED BY <1>13, <2>2, <2>3, <2>4
<1>15. ASSUME NEW f \in Pointers, BeginStep(f) PROVE MetOnce'
  <2>1. PICK n : n = Len(stack)
    OBVIOUS
  <2>2. PICK c : c = Call("pointee", f, heap[f.to], Top.r - 2)
    OBVIOUS
  <2>3. FollowStep(f) /\ Pushed(n, c) /\ c.field = f
    BY <1>15, <2>1, <2>2 DEF BeginStep, Call
  <2>4. n # 0
    BY <1>1, <2>1, <2>3 DEF FollowStep, StackInv, CallsTyped
  <2>5. /\ \A a \in Addr : Met(a) => Met(a)'
        /\ stack' # <<>>
        /\ Progress(n)' = Len(stack[n].written) + 1
        /\ \A i \in DOMAIN stack' :
              \/ /\ i \in DOMAIN stack
                 /\ (IsObject(stack'[i]) <=> IsObject(stack[i]))
                 /\ stack'[i].field = stack[i].field
              \/ stack'[i].field.to = f.to
    BY <1>1, <1>12, <2>3, <2>4, PushedMet DEF StillAllocated
  <2>7. ~Pending(f.to) /\ Allocated(f.to)' /\ \A b \in Addr : Allocated(b) => Allocated(b)'
    BY <1>12, <2>3 DEF StillAllocated
  <2>6. Met(f.to)'
    BY <2>1, <2>3, <2>5, <2>7, FollowedIsMet
  <2> QED BY <1>13, <2>3, <2>5, <2>6
<1> QED BY <1>3, <1>5, <1>6, <1>7, <1>8, <1>9, <1>10, <1>11, <1>14, <1>15 DEF WriterStep

-----------------------------------------------------------------------------
PathInv == /\ Sparse => MetOnce
           /\ (Sparse \/ Acyclic) => InOrder

LEMMA AcyclicIsStatic == event' = event => (Acyclic' <=> Acyclic)
  BY DEF Acyclic, Within, PointsTo, To, heap

LEMMA EventIsKept == [Next]_vars => event' = event /\ limit' = limit
  BY DEF Next, Write, Read, Done, vars, BeginVariable, WriteOpaque, WritePlain, WriteRef, WriteOpt,
         PointeeWritten, WriteChildren, FallBack, GiveUp, FallbackWritten, Fail, VariableWritten,
         ReadEntry, ReadValue, Reads, Writing

LEMMA PathNext == Inv /\ MemInv /\ PathInv /\ [Next]_vars => PathInv'
<1> SUFFICES ASSUME Inv, MemInv, PathInv, [Next]_vars PROVE PathInv'
  OBVIOUS
<1>1. (Sparse' <=> Sparse) /\ (Acyclic' <=> Acyclic)
  BY EventIsKept, SparseIsStatic, AcyclicIsStatic
<1>2. CASE Read \/ Done \/ UNCHANGED vars
  <2>1. UNCHANGED <<event, next, stack, order>>
    BY <1>2, ReadIsOnly DEF Written
  <2>2. InOrder' <=> InOrder
    BY <2>1 DEF InOrder, Before, IsObject
  <2>3. MetOnce' <=> MetOnce
    BY <2>1 DEF MetOnce, Met, MetInVariable, MetInObject, Progress, IsObject, Allocated, PointsTo, To, heap,
                Shared, Sites, Somewhere
  <2> QED BY <1>1, <2>2, <2>3 DEF PathInv
<1>3. CASE Write
  <2>1. WriterStep
    BY <1>3, WriteSteps
  <2>2. ASSUME Sparse \/ Acyclic PROVE InOrder'
    <3>1. NotMet
      BY <2>2, NewOrLeaf, NoCycleIsMet DEF NotMet, FollowStep, PathInv
    <3> QED BY <2>1, <2>2, <3>1, OrderWriter DEF PathInv
  <2>3. ASSUME Sparse PROVE MetOnce'
    BY <2>1, <2>3, MetWriter DEF PathInv
  <2> QED BY <1>1, <2>2, <2>3 DEF PathInv
<1> QED BY <1>2, <1>3 DEF Next

LEMMA PathInit == Init => PathInv
  BY DEF Init, PathInv, MetOnce, InOrder, Allocated

\* The field a call is at is somewhere in memory, but for what enums of lost variant are taken for.
LEMMA FieldIsSomewhere ==
    ASSUME Inv, MemInv, NEW i \in DOMAIN stack, stack[i].todo # <<>>, NEW f, f = stack[i].todo[1],
           stack[i].role = "variable" \/ IsObject(stack[i])
    PROVE  \/ \E k \in DOMAIN event.variables : \E j \in DOMAIN event.variables[k] : event.variables[k][j] = f
           \/ \E b \in Addr : \E j \in DOMAIN heap[b] : heap[b][j] = f
<1>1. PICK c \in Calls : c = stack[i] /\ CallFollows(c)
  BY DEF Inv, TypeOK, MemInv, CallsFollow
<1>2. PICK q : q = Len(c.written) + 1
  OBVIOUS
<1>3. CASE c.role = "variable"
  <2>1. next \in DOMAIN event.variables /\ event.variables[next] \in Seq(Fields)
    BY DEF Inv, TypeOK, Busy
  <2>2. Source(c) = event.variables[next]
    BY <1>3 DEF Source
  <2>3. q \in DOMAIN event.variables[next] /\ event.variables[next][q] = f
    BY <1>1, <1>2, <2>1, <2>2, AtSource
  <2> QED BY <2>1, <2>3
<1>4. CASE IsObject(c)
  <2>1. c.field.to \in Addr
    BY <1>1, <1>4 DEF Inv, TypeOK, IsObject, Pointers
  <2>2. Source(c) = heap[c.field.to] /\ heap[c.field.to] \in Seq(Fields)
    BY <1>4, <2>1 DEF Source, IsObject, Inv, TypeOK, heap
  <2>3. q \in DOMAIN heap[c.field.to] /\ heap[c.field.to][q] = f
    BY <1>1, <1>2, <2>2, AtSource
  <2> QED BY <2>1, <2>3
<1> QED BY <1>1, <1>3, <1>4

LEMMA FieldIsTold ==
    ASSUME Inv, MemInv, NEW i \in DOMAIN stack, stack[i].todo # <<>>, NEW f, f = stack[i].todo[1],
           stack[i].role # "variable", ~IsObject(stack[i])
    PROVE  /\ f = Told(stack[i].field) /\ f \in Pointers /\ ~f.lost
           /\ stack[i].field \in Pointers /\ stack[i].field.lost /\ f.to = stack[i].field.to
           /\ f.kind = stack[i].field.kind
           /\ \E m \in DOMAIN stack : stack[m].todo # <<>> /\ stack[m].todo[1] = stack[i].field
<1>1. PICK c \in Calls : c = stack[i] /\ CallFollows(c)
  BY DEF Inv, TypeOK, MemInv, CallsFollow
<1>2. Source(c) = <<Told(c.field)>> /\ c.role \in {"children", "fallback"}
  BY <1>1 DEF Source, Calls, IsObject
<1>3. c.field \in Pointers /\ c.field.lost
  BY <1>1, <1>2 DEF Inv, TypeOK, CallFollows
<1>4. /\ Told(c.field) \in Pointers /\ ~Told(c.field).lost
      /\ Told(c.field).to = c.field.to /\ Told(c.field).kind = c.field.kind
  BY <1>3 DEF Told, Pointers
<1>5. Source(c) \in Seq(Fields) /\ DOMAIN Source(c) = {1} /\ Source(c)[1] = Told(c.field)
  BY <1>2, <1>4 DEF Fields
<1>6. f = Told(c.field)
  BY <1>1, <1>5, AtSource
<1>7. DOMAIN stack = 1 .. Len(stack) /\ Len(stack) \in Nat /\ i # 1
  BY DEF Inv, TypeOK, StackOK
<1>8. i - 1 \in DOMAIN stack /\ i - 1 < Len(stack) /\ i - 1 + 1 = i
  BY <1>7
<1>9. PICK m \in DOMAIN stack : m < Len(stack) /\ m + 1 = i
  BY <1>8
<1>10. stack[m].todo # <<>> /\ stack[i].field = stack[m].todo[1]
  BY <1>9, AboveIsFor
<1> QED BY <1>1, <1>3, <1>4, <1>6, <1>10

LEMMA LostFieldIsShared ==
    ASSUME Inv, MemInv, NEW i \in DOMAIN stack, stack[i].todo # <<>>, stack[i].todo[1] \in Pointers,
           stack[i].todo[1].lost
    PROVE  Shared(stack[i].todo[1].to)
<1>1. PICK f \in Pointers : f = stack[i].todo[1] /\ f.lost
  OBVIOUS
<1>2. stack[i].role = "variable" \/ IsObject(stack[i])
  BY <1>1, FieldIsTold
<1>3. \/ \E k \in DOMAIN event.variables : \E j \in DOMAIN event.variables[k] : event.variables[k][j] = f
      \/ \E b \in Addr : \E j \in DOMAIN heap[b] : heap[b][j] = f
  BY <1>1, <1>2, FieldIsSomewhere
<1>4. f.to \in Addr /\ To(f, f.to)
  BY DEF Pointers, To
<1> QED BY <1>1, <1>3, <1>4, LostIsShared

LEMMA BadIsSomewhere ==
    ASSUME Inv, MemInv, AtField(BadField)
    PROVE  Somewhere(IsBad)
<1>1. PICK n \in DOMAIN stack : stack[n] = Top /\ Top.todo # <<>> /\ Top.todo[1] = BadField
  <2>1. stack # <<>> /\ Top.todo # <<>> /\ BadField = Head(Top.todo)
    BY DEF AtField
  <2>2. Len(stack) \in DOMAIN stack /\ stack[Len(stack)] = Top /\ Top.todo \in Seq(Fields)
    BY <2>1, TopFacts, InvParts
  <2> QED BY <2>1, <2>2
<1>2. BadField \notin Pointers
  BY DEF BadField, Pointers
<1>3. stack[n].role = "variable" \/ IsObject(stack[n])
  BY <1>1, <1>2, FieldIsTold
<1> QED BY <1>1, <1>3, FieldIsSomewhere DEF Somewhere, IsBad

LEMMA RefIsSomewhere ==
    ASSUME Inv, MemInv, NEW f \in Pointers, FollowStep(f), IsRef(f)
    PROVE  Somewhere(IsRef)
<1>1. PICK n \in DOMAIN stack : stack[n] = Top /\ Top.todo # <<>> /\ Top.todo[1] = f
  BY TopFacts, InvParts DEF FollowStep
<1>2. CASE stack[n].role = "variable" \/ IsObject(stack[n])
  BY <1>1, <1>2, FieldIsSomewhere DEF Somewhere
<1>3. CASE stack[n].role # "variable" /\ ~IsObject(stack[n])
  <2>1. PICK m \in DOMAIN stack : /\ stack[m].todo # <<>> /\ stack[m].todo[1] \in Pointers
                                  /\ stack[m].todo[1].lost /\ stack[m].todo[1].kind = f.kind
    BY <1>1, <1>3, FieldIsTold
  <2>2. stack[m].role = "variable" \/ IsObject(stack[m])
    BY <2>1, FieldIsTold
  <2>3. IsRef(stack[m].todo[1])
    BY <2>1 DEF IsRef
  <2> QED BY <2>1, <2>2, <2>3, FieldIsSomewhere DEF Somewhere
<1> QED BY <1>2, <1>3

-----------------------------------------------------------------------------
(***************************************************************************)
(* What is referred to is in the environment, and behind what refers to    *)
(* it, so that it is emitted before; or it has been emitted with an        *)
(* earlier variable.                                                       *)
(***************************************************************************)
Tree == ~\E a \in Addr : Shared(a)

Orderly == ~Somewhere(IsBad) /\ Acyclic /\ (Sparse \/ ~Somewhere(IsRef))

IsSet(b) == SetAt(b) # {} \/ env[b] # None

Reach(a, b) == SetAt(b) # {} \/ (env[b] # None /\ Before(a, b))

EnvInOrder == \A a, b \in Addr : (~Pending(a) /\ Refers(env[a], b)) => Reach(a, b)

CallsInOrder ==
    \A i \in DOMAIN stack : \A b \in Addr :
        RefersFrom(stack[i].written, b)
            => /\ IsSet(b)
               /\ \A j \in DOMAIN stack : (j <= i /\ IsObject(stack[j])) => Reach(stack[j].field.to, b)

\* Of a tree, what is being written has not been set yet.
PendingUnset == \A a \in Addr : Pending(a) => env[a] = None

CalmInv == EnvInOrder /\ CallsInOrder /\ (Tree => PendingUnset)

LEMMA ReachIsSet == \A a, b : Reach(a, b) => IsSet(b)
  BY DEF Reach, IsSet

\* A call is handed a value; K has the objects below.
LEMMA HandedCalm ==
    ASSUME StackInv, CallsInOrder, NEW n, NEW v, Handed(n, v), NEW K \in SUBSET Addr,
           \A i \in DOMAIN stack : (i <= n /\ IsObject(stack[i])) => stack[i].field.to \in K,
           \A b \in Addr : IsSet(b) => IsSet(b)',
           \A a \in K : \A b \in Addr : Reach(a, b) => Reach(a, b)',
           \A b \in Addr : v = Ref(b) => IsSet(b)' /\ \A a \in K : Reach(a, b)'
    PROVE  CallsInOrder'
<1>1. PICK t : t = stack'
  OBVIOUS
<1>2. /\ stack \in Seq(Calls) /\ DOMAIN stack = 1 .. Len(stack) /\ n \in Nat /\ 0 < n /\ n <= Len(stack)
      /\ t \in Seq(Calls) /\ Len(t) = n /\ DOMAIN t = 1 .. n
      /\ \A i \in 1 .. n : /\ i \in DOMAIN stack /\ (i < n => t[i] = stack[i])
                           /\ t[i].role = stack[i].role /\ t[i].field = stack[i].field
                           /\ t[i].r = stack[i].r
      /\ NextOf(stack[n], t[n], v)
  BY <1>1, HandedFacts
<1>3. \A i \in 1 .. n : i <= n /\ (i < n \/ i = n)
  BY <1>2
<1>4. \A b : RefersFrom(t[n].written, b) => RefersFrom(stack[n].written, b) \/ v = Ref(b)
  BY <1>2 DEF NextOf, RefersFrom
<1>5. ASSUME NEW i \in DOMAIN t, NEW b \in Addr, RefersFrom(t[i].written, b)
      PROVE  IsSet(b)' /\ \A j \in DOMAIN t : (j <= i /\ IsObject(t[j])) => Reach(t[j].field.to, b)'
  <2>1. RefersFrom(stack[i].written, b) \/ v = Ref(b)
    BY <1>2, <1>3, <1>4, <1>5
  <2>2. CASE v = Ref(b)
    <3>1. \A j \in DOMAIN t : IsObject(t[j]) => t[j].field.to \in K
      BY <1>2, <1>3 DEF IsObject
    <3> QED BY <2>2, <3>1
  <2>3. CASE RefersFrom(stack[i].written, b)
    <3>1. IsSet(b) /\ \A j \in DOMAIN stack : (j <= i /\ IsObject(stack[j])) => Reach(stack[j].field.to, b)
      BY <1>2, <1>5, <2>3 DEF CallsInOrder
    <3>2. ASSUME NEW j \in DOMAIN t, j <= i, IsObject(t[j]) PROVE Reach(t[j].field.to, b)'
      <4>1. j \in DOMAIN stack /\ IsObject(stack[j]) /\ stack[j].field.to = t[j].field.to
        BY <1>2, <3>2 DEF IsObject
      <4>2. t[j].field.to \in K
        BY <1>2, <1>3, <4>1
      <4>3. Reach(t[j].field.to, b)
        BY <3>1, <3>2, <4>1
      <4> QED BY <4>2, <4>3
    <3> QED BY <3>1, <3>2
  <2> QED BY <2>1, <2>2, <2>3
<1> QED BY <1>1, <1>5 DEF CallsInOrder, RefersFrom, IsObject

\* A call is put on top, with nothing written.
LEMMA PushedCalm ==
    ASSUME StackInv, CallsInOrder, NEW n, NEW c, Pushed(n, c), NEW K \in SUBSET Addr,
           \A i \in DOMAIN stack : IsObject(stack[i]) => stack[i].field.to \in K,
           \A b \in Addr : IsSet(b) => IsSet(b)',
           \A a \in K : \A b \in Addr : Reach(a, b) => Reach(a, b)'
    PROVE  CallsInOrder'
<1>1. PICK t : t = stack'
  OBVIOUS
<1>2. /\ stack \in Seq(Calls) /\ DOMAIN stack = 1 .. Len(stack) /\ n \in Nat /\ n <= Len(stack)
      /\ t \in Seq(Calls) /\ Len(t) = n + 1 /\ DOMAIN t = 1 .. n + 1
      /\ \A i \in 1 .. n : i \in DOMAIN stack /\ t[i] = stack[i]
      /\ t[n + 1] = c
      /\ \A i \in 1 .. n + 1 : i \in 1 .. n \/ i = n + 1
  BY <1>1, PushedFacts
<1>3. \A b : ~RefersFrom(c.written, b)
  BY DEF Pushed, RefersFrom
<1>4. ASSUME NEW i \in DOMAIN t, NEW b \in Addr, RefersFrom(t[i].written, b)
      PROVE  IsSet(b)' /\ \A j \in DOMAIN t : (j <= i /\ IsObject(t[j])) => Reach(t[j].field.to, b)'
  <2>1. i \in 1 .. n
    BY <1>2, <1>3, <1>4
  <2>2. t[i] = stack[i] /\ i \in DOMAIN stack
    BY <1>2, <2>1
  <2>3. IsSet(b) /\ \A j \in DOMAIN stack : (j <= i /\ IsObject(stack[j])) => Reach(stack[j].field.to, b)
    BY <1>4, <2>2 DEF CallsInOrder
  <2>4. ASSUME NEW j \in DOMAIN t, j <= i, IsObject(t[j]) PROVE Reach(t[j].field.to, b)'
    <3>1. j \in 1 .. n
      BY <1>2, <2>1, <2>4
    <3>2. j \in DOMAIN stack /\ t[j] = stack[j]
      BY <1>2, <3>1
    <3>3. t[j].field.to \in K /\ Reach(t[j].field.to, b)
      BY <2>3, <2>4, <3>2
    <3> QED BY <3>3
  <2> QED BY <2>3, <2>4
<1> QED BY <1>1, <1>4 DEF CallsInOrder, RefersFrom, IsObject

LEMMA TreeIsSparse == Tree => Sparse
  BY DEF Tree, Sparse

LEMMA RegimeIsStatic == event' = event => (Tree' <=> Tree) /\ (Orderly' <=> Orderly)
<1> SUFFICES ASSUME event' = event PROVE (Tree' <=> Tree) /\ (Orderly' <=> Orderly)
  OBVIOUS
<1>1. /\ \A a \in Addr : Shared(a)' <=> Shared(a)
      /\ (Sparse' <=> Sparse) /\ (Acyclic' <=> Acyclic)
  BY SharedIsStatic, SparseIsStatic, AcyclicIsStatic
<1>2. (Somewhere(IsBad)' <=> Somewhere(IsBad)) /\ (Somewhere(IsRef)' <=> Somewhere(IsRef))
  BY DEF Somewhere, heap
<1> QED BY <1>1, <1>2 DEF Tree, Orderly

\* What a pointer that is followed points to.
LEMMA Regime ==
    ASSUME Inv, MemInv, PathInv, Tree \/ Orderly, NEW f \in Pointers, FollowStep(f)
    PROVE  /\ f.to \in Addr /\ ~Pending(f.to)
           /\ (IsRef(f) /\ Allocated(f.to)) => IsLeaf(f.to) /\ ~Tree /\ Orderly
           /\ Allocated(f.to) => ~Tree
<1>1. stack # <<>> /\ Top.todo # <<>> /\ f = Top.todo[1] /\ f.to \in Addr
  BY DEF FollowStep, Pointers
<1>2. ASSUME Sparse
      PROVE  ~Pending(f.to) /\ (Allocated(f.to) => IsLeaf(f.to) /\ ~Tree)
  <2>1. /\ ~Allocated(f.to) \/ (Shared(f.to) /\ IsLeaf(f.to))
        /\ ~Pending(f.to)
    BY <1>1, <1>2, NewOrLeaf DEF PathInv
  <2> QED BY <1>1, <2>1 DEF Tree
<1>3. ASSUME Orderly, ~Sparse
      PROVE  ~Pending(f.to) /\ ~IsRef(f) /\ ~Tree
  <2>1. ~Pending(f.to)
    BY <1>1, <1>3, NoCycleIsMet DEF Orderly
  <2> QED BY <1>3, <2>1, RefIsSomewhere, TreeIsSparse DEF Orderly
<1> QED BY <1>1, <1>2, <1>3, TreeIsSparse

LEMMA RegimeOrder == PathInv /\ (Tree \/ Orderly) => InOrder
  BY TreeIsSparse DEF PathInv, Orderly

LEMMA HandedPending ==
    ASSUME StackInv, NEW n, NEW v, Handed(n, v)
    PROVE  /\ \A a : Pending(a)' => Pending(a)
           /\ \A a : \/ Pending(a)'
                     \/ ~Pending(a)
                     \/ \E i \in DOMAIN stack : i > n /\ IsObject(stack[i]) /\ stack[i].field.to = a
<1>1. PICK t : t = stack'
  OBVIOUS
<1>2. /\ DOMAIN stack = 1 .. Len(stack) /\ n \in Nat /\ 0 < n /\ n <= Len(stack) /\ Len(stack) \in Nat
      /\ DOMAIN t = 1 .. n
      /\ \A i \in 1 .. n : /\ i \in DOMAIN stack
                           /\ t[i].role = stack[i].role /\ t[i].field = stack[i].field
  BY <1>1, HandedFacts
<1>3. \A i \in DOMAIN stack : i \in 1 .. n \/ i > n
  BY <1>2
<1>4. ASSUME NEW a, Pending(a)' PROVE Pending(a)
  <2>1. PICK i \in DOMAIN t : IsObject(t[i]) /\ t[i].field.to = a
    BY <1>1, <1>4 DEF Pending, IsObject
  <2> QED BY <1>2, <2>1 DEF Pending, IsObject
<1>5. ASSUME NEW a, NEW i \in 1 .. n, IsObject(stack[i]), stack[i].field.to = a PROVE Pending(a)'
  <2>1. i \in DOMAIN t /\ IsObject(t[i]) /\ t[i].field.to = a
    BY <1>2, <1>5 DEF IsObject
  <2> QED BY <1>1, <2>1 DEF Pending, IsObject
<1>6. ASSUME NEW a, ~Pending(a)', Pending(a)
      PROVE  \E i \in DOMAIN stack : i > n /\ IsObject(stack[i]) /\ stack[i].field.to = a
  <2>1. PICK i \in DOMAIN stack : IsObject(stack[i]) /\ stack[i].field.to = a
    BY <1>6 DEF Pending
  <2>2. i > n
    BY <1>3, <1>5, <1>6, <2>1
  <2> QED BY <2>1, <2>2
<1> QED BY <1>4, <1>6

LEMMA PushedPending ==
    ASSUME StackInv, NEW n, NEW c, Pushed(n, c)
    PROVE  /\ \A a : Pending(a)' => Pending(a) \/ (IsObject(c) /\ c.field.to = a)
           /\ IsObject(c) => Pending(c.field.to)'
           /\ \A a : \/ Pending(a)'
                     \/ ~Pending(a)
                     \/ \E i \in DOMAIN stack : i > n /\ IsObject(stack[i]) /\ stack[i].field.to = a
<1>1. PICK t : t = stack'
  OBVIOUS
<1>2. /\ stack \in Seq(Calls) /\ DOMAIN stack = 1 .. Len(stack) /\ n \in Nat /\ n <= Len(stack)
      /\ t \in Seq(Calls) /\ Len(t) = n + 1 /\ DOMAIN t = 1 .. n + 1
      /\ \A i \in 1 .. n : i \in DOMAIN stack /\ t[i] = stack[i]
      /\ t[n + 1] = c
      /\ \A i \in 1 .. n + 1 : i \in 1 .. n \/ i = n + 1
  BY <1>1, PushedFacts
<1>3. \A i \in DOMAIN stack : i \in 1 .. n \/ i > n
  BY <1>2
<1>4. ASSUME NEW a, Pending(a)' PROVE Pending(a) \/ (IsObject(c) /\ c.field.to = a)
  <2>1. PICK i \in DOMAIN t : IsObject(t[i]) /\ t[i].field.to = a
    BY <1>1, <1>4 DEF Pending, IsObject
  <2> QED BY <1>2, <2>1 DEF Pending
<1>5. ASSUME NEW i \in DOMAIN t, IsObject(t[i]) PROVE \A a : t[i].field.to = a => Pending(a)'
  BY <1>1, <1>5 DEF Pending, IsObject
<1>6. n + 1 \in DOMAIN t /\ \A i \in 1 .. n : i \in DOMAIN t
  BY <1>2
<1>7. IsObject(c) => \A a : a = c.field.to => Pending(a)'
  BY <1>2, <1>5, <1>6
<1>8. IsObject(c) => Pending(c.field.to)'
  <2> SUFFICES ASSUME IsObject(c) PROVE Pending(c.field.to)'
    OBVIOUS
  <2> QED BY <1>7
<1>9. ASSUME NEW a, ~Pending(a)', Pending(a)
      PROVE  \E i \in DOMAIN stack : i > n /\ IsObject(stack[i]) /\ stack[i].field.to = a
  <2>1. PICK i \in DOMAIN stack : IsObject(stack[i]) /\ stack[i].field.to = a
    BY <1>9 DEF Pending
  <2>2. i > n
    BY <1>2, <1>3, <1>5, <1>6, <1>9, <2>1
  <2> QED BY <2>1, <2>2
<1> QED BY <1>4, <1>8, <1>9

LEMMA StillRefers == \A e, b : Refers(e, b)' <=> Refers(e', b)
  BY DEF Refers

\* A value is handed on, and nothing else happens but that a call of no object is over.
LEMMA HandedCalmStill ==
    ASSUME StackInv, CalmInv, event' = event, order' = order, env' = env, out' = out,
           NEW n, NEW v, Handed(n, v),
           n = Len(stack) \/ (n + 1 = Len(stack) /\ ~IsObject(Top)),
           \A b \in Addr : v = Ref(b) => RefersFrom(Top.written, b)
    PROVE  CalmInv'
<1>1. /\ \A a, b : Reach(a, b)' <=> Reach(a, b)
      /\ \A b : IsSet(b)' <=> IsSet(b)
  BY DEF Reach, IsSet, SetAt, Before
<1>2. PICK m \in Nat : /\ m = Len(stack) /\ m \in DOMAIN stack /\ Top = stack[m] /\ n <= m
                       /\ \A i \in DOMAIN stack : i <= m /\ (i > n => i = m /\ ~IsObject(Top))
  <2>1. stack # <<>>
    BY DEF Handed
  <2>2. Len(stack) \in Nat /\ Len(stack) \in DOMAIN stack /\ DOMAIN stack = 1 .. Len(stack) /\ Top = stack[Len(stack)]
    BY <2>1, TopFacts
  <2>3. n \in Nat /\ n <= Len(stack)
    BY HandedFacts
  <2>4. PICK m \in Nat : m = Len(stack)
    BY <2>2
  <2>5. (n = m \/ n + 1 = m) /\ (n # m => ~IsObject(Top))
    BY <2>4
  <2>6. \A i \in 1 .. m : i <= m /\ (i > n => i = m /\ n # m)
    BY <2>3, <2>4, <2>5
  <2> QED BY <2>2, <2>3, <2>4, <2>5, <2>6
<1>3. \A a : Pending(a)' <=> Pending(a)
  BY <1>2, HandedPending
<1>4. EnvInOrder'
  BY <1>1, <1>3 DEF CalmInv, EnvInOrder, Refers
<1>5. CallsInOrder'
  <2> DEFINE K == {a \in Addr : Pending(a) /\ \E i \in DOMAIN stack : i <= n /\ IsObject(stack[i]) /\ stack[i].field.to = a}
  <2>1. \A i \in DOMAIN stack : IsObject(stack[i]) => stack[i].field.to \in Addr
    BY DEF StackInv, CallsTyped, IsObject, Pointers
  <2>2. \A i \in DOMAIN stack : (i <= n /\ IsObject(stack[i])) => stack[i].field.to \in K
    BY <2>1 DEF Pending
  <2>3. ASSUME NEW b \in Addr, v = Ref(b) PROVE IsSet(b)' /\ \A a \in K : Reach(a, b)'
    <3>1. IsSet(b) /\ \A j \in DOMAIN stack : (j <= m /\ IsObject(stack[j])) => Reach(stack[j].field.to, b)
      BY <1>2, <2>3 DEF CalmInv, CallsInOrder
    <3>2. ASSUME NEW a \in K PROVE Reach(a, b)'
      <4>1. PICK i \in DOMAIN stack : IsObject(stack[i]) /\ stack[i].field.to = a
        OBVIOUS
      <4>2. i <= m
        BY <1>2
      <4> QED BY <1>1, <3>1, <4>1, <4>2
    <3> QED BY <1>1, <3>1, <3>2
  <2> HIDE DEF K
  <2>4. K \in SUBSET Addr
    BY DEF K
  <2> QED BY <1>1, <2>2, <2>3, <2>4, HandedCalm DEF CalmInv
<1>6. Tree' => PendingUnset'
  BY <1>3, RegimeIsStatic DEF CalmInv, PendingUnset
<1> QED BY <1>4, <1>5, <1>6 DEF CalmInv

\* A pointer is followed: what does not wait for it stays in order.
LEMMA FollowReach ==
    ASSUME Inv, NEW f \in Pointers, FollowStep(f), \A b \in Addr : env[b] # None => env'[b] # None
    PROVE  /\ \A a, b \in Addr : (Reach(a, b) /\ a # f.to) => Reach(a, b)'
           /\ \A b \in Addr : IsSet(b) => IsSet(b)'
           /\ \A a \in Addr : (Allocated(a) /\ a # f.to) => Before(a, f.to)'
<1>1. OrderOK /\ f.to \in Addr /\ AllocEnv(f.to) /\ out' = out
  BY InvParts DEF EnvInv, Pointers, FollowStep, Same
<1>2. /\ \A a, b \in Addr : (Before(a, b) /\ a # f.to) => Before(a, b)'
      /\ \A a \in Addr : (Allocated(a) /\ a # f.to) => Before(a, f.to)'
  BY <1>1, MovedOrder
<1>3. \A b : SetAt(b)' = SetAt(b)
  BY <1>1 DEF SetAt
<1> QED BY <1>2, <1>3 DEF Reach, IsSet

\* What is being written is allocated, and not what is met now.
LEMMA PendingElse ==
    ASSUME Inv, NEW x, ~Pending(x), NEW i \in DOMAIN stack, IsObject(stack[i])
    PROVE  /\ stack[i].field.to \in Addr /\ Allocated(stack[i].field.to)
           /\ stack[i].field.to # x /\ Pending(stack[i].field.to)
  BY DEF Inv, TypeOK, IsObject, Pointers, Pending

LEMMA FollowCalm ==
    ASSUME Inv, MemInv, PathInv, CalmInv, Tree \/ Orderly, NEW f \in Pointers, CutStep(f) \/ KnownStep(f)
    PROVE  CalmInv'
<1>1. PICK x \in Addr : x = f.to
  BY DEF Pointers
<1>2. PICK n : n = Len(stack)
  OBVIOUS
<1>3. FollowStep(f) /\ Handed(n, Ref(x)) /\ event' = event /\ out' = out
  BY <1>1, <1>2 DEF CutStep, KnownStep, FollowStep, Same
<1>4. StackInv /\ EnvInv /\ env \in Env
  BY InvParts DEF EnvInv
<1>5. /\ ~Pending(x)
      /\ (IsRef(f) /\ Allocated(x)) => (IsLeaf(x) /\ ~Tree /\ Orderly)
  BY <1>1, <1>3, Regime
<1>6. /\ \A b \in Addr : env[b] # None => env'[b] # None
      /\ \A b \in Addr : b # x => env'[b] = env[b]
      /\ IsSet(x)'
      /\ \A b \in Addr : ~Refers(env'[x], b)
  <2>1. CASE CutStep(f)
    <3>1. env' = [env EXCEPT ![x] = Opaque] /\ Opaque \in WrittenValue
      BY <1>1, <2>1 DEF CutStep, WrittenValue
    <3>2. env'[x] = Opaque /\ \A b \in Addr : b # x => env'[b] = env[b]
      BY <1>4, <3>1, SetEnv
    <3>3. Opaque # None
      BY DEF Opaque, None
    <3> QED BY <3>2, <3>3, NoReference DEF IsSet
  <2>2. CASE KnownStep(f)
    <3>1. env' = env /\ IsRef(f) /\ Allocated(x)
      BY <1>1, <2>2 DEF KnownStep
    <3>2. IsLeaf(x) /\ ~Somewhere(IsBad)
      BY <1>5, <3>1 DEF Orderly
    <3>3. ~HoldsBad(x)
      <4> SUFFICES ASSUME HoldsBad(x) PROVE FALSE
        OBVIOUS
      <4>1. PICK b \in {x} \cup Within(heap, x) : \E i \in DOMAIN heap[b] : heap[b][i] = BadField
        BY DEF HoldsBad
      <4>2. b \in Addr
        BY DEF Within
      <4> QED BY <3>2, <4>1, <4>2 DEF Somewhere, IsBad
    <3>4. IsSet(x)
      BY <1>4, <1>5, <3>1, <3>3 DEF EnvInv, AllAccounted, Accounted, IsSet
    <3>5. IsSet(x)'
      BY <1>3, <3>1, <3>4 DEF IsSet, SetAt
    <3>6. \A b \in Addr : ~Refers(env[x], b)
      BY <3>2 DEF MemInv, EnvFollows, IsLeaf
    <3> QED BY <3>1, <3>5, <3>6
  <2> QED BY <2>1, <2>2
<1>7. /\ \A a, b \in Addr : (Reach(a, b) /\ a # x) => Reach(a, b)'
      /\ \A b \in Addr : IsSet(b) => IsSet(b)'
      /\ \A a \in Addr : (Allocated(a) /\ a # x) => Before(a, x)'
  BY <1>1, <1>3, <1>6, FollowReach
<1>8. \A a : Pending(a)' <=> Pending(a)
  <2>1. \A i \in DOMAIN stack : ~(i > n)
    BY <1>2, <1>4 DEF StackInv, CallsTyped
  <2> QED BY <1>3, <1>4, <2>1, HandedPending
<1>9. EnvInOrder'
  <2>1. ASSUME NEW a \in Addr, NEW b \in Addr, ~Pending(a), Refers(env'[a], b) PROVE Reach(a, b)'
    <3>1. a # x /\ Refers(env[a], b)
      BY <1>6, <2>1
    <3> QED BY <1>7, <2>1, <3>1 DEF CalmInv, EnvInOrder
  <2> QED BY <1>8, <2>1 DEF EnvInOrder, Refers
<1>10. CallsInOrder'
  <2> DEFINE K == {a \in Addr : a # x /\ Allocated(a)}
  <2>1. \A i \in DOMAIN stack : IsObject(stack[i]) => stack[i].field.to \in K
    BY <1>5, PendingElse
  <2>2. ASSUME NEW b \in Addr, Ref(x) = Ref(b) PROVE IsSet(b)' /\ \A a \in K : Reach(a, b)'
    <3>1. b = x
      BY <2>2, RefIs
    <3>2. \A a \in K : Before(a, x)'
      BY <1>7
    <3> QED BY <1>6, <3>1, <3>2 DEF Reach, IsSet
  <2>3. K \in SUBSET Addr /\ \A a \in K : \A b \in Addr : Reach(a, b) => Reach(a, b)'
    BY <1>7
  <2> HIDE DEF K
  <2> QED BY <1>3, <1>4, <1>7, <2>1, <2>2, <2>3, HandedCalm DEF CalmInv
<1>11. Tree' => PendingUnset'
  <2> SUFFICES ASSUME Tree, NEW a \in Addr, Pending(a) PROVE env'[a] = None
    BY <1>3, <1>8, RegimeIsStatic DEF PendingUnset
  <2> QED BY <1>5, <1>6 DEF CalmInv, PendingUnset
<1> QED BY <1>9, <1>10, <1>11 DEF CalmInv

LEMMA BeginCalm ==
    ASSUME Inv, MemInv, PathInv, CalmInv, Tree \/ Orderly, NEW f \in Pointers, BeginStep(f)
    PROVE  CalmInv'
<1>1. PICK x \in Addr : x = f.to
  BY DEF Pointers
<1>2. PICK n : n = Len(stack)
  OBVIOUS
<1>3. PICK c : c = Call("pointee", f, heap[f.to], Top.r - 2)
  OBVIOUS
<1>4. /\ FollowStep(f) /\ Pushed(n, c) /\ event' = event /\ out' = out /\ env' = env
      /\ IsObject(c) /\ c.field.to = x
  BY <1>1, <1>2, <1>3 DEF BeginStep, FollowStep, Same, Call, IsObject
<1>5. StackInv /\ EnvInv
  BY InvParts
<1>6. ~Pending(x) /\ (Allocated(x) => ~Tree)
  BY <1>1, <1>4, Regime
<1>7. /\ \A a, b \in Addr : (Reach(a, b) /\ a # x) => Reach(a, b)'
      /\ \A b \in Addr : IsSet(b) => IsSet(b)'
  BY <1>1, <1>4, FollowReach
<1>8. \A a : Pending(a)' <=> Pending(a) \/ a = x
  <2>1. \A i \in DOMAIN stack : ~(i > n)
    BY <1>2, <1>5 DEF StackInv, CallsTyped
  <2>2. Pending(x)'
    BY <1>4, <1>5, PushedPending
  <2> QED BY <1>4, <1>5, <2>1, <2>2, PushedPending
<1>9. EnvInOrder'
  <2>1. ASSUME NEW a \in Addr, NEW b \in Addr, ~Pending(a), a # x, Refers(env[a], b) PROVE Reach(a, b)'
    BY <1>7, <2>1 DEF CalmInv, EnvInOrder
  <2> QED BY <1>4, <1>8, <2>1 DEF EnvInOrder, Refers
<1>10. CallsInOrder'
  <2> DEFINE K == {a \in Addr : a # x}
  <2>1. \A i \in DOMAIN stack : IsObject(stack[i]) => stack[i].field.to \in K
    BY <1>6, PendingElse
  <2>2. K \in SUBSET Addr /\ \A a \in K : \A b \in Addr : Reach(a, b) => Reach(a, b)'
    BY <1>7
  <2> HIDE DEF K
  <2> QED BY <1>4, <1>5, <1>7, <2>1, <2>2, PushedCalm DEF CalmInv
<1>11. Tree' => PendingUnset'
  <2> SUFFICES ASSUME Tree, NEW a \in Addr, Pending(a) \/ a = x PROVE env[a] = None
    BY <1>4, <1>8, RegimeIsStatic DEF PendingUnset
  <2> QED BY <1>5, <1>6 DEF CalmInv, PendingUnset, EnvInv
<1> QED BY <1>9, <1>10, <1>11 DEF CalmInv

LEMMA SetCalm ==
    ASSUME Inv, MemInv, PathInv, CalmInv, Tree \/ Orderly, SetStep
    PROVE  CalmInv'
<1>1. PICK m : m = Len(stack)
  OBVIOUS
<1>2. StackInv /\ EnvInv /\ env \in Env /\ OrderOK
  BY InvParts DEF EnvInv
<1>3. PICK x : x = Top.field.to
  OBVIOUS
<1>4. PICK w : w = Top.written
  OBVIOUS
<1>5. /\ stack # <<>> /\ IsObject(Top) /\ Handed(m - 1, Ref(x)) /\ event' = event /\ order' = order /\ out' = out
      /\ env' = [env EXCEPT ![x] = Struct(w)]
  BY <1>1, <1>3, <1>4, SetStep DEF SetStep, Same
<1>6. /\ m \in DOMAIN stack /\ DOMAIN stack = 1 .. m /\ m \in Nat /\ Top = stack[m] /\ Top \in Calls
      /\ x \in Addr /\ w \in Seq(WrittenField)
  BY <1>1, <1>2, <1>3, <1>4, <1>5, TopFacts DEF IsObject
<1>7. Struct(w) \in WrittenValue
  BY <1>6 DEF WrittenValue, Struct
<1>8. /\ env'[x] = Struct(w) /\ Struct(w) # None
      /\ \A b \in Addr : b # x => env'[b] = env[b]
  BY <1>2, <1>5, <1>6, <1>7, SetEnv DEF Struct, None
<1>9. /\ \A a, b \in Addr : Reach(a, b) => Reach(a, b)'
      /\ \A b \in Addr : IsSet(b) => IsSet(b)'
      /\ IsSet(x)'
      /\ \A a \in Addr : Before(a, x) => Reach(a, x)'
  BY <1>5, <1>6, <1>8 DEF Reach, IsSet, Before, SetAt
<1>10. \A i \in DOMAIN stack : i <= m /\ (i > m - 1 => i = m) /\ (i <= m - 1 => i < m)
  BY <1>6
<1>11. InOrder
  BY RegimeOrder
<1>12. \A i \in DOMAIN stack : (i < m /\ IsObject(stack[i])) => Before(stack[i].field.to, x)
  BY <1>3, <1>5, <1>6, <1>11 DEF InOrder
<1>13. \A a : Pending(a) => Pending(a)' \/ a = x
  BY <1>2, <1>3, <1>5, <1>6, <1>10, HandedPending
<1>14. /\ \A a : Pending(a)' => Pending(a)
       /\ ~Pending(x)'
  <2>1. \A a : Pending(a)' => Pending(a)
    BY <1>2, <1>5, HandedPending
  <2>2. PICK t : t = stack'
    OBVIOUS
  <2>3. \A i \in DOMAIN t : /\ i \in DOMAIN stack /\ i <= m - 1
                            /\ t[i].role = stack[i].role /\ t[i].field = stack[i].field
    <3>1. /\ DOMAIN t = 1 .. m - 1 /\ m - 1 \in Nat
          /\ \A i \in 1 .. m - 1 : /\ i \in DOMAIN stack
                                   /\ t[i].role = stack[i].role /\ t[i].field = stack[i].field
      BY <1>2, <1>5, <2>2, HandedFacts
    <3> QED BY <3>1
  <2>4. ASSUME NEW i \in DOMAIN t, IsObject(t[i]), t[i].field.to = x PROVE FALSE
    <3>1. i \in DOMAIN stack /\ i < m /\ IsObject(stack[i]) /\ stack[i].field.to = stack[m].field.to
      BY <1>3, <1>6, <1>10, <2>3, <2>4 DEF IsObject
    <3> QED BY <1>2, <1>5, <1>6, <1>11, <3>1, OneCallEach
  <2>5. ~Pending(x)'
    BY <2>2, <2>4 DEF Pending, IsObject
  <2> QED BY <2>1, <2>5
<1>15. EnvInOrder'
  <2>1. ASSUME NEW a \in Addr, NEW b \in Addr, ~Pending(a)', Refers(env'[a], b) PROVE Reach(a, b)'
    <3>1. CASE a = x
      <4>1. RefersFrom(Top.written, b)
        BY <1>4, <1>8, <2>1, <3>1, StructRefers
      <4>2. m <= m
        BY <1>6
      <4>3. Reach(x, b)
        BY <1>3, <1>5, <1>6, <4>1, <4>2 DEF CalmInv, CallsInOrder
      <4> QED BY <1>9, <3>1, <4>3
    <3>2. CASE a # x
      BY <1>8, <1>9, <1>13, <2>1, <3>2 DEF CalmInv, EnvInOrder
    <3> QED BY <3>1, <3>2
  <2> QED BY <2>1 DEF EnvInOrder, Refers
<1>16. CallsInOrder'
  <2> DEFINE K == {a \in Addr : Before(a, x)}
  <2>1. \A i \in DOMAIN stack : (i <= m - 1 /\ IsObject(stack[i])) => stack[i].field.to \in K
    BY <1>10, <1>12 DEF StackInv, CallsTyped, IsObject, Pointers, Inv, TypeOK
  <2>2. ASSUME NEW b \in Addr, Ref(x) = Ref(b) PROVE IsSet(b)' /\ \A a \in K : Reach(a, b)'
    BY <1>9, <2>2, RefIs
  <2>3. K \in SUBSET Addr /\ \A a \in K : \A b \in Addr : Reach(a, b) => Reach(a, b)'
    BY <1>9
  <2> HIDE DEF K
  <2> QED BY <1>2, <1>5, <1>9, <2>1, <2>2, <2>3, HandedCalm DEF CalmInv
<1>17. Tree' => PendingUnset'
  <2> SUFFICES ASSUME Tree, NEW a \in Addr, Pending(a)' PROVE env'[a] = None
    BY <1>5, RegimeIsStatic DEF PendingUnset
  <2>1. a # x /\ Pending(a)
    BY <1>14
  <2> QED BY <1>8, <2>1 DEF CalmInv, PendingUnset
<1> QED BY <1>15, <1>16, <1>17 DEF CalmInv

LEMMA EnumCalm ==
    ASSUME Inv, MemInv, CalmInv, NEW n, NEW c, EnumStep(n, c)
    PROVE  CalmInv'
<1>1. /\ Pushed(n, c) /\ event' = event /\ order' = order /\ out' = out /\ env' = env /\ ~IsObject(c)
      /\ n = Len(stack) \/ (n + 1 = Len(stack) /\ ~IsObject(Top))
      /\ stack # <<>>
  BY DEF EnumStep, Same, IsObject
<1>2. StackInv
  BY InvParts
<1>3. /\ \A a, b : Reach(a, b)' <=> Reach(a, b)
      /\ \A b : IsSet(b)' <=> IsSet(b)
  BY <1>1 DEF Reach, IsSet, SetAt, Before
<1>4. \A i \in DOMAIN stack : i > n => ~IsObject(stack[i])
  <2>1. PICK m \in Nat : m = Len(stack) /\ DOMAIN stack = 1 .. m /\ Top = stack[m]
    BY <1>1, <1>2, TopFacts
  <2>2. n \in Nat /\ (n = m \/ n + 1 = m)
    BY <1>1, <1>2, <2>1, PushedFacts
  <2>3. \A i \in 1 .. m : i > n => i = m /\ n # m
    BY <2>2
  <2> QED BY <1>1, <2>1, <2>2, <2>3
<1>5. \A a : Pending(a)' <=> Pending(a)
  BY <1>1, <1>2, <1>4, PushedPending
<1>6. EnvInOrder'
  BY <1>1, <1>3, <1>5 DEF CalmInv, EnvInOrder, Refers
<1>7. CallsInOrder'
  <2>1. \A i \in DOMAIN stack : IsObject(stack[i]) => stack[i].field.to \in Addr
    BY <1>2 DEF StackInv, CallsTyped, IsObject, Pointers
  <2> QED BY <1>1, <1>2, <1>3, <2>1, PushedCalm DEF CalmInv
<1>8. Tree' => PendingUnset'
  BY <1>1, <1>5, RegimeIsStatic DEF CalmInv, PendingUnset
<1> QED BY <1>6, <1>7, <1>8 DEF CalmInv

-----------------------------------------------------------------------------
(***************************************************************************)
(* What an event has of a variable: its keys are those of what is set, and *)
(* what is referred to comes before what refers to it.                     *)
(***************************************************************************)
SetBefore(i, b) == \E h \in DOMAIN out : h < i /\ out[h].env[b] # None

EntryOK(i) ==
    /\ \A b \in Addr : out[i].env[b] # None => \E q \in DOMAIN out[i].keys : out[i].keys[q] = b
    /\ \A a, b \in Addr : Refers(out[i].env[a], b) =>
          \/ SetBefore(i, b)
          \/ /\ out[i].env[b] # None
             /\ \A p \in DOMAIN out[i].keys :
                   out[i].keys[p] = a => \E q \in DOMAIN out[i].keys : q < p /\ out[i].keys[q] = b
    /\ \A b \in Addr : Refers(out[i].value, b) => SetBefore(i, b) \/ out[i].env[b] # None

OutInOrder == \A i \in DOMAIN out : EntryOK(i)

LEMMA EntryStill == out' = out /\ OutInOrder => OutInOrder'
  BY DEF OutInOrder, EntryOK, SetBefore, Refers

LEMMA AppendEntry ==
    ASSUME OutInOrder, out \in Seq(Bytes), NEW o \in Bytes, out' = Append(out, o),
           \A b \in Addr : o.env[b] # None => \E q \in DOMAIN o.keys : o.keys[q] = b,
           \A a, b \in Addr : Refers(o.env[a], b) =>
              \/ SetAt(b) # {}
              \/ /\ o.env[b] # None
                 /\ \A p \in DOMAIN o.keys :
                       o.keys[p] = a => \E q \in DOMAIN o.keys : q < p /\ o.keys[q] = b,
           \A b \in Addr : Refers(o.value, b) => SetAt(b) # {} \/ o.env[b] # None
    PROVE  OutInOrder'
<1>1. PICK t : t = out'
  OBVIOUS
<1>2. PICK n \in Nat : n = Len(out)
  OBVIOUS
<1>3. /\ DOMAIN out = 1 .. n /\ DOMAIN t = 1 .. n + 1 /\ t[n + 1] = o /\ \A i \in 1 .. n : t[i] = out[i]
  BY <1>1, <1>2
<1>4. \A i \in 1 .. n + 1 : i \in 1 .. n \/ i = n + 1
  BY <1>2
<1>5. \A i \in 1 .. n : i \in 1 .. n + 1 /\ i < n + 1
  BY <1>2
<1>6. ASSUME NEW i, NEW b, SetBefore(i, b) PROVE SetBefore(i, b)'
  <2>1. PICK h \in 1 .. n : h < i /\ out[h].env[b] # None
    BY <1>3, <1>6 DEF SetBefore
  <2>2. h \in DOMAIN t /\ t[h].env[b] # None
    BY <1>3, <1>5, <2>1
  <2> QED BY <1>1, <2>1, <2>2 DEF SetBefore
<1>7. ASSUME NEW b, NEW i, i = n + 1, SetAt(b) # {} PROVE SetBefore(i, b)'
  <2>1. PICK h \in 1 .. n : out[h].env[b] # None
    BY <1>3, <1>7 DEF SetAt
  <2>2. h \in DOMAIN t /\ t[h].env[b] # None /\ h < i
    BY <1>3, <1>5, <1>7, <2>1
  <2> QED BY <1>1, <2>2 DEF SetBefore
<1>8. ASSUME NEW i \in 1 .. n PROVE EntryOK(i)'
  <2>1. EntryOK(i) /\ t[i] = out[i]
    BY <1>3 DEF OutInOrder
  <2> QED BY <1>1, <1>6, <2>1 DEF EntryOK, Refers
<1>9. ASSUME NEW i, i = n + 1 PROVE EntryOK(i)'
  <2>1. t[i] = o
    BY <1>3, <1>9
  <2> QED BY <1>1, <1>7, <1>9, <2>1 DEF EntryOK, Refers
<1>10. \A i \in DOMAIN t : EntryOK(i)'
  BY <1>3, <1>4, <1>8, <1>9
<1> QED BY <1>1, <1>10 DEF OutInOrder, EntryOK, SetBefore, Refers

\* emit_env goes from the end.
LEMMA EmittedOrder ==
    ASSUME OrderOK
    PROVE  /\ EmitOrder \in Seq(Addr)
           /\ \A b : Allocated(b) => \E q \in DOMAIN EmitOrder : EmitOrder[q] = b
           /\ \A a, b : Before(a, b) => \A p \in DOMAIN EmitOrder :
                 EmitOrder[p] = a => \E q \in DOMAIN EmitOrder : q < p /\ EmitOrder[q] = b
<1>1. PICK n \in Nat : n = Len(order) /\ order \in Seq(Addr) /\ DOMAIN order = 1 .. n
  BY DEF OrderOK
<1>2. PICK e : e = EmitOrder
  OBVIOUS
<1>3. e = [i \in 1 .. n |-> order[n + 1 - i]]
  BY <1>1, <1>2 DEF EmitOrder
<1>4. \A i \in 1 .. n : n + 1 - i \in 1 .. n /\ n + 1 - (n + 1 - i) = i
  BY <1>1
<1>5. e \in Seq(Addr) /\ DOMAIN e = 1 .. n /\ \A i \in 1 .. n : e[i] = order[n + 1 - i] /\ e[n + 1 - i] = order[i]
  BY <1>1, <1>3, <1>4
<1>6. \A b : Allocated(b) => \E q \in DOMAIN e : e[q] = b
  BY <1>1, <1>4, <1>5 DEF Allocated
<1>7. ASSUME NEW a, NEW b, Before(a, b), NEW p \in DOMAIN e, e[p] = a
      PROVE  \E q \in DOMAIN e : q < p /\ e[q] = b
  <2>1. PICK i \in 1 .. n, j \in 1 .. n : i < j /\ order[i] = a /\ order[j] = b
    BY <1>1, <1>7 DEF Before
  <2>2. i = n + 1 - p
    <3>1. PICK m \in 1 .. n : m = n + 1 - p /\ order[m] = a
      BY <1>4, <1>5, <1>7
    <3>2. i = m
      BY <1>1, <2>1, <3>1 DEF OrderOK
    <3> QED BY <3>1, <3>2
  <2>3. n + 1 - j \in DOMAIN e /\ e[n + 1 - j] = b
    BY <1>4, <1>5, <2>1
  <2>4. n + 1 - j < p
    BY <1>1, <1>5, <1>7, <2>1, <2>2
  <2> QED BY <2>3, <2>4
<1> QED BY <1>2, <1>5, <1>6, <1>7

LEMMA EndCalm ==
    ASSUME Inv, CalmInv, OutInOrder, VariableWritten
    PROVE  CalmInv' /\ OutInOrder'
<1>1. StackInv /\ EnvInv /\ OrderOK /\ out \in Seq(Bytes) /\ env \in Env
  BY InvParts DEF EnvInv, Static
<1>2. PICK w : w = Top.written
  OBVIOUS
<1>3. PICK k : k = EmitOrder
  OBVIOUS
<1>4. PICK o : o = [keys |-> k, env |-> env, value |-> Struct(w)]
  OBVIOUS
<1>5. /\ stack # <<>> /\ Top.role = "variable" /\ out' = Append(out, o) /\ env' = NoEnv /\ stack' = <<>>
      /\ event' = event
  BY <1>2, <1>3, <1>4 DEF VariableWritten, Writing
<1>6. PICK n : n = Len(stack)
  OBVIOUS
<1>7. n \in DOMAIN stack /\ DOMAIN stack = 1 .. n /\ Top = stack[n] /\ Top \in Calls
  BY <1>1, <1>5, <1>6, TopFacts
<1>8. n = 1
  BY <1>1, <1>5, <1>7 DEF StackInv, StackOK
<1>9. w \in Seq(WrittenField)
  BY <1>2, <1>7 DEF Calls
<1>10. Struct(w) \in WrittenValue
  BY <1>9 DEF WrittenValue, Struct
<1>11. /\ k \in Seq(Addr)
       /\ \A b : Allocated(b) => \E q \in DOMAIN k : k[q] = b
       /\ \A a, b : Before(a, b) => \A p \in DOMAIN k : k[p] = a => \E q \in DOMAIN k : q < p /\ k[q] = b
  BY <1>1, <1>3, EmittedOrder
<1>12. o \in Bytes /\ o.keys = k /\ o.env = env /\ o.value = Struct(w)
  BY <1>1, <1>4, <1>10, <1>11 DEF Bytes
<1>13. \A a : ~Pending(a)
  BY <1>5, <1>7, <1>8 DEF Pending, IsObject
<1>14. OutInOrder'
  <2>1. \A b \in Addr : env[b] # None => \E q \in DOMAIN k : k[q] = b
    BY <1>1, <1>11 DEF EnvInv
  <2>2. ASSUME NEW a \in Addr, NEW b \in Addr, Refers(env[a], b)
        PROVE  \/ SetAt(b) # {}
               \/ /\ env[b] # None
                  /\ \A p \in DOMAIN k : k[p] = a => \E q \in DOMAIN k : q < p /\ k[q] = b
    <3>1. Reach(a, b)
      BY <1>13, <2>2 DEF CalmInv, EnvInOrder
    <3> QED BY <1>11, <3>1 DEF Reach
  <2>3. \A b \in Addr : Refers(Struct(w), b) => SetAt(b) # {} \/ env[b] # None
    BY <1>2, <1>7, StructRefers DEF CalmInv, CallsInOrder, IsSet
  <2> QED BY <1>1, <1>5, <1>12, <2>1, <2>2, <2>3, AppendEntry
<1>15. \A a : ~Pending(a)'
  BY <1>5 DEF Pending
<1>16. EnvInOrder'
  BY <1>5, NoReference DEF EnvInOrder, NoEnv, Refers
<1>17. CallsInOrder'
  BY <1>5 DEF CallsInOrder
<1> QED BY <1>14, <1>15, <1>16, <1>17 DEF CalmInv, PendingUnset

LEMMA FailCalm ==
    ASSUME Inv, MemInv, CalmInv, OutInOrder, Tree \/ Orderly, FailStep
    PROVE  CalmInv' /\ OutInOrder'
<1>1. Tree
  BY BadIsSomewhere DEF FailStep, Orderly
<1>2. out \in Seq(Bytes)
  BY InvParts DEF Static
<1>3. PICK o : o = [keys |-> <<>>, env |-> NoEnv, value |-> Opaque]
  OBVIOUS
<1>4. out' = Append(out, o) /\ env' = env /\ order' = order /\ stack' = <<>> /\ event' = event
  BY <1>3 DEF FailStep, Writing
<1>5. NoEnv \in Env
  BY DEF NoEnv, Env
<1>6. o \in Bytes /\ o.keys = <<>> /\ o.env = NoEnv /\ o.value = Opaque
  BY <1>3, <1>5 DEF Bytes, WrittenValue
<1>7. \A b \in Addr : SetAt(b) # {} => SetAt(b)' # {}
  BY <1>2, <1>4, <1>6, OutGrows
<1>8. \A b \in Addr : NoEnv[b] = None /\ ~Refers(None, b) /\ ~Refers(Opaque, b)
  BY NoReference DEF NoEnv
<1>9. OutInOrder'
  BY <1>2, <1>4, <1>6, <1>8, AppendEntry
<1>10. \A a, b \in Addr : Reach(a, b) => Reach(a, b)'
  BY <1>4, <1>7 DEF Reach, Before
<1>11. EnvInOrder'
  <2>1. ASSUME NEW a \in Addr, NEW b \in Addr, Refers(env[a], b) PROVE Reach(a, b)'
    <3>1. ~Pending(a)
      BY <1>1, <2>1, NoReference DEF CalmInv, PendingUnset
    <3> QED BY <1>10, <2>1, <3>1 DEF CalmInv, EnvInOrder
  <2> QED BY <1>4, <2>1 DEF EnvInOrder, Refers
<1>12. CallsInOrder'
  BY <1>4 DEF CallsInOrder
<1>13. \A a : ~Pending(a)'
  BY <1>4 DEF Pending
<1> QED BY <1>9, <1>11, <1>12, <1>13 DEF CalmInv, PendingUnset

LEMMA BeginVariableCalm ==
    ASSUME Inv, CalmInv, BeginVariable
    PROVE  CalmInv'
<1>1. PICK c : c = Call("variable", PlainField, event.variables[next], limit - 1)
  OBVIOUS
<1>2. /\ stack = <<>> /\ stack' = <<c>> /\ event' = event /\ order' = order /\ env' = env /\ out' = out
      /\ c.role = "variable" /\ c.written = <<>>
  BY <1>1 DEF BeginVariable, Writing, Call
<1>3. DOMAIN stack' = {1} /\ stack'[1] = c
  BY <1>2
<1>4. /\ \A a, b : Reach(a, b)' <=> Reach(a, b)
      /\ \A a : ~Pending(a)' /\ ~Pending(a)
  BY <1>2, <1>3 DEF Reach, SetAt, Before, Pending, IsObject
<1>5. EnvInOrder'
  BY <1>2, <1>4 DEF CalmInv, EnvInOrder, Refers
<1>6. CallsInOrder'
  BY <1>2, <1>3 DEF CallsInOrder, RefersFrom
<1> QED BY <1>4, <1>5, <1>6 DEF CalmInv, PendingUnset

LEMMA NoEnumInTrees ==
    ASSUME Inv, MemInv, Tree, NEW i \in DOMAIN stack
    PROVE  stack[i].role = "variable" \/ IsObject(stack[i])
<1> SUFFICES ASSUME stack[i].role # "variable", ~IsObject(stack[i]) PROVE FALSE
  OBVIOUS
<1>1. PICK c \in Calls : c = stack[i] /\ CallFollows(c)
  BY DEF Inv, TypeOK, MemInv, CallsFollow
<1>2. c.role \in {"children", "fallback"}
  BY <1>1 DEF Calls, IsObject
<1>3. c.field \in Pointers /\ c.field.lost /\ c.field.to \in Addr
  BY <1>1, <1>2 DEF Inv, TypeOK, CallFollows, Pointers
<1>4. DOMAIN stack = 1 .. Len(stack) /\ Len(stack) \in Nat /\ i # 1
  BY DEF Inv, TypeOK, StackOK
<1>5. i - 1 \in DOMAIN stack /\ i - 1 < Len(stack) /\ i - 1 + 1 = i
  BY <1>4
<1>6. PICK m \in DOMAIN stack : m < Len(stack) /\ m + 1 = i
  BY <1>5
<1>7. stack[m].todo # <<>> /\ c.field = stack[m].todo[1]
  BY <1>1, <1>6, AboveIsFor
<1>8. Shared(c.field.to)
  BY <1>3, <1>7, LostFieldIsShared
<1> QED BY <1>3, <1>8 DEF Tree

LEMMA CalmWriter ==
    ASSUME Inv, MemInv, PathInv, CalmInv, OutInOrder, Tree \/ Orderly, WriterStep
    PROVE  CalmInv' /\ OutInOrder'
<1>1. StackInv
  BY InvParts
<1>2. PICK n : n = Len(stack)
  OBVIOUS
<1>3. stack # <<>> => n \in DOMAIN stack /\ Top = stack[n]
  BY <1>1, <1>2, TopFacts
<1>4. ASSUME Same, order' = order, env' = env, NEW k, NEW v, Handed(k, v),
             k = n \/ (k + 1 = n /\ ~IsObject(Top)),
             \A b \in Addr : v = Ref(b) => RefersFrom(Top.written, b)
      PROVE  CalmInv' /\ OutInOrder'
  BY <1>1, <1>2, <1>4, HandedCalmStill, EntryStill DEF Same
<1>5. CASE BeginVariable
  BY <1>5, BeginVariableCalm, EntryStill DEF BeginVariable
<1>6. CASE FieldStep
  <2>1. PICK v \in {Plain, Opaque} : Handed(n, v)
    BY <1>2, <1>6 DEF FieldStep
  <2>2. \A b \in Addr : v # Ref(b)
    BY <2>1, NoReference
  <2> QED BY <1>4, <1>6, <2>1, <2>2 DEF FieldStep
<1>7. CASE PopStep
  <2>1. PICK k : k = n - 1
    OBVIOUS
  <2>2. n \in Nat
    BY <1>1, <1>2 DEF StackInv, CallsTyped
  <2>3. k + 1 = n /\ ~IsObject(Top)
    BY <1>7, <2>1, <2>2 DEF PopStep, IsObject
  <2>4. CASE Handed(k, Opaque)
    BY <1>4, <1>7, <2>3, <2>4, NoReference DEF PopStep
  <2>5. CASE Top.role = "fallback" /\ Top.todo = <<>> /\ Handed(k, Top.written[1])
    <3>1. 1 \in DOMAIN Top.written
      <4>1. CallOK(Top) /\ Top \in Calls
        BY <1>1, <1>7, TopFacts DEF PopStep
      <4>2. Top.written \in Seq(WrittenField) /\ Len(Top.written) = 1
        BY <2>5, <4>1 DEF CallOK, Calls
      <4> QED BY <4>2
    <3>2. \A b \in Addr : Top.written[1] = Ref(b) => RefersFrom(Top.written, b)
      BY <3>1 DEF RefersFrom
    <3> QED BY <1>4, <1>7, <2>3, <2>5, <3>2 DEF PopStep
  <2> QED BY <1>2, <1>7, <2>1, <2>4, <2>5 DEF PopStep
<1>8. CASE SetStep
  BY <1>8, SetCalm, EntryStill DEF SetStep, Same
<1>9. CASE RescueStep
  <2>1. Tree
    BY <1>9, BadIsSomewhere DEF RescueStep, Orderly
  <2>2. \A i \in DOMAIN stack : stack[i].role # "fallback"
    BY <2>1, NoEnumInTrees DEF IsObject
  <2> QED BY <1>9, <2>2 DEF RescueStep
<1>10. CASE FailStep
  BY <1>10, FailCalm
<1>11. CASE VariableWritten
  BY <1>11, EndCalm
<1>12. ASSUME NEW f \in Pointers, CutStep(f) \/ KnownStep(f) PROVE CalmInv' /\ OutInOrder'
  BY <1>12, FollowCalm, EntryStill DEF CutStep, KnownStep, FollowStep, Same
<1>13. ASSUME NEW f \in Pointers, BeginStep(f) PROVE CalmInv' /\ OutInOrder'
  BY <1>13, BeginCalm, EntryStill DEF BeginStep, FollowStep, Same
<1>14. ASSUME NEW k, NEW c, EnumStep(k, c) PROVE CalmInv' /\ OutInOrder'
  BY <1>14, EnumCalm, EntryStill DEF EnumStep, Same
<1> QED BY <1>5, <1>6, <1>7, <1>8, <1>9, <1>10, <1>11, <1>12, <1>13, <1>14 DEF WriterStep

Calm == (Tree \/ Orderly) => CalmInv /\ OutInOrder

LEMMA CalmNext == Inv /\ MemInv /\ PathInv /\ Calm /\ [Next]_vars => Calm'
<1> SUFFICES ASSUME Inv, MemInv, PathInv, Calm, [Next]_vars, Tree \/ Orderly PROVE CalmInv' /\ OutInOrder'
  BY EventIsKept, RegimeIsStatic DEF Calm
<1>1. CalmInv /\ OutInOrder
  BY DEF Calm
<1>2. CASE Write
  BY <1>1, <1>2, WriteSteps, CalmWriter
<1>3. CASE Read \/ Done \/ UNCHANGED vars
  <2>1. UNCHANGED <<event, stack, order, env, out>>
    BY <1>3, ReadIsOnly DEF Written
  <2>2. /\ \A a, b : Reach(a, b)' <=> Reach(a, b)
        /\ \A a : Pending(a)' <=> Pending(a)
        /\ \A b : IsSet(b)' <=> IsSet(b)
        /\ Tree' <=> Tree
    BY <2>1, RegimeIsStatic DEF Reach, SetAt, Before, Pending, IsObject, IsSet
  <2>3. EnvInOrder'
    BY <1>1, <2>1, <2>2 DEF CalmInv, EnvInOrder, Refers
  <2>4. CallsInOrder'
    <3>1. PICK t : t = stack'
      OBVIOUS
    <3>2. \A i \in DOMAIN t : \A b \in Addr : RefersFrom(t[i].written, b)
            => /\ IsSet(b)'
               /\ \A j \in DOMAIN t : (j <= i /\ IsObject(t[j])) => Reach(t[j].field.to, b)'
      BY <1>1, <2>1, <2>2, <3>1 DEF CalmInv, CallsInOrder
    <3> QED BY <3>1, <3>2 DEF CallsInOrder, RefersFrom, IsObject
  <2>5. Tree' => PendingUnset'
    BY <1>1, <2>1, <2>2 DEF CalmInv, PendingUnset
  <2> QED BY <1>1, <2>1, <2>3, <2>4, <2>5, EntryStill DEF CalmInv
<1> QED BY <1>2, <1>3 DEF Next

LEMMA CalmInit == Init => Calm
<1> SUFFICES ASSUME Init PROVE CalmInv /\ OutInOrder
  BY DEF Calm
<1>1. EnvInOrder
  BY NoReference DEF Init, EnvInOrder, NoEnv
<1>2. CallsInOrder /\ PendingUnset /\ OutInOrder
  BY DEF Init, CallsInOrder, PendingUnset, Pending, OutInOrder
<1> QED BY <1>1, <1>2 DEF CalmInv

-----------------------------------------------------------------------------
(***************************************************************************)
(* The reader begins when the event is complete.  What has been emitted up *)
(* to where it is, it knows.                                               *)
(***************************************************************************)
Unread == (stack # <<>> \/ next <= Len(event.variables)) => (values = <<>> /\ entry = 0)

HasRead(b) ==
    \/ \E h \in DOMAIN out : h <= Len(values) /\ out[h].env[b] # None
    \/ /\ Len(values) < Len(out) /\ Current.env[b] # None
       /\ \E q \in DOMAIN Current.keys : q <= entry /\ Current.keys[q] = b

ReadIsKnown == \A b \in Addr : HasRead(b) => known[b] # None

ReaderInv ==
    /\ Unread
    /\ known = [a \in Addr |-> known[a]]
    /\ \E S : values \in Seq(S)
    /\ (Tree \/ Orderly) => ReadIsKnown /\ NothingUnresolved

LEMMA ReadBackFacts ==
    ASSUME NEW v \in WrittenValue
    PROVE  /\ ReadBack(v) # None
           /\ (\A b \in Addr : Refers(v, b) => known[b] # None) => ~IsUnresolved(ReadBack(v))
<1>1. CASE v = Opaque
  BY <1>1 DEF ReadBack, IsUnresolved, Opaque, None
<1>2. CASE v # Opaque
  <2>1. PICK s \in Seq(WrittenField) : v = Struct(s)
    BY <1>2 DEF WrittenValue, Struct
  <2>2. PICK t : t = [i \in DOMAIN s |-> Resolve(s[i])]
    OBVIOUS
  <2>3. ReadBack(v) = Struct(t)
    BY <2>1, <2>2 DEF ReadBack, Struct
  <2>4. ASSUME NEW i \in DOMAIN s, \A b \in Addr : Refers(v, b) => known[b] # None
        PROVE  t[i].is # "unresolved"
    <3>1. t[i] = Resolve(s[i])
      BY <2>2
    <3>2. s[i] \in WrittenField
      BY <2>1
    <3>3. CASE s[i] \in {Plain, Opaque}
      BY <3>1, <3>3 DEF Resolve, Plain, Opaque
    <3>4. CASE s[i] \notin {Plain, Opaque}
      <4>1. PICK b \in Addr : s[i] = Ref(b)
        BY <3>2, <3>4 DEF WrittenField
      <4>2. known[b] # None
        BY <2>1, <2>4, <4>1, StructRefers DEF RefersFrom
      <4> QED BY <3>1, <4>1, <4>2 DEF Resolve, Ref, RefTo
    <3> QED BY <3>3, <3>4
  <2>5. DOMAIN t = DOMAIN s
    BY <2>2
  <2> QED BY <2>3, <2>4, <2>5 DEF IsUnresolved, Struct, None
<1> QED BY <1>1, <1>2

LEMMA WriteIsEarly ==
    ASSUME Write
    PROVE  /\ stack # <<>> \/ next <= Len(event.variables)
           /\ UNCHANGED <<entry, known, values>>
  BY DEF Write, BeginVariable, WriteOpaque, WritePlain, WriteRef, WriteOpt, PointeeWritten, WriteChildren,
         FallBack, GiveUp, FallbackWritten, Fail, VariableWritten, AtField, Writing

\* While the event is written nothing of it is read.
LEMMA NotYetRead ==
    ASSUME Static', ReaderInv, Write
    PROVE  values' = <<>> /\ \A b : ~HasRead(b)'
<1>1. /\ stack # <<>> \/ next <= Len(event.variables)
      /\ UNCHANGED <<entry, known, values>>
  BY WriteIsEarly
<1>2. values = <<>> /\ entry = 0
  BY <1>1 DEF ReaderInv, Unread
<1>3. out' \in Seq(Bytes) /\ Len(values) = 0
  BY <1>2 DEF Static
<1>4. PICK o \in Seq(Bytes) : o = out'
  BY <1>3
<1>5. ASSUME NEW b, HasRead(b)' PROVE FALSE
  <2>1. CASE \E h \in DOMAIN o : h <= Len(values)
    BY <1>3, <2>1
  <2>2. CASE 0 < Len(o) /\ \E q \in DOMAIN o[1].keys : q <= 0
    <3>1. o[1] \in Bytes
      BY <2>2
    <3>2. o[1].keys \in Seq(Addr)
      BY <3>1 DEF Bytes
    <3> QED BY <2>2, <3>2
  <2> QED BY <1>1, <1>2, <1>3, <1>4, <1>5, <2>1, <2>2 DEF HasRead, Current
<1> QED BY <1>1, <1>2, <1>5

LEMMA ReaderWrites ==
    ASSUME Static', ReaderInv, Write
    PROVE  ReaderInv'
<1>1. UNCHANGED <<entry, known, values>> /\ values = <<>> /\ entry = 0
  BY WriteIsEarly DEF ReaderInv, Unread
<1>2. \A b : ~HasRead(b)'
  BY NotYetRead
<1>3. /\ (Tree \/ Orderly)' <=> (Tree \/ Orderly)
  <2>1. event' = event
    BY EventIsKept DEF Next
  <2> QED BY <2>1, RegimeIsStatic
<1>4. NothingUnresolved' <=> NothingUnresolved
  BY <1>1 DEF NothingUnresolved, IsUnresolved
<1> QED BY <1>1, <1>2, <1>3, <1>4 DEF ReaderInv, Unread, ReadIsKnown

\* The event is complete; what is being read of it is in order.
LEMMA ReadsFacts ==
    ASSUME Static, ReaderInv, Reads, NEW n, n = Len(values) + 1
    PROVE  /\ out \in Seq(Bytes) /\ DOMAIN out = 1 .. Len(out) /\ Len(out) \in Nat /\ Len(values) \in Nat
           /\ n \in DOMAIN out /\ Current = out[n] /\ out[n] \in Bytes
           /\ out[n].keys \in Seq(Addr) /\ out[n].env \in Env /\ out[n].value \in WrittenValue
           /\ \A h \in DOMAIN out : h < n <=> h <= Len(values)
<1>1. out \in Seq(Bytes) /\ Len(values) < Len(out) /\ Current = out[n]
  BY DEF Static, Reads, Current
<1>2. Len(values) \in Nat
  BY DEF ReaderInv
<1>3. DOMAIN out = 1 .. Len(out) /\ Len(out) \in Nat /\ n \in DOMAIN out
  BY <1>1, <1>2
<1>4. out[n] \in Bytes
  BY <1>1, <1>3
<1>5. \A h \in 1 .. Len(out) : h < n <=> h <= Len(values)
  BY <1>2
<1> QED BY <1>1, <1>2, <1>3, <1>4, <1>5 DEF Bytes

\* What an entry or a value refers to has been read before it.
LEMMA ReferredIsRead ==
    ASSUME Static, ReaderInv, OutInOrder, Reads, NEW n, n = Len(values) + 1, NEW b \in Addr,
           \/ \E a \in Addr : /\ Refers(out[n].env[a], b) /\ entry + 1 \in DOMAIN out[n].keys
                               /\ out[n].keys[entry + 1] = a
           \/ Refers(out[n].value, b) /\ entry = Len(out[n].keys)
    PROVE  HasRead(b)
<1>1. /\ out \in Seq(Bytes) /\ DOMAIN out = 1 .. Len(out) /\ Len(out) \in Nat /\ Len(values) \in Nat
      /\ n \in DOMAIN out /\ Current = out[n] /\ out[n] \in Bytes
      /\ out[n].keys \in Seq(Addr) /\ out[n].env \in Env /\ out[n].value \in WrittenValue
      /\ \A h \in DOMAIN out : h < n <=> h <= Len(values)
  BY ReadsFacts
<1>2. EntryOK(n) /\ entry \in Nat /\ Len(values) < Len(out)
  BY <1>1 DEF OutInOrder, Static, Reads
<1>3. CASE SetBefore(n, b)
  BY <1>1, <1>3 DEF SetBefore, HasRead
<1>4. ASSUME out[n].env[b] # None, NEW q \in DOMAIN out[n].keys, q <= entry, out[n].keys[q] = b
      PROVE  HasRead(b)
  BY <1>1, <1>2, <1>4 DEF HasRead
<1>5. ASSUME NEW a \in Addr, Refers(out[n].env[a], b), entry + 1 \in DOMAIN out[n].keys,
             out[n].keys[entry + 1] = a, ~SetBefore(n, b)
      PROVE  HasRead(b)
  <2>1. PICK q \in DOMAIN out[n].keys : q < entry + 1 /\ out[n].keys[q] = b
    BY <1>2, <1>5 DEF EntryOK
  <2>2. out[n].env[b] # None
    BY <1>2, <1>5 DEF EntryOK
  <2>3. q <= entry
    BY <1>1, <1>2, <2>1
  <2> QED BY <1>4, <2>1, <2>2, <2>3
<1>6. ASSUME Refers(out[n].value, b), entry = Len(out[n].keys), ~SetBefore(n, b) PROVE HasRead(b)
  <2>1. out[n].env[b] # None
    BY <1>2, <1>6 DEF EntryOK
  <2>2. PICK q \in DOMAIN out[n].keys : out[n].keys[q] = b
    BY <1>2, <2>1 DEF EntryOK
  <2>3. q <= entry
    BY <1>1, <1>6
  <2> QED BY <1>4, <2>1, <2>2, <2>3
<1> QED BY <1>3, <1>5, <1>6

\* What a step of the reader adds.
LEMMA EntryIsRead ==
    ASSUME Static, ReaderInv, ReadEntry, NEW n, n = Len(values) + 1, NEW a, a = out[n].keys[entry + 1],
           NEW b \in Addr, HasRead(b)'
    PROVE  HasRead(b) \/ (b = a /\ out[n].env[a] # None)
<1>1. Reads /\ entry' = entry + 1 /\ values' = values
  BY DEF ReadEntry
<1>2. /\ out \in Seq(Bytes) /\ Len(values) \in Nat /\ n \in DOMAIN out /\ Current = out[n]
      /\ out[n].keys \in Seq(Addr)
  BY <1>1, ReadsFacts
<1>3. out' = out /\ entry \in Nat /\ Len(values) < Len(out)
  BY <1>1 DEF Reads, Static
<1> SUFFICES ASSUME ~HasRead(b) PROVE b = a /\ out[n].env[a] # None
  OBVIOUS
<1>4. out[n].env[b] # None /\ \E q \in DOMAIN out[n].keys : q <= entry + 1 /\ out[n].keys[q] = b
  BY <1>1, <1>2, <1>3 DEF HasRead, Current
<1>5. PICK q \in DOMAIN out[n].keys : q <= entry + 1 /\ out[n].keys[q] = b
  BY <1>4
<1>6. q <= entry \/ q = entry + 1
  BY <1>2, <1>3, <1>5
<1>7. ~(q <= entry)
  BY <1>2, <1>3, <1>4, <1>5 DEF HasRead
<1> QED BY <1>4, <1>5, <1>6, <1>7

LEMMA ValueIsRead ==
    ASSUME Static, ReaderInv, OutInOrder, ReadValue, NEW b \in Addr, HasRead(b)'
    PROVE  HasRead(b)
<1>1. PICK n : n = Len(values) + 1
  OBVIOUS
<1>2. PICK v : Reads /\ entry = Len(Current.keys) /\ values' = Append(values, v)
  BY DEF ReadValue
<1>3. /\ out \in Seq(Bytes) /\ DOMAIN out = 1 .. Len(out) /\ Len(out) \in Nat /\ Len(values) \in Nat
      /\ n \in DOMAIN out /\ Current = out[n]
      /\ out[n].keys \in Seq(Addr) /\ out[n].env \in Env
      /\ \A h \in DOMAIN out : h < n <=> h <= Len(values)
  BY <1>1, <1>2, ReadsFacts
<1>4. out' = out /\ entry' = 0 /\ Len(values) < Len(out)
  BY <1>2 DEF Reads, ReadValue
<1>5. PICK w : w = values'
  OBVIOUS
<1>6. Len(w) = n
  <2>1. PICK S : values \in Seq(S)
    BY DEF ReaderInv
  <2> QED BY <1>1, <1>2, <1>3, <1>5, <2>1
<1>7. CASE \E h \in DOMAIN out : h <= n /\ out[h].env[b] # None
  <2>1. PICK h \in DOMAIN out : h <= n /\ out[h].env[b] # None
    BY <1>7
  <2>2. CASE h <= Len(values)
    BY <2>1, <2>2 DEF HasRead
  <2>3. CASE h = n
    <3>1. PICK q \in DOMAIN out[n].keys : out[n].keys[q] = b
      BY <1>3, <2>1, <2>3 DEF OutInOrder, EntryOK
    <3>2. q <= entry
      BY <1>2, <1>3
    <3> QED BY <1>3, <1>4, <2>1, <2>3, <3>1, <3>2 DEF HasRead
  <2> QED BY <1>1, <1>3, <2>1, <2>2, <2>3
<1>8. CASE n < Len(out) /\ \E q \in DOMAIN out[n + 1].keys : q <= 0
  <2>1. n + 1 \in DOMAIN out
    BY <1>3, <1>8
  <2>2. out[n + 1] \in Bytes
    BY <1>3, <2>1
  <2>3. out[n + 1].keys \in Seq(Addr)
    BY <2>2 DEF Bytes
  <2> QED BY <1>8, <2>3
<1> QED BY <1>4, <1>5, <1>6, <1>7, <1>8 DEF HasRead, Current

LEMMA ReaderReads ==
    ASSUME Static, ReaderInv, ReadIsKnown, NothingUnresolved, OutInOrder, Read
    PROVE  ReadIsKnown' /\ NothingUnresolved'
<1>1. PICK n : n = Len(values) + 1
  OBVIOUS
<1>2. Reads
  BY DEF Read, ReadEntry, ReadValue
<1>3. /\ out \in Seq(Bytes) /\ DOMAIN out = 1 .. Len(out) /\ Len(out) \in Nat /\ Len(values) \in Nat
      /\ n \in DOMAIN out /\ Current = out[n] /\ out[n] \in Bytes
      /\ out[n].keys \in Seq(Addr) /\ out[n].env \in Env /\ out[n].value \in WrittenValue
      /\ \A h \in DOMAIN out : h < n <=> h <= Len(values)
  BY <1>1, <1>2, ReadsFacts
<1>4. out' = out /\ entry \in Nat /\ Len(values) < Len(out)
  BY <1>2 DEF Reads, Static
<1>5. PICK k : k = known'
  OBVIOUS
<1>6. CASE ReadEntry
  <2>1. PICK a : a = out[n].keys[entry + 1]
    OBVIOUS
  <2>2. /\ entry < Len(out[n].keys) /\ entry' = entry + 1 /\ values' = values
        /\ k = IF out[n].env[a] = None THEN known ELSE [known EXCEPT ![a] = ReadBack(out[n].env[a])]
    BY <1>3, <1>5, <1>6, <2>1 DEF ReadEntry
  <2>3. entry + 1 \in DOMAIN out[n].keys /\ a \in Addr
    BY <1>3, <1>4, <2>1, <2>2
  <2>4. /\ \A b \in Addr : b # a => k[b] = known[b]
        /\ out[n].env[a] = None => k[a] = known[a]
        /\ out[n].env[a] # None => k[a] = ReadBack(out[n].env[a])
    BY <2>2, <2>3 DEF ReaderInv
  <2>5. out[n].env[a] # None => out[n].env[a] \in WrittenValue
    BY <1>3, <2>3 DEF Env
  <2>6. out[n].env[a] # None => k[a] # None
    BY <2>4, <2>5, ReadBackFacts
  <2>7. ASSUME NEW b \in Addr, HasRead(b)' PROVE k[b] # None
    <3>1. HasRead(b) \/ (b = a /\ out[n].env[a] # None)
      BY <1>1, <1>6, <2>1, <2>7, EntryIsRead
    <3> QED BY <2>4, <2>6, <3>1 DEF ReadIsKnown
  <2>8. ASSUME NEW b \in Addr PROVE ~IsUnresolved(k[b])
    <3>1. CASE b = a /\ out[n].env[a] # None
      <4>1. \A c \in Addr : Refers(out[n].env[a], c) => known[c] # None
        BY <1>1, <1>2, <2>1, <2>3, ReferredIsRead DEF ReadIsKnown
      <4> QED BY <2>4, <2>5, <3>1, <4>1, ReadBackFacts
    <3>2. CASE ~(b = a /\ out[n].env[a] # None)
      <4>1. k[b] = known[b]
        BY <2>4, <3>2
      <4> QED BY <4>1 DEF NothingUnresolved
    <3> QED BY <3>1, <3>2
  <2>9. \A b \in Addr : IsUnresolved(known[b])' <=> IsUnresolved(k[b])
    BY <1>5 DEF IsUnresolved
  <2>10. \A i \in DOMAIN values : IsUnresolved(values[i])' <=> IsUnresolved(values[i])
    BY <2>2 DEF IsUnresolved
  <2> QED BY <1>5, <2>2, <2>7, <2>8, <2>9, <2>10 DEF ReadIsKnown, NothingUnresolved
<1>7. CASE ReadValue
  <2>1. PICK v : v = ReadBack(out[n].value)
    OBVIOUS
  <2>2. entry = Len(out[n].keys) /\ entry' = 0 /\ values' = Append(values, v) /\ known' = known
    BY <1>3, <1>7, <2>1 DEF ReadValue
  <2>3. ~IsUnresolved(v)
    <3>1. \A c \in Addr : Refers(out[n].value, c) => known[c] # None
      BY <1>1, <1>2, <2>2, ReferredIsRead DEF ReadIsKnown
    <3> QED BY <1>3, <2>1, <3>1, ReadBackFacts
  <2>4. PICK w : w = values'
    OBVIOUS
  <2>5. /\ Len(w) = n /\ DOMAIN w = 1 .. n /\ w[n] = v /\ DOMAIN values = 1 .. Len(values)
        /\ \A i \in 1 .. Len(values) : w[i] = values[i]
        /\ \A i \in 1 .. n : i \in 1 .. Len(values) \/ i = n
    <3>1. PICK S : values \in Seq(S)
      BY DEF ReaderInv
    <3> QED BY <1>1, <1>3, <2>2, <2>4, <3>1
  <2>6. ASSUME NEW b \in Addr, HasRead(b)' PROVE known[b] # None
    BY <1>7, <2>6, ValueIsRead DEF ReadIsKnown
  <2>7. \A i \in DOMAIN w : ~IsUnresolved(w[i])
    BY <2>3, <2>5 DEF NothingUnresolved
  <2>8. \A b \in Addr : IsUnresolved(known[b])' <=> IsUnresolved(known[b])
    BY <2>2 DEF IsUnresolved
  <2>9. \A i \in DOMAIN w : IsUnresolved(values[i])' <=> IsUnresolved(w[i])
    BY <2>4 DEF IsUnresolved
  <2> QED BY <2>2, <2>4, <2>6, <2>7, <2>8, <2>9 DEF ReadIsKnown, NothingUnresolved
<1> QED BY <1>6, <1>7 DEF Read

LEMMA ReaderTyped ==
    ASSUME Static, ReaderInv, Read
    PROVE  /\ known' = [a \in Addr |-> known'[a]]
           /\ \E S : values' \in Seq(S)
           /\ Unread'
<1>1. CASE ReadEntry
  <2>1. values' = values
    BY <1>1 DEF ReadEntry
  <2>2. known' = [a \in Addr |-> known'[a]]
    <3>1. PICK a, v : known' = known \/ known' = [known EXCEPT ![a] = v]
      BY <1>1 DEF ReadEntry
    <3>2. known = [b \in Addr |-> known[b]]
      BY DEF ReaderInv
    <3>3. CASE known' = known
      BY <3>2, <3>3
    <3>4. CASE known' = [known EXCEPT ![a] = v]
      BY <3>2, <3>4
    <3> QED BY <3>1, <3>3, <3>4
  <2> QED BY <1>1, <2>1, <2>2 DEF ReaderInv, ReadEntry, Reads, Unread, Static
<1>2. CASE ReadValue
  <2>1. PICK v : values' = Append(values, v) /\ known' = known
    BY <1>2 DEF ReadValue
  <2>2. PICK S : values \in Seq(S)
    BY DEF ReaderInv
  <2>3. PICK T : T = S \cup {v}
    OBVIOUS
  <2>4. v \in T /\ S \subseteq T
    BY <2>3
  <2>5. values \in Seq(T)
    BY <2>2, <2>4
  <2>6. values' \in Seq(T)
    BY <2>1, <2>4, <2>5
  <2> QED BY <1>2, <2>1, <2>6 DEF ReaderInv, ReadValue, Reads, Unread, Static
<1> QED BY <1>1, <1>2 DEF Read

LEMMA ReaderNext == Inv /\ Calm /\ ReaderInv /\ [Next]_vars => ReaderInv'
<1> SUFFICES ASSUME Inv, Calm, ReaderInv, [Next]_vars PROVE ReaderInv'
  OBVIOUS
<1>1. Static /\ Static'
  BY NextInv, InvParts, InvPartsNext DEF Inv, TypeOK, Static
<1>2. CASE Write
  BY <1>1, <1>2, ReaderWrites
<1>3. CASE Read
  <2>1. Tree' \/ Orderly' => Tree \/ Orderly
    BY EventIsKept, RegimeIsStatic
  <2> QED BY <1>1, <1>3, <2>1, ReaderTyped, ReaderReads DEF ReaderInv, Calm
<1>4. CASE UNCHANGED vars
  <2>1. UNCHANGED <<event, next, stack, out, entry, known, values>>
    BY <1>4 DEF vars
  <2>2. Tree' \/ Orderly' => Tree \/ Orderly
    BY EventIsKept, RegimeIsStatic
  <2>3. ReadIsKnown => ReadIsKnown'
    BY <2>1 DEF ReadIsKnown, HasRead, Current
  <2>4. NothingUnresolved => NothingUnresolved'
    BY <2>1 DEF NothingUnresolved, IsUnresolved
  <2> QED BY <2>1, <2>2, <2>3, <2>4 DEF ReaderInv, Unread
<1> QED BY <1>2, <1>3, <1>4 DEF Next, Done

LEMMA ReaderInit == Init => ReaderInv
<1> SUFFICES ASSUME Init PROVE ReaderInv
  OBVIOUS
<1>1. \A b : ~HasRead(b)
  BY DEF Init, HasRead
<1>2. NothingUnresolved
  BY DEF Init, NothingUnresolved, NoEnv, IsUnresolved, None
<1>3. values \in Seq({})
  BY DEF Init
<1> QED BY <1>1, <1>2, <1>3 DEF Init, ReaderInv, Unread, ReadIsKnown, NoEnv

\* Where only leaves are shared, or all pointers are followed each time, and there are no cycles
\* and nothing that cannot be read, every reference is resolved when the event is read: moving an
\* address to the end of env keeps what is referred to behind what refers to it, and the event has
\* env from its end (value_writer.rs, alloc_env and emit_env), whatever the objects and the limit.
THEOREM SharedIsResolved == Spec => []SharedResolve
<1>1. Init => Inv /\ MemInv /\ PathInv /\ Calm /\ ReaderInv
  BY InitInv, MemInit, PathInit, CalmInit, ReaderInit
<1>2. Inv /\ MemInv /\ PathInv /\ Calm /\ ReaderInv /\ [Next]_vars
         => (Inv /\ MemInv /\ PathInv /\ Calm /\ ReaderInv)'
  BY NextInv, MemNext, PathNext, CalmNext, ReaderNext
<1>3. ReaderInv => SharedResolve
  BY DEF ReaderInv, SharedResolve, Orderly, Sparse
<1> QED BY <1>1, <1>2, <1>3, PTL DEF Spec

-----------------------------------------------------------------------------
(***************************************************************************)
(* What should be shown, and what cannot be read, by limit: the recursive  *)
(* definitions have a solution, and it is what they say.                   *)
(***************************************************************************)
LEMMA NatSetInduction ==
    ASSUME NEW T, 0 \in T, \A n \in Nat : n \in T => n + 1 \in T
    PROVE  \A n \in Nat : n \in T
<1> SUFFICES ASSUME Nat \ T # {} PROVE FALSE
  OBVIOUS
<1> DEFINE R == {ss \in Nat \X Nat : ss[1] < ss[2]}
           L == Nat \ T
<1>1. IsWellFoundedOn(R, Nat)
  BY NatLessThanWellFounded DEF OpToRel
<1>2. \A x, y \in Nat : y < x => <<y, x>> \in R
  OBVIOUS
<1>3. PICK x \in L : \A y \in L : <<y, x>> \notin R
  <2>1. L \subseteq Nat /\ L # {}
    OBVIOUS
  <2> HIDE DEF R, L
  <2> QED BY <1>1, <2>1, WFMin
<1> HIDE DEF R
<1>4. x \in Nat \ {0} /\ x - 1 \in Nat /\ x - 1 < x /\ x = (x - 1) + 1
  OBVIOUS
<1>5. x - 1 \notin L
  BY <1>2, <1>3, <1>4
<1> QED BY <1>3, <1>4, <1>5

\* What is shown with the limit r, if it is p with the limit r - 2.
ShownBy(p, r) ==
    [f \in Fields |->
        IF r = 0 THEN Opaque
        ELSE IF f \notin Pointers THEN Plain
        ELSE RefTo(f.to, IF r = 1 THEN Opaque ELSE Struct([i \in DOMAIN heap[f.to] |-> p[heap[f.to][i]]]))]

Shows(g, n) == g = [r \in 0 .. n |-> ShownBy(g[r - 2], r)]

UnreadableBy(p, r) ==
    {f \in Fields : r > 0 /\ \/ f = BadField
                             \/ /\ f \in Pointers
                                /\ r > 1
                                /\ \E i \in DOMAIN heap[f.to] : heap[f.to][i] \in p}

Cannot(g, n) == g = [r \in 0 .. n |-> UnreadableBy(g[r - 2], r)]

LEMMA ShownAtIsChosen == ShownAt = CHOOSE g : Shows(g, limit)
  BY DEF ShownAt, Shows, ShownBy

LEMMA UnreadableAtIsChosen == UnreadableAt = CHOOSE g : Cannot(g, limit)
  BY DEF UnreadableAt, Cannot, UnreadableBy

LEMMA LowLimits ==
    ASSUME NEW p, NEW q, NEW r \in Nat, r < 2
    PROVE  ShownBy(p, r) = ShownBy(q, r) /\ UnreadableBy(p, r) = UnreadableBy(q, r)
<1>1. r = 0 \/ r = 1
  OBVIOUS
<1>2. CASE r = 0
  BY <1>2 DEF ShownBy, UnreadableBy
<1>3. CASE r = 1
  BY <1>3 DEF ShownBy, UnreadableBy
<1> QED BY <1>1, <1>2, <1>3

LEMMA ShowsNext ==
    ASSUME NEW n \in Nat, NEW g, Shows(g, n)
    PROVE  \E h : Shows(h, n + 1)
<1> DEFINE h == [r \in 0 .. n + 1 |-> IF r <= n THEN g[r] ELSE ShownBy(g[r - 2], r)]
<1>1. ASSUME NEW r \in 0 .. n + 1 PROVE h[r] = ShownBy(h[r - 2], r)
  <2>1. h[r] = ShownBy(g[r - 2], r)
    <3>1. CASE r <= n
      <4>1. r \in 0 .. n
        BY <3>1
      <4> QED BY <3>1, <4>1 DEF Shows
    <3>2. CASE ~(r <= n)
      BY <3>2
    <3> QED BY <3>1, <3>2
  <2>2. CASE r < 2
    <3> HIDE DEF h
    <3> QED BY <2>1, <2>2, LowLimits
  <2>3. CASE ~(r < 2)
    <3>1. r - 2 \in 0 .. n
      BY <2>3
    <3>2. h[r - 2] = g[r - 2]
      BY <3>1
    <3> HIDE DEF h
    <3> QED BY <2>1, <3>2
  <2> QED BY <2>2, <2>3
<1>2. h = [r \in 0 .. n + 1 |-> h[r]]
  OBVIOUS
<1> HIDE DEF h
<1>3. Shows(h, n + 1)
  BY <1>1, <1>2 DEF Shows
<1> QED BY <1>3

LEMMA CannotNext ==
    ASSUME NEW n \in Nat, NEW g, Cannot(g, n)
    PROVE  \E h : Cannot(h, n + 1)
<1> DEFINE h == [r \in 0 .. n + 1 |-> IF r <= n THEN g[r] ELSE UnreadableBy(g[r - 2], r)]
<1>1. ASSUME NEW r \in 0 .. n + 1 PROVE h[r] = UnreadableBy(h[r - 2], r)
  <2>1. h[r] = UnreadableBy(g[r - 2], r)
    <3>1. CASE r <= n
      <4>1. r \in 0 .. n
        BY <3>1
      <4> QED BY <3>1, <4>1 DEF Cannot
    <3>2. CASE ~(r <= n)
      BY <3>2
    <3> QED BY <3>1, <3>2
  <2>2. CASE r < 2
    <3> HIDE DEF h
    <3> QED BY <2>1, <2>2, LowLimits
  <2>3. CASE ~(r < 2)
    <3>1. r - 2 \in 0 .. n
      BY <2>3
    <3>2. h[r - 2] = g[r - 2]
      BY <3>1
    <3> HIDE DEF h
    <3> QED BY <2>1, <3>2
  <2> QED BY <2>2, <2>3
<1>2. h = [r \in 0 .. n + 1 |-> h[r]]
  OBVIOUS
<1> HIDE DEF h
<1>3. Cannot(h, n + 1)
  BY <1>1, <1>2 DEF Cannot
<1> QED BY <1>3

LEMMA BothExist == \A n \in Nat : (\E g : Shows(g, n)) /\ (\E g : Cannot(g, n))
<1> DEFINE T == {n \in Nat : (\E g : Shows(g, n)) /\ (\E g : Cannot(g, n))}
<1>1. 0 \in T
  <2>1. PICK g : g = [r \in 0 .. 0 |-> ShownBy({}, r)]
    OBVIOUS
  <2>2. PICK h : h = [r \in 0 .. 0 |-> UnreadableBy({}, r)]
    OBVIOUS
  <2>3. \A p, r : r \in 0 .. 0 => ShownBy(p, r) = ShownBy({}, r) /\ UnreadableBy(p, r) = UnreadableBy({}, r)
    <3>1. \A r \in 0 .. 0 : r \in Nat /\ r < 2
      OBVIOUS
    <3> QED BY <3>1, LowLimits
  <2>4. Shows(g, 0)
    BY <2>1, <2>3 DEF Shows
  <2>5. Cannot(h, 0)
    BY <2>2, <2>3 DEF Cannot
  <2> QED BY <2>4, <2>5
<1>2. ASSUME NEW n \in Nat, n \in T PROVE n + 1 \in T
  <2>1. PICK g : Shows(g, n)
    BY <1>2
  <2>2. PICK h : Cannot(h, n)
    BY <1>2
  <2> QED BY <2>1, <2>2, ShowsNext, CannotNext
<1> HIDE DEF T
<1>3. \A n \in Nat : n \in T
  BY <1>1, <1>2, NatSetInduction
<1> QED BY <1>3 DEF T

LEMMA ShownIs ==
    ASSUME limit \in Nat, NEW r \in 0 .. limit
    PROVE  ShownAt[r] = ShownBy(ShownAt[r - 2], r) /\ UnreadableAt[r] = UnreadableBy(UnreadableAt[r - 2], r)
<1>1. Shows(ShownAt, limit)
  BY BothExist, ShownAtIsChosen
<1>2. Cannot(UnreadableAt, limit)
  BY BothExist, UnreadableAtIsChosen
<1>3. PICK g : g = ShownAt
  OBVIOUS
<1>4. PICK h : h = UnreadableAt
  OBVIOUS
<1>5. g[r] = ShownBy(g[r - 2], r)
  BY <1>1, <1>3 DEF Shows
<1>6. h[r] = UnreadableBy(h[r - 2], r)
  BY <1>2, <1>4 DEF Cannot
<1> QED BY <1>3, <1>4, <1>5, <1>6

LEMMA ShownIsStatic ==
    ASSUME event' = event, limit' = limit
    PROVE  ShownAt' = ShownAt /\ UnreadableAt' = UnreadableAt
  BY DEF ShownAt, UnreadableAt, heap

-----------------------------------------------------------------------------
(***************************************************************************)
(* A tree of objects: each is written with one limit, d has which.         *)
(***************************************************************************)
Depths == [Addr -> 0 .. limit]

\* A field written with the limit r, ...
Val(f, r) == IF r = 0 THEN Opaque ELSE IF f \notin Pointers THEN Plain ELSE Ref(f.to)

\* ... an object whose pointer is, ...
Obj(a, r) == IF r = 1 THEN Opaque ELSE Struct([i \in DOMAIN heap[a] |-> Val(heap[a][i], r - 2)])

\* ... and the object as it should be shown.
Exp(a, r) == IF r = 1 THEN Opaque ELSE Struct([i \in DOMAIN heap[a] |-> ShownAt[r - 2][heap[a][i]]])

Doomed(s, r) == \E k \in DOMAIN s : s[k] \in UnreadableAt[r]

\* What fields written with the limit r point to.
Leads(s, r, d) == r > 0 => \A b \in Addr : PointsTo(s, b) # {} => Allocated(b) /\ d[b] = r

DeepEnv(e, d) ==
    \A a \in Addr : e[a] # None =>
        /\ Allocated(a) /\ d[a] \in 1 .. limit /\ e[a] = Obj(a, d[a])
        /\ d[a] > 1 => Leads(heap[a], d[a] - 2, d)

CallDeep(c, d) ==
    /\ IsObject(c) => d[c.field.to] = c.r + 2
    /\ \A k \in DOMAIN c.written :
          /\ c.written[k] = Val(Source(c)[k], c.r)
          /\ Source(c)[k] \notin UnreadableAt[c.r]
          /\ \A b \in Addr : c.written[k] = Ref(b) => d[b] = c.r
    /\ Doomed(Source(c), c.r) => Doomed(event.variables[next], limit - 1)

Limited ==
    \A i \in DOMAIN stack :
        /\ i = 1 => stack[i].r = limit - 1
        /\ i + 1 \in DOMAIN stack => stack[i].r = stack[i + 1].r + 2

CallsDeep(d) == Limited /\ \A i \in DOMAIN stack : CallDeep(stack[i], d)

ValueDeep(i, v, d) ==
    /\ i \in DOMAIN event.variables
    /\ Doomed(event.variables[i], limit - 1) => v = Opaque
    /\ ~Doomed(event.variables[i], limit - 1) =>
          /\ v = Struct([k \in DOMAIN event.variables[i] |-> Val(event.variables[i][k], limit - 1)])
          /\ Leads(event.variables[i], limit - 1, d)

OutDeep(d) == \A i \in DOMAIN out : DeepEnv(out[i].env, d) /\ ValueDeep(i, out[i].value, d)

ReadDeep(d) ==
    /\ \A b \in Addr : HasRead(b) => known[b] = Exp(b, d[b])
    /\ \A i \in DOMAIN values : values[i] = Expected(event.variables[i])

WrittenDeep(d) == CallsDeep(d) /\ DeepEnv(env, d) /\ OutDeep(d)

TreeInv ==
    /\ Len(out) = next - 1
    /\ Tree => \E d \in Depths : WrittenDeep(d) /\ ReadDeep(d)

LEMMA LimitFacts == TypeOK => limit \in Nat /\ limit > 0 /\ limit - 1 \in 0 .. limit
<1>1. limit \in Limits => limit \in Nat \ {0}
  BY EventsAssumption
<1> QED BY <1>1 DEF TypeOK

\* The kinds of fields.
LEMMA FieldKinds ==
    /\ PlainField # BadField /\ PlainField \notin Pointers /\ BadField \notin Pointers
    /\ PlainField \in Fields /\ BadField \in Fields /\ Pointers \subseteq Fields
<1>1. \A f \in Pointers : f.kind \in {"ref", "opt"}
  BY DEF Pointers
<1>2. PlainField.kind = "plain" /\ BadField.kind = "bad"
  BY DEF PlainField, BadField
<1> QED BY <1>1, <1>2 DEF Fields

\* A pointer is unreadable if what it points to is, within the limit.
LEMMA UnreadableIs ==
    ASSUME limit \in Nat, NEW r \in 0 .. limit, NEW f \in Fields
    PROVE  /\ f \in UnreadableAt[r] <=>
                 r > 0 /\ (f = BadField \/ (f \in Pointers /\ r > 1 /\ Doomed(heap[f.to], r - 2)))
  BY ShownIs DEF UnreadableBy, Doomed

LEMMA ShownFieldIs ==
    ASSUME limit \in Nat, NEW r \in 0 .. limit, NEW f \in Fields
    PROVE  ShownAt[r][f] = IF r = 0 THEN Opaque
                           ELSE IF f \notin Pointers THEN Plain
                           ELSE RefTo(f.to, Exp(f.to, r))
  BY ShownIs DEF ShownBy, Exp

\* A reader that knows what a field points to reads the field as it should be shown.
LEMMA ResolvedIsShown ==
    ASSUME limit \in Nat, NEW r \in 0 .. limit, NEW f \in Fields,
           (r > 0 /\ f \in Pointers) => known[f.to] = Exp(f.to, r)
    PROVE  Resolve(Val(f, r)) = ShownAt[r][f]
<1>1. CASE r = 0
  BY <1>1, ShownFieldIs DEF Resolve, Val, Opaque
<1>2. CASE r # 0 /\ f \notin Pointers
  BY <1>2, ShownFieldIs DEF Resolve, Val, Plain
<1>3. CASE r # 0 /\ f \in Pointers
  <2>1. Val(f, r) = Ref(f.to) /\ known[f.to] = Exp(f.to, r)
    BY <1>3 DEF Val
  <2>2. Exp(f.to, r) # None
    BY DEF Exp, Opaque, Struct, None
  <2>3. Resolve(Ref(f.to)) = RefTo(f.to, Exp(f.to, r))
    BY <2>1, <2>2 DEF Resolve, Ref
  <2> QED BY <1>3, <2>1, <2>3, ShownFieldIs
<1> QED BY <1>1, <1>2, <1>3

\* Only a pointer is written as a reference.
LEMMA ValIsRef ==
    ASSUME NEW f \in Fields, NEW r, NEW b, Val(f, r) = Ref(b)
    PROVE  r # 0 /\ f \in Pointers /\ f.to = b
<1>1. Ref(b) # Opaque /\ Ref(b) # Plain
  BY NoReference DEF Ref, Opaque, Plain
<1>2. r # 0 /\ f \in Pointers /\ Ref(f.to) = Ref(b)
  BY <1>1 DEF Val
<1> QED BY <1>2 DEF Ref

\* Of what the static part is made.
LEMMA TreeStatic ==
    ASSUME event' = event, limit' = limit
    PROVE  /\ Depths' = Depths
           /\ \A a, r : Obj(a, r)' = Obj(a, r) /\ Exp(a, r)' = Exp(a, r)
           /\ \A s, r : Doomed(s, r)' <=> Doomed(s, r)
           /\ \A s : Expected(s)' = Expected(s)
<1>1. ShownAt' = ShownAt /\ UnreadableAt' = UnreadableAt
  BY ShownIsStatic
<1> QED BY <1>1 DEF Depths, Obj, Exp, Doomed, Expected, Unreadable, Shown, heap

\* In a tree nothing is within an enum of lost variant, and what is met is new.
LEMMA TreeSteps ==
    ASSUME Inv, MemInv, PathInv, Tree, WriterStep
    PROVE  \/ BeginVariable \/ FieldStep \/ SetStep \/ FailStep \/ VariableWritten
           \/ \E f \in Pointers : (CutStep(f) \/ BeginStep(f)) /\ f.to \in Addr /\ ~Allocated(f.to)
<1>1. \A i \in DOMAIN stack : stack[i].role \notin {"children", "fallback"}
  BY NoEnumInTrees DEF IsObject
<1>2. ~PopStep
  <2>1. PopStep => Len(stack) \in DOMAIN stack /\ Top = stack[Len(stack)]
    BY TopFacts, InvParts DEF PopStep
  <2> QED BY <1>1, <2>1 DEF PopStep
<1>3. ~RescueStep
  BY <1>1 DEF RescueStep
<1>4. \A n, c : ~EnumStep(n, c)
  BY LostFieldIsShared DEF EnumStep, Tree, Pointers
<1>5. ASSUME NEW f \in Pointers, FollowStep(f) PROVE f.to \in Addr /\ ~Allocated(f.to)
  BY <1>5, Regime
<1>6. \A f \in Pointers : ~KnownStep(f)
  BY <1>5 DEF KnownStep
<1>7. \A f \in Pointers : CutStep(f) \/ BeginStep(f) => FollowStep(f)
  BY DEF CutStep, BeginStep
<1> QED BY <1>2, <1>3, <1>4, <1>5, <1>6, <1>7 DEF WriterStep

\* What an object leads to, and what it is, stays when others are given a limit.
LEMMA DeepStill ==
    ASSUME NEW d, NEW e, \A a \in Addr : Allocated(a) => e[a] = d[a], StillAllocated,
           event' = event, limit' = limit
    PROVE  /\ \A s, r : Leads(s, r, d) => Leads(s, r, e)'
           /\ \A v : DeepEnv(v, d) => DeepEnv(v, e)'
<1>1. \A s, a : PointsTo(s, a)' = PointsTo(s, a)
  BY DEF PointsTo, To
<1>2. ASSUME NEW s, NEW r, Leads(s, r, d) PROVE Leads(s, r, e)'
  BY <1>1, <1>2 DEF Leads, StillAllocated
<1>3. \A a, r : Obj(a, r)' = Obj(a, r)
  BY TreeStatic
<1>4. ASSUME NEW v, DeepEnv(v, d) PROVE DeepEnv(v, e)'
  <2>1. ASSUME NEW a \in Addr, v[a] # None
        PROVE  /\ Allocated(a)' /\ e[a] \in 1 .. limit /\ v[a] = Obj(a, e[a])'
               /\ e[a] > 1 => Leads(heap[a], e[a] - 2, e)'
    <3>1. /\ Allocated(a) /\ d[a] \in 1 .. limit /\ v[a] = Obj(a, d[a])
          /\ d[a] > 1 => Leads(heap[a], d[a] - 2, d)
      BY <1>4, <2>1 DEF DeepEnv
    <3>2. e[a] = d[a] /\ Allocated(a)'
      BY <3>1 DEF StillAllocated
    <3>3. PICK s : s = heap[a]
      OBVIOUS
    <3>4. PICK r : r = d[a] - 2
      OBVIOUS
    <3>5. e[a] > 1 => Leads(s, r, e)'
      BY <1>2, <3>1, <3>2, <3>3, <3>4
    <3>6. heap[a]' = s
      BY <3>3 DEF heap
    <3>7. e[a] > 1 => Leads(heap[a], e[a] - 2, e)'
      BY <3>2, <3>4, <3>5, <3>6
    <3>8. v[a] = Obj(a, e[a])'
      BY <1>3, <3>1, <3>2
    <3> QED BY <3>1, <3>2, <3>7, <3>8
  <2> QED BY <2>1 DEF DeepEnv
<1> QED BY <1>2, <1>4

\* The limits of the calls, and what they write.
LEMMA LimitIs ==
    ASSUME Inv, MemInv, Tree, NEW d \in Depths, CallsDeep(d), NEW i \in DOMAIN stack
    PROVE  /\ stack[i] \in Calls /\ CallFollows(stack[i]) /\ CallDeep(stack[i], d)
           /\ stack[i].r \in 0 .. limit
           /\ Source(stack[i]) \in Seq(Fields)
           /\ IsObject(stack[i]) => /\ stack[i].field \in Pointers /\ stack[i].field.to \in Addr
                                    /\ Allocated(stack[i].field.to) /\ Source(stack[i]) = heap[stack[i].field.to]
           /\ ~IsObject(stack[i]) => i = 1 /\ stack[i].role = "variable" /\ Source(stack[i]) = event.variables[next]
<1>1. PICK c : c = stack[i]
  OBVIOUS
<1>2. c \in Calls /\ CallFollows(c) /\ CallDeep(c, d) /\ c.r \in Nat
  <2>1. c \in Calls
    BY <1>1 DEF Inv, TypeOK
  <2>2. c.r \in Nat
    BY <2>1 DEF Calls
  <2>3. CallFollows(c)
    BY <1>1 DEF MemInv, CallsFollow
  <2>4. CallDeep(c, d)
    BY <1>1 DEF CallsDeep
  <2> QED BY <2>1, <2>2, <2>3, <2>4
<1>3. limit \in Nat /\ limit > 0 /\ limit - 1 \in 0 .. limit
  BY LimitFacts DEF Inv
<1>4. CASE IsObject(c)
  <2>1. c.field \in Pointers /\ Allocated(c.field.to)
    BY <1>1, <1>4 DEF Inv, TypeOK, IsObject
  <2>2. c.field.to \in Addr
    BY <2>1 DEF Pointers
  <2>3. Source(c) = heap[c.field.to]
    BY <1>4 DEF Source, IsObject
  <2>4. heap[c.field.to] \in Seq(Fields)
    BY <2>2 DEF Inv, TypeOK, heap
  <2>5. d[c.field.to] \in 0 .. limit /\ d[c.field.to] = c.r + 2
    BY <1>2, <1>4, <2>2 DEF Depths, CallDeep
  <2>6. c.r \in 0 .. limit
    BY <1>2, <1>3, <2>5
  <2> QED BY <1>1, <1>2, <1>4, <2>1, <2>2, <2>3, <2>4, <2>6
<1>5. CASE ~IsObject(c)
  <2>1. c.role = "variable"
    BY <1>1, <1>5, NoEnumInTrees
  <2>2. i = 1 /\ stack # <<>>
    BY <1>1, <2>1 DEF Inv, StackOK
  <2>3. next \in DOMAIN event.variables /\ event.variables[next] \in Seq(Fields)
    BY <2>2 DEF Inv, TypeOK, Busy
  <2>4. c.r = limit - 1
    BY <1>1, <2>2 DEF CallsDeep, Limited
  <2> QED BY <1>1, <1>2, <1>3, <1>5, <2>1, <2>2, <2>3, <2>4 DEF Source
<1> QED BY <1>4, <1>5

\* A call that does nothing.
LEMMA CallStill ==
    ASSUME Inv, MemInv, Tree, NEW d \in Depths, CallsDeep(d), NEW i \in DOMAIN stack,
           NEW e, \A a \in Addr : Allocated(a) => e[a] = d[a],
           event' = event, limit' = limit, next' = next, NEW c, c = stack[i]
    PROVE  CallDeep(c, e)'
<1>1. CallDeep(c, d)
  BY DEF CallsDeep
<1>2. PICK s : s = Source(c)
  OBVIOUS
<1>3. Source(c)' = s /\ UnreadableAt' = UnreadableAt
  BY <1>2, ShownIsStatic DEF Source, heap, IsObject
<1>4. IsObject(c) => c.field.to \in Addr /\ Allocated(c.field.to)
  BY LimitIs
<1>5. \A b \in Addr : RefersFrom(c.written, b) => Allocated(b)
  BY DEF Inv, RefsAllocated
<1>6. IsObject(c) => e[c.field.to] = c.r + 2
  BY <1>1, <1>4 DEF CallDeep
<1>7. ASSUME NEW k \in DOMAIN c.written
      PROVE  /\ c.written[k] = Val(s[k], c.r)
             /\ s[k] \notin UnreadableAt[c.r]
             /\ \A b \in Addr : c.written[k] = Ref(b) => e[b] = c.r
  BY <1>1, <1>2, <1>5 DEF CallDeep, RefersFrom
<1>8. (Doomed(s, c.r) => Doomed(event.variables[next], limit - 1))
       => (Doomed(s, c.r)' => Doomed(event.variables[next], limit - 1)')
  BY <1>3 DEF Doomed
<1>9. Doomed(Source(c), c.r) => Doomed(event.variables[next], limit - 1)
  BY <1>1 DEF CallDeep
<1> QED BY <1>2, <1>3, <1>6, <1>7, <1>8, <1>9 DEF CallDeep, IsObject, Val

\* A call is handed the value of its field.
LEMMA HandedDeep ==
    ASSUME Inv, MemInv, Tree, NEW d \in Depths, CallsDeep(d), NEW n, NEW v, Handed(n, v),
           NEW e, \A a \in Addr : Allocated(a) => e[a] = d[a],
           event' = event, limit' = limit, next' = next,
           NEW f, f = stack[n].todo[1], NEW r, r = stack[n].r,
           v = Val(f, r), f \notin UnreadableAt[r], \A b \in Addr : v = Ref(b) => e[b] = r
    PROVE  CallsDeep(e)'
<1>1. StackInv
  BY InvParts
<1>2. PICK t : t = stack'
  OBVIOUS
<1>3. /\ stack \in Seq(Calls) /\ DOMAIN stack = 1 .. Len(stack) /\ n \in Nat /\ 0 < n /\ n <= Len(stack)
      /\ t \in Seq(Calls) /\ Len(t) = n /\ DOMAIN t = 1 .. n
      /\ \A i \in 1 .. n : /\ i \in DOMAIN stack /\ (i < n => t[i] = stack[i])
                           /\ t[i].role = stack[i].role /\ t[i].field = stack[i].field
                           /\ t[i].r = stack[i].r
      /\ NextOf(stack[n], t[n], v)
      /\ 1 \in DOMAIN stack[n].todo
  BY <1>1, <1>2, HandedFacts
<1>4. n \in DOMAIN stack /\ \A i \in 1 .. n : i < n \/ i = n
  BY <1>3
<1>5. PICK c : c = stack[n]
  OBVIOUS
<1>6. PICK g : g = t[n]
  OBVIOUS
<1>7. c \in Calls /\ CallFollows(c) /\ Source(c) \in Seq(Fields) /\ c.todo # <<>>
  <2>1. c.todo # <<>>
    BY <1>5 DEF Handed
  <2> QED BY <1>4, <1>5, <2>1, LimitIs
<1>8. f = Source(c)[Len(c.written) + 1]
  BY <1>5, <1>7, AtSource
<1>9. /\ g.role = c.role /\ g.field = c.field /\ g.r = r
      /\ \A k \in DOMAIN g.written :
            \/ k \in DOMAIN c.written /\ g.written[k] = c.written[k]
            \/ k = Len(c.written) + 1 /\ g.written[k] = v
  BY <1>3, <1>5, <1>6 DEF NextOf
<1>10. CallDeep(c, e)'
  BY <1>4, <1>5, CallStill
<1>11. PICK s : s = Source(c)
  OBVIOUS
<1>12. Source(c)' = s /\ Source(g)' = s /\ UnreadableAt' = UnreadableAt
  BY <1>9, <1>11, ShownIsStatic DEF Source, heap, IsObject
<1>13. ASSUME NEW k \in DOMAIN g.written
       PROVE  /\ g.written[k] = Val(s[k], r)
              /\ s[k] \notin UnreadableAt[r]
              /\ \A b \in Addr : g.written[k] = Ref(b) => e[b] = r
  <2>1. CASE k \in DOMAIN c.written /\ g.written[k] = c.written[k]
    BY <1>5, <1>10, <1>12, <2>1 DEF CallDeep, Val
  <2>2. CASE k = Len(c.written) + 1 /\ g.written[k] = v
    BY <1>8, <1>11, <2>2
  <2> QED BY <1>9, <2>1, <2>2
<1>14. IsObject(g) => e[g.field.to] = r + 2
  BY <1>5, <1>9, <1>10 DEF CallDeep, IsObject
<1>15. Doomed(s, r)' => Doomed(event.variables[next], limit - 1)'
  BY <1>5, <1>10, <1>12 DEF CallDeep
<1>16. CallDeep(g, e)'
  BY <1>9, <1>12, <1>13, <1>14, <1>15 DEF CallDeep, IsObject, Val
<1>17. ASSUME NEW i \in DOMAIN t PROVE CallDeep(t[i], e)'
  <2>1. CASE i = n
    <3>1. t[i] = g
      BY <1>2, <1>6, <2>1
    <3> QED BY <1>16, <3>1, Zenon
  <2>2. CASE i < n
    <3>1. i \in DOMAIN stack /\ t[i] = stack[i]
      BY <1>3, <2>2
    <3>2. PICK h : h = stack[i]
      OBVIOUS
    <3>3. CallDeep(h, e)'
      BY <3>1, <3>2, CallStill
    <3>4. t[i] = h
      BY <1>2, <3>1, <3>2
    <3> QED BY <3>3, <3>4, Zenon
  <2> QED BY <1>3, <1>4, <2>1, <2>2
<1>18. ASSUME NEW i \in DOMAIN t
       PROVE  /\ i = 1 => t[i].r = limit - 1
              /\ i + 1 \in DOMAIN t => t[i].r = t[i + 1].r + 2
  <2>1. /\ i = 1 => stack[i].r = limit - 1
        /\ i + 1 \in DOMAIN stack => stack[i].r = stack[i + 1].r + 2
    BY <1>3 DEF CallsDeep, Limited
  <2>2. i + 1 \in DOMAIN t => i + 1 \in DOMAIN stack /\ t[i + 1].r = stack[i + 1].r
    BY <1>3
  <2> QED BY <1>3, <2>1, <2>2
<1>19. Limited'
  BY <1>2, <1>18 DEF Limited
<1>20. \A i \in DOMAIN t : CallDeep(t[i], e)'
  BY <1>17
<1> QED BY <1>2, <1>19, <1>20 DEF CallsDeep

\* A call is put on top for what is met.
LEMMA PushedDeep ==
    ASSUME Inv, MemInv, Tree, NEW d \in Depths, CallsDeep(d), NEW n, NEW c, Pushed(n, c),
           n = Len(stack), n \in DOMAIN stack, stack[n].todo # <<>>,
           NEW e, \A a \in Addr : Allocated(a) => e[a] = d[a],
           event' = event, limit' = limit, next' = next,
           NEW f \in Pointers, f = stack[n].todo[1], NEW r, r = stack[n].r, r > 1,
           IsObject(c), c.field = f, c.r = r - 2, e[f.to] = r
    PROVE  CallsDeep(e)'
<1>1. StackInv
  BY InvParts
<1>2. PICK t : t = stack'
  OBVIOUS
<1>3. /\ stack \in Seq(Calls) /\ DOMAIN stack = 1 .. Len(stack) /\ n \in Nat /\ n <= Len(stack)
      /\ t \in Seq(Calls) /\ Len(t) = n + 1 /\ DOMAIN t = 1 .. n + 1
      /\ \A i \in 1 .. n : i \in DOMAIN stack /\ t[i] = stack[i]
      /\ t[n + 1] = c
      /\ \A i \in 1 .. n + 1 : i \in 1 .. n \/ i = n + 1
  BY <1>1, <1>2, PushedFacts
<1>4. PICK g : g = stack[n]
  OBVIOUS
<1>5. g \in Calls /\ CallFollows(g) /\ Source(g) \in Seq(Fields) /\ r \in 0 .. limit /\ r - 2 + 2 = r
  BY <1>4, LimitIs
<1>6. Len(g.written) + 1 \in DOMAIN Source(g) /\ f = Source(g)[Len(g.written) + 1] /\ f \in Fields
  BY <1>4, <1>5, AtSource, FieldKinds
<1>7. Source(c) = heap[f.to]
  BY DEF Source, IsObject
<1>8. Doomed(Source(c), c.r) => Doomed(event.variables[next], limit - 1)
  <2>1. limit \in Nat
    BY LimitFacts DEF Inv
  <2>2. r > 0
    BY <1>5
  <2>3. Doomed(Source(c), c.r) => f \in UnreadableAt[r]
    BY <1>5, <1>6, <1>7, <2>1, <2>2, UnreadableIs
  <2>4. f \in UnreadableAt[r] => Doomed(Source(g), g.r)
    BY <1>4, <1>6 DEF Doomed
  <2>5. Doomed(Source(g), g.r) => Doomed(event.variables[next], limit - 1)
    BY <1>4 DEF CallsDeep, CallDeep
  <2> QED BY <2>3, <2>4, <2>5
<1>9. PICK s : s = Source(c)
  OBVIOUS
<1>10. Source(c)' = s /\ UnreadableAt' = UnreadableAt
  BY <1>9, ShownIsStatic DEF Source, heap, IsObject
<1>11. Doomed(s, c.r)' => Doomed(event.variables[next], limit - 1)'
  BY <1>8, <1>9, <1>10 DEF Doomed
<1>12. c.written = <<>>
  BY DEF Pushed
<1>13. CallDeep(c, e)'
  BY <1>5, <1>10, <1>11, <1>12 DEF CallDeep, IsObject
<1>14. ASSUME NEW i \in DOMAIN t PROVE CallDeep(t[i], e)'
  <2>1. CASE i = n + 1
    <3>1. t[i] = c
      BY <1>3, <2>1
    <3> QED BY <1>13, <3>1, Zenon
  <2>2. CASE i \in 1 .. n
    <3>1. i \in DOMAIN stack /\ t[i] = stack[i]
      BY <1>3, <2>2
    <3>2. PICK h : h = stack[i]
      OBVIOUS
    <3>3. CallDeep(h, e)'
      BY <3>1, <3>2, CallStill
    <3>4. t[i] = h
      BY <3>1, <3>2
    <3> QED BY <3>3, <3>4, Zenon
  <2> QED BY <1>3, <2>1, <2>2
<1>15. ASSUME NEW i \in DOMAIN t
       PROVE  /\ i = 1 => t[i].r = limit - 1
              /\ i + 1 \in DOMAIN t => t[i].r = t[i + 1].r + 2
  <2>1. CASE i = n + 1
    <3>1. i # 1 /\ i + 1 \notin DOMAIN t
      BY <1>3, <2>1
    <3> QED BY <3>1
  <2>2. CASE i = n
    <3>1. i \in DOMAIN stack /\ t[i] = stack[i] /\ t[i + 1].r + 2 = r
      BY <1>3, <1>5, <2>2
    <3> QED BY <2>2, <3>1 DEF CallsDeep, Limited
  <2>3. CASE i \in 1 .. n /\ i # n
    <3>1. i \in DOMAIN stack /\ t[i] = stack[i] /\ i + 1 \in DOMAIN stack /\ t[i + 1] = stack[i + 1]
      BY <1>3, <2>3
    <3> QED BY <3>1 DEF CallsDeep, Limited
  <2> QED BY <1>3, <2>1, <2>2, <2>3
<1>16. Limited'
  BY <1>2, <1>15 DEF Limited
<1>17. \A i \in DOMAIN t : CallDeep(t[i], e)'
  BY <1>14
<1> QED BY <1>2, <1>16, <1>17 DEF CallsDeep

\* A call that is over has written all of its fields.
LEMMA WrittenWhole ==
    ASSUME Inv, MemInv, Tree, NEW d \in Depths, CallsDeep(d), NEW i \in DOMAIN stack,
           NEW c, c = stack[i], c.todo = <<>>, NEW s, s = Source(c)
    PROVE  /\ c.written = [k \in DOMAIN s |-> Val(s[k], c.r)]
           /\ ~Doomed(s, c.r)
           /\ Leads(s, c.r, d)
<1>1. /\ c \in Calls /\ CallFollows(c) /\ CallDeep(c, d) /\ s \in Seq(Fields) /\ c.r \in 0 .. limit
  BY LimitIs
<1>2. PICK w \in Seq(WrittenField) : w = c.written
  BY <1>1 DEF Calls
<1>3. Len(w) = Len(s)
  BY <1>1, <1>2 DEF CallFollows
<1>4. DOMAIN w = DOMAIN s
  BY <1>1, <1>2, <1>3
<1>5. \A k \in DOMAIN s : /\ w[k] = Val(s[k], c.r) /\ s[k] \notin UnreadableAt[c.r]
                          /\ \A b \in Addr : w[k] = Ref(b) => d[b] = c.r
  BY <1>1, <1>2, <1>4 DEF CallDeep
<1>6. w = [k \in DOMAIN s |-> Val(s[k], c.r)]
  <2>1. w = [k \in DOMAIN w |-> w[k]]
    BY <1>2
  <2> QED BY <1>4, <1>5, <2>1
<1>7. ~Doomed(s, c.r)
  BY <1>5 DEF Doomed
<1>8. ASSUME c.r > 0, NEW b \in Addr, PointsTo(s, b) # {}
      PROVE  Allocated(b) /\ d[b] = c.r
  <2>1. PICK k \in DOMAIN s : s[k] \in Pointers /\ s[k].to = b
    BY <1>8 DEF PointsTo, To
  <2>2. c.r # 0
    BY <1>1, <1>8
  <2>3. w[k] = Ref(b)
    BY <1>5, <2>1, <2>2 DEF Val
  <2>4. RefersFrom(stack[i].written, b)
    BY <1>2, <1>4, <2>1, <2>3 DEF RefersFrom
  <2>5. Allocated(b)
    BY <2>4 DEF Inv, RefsAllocated
  <2> QED BY <1>5, <2>1, <2>3, <2>5
<1> QED BY <1>2, <1>6, <1>7, <1>8 DEF Leads

LEMMA OutStill ==
    ASSUME NEW d, NEW e, \A a \in Addr : Allocated(a) => e[a] = d[a], StillAllocated,
           event' = event, limit' = limit, OutDeep(d)
    PROVE  /\ \A i, v : ValueDeep(i, v, d) => ValueDeep(i, v, e)'
           /\ out' = out => OutDeep(e)'
<1>1. /\ \A s, r : Leads(s, r, d) => Leads(s, r, e)'
      /\ \A v : DeepEnv(v, d) => DeepEnv(v, e)'
      /\ \A s, r : Doomed(s, r)' <=> Doomed(s, r)
  BY DeepStill, TreeStatic
<1>2. ASSUME NEW i, NEW v, ValueDeep(i, v, d) PROVE ValueDeep(i, v, e)'
  <2>1. PICK s : s = event.variables[i]
    OBVIOUS
  <2>2. PICK r : r = limit - 1
    OBVIOUS
  <2>3. /\ i \in DOMAIN event.variables
        /\ Doomed(s, r) => v = Opaque
        /\ ~Doomed(s, r) => v = Struct([k \in DOMAIN s |-> Val(s[k], r)]) /\ Leads(s, r, d)
    BY <1>2, <2>1, <2>2 DEF ValueDeep
  <2>4. /\ Doomed(s, r)' => v = Opaque
        /\ ~Doomed(s, r)' => v = Struct([k \in DOMAIN s |-> Val(s[k], r)]) /\ Leads(s, r, e)'
    BY <1>1, <2>3
  <2>5. event.variables[i]' = s /\ (limit - 1)' = r
    BY <2>1, <2>2
  <2> QED BY <2>3, <2>4, <2>5 DEF ValueDeep, Val
<1>3. ASSUME out' = out PROVE OutDeep(e)'
  <2>1. PICK o : o = out
    OBVIOUS
  <2>2. \A i \in DOMAIN o : DeepEnv(o[i].env, d) /\ ValueDeep(i, o[i].value, d)
    BY <2>1 DEF OutDeep
  <2>3. \A i \in DOMAIN o : DeepEnv(o[i].env, e)' /\ ValueDeep(i, o[i].value, e)'
    BY <1>1, <1>2, <2>2
  <2>4. out' = o
    BY <1>3, <2>1
  <2> QED BY <2>3, <2>4 DEF OutDeep, DeepEnv, ValueDeep, Obj, Leads, heap, Doomed, Val
<1> QED BY <1>2, <1>3

\* The bytes of a variable are appended.
LEMMA OutAppended ==
    ASSUME NEW d, StillAllocated, event' = event, limit' = limit, OutDeep(d), out \in Seq(Bytes),
           NEW o \in Bytes, out' = Append(out, o), DeepEnv(o.env, d), ValueDeep(Len(out) + 1, o.value, d)
    PROVE  OutDeep(d)'
<1>1. /\ \A i, v : ValueDeep(i, v, d) => ValueDeep(i, v, d)'
      /\ \A v : DeepEnv(v, d) => DeepEnv(v, d)'
  BY DeepStill, OutStill
<1>2. PICK t : t = out'
  OBVIOUS
<1>3. PICK n \in Nat : n = Len(out)
  OBVIOUS
<1>4. /\ DOMAIN out = 1 .. n /\ DOMAIN t = 1 .. n + 1 /\ t[n + 1] = o /\ \A i \in 1 .. n : t[i] = out[i]
      /\ \A i \in 1 .. n + 1 : i \in 1 .. n \/ i = n + 1
  BY <1>2, <1>3
<1>5. ASSUME NEW i \in DOMAIN t PROVE DeepEnv(t[i].env, d) /\ ValueDeep(i, t[i].value, d)
  <2>1. CASE i \in 1 .. n
    BY <1>4, <2>1 DEF OutDeep
  <2>2. CASE i = n + 1
    BY <1>3, <1>4, <2>2
  <2> QED BY <1>4, <2>1, <2>2
<1>6. \A i \in DOMAIN t : DeepEnv(t[i].env, d)' /\ ValueDeep(i, t[i].value, d)'
  BY <1>1, <1>5
<1> QED BY <1>2, <1>6 DEF OutDeep, DeepEnv, ValueDeep, Obj, Leads, heap, Doomed, Val

LEMMA DeepCarried ==
    ASSUME NEW d \in Depths, NEW v, v = env', DeepEnv(v, d)'
    PROVE  DeepEnv(env, d)'
  BY DEF DeepEnv, Obj, Leads, heap, Val

\* The steps that leave the limits of the objects as they are.
LEMMA FieldDeep ==
    ASSUME Inv, MemInv, Tree, NEW d \in Depths, WrittenDeep(d), FieldStep
    PROVE  WrittenDeep(d)'
<1>1. /\ stack # <<>> /\ event' = event /\ limit' = limit /\ next' = next /\ out' = out
      /\ order' = order /\ env' = env /\ CallsDeep(d) /\ DeepEnv(env, d) /\ OutDeep(d)
  BY DEF FieldStep, Same, WrittenDeep
<1>2. StillAllocated
  BY <1>1 DEF StillAllocated, Allocated
<1>3. PICK n : n = Len(stack)
  OBVIOUS
<1>4. StackInv /\ limit \in Nat
  BY InvParts, LimitFacts DEF Inv
<1>5. n \in DOMAIN stack /\ Top = stack[n]
  BY <1>1, <1>3, <1>4, TopFacts
<1>6. /\ stack[n].r \in 0 .. limit /\ stack[n] \in Calls
  BY <1>1, <1>5, LimitIs
<1>7. PICK r : r = stack[n].r
  OBVIOUS
<1>8. PICK f : f = stack[n].todo[1]
  OBVIOUS
<1>9. PICK v \in {Plain, Opaque} :
        /\ Handed(n, v)
        /\ \/ r = 0 /\ v = Opaque
           \/ r > 0 /\ f = PlainField /\ v = Plain
  BY <1>3, <1>5, <1>7, <1>8 DEF FieldStep
<1>10. f \in Fields
  <2>1. stack[n].todo \in Seq(Fields) /\ 1 \in DOMAIN stack[n].todo
    BY <1>4, <1>6, <1>9, HandedFacts DEF Calls
  <2> QED BY <1>8, <2>1
<1>11. v = Val(f, r) /\ f \notin UnreadableAt[r]
  <2>1. CASE r = 0 /\ v = Opaque
    BY <1>4, <1>6, <1>7, <1>10, <2>1, UnreadableIs DEF Val
  <2>2. CASE r > 0 /\ f = PlainField /\ v = Plain
    BY <1>4, <1>6, <1>7, <1>10, <2>2, UnreadableIs, FieldKinds DEF Val
  <2> QED BY <1>9, <2>1, <2>2
<1>12. \A b \in Addr : v # Ref(b)
  BY <1>9, NoReference
<1>13. CallsDeep(d)'
  BY <1>1, <1>7, <1>8, <1>9, <1>11, <1>12, HandedDeep
<1>14. DeepEnv(env, d)'
  <2>1. PICK v1 : v1 = env
    OBVIOUS
  <2>2. DeepEnv(v1, d)'
    BY <1>1, <1>2, <2>1, DeepStill
  <2> QED BY <1>1, <2>1, <2>2, DeepCarried
<1>15. OutDeep(d)'
  BY <1>1, <1>2, OutStill
<1> QED BY <1>13, <1>14, <1>15 DEF WrittenDeep

LEMMA SetDeep ==
    ASSUME Inv, MemInv, Tree, NEW d \in Depths, WrittenDeep(d), SetStep
    PROVE  WrittenDeep(d)'
<1>1. /\ stack # <<>> /\ event' = event /\ limit' = limit /\ next' = next /\ out' = out
      /\ order' = order /\ CallsDeep(d) /\ DeepEnv(env, d) /\ OutDeep(d) /\ IsObject(Top) /\ Top.todo = <<>>
  BY DEF SetStep, Same, WrittenDeep
<1>2. StillAllocated
  BY <1>1 DEF StillAllocated, Allocated
<1>3. PICK n : n = Len(stack)
  OBVIOUS
<1>4. StackInv /\ EnvInv /\ env \in Env /\ limit \in Nat
  BY InvParts, LimitFacts DEF Inv, EnvInv
<1>5. n \in DOMAIN stack /\ Top = stack[n] /\ n \in Nat /\ DOMAIN stack = 1 .. n /\ Top.role # "variable"
  BY <1>1, <1>3, <1>4, TopFacts DEF IsObject
<1>6. PICK c : c = stack[n]
  OBVIOUS
<1>7. PICK x : x = c.field.to
  OBVIOUS
<1>8. PICK m : m = n - 1
  OBVIOUS
<1>9. /\ m \in DOMAIN stack /\ stack[m].todo[1] = c.field
  BY <1>1, <1>3, <1>5, <1>6, <1>8, ResultFollows
<1>10. PICK r : r = stack[m].r
  OBVIOUS
<1>11. /\ c \in Calls /\ CallDeep(c, d) /\ c.r \in Nat /\ Source(c) = heap[x]
       /\ c.field \in Pointers /\ x \in Addr /\ Allocated(x) /\ d[x] = c.r + 2
  <2>1. /\ c \in Calls /\ CallDeep(c, d) /\ c.r \in 0 .. limit /\ Source(c) = heap[x]
        /\ c.field \in Pointers /\ x \in Addr /\ Allocated(x)
    BY <1>1, <1>5, <1>6, <1>7, LimitIs
  <2>2. d[x] = c.r + 2
    BY <1>1, <1>5, <1>6, <1>7, <2>1 DEF CallDeep
  <2> QED BY <2>1, <2>2
<1>12. r = c.r + 2
  <2>1. m + 1 \in DOMAIN stack /\ m + 1 = n
    BY <1>5, <1>8
  <2> QED BY <1>1, <1>6, <1>9, <1>10, <2>1 DEF CallsDeep, Limited
<1>13. r \in 0 .. limit
  BY <1>1, <1>9, <1>10, LimitIs
<1>14. PICK s : s = heap[x]
  OBVIOUS
<1>15. /\ c.written = [k \in DOMAIN s |-> Val(s[k], c.r)]
       /\ ~Doomed(s, c.r)
       /\ Leads(s, c.r, d)
  BY <1>1, <1>5, <1>6, <1>11, <1>14, WrittenWhole
<1>16. Handed(m, Ref(x)) /\ env' = [env EXCEPT ![x] = Struct(c.written)]
  BY <1>3, <1>5, <1>6, <1>7, <1>8 DEF SetStep
<1>17. r # 0 /\ r > 1 /\ r - 2 = c.r /\ r \in 1 .. limit /\ r # 1
  BY <1>11, <1>12, <1>13
<1>18. c.field \notin UnreadableAt[r]
  BY <1>4, <1>7, <1>11, <1>13, <1>14, <1>15, <1>17, UnreadableIs, FieldKinds
<1>19. Ref(x) = Val(c.field, r)
  BY <1>7, <1>11, <1>17 DEF Val
<1>20. \A b \in Addr : Ref(x) = Ref(b) => d[b] = r
  BY <1>11, <1>12, RefIs
<1>21. CallsDeep(d)'
  BY <1>1, <1>9, <1>10, <1>16, <1>18, <1>19, <1>20, HandedDeep
<1>22. PICK v : v = env'
  OBVIOUS
<1>23. v[x] = Struct(c.written) /\ \A b \in Addr : b # x => v[b] = env[b]
  <2>1. Struct(c.written) \in WrittenValue
    <3>1. c.written \in Seq(WrittenField)
      BY <1>11 DEF Calls
    <3> QED BY <3>1 DEF Struct, WrittenValue
  <2> QED BY <1>4, <1>11, <1>16, <1>22, <2>1, SetEnv
<1>24. DeepEnv(v, d)
  <2>1. Struct(c.written) = Obj(x, r)
    BY <1>14, <1>15, <1>17 DEF Obj
  <2>2. Leads(heap[x], r - 2, d)
    BY <1>14, <1>15, <1>17
  <2>3. d[x] = r
    BY <1>11, <1>12
  <2> QED BY <1>1, <1>11, <1>17, <1>23, <2>1, <2>2, <2>3 DEF DeepEnv
<1>25. DeepEnv(v, d)'
  BY <1>1, <1>2, <1>24, DeepStill
<1>26. DeepEnv(env, d)'
  BY <1>22, <1>25, DeepCarried
<1>27. OutDeep(d)'
  BY <1>1, <1>2, OutStill
<1> QED BY <1>21, <1>26, <1>27 DEF WrittenDeep

LEMMA BeginVariableDeep ==
    ASSUME Inv, MemInv, Tree, NEW d \in Depths, WrittenDeep(d), BeginVariable
    PROVE  WrittenDeep(d)'
<1>1. PICK c : c = Call("variable", PlainField, event.variables[next], limit - 1)
  OBVIOUS
<1>2. /\ stack' = <<c>> /\ event' = event /\ limit' = limit /\ next' = next /\ order' = order /\ env' = env
      /\ out' = out /\ CallsDeep(d) /\ DeepEnv(env, d) /\ OutDeep(d)
      /\ c.role = "variable" /\ c.written = <<>> /\ c.r = limit - 1
  BY <1>1 DEF BeginVariable, Writing, Call, WrittenDeep
<1>3. DOMAIN stack' = {1} /\ stack'[1] = c
  BY <1>2
<1>4. StillAllocated
  BY <1>2 DEF StillAllocated, Allocated
<1>5. Limited'
  BY <1>2, <1>3 DEF Limited
<1>6. CallDeep(c, d)'
  BY <1>2 DEF CallDeep, IsObject, Source
<1>7. CallsDeep(d)'
  BY <1>3, <1>5, <1>6 DEF CallsDeep, CallDeep, Source, IsObject, Doomed, Val, heap
<1>8. DeepEnv(env, d)'
  <2>1. PICK v1 : v1 = env
    OBVIOUS
  <2>2. DeepEnv(v1, d)'
    BY <1>2, <1>4, <2>1, DeepStill
  <2> QED BY <1>2, <2>1, <2>2, DeepCarried
<1>9. OutDeep(d)'
  BY <1>2, <1>4, OutStill
<1> QED BY <1>7, <1>8, <1>9 DEF WrittenDeep

\* A field that cannot be read: so cannot the variable.
LEMMA FailDeep ==
    ASSUME Inv, MemInv, Tree, Len(out) = next - 1, NEW d \in Depths, WrittenDeep(d), FailStep
    PROVE  WrittenDeep(d)' /\ Len(out)' = next' - 1
<1>1. PICK o : o = [keys |-> <<>>, env |-> NoEnv, value |-> Opaque]
  OBVIOUS
<1>2. /\ out' = Append(out, o) /\ env' = env /\ order' = order /\ stack' = <<>> /\ event' = event
      /\ limit' = limit /\ next' = next + 1 /\ CallsDeep(d) /\ DeepEnv(env, d) /\ OutDeep(d)
      /\ stack # <<>> /\ Top.todo # <<>> /\ BadField = Head(Top.todo) /\ Top.r > 0
  BY <1>1 DEF FailStep, Writing, WrittenDeep, AtField
<1>3. StackInv /\ limit \in Nat /\ out \in Seq(Bytes)
  BY InvParts, LimitFacts DEF Inv, Static
<1>4. NoEnv \in Env
  BY DEF NoEnv, Env
<1>5. o \in Bytes /\ o.env = NoEnv /\ o.value = Opaque
  BY <1>1, <1>4 DEF Bytes, WrittenValue
<1>6. StillAllocated
  BY <1>2 DEF StillAllocated, Allocated
<1>7. PICK n : n = Len(stack)
  OBVIOUS
<1>8. n \in DOMAIN stack /\ Top = stack[n] /\ Top.todo \in Seq(Fields)
  BY <1>2, <1>3, <1>7, TopFacts
<1>9. PICK c : c = stack[n]
  OBVIOUS
<1>10. /\ c \in Calls /\ CallFollows(c) /\ CallDeep(c, d) /\ c.r \in 0 .. limit /\ Source(c) \in Seq(Fields)
       /\ c.todo # <<>> /\ c.todo[1] = BadField /\ c.r > 0
  BY <1>2, <1>8, <1>9, LimitIs
<1>11. BadField \in UnreadableAt[c.r]
  BY <1>3, <1>10, UnreadableIs, FieldKinds
<1>12. Doomed(Source(c), c.r)
  BY <1>10, <1>11, AtSource DEF Doomed
<1>13. Doomed(event.variables[next], limit - 1)
  BY <1>10, <1>12 DEF CallDeep
<1>14. next \in DOMAIN event.variables /\ Len(out) + 1 = next
  BY <1>2 DEF Inv, TypeOK, Busy
<1>15. ValueDeep(Len(out) + 1, o.value, d)
  BY <1>5, <1>13, <1>14 DEF ValueDeep
<1>16. DeepEnv(o.env, d)
  BY <1>5 DEF DeepEnv, NoEnv
<1>17. OutDeep(d)'
  BY <1>2, <1>3, <1>5, <1>6, <1>15, <1>16, OutAppended
<1>18. CallsDeep(d)'
  BY <1>2 DEF CallsDeep, Limited
<1>19. DeepEnv(env, d)'
  <2>1. PICK v1 : v1 = env
    OBVIOUS
  <2>2. DeepEnv(v1, d)'
    BY <1>2, <1>6, <2>1, DeepStill
  <2> QED BY <1>2, <2>1, <2>2, DeepCarried
<1>20. Len(out)' = next' - 1
  BY <1>2, <1>3, <1>5, <1>14, OutGrows DEF Inv, TypeOK
<1> QED BY <1>17, <1>18, <1>19, <1>20 DEF WrittenDeep

LEMMA EndDeep ==
    ASSUME Inv, MemInv, Tree, Len(out) = next - 1, NEW d \in Depths, WrittenDeep(d), VariableWritten
    PROVE  WrittenDeep(d)' /\ Len(out)' = next' - 1
<1>1. PICK n : n = Len(stack)
  OBVIOUS
<1>2. PICK c : c = stack[n]
  OBVIOUS
<1>3. PICK o : o = [keys |-> EmitOrder, env |-> env, value |-> Struct(c.written)]
  OBVIOUS
<1>4. StackInv /\ EnvInv /\ OrderOK /\ env \in Env /\ limit \in Nat /\ out \in Seq(Bytes)
  BY InvParts, LimitFacts DEF Inv, Static, EnvInv
<1>5. stack # <<>> /\ n \in DOMAIN stack /\ Top = c /\ c \in Calls
  <2>1. stack # <<>>
    BY DEF VariableWritten
  <2> QED BY <1>1, <1>2, <1>4, <2>1, TopFacts
<1>6. /\ out' = Append(out, o) /\ env' = NoEnv /\ order' = order /\ stack' = <<>> /\ event' = event
      /\ limit' = limit /\ next' = next + 1 /\ CallsDeep(d) /\ DeepEnv(env, d) /\ OutDeep(d)
      /\ c.role = "variable" /\ c.todo = <<>>
  BY <1>3, <1>5 DEF VariableWritten, Writing, WrittenDeep
<1>7. StillAllocated
  BY <1>6 DEF StillAllocated, Allocated
<1>8. o \in Bytes /\ o.env = env /\ o.value = Struct(c.written)
  <2>1. Struct(c.written) \in WrittenValue
    <3>1. c.written \in Seq(WrittenField)
      BY <1>5 DEF Calls
    <3> QED BY <3>1 DEF Struct, WrittenValue
  <2>2. EmitOrder \in Seq(Addr)
    BY <1>4, EmittedOrder
  <2> QED BY <1>3, <1>4, <2>1, <2>2 DEF Bytes
<1>9. PICK s : s = event.variables[next]
  OBVIOUS
<1>10. n = 1 /\ Source(c) = s
  BY <1>2, <1>5, <1>6, <1>9 DEF Inv, StackOK, Source
<1>11. c.r = limit - 1
  BY <1>2, <1>5, <1>6, <1>10 DEF CallsDeep, Limited
<1>12. /\ c.written = [k \in DOMAIN s |-> Val(s[k], limit - 1)]
       /\ ~Doomed(s, limit - 1)
       /\ Leads(s, limit - 1, d)
  BY <1>2, <1>5, <1>6, <1>10, <1>11, WrittenWhole
<1>13. next \in DOMAIN event.variables /\ Len(out) + 1 = next
  BY <1>5 DEF Inv, TypeOK, Busy
<1>14. ValueDeep(Len(out) + 1, o.value, d)
  BY <1>8, <1>9, <1>12, <1>13 DEF ValueDeep
<1>15. OutDeep(d)'
  BY <1>4, <1>6, <1>7, <1>8, <1>14, OutAppended
<1>16. CallsDeep(d)'
  BY <1>6 DEF CallsDeep, Limited
<1>17. DeepEnv(env, d)'
  BY <1>6 DEF DeepEnv, NoEnv
<1>18. Len(out)' = next' - 1
  BY <1>4, <1>6, <1>8, <1>13, OutGrows DEF Inv, TypeOK
<1> QED BY <1>15, <1>16, <1>17, <1>18 DEF WrittenDeep

\* A new object is written with the limit of its pointer.
LEMMA FollowDeep ==
    ASSUME Inv, MemInv, Tree, NEW d \in Depths, WrittenDeep(d), NEW f \in Pointers,
           CutStep(f) \/ BeginStep(f), f.to \in Addr, ~Allocated(f.to)
    PROVE  \E e \in Depths : WrittenDeep(e)'
<1>1. PICK n : n = Len(stack)
  OBVIOUS
<1>2. PICK x \in Addr : x = f.to
  OBVIOUS
<1>3. PICK r : r = Top.r
  OBVIOUS
<1>4. /\ FollowStep(f) /\ stack # <<>> /\ Top.todo # <<>> /\ f = Top.todo[1] /\ r > 0 /\ AllocEnv(x)
      /\ event' = event /\ limit' = limit /\ next' = next /\ out' = out
      /\ CallsDeep(d) /\ DeepEnv(env, d) /\ OutDeep(d)
  BY <1>2, <1>3 DEF CutStep, BeginStep, FollowStep, Same, WrittenDeep
<1>5. StackInv /\ EnvInv /\ env \in Env /\ limit \in Nat /\ limit > 0
  BY InvParts, LimitFacts DEF Inv, EnvInv
<1>6. StillAllocated /\ Allocated(x)'
  BY <1>4, <1>5, AllocKeeps
<1>7. n \in DOMAIN stack /\ Top = stack[n]
  BY <1>1, <1>4, <1>5, TopFacts
<1>8. r \in 0 .. limit
  BY <1>3, <1>4, <1>7, LimitIs
<1>9. PICK e : e = [d EXCEPT ![x] = r]
  OBVIOUS
<1>10. e \in Depths /\ e[x] = r /\ \A a \in Addr : Allocated(a) => e[a] = d[a]
  <2>1. \A a \in Addr : Allocated(a) => a # x
    BY <1>2
  <2> QED BY <1>8, <1>9, <2>1 DEF Depths
<1>11. OutDeep(e)'
  BY <1>4, <1>6, <1>10, OutStill
<1>12. PICK v : v = env
  OBVIOUS
<1>13. DeepEnv(v, e)'
  BY <1>4, <1>6, <1>10, <1>12, DeepStill
<1>14. CASE CutStep(f)
  <2>1. r = 1 /\ Handed(n, Ref(x)) /\ env' = [env EXCEPT ![x] = Opaque]
    BY <1>1, <1>2, <1>3, <1>14 DEF CutStep
  <2>2. Ref(x) = Val(f, r)
    BY <1>2, <2>1 DEF Val
  <2>3. f \notin UnreadableAt[r]
    BY <1>5, <1>8, <2>1, UnreadableIs, FieldKinds
  <2>4. \A b \in Addr : Ref(x) = Ref(b) => e[b] = r
    BY <1>10, RefIs
  <2>5. CallsDeep(e)'
    BY <1>3, <1>4, <1>7, <1>10, <2>1, <2>2, <2>3, <2>4, HandedDeep
  <2>6. PICK w : w = env'
    OBVIOUS
  <2>7. w[x] = Opaque /\ \A b \in Addr : b # x => w[b] = v[b]
    <3>1. Opaque \in WrittenValue
      BY DEF WrittenValue
    <3> QED BY <1>5, <1>12, <2>1, <2>6, <3>1, SetEnv
  <2>8. Opaque = Obj(x, e[x])' /\ e[x] \in 1 .. limit /\ ~(e[x] > 1)
    BY <1>5, <1>10, <2>1 DEF Obj
  <2>9. DeepEnv(w, e)'
    <3>1. ASSUME NEW a \in Addr, w[a] # None
          PROVE  /\ Allocated(a)' /\ e[a] \in 1 .. limit /\ w[a] = Obj(a, e[a])'
                 /\ e[a] > 1 => Leads(heap[a], e[a] - 2, e)'
      <4>1. CASE a = x
        BY <1>6, <2>7, <2>8, <4>1
      <4>2. CASE a # x
        BY <1>4, <1>13, <2>7, <3>1, <4>2 DEF DeepEnv
      <4> QED BY <4>1, <4>2
    <3> QED BY <1>4, <3>1 DEF DeepEnv
  <2>10. DeepEnv(env, e)'
    BY <1>10, <2>6, <2>9, DeepCarried
  <2> QED BY <1>10, <1>11, <2>5, <2>10 DEF WrittenDeep
<1>15. CASE BeginStep(f)
  <2>1. PICK c : c = Call("pointee", f, heap[f.to], r - 2)
    OBVIOUS
  <2>2. /\ r > 1 /\ Pushed(n, c) /\ env' = env
        /\ IsObject(c) /\ c.field = f /\ c.r = r - 2
    BY <1>1, <1>3, <1>15, <2>1 DEF BeginStep, Call, IsObject
  <2>3. CallsDeep(e)'
    BY <1>1, <1>2, <1>3, <1>4, <1>7, <1>10, <2>2, PushedDeep
  <2>4. DeepEnv(env, e)'
    BY <1>10, <1>12, <1>13, <2>2, DeepCarried
  <2> QED BY <1>10, <1>11, <2>3, <2>4 DEF WrittenDeep
<1> QED BY <1>14, <1>15

LEMMA TreeWriter ==
    ASSUME Inv, MemInv, PathInv, ReaderInv, TreeInv, Static', Write
    PROVE  TreeInv'
<1>1. WriterStep
  BY WriteSteps
<1>2. event' = event /\ limit' = limit
  BY DEF Write, BeginVariable, WriteOpaque, WritePlain, WriteRef, WriteOpt, PointeeWritten, WriteChildren,
         FallBack, GiveUp, FallbackWritten, Fail, VariableWritten, Writing
<1>3. Len(out) = next - 1 /\ out \in Seq(Bytes) /\ next \in Nat
  BY InvParts DEF TreeInv, Static
<1>4. Len(out)' = next' - 1
  <2>1. CASE UNCHANGED <<next, out>>
    BY <1>3, <2>1
  <2>2. CASE \E o \in Bytes : out' = Append(out, o) /\ next' = next + 1
    BY <1>3, <2>2
  <2>3. CASE FailStep
    <3>1. PICK o : o = [keys |-> <<>>, env |-> NoEnv, value |-> Opaque]
      OBVIOUS
    <3>2. o \in Bytes
      BY <3>1 DEF Bytes, WrittenValue, Env, NoEnv
    <3> QED BY <2>2, <2>3, <3>1, <3>2 DEF FailStep
  <2>4. CASE VariableWritten
    <3>1. PICK o : o = [keys |-> EmitOrder, env |-> env, value |-> Struct(Top.written)]
      OBVIOUS
    <3>2. OrderOK /\ env \in Env /\ stack # <<>> /\ StackInv
      BY <2>4, InvParts DEF EnvInv, VariableWritten
    <3>3. EmitOrder \in Seq(Addr)
      BY <3>2, EmittedOrder
    <3>4. Struct(Top.written) \in WrittenValue
      <4>1. Top.written \in Seq(WrittenField)
        BY <3>2, TopFacts
      <4> QED BY <4>1 DEF Struct, WrittenValue
    <3>5. o \in Bytes
      BY <3>1, <3>2, <3>3, <3>4 DEF Bytes
    <3> QED BY <2>2, <2>4, <3>1, <3>5 DEF VariableWritten
  <2> QED BY <1>1, <2>1, <2>3, <2>4 DEF WriterStep, BeginVariable, FieldStep, SetStep, PopStep, RescueStep,
                CutStep, BeginStep, KnownStep, FollowStep, EnumStep, Same
<1>5. ASSUME Tree PROVE \E e \in Depths : WrittenDeep(e)'
  <2>1. PICK d \in Depths : WrittenDeep(d)
    BY <1>5 DEF TreeInv
  <2> QED BY <1>1, <1>3, <1>5, <2>1, TreeSteps, BeginVariableDeep, FieldDeep, SetDeep, FailDeep, EndDeep, FollowDeep
<1>6. ASSUME NEW e PROVE ReadDeep(e)'
  <2>1. values' = <<>> /\ \A b : ~HasRead(b)'
    BY NotYetRead
  <2> QED BY <2>1 DEF ReadDeep
<1>7. Tree' => \E e \in Depths : WrittenDeep(e)' /\ ReadDeep(e)'
  BY <1>2, <1>5, <1>6, RegimeIsStatic
<1>8. Depths' = Depths
  BY <1>2, TreeStatic
<1> QED BY <1>4, <1>7, <1>8 DEF TreeInv

-----------------------------------------------------------------------------
(***************************************************************************)
(* The reader of a tree.                                                   *)
(***************************************************************************)
LEMMA DeepUnchanged ==
    ASSUME NEW d, Written, WrittenDeep(d)
    PROVE  WrittenDeep(d)'
<1>1. UnreadableAt' = UnreadableAt
  BY ShownIsStatic DEF Written
<1>2. StillAllocated
  BY DEF StillAllocated, Allocated, Written
<1>3. OutDeep(d)'
  BY <1>2, OutStill DEF Written, WrittenDeep
<1>4. DeepEnv(env, d)'
  BY DEF DeepEnv, Obj, Leads, heap, Val, Written, WrittenDeep, Allocated
<1>5. CallsDeep(d)'
  BY <1>1 DEF CallsDeep, Limited, CallDeep, Source, IsObject, Doomed, Val, heap, Written, WrittenDeep
<1> QED BY <1>3, <1>4, <1>5 DEF WrittenDeep

\* Fields that are read when what they point to is known.
LEMMA FieldsReadBack ==
    ASSUME limit \in Nat, NEW s \in Seq(Fields), NEW r \in 0 .. limit,
           \A b \in Addr : (r > 0 /\ PointsTo(s, b) # {}) => known[b] = Exp(b, r)
    PROVE  ReadBack(Struct([i \in DOMAIN s |-> Val(s[i], r)])) = Struct([i \in DOMAIN s |-> ShownAt[r][s[i]]])
<1>1. PICK t : t = [i \in DOMAIN s |-> Val(s[i], r)]
  OBVIOUS
<1>2. ASSUME NEW i \in DOMAIN s PROVE Resolve(t[i]) = ShownAt[r][s[i]]
  <2>1. s[i] \in Fields
    OBVIOUS
  <2>2. (r > 0 /\ s[i] \in Pointers) => known[s[i].to] = Exp(s[i].to, r)
    <3>1. s[i] \in Pointers => s[i].to \in Addr /\ PointsTo(s, s[i].to) # {}
      BY DEF Pointers, PointsTo, To
    <3> QED BY <3>1
  <2>3. Resolve(Val(s[i], r)) = ShownAt[r][s[i]]
    BY <2>1, <2>2, ResolvedIsShown
  <2> QED BY <1>1, <2>3
<1>3. ReadBack(Struct(t)) = Struct([i \in DOMAIN t |-> Resolve(t[i])])
  BY DEF ReadBack, Struct
<1>4. DOMAIN t = DOMAIN s
  BY <1>1
<1>5. [i \in DOMAIN t |-> Resolve(t[i])] = [i \in DOMAIN s |-> ShownAt[r][s[i]]]
  BY <1>2, <1>4
<1> QED BY <1>1, <1>3, <1>5

\* What fields that are written lead to is referred to.
LEMMA FieldsRefer ==
    ASSUME NEW s, NEW r, r # 0, NEW b \in Addr, PointsTo(s, b) # {}
    PROVE  Refers(Struct([i \in DOMAIN s |-> Val(s[i], r)]), b)
<1>1. PICK t : t = [i \in DOMAIN s |-> Val(s[i], r)]
  OBVIOUS
<1>2. PICK k \in DOMAIN s : s[k] \in Pointers /\ s[k].to = b
  BY DEF PointsTo, To
<1>3. k \in DOMAIN t /\ t[k] = Ref(b)
  BY <1>1, <1>2 DEF Val
<1>4. RefersFrom(t, b)
  BY <1>3 DEF RefersFrom
<1> QED BY <1>1, <1>4, StructRefers

LEMMA EntryDeep ==
    ASSUME Static, TypeOK, ReaderInv, OutInOrder, NEW d \in Depths, OutDeep(d), ReadDeep(d), ReadEntry
    PROVE  ReadDeep(d)'
<1>1. PICK n : n = Len(values) + 1
  OBVIOUS
<1>2. PICK a : a = out[n].keys[entry + 1]
  OBVIOUS
<1>3. Reads /\ event' = event /\ limit' = limit /\ values' = values
  BY DEF ReadEntry, Reads
<1>4. /\ n \in DOMAIN out /\ Current = out[n] /\ out[n].keys \in Seq(Addr) /\ out[n].env \in Env
      /\ entry \in Nat
  BY <1>1, <1>3, ReadsFacts DEF Static
<1>5. PICK k : k = known'
  OBVIOUS
<1>6. /\ entry < Len(out[n].keys)
      /\ k = IF out[n].env[a] = None THEN known ELSE [known EXCEPT ![a] = ReadBack(out[n].env[a])]
  BY <1>2, <1>4, <1>5 DEF ReadEntry
<1>7. entry + 1 \in DOMAIN out[n].keys /\ a \in Addr
  BY <1>2, <1>4, <1>6
<1>8. /\ \A b \in Addr : b # a => k[b] = known[b]
      /\ out[n].env[a] = None => k[a] = known[a]
      /\ out[n].env[a] # None => k[a] = ReadBack(out[n].env[a])
  BY <1>6, <1>7 DEF ReaderInv
<1>9. limit \in Nat /\ limit > 0
  BY LimitFacts
<1>10. ASSUME out[n].env[a] # None PROVE k[a] = Exp(a, d[a])
  <2>1. /\ d[a] \in 1 .. limit /\ out[n].env[a] = Obj(a, d[a])
        /\ d[a] > 1 => Leads(heap[a], d[a] - 2, d)
    BY <1>4, <1>7, <1>10 DEF OutDeep, DeepEnv
  <2>2. CASE d[a] = 1
    BY <1>8, <1>10, <2>1, <2>2 DEF Obj, Exp, ReadBack, Opaque
  <2>3. CASE d[a] # 1
    <3>1. PICK r \in 0 .. limit : r = d[a] - 2
      BY <1>9, <2>1, <2>3
    <3>2. PICK s \in Seq(Fields) : s = heap[a]
      BY <1>7 DEF TypeOK, heap
    <3>3. out[n].env[a] = Struct([i \in DOMAIN s |-> Val(s[i], r)])
      BY <2>1, <2>3, <3>1, <3>2 DEF Obj
    <3>4. ASSUME NEW b \in Addr, r > 0, PointsTo(s, b) # {} PROVE known[b] = Exp(b, r)
      <4>1. r # 0
        BY <3>1, <3>4
      <4>2. Refers(out[n].env[a], b)
        BY <3>3, <3>4, <4>1, FieldsRefer
      <4>3. HasRead(b)
        BY <1>1, <1>2, <1>3, <1>7, <4>2, ReferredIsRead
      <4>4. d[a] > 1
        BY <2>1, <2>3
      <4>5. d[b] = r
        BY <2>1, <3>1, <3>2, <3>4, <4>4 DEF Leads
      <4> QED BY <4>3, <4>5 DEF ReadDeep
    <3>5. ReadBack(out[n].env[a]) = Struct([i \in DOMAIN s |-> ShownAt[r][s[i]]])
      BY <1>9, <3>3, <3>4, FieldsReadBack
    <3>6. Exp(a, d[a]) = Struct([i \in DOMAIN s |-> ShownAt[r][s[i]]])
      BY <2>3, <3>1, <3>2 DEF Exp
    <3> QED BY <1>8, <1>10, <3>5, <3>6
  <2> QED BY <2>2, <2>3
<1>11. ASSUME NEW b \in Addr, HasRead(b)' PROVE k[b] = Exp(b, d[b])
  <2>1. HasRead(b) \/ (b = a /\ out[n].env[a] # None)
    BY <1>1, <1>2, <1>11, EntryIsRead
  <2> QED BY <1>8, <1>10, <2>1 DEF ReadDeep
<1>12. \A b, r : Exp(b, r)' = Exp(b, r)
  BY <1>3, TreeStatic
<1>13. \A s : Expected(s)' = Expected(s)
  BY <1>3, TreeStatic
<1> QED BY <1>3, <1>5, <1>11, <1>12, <1>13 DEF ReadDeep

LEMMA ValueIsDeep ==
    ASSUME Static, TypeOK, ReaderInv, OutInOrder, NEW d \in Depths, OutDeep(d), ReadDeep(d), ReadValue
    PROVE  ReadDeep(d)'
<1>1. PICK n : n = Len(values) + 1
  OBVIOUS
<1>2. PICK v : v = ReadBack(out[n].value)
  OBVIOUS
<1>3. Reads /\ event' = event /\ limit' = limit /\ known' = known
  BY DEF ReadValue, Reads
<1>4. /\ n \in DOMAIN out /\ Current = out[n] /\ Len(values) \in Nat
  BY <1>1, <1>3, ReadsFacts
<1>5. entry = Len(out[n].keys) /\ values' = Append(values, v)
  BY <1>2, <1>4 DEF ReadValue
<1>6. limit \in Nat /\ limit > 0 /\ limit - 1 \in 0 .. limit
  BY LimitFacts
<1>7. PICK s \in Seq(Fields) : s = event.variables[n] /\ n \in DOMAIN event.variables
  <2>1. n \in DOMAIN event.variables
    BY <1>4 DEF OutDeep, ValueDeep
  <2>2. event.variables \in Seq(Seq(Fields))
    BY DEF TypeOK
  <2>3. event.variables[n] \in Seq(Fields)
    BY <2>1, <2>2
  <2> QED BY <2>1, <2>3
<1>8. PICK r \in 0 .. limit : r = limit - 1
  BY <1>6
<1>9. /\ Doomed(s, r) => out[n].value = Opaque
      /\ ~Doomed(s, r) => /\ out[n].value = Struct([k \in DOMAIN s |-> Val(s[k], r)])
                          /\ Leads(s, r, d)
  BY <1>4, <1>7, <1>8 DEF OutDeep, ValueDeep
<1>10. v = Expected(s)
  <2>1. CASE Doomed(s, r)
    <3>1. v = Opaque
      BY <1>2, <1>9, <2>1 DEF ReadBack, Opaque
    <3> QED BY <1>8, <2>1, <3>1 DEF Expected, Doomed, Unreadable
  <2>2. CASE ~Doomed(s, r)
    <3>1. ASSUME NEW b \in Addr, r > 0, PointsTo(s, b) # {} PROVE known[b] = Exp(b, r)
      <4>1. r # 0
        BY <3>1
      <4>2. Refers(out[n].value, b)
        BY <1>9, <2>2, <3>1, <4>1, FieldsRefer
      <4>3. HasRead(b)
        BY <1>1, <1>3, <1>5, <4>2, ReferredIsRead
      <4>4. d[b] = r
        BY <1>9, <2>2, <3>1 DEF Leads
      <4> QED BY <4>3, <4>4 DEF ReadDeep
    <3>2. v = Struct([i \in DOMAIN s |-> ShownAt[r][s[i]]])
      BY <1>2, <1>6, <1>9, <2>2, <3>1, FieldsReadBack
    <3> QED BY <1>8, <2>2, <3>2 DEF Expected, Doomed, Unreadable, Shown
  <2> QED BY <2>1, <2>2
<1>11. PICK w : w = values'
  OBVIOUS
<1>12. /\ DOMAIN w = 1 .. n /\ w[n] = v /\ DOMAIN values = 1 .. Len(values)
       /\ \A i \in 1 .. Len(values) : w[i] = values[i]
       /\ \A i \in 1 .. n : i \in 1 .. Len(values) \/ i = n
  <2>1. PICK S : values \in Seq(S)
    BY DEF ReaderInv
  <2> QED BY <1>1, <1>4, <1>5, <1>11, <2>1
<1>13. \A i \in DOMAIN w : w[i] = Expected(event.variables[i])
  BY <1>7, <1>10, <1>12 DEF ReadDeep
<1>14. ASSUME NEW b \in Addr, HasRead(b)' PROVE known[b] = Exp(b, d[b])
  BY <1>14, ValueIsRead DEF ReadDeep
<1>15. /\ \A b, r1 : Exp(b, r1)' = Exp(b, r1)
       /\ \A s1 : Expected(s1)' = Expected(s1)
  BY <1>3, TreeStatic
<1> QED BY <1>3, <1>11, <1>13, <1>14, <1>15 DEF ReadDeep

LEMMA TreeNext == Inv /\ MemInv /\ PathInv /\ Calm /\ ReaderInv /\ TreeInv /\ [Next]_vars => TreeInv'
<1> SUFFICES ASSUME Inv, MemInv, PathInv, Calm, ReaderInv, TreeInv, [Next]_vars PROVE TreeInv'
  OBVIOUS
<1>1. Static /\ Static' /\ TypeOK
  BY NextInv, InvParts, InvPartsNext DEF Inv, TypeOK, Static
<1>2. CASE Write
  BY <1>1, <1>2, TreeWriter
<1>3. CASE Read \/ Done \/ UNCHANGED vars
  <2>1. Written
    BY <1>3, ReadIsOnly
  <2>2. event' = event /\ limit' = limit /\ out' = out /\ next' = next
    BY <2>1 DEF Written
  <2>3. ASSUME Tree, NEW d \in Depths, WrittenDeep(d), ReadDeep(d) PROVE ReadDeep(d)'
    <3>1. CASE Read
      BY <1>1, <2>3, <3>1, EntryDeep, ValueIsDeep DEF Read, WrittenDeep, Calm
    <3>2. CASE Done \/ UNCHANGED vars
      <4>1. UNCHANGED <<out, entry, known, values>>
        BY <3>2 DEF Done, vars
      <4>2. /\ \A b, r : Exp(b, r)' = Exp(b, r)
            /\ \A s : Expected(s)' = Expected(s)
        BY <2>2, TreeStatic
      <4>3. \A b : HasRead(b)' <=> HasRead(b)
        BY <4>1 DEF HasRead, Current
      <4> QED BY <2>2, <2>3, <4>1, <4>2, <4>3 DEF ReadDeep
    <3> QED BY <1>3, <3>1, <3>2
  <2>4. Depths' = Depths /\ (Tree' => Tree)
    BY <2>2, TreeStatic, RegimeIsStatic
  <2>5. Tree' => \E d \in Depths : WrittenDeep(d)' /\ ReadDeep(d)'
    BY <2>1, <2>3, <2>4, DeepUnchanged DEF TreeInv
  <2> QED BY <2>2, <2>4, <2>5 DEF TreeInv
<1> QED BY <1>2, <1>3 DEF Next

LEMMA TreeInit == Init => TreeInv
<1> SUFFICES ASSUME Init PROVE TreeInv
  OBVIOUS
<1>1. limit \in Nat \ {0}
  BY EventsAssumption DEF Init
<1>2. PICK d : d = [a \in Addr |-> 0]
  OBVIOUS
<1>3. d \in Depths
  BY <1>1, <1>2 DEF Depths
<1>4. WrittenDeep(d)
  <2>1. CallsDeep(d)
    BY DEF Init, CallsDeep, Limited
  <2>2. DeepEnv(env, d) /\ OutDeep(d)
    BY DEF Init, DeepEnv, OutDeep, NoEnv
  <2> QED BY <2>1, <2>2 DEF WrittenDeep
<1>5. ReadDeep(d)
  BY DEF Init, ReadDeep, HasRead
<1> QED BY <1>3, <1>4, <1>5 DEF TreeInv, Init

\* Where no object has two pointers, nor one from an enum of lost variant, each variable is read back as it is in memory, cut at the limit,
\* or is opaque because of something in it that cannot be read, and then nothing of the others is
\* missing (value/writer.rs, debugger.rs: "If encounter error, writes opaque"), whatever the objects,
\* the variables and the limit.
THEOREM TreesAreReadBack == Spec => []TreesReadBack
<1>1. Init => Inv /\ MemInv /\ PathInv /\ Calm /\ ReaderInv /\ TreeInv
  BY InitInv, MemInit, PathInit, CalmInit, ReaderInit, TreeInit
<1>2. Inv /\ MemInv /\ PathInv /\ Calm /\ ReaderInv /\ TreeInv /\ [Next]_vars
         => (Inv /\ MemInv /\ PathInv /\ Calm /\ ReaderInv /\ TreeInv)'
  BY NextInv, MemNext, PathNext, CalmNext, ReaderNext, TreeNext
<1>3. Inv /\ ReaderInv /\ TreeInv => TreesReadBack
  <2> SUFFICES ASSUME Inv, ReaderInv, TreeInv, Finished, Tree
               PROVE  values = [i \in DOMAIN event.variables |-> Expected(event.variables[i])]
    BY DEF TreesReadBack, Tree
  <2>1. \A i \in DOMAIN values : values[i] = Expected(event.variables[i])
    BY DEF TreeInv, ReadDeep
  <2>2. PICK S : values \in Seq(S)
    BY DEF ReaderInv
  <2>3. Len(values) = Len(event.variables) /\ event.variables \in Seq(Seq(Fields))
    BY DEF TreeInv, Finished, Inv, TypeOK
  <2>4. DOMAIN values = DOMAIN event.variables
    BY <2>2, <2>3
  <2>5. values = [i \in DOMAIN values |-> values[i]]
    BY <2>2
  <2> QED BY <2>1, <2>4, <2>5
<1> QED BY <1>1, <1>2, <1>3, PTL DEF Spec
=============================================================================
