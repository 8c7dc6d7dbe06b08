-------------------------------- MODULE Abi --------------------------------
(***************************************************************************)
(* How a function returns a value on x86-64: what rustc does, which is not *)
(* part of the repository, as debugger/src/lib.rs:45-61 and the comments   *)
(* of debugger/src/debugger/return_value.rs have it.                       *)
(*                                                                         *)
(* A value is laid out as scalars.  Up to two of them are returned in      *)
(* registers, integers and pointers in rax and rdx, floats in xmm0 and     *)
(* xmm1; what is not made of two scalars, but has no more than 8 bytes, is *)
(* packed into rax; for anything else rax is the address.                  *)
(***************************************************************************)
EXTENDS ValueTypes

VARIABLE llvm18     \* whether the compiler is one "since llvm 18" (return_value.rs:904)

Byte == 0 .. 255

Zero(n)    == [i \in 1 .. n |-> 0]
Little(k, n) == [i \in 1 .. n |-> IF i = 1 THEN k ELSE 0]     \* k < 256 as n bytes
Address(a) == Little(a, 8)

-----------------------------------------------------------------------------
(***************************************************************************)
(* Values: `b` is the bytes of a primitive or of a string, `at` where a    *)
(* pointer points, `n` the number of a variant, and `of` what it is made   *)
(* of or points to.                                                        *)
(***************************************************************************)
Val(k, n, at, b, of) == [k |-> k, n |-> n, at |-> at, b |-> b, of |-> of]

Bits(b)        == Val("prim", 0, 0, b, <<>>)
UnitV          == Val("unit", 0, 0, <<>>, <<>>)
PtrV(a, v)     == Val("ptr", 0, a, <<>>, <<v>>)
StrV(a, b)     == Val("str", 0, a, b, <<>>)
SliceV(a, vs)  == Val("slice", 0, a, <<>>, vs)
DynV(a, v)     == Val("dyn", 0, a, <<>>, <<v>>)
EnumV(n)       == Val("enum", n, 0, <<>>, <<>>)
VariantV(n, v) == Val("variant", n, 0, <<>>, v)     \* numbered from 0, as declared
FieldsV(vs)    == Val("fields", 0, 0, <<>>, vs)

-----------------------------------------------------------------------------
(***************************************************************************)
(* The scalars of a type.  "none" stands for what is made of more.  Bit    *)
(* patterns that no value has are spare, as many as are compared.          *)
(***************************************************************************)
Scalar(c, size, spare) == [c |-> c, size |-> size, spare |-> spare]
S(c, size)             == Scalar(c, size, 0)
Tag(size)              == Scalar("int", size, IF size = 1 THEN 254 ELSE 9999)
Whole(n)   == <<S("none", n)>>

\* The sides of an Option or Result, in the order of their variants.
Sides(t) == IF t.is = "Option" THEN <<Unit, t.of[1]>> ELSE t.of

\* Has bit patterns that no value of it has, as its only field may.
RECURSIVE HasNiche(_)
HasNiche(t) ==
    t.is \in {"bool", "char", "enum"} \cup Pointers \/ (t.is = "struct" /\ Len(t.of) = 1 /\ HasNiche(t.of[1]))

RECURSIVE Niche(_)
Niche(t) ==
    CASE t.is = "struct" -> Niche(t.of[1])
      [] t.is = "bool" -> <<<<2>>>>
      [] t.is = "char" -> <<<<0, 0, 17, 0>>>>
      [] t.is = "enum" -> <<<<t.n>>>>
      [] IsThin(t)     -> <<Zero(8)>>
      [] IsFat(t)      -> <<Zero(8), <<>>>>

IsPacked(t) ==
    t.is \in {"Option", "Result"} /\ \E i \in 1 .. 2 : Sides(t)[i] = Unit /\ HasNiche(Sides(t)[3 - i])

RoundUp(n, a) == ((n + a - 1) \div a) * a

SameScalar(a, b) == a.size = b.size /\ (a.c = b.c \/ (llvm18 /\ {a.c, b.c} \subseteq {"int", "signed", "ptr"}))

Laid(scalars, align, size) == [scalars |-> scalars, align |-> align, size |-> size]
LaidWhole(align, size)     == Laid(Whole(size), align, size)
IsWhole(scalars)           == \E i \in DOMAIN scalars : scalars[i].c = "none"

LaidPrim(t, size) ==
    Laid(CASE t.is = "()"      -> <<>>
           [] t.is = "bool"    -> <<Scalar("int", 1, 254)>>
           [] t.is = "char"    -> <<Scalar("int", 4, 1000)>>
           [] t.is \in Floats  -> <<S("float", size)>>
           [] t.is \in Signed  -> <<S("signed", size)>>
           [] OTHER            -> <<S("int", size)>>, Max({1, size}), size)

\* Fields in memory, those that need the larger alignment first, and of these those with more to spare.
FieldOrder(fields) ==
    LET spare(i) == Max({0} \cup {s.spare : s \in ToSet(fields[i].scalars)})
        before(i, j) == \/ fields[i].align > fields[j].align
                        \/ /\ fields[i].align = fields[j].align
                           /\ spare(i) > spare(j) \/ (spare(i) = spare(j) /\ i < j)
    IN  SetToSortSeq(DOMAIN fields, before)

\* The size of these fields, one after the other in this order.
Extent(fields, order) ==
    LET after(n, i) == RoundUp(n, fields[i].align) + fields[i].size IN FoldLeft(after, 0, order)

LaidOut(fields, order) ==
    LET align   == Max({1} \cup {fields[i].align : i \in DOMAIN fields})
        size    == RoundUp(Extent(fields, order), align)
        scalars == FlattenSeq([i \in DOMAIN fields |-> fields[order[i]].scalars])
    IN  IF Len(scalars) > 2 \/ IsWhole(scalars) THEN LaidWhole(align, size)
        ELSE Laid(scalars, align, size)

\* Of an Option or Result that is told by a value that side does not have.
LaidPacked(side) == [side EXCEPT !.scalars[1].spare = @ - 1]

\* A tag, and one scalar if that is what either side has that has any.
LaidTagged(a, b) ==
    LET align   == Max({a.align, b.align})
        one(s)  == Len(s) = 1 /\ s[1].c # "none" /\ s[1].size <= 8
        pair(s) == Laid(<<Tag(s[1].size)>> \o s, align, 2 * s[1].size)
    IN  CASE a.scalars = <<>> /\ b.scalars = <<>> -> Laid(<<Tag(1)>>, align, 1)
          [] a.scalars = <<>> /\ one(b.scalars)   -> pair(b.scalars)
          [] one(a.scalars) /\ b.scalars = <<>>   -> pair(a.scalars)
          [] one(a.scalars) /\ one(b.scalars) /\ SameScalar(a.scalars[1], b.scalars[1]) -> pair(a.scalars)
          [] OTHER -> LaidWhole(align, align + RoundUp(Max({a.size, b.size}), align))

\* What a type is made of, its alignment and its size, by the layouts of its parts.
RECURSIVE Layout(_)
Layout(t) ==
    CASE t.is \in Prims       -> LaidPrim(t, Size[t.is])
      [] t.is = "enum"        -> Laid(<<Scalar("int", 1, 256 - t.n)>>, 1, 1)
      [] t.is = "PhantomData" -> Laid(<<>>, 1, 0)
      [] t.is = "*" \/ IsThin(t)    -> Laid(<<Scalar("ptr", 8, 1)>>, 8, 8)
      [] IsFat(t)             -> Laid(<<Scalar("ptr", 8, 1), S("int", 8)>>, 8, 16)
      [] t.is \in {"String", "Vec"} -> LaidWhole(8, 24)
      [] t.is \in Hashed      -> LaidWhole(8, 48)
      [] t.is \in {"array", "union"} -> LET part == Layout(t.of[1])
                                        IN  LaidWhole(part.align, (IF t.is = "array" THEN t.n ELSE 2) * part.size)
      [] t.is \in {"struct", "tuple"} -> LET fields == [i \in DOMAIN t.of |-> Layout(t.of[i])]
                                         IN  LaidOut(fields, FieldOrder(fields))
      [] IsPacked(t)          -> LaidPacked(Layout(CHOOSE s \in {Sides(t)[1], Sides(t)[2]} : s # Unit))
      [] t.is \in {"Option", "Result"} /\ ~IsPacked(t) -> LaidTagged(Layout(Sides(t)[1]), Layout(Sides(t)[2]))

Scalars(t) == Layout(t).scalars
AlignOf(t) == Layout(t).align
SizeOf(t)  == Layout(t).size

\* rustc may tell an Option or Result by a pattern that is spare in a part of a side, or put one side beside it in
\* the other.  That is not laid out here, and makes no difference to what is in memory all the same.
RECURSIVE HasSpare(_)
HasSpare(t) ==
    HasNiche(t) \/ t.is \in {"Option", "Result"} \/ (t.is \in {"struct", "tuple", "array"} /\ \E i \in DOMAIN t.of : HasSpare(t.of[i]))

IsPlain(side) == HasNiche(side) \/ ~HasSpare(side) \/ (IsWhole(Scalars(side)) /\ SizeOf(side) > 8)

RECURSIVE HasLayout(_)
HasLayout(t) ==
    \/ t.is \in Pointers
    \/ /\ t.is \in {"Option", "Result"} => \A side \in ToSet(Sides(t)) : IsPlain(side)
       /\ \A part \in ToSet(t.of) : HasLayout(part)

FieldsOf(t) == [i \in DOMAIN t.of |-> Layout(t.of[i])]
OrderOf(t)  == FieldOrder(FieldsOf(t))

\* Where field i of a struct is.
OffsetIn(fields, order, i) ==
    LET before == SubSeq(order, 1, (CHOOSE k \in DOMAIN order : order[k] = i) - 1)
    IN  RoundUp(Extent(fields, before), fields[i].align)

OffsetOf(t, i) == OffsetIn(FieldsOf(t), OrderOf(t), i)

\* An Option or Result of 16 bytes and no other type; what does not fit rax is in memory.
Wides     == {Prim("i128"), Prim("u128")}
IsWide(t) == t.is \in {"Option", "Result"} /\ ToSet(Sides(t)) \ {Unit} # {} /\ ToSet(Sides(t)) \ {Unit} \subseteq Wides
InMemory(t) == IsWide(t) \/ \E s \in ToSet(Scalars(t)) : s.c = "none" /\ s.size > 8

-----------------------------------------------------------------------------
(***************************************************************************)
(* The bytes of the scalars of a value; none at all for one that is not    *)
(* there, which is that of the variant that has no field.                  *)
(***************************************************************************)
Side(t, v) == Sides(t)[v.n + 1]
Payload(v) == IF v.of = <<>> THEN UnitV ELSE v.of[1]

Second(t, v) == CASE t.of[1].is = "str"   -> Address(Len(v.b))
                  [] t.of[1].is = "slice" -> Address(Len(v.of))
                  [] t.of[1].is = "dyn"   -> Address(v.at + 1)     \* the vtable

RECURSIVE Parts(_, _)
Parts(t, v) ==
    CASE t.is \in {"()", "PhantomData"}     -> <<>>
      [] t.is \in Prims \ {"()"}            -> <<v.b>>
      [] t.is = "enum"                      -> <<<<v.n>>>>
      [] IsThin(t)                          -> <<Address(v.at)>>
      [] IsFat(t)                           -> <<Address(v.at), Second(t, v)>>
      [] t.is = "array"                     -> FlattenSeq([i \in DOMAIN v.of |-> Parts(t.of[1], v.of[i])])
      [] t.is \in {"struct", "tuple"}       ->
             FlattenSeq([i \in DOMAIN t.of |-> LET f == OrderOf(t)[i] IN Parts(t.of[f], v.of[f])])
      [] IsPacked(t) /\ Side(t, v) = Unit   -> Niche(Sides(t)[2 - v.n])
      [] IsPacked(t) /\ Side(t, v) # Unit   -> Parts(Side(t, v), Payload(v))
      [] t.is \in {"Option", "Result"} /\ ~IsPacked(t) ->
             LET payload == Parts(Side(t, v), Payload(v))
             IN  <<Little(v.n, Scalars(t)[1].size)>>
                 \o (IF payload = <<>> /\ Len(Scalars(t)) = 2 THEN <<<<>>>> ELSE payload)

\* Bytes of a register.  A part of 4 bytes is extended to 8, one of 1 or 2 leaves the others as they were.
Filled(b, junk) == b \o [i \in 1 .. 8 - Len(b) |-> junk]
Word(b, junk)   == Filled(b, IF Len(b) = 4 THEN 0 ELSE junk)
Old(junk)       == Filled(<<>>, junk)

\* What is no scalar, in 8 bytes: a tag is as long as the smaller alignment.
Packed(t, v, junk) ==
    IF t.is \notin {"Option", "Result"} THEN Word(FlattenSeq(Parts(t, v)), junk)
    ELSE LET tag == Min({AlignOf(Sides(t)[1]), AlignOf(Sides(t)[2])})
             gap == AlignOf(Side(t, v)) - tag
         IN  Filled(Little(v.n, tag) \o [i \in 1 .. gap |-> junk] \o FlattenSeq(Parts(Side(t, v), Payload(v))), junk)

\* The registers of the scalars that are floats, or of those that are not.
Words(scalars, parts, junk, float) ==
    LET left     == IF scalars = <<Tag(1)>> THEN 0 ELSE junk
        bytes(i) == IF Len(parts[i]) = 16 THEN <<SubSeq(parts[i], 1, 8), SubSeq(parts[i], 9, 16)>>
                    ELSE <<Word(parts[i], left)>>
    IN  FlattenSeq([i \in DOMAIN parts |-> IF (scalars[i].c = "float") = float THEN bytes(i) ELSE <<>>])

RetAddr == 90

(***************************************************************************)
(* The registers at the return.  What held an Option or Result in memory   *)
(* before it was returned is left in others: its tag in rcx (with 0 in     *)
(* rdx) and its 16 bytes in rsi and r8, or its tag in rdx and the bytes in *)
(* rdi and r8, "completely based on heuristics" (lib.rs:63).               *)
(***************************************************************************)
InRegisters(t, v, ints, floats, wide, old, inRcx) ==
    LET nth(s, n) == IF Len(s) >= n THEN s[n] ELSE old
        low       == SubSeq(wide, 1, 8)
    IN  [rax  |-> nth(ints, 1),
         rdx  |-> IF ~IsWide(t) THEN nth(ints, 2) ELSE IF inRcx THEN Zero(8) ELSE Address(v.n),
         rcx  |-> IF IsWide(t) /\ inRcx THEN Address(v.n) ELSE old,
         rsi  |-> IF inRcx THEN low ELSE old,
         rdi  |-> IF inRcx THEN old ELSE low,
         r8   |-> SubSeq(wide, 9, 16),
         xmm0 |-> nth(floats, 1),
         xmm1 |-> nth(floats, 2)]

Registers(t, v, junk, inRcx) ==
    LET scalars == Scalars(t)
        old     == Old(junk)
        wide    == IF IsWide(t) /\ Payload(v).b # <<>> THEN Payload(v).b ELSE old \o old
    IN  InRegisters(t, v,
               IF InMemory(t) THEN <<Address(RetAddr)>>
               ELSE IF IsWhole(scalars) THEN <<Packed(t, v, junk)>>
               ELSE Words(scalars, Parts(t, v), junk, FALSE),
               IF IsWhole(scalars) THEN <<>> ELSE Words(scalars, Parts(t, v), junk, TRUE),
               wide, old, inRcx)

-----------------------------------------------------------------------------
(***************************************************************************)
(* Memory: the objects a value points to, and itself if it is there.       *)
(***************************************************************************)
Object(a, t, v) == [at |-> a, t |-> t, v |-> v]

Array(t, n)  == Ty("array", <<t>>, n)
Counter      == Ty("Cell", <<Ty("UnsafeCell", <<Prim("usize")>>, 0)>>, 0)
AtomicUsize  == Ty("Atomic", <<Ty("UnsafeCell", <<Prim("usize")>>, 0)>>, 0)
RcBox(t)     == Ty("RcBox", <<Counter, Counter, t>>, 0)
ArcInner(t)  == Ty("ArcInner", <<AtomicUsize, AtomicUsize, t>>, 0)
Count(n)     == FieldsV(<<FieldsV(<<Bits(Little(n, 8))>>)>>)
InnerV(v)    == FieldsV(<<Count(2), Count(1), v>>)
Pointee(t)   == CASE t.is = "Rc" -> RcBox(t.of[1]) [] t.is = "Arc" -> ArcInner(t.of[1]) [] OTHER -> t.of[1]
PointeeV(t, v) == IF t.is \in {"Rc", "Arc"} THEN InnerV(v.of[1]) ELSE v.of[1]

RECURSIVE Objects(_, _)
Objects(t, v) ==
    CASE IsThin(t) \/ (IsFat(t) /\ t.of[1].is = "dyn") ->
             {Object(v.at, Pointee(t), PointeeV(t, v))} \cup Objects(t.of[1], v.of[1])
      [] IsFat(t) /\ t.of[1].is = "str" ->
             {Object(v.at, Array(Prim("u8"), Len(v.b)), FieldsV([i \in DOMAIN v.b |-> Bits(<<v.b[i]>>)]))}
      [] IsFat(t) /\ t.of[1].is = "slice" ->
             {Object(v.at, Array(t.of[1].of[1], Len(v.of)), FieldsV(v.of))}
                 \cup UNION {Objects(t.of[1].of[1], v.of[i]) : i \in DOMAIN v.of}
      [] t.is = "array" -> UNION {Objects(t.of[1], v.of[i]) : i \in DOMAIN v.of}
      [] t.is \in {"struct", "tuple"} -> UNION {Objects(t.of[i], v.of[i]) : i \in DOMAIN v.of}
      [] t.is \in {"Option", "Result"} -> Objects(Side(t, v), Payload(v))
      [] OTHER -> {}

Memory(t, v) == Objects(t, v) \cup (IF InMemory(t) THEN {Object(RetAddr, t, v)} ELSE {})
=============================================================================
