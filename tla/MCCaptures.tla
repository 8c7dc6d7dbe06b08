----------------------------- MODULE MCCaptures -----------------------------
(***************************************************************************)
(* The types and values that are returned: every way a return value is     *)
(* told apart, alone and in all pairs, as the fields of a tuple and of a   *)
(* struct and as the sides of a Result, found or not; with payloads of 0   *)
(* and 6 (of which the one is a tag as well, and the other is not), and    *)
(* strings that MaxArray cuts between and within characters.               *)
(***************************************************************************)
EXTENDS Captures

P(t)     == Ty("&", <<t>>, 0)
B(t)     == Ty("Box", <<t>>, 0)
O(t)     == Ty("Option", <<t>>, 0)
Res(t, u) == Ty("Result", <<t, u>>, 0)
A(t, n)  == Ty("array", <<t>>, n)
T(ts)    == Ty("tuple", ts, 0)
W(t)     == Ty("struct", <<t>>, 0)
Slice(t) == P(Ty("slice", <<t>>, 0))
Vec(t)   == Ty("Vec", <<t>>, 0)
Map(k, v, n) == Ty("HashMap", <<k, v>>, n)
Set(k, n)    == Ty("HashSet", <<k>>, n)

u8   == Prim("u8")
i8   == Prim("i8")
i16  == Prim("i16")
i32  == Prim("i32")
u32  == Prim("u32")
i64  == Prim("i64")
u64  == Prim("u64")
i128 == Prim("i128")
u128 == Prim("u128")
f32  == Prim("f32")
f64  == Prim("f64")
bool == Prim("bool")
char == Prim("char")
StrRef == P(Prim("str"))
Dyn  == Ty("dyn", <<>>, 0)
Dir  == Ty("enum", <<>>, 3)
Shape   == Ty("union", <<u64>>, 0)
Phantom == Ty("PhantomData", <<>>, 0)
StringT == Ty("String", <<T(<<u64, u64, u64>>)>>, 0)

-----------------------------------------------------------------------------
PrimValues(p) ==
    CASE p = "bool" -> {Bits(<<0>>), Bits(<<1>>)}
      [] p = "char" -> {Bits(<<0, 0, 0, 0>>), Bits(<<65, 0, 1, 0>>)}
      [] p = "()"   -> {UnitV}
      [] OTHER      -> {Bits(Zero(Size[p])), Bits(Little(6, Size[p]))}

Strs == {<<>>, <<65>>, <<65, 195, 169>>, <<65, 66, 226, 130, 172>>, <<65, 240, 159, 166, 128>>, <<65, 66, 67, 68, 69>>}

\* Values of a type whose pointers point to a and beyond.
RECURSIVE Values(_, _)
Values(t, a) ==
    LET field(i) == Values(t.of[i], a + 10 * (i - 1))
        fields   == {f \in [DOMAIN t.of -> UNION {field(i) : i \in DOMAIN t.of}] : \A i \in DOMAIN t.of : f[i] \in field(i)}
        items    == IF t.is = "HashSet" THEN Values(t.of[1], a) ELSE Values(T(t.of), a)
        payloads(n) == IF t.is = "Option" /\ n = 0 THEN {<<>>} ELSE {<<v>> : v \in Values(Sides(t)[n + 1], a)}
    IN  CASE t.is \in Prims         -> PrimValues(t.is)
          [] t.is = "PhantomData"   -> {UnitV}
          [] t.is = "enum"          -> {EnumV(n) : n \in 0 .. t.n - 1}
          [] t.is = "union"         -> {VariantV(0, <<UnitV>>)}
          [] t.is = "String"        -> {StrV(a, b) : b \in Strs}
          [] t.is = "array"         -> {FieldsV([i \in 1 .. t.n |-> v]) : v \in Values(t.of[1], a)}
          [] t.is \in Hashed        -> {FieldsV(<<>>)} \cup {FieldsV(<<v>>) : v \in items} \cup {FieldsV(<<v, w>>) : v \in items, w \in items}
          [] t.is = "Vec"           -> {FieldsV([i \in 1 .. n |-> v]) : n \in {0, 2, 5}, v \in Values(t.of[1], a)}
          [] t.is \in {"struct", "tuple"}  -> {FieldsV(vs) : vs \in fields}
          [] t.is \in {"Option", "Result"} -> UNION {{VariantV(n, p) : p \in payloads(n)} : n \in {0, 1}}
          [] IsThin(t)              -> {PtrV(a, v) : v \in Values(t.of[1], a + 3)}
          [] IsFat(t) /\ t.of[1].is = "str"   -> {StrV(a, b) : b \in Strs}
          [] IsFat(t) /\ t.of[1].is = "slice" ->
                 {SliceV(a, [i \in 1 .. n |-> v]) : n \in {0, 2}, v \in Values(t.of[1].of[1], a + 3)}
          [] IsFat(t) /\ t.of[1].is = "dyn"   -> {DynV(a, UnitV)}

-----------------------------------------------------------------------------
Plain    == {Unit, bool, char, u8, i32, u64, i128, f32, f64}
SharedPtrs == {Ty(p, <<t>>, 0) : p \in {"Rc", "Arc"}, t \in {i64, Dyn}}
Pointing == {P(u8), B(i64), Ty("&mut", <<u8>>, 0), P(T(<<u8, i64>>)), P(StrRef), P(B(Dyn)),
             StrRef, Slice(u8), Slice(i64), P(Dyn), B(Dyn)} \cup SharedPtrs
Simple   == Plain \cup Pointing \cup {Dir, StringT}

TwoOf(ts) == Ty("struct", ts, 0)

\* Fields: each way a word, a float, or neither can be in a register or in memory, and wrappers of them.
FieldTypes == {Unit, bool, char, u8, i32, i64, f32, f64, P(u8), P(B(Dyn)), P(Dyn), Ty("Rc", <<i64>>, 0), Dir, Vec(i64),
               A(u8, 3), A(u8, 8), W(bool), W(i64), W(P(u8)), T(<<u8, u8>>), O(u8), O(P(u8))}

\* Sides of a Result: integers of either sign and every size too, and a comma.
SideTypes == (Plain \ {i128}) \cup
             {i8, u32, i64, i128, u128, P(u8), P(T(<<u8, i64>>)), StrRef, Slice(u8), B(Dyn), Dir, Vec(i64),
              A(u8, 3), A(u8, 8), W(bool), W(i64), W(P(u8)), W(StrRef), T(<<u8, u8>>)}

Mixed == {Unit, u8, f32, P(u8), O(P(u8)), W(i64), A(u8, 3), Dir}

Tuples == {T(<<a>>) : a \in FieldTypes \cup SideTypes} \cup {T(<<a, b>>) : a, b \in FieldTypes}
          \cup {T(<<a, b, c>>) : a \in {u8, i64, P(u8)}, b \in {u8, i64}, c \in {Unit, f32, StrRef}}

Wrapped == {W(a) : a \in FieldTypes \cup SideTypes \cup {W(u64), Slice(i64), B(Dyn), A(u8, 16)}}
           \cup {TwoOf(<<a, b>>) : a, b \in FieldTypes} \cup {W(TwoOf(<<a, b>>)) : a, b \in Mixed} \cup {W(T(<<a, b>>)) : a, b \in Mixed}
           \cup {Ty("struct", <<>>, 0)}

Results == {Res(a, b) : a, b \in SideTypes} \cup {Res(a, Unit) : a \in Simple} \cup {Res(Unit, a) : a \in Simple \cup {A(u8, 16), W(P(Dyn))}}

Options == {O(a) : a \in Simple \cup SideTypes
                       \cup {Ty("struct", <<u8, Phantom>>, 0), T(<<i64, i64>>), A(u8, 16), W(Slice(u8)), W(P(Dyn)), W(Dir)}}

InPlace == {Dir, Shape, StringT, A(u8, 3), A(u8, 8), A(u8, 16), A(i64, 2), A(i32, 2), A(P(u8), 1),
            Vec(u8), Vec(i64), Vec(Vec(bool)), P(Vec(i64)), Slice(A(u8, 4)), P(O(u8)), Ty("&mut", <<Prim("str")>>, 0)}

Maps == {Map(u8, u8, 1), Map(u64, u8, 0), Map(u8, i32, 0), Map(u8, i32, 1), Map(u8, O(u8), 1), Map(u64, O(u8), 0),
         Map(u8, A(u8, 3), 1), Map(u64, W(T(<<u8, i16>>)), 0), Set(i32, 1), Set(i32, 0)}

MCReturns == UNION {{<<t, v>> : v \in Values(t, 10)} :
                     t \in Plain \cup Pointing \cup Options \cup Results \cup Tuples \cup Wrapped \cup InPlace \cup Maps}
=============================================================================
