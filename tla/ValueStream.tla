---------------------------- MODULE ValueStream ----------------------------
(***************************************************************************)
(* The text of a value in an event: what debugger/src/debugger/            *)
(* value_writer.rs writes for it, token by token, what value/writer.rs     *)
(* writes for a value that is in memory, and what debugger/src/reader.rs   *)
(* does with each token.  The length limits are here; the limit of depth   *)
(* and objects that are shared are in ValueEnv.                            *)
(***************************************************************************)
EXTENDS Abi

CONSTANT MaxArray   \* MAX_ARRAY_SIZE

Cut(s) == IF Len(s) <= MaxArray THEN s ELSE SubSeq(s, 1, MaxArray)

-----------------------------------------------------------------------------
(***************************************************************************)
(* Tokens, and the words a value is written as: its operands first.        *)
(***************************************************************************)
Token(k, s, b, n) == [k |-> k, s |-> s, b |-> b, n |-> n]

Str(s)  == Token("Str", s, <<>>, 0)
Blob(b) == Token("Bytes", "", b, 0)
Number(n) == Token("Int", "", <<>>, n)
Op(s)   == Token("Op", s, <<>>, 0)

prim_v(ty, b)       == <<Str(ty), Blob(b), Op("prim")>>
bytes_v(ty, b)      == <<Str(ty), Blob(b), Op("bytes")>>
strlit_v(b)         == <<Blob(b), Op("strlit")>>
ref_v(ty, addr)     == <<Str(ty), Blob(addr), Op("ref")>>
unit_v              == <<Op("unit")>>
opaque_v            == <<Op("opaque")>>
enumerate_v(ty, variant) == <<Str(ty), Str(variant), Op("enum")>>

arr_v(vals)   == FlattenSeq(vals) \o <<Number(Len(vals)), Op("arr")>>
slice_v(vals) == FlattenSeq(vals) \o <<Number(Len(vals)), Op("slice")>>
vector_v(vals) == FlattenSeq(vals) \o <<Number(Len(vals)), Op("vec")>>

Named(ns, vals)       == FlattenSeq([i \in DOMAIN vals |-> <<Str(ns[i])>> \o vals[i]])
struct_v(ty, ns, vals) == Named(ns, vals) \o <<Number(Len(vals)), Str(ty), Op("struct")>>

union_v(ty, index, variants, ns, vals) ==
    Named(ns, vals) \o <<Number(Len(vals)), Number(index), Str(ty)>>
        \o [i \in DOMAIN variants |-> Str(variants[i])] \o <<Number(Len(variants)), Op("union_decl")>>

-----------------------------------------------------------------------------
(***************************************************************************)
(* What writing a value comes to: the value, and the entries of env it     *)
(* makes, in the order their addresses are allocated.                      *)
(***************************************************************************)
Result(is, val, env) == [is |-> is, val |-> val, env |-> env]

Wrote(val)     == Result("value", val, <<>>)
MadeUp         == Wrote(bytes_v("made up", <<>>))   \* what is at another place than is looked at
WriteErr       == Result("WriteErr", <<>>, <<>>)
Panic          == Result("Panic", <<>>, <<>>)

\* Mutant: from the beginning.
emit_env_Forward(env) ==
    FlattenSeq([i \in DOMAIN env |-> <<Blob(env[i].at)>> \o env[i].val \o <<Op("setenv")>>])

\* From the end, so that what a reference points to comes first.
emit_env(env) ==
    FlattenSeq([i \in DOMAIN env |->
        LET e == env[Len(env) + 1 - i] IN <<Blob(e.at)>> \o e.val \o <<Op("setenv")>>])

\* f of the values of the results, unless one of them is none.
With(results, f(_)) ==
    IF \E i \in DOMAIN results : results[i].is # "value"
    THEN results[CHOOSE i \in DOMAIN results :
                    /\ results[i].is # "value"
                    /\ \A j \in 1 .. i - 1 : results[j].is = "value"]
    ELSE Result("value", f([i \in DOMAIN results |-> results[i].val]),
                FlattenSeq([i \in DOMAIN results |-> results[i].env]))

\* alloc_env, then the value at the address, then set_env: the entry precedes those of the value.
At(addr, w, val) ==
    IF w.is # "value" THEN w
    ELSE Result("value", val, <<[at |-> addr, val |-> w.val]>> \o w.env)

-----------------------------------------------------------------------------
(***************************************************************************)
(* Names of types and fields, as far as anything depends on them.          *)
(***************************************************************************)
TypeName(t) ==
    CASE t.is = "tuple" -> "("
      [] t.is \in Pointers /\ t.of[1].is = "dyn" -> IF t.is \in {"&", "&mut"} THEN "&dyn " ELSE t.is \o "<dyn "
      [] t.is \in {"Box", "Rc", "Arc", "Cell", "Atomic"} /\ ~(t.is \in Pointers /\ t.of[1].is = "dyn") -> t.is \o "<"
      [] OTHER -> t.is

Numbers == <<"0", "1", "2", "3">>

FieldNames(t) ==
    CASE t.is = "RcBox" -> <<"strong", "weak", "value">>
      [] t.is = "ArcInner" -> <<"strong", "weak", "data">>
      [] t.is \in {"Cell", "UnsafeCell"} -> <<"value">>
      [] t.is = "Atomic" -> <<"v">>
      [] t.is = "struct" -> <<"a", "b", "c">>
      [] IsFat(t)   -> IF t.of[1].is = "dyn" THEN <<"pointer", "vtable">> ELSE <<"data_ptr", "length">>
      [] OTHER      -> Numbers

Variants(t) == IF t.is = "Option" THEN <<"None", "Some">> ELSE <<"Ok", "Err">>

Letters == <<"A", "B", "C", "D">>

pointer_typename(t) == IF t.is \in {"&", "&mut"} THEN "ref" ELSE t.is

\* A pointer that is written: "see ref.js", Rc { ptr: NonNull { pointer } }.
Pointer(t, addr) ==
    IF t.is \notin {"Rc", "Arc"} THEN ref_v(pointer_typename(t), addr)
    ELSE struct_v(TypeName(t), <<"ptr">>,
                  <<struct_v("NonNull", <<"pointer">>, <<ref_v("ptr", addr)>>)>>)

-----------------------------------------------------------------------------
(***************************************************************************)
(* The buckets of a hash map, for which frozen-hashbrown needs their size  *)
(* and alignment.                                                          *)
(***************************************************************************)
AlignmentOf(t, v, fields) ==
    IF v = ParseErr THEN Unknown
    ELSE IF is_primitive(v) THEN AlignOf(t)
    ELSE IF is_thin_ptr(v) \/ is_fat_ptr(v) THEN 8
    ELSE IF t.is \in {"Option", "Result", "union"} THEN Unknown
    ELSE IF t.is \in {"array", "enum"} \/ fields = {} THEN SizeOf(t)     \* "hopefully this is right"
    ELSE IF Unknown \in fields THEN Unknown
    ELSE Max({1} \cup fields)

\* By the type, its name, and the fields.
RECURSIVE alignment_of(_)
alignment_of(t) == AlignmentOf(t, ValueType(t), {alignment_of(field) : field \in ToSet(Fields(t))})

\* condense: whether what a type is made of can be written down.
RECURSIVE Condenses(_)
Condenses(t) ==
    \E v \in {ValueType(t)} \ {ParseErr} :
        \/ size_of(v) # Unknown
        \/ t.is \in {"struct", "tuple", "PhantomData", "String"} /\ \A i \in DOMAIN t.of : Condenses(t.of[i])
        \/ t.is = "enum"

Bucket(t) == IF t.is = "HashSet" THEN t.of[1] ELSE Ty("tuple", t.of, 0)

\* That of the type, or of the tuple that rustc is asked for (get_layout_of).
bucket_align(t) ==
    CASE t.n = 1 -> alignment_of(Bucket(t))
      [] t.n = 0 /\ t.is = "HashMap" /\ (\A i \in 1 .. 2 : Condenses(t.of[i])) -> AlignOf(Bucket(t))
      [] OTHER   -> Unknown

\* Layout::from_size_align
IsLayout(align) == align \in {1, 2, 4, 8, 16}

(***************************************************************************)
(* write_value for a value in memory, which is the value of its type.      *)
(***************************************************************************)
RECURSIVE write_value(_, _)

\* At most MaxArray of the elements.
elements(t, vs) == [i \in DOMAIN Cut(vs) |-> write_value(t, vs[i])]
raw(vs)         == Cut(FlattenSeq([i \in DOMAIN vs |-> vs[i].b]))
read_str(v)     == Cut(v.b)

array_value(t, v) ==
    IF t.of[1].is = "u8" THEN Wrote(bytes_v("[u8; n]", raw(v.of))) ELSE With(elements(t.of[1], v.of), arr_v)

pointer_value(t, v) == At(Address(v.at), write_value(Pointee(t), PointeeV(t, v)), Pointer(t, Address(v.at)))

dyn_value(t, v) ==
    With(<<At(Address(v.at), Wrote(opaque_v), ref_v("ptr", Address(v.at))),
           At(Address(v.at + 1), Wrote(opaque_v), ref_v("ref", Address(v.at + 1)))>>,
         LAMBDA vals : struct_v(TypeName(t), FieldNames(t), vals))

\* A key and its value are read apart, the value after the size of the key, where the bucket has no type.
key_and_value(t, align, e) ==
    LET places == <<0, RoundUp(SizeOf(t.of[1]), align)>>
    IN  With([i \in 1 .. 2 |-> IF OffsetOf(Bucket(t), i) = places[i] THEN write_value(t.of[i], e.of[i]) ELSE MadeUp],
             LAMBDA vals : struct_v("(", Numbers, vals))

item_value(t, align, e) == IF t.n = 1 THEN write_value(Bucket(t), e) ELSE key_and_value(t, align, e)

items_value(t, align, v) ==
    IF t.is = "HashSet" /\ t.n = 0 THEN Wrote(opaque_v)
    ELSE IF ~IsLayout(align) THEN WriteErr
    ELSE With(<<With([i \in DOMAIN Cut(v.of) |-> item_value(t, align, v.of[i])], vector_v),
                Wrote(prim_v("usize", Address(Len(v.of))))>>,
              LAMBDA vals : struct_v(t.is, <<"items", "len">>, vals))

hash_value(t, v) == items_value(t, bucket_align(t), v)

vec_value(t, v) ==
    IF t.of[1].is = "u8" THEN Wrote(bytes_v("Vec<u8>", raw(v.of))) ELSE With(elements(t.of[1], v.of), vector_v)

slice_value(t, v) ==
    IF t.of[1].of[1].is = "u8" THEN Wrote(bytes_v("&[u8]", raw(v.of)))
    ELSE With(elements(t.of[1].of[1], v.of), slice_v)

fields_value(t, v) ==
    With([i \in DOMAIN t.of |-> write_value(t.of[i], v.of[i])], LAMBDA vals : struct_v(TypeName(t), FieldNames(t), vals))

variant_value(t, v) ==
    With(IF t.is = "Option" /\ v.n = 0 THEN <<>> ELSE <<write_value(Side(t, v), Payload(v))>>,
         LAMBDA vals : union_v(t.is, v.n, Variants(t), <<"0">>, vals))

write_value(t, v) ==
    CASE t.is = "()" \/ t.is = "PhantomData" -> Wrote(struct_v(IF t.is = "()" THEN "()" ELSE t.is, <<>>, <<>>))
      [] t.is \in Prims \ {"()"} -> Wrote(prim_v(t.is, v.b))
      [] t.is = "dyn"     -> Wrote(opaque_v)
      [] t.is = "enum"    -> Wrote(enumerate_v(t.is, Letters[v.n + 1]))
      [] t.is = "String"  -> Wrote(struct_v("String", <<"vec">>, <<bytes_v("Vec<u8>", read_str(v))>>))
      [] t.is = "Vec"     -> vec_value(t, v)
      [] t.is = "array"   -> array_value(t, v)
      [] IsThin(t)        -> pointer_value(t, v)
      [] IsFat(t) /\ t.of[1].is = "str"   -> Wrote(strlit_v(read_str(v)))
      [] IsFat(t) /\ t.of[1].is = "slice" -> slice_value(t, v)
      [] IsFat(t) /\ t.of[1].is = "dyn"   -> dyn_value(t, v)
      [] t.is \in Hashed  -> hash_value(t, v)
      [] t.is \in {"struct", "tuple", "RcBox", "ArcInner", "Cell", "Atomic", "UnsafeCell"} -> fields_value(t, v)
      [] t.is \in {"Option", "Result"} -> variant_value(t, v)
      [] OTHER            -> Wrote(opaque_v)

-----------------------------------------------------------------------------
(***************************************************************************)
(* RValue, whatever its variant: `at` has the addresses of a reference (the*)
(* second that of the vtable), `of` the values it holds and `fs` the names *)
(* of those.                                                               *)
(***************************************************************************)
RValue(k, ty, b, at, fs, of) == [k |-> k, ty |-> ty, b |-> b, at |-> at, fs |-> fs, of |-> of]

Opaque          == RValue("Opaque", "", <<>>, <<>>, <<>>, <<>>)
UnitR           == RValue("Unit", "", <<>>, <<>>, <<>>, <<>>)
Leaf(k, ty, b)  == RValue(k, ty, b, <<>>, <<>>, <<>>)

ArrayR(kind, vals) == RValue("Array", kind, <<>>, <<>>, <<>>, vals)
UnionR(ty, index, variants, ns, vals) == RValue("Union", ty, <<variants[index + 1]>>, <<>>, ns, vals)

\* How long the character is that starts with this byte; 0 for a byte within one.
CharLen(byte) == IF byte < 128 THEN 1 ELSE IF byte < 192 THEN 0
                 ELSE IF byte < 224 THEN 2 ELSE IF byte < 240 THEN 3 ELSE 4

\* Whether these bytes, the first of valid UTF-8, end with a whole character.
EndsWhole(b) ==
    b = <<>> \/ \E i \in DOMAIN b : CharLen(b[i]) > 0 /\ i + CharLen(b[i]) - 1 = Len(b)


\* "the last char may be incomplete": up to three bytes are dropped.
string_from_utf8(b) ==
    LET cuts == {n \in 0 .. Min({3, Len(b)}) : EndsWhole(SubSeq(b, 1, Len(b) - n))}
    IN  IF cuts = {} THEN Opaque ELSE Leaf("String", "", SubSeq(b, 1, Len(b) - Min(cuts)))

\* char::from_u32
IsChar(b) == b[4] = 0 /\ b[3] <= 16

ReadPrim(ty, b) ==
    IF ty = "bool" THEN Leaf("Prim", ty, <<IF b[1] = 0 THEN 0 ELSE 1>>)
    ELSE IF ty = "char" /\ ~IsChar(b) THEN Opaque
    ELSE Leaf("Prim", ty, b)

ReadRef(env, ty, addr) ==
    IF addr \in DOMAIN env THEN RValue("Ref", ty, <<>>, <<addr>>, <<>>, <<env[addr]>>)
    ELSE RValue("UnresolvedRef", "", <<>>, <<addr>>, <<>>, <<>>)

ReadStruct(ty, ns, vals) ==
    IF ty = "()" /\ vals = <<>> THEN UnitR
    ELSE IF ty = "String" /\ ns = <<"vec">>
    THEN IF vals[1].k = "Bytes" THEN string_from_utf8(vals[1].b) ELSE Opaque
    ELSE RValue("Struct", ty, <<>>, <<>>, ns, vals)

-----------------------------------------------------------------------------
(***************************************************************************)
(* RValue::lift, in which what the standard library has inside gives way   *)
(* to what it is.  What cannot be lifted any further stays.                *)
(***************************************************************************)
Field(x, name) == IF \E i \in DOMAIN x.fs : x.fs[i] = name
                  THEN x.of[CHOOSE i \in DOMAIN x.fs : x.fs[i] = name]
                  ELSE Opaque

AddrOf(x)   == IF x.k = "Ref" THEN x.at[1] ELSE Zero(8)
Emptied(x)  == [x EXCEPT !.fs = <<>>, !.of = <<>>]

\* A count of a lifted Cell<usize>.
Counted(x, name) == LET c == Field(Field(x, name), "value") IN IF c.k = "Prim" THEN c.b ELSE Zero(8)
Counts(x)        == Counted(x, "strong") \o Counted(x, "weak")
Counting(ty)     == IF ty \in {"Arc<", "Arc<dyn "} THEN "data" ELSE "value"

LiftTuple(x) ==
    IF \A i \in DOMAIN x.fs : x.fs[i] = Numbers[i]
    THEN RValue("Tuple", x.ty, <<>>, <<>>, <<>>, x.of)
    ELSE Emptied(x)

LiftCell(x) ==
    LET value == IF "value" \in ToSet(x.fs) THEN Field(x, "value") ELSE Field(x, "v")
        inner == Field(value, "value")
    IN  IF inner.k = "Prim" THEN RValue("Struct", x.ty, <<>>, <<>>, <<"value">>, <<inner>>) ELSE x

LiftDynRef(x) ==
    LET pointer == Field(x, "pointer")
        vtable  == Field(x, "vtable")
    IN  IF ~({"pointer", "vtable"} \subseteq ToSet(x.fs)) THEN x
        ELSE RValue("DynRef", x.ty, <<>>, <<AddrOf(pointer), AddrOf(vtable)>>, <<>>,
                    IF pointer.k = "Ref" THEN pointer.of ELSE <<Opaque>>)

LiftDynRefCounted(x) ==
    LET inner   == Field(Field(x, "ptr"), "pointer")
        pointer == Field(inner, "pointer")
    IN  IF pointer.k = "Ref" /\ "vtable" \in ToSet(inner.fs)
        THEN RValue("DynRefCounted", x.ty, Counts(pointer.of[1]), <<pointer.at[1], AddrOf(Field(inner, "vtable"))>>,
                    <<>>, <<Field(pointer.of[1], Counting(x.ty))>>)
        ELSE Emptied(x)

LiftRefCounted(x) ==
    LET pointer == Field(Field(x, "ptr"), "pointer")
    IN  IF pointer.k = "Ref"
        THEN RValue("RefCounted", x.ty, Counts(pointer.of[1]), pointer.at, <<>>, <<Field(pointer.of[1], Counting(x.ty))>>)
        ELSE Emptied(x)

LiftStruct(x) ==
    CASE x.ty = "("                          -> LiftTuple(x)
      [] x.ty \in {"Cell<", "Atomic<"}       -> LiftCell(x)
      [] x.ty \in {"&dyn ", "Box<dyn "}      -> LiftDynRef(x)
      [] x.ty \in {"Rc<dyn ", "Arc<dyn "}    -> LiftDynRefCounted(x)
      [] x.ty \in {"Rc<", "Arc<"}            -> LiftRefCounted(x)
      [] OTHER                               -> x

\* Option and Result: the field "0"; an Option may have none.
LiftUnion(x) ==
    IF x.ty \notin {"Option", "Result"} THEN x
    ELSE RValue(x.ty, x.ty, x.b, <<>>, <<>>,
                IF x.fs = <<"0">> THEN x.of ELSE IF x.ty = "Option" THEN <<>> ELSE <<Opaque>>)

RECURSIVE lift(_)
lift(x) ==
    LET inside == [x EXCEPT !.of = [i \in DOMAIN x.of |-> lift(x.of[i])]]
    IN  CASE x.k \in {"Ref", "Array"} -> inside
          [] x.k = "Struct"          -> LiftStruct(inside)
          [] x.k = "Union"           -> LiftUnion(inside)
          [] OTHER                   -> x     \* lifted already, or nothing to lift

=============================================================================
