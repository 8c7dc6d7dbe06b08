---------------------------- MODULE ReturnValue ----------------------------
(***************************************************************************)
(* write_return_value of debugger/src/debugger/return_value.rs, on x86-64: *)
(* the value that a function has returned, told from its registers by the  *)
(* name of its type.                                                       *)
(*                                                                         *)
(* `t` is a type as LLDB has it, `v` a ValueType, and `r` the registers    *)
(* and the memory, as r.mem.                                               *)
(***************************************************************************)
EXTENDS ValueStream

One        == Little(1, 8)
Take(b, n) == SubSeq(b, 1, n)
Lsb(b)     == b[1] % 2

\* A length; what is longer than a byte can tell is longer than anything.
Length(b) == IF \A i \in 2 .. 8 : b[i] = 0 THEN b[1] ELSE 256

-----------------------------------------------------------------------------
(***************************************************************************)
(* Values LLDB creates: from an address, or from the bytes of registers.   *)
(* Where there is another object than one of the type something comes out  *)
(* that the program has not got; where there is none, reading fails.       *)
(***************************************************************************)
sb_value_from_addr(r, addr, t) ==
    LET there == {o \in r.mem : Address(o.at) = addr}
    IN  IF there = {} THEN WriteErr
        ELSE IF \E o \in there : o.t = t
        THEN write_value(t, (CHOOSE o \in there : o.t = t).v)
        ELSE MadeUp

read_memory(r, addr, len) ==
    LET there == {o \in r.mem : Address(o.at) = addr /\ o.t.is = "array" /\ o.t.n = len}
    IN  IF len > 0 /\ there = {} THEN WriteErr
        ELSE Wrote(strlit_v(IF len = 0 THEN <<>>
                            ELSE Cut([i \in 1 .. len |-> (CHOOSE o \in there : TRUE).v.of[i].b[1]])))

(***************************************************************************)
(* ref_value_from_addr: what a pointer of type t that is addr points to.   *)
(* A struct has no pointee, which is what a fat pointer is to LLDB.        *)
(***************************************************************************)
ref_value_from_addr(r, addr, t) ==
    IF ~IsThin(t) THEN WriteErr
    ELSE At(addr, sb_value_from_addr(r, addr, Pointee(t)), Pointer(t, addr))

\* Of the array that is there, as it is written.
SliceOf(r, elem, len, array) ==
    IF len = 0 THEN Wrote(IF elem.is = "u8" THEN bytes_v("&[u8]", <<>>) ELSE slice_v(<<>>))
    ELSE IF array.is # "value" \/ array = MadeUp THEN array
    ELSE write_value(Ty("&", <<Ty("slice", <<elem>>, 0)>>, 0),
                     SliceV(0, (CHOOSE o \in r.mem : Address(o.at) = r.rax /\ o.t = Array(elem, len)).v.of))

\* Of a slice, or of a struct of one.
RECURSIVE get_slice(_, _)
get_slice(r, t) ==
    LET elem == t.of[1].of[1]
        len  == Length(r.rdx)
    IN  IF t.is = "struct"
        THEN With(<<get_slice(r, t.of[1])>>, LAMBDA vals : struct_v(TypeName(t), FieldNames(t), vals))
        ELSE SliceOf(r, elem, len, sb_value_from_addr(r, r.rax, Array(elem, len)))

\* The elements, or the field, that bytes of a register are.
RECURSIVE Decode(_, _, _)
Decode(r, t, b) ==
    CASE t.is = "array" ->
             LET size == SizeOf(t.of[1])
                 elem(i) == Decode(r, t.of[1], SubSeq(b, (i - 1) * size + 1, i * size))
             IN  IF t.of[1].is = "u8" THEN Wrote(bytes_v("[u8; n]", Cut(Take(b, t.n))))
                 ELSE With(Cut([i \in 1 .. t.n |-> elem(i)]), arr_v)
      [] t.is \in {"struct", "tuple"} ->     \* of one field, as far as its type tells
             With([i \in DOMAIN t.of |-> Decode(r, t.of[i], b)],
                  LAMBDA vals : struct_v(TypeName(t), FieldNames(t), vals))
      [] t.is \in Prims \ {"()"} -> Wrote(prim_v(t.is, Take(b, Size[t.is])))
      [] IsThin(t) -> ref_value_from_addr(r, b, t)
      [] OTHER -> write_value(t, UnitV)

-----------------------------------------------------------------------------
(***************************************************************************)
(* One primitive.                                                          *)
(***************************************************************************)
\* Mutant: what has 16 bytes is read from one register.
get_prim_from_rax_rdx_OneRegister(r, v) ==
    CASE v = Unit      -> Wrote(unit_v)
      [] v.is = "bool" -> Wrote(prim_v("bool", <<IF r.rax # Zero(8) THEN 1 ELSE 0>>))
      [] is_float(v)   -> Wrote(prim_v(v.is, Take(r.xmm0, Size[v.is])))
      [] OTHER         -> Wrote(prim_v(v.is, Take(r.rax, Min({8, Size[v.is]}))))

get_prim_from_rax_rdx(r, v) ==
    CASE v = Unit      -> Wrote(unit_v)
      [] v.is = "bool" -> Wrote(prim_v("bool", <<IF r.rax # Zero(8) THEN 1 ELSE 0>>))
      [] v.is \in {"u128", "i128"} -> Wrote(prim_v(v.is, r.rax \o r.rdx))
      [] is_float(v)   -> Wrote(prim_v(v.is, Take(r.xmm0, Size[v.is])))
      [] v.is \in (Prims \ Floats) \ {"()", "bool", "u128", "i128"} -> Wrote(prim_v(v.is, Take(r.rax, Size[v.is])))
      [] OTHER         -> Panic

get_prim_from_rdx(r, v) ==
    CASE v = Unit      -> Wrote(unit_v)
      [] v.is = "bool" -> Wrote(prim_v("bool", <<IF r.rdx # Zero(8) THEN 1 ELSE 0>>))
      [] is_float(v)   -> Wrote(prim_v(v.is, Take(r.xmm0, Size[v.is])))
      [] v.is \in (Prims \ Floats) \ {"()", "bool", "u128", "i128"} -> Wrote(prim_v(v.is, Take(r.rdx, Size[v.is])))
      [] OTHER         -> Panic

get_float_from_xmm0(r, v) == IF is_float(v) THEN Wrote(prim_v(v.is, Take(r.xmm0, Size[v.is]))) ELSE Panic
get_float_from_xmm1(r, v) == IF is_float(v) THEN Wrote(prim_v(v.is, Take(r.xmm1, Size[v.is]))) ELSE Panic

\* primitive_name, and that many bytes of a register.
raw_prim(v, b) == IF is_primitive(v) THEN Wrote(prim_v(v.is, b)) ELSE Panic

-----------------------------------------------------------------------------
(***************************************************************************)
(* One pointer.                                                            *)
(***************************************************************************)
get_reference_from_rax_rdx(r, v, t) ==
    IF is_str(v) THEN read_memory(r, r.rax, Length(r.rdx)) ELSE ref_value_from_addr(r, r.rax, t)

get_reference_from_rdx(r, v, t) ==
    IF v.of[1].is \in {"str", "DynRef"} THEN Panic ELSE ref_value_from_addr(r, r.rdx, t)

(***************************************************************************)
(* A trait object.  What & and Box point to is not known; of what Rc and   *)
(* Arc do, the counts are.                                                 *)
(***************************************************************************)
DynRefOf(r, v, t, box) ==
    LET vtable == [at |-> r.rdx, val |-> opaque_v]
        opaque == [at |-> r.rax, val |-> opaque_v]
        fat    == <<ref_v("ptr", r.rax), ref_v("ref", r.rdx)>>
        both   == <<"pointer", "vtable">>
    IN  IF v.is # "DynRef" THEN Panic
        ELSE IF t.is \notin {"Rc", "Arc"}
        THEN Result("value", struct_v(TypeName(t), both, fat), <<opaque, vtable>>)
        ELSE IF box.is # "value" THEN box
        ELSE Result("value",
                    struct_v(TypeName(t), <<"ptr">>,
                             <<struct_v("NonNull", <<"pointer">>, <<struct_v("inner", both, fat)>>)>>),
                    <<[at |-> r.rax, val |-> box.val], vtable>> \o box.env)

dyn_ref_value_from_rax_rdx(r, v, t) == DynRefOf(r, v, t, sb_value_from_addr(r, r.rax, Pointee(t)))

enumerate_from_rax(r, t) == IF r.rax[1] < t.n THEN Wrote(enumerate_v(t.is, Letters[r.rax[1] + 1])) ELSE WriteErr

final_pass_by_stack(r, t) == sb_value_from_addr(r, r.rax, t)

write_array(r, v, t) == IF Sized(v, 8) THEN Decode(r, t, r.rax) ELSE final_pass_by_stack(r, t)

\* "If encounter error, writes opaque"
write_sb_value(w) == IF w.is = "WriteErr" THEN Wrote(opaque_v) ELSE w

-----------------------------------------------------------------------------
write_option(some) ==
    With(some, LAMBDA vals : union_v("Option", Len(some), <<"None", "Some">>, <<"0">>, vals))

write_result(ok, w) ==
    With(<<w>>, LAMBDA vals : union_v("Result", IF ok THEN 0 ELSE 1, <<"Ok", "Err">>, <<"0">>, vals))

\* Where 16 bytes of an Option or Result are, and its tag.
res_is_rcx(r) == r.rdx = Zero(8) /\ r.rcx \in {Zero(8), One}
WideTag(r)    == IF res_is_rcx(r) THEN r.rcx ELSE r.rdx
Wide(r)       == (IF res_is_rcx(r) THEN r.rsi ELSE r.rdi) \o r.r8

\* What is not null is there.
OptionOfPointer(r, left, t) ==
    CASE left.is = "Slice"  -> get_slice(r, t)
      [] is_thin_ptr(left)  -> ref_value_from_addr(r, r.rax, t)
      [] is_str(left)       -> read_memory(r, r.rax, Length(r.rdx))
      [] left.is = "DynRef" -> dyn_ref_value_from_rax_rdx(r, left, t)
      [] OTHER              -> Wrote(opaque_v)

\* An Option of what has no more than 16 bytes.
OptionInRegisters(r, left, t) ==
    CASE left.is = "bool" ->
             IF r.rax[1] \in {0, 1} THEN write_option(<<Wrote(prim_v("bool", <<r.rax[1]>>))>>)
             ELSE IF r.rax[1] = 2 THEN write_option(<<>>)
             ELSE WriteErr
      [] left.is = "char" ->
             write_option(IF IsChar(r.rax) THEN <<Wrote(prim_v("char", Take(r.rax, 4)))>> ELSE <<>>)
      [] is_primitive(left) /\ size_of(left) <= 8 /\ left.is \notin {"bool", "char"} ->
             write_option(IF r.rax[1] # 0 THEN <<get_prim_from_rdx(r, left)>> ELSE <<>>)
      [] left.is \in {"u128", "i128"} ->
             write_option(IF WideTag(r)[1] % 16 # 0 THEN <<raw_prim(left, Wide(r))>> ELSE <<>>)
      [] OTHER ->
             write_option(IF r.rax = Zero(8) THEN <<>> ELSE <<OptionOfPointer(r, left, t)>>)

OptionReturned(r, v, t) ==
    LET inner == t.of[1]
        left  == boildown(v.of[1], inner)
        enum  == enumerate_from_rax(r, inner)
    IN  IF Sized(left, 16) THEN OptionInRegisters(r, left, inner)
        ELSE IF inner.is = "enum" THEN write_option(IF enum.is = "value" THEN <<enum>> ELSE <<>>)
        ELSE write_sb_value(sb_value_from_addr(r, r.rax, t))

-----------------------------------------------------------------------------
(***************************************************************************)
(* A Result, in the order the cases are told apart.  `left` and `right`    *)
(* are what its types boil down to.                                        *)
(***************************************************************************)
Either(left, right, kinds) ==
    \/ left.is \in kinds /\ size_of(right) = 0
    \/ size_of(left) = 0 /\ right.is \in kinds

\* One side is a pointer, the other nothing, told by null.
ResultOfPointer(r, left, w) ==
    LET null == r.rax = Zero(8)
    IN  write_result(null = (size_of(left) = 0), IF null THEN Wrote(unit_v) ELSE w)

ResultOfBool(r, left) ==
    LET res == r.rax[1] % 4
    IN  IF res = 3 THEN WriteErr
        ELSE write_result((res = 2) = (size_of(left) = 0),
                          Wrote(IF res = 2 THEN unit_v ELSE prim_v("bool", <<res>>)))

ResultOfChar(r, right) ==
    write_result(IsChar(r.rax) = (size_of(right) = 0),
                 Wrote(IF IsChar(r.rax) THEN prim_v("char", Take(r.rax, 4)) ELSE unit_v))

ResultOfWide(r, left, right) ==
    LET ok    == WideTag(r) = Zero(8)
        empty == \/ size_of(left) = 0 /\ ok
                 \/ size_of(right) = 0 /\ WideTag(r) = One
        ty    == IF is_integer(left) THEN left ELSE right
    IN  write_result(ok, IF empty THEN Wrote(unit_v) ELSE raw_prim(ty, Wide(r)))

\* Tag and value in the same register, the value at the multiple of its size.
ResultSquashed(r, left, right) ==
    LET side == IF Lsb(r.rax) = 0 THEN left ELSE right
        size == size_of(side)
    IN  write_result(Lsb(r.rax) = 0,
                     raw_prim(side, IF r.rax \in {Zero(8), One} THEN Take(r.rdx, size)
                                    ELSE SubSeq(r.rax, size + 1, 2 * size)))

\* "discriminant is in rax , data in rdx"
ResultTagged(r, left, right, t) ==
    LET ok    == Lsb(r.rax) = 0
        side  == IF ok THEN left ELSE right
        inner == t.of[IF ok THEN 1 ELSE 2]
    IN  write_result(ok, CASE is_primitive(side) -> get_prim_from_rdx(r, side)
                           [] is_thin_ptr(side)  -> ref_value_from_addr(r, r.rdx, inner)
                           [] OTHER              -> Wrote(opaque_v))

\* "Result<i32, i64>, Result<u64, i64>", and all that was not told apart.
ResultOfOther(r, left, right, t) ==
    LET ok   == r.rax = Zero(8)
        side == IF ok THEN left ELSE right
    IN  IF r.rax \notin {Zero(8), One} THEN write_sb_value(sb_value_from_addr(r, r.rax, t))
        ELSE IF Unknown \in {size_of(left), size_of(right)} \/ size_of(side) > 8 THEN Panic
        ELSE write_result(ok, raw_prim(side, Take(r.rdx, size_of(side))))

Small(v)      == is_integer(v) /\ Sized(v, 4)
Alike(v, w)   == size_of(v) = size_of(w) /\ is_signed_integer(v) = is_signed_integer(w)

ResultOf(r, left, right, t) ==
    LET sized == Unknown \notin {size_of(left), size_of(right)}
        wide  == {"i128", "u128"}
        full  == IF size_of(left) # 0 THEN left ELSE right      \* the side that has something
        inner == IF size_of(left) # 0 THEN t.of[1] ELSE t.of[2]
        empty == Unit \in {left, right}
        str   == \/ size_of(left) = 0 /\ is_str(right)
                 \/ is_str(left) /\ size_of(right) = 0
    IN  IF ~sized THEN ResultOfOther(r, left, right, t)
        ELSE IF size_of(left) = 0 /\ size_of(right) = 0 THEN write_result(r.rax = Zero(8), Wrote(unit_v))
        ELSE IF Either(left, right, {"bool"}) THEN ResultOfBool(r, left)
        ELSE IF Either(left, right, {"char"}) THEN ResultOfChar(r, right)
        ELSE IF Either(left, right, {"Slice"}) THEN ResultOfPointer(r, left, get_slice(r, inner))
        ELSE IF (left.is \in wide /\ left = right) \/ Either(left, right, wide) THEN ResultOfWide(r, left, right)
        ELSE IF str THEN ResultOfPointer(r, left, read_memory(r, r.rax, Length(r.rdx)))
        ELSE IF Either(left, right, {"DynRef"}) THEN ResultOfPointer(r, left, dyn_ref_value_from_rax_rdx(r, full, inner))
        ELSE IF /\ Sized(left, 8) /\ Sized(right, 8)
                /\ \/ left = right
                   \/ is_thin_ptr(left) /\ is_thin_ptr(right)
                   \/ Small(left) /\ Small(right)
                   \/ empty
        THEN IF Small(left) /\ Small(right) /\ ~Alike(left, right) THEN ResultSquashed(r, left, right)
             ELSE IF empty /\ (is_thin_ptr(left) \/ is_thin_ptr(right))
             THEN ResultOfPointer(r, left, Decode(r, inner, r.rax))
             ELSE ResultTagged(r, left, right, t)
        ELSE ResultOfOther(r, left, right, t)

ResultReturned(r, v, t) == ResultOf(r, boildown(v.of[1], t.of[1]), boildown(v.of[2], t.of[2]), t)

-----------------------------------------------------------------------------
(***************************************************************************)
(* Anything else, by its fields when all type wrappers are removed.        *)
(***************************************************************************)
FieldAlone(r, left, field) ==
    CASE is_primitive(left)     -> get_prim_from_rax_rdx(r, left)
      [] left.is = "Reference"  -> get_reference_from_rax_rdx(r, left, field)
      [] OTHER                  -> IF is_fat_ptr(left) THEN Panic ELSE Wrote(opaque_v)

OneField(r, t, current, left) ==
    IF left.is = "Array" THEN write_sb_value(write_array(r, left, t))
    ELSE IF Sized(left, 16)
    THEN With(<<FieldAlone(r, left, Fields(current)[1])>>,
              LAMBDA vals : struct_v(TypeName(t), FieldNames(current), vals))
    ELSE write_sb_value(final_pass_by_stack(r, t))

\* The larger of two floats comes first.
TwoFloats(r, left, right) ==
    IF size_of(left) >= size_of(right)
    THEN <<get_float_from_xmm0(r, left), get_float_from_xmm1(r, right)>>
    ELSE <<get_float_from_xmm1(r, left), get_float_from_xmm0(r, right)>>

FirstOfTwo(r, left, t) ==
    CASE is_primitive(left)    -> get_prim_from_rax_rdx(r, left)
      [] left.is = "Reference" -> get_reference_from_rax_rdx(r, left, t)
      [] OTHER                 -> Wrote(opaque_v)

\* Mutant: the registers of the second go by the first.
SecondOfTwo_LikeFirst(r, left, right, t) ==
    CASE is_float(left) /\ is_primitive(right)  -> get_float_from_xmm1(r, right)
      [] ~is_float(left) /\ is_primitive(right) -> get_prim_from_rdx(r, right)
      [] right.is = "Reference" -> get_reference_from_rdx(r, right, t)
      [] OTHER                  -> Wrote(opaque_v)

SecondOfTwo(r, left, right, t) ==
    CASE is_float(right)        -> IF is_float(left) THEN get_float_from_xmm1(r, right) ELSE get_float_from_xmm0(r, right)
      [] is_primitive(right) /\ ~is_float(right) -> get_prim_from_rdx(r, right)
      [] right.is = "Reference" -> get_reference_from_rdx(r, right, t)
      [] OTHER                  -> Wrote(opaque_v)


TwoFields(r, t, current, left, right) ==
    LET fields == Fields(current)
        Struct(vals) == struct_v(TypeName(t), FieldNames(current), vals)
    IN  IF ~(Sized(left, 8) /\ Sized(right, 8)) THEN write_sb_value(final_pass_by_stack(r, t))
        ELSE IF is_float(left) /\ is_float(right) /\ left # right THEN With(TwoFloats(r, left, right), Struct)
        ELSE With(<<FirstOfTwo(r, left, fields[1]), SecondOfTwo(r, left, right, fields[2])>>, Struct)

StructReturned(r, t, current, fields) ==
    CASE Len(fields) = 0 -> Wrote(unit_v)
      [] Len(fields) = 1 -> OneField(r, t, current, boildown_from(fields[1]))
      [] Len(fields) = 2 -> TwoFields(r, t, current, boildown_from(fields[1]), boildown_from(fields[2]))
      [] OTHER           -> write_sb_value(final_pass_by_stack(r, t))

PeeledReturned(r, t, current) ==
    CASE t.is = "union"       -> Wrote(opaque_v)
      [] current.is = "enum"  -> write_sb_value(enumerate_from_rax(r, current))
      [] IsStruct(current)    -> StructReturned(r, t, current, Fields(current))
      [] OTHER                -> write_sb_value(final_pass_by_stack(r, t))

OtherReturned(r, t) == PeeledReturned(r, t, peeloff(t))

-----------------------------------------------------------------------------
write_return_value(r, t) ==
    LET v == ValueType(t)
    IN  CASE v = ParseErr         -> WriteErr
          [] is_primitive(v)      -> get_prim_from_rax_rdx(r, v)
          [] v.is = "Reference"   -> get_reference_from_rax_rdx(r, v, t)
          [] v.is = "DynRef"      -> dyn_ref_value_from_rax_rdx(r, v, t)
          [] v.is = "Option"      -> OptionReturned(r, v, t)
          [] v.is = "Result"      -> ResultReturned(r, v, t)
          [] v.is = "Array"       -> write_sb_value(write_array(r, v, t))
          [] v.is = "Slice"       -> get_slice(r, t)
          [] v = Other            -> OtherReturned(r, t)

(***************************************************************************)
(* The event of a return: the caller writes opaque where there is an error.*)
(***************************************************************************)
ReturnEvent(w) ==
    <<Str("return_value"), Op("name")>> \o (IF w.is = "value" THEN emit_env(w.env) \o w.val ELSE opaque_v)
=============================================================================
