----------------------------- MODULE ValueTypes -----------------------------
(***************************************************************************)
(* Rust types as the debugger knows them: debugger/src/value/value_type.rs.*)
(* What LLDB knows of a type (SBType) is the type itself, a tree; what the *)
(* debugger has is its name, from which it parses a ValueType.             *)
(***************************************************************************)
EXTENDS Integers, Sequences, FiniteSets, SequencesExt, FiniteSetsExt

Ty(is, of, n) == [is |-> is, of |-> of, n |-> n]

(***************************************************************************)
(* Types.  "array" has a length, and "enum" (C-style, of one byte) a number*)
(* of variants, as n; "union" is an enum with a field in each variant.  A  *)
(* hash map or set has as n whether LLDB knows the type of its buckets.    *)
(* "str", "slice" and "dyn" are only ever pointed to.                      *)
(***************************************************************************)
Size == [p \in {"()"} |-> 0] @@ [p \in {"bool", "u8", "i8"} |-> 1] @@ [p \in {"u16", "i16"} |-> 2]
        @@ [p \in {"char", "u32", "i32", "f32"} |-> 4]
        @@ [p \in {"u64", "i64", "usize", "isize", "f64"} |-> 8]
        @@ [p \in {"u128", "i128"} |-> 16]

Prims    == DOMAIN Size
Floats   == {"f32", "f64"}
Signed   == {"i8", "i16", "i32", "i64", "i128", "isize"}
Integral == Prims \ (Floats \cup {"()", "bool", "char"})
Pointers == {"&", "&mut", "Box", "Rc", "Arc"}
Hashed   == {"HashMap", "HashSet"}
Structs  == {"struct", "tuple", "PhantomData", "String", "Vec"} \cup Hashed

Prim(p)  == Ty(p, <<>>, 0)
Unit     == Prim("()")

IsFat(t)  == t.is \in Pointers /\ t.of[1].is \in {"str", "slice", "dyn"}
IsThin(t) == t.is \in Pointers /\ ~IsFat(t)

\* What LLDB takes for a struct, and its fields.
IsStruct(t) == t.is \in Structs \/ IsFat(t)

Fields(t) ==
    IF t.is \in Hashed THEN <<Ty("tuple", <<Prim("u64"), Prim("u64")>>, 0), Ty("RawTable", <<>>, 0)>>
    ELSE IF t.is = "Vec" THEN <<Ty("tuple", <<Prim("u64"), Prim("usize")>>, 0), Prim("usize")>>
    ELSE IF ~IsFat(t) THEN t.of
    ELSE <<Ty("*", t.of, 0), IF t.of[1].is = "dyn" THEN Ty("&", <<Ty("array", <<Prim("usize")>>, 3)>>, 0)
                             ELSE Prim("usize")>>

-----------------------------------------------------------------------------
(***************************************************************************)
(* Names, cut into the pieces FromStr looks at.                            *)
(***************************************************************************)
Opening == {"Vec<", "HashMap<", "HashSet<", "Option<", "Result<", "Box<", "Rc<", "Arc<", "NonNull<", "Wrapper<",
            "PhantomData<"}

Listed(names) == FoldLeft(LAMBDA s, name : IF s = <<>> THEN name ELSE s \o <<",">> \o name, <<>>, names)

RECURSIVE Name(_)
Name(t) ==
    LET args == [i \in DOMAIN t.of |-> Name(t.of[i])]
        allocator == <<",", "Global", ">">>
    IN  CASE t.is = "&"      -> <<"&">> \o args[1]
          [] t.is = "&mut"   -> <<"&", "mut ">> \o args[1]
          [] t.is = "Box"    -> <<"Box<">> \o args[1] \o allocator
          [] t.is = "Rc"     -> <<"Rc<">> \o args[1] \o allocator
          [] t.is = "Arc"    -> <<"Arc<">> \o args[1] \o allocator
          [] t.is = "Vec"    -> <<"Vec<">> \o args[1] \o allocator
          [] t.is = "dyn"    -> <<"dyn ", "Trait">>
          [] t.is = "slice"  -> <<"[">> \o args[1] \o <<"]">>
          [] t.is = "array"  -> <<"[">> \o args[1] \o <<"; ", ToString(t.n), "]">>
          [] t.is = "Option" -> <<"Option<">> \o args[1] \o <<">">>
          [] t.is = "Result" -> <<"Result<">> \o Listed(args) \o <<">">>
          [] t.is = "tuple"  -> <<"(">> \o Listed(args) \o <<")">>
          [] t.is = "struct" -> <<"Wrapper<">> \o Listed(args) \o <<">">>
          [] t.is \in Hashed -> <<t.is \o "<">> \o Listed(args) \o <<">">>
          [] t.is = "PhantomData" -> <<"PhantomData<", "T", ">">>
          [] t.is = "*"      -> <<"*const ">> \o args[1]
          [] t.is = "enum"   -> <<"Direction">>
          [] t.is = "union"  -> <<"Shape">>
          [] OTHER           -> <<t.is>>

-----------------------------------------------------------------------------
(***************************************************************************)
(* ValueType, and how it is parsed from a name.  The name that Other keeps *)
(* is left out.                                                            *)
(***************************************************************************)
Other    == Ty("Other", <<>>, 0)
ParseErr == Ty("Err", <<>>, 0)

\* Of parts that were parsed in turn.
Parsed(is, parts, n) == IF \E i \in DOMAIN parts : parts[i] = ParseErr THEN ParseErr ELSE Ty(is, parts, n)

Has(s, piece) == \E i \in DOMAIN s : s[i] = piece
Inner(s)      == SubSeq(s, 2, Len(s) - 1)

Depth(s, i) == LET open  == {j \in 1 .. i - 1 : s[j] \in Opening}
                   close == {j \in 1 .. i - 1 : s[j] = ">"}
               IN  Cardinality(open) - Cardinality(close)

\* The commas that are within no < >.
Separators(s) == {i \in 1 .. Len(s) - 1 : s[i] = "," /\ Depth(s, i) = 0}

\* The place of the separating comma, 0 if there is none.
parse_pair(s) == IF Separators(s) = {} THEN 0 ELSE Min(Separators(s))

\* "In Box<T, A = Global>, the A will be dropped"
maybe_pair(s) == IF parse_pair(s) = 0 THEN Front(s) ELSE SubSeq(s, 1, parse_pair(s) - 1)

Lengths == [len \in {ToString(n) : n \in 0 .. 16} |-> CHOOSE n \in 0 .. 16 : ToString(n) = len]

RECURSIVE FromStr(_)
FromStr(s) ==
    LET first == s[1]
        last  == s[Len(s)]
        Is(i, piece) == Len(s) >= i /\ s[i] = piece
        semicolons   == {i \in DOMAIN s : s[i] = "; "}
        slice        == Is(2, "[") /\ last = "]" /\ semicolons = {}
    IN  CASE first = "&" /\ Is(2, "dyn ") ->
                 Parsed("DynRef", <<FromStr(SubSeq(s, 3, Len(s)))>>, 0)
          [] first = "&" /\ slice ->
                 Parsed("Slice", <<FromStr(SubSeq(s, 3, Len(s) - 1))>>, 0)
          [] first = "&" /\ ~Is(2, "dyn ") /\ ~slice ->
                 Parsed("Reference", <<FromStr(Tail(s))>>, 0)
          [] first = "Option<" ->
                 Parsed("Option", <<FromStr(Inner(s))>>, 0)
          [] first \in {"Box<", "Rc<", "Arc<"} ->
                 Parsed(IF Is(2, "dyn ") THEN "DynRef" ELSE "Reference",
                        <<FromStr(maybe_pair(Tail(s)))>>, 0)
          [] first = "NonNull<" ->
                 Parsed("Reference", <<FromStr(Inner(s))>>, 0)
          [] first = "Result<" ->
                 LET p == parse_pair(Tail(s)) + 1
                 IN  IF p = 1 THEN ParseErr
                     ELSE Parsed("Result", <<FromStr(SubSeq(s, 2, p - 1)),
                                             FromStr(SubSeq(s, p + 1, Len(s) - 1))>>, 0)
          [] first = "[" /\ last = "]" /\ semicolons # {} ->
                 LET p == Max(semicolons)
                     len == SubSeq(s, p + 1, Len(s) - 1)
                 IN  IF Len(len) # 1 \/ len[1] \notin DOMAIN Lengths THEN ParseErr
                     ELSE Parsed("Array", <<FromStr(SubSeq(s, 2, p - 1))>>, Lengths[len[1]])
          [] Len(s) = 1 /\ first \in Prims \cup {"str"} -> Ty(first, <<>>, 0)
          [] OTHER -> Other

ValueType(t) == FromStr(Name(t))

-----------------------------------------------------------------------------
Unknown == -1

RECURSIVE size_of(_)
size_of(v) ==
    CASE v.is \in Prims       -> Size[v.is]
      [] v.is = "Reference"   -> IF v.of[1].is = "str" THEN 16 ELSE 8
      [] v.is \in {"DynRef", "Slice"} -> 16
      [] v.is = "Array"       -> IF size_of(v.of[1]) = Unknown THEN Unknown ELSE size_of(v.of[1]) * v.n
      [] OTHER                -> Unknown

Sized(v, limit) == size_of(v) \in 0 .. limit

is_primitive(v) == v.is \in Prims
is_str(v)       == v.is = "Reference" /\ v.of[1].is = "str"
is_thin_ptr(v)  == v.is = "Reference" /\ v.of[1].is # "str"
is_fat_ptr(v)   == v.is = "DynRef" \/ is_str(v)
is_integer(v)   == v.is \in Integral
is_signed_integer(v) == v.is \in Signed
is_float(v)     == v.is \in Floats

(***************************************************************************)
(* "Boil down a type to its primitive": what a struct has of one field, and*)
(* maybe a PhantomData, is what its field is.                              *)
(***************************************************************************)
RECURSIVE boildown(_, _)
boildown(v, t) ==
    LET fields == Fields(t)
    IN  IF v # Other \/ t.is \notin Structs \/ Len(fields) > 2 THEN v
        ELSE IF Len(fields) = 0 THEN Unit
        ELSE IF Len(fields) = 2 /\ fields[2].is # "PhantomData" THEN v
        ELSE boildown(ValueType(fields[1]), fields[1])

boildown_from(t) == boildown(ValueType(t), t)

\* "Remove all type wrappers": of structs, whether the program's or LLDB's.
RECURSIVE peeloff(_)
peeloff(t) ==
    LET inner == Fields(t)[1]
        isStr == Name(inner) = <<"&", "str">>
    IN  IF Len(Fields(t)) = 1 /\ ~isStr /\ IsStruct(inner) THEN peeloff(inner) ELSE t
=============================================================================
