------------------------------ MODULE Captures ------------------------------
(***************************************************************************)
(* From a function that returns to the value that is shown: the return     *)
(* event is written from the registers (ReturnValue), read back token by   *)
(* token by SourceReader::read_values of debugger/src/reader.rs with its   *)
(* stacks, and lifted.                                                     *)
(***************************************************************************)
EXTENDS ReturnValue

CONSTANTS
    Returns,    \* the types and values that are returned, as <<t, v>>
    Stale       \* bytes that may be left where no part of the value is

VARIABLES
    type, value,    \* what is returned
    junk, inRcx,    \* what else is in the registers (Abi)
    phase,
    source,         \* the tokens that are still to be read
    str_stack, byte_stack, int_stack, val_stack, names,
    env             \* of the ReaderContext

stacks == <<str_stack, byte_stack, int_stack, val_stack, names, env>>
return == <<llvm18, type, value, junk, inRcx>>
vars   == <<return, phase, source, stacks>>

NoEnv == [a \in {} |-> Opaque]

\* What the debugger finds at the return.
AtReturn == Registers(type, value, junk, inRcx) @@ [mem |-> Memory(type, value)]

Init ==
    /\ llvm18 \in BOOLEAN
    /\ \E pair \in Returns : type = pair[1] /\ value = pair[2]
    /\ junk \in Stale
    /\ inRcx \in IF IsWide(type) THEN BOOLEAN ELSE {FALSE}
    /\ phase = "return"
    /\ source = <<>>
    /\ str_stack = <<>> /\ byte_stack = <<>> /\ int_stack = <<>> /\ val_stack = <<>>
    /\ names = <<>>
    /\ env = NoEnv

\* The debugger writes the event, or dies of it.
WriteReturn ==
    /\ phase = "return"
    /\ \E w \in {write_return_value(AtReturn, type)} :
           \/ /\ w.is = "Panic"
              /\ phase' = "panic"
              /\ UNCHANGED source
           \/ /\ w.is # "Panic"
              /\ phase' = "read"
              /\ source' = ReturnEvent(w)
    /\ UNCHANGED <<return, stacks>>

-----------------------------------------------------------------------------
(***************************************************************************)
(* read_values.  Stacks grow at the end.                                   *)
(***************************************************************************)
Tok == Head(source)

Reading(k, s) ==
    /\ phase = "read"
    /\ source # <<>>
    /\ Tok.k = k
    /\ k = "Op" => Tok.s = s
    /\ source' = Tail(source)
    /\ UNCHANGED <<return, phase>>

Popped(s, n) == SubSeq(s, 1, Len(s) - n)
TopOf(s, n)  == SubSeq(s, Len(s) - n + 1, Len(s))
BeforeLast(s)   == s[Len(s) - 1]

ReadOperand ==
    \/ /\ Reading("Str", "")
       /\ str_stack' = Append(str_stack, Tok.s)
       /\ UNCHANGED <<byte_stack, int_stack, val_stack, names, env>>
    \/ /\ Reading("Bytes", "")
       /\ byte_stack' = Append(byte_stack, Tok.b)
       /\ UNCHANGED <<str_stack, int_stack, val_stack, names, env>>
    \/ /\ Reading("Int", "")
       /\ int_stack' = Append(int_stack, Tok.n)
       /\ UNCHANGED <<str_stack, byte_stack, val_stack, names, env>>

\* How many of each stack the next token takes.
Operands ==
    LET n  == IF int_stack = <<>> THEN 0 ELSE Last(int_stack)
        fc == IF Len(int_stack) < 3 THEN 0 ELSE int_stack[Len(int_stack) - 2]
        Takes(strs, blobs, ints, vals) == [str |-> strs, byte |-> blobs, int |-> ints, val |-> vals]
    IN  IF Tok.k # "Op" THEN Takes(0, 0, 0, 0)
        ELSE CASE Tok.s = "setenv"               -> Takes(0, 1, 0, 1)
               [] Tok.s \in {"prim", "bytes", "ref"} -> Takes(1, 1, 0, 0)
               [] Tok.s \in {"arr", "slice", "vec"} -> Takes(0, 0, 1, n)
               [] Tok.s = "struct"               -> Takes(n + 1, 0, 1, n)
               [] Tok.s = "enum"                 -> Takes(2, 0, 0, 0)
               [] Tok.s \in {"unit", "opaque"}   -> Takes(0, 0, 0, 0)
               [] Tok.s = "strlit"               -> Takes(0, 1, 0, 0)
               [] Tok.s = "union_decl"           -> Takes(n + 1 + fc, 0, 3, fc)
               [] Tok.s = "name"                 -> Takes(1, 0, 0, 0)

\* Every pop of the reader is unwrapped.
Enough ==
    /\ Len(str_stack) >= Operands.str
    /\ Len(byte_stack) >= Operands.byte
    /\ Len(int_stack) >= Operands.int
    /\ Len(val_stack) >= Operands.val

Pops ==
    /\ Enough
    /\ str_stack' = Popped(str_stack, Operands.str)
    /\ byte_stack' = Popped(byte_stack, Operands.byte)
    /\ int_stack' = Popped(int_stack, Operands.int)

ReadName ==
    /\ Reading("Op", "name")
    /\ Pops
    /\ names' = Append(names, Last(str_stack))
    /\ UNCHANGED <<val_stack, env>>

ReadSetEnv ==
    /\ Reading("Op", "setenv")
    /\ Pops
    /\ env' = (Last(byte_stack) :> Last(val_stack)) @@ env
    /\ val_stack' = Popped(val_stack, 1)
    /\ UNCHANGED names

Constructs(op, val) ==
    /\ Reading("Op", op)
    /\ Pops
    /\ val_stack' = Append(Popped(val_stack, Operands.val), val)
    /\ UNCHANGED <<names, env>>

Vals == TopOf(val_stack, Operands.val)

ReadLeaf ==
    \/ Constructs("unit", UnitR)
    \/ Constructs("opaque", Opaque)
    \/ Constructs("prim", ReadPrim(Last(str_stack), Last(byte_stack)))
    \/ Constructs("bytes", Leaf("Bytes", Last(str_stack), Last(byte_stack)))
    \/ Constructs("strlit", string_from_utf8(Last(byte_stack)))
    \/ Constructs("enum", Leaf("Enum", BeforeLast(str_stack), <<Last(str_stack)>>))

ReadReference == Constructs("ref", ReadRef(env, Last(str_stack), Last(byte_stack)))

ReadList ==
    \/ Constructs("arr", ArrayR("arr", Vals))
    \/ Constructs("vec", ArrayR("vec", Vals))
    \/ Constructs("slice", ArrayR("slice", Vals))

\* The names of the fields are below that of the type.
ReadStructure ==
    Constructs("struct", ReadStruct(Last(str_stack), TopOf(Popped(str_stack, 1), Last(int_stack)), Vals))

\* Popped in turn: the number of variants, the variants, the name, the index, the number of fields, these.
ReadUnion ==
    LET vc       == Last(int_stack)
        index    == BeforeLast(int_stack)
        variants == TopOf(str_stack, vc)
        below    == Popped(str_stack, vc)
    IN  Constructs("union_decl",
                   UnionR(Last(below), index, variants, TopOf(Popped(below, 1), Len(Vals)), Vals))

\* At the end of the source, what is on the stack is lifted.
Lift ==
    /\ phase = "read"
    /\ source = <<>>
    /\ val_stack' = [i \in DOMAIN val_stack |-> lift(val_stack[i])]
    /\ phase' = "done"
    /\ UNCHANGED <<return, source, str_stack, byte_stack, int_stack, names, env>>

Read == ReadOperand \/ ReadName \/ ReadSetEnv \/ ReadLeaf \/ ReadReference \/ ReadList \/ ReadStructure \/ ReadUnion

Stopped == phase \in {"done", "panic"} /\ UNCHANGED vars

Next == WriteReturn \/ Read \/ Lift \/ Stopped

Spec == Init /\ [][Next]_vars

-----------------------------------------------------------------------------
(***************************************************************************)
(* What a value is, and what is seen of it, in common terms: whatever has  *)
(* one field is that field, for structs are written without their wrappers.*)
(* "?" is what is shown as opaque.                                         *)
(***************************************************************************)
Term(k, b, of) == [k |-> k, b |-> b, of |-> of]

Nothing == Term("unit", <<>>, <<>>)
Hidden  == Term("?", <<>>, <<>>)

FieldsTerm(terms) ==
    LET some == SelectSeq(terms, LAMBDA x : x # Nothing)
    IN  IF some = <<>> THEN Nothing ELSE IF Len(some) = 1 THEN some[1] ELSE Term("fields", <<>>, some)

\* The characters that are whole within the limit.
WholeChars(b) ==
    LET ends == {n \in 0 .. Len(Cut(b)) : EndsWhole(SubSeq(b, 1, n))} IN SubSeq(b, 1, Max(ends))

RECURSIVE Meant(_, _)
Meant(t, v) ==
    LET elems(e) == IF e.is = "u8" THEN Term("bytes", FlattenSeq([i \in DOMAIN Cut(v.of) |-> v.of[i].b]), <<>>)
                    ELSE Term("list", <<>>, [i \in DOMAIN Cut(v.of) |-> Meant(e, v.of[i])])
    IN  CASE t.is \in {"()", "PhantomData"} -> Nothing
          [] t.is \in Prims \ {"()"}        -> Term(t.is, v.b, <<>>)
          [] t.is = "enum"                  -> Term("enum", <<Letters[v.n + 1]>>, <<>>)
          [] t.is = "union"                 -> Term("union", <<v.n>>, <<>>)
          [] t.is = "String"                -> Term("text", WholeChars(v.b), <<>>)
          [] t.is \in {"array", "Vec"}      -> elems(t.of[1])
          [] t.is \in Hashed ->
                 LET item(e) == IF t.is = "HashSet" THEN Meant(t.of[1], e) ELSE Meant(Ty("tuple", t.of, 0), e)
                 IN  FieldsTerm(<<Term("list", <<>>, [i \in DOMAIN Cut(v.of) |-> item(v.of[i])]),
                                  Term("usize", Address(Len(v.of)), <<>>)>>)
          [] t.is \in {"struct", "tuple"}   -> FieldsTerm([i \in DOMAIN t.of |-> Meant(t.of[i], v.of[i])])
          [] IsThin(t) /\ t.is \in {"Rc", "Arc"} ->
                 Term("counted", Address(v.at) \o Address(2) \o Address(1), <<Meant(t.of[1], v.of[1])>>)
          [] IsThin(t) /\ t.is \notin {"Rc", "Arc"} -> Term("ref", Address(v.at), <<Meant(t.of[1], v.of[1])>>)
          [] IsFat(t) /\ t.of[1].is = "str"   -> Term("text", WholeChars(v.b), <<>>)
          [] IsFat(t) /\ t.of[1].is = "slice" -> elems(t.of[1].of[1])
          [] IsFat(t) /\ t.of[1].is = "dyn"   ->
                 Term("dyn", Address(v.at) \o Address(v.at + 1)
                             \o (IF t.is \in {"Rc", "Arc"} THEN Address(2) \o Address(1) ELSE <<>>), <<>>)
          [] t.is = "Option" -> Term("Option", <<Variants(t)[v.n + 1]>>, IF v.n = 0 THEN <<>> ELSE <<Meant(t.of[1], v.of[1])>>)
          [] t.is = "Result" -> Term("Result", <<Variants(t)[v.n + 1]>>, <<Meant(Side(t, v), Payload(v))>>)

RECURSIVE Seen(_)
Seen(x) ==
    LET terms == [i \in DOMAIN x.of |-> Seen(x.of[i])]
        addrs == FlattenSeq(x.at)
    IN  CASE x.k = "Unit"   -> Nothing
          [] x.k = "Opaque" -> Hidden
          [] x.k = "Prim"   -> Term(x.ty, x.b, <<>>)
          [] x.k = "Bytes"  -> Term("bytes", x.b, <<>>)
          [] x.k = "String" -> Term("text", x.b, <<>>)
          [] x.k = "Enum"   -> Term("enum", x.b, <<>>)
          [] x.k = "Array"  -> Term("list", <<>>, terms)
          [] x.k = "Ref"    -> Term("ref", addrs, terms)
          [] x.k = "RefCounted" -> Term("counted", addrs \o x.b, terms)
          [] x.k \in {"DynRef", "DynRefCounted"} -> Term("dyn", addrs \o x.b, <<>>)
          [] x.k \in {"Struct", "Tuple"}  -> FieldsTerm(terms)
          [] x.k \in {"Option", "Result"} -> Term(x.k, x.b, terms)
          [] OTHER -> Term(x.k, <<>>, terms)

\* x is y, but for what it hides.
RECURSIVE Agrees(_, _)
Agrees(x, y) ==
    \/ x = Hidden
    \/ /\ x.k = y.k /\ x.b = y.b /\ Len(x.of) = Len(y.of)
       /\ \A i \in DOMAIN x.of : Agrees(x.of[i], y.of[i])

Shown == Seen(val_stack[1])

-----------------------------------------------------------------------------
(***************************************************************************)
(* The types whose values the debugger finds: where it looks, by the name  *)
(* of the type, is where rustc has put them.  What NothingMadeUp and       *)
(* ShownInFull say is of these types alone; the comments say what is not   *)
(* found, with the line of return_value.rs, or another file, it is due to. *)
(***************************************************************************)
\* The parser does not know "mut" before a slice, a string or a trait object (value_type.rs:235-240).
IsMutFat(t) == t.is = "&mut" /\ IsFat(t)

\* A struct of a trait object is not written as one (:376), nor has one of a reference a pointee (:255).
IsDirect(t, b) ==
    ~IsMutFat(t) /\ (t.is \in Pointers \/ is_primitive(b) \/ is_str(b) \/ b.is = "Slice")

IsFloat(t) == is_float(boildown_from(t))
IsUnit(t)  == boildown_from(t) = Unit

\* Not a bool: it is true if any of the register is set (:78, :150), of which it has one byte.
IsWord(t) ==
    LET b == boildown_from(t)
    IN  IsThin(t) \/ (is_primitive(b) /\ Sized(b, 8) /\ ~IsFloat(t) /\ b \notin {Unit, Prim("bool")})

\* "Cannot get &dyn from rdx" (:345): of a pointer to a Box<dyn>.
IsPointerToObject(t) == \E b \in {boildown_from(t)} : b.is = "Reference" /\ b.of[1].is = "DynRef"

InOrder(t) == \A i \in DOMAIN t.of : OrderOf(t)[i] = i

\* Of two words the first in memory is in rax, which is read as the first declared; the only word is in rax, and read
\* from rdx after a float or nothing (:1199).  Two arrays of 8 bytes are in memory, and not looked for there (:1159).
TwoAreFound(t) ==
    LET first  == t.of[1]
        second == t.of[2]
    IN  \/ IsFloat(first) /\ (IsFloat(second) \/ IsUnit(second))
        \/ IsWord(first) /\ (IsFloat(second) \/ IsUnit(second))
        \/ IsWord(first) /\ IsWord(second) /\ InOrder(t) /\ ~IsPointerToObject(second)
        \/ InMemory(t) /\ ~(Sized(boildown_from(first), 8) /\ Sized(boildown_from(second), 8))

\* What is in a register, but has a name that does not tell its size, is taken for an address (:1219).
FieldsAreFound(t) ==
    CASE Len(t.of) = 0 -> TRUE
      [] Len(t.of) = 1 -> LET b == boildown_from(t.of[1])
                          IN  is_primitive(b) \/ is_str(b) \/ is_thin_ptr(b) \/ b.is = "Array" \/ (InMemory(t) /\ ~Sized(b, 16))
      [] Len(t.of) = 2 -> TwoAreFound(t)
      [] OTHER         -> InMemory(t)

\* Slices and trait objects are structs to LLDB, and peeled like these (:1245).  A tuple of a struct is written with its
\* type and the field of the struct (:1138), and is no tuple then (rvalue.rs:33-41).
StructIsFound(t) ==
    LET inner == peeloff(t)
    IN  \/ inner.is = "enum"
        \/ inner.is \in {"struct", "tuple"} /\ (t.is = "tuple" => inner = t) /\ FieldsAreFound(inner)
        \/ inner.is \in {"String", "Vec"} /\ t.is = "struct"

\* An array is told from None by null, like a pointer (:640).
OptionIsFound(t) ==
    LET b == boildown_from(t.of[1])
    IN  IF Sized(b, 16) THEN IsDirect(t.of[1], b) ELSE t.of[1].is = "enum" \/ InMemory(t)

\* `left` and `right` are what is between the commas of the name, which are looked for within no < >, be it in a tuple
\* (value_type.rs:327-344).  For other types than these an address is expected in rax, or what is 0 or 1 for a tag (:1032).
ResultIsFound(t, left, right) ==
    \/ right = Unit /\ IsDirect(t.of[1], left)
    \/ left = Unit /\ IsDirect(t.of[2], right)
    \/ left = right /\ is_primitive(left) /\ left # Prim("bool")
    \/ is_thin_ptr(left) /\ is_thin_ptr(right) /\ IsThin(t.of[1]) /\ IsThin(t.of[2])
    \/ is_integer(left) /\ is_integer(right)
    \/ InMemory(t) /\ ~IsWide(t) /\ "Array" \notin {left.is, right.is}

\* The key is taken to be first in a bucket of unknown type ("can be wrong", value/writer.rs:437); there is no alignment
\* for an Option, and one of 3 for an array of 3 bytes (value_type.rs:442-447).
ItemsAreFound(t) == IsLayout(bucket_align(t)) /\ (t.n = 1 \/ InOrder(Bucket(t)))

\* An enum with fields is always opaque (:1097).
IsFound(t) ==
    LET v == ValueType(t)
    IN  CASE v = ParseErr \/ ~HasLayout(t) -> FALSE
          [] t.is = "Option" -> OptionIsFound(t)
          [] t.is = "Result" -> ResultIsFound(t, boildown(v.of[1], t.of[1]), boildown(v.of[2], t.of[2]))
          [] t.is \in {"struct", "tuple"} -> StructIsFound(t)
          [] t.is \in Hashed -> ItemsAreFound(t)
          [] OTHER           -> t.is # "union" /\ ~IsMutFat(t)

-----------------------------------------------------------------------------
(***************************************************************************)
(* What depends on the values as well: a Result is told by what registers  *)
(* hold beside it.                                                         *)
(***************************************************************************)
IsResult == type.is = "Result"
Parsed2   == [i \in 1 .. 2 |-> boildown(ValueType(type).of[i], type.of[i])]
LikeATag == AtReturn.rax \in {Zero(8), One}

\* The tag 0 is in rdx, while rcx happens to hold a tag as well (:825).
TagInBoth == IsResult /\ IsWide(type) /\ ~inRcx /\ value.n = 0 /\ AtReturn.rcx \in {Zero(8), One}

\* Where the value is, is told by what rax holds beside the tag (:957): nothing where the payload is 0,
\* and since llvm 18, when it is in rdx all the same, what was in rax before.
Squashed ==
    /\ IsResult
    /\ Small(Parsed2[1]) /\ Small(Parsed2[2]) /\ ~Alike(Parsed2[1], Parsed2[2])
    /\ LikeATag # (Len(Scalars(type)) = 2)

Misguessed == TagInBoth \/ Squashed

\* What is 0 or 1 is taken for the tag of a primitive in rdx: "unreachable!" if the size of either side is unknown (:1043),
\* and no primitive_name if it is another (:1045).
NoPrimitive == IsResult /\ LikeATag /\ ~(is_primitive(Parsed2[1]) /\ is_primitive(Parsed2[2]))

ObjectFromRdx ==
    \E fields \in {Fields(peeloff(type))} : Len(fields) = 2 /\ IsPointerToObject(fields[2])

-----------------------------------------------------------------------------
RECURSIVE WellTyped(_)
WellTyped(x) ==
    /\ x.k = "Prim" => Len(x.b) = (IF x.ty = "bool" THEN 1 ELSE Size[x.ty])
    /\ \A i \in DOMAIN x.at : Len(x.at[i]) = 8
    /\ \A i \in DOMAIN x.of : WellTyped(x.of[i])

\* The type invariant: what is on the stacks and in the environment.  A primitive has the bytes of its type, without
\* which prim_v (reader.rs:86-119) panics.
TypeOK ==
    /\ phase \in {"return", "read", "done", "panic"}
    /\ str_stack \in Seq(STRING) /\ names \in Seq(STRING)
    /\ byte_stack \in Seq(Seq(Byte))
    /\ int_stack \in Seq(Nat)
    /\ \A i \in DOMAIN val_stack : WellTyped(val_stack[i])
    /\ \A a \in DOMAIN env : Len(a) = 8 /\ WellTyped(env[a])


RECURSIVE HasHidden(_)
HasHidden(x) == x = Hidden \/ \E i \in DOMAIN x.of : HasHidden(x.of[i])


\* The debugger outlives the capture of every type that is found, and of others but for two of its assertions: a panic
\* in write_return_value ends the recording of the whole program.
NeverPanics == phase = "panic" => ~IsFound(type) /\ (NoPrimitive \/ ObjectFromRdx)

\* The reader keeps up with the writer: each token of the event finds its operands (the unwraps of reader.rs:325-405),
\* and in the end there is one value for the one name (the assertion of reader.rs:417) and no operand left.
ReaderKeepsUp ==
    phase = "read" =>
        IF source # <<>> THEN Enough
        ELSE /\ Len(val_stack) = 1 /\ names = <<"return_value">>
             /\ str_stack = <<>> /\ byte_stack = <<>> /\ int_stack = <<>>

\* A reference is read after what it points to: the order in which addresses are allocated while values are written
\* ("it's very important to alloc first", return_value.rs:257), and emitted from the end.
ReferencesResolve ==
    phase = "read" /\ source # <<>> /\ Tok = Op("ref") /\ byte_stack # <<>> => Last(byte_stack) \in DOMAIN env

\* What write_return_value writes can be read back, token by token: whatever the type and the registers.
ReadsBack == ReaderKeepsUp /\ ReferencesResolve
=============================================================================
