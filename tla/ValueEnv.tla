------------------------------ MODULE ValueEnv ------------------------------
(***************************************************************************)
(* How the values of one event are written and read back: the recursive    *)
(* writer of debugger/src/value/writer.rs with the environment of          *)
(* debugger/src/debugger/value_writer.rs, in which what references point   *)
(* to is kept beside them, and the reader of debugger/src/reader.rs.       *)
(*                                                                         *)
(* A value is a list of fields, whatever holds them (a struct, a tuple, a  *)
(* variant, an array, a vector, a hash map); a field is plain, cannot be   *)
(* read, or is a pointer.  The call stack of write_value is explicit.      *)
(***************************************************************************)
EXTENDS Integers, Sequences, FiniteSets

CONSTANTS
    Addr,       \* addresses of objects, one object at each
    Events,     \* what the program's memory may look like at an event
    Limits      \* values of RECURSIVE_DEREF_LIMIT

(***************************************************************************)
(* Pointers differ in how they are written.  Those LLDB knows as pointers  *)
(* or references ("ref") are followed the first time only; those the       *)
(* writer takes apart itself ("opt": Option<Box>, Option<Rc>, &dyn) are    *)
(* followed each time.  A pointer is `lost` if it is within an enum of     *)
(* which LLDB cannot tell the variant.                                     *)
(***************************************************************************)
PlainField == [kind |-> "plain"]
BadField   == [kind |-> "bad"]
Pointers   == [kind : {"ref", "opt"}, to : Addr, lost : BOOLEAN]
Fields     == {PlainField, BadField} \cup Pointers
Event      == [heap : [Addr -> Seq(Fields)], variables : Seq(Seq(Fields))]

ASSUME EventsAssumption ==
    /\ \A e \in Events : /\ DOMAIN e = {"heap", "variables"}
                         /\ e.heap \in [Addr -> Seq(Fields)]
                         /\ e.variables \in Seq(Seq(Fields))
    /\ Limits \subseteq Nat \ {0}

VARIABLES
    event,      \* the memory and the variables to capture
    limit,      \* RECURSIVE_DEREF_LIMIT
    next,       \* the variable to be written next
    stack,      \* calls of write_value under way
    order,      \* the keys of env, in their order
    env,        \* Memory address -> Value, None if not set or already emitted
    out,        \* the bytes of the event, by variable: the entries of env, the value
    entry,      \* how many entries of the variable the reader is at it has read
    known,      \* env of the reader
    values      \* the values it has read

vars == <<event, limit, next, stack, order, env, out, entry, known, values>>

heap == event.heap

None      == [is |-> "none"]
Plain     == [is |-> "plain"]
Opaque    == [is |-> "opaque"]
Ref(a)    == [is |-> "ref", to |-> a]
Struct(s) == [is |-> "struct", fields |-> s]

NoEnv == [a \in Addr |-> None]

Allocated(a) == \E i \in DOMAIN order : order[i] = a

-----------------------------------------------------------------------------
(***************************************************************************)
(* The call stack.  A call has the fields it must still write, the limit   *)
(* it writes them with, and what it does with the result: hand it to the   *)
(* event ("variable"), put it into env under the address of its field's    *)
(* pointer ("pointee"), drop it ("children": those of an enum without a    *)
(* variant) or return it ("fallback": write_union_with).                   *)
(***************************************************************************)
Call(role, field, todo, r) ==
    [role |-> role, field |-> field, todo |-> todo, written |-> <<>>, r |-> r]

Top   == stack[Len(stack)]
Below == SubSeq(stack, 1, Len(stack) - 1)

\* The calls of s, the last of which has written its next field as v.
Wrote(s, v) == [s EXCEPT ![Len(s)].todo = Tail(@), ![Len(s)].written = Append(@, v)]

AtField(f) ==
    /\ stack # <<>>
    /\ Top.todo # <<>>
    /\ f = Head(Top.todo)
    /\ Top.r > 0

Follows(f) == f \in Pointers /\ ~f.lost

Writing == UNCHANGED <<event, limit, entry, known, values>>

BeginVariable ==
    /\ stack = <<>>
    /\ next <= Len(event.variables)
    /\ stack' = <<Call("variable", PlainField, event.variables[next], limit - 1)>>
    /\ Writing /\ UNCHANGED <<next, order, env, out>>

\* "Recursive limit reached"
WriteOpaque ==
    /\ stack # <<>>
    /\ Top.todo # <<>>
    /\ Top.r = 0
    /\ stack' = Wrote(stack, Opaque)
    /\ Writing /\ UNCHANGED <<next, order, env, out>>

WritePlain ==
    /\ AtField(PlainField)
    /\ stack' = Wrote(stack, Plain)
    /\ Writing /\ UNCHANGED <<next, order, env, out>>

\* Mutants: the address is appended without its old place being given up; it is not moved.
Moved_Twice(a) == Append(order, a)
Moved_Stays(a) == IF Allocated(a) THEN order ELSE Append(order, a)

(***************************************************************************)
(* alloc_env: a new address is put last; one that is there already is      *)
(* moved to the end.                                                       *)
(***************************************************************************)
Moved(a) ==
    IF ~Allocated(a) THEN Append(order, a)
    ELSE LET n == Len(order)
             k == CHOOSE k \in 1 .. n : order[k] = a
         IN  [i \in 1 .. n |-> IF i < k THEN order[i] ELSE IF i < n THEN order[i + 1] ELSE a]

AllocEnv(a) == order' = Moved(a)

\* write_value of what is at the address of f, with the limit r
WritePointee(f, r) ==
    IF r = 0
    THEN /\ env' = [env EXCEPT ![f.to] = Opaque]
         /\ stack' = Wrote(stack, Ref(f.to))
    ELSE /\ stack' = Append(stack, Call("pointee", f, heap[f.to], r - 1))
         /\ UNCHANGED env

\* Mutant: the answer of alloc_env is not used.
WriteRef_Always ==
    \E f \in Pointers :
        /\ AtField(f) /\ Follows(f) /\ f.kind = "ref"
        /\ AllocEnv(f.to)
        /\ WritePointee(f, Top.r - 1)
        /\ Writing /\ UNCHANGED <<next, out>>

\* A pointer or reference: its pointee is written when the address is new.
WriteRef ==
    \E f \in Pointers :
        /\ AtField(f) /\ Follows(f) /\ f.kind = "ref"
        /\ AllocEnv(f.to)
        /\ IF Allocated(f.to)
           THEN stack' = Wrote(stack, Ref(f.to)) /\ UNCHANGED env
           ELSE WritePointee(f, Top.r - 1)
        /\ Writing /\ UNCHANGED <<next, out>>

\* pointer_to, ref_counted_to: the pointee is written in any case.
WriteOpt ==
    \E f \in Pointers :
        /\ AtField(f) /\ Follows(f) /\ f.kind = "opt"
        /\ AllocEnv(f.to)
        /\ WritePointee(f, Top.r - 1)
        /\ Writing /\ UNCHANGED <<next, out>>

\* The pointee is complete: set_env, and the reference is the field's value.
PointeeWritten ==
    /\ stack # <<>>
    /\ Top.role = "pointee" /\ Top.todo = <<>>
    /\ env' = [env EXCEPT ![Top.field.to] = Struct(Top.written)]
    /\ stack' = Wrote(Below, Ref(Top.field.to))
    /\ Writing /\ UNCHANGED <<next, order, out>>

\* An enum: what LLDB takes for its children is written before its variant is known.
WriteChildren ==
    \E f \in Pointers :
        /\ AtField(f) /\ f.lost
        /\ stack' = Append(stack, Call("children", f, <<[f EXCEPT !.lost = FALSE]>>, Top.r - 1))
        /\ Writing /\ UNCHANGED <<next, order, env, out>>

\* Mutant: the enum itself is written again, not the variant.
FallBack_Again ==
    /\ stack # <<>>
    /\ Top.role = "children" /\ Top.todo = <<>>
    /\ stack' = Append(Below,
                       Call("children", Top.field, <<[Top.field EXCEPT !.lost = FALSE]>>, limit))
    /\ Writing /\ UNCHANGED <<next, order, env, out>>

\* There is no such variant: write_union_with writes the one that is assumed, with the limit it started from.
FallBack ==
    /\ stack # <<>>
    /\ Top.role = "children" /\ Top.todo = <<>>
    /\ stack' = Append(Below,
                       Call("fallback", Top.field, <<[Top.field EXCEPT !.lost = FALSE]>>, limit))
    /\ Writing /\ UNCHANGED <<next, order, env, out>>

\* Nor can one be assumed.
GiveUp ==
    /\ stack # <<>>
    /\ Top.role = "children" /\ Top.todo = <<>>
    /\ stack' = Wrote(Below, Opaque)
    /\ Writing /\ UNCHANGED <<next, order, env, out>>

FallbackWritten ==
    /\ stack # <<>>
    /\ Top.role = "fallback" /\ Top.todo = <<>>
    /\ stack' = Wrote(Below, Top.written[1])
    /\ Writing /\ UNCHANGED <<next, order, env, out>>

(***************************************************************************)
(* An error is handed up to write_union_with, whose caller takes Opaque    *)
(* instead, or to the event, which does.  What was allocated stays, set or *)
(* not.                                                                    *)
(***************************************************************************)
Fallbacks == {i \in DOMAIN stack : stack[i].role = "fallback"}

\* Mutant: an error that reaches the event empties the environment.
Fail_Clears ==
    /\ AtField(BadField)
    /\ \/ \E i \in Fallbacks :
             /\ \A j \in Fallbacks : j <= i
             /\ stack' = Wrote(SubSeq(stack, 1, i - 1), Opaque)
             /\ UNCHANGED <<next, out, env>>
       \/ /\ Fallbacks = {}
          /\ stack' = <<>>
          /\ out' = Append(out, [keys |-> <<>>, env |-> NoEnv, value |-> Opaque])
          /\ next' = next + 1
          /\ env' = NoEnv
    /\ Writing /\ UNCHANGED order

Fail ==
    /\ AtField(BadField)
    /\ \/ \E i \in Fallbacks :
             /\ \A j \in Fallbacks : j <= i
             /\ stack' = Wrote(SubSeq(stack, 1, i - 1), Opaque)
             /\ UNCHANGED <<next, out>>
       \/ /\ Fallbacks = {}
          /\ stack' = <<>>
          /\ out' = Append(out, [keys |-> <<>>, env |-> NoEnv, value |-> Opaque])
          /\ next' = next + 1
    /\ Writing /\ UNCHANGED <<order, env>>

\* Mutant: from the beginning.
EmitOrder_Forward == order

\* emit_env goes through env from the end; an entry that is not set writes nothing.
EmitOrder == [i \in 1 .. Len(order) |-> order[Len(order) + 1 - i]]

VariableWritten ==
    /\ stack # <<>>
    /\ Top.role = "variable" /\ Top.todo = <<>>
    /\ out' = Append(out, [keys |-> EmitOrder, env |-> env, value |-> Struct(Top.written)])
    /\ env' = NoEnv
    /\ stack' = <<>>
    /\ next' = next + 1
    /\ Writing /\ UNCHANGED order

-----------------------------------------------------------------------------
(***************************************************************************)
(* The reader, for which the event is complete.  A reference is replaced   *)
(* by a copy of what is known at its address by then.                      *)
(***************************************************************************)
RefTo(a, v)   == [is |-> "ref", to |-> a, value |-> v]
Unresolved(a) == [is |-> "unresolved", to |-> a]

Resolve(v) ==
    IF v.is # "ref" THEN v
    ELSE IF known[v.to] # None THEN RefTo(v.to, known[v.to])
    ELSE Unresolved(v.to)

ReadBack(v) ==
    IF v.is = "struct" THEN Struct([i \in DOMAIN v.fields |-> Resolve(v.fields[i])]) ELSE v

Current == out[Len(values) + 1]

Reads ==
    /\ stack = <<>>
    /\ next > Len(event.variables)
    /\ Len(values) < Len(out)
    /\ UNCHANGED <<event, limit, next, stack, order, env, out>>

ReadEntry ==
    /\ Reads
    /\ entry < Len(Current.keys)
    /\ entry' = entry + 1
    /\ LET a == Current.keys[entry + 1]
       IN  known' = IF Current.env[a] = None THEN known
                    ELSE [known EXCEPT ![a] = ReadBack(Current.env[a])]
    /\ UNCHANGED values

ReadValue ==
    /\ Reads
    /\ entry = Len(Current.keys)
    /\ entry' = 0
    /\ values' = Append(values, ReadBack(Current.value))
    /\ UNCHANGED known

-----------------------------------------------------------------------------
Init ==
    /\ event \in Events
    /\ limit \in Limits
    /\ next = 1
    /\ stack = <<>>
    /\ order = <<>>
    /\ env = NoEnv
    /\ out = <<>>
    /\ entry = 0
    /\ known = NoEnv
    /\ values = <<>>

Write ==
    \/ BeginVariable \/ WriteOpaque \/ WritePlain \/ WriteRef \/ WriteOpt
    \/ PointeeWritten \/ WriteChildren \/ FallBack \/ GiveUp \/ FallbackWritten \/ Fail
    \/ VariableWritten

Read == ReadEntry \/ ReadValue

Finished == stack = <<>> /\ next > Len(event.variables) /\ Len(values) = Len(out)

Done == Finished /\ UNCHANGED vars

Next == Write \/ Read \/ Done

Spec == Init /\ [][Next]_vars /\ WF_vars(Write) /\ WF_vars(Read)

-----------------------------------------------------------------------------
(***************************************************************************)
(* The shape of the memory.                                                *)
(***************************************************************************)
To(f, a) == f \in Pointers /\ f.to = a
PointsTo(fields, a) == {i \in DOMAIN fields : To(fields[i], a)}

\* The objects that can be reached from the one at a: those in every set that has
\* what a and its members point to.
Within(h, a) ==
    {b \in Addr : \A S \in SUBSET Addr :
        (\A c \in S \cup {a} : \A d \in Addr : PointsTo(h[c], d) # {} => d \in S) => b \in S}

Acyclic == \A a \in Addr : a \notin Within(heap, a)

\* The pointers to a, in variables and in objects.
Sites(a) ==
    (UNION {{<<"variable", i, j>> : j \in PointsTo(event.variables[i], a)} : i \in DOMAIN event.variables})
    \cup (UNION {{<<"object", b, j>> : j \in PointsTo(heap[b], a)} : b \in Addr})

Somewhere(P(_)) ==
    \/ \E i \in DOMAIN event.variables : \E j \in DOMAIN event.variables[i] : P(event.variables[i][j])
    \/ \E a \in Addr : \E j \in DOMAIN heap[a] : P(heap[a][j])

\* More than one pointer, or one that is written twice.
Shared(a) ==
    \/ \E s1, s2 \in Sites(a) : s1 # s2
    \/ Somewhere(LAMBDA f : To(f, a) /\ f.lost)

IsLeaf(a) == \A b \in Addr : PointsTo(heap[a], b) = {}

IsBad(f)  == f = BadField
IsRef(f)  == f \in Pointers /\ f.kind = "ref"
IsOpt(f)  == f \in Pointers /\ f.kind = "opt"

-----------------------------------------------------------------------------
(***************************************************************************)
(* What a reader should get, where nothing is shared: the memory itself,   *)
(* with Opaque for what is deeper than the limit.                          *)
(***************************************************************************)
ShownAt[r \in 0 .. limit] ==
    [f \in Fields |->
        IF r = 0 THEN Opaque
        ELSE IF f \notin Pointers THEN Plain
        ELSE RefTo(f.to,
                   IF r = 1 THEN Opaque
                   ELSE Struct([i \in DOMAIN heap[f.to] |-> ShownAt[r - 2][heap[f.to][i]]]))]

Shown == ShownAt[limit - 1]

\* The fields of which the writer meets one that cannot be read.
UnreadableAt[r \in 0 .. limit] ==
    {f \in Fields : r > 0 /\ \/ f = BadField
                             \/ /\ f \in Pointers
                                /\ r > 1
                                /\ \E i \in DOMAIN heap[f.to] : heap[f.to][i] \in UnreadableAt[r - 2]}

Unreadable == UnreadableAt[limit - 1]

Expected(fields) ==
    IF \E i \in DOMAIN fields : fields[i] \in Unreadable THEN Opaque
    ELSE Struct([i \in DOMAIN fields |-> Shown[fields[i]]])

-----------------------------------------------------------------------------
WrittenField == {Plain, Opaque} \cup {Ref(a) : a \in Addr}
WrittenValue == {Opaque} \cup [is : {"struct"}, fields : Seq(WrittenField)]

Calls == [role : {"variable", "pointee", "children", "fallback"}, field : Fields,
          todo : Seq(Fields), written : Seq(WrittenField), r : Nat]
Env   == [Addr -> WrittenValue \cup {None}]
Bytes == [keys : Seq(Addr), env : Env, value : WrittenValue]

(***************************************************************************)
(* Types, and how the environment fits the calls: its keys are distinct,   *)
(* what is set is among them, and a call in the role of a pointee has its  *)
(* address allocated (p_set_env expects "addr exists").                    *)
(***************************************************************************)
TypeOK ==
    /\ event.heap \in [Addr -> Seq(Fields)] /\ event.variables \in Seq(Seq(Fields))
    /\ limit \in Limits
    /\ next \in 1 .. Len(event.variables) + 1
    /\ stack \in Seq(Calls)
    /\ \A i \in DOMAIN stack : /\ stack[i].role # "variable" => stack[i].field \in Pointers
                               /\ stack[i].role = "pointee" => Allocated(stack[i].field.to)
    /\ order \in Seq(Addr)
    /\ \A i, j \in DOMAIN order : order[i] = order[j] => i = j
    /\ env \in Env
    /\ \A a \in Addr : env[a] # None => Allocated(a)
    /\ out \in Seq(Bytes)
    /\ entry \in Nat /\ Len(values) <= Len(out)

(***************************************************************************)
(* A tree of objects (no two pointers to one, no enum of lost variant that *)
(* points) is read back as it is in memory, cut at the limit;              *)
(* a variable that cannot be read is opaque and takes nothing of the       *)
(* others with it (value/writer.rs:35, debugger.rs:1039: "If encounter     *)
(* error, writes opaque").                                                 *)
(***************************************************************************)
TreesReadBack ==
    (Finished /\ ~\E a \in Addr : Shared(a))
        => values = [i \in DOMAIN event.variables |-> Expected(event.variables[i])]

IsUnresolved(v) ==
    v.is = "struct" /\ \E i \in DOMAIN v.fields : v.fields[i].is = "unresolved"

NothingUnresolved ==
    /\ \A a \in Addr : ~IsUnresolved(known[a])
    /\ \A i \in DOMAIN values : ~IsUnresolved(values[i])

(***************************************************************************)
(* Where objects are shared but not in a cycle, every reference is         *)
(* resolved if it is only leaves that are shared, or if all pointers are   *)
(* followed each time: moving an address to the end of env then keeps the  *)
(* order (value_writer.rs:164).                                            *)
(***************************************************************************)
SharedResolve ==
    \/ NothingUnresolved
    \/ Somewhere(IsBad)
    \/ ~Acyclic
    \/ Somewhere(IsRef) /\ \E a \in Addr : Shared(a) /\ ~IsLeaf(a)

(***************************************************************************)
(* Nothing is forgotten, cycles and errors or not: what a reference in the *)
(* event points to is in the event, before its reference or after it,      *)
(* except an object that cannot be read (value/base.rs:37, "The Addr must  *)
(* have been allocated already", and set, when the variable ends).         *)
(***************************************************************************)
Refers(v, a) == v.is = "struct" /\ \E i \in DOMAIN v.fields : v.fields[i] = Ref(a)

HoldsBad(a) == \E b \in {a} \cup Within(heap, a) : \E i \in DOMAIN heap[b] : heap[b][i] = BadField

SetAt(a) == {i \in DOMAIN out : out[i].env[a] # None}

IsReferred(a) ==
    \E i \in DOMAIN out : Refers(out[i].value, a) \/ \E b \in Addr : Refers(out[i].env[b], a)

RefsAreSet ==
    \A a \in Addr :
        (SetAt(a) = {} /\ IsReferred(a)) => HoldsBad(a)

(***************************************************************************)
(* What is pointed to by references only is written once per event,        *)
(* however many there are and whether or not they form cycles              *)
(* (value/base.rs:28: "Return true if this address is the first time       *)
(* being allocated").                                                      *)
(***************************************************************************)
WrittenOnce ==
    (\A a \in Addr : \A i, j \in SetAt(a) : i = j) \/ Somewhere(IsOpt)

(***************************************************************************)
(* The event gets written, and read: cycles of either kind of pointer end, *)
(* those by the environment, these by the limit.                           *)
(***************************************************************************)
Terminates == <>Finished
=============================================================================
