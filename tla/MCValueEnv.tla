----------------------------- MODULE MCValueEnv -----------------------------
(* Instances of ValueEnv for TLC: memories of up to three objects. *)
EXTENDS ValueEnv, TLC

Objects == 1 .. 3

Ptr(kind, lost) == [kind : {kind}, to : Addr, lost : {lost}]

PtrsOnly == Ptr("ref", FALSE) \cup Ptr("opt", FALSE)
AnyField == Fields

\* The memory in which the i-th of fields belongs to the object own[i].
Heap(own, fields) ==
    [a \in Addr |->
        LET IsOf(i) == own[i] = a
            at == SelectSeq([i \in 1 .. Len(fields) |-> i], IsOf)
        IN  [k \in 1 .. Len(at) |-> fields[at[k]]]]

\* Memories with n fields of a set.
Heaps(n, fields) ==
    {Heap(own, fs) : own \in {o \in [1 .. n -> Addr] : \A i, j \in 1 .. n : i < j => o[i] <= o[j]},
                     fs \in [1 .. n -> fields]}

\* One variable with two fields, or two with one.
Variables(fields) ==
    {<<<<f, g>>>> : f \in fields, g \in fields} \cup {<<<<f>>, <<g>>>> : f \in fields, g \in fields}

(***************************************************************************)
(* Which object is which does not matter: of the memories that differ in   *)
(* the numbers of the objects only, one is taken, where the writer comes   *)
(* across their addresses in order.                                        *)
(***************************************************************************)
AllFields(e) ==
    LET V(i) == IF i <= Len(e.variables) THEN e.variables[i] ELSE <<>>
    IN  V(1) \o V(2) \o e.heap[1] \o e.heap[2] \o e.heap[3]

Numbered(e) ==
    LET fs == AllFields(e)
    IN  \A i \in DOMAIN fs :
            (fs[i] \in Pointers /\ fs[i].to > 1) =>
                \E j \in 1 .. i - 1 : fs[j] \in Pointers /\ fs[j].to = fs[i].to - 1

(***************************************************************************)
(* write_union_with starts from the limit again: with an enum of lost      *)
(* variant in a cycle of pointers that are followed each time, the writer  *)
(* does not end.                                                           *)
(***************************************************************************)
Endless(e) ==
    \E a \in Addr : \E i \in DOMAIN e.heap[a] :
        LET f == e.heap[a][i]
        IN  f \in Pointers /\ f.lost /\ f.kind = "opt" /\ a \in {f.to} \cup Within(e.heap, f.to)

EventsOf(heaps, variables) ==
    {e \in [heap : heaps, variables : variables] : Numbered(e) /\ ~Endless(e)}

\* Few pointers of any kind, or more of one kind.
SomeEvents ==
    EventsOf(Heaps(2, AnyField), Variables(PtrsOnly \cup {BadField}))
        \cup UNION {EventsOf(Heaps(3, Ptr(kind, FALSE)), Variables(Ptr(kind, FALSE))) :
                       kind \in {"ref", "opt"}}

SharedRefs == EventsOf(Heaps(2, Ptr("ref", FALSE)), Variables(Ptr("ref", FALSE)))
=============================================================================
