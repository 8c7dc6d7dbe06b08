----------------------------- MODULE HeapProofs -----------------------------
(***************************************************************************)
(* What the debugger has on record of the heap is right, and the           *)
(* allocation stream alternates, as long as the program keeps to the three *)
(* conditions below: HeapInv and StreamAlternates are inductive.           *)
(***************************************************************************)
EXTENDS MirrorProofs

\* Allocations are traced; no signal hides a hit; and the program does not box both
\* closures and values of no size (a type noted for the latter would be taken for
\* the next closure's).
Tidy ==
    /\ TraceAllocation
    /\ Signals = FALSE
    /\ ZeroSized = {} \/ \A b \in BoxSites : TypeOf[b] \notin ClosureTypes

-----------------------------------------------------------------------------
(***************************************************************************)
(* The inductive invariant.                                                *)
(***************************************************************************)
\* A thread is trapped where a breakpoint is, ...
HitsPlanted ==
    /\ {PanicPc, TracePc, MallocPc} \cup {CallPc(f) : f \in Functions} \subseteq Planted
    /\ \A t \in Threads : Trapped(t) => pc[t] \in Planted

\* ... and that is the case after every allocation of a known site that gets heap.
AfterPlanted ==
    \A b \in BoxSites :
        /\ AfterPc(b) \in functions_disassembled => b \in ZeroSized \/ AfterPc(b) \in Planted
        /\ AfterPc(b) \in Planted => b \notin ZeroSized

StopsKnown ==
    /\ proc = "stopped" => selected # None
    /\ proc # "stopped" => seen = {}
    /\ \A t \in seen : Trapped(t)

\* The debugger knows which box a thread is about to allocate, or the thread has
\* an address that the debugger has still to see.
Announced(t) == box[t] # None /\ (pc[t] = Elsewhere \/ HitHandled(t))
Fresh(t)     == pc[t].kind = "after" /\ ~HitHandled(t)

TypeNoted(t, b) == allocating[t] = IF TypeOf[b] \in ClosureTypes THEN None ELSE TypeOf[b]

BoxOK(t) ==
    /\ box[t] # None => pc[t] \in {MallocPc, Elsewhere}
    /\ Announced(t) => /\ AfterPc(box[t]) \in functions_disassembled
                       /\ box[t] \notin ZeroSized => TypeNoted(t, box[t])
    /\ ZeroSized = {} /\ allocating[t] # None => Announced(t) \/ Fresh(t)

\* No live value is where the value behind the counters of an Rc is.
BlocksApart ==
    \A a, c \in Addresses : heap[a] = "Rc" /\ heap[c] # Free => c # a + 16

\* A thread just after an allocation, or about to drop, has the value to itself.
Holds(t, a) ==
    /\ heap[a] # Free
    /\ \/ pc[t].kind = "after" /\ reg[t] = a
       \/ pc[t].kind = "drop" /\ reg[t] = ValueAddress(a)

HeldAlone ==
    \A a \in Addresses : \A t, u \in Threads : Holds(t, a) /\ Holds(u, a) => t = u

AllocatedOK(t) ==
    pc[t].kind = "after" =>
        /\ reg[t] \in Addresses /\ Holds(t, reg[t])
        /\ Fresh(t) => /\ heap[reg[t]] = TypeOf[pc[t].at]
                       /\ reg[t] \notin DOMAIN allocation
                       /\ TypeNoted(t, pc[t].at)
        /\ ~Fresh(t) => allocating[t] = None

DroppedOK(t) ==
    pc[t].kind = "drop" =>
        \E a \in Addresses : Holds(t, a) /\ (HitHandled(t) => a \notin DOMAIN allocation)

HeapInv ==
    /\ HitsPlanted
    /\ AfterPlanted
    /\ StopsKnown
    /\ \A t \in Threads : BoxOK(t) /\ AllocatedOK(t) /\ DroppedOK(t)
    /\ BlocksApart
    /\ HeldAlone
    /\ RecordIsTheHeap

\* The last entry of an address in the stream says whether it is on record.
AllocEntries == [action : {"Alloc", "Drop"}, address : Int, type : Types]

LastSays(s, record) ==
    \A i \in DOMAIN s :
        (\A k \in DOMAIN s : k > i => s[k].address # s[i].address) =>
            IF s[i].action = "Alloc"
            THEN s[i].address \in DOMAIN record /\ record[s[i].address] = s[i].type
            ELSE s[i].address \notin DOMAIN record

StreamAlternates ==
    /\ alloc_stream \in Seq(AllocEntries)
    /\ LastSays(alloc_stream, allocation)
    /\ AllocationsAlternate

-----------------------------------------------------------------------------
(***************************************************************************)
(* Addresses and program counters.                                         *)
(***************************************************************************)
\* Two live values do not have the same address, counters or not.
LEMMA ValuesApart ==
    ASSUME BlocksApart, NEW a \in Addresses, NEW c \in Addresses,
           heap[a] # Free, heap[c] # Free, ValueAddress(a) = ValueAddress(c)
    PROVE  a = c
<1>1. a \in Int /\ c \in Int
  BY HeapAssumption
<1>2. /\ heap[a] = "Rc" => c # a + 16
      /\ heap[c] = "Rc" => a # c + 16
  BY DEF BlocksApart
<1>3. QED BY <1>1, <1>2 DEF ValueAddress

LEMMA ValuesApartNext ==
    ASSUME BlocksApart', NEW a \in Addresses, NEW c \in Addresses,
           heap'[a] # Free, heap'[c] # Free, ValueAddress(a)' = ValueAddress(c)'
    PROVE  a = c
<1>1. a \in Int /\ c \in Int
  BY HeapAssumption
<1>2. /\ heap'[a] = "Rc" => c # a + 16
      /\ heap'[c] = "Rc" => a # c + 16
  BY DEF BlocksApart
<1>3. QED BY <1>1, <1>2 DEF ValueAddress

LEMMA SiteOfAfter ==
    ASSUME NEW p \in Sites
    PROVE  /\ p.kind = "after" => p.at \in BoxSites /\ p = AfterPc(p.at)
           /\ p.kind = "malloc" => p = MallocPc
           /\ p.kind = "drop" => p = DropPc
  BY DEF Sites, CallPc, RetPc, AfterPc, PanicPc, TracePc, MallocPc, DropPc

LEMMA AfterSites ==
    /\ \A b : AfterPc(b).kind = "after" /\ AfterPc(b).at = b
    /\ \A b : \A g \in Functions : AfterPc(b) # CallPc(g) /\ AfterPc(b) # RetPc(g)
    /\ \A b \in BoxSites : AfterPc(b) \in Sites
  BY DEF AfterPc, CallPc, RetPc, Sites

\* A value on the heap is of a type of the program.
LEMMA NoSiteIsNone ==
    /\ \A b \in BoxSites : b # None /\ TypeOf[b] # None /\ TypeOf[b] # Free
    /\ \A y \in Types : y # Free /\ y # None
  BY HeapAssumption DEF Types

-----------------------------------------------------------------------------
(***************************************************************************)
(* What is to be shown of a step.                                          *)
(***************************************************************************)
\* Nothing happens to a thread.
Same(u) ==
    /\ pc'[u] = pc[u] /\ box'[u] = box[u] /\ reg'[u] = reg[u]
    /\ allocating'[u] = allocating[u]
    /\ HitHandled(u)' <=> HitHandled(u)

\* ... nor to the value it holds.
LEMMA OthersKeep ==
    ASSUME NEW u \in Threads, Same(u), BoxOK(u), AllocatedOK(u), DroppedOK(u),
           functions_disassembled \subseteq functions_disassembled',
           \A a \in Addresses : Holds(u, a) =>
                heap'[a] = heap[a] /\ (a \notin DOMAIN allocation => a \notin DOMAIN allocation')
    PROVE  BoxOK(u)' /\ AllocatedOK(u)' /\ DroppedOK(u)'
<1>1. BoxOK(u)'
  BY DEF Same, BoxOK, Announced, Fresh, TypeNoted
<1>2. \A a \in Addresses : Holds(u, a) => Holds(u, a)'
  BY DEF Same, Holds, ValueAddress
<1>3. AllocatedOK(u)'
  <2> SUFFICES ASSUME pc[u].kind = "after"
               PROVE  /\ reg[u] \in Addresses /\ Holds(u, reg[u])'
                      /\ Fresh(u) => /\ heap'[reg[u]] = TypeOf[pc[u].at]
                                     /\ reg[u] \notin DOMAIN allocation'
                                     /\ TypeNoted(u, pc[u].at)'
    BY DEF Same, AllocatedOK, Fresh
  <2>1. reg[u] \in Addresses /\ Holds(u, reg[u])
    BY DEF AllocatedOK
  <2>2. Holds(u, reg[u])'
    BY <2>1 DEF Same, Holds
  <2>3. heap'[reg[u]] = heap[reg[u]]
        /\ (reg[u] \notin DOMAIN allocation => reg[u] \notin DOMAIN allocation')
    BY <2>1
  <2>4. TypeNoted(u, pc[u].at) => TypeNoted(u, pc[u].at)'
    BY DEF Same, TypeNoted
  <2>5. QED BY <2>1, <2>2, <2>3, <2>4 DEF AllocatedOK
<1>4. DroppedOK(u)'
  BY <1>2 DEF Same, DroppedOK
<1>5. QED BY <1>1, <1>3, <1>4

\* One thread moves, and the heap and the record stay.
LEMMA StepKeeps ==
    ASSUME HeapInv, NEW t \in Threads, UNCHANGED <<heap, allocation>>,
           \A u \in Threads : u # t => Same(u),
           functions_disassembled \subseteq functions_disassembled',
           HitsPlanted', AfterPlanted', StopsKnown',
           BoxOK(t)', AllocatedOK(t)', DroppedOK(t)',
           \A a \in Addresses : Holds(t, a)' => \A u \in Threads : Holds(u, a) => u = t,
           \A a \in Addresses : heap[a] \notin ClosureTypes /\ (AtAllocation(t, a) \/ AtDrop(t, a))
                                    => AtAllocation(t, a)' \/ AtDrop(t, a)'
    PROVE  HeapInv'
<1>1. ASSUME NEW u \in Threads PROVE BoxOK(u)' /\ AllocatedOK(u)' /\ DroppedOK(u)'
  <2>1. CASE u # t
    BY <2>1, OthersKeep DEF HeapInv
  <2>2. CASE u = t
    BY <2>2
  <2>3. QED BY <2>1, <2>2
<1>2. \A u \in Threads : u # t => \A a \in Addresses : Holds(u, a)' => Holds(u, a)
  BY DEF Same, Holds, ValueAddress
<1>3. HeldAlone'
  BY <1>2 DEF HeapInv, HeldAlone
<1>4. RecordIsTheHeap'
  <2>1. RecordedTypesAreRight'
    BY DEF HeapInv, RecordIsTheHeap, RecordedTypesAreRight
  <2>2. \A u \in Threads : u # t => \A a \in Addresses :
            /\ AtAllocation(u, a) => AtAllocation(u, a)'
            /\ AtDrop(u, a) => AtDrop(u, a)'
    BY DEF Same, AtAllocation, AtDrop, ValueAddress
  <2>3. ASSUME NEW a \in Addresses, heap[a] \notin {Free} \cup ClosureTypes
        PROVE  \/ a \in DOMAIN allocation
               \/ \E u \in Threads : AtAllocation(u, a)' \/ AtDrop(u, a)'
    <3>1. CASE a \in DOMAIN allocation
      BY <3>1
    <3>2. CASE \E u \in Threads : AtAllocation(u, a) \/ AtDrop(u, a)
      <4>1. PICK u \in Threads : AtAllocation(u, a) \/ AtDrop(u, a)
        BY <3>2
      <4>2. AtAllocation(u, a)' \/ AtDrop(u, a)'
        <5>1. CASE u = t
          BY <2>3, <4>1, <5>1
        <5>2. CASE u # t
          BY <2>2, <4>1, <5>2
        <5>3. QED BY <5>1, <5>2
      <4>3. QED BY <4>2
    <3>3. QED BY <2>3, <3>1, <3>2 DEF HeapInv, RecordIsTheHeap, LiveValuesAreRecorded
  <2>4. LiveValuesAreRecorded'
    BY <2>3 DEF LiveValuesAreRecorded
  <2>5. QED BY <2>1, <2>4 DEF RecordIsTheHeap
<1>5. BlocksApart'
  BY DEF HeapInv, BlocksApart
<1>6. QED BY <1>1, <1>3, <1>4, <1>5 DEF HeapInv

\* No thread moves.
LEMMA StillKeeps ==
    ASSUME HeapInv, UNCHANGED <<heap, allocation>>, \A u \in Threads : Same(u),
           functions_disassembled \subseteq functions_disassembled',
           HitsPlanted', AfterPlanted', StopsKnown'
    PROVE  HeapInv'
<1>1. \A u \in Threads : BoxOK(u)' /\ AllocatedOK(u)' /\ DroppedOK(u)'
  BY OthersKeep DEF HeapInv
<1>2. \A u \in Threads : \A a \in Addresses :
            /\ Holds(u, a)' => Holds(u, a)
            /\ AtAllocation(u, a) => AtAllocation(u, a)'
            /\ AtDrop(u, a) => AtDrop(u, a)'
  BY DEF Same, Holds, AtAllocation, AtDrop, ValueAddress
<1>3. HeldAlone'
  BY <1>2 DEF HeapInv, HeldAlone
<1>4. RecordedTypesAreRight'
  BY DEF HeapInv, RecordIsTheHeap, RecordedTypesAreRight
<1>5. LiveValuesAreRecorded'
  <2>1. ASSUME NEW a \in Addresses, heap[a] \notin {Free} \cup ClosureTypes
        PROVE  \/ a \in DOMAIN allocation
               \/ \E u \in Threads : AtAllocation(u, a)' \/ AtDrop(u, a)'
    BY <1>2, <2>1 DEF HeapInv, RecordIsTheHeap, LiveValuesAreRecorded
  <2>2. QED BY <2>1 DEF LiveValuesAreRecorded
<1>6. BlocksApart'
  BY DEF HeapInv, BlocksApart
<1>7. QED BY <1>1, <1>3, <1>4, <1>5, <1>6 DEF HeapInv, RecordIsTheHeap

-----------------------------------------------------------------------------
LEMMA HeapInvInit == Tidy /\ Init => HeapInv
<1> SUFFICES ASSUME Tidy, Init PROVE HeapInv
  OBVIOUS
<1>1. /\ \A t \in Threads : pc[t] = Elsewhere /\ box[t] = None /\ allocating[t] = None
      /\ \A a \in Addresses : heap[a] = Free
      /\ DOMAIN allocation = {} /\ seen = {} /\ proc = "running"
      /\ functions_disassembled = {}
  BY DEF Init, TargetInit
<1>2. Elsewhere.kind = "none" /\ Elsewhere \notin Sites
  BY DEF Elsewhere, Sites, CallPc, RetPc, AfterPc, PanicPc, TracePc, MallocPc, DropPc
<1>3. TypeInv /\ TableInv /\ MirrorInv
  BY TypeInvInit, TableInvInit, MirrorInvInit
<1>4. MallocPc \in Planted
  <2>1. /\ breakpoints = InitialBreakpoints
        /\ Planted = {InitialBreakpoints[i].pc : i \in DOMAIN InitialBreakpoints}
    BY DEF Init, Planted, AddressesOf
  <2>2. /\ DOMAIN InitialBreakpoints = 1 .. Internals + Len(UserFunctions)
        /\ Len(UserFunctions) \in Nat /\ Internals = 4
    BY InitialTable, UserFunctionsAssumption DEF Internals, Tidy
  <2>3. InitialBreakpoints[3] = InternalBreakpoints[3]
    BY <2>2, InitialTable
  <2>4. InternalBreakpoints[3] = Breakpoint("Breakpoint", "Arguments", MallocPc)
    BY DEF InternalBreakpoints, Tidy
  <2>5. QED BY <2>1, <2>2, <2>3, <2>4 DEF Breakpoint
<1>5. HitsPlanted
  BY <1>1, <1>2, <1>3, <1>4 DEF HitsPlanted, MirrorInv, SitesPlanted, Trapped
<1>6. AfterPlanted
  <2>1. ASSUME NEW b \in BoxSites PROVE AfterPc(b) \notin Planted
    <3>1. SUFFICES ASSUME AfterPc(b) \in Planted PROVE FALSE
      OBVIOUS
    <3>2. /\ breakpoint_addresses[AfterPc(b)] \in DOMAIN breakpoints
          /\ breakpoints[breakpoint_addresses[AfterPc(b)]].pc = AfterPc(b)
      BY <1>3, <3>1 DEF TypeInv, TypeOK, TableTypeOK, TableOK
    <3>3. QED BY <1>1, <1>3, <3>2, AfterSites DEF TableInv, PlantedWhenRead
  <2>2. QED BY <1>1, <2>1 DEF AfterPlanted
<1>7. StopsKnown
  BY <1>1 DEF StopsKnown
<1>8. \A t \in Threads : BoxOK(t) /\ AllocatedOK(t) /\ DroppedOK(t)
  BY <1>1, <1>2 DEF BoxOK, AllocatedOK, DroppedOK, Announced
<1>9. BlocksApart /\ HeldAlone /\ RecordIsTheHeap
  BY <1>1 DEF BlocksApart, HeldAlone, Holds, RecordIsTheHeap, RecordedTypesAreRight, LiveValuesAreRecorded
<1>10. QED BY <1>5, <1>6, <1>7, <1>8, <1>9 DEF HeapInv

-----------------------------------------------------------------------------
(***************************************************************************)
(* The program's steps.                                                    *)
(***************************************************************************)
LEMMA NoKind ==
    /\ Elsewhere.kind = "none" /\ GonePc.kind = "gone"
    /\ Elsewhere \notin Sites /\ GonePc \notin Sites
    /\ \A p \in Sites : p.kind \notin {"none", "gone"}
    /\ \A b : MallocPc # AfterPc(b)
<1>1. Elsewhere.kind = "none" /\ GonePc.kind = "gone" /\ \A b : MallocPc # AfterPc(b)
  BY DEF Elsewhere, GonePc, AfterPc, MallocPc
<1>2. \A p \in Sites : p.kind \notin {"none", "gone"}
  BY DEF Sites, CallPc, RetPc, AfterPc, PanicPc, TracePc, MallocPc, DropPc
<1>3. QED BY <1>1, <1>2

\* What stays when one thread takes a step of its own.
LEMMA OneThreadMoves ==
    ASSUME TypeInv, HeapInv, Program, NEW t \in Threads,
           \A u \in Threads : u # t => /\ pc'[u] = pc[u] /\ box'[u] = box[u]
                                       /\ reg'[u] = reg[u]
                                       /\ (u \in passed' <=> u \in passed),
           UNCHANGED proc,
           pc'[t] \in Planted \/ pc'[t] \notin Sites,
           t \in seen => Trapped(t)'
    PROVE  /\ \A u \in Threads : u # t => Same(u)
           /\ UNCHANGED allocating /\ UNCHANGED allocation
           /\ functions_disassembled' = functions_disassembled
           /\ Planted' = Planted
           /\ HitsPlanted' /\ AfterPlanted'
           /\ selected' = selected => StopsKnown'
<1>1. UNCHANGED <<tableVars, allocVars, seen>>
  BY DEF Program
<1>2. Planted' = Planted
  BY <1>1 DEF Planted, tableVars
<1>3. \A u \in Threads : u # t => Same(u)
  BY <1>1 DEF Same, HitHandled, allocVars
<1>4. HitsPlanted'
  BY <1>2 DEF HeapInv, HitsPlanted, Trapped
<1>5. AfterPlanted'
  BY <1>1, <1>2 DEF HeapInv, AfterPlanted, tableVars
<1>6. selected' = selected => StopsKnown'
  <2>1. seen \subseteq Threads
    BY DEF TypeInv, TypeOK
  <2>2. \A u \in seen : u # t => (Trapped(u)' <=> Trapped(u))
    BY <2>1 DEF Trapped
  <2>3. QED BY <1>1, <2>1, <2>2 DEF HeapInv, StopsKnown
<1>7. QED BY <1>1, <1>2, <1>3, <1>4, <1>5, <1>6 DEF tableVars, allocVars

\* A thread at a hit that has nothing to do with the heap.
LEMMA OtherHits ==
    ASSUME NEW t \in Threads, TypeInv, HeapInv, pc[t] = Elsewhere, box[t] = None
    PROVE  /\ ZeroSized = {} => allocating[t] = None
           /\ t \notin passed /\ t \notin seen
  BY NoKind DEF HeapInv, BoxOK, Announced, Fresh, TypeInv, TypeOK, TargetTypeOK, Trapped,
        StopsKnown

\* A running thread gets to a call, a return, a fire::dbg! or a panic, or goes on.
LEMMA PlainStep ==
    ASSUME TypeInv, Tidy, HeapInv, Program, NEW t \in Threads, Idle(t),
           UNCHANGED <<box, reg, heap, proc, selected, passed>>,
           \A u \in Threads : u # t => pc'[u] = pc[u],
           pc'[t] \in Planted \cup {Elsewhere},
           pc'[t].kind \notin {"malloc", "after", "drop"}
    PROVE  HeapInv'
<1>1. /\ pc[t] = Elsewhere /\ box[t] = None
      /\ ZeroSized = {} => allocating[t] = None
      /\ t \notin passed /\ t \notin seen
  BY OtherHits DEF Idle
<1>2. /\ \A u \in Threads : u # t => Same(u)
      /\ UNCHANGED allocating /\ UNCHANGED allocation
      /\ functions_disassembled' = functions_disassembled
      /\ HitsPlanted' /\ AfterPlanted' /\ StopsKnown'
  BY <1>1, OneThreadMoves, NoKind
<1>3. BoxOK(t)'
  BY <1>1, <1>2 DEF BoxOK, Announced
<1>4. AllocatedOK(t)' /\ DroppedOK(t)' /\ \A a \in Addresses : ~Holds(t, a)'
  BY DEF AllocatedOK, DroppedOK, Holds
<1>5. \A a \in Addresses : ~AtAllocation(t, a) /\ ~AtDrop(t, a)
  BY <1>1, NoKind DEF AtAllocation, AtDrop
<1>6. QED BY <1>2, <1>3, <1>4, <1>5, StepKeeps

LEMMA MallocStep ==
    ASSUME TypeInv, Tidy, HeapInv, Program, NEW t \in Threads, NEW b \in BoxSites,
           Malloc(t, b, Planted)
    PROVE  HeapInv'
<1>1. /\ pc[t] = Elsewhere /\ box[t] = None /\ proc = "running"
      /\ ZeroSized = {} => allocating[t] = None
      /\ t \notin passed /\ t \notin seen
  BY OtherHits DEF Malloc, Arrives, Idle
<1>2. /\ pc' = [pc EXCEPT ![t] = MallocPc] /\ box' = [box EXCEPT ![t] = b]
      /\ MallocPc \in Planted /\ UNCHANGED <<reg, heap, proc, selected, passed>>
  BY DEF Malloc, HeapInv, HitsPlanted
<1>3. /\ pc \in [Threads -> Sites \cup {Elsewhere, GonePc}]
      /\ box \in [Threads -> BoxSites \cup {None}]
  BY DEF TypeInv, TypeOK, TargetTypeOK
<1>4. /\ pc'[t] = MallocPc /\ box'[t] = b
      /\ \A u \in Threads : u # t => pc'[u] = pc[u] /\ box'[u] = box[u]
  BY <1>2, <1>3
<1>5. /\ \A u \in Threads : u # t => Same(u)
      /\ UNCHANGED allocating /\ UNCHANGED allocation
      /\ functions_disassembled' = functions_disassembled
      /\ HitsPlanted' /\ AfterPlanted' /\ StopsKnown'
  BY <1>1, <1>2, <1>4, OneThreadMoves
<1>6. ~HitHandled(t)'
  BY <1>1, <1>2 DEF HitHandled
<1>7. BoxOK(t)'
  BY <1>1, <1>4, <1>5, <1>6, NoKind DEF BoxOK, Announced, MallocPc, Elsewhere
<1>8. AllocatedOK(t)' /\ DroppedOK(t)' /\ \A a \in Addresses : ~Holds(t, a)'
  BY <1>4 DEF AllocatedOK, DroppedOK, Holds, MallocPc
<1>9. \A a \in Addresses : ~AtAllocation(t, a) /\ ~AtDrop(t, a)
  BY <1>1, NoKind DEF AtAllocation, AtDrop
<1>10. QED BY <1>2, <1>5, <1>7, <1>8, <1>9, StepKeeps

\* The allocation of a value gives it to the thread alone.
LEMMA AllocatedStep ==
    ASSUME TypeInv, Tidy, HeapInv, Program, NEW t \in Threads, Allocated(t, Planted)
    PROVE  HeapInv'
<1>1. /\ pc[t] = Elsewhere /\ box[t] # None /\ proc = "running"
      /\ UNCHANGED <<proc, selected, passed>>
      /\ pc \in [Threads -> Sites \cup {Elsewhere, GonePc}]
      /\ box \in [Threads -> BoxSites \cup {None}]
      /\ reg \in [Threads -> Int] /\ heap \in [Addresses -> Types \cup {Free}]
  BY DEF Allocated, TypeInv, TypeOK, TargetTypeOK
<1> PICK b \in BoxSites : b = box[t]
  BY <1>1
<1>2. /\ box' = [box EXCEPT ![t] = None]
      /\ pc' = [pc EXCEPT ![t] = IF AfterPc(b) \in Planted THEN AfterPc(b) ELSE pc[t]]
  BY <1>1 DEF Allocated
<1>3. t \notin passed /\ t \notin seen /\ Announced(t)
  BY <1>1, NoKind DEF TypeInv, TypeOK, TargetTypeOK, HeapInv, StopsKnown, Trapped, Announced
<1>4. /\ AfterPc(b) \in functions_disassembled
      /\ b \notin ZeroSized => TypeNoted(t, b) /\ AfterPc(b) \in Planted
      /\ b \in ZeroSized => AfterPc(b) \notin Planted
  BY <1>2, <1>3 DEF HeapInv, BoxOK, AfterPlanted
<1>5. \A a \in Addresses : ~AtAllocation(t, a) /\ ~AtDrop(t, a) /\ ~Holds(t, a)
  BY <1>1, NoKind DEF AtAllocation, AtDrop, Holds
<1>6. CASE b \in ZeroSized
  <2>1. /\ UNCHANGED <<heap, reg>> /\ pc'[t] = Elsewhere /\ box'[t] = None
        /\ \A u \in Threads : u # t => pc'[u] = pc[u] /\ box'[u] = box[u]
    BY <1>1, <1>2, <1>4, <1>6 DEF Allocated
  <2>2. /\ \A u \in Threads : u # t => Same(u)
        /\ UNCHANGED allocation
        /\ functions_disassembled' = functions_disassembled
        /\ HitsPlanted' /\ AfterPlanted' /\ StopsKnown'
    BY <1>1, <1>3, <2>1, OneThreadMoves, NoKind
  <2>3. BoxOK(t)' /\ AllocatedOK(t)' /\ DroppedOK(t)' /\ \A a \in Addresses : ~Holds(t, a)'
    BY <1>6, <2>1, NoKind DEF BoxOK, AllocatedOK, DroppedOK, Holds, Announced
  <2>4. QED BY <1>5, <2>1, <2>2, <2>3, StepKeeps
<1>7. CASE b \notin ZeroSized
  <2>1. PICK a \in Addresses : /\ heap[a] = Free /\ Vacant(a, TypeOf[b])
                               /\ heap' = [heap EXCEPT ![a] = TypeOf[b]]
                               /\ reg' = [reg EXCEPT ![t] = a]
    BY <1>7 DEF Allocated, Vacant
  <2>2. /\ pc'[t] = AfterPc(b) /\ box'[t] = None /\ reg'[t] = a /\ heap'[a] = TypeOf[b]
        /\ \A u \in Threads : u # t => pc'[u] = pc[u] /\ box'[u] = box[u] /\ reg'[u] = reg[u]
        /\ \A c \in Addresses : c # a => heap'[c] = heap[c]
    BY <1>1, <1>2, <1>4, <1>7, <2>1
  <2>3. /\ \A u \in Threads : u # t => Same(u)
        /\ UNCHANGED allocating /\ UNCHANGED allocation
        /\ functions_disassembled' = functions_disassembled
        /\ HitsPlanted' /\ AfterPlanted' /\ StopsKnown'
    BY <1>1, <1>3, <1>4, <1>7, <2>2, OneThreadMoves
  <2>4. heap'[a] # Free /\ TypeOf[b] \in Types
    BY <1>2, <2>2, NoSiteIsNone DEF Types
  <2>5. a \notin DOMAIN allocation
    BY <2>1, HeapAssumption DEF HeapInv, RecordIsTheHeap, RecordedTypesAreRight, TypeInv, TypeOK,
          AllocationTypeOK
  <2>6. ~HitHandled(t)'
    BY <1>1, <1>3 DEF HitHandled
  <2>7. Fresh(t)' /\ AfterPc(b).at = b /\ AfterPc(b).kind = "after"
    BY <2>2, <2>6, AfterSites DEF Fresh
  <2>8. BoxOK(t)' /\ DroppedOK(t)'
    BY <2>2, <2>7 DEF BoxOK, DroppedOK, Announced
  <2>9. AllocatedOK(t)'
    <3>1. Holds(t, a)'
      BY <2>2, <2>4, <2>7 DEF Holds
    <3>2. TypeNoted(t, b)'
      BY <1>4, <1>7, <2>3 DEF TypeNoted
    <3>3. QED
      BY <2>2, <2>3, <2>5, <2>7, <3>1, <3>2 DEF AllocatedOK, Holds, TypeNoted
  <2>10. BlocksApart'
    BY <2>1, <2>2, HeapAssumption DEF HeapInv, BlocksApart, Vacant
\* (nobody has held the address)
  <2>11. ASSUME NEW u \in Threads, u # t
         PROVE  ~Holds(u, a) /\ ~Holds(u, a)'
    <3>1. ~Holds(u, a)
      BY <2>1 DEF Holds
    <3>2. SUFFICES ASSUME Holds(u, a)' PROVE FALSE
      BY <3>1
    <3>3. CASE pc[u].kind = "after"
      <4>1. reg[u] = a
        BY <2>2, <2>11, <3>2, <3>3 DEF Holds
      <4>2. Holds(u, reg[u])
        BY <3>3 DEF HeapInv, AllocatedOK
      <4>3. QED BY <3>1, <4>1, <4>2
    <3>4. CASE pc[u].kind = "drop"
      <4>1. reg[u] = ValueAddress(a)'
        BY <2>2, <2>11, <3>2, <3>4 DEF Holds
      <4>2. PICK c \in Addresses : Holds(u, c)
        BY <3>4 DEF HeapInv, DroppedOK
      <4>3. c # a /\ heap'[c] = heap[c] /\ heap[c] # Free
        BY <2>2, <3>1, <4>2 DEF Holds
      <4>4. a = c
        <5>1. ValueAddress(a)' = ValueAddress(c)'
          BY <3>4, <4>1, <4>2, <4>3 DEF Holds, ValueAddress
        <5>2. QED BY <2>4, <2>10, <4>3, <5>1, ValuesApartNext
      <4>5. QED BY <3>1, <4>2, <4>4
    <3>5. QED BY <2>2, <2>11, <3>2, <3>3, <3>4 DEF Holds
  <2>12. ASSUME NEW u \in Threads, u # t, NEW c \in Addresses, c # a
         PROVE  /\ Holds(u, c)' <=> Holds(u, c)
                /\ AtAllocation(u, c) => AtAllocation(u, c)'
                /\ AtDrop(u, c) => AtDrop(u, c)'
    BY <2>2, <2>3, <2>12 DEF Same, Holds, ValueAddress, AtAllocation, AtDrop
  <2>13. ASSUME NEW u \in Threads PROVE BoxOK(u)' /\ AllocatedOK(u)' /\ DroppedOK(u)'
    <3>1. CASE u # t
      BY <2>2, <2>3, <2>11, <3>1, OthersKeep DEF HeapInv
    <3>2. CASE u = t
      BY <2>8, <2>9, <3>2
    <3>3. QED BY <3>1, <3>2
  <2>14. \A c \in Addresses : c # a => ~Holds(t, c)'
    BY <2>2, <2>7 DEF Holds
  <2>15. HeldAlone'
    <3>1. ASSUME NEW c \in Addresses, NEW u \in Threads, NEW v \in Threads,
                 Holds(u, c)', Holds(v, c)'
          PROVE  u = v
      <4>1. CASE c = a
        BY <2>11, <3>1, <4>1
      <4>2. CASE c # a
        <5>1. u # t /\ v # t
          BY <2>14, <3>1, <4>2
        <5>2. Holds(u, c) /\ Holds(v, c)
          BY <2>12, <3>1, <4>2, <5>1
        <5>3. QED BY <5>2 DEF HeapInv, HeldAlone
      <4>3. QED BY <4>1, <4>2
    <3>2. QED BY <3>1 DEF HeldAlone
  <2>16. RecordedTypesAreRight'
    BY <2>2, <2>3, <2>5 DEF HeapInv, RecordIsTheHeap, RecordedTypesAreRight
  <2>17. LiveValuesAreRecorded'
    <3>1. ASSUME NEW c \in Addresses, heap'[c] \notin {Free} \cup ClosureTypes
          PROVE  \/ c \in DOMAIN allocation'
                 \/ \E u \in Threads : AtAllocation(u, c)' \/ AtDrop(u, c)'
      <4>1. CASE c = a
        <5>1. AtAllocation(t, c)'
          BY <2>2, <2>6, <2>7, <4>1 DEF AtAllocation, HitHandled
        <5>2. QED BY <5>1
      <4>2. CASE c # a
        <5>1. c \in DOMAIN allocation \/ \E u \in Threads : AtAllocation(u, c) \/ AtDrop(u, c)
          BY <2>2, <3>1, <4>2 DEF HeapInv, RecordIsTheHeap, LiveValuesAreRecorded
        <5>2. \A u \in Threads : AtAllocation(u, c) \/ AtDrop(u, c) => u # t
          BY <1>5
        <5>3. QED BY <2>3, <2>12, <4>2, <5>1, <5>2
      <4>3. QED BY <4>1, <4>2
    <3>2. QED BY <3>1 DEF LiveValuesAreRecorded
  <2>18. QED BY <2>3, <2>13, <2>15, <2>16, <2>17, <2>10 DEF HeapInv, RecordIsTheHeap
<1>8. QED BY <1>6, <1>7

\* A thread that is about to drop a value has it to itself.
LEMMA DropStep ==
    ASSUME TypeInv, Tidy, HeapInv, Program, NEW t \in Threads, NEW a \in Addresses,
           Drop(t, a, Planted)
    PROVE  HeapInv'
<1>1. /\ pc[t] = Elsewhere /\ box[t] = None /\ proc = "running"
      /\ ZeroSized = {} => allocating[t] = None
      /\ t \notin passed /\ t \notin seen
  BY OtherHits DEF Drop, Idle
<1>2. /\ DropPc \in Planted /\ heap[a] # Free
      /\ pc' = [pc EXCEPT ![t] = DropPc] /\ reg' = [reg EXCEPT ![t] = ValueAddress(a)]
      /\ UNCHANGED <<box, heap, proc, selected, passed>>
      /\ pc \in [Threads -> Sites \cup {Elsewhere, GonePc}] /\ reg \in [Threads -> Int]
  BY DEF Drop, TypeInv, TypeOK, TargetTypeOK
<1>3. /\ pc'[t] = DropPc /\ reg'[t] = ValueAddress(a) /\ DropPc.kind = "drop"
      /\ \A u \in Threads : u # t => pc'[u] = pc[u] /\ reg'[u] = reg[u]
  BY <1>2 DEF DropPc
<1>4. /\ \A u \in Threads : u # t => Same(u)
      /\ UNCHANGED allocating /\ UNCHANGED allocation
      /\ functions_disassembled' = functions_disassembled
      /\ HitsPlanted' /\ AfterPlanted' /\ StopsKnown'
  BY <1>1, <1>2, <1>3, OneThreadMoves
<1>5. ~HitHandled(t)'
  BY <1>1, <1>2 DEF HitHandled
<1>6. BoxOK(t)' /\ AllocatedOK(t)'
  BY <1>1, <1>2, <1>3, <1>4 DEF BoxOK, AllocatedOK, Announced
<1>7. \A c \in Addresses : ValueAddress(c)' = ValueAddress(c)
  BY <1>2 DEF ValueAddress
<1>8. Holds(t, a)'
  BY <1>2, <1>3, <1>7 DEF Holds
<1>9. DroppedOK(t)'
  BY <1>5, <1>8 DEF DroppedOK
<1>10. ASSUME NEW c \in Addresses, Holds(t, c)', NEW u \in Threads, Holds(u, c)
       PROVE  u = t
  <2>1. ValueAddress(a) = ValueAddress(c) /\ heap[c] # Free
    BY <1>3, <1>7, <1>10 DEF Holds
  <2>2. c = a
    BY <1>2, <2>1, ValuesApart DEF HeapInv
  <2>3. SUFFICES ASSUME u # t PROVE FALSE
    OBVIOUS
  <2>4. pc[u] \in Sites
    <3>1. pc[u] \in Sites \cup {Elsewhere, GonePc}
      BY <1>2
    <3>2. QED BY <1>10, <3>1, NoKind DEF Holds
  <2>5. pc[u] \in {DropPc} \cup {AfterPc(b) : b \in BoxSites}
    BY <1>10, <2>4, SiteOfAfter DEF Holds
  <2>6. reg[u] \notin {a, ValueAddress(a)}
    BY <2>3, <2>5 DEF Drop
  <2>7. QED BY <1>10, <2>2, <2>6 DEF Holds
<1>11. \A c \in Addresses : ~AtAllocation(t, c) /\ ~AtDrop(t, c)
  BY <1>1, NoKind DEF AtAllocation, AtDrop
<1>12. QED BY <1>2, <1>4, <1>6, <1>9, <1>10, <1>11, StepKeeps

\* A thread that is stepped over a breakpoint that has nothing to do with the
\* heap, or that is after an allocation or in exchange_malloc, goes on.
LEMMA StepOverRest ==
    ASSUME TypeInv, Tidy, HeapInv, Program, NEW t \in Threads, StepOver(t),
           pc[t].kind # "drop"
    PROVE  HeapInv'
<1>1. /\ t \in passed /\ passed' = passed \ {t} /\ UNCHANGED <<box, reg, heap, proc, selected>>
      /\ pc[t] \in Sites /\ seen = {}
      /\ pc \in [Threads -> Sites \cup {Elsewhere, GonePc}]
      /\ proc # "stopped"
  BY DEF StepOver, StepOverReturn, StepOverPanic, StepOverDrop, StepOverOther, StepsOver,
        TypeInv, TypeOK, TargetTypeOK, Trapped, HeapInv, StopsKnown
<1>2. /\ pc'[t] \in {Elsewhere, GonePc}
      /\ pc'[t] = GonePc => pc[t].kind = "panic"
      /\ \A u \in Threads : u # t => pc'[u] = pc[u]
  BY <1>1, NoKind DEF StepOver, StepOverReturn, StepOverPanic, StepOverDrop, StepOverOther
<1>3. /\ \A u \in Threads : u # t => Same(u)
      /\ UNCHANGED allocating /\ UNCHANGED allocation
      /\ functions_disassembled' = functions_disassembled
      /\ HitsPlanted' /\ AfterPlanted' /\ StopsKnown'
  BY <1>1, <1>2, OneThreadMoves, NoKind
<1>4. HitHandled(t) /\ ~Fresh(t)
  BY <1>1 DEF HitHandled, Fresh
<1>5. BoxOK(t)
  BY DEF HeapInv
<1>6. BoxOK(t)'
  <2>1. box[t] # None => pc[t] = MallocPc /\ pc'[t] = Elsewhere
    BY <1>1, <1>2, <1>5, NoKind DEF BoxOK, MallocPc
  <2>2. Announced(t)' <=> Announced(t)
    BY <1>1, <1>4, <2>1 DEF Announced
  <2>3. QED BY <1>1, <1>3, <1>4, <1>5, <2>1, <2>2 DEF BoxOK, TypeNoted
<1>7. AllocatedOK(t)' /\ DroppedOK(t)' /\ \A a \in Addresses : ~Holds(t, a)'
  BY <1>2, NoKind DEF AllocatedOK, DroppedOK, Holds
<1>8. \A a \in Addresses : ~AtAllocation(t, a) /\ ~AtDrop(t, a)
  BY <1>4 DEF AtAllocation, AtDrop
<1>9. QED BY <1>1, <1>3, <1>6, <1>7, <1>8, StepKeeps

\* A value that is dropped is no longer on record, and nobody else has it.
LEMMA StepOverDropStep ==
    ASSUME TypeInv, Tidy, HeapInv, Program, NEW t \in Threads, StepOver(t),
           pc[t].kind = "drop"
    PROVE  HeapInv'
<1>1. /\ StepOverDrop(t) /\ t \in passed /\ passed' = passed \ {t}
      /\ UNCHANGED <<box, reg, proc, selected>>
      /\ pc[t] \in Sites /\ seen = {}
      /\ pc \in [Threads -> Sites \cup {Elsewhere, GonePc}]
      /\ proc # "stopped"
  <2>1. StepOverDrop(t)
    BY DEF StepOver, StepOverReturn, StepOverPanic, StepOverOther, AtReturn
  <2>2. QED
    BY <2>1 DEF StepOverDrop, StepsOver, TypeInv, TypeOK, TargetTypeOK, Trapped, HeapInv,
          StopsKnown
<1>2. /\ pc'[t] = Elsewhere
      /\ \A u \in Threads : u # t => pc'[u] = pc[u]
      /\ heap' = [c \in Addresses |-> IF ValueAddress(c) = reg[t] THEN Free ELSE heap[c]]
  BY <1>1 DEF StepOverDrop
<1>3. /\ \A u \in Threads : u # t => Same(u)
      /\ UNCHANGED allocating /\ UNCHANGED allocation
      /\ functions_disassembled' = functions_disassembled
      /\ HitsPlanted' /\ AfterPlanted' /\ StopsKnown'
  BY <1>1, <1>2, OneThreadMoves, NoKind
<1>4. HitHandled(t)
  BY <1>1 DEF HitHandled
<1>5. PICK a \in Addresses : Holds(t, a) /\ a \notin DOMAIN allocation
  BY <1>4 DEF HeapInv, DroppedOK
<1>6. reg[t] = ValueAddress(a)
  BY <1>5 DEF Holds
<1>7. /\ heap'[a] = Free
      /\ \A c \in Addresses : c # a => heap'[c] = heap[c]
  <2>1. \A c \in Addresses : c # a /\ heap[c] # Free => ValueAddress(c) # reg[t]
    BY <1>5, <1>6, ValuesApart DEF HeapInv, Holds
  <2>2. QED BY <1>2, <1>6, <2>1
<1>8. ASSUME NEW u \in Threads, u # t, NEW c \in Addresses
      PROVE  /\ Holds(u, c) => c # a
             /\ Holds(u, c)' => Holds(u, c) /\ c # a
             /\ c # a => (AtAllocation(u, c) => AtAllocation(u, c)')
             /\ c # a => (AtDrop(u, c) => AtDrop(u, c)')
  <2>1. Holds(u, c) => c # a
    BY <1>5, <1>8 DEF HeapInv, HeldAlone
  <2>2. Holds(u, c)' => c # a
    BY <1>7 DEF Holds
  <2>3. QED
    BY <1>3, <1>7, <1>8, <2>1, <2>2 DEF Same, Holds, ValueAddress, AtAllocation, AtDrop
<1>9. BoxOK(t)' /\ AllocatedOK(t)' /\ DroppedOK(t)' /\ \A c \in Addresses : ~Holds(t, c)'
  <2>1. box[t] = None /\ ~Announced(t) /\ ~Fresh(t)
    <3>1. pc[t] # MallocPc /\ pc[t] # Elsewhere
      BY NoKind DEF MallocPc
    <3>2. QED BY <3>1 DEF HeapInv, BoxOK, Announced, Fresh
  <2>2. BoxOK(t)'
    BY <1>1, <1>3, <2>1 DEF HeapInv, BoxOK, Announced
  <2>3. QED BY <1>2, <2>2, NoKind DEF AllocatedOK, DroppedOK, Holds
<1>10. ASSUME NEW u \in Threads PROVE BoxOK(u)' /\ AllocatedOK(u)' /\ DroppedOK(u)'
  <2>1. CASE u # t
    BY <1>3, <1>7, <1>8, <2>1, OthersKeep DEF HeapInv
  <2>2. CASE u = t
    BY <1>9, <2>2
  <2>3. QED BY <2>1, <2>2
<1>11. HeldAlone'
  BY <1>8, <1>9 DEF HeapInv, HeldAlone
<1>12. RecordedTypesAreRight'
  BY <1>3, <1>5, <1>7 DEF HeapInv, RecordIsTheHeap, RecordedTypesAreRight
<1>13. LiveValuesAreRecorded'
  <2>1. ASSUME NEW c \in Addresses, heap'[c] \notin {Free} \cup ClosureTypes
        PROVE  \/ c \in DOMAIN allocation'
               \/ \E u \in Threads : AtAllocation(u, c)' \/ AtDrop(u, c)'
    <3>1. c # a /\ heap'[c] = heap[c]
      BY <1>7, <2>1
    <3>2. c \in DOMAIN allocation \/ \E u \in Threads : AtAllocation(u, c) \/ AtDrop(u, c)
      BY <2>1, <3>1 DEF HeapInv, RecordIsTheHeap, LiveValuesAreRecorded
    <3>3. ~AtAllocation(t, c) /\ ~AtDrop(t, c)
      <4>1. ValueAddress(c) # reg[t]
        BY <1>5, <1>6, <2>1, <3>1, ValuesApart DEF HeapInv, Holds
      <4>2. QED BY <1>4, <4>1 DEF AtAllocation, AtDrop
    <3>4. QED BY <1>3, <1>8, <3>1, <3>2, <3>3
  <2>2. QED BY <2>1 DEF LiveValuesAreRecorded
<1>14. BlocksApart'
  <2>1. \A c \in Addresses : heap'[c] = heap[c] \/ heap'[c] = Free
    BY <1>7
  <2>2. "Rc" # Free
    BY HeapAssumption
  <2>3. QED BY <2>1, <2>2 DEF HeapInv, BlocksApart
<1>15. QED BY <1>3, <1>10, <1>11, <1>12, <1>13, <1>14 DEF HeapInv, RecordIsTheHeap

LEMMA HeapInvProgram == TypeInv /\ Tidy /\ HeapInv /\ Program => HeapInv'
<1> SUFFICES ASSUME TypeInv, Tidy, HeapInv, Program PROVE HeapInv'
  OBVIOUS
<1>1. pc \in [Threads -> Sites \cup {Elsewhere, GonePc}]
  BY DEF TypeInv, TypeOK, TargetTypeOK
<1>2. {PanicPc, TracePc} \subseteq Planted /\ \A g \in Functions : CallPc(g) \in Planted
  BY DEF HeapInv, HitsPlanted
<1>3. ASSUME NEW t \in Threads, NEW g \in Functions, Enter(t, g) PROVE HeapInv'
  <2>1. /\ Idle(t) /\ UNCHANGED <<box, reg, heap, proc, selected, passed>>
        /\ pc'[t] = CallPc(g) /\ \A u \in Threads : u # t => pc'[u] = pc[u]
    BY <1>1, <1>3 DEF Enter, Arrives
  <2>2. CallPc(g).kind = "call"
    BY DEF CallPc
  <2>3. QED BY <1>2, <2>1, <2>2, PlainStep
<1>4. ASSUME NEW t \in Threads, Leave(t, Planted) PROVE HeapInv'
  <2>1. /\ Idle(t) /\ UNCHANGED <<box, reg, heap, proc, selected, passed>>
        /\ \A u \in Threads : u # t => pc'[u] = pc[u]
        /\ \/ pc'[t] = Elsewhere
           \/ pc'[t] = RetPc(Top(t).fn) /\ RetPc(Top(t).fn) \in Planted
    BY <1>1, <1>4 DEF Leave, Idle
  <2>2. RetPc(Top(t).fn).kind = "ret" /\ Elsewhere.kind = "none"
    BY DEF RetPc, Elsewhere
  <2>3. QED BY <2>1, <2>2, PlainStep
<1>5. ASSUME NEW t \in Threads, NEW site \in {TracePc, PanicPc}, Interrupt(t, site)
      PROVE  HeapInv'
  <2>1. /\ Idle(t) /\ UNCHANGED <<box, reg, heap, proc, selected, passed>>
        /\ pc'[t] = site /\ \A u \in Threads : u # t => pc'[u] = pc[u]
    BY <1>1, <1>5 DEF Interrupt, Arrives
  <2>2. site.kind \in {"trace", "panic"}
    BY DEF TracePc, PanicPc
  <2>3. QED BY <1>2, <2>1, <2>2, PlainStep
<1>6. ASSUME NEW t \in Threads, Stop(t) PROVE HeapInv'
  <2>1. /\ UNCHANGED <<pc, box, reg, heap, passed>> /\ UNCHANGED <<tableVars, allocVars, seen>>
        /\ proc = "running" /\ proc' = "stopped" /\ selected' = t
    BY <1>6 DEF Stop, Program
  <2>2. seen = {}
    BY <2>1 DEF HeapInv, StopsKnown
  <2>3. \A u \in Threads : Same(u)
    BY <2>1, <2>2 DEF Same, HitHandled, allocVars
  <2>4. HitsPlanted' /\ AfterPlanted'
    BY <2>1 DEF HeapInv, HitsPlanted, AfterPlanted, Planted, Trapped, tableVars
  <2>5. StopsKnown'
    BY <2>1, <2>2, HeapAssumption DEF StopsKnown
  <2>6. QED BY <2>1, <2>3, <2>4, <2>5, StillKeeps DEF tableVars, allocVars
<1>7. CASE Go \/ Exit
  <2>1. /\ UNCHANGED <<pc, box, reg, heap, passed>> /\ UNCHANGED <<tableVars, allocVars, seen>>
        /\ proc # "stopped" /\ proc' # "stopped"
    BY <1>7 DEF Go, Exit, Program
  <2>2. seen = {}
    BY <2>1 DEF HeapInv, StopsKnown
  <2>3. \A u \in Threads : Same(u)
    BY <2>1, <2>2 DEF Same, HitHandled, allocVars
  <2>4. HitsPlanted' /\ AfterPlanted'
    BY <2>1 DEF HeapInv, HitsPlanted, AfterPlanted, Planted, Trapped, tableVars
  <2>5. StopsKnown'
    BY <2>1, <2>2 DEF StopsKnown
  <2>6. QED BY <2>1, <2>3, <2>4, <2>5, StillKeeps DEF tableVars, allocVars
<1>8. ASSUME NEW t \in Threads, StepOver(t) PROVE HeapInv'
  BY <1>8, StepOverRest, StepOverDropStep
<1>9. \A t \in Threads : ~StopForSignal(t)
  BY DEF StopForSignal, Tidy
<1>10. \A t \in Threads :
        /\ \A b \in BoxSites : Malloc(t, b, Planted) => HeapInv'
        /\ Allocated(t, Planted) => HeapInv'
        /\ \A a \in Addresses : Drop(t, a, Planted) => HeapInv'
  BY MallocStep, AllocatedStep, DropStep
<1>11. QED
  BY <1>3, <1>4, <1>5, <1>6, <1>7, <1>8, <1>9, <1>10 DEF Program, TargetNext

-----------------------------------------------------------------------------
(***************************************************************************)
(* The handler.                                                            *)
(***************************************************************************)
\* Each arm of the handler is for one kind of address.
LEMMA HandledSites ==
    ASSUME TypeInv, Tidy, NEW t \in Threads
    PROVE  /\ HandleCall(t)            => pc[t].kind = "call"
           /\ HandleReturn(t)          => pc[t].kind = "ret"
           /\ HandleBreakpoint(t)      => pc[t].kind \in {"panic", "trace"}
           /\ HandleExchangeMalloc(t)  => pc[t] = MallocPc /\ box[t] \in BoxSites
           /\ HandleAfterAllocation(t) => pc[t].kind = "after"
           /\ HandleDropInPlace(t)     => pc[t] = DropPc
<1>1. SUFFICES ASSUME Handling(t)
               PROVE  /\ HandleCall(t)            => pc[t].kind = "call"
                      /\ HandleReturn(t)          => pc[t].kind = "ret"
                      /\ HandleBreakpoint(t)      => pc[t].kind \in {"panic", "trace"}
                      /\ HandleExchangeMalloc(t)  => pc[t] = MallocPc /\ box[t] \in BoxSites
                      /\ HandleAfterAllocation(t) => pc[t].kind = "after"
                      /\ HandleDropInPlace(t)     => pc[t] = DropPc
  BY DEF HandleCall, HandleReturn, HandleBreakpoint, HandleExchangeMalloc,
        HandleAfterAllocation, HandleDropInPlace
<1> DEFINE id == BpId(t)
           bp == breakpoints[id]
<1>2. pc[t] \in Sites /\ id \in Nat /\ bp.pc = pc[t] /\ BreakpointFits(id)
  BY <1>1, HandledBreakpoint DEF TypeInv, TypeOK, TableTypeOK
<1>3. pc[t].kind \in {"call", "ret", "after", "panic", "trace", "malloc", "drop"}
  BY <1>2 DEF Sites, CallPc, RetPc, AfterPc, PanicPc, TracePc, MallocPc, DropPc
<1>4. /\ bp.type = "FunctionCall"   <=> pc[t].kind = "call"
      /\ bp.type = "FunctionReturn" <=> pc[t].kind = "ret"
      /\ bp.capture = "Only"        <=> pc[t].kind = "after"
      /\ pc[t].kind = "panic"  => id = 1
      /\ pc[t].kind = "trace"  => id = 2
      /\ pc[t].kind = "malloc" => id = 3
      /\ pc[t].kind = "drop"   => id = 4
      /\ pc[t].kind \in {"call", "ret", "after"} => id > 4
  BY <1>2 DEF BreakpointFits, Tidy, RUST_PANIC_BP_ID, FIREDBG_TRACE_BP_ID, EXCHANGE_MALLOC,
        DROP_IN_PLACE
<1> HIDE DEF id, bp
<1>5. HandleCall(t) => pc[t].kind = "call"
  BY <1>4 DEF HandleCall, id, bp
<1>6. HandleReturn(t) => pc[t].kind = "ret"
  BY <1>4 DEF HandleReturn, id, bp
<1>7. HandleBreakpoint(t) => pc[t].kind \in {"panic", "trace"}
  <2>1. HandleBreakpoint(t) => bp.type = "Breakpoint" /\ bp.capture # "Only" /\ id \notin {3, 4}
    BY DEF HandleBreakpoint, ReturnsEarly, EXCHANGE_MALLOC, DROP_IN_PLACE, id, bp
  <2>2. QED BY <1>3, <1>4, <2>1
<1>8. HandleExchangeMalloc(t) => pc[t] = MallocPc /\ box[t] \in BoxSites
  <2>1. HandleExchangeMalloc(t) => id = 3
    BY DEF HandleExchangeMalloc, EXCHANGE_MALLOC, id
  <2>2. HandleExchangeMalloc(t) => pc[t].kind = "malloc"
    BY <1>3, <1>4, <2>1
  <2>3. HandleExchangeMalloc(t) => pc[t] = MallocPc
    BY <1>2, <2>2, SiteOfAfter
  <2>4. QED BY <2>3 DEF TypeInv, TableOK
<1>9. HandleAfterAllocation(t) => pc[t].kind = "after"
  BY <1>4 DEF HandleAfterAllocation, id, bp
<1>10. HandleDropInPlace(t) => pc[t] = DropPc
  <2>1. HandleDropInPlace(t) => id = 4
    BY DEF HandleDropInPlace, DROP_IN_PLACE, id
  <2>2. HandleDropInPlace(t) => pc[t].kind = "drop"
    BY <1>3, <1>4, <2>1
  <2>3. QED BY <1>2, <2>2, SiteOfAfter
<1>11. QED BY <1>5, <1>6, <1>7, <1>8, <1>9, <1>10

\* What the handler leaves as it is, whatever the hit.
LEMMA OneHitHandled ==
    ASSUME TypeInv, HeapInv, NEW t \in Threads, Handling(t),
           \A u \in Threads : u # t => allocating'[u] = allocating[u]
    PROVE  /\ UNCHANGED <<pc, box, reg, heap, proc, selected, passed>>
           /\ \A u \in Threads : u # t => Same(u)
           /\ HitHandled(t)' /\ ~Fresh(t)'
           /\ StopsKnown'
<1>1. /\ UNCHANGED <<pc, box, reg, heap, proc, selected, passed>>
      /\ proc = "stopped" /\ seen' = seen \cup {t} /\ pc[t] \in Sites
  BY HandledBreakpoint DEF Handling, targetVars
<1>2. \A u \in Threads : u # t => Same(u)
  BY <1>1 DEF Same, HitHandled
<1>3. HitHandled(t)' /\ ~Fresh(t)'
  BY <1>1 DEF HitHandled, Fresh
<1>4. StopsKnown'
  BY <1>1 DEF HeapInv, StopsKnown, Trapped
<1>5. QED BY <1>1, <1>2, <1>3, <1>4

\* Nothing but a new return address is planted: the rest of the table is as before.
LEMMA TableKeeps ==
    ASSUME HeapInv, UNCHANGED pc, Planted \subseteq Planted',
           functions_disassembled \subseteq functions_disassembled',
           \A b \in BoxSites :
                /\ AfterPc(b) \in functions_disassembled' => AfterPc(b) \in functions_disassembled
                /\ AfterPc(b) \in Planted' => AfterPc(b) \in Planted
    PROVE  HitsPlanted' /\ AfterPlanted'
<1>1. HitsPlanted'
  BY DEF HeapInv, HitsPlanted, Trapped
<1>2. AfterPlanted'
  BY DEF HeapInv, AfterPlanted
<1>3. QED BY <1>1, <1>2

\* A call, a return, a fire::dbg! or a panic.
LEMMA HandlePlain ==
    ASSUME TypeInv, Tidy, HeapInv, NEW t \in Threads,
           HandleCall(t) \/ HandleReturn(t) \/ HandleBreakpoint(t)
    PROVE  HeapInv'
<1>1. /\ Handling(t) /\ pc[t].kind \in {"call", "ret", "panic", "trace"}
      /\ UNCHANGED allocation
      /\ allocating \in [Threads -> Types \cup {None}]
      /\ breakpoint_addresses \in [Planted -> DOMAIN breakpoints]
  BY HandledSites DEF HandleCall, HandleReturn, HandleBreakpoint, SkipCall, CallAssertFails,
        RecordCall, allocVars, TypeInv, TypeOK, AllocationTypeOK, TableTypeOK
<1>2. \/ UNCHANGED allocating
      \/ allocating' = [allocating EXCEPT ![t] = None]
  BY DEF HandleCall, HandleReturn, HandleBreakpoint, SkipCall, CallAssertFails, RecordCall,
        allocVars, ClearAllocating
<1>3. /\ \A u \in Threads : u # t => allocating'[u] = allocating[u]
      /\ allocating[t] = None => allocating'[t] = None
  BY <1>1, <1>2
<1>4. /\ UNCHANGED <<pc, box, reg, heap, proc, selected, passed>>
      /\ \A u \in Threads : u # t => Same(u)
      /\ HitHandled(t)' /\ StopsKnown'
  BY <1>1, <1>3, OneHitHandled
<1>5. /\ functions_disassembled \subseteq functions_disassembled'
      /\ HitsPlanted' /\ AfterPlanted'
  <2>1. CASE UNCHANGED tableVars
    BY <1>4, <2>1, TableKeeps DEF tableVars, Planted
  <2>2. CASE HandleCall(t) /\ RecordCall(t)
    <3>1. pc[t].at \in Functions /\ pc[t] = CallPc(pc[t].at)
      BY <1>1, <2>2, HandledSites, HandledBreakpoint, SiteOfCall
    <3>2. functions_disassembled' = functions_disassembled \cup {CallPc(pc[t].at)}
      BY <2>2, <3>1 DEF RecordCall, Disassemble
    <3>3. Planted' = Planted \/ Planted' = Planted \cup {RetPc(pc[t].at)}
      BY <2>2 DEF RecordCall, Disassemble, Plant, Breakpoint, Planted
    <3>4. QED BY <1>4, <3>1, <3>2, <3>3, AfterSites, TableKeeps
  <2>3. QED
    BY <2>1, <2>2 DEF HandleCall, HandleReturn, HandleBreakpoint, SkipCall, CallAssertFails
<1>6. box[t] = None /\ (ZeroSized = {} => allocating[t] = None)
  <2>1. pc[t] # MallocPc /\ pc[t] # Elsewhere
    BY <1>1 DEF MallocPc, Elsewhere
  <2>2. BoxOK(t) /\ pc[t].kind # "after"
    BY <1>1 DEF HeapInv
  <2>3. QED BY <2>1, <2>2 DEF BoxOK, Announced, Fresh
<1>7. BoxOK(t)'
  BY <1>3, <1>4, <1>6 DEF BoxOK, Announced
<1>8. AllocatedOK(t)' /\ DroppedOK(t)' /\ \A a \in Addresses : ~Holds(t, a)'
  BY <1>1, <1>4 DEF AllocatedOK, DroppedOK, Holds
<1>9. \A a \in Addresses : ~AtAllocation(t, a) /\ ~AtDrop(t, a)
  BY <1>1 DEF AtAllocation, AtDrop
<1>10. QED BY <1>1, <1>4, <1>5, <1>7, <1>8, <1>9, StepKeeps

\* The type is noted, and the address after the allocation gets its breakpoint.
LEMMA HandleMalloc ==
    ASSUME TypeInv, Tidy, HeapInv, NEW t \in Threads, HandleExchangeMalloc(t)
    PROVE  HeapInv'
<1>1. /\ Handling(t) /\ pc[t] = MallocPc /\ box[t] \in BoxSites
      /\ UNCHANGED allocation
      /\ allocating \in [Threads -> Types \cup {None}]
  BY HandledSites DEF HandleExchangeMalloc, TypeInv, TypeOK, AllocationTypeOK
<1> PICK b \in BoxSites : b = box[t]
  BY <1>1
<1>2. /\ functions_disassembled' = functions_disassembled \cup {AfterPc(b)}
      /\ IF FirstHit(AfterPc(b)) /\ b \notin ZeroSized /\ AfterPc(b) \notin Planted
         THEN Plant(Breakpoint("Breakpoint", "Only", AfterPc(b)))
         ELSE UNCHANGED <<created, breakpoints, breakpoint_addresses>>
      /\ allocating' = [allocating EXCEPT ![t] =
                            NotedType(b, FirstHit(AfterPc(b)), allocating[t])]
  BY DEF HandleExchangeMalloc
<1>3. /\ \A u \in Threads : u # t => allocating'[u] = allocating[u]
      /\ allocating'[t] = NotedType(b, FirstHit(AfterPc(b)), allocating[t])
  BY <1>1, <1>2
<1>4. /\ UNCHANGED <<pc, box, reg, heap, proc, selected, passed>>
      /\ \A u \in Threads : u # t => Same(u)
      /\ HitHandled(t)' /\ StopsKnown'
  BY <1>1, <1>3, OneHitHandled
<1>5. Planted' = IF FirstHit(AfterPc(b)) /\ b \notin ZeroSized
                 THEN Planted \cup {AfterPc(b)} ELSE Planted
  BY <1>2 DEF Plant, Planted, Breakpoint
<1>6. HitsPlanted'
  BY <1>4, <1>5 DEF HeapInv, HitsPlanted, Trapped
<1>7. AfterPlanted'
  <2>1. ASSUME NEW c \in BoxSites
        PROVE  /\ AfterPc(c) \in functions_disassembled'
                        => c \in ZeroSized \/ AfterPc(c) \in Planted'
               /\ AfterPc(c) \in Planted' => c \notin ZeroSized
    <3>1. AfterPc(c) = AfterPc(b) => c = b
      BY AfterSites
    <3>2. /\ AfterPc(c) \in functions_disassembled => c \in ZeroSized \/ AfterPc(c) \in Planted
          /\ AfterPc(c) \in Planted => c \notin ZeroSized
      BY DEF HeapInv, AfterPlanted
    <3>3. QED BY <1>2, <1>5, <3>1, <3>2 DEF FirstHit
  <2>2. QED BY <2>1 DEF AfterPlanted
<1>8. b \notin ZeroSized => allocating'[t] = IF TypeOf[b] \in ClosureTypes THEN None ELSE TypeOf[b]
  <2>1. SUFFICES ASSUME b \notin ZeroSized, TypeOf[b] \in ClosureTypes
                 PROVE  allocating[t] = None
    BY <1>3 DEF NotedType
  <2>2. ZeroSized = {}
    BY <2>1 DEF Tidy
  <2>3. ~Fresh(t)
    BY <1>1 DEF Fresh, MallocPc
  <2>4. Announced(t) => allocating[t] = None
    BY <2>1 DEF HeapInv, BoxOK, TypeNoted
  <2>5. QED BY <2>2, <2>3, <2>4 DEF HeapInv, BoxOK
<1>9. BoxOK(t)'
  <2>1. Announced(t)' /\ AfterPc(b) \in functions_disassembled' /\ box'[t] = b
    BY <1>2, <1>4, NoSiteIsNone DEF Announced
  <2>2. QED BY <1>1, <1>4, <1>8, <2>1 DEF BoxOK, TypeNoted
<1>10. AllocatedOK(t)' /\ DroppedOK(t)' /\ \A a \in Addresses : ~Holds(t, a)'
  BY <1>1, <1>4 DEF AllocatedOK, DroppedOK, Holds, MallocPc
<1>11. \A a \in Addresses : ~AtAllocation(t, a) /\ ~AtDrop(t, a)
  BY <1>1 DEF AtAllocation, AtDrop, MallocPc
<1>12. functions_disassembled \subseteq functions_disassembled'
  BY <1>2
<1>13. QED BY <1>1, <1>4, <1>6, <1>7, <1>9, <1>10, <1>11, <1>12, StepKeeps

\* A value that is recorded was not on record, and is what the record says.
LEMMA Recorded ==
    ASSUME TypeInv, Tidy, HeapInv, NEW t \in Threads, HandleAfterAllocation(t),
           allocating[t] # None
    PROVE  /\ reg[t] \in Addresses /\ Holds(t, reg[t])
           /\ Fresh(t) /\ reg[t] \notin DOMAIN allocation
           /\ heap[reg[t]] = allocating[t]
<1>1. pc[t].kind = "after"
  BY HandledSites
<1>2. QED BY <1>1 DEF HeapInv, AllocatedOK, TypeNoted

LEMMA HandleAllocation ==
    ASSUME TypeInv, Tidy, HeapInv, NEW t \in Threads, HandleAfterAllocation(t)
    PROVE  HeapInv'
<1>1. /\ Handling(t) /\ pc[t].kind = "after"
      /\ UNCHANGED tableVars
      /\ allocating \in [Threads -> Types \cup {None}]
  BY HandledSites DEF HandleAfterAllocation, TypeInv, TypeOK, AllocationTypeOK
<1>2. allocating' = [allocating EXCEPT ![t] = None]
  BY <1>1 DEF HandleAfterAllocation, ClearAllocating, allocVars
<1>3. (\A u \in Threads : u # t => allocating'[u] = allocating[u]) /\ allocating'[t] = None
  BY <1>1, <1>2
<1>4. /\ UNCHANGED <<pc, box, reg, heap, proc, selected, passed>>
      /\ \A u \in Threads : u # t => Same(u)
      /\ HitHandled(t)' /\ StopsKnown' /\ ~Fresh(t)'
  BY <1>1, <1>3, OneHitHandled
<1>5. UNCHANGED functions_disassembled /\ HitsPlanted' /\ AfterPlanted'
  BY <1>1, <1>4, TableKeeps DEF tableVars, Planted
<1>6. reg[t] \in Addresses /\ Holds(t, reg[t])
  BY <1>1 DEF HeapInv, AllocatedOK
<1>7. \A u \in Threads : \A c \in Addresses : Holds(u, c)' <=> Holds(u, c)
  BY <1>4 DEF Holds, ValueAddress
<1>8. BoxOK(t)'
  <2>1. pc[t] # MallocPc /\ pc[t] # Elsewhere
    BY <1>1 DEF MallocPc, Elsewhere
  <2>2. QED BY <1>3, <1>4, <2>1 DEF HeapInv, BoxOK, Announced
<1>9. AllocatedOK(t)' /\ DroppedOK(t)'
  BY <1>1, <1>3, <1>4, <1>6 DEF AllocatedOK, DroppedOK, Holds
<1>10. \A c \in Addresses : (AtAllocation(t, c) => c = reg[t] /\ Fresh(t)) /\ ~AtDrop(t, c)
  BY <1>1 DEF AtAllocation, AtDrop, Fresh
\* (a closure: nothing was noted, and nothing is recorded)
<1>11. CASE allocating[t] = None
  <2>1. UNCHANGED allocation
    BY <1>11 DEF HandleAfterAllocation, allocVars
  <2>2. \A c \in Addresses : AtAllocation(t, c) => heap[c] \in ClosureTypes
    <3>1. SUFFICES ASSUME Fresh(t) PROVE heap[reg[t]] \in ClosureTypes
      BY <1>10
    <3>2. heap[reg[t]] = TypeOf[pc[t].at] /\ TypeNoted(t, pc[t].at) /\ pc[t].at \in BoxSites
      BY <1>1, <3>1, HandledBreakpoint, SiteOfAfter DEF HeapInv, AllocatedOK
    <3>3. QED BY <1>11, <3>2, NoSiteIsNone DEF TypeNoted
  <2>3. \A c \in Addresses : Holds(t, c)' => \A u \in Threads : Holds(u, c) => u = t
    BY <1>7 DEF HeapInv, HeldAlone
  <2>4. QED BY <1>4, <1>5, <1>8, <1>9, <1>10, <2>1, <2>2, <2>3, StepKeeps
<1>12. CASE allocating[t] # None
  <2>1. /\ DOMAIN allocation' = DOMAIN allocation \cup {reg[t]}
        /\ allocation'[reg[t]] = heap[reg[t]]
        /\ \A c \in DOMAIN allocation : c # reg[t] => allocation'[c] = allocation[c]
    BY <1>12, Recorded DEF HandleAfterAllocation
  <2>2. ASSUME NEW u \in Threads PROVE BoxOK(u)' /\ AllocatedOK(u)' /\ DroppedOK(u)'
    <3>1. CASE u # t
      <4>1. \A c \in Addresses : Holds(u, c) => c # reg[t]
        BY <1>6, <3>1 DEF HeapInv, HeldAlone
      <4>2. QED BY <1>4, <1>5, <2>1, <3>1, <4>1, OthersKeep DEF HeapInv
    <3>2. CASE u = t
      BY <1>8, <1>9, <3>2
    <3>3. QED BY <3>1, <3>2
  <2>3. HeldAlone'
    BY <1>7 DEF HeapInv, HeldAlone
  <2>4. RecordedTypesAreRight'
    BY <1>4, <1>6, <2>1 DEF HeapInv, RecordIsTheHeap, RecordedTypesAreRight
  <2>5. LiveValuesAreRecorded'
    <3>1. ASSUME NEW c \in Addresses, heap[c] \notin {Free} \cup ClosureTypes
          PROVE  \/ c \in DOMAIN allocation'
                 \/ \E u \in Threads : AtAllocation(u, c)' \/ AtDrop(u, c)'
      <4>1. CASE c = reg[t]
        BY <2>1, <4>1
      <4>2. CASE c # reg[t]
        <5>1. c \in DOMAIN allocation \/ \E u \in Threads : AtAllocation(u, c) \/ AtDrop(u, c)
          BY <3>1 DEF HeapInv, RecordIsTheHeap, LiveValuesAreRecorded
        <5>2. \A u \in Threads : AtAllocation(u, c) \/ AtDrop(u, c) => u # t
          BY <1>10, <4>2
        <5>3. \A u \in Threads : u # t => /\ AtAllocation(u, c) => AtAllocation(u, c)'
                                          /\ AtDrop(u, c) => AtDrop(u, c)'
          BY <1>4 DEF Same, AtAllocation, AtDrop, ValueAddress
        <5>4. QED BY <2>1, <5>1, <5>2, <5>3
      <4>3. QED BY <4>1, <4>2
    <3>2. QED BY <1>4, <3>1 DEF LiveValuesAreRecorded
  <2>6. BlocksApart'
    BY <1>4 DEF HeapInv, BlocksApart
  <2>7. QED BY <1>4, <1>5, <2>2, <2>3, <2>4, <2>5, <2>6 DEF HeapInv, RecordIsTheHeap
<1>13. QED BY <1>11, <1>12

\* The address a drop is recorded for is that of the value that is dropped,
\* although only its address, or the one behind the counters, is seen.
LEMMA Dropped ==
    ASSUME TypeInv, Tidy, HeapInv, NEW t \in Threads, NEW a \in Addresses, Holds(t, a),
           pc[t].kind = "drop"
    PROVE  DroppedAddress(reg[t]) = {a} \cap DOMAIN allocation
<1>1. reg[t] = ValueAddress(a) /\ heap[a] # Free
  BY DEF Holds
<1>2. \A c \in DOMAIN allocation : c \in Addresses /\ heap[c] = allocation[c]
  BY DEF HeapInv, RecordIsTheHeap, RecordedTypesAreRight
<1>3. ASSUME NEW c \in DroppedAddress(reg[t]) PROVE c = a /\ c \in DOMAIN allocation
  <2>1. c \in DOMAIN allocation /\ (c = reg[t] \/ c = reg[t] - 16)
    BY DEF DroppedAddress
  <2>2. c \in Addresses /\ c \in Int /\ reg[t] \in Int /\ heap[c] # Free
    BY <1>2, <2>1, HeapAssumption DEF TypeInv, TypeOK, TargetTypeOK, AllocationTypeOK
  <2>3. CASE c = reg[t]
    BY <1>1, <2>1, <2>2, <2>3 DEF ValueAddress, HeapInv, BlocksApart
  <2>4. CASE c # reg[t]
    <3>1. c = reg[t] - 16 /\ heap[c] = "Rc"
      BY <1>2, <2>1, <2>4 DEF DroppedAddress
    <3>2. ValueAddress(c) = ValueAddress(a)
      BY <1>1, <2>2, <3>1 DEF ValueAddress
    <3>3. QED BY <1>1, <2>1, <2>2, <3>2, ValuesApart DEF HeapInv
  <2>5. QED BY <2>1, <2>3, <2>4
<1>4. ASSUME a \in DOMAIN allocation PROVE a \in DroppedAddress(reg[t])
  <2>1. CASE heap[a] = "Rc"
    <3>1. reg[t] = a + 16 /\ a \in Int /\ allocation[a] = "Rc"
      BY <1>1, <1>2, <1>4, <2>1, HeapAssumption DEF ValueAddress
    <3>2. a = reg[t] - 16
      BY <3>1
    <3>3. reg[t] \notin DOMAIN allocation
      BY <1>2, <2>1, <3>1, HeapAssumption DEF HeapInv, BlocksApart, TypeInv, TypeOK, AllocationTypeOK
    <3>4. QED BY <1>4, <3>1, <3>2, <3>3 DEF DroppedAddress
  <2>2. CASE heap[a] # "Rc"
    BY <1>1, <1>4, <2>2 DEF ValueAddress, DroppedAddress
  <2>3. QED BY <2>1, <2>2
<1>5. QED BY <1>3, <1>4

LEMMA HandleDrop ==
    ASSUME TypeInv, Tidy, HeapInv, NEW t \in Threads, HandleDropInPlace(t)
    PROVE  HeapInv'
<1>1. /\ Handling(t) /\ pc[t] = DropPc /\ pc[t].kind = "drop"
      /\ UNCHANGED tableVars /\ UNCHANGED allocating
  <2>1. pc[t] = DropPc /\ DropPc.kind = "drop"
    BY HandledSites DEF DropPc
  <2>2. Handling(t) /\ UNCHANGED tableVars /\ UNCHANGED allocating
    BY DEF HandleDropInPlace
  <2>3. QED BY <2>1, <2>2
<1>2. /\ UNCHANGED <<pc, box, reg, heap, proc, selected, passed>>
      /\ \A u \in Threads : u # t => Same(u)
      /\ HitHandled(t)' /\ StopsKnown' /\ ~Fresh(t)'
  BY <1>1, OneHitHandled
<1>3. UNCHANGED functions_disassembled /\ HitsPlanted' /\ AfterPlanted'
  BY <1>1, <1>2, TableKeeps DEF tableVars, Planted
<1>4. PICK a \in Addresses : Holds(t, a)
  BY <1>1 DEF HeapInv, DroppedOK
<1>5. reg[t] = ValueAddress(a)
  BY <1>1, <1>4 DEF Holds
<1>6. heap[a] # Free
  BY <1>4 DEF Holds
<1>7. /\ DOMAIN allocation' = DOMAIN allocation \ {a}
      /\ \A c \in DOMAIN allocation' : allocation'[c] = allocation[c]
  <2>1. DroppedAddress(reg[t]) = {a} \cap DOMAIN allocation
    BY <1>1, <1>4, Dropped
  <2>2. CASE DroppedAddress(reg[t]) = {}
    BY <2>1, <2>2 DEF HandleDropInPlace
  <2>3. CASE DroppedAddress(reg[t]) # {}
    <3>1. DroppedAddress(reg[t]) = {a}
      BY <2>1, <2>3
    <3>2. allocation' = [c \in DOMAIN allocation \ {a} |-> allocation[c]]
      BY <3>1 DEF HandleDropInPlace
    <3>3. QED BY <3>2
  <2>4. QED BY <2>2, <2>3
<1>8. \A u \in Threads : \A c \in Addresses : Holds(u, c)' <=> Holds(u, c)
  BY <1>2 DEF Holds, ValueAddress
<1>9. BoxOK(t)'
  <2>1. pc[t] # MallocPc /\ pc[t] # Elsewhere
    BY <1>1 DEF MallocPc, Elsewhere
  <2>2. QED BY <1>1, <1>2, <2>1 DEF HeapInv, BoxOK, Announced, Fresh
<1>10. AllocatedOK(t)' /\ DroppedOK(t)'
  <2>1. Holds(t, a)' /\ a \notin DOMAIN allocation'
    BY <1>4, <1>7, <1>8
  <2>2. QED BY <1>1, <1>2, <2>1 DEF AllocatedOK, DroppedOK
<1>11. ASSUME NEW u \in Threads PROVE BoxOK(u)' /\ AllocatedOK(u)' /\ DroppedOK(u)'
  <2>1. CASE u # t
    BY <1>2, <1>3, <1>7, <2>1, OthersKeep DEF HeapInv
  <2>2. CASE u = t
    BY <1>9, <1>10, <2>2
  <2>3. QED BY <2>1, <2>2
<1>12. HeldAlone'
  BY <1>8 DEF HeapInv, HeldAlone
<1>13. RecordedTypesAreRight'
  BY <1>2, <1>7 DEF HeapInv, RecordIsTheHeap, RecordedTypesAreRight
<1>14. LiveValuesAreRecorded'
  <2>1. ASSUME NEW c \in Addresses, heap[c] \notin {Free} \cup ClosureTypes
        PROVE  \/ c \in DOMAIN allocation'
               \/ \E u \in Threads : AtAllocation(u, c)' \/ AtDrop(u, c)'
    <3>1. CASE c = a
      <4>1. AtDrop(t, a)'
        BY <1>1, <1>2, <1>5 DEF AtDrop, ValueAddress
      <4>2. QED BY <3>1, <4>1
    <3>2. CASE c # a
      <4>1. c \in DOMAIN allocation \/ \E u \in Threads : AtAllocation(u, c) \/ AtDrop(u, c)
        BY <2>1 DEF HeapInv, RecordIsTheHeap, LiveValuesAreRecorded
      <4>2. \A u \in Threads : u # t => /\ AtAllocation(u, c) => AtAllocation(u, c)'
                                        /\ AtDrop(u, c) => AtDrop(u, c)'
        BY <1>2 DEF Same, AtAllocation, AtDrop, ValueAddress
      <4>3. ~AtAllocation(t, c) /\ ~AtDrop(t, c)
        <5>1. ValueAddress(c) # reg[t]
          BY <1>5, <1>6, <2>1, <3>2, ValuesApart DEF HeapInv
        <5>2. QED BY <1>1, <5>1 DEF AtAllocation, AtDrop
      <4>4. QED BY <1>7, <3>2, <4>1, <4>2, <4>3
    <3>3. QED BY <3>1, <3>2
  <2>2. QED BY <1>2, <2>1 DEF LiveValuesAreRecorded
<1>15. BlocksApart'
  BY <1>2 DEF HeapInv, BlocksApart
<1>16. QED BY <1>2, <1>3, <1>11, <1>12, <1>13, <1>14, <1>15 DEF HeapInv, RecordIsTheHeap

LEMMA HeapInvNext == TypeInv /\ Tidy /\ HeapInv /\ [Next]_vars => HeapInv'
<1> SUFFICES ASSUME TypeInv, Tidy, HeapInv, [Next]_vars PROVE HeapInv'
  OBVIOUS
<1>1. CASE Program
  BY <1>1, HeapInvProgram
<1>2. CASE \E t \in Threads : Handle(t)
  BY <1>2, HandlePlain, HandleMalloc, HandleAllocation, HandleDrop DEF Handle
<1>3. CASE Resume
  <2>1. /\ UNCHANGED <<pc, box, reg, heap>> /\ UNCHANGED tableVars /\ UNCHANGED allocVars
        /\ proc = "stopped" /\ proc' = "stepping" /\ seen' = {}
        /\ passed' = {t \in Threads : Trapped(t)}
        /\ selected # None => AllSeen
    BY <1>3 DEF Resume
\* (every hit was handled)
  <2>2. ASSUME NEW u \in Threads PROVE HitHandled(u)' <=> HitHandled(u)
    <3>1. HitHandled(u)' <=> Trapped(u)
      BY <2>1 DEF HitHandled
    <3>2. CASE Trapped(u)
      <4>1. pc[u] \in Planted /\ AllSeen
        BY <2>1, <3>2 DEF HeapInv, HitsPlanted, StopsKnown
      <4>2. u \in seen
        BY <4>1 DEF AllSeen
      <4>3. QED BY <2>1, <3>1, <3>2, <4>2 DEF HitHandled
    <3>3. CASE ~Trapped(u)
      <4>1. u \notin passed /\ u \notin seen
        BY <3>3 DEF TypeInv, TypeOK, TargetTypeOK, HeapInv, StopsKnown
      <4>2. QED BY <3>1, <3>3, <4>1 DEF HitHandled
    <3>4. QED BY <3>2, <3>3
  <2>3. \A u \in Threads : Same(u)
    BY <2>1, <2>2 DEF Same, allocVars
  <2>4. HitsPlanted' /\ AfterPlanted' /\ StopsKnown'
    BY <2>1 DEF HeapInv, HitsPlanted, AfterPlanted, StopsKnown, Planted, Trapped, tableVars
  <2>5. QED BY <2>1, <2>3, <2>4, StillKeeps DEF tableVars, allocVars
<1>4. CASE Finish \/ UNCHANGED vars
  <2>1. /\ UNCHANGED targetVars /\ UNCHANGED tableVars /\ UNCHANGED allocVars /\ UNCHANGED seen
    BY <1>4 DEF Finish, vars
  <2>2. \A u \in Threads : Same(u)
    BY <2>1 DEF Same, HitHandled, targetVars, allocVars
  <2>3. HitsPlanted' /\ AfterPlanted' /\ StopsKnown'
    BY <2>1 DEF HeapInv, HitsPlanted, AfterPlanted, StopsKnown, Planted, Trapped, tableVars,
          targetVars
  <2>4. QED BY <2>1, <2>2, <2>3, StillKeeps DEF targetVars, tableVars, allocVars
<1>5. QED
  BY <1>1, <1>2, <1>3, <1>4 DEF Next, Done

\* Whatever a program that keeps to the conditions allocates and drops, in however
\* many threads, the record of the heap is the heap, but for what a thread is in
\* the middle of: nothing on record is gone or of another type, and no value that
\* is there is missing (HandleExchangeMalloc, HandleAfterAllocation,
\* HandleDropInPlace).
THEOREM TheRecordIsTheHeap == ASSUME Tidy PROVE Spec => []RecordIsTheHeap
<1>1. Init => TypeInv /\ HeapInv
  BY TypeInvInit, HeapInvInit
<1>2. TypeInv /\ HeapInv /\ [Next]_vars => TypeInv' /\ HeapInv'
  BY TypeInvNext, HeapInvNext
<1>3. HeapInv => RecordIsTheHeap
  BY DEF HeapInv
<1>4. QED BY <1>1, <1>2, <1>3, PTL DEF Spec

-----------------------------------------------------------------------------
(***************************************************************************)
(* The allocation stream.                                                  *)
(***************************************************************************)
Alternates(s) ==
    \A i, j \in DOMAIN s :
        /\ i < j
        /\ s[i].address = s[j].address
        /\ \A k \in i + 1 .. j - 1 : s[k].address # s[i].address
        => /\ s[i].action # s[j].action
           /\ s[j].action = "Drop" => s[j].type = s[i].type

\* What an entry says becomes what is on record, and it is news.
IsNews(e, before, after) ==
    /\ \A a : a # e.address => /\ a \in DOMAIN after <=> a \in DOMAIN before
                               /\ a \in DOMAIN before => after[a] = before[a]
    /\ e.action = "Alloc" => /\ e.address \notin DOMAIN before
                             /\ e.address \in DOMAIN after /\ after[e.address] = e.type
    /\ e.action = "Drop" => /\ e.address \in DOMAIN before /\ before[e.address] = e.type
                            /\ e.address \notin DOMAIN after

LEMMA NewsAlternates ==
    ASSUME NEW s \in Seq(AllocEntries), NEW before, NEW after, NEW e \in AllocEntries,
           LastSays(s, before), Alternates(s), IsNews(e, before, after)
    PROVE  LastSays(Append(s, e), after) /\ Alternates(Append(s, e))
<1> DEFINE n == Len(s)
           r == Append(s, e)
<1>1. /\ n \in Nat /\ DOMAIN s = 1 .. n /\ DOMAIN r = 1 .. n + 1
      /\ r[n + 1] = e /\ \A i \in 1 .. n : r[i] = s[i]
  BY AppendProperties
<1>2. \A i \in 1 .. n : s[i].action \in {"Alloc", "Drop"}
  <2>1. \A i \in 1 .. n : s[i] \in AllocEntries
    BY ElementOfSeq
  <2>2. QED BY <2>1 DEF AllocEntries
<1>3. e.action \in {"Alloc", "Drop"}
  BY DEF AllocEntries
<1> HIDE DEF n, r
<1>4. ASSUME NEW i \in 1 .. n + 1,
             \A k \in 1 .. n + 1 : k > i => r[k].address # r[i].address
      PROVE  IF r[i].action = "Alloc"
             THEN r[i].address \in DOMAIN after /\ after[r[i].address] = r[i].type
             ELSE r[i].address \notin DOMAIN after
  <2>1. CASE i = n + 1
    BY <1>1, <1>3, <2>1 DEF IsNews
  <2>2. CASE i \in 1 .. n
    <3>1. e.address # s[i].address
      BY <1>1, <1>4, <2>2
    <3>2. \A k \in 1 .. n : k > i => s[k].address # s[i].address
      BY <1>1, <1>4, <2>2
    <3>3. IF s[i].action = "Alloc"
          THEN s[i].address \in DOMAIN before /\ before[s[i].address] = s[i].type
          ELSE s[i].address \notin DOMAIN before
      BY <1>1, <2>2, <3>2 DEF LastSays
    <3>4. QED BY <1>1, <2>2, <3>1, <3>3 DEF IsNews
  <2>3. QED BY <1>1, <2>1, <2>2
<1>5. ASSUME NEW i \in 1 .. n + 1, NEW j \in 1 .. n + 1, i < j,
             r[i].address = r[j].address,
             \A k \in i + 1 .. j - 1 : r[k].address # r[i].address
      PROVE  r[i].action # r[j].action /\ (r[j].action = "Drop" => r[j].type = r[i].type)
  <2>1. i \in 1 .. n /\ r[i] = s[i]
    BY <1>1, <1>5
  <2>2. CASE j \in 1 .. n
    <3>1. \A k \in i + 1 .. j - 1 : s[k].address # s[i].address
      BY <1>1, <1>5, <2>1, <2>2
    <3>2. QED BY <1>1, <1>5, <2>1, <2>2, <3>1 DEF Alternates
  <2>3. CASE j = n + 1
    <3>1. r[j] = e
      BY <1>1, <2>3
    <3>2. \A k \in 1 .. n : k > i => s[k].address # s[i].address
      BY <1>1, <1>5, <2>1, <2>3
    <3>3. IF s[i].action = "Alloc"
          THEN s[i].address \in DOMAIN before /\ before[s[i].address] = s[i].type
          ELSE s[i].address \notin DOMAIN before
      BY <1>1, <2>1, <3>2 DEF LastSays
    <3>4. s[i].address = e.address
      BY <1>5, <2>1, <3>1
    <3>5. QED BY <1>2, <1>3, <2>1, <3>1, <3>3, <3>4 DEF IsNews
  <2>4. QED BY <1>1, <2>2, <2>3
<1>6. LastSays(r, after)
  BY <1>1, <1>4 DEF LastSays
<1>7. Alternates(r)
  BY <1>1, <1>5 DEF Alternates
<1>8. QED BY <1>6, <1>7 DEF r

LEMMA StreamNews ==
    ASSUME StreamAlternates, NEW e \in AllocEntries, alloc_stream' = Append(alloc_stream, e),
           IsNews(e, allocation, allocation')
    PROVE  StreamAlternates'
<1>1. alloc_stream \in Seq(AllocEntries) /\ LastSays(alloc_stream, allocation)
      /\ Alternates(alloc_stream)
  BY DEF StreamAlternates, AllocationsAlternate, Alternates
<1>2. LastSays(alloc_stream', allocation') /\ Alternates(alloc_stream')
  BY <1>1, NewsAlternates
<1>3. alloc_stream' \in Seq(AllocEntries)
  BY <1>1, AppendProperties
<1>4. LastSays(alloc_stream, allocation)'
  BY <1>2 DEF LastSays
<1>5. AllocationsAlternate'
  BY <1>2 DEF AllocationsAlternate, Alternates
<1>6. QED BY <1>3, <1>4, <1>5 DEF StreamAlternates

LEMMA StreamStays ==
    ASSUME StreamAlternates, UNCHANGED <<allocation, alloc_stream>>
    PROVE  StreamAlternates'
  BY DEF StreamAlternates, AllocationsAlternate, LastSays

LEMMA StreamAlternatesHandle ==
    ASSUME TypeInv, Tidy, HeapInv, StreamAlternates, NEW t \in Threads, Handle(t)
    PROVE  StreamAlternates'
<1>1. CASE HandleAfterAllocation(t)
  <2>1. CASE allocating[t] = None
    BY <1>1, <2>1, StreamStays DEF HandleAfterAllocation, allocVars
  <2>2. CASE allocating[t] # None
    <3> DEFINE e == [action |-> "Alloc", address |-> reg[t], type |-> allocating[t]]
    <3>1. /\ alloc_stream' = Append(alloc_stream, e)
          /\ allocation' = [a \in DOMAIN allocation \cup {reg[t]} |->
                                IF a = reg[t] THEN allocating[t] ELSE allocation[a]]
      BY <1>1, <2>2 DEF HandleAfterAllocation
    <3>2. reg[t] \in Int /\ allocating[t] \in Types
      BY <2>2 DEF TypeInv, TypeOK, TargetTypeOK, AllocationTypeOK
    <3>3. e \in AllocEntries
      BY <3>2 DEF AllocEntries
    <3>4. reg[t] \notin DOMAIN allocation
      BY <1>1, <2>2, Recorded
    <3>5. IsNews(e, allocation, allocation')
      BY <3>1, <3>4 DEF IsNews
    <3> HIDE DEF e
    <3>6. QED BY <3>1, <3>3, <3>5, StreamNews
  <2>3. QED BY <2>1, <2>2
<1>2. CASE HandleDropInPlace(t)
  <2>1. CASE DroppedAddress(reg[t]) = {}
    BY <1>2, <2>1, StreamStays DEF HandleDropInPlace
  <2>2. CASE DroppedAddress(reg[t]) # {}
    <3>1. PICK a \in DroppedAddress(reg[t]) :
            /\ allocation' = [b \in DOMAIN allocation \ {a} |-> allocation[b]]
            /\ alloc_stream' = Append(alloc_stream,
                    [action |-> "Drop", address |-> a, type |-> allocation[a]])
      BY <1>2, <2>2 DEF HandleDropInPlace
    <3> DEFINE e == [action |-> "Drop", address |-> a, type |-> allocation[a]]
    <3>2. a \in DOMAIN allocation
      BY <3>1 DEF DroppedAddress
    <3>3. e \in AllocEntries
      BY <3>2 DEF AllocEntries, TypeInv, TypeOK, AllocationTypeOK
    <3>4. IsNews(e, allocation, allocation')
      BY <3>1, <3>2 DEF IsNews
    <3> HIDE DEF e
    <3>5. alloc_stream' = Append(alloc_stream, e)
      BY <3>1 DEF e
    <3>6. QED BY <3>3, <3>4, <3>5, StreamNews
  <2>3. QED BY <2>1, <2>2
<1>3. CASE \/ HandleCall(t) \/ HandleReturn(t) \/ HandleBreakpoint(t)
           \/ HandleExchangeMalloc(t)
  BY <1>3, StreamStays
     DEF HandleCall, HandleReturn, HandleBreakpoint, HandleExchangeMalloc, SkipCall,
         CallAssertFails, RecordCall, allocVars
<1>4. QED BY <1>1, <1>2, <1>3 DEF Handle

\* The entries of an address in the allocation stream alternate, and a drop names
\* the type of the allocation it ends, whatever addresses are used again and
\* whichever thread drops what another one allocated (HandleAfterAllocation,
\* HandleDropInPlace).
THEOREM AllocationsAndDropsAlternate == ASSUME Tidy PROVE Spec => []AllocationsAlternate
<1>1. Init => TypeInv /\ HeapInv /\ StreamAlternates
  <2>1. Init => StreamAlternates
    BY DEF Init, StreamAlternates, LastSays, AllocationsAlternate
  <2>2. QED BY <2>1, TypeInvInit, HeapInvInit
<1>2. TypeInv /\ HeapInv /\ StreamAlternates /\ [Next]_vars
        => TypeInv' /\ HeapInv' /\ StreamAlternates'
  <2> SUFFICES ASSUME TypeInv, HeapInv, StreamAlternates, [Next]_vars
               PROVE  StreamAlternates'
    BY TypeInvNext, HeapInvNext
  <2>1. CASE \E t \in Threads : Handle(t)
    BY <2>1, StreamAlternatesHandle
  <2>2. CASE Program \/ Resume \/ Finish \/ UNCHANGED vars
    BY <2>2, StreamStays DEF Program, Resume, Finish, vars, allocVars
  <2>3. QED BY <2>1, <2>2 DEF Next, Done
<1>3. StreamAlternates => AllocationsAlternate
  BY DEF StreamAlternates
<1>4. QED BY <1>1, <1>2, <1>3, PTL DEF Spec
=============================================================================
