--------------------------- MODULE DebuggerProofs ---------------------------
(***************************************************************************)
(* Proofs about module Debugger.                                           *)
(***************************************************************************)
EXTENDS Debugger, SequenceTheorems, TLAPS

\* The strengthening of the type invariant: an id is in the range the handler
\* takes it to be in because the breakpoint table is in order.
TypeInv == TypeOK /\ TableOK

-----------------------------------------------------------------------------
(***************************************************************************)
(* Sequences.                                                              *)
(***************************************************************************)
\* Without its last element, a sequence keeps the others.
LEMMA OuterProperties ==
    ASSUME NEW S, NEW s \in Seq(S), s # <<>>
    PROVE  /\ Outer(s) \in Seq(S)
           /\ Len(Outer(s)) = Len(s) - 1
           /\ \A i \in 1 .. Len(s) - 1 : Outer(s)[i] = s[i]
<1>1. Len(s) \in Nat /\ Len(s) > 0
  OBVIOUS
<1>2. PICK n \in Nat : n = Len(s) - 1
  BY <1>1
<1>3. 1 \in Int /\ n \in Int /\ \A i \in 1 .. n : s[i] \in S
  BY <1>1, <1>2
<1>4. /\ SubSeq(s, 1, n) \in Seq(S)
      /\ Len(SubSeq(s, 1, n)) = IF 1 <= n THEN n - 1 + 1 ELSE 0
      /\ \A i \in 1 .. n - 1 + 1 : SubSeq(s, 1, n)[i] = s[1 + i - 1]
  BY <1>3, SubSeqProperties, SMT
<1>5. Len(SubSeq(s, 1, n)) = n
  BY <1>4
<1>6. ASSUME NEW i \in 1 .. n PROVE SubSeq(s, 1, n)[i] = s[i]
  <2>1. i \in 1 .. n - 1 + 1 /\ 1 + i - 1 = i
    OBVIOUS
  <2>2. QED BY <1>4, <2>1
<1>7. QED BY <1>2, <1>4, <1>5, <1>6 DEF Outer

\* ... and the empty one stays empty.
LEMMA OuterType ==
    ASSUME NEW S, NEW s \in Seq(S)
    PROVE  Outer(s) \in Seq(S)
  BY DEF Outer

LEMMA LastInRange ==
    ASSUME NEW S, NEW s \in Seq(S), s # <<>>
    PROVE  Len(s) \in 1 .. Len(s) /\ s[Len(s)] \in S
  OBVIOUS

LEMMA PrefixType ==
    ASSUME NEW S, NEW s \in Seq(S), NEW n \in 0 .. Len(s)
    PROVE  SubSeq(s, 1, n) \in Seq(S)
  OBVIOUS

-----------------------------------------------------------------------------
(***************************************************************************)
(* The breakpoint table at the start.                                      *)
(***************************************************************************)
Internals == IF TraceAllocation THEN 4 ELSE 2

\* The internal breakpoints come first, then one for each traced function.
LEMMA InitialTable ==
    /\ InitialBreakpoints \in Seq(BreakpointRecords)
    /\ Len(InitialBreakpoints) = Internals + Len(UserFunctions)
    /\ \A i \in 1 .. Internals : InitialBreakpoints[i] = InternalBreakpoints[i]
    /\ \A i \in Internals + 1 .. Internals + Len(UserFunctions) :
        InitialBreakpoints[i] =
            Breakpoint("FunctionCall", "Arguments", CallPc(UserFunctions[i - Internals]))
<1> DEFINE user == [i \in 1 .. Len(UserFunctions) |->
                        Breakpoint("FunctionCall", "Arguments", CallPc(UserFunctions[i]))]
<1>1. UserFunctions \in Seq(Functions) /\ TraceAllocation \in BOOLEAN
  BY UserFunctionsAssumption
<1>2. InternalBreakpoints \in Seq(BreakpointRecords) /\ Len(InternalBreakpoints) = Internals
  <2>1. /\ Breakpoint("Breakpoint", "Locals", PanicPc) \in BreakpointRecords
        /\ Breakpoint("Breakpoint", "Arguments", TracePc) \in BreakpointRecords
        /\ Breakpoint("Breakpoint", "Arguments", MallocPc) \in BreakpointRecords
        /\ Breakpoint("Breakpoint", "Arguments", DropPc) \in BreakpointRecords
    BY DEF Breakpoint, BreakpointRecords, Sites
  <2>2. CASE TraceAllocation
    BY <2>1, <2>2 DEF InternalBreakpoints, Internals
  <2>3. CASE ~TraceAllocation
    BY <2>1, <2>3 DEF InternalBreakpoints, Internals
  <2>4. QED BY <2>2, <2>3
<1>3. user \in Seq(BreakpointRecords) /\ Len(user) = Len(UserFunctions)
  <2>1. \A i \in 1 .. Len(UserFunctions) : user[i] \in BreakpointRecords
    BY <1>1 DEF Breakpoint, BreakpointRecords, Sites
  <2>2. QED BY <1>1, <2>1
<1>4. InitialBreakpoints = InternalBreakpoints \o user
  BY DEF InitialBreakpoints
<1> HIDE DEF user
<1>5. /\ InitialBreakpoints \in Seq(BreakpointRecords)
      /\ Len(InitialBreakpoints) = Internals + Len(UserFunctions)
      /\ \A i \in 1 .. Internals : InitialBreakpoints[i] = InternalBreakpoints[i]
      /\ \A i \in Internals + 1 .. Internals + Len(UserFunctions) :
            InitialBreakpoints[i] = user[i - Internals]
  <2>1. /\ Len(InternalBreakpoints) = Internals
        /\ Len(user) = Len(UserFunctions)
        /\ Internals \in Nat /\ Len(UserFunctions) \in Nat
    BY <1>1, <1>2, <1>3 DEF Internals
  <2>2. /\ InternalBreakpoints \o user \in Seq(BreakpointRecords)
        /\ Len(InternalBreakpoints \o user) = Len(InternalBreakpoints) + Len(user)
        /\ \A i \in 1 .. Len(InternalBreakpoints) + Len(user) :
                (InternalBreakpoints \o user)[i] =
                    IF i <= Len(InternalBreakpoints) THEN InternalBreakpoints[i]
                    ELSE user[i - Len(InternalBreakpoints)]
    BY <1>2, <1>3, ConcatProperties
  <2>3. QED BY <1>4, <2>1, <2>2
<1>6. \A i \in Internals + 1 .. Internals + Len(UserFunctions) :
        /\ i - Internals \in 1 .. Len(UserFunctions)
        /\ user[i - Internals] =
            Breakpoint("FunctionCall", "Arguments", CallPc(UserFunctions[i - Internals]))
  BY <1>1 DEF user, Internals
<1>7. \A i \in Internals + 1 .. Internals + Len(UserFunctions) :
        InitialBreakpoints[i] =
            Breakpoint("FunctionCall", "Arguments", CallPc(UserFunctions[i - Internals]))
  BY <1>5, <1>6, Zenon
<1>8. QED BY <1>5, <1>7
-----------------------------------------------------------------------------
(***************************************************************************)
(* Type correctness.                                                       *)
(***************************************************************************)
LEMMA TypeInvInit == Init => TypeInv
<1> SUFFICES ASSUME Init PROVE TypeInv
  OBVIOUS
<1>1. TargetTypeOK
  BY SwitchesAssumption DEF Init, TargetInit, TargetTypeOK, Trapped
<1>2. TableTypeOK
  <2>1. breakpoints \in Seq(BreakpointRecords) /\ breakpoint_addresses = AddressesOf(breakpoints)
    BY InitialTable DEF Init
  <2>2. \A i \in DOMAIN breakpoints : breakpoints[i].pc \in Sites
    <3>1. \A i \in DOMAIN breakpoints : breakpoints[i] \in BreakpointRecords
      BY <2>1
    <3>2. QED BY <3>1 DEF BreakpointRecords
  <2>3. \A p \in Planted : /\ p \in Sites
                           /\ breakpoint_addresses[p] \in DOMAIN breakpoints
                           /\ breakpoints[breakpoint_addresses[p]].pc = p
    BY <2>1, <2>2 DEF Planted, AddressesOf
  <2>4. breakpoint_addresses \in [Planted -> DOMAIN breakpoints] /\ Planted \subseteq Sites
    <3>1. breakpoint_addresses = [p \in Planted |-> breakpoint_addresses[p]]
      BY <2>1 DEF Planted, AddressesOf
    <3>2. QED BY <2>3, <3>1
  <2>5. QED BY <2>1, <2>4 DEF TableTypeOK, Init
<1>3. CallTypeOK /\ AllocationTypeOK /\ seen \subseteq Threads /\ status = "loop"
  BY DEF Init, CallTypeOK, AllocationTypeOK
<1>4. TableOK
  <2>1. ASSUME NEW i \in DOMAIN breakpoints PROVE BreakpointFits(i)
    <3>1. i \in 1 .. Internals \/ i \in Internals + 1 .. Internals + Len(UserFunctions)
      BY <2>1, InitialTable DEF Init, Internals
    <3>2. CASE i \in 1 .. Internals
      <4>1. breakpoints[i] = InternalBreakpoints[i]
        BY <3>2, InitialTable DEF Init
      <4>2. CASE TraceAllocation
        <5>1. i \in {1, 2, 3, 4}
          BY <3>2, <4>2 DEF Internals
        <5>2. /\ i = 1 => breakpoints[i] = Breakpoint("Breakpoint", "Locals", PanicPc)
              /\ i = 2 => breakpoints[i] = Breakpoint("Breakpoint", "Arguments", TracePc)
              /\ i = 3 => breakpoints[i] = Breakpoint("Breakpoint", "Arguments", MallocPc)
              /\ i = 4 => breakpoints[i] = Breakpoint("Breakpoint", "Arguments", DropPc)
          BY <4>1, <4>2 DEF InternalBreakpoints
        <5>3. QED
          BY <5>1, <5>2 DEF BreakpointFits, Breakpoint, PanicPc, TracePc, MallocPc, DropPc,
                RUST_PANIC_BP_ID, FIREDBG_TRACE_BP_ID, EXCHANGE_MALLOC, DROP_IN_PLACE
      <4>3. CASE ~TraceAllocation
        <5>1. i \in {1, 2}
          BY <3>2, <4>3 DEF Internals
        <5>2. /\ i = 1 => breakpoints[i] = Breakpoint("Breakpoint", "Locals", PanicPc)
              /\ i = 2 => breakpoints[i] = Breakpoint("Breakpoint", "Arguments", TracePc)
          BY <4>1, <4>3 DEF InternalBreakpoints
        <5>3. QED
          BY <5>1, <5>2, <4>3 DEF BreakpointFits, Breakpoint, PanicPc, TracePc,
                RUST_PANIC_BP_ID, FIREDBG_TRACE_BP_ID
      <4>4. QED BY <4>2, <4>3
    <3>3. CASE i \in Internals + 1 .. Internals + Len(UserFunctions)
      <4>1. breakpoints[i] = Breakpoint("FunctionCall", "Arguments",
                                        CallPc(UserFunctions[i - Internals]))
        BY <3>3, InitialTable DEF Init
      <4>2. /\ breakpoints[i].type = "FunctionCall"
            /\ breakpoints[i].capture = "Arguments"
            /\ breakpoints[i].pc.kind = "call"
        BY <4>1 DEF Breakpoint, CallPc
      <4>3. TraceAllocation => i > 4
        BY <3>3, UserFunctionsAssumption DEF Internals
      <4>4. QED BY <4>2, <4>3 DEF BreakpointFits, DROP_IN_PLACE
    <3>4. QED BY <3>1, <3>2, <3>3
  <2>2. \A p \in Planted : breakpoints[breakpoint_addresses[p]].pc = p
    BY DEF Init, Planted, AddressesOf
  <2>3. \A t \in Threads : pc[t] # MallocPc
    BY DEF Init, TargetInit, Elsewhere, MallocPc
  <2>4. TraceAllocation => Len(breakpoints) >= 4
    BY InitialTable, UserFunctionsAssumption DEF Init, Internals
  <2>5. QED BY <2>1, <2>2, <2>3, <2>4 DEF TableOK, DROP_IN_PLACE
<1>5. QED BY <1>1, <1>2, <1>3, <1>4 DEF TypeInv, TypeOK

\* Stack pointers are numbers.
LEMMA BaseSpType ==
    ASSUME NEW s \in Seq(Frames)
    PROVE  BaseSp(s) \in Int
<1>1. CASE s = <<>>
  BY <1>1 DEF BaseSp
<1>2. CASE s # <<>>
  <2>1. s[Len(s)] \in Frames
    BY <1>2, LastInRange
  <2>2. QED BY <1>2, <2>1 DEF BaseSp, Frames
<1>3. QED BY <1>1, <1>2

\* What the program does keeps the types, and a thread is at exchange_malloc
\* inside a Box::new only.
LEMMA TypeInvProgram == TypeInv /\ Program => TypeInv'
<1> SUFFICES ASSUME TypeInv, Program PROVE TypeInv'
  OBVIOUS
<1> USE DEF Trapped
<1>1. TargetTypeOK /\ \A t \in Threads : pc[t] = MallocPc => box[t] \in BoxSites
  BY DEF TypeInv, TypeOK, TableOK
<1>2. UNCHANGED <<tableVars, callVars, allocVars, seen, status>>
  BY DEF Program
<1> DEFINE MallocOK == \A u \in Threads : pc[u] = MallocPc => box[u] \in BoxSites
<1>3. TargetTypeOK' /\ MallocOK'
  <2> USE <1>1 DEF TargetTypeOK
  <2>1. ASSUME NEW t \in Threads, NEW g \in Functions, Enter(t, g) PROVE TargetTypeOK' /\ MallocOK'
    <3>1. Append(stack[t], [fn |-> g, sp |-> BaseSp(stack[t]) - FrameSize[g]]) \in Seq(Frames)
      <4>1. stack[t] \in Seq(Frames)
        OBVIOUS
      <4>2. BaseSp(stack[t]) \in Int
        BY <4>1, BaseSpType
      <4>3. [fn |-> g, sp |-> BaseSp(stack[t]) - FrameSize[g]] \in Frames
        BY <4>2, FunctionsAssumption DEF Frames
      <4>4. QED BY <4>1, <4>3, AppendProperties
    <3>2. CallPc(g) \in Sites /\ CallPc(g) # MallocPc
      BY DEF Sites, CallPc, MallocPc
    <3>3. QED BY <2>1, <3>1, <3>2 DEF Enter, Arrives, Idle
  <2>2. ASSUME NEW t \in Threads, Leave(t, Planted) PROVE TargetTypeOK' /\ MallocOK'
    <3>1. Outer(stack[t]) \in Seq(Frames)
      BY OuterType
    <3>2. Top(t).fn \in Functions
      <4>1. Top(t) \in Frames
        BY <2>2, LastInRange DEF Leave, Top
      <4>2. QED BY <4>1 DEF Frames
    <3>3. RetPc(Top(t).fn) \in Sites /\ RetPc(Top(t).fn) # MallocPc
      BY <3>2 DEF Sites, RetPc, MallocPc
    <3>4. QED BY <2>2, <3>1, <3>3 DEF Leave, Idle
  <2>3. ASSUME NEW t \in Threads, NEW site \in {TracePc, PanicPc}, Interrupt(t, site)
        PROVE TargetTypeOK' /\ MallocOK'
    <3>1. site \in Sites /\ site # MallocPc
      BY DEF Sites, TracePc, PanicPc, MallocPc
    <3>2. QED BY <2>3, <3>1 DEF Interrupt, Arrives, Idle
  <2>4. ASSUME NEW t \in Threads, NEW b \in BoxSites, Malloc(t, b, Planted)
        PROVE TargetTypeOK' /\ MallocOK'
    <3>1. MallocPc \in Sites
      BY DEF Sites
    <3>2. QED BY <2>4, <3>1 DEF Malloc, Arrives, Idle
  <2>5. ASSUME NEW t \in Threads, Allocated(t, Planted) PROVE TargetTypeOK' /\ MallocOK'
    <3>1. box[t] \in BoxSites /\ TypeOf[box[t]] \in Types
      BY <2>5 DEF Allocated, Types
    <3>2. AfterPc(box[t]) \in Sites /\ AfterPc(box[t]) # MallocPc
      BY <3>1 DEF Sites, AfterPc, MallocPc
    <3>3. Elsewhere # MallocPc
      BY DEF Elsewhere, MallocPc
    <3>4. heap' \in [Addresses -> Types \cup {Free}] /\ reg' \in [Threads -> Int]
      BY <2>5, <3>1, HeapAssumption DEF Allocated
    <3>5. QED BY <2>5, <3>2, <3>3, <3>4 DEF Allocated
  <2>6. ASSUME NEW t \in Threads, NEW a \in Addresses, Drop(t, a, Planted)
        PROVE TargetTypeOK' /\ MallocOK'
    <3>1. DropPc \in Sites /\ DropPc # MallocPc
      BY DEF Sites, DropPc, MallocPc
    <3>2. ValueAddress(a) \in Int
      BY HeapAssumption DEF ValueAddress
    <3>3. QED BY <2>6, <3>1, <3>2 DEF Drop, Idle
  <2>7. ASSUME NEW t \in Threads, Stop(t) PROVE TargetTypeOK' /\ MallocOK'
    BY <2>7 DEF Stop
  <2>8. ASSUME NEW t \in Threads, StopForSignal(t) PROVE TargetTypeOK' /\ MallocOK'
    BY <2>8 DEF StopForSignal, Arrives, Idle
  <2>9. ASSUME NEW t \in Threads, StepOver(t) PROVE TargetTypeOK' /\ MallocOK'
    <3>1. StepsOver(t) /\ pc' \in [Threads -> Sites \cup {Elsewhere, GonePc}]
      BY <2>9 DEF StepOver, StepOverReturn, StepOverPanic, StepOverDrop, StepOverOther
    <3>2. \A u \in Threads : IF u = t THEN pc'[u] \in {Elsewhere, GonePc} ELSE pc'[u] = pc[u]
      BY <2>9 DEF StepOver, StepOverReturn, StepOverPanic, StepOverDrop, StepOverOther
    <3>3. Elsewhere # MallocPc /\ GonePc # MallocPc
      BY DEF Elsewhere, GonePc, MallocPc
    <3>4. stack' \in [Threads -> Seq(Frames)]
      <4>1. stack[t] \in Seq(Frames) /\ Outer(stack[t]) \in Seq(Frames) /\ <<>> \in Seq(Frames)
        BY OuterType
      <4>2. \A n \in 0 .. Len(stack[t]) - 1 : SubSeq(stack[t], 1, n) \in Seq(Frames)
        BY <4>1, PrefixType
      <4>3. CASE StepOverReturn(t) BY <4>1, <4>3 DEF StepOverReturn
      <4>4. CASE StepOverPanic(t) BY <4>1, <4>2, <4>4 DEF StepOverPanic
      <4>5. CASE StepOverDrop(t) \/ StepOverOther(t) BY <4>5 DEF StepOverDrop, StepOverOther
      <4>6. QED BY <2>9, <4>3, <4>4, <4>5 DEF StepOver
    <3>5. heap' \in [Addresses -> Types \cup {Free}]
      BY <2>9 DEF StepOver, StepOverReturn, StepOverPanic, StepOverDrop, StepOverOther
    <3>6. QED BY <3>1, <3>2, <3>3, <3>4, <3>5 DEF StepsOver
  <2>10. CASE Go BY <2>10 DEF Go
  <2>11. CASE Exit BY <2>11 DEF Exit
  <2>12. QED
    BY <2>1, <2>2, <2>3, <2>4, <2>5, <2>6, <2>7, <2>8, <2>9, <2>10, <2>11
       DEF Program, TargetNext
<1>4. TableTypeOK' /\ CallTypeOK' /\ AllocationTypeOK'
  BY <1>2 DEF TypeInv, TypeOK, TableTypeOK, CallTypeOK, AllocationTypeOK, Planted,
        tableVars, callVars, allocVars
<1>5. TableOK'
  BY <1>2, <1>3 DEF TypeInv, TableOK, BreakpointFits, Planted, tableVars
<1>6. QED
  BY <1>2, <1>3, <1>4, <1>5 DEF TypeInv, TypeOK

\* Planting a breakpoint keeps the table in order.
LEMMA PlantKeepsTable ==
    ASSUME TableTypeOK, TableOK, UNCHANGED <<pc, box>>,
           NEW bp \in BreakpointRecords, Plant(bp),
           bp.type = "FunctionCall"   <=> bp.pc.kind = "call",
           bp.type = "FunctionReturn" <=> bp.pc.kind = "ret",
           bp.capture = "Only"        <=> bp.pc.kind = "after",
           bp.pc.kind \in {"ret", "after"}
    PROVE  /\ TableOK'
           /\ breakpoints' \in Seq(BreakpointRecords)
           /\ Planted' = Planted \cup {bp.pc}
           /\ Planted' \subseteq Sites
           /\ breakpoint_addresses' \in [Planted' -> DOMAIN breakpoints']
           /\ created' = Len(breakpoints')
<1>1. /\ breakpoints \in Seq(BreakpointRecords)
      /\ created = Len(breakpoints)
      /\ breakpoint_addresses \in [Planted -> DOMAIN breakpoints]
      /\ Planted \subseteq Sites
      /\ bp.pc \in Sites
  BY DEF TableTypeOK, BreakpointRecords
<1>2. /\ breakpoints' \in Seq(BreakpointRecords)
      /\ Len(breakpoints') = Len(breakpoints) + 1
      /\ created' = Len(breakpoints) + 1
      /\ breakpoints'[Len(breakpoints) + 1] = bp
      /\ \A i \in 1 .. Len(breakpoints) : breakpoints'[i] = breakpoints[i]
  BY <1>1, AppendProperties DEF Plant
<1>3. /\ Planted' = Planted \cup {bp.pc}
      /\ \A p \in Planted' : breakpoint_addresses'[p] =
            IF p = bp.pc THEN Len(breakpoints) + 1 ELSE breakpoint_addresses[p]
      /\ breakpoint_addresses' = [p \in Planted' |-> breakpoint_addresses'[p]]
  BY <1>1 DEF Plant, Planted
<1>4. DOMAIN breakpoints = 1 .. Len(breakpoints) /\ DOMAIN breakpoints' = 1 .. Len(breakpoints')
  BY <1>1, <1>2
<1>5. \A p \in Planted : breakpoint_addresses[p] \in 1 .. Len(breakpoints)
  BY <1>1, <1>4
<1>6. \A p \in Planted' : breakpoint_addresses'[p] \in DOMAIN breakpoints'
  BY <1>2, <1>3, <1>4, <1>5
<1>7. breakpoint_addresses' \in [Planted' -> DOMAIN breakpoints'] /\ Planted' \subseteq Sites
  BY <1>1, <1>3, <1>6
<1>8. ASSUME NEW i \in DOMAIN breakpoints' PROVE BreakpointFits(i)'
  <2>1. CASE i \in 1 .. Len(breakpoints)
    BY <2>1, <1>2, <1>4 DEF TableOK, BreakpointFits
  <2>2. CASE i = Len(breakpoints) + 1
    BY <2>2, <1>2, <1>1 DEF TableOK, BreakpointFits, DROP_IN_PLACE
  <2>3. QED BY <2>1, <2>2, <1>2, <1>4
<1>9. \A p \in Planted' : breakpoints'[breakpoint_addresses'[p]].pc = p
  BY <1>2, <1>3, <1>5 DEF TableOK
<1>10. QED BY <1>1, <1>2, <1>3, <1>7, <1>8, <1>9 DEF TableOK, DROP_IN_PLACE

\* The handler looks at the breakpoint of the address the thread is at.
LEMMA HandledBreakpoint ==
    ASSUME TypeInv, NEW t \in Threads, Handling(t)
    PROVE  /\ pc[t] \in Sites
           /\ BpId(t) \in DOMAIN breakpoints
           /\ breakpoints[BpId(t)].pc = pc[t]
           /\ BreakpointFits(BpId(t))
           /\ seen' \subseteq Threads
           /\ UNCHANGED targetVars
  BY DEF TypeInv, TypeOK, TableTypeOK, TableOK, Handling, BpId

\* A call breakpoint is at the call of a traced function.
LEMMA SiteOfCall ==
    ASSUME NEW p \in Sites, p.kind = "call"
    PROVE  p.at \in Functions /\ p = CallPc(p.at)
  BY DEF Sites, CallPc, RetPc, AfterPc, PanicPc, TracePc, MallocPc, DropPc

LEMMA SiteOfReturn ==
    ASSUME NEW p \in Sites, p.kind = "ret"
    PROVE  p.at \in Functions /\ p = RetPc(p.at)
  BY DEF Sites, CallPc, RetPc, AfterPc, PanicPc, TracePc, MallocPc, DropPc

\* The stack pointer of a stopped thread is a number.
LEMMA SpType ==
    ASSUME TargetTypeOK, NEW t \in Threads, pc[t] \in Sites
    PROVE  Sp(t) \in Int
<1>1. BaseSp(stack[t]) \in Int
  BY BaseSpType DEF TargetTypeOK
<1>2. pc[t].kind = "ret" => FrameSize[pc[t].at] \in Int
  BY SiteOfReturn, FunctionsAssumption
<1>3. QED BY <1>1, <1>2 DEF Sp

\* The events of a thread about one of its frames.
LEMMA EventTypes ==
    ASSUME NEW t \in Threads, NEW id \in Nat, NEW frame \in ActiveFrames
    PROVE  CallEvent(t, id, frame) \in Events /\ ReturnEvent(t, id, frame) \in Events
  BY DEF CallEvent, ReturnEvent, Events, ActiveFrames

\* Whatever breakpoint is handled, the types stay.
LEMMA TypeInvHandle ==
    ASSUME TypeInv, NEW t \in Threads, Handle(t)
    PROVE  TypeInv'
<1>1. Handling(t)
  BY DEF Handle, HandleCall, HandleReturn, HandleBreakpoint, HandleExchangeMalloc,
        HandleAfterAllocation, HandleDropInPlace
<1>2. /\ pc[t] \in Sites
      /\ BpId(t) \in DOMAIN breakpoints
      /\ breakpoints[BpId(t)].pc = pc[t]
      /\ BreakpointFits(BpId(t))
      /\ seen' \subseteq Threads
      /\ UNCHANGED targetVars
  BY <1>1, HandledBreakpoint
<1>3. TargetTypeOK /\ TableTypeOK /\ CallTypeOK /\ AllocationTypeOK /\ TableOK
      /\ status \in {"loop", "panicked", "finished"}
  BY DEF TypeInv, TypeOK
<1>4. TargetTypeOK'
  BY <1>2, <1>3 DEF TargetTypeOK, targetVars, Trapped
<1>5. /\ UNCHANGED tableVars => TableTypeOK' /\ TableOK'
      /\ UNCHANGED callVars => CallTypeOK'
      /\ UNCHANGED allocVars => AllocationTypeOK'
      /\ UNCHANGED <<allocation, alloc_stream>> /\ ClearAllocating(t) => AllocationTypeOK'
  BY <1>2, <1>3 DEF TableTypeOK, TableOK, CallTypeOK, AllocationTypeOK, tableVars, callVars,
        allocVars, targetVars, Planted, BreakpointFits, ClearAllocating
<1>6. Sp(t) \in Int
  BY <1>2, <1>3, SpType
<1> DEFINE Goal == /\ TableTypeOK' /\ TableOK' /\ CallTypeOK' /\ AllocationTypeOK'
                   /\ status' \in {"loop", "panicked", "finished"}
<1>7. ASSUME HandleCall(t) PROVE Goal
  <2>1. CASE SkipCall(t) \/ CallAssertFails(t)
    BY <1>3, <1>5, <2>1 DEF SkipCall, CallAssertFails, Panics
  <2>2. CASE RecordCall(t)
    <3>1. pc[t].kind = "call"
      BY <1>2, <1>7 DEF HandleCall, BreakpointFits
    <3>2. pc[t].at \in Functions /\ pc[t] = CallPc(pc[t].at)
      BY <1>2, <3>1, SiteOfCall
    <3>3. TableTypeOK' /\ TableOK'
      <4>1. functions_disassembled' \subseteq Sites
        BY <1>2, <1>3, <2>2 DEF RecordCall, Disassemble, TableTypeOK
      <4>2. CASE UNCHANGED <<created, breakpoints, breakpoint_addresses>>
        BY <1>2, <1>3, <4>1, <4>2
           DEF TableTypeOK, TableOK, targetVars, Planted, BreakpointFits
      <4>3. CASE Plant(Breakpoint("FunctionReturn", "None", RetPc(pc[t].at)))
        <5> DEFINE bp == Breakpoint("FunctionReturn", "None", RetPc(pc[t].at))
        <5>1. /\ bp \in BreakpointRecords /\ bp.type = "FunctionReturn"
              /\ bp.capture = "None" /\ bp.pc.kind = "ret"
          BY <3>2 DEF Breakpoint, BreakpointRecords, Sites, RetPc
        <5> HIDE DEF bp
        <5>2. UNCHANGED <<pc, box>> /\ Plant(bp)
          BY <1>2, <4>3 DEF targetVars, bp
        <5>3. /\ TableOK' /\ breakpoints' \in Seq(BreakpointRecords) /\ Planted' \subseteq Sites
              /\ breakpoint_addresses' \in [Planted' -> DOMAIN breakpoints']
              /\ created' = Len(breakpoints')
          BY <1>3, <5>1, <5>2, PlantKeepsTable
        <5>4. QED BY <4>1, <5>3 DEF TableTypeOK
      <4>4. QED BY <2>2, <4>2, <4>3 DEF RecordCall, Disassemble
    <3>4. CallTypeOK'
      <4>1. NewFrame(t) \in ActiveFrames
        BY <1>2, <1>3, <1>6, <3>2 DEF NewFrame, ActiveFrames, CallTypeOK
      <4>2. Append(active_frames[t], NewFrame(t)) \in Seq(ActiveFrames)
        BY <1>3, <4>1, AppendProperties DEF CallTypeOK
      <4>3. frame_id' \in [Threads -> Nat]
        BY <1>3, <2>2 DEF RecordCall, CallTypeOK
      <4>4. \/ UNCHANGED active_frames
            \/ active_frames' = [active_frames EXCEPT ![t] = Append(@, NewFrame(t))]
        BY <2>2 DEF RecordCall
      <4>5. event_stream' \in Seq(Events)
        <5>1. BpId(t) \in Nat
          BY <1>2, <1>3 DEF TableTypeOK
        <5>2. /\ CallEvent(t, BpId(t), NewFrame(t)) \in Events
              /\ ReturnEvent(t, BpId(t), NewFrame(t)) \in Events
          BY <4>1, <5>1, EventTypes
        <5> DEFINE call == CallEvent(t, BpId(t), NewFrame(t))
                   ret  == ReturnEvent(t, BpId(t), NewFrame(t))
        <5>3. \/ event_stream' = event_stream
              \/ event_stream' = Append(event_stream, call)
              \/ event_stream' = event_stream \o <<call, ret>>
          BY <2>2 DEF RecordCall
        <5> HIDE DEF call, ret
        <5>4. event_stream \in Seq(Events) /\ call \in Events /\ ret \in Events
          BY <1>3, <5>2 DEF CallTypeOK, call, ret
        <5>5. <<call, ret>> \in Seq(Events)
          BY <5>4
        <5>6. event_stream \o <<call, ret>> \in Seq(Events)
          BY <5>4, <5>5, ConcatProperties
        <5>7. Append(event_stream, call) \in Seq(Events)
          BY <5>4, AppendProperties
        <5>8. QED BY <5>3, <5>4, <5>6, <5>7, Zenon
      <4>6. QED BY <1>3, <4>2, <4>3, <4>4, <4>5 DEF CallTypeOK
    <3>5. AllocationTypeOK'
      BY <1>3, <2>2 DEF RecordCall, AllocationTypeOK, ClearAllocating
    <3>6. QED BY <1>3, <2>2, <3>3, <3>4, <3>5 DEF RecordCall
  <2>3. QED BY <1>7, <2>1, <2>2 DEF HandleCall
<1>8. ASSUME HandleReturn(t) PROVE Goal
  <2>1. TableTypeOK' /\ TableOK' /\ AllocationTypeOK'
    BY <1>5, <1>8 DEF HandleReturn
  <2>2. CASE RecordReturn(t)
    <3>1. Outer(active_frames[t]) \in Seq(ActiveFrames)
      BY <1>3, OuterType DEF CallTypeOK
    <3>2. ReturnEvent(t, BpId(t), LastFrame(t)) \in Events
      <4>1. BpId(t) \in Nat /\ active_frames[t] \in Seq(ActiveFrames) /\ active_frames[t] # <<>>
        BY <1>2, <1>3, <2>2 DEF TableTypeOK, CallTypeOK, RecordReturn, HasFrame
      <4>2. LastFrame(t) \in ActiveFrames
        BY <4>1, LastInRange DEF LastFrame
      <4>3. QED BY <4>1, <4>2, EventTypes
    <3>3. event_stream' \in Seq(Events)
      BY <1>3, <2>2, <3>2, AppendProperties DEF RecordReturn, CallTypeOK
    <3>4. CallTypeOK'
      BY <1>3, <2>2, <3>1, <3>3 DEF RecordReturn, CallTypeOK
    <3>5. QED BY <1>3, <2>1, <2>2, <3>4 DEF RecordReturn
  <2>3. QED BY <1>3, <1>5, <1>8, <2>1, <2>2 DEF HandleReturn, ReturnAssertFails, Panics, callVars
<1>9. ASSUME HandleBreakpoint(t) PROVE Goal
  <2>1. BpId(t) \in Nat /\ active_frames[t] \in Seq(ActiveFrames)
    BY <1>2, <1>3 DEF TableTypeOK, CallTypeOK
  <2>2. HasFrame(t) => LastFrame(t).frame_id \in Nat
    <3>1. active_frames[t] # <<>> => active_frames[t][Len(active_frames[t])] \in ActiveFrames
      BY <2>1, LastInRange
    <3>2. QED BY <3>1 DEF HasFrame, LastFrame, ActiveFrames
  <2>3. BreakpointEvent(t, BpId(t)) \in Events
    BY <2>1, <2>2 DEF BreakpointEvent, Events
  <2>4. event_stream' \in Seq(Events)
    BY <1>3, <1>9, <2>3, AppendProperties DEF HandleBreakpoint, CallTypeOK
  <2>5. QED BY <1>3, <1>5, <1>9, <2>4 DEF HandleBreakpoint, CallTypeOK
<1>10. ASSUME HandleExchangeMalloc(t) PROVE Goal
  <2>1. pc[t] = MallocPc
    <3>1. BpId(t) = 3 /\ pc[t].kind \notin {"call", "ret", "after", "panic", "trace", "drop"}
      BY <1>2, <1>10 DEF HandleExchangeMalloc, BreakpointFits, EXCHANGE_MALLOC,
            RUST_PANIC_BP_ID, FIREDBG_TRACE_BP_ID, DROP_IN_PLACE
    <3>2. QED BY <1>2, <3>1
             DEF Sites, CallPc, RetPc, AfterPc, PanicPc, TracePc, MallocPc, DropPc
  <2>2. box[t] \in BoxSites /\ TypeOf[box[t]] \in Types
    BY <1>3, <2>1 DEF TableOK, Types
  <2>3. AfterPc(box[t]) \in Sites
    BY <2>2 DEF Sites
  <2>4. TableTypeOK' /\ TableOK'
    <3>1. functions_disassembled' \subseteq Sites
      BY <1>3, <1>10, <2>3 DEF HandleExchangeMalloc, TableTypeOK
    <3>2. CASE UNCHANGED <<created, breakpoints, breakpoint_addresses>>
      BY <1>2, <1>3, <3>1, <3>2 DEF TableTypeOK, TableOK, targetVars, Planted, BreakpointFits
    <3>3. CASE Plant(Breakpoint("Breakpoint", "Only", AfterPc(box[t])))
      <4> DEFINE bp == Breakpoint("Breakpoint", "Only", AfterPc(box[t]))
      <4>1. /\ bp \in BreakpointRecords /\ bp.type = "Breakpoint"
            /\ bp.capture = "Only" /\ bp.pc.kind = "after"
        BY <2>3 DEF Breakpoint, BreakpointRecords, AfterPc
      <4> HIDE DEF bp
      <4>2. UNCHANGED <<pc, box>> /\ Plant(bp)
        BY <1>2, <3>3 DEF targetVars, bp
      <4>3. /\ TableOK' /\ breakpoints' \in Seq(BreakpointRecords) /\ Planted' \subseteq Sites
            /\ breakpoint_addresses' \in [Planted' -> DOMAIN breakpoints']
            /\ created' = Len(breakpoints')
        BY <1>3, <4>1, <4>2, PlantKeepsTable
      <4>4. QED BY <3>1, <4>3 DEF TableTypeOK
    <3>4. QED BY <1>10, <3>2, <3>3 DEF HandleExchangeMalloc
  <2>5. AllocationTypeOK'
    <3>1. \A first \in BOOLEAN : NotedType(box[t], first, allocating[t]) \in Types \cup {None}
      BY <1>3, <2>2 DEF NotedType, AllocationTypeOK
    <3>2. allocating' \in [Threads -> Types \cup {None}]
      BY <1>3, <1>10, <3>1 DEF HandleExchangeMalloc, AllocationTypeOK, FirstHit
    <3>3. QED BY <1>3, <1>10, <3>2 DEF HandleExchangeMalloc, AllocationTypeOK
  <2>6. QED BY <1>3, <1>5, <1>10, <2>4, <2>5 DEF HandleExchangeMalloc
<1>11. ASSUME HandleAfterAllocation(t) PROVE Goal
  <2>1. AllocationTypeOK'
    <3>1. CASE allocating[t] = None
      BY <1>5, <1>11, <3>1 DEF HandleAfterAllocation
    <3>2. CASE allocating[t] # None
      <4>1. allocating[t] \in Types /\ reg[t] \in Int
        BY <1>3, <3>2 DEF AllocationTypeOK, TargetTypeOK
      <4>2. QED BY <1>3, <1>11, <3>2, <4>1
               DEF HandleAfterAllocation, AllocationTypeOK, ClearAllocating
    <3>3. QED BY <3>1, <3>2
  <2>2. QED BY <1>3, <1>5, <1>11, <2>1 DEF HandleAfterAllocation
<1>12. ASSUME HandleDropInPlace(t) PROVE Goal
  <2>1. AllocationTypeOK'
    BY <1>3, <1>12 DEF HandleDropInPlace, AllocationTypeOK
  <2>2. QED BY <1>3, <1>5, <1>12, <2>1 DEF HandleDropInPlace
<1>13. Goal
  BY <1>7, <1>8, <1>9, <1>10, <1>11, <1>12 DEF Handle
<1>14. QED BY <1>2, <1>4, <1>13 DEF TypeInv, TypeOK

LEMMA TypeInvNext == TypeInv /\ [Next]_vars => TypeInv'
<1> SUFFICES ASSUME TypeInv, [Next]_vars PROVE TypeInv'
  OBVIOUS
<1>1. CASE Program
  BY <1>1, TypeInvProgram
<1>2. CASE \E t \in Threads : Handle(t)
  BY <1>2, TypeInvHandle
<1>3. CASE Resume
  BY <1>3 DEF Resume, TypeInv, TypeOK, TargetTypeOK, TableTypeOK, CallTypeOK,
        AllocationTypeOK, TableOK, BreakpointFits, Planted, Trapped, tableVars, callVars,
        allocVars
<1>4. CASE Finish \/ UNCHANGED vars
  BY <1>4 DEF Finish, TypeInv, TypeOK, TargetTypeOK, TableTypeOK, CallTypeOK,
        AllocationTypeOK, TableOK, BreakpointFits, Planted, Trapped, vars, targetVars,
        tableVars, callVars, allocVars
<1>5. QED
  BY <1>1, <1>2, <1>3, <1>4 DEF Next, Done

\* Every variable of the debugger keeps its type, for any number of threads and
\* functions, with or without allocation tracing, whatever the program does.
THEOREM TypeCorrect == Spec => []TypeOK
<1>1. Init => TypeInv
  BY TypeInvInit
<1>2. TypeInv /\ [Next]_vars => TypeInv'
  BY TypeInvNext
<1>3. TypeInv => TypeOK
  BY DEF TypeInv
<1>4. QED BY <1>1, <1>2, <1>3, PTL DEF Spec

-----------------------------------------------------------------------------
(***************************************************************************)
(* The breakpoint table holds an address once.                             *)
(***************************************************************************)
\* The strengthening of PlantedOnce: a breakpoint at a return, or after an
\* allocation, is there because the code at the address its planting hangs on
\* was read.
PlantedWhenRead ==
    \A i \in DOMAIN breakpoints :
        LET p == breakpoints[i].pc
        IN  /\ p.kind = "ret" => CallPc(p.at) \in functions_disassembled
            /\ p.kind = "after" => p \in functions_disassembled

TableInv == PlantedOnce /\ PlantedWhenRead

LEMMA TableInvInit == Init => TableInv
<1> SUFFICES ASSUME Init PROVE TableInv
  OBVIOUS
<1>1. /\ DOMAIN breakpoints = 1 .. Internals + Len(UserFunctions)
      /\ Len(UserFunctions) \in Nat /\ Internals \in {2, 4}
      /\ TraceAllocation \in BOOLEAN
      /\ Internals = IF TraceAllocation THEN 4 ELSE 2
  BY InitialTable, UserFunctionsAssumption DEF Init, Internals
\* (the internal breakpoints, by their ids)
<1>2. ASSUME NEW i \in 1 .. Internals
      PROVE  /\ i = 1 => breakpoints[i].pc.kind = "panic"
             /\ i = 2 => breakpoints[i].pc.kind = "trace"
             /\ i = 3 => breakpoints[i].pc.kind = "malloc"
             /\ i = 4 => breakpoints[i].pc.kind = "drop"
             /\ breakpoints[i].pc.kind \notin {"call", "ret", "after"}
  <2>1. breakpoints[i] = InternalBreakpoints[i]
    BY InitialTable DEF Init
  <2>2. i = 1 \/ i = 2 \/ (TraceAllocation /\ i = 3) \/ (TraceAllocation /\ i = 4)
    BY <1>1
  <2>3. /\ i = 1 => breakpoints[i] = Breakpoint("Breakpoint", "Locals", PanicPc)
        /\ i = 2 => breakpoints[i] = Breakpoint("Breakpoint", "Arguments", TracePc)
        /\ TraceAllocation /\ i = 3 =>
                breakpoints[i] = Breakpoint("Breakpoint", "Arguments", MallocPc)
        /\ TraceAllocation /\ i = 4 =>
                breakpoints[i] = Breakpoint("Breakpoint", "Arguments", DropPc)
    BY <1>1, <2>1 DEF InternalBreakpoints
  <2>4. QED BY <2>2, <2>3 DEF Breakpoint, PanicPc, TracePc, MallocPc, DropPc
\* (the traced functions)
<1>3. ASSUME NEW i \in Internals + 1 .. Internals + Len(UserFunctions)
      PROVE  /\ breakpoints[i].pc = CallPc(UserFunctions[i - Internals])
             /\ breakpoints[i].pc.kind = "call"
             /\ breakpoints[i].pc.at = UserFunctions[i - Internals]
             /\ i - Internals \in 1 .. Len(UserFunctions)
  <2>1. breakpoints[i] =
            Breakpoint("FunctionCall", "Arguments", CallPc(UserFunctions[i - Internals]))
    BY InitialTable DEF Init
  <2>2. i - Internals \in 1 .. Len(UserFunctions)
    BY <1>1
  <2>3. QED BY <2>1, <2>2 DEF Breakpoint, CallPc
<1>4. \A i \in DOMAIN breakpoints : \/ i \in 1 .. Internals
                                    \/ i \in Internals + 1 .. Internals + Len(UserFunctions)
  BY <1>1
<1>5. ASSUME NEW i \in DOMAIN breakpoints, NEW j \in DOMAIN breakpoints,
             breakpoints[i].pc = breakpoints[j].pc
      PROVE  i = j
  <2>1. CASE i \in 1 .. Internals /\ j \in 1 .. Internals
    <3>1. i \in {1, 2, 3, 4} /\ j \in {1, 2, 3, 4}
      BY <1>1, <2>1
    <3>2. breakpoints[i].pc.kind = breakpoints[j].pc.kind
      BY <1>5
    <3>3. /\ i = 1 => breakpoints[i].pc.kind = "panic"
          /\ i = 2 => breakpoints[i].pc.kind = "trace"
          /\ i = 3 => breakpoints[i].pc.kind = "malloc"
          /\ i = 4 => breakpoints[i].pc.kind = "drop"
      BY <1>2, <2>1
    <3>4. /\ j = 1 => breakpoints[j].pc.kind = "panic"
          /\ j = 2 => breakpoints[j].pc.kind = "trace"
          /\ j = 3 => breakpoints[j].pc.kind = "malloc"
          /\ j = 4 => breakpoints[j].pc.kind = "drop"
      BY <1>2, <2>1
    <3>5. CASE i = 1 BY <3>1, <3>2, <3>3, <3>4, <3>5
    <3>6. CASE i = 2 BY <3>1, <3>2, <3>3, <3>4, <3>6
    <3>7. CASE i = 3 BY <3>1, <3>2, <3>3, <3>4, <3>7
    <3>8. CASE i = 4 BY <3>1, <3>2, <3>3, <3>4, <3>8
    <3>9. QED BY <3>1, <3>5, <3>6, <3>7, <3>8
  <2>2. CASE i \in 1 .. Internals /\ j \in Internals + 1 .. Internals + Len(UserFunctions)
    <3>1. breakpoints[i].pc.kind # "call" /\ breakpoints[j].pc.kind = "call"
      BY <1>2, <1>3, <2>2
    <3>2. QED BY <1>5, <3>1
  <2>3. CASE j \in 1 .. Internals /\ i \in Internals + 1 .. Internals + Len(UserFunctions)
    <3>1. breakpoints[j].pc.kind # "call" /\ breakpoints[i].pc.kind = "call"
      BY <1>2, <1>3, <2>3
    <3>2. QED BY <1>5, <3>1
  <2>4. CASE /\ i \in Internals + 1 .. Internals + Len(UserFunctions)
             /\ j \in Internals + 1 .. Internals + Len(UserFunctions)
    <3>1. /\ breakpoints[i].pc.at = UserFunctions[i - Internals]
          /\ breakpoints[j].pc.at = UserFunctions[j - Internals]
          /\ i - Internals \in 1 .. Len(UserFunctions)
          /\ j - Internals \in 1 .. Len(UserFunctions)
      BY <1>3, <2>4
    <3>2. UserFunctions[i - Internals] = UserFunctions[j - Internals]
      BY <1>5, <3>1
    <3>3. i - Internals = j - Internals
      BY <3>1, <3>2, UserFunctionsAssumption
    <3>4. QED BY <1>1, <2>4, <3>3
  <2>5. QED BY <1>4, <2>1, <2>2, <2>3, <2>4
<1>6. \A i \in DOMAIN breakpoints : breakpoints[i].pc.kind \notin {"ret", "after"}
  BY <1>2, <1>3, <1>4
<1>7. QED BY <1>5, <1>6 DEF TableInv, PlantedOnce, PlantedWhenRead

\* A breakpoint at a new address, whose planting its reading is noted of, keeps
\* the table so.
LEMMA PlantKeepsOnce ==
    ASSUME TableTypeOK, TableInv, NEW bp \in BreakpointRecords, Plant(bp),
           \A i \in DOMAIN breakpoints : breakpoints[i].pc # bp.pc,
           functions_disassembled \subseteq functions_disassembled',
           bp.pc.kind = "ret" => CallPc(bp.pc.at) \in functions_disassembled',
           bp.pc.kind = "after" => bp.pc \in functions_disassembled'
    PROVE  TableInv'
<1>1. /\ breakpoints \in Seq(BreakpointRecords)
      /\ DOMAIN breakpoints = 1 .. Len(breakpoints) /\ Len(breakpoints) \in Nat
  BY DEF TableTypeOK
<1>2. /\ breakpoints' \in Seq(BreakpointRecords)
      /\ Len(breakpoints') = Len(breakpoints) + 1
      /\ breakpoints'[Len(breakpoints) + 1] = bp
      /\ \A i \in 1 .. Len(breakpoints) : breakpoints'[i] = breakpoints[i]
  BY <1>1, AppendProperties DEF Plant
<1>3. DOMAIN breakpoints' = 1 .. Len(breakpoints) + 1
  BY <1>2
<1>4. ASSUME NEW i \in DOMAIN breakpoints', NEW j \in DOMAIN breakpoints',
             breakpoints'[i].pc = breakpoints'[j].pc
      PROVE  i = j
  <2>1. \A k \in DOMAIN breakpoints' : k \in 1 .. Len(breakpoints) \/ k = Len(breakpoints) + 1
    BY <1>1, <1>3
  <2>2. CASE i \in 1 .. Len(breakpoints) /\ j \in 1 .. Len(breakpoints)
    BY <1>1, <1>2, <1>4, <2>2 DEF TableInv, PlantedOnce
  <2>3. CASE i = Len(breakpoints) + 1 /\ j \in 1 .. Len(breakpoints)
    BY <1>1, <1>2, <1>4, <2>3
  <2>4. CASE j = Len(breakpoints) + 1 /\ i \in 1 .. Len(breakpoints)
    BY <1>1, <1>2, <1>4, <2>4
  <2>5. QED BY <2>1, <2>2, <2>3, <2>4
<1>5. ASSUME NEW i \in DOMAIN breakpoints'
      PROVE  /\ breakpoints'[i].pc.kind = "ret" =>
                    CallPc(breakpoints'[i].pc.at) \in functions_disassembled'
             /\ breakpoints'[i].pc.kind = "after" =>
                    breakpoints'[i].pc \in functions_disassembled'
  <2>1. CASE i \in 1 .. Len(breakpoints)
    BY <1>1, <1>2, <2>1 DEF TableInv, PlantedWhenRead
  <2>2. CASE i = Len(breakpoints) + 1
    BY <1>2, <2>2
  <2>3. QED BY <1>1, <1>3, <2>1, <2>2
<1>6. QED BY <1>4, <1>5 DEF TableInv, PlantedOnce, PlantedWhenRead

\* Whatever breakpoint is handled: the code at an address is read once, and only
\* then is a breakpoint planted for it.
LEMMA TableInvHandle ==
    ASSUME TypeInv, TableInv, NEW t \in Threads, Handle(t)
    PROVE  TableInv'
<1>1. TableTypeOK
  BY DEF TypeInv, TypeOK
<1>2. UNCHANGED <<created, breakpoints, breakpoint_addresses>>
        /\ functions_disassembled \subseteq functions_disassembled' => TableInv'
  BY DEF TableInv, PlantedOnce, PlantedWhenRead
<1>3. CASE HandleCall(t)
  <2>1. /\ pc[t] \in Sites /\ pc[t].kind = "call"
    BY <1>3, HandledBreakpoint DEF HandleCall, BreakpointFits
  <2>2. pc[t].at \in Functions /\ pc[t] = CallPc(pc[t].at)
    BY <2>1, SiteOfCall
  <2>3. CASE SkipCall(t) \/ CallAssertFails(t)
    BY <1>2, <2>3 DEF SkipCall, CallAssertFails, tableVars
  <2>4. CASE RecordCall(t)
    <3>1. functions_disassembled' = functions_disassembled \cup {pc[t]}
      BY <2>4 DEF RecordCall, Disassemble
    <3>2. CASE UNCHANGED <<created, breakpoints, breakpoint_addresses>>
      BY <1>2, <3>1, <3>2
    <3>3. CASE /\ FirstHit(pc[t])
               /\ Plant(Breakpoint("FunctionReturn", "None", RetPc(pc[t].at)))
      <4> DEFINE bp == Breakpoint("FunctionReturn", "None", RetPc(pc[t].at))
      <4>1. /\ bp \in BreakpointRecords /\ bp.pc.kind = "ret" /\ bp.pc.at = pc[t].at
        BY <2>2 DEF Breakpoint, BreakpointRecords, Sites, RetPc
      <4> HIDE DEF bp
      <4>2. Plant(bp)
        BY <3>3 DEF bp
      <4>3. \A i \in DOMAIN breakpoints : breakpoints[i].pc # bp.pc
        BY <2>2, <3>3, <4>1 DEF FirstHit, TableInv, PlantedWhenRead
      <4>4. CallPc(bp.pc.at) \in functions_disassembled'
        BY <2>2, <3>1, <4>1
      <4>5. QED BY <1>1, <3>1, <4>1, <4>2, <4>3, <4>4, PlantKeepsOnce
    <3>4. QED BY <2>4, <3>2, <3>3 DEF RecordCall, Disassemble
  <2>5. QED BY <1>3, <2>3, <2>4 DEF HandleCall
<1>4. CASE HandleExchangeMalloc(t)
  <2>1. /\ functions_disassembled' = functions_disassembled \cup {AfterPc(box[t])}
    BY <1>4 DEF HandleExchangeMalloc
  <2>2. CASE UNCHANGED <<created, breakpoints, breakpoint_addresses>>
    BY <1>2, <2>1, <2>2
  <2>3. CASE /\ FirstHit(AfterPc(box[t]))
             /\ Plant(Breakpoint("Breakpoint", "Only", AfterPc(box[t])))
    <3> DEFINE bp == Breakpoint("Breakpoint", "Only", AfterPc(box[t]))
    <3>1. box[t] \in BoxSites
      <4>1. BpId(t) = 3 /\ pc[t].kind \notin {"call", "ret", "after", "panic", "trace", "drop"}
            /\ pc[t] \in Sites
        BY <1>4, HandledBreakpoint DEF HandleExchangeMalloc, BreakpointFits, EXCHANGE_MALLOC,
              RUST_PANIC_BP_ID, FIREDBG_TRACE_BP_ID, DROP_IN_PLACE
      <4>2. pc[t] = MallocPc
        BY <4>1 DEF Sites, CallPc, RetPc, AfterPc, PanicPc, TracePc, MallocPc, DropPc
      <4>3. QED BY <4>2 DEF TypeInv, TableOK
    <3>2. /\ bp \in BreakpointRecords /\ bp.pc = AfterPc(box[t]) /\ bp.pc.kind = "after"
      BY <3>1 DEF Breakpoint, BreakpointRecords, Sites, AfterPc
    <3> HIDE DEF bp
    <3>3. Plant(bp)
      BY <2>3 DEF bp
    <3>4. \A i \in DOMAIN breakpoints : breakpoints[i].pc # bp.pc
      BY <2>3, <3>2 DEF FirstHit, TableInv, PlantedWhenRead
    <3>5. bp.pc \in functions_disassembled'
      BY <2>1, <3>2
    <3>6. QED BY <1>1, <2>1, <3>2, <3>3, <3>4, <3>5, PlantKeepsOnce
  <2>4. QED BY <1>4, <2>2, <2>3 DEF HandleExchangeMalloc
<1>5. CASE \/ HandleReturn(t) \/ HandleBreakpoint(t)
           \/ HandleAfterAllocation(t) \/ HandleDropInPlace(t)
  BY <1>2, <1>5 DEF HandleReturn, HandleBreakpoint, HandleAfterAllocation, HandleDropInPlace,
        tableVars
<1>6. QED BY <1>3, <1>4, <1>5 DEF Handle

\* However often and by however many threads a function is called or a box is
\* made, and whatever else the program does, no address gets two breakpoints.
THEOREM OneBreakpointPerAddress == Spec => []PlantedOnce
<1>1. Init => TypeInv /\ TableInv
  BY TypeInvInit, TableInvInit
<1>2. TypeInv /\ TableInv /\ [Next]_vars => TypeInv' /\ TableInv'
  <2> SUFFICES ASSUME TypeInv, TableInv, [Next]_vars PROVE TableInv'
    BY TypeInvNext
  <2>1. CASE \E t \in Threads : Handle(t)
    BY <2>1, TableInvHandle
  <2>2. CASE Program \/ Resume \/ Finish \/ UNCHANGED vars
    BY <2>2 DEF Program, Resume, Finish, vars, tableVars, TableInv, PlantedOnce,
          PlantedWhenRead
  <2>3. QED BY <2>1, <2>2 DEF Next, Done
<1>3. TypeInv /\ TableInv => PlantedOnce
  BY DEF TableInv
<1>4. QED BY <1>1, <1>2, <1>3, PTL DEF Spec
=============================================================================
