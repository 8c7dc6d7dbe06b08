---------------------------- MODULE MirrorProofs ----------------------------
(***************************************************************************)
(* The debugger's picture of the call stacks is right, and no assertion of *)
(* the handler fails, as long as the program keeps to the four conditions  *)
(* below: MirrorInv is inductive.                                          *)
(***************************************************************************)
EXTENDS DebuggerProofs

\* No function is only a `ret`, panics end their thread, no signal hides a hit,
\* and LLDB does not report a return twice.
Orderly ==
    /\ Immediate = {}
    /\ CaughtPanics = FALSE
    /\ Signals = FALSE
    /\ "ret" \notin Rereported

-----------------------------------------------------------------------------
(***************************************************************************)
(* Recorded frames against real ones.                                      *)
(***************************************************************************)
LEMMA OuterOfAppend ==
    ASSUME NEW S, NEW s \in Seq(S), NEW e \in S
    PROVE  Outer(Append(s, e)) = s
<1> DEFINE a == Append(s, e)
<1>1. /\ a \in Seq(S) /\ a # <<>> /\ Len(a) = Len(s) + 1
      /\ \A i \in 1 .. Len(s) : a[i] = s[i]
  BY AppendProperties
<1> HIDE DEF a
<1>2. /\ Outer(a) \in Seq(S) /\ Len(Outer(a)) = Len(a) - 1
      /\ \A i \in 1 .. Len(a) - 1 : Outer(a)[i] = a[i]
  BY <1>1, OuterProperties
<1>3. Len(s) \in Nat /\ Len(Outer(a)) = Len(s)
  BY <1>1, <1>2
<1>4. \A i \in 1 .. Len(s) : Outer(a)[i] = s[i]
  BY <1>1, <1>2, <1>3
<1>5. Outer(a) = s
  BY <1>2, <1>3, <1>4, SeqEqual
<1>6. QED BY <1>5 DEF a

\* A frame with the function and stack pointer of the innermost call completes
\* the record.
LEMMA MirrorPush ==
    ASSUME NEW a \in Seq(ActiveFrames), NEW s \in Seq(Frames), s # <<>>,
           MirrorOf(a, Outer(s)),
           NEW e \in ActiveFrames, e.fn = s[Len(s)].fn, e.sp = s[Len(s)].sp
    PROVE  MirrorOf(Append(a, e), s)
<1>1. /\ Len(Outer(s)) = Len(s) - 1
      /\ \A i \in 1 .. Len(s) - 1 : Outer(s)[i] = s[i]
  BY OuterProperties
<1>2. /\ Len(Append(a, e)) = Len(a) + 1
      /\ Append(a, e)[Len(a) + 1] = e
      /\ \A i \in 1 .. Len(a) : Append(a, e)[i] = a[i]
  BY AppendProperties
<1>3. Len(a) \in Nat /\ Len(s) \in Nat /\ Len(a) + 1 = Len(s)
  BY <1>1 DEF MirrorOf
<1>4. ASSUME NEW i \in 1 .. Len(s)
      PROVE  Append(a, e)[i].fn = s[i].fn /\ Append(a, e)[i].sp = s[i].sp
  <2>1. CASE i = Len(s)
    BY <2>1, <1>2, <1>3
  <2>2. CASE i \in 1 .. Len(a)
    BY <2>2, <1>1, <1>2, <1>3 DEF MirrorOf
  <2>3. QED BY <2>1, <2>2, <1>3
<1>5. QED BY <1>2, <1>3, <1>4 DEF MirrorOf

\* The innermost frames correspond, and without them the record is still right.
LEMMA MirrorPop ==
    ASSUME NEW a \in Seq(ActiveFrames), NEW s \in Seq(Frames), s # <<>>,
           MirrorOf(a, s)
    PROVE  /\ a # <<>>
           /\ a[Len(a)].fn = s[Len(s)].fn
           /\ a[Len(a)].sp = s[Len(s)].sp
           /\ MirrorOf(Outer(a), Outer(s))
<1>1. Len(a) = Len(s) /\ Len(s) \in Nat \ {0}
  BY DEF MirrorOf
<1>2. a # <<>> /\ Len(a) \in 1 .. Len(a)
  BY <1>1
<1>3. /\ Len(Outer(s)) = Len(s) - 1
      /\ \A i \in 1 .. Len(s) - 1 : Outer(s)[i] = s[i]
  BY OuterProperties
<1>4. /\ Len(Outer(a)) = Len(a) - 1
      /\ \A i \in 1 .. Len(a) - 1 : Outer(a)[i] = a[i]
  BY <1>2, OuterProperties
<1>5. a[Len(a)].fn = s[Len(s)].fn /\ a[Len(a)].sp = s[Len(s)].sp
  BY <1>1, <1>2 DEF MirrorOf
<1>6. ASSUME NEW i \in 1 .. Len(s) - 1
      PROVE  Outer(a)[i].fn = Outer(s)[i].fn /\ Outer(a)[i].sp = Outer(s)[i].sp
  <2>1. i \in 1 .. Len(a) /\ i \in 1 .. Len(a) - 1
    BY <1>1
  <2>2. a[i].fn = s[i].fn /\ a[i].sp = s[i].sp
    BY <2>1 DEF MirrorOf
  <2>3. QED BY <1>3, <1>4, <2>1, <2>2
<1>7. MirrorOf(Outer(a), Outer(s))
  BY <1>1, <1>3, <1>4, <1>6 DEF MirrorOf
<1>8. QED BY <1>2, <1>5, <1>7

-----------------------------------------------------------------------------
LEMMA MirrorInvInit == Init => MirrorInv
<1> SUFFICES ASSUME Init PROVE MirrorInv
  OBVIOUS
<1>1. /\ \A t \in Threads : pc[t] = Elsewhere /\ stack[t] = <<>> /\ active_frames[t] = <<>>
      /\ passed = {} /\ seen = {} /\ proc = "running" /\ status = "loop"
      /\ functions_disassembled = {}
  BY DEF Init, TargetInit
<1>2. Elsewhere.kind = "none" /\ Elsewhere \notin Sites
  BY DEF Elsewhere, Sites, CallPc, RetPc, AfterPc, PanicPc, TracePc, MallocPc, DropPc
<1>3. Planted = {InitialBreakpoints[i].pc : i \in DOMAIN InitialBreakpoints}
  BY DEF Init, Planted, AddressesOf
<1>4. DOMAIN InitialBreakpoints = 1 .. Internals + Len(UserFunctions)
      /\ Len(UserFunctions) \in Nat /\ Internals \in {2, 4}
  BY InitialTable, UserFunctionsAssumption DEF Internals
<1>5. PanicPc \in Planted /\ TracePc \in Planted
  <2>1. InitialBreakpoints[1] = InternalBreakpoints[1]
        /\ InitialBreakpoints[2] = InternalBreakpoints[2]
    BY <1>4, InitialTable
  <2>2. InternalBreakpoints[1] = Breakpoint("Breakpoint", "Locals", PanicPc)
        /\ InternalBreakpoints[2] = Breakpoint("Breakpoint", "Arguments", TracePc)
    BY DEF InternalBreakpoints
  <2>3. QED BY <1>3, <1>4, <2>1, <2>2 DEF Breakpoint
<1>6. ASSUME NEW g \in Functions PROVE CallPc(g) \in Planted
  <2>1. PICK i \in 1 .. Len(UserFunctions) : UserFunctions[i] = g
    BY UserFunctionsAssumption
  <2>2. PICK j \in Nat : j = i + Internals
    BY <1>4
  <2>3. j \in Internals + 1 .. Internals + Len(UserFunctions) /\ j - Internals = i
        /\ j \in DOMAIN InitialBreakpoints
    BY <1>4, <2>2
  <2>4. InitialBreakpoints[j] = Breakpoint("FunctionCall", "Arguments", CallPc(g))
    BY <2>1, <2>3, InitialTable
  <2>5. QED BY <1>3, <2>3, <2>4 DEF Breakpoint
<1>7. SitesPlanted
  BY <1>1, <1>2, <1>5, <1>6 DEF SitesPlanted, Trapped
<1>8. QED
  BY <1>1, <1>2, <1>7 DEF MirrorInv, FramesRecorded, StackDescends, Descends, AtTopFunction,
        StopsInOrder, MirrorsTarget, MirrorOf, ExpectedFrames, AssertionsHold

-----------------------------------------------------------------------------
(***************************************************************************)
(* The program's steps.                                                    *)
(***************************************************************************)
\* A running thread is pictured as it is.
LEMMA ElsewherePicture ==
    ASSUME NEW t \in Threads, MirrorsTarget, pc[t] = Elsewhere
    PROVE  MirrorOf(active_frames[t], stack[t])
  BY DEF MirrorsTarget, ExpectedFrames, Elsewhere, GonePc

LEMMA SiteKinds ==
    /\ Elsewhere.kind = "none" /\ GonePc.kind = "gone" /\ PanicPc.kind = "panic"
    /\ TracePc.kind = "trace" /\ MallocPc.kind = "malloc" /\ DropPc.kind = "drop"
  BY DEF Elsewhere, GonePc, PanicPc, TracePc, MallocPc, DropPc

LEMMA FunctionSites ==
    ASSUME NEW g \in Functions
    PROVE  /\ CallPc(g).kind = "call" /\ CallPc(g).at = g /\ CallPc(g) \in Sites
           /\ RetPc(g).kind = "ret" /\ RetPc(g).at = g /\ RetPc(g) \in Sites
  BY DEF CallPc, RetPc, Sites

LEMMA NoSites ==
    /\ \A p \in Sites : p.kind \notin {"none", "gone"}
    /\ Elsewhere \notin Sites /\ GonePc \notin Sites /\ Elsewhere # GonePc
<1>1. \A p \in Sites : p.kind \notin {"none", "gone"}
  BY DEF PanicPc, TracePc, MallocPc, DropPc, CallPc, RetPc, AfterPc, Sites
<1>2. QED BY <1>1, SiteKinds

\* A stack stays descending when a frame is popped or pushed.
LEMMA DescendsOuter ==
    ASSUME NEW s \in Seq(Frames), Descends(s)
    PROVE  Descends(Outer(s))
<1>1. CASE s = <<>>
  BY <1>1 DEF Outer, Descends
<1>2. CASE s # <<>>
  <2>1. /\ Len(Outer(s)) = Len(s) - 1 /\ Len(s) \in Nat
        /\ \A i \in 1 .. Len(s) - 1 : Outer(s)[i] = s[i]
    BY <1>2, OuterProperties
  <2>2. QED BY <2>1 DEF Descends
<1>3. QED BY <1>1, <1>2

LEMMA DescendsAppend ==
    ASSUME NEW s \in Seq(Frames), Descends(s), NEW e \in Frames,
           e.sp = BaseSp(s) - FrameSize[e.fn]
    PROVE  Descends(Append(s, e))
<1>1. /\ Len(Append(s, e)) = Len(s) + 1 /\ Len(s) \in Nat
      /\ Append(s, e)[Len(s) + 1] = e
      /\ \A i \in 1 .. Len(s) : Append(s, e)[i] = s[i]
  BY AppendProperties
<1>2. s = <<>> <=> Len(s) = 0
  OBVIOUS
<1>3. QED BY <1>1, <1>2 DEF Descends, BaseSp

\* A running thread has not been passed, nor seen: what it runs into is new.
LEMMA RunningIsUnhandled ==
    ASSUME TypeInv, MirrorInv, NEW t \in Threads, proc = "running", pc[t] = Elsewhere
    PROVE  t \notin passed /\ ~HitHandled(t)
<1>1. t \notin passed
  BY NoSites DEF TypeInv, TypeOK, TargetTypeOK, Trapped
<1>2. QED BY <1>1 DEF HitHandled

\* What is to be shown of a step of the program that moves one thread.
LEMMA LocalStep ==
    ASSUME TypeInv, MirrorInv, NEW t \in Threads,
           UNCHANGED <<tableVars, callVars, status>>,
           \A u \in Threads : u # t => /\ pc'[u] = pc[u] /\ stack'[u] = stack[u]
                                       /\ HitHandled(u)' = HitHandled(u),
           pc'[t] \in Sites => pc'[t] \in Planted,
           Descends(stack'[t]),
           pc'[t].kind \in {"call", "ret"} =>
                stack'[t] # <<>> /\ stack'[t][Len(stack'[t])].fn = pc'[t].at,
           pc'[t] # GonePc => MirrorOf(active_frames[t], ExpectedFrames(t)'),
           StopsInOrder'
    PROVE  MirrorInv'
<1> USE DEF tableVars, callVars
<1>1. SitesPlanted'
  BY DEF MirrorInv, SitesPlanted, Planted, Trapped
<1>2. FramesRecorded' /\ AssertionsHold'
  BY DEF MirrorInv, FramesRecorded, AssertionsHold
<1>3. StackDescends'
  BY DEF MirrorInv, StackDescends, Descends
<1>4. AtTopFunction'
  BY DEF MirrorInv, AtTopFunction, Top
<1>5. MirrorsTarget'
  <2>1. ASSUME NEW u \in Threads, pc'[u] # GonePc
        PROVE  MirrorOf(active_frames'[u], ExpectedFrames(u)')
    <3>1. CASE u = t
      BY <2>1, <3>1
    <3>2. CASE u # t
      <4>1. ExpectedFrames(u)' = ExpectedFrames(u)
        BY <3>2 DEF ExpectedFrames
      <4>2. MirrorOf(active_frames[u], ExpectedFrames(u))
        BY <2>1, <3>2 DEF MirrorInv, MirrorsTarget
      <4>3. QED BY <4>1, <4>2
    <3>3. QED BY <3>1, <3>2
  <2>2. QED BY <2>1 DEF MirrorsTarget, MirrorOf
<1>6. QED BY <1>1, <1>2, <1>3, <1>4, <1>5 DEF MirrorInv

-----------------------------------------------------------------------------
\* The program keeps the picture: it is right about running threads, a thread
\* that runs into a call has one frame more than is recorded, and one that leaves
\* a return has one frame less than it had.
LEMMA MirrorProgram ==
    ASSUME Orderly, TypeInv, MirrorInv, Program
    PROVE  MirrorInv'
<1> USE DEF tableVars, callVars
<1> DEFINE Runs(u) == proc = "running" /\ pc[u] = Elsewhere
<1>1. UNCHANGED <<tableVars, callVars, seen, status>>
  BY DEF Program
<1>2. TargetTypeOK /\ StopsInOrder /\ SitesPlanted /\ StackDescends /\ MirrorsTarget
  BY DEF TypeInv, TypeOK, MirrorInv
<1>3. ASSUME NEW t \in Threads, Runs(t)
      PROVE  /\ MirrorOf(active_frames[t], stack[t])
             /\ stack[t] \in Seq(Frames) /\ Descends(stack[t])
             /\ t \notin passed /\ ~HitHandled(t)
  BY <1>2, <1>3, ElsewherePicture, RunningIsUnhandled
     DEF TargetTypeOK, StackDescends
\* (a thread that does not leave the place it runs to)
<1>4. ASSUME NEW t \in Threads, Runs(t), UNCHANGED <<stack, proc, selected, passed>>,
             NEW p \in Planted \cup {Elsewhere},
             p.kind \in {"call", "ret"} => stack[t] # <<>> /\ Top(t).fn = p.at,
             p.kind # "call",
             pc' = [pc EXCEPT ![t] = p]
      PROVE  MirrorInv'
  <2>1. pc \in [Threads -> Sites \cup {Elsewhere, GonePc}]
    BY <1>2 DEF TargetTypeOK
  <2>2. pc'[t] = p /\ \A u \in Threads : u # t => pc'[u] = pc[u]
    BY <1>4, <2>1
  <2>3. \A u \in Threads : HitHandled(u)' = HitHandled(u)
    BY <1>1, <1>4 DEF HitHandled
  <2>4. ~HitHandled(t)'
    BY <1>3, <1>4, <2>3
  <2>5. ExpectedFrames(t)' = stack[t]
    BY <1>4, <2>2, <2>4 DEF ExpectedFrames
  <2>6. MirrorOf(active_frames[t], ExpectedFrames(t)')
    BY <1>3, <1>4, <2>5
  <2>7. StopsInOrder'
    <3>1. \A u \in passed : u # t
      BY <1>3, <1>4
    <3>2. passed \subseteq Threads
      BY <1>2 DEF TargetTypeOK
    <3>3. QED BY <1>1, <1>2, <1>4, <2>2, <3>1, <3>2 DEF StopsInOrder
  <2>8. pc'[t] \in Sites => pc'[t] \in Planted
    BY <1>4, <2>2, NoSites
  <2>9. pc'[t].kind \in {"call", "ret"} =>
            stack'[t] # <<>> /\ stack'[t][Len(stack'[t])].fn = pc'[t].at
    BY <1>4, <2>2 DEF Top
  <2>10. Descends(stack'[t]) /\ \A u \in Threads : stack'[u] = stack[u]
    BY <1>3, <1>4
  <2>11. QED BY <1>1, <2>2, <2>3, <2>6, <2>7, <2>8, <2>9, <2>10, LocalStep
<1>5. ASSUME NEW t \in Threads, NEW g \in Functions, Enter(t, g) PROVE MirrorInv'
  <2> DEFINE e == [fn |-> g, sp |-> BaseSp(stack[t]) - FrameSize[g]]
             s == Append(stack[t], e)
  <2>1. Runs(t) /\ UNCHANGED <<proc, selected, passed>>
    BY <1>5 DEF Enter, Arrives, Idle
  <2>2. stack[t] \in Seq(Frames) /\ Descends(stack[t]) /\ MirrorOf(active_frames[t], stack[t])
    BY <1>3, <2>1
  <2>3. e \in Frames /\ e.fn = g /\ e.sp = BaseSp(stack[t]) - FrameSize[e.fn]
    <3>1. BaseSp(stack[t]) \in Int
      BY <2>2, BaseSpType
    <3>2. QED BY <3>1, FunctionsAssumption DEF Frames
  <2>4. stack' = [stack EXCEPT ![t] = s] /\ pc' = [pc EXCEPT ![t] = CallPc(g)]
    BY <1>5 DEF Enter
  <2> HIDE DEF e
  <2>5. /\ s # <<>> /\ s[Len(s)] = e
        /\ Outer(s) = stack[t] /\ Descends(s)
    BY <2>2, <2>3, AppendProperties, OuterOfAppend, DescendsAppend
  <2> HIDE DEF s
  <2>6. /\ pc'[t] = CallPc(g) /\ stack'[t] = s
        /\ \A u \in Threads : u # t => pc'[u] = pc[u] /\ stack'[u] = stack[u]
    BY <1>2, <2>4 DEF TargetTypeOK
  <2>7. \A u \in Threads : HitHandled(u)' = HitHandled(u)
    BY <1>1, <2>1 DEF HitHandled
  <2>8. CallPc(g).kind = "call" /\ CallPc(g).at = g /\ CallPc(g) \in Planted
    BY <1>2, FunctionSites DEF SitesPlanted
  <2>9. ExpectedFrames(t)' = stack[t]
    <3>1. ~HitHandled(t)'
      BY <1>3, <2>1, <2>7
    <3>2. QED BY <2>5, <2>6, <2>8, <3>1 DEF ExpectedFrames, Outer
  <2>10. StopsInOrder'
    <3>1. \A u \in passed : u # t /\ u \in Threads
      BY <1>2, <1>3, <2>1 DEF TargetTypeOK
    <3>2. QED BY <1>1, <1>2, <2>1, <2>6, <3>1 DEF StopsInOrder
  <2>11. MirrorOf(active_frames[t], ExpectedFrames(t)')
    BY <2>2, <2>9
  <2>12. QED BY <1>1, <2>3, <2>5, <2>6, <2>7, <2>8, <2>10, <2>11, LocalStep
<1>6. ASSUME NEW t \in Threads, Leave(t, Planted) PROVE MirrorInv'
  <2>1. Runs(t) /\ stack[t] # <<>> /\ UNCHANGED <<proc, selected, passed>>
    BY <1>6 DEF Leave, Idle
  <2>2. RetPc(Top(t).fn) \in Planted /\ Top(t).fn \in Functions
    <3>1. active_frames[t] \in Seq(ActiveFrames)
      BY DEF TypeInv, TypeOK, CallTypeOK
    <3>2. /\ active_frames[t] # <<>>
          /\ active_frames[t][Len(active_frames[t])].fn = Top(t).fn
      BY <1>3, <2>1, <3>1, MirrorPop DEF Top
    <3>3. Len(active_frames[t]) \in 1 .. Len(active_frames[t])
          /\ active_frames[t][Len(active_frames[t])] \in ActiveFrames
      BY <3>1, <3>2, LastInRange
    <3>4. CallPc(Top(t).fn) \in functions_disassembled /\ Top(t).fn \in Functions
      BY <3>2, <3>3 DEF MirrorInv, FramesRecorded, ActiveFrames
    <3>5. QED BY <1>2, <3>4 DEF SitesPlanted
  <2>3. pc' = [pc EXCEPT ![t] = RetPc(Top(t).fn)] /\ UNCHANGED stack
    BY <1>6, <2>2 DEF Leave
  <2>4. RetPc(Top(t).fn).kind = "ret" /\ RetPc(Top(t).fn).at = Top(t).fn
    BY <2>2, FunctionSites
  <2>5. QED BY <1>4, <2>1, <2>2, <2>3, <2>4
<1>7. ASSUME NEW t \in Threads, NEW site \in {TracePc, PanicPc}, Interrupt(t, site)
      PROVE  MirrorInv'
  BY <1>2, <1>4, <1>7, SiteKinds DEF Interrupt, Arrives, Idle, SitesPlanted
<1>8. ASSUME NEW t \in Threads, NEW b \in BoxSites, Malloc(t, b, Planted) PROVE MirrorInv'
  <2>1. PICK p \in {MallocPc, Elsewhere} : pc' = [pc EXCEPT ![t] = p] /\ p \in Planted \cup {Elsewhere}
    BY <1>8 DEF Malloc, Arrives, Idle
  <2>2. Runs(t) /\ UNCHANGED <<stack, proc, selected, passed>>
    BY <1>8 DEF Malloc, Arrives, Idle
  <2>3. QED BY <1>4, <2>1, <2>2, SiteKinds
<1>9. ASSUME NEW t \in Threads, Allocated(t, Planted) PROVE MirrorInv'
  <2>1. PICK p \in {AfterPc(box[t]), Elsewhere} :
            pc' = [pc EXCEPT ![t] = p] /\ p \in Planted \cup {Elsewhere}
    BY <1>9 DEF Allocated
  <2>2. Runs(t) /\ UNCHANGED <<stack, proc, selected, passed>>
    BY <1>9 DEF Allocated
  <2>3. p.kind \notin {"call", "ret"}
    BY SiteKinds DEF AfterPc
  <2>4. QED BY <1>4, <2>1, <2>2, <2>3
<1>10. ASSUME NEW t \in Threads, NEW a \in Addresses, Drop(t, a, Planted) PROVE MirrorInv'
  BY <1>4, <1>10, SiteKinds DEF Drop, Idle
\* (a step that moves no thread, and hides or shows no hit)
<1>11. ASSUME UNCHANGED <<stack, pc>>, StopsInOrder',
              \A u \in Threads : HitHandled(u)' = HitHandled(u)
       PROVE  MirrorInv'
  <2>1. ASSUME NEW u \in Threads, pc[u] # GonePc
        PROVE  MirrorOf(active_frames[u], ExpectedFrames(u)')
    <3>1. ExpectedFrames(u)' = ExpectedFrames(u)
      BY <1>11 DEF ExpectedFrames
    <3>2. QED BY <1>2, <2>1, <3>1 DEF MirrorsTarget
  <2>2. MirrorsTarget'
    BY <1>1, <1>11, <2>1 DEF MirrorsTarget, MirrorOf
  <2>3. SitesPlanted' /\ FramesRecorded' /\ StackDescends' /\ AtTopFunction' /\ AssertionsHold'
    BY <1>1, <1>11 DEF MirrorInv, SitesPlanted, Planted, Trapped, FramesRecorded,
          StackDescends, Descends, AtTopFunction, Top, AssertionsHold
  <2>4. QED BY <1>11, <2>2, <2>3 DEF MirrorInv
<1>12. ASSUME NEW t \in Threads, Stop(t) PROVE MirrorInv'
  <2>1. seen = {} /\ t # None
    BY <1>2, <1>12, HeapAssumption DEF Stop, StopsInOrder
  <2>2. StopsInOrder'
    BY <1>1, <1>2, <1>12, <2>1 DEF Stop, StopsInOrder
  <2>3. \A u \in Threads : HitHandled(u)' = HitHandled(u)
    BY <1>1, <1>12, <2>1 DEF Stop, HitHandled
  <2>4. QED BY <1>11, <1>12, <2>2, <2>3 DEF Stop
<1>13. ASSUME Go \/ Exit PROVE MirrorInv'
  <2>1. StopsInOrder'
    BY <1>1, <1>2, <1>13 DEF Go, Exit, StopsInOrder
  <2>2. \A u \in Threads : HitHandled(u)' = HitHandled(u)
    BY <1>1, <1>13 DEF Go, Exit, HitHandled
  <2>3. QED BY <1>11, <1>13, <2>1, <2>2 DEF Go, Exit
\* (LLDB steps a thread over its breakpoint: it stood where it had been handled)
<1>14. ASSUME NEW t \in Threads, StepOver(t) PROVE MirrorInv'
  <2>1. /\ StepsOver(t) /\ t \in passed /\ HitHandled(t) /\ proc # "stopped"
        /\ UNCHANGED <<proc, selected>> /\ passed' = passed \ {t}
    BY <1>14 DEF StepOver, StepOverReturn, StepOverPanic, StepOverDrop, StepOverOther,
          StepsOver, HitHandled
  <2>2. /\ stack[t] \in Seq(Frames) /\ Descends(stack[t]) /\ Descends(<<>>)
        /\ pc[t] \in Sites /\ pc[t] # GonePc
    BY <1>2, <2>1, NoSites DEF TargetTypeOK, Trapped, StackDescends, Descends
  <2>3. MirrorOf(active_frames[t], ExpectedFrames(t))
    BY <1>2, <2>2 DEF MirrorsTarget
  <2>4. \A u \in Threads : u # t => /\ pc'[u] = pc[u] /\ stack'[u] = stack[u]
                                    /\ HitHandled(u)' = HitHandled(u)
    BY <1>1, <1>2, <1>14, <2>1
       DEF StepOver, StepOverReturn, StepOverPanic, StepOverDrop, StepOverOther,
           TargetTypeOK, HitHandled
  <2>5. AtReturn(t) <=> pc[t].kind = "ret"
    BY DEF Orderly, AtReturn
  <2>6. /\ pc'[t] \in {Elsewhere, GonePc} /\ Descends(stack'[t])
        /\ pc'[t] # GonePc => stack'[t] = ExpectedFrames(t)
    <3>1. CASE StepOverReturn(t)
      BY <1>2, <2>1, <2>2, <2>5, <3>1, DescendsOuter
         DEF StepOverReturn, ExpectedFrames, TargetTypeOK
    <3>2. CASE StepOverPanic(t)
      BY <1>2, <2>2, <3>2 DEF Orderly, StepOverPanic, TargetTypeOK
    <3>3. CASE StepOverDrop(t) \/ StepOverOther(t)
      BY <1>2, <2>1, <2>2, <2>5, <3>3
         DEF StepOverDrop, StepOverOther, ExpectedFrames, TargetTypeOK
    <3>4. QED BY <1>14, <3>1, <3>2, <3>3 DEF StepOver
  <2>7. pc'[t].kind \notin {"call", "ret"} /\ pc'[t] \notin Sites
    BY <2>6, SiteKinds, NoSites
  <2>8. pc'[t] # GonePc => MirrorOf(active_frames[t], ExpectedFrames(t)')
    <3>1. ExpectedFrames(t)' = stack'[t]
      BY <2>7 DEF ExpectedFrames
    <3>2. QED BY <2>3, <2>6, <3>1
  <2>9. StopsInOrder'
    <3>1. \A u \in passed' : u \in passed /\ u # t /\ u \in Threads
      BY <1>2, <2>1 DEF TargetTypeOK
    <3>2. QED BY <1>1, <1>2, <2>1, <2>4, <3>1 DEF StopsInOrder
  <2>10. QED BY <1>1, <2>4, <2>6, <2>7, <2>8, <2>9, LocalStep
<1>15. \A t \in Threads : ~StopForSignal(t)
  BY DEF Orderly, StopForSignal
<1>16. QED
  BY <1>5, <1>6, <1>7, <1>8, <1>9, <1>10, <1>12, <1>13, <1>14, <1>15 DEF Program, TargetNext

-----------------------------------------------------------------------------
(***************************************************************************)
(* The debugger's steps.                                                   *)
(***************************************************************************)
\* Every hit of the stop was handled, or the loop would not resume.
LEMMA MirrorResume ==
    ASSUME TypeInv, MirrorInv, Resume
    PROVE  MirrorInv'
<1> USE DEF tableVars, callVars, allocVars
<1>1. /\ UNCHANGED <<stack, pc, tableVars, callVars, status>>
      /\ seen' = {} /\ proc = "stopped" /\ proc' = "stepping"
      /\ passed' = {t \in Threads : Trapped(t)}
      /\ AllSeen
  BY DEF Resume, MirrorInv, StopsInOrder
<1>2. ASSUME NEW t \in Threads, pc[t] # GonePc
      PROVE  MirrorOf(active_frames[t], ExpectedFrames(t)')
  <2>1. pc[t] \in Sites => HitHandled(t) /\ HitHandled(t)'
    BY <1>1 DEF MirrorInv, SitesPlanted, Trapped, AllSeen, HitHandled
  <2>2. pc[t] \notin Sites => pc[t].kind \notin {"call", "ret"}
    BY <1>2, SiteKinds DEF TypeInv, TypeOK, TargetTypeOK
  <2>3. ExpectedFrames(t)' = ExpectedFrames(t)
    BY <1>1, <2>1, <2>2 DEF ExpectedFrames
  <2>4. QED BY <1>2, <2>3 DEF MirrorInv, MirrorsTarget
<1>3. MirrorsTarget'
  BY <1>1, <1>2 DEF MirrorsTarget, MirrorOf
<1>4. SitesPlanted' /\ FramesRecorded' /\ StackDescends' /\ AtTopFunction' /\ AssertionsHold'
  BY <1>1 DEF MirrorInv, SitesPlanted, Planted, Trapped, FramesRecorded,
        StackDescends, Descends, AtTopFunction, Top, AssertionsHold
<1>5. StopsInOrder'
  BY <1>1 DEF StopsInOrder
<1>6. QED BY <1>3, <1>4, <1>5 DEF MirrorInv

\* What is to be shown of the handling of a hit: the thread's frames are the
\* expected ones, and whatever code was read has its return planted.
LEMMA HandledStep ==
    ASSUME TypeInv, MirrorInv, NEW t \in Threads, Handling(t),
           \A u \in Threads : u # t => active_frames'[u] = active_frames[u],
           \A i \in 1 .. Len(active_frames'[t]) :
                /\ active_frames'[t][i].pc = CallPc(active_frames'[t][i].fn)
                /\ CallPc(active_frames'[t][i].fn) \in functions_disassembled',
           MirrorOf(active_frames'[t],
                    IF pc[t].kind = "ret" THEN Outer(stack[t]) ELSE stack[t]),
           Planted \subseteq Planted',
           functions_disassembled \subseteq functions_disassembled',
           \A g \in Functions : CallPc(g) \in functions_disassembled' \ functions_disassembled
                                    => RetPc(g) \in Planted',
           status' # "panicked"
    PROVE  MirrorInv'
<1>1. /\ UNCHANGED targetVars /\ seen' = seen \cup {t} /\ proc = "stopped"
  BY DEF Handling
<1> USE DEF targetVars
<1>2. ASSUME NEW u \in Threads, pc[u] # GonePc
      PROVE  MirrorOf(active_frames'[u], ExpectedFrames(u)')
  <2>1. CASE u = t
    <3>1. HitHandled(u)'
      BY <1>1, <2>1 DEF HitHandled
    <3>2. ExpectedFrames(u)' = IF pc[t].kind = "ret" THEN Outer(stack[t]) ELSE stack[t]
      BY <1>1, <2>1, <3>1 DEF ExpectedFrames
    <3>3. QED BY <2>1, <3>2
  <2>2. CASE u # t
    <3>1. HitHandled(u)' = HitHandled(u)
      BY <1>1, <2>2 DEF HitHandled
    <3>2. ExpectedFrames(u)' = ExpectedFrames(u)
      BY <1>1, <3>1 DEF ExpectedFrames
    <3>3. QED BY <1>2, <2>2, <3>2 DEF MirrorInv, MirrorsTarget
  <2>3. QED BY <2>1, <2>2
<1>3. MirrorsTarget'
  BY <1>1, <1>2 DEF MirrorsTarget, MirrorOf
<1>4. SitesPlanted'
  BY <1>1 DEF MirrorInv, SitesPlanted, Trapped
<1>5. FramesRecorded'
  BY DEF MirrorInv, FramesRecorded
<1>6. StackDescends' /\ AtTopFunction'
  BY <1>1 DEF MirrorInv, StackDescends, Descends, AtTopFunction, Top
<1>7. StopsInOrder'
  BY <1>1 DEF MirrorInv, StopsInOrder
<1>8. QED BY <1>3, <1>4, <1>5, <1>6, <1>7 DEF MirrorInv, AssertionsHold

\* A call: if LLDB reports it again the last frame is this very call, otherwise
\* it is the caller's, whose stack pointer is above.
LEMMA MirrorCall ==
    ASSUME Orderly, TypeInv, MirrorInv, NEW t \in Threads, HandleCall(t)
    PROVE  MirrorInv'
<1> DEFINE af == active_frames[t]
           s  == stack[t]
<1>1. /\ Handling(t) /\ pc[t] \in Sites /\ t \notin seen /\ proc = "stopped" /\ status = "loop"
      /\ BpId(t) \in DOMAIN breakpoints /\ pc[t].kind = "call" /\ pc[t] # GonePc
  BY HandledBreakpoint, NoSites DEF HandleCall, Handling, BreakpointFits
<1>2. pc[t].at \in Functions /\ pc[t] = CallPc(pc[t].at)
  BY <1>1, SiteOfCall
<1>3. /\ s \in Seq(Frames) /\ s # <<>> /\ s[Len(s)].fn = pc[t].at /\ s[Len(s)] \in Frames
      /\ af \in Seq(ActiveFrames) /\ Descends(s)
  BY <1>1, LastInRange DEF TypeInv, TypeOK, TargetTypeOK, CallTypeOK, MirrorInv,
        AtTopFunction, Top, StackDescends
<1>4. Sp(t) = s[Len(s)].sp /\ Sp(t) \in Int
  BY <1>1, <1>3 DEF Sp, BaseSp, Frames
<1>5. \A i \in 1 .. Len(af) : /\ af[i].pc = CallPc(af[i].fn)
                              /\ CallPc(af[i].fn) \in functions_disassembled
  BY DEF MirrorInv, FramesRecorded
<1>6. CASE t \in passed
  <2>1. MirrorOf(af, s)
    BY <1>1, <1>6 DEF MirrorInv, MirrorsTarget, ExpectedFrames, HitHandled
  <2>2. HitAgain(t)
    <3>1. af # <<>> /\ af[Len(af)].fn = pc[t].at /\ af[Len(af)].sp = Sp(t)
      BY <1>3, <1>4, <2>1, MirrorPop
    <3>2. af[Len(af)].pc = pc[t]
      BY <1>2, <1>3, <1>5, <3>1, LastInRange
    <3>3. QED BY <3>1, <3>2 DEF HitAgain, HasFrame, LastFrame
  <2>3. UNCHANGED <<tableVars, callVars, status>>
    BY <2>2 DEF HandleCall, SkipCall, CallAssertFails, RecordCall
  <2>4. QED
    BY <1>1, <1>5, <2>1, <2>3, HandledStep DEF tableVars, callVars, Planted
<1>7. CASE t \notin passed
  <2>1. MirrorOf(af, Outer(s))
    BY <1>1, <1>7 DEF MirrorInv, MirrorsTarget, ExpectedFrames, HitHandled
  <2>2. HasFrame(t) => Sp(t) < LastFrame(t).sp
    <3>1. SUFFICES ASSUME af # <<>> PROVE Sp(t) < af[Len(af)].sp
      BY DEF HasFrame, LastFrame
    <3>2. /\ Len(Outer(s)) = Len(s) - 1 /\ Outer(s) \in Seq(Frames)
          /\ \A i \in 1 .. Len(s) - 1 : Outer(s)[i] = s[i]
      BY <1>3, OuterProperties
    <3>3. Len(af) = Len(s) - 1 /\ Len(af) \in 1 .. Len(s) - 1 /\ Len(s) \in 1 .. Len(s) /\ Len(s) # 1
      BY <1>3, <2>1, <3>1, <3>2 DEF MirrorOf
    <3>4. af[Len(af)].sp = s[Len(s) - 1].sp
      BY <2>1, <3>2, <3>3 DEF MirrorOf
    <3>5. s[Len(s)].sp = s[Len(s) - 1].sp - FrameSize[s[Len(s)].fn]
      BY <1>3, <3>3 DEF Descends
    <3>6. FrameSize[s[Len(s)].fn] \in Nat \ {0} /\ s[Len(s) - 1].sp \in Int
      <4>1. s[Len(s) - 1] \in Frames
        BY <1>3, <3>3
      <4>2. QED BY <1>3, <4>1, FunctionsAssumption DEF Frames
    <3>7. QED BY <1>4, <3>4, <3>5, <3>6
  <2>3. HasFrame(t) => LastFrame(t).sp \in Int
    <3>1. af # <<>> => af[Len(af)] \in ActiveFrames
      BY <1>3, LastInRange
    <3>2. QED BY <3>1 DEF HasFrame, LastFrame, ActiveFrames
  <2>4. ~HitAgain(t) /\ ~CallAssertFails(t)
    <3>1. HasFrame(t) => Sp(t) # LastFrame(t).sp /\ ~(Sp(t) > LastFrame(t).sp)
      BY <1>4, <2>2, <2>3, SMT
    <3>2. QED BY <3>1 DEF HitAgain, CallAssertFails
  <2>5. RecordCall(t)
    BY <2>4 DEF HandleCall, SkipCall
  <2>6. ~ReturnImmediately(t)
    BY DEF Orderly, ReturnImmediately
  <2>7. active_frames' = [active_frames EXCEPT ![t] = Append(af, NewFrame(t))]
    BY <2>5, <2>6 DEF RecordCall
  <2>8. /\ NewFrame(t) \in ActiveFrames /\ NewFrame(t).fn = s[Len(s)].fn
        /\ NewFrame(t).sp = s[Len(s)].sp /\ NewFrame(t).pc = CallPc(NewFrame(t).fn)
    BY <1>1, <1>2, <1>3, <1>4 DEF NewFrame, ActiveFrames, TypeInv, TypeOK, CallTypeOK
  <2>9. MirrorOf(Append(af, NewFrame(t)), s)
    BY <1>3, <2>1, <2>8, MirrorPush
  <2>10. /\ active_frames'[t] = Append(af, NewFrame(t))
         /\ \A u \in Threads : u # t => active_frames'[u] = active_frames[u]
    BY <2>7 DEF TypeInv, TypeOK, CallTypeOK
  <2>11. /\ functions_disassembled' = functions_disassembled \cup {pc[t]}
         /\ Planted \subseteq Planted'
         /\ pc[t] \notin functions_disassembled => RetPc(pc[t].at) \in Planted'
    <3>1. /\ functions_disassembled' = functions_disassembled \cup {pc[t]}
          /\ IF pc[t] \notin functions_disassembled
             THEN Plant(Breakpoint("FunctionReturn", "None", RetPc(pc[t].at)))
             ELSE UNCHANGED <<created, breakpoints, breakpoint_addresses>>
      BY <2>5, <2>6 DEF RecordCall, Disassemble, FirstHit
    <3>2. \A bp : Plant(bp) => Planted' = Planted \cup {bp.pc}
      BY DEF Plant, Planted
    <3>3. Breakpoint("FunctionReturn", "None", RetPc(pc[t].at)).pc = RetPc(pc[t].at)
      BY DEF Breakpoint
    <3>4. UNCHANGED <<created, breakpoints, breakpoint_addresses>> => Planted' = Planted
      BY DEF Planted
    <3>5. QED BY <3>1, <3>2, <3>3, <3>4
  <2>12. \A i \in 1 .. Len(active_frames'[t]) :
            /\ active_frames'[t][i].pc = CallPc(active_frames'[t][i].fn)
            /\ CallPc(active_frames'[t][i].fn) \in functions_disassembled'
    <3>1. /\ Len(Append(af, NewFrame(t))) = Len(af) + 1 /\ Len(af) \in Nat
          /\ Append(af, NewFrame(t))[Len(af) + 1] = NewFrame(t)
          /\ \A i \in 1 .. Len(af) : Append(af, NewFrame(t))[i] = af[i]
      BY <1>3, <2>8, AppendProperties
    <3>2. CallPc(NewFrame(t).fn) = pc[t]
      BY <1>2, <1>3, <2>8
    <3>3. ASSUME NEW i \in 1 .. Len(af) + 1
          PROVE  /\ Append(af, NewFrame(t))[i].pc = CallPc(Append(af, NewFrame(t))[i].fn)
                 /\ CallPc(Append(af, NewFrame(t))[i].fn) \in functions_disassembled'
      <4>1. CASE i \in 1 .. Len(af)
        <5>1. Append(af, NewFrame(t))[i] = af[i]
          BY <3>1, <4>1
        <5>2. af[i].pc = CallPc(af[i].fn) /\ CallPc(af[i].fn) \in functions_disassembled
          BY <1>5, <4>1
        <5>3. QED BY <2>11, <5>1, <5>2
      <4>2. CASE i = Len(af) + 1 BY <2>8, <2>11, <3>1, <3>2, <4>2
      <4>3. QED BY <3>1, <4>1, <4>2
    <3>4. QED BY <2>10, <3>1, <3>3
  <2>13. \A g \in Functions : CallPc(g) \in functions_disassembled' \ functions_disassembled
                                => RetPc(g) \in Planted'
    BY <1>2, <2>11, FunctionSites
  <2>14. status' # "panicked"
    BY <1>1, <2>5 DEF RecordCall
  <2>15. QED
    BY <1>1, <2>9, <2>10, <2>11, <2>12, <2>13, <2>14, HandledStep
<1>8. QED BY <1>6, <1>7

\* A return: the last frame is that of the function that returns.
LEMMA MirrorReturn ==
    ASSUME Orderly, TypeInv, MirrorInv, NEW t \in Threads, HandleReturn(t)
    PROVE  MirrorInv'
<1> DEFINE af == active_frames[t]
           s  == stack[t]
<1>1. /\ Handling(t) /\ pc[t] \in Sites /\ t \notin seen /\ proc = "stopped" /\ status = "loop"
      /\ BpId(t) \in DOMAIN breakpoints /\ pc[t].kind = "ret" /\ pc[t] # GonePc
  BY HandledBreakpoint, NoSites DEF HandleReturn, Handling, BreakpointFits
<1>2. t \notin passed
  BY <1>1 DEF Orderly, MirrorInv, StopsInOrder
<1>3. /\ s \in Seq(Frames) /\ s # <<>> /\ s[Len(s)].fn = pc[t].at /\ s[Len(s)] \in Frames
      /\ af \in Seq(ActiveFrames) /\ pc[t].at \in Functions
  BY <1>1, LastInRange, SiteOfReturn DEF TypeInv, TypeOK, TargetTypeOK, CallTypeOK, MirrorInv,
        AtTopFunction, Top
<1>4. MirrorOf(af, s)
  BY <1>1, <1>2 DEF MirrorInv, MirrorsTarget, ExpectedFrames, HitHandled
<1>5. /\ af # <<>> /\ af[Len(af)].sp = s[Len(s)].sp /\ af[Len(af)].fn = s[Len(s)].fn
      /\ MirrorOf(Outer(af), Outer(s))
  BY <1>3, <1>4, MirrorPop
<1>6. \A i \in 1 .. Len(af) : /\ af[i].pc = CallPc(af[i].fn)
                              /\ CallPc(af[i].fn) \in functions_disassembled
  BY DEF MirrorInv, FramesRecorded
<1>7. ~HitAgain(t)
  <2>1. af[Len(af)].pc = CallPc(pc[t].at)
    BY <1>3, <1>5, <1>6, LastInRange
  <2>2. QED BY <1>1, <1>3, <2>1, FunctionSites DEF HitAgain, LastFrame
<1>8. ~(Sp(t) < af[Len(af)].sp)
  <2>1. Sp(t) = s[Len(s)].sp + (FrameSize[pc[t].at] - 1)
    BY <1>1, <1>3 DEF Sp, BaseSp
  <2>2. FrameSize[pc[t].at] \in Nat \ {0} /\ s[Len(s)].sp \in Int
    BY <1>3, FunctionsAssumption DEF Frames
  <2>3. QED BY <1>5, <2>1, <2>2
<1>9. RecordReturn(t)
  BY <1>5, <1>7, <1>8 DEF HandleReturn, ReturnAssertFails, HasFrame, LastFrame
<1>10. /\ active_frames'[t] = Outer(af)
       /\ \A u \in Threads : u # t => active_frames'[u] = active_frames[u]
  BY <1>9 DEF RecordReturn, TypeInv, TypeOK, CallTypeOK
<1>11. UNCHANGED tableVars /\ status' = "loop"
  BY <1>1, <1>9 DEF HandleReturn, RecordReturn
<1>12. \A i \in 1 .. Len(Outer(af)) :
            /\ Outer(af)[i].pc = CallPc(Outer(af)[i].fn)
            /\ CallPc(Outer(af)[i].fn) \in functions_disassembled
  <2>1. /\ Len(Outer(af)) = Len(af) - 1 /\ Len(af) \in Nat
        /\ \A i \in 1 .. Len(af) - 1 : Outer(af)[i] = af[i]
    BY <1>3, <1>5, OuterProperties
  <2>2. QED BY <1>6, <2>1
<1>13. QED
  BY <1>1, <1>5, <1>10, <1>11, <1>12, HandledStep DEF tableVars, Planted

\* Any other breakpoint leaves the frames alone.
LEMMA MirrorOtherHit ==
    ASSUME TypeInv, MirrorInv, NEW t \in Threads,
           \/ HandleBreakpoint(t) \/ HandleExchangeMalloc(t)
           \/ HandleAfterAllocation(t) \/ HandleDropInPlace(t)
    PROVE  MirrorInv'
<1>1. /\ Handling(t) /\ UNCHANGED <<active_frames, status>> /\ status = "loop"
      /\ BreakpointFits(BpId(t)) /\ breakpoints[BpId(t)].pc = pc[t]
      /\ breakpoints[BpId(t)].type = "Breakpoint" \/ breakpoints[BpId(t)].capture = "Only"
  BY HandledBreakpoint
     DEF Handling, HandleBreakpoint, HandleExchangeMalloc, HandleAfterAllocation,
         HandleDropInPlace, callVars
<1>2. pc[t].kind \notin {"call", "ret"} /\ pc[t] # GonePc
  BY <1>1, HandledBreakpoint, NoSites DEF BreakpointFits
<1>3. MirrorOf(active_frames[t], stack[t])
  BY <1>2 DEF MirrorInv, MirrorsTarget, ExpectedFrames
<1>4. /\ functions_disassembled' \in {functions_disassembled,
                                      functions_disassembled \cup {AfterPc(box[t])}}
      /\ Planted \subseteq Planted'
  <2>1. CASE HandleExchangeMalloc(t)
    BY <2>1 DEF HandleExchangeMalloc, Plant, Planted
  <2>2. CASE UNCHANGED tableVars
    BY <2>2 DEF tableVars, Planted
  <2>3. QED
    BY <2>1, <2>2 DEF HandleBreakpoint, HandleAfterAllocation, HandleDropInPlace
<1>5. \A g \in Functions : CallPc(g) # AfterPc(box[t])
  BY DEF CallPc, AfterPc
<1>6. \A i \in 1 .. Len(active_frames[t]) :
            /\ active_frames[t][i].pc = CallPc(active_frames[t][i].fn)
            /\ CallPc(active_frames[t][i].fn) \in functions_disassembled
  BY DEF MirrorInv, FramesRecorded
<1>7. \A g \in Functions : CallPc(g) \in functions_disassembled' \ functions_disassembled
                              => RetPc(g) \in Planted'
  BY <1>4, <1>5
<1>8. QED BY <1>1, <1>2, <1>3, <1>4, <1>6, <1>7, HandledStep

LEMMA MirrorInvNext == Orderly /\ TypeInv /\ MirrorInv /\ [Next]_vars => MirrorInv'
<1> SUFFICES ASSUME Orderly, TypeInv, MirrorInv, [Next]_vars PROVE MirrorInv'
  OBVIOUS
<1>1. CASE Program
  BY <1>1, MirrorProgram
<1>2. CASE \E t \in Threads : Handle(t)
  BY <1>2, MirrorCall, MirrorReturn, MirrorOtherHit DEF Handle
<1>3. CASE Resume
  BY <1>3, MirrorResume
<1>4. CASE Finish
  <2>1. UNCHANGED <<targetVars, tableVars, callVars, seen>> /\ status' = "finished"
    BY <1>4 DEF Finish
  <2>2. QED
    BY <2>1 DEF MirrorInv, SitesPlanted, Planted, Trapped, FramesRecorded, StackDescends,
          Descends, AtTopFunction, Top, StopsInOrder, MirrorsTarget, MirrorOf,
          ExpectedFrames, HitHandled, AssertionsHold, targetVars, tableVars, callVars
<1>5. CASE UNCHANGED vars
  BY <1>5 DEF MirrorInv, SitesPlanted, Planted, Trapped, FramesRecorded, StackDescends,
        Descends, AtTopFunction, Top, StopsInOrder, MirrorsTarget, MirrorOf,
        ExpectedFrames, HitHandled, AssertionsHold, targetVars, tableVars, callVars, vars
<1>6. QED BY <1>1, <1>2, <1>3, <1>4, <1>5 DEF Next, Done

\* As long as the program is orderly, the debugger's frames are those of the
\* program, however its threads interleave, stop together and are reported.
THEOREM MirrorsTheTarget ==
    ASSUME Orderly
    PROVE  Spec => []MirrorsTarget
<1>1. Init => TypeInv /\ MirrorInv
  BY TypeInvInit, MirrorInvInit
<1>2. TypeInv /\ MirrorInv /\ [Next]_vars => TypeInv' /\ MirrorInv'
  BY TypeInvNext, MirrorInvNext
<1>3. MirrorInv => MirrorsTarget
  BY DEF MirrorInv
<1>4. QED BY <1>1, <1>2, <1>3, PTL DEF Spec

\* ... and none of the handler's assertions fails.
THEOREM AssertionsNeverFail ==
    ASSUME Orderly
    PROVE  Spec => []AssertionsHold
<1>1. Init => TypeInv /\ MirrorInv
  BY TypeInvInit, MirrorInvInit
<1>2. TypeInv /\ MirrorInv /\ [Next]_vars => TypeInv' /\ MirrorInv'
  BY TypeInvNext, MirrorInvNext
<1>3. MirrorInv => AssertionsHold
  BY DEF MirrorInv
<1>4. QED BY <1>1, <1>2, <1>3, PTL DEF Spec
=============================================================================
