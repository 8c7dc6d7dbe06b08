------------------------------- MODULE Target -------------------------------
(***************************************************************************)
(* The debugged program as the debugger sees it through LLDB: a process    *)
(* whose threads push and pop stack frames, panic, allocate and drop       *)
(* boxes, and are trapped when they reach a program counter that holds a   *)
(* breakpoint.  LLDB and the program are not part of the repository: every *)
(* definition here is what debugger/src/debugger.rs relies on.             *)
(***************************************************************************)
EXTENDS Integers, Sequences, FiniteSets

CONSTANTS
    Threads,        \* threads of the program
    Functions,      \* traced functions: the ones the parser found
    Immediate,      \* functions whose breakpoint location is on their `ret`
    FrameSize,      \* bytes (in words) a call of the function takes on the stack
    BoxSites,       \* inlined call sites of Box::new
    TypeOf,         \* the type a site allocates
    ZeroSized,      \* sites whose type has size 0: nothing is allocated
    Addresses,      \* heap addresses
    Free,           \* the type of a free address
    MaxHits,        \* BOUND: breakpoints each thread runs into
    CaughtPanics,   \* do panics unwind to a catch_unwind, or end the thread?
    Signals,        \* may the process stop for a reason that is no breakpoint?
    Rereported      \* kinds of pc where LLDB may leave a stopped thread

Types == {TypeOf[b] : b \in BoxSites}
None  == "none"

ASSUME FunctionsAssumption ==
    /\ Immediate \subseteq Functions
    /\ FrameSize \in [Functions -> Nat \ {0}]
    /\ \A f \in Immediate : FrameSize[f] = 1

ASSUME HeapAssumption ==
    /\ Addresses \subseteq Int
    /\ ZeroSized \subseteq BoxSites
    /\ Free \notin Types \cup {"Rc"}
    /\ None \notin Types \cup BoxSites \cup Threads

ASSUME SwitchesAssumption ==
    /\ {CaughtPanics, Signals} \subseteq BOOLEAN
    /\ MaxHits \in [Threads -> Nat]

VARIABLES
    stack,      \* the frames of traced functions on each thread's stack
    pc,         \* the breakpoint address a thread is at, or Elsewhere
    box,        \* the Box::new a thread is inside of, or None
    reg,        \* rax after an allocation, the argument of drop_in_place
    heap,       \* what each address holds
    fuel,       \* hits a thread has left (bounds the run)
    proc,       \* state of the process
    selected,   \* the thread whose breakpoint hit stopped the process
    passed      \* threads that sit where they sat at the previous stop

targetVars == <<stack, pc, box, reg, heap, fuel, proc, selected, passed>>

-----------------------------------------------------------------------------
Elsewhere == [kind |-> "none",   at |-> None]
PanicPc   == [kind |-> "panic",  at |-> "rust_panic"]
TracePc   == [kind |-> "trace",  at |-> "__firedbg_trace__"]
MallocPc  == [kind |-> "malloc", at |-> "exchange_malloc"]
DropPc    == [kind |-> "drop",   at |-> "drop_in_place"]
GonePc    == [kind |-> "gone",   at |-> None]
CallPc(f)  == [kind |-> "call",  at |-> f]
RetPc(f)   == [kind |-> "ret",   at |-> f]
AfterPc(b) == [kind |-> "after", at |-> b]

Sites == {PanicPc, TracePc, MallocPc, DropPc} \cup {CallPc(f) : f \in Functions}
            \cup {RetPc(f) : f \in Functions} \cup {AfterPc(b) : b \in BoxSites}

Frames == [fn : Functions, sp : Int]

Top(t)     == stack[t][Len(stack[t])]
Outer(s)   == SubSeq(s, 1, Len(s) - 1)
BaseSp(s)  == IF s = <<>> THEN 0 ELSE s[Len(s)].sp

\* The stack pointer of a thread: past the prologue while the function runs,
\* back at the return address when it is about to return.
Sp(t) == BaseSp(stack[t]) +
            (IF pc[t].kind = "ret" THEN FrameSize[pc[t].at] - 1 ELSE 0)

Trapped(t) == pc[t] \in Sites
Idle(t)    == /\ proc = "running"
              /\ pc[t] = Elsewhere
              /\ box[t] = None
Arrives(t) == /\ Idle(t)
              /\ fuel[t] > 0
              /\ fuel' = [fuel EXCEPT ![t] = @ - 1]

\* Rc and Arc put two counters in front of the value that is dropped.
ValueAddress(a) == IF heap[a] = "Rc" THEN a + 16 ELSE a

\* The allocator hands out blocks that do not overlap: what lives behind the
\* counters of an Rc is its value, and no other.
Vacant(a, type) ==
    /\ heap[a] = Free
    /\ \A c \in Addresses : /\ heap[c] = "Rc" => a # c + 16
                            /\ type = "Rc" /\ heap[c] # Free => c # a + 16

-----------------------------------------------------------------------------
TargetInit ==
    /\ stack = [t \in Threads |-> <<>>]
    /\ pc    = [t \in Threads |-> Elsewhere]
    /\ box   = [t \in Threads |-> None]
    /\ reg   = [t \in Threads |-> 0]
    /\ heap  = [a \in Addresses |-> Free]
    /\ fuel  = MaxHits
    /\ proc = "running"
    /\ selected = None
    /\ passed = {}

Enter(t, f) ==
    /\ Arrives(t)
    /\ stack' = [stack EXCEPT ![t] =
                    Append(@, [fn |-> f, sp |-> BaseSp(@) - FrameSize[f]])]
    /\ pc' = [pc EXCEPT ![t] = CallPc(f)]
    /\ UNCHANGED <<box, reg, heap, proc, selected, passed>>

\* The innermost function reaches its `ret`.
Leave(t, planted) ==
    /\ Idle(t)
    /\ stack[t] # <<>>
    /\ IF RetPc(Top(t).fn) \in planted
       THEN /\ pc' = [pc EXCEPT ![t] = RetPc(Top(t).fn)]
            /\ UNCHANGED stack
       ELSE /\ stack' = [stack EXCEPT ![t] = Outer(@)]
            /\ UNCHANGED pc
    /\ UNCHANGED <<box, reg, heap, fuel, proc, selected, passed>>

\* A call of fire::dbg! or a panic.
Interrupt(t, site) ==
    /\ Arrives(t)
    /\ pc' = [pc EXCEPT ![t] = site]
    /\ UNCHANGED <<stack, box, reg, heap, proc, selected, passed>>

\* Box::new calls exchange_malloc ...
Malloc(t, b, planted) ==
    /\ Arrives(t)
    /\ box' = [box EXCEPT ![t] = b]
    /\ pc' = [pc EXCEPT ![t] = IF MallocPc \in planted THEN MallocPc ELSE @]
    /\ UNCHANGED <<stack, reg, heap, proc, selected, passed>>

\* ... which returns an address; a zero-sized value gets none of the heap.
Allocated(t, planted) ==
    /\ proc = "running" /\ pc[t] = Elsewhere /\ box[t] # None
    /\ IF box[t] \in ZeroSized
       THEN UNCHANGED <<heap, reg>>
       ELSE \E a \in Addresses :
                /\ Vacant(a, TypeOf[box[t]])
                /\ heap' = [heap EXCEPT ![a] = TypeOf[box[t]]]
                /\ reg' = [reg EXCEPT ![t] = a]
    /\ pc' = [pc EXCEPT ![t] = IF AfterPc(box[t]) \in planted
                               THEN AfterPc(box[t]) ELSE @]
    /\ box' = [box EXCEPT ![t] = None]
    /\ UNCHANGED <<stack, fuel, proc, selected, passed>>

\* No two threads drop one value.
Drop(t, a, planted) ==
    /\ Idle(t)
    /\ DropPc \in planted
    /\ heap[a] # Free
    /\ \A u \in Threads : u # t /\ pc[u] \in {DropPc} \cup {AfterPc(b) : b \in BoxSites}
                             => reg[u] \notin {a, ValueAddress(a)}
    /\ pc' = [pc EXCEPT ![t] = DropPc]
    /\ reg' = [reg EXCEPT ![t] = ValueAddress(a)]
    /\ UNCHANGED <<stack, box, heap, fuel, proc, selected, passed>>

-----------------------------------------------------------------------------
\* The process stops: for a breakpoint a thread ran into since it was resumed,
\* which LLDB makes the selected thread, ...
Stop(t) ==
    /\ proc = "running"
    /\ Trapped(t) /\ t \notin passed
    /\ proc' = "stopped"
    /\ selected' = t
    /\ UNCHANGED <<stack, pc, box, reg, heap, fuel, passed>>

\* ... or for a signal, wherever the other threads are.
StopForSignal(t) ==
    /\ Signals
    /\ Arrives(t)
    /\ proc' = "stopped"
    /\ selected' = None
    /\ UNCHANGED <<stack, pc, box, reg, heap, passed>>

\* Resumed, LLDB first steps every stopped thread over its breakpoint: ...
StepsOver(t) ==
    /\ proc \in {"stepping", "running"}
    /\ t \in passed
    /\ passed' = passed \ {t}
    /\ UNCHANGED <<box, reg, fuel, proc, selected>>

AtReturn(t) == pc[t].kind = "ret" \/ (pc[t].kind = "call" /\ pc[t].at \in Immediate)

StepOverReturn(t) ==
    /\ StepsOver(t)
    /\ AtReturn(t)
    /\ stack' = [stack EXCEPT ![t] = Outer(@)]
    /\ pc' = [pc EXCEPT ![t] = Elsewhere]
    /\ UNCHANGED heap

\* (a panic is caught below the frame that raised it, or it ends the thread)
StepOverPanic(t) ==
    /\ StepsOver(t)
    /\ pc[t].kind = "panic"
    /\ IF CaughtPanics
       THEN /\ \E n \in 0 .. Len(stack[t]) - 1 :
                    stack' = [stack EXCEPT ![t] = SubSeq(@, 1, n)]
            /\ pc' = [pc EXCEPT ![t] = Elsewhere]
       ELSE /\ stack' = [stack EXCEPT ![t] = <<>>]
            /\ pc' = [pc EXCEPT ![t] = GonePc]
    /\ UNCHANGED heap

StepOverDrop(t) ==
    /\ StepsOver(t)
    /\ pc[t].kind = "drop"
    /\ heap' = [a \in Addresses |-> IF ValueAddress(a) = reg[t] THEN Free ELSE heap[a]]
    /\ pc' = [pc EXCEPT ![t] = Elsewhere]
    /\ UNCHANGED stack

StepOverOther(t) ==
    /\ StepsOver(t)
    /\ ~AtReturn(t) /\ pc[t].kind \notin {"panic", "drop"}
    /\ pc' = [pc EXCEPT ![t] = Elsewhere]
    /\ UNCHANGED <<stack, heap>>

StepOver(t) == \/ StepOverReturn(t) \/ StepOverPanic(t)
               \/ StepOverDrop(t)   \/ StepOverOther(t)

\* ... and then lets all of them run, except that a thread may be left where it
\* was when another one hit a breakpoint before it got its turn.
Go ==
    /\ proc = "stepping"
    /\ \A t \in passed : pc[t].kind \in Rereported
    /\ proc' = "running"
    /\ UNCHANGED <<stack, pc, box, reg, heap, fuel, selected, passed>>

\* main returns or a thread calls exit, whatever the other threads do.
Exit ==
    /\ proc = "running"
    /\ proc' = "exited"
    /\ UNCHANGED <<stack, pc, box, reg, heap, fuel, selected, passed>>

TargetNext(planted) ==
    \/ \E t \in Threads :
        \/ \E f \in Functions : Enter(t, f)
        \/ Leave(t, planted)
        \/ Interrupt(t, TracePc)
        \/ stack[t] # <<>> /\ Interrupt(t, PanicPc)
        \/ \E b \in BoxSites : Malloc(t, b, planted)
        \/ Allocated(t, planted)
        \/ \E a \in Addresses : Drop(t, a, planted)
        \/ Stop(t)
        \/ StopForSignal(t)
        \/ StepOver(t)
    \/ Go
    \/ Exit
=============================================================================
