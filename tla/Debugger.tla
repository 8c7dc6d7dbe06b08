------------------------------ MODULE Debugger ------------------------------
(***************************************************************************)
(* The debugger engine of debugger/src/debugger.rs: the breakpoint table,  *)
(* the table of threads, the handler of a breakpoint hit and the main loop *)
(* that calls it, beside the program it debugs (module Target).  State     *)
(* keeps the names of the source; a thread's entry in `threads` is split   *)
(* into frame_id, active_frames and allocating.                            *)
(***************************************************************************)
EXTENDS Target

CONSTANTS
    UserFunctions,      \* the traced functions, in the order of params.breakpoints
    TraceAllocation,    \* ~DONT_TRACE_ALLOCATION
    ClosureTypes        \* types that are closures: never recorded

ASSUME UserFunctionsAssumption ==
    /\ UserFunctions \in Seq(Functions)
    /\ \A f \in Functions : \E i \in 1 .. Len(UserFunctions) : UserFunctions[i] = f
    /\ \A i, j \in 1 .. Len(UserFunctions) : UserFunctions[i] = UserFunctions[j] => i = j
    /\ TraceAllocation \in BOOLEAN

VARIABLES
    created,                \* breakpoints LLDB has made: the id of the latest
    breakpoints,            \* index = id; the default entry 0 is left out
    breakpoint_addresses,   \* program counter -> LLDB's id of its breakpoint
    functions_disassembled, \* program counters of which the code was read
    frame_id,               \* per thread: calls recorded so far
    active_frames,          \* per thread: calls recorded and not returned
    allocating,             \* per thread: type being allocated, or None
    allocation,             \* address -> type name, as far as recorded
    event_stream,           \* events sent
    alloc_stream,           \* allocations and drops sent
    seen,                   \* threads the main loop dealt with in this stop
    status                  \* of the main loop: "loop", "panicked", "finished"

tableVars  == <<created, breakpoints, breakpoint_addresses, functions_disassembled>>
callVars   == <<frame_id, active_frames, event_stream>>
allocVars  == <<allocating, allocation, alloc_stream>>
vars == <<targetVars, tableVars, callVars, allocVars, seen, status>>

RUST_PANIC_BP_ID    == 1
FIREDBG_TRACE_BP_ID == 2
EXCHANGE_MALLOC     == 3
DROP_IN_PLACE       == 4

-----------------------------------------------------------------------------
(***************************************************************************)
(* The breakpoint table.                                                   *)
(***************************************************************************)
Breakpoint(type, capture, at) == [type |-> type, capture |-> capture, pc |-> at]

InternalBreakpoints ==
    <<Breakpoint("Breakpoint", "Locals", PanicPc),
      Breakpoint("Breakpoint", "Arguments", TracePc)>>
    \o IF TraceAllocation
       THEN <<Breakpoint("Breakpoint", "Arguments", MallocPc),
              Breakpoint("Breakpoint", "Arguments", DropPc)>>
       ELSE <<>>

InitialBreakpoints ==
    InternalBreakpoints \o
        [i \in 1 .. Len(UserFunctions) |->
            Breakpoint("FunctionCall", "Arguments", CallPc(UserFunctions[i]))]

\* register_breakpoint, for every breakpoint of a table
AddressesOf(bps) ==
    [p \in {bps[i].pc : i \in DOMAIN bps} |->
        CHOOSE i \in DOMAIN bps : bps[i].pc = p]

\* (mutant: LLDB is asked for the breakpoint twice)
Plant_Twice(bp) ==
    /\ created' = created + 2
    /\ breakpoints' = Append(breakpoints, bp)
    /\ breakpoint_addresses' =
        [p \in DOMAIN breakpoint_addresses \cup {bp.pc} |->
            IF p = bp.pc THEN created + 2 ELSE breakpoint_addresses[p]]

\* LLDB makes a breakpoint and gives it the next of its ids, the address leads to
\* that id, and the breakpoint becomes the next of the table: the handler looks
\* the one's id up in the other.
Plant(bp) ==
    /\ created' = created + 1
    /\ breakpoints' = Append(breakpoints, bp)
    /\ breakpoint_addresses' =
        [p \in DOMAIN breakpoint_addresses \cup {bp.pc} |->
            IF p = bp.pc THEN created + 1 ELSE breakpoint_addresses[p]]

Planted == DOMAIN breakpoint_addresses

-----------------------------------------------------------------------------
Init ==
    /\ TargetInit
    /\ created = Len(InitialBreakpoints)
    /\ breakpoints = InitialBreakpoints
    /\ breakpoint_addresses = AddressesOf(InitialBreakpoints)
    /\ functions_disassembled = {}
    /\ frame_id = [t \in Threads |-> 0]
    /\ active_frames = [t \in Threads |-> <<>>]
    /\ allocating = [t \in Threads |-> None]
    /\ allocation = [a \in {} |-> None]
    /\ event_stream = <<>>
    /\ alloc_stream = <<>>
    /\ seen = {}
    /\ status = "loop"

-----------------------------------------------------------------------------
(***************************************************************************)
(* handle_breakpoint.                                                      *)
(***************************************************************************)
BpId(t)       == breakpoint_addresses[pc[t]]
LastFrame(t)  == active_frames[t][Len(active_frames[t])]
HasFrame(t)   == active_frames[t] # <<>>

\* The main loop hands the handler the selected thread first, then every other
\* thread that is stopped at the address of a breakpoint.
Handling(t) ==
    /\ status = "loop"
    /\ proc = "stopped"
    /\ t \notin seen
    /\ pc[t] \in Planted
    /\ IF seen = {} THEN t = selected ELSE TRUE
    /\ seen' = seen \cup {t}
    /\ UNCHANGED targetVars

CallEvent(t, id, frame) ==
    [type |-> "call", thread |-> t, bp |-> id, frame_id |-> frame.frame_id, fn |-> frame.fn]
ReturnEvent(t, id, frame) ==
    [type |-> "return", thread |-> t, bp |-> id, frame_id |-> frame.frame_id, fn |-> frame.fn]

\* (mutant: the outermost frame is charged)
BreakpointEvent_Outermost(t, id) ==
    [type |-> "breakpoint", thread |-> t, bp |-> id,
     frame_id |-> IF HasFrame(t) THEN active_frames[t][1].frame_id ELSE 0,
     reason |-> IF HasFrame(t) /\ id = RUST_PANIC_BP_ID THEN "panic" ELSE "breakpoint"]

BreakpointEvent(t, id) ==
    [type |-> "breakpoint", thread |-> t, bp |-> id,
     frame_id |-> IF HasFrame(t) THEN LastFrame(t).frame_id ELSE 0,
     reason |-> IF HasFrame(t) /\ id = RUST_PANIC_BP_ID THEN "panic" ELSE "breakpoint"]

\* any intermediate breakpoint will clear this
ClearAllocating(t) == allocating' = [allocating EXCEPT ![t] = None]

Panics == status' = "panicked"

\* (mutants: a recursive call is taken for the same hit; no hit is)
HitAgain_SamePc(t) == HasFrame(t) /\ pc[t] = LastFrame(t).pc
HitAgain_Never(t)  == FALSE

\* The thread stands exactly where its last frame was recorded.
HitAgain(t) ==
    /\ HasFrame(t)
    /\ pc[t] = LastFrame(t).pc
    /\ Sp(t) = LastFrame(t).sp

NewFrame(t) == [frame_id |-> frame_id[t] + 1, sp |-> Sp(t), pc |-> pc[t],
                fn |-> pc[t].at]

\* (mutant: the code is read on every hit)
FirstHit_Always(p) == TRUE

FirstHit(p) == p \notin functions_disassembled

\* The current instruction is a `ret`: found out while disassembling, so only
\* for the first call of a function.
ReturnImmediately(t) == FirstHit(pc[t]) /\ pc[t].at \in Immediate

\* (mutant: every later id is taken for one)
ReturnsEarly_Later(id) == id >= EXCHANGE_MALLOC

\* The arms of the capture that return before an event is sent: they ask for the
\* ids of the allocation breakpoints, not for their kind.
ReturnsEarly(id) == id \in {EXCHANGE_MALLOC, DROP_IN_PLACE}

SkipCall(t) ==
    /\ HitAgain(t)
    /\ UNCHANGED <<tableVars, callVars, allocVars, status>>

CallAssertFails(t) ==
    /\ HasFrame(t) /\ ~HitAgain(t)
    /\ Sp(t) > LastFrame(t).sp
    /\ Panics
    /\ UNCHANGED <<tableVars, callVars, allocVars>>

\* Read the function's code once and plant breakpoints at its returns.
Disassemble(t) ==
    /\ functions_disassembled' = functions_disassembled \cup {pc[t]}
    /\ IF FirstHit(pc[t]) /\ ~ReturnImmediately(t)
       THEN Plant(Breakpoint("FunctionReturn", "None", RetPc(pc[t].at)))
       ELSE UNCHANGED <<created, breakpoints, breakpoint_addresses>>

RecordCall(t) ==
    /\ ~HitAgain(t)
    /\ HasFrame(t) => Sp(t) <= LastFrame(t).sp
    /\ frame_id' = [frame_id EXCEPT ![t] = @ + 1]
    /\ Disassemble(t)
    /\ LET new  == NewFrame(t)
           call == CallEvent(t, BpId(t), new)
       IN  IF ReturnsEarly(BpId(t))
           THEN /\ active_frames' = [active_frames EXCEPT ![t] = Append(@, new)]
                /\ UNCHANGED <<event_stream, allocating>>
           ELSE /\ IF ReturnImmediately(t)
                   THEN /\ event_stream' =
                            event_stream \o <<call, ReturnEvent(t, BpId(t), new)>>
                        /\ UNCHANGED active_frames
                   ELSE /\ event_stream' = Append(event_stream, call)
                        /\ active_frames' = [active_frames EXCEPT ![t] = Append(@, new)]
                /\ ClearAllocating(t)
    /\ UNCHANGED <<allocation, alloc_stream, status>>

HandleCall(t) ==
    /\ Handling(t)
    /\ breakpoints[BpId(t)].type = "FunctionCall"
    /\ SkipCall(t) \/ CallAssertFails(t) \/ RecordCall(t)

\* (that the second assertion comes after a pop() is of no consequence)
ReturnAssertFails(t) ==
    /\ HasFrame(t) => Sp(t) < LastFrame(t).sp
    /\ Panics
    /\ UNCHANGED callVars

RecordReturn(t) ==
    /\ HasFrame(t)
    /\ Sp(t) >= LastFrame(t).sp
    /\ active_frames' = [active_frames EXCEPT ![t] = Outer(@)]
    /\ event_stream' = Append(event_stream, ReturnEvent(t, BpId(t), LastFrame(t)))
    /\ UNCHANGED <<frame_id, status>>

HandleReturn(t) ==
    /\ Handling(t)
    /\ breakpoints[BpId(t)].type = "FunctionReturn"
    /\ ClearAllocating(t)
    /\ IF HitAgain(t) THEN UNCHANGED <<callVars, status>>
       ELSE ReturnAssertFails(t) \/ RecordReturn(t)
    /\ UNCHANGED <<tableVars, allocation, alloc_stream>>

\* rust_panic and fire::dbg!
HandleBreakpoint(t) ==
    /\ Handling(t)
    /\ breakpoints[BpId(t)].type = "Breakpoint"
    /\ breakpoints[BpId(t)].capture # "Only"
    /\ ~ReturnsEarly(BpId(t))
    /\ event_stream' = Append(event_stream, BreakpointEvent(t, BpId(t)))
    /\ ClearAllocating(t)
    /\ UNCHANGED <<tableVars, frame_id, active_frames, allocation, alloc_stream, status>>

\* (mutant: the first hit of a site always leaves before the type is noted)
NotedType_LeavesFirst(b, first, before) ==
    IF first \/ TypeOf[b] \in ClosureTypes THEN before ELSE TypeOf[b]

\* A closure, or a zero-sized type at the first hit, leaves what was noted before.
NotedType(b, first, before) ==
    IF (first /\ b \in ZeroSized) \/ TypeOf[b] \in ClosureTypes
    THEN before ELSE TypeOf[b]

\* exchange_malloc is about to allocate for the Box::new at box[t]: the call site
\* gets a breakpoint after the allocation the first time, unless the type has no
\* size, and the type is noted, unless it is a closure.
HandleExchangeMalloc(t) ==
    /\ Handling(t)
    /\ breakpoints[BpId(t)].type = "Breakpoint"
    /\ breakpoints[BpId(t)].capture = "Arguments"
    /\ BpId(t) = EXCHANGE_MALLOC
    /\ LET site  == AfterPc(box[t])
           first == FirstHit(site)
       IN  /\ functions_disassembled' = functions_disassembled \cup {site}
           /\ IF first /\ box[t] \notin ZeroSized /\ site \notin Planted
              THEN Plant(Breakpoint("Breakpoint", "Only", site))
              ELSE UNCHANGED <<created, breakpoints, breakpoint_addresses>>
           /\ allocating' = [allocating EXCEPT ![t] = NotedType(box[t], first, @)]
    /\ UNCHANGED <<callVars, allocation, alloc_stream, status>>

\* The breakpoint after the allocation: the address is in rax.
HandleAfterAllocation(t) ==
    /\ Handling(t)
    /\ breakpoints[BpId(t)].capture = "Only"
    /\ IF allocating[t] # None
       THEN /\ alloc_stream' = Append(alloc_stream,
                    [action |-> "Alloc", address |-> reg[t], type |-> allocating[t]])
            /\ allocation' = [a \in DOMAIN allocation \cup {reg[t]} |->
                    IF a = reg[t] THEN allocating[t] ELSE allocation[a]]
            /\ ClearAllocating(t)
       ELSE UNCHANGED allocVars
    /\ UNCHANGED <<tableVars, callVars, status>>

\* (mutant: the counters of an Rc are forgotten)
DroppedAddress_Exact(a) == {a} \cap DOMAIN allocation

\* The recorded address a drop is for: the argument, or the base of the RcBox.
DroppedAddress(a) ==
    IF a \in DOMAIN allocation THEN {a}
    ELSE {b \in DOMAIN allocation : b = a - 16 /\ allocation[b] = "Rc"}

HandleDropInPlace(t) ==
    /\ Handling(t)
    /\ breakpoints[BpId(t)].type = "Breakpoint"
    /\ BpId(t) = DROP_IN_PLACE
    /\ LET dropped == DroppedAddress(reg[t])
       IN  IF dropped = {}
           THEN UNCHANGED <<allocation, alloc_stream>>
           ELSE \E a \in dropped :
                /\ allocation' = [b \in DOMAIN allocation \ {a} |-> allocation[b]]
                /\ alloc_stream' = Append(alloc_stream,
                        [action |-> "Drop", address |-> a, type |-> allocation[a]])
    /\ UNCHANGED <<tableVars, callVars, allocating, status>>

Handle(t) ==
    \/ HandleCall(t)
    \/ HandleReturn(t)
    \/ HandleBreakpoint(t)
    \/ HandleExchangeMalloc(t)
    \/ HandleAfterAllocation(t)
    \/ HandleDropInPlace(t)

-----------------------------------------------------------------------------
(***************************************************************************)
(* The main loop.                                                          *)
(***************************************************************************)
\* (mutant: the other threads are forgotten)
AllSeen_Selected == seen # {}

AllSeen == /\ seen # {}
           /\ \A t \in Threads : pc[t] \in Planted => t \in seen

\* (mutant: the loop goes on without resuming)
Resume_Forgotten ==
    /\ status = "loop"
    /\ proc = "stopped"
    /\ selected # None => AllSeen
    /\ seen' = {}
    /\ selected' = None
    /\ UNCHANGED <<stack, pc, box, reg, heap, fuel, proc, passed,
                   tableVars, callVars, allocVars, status>>

\* Every stopped thread is dealt with (none after a stop for another reason).
Resume ==
    /\ status = "loop"
    /\ proc = "stopped"
    /\ selected # None => AllSeen
    /\ proc' = "stepping"
    /\ seen' = {}
    /\ passed' = {t \in Threads : Trapped(t)}
    /\ selected' = None
    /\ UNCHANGED <<stack, pc, box, reg, heap, fuel, tableVars, callVars, allocVars, status>>

\* The process is gone: the exit is sent, and the loop ends.
Finish ==
    /\ status = "loop"
    /\ proc = "exited"
    /\ status' = "finished"
    /\ UNCHANGED <<targetVars, tableVars, callVars, allocVars, seen>>

Program ==
    /\ status = "loop"
    /\ TargetNext(Planted)
    /\ UNCHANGED <<tableVars, callVars, allocVars, seen, status>>

Done == status # "loop" /\ UNCHANGED vars

Next ==
    \/ Program
    \/ \E t \in Threads : Handle(t)
    \/ Resume
    \/ Finish
    \/ Done

\* LLDB reports a hit, lets stopped threads go on, and the loop takes its turns;
\* nothing obliges the program to go anywhere.
Fairness ==
    /\ WF_vars(\E t \in Threads : Stop(t) /\ Program)
    /\ WF_vars(\E t \in Threads : StepOver(t) /\ Program)
    /\ WF_vars(Go /\ Program)
    /\ WF_vars(\E t \in Threads : Handle(t))
    /\ WF_vars(Resume)
    /\ WF_vars(Finish)

Spec == Init /\ [][Next]_vars /\ Fairness

-----------------------------------------------------------------------------
(***************************************************************************)
(* What the trace is worth.                                                *)
(***************************************************************************)
BreakpointRecords ==
    [type : {"Breakpoint", "FunctionCall", "FunctionReturn"},
     capture : {"Arguments", "Locals", "Only", "None"}, pc : Sites]

ActiveFrames == [frame_id : Nat, sp : Int, pc : Sites, fn : Functions]

Events ==
    [type : {"call", "return"}, thread : Threads, bp : Nat, frame_id : Nat, fn : Functions]
    \cup [type : {"breakpoint"}, thread : Threads, bp : Nat, frame_id : Nat,
          reason : {"panic", "breakpoint"}]

TargetTypeOK ==
    /\ stack \in [Threads -> Seq(Frames)]
    /\ pc \in [Threads -> Sites \cup {Elsewhere, GonePc}]
    /\ box \in [Threads -> BoxSites \cup {None}]
    /\ reg \in [Threads -> Int]
    /\ heap \in [Addresses -> Types \cup {Free}]
    /\ fuel \in [Threads -> Nat]
    /\ proc \in {"running", "stopped", "stepping", "exited"}
    /\ selected \in Threads \cup {None}
    /\ passed \subseteq {t \in Threads : Trapped(t)}

TableTypeOK ==
    /\ created = Len(breakpoints)
    /\ breakpoints \in Seq(BreakpointRecords)
    /\ Planted \subseteq Sites
    /\ breakpoint_addresses \in [Planted -> DOMAIN breakpoints]
    /\ functions_disassembled \subseteq Sites

CallTypeOK ==
    /\ frame_id \in [Threads -> Nat]
    /\ active_frames \in [Threads -> Seq(ActiveFrames)]
    /\ event_stream \in Seq(Events)

AllocationTypeOK ==
    /\ allocating \in [Threads -> Types \cup {None}]
    /\ DOMAIN allocation \subseteq Int
    /\ \A a \in DOMAIN allocation : allocation[a] \in Types

\* Every variable has its type: LLDB's ids lead into the breakpoint table, which
\* has as many entries as LLDB has made breakpoints, frames are
\* frames of traced functions, the recorded types are types of the program.
TypeOK ==
    /\ TargetTypeOK
    /\ TableTypeOK
    /\ CallTypeOK
    /\ AllocationTypeOK
    /\ seen \subseteq Threads
    /\ status \in {"loop", "panicked", "finished"}

\* The kind of each breakpoint follows from its address, the internal ones have
\* their fixed ids, and an address leads to the breakpoint planted there.
BreakpointFits(i) ==
    LET bp == breakpoints[i]
    IN  /\ bp.type = "FunctionCall"   <=> bp.pc.kind = "call"
        /\ bp.type = "FunctionReturn" <=> bp.pc.kind = "ret"
        /\ bp.capture = "Only"        <=> bp.pc.kind = "after"
        /\ bp.pc.kind = "panic"  => i = RUST_PANIC_BP_ID
        /\ bp.pc.kind = "trace"  => i = FIREDBG_TRACE_BP_ID
        /\ bp.pc.kind = "malloc" => i = EXCHANGE_MALLOC
        /\ bp.pc.kind = "drop"   => i = DROP_IN_PLACE
        /\ TraceAllocation /\ bp.pc.kind \in {"call", "ret", "after"} => i > DROP_IN_PLACE

TableOK ==
    /\ TraceAllocation => Len(breakpoints) >= DROP_IN_PLACE
    /\ \A i \in DOMAIN breakpoints : BreakpointFits(i)
    /\ \A p \in Planted : breakpoints[breakpoint_addresses[p]].pc = p
    /\ \A t \in Threads : pc[t] = MallocPc => box[t] \in BoxSites

\* A breakpoint is planted at an address once, however often and by however many
\* threads the function there is called: "there is no need to set a duplicate
\* breakpoint" (Disassemble, HandleExchangeMalloc).
PlantedOnce ==
    \A i, j \in DOMAIN breakpoints : breakpoints[i].pc = breakpoints[j].pc => i = j

\* Was the hit the thread stands at given to the handler (or passed over)?
HitHandled(t) == t \in passed \/ (proc = "stopped" /\ t \in seen)

\* The frames the debugger has to know of: not the one whose call it has still to
\* see, nor the one whose return it has seen.
ExpectedFrames(t) ==
    IF \/ pc[t].kind = "call" /\ ~HitHandled(t)
       \/ pc[t].kind = "ret" /\ HitHandled(t)
    THEN Outer(stack[t])
    ELSE stack[t]

MirrorOf(frames, calls) ==
    /\ Len(frames) = Len(calls)
    /\ \A i \in 1 .. Len(frames) : /\ frames[i].fn = calls[i].fn
                                   /\ frames[i].sp = calls[i].sp

\* active_frames is the call stack of the live thread, frame by frame, with the
\* stack pointers each function really runs at (HandleCall, HandleReturn).
MirrorsTarget ==
    \A t \in Threads : pc[t] # GonePc => MirrorOf(active_frames[t], ExpectedFrames(t))

\* No assertion of the handler fails: the stack pointer "goes deeper" from call
\* to call, there is an active frame for every return, and a return happens at
\* or above the frame it pops (debugger.rs:402, 770, 784).
AssertionsHold == status # "panicked"

\* What these two rest on: breakpoints are where threads get trapped, ...
SitesPlanted ==
    /\ \A f \in Functions : CallPc(f) \in Planted
    /\ \A f \in Functions : CallPc(f) \in functions_disassembled => RetPc(f) \in Planted
    /\ {PanicPc, TracePc} \subseteq Planted
    /\ \A t \in Threads : Trapped(t) => pc[t] \in Planted

\* ... the recorded frames were read at calls whose return is planted, ...
FramesRecorded ==
    \A t \in Threads : \A i \in 1 .. Len(active_frames[t]) :
        /\ active_frames[t][i].pc = CallPc(active_frames[t][i].fn)
        /\ CallPc(active_frames[t][i].fn) \in functions_disassembled

\* ... the stack grows downwards, ...
Descends(frames) ==
    \A i \in 1 .. Len(frames) :
        frames[i].sp = (IF i = 1 THEN 0 ELSE frames[i - 1].sp) - FrameSize[frames[i].fn]

StackDescends == \A t \in Threads : Descends(stack[t])

\* ... a thread at the call or return of a function runs that function, ...
AtTopFunction ==
    \A t \in Threads : pc[t].kind \in {"call", "ret"} =>
        stack[t] # <<>> /\ Top(t).fn = pc[t].at

\* ... and of the threads left where they were, none is at a return.
StopsInOrder ==
    /\ proc = "stopped" => selected # None
    /\ proc # "stopped" => seen = {}
    /\ proc # "stepping" => \A t \in passed : pc[t].kind \in Rereported

MirrorInv ==
    /\ SitesPlanted
    /\ FramesRecorded
    /\ StackDescends
    /\ AtTopFunction
    /\ StopsInOrder
    /\ MirrorsTarget
    /\ AssertionsHold

Returned(e) == \E i \in DOMAIN event_stream :
                    /\ event_stream[i].type = "return"
                    /\ event_stream[i].thread = e.thread
                    /\ event_stream[i].frame_id = e.frame_id

\* The places in the stream of the calls of a thread that it leaves open, and
\* how deep among them one is.
OpenCalls(t) == {i \in DOMAIN event_stream : /\ event_stream[i].type = "call"
                                            /\ event_stream[i].thread = t
                                            /\ ~Returned(event_stream[i])}
Depth(t, i)  == Cardinality({j \in OpenCalls(t) : j <= i})

\* Whenever a thread runs, the calls of it that the event stream leaves open are
\* the functions on its stack, in order: what a reader of the stream rebuilds is
\* the call stack of the program.
StreamShowsStack ==
    \A t \in Threads : pc[t] = Elsewhere =>
        /\ Cardinality(OpenCalls(t)) = Len(stack[t])
        /\ \A i \in OpenCalls(t) : event_stream[i].fn = stack[t][Depth(t, i)].fn

\* A return in the stream is of a call that is in the stream before it; the
\* indexer stops at one that is not (indexer/src/main.rs:195-202).
ReturnsAreAnnounced ==
    \A i \in DOMAIN event_stream : event_stream[i].type = "return" =>
        \E j \in 1 .. i - 1 :
            /\ event_stream[j].type = "call"
            /\ event_stream[j].thread = event_stream[i].thread
            /\ event_stream[j].frame_id = event_stream[i].frame_id

\* A panic or a fire::dbg! is charged to the innermost traced function that is
\* running in its thread (HandleBreakpoint): the event's frame is that call's.
BreakpointsAreAttributed ==
    [][\A t \in Threads : HandleBreakpoint(t) =>
        LET e == event_stream'[Len(event_stream')]
        IN  IF stack[t] = <<>> THEN e.frame_id = 0
            ELSE \E i \in DOMAIN event_stream :
                    /\ event_stream[i].type = "call"
                    /\ event_stream[i].thread = t
                    /\ event_stream[i].frame_id = e.frame_id
                    /\ event_stream[i].fn = Top(t).fn]_vars

\* A hit that stopped a thread is given to the handler, whichever thread LLDB
\* selected for the stop, unless the process or the debugger ends.
HitsAreHandled ==
    \A t \in Threads :
        (Trapped(t) /\ t \notin passed)
            ~> ((proc = "stopped" /\ t \in seen) \/ proc = "exited" \/ status # "loop")

\* The debugger does not leave the program stopped, nor the readers of the stream without the end of a program
\* that has exited (the main loop, Resume and Finish).
NothingIsStranded ==
    /\ (proc = "stopped") ~> (proc # "stopped" \/ status = "panicked")
    /\ (proc = "exited") ~> (status = "finished")

\* The stream keeps the promise of CallLog, whatever the program does.
Log == INSTANCE CallLog WITH
            log   <- [i \in DOMAIN event_stream |->
                        [type |-> event_stream[i].type,
                         thread |-> event_stream[i].thread,
                         frame_id |-> event_stream[i].frame_id]],
            calls <- frame_id,
            open  <- [t \in Threads |->
                        [i \in DOMAIN active_frames[t] |-> active_frames[t][i].frame_id]]

ImplementsCallLog == Log!Spec

\* An address on record holds a live value of the recorded type (the handlers of
\* exchange_malloc, of the breakpoint after it, and of drop_in_place).
RecordedTypesAreRight ==
    \A a \in DOMAIN allocation : a \in Addresses /\ heap[a] = allocation[a]

AtAllocation(t, a) == pc[t].kind = "after" /\ reg[t] = a /\ ~HitHandled(t)
AtDrop(t, a)       == pc[t].kind = "drop" /\ reg[t] = ValueAddress(a) /\ HitHandled(t)

\* Every live value that is no closure is on record, but for the ones a thread
\* is just allocating or dropping.
LiveValuesAreRecorded ==
    \A a \in Addresses :
        heap[a] \notin {Free} \cup ClosureTypes =>
            a \in DOMAIN allocation \/ \E t \in Threads : AtAllocation(t, a) \/ AtDrop(t, a)

\* Between the two, what is on record of the heap is what is on the heap.
RecordIsTheHeap == RecordedTypesAreRight /\ LiveValuesAreRecorded

\* In the allocation stream, the entries of an address alternate between Alloc
\* and Drop, and a drop names the type of the allocation it ends.
AllocationsAlternate ==
    \A i, j \in DOMAIN alloc_stream :
        /\ i < j
        /\ alloc_stream[i].address = alloc_stream[j].address
        /\ \A k \in i + 1 .. j - 1 : alloc_stream[k].address # alloc_stream[i].address
        => /\ alloc_stream[i].action # alloc_stream[j].action
           /\ alloc_stream[j].action = "Drop" => alloc_stream[j].type = alloc_stream[i].type
=============================================================================
