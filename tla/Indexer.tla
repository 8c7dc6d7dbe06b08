------------------------------- MODULE Indexer -------------------------------
(***************************************************************************)
(* The stream indexer of indexer/src/main.rs: a task reads the messages of *)
(* a .firedbg.ss file, as they are written, into a bounded channel; the    *)
(* main loop drains the channel and writes the messages into a database,   *)
(* batch by batch.  The file is written by the debugger, whose events are  *)
(* a log of CallLog.                                                       *)
(***************************************************************************)
EXTENDS Integers, Sequences, FiniteSets

CONSTANTS
    Threads,        \* threads of the debugged program
    QueueSize,      \* capacity of the channel
    MaxEvents,      \* BOUND: events in the file
    MaxBreakpoints, \* BOUND: breakpoints in the file
    MaxAllocations  \* BOUND: allocations in the file

ASSUME BoundsAssumption ==
    /\ QueueSize \in Nat \ {0}
    /\ MaxEvents \in Nat
    /\ MaxBreakpoints \in Nat \ {0}
    /\ MaxAllocations \in Nat

VARIABLES
    log, calls, open,   \* the events of the debugger (CallLog)
    file,       \* the messages in the file
    read,       \* how many of them the reader task has taken
    reader,     \* the reader task: "next", "send" or "ended"
    queue,      \* the channel
    main,       \* where the main loop is
    batch,      \* messages of the batch still to be looked at
    rows,       \* rows of the batch still to be inserted, by table
    stack,      \* per thread: the calls that have not returned
    db,         \* the rows of each table
    hit_count   \* column hit_count of the table of breakpoints

Debugger == INSTANCE CallLog

writerVars == <<log, calls, open, file>>
readerVars == <<read, reader>>
loopVars   == <<main, batch, rows, stack>>
vars == <<writerVars, readerVars, queue, loopVars, db, hit_count>>

Tables == {"info", "breakpoint", "event", "allocation"}

Info(exit)     == [stream |-> "info", exit |-> exit]
Bp(id)         == [stream |-> "breakpoint", id |-> id]
Event(e, id)   == [stream |-> "event", entry |-> e, bp |-> id]
Allocation(n)  == [stream |-> "allocation", number |-> n]
EndOfStream    == [stream |-> "eos"]

\* The messages of one stream.
Of(s, stream) ==
    LET kept[n \in 0 .. Len(s)] ==
            IF n = 0 THEN <<>>
            ELSE IF s[n].stream = stream THEN Append(kept[n - 1], s[n]) ELSE kept[n - 1]
    IN  kept[Len(s)]

Count(s, stream) == Len(Of(s, stream))
Ended            == file[Len(file)] \in {Info(TRUE), EndOfStream}

-----------------------------------------------------------------------------
(***************************************************************************)
(* The file, as the debugger writes it.                                    *)
(***************************************************************************)
WriteBreakpoint ==
    /\ ~Ended
    /\ Count(file, "breakpoint") < MaxBreakpoints
    /\ file' = Append(file, Bp(Count(file, "breakpoint") + 1))
    /\ UNCHANGED <<log, calls, open>>

\* A breakpoint was sent before it can be hit.
WriteEvent ==
    /\ ~Ended
    /\ Debugger!Next
    /\ Len(log') <= MaxEvents
    /\ \E id \in 1 .. Count(file, "breakpoint") :
        file' = file \o [i \in 1 .. Len(log') - Len(log) |-> Event(log'[Len(log) + i], id)]

WriteAllocation ==
    /\ ~Ended
    /\ Count(file, "allocation") < MaxAllocations
    /\ file' = Append(file, Allocation(Count(file, "allocation") + 1))
    /\ UNCHANGED <<log, calls, open>>

\* The program has exited; then the stream is closed.  (The debugger may also die.)
WriteExit ==
    /\ ~Ended
    /\ file' = Append(file, Info(TRUE))
    /\ UNCHANGED <<log, calls, open>>

WriteEnd ==
    /\ file[Len(file)] = Info(TRUE)
    /\ file' = Append(file, EndOfStream)
    /\ UNCHANGED <<log, calls, open>>

Write ==
    /\ \/ WriteBreakpoint
       \/ WriteEvent
       \/ WriteAllocation
       \/ WriteExit
       \/ WriteEnd
    /\ UNCHANGED <<readerVars, queue, loopVars, db, hit_count>>

-----------------------------------------------------------------------------
(***************************************************************************)
(* The reader task.                                                        *)
(***************************************************************************)
AfterEnd == "ended"

\* The next message; StreamEnded ends the task, which drops the sender.
ReadNext ==
    /\ reader = "next"
    /\ read < Len(file)
    /\ IF file[read + 1] = EndOfStream
       THEN reader' = AfterEnd /\ UNCHANGED read
       ELSE reader' = "send" /\ read' = read + 1
    /\ UNCHANGED <<writerVars, queue, loopVars, db, hit_count>>

\* (mutant: the channel takes one message too many)
HasRoom_OffByOne == Len(queue) <= QueueSize

HasRoom == Len(queue) < QueueSize

\* If the queue is full, we'll wait.
Send ==
    /\ reader = "send"
    /\ HasRoom
    /\ queue' = Append(queue, file[read])
    /\ reader' = "next"
    /\ UNCHANGED <<writerVars, read, loopVars, db, hit_count>>

-----------------------------------------------------------------------------
(***************************************************************************)
(* The main loop.                                                          *)
(***************************************************************************)
\* while !receiver.is_empty() || !receiver.is_disconnected()
IsEmpty ==
    /\ main = "is_empty"
    /\ main' = IF queue = <<>> THEN "is_disconnected" ELSE "drain"
    /\ UNCHANGED <<writerVars, readerVars, queue, batch, rows, stack, db, hit_count>>

IsDisconnected ==
    /\ main = "is_disconnected"
    /\ main' = IF reader = "ended" THEN "end" ELSE "drain"
    /\ UNCHANGED <<writerVars, readerVars, queue, batch, rows, stack, db, hit_count>>

\* (mutant: a single message is left for the next turn, and gone)
AfterDrain_MoreThanOne(messages) ==
    IF Len(messages) > 1 THEN "process" ELSE "is_empty"

\* A single message waits for more, none sleeps.
AfterDrain(messages) ==
    CASE Len(messages) = 0 -> "is_empty"
      [] Len(messages) = 1 -> "wait"
      [] OTHER             -> "process"

\* Take all messages currently buffered in the queue, but do not wait.
Drain ==
    /\ main = "drain"
    /\ batch' = queue
    /\ queue' = <<>>
    /\ main' = AfterDrain(queue)
    /\ UNCHANGED <<writerVars, readerVars, rows, stack, db, hit_count>>

\* (mutant: what came later goes first)
Chain_Swapped(first, later) == later \o first

Chain(first, later) == first \o later

WaitForMore ==
    /\ main = "wait"
    /\ batch' = Chain(batch, queue)
    /\ queue' = <<>>
    /\ main' = "process"
    /\ UNCHANGED <<writerVars, readerVars, rows, stack, db, hit_count>>

NoRows == [table \in Tables |-> <<>>]

Take == batch' = Tail(batch)

Collect(row, table) == rows' = [rows EXCEPT ![table] = Append(@, row)]

\* debugger_info is saved at once: inserted, or updated on exit, which fails
\* when there is no row to update.
SaveInfo(m) ==
    /\ m.stream = "info"
    /\ IF m.exit /\ db["info"] = <<>>
       THEN main' = "failed" /\ UNCHANGED db
       ELSE /\ db' = [db EXCEPT !["info"] = IF m.exit THEN <<m>> ELSE Append(@, m)]
            /\ UNCHANGED main
    /\ UNCHANGED <<rows, stack>>

CollectPlain(m) ==
    /\ m.stream \in {"breakpoint", "allocation"}
    /\ Collect(m, m.stream)
    /\ UNCHANGED <<main, stack, db>>

\* (mutant: the outermost call is taken for the caller)
Caller_Outermost(t) == IF stack[t] = <<>> THEN 0 ELSE stack[t][1]

\* The innermost call of a thread, 0 if there is none.
Caller(t) == IF stack[t] = <<>> THEN 0 ELSE stack[t][Len(stack[t])]

Row(m, parent) == [stream |-> "event", entry |-> m.entry, bp |-> m.bp, parent |-> parent]

\* A call's parent is the innermost call of its thread, if there is one.
CollectCall(m) ==
    LET t == m.entry.thread
    IN  /\ m.stream = "event" /\ m.entry.type = "call"
        /\ Collect(Row(m, Caller(t)), "event")
        /\ stack' = [stack EXCEPT ![t] = Append(@, m.entry.frame_id)]
        /\ UNCHANGED <<main, db>>

\* (mutant: the frame stays on the stack)
Popped_Kept(frames) == frames

Popped(frames) == SubSeq(frames, 1, Len(frames) - 1)

\* A return must be of the innermost call: "Thread not found", "Stack frame empty".
CollectReturn(m) ==
    LET t == m.entry.thread
    IN  /\ m.stream = "event" /\ m.entry.type = "return"
        /\ IF stack[t] = <<>> \/ Caller(t) # m.entry.frame_id
           THEN main' = "failed" /\ UNCHANGED <<rows, stack>>
           ELSE /\ stack' = [stack EXCEPT ![t] = Popped(@)]
                /\ Collect(Row(m, 0), "event")
                /\ UNCHANGED main
        /\ UNCHANGED db

CollectBreakpoint(m) ==
    /\ m.stream = "event" /\ m.entry.type = "breakpoint"
    /\ Collect(Row(m, 0), "event")
    /\ UNCHANGED <<main, stack, db>>

ProcessMessage ==
    /\ main = "process"
    /\ batch # <<>>
    /\ Take
    /\ LET m == Head(batch)
       IN  SaveInfo(m) \/ CollectPlain(m) \/ CollectCall(m) \/ CollectReturn(m)
             \/ CollectBreakpoint(m)
    /\ UNCHANGED <<writerVars, readerVars, queue, hit_count>>

Insert(table) ==
    /\ db' = [db EXCEPT ![table] = @ \o rows[table]]
    /\ rows' = [rows EXCEPT ![table] = <<>>]
    /\ UNCHANGED <<writerVars, readerVars, queue, batch, stack>>

InsertBreakpoints ==
    /\ main = "process" /\ batch = <<>>
    /\ Insert("breakpoint")
    /\ hit_count' = hit_count \o [i \in 1 .. Len(rows["breakpoint"]) |-> 0]
    /\ main' = "events"

\* (mutant: the hits of the last batch are set, not added)
Counted_Set(id, hits) == hits

Counted(id, hits) == hit_count[id] + hits

HitsIn(events, id) == Cardinality({i \in DOMAIN events : events[i].bp = id})

InsertEvents ==
    /\ main = "events"
    /\ db' = [db EXCEPT !["event"] = @ \o rows["event"]]
    /\ main' = "hits"
    /\ UNCHANGED <<writerVars, readerVars, queue, batch, rows, stack, hit_count>>

\* An update in place: a breakpoint without a row would be passed over.
IncHitCount ==
    /\ main = "hits"
    /\ hit_count' = [id \in DOMAIN hit_count |->
                        IF HitsIn(rows["event"], id) = 0 THEN hit_count[id]
                        ELSE Counted(id, HitsIn(rows["event"], id))]
    /\ rows' = [rows EXCEPT !["event"] = <<>>]
    /\ main' = "allocations"
    /\ UNCHANGED <<writerVars, readerVars, queue, batch, stack, db>>

InsertAllocations ==
    /\ main = "allocations"
    /\ Insert("allocation")
    /\ main' = "is_empty"
    /\ UNCHANGED hit_count

\* The database is closed and the reader task, if need be, waited for.
End ==
    /\ main = "end"
    /\ reader = "ended"
    /\ main' = "finished"
    /\ UNCHANGED <<writerVars, readerVars, queue, batch, rows, stack, db, hit_count>>

Loop ==
    \/ IsEmpty \/ IsDisconnected \/ Drain \/ WaitForMore \/ ProcessMessage
    \/ InsertBreakpoints \/ InsertEvents \/ IncHitCount \/ InsertAllocations
    \/ End

Done == main \in {"finished", "failed"} /\ UNCHANGED vars

-----------------------------------------------------------------------------
Init ==
    /\ Debugger!Init
    /\ file = <<Info(FALSE), Bp(1)>>
    /\ read = 0
    /\ reader = "next"
    /\ queue = <<>>
    /\ main = "is_empty"
    /\ batch = <<>>
    /\ rows = NoRows
    /\ stack = [t \in Threads |-> <<>>]
    /\ db = NoRows
    /\ hit_count = <<>>

Next == Write \/ ReadNext \/ Send \/ Loop \/ Done

\* The tasks get their turns; nothing obliges the debugger to write.
Spec == Init /\ [][Next]_vars /\ WF_vars(ReadNext) /\ WF_vars(Send) /\ WF_vars(Loop)

-----------------------------------------------------------------------------
(***************************************************************************)
(* What the database is worth.                                             *)
(***************************************************************************)
Entries  == [type : {"call", "return", "breakpoint"}, thread : Threads,
             frame_id : 0 .. MaxEvents]
Messages == {Info(TRUE), Info(FALSE), EndOfStream}
                \cup {Bp(id) : id \in 1 .. MaxBreakpoints}
                \cup {Allocation(n) : n \in 1 .. MaxAllocations}
                \cup {Event(e, id) : e \in Entries, id \in 1 .. MaxBreakpoints}

\* Every variable has its type; the channel keeps to its capacity.
TypeOK ==
    /\ file \in Seq(Messages)
    /\ read \in 0 .. Len(file)
    /\ reader \in {"next", "send", "ended"}
    /\ queue \in Seq(Messages) /\ Len(queue) <= QueueSize
    /\ main \in {"is_empty", "is_disconnected", "drain", "wait", "process", "events",
                 "hits", "allocations", "end", "finished", "failed"}
    /\ batch \in Seq(Messages)
    /\ DOMAIN rows = Tables /\ DOMAIN db = Tables
    /\ stack \in [Threads -> Seq(1 .. MaxEvents)]
    /\ hit_count \in Seq(0 .. MaxEvents)

\* A row without what the indexer adds to it.
Source(row) == IF row.stream = "event" THEN Event(row.entry, row.bp) ELSE row

InFlight == batch \o queue \o (IF reader = "send" THEN <<file[read]>> ELSE <<>>)

\* The rows of a table, those of the batch and the messages on their way to it.
Indexed(table) ==
    LET inserted == main = "hits" /\ table = "event"
        known    == db[table] \o (IF inserted THEN <<>> ELSE rows[table])
    IN  [i \in DOMAIN known |-> Source(known[i])] \o Of(InFlight, table)

\* On the way from the file to a table no message is lost, doubled or overtaken
\* by another one (the reader task, the channel, drain and batch).
NothingLostOrReordered ==
    main # "failed" =>
        \A table \in Tables \ {"info"} :
            Indexed(table) = Of(SubSeq(file, 1, read), table)

\* Between two batches, the hit count of a breakpoint is the number of its events
\* in the database (insert_events, inc_hit_count).
HitCountsMatch ==
    main \in {"is_empty", "is_disconnected", "drain", "wait", "end", "finished"} =>
        \A id \in 1 .. MaxBreakpoints :
            HitsIn(db["event"], id) = IF id \in DOMAIN hit_count THEN hit_count[id] ELSE 0

\* The call that is innermost in a thread before the i-th event of a log, by the
\* events alone: the last call before it that no event before it returns from.
CallerInLog(events, i) ==
    LET e == events[i].entry
        OpenAt(j) == /\ events[j].entry.thread = e.thread
                     /\ events[j].entry.type = "call"
                     /\ \A k \in j + 1 .. i - 1 :
                            events[k].entry # [events[j].entry EXCEPT !.type = "return"]
        calling == {j \in 1 .. i - 1 : OpenAt(j)}
    IN  IF calling = {} THEN 0
        ELSE LET last == CHOOSE j \in calling : \A k \in calling : k <= j
             IN  events[last].entry.frame_id

\* The parent of a call in the database is the call it was made from, however the
\* stream was cut into batches ("reconstructs the call stack for each thread",
\* indexer/README.md:14).
ParentsAreCallers ==
    \A i \in DOMAIN db["event"] :
        db["event"][i].entry.type = "call" =>
            db["event"][i].parent = CallerInLog(db["event"], i)

\* Neither the assertion on returns nor the update of the exit code fails.
NeverFails == main # "failed"

\* While the file grows, its messages reach the database (or the stream has ended).
EventsAreIndexed ==
    \A n \in 1 .. MaxEvents :
        (Len(log) >= n) ~> (Len(db["event"]) >= n \/ main \in {"end", "finished"})

\* When the stream has ended, so does the indexer.
IndexerEnds == (file[Len(file)] = EndOfStream) ~> (main = "finished")

\* The indexer waits neither for its own task nor for messages it has.
IndexingGoesOn == EventsAreIndexed /\ IndexerEnds

\* The database of an indexer that has finished holds the whole stream.
FinishedIsComplete ==
    main = "finished" => Len(db["event"]) = Len(log) /\ db["info"] = <<Info(TRUE)>>
=============================================================================
