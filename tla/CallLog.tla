------------------------------ MODULE CallLog ------------------------------
(***************************************************************************)
(* What the event stream promises its readers, for each thread: calls are  *)
(* numbered 1, 2, 3, ...; a return closes the innermost open call; a       *)
(* breakpoint is charged to the innermost open call, or to 0 if there is   *)
(* none.  The indexer's batch() (indexer/src/main.rs:176-209) relies on    *)
(* exactly this: it asserts that a return pops the call it names.          *)
(***************************************************************************)
EXTENDS Naturals, Sequences

CONSTANT Threads

VARIABLES
    log,    \* the events, as [type, thread, frame_id]
    calls,  \* per thread: calls made
    open    \* per thread: calls not returned, innermost last

logVars == <<log, calls, open>>

Entry(type, t, id) == [type |-> type, thread |-> t, frame_id |-> id]
Innermost(t)       == IF open[t] = <<>> THEN 0 ELSE open[t][Len(open[t])]

Init ==
    /\ log = <<>>
    /\ calls = [t \in Threads |-> 0]
    /\ open = [t \in Threads |-> <<>>]

Call(t) ==
    /\ calls' = [calls EXCEPT ![t] = @ + 1]
    /\ open' = [open EXCEPT ![t] = Append(@, calls[t] + 1)]
    /\ log' = Append(log, Entry("call", t, calls[t] + 1))

Return(t) ==
    /\ open[t] # <<>>
    /\ open' = [open EXCEPT ![t] = SubSeq(@, 1, Len(@) - 1)]
    /\ log' = Append(log, Entry("return", t, Innermost(t)))
    /\ UNCHANGED calls

CallAndReturn(t) ==
    /\ calls' = [calls EXCEPT ![t] = @ + 1]
    /\ log' = log \o <<Entry("call", t, calls[t] + 1), Entry("return", t, calls[t] + 1)>>
    /\ UNCHANGED open

Mark(t) ==
    /\ log' = Append(log, Entry("breakpoint", t, Innermost(t)))
    /\ UNCHANGED <<calls, open>>

Next == \E t \in Threads : Call(t) \/ Return(t) \/ CallAndReturn(t) \/ Mark(t)

Spec == Init /\ [][Next]_logVars
=============================================================================
