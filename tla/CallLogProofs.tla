---------------------------- MODULE CallLogProofs ----------------------------
(***************************************************************************)
(* Whatever the program does, caught panics, lost hits and repeated ones   *)
(* included, the event stream is a log of CallLog: each step of Debugger   *)
(* is a step of CallLog, or none.  So its returns come after their calls;  *)
(* and if the program is orderly, what is open in the stream is the stack  *)
(* of the program, and breakpoints are charged to its top.                 *)
(***************************************************************************)
EXTENDS MirrorProofs, FunctionTheorems, FiniteSetTheorems

Entries == [type : {"call", "return", "breakpoint"}, thread : Threads, frame_id : Nat]

EntryOf(e) == [type |-> e.type, thread |-> e.thread, frame_id |-> e.frame_id]
LogOf(s)   == [i \in DOMAIN s |->
                [type |-> s[i].type, thread |-> s[i].thread, frame_id |-> s[i].frame_id]]
OpenOf(a)  == [i \in DOMAIN a |-> a[i].frame_id]

-----------------------------------------------------------------------------
(***************************************************************************)
(* The mapping and the operators on sequences.                             *)
(***************************************************************************)
LEMMA EntryTypes == \A e \in Events : EntryOf(e) \in Entries
  BY DEF Events, EntryOf, Entries

LEMMA LogType ==
    ASSUME NEW s \in Seq(Events)
    PROVE  /\ LogOf(s) \in Seq(Entries)
           /\ Len(LogOf(s)) = Len(s)
           /\ \A i \in 1 .. Len(s) : LogOf(s)[i] = EntryOf(s[i])
<1>1. \A i \in 1 .. Len(s) : s[i] \in Events /\ EntryOf(s[i]) \in Entries
  BY EntryTypes
<1>2. LogOf(s) = [i \in 1 .. Len(s) |-> EntryOf(s[i])]
  BY DEF LogOf, EntryOf
<1>3. Len(s) \in Nat
  OBVIOUS
<1>4. QED BY <1>1, <1>2, <1>3

\* Mapping and appending commute.
LEMMA LogOfAppend ==
    ASSUME NEW s \in Seq(Events), NEW e \in Events
    PROVE  LogOf(Append(s, e)) = Append(LogOf(s), EntryOf(e))
<1>1. /\ Append(s, e) \in Seq(Events) /\ Len(Append(s, e)) = Len(s) + 1
      /\ Append(s, e)[Len(s) + 1] = e
      /\ \A i \in 1 .. Len(s) : Append(s, e)[i] = s[i]
  BY AppendProperties
<1>2. /\ LogOf(s) \in Seq(Entries) /\ Len(LogOf(s)) = Len(s) /\ EntryOf(e) \in Entries
      /\ \A i \in 1 .. Len(s) : LogOf(s)[i] = EntryOf(s[i])
  BY LogType, EntryTypes
<1>3. /\ Append(LogOf(s), EntryOf(e)) \in Seq(Entries)
      /\ Len(Append(LogOf(s), EntryOf(e))) = Len(s) + 1
      /\ Append(LogOf(s), EntryOf(e))[Len(s) + 1] = EntryOf(e)
      /\ \A i \in 1 .. Len(s) : Append(LogOf(s), EntryOf(e))[i] = EntryOf(s[i])
  BY <1>2, AppendProperties
<1>4. /\ LogOf(Append(s, e)) \in Seq(Entries) /\ Len(LogOf(Append(s, e))) = Len(s) + 1
      /\ \A i \in 1 .. Len(s) + 1 : LogOf(Append(s, e))[i] = EntryOf(Append(s, e)[i])
  BY <1>1, LogType
<1>5. ASSUME NEW i \in 1 .. Len(s) + 1
      PROVE  LogOf(Append(s, e))[i] = Append(LogOf(s), EntryOf(e))[i]
  <2>1. Len(s) \in Nat
    OBVIOUS
  <2>2. CASE i = Len(s) + 1
    BY <1>1, <1>3, <1>4, <2>2
  <2>3. CASE i \in 1 .. Len(s)
    BY <1>1, <1>3, <1>4, <2>3
  <2>4. i = Len(s) + 1 \/ i \in 1 .. Len(s)
    BY <2>1
  <2>5. QED BY <2>2, <2>3, <2>4, Zenon
<1>6. QED BY <1>3, <1>4, <1>5, SeqEqual

LEMMA OpenType ==
    ASSUME NEW a \in Seq(ActiveFrames)
    PROVE  /\ OpenOf(a) \in Seq(Nat)
           /\ Len(OpenOf(a)) = Len(a)
           /\ \A i \in 1 .. Len(a) : OpenOf(a)[i] = a[i].frame_id
<1>1. \A i \in 1 .. Len(a) : a[i] \in ActiveFrames /\ a[i].frame_id \in Nat
  <2>1. \A e \in ActiveFrames : e.frame_id \in Nat
    BY DEF ActiveFrames
  <2>2. \A i \in 1 .. Len(a) : a[i] \in ActiveFrames
    OBVIOUS
  <2>3. QED BY <2>1, <2>2
<1>2. OpenOf(a) = [i \in 1 .. Len(a) |-> a[i].frame_id] /\ Len(a) \in Nat
  BY DEF OpenOf
<1>3. OpenOf(a) \in [1 .. Len(a) -> Nat]
  BY <1>1, <1>2
<1>4. \A i \in 1 .. Len(a) : OpenOf(a)[i] = a[i].frame_id
  BY <1>2
<1>5. Len(a) \in Nat
  OBVIOUS
<1>6. OpenOf(a) \in Seq(Nat) /\ Len(OpenOf(a)) = Len(a)
  BY <1>3, <1>5
<1>7. QED BY <1>4, <1>6

LEMMA OpenOfAppend ==
    ASSUME NEW a \in Seq(ActiveFrames), NEW e \in ActiveFrames
    PROVE  OpenOf(Append(a, e)) = Append(OpenOf(a), e.frame_id)
<1>1. /\ Append(a, e) \in Seq(ActiveFrames) /\ Len(Append(a, e)) = Len(a) + 1
      /\ Append(a, e)[Len(a) + 1] = e
      /\ \A i \in 1 .. Len(a) : Append(a, e)[i] = a[i]
  BY AppendProperties
<1>2. /\ OpenOf(a) \in Seq(Nat) /\ Len(OpenOf(a)) = Len(a) /\ e.frame_id \in Nat
      /\ \A i \in 1 .. Len(a) : OpenOf(a)[i] = a[i].frame_id
  BY OpenType DEF ActiveFrames
<1>3. /\ Append(OpenOf(a), e.frame_id) \in Seq(Nat)
      /\ Len(Append(OpenOf(a), e.frame_id)) = Len(a) + 1
      /\ Append(OpenOf(a), e.frame_id)[Len(a) + 1] = e.frame_id
      /\ \A i \in 1 .. Len(a) : Append(OpenOf(a), e.frame_id)[i] = a[i].frame_id
  BY <1>2, AppendProperties
<1>4. /\ OpenOf(Append(a, e)) \in Seq(Nat) /\ Len(OpenOf(Append(a, e))) = Len(a) + 1
      /\ \A i \in 1 .. Len(a) + 1 : OpenOf(Append(a, e))[i] = Append(a, e)[i].frame_id
  BY <1>1, OpenType
<1>5. ASSUME NEW i \in 1 .. Len(a) + 1
      PROVE  OpenOf(Append(a, e))[i] = Append(OpenOf(a), e.frame_id)[i]
  <2>1. Len(a) \in Nat
    OBVIOUS
  <2>2. CASE i = Len(a) + 1
    BY <1>1, <1>3, <1>4, <2>2
  <2>3. CASE i \in 1 .. Len(a)
    BY <1>1, <1>3, <1>4, <2>3
  <2>4. i = Len(a) + 1 \/ i \in 1 .. Len(a)
    BY <2>1
  <2>5. QED BY <2>2, <2>3, <2>4, Zenon
<1>6. QED BY <1>3, <1>4, <1>5, SeqEqual

LEMMA OpenOfOuter ==
    ASSUME NEW a \in Seq(ActiveFrames), a # <<>>
    PROVE  OpenOf(Outer(a)) = SubSeq(OpenOf(a), 1, Len(OpenOf(a)) - 1)
<1>1. /\ Outer(a) \in Seq(ActiveFrames) /\ Len(Outer(a)) = Len(a) - 1
      /\ \A i \in 1 .. Len(a) - 1 : Outer(a)[i] = a[i]
  BY OuterProperties
<1>2. /\ OpenOf(a) \in Seq(Nat) /\ Len(OpenOf(a)) = Len(a)
      /\ \A i \in 1 .. Len(a) : OpenOf(a)[i] = a[i].frame_id
  BY OpenType
<1>3. OpenOf(a) # <<>> /\ Len(a) \in Nat
  BY <1>2
<1>4. /\ Outer(OpenOf(a)) \in Seq(Nat) /\ Len(Outer(OpenOf(a))) = Len(a) - 1
      /\ \A i \in 1 .. Len(a) - 1 : Outer(OpenOf(a))[i] = OpenOf(a)[i]
  BY <1>2, <1>3, OuterProperties
<1>5. /\ OpenOf(Outer(a)) \in Seq(Nat) /\ Len(OpenOf(Outer(a))) = Len(a) - 1
      /\ \A i \in 1 .. Len(a) - 1 : OpenOf(Outer(a))[i] = Outer(a)[i].frame_id
  BY <1>1, OpenType
<1>6. ASSUME NEW i \in 1 .. Len(a) - 1 PROVE OpenOf(Outer(a))[i] = Outer(OpenOf(a))[i]
  <2>1. i \in 1 .. Len(a)
    BY <1>3
  <2>2. QED BY <1>1, <1>2, <1>4, <1>5, <2>1
<1>7. OpenOf(Outer(a)) = Outer(OpenOf(a))
  BY <1>4, <1>5, <1>6, SeqEqual
<1>8. QED BY <1>7 DEF Outer

-----------------------------------------------------------------------------
(***************************************************************************)
(* Steps of the log.                                                       *)
(***************************************************************************)
\* The variables of CallLog, as the debugger has them.
log   == LogOf(event_stream)
calls == frame_id
open  == [u \in Threads |-> OpenOf(active_frames[u])]

\* The variables of Log are these.
LEMMA LogVariables ==
    /\ Log!Init <=> log = <<>> /\ calls = [u \in Threads |-> 0]
                    /\ open = [u \in Threads |-> <<>>]
    /\ UNCHANGED callVars => UNCHANGED Log!logVars
  BY DEF Log!Init, Log!logVars, log, calls, open, LogOf, OpenOf, callVars

\* A call that is pushed, that returns at once, a return and a breakpoint.
LEMMA LogCall ==
    ASSUME CallTypeOK, NEW t \in Threads, NEW e \in Events, NEW f \in ActiveFrames,
           e.type = "call", e.thread = t, e.frame_id = frame_id[t] + 1,
           f.frame_id = frame_id[t] + 1,
           frame_id' = [frame_id EXCEPT ![t] = @ + 1],
           event_stream' = Append(event_stream, e),
           active_frames' = [active_frames EXCEPT ![t] = Append(@, f)]
    PROVE  Log!Call(t)
<1>1. log' = Append(log, EntryOf(e))
  BY LogOfAppend DEF log, CallTypeOK
<1>2. EntryOf(e) = Log!Entry("call", t, calls[t] + 1)
  BY DEF EntryOf, Log!Entry, calls
<1>3. open' = [open EXCEPT ![t] = Append(open[t], calls[t] + 1)]
  <2>1. OpenOf(Append(active_frames[t], f)) = Append(OpenOf(active_frames[t]), frame_id[t] + 1)
    BY OpenOfAppend DEF CallTypeOK
  <2>2. QED BY <2>1 DEF open, calls, CallTypeOK
<1>4. QED BY <1>1, <1>2, <1>3 DEF Log!Call, log, calls, open, LogOf, OpenOf

\* Two events are appended one after the other.
LEMMA ConcatOfTwo ==
    ASSUME NEW S, NEW s \in Seq(S), NEW a \in S, NEW b \in S
    PROVE  s \o <<a, b>> = Append(Append(s, a), b)
<1>1. /\ Append(s, a) \in Seq(S) /\ Len(Append(s, a)) = Len(s) + 1
      /\ Append(s, a)[Len(s) + 1] = a
      /\ \A i \in 1 .. Len(s) : Append(s, a)[i] = s[i]
  BY AppendProperties
<1>2. /\ Append(Append(s, a), b) \in Seq(S)
      /\ Len(Append(Append(s, a), b)) = Len(Append(s, a)) + 1
      /\ Append(Append(s, a), b)[Len(Append(s, a)) + 1] = b
      /\ \A i \in 1 .. Len(Append(s, a)) : Append(Append(s, a), b)[i] = Append(s, a)[i]
  BY <1>1, AppendProperties
<1>3. <<a, b>> \in Seq(S) /\ Len(<<a, b>>) = 2 /\ <<a, b>>[1] = a /\ <<a, b>>[2] = b
  OBVIOUS
<1>4. /\ s \o <<a, b>> \in Seq(S) /\ Len(s \o <<a, b>>) = Len(s) + 2
      /\ \A i \in 1 .. Len(s) + 2 : (s \o <<a, b>>)[i] =
            IF i <= Len(s) THEN s[i] ELSE <<a, b>>[i - Len(s)]
  BY <1>3, ConcatProperties
<1>5. Len(s) \in Nat /\ Len(Append(Append(s, a), b)) = Len(s) + 2
  BY <1>1, <1>2
<1>6. ASSUME NEW i \in 1 .. Len(s) + 2
      PROVE  (s \o <<a, b>>)[i] = Append(Append(s, a), b)[i]
  <2>1. CASE i \in 1 .. Len(s)
    BY <1>1, <1>2, <1>4, <1>5, <2>1
  <2>2. CASE i = Len(s) + 1
    BY <1>1, <1>2, <1>3, <1>4, <1>5, <2>2
  <2>3. CASE i = Len(s) + 2
    BY <1>1, <1>2, <1>3, <1>4, <1>5, <2>3
  <2>4. i \in 1 .. Len(s) \/ i = Len(s) + 1 \/ i = Len(s) + 2
    BY <1>5
  <2>5. QED BY <2>1, <2>2, <2>3, <2>4, Zenon
<1>7. QED BY <1>2, <1>4, <1>5, <1>6, SeqEqual

LEMMA LogCallAndReturn ==
    ASSUME CallTypeOK, NEW t \in Threads, NEW e \in Events, NEW r \in Events,
           e.type = "call", e.thread = t, e.frame_id = frame_id[t] + 1,
           r.type = "return", r.thread = t, r.frame_id = frame_id[t] + 1,
           frame_id' = [frame_id EXCEPT ![t] = @ + 1],
           event_stream' = event_stream \o <<e, r>>,
           UNCHANGED active_frames
    PROVE  Log!CallAndReturn(t)
<1>1. /\ event_stream \in Seq(Events)
      /\ event_stream' = Append(Append(event_stream, e), r)
      /\ Append(event_stream, e) \in Seq(Events)
  BY ConcatOfTwo, AppendProperties DEF CallTypeOK
<1>2. log' = Append(Append(log, EntryOf(e)), EntryOf(r))
  BY <1>1, LogOfAppend DEF log
<1>3. log \in Seq(Entries) /\ EntryOf(e) \in Entries /\ EntryOf(r) \in Entries
  BY <1>1, LogType, EntryTypes DEF log
<1>4. log' = log \o <<EntryOf(e), EntryOf(r)>>
  BY <1>2, <1>3, ConcatOfTwo
<1>5. /\ EntryOf(e) = Log!Entry("call", t, calls[t] + 1)
      /\ EntryOf(r) = Log!Entry("return", t, calls[t] + 1)
  BY DEF EntryOf, Log!Entry, calls
<1>6. open' = open
  BY DEF open
<1>7. QED BY <1>4, <1>5, <1>6 DEF Log!CallAndReturn, log, calls, open, LogOf, OpenOf

\* The innermost open call is the last frame's.
LEMMA InnermostFrame ==
    ASSUME CallTypeOK, NEW t \in Threads
    PROVE  /\ open[t] = <<>> <=> ~HasFrame(t)
           /\ Log!Innermost(t) = IF HasFrame(t) THEN LastFrame(t).frame_id ELSE 0
<1>1. /\ active_frames[t] \in Seq(ActiveFrames) /\ open[t] = OpenOf(active_frames[t])
      /\ open[t] \in Seq(Nat) /\ Len(open[t]) = Len(active_frames[t])
      /\ \A i \in 1 .. Len(active_frames[t]) : open[t][i] = active_frames[t][i].frame_id
  BY OpenType DEF CallTypeOK, open
<1>2. open[t] = <<>> <=> ~HasFrame(t)
  BY <1>1 DEF HasFrame
<1>3. Log!Innermost(t) = IF open[t] = <<>> THEN 0 ELSE open[t][Len(open[t])]
  BY DEF Log!Innermost, open, OpenOf
<1>4. HasFrame(t) => open[t][Len(open[t])] = LastFrame(t).frame_id
  <2>1. HasFrame(t) => Len(active_frames[t]) \in 1 .. Len(active_frames[t])
    BY <1>1, LastInRange DEF HasFrame
  <2>2. QED BY <1>1, <2>1 DEF LastFrame
<1>5. QED BY <1>2, <1>3, <1>4

LEMMA LogReturn ==
    ASSUME CallTypeOK, NEW t \in Threads, NEW r \in Events, HasFrame(t),
           r.type = "return", r.thread = t, r.frame_id = LastFrame(t).frame_id,
           UNCHANGED frame_id,
           event_stream' = Append(event_stream, r),
           active_frames' = [active_frames EXCEPT ![t] = Outer(@)]
    PROVE  Log!Return(t)
<1>1. log' = Append(log, EntryOf(r))
  BY LogOfAppend DEF log, CallTypeOK
<1>2. EntryOf(r) = Log!Entry("return", t, Log!Innermost(t))
  BY InnermostFrame DEF EntryOf, Log!Entry
<1>3. open' = [open EXCEPT ![t] = SubSeq(open[t], 1, Len(open[t]) - 1)]
  <2>1. OpenOf(Outer(active_frames[t])) =
            SubSeq(OpenOf(active_frames[t]), 1, Len(OpenOf(active_frames[t])) - 1)
    BY OpenOfOuter DEF CallTypeOK, HasFrame
  <2>2. QED BY <2>1 DEF open, CallTypeOK
<1>4. open[t] # <<>>
  BY InnermostFrame
<1>5. QED BY <1>1, <1>2, <1>3, <1>4 DEF Log!Return, log, calls, open, LogOf, OpenOf

LEMMA LogMark ==
    ASSUME CallTypeOK, NEW t \in Threads, NEW e \in Events,
           e.type = "breakpoint", e.thread = t,
           e.frame_id = (IF HasFrame(t) THEN LastFrame(t).frame_id ELSE 0),
           UNCHANGED <<frame_id, active_frames>>,
           event_stream' = Append(event_stream, e)
    PROVE  Log!Mark(t)
<1>1. log' = Append(log, EntryOf(e))
  BY LogOfAppend DEF log, CallTypeOK
<1>2. EntryOf(e) = Log!Entry("breakpoint", t, Log!Innermost(t))
  BY InnermostFrame DEF EntryOf, Log!Entry
<1>3. open' = open
  BY DEF open
<1>4. QED BY <1>1, <1>2, <1>3 DEF Log!Mark, log, calls, open, LogOf, OpenOf

-----------------------------------------------------------------------------
LEMMA HandledCall ==
    ASSUME TypeInv, NEW t \in Threads, HandleCall(t)
    PROVE  /\ BpId(t) \in Nat /\ NewFrame(t) \in ActiveFrames
           /\ TraceAllocation => ~ReturnsEarly(BpId(t))
<1>1. /\ pc[t] \in Sites /\ BpId(t) \in DOMAIN breakpoints /\ BreakpointFits(BpId(t))
      /\ breakpoints[BpId(t)].pc = pc[t] /\ breakpoints[BpId(t)].type = "FunctionCall"
  BY HandledBreakpoint DEF HandleCall
<1>2. pc[t].kind = "call" /\ BpId(t) \in Nat
  BY <1>1 DEF BreakpointFits, TypeInv, TypeOK, TableTypeOK
<1>3. pc[t].at \in Functions /\ Sp(t) \in Int /\ frame_id[t] \in Nat
  BY <1>1, <1>2, SiteOfCall, SpType DEF TypeInv, TypeOK, CallTypeOK
<1>4. NewFrame(t) \in ActiveFrames
  BY <1>1, <1>3 DEF NewFrame, ActiveFrames
<1>5. TraceAllocation => ~ReturnsEarly(BpId(t))
  BY <1>1, <1>2 DEF BreakpointFits, ReturnsEarly, EXCHANGE_MALLOC, DROP_IN_PLACE
<1>6. QED BY <1>2, <1>4, <1>5

\* A breakpoint that is handled is an entry of the log, or none.
LEMMA LogHandle ==
    ASSUME TraceAllocation, TypeInv, NEW t \in Threads, Handle(t)
    PROVE  [Log!Next]_Log!logVars
<1>1. CallTypeOK
  BY DEF TypeInv, TypeOK
<1>2. UNCHANGED callVars => UNCHANGED Log!logVars
  BY LogVariables
<1>3. CASE HandleCall(t)
  <2>1. BpId(t) \in Nat /\ NewFrame(t) \in ActiveFrames /\ ~ReturnsEarly(BpId(t))
    BY <1>3, HandledCall
  <2>2. CASE SkipCall(t) \/ CallAssertFails(t)
    BY <1>2, <2>2 DEF SkipCall, CallAssertFails
  <2>3. CASE RecordCall(t)
    <3> DEFINE call == CallEvent(t, BpId(t), NewFrame(t))
               ret  == ReturnEvent(t, BpId(t), NewFrame(t))
    <3>1. call \in Events /\ ret \in Events
      BY <2>1, EventTypes
    <3>2. /\ call.type = "call" /\ call.thread = t /\ call.frame_id = frame_id[t] + 1
          /\ ret.type = "return" /\ ret.thread = t /\ ret.frame_id = frame_id[t] + 1
          /\ NewFrame(t).frame_id = frame_id[t] + 1
      BY DEF CallEvent, ReturnEvent, NewFrame
    <3>3. /\ frame_id' = [frame_id EXCEPT ![t] = @ + 1]
          /\ \/ /\ event_stream' = event_stream \o <<call, ret>>
                /\ UNCHANGED active_frames
             \/ /\ event_stream' = Append(event_stream, call)
                /\ active_frames' = [active_frames EXCEPT ![t] = Append(@, NewFrame(t))]
      BY <2>1, <2>3 DEF RecordCall
    <3> HIDE DEF call, ret
    <3>4. Log!CallAndReturn(t) \/ Log!Call(t)
      BY <1>1, <2>1, <3>1, <3>2, <3>3, LogCall, LogCallAndReturn
    <3>5. QED BY <3>4 DEF Log!Next
  <2>4. QED BY <1>3, <2>2, <2>3 DEF HandleCall
<1>4. CASE HandleReturn(t)
  <2>1. CASE RecordReturn(t)
    <3>1. BpId(t) \in Nat /\ HasFrame(t)
      BY <1>4, <2>1, HandledBreakpoint
         DEF HandleReturn, RecordReturn, TypeInv, TypeOK, TableTypeOK
    <3>2. LastFrame(t) \in ActiveFrames
      BY <1>1, <3>1, LastInRange DEF CallTypeOK, HasFrame, LastFrame
    <3>3. ReturnEvent(t, BpId(t), LastFrame(t)) \in Events
      BY <3>1, <3>2, EventTypes
    <3>4. Log!Return(t)
      BY <1>1, <2>1, <3>1, <3>3, LogReturn DEF RecordReturn, ReturnEvent
    <3>5. QED BY <3>4 DEF Log!Next
  <2>2. CASE UNCHANGED callVars
    BY <1>2, <2>2
  <2>3. QED BY <1>4, <2>1, <2>2 DEF HandleReturn, ReturnAssertFails, callVars
<1>5. CASE HandleBreakpoint(t)
  <2>1. BpId(t) \in Nat
    BY <1>5, HandledBreakpoint DEF HandleBreakpoint, TypeInv, TypeOK, TableTypeOK
  <2>2. HasFrame(t) => LastFrame(t).frame_id \in Nat
    <3>1. HasFrame(t) => LastFrame(t) \in ActiveFrames
      BY <1>1, LastInRange DEF CallTypeOK, HasFrame, LastFrame
    <3>2. QED BY <3>1 DEF ActiveFrames
  <2>3. BreakpointEvent(t, BpId(t)) \in Events
    BY <2>1, <2>2 DEF BreakpointEvent, Events
  <2>4. Log!Mark(t)
    BY <1>1, <1>5, <2>3, LogMark DEF HandleBreakpoint, BreakpointEvent
  <2>5. QED BY <2>4 DEF Log!Next
<1>6. CASE HandleExchangeMalloc(t) \/ HandleAfterAllocation(t) \/ HandleDropInPlace(t)
  <2>1. UNCHANGED callVars
    BY <1>6 DEF HandleExchangeMalloc, HandleAfterAllocation, HandleDropInPlace, callVars
  <2>2. QED BY <1>2, <2>1
<1>7. QED BY <1>3, <1>4, <1>5, <1>6 DEF Handle

\* The event stream is a log of CallLog for every program, orderly or not, when
\* allocations are traced; so the indexer can replay it (indexer/src/main.rs:176).
THEOREM KeepsTheCallLog ==
    ASSUME TraceAllocation
    PROVE  Spec => ImplementsCallLog
<1>1. Init => TypeInv /\ Log!Init
  <2>1. Init => log = <<>> /\ calls = [u \in Threads |-> 0] /\ open = [u \in Threads |-> <<>>]
    BY DEF Init, log, calls, open, LogOf, OpenOf
  <2>2. QED BY <2>1, TypeInvInit, LogVariables
<1>2. TypeInv /\ [Next]_vars => TypeInv'
  BY TypeInvNext
<1>3. TypeInv /\ [Next]_vars => [Log!Next]_Log!logVars
  <2> SUFFICES ASSUME TypeInv, [Next]_vars PROVE [Log!Next]_Log!logVars
    OBVIOUS
  <2>1. CASE \E t \in Threads : Handle(t)
    BY <2>1, LogHandle
  <2>2. CASE Program \/ Resume \/ Finish \/ UNCHANGED vars
    <3>1. UNCHANGED callVars
      BY <2>2 DEF Program, Resume, Finish, vars
    <3>2. QED BY <3>1, LogVariables
  <2>3. QED BY <2>1, <2>2 DEF Next, Done
<1>4. QED BY <1>1, <1>2, <1>3, PTL DEF Spec, ImplementsCallLog, Log!Spec

-----------------------------------------------------------------------------
(***************************************************************************)
(* What a reader rebuilds from the stream.                                 *)
(*                                                                         *)
(* Fits ties the event stream s to the recorded frames af and the numbers  *)
(* n of calls made, of every thread: calls are numbered upwards, a call is *)
(* in the stream and not returned exactly as long as its frame is          *)
(* recorded, and a return comes after its call.                            *)
(***************************************************************************)
IsCall(e, t)       == e.type = "call" /\ e.thread = t
IsReturn(e, t, id) == e.type = "return" /\ e.thread = t /\ e.frame_id = id

EventsNumbered(s, n) ==
    \A i \in DOMAIN s : s[i].type \in {"call", "return"} => s[i].frame_id <= n[s[i].thread]

CallsRise(s) ==
    \A t \in Threads : \A i, j \in DOMAIN s :
        IsCall(s[i], t) /\ IsCall(s[j], t) /\ i < j => s[i].frame_id < s[j].frame_id

FramesRise(af, n) ==
    \A t \in Threads : \A j, k \in DOMAIN af[t] :
        /\ af[t][k].frame_id <= n[t]
        /\ j < k => af[t][j].frame_id < af[t][k].frame_id

OpenOnesRecorded(s, af) ==
    \A t \in Threads : \A i \in DOMAIN s :
        IsCall(s[i], t) =>
            \/ \E j \in DOMAIN s : IsReturn(s[j], t, s[i].frame_id)
            \/ \E k \in DOMAIN af[t] : af[t][k].frame_id = s[i].frame_id

RecordedOnesOpen(s, af) ==
    \A t \in Threads : \A k \in DOMAIN af[t] :
        /\ \E i \in DOMAIN s : /\ IsCall(s[i], t)
                               /\ s[i].frame_id = af[t][k].frame_id
                               /\ s[i].fn = af[t][k].fn
        /\ \A j \in DOMAIN s : ~IsReturn(s[j], t, af[t][k].frame_id)

ReturnsFollow(s) ==
    \A i \in DOMAIN s : s[i].type = "return" =>
        \E j \in 1 .. i - 1 : /\ IsCall(s[j], s[i].thread)
                              /\ s[j].frame_id = s[i].frame_id

Fits(s, af, n) ==
    /\ EventsNumbered(s, n)
    /\ CallsRise(s)
    /\ FramesRise(af, n)
    /\ OpenOnesRecorded(s, af)
    /\ RecordedOnesOpen(s, af)
    /\ ReturnsFollow(s)

StreamInv == Fits(event_stream, active_frames, frame_id)

\* One more event: the ones before it stay.
LEMMA OneMore ==
    ASSUME NEW S, NEW s \in Seq(S), NEW e \in S
    PROVE  /\ Append(s, e) \in Seq(S)
           /\ DOMAIN s = 1 .. Len(s) /\ Len(s) \in Nat
           /\ DOMAIN Append(s, e) = 1 .. Len(s) + 1
           /\ Append(s, e)[Len(s) + 1] = e
           /\ \A i \in DOMAIN s : i \in DOMAIN Append(s, e) /\ Append(s, e)[i] = s[i] /\ i < Len(s) + 1
           /\ \A i \in DOMAIN Append(s, e) : i \in DOMAIN s \/ i = Len(s) + 1
  BY AppendProperties

\* A call is sent and its frame recorded, with the next number.
LEMMA FitsCall ==
    ASSUME NEW s \in Seq(Events), NEW af \in [Threads -> Seq(ActiveFrames)],
           NEW n \in [Threads -> Nat], Fits(s, af, n),
           NEW t \in Threads, NEW e \in Events, NEW f \in ActiveFrames,
           IsCall(e, t), e.frame_id = n[t] + 1, f.frame_id = n[t] + 1, e.fn = f.fn
    PROVE  Fits(Append(s, e), [af EXCEPT ![t] = Append(@, f)], [n EXCEPT ![t] = @ + 1])
<1> DEFINE r  == Append(s, e)
           bf == [af EXCEPT ![t] = Append(@, f)]
           m  == [n EXCEPT ![t] = @ + 1]
<1>1. /\ DOMAIN s = 1 .. Len(s) /\ Len(s) \in Nat
      /\ DOMAIN r = 1 .. Len(s) + 1 /\ r[Len(s) + 1] = e
      /\ \A i \in DOMAIN s : i \in DOMAIN r /\ r[i] = s[i] /\ i < Len(s) + 1
      /\ \A i \in DOMAIN r : i \in DOMAIN s \/ i = Len(s) + 1
  BY OneMore
<1>2. /\ DOMAIN af[t] = 1 .. Len(af[t]) /\ Len(af[t]) \in Nat
      /\ DOMAIN bf[t] = 1 .. Len(af[t]) + 1 /\ bf[t][Len(af[t]) + 1] = f
      /\ \A k \in DOMAIN af[t] : k \in DOMAIN bf[t] /\ bf[t][k] = af[t][k] /\ k < Len(af[t]) + 1
      /\ \A k \in DOMAIN bf[t] : k \in DOMAIN af[t] \/ k = Len(af[t]) + 1
  <2>1. bf[t] = Append(af[t], f) /\ af[t] \in Seq(ActiveFrames)
    OBVIOUS
  <2>2. QED BY <2>1, OneMore
<1>3. /\ \A u \in Threads : u # t => bf[u] = af[u] /\ m[u] = n[u]
      /\ m[t] = n[t] + 1 /\ n[t] \in Nat
      /\ \A u \in Threads : m[u] \in Nat /\ n[u] \in Nat /\ n[u] <= m[u]
  OBVIOUS
<1>4. /\ \A i \in DOMAIN s : s[i].frame_id \in Nat /\ s[i].thread \in Threads
      /\ \A u \in Threads : \A k \in DOMAIN af[u] : af[u][k].frame_id \in Nat
  <2>1. \A i \in DOMAIN s : s[i] \in Events
    OBVIOUS
  <2>2. \A u \in Threads : \A k \in DOMAIN af[u] : af[u][k] \in ActiveFrames
    OBVIOUS
  <2>3. QED BY <2>1, <2>2 DEF Events, ActiveFrames
<1>5. EventsNumbered(s, n) /\ CallsRise(s) /\ FramesRise(af, n) /\ OpenOnesRecorded(s, af)
      /\ RecordedOnesOpen(s, af) /\ ReturnsFollow(s)
  BY DEF Fits
<1>6. \A i \in DOMAIN s : s[i].type \in {"call", "return"} /\ s[i].thread = t =>
            s[i].frame_id < n[t] + 1
  BY <1>3, <1>4, <1>5 DEF EventsNumbered
<1> HIDE DEF r, bf, m
<1>7. EventsNumbered(r, m)
  <2>1. ASSUME NEW i \in DOMAIN r, r[i].type \in {"call", "return"}
        PROVE  r[i].frame_id <= m[r[i].thread]
    <3>1. CASE i \in DOMAIN s
      BY <1>1, <1>3, <1>4, <1>5, <2>1, <3>1 DEF EventsNumbered
    <3>2. CASE i = Len(s) + 1
      BY <1>1, <1>3, <3>2 DEF IsCall
    <3>3. QED BY <1>1, <3>1, <3>2
  <2>2. QED BY <2>1 DEF EventsNumbered
<1>8. CallsRise(r)
  <2>1. ASSUME NEW u \in Threads, NEW i \in DOMAIN r, NEW j \in DOMAIN r,
               IsCall(r[i], u), IsCall(r[j], u), i < j
        PROVE  r[i].frame_id < r[j].frame_id
    <3>1. i \in DOMAIN s /\ r[i] = s[i]
      BY <1>1, <2>1
    <3>2. CASE j \in DOMAIN s
      BY <1>1, <1>5, <2>1, <3>1, <3>2 DEF CallsRise
    <3>3. CASE j = Len(s) + 1
      <4>1. u = t /\ r[j].frame_id = n[t] + 1
        BY <1>1, <2>1, <3>3 DEF IsCall
      <4>2. QED BY <1>6, <2>1, <3>1, <4>1 DEF IsCall
    <3>4. QED BY <1>1, <3>2, <3>3
  <2>2. QED BY <2>1 DEF CallsRise
<1>9. FramesRise(bf, m)
  <2>1. ASSUME NEW u \in Threads, NEW j \in DOMAIN bf[u], NEW k \in DOMAIN bf[u]
        PROVE  bf[u][k].frame_id <= m[u] /\ (j < k => bf[u][j].frame_id < bf[u][k].frame_id)
    <3>1. CASE u # t
      BY <1>3, <1>5, <3>1 DEF FramesRise
    <3>2. CASE u = t
      <4>1. \A l \in DOMAIN af[t] : af[t][l].frame_id <= n[t] /\ af[t][l].frame_id \in Nat
        BY <1>4, <1>5 DEF FramesRise
      <4>2. CASE k = Len(af[t]) + 1
        <5>1. bf[u][k].frame_id = n[t] + 1 /\ m[u] = n[t] + 1
          BY <1>2, <1>3, <3>2, <4>2
        <5>2. j < k => j \in DOMAIN af[t]
          BY <1>2, <3>2, <4>2
        <5>3. j < k => bf[u][j].frame_id \in Nat /\ bf[u][j].frame_id <= n[t]
          BY <1>2, <3>2, <4>1, <5>2
        <5>4. QED BY <1>3, <5>1, <5>3
      <4>3. CASE k \in DOMAIN af[t]
        <5>1. bf[u][k].frame_id <= m[u]
          BY <1>2, <1>3, <3>2, <4>1, <4>3
        <5>2. j < k => j \in DOMAIN af[t]
          BY <1>2, <3>2, <4>3
        <5>3. QED BY <1>2, <1>5, <3>2, <4>3, <5>1, <5>2 DEF FramesRise
      <4>4. QED BY <1>2, <3>2, <4>2, <4>3
    <3>3. QED BY <3>1, <3>2
  <2>2. QED BY <2>1 DEF FramesRise
<1>10. OpenOnesRecorded(r, bf)
  <2>1. ASSUME NEW u \in Threads, NEW i \in DOMAIN r, IsCall(r[i], u)
        PROVE  \/ \E j \in DOMAIN r : IsReturn(r[j], u, r[i].frame_id)
               \/ \E k \in DOMAIN bf[u] : bf[u][k].frame_id = r[i].frame_id
    <3>1. CASE i \in DOMAIN s
      <4>1. r[i] = s[i]
        BY <1>1, <3>1
      <4>2. \/ \E j \in DOMAIN s : IsReturn(s[j], u, s[i].frame_id)
            \/ \E k \in DOMAIN af[u] : af[u][k].frame_id = s[i].frame_id
        BY <1>5, <2>1, <3>1, <4>1 DEF OpenOnesRecorded
      <4>3. \A k \in DOMAIN af[u] : k \in DOMAIN bf[u] /\ bf[u][k] = af[u][k]
        BY <1>2, <1>3
      <4>4. QED BY <1>1, <4>1, <4>2, <4>3
    <3>2. CASE i = Len(s) + 1
      <4>1. u = t /\ r[i].frame_id = n[t] + 1
        BY <1>1, <2>1, <3>2 DEF IsCall
      <4>2. Len(af[t]) + 1 \in DOMAIN bf[t]
        BY <1>2
      <4>3. QED BY <1>2, <4>1, <4>2
    <3>3. QED BY <1>1, <3>1, <3>2
  <2>2. QED BY <2>1 DEF OpenOnesRecorded
<1>11. RecordedOnesOpen(r, bf)
  <2>1. ASSUME NEW u \in Threads, NEW k \in DOMAIN bf[u]
        PROVE  /\ \E i \in DOMAIN r : /\ IsCall(r[i], u)
                                      /\ r[i].frame_id = bf[u][k].frame_id
                                      /\ r[i].fn = bf[u][k].fn
               /\ \A j \in DOMAIN r : ~IsReturn(r[j], u, bf[u][k].frame_id)
    <3>1. CASE k \in DOMAIN af[u] /\ bf[u][k] = af[u][k]
      <4>1. PICK i \in DOMAIN s : /\ IsCall(s[i], u) /\ s[i].frame_id = af[u][k].frame_id
                                  /\ s[i].fn = af[u][k].fn
        BY <1>5, <3>1 DEF RecordedOnesOpen
      <4>2. \A j \in DOMAIN s : ~IsReturn(s[j], u, af[u][k].frame_id)
        BY <1>5, <3>1 DEF RecordedOnesOpen
      <4>3. \A j \in DOMAIN r : ~IsReturn(r[j], u, af[u][k].frame_id)
        <5>1. ~IsReturn(e, u, af[u][k].frame_id)
          BY DEF IsCall, IsReturn
        <5>2. QED BY <1>1, <4>2, <5>1
      <4>4. QED BY <1>1, <3>1, <4>1, <4>3
    <3>2. CASE u = t /\ k = Len(af[t]) + 1
      <4>1. bf[u][k] = f /\ Len(s) + 1 \in DOMAIN r
        BY <1>1, <1>2, <3>2
      <4>2. \A j \in DOMAIN r : ~IsReturn(r[j], u, n[t] + 1)
        <5>1. ~IsReturn(e, u, n[t] + 1)
          BY DEF IsCall, IsReturn
        <5>2. \A j \in DOMAIN s : ~IsReturn(s[j], u, n[t] + 1)
          BY <1>3, <1>4, <1>6, <3>2 DEF IsReturn
        <5>3. QED BY <1>1, <5>1, <5>2
      <4>3. QED BY <1>1, <3>2, <4>1, <4>2
    <3>3. QED BY <1>2, <1>3, <3>1, <3>2
  <2>2. QED BY <2>1 DEF RecordedOnesOpen
<1>12. ReturnsFollow(r)
  <2>1. ASSUME NEW i \in DOMAIN r, r[i].type = "return"
        PROVE  \E j \in 1 .. i - 1 : IsCall(r[j], r[i].thread) /\ r[j].frame_id = r[i].frame_id
    <3>1. i \in DOMAIN s /\ r[i] = s[i]
      BY <1>1, <2>1 DEF IsCall
    <3>2. PICK j \in 1 .. i - 1 : IsCall(s[j], s[i].thread) /\ s[j].frame_id = s[i].frame_id
      BY <1>5, <2>1, <3>1 DEF ReturnsFollow
    <3>3. j \in DOMAIN s
      BY <1>1, <3>1
    <3>4. QED BY <1>1, <3>1, <3>2, <3>3
  <2>2. QED BY <2>1 DEF ReturnsFollow
<1>13. QED BY <1>7, <1>8, <1>9, <1>10, <1>11, <1>12 DEF Fits, r, bf, m

\* A return is sent for the innermost recorded frame, which is forgotten.
LEMMA FitsReturn ==
    ASSUME NEW s \in Seq(Events), NEW af \in [Threads -> Seq(ActiveFrames)],
           NEW n \in [Threads -> Nat], Fits(s, af, n),
           NEW t \in Threads, af[t] # <<>>, NEW e \in Events,
           IsReturn(e, t, af[t][Len(af[t])].frame_id)
    PROVE  Fits(Append(s, e), [af EXCEPT ![t] = Outer(@)], n)
<1> DEFINE r   == Append(s, e)
           bf  == [af EXCEPT ![t] = Outer(@)]
           top == Len(af[t])
<1>1. /\ DOMAIN s = 1 .. Len(s) /\ Len(s) \in Nat
      /\ DOMAIN r = 1 .. Len(s) + 1 /\ r[Len(s) + 1] = e
      /\ \A i \in DOMAIN s : i \in DOMAIN r /\ r[i] = s[i] /\ i < Len(s) + 1
      /\ \A i \in DOMAIN r : i \in DOMAIN s \/ i = Len(s) + 1
  BY OneMore
<1>2. /\ DOMAIN af[t] = 1 .. top /\ top \in Nat /\ top \in DOMAIN af[t]
      /\ \A k \in DOMAIN bf[t] : /\ k \in DOMAIN af[t] /\ bf[t][k] = af[t][k] /\ k < top
      /\ \A k \in DOMAIN af[t] : k \in DOMAIN bf[t] \/ k = top
  <2>1. bf[t] = Outer(af[t]) /\ af[t] \in Seq(ActiveFrames)
    OBVIOUS
  <2>2. /\ Outer(af[t]) \in Seq(ActiveFrames) /\ Len(Outer(af[t])) = Len(af[t]) - 1
        /\ \A i \in 1 .. Len(af[t]) - 1 : Outer(af[t])[i] = af[t][i]
    BY <2>1, OuterProperties
  <2>3. /\ DOMAIN af[t] = 1 .. top /\ top \in Nat /\ top # 0
        /\ DOMAIN Outer(af[t]) = 1 .. top - 1
    BY <2>1, <2>2
  <2>4. \A x \in Nat \ {0} : /\ x \in 1 .. x
                             /\ \A k \in 1 .. x - 1 : k \in 1 .. x /\ k < x
                             /\ \A k \in 1 .. x : k \in 1 .. x - 1 \/ k = x
    OBVIOUS
  <2> HIDE DEF bf, top
  <2>5. QED BY <2>1, <2>2, <2>3, <2>4 DEF top
<1>3. \A u \in Threads : u # t => bf[u] = af[u]
  OBVIOUS
<1>4. /\ \A i \in DOMAIN s : s[i].frame_id \in Nat /\ s[i].thread \in Threads
      /\ \A u \in Threads : \A k \in DOMAIN af[u] : af[u][k].frame_id \in Nat
      /\ \A u \in Threads : n[u] \in Nat
  <2>1. \A i \in DOMAIN s : s[i] \in Events
    OBVIOUS
  <2>2. \A u \in Threads : \A k \in DOMAIN af[u] : af[u][k] \in ActiveFrames
    OBVIOUS
  <2>3. \A u \in Threads : n[u] \in Nat
    OBVIOUS
  <2>4. QED BY <2>1, <2>2, <2>3 DEF Events, ActiveFrames
<1>5. EventsNumbered(s, n) /\ CallsRise(s) /\ FramesRise(af, n) /\ OpenOnesRecorded(s, af)
      /\ RecordedOnesOpen(s, af) /\ ReturnsFollow(s)
  BY DEF Fits
<1>6. e.type = "return" /\ e.thread = t /\ e.frame_id = af[t][top].frame_id
  BY DEF IsReturn
<1> HIDE DEF r, bf, top
\* (what is still recorded was so before)
<1>7. \A u \in Threads : \A k \in DOMAIN bf[u] : k \in DOMAIN af[u] /\ bf[u][k] = af[u][k]
  BY <1>2, <1>3
<1>8. EventsNumbered(r, n)
  <2>1. ASSUME NEW i \in DOMAIN r, r[i].type \in {"call", "return"}
        PROVE  r[i].frame_id <= n[r[i].thread]
    <3>1. CASE i \in DOMAIN s
      BY <1>1, <1>5, <2>1, <3>1 DEF EventsNumbered
    <3>2. CASE i = Len(s) + 1
      BY <1>1, <1>2, <1>5, <1>6, <3>2 DEF FramesRise
    <3>3. QED BY <1>1, <3>1, <3>2
  <2>2. QED BY <2>1 DEF EventsNumbered
<1>9. CallsRise(r)
  <2>1. ASSUME NEW u \in Threads, NEW i \in DOMAIN r, NEW j \in DOMAIN r,
               IsCall(r[i], u), IsCall(r[j], u), i < j
        PROVE  r[i].frame_id < r[j].frame_id
    <3>1. i \in DOMAIN s /\ j \in DOMAIN s
      BY <1>1, <1>6, <2>1 DEF IsCall
    <3>2. QED BY <1>1, <1>5, <2>1, <3>1 DEF CallsRise
  <2>2. QED BY <2>1 DEF CallsRise
<1>10. FramesRise(bf, n)
  BY <1>5, <1>7 DEF FramesRise
<1>11. OpenOnesRecorded(r, bf)
  <2>1. ASSUME NEW u \in Threads, NEW i \in DOMAIN r, IsCall(r[i], u)
        PROVE  \/ \E j \in DOMAIN r : IsReturn(r[j], u, r[i].frame_id)
               \/ \E k \in DOMAIN bf[u] : bf[u][k].frame_id = r[i].frame_id
    <3>1. i \in DOMAIN s /\ r[i] = s[i]
      BY <1>1, <1>6, <2>1 DEF IsCall
    <3>2. CASE \E j \in DOMAIN s : IsReturn(s[j], u, s[i].frame_id)
      BY <1>1, <3>1, <3>2
    <3>3. CASE \E k \in DOMAIN af[u] : af[u][k].frame_id = s[i].frame_id
      <4>1. PICK k \in DOMAIN af[u] : af[u][k].frame_id = s[i].frame_id
        BY <3>3
      <4>2. CASE u = t /\ k = top
        <5>1. IsReturn(r[Len(s) + 1], u, r[i].frame_id) /\ Len(s) + 1 \in DOMAIN r
          BY <1>1, <1>6, <3>1, <4>1, <4>2 DEF IsReturn
        <5>2. QED BY <5>1
      <4>3. CASE ~(u = t /\ k = top)
        <5>1. k \in DOMAIN bf[u] /\ bf[u][k] = af[u][k]
          BY <1>2, <1>3, <4>1, <4>3
        <5>2. QED BY <3>1, <4>1, <5>1
      <4>4. QED BY <4>2, <4>3
    <3>4. QED BY <1>5, <2>1, <3>1, <3>2, <3>3 DEF OpenOnesRecorded
  <2>2. QED BY <2>1 DEF OpenOnesRecorded
<1>12. RecordedOnesOpen(r, bf)
  <2>1. ASSUME NEW u \in Threads, NEW k \in DOMAIN bf[u]
        PROVE  /\ \E i \in DOMAIN r : /\ IsCall(r[i], u)
                                      /\ r[i].frame_id = bf[u][k].frame_id
                                      /\ r[i].fn = bf[u][k].fn
               /\ \A j \in DOMAIN r : ~IsReturn(r[j], u, bf[u][k].frame_id)
    <3>1. k \in DOMAIN af[u] /\ bf[u][k] = af[u][k]
      BY <1>7
    <3>2. PICK i \in DOMAIN s : /\ IsCall(s[i], u) /\ s[i].frame_id = af[u][k].frame_id
                                /\ s[i].fn = af[u][k].fn
      BY <1>5, <3>1 DEF RecordedOnesOpen
    <3>3. \A j \in DOMAIN s : ~IsReturn(s[j], u, af[u][k].frame_id)
      BY <1>5, <3>1 DEF RecordedOnesOpen
    <3>4. ~IsReturn(e, u, af[u][k].frame_id)
      <4>1. CASE u # t
        BY <1>6, <4>1 DEF IsReturn
      <4>2. CASE u = t
        <5>1. af[t][k].frame_id < af[t][top].frame_id
          BY <1>2, <1>5, <2>1, <3>1, <4>2 DEF FramesRise
        <5>2. af[t][k].frame_id # af[t][top].frame_id
          <6>1. k \in DOMAIN af[t] /\ top \in DOMAIN af[t]
            BY <1>2, <3>1, <4>2
          <6>2. af[t][k].frame_id \in Nat /\ af[t][top].frame_id \in Nat
            BY <1>4, <6>1
          <6>3. \A x, y \in Nat : x < y => x # y
            OBVIOUS
          <6>4. QED BY <5>1, <6>2, <6>3
        <5>3. QED BY <1>6, <4>2, <5>2 DEF IsReturn
      <4>3. QED BY <4>1, <4>2
    <3>5. \A j \in DOMAIN r : ~IsReturn(r[j], u, af[u][k].frame_id)
      BY <1>1, <3>3, <3>4
    <3>6. QED BY <1>1, <3>1, <3>2, <3>5
  <2>2. QED BY <2>1 DEF RecordedOnesOpen
<1>13. ReturnsFollow(r)
  <2>1. ASSUME NEW i \in DOMAIN r, r[i].type = "return"
        PROVE  \E j \in 1 .. i - 1 : IsCall(r[j], r[i].thread) /\ r[j].frame_id = r[i].frame_id
    <3>1. CASE i \in DOMAIN s
      <4>1. r[i] = s[i]
        BY <1>1, <3>1
      <4>2. PICK j \in 1 .. i - 1 : IsCall(s[j], s[i].thread) /\ s[j].frame_id = s[i].frame_id
        BY <1>5, <2>1, <3>1, <4>1 DEF ReturnsFollow
      <4>3. j \in DOMAIN s
        BY <1>1, <3>1
      <4>4. QED BY <1>1, <4>1, <4>2, <4>3
    <3>2. CASE i = Len(s) + 1
      <4>1. PICK j \in DOMAIN s : IsCall(s[j], t) /\ s[j].frame_id = af[t][top].frame_id
        BY <1>2, <1>5 DEF RecordedOnesOpen
      <4>2. j \in 1 .. i - 1
        BY <1>1, <3>2
      <4>3. QED BY <1>1, <1>6, <3>2, <4>1, <4>2
    <3>3. QED BY <1>1, <3>1, <3>2
  <2>2. QED BY <2>1 DEF ReturnsFollow
<1>14. QED BY <1>8, <1>9, <1>10, <1>11, <1>12, <1>13 DEF Fits, r, bf

\* An event that is neither a call nor a return changes nothing.
LEMMA FitsMark ==
    ASSUME NEW s \in Seq(Events), NEW af \in [Threads -> Seq(ActiveFrames)],
           NEW n \in [Threads -> Nat], Fits(s, af, n),
           NEW e \in Events, e.type = "breakpoint"
    PROVE  Fits(Append(s, e), af, n)
<1> DEFINE r == Append(s, e)
<1>1. /\ DOMAIN s = 1 .. Len(s) /\ Len(s) \in Nat
      /\ DOMAIN r = 1 .. Len(s) + 1 /\ r[Len(s) + 1] = e
      /\ \A i \in DOMAIN s : i \in DOMAIN r /\ r[i] = s[i] /\ i < Len(s) + 1
      /\ \A i \in DOMAIN r : i \in DOMAIN s \/ i = Len(s) + 1
  BY OneMore
<1>2. \A i \in DOMAIN r : r[i].type \in {"call", "return"} => i \in DOMAIN s /\ r[i] = s[i]
  BY <1>1
<1> HIDE DEF r
<1>3. EventsNumbered(r, n)
  BY <1>2 DEF Fits, EventsNumbered
<1>4. CallsRise(r)
  BY <1>2 DEF Fits, CallsRise, IsCall
<1>5. FramesRise(af, n)
  BY DEF Fits
<1>6. OpenOnesRecorded(r, af)
  <2>1. ASSUME NEW u \in Threads, NEW i \in DOMAIN r, IsCall(r[i], u)
        PROVE  \/ \E j \in DOMAIN r : IsReturn(r[j], u, r[i].frame_id)
               \/ \E k \in DOMAIN af[u] : af[u][k].frame_id = r[i].frame_id
    <3>1. i \in DOMAIN s /\ r[i] = s[i]
      BY <1>2, <2>1 DEF IsCall
    <3>2. \/ \E j \in DOMAIN s : IsReturn(s[j], u, s[i].frame_id)
          \/ \E k \in DOMAIN af[u] : af[u][k].frame_id = s[i].frame_id
      BY <2>1, <3>1 DEF Fits, OpenOnesRecorded
    <3>3. QED BY <1>1, <3>1, <3>2
  <2>2. QED BY <2>1 DEF OpenOnesRecorded
<1>7. RecordedOnesOpen(r, af)
  <2>1. ASSUME NEW u \in Threads, NEW k \in DOMAIN af[u]
        PROVE  /\ \E i \in DOMAIN r : /\ IsCall(r[i], u)
                                      /\ r[i].frame_id = af[u][k].frame_id
                                      /\ r[i].fn = af[u][k].fn
               /\ \A j \in DOMAIN r : ~IsReturn(r[j], u, af[u][k].frame_id)
    <3>1. PICK i \in DOMAIN s : /\ IsCall(s[i], u) /\ s[i].frame_id = af[u][k].frame_id
                                /\ s[i].fn = af[u][k].fn
      BY DEF Fits, RecordedOnesOpen
    <3>2. \A j \in DOMAIN s : ~IsReturn(s[j], u, af[u][k].frame_id)
      BY DEF Fits, RecordedOnesOpen
    <3>3. \A j \in DOMAIN r : ~IsReturn(r[j], u, af[u][k].frame_id)
      BY <1>2, <3>2 DEF IsReturn
    <3>4. QED BY <1>1, <3>1, <3>3
  <2>2. QED BY <2>1 DEF RecordedOnesOpen
<1>8. ReturnsFollow(r)
  <2>1. ASSUME NEW i \in DOMAIN r, r[i].type = "return"
        PROVE  \E j \in 1 .. i - 1 : IsCall(r[j], r[i].thread) /\ r[j].frame_id = r[i].frame_id
    <3>1. i \in DOMAIN s /\ r[i] = s[i]
      BY <1>2, <2>1
    <3>2. PICK j \in 1 .. i - 1 : IsCall(s[j], s[i].thread) /\ s[j].frame_id = s[i].frame_id
      BY <2>1, <3>1 DEF Fits, ReturnsFollow
    <3>3. j \in DOMAIN s
      BY <1>1, <3>1
    <3>4. QED BY <1>1, <3>1, <3>2, <3>3
  <2>2. QED BY <2>1 DEF ReturnsFollow
<1>9. QED BY <1>3, <1>4, <1>5, <1>6, <1>7, <1>8 DEF Fits, r

LEMMA StreamInvHandle ==
    ASSUME TraceAllocation, TypeInv, StreamInv, NEW t \in Threads, Handle(t)
    PROVE  StreamInv'
<1>1. /\ CallTypeOK /\ event_stream \in Seq(Events)
      /\ active_frames \in [Threads -> Seq(ActiveFrames)] /\ frame_id \in [Threads -> Nat]
      /\ Fits(event_stream, active_frames, frame_id)
  BY DEF TypeInv, TypeOK, CallTypeOK, StreamInv
<1>2. UNCHANGED callVars => StreamInv'
  BY <1>1 DEF StreamInv, callVars
<1>3. CASE HandleCall(t)
  <2>1. BpId(t) \in Nat /\ NewFrame(t) \in ActiveFrames /\ ~ReturnsEarly(BpId(t))
    BY <1>3, HandledCall
  <2>2. CASE SkipCall(t) \/ CallAssertFails(t)
    BY <1>2, <2>2 DEF SkipCall, CallAssertFails
  <2>3. CASE RecordCall(t)
    <3> DEFINE call == CallEvent(t, BpId(t), NewFrame(t))
               ret  == ReturnEvent(t, BpId(t), NewFrame(t))
               new  == NewFrame(t)
               af   == [active_frames EXCEPT ![t] = Append(@, new)]
               n    == [frame_id EXCEPT ![t] = @ + 1]
    <3>1. /\ call \in Events /\ ret \in Events /\ new \in ActiveFrames
          /\ IsCall(call, t) /\ call.frame_id = frame_id[t] + 1
          /\ IsReturn(ret, t, new.frame_id)
          /\ new.frame_id = frame_id[t] + 1 /\ call.fn = new.fn
      <4>1. call \in Events /\ ret \in Events /\ new \in ActiveFrames
        BY <2>1, EventTypes
      <4>2. QED BY <4>1 DEF CallEvent, ReturnEvent, NewFrame, IsCall, IsReturn
    <3>2. /\ frame_id' = n
          /\ \/ event_stream' = event_stream \o <<call, ret>> /\ UNCHANGED active_frames
             \/ event_stream' = Append(event_stream, call) /\ active_frames' = af
      BY <2>1, <2>3 DEF RecordCall
    <3> HIDE DEF call, ret, new
    <3>3. Fits(Append(event_stream, call), af, n)
      BY <1>1, <3>1, FitsCall
    <3>4. Fits(Append(Append(event_stream, call), ret), active_frames, n)
      <4>1. /\ af \in [Threads -> Seq(ActiveFrames)] /\ n \in [Threads -> Nat]
            /\ Append(event_stream, call) \in Seq(Events)
            /\ af[t] = Append(active_frames[t], new) /\ active_frames[t] \in Seq(ActiveFrames)
        <5>1. active_frames[t] \in Seq(ActiveFrames)
          BY <1>1
        <5>2. Append(active_frames[t], new) \in Seq(ActiveFrames)
          BY <3>1, <5>1, AppendProperties
        <5>3. Append(event_stream, call) \in Seq(Events)
          BY <1>1, <3>1, AppendProperties
        <5>4. n \in [Threads -> Nat]
          BY <1>1
        <5>5. QED BY <1>1, <5>1, <5>2, <5>3, <5>4
      <4>2. /\ Append(active_frames[t], new) # <<>>
            /\ Len(Append(active_frames[t], new)) = Len(active_frames[t]) + 1
            /\ Append(active_frames[t], new)[Len(active_frames[t]) + 1] = new
        BY <3>1, <4>1, AppendProperties
      <4>3. af[t] # <<>> /\ af[t][Len(af[t])] = new
        BY <4>1, <4>2, Zenon
      <4> HIDE DEF af, n
      <4>4. Fits(Append(Append(event_stream, call), ret), [af EXCEPT ![t] = Outer(@)], n)
        BY <3>1, <3>3, <4>1, <4>3, FitsReturn
      <4>5. [af EXCEPT ![t] = Outer(@)] = active_frames
        <5>1. Outer(af[t]) = active_frames[t]
          BY <3>1, <4>1, OuterOfAppend
        <5>2. QED BY <1>1, <5>1 DEF af
      <4>6. QED BY <4>4, <4>5
    <3>5. event_stream \o <<call, ret>> = Append(Append(event_stream, call), ret)
      BY <1>1, <3>1, ConcatOfTwo
    <3>6. CASE event_stream' = event_stream \o <<call, ret>> /\ UNCHANGED active_frames
      <4>1. event_stream' = Append(Append(event_stream, call), ret)
        BY <3>5, <3>6
      <4> HIDE DEF af, n
      <4>2. QED BY <3>2, <3>4, <3>6, <4>1, Zenon DEF StreamInv
    <3>7. CASE event_stream' = Append(event_stream, call) /\ active_frames' = af
      <4> HIDE DEF af, n
      <4>1. QED BY <3>2, <3>3, <3>7, Zenon DEF StreamInv
    <3>8. QED BY <3>2, <3>6, <3>7
  <2>4. QED BY <1>3, <2>2, <2>3 DEF HandleCall
<1>4. CASE HandleReturn(t)
  <2>1. CASE RecordReturn(t)
    <3> DEFINE ret == ReturnEvent(t, BpId(t), LastFrame(t))
    <3>1. BpId(t) \in Nat /\ active_frames[t] # <<>>
      BY <1>4, <2>1, HandledBreakpoint
         DEF HandleReturn, RecordReturn, HasFrame, TypeInv, TypeOK, TableTypeOK
    <3>2. LastFrame(t) \in ActiveFrames /\ LastFrame(t) = active_frames[t][Len(active_frames[t])]
      BY <1>1, <3>1, LastInRange DEF LastFrame
    <3>3. ret \in Events /\ IsReturn(ret, t, active_frames[t][Len(active_frames[t])].frame_id)
      <4>1. ret \in Events
        BY <3>1, <3>2, EventTypes
      <4>2. QED BY <3>2, <4>1 DEF ReturnEvent, IsReturn
    <3>4. /\ event_stream' = Append(event_stream, ret)
          /\ active_frames' = [active_frames EXCEPT ![t] = Outer(@)]
          /\ frame_id' = frame_id
      BY <2>1 DEF RecordReturn
    <3> HIDE DEF ret
    <3>5. Fits(Append(event_stream, ret), [active_frames EXCEPT ![t] = Outer(@)], frame_id)
      BY <1>1, <3>1, <3>3, FitsReturn
    <3>6. QED BY <3>4, <3>5 DEF StreamInv
  <2>2. CASE UNCHANGED callVars
    BY <1>2, <2>2
  <2>3. QED BY <1>4, <2>1, <2>2 DEF HandleReturn, ReturnAssertFails, callVars
<1>5. CASE HandleBreakpoint(t)
  <2>1. BpId(t) \in Nat
    BY <1>5, HandledBreakpoint DEF HandleBreakpoint, TypeInv, TypeOK, TableTypeOK
  <2>2. HasFrame(t) => LastFrame(t).frame_id \in Nat
    <3>1. HasFrame(t) => LastFrame(t) \in ActiveFrames
      BY <1>1, LastInRange DEF HasFrame, LastFrame
    <3>2. QED BY <3>1 DEF ActiveFrames
  <2>3. BreakpointEvent(t, BpId(t)) \in Events /\ BreakpointEvent(t, BpId(t)).type = "breakpoint"
    BY <2>1, <2>2 DEF BreakpointEvent, Events
  <2>4. Fits(Append(event_stream, BreakpointEvent(t, BpId(t))), active_frames, frame_id)
    BY <1>1, <2>3, FitsMark
  <2>5. QED BY <1>5, <2>4 DEF HandleBreakpoint, StreamInv
<1>6. CASE HandleExchangeMalloc(t) \/ HandleAfterAllocation(t) \/ HandleDropInPlace(t)
  <2>1. UNCHANGED callVars
    BY <1>6 DEF HandleExchangeMalloc, HandleAfterAllocation, HandleDropInPlace, callVars
  <2>2. QED BY <1>2, <2>1
<1>7. QED BY <1>3, <1>4, <1>5, <1>6 DEF Handle

LEMMA StreamInvNext == TraceAllocation /\ TypeInv /\ StreamInv /\ [Next]_vars => StreamInv'
<1> SUFFICES ASSUME TraceAllocation, TypeInv, StreamInv, [Next]_vars PROVE StreamInv'
  OBVIOUS
<1>1. CASE \E t \in Threads : Handle(t)
  BY <1>1, StreamInvHandle
<1>2. CASE Program \/ Resume \/ Finish \/ UNCHANGED vars
  <2>1. UNCHANGED callVars
    BY <1>2 DEF Program, Resume, Finish, vars
  <2>2. QED BY <2>1 DEF callVars, StreamInv
<1>3. QED BY <1>1, <1>2 DEF Next, Done

LEMMA StreamInvInit == Init => StreamInv
<1> SUFFICES ASSUME Init PROVE StreamInv
  OBVIOUS
<1>1. event_stream = <<>> /\ \A t \in Threads : active_frames[t] = <<>>
  BY DEF Init
<1>2. DOMAIN event_stream = {} /\ \A t \in Threads : DOMAIN active_frames[t] = {}
  BY <1>1
<1>3. QED
  BY <1>2 DEF StreamInv, Fits, EventsNumbered, CallsRise, FramesRise, OpenOnesRecorded,
        RecordedOnesOpen, ReturnsFollow

\* When allocations are traced, a return is of a call that was sent before it,
\* whatever the program does: the run that turns the tracing off shows the one way
\* to break this (indexer/src/main.rs:195-202 relies on it).
THEOREM ReturnsComeAfterCalls ==
    ASSUME TraceAllocation
    PROVE  Spec => []ReturnsAreAnnounced
<1>1. Init => TypeInv /\ StreamInv
  BY TypeInvInit, StreamInvInit
<1>2. TypeInv /\ StreamInv /\ [Next]_vars => TypeInv' /\ StreamInv'
  BY TypeInvNext, StreamInvNext
<1>3. StreamInv => ReturnsAreAnnounced
  BY DEF StreamInv, Fits, ReturnsFollow, ReturnsAreAnnounced, IsCall
<1>4. QED BY <1>1, <1>2, <1>3, PTL DEF Spec

\* The places of a set of numbers, counted along an increasing enumeration of it.
LEMMA RisingCount ==
    ASSUME NEW n \in Nat, NEW S, S \subseteq Int, NEW e \in [1 .. n -> S],
           \A j, k \in 1 .. n : j < k => e[j] < e[k],
           \A i \in S : \E k \in 1 .. n : i = e[k]
    PROVE  /\ Cardinality(S) = n
           /\ \A k \in 1 .. n : Cardinality({i \in S : i <= e[k]}) = k
<1> DEFINE T(m) == {e[k] : k \in 1 .. m}
<1>0. \A k \in 1 .. n : e[k] \in S /\ e[k] \in Int
  <2>1. \A k \in 1 .. n : e[k] \in S
    OBVIOUS
  <2>2. QED BY <2>1
<1>1. ASSUME NEW m \in 0 .. n PROVE Cardinality(T(m)) = m
  <2> DEFINE f == [k \in 1 .. m |-> e[k]]
  <2>1. \A k \in 1 .. m : k \in 1 .. n
    OBVIOUS
  <2>2. f \in [1 .. m -> T(m)]
    OBVIOUS
  <2>3. ASSUME NEW j \in 1 .. m, NEW k \in 1 .. m, f[j] = f[k] PROVE j = k
    <3>1. j \in 1 .. n /\ k \in 1 .. n /\ e[j] = e[k] /\ e[j] \in Int /\ e[k] \in Int
      BY <2>1, <2>3
    <3>2. ~(j < k) /\ ~(k < j)
      BY <3>1
    <3>3. QED BY <3>2
  <2>4. \A i \in T(m) : \E k \in 1 .. m : f[k] = i
    OBVIOUS
  <2> HIDE DEF f, T
  <2>5. ExistsBijection(1 .. m, T(m))
    <3>1. \A j, k \in 1 .. m : f[j] = f[k] => j = k
      BY <2>3
    <3>2. f \in Bijection(1 .. m, T(m))
      BY <2>2, <2>4, <3>1, Fun_IsBij
    <3>3. QED BY <3>2, Fun_ExistsBij
  <2>6. IsFiniteSet(1 .. m) /\ Cardinality(1 .. m) = m
    <3>1. m \in Int /\ 1 \in Int
      OBVIOUS
    <3>2. IsFiniteSet(1 .. m) /\ Cardinality(1 .. m) = IF 1 > m THEN 0 ELSE m - 1 + 1
      BY <3>1, FS_Interval
    <3>3. QED BY <3>2
  <2>7. QED BY <2>5, <2>6, FS_Bijection
<1>2. S = T(n)
  OBVIOUS
<1>3. ASSUME NEW k \in 1 .. n PROVE {i \in S : i <= e[k]} = T(k)
  <2>1. ASSUME NEW i \in S, i <= e[k] PROVE i \in T(k)
    <3>1. PICK j \in 1 .. n : i = e[j]
      OBVIOUS
    <3>2. e[j] \in Int /\ e[k] \in Int /\ ~(k < j)
      <4>1. e[j] \in Int /\ e[k] \in Int
        BY <1>0
      <4>2. k < j => e[k] < e[j]
        OBVIOUS
      <4>3. e[j] <= e[k]
        BY <2>1, <3>1
      <4>4. QED BY <4>1, <4>2, <4>3
    <3>3. j \in 1 .. k
      BY <3>2
    <3>4. QED BY <3>1, <3>3
  <2>2. ASSUME NEW j \in 1 .. k PROVE e[j] \in S /\ e[j] <= e[k]
    <3>1. j \in 1 .. n /\ (j < k \/ j = k)
      OBVIOUS
    <3>2. e[j] \in S /\ e[j] \in Int /\ e[k] \in Int
      BY <1>0, <3>1
    <3>3. j < k => e[j] < e[k]
      BY <3>1
    <3>4. QED BY <3>1, <3>2, <3>3
  <2>3. QED BY <2>1, <2>2
<1>4. n \in 0 .. n /\ \A k \in 1 .. n : k \in 0 .. n
  OBVIOUS
<1> HIDE DEF T
<1>5. QED BY <1>1, <1>2, <1>3, <1>4

\* For a running thread, what the stream leaves open is its stack.
LEMMA OpenCallsAreTheStack ==
    ASSUME TypeInv, MirrorInv, StreamInv, NEW t \in Threads, pc[t] = Elsewhere
    PROVE  /\ Cardinality(OpenCalls(t)) = Len(stack[t])
           /\ \A i \in OpenCalls(t) : event_stream[i].fn = stack[t][Depth(t, i)].fn
<1> DEFINE s  == event_stream
           af == active_frames[t]
           n  == Len(af)
           Opens(i, k) == /\ IsCall(s[i], t)
                          /\ s[i].frame_id = af[k].frame_id /\ s[i].fn = af[k].fn
           e  == [k \in 1 .. n |-> CHOOSE i \in DOMAIN s : Opens(i, k)]
<1>1. /\ s \in Seq(Events) /\ DOMAIN s = 1 .. Len(s) /\ Len(s) \in Nat
      /\ af \in Seq(ActiveFrames) /\ DOMAIN af = 1 .. n /\ n \in Nat
  BY DEF TypeInv, TypeOK, CallTypeOK
<1>2. \A k \in 1 .. n : af[k].frame_id \in Nat
  <2>1. \A k \in 1 .. n : af[k] \in ActiveFrames
    BY <1>1
  <2>2. QED BY <2>1 DEF ActiveFrames
<1>3. /\ CallsRise(s) /\ FramesRise(active_frames, frame_id)
      /\ OpenOnesRecorded(s, active_frames) /\ RecordedOnesOpen(s, active_frames)
  BY DEF StreamInv, Fits
<1>4. MirrorOf(af, stack[t])
  BY ElsewherePicture DEF MirrorInv
<1>5. ASSUME NEW k \in 1 .. n PROVE e[k] \in DOMAIN s /\ Opens(e[k], k)
  <2>1. \E i \in DOMAIN s : Opens(i, k)
    BY <1>1, <1>3 DEF RecordedOnesOpen
  <2>2. e[k] = CHOOSE i \in DOMAIN s : Opens(i, k)
    OBVIOUS
  <2> HIDE DEF e, Opens
  <2>3. QED BY <2>1, <2>2
<1>6. ASSUME NEW k \in 1 .. n PROVE e[k] \in OpenCalls(t)
  <2>1. \A j \in DOMAIN s : ~IsReturn(s[j], t, af[k].frame_id)
    BY <1>1, <1>3 DEF RecordedOnesOpen
  <2>2. e[k] \in DOMAIN s /\ Opens(e[k], k)
    BY <1>5
  <2> HIDE DEF e
  <2>3. QED BY <2>1, <2>2 DEF OpenCalls, Returned, IsReturn, IsCall
<1> HIDE DEF e
<1>7. ASSUME NEW j \in 1 .. n, NEW k \in 1 .. n, j < k PROVE e[j] < e[k]
  <2>1. /\ e[j] \in DOMAIN s /\ e[k] \in DOMAIN s
        /\ IsCall(s[e[j]], t) /\ IsCall(s[e[k]], t)
        /\ s[e[j]].frame_id = af[j].frame_id /\ s[e[k]].frame_id = af[k].frame_id
    BY <1>5
  <2>2. af[j].frame_id < af[k].frame_id /\ af[j].frame_id \in Nat /\ af[k].frame_id \in Nat
    BY <1>1, <1>2, <1>3, <1>7 DEF FramesRise
  <2>3. \A x, y \in Nat : x < y => x # y /\ ~(y < x)
    OBVIOUS
  <2>4. e[j] # e[k]
    BY <2>1, <2>2, <2>3
  <2>5. ~(e[k] < e[j])
    BY <1>3, <2>1, <2>2, <2>3 DEF CallsRise
  <2>6. e[j] \in Nat /\ e[k] \in Nat
    BY <1>1, <2>1
  <2>7. QED BY <2>4, <2>5, <2>6
<1>8. ASSUME NEW i \in OpenCalls(t) PROVE \E k \in 1 .. n : i = e[k]
  <2>1. /\ i \in DOMAIN s /\ IsCall(s[i], t)
        /\ \A j \in DOMAIN s : ~IsReturn(s[j], t, s[i].frame_id)
    BY DEF OpenCalls, Returned, IsReturn, IsCall
  <2>2. PICK k \in 1 .. n : af[k].frame_id = s[i].frame_id
    BY <1>1, <1>3, <2>1 DEF OpenOnesRecorded
  <2>3. /\ e[k] \in DOMAIN s /\ IsCall(s[e[k]], t) /\ s[e[k]].frame_id = s[i].frame_id
        /\ s[i].frame_id \in Nat
    BY <1>2, <1>5, <2>2
  <2>4. ~(s[i].frame_id < s[i].frame_id)
    BY <2>3
  <2>5. ~(i < e[k]) /\ ~(e[k] < i)
    BY <1>3, <2>1, <2>3, <2>4 DEF CallsRise
  <2>6. i \in Nat /\ e[k] \in Nat
    BY <1>1, <2>1, <2>3
  <2>7. QED BY <2>5, <2>6
<1>9. e \in [1 .. n -> OpenCalls(t)]
  <2>1. e = [k \in 1 .. n |-> e[k]]
    BY DEF e
  <2>2. QED BY <1>6, <2>1
<1>10. OpenCalls(t) \subseteq Int
  BY <1>1 DEF OpenCalls
<1>11. /\ Cardinality(OpenCalls(t)) = n
       /\ \A k \in 1 .. n : Cardinality({i \in OpenCalls(t) : i <= e[k]}) = k
  <2> HIDE DEF n
  <2>1. n \in Nat
    BY <1>1
  <2>2. \A j, k \in 1 .. n : j < k => e[j] < e[k]
    BY <1>7
  <2>3. \A i \in OpenCalls(t) : \E k \in 1 .. n : i = e[k]
    BY <1>8
  <2>4. QED BY <1>9, <1>10, <2>1, <2>2, <2>3, RisingCount
<1>12. Cardinality(OpenCalls(t)) = Len(stack[t])
  BY <1>4, <1>11 DEF MirrorOf
<1>13. ASSUME NEW i \in OpenCalls(t) PROVE event_stream[i].fn = stack[t][Depth(t, i)].fn
  <2>1. PICK k \in 1 .. n : i = e[k]
    BY <1>8
  <2>2. Depth(t, i) = k
    BY <1>11, <2>1 DEF Depth
  <2>3. event_stream[i].fn = af[k].fn
    BY <1>5, <2>1
  <2>4. af[k].fn = stack[t][k].fn
    BY <1>4, <2>1 DEF MirrorOf
  <2>5. QED BY <2>2, <2>3, <2>4
<1>14. QED BY <1>12, <1>13

\* What a reader of the stream rebuilds of a running thread is its call stack, for
\* an orderly program of which the allocations are traced.
THEOREM TheStreamShowsTheStack ==
    ASSUME Orderly, TraceAllocation
    PROVE  Spec => []StreamShowsStack
<1>1. Init => TypeInv /\ MirrorInv /\ StreamInv
  BY TypeInvInit, MirrorInvInit, StreamInvInit
<1>2. TypeInv /\ MirrorInv /\ StreamInv /\ [Next]_vars => TypeInv' /\ MirrorInv' /\ StreamInv'
  BY TypeInvNext, MirrorInvNext, StreamInvNext
<1>3. TypeInv /\ MirrorInv /\ StreamInv => StreamShowsStack
  BY OpenCallsAreTheStack DEF StreamShowsStack
<1>4. QED BY <1>1, <1>2, <1>3, PTL DEF Spec

\* A breakpoint event names the call of the function that runs: the last frame is
\* that of the innermost function, and its call is in the stream.
LEMMA ChargedToTheInnermost ==
    ASSUME TypeInv, MirrorInv, StreamInv, NEW t \in Threads, HandleBreakpoint(t)
    PROVE  LET e == event_stream'[Len(event_stream')]
           IN  IF stack[t] = <<>> THEN e.frame_id = 0
               ELSE \E i \in DOMAIN event_stream :
                        /\ event_stream[i].type = "call"
                        /\ event_stream[i].thread = t
                        /\ event_stream[i].frame_id = e.frame_id
                        /\ event_stream[i].fn = Top(t).fn
<1> DEFINE b == BreakpointEvent(t, BpId(t))
<1>1. /\ Handling(t) /\ BreakpointFits(BpId(t)) /\ breakpoints[BpId(t)].pc = pc[t]
      /\ breakpoints[BpId(t)].type = "Breakpoint" /\ pc[t] \in Sites /\ BpId(t) \in Nat
  BY HandledBreakpoint DEF HandleBreakpoint, TypeInv, TypeOK, TableTypeOK
<1>2. pc[t].kind \notin {"call", "ret"} /\ pc[t] # GonePc
  BY <1>1, NoSites DEF BreakpointFits
<1>3. /\ MirrorOf(active_frames[t], stack[t])
      /\ active_frames[t] \in Seq(ActiveFrames) /\ stack[t] \in Seq(Frames)
      /\ event_stream \in Seq(Events)
  BY <1>2 DEF MirrorInv, MirrorsTarget, ExpectedFrames, TypeInv, TypeOK, CallTypeOK,
        TargetTypeOK
<1>4. event_stream'[Len(event_stream')] = b
  <2>1. event_stream' = Append(event_stream, b)
    BY DEF HandleBreakpoint
  <2> HIDE DEF b
  <2>2. \A x, y : x \in Seq(Events) => Append(x, y)[Len(Append(x, y))] = y
    OBVIOUS
  <2>3. QED BY <1>3, <2>1, <2>2
<1>5. CASE stack[t] = <<>>
  <2>1. active_frames[t] = <<>>
    BY <1>3, <1>5 DEF MirrorOf
  <2>2. b.frame_id = 0
    BY <2>1 DEF BreakpointEvent, HasFrame
  <2>3. QED BY <1>4, <1>5, <2>2
<1>6. CASE stack[t] # <<>>
  <2>1. /\ active_frames[t] # <<>>
        /\ active_frames[t][Len(active_frames[t])].fn = Top(t).fn
    BY <1>3, <1>6, MirrorPop DEF Top
  <2>2. b.frame_id = active_frames[t][Len(active_frames[t])].frame_id
    BY <2>1 DEF BreakpointEvent, HasFrame, LastFrame
  <2>3. Len(active_frames[t]) \in DOMAIN active_frames[t]
    BY <1>3, <2>1, LastInRange
  <2>4. PICK i \in DOMAIN event_stream :
            /\ IsCall(event_stream[i], t)
            /\ event_stream[i].frame_id = active_frames[t][Len(active_frames[t])].frame_id
            /\ event_stream[i].fn = active_frames[t][Len(active_frames[t])].fn
    BY <2>3 DEF StreamInv, Fits, RecordedOnesOpen
  <2> HIDE DEF b
  <2>5. QED BY <1>4, <1>6, <2>1, <2>2, <2>4 DEF IsCall
<1>7. QED BY <1>5, <1>6

\* A panic or a fire::dbg! is charged to the function that runs in its thread, for
\* an orderly program of which the allocations are traced.
THEOREM BreakpointsAreChargedRight ==
    ASSUME Orderly, TraceAllocation
    PROVE  Spec => BreakpointsAreAttributed
<1>1. Init => TypeInv /\ MirrorInv /\ StreamInv
  BY TypeInvInit, MirrorInvInit, StreamInvInit
<1>2. TypeInv /\ MirrorInv /\ StreamInv /\ [Next]_vars => TypeInv' /\ MirrorInv' /\ StreamInv'
  BY TypeInvNext, MirrorInvNext, StreamInvNext
<1> DEFINE Charged ==
        \A t \in Threads : HandleBreakpoint(t) =>
            LET e == event_stream'[Len(event_stream')]
            IN  IF stack[t] = <<>> THEN e.frame_id = 0
                ELSE \E i \in DOMAIN event_stream :
                        /\ event_stream[i].type = "call"
                        /\ event_stream[i].thread = t
                        /\ event_stream[i].frame_id = e.frame_id
                        /\ event_stream[i].fn = Top(t).fn
<1>3. TypeInv /\ MirrorInv /\ StreamInv => Charged
  BY ChargedToTheInnermost
<1>4. QED BY <1>1, <1>2, <1>3, PTL DEF Spec, BreakpointsAreAttributed
=============================================================================
