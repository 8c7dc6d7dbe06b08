-------------------------------- MODULE Setup --------------------------------
(***************************************************************************)
(* How the debugger sets its breakpoints before it launches the program    *)
(* (debugger/src/debugger.rs, run, up to the launch): it announces the     *)
(* source files, creates the internal breakpoints and one breakpoint per   *)
(* function, and keeps a table that has to agree with LLDB's: an entry is  *)
(* found by the number LLDB gives its breakpoint.  LLDB numbers what it is *)
(* asked to create from 1 and never uses a number again.                   *)
(*                                                                         *)
(* LLDB answers a request with locations, [address, symbol, name]: one     *)
(* place in a function (`symbol`); `name` is what the description of the   *)
(* location says of it (util.rs): the crates its full name mentions, the   *)
(* function names it ends with, and whether it is a function of the        *)
(* executable's own crate; or Unnamed, when the description has no offset. *)
(***************************************************************************)
EXTENDS Naturals, Sequences

CONSTANTS
    Locations,      \* what LLDB may know
    Answers,        \* the answers LLDB may give: sequences of locations
    Requests,       \* what may be asked for: [file_id, fn_name, loc, loc_end]
    Files,          \* source files
    Internal,       \* the internal breakpoints created, in order
    Unnamed, Default

ASSUME SetupAssumption ==
    /\ Answers \subseteq Seq(Locations)
    /\ Internal \in Seq(STRING)
    /\ \A r \in Requests : r.file_id \in Nat

VARIABLES
    files,          \* params.files: <<crate>>, indexed from 0 in the code
    wanted,         \* params.breakpoints that are still to be set
    breakpoints,    \* the table; the code's index i is i + 1 here
    sb,             \* LLDB's breakpoints: number -> [at, locations, enabled]
    created,        \* LLDB: breakpoints created so far
    breakpoint_addresses, \* address -> number
    announced,      \* what was sent on the streams of files and breakpoints
    stage           \* "files", "internal", "functions", "ready"

setupVars == <<files, wanted, breakpoints, sb, created, breakpoint_addresses, announced, stage>>

At(file_id, place) == <<file_id, place>>

\* Entries of the table; Breakpoint::default() has id 0.
Entry(id, request) == [id |-> id, request |-> request]
NoEntry == Entry(0, Default)

SetupStart ==
    /\ breakpoints = <<NoEntry>>
    /\ sb = [id \in {} |-> Default] /\ created = 0
    /\ breakpoint_addresses = [a \in {} |-> 0]
    /\ announced = <<>>
    /\ stage = "files"

-----------------------------------------------------------------------------
AddressesOfAnswer(locs) == {locs[k].address : k \in DOMAIN locs}

register_breakpoint(addresses, id, locs) ==
    [a \in DOMAIN addresses \cup AddressesOfAnswer(locs) |->
        IF a \in AddressesOfAnswer(locs) THEN id ELSE addresses[a]]

\* The location is in the function that was asked for, as far as its name tells.
NameMatches(loc, crate, fn_name) ==
    /\ crate \in loc.name.crates \/ loc.name.executable
    /\ fn_name \in loc.name.ends

\* try_loc_end: nothing was found, or a location of another function.
Rejected(locs, crate, fn_name) ==
    \/ locs = <<>>
    \/ \E k \in DOMAIN locs :
            locs[k].name # Unnamed /\ ~NameMatches(locs[k], crate, fn_name)

\* The locations that stay enabled: the first in each function.
FirstPerSymbol(locs) ==
    {k \in DOMAIN locs : \A j \in 1..(k - 1) : locs[j].symbol # locs[k].symbol}

\* LLDB's record of the breakpoint it creates as number `id`.
SbBreakpoint(at, locs, enabled) == [at |-> at, locations |-> locs, enabled |-> enabled]

-----------------------------------------------------------------------------
SendFiles ==
    /\ stage = "files"
    /\ announced' = [i \in 1..Len(files) |-> [key |-> "file", id |-> i - 1]]
    /\ stage' = "internal"
    /\ UNCHANGED <<files, wanted, breakpoints, sb, created, breakpoint_addresses>>

\* rust_panic, __firedbg_trace__, exchange_malloc, drop_in_place: announced whatever LLDB finds.
AddInternal(locs) ==
    LET id    == created + 1
        place == Internal[Len(breakpoints)]
    IN  /\ stage = "internal"
        /\ Len(breakpoints) <= Len(Internal)
        /\ created' = id
        /\ sb' = [i \in DOMAIN sb \cup {id} |->
                    IF i = id THEN SbBreakpoint(place, locs, DOMAIN locs) ELSE sb[i]]
        /\ breakpoints' = Append(breakpoints, Entry(Len(breakpoints), place))
        /\ breakpoint_addresses' = register_breakpoint(breakpoint_addresses, id, locs)
        /\ announced' = Append(announced, [key |-> "breakpoint", id |-> Len(breakpoints)])
        /\ UNCHANGED <<files, wanted, stage>>

InternalAdded ==
    /\ stage = "internal"
    /\ Len(breakpoints) > Len(Internal)
    /\ stage' = "functions"
    /\ UNCHANGED <<files, wanted, breakpoints, sb, created, breakpoint_addresses, announced>>

\* breakpoint_delete(breakpoints.len()): LLDB does nothing about a number it does not have.
DeleteId(table) == Len(table)

\* After a replacement the table gets an entry for the number that was lost.
Padded_Not(table) == table

Padded(table) == Append(table, NoEntry)

\* The entry `table` gets for the breakpoint that LLDB has as `id`, with the answer `locs`.
Settle(request, id, at, kept, table, locs) ==
    /\ sb' = [i \in DOMAIN kept \cup {id} |->
                IF i = id THEN SbBreakpoint(at, locs, FirstPerSymbol(locs)) ELSE kept[i]]
    /\ breakpoint_addresses' = register_breakpoint(breakpoint_addresses, id, locs)
    /\ breakpoints' = Append(table, Entry(Len(table), request))
    /\ announced' = IF locs = <<>> THEN announced
                    ELSE Append(announced, [key |-> "breakpoint", id |-> Len(table)])

\* The place behind the brace is good: one number of LLDB, one entry.
AddFunction(locs) ==
    LET request == Head(wanted)
        id      == created + 1
    IN  /\ stage = "functions" /\ wanted # <<>>
        /\ ~Rejected(locs, files[request.file_id + 1], request.fn_name)
        /\ created' = id
        /\ Settle(request, id, At(request.file_id, request.loc), sb, breakpoints, locs)
        /\ wanted' = Tail(wanted)
        /\ UNCHANGED <<files, stage>>

\* It is not: the breakpoint is deleted, and the first statement of the body taken as it is.
AddFunctionAtEnd(locs, locs_end) ==
    LET request == Head(wanted)
        id      == created + 1
        made    == [i \in DOMAIN sb \cup {id} |->
                        IF i = id THEN SbBreakpoint(At(request.file_id, request.loc), locs, DOMAIN locs)
                        ELSE sb[i]]
        kept    == [i \in DOMAIN made \ {DeleteId(breakpoints)} |-> made[i]]
    IN  /\ stage = "functions" /\ wanted # <<>>
        /\ Rejected(locs, files[request.file_id + 1], request.fn_name)
        /\ created' = id + 1
        /\ Settle(request, id + 1, At(request.file_id, request.loc_end), kept, Padded(breakpoints), locs_end)
        /\ wanted' = Tail(wanted)
        /\ UNCHANGED <<files, stage>>

FunctionsAdded ==
    /\ stage = "functions" /\ wanted = <<>>
    /\ stage' = "ready"
    /\ UNCHANGED <<files, wanted, breakpoints, sb, created, breakpoint_addresses, announced>>

SetupInit ==
    /\ files \in Seq(Files)
    /\ wanted \in Seq({r \in Requests : r.file_id + 1 \in DOMAIN files})
    /\ SetupStart

SetupNext ==
    \/ SendFiles
    \/ \E locs \in Answers : AddInternal(locs)
    \/ InternalAdded
    \/ \E locs \in Answers : AddFunction(locs)
    \/ \E locs, locs_end \in Answers : AddFunctionAtEnd(locs, locs_end)
    \/ FunctionsAdded

SetupSpec == SetupInit /\ [][SetupNext]_setupVars

-----------------------------------------------------------------------------
(* A breakpoint that LLDB still has is found in the table under its number: the entry has that number *)
(* as its id and is for the place LLDB has it at (debugger.rs:276, asserted at every stop, :311).     *)
PlacesOf(id, request) ==
    IF id <= Len(Internal) THEN {request}
    ELSE {At(request.file_id, request.loc), At(request.file_id, request.loc_end)}

IdsAgree ==
    \A id \in DOMAIN sb :
        /\ id + 1 \in DOMAIN breakpoints
        /\ breakpoints[id + 1].id = id
        /\ sb[id].at \in PlacesOf(id, breakpoints[id + 1].request)

(* A call stops the program once per breakpoint: of the locations in one function exactly one is left *)
(* enabled ("calling this function once would only hit the breakpoint once", debugger.rs:284).        *)
OneStopPerCall ==
    \A id \in DOMAIN sb : id > Len(Internal) =>
        \A k \in DOMAIN sb[id].locations :
            \E j \in sb[id].enabled :
                /\ sb[id].locations[j].symbol = sb[id].locations[k].symbol
                /\ \A i \in sb[id].enabled :
                        sb[id].locations[i].symbol = sb[id].locations[k].symbol => i = j

(* A thread that is stopped at an enabled location is recognised by its address, and an address leads *)
(* to a breakpoint that LLDB still has there (debugger.rs:861, where the other threads are handled).  *)
AddressesResolve ==
    /\ \A id \in DOMAIN sb : \A k \in sb[id].enabled :
            sb[id].locations[k].address \in DOMAIN breakpoint_addresses
    /\ \A a \in DOMAIN breakpoint_addresses :
            /\ breakpoint_addresses[a] \in DOMAIN sb
            /\ a \in AddressesOfAnswer(sb[breakpoint_addresses[a]].locations)

(* A reader of the streams can look everything up: an announced breakpoint is in the table, in a file *)
(* that was announced before it; and no id is announced twice.                                        *)
AnnouncedIsKnown ==
    \A n \in DOMAIN announced : announced[n].key = "breakpoint" =>
        LET entry == breakpoints[announced[n].id + 1]
        IN  /\ announced[n].id \in DOMAIN sb
            /\ announced[n].id > Len(Internal) =>
                    \E m \in 1..(n - 1) : announced[m] = [key |-> "file", id |-> entry.request.file_id]
            /\ \A m \in 1..(n - 1) : announced[m] # announced[n]

(* The tables of the debugger fit what LLDB was made to set, whatever it answered: numbers, addresses *)
(* and announcements lead to the right entry, and a call stops once (debugger.rs:164-302).            *)
TablesFitLLDB == IdsAgree /\ AddressesResolve /\ OneStopPerCall /\ AnnouncedIsKnown
=============================================================================
