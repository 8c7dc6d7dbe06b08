# FireDBG in TLA+

FireDBG runs a Rust program under LLDB, records the calls, returns, panics and
allocations of its functions into a stream, and indexes the stream into a
database. This folder models the parts of it that are hard to test: what is traced
and where the breakpoints are, what the debugger makes of breakpoint hits, how values
are told from registers and memory, written and read, how the stream gets into the
database, and what the command keeps on disk. TLC checks the models on small instances; TLAPS
proves the most important results for every instance.

## The system

    firedbg run ──► source cache ──► debugger ──► .firedbg.ss ──► indexer ──► .sqlite
       (command)   (parser, maps)  (LLDB, target)   (stream)      (batches)   (tables)

| Component | State | Operations | What makes it correct | Module |
|---|---|---|---|---|
| Debugger engine, `debugger/src/debugger.rs` | breakpoint table, address to id, functions read, per thread: frame counter, active frames, type being allocated; recorded allocations | set-up of breakpoints, one handler of a hit with six kinds of outcome, the main loop | its frames are the program's call stacks; its allocations are the heap; no assertion fails; no hit is forgotten | `Setup`, then `Debugger` over `Target` |
| Event stream, `debugger/src/event.rs` | the messages | append call, return, breakpoint | replayable by a stack machine per thread | `CallLog` |
| Value codec, `debugger/src/value*`, `reader.rs`, `rvalue.rs` | environment of references, the reader's stacks | write, read and lift values | what is read is what was written | `ValueEnv` (sharing, limits, errors), `ValueTypes`, `ValueStream`, `Captures` (each type) |
| Return values, `debugger/src/debugger/return_value.rs` | none | from registers and the name of a type to a value | the value that was returned, or opaque | `Abi`, `ReturnValue`, `Captures` |
| Debugger command, `debugger/src/main.rs` | breakpoints and files to trace, the task that shows the output | read the maps, run, end the stream | breaks where the program's functions are; the recording is whole; the prompt comes back | `SourceCache` (maps), `Session` |
| Indexer, `indexer/src/main.rs` | channel, batch, call stack per thread | read, drain, collect, insert | complete, in order, right parents | `Indexer` |
| Indexer database, `indexer/src/database.rs`, `translate.rs` | tables | insert, count hits, exit code | counts agree with rows | `Indexer` |
| Command, `command/src/main.rs`, `parser/src/serde.rs` | `firedbg/`: a map per source, `version.toml` | check version, upgrade, cache, clean, run | maps fit the program that is run | `SourceCache` |
| Configuration and selection, `command/src/cfg.rs`, `main.rs`, `parser/src/def/workspace.rs` | the workspace | which target, which packages to trace, which arguments | what was asked for is built, launched and traced | `Workspace`, `Session` |
| Parser, `parser/src/parsing` | none | functions of a syntax tree, packages of a workspace | every function with a body, once, with a breakpoint inside | `Parser` |
| Protocol, library, LLDB bindings | none | records; `fire::dbg!`; calls of LLDB | | used by `Target`, `Debugger`, `Indexer` |

How they interact: the command runs the parser and the debugger one after the
other and leaves maps on disk for the latter. The engine reacts to stops that
LLDB reports; everything it does happens while the program stands still, but
the program's threads reach breakpoints in any order and several may be at one
when it stops. The indexer is another process (or runs later) and reads the
stream as it grows; inside it, a task feeds a bounded channel that a loop
drains.

The hard behaviours, each listed at its line in `PROJECT.json` ("hazards"): several threads stopped
at once, hits that are reported twice or hidden by a signal, unwinding, ids that
must stay aligned with indices, per-thread state that outlives the step it was
meant for, two questions asked one after the other in a loop condition, files
written in place and trusted by their times, registers that keep what was in them before, a
task that is notified before it waits.

## Modules

- `Target`: the program and LLDB as the engine relies on them (all external to
  the source). A thread is either running or *at* one of the sites that may hold
  a breakpoint. `Enter`, `Leave`, `Interrupt`, `Malloc`, `Allocated`, `Drop` are
  steps of a thread; `Stop` makes the process stop for a hit and selects the
  thread; resuming steps the stopped threads over their breakpoints
  (`StepOver...`) before `Go`, where LLDB may leave threads behind that then
  report the same hit again (`Rereported`). `CaughtPanics`, `Signals`, `Immediate`
  turn on panics that unwind into a `catch_unwind`, stops without a breakpoint, and functions
  that are nothing but a `ret`.
- `Debugger`: the engine. `Handling` is the entry of `handle_breakpoint`
  (debugger.rs:306) for the selected thread first and then every other thread
  at a known address (839-869); the arms are `HandleCall` (384-523),
  `HandleReturn` (768-804), `HandleBreakpoint` (a panic or a trace),
  `HandleExchangeMalloc` (562-635), `HandleAfterAllocation` (636-672) and
  `HandleDropInPlace` (673-735). `Resume` and `Finish` are the rest of the main
  loop. `threads[t]` of the source is split into `frame_id`, `active_frames` and
  `allocating`. An entry of `breakpoints` has its index as id (the default entry 0 is left out), an address leads to the id
  LLDB gave (`created` counts them): that the one is found under the other is part of `TypeOK`, not an assumption.
- `CallLog`: the abstract stream. Calls of a thread are numbered, a return closes
  the innermost open call, a breakpoint is charged to it.
- `Indexer`: the writer is `CallLog`'s `Next` (by INSTANCE) interleaved with
  breakpoints, allocations and the end; `ReadNext` and `Send` are the task,
  `IsEmpty`, `IsDisconnected`, `Drain`, `WaitForMore` the loop's condition and
  body, `ProcessMessage` and the `Insert...` actions one `batch`. The condition
  is two actions because it is two calls.
- `SourceCache`: processes of the command over the folder `firedbg/`. Every file
  operation that another process, a kill or an edit can come between is an action. `Upgrade` replaces the command on disk at any
  time, beneath commands that are at work; `mixed` notes that commands of two versions were at work at once.
- `ValueEnv`: the values of one event. The writer's recursion is an explicit `stack` of calls of
  `write_value`, each with the fields it has still to write and the limit it writes them
  with; `order` and `env` are the linked map of `value_writer.rs`, `AllocEnv` and `Moved` its
  `alloc_env`. `WriteRef` follows a pointer LLDB knows, the first time only; `WriteOpt` follows what
  the writer takes apart itself, each time; `WriteChildren`, `FallBack`, `GiveUp` and
  `FallbackWritten` are `write_union_with` for an enum whose variant LLDB cannot tell;
  `Fail` unwinds to the nearest of these or to the event. `VariableWritten` emits the
  environment from its end (`EmitOrder`), `ReadEntry` and `ReadValue` are the reader.
- `Parser`, `Workspace`, `Setup`, `Session`: a series of `firedbg` commands. `Parser` are the
  functions of a syntax tree (a sequence of items with their parents, and a layout of the text)
  and the two places of each for a breakpoint. `Workspace` is what a command works out before anything
  runs: packages, the target (`Choose`), what it is built with and where its executable is, firedbg.toml,
  what `list-target` offers, and what the debugger reads from its arguments; `Lists` are the two ways with
  lists that both share, and that can be proved about. `Setup` is `Debugger::run`
  up to the launch (debugger.rs:164-302): LLDB answers each request for a breakpoint with any locations.
  Where none is the function asked for the breakpoint is deleted, its number is lost, and the other
  end of the body is tried (`AddFunctionAtEnd`); of several in one function all but one are disabled (`Settle`).
  `Session` composes them: `Dispatch`, `Cache`, `Build` are the command; `Connect` to `Join`
  firedbg-debugger, whose set-up is `Setup`'s and which may fail (`ReadFails`, `EndFails`)
  or panic (`EnginePanics`) on the way; `TailCreates` to `TailDrains` the task that shows the
  output. A scenario (a workspace, commands, what goes wrong) is chosen at the beginning.
- `ValueTypes`: types as LLDB has them (trees) and as the debugger parses them from names (`FromStr` on
  names cut into pieces), with sizes, `boildown` and `peeloff`.
- `Abi`: rustc's side, external: how a value is laid out, in which registers it is returned, what is in memory.
- `ValueStream`: the tokens `value_writer.rs` writes, `write_value` of a value in memory, what the reader
  makes of each, and `lift` (rvalue.rs).
- `ReturnValue`: `write_return_value`, one operator per case.
- `Captures`: from the return to what is shown. `WriteReturn` writes the event, or the
  debugger panics; `ReadOperand` to `ReadUnion` are the tokens of `read_values` with its stacks; `Lift` ends it.
  `IsFound` are the types whose values the writer's cases find where rustc puts them, built up from what each case
  expects in the registers; `Misguessed` are the values of these of which a Result's tag is guessed wrongly.
- `MCDebugger`, `MCIndexer`, `MCSourceCache`, `MCValueEnv`, `MCSession`, `MCCaptures`: instances for TLC. An operator named
  like another with an underscore and a word more (`Padded_Not` of `Padded`) is a mutant of it, changed as a bug would; no
  definition uses it: a run in which it stands for its original must fail.
- `DebuggerProofs`, `MirrorProofs` (extends it), `CallLogProofs` and `HeapProofs` (both extend `MirrorProofs`), `IndexerProofs`,
  `SourceCacheProofs`, `ValueEnvProofs`, `SessionProofs` (with those of `Setup`): proofs.

`Debugger` implements `CallLog` (the property `ImplementsCallLog`: the log is the
event stream, `calls` the frame counters, `open` the ids of the active frames);
`Indexer` takes `CallLog` for granted. Together: what the debugger writes, the indexer can replay.
`Session` starts every debugger with the table of `SetupStart` and changes it by `Setup`'s actions only;
`Debugger` begins where the set-up ends.

## Runs

| Run | Instance | Shows |
|---|---|---|
| `calls` | 2 threads with 4 hits and 1, 2 functions with frames of different size | `MirrorsTarget`, `AssertionsHold`, `StreamShowsStack`, `PlantedOnce`, `BreakpointsAreAttributed` under every interleaving and repeated reports |
| `calls_progress` | 2 threads, 2 hits each, 1 function | liveness: hits are handled, nobody is stranded (a stopped program goes on, the exit is sent) |
| `hostile` | 2 threads, 2 hits each; caught panics, signals, repeated returns, `ret`-only functions | the stream is still a `CallLog`: what is missing or wrong in it breaks no reader |
| `allocations` | 2 threads, an `Rc` and a closure, 3 addresses | `RecordIsTheHeap`, and what is announced of an address alternates |
| `indexing` | 2 threads, channel of 2, 4 events | right parents, no assertion fails, nothing lost, doubled or reordered, hit counts |
| `indexing_progress` | channel of 1, 2 breakpoints | liveness: indexed, and ends |
| `caching` | 2 processes, 3 commands, 2 edits, 1 upgrade, kills | undisturbed, the debugger gets the maps of the program it runs; stored ages tell; upgrades are complete unless two versions of the command were at work at once |
| `values` | every memory of 3 objects with few pointers of any kind or 5 of one, 1 or 2 variables, limits 5 and 8 | trees are read back as they are in memory; nothing referred to is missing; what is followed once is written once; where sharing is harmless; writing and reading end |
| `session` | every syntax tree of up to 3 items and some of 4, in 2 layouts; 12 workspaces of two packages with every command and configuration; 2 functions with every answer of up to 2 locations; series of commands with output of up to 3 characters | `WorkspaceIsReadRight` (functions are found, nested as in the source, with breakpoints inside, and the right crate; what is offered can be run; what is traced is what was asked for), `CommandsDoAsAsked` (so is what is built, launched and indexed), `TablesFitLLDB` (ids and addresses agree with LLDB's, one stop per call); recordings are whole, or their debugger failed, and kept; the output is shown; every command ends |
| `captures` | 2028 types, a few values each, two generations of rustc, two kinds of leftovers in registers and two places of a wide tag | of the about 1100 types that are found (`IsFound`), what is shown of a return value is that value, in full, and the writer does not panic; of the others, that it panics at two assertions only; of all, that the reader finds its operands and references resolve |
| `dont_trace_allocation`, `lost_tail` | smallest | counterexamples, see Findings |

Bounds. `MaxHits` bounds the breakpoints each thread runs into. Two per thread
give a call in a call, a panic in a call and every pair of threads at any two
sites; four in one thread give recursion, siblings and returns between them,
beside another thread that may be stopped anywhere. Two
threads suffice for the engine because a handler touches the state of one
thread and the shared tables only (and the theorems are for any number).
Frames of different size are needed for the
stack-pointer tests to differ from equality. Of the addresses 32, 48 and 80 of `allocations`, 48 is where the value of an `Rc` at 32 is (+16): one of
the two can be used when the other is free, and what was recorded of the one must not be taken for the other. The
allocator gives no address inside a value that is there (`Vacant`); 80 is apart from both.
`allocations` has no zero-sized type beside the closure: see Findings. For the
indexer, a channel of two and four events give batches of none, one and several,
and a chain after the wait (a batch of three); with four events a call can
return below another one in the same thread. Three commands and two edits give
an edit before and after a map is cached, a kill at any step followed by
two more commands, and an upgrade in between; one source is enough because
sources are dealt with one by one, and the version file is the other entry.

For values, three objects in a
row and two pointers to one of them are enough for an order of the environment
to matter, and for cycles of one, two and three; the limit 5 cuts the
deepest of these memories and 8 none of those without cycles. Objects are alike, so of memories that
differ in their numbers only, one is taken (`Numbered`): a symmetry set would not
do, liveness being checked in the same run. Memories in which the writer does not end
(see Findings) are left out by `Endless`.

For `session`, three items give every way an item can be in another, and a fourth below a third a function
three deep. Two packages beside each other, and one around the other in both orders, with the same names in both or not, are
what prefixes and first matches can be confused by. Two locations are enough for a duplicate in a function,
for one that is rejected beside one that is not, and for two functions; both functions are set from the same answers, so
an id can be lost before, between and after. Output in characters of one and two bytes is cut anywhere by the task's reads.

For `captures`, payloads are 0 and 6: 0 looks like a tag where nothing else is in the register, and 6 cannot be
taken for one. `Stale` gives 0 and 238 for the bytes a register keeps from before. `MaxArray` of 4
cuts vectors of 5, arrays of 8 and 16, and strings before, between and within characters of one to four bytes. The
types are systematic: every pair of 22 types (pointers, floats, arrays, unit, structs, `Option`s and others) as the fields of a tuple and of
a struct, every pair of 27 as the sides of a `Result`, most single types in an `Option` and in a struct of one field, tuples of three, hash maps
and sets, vectors. So the properties do not name what fails but what is found: a type that is not in `IsFound`
is one of which some value, in some registers, is not shown as it is, or one of which nothing is claimed.

Deadlock is checked for the engine, the indexer, the values and the captures, where the end states have
an explicit `Done`; not for `SourceCache` and `Session`, whose commands are bounded in number.

Symmetry is used for threads and processes where they are alike, in runs without liveness only.

Fairness. `Debugger`: weak fairness of LLDB reporting a hit (`Stop`), stepping over
and resuming, and of the main loop's steps, which a single thread executes in a
`loop` with a one-second wait; none of the program, which may compute for ever.
`Indexer`: weak fairness of the task and of the loop, which the async runtime
polls; none of the debugger that writes. `SourceCache` has no fairness: its
properties are safety. `ValueEnv`: weak fairness of the writer and
of the reader, both sequential code. `Session`: weak fairness of
the command and of the debugger, which are sequential, and of the task, which tokio polls when there is something
for it to do. `Captures` has none: its properties are safety. Liveness of the end of the indexer is stated for a stream that ends.

## Proofs

TLAPS proves what follows for all values of the constants (any threads, functions, frame sizes, call sites,
addresses, files, bounds, memories, scenarios). Each invariant below was an invariant of a run of TLC before it was proved.

The debugger:

- `TypeCorrect` and `OneBreakpointPerAddress` (`DebuggerProofs`): `Spec => []TypeOK` and `Spec => []PlantedOnce`. The type
  is not inductive alone: that an
  id read from an address leads to a breakpoint of the right kind needs `TableOK`
  (the kind of every breakpoint follows from its address, the internal ones
  have the ids 1 to 4, an address leads to the breakpoint planted there, and a
  thread at `exchange_malloc` is inside a `Box::new`). `TypeInv == TypeOK /\ TableOK`. No address gets a second breakpoint
  because one is only planted with its function noted as read, or its site as known (`TableInv`).
- `MirrorsTheTarget` and `AssertionsNeverFail` (`MirrorProofs`): `Spec => []MirrorsTarget`
  and `Spec => []AssertionsHold`, assuming `Orderly`: no panic is caught, no signals, no
  `ret`-only functions, and a return is not reported twice. Each of the first
  three is needed: a caught panic leaves frames behind (see Findings), a signal
  or a function that is only a `ret` hides a return. The invariant is `TypeInv /\ MirrorInv`,
  which adds to the two results that breakpoints are planted wherever threads get trapped,
  that recorded frames stand at calls whose return is planted, that the stack
  descends (so that the stack pointer of a recursive call differs from the
  recorded one: the heart of why the test for repeated hits is right), that a
  thread at a call or return runs that function, and that no thread is left behind at a return.
- `KeepsTheCallLog` and `ReturnsComeAfterCalls` (`CallLogProofs`): `Spec => ImplementsCallLog` and `Spec => []ReturnsAreAnnounced`,
  assuming `TraceAllocation`
  and nothing of the program: caught panics, signals and `ret`-only functions
  included. Every step of the engine maps to a step of `CallLog` or a stutter. Without `TraceAllocation`
  the second is false: the run `dont_trace_allocation`.
- `TheStreamShowsTheStack` and `BreakpointsAreChargedRight` (`CallLogProofs`): `Spec => []StreamShowsStack` and
  `Spec => BreakpointsAreAttributed`, an action property, assuming `Orderly` and `TraceAllocation`. That the stream and the table of frames fit (`Fits`, for
  any stream and any table) is what holds them together: calls of a thread are numbered as they come, the frames on record
  are in that order, what is open in the stream is on record and the other way round. With `MirrorsTarget` the frames are the stack;
  that the i-th open call is the i-th function on it is a lemma about two rising numberings of one set.
- `TheRecordIsTheHeap` and `AllocationsAndDropsAlternate` (`HeapProofs`): `Spec => []RecordIsTheHeap` and
  `Spec => []AllocationsAlternate`, assuming `Tidy`: allocations are traced, no signal hides a hit, and the program does not box both
  closures and values of no size. The last is a finding (see there), the others are what the handlers rely on. Nothing is assumed of
  panics and frames. The invariant (`HeapInv`) follows a box from its call site: the type
  the debugger has noted for a thread is the one that is being allocated from `Announced` on, the address is `Fresh` until the
  hit after the allocation is handled, a value is held by one thread at a time
  (`HeldAlone`), and nothing is allocated where the value of an `Rc` is (`BlocksApart`). The stream alternates because its last entry
  of an address says whether the address is on record, and with which type (`LastSays`).

The values, of `ValueEnv`, for every memory and every limit (`ValueEnvProofs`); the first two with cycles, fields that cannot be read and
enums of lost variant, of the others each says which memories it is about:

- `EnvFitsCalls` and `NothingIsForgotten`: `Spec => []TypeOK` and
  `Spec => []RefsAreSet`. `RefsAreSet` speaks of the event when it is
  written; the invariant says why it will hold: every address that is allocated is
  set, or being written, or leads to a field that cannot be read (`AllAccounted`), and
  every reference written is to an allocated address (`RefsAllocated`). An error drops
  the objects being written, so each of them must lead to the field that failed: an object
  leads to all objects above it in the call stack (`Descends`), and what a call has still to write
  belongs to its object (`StackOK`).
- `ReferencesAreWrittenOnce`: `Spec => []WrittenOnce`. An object is in one place: being written, set in the environment, or in one
  entry of the event (`OnePlace`), and it is then allocated, so that a reference to it is not followed; nor is it begun twice on the
  stack (`BegunOnce`). Only memories without pointers that are followed each time are claimed (`OnceInv`).
- `SharedIsResolved`: `Spec => []SharedResolve`, in four layers, each an invariant on top of the one before. `MemInv` says where in memory
  the calls are: each call writes a field of the object of the call below it (`CallsFollow`, `Chained`), and what is set in the
  environment is of the shape of its object (`EnvFollows`). `PathInv`: where only leaves are shared, a pointer to anything else
  is met once (`MetOnce`), and what is being written is in the environment in the order in which it was begun (`InOrder`). `Calm`: an object that is
  referred to is behind all that refer to it, be that set in the environment, on the call stack or in the event
  (`EnvInOrder`, `CallsInOrder`, `OutInOrder`), so it is emitted before them. `ReaderInv`: the reader goes through the event in that order, so it knows
  what a reference is to when it comes to it.
- `TreesAreReadBack`: `Spec => []TreesReadBack`, of memories in which no object has two pointers, nor one from an enum of lost variant (whose
  target is written twice, and counts as shared). The invariant (`TreeInv`) says that in a tree there is a function `d` that gives each address the depth
  that is left when its object is written (a tree has one such depth for each, and a cycle none). Then every call
  writes what `ShownAt` says of its field at the depth left (`CallsDeep`), an object
  in the environment or in the event is what `ShownAt` says at its `d`, with its pointers two levels further down
  (`DeepEnv`, `OutDeep`), a call that comes to a field that cannot be read is of a variable that will be opaque, and what the reader
  has read is what is expected at that depth (`ReadDeep`). A step changes `d` only where nothing is allocated yet. TLC checked this invariant, with
  `d` as an existential, on the memories of `Values` before it was proved.

The indexer (`IndexerProofs`), for any bounds, batches and interleavings: `IndexerTypeCorrect` (`TypeOK`), `EveryMessageIsIndexed`
(`NothingLostOrReordered`), `AssertionsHold` (`NeverFails`), `HitsAreCounted` (`HitCountsMatch`) and `ParentsAreRight`
(`ParentsAreCallers`). One invariant (`Inv`) carries them: what is written is a log of calls (`Written`); what the batch, the channel and the task hold is
what was read and not yet stored (`Flowing`, `Stored`); hits counted are hits stored (`Counting`); and the stacks of the indexer are those that `CallLog` had
after the events it has processed (`Replayed`): a stream that was a log at every
point in time has a history that can be gone through again. The indexer asserts just what that history says of a return.

The source cache (`SourceCacheProofs`), for any files, processes and bounds: `CacheTypeCorrect` (`TypeOK`), `OldMapsNeverPass`
(`PinnedMapsAreCurrent`), `AgesAlwaysTell` (`AgeTells`) and `BreakpointsAlwaysFit` (`BreakpointsFit`). `VersionInv`: while the folder is made anew, what is
of another version is on the list of what is still to be removed (`OldIsListed`), and the version is written last; it is
claimed as long as nothing is `mixed` (`MixedInv`). `TimesInv`: a
command notes the time of a source before it reads it, so the functions it
noted come from a version between that time and now. `QuietInv`: while
nobody was disturbed, at most one command works, and each file but the one it is at has a map of its source.

The set-up and the series of commands (`SessionProofs`):

- `TablesAlwaysFit`: `SetupSpec => []TablesFitLLDB`, by way of its four parts (`IdsAlwaysAgree`,
  `AddressesAlwaysResolve`, `CallsStopOnce`, `AnnouncedIsAlwaysKnown`), for any files, functions, answers of LLDB and internal breakpoints. The argument is a count: the table
  has one entry more than LLDB has given numbers (`Shape`), before and after every step, since the one number
  that is lost with a deleted breakpoint gets a default entry. So an entry is appended
  exactly at the number LLDB is about to give. To that the invariant adds that entries are for functions that
  were asked for, that what is enabled is one location per symbol, and that files are announced before breakpoints.
- `TablesAlwaysFitInSessions` and `SessionsAreWellFormed`: `Spec => []TablesFitLLDB` and `Spec => []TypeOK` of `Session`. The first
  needs that what a debugger reads from the maps is what `SetupSpec` may start with: every source has its map from the time the
  sources were parsed (`MapsThere`, which the absolute path of a source and the one behind the root of the workspace lead to
  alike, `BehindRoot`), the functions of a map are a list, and each is given the number of a file that will be announced
  (`ReadIsReady`). From there the set-up takes steps of `SetupSpec` only (`SetupGoesOn`), and every way a debugger ends puts it
  back to the start (`BeginsAnew`). The second adds `Counts` (what is cut off, shown and written) and `Control`.
- `MapsAreOfTheirSources`: `Spec => [](FunctionsFound /\ NestedFunctionsAreMarked /\ BreakpointsAreInside)`, for any tree of
  items, by lemmas about `Parser` alone. The items are in the order of the source, each behind the one it is in, so what is
  around an item, what is inside one, and what `parse_file` finds from an item on are functions with an equation each, found by an induction
  over sets of numbers (`SetInduction`). `FindsAll` says that the list has each function once and in order; the item last inside another comes before what is
  behind it, so that the places of braces are in order in either layout (`AllInOwnBody`).
- `WorkspaceIsAlwaysReadRight`: `Spec => []WorkspaceIsReadRight`, for any number of packages, targets and sources. To the theorem before it
  adds three facts about `Workspace`. A map has the crate of the first package its source is under (`CratesWritten`), which is its own or one
  around it (`CratesOfSources`). What `list-target` offers is found again (`OffersRun`): the first package with a target of that name is the one that
  was offered, or one before it, which is the exception for tests. And the sources of a debugger are those beneath the directories of the packages
  whose trace setting is not none (`SourcesAre`), from arguments that are written by one program and taken apart by the other, so
  that with the assumption on directories they are the ones asked for (`TracesAreAsked`).
- `RecordingsAreWhole` and `FinishedRecordingsAreKept`: `Spec => []RecordingIsWhole` and `Spec => RecordingsAreKept`, an action
  property. `WholeInv`: the debugger at work is the one that writes
  the last recording and no other (`Books`), the set-up only announces files and breakpoints (`Announces`), and how far the recording is
  follows from where the debugger is (`Sending`). A debugger that panics or returns an error is noted as such in `results`, and only these
  leave a recording without end.
- `EveryCommandDoesAsAsked`: `Spec => []CommandsDoAsAsked`. `JobInv`: the job of a command is the target that was chosen for it
  until the end, and once it is built its executable is the one cargo made (`Built`), since the command looks
  where cargo puts it (`FoundWhereMade`), for each of the four kinds of target. `GivenInv`: what `index` and `open` took is
  the newest of the recordings that were there, later ones notwithstanding.
- `AllOutputIsShown`: `Spec => []OutputIsShown`. The task is only notified when the program has ended (`OutputInv`). What is claimed is of a task that is
  done and of what was written since it created its file: not of what that cut off, of a task that failed, nor of a late watcher.

Assumptions of the constants, which TLC evaluates in the runs: `FunctionsAssumption`, `HeapAssumption` (`Free` is no type),
`SwitchesAssumption` (`Target`), `UserFunctionsAssumption` (`Debugger`), `EventsAssumption` (`ValueEnv`: memories are finite functions), `SetupAssumption` (`Setup`),
`CacheAssumption` (`SourceCache`: what stands for no map, no version or no functions is not one) and `BoundsAssumption` (`Indexer`).
`ScenariosAssumption` (`Session`) says of a scenario that commands, answers of LLDB and paths are lists, that no two sources have the same path,
and that their items are a tree. `WorkspacesAssumption` is what cargo and the file system give: packages have names of their own and are where the workspace
is or beneath it, each source is in one of them, and it is beneath a directory `src`, `bin`, `tests` or `examples` of just the package cargo takes
it for. A package inside another is among these, and `session` has scenarios with one; not so one inside `src` of another (its sources would be traced with
both), nor the package beside the workspace that counts as inside (see Findings). That `None` is nothing of this is said in the same place. What
`parse_workspace`, the choice of a target and the globs make of it is assumed nowhere.

The proofs have one lemma per action, or one for several that do the same to the state. `SelectSeq`, `SortSeq` and
`SetToSortSeq` are opaque to the provers, so models that are proved about say what they keep in another way: `Of` in `Indexer` is a recursive
function (its equations are proved by an induction over sets of numbers, `SetInduction`), and so are `ShownAt` and
`UnreadableAt` in `ValueEnv`, what is to be read of a field at a depth (`NatSetInduction`, `BothExist`), and the filter `Those` in `Lists`; the open calls of a thread in
`Debugger` are a set of indices, and the newest recording in `Session` is the one that as many are not older than.

Only model-checked:

- every liveness property (fairness and ENABLED are out of the prover's reach);
- `Captures`. RECURSIVE operators are only in `ValueTypes` and the modules above it, which are about trees: what a recursive definition
  computes for every input is a matter of induction over data.

## Findings

The first two are runs that TLC finds violated; `PROJECT.json` quotes the lines.

1. `dont_trace_allocation`: with DONT_TRACE_ALLOCATION the first two traced
   functions get the ids of the missing allocation breakpoints; their returns are sent without their calls,
   and the indexer stops at them.
2. `lost_tail`: the indexer may leave the last messages in the channel and report success.

The others were met while modelling; the properties except them, by name or by a condition, or the modules leave them out.

The engine and the value writer:

- Frames unwound by a caught panic stay active; the next call fails an assertion (debugger.rs:401). `Orderly` excludes it.
- An object already written that is met again is moved to the end of the environment alone (value_writer.rs:164);
  what it refers to stays where it was and is emitted after it, so the reader finds its references
  unresolved, although the deepest is meant to be first (value_writer.rs:20).
- `write_union_with` writes the assumed variant with the limit it was created with, not with
  what is left of it: a cycle through an enum of lost variant whose pointers are
  followed each time is written without end (`FallBack`; `Endless` in `MCValueEnv`). Such an
  enum also writes its pointer twice, and can break the order of the environment by itself.
- A function that is only a `ret` is seen to return the first time only.
- The type of a zero-sized box is noted at the second hit of its call site, though no
  breakpoint follows its allocation, and recorded for the closure boxed next:
  `RecordedTypesAreRight` holds where a zero-sized type and a closure do not
  meet, as in `allocations`.

The command:

- A source saved while it is cached is skipped, with the map of its old
  version, until it is saved again. A command killed while it
  writes a map leaves an empty one that is skipped likewise.
- A command killed while it pins the version leaves an empty `version.toml` that stops every command,
  `clean` included (`CheckVersion` to "failed").
- A command of an older version that is still at work when one of a newer version has made the folder anew writes its map
  behind the new version's back (command/src/main.rs:546, :593), and no later command removes it (`mixed` in `PinnedMapsAreCurrent`).
- What the program prints before the task has created its file is truncated (debugger/src/main.rs:236); a late file watcher
  (:253) loses the end; a read that ends within a character stops the task (:298). `OutputIsShown` excepts them.
- The recording is created (debugger/src/main.rs:114) before the maps are read (:197): one that is missing or damaged
  leaves a recording with neither exit nor end.
- A debugger that panics leaves a recording without end (:262), and the command takes no notice (command/src/main.rs:857).
- The map of a source in a package inside another's directory, listed first, names the outer crate
  (command/src/main.rs:498, :520; excepted in `CratesAreRight`).
- Of two tests of one name the first is taken, while the cases of both are offered (:240; excepted in `ListedIsRunnable`).
- A package beside the workspace whose path begins with the workspace's as text counts as inside (parser/src/parsing/workspace.rs:26).
- `firedbg index 0` underflows (command/src/main.rs:376).

Return values and types. `IsFound` in `Captures` is the answer to which returned values are recorded as they are; what is outside it, by line of
return_value.rs where no file is named, is less than the list in debugger/src/lib.rs:49-61 ("One or two primitives",
"`Option<T>` and `Result<T, E>`; where `T` & `E` is no bigger than 64 bits") says.

- Another value may be shown: fields of a type whose name does not tell its size, `Option<&T>` or `Option<Box<T>>` beside another field
  among them, are read at the address that is the value (:1219); a float beside an integer, and what follows a float or nothing, is
  read from the wrong register (:1199), as are fields that rustc puts in another order than they are declared in; a `bool` is true if anything is
  left in the rest of its register (:78, :150); an array in an `Option` is taken for `None` if its first bytes are 0 (:640); a `Result` of an integer and a
  float, of a bool and an integer, and of others that share no case, is told by whether rax looks like a tag (:1032-1048).
  Of the types that are found, the place of the tag of an `i128` is (`TagInBoth`, :825), and whether tag and payload share a register is
  (`Squashed`, :957), guessed wrongly for some values. `Result<(A, B), C>` is cut at the wrong comma (value/value_type.rs:327), and a hash map's
  bucket of unknown type is taken to have its key first (value/writer.rs:437).
- The recording ends with a panic: `Result<T, E>` with what is no primitive on one side and 0 or 1 in rax, as of `Ok([0; 3])` of
  `Result<[u8; 3], u8>`, and since LLVM 18 for `Result<&T, i64>` (`NoPrimitive`, :1043, :1045); a struct with a pointer to a boxed trait
  object as the second field (`ObjectFromRdx`, :345).
- Opaque, though readable: `&mut` of a slice, string or trait object (value/value_type.rs:235); a `Result` of two kinds whose payload in
  rax is taken for an address (:1032); tuples of a struct (:1138), structs of a trait object (:376) or of a reference where a pointee is expected (:255);
  enums with fields (:1097); hash maps with an `Option`, or with an array whose size is no alignment, in their buckets (value/value_type.rs:442).
- With MAX_ARRAY_SIZE=0 a hash map's count of items underflows (value/writer.rs:449). This is outside the model.

## Abstractions worth knowing

- `Target` stands for LLDB: it is as liberal as the engine's code suggests LLDB
  is (the code guards against repeated hits and several stopped threads), and
  says nothing of hits LLDB would miss. Thread ids are not reused. A thread
  stops in traced code at its sites only.
- `Target` drops whole values. `drop_in_place` of the field at offset 0 of a boxed value that lives on has the address of the box, and would be
  recorded as the drop of it (debugger.rs:673-735): such programs are outside the model. So is an `exchange_malloc` that no `Box::new` calls, which the handler
  passes over (:562-635).
- Before a call of a function with an extended prologue is recorded, LLDB is told to run the thread on to its end (`run_to_address`,
  debugger.rs:519). In the model the thread stays at its site; what LLDB makes of this while a stop is dealt with is left out.
- Endpoints of futures (`FutureEndpoint`, debugger.rs:524-541) are not in the tables `Debugger` starts with: only a test asks for them.
- Inlined frames, of which the engine looks for the caller, are resolved: a site is
  the address the engine ends up with.
- A box without drop glue is not dropped in the model; every value is.
- The indexer's file holds whole messages; the files table, the flush every
  10000 messages and the JSON columns are left out. `WriteExit` and the stop of
  writing at any time include a debugger that dies.
- A value in `ValueEnv` is a list of fields, whatever container holds them, and an
  object has its address to itself: a reference to a struct and one to its first field, which share an
  address in memory, are not told apart from two references to either. `Option`,
  `Rc` and `Box` around a pointer are the pointer. How each type is written, read and lifted
  is in `ValueStream`; there nothing is shared.
- `Abi` is x86-64 as the source's comments and cases have it, with what changed in LLVM 18
  as a switch (`llvm18`). A register holds a part of one or two bytes with the rest as it was (`Stale`), one of four with the rest 0;
  fields of larger alignment come first, and among equals those with more unused values (`spare`), as rustc orders them for niches;
  enums whose layout rustc could compress further than by a niche of one field (`HasLayout`) are not laid out, and nothing is
  claimed of them. The tag of an `Option` or `Result` of 16 bytes is left
  in rcx or rdx as the code expects. Addresses and lengths fit a byte. The buckets of a hash map are in some order, and shown in it.
  No returned type is a `NonNull`, which only its arm in `FromStr` is there for.
- Names of types are cut into the pieces `FromStr` looks at; paths and lifetimes in them are left out.
- In `Session` the engine is one step from the launch to the end: calls are `Debugger`'s. The text of a file is one of two
  layouts; names are numbers or symbols. The time in the name of a recording is the number of runs before it.
- Paths are sequences of names and separators, so that a prefix of one need not end at a separator.
- Times in `SourceCache` are fine enough that an edit is younger than what was
  written before it.

## Not modelled

- The search for return instructions (disassemble.rs) and everything LLDB does; LLDB is what `Target`, `Setup` and `Abi` say of it.
- aarch64: its calling convention is other code in every function of return_value.rs.
- The printing of values (protocol/src/value.rs:279-976) and of the console: layout, with no state.
- `redact_addr`, io::Error and thread handles in the value codec.
- The indexer's validator and the columns of text and JSON; the probe for layouts (debugger/probe.rs), which calls rustc, but
  for what it answers (`bucket_align`), and the timers.
- The library's macro (library/src/lib.rs) but for its call of `__firedbg_trace__`.
- The bindings of LLDB, which are vendored.

## Plan

Next, in this order:

1. Proofs: what of `Captures` does not depend on recursion.
2. Abstract specifications: a store of objects for `ValueEnv`, a FIFO from file to table that `Indexer` implements, a
   journal of recordings that `Session` implements.
3. The files table and the flush of the indexer; the validator.
4. The aarch64 branches of `ReturnValue`, over an `Abi` of their own.
