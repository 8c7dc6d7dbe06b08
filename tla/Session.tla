------------------------------- MODULE Session -------------------------------
(***************************************************************************)
(* `firedbg` commands, one after the other, on one workspace: the command  *)
(* (command/src/main.rs) selects a target, parses the sources, builds, and *)
(* starts firedbg-debugger (debugger/src/main.rs), which reads the parsed  *)
(* functions, sets the breakpoints (Setup), launches the program, and has  *)
(* a task that shows what the program prints; the recording it leaves is   *)
(* what `firedbg index` and `firedbg open` take.                           *)
(*                                                                         *)
(* The recording of calls is not here but in Debugger: the engine just     *)
(* runs until the program ends, or panics.  A scenario says what the       *)
(* workspace is and what the user does; it is chosen once.                 *)
(***************************************************************************)
EXTENDS Setup, Workspace, Parser

CONSTANTS Scenarios

VARIABLES
    scenario,       \* [raw, files, config, cases, commands, answers, troubles, output]
    todo,           \* the commands the user has still to give
    pc,             \* how far the command and the debugger are
    job,            \* what the command works on
    ws,             \* the workspace as it is parsed, by every command anew
    maps,           \* firedbg/**/*.rs.firedbg.map: [at, path, functions, crate_name]
    executables,    \* target/: path -> what cargo was asked for
    recordings,     \* *.firedbg.ss, in the order of their creation
    given,          \* `firedbg index` / `open` of number n: [idx, took, seen]
    tail,           \* the task that shows the program's output
    permit,         \* Notify: notify_one was called and not yet consumed
    wrote, lost, printed,   \* bytes: written by the program, cut off by File::create, shown
    results         \* how the debuggers ended

commandVars == <<scenario, ws, todo, maps, executables, given>>
tailVars    == <<tail, permit, wrote, lost, printed>>
vars == <<setupVars, commandVars, pc, job, recordings, tailVars, results>>

command    == Head(todo)
PathsIn(s) == [k \in DOMAIN s.files |-> s.files[k].path]
Paths      == PathsIn(scenario)
FileAt(path) == CHOOSE file \in Range(scenario.files) : file.path = path

NoJob == [selected |-> None, argv |-> <<>>, arguments |-> <<>>, paths |-> <<>>, executable |-> None, output |-> None]

Init ==
    /\ scenario \in Scenarios
    /\ ws = parse_workspace(scenario.raw)
    /\ todo = scenario.commands
    /\ pc = "prompt" /\ job = NoJob
    /\ maps = {} /\ executables = [path \in {} |-> None]
    /\ recordings = <<>> /\ given = {}
    /\ files = <<>> /\ wanted = <<>> /\ SetupStart
    /\ tail = "none" /\ permit = FALSE /\ wrote = 0 /\ lost = 0 /\ printed = 0
    /\ results = <<>>

-----------------------------------------------------------------------------
(* The command *)

IsRun(cmd) == cmd.kind \in {"run", "test", "unit-test", "example"}

Arguments(s, workspace, selected) ==
    PackageArguments(workspace, parse_trace_config(s.config, workspace, selected.package))

SourceFiles(s, arguments, sort) == src_files(PathsIn(s), s.raw.root, arguments, sort)

\* What the user does is a sequence of commands; what is written is counted in bytes, and LLDB answers with
\* lists.  A source has a path of its own, its items are a tree, and it is written in one of two ways.
ASSUME ScenariosAssumption ==
    \A s \in Scenarios :
        /\ s.commands \in Seq(Range(s.commands)) /\ s.output \in Seq(Nat)
        /\ \A locs \in s.answers \cup s.internal : locs \in Seq(Range(locs))
        /\ s.files \in Seq(Range(s.files))
        /\ \A f \in Range(s.files) :
               /\ f.path \in Seq(STRING) /\ \A g \in Range(s.files) : f.path = g.path => f = g
               /\ IsTree(f.tree) /\ f.layout \in {"lines", "tight"}

\* The packages of the workspace have names of their own and are where the workspace is, or beneath it.  A
\* source belongs to one of them, and is beneath one of its directories just when cargo takes it for part of
\* that package there.  firedbg.toml knows three ways to trace, and nothing of all this is None.
ASSUME WorkspacesAssumption ==
    \A s \in Scenarios :
        LET packages == Range(parse_workspace(s.raw).packages)
            names    == UNION {Range(p.bin) \cup Range(p.test) \cup Range(p.example) : p \in packages}
            cases    == UNION {UNION {s.cases[p.name][name] : name \in Range(p.test) \cup {"lib"}} : p \in packages}
        IN  /\ s.raw.root \in Seq(STRING) /\ s.raw.packages \in Seq(Range(s.raw.packages))
            /\ \A p \in Range(s.raw.packages) : p.targets \in Seq(Range(p.targets))
            /\ \A p \in packages :
                   /\ p.name \in Nat /\ p.root_dir \in Seq(STRING)
                   /\ \/ p.root_dir = s.raw.root
                      \/ Under(p.root_dir, s.raw.root) /\ Behind(p.root_dir, s.raw.root) # <<".">>
                   /\ \A q \in packages : p.name = q.name => p = q
            /\ \A f \in Range(s.files) :
                   /\ \E p \in packages : p.name = f.owner /\ Under(f.path, p.root_dir)
                   /\ \A p \in packages, dir \in {"src", "bin", "tests", "examples"} :
                          Under(f.path, p.root_dir \o <<"/", dir>>) <=> (p.name = f.owner /\ f.in = dir)
            /\ \A name \in DOMAIN s.config.members : s.config.members[name] \in {"none", "call-only", "full"}
            /\ None \notin packages /\ None \notin names
            /\ None \notin [package : packages, sort : {"bin", "test", "unit-test", "example"},
                            target : names \cup {"lib"}, testcase : cases \cup {None}]

\* A run: the target, firedbg.toml, the arguments; or an explanation and exit(1).
GiveUp ==
    /\ todo' = Tail(todo)
    /\ UNCHANGED <<pc, job>>

Dispatch ==
    LET selected == Choose(ws, scenario.cases, command)
        argv     == Argv(scenario.config, command, selected)
    IN  /\ pc = "prompt" /\ todo # <<>> /\ IsRun(command)
        /\ \/ selected = None /\ GiveUp
           \/ selected # None /\ argv = None /\ GiveUp
           \/ /\ selected # None /\ argv # None
              /\ job' = [NoJob EXCEPT
                    !.selected  = selected,
                    !.argv      = argv,
                    !.arguments = Arguments(scenario, ws, selected)]
              /\ pc' = "cache"
              /\ UNCHANGED todo
        /\ UNCHANGED <<setupVars, scenario, ws, maps, executables, given, recordings, tailVars, results>>

\* cache_workspace, where no map is older than its source: the first package that has the file writes it.
MapPath(path) == <<"firedbg">> \o SubSeq(path, Len(scenario.raw.root) + 1, Len(path))

CrateOf(path) ==
    FirstOf(ws.packages, LAMBDA package : Under(path, package.root_dir)).name

Cache ==
    /\ pc = "cache"
    /\ maps' = maps \cup
        {[at |-> MapPath(file.path), path |-> file.path, crate_name |-> CrateOf(file.path),
          functions |-> parse_file(file.tree, file.layout)] :
            file \in {file \in Range(scenario.files) :
                        /\ \E package \in Range(ws.packages) : Under(file.path, package.root_dir)
                        /\ \A map \in maps : map.at # MapPath(file.path)}}
    /\ pc' = "build"
    /\ UNCHANGED <<setupVars, scenario, ws, todo, executables, given, job, recordings, tailVars, results>>

\* cargo build; a panic when the target does not compile.
BuildFails ==
    /\ pc = "build" /\ "build" \in scenario.troubles
    /\ todo' = Tail(todo) /\ pc' = "prompt" /\ job' = NoJob
    /\ UNCHANGED <<setupVars, scenario, ws, maps, executables, given, recordings, tailVars, results>>

\* The output: the path given, or a name with the time in it, in firedbg/target.
Build ==
    LET made == Cargo(BuildCommand(job.selected))
    IN  /\ pc = "build"
        /\ executables' = [path \in DOMAIN executables \cup {made.path} |->
                                IF path = made.path THEN made.is ELSE executables[path]]
        /\ job' = [job EXCEPT
                !.executable = ExecutablePath(job.selected, made.path),
                !.output = IF command.output # None THEN command.output ELSE <<"target", Len(results)>>]
        /\ pc' = "connect"
        /\ UNCHANGED <<setupVars, scenario, ws, todo, maps, given, recordings, tailVars, results>>

\* get_firedbg_runs: those in firedbg/target, the newest first.
InTarget == {n \in DOMAIN recordings : recordings[n].output[1] = "target"}

Newest_Oldest(idx) == CHOOSE n \in InTarget : Cardinality({k \in InTarget : k <= n}) = idx

Newest(idx) == CHOOSE n \in InTarget : Cardinality({k \in InTarget : k >= n}) = idx

get_firedbg_runs == [idx \in 1..Cardinality(InTarget) |-> recordings[Newest(idx)]]

\* idx - 1 is unsigned: 0 is no run either.
IndexOrOpen ==
    /\ pc = "prompt" /\ todo # <<>> /\ command.kind \in {"index", "open"}
    /\ given' = given \cup {[idx  |-> command.name,
                             took |-> IF command.name \in DOMAIN get_firedbg_runs
                                      THEN get_firedbg_runs[command.name].output ELSE None,
                             seen |-> Len(recordings)]}
    /\ todo' = Tail(todo)
    /\ UNCHANGED <<setupVars, scenario, ws, maps, executables, pc, job, recordings, tailVars, results>>

-----------------------------------------------------------------------------
(* firedbg-debugger *)

\* The command waits for the debugger and takes no notice of how it ended.
DebuggerEnds(result) ==
    /\ results' = Append(results, result)
    /\ pc' = "prompt" /\ todo' = Tail(todo) /\ job' = NoJob
    /\ files' = <<>> /\ wanted' = <<>> /\ breakpoints' = <<NoEntry>> /\ created' = 0
    /\ sb' = [id \in {} |-> Default] /\ breakpoint_addresses' = [a \in {} |-> 0]
    /\ announced' = <<>> /\ stage' = "files"
    /\ tail' = "none" /\ permit' = FALSE /\ wrote' = 0 /\ lost' = 0 /\ printed' = 0
    /\ UNCHANGED <<scenario, ws, maps, executables, given>>

\* create_streamer: create_only, so a file that exists is an error.
MayCreate_Always(output) == TRUE

MayCreate(output) == \A n \in DOMAIN recordings : recordings[n].output # output

Refused ==
    /\ pc = "connect" /\ ~MayCreate(job.output)
    /\ DebuggerEnds("refused")
    /\ UNCHANGED recordings

\* A file that is created anew loses what it held.
Truncated(recording) == IF recording.output = job.output THEN [recording EXCEPT !.sent = <<>>] ELSE recording

Connect ==
    /\ pc = "connect" /\ MayCreate(job.output)
    /\ recordings' = Append([n \in DOMAIN recordings |-> Truncated(recordings[n])],
                            [output |-> job.output, by |-> Len(results) + 1, sent |-> <<>>])
    /\ pc' = "read"
    /\ UNCHANGED <<setupVars, commandVars, job, tailVars, results>>

Info(what) == [key |-> what, id |-> 0]

\* The recording that is being written, with what is sent to it.
Sent(more) == [recordings EXCEPT ![Len(recordings)].sent = @ \o more]

\* set_file_breakpoint: files and functions are numbered as they are read, from 1.
FileId_Zero(k) == k - 1

FileId(k) == k

\* "FireDBG.Internal", the first of the files; the others are told by the numbers of their crates.
InternalFile == 0

BreakpointsOf(k, map) ==
    [n \in DOMAIN map.functions |->
        [file_id |-> FileId(k), fn_name |-> map.functions[n].fn_name,
         loc |-> map.functions[n].loc.start, loc_end |-> map.functions[n].loc.end]]

\* The map of a source is at the same path in firedbg/.
MapOf(path) == CHOOSE map \in maps : map.at = <<"firedbg", "/">> \o Behind(path, scenario.raw.root)

\* A map that is not there or cannot be read is an error: main returns it, and leaves a recording with nothing
\* in it.
ReadFails ==
    /\ pc = "read" /\ "map" \in scenario.troubles
    /\ DebuggerEnds("failed")
    /\ UNCHANGED recordings

Read ==
    /\ pc = "read"
    /\ \E paths \in {SourceFiles(scenario, job.arguments, job.selected.sort)} :
        /\ files' = <<InternalFile>> \o [k \in DOMAIN paths |-> MapOf(paths[k]).crate_name]
        /\ wanted' = FlattenSeq([k \in DOMAIN paths |-> BreakpointsOf(k, MapOf(paths[k]))])
        /\ job' = [job EXCEPT
                !.paths = paths,
                !.argv = get_arguments(job.selected.sort, job.argv, job.selected.testcase)]
        /\ recordings' = Sent(<<Info("debugger")>>)
        /\ pc' = "setup" /\ tail' = "spawned"
        /\ UNCHANGED <<breakpoints, sb, created, breakpoint_addresses, announced, stage,
                       commandVars, permit, wrote, lost, printed, results>>

SetUp ==
    /\ pc = "setup"
    /\ \/ SendFiles
       \/ \E locs \in scenario.internal : AddInternal(locs)
       \/ InternalAdded
       \/ \E locs \in scenario.answers : AddFunction(locs)
       \/ \E locs, locs_end \in scenario.answers : AddFunctionAtEnd(locs, locs_end)
       \/ FunctionsAdded
    /\ recordings' = Sent(SubSeq(announced', Len(announced) + 1, Len(announced')))
    /\ UNCHANGED <<commandVars, pc, job, tailVars, results>>

Launch ==
    /\ pc = "setup" /\ stage = "ready"
    /\ pc' = "running"
    /\ UNCHANGED <<setupVars, commandVars, job, recordings, tailVars, results>>

\* The program cannot be launched, or an assertion fails, of the set-up or of the engine: main panics, and the
\* recording gets no end; the task is dropped with the runtime.
EnginePanics ==
    /\ pc \in {"setup", "running"} /\ "panic" \in scenario.troubles
    /\ DebuggerEnds("panicked")
    /\ UNCHANGED recordings

\* The characters the program prints are so many bytes wide; it writes whole characters.
Boundaries ==
    LET upto[n \in 0..Len(scenario.output)] == IF n = 0 THEN 0 ELSE upto[n - 1] + scenario.output[n]
    IN  {upto[n] : n \in 0..Len(scenario.output)}

Write ==
    /\ pc = "running"
    /\ \E to \in {b \in Boundaries : b > wrote} : wrote' = to
    /\ UNCHANGED <<setupVars, commandVars, pc, job, recordings, tail, permit, lost, printed, results>>

\* The program ends when it has written everything; the engine says so, and Debugger::run returns.
EngineReturns ==
    /\ pc = "running" /\ wrote \in Boundaries /\ \A b \in Boundaries : b <= wrote
    /\ recordings' = Sent(<<Info("exit")>>)
    /\ pc' = "end"
    /\ UNCHANGED <<setupVars, commandVars, job, tailVars, results>>

End_Dropped ==
    /\ pc = "end" /\ pc' = "notify"
    /\ UNCHANGED <<setupVars, commandVars, job, recordings, tailVars, results>>

\* producer.end(), then notify_one(), then the task is joined.
End ==
    /\ pc = "end"
    /\ recordings' = Sent(<<Info("end")>>)
    /\ pc' = "notify"
    /\ UNCHANGED <<setupVars, commandVars, job, tailVars, results>>

\* An error of producer.end(), before the end is written or after it: the task is not notified.
EndFails ==
    /\ pc \in {"end", "notify"} /\ "end" \in scenario.troubles
    /\ DebuggerEnds("failed")
    /\ UNCHANGED recordings

NotifyOne_Waiters == /\ permit' = (tail = "reading")

NotifyOne == permit' = TRUE

Notify ==
    /\ pc = "notify"
    /\ NotifyOne
    /\ pc' = "join"
    /\ UNCHANGED <<setupVars, commandVars, job, recordings, tail, wrote, lost, printed, results>>

Join ==
    /\ pc = "join" /\ tail \in {"done", "failed"}
    /\ DebuggerEnds(IF tail = "done" THEN "ok" ELSE "tail failed")
    /\ UNCHANGED recordings

-----------------------------------------------------------------------------
(* The task that shows the output of the program *)

\* File::create truncates what the program has written to the file until now.
TailCreates ==
    /\ tail = "spawned" /\ tail' = "reading"
    /\ lost' = wrote /\ printed' = wrote
    /\ UNCHANGED <<setupVars, commandVars, pc, job, recordings, permit, wrote, results>>

\* The file cannot be created, watched or read.
TailFails ==
    /\ tail \in {"spawned", "reading"} /\ "stdout" \in scenario.troubles
    /\ tail' = "failed"
    /\ UNCHANGED <<setupVars, commandVars, pc, job, recordings, permit, wrote, lost, printed, results>>

\* A chunk that ends in the middle of a character is an error, and the task ends.
print_to_stdout(to, next) ==
    IF to \in Boundaries THEN printed' = to /\ tail' = next
                         ELSE printed' = printed /\ tail' = "failed"

TailReads ==
    /\ tail = "reading"
    /\ \E to \in (printed + 1)..wrote : print_to_stdout(to, "reading")
    /\ UNCHANGED <<setupVars, commandVars, pc, job, recordings, permit, wrote, lost, results>>

TailIsNotified ==
    /\ tail = "reading" /\ permit
    /\ tail' = "draining" /\ permit' = FALSE
    /\ UNCHANGED <<setupVars, commandVars, pc, job, recordings, wrote, lost, printed, results>>

\* After 10 ms, what the file watcher has seen: everything, unless it is late.
Drained_Nothing == {printed}

Drained == IF "late" \in scenario.troubles THEN printed..wrote ELSE {wrote}

TailDrains ==
    /\ tail = "draining"
    /\ \E to \in Drained : print_to_stdout(to, "done")
    /\ UNCHANGED <<setupVars, commandVars, pc, job, recordings, permit, wrote, lost, results>>

Command  == Dispatch \/ Cache \/ BuildFails \/ Build \/ IndexOrOpen
Debugger == Refused \/ Connect \/ ReadFails \/ Read \/ SetUp \/ Launch \/ Write \/ EnginePanics
            \/ EngineReturns \/ EndFails \/ End \/ Notify \/ Join
TailTask == TailCreates \/ TailFails \/ TailReads \/ TailIsNotified \/ TailDrains

Next == Command \/ Debugger \/ TailTask

\* Commands and programs run on; tokio polls the task when there is something for it.
Spec == Init /\ [][Next]_vars /\ WF_vars(Command) /\ WF_vars(Debugger) /\ WF_vars(TailTask)

-----------------------------------------------------------------------------
(* The state is well formed: a function to be set has a file, and what is shown was written. *)
TypeOK ==
    /\ pc \in {"prompt", "cache", "build", "connect", "read", "setup", "running", "end", "notify", "join"}
    /\ tail \in {"none", "spawned", "reading", "draining", "done", "failed"} /\ permit \in BOOLEAN
    /\ \A k \in DOMAIN wanted : wanted[k].file_id \in 1..(Len(files) - 1)
    /\ lost <= printed /\ printed <= wrote
    /\ \A k \in DOMAIN results : results[k] \in {"ok", "tail failed", "panicked", "failed", "refused"}

(* Every function that can be found is found, once and in order (parser/src/parsing/function.rs). *)
FunctionsFound ==
    \A map \in maps : FoundInOrder(FileAt(map.path).tree, map.functions)

(* Functions inside others are marked as such, with one they are in (into_nested_func). *)
NestedFunctionsAreMarked ==
    \A map \in maps : NestingIsRecorded(FileAt(map.path).tree, map.functions)

(* The breakpoint of a function, at either of its two places, is hit by a call of that function and *)
(* by nothing around or inside it (parser/src/parsing/source.rs).                                   *)
BreakpointsAreInside ==
    \A map \in maps : LET file == FileAt(map.path)
                       IN  InOwnBody(file.tree, file.layout, map.functions)

(* What is traced is what the user asked for: the sources of the packages that firedbg.toml names, and *)
(* by default of the package of the target alone (command/src/lib.rs:32), wherever its directory is.   *)
Asked(name) ==
    IF name \in DOMAIN scenario.config.members THEN scenario.config.members[name] # "none"
    ELSE name = job.selected.package.name

TracedAsAsked ==
    pc = "setup" =>
        {k \in DOMAIN scenario.files : Contains(job.paths, Paths[k])} =
        {k \in DOMAIN scenario.files :
            /\ Asked(scenario.files[k].owner)
            /\ scenario.files[k].in \in {"src", CASE job.selected.sort = "bin"     -> "bin"
                                                   [] job.selected.sort = "example" -> "examples"
                                                   [] OTHER                         -> "tests"}}

(* The program that is launched is the target that was selected, although two packages may have targets *)
(* of one name and cargo keeps all of them in one directory (def/workspace.rs:178-388).                 *)
LaunchedIsSelected ==
    pc = "running" =>
        /\ job.executable \in DOMAIN executables
        /\ executables[job.executable] = Tail(BuildCommand(job.selected))

(* A map names the crate its functions are compiled in, which the names of their locations are compared *)
(* with: but if a package is inside another that cargo lists before it, the outer one has written it    *)
(* (main.rs:495, :520).                                                                                 *)
CratesAreRight ==
    \A map \in maps :
        LET owner == FileAt(map.path).owner
            k     == CHOOSE k \in DOMAIN ws.packages : ws.packages[k].name = owner
        IN  \/ map.crate_name = owner
            \/ \E j \in 1..(k - 1) : Under(map.path, ws.packages[j].root_dir)

(* What list-target offers (an editor shows it as buttons) can be run, and runs that: but of two tests *)
(* of one name only the cases of the one in the first package (main.rs:240, def/workspace.rs:89).      *)
ListedIsRunnable ==
    (pc = "prompt" /\ todo = scenario.commands) =>
    \A sorts \in {{"bin"}, {"example"}, {"test"}, {"unit-test"}, {"bin", "example", "test", "unit-test"}} :
        \A offer \in list_target(ws, scenario.cases, sorts).commands :
            LET selected == Choose(ws, scenario.cases, offer)
                first    == CHOOSE k \in DOMAIN ws.packages :
                                /\ Contains(ws.packages[k].test, offer.name)
                                /\ \A j \in 1..(k - 1) : ~Contains(ws.packages[j].test, offer.name)
            IN  \/ /\ selected # None
                   /\ selected.target = (IF offer.kind = "unit-test" THEN "lib" ELSE offer.name)
                   /\ selected.testcase = offer.testcase
                \/ /\ offer.kind = "test"
                   /\ offer.testcase \notin scenario.cases[ws.packages[first].name][offer.name]

(* `firedbg index` and `firedbg open` without a number take the last run, and 0 is no run *)
(* (main.rs:374-392, :862).                                                               *)
IndexedIsLatest ==
    \A g \in given :
        LET listed == {n \in 1..g.seen : recordings[n].output[1] = "target"}
        IN  /\ g.idx = 0 => g.took = None
            /\ g.idx = 1 /\ listed # {} =>
                    \E n \in listed : g.took = recordings[n].output /\ \A k \in listed : k <= n

(* A map describes its source: all its functions, how they are nested, a place inside each, their crate. *)
MapsDescribeSources == FunctionsFound /\ NestedFunctionsAreMarked /\ BreakpointsAreInside /\ CratesAreRight

(* The workspace is read right: its sources, the targets it offers, and the packages that are traced. *)
WorkspaceIsReadRight == MapsDescribeSources /\ ListedIsRunnable /\ TracedAsAsked

(* A command works on what the user named: the target it builds and launches, the run it indexes. *)
CommandsDoAsAsked == LaunchedIsSelected /\ IndexedIsLatest

(* What the program printed since the task created its file has been shown when the task has ended without *)
(* an error, unless its file watcher was late (main.rs:231-259): what came before the file is cut off, and  *)
(* an error shows no more.                                                                                  *)
OutputIsShown ==
    (pc = "join" /\ tail = "done" /\ "late" \notin scenario.troubles) => printed = wrote

(* Whatever became of the output, a recording that the debugger got through with has its end, after the  *)
(* exit of the program.  Where the debugger panicked or returned an error there may be none, but never one *)
(* before the program has ended: a reader can tell by the end (main.rs:114, :197-199, :262-267).           *)
RecordingIsWhole ==
    \A n \in DOMAIN recordings : recordings[n].by \in DOMAIN results =>
        \/ IsSuffix(<<Info("exit"), Info("end")>>, recordings[n].sent)
        \/ /\ results[recordings[n].by] \in {"panicked", "failed"}
           /\ ~Contains(recordings[n].sent, Info("end"))

(* A recording that is finished is never written again, whatever --output says (main.rs:280). *)
RecordingsAreKept ==
    [][\A n \in DOMAIN recordings : recordings[n].by \in DOMAIN results =>
            n \in DOMAIN recordings' /\ recordings'[n] = recordings[n]]_vars

(* The user gets the prompt back after every command, although the task that shows the output waits for *)
(* the debugger, and the debugger for it, whoever comes first, fails or panics (main.rs:231-267).       *)
CommandsEnd == <>(todo = <<>> /\ pc = "prompt")
=============================================================================
