----------------------------- MODULE SourceCache -----------------------------
(***************************************************************************)
(* The folder firedbg/ that the command keeps in a workspace               *)
(* (command/src/main.rs, parser/src/serde.rs): for each source file a map  *)
(* of the functions the parser found in it, and the version of the command *)
(* that wrote them.  The user edits sources, and runs, kills and upgrades  *)
(* the command; the debugger reads the maps.                               *)
(***************************************************************************)
EXTENDS Naturals, FiniteSets

CONSTANTS
    Files,          \* the source files
    Processes,      \* `firedbg` commands that may run at the same time
    MaxEdits,       \* BOUND: edits, of all files
    MaxRuns,        \* BOUND: commands started
    MaxTool,        \* BOUND: upgrades of the command
    Absent,         \* a file that is not there
    Truncated,      \* a file that was created and not written
    NoFunctions,    \* the empty list of functions
    VersionFile     \* version.toml

\* What may be in a map: the functions of a version of its source, the time of that
\* version, the time of the map itself and the version of the command.
Times == 0 .. MaxEdits
Maps  == [functions : Times \cup {NoFunctions, Truncated}, age : Times,
          modified : Times, by : 0 .. MaxTool]

ASSUME CacheAssumption ==
    /\ {Absent, Truncated, NoFunctions} \cap Nat = {}
    /\ Absent # Truncated /\ Truncated # NoFunctions
    /\ Absent \notin Maps
    /\ VersionFile \notin Files
    /\ {MaxEdits, MaxRuns, MaxTool} \subseteq Nat

VARIABLES
    source,         \* per file: [content, modified]
    map,            \* per file: its .firedbg.map, or Absent
    version,        \* version.toml, or Absent, or Truncated
    clock,          \* the time; an edit is never as old as what was there before it
    tool,           \* the version of the command that is installed
    runs,           \* commands started
    disturbed,      \* history: did anything come between a command and its files?
    mixed,          \* history: have commands of two versions been at work at once?
    at, sub, mine,  \* per process: where it is, its subcommand, its own version
    todo,           \* per process: what it has still to remove or to look at
    file, src_modified, functions,  \* per process: the file in hand
    binary          \* per process: the sources it was built from

diskVars    == <<source, map, version, clock, tool>>
runVars     == <<runs, sub, mine, disturbed, mixed>>
processVars == <<at, todo, file, src_modified, functions, binary>>
vars == <<diskVars, runVars, processVars>>

Over        == {"idle", "done", "failed"}
Working     == {p \in Processes : at[p] \notin Over}
Subcommands == {"cache", "run", "clean"}

-----------------------------------------------------------------------------
\* The user saves a file.
Edit(f) ==
    /\ clock < MaxEdits
    /\ clock' = clock + 1
    /\ source' = [source EXCEPT ![f] = [content |-> clock + 1, modified |-> clock + 1]]
    /\ disturbed' = (disturbed \/ Working # {})
    /\ UNCHANGED <<map, version, tool, runs, sub, mine, mixed, processVars>>

\* A newer command is installed.  The ones at work go on with the version they have:
\* nothing in the code keeps them apart from those that start now.
Upgrade ==
    /\ tool < MaxTool
    /\ tool' = tool + 1
    /\ UNCHANGED <<source, map, version, clock, runVars, processVars>>

Start(p) ==
    /\ at[p] \in Over
    /\ runs < MaxRuns
    /\ runs' = runs + 1
    /\ \E s \in Subcommands : sub' = [sub EXCEPT ![p] = s]
    /\ mine' = [mine EXCEPT ![p] = tool]
    /\ at' = [at EXCEPT ![p] = "check"]
    /\ disturbed' = (disturbed \/ Working # {})
    /\ mixed' = (mixed \/ \E q \in Working : mine[q] # tool)
    /\ UNCHANGED <<diskVars, todo, file, src_modified, functions, binary>>

\* The command is killed; what it wrote stays.
Crash(p) ==
    /\ at[p] \notin Over
    /\ at' = [at EXCEPT ![p] = "idle"]
    /\ disturbed' = TRUE
    /\ UNCHANGED <<diskVars, runs, sub, mine, mixed, todo, file, src_modified, functions,
                   binary>>

-----------------------------------------------------------------------------
(***************************************************************************)
(* check_firedbg_version_updated.                                          *)
(***************************************************************************)
Goto(p, where) == at' = [at EXCEPT ![p] = where]

\* (mutant: plain files are removed, folders stay)
Entries_Files == {VersionFile} \ (IF version = Absent THEN {VersionFile} ELSE {})

\* What a glob of the folder finds (its target/ left aside).
Entries == {f \in Files : map[f] # Absent}
            \cup (IF version = Absent THEN {} ELSE {VersionFile})

\* The subcommand proper: look at every source, or remove everything.
Dispatch(p) ==
    IF sub[p] = "clean"
    THEN Goto(p, "clean") /\ todo' = [todo EXCEPT ![p] = Entries]
    ELSE Goto(p, "cache") /\ todo' = [todo EXCEPT ![p] = Files]

CheckVersion(p) ==
    /\ at[p] = "check"
    /\ IF version = Truncated
       THEN Goto(p, "failed") /\ UNCHANGED todo
       ELSE IF version = mine[p]
       THEN Dispatch(p)
       ELSE Goto(p, "recreate") /\ todo' = [todo EXCEPT ![p] = Entries]
    /\ UNCHANGED <<diskVars, runVars, file, src_modified, functions, binary>>

\* re_create_firedbg_folder and remove_firedbg_dir: one entry after the other.
Remove(p) ==
    /\ at[p] \in {"recreate", "clean"}
    /\ \E entry \in todo[p] :
        /\ todo' = [todo EXCEPT ![p] = @ \ {entry}]
        /\ IF entry = VersionFile
           THEN version' = Absent /\ UNCHANGED map
           ELSE map' = [map EXCEPT ![entry] = Absent] /\ UNCHANGED version
    /\ UNCHANGED <<source, clock, tool, runVars, at, file, src_modified, functions, binary>>

Removed(p) ==
    /\ at[p] \in {"recreate", "clean"}
    /\ todo[p] = {}
    /\ Goto(p, IF at[p] = "clean" THEN "done" ELSE "pin")
    /\ UNCHANGED <<diskVars, runVars, todo, file, src_modified, functions, binary>>

\* pin_firedbg_version: fs::write empties the file ...
Pin(p) ==
    /\ at[p] = "pin"
    /\ version' = Truncated
    /\ Goto(p, "pin_write")
    /\ UNCHANGED <<source, map, clock, tool, runVars, todo, file, src_modified,
                   functions, binary>>

\* ... and then fills it.
PinWrite(p) ==
    /\ at[p] = "pin_write"
    /\ version' = mine[p]
    /\ Dispatch(p)
    /\ UNCHANGED <<source, map, clock, tool, runVars, file, src_modified, functions, binary>>

-----------------------------------------------------------------------------
(***************************************************************************)
(* cache_workspace.                                                        *)
(***************************************************************************)
\* (mutant: a map that is there is good enough)
UpToDate_Exists(f) == map[f] # Absent

\* Skip caching if the source is not younger than the map.
UpToDate(f) == map[f] # Absent /\ source[f].modified <= map[f].modified

Skip(p, f) ==
    /\ at[p] = "cache" /\ f \in todo[p]
    /\ UpToDate(f)
    /\ todo' = [todo EXCEPT ![p] = @ \ {f}]
    /\ UNCHANGED <<diskVars, runVars, at, file, src_modified, functions, binary>>

Refresh(p, f) ==
    /\ at[p] = "cache" /\ f \in todo[p]
    /\ ~UpToDate(f)
    /\ todo' = [todo EXCEPT ![p] = @ \ {f}]
    /\ file' = [file EXCEPT ![p] = f]
    /\ src_modified' = [src_modified EXCEPT ![p] = source[f].modified]
    /\ Goto(p, "parse")
    /\ UNCHANGED <<diskVars, runVars, functions, binary>>

\* (mutant: the failure is stored)
Unparsed_Absent == Absent

\* A file that cannot be parsed is warned of and counts as one without functions.
Unparsed == NoFunctions

Parse(p) ==
    /\ at[p] = "parse"
    /\ \/ /\ functions' = [functions EXCEPT ![p] = source[file[p]].content]
          /\ UNCHANGED disturbed
       \/ /\ functions' = [functions EXCEPT ![p] = Unparsed]
          /\ disturbed' = TRUE
    /\ Goto(p, "create")
    /\ UNCHANGED <<diskVars, runs, sub, mine, mixed, todo, file, src_modified, binary>>

\* (mutant: the time of the source is read when the map is written)
MapOf_Now(p) == [functions |-> functions[p], age |-> source[file[p]].modified,
                 modified |-> clock, by |-> mine[p]]

MapOf(p) == [functions |-> functions[p], age |-> src_modified[p],
             modified |-> clock, by |-> mine[p]]

\* to_bson_file: the file is created empty ...
CreateMap(p) ==
    /\ at[p] = "create"
    /\ map' = [map EXCEPT ![file[p]] =
                [functions |-> Truncated, age |-> 0, modified |-> clock, by |-> mine[p]]]
    /\ Goto(p, "write")
    /\ UNCHANGED <<source, version, clock, tool, runVars, todo, file, src_modified,
                   functions, binary>>

\* ... and then written.
WriteMap(p) ==
    /\ at[p] = "write"
    /\ map' = [map EXCEPT ![file[p]] = MapOf(p)]
    /\ Goto(p, "cache")
    /\ UNCHANGED <<source, version, clock, tool, runVars, todo, file, src_modified,
                   functions, binary>>

Cached(p) ==
    /\ at[p] = "cache"
    /\ todo[p] = {}
    /\ Goto(p, IF sub[p] = "run" THEN "build" ELSE "done")
    /\ UNCHANGED <<diskVars, runVars, todo, file, src_modified, functions, binary>>

-----------------------------------------------------------------------------
(***************************************************************************)
(* run_binary and the debugger's main.                                     *)
(***************************************************************************)
Build(p) ==
    /\ at[p] = "build"
    /\ binary' = [binary EXCEPT ![p] = [f \in Files |-> source[f].content]]
    /\ Goto(p, "debug")
    /\ UNCHANGED <<diskVars, runVars, todo, file, src_modified, functions>>

Readable(f) == map[f] # Absent /\ map[f].functions # Truncated

\* The debugger reads the map of every source, or gives up.
Debug(p) ==
    /\ at[p] = "debug"
    /\ Goto(p, IF \A f \in Files : Readable(f) THEN "done" ELSE "failed")
    /\ UNCHANGED <<diskVars, runVars, todo, file, src_modified, functions, binary>>

Run(p) ==
    \/ CheckVersion(p) \/ Remove(p) \/ Removed(p) \/ Pin(p) \/ PinWrite(p)
    \/ \E f \in Files : Skip(p, f) \/ Refresh(p, f)
    \/ Parse(p) \/ CreateMap(p) \/ WriteMap(p) \/ Cached(p)
    \/ Build(p) \/ Debug(p)

-----------------------------------------------------------------------------
Init ==
    /\ source = [f \in Files |-> [content |-> 0, modified |-> 0]]
    /\ map = [f \in Files |-> Absent]
    /\ version = Absent
    /\ clock = 0
    /\ tool = 0
    /\ runs = 0
    /\ disturbed = FALSE /\ mixed = FALSE
    /\ at = [p \in Processes |-> "idle"]
    /\ sub = [p \in Processes |-> "cache"]
    /\ mine = [p \in Processes |-> 0]
    /\ todo = [p \in Processes |-> {}]
    /\ file \in [Processes -> Files]
    /\ src_modified = [p \in Processes |-> 0]
    /\ functions = [p \in Processes |-> NoFunctions]
    /\ binary = [p \in Processes |-> [f \in Files |-> 0]]

Next ==
    \/ \E f \in Files : Edit(f)
    \/ Upgrade
    \/ \E p \in Processes : Start(p) \/ Crash(p) \/ Run(p)

Spec == Init /\ [][Next]_vars

-----------------------------------------------------------------------------
(***************************************************************************)
(* What a map is worth.                                                    *)
(***************************************************************************)
\* Every variable has its type.
TypeOK ==
    /\ source \in [Files -> [content : Times, modified : Times]]
    /\ map \in [Files -> Maps \cup {Absent}]
    /\ version \in 0 .. MaxTool \cup {Absent, Truncated}
    /\ clock \in Times /\ tool \in 0 .. MaxTool /\ runs \in 0 .. MaxRuns
    /\ {disturbed, mixed} \subseteq BOOLEAN
    /\ at \in [Processes -> Over \cup {"check", "recreate", "clean", "pin", "pin_write",
                    "cache", "parse", "create", "write", "build", "debug"}]
    /\ sub \in [Processes -> Subcommands]
    /\ mine \in [Processes -> 0 .. MaxTool]
    /\ todo \in [Processes -> SUBSET (Files \cup {VersionFile})]
    /\ file \in [Processes -> Files]
    /\ src_modified \in [Processes -> Times]
    /\ functions \in [Processes -> Times \cup {NoFunctions}]
    /\ binary \in [Processes -> [Files -> Times]]

\* When the debugger starts, the functions it will break at are those of the program
\* it runs, whatever was edited, cached, upgraded or cleaned before; unless a command
\* was disturbed, by a kill, an edit, another command or an unreadable source
\* (cache_workspace, run_binary).
BreakpointsFit ==
    ~disturbed =>
        \A p \in Processes : at[p] = "debug" =>
            \A f \in Files : map[f] # Absent /\ map[f].functions = binary[p][f]

\* A map is never of another version of the source than the time stored in it tells:
\* two commands, kills and edits may spoil a map, but one could see it.
AgeTells ==
    \A f \in Files :
        map[f] # Absent /\ map[f].age = source[f].modified =>
            map[f].functions \in {source[f].content, NoFunctions, Truncated}

\* Under the version of a command there are no maps of another.
MapsAreCurrent ==
    \A f \in Files :
        version \notin {Absent, Truncated} /\ map[f] # Absent => map[f].by = version

\* Maps of an older command are gone before the folder gets a newer one's version,
\* however often the upgrade is killed and by however many commands at once
\* (re_create_firedbg_folder, pin_firedbg_version); unless a command of the older
\* version was still at work when one of the newer was started: it writes its map under
\* the version that the newer has pinned.
PinnedMapsAreCurrent == ~mixed => MapsAreCurrent
=============================================================================
