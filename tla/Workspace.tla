----------------------------- MODULE Workspace -----------------------------
(***************************************************************************)
(* What a `firedbg` command works out before anything runs                 *)
(* (command/src/main.rs, parser/src/def/workspace.rs, parser/src/parsing): *)
(* the packages of the workspace and their targets, the target asked for,  *)
(* what to trace, the arguments of the debugger; and what the debugger     *)
(* reads from its arguments (debugger/src/main.rs).                        *)
(*                                                                         *)
(* A path is the sequence of its names and separators, "/" and "-" being   *)
(* one character wide: the code slices paths by length, and a prefix of a  *)
(* path need not end at a separator.  A package is named by a number, its  *)
(* rank in the order of names; its crate has the same number.              *)
(***************************************************************************)
EXTENDS Integers, Sequences, FiniteSets, SequencesExt, Lists

CONSTANT None

Under(path, dir)  == IsPrefix(dir \o <<"/">>, path)
Behind(path, dir) == SubSeq(path, Len(dir) + 2, Len(path))   \* path[dir.len() + 1..]

(***************************************************************************)
(* The workspace.  `cargo metadata` says [root, packages], each package    *)
(* [name, scheme, dir, targets], each target [name, kind].                 *)
(***************************************************************************)
TargetsOf(raw, kind) ==
    LET of == Those(raw.targets, LAMBDA target : kind \in target.kind)
    IN  [k \in DOMAIN of |-> of[k].name]

LocalPackages(raw) ==
    Those(raw.packages, LAMBDA package : package.scheme = "path+file" /\ IsPrefix(raw.root, package.dir))

parse_workspace(raw) ==
    LET local == LocalPackages(raw)
    IN  [root_dir |-> raw.root,
         packages |-> [k \in DOMAIN local |->
            [name     |-> local[k].name,
             root_dir |-> local[k].dir,
             bin      |-> TargetsOf(local[k], "bin"),
             test     |-> TargetsOf(local[k], "test"),
             example  |-> TargetsOf(local[k], "example"),
             has_lib  |-> TargetsOf(local[k], "lib") # <<>>]]]

FirstOf(seq, Test(_)) ==
    LET k == SelectInSeq(seq, Test)
    IN  IF k = 0 THEN None ELSE seq[k]

\* find_binary, find_test, find_example: the first package that has such a target.
find_target(ws, sort, name) ==
    FirstOf(ws.packages, LAMBDA package : Contains(package[sort], name))
find_package(ws, name) == FirstOf(ws.packages, LAMBDA package : package.name = name)

\* binary_names, test_names, example_names
target_names(ws, sort) == FlattenSeq([k \in DOMAIN ws.packages |-> ws.packages[k][sort]])

-----------------------------------------------------------------------------
(***************************************************************************)
(* The target a command asks for: [package, sort, target, testcase], or    *)
(* None when the command explains what there is and exits with 1.          *)
(* cases[package][target] are the tests `cargo test -- --list` lists.      *)
(***************************************************************************)
Selected(package, sort, target, testcase) ==
    [package |-> package, sort |-> sort, target |-> target, testcase |-> testcase]

ChooseBinary(ws, cmd) ==
    LET names == target_names(ws, "bin")
        name  == IF cmd.name # None THEN cmd.name ELSE Head(names)
        found == find_target(ws, "bin", name)
    IN  IF \/ names = <<>> \/ found = None
           \/ cmd.name = None /\ Len(names) # 1
        THEN None ELSE Selected(found, "bin", name, None)

ChooseTest(ws, cases, cmd) ==
    LET found == find_target(ws, "test", cmd.name)
    IN  IF found = None THEN None
        ELSE IF cmd.testcase \notin cases[found.name][cmd.name] THEN None
        ELSE Selected(found, "test", cmd.name, cmd.testcase)

ChooseUnitTest(ws, cases, cmd) ==
    LET found == find_package(ws, cmd.name)
    IN  IF found = None THEN None
        ELSE IF ~found.has_lib THEN None
        ELSE IF cmd.testcase \notin cases[found.name]["lib"] THEN None
        ELSE Selected(found, "unit-test", "lib", cmd.testcase)

ChooseExample(ws, cmd) ==
    LET found == find_target(ws, "example", cmd.name)
    IN  IF found = None THEN None ELSE Selected(found, "example", cmd.name, None)

Choose(ws, cases, cmd) ==
    CASE cmd.kind = "run"       -> ChooseBinary(ws, cmd)
      [] cmd.kind = "test"      -> ChooseTest(ws, cases, cmd)
      [] cmd.kind = "unit-test" -> ChooseUnitTest(ws, cases, cmd)
      [] cmd.kind = "example"   -> ChooseExample(ws, cmd)

\* `firedbg list-target`: the commands that its output, for these sorts, offers to an editor.
list_target(ws, cases, sorts) ==
    LET all    == {"bin", "example", "test", "unit-test"} \subseteq sorts
        of(sort) == IF all \/ sort \in sorts THEN Range(ws.packages) ELSE {}
        cmd(kind, name, testcase) == [kind |-> kind, name |-> name, testcase |-> testcase]
    IN  [path |-> IF ~all /\ "unit-test" \in sorts THEN "target-unit-test.json" ELSE "target.json",
         commands |->
            (UNION {{cmd("run", name, None)     : name \in Range(p.bin)}     : p \in of("bin")}) \cup
            (UNION {{cmd("example", name, None) : name \in Range(p.example)} : p \in of("example")}) \cup
            (UNION {UNION {{cmd("test", name, c) : c \in cases[p.name][name]}
                                    : name \in Range(p.test)} : p \in of("test")}) \cup
            (UNION {{cmd("unit-test", p.name, c) : c \in cases[p.name]["lib"]}
                                    : p \in {q \in of("unit-test") : q.has_lib}})]

(***************************************************************************)
(* Building it: the arguments of cargo, what cargo makes of them (the path *)
(* of an executable and what it is), and where the command looks for it.   *)
(***************************************************************************)
BuildCommand(selected) ==
    LET manifest == selected.package.root_dir \o <<"/", "Cargo.toml">>
    IN  CASE selected.sort = "bin"       -> <<"build", manifest, "--bin", selected.target>>
          [] selected.sort = "example"   -> <<"build", manifest, "--example", selected.target>>
          [] selected.sort = "test"      -> <<"test", manifest, "--test", selected.target>>
          [] selected.sort = "unit-test" -> <<"test", manifest, "--lib", selected.target>>

Cargo(arguments) ==
    [path |-> CASE arguments[3] = "--bin"     -> <<"debug", arguments[4]>>
                [] arguments[3] = "--example" -> <<"debug", "examples", arguments[4]>>
                [] OTHER                      -> <<"debug", "deps", arguments[4], arguments[2]>>,
     is   |-> Tail(arguments)]

\* A test is where cargo reports it to be, behind "debug/deps/"; the others where they always are.
ExecutablePath(selected, reported) ==
    CASE selected.sort = "bin"     -> <<"debug", selected.target>>
      [] selected.sort = "example" -> <<"debug", "examples", selected.target>>
      [] OTHER                     -> <<"debug", "deps">> \o SubSeq(reported, 3, Len(reported))

-----------------------------------------------------------------------------
(***************************************************************************)
(* firedbg.toml: [members, targets], members being a function from names   *)
(* to "none", "call-only" or "full", targets a sequence of [name, target,  *)
(* argv].                                                                  *)
(***************************************************************************)
parse_trace_config(config, ws, executable_package) ==
    [name \in {package.name : package \in Range(ws.packages)} |->
        IF name \in DOMAIN config.members THEN config.members[name]
        ELSE IF name = executable_package.name THEN "full" ELSE "none"]

\* The arguments of the program: those given, or those of the run configuration; None: there is no such.
load_default_argv(args, config, name, target_type) ==
    LET matching == FirstOf(config.targets, LAMBDA t : t.name = name /\ t.target = target_type)
    IN  IF args # <<>> \/ name = None THEN args
        ELSE IF matching = None THEN None ELSE matching.argv

Argv(config, cmd, selected) ==
    IF selected.sort \in {"bin", "example"}
    THEN load_default_argv(cmd.args, config, cmd.config, <<selected.sort, selected.target>>)
    ELSE cmd.args

\* run_debugger: an argument `--package <path>/<trace>` per package, in the order of names.
PackageArguments(ws, trace_cfg) ==
    LET names == Ascending(DOMAIN trace_cfg)
        path(package) == IF package.root_dir # ws.root_dir THEN Behind(package.root_dir, ws.root_dir)
                         ELSE <<".">>
    IN  [k \in DOMAIN names |->
            path(find_package(ws, names[k])) \o <<"/", trace_cfg[names[k]]>>]

-----------------------------------------------------------------------------
\* firedbg-debugger: rsplit_once('/')
parse_package_cfg(src) == [package |-> SubSeq(src, 1, Len(src) - 2), trace |-> src[Len(src)]]

SrcDirs(sort) ==
    CASE sort = "bin"                   -> <<"src", "bin">>
      [] sort \in {"test", "unit-test"} -> <<"src", "tests">>
      [] sort = "example"               -> <<"src", "examples">>

get_arguments(sort, args, testcase) ==
    IF sort \in {"test", "unit-test"} THEN args \o <<"--exact", testcase>> ELSE args

\* glob("{workspace_root}/{package}/{src_dir}/**/*.rs"): the files there, in the order of names.
Glob(files, root, package, src_dir) ==
    LET dir == (IF package = <<".">> THEN root ELSE root \o <<"/">> \o package) \o <<"/", src_dir>>
    IN  Those(files, LAMBDA path : Under(path, dir))

\* The source files whose maps the debugger reads.
src_files(files, root, arguments, sort) ==
    LET dirs == SrcDirs(sort)
    IN  FlattenSeq([k \in DOMAIN arguments |->
            LET cfg == parse_package_cfg(arguments[k])
            IN  IF cfg.trace \in {"full", "call-only"}
                THEN FlattenSeq([d \in DOMAIN dirs |-> Glob(files, root, cfg.package, dirs[d])])
                ELSE <<>>])
=============================================================================
