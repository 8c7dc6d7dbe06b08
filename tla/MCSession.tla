----------------------------- MODULE MCSession -----------------------------
(***************************************************************************)
(* Scenarios of Session for TLC: every syntax tree of a few items in one   *)
(* file; workspaces with every command and configuration; two functions    *)
(* with every answer of LLDB; and sequences of commands with every         *)
(* interleaving of the program, the engine and the task.                   *)
(***************************************************************************)
EXTENDS Session, TLC

Item(kind, parent) == [kind |-> kind, parent |-> parent]
OneFunction == <<Item("fn", 0)>>

(* Syntax trees *)
MayContain == [fn |-> {"fn", "impl", "mod", "stmt"}, method |-> {"fn", "stmt"},
               mod |-> {"fn", "impl_trait", "trait", "mod", "stmt"}, impl |-> {"method", "stmt"},
               impl_trait |-> {"method"}, trait |-> {"method", "required"},
               required |-> {}, stmt |-> {"fn"}]
Trees(n) ==
    {file \in [1..n -> [kind : DOMAIN MayContain, parent : 0..(n - 1)]] :
        /\ IsTree(file)
        /\ \A i \in 1..n :
               file[i].kind \in MayContain[IF file[i].parent = 0 THEN "mod" ELSE file[file[i].parent].kind]}
DeepTrees == {tree \o <<Item("fn", 3)>> : tree \in {t \in Trees(3) : t[3].kind \in {"fn", "method"}}}

(* Packages *)
Root == <<"ws">>
Target(kind, name) == [kind |-> kind, name |-> name]
Package(name, dir, app) ==
    [name |-> name, scheme |-> "path+file", dir |-> dir,
     targets |-> <<Target({"lib"}, "lib"), Target({"bin"}, app), Target({"test"}, "it"),
                   Target({"example"}, "demo")>>]
Registry == [Package(7, <<"home", "/", "serde">>, "x") EXCEPT !.scheme = "registry"]
Outside  == Package(8, <<"other">>, "y")

File(owner, dir, in, leaf, tree, layout) ==
    [path |-> dir \o <<"/", in, "/", leaf>>, owner |-> owner, in |-> in, tree |-> tree, layout |-> layout]
FilesOf(owner, dir) ==
    <<File(owner, dir, "examples", "demo", OneFunction, "lines"),
      File(owner, dir, "src", "lib", OneFunction, "lines"),
      File(owner, dir, "tests", "it", OneFunction, "tight")>>

(* Locations *)
Loc(address, symbol, name) == [address |-> address, symbol |-> symbol, name |-> name]
AnyName(crates) == [crates |-> crates, executable |-> FALSE, ends |-> 1..4]
Mine(address, symbol) == Loc(address, symbol, AnyName(1..8))
Plain == {<<Mine(1, "s")>>}

Cmd(kind, name, testcase) ==
    [kind |-> kind, name |-> name, testcase |-> testcase, args |-> <<>>, config |-> None, output |-> None]
Run == Cmd("run", "app", None)
Index(n) == Cmd("index", n, None)

NoConfig == [members |-> [n \in {} |-> "none"], targets |-> <<>>]
Cases == [n \in 1..8 |-> [t \in {"lib", "it"} |-> IF t = "lib" THEN {"unit"} ELSE {"it" , IF n = 1 THEN "one" ELSE "two"}]]

Small ==
    [raw |-> [root |-> Root, packages |-> <<Package(1, <<"ws", "/", "a">>, "app")>>],
     files |-> <<File(1, <<"ws", "/", "a">>, "src", "main", OneFunction, "lines")>>,
     config |-> NoConfig, cases |-> Cases, commands |-> <<Run>>,
     answers |-> Plain, internal |-> {<<>>}, troubles |-> {}, output |-> <<>>]

-----------------------------------------------------------------------------
Parsing ==
    {[Small EXCEPT !.files = <<File(1, <<"ws", "/", "a">>, "src", "main", tree, layout)>>] :
        tree \in Trees(1) \cup Trees(2) \cup Trees(3) \cup DeepTrees, layout \in {"lines", "tight"}}

(* Two packages side by side, in a directory of their own, or one around the other; in both orders of *)
(* names and of cargo's list; a dependency from a registry and one outside the workspace beside them. *)
Dirs == {<< <<"ws", "/", "a">>, <<"ws", "/", "b">> >>, << <<"ws">>, <<"ws", "/", "a", "/", "b">> >>,
         << <<"ws", "/", "a", "/", "b">>, <<"ws">> >>}
Shapes ==
    {[raw   |-> [root |-> Root,
                 packages |-> LET p == Package(1, dirs[1], "app")  q == Package(2, dirs[2], other)
                              IN  (IF swap THEN <<q, p>> ELSE <<p, q>>) \o <<Registry, Outside>>],
      files |-> FilesOf(1, dirs[1]) \o FilesOf(2, dirs[2])] :
        dirs \in Dirs, swap \in BOOLEAN, other \in {"app", "app2"}}

Commands ==
    {Cmd("run", name, None) : name \in {None, "app", "app2", "nosuch"}} \cup
    {[Run EXCEPT !.config = c] : c \in {"fast", "slow"}} \cup
    {Cmd("test", name, c) : name \in {"it", "nosuch"}, c \in {"it", "two", "nosuch"}} \cup
    {Cmd("unit-test", p, c) : p \in {1, 2, 7}, c \in {"unit", "nosuch"}} \cup
    {[Cmd("example", "demo", None) EXCEPT !.args = a] : a \in {<<>>, <<"x">>}}

Configs ==
    {[members |-> m, targets |-> <<[name |-> "fast", target |-> <<"bin", "app">>, argv |-> <<"v">>]>>] :
        m \in {[n \in {} |-> "none"], 1 :> "none", 2 :> "call-only", 7 :> "full",
               (1 :> "none") @@ (2 :> "full")}}

Workspaces ==
    {[Small EXCEPT !.raw = shape.raw, !.files = shape.files, !.commands = <<cmd>>, !.config = config] :
        shape \in Shapes, cmd \in Commands, config \in Configs}

(* Two functions, one around the other, and answers of up to two locations. *)
Named(crates, executable, ends) == [crates |-> crates, executable |-> executable, ends |-> ends]
Places ==
    {Mine(1, "s"), Loc(2, "s", Named({}, TRUE, 1..4)),
     Loc(3, "t", Unnamed), Loc(4, "t", Named({1}, FALSE, {}))}
Further == {Mine(1, "s"), Mine(5, "s"), Loc(3, "t", Unnamed)}
AllPlaces == Places \cup Further
ShortAnswers == {<<>>} \cup {<<a>> : a \in Places} \cup
                {<<a, b>> : a \in Places, b \in Further}

Locating ==
    {[Small EXCEPT !.files[1].tree = <<Item("fn", 0), Item("fn", 1)>>, !.answers = ShortAnswers,
                   !.internal = {<<Mine(9, "i")>>}]}

(* Commands after each other. *)
RunTo(output) == [Run EXCEPT !.output = output]
Showing ==
    {[Small EXCEPT !.output = output, !.troubles = troubles, !.commands = commands] :
        output \in {<<>>, <<1>>, <<2, 1>>, <<1, 2, 1>>},
        troubles \in SUBSET {"late", "panic", "build"} \cup
                    {{"map"}, {"end"}, {"stdout"}, {"map", "end", "stdout", "late"}},
        commands \in {<<Index(1), Run, Index(1), Run, Index(1), Index(0)>>,
                      <<RunTo(<<"x", 1>>), RunTo(<<"x", 1>>), Index(1)>>,
                      <<Run, RunTo(<<"target", 9>>), Index(2), Index(1)>>}}

AllScenarios == Parsing \cup Workspaces \cup Locating \cup Showing

InternalNames == <<"rust_panic", "__firedbg_trace__", "exchange_malloc", "drop_in_place">>
SomeRequests == [file_id : 1..2, fn_name : 1..2, loc : {<<1, 8>>}, loc_end : {<<2, 1>>}]
SomeFiles    == 0..2   \* of SetupInit, which Session does not use
=============================================================================
