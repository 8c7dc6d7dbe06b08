------------------------------- MODULE Parser -------------------------------
(***************************************************************************)
(* The function finder (parser/src/parsing, parser/src/def/function.rs):   *)
(* which functions of a source file get a breakpoint, and where in their   *)
(* bodies it goes.                                                         *)
(*                                                                         *)
(* A source file is the sequence of its items in source order; an item is  *)
(* [kind, parent], the parent being the number of the item around it, or 0 *)
(* for the file.  A function is named by the number of its item.  Kinds:   *)
(*   "fn"        a function with its body                                  *)
(*   "method"    a function with a body in an impl block or a trait        *)
(*   "required"  a method of a trait without a body                        *)
(*   "impl", "impl_trait", "trait", "mod"                                  *)
(*   "stmt"      a statement or a constant: what is in it is not looked at *)
(***************************************************************************)
EXTENDS Integers, Sequences, FiniteSets, SequencesExt, Lists

Bodies == {"fn", "method"}
Scopes == {"impl", "impl_trait", "trait", "mod"}

ItemsIn(file, i) ==
    LET items == {j \in DOMAIN file : file[j].parent = i}
    IN  Ascending(items)

Around(file) ==  \* per item, the items around it
    LET around[i \in 0..Len(file)] ==
            IF i = 0 \/ file[i].parent = 0 THEN {}
            ELSE {file[i].parent} \cup around[file[i].parent]
    IN  around

\* The items are in source order: an item is in the file, in the item before it, or in one around that.
IsTree(file) ==
    /\ file \in Seq([kind : STRING, parent : Nat])
    /\ \A i \in DOMAIN file :
            /\ file[i].parent < i
            /\ i > 1 => file[i].parent \in {0, i - 1} \cup Around(file)[i - 1]

LastWithin(file, i) ==
    CHOOSE j \in i..Len(file) :
        /\ j = i \/ i \in Around(file)[j]
        /\ \A k \in (j + 1)..Len(file) : i \notin Around(file)[k]

(***************************************************************************)
(* Where the text is (lines from 1, columns from 0): an item per line, or  *)
(* everything on one line with the first statement right behind the brace. *)
(***************************************************************************)
Place(layout, i, column) == IF layout = "lines" THEN <<i, column>> ELSE <<1, 20 * i + column>>
ItemAt(layout, i)        == Place(layout, i, 0)
OpenAt(file, layout, i)  == Place(layout, i, IF ItemsIn(file, i) = <<>> THEN 8 ELSE 19)
CloseAt(file, layout, i) == LET last == LastWithin(file, i) IN Place(layout, last, 9 + last - i)

Before(a, b) == a[1] < b[1] \/ (a[1] = b[1] /\ a[2] < b[2])
Right(a, n)  == <<a[1], a[2] + n>>

-----------------------------------------------------------------------------
parse_body_loc_start_AtBrace(file, layout, i) == Right(OpenAt(file, layout, i), 1)

parse_body_loc_start(file, layout, i) == Right(OpenAt(file, layout, i), 2)

parse_body_loc_end(file, layout, i) ==
    IF ItemsIn(file, i) = <<>> THEN parse_body_loc_start(file, layout, i)
    ELSE Right(ItemAt(layout, ItemsIn(file, i)[1]), 1)

\* The span ends behind the brace.
parse_body_end(file, layout, i) == Right(Right(CloseAt(file, layout, i), 1), -1)

FunctionDef(file, layout, i) ==
    [ty      |-> IF file[i].kind = "fn" THEN "FreeFn"
                 ELSE CASE file[file[i].parent].kind = "impl"       -> "ImplFn"
                        [] file[file[i].parent].kind = "impl_trait" -> "ImplTraitFn"
                        [] OTHER                                    -> "TraitDefaultFn",
     fn_name |-> i,
     parent_func |-> 0,
     loc     |-> [start |-> parse_body_loc_start(file, layout, i),
                  end   |-> parse_body_loc_end(file, layout, i)],
     end     |-> parse_body_end(file, layout, i)]

into_nested_func(def, parent) == [def EXCEPT !.ty = "NestedFn", !.parent_func = parent.fn_name]

\* parse_nested_func: the function, then those that are items of its body.
parse_nested_func(def, inside) ==
    <<def>> \o [k \in DOMAIN inside |-> into_nested_func(inside[k], def)]

parse_file(file, layout) ==
    LET parse[i \in 0..Len(file)] ==
            LET items  == ItemsIn(file, i)
                inside == FlattenSeq([k \in DOMAIN items |-> parse[items[k]]])
            IN  IF i = 0 \/ file[i].kind \in Scopes THEN inside
                ELSE IF file[i].kind \in Bodies THEN parse_nested_func(FunctionDef(file, layout, i), inside)
                ELSE <<>>
    IN  parse[0]

-----------------------------------------------------------------------------
\* Every function that is not inside a statement is found, once, in the order of the source.
FoundInOrder(file, found) ==
    /\ \A k, l \in DOMAIN found : k < l => found[k].fn_name < found[l].fn_name
    /\ {found[k].fn_name : k \in DOMAIN found} =
       {i \in DOMAIN file : /\ file[i].kind \in Bodies
                            /\ \A j \in Around(file)[i] : file[j].kind \in Bodies \cup Scopes}

\* A function is marked as nested just when it is inside another, and then names one it is in.
NestingIsRecorded(file, found) ==
    \A k \in DOMAIN found :
        LET outer == {j \in Around(file)[found[k].fn_name] : file[j].kind \in Bodies}
        IN  /\ (found[k].ty = "NestedFn") = (outer # {})
            /\ outer # {} => found[k].parent_func \in outer

\* Both places for a breakpoint are behind the opening brace of the body (columns are from 1 there),
\* not behind its closing brace, and in no function inside it.
InOwnBody(file, layout, found) ==
    \A k \in DOMAIN found : \A at \in {found[k].loc.start, found[k].loc.end} :
        LET i == found[k].fn_name
        IN  /\ Before(Right(OpenAt(file, layout, i), 1), at)
            /\ ~Before(Right(CloseAt(file, layout, i), 1), at)
            /\ \A j \in DOMAIN file :
                    /\ file[j].kind \in Bodies
                    /\ i \in Around(file)[j]
                    => Before(at, OpenAt(file, layout, j))
=============================================================================
