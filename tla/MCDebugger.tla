----------------------------- MODULE MCDebugger -----------------------------
(* Instances of Debugger for TLC. *)
EXTENDS Debugger, TLC

CONSTANTS t1, t2, f, g, nop, b1, b2, b3, b4

\* f has a larger frame than g; nop is nothing but a `ret`.
Sizes == [x \in {f, g, nop} |-> IF x = f THEN 3 ELSE IF x = g THEN 2 ELSE 1]
FG       == <<f, g>>
FGSizes  == [x \in {f, g} |-> Sizes[x]]
FNop      == <<f, g, nop>>
FNopSizes == Sizes

OnlyF      == <<f>>
OnlyFSizes == [x \in {f} |-> Sizes[x]]

ThreadSymmetry == Permutations(Threads)

GNop       == <<g, nop>>
GNopSizes  == [x \in {g, nop} |-> Sizes[x]]

\* b1 allocates an Rc, b2 a box, b3 a closure, b4 a value of no size.
BoxTypes == [b \in {b1, b2, b3, b4} |->
                CASE b = b1 -> "Rc" [] b = b2 -> "Node"
                  [] b = b3 -> "closure" [] b = b4 -> "Unit"]
RcAndClosure   == [b \in {b1, b3} |-> BoxTypes[b]]

FiveHits   == [t \in Threads |-> 5]
TwoHits    == [t \in Threads |-> 2]
UnevenHits == [t \in Threads |-> IF t = t1 THEN 4 ELSE 1]

NoFunctions == <<>>
NoSizes     == <<>>
NoTypes     == <<>>
=============================================================================
