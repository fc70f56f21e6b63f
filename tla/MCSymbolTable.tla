---------------------------- MODULE MCSymbolTable ----------------------------
(* Instances of SymbolTable for TLC. *)
EXTENDS SymbolTable, TLC

MCAtoms == 1 .. 3

\* An ordinary definition from file f.
Strong(f) ==
    [name |-> "x", content |-> "c", combine |-> "never", definition |-> "regular",
     machHeader |-> FALSE, lto |-> FALSE, autoHide |-> FALSE, scope |-> "global",
     size |-> 1, alignment |-> 0, path |-> f, ordinal |-> f, subordinates |-> {}]
WeakOne(f) == [Strong(f) EXCEPT !.combine = "byName"]
TentativeOne(f) == [Strong(f) EXCEPT !.definition = "tentative"]
ProxyOne(f) == [Strong(f) EXCEPT !.definition = "proxy", !.scope = "linkageUnit"]
AbsoluteOne(f) == [Strong(f) EXCEPT !.definition = "absolute"]
Literal(f) == [Strong(f) EXCEPT !.combine = "byContent"]

\* What file f can define x as.
KindsOf(f) ==
    {Strong(f), AbsoluteOne(f), TentativeOne(f), [TentativeOne(f) EXCEPT !.size = 2],
     [Strong(f) EXCEPT !.machHeader = TRUE],
     WeakOne(f), [WeakOne(f) EXCEPT !.alignment = 1],
     [WeakOne(f) EXCEPT !.scope = "linkageUnit", !.alignment = 1],
     [WeakOne(f) EXCEPT !.autoHide = TRUE],
     [WeakOne(f) EXCEPT !.autoHide = TRUE, !.scope = "linkageUnit", !.alignment = 1],
     [WeakOne(f) EXCEPT !.lto = TRUE, !.alignment = 1],
     ProxyOne(f), [ProxyOne(f) EXCEPT !.combine = "byName"]}

\* Three definitions of x, at most one of them the mach header.
MCThreeDefinitions ==
    {f \in {<<a, b, c>> : a \in KindsOf(1), b \in KindsOf(2), c \in KindsOf(3)} :
        \A i, j \in MCAtoms : f[i].machHeader /\ f[j].machHeader => i = j}
\* The same, where the second and third file may be members of one name.
MCOnePath ==
    MCThreeDefinitions \cup
        {<<f[1], f[2], [f[3] EXCEPT !.path = 2]>> : f \in MCThreeDefinitions}

\* Functions of three files named x or y, each with its unwind information, and
\* literals of one content or two.
FunctionKinds(f) ==
    {WeakOne(f), [WeakOne(f) EXCEPT !.alignment = 1], [WeakOne(f) EXCEPT !.name = "y"],
     Literal(f), [Literal(f) EXCEPT !.alignment = 1], [Literal(f) EXCEPT !.content = "d"]}
MCAtomsWithUnwind == 1 .. 6
Unwind(f) == [Strong(f) EXCEPT !.scope = "translationUnit"]
MCWithUnwind ==
    {[i \in 1 .. 6 |-> IF i > 3 THEN Unwind(i - 3)
                       ELSE [f[i] EXCEPT !.subordinates =
                                IF f[i].combine # "byContent" THEN {i + 3} ELSE {}]] :
        f \in {<<a, b, c>> : a \in FunctionKinds(1), b \in FunctionKinds(2),
                             c \in FunctionKinds(3)}}

\* Both, where the atoms 4 to 6 of three definitions are of no account.
MCAll == MCWithUnwind \cup
    {[i \in 1 .. 6 |-> IF i > 3 THEN Unwind(i - 3) ELSE f[i]] : f \in MCOnePath}

\* Two files that both define x, weak, and y, an alternate entry of it.
MCAltEntries ==
    {<<WeakOne(1), [WeakOne(1) EXCEPT !.name = "y", !.subordinates = {1}],
       [WeakOne(2) EXCEPT !.alignment = al],
       [WeakOne(2) EXCEPT !.name = "y", !.subordinates = {3}]>> : al \in 0 .. 1}
MCFour == 1 .. 4
==============================================================================
