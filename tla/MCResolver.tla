----------------------------- MODULE MCResolver -----------------------------
(* Instances of Resolver for TLC. *)
EXTENDS Resolver

\* 1, 2: x and, perhaps, y of the object file; 3: y of member m1; 4, 5: z and,
\* perhaps, y of member m2; 6, 7: y and z of dylib D; 8: y of dylib E; 9, 10: a
\* literal of the object file and of m2; 11, 12: nothing, but for MCDeadStrip.
MCAtoms == 1 .. 12
MCNames == {"x", "y", "z"}

MCAtom(n, f) ==
    [name |-> n, content |-> "c", combine |-> "never", definition |-> "regular",
     machHeader |-> FALSE, lto |-> FALSE, autoHide |-> FALSE, scope |-> "global",
     size |-> 1, alignment |-> 0, path |-> f, ordinal |-> f, subordinates |-> {}]
MCTentative(n, f) == [MCAtom(n, f) EXCEPT !.definition = "tentative"]
MCWeak(n, f) == [MCAtom(n, f) EXCEPT !.combine = "byName"]
MCExport(n, f) == [MCAtom(n, f) EXCEPT !.definition = "proxy", !.scope = "linkageUnit"]
MCWeakExport(n, f) == [MCExport(n, f) EXCEPT !.combine = "byName"]
MCHidden(a) == [a EXCEPT !.scope = "linkageUnit"]

MCStatic(f) == [MCAtom("x", f) EXCEPT !.scope = "translationUnit"]
MCLiteral(f) ==
    MCHidden([MCAtom("x", f) EXCEPT !.combine = "byContent", !.alignment = f])
MCUnused == MCAtom("y", 9)
MCNothing == [n \in {} |-> 0]

\* What varies: the kinds of the definitions of y, who refers to what, which
\* files and libraries define y and z, and the order of the libraries.
MCLink(y2, y3, y5, y6, ref1, ref3, code, hasY, m2HasY, exportsZ, order, auto) ==
    [attributes |-> <<MCAtom("x", 1), y2, y3, MCAtom("z", 3), y5, y6,
                      MCExport("z", 4), MCExport("y", 5), MCLiteral(1), MCLiteral(3),
                      MCUnused, MCUnused>>,
     references |-> [a \in MCAtoms |-> CASE a = 1 -> ref1 [] a = 3 -> ref3
                                         [] a = 4 -> {"y"} [] OTHER -> {}],
     literals |-> [a \in MCAtoms |-> CASE a = 1 -> 9 [] a = 4 -> 10 [] OTHER -> NoAtom],
     targets |-> [a \in MCAtoms |-> {}],
     dontDeadStrip |-> {}, ifReferencesLive |-> {},
     globalsAreRoots |-> FALSE,
     code |-> code,
     atoms |-> [f \in {"main", "m1", "m2", "m3"} |->
                  CASE f = "main" -> IF hasY THEN <<1, 2, 9>> ELSE <<1, 9>>
                    [] f = "m1" -> <<3>>
                    [] f = "m2" -> IF m2HasY THEN <<4, 5, 10>> ELSE <<4, 10>>
                    [] f = "m3" -> <<>>],
     autolinks |-> [f \in {"main", "m1", "m2", "m3"} |-> IF f = "m1" THEN auto ELSE {}],
     dylibs |-> {"D", "E"},
     members |-> [l \in {"A", "B", "D", "E"} |->
                    CASE l = "A" -> [n \in {"y"} |-> "m1"]
                      [] l = "B" -> [n \in {"z"} |-> "m2"]
                      [] OTHER -> MCNothing],
     exports |-> [l \in {"A", "B", "D", "E"} |->
                    CASE l = "D" -> [n \in {"y"} \cup exportsZ |->
                                       IF n = "y" THEN 6 ELSE 7]
                      [] l = "E" -> [n \in {"y"} |-> 8]
                      [] OTHER -> MCNothing],
     objects |-> <<"main">>,
     libraries |-> order,
     undefines |-> {"x"}]

MCOrders == {<<<<"A", "B">>, {}>>, <<<<"D", "A">>, {}>>, <<<<"D", "A">>, {"B"}>>,
             <<<<"B", "D", "E">>, {}>>, <<<<"A">>, {}>>,
             <<<<"A", "D">>, {}>>}

MCLinksOf(kinds2, orders) ==
    {MCLink(y2[1], y3[1], y5[1], y6, ref1, ref3, y3[2], y2[2], y5[2], {"z"},
            order[1], order[2]) :
        y2 \in kinds2,
        y3 \in {<<MCAtom("y", 2), {}>>, <<MCAtom("y", 2), {3}>>,
                <<[MCTentative("y", 2) EXCEPT !.size = 2], {}>>},
        y5 \in {<<MCUnused, FALSE>>, <<MCWeak("y", 3), TRUE>>,
                <<MCTentative("y", 3), TRUE>>},
        y6 \in {MCExport("y", 4), MCWeakExport("y", 4)},
        ref1 \in {{"y"}, {"y", "z"}},
        ref3 \in {{}, {"z"}},
        order \in orders}
MCLinks ==
    MCLinksOf({<<MCUnused, FALSE>>, <<MCTentative("y", 1), TRUE>>}, MCOrders)
\* m1 asks for B, whose member m2 refers to x, which is in m3 of A.
MCAutolinkChain ==
    {[l EXCEPT !.attributes[1].scope = "translationUnit",
               !.attributes[5] = MCAtom("x", 6),
               !.references[4] = {"x"}, !.atoms["m2"] = <<4>>,
               !.literals[4] = NoAtom, !.attributes[10] = MCUnused,
               !.atoms["m3"] = <<5>>,
               !.members["A"] = [n \in {"x", "y"} |-> IF n = "x" THEN "m3" ELSE "m1"],
               !.undefines = {}] :
        l \in MCLinksOf({<<MCUnused, FALSE>>}, {<<<<"A">>, {"B"}>>})}
MCAttributes == {l.attributes : l \in MCLinks \cup MCAutolinkChain}
==============================================================================
