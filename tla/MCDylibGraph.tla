---------------------------- MODULE MCDylibGraph ----------------------------
(* Instances of DylibGraph for TLC. *)
EXTENDS DylibGraph

\* "e" is read from the path "alias" too, and calls itself "e".
MCFiles == {"a", "b", "c", "e"}
MCPaths == {"a", "b", "c", "e", "alias"}
MCSymbols == {"x", "y"}
MCNoFile == "none"

MCReExport(p) == [path |-> p, reExport |-> TRUE]
MCLoad(p) == [path |-> p, reExport |-> FALSE]

MCInput(deps, public, line, early, late) ==
    [installPath |-> [f \in MCFiles |-> f],
     at |-> [p \in MCPaths |-> IF p = "alias" THEN "e" ELSE p],
     dependents |-> deps,
     umbrella |-> [f \in MCFiles |-> MCNoFile],
     noRexports |-> {f \in MCFiles : deps[f] = <<>>},
     explicitReExport |-> {f \in MCFiles : \E i \in DOMAIN deps[f] : deps[f][i].reExport},
     public |-> public,
     exports |-> [f \in MCFiles |-> CASE f = "c" -> {"x"} [] f = "e" -> {"x", "y"}
                                      [] OTHER -> {}],
     ignored |-> [f \in MCFiles |-> {}],
     flat |-> FALSE,
     stripUnused |-> FALSE,
     line |-> line,
     autolinked |-> early,
     autolinkedLate |-> late]

MCOrNot(S) == {<<>>} \cup {<<MCReExport(p)>> : p \in S}
MCDeps(A, B, C) ==
    {[f \in MCFiles |-> CASE f = "a" -> da [] f = "b" -> db [] f = "c" -> dc
                          [] OTHER -> <<>>] : da \in A, db \in B, dc \in C}

\* Every way three dylibs may re-export each other, or one read by an alias.
MCGraphs ==
    MCDeps(MCOrNot({"b"}) \cup {<<MCReExport("c"), MCReExport("b")>>},
           MCOrNot({"a", "b", "c", "alias"}) \cup {<<MCReExport("a"), MCReExport("c")>>},
           MCOrNot({"a", "b", "e"}) \cup {<<MCReExport("e"), MCReExport("alias")>>})
MCTwoLevel ==
    {MCInput(deps, public, line, early, late) :
        deps \in MCGraphs, public \in {{"b"}, {"b", "c", "e"}},
        line \in {<<"a">>, <<"a", "c", "a">>},
        early \in {{}, {"b"}}, late \in {{"e"}}}

\* Dylibs of the old format: what is loaded may name its umbrella.
MCOld ==
    {[MCInput(deps, {"c"}, <<"a">>, {}, {"c"}) EXCEPT
         !.umbrella = [f \in MCFiles |-> IF f = "b" THEN "a" ELSE MCNoFile],
         !.explicitReExport = ex, !.ignored["b"] = hidden, !.flat = flat,
         !.stripUnused = ~ flat, !.noRexports = {}, !.at["c"] = where] :
        deps \in MCDeps({<<MCLoad("c"), MCLoad("b")>>, <<MCLoad("b"), MCLoad("a")>>},
                        {<<MCReExport("c")>>, <<MCLoad("c")>>, <<MCReExport("e")>>},
                        {<<>>, <<MCLoad("b")>>}),
        ex \in {{}, {"a"}}, hidden \in {{}, {"x"}}, flat \in BOOLEAN,
        where \in {"c", MCNoFile}}

MCInputs == MCTwoLevel \cup MCOld

\* "b" calls itself "c", which the link has read already.
MCTwins ==
    {[MCInput([f \in MCFiles |-> IF f = "a" THEN <<MCReExport("c")>> ELSE <<>>],
              {}, <<"a">>, {}, {"b"}) EXCEPT
         !.installPath["b"] = "c", !.exports["b"] = {"y"}]}
=============================================================================
