----------------------------- MODULE MCAtomOrder ----------------------------
(* Instances of AtomOrder for TLC: two files, the second read first.        *)
EXTENDS AtomOrder
LOCAL INSTANCE SequencesExt

MCLabel(f, addr, name) ==
    [file |-> f, addr |-> addr, name |-> name, of |-> 0, alt |-> FALSE, cold |-> FALSE,
     zeroFill |-> FALSE, tentative |-> FALSE]

\* Four labels of file 2 at the addresses given, with the names the parser
\* leaves in descending order, and with -aliases after the one at place p;
\* then a label of file 1.
MCAtoms(addrs, alts, colds, p, aliases) ==
    LET labels == [i \in 1..4 |-> [MCLabel(2, addrs[i], 10 - i) EXCEPT
                                      !.alt = i \in alts, !.cold = i \in colds]]
        alias == {[MCLabel(2, addrs[p], n) EXCEPT !.of = p] : n \in aliases}
    IN  SubSeq(labels, 1, p) \o SetToSeq(alias)
            \o SubSeq(labels, p + 1, 4) \o <<MCLabel(1, 0, 1)>>

MCEntry(n) == [name |-> n, file |-> 0]

MCOrderInput(atoms, subs, moves, order) ==
    [atoms |-> atoms, subsections |-> subs, moves |-> moves, order |-> order]

\* Addresses, and the label that has -aliases; it is no alias itself.
MCPlaces == {<<<<0, 4, 8, 12>>, 2>>, <<<<0, 4, 8, 12>>, 3>>, <<<<0, 4, 4, 8>>, 3>>,
             <<<<0, 0, 8, 12>>, 2>>}
MCSubsections == {{1}, {1, 2}}
MCAlts == {{}, {2}, {3}, {3, 4}, {2, 3, 4}}
MCAliases == {{}, {2}, {2, 3}}

\* The order file names labels, an alias, and labels of one cluster twice.
MCOrdered ==
    {MCOrderInput(MCAtoms(pl[1], al, co, pl[2], aka), su, {}, o) :
        pl \in MCPlaces, al \in MCAlts, co \in {{}, {2}},
        aka \in MCAliases, su \in MCSubsections,
        o \in {<<>>, <<MCEntry(7)>>, <<MCEntry(1), MCEntry(9), MCEntry(1)>>,
              <<MCEntry(6), MCEntry(2), MCEntry(8)>>}}

MCMoved ==
    {MCOrderInput(MCAtoms(pl[1], al, {}, pl[2], aka), su, {mv}, o) :
        pl \in MCPlaces, al \in MCAlts,
        aka \in MCAliases, su \in MCSubsections, mv \in 6..9, o \in {<<>>, <<MCEntry(8)>>}}

\* Zero fill and tentative definitions, and one name in two files
MCZeroFill ==
    {MCOrderInput([i \in 1..5 |->
                IF i < 4 THEN [MCLabel(2, 4 * i, 10 - i) EXCEPT !.zeroFill = i \notin data,
                                 !.tentative = i \in tent \ data]
                ELSE [MCLabel(1, 4 * i, 10 - i) EXCEPT !.name = 8]],
             {1, 2}, mv, <<>>) :
        data \in {{}, {1}}, tent \in SUBSET {1, 2, 3}, mv \in {{}, {8}}}
MCZeroFillOrdered ==
    {[d EXCEPT !.order = o] : d \in MCZeroFill,
        o \in {<<>>, <<[name |-> 8, file |-> 2], [name |-> 9, file |-> 0]>>,
               <<[name |-> 8, file |-> 0], [name |-> 5, file |-> 0]>>}}

\* Three labels of one address: an alias of an alias
MCLadder == {MCOrderInput(MCAtoms(<<0, 4, 4, 4>>, {}, {}, 2, {}), {1, 2}, {}, <<>>)}

MCOrderInputs == MCOrdered \cup MCMoved \cup MCZeroFillOrdered \cup MCLadder
=============================================================================
