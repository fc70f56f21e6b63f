------------------------------ MODULE MCPasses ------------------------------
(***************************************************************************)
(* The passes that order atoms, merge functions, send references through   *)
(* stubs and tables, put islands in and make the unwind table, the layout  *)
(* of the sections around them, and the instructions as they are written   *)
(* (main() runs them one after the other).  They keep no state for one     *)
(* another but the lists of atoms, of which each module considers its own: *)
(* each behaviour runs one of them on one of its inputs, while the others  *)
(* have nothing to do.                                                     *)
(***************************************************************************)
EXTENDS MCAtomOrder, MCDedup, BranchIslands, UnwindInfo, MCSectionLayout,
        MCCodeReferences

(***************************************************************************)
(* Instances of BranchIslands: a branch reaches 26, regions are 20 apart.  *)
(***************************************************************************)
MCBranch(at, to, addend) == [at |-> at, to |-> to, addend |-> addend]

\* Atoms with the sizes given; branches[a] is what atom a branches to.
MCText(sizes, aligned, follow, branches, stubs) ==
    [atoms |-> [a \in DOMAIN sizes |->
                  [size |-> sizes[a], align |-> IF a \in aligned THEN 2 ELSE 1, modulus |-> 0,
                   followOn |-> a \in follow, branches |-> branches[a]]],
     stubs |-> stubs]

\* Branches from the first, a middle and the last atom
MCBranches(t) ==
    [a \in 1..7 |-> CASE a = 1 -> <<MCBranch(0, t[1], 0), MCBranch(2, t[2], 0)>>
                      [] a = 4 -> <<MCBranch(1, t[2], 0)>>
                      [] a = 7 -> <<MCBranch(0, t[3], 0), MCBranch(2, t[1], 0)>>
                      [] OTHER -> <<>>]

MCTexts ==
    {MCText(sizes, al, fo, MCBranches(t), 2) :
        sizes \in {s \in [1..7 -> {5, 10}] : s[2] = s[5] /\ s[3] = s[6]},
        al \in {{}, {3, 5}}, fo \in {{}, {2}, {4, 5}, {1, 2, 3}},
        t \in {<<7, -1, 1>>, <<5, 6, 2>>, <<4, 7, 3>>, <<-2, 1, 6>>, <<7, 7, 1>>}}

\* A branch to a place within an atom
MCOffsets ==
    {MCText([a \in 1..7 |-> 8], {}, {}, [MCBranches(<<7, 7, 1>>) EXCEPT ![1][1].addend = k], 0) :
        k \in 0..3}

(***************************************************************************)
(* Instances of UnwindInfo: pages of ten words, so of seven entries and    *)
(* encodings, or of four regular entries.                                  *)
(***************************************************************************)
MCCode(mode, saved, lsda, personality, size, gap) ==
    [size |-> size, code |-> TRUE, unwind |-> mode # "none", mode |-> mode, saved |-> saved,
     fde |-> mode = "dwarf", lsda |-> lsda, personality |-> personality, gap |-> gap]

MCKinds ==
    [a |-> MCCode("frame", 1, FALSE, Nothing, 1, 0),
     b |-> MCCode("frame", 2, FALSE, Nothing, 1, 0),
     l |-> MCCode("frame", 1, TRUE, 5, 2, 0),
     m |-> MCCode("frame", 1, FALSE, 5, 1, 0),
     d |-> MCCode("dwarf", 0, FALSE, Nothing, 1, 1),
     p |-> MCCode("dwarf", 0, TRUE, 6, 1, 0),
     s |-> MCCode("stackInd", 3, FALSE, Nothing, 1, 0),
     n |-> MCCode("none", 0, FALSE, Nothing, 1, 0),
     x |-> MCCode("frame", 4, FALSE, Nothing, 9, 2),
     q |-> MCCode("frame", 1, TRUE, 7, 1, 0),
     r |-> MCCode("frame", 1, TRUE, 8, 1, 0)]

MCProgram(kinds, eh) == [atoms |-> [i \in DOMAIN kinds |-> MCKinds[kinds[i]]], ehFrame |-> eh]

\* Short programs of all kinds, of those with personality routines, and long
\* ones in which a pattern of three repeats but for a few functions
MCNames == [short |-> <<"a", "b", "l", "d", "n">>, routines |-> <<"l", "m", "p", "q", "r">>,
            long |-> <<"a", "b", "d", "p", "s">>]
MCOthers == <<"x", "p", "s", "x", "p">>
MCOtherAt == <<{}, {4}, {5, 9}, {2, 3, 11}, {}>>
MCFunctionsOf(length, k) ==
    IF length = "long"
    THEN [i \in 1..12 |-> IF i \in MCOtherAt[k[5]] THEN MCOthers[k[4]]
                          ELSE MCNames.long[k[1 + (i % 3)]]]
    ELSE [i \in 1..5 |-> MCNames[length][k[i]]]

MCPrograms ==
    {MCProgram(MCFunctionsOf(p[1], k), p[2]) : k \in [1..5 -> 1..5],
        p \in {<<"short", 0>>, <<"short", 3>>, <<"routines", 0>>} \cup ({"long"} \X {0, 4, 8})}

(***************************************************************************)
(* The composition                                                         *)
(***************************************************************************)
NoInput == [atoms |-> <<>>, subsections |-> {}, moves |-> {}, order |-> <<>>]
NoFunctions == [content |-> <<>>, name |-> <<>>, autoHide |-> {}, fixups |-> <<>>]
SmallText == MCText(<<1>>, {}, {}, <<<<>>>>, 0)

OrderIdle == /\ input = NoInput /\ phase = "done" /\ todo = <<>> /\ section = <<>>
             /\ pending = {} /\ starts = <<>> /\ nexts = <<>> /\ ordinals = <<>>
             /\ index = 0 /\ toData = {} /\ layout = [i \in 1..4 |-> <<>>] /\ failed = FALSE
DedupIdle == /\ given = NoFunctions /\ progress = "done" /\ left = {} /\ groups = <<>>
             /\ textAtoms = <<>> /\ table = <<>> /\ direct = <<>> /\ crossed = {}
IslandsIdle == /\ text = SmallText /\ round = "done" /\ visited = 0
               /\ regions = <<>> /\ regionEnd = 0 /\ point = 0 /\ islands = <<>>
               /\ hops = <<>> /\ list = <<[atom |-> 1]>> /\ unable = FALSE
UnwindIdle == /\ program = [atoms |-> <<>>, ehFrame |-> 0] /\ making = "made"
              /\ unique = <<>> /\ common = <<>> /\ endIndex = 0 /\ room = 0
              /\ pageList = <<>> /\ firstLevel = <<>> /\ tooMany = FALSE
LayoutIdle == /\ job = MCJob("dynamic", <<>>) /\ laying = "done" /\ arrived = 0
              /\ finals = <<>> /\ finalOf = <<>> /\ segmentsSeen = <<>>
              /\ header = 0 /\ encryptFrom = 0 /\ refused = TRUE

ReferencesIdle == /\ source = MCReferring(<<>>, <<>>, <<>>) /\ doing = "done"
                  /\ tables = [t \in {"stub", "lazy", "got", "tlv"} |-> {}]
                  /\ atoms = [a \in {0} |-> <<>>] /\ hintsOf = atoms
                  /\ current = 0 /\ hintNo = 1

PassesVars == <<orderVars, dedupVars, islandVars, unwindVars, layoutVars, referenceVars>>

PassesInit ==
    \/ OrderInit /\ DedupIdle /\ IslandsIdle /\ UnwindIdle /\ LayoutIdle /\ ReferencesIdle
    \/ DedupInit /\ OrderIdle /\ IslandsIdle /\ UnwindIdle /\ LayoutIdle /\ ReferencesIdle
    \/ IslandInit /\ OrderIdle /\ DedupIdle /\ UnwindIdle /\ LayoutIdle /\ ReferencesIdle
    \/ UnwindInit /\ OrderIdle /\ DedupIdle /\ IslandsIdle /\ LayoutIdle /\ ReferencesIdle
    \/ LayoutInit /\ OrderIdle /\ DedupIdle /\ IslandsIdle /\ UnwindIdle /\ ReferencesIdle
    \/ ReferencesInit /\ OrderIdle /\ DedupIdle /\ IslandsIdle /\ UnwindIdle /\ LayoutIdle

PassesNext ==
    \/ OrderNext /\ UNCHANGED <<dedupVars, islandVars, unwindVars, layoutVars, referenceVars>>
    \/ DedupNext /\ UNCHANGED <<orderVars, islandVars, unwindVars, layoutVars, referenceVars>>
    \/ IslandNext /\ UNCHANGED <<orderVars, dedupVars, unwindVars, layoutVars, referenceVars>>
    \/ UnwindNext /\ UNCHANGED <<orderVars, dedupVars, islandVars, layoutVars, referenceVars>>
    \/ LayoutNext /\ UNCHANGED <<orderVars, dedupVars, islandVars, unwindVars, referenceVars>>
    \/ ReferencesNext /\ UNCHANGED <<orderVars, dedupVars, islandVars, unwindVars, layoutVars>>

PassesSpec == PassesInit /\ [][PassesNext]_PassesVars
=============================================================================
