---------------------------- MODULE BranchIslands ---------------------------
(***************************************************************************)
(* Branch islands.  A branch of ARM reaches some distance only.  In a text *)
(* section that is longer, regions for islands are chosen between atoms,   *)
(* at most Between apart, and a branch over more than Between goes from    *)
(* region to region, through an island in each: an atom of one branch,     *)
(* which all branches to the same target share.                            *)
(*                                                                         *)
(* Regions and distances are worked out as if islands took up no room;     *)
(* what a branch really reaches is more than Between.                      *)
(***************************************************************************)
EXTENDS Integers, Sequences, FiniteSets, FiniteSetsExt

CONSTANTS
    BranchInputs,  \* the text sections considered
    MightNeed,     \* textSizeWhenMightNeedBranchIslands()
    Between,       \* kBetweenRegions
    EndRoom,       \* a region is added at the end if the rest is this near to Between
    Reach,         \* how far a branch can go
    StubSize,
    IslandSize

\* Atoms are numbered in the order of the section; a stub is -1, -2, ...
BranchRecords == [at : Nat, to : Int, addend : Nat]

CodeRecords ==
    [size : Nat,
     align : Nat \ {0}, modulus : Nat,
     followOn : BOOLEAN,                  \* has a fixup kindNoneFollowOn
     branches : Seq(BranchRecords)]

TextRecords == [atoms : Seq(CodeRecords), stubs : Nat]

ASSUME IslandAssumption ==
    /\ {MightNeed, Between, EndRoom, Reach, StubSize, IslandSize} \subseteq Nat
    /\ EndRoom <= Between /\ Between <= Reach /\ IslandSize # 0
    /\ \A t \in BranchInputs :
          /\ t \in TextRecords /\ t.atoms # <<>>
          /\ \A a \in DOMAIN t.atoms : \A b \in DOMAIN t.atoms[a].branches :
                /\ t.atoms[a].branches[b].at <= t.atoms[a].size
                /\ t.atoms[a].branches[b].to \in DOMAIN t.atoms \cup {- s : s \in 1..t.stubs}

VARIABLES
    text,       \* the section; never changes
    round,      \* "regions", "branches" or "done"
    visited,    \* how many atoms the loop has visited
    regions,    \* branchIslandInsertionPoints
    regionEnd,  \* previousIslandEndAddr
    point,      \* insertionPoint; 0: NULL
    islands,    \* regionsIslands: the islands of each region
    hops,       \* where branches go: a region's island, or 0: the target itself
    list,       \* the atoms of the section after the pass
    unable      \* "Unable to insert branch island"

islandVars == <<text, round, visited, regions, regionEnd, point, islands, hops, list, unable>>

-----------------------------------------------------------------------------
(* Offsets.                                                                *)

Aligned(offset, align, modulus) == offset + ((modulus - offset) % align)

\* The offsets of the atoms of a list, by size and alignment
Offsets(atoms) ==
    LET off[n \in 0..Len(atoms)] ==
          IF n = 0 THEN 0
          ELSE Aligned(IF n = 1 THEN 0 ELSE off[n - 1] + atoms[n - 1].size,
                       atoms[n].align, atoms[n].modulus)
    IN  off

EndOf(atoms) == Offsets(atoms)[Len(atoms)] + atoms[Len(atoms)].size

Offset == Offsets(text.atoms)
AtomEnd(a) == Offset[a] + text.atoms[a].size
TotalTextSize == EndOf(text.atoms) + text.stubs * StubSize

Branches == UNION {{a} \X DOMAIN text.atoms[a].branches : a \in DOMAIN text.atoms}
Branch(br) == text.atoms[br[1]].branches[br[2]]
Key(br) == [to |-> Branch(br).to, addend |-> Branch(br).addend]

SrcAddr(br) == Offset[br[1]] + Branch(br).at
KeyAddr(key) == IF key.to < 0 THEN TotalTextSize ELSE Offset[key.to] + key.addend
DstAddr(br) == KeyAddr(Key(br))
Displacement(br) == DstAddr(br) - SrcAddr(br)

RegionAddr(i) == AtomEnd(regions[i])

-----------------------------------------------------------------------------
(* The pass: makeIslandsForSection().                                      *)

IslandInit ==
    /\ text \in BranchInputs
    /\ round = IF TotalTextSize < MightNeed THEN "done" ELSE "regions"
    /\ visited = 0 /\ regions = <<>> /\ regionEnd = 0 /\ point = 0
    /\ islands = <<>> /\ hops = <<>> /\ unable = FALSE
    /\ list = [a \in DOMAIN text.atoms |-> [atom |-> a]]

\* A region goes after the last atom that may have one, if with this atom
\* the run would be too long.
VisitAtom ==
    /\ round = "regions" /\ visited < Len(text.atoms)
    /\ LET a == visited + 1
           long == AtomEnd(a) > regionEnd + Between
       IN  IF long /\ point = 0
           THEN /\ unable' = TRUE /\ round' = "done"
                /\ UNCHANGED <<visited, regions, regionEnd, point>>
           ELSE /\ visited' = a
                /\ regions' = IF long THEN Append(regions, point) ELSE regions
                /\ regionEnd' = IF long THEN AtomEnd(point) ELSE regionEnd
                /\ point' = IF ~ text.atoms[a].followOn THEN a
                            ELSE IF long THEN 0 ELSE point
                /\ UNCHANGED <<unable, round>>
    /\ UNCHANGED <<text, islands, hops, list>>

\* One more region after the last atom
LastRegion ==
    IF point # 0 /\ AtomEnd(point) > regionEnd + (Between - EndRoom)
    THEN Append(regions, point) ELSE regions

EndRegions ==
    /\ round = "regions" /\ visited = Len(text.atoms)
    /\ regions' = LastRegion
    /\ islands' = [i \in DOMAIN regions' |-> <<>>]
    /\ round' = "branches"
    /\ UNCHANGED <<text, visited, regionEnd, point, hops, list, unable>>

\* The next branch, in the order of the atoms and their fixups
IsNext(br) ==
    /\ br \notin DOMAIN hops
    /\ \A c \in Branches \ DOMAIN hops :
          br[1] < c[1] \/ (br[1] = c[1] /\ br[2] <= c[2])

\* The regions between a branch and its target
Crossed(br) ==
    LET s == SrcAddr(br)
        d == DstAddr(br)
    IN  IF s < d THEN {i \in DOMAIN regions : s < RegionAddr(i) /\ RegionAddr(i) <= d}
        ELSE {i \in DOMAIN regions : d < RegionAddr(i) /\ RegionAddr(i) <= s}

HasIsland(i, key) ==
    \E n \in DOMAIN islands[i] : [to |-> islands[i][n].to, addend |-> islands[i][n].addend] = key

\* For a mutant: the loop over the regions runs the other way.
HopAfterReversed(over, i, forward) ==
    LET beyond == {j \in over : IF forward THEN j < i ELSE i < j}
    IN  CASE beyond = {} -> 0
          [] beyond # {} /\ forward -> Max(beyond)
          [] beyond # {} /\ ~ forward -> Min(beyond)

\* Where the island in region i leads: to the next region towards the target
HopAfter(over, i, forward) ==
    LET beyond == {j \in over : IF forward THEN i < j ELSE j < i}
    IN  CASE beyond = {} -> 0
          [] beyond # {} /\ forward -> Min(beyond)
          [] beyond # {} /\ ~ forward -> Max(beyond)

\* The first hop of a branch over the regions: as if it came from an island
\* in front of them all
FirstHop(over, forward) == HopAfter(over, IF forward THEN 0 ELSE Len(regions) + 1, forward)

\* A branch that goes too far gets an island in each region it crosses that
\* has none for its target; the branch goes to the first of them.
VisitBranch(br) ==
    /\ round = "branches" /\ IsNext(br)
    /\ LET far == Displacement(br) > Between \/ Displacement(br) < - Between
           forward == Displacement(br) > 0
           over == IF far THEN Crossed(br) ELSE {}
       IN  /\ islands' = [i \in DOMAIN islands |->
                            IF i \in over /\ ~ HasIsland(i, Key(br))
                            THEN Append(islands[i],
                                        [to |-> Branch(br).to, addend |-> Branch(br).addend,
                                         next |-> HopAfter(over, i, forward)])
                            ELSE islands[i]]
           /\ hops' = [b \in DOMAIN hops \cup {br} |->
                         IF b = br THEN FirstHop(over, forward) ELSE hops[b]]
    /\ UNCHANGED <<text, round, visited, regions, regionEnd, point, list, unable>>

\* The atoms of the section with each region's islands after its point
WithIslands ==
    LET after(a) == {i \in DOMAIN regions : regions[i] = a}
        upto[a \in 0..Len(text.atoms)] ==
          IF a = 0 THEN <<>>
          ELSE upto[a - 1] \o <<[atom |-> a]>> \o
               (IF after(a) = {} THEN <<>>
                ELSE LET i == CHOOSE i \in after(a) : TRUE
                     IN  [n \in DOMAIN islands[i] |-> [region |-> i, place |-> n]])
    IN  upto[Len(text.atoms)]

InsertIslands ==
    /\ round = "branches" /\ DOMAIN hops = Branches
    /\ list' = WithIslands
    /\ round' = "done"
    /\ UNCHANGED <<text, visited, regions, regionEnd, point, islands, hops, unable>>

IslandsDone == round = "done" /\ UNCHANGED islandVars

IslandNext == \/ VisitAtom \/ EndRegions \/ (\E br \in Branches : VisitBranch(br))
              \/ InsertIslands \/ IslandsDone

IslandSpec == IslandInit /\ [][IslandNext]_islandVars

-----------------------------------------------------------------------------
(* Where things are in the output.                                         *)

IsIsland(l) == "region" \in DOMAIN l

\* The list as atoms with a size and an alignment
Placed ==
    [n \in DOMAIN list |->
        IF IsIsland(list[n]) THEN [size |-> IslandSize, align |-> IslandSize, modulus |-> 0]
        ELSE [size |-> text.atoms[list[n].atom].size, align |-> text.atoms[list[n].atom].align,
              modulus |-> text.atoms[list[n].atom].modulus]]

PlaceOf(l) == CHOOSE n \in DOMAIN list : list[n] = l
FinalAddr(l) == Offsets(Placed)[PlaceOf(l)]
FinalAtom(a) == FinalAddr([atom |-> a])

\* Stub s is in the section after the text.
TargetAddr(key) ==
    IF key.to < 0 THEN EndOf(Placed) + (- key.to - 1) * StubSize
    ELSE FinalAtom(key.to) + key.addend

IslandFor(i, key) ==
    CHOOSE n \in DOMAIN islands[i] : islands[i][n].to = key.to /\ islands[i][n].addend = key.addend

\* The regions a branch goes over, in the order it does, and zeros after them
Route(br) ==
    LET from[n \in 0..Len(regions)] ==
          IF n = 0 THEN hops[br]
          ELSE IF from[n - 1] = 0 THEN 0
          ELSE islands[from[n - 1]][IslandFor(from[n - 1], Key(br))].next
    IN  from

HopCount(br) == CHOOSE n \in 0..Len(regions) :
                    Route(br)[n] = 0 /\ \A k \in 0..(n - 1) : Route(br)[k] # 0

\* The addresses a branch passes: islands branch to the target atom itself,
\* and the addend of the branch is added to the address of the first island.
Stops(br) ==
    LET key == Key(br)
        at(i) == FinalAddr([region |-> i, place |-> IslandFor(i, key)])
    IN  [n \in 1..(HopCount(br) + 1) |->
            IF n <= HopCount(br) THEN at(Route(br)[n - 1]) + (IF n = 1 THEN key.addend ELSE 0)
            ELSE TargetAddr(IF n = 1 THEN key ELSE [key EXCEPT !.addend = 0])]

-----------------------------------------------------------------------------
(* Properties.                                                             *)

\* Where an atom or an island would be if islands took up no room
Home(l) == IF IsIsland(l) THEN RegionAddr(l.region) ELSE Offset[l.atom]

\* Islands have not pushed anything, the end included, further than that.
PushedAtMost(room) ==
    /\ \A n \in DOMAIN list : Offsets(Placed)[n] - Home(list[n]) <= room
    /\ EndOf(Placed) - EndOf(text.atoms) <= room

\* Where the atom before ends
RunStart(a) == IF a = 1 THEN 0 ELSE AtomEnd(a - 1)

\* No run of atoms that must stay together is longer than Between, what it is
\* aligned by included, and none goes on in another section; the stubs take no
\* more room than is left for them at the end.
Reasonable ==
    /\ \A a, b \in DOMAIN text.atoms :
          a <= b /\ (\A c \in a..(b - 1) : text.atoms[c].followOn) =>
             AtomEnd(b) - RunStart(a) <= Between - EndRoom
    /\ ~ text.atoms[Len(text.atoms)].followOn
    /\ text.stubs * StubSize <= EndRoom

Near(x, y) == x - y <= Between /\ y - x <= Between

\* Where an island, or a branch, that hops to a region, or to none, comes to
Landing(hop, key) == IF hop = 0 THEN KeyAddr(key) ELSE RegionAddr(hop)

\* A place for each region is found, and every leg of a branch, from region to
\* region and to the target, is at most Between long, by the offsets without
\* islands; islands that branches share included.
LegsAreShort ==
    Reasonable =>
        /\ ~ unable
        /\ \A br \in DOMAIN hops : Branch(br).addend = 0 =>
              Near(SrcAddr(br), Landing(hops[br], Key(br)))
        /\ \A i \in DOMAIN islands : \A n \in DOMAIN islands[i] :
              islands[i][n].addend = 0 =>
                 Near(RegionAddr(i), Landing(islands[i][n].next, islands[i][n]))

\* The branch, and every island on its way, reaches where it goes, the last one
\* the target.
Arrives(br) ==
    \E stops \in {Stops(br)} :
       LET from(n) == IF n = 1 THEN FinalAtom(br[1]) + Branch(br).at ELSE stops[n - 1]
       IN  /\ stops[Len(stops)] = TargetAddr(Key(br))
           /\ \A n \in DOMAIN stops :
                 stops[n] - from(n) <= Reach /\ from(n) - stops[n] <= Reach

\* Legs are short, and every branch arrives: if the islands have pushed nothing
\* further than branches reach beyond Between.
BranchesReach ==
    /\ LegsAreShort
    /\ round = "done" /\ Reasonable /\ PushedAtMost(Reach - Between) =>
           \A br \in DOMAIN hops : Branch(br).addend = 0 => Arrives(br)

\* "an island is added to that region with the same target and the bl is
\* adjusted to target the island instead" (branch_island.cpp:390): a branch
\* that goes over islands goes to one, and from the last to its target.
IslandsKeepTarget ==
    round = "done" /\ ~ unable =>
        \A br \in DOMAIN hops : hops[br] # 0 =>
            /\ Stops(br)[1] = FinalAddr([region |-> hops[br],
                                         place |-> IslandFor(hops[br], Key(br))])
            /\ Stops(br)[Len(Stops(br))] = TargetAddr(Key(br))
=============================================================================
