----------------------------- MODULE AtomOrder ------------------------------
(***************************************************************************)
(* Where atoms are laid out.  Atoms that must be laid out one after the    *)
(* other are chained by follow-on fixups; a chain is a cluster.  First     *)
(* each atom is put in a section of the output, another one if a symbol of *)
(* its cluster is moved to another segment.  Then the order pass links the *)
(* follow-ons into clusters, gives the atoms of an order file, and their   *)
(* clusters, ordinals, and sorts the atoms of each section.                *)
(*                                                                         *)
(* Atoms are numbered in the order they are read.  An atom is a label of   *)
(* an object file, at its address, or an -alias of another atom.           *)
(***************************************************************************)
EXTENDS Naturals, Sequences, FiniteSets, TLC, SequencesExt

CONSTANTS
    OrderInputs   \* the inputs considered

NoAtom == 0

AtomRecords ==
    [file : Nat,            \* the ordinal of its file
     addr : Nat,            \* objectAddress()
     name : Nat,            \* names, by their order
     of : Nat,              \* an -alias of this atom; NoAtom: a label of the file
     alt : BOOLEAN,         \* N_ALT_ENTRY
     cold : BOOLEAN,        \* N_COLD_FUNC
     zeroFill : BOOLEAN,    \* in a zero fill section
     tentative : BOOLEAN]   \* definitionTentative

OrderInputRecords ==
    [atoms : Seq(AtomRecords),
     subsections : SUBSET Nat,                      \* files with .subsections_via_symbols
     moves : SUBSET Nat,                            \* names -move_to_rw_segment lists
     order : Seq([name : Nat, file : Nat])]         \* the order file; file 0: any

\* An alias comes after its atom; a section does not start with an alt entry;
\* a file has one tentative definition of a name, as such names are global.
ASSUME OrderAssumption ==
    \A d \in OrderInputs :
        /\ d \in OrderInputRecords
        /\ \A a \in DOMAIN d.atoms :
              /\ d.atoms[a].of < a
              /\ d.atoms[a].alt =>
                    \E b \in 1..(a - 1) : /\ d.atoms[b].file = d.atoms[a].file
                                          /\ ~ d.atoms[b].alt
              /\ d.atoms[a].tentative =>
                    \A b \in 1..(a - 1) :
                        d.atoms[b].tentative /\ d.atoms[b].file = d.atoms[a].file
                            => d.atoms[b].name # d.atoms[a].name

VARIABLES
    input,      \* the input; never changes
    phase,      \* "place", "link", "order", "sort" or "done"
    todo,       \* the atoms, or entries, the phase has still to visit
    section,    \* FinalSection::atoms: the section of each atom placed
    pending,    \* _pendingSegMove: atoms to be moved
    starts,     \* _followOnStarts: the first atom of an atom's cluster
    nexts,      \* _followOnNexts: the next atom of the cluster; NoAtom: null
    ordinals,   \* _ordinalOverrideMap
    index,      \* the next ordinal
    toData,     \* moveToData
    layout,     \* the sorted atoms of each section
    failed      \* an assertion failed

orderVars == <<input, phase, todo, section, pending, starts, nexts, ordinals, index,
          toData, layout, failed>>

Atoms == DOMAIN input.atoms
Atom(a) == input.atoms[a]

-----------------------------------------------------------------------------
(* What the object file parser and the resolver make of the labels.        *)

FileLabels(a) ==
    {b \in Atoms : Atom(b).of = NoAtom /\ Atom(b).file = Atom(a).file
                   /\ Atom(b).zeroFill = Atom(a).zeroFill}

\* The next atom of the section in the object file
NextLabel(a) ==
    LET later == {b \in FileLabels(a) : b > a}
    IN  IF later = {} THEN NoAtom ELSE CHOOSE b \in later : \A c \in later : b <= c

\* A label with another one at its address is an alias of that one.
IsAlias(a) ==
    \/ Atom(a).of # NoAtom
    \/ NextLabel(a) # NoAtom /\ Atom(NextLabel(a)).addr = Atom(a).addr

\* The target of an atom's follow-on fixup, if it has one
FollowOn(a) ==
    CASE Atom(a).of # NoAtom -> Atom(a).of
      [] Atom(a).of = NoAtom /\ NextLabel(a) = NoAtom -> NoAtom
      [] OTHER -> IF \/ Atom(a).file \notin input.subsections
                     \/ IsAlias(a)
                     \/ Atom(NextLabel(a)).alt
                  THEN NextLabel(a) ELSE NoAtom

\* kindNoneGroupSubordinate: the label that starts the group of an alt entry
GroupOf(a) ==
    IF Atom(a).alt /\ Atom(a).file \in input.subsections
    THEN Max({b \in FileLabels(a) : b < a /\ ~ Atom(b).alt})
    ELSE NoAtom

Chained == {a \in Atoms : FollowOn(a) # NoAtom}

-----------------------------------------------------------------------------
(* Segment moves.                                                          *)

\* The start of the group a call asks for: a call that came back does not.
StartOfGroup(c) == IF c.back THEN NoAtom ELSE GroupOf(c.atom)

(* Whether an atom is moved, and the atoms to be moved after the question. *)
(* A call for an atom asks for its follow-on, and for the start of its     *)
(* group unless a start has been asked for already.                        *)
InMoveRWChain ==
    LET ask[c \in [atom : Atoms, back : BOOLEAN, pending : SUBSET Atoms]] ==
          IF c.atom \in c.pending THEN [moved |-> TRUE, pending |-> c.pending]
          ELSE
          LET f == FollowOn(c.atom)
              g == StartOfGroup(c)
              r == IF f = NoAtom THEN [moved |-> FALSE, pending |-> c.pending]
                   ELSE ask[[c EXCEPT !.atom = f]]
              s == IF g = NoAtom THEN [r EXCEPT !.moved = FALSE]
                   ELSE ask[[atom |-> g, back |-> TRUE, pending |-> r.pending]]
              moved == Atom(c.atom).name \in input.moves \/ r.moved \/ s.moved
          IN  [moved |-> moved,
               pending |-> s.pending \cup IF moved THEN {f} \ {NoAtom} ELSE {}]
    IN  ask

\* Segment and section of an atom that is moved, or not
SectionFor(a, moved) ==
    IF moved THEN IF Atom(a).zeroFill THEN "movedZeroFill" ELSE "movedData"
             ELSE IF Atom(a).zeroFill THEN "zeroFill" ELSE "data"

Sections == <<"data", "zeroFill", "movedData", "movedZeroFill">>
AtomsIn(s) == {a \in Atoms : section[a] = s}
AtomsOf(s) == SelectSeq([i \in Atoms |-> i], LAMBDA a : a \in AtomsIn(s))

\* The order in which the pass meets the atoms
VisitOrder == FlattenSeq([i \in 1..4 |-> AtomsOf(Sections[i])])

OrderInit ==
    /\ input \in OrderInputs
    /\ phase = "place"
    /\ todo = [i \in Atoms |-> i]
    /\ section = <<>>
    /\ pending = {}
    /\ starts = <<>>
    /\ nexts = <<>>
    /\ ordinals = <<>>
    /\ index = 0
    /\ toData = {}
    /\ layout = <<>>
    /\ failed = FALSE

\* addAtom(): the next atom is given its section.
AddAtom ==
    /\ phase = "place" /\ todo # <<>>
    /\ \E r \in {InMoveRWChain[[atom |-> Head(todo), back |-> FALSE, pending |-> pending]]} :
          /\ section' = Append(section, SectionFor(Head(todo), r.moved))
          /\ pending' = r.pending
    /\ todo' = Tail(todo)
    /\ UNCHANGED <<input, phase, starts, nexts, ordinals, index, toData, layout, failed>>

\* The order pass begins; without an order file only the sorting is left.
BeginOrder ==
    /\ phase = "place" /\ todo = <<>>
    /\ IF input.order = <<>>
       THEN phase' = "sort" /\ todo' = <<>>
       ELSE phase' = "link" /\ todo' = SelectSeq(VisitOrder, LAMBDA a : a \in Chained)
    /\ UNCHANGED <<input, section, pending, starts, nexts, ordinals, index, toData,
                   layout, failed>>

-----------------------------------------------------------------------------
(* Clusters.                                                               *)

\* The atoms from one on, to the end of its cluster
Walk(nx, from) ==
    LET w[n \in Nat] ==
          IF n = 0 THEN <<from>>
          ELSE IF Last(w[n - 1]) \in DOMAIN nx /\ nx[Last(w[n - 1])] # NoAtom
               THEN Append(w[n - 1], nx[Last(w[n - 1])])
               ELSE w[n - 1]
    IN  w[Cardinality(Atoms)]

\* The loop that looks for the end of a cluster leaves a null there.
Ended(nx, from) ==
    nx @@ [a \in {Last(Walk(nx, from))} |-> NoAtom]

\* follower(): the atom before x in its cluster
Follower(st, nx, x) ==
    LET before == {a \in Range(Walk(nx, st[x])) : a \in DOMAIN nx /\ nx[a] = x}
    IN  IF before = {} THEN NoAtom ELSE CHOOSE a \in before : TRUE

\* For a mutant: only the target's start is changed.
HookedFirst(st, nx, a, t) ==
    [starts |-> [st EXCEPT ![t] = st[a]], nexts |-> nx, failed |-> FALSE]

\* The target starts another cluster: that one is hooked to the atom's.
Hooked(st, nx, a, t) ==
    LET c == Walk(nx, t)
    IN  [starts |-> [x \in Range(c) |-> st[a]] @@ st,
         nexts  |-> nx,
         failed |-> \/ \E x \in Range(c) : st[x] # t
                    \/ Last(c) \in DOMAIN nx]

\* The target is within a cluster, cur before it: an alias goes between them,
\* another atom before the alias that cur is.
Inserted(st, nx, a, t) ==
    LET cur == Follower(st, nx, t)
        pp  == Follower(st, nx, cur)
    IN  CASE cur = NoAtom \/ ~ (IsAlias(a) \/ IsAlias(cur)) ->
               [starts |-> st, nexts |-> nx, failed |-> TRUE]
          [] cur # NoAtom /\ IsAlias(a) ->
               [starts |-> [st EXCEPT ![a] = st[t]],
                nexts  |-> [nx EXCEPT ![cur] = a, ![a] = t],
                failed |-> FALSE]
          [] cur # NoAtom /\ ~ IsAlias(a) /\ IsAlias(cur) /\ pp = NoAtom ->
               LET n == Ended([nx EXCEPT ![a] = cur], a)
               IN  [starts |-> [x \in Range(Walk(n, a)) |-> a] @@ st,
                    nexts  |-> n,
                    failed |-> FALSE]
          [] OTHER ->
               [starts |-> [st EXCEPT ![a] = st[cur]],
                nexts  |-> [nx EXCEPT ![pp] = a, ![a] = cur],
                failed |-> FALSE]

\* What the tables are with a follow-on more
Linked(st0, nx0, a, t) ==
    LET nx == (a :> t) @@ nx0
        st == st0 @@ (a :> a)
    IN  CASE a \in DOMAIN nx0 -> [starts |-> st0, nexts |-> nx0, failed |-> TRUE]
          [] a \notin DOMAIN nx0 /\ t \notin DOMAIN st ->
               [starts |-> st @@ (t :> st[a]), nexts |-> nx, failed |-> FALSE]
          [] a \notin DOMAIN nx0 /\ t \in DOMAIN st /\ st[t] = t -> Hooked(st, nx, a, t)
          [] OTHER -> Inserted(st, nx, a, t)

\* buildFollowOnTables(), for the next atom
LinkFollowOn ==
    /\ phase = "link" /\ todo # <<>> /\ ~ failed
    /\ \E r \in {Linked(starts, nexts, Head(todo), FollowOn(Head(todo)))} :
          starts' = r.starts /\ nexts' = r.nexts /\ failed' = r.failed
    /\ todo' = Tail(todo)
    /\ UNCHANGED <<input, phase, section, pending, ordinals, index, toData, layout>>

-----------------------------------------------------------------------------
(* The order file.                                                         *)

BeginOrderFile ==
    /\ phase = "link" /\ todo = <<>> /\ ~ failed
    /\ phase' = "order"
    /\ todo' = input.order
    /\ UNCHANGED <<input, section, pending, starts, nexts, ordinals, index, toData,
                   layout, failed>>

\* findAtom(): the first atom of the name, in the file if the entry names one
FindAtom(e) ==
    LET match == SelectSeq(VisitOrder, LAMBDA a : /\ Atom(a).name = e.name
                                                  /\ e.file \in {0, Atom(a).file})
    IN  IF match = <<>> THEN NoAtom ELSE Head(match)

\* For a mutant: the cluster is forgotten.
OverriddenAlone(a) == (a :> index) @@ ordinals

\* The ordinals with those of an atom and its cluster
Overridden(a) ==
    IF a \in DOMAIN starts
    THEN LET c == Walk(nexts, starts[a])
             new == {x \in Atoms \ DOMAIN ordinals : x \in Range(c)}
             place(x) == CHOOSE i \in DOMAIN c : c[i] = x
         IN  [x \in DOMAIN ordinals \cup new |->
                 IF x \in new THEN index + Cardinality({y \in new : place(y) < place(x)})
                 ELSE ordinals[x]]
    ELSE [x \in DOMAIN ordinals \cup {a} |-> IF x = a THEN index ELSE ordinals[x]]

\* buildOrdinalOverrideMap(), for the next entry
OrderEntry ==
    /\ phase = "order" /\ todo # <<>>
    /\ \E a \in {FindAtom(Head(todo))} :
          IF a = NoAtom
          THEN index' = index + 1 /\ UNCHANGED <<ordinals, toData>>
          ELSE /\ ordinals' = Overridden(a)
               /\ index' = 1 + index + IF a \in DOMAIN starts
                                       THEN Cardinality(DOMAIN ordinals' \ DOMAIN ordinals)
                                       ELSE 0
               /\ toData' = toData \cup
                     {x \in {a} : Atom(x).zeroFill /\ Atom(x).name \notin input.moves}
    /\ todo' = Tail(todo)
    /\ UNCHANGED <<input, phase, section, pending, starts, nexts, layout, failed>>

\* Zero fill atoms of the order file become data, if there is a __data section.
MoveToData ==
    /\ phase = "order" /\ todo = <<>>
    /\ section' = IF AtomsIn("data") # {}
                  THEN [a \in Atoms |-> IF a \in toData THEN "data" ELSE section[a]]
                  ELSE section
    /\ phase' = "sort"
    /\ UNCHANGED <<input, todo, pending, starts, nexts, ordinals, index, toData, layout,
                   failed>>

-----------------------------------------------------------------------------
(* The sort.                                                               *)

\* What is compared last: atoms, and whether they stand for aliases of theirs.
Earlier(l, r, leftIsAlias, rightIsAlias) ==
    CASE Atom(l).tentative # Atom(r).tentative -> Atom(r).tentative
      [] Atom(l).tentative = Atom(r).tentative /\ Atom(l).cold # Atom(r).cold -> Atom(r).cold
      [] OTHER ->
           \/ Atom(l).file < Atom(r).file
           \/ /\ Atom(l).file = Atom(r).file
              /\ IF Atom(l).tentative THEN Atom(l).name < Atom(r).name
                 ELSE \/ Atom(l).addr < Atom(r).addr
                      \/ /\ Atom(l).addr = Atom(r).addr
                         /\ \/ leftIsAlias /\ ~ rightIsAlias
                            \/ /\ leftIsAlias = rightIsAlias
                               /\ Atom(l).name < Atom(r).name

\* An alias is sorted as its target.
SortedAs(a) == IF IsAlias(a) THEN FollowOn(a) ELSE a

\* For a mutant: only the right atom is compared as its target.
LessUnaliased(l, r) ==
    /\ l # r
    /\ CASE {l, r} \subseteq DOMAIN ordinals -> ordinals[l] < ordinals[r]
         [] {l, r} \cap DOMAIN ordinals = {l} -> TRUE
         [] {l, r} \cap DOMAIN ordinals = {r} -> FALSE
         [] OTHER ->
              \/ IsAlias(l) /\ FollowOn(l) = r
              \/ /\ ~ (IsAlias(r) /\ FollowOn(r) = l)
                 /\ Earlier(l, SortedAs(r), IsAlias(l), IsAlias(r))

\* Comparer::operator(); -order_file alters the sorting, section$start and
\* section$end atoms are left out.
Less(l, r) ==
    /\ l # r
    /\ CASE {l, r} \subseteq DOMAIN ordinals -> ordinals[l] < ordinals[r]
         [] {l, r} \cap DOMAIN ordinals = {l} -> TRUE
         [] {l, r} \cap DOMAIN ordinals = {r} -> FALSE
         [] OTHER ->
              \/ IsAlias(l) /\ FollowOn(l) = r
              \/ /\ ~ (IsAlias(r) /\ FollowOn(r) = SortedAs(l))
                 /\ Earlier(SortedAs(l), SortedAs(r), IsAlias(l), IsAlias(r))

\* The pairs of S in which the first atom is less
LessIn(S) == {p \in S \X S : Less(p[1], p[2])}

StrictWeakOrder(S, lt) ==
    \A a, b \in S :
        /\ <<a, b>> \in lt => <<b, a>> \notin lt
        /\ \A c \in S : <<a, c>> \in lt => <<a, b>> \in lt \/ <<b, c>> \in lt

\* The orders of S in which nothing stands before what is less
Arrangements(S, lt) ==
    LET arranged[T \in SUBSET S] ==
          IF T = {} THEN {<<>>}
          ELSE UNION {{<<x>> \o r : r \in arranged[T \ {x}]} :
                         x \in {y \in T : \A z \in T : <<z, y>> \notin lt}}
    IN  arranged[S]

\* std::sort leaves atoms that compare equal in any order, and gives any
\* result if the comparison is no strict weak order.
Sorts(s) ==
    UNION {IF StrictWeakOrder(lt[1], lt[2]) THEN Arrangements(lt[1], lt[2])
               ELSE SetToSeqs(lt[1]) :
           lt \in {<<AtomsIn(s), LessIn(AtomsIn(s))>>}}

\* doPass(), the sections sorted
Sort ==
    /\ phase = "sort"
    /\ \E d \in Sorts("data"), z \in Sorts("zeroFill"), m \in Sorts("movedData"),
          n \in Sorts("movedZeroFill") : layout' = <<d, z, m, n>>
    /\ phase' = "done"
    /\ UNCHANGED <<input, todo, section, pending, starts, nexts, ordinals, index, toData,
                   failed>>

\* The layout is known, or an assertion has failed.
OrderFinished ==
    /\ phase = "done" \/ failed
    /\ UNCHANGED orderVars

OrderNext == \/ AddAtom \/ BeginOrder \/ LinkFollowOn \/ BeginOrderFile \/ OrderEntry
        \/ MoveToData \/ Sort \/ OrderFinished

OrderSpec == OrderInit /\ [][OrderNext]_orderVars

-----------------------------------------------------------------------------
(* Properties.                                                             *)

\* Type invariant of the state that AddAtom() and the order pass keep.
OrderTypeOK ==
    /\ phase \in {"place", "link", "order", "sort", "done"}
    /\ todo \in IF phase = "order" THEN Seq([name : Nat, file : Nat]) ELSE Seq(Atoms)
    /\ section \in Seq(Range(Sections)) /\ Len(section) <= Len(input.atoms)
    /\ pending \subseteq Atoms
    /\ DOMAIN starts \subseteq Atoms /\ Range(starts) \subseteq Atoms
    /\ DOMAIN nexts \subseteq DOMAIN starts /\ Range(nexts) \subseteq Atoms \cup {NoAtom}
    /\ DOMAIN ordinals \subseteq Atoms /\ \A a \in DOMAIN ordinals : ordinals[a] < index
    /\ index \in Nat
    /\ toData \subseteq Atoms
    /\ phase = "done" => UNION {Range(layout[i]) : i \in 1..4} = Atoms
    /\ failed \in BOOLEAN

AllPlaced == phase # "place"
FollowedApart == {a \in Chained : section[a] # section[FollowOn(a)]}

\* However a symbol of a group of alt entries is moved to another segment,
\* the whole group is: inMoveRWChain() asks on to the end of the chain and
\* back to its start, and leaves a note for the atoms it has not come to.
GroupsMoveTogether ==
    AllPlaced /\ toData = {} =>
        \A a \in Atoms : GroupOf(a) # NoAtom =>
            /\ section[a] = section[GroupOf(a)]
            /\ \A x \in Atoms : Atom(x).of = a /\ Atom(x).name \notin input.moves
                                  => section[x] = section[a]

\* Follow-ons come one by one, joining, hooking and splicing chains: when
\* all are in, a cluster has one start from which its atoms are met once
\* each, and only aliases stand between an atom and its follow-on, the
\* follow-on's own if the atom is none.  No assertion fails on the way.
ClustersAreLinked ==
    AllPlaced /\ FollowedApart = {} /\ input.order # <<>> =>
        /\ ~ failed
        /\ phase \in {"order", "sort", "done"} =>
             \A a \in Chained :
                LET t == FollowOn(a)
                    c == Walk(nexts, starts[a])
                IN  /\ starts[t] = starts[a] /\ starts[starts[a]] = starts[a]
                    /\ \E i, j \in DOMAIN c :
                         /\ i < j /\ c[i] = a /\ c[j] = t
                         /\ \A k \in (i + 1)..(j - 1) :
                              IsAlias(c[k]) /\ (FollowOn(c[k]) = t \/ IsAlias(t) \/ IsAlias(a))
                    /\ IsInjective(c)

\* Labels of one address: an alias of an alias
Ladders == {a \in Chained : IsAlias(a) /\ IsAlias(FollowOn(a))}

\* The comparison the sort is given is a strict weak order, aliases compared
\* as their targets but before them, unless an alias has an alias itself.
OrdersStrictly ==
    phase = "sort" /\ Ladders = {} =>
        \A s \in Range(Sections) : StrictWeakOrder(AtomsIn(s), LessIn(AtomsIn(s)))

\* In the sorted section an atom is followed by its follow-on, with nothing
\* but aliases between: by the order file's ordinals, or by file and address.
\* Exempt are clusters broken before: by a move, or by N_COLD_FUNC on a part.
ClustersStayTogether ==
    phase = "done" /\ Ladders = {} /\ FollowedApart = {} =>
        \A a \in Chained :
            LET t == FollowOn(a)
                p == CHOOSE q \in Range(layout) : a \in Range(q)
                i == CHOOSE n \in DOMAIN p : p[n] = a
                j == CHOOSE n \in DOMAIN p : p[n] = t
                u == IF IsAlias(t) THEN FollowOn(t) ELSE t
            IN  a \in DOMAIN ordinals \/ IsAlias(a) \/ Atom(a).cold = Atom(u).cold =>
                    i < j /\ \A k \in (i + 1)..(j - 1) : IsAlias(p[k])

\* The atoms of one entry, its cluster included
EntryAtoms(e) ==
    LET a == FindAtom(e)
    IN  IF a = NoAtom THEN {}
        ELSE IF a \in DOMAIN starts THEN Range(Walk(nexts, starts[a])) ELSE {a}

\* What the order file lists comes first, in its order: the atoms of an entry
\* before those of later entries that no earlier or equal one brought in, and
\* before those it does not list.
ListedComeFirst ==
    phase = "done" /\ Ladders = {} /\ FollowedApart = {} =>
        LET sets == [i \in DOMAIN input.order |-> EntryAtoms(input.order[i])]
            rank == [a \in Atoms |->
                       LET is == {i \in DOMAIN sets : a \in sets[i]}
                       IN  IF is = {} THEN Len(input.order) + 1
                           ELSE IF a \in DOMAIN starts THEN Min(is) ELSE Max(is)]
        IN  \A s \in Range(layout) : \A i, j \in DOMAIN s :
                i < j => rank[s[i]] <= rank[s[j]]

\* What belongs together stays together, from the section an atom is put in to
\* its place in the sorted section, and what the order file lists comes first.
LaidOutAsAsked ==
    OrderTypeOK /\ GroupsMoveTogether /\ ClustersAreLinked /\ ClustersStayTogether
        /\ ListedComeFirst
=============================================================================
