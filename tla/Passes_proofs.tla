-------------------------- MODULE Passes_proofs ---------------------------
(***************************************************************************)
(* Proofs about AtomOrder, for every list of atoms and every order file,   *)
(* about BranchIslands, for every text and all distances, and about        *)
(* UnwindInfo, for every program and all sizes of pages and fields.        *)
(***************************************************************************)
EXTENDS AtomOrder, BranchIslands, UnwindInfo, FiniteSetTheorems, TLAPS

------------------------------------------------------------------------------
(***************************************************************************)
(* The comparison.                                                         *)
(***************************************************************************)
\* The ordinals of the order file are numbers.
OrdinalsAreNumbers == \A a \in DOMAIN ordinals : ordinals[a] \in Nat

\* What is compared of two atoms that have no ordinal, as keys: those of the
\* atoms they are sorted as, and whether they are aliases.
Before(l, r) ==
    LET p == Atom(SortedAs(l))
        q == Atom(SortedAs(r))
    IN  \/ ~ p.tentative /\ q.tentative
        \/ /\ p.tentative <=> q.tentative
           /\ \/ ~ p.cold /\ q.cold
              \/ /\ p.cold <=> q.cold
                 /\ \/ p.file < q.file
                    \/ /\ p.file = q.file /\ p.tentative
                       /\ \/ p.name < q.name
                          \/ p.name = q.name /\ IsAlias(l) /\ ~ IsAlias(r)
                    \/ /\ p.file = q.file /\ ~ p.tentative
                       /\ \/ p.addr < q.addr
                          \/ /\ p.addr = q.addr
                             /\ \/ IsAlias(l) /\ ~ IsAlias(r)
                                \/ (IsAlias(l) <=> IsAlias(r)) /\ p.name < q.name

\* Of some natural numbers one is the least.
LEMMA LeastNumber ==
    ASSUME NEW S \in SUBSET Nat, S # {}
    PROVE  \E x \in S : \A y \in S : x <= y
<1> DEFINE Upto(x) == {z \in S : z <= x}
           C == {Upto(x) : x \in S}
<1>1. C \subseteq FiniteSubsetsOf(S) /\ C # {}
  <2>1. ASSUME NEW x \in S  PROVE Upto(x) \in FiniteSubsetsOf(S)
    <3>1. x \in Nat /\ Upto(x) \in SUBSET Nat /\ \A z \in Upto(x) : z <= x
      OBVIOUS
    <3>2. IsFiniteSet(Upto(x))
      BY <3>1, FS_BoundedSetOfNaturals
    <3>3. QED
      BY <3>2 DEF FiniteSubsetsOf
  <2>2. QED
    BY <2>1
<1>6. IsWellFoundedOn(StrictSubsetOrdering(S), FiniteSubsetsOf(S))
  BY FS_StrictSubsetOrderingWellFounded
<1> HIDE DEF C
<1>2. PICK X \in C : \A Y \in C : <<Y, X>> \notin StrictSubsetOrdering(S)
  BY <1>1, <1>6, WFMin
<1>3. PICK x \in S : X = Upto(x)
  BY DEF C
<1>4. ASSUME NEW y \in S, y < x  PROVE FALSE
  <2>1. x \in Nat /\ y \in Nat /\ \A z \in S : z \in Nat
    OBVIOUS
  <2>2. Upto(y) \subseteq Upto(x) /\ x \in Upto(x) /\ x \notin Upto(y)
    <3>1. \A z \in S : z <= y => z <= x
      BY <1>4, <2>1
    <3>2. x <= x /\ ~ (x <= y)
      BY <1>4, <2>1
    <3>3. QED
      BY <3>1, <3>2
  <2>3. Upto(y) \in C /\ <<Upto(y), X>> \in StrictSubsetOrdering(S)
    BY <1>3, <2>2 DEF C, StrictSubsetOrdering
  <2>4. QED
    BY <1>2, <2>3
<1>5. QED
  BY <1>4

\* A function that gives each step of a recursion over 0 .. m in a set
IsStep(g, m, S) == g \in [(1 .. m) \X S -> S]

\* A solution of the recursion
IsSolution(f, m, S, z, g) ==
    /\ f \in [0 .. m -> S]
    /\ \A n \in 0 .. m : f[n] = IF n = 0 THEN z ELSE g[<<n, f[n - 1]>>]

\* A recursion over numbers up to some number has a solution.
LEMMA RecursionSolved ==
    ASSUME NEW m \in Nat, NEW S, NEW z \in S, NEW g, IsStep(g, m, S)
    PROVE  \E f : IsSolution(f, m, S, z, g)
<1> USE DEF IsStep
<1> DEFINE Solves(f, k) ==
               /\ f \in [0 .. k -> S]
               /\ \A n \in 0 .. k : f[n] = IF n = 0 THEN z ELSE g[<<n, f[n - 1]>>]
           unsolved == {k \in 0 .. m : \A f : ~ Solves(f, k)}
<1>1. unsolved = {}
  <2> SUFFICES ASSUME unsolved # {}  PROVE FALSE
    OBVIOUS
  <2>1. PICK k \in unsolved : \A j \in unsolved : k <= j
    <3>1. unsolved \in SUBSET Nat
      OBVIOUS
    <3> HIDE DEF unsolved
    <3>2. QED
      BY <3>1, LeastNumber
  <2>2. CASE k = 0
    <3>1. Solves([n \in 0 .. 0 |-> z], 0)
      OBVIOUS
    <3> HIDE DEF Solves
    <3>2. QED
      BY <2>2, <3>1
  <2>3. CASE k # 0
    <3>1. k - 1 \in 0 .. m /\ k \in 1 .. m /\ ~ (k <= k - 1)
      BY <2>3
    <3> HIDE DEF Solves
    <3>9. k - 1 \notin unsolved
      <4> HIDE DEF unsolved
      <4>1. unsolved \in SUBSET Nat
        BY DEF unsolved
      <4>2. QED
        BY <2>1, <3>1
    <3>2. PICK f : Solves(f, k - 1)
      BY <3>1, <3>9
    <3> USE DEF Solves
    <3>3. f[k - 1] \in S /\ g[<<k, f[k - 1]>>] \in S
      BY <3>1, <3>2
    <3> DEFINE h == [n \in 0 .. k |-> IF n = k THEN g[<<k, f[k - 1]>>] ELSE f[n]]
    <3>4. \A n \in 0 .. k : n # k => n \in 0 .. (k - 1)
      BY <3>1
    <3>5. h \in [0 .. k -> S]
      BY <3>2, <3>3, <3>4
    <3>6. ASSUME NEW n \in 0 .. k
          PROVE  h[n] = IF n = 0 THEN z ELSE g[<<n, h[n - 1]>>]
      <4>1. CASE n = k
        <5>1. k - 1 \in 0 .. k /\ k - 1 # k /\ k # 0
          BY <3>1
        <5>2. h[k - 1] = f[k - 1]
          BY <5>1
        <5>3. QED
          BY <4>1, <5>1, <5>2
      <4>2. CASE n # k
        <5>1. n \in 0 .. (k - 1) /\ (n # 0 => n - 1 \in 0 .. (k - 1) /\ n - 1 # k /\ n - 1 \in 0 .. k)
          BY <3>1, <4>2
        <5>2. h[n] = f[n] /\ (n # 0 => h[n - 1] = f[n - 1])
          BY <4>2, <5>1
        <5>3. f[n] = IF n = 0 THEN z ELSE g[<<n, f[n - 1]>>]
          BY <3>2, <5>1
        <5>4. QED
          BY <5>2, <5>3
      <4>3. QED
        BY <4>1, <4>2
    <3>7. Solves(h, k)
      <4> HIDE DEF h
      <4>1. QED
        BY <3>5, <3>6
    <3> HIDE DEF Solves
    <3>8. QED
      BY <2>1, <3>7
  <2>4. QED
    BY <2>2, <2>3
<1>2. PICK f : Solves(f, m)
  <2>1. m \in 0 .. m
    OBVIOUS
  <2> HIDE DEF Solves
  <2>2. QED
    BY <1>1, <2>1
<1>3. QED
  BY <1>2 DEF IsSolution

\* What is known of an input's atoms
LEMMA AtomFacts ==
    ASSUME input \in OrderInputs
    PROVE  /\ input.atoms \in Seq(AtomRecords)
           /\ Atoms \subseteq Nat /\ NoAtom \notin Atoms /\ IsFiniteSet(Atoms)
           /\ \A a \in Atoms : Atom(a) \in AtomRecords
           /\ \A a \in Atoms : Atom(a).of # NoAtom => Atom(a).of \in Atoms
           /\ \A a, b \in Atoms :
                 Atom(a).tentative /\ Atom(b).tentative /\ Atom(a).file = Atom(b).file
                     /\ Atom(a).name = Atom(b).name => a = b
<1> USE DEF NoAtom
<1>1. input \in OrderInputRecords
  BY OrderAssumption
<1>2. input.atoms \in Seq(AtomRecords)
  BY <1>1 DEF OrderInputRecords
<1>3. Len(input.atoms) \in Nat /\ Atoms = 1 .. Len(input.atoms)
  BY <1>2 DEF Atoms
<1>4. IsFiniteSet(Atoms)
  BY <1>3, FS_Interval
<1>5. \A a \in Atoms : Atom(a) \in AtomRecords
  BY <1>2 DEF Atoms, Atom
<1>6. \A a \in Atoms : Atom(a).of \in Nat
  BY <1>5 DEF AtomRecords
<1>7. \A a \in Atoms : Atom(a).of < a
  BY OrderAssumption DEF Atoms, Atom
<1>8. \A a \in Atoms : Atom(a).of # NoAtom => Atom(a).of \in Atoms
  BY <1>3, <1>6, <1>7
<1>9. ASSUME NEW a \in Atoms, NEW b \in Atoms, b < a,
             Atom(a).tentative, Atom(b).tentative, Atom(a).file = Atom(b).file
      PROVE  Atom(a).name # Atom(b).name
  <2>1. b \in 1 .. (a - 1)
    BY <1>3, <1>9
  <2>2. QED
    BY <1>9, <2>1, OrderAssumption DEF Atoms, Atom
<1>10. ASSUME NEW a \in Atoms, NEW b \in Atoms,
              Atom(a).tentative, Atom(b).tentative, Atom(a).file = Atom(b).file,
              Atom(a).name = Atom(b).name
       PROVE  a = b
  <2>1. a < b \/ b < a \/ a = b
    BY <1>3
  <2>2. QED
    BY <2>1, <1>9, <1>10
<1>11. QED
  BY <1>2, <1>3, <1>4, <1>5, <1>8, <1>10

\* An alias is sorted as another atom, which is no alias if there are no
\* ladders; any other atom is sorted as itself.
LEMMA SortedAsFacts ==
    ASSUME input \in OrderInputs, Ladders = {}, NEW a \in Atoms
    PROVE  /\ SortedAs(a) \in Atoms
           /\ ~ IsAlias(SortedAs(a))
           /\ IsAlias(a) => FollowOn(a) = SortedAs(a)
           /\ ~ IsAlias(a) => SortedAs(a) = a
<1>1. NextLabel(a) # NoAtom => NextLabel(a) \in Atoms
  <2> DEFINE later == {b \in FileLabels(a) : b > a}
  <2>1. CASE later = {}
    BY <2>1 DEF NextLabel
  <2>2. CASE later # {}
    <3>1. later \in SUBSET Nat /\ later \subseteq Atoms
      BY AtomFacts DEF FileLabels
    <3>2. \E b \in later : \A c \in later : b <= c
      BY <2>2, <3>1, LeastNumber
    <3>3. NextLabel(a) = CHOOSE b \in later : \A c \in later : b <= c
      BY <2>2 DEF NextLabel
    <3>4. QED
      BY <3>1, <3>2, <3>3
  <2>3. QED
    BY <2>1, <2>2
<1>2. CASE IsAlias(a)
  <2>1. FollowOn(a) \in Atoms /\ FollowOn(a) # NoAtom
    <3>1. CASE Atom(a).of # NoAtom
      BY <3>1, AtomFacts DEF FollowOn
    <3>2. CASE Atom(a).of = NoAtom
      BY <3>2, <1>1, <1>2 DEF FollowOn, IsAlias
    <3>3. QED
      BY <3>1, <3>2
  <2>2. ~ IsAlias(FollowOn(a))
    BY <1>2, <2>1 DEF Ladders, Chained
  <2>3. QED
    BY <1>2, <2>1, <2>2 DEF SortedAs
<1>3. CASE ~ IsAlias(a)
  BY <1>3 DEF SortedAs
<1>4. QED
  BY <1>2, <1>3

\* Comparing atoms without ordinals is comparing their keys.
LEMMA LessIsBefore ==
    ASSUME input \in OrderInputs, Ladders = {},
           NEW l \in Atoms \ DOMAIN ordinals, NEW r \in Atoms \ DOMAIN ordinals
    PROVE  Less(l, r) <=> Before(l, r)
<1> DEFINE p == Atom(SortedAs(l))
           q == Atom(SortedAs(r))
<1>1. /\ SortedAs(l) \in Atoms /\ ~ IsAlias(SortedAs(l))
      /\ IsAlias(l) => FollowOn(l) = SortedAs(l)
      /\ ~ IsAlias(l) => SortedAs(l) = l
  BY SortedAsFacts
<1>2. /\ SortedAs(r) \in Atoms /\ ~ IsAlias(SortedAs(r))
      /\ IsAlias(r) => FollowOn(r) = SortedAs(r)
      /\ ~ IsAlias(r) => SortedAs(r) = r
  BY SortedAsFacts
<1>3. p \in AtomRecords /\ q \in AtomRecords
  BY <1>1, <1>2, AtomFacts
<1>4. /\ p.file \in Nat /\ p.addr \in Nat /\ p.name \in Nat
      /\ q.file \in Nat /\ q.addr \in Nat /\ q.name \in Nat
      /\ p.tentative \in BOOLEAN /\ q.tentative \in BOOLEAN
      /\ p.cold \in BOOLEAN /\ q.cold \in BOOLEAN
  BY <1>3 DEF AtomRecords
<1>5. IsAlias(l) \in BOOLEAN /\ IsAlias(r) \in BOOLEAN
  BY DEF IsAlias
<1>6. Less(l, r) <=>
          /\ l # r
          /\ \/ IsAlias(l) /\ FollowOn(l) = r
             \/ /\ ~ (IsAlias(r) /\ FollowOn(r) = SortedAs(l))
                /\ Earlier(SortedAs(l), SortedAs(r), IsAlias(l), IsAlias(r))
  BY DEF Less
<1>7. CASE SortedAs(l) = SortedAs(r)
  <2>1. Before(l, r) <=> IsAlias(l) /\ ~ IsAlias(r)
    BY <1>4, <1>7 DEF Before
  <2>2. CASE IsAlias(l)
    BY <1>1, <1>2, <1>6, <1>7, <2>1, <2>2
  <2>3. CASE ~ IsAlias(l)
    BY <1>1, <1>2, <1>6, <1>7, <2>1, <2>3
  <2>4. QED
    BY <2>2, <2>3
<1>8. CASE SortedAs(l) # SortedAs(r)
  <2>1. /\ l # r
        /\ IsAlias(l) => FollowOn(l) # r \/ IsAlias(r)
        /\ ~ (IsAlias(r) /\ FollowOn(r) = SortedAs(l))
    BY <1>1, <1>2, <1>8
  <2>2. ~ (IsAlias(l) /\ FollowOn(l) = r)
    BY <1>1, <1>2, <1>8
  <2>3. Less(l, r) <=> Earlier(SortedAs(l), SortedAs(r), IsAlias(l), IsAlias(r))
    BY <1>6, <2>1, <2>2
  <2>4. ~ (p.tentative /\ q.tentative /\ p.file = q.file /\ p.name = q.name)
    BY <1>1, <1>2, <1>8, AtomFacts
  <2>5. Earlier(SortedAs(l), SortedAs(r), IsAlias(l), IsAlias(r)) <=> Before(l, r)
    BY <1>4, <1>5, <2>4 DEF Earlier, Before
  <2>6. QED
    BY <2>3, <2>5
<1>9. QED
  BY <1>7, <1>8

\* Keys are ordered strictly and weakly.
LEMMA BeforeIsStrict ==
    ASSUME input \in OrderInputs, Ladders = {},
           NEW a \in Atoms, NEW b \in Atoms, NEW c \in Atoms
    PROVE  /\ Before(a, b) => ~ Before(b, a)
           /\ Before(a, c) => Before(a, b) \/ Before(b, c)
<1> DEFINE p == Atom(SortedAs(a))
           q == Atom(SortedAs(b))
           r == Atom(SortedAs(c))
<1>1. p \in AtomRecords /\ q \in AtomRecords /\ r \in AtomRecords
  BY SortedAsFacts, AtomFacts
<1>2. /\ p.file \in Nat /\ p.addr \in Nat /\ p.name \in Nat
      /\ q.file \in Nat /\ q.addr \in Nat /\ q.name \in Nat
      /\ r.file \in Nat /\ r.addr \in Nat /\ r.name \in Nat
  BY <1>1 DEF AtomRecords
<1> HIDE DEF p, q, r
<1>3. QED
  BY <1>2 DEF Before, p, q, r

\* The comparison of the atoms of a section is a strict weak order.
LEMMA LessIsStrict ==
    ASSUME input \in OrderInputs, Ladders = {}, OrdinalsAreNumbers, NEW S \in SUBSET Atoms
    PROVE  StrictWeakOrder(S, LessIn(S))
<1>1. ASSUME NEW a \in S, NEW b \in S  PROVE <<a, b>> \in LessIn(S) <=> Less(a, b)
  BY DEF LessIn
<1>2. ASSUME NEW a \in S, NEW b \in S
      PROVE  /\ {a, b} \subseteq DOMAIN ordinals => (Less(a, b) <=> ordinals[a] < ordinals[b])
             /\ a \in DOMAIN ordinals /\ b \notin DOMAIN ordinals => Less(a, b)
             /\ a \notin DOMAIN ordinals /\ b \in DOMAIN ordinals => ~ Less(a, b)
             /\ a \notin DOMAIN ordinals /\ b \notin DOMAIN ordinals
                    => (Less(a, b) <=> Before(a, b))
  <2>1. CASE {a, b} \subseteq DOMAIN ordinals
    <3>1. ordinals[a] \in Nat /\ ordinals[b] \in Nat
      BY <2>1 DEF OrdinalsAreNumbers
    <3>2. Less(a, b) <=> a # b /\ ordinals[a] < ordinals[b]
      BY <2>1 DEF Less
    <3>3. QED
      BY <2>1, <3>1, <3>2
  <2>2. CASE a \in DOMAIN ordinals /\ b \notin DOMAIN ordinals
    <3>1. a # b /\ {a, b} \cap DOMAIN ordinals = {a} /\ ~ ({a, b} \subseteq DOMAIN ordinals)
      BY <2>2
    <3>2. QED
      BY <2>2, <3>1 DEF Less
  <2>3. CASE a \notin DOMAIN ordinals /\ b \in DOMAIN ordinals
    <3>1. /\ a # b /\ {a, b} \cap DOMAIN ordinals = {b} /\ {b} # {a}
          /\ ~ ({a, b} \subseteq DOMAIN ordinals)
      BY <2>3
    <3>2. QED
      BY <2>3, <3>1 DEF Less
  <2>4. CASE a \notin DOMAIN ordinals /\ b \notin DOMAIN ordinals
    BY <2>4, LessIsBefore
  <2>5. QED
    BY <2>1, <2>2, <2>3, <2>4
<1>3. \A a \in S : a \in DOMAIN ordinals => ordinals[a] \in Nat
  BY DEF OrdinalsAreNumbers
<1>4. ASSUME NEW a \in S, NEW b \in S, NEW c \in S
      PROVE  /\ Less(a, b) => ~ Less(b, a)
             /\ Less(a, c) => Less(a, b) \/ Less(b, c)
  <2>1. /\ Before(a, b) => ~ Before(b, a)
        /\ Before(a, c) => Before(a, b) \/ Before(b, c)
    BY BeforeIsStrict
  <2>2. Less(a, b) => ~ Less(b, a)
    BY <1>2, <1>3, <2>1
  <2>3. Less(a, c) => Less(a, b) \/ Less(b, c)
    BY <1>2, <1>3, <2>1
  <2>4. QED
    BY <2>2, <2>3
<1>5. QED
  BY <1>1, <1>4 DEF StrictWeakOrder

------------------------------------------------------------------------------
(***************************************************************************)
(* The ordinals of the order file.                                         *)
(***************************************************************************)
\* The input is one of those considered, and ordinals are numbers.
OrderInv ==
    /\ input \in OrderInputs
    /\ index \in Nat
    /\ OrdinalsAreNumbers

\* Numbering an atom and its cluster leaves ordinals numbers.
LEMMA OverriddenAreNumbers ==
    ASSUME OrderInv, NEW a
    PROVE  /\ \A x \in DOMAIN Overridden(a) : Overridden(a)[x] \in Nat
           /\ a \in DOMAIN starts =>
                 Cardinality(DOMAIN Overridden(a) \ DOMAIN ordinals) \in Nat
<1>1. CASE a \in DOMAIN starts
  <2> DEFINE c == Walk(nexts, starts[a])
             new == {x \in Atoms \ DOMAIN ordinals : x \in Range(c)}
             place(x) == CHOOSE i \in DOMAIN c : c[i] = x
             before(x) == {y \in new : place(y) < place(x)}
  <2>1. Overridden(a) = [x \in DOMAIN ordinals \cup new |->
                           IF x \in new THEN index + Cardinality(before(x)) ELSE ordinals[x]]
    BY <1>1 DEF Overridden
  <2>2. IsFiniteSet(new)
    BY AtomFacts, FS_Subset DEF OrderInv
  <2>3. ASSUME NEW x \in new  PROVE Cardinality(before(x)) \in Nat
    <3>1. before(x) \subseteq new
      OBVIOUS
    <3>2. QED
      BY <2>2, <3>1, FS_Subset, FS_CardinalityType
  <2> HIDE DEF new, before
  <2>4. \A x \in DOMAIN Overridden(a) : Overridden(a)[x] \in Nat
    BY <2>1, <2>3 DEF OrderInv, OrdinalsAreNumbers
  <2>5. DOMAIN Overridden(a) \ DOMAIN ordinals \subseteq new
    BY <2>1
  <2>6. Cardinality(DOMAIN Overridden(a) \ DOMAIN ordinals) \in Nat
    BY <2>2, <2>5, FS_Subset, FS_CardinalityType
  <2>7. QED
    BY <2>4, <2>6
<1>2. CASE a \notin DOMAIN starts
  <2>1. Overridden(a) = [x \in DOMAIN ordinals \cup {a} |-> IF x = a THEN index ELSE ordinals[x]]
    BY <1>2 DEF Overridden
  <2>2. QED
    BY <1>2, <2>1 DEF OrderInv, OrdinalsAreNumbers
<1>3. QED
  BY <1>1, <1>2

LEMMA OrderInvInit == OrderInit => OrderInv
  BY DEF OrderInit, OrderInv, OrdinalsAreNumbers

LEMMA OrderInvStep == OrderInv /\ [OrderNext]_orderVars => OrderInv'
<1> SUFFICES ASSUME OrderInv, [OrderNext]_orderVars  PROVE OrderInv'
  OBVIOUS
<1>1. CASE OrderEntry
  <2>1. PICK a \in {FindAtom(Head(todo))} :
            IF a = NoAtom
            THEN index' = index + 1 /\ UNCHANGED <<ordinals, toData>>
            ELSE /\ ordinals' = Overridden(a)
                 /\ index' = 1 + index + IF a \in DOMAIN starts
                                         THEN Cardinality(DOMAIN ordinals' \ DOMAIN ordinals)
                                         ELSE 0
    BY <1>1 DEF OrderEntry
  <2>2. CASE a = NoAtom
    BY <1>1, <2>1, <2>2 DEF OrderEntry, OrderInv, OrdinalsAreNumbers
  <2>3. CASE a # NoAtom
    <3>1. ordinals' = Overridden(a)
      BY <2>1, <2>3
    <3>2. OrdinalsAreNumbers'
      BY <3>1, OverriddenAreNumbers DEF OrdinalsAreNumbers
    <3>3. index' \in Nat
      BY <2>1, <2>3, <3>1, OverriddenAreNumbers DEF OrderInv
    <3>4. QED
      BY <1>1, <3>2, <3>3 DEF OrderEntry, OrderInv
  <2>4. QED
    BY <2>2, <2>3
<1>2. CASE UNCHANGED <<input, ordinals, index>>
  BY <1>2 DEF OrderInv, OrdinalsAreNumbers
<1>3. OrderEntry \/ UNCHANGED <<input, ordinals, index>>
  BY DEF OrderNext, orderVars, AddAtom, BeginOrder, LinkFollowOn, BeginOrderFile,
         MoveToData, Sort, OrderFinished
<1>4. QED
  BY <1>1, <1>2, <1>3

\* Whatever the atoms and the order file, the comparison that std::sort is
\* given (Layout::Comparer) is a strict weak order on each section, if no
\* label is an alias of an alias.
THEOREM ComparesStrictly == OrderSpec => []OrdersStrictly
<1>1. OrderInv => OrdersStrictly
  <2> SUFFICES ASSUME OrderInv, Ladders = {}, NEW s
               PROVE  StrictWeakOrder(AtomsIn(s), LessIn(AtomsIn(s)))
    BY DEF OrdersStrictly
  <2>1. AtomsIn(s) \in SUBSET Atoms
    BY DEF AtomsIn
  <2>2. QED
    BY <2>1, LessIsStrict DEF OrderInv
<1>2. QED
  BY <1>1, OrderInvInit, OrderInvStep, PTL DEF OrderSpec

------------------------------------------------------------------------------
(***************************************************************************)
(* The offsets of atoms.                                                   *)
(***************************************************************************)
\* Where an atom goes, behind an atom at some offset
OffsetBehind(atoms, n, before) ==
    Aligned(IF n = 1 THEN 0 ELSE before + atoms[n - 1].size, atoms[n].align, atoms[n].modulus)

\* Aligning an offset makes it no smaller.
LEMMA AlignedUp ==
    ASSUME NEW offset \in Nat, NEW align \in Nat \ {0}, NEW modulus \in Nat
    PROVE  Aligned(offset, align, modulus) \in Nat /\ Aligned(offset, align, modulus) >= offset
<1>1. modulus - offset \in Int
  OBVIOUS
<1>2. (modulus - offset) % align \in 0 .. (align - 1)
  BY <1>1
<1>3. QED
  BY <1>2 DEF Aligned

\* What is aligned stays in order.
LEMMA AlignedAscends ==
    ASSUME NEW x \in Nat, NEW y \in Nat, x <= y, NEW align \in Nat \ {0}, NEW modulus \in Nat
    PROVE  Aligned(x, align, modulus) <= Aligned(y, align, modulus)
<1> DEFINE p == (modulus - x) \div align
           r == (modulus - x) % align
           q == (modulus - y) \div align
           s == (modulus - y) % align
<1>1. modulus - x \in Int /\ modulus - y \in Int
  OBVIOUS
<1>2. p \in Int /\ r \in 0 .. (align - 1) /\ modulus - x = align * p + r
  BY <1>1
<1>3. q \in Int /\ s \in 0 .. (align - 1) /\ modulus - y = align * q + s
  BY <1>1
<1>4. Aligned(x, align, modulus) = x + r /\ Aligned(y, align, modulus) = y + s
  BY DEF Aligned
<1> HIDE DEF p, q, r, s
<1>5. q <= p
  <2> SUFFICES ASSUME p + 1 <= q  PROVE FALSE
    BY <1>2, <1>3
  <2>1. align * (p + 1) <= align * q
    BY <1>2, <1>3
  <2>2. align * (p + 1) = align * p + align
    BY <1>2
  <2> DEFINE ap == align * p
             aq == align * q
  <2>3. ap \in Int /\ aq \in Int /\ ap + align <= aq
    BY <1>2, <1>3, <2>1, <2>2
  <2>4. modulus - x = ap + r /\ modulus - y = aq + s
    BY <1>2, <1>3
  <2> HIDE DEF ap, aq
  <2>5. QED
    BY <1>2, <1>3, <2>3, <2>4
<1>6. align * q <= align * p
  BY <1>2, <1>3, <1>5
<1> DEFINE ap == align * p
           aq == align * q
<1>7. ap \in Int /\ aq \in Int /\ aq <= ap /\ modulus - x = ap + r /\ modulus - y = aq + s
  BY <1>2, <1>3, <1>6
<1> HIDE DEF ap, aq
<1>8. QED
  BY <1>2, <1>3, <1>4, <1>7

\* The recursion that gives the offsets has a solution.
LEMMA OffsetsRecursion ==
    ASSUME NEW atoms, Len(atoms) \in Nat
    PROVE  Offsets(atoms) =
               [n \in 0 .. Len(atoms) |->
                   IF n = 0 THEN 0 ELSE OffsetBehind(atoms, n, Offsets(atoms)[n - 1])]
<1> DEFINE Solves(f, m) ==
               f = [n \in 0 .. m |-> IF n = 0 THEN 0 ELSE OffsetBehind(atoms, n, f[n - 1])]
           unsolved == {m \in 0 .. Len(atoms) : \A f : ~ Solves(f, m)}
<1>1. Len(atoms) \in Nat
  OBVIOUS
<1>2. ASSUME unsolved # {}  PROVE FALSE
  <2>1. PICK m \in unsolved : \A k \in unsolved : m <= k
    <3>1. unsolved \in SUBSET Nat
      BY <1>1
    <3> HIDE DEF unsolved
    <3>2. QED
      BY <1>2, <3>1, LeastNumber
  <2>2. CASE m = 0
    <3>1. Solves([n \in 0 .. 0 |-> 0], 0)
      OBVIOUS
    <3> HIDE DEF Solves
    <3>2. QED
      BY <2>2, <3>1
  <2>3. CASE m # 0
    <3>1. m - 1 \in 0 .. Len(atoms) /\ m \in Nat /\ ~ (m <= m - 1)
      BY <1>1, <2>3
    <3>2. m - 1 \notin unsolved
      BY <2>1, <3>1
    <3>3. PICK f : Solves(f, m - 1)
      BY <3>1, <3>2
    <3> DEFINE g == [n \in 0 .. m |-> IF n = m THEN OffsetBehind(atoms, m, f[m - 1]) ELSE f[n]]
    <3>4. ASSUME NEW n \in 0 .. m
          PROVE  g[n] = IF n = 0 THEN 0 ELSE OffsetBehind(atoms, n, g[n - 1])
      <4>1. CASE n = m
        <5>1. g[m] = OffsetBehind(atoms, m, f[m - 1]) /\ g[m - 1] = f[m - 1]
          BY <2>3, <3>1
        <5>2. QED
          BY <2>3, <4>1, <5>1
      <4>2. CASE n # m
        <5>1. n \in 0 .. (m - 1) /\ n # m /\ (n # 0 => n - 1 \in 0 .. (m - 1) /\ n - 1 # m)
          BY <3>1, <4>2
        <5>2. g[n] = f[n] /\ (n # 0 => g[n - 1] = f[n - 1])
          BY <3>1, <5>1
        <5>3. f[n] = IF n = 0 THEN 0 ELSE OffsetBehind(atoms, n, f[n - 1])
          BY <3>3, <5>1
        <5>4. QED
          BY <5>2, <5>3
      <4>3. QED
        BY <4>1, <4>2
    <3>5. \A x : x = [n \in 0 .. m |-> x[n]] /\ (\A n \in 0 .. m :
                    x[n] = IF n = 0 THEN 0 ELSE OffsetBehind(atoms, n, x[n - 1]))
                 => Solves(x, m)
      OBVIOUS
    <3>6. g = [n \in 0 .. m |-> g[n]]
      OBVIOUS
    <3> HIDE DEF g, Solves
    <3>7. Solves(g, m)
      BY <3>4, <3>5, <3>6
    <3>8. QED
      BY <2>1, <3>7
  <2>4. QED
    BY <2>2, <2>3
<1>3. \E f : Solves(f, Len(atoms))
  <2>1. Len(atoms) \in 0 .. Len(atoms)
    BY <1>1
  <2> HIDE DEF Solves
  <2>2. QED
    BY <1>2, <2>1
<1>4. Offsets(atoms) = CHOOSE f : Solves(f, Len(atoms))
  BY DEF Offsets, OffsetBehind
<1>5. Solves(Offsets(atoms), Len(atoms))
  <2> HIDE DEF Solves
  <2>1. QED
    BY <1>3, <1>4
<1>6. QED
  BY <1>5

\* Offsets are numbers, and an atom starts where the one before ends, or later.
LEMMA OffsetsAscend ==
    ASSUME NEW atoms \in Seq(CodeRecords)
    PROVE  /\ \A n \in DOMAIN atoms : Offsets(atoms)[n] \in Nat
           /\ \A n \in DOMAIN atoms : n > 1 =>
                 Offsets(atoms)[n - 1] + atoms[n - 1].size <= Offsets(atoms)[n]
<1> DEFINE f == Offsets(atoms)
           wrong == {n \in 1 .. Len(atoms) : f[n] \notin Nat}
<1>1. Len(atoms) \in Nat /\ DOMAIN atoms = 1 .. Len(atoms)
  OBVIOUS
<1>2. \A n \in 1 .. Len(atoms) :
          /\ atoms[n].size \in Nat /\ atoms[n].align \in Nat \ {0} /\ atoms[n].modulus \in Nat
  <2>1. \A n \in 1 .. Len(atoms) : atoms[n] \in CodeRecords
    BY <1>1
  <2>2. \A x \in CodeRecords : x.size \in Nat /\ x.align \in Nat \ {0} /\ x.modulus \in Nat
    BY DEF CodeRecords
  <2>3. QED
    BY <2>1, <2>2
<1>3. \A n \in 1 .. Len(atoms) : f[n] = OffsetBehind(atoms, n, f[n - 1])
  <2>1. \A n \in 1 .. Len(atoms) : n \in 0 .. Len(atoms) /\ n # 0
    BY <1>1
  <2>2. f = [n \in 0 .. Len(atoms) |-> IF n = 0 THEN 0 ELSE OffsetBehind(atoms, n, f[n - 1])]
    BY OffsetsRecursion
  <2> HIDE DEF f
  <2>3. QED
    BY <2>1, <2>2
<1> HIDE DEF f
<1>4. ASSUME NEW n \in 1 .. Len(atoms), n = 1 \/ f[n - 1] \in Nat
      PROVE  f[n] \in Nat /\ (n > 1 => f[n - 1] + atoms[n - 1].size <= f[n])
  <2> DEFINE behind == IF n = 1 THEN 0 ELSE f[n - 1] + atoms[n - 1].size
  <2>1. behind \in Nat
    <3>1. CASE n = 1
      BY <3>1
    <3>2. CASE n # 1
      <4>1. n - 1 \in 1 .. Len(atoms)
        BY <1>1, <3>2
      <4>2. f[n - 1] \in Nat /\ atoms[n - 1].size \in Nat
        BY <1>2, <1>4, <3>2, <4>1
      <4>3. QED
        BY <3>2, <4>2
    <3>3. QED
      BY <3>1, <3>2
  <2>2. f[n] = Aligned(behind, atoms[n].align, atoms[n].modulus)
    BY <1>3 DEF OffsetBehind
  <2>3. n > 1 => behind = f[n - 1] + atoms[n - 1].size
    OBVIOUS
  <2> HIDE DEF behind
  <2>4. f[n] \in Nat /\ f[n] >= behind
    BY <1>2, <2>1, <2>2, AlignedUp
  <2>5. QED
    BY <2>1, <2>3, <2>4
<1>5. wrong = {}
  <2> SUFFICES ASSUME wrong # {}  PROVE FALSE
    OBVIOUS
  <2>1. PICK m \in wrong : \A k \in wrong : m <= k
    <3>1. wrong \in SUBSET Nat
      BY <1>1
    <3> HIDE DEF wrong
    <3>2. QED
      BY <3>1, LeastNumber
  <2>2. m \in 1 .. Len(atoms) /\ f[m] \notin Nat /\ m \in Nat
    BY <1>1
  <2>3. m = 1 \/ f[m - 1] \in Nat
    <3>1. m # 1 => m - 1 \in 1 .. Len(atoms) /\ ~ (m <= m - 1)
      BY <1>1, <2>2
    <3>2. QED
      BY <2>1, <3>1
  <2>4. QED
    BY <1>4, <2>2, <2>3
<1>6. \A n \in 1 .. Len(atoms) : f[n] \in Nat
  BY <1>5
<1>7. ASSUME NEW n \in 1 .. Len(atoms), n > 1
      PROVE  f[n - 1] + atoms[n - 1].size <= f[n]
  <2>1. n - 1 \in 1 .. Len(atoms)
    BY <1>1, <1>7
  <2>2. QED
    BY <1>4, <1>6, <1>7, <2>1
<1>8. QED
  BY <1>1, <1>6, <1>7 DEF f

\* The text as the pass works with it: atoms that follow each other, and the
\* stubs behind them.
LEMMA TextFacts ==
    ASSUME text \in BranchInputs
    PROVE  /\ text.atoms \in Seq(CodeRecords)
           /\ Len(text.atoms) \in Nat \ {0} /\ DOMAIN text.atoms = 1 .. Len(text.atoms)
           /\ text.stubs * StubSize \in Nat
           /\ Between \in Nat /\ EndRoom \in Nat /\ EndRoom <= Between
           /\ \A a \in DOMAIN text.atoms :
                 /\ Offset[a] \in Nat /\ AtomEnd(a) \in Nat /\ Offset[a] <= AtomEnd(a)
                 /\ text.atoms[a].size \in Nat
                 /\ text.atoms[a].followOn \in BOOLEAN
                 /\ text.atoms[a].branches \in Seq(BranchRecords)
           /\ \A a \in DOMAIN text.atoms : a > 1 => AtomEnd(a - 1) <= Offset[a]
           /\ TotalTextSize = AtomEnd(Len(text.atoms)) + text.stubs * StubSize
<1>1. text \in TextRecords /\ text.atoms # <<>>
  BY IslandAssumption
<1>2. text.atoms \in Seq(CodeRecords) /\ text.stubs \in Nat
  BY <1>1 DEF TextRecords
<1>3. Len(text.atoms) \in Nat \ {0} /\ DOMAIN text.atoms = 1 .. Len(text.atoms)
  BY <1>1, <1>2
<1>4. StubSize \in Nat /\ Between \in Nat /\ EndRoom \in Nat /\ EndRoom <= Between
  BY IslandAssumption
<1>5. text.stubs * StubSize \in Nat
  BY <1>2, <1>4
<1>6. \A a \in DOMAIN text.atoms : text.atoms[a] \in CodeRecords
  BY <1>2
<1>7. \A x \in CodeRecords :
          x.size \in Nat /\ x.followOn \in BOOLEAN /\ x.branches \in Seq(BranchRecords)
  BY DEF CodeRecords
<1>8. /\ \A a \in DOMAIN text.atoms : Offset[a] \in Nat
      /\ \A a \in DOMAIN text.atoms : a > 1 =>
             Offset[a - 1] + text.atoms[a - 1].size <= Offset[a]
  BY <1>2, OffsetsAscend DEF Offset
<1>9. \A a \in DOMAIN text.atoms :
          AtomEnd(a) = Offset[a] + text.atoms[a].size /\ text.atoms[a].size \in Nat
  BY <1>6, <1>7 DEF AtomEnd
<1>10. TotalTextSize = AtomEnd(Len(text.atoms)) + text.stubs * StubSize
  BY DEF TotalTextSize, EndOf, AtomEnd, Offset
<1>11. \A a \in DOMAIN text.atoms : AtomEnd(a) \in Nat /\ Offset[a] <= AtomEnd(a)
  BY <1>8, <1>9
<1>12. \A a \in DOMAIN text.atoms : a > 1 => AtomEnd(a - 1) <= Offset[a]
  BY <1>8 DEF AtomEnd
<1>13. QED
  BY <1>2, <1>3, <1>4, <1>5, <1>6, <1>7, <1>8, <1>9, <1>10, <1>11, <1>12

\* An atom that comes later does not end earlier.
LEMMA EndsAscend ==
    ASSUME text \in BranchInputs, NEW a \in DOMAIN text.atoms, NEW b \in DOMAIN text.atoms, a <= b
    PROVE  AtomEnd(a) <= AtomEnd(b)
<1> DEFINE n == Len(text.atoms)
           wrong == {c \in 1 .. n : a <= c /\ ~ (AtomEnd(a) <= AtomEnd(c))}
<1>1. n \in Nat /\ DOMAIN text.atoms = 1 .. n
  BY TextFacts
<1>2. \A c \in 1 .. n : AtomEnd(c) \in Nat /\ (c > 1 => AtomEnd(c - 1) <= AtomEnd(c))
  <2>1. ASSUME NEW c \in 1 .. n, c > 1  PROVE AtomEnd(c - 1) <= AtomEnd(c)
    <3>1. c \in DOMAIN text.atoms /\ c - 1 \in DOMAIN text.atoms
      BY <1>1, <2>1
    <3>2. /\ AtomEnd(c - 1) \in Nat /\ Offset[c] \in Nat /\ AtomEnd(c) \in Nat
          /\ AtomEnd(c - 1) <= Offset[c] /\ Offset[c] <= AtomEnd(c)
      BY <2>1, <3>1, TextFacts
    <3>3. QED
      BY <3>2
  <2>2. \A c \in 1 .. n : AtomEnd(c) \in Nat
    BY <1>1, TextFacts
  <2>3. QED
    BY <2>1, <2>2
<1> HIDE DEF n
<1>3. SUFFICES ASSUME wrong # {}  PROVE FALSE
  BY <1>1
<1>4. PICK c \in wrong : \A k \in wrong : c <= k
  <2>1. wrong \in SUBSET Nat
    BY <1>1
  <2> HIDE DEF wrong
  <2>2. QED
    BY <1>3, <2>1, LeastNumber
<1>5. c \in 1 .. n /\ a \in 1 .. n /\ a <= c /\ ~ (AtomEnd(a) <= AtomEnd(c))
  BY <1>1
<1>6. a # c
  BY <1>2, <1>5
<1>7. c - 1 \in 1 .. n /\ a <= c - 1 /\ c > 1 /\ ~ (c <= c - 1)
  BY <1>1, <1>5, <1>6
<1>8. AtomEnd(a) <= AtomEnd(c - 1)
  BY <1>4, <1>7
<1>9. QED
  BY <1>2, <1>5, <1>7, <1>8

------------------------------------------------------------------------------
(***************************************************************************)
(* Regions for branch islands.                                             *)
(***************************************************************************)
\* The atom after which the last region is; 0: there is none
LastPoint(rs) == IF rs = <<>> THEN 0 ELSE rs[Len(rs)]

\* Where the text behind an atom, or all of it, starts
TextAfter(p) == IF p = 0 THEN 0 ELSE AtomEnd(p)

\* Regions go up, each at most Between after the one before.
RegionsClose(rs) ==
    /\ rs \in Seq(DOMAIN text.atoms)
    /\ \A i \in DOMAIN rs :
          /\ i = 1 => AtomEnd(rs[1]) <= Between
          /\ i > 1 => rs[i - 1] < rs[i] /\ AtomEnd(rs[i]) - AtomEnd(rs[i - 1]) <= Between

\* All the text is at most Between behind the last region.
TextCovered(rs) == TotalTextSize - TextAfter(LastPoint(rs)) <= Between

AllFollowOn(a, b) == \A c \in a .. b : text.atoms[c].followOn

\* The loop over the atoms: those after the last place for a region are
\* chained to one another.
LoopInv ==
    /\ LastPoint(regions) \in 0 .. visited /\ regionEnd = TextAfter(LastPoint(regions))
    /\ point \in 0 .. visited
    /\ point = 0 => AllFollowOn(LastPoint(regions) + 1, visited)
    /\ point # 0 => /\ LastPoint(regions) < point
                    /\ AllFollowOn(point + 1, visited)
                    /\ AtomEnd(point) <= regionEnd + Between

\* A hop is between places at most Between apart.
HopIsNear(x, hop, key) == key.addend = 0 => Near(x, Landing(hop, key))

\* The hops of the branches, and of the islands, are near.
LegsNear ==
    /\ \A br \in DOMAIN hops : HopIsNear(SrcAddr(br), hops[br], Key(br))
    /\ \A i \in DOMAIN islands : \A n \in DOMAIN islands[i] :
          HopIsNear(RegionAddr(i), islands[i][n].next, islands[i][n])

IslandRecords == [to : Int, addend : Nat, next : Nat]

IslandInv ==
    /\ text \in BranchInputs
    /\ round \in {"regions", "branches", "done"}
    /\ visited \in 0 .. Len(text.atoms)
    /\ round = "regions" => hops = <<>> /\ islands = <<>>
    /\ Reasonable =>
          /\ ~ unable
          /\ RegionsClose(regions)
          /\ round = "regions" => LoopInv
          /\ round = "branches" => TextCovered(regions) /\ DOMAIN islands = DOMAIN regions
          /\ \A i \in DOMAIN islands : islands[i] \in Seq(IslandRecords)
          /\ LegsNear

\* The atoms from one on that are chained are not too long.
LEMMA ShortRuns ==
    ASSUME text \in BranchInputs, Reasonable,
           NEW p \in 0 .. Len(text.atoms), NEW v \in DOMAIN text.atoms, p < v,
           AllFollowOn(p + 1, v - 1)
    PROVE  AtomEnd(v) <= TextAfter(p) + (Between - EndRoom)
<1>1. Len(text.atoms) \in Nat /\ DOMAIN text.atoms = 1 .. Len(text.atoms)
  BY TextFacts
<1>2. p + 1 \in DOMAIN text.atoms /\ p + 1 <= v
  BY <1>1
<1>3. AtomEnd(v) - RunStart(p + 1) <= Between - EndRoom
  BY <1>2 DEF Reasonable, AllFollowOn
<1>4. RunStart(p + 1) = TextAfter(p)
  BY <1>1 DEF RunStart, TextAfter
<1>5. AtomEnd(v) \in Nat /\ TextAfter(p) \in Nat /\ Between \in Nat /\ EndRoom \in Nat
  BY <1>1, TextFacts DEF TextAfter
<1>6. QED
  BY <1>3, <1>4, <1>5

\* Regions stay close if one is added at a place that is close to the last.
LEMMA RegionAdded ==
    ASSUME text \in BranchInputs, NEW rs, RegionsClose(rs), NEW p \in DOMAIN text.atoms,
           LastPoint(rs) < p, AtomEnd(p) <= TextAfter(LastPoint(rs)) + Between
    PROVE  RegionsClose(Append(rs, p)) /\ LastPoint(Append(rs, p)) = p
<1> DEFINE D == DOMAIN text.atoms
           n == Len(rs)
           qs == Append(rs, p)
<1>1. /\ \A a \in D : a \in Nat /\ AtomEnd(a) \in Nat
      /\ Between \in Nat
  BY TextFacts
<1>2. rs \in Seq(D)
  BY DEF RegionsClose
<1> HIDE DEF D
<1>3. /\ n \in Nat /\ DOMAIN rs = 1 .. n
      /\ qs \in Seq(D) /\ Len(qs) = n + 1 /\ DOMAIN qs = 1 .. (n + 1) /\ qs[n + 1] = p
      /\ \A i \in 1 .. n : qs[i] = rs[i] /\ rs[i] \in D
      /\ qs # <<>> /\ (rs = <<>> <=> n = 0)
  BY <1>2 DEF D
<1>4. LastPoint(qs) = p
  BY <1>3 DEF LastPoint
<1> HIDE DEF n, qs
<1>5. LastPoint(rs) = IF n = 0 THEN 0 ELSE rs[n]
  BY <1>3 DEF LastPoint, n
<1>6. ASSUME NEW i \in 1 .. (n + 1)
      PROVE  /\ i = 1 => AtomEnd(qs[1]) <= Between
             /\ i > 1 => qs[i - 1] < qs[i] /\ AtomEnd(qs[i]) - AtomEnd(qs[i - 1]) <= Between
  <2>1. CASE i \in 1 .. n
    <3>1. /\ i = 1 => AtomEnd(rs[1]) <= Between
          /\ i > 1 => rs[i - 1] < rs[i] /\ AtomEnd(rs[i]) - AtomEnd(rs[i - 1]) <= Between
      BY <1>3, <2>1 DEF RegionsClose
    <3>2. i > 1 => i - 1 \in 1 .. n
      BY <1>3, <2>1
    <3>3. QED
      BY <1>3, <2>1, <3>1, <3>2
  <2>2. CASE i = n + 1 /\ n = 0
    <3>1. TextAfter(LastPoint(rs)) = 0
      BY <1>5, <2>2 DEF TextAfter
    <3>2. AtomEnd(p) <= Between
      BY <1>1, <3>1 DEF D
    <3>3. QED
      BY <1>3, <2>2, <3>2
  <2>3. CASE i = n + 1 /\ n # 0
    <3>1. rs[n] \in D /\ qs[n] = rs[n] /\ qs[i] = p /\ i - 1 = n /\ i # 1
      BY <1>3, <2>3
    <3>2. LastPoint(rs) = rs[n]
      BY <1>5, <2>3
    <3>3. rs[n] # 0
      BY <1>3, <3>1, TextFacts DEF D
    <3>4. TextAfter(LastPoint(rs)) = AtomEnd(rs[n])
      BY <3>2, <3>3 DEF TextAfter
    <3>5. AtomEnd(p) \in Nat /\ AtomEnd(rs[n]) \in Nat /\ p \in Nat /\ rs[n] \in Nat
      BY <1>1, <3>1 DEF D
    <3>6. rs[n] < p /\ AtomEnd(p) - AtomEnd(rs[n]) <= Between
      BY <1>1, <3>2, <3>4, <3>5
    <3>7. QED
      BY <3>1, <3>6
  <2>4. QED
    BY <1>3, <2>1, <2>2, <2>3
<1>7. RegionsClose(qs)
  BY <1>3, <1>6 DEF RegionsClose, D
<1>8. QED
  BY <1>4, <1>7 DEF qs

\* An atom's visit keeps the regions close and finds a place for each.
LEMMA VisitAtomStep ==
    ASSUME IslandInv, VisitAtom
    PROVE  IslandInv'
<1> DEFINE a == visited + 1
           last == LastPoint(regions)
           long == AtomEnd(a) > regionEnd + Between
<1>1. /\ text \in BranchInputs /\ round = "regions" /\ visited \in 0 .. Len(text.atoms)
      /\ hops = <<>> /\ islands = <<>> /\ visited < Len(text.atoms)
      /\ UNCHANGED <<text, islands, hops, list>>
  BY DEF IslandInv, VisitAtom
<1>2. /\ Len(text.atoms) \in Nat /\ DOMAIN text.atoms = 1 .. Len(text.atoms)
      /\ visited \in Nat /\ a \in DOMAIN text.atoms /\ a \in 0 .. Len(text.atoms)
      /\ Between \in Nat /\ EndRoom \in Nat /\ EndRoom <= Between
      /\ \A b \in DOMAIN text.atoms : AtomEnd(b) \in Nat
  BY <1>1, TextFacts
<1>3. \/ unable' = TRUE /\ round' = "done" /\ UNCHANGED <<visited, regions, regionEnd, point>>
         /\ long /\ point = 0
      \/ /\ ~ (long /\ point = 0)
         /\ visited' = a
         /\ regions' = IF long THEN Append(regions, point) ELSE regions
         /\ regionEnd' = IF long THEN AtomEnd(point) ELSE regionEnd
         /\ point' = IF ~ text.atoms[a].followOn THEN a ELSE IF long THEN 0 ELSE point
         /\ UNCHANGED <<unable, round>>
  BY DEF VisitAtom
<1>4. visited' \in 0 .. Len(text.atoms)' /\ round' \in {"regions", "branches", "done"}
  BY <1>1, <1>2, <1>3
<1>5. Reasonable' <=> Reasonable
  BY <1>1 DEF Reasonable, AtomEnd, Offset, RunStart
<1>6. ASSUME Reasonable
      PROVE  /\ ~ unable' /\ round' = "regions"
             /\ RegionsClose(regions)' /\ LoopInv'
  <2>1. RegionsClose(regions) /\ LoopInv /\ ~ unable
    BY <1>1, <1>6 DEF IslandInv
  <2>2. /\ last \in 0 .. visited /\ regionEnd = TextAfter(last) /\ point \in 0 .. visited
        /\ last \in 0 .. Len(text.atoms) /\ point \in 0 .. Len(text.atoms)
        /\ last < a /\ point < a
        /\ TextAfter(last) \in Nat
    <3>1. last \in 0 .. visited /\ regionEnd = TextAfter(last) /\ point \in 0 .. visited
      BY <2>1 DEF LoopInv
    <3>2. last \in 0 .. Len(text.atoms) /\ point \in 0 .. Len(text.atoms) /\ last < a /\ point < a
      BY <1>1, <1>2, <3>1
    <3>3. TextAfter(last) \in Nat
      BY <1>2, <3>2 DEF TextAfter
    <3>4. QED
      BY <3>1, <3>2, <3>3
  <2>3. point = 0 => ~ long
    <3> SUFFICES ASSUME point = 0  PROVE ~ long
      OBVIOUS
    <3>1. AllFollowOn(last + 1, a - 1)
      BY <1>2, <2>1 DEF LoopInv
    <3>2. AtomEnd(a) <= TextAfter(last) + (Between - EndRoom)
      BY <1>1, <1>2, <1>6, <2>2, <3>1, ShortRuns
    <3>3. QED
      BY <1>2, <2>2, <3>2
  <2>4. /\ visited' = a
        /\ regions' = IF long THEN Append(regions, point) ELSE regions
        /\ regionEnd' = IF long THEN AtomEnd(point) ELSE regionEnd
        /\ point' = IF ~ text.atoms[a].followOn THEN a ELSE IF long THEN 0 ELSE point
        /\ UNCHANGED <<unable, round>>
    BY <1>3, <2>3
  <2>5. point # 0 => AllFollowOn(point + 1, a - 1) /\ last < point
                     /\ AtomEnd(point) <= TextAfter(last) + Between
    BY <1>2, <2>1, <2>2 DEF LoopInv
  <2>6. text.atoms[a].followOn => \A p \in 0 .. visited :
            AllFollowOn(p + 1, a - 1) => AllFollowOn(p + 1, a)
    <3>1. ASSUME NEW p \in 0 .. visited, NEW c \in (p + 1) .. a
          PROVE  c \in (p + 1) .. (a - 1) \/ c = a
      BY <1>2
    <3>2. QED
      BY <3>1 DEF AllFollowOn
  <2>7. AllFollowOn(a + 1, a)
    <3>1. (a + 1) .. a = {}
      BY <1>2
    <3>2. QED
      BY <3>1 DEF AllFollowOn
  <2> DEFINE newPoint == IF ~ text.atoms[a].followOn THEN a ELSE IF long THEN 0 ELSE point
             newLast == IF long THEN point ELSE last
             newRegions == IF long THEN Append(regions, point) ELSE regions
  <2>8. RegionsClose(newRegions) /\ LastPoint(newRegions) = newLast
    <3>1. CASE long
      <4>1. point \in DOMAIN text.atoms
        BY <1>2, <2>2, <2>3, <3>1
      <4>2. QED
        BY <1>1, <2>1, <2>3, <2>5, <3>1, <4>1, RegionAdded
    <3>2. CASE ~ long
      BY <2>1, <3>2
    <3>3. QED
      BY <3>1, <3>2
  <2>9. regionEnd' = TextAfter(newLast)
    BY <2>2, <2>3, <2>4 DEF TextAfter
  <2>10. /\ newLast \in 0 .. a /\ newPoint \in 0 .. a
         /\ newPoint = 0 => AllFollowOn(newLast + 1, a)
         /\ newPoint # 0 => /\ newLast < newPoint
                            /\ AllFollowOn(newPoint + 1, a)
                            /\ AtomEnd(newPoint) <= TextAfter(newLast) + Between
    <3>1. newLast \in 0 .. a /\ newPoint \in 0 .. a
      BY <1>2, <2>2
    <3>2. CASE ~ text.atoms[a].followOn /\ long
      <4>1. AtomEnd(a) <= TextAfter(point) + (Between - EndRoom)
        BY <1>1, <1>2, <1>6, <2>2, <2>3, <2>5, <3>2, ShortRuns
      <4>2. TextAfter(point) \in Nat
        BY <1>2, <2>2 DEF TextAfter
      <4>3. AtomEnd(a) <= TextAfter(point) + Between
        BY <1>2, <4>1, <4>2
      <4>4. QED
        BY <1>2, <2>2, <2>7, <3>1, <3>2, <4>3
    <3>3. CASE ~ text.atoms[a].followOn /\ ~ long
      <4>1. AtomEnd(a) <= TextAfter(last) + Between
        BY <1>2, <2>2, <3>3
      <4>2. QED
        BY <1>2, <2>2, <2>7, <3>1, <3>3, <4>1
    <3>4. CASE text.atoms[a].followOn /\ long
      BY <2>2, <2>3, <2>5, <2>6, <3>1, <3>4
    <3>5. CASE text.atoms[a].followOn /\ ~ long
      <4>1. point = 0 => AllFollowOn(last + 1, a - 1)
        BY <1>2, <2>1 DEF LoopInv
      <4>2. QED
        BY <2>2, <2>5, <2>6, <3>1, <3>5, <4>1
    <3>6. QED
      BY <3>2, <3>3, <3>4, <3>5 DEF AllFollowOn
  <2>11. regions' = newRegions /\ point' = newPoint /\ visited' = a
    BY <2>4
  <2> HIDE DEF newRegions, newPoint, newLast, a, long
  <2>12. RegionsClose(regions)'
    BY <1>1, <2>8, <2>11 DEF RegionsClose, AtomEnd, Offset
  <2>13. LoopInv'
    BY <1>1, <2>8, <2>9, <2>10, <2>11
       DEF LoopInv, LastPoint, TextAfter, AllFollowOn, AtomEnd, Offset
  <2>14. QED
    BY <1>1, <2>1, <2>4, <2>12, <2>13
<1>7. hops' = <<>> /\ islands' = <<>>
  BY <1>1
<1>8. QED
  BY <1>1, <1>4, <1>5, <1>6, <1>7 DEF IslandInv, LegsNear

\* When all atoms have been visited, the regions cover the text.
LEMMA EndRegionsStep ==
    ASSUME IslandInv, EndRegions
    PROVE  IslandInv'
<1> DEFINE n == Len(text.atoms)
           last == LastPoint(regions)
           added == LastRegion
<1>1. /\ text \in BranchInputs /\ round = "regions" /\ visited = n
      /\ hops = <<>> /\ regions' = added /\ round' = "branches"
      /\ islands' = [i \in DOMAIN regions' |-> <<>>]
      /\ UNCHANGED <<text, visited, hops, unable>>
  BY DEF IslandInv, EndRegions
<1>2. /\ n \in Nat \ {0} /\ DOMAIN text.atoms = 1 .. n
      /\ Between \in Nat /\ EndRoom \in Nat /\ EndRoom <= Between
      /\ \A b \in DOMAIN text.atoms : AtomEnd(b) \in Nat
      /\ text.stubs * StubSize \in Nat
      /\ TotalTextSize = AtomEnd(n) + text.stubs * StubSize
      /\ text.atoms[n].followOn \in BOOLEAN
  BY <1>1, TextFacts
<1>3. Reasonable' <=> Reasonable
  BY <1>1 DEF Reasonable, AtomEnd, Offset, RunStart
<1>4. ASSUME Reasonable
      PROVE  RegionsClose(regions)' /\ TextCovered(regions)' /\ ~ unable'
  <2>1. RegionsClose(regions) /\ LoopInv /\ ~ unable
    BY <1>1, <1>4 DEF IslandInv
  <2>2. /\ last \in 0 .. n /\ point \in 0 .. n
        /\ regionEnd = TextAfter(last)
        /\ TextAfter(last) \in Nat
        /\ point # 0 => last < point /\ AtomEnd(point) <= TextAfter(last) + Between
    <3>1. /\ last \in 0 .. n /\ point \in 0 .. n
          /\ regionEnd = TextAfter(last)
          /\ point # 0 => last < point /\ AtomEnd(point) <= TextAfter(last) + Between
      BY <1>1, <2>1 DEF LoopInv
    <3>2. TextAfter(last) \in Nat
      BY <1>2, <3>1 DEF TextAfter
    <3>3. QED
      BY <3>1, <3>2
  <2>3. ASSUME NEW p \in 0 .. n, AllFollowOn(p + 1, n)  PROVE p = n
    <3>1. p # n => n \in (p + 1) .. n
      BY <1>2
    <3>2. ~ text.atoms[n].followOn
      BY <1>4 DEF Reasonable
    <3>3. QED
      BY <2>3, <3>1, <3>2 DEF AllFollowOn
  <2>4. IF point = 0 THEN last = n ELSE point = n
    BY <1>1, <2>1, <2>2, <2>3 DEF LoopInv
  <2>5. text.stubs * StubSize <= EndRoom
    BY <1>4 DEF Reasonable
  <2> DEFINE st == text.stubs * StubSize
  <2>6. st \in Nat /\ st <= EndRoom /\ TotalTextSize = AtomEnd(n) + st /\ AtomEnd(n) \in Nat
    BY <1>2, <2>5
  <2> HIDE DEF st
  <2>7. RegionsClose(added) /\ TextCovered(added)
    <3>1. CASE point # 0 /\ AtomEnd(point) > regionEnd + (Between - EndRoom)
      <4>1. added = Append(regions, point)
        BY <3>1 DEF LastRegion
      <4>2. point \in DOMAIN text.atoms
        BY <1>2, <2>2, <3>1
      <4>3. RegionsClose(added) /\ LastPoint(added) = point
        BY <1>1, <2>1, <2>2, <3>1, <4>1, <4>2, RegionAdded
      <4>4. TextAfter(point) = AtomEnd(n)
        BY <2>4, <3>1 DEF TextAfter
      <4>5. TotalTextSize - AtomEnd(n) <= Between
        BY <1>2, <2>6
      <4> HIDE DEF added
      <4>6. QED
        BY <4>3, <4>4, <4>5 DEF TextCovered
    <3>2. CASE ~ (point # 0 /\ AtomEnd(point) > regionEnd + (Between - EndRoom))
      <4>1. added = regions
        BY <3>2 DEF LastRegion
      <4>2. AtomEnd(n) <= TextAfter(last) + (Between - EndRoom)
        <5>1. CASE point = 0
          <6>1. TextAfter(last) = AtomEnd(n)
            BY <1>2, <2>4, <5>1 DEF TextAfter
          <6>2. QED
            BY <1>2, <6>1
        <5>2. CASE point # 0
          BY <1>2, <2>2, <2>4, <3>2, <5>2
        <5>3. QED
          BY <5>1, <5>2
      <4>3. TotalTextSize - TextAfter(last) <= Between
        BY <1>2, <2>2, <2>6, <4>2
      <4>4. QED
        BY <2>1, <4>1, <4>3 DEF TextCovered
    <3>3. QED
      BY <3>1, <3>2
  <2> HIDE DEF added
  <2>8. RegionsClose(regions)'
    BY <1>1, <2>7 DEF RegionsClose, AtomEnd, Offset
  <2>9. TextCovered(regions)'
    BY <1>1, <2>7
       DEF TextCovered, TextAfter, LastPoint, AtomEnd, Offset, TotalTextSize, EndOf
  <2>10. QED
    BY <1>1, <2>1, <2>8, <2>9
<1>5. /\ \A br \in DOMAIN hops' : FALSE
      /\ \A i \in DOMAIN islands' :
            DOMAIN islands'[i] = {} /\ islands'[i] \in Seq(IslandRecords)
      /\ DOMAIN islands' = DOMAIN regions'
  BY <1>1
<1>6. /\ text' \in BranchInputs /\ round' = "branches" /\ visited' \in 0 .. Len(text'.atoms)
      /\ Reasonable' <=> Reasonable
  BY <1>1, <1>3 DEF IslandInv
<1>7. QED
  BY <1>4, <1>5, <1>6 DEF IslandInv, LegsNear

------------------------------------------------------------------------------
(***************************************************************************)
(* The legs of a branch.                                                   *)
(***************************************************************************)
\* The regions lie between the start of the text and its end, in order.
LEMMA RegionAddrs ==
    ASSUME text \in BranchInputs, RegionsClose(regions), TextCovered(regions)
    PROVE  /\ Len(regions) \in Nat /\ DOMAIN regions = 1 .. Len(regions)
           /\ TotalTextSize \in Nat /\ Between \in Nat
           /\ \A i \in DOMAIN regions : RegionAddr(i) \in Nat
           /\ \A i \in DOMAIN regions : i > 1 =>
                 /\ RegionAddr(i - 1) <= RegionAddr(i)
                 /\ RegionAddr(i) - RegionAddr(i - 1) <= Between
           /\ 1 \in DOMAIN regions => RegionAddr(1) <= Between
           /\ Len(regions) # 0 => TotalTextSize - RegionAddr(Len(regions)) <= Between
           /\ Len(regions) = 0 => TotalTextSize <= Between
<1> DEFINE n == Len(regions)
           D == DOMAIN text.atoms
<1>1. regions \in Seq(D)
  BY DEF RegionsClose
<1>2. /\ \A a \in D : a \in Nat /\ a # 0 /\ AtomEnd(a) \in Nat
      /\ Between \in Nat
      /\ Len(text.atoms) \in D
      /\ TotalTextSize = AtomEnd(Len(text.atoms)) + text.stubs * StubSize
      /\ text.stubs * StubSize \in Nat
  BY TextFacts
<1>3. TotalTextSize \in Nat
  BY <1>2
<1> HIDE DEF D
<1>4. n \in Nat /\ DOMAIN regions = 1 .. n /\ (\A i \in 1 .. n : regions[i] \in D)
      /\ (regions = <<>> <=> n = 0)
  BY <1>1
<1>5. \A i \in DOMAIN regions : RegionAddr(i) \in Nat
  BY <1>2, <1>4 DEF RegionAddr
<1>6. ASSUME NEW i \in DOMAIN regions, i > 1
      PROVE  /\ RegionAddr(i - 1) <= RegionAddr(i)
             /\ RegionAddr(i) - RegionAddr(i - 1) <= Between
  <2>1. i - 1 \in DOMAIN regions
    BY <1>4, <1>6
  <2>2. regions[i - 1] \in D /\ regions[i] \in D
    BY <1>4, <2>1
  <2>3. regions[i - 1] < regions[i] /\ AtomEnd(regions[i]) - AtomEnd(regions[i - 1]) <= Between
    BY <1>6 DEF RegionsClose
  <2>4. AtomEnd(regions[i - 1]) <= AtomEnd(regions[i])
    <3> DEFINE a == regions[i - 1]
               b == regions[i]
    <3>1. a \in DOMAIN text.atoms /\ b \in DOMAIN text.atoms /\ a <= b
      <4>1. a \in Nat /\ b \in Nat /\ a < b
        BY <1>2, <2>2, <2>3
      <4> HIDE DEF a, b
      <4>2. QED
        BY <2>2, <4>1 DEF D, a, b
    <3> HIDE DEF a, b
    <3>2. AtomEnd(a) <= AtomEnd(b)
      BY <3>1, EndsAscend
    <3>3. QED
      BY <3>2 DEF a, b
  <2>5. QED
    BY <2>3, <2>4 DEF RegionAddr
<1>7. 1 \in DOMAIN regions => RegionAddr(1) <= Between
  BY DEF RegionsClose, RegionAddr
<1>8. n # 0 => TotalTextSize - RegionAddr(n) <= Between
  <2> SUFFICES ASSUME n # 0  PROVE TotalTextSize - RegionAddr(n) <= Between
    OBVIOUS
  <2>1. n \in 1 .. n
    BY <1>4
  <2>2. LastPoint(regions) = regions[n] /\ regions[n] # 0
    BY <1>2, <1>4, <2>1 DEF LastPoint
  <2>3. QED
    BY <2>2 DEF TextCovered, TextAfter, RegionAddr
<1>9. n = 0 => TotalTextSize <= Between
  BY <1>3, <1>4 DEF TextCovered, TextAfter, LastPoint
<1>10. QED
  BY <1>2, <1>3, <1>4, <1>5, <1>6, <1>7, <1>8, <1>9

\* The addresses of regions go up.
LEMMA RegionsAscend ==
    ASSUME text \in BranchInputs, RegionsClose(regions), TextCovered(regions),
           NEW i \in DOMAIN regions, NEW j \in DOMAIN regions, i <= j
    PROVE  RegionAddr(i) <= RegionAddr(j)
<1>1. /\ Len(regions) \in Nat /\ DOMAIN regions = 1 .. Len(regions)
      /\ \A k \in DOMAIN regions : RegionAddr(k) \in Nat
      /\ \A k \in DOMAIN regions : k > 1 => RegionAddr(k - 1) <= RegionAddr(k)
  BY RegionAddrs
<1> DEFINE wrong == {k \in DOMAIN regions : i <= k /\ ~ (RegionAddr(i) <= RegionAddr(k))}
<1>2. SUFFICES ASSUME wrong # {}  PROVE FALSE
  OBVIOUS
<1>3. PICK k \in wrong : \A m \in wrong : k <= m
  <2>1. wrong \in SUBSET Nat
    BY <1>1
  <2> HIDE DEF wrong
  <2>2. QED
    BY <1>2, <2>1, LeastNumber
<1>4. k \in DOMAIN regions /\ i <= k /\ ~ (RegionAddr(i) <= RegionAddr(k)) /\ k # i
  BY <1>1
<1>5. k - 1 \in DOMAIN regions /\ i <= k - 1 /\ k > 1 /\ ~ (k <= k - 1)
  BY <1>1, <1>4
<1>6. RegionAddr(i) <= RegionAddr(k - 1)
  BY <1>3, <1>5
<1>7. QED
  BY <1>1, <1>4, <1>5, <1>6

\* Of a set of regions one is the first, and one the last.
LEMMA Extremes ==
    ASSUME NEW n \in Nat, NEW S \in SUBSET (1 .. n), S # {}
    PROVE  /\ Min(S) \in S /\ \A i \in S : Min(S) <= i
           /\ Max(S) \in S /\ \A i \in S : i <= Max(S)
<1>1. \E x \in S : \A y \in S : x <= y
  BY LeastNumber
<1>2. Min(S) \in S /\ \A i \in S : Min(S) <= i
  BY <1>1 DEF Min
<1>3. \E x \in S : \A y \in S : x >= y
  <2> DEFINE T == {n - i : i \in S}
  <2>1. T \in SUBSET Nat /\ T # {}
    <3>1. \A i \in S : n - i \in Nat
      OBVIOUS
    <3>2. QED
      BY <3>1
  <2> HIDE DEF T
  <2>2. PICK t \in T : \A u \in T : t <= u
    BY <2>1, LeastNumber
  <2>3. PICK x \in S : t = n - x
    BY DEF T
  <2>4. ASSUME NEW y \in S  PROVE x >= y
    <3>1. n - y \in T
      BY DEF T
    <3>2. QED
      BY <2>2, <2>3, <3>1
  <2>5. QED
    BY <2>4
<1>4. Max(S) \in S /\ \A i \in S : Max(S) >= i
  BY <1>3 DEF Max
<1>5. QED
  BY <1>2, <1>4

\* The next region over which a leg that goes up goes is at most Between away.
LEMMA LegUp ==
    ASSUME text \in BranchInputs, RegionsClose(regions), TextCovered(regions),
           NEW x \in Nat, NEW d \in 0 .. TotalTextSize, x <= d,
           NEW over, over = {i \in DOMAIN regions : x < RegionAddr(i) /\ RegionAddr(i) <= d}
    PROVE  IF over = {} THEN d - x <= Between
           ELSE RegionAddr(Min(over)) - x <= Between /\ x <= RegionAddr(Min(over))
<1> DEFINE n == Len(regions)
           beyond == {i \in DOMAIN regions : x < RegionAddr(i)}
<1>1. /\ n \in Nat /\ DOMAIN regions = 1 .. n
      /\ TotalTextSize \in Nat /\ Between \in Nat
      /\ \A i \in DOMAIN regions : RegionAddr(i) \in Nat
      /\ \A i \in DOMAIN regions : i > 1 => RegionAddr(i) - RegionAddr(i - 1) <= Between
      /\ 1 \in DOMAIN regions => RegionAddr(1) <= Between
      /\ n # 0 => TotalTextSize - RegionAddr(n) <= Between
      /\ n = 0 => TotalTextSize <= Between
  BY RegionAddrs
<1> HIDE DEF n
<1>2. d \in Nat /\ d <= TotalTextSize
  BY <1>1
<1>3. CASE beyond = {}
  <2>1. over = {}
    BY <1>3
  <2>2. n # 0 => RegionAddr(n) \in Nat /\ RegionAddr(n) <= x
    <3>1. n # 0 => n \in 1 .. n
      BY <1>1
    <3>2. QED
      BY <1>1, <1>3, <3>1
  <2>3. d - x <= Between
    BY <1>1, <1>2, <2>2
  <2>4. QED
    BY <2>1, <2>3
<1>4. CASE beyond # {}
  <2>1. PICK v \in beyond : \A i \in beyond : v <= i
    <3>1. beyond \in SUBSET Nat
      BY <1>1
    <3> HIDE DEF beyond
    <3>2. QED
      BY <1>4, <3>1, LeastNumber
  <2>2. v \in 1 .. n /\ v \in DOMAIN regions /\ RegionAddr(v) \in Nat /\ x < RegionAddr(v)
    BY <1>1, <2>1
  <2>3. RegionAddr(v) - x <= Between
    <3>1. CASE v = 1
      BY <1>1, <2>2, <3>1
    <3>2. CASE v # 1
      <4>1. v - 1 \in DOMAIN regions /\ ~ (v <= v - 1) /\ v > 1
        BY <1>1, <2>2, <3>2
      <4>2. RegionAddr(v - 1) \in Nat /\ RegionAddr(v - 1) <= x
        BY <1>1, <2>1, <4>1
      <4>3. RegionAddr(v) - RegionAddr(v - 1) <= Between
        BY <1>1, <2>2, <4>1
      <4>4. QED
        BY <1>1, <2>2, <4>2, <4>3
    <3>3. QED
      BY <3>1, <3>2
  <2>4. CASE over = {}
    <3>1. d < RegionAddr(v)
      BY <1>2, <2>2, <2>4
    <3>2. QED
      BY <1>1, <1>2, <2>2, <2>3, <2>4, <3>1
  <2>5. CASE over # {}
    <3>1. over \in SUBSET (1 .. n)
      BY <1>1
    <3>2. Min(over) \in over /\ \A i \in over : Min(over) <= i
      BY <1>1, <2>5, <3>1, Extremes
    <3> DEFINE m == Min(over)
    <3>3. m \in beyond /\ m \in DOMAIN regions /\ RegionAddr(m) <= d /\ v <= m
      BY <2>1, <3>2
    <3>4. RegionAddr(v) <= RegionAddr(m)
      BY <2>2, <3>3, RegionsAscend
    <3>5. v \in over
      BY <1>1, <1>2, <2>2, <3>3, <3>4
    <3>6. m <= v /\ m \in Nat /\ v \in Nat
      BY <1>1, <2>2, <3>2, <3>3, <3>5
    <3>7. m = v
      BY <3>3, <3>6
    <3> HIDE DEF m
    <3>8. RegionAddr(m) - x <= Between /\ x <= RegionAddr(m)
      BY <2>2, <2>3, <3>7
    <3>9. QED
      BY <2>5, <3>8 DEF m
  <2>6. QED
    BY <2>4, <2>5
<1>5. QED
  BY <1>3, <1>4

\* The first region over which a leg that goes down goes is at most Between away.
LEMMA LegDown ==
    ASSUME text \in BranchInputs, RegionsClose(regions), TextCovered(regions),
           NEW x \in 0 .. TotalTextSize, NEW d \in Nat, d <= x,
           NEW over, over = {i \in DOMAIN regions : d < RegionAddr(i) /\ RegionAddr(i) <= x},
           over # {}
    PROVE  x - RegionAddr(Max(over)) <= Between /\ RegionAddr(Max(over)) <= x
<1> DEFINE n == Len(regions)
           m == Max(over)
<1>1. /\ n \in Nat /\ DOMAIN regions = 1 .. n
      /\ TotalTextSize \in Nat /\ Between \in Nat
      /\ \A i \in DOMAIN regions : RegionAddr(i) \in Nat
      /\ \A i \in DOMAIN regions : i > 1 =>
             /\ RegionAddr(i - 1) <= RegionAddr(i)
             /\ RegionAddr(i) - RegionAddr(i - 1) <= Between
      /\ n # 0 => TotalTextSize - RegionAddr(n) <= Between
  BY RegionAddrs
<1> HIDE DEF n
<1>2. x \in Nat /\ x <= TotalTextSize
  BY <1>1
<1>3. m \in over /\ \A i \in over : i <= m
  <2>1. over \in SUBSET (1 .. n)
    BY <1>1
  <2>2. QED
    BY <1>1, <2>1, Extremes
<1> HIDE DEF m
<1>4. m \in 1 .. n /\ RegionAddr(m) \in Nat /\ d < RegionAddr(m) /\ RegionAddr(m) <= x
  BY <1>1, <1>3
<1>5. CASE m = n
  <2>1. TotalTextSize - RegionAddr(m) <= Between
    BY <1>1, <1>4, <1>5
  <2>2. QED
    BY <1>1, <1>2, <1>4, <2>1 DEF m
<1>6. CASE m # n
  <2>1. m + 1 \in DOMAIN regions /\ m + 1 > 1 /\ ~ (m + 1 <= m) /\ (m + 1) - 1 = m
    BY <1>1, <1>4, <1>6
  <2>2. /\ RegionAddr(m + 1) \in Nat /\ RegionAddr(m) <= RegionAddr(m + 1)
        /\ RegionAddr(m + 1) - RegionAddr(m) <= Between
    BY <1>1, <2>1
  <2>3. ~ (RegionAddr(m + 1) <= x)
    <3>1. m + 1 \notin over
      BY <1>3, <2>1
    <3>2. d < RegionAddr(m + 1)
      BY <1>4, <2>2
    <3>3. QED
      BY <2>1, <3>1, <3>2
  <2>4. x - RegionAddr(m) <= Between
    BY <1>1, <1>2, <1>4, <2>2, <2>3
  <2>5. QED
    BY <1>4, <2>4 DEF m
<1>7. QED
  BY <1>5, <1>6

\* From an island the next leg up goes to the next region, or to the target.
LEMMA IslandUp ==
    ASSUME text \in BranchInputs, RegionsClose(regions), TextCovered(regions),
           NEW d \in 0 .. TotalTextSize, NEW i \in DOMAIN regions, RegionAddr(i) <= d,
           NEW beyond, beyond = {j \in DOMAIN regions : i < j /\ RegionAddr(j) <= d}
    PROVE  IF beyond = {} THEN d - RegionAddr(i) <= Between
           ELSE /\ RegionAddr(Min(beyond)) - RegionAddr(i) <= Between
                /\ RegionAddr(i) <= RegionAddr(Min(beyond))
<1> DEFINE n == Len(regions)
<1>1. /\ n \in Nat /\ DOMAIN regions = 1 .. n
      /\ TotalTextSize \in Nat /\ Between \in Nat
      /\ \A j \in DOMAIN regions : RegionAddr(j) \in Nat
      /\ \A j \in DOMAIN regions : j > 1 =>
             /\ RegionAddr(j - 1) <= RegionAddr(j)
             /\ RegionAddr(j) - RegionAddr(j - 1) <= Between
      /\ n # 0 => TotalTextSize - RegionAddr(n) <= Between
  BY RegionAddrs
<1> HIDE DEF n
<1>2. d \in Nat /\ d <= TotalTextSize /\ i \in 1 .. n /\ RegionAddr(i) \in Nat
  BY <1>1
<1>3. CASE i = n
  <2>1. beyond = {}
    BY <1>1, <1>3
  <2>2. TotalTextSize - RegionAddr(i) <= Between
    BY <1>1, <1>2, <1>3
  <2>3. d - RegionAddr(i) <= Between
    BY <1>1, <1>2, <2>2
  <2>4. QED
    BY <2>1, <2>3
<1>4. CASE i # n
  <2>1. i + 1 \in DOMAIN regions /\ i + 1 > 1 /\ i < i + 1 /\ (i + 1) - 1 = i
    BY <1>1, <1>2, <1>4
  <2>2. /\ RegionAddr(i + 1) \in Nat /\ RegionAddr(i) <= RegionAddr(i + 1)
        /\ RegionAddr(i + 1) - RegionAddr(i) <= Between
    BY <1>1, <2>1
  <2>3. CASE beyond = {}
    <3>1. ~ (RegionAddr(i + 1) <= d)
      BY <2>1, <2>3
    <3>2. d - RegionAddr(i) <= Between
      BY <1>1, <1>2, <2>2, <3>1
    <3>3. QED
      BY <2>3, <3>2
  <2>4. CASE beyond # {}
    <3> DEFINE m == Min(beyond)
    <3>1. m \in beyond /\ \A j \in beyond : m <= j
      <4>1. beyond \in SUBSET (1 .. n)
        BY <1>1
      <4>2. QED
        BY <1>1, <2>4, <4>1, Extremes
    <3> HIDE DEF m
    <3>2. m \in 1 .. n /\ i < m /\ RegionAddr(m) <= d /\ m \in DOMAIN regions
          /\ RegionAddr(m) \in Nat
      BY <1>1, <3>1
    <3>3. i + 1 <= m
      BY <1>1, <1>2, <3>2
    <3>4. RegionAddr(i + 1) <= RegionAddr(m)
      BY <2>1, <3>2, <3>3, RegionsAscend
    <3>5. i + 1 \in beyond
      BY <1>2, <2>1, <2>2, <3>2, <3>4
    <3>6. m = i + 1
      BY <1>1, <1>2, <3>1, <3>2, <3>3, <3>5
    <3>7. RegionAddr(m) - RegionAddr(i) <= Between /\ RegionAddr(i) <= RegionAddr(m)
      BY <2>2, <3>6
    <3>8. QED
      BY <2>4, <3>7 DEF m
  <2>5. QED
    BY <2>3, <2>4
<1>5. QED
  BY <1>3, <1>4

\* From an island the next leg down goes to the region before, or to the target.
LEMMA IslandDown ==
    ASSUME text \in BranchInputs, RegionsClose(regions), TextCovered(regions),
           NEW d \in Nat, NEW i \in DOMAIN regions, d < RegionAddr(i),
           NEW beyond, beyond = {j \in DOMAIN regions : j < i /\ d < RegionAddr(j)}
    PROVE  IF beyond = {} THEN RegionAddr(i) - d <= Between
           ELSE /\ RegionAddr(i) - RegionAddr(Max(beyond)) <= Between
                /\ RegionAddr(Max(beyond)) <= RegionAddr(i)
<1> DEFINE n == Len(regions)
<1>1. /\ n \in Nat /\ DOMAIN regions = 1 .. n /\ Between \in Nat
      /\ \A j \in DOMAIN regions : RegionAddr(j) \in Nat
      /\ \A j \in DOMAIN regions : j > 1 =>
             /\ RegionAddr(j - 1) <= RegionAddr(j)
             /\ RegionAddr(j) - RegionAddr(j - 1) <= Between
      /\ 1 \in DOMAIN regions => RegionAddr(1) <= Between
  BY RegionAddrs
<1> HIDE DEF n
<1>2. i \in 1 .. n /\ RegionAddr(i) \in Nat
  BY <1>1
<1>3. CASE i = 1
  <2>1. beyond = {}
    BY <1>1, <1>3
  <2>2. RegionAddr(i) - d <= Between
    BY <1>1, <1>2, <1>3
  <2>3. QED
    BY <2>1, <2>2
<1>4. CASE i # 1
  <2>1. i - 1 \in DOMAIN regions /\ i > 1 /\ i - 1 < i
    BY <1>1, <1>2, <1>4
  <2>2. /\ RegionAddr(i - 1) \in Nat /\ RegionAddr(i - 1) <= RegionAddr(i)
        /\ RegionAddr(i) - RegionAddr(i - 1) <= Between
    BY <1>1, <2>1
  <2>3. CASE beyond = {}
    <3>1. ~ (d < RegionAddr(i - 1))
      BY <2>1, <2>3
    <3>2. RegionAddr(i) - d <= Between
      BY <1>1, <1>2, <2>2, <3>1
    <3>3. QED
      BY <2>3, <3>2
  <2>4. CASE beyond # {}
    <3> DEFINE m == Max(beyond)
    <3>1. m \in beyond /\ \A j \in beyond : j <= m
      <4>1. beyond \in SUBSET (1 .. n)
        BY <1>1
      <4>2. QED
        BY <1>1, <2>4, <4>1, Extremes
    <3> HIDE DEF m
    <3>2. m \in 1 .. n /\ m < i /\ d < RegionAddr(m) /\ m \in DOMAIN regions
          /\ RegionAddr(m) \in Nat
      BY <1>1, <3>1
    <3>3. m <= i - 1
      BY <1>1, <1>2, <3>2
    <3>4. RegionAddr(m) <= RegionAddr(i - 1)
      BY <2>1, <3>2, <3>3, RegionsAscend
    <3>5. i - 1 \in beyond
      BY <1>2, <2>1, <2>2, <3>2, <3>4
    <3>6. m = i - 1
      BY <1>1, <1>2, <3>1, <3>2, <3>3, <3>5
    <3>7. RegionAddr(i) - RegionAddr(m) <= Between /\ RegionAddr(m) <= RegionAddr(i)
      BY <2>2, <3>6
    <3>8. QED
      BY <2>4, <3>7 DEF m
  <2>5. QED
    BY <2>3, <2>4
<1>5. QED
  BY <1>3, <1>4

\* A branch and its target are in the text.
LEMMA BranchFacts ==
    ASSUME text \in BranchInputs, NEW br \in Branches
    PROVE  /\ Branch(br).to \in Int /\ Branch(br).addend \in Nat
           /\ SrcAddr(br) \in 0 .. TotalTextSize
           /\ Branch(br).addend = 0 => DstAddr(br) \in 0 .. TotalTextSize
<1> DEFINE n == Len(text.atoms)
           a == br[1]
           st == text.stubs * StubSize
<1>1. /\ n \in Nat \ {0} /\ DOMAIN text.atoms = 1 .. n /\ st \in Nat
      /\ \A b \in DOMAIN text.atoms :
            /\ Offset[b] \in Nat /\ AtomEnd(b) \in Nat /\ Offset[b] <= AtomEnd(b)
            /\ text.atoms[b].size \in Nat
            /\ text.atoms[b].branches \in Seq(BranchRecords)
      /\ TotalTextSize = AtomEnd(n) + st
  BY TextFacts
<1>2. a \in DOMAIN text.atoms /\ br[2] \in DOMAIN text.atoms[a].branches
  BY DEF Branches
<1>3. Branch(br) \in BranchRecords
  <2>1. text.atoms[a].branches \in Seq(BranchRecords)
    BY <1>1, <1>2
  <2>2. QED
    BY <1>2, <2>1 DEF Branch
<1>4. Branch(br).at \in Nat /\ Branch(br).to \in Int /\ Branch(br).addend \in Nat
  BY <1>3 DEF BranchRecords
<1>5. /\ Branch(br).at <= text.atoms[a].size
      /\ Branch(br).to \in DOMAIN text.atoms \cup {- s : s \in 1 .. text.stubs}
  BY <1>2, IslandAssumption DEF Branch
<1> HIDE DEF st, n
<1>6. \A b \in DOMAIN text.atoms : AtomEnd(b) <= TotalTextSize
  <2>1. n \in DOMAIN text.atoms
    BY <1>1
  <2>2. ASSUME NEW b \in DOMAIN text.atoms  PROVE AtomEnd(b) <= TotalTextSize
    <3>1. AtomEnd(b) <= AtomEnd(n)
      BY <1>1, <2>1, EndsAscend
    <3>2. QED
      BY <1>1, <2>1, <3>1
  <2>3. QED
    BY <2>2
<1>7. TotalTextSize \in Nat
  BY <1>1
<1>8. SrcAddr(br) \in 0 .. TotalTextSize
  <2>1. AtomEnd(a) = Offset[a] + text.atoms[a].size /\ SrcAddr(br) = Offset[a] + Branch(br).at
    BY DEF AtomEnd, SrcAddr
  <2>2. AtomEnd(a) <= TotalTextSize /\ Offset[a] \in Nat /\ text.atoms[a].size \in Nat
    BY <1>1, <1>2, <1>6
  <2> HIDE DEF a
  <2>3. QED
    BY <1>4, <1>5, <1>7, <2>1, <2>2
<1>9. Branch(br).addend = 0 => DstAddr(br) \in 0 .. TotalTextSize
  <2> SUFFICES ASSUME Branch(br).addend = 0  PROVE DstAddr(br) \in 0 .. TotalTextSize
    OBVIOUS
  <2>1. DstAddr(br) = IF Branch(br).to < 0 THEN TotalTextSize ELSE Offset[Branch(br).to] + 0
    BY DEF DstAddr, KeyAddr, Key
  <2>2. CASE Branch(br).to < 0
    BY <1>7, <2>1, <2>2
  <2>3. CASE ~ (Branch(br).to < 0)
    <3>1. text.stubs \in Nat
      BY IslandAssumption DEF TextRecords
    <3>2. \A s \in 1 .. text.stubs : - s < 0
      BY <3>1
    <3>3. Branch(br).to \in DOMAIN text.atoms
      BY <1>5, <2>3, <3>2
    <3>4. Offset[Branch(br).to] \in Nat /\ Offset[Branch(br).to] <= TotalTextSize
      BY <1>1, <1>6, <1>7, <3>3
    <3>5. QED
      BY <1>7, <2>1, <2>3, <3>4
  <2>4. QED
    BY <2>2, <2>3
<1>10. QED
  BY <1>4, <1>8, <1>9

\* A hop is to one of the regions, or to none.
LEMMA HopIsRegion ==
    ASSUME NEW n \in Nat, NEW over \in SUBSET (1 .. n), NEW i, NEW forward \in BOOLEAN
    PROVE  HopAfter(over, i, forward) \in Nat
<1> DEFINE beyond == {j \in over : IF forward THEN i < j ELSE j < i}
<1>1. beyond \in SUBSET (1 .. n)
  OBVIOUS
<1>2. HopAfter(over, i, forward) = CASE beyond = {} -> 0
          [] beyond # {} /\ forward -> Min(beyond)
          [] beyond # {} /\ ~ forward -> Max(beyond)
  BY DEF HopAfter
<1> HIDE DEF beyond
<1>3. beyond # {} => Min(beyond) \in 1 .. n /\ Max(beyond) \in 1 .. n
  BY <1>1, Extremes
<1>4. QED
  BY <1>2, <1>3

\* The hops of a branch, and of the islands made for it, are near.
LEMMA HopsAreNear ==
    ASSUME text \in BranchInputs, RegionsClose(regions), TextCovered(regions),
           NEW br \in Branches, Branch(br).addend = 0,
           NEW far, far <=> (Displacement(br) > Between \/ Displacement(br) < - Between),
           NEW forward \in BOOLEAN, forward <=> Displacement(br) > 0,
           NEW over, over = IF far THEN Crossed(br) ELSE {}
    PROVE  /\ Near(SrcAddr(br), Landing(FirstHop(over, forward), Key(br)))
           /\ \A i \in over : Near(RegionAddr(i), Landing(HopAfter(over, i, forward), Key(br)))
<1> DEFINE s == SrcAddr(br)
           d == DstAddr(br)
           n == Len(regions)
<1>1. /\ n \in Nat /\ DOMAIN regions = 1 .. n
      /\ TotalTextSize \in Nat /\ Between \in Nat
      /\ \A i \in DOMAIN regions : RegionAddr(i) \in Nat
  BY RegionAddrs
<1>2. s \in 0 .. TotalTextSize /\ d \in 0 .. TotalTextSize
  BY BranchFacts
<1>3. s \in Nat /\ d \in Nat /\ Displacement(br) = d - s
  BY <1>1, <1>2 DEF Displacement
<1>4. /\ Landing(0, Key(br)) = d
      /\ \A h : h # 0 => Landing(h, Key(br)) = RegionAddr(h)
  BY DEF Landing, DstAddr
<1>5. \A x, y \in Int : Near(x, y) <=> (x - y <= Between /\ y - x <= Between)
  BY DEF Near
<1>6. Crossed(br) = IF s < d THEN {i \in DOMAIN regions : s < RegionAddr(i) /\ RegionAddr(i) <= d}
                    ELSE {i \in DOMAIN regions : d < RegionAddr(i) /\ RegionAddr(i) <= s}
  BY DEF Crossed
<1> HIDE DEF s, d, n
<1>7. over \in SUBSET (1 .. n)
  BY <1>1, <1>6
<1>8. CASE ~ far
  <2>1. over = {}
    BY <1>8
  <2>2. FirstHop(over, forward) = 0
    BY <2>1 DEF FirstHop, HopAfter
  <2>3. Near(s, d)
    BY <1>1, <1>3, <1>5, <1>8
  <2>4. QED
    BY <1>4, <2>1, <2>2, <2>3 DEF s
<1>9. CASE far /\ s < d
  <2>1. forward /\ over = {i \in DOMAIN regions : s < RegionAddr(i) /\ RegionAddr(i) <= d}
    BY <1>3, <1>6, <1>9
  <2>2. s <= d
    BY <1>3, <1>9
  <2>3. IF over = {} THEN d - s <= Between
        ELSE RegionAddr(Min(over)) - s <= Between /\ s <= RegionAddr(Min(over))
    BY <1>2, <1>3, <2>1, <2>2, LegUp
  <2>4. over # {}
    BY <1>1, <1>3, <1>9, <2>3
  <2>5. Min(over) \in over
    BY <1>1, <1>7, <2>4, Extremes
  <2>6. Near(s, RegionAddr(Min(over)))
    <3>1. RegionAddr(Min(over)) \in Nat
      BY <1>1, <1>7, <2>5
    <3>2. QED
      BY <1>1, <1>3, <1>5, <2>3, <2>4, <3>1
  <2>7. FirstHop(over, forward) = Min(over) /\ Min(over) # 0
    <3>1. {j \in over : 0 < j} = over
      BY <1>1, <1>7
    <3>2. FirstHop(over, forward) = Min({j \in over : 0 < j})
      BY <2>1, <2>4, <3>1 DEF FirstHop, HopAfter
    <3>3. Min(over) # 0
      BY <1>1, <1>7, <2>5
    <3>4. QED
      BY <3>1, <3>2, <3>3
  <2>8. ASSUME NEW i \in over
        PROVE  Near(RegionAddr(i), Landing(HopAfter(over, i, forward), Key(br)))
    <3> DEFINE beyond == {j \in over : i < j}
    <3>1. i \in DOMAIN regions /\ RegionAddr(i) <= d /\ s < RegionAddr(i) /\ RegionAddr(i) \in Nat
      BY <1>1, <2>1
    <3>2. ASSUME NEW j \in DOMAIN regions, i < j, RegionAddr(j) <= d
          PROVE  j \in over
      <4>1. RegionAddr(i) <= RegionAddr(j)
        BY <1>1, <3>1, <3>2, RegionsAscend
      <4>2. s < RegionAddr(j)
        BY <1>1, <1>3, <3>1, <4>1
      <4>3. QED
        BY <2>1, <3>2, <4>2
    <3>3. beyond = {j \in DOMAIN regions : i < j /\ RegionAddr(j) <= d}
      BY <2>1, <3>2
    <3>4. HopAfter(over, i, forward) = IF beyond = {} THEN 0 ELSE Min(beyond)
      BY <2>1 DEF HopAfter
    <3>5. beyond # {} => Min(beyond) \in 1 .. n
      <4>1. beyond \in SUBSET (1 .. n)
        BY <1>7
      <4> HIDE DEF beyond
      <4>2. QED
        BY <1>1, <4>1, Extremes
    <3> HIDE DEF beyond
    <3>6. IF beyond = {} THEN d - RegionAddr(i) <= Between
          ELSE /\ RegionAddr(Min(beyond)) - RegionAddr(i) <= Between
               /\ RegionAddr(i) <= RegionAddr(Min(beyond))
      BY <1>2, <3>1, <3>3, IslandUp
    <3>7. CASE beyond = {}
      <4>1. Near(RegionAddr(i), d)
        BY <1>1, <1>3, <1>5, <3>1, <3>6, <3>7
      <4>2. QED
        BY <1>4, <3>4, <3>7, <4>1
    <3>8. CASE beyond # {}
      <4> DEFINE m == Min(beyond)
      <4>1. m \in 1 .. n
        BY <3>5, <3>8
      <4>2. RegionAddr(m) \in Nat /\ m # 0
        BY <1>1, <4>1
      <4>3. RegionAddr(m) - RegionAddr(i) <= Between /\ RegionAddr(i) <= RegionAddr(m)
        BY <3>6, <3>8
      <4>4. HopAfter(over, i, forward) = m
        BY <3>4, <3>8
      <4> HIDE DEF m
      <4>5. Near(RegionAddr(i), RegionAddr(m))
        BY <1>1, <1>5, <3>1, <4>2, <4>3
      <4>6. QED
        BY <1>4, <4>2, <4>4, <4>5
    <3>9. QED
      BY <3>7, <3>8
  <2>9. QED
    BY <1>4, <2>6, <2>7, <2>8 DEF s
<1>10. CASE far /\ ~ (s < d)
  <2>1. ~ forward /\ over = {i \in DOMAIN regions : d < RegionAddr(i) /\ RegionAddr(i) <= s}
    BY <1>3, <1>6, <1>10
  <2>2. d <= s
    BY <1>3, <1>10
  <2>3. over # {}
    <3> SUFFICES ASSUME over = {}  PROVE FALSE
      OBVIOUS
    <3>1. s - d <= Between
      BY <1>2, <1>3, <2>1, <2>2, LegUp
    <3>2. QED
      BY <1>1, <1>3, <1>10, <2>2, <3>1
  <2>4. s - RegionAddr(Max(over)) <= Between /\ RegionAddr(Max(over)) <= s
    BY <1>2, <1>3, <2>1, <2>2, <2>3, LegDown
  <2>5. Max(over) \in over
    BY <1>1, <1>7, <2>3, Extremes
  <2>6. Near(s, RegionAddr(Max(over)))
    <3>1. RegionAddr(Max(over)) \in Nat
      BY <1>1, <1>7, <2>5
    <3>2. QED
      BY <1>1, <1>3, <1>5, <2>4, <3>1
  <2>7. FirstHop(over, forward) = Max(over) /\ Max(over) # 0
    <3>1. {j \in over : j < n + 1} = over
      BY <1>1, <1>7
    <3>2. FirstHop(over, forward) = Max({j \in over : j < n + 1})
      BY <2>1, <2>3, <3>1 DEF FirstHop, HopAfter, n
    <3>3. Max(over) # 0
      BY <1>1, <1>7, <2>5
    <3>4. QED
      BY <3>1, <3>2, <3>3
  <2>8. ASSUME NEW i \in over
        PROVE  Near(RegionAddr(i), Landing(HopAfter(over, i, forward), Key(br)))
    <3> DEFINE beyond == {j \in over : j < i}
    <3>1. i \in DOMAIN regions /\ RegionAddr(i) <= s /\ d < RegionAddr(i) /\ RegionAddr(i) \in Nat
      BY <1>1, <2>1
    <3>2. ASSUME NEW j \in DOMAIN regions, j < i, d < RegionAddr(j)
          PROVE  j \in over
      <4>1. RegionAddr(j) <= RegionAddr(i)
        BY <1>1, <3>1, <3>2, RegionsAscend
      <4>2. RegionAddr(j) <= s
        BY <1>1, <1>3, <3>1, <4>1
      <4>3. QED
        BY <2>1, <3>2, <4>2
    <3>3. beyond = {j \in DOMAIN regions : j < i /\ d < RegionAddr(j)}
      BY <2>1, <3>2
    <3>4. HopAfter(over, i, forward) = IF beyond = {} THEN 0 ELSE Max(beyond)
      BY <2>1 DEF HopAfter
    <3>5. beyond # {} => Max(beyond) \in 1 .. n
      <4>1. beyond \in SUBSET (1 .. n)
        BY <1>7
      <4> HIDE DEF beyond
      <4>2. QED
        BY <1>1, <4>1, Extremes
    <3> HIDE DEF beyond
    <3>6. IF beyond = {} THEN RegionAddr(i) - d <= Between
          ELSE /\ RegionAddr(i) - RegionAddr(Max(beyond)) <= Between
               /\ RegionAddr(Max(beyond)) <= RegionAddr(i)
      BY <1>3, <3>1, <3>3, IslandDown
    <3>7. CASE beyond = {}
      <4>1. Near(RegionAddr(i), d)
        BY <1>1, <1>3, <1>5, <3>1, <3>6, <3>7
      <4>2. QED
        BY <1>4, <3>4, <3>7, <4>1
    <3>8. CASE beyond # {}
      <4> DEFINE m == Max(beyond)
      <4>1. m \in 1 .. n
        BY <3>5, <3>8
      <4>2. RegionAddr(m) \in Nat /\ m # 0
        BY <1>1, <4>1
      <4>3. RegionAddr(i) - RegionAddr(m) <= Between /\ RegionAddr(m) <= RegionAddr(i)
        BY <3>6, <3>8
      <4>4. HopAfter(over, i, forward) = m
        BY <3>4, <3>8
      <4> HIDE DEF m
      <4>5. Near(RegionAddr(i), RegionAddr(m))
        BY <1>1, <1>5, <3>1, <4>2, <4>3
      <4>6. QED
        BY <1>4, <4>2, <4>4, <4>5
    <3>9. QED
      BY <3>7, <3>8
  <2>9. QED
    BY <1>4, <2>6, <2>7, <2>8 DEF s
<1>11. QED
  BY <1>8, <1>9, <1>10

\* Near hops stay near while the text and its regions stay.
LEMMA SameHops ==
    ASSUME text' = text, regions' = regions
    PROVE  /\ Reasonable' <=> Reasonable
           /\ RegionsClose(regions)' <=> RegionsClose(regions)
           /\ TextCovered(regions)' <=> TextCovered(regions)
           /\ \A br : SrcAddr(br)' = SrcAddr(br) /\ Key(br)' = Key(br)
           /\ \A i : RegionAddr(i)' = RegionAddr(i)
           /\ \A x, hop, key : HopIsNear(x, hop, key)' <=> HopIsNear(x, hop, key)
<1>1. Offset' = Offset /\ TotalTextSize' = TotalTextSize
  BY DEF Offset, TotalTextSize, EndOf
<1>2. \A a : AtomEnd(a)' = AtomEnd(a)
  BY <1>1 DEF AtomEnd
<1>3. Reasonable' <=> Reasonable
  BY <1>1, <1>2 DEF Reasonable, RunStart
<1>4. RegionsClose(regions)' <=> RegionsClose(regions)
  BY <1>2 DEF RegionsClose
<1>5. TextCovered(regions)' <=> TextCovered(regions)
  BY <1>1, <1>2 DEF TextCovered, TextAfter, LastPoint
<1>6. \A br : SrcAddr(br)' = SrcAddr(br) /\ Key(br)' = Key(br)
  BY <1>1 DEF SrcAddr, Key, Branch
<1>7. \A i : RegionAddr(i)' = RegionAddr(i)
  BY <1>2 DEF RegionAddr
<1>8. \A hop, key : Landing(hop, key)' = Landing(hop, key)
  BY <1>1, <1>7 DEF Landing, KeyAddr
<1>9. \A x, hop, key : HopIsNear(x, hop, key)' <=> HopIsNear(x, hop, key)
  BY <1>8 DEF HopIsNear, Near
<1>10. QED
  BY <1>3, <1>4, <1>5, <1>6, <1>7, <1>9

\* A branch that is visited, and each island it needs, gets a near hop.
LEMMA VisitBranchStep ==
    ASSUME IslandInv, NEW br \in Branches, VisitBranch(br)
    PROVE  IslandInv'
<1> DEFINE far == Displacement(br) > Between \/ Displacement(br) < - Between
           forward == Displacement(br) > 0
           over == IF far THEN Crossed(br) ELSE {}
           made(i) == [to |-> Branch(br).to, addend |-> Branch(br).addend,
                       next |-> HopAfter(over, i, forward)]
<1>1. /\ text \in BranchInputs /\ round = "branches"
      /\ visited \in 0 .. Len(text.atoms)
      /\ UNCHANGED <<text, round, visited, regions, unable>>
  BY DEF IslandInv, VisitBranch
<1>2. /\ islands' = [i \in DOMAIN islands |->
                       IF i \in over /\ ~ HasIsland(i, Key(br)) THEN Append(islands[i], made(i))
                       ELSE islands[i]]
      /\ hops' = [b \in DOMAIN hops \cup {br} |->
                    IF b = br THEN FirstHop(over, forward) ELSE hops[b]]
  BY DEF VisitBranch
<1>3. /\ Branch(br).to \in Int /\ Branch(br).addend \in Nat
      /\ KeyAddr(Key(br)) = DstAddr(br)
      /\ Key(br) = [to |-> Branch(br).to, addend |-> Branch(br).addend]
  BY <1>1, BranchFacts DEF DstAddr, Key
<1>4. forward \in BOOLEAN
  OBVIOUS
<1>5. \A hop, i : HopIsNear(RegionAddr(i), hop, Key(br)) => HopIsNear(RegionAddr(i), hop, made(i))
  BY <1>3 DEF HopIsNear, Near, Landing, KeyAddr
<1>6. SUFFICES ASSUME Reasonable
               PROVE  /\ \A b \in DOMAIN hops' : HopIsNear(SrcAddr(b), hops'[b], Key(b))
                      /\ \A i \in DOMAIN islands' :
                            /\ islands'[i] \in Seq(IslandRecords)
                            /\ \A n \in DOMAIN islands'[i] :
                                  HopIsNear(RegionAddr(i), islands'[i][n].next, islands'[i][n])
  <2>1. /\ Reasonable' <=> Reasonable
        /\ RegionsClose(regions)' <=> RegionsClose(regions)
        /\ TextCovered(regions)' <=> TextCovered(regions)
        /\ \A b : SrcAddr(b)' = SrcAddr(b) /\ Key(b)' = Key(b)
        /\ \A i : RegionAddr(i)' = RegionAddr(i)
        /\ \A x, hop, key : HopIsNear(x, hop, key)' <=> HopIsNear(x, hop, key)
    BY <1>1, SameHops
  <2>2. DOMAIN islands' = DOMAIN islands /\ DOMAIN regions' = DOMAIN regions
    BY <1>1, <1>2
  <2>3. text' \in BranchInputs /\ round' = "branches" /\ visited' \in 0 .. Len(text'.atoms)
    BY <1>1
  <2>4. Reasonable => ~ unable' /\ RegionsClose(regions)' /\ TextCovered(regions)'
                      /\ DOMAIN islands' = DOMAIN regions'
    BY <1>1, <2>1, <2>2 DEF IslandInv
  <2>5. Offset' = Offset /\ TotalTextSize' = TotalTextSize
    BY <1>1 DEF Offset, TotalTextSize, EndOf
  <2>6. ASSUME /\ \A b \in DOMAIN hops' : HopIsNear(SrcAddr(b), hops'[b], Key(b))
               /\ \A i \in DOMAIN islands' : \A n \in DOMAIN islands'[i] :
                      HopIsNear(RegionAddr(i), islands'[i][n].next, islands'[i][n])
        PROVE  LegsNear'
    <3> DEFINE hs == hops'
               is == islands'
    <3>1. /\ \A b \in DOMAIN hs : HopIsNear(SrcAddr(b), hs[b], Key(b))
          /\ \A i \in DOMAIN is : \A n \in DOMAIN is[i] :
                HopIsNear(RegionAddr(i), is[i][n].next, is[i][n])
      BY <2>6
    <3>2. hops' = hs /\ islands' = is
      OBVIOUS
    <3> HIDE DEF hs, is
    <3>3. ASSUME NEW b \in DOMAIN hops'
          PROVE  HopIsNear(SrcAddr(b), hops[b], Key(b))'
      <4>1. HopIsNear(SrcAddr(b), hs[b], Key(b))
        BY <3>1, <3>2
      <4>2. QED
        BY Zenon, <1>1, <2>5, <3>2, <4>1
           DEF HopIsNear, Near, Landing, KeyAddr, RegionAddr, AtomEnd, SrcAddr, Key, Branch
    <3>4. ASSUME NEW i \in DOMAIN islands', NEW n \in DOMAIN islands'[i]
          PROVE  HopIsNear(RegionAddr(i), islands[i][n].next, islands[i][n])'
      <4>1. HopIsNear(RegionAddr(i), is[i][n].next, is[i][n])
        BY <3>1, <3>2
      <4>2. QED
        BY <1>1, <2>5, <3>2, <4>1
           DEF HopIsNear, Near, Landing, KeyAddr, RegionAddr, AtomEnd
    <3>5. QED
      BY <3>3, <3>4 DEF LegsNear
  <2>7. QED
    BY <2>1, <2>3, <2>4, <2>6 DEF IslandInv
<1>7. /\ RegionsClose(regions) /\ TextCovered(regions) /\ DOMAIN islands = DOMAIN regions
      /\ \A b \in DOMAIN hops : HopIsNear(SrcAddr(b), hops[b], Key(b))
      /\ \A i \in DOMAIN islands :
            /\ islands[i] \in Seq(IslandRecords)
            /\ \A n \in DOMAIN islands[i] :
                  HopIsNear(RegionAddr(i), islands[i][n].next, islands[i][n])
  BY <1>1, <1>6 DEF IslandInv, LegsNear
<1>8. Len(regions) \in Nat /\ over \in SUBSET (1 .. Len(regions))
  <2>1. Len(regions) \in Nat /\ DOMAIN regions = 1 .. Len(regions)
    BY <1>1, <1>7, RegionAddrs
  <2>2. Crossed(br) \subseteq DOMAIN regions
    BY DEF Crossed
  <2>3. QED
    BY <2>1, <2>2
<1>9. /\ HopIsNear(SrcAddr(br), FirstHop(over, forward), Key(br))
      /\ \A i \in over : HopIsNear(RegionAddr(i), HopAfter(over, i, forward), Key(br))
  <2>1. CASE Branch(br).addend = 0
    <3>1. far <=> (Displacement(br) > Between \/ Displacement(br) < - Between)
      OBVIOUS
    <3>2. forward <=> Displacement(br) > 0
      OBVIOUS
    <3>3. over = IF far THEN Crossed(br) ELSE {}
      OBVIOUS
    <3> HIDE DEF over, far, forward
    <3>4. /\ Near(SrcAddr(br), Landing(FirstHop(over, forward), Key(br)))
          /\ \A i \in over : Near(RegionAddr(i), Landing(HopAfter(over, i, forward), Key(br)))
      BY <1>1, <1>4, <1>7, <2>1, <3>1, <3>2, <3>3, HopsAreNear
    <3>5. QED
      BY <3>4 DEF HopIsNear
  <2>2. CASE Branch(br).addend # 0
    BY <1>3, <2>2 DEF HopIsNear
  <2>3. QED
    BY <2>1, <2>2
<1>10. \A i \in over : made(i) \in IslandRecords /\ made(i).next = HopAfter(over, i, forward)
  <2>1. \A i \in over : HopAfter(over, i, forward) \in Nat
    <3> HIDE DEF over, forward
    <3>1. QED
      BY <1>4, <1>8, HopIsRegion
  <2>2. QED
    BY <1>3, <2>1 DEF IslandRecords
<1>11. \A i \in over : HopIsNear(RegionAddr(i), made(i).next, made(i))
  BY <1>5, <1>9, <1>10
<1> HIDE DEF over, far, forward, made
<1>12. \A b \in DOMAIN hops' : HopIsNear(SrcAddr(b), hops'[b], Key(b))
  BY <1>2, <1>7, <1>9
<1>13. ASSUME NEW i \in DOMAIN islands'
       PROVE  /\ islands'[i] \in Seq(IslandRecords)
              /\ \A n \in DOMAIN islands'[i] :
                    HopIsNear(RegionAddr(i), islands'[i][n].next, islands'[i][n])
  <2>1. i \in DOMAIN islands /\ islands[i] \in Seq(IslandRecords)
    BY <1>2, <1>7
  <2>2. CASE i \in over /\ ~ HasIsland(i, Key(br))
    <3>1. islands'[i] = Append(islands[i], made(i)) /\ made(i) \in IslandRecords
      BY <1>2, <1>10, <2>1, <2>2
    <3> DEFINE D == IslandRecords
               q == islands[i]
               x == made(i)
    <3>2. q \in Seq(D) /\ x \in D
      BY <2>1, <3>1
    <3> HIDE DEF D, q, x
    <3>3. /\ Append(q, x) \in Seq(D)
          /\ \A n \in DOMAIN Append(q, x) :
                Append(q, x)[n] = x \/ (n \in DOMAIN q /\ Append(q, x)[n] = q[n])
      BY <3>2
    <3>4. \A n \in DOMAIN q : HopIsNear(RegionAddr(i), q[n].next, q[n])
      BY <1>7, <2>1 DEF q
    <3>5. HopIsNear(RegionAddr(i), x.next, x)
      BY <1>11, <2>2 DEF x
    <3>6. \A n \in DOMAIN Append(q, x) :
              HopIsNear(RegionAddr(i), Append(q, x)[n].next, Append(q, x)[n])
      BY <3>3, <3>4, <3>5
    <3>7. islands'[i] = Append(q, x)
      BY <3>1 DEF q, x
    <3>8. QED
      BY <3>3, <3>6, <3>7 DEF D
  <2>3. CASE ~ (i \in over /\ ~ HasIsland(i, Key(br)))
    BY <1>2, <1>7, <2>1, <2>3
  <2>4. QED
    BY <2>2, <2>3
<1>14. QED
  BY <1>12, <1>13

LEMMA IslandInvInit == IslandInit => IslandInv
<1> SUFFICES ASSUME IslandInit  PROVE IslandInv
  OBVIOUS
<1>1. /\ text \in BranchInputs /\ round \in {"regions", "done"}
      /\ visited = 0 /\ regions = <<>> /\ regionEnd = 0 /\ point = 0
      /\ islands = <<>> /\ hops = <<>> /\ unable = FALSE
  BY DEF IslandInit
<1>2. visited \in 0 .. Len(text.atoms)
  BY <1>1, TextFacts
<1>3. RegionsClose(regions)
  BY <1>1 DEF RegionsClose
<1>4. LoopInv
  BY <1>1 DEF LoopInv, LastPoint, TextAfter, AllFollowOn
<1>5. DOMAIN hops = {} /\ DOMAIN islands = {}
  BY <1>1
<1>6. QED
  BY <1>1, <1>2, <1>3, <1>4, <1>5 DEF IslandInv, LegsNear

LEMMA IslandInvStep == IslandInv /\ [IslandNext]_islandVars => IslandInv'
<1> SUFFICES ASSUME IslandInv, [IslandNext]_islandVars  PROVE IslandInv'
  OBVIOUS
<1>1. CASE VisitAtom
  BY <1>1, VisitAtomStep
<1>2. CASE EndRegions
  BY <1>2, EndRegionsStep
<1>3. ASSUME NEW br \in Branches, VisitBranch(br)  PROVE IslandInv'
  BY <1>3, VisitBranchStep
<1>4. CASE \/ InsertIslands
           \/ UNCHANGED islandVars
  <2>1. /\ UNCHANGED <<text, visited, regions, regionEnd, point, islands, hops, unable>>
        /\ round' \in {"done", round}
    BY <1>4 DEF InsertIslands, islandVars
  <2>2. LoopInv' <=> LoopInv
    BY <2>1 DEF LoopInv, LastPoint, TextAfter, AllFollowOn, AtomEnd, Offset
  <2>3. QED
    BY <2>1, <2>2, SameHops DEF IslandInv, LegsNear
<1>5. QED
  BY <1>1, <1>2, <1>3, <1>4 DEF IslandNext, IslandsDone

\* Whatever the text and the distances, a place is found for each region that
\* makeIslandsForSection() needs, and each leg of a branch over them is at most
\* kBetweenRegions long.
THEOREM LegsStayShort == IslandSpec => []LegsAreShort
<1>1. IslandInv => LegsAreShort
  BY DEF IslandInv, LegsNear, LegsAreShort, HopIsNear, Key
<1>2. QED
  BY <1>1, IslandInvInit, IslandInvStep, PTL DEF IslandSpec

------------------------------------------------------------------------------
(***************************************************************************)
(* The list with the islands.                                              *)
(***************************************************************************)
ListElements == [atom : DOMAIN text.atoms] \cup [region : DOMAIN regions, place : Nat]

\* The atom an element of the list is, or is behind
AtomAt(e) == IF IsIsland(e) THEN regions[e.region] ELSE e.atom

Follows(e, f) == IF IsIsland(f) THEN AtomAt(f) = AtomAt(e) ELSE f.atom = AtomAt(e) + 1

\* The atoms up to some atom, in order, the islands of each region behind its
\* atom.
Laid(l, a) ==
    /\ l \in Seq(ListElements)
    /\ a = 0 => l = <<>>
    /\ a # 0 => l # <<>> /\ l[1] = [atom |-> 1] /\ AtomAt(l[Len(l)]) = a
    /\ \A n \in DOMAIN l : n > 1 => Follows(l[n - 1], l[n])
    /\ \A b \in 1 .. a : \E n \in DOMAIN l : l[n] = [atom |-> b]
    /\ \A i \in DOMAIN regions : regions[i] <= a =>
          \A k \in DOMAIN islands[i] : \E n \in DOMAIN l : l[n] = [region |-> i, place |-> k]

\* The islands behind an atom
IslandsBehind(a) ==
    LET after == {i \in DOMAIN regions : regions[i] = a}
    IN  IF after = {} THEN <<>>
        ELSE LET i == CHOOSE i \in after : TRUE
             IN  [n \in DOMAIN islands[i] |-> [region |-> i, place |-> n]]

LEMMA ElementFacts ==
    /\ \A a \in DOMAIN text.atoms :
          /\ [atom |-> a] \in ListElements /\ ~ IsIsland([atom |-> a])
          /\ AtomAt([atom |-> a]) = a
    /\ \A i \in DOMAIN regions, k \in Nat :
          /\ [region |-> i, place |-> k] \in ListElements
          /\ IsIsland([region |-> i, place |-> k])
          /\ AtomAt([region |-> i, place |-> k]) = regions[i]
<1>1. \A a : ~ IsIsland([atom |-> a])
  BY DEF IsIsland
<1>2. \A i, k : IsIsland([region |-> i, place |-> k])
  BY DEF IsIsland
<1>3. QED
  BY <1>1, <1>2 DEF ListElements, AtomAt

\* A sequence made of two and an element between
LEMMA ThreeParts ==
    ASSUME NEW E, NEW l \in Seq(E), NEW e \in E, NEW p \in Seq(E)
    PROVE  /\ l \o <<e>> \o p \in Seq(E)
           /\ Len(l \o <<e>> \o p) = Len(l) + 1 + Len(p)
           /\ \A n \in 1 .. Len(l) : (l \o <<e>> \o p)[n] = l[n]
           /\ (l \o <<e>> \o p)[Len(l) + 1] = e
           /\ \A n \in 1 .. Len(p) : (l \o <<e>> \o p)[Len(l) + 1 + n] = p[n]
<1> DEFINE q == l \o <<e>>
<1>1. q \in Seq(E) /\ Len(q) = Len(l) + 1 /\ q[Len(l) + 1] = e
      /\ \A n \in 1 .. Len(l) : q[n] = l[n]
  OBVIOUS
<1> HIDE DEF q
<1>2. /\ q \o p \in Seq(E) /\ Len(q \o p) = Len(q) + Len(p)
      /\ \A n \in 1 .. Len(q) : (q \o p)[n] = q[n]
      /\ \A n \in 1 .. Len(p) : (q \o p)[Len(q) + n] = p[n]
  <2>1. q \in Seq(E) /\ p \in Seq(E)
    BY <1>1
  <2>2. q \o p \in Seq(E)
    BY <2>1
  <2>3. Len(q \o p) = Len(q) + Len(p)
    BY <2>1
  <2>4. \A n \in 1 .. Len(q) : (q \o p)[n] = q[n]
    BY <2>1
  <2>5. \A n \in 1 .. Len(p) : (q \o p)[Len(q) + n] = p[n]
    BY <2>1
  <2>6. QED
    BY <2>2, <2>3, <2>4, <2>5
<1>3. Len(l) \in Nat /\ Len(p) \in Nat
  OBVIOUS
<1>4. QED
  BY <1>1, <1>2, <1>3 DEF q

\* No two regions are behind the same atom.
LEMMA RegionsApart ==
    ASSUME text \in BranchInputs, RegionsClose(regions),
           NEW i \in DOMAIN regions, NEW j \in DOMAIN regions, i < j
    PROVE  regions[i] < regions[j]
<1> DEFINE D == DOMAIN text.atoms
           wrong == {k \in DOMAIN regions : i < k /\ ~ (regions[i] < regions[k])}
<1>1. regions \in Seq(D)
  BY DEF RegionsClose
<1>10. \A a \in D : a \in Nat
  BY TextFacts
<1> HIDE DEF D
<1>2. Len(regions) \in Nat /\ DOMAIN regions = 1 .. Len(regions)
      /\ \A k \in DOMAIN regions : regions[k] \in Nat
  BY <1>1, <1>10
<1>3. \A k \in DOMAIN regions : k > 1 => regions[k - 1] < regions[k]
  BY DEF RegionsClose
<1>4. SUFFICES ASSUME wrong # {}  PROVE FALSE
  OBVIOUS
<1>5. PICK k \in wrong : \A m \in wrong : k <= m
  <2>1. wrong \in SUBSET Nat
    BY <1>2
  <2> HIDE DEF wrong
  <2>2. QED
    BY <1>4, <2>1, LeastNumber
<1>6. k \in DOMAIN regions /\ i < k /\ ~ (regions[i] < regions[k])
  OBVIOUS
<1>7. k - 1 \in DOMAIN regions /\ k > 1 /\ ~ (k <= k - 1) /\ (i = k - 1 \/ i < k - 1)
  BY <1>2, <1>6
<1>8. i = k - 1 \/ regions[i] < regions[k - 1]
  BY <1>5, <1>7
<1>9. QED
  BY <1>2, <1>3, <1>6, <1>7, <1>8

\* The islands of the one region that is behind an atom
LEMMA IslandsBehindFacts ==
    ASSUME text \in BranchInputs, RegionsClose(regions), DOMAIN islands = DOMAIN regions,
           \A i \in DOMAIN islands : islands[i] \in Seq(IslandRecords),
           NEW a \in DOMAIN text.atoms
    PROVE  /\ IslandsBehind(a) \in Seq(ListElements)
           /\ \A n \in DOMAIN IslandsBehind(a) :
                 IsIsland(IslandsBehind(a)[n]) /\ AtomAt(IslandsBehind(a)[n]) = a
           /\ \A i \in DOMAIN regions : regions[i] = a =>
                 \A k \in DOMAIN islands[i] :
                    /\ k \in DOMAIN IslandsBehind(a)
                    /\ IslandsBehind(a)[k] = [region |-> i, place |-> k]
<1> DEFINE after == {i \in DOMAIN regions : regions[i] = a}
           D == ListElements
<1>1. CASE after = {}
  <2>1. IslandsBehind(a) = <<>>
    BY <1>1 DEF IslandsBehind
  <2>2. \A i \in DOMAIN regions : regions[i] # a
    BY <1>1
  <2>3. DOMAIN IslandsBehind(a) = {}
    BY <2>1
  <2> HIDE DEF D, after
  <2>4. IslandsBehind(a) \in Seq(D)
    BY <2>1
  <2>5. QED
    BY <2>2, <2>3, <2>4 DEF D
<1>2. CASE after # {}
  <2> DEFINE i == CHOOSE i \in after : TRUE
             K == Len(islands[i])
             p == [n \in DOMAIN islands[i] |-> [region |-> i, place |-> n]]
  <2>1. IslandsBehind(a) = p
    BY <1>2 DEF IslandsBehind
  <2>2. i \in after
    BY <1>2
  <2> HIDE DEF i
  <2>3. i \in DOMAIN regions /\ regions[i] = a /\ islands[i] \in Seq(IslandRecords)
    BY <2>2
  <2>4. K \in Nat /\ DOMAIN islands[i] = 1 .. K
    <3> DEFINE R == IslandRecords
    <3>1. islands[i] \in Seq(R)
      BY <2>3
    <3> HIDE DEF R
    <3>2. QED
      BY <3>1
  <2>5. \A n \in 1 .. K : [region |-> i, place |-> n] \in D
                          /\ IsIsland([region |-> i, place |-> n])
                          /\ AtomAt([region |-> i, place |-> n]) = a
    <3>1. \A n \in 1 .. K : n \in Nat
      BY <2>4
    <3>2. QED
      BY <2>3, <3>1, ElementFacts
  <2>6. ASSUME NEW j \in DOMAIN regions, regions[j] = a  PROVE j = i
    <3>1. Len(regions) \in Nat /\ DOMAIN regions = 1 .. Len(regions)
      <4> DEFINE T == DOMAIN text.atoms
      <4>1. regions \in Seq(T)
        BY DEF RegionsClose
      <4> HIDE DEF T
      <4>2. QED
        BY <4>1
    <3>2. a \in Nat
      BY TextFacts
    <3>3. ~ (i < j) /\ ~ (j < i)
      BY <2>3, <2>6, <3>2, RegionsApart
    <3>4. QED
      BY <2>3, <3>1, <3>3
  <2> HIDE DEF D, K, after
  <2>7. p \in Seq(D) /\ DOMAIN p = 1 .. K /\ \A n \in 1 .. K : p[n] = [region |-> i, place |-> n]
    BY <2>4, <2>5
  <2> HIDE DEF p
  <2>8. \A j \in DOMAIN regions : regions[j] = a =>
            \A k \in DOMAIN islands[j] : k \in DOMAIN p /\ p[k] = [region |-> j, place |-> k]
    BY <2>4, <2>6, <2>7
  <2>9. \A n \in DOMAIN p : IsIsland(p[n]) /\ AtomAt(p[n]) = a
    BY <2>5, <2>7
  <2>10. QED
    BY <2>1, <2>7, <2>8, <2>9 DEF D
<1>3. QED
  BY <1>1, <1>2

\* An atom and the islands behind it added to a list
LEMMA LaidStep ==
    ASSUME text \in BranchInputs, RegionsClose(regions), DOMAIN islands = DOMAIN regions,
           \A i \in DOMAIN islands : islands[i] \in Seq(IslandRecords),
           NEW a \in DOMAIN text.atoms, NEW l, Laid(l, a - 1)
    PROVE  Laid(l \o <<[atom |-> a]>> \o IslandsBehind(a), a)
<1> DEFINE E == ListElements
           e == [atom |-> a]
           p == IslandsBehind(a)
           q == l \o <<e>> \o p
           L == Len(l)
           K == Len(p)
<1>1. /\ Len(text.atoms) \in Nat \ {0} /\ DOMAIN text.atoms = 1 .. Len(text.atoms)
      /\ a \in Nat /\ a # 0
  BY TextFacts
<1>2. l \in Seq(E) /\ e \in E /\ p \in Seq(E)
  BY ElementFacts, IslandsBehindFacts DEF Laid
<1>3. ~ IsIsland(e) /\ AtomAt(e) = a /\ e.atom = a
  BY ElementFacts
<1>4. /\ \A n \in DOMAIN p : IsIsland(p[n]) /\ AtomAt(p[n]) = a
      /\ \A i \in DOMAIN regions : regions[i] = a => \A k \in DOMAIN islands[i] :
            k \in DOMAIN p /\ p[k] = [region |-> i, place |-> k]
  BY IslandsBehindFacts
<1>5. /\ a - 1 = 0 => l = <<>>
      /\ a - 1 # 0 => l # <<>> /\ l[1] = [atom |-> 1] /\ AtomAt(l[Len(l)]) = a - 1
      /\ \A n \in DOMAIN l : n > 1 => Follows(l[n - 1], l[n])
      /\ \A b \in 1 .. (a - 1) : \E n \in DOMAIN l : l[n] = [atom |-> b]
      /\ \A i \in DOMAIN regions : regions[i] <= a - 1 =>
            \A k \in DOMAIN islands[i] : \E n \in DOMAIN l : l[n] = [region |-> i, place |-> k]
  BY DEF Laid
<1>6. \A i \in DOMAIN regions : regions[i] \in Nat
  <2> DEFINE D == DOMAIN text.atoms
  <2>1. regions \in Seq(D) /\ \A b \in D : b \in Nat
    BY <1>1 DEF RegionsClose
  <2> HIDE DEF D
  <2>2. QED
    BY <2>1
<1> HIDE DEF E, e, p
<1>7. /\ q \in Seq(E) /\ Len(q) = L + 1 + K
      /\ \A n \in 1 .. L : q[n] = l[n]
      /\ q[L + 1] = e
      /\ \A n \in 1 .. K : q[L + 1 + n] = p[n]
  BY <1>2, ThreeParts
<1>8. L \in Nat /\ K \in Nat /\ DOMAIN l = 1 .. L /\ DOMAIN p = 1 .. K
      /\ DOMAIN q = 1 .. (L + 1 + K) /\ (l = <<>> <=> L = 0)
  BY <1>2, <1>7
<1> HIDE DEF q, L, K
<1>9. q # <<>> /\ q[1] = [atom |-> 1]
  <2>1. CASE L = 0
    <3>1. q[1] = e /\ a = 1
      BY <1>1, <1>5, <1>7, <1>8, <2>1
    <3>2. 1 \in DOMAIN q
      BY <1>8
    <3>3. q # <<>>
      BY <3>2
    <3>4. QED
      BY <3>1, <3>3 DEF e
  <2>2. CASE L # 0
    <3>1. 1 \in 1 .. L /\ l # <<>>
      BY <1>8, <2>2
    <3>2. a - 1 # 0
      BY <1>5, <3>1
    <3>3. 1 \in DOMAIN q
      BY <1>8
    <3>4. q # <<>>
      BY <3>3
    <3>5. QED
      BY <1>5, <1>7, <3>1, <3>2, <3>4
  <2>3. QED
    BY <2>1, <2>2
<1>10. \A n \in L + 1 .. L + 1 + K : AtomAt(q[n]) = a
  <2> SUFFICES ASSUME NEW n \in L + 1 .. L + 1 + K  PROVE AtomAt(q[n]) = a
    OBVIOUS
  <2>1. CASE n = L + 1
    BY <1>3, <1>7, <2>1
  <2>2. CASE n # L + 1
    <3>1. n - (L + 1) \in 1 .. K /\ L + 1 + (n - (L + 1)) = n
      BY <1>8, <2>2
    <3>2. q[n] = p[n - (L + 1)]
      BY <1>7, <3>1
    <3>3. QED
      BY <1>4, <1>8, <3>1, <3>2
  <2>3. QED
    BY <2>1, <2>2
<1>11. AtomAt(q[Len(q)]) = a
  BY <1>7, <1>8, <1>10
<1>12. ASSUME NEW n \in DOMAIN q, n > 1  PROVE Follows(q[n - 1], q[n])
  <2>1. CASE n \in 1 .. L
    <3>1. n - 1 \in 1 .. L /\ q[n] = l[n] /\ q[n - 1] = l[n - 1]
      BY <1>7, <1>8, <1>12, <2>1
    <3>2. QED
      BY <1>5, <1>8, <1>12, <2>1, <3>1
  <2>2. CASE n = L + 1
    <3>1. q[n] = e /\ L \in 1 .. L /\ n - 1 = L /\ l # <<>>
      BY <1>7, <1>8, <1>12, <2>2
    <3>2. q[n - 1] = l[L]
      BY <1>7, <3>1
    <3>3. AtomAt(l[L]) = a - 1
      BY <1>5, <3>1 DEF L
    <3>4. a = AtomAt(l[L]) + 1
      BY <1>1, <3>3
    <3>5. QED
      BY <1>3, <3>1, <3>2, <3>4 DEF Follows
  <2>3. CASE n \notin 1 .. L /\ n # L + 1
    <3>1. /\ n - (L + 1) \in 1 .. K /\ L + 1 + (n - (L + 1)) = n
          /\ n - 1 \in L + 1 .. L + 1 + K /\ n \in L + 1 .. L + 1 + K
      <4>1. L \in Nat /\ K \in Nat /\ n \in 1 .. (L + 1 + K)
        BY <1>8
      <4>2. n \in Nat /\ L + 1 < n /\ n <= L + 1 + K
        BY <2>3, <4>1
      <4>3. QED
        BY <4>1, <4>2
    <3>2. q[n] = p[n - (L + 1)]
      BY <1>7, <3>1
    <3>3. IsIsland(q[n])
      BY <1>4, <1>8, <3>1, <3>2
    <3>4. AtomAt(q[n]) = AtomAt(q[n - 1])
      BY <1>10, <3>1
    <3>5. QED
      BY <3>3, <3>4 DEF Follows
  <2>4. QED
    BY <2>1, <2>2, <2>3
<1>13. ASSUME NEW b \in 1 .. a  PROVE \E n \in DOMAIN q : q[n] = [atom |-> b]
  <2>1. CASE b = a
    BY <1>7, <1>8, <2>1 DEF e
  <2>2. CASE b # a
    <3>1. b \in 1 .. (a - 1)
      BY <1>1, <2>2
    <3>2. PICK n \in DOMAIN l : l[n] = [atom |-> b]
      BY <1>5, <3>1
    <3>3. n \in DOMAIN q /\ q[n] = l[n]
      BY <1>7, <1>8
    <3>4. QED
      BY <3>2, <3>3
  <2>3. QED
    BY <2>1, <2>2
<1>14. ASSUME NEW i \in DOMAIN regions, regions[i] <= a, NEW k \in DOMAIN islands[i]
       PROVE  \E n \in DOMAIN q : q[n] = [region |-> i, place |-> k]
  <2>1. CASE regions[i] = a
    <3>1. k \in DOMAIN p /\ p[k] = [region |-> i, place |-> k]
      BY <1>4, <2>1
    <3>2. L + 1 + k \in DOMAIN q /\ q[L + 1 + k] = p[k]
      BY <1>7, <1>8, <3>1
    <3>3. QED
      BY <3>1, <3>2
  <2>2. CASE regions[i] # a
    <3>1. regions[i] <= a - 1
      BY <1>1, <1>6, <1>14, <2>2
    <3>2. PICK n \in DOMAIN l : l[n] = [region |-> i, place |-> k]
      BY <1>5, <3>1
    <3>3. n \in DOMAIN q /\ q[n] = l[n]
      BY <1>7, <1>8
    <3>4. QED
      BY <3>2, <3>3
  <2>3. QED
    BY <2>1, <2>2
<1>15. Laid(q, a)
  BY <1>1, <1>7, <1>9, <1>11, <1>12, <1>13, <1>14 DEF Laid, E
<1>16. QED
  BY <1>15 DEF q, e, p

\* What the pass makes is the atoms in order with the islands behind them.
LEMMA WithIslandsLaid ==
    ASSUME text \in BranchInputs, RegionsClose(regions), DOMAIN islands = DOMAIN regions,
           \A i \in DOMAIN islands : islands[i] \in Seq(IslandRecords)
    PROVE  Laid(WithIslands, Len(text.atoms))
<1> DEFINE N == Len(text.atoms)
           S == Seq(ListElements)
           Solves(f) == f = [a \in 0 .. N |->
               IF a = 0 THEN <<>> ELSE f[a - 1] \o <<[atom |-> a]>> \o IslandsBehind(a)]
           step == [x \in (1 .. N) \X S |-> x[2] \o <<[atom |-> x[1]]>> \o IslandsBehind(x[1])]
           upto == CHOOSE f : Solves(f)
<1>1. N \in Nat \ {0} /\ DOMAIN text.atoms = 1 .. N
  BY TextFacts
<1>2. WithIslands = upto[N]
  BY DEF WithIslands, IslandsBehind
<1>3. \E f : Solves(f)
  <2>1. <<>> \in S
    <3> DEFINE E == ListElements
    <3>1. <<>> \in Seq(E)
      <4> HIDE DEF E
      <4>1. QED
        OBVIOUS
    <3>2. QED
      BY <3>1
  <2>2. ASSUME NEW a \in 1 .. N, NEW s \in S
        PROVE  s \o <<[atom |-> a]>> \o IslandsBehind(a) \in S
    <3> DEFINE E == ListElements
               p == IslandsBehind(a)
               e == [atom |-> a]
    <3>1. s \in Seq(E) /\ e \in E /\ p \in Seq(E)
      BY <1>1, ElementFacts, IslandsBehindFacts
    <3> HIDE DEF E, e, p
    <3>2. s \o <<e>> \o p \in Seq(E)
      BY <3>1, ThreeParts
    <3>3. QED
      BY <3>2 DEF E, e, p
  <2>3. IsStep(step, N, S)
    <3> HIDE DEF S, N
    <3>1. QED
      BY <2>2 DEF IsStep
  <2>4. \A a \in 1 .. N, s \in S :
            step[<<a, s>>] = s \o <<[atom |-> a]>> \o IslandsBehind(a)
    <3> HIDE DEF S, N
    <3>1. QED
      OBVIOUS
  <2> HIDE DEF S, N, step
  <2>5. PICK f : IsSolution(f, N, S, <<>>, step)
    <3> DEFINE z == <<>>
    <3>1. N \in Nat /\ z \in S
      BY <1>1, <2>1
    <3> HIDE DEF z
    <3>2. \E f : IsSolution(f, N, S, z, step)
      BY <2>3, <3>1, RecursionSolved
    <3>3. QED
      BY <3>2 DEF z
  <2>6. ASSUME NEW a \in 0 .. N
        PROVE  f[a] = IF a = 0 THEN <<>> ELSE f[a - 1] \o <<[atom |-> a]>> \o IslandsBehind(a)
    <3>1. a # 0 => a \in 1 .. N /\ a - 1 \in 0 .. N
      BY <1>1
    <3>4. a # 0 => f[a - 1] \in S
      BY <2>5, <3>1 DEF IsSolution
    <3>2. f[a] = IF a = 0 THEN <<>> ELSE step[<<a, f[a - 1]>>]
      BY <2>5 DEF IsSolution
    <3>3. QED
      BY <2>4, <3>1, <3>2, <3>4
  <2>7. f = [a \in 0 .. N |-> f[a]]
    BY <2>5 DEF IsSolution
  <2>8. Solves(f)
    BY <2>6, <2>7
  <2> HIDE DEF Solves
  <2>9. QED
    BY <2>8
<1>4. Solves(upto)
  <2> HIDE DEF Solves
  <2>1. QED
    BY <1>3
<1>5. \A a \in 0 .. N :
          upto[a] = IF a = 0 THEN <<>> ELSE upto[a - 1] \o <<[atom |-> a]>> \o IslandsBehind(a)
  <2> HIDE DEF upto, N
  <2>1. QED
    BY <1>4
<1> HIDE DEF upto, N, S, Solves, step
<1> DEFINE wrong == {a \in 0 .. N : ~ Laid(upto[a], a)}
<1>6. wrong = {}
  <2> SUFFICES ASSUME wrong # {}  PROVE FALSE
    OBVIOUS
  <2>1. PICK a \in wrong : \A k \in wrong : a <= k
    <3>1. wrong \in SUBSET Nat
      BY <1>1
    <3> HIDE DEF wrong
    <3>2. QED
      BY <3>1, LeastNumber
  <2>2. a \in 0 .. N /\ ~ Laid(upto[a], a)
    OBVIOUS
  <2>3. a # 0
    <3> SUFFICES ASSUME a = 0  PROVE FALSE
      OBVIOUS
    <3>1. upto[a] = <<>>
      BY <1>5, <2>2
    <3>2. Laid(<<>>, 0)
      <4> DEFINE E == ListElements
      <4>1. <<>> \in Seq(E)
        <5> HIDE DEF E
        <5>1. QED
          OBVIOUS
      <4>2. \A i \in DOMAIN regions : ~ (regions[i] <= 0)
        <5> DEFINE D == DOMAIN text.atoms
        <5>1. regions \in Seq(D) /\ \A b \in D : b \in Nat /\ b # 0
          BY <1>1 DEF RegionsClose
        <5> HIDE DEF D
        <5>2. QED
          BY <5>1
      <4>3. QED
        BY <4>1, <4>2 DEF Laid
    <3>3. QED
      BY <2>2, <3>1, <3>2
  <2>4. a - 1 \in 0 .. N /\ ~ (a <= a - 1) /\ a \in DOMAIN text.atoms
    BY <1>1, <2>2, <2>3
  <2>5. a - 1 \notin wrong
    <3> HIDE DEF wrong
    <3>1. QED
      BY <2>1, <2>4
  <2>6. Laid(upto[a - 1], a - 1)
    BY <2>4, <2>5
  <2>7. Laid(upto[a - 1] \o <<[atom |-> a]>> \o IslandsBehind(a), a)
    BY <2>4, <2>6, LaidStep
  <2>8. QED
    BY <1>5, <2>2, <2>3, <2>7
<1>7. Laid(upto[N], N)
  BY <1>1, <1>6
<1>8. QED
  BY <1>2, <1>7 DEF N

------------------------------------------------------------------------------
(***************************************************************************)
(* Where things are with the islands among them.                           *)
(***************************************************************************)
\* What is in the list has a size and an alignment.
LEMMA PlacedFacts ==
    ASSUME text \in BranchInputs, list \in Seq(ListElements)
    PROVE  /\ Len(list) \in Nat /\ DOMAIN list = 1 .. Len(list)
           /\ DOMAIN Placed = DOMAIN list /\ Len(Placed) = Len(list)
           /\ \A n \in DOMAIN list :
                 /\ list[n] \in ListElements
                 /\ Placed[n].size \in Nat /\ Placed[n].align \in Nat \ {0}
                 /\ Placed[n].modulus \in Nat
                 /\ ~ IsIsland(list[n]) =>
                       /\ list[n].atom \in DOMAIN text.atoms
                       /\ Placed[n].size = text.atoms[list[n].atom].size
                       /\ Placed[n].align = text.atoms[list[n].atom].align
                       /\ Placed[n].modulus = text.atoms[list[n].atom].modulus
                 /\ IsIsland(list[n]) => list[n].region \in DOMAIN regions
<1> DEFINE E == ListElements
<1>1. list \in Seq(E)
  OBVIOUS
<1>2. /\ \A e \in E : ~ IsIsland(e) => e.atom \in DOMAIN text.atoms
      /\ \A e \in E : IsIsland(e) => e.region \in DOMAIN regions
  BY DEF ListElements, IsIsland
<1> HIDE DEF E
<1>3. /\ Len(list) \in Nat /\ DOMAIN list = 1 .. Len(list)
      /\ \A n \in DOMAIN list : list[n] \in E
  BY <1>1
<1>4. DOMAIN Placed = DOMAIN list
  BY DEF Placed
<1>5. Len(Placed) = Len(list)
  BY <1>3, <1>4
<1>6. \A a \in DOMAIN text.atoms :
         text.atoms[a].size \in Nat /\ text.atoms[a].align \in Nat \ {0}
         /\ text.atoms[a].modulus \in Nat
  <2>1. \A a \in DOMAIN text.atoms : text.atoms[a] \in CodeRecords
    <3> DEFINE C == CodeRecords
    <3>1. text.atoms \in Seq(C)
      BY TextFacts
    <3> HIDE DEF C
    <3>2. \A a \in DOMAIN text.atoms : text.atoms[a] \in C
      BY <3>1
    <3>3. QED
      BY <3>2 DEF C
  <2>2. \A x \in CodeRecords : x.size \in Nat /\ x.align \in Nat \ {0} /\ x.modulus \in Nat
    BY DEF CodeRecords
  <2>3. QED
    BY <2>1, <2>2
<1>7. IslandSize \in Nat \ {0}
  BY IslandAssumption
<1>8. ASSUME NEW n \in DOMAIN list
      PROVE  /\ Placed[n].size \in Nat /\ Placed[n].align \in Nat \ {0}
             /\ Placed[n].modulus \in Nat
             /\ ~ IsIsland(list[n]) =>
                   /\ Placed[n].size = text.atoms[list[n].atom].size
                   /\ Placed[n].align = text.atoms[list[n].atom].align
                   /\ Placed[n].modulus = text.atoms[list[n].atom].modulus
  <2>1. CASE IsIsland(list[n])
    <3>1. Placed[n] = [size |-> IslandSize, align |-> IslandSize, modulus |-> 0]
      BY <2>1 DEF Placed
    <3>2. QED
      BY <1>7, <2>1, <3>1
  <2>2. CASE ~ IsIsland(list[n])
    <3> DEFINE a == list[n].atom
    <3>1. Placed[n] = [size |-> text.atoms[a].size, align |-> text.atoms[a].align,
                       modulus |-> text.atoms[a].modulus]
      BY <2>2 DEF Placed
    <3>2. a \in DOMAIN text.atoms
      BY <1>2, <1>3, <2>2
    <3> HIDE DEF a
    <3>3. /\ Placed[n].size = text.atoms[a].size /\ Placed[n].align = text.atoms[a].align
          /\ Placed[n].modulus = text.atoms[a].modulus
      BY <3>1
    <3>4. QED
      BY <1>6, <2>2, <3>2, <3>3 DEF a
  <2>3. QED
    BY <2>1, <2>2
<1>9. \A n \in DOMAIN list :
         /\ list[n] \in ListElements
         /\ ~ IsIsland(list[n]) => list[n].atom \in DOMAIN text.atoms
         /\ IsIsland(list[n]) => list[n].region \in DOMAIN regions
  BY <1>2, <1>3 DEF E
<1>10. QED
  BY <1>3, <1>4, <1>5, <1>8, <1>9

\* Where an atom ends that an element of the list is, or is behind
LEMMA AtomOfElement ==
    ASSUME text \in BranchInputs, RegionsClose(regions), NEW e \in ListElements
    PROVE  /\ AtomAt(e) \in DOMAIN text.atoms
           /\ IsIsland(e) => Home(e) = AtomEnd(AtomAt(e))
           /\ ~ IsIsland(e) => AtomAt(e) = e.atom /\ Home(e) = Offset[e.atom]
<1>1. /\ ~ IsIsland(e) => e.atom \in DOMAIN text.atoms
      /\ IsIsland(e) => e.region \in DOMAIN regions
  BY DEF ListElements, IsIsland
<1>2. \A i \in DOMAIN regions : regions[i] \in DOMAIN text.atoms
  <2> DEFINE D == DOMAIN text.atoms
  <2>1. regions \in Seq(D)
    BY DEF RegionsClose
  <2> HIDE DEF D
  <2>2. \A i \in DOMAIN regions : regions[i] \in D
    BY <2>1
  <2>3. QED
    BY <2>2 DEF D
<1>3. QED
  BY <1>1, <1>2 DEF AtomAt, Home, RegionAddr

\* With islands among them, no atom, island or end comes earlier.
LEMMA NothingComesEarlier ==
    ASSUME text \in BranchInputs, RegionsClose(regions), Laid(list, Len(text.atoms))
    PROVE  /\ \A n \in DOMAIN list :
                 Offsets(Placed)[n] \in Nat /\ Home(list[n]) \in Nat
                 /\ Home(list[n]) <= Offsets(Placed)[n]
           /\ EndOf(Placed) \in Nat /\ EndOf(text.atoms) \in Nat
           /\ EndOf(text.atoms) <= EndOf(Placed)
<1> DEFINE f == Offsets(Placed)
           M == Len(list)
           N == Len(text.atoms)
           \* from the offset of an element to where its atom ends
           Fine(n) == /\ f[n] \in Nat /\ Home(list[n]) <= f[n]
                      /\ AtomEnd(AtomAt(list[n])) <= f[n] + Placed[n].size
           wrong == {n \in 1 .. M : ~ Fine(n)}
<1>1. list \in Seq(ListElements)
  BY DEF Laid
<1>2. /\ M \in Nat /\ DOMAIN list = 1 .. M /\ Len(Placed) = M
      /\ \A n \in 1 .. M :
            /\ list[n] \in ListElements
            /\ Placed[n].size \in Nat /\ Placed[n].align \in Nat \ {0}
            /\ Placed[n].modulus \in Nat
            /\ ~ IsIsland(list[n]) =>
                  /\ list[n].atom \in DOMAIN text.atoms
                  /\ Placed[n].size = text.atoms[list[n].atom].size
                  /\ Placed[n].align = text.atoms[list[n].atom].align
                  /\ Placed[n].modulus = text.atoms[list[n].atom].modulus
  BY <1>1, PlacedFacts
<1>3. /\ N \in Nat \ {0} /\ DOMAIN text.atoms = 1 .. N
      /\ text.atoms \in Seq(CodeRecords)
      /\ \A a \in DOMAIN text.atoms :
            /\ Offset[a] \in Nat /\ AtomEnd(a) \in Nat
            /\ text.atoms[a].size \in Nat
      /\ \A a \in DOMAIN text.atoms : AtomEnd(a) = Offset[a] + text.atoms[a].size
  BY TextFacts DEF AtomEnd
<1>4. \A n \in 1 .. M :
         /\ AtomAt(list[n]) \in DOMAIN text.atoms
         /\ IsIsland(list[n]) => Home(list[n]) = AtomEnd(AtomAt(list[n]))
         /\ ~ IsIsland(list[n]) => AtomAt(list[n]) = list[n].atom
                                   /\ Home(list[n]) = Offset[list[n].atom]
  BY <1>2, AtomOfElement
<1>5. /\ M # 0 /\ list[1] = [atom |-> 1] /\ AtomAt(list[M]) = N
      /\ \A n \in 1 .. M : n > 1 => Follows(list[n - 1], list[n])
  <2>1. list # <<>> /\ list[1] = [atom |-> 1] /\ AtomAt(list[M]) = N
        /\ \A n \in DOMAIN list : n > 1 => Follows(list[n - 1], list[n])
    BY <1>3 DEF Laid
  <2>2. M # 0
    <3> DEFINE E == ListElements
    <3>1. list \in Seq(E) /\ list # <<>>
      BY <1>1, <2>1
    <3> HIDE DEF E
    <3>2. QED
      BY <3>1
  <2>3. QED
    BY <1>2, <2>1, <2>2
<1>6. \A n \in 1 .. M : f[n] = OffsetBehind(Placed, n, f[n - 1])
  <2>1. \A n \in 1 .. M : n \in 0 .. M /\ n # 0
    BY <1>2
  <2>2. f = [n \in 0 .. M |-> IF n = 0 THEN 0 ELSE OffsetBehind(Placed, n, f[n - 1])]
    BY <1>2, OffsetsRecursion
  <2> HIDE DEF f
  <2>3. QED
    BY <2>1, <2>2
<1>7. \A a \in 1 .. N : Offset[a] = OffsetBehind(text.atoms, a, Offset[a - 1])
  <2>1. \A a \in 1 .. N : a \in 0 .. N /\ a # 0
    BY <1>3
  <2>2. Offset = [n \in 0 .. N |-> IF n = 0 THEN 0 ELSE OffsetBehind(text.atoms, n, Offset[n - 1])]
    BY <1>3, OffsetsRecursion DEF Offset
  <2>3. QED
    BY <2>1, <2>2
<1> HIDE DEF f, M, N
\* an element with enough in front of it
<1>8. ASSUME NEW n \in 1 .. M, NEW behind \in Nat, NEW least \in Nat, least <= behind,
             f[n] = Aligned(behind, Placed[n].align, Placed[n].modulus),
             IF IsIsland(list[n]) THEN Home(list[n]) = least
             ELSE Offset[list[n].atom]
                    = Aligned(least, Placed[n].align, Placed[n].modulus)
      PROVE  Fine(n)
  <2>1. f[n] \in Nat /\ behind <= f[n]
    <3> DEFINE al == Placed[n].align
               mo == Placed[n].modulus
    <3>1. al \in Nat \ {0} /\ mo \in Nat /\ f[n] = Aligned(behind, al, mo)
      BY <1>2, <1>8
    <3> HIDE DEF al, mo
    <3>2. QED
      BY <3>1, AlignedUp
  <2>2. Home(list[n]) <= f[n]
    <3>1. CASE IsIsland(list[n])
      BY <1>8, <2>1, <3>1
    <3>2. CASE ~ IsIsland(list[n])
      <4>1. Aligned(least, Placed[n].align, Placed[n].modulus)
              <= Aligned(behind, Placed[n].align, Placed[n].modulus)
        BY <1>2, <1>8, AlignedAscends
      <4>2. QED
        BY <1>4, <1>8, <3>2, <4>1
    <3>3. QED
      BY <3>1, <3>2
  <2>3. AtomEnd(AtomAt(list[n])) <= f[n] + Placed[n].size
    <3>1. CASE IsIsland(list[n])
      <4>1. AtomEnd(AtomAt(list[n])) = Home(list[n]) /\ Placed[n].size \in Nat
            /\ AtomEnd(AtomAt(list[n])) \in Nat
        BY <1>2, <1>3, <1>4, <3>1
      <4>2. QED
        BY <2>1, <2>2, <4>1
    <3>2. CASE ~ IsIsland(list[n])
      <4>1. /\ AtomEnd(AtomAt(list[n])) = Home(list[n]) + Placed[n].size
            /\ Placed[n].size \in Nat /\ Home(list[n]) \in Nat
        <5> DEFINE a == list[n].atom
        <5>1. /\ AtomAt(list[n]) = a /\ Home(list[n]) = Offset[a]
              /\ a \in DOMAIN text.atoms /\ Placed[n].size = text.atoms[a].size
          BY <1>2, <1>4, <3>2
        <5> HIDE DEF a
        <5>2. QED
          BY <1>2, <1>3, <5>1
      <4>2. QED
        BY <2>1, <2>2, <4>1
    <3>3. QED
      BY <3>1, <3>2
  <2>4. QED
    BY <2>1, <2>2, <2>3
<1>9. Fine(1)
  <2>1. 1 \in 1 .. M /\ 1 \in 1 .. N
    BY <1>2, <1>3, <1>5
  <2>2. ~ IsIsland(list[1]) /\ list[1].atom = 1
    BY <1>5 DEF IsIsland
  <2>3. f[1] = Aligned(0, Placed[1].align, Placed[1].modulus)
    BY <1>6, <2>1 DEF OffsetBehind
  <2>4. Offset[1] = Aligned(0, text.atoms[1].align, text.atoms[1].modulus)
    BY <1>7, <2>1 DEF OffsetBehind
  <2>5. Placed[1].align = text.atoms[1].align /\ Placed[1].modulus = text.atoms[1].modulus
    BY <1>2, <2>1, <2>2
  <2> HIDE DEF Fine
  <2>6. QED
    BY <1>8, <2>1, <2>2, <2>3, <2>4, <2>5
<1>10. ASSUME NEW n \in 1 .. M, n > 1, Fine(n - 1)  PROVE Fine(n)
  <2> DEFINE behind == f[n - 1] + Placed[n - 1].size
             least == AtomEnd(AtomAt(list[n - 1]))
  <2>1. n - 1 \in 1 .. M
    BY <1>2, <1>10
  <2>2. behind \in Nat /\ least \in Nat /\ least <= behind
    BY <1>2, <1>3, <1>4, <1>10, <2>1
  <2>3. f[n] = Aligned(behind, Placed[n].align, Placed[n].modulus)
    BY <1>6, <1>10 DEF OffsetBehind
  <2>4. Follows(list[n - 1], list[n])
    BY <1>5, <1>10
  <2>5. CASE IsIsland(list[n])
    <3>1. AtomAt(list[n]) = AtomAt(list[n - 1])
      BY <2>4, <2>5 DEF Follows
    <3>2. Home(list[n]) = least
      BY <1>4, <2>5, <3>1
    <3> HIDE DEF Fine, behind, least
    <3>3. QED
      BY <1>8, <2>2, <2>3, <2>5, <3>2
  <2>6. CASE ~ IsIsland(list[n])
    <3> DEFINE b == list[n].atom
               a == AtomAt(list[n - 1])
    <3>1. b = a + 1 /\ b \in 1 .. N /\ a \in 1 .. N
      BY <1>2, <1>3, <1>4, <2>1, <2>4, <2>6 DEF Follows
    <3>2. Placed[n].align = text.atoms[b].align /\ Placed[n].modulus = text.atoms[b].modulus
      BY <1>2, <2>6
    <3>3. least = AtomEnd(a)
      OBVIOUS
    <3> HIDE DEF b, a
    <3>4. b - 1 = a /\ b # 1
      BY <1>3, <3>1
    <3>5. Offset[b] = Aligned(Offset[a] + text.atoms[a].size,
                              text.atoms[b].align, text.atoms[b].modulus)
      BY <1>7, <3>1, <3>4 DEF OffsetBehind
    <3>6. Offset[b] = Aligned(least, Placed[n].align, Placed[n].modulus)
      BY <1>3, <3>1, <3>2, <3>3, <3>5
    <3> HIDE DEF Fine, behind, least
    <3>7. QED
      BY <1>8, <2>2, <2>3, <2>6, <3>6 DEF b
  <2>7. QED
    BY <2>5, <2>6
<1>11. wrong = {}
  <2> SUFFICES ASSUME wrong # {}  PROVE FALSE
    OBVIOUS
  <2> HIDE DEF Fine
  <2>1. PICK n \in wrong : \A k \in wrong : n <= k
    <3>1. wrong \in SUBSET Nat
      BY <1>2
    <3> HIDE DEF wrong
    <3>2. QED
      BY <3>1, LeastNumber
  <2>2. n \in 1 .. M /\ ~ Fine(n)
    OBVIOUS
  <2>3. n # 1
    BY <1>9, <2>2
  <2>4. n - 1 \in 1 .. M /\ ~ (n <= n - 1) /\ n > 1
    BY <1>2, <2>2, <2>3
  <2>5. n - 1 \notin wrong
    <3> HIDE DEF wrong
    <3>1. QED
      BY <2>1, <2>4
  <2>6. Fine(n - 1)
    BY <2>4, <2>5
  <2>7. QED
    BY <1>10, <2>2, <2>4, <2>6
<1>12. \A n \in 1 .. M : Fine(n)
  <2> HIDE DEF Fine
  <2>1. QED
    BY <1>11
<1>13. ASSUME NEW n \in 1 .. M  PROVE Home(list[n]) \in Nat
  <2>1. CASE IsIsland(list[n])
    BY <1>3, <1>4, <2>1
  <2>2. CASE ~ IsIsland(list[n])
    <3>1. Home(list[n]) = Offset[list[n].atom] /\ list[n].atom \in DOMAIN text.atoms
      BY <1>2, <1>4, <2>2
    <3>2. QED
      BY <1>3, <3>1
  <2>3. QED
    BY <2>1, <2>2
<1>14. EndOf(Placed) \in Nat /\ EndOf(text.atoms) \in Nat /\ EndOf(text.atoms) <= EndOf(Placed)
  <2>1. M \in 1 .. M /\ N \in 1 .. N
    BY <1>2, <1>3, <1>5
  <2>2. EndOf(Placed) = f[M] + Placed[M].size
    BY <1>2 DEF EndOf, f
  <2>3. EndOf(text.atoms) = AtomEnd(N)
    BY DEF EndOf, AtomEnd, Offset, N
  <2>4. f[M] \in Nat /\ AtomEnd(N) <= f[M] + Placed[M].size
    BY <1>5, <1>12, <2>1
  <2>5. Placed[M].size \in Nat /\ AtomEnd(N) \in Nat
    BY <1>2, <1>3, <2>1
  <2>6. QED
    BY <2>2, <2>3, <2>4, <2>5
<1>15. QED
  BY <1>2, <1>12, <1>13, <1>14 DEF f

------------------------------------------------------------------------------
(***************************************************************************)
(* The way over the islands.                                               *)
(***************************************************************************)
KeyOf(x) == [to |-> x.to, addend |-> x.addend]

\* One of a region's islands leads to a target.
Serves(q, key) == \E n \in DOMAIN q : KeyOf(q[n]) = key

\* The next hop of an island is an island of the same target, in a region
\* that is nearer to it on the same side.
OnTheWay(is, i, x) ==
    x.next # 0 =>
        /\ x.next \in DOMAIN is /\ Serves(is[x.next], KeyOf(x))
        /\ IF RegionAddr(i) <= KeyAddr(x)
           THEN i < x.next /\ RegionAddr(x.next) <= KeyAddr(x)
           ELSE x.next < i /\ ~ (RegionAddr(x.next) <= KeyAddr(x))

\* Branches that do not go straight go to islands of their targets.
BranchesFit(hs, is) ==
    \A br \in DOMAIN hs : hs[br] # 0 => hs[br] \in DOMAIN is /\ Serves(is[hs[br]], Key(br))

IslandsFit(is) == \A i \in DOMAIN is : \A n \in DOMAIN is[i] : OnTheWay(is, i, is[i][n])

RouteInv ==
    /\ IslandInv
    /\ DOMAIN hops \subseteq Branches
    /\ Reasonable =>
          /\ DOMAIN hops # {} => DOMAIN islands = DOMAIN regions
          /\ BranchesFit(hops, islands) /\ IslandsFit(islands)
          /\ round = "done" /\ DOMAIN hops # {} => list = WithIslands

\* A hop over a set of regions is to one of them, in the direction asked for.
LEMMA HopGoesOn ==
    ASSUME NEW n \in Nat, NEW over \in SUBSET (1 .. n), NEW i, NEW forward \in BOOLEAN,
           HopAfter(over, i, forward) # 0
    PROVE  /\ HopAfter(over, i, forward) \in over
           /\ forward => i < HopAfter(over, i, forward)
           /\ ~ forward => HopAfter(over, i, forward) < i
<1> DEFINE beyond == {j \in over : IF forward THEN i < j ELSE j < i}
<1>1. beyond \in SUBSET (1 .. n)
  OBVIOUS
<1>2. HopAfter(over, i, forward) = CASE beyond = {} -> 0
          [] beyond # {} /\ forward -> Min(beyond)
          [] beyond # {} /\ ~ forward -> Max(beyond)
  BY DEF HopAfter
<1>3. \A j \in beyond : j \in over /\ (forward => i < j) /\ (~ forward => j < i)
  OBVIOUS
<1> HIDE DEF beyond
<1>4. beyond # {}
  BY <1>2
<1>5. Min(beyond) \in beyond /\ Max(beyond) \in beyond
  BY <1>1, <1>4, Extremes
<1>6. QED
  BY <1>2, <1>3, <1>4, <1>5

\* Where a branch starts and where it goes are numbers.
LEMMA BranchAddrs ==
    ASSUME text \in BranchInputs, NEW br \in Branches
    PROVE  SrcAddr(br) \in Nat /\ DstAddr(br) \in Nat
<1>1. /\ Branch(br).to \in Int /\ Branch(br).addend \in Nat
      /\ SrcAddr(br) \in 0 .. TotalTextSize
  BY BranchFacts
<1>2. TotalTextSize \in Nat
  <2>1. /\ Len(text.atoms) \in DOMAIN text.atoms
        /\ TotalTextSize = AtomEnd(Len(text.atoms)) + text.stubs * StubSize
        /\ text.stubs * StubSize \in Nat
        /\ \A a \in DOMAIN text.atoms : AtomEnd(a) \in Nat
    BY TextFacts
  <2>2. QED
    BY <2>1
<1>3. DstAddr(br) = IF Branch(br).to < 0 THEN TotalTextSize
                    ELSE Offset[Branch(br).to] + Branch(br).addend
  BY DEF DstAddr, KeyAddr, Key
<1>4. CASE Branch(br).to < 0
  BY <1>1, <1>2, <1>3, <1>4
<1>5. CASE ~ (Branch(br).to < 0)
  <2>1. text.stubs \in Nat
    BY IslandAssumption DEF TextRecords
  <2>2. \A s \in 1 .. text.stubs : - s < 0
    BY <2>1
  <2>3. br[1] \in DOMAIN text.atoms /\ br[2] \in DOMAIN text.atoms[br[1]].branches
    BY DEF Branches
  <2>4. Branch(br).to \in DOMAIN text.atoms \cup {- s : s \in 1 .. text.stubs}
    BY <2>3, IslandAssumption DEF Branch
  <2>5. Branch(br).to \in DOMAIN text.atoms
    BY <1>5, <2>2, <2>4
  <2>6. Offset[Branch(br).to] \in Nat
    BY <2>5, TextFacts
  <2>7. QED
    BY <1>1, <1>2, <1>3, <1>5, <2>6
<1>6. QED
  BY <1>4, <1>5

\* The regions a branch crosses are all on one side of its target, which is the
\* side they hop to it from.
LEMMA CrossedSide ==
    ASSUME text \in BranchInputs, RegionsClose(regions), NEW br \in Branches,
           NEW forward \in BOOLEAN, forward <=> Displacement(br) > 0
    PROVE  \A i \in Crossed(br) : i \in DOMAIN regions /\ (RegionAddr(i) <= DstAddr(br) <=> forward)
<1>1. SrcAddr(br) \in Nat /\ DstAddr(br) \in Nat
  BY BranchAddrs
<1>2. forward <=> SrcAddr(br) < DstAddr(br)
  BY <1>1 DEF Displacement
<1>3. \A i \in DOMAIN regions : RegionAddr(i) \in Nat
  <2> DEFINE D == DOMAIN text.atoms
  <2>1. regions \in Seq(D) /\ \A a \in D : AtomEnd(a) \in Nat
    BY TextFacts DEF RegionsClose
  <2> HIDE DEF D
  <2>2. QED
    BY <2>1 DEF RegionAddr
<1>4. QED
  BY <1>1, <1>2, <1>3 DEF Crossed

\* While the text and its regions stay, so does what the hops fit.
LEMMA SameFit ==
    ASSUME text' = text, regions' = regions
    PROVE  /\ BranchesFit(hops', islands') => BranchesFit(hops, islands)'
           /\ IslandsFit(islands') => IslandsFit(islands)'
<1>1. Offset' = Offset /\ TotalTextSize' = TotalTextSize
  BY DEF Offset, TotalTextSize, EndOf
<1>2. \A i : RegionAddr(i)' = RegionAddr(i)
  BY <1>1 DEF RegionAddr, AtomEnd
<1>3. \A br : Key(br)' = Key(br)
  BY DEF Key, Branch
<1>4. ASSUME BranchesFit(hops', islands')  PROVE BranchesFit(hops, islands)'
  <2> DEFINE hs == hops'
             is == islands'
  <2>1. \A br \in DOMAIN hs : hs[br] # 0 => hs[br] \in DOMAIN is /\ Serves(is[hs[br]], Key(br))
    BY <1>4 DEF BranchesFit
  <2>2. \A br : Key(br)' = Key(br)
    BY <1>3
  <2> HIDE DEF Key
  <2>3. QED
    BY <2>1, <2>2 DEF BranchesFit, Serves
<1>5. ASSUME IslandsFit(islands')  PROVE IslandsFit(islands)'
  BY <1>1, <1>5 DEF IslandsFit, OnTheWay, Serves, RegionAddr, AtomEnd, KeyAddr
<1>6. QED
  BY <1>4, <1>5

\* A branch that is visited fits, and so does each island it gets.
LEMMA VisitBranchRoutes ==
    ASSUME RouteInv, NEW br \in Branches, VisitBranch(br), Reasonable
    PROVE  BranchesFit(hops', islands') /\ IslandsFit(islands')
<1> DEFINE far == Displacement(br) > Between \/ Displacement(br) < - Between
           forward == Displacement(br) > 0
           over == IF far THEN Crossed(br) ELSE {}
           made(i) == [to |-> Branch(br).to, addend |-> Branch(br).addend,
                       next |-> HopAfter(over, i, forward)]
           is == islands'
           hs == hops'
<1>1. /\ text \in BranchInputs /\ round = "branches"
      /\ RegionsClose(regions) /\ DOMAIN islands = DOMAIN regions
      /\ \A i \in DOMAIN islands : islands[i] \in Seq(IslandRecords)
      /\ BranchesFit(hops, islands) /\ IslandsFit(islands)
  BY DEF RouteInv, IslandInv, VisitBranch
<1>2. /\ is = [i \in DOMAIN islands |->
                  IF i \in over /\ ~ HasIsland(i, Key(br)) THEN Append(islands[i], made(i))
                  ELSE islands[i]]
      /\ hs = [b \in DOMAIN hops \cup {br} |->
                  IF b = br THEN FirstHop(over, forward) ELSE hops[b]]
  BY DEF VisitBranch
<1>3. /\ forward \in BOOLEAN
      /\ KeyAddr(Key(br)) = DstAddr(br)
      /\ Key(br) = [to |-> Branch(br).to, addend |-> Branch(br).addend]
  BY DEF DstAddr, Key
<1>4. Len(regions) \in Nat /\ DOMAIN regions = 1 .. Len(regions)
  <2> DEFINE D == DOMAIN text.atoms
  <2>1. regions \in Seq(D)
    BY <1>1 DEF RegionsClose
  <2> HIDE DEF D
  <2>2. QED
    BY <2>1
<1>5. \A i \in over : i \in DOMAIN regions /\ (RegionAddr(i) <= DstAddr(br) <=> forward)
  BY <1>1, <1>3, CrossedSide
<1>6. over \in SUBSET (1 .. Len(regions))
  BY <1>4, <1>5
<1>7. /\ \A i : HopAfter(over, i, forward) # 0 =>
            /\ HopAfter(over, i, forward) \in over
            /\ forward => i < HopAfter(over, i, forward)
            /\ ~ forward => HopAfter(over, i, forward) < i
      /\ FirstHop(over, forward) # 0 => FirstHop(over, forward) \in over
  <2> HIDE DEF over, forward
  <2>1. \A i : HopAfter(over, i, forward) # 0 =>
            /\ HopAfter(over, i, forward) \in over
            /\ forward => i < HopAfter(over, i, forward)
            /\ ~ forward => HopAfter(over, i, forward) < i
    BY <1>3, <1>4, <1>6, HopGoesOn
  <2>2. QED
    BY <2>1 DEF FirstHop
<1>8. \A i : /\ KeyOf(made(i)) = Key(br) /\ KeyAddr(made(i)) = DstAddr(br)
             /\ made(i).next = HopAfter(over, i, forward)
  BY <1>3 DEF KeyOf, KeyAddr
<1>9. \A i : HasIsland(i, Key(br)) <=> Serves(islands[i], Key(br))
  BY DEF HasIsland, Serves, KeyOf
<1> HIDE DEF far, forward, over, made, is, hs
\* what an island list is after the step
<1>10. ASSUME NEW i \in DOMAIN islands
       PROVE  /\ \A n \in DOMAIN islands[i] : n \in DOMAIN is[i] /\ is[i][n] = islands[i][n]
              /\ \A n \in DOMAIN is[i] :
                    \/ n \in DOMAIN islands[i] /\ is[i][n] = islands[i][n]
                    \/ i \in over /\ is[i][n] = made(i)
              /\ i \in over /\ ~ HasIsland(i, Key(br)) =>
                    \E n \in DOMAIN is[i] : is[i][n] = made(i)
  <2>1. CASE i \in over /\ ~ HasIsland(i, Key(br))
    <3>1. is[i] = Append(islands[i], made(i))
      BY <1>2, <2>1
    <3> DEFINE q == islands[i]
               x == made(i)
               D == Range(q) \cup {x}
    <3>2. q \in Seq(D) /\ x \in D
      <4> DEFINE R == IslandRecords
      <4>1. q \in Seq(R)
        BY <1>1
      <4> HIDE DEF R, q, x
      <4>2. QED
        BY <4>1 DEF Range
    <3> HIDE DEF q, x, D
    <3>3. /\ DOMAIN q = 1 .. Len(q) /\ Len(q) \in Nat
          /\ DOMAIN Append(q, x) = 1 .. (Len(q) + 1)
          /\ \A n \in 1 .. Len(q) : Append(q, x)[n] = q[n]
          /\ Append(q, x)[Len(q) + 1] = x
      BY <3>2
    <3>4. /\ \A n \in DOMAIN q : n \in DOMAIN Append(q, x) /\ Append(q, x)[n] = q[n]
          /\ \A n \in DOMAIN Append(q, x) :
                (n \in DOMAIN q /\ Append(q, x)[n] = q[n]) \/ Append(q, x)[n] = x
          /\ \E n \in DOMAIN Append(q, x) : Append(q, x)[n] = x
      BY <3>3
    <3>5. QED
      BY <2>1, <3>1, <3>4 DEF q, x
  <2>2. CASE ~ (i \in over /\ ~ HasIsland(i, Key(br)))
    <3>1. is[i] = islands[i]
      BY <1>2, <2>2
    <3>2. QED
      BY <2>2, <3>1
  <2>3. QED
    BY <2>1, <2>2
<1>11. DOMAIN is = DOMAIN islands
  BY <1>2
<1>12. ASSUME NEW i \in DOMAIN islands, NEW key, Serves(islands[i], key)
       PROVE  Serves(is[i], key)
  BY <1>10, <1>12 DEF Serves
<1>13. ASSUME NEW i \in over  PROVE i \in DOMAIN is /\ Serves(is[i], Key(br))
  <2>1. i \in DOMAIN islands
    BY <1>1, <1>5
  <2>2. CASE HasIsland(i, Key(br))
    BY <1>9, <1>11, <1>12, <2>1, <2>2
  <2>3. CASE ~ HasIsland(i, Key(br))
    <3>1. PICK n \in DOMAIN is[i] : is[i][n] = made(i)
      BY <1>10, <2>1, <2>3
    <3>2. QED
      BY <1>8, <1>11, <2>1, <3>1 DEF Serves
  <2>4. QED
    BY <2>2, <2>3
<1>14. BranchesFit(hs, is)
  <2> SUFFICES ASSUME NEW b \in DOMAIN hs, hs[b] # 0
               PROVE  hs[b] \in DOMAIN is /\ Serves(is[hs[b]], Key(b))
    BY DEF BranchesFit
  <2>1. CASE b = br
    <3>1. hs[b] = FirstHop(over, forward)
      BY <1>2, <2>1
    <3>2. QED
      BY <1>7, <1>13, <2>1, <3>1
  <2>2. CASE b # br
    <3>1. b \in DOMAIN hops /\ hs[b] = hops[b]
      BY <1>2, <2>2
    <3>2. hops[b] \in DOMAIN islands /\ Serves(islands[hops[b]], Key(b))
      BY <1>1, <3>1 DEF BranchesFit
    <3>3. QED
      BY <1>11, <1>12, <3>1, <3>2
  <2>3. QED
    BY <2>1, <2>2
<1>15. IslandsFit(is)
  <2> SUFFICES ASSUME NEW i \in DOMAIN is, NEW n \in DOMAIN is[i]
               PROVE  OnTheWay(is, i, is[i][n])
    BY DEF IslandsFit
  <2>1. CASE n \in DOMAIN islands[i] /\ is[i][n] = islands[i][n]
    <3> DEFINE x == islands[i][n]
    <3>1. OnTheWay(islands, i, x)
      BY <1>1, <1>11, <2>1 DEF IslandsFit
    <3> HIDE DEF x
    <3>2. x.next # 0 => x.next \in DOMAIN is /\ Serves(is[x.next], KeyOf(x))
      BY <1>11, <1>12, <3>1 DEF OnTheWay
    <3>3. OnTheWay(is, i, x)
      BY <3>1, <3>2 DEF OnTheWay
    <3>4. QED
      BY <2>1, <3>3 DEF x
  <2>2. CASE i \in over /\ is[i][n] = made(i)
    <3> DEFINE x == made(i)
               h == HopAfter(over, i, forward)
    <3>1. KeyOf(x) = Key(br) /\ KeyAddr(x) = DstAddr(br) /\ x.next = h
      BY <1>8
    <3>2. h # 0 => h \in over /\ (forward => i < h) /\ (~ forward => h < i)
      BY <1>7
    <3> HIDE DEF x, h
    <3>3. h # 0 => h \in DOMAIN is /\ Serves(is[h], Key(br))
      BY <1>13, <3>2
    <3>4. RegionAddr(i) <= DstAddr(br) <=> forward
      BY <1>5, <2>2
    <3>5. h # 0 => (RegionAddr(h) <= DstAddr(br) <=> forward)
      BY <1>5, <3>2
    <3>6. OnTheWay(is, i, x)
      BY <1>3, <3>1, <3>2, <3>3, <3>4, <3>5 DEF OnTheWay
    <3>7. QED
      BY <2>2, <3>6 DEF x
  <2>3. QED
    BY <1>10, <1>11, <2>1, <2>2
<1>16. QED
  BY <1>14, <1>15 DEF is, hs

LEMMA RouteInvInit == IslandInit => RouteInv
<1> SUFFICES ASSUME IslandInit  PROVE RouteInv
  OBVIOUS
<1>1. IslandInv
  BY IslandInvInit
<1>2. hops = <<>> /\ islands = <<>>
  BY DEF IslandInit
<1>3. DOMAIN hops = {} /\ DOMAIN islands = {}
  BY <1>2
<1>4. QED
  BY <1>1, <1>3 DEF RouteInv, BranchesFit, IslandsFit

LEMMA RouteInvStep == RouteInv /\ [IslandNext]_islandVars => RouteInv'
<1> SUFFICES ASSUME RouteInv, [IslandNext]_islandVars  PROVE RouteInv'
  OBVIOUS
<1>1. IslandInv /\ IslandInv'
  BY IslandInvStep DEF RouteInv
<1>2. CASE VisitAtom \/ EndRegions
  <2>1. hops = <<>> /\ hops' = <<>> /\ islands = <<>>
    BY <1>1, <1>2 DEF IslandInv, VisitAtom, EndRegions
  <2>2. DOMAIN hops' = {} /\ \A i \in DOMAIN islands' : DOMAIN islands'[i] = {}
    <3>1. CASE VisitAtom
      <4>1. islands' = <<>>
        BY <2>1, <3>1 DEF VisitAtom
      <4>2. QED
        BY <2>1, <4>1
    <3>2. CASE EndRegions
      <4>1. islands' = [i \in DOMAIN regions' |-> <<>>]
        BY <3>2 DEF EndRegions
      <4>2. QED
        BY <2>1, <4>1
    <3>3. QED
      BY <1>2, <3>1, <3>2
  <2>3. QED
    BY <1>1, <2>2 DEF RouteInv, BranchesFit, IslandsFit
<1>3. ASSUME NEW br \in Branches, VisitBranch(br)  PROVE RouteInv'
  <2>1. /\ text' = text /\ regions' = regions /\ round' = "branches"
        /\ DOMAIN hops' = DOMAIN hops \cup {br}
    BY <1>3 DEF VisitBranch
  <2>2. Branches' = Branches
    BY <2>1 DEF Branches
  <2>3. DOMAIN hops' \subseteq Branches'
    BY <2>1, <2>2 DEF RouteInv
  <2>4. Reasonable' <=> Reasonable
    BY <2>1, SameHops
  <2>5. Reasonable' => BranchesFit(hops, islands)' /\ IslandsFit(islands)'
    BY <1>3, <2>1, <2>4, VisitBranchRoutes, SameFit
  <2>6. Reasonable' => DOMAIN islands' = DOMAIN regions'
    BY <1>1, <2>1 DEF IslandInv
  <2>7. round' # "done"
    BY <2>1
  <2>8. QED
    BY Zenon, <1>1, <2>3, <2>5, <2>6, <2>7 DEF RouteInv
<1>4. CASE InsertIslands \/ UNCHANGED islandVars
  <2>1. /\ UNCHANGED <<text, regions, islands, hops>>
        /\ \/ list' = WithIslands /\ round' = "done"
           \/ list' = list /\ round' = round
    BY <1>4 DEF InsertIslands, islandVars
  <2>2. Reasonable' <=> Reasonable
    BY <2>1, SameHops
  <2>3. Branches' = Branches /\ WithIslands' = WithIslands
    <3>1. text' = text /\ regions' = regions /\ islands' = islands
      BY <2>1
    <3>2. Branches' = Branches
      BY <3>1 DEF Branches
    <3>3. WithIslands' = WithIslands
      BY <3>1 DEF WithIslands
    <3>4. QED
      BY <3>2, <3>3
  <2>4. Reasonable' => BranchesFit(hops, islands)' /\ IslandsFit(islands)'
    BY <2>1, <2>2, SameFit DEF RouteInv
  <2>5. QED
    BY <1>1, <2>1, <2>2, <2>3, <2>4 DEF RouteInv
<1>5. QED
  BY <1>2, <1>3, <1>4 DEF IslandNext, IslandsDone

\* An island that serves a target is found.
LEMMA IslandFound ==
    ASSUME NEW br, NEW i, Serves(islands[i], Key(br))
    PROVE  /\ IslandFor(i, Key(br)) \in DOMAIN islands[i]
           /\ islands[i][IslandFor(i, Key(br))].to = Branch(br).to
           /\ islands[i][IslandFor(i, Key(br))].addend = Branch(br).addend
           /\ KeyOf(islands[i][IslandFor(i, Key(br))]) = Key(br)
           /\ KeyAddr(islands[i][IslandFor(i, Key(br))]) = DstAddr(br)
<1>1. Key(br).to = Branch(br).to /\ Key(br).addend = Branch(br).addend
  BY DEF Key
<1>2. PICK n \in DOMAIN islands[i] : KeyOf(islands[i][n]) = Key(br)
  BY DEF Serves
<1>3. islands[i][n].to = Key(br).to /\ islands[i][n].addend = Key(br).addend
  BY <1>2 DEF KeyOf, Key
<1> DEFINE m == IslandFor(i, Key(br))
<1>4. /\ m \in DOMAIN islands[i]
      /\ islands[i][m].to = Key(br).to /\ islands[i][m].addend = Key(br).addend
  BY <1>3 DEF IslandFor
<1> HIDE DEF m
<1>5. KeyOf(islands[i][m]) = Key(br)
  BY <1>4 DEF KeyOf, Key
<1>6. KeyAddr(islands[i][m]) = KeyAddr(Key(br))
  BY <1>4 DEF KeyAddr
<1>7. QED
  BY <1>1, <1>4, <1>5, <1>6 DEF m, DstAddr

\* Where the island in a region sends a branch on to
HopOn(i, br) == islands[i][IslandFor(i, Key(br))].next

\* The way of a branch leads from region to region with an island of its
\* target in each.
LEMMA RouteSteps ==
    ASSUME Len(regions) \in Nat, DOMAIN islands = 1 .. Len(regions),
           BranchesFit(hops, islands), IslandsFit(islands), NEW br \in DOMAIN hops
    PROVE  /\ \A n \in 0 .. Len(regions) : Route(br)[n] # 0 =>
                 Route(br)[n] \in 1 .. Len(regions) /\ Serves(islands[Route(br)[n]], Key(br))
           /\ Route(br)[0] = hops[br]
           /\ \A n \in 1 .. Len(regions) :
                 Route(br)[n] = IF Route(br)[n - 1] = 0 THEN 0 ELSE HopOn(Route(br)[n - 1], br)
<1> DEFINE K == Len(regions)
           S == {0} \cup {i \in DOMAIN islands : Serves(islands[i], Key(br))}
           On(i) == IF i = 0 THEN 0 ELSE HopOn(i, br)
           step == [x \in (1 .. K) \X S |-> On(x[2])]
           Solves(f) == f = [n \in 0 .. K |-> IF n = 0 THEN hops[br] ELSE On(f[n - 1])]
<1>1. hops[br] \in S
  BY DEF BranchesFit
<1>2. ASSUME NEW i \in S  PROVE On(i) \in S
  <2>1. CASE i = 0
    BY <2>1
  <2>2. CASE i # 0
    <3> DEFINE x == islands[i][IslandFor(i, Key(br))]
    <3>1. i \in DOMAIN islands /\ Serves(islands[i], Key(br))
      BY <2>2
    <3>2. IslandFor(i, Key(br)) \in DOMAIN islands[i] /\ KeyOf(x) = Key(br)
      BY <3>1, IslandFound
    <3>3. OnTheWay(islands, i, x)
      BY <3>1, <3>2 DEF IslandsFit
    <3>4. On(i) = x.next
      BY <2>2 DEF HopOn
    <3> HIDE DEF x
    <3>5. x.next # 0 => x.next \in DOMAIN islands /\ Serves(islands[x.next], Key(br))
      BY <3>2, <3>3 DEF OnTheWay
    <3>6. x.next \in S
      BY <3>5
    <3> HIDE DEF S, On
    <3>7. QED
      BY <3>4, <3>6
  <2>3. QED
    BY <2>1, <2>2
<1>3. \A i \in S : i # 0 => i \in 1 .. K /\ Serves(islands[i], Key(br))
  OBVIOUS
<1>4. Route(br) = CHOOSE f : Solves(f)
  BY DEF Route, HopOn
<1>5. K \in Nat
  OBVIOUS
<1> HIDE DEF K, S
<1>6. IsStep(step, K, S)
  <2> HIDE DEF On
  <2>1. QED
    BY <1>2 DEF IsStep
<1>7. \A n \in 1 .. K, i \in S : step[<<n, i>>] = On(i)
  <2> HIDE DEF On
  <2>1. QED
    OBVIOUS
<1> DEFINE start == hops[br]
<1> HIDE DEF step
<1>8. PICK f : IsSolution(f, K, S, start, step)
  <2>1. start \in S
    BY <1>1
  <2> HIDE DEF start
  <2>2. QED
    BY <1>5, <1>6, <2>1, RecursionSolved
<1> HIDE DEF On
<1>9. ASSUME NEW n \in 0 .. K  PROVE f[n] = IF n = 0 THEN hops[br] ELSE On(f[n - 1])
  <2>1. n # 0 => n \in 1 .. K /\ n - 1 \in 0 .. K
    BY <1>5
  <2>2. n # 0 => f[n - 1] \in S
    BY <1>8, <2>1 DEF IsSolution
  <2>3. f[n] = IF n = 0 THEN start ELSE step[<<n, f[n - 1]>>]
    BY <1>8 DEF IsSolution
  <2>4. QED
    BY <1>7, <2>1, <2>2, <2>3
<1>10. Solves(f)
  <2>1. f = [n \in 0 .. K |-> f[n]]
    BY <1>8 DEF IsSolution
  <2>2. QED
    BY <1>9, <2>1
<1>11. Solves(Route(br))
  <2> HIDE DEF Solves
  <2>1. QED
    BY <1>4, <1>10
<1>12. \A n \in 0 .. K : Route(br)[n] = IF n = 0 THEN hops[br] ELSE On(Route(br)[n - 1])
  BY <1>11
<1> DEFINE r == Route(br)
           wrong == {n \in 0 .. K : r[n] \notin S}
<1> HIDE DEF r
<1>13. wrong = {}
  <2> SUFFICES ASSUME wrong # {}  PROVE FALSE
    OBVIOUS
  <2>1. PICK n \in wrong : \A k \in wrong : n <= k
    <3>1. wrong \in SUBSET Nat
      BY <1>5
    <3> HIDE DEF wrong
    <3>2. QED
      BY <3>1, LeastNumber
  <2>2. n \in 0 .. K /\ r[n] \notin S
    OBVIOUS
  <2>3. n # 0
    BY <1>1, <1>12, <2>2 DEF r
  <2>4. n - 1 \in 0 .. K /\ ~ (n <= n - 1)
    BY <1>5, <2>2, <2>3
  <2>5. n - 1 \notin wrong
    <3> HIDE DEF wrong
    <3>1. QED
      BY <2>1, <2>4
  <2>6. r[n - 1] \in S
    BY <2>4, <2>5
  <2>7. QED
    BY <1>2, <1>12, <2>2, <2>3, <2>6 DEF r
<1>14. \A n \in 0 .. K : r[n] # 0 => r[n] \in 1 .. K /\ Serves(islands[r[n]], Key(br))
  BY <1>3, <1>13
<1>15. r[0] = hops[br]
  BY <1>5, <1>12 DEF r
<1>16. ASSUME NEW n \in 1 .. K  PROVE r[n] = IF r[n - 1] = 0 THEN 0 ELSE HopOn(r[n - 1], br)
  <2>1. n \in 0 .. K /\ n # 0
    BY <1>5
  <2>2. QED
    BY <1>12, <2>1 DEF r, On
<1>17. QED
  BY <1>14, <1>15, <1>16 DEF r, K

\* A branch comes to its last region, as each is nearer to the target than the
\* one before.
LEMMA RouteEnds ==
    ASSUME Len(regions) \in Nat, DOMAIN islands = 1 .. Len(regions),
           BranchesFit(hops, islands), IslandsFit(islands), NEW br \in DOMAIN hops
    PROVE  /\ HopCount(br) \in 0 .. Len(regions) /\ Route(br)[HopCount(br)] = 0
           /\ \A k \in 0 .. (HopCount(br) - 1) : Route(br)[k] # 0
<1> DEFINE K == Len(regions)
           r == Route(br)
           d == DstAddr(br)
<1>1. /\ \A n \in 0 .. K : r[n] # 0 => r[n] \in 1 .. K /\ Serves(islands[r[n]], Key(br))
      /\ \A n \in 1 .. K : r[n] = IF r[n - 1] = 0 THEN 0 ELSE HopOn(r[n - 1], br)
  BY RouteSteps
<1>2. ASSUME NEW n \in 1 .. K, r[n] # 0, r[n - 1] # 0
      PROVE  IF RegionAddr(r[n - 1]) <= d
             THEN r[n - 1] < r[n] /\ RegionAddr(r[n]) <= d
             ELSE r[n] < r[n - 1] /\ ~ (RegionAddr(r[n]) <= d)
  <2> DEFINE i == r[n - 1]
             m == IslandFor(i, Key(br))
             x == islands[i][m]
  <2>1. n - 1 \in 0 .. K
    OBVIOUS
  <2>2. i \in DOMAIN islands /\ Serves(islands[i], Key(br)) /\ r[n] = HopOn(i, br)
    BY <1>1, <1>2, <2>1
  <2>3. m \in DOMAIN islands[i] /\ KeyAddr(x) = d
    BY <2>2, IslandFound
  <2>4. OnTheWay(islands, i, x)
    BY <2>2, <2>3 DEF IslandsFit
  <2>5. r[n] = x.next
    BY <2>2 DEF HopOn
  <2> HIDE DEF x, d, r
  <2>6. QED
    BY <1>2, <2>3, <2>4, <2>5 DEF OnTheWay
<1>3. K \in Nat
  OBVIOUS
<1> HIDE DEF K, r, d
<1>4. \E n \in 0 .. K : r[n] = 0
  <2> SUFFICES ASSUME \A n \in 0 .. K : r[n] # 0  PROVE FALSE
    OBVIOUS
  <2>1. \A n \in 0 .. K : r[n] \in 1 .. K
    BY <1>1
  <2>2. CASE RegionAddr(r[0]) <= d
    <3> DEFINE wrong == {n \in 0 .. K : ~ (RegionAddr(r[n]) <= d /\ n + 1 <= r[n])}
    <3>1. wrong = {}
      <4> SUFFICES ASSUME wrong # {}  PROVE FALSE
        OBVIOUS
      <4>1. PICK n \in wrong : \A k \in wrong : n <= k
        <5>1. wrong \in SUBSET Nat
          BY <1>3
        <5> HIDE DEF wrong
        <5>2. QED
          BY <5>1, LeastNumber
      <4>2. n \in 0 .. K /\ ~ (RegionAddr(r[n]) <= d /\ n + 1 <= r[n])
        OBVIOUS
      <4>3. n # 0
        BY <2>1, <2>2, <4>2
      <4>4. n - 1 \in 0 .. K /\ n \in 1 .. K /\ ~ (n <= n - 1)
        BY <1>3, <4>2, <4>3
      <4>5. n - 1 \notin wrong
        <5> HIDE DEF wrong
        <5>1. QED
          BY <4>1, <4>4
      <4>6. RegionAddr(r[n - 1]) <= d /\ n <= r[n - 1]
        BY <4>4, <4>5
      <4>7. r[n - 1] < r[n] /\ RegionAddr(r[n]) <= d
        BY <1>2, <4>4, <4>6
      <4>8. r[n - 1] \in 1 .. K /\ r[n] \in 1 .. K
        BY <2>1, <4>4
      <4>9. QED
        BY <1>3, <4>2, <4>6, <4>7, <4>8
    <3>2. K \in 0 .. K
      BY <1>3
    <3>3. K + 1 <= r[K]
      BY <3>1, <3>2
    <3>4. QED
      BY <1>3, <2>1, <3>2, <3>3
  <2>3. CASE ~ (RegionAddr(r[0]) <= d)
    <3> DEFINE wrong == {n \in 0 .. K : ~ (~ (RegionAddr(r[n]) <= d) /\ r[n] <= K - n)}
    <3>1. wrong = {}
      <4> SUFFICES ASSUME wrong # {}  PROVE FALSE
        OBVIOUS
      <4>1. PICK n \in wrong : \A k \in wrong : n <= k
        <5>1. wrong \in SUBSET Nat
          BY <1>3
        <5> HIDE DEF wrong
        <5>2. QED
          BY <5>1, LeastNumber
      <4>2. n \in 0 .. K /\ ~ (~ (RegionAddr(r[n]) <= d) /\ r[n] <= K - n)
        OBVIOUS
      <4>3. n # 0
        <5>1. 0 \in 0 .. K
          BY <1>3
        <5>2. r[0] <= K
          BY <1>3, <2>1, <5>1
        <5>3. QED
          BY <1>3, <2>3, <4>2, <5>2
      <4>4. n - 1 \in 0 .. K /\ n \in 1 .. K /\ ~ (n <= n - 1)
        BY <1>3, <4>2, <4>3
      <4>5. n - 1 \notin wrong
        <5> HIDE DEF wrong
        <5>1. QED
          BY <4>1, <4>4
      <4>6. ~ (RegionAddr(r[n - 1]) <= d) /\ r[n - 1] <= K - (n - 1)
        BY <4>4, <4>5
      <4>7. r[n] < r[n - 1] /\ ~ (RegionAddr(r[n]) <= d)
        BY <1>2, <4>4, <4>6
      <4>8. r[n - 1] \in 1 .. K /\ r[n] \in 1 .. K
        BY <2>1, <4>4
      <4>9. QED
        BY <1>3, <4>2, <4>6, <4>7, <4>8
    <3>2. K \in 0 .. K
      BY <1>3
    <3>3. r[K] <= K - K
      BY <3>1, <3>2
    <3>4. QED
      BY <1>3, <2>1, <3>2, <3>3
  <2>4. QED
    BY <2>2, <2>3
<1>5. \E n \in 0 .. K : r[n] = 0 /\ \A k \in 0 .. (n - 1) : r[k] # 0
  <2> DEFINE Z == {n \in 0 .. K : r[n] = 0}
  <2>1. Z \in SUBSET Nat /\ Z # {}
    BY <1>3, <1>4
  <2> HIDE DEF Z
  <2>2. PICK n \in Z : \A k \in Z : n <= k
    BY <2>1, LeastNumber
  <2>3. n \in 0 .. K /\ r[n] = 0
    BY DEF Z
  <2>4. ASSUME NEW k \in 0 .. (n - 1)  PROVE r[k] # 0
    <3>1. k \in 0 .. K /\ ~ (n <= k)
      BY <1>3, <2>3
    <3>2. k \notin Z
      BY <2>2, <3>1
    <3>3. QED
      BY <3>1, <3>2 DEF Z
  <2>5. QED
    BY <2>3, <2>4
<1>6. HopCount(br) = CHOOSE n \in 0 .. K : r[n] = 0 /\ \A k \in 0 .. (n - 1) : r[k] # 0
  BY DEF HopCount, K, r
<1>7. QED
  BY <1>5, <1>6 DEF K, r

\* Atoms and islands are found in the list, pushed by the space at most.
LEMMA PlacesFound ==
    ASSUME text \in BranchInputs, RegionsClose(regions), Laid(list, Len(text.atoms)),
           NEW space \in Nat, PushedAtMost(space)
    PROVE  /\ \A a \in DOMAIN text.atoms :
                 FinalAtom(a) \in Nat /\ Offset[a] <= FinalAtom(a)
                 /\ FinalAtom(a) <= Offset[a] + space
           /\ \A i \in DOMAIN regions : \A k \in DOMAIN islands[i] :
                 /\ FinalAddr([region |-> i, place |-> k]) \in Nat
                 /\ RegionAddr(i) <= FinalAddr([region |-> i, place |-> k])
                 /\ FinalAddr([region |-> i, place |-> k]) <= RegionAddr(i) + space
<1>1. ASSUME NEW e, \E n \in DOMAIN list : list[n] = e
      PROVE  FinalAddr(e) \in Nat /\ Home(e) <= FinalAddr(e) /\ FinalAddr(e) <= Home(e) + space
  <2> DEFINE n == PlaceOf(e)
  <2>1. n \in DOMAIN list /\ list[n] = e
    BY <1>1 DEF PlaceOf
  <2>2. FinalAddr(e) = Offsets(Placed)[n]
    BY DEF FinalAddr
  <2> HIDE DEF n
  <2>3. /\ Offsets(Placed)[n] \in Nat /\ Home(list[n]) \in Nat
        /\ Home(list[n]) <= Offsets(Placed)[n]
    BY <2>1, NothingComesEarlier
  <2>4. Offsets(Placed)[n] - Home(list[n]) <= space
    BY <2>1 DEF PushedAtMost
  <2>5. QED
    BY <2>1, <2>2, <2>3, <2>4
<1>2. ASSUME NEW a \in DOMAIN text.atoms
      PROVE  FinalAtom(a) \in Nat /\ Offset[a] <= FinalAtom(a) /\ FinalAtom(a) <= Offset[a] + space
  <2> DEFINE e == [atom |-> a]
  <2>1. \E n \in DOMAIN list : list[n] = e
    <3>1. a \in 1 .. Len(text.atoms)
      BY TextFacts
    <3>2. QED
      BY <3>1 DEF Laid
  <2>2. Home(e) = Offset[a]
    BY ElementFacts DEF Home
  <2>3. FinalAtom(a) = FinalAddr(e)
    BY DEF FinalAtom
  <2> HIDE DEF e
  <2>4. QED
    BY <1>1, <2>1, <2>2, <2>3
<1>3. ASSUME NEW i \in DOMAIN regions, NEW k \in DOMAIN islands[i]
      PROVE  /\ FinalAddr([region |-> i, place |-> k]) \in Nat
             /\ RegionAddr(i) <= FinalAddr([region |-> i, place |-> k])
             /\ FinalAddr([region |-> i, place |-> k]) <= RegionAddr(i) + space
  <2> DEFINE e == [region |-> i, place |-> k]
  <2>1. regions[i] <= Len(text.atoms)
    <3> DEFINE D == DOMAIN text.atoms
    <3>1. regions \in Seq(D)
      BY DEF RegionsClose
    <3> HIDE DEF D
    <3>2. regions[i] \in D
      BY <3>1
    <3>3. QED
      BY <3>2, TextFacts DEF D
  <2>2. \E n \in DOMAIN list : list[n] = e
    BY <2>1 DEF Laid
  <2>3. Home(e) = RegionAddr(i)
    BY DEF Home, IsIsland
  <2> HIDE DEF e
  <2>4. FinalAddr(e) \in Nat /\ Home(e) <= FinalAddr(e) /\ FinalAddr(e) <= Home(e) + space
    BY <1>1, <2>2
  <2>5. QED
    BY <2>3, <2>4 DEF e
<1>4. QED
  BY <1>2, <1>3

\* The target of a branch is pushed by the space at most, and is not moved in
\* front of the text.
LEMMA TargetFound ==
    ASSUME text \in BranchInputs, RegionsClose(regions), Laid(list, Len(text.atoms)),
           NEW space \in Nat, PushedAtMost(space), NEW br \in Branches, Branch(br).addend = 0
    PROVE  /\ TargetAddr(Key(br)) \in Int
           /\ TargetAddr(Key(br)) <= DstAddr(br) + space
           /\ DstAddr(br) <= TargetAddr(Key(br)) \/ EndOf(text.atoms) <= TargetAddr(Key(br))
<1> DEFINE to == Branch(br).to
<1>1. TargetAddr(Key(br)) = IF to < 0 THEN EndOf(Placed) + (- to - 1) * StubSize
                            ELSE FinalAtom(to) + 0
  BY DEF TargetAddr, Key
<1>2. DstAddr(br) = IF to < 0 THEN TotalTextSize ELSE Offset[to] + 0
  BY DEF DstAddr, KeyAddr, Key
<1>3. to \in DOMAIN text.atoms \cup {- s : s \in 1 .. text.stubs} /\ to \in Int
  <2>1. br[1] \in DOMAIN text.atoms /\ br[2] \in DOMAIN text.atoms[br[1]].branches
    BY DEF Branches
  <2>2. to \in DOMAIN text.atoms \cup {- s : s \in 1 .. text.stubs}
    BY <2>1, IslandAssumption DEF Branch
  <2>3. to \in Int
    BY BranchFacts
  <2>4. QED
    BY <2>2, <2>3
<1>4. text.stubs \in Nat /\ StubSize \in Nat
  BY IslandAssumption DEF TextRecords
<1> HIDE DEF to
<1>5. CASE to < 0
  <2>1. PICK s \in 1 .. text.stubs : to = - s
    <3>1. to \notin DOMAIN text.atoms
      <4>1. \A a \in DOMAIN text.atoms : ~ (a < 0)
        BY TextFacts
      <4>2. QED
        BY <1>5, <4>1
    <3>2. QED
      BY <1>3, <3>1
  <2>2. - to - 1 = s - 1 /\ s - 1 \in Nat /\ s - 1 <= text.stubs
    BY <1>4, <2>1
  <2> DEFINE first == (- to - 1) * StubSize
             all == text.stubs * StubSize
  <2>3. first \in Nat /\ all \in Nat /\ first <= all
    <3>1. \A x, y, z \in Nat : x <= y => x * z \in Nat /\ y * z \in Nat /\ x * z <= y * z
      OBVIOUS
    <3>2. QED
      BY <1>4, <2>2, <3>1
  <2>4. /\ EndOf(Placed) \in Nat /\ EndOf(text.atoms) \in Nat
        /\ EndOf(text.atoms) <= EndOf(Placed)
        /\ EndOf(Placed) - EndOf(text.atoms) <= space
    BY NothingComesEarlier DEF PushedAtMost
  <2>5. TargetAddr(Key(br)) = EndOf(Placed) + first /\ DstAddr(br) = EndOf(text.atoms) + all
    BY <1>1, <1>2, <1>5 DEF TotalTextSize
  <2> HIDE DEF first, all
  <2>6. QED
    BY <2>3, <2>4, <2>5
<1>6. CASE ~ (to < 0)
  <2>1. \A s \in 1 .. text.stubs : - s < 0
    BY <1>4
  <2>2. to \in DOMAIN text.atoms
    BY <1>3, <1>6, <2>1
  <2>3. FinalAtom(to) \in Nat /\ Offset[to] <= FinalAtom(to) /\ FinalAtom(to) <= Offset[to] + space
    BY <2>2, PlacesFound
  <2>4. Offset[to] \in Nat
    BY <2>2, TextFacts
  <2>5. QED
    BY <1>1, <1>2, <1>6, <2>3, <2>4
<1>7. QED
  BY <1>5, <1>6

\* Branches and regions are not behind the end of the text.
LEMMA InsideText ==
    ASSUME text \in BranchInputs, RegionsClose(regions)
    PROVE  /\ EndOf(text.atoms) \in Nat
           /\ \A i \in DOMAIN regions : RegionAddr(i) \in Nat /\ RegionAddr(i) <= EndOf(text.atoms)
           /\ \A br \in Branches :
                 /\ br[1] \in DOMAIN text.atoms /\ Branch(br).at \in Nat
                 /\ SrcAddr(br) = Offset[br[1]] + Branch(br).at
                 /\ SrcAddr(br) \in Nat /\ SrcAddr(br) <= EndOf(text.atoms)
<1> DEFINE N == Len(text.atoms)
<1>1. /\ N \in DOMAIN text.atoms /\ \A a \in DOMAIN text.atoms : a <= N
      /\ \A a \in DOMAIN text.atoms :
            /\ Offset[a] \in Nat /\ AtomEnd(a) \in Nat /\ text.atoms[a].size \in Nat
            /\ text.atoms[a].branches \in Seq(BranchRecords)
  BY TextFacts
<1>2. EndOf(text.atoms) = AtomEnd(N)
  BY DEF EndOf, AtomEnd, Offset
<1>3. \A a \in DOMAIN text.atoms : AtomEnd(a) <= EndOf(text.atoms)
  <2> HIDE DEF N
  <2>1. QED
    BY <1>1, <1>2, EndsAscend
<1>4. \A i \in DOMAIN regions : regions[i] \in DOMAIN text.atoms
  <2> DEFINE D == DOMAIN text.atoms
  <2>1. regions \in Seq(D)
    BY DEF RegionsClose
  <2> HIDE DEF D
  <2>2. \A i \in DOMAIN regions : regions[i] \in D
    BY <2>1
  <2>3. QED
    BY <2>2 DEF D
<1>5. \A i \in DOMAIN regions : RegionAddr(i) \in Nat /\ RegionAddr(i) <= EndOf(text.atoms)
  BY <1>1, <1>3, <1>4 DEF RegionAddr
<1>6. ASSUME NEW br \in Branches
      PROVE  /\ br[1] \in DOMAIN text.atoms /\ Branch(br).at \in Nat
             /\ SrcAddr(br) = Offset[br[1]] + Branch(br).at
             /\ SrcAddr(br) \in Nat /\ SrcAddr(br) <= EndOf(text.atoms)
  <2> DEFINE a == br[1]
             at == Branch(br).at
  <2>1. a \in DOMAIN text.atoms /\ br[2] \in DOMAIN text.atoms[a].branches
    BY DEF Branches
  <2>2. at <= text.atoms[a].size
    BY <2>1, IslandAssumption DEF Branch
  <2>3. Branch(br) \in BranchRecords
    <3>1. text.atoms[a].branches \in Seq(BranchRecords)
      BY <1>1, <2>1
    <3>2. QED
      BY <2>1, <3>1 DEF Branch
  <2>4. at \in Nat
    BY <2>3 DEF BranchRecords
  <2>5. SrcAddr(br) = Offset[a] + at /\ AtomEnd(a) = Offset[a] + text.atoms[a].size
    BY DEF SrcAddr, AtomEnd
  <2>6. Offset[a] \in Nat /\ text.atoms[a].size \in Nat /\ AtomEnd(a) <= EndOf(text.atoms)
    BY <1>1, <1>3, <2>1
  <2>7. EndOf(text.atoms) \in Nat
    BY <1>1, <1>2
  <2> HIDE DEF a, at
  <2>8. SrcAddr(br) \in Nat /\ SrcAddr(br) <= EndOf(text.atoms)
    BY <2>2, <2>4, <2>5, <2>6, <2>7
  <2>9. QED
    BY <2>1, <2>4, <2>5, <2>8 DEF a, at
<1>7. EndOf(text.atoms) \in Nat
  BY <1>1, <1>2
<1>8. QED
  BY <1>5, <1>6, <1>7

\* A leg that is near without islands is in reach with them.
LEMMA LegInReach ==
    ASSUME NEW space \in Nat, space = Reach - Between, Between \in Nat, Reach \in Nat,
           NEW x \in Nat, NEW y \in Nat, Near(x, y),
           NEW s \in Int, x <= s, s <= x + space,
           NEW t \in Int, t <= y + space, y <= t \/ x <= t
    PROVE  t - s <= Reach /\ s - t <= Reach
BY DEF Near

\* The leg from the region a branch is in, or from the branch, to the next
LEMMA LegsOfRoute ==
    ASSUME RouteInv, Reasonable, NEW br \in DOMAIN hops, Branch(br).addend = 0
    PROVE  /\ Len(regions) \in Nat /\ DOMAIN regions = 1 .. Len(regions)
           /\ DOMAIN islands = DOMAIN regions
           /\ HopCount(br) \in 0 .. Len(regions) /\ Route(br)[HopCount(br)] = 0
           /\ \A n \in 0 .. (HopCount(br) - 1) :
                 /\ Route(br)[n] \in DOMAIN regions
                 /\ IslandFor(Route(br)[n], Key(br)) \in DOMAIN islands[Route(br)[n]]
           /\ Near(SrcAddr(br), Landing(Route(br)[0], Key(br)))
           /\ \A n \in 1 .. HopCount(br) :
                 Near(RegionAddr(Route(br)[n - 1]), Landing(Route(br)[n], Key(br)))
<1> DEFINE K == Len(regions)
           c == HopCount(br)
           r == Route(br)
<1>1. /\ text \in BranchInputs /\ RegionsClose(regions) /\ LegsNear
      /\ DOMAIN islands = DOMAIN regions
      /\ BranchesFit(hops, islands) /\ IslandsFit(islands)
  BY DEF RouteInv, IslandInv
<1>2. K \in Nat /\ DOMAIN regions = 1 .. K
  <2> DEFINE D == DOMAIN text.atoms
  <2>1. regions \in Seq(D)
    BY <1>1 DEF RegionsClose
  <2> HIDE DEF D
  <2>2. QED
    BY <2>1
<1>3. /\ \A n \in 0 .. K : r[n] # 0 => r[n] \in 1 .. K /\ Serves(islands[r[n]], Key(br))
      /\ r[0] = hops[br]
      /\ \A n \in 1 .. K : r[n] = IF r[n - 1] = 0 THEN 0 ELSE HopOn(r[n - 1], br)
  BY <1>1, <1>2, RouteSteps
<1>4. c \in 0 .. K /\ r[c] = 0 /\ \A k \in 0 .. (c - 1) : r[k] # 0
  BY <1>1, <1>2, RouteEnds
<1> HIDE DEF K, c, r
<1>5. ASSUME NEW n \in 0 .. (c - 1)
      PROVE  r[n] \in DOMAIN regions /\ Serves(islands[r[n]], Key(br))
  <2>1. n \in 0 .. K
    BY <1>2, <1>4
  <2>2. QED
    BY <1>2, <1>3, <1>4, <2>1
<1>6. Near(SrcAddr(br), Landing(r[0], Key(br)))
  <2>1. Key(br).addend = 0
    BY DEF Key
  <2>2. QED
    BY <1>1, <1>3, <2>1 DEF LegsNear, HopIsNear
<1>7. ASSUME NEW n \in 1 .. c
      PROVE  Near(RegionAddr(r[n - 1]), Landing(r[n], Key(br)))
  <2> DEFINE i == r[n - 1]
             m == IslandFor(i, Key(br))
             x == islands[i][m]
  <2>1. n - 1 \in 0 .. (c - 1) /\ n \in 1 .. K
    BY <1>2, <1>4
  <2>2. i \in DOMAIN islands /\ Serves(islands[i], Key(br)) /\ i # 0
    BY <1>1, <1>4, <1>5, <2>1
  <2>3. m \in DOMAIN islands[i] /\ x.addend = 0 /\ KeyAddr(x) = DstAddr(br)
    BY <2>2, IslandFound
  <2>4. HopIsNear(RegionAddr(i), x.next, x)
    BY <1>1, <2>2, <2>3 DEF LegsNear
  <2>5. r[n] = x.next
    BY <1>3, <2>1, <2>2 DEF HopOn
  <2>6. Landing(x.next, x) = Landing(x.next, Key(br))
    BY <2>3 DEF Landing, DstAddr
  <2> HIDE DEF x, m
  <2>7. QED
    BY <2>3, <2>4, <2>5, <2>6 DEF HopIsNear
<1>8. \A n \in 0 .. (c - 1) : IslandFor(r[n], Key(br)) \in DOMAIN islands[r[n]]
  BY <1>5, IslandFound
<1>9. QED
  BY <1>1, <1>2, <1>4, <1>5, <1>6, <1>7, <1>8 DEF K, c, r

\* In a list that is not pushed too far a branch arrives.
LEMMA BranchArrives ==
    ASSUME RouteInv, Reasonable, Laid(list, Len(text.atoms)),
           PushedAtMost(Reach - Between),
           NEW br \in DOMAIN hops, Branch(br).addend = 0
    PROVE  Arrives(br)
<1> DEFINE space == Reach - Between
           key == Key(br)
           c == HopCount(br)
           r == Route(br)
           at(i) == FinalAddr([region |-> i, place |-> IslandFor(i, key)])
           stops == Stops(br)
           start == FinalAtom(br[1]) + Branch(br).at
           target == TargetAddr(key)
           \* where a leg ends and starts by the offsets without islands
           home(n) == IF n = 0 THEN SrcAddr(br) ELSE RegionAddr(r[n - 1])
           from(n) == IF n = 1 THEN start ELSE stops[n - 1]
<1>1. /\ text \in BranchInputs /\ RegionsClose(regions) /\ br \in Branches
      /\ Reach \in Nat /\ Between \in Nat /\ space \in Nat
  BY IslandAssumption DEF RouteInv, IslandInv
<1>2. /\ DOMAIN islands = DOMAIN regions
      /\ c \in Nat /\ r[c] = 0
      /\ \A n \in 0 .. (c - 1) :
            r[n] \in DOMAIN regions /\ IslandFor(r[n], key) \in DOMAIN islands[r[n]]
      /\ Near(SrcAddr(br), Landing(r[0], key))
      /\ \A n \in 1 .. c : Near(RegionAddr(r[n - 1]), Landing(r[n], key))
  BY LegsOfRoute
<1>3. key.addend = 0 /\ key = [key EXCEPT !.addend = 0] /\ KeyAddr(key) = DstAddr(br)
  <2>1. key = [to |-> Branch(br).to, addend |-> 0]
    BY DEF Key
  <2>2. QED
    BY <2>1 DEF DstAddr
<1>4. stops = [n \in 1 .. (c + 1) |->
                  IF n <= c THEN at(r[n - 1]) + (IF n = 1 THEN key.addend ELSE 0)
                  ELSE TargetAddr(IF n = 1 THEN key ELSE [key EXCEPT !.addend = 0])]
  BY DEF Stops
<1>5. ASSUME NEW i \in DOMAIN regions, IslandFor(i, key) \in DOMAIN islands[i]
      PROVE  at(i) \in Nat /\ RegionAddr(i) <= at(i) /\ at(i) <= RegionAddr(i) + space
  BY <1>1, <1>5, PlacesFound
<1>6. /\ target \in Int /\ target <= DstAddr(br) + space
      /\ DstAddr(br) <= target \/ EndOf(text.atoms) <= target
  BY <1>1, TargetFound
<1>7. /\ EndOf(text.atoms) \in Nat
      /\ \A i \in DOMAIN regions : RegionAddr(i) \in Nat /\ RegionAddr(i) <= EndOf(text.atoms)
      /\ br[1] \in DOMAIN text.atoms /\ Branch(br).at \in Nat
      /\ SrcAddr(br) = Offset[br[1]] + Branch(br).at
      /\ SrcAddr(br) \in Nat /\ SrcAddr(br) <= EndOf(text.atoms)
  BY <1>1, InsideText
<1>8. start \in Nat /\ SrcAddr(br) <= start /\ start <= SrcAddr(br) + space
  <2>1. /\ FinalAtom(br[1]) \in Nat /\ Offset[br[1]] <= FinalAtom(br[1])
        /\ FinalAtom(br[1]) <= Offset[br[1]] + space
    BY <1>1, <1>7, PlacesFound
  <2>2. Offset[br[1]] \in Nat
    BY <1>1, <1>7, TextFacts
  <2> DEFINE o == Offset[br[1]]
             f == FinalAtom(br[1])
             b == Branch(br).at
  <2>3. /\ f \in Nat /\ o \in Nat /\ b \in Nat /\ space \in Nat
        /\ o <= f /\ f <= o + space
        /\ SrcAddr(br) = o + b /\ start = f + b
    BY <1>1, <1>7, <2>1, <2>2
  <2> HIDE DEF space, o, f, b, start
  <2>4. QED
    BY <2>3
<1>9. DstAddr(br) \in Nat
  BY <1>1, BranchAddrs
<1> HIDE DEF key, c, r, at, target, start
<1>10. \A n \in 1 .. c : stops[n] = at(r[n - 1]) /\ r[n - 1] # 0
  <2> SUFFICES ASSUME NEW n \in 1 .. c  PROVE stops[n] = at(r[n - 1]) /\ r[n - 1] # 0
    OBVIOUS
  <2>1. n - 1 \in 0 .. (c - 1) /\ n \in 1 .. (c + 1) /\ n <= c
    BY <1>2
  <2>2. r[n - 1] \in DOMAIN regions /\ at(r[n - 1]) \in Nat
    BY <1>2, <1>5, <2>1
  <2>3. stops[n] = at(r[n - 1]) + 0
    <3> HIDE DEF stops
    <3>1. QED
      BY <1>3, <1>4, <2>1
  <2>4. r[n - 1] # 0
    <3> DEFINE D == DOMAIN text.atoms
    <3>1. regions \in Seq(D)
      BY <1>1 DEF RegionsClose
    <3> HIDE DEF D
    <3>2. 0 \notin DOMAIN regions
      BY <3>1
    <3>3. QED
      BY <2>2, <3>2
  <2>5. QED
    BY <2>2, <2>3, <2>4
<1>11. stops[c + 1] = target /\ Len(stops) = c + 1 /\ DOMAIN stops = 1 .. (c + 1)
  <2>1. c + 1 \in 1 .. (c + 1) /\ ~ (c + 1 <= c)
    BY <1>2
  <2> HIDE DEF stops
  <2>2. stops[c + 1] = target
    BY <1>3, <1>4, <2>1 DEF target
  <2>3. DOMAIN stops = 1 .. (c + 1)
    BY <1>4
  <2>4. QED
    BY <1>2, <2>2, <2>3
<1> HIDE DEF stops
\* the two ends of a leg by the offsets without islands
<1>12. ASSUME NEW n \in 1 .. (c + 1)
       PROVE  /\ home(n - 1) \in Nat /\ home(n - 1) <= EndOf(text.atoms)
              /\ from(n) \in Nat /\ home(n - 1) <= from(n) /\ from(n) <= home(n - 1) + space
              /\ Near(home(n - 1), Landing(r[n - 1], key))
  <2>1. CASE n = 1
    BY <1>2, <1>7, <1>8, <2>1
  <2>2. CASE n # 1
    <3> DEFINE k == n - 1
               i == r[k - 1]
    <3>1. k \in 1 .. c /\ k - 1 \in 0 .. (c - 1) /\ k # 0 /\ n # 1
      BY <1>2, <2>2
    <3>2. i \in DOMAIN regions /\ IslandFor(i, key) \in DOMAIN islands[i]
      BY <1>2, <3>1
    <3>3. stops[k] = at(i)
      BY <1>10, <3>1
    <3>4. home(n - 1) = RegionAddr(i) /\ from(n) = at(i)
      BY <3>1, <3>3
    <3>5. Near(RegionAddr(i), Landing(r[k], key))
      BY <1>2, <3>1
    <3> HIDE DEF i, home, from
    <3>6. QED
      BY <1>5, <1>7, <3>2, <3>4, <3>5
  <2>3. QED
    BY <2>1, <2>2
<1>13. ASSUME NEW n \in 1 .. (c + 1)
       PROVE  stops[n] - from(n) <= Reach /\ from(n) - stops[n] <= Reach
  <2> DEFINE x == home(n - 1)
             s == from(n)
             t == stops[n]
             y == Landing(r[n - 1], key)
  <2>1. /\ x \in Nat /\ x <= EndOf(text.atoms) /\ s \in Int /\ x <= s /\ s <= x + space
        /\ Near(x, y)
    BY <1>12
  <2>2. y \in Nat /\ t \in Int /\ t <= y + space /\ (y <= t \/ x <= t)
    <3>1. CASE n \in 1 .. c
      <4>1. n - 1 \in 0 .. (c - 1)
        BY <1>2, <3>1
      <4>2. t = at(r[n - 1]) /\ y = RegionAddr(r[n - 1])
        BY <1>10, <3>1 DEF Landing
      <4>3. r[n - 1] \in DOMAIN regions /\ IslandFor(r[n - 1], key) \in DOMAIN islands[r[n - 1]]
        BY <1>2, <4>1
      <4> HIDE DEF t, y, space
      <4>4. QED
        BY <1>5, <1>7, <4>2, <4>3
    <3>2. CASE n \notin 1 .. c
      <4>1. n = c + 1 /\ n - 1 = c
        BY <1>2, <3>2
      <4>2. t = target /\ y = DstAddr(br)
        BY <1>2, <1>3, <1>11, <4>1 DEF Landing
      <4> HIDE DEF t, y, x, space
      <4>3. QED
        BY <1>6, <1>7, <1>9, <2>1, <4>2
    <3>3. QED
      BY <3>1, <3>2
  <2>3. space = Reach - Between
    OBVIOUS
  <2> HIDE DEF x, s, t, y, space
  <2>4. t - s <= Reach /\ s - t <= Reach
    BY <1>1, <2>1, <2>2, <2>3, LegInReach
  <2>5. QED
    BY <2>4 DEF s, t
<1>14. stops[Len(stops)] = TargetAddr(Key(br))
  BY <1>11 DEF target, key
<1>15. QED
  BY <1>11, <1>13, <1>14 DEF Arrives, stops, start

\* Whatever the text and the distances: if islands push nothing further than
\* branches reach beyond kBetweenRegions, each branch and each island that
\* makeIslandsForSection() puts on its way reaches where it goes, and the last
\* of them the branch's target.
THEOREM BranchesAlwaysReach == IslandSpec => []BranchesReach
<1>1. RouteInv => BranchesReach
  <2> SUFFICES ASSUME RouteInv, round = "done", Reasonable, PushedAtMost(Reach - Between),
                      NEW br \in DOMAIN hops, Branch(br).addend = 0
               PROVE  Arrives(br)
    <3>1. RouteInv => LegsAreShort
      BY DEF RouteInv, IslandInv, LegsNear, LegsAreShort, HopIsNear, Key
    <3>2. QED
      BY <3>1 DEF BranchesReach
  <2>1. /\ text \in BranchInputs /\ RegionsClose(regions) /\ DOMAIN islands = DOMAIN regions
        /\ \A i \in DOMAIN islands : islands[i] \in Seq(IslandRecords)
        /\ list = WithIslands
    BY DEF RouteInv, IslandInv
  <2>2. Laid(list, Len(text.atoms))
    BY <2>1, WithIslandsLaid
  <2>3. QED
    BY <2>2, BranchArrives
<1>2. QED
  BY <1>1, RouteInvInit, RouteInvStep, PTL DEF IslandSpec

------------------------------------------------------------------------------
(***************************************************************************)
(* UnwindInfo: lists in order.                                             *)
(***************************************************************************)
\* An order of a set: nothing is before itself, and of two members one is
\* before the other.
Orders(order, S) ==
    /\ \A e \in S : <<e, e>> \notin order
    /\ \A e, f, g \in S : <<e, f>> \in order /\ <<f, g>> \in order => <<e, g>> \in order
    /\ \A e, f \in S : e # f => <<e, f>> \in order \/ <<f, e>> \in order

\* How many members are before one
RankIn(S, order, e) == Cardinality({f \in S : <<f, e>> \in order})

\* Ranks are numbers, and ascend.
LEMMA RanksAscend ==
    ASSUME NEW S, IsFiniteSet(S), NEW order, Orders(order, S)
    PROVE  /\ \A e \in S : RankIn(S, order, e) \in 0 .. Cardinality(S) - 1
           /\ \A e, f \in S : <<e, f>> \in order => RankIn(S, order, e) < RankIn(S, order, f)
<1> DEFINE Low(e) == {f \in S : <<f, e>> \in order}
<1>1. ASSUME NEW e \in S
      PROVE  /\ IsFiniteSet(Low(e)) /\ Cardinality(Low(e)) \in 0 .. Cardinality(S) - 1
             /\ Low(e) \subseteq S /\ e \notin Low(e)
  <2>1. Low(e) \in SUBSET S /\ e \notin Low(e)
    BY DEF Orders
  <2> HIDE DEF Low
  <2>2. IsFiniteSet(Low(e)) /\ Cardinality(Low(e)) <= Cardinality(S)
        /\ (Cardinality(S) = Cardinality(Low(e)) => S = Low(e))
    BY <2>1, FS_Subset
  <2>3. Cardinality(S) \in Nat /\ Cardinality(Low(e)) \in Nat
    BY <2>2, FS_CardinalityType
  <2>4. QED
    BY <2>1, <2>2, <2>3
<1>2. ASSUME NEW e \in S, NEW f \in S, <<e, f>> \in order
      PROVE  Cardinality(Low(e)) < Cardinality(Low(f))
  <2>1. Low(e) \in SUBSET Low(f) /\ e \in Low(f)
    BY <1>2 DEF Orders
  <2>2. e \notin Low(e) /\ IsFiniteSet(Low(f))
    BY <1>1
  <2> HIDE DEF Low
  <2>3. Cardinality(Low(e)) <= Cardinality(Low(f))
        /\ (Cardinality(Low(f)) = Cardinality(Low(e)) => Low(f) = Low(e))
    BY <2>1, <2>2, FS_Subset
  <2>4. Cardinality(Low(e)) \in Int /\ Cardinality(Low(f)) \in Int
    BY <1>1
  <2>5. QED
    BY <2>1, <2>2, <2>3, <2>4
<1>3. QED
  BY <1>1, <1>2 DEF RankIn

\* A list by ranks has every member once, in order.
LEMMA RankedIs ==
    ASSUME NEW S, IsFiniteSet(S), NEW order, Orders(order, S)
    PROVE  /\ Ranked(S, order) \in [1 .. Cardinality(S) -> S]
           /\ Cardinality(S) \in Nat
           /\ \A e \in S : /\ RankIn(S, order, e) + 1 \in 1 .. Cardinality(S)
                           /\ Ranked(S, order)[RankIn(S, order, e) + 1] = e
           /\ \A m, n \in 1 .. Cardinality(S) :
                 m < n => <<Ranked(S, order)[m], Ranked(S, order)[n]>> \in order
<1> DEFINE N == Cardinality(S)
           Rank(e) == RankIn(S, order, e)
           rank == [e \in S |-> Rank(e)]
           row == Ranked(S, order)
<1>1. N \in Nat
  BY FS_CardinalityType
<1>2. \A e \in S : Rank(e) \in 0 .. N - 1
  BY RanksAscend
<1>3. \A e, f \in S : <<e, f>> \in order => Rank(e) < Rank(f)
  BY RanksAscend
<1>4. \A e, f \in S : e # f => <<e, f>> \in order \/ <<f, e>> \in order
  BY DEF Orders
<1>10. row = [n \in 1 .. N |-> CHOOSE e \in S : rank[e] = n - 1]
  BY DEF Ranked, RankIn
<1> HIDE DEF N, Rank, row
<1>5. \A e, f \in S : Rank(e) = Rank(f) => e = f
  <2> SUFFICES ASSUME NEW e \in S, NEW f \in S, Rank(e) = Rank(f), e # f  PROVE FALSE
    OBVIOUS
  <2>1. Rank(e) < Rank(f) \/ Rank(f) < Rank(e)
    BY <1>3, <1>4
  <2>2. Rank(e) \in Int
    BY <1>2
  <2>3. QED
    BY <2>1, <2>2
<1>6. rank \in Injection(S, 0 .. N - 1)
  <2>1. rank \in [S -> 0 .. N - 1]
    BY <1>2
  <2>2. \A e, f \in S : rank[e] = rank[f] => e = f
    BY <1>5
  <2> HIDE DEF rank
  <2>3. QED
    BY <2>1, <2>2 DEF Injection, IsInjective
<1>7. IsFiniteSet(0 .. N - 1) /\ Cardinality(0 .. N - 1) = N
  <2>1. 0 \in Int /\ N - 1 \in Int
    BY <1>1
  <2>2. QED
    BY <1>1, <2>1, FS_Interval
<1>8. \A k \in 0 .. N - 1 : \E e \in S : rank[e] = k
  <2> HIDE DEF rank
  <2>1. Cardinality(S) = Cardinality(0 .. N - 1)
    BY <1>7 DEF N
  <2>2. rank \in Surjection(S, 0 .. N - 1)
    BY <1>6, <1>7, <2>1, FS_Injection
  <2>3. QED
    BY <2>2 DEF Surjection
<1>11. ASSUME NEW n \in 1 .. N  PROVE row[n] \in S /\ Rank(row[n]) = n - 1
  <2>1. n - 1 \in 0 .. N - 1
    BY <1>1
  <2>2. \E e \in S : rank[e] = n - 1
    BY <1>8, <2>1
  <2>3. row[n] = CHOOSE e \in S : rank[e] = n - 1
    BY <1>10
  <2>4. row[n] \in S /\ rank[row[n]] = n - 1
    <3> HIDE DEF rank
    <3>1. QED
      BY <2>2, <2>3
  <2>5. QED
    BY <2>4
<1>12. row \in [1 .. N -> S]
  BY <1>10, <1>11
<1>13. ASSUME NEW e \in S  PROVE Rank(e) + 1 \in 1 .. N /\ row[Rank(e) + 1] = e
  <2>1. Rank(e) \in 0 .. N - 1
    BY <1>2
  <2>2. Rank(e) + 1 \in 1 .. N /\ (Rank(e) + 1) - 1 = Rank(e)
    BY <1>1, <2>1
  <2>3. Rank(row[Rank(e) + 1]) = Rank(e) /\ row[Rank(e) + 1] \in S
    BY <1>11, <2>2
  <2>4. QED
    BY <1>5, <2>2, <2>3
<1>14. ASSUME NEW m \in 1 .. N, NEW n \in 1 .. N, m < n
       PROVE  <<row[m], row[n]>> \in order
  <2>1. /\ row[m] \in S /\ Rank(row[m]) = m - 1
        /\ row[n] \in S /\ Rank(row[n]) = n - 1
    BY <1>11
  <2>2. m - 1 # n - 1 /\ ~ (n - 1 < m - 1)
    BY <1>1, <1>14
  <2>3. QED
    BY <1>3, <1>4, <2>1, <2>2
<1>15. QED
  BY <1>1, <1>12, <1>13, <1>14 DEF N, Rank, row

\* Numbers in ascending order, each once
LEMMA AscendingIs ==
    ASSUME NEW S \in SUBSET Int, IsFiniteSet(S)
    PROVE  /\ Ascending(S) \in [1 .. Cardinality(S) -> S]
           /\ Cardinality(S) \in Nat
           /\ \A e \in S :
                 /\ Cardinality({f \in S : f < e}) + 1 \in 1 .. Cardinality(S)
                 /\ Ascending(S)[Cardinality({f \in S : f < e}) + 1] = e
           /\ \A m, n \in 1 .. Cardinality(S) : m < n => Ascending(S)[m] < Ascending(S)[n]
<1> DEFINE order == {p \in S \X S : p[1] < p[2]}
<1>1. \A e, f \in S : <<e, f>> \in order <=> e < f
  OBVIOUS
<1>2. Ascending(S) = Ranked(S, order)
  BY DEF Ascending
<1> HIDE DEF order
<1>3. Orders(order, S)
  <2>1. \A e, f, g \in S : ~ (e < e) /\ (e < f /\ f < g => e < g) /\ (e # f => e < f \/ f < e)
    OBVIOUS
  <2>2. QED
    BY <1>1, <2>1 DEF Orders
<1>4. \A e \in S : RankIn(S, order, e) = Cardinality({f \in S : f < e})
  <2>1. ASSUME NEW e \in S
        PROVE  {f \in S : <<f, e>> \in order} = {f \in S : f < e}
    BY <1>1
  <2>2. QED
    BY <2>1 DEF RankIn
<1>5. /\ Ranked(S, order) \in [1 .. Cardinality(S) -> S]
      /\ Cardinality(S) \in Nat
      /\ \A e \in S : /\ RankIn(S, order, e) + 1 \in 1 .. Cardinality(S)
                      /\ Ranked(S, order)[RankIn(S, order, e) + 1] = e
      /\ \A m, n \in 1 .. Cardinality(S) :
            m < n => <<Ranked(S, order)[m], Ranked(S, order)[n]>> \in order
  BY <1>3, RankedIs
<1>6. \A m, n \in 1 .. Cardinality(S) : m < n => Ranked(S, order)[m] < Ranked(S, order)[n]
  <2> SUFFICES ASSUME NEW m \in 1 .. Cardinality(S), NEW n \in 1 .. Cardinality(S), m < n
               PROVE  Ranked(S, order)[m] < Ranked(S, order)[n]
    OBVIOUS
  <2>1. Ranked(S, order)[m] \in S /\ Ranked(S, order)[n] \in S
    BY <1>5
  <2>2. QED
    BY <1>1, <1>5, <2>1
<1>7. QED
  BY <1>2, <1>4, <1>5, <1>6

\* In an ascending list of numbers an entry is before those that are greater.
LEMMA AscendingPlaces ==
    ASSUME NEW N \in Nat, NEW row \in [1 .. N -> Int],
           \A m, n \in 1 .. N : m < n => row[m] < row[n]
    PROVE  \A m, n \in 1 .. N : row[m] <= row[n] => m <= n
<1> SUFFICES ASSUME NEW m \in 1 .. N, NEW n \in 1 .. N, row[m] <= row[n], ~ (m <= n)
             PROVE  FALSE
  OBVIOUS
<1>1. n < m /\ row[m] \in Int /\ row[n] \in Int
  OBVIOUS
<1>2. row[n] < row[m]
  BY <1>1
<1>3. QED
  BY <1>1, <1>2

\* Sums of natural numbers
LEMMA SumsAre ==
    ASSUME NEW numbers \in Seq(Nat)
    PROVE  /\ Sums(numbers) \in [0 .. Len(numbers) -> Nat]
           /\ Sums(numbers)[0] = 0
           /\ \A k \in 1 .. Len(numbers) : Sums(numbers)[k] = Sums(numbers)[k - 1] + numbers[k]
<1> DEFINE m == Len(numbers)
           g == [p \in (1 .. m) \X Nat |-> p[2] + numbers[p[1]]]
           Is(f) == f = [k \in 0 .. m |-> IF k = 0 THEN 0 ELSE f[k - 1] + numbers[k]]
<1>1. m \in Nat /\ \A k \in 1 .. m : numbers[k] \in Nat
  OBVIOUS
<1> HIDE DEF m
<1>2. IsStep(g, m, Nat)
  BY <1>1 DEF IsStep
<1>3. PICK f : IsSolution(f, m, Nat, 0, g)
  <2> HIDE DEF g
  <2>1. 0 \in Nat
    OBVIOUS
  <2>2. QED
    BY <1>1, <1>2, <2>1, RecursionSolved
<1>4. \A k \in 1 .. m : k \in 0 .. m /\ k - 1 \in 0 .. m /\ k # 0
  BY <1>1
<1>5. \A k \in 0 .. m : f[k] = IF k = 0 THEN 0 ELSE f[k - 1] + numbers[k]
  <2>1. ASSUME NEW k \in 0 .. m, k # 0  PROVE f[k] = f[k - 1] + numbers[k]
    <3>1. k \in 1 .. m /\ k - 1 \in 0 .. m
      BY <1>1, <2>1
    <3>2. f[k - 1] \in Nat /\ f[k] = g[<<k, f[k - 1]>>]
      BY <1>3, <2>1, <3>1 DEF IsSolution
    <3>3. QED
      BY <3>1, <3>2
  <2> HIDE DEF g, Is
  <2>2. f[0] = 0
    <3>1. 0 \in 0 .. m
      BY <1>1
    <3>2. f[0] = IF 0 = 0 THEN 0 ELSE g[<<0, f[0 - 1]>>]
      BY ONLY <1>3, <3>1 DEF IsSolution
    <3>3. QED
      BY <3>2
  <2>3. QED
    BY <2>1, <2>2
<1>6. Is(f)
  <2>1. f = [k \in 0 .. m |-> f[k]]
    BY <1>3 DEF IsSolution
  <2> HIDE DEF g
  <2>2. QED
    BY <1>5, <2>1
<1>7. Sums(numbers) = CHOOSE h : Is(h)
  BY DEF Sums, m
<1>8. Is(Sums(numbers))
  <2> HIDE DEF Is
  <2>1. QED
    BY <1>6, <1>7
<1> DEFINE s == Sums(numbers)
<1>9. s = [k \in 0 .. m |-> IF k = 0 THEN 0 ELSE s[k - 1] + numbers[k]]
  BY <1>8
<1> HIDE DEF s, Is
<1>10. s[0] = 0 /\ \A k \in 1 .. m : s[k] = s[k - 1] + numbers[k]
  BY <1>1, <1>4, <1>9
<1>11. \A k \in 0 .. m : s[k] \in Nat
  <2> DEFINE bad == {k \in 0 .. m : s[k] \notin Nat}
  <2> SUFFICES ASSUME bad # {}  PROVE FALSE
    OBVIOUS
  <2>1. bad \in SUBSET Nat
    BY <1>1
  <2>2. PICK k \in bad : \A j \in bad : k <= j
    <3> HIDE DEF bad
    <3>1. QED
      BY <2>1, LeastNumber
  <2>3. k # 0 /\ k \in 1 .. m /\ k - 1 \in 0 .. m /\ ~ (k <= k - 1)
    BY <1>1, <1>10
  <2>4. s[k - 1] \in Nat
    BY <2>2, <2>3
  <2>5. s[k] = s[k - 1] + numbers[k] /\ numbers[k] \in Nat
    BY <1>1, <1>10, <2>3
  <2>6. s[k] \in Nat /\ s[k] \notin Nat
    BY <2>2, <2>4, <2>5
  <2>7. QED
    BY <2>6
<1>12. s \in [0 .. m -> Nat]
  BY <1>9, <1>11
<1>13. QED
  BY <1>10, <1>12 DEF s, m

\* Sums ascend.
LEMMA SumsAscend ==
    ASSUME NEW numbers \in Seq(Nat), NEW i \in 0 .. Len(numbers), NEW j \in 0 .. Len(numbers),
           i <= j
    PROVE  Sums(numbers)[i] <= Sums(numbers)[j]
<1> DEFINE m == Len(numbers)
           s == Sums(numbers)
           bad == {k \in 0 .. m : i <= k /\ ~ (s[i] <= s[k])}
<1>1. /\ m \in Nat /\ i \in 0 .. m /\ j \in 0 .. m /\ s \in [0 .. m -> Nat]
      /\ \A k \in 1 .. m : numbers[k] \in Nat /\ s[k] = s[k - 1] + numbers[k]
  BY SumsAre
<1> HIDE DEF m, s
<1>2. bad = {}
  <2> SUFFICES ASSUME bad # {}  PROVE FALSE
    OBVIOUS
  <2>1. bad \in SUBSET Nat
    BY <1>1
  <2>2. PICK k \in bad : \A h \in bad : k <= h
    <3> HIDE DEF bad
    <3>1. QED
      BY <2>1, LeastNumber
  <2>3. k # i /\ k \in 1 .. m /\ k - 1 \in 0 .. m /\ i <= k - 1 /\ ~ (k <= k - 1)
    BY <1>1, SMTT(30)
  <2>4. s[i] <= s[k - 1]
    BY <2>2, <2>3
  <2>5. s[k] = s[k - 1] + numbers[k] /\ numbers[k] \in Nat /\ s[k - 1] \in Nat /\ s[i] \in Nat
    BY <1>1, <2>3
  <2>6. QED
    BY <2>2, <2>4, <2>5
<1>3. QED
  BY <1>1, <1>2 DEF s

\* Some of the first numbers
LEMMA PartOfInterval ==
    ASSUME NEW N \in Nat, NEW S \in SUBSET (1 .. N)
    PROVE  S \in SUBSET Int /\ IsFiniteSet(S)
<1>1. IsFiniteSet(1 .. N)
  <2>1. 1 \in Int /\ N \in Int
    OBVIOUS
  <2>2. QED
    BY <2>1, FS_Interval
<1>2. IsFiniteSet(S)
  BY <1>1, FS_Subset
<1>3. S \in SUBSET Int
  OBVIOUS
<1>4. QED
  BY <1>2, <1>3

------------------------------------------------------------------------------
(***************************************************************************)
(* UnwindInfo: the entries.                                                *)
(***************************************************************************)
Encodings == [mode : {"none", "frame", "stackInd", "dwarf"}, saved : Nat, personality : Nat]

UnwindEntries == [func : Nat, encoding : Encodings, lsda : BOOLEAN, personality : Nat]

\* What is known of the atoms of an input
LEMMA UnwoundAtoms ==
    ASSUME program \in UnwindInputs
    PROVE  /\ Len(program.atoms) \in Nat /\ DOMAIN program.atoms = 1 .. Len(program.atoms)
           /\ program.ehFrame \in Nat
           /\ \A a \in DOMAIN program.atoms :
                 Code(a) \in UnwoundRecords /\ (Listed(a) => Code(a).size > 0)
<1>1. program.atoms \in Seq(UnwoundRecords) /\ program.ehFrame \in Nat
      /\ \A a \in DOMAIN program.atoms : Code(a).unwind => Code(a).size > 0
  BY UnwindAssumption DEF Code
<1>2. ASSUME NEW a \in DOMAIN program.atoms
      PROVE  Code(a) \in UnwoundRecords /\ (Listed(a) => Code(a).size > 0)
  <2>1. Code(a) \in UnwoundRecords
    BY <1>1 DEF Code
  <2>2. Code(a).size \in Nat
    BY <2>1 DEF UnwoundRecords
  <2>3. QED
    BY <1>1, <2>1, <2>2 DEF Listed
<1>3. QED
  BY <1>1, <1>2

\* A function on the first numbers is a sequence.
LEMMA NumberedIsSequence ==
    ASSUME NEW L \in Nat, NEW f \in [1 .. L -> Nat]
    PROVE  f \in Seq(Nat) /\ Len(f) = L
<1>1. f \in Seq(Nat)
  OBVIOUS
<1>2. DOMAIN f = 1 .. L
  OBVIOUS
<1>3. QED
  BY <1>1, <1>2

\* The layout moves functions apart, and never changes their order.
LEMMA AddressesAscend ==
    ASSUME program \in UnwindInputs
    PROVE  /\ Gaps[Len(program.atoms)] \in Nat
           /\ \A a \in DOMAIN program.atoms : TentAddress(a) \in Nat /\ Address(a) \in Nat
           /\ \A a, b \in DOMAIN program.atoms : a < b =>
                 /\ TentAddress(a) + Code(a).size <= TentAddress(b)
                 /\ Address(a) + Code(a).size <= Address(b)
                 /\ Address(b) - Address(a)
                       <= (TentAddress(b) - TentAddress(a)) + Gaps[Len(program.atoms)]
<1> DEFINE sizes == [a \in DOMAIN program.atoms |-> Code(a).size]
           gaps == [a \in DOMAIN program.atoms |-> Code(a).gap]
           L == Len(program.atoms)
           S == Sums(sizes)
           G == Sums(gaps)
<1>1. L \in Nat /\ DOMAIN program.atoms = 1 .. L
      /\ \A a \in 1 .. L : Code(a).size \in Nat /\ Code(a).gap \in Nat
  BY UnwoundAtoms DEF UnwoundRecords
<1>2. sizes \in Seq(Nat) /\ gaps \in Seq(Nat) /\ Len(sizes) = L /\ Len(gaps) = L
      /\ \A a \in 1 .. L : sizes[a] = Code(a).size
  <2> HIDE DEF L
  <2>1. sizes = [a \in 1 .. L |-> Code(a).size] /\ gaps = [a \in 1 .. L |-> Code(a).gap]
    BY <1>1
  <2> HIDE DEF sizes, gaps
  <2>2. sizes \in [1 .. L -> Nat] /\ gaps \in [1 .. L -> Nat]
    BY <1>1, <2>1
  <2>3. \A a \in 1 .. L : sizes[a] = Code(a).size
    BY <2>1
  <2>4. L \in Nat
    BY <1>1
  <2>5. sizes \in Seq(Nat) /\ Len(sizes) = L
    BY <2>2, <2>4, NumberedIsSequence
  <2>6. gaps \in Seq(Nat) /\ Len(gaps) = L
    BY <2>2, <2>4, NumberedIsSequence
  <2>7. QED
    BY <2>3, <2>5, <2>6
<1>3. \A a : TentAddress(a) = S[a - 1] /\ Address(a) = S[a - 1] + G[a] /\ Gaps[L] = G[L]
  BY DEF TentAddress, Address, Gaps
<1> HIDE DEF sizes, gaps, L
<1>4. S \in [0 .. L -> Nat] /\ G \in [0 .. L -> Nat]
      /\ \A a \in 1 .. L : S[a] = S[a - 1] + Code(a).size
  <2>1. /\ S \in [0 .. Len(sizes) -> Nat]
        /\ \A a \in 1 .. Len(sizes) : S[a] = S[a - 1] + sizes[a]
    BY <1>2, SumsAre
  <2>2. G \in [0 .. Len(gaps) -> Nat]
    BY <1>2, SumsAre
  <2> HIDE DEF S, G
  <2>3. Len(sizes) = L /\ Len(gaps) = L /\ \A a \in 1 .. L : sizes[a] = Code(a).size
    BY <1>2
  <2>4. \A a \in 1 .. L : S[a] = S[a - 1] + Code(a).size
    BY <2>1, <2>3
  <2>5. QED
    BY <2>1, <2>2, <2>3, <2>4
<1>5. \A i, j \in 0 .. L : i <= j => S[i] <= S[j] /\ G[i] <= G[j]
  BY <1>2, SumsAscend
<1> HIDE DEF S, G
<1>6. \A a \in 1 .. L : a \in 0 .. L /\ a - 1 \in 0 .. L /\ L \in 0 .. L
  BY <1>1
<1>7. Gaps[L] \in Nat
  <2>1. L \in 0 .. L
    BY <1>1
  <2>2. QED
    BY <1>3, <1>4, <2>1
<1>8. ASSUME NEW a \in 1 .. L
      PROVE  TentAddress(a) \in Nat /\ Address(a) \in Nat
  <2>1. a \in 0 .. L /\ a - 1 \in 0 .. L
    BY <1>6
  <2>2. S[a - 1] \in Nat /\ G[a] \in Nat
    BY <1>4, <2>1
  <2>3. QED
    BY <1>3, <2>2
<1>9. ASSUME NEW a \in 1 .. L, NEW b \in 1 .. L, a < b
      PROVE  /\ TentAddress(a) + Code(a).size <= TentAddress(b)
             /\ Address(a) + Code(a).size <= Address(b)
             /\ Address(b) - Address(a) <= (TentAddress(b) - TentAddress(a)) + Gaps[L]
  <2>1. a \in 0 .. L /\ b \in 0 .. L /\ a - 1 \in 0 .. L /\ b - 1 \in 0 .. L /\ L \in 0 .. L
        /\ a <= b - 1 /\ a <= b /\ b <= L
    BY <1>1, <1>9
  <2>2. S[a] <= S[b - 1] /\ G[a] <= G[b] /\ G[b] <= G[L] /\ S[a] = S[a - 1] + Code(a).size
    BY <1>4, <1>5, <2>1
  <2>3. {S[a - 1], S[a], S[b - 1], G[a], G[b], G[L], Code(a).size} \subseteq Nat
    BY <1>1, <1>4, <2>1
  <2>4. TentAddress(a) = S[a - 1] /\ TentAddress(b) = S[b - 1] /\ Gaps[L] = G[L]
        /\ Address(a) = S[a - 1] + G[a] /\ Address(b) = S[b - 1] + G[b]
    BY <1>3
  <2>5. QED
    BY <2>2, <2>3, <2>4
<1>10. QED
  BY <1>1, <1>7, <1>8, <1>9 DEF L

\* The entry of an atom is an entry.
LEMMA EntryTyped ==
    ASSUME program \in UnwindInputs, NEW a \in DOMAIN program.atoms
    PROVE  EntryFor(a) \in UnwindEntries /\ EntryFor(a).func = a
<1>1. a \in Nat /\ Code(a) \in UnwoundRecords
  BY UnwoundAtoms
<1>2. Code(a).mode \in {"none", "frame", "stackInd", "dwarf"} /\ Code(a).saved \in Nat
      /\ Code(a).unwind \in BOOLEAN /\ Code(a).lsda \in BOOLEAN /\ Code(a).personality \in Nat
  BY <1>1 DEF UnwoundRecords
<1>3. [mode |-> Code(a).mode, saved |-> Code(a).saved, personality |-> 0] \in Encodings
      /\ NoEncoding \in Encodings
  BY <1>2 DEF Encodings, NoEncoding
<1>4. QED
  BY <1>1, <1>2, <1>3 DEF EntryFor, UnwindEntries, Nothing

\* The entries are those of the listed atoms, in their order.
LEMMA AllEntriesAre ==
    ASSUME program \in UnwindInputs
    PROVE  \E N \in Nat :
              /\ AllEntries \in [1 .. N -> UnwindEntries]
              /\ \A i \in 1 .. N : /\ AllEntries[i].func \in DOMAIN program.atoms
                                   /\ Listed(AllEntries[i].func)
                                   /\ AllEntries[i] = EntryFor(AllEntries[i].func)
              /\ \A a \in DOMAIN program.atoms :
                    Listed(a) => \E i \in 1 .. N : AllEntries[i].func = a
              /\ \A i, j \in 1 .. N : i < j => AllEntries[i].func < AllEntries[j].func
<1> DEFINE S == {a \in DOMAIN program.atoms : Listed(a)}
           N == Cardinality(S)
           funcs == Ascending(S)
<1>1. S \in SUBSET (1 .. Len(program.atoms)) /\ Len(program.atoms) \in Nat
  BY UnwoundAtoms
<1>2. S \in SUBSET Int /\ IsFiniteSet(S)
  <2> HIDE DEF S
  <2>1. QED
    BY <1>1, PartOfInterval
<1>3. /\ funcs \in [1 .. N -> S] /\ N \in Nat
      /\ \A a \in S : \E i \in 1 .. N : funcs[i] = a
      /\ \A i, j \in 1 .. N : i < j => funcs[i] < funcs[j]
  <2> HIDE DEF S
  <2>1. QED
    BY <1>2, AscendingIs
<1>4. AllEntries = [i \in 1 .. N |-> EntryFor(funcs[i])]
  <2> HIDE DEF N
  <2>1. AllEntries = [i \in DOMAIN funcs |-> EntryFor(funcs[i])]
    BY DEF AllEntries
  <2> HIDE DEF funcs
  <2>2. QED
    BY <1>3, <2>1
<1>5. \A a \in S : a \in DOMAIN program.atoms /\ Listed(a)
  OBVIOUS
<1>6. \A a \in DOMAIN program.atoms : Listed(a) => a \in S
  OBVIOUS
<1> HIDE DEF S, N, funcs
<1>7. ASSUME NEW i \in 1 .. N
      PROVE  /\ AllEntries[i] \in UnwindEntries /\ AllEntries[i].func = funcs[i]
             /\ funcs[i] \in S /\ AllEntries[i] = EntryFor(funcs[i])
  <2>1. funcs[i] \in S /\ funcs[i] \in DOMAIN program.atoms
    BY <1>3, <1>5
  <2>2. AllEntries[i] = EntryFor(funcs[i])
    BY <1>4
  <2>3. QED
    BY <2>1, <2>2, EntryTyped
<1>8. AllEntries \in [1 .. N -> UnwindEntries]
  BY <1>4, <1>7
<1>9. \A i \in 1 .. N : /\ AllEntries[i].func \in DOMAIN program.atoms
                        /\ Listed(AllEntries[i].func)
                        /\ AllEntries[i] = EntryFor(AllEntries[i].func)
  BY <1>5, <1>7
<1>10. \A a \in DOMAIN program.atoms : Listed(a) => \E i \in 1 .. N : AllEntries[i].func = a
  BY <1>3, <1>6, <1>7
<1>11. \A i, j \in 1 .. N : i < j => AllEntries[i].func < AllEntries[j].func
  BY <1>3, <1>7
<1>12. QED
  BY <1>3, <1>8, <1>9, <1>10, <1>11

\* Entry k stands for entry i: it is the entry, or says the same, with
\* neither an FDE nor an LSDA.
StandsFor(entries, k, i) ==
    /\ entries[k].encoding = entries[i].encoding
    /\ entries[k].personality = entries[i].personality
    /\ \/ k = i
       \/ ~ UsesDwarf(entries[i].encoding) /\ ~ entries[i].lsda /\ ~ entries[k].lsda

\* Of the entries that are kept, the last one before an entry, or the entry
\* itself, stands for it.
LEMMA CompressedStands ==
    ASSUME NEW N \in Nat, NEW entries \in [1 .. N -> UnwindEntries]
    PROVE  \E M \in Nat : \E at \in [1 .. M -> 1 .. N] :
              /\ Compressed(entries) = [m \in 1 .. M |-> entries[at[m]]]
              /\ \A m, n \in 1 .. M : m < n => at[m] < at[n]
              /\ \A i \in 1 .. N : \E m \in 1 .. M :
                    /\ at[m] <= i /\ StandsFor(entries, at[m], i)
                    /\ \A n \in 1 .. M : m < n => i < at[n]
<1> DEFINE S == {i \in DOMAIN entries : ~ SameAsLast(entries, i)}
           M == Cardinality(S)
           at == Ascending(S)
           Stands(i, m) == /\ at[m] <= i /\ StandsFor(entries, at[m], i)
                           /\ \A n \in 1 .. M : m < n => i < at[n]
           bad == {i \in 1 .. N : \A m \in 1 .. M : ~ Stands(i, m)}
<1>1. S \in SUBSET (1 .. N)
  OBVIOUS
<1>2. S \in SUBSET Int /\ IsFiniteSet(S)
  <2> HIDE DEF S
  <2>1. QED
    BY <1>1, PartOfInterval
<1>3. /\ at \in [1 .. M -> S] /\ M \in Nat
      /\ \A i \in S : \E m \in 1 .. M : at[m] = i
      /\ \A m, n \in 1 .. M : m < n => at[m] < at[n]
  <2> HIDE DEF S
  <2>1. QED
    BY <1>2, AscendingIs
<1>4. Compressed(entries) = [m \in 1 .. M |-> entries[at[m]]]
  <2> HIDE DEF M
  <2>1. Compressed(entries) = [m \in DOMAIN at |-> entries[at[m]]]
    BY DEF Compressed
  <2> HIDE DEF at
  <2>2. QED
    BY <1>3, <2>1
<1>5. \A i \in 1 .. N : i \in S <=> ~ SameAsLast(entries, i)
  OBVIOUS
<1> HIDE DEF S, M, at
<1>6. at \in [1 .. M -> 1 .. N]
  BY <1>1, <1>3
<1>7. bad = {}
  <2> SUFFICES ASSUME bad # {}  PROVE FALSE
    OBVIOUS
  <2>1. bad \in SUBSET Nat
    OBVIOUS
  <2>2. PICK i \in bad : \A j \in bad : i <= j
    <3> HIDE DEF bad
    <3>1. QED
      BY <2>1, LeastNumber
  <2>3. i \in 1 .. N /\ \A m \in 1 .. M : ~ Stands(i, m)
    BY <2>2
  <2>4. CASE i \in S
    <3>1. PICK m \in 1 .. M : at[m] = i
      BY <1>3, <2>4
    <3>2. \A n \in 1 .. M : m < n => i < at[n]
      BY <1>3, <3>1
    <3>3. StandsFor(entries, at[m], i)
      BY <3>1 DEF StandsFor
    <3>4. Stands(i, m)
      BY <2>3, <3>1, <3>2, <3>3
    <3>5. QED
      BY <2>3, <3>4
  <2>5. CASE i \notin S
    <3>1. SameAsLast(entries, i)
      BY <1>5, <2>3, <2>5
    <3>2. i - 1 \in 1 .. N /\ ~ (i <= i - 1)
      BY <2>3, <3>1 DEF SameAsLast
    <3>3. i - 1 \notin bad
      BY <2>2, <3>2
    <3>4. PICK m \in 1 .. M : Stands(i - 1, m)
      BY <3>2, <3>3
    <3>5. at[m] <= i
      BY <1>6, <2>3, <3>4
    <3>6. \A n \in 1 .. M : m < n => i < at[n]
      <4> SUFFICES ASSUME NEW n \in 1 .. M, m < n  PROVE i < at[n]
        OBVIOUS
      <4>1. i - 1 < at[n] /\ at[n] # i /\ at[n] \in 1 .. N
        BY <1>3, <1>6, <2>5, <3>4
      <4>2. QED
        BY <2>3, <4>1
    <3>7. StandsFor(entries, at[m], i)
      <4>1. StandsFor(entries, at[m], i - 1)
        BY <3>4
      <4>2. /\ ~ UsesDwarf(entries[i].encoding)
            /\ entries[i].encoding = entries[i - 1].encoding
            /\ entries[i].personality = entries[i - 1].personality
            /\ ~ entries[i].lsda /\ ~ entries[i - 1].lsda
        BY <3>1 DEF SameAsLast
      <4>3. QED
        BY <4>1, <4>2 DEF StandsFor
    <3>8. QED
      BY <2>3, <3>5, <3>6, <3>7
  <2>6. QED
    BY <2>4, <2>5
<1>8. \A i \in 1 .. N : \E m \in 1 .. M : Stands(i, m)
  BY <1>7
<1>9. QED
  BY <1>3, <1>4, <1>6, <1>8

\* Each routine that is used has an index.
LEMMA PersonalityFound ==
    ASSUME NEW N \in Nat, NEW entries \in [1 .. N -> UnwindEntries], NEW i \in 1 .. N,
           entries[i].personality # Nothing
    PROVE  LET routines == PersonalitiesOf(entries)
               n == PersonalityIndex(routines, entries[i].personality)
           IN  n \in Nat /\ n > 0 /\ routines[n] = entries[i].personality
<1> DEFINE S == {j \in DOMAIN entries :
                    /\ entries[j].personality # Nothing
                    /\ \A h \in 1 .. (j - 1) : entries[h].personality # entries[j].personality}
           M == Cardinality(S)
           first == Ascending(S)
           routines == PersonalitiesOf(entries)
           p == entries[i].personality
           alike == {j \in 1 .. N : entries[j].personality = p}
<1>1. S \in SUBSET (1 .. N)
  OBVIOUS
<1>2. S \in SUBSET Int /\ IsFiniteSet(S)
  <2> HIDE DEF S
  <2>1. QED
    BY <1>1, PartOfInterval
<1>3. /\ first \in [1 .. M -> S] /\ M \in Nat
      /\ \A j \in S : \E m \in 1 .. M : first[m] = j
  <2> HIDE DEF S
  <2>1. QED
    BY <1>2, AscendingIs
<1>4. routines = [m \in 1 .. M |-> entries[first[m]].personality]
  <2> HIDE DEF M
  <2>1. routines = [m \in DOMAIN first |-> entries[first[m]].personality]
    BY DEF PersonalitiesOf
  <2> HIDE DEF first, routines
  <2>2. QED
    BY <1>3, <2>1
<1>5. \E j \in S : entries[j].personality = p
  <2>1. alike \in SUBSET Nat /\ i \in alike
    OBVIOUS
  <2>2. PICK j \in alike : \A h \in alike : j <= h
    <3> HIDE DEF alike
    <3>1. QED
      BY <2>1, LeastNumber
  <2>3. j \in 1 .. N /\ entries[j].personality = p
    BY <2>2
  <2>4. ASSUME NEW h \in 1 .. (j - 1)  PROVE entries[h].personality # p
    <3>1. h \in 1 .. N /\ ~ (j <= h)
      BY <2>3
    <3>2. QED
      BY <2>2, <3>1
  <2>5. j \in S
    BY <2>3, <2>4
  <2>6. QED
    BY <2>3, <2>5
<1> HIDE DEF S, M, first, routines
<1>6. \E n \in DOMAIN routines : routines[n] = p
  BY <1>3, <1>4, <1>5
<1>7. PersonalityIndex(routines, p) = CHOOSE n \in DOMAIN routines : routines[n] = p
  BY DEF PersonalityIndex
<1>8. PersonalityIndex(routines, p) \in DOMAIN routines /\ routines[PersonalityIndex(routines, p)] = p
  <2> HIDE DEF p
  <2>1. QED
    BY <1>6, <1>7
<1>9. DOMAIN routines = 1 .. M
  BY <1>4
<1>10. QED
  BY <1>3, <1>8, <1>9 DEF routines

\* The entries with their personalities
LEMMA WithPersonalitiesIs ==
    ASSUME NEW N \in Nat, NEW entries \in [1 .. N -> UnwindEntries]
    PROVE  /\ WithPersonalities(entries) \in [1 .. N -> UnwindEntries]
           /\ \A i \in 1 .. N :
                 LET e == WithPersonalities(entries)[i]
                     p == entries[i].personality
                 IN  /\ e.func = entries[i].func /\ e.lsda = entries[i].lsda
                     /\ e.personality = p
                     /\ e.encoding.mode = entries[i].encoding.mode
                     /\ e.encoding.saved = entries[i].encoding.saved
                     /\ e.encoding.personality = PersonalityIndex(PersonalitiesOf(entries), p)
<1> DEFINE routines == PersonalitiesOf(entries)
           U == WithPersonalities(entries)
<1>1. U = [i \in 1 .. N |->
              [entries[i] EXCEPT !.encoding.personality =
                                     PersonalityIndex(routines, entries[i].personality)]]
  BY DEF WithPersonalities
<1>2. ASSUME NEW i \in 1 .. N
      PROVE  PersonalityIndex(routines, entries[i].personality) \in Nat
  <2>1. CASE entries[i].personality = Nothing
    BY <2>1 DEF PersonalityIndex
  <2>2. CASE entries[i].personality # Nothing
    BY <2>2, PersonalityFound
  <2>3. QED
    BY <2>1, <2>2
<1> HIDE DEF routines, U
<1>3. ASSUME NEW i \in 1 .. N
      PROVE  /\ U[i] \in UnwindEntries
             /\ U[i].func = entries[i].func /\ U[i].lsda = entries[i].lsda
             /\ U[i].personality = entries[i].personality
             /\ U[i].encoding.mode = entries[i].encoding.mode
             /\ U[i].encoding.saved = entries[i].encoding.saved
             /\ U[i].encoding.personality = PersonalityIndex(routines, entries[i].personality)
  <2> DEFINE n == PersonalityIndex(routines, entries[i].personality)
             e == entries[i]
  <2>1. U[i] = [e EXCEPT !.encoding.personality = n] /\ n \in Nat
    BY <1>1, <1>2
  <2>2. e \in UnwindEntries /\ e.encoding \in Encodings
    BY DEF UnwindEntries
  <2> HIDE DEF n, e
  <2>3. [e.encoding EXCEPT !.personality = n] \in Encodings
        /\ [e.encoding EXCEPT !.personality = n].mode = e.encoding.mode
        /\ [e.encoding EXCEPT !.personality = n].saved = e.encoding.saved
        /\ [e.encoding EXCEPT !.personality = n].personality = n
    BY <2>1, <2>2 DEF Encodings
  <2>4. U[i].encoding = [e.encoding EXCEPT !.personality = n]
    BY <2>1, <2>2 DEF UnwindEntries
  <2>5. U[i] \in UnwindEntries /\ U[i].func = e.func /\ U[i].lsda = e.lsda
        /\ U[i].personality = e.personality
    BY <2>1, <2>2, <2>3, <2>4 DEF UnwindEntries
  <2>6. QED
    BY <2>3, <2>4, <2>5 DEF n, e
<1>4. U \in [1 .. N -> UnwindEntries]
  BY <1>1, <1>3
<1>5. QED
  BY <1>3, <1>4 DEF routines, U

\* The indexes of the routines leave their list as it is.
LEMMA PersonalitiesStay ==
    ASSUME NEW N \in Nat, NEW entries \in [1 .. N -> UnwindEntries]
    PROVE  PersonalitiesOf(WithPersonalities(entries)) = PersonalitiesOf(entries)
<1> DEFINE U == WithPersonalities(entries)
           First(e) == {i \in 1 .. N : /\ e[i].personality # Nothing
                                       /\ \A j \in 1 .. (i - 1) :
                                             e[j].personality # e[i].personality}
<1>1. U \in [1 .. N -> UnwindEntries] /\ \A i \in 1 .. N : U[i].personality = entries[i].personality
  BY WithPersonalitiesIs
<1> HIDE DEF U
<1>2. First(U) = First(entries)
  <2>1. \A i \in 1 .. N : \A j \in 1 .. (i - 1) : j \in 1 .. N
    OBVIOUS
  <2>2. QED
    BY <1>1, <2>1
<1>3. \A e \in [1 .. N -> UnwindEntries] :
         PersonalitiesOf(e) = [n \in DOMAIN Ascending(First(e)) |->
                                  e[Ascending(First(e))[n]].personality]
  BY DEF PersonalitiesOf
<1>4. First(entries) \in SUBSET (1 .. N)
  OBVIOUS
<1>5. First(entries) \in SUBSET Int /\ IsFiniteSet(First(entries))
  <2> HIDE DEF First
  <2>1. QED
    BY <1>4, PartOfInterval
<1> HIDE DEF First
<1>6. Ascending(First(entries)) \in [1 .. Cardinality(First(entries)) -> First(entries)]
  BY <1>5, AscendingIs
<1> DEFINE at == Ascending(First(entries))
<1>7. \A n \in DOMAIN at : U[at[n]].personality = entries[at[n]].personality
  BY <1>1, <1>4, <1>6
<1> HIDE DEF at
<1>8. PersonalitiesOf(U) = [n \in DOMAIN at |-> U[at[n]].personality]
      /\ PersonalitiesOf(entries) = [n \in DOMAIN at |-> entries[at[n]].personality]
  BY <1>1, <1>2, <1>3 DEF at
<1>9. QED
  BY <1>7, <1>8 DEF U

\* Entry m of a list is what an unwinder is to find for an atom.
Covers(entries, m, a) ==
    LET e    == entries[m]
        said == EntryFor(a)
    IN  /\ e.func <= a
        /\ \A n \in DOMAIN entries : m < n => a < entries[n].func
        /\ e.encoding.mode = said.encoding.mode /\ e.encoding.saved = said.encoding.saved
        /\ IF said.personality = Nothing THEN e.encoding.personality = 0
           ELSE /\ e.encoding.personality > 0
                /\ PersonalitiesOf(entries)[e.encoding.personality] = said.personality
        /\ \/ e.func = a /\ e.lsda = said.lsda
           \/ e.func # a /\ ~ UsesDwarf(e.encoding) /\ ~ e.lsda /\ ~ said.lsda

\* The entries are in order, and each listed atom has one that covers it.
LEMMA UniqueCovers ==
    ASSUME program \in UnwindInputs, unique = WithPersonalities(Compressed(AllEntries))
    PROVE  /\ Len(unique) \in Nat /\ unique \in [1 .. Len(unique) -> UnwindEntries]
           /\ \A m \in 1 .. Len(unique) :
                 unique[m].func \in DOMAIN program.atoms /\ Listed(unique[m].func)
           /\ \A m, n \in 1 .. Len(unique) : m < n => unique[m].func < unique[n].func
           /\ \A a \in DOMAIN program.atoms :
                 Listed(a) => \E m \in 1 .. Len(unique) : Covers(unique, m, a)
<1> DEFINE E == AllEntries
           K == Compressed(AllEntries)
<1>1. PICK N \in Nat :
         /\ E \in [1 .. N -> UnwindEntries]
         /\ \A i \in 1 .. N : /\ E[i].func \in DOMAIN program.atoms /\ Listed(E[i].func)
                              /\ E[i] = EntryFor(E[i].func)
         /\ \A a \in DOMAIN program.atoms : Listed(a) => \E i \in 1 .. N : E[i].func = a
         /\ \A i, j \in 1 .. N : i < j => E[i].func < E[j].func
  BY AllEntriesAre
<1>2. K = Compressed(E)
  OBVIOUS
<1> HIDE DEF E, K
<1>3a. PICK M \in Nat : \E at \in [1 .. M -> 1 .. N] :
         /\ K = [m \in 1 .. M |-> E[at[m]]]
         /\ \A m, n \in 1 .. M : m < n => at[m] < at[n]
         /\ \A i \in 1 .. N : \E m \in 1 .. M :
               /\ at[m] <= i /\ StandsFor(E, at[m], i)
               /\ \A n \in 1 .. M : m < n => i < at[n]
  BY <1>1, <1>2, CompressedStands
<1>3. PICK at \in [1 .. M -> 1 .. N] :
         /\ K = [m \in 1 .. M |-> E[at[m]]]
         /\ \A m, n \in 1 .. M : m < n => at[m] < at[n]
         /\ \A i \in 1 .. N : \E m \in 1 .. M :
               /\ at[m] <= i /\ StandsFor(E, at[m], i)
               /\ \A n \in 1 .. M : m < n => i < at[n]
  BY <1>3a
<1>4. K \in [1 .. M -> UnwindEntries] /\ \A m \in 1 .. M : K[m] = E[at[m]] /\ at[m] \in 1 .. N
  BY <1>1, <1>3
<1>5. unique = WithPersonalities(K)
  BY DEF K
<1>6. /\ unique \in [1 .. M -> UnwindEntries]
      /\ \A m \in 1 .. M :
            LET e == unique[m]
            IN  /\ e.func = K[m].func /\ e.lsda = K[m].lsda
                /\ e.encoding.mode = K[m].encoding.mode
                /\ e.encoding.saved = K[m].encoding.saved
                /\ e.encoding.personality
                      = PersonalityIndex(PersonalitiesOf(K), K[m].personality)
  BY <1>4, <1>5, WithPersonalitiesIs
<1>7. Len(unique) = M /\ DOMAIN unique = 1 .. M
  BY <1>6
<1>8. PersonalitiesOf(unique) = PersonalitiesOf(K)
  BY <1>4, <1>5, PersonalitiesStay
<1>9. \A m \in 1 .. M : unique[m].func = E[at[m]].func /\ at[m] \in 1 .. N
  BY <1>4, <1>6
<1>10. \A m, n \in 1 .. M : m < n => unique[m].func < unique[n].func
  BY <1>1, <1>3, <1>9, ZenonT(40)
<1>11. ASSUME NEW a \in DOMAIN program.atoms, Listed(a)
       PROVE  \E m \in 1 .. M : Covers(unique, m, a)
  <2>1. PICK i \in 1 .. N : E[i].func = a
    BY <1>1, <1>11
  <2>2. PICK m \in 1 .. M : /\ at[m] <= i /\ StandsFor(E, at[m], i)
                            /\ \A n \in 1 .. M : m < n => i < at[n]
    BY <1>3
  <2> DEFINE e == unique[m]
             said == EntryFor(a)
             k == at[m]
  <2>3. E[i] = said /\ k \in 1 .. N /\ K[m] = E[k] /\ i \in Int /\ k \in Int
    <3> HIDE DEF e
    <3>1. E[i] = EntryFor(E[i].func)
      BY <1>1
    <3>2. E[i] = said
      BY <2>1, <3>1
    <3>3. k \in 1 .. N /\ K[m] = E[k]
      BY <1>4
    <3>4. QED
      BY <3>2, <3>3
  <2>4. e.func = E[k].func /\ e.lsda = E[k].lsda /\ e.encoding.mode = E[k].encoding.mode
        /\ e.encoding.saved = E[k].encoding.saved
        /\ e.encoding.personality = PersonalityIndex(PersonalitiesOf(K), E[k].personality)
    BY <1>6, <2>3
  <2>5. E[k].encoding = said.encoding /\ E[k].personality = said.personality
        /\ (k = i \/ (~ UsesDwarf(said.encoding) /\ ~ said.lsda /\ ~ E[k].lsda))
    BY <2>2, <2>3 DEF StandsFor
  <2> HIDE DEF e, said, k
  <2>6. E[k].func <= a /\ (k = i <=> E[k].func = a)
    <3>1. E[k].func \in Nat /\ E[i].func \in Nat
      BY <1>1, <2>3 DEF UnwindEntries
    <3>2. k <= i
      BY <2>2 DEF k
    <3>3. k = i \/ k < i
      BY <2>3, <3>2
    <3>4. k < i => E[k].func < E[i].func
      BY <1>1, <2>3
    <3>5. QED
      BY <2>1, <3>1, <3>3, <3>4
  <2>7. ASSUME NEW n \in 1 .. M, m < n  PROVE a < unique[n].func
    <3>1. i < at[n] /\ at[n] \in 1 .. N
      BY <1>4, <2>2, <2>7
    <3>2. E[i].func < E[at[n]].func
      BY <1>1, <3>1
    <3>3. QED
      BY <1>9, <2>1, <3>2
  <2>8. IF said.personality = Nothing THEN e.encoding.personality = 0
        ELSE /\ e.encoding.personality > 0
             /\ PersonalitiesOf(unique)[e.encoding.personality] = said.personality
    <3>1. CASE said.personality = Nothing
      BY <2>4, <2>5, <3>1 DEF PersonalityIndex
    <3>2. CASE said.personality # Nothing
      <4>1. K[m].personality # Nothing /\ K[m].personality = said.personality
        BY <2>3, <2>5, <3>2 DEF k
      <4>2. PersonalityIndex(PersonalitiesOf(K), K[m].personality) > 0
            /\ PersonalitiesOf(K)[PersonalityIndex(PersonalitiesOf(K), K[m].personality)]
                  = K[m].personality
        BY <1>4, <4>1, PersonalityFound
      <4>3. QED
        BY <1>8, <2>3, <2>4, <3>2, <4>1, <4>2
    <3>3. QED
      BY <3>1, <3>2
  <2>9. UsesDwarf(e.encoding) <=> UsesDwarf(said.encoding)
    BY <2>4, <2>5 DEF UsesDwarf
  <2>10. \/ e.func = a /\ e.lsda = said.lsda
         \/ e.func # a /\ ~ UsesDwarf(e.encoding) /\ ~ e.lsda /\ ~ said.lsda
    BY <2>3, <2>4, <2>5, <2>6, <2>9
  <2>11. Covers(unique, m, a)
    BY <1>7, <2>4, <2>5, <2>6, <2>7, <2>8, <2>10 DEF Covers, e, said
  <2>12. QED
    BY <2>11
<1>12. \A m \in 1 .. M : unique[m].func \in DOMAIN program.atoms /\ Listed(unique[m].func)
  BY <1>1, <1>9
<1>13. QED
  BY <1>6, <1>7, <1>10, <1>11, <1>12

\* Without entries there is nothing to find.
LEMMA NothingListed ==
    ASSUME program \in UnwindInputs, AllEntries = <<>>
    PROVE  \A a \in DOMAIN program.atoms : ~ Listed(a)
<1>1. PICK N \in Nat :
         /\ AllEntries \in [1 .. N -> UnwindEntries]
         /\ \A a \in DOMAIN program.atoms : Listed(a) => \E i \in 1 .. N : AllEntries[i].func = a
  BY AllEntriesAre
<1>2. Len(AllEntries) = N /\ Len(AllEntries) = 0
  BY <1>1
<1>3. QED
  BY <1>1, <1>2

\* Encodings are ordered.
LEMMA PrecedesIsStrict ==
    ASSUME NEW e \in Encodings, NEW f \in Encodings, NEW g \in Encodings
    PROVE  /\ ~ Precedes(e, e)
           /\ Precedes(e, f) /\ Precedes(f, g) => Precedes(e, g)
           /\ e # f => Precedes(e, f) \/ Precedes(f, e)
<1> DEFINE r(x) == ModeRank[x.mode]
<1>1. ASSUME NEW x \in Encodings
      PROVE  x.personality \in Nat /\ x.saved \in Nat /\ r(x) \in 0 .. 3
  BY DEF Encodings, ModeRank
<1>2. ASSUME NEW x \in Encodings, NEW y \in Encodings
      PROVE  r(x) = r(y) <=> x.mode = y.mode
  BY DEF Encodings, ModeRank
<1>3. ASSUME NEW x \in Encodings, NEW y \in Encodings,
             x.personality = y.personality, x.mode = y.mode, x.saved = y.saved
      PROVE  x = y
  BY <1>3 DEF Encodings
<1>4. \A x, y : Precedes(x, y) <=>
         \/ x.personality < y.personality
         \/ x.personality = y.personality /\ r(x) < r(y)
         \/ x.personality = y.personality /\ x.mode = y.mode /\ x.saved < y.saved
  BY DEF Precedes
<1> HIDE DEF r
<1>5. r(e) \in Int /\ r(f) \in Int /\ r(g) \in Int
  BY <1>1
<1>6. (r(e) = r(f) <=> e.mode = f.mode) /\ (r(f) = r(g) <=> f.mode = g.mode)
      /\ (r(e) = r(g) <=> e.mode = g.mode)
  BY <1>2
<1>7. ~ Precedes(e, e)
  BY <1>1, <1>4, <1>5
<1>8. Precedes(e, f) /\ Precedes(f, g) => Precedes(e, g)
  BY <1>1, <1>4, <1>5, <1>6
<1>9. e # f => Precedes(e, f) \/ Precedes(f, e)
  <2>1. e # f => e.personality # f.personality \/ e.mode # f.mode \/ e.saved # f.saved
    BY <1>3
  <2>2. QED
    BY <1>1, <1>4, <1>5, <1>6, <2>1
<1>10. QED
  BY <1>7, <1>8, <1>9

\* What is common is an encoding, and never one for dwarf.
LEMMA CommonIs ==
    ASSUME NEW M \in Nat, NEW entries \in [1 .. M -> UnwindEntries]
    PROVE  LET c == FindCommonEncoding(entries)
           IN  /\ c \in Seq(Encodings) /\ Len(c) <= MaxCommon
               /\ \A n \in DOMAIN c : ~ UsesDwarf(c[n])
<1> DEFINE uses(e) == Cardinality({i \in DOMAIN entries : entries[i].encoding = e})
           used == {entries[i].encoding : i \in DOMAIN entries}
           often == {e \in used : ~ UsesDwarf(e) /\ uses(e) > 1}
           order == {p \in often \X often :
                        \/ uses(p[1]) > uses(p[2])
                        \/ uses(p[1]) = uses(p[2]) /\ Precedes(p[1], p[2])}
           all == Ranked(often, order)
           few == IF Len(all) < MaxCommon THEN Len(all) ELSE MaxCommon
<1>1. FindCommonEncoding(entries) = SubSeq(all, 1, few)
  BY DEF FindCommonEncoding
<1>2. DOMAIN entries = 1 .. M /\ MaxCommon \in Nat
  BY UnwindAssumption
<1>3. \A e : uses(e) \in Nat
  <2> SUFFICES ASSUME NEW e  PROVE uses(e) \in Nat
    OBVIOUS
  <2> DEFINE S == {i \in DOMAIN entries : entries[i].encoding = e}
  <2>1. S \in SUBSET (1 .. M)
    BY <1>2
  <2> HIDE DEF S
  <2>2. IsFiniteSet(S)
    BY <2>1, PartOfInterval
  <2>3. Cardinality(S) \in Nat
    BY <2>2, FS_CardinalityType
  <2>4. QED
    BY <2>3 DEF S
<1>4. used \in SUBSET Encodings /\ IsFiniteSet(used)
  <2> DEFINE f == [i \in 1 .. M |-> entries[i].encoding]
  <2>1. f \in Surjection(1 .. M, used)
    BY <1>2 DEF Surjection
  <2>2. IsFiniteSet(1 .. M)
    <3>1. 1 .. M \in SUBSET (1 .. M)
      OBVIOUS
    <3>2. QED
      BY <3>1, PartOfInterval
  <2>3. used \in SUBSET Encodings
    BY <1>2 DEF UnwindEntries
  <2> HIDE DEF f, used
  <2>4. QED
    BY <2>1, <2>2, <2>3, FS_Surjection
<1>5. often \in SUBSET used /\ \A e \in often : ~ UsesDwarf(e)
  OBVIOUS
<1>6. \A e, f \in often :
         <<e, f>> \in order <=> (\/ uses(e) > uses(f)
                                 \/ (uses(e) = uses(f) /\ Precedes(e, f)))
  OBVIOUS
<1> HIDE DEF used, often, order, all, uses
<1>7. IsFiniteSet(often) /\ often \in SUBSET Encodings
  BY <1>4, <1>5, FS_Subset
<1>8. Orders(order, often)
  <2>1. ASSUME NEW e \in often  PROVE <<e, e>> \notin order
    <3>1. ~ Precedes(e, e) /\ uses(e) \in Nat
      BY <1>3, <1>7, PrecedesIsStrict
    <3>2. QED
      BY <1>6, <3>1
  <2>2. ASSUME NEW e \in often, NEW f \in often, NEW g \in often,
               <<e, f>> \in order, <<f, g>> \in order
        PROVE  <<e, g>> \in order
    <3>1. Precedes(e, f) /\ Precedes(f, g) => Precedes(e, g)
      BY <1>7, PrecedesIsStrict
    <3>2. uses(e) \in Nat /\ uses(f) \in Nat /\ uses(g) \in Nat
      BY <1>3
    <3>3. /\ uses(e) > uses(f) \/ (uses(e) = uses(f) /\ Precedes(e, f))
          /\ uses(f) > uses(g) \/ (uses(f) = uses(g) /\ Precedes(f, g))
      BY <1>6, <2>2
    <3>4. uses(e) > uses(g) \/ (uses(e) = uses(g) /\ Precedes(e, g))
      BY <3>1, <3>2, <3>3
    <3>5. QED
      BY <1>6, <3>4
  <2>3. ASSUME NEW e \in often, NEW f \in often, e # f
        PROVE  <<e, f>> \in order \/ <<f, e>> \in order
    <3>1. Precedes(e, f) \/ Precedes(f, e)
      BY <1>7, <2>3, PrecedesIsStrict
    <3>2. uses(e) \in Nat /\ uses(f) \in Nat
      BY <1>3
    <3>3. \/ uses(e) > uses(f) \/ (uses(e) = uses(f) /\ Precedes(e, f))
          \/ uses(f) > uses(e) \/ (uses(f) = uses(e) /\ Precedes(f, e))
      BY <3>1, <3>2
    <3>4. QED
      BY <1>6, <3>3
  <2>4. QED
    BY <2>1, <2>2, <2>3 DEF Orders
<1>9. all \in [1 .. Cardinality(often) -> often] /\ Cardinality(often) \in Nat
  BY <1>7, <1>8, RankedIs DEF all
<1>10. all \in Seq(Encodings) /\ Len(all) \in Nat /\ \A n \in 1 .. Len(all) : all[n] \in often
  BY <1>7, <1>9
<1>11. few \in Nat /\ few <= Len(all) /\ few <= MaxCommon
  BY <1>2, <1>10
<1> HIDE DEF few
<1> DEFINE c == SubSeq(all, 1, few)
<1>12. c \in Seq(Encodings) /\ Len(c) = few /\ \A n \in 1 .. few : c[n] = all[n]
  BY <1>10, <1>11
<1> HIDE DEF c
<1>13. \A n \in DOMAIN c : ~ UsesDwarf(c[n])
  <2> SUFFICES ASSUME NEW n \in DOMAIN c  PROVE ~ UsesDwarf(c[n])
    OBVIOUS
  <2>1. n \in 1 .. few /\ n \in 1 .. Len(all)
    BY <1>10, <1>11, <1>12
  <2>2. QED
    BY <1>5, <1>10, <1>12, <2>1
<1>14. QED
  BY <1>1, <1>11, <1>12, <1>13 DEF c

------------------------------------------------------------------------------
(***************************************************************************)
(* UnwindInfo: the entries of a compressed page.                           *)
(***************************************************************************)
Keys == [encoding : Encodings, of : Nat]

CountStates == [own : Seq(Keys), count : Int, index : Int, canDo : BOOLEAN]

\* The table while its pages are made: entries in order, what is common to
\* them, and a page in which there is room.
TableMaking ==
    /\ program \in UnwindInputs
    /\ Len(unique) \in Nat /\ unique \in [1 .. Len(unique) -> UnwindEntries]
    /\ \A m \in 1 .. Len(unique) :
          unique[m].func \in DOMAIN program.atoms /\ Listed(unique[m].func)
    /\ \A m, n \in 1 .. Len(unique) : m < n => unique[m].func < unique[n].func
    /\ common \in Seq(Encodings) /\ Len(common) <= MaxCommon
    /\ \A n \in DOMAIN common : ~ UsesDwarf(common[n])
    /\ room \in Nat /\ 6 <= room

\* An entry whose encoding has an index, in a page with these encodings
Indexed(i, own) ==
    Among(unique[i].encoding, common) \/ Among(OwnEncoding(unique[i].encoding, i), own)

NearEnd(i, end) == TentAddress(unique[end].func) - TentAddress(unique[i].func) <= MaxDelta

\* What the count has reached after k rounds
Counted(c, k, end) ==
    /\ c \in CountStates
    /\ Len(c.own) <= k /\ Len(common) + Len(c.own) <= MaxIndex + 1
    /\ c.canDo => c.index = end - k /\ c.count = k
    /\ ~ c.canDo => c.count > 0
    /\ 0 <= c.count /\ c.count <= k
    /\ \A i \in (end - c.count + 1) .. end : Indexed(i, c.own) /\ NearEnd(i, end)

\* A round of the count
LEMMA CountedOn ==
    ASSUME TableMaking, NEW end \in 1 .. Len(unique), NEW k \in 1 .. end,
           NEW c, Counted(c, k - 1, end)
    PROVE  Counted(CountOne(c, end), k, end)
<1>1. /\ c.own \in Seq(Keys) /\ Len(c.own) \in Nat /\ c.count \in Int /\ c.index \in Int
      /\ c.canDo \in BOOLEAN /\ end \in Int /\ k \in Int /\ 1 <= k /\ k <= end
      /\ c \in CountStates
  BY DEF Counted, CountStates, TableMaking
<1>2. /\ Len(c.own) <= k - 1 /\ Len(common) + Len(c.own) <= MaxIndex + 1
      /\ 0 <= c.count /\ c.count <= k - 1
      /\ \A i \in (end - c.count + 1) .. end : Indexed(i, c.own) /\ NearEnd(i, end)
  BY DEF Counted
<1>3. /\ Len(common) \in Nat /\ Len(common) <= MaxCommon /\ room \in Nat /\ 6 <= room
      /\ MaxCommon \in Nat /\ MaxIndex \in Nat /\ MaxCommon <= MaxIndex /\ MaxDelta \in Nat
  BY UnwindAssumption DEF TableMaking
<1>4. CASE ~ c.canDo
  <2>1. CountOne(c, end) = c
    BY <1>4 DEF CountOne
  <2>2. Len(c.own) <= k /\ c.count <= k
    BY <1>1, <1>2
  <2>3. c.count > 0
    BY <1>4 DEF Counted
  <2>4. QED
    BY <1>1, <1>2, <1>4, <2>1, <2>2, <2>3 DEF Counted
<1>5. CASE c.canDo
  <2>1. c.index = end - (k - 1) /\ c.count = k - 1
    BY <1>5 DEF Counted
  <2> DEFINE i == c.index
             e == unique[i]
             key == OwnEncoding(e.encoding, i)
             new == ~ Among(e.encoding, common) /\ ~ Among(key, c.own)
             indexFree == Len(common) + Len(c.own) <= MaxIndex
             own == IF new /\ indexFree THEN Append(c.own, key) ELSE c.own
             near == NearEnd(i, end)
             full == Len(own) + c.count > room - CompressedHeader
             ok == (new => indexFree) /\ near /\ ~ full
             count == IF full THEN c.count - 1 ELSE IF ok THEN c.count + 1 ELSE c.count
             d == CountOne(c, end)
  <2>2. d = [own |-> own, index |-> i - 1, canDo |-> ok, count |-> count]
    BY <1>5 DEF CountOne, NearEnd
  <2>3. i \in 1 .. Len(unique) /\ i = end - k + 1 /\ i <= end /\ i \in Nat
    BY <1>1, <2>1 DEF TableMaking
  <2>4. key \in Keys
    BY <2>3 DEF TableMaking, UnwindEntries, Keys, OwnEncoding
  <2>5. new \in BOOLEAN /\ indexFree \in BOOLEAN /\ near \in BOOLEAN
    BY DEF Among, NearEnd
  <2> HIDE DEF key, new, indexFree, near, i, d
  <2>6. /\ own \in Seq(Keys) /\ Len(own) \in Nat
        /\ Len(own) = IF new /\ indexFree THEN Len(c.own) + 1 ELSE Len(c.own)
    BY <1>1, <2>4, <2>5
  <2>7. \A x : Among(x, c.own) => Among(x, own)
    <3>1. CASE new /\ indexFree
      <4>1. \A n \in DOMAIN c.own : n \in DOMAIN own /\ own[n] = c.own[n]
        BY <1>1, <2>4, <3>1
      <4> HIDE DEF own
      <4>2. QED
        BY <4>1 DEF Among
    <3>2. CASE ~ (new /\ indexFree)
      BY <3>2
    <3>3. QED
      BY <3>1, <3>2
  <2>8. (new => indexFree) => Indexed(i, own)
    <3>1. CASE new /\ indexFree
      <4>1. Len(own) \in DOMAIN own /\ own[Len(own)] = key
        BY <1>1, <2>4, <3>1
      <4> HIDE DEF own
      <4>2. Among(key, own)
        BY <4>1 DEF Among
      <4>3. QED
        BY <4>2 DEF Indexed, key
    <3>2. CASE ~ new
      <4>1. Among(e.encoding, common) \/ Among(key, c.own)
        BY <3>2 DEF new
      <4>2. QED
        BY <2>7, <4>1 DEF Indexed, key
    <3>3. QED
      BY <2>5, <3>1, <3>2
  <2>9. \A j \in (end - c.count + 1) .. end : Indexed(j, own) /\ NearEnd(j, end)
    <3> HIDE DEF own
    <3>1. QED
      BY <1>2, <2>7 DEF Indexed
  <2>10. Len(own) <= k /\ Len(common) + Len(own) <= MaxIndex + 1
    BY <1>1, <1>2, <1>3, <2>6, SMTT(30) DEF indexFree
  <2>11. /\ full \in BOOLEAN /\ ok \in BOOLEAN /\ (full => Len(own) + k - 1 > room - 3)
         /\ (ok => (new => indexFree) /\ near /\ ~ full)
         /\ (~ ok /\ ~ full => ~ near \/ ~ indexFree)
    <3> HIDE DEF own
    <3>1. QED
      BY <1>1, <1>3, <2>1, <2>5, <2>6 DEF CompressedHeader
  <2>12. d.own = own /\ d.index = i - 1 /\ d.canDo = ok /\ d.count = count
    <3> HIDE DEF own, count, ok
    <3>1. QED
      BY <2>2
  <2>13. count = IF full THEN k - 2 ELSE IF ok THEN k ELSE k - 1
    <3> HIDE DEF own, ok, full
    <3>1. QED
      BY <1>1, <2>1
  <2> HIDE DEF own, count, full, ok
  <2>14. d \in CountStates
    <3>1. count \in Int /\ i - 1 \in Int
      BY <1>1, <2>3, <2>13
    <3>2. QED
      BY <2>2, <2>6, <2>11, <3>1 DEF CountStates
  <2>15. /\ d.canDo => d.index = end - k /\ d.count = k
         /\ 0 <= d.count /\ d.count <= k /\ (~ d.canDo => d.count > 0)
    <3>1. CASE full
      <4>1. k - 2 > 0 /\ d.count = k - 2 /\ ~ d.canDo
        BY <1>1, <1>3, <2>6, <2>10, <2>11, <2>12, <2>13, <3>1, SMTT(30)
      <4>2. QED
        BY <1>1, <4>1
    <3>2. CASE ~ full /\ ok
      <4>1. d.count = k /\ d.canDo
        BY <2>11, <2>12, <2>13, <3>2
      <4>2. QED
        BY <1>1, <2>3, <2>12, <4>1
    <3>3. CASE ~ full /\ ~ ok
      <4>1. d.count = k - 1 /\ ~ d.canDo
        BY <2>12, <2>13, <3>3
      <4>2. k # 1
        <5> SUFFICES ASSUME k = 1  PROVE FALSE
          OBVIOUS
        <5>1. i = end /\ Len(c.own) = 0
          BY <1>1, <1>2, <2>3
        <5>2. indexFree
          BY <1>3, <5>1 DEF indexFree
        <5>3. near
          <6>1. TentAddress(unique[i].func) \in Nat
            BY <2>3, AddressesAscend DEF TableMaking
          <6>2. QED
            BY <1>3, <5>1, <6>1 DEF near, NearEnd
        <5>4. QED
          BY <2>11, <3>3, <5>2, <5>3
      <4>3. QED
        BY <1>1, <4>1, <4>2
    <3>4. QED
      BY <2>11, <3>1, <3>2, <3>3
  <2>16. \A j \in (end - d.count + 1) .. end : Indexed(j, d.own) /\ NearEnd(j, end)
    <3> SUFFICES ASSUME NEW j \in (end - d.count + 1) .. end
                 PROVE  Indexed(j, own) /\ NearEnd(j, end)
      BY <2>12
    <3>1. CASE j \in (end - c.count + 1) .. end
      BY <2>9, <3>1
    <3>2. CASE j \notin (end - c.count + 1) .. end
      <4>1. d.count \in Int
        BY <2>14 DEF CountStates
      <4>2. d.count = k /\ j = i
        BY <1>1, <2>1, <2>3, <2>12, <2>13, <3>2, <4>1
      <4>3. ok
        BY <1>1, <2>11, <2>12, <2>13, <4>2
      <4>4. QED
        BY <2>8, <2>11, <4>2, <4>3 DEF near
    <3>3. QED
      BY <3>1, <3>2
  <2>17. QED
    <3>1. d.own = own
      BY <2>12
    <3>2. Counted(d, k, end)
      BY <2>10, <2>14, <2>15, <2>16, <3>1 DEF Counted
    <3>3. QED
      BY <3>2 DEF d
<1>6. QED
  BY <1>1, <1>4, <1>5

\* The first pass counts at least one entry, and only entries whose encoding
\* has an index, near the last one.
LEMMA CountFromIs ==
    ASSUME TableMaking, NEW end \in 1 .. Len(unique)
    PROVE  LET c == CountFrom(end)
           IN  /\ c.own \in Seq(Keys) /\ Len(common) + Len(c.own) <= MaxIndex + 1
               /\ c.count \in 1 .. end
               /\ \A i \in (end - c.count + 1) .. end : Indexed(i, c.own) /\ NearEnd(i, end)
<1> DEFINE z == [own |-> <<>>, count |-> 0, index |-> end, canDo |-> TRUE]
           At(k) == {c \in CountStates : Counted(c, k, end)}
           g == [p \in (1 .. end) \X CountStates |->
                   IF p[2] \in At(p[1] - 1) THEN CountOne(p[2], end) ELSE z]
           Is(f) == f = [k \in 0 .. end |-> IF k = 0 THEN z ELSE CountOne(f[k - 1], end)]
<1>1. end \in Nat /\ end > 0 /\ Len(common) \in Nat /\ Len(common) <= MaxIndex + 1 /\ 6 <= room
      /\ room \in Nat
  BY UnwindAssumption DEF TableMaking
<1>2. z \in CountStates
  BY <1>1 DEF CountStates
<1>3. Counted(z, 0, end)
  <2>1. z.own = <<>> /\ Len(z.own) = 0 /\ z.count = 0 /\ z.index = end /\ z.canDo
    OBVIOUS
  <2>2. (end - 0 + 1) .. end = {}
    BY <1>1
  <2> HIDE DEF z
  <2>3. QED
    BY <1>1, <1>2, <2>1, <2>2 DEF Counted
<1>4. \A k \in 1 .. end : \A c \in At(k - 1) : CountOne(c, end) \in At(k)
  <2> SUFFICES ASSUME NEW k \in 1 .. end, NEW c \in At(k - 1)
               PROVE  CountOne(c, end) \in At(k)
    OBVIOUS
  <2>1. Counted(CountOne(c, end), k, end)
    BY CountedOn
  <2>2. QED
    BY <2>1 DEF Counted
<1>5. z \in At(0) /\ \A k : At(k) \in SUBSET CountStates
  BY <1>2, <1>3
<1> HIDE DEF At, z
<1>6. IsStep(g, end, CountStates)
  BY <1>2, <1>4, <1>5 DEF IsStep
<1>7. PICK f : IsSolution(f, end, CountStates, z, g)
  <2> HIDE DEF g
  <2>1. QED
    BY <1>1, <1>2, <1>6, RecursionSolved
<1>8. f[0] = z
  <2>1. 0 \in 0 .. end
    BY <1>1
  <2> HIDE DEF g
  <2>2. f[0] = IF 0 = 0 THEN z ELSE g[<<0, f[0 - 1]>>]
    BY ONLY <1>7, <2>1 DEF IsSolution
  <2>3. QED
    BY <2>2
<1>9. ASSUME NEW k \in 1 .. end, f[k - 1] \in At(k - 1)
      PROVE  f[k] = CountOne(f[k - 1], end) /\ f[k] \in At(k)
  <2>1. k \in 0 .. end /\ k # 0 /\ k - 1 \in 0 .. end
    BY <1>1
  <2>2. f[k] = g[<<k, f[k - 1]>>] /\ f[k - 1] \in CountStates
    BY <1>7, <2>1 DEF IsSolution
  <2>3. g[<<k, f[k - 1]>>] = CountOne(f[k - 1], end)
    BY <1>9, <2>2
  <2>4. QED
    BY <1>4, <1>9, <2>2, <2>3
<1>10. \A k \in 0 .. end : f[k] \in At(k)
  <2> DEFINE bad == {k \in 0 .. end : f[k] \notin At(k)}
  <2> SUFFICES ASSUME bad # {}  PROVE FALSE
    OBVIOUS
  <2>1. bad \in SUBSET Nat
    BY <1>1
  <2>2. PICK k \in bad : \A j \in bad : k <= j
    <3> HIDE DEF bad
    <3>1. QED
      BY <2>1, LeastNumber
  <2>3. k # 0 /\ k \in 1 .. end /\ k - 1 \in 0 .. end /\ ~ (k <= k - 1)
    BY <1>1, <1>5, <1>8
  <2>4. f[k - 1] \in At(k - 1)
    BY <2>2, <2>3
  <2>5. QED
    BY <1>9, <2>3, <2>4
<1>11. \A k \in 0 .. end : f[k] = IF k = 0 THEN z ELSE CountOne(f[k - 1], end)
  <2>1. ASSUME NEW k \in 0 .. end, k # 0  PROVE f[k] = CountOne(f[k - 1], end)
    <3>1. k \in 1 .. end /\ k - 1 \in 0 .. end
      BY <1>1, <2>1
    <3>2. QED
      BY <1>9, <1>10, <3>1
  <2>2. QED
    BY <1>8, <2>1
<1>12. Is(f)
  <2>1. f = [k \in 0 .. end |-> f[k]]
    BY <1>7 DEF IsSolution
  <2> HIDE DEF g
  <2>2. QED
    BY <1>11, <2>1
<1> HIDE DEF g
<1> DEFINE h == CHOOSE y : Is(y)
<1>13. Is(h)
  <2> HIDE DEF Is
  <2>1. QED
    BY <1>12
<1>14. CountFrom(end) = h[end]
  BY DEF CountFrom, z
<1> HIDE DEF h
<1>15. \A k \in 0 .. end : h[k] = IF k = 0 THEN z ELSE CountOne(h[k - 1], end)
  BY <1>13
<1>16. \A k \in 0 .. end : h[k] = f[k]
  <2> DEFINE bad == {k \in 0 .. end : h[k] # f[k]}
  <2> SUFFICES ASSUME bad # {}  PROVE FALSE
    OBVIOUS
  <2>1. bad \in SUBSET Nat
    BY <1>1
  <2>2. PICK k \in bad : \A j \in bad : k <= j
    <3> HIDE DEF bad
    <3>1. QED
      BY <2>1, LeastNumber
  <2> HIDE DEF Is
  <2>3. k # 0 /\ k \in 1 .. end /\ k - 1 \in 0 .. end /\ ~ (k <= k - 1) /\ k \in 0 .. end
    BY <1>1, <1>11, <1>15
  <2>4. f[k - 1] = h[k - 1]
    BY <2>2, <2>3
  <2>5. f[k] = CountOne(f[k - 1], end) /\ h[k] = CountOne(h[k - 1], end)
    BY <1>11, <1>15, <2>3
  <2>6. QED
    BY <2>2, <2>4, <2>5
<1>17. CountFrom(end) \in At(end)
  <2>1. end \in 0 .. end
    BY <1>1
  <2>2. QED
    BY <1>10, <1>14, <1>16, <2>1
<1> DEFINE c == CountFrom(end)
<1> HIDE DEF c, Is
<1>18. Counted(c, end, end) /\ c \in CountStates
  BY <1>17 DEF At, c
<1>19. c.count \in 1 .. end
  BY <1>1, <1>18 DEF Counted, CountStates
<1>20. QED
  BY <1>18, <1>19 DEF Counted, CountStates, c

------------------------------------------------------------------------------
(***************************************************************************)
(* UnwindInfo: pages.                                                      *)
(***************************************************************************)
FdeOf(e) == IF UsesDwarf(e.encoding) THEN e.func ELSE 0

\* An entry of a compressed page, in a page from an entry of the table
CompressedRight(page, n) ==
    LET e     == unique[page.from + n]
        first == unique[page.from + 1]
        place == page.entries[n].index
        own   == page.own[place - Len(common)]
    IN  /\ TentAddress(e.func) - TentAddress(first.func) <= MaxDelta
        /\ page.entries[n].delta = (Address(e.func) - Address(first.func)) % DeltaSpan
        /\ place \in 1 .. MaxIndex + 1
        /\ IF place <= Len(common) THEN common[place] = e.encoding /\ FdeOf(e) = 0
           ELSE own.encoding = e.encoding /\ own.fde = FdeOf(e)

RegularRight(page, n) ==
    LET e == unique[page.from + n]
    IN  page.entries[n] = [func |-> e.func, encoding |-> e.encoding, fde |-> FdeOf(e)]

\* A page tells of its entries what the table says of them.
PageRight(page) ==
    /\ page.from \in Nat /\ page.to \in Nat /\ page.from < page.to /\ page.to <= Len(unique)
    /\ DOMAIN page.entries = 1 .. page.to - page.from
    /\ \A n \in 1 .. page.to - page.from :
          \/ page.kind = "regular" /\ RegularRight(page, n)
          \/ page.kind = "compressed" /\ CompressedRight(page, n)

\* A regular page is right.
LEMMA RegularPageRight ==
    ASSUME TableMaking, NEW end \in 1 .. Len(unique)
    PROVE  PageRight(RegularPage(end)) /\ RegularPage(end).to = end
<1> DEFINE count == IF end > RegularEntries THEN RegularEntries ELSE end
           page == RegularPage(end)
<1>1. room \in Nat /\ 6 <= room /\ end \in Nat /\ end > 0 /\ Len(unique) \in Nat /\ end <= Len(unique)
  BY DEF TableMaking
<1>2. RegularEntries \in Nat /\ RegularEntries > 0
  BY <1>1 DEF RegularEntries, RegularHeader, RegularEntry
<1>3. count \in 1 .. end
  BY <1>1, <1>2
<1>4. /\ page.from = end - count /\ page.to = end /\ page.kind = "regular"
      /\ page.entries = [n \in 1 .. count |->
                           LET e == unique[end - count + n]
                           IN  [func |-> e.func, encoding |-> e.encoding,
                                fde |-> IF UsesDwarf(e.encoding) THEN e.func ELSE 0]]
  BY DEF RegularPage
<1> HIDE DEF page, count
<1>5. page.from \in Nat /\ page.from < page.to /\ page.to - page.from = count
  BY <1>1, <1>3, <1>4
<1>6. DOMAIN page.entries = 1 .. page.to - page.from
  BY <1>4, <1>5
<1>7. \A n \in 1 .. page.to - page.from : RegularRight(page, n)
  BY <1>4, <1>5 DEF RegularRight, FdeOf
<1>8. PageRight(page)
  BY <1>1, <1>4, <1>5, <1>6, <1>7 DEF PageRight
<1>9. QED
  BY <1>4, <1>8 DEF page

\* The index of an encoding leads to it.
LEMMA IndexLeads ==
    ASSUME TableMaking, NEW own \in Seq(Keys), Len(common) + Len(own) <= MaxIndex + 1,
           NEW i \in 1 .. Len(unique), Indexed(i, own)
    PROVE  LET place == EncodingIndex(own, i)
           IN  /\ place \in 1 .. MaxIndex + 1
               /\ IF place <= Len(common)
                  THEN common[place] = unique[i].encoding /\ ~ UsesDwarf(unique[i].encoding)
                  ELSE /\ place - Len(common) \in DOMAIN own
                       /\ own[place - Len(common)] = OwnEncoding(unique[i].encoding, i)
<1> DEFINE e == unique[i].encoding
           place == EncodingIndex(own, i)
           key == OwnEncoding(e, i)
<1>1. Len(common) \in Nat /\ Len(own) \in Nat /\ MaxIndex \in Nat
      /\ DOMAIN common = 1 .. Len(common) /\ DOMAIN own = 1 .. Len(own)
  BY UnwindAssumption DEF TableMaking
<1>2. CASE ~ UsesDwarf(e) /\ Among(e, common)
  <2>1. place = CHOOSE n \in DOMAIN common : common[n] = e
    BY <1>2 DEF EncodingIndex
  <2>2. \E n \in DOMAIN common : common[n] = e
    BY <1>2 DEF Among
  <2> HIDE DEF place, e
  <2>3. place \in DOMAIN common /\ common[place] = e
    BY <2>1, <2>2
  <2>4. QED
    BY <1>1, <1>2, <2>3 DEF e, place
<1>3. CASE ~ (~ UsesDwarf(e) /\ Among(e, common))
  <2>1. Among(e, common) => ~ UsesDwarf(e)
    BY DEF Among, TableMaking
  <2>2. Among(key, own)
    BY <1>3, <2>1 DEF Indexed
  <2> DEFINE n == CHOOSE m \in DOMAIN own : own[m] = key
  <2>3. place = Len(common) + n
    BY <1>3 DEF EncodingIndex
  <2>4. \E m \in DOMAIN own : own[m] = key
    BY <2>2 DEF Among
  <2> HIDE DEF key, place
  <2>5. n \in DOMAIN own /\ own[n] = key
    BY <2>4
  <2> HIDE DEF n
  <2>6. place - Len(common) = n /\ ~ (place <= Len(common)) /\ place \in 1 .. MaxIndex + 1
    BY <1>1, <2>3, <2>5
  <2>7. QED
    BY <2>5, <2>6 DEF place, key
<1>4. QED
  BY <1>2, <1>3

\* An FDE is in the slot of its own entry.
LEMMA CompressedPageRight ==
    ASSUME TableMaking, NEW end \in 1 .. Len(unique)
    PROVE  LET page == CompressedPage(end, CountFrom(end))
           IN  PageRight(page) /\ page.to = end
<1> DEFINE c == CountFrom(end)
           page == CompressedPage(end, c)
           from == end - c.count
           Slot(n) == {i \in (from + 1) .. end : /\ UsesDwarf(unique[i].encoding)
                                                 /\ EncodingIndex(c.own, i) = Len(common) + n}
           place(n) == EncodingIndex(c.own, from + n)
<1>1. /\ c.own \in Seq(Keys) /\ Len(common) + Len(c.own) <= MaxIndex + 1
      /\ c.count \in 1 .. end
      /\ \A i \in (end - c.count + 1) .. end : Indexed(i, c.own) /\ NearEnd(i, end)
  BY CountFromIs
<1> HIDE DEF c
<1>2. /\ page.from = from /\ page.to = end /\ page.kind = "compressed"
      /\ page.entries = [n \in 1 .. c.count |->
                           [delta |-> (Address(unique[from + n].func)
                                         - Address(unique[from + 1].func)) % DeltaSpan,
                            index |-> place(n)]]
      /\ page.own = [n \in DOMAIN c.own |->
                       [encoding |-> c.own[n].encoding,
                        fde |-> IF Slot(n) = {} THEN 0
                                ELSE unique[CHOOSE i \in Slot(n) :
                                               \A j \in Slot(n) : j <= i].func]]
  BY DEF CompressedPage
<1>3. /\ end \in Nat /\ end > 0 /\ Len(unique) \in Nat /\ end <= Len(unique)
      /\ from \in Nat /\ from < end /\ end - from = c.count /\ c.count \in Nat
      /\ Len(common) \in Nat
  BY <1>1 DEF TableMaking
<1> HIDE DEF page, Slot, place, from
<1>4. \A i \in (from + 1) .. end :
         /\ i \in 1 .. Len(unique) /\ Indexed(i, c.own) /\ NearEnd(i, end)
         /\ unique[i].func \in DOMAIN program.atoms /\ unique[i].func \in Nat
         /\ unique[i].encoding \in Encodings
  <2>1. \A i \in (from + 1) .. end : i \in 1 .. Len(unique)
    BY <1>3
  <2>2. QED
    BY <1>1, <1>3, <2>1 DEF from, TableMaking, UnwindEntries
<1>5. ASSUME NEW i \in (from + 1) .. end, NEW n \in DOMAIN c.own,
             EncodingIndex(c.own, i) = Len(common) + n
      PROVE  c.own[n] = OwnEncoding(unique[i].encoding, i)
  <2>1. n \in Nat /\ n > 0
    BY <1>1
  <2>2. ~ (EncodingIndex(c.own, i) <= Len(common)) /\ EncodingIndex(c.own, i) - Len(common) = n
    BY <1>3, <1>5, <2>1, SMTT(30)
  <2>3. QED
    BY <1>1, <1>4, <2>2, IndexLeads
<1>6. ASSUME NEW n \in 1 .. c.count
      PROVE  CompressedRight(page, n)
  <2> DEFINE i == from + n
             e == unique[i]
             first == unique[from + 1]
             own == page.own[place(n) - Len(common)]
  <2>1. i \in (from + 1) .. end /\ from + 1 \in (from + 1) .. end
    BY <1>3
  <2>2. /\ page.entries[n].index = place(n)
        /\ page.entries[n].delta = (Address(e.func) - Address(first.func)) % DeltaSpan
    BY <1>2
  <2>3. /\ place(n) \in 1 .. MaxIndex + 1
        /\ IF place(n) <= Len(common)
           THEN common[place(n)] = e.encoding /\ ~ UsesDwarf(e.encoding)
           ELSE /\ place(n) - Len(common) \in DOMAIN c.own
                /\ c.own[place(n) - Len(common)] = OwnEncoding(e.encoding, i)
    BY <1>1, <1>4, <2>1, IndexLeads DEF place
  <2>4. TentAddress(e.func) - TentAddress(first.func) <= MaxDelta
    <3>1. NearEnd(from + 1, end) /\ MaxDelta \in Nat
      BY <1>4, <2>1, UnwindAssumption
    <3>2. \A j \in (from + 1) .. end :
             TentAddress(unique[j].func) \in Nat /\ unique[j].func \in DOMAIN program.atoms
      BY <1>4, AddressesAscend DEF TableMaking
    <3>3. TentAddress(e.func) <= TentAddress(unique[end].func)
      <4>1. CASE i = end
        BY <1>3, <2>1, <3>2, <4>1
      <4>2. CASE i < end
        <5>1. e.func < unique[end].func
          BY <1>3, <1>4, <2>1, <4>2 DEF TableMaking
        <5>2. e.func \in DOMAIN program.atoms /\ unique[end].func \in DOMAIN program.atoms
          BY <1>3, <1>4, <2>1
        <5>3. Code(e.func).size \in Nat
          BY <5>2, UnwoundAtoms DEF TableMaking, UnwoundRecords
        <5>4. TentAddress(e.func) + Code(e.func).size <= TentAddress(unique[end].func)
          BY <5>1, <5>2, AddressesAscend DEF TableMaking
        <5>5. TentAddress(e.func) \in Nat /\ TentAddress(unique[end].func) \in Nat
          BY <5>2, AddressesAscend DEF TableMaking
        <5> HIDE DEF e
        <5>6. QED
          BY <5>3, <5>4, <5>5
      <4>3. QED
        BY <1>3, <2>1, <4>1, <4>2
    <3>4. end \in (from + 1) .. end
      BY <1>3
    <3>5. /\ TentAddress(unique[end].func) \in Nat /\ TentAddress(e.func) \in Nat
          /\ TentAddress(first.func) \in Nat
          /\ TentAddress(unique[end].func) - TentAddress(first.func) <= MaxDelta
      BY <2>1, <3>1, <3>2, <3>4 DEF NearEnd
    <3> HIDE DEF e, first
    <3>6. QED
      BY <3>1, <3>3, <3>5
  <2>5. ASSUME ~ (place(n) <= Len(common))
        PROVE  own.encoding = e.encoding /\ own.fde = FdeOf(e)
    <3> DEFINE k == place(n) - Len(common)
    <3>1. k \in DOMAIN c.own /\ c.own[k] = OwnEncoding(e.encoding, i)
      BY <2>3, <2>5
    <3>2. place(n) = Len(common) + k /\ place(n) \in Int
      BY <1>3, <2>3
    <3> HIDE DEF k
    <3>3. c.own[k].encoding = e.encoding /\ c.own[k].of = (IF UsesDwarf(e.encoding) THEN i ELSE 0)
      BY <3>1 DEF OwnEncoding
    <3>4. own.encoding = e.encoding
      BY <1>2, <3>1, <3>3 DEF k
    <3>5. own.fde = IF Slot(k) = {} THEN 0
                    ELSE unique[CHOOSE j \in Slot(k) : \A h \in Slot(k) : h <= j].func
      BY <1>2, <3>1 DEF k
    <3>6. ASSUME NEW j \in Slot(k)  PROVE j = i /\ UsesDwarf(e.encoding)
      <4>1. j \in (from + 1) .. end /\ UsesDwarf(unique[j].encoding)
            /\ EncodingIndex(c.own, j) = Len(common) + k
        BY <3>6 DEF Slot
      <4>2. c.own[k] = OwnEncoding(unique[j].encoding, j)
        BY <1>5, <3>1, <4>1
      <4>3. c.own[k].encoding = unique[j].encoding /\ c.own[k].of = j
        BY <4>1, <4>2 DEF OwnEncoding
      <4>4. UsesDwarf(e.encoding)
        BY <3>3, <4>1, <4>3
      <4>5. QED
        BY <3>3, <4>3, <4>4
    <3>7. CASE UsesDwarf(e.encoding)
      <4>1. i \in Slot(k)
        BY <2>1, <3>2, <3>7 DEF Slot, place
      <4>2. Slot(k) = {i} /\ i \in Nat
        BY <1>3, <3>6, <4>1
      <4>3. (CHOOSE j \in Slot(k) : \A h \in Slot(k) : h <= j) = i
        <5> HIDE DEF i
        <5>1. QED
          BY <4>2
      <4>4. QED
        BY <3>4, <3>5, <3>7, <4>2, <4>3 DEF FdeOf
    <3>8. CASE ~ UsesDwarf(e.encoding)
      <4>1. Slot(k) = {}
        BY <3>6, <3>8
      <4>2. QED
        BY <3>4, <3>5, <3>8, <4>1 DEF FdeOf
    <3>9. QED
      BY <3>7, <3>8
  <2>6. place(n) <= Len(common) => common[place(n)] = e.encoding /\ FdeOf(e) = 0
    BY <2>3 DEF FdeOf
  <2>7. place(n) \in 1 .. MaxIndex + 1
    BY <2>3
  <2>8. QED
    BY <1>2, <2>2, <2>4, <2>5, <2>6, <2>7, ZenonT(30) DEF CompressedRight
<1>7. DOMAIN page.entries = 1 .. page.to - page.from
  BY <1>2, <1>3
<1>8. PageRight(page)
  BY <1>2, <1>3, <1>6, <1>7 DEF PageRight
<1>9. QED
  BY <1>2, <1>8 DEF page, c

\* The page in front is right, whatever its kind.
LEMMA NextPageRight ==
    ASSUME TableMaking, NEW end \in 1 .. Len(unique)
    PROVE  PageRight(NextPage(end)) /\ NextPage(end).to = end
BY RegularPageRight, CompressedPageRight DEF NextPage

------------------------------------------------------------------------------
(***************************************************************************)
(* UnwindInfo: the invariant.                                              *)
(***************************************************************************)
\* The first level index of the pages made
IndexOfPages ==
    [n \in 1 .. (Len(pageList) + 1) |->
        IF n > Len(pageList)
        THEN LET f == AllEntries[Len(AllEntries)].func
             IN  [addr |-> Address(f) + Code(f).size + 1, lsda |-> Len(LsdaIndex)]
        ELSE LET i == pageList[n].from + 1
             IN  [addr |-> Address(unique[i].func), lsda |-> LsdasBefore(i)]]

\* What was made of the entries
TableMade ==
    /\ AllEntries # <<>>
    /\ unique = WithPersonalities(Compressed(AllEntries))
    /\ common = FindCommonEncoding(unique)
    /\ room \in Nat /\ 6 <= room

\* The pages hold the entries behind endIndex, each in its place.
PagesMade ==
    /\ pageList \in Seq({pageList[n] : n \in DOMAIN pageList})
    /\ endIndex \in 0 .. Len(unique)
    /\ \A n \in DOMAIN pageList : PageRight(pageList[n]) /\ endIndex <= pageList[n].from
    /\ \A m, n \in DOMAIN pageList : m < n => pageList[m].to <= pageList[n].from
    /\ \A i \in (endIndex + 1) .. Len(unique) :
          \E n \in DOMAIN pageList : pageList[n].from < i /\ i <= pageList[n].to

\* The table while it is made
UnwindInv ==
    /\ program \in UnwindInputs
    /\ \/ making = "entries" /\ pageList = <<>> /\ AllEntries # <<>>
       \/ making = "pages" /\ TableMade /\ PagesMade
       \/ making = "made" /\ pageList = <<>> /\ (tooMany \/ AllEntries = <<>>)
       \/ /\ making = "made" /\ TableMade /\ PagesMade
          /\ endIndex = 0 /\ firstLevel = IndexOfPages

\* The table as its pages need it
LEMMA TableIsMaking ==
    ASSUME program \in UnwindInputs, TableMade
    PROVE  TableMaking
<1>1. /\ Len(unique) \in Nat /\ unique \in [1 .. Len(unique) -> UnwindEntries]
      /\ \A m \in 1 .. Len(unique) :
            unique[m].func \in DOMAIN program.atoms /\ Listed(unique[m].func)
      /\ \A m, n \in 1 .. Len(unique) : m < n => unique[m].func < unique[n].func
  BY UniqueCovers DEF TableMade
<1>2. /\ common \in Seq(Encodings) /\ Len(common) <= MaxCommon
      /\ \A n \in DOMAIN common : ~ UsesDwarf(common[n])
  BY <1>1, CommonIs DEF TableMade
<1>3. QED
  BY <1>1, <1>2 DEF TableMade, TableMaking

\* What layout knows is that of the program alone.
LEMMA ProgramStays ==
    ASSUME UNCHANGED program
    PROVE  /\ AllEntries' = AllEntries
           /\ \A a : Listed(a)' = Listed(a) /\ Address(a)' = Address(a) /\ Code(a)' = Code(a)
                     /\ TentAddress(a)' = TentAddress(a)
<1>1. \A a : Code(a)' = Code(a)
  BY DEF Code
<1>2. \A a : Listed(a)' = Listed(a) /\ EntryFor(a)' = EntryFor(a)
  BY <1>1 DEF Listed, EntryFor
<1>3. Gaps' = Gaps /\ \A a : TentAddress(a)' = TentAddress(a)
  BY <1>1 DEF Gaps, TentAddress
<1>4. AllEntries' = AllEntries
  BY <1>2 DEF AllEntries
<1>5. QED
  BY <1>1, <1>2, <1>3, <1>4 DEF Address

\* What is right of a page stays so.
LEMMA PagesStay ==
    ASSUME UNCHANGED <<program, unique, common>>
    PROVE  \A page : PageRight(page)' = PageRight(page)
<1>1. \A page, n : CompressedRight(page, n)' = CompressedRight(page, n)
  BY ProgramStays DEF CompressedRight, FdeOf, UsesDwarf
<1>2. \A page, n : RegularRight(page, n)' = RegularRight(page, n)
  BY DEF RegularRight, FdeOf, UsesDwarf
<1>3. QED
  BY <1>1, <1>2 DEF PageRight

\* The invariant holds at the start.
LEMMA UnwindStarts == UnwindInit => UnwindInv
<1> SUFFICES ASSUME UnwindInit
             PROVE  UnwindInv
  OBVIOUS
<1>1. program \in UnwindInputs
  BY DEF UnwindInit
<1>2. PICK N \in Nat :
         /\ AllEntries \in [1 .. N -> UnwindEntries]
         /\ \A i \in 1 .. N : /\ AllEntries[i].func \in DOMAIN program.atoms
                              /\ Listed(AllEntries[i].func)
         /\ \A a \in DOMAIN program.atoms :
               Listed(a) => \E i \in 1 .. N : AllEntries[i].func = a
  BY <1>1, AllEntriesAre
<1>3. CASE \E a \in DOMAIN program.atoms : Listed(a)
  <2>1. N # 0
    BY <1>2, <1>3
  <2>2. AllEntries # <<>>
    <3>1. DOMAIN AllEntries = 1 .. N /\ 1 \in 1 .. N
      BY <1>2, <2>1
    <3>2. QED
      BY <3>1
  <2>3. QED
    BY <1>1, <1>3, <2>2 DEF UnwindInit, UnwindInv
<1>4. CASE ~ \E a \in DOMAIN program.atoms : Listed(a)
  <2>1. N = 0
    <3>1. ~ (1 \in 1 .. N)
      BY <1>2, <1>4
    <3>2. QED
      BY <3>1
  <2>2. AllEntries = <<>>
    <3>1. AllEntries \in Seq(UnwindEntries) /\ Len(AllEntries) = 0
      BY <1>2, <2>1
    <3>2. QED
      BY <3>1
  <2>3. QED
    BY <1>1, <1>4, <2>2 DEF UnwindInit, UnwindInv
<1>5. QED
  BY <1>3, <1>4

\* A page has room for an entry and its encoding.
LEMMA RoomIsEnough ==
    ASSUME program \in UnwindInputs
    PROVE  /\ LastPageRoom \in Nat /\ 6 <= LastPageRoom
           /\ PageWords \in Nat /\ 6 <= PageWords
<1>1. PageWords \in Nat /\ MinLastPage \in Nat /\ 6 <= MinLastPage /\ MinLastPage <= PageWords
  BY UnwindAssumption
<1>2. program.ehFrame \in Nat
  BY UnwoundAtoms
<1>3. program.ehFrame % PageWords \in 0 .. PageWords - 1
  BY <1>1, <1>2
<1>4. QED
  BY <1>1, <1>3 DEF LastPageRoom

\* Each step keeps the invariant.
LEMMA EntriesMade == UnwindInv /\ MakeEntries => UnwindInv'
<1> SUFFICES ASSUME UnwindInv, MakeEntries  PROVE UnwindInv'
  OBVIOUS
<1>1. /\ program \in UnwindInputs /\ making = "entries" /\ pageList = <<>> /\ AllEntries # <<>>
      /\ UNCHANGED <<program, pageList, firstLevel>>
  BY DEF UnwindInv, MakeEntries
<1>2. program' \in UnwindInputs /\ AllEntries' # <<>> /\ AllEntries' = AllEntries /\ pageList' = <<>>
  BY <1>1, ProgramStays
<1>3. CASE tooMany' = TRUE /\ making' = "made"
  BY <1>2, <1>3 DEF UnwindInv
<1>4. CASE ~ (tooMany' = TRUE /\ making' = "made")
  <2>1. /\ unique' = WithPersonalities(Compressed(AllEntries))
        /\ common' = FindCommonEncoding(unique')
        /\ endIndex' = Len(unique') /\ room' = LastPageRoom
        /\ making' = "pages"
    BY <1>4 DEF MakeEntries
  <2>2. TableMade'
    BY <1>1, <1>2, <2>1, RoomIsEnough DEF TableMade
  <2>3. Len(unique') \in Nat
    <3>1. PICK N \in Nat : AllEntries \in [1 .. N -> UnwindEntries]
      BY <1>1, AllEntriesAre
    <3>2. PICK M \in Nat : Compressed(AllEntries) \in [1 .. M -> UnwindEntries]
      <4> DEFINE E == AllEntries
      <4> HIDE DEF E
      <4>1. PICK M \in Nat : \E at \in [1 .. M -> 1 .. N] :
                                Compressed(E) = [m \in 1 .. M |-> E[at[m]]]
        BY <3>1, CompressedStands DEF E
      <4>2. Compressed(E) \in [1 .. M -> UnwindEntries]
        BY <3>1, <4>1 DEF E
      <4>3. QED
        BY <4>2 DEF E
    <3>3. unique' \in [1 .. M -> UnwindEntries]
      BY <2>1, <3>2, WithPersonalitiesIs
    <3>4. QED
      BY <3>3
  <2>4. PagesMade'
    BY <1>2, <2>1, <2>3 DEF PagesMade
  <2>5. QED
    BY <1>2, <2>1, <2>2, <2>4 DEF UnwindInv
<1>5. QED
  BY <1>3, <1>4

\* A page made in front keeps the others in their places.
LEMMA PageMade == UnwindInv /\ MakePage => UnwindInv'
<1> SUFFICES ASSUME UnwindInv, MakePage  PROVE UnwindInv'
  OBVIOUS
<1>1. /\ program \in UnwindInputs /\ making = "pages" /\ TableMade /\ PagesMade /\ endIndex > 0
      /\ UNCHANGED <<program, making, unique, common, firstLevel, tooMany>>
  BY DEF UnwindInv, MakePage
<1> DEFINE page == NextPage(endIndex)
<1>2. /\ pageList' = <<page>> \o pageList /\ endIndex' = page.from
      /\ room' = IF page.from > 0 THEN PageWords ELSE room
  BY DEF MakePage
<1>3. TableMaking
  BY <1>1, TableIsMaking
<1>4. /\ endIndex \in 1 .. Len(unique) /\ Len(unique) \in Nat /\ endIndex \in Nat
  BY <1>1, <1>3 DEF PagesMade, TableMaking
<1>5. PageRight(page) /\ page.to = endIndex
  BY <1>3, <1>4, NextPageRight
<1>6. page.from \in Nat /\ page.from < endIndex
  BY <1>5 DEF PageRight
<1> HIDE DEF page
<1> DEFINE S == {pageList[n] : n \in DOMAIN pageList} \cup {page}
           L == Len(pageList)
<1>7. pageList \in Seq(S) /\ page \in S
  BY <1>1 DEF PagesMade
<1> HIDE DEF S
<1>8. L \in Nat /\ DOMAIN pageList = 1 .. L
  BY <1>7
<1>9. /\ pageList' \in Seq(S) /\ DOMAIN pageList' = 1 .. L + 1
      /\ pageList'[1] = page
      /\ \A n \in 2 .. L + 1 : pageList'[n] = pageList[n - 1] /\ n - 1 \in 1 .. L
  <2>1. pageList' \in Seq(S) /\ Len(pageList') = L + 1
    BY <1>2, <1>7
  <2>2. pageList'[1] = page
    BY <1>2, <1>7
  <2>3. \A n \in 2 .. L + 1 : n - 1 \in 1 .. L
    BY <1>8
  <2>4. \A n \in 2 .. L + 1 : pageList'[n] = pageList[n - 1]
    BY <1>2, <1>7, <1>8
  <2>5. QED
    BY <1>8, <2>1, <2>2, <2>3, <2>4
<1>10. ASSUME NEW n \in 1 .. L + 1
       PROVE  \/ n = 1 /\ pageList'[n] = page
              \/ n # 1 /\ n - 1 \in DOMAIN pageList /\ pageList'[n] = pageList[n - 1]
  <2>1. n # 1 => n \in 2 .. L + 1
    BY <1>8
  <2>2. QED
    BY <1>8, <1>9, <2>1
<1>11. \A n \in DOMAIN pageList :
          PageRight(pageList[n]) /\ endIndex <= pageList[n].from
  BY <1>1 DEF PagesMade
<1>12. \A n \in DOMAIN pageList : pageList[n].from \in Nat /\ pageList[n].to \in Nat
  BY <1>11 DEF PageRight
<1>13. \A n \in 1 .. L + 1 : PageRight(pageList[n])' /\ endIndex' <= pageList'[n].from
  <2> SUFFICES ASSUME NEW n \in 1 .. L + 1
               PROVE  PageRight(pageList'[n]) /\ endIndex' <= pageList'[n].from
    <3>1. \A x : PageRight(x)' = PageRight(x)
      BY <1>1, PagesStay
    <3>2. QED
      BY <3>1
  <2>1. CASE n = 1
    BY <1>2, <1>5, <1>6, <1>9, <2>1
  <2>2. CASE n # 1
    <3>1. n - 1 \in DOMAIN pageList /\ pageList'[n] = pageList[n - 1]
      BY <1>10, <2>2
    <3>2. QED
      BY <1>2, <1>4, <1>6, <1>11, <1>12, <3>1
  <2>3. QED
    BY <2>1, <2>2
<1>14. \A m, n \in 1 .. L + 1 : m < n => pageList'[m].to <= pageList'[n].from
  <2> SUFFICES ASSUME NEW m \in 1 .. L + 1, NEW n \in 1 .. L + 1, m < n
               PROVE  pageList'[m].to <= pageList'[n].from
    OBVIOUS
  <2>1. n # 1
    BY <1>8
  <2>2. n - 1 \in DOMAIN pageList /\ pageList'[n] = pageList[n - 1]
    BY <1>10, <2>1
  <2>3. CASE m = 1
    BY <1>5, <1>9, <1>11, <2>2, <2>3
  <2>4. CASE m # 1
    <3>1. m - 1 \in DOMAIN pageList /\ pageList'[m] = pageList[m - 1] /\ m - 1 < n - 1
      BY <1>8, <1>10, <2>4
    <3>2. QED
      BY <1>1, <2>2, <3>1 DEF PagesMade
  <2>5. QED
    BY <2>3, <2>4
<1>15. \A i \in (endIndex' + 1) .. Len(unique) :
          \E n \in 1 .. L + 1 : pageList'[n].from < i /\ i <= pageList'[n].to
  <2> SUFFICES ASSUME NEW i \in (page.from + 1) .. Len(unique)
               PROVE  \E n \in 1 .. L + 1 : pageList'[n].from < i /\ i <= pageList'[n].to
    BY <1>2
  <2>1. CASE i <= endIndex
    <3>1. 1 \in 1 .. L + 1 /\ pageList'[1].from < i /\ i <= pageList'[1].to
      BY <1>4, <1>5, <1>6, <1>8, <1>9, <2>1
    <3>2. QED
      BY <3>1
  <2>2. CASE ~ (i <= endIndex)
    <3>1. i \in (endIndex + 1) .. Len(unique)
      BY <1>4, <1>6, <2>2
    <3>2. PICK n \in DOMAIN pageList : pageList[n].from < i /\ i <= pageList[n].to
      BY <1>1, <3>1 DEF PagesMade
    <3>3. n + 1 \in 2 .. L + 1 /\ n + 1 \in 1 .. L + 1 /\ n + 1 - 1 = n
      BY <1>8
    <3>4. pageList'[n + 1] = pageList[n]
      BY <1>9, <3>3
    <3>5. QED
      BY <3>2, <3>3, <3>4
  <2>3. QED
    BY <2>1, <2>2
<1>16. pageList' \in Seq({pageList'[n] : n \in DOMAIN pageList'})
  <2> DEFINE pages == pageList'
             T == {pages[n] : n \in DOMAIN pages}
  <2>1. pages \in Seq(S) /\ DOMAIN pages = 1 .. Len(pages) /\ Len(pages) \in Nat
    BY <1>9
  <2>2. \A n \in 1 .. Len(pages) : pages[n] \in T
    BY <2>1
  <2>3. pages = [n \in 1 .. Len(pages) |-> pages[n]]
    BY <2>1
  <2> HIDE DEF pages, T
  <2>4. pages \in Seq(T)
    BY <2>1, <2>2, <2>3
  <2>5. QED
    BY <2>4 DEF pages, T
<1>17. endIndex' \in 0 .. Len(unique)'
  BY <1>1, <1>2, <1>4, <1>6
<1>18. PagesMade'
  BY <1>1, <1>9, <1>13, <1>14, <1>15, <1>16, <1>17 DEF PagesMade
<1>19. TableMade'
  <2>1. room' \in Nat /\ 6 <= room'
    BY <1>1, <1>2, RoomIsEnough DEF TableMade
  <2>2. QED
    BY <1>1, <2>1, ProgramStays DEF TableMade
<1>20. QED
  BY <1>1, <1>18, <1>19 DEF UnwindInv

\* The first level index is made of the pages that stay.
LEMMA IndexMade == UnwindInv /\ MakeIndex => UnwindInv'
<1> SUFFICES ASSUME UnwindInv, MakeIndex  PROVE UnwindInv'
  OBVIOUS
<1>1. /\ program \in UnwindInputs /\ making = "pages" /\ TableMade /\ PagesMade /\ endIndex = 0
      /\ UNCHANGED <<program, unique, common, endIndex, room, pageList, tooMany>>
      /\ making' = "made" /\ firstLevel' = IndexOfPages
  BY DEF UnwindInv, MakeIndex, IndexOfPages
<1>2. IndexOfPages' = IndexOfPages
  <2>1. LsdaIndex' = LsdaIndex /\ \A i : LsdasBefore(i)' = LsdasBefore(i)
    BY <1>1 DEF LsdaIndex, LsdasBefore
  <2>2. QED
    BY <1>1, <2>1, ProgramStays DEF IndexOfPages
<1>3. TableMade' /\ AllEntries' = AllEntries
  BY <1>1, ProgramStays DEF TableMade
<1>4. PagesMade'
  <2>1. \A x : PageRight(x)' = PageRight(x)
    BY <1>1, PagesStay
  <2>2. QED
    BY <1>1, <2>1 DEF PagesMade
<1>5. QED
  BY <1>1, <1>2, <1>3, <1>4 DEF UnwindInv

\* Nothing happens.
LEMMA UnwindStutters == UnwindInv /\ UNCHANGED unwindVars => UnwindInv'
<1> SUFFICES ASSUME UnwindInv, UNCHANGED unwindVars  PROVE UnwindInv'
  OBVIOUS
<1>1. UNCHANGED <<program, making, unique, common, endIndex, room, pageList, firstLevel, tooMany>>
  BY DEF unwindVars
<1>2. AllEntries' = AllEntries /\ \A x : PageRight(x)' = PageRight(x)
  BY <1>1, ProgramStays, PagesStay
<1>3. IndexOfPages' = IndexOfPages
  <2>1. LsdaIndex' = LsdaIndex /\ \A i : LsdasBefore(i)' = LsdasBefore(i)
    BY <1>1 DEF LsdaIndex, LsdasBefore
  <2>2. QED
    BY <1>1, <2>1, ProgramStays DEF IndexOfPages
<1>4. TableMade' = TableMade
  BY <1>1, <1>2 DEF TableMade
<1>5. PagesMade' = PagesMade
  BY <1>1, <1>2 DEF PagesMade
<1>6. QED
  BY <1>1, <1>2, <1>3, <1>4, <1>5 DEF UnwindInv

\* The table is as it should be while it is made.
LEMMA UnwindAlways == UnwindSpec => []UnwindInv
<1>1. UnwindInv /\ [UnwindNext]_unwindVars => UnwindInv'
  BY EntriesMade, PageMade, IndexMade, UnwindStutters DEF UnwindNext, UnwindMade
<1>2. QED
  BY <1>1, UnwindStarts, PTL DEF UnwindSpec

------------------------------------------------------------------------------
(***************************************************************************)
(* UnwindInfo: reading the table.                                          *)
(***************************************************************************)
Start(i) == Address(unique[i].func)

\* The finished table
TableFinished ==
    /\ TableMaking /\ TableMade /\ PagesMade
    /\ endIndex = 0 /\ firstLevel = IndexOfPages /\ LayoutSettles

\* Entries start one behind the other.
LEMMA StartsAscend ==
    ASSUME TableMaking
    PROVE  /\ \A i \in 1 .. Len(unique) : Start(i) \in Nat
           /\ \A i, j \in 1 .. Len(unique) : i < j => Start(i) < Start(j)
<1>1. \A i \in 1 .. Len(unique) :
         unique[i].func \in DOMAIN program.atoms /\ Code(unique[i].func).size \in Nat
         /\ Code(unique[i].func).size > 0
  BY UnwoundAtoms DEF TableMaking, UnwoundRecords
<1>2. \A i \in 1 .. Len(unique) : Start(i) \in Nat
  BY <1>1, AddressesAscend DEF Start, TableMaking
<1>3. ASSUME NEW i \in 1 .. Len(unique), NEW j \in 1 .. Len(unique), i < j
      PROVE  Start(i) < Start(j)
  <2>1. unique[i].func < unique[j].func
    BY <1>3 DEF TableMaking
  <2>2. Start(i) + Code(unique[i].func).size <= Start(j)
    BY <1>1, <2>1, AddressesAscend DEF Start, TableMaking
  <2>3. Start(i) \in Nat /\ Start(j) \in Nat /\ Code(unique[i].func).size \in Nat
        /\ Code(unique[i].func).size > 0
    BY <1>1, <1>2
  <2>4. QED
    BY <2>2, <2>3
<1>4. QED
  BY <1>2, <1>3

\* An address of a function is behind the starts of the entry that covers it
\* and of those before, and before those of the others.
LEMMA StartsAround ==
    ASSUME TableMaking, NEW a \in DOMAIN program.atoms, Listed(a),
           NEW m \in 1 .. Len(unique), Covers(unique, m, a),
           NEW addr \in Address(a) .. (Address(a) + Code(a).size - 1)
    PROVE  addr \in Nat /\ \A i \in 1 .. Len(unique) : Start(i) <= addr <=> i <= m
<1>1. /\ Address(a) \in Nat /\ Code(a).size \in Nat /\ a \in Nat
      /\ unique[m].func \in DOMAIN program.atoms /\ unique[m].func \in Nat
      /\ Start(m) \in Nat /\ Code(unique[m].func).size \in Nat
  <2>1. unique[m].func \in DOMAIN program.atoms /\ program \in UnwindInputs
    BY DEF TableMaking
  <2>2. \A b \in DOMAIN program.atoms :
           b \in Nat /\ Address(b) \in Nat /\ Code(b) \in UnwoundRecords
    BY <2>1, UnwoundAtoms, AddressesAscend, SMTT(30)
  <2>3. \A b \in DOMAIN program.atoms : Code(b).size \in Nat
    BY <2>2 DEF UnwoundRecords
  <2>4. QED
    BY <2>1, <2>2, <2>3 DEF Start
<1>2. addr \in Nat /\ Address(a) <= addr /\ addr < Address(a) + Code(a).size
  BY <1>1
<1>3. unique[m].func <= a /\ \A n \in DOMAIN unique : m < n => a < unique[n].func
  BY DEF Covers
<1>4. Start(m) <= Address(a)
  <2>1. CASE unique[m].func = a
    BY <1>1, <2>1 DEF Start
  <2>2. CASE unique[m].func < a
    <3>1. Start(m) + Code(unique[m].func).size <= Address(a)
      BY <1>1, <2>2, AddressesAscend DEF Start, TableMaking
    <3>2. QED
      BY <1>1, <3>1
  <2>3. QED
    BY <1>1, <1>3, <2>1, <2>2
<1>5. ASSUME NEW i \in 1 .. Len(unique), i <= m
      PROVE  Start(i) <= addr
  <2>1. Start(i) \in Nat /\ (i < m => Start(i) < Start(m))
    BY StartsAscend
  <2>2. i = m \/ i < m
    BY <1>5 DEF TableMaking
  <2>3. QED
    BY <1>1, <1>2, <1>4, <2>1, <2>2
<1>6. ASSUME NEW i \in 1 .. Len(unique), ~ (i <= m)
      PROVE  ~ (Start(i) <= addr)
  <2>1. a < unique[i].func /\ unique[i].func \in DOMAIN program.atoms
    BY <1>3, <1>6 DEF TableMaking
  <2>2. Address(a) + Code(a).size <= Start(i) /\ Start(i) \in Nat
    BY <2>1, AddressesAscend DEF Start, TableMaking
  <2>3. QED
    BY <1>1, <1>2, <2>2
<1>7. QED
  BY <1>2, <1>5, <1>6

\* The page of an entry, and what the index tells of it
InPage(p, m) == p \in DOMAIN pageList /\ pageList[p].from < m /\ m <= pageList[p].to

\* The first level index has the start of each page.
LEMMA IndexTells ==
    ASSUME TableFinished, NEW n \in DOMAIN pageList
    PROVE  /\ n \in Nat /\ n > 0 /\ n <= Len(pageList) /\ Len(pageList) \in Nat
           /\ DOMAIN pageList = 1 .. Len(pageList)
           /\ pageList[n].from \in Nat /\ pageList[n].to \in Nat
           /\ pageList[n].from < pageList[n].to /\ pageList[n].to <= Len(unique)
           /\ pageList[n].from + 1 \in 1 .. Len(unique)
           /\ firstLevel[n].addr = Start(pageList[n].from + 1)
           /\ firstLevel[n].lsda = LsdasBefore(pageList[n].from + 1)
           /\ n < Len(pageList) =>
                 /\ n + 1 \in DOMAIN pageList
                 /\ firstLevel[n + 1].addr = Start(pageList[n + 1].from + 1)
                 /\ firstLevel[n + 1].lsda = LsdasBefore(pageList[n + 1].from + 1)
                 /\ pageList[n].to <= pageList[n + 1].from
           /\ n = Len(pageList) =>
                 LET f == AllEntries[Len(AllEntries)].func
                 IN  /\ firstLevel[n + 1].addr = Address(f) + Code(f).size + 1
                     /\ firstLevel[n + 1].lsda = Len(LsdaIndex)
<1>1. pageList \in Seq({pageList[h] : h \in DOMAIN pageList})
  BY DEF TableFinished, PagesMade
<1> DEFINE L == Len(pageList)
<1>2. L \in Nat /\ DOMAIN pageList = 1 .. L
  BY <1>1
<1> HIDE DEF L
<1>3. \A h \in 1 .. L : /\ pageList[h].from \in Nat /\ pageList[h].to \in Nat
                        /\ pageList[h].from < pageList[h].to /\ pageList[h].to <= Len(unique)
  BY <1>2 DEF TableFinished, PagesMade, PageRight
<1>4. Len(unique) \in Nat
  BY DEF TableFinished, TableMaking
<1>5. firstLevel = [h \in 1 .. (L + 1) |->
        IF h > L
        THEN LET f == AllEntries[Len(AllEntries)].func
             IN  [addr |-> Address(f) + Code(f).size + 1, lsda |-> Len(LsdaIndex)]
        ELSE LET i == pageList[h].from + 1
             IN  [addr |-> Address(unique[i].func), lsda |-> LsdasBefore(i)]]
  BY DEF TableFinished, IndexOfPages, L
<1>6. \A h \in 1 .. L : /\ firstLevel[h].addr = Start(pageList[h].from + 1)
                        /\ firstLevel[h].lsda = LsdasBefore(pageList[h].from + 1)
  <2> SUFFICES ASSUME NEW h \in 1 .. L
               PROVE  /\ firstLevel[h].addr = Start(pageList[h].from + 1)
                      /\ firstLevel[h].lsda = LsdasBefore(pageList[h].from + 1)
    OBVIOUS
  <2>1. h \in 1 .. L + 1 /\ ~ (h > L)
    BY <1>2
  <2>2. QED
    BY <1>5, <2>1 DEF Start
<1>7. LET f == AllEntries[Len(AllEntries)].func
      IN  /\ firstLevel[L + 1].addr = Address(f) + Code(f).size + 1
          /\ firstLevel[L + 1].lsda = Len(LsdaIndex)
  <2>1. L + 1 \in 1 .. L + 1 /\ L + 1 > L
    BY <1>2
  <2>2. QED
    BY <1>5, <2>1
<1>8. \A h, k \in DOMAIN pageList : h < k => pageList[h].to <= pageList[k].from
  BY DEF TableFinished, PagesMade
<1>9. n \in 1 .. L
  BY <1>2
<1>10. n < L => n + 1 \in 1 .. L /\ n < n + 1
  BY <1>2, <1>9
<1>11. pageList[n].from + 1 \in 1 .. Len(unique)
  BY <1>3, <1>4, <1>9
<1>12. /\ n \in Nat /\ n > 0 /\ n <= L /\ L \in Nat /\ DOMAIN pageList = 1 .. L
       /\ pageList[n].from \in Nat /\ pageList[n].to \in Nat
       /\ pageList[n].from < pageList[n].to /\ pageList[n].to <= Len(unique)
       /\ firstLevel[n].addr = Start(pageList[n].from + 1)
       /\ firstLevel[n].lsda = LsdasBefore(pageList[n].from + 1)
  BY <1>2, <1>3, <1>6, <1>9
<1>13. ASSUME n < L
       PROVE  /\ n + 1 \in DOMAIN pageList
              /\ firstLevel[n + 1].addr = Start(pageList[n + 1].from + 1)
              /\ firstLevel[n + 1].lsda = LsdasBefore(pageList[n + 1].from + 1)
              /\ pageList[n].to <= pageList[n + 1].from
  BY <1>2, <1>6, <1>8, <1>10, <1>13
<1>14. QED
  BY <1>7, <1>11, <1>12, <1>13 DEF L

\* The last entry is of the last function.
LEMMA LastFunction ==
    ASSUME TableFinished, NEW a \in DOMAIN program.atoms, Listed(a),
           NEW addr \in Address(a) .. (Address(a) + Code(a).size - 1)
    PROVE  LET f == AllEntries[Len(AllEntries)].func
           IN  addr < Address(f) + Code(f).size + 1
<1>1. PICK N \in Nat :
         /\ AllEntries \in [1 .. N -> UnwindEntries]
         /\ \A i \in 1 .. N : AllEntries[i].func \in DOMAIN program.atoms
         /\ \A b \in DOMAIN program.atoms : Listed(b) => \E i \in 1 .. N : AllEntries[i].func = b
         /\ \A i, j \in 1 .. N : i < j => AllEntries[i].func < AllEntries[j].func
  BY AllEntriesAre DEF TableFinished, TableMaking
<1> DEFINE E == AllEntries
           f == E[N].func
<1>2. Len(E) = N
  BY <1>1
<1>3. PICK i \in 1 .. N : E[i].func = a
  BY <1>1
<1>4. N \in 1 .. N /\ (i = N \/ i < N)
  BY <1>3
<1>5. f \in DOMAIN program.atoms /\ (f = a \/ a < f)
  BY <1>1, <1>3, <1>4
<1> HIDE DEF E, f
<1>6. /\ Address(a) \in Nat /\ Address(f) \in Nat /\ Code(a).size \in Nat /\ Code(f).size \in Nat
      /\ (a < f => Address(a) + Code(a).size <= Address(f))
  BY <1>5, UnwoundAtoms, AddressesAscend DEF TableFinished, TableMaking, UnwoundRecords
<1>7. addr < Address(f) + Code(f).size + 1
  BY <1>5, <1>6
<1>8. QED
  BY <1>2, <1>7 DEF E, f

\* The page found for an address is that of the entry.
LEMMA PageFound ==
    ASSUME TableFinished, NEW a \in DOMAIN program.atoms, Listed(a),
           NEW m \in 1 .. Len(unique), Covers(unique, m, a), NEW p, InPage(p, m),
           NEW addr \in Address(a) .. (Address(a) + Code(a).size - 1)
    PROVE  PageAt(addr) = p
<1> DEFINE from(n) == pageList[n].from
           Holds(n) == firstLevel[n].addr <= addr /\ addr < firstLevel[n + 1].addr
           last == AllEntries[Len(AllEntries)].func
<1>1. TableMaking
  BY DEF TableFinished
<1>2. p \in DOMAIN pageList /\ from(p) < m /\ m <= pageList[p].to /\ m \in Nat
  BY <1>1 DEF InPage, TableMaking
<1>3. addr \in Nat /\ \A i \in 1 .. Len(unique) : Start(i) <= addr <=> i <= m
  BY <1>1, StartsAround
<1>4. addr < Address(last) + Code(last).size + 1
  BY LastFunction
<1> HIDE DEF last
<1>5. ASSUME NEW n \in DOMAIN pageList
      PROVE  /\ firstLevel[n].addr <= addr <=> from(n) < m
             /\ n < Len(pageList) => (addr < firstLevel[n + 1].addr <=> m <= from(n + 1))
             /\ n = Len(pageList) => addr < firstLevel[n + 1].addr
             /\ n \in Nat /\ Len(pageList) \in Nat /\ n <= Len(pageList) /\ from(n) \in Nat
             /\ pageList[n].to \in Nat /\ from(n) < pageList[n].to
             /\ n < Len(pageList) => n + 1 \in DOMAIN pageList
  <2>1. /\ n \in Nat /\ Len(pageList) \in Nat /\ n <= Len(pageList)
        /\ from(n) \in Nat /\ from(n) + 1 \in 1 .. Len(unique)
        /\ pageList[n].to \in Nat /\ from(n) < pageList[n].to
        /\ firstLevel[n].addr = Start(from(n) + 1)
        /\ n < Len(pageList) => /\ n + 1 \in DOMAIN pageList
                                /\ firstLevel[n + 1].addr = Start(from(n + 1) + 1)
        /\ n = Len(pageList) => firstLevel[n + 1].addr = Address(last) + Code(last).size + 1
    BY IndexTells DEF last
  <2>2. firstLevel[n].addr <= addr <=> from(n) < m
    BY <1>2, <1>3, <2>1
  <2>3. ASSUME n < Len(pageList)  PROVE addr < firstLevel[n + 1].addr <=> m <= from(n + 1)
    <3>1. /\ from(n + 1) \in Nat /\ from(n + 1) + 1 \in 1 .. Len(unique)
          /\ firstLevel[n + 1].addr = Start(from(n + 1) + 1)
      BY <2>1, <2>3, IndexTells
    <3>2. Start(from(n + 1) + 1) \in Nat
      BY <1>1, <3>1, StartsAscend
    <3>3. Start(from(n + 1) + 1) <= addr <=> from(n + 1) + 1 <= m
      BY <1>3, <3>1
    <3> HIDE DEF from
    <3>4. QED
      BY <1>2, <1>3, <3>1, <3>2, <3>3
  <2>4. QED
    BY <1>4, <2>1, <2>2, <2>3
<1>6. \A n, k \in DOMAIN pageList : n < k => pageList[n].to <= from(k)
  BY DEF TableFinished, PagesMade
<1> HIDE DEF from
<1>7. Holds(p)
  <2>1. CASE p < Len(pageList)
    <3>1. p + 1 \in DOMAIN pageList /\ p < p + 1 /\ from(p + 1) \in Nat
      BY <1>2, <1>5, <2>1
    <3>2. m <= from(p + 1)
      BY <1>2, <1>5, <1>6, <3>1
    <3>3. QED
      BY <1>2, <1>5, <2>1, <3>2
  <2>2. CASE p = Len(pageList)
    BY <1>2, <1>5, <2>2
  <2>3. QED
    BY <1>2, <1>5, <2>1, <2>2
<1>8. ASSUME NEW n \in DOMAIN pageList, Holds(n)
      PROVE  n = p
  <2>1. from(n) < m /\ (n < Len(pageList) => m <= from(n + 1))
    BY <1>5, <1>8
  <2>2. ~ (n < p)
    <3> SUFFICES ASSUME n < p  PROVE FALSE
      OBVIOUS
    <3>1. n < Len(pageList)
      BY <1>2, <1>5
    <3>2. n + 1 \in DOMAIN pageList /\ m <= from(n + 1)
      BY <1>5, <2>1, <3>1
    <3>3. n + 1 = p \/ n + 1 < p
      BY <1>2, <1>5
    <3>4. n + 1 < p => pageList[n + 1].to <= from(p)
      BY <1>2, <1>6, <3>2
    <3>5. from(n + 1) \in Nat /\ pageList[n + 1].to \in Nat /\ from(n + 1) < pageList[n + 1].to
          /\ from(p) \in Nat
      BY <1>2, <1>5, <3>2
    <3>6. QED
      BY <1>2, <3>2, <3>3, <3>4, <3>5
  <2>3. ~ (p < n)
    <3>1. p < n => pageList[p].to <= from(n)
      BY <1>2, <1>6
    <3>2. pageList[p].to \in Nat /\ from(n) \in Nat
      BY <1>2, <1>5
    <3>3. QED
      BY <1>2, <2>1, <3>1, <3>2
  <2>4. n \in Nat /\ p \in Nat
    BY <1>2, <1>5
  <2>5. QED
    BY <2>2, <2>3, <2>4
<1>9. PageAt(addr) = CHOOSE n \in DOMAIN pageList : Holds(n)
  BY DEF PageAt
<1> HIDE DEF Holds
<1>10. QED
  BY <1>2, <1>7, <1>8, <1>9

\* An entry of a page reads as it is in the table.
LEMMA EntryReads ==
    ASSUME TableFinished, NEW p \in DOMAIN pageList,
           NEW k \in 1 .. (pageList[p].to - pageList[p].from)
    PROVE  LET i == pageList[p].from + k
           IN  /\ i \in 1 .. Len(unique)
               /\ EntryOf(p, k).addr = Start(i)
               /\ EntryOf(p, k).encoding = unique[i].encoding
               /\ EntryOf(p, k).fde = FdeOf(unique[i])
<1> DEFINE page == pageList[p]
           i == page.from + k
           first == page.from + 1
           e == unique[i]
<1>1. TableMaking /\ PageRight(page)
  BY DEF TableFinished, PagesMade
<1>2. /\ page.from \in Nat /\ page.to \in Nat /\ page.to <= Len(unique) /\ Len(unique) \in Nat
      /\ first \in 1 .. Len(unique) /\ firstLevel[p].addr = Start(first)
      /\ page.from < page.to
  BY IndexTells DEF TableFinished, TableMaking
<1>3. i \in 1 .. Len(unique) /\ (first = i \/ first < i)
  BY <1>2
<1>4. \/ page.kind = "regular" /\ RegularRight(page, k)
      \/ page.kind = "compressed" /\ CompressedRight(page, k)
  BY <1>1 DEF PageRight
<1>5. CASE page.kind = "regular" /\ RegularRight(page, k)
  <2>1. page.entries[k] = [func |-> e.func, encoding |-> e.encoding, fde |-> FdeOf(e)]
    BY <1>5 DEF RegularRight
  <2>2. EntryOf(p, k) = [addr |-> Address(e.func), encoding |-> e.encoding, fde |-> FdeOf(e)]
    BY <1>5, <2>1 DEF EntryOf
  <2>3. QED
    BY <1>3, <2>2 DEF Start
<1>6. CASE page.kind = "compressed" /\ CompressedRight(page, k)
  <2> DEFINE x == page.entries[k]
             own == page.own[x.index - Len(common)]
             d == Address(e.func) - Address(unique[first].func)
  <2>1. /\ TentAddress(e.func) - TentAddress(unique[first].func) <= MaxDelta
        /\ x.delta = d % DeltaSpan
        /\ x.index \in 1 .. MaxIndex + 1
        /\ IF x.index <= Len(common) THEN common[x.index] = e.encoding /\ FdeOf(e) = 0
           ELSE own.encoding = e.encoding /\ own.fde = FdeOf(e)
    BY <1>6 DEF CompressedRight
  <2>2. d % DeltaSpan = d
    <3> DEFINE g == Gaps[Len(program.atoms)]
               b == unique[first].func
               f == e.func
    <3>1. /\ b \in DOMAIN program.atoms /\ f \in DOMAIN program.atoms
          /\ (first < i => b < f) /\ (first = i => b = f)
      BY <1>1, <1>2, <1>3 DEF TableMaking
    <3> HIDE DEF b, f
    <3>2. /\ g \in Nat /\ TentAddress(b) \in Nat /\ TentAddress(f) \in Nat
          /\ Address(b) \in Nat /\ Address(f) \in Nat /\ Code(b).size \in Nat
          /\ (b < f => /\ Address(b) + Code(b).size <= Address(f)
                       /\ Address(f) - Address(b) <= (TentAddress(f) - TentAddress(b)) + g)
      BY <1>1, <3>1, AddressesAscend, UnwoundAtoms DEF TableMaking, UnwoundRecords
    <3>3. g < DeltaSpan - MaxDelta /\ DeltaSpan \in Nat /\ MaxDelta \in Nat
      BY UnwindAssumption DEF TableFinished, LayoutSettles
    <3>4. TentAddress(f) - TentAddress(b) <= MaxDelta
      BY <2>1 DEF b, f
    <3> HIDE DEF g
    <3>5. d = Address(f) - Address(b)
      BY DEF b, f
    <3>6. d \in Nat /\ d < DeltaSpan
      <4>1. CASE b < f
        BY <3>2, <3>3, <3>4, <3>5, <4>1
      <4>2. CASE b = f
        BY <3>2, <3>3, <3>5, <4>2
      <4>3. QED
        BY <1>3, <3>1, <4>1, <4>2
    <3> HIDE DEF d
    <3>7. DeltaSpan > 0
      BY <3>3, <3>6
    <3>8. QED
      BY <3>3, <3>6, <3>7
  <2>3. firstLevel[p].addr + x.delta = Start(i)
    <3>1. Start(i) \in Nat /\ Start(first) \in Nat
      BY <1>1, <1>2, <1>3, StartsAscend
    <3>2. d = Start(i) - Start(first)
      BY DEF Start
    <3> HIDE DEF d, x
    <3>3. QED
      BY <1>2, <2>1, <2>2, <3>1, <3>2
  <2>4. ~ (page.kind = "regular")
    BY <1>6
  <2>5. CASE x.index <= Len(common)
    <3>1. EntryOf(p, k) = [addr |-> firstLevel[p].addr + x.delta, encoding |-> common[x.index],
                           fde |-> 0]
      BY <1>6, <2>4, <2>5 DEF EntryOf
    <3>2. QED
      BY <1>3, <2>1, <2>3, <2>5, <3>1
  <2>6. CASE ~ (x.index <= Len(common))
    <3>1. EntryOf(p, k) = [addr |-> firstLevel[p].addr + x.delta, encoding |-> own.encoding,
                           fde |-> own.fde]
      BY <1>6, <2>4, <2>6 DEF EntryOf
    <3>2. QED
      BY <1>3, <2>1, <2>3, <2>6, <3>1
  <2>7. QED
    BY <2>5, <2>6
<1>7. QED
  BY <1>4, <1>5, <1>6

\* What is found for an address is the entry that covers its function.
LEMMA EntryFound ==
    ASSUME TableFinished, NEW a \in DOMAIN program.atoms, Listed(a),
           NEW m \in 1 .. Len(unique), Covers(unique, m, a), NEW p, InPage(p, m),
           NEW addr \in Address(a) .. (Address(a) + Code(a).size - 1)
    PROVE  /\ LookUp(addr).addr = Start(m)
           /\ LookUp(addr).encoding = unique[m].encoding
           /\ LookUp(addr).fde = FdeOf(unique[m])
<1> DEFINE page == pageList[p]
           k == m - page.from
           count == page.to - page.from
           at == {h \in DOMAIN page.entries : EntryOf(p, h).addr <= addr}
<1>1. p \in DOMAIN pageList /\ page.from < m /\ m <= page.to /\ m \in Nat
  BY DEF InPage, TableFinished, TableMaking
<1>2. page.from \in Nat /\ page.to \in Nat /\ PageRight(page)
  BY <1>1, IndexTells DEF TableFinished, PagesMade
<1>3. k \in 1 .. count /\ page.from + k = m
  BY <1>1, <1>2
<1>4. DOMAIN page.entries = 1 .. count
  BY <1>2 DEF PageRight
<1>5. \A i \in 1 .. Len(unique) : Start(i) <= addr <=> i <= m
  BY StartsAround DEF TableFinished
<1>6. \A h \in 1 .. count : EntryOf(p, h).addr <= addr <=> h <= k
  <2> SUFFICES ASSUME NEW h \in 1 .. count  PROVE EntryOf(p, h).addr <= addr <=> h <= k
    OBVIOUS
  <2>1. page.from + h \in 1 .. Len(unique) /\ EntryOf(p, h).addr = Start(page.from + h)
    BY <1>1, EntryReads
  <2>2. EntryOf(p, h).addr <= addr <=> page.from + h <= m
    BY <1>5, <2>1
  <2> HIDE DEF page
  <2>3. QED
    BY <1>1, <1>2, <2>2
<1>7. k \in at /\ \A h \in at : h <= k /\ h \in Int /\ k \in Int
  BY <1>3, <1>4, <1>6
<1>8. LookUp(addr) = EntryOf(p, CHOOSE h \in at : \A j \in at : j <= h)
  BY PageFound DEF LookUp
<1> HIDE DEF at, k
<1>9. (CHOOSE h \in at : \A j \in at : j <= h) = k
  <2>1. \A h \in at : (\A j \in at : j <= h) => h = k
    BY <1>7
  <2>2. QED
    BY <1>7, <2>1
<1>10. LookUp(addr) = EntryOf(p, k)
  BY <1>8, <1>9
<1>11. QED
  BY <1>1, <1>3, <1>10, EntryReads

\* The functions that have an LSDA, in the order of their entries
LEMMA LsdasAre ==
    ASSUME TableMaking
    PROVE  /\ LsdaIndex \in Seq({unique[j].func : j \in 1 .. Len(unique)})
           /\ \A k \in 1 .. Len(LsdaIndex) :
                 \E j \in 1 .. Len(unique) : unique[j].lsda /\ LsdaIndex[k] = unique[j].func
           /\ \A i \in 1 .. Len(unique) : unique[i].lsda =>
                 /\ LsdasBefore(i) + 1 \in 1 .. Len(LsdaIndex)
                 /\ LsdaIndex[LsdasBefore(i) + 1] = unique[i].func
<1> DEFINE N == Len(unique)
           S == {j \in DOMAIN unique : unique[j].lsda}
           with == Ascending(S)
           K == Cardinality(S)
           funcs == {unique[j].func : j \in 1 .. N}
<1>1. N \in Nat /\ DOMAIN unique = 1 .. N
  BY DEF TableMaking
<1>2. S \in SUBSET (1 .. N) /\ \A j \in 1 .. N : j \in S <=> unique[j].lsda
  BY <1>1
<1> HIDE DEF S
<1>3. S \in SUBSET Int /\ IsFiniteSet(S)
  BY <1>1, <1>2, PartOfInterval
<1>4. /\ with \in [1 .. K -> S] /\ K \in Nat
      /\ \A i \in S : /\ Cardinality({j \in S : j < i}) + 1 \in 1 .. K
                      /\ with[Cardinality({j \in S : j < i}) + 1] = i
  BY <1>3, AscendingIs
<1> HIDE DEF with, K
<1>5. LsdaIndex = [k \in 1 .. K |-> unique[with[k]].func]
  BY <1>4 DEF LsdaIndex, S, with
<1>6. \A k \in 1 .. K : with[k] \in 1 .. N /\ unique[with[k]].lsda
  BY <1>2, <1>4
<1> HIDE DEF N
<1>7. LsdaIndex \in Seq(funcs) /\ Len(LsdaIndex) = K
  <2>1. \A k \in 1 .. K : unique[with[k]].func \in funcs
    BY <1>6
  <2> HIDE DEF funcs
  <2>2. QED
    BY <1>4, <1>5, <2>1
<1>8. ASSUME NEW i \in 1 .. N, unique[i].lsda
      PROVE  LsdasBefore(i) + 1 \in 1 .. K /\ LsdaIndex[LsdasBefore(i) + 1] = unique[i].func
  <2>1. i \in S
    BY <1>2, <1>8
  <2>2. {j \in 1 .. (i - 1) : unique[j].lsda} = {j \in S : j < i}
    <3>1. \A j \in 1 .. N : j < i <=> j \in 1 .. (i - 1)
      BY <1>1
    <3>2. \A j \in 1 .. (i - 1) : j \in 1 .. N
      BY <1>1
    <3>3. QED
      BY <1>2, <3>1, <3>2
  <2>3. LsdasBefore(i) = Cardinality({j \in S : j < i})
    BY <2>2 DEF LsdasBefore
  <2>4. QED
    BY <1>4, <1>5, <2>1, <2>3
<1>9. QED
  BY <1>5, <1>6, <1>7, <1>8 DEF N

\* The LSDAs before an entry are also before a later one.
LEMMA LsdasGrow ==
    ASSUME TableMaking, NEW i \in 1 .. Len(unique), NEW j \in 1 .. Len(unique), i <= j
    PROVE  /\ LsdasBefore(i) \in Nat /\ LsdasBefore(j) \in Nat
           /\ LsdasBefore(i) <= LsdasBefore(j)
           /\ unique[i].lsda /\ i < j => LsdasBefore(i) + 1 <= LsdasBefore(j)
<1> DEFINE Low(h) == {x \in 1 .. (h - 1) : unique[x].lsda}
<1>1. i \in Nat /\ j \in Nat /\ Low(i) \in SUBSET (1 .. i - 1) /\ Low(j) \in SUBSET (1 .. j - 1)
      /\ i - 1 \in Nat /\ j - 1 \in Nat
  BY DEF TableMaking
<1>2. Low(i) \in SUBSET Low(j)
  <2>1. \A x \in 1 .. (i - 1) : x \in 1 .. (j - 1)
    BY <1>1
  <2>2. QED
    BY <2>1
<1>3. unique[i].lsda /\ i < j => Low(i) \cup {i} \in SUBSET Low(j)
  <2>1. i < j => i \in 1 .. (j - 1)
    BY <1>1
  <2>2. QED
    BY <1>2, <2>1
<1>4. i \notin Low(i)
  BY <1>1
<1>5. LsdasBefore(i) = Cardinality(Low(i)) /\ LsdasBefore(j) = Cardinality(Low(j))
  BY DEF LsdasBefore
<1> HIDE DEF Low
<1>6. IsFiniteSet(Low(i)) /\ IsFiniteSet(Low(j))
  BY <1>1, PartOfInterval
<1>7. Cardinality(Low(i)) \in Nat /\ Cardinality(Low(j)) \in Nat
  BY <1>6, FS_CardinalityType
<1>8. Cardinality(Low(i)) <= Cardinality(Low(j))
  BY <1>2, <1>6, FS_Subset
<1>9. unique[i].lsda /\ i < j => Cardinality(Low(i)) + 1 <= Cardinality(Low(j))
  <2>1. Cardinality(Low(i) \cup {i}) = Cardinality(Low(i)) + 1
    BY <1>4, <1>6, FS_AddElement
  <2>2. unique[i].lsda /\ i < j => Cardinality(Low(i) \cup {i}) <= Cardinality(Low(j))
    BY <1>3, <1>6, FS_Subset
  <2>3. QED
    BY <2>1, <2>2
<1>10. QED
  BY <1>5, <1>7, <1>8, <1>9

\* The index gives the LSDA of a function, and none for one without.
LEMMA LsdaFound ==
    ASSUME TableFinished, NEW a \in DOMAIN program.atoms, Listed(a),
           NEW m \in 1 .. Len(unique), Covers(unique, m, a), NEW p, InPage(p, m),
           NEW addr \in Address(a) .. (Address(a) + Code(a).size - 1)
    PROVE  LsdasAt(addr, Start(m)) = IF EntryFor(a).lsda THEN {a} ELSE {}
<1> DEFINE said == EntryFor(a).lsda
           range == (firstLevel[p].lsda + 1) .. firstLevel[p + 1].lsda
           found == {f \in {LsdaIndex[k] : k \in range} : Address(f) = Start(m)}
           first == pageList[p].from + 1
           L == Len(pageList)
<1>1. TableMaking
  BY DEF TableFinished
<1>2. LsdasAt(addr, Start(m)) = found
  BY PageFound DEF LsdasAt
<1>3. /\ p \in DOMAIN pageList /\ p \in Nat /\ L \in Nat /\ p <= L
      /\ first \in 1 .. Len(unique) /\ first <= m /\ m \in Nat /\ m <= pageList[p].to
      /\ pageList[p].to \in Nat
      /\ firstLevel[p].lsda = LsdasBefore(first)
  <2>1. p \in DOMAIN pageList /\ pageList[p].from < m /\ m <= pageList[p].to /\ m \in Nat
    BY <1>1 DEF InPage, TableMaking
  <2>2. QED
    BY <2>1, IndexTells
<1>4. \A k \in 1 .. Len(LsdaIndex) :
         \E j \in 1 .. Len(unique) : unique[j].lsda /\ LsdaIndex[k] = unique[j].func
  BY <1>1, LsdasAre
<1>5. LsdasBefore(first) \in Nat /\ LsdasBefore(m) \in Nat /\ LsdasBefore(first) <= LsdasBefore(m)
  BY <1>1, <1>3, LsdasGrow
<1>6. unique[m].lsda => /\ LsdasBefore(m) + 1 \in 1 .. Len(LsdaIndex)
                        /\ LsdaIndex[LsdasBefore(m) + 1] = unique[m].func
  BY <1>1, LsdasAre
<1>7. Len(LsdaIndex) \in Nat
  BY <1>1, LsdasAre
<1> HIDE DEF first, L
<1>8. /\ firstLevel[p + 1].lsda \in Nat /\ firstLevel[p + 1].lsda <= Len(LsdaIndex)
      /\ unique[m].lsda => LsdasBefore(m) + 1 <= firstLevel[p + 1].lsda
  <2>1. CASE p = L
    <3>1. firstLevel[p + 1].lsda = Len(LsdaIndex)
      BY <1>3, <2>1, IndexTells DEF L
    <3>2. QED
      BY <1>5, <1>6, <1>7, <3>1
  <2>2. CASE p < L
    <3> DEFINE next == pageList[p + 1].from + 1
    <3>1. /\ p + 1 \in DOMAIN pageList /\ firstLevel[p + 1].lsda = LsdasBefore(next)
          /\ pageList[p].to <= pageList[p + 1].from
      BY <1>3, <2>2, IndexTells DEF L
    <3>2. next \in 1 .. Len(unique) /\ pageList[p + 1].from \in Nat
      BY <3>1, IndexTells
    <3>3. m < next /\ m <= next
      BY <1>3, <3>1, <3>2
    <3> HIDE DEF next
    <3>4. LsdasBefore(next) \in Nat /\ (unique[m].lsda => LsdasBefore(m) + 1 <= LsdasBefore(next))
      BY <1>1, <3>2, <3>3, LsdasGrow
    <3>5. LsdasBefore(next) <= Len(LsdaIndex)
      <4> DEFINE Low == {x \in 1 .. (next - 1) : unique[x].lsda}
                 S == {x \in DOMAIN unique : unique[x].lsda}
      <4>1. /\ Len(unique) \in Nat /\ DOMAIN unique = 1 .. Len(unique)
            /\ next \in Nat /\ next <= Len(unique)
        BY <1>1, <3>2 DEF TableMaking
      <4>2. S \in SUBSET (1 .. Len(unique))
        BY <4>1
      <4>3. Low \in SUBSET S
        <5>1. \A x \in 1 .. (next - 1) : x \in 1 .. Len(unique)
          BY <4>1
        <5>2. QED
          BY <4>1, <5>1
      <4>4. LsdasBefore(next) = Cardinality(Low)
        BY DEF LsdasBefore
      <4> HIDE DEF Low
      <4>5. S \in SUBSET Int /\ IsFiniteSet(S)
        BY <4>1, <4>2, PartOfInterval
      <4>6. LsdaIndex = [k \in DOMAIN Ascending(S) |-> unique[Ascending(S)[k]].func]
        BY DEF LsdaIndex
      <4> HIDE DEF S
      <4>7. DOMAIN Ascending(S) = 1 .. Cardinality(S) /\ Cardinality(S) \in Nat
        BY <4>5, AscendingIs
      <4>8. Len(LsdaIndex) = Cardinality(S)
        BY <4>6, <4>7
      <4>9. Cardinality(Low) <= Cardinality(S)
        BY <4>3, <4>5, FS_Subset
      <4>10. QED
        BY <4>4, <4>8, <4>9
    <3>6. QED
      BY <3>1, <3>4, <3>5
  <2>3. QED
    BY <1>3, <2>1, <2>2
<1>9. ASSUME NEW f \in found
      PROVE  f = unique[m].func /\ unique[m].lsda
  <2>1. PICK k \in range : f = LsdaIndex[k] /\ Address(f) = Start(m)
    BY <1>9
  <2>2. k \in 1 .. Len(LsdaIndex)
    BY <1>3, <1>5, <1>7, <1>8
  <2>3. PICK j \in 1 .. Len(unique) : unique[j].lsda /\ f = unique[j].func
    BY <1>4, <2>1, <2>2
  <2>4. Start(j) = Start(m)
    BY <2>1, <2>3 DEF Start
  <2>5. j = m
    <3>1. j < m => Start(j) < Start(m)
      BY <1>1, StartsAscend
    <3>2. m < j => Start(m) < Start(j)
      BY <1>1, StartsAscend
    <3>3. Start(j) \in Nat /\ j \in Nat /\ m \in Nat
      BY <1>1, <1>3, StartsAscend
    <3>4. QED
      BY <2>4, <3>1, <3>2, <3>3
  <2>6. QED
    BY <2>3, <2>5
<1>10. \/ unique[m].func = a /\ unique[m].lsda = said
       \/ unique[m].func # a /\ ~ unique[m].lsda /\ ~ said
  BY DEF Covers
<1>11. said \in BOOLEAN /\ unique[m].lsda \in BOOLEAN
  <2>1. unique[m] \in UnwindEntries
    BY <1>1 DEF TableMaking
  <2>2. EntryFor(a) \in UnwindEntries
    BY <1>1, EntryTyped DEF TableMaking
  <2>3. QED
    BY <2>1, <2>2 DEF UnwindEntries
<1> HIDE DEF said
<1>12. CASE said
  <2>1. unique[m].func = a /\ unique[m].lsda
    BY <1>10, <1>12
  <2>2. LsdasBefore(m) + 1 \in range
    BY <1>3, <1>5, <1>8, <2>1
  <2>3. a \in found
    <3>1. Address(a) = Start(m)
      BY <2>1 DEF Start
    <3>2. LsdaIndex[LsdasBefore(m) + 1] = a
      BY <1>6, <2>1
    <3> HIDE DEF range
    <3>3. QED
      BY <2>2, <3>1, <3>2
  <2> HIDE DEF found
  <2>4. found = {a}
    BY <1>9, <2>1, <2>3
  <2>5. QED
    BY <1>2, <1>12, <2>4 DEF said
<1>13. CASE ~ said
  <2>1. ~ unique[m].lsda
    BY <1>10, <1>13
  <2> HIDE DEF found
  <2>2. found = {}
    BY <1>9, <2>1
  <2>3. QED
    BY <1>2, <1>13, <2>2 DEF said
<1>14. QED
  BY <1>11, <1>12, <1>13

\* The finished table says of each function what is known of it.
LEMMA FinishedTableTells ==
    ASSUME TableFinished, NEW a \in DOMAIN program.atoms, Listed(a),
           NEW addr \in Address(a) .. (Address(a) + Code(a).size - 1)
    PROVE  SaysOf(LookUp(addr), addr, a)
<1>1. TableMaking /\ program \in UnwindInputs
  BY DEF TableFinished, TableMaking
<1>2. PICK m \in 1 .. Len(unique) : Covers(unique, m, a)
  BY <1>1, UniqueCovers DEF TableFinished, TableMade
<1>3. PICK p : InPage(p, m)
  <2>1. m \in (endIndex + 1) .. Len(unique)
    BY <1>1 DEF TableFinished, TableMaking
  <2>2. \E n \in DOMAIN pageList : pageList[n].from < m /\ m <= pageList[n].to
    BY <2>1 DEF TableFinished, PagesMade
  <2>3. QED
    BY <2>2 DEF InPage
<1> DEFINE entry == LookUp(addr)
           e == unique[m]
           said == EntryFor(a)
<1>4. entry.addr = Start(m) /\ entry.encoding = e.encoding /\ entry.fde = FdeOf(e)
  BY <1>2, <1>3, EntryFound
<1>5. LsdasAt(addr, entry.addr) = IF said.lsda THEN {a} ELSE {}
  BY <1>2, <1>3, <1>4, LsdaFound
<1>6. /\ e.encoding.mode = said.encoding.mode /\ e.encoding.saved = said.encoding.saved
      /\ IF said.personality = Nothing THEN e.encoding.personality = 0
         ELSE /\ e.encoding.personality > 0
              /\ PersonalitiesOf(unique)[e.encoding.personality] = said.personality
      /\ e.func = a \/ ~ UsesDwarf(e.encoding)
  BY <1>2 DEF Covers
<1>7. /\ said.encoding.mode = IF Code(a).unwind THEN Code(a).mode ELSE "none"
      /\ said.encoding.saved = IF Code(a).unwind THEN Code(a).saved ELSE 0
      /\ said.lsda = (Code(a).unwind /\ Code(a).lsda)
      /\ said.personality = IF Code(a).unwind THEN Code(a).personality ELSE Nothing
  BY DEF EntryFor, NoEncoding
<1> HIDE DEF entry, e, said
<1>8. entry.fde = IF Code(a).unwind /\ Code(a).mode = "dwarf" THEN a ELSE 0
  <2>1. UsesDwarf(e.encoding) <=> Code(a).unwind /\ Code(a).mode = "dwarf"
    BY <1>6, <1>7 DEF UsesDwarf
  <2>2. QED
    BY <1>4, <1>6, <2>1 DEF FdeOf
<1>9. LsdasAt(addr, entry.addr) = IF Code(a).unwind /\ Code(a).lsda THEN {a} ELSE {}
  BY <1>5, <1>7
<1>10. LET q == entry.encoding.personality
       IN  IF Code(a).unwind /\ Code(a).personality # Nothing
           THEN q > 0 /\ PersonalitiesOf(unique)[q] = Code(a).personality
           ELSE q = 0
  BY <1>4, <1>6, <1>7
<1>11. SaysOf(entry, addr, a)
  BY <1>4, <1>6, <1>7, <1>8, <1>9, <1>10 DEF SaysOf
<1>12. QED
  BY <1>11 DEF entry

\* The invariant makes the finished table right.
LEMMA UnwoundAtTheEnd == UnwindInv => UnwoundRight
<1> SUFFICES ASSUME UnwindInv, making = "made", ~ tooMany, LayoutSettles
             PROVE  /\ \A a \in DOMAIN program.atoms : Listed(a) =>
                          \A addr \in Address(a) .. (Address(a) + Code(a).size - 1) :
                             SaysOf(LookUp(addr), addr, a)
                    /\ \A n \in DOMAIN pageList : pageList[n].kind = "compressed" =>
                          \A k \in DOMAIN pageList[n].entries :
                             pageList[n].entries[k].index <= MaxIndex + 1
  BY DEF UnwoundRight
<1>1. program \in UnwindInputs
  BY DEF UnwindInv
<1>2. CASE AllEntries = <<>> /\ pageList = <<>>
  BY <1>1, <1>2, NothingListed
<1>3. CASE TableMade /\ PagesMade /\ endIndex = 0 /\ firstLevel = IndexOfPages
  <2>1. TableFinished
    BY <1>1, <1>3, TableIsMaking DEF TableFinished
  <2>2. \A a \in DOMAIN program.atoms : Listed(a) =>
           \A addr \in Address(a) .. (Address(a) + Code(a).size - 1) :
              SaysOf(LookUp(addr), addr, a)
    BY <2>1, FinishedTableTells
  <2>3. ASSUME NEW n \in DOMAIN pageList, pageList[n].kind = "compressed",
               NEW k \in DOMAIN pageList[n].entries
        PROVE  pageList[n].entries[k].index <= MaxIndex + 1
    <3>1. PageRight(pageList[n])
      BY <1>3 DEF PagesMade
    <3>2. CompressedRight(pageList[n], k)
      BY <2>3, <3>1 DEF PageRight
    <3>3. pageList[n].entries[k].index \in 1 .. MaxIndex + 1 /\ MaxIndex \in Nat
      BY <3>2, UnwindAssumption DEF CompressedRight
    <3>4. QED
      BY <3>3
  <2>4. QED
    BY <2>2, <2>3
<1>4. QED
  BY <1>2, <1>3 DEF UnwindInv

\* Whatever the functions, their encodings and the sizes of pages, a look up
\* of any address of a function in the finished table gives what is known of
\* it, provided layout moves functions apart by no more than there is room for.
THEOREM UnwoundFound == UnwindSpec => []UnwoundRight
BY UnwindAlways, UnwoundAtTheEnd, PTL
=============================================================================
