--------------------------- MODULE Resolver_proofs ---------------------------
(***************************************************************************)
(* Proofs about Resolver, for every command line, every set of files,      *)
(* archives and dylibs that is well formed, and every -commons mode.       *)
(***************************************************************************)
EXTENDS Resolver, SymbolTable_proofs, FiniteSetTheorems

------------------------------------------------------------------------------
(***************************************************************************)
(* Facts about the input.                                                  *)
(***************************************************************************)
\* The fields of the input, whose functions are partial for libraries.
LEMMA LinkFields ==
    ASSUME link \in Links
    PROVE  /\ link.attributes \in Attributes
           /\ link.attributes \in [Atoms -> AtomRecords]
           /\ link.references \in [Atoms -> SUBSET Names]
           /\ link.literals \in [Atoms -> Atoms \cup {NoAtom}]
           /\ link.atoms \in [Files -> Seq(Atoms)]
           /\ link.autolinks \in [Files -> SUBSET Libraries]
           /\ link.objects \in Seq(Files) /\ link.libraries \in Seq(Libraries)
           /\ link.undefines \in SUBSET Names
           /\ \A lib \in Libraries :
                 /\ DOMAIN link.members[lib] \in SUBSET Names
                 /\ \A n \in DOMAIN link.members[lib] : link.members[lib][n] \in Files
                 /\ DOMAIN link.exports[lib] \in SUBSET Names
                 /\ \A n \in DOMAIN link.exports[lib] : link.exports[lib][n] \in Atoms
<1>1. link \in LinkRecords /\ link.attributes \in Attributes
  BY ResolverAssumption DEF LinkRecords
<1>2. /\ link.attributes \in [Atoms -> AtomRecords]
      /\ link.references \in [Atoms -> SUBSET Names]
      /\ link.literals \in [Atoms -> Atoms \cup {NoAtom}]
      /\ link.atoms \in [Files -> Seq(Atoms)]
      /\ link.autolinks \in [Files -> SUBSET Libraries]
      /\ link.objects \in Seq(Files) /\ link.libraries \in Seq(Libraries)
      /\ link.undefines \in SUBSET Names
      /\ link.members \in [Libraries -> PartialFunctions(Names, Files)]
      /\ link.exports \in [Libraries -> PartialFunctions(Names, Atoms)]
  BY <1>1, TableAssumption DEF LinkRecords
<1>3. \A S, T : \A f \in PartialFunctions(S, T) :
          DOMAIN f \in SUBSET S /\ \A x \in DOMAIN f : f[x] \in T
  BY DEF PartialFunctions
<1>4. ASSUME NEW lib \in Libraries
      PROVE  /\ DOMAIN link.members[lib] \in SUBSET Names
             /\ \A n \in DOMAIN link.members[lib] : link.members[lib][n] \in Files
             /\ DOMAIN link.exports[lib] \in SUBSET Names
             /\ \A n \in DOMAIN link.exports[lib] : link.exports[lib][n] \in Atoms
  <2>1. /\ link.members[lib] \in PartialFunctions(Names, Files)
        /\ link.exports[lib] \in PartialFunctions(Names, Atoms)
    BY <1>2
  <2>2. QED
    BY <2>1, <1>3
<1>5. QED
  BY <1>1, <1>2, <1>4

\* What is assumed of an input, one file, one atom of a file, one name of a dylib
\* at a time.
LEMMA LinkWellFormed ==
    ASSUME link \in Links
    PROVE  FilesWellFormed(link) /\ LibrariesWellFormed(link)
<1>1. WellFormed(link)
  BY ResolverAssumption
<1>2. QED
  BY <1>1 DEF WellFormed

LEMMA FilesApart ==
    ASSUME link \in Links, NEW f \in Files
    PROVE  /\ IsInjective(link.atoms[f])
           /\ \A g \in Files : f # g => Range(link.atoms[f]) \cap Range(link.atoms[g]) = {}
BY Zenon, LinkWellFormed DEF FilesWellFormed

LEMMA OfFile ==
    ASSUME link \in Links, NEW f \in Files, NEW i \in DOMAIN link.atoms[f]
    PROVE  FileAtomOK(link, f, i)
BY Zenon, LinkWellFormed DEF FilesWellFormed

LEMMA OfArchive ==
    ASSUME link \in Links, NEW lib \in Libraries, NEW n \in DOMAIN link.members[lib]
    PROVE  MemberOK(link, lib, n)
BY Zenon, LinkWellFormed DEF LibrariesWellFormed

LEMMA OfDylib ==
    ASSUME link \in Links, NEW lib \in Libraries, NEW n \in DOMAIN link.exports[lib]
    PROVE  ExportOK(link, lib, n)
BY Zenon, LinkWellFormed DEF LibrariesWellFormed

\* What an atom of a file or a dylib is bound to by content can be bound so.
LEMMA LiteralsOfInput ==
    ASSUME link \in Links, atom = link.attributes
    PROVE  /\ \A f \in Files : \A i \in DOMAIN link.atoms[f] :
                 link.literals[link.atoms[f][i]] \in Literals
           /\ \A lib \in Libraries : \A n \in DOMAIN link.exports[lib] :
                 link.literals[link.exports[lib][n]] \in Literals
<1>2. ASSUME NEW f \in Files, NEW i \in DOMAIN link.atoms[f]
      PROVE  link.literals[link.atoms[f][i]] \in Literals
  <2>1. link.atoms[f][i] \in Atoms
    BY LinkFields
  <2>2. link.literals[link.atoms[f][i]] \in Atoms \cup {NoAtom}
    BY <2>1, LinkFields
  <2>3. QED
    BY <2>2, OfFile DEF FileAtomOK, Literals, Named
<1>3. ASSUME NEW lib \in Libraries, NEW n \in DOMAIN link.exports[lib]
      PROVE  link.literals[link.exports[lib][n]] \in Literals
  BY OfDylib DEF ExportOK, Literals
<1>4. QED
  BY <1>2, <1>3, SMTT(40)

\* Adding libraries to those that are searched adds them once, at the end.
LEMMA LibrariesAdded ==
    ASSUME searchable \in Seq(Libraries), autolinked \in SUBSET Libraries,
           NEW libs \in SUBSET Libraries, AddLinkerOptionLibraries(libs)
    PROVE  /\ searchable' \in Seq(Libraries)
           /\ autolinked' = autolinked \cup libs
           /\ IsInjective(searchable) => IsInjective(searchable')
           /\ Range(searchable) \subseteq Range(searchable')
           /\ libs \subseteq Range(searchable) => searchable' = searchable
<1> DEFINE missing == libs \ (autolinked \cup Range(searchable))
           k == Cardinality(missing)
<1>1. IsFiniteSet(missing)
  BY FS_Subset, ResolverAssumption
<1>2. k \in Nat
  BY <1>1, FS_CardinalityType
<1>3. PICK new \in Injection(1 .. k, missing) : searchable' = searchable \o new
  BY DEF AddLinkerOptionLibraries
<1>4. autolinked' = autolinked \cup libs
  BY DEF AddLinkerOptionLibraries
<1>5. new \in [1 .. k -> missing] /\ IsInjective(new)
  BY <1>3 DEF Injection
<1>6. libs \subseteq Range(searchable) => k = 0
  BY FS_EmptySet
<1> HIDE DEF k
<1>7. new \in Seq(Libraries) /\ Len(new) = k
  BY <1>2, <1>5
<1>8. /\ searchable' \in Seq(Libraries)
      /\ Len(searchable') = Len(searchable) + k
      /\ \A i \in 1 .. Len(searchable) : searchable'[i] = searchable[i]
      /\ \A i \in 1 .. Len(searchable') :
            i > Len(searchable) =>
               i - Len(searchable) \in 1 .. k /\ searchable'[i] = new[i - Len(searchable)]
  <2>1. searchable' \in Seq(Libraries) /\ Len(searchable') = Len(searchable) + k
    BY <1>2, <1>3, <1>7, SMTT(40)
  <2>2. \A i \in 1 .. Len(searchable) + k :
            (searchable \o new)[i] = IF i <= Len(searchable) THEN searchable[i]
                                     ELSE new[i - Len(searchable)]
    BY <1>7
  <2>3. QED
    BY <1>2, <1>3, <2>1, <2>2
<1>9. Range(searchable) \subseteq Range(searchable')
  BY <1>2, <1>8 DEF Range
<1>10. libs \subseteq Range(searchable) => searchable' = searchable
  BY <1>3, <1>6, <1>7, <1>8
<1>11. ASSUME IsInjective(searchable)  PROVE IsInjective(searchable')
  <2> SUFFICES ASSUME NEW i \in 1 .. Len(searchable'), NEW j \in 1 .. Len(searchable'),
                      searchable'[i] = searchable'[j]
               PROVE  i = j
    BY <1>8 DEF IsInjective
  <2>1. \A m \in 1 .. k : new[m] \notin Range(searchable)
    BY <1>5
  <2>2. \A m \in 1 .. Len(searchable) : searchable[m] \in Range(searchable)
    BY DEF Range
  <2>3. CASE i <= Len(searchable) /\ j <= Len(searchable)
    BY <2>3, <1>8, <1>11 DEF IsInjective
  <2>4. CASE i > Len(searchable) /\ j > Len(searchable)
    <3>1. /\ i - Len(searchable) \in 1 .. k /\ j - Len(searchable) \in 1 .. k
          /\ searchable'[i] = new[i - Len(searchable)]
          /\ searchable'[j] = new[j - Len(searchable)]
      BY <2>4, <1>8
    <3>2. i - Len(searchable) = j - Len(searchable)
      BY <3>1, <1>5, <1>11 DEF IsInjective
    <3>3. QED
      BY <3>2, <1>8
  <2>5. CASE i > Len(searchable) /\ j <= Len(searchable)
    <3>1. /\ i - Len(searchable) \in 1 .. k /\ searchable'[i] = new[i - Len(searchable)]
          /\ j \in 1 .. Len(searchable) /\ searchable'[j] = searchable[j]
      BY <2>5, <1>8
    <3>2. QED
      BY <3>1, <2>1, <2>2
  <2>6. CASE i <= Len(searchable) /\ j > Len(searchable)
    <3>1. /\ j - Len(searchable) \in 1 .. k /\ searchable'[j] = new[j - Len(searchable)]
          /\ i \in 1 .. Len(searchable) /\ searchable'[i] = searchable[i]
      BY <2>6, <1>8
    <3>2. QED
      BY <3>1, <2>1, <2>2
  <2>7. QED
    BY <2>3, <2>4, <2>5, <2>6
<1>12. QED
  BY <1>4, <1>8, <1>9, <1>10, <1>11

------------------------------------------------------------------------------
(***************************************************************************)
(* What an atom does to the table, seen from here.                         *)
(***************************************************************************)
\* u has the slots t has, and no slot of it is empty that is filled in t.
Grows(t, u) == t.slots \subseteq u.slots /\ KeepsNames(t, u) /\ Raises(t, u)

LEMMA AddToGrows ==
    ASSUME AtomsOK, NEW t, Consistent(t), NEW a \in Atoms, NEW treatment,
           NEW u \in AddTo(t, a, treatment)
    PROVE  /\ Consistent(u) /\ Grows(t, u)
           /\ ByName(a) => HasName(u, atom[a].name)
<1>1. Consistent(u) /\ KeepsNames(t, u)
  BY AddToConsistent
<1>2. \A b \in Atoms : atom[b].alignment \in Nat
  BY DEF AtomsOK, AtomRecords
<1>3. CASE ~ ByName(a)
  <2>1. u = AddByContent(t, a)
    BY <1>3 DEF AddTo, ByName
  <2>2. Raises(t, u)
    BY <2>1, AddByContentRaises
  <2>3. FindSlotForContent(t, a) \in Tables /\ FindSlotForContent(t, a).slots = t.slots
    BY FindSlotForContentConsistent DEF FindSlotForContent, Consistent, Tables
  <2>4. u.slots = t.slots
    BY <2>1, <2>3
       DEF AddByContent, ContentLoser, MarkCoalescedAway, Tables
  <2>5. QED
    BY <1>1, <1>3, <2>2, <2>4 DEF Grows
<1>4. CASE ByName(a)
  <2>1. u \in AddByName(t, a, treatment)
    BY <1>4 DEF AddTo, ByName
  <2>2. u.byContent = t.byContent
    BY <2>1, AddByNameConsistent
  <2>3. Raises(t, u)
    BY <1>2, <2>2 DEF Raises, Consistent, Tables
  <2>4. HasName(u, atom[a].name)
    <3>1. t.byName[atom[a].name] \in Atoms \cup {NoAtom} /\ atom[a].name \in Names /\ a # NoAtom
      BY AtomFields DEF Consistent, Tables
    <3>2. CASE t.byName[atom[a].name] = NoAtom
      <4>1. u.byName = [t.byName EXCEPT ![atom[a].name] = a]
        BY <2>1, <3>2, AddByNameSlots
      <4>2. QED
        BY <3>1, <4>1 DEF HasName, Consistent, Tables
    <3>3. CASE t.byName[atom[a].name] # NoAtom
      BY <1>1, <3>1, <3>3 DEF HasName, KeepsNames
    <3>4. QED
      BY <3>2, <3>3
  <2>5. t.slots \subseteq u.slots
    <3> DEFINE old == t.byName[atom[a].name]
               found == FindSlotForName(t, atom[a].name)
               told == IF old = NoAtom THEN found ELSE Report(found, a, old, treatment)
    <3>1. old \in Atoms \cup {NoAtom} /\ atom[a].name \in Names
      BY AtomFields DEF Consistent, Tables
    <3>2. found \in Tables /\ t.slots \subseteq found.slots
      BY <3>1 DEF FindSlotForName, Consistent, Tables
    <3>3. told \in Tables /\ told.slots = found.slots
      <4>1. CASE old = NoAtom
        BY <3>2, <4>1
      <4>2. CASE old # NoAtom
        <5>1. Consistent(found)
          BY <3>1, FindSlotForNameConsistent
        <5>2. told = Report(found, a, old, treatment) /\ old \in Atoms
          BY <3>1, <4>2
        <5>3. told \in Tables
          BY <5>1, <5>2, ReportConsistent DEF Consistent
        <5>4. told.slots = found.slots
          BY <3>2, <5>2 DEF Report, Tables
        <5>5. QED
          BY <5>3, <5>4
      <4>3. QED
        BY <4>1, <4>2
    <3>4. PICK new \in UseNew(t, a, treatment) :
              u = IF new THEN Replace(told, a, old) ELSE MarkCoalescedAway(told, a)
      BY <2>1 DEF AddByName
    <3> HIDE DEF told, found
    <3>5. MarkCoalescedAway(told, a).slots = told.slots
      BY <3>3 DEF MarkCoalescedAway, Tables
    <3>6. Replace(told, a, old).slots = told.slots
      BY <3>3 DEF Replace, NoteTentative, MarkCoalescedAway, Tables
    <3>7. QED
      BY <3>2, <3>3, <3>4, <3>5, <3>6
  <2>6. QED
    BY <1>1, <2>3, <2>4, <2>5 DEF Grows
<1>5. QED
  BY <1>3, <1>4

LEMMA ReferringGrows ==
    ASSUME AtomsOK, NEW t, Consistent(t), NEW names \in SUBSET Names, NEW literal \in Literals
    PROVE  /\ Consistent(Referring(t, names, literal))
           /\ Grows(t, Referring(t, names, literal))
           /\ names \subseteq Referring(t, names, literal).slots
           /\ literal # NoAtom =>
                 Referring(t, names, literal).byContent[atom[literal].content] # NoAtom
<1> DEFINE u == Referring(t, names, literal)
<1>1. Consistent(u) /\ u.slots = t.slots \cup names /\ u.byName = t.byName
  BY ReferringConsistent
<1>2. Raises(t, u)
  BY ReferringRaises
<1>3. ASSUME literal # NoAtom  PROVE u.byContent[atom[literal].content] # NoAtom
  <2> DEFINE named == [t EXCEPT !.slots = @ \cup names]
  <2>1. literal \in Atoms /\ atom[literal].content \in Contents
    BY <1>3, AtomFields DEF Literals
  <2>2. u = FindSlotForContent(named, literal) /\ named \in Tables
    BY <1>3 DEF Referring, Consistent, Tables
  <2> HIDE DEF u, named
  <2>3. QED
    BY <1>3, <2>1, <2>2 DEF FindSlotForContent, Tables
<1>4. QED
  BY <1>1, <1>2, <1>3 DEF Grows, KeepsNames, HasName

LEMMA GrowsFurther ==
    ASSUME AtomsOK, NEW t, NEW u, NEW v, Consistent(t), Consistent(u), Consistent(v),
           Grows(t, u), Grows(u, v)
    PROVE  Grows(t, v)
<1>1. \A b \in Atoms : atom[b].alignment \in Nat
  BY DEF AtomsOK, AtomRecords
<1>2. \A c \in Contents : /\ t.byContent[c] \in Atoms \cup {NoAtom}
                          /\ u.byContent[c] \in Atoms \cup {NoAtom}
                          /\ v.byContent[c] \in Atoms \cup {NoAtom}
  BY DEF Consistent, Tables
<1>3. Raises(t, v)
  BY <1>1, <1>2 DEF Grows, Raises
<1>4. QED
  BY <1>3 DEF Grows, KeepsNames

------------------------------------------------------------------------------
(***************************************************************************)
(* Type correctness.                                                       *)
(***************************************************************************)
RTypeInv ==
    /\ link \in Links
    /\ ResolverTypeOK
    /\ TableTypeOK
    /\ \A i \in DOMAIN pending : link.literals[pending[i]] \in Literals

\* What doAtom() does: it throws, or the table grows by the atom and its references.
LEMMA DoAtomTable ==
    ASSUME RTypeInv, NEW a \in Atoms, DoAtom(a)
    PROVE  /\ Consistent(table') /\ Grows(table, table')
           /\ ~ thrown' => /\ link.references[a] \subseteq table'.slots
                           /\ link.literals[a] # NoAtom =>
                                 table'.byContent[atom[link.literals[a]].content] # NoAtom
                           /\ Named(a) /\ ByName(a) => HasName(table', atom[a].name)
<1>1. AtomsOK /\ Consistent(table)
  BY TypeSplit DEF RTypeInv
<1>2. link.references[a] \in SUBSET Names
  BY LinkFields DEF RTypeInv
<1>3. link.literals[a] \in Literals
  BY DEF DoAtom, RTypeInv, ResolverTypeOK
<1>4. \A t : Consistent(t) => Grows(t, t)
  BY <1>1 DEF Grows, KeepsNames, Raises, Consistent, Tables, AtomsOK, AtomRecords
<1>5. CASE Named(a) /\ AddThrows(table, a)
  BY <1>1, <1>4, <1>5 DEF DoAtom
<1>6. CASE ~ (Named(a) /\ AddThrows(table, a))
  <2>1. PICK t \in IF Named(a) THEN AddTo(table, a, Treatment) ELSE {table} :
            table' = Referring(t, link.references[a], link.literals[a])
    BY <1>6 DEF DoAtom
  <2>2. /\ Consistent(t) /\ Grows(table, t)
        /\ Named(a) /\ ByName(a) => HasName(t, atom[a].name)
    <3>1. CASE Named(a)
      BY <1>1, <2>1, <3>1, AddToGrows
    <3>2. CASE ~ Named(a)
      BY <1>1, <1>4, <2>1, <3>2
    <3>3. QED
      BY <3>1, <3>2
  <2>3. /\ Consistent(table') /\ Grows(t, table')
        /\ link.references[a] \subseteq table'.slots
        /\ link.literals[a] # NoAtom =>
              table'.byContent[atom[link.literals[a]].content] # NoAtom
    BY <1>1, <1>2, <1>3, <2>1, <2>2, ReferringGrows
  <2>4. Grows(table, table')
    BY <1>1, <2>2, <2>3, GrowsFurther
  <2>5. Named(a) /\ ByName(a) => HasName(table', atom[a].name)
    BY <1>1, <2>2, <2>3, AtomFields DEF Grows, KeepsNames
  <2>6. QED
    BY <2>3, <2>4, <2>5
<1>7. QED
  BY <1>5, <1>6

LEMMA InitRType == ResolverInit => RTypeInv
<1> SUFFICES ASSUME ResolverInit  PROVE RTypeInv
  OBVIOUS
<1>1. link \in Links /\ atom = link.attributes
  BY DEF ResolverInit
<1>2. TableTypeOK
  BY InitType DEF ResolverInit
<1>3. ResolverTypeOK
  BY <1>1, LinkFields DEF ResolverInit, ResolverTypeOK, TableInit
<1>4. QED
  BY <1>1, <1>2, <1>3 DEF RTypeInv, ResolverInit

\* The input never changes.
LEMMA InputStays ==
    ASSUME [ResolverNext]_resolverVars
    PROVE  link' = link /\ atom' = atom
<1>1. CASE ReadFile
  BY <1>1 DEF ReadFile, tableVars
<1>2. ASSUME NEW a \in Atoms, DoAtom(a)  PROVE link' = link /\ atom' = atom
  BY <1>2 DEF DoAtom, inputVars
<1>3. CASE EndInput
  BY <1>3 DEF EndInput, inputVars
<1>4. CASE ResolveUndefines
  BY <1>4 DEF ResolveUndefines, StartPass, EndUndefines, EndTentatives, EndPasses,
              EndLeftovers, OnlyLoops, SearchUndefined, SearchTentative, tableVars
<1>5. CASE SearchLibraries
  BY <1>5 DEF SearchLibraries, AskDylib, LoadMember, NotFound, tableVars
<1>6. CASE UNCHANGED resolverVars
  BY <1>6 DEF resolverVars, tableVars
<1>7. QED
  BY <1>1, <1>2, <1>3, <1>4, <1>5, <1>6 DEF ResolverNext

LEMMA NextRType ==
    ASSUME RTypeInv, [ResolverNext]_resolverVars
    PROVE  RTypeInv'
<1>0. /\ link \in Links /\ link' = link /\ atom' = atom /\ atom = link.attributes
      /\ AtomsOK /\ Consistent(table) /\ TableTypeOK
  BY InputStays, TypeSplit DEF RTypeInv, ResolverTypeOK
<1>1. Literals' = Literals
  BY <1>0 DEF Literals, Named
<1>2. UNCHANGED tableVars => TableTypeOK'
  BY NextType, <1>0
<1>3. ASSUME TableTypeOK', ResolverTypeOK',
             \/ \A i \in DOMAIN pending' : \E j \in DOMAIN pending : pending'[i] = pending[j]
             \/ \E f \in Files : pending' = link.atoms[f]
             \/ \E lib \in Libraries : \E n \in DOMAIN link.exports[lib] :
                   pending' = <<link.exports[lib][n]>>
      PROVE  RTypeInv'
  <2>1. \A i \in DOMAIN pending' : link.literals[pending'[i]] \in Literals
    BY <1>0, <1>3, LiteralsOfInput DEF RTypeInv
  <2>2. QED
    BY <1>0, <1>1, <1>3, <2>1 DEF RTypeInv
<1>4. CASE ReadFile
  <2>1. Head(unread) \in Files /\ Tail(unread) \in Seq(Files)
    BY <1>4 DEF ReadFile, RTypeInv, ResolverTypeOK
  <2>2. /\ link.atoms[Head(unread)] \in Seq(Atoms)
        /\ link.autolinks[Head(unread)] \in SUBSET Libraries
    BY <1>0, <2>1, LinkFields
  <2>3. ResolverTypeOK'
    BY <1>0, <1>4, <2>1, <2>2 DEF ReadFile, RTypeInv, ResolverTypeOK, Idle, tableVars
  <2>4. TableTypeOK'
    BY <1>2, <1>4 DEF ReadFile
  <2>5. pending' = link.atoms[Head(unread)]
    BY <1>4 DEF ReadFile
  <2>6. QED
    BY <1>3, <2>1, <2>3, <2>4, <2>5
<1>5. ASSUME NEW a \in Atoms, DoAtom(a)  PROVE RTypeInv'
  <2>1. Consistent(table')
    BY <1>5, DoAtomTable
  <2>2. TableTypeOK'
    <3>1. added' \in SUBSET Atoms /\ thrown' \in BOOLEAN /\ initial' = initial
      BY <1>0, <1>5 DEF DoAtom, TableTypeOK
    <3>2. QED
      BY <1>0, <2>1, <3>1 DEF TableTypeOK, Consistent, HasName
  <2>3. ResolverTypeOK'
    <3>1. pending' \in Seq(Atoms) /\ known' \in SUBSET Atoms /\ added' \subseteq known'
      BY <1>5 DEF DoAtom, RTypeInv, ResolverTypeOK
    <3>2. QED
      BY <1>0, <1>5, <3>1 DEF DoAtom, RTypeInv, ResolverTypeOK, loopVars
  <2>4. \A i \in DOMAIN pending' : \E j \in DOMAIN pending : pending'[i] = pending[j]
    <3>1. pending \in Seq(Atoms) /\ pending # <<>> /\ pending' = Tail(pending)
      BY <1>5 DEF DoAtom, RTypeInv, ResolverTypeOK
    <3>2. \A i \in DOMAIN pending' : i + 1 \in DOMAIN pending /\ pending'[i] = pending[i + 1]
      BY <3>1
    <3>3. QED
      BY <3>2
  <2>5. QED
    BY <1>3, <2>2, <2>3, <2>4
<1>6. CASE EndInput
  <2>1. /\ searchable' \in Seq(Libraries) /\ autolinked' \in SUBSET Libraries
    BY <1>6, LibrariesAdded DEF EndInput, RTypeInv, ResolverTypeOK
  <2>2. ResolverTypeOK'
    BY <1>0, <1>6, <2>1 DEF EndInput, RTypeInv, ResolverTypeOK, Idle
  <2>3. Consistent(table')
    <3>1. link.undefines \in SUBSET Names
      BY <1>0, LinkFields
    <3>2. table' = [table EXCEPT !.slots = @ \cup link.undefines]
      BY <1>6 DEF EndInput
    <3>3. QED
      BY <1>0, <3>1, <3>2 DEF Consistent, HasName, Tables
  <2>4. TableTypeOK'
    BY <1>0, <1>6, <2>3 DEF EndInput, TableTypeOK, Consistent, HasName
  <2>5. pending' = pending
    BY <1>6 DEF EndInput
  <2>6. QED
    BY <1>3, <2>2, <2>4, <2>5
<1>7. ASSUME ResolveUndefines  PROVE RTypeInv'
  <2>1. UpdateCount(table) \in Int
    <3>1. IsFiniteSet(table.slots) /\ IsFiniteSet({c \in Contents : table.byContent[c] # NoAtom})
      BY <1>0, FS_Subset, ResolverAssumption DEF Consistent, Tables
    <3>2. QED
      BY <3>1, FS_CardinalityType DEF UpdateCount
  <2>2. Undefines(table) \in SUBSET Names /\ TentativeDefs(table) \in SUBSET Names
    BY <1>0 DEF Undefines, TentativeDefs, Consistent, Tables
  <2>3. \A n \in Names, dylibs, dataOnly \in BOOLEAN : Searching(n, dylibs, dataOnly) \in Searches
    BY DEF Searching, Searches
  <2>4. SearchesDylibs \in BOOLEAN
    BY DEF SearchesDylibs
  <2>5. ResolverTypeOK'
    <3>1. ASSUME NEW next \in {"pass", "undefines", "tentatives", "leftovers", "resolved"},
                 NEW names \in SUBSET Names, NEW count \in Int, pc # "input", Idle,
                 OnlyLoops(next, names, count)
          PROVE  ResolverTypeOK'
      BY <1>0, <3>1 DEF OnlyLoops, Idle, RTypeInv, ResolverTypeOK, tableVars
    <3>2. ASSUME NEW s \in Searches \cup {NoSearch}, search' = s,
                 pc \in {"undefines", "tentatives", "leftovers"}, todo' \in SUBSET Names,
                 UNCHANGED <<tableVars, link, pc, unread, pending, known, loaded, requested,
                             autolinked, searchable, genCount>>
          PROVE  ResolverTypeOK'
      BY <1>0, <3>2 DEF RTypeInv, ResolverTypeOK, tableVars
    <3>3. StartPass \/ EndUndefines \/ EndTentatives \/ EndPasses \/ EndLeftovers
              => ResolverTypeOK'
      <4>1. genCount \in Int
        BY DEF RTypeInv, ResolverTypeOK
      <4>2. QED
        BY <2>1, <2>2, <3>1, <4>1
           DEF StartPass, EndUndefines, EndTentatives, EndPasses, EndLeftovers
    <3>4. ASSUME NEW n \in Names, SearchUndefined(n)  PROVE ResolverTypeOK'
      BY <2>3, <3>2, <3>4 DEF SearchUndefined, RTypeInv, ResolverTypeOK
    <3>5. ASSUME NEW n \in Names, SearchTentative(n)  PROVE ResolverTypeOK'
      BY <2>3, <2>4, <3>2, <3>5 DEF SearchTentative, RTypeInv, ResolverTypeOK
    <3>6. QED
      BY <1>7, <3>3, <3>4, <3>5 DEF ResolveUndefines
  <2>6. pending' = pending /\ UNCHANGED tableVars
    BY <1>7 DEF ResolveUndefines, StartPass, EndUndefines, EndTentatives, EndPasses,
                EndLeftovers, OnlyLoops, SearchUndefined, SearchTentative
  <2>7. QED
    BY <1>2, <1>3, <2>5, <2>6
<1>8. ASSUME NEW i \in DOMAIN searchable, AskDylib(i)  PROVE RTypeInv'
  <2>1. /\ searchable[i] \in Libraries /\ i \in Nat \ {0}
        /\ search \in Searches
        /\ search.name \in DOMAIN link.exports[searchable[i]]
    BY <1>8 DEF AskDylib, FirstAnswer, Answers, RTypeInv, ResolverTypeOK
  <2>2. link.exports[searchable[i]][search.name] \in Atoms
    BY <1>0, <2>1, LinkFields
  <2>3. search' \in {[search EXCEPT !.next = i + 1], NoSearch}
    BY <1>8 DEF AskDylib
  <2>4. [search EXCEPT !.next = i + 1] \in Searches /\ search # NoSearch
    BY <1>8, <2>1 DEF Searches, AskDylib, FirstAnswer
  <2>5. ResolverTypeOK'
    BY <1>0, <1>8, <2>2, <2>3, <2>4
       DEF AskDylib, RTypeInv, ResolverTypeOK, tableVars, loopVars
  <2>6. pending' = <<link.exports[searchable[i]][search.name]>> /\ UNCHANGED tableVars
    BY <1>8 DEF AskDylib
  <2>7. QED
    BY <1>2, <1>3, <2>1, <2>5, <2>6
<1>9. ASSUME NEW i \in DOMAIN searchable, LoadMember(i)  PROVE RTypeInv'
  <2> DEFINE f == link.members[searchable[i]][search.name]
  <2>1. /\ searchable[i] \in Libraries
        /\ search.name \in DOMAIN link.members[searchable[i]]
    BY <1>9 DEF LoadMember, FirstAnswer, Answers, RTypeInv, ResolverTypeOK
  <2>2. /\ f \in Files /\ link.atoms[f] \in Seq(Atoms)
        /\ link.autolinks[f] \in SUBSET Libraries
    BY <1>0, <2>1, LinkFields
  <2> HIDE DEF f
  <2>3. /\ searchable' \in Seq(Libraries) /\ autolinked' \in SUBSET Libraries
    BY <1>9, <2>2, LibrariesAdded DEF LoadMember, RTypeInv, ResolverTypeOK, f
  <2>4. /\ loaded' = loaded \cup {f} /\ pending' = link.atoms[f]
    BY <1>9 DEF LoadMember, f
  <2>5. ResolverTypeOK'
    BY <1>0, <1>9, <2>2, <2>3, <2>4
       DEF LoadMember, RTypeInv, ResolverTypeOK, tableVars, loopVars
  <2>6. UNCHANGED tableVars
    BY <1>9 DEF LoadMember
  <2>7. QED
    BY <1>2, <1>3, <2>2, <2>4, <2>5, <2>6
<1>10. CASE NotFound
  <2>1. ResolverTypeOK'
    BY <1>0, <1>10 DEF NotFound, RTypeInv, ResolverTypeOK, tableVars, loopVars
  <2>2. pending' = pending /\ UNCHANGED tableVars
    BY <1>10 DEF NotFound
  <2>3. QED
    BY <1>2, <1>3, <2>1, <2>2
<1>11. CASE UNCHANGED resolverVars
  <2>1. ResolverTypeOK'
    BY <1>0, <1>11 DEF resolverVars, RTypeInv, ResolverTypeOK, tableVars
  <2>2. pending' = pending /\ UNCHANGED tableVars
    BY <1>11 DEF resolverVars
  <2>3. QED
    BY <1>2, <1>3, <2>1, <2>2
<1>12. QED
  BY <1>4, <1>5, <1>6, <1>7, <1>8, <1>9, <1>10, <1>11 DEF ResolverNext, SearchLibraries

\* The variables of the resolver, and of the table it uses, keep their types, and a
\* search goes on only in a loop over names.
THEOREM ResolverTypeCorrect == ResolverSpec => [](ResolverTypeOK /\ TableTypeOK)
<1>1. RTypeInv /\ [ResolverNext]_resolverVars => RTypeInv'
  BY NextRType
<1>2. RTypeInv => ResolverTypeOK /\ TableTypeOK
  BY DEF RTypeInv
<1>3. QED
  BY InitRType, <1>1, <1>2, PTL DEF ResolverSpec

------------------------------------------------------------------------------
(***************************************************************************)
(* Every file is read once, from its first atom to its last.               *)
(***************************************************************************)
\* The files that forEachAtom() was called for.
Begun == (Range(link.objects) \ Range(unread)) \cup loaded

\* pending is what f has still to hand out after its first k atoms.
PendingOf(f, k) ==
    LET all == link.atoms[f]
    IN  /\ Len(pending) = Len(all) - k
        /\ \A i \in 1 .. Len(pending) : pending[i] = all[k + i]
        /\ \A i \in 1 .. k : all[i] \in known
        /\ \A i \in k + 1 .. Len(all) : all[i] \notin known

\* pending is the atom the dylib lib has for n.
PendingExport(lib, n) ==
    n \in DOMAIN link.exports[lib] /\ pending = <<link.exports[lib][n]>>

\* The dylib lib has an atom for n, and it is one of atoms.
ExportIn(lib, n, atoms) ==
    n \in DOMAIN link.exports[lib] /\ link.exports[lib][n] \in atoms

\* a is an atom of a file, or one that a dylib has for a name.
Sourced(a) ==
    \/ \E f \in Files : a \in Range(link.atoms[f])
    \/ \E lib \in Libraries : \E n \in Names : ExportIn(lib, n, {a})

FilesInv ==
    /\ IsInjective(unread)
    /\ Range(unread) \subseteq Range(link.objects)
    /\ loaded \cap Range(link.objects) = {}
    /\ \A f \in Files \ Begun : Range(link.atoms[f]) \cap known = {}
    /\ \A f \in Begun : Range(link.atoms[f]) \subseteq known \cup Range(pending)
    /\ \/ pending = <<>>
       \/ \E f \in Begun : \E k \in 0 .. Len(link.atoms[f]) : PendingOf(f, k)
       \/ \E lib \in Libraries : \E n \in Names : PendingExport(lib, n)
    /\ \A a \in known : Sourced(a) /\ (Named(a) => a \in added)
    /\ IsInjective(searchable)

\* A file that was not begun is begun.
LEMMA FileBegins ==
    ASSUME RTypeInv, FilesInv, pending = <<>>, NEW f \in Files \ Begun,
           pending' = link.atoms[f], known' = known, added' = added, link' = link,
           atom' = atom, searchable' \in Seq(Libraries), IsInjective(searchable'),
           IsInjective(unread'), Range(unread') \subseteq Range(link.objects),
           loaded' \cap Range(link.objects) = {}, Begun' = Begun \cup {f}
    PROVE  FilesInv'
<1> DEFINE all == link.atoms[f]
<1>1. link \in Links /\ all \in Seq(Atoms)
  BY LinkFields DEF RTypeInv
<1>2. \A i \in 1 .. Len(all) : all[i] \in Range(all)
  BY <1>1 DEF Range
<1>3. PendingOf(f, 0)'
  <2>1. \A i \in 1 .. Len(all) : all[i] \notin known
    BY <1>2 DEF FilesInv
  <2>2. Len(all) \in Nat /\ 1 .. 0 = {}
    BY <1>1
  <2> HIDE DEF all
  <2>3. /\ Len(all) = Len(all) - 0
        /\ \A i \in 1 .. Len(all) : all[i] = all[0 + i]
        /\ \A i \in 1 .. 0 : all[i] \in known
        /\ \A i \in 0 + 1 .. Len(all) : all[i] \notin known
    BY <2>1, <2>2
  <2>4. QED
    BY <2>3 DEF PendingOf, all
<1>4. Range(pending) = {}
  BY DEF Range
<1>5. /\ \A g \in Files \ Begun' : Range(link.atoms[g]) \cap known = {}
      /\ \A g \in Begun' : Range(link.atoms[g]) \subseteq known \cup Range(pending')
  BY <1>4 DEF FilesInv
<1>6. \A a \in known : Sourced(a)' /\ (Named(a)' => a \in added)
  BY DEF FilesInv, Named, Sourced, ExportIn
<1>7. f \in Begun' /\ 0 \in 0 .. Len(link'.atoms[f])
  BY <1>1
<1>8. QED
  BY <1>3, <1>5, <1>6, <1>7 DEF FilesInv

\* Of a file that is begun, or of a dylib, one atom is handed out.
LEMMA AtomHandedOut ==
    ASSUME RTypeInv, FilesInv, NEW a \in Atoms, DoAtom(a)
    PROVE  FilesInv'
<1>1. /\ link \in Links /\ atom = link.attributes /\ link' = link /\ atom' = atom
      /\ WellFormed(link) /\ pending \in Seq(Atoms) /\ pending # <<>>
      /\ a = Head(pending) /\ pending' = Tail(pending) /\ known' = known \cup {a}
      /\ UNCHANGED <<unread, loaded, searchable>>
      /\ a \in Atoms
  BY InputStays, ResolverAssumption
     DEF RTypeInv, ResolverTypeOK, DoAtom, ResolverNext, loopVars
<1>2. Begun' = Begun /\ Begun \subseteq Files
  <2>1. link.objects \in Seq(Files) /\ loaded \in SUBSET Files
    BY <1>1, LinkFields DEF RTypeInv, ResolverTypeOK
  <2>2. QED
    BY <1>1, <2>1 DEF Begun, Range
<1>3. Range(pending) = {a} \cup Range(pending')
  <2>1. /\ pending[1] = a /\ 1 \in DOMAIN pending
        /\ \A i \in DOMAIN pending' : i + 1 \in DOMAIN pending /\ pending'[i] = pending[i + 1]
        /\ \A i \in DOMAIN pending : i = 1 \/ (i - 1 \in DOMAIN pending'
                                               /\ pending[i] = pending'[i - 1])
    BY <1>1
  <2>2. QED
    BY <2>1 DEF Range
<1>4. \A g \in Begun : Range(link.atoms[g]) \subseteq known' \cup Range(pending')
  BY <1>1, <1>3 DEF FilesInv
<1>5. \A b \in known' : Named(b)' => b \in added'
  <2>1. added' = IF Named(a) THEN added \cup {a} ELSE added
    BY DEF DoAtom
  <2>2. QED
    BY <1>1, <2>1 DEF FilesInv, Named
<1>6. ASSUME NEW f \in Begun, NEW k \in 0 .. Len(link.atoms[f]), PendingOf(f, k)
      PROVE  /\ PendingOf(f, k + 1)' /\ k + 1 \in 0 .. Len(link.atoms[f])
             /\ a \in Range(link.atoms[f])
  <2> DEFINE all == link.atoms[f]
  <2>1. /\ all \in Seq(Atoms) /\ IsInjective(all)
    BY <1>1, <1>2, LinkFields, FilesApart
  <2>2. /\ Len(pending) = Len(all) - k
        /\ \A i \in 1 .. Len(pending) : pending[i] = all[k + i]
        /\ \A i \in 1 .. k : all[i] \in known
        /\ \A i \in k + 1 .. Len(all) : all[i] \notin known
    BY <1>6 DEF PendingOf
  <2> HIDE DEF all
  <2>3. k \in 0 .. Len(all)
    BY <1>6 DEF all
  <2>4. k + 1 \in 1 .. Len(all) /\ a = all[k + 1]
    BY <1>1, <2>1, <2>2, <2>3
  <2>5. \A i \in 1 .. Len(all) : all[i] = a => i = k + 1
    BY <2>1, <2>4 DEF IsInjective
  <2>6. Len(pending') = Len(all) - (k + 1)
    BY <1>1, <2>1, <2>2, <2>3
  <2>7. \A i \in 1 .. Len(pending') : pending'[i] = all[(k + 1) + i]
    <3>1. \A i \in 1 .. Len(pending') :
             i + 1 \in 1 .. Len(pending) /\ pending'[i] = pending[i + 1]
      BY <1>1
    <3>2. \A i \in 1 .. Len(pending') : pending'[i] = all[k + (i + 1)]
      BY <2>2, <3>1
    <3>3. \A i \in 1 .. Len(pending') : k + (i + 1) = (k + 1) + i
      BY <1>1, <2>3
    <3>4. QED
      BY <3>2, <3>3
  <2>8. /\ \A i \in 1 .. k + 1 : all[i] \in known'
        /\ \A i \in (k + 1) + 1 .. Len(all) : all[i] \notin known'
    BY <1>1, <2>1, <2>2, <2>3, <2>4, <2>5
  <2>9. PendingOf(f, k + 1)'
    BY <1>1, <2>6, <2>7, <2>8 DEF PendingOf, all
  <2>10. k + 1 \in 0 .. Len(all) /\ a \in Range(all)
    BY <2>1, <2>3, <2>4 DEF Range
  <2>11. QED
    BY <2>9, <2>10 DEF all
<1>7. ASSUME NEW lib \in Libraries, NEW n \in Names, PendingExport(lib, n)
      PROVE  pending' = <<>> /\ \A f \in Files : a \notin Range(link.atoms[f])
  <2>1. pending = <<link.exports[lib][n]>> /\ n \in DOMAIN link.exports[lib]
    BY <1>7 DEF PendingExport
  <2>2. pending' = <<>> /\ a = link.exports[lib][n]
    BY <1>1, <2>1
  <2>3. link.attributes[a].definition = "proxy"
    BY <1>1, <2>1, <2>2, OfDylib DEF ExportOK
  <2>4. QED
    <3>1. ASSUME NEW f \in Files, NEW i \in DOMAIN link.atoms[f]  PROVE a # link.atoms[f][i]
      <4>1. FileAtomOK(link, f, i)
        BY <1>1, OfFile
      <4>2. QED
        BY Zenon, <2>3, <4>1 DEF FileAtomOK
    <3>2. QED
      BY <2>2, <3>1 DEF Range
<1>8. \/ pending' = <<>>
      \/ \E f \in Begun : \E k \in 0 .. Len(link.atoms[f]) : PendingOf(f, k)'
  BY <1>1, <1>6, <1>7 DEF FilesInv
<1>9. \A f \in Files \ Begun : Range(link.atoms[f]) \cap known' = {}
  <2>1. ASSUME NEW f \in Files \ Begun  PROVE a \notin Range(link.atoms[f])
    <3>1. ASSUME NEW g \in Begun, NEW k \in 0 .. Len(link.atoms[g]), PendingOf(g, k)
          PROVE  a \notin Range(link.atoms[f])
      BY <1>1, <1>2, <1>6, <2>1, <3>1, FilesApart
    <3>2. QED
      BY <1>1, <1>7, <2>1, <3>1 DEF FilesInv
  <2>2. QED
    BY <1>1, <2>1 DEF FilesInv
<1>10. \A b \in known' : Sourced(b)'
  <2>1. ASSUME NEW lib \in Libraries, NEW n \in Names, PendingExport(lib, n)
        PROVE  Sourced(a)
    <3>1. n \in DOMAIN link.exports[lib] /\ a = link.exports[lib][n]
      BY <1>1, <2>1 DEF PendingExport
    <3>2. QED
      BY <3>1 DEF Sourced, ExportIn
  <2>2. Sourced(a)
    BY <1>1, <1>2, <1>6, <2>1 DEF FilesInv, Sourced
  <2>3. \A b \in Atoms : Sourced(b)' <=> Sourced(b)
    BY <1>1 DEF Sourced, ExportIn
  <2>4. known \subseteq Atoms
    BY DEF RTypeInv, ResolverTypeOK
  <2>5. QED
    BY <1>1, <2>2, <2>3, <2>4 DEF FilesInv
<1>11. QED
  BY <1>1, <1>2, <1>4, <1>5, <1>8, <1>9, <1>10 DEF FilesInv

LEMMA NextFiles ==
    ASSUME RTypeInv, FilesInv, [ResolverNext]_resolverVars
    PROVE  FilesInv'
<1>0. /\ link \in Links /\ link' = link /\ atom' = atom
      /\ searchable \in Seq(Libraries) /\ autolinked \in SUBSET Libraries
      /\ unread \in Seq(Files) /\ link.objects \in Seq(Files) /\ loaded \in SUBSET Files
  BY InputStays, LinkFields DEF RTypeInv, ResolverTypeOK
<1>1. ASSUME UNCHANGED <<unread, pending, known, added, loaded>>, IsInjective(searchable')
      PROVE  FilesInv'
  BY <1>0, <1>1 DEF FilesInv, Begun, PendingOf, PendingExport, Named, Sourced, ExportIn
<1>2. CASE ReadFile
  <2>1. /\ unread # <<>> /\ unread' = Tail(unread) /\ Head(unread) \in Files
        /\ pending = <<>> /\ pending' = link.atoms[Head(unread)]
        /\ UNCHANGED <<known, added, loaded, searchable>>
    BY <1>0, <1>2 DEF ReadFile, Idle, tableVars
  <2>2. Head(unread) \in Range(unread)
    BY <1>0, <2>1 DEF Range
  <2>3. Head(unread) \notin Begun
    BY <2>2 DEF FilesInv, Begun
  <2>4. /\ 1 \in DOMAIN unread /\ Head(unread) = unread[1]
        /\ \A i \in DOMAIN unread' : i + 1 \in DOMAIN unread /\ unread'[i] = unread[i + 1]
        /\ \A i \in DOMAIN unread : i = 1 \/ (i - 1 \in DOMAIN unread'
                                              /\ unread[i] = unread'[i - 1])
        /\ \A i \in DOMAIN unread' : i \in Nat \ {0}
    BY <1>0, <2>1
  <2>5. IsInjective(unread')
    <3>1. IsInjective(unread)
      BY DEF FilesInv
    <3>2. QED
      BY <2>4, <3>1 DEF IsInjective
  <2>6. Range(unread') = Range(unread) \ {Head(unread)}
    <3>1. \A i \in DOMAIN unread' : unread'[i] # Head(unread)
      BY <2>4 DEF FilesInv, IsInjective
    <3>2. QED
      BY <2>4, <3>1 DEF Range
  <2>7. Begun' = Begun \cup {Head(unread)}
    BY <1>0, <2>1, <2>2, <2>6 DEF Begun, FilesInv
  <2>8. QED
    BY <1>0, <2>1, <2>3, <2>5, <2>6, <2>7, FileBegins DEF FilesInv
<1>3. ASSUME NEW a \in Atoms, DoAtom(a)  PROVE FilesInv'
  BY <1>3, AtomHandedOut
<1>4. CASE EndInput
  <2>1. requested \in SUBSET Libraries
    BY DEF RTypeInv, ResolverTypeOK
  <2>2. IsInjective(searchable')
    BY <1>0, <1>4, <2>1, LibrariesAdded DEF EndInput, FilesInv
  <2>3. QED
    BY <1>1, <1>4, <2>2 DEF EndInput
<1>5. CASE ResolveUndefines
  BY <1>1, <1>5
     DEF ResolveUndefines, StartPass, EndUndefines, EndTentatives, EndPasses, EndLeftovers,
         OnlyLoops, SearchUndefined, SearchTentative, tableVars, FilesInv
<1>6. ASSUME NEW i \in DOMAIN searchable, AskDylib(i)  PROVE FilesInv'
  <2>1. /\ searchable[i] \in Libraries /\ search.name \in Names
        /\ search.name \in DOMAIN link.exports[searchable[i]]
        /\ pending = <<>> /\ pending' = <<link.exports[searchable[i]][search.name]>>
        /\ UNCHANGED <<known, added, loaded, unread, searchable>>
    BY <1>0, <1>6
       DEF AskDylib, FirstAnswer, Answers, RTypeInv, ResolverTypeOK, Searches, loopVars,
           tableVars
  <2>2. \E lib \in Libraries : \E n \in Names : PendingExport(lib, n)'
    BY <1>0, <2>1 DEF PendingExport
  <2>3. Range(pending) = {} /\ Begun' = Begun
    BY <1>0, <2>1 DEF Range, Begun
  <2>4. QED
    BY <1>0, <2>1, <2>2, <2>3 DEF FilesInv, Named, Sourced, ExportIn
<1>7. ASSUME NEW i \in DOMAIN searchable, LoadMember(i)  PROVE FilesInv'
  <2> DEFINE f == link.members[searchable[i]][search.name]
  <2>1. /\ searchable[i] \in Libraries /\ search.name \in DOMAIN link.members[searchable[i]]
        /\ f \notin loaded /\ pending = <<>> /\ pending' = link.atoms[f]
        /\ loaded' = loaded \cup {f} /\ AddLinkerOptionLibraries(link.autolinks[f])
        /\ UNCHANGED <<known, added, unread>>
    BY <1>0, <1>7 DEF LoadMember, FirstAnswer, Answers, loopVars, tableVars
  <2>2. f \in Files /\ f \notin Range(link.objects)
    BY <1>0, <2>1, LinkFields, OfArchive DEF MemberOK
  <2> HIDE DEF f
  <2>3. link.autolinks[f] \in SUBSET Libraries
    BY <1>0, <2>2, LinkFields
  <2>4. searchable' \in Seq(Libraries) /\ IsInjective(searchable')
    BY <1>0, <2>1, <2>3, LibrariesAdded DEF FilesInv
  <2>5. f \notin Begun /\ Begun' = Begun \cup {f}
    BY <1>0, <2>1, <2>2 DEF Begun
  <2>6. QED
    BY <1>0, <2>1, <2>2, <2>4, <2>5, FileBegins DEF FilesInv
<1>8. CASE NotFound
  BY <1>1, <1>8 DEF NotFound, tableVars, loopVars, FilesInv
<1>9. CASE UNCHANGED resolverVars
  BY <1>1, <1>9 DEF resolverVars, tableVars, FilesInv
<1>10. QED
  BY <1>2, <1>3, <1>4, <1>5, <1>6, <1>7, <1>8, <1>9 DEF ResolverNext, SearchLibraries

LEMMA InitFiles == ResolverInit => FilesInv
<1> SUFFICES ASSUME ResolverInit  PROVE FilesInv
  OBVIOUS
<1>1. WellFormed(link) /\ link.objects \in Seq(Files) /\ link.libraries \in Seq(Libraries)
  BY LinkFields, ResolverAssumption DEF ResolverInit
<1>2. QED
  BY <1>1 DEF ResolverInit, FilesInv, WellFormed, Begun

------------------------------------------------------------------------------
(***************************************************************************)
(* Libraries are searched for what has no better definition.               *)
(***************************************************************************)
\* A name that was asked for and that a library may define, or define better.
Open(n) ==
    /\ n \in table.slots
    /\ HasName(table, n) => \/ Tentative(table.byName[n])
                            \/ Proxy(table.byName[n]) /\ Weak(table.byName[n])

SearchInv ==
    ~ thrown =>
        /\ search # NoSearch /\ pending = <<>> => Open(search.name)
        /\ search # NoSearch /\ pending # <<>> =>
              \E lib \in Libraries : PendingExport(lib, search.name) /\ Weak(pending[1])
        /\ \A lib \in Libraries, n \in Names :
              PendingExport(lib, n) => Open(n) /\ ~ initial
        /\ todo \subseteq table.slots
        /\ pc = "tentatives" => \A n \in todo : HasName(table, n)

\* What an atom does to the slots of names: it gets that of its own, if it is picked.
LEMMA SlotAfter ==
    ASSUME RTypeInv, NEW a \in Atoms, DoAtom(a), ~ thrown'
    PROVE  LET old == table.byName[atom[a].name]
               with == [table.byName EXCEPT ![atom[a].name] = a]
           IN  /\ ~ (Named(a) /\ ByName(a)) => table'.byName = table.byName
               /\ Named(a) /\ ByName(a) =>
                     /\ old = NoAtom => table'.byName = with
                     /\ old # NoAtom =>
                           /\ ~ PickThrows(a, old)
                           /\ \E new \in PickAtom(a, old, Treatment) :
                                 table'.byName = IF new THEN with ELSE table.byName
<1>1. AtomsOK /\ Consistent(table)
  BY TypeSplit DEF RTypeInv
<1>2. link.references[a] \in SUBSET Names /\ link.literals[a] \in Literals
  BY LinkFields DEF DoAtom, RTypeInv, ResolverTypeOK
<1>3. ~ (Named(a) /\ AddThrows(table, a))
  BY DEF DoAtom
<1>4. PICK t \in IF Named(a) THEN AddTo(table, a, Treatment) ELSE {table} :
          table' = Referring(t, link.references[a], link.literals[a])
  BY <1>3 DEF DoAtom
<1>5. Consistent(t)
  BY <1>1, <1>4, AddToConsistent
<1>6. table'.byName = t.byName
  BY <1>1, <1>2, <1>4, <1>5, ReferringConsistent
<1>7. CASE ~ Named(a)
  BY <1>4, <1>6, <1>7
<1>8. CASE Named(a) /\ ~ ByName(a)
  <2>1. t = AddByContent(table, a)
    BY <1>4, <1>8 DEF AddTo, ByName
  <2>2. QED
    BY <1>1, <1>6, <1>8, <2>1, AddByContentConsistent
<1>9. CASE Named(a) /\ ByName(a)
  <2>1. t \in AddByName(table, a, Treatment)
    BY <1>4, <1>9 DEF AddTo, ByName
  <2>2. HasName(table, atom[a].name) => ~ PickThrows(a, table.byName[atom[a].name])
    BY <1>3, <1>9 DEF AddThrows, ByName
  <2>3. QED
    BY <1>1, <1>6, <1>9, <2>1, <2>2, AddByNameSlots DEF HasName
<1>10. QED
  BY <1>7, <1>8, <1>9

\* What a file hands out is no dylib's.
LEMMA FilesHaveNoExports ==
    ASSUME link \in Links, NEW f \in Files, NEW i \in DOMAIN link.atoms[f],
           NEW lib \in Libraries, NEW n \in DOMAIN link.exports[lib]
    PROVE  link.exports[lib][n] # link.atoms[f][i]
<1>1. FileAtomOK(link, f, i) /\ ExportOK(link, lib, n)
  BY OfFile, OfDylib
<1>2. QED
  BY Zenon, <1>1 DEF FileAtomOK, ExportOK

\* After an atom of a dylib none is pending; after one of a file none of a dylib is.
LEMMA NoExportAfter ==
    ASSUME RTypeInv, FilesInv, NEW a \in Atoms, DoAtom(a),
           NEW lib \in Libraries, NEW n \in Names
    PROVE  ~ PendingExport(lib, n)'
<1>1. /\ link \in Links /\ link' = link /\ pending \in Seq(Atoms)
      /\ pending # <<>> /\ pending' = Tail(pending)
  BY InputStays DEF RTypeInv, ResolverTypeOK, DoAtom, ResolverNext
<1>2. Begun \subseteq Files
  BY LinkFields DEF RTypeInv, ResolverTypeOK, Begun, Range
<1>3. CASE \E other \in Libraries, m \in Names : PendingExport(other, m)
  BY <1>1, <1>3 DEF PendingExport
<1>4. ASSUME NEW f \in Begun, NEW k \in 0 .. Len(link.atoms[f]), PendingOf(f, k)
      PROVE  ~ PendingExport(lib, n)'
  <2>1. SUFFICES ASSUME n \in DOMAIN link.exports[lib], pending' = <<link.exports[lib][n]>>
                 PROVE  FALSE
    BY <1>1 DEF PendingExport
  <2>2. Len(pending') = 1 /\ pending'[1] = link.exports[lib][n]
    BY <2>1
  <2>3. 2 \in 1 .. Len(pending) /\ pending[2] = link.exports[lib][n]
    <3>1. Len(pending) = 2
      BY <1>1, <2>2
    <3>2. \A i \in 1 .. Len(pending') : pending'[i] = pending[i + 1]
      BY <1>1
    <3>3. pending'[1] = pending[1 + 1] /\ 1 + 1 = 2
      BY <2>2, <3>2
    <3>4. QED
      BY <2>2, <3>1, <3>3
  <2>4. link.atoms[f] \in Seq(Atoms)
    BY <1>1, <1>2, LinkFields
  <2>5. k + 2 \in DOMAIN link.atoms[f] /\ link.exports[lib][n] = link.atoms[f][k + 2]
    BY <1>1, <1>4, <2>3, <2>4 DEF PendingOf
  <2>6. QED
    BY <1>1, <1>2, <2>1, <2>5, FilesHaveNoExports
<1>5. QED
  BY <1>1, <1>3, <1>4 DEF FilesInv

\* The atoms of a file that is begun are no dylib's.
LEMMA NoExportWhenBegun ==
    ASSUME link \in Links, NEW f \in Files, pending' = link.atoms[f], link' = link,
           NEW lib \in Libraries, NEW n \in Names
    PROVE  ~ PendingExport(lib, n)'
<1>1. SUFFICES ASSUME n \in DOMAIN link.exports[lib], link.atoms[f] = <<link.exports[lib][n]>>
               PROVE  FALSE
  BY DEF PendingExport
<1>2. 1 \in DOMAIN link.atoms[f] /\ link.atoms[f][1] = link.exports[lib][n]
  BY <1>1
<1>3. QED
  BY <1>1, <1>2, FilesHaveNoExports

\* While a dylib's weak atom is entered, its name stays open.
LEMMA DoAtomSearch ==
    ASSUME RTypeInv, FilesInv, SearchInv, NEW a \in Atoms, DoAtom(a)
    PROVE  SearchInv'
<1> SUFFICES ASSUME ~ thrown'  PROVE SearchInv'
  BY DEF SearchInv
<1>1. /\ link \in Links /\ link' = link /\ atom' = atom /\ ~ thrown
      /\ a = Head(pending) /\ pending' = Tail(pending) /\ UNCHANGED <<pc, todo, search>>
      /\ AtomsOK /\ Consistent(table)
  BY InputStays, TypeSplit DEF RTypeInv, DoAtom, ResolverNext, loopVars
<1>2. Consistent(table') /\ Grows(table, table')
  BY DoAtomTable
<1>3. /\ todo \subseteq table'.slots
      /\ pc = "tentatives" => \A n \in todo : HasName(table, n)'
  <2>1. todo \subseteq Names
    BY DEF RTypeInv, ResolverTypeOK
  <2>2. QED
    BY <1>1, <1>2, <2>1 DEF SearchInv, Grows, KeepsNames, HasName
<1>4. \A lib \in Libraries, n \in Names : ~ PendingExport(lib, n)'
  BY NoExportAfter
<1>5. ASSUME search # NoSearch, NEW n \in Names, n = search.name
      PROVE  pending' = <<>> /\ Open(n)'
  <2> DEFINE old == table.byName[n]
  <2>1. pending # <<>>
    BY DEF DoAtom
  <2>2. PICK lib \in Libraries : PendingExport(lib, n) /\ Weak(pending[1])
    BY <1>1, <1>5, <2>1 DEF SearchInv
  <2>3. /\ pending = <<a>> /\ a = link.exports[lib][n] /\ pending' = <<>>
        /\ n \in DOMAIN link.exports[lib] /\ Weak(a)
    BY <1>1, <2>2 DEF PendingExport
  <2>4. Open(n)
    BY <1>1, <2>2 DEF SearchInv
  <2>5. atom[a].name = n /\ Proxy(a) /\ Named(a) /\ ByName(a)
    BY <1>1, <2>3, OfDylib
       DEF ExportOK, Proxy, Named, ByName, RTypeInv, ResolverTypeOK
  <2>6. old \in Atoms \cup {NoAtom} /\ a # NoAtom /\ table.byName \in [Names -> Atoms \cup {NoAtom}]
    BY <1>1, AtomFields DEF Consistent, Tables
  <2>7. table'.byName[n] \in {a, old} /\ (old = NoAtom => table'.byName[n] = a)
    <3> DEFINE with == [table.byName EXCEPT ![n] = a]
    <3>1. with[n] = a
      BY <2>6
    <3>2. CASE old = NoAtom
      <4>1. table'.byName = with
        BY <2>5, <3>2, SlotAfter
      <4>2. QED
        BY <3>1, <4>1
    <3>3. CASE old # NoAtom
      <4>1. PICK new \in PickAtom(a, old, Treatment) :
                table'.byName = IF new THEN with ELSE table.byName
        BY <2>5, <3>3, SlotAfter
      <4>2. QED
        BY <3>1, <3>3, <4>1
    <3>4. QED
      BY <3>2, <3>3
  <2>8. n \in table'.slots
    BY <1>2, <2>4 DEF Open, Grows
  <2> HIDE DEF old
  <2>9. /\ Proxy(a)' /\ Weak(a)'
    BY <1>1, <2>3, <2>5 DEF Proxy, Weak, old
  <2>10. CASE table'.byName[n] = a
    BY <2>3, <2>8, <2>9, <2>10 DEF Open, Proxy, Weak
  <2>11. CASE table'.byName[n] = old /\ old # NoAtom
    BY <1>1, <2>3, <2>4, <2>8, <2>11 DEF Open, HasName, Tentative, Proxy, Weak, old
  <2>12. QED
    BY <2>3, <2>6, <2>7, <2>10, <2>11
<1>6. search' # NoSearch => pending' = <<>> /\ Open(search.name)'
  <2>1. search # NoSearch => search.name \in Names
    BY DEF RTypeInv, ResolverTypeOK, Searches
  <2>2. QED
    BY <1>1, <1>5, <2>1 DEF Open, HasName, Tentative, Proxy, Weak
<1>7. QED
  BY <1>1, <1>3, <1>4, <1>6 DEF SearchInv

LEMMA NextSearch ==
    ASSUME RTypeInv, FilesInv, SearchInv, [ResolverNext]_resolverVars
    PROVE  SearchInv'
<1>0. /\ link \in Links /\ link' = link /\ atom' = atom
      /\ AtomsOK /\ Consistent(table) /\ TableTypeOK
      /\ search # NoSearch => search \in Searches /\ search.name \in Names /\ ~ initial
      /\ todo \in SUBSET Names
  BY InputStays, TypeSplit DEF RTypeInv, ResolverTypeOK, Searches
<1>1. ASSUME UNCHANGED <<table, initial, thrown>>, todo' \subseteq table.slots,
             pc' = "tentatives" => \A n \in todo' : HasName(table, n),
             pending' = pending \/ \E f \in Files : pending' = link.atoms[f],
             search' = NoSearch
      PROVE  SearchInv'
  <2>1. ASSUME NEW lib \in Libraries, NEW n \in Names, PendingExport(lib, n)', ~ thrown
        PROVE  (Open(n) /\ ~ initial)'
    <3>1. pending' = pending
      BY <1>0, <1>1, <2>1, NoExportWhenBegun
    <3>2. PendingExport(lib, n)
      BY <1>0, <2>1, <3>1 DEF PendingExport
    <3>3. QED
      BY <1>0, <1>1, <2>1, <3>2 DEF SearchInv, Open, HasName, Tentative, Proxy, Weak
  <2>2. QED
    BY <1>1, <2>1 DEF SearchInv, HasName
<1>2. CASE ReadFile
  <2>1. Head(unread) \in Files
    BY <1>2 DEF ReadFile, RTypeInv, ResolverTypeOK
  <2>2. QED
    BY <1>0, <1>1, <1>2, <2>1 DEF ReadFile, Idle, SearchInv, tableVars
<1>3. ASSUME NEW a \in Atoms, DoAtom(a)  PROVE SearchInv'
  BY <1>3, DoAtomSearch
<1>4. CASE EndInput
  <2>1. /\ pending' = <<>> /\ search' = NoSearch /\ pc' = "pass" /\ todo' = todo
        /\ thrown' = thrown /\ table' = [table EXCEPT !.slots = @ \cup link.undefines]
        /\ ~ thrown
    BY <1>4 DEF EndInput, Idle
  <2>2. table.slots \subseteq table'.slots
    BY <1>0, <2>1 DEF Consistent, Tables
  <2>3. QED
    BY <2>1, <2>2 DEF SearchInv, PendingExport
<1>5. CASE ResolveUndefines
  <2>1. \A n \in TentativeDefs(table) : n \in table.slots /\ HasName(table, n)
    BY <1>0 DEF TentativeDefs, Consistent
  <2>2. CASE StartPass \/ EndUndefines \/ EndTentatives \/ EndPasses \/ EndLeftovers
    BY <1>1, <2>1, <2>2
       DEF StartPass, EndUndefines, EndTentatives, EndPasses, EndLeftovers, OnlyLoops,
           Undefines, Idle, tableVars
  <2>3. ASSUME NEW n \in Names, n \in todo, todo' = todo \ {n}, Idle, Open(n),
               search' = Searching(n, TRUE, FALSE)
                  \/ search' = Searching(n, SearchesDylibs, TRUE),
               UNCHANGED <<tableVars, pc, pending>>
        PROVE  SearchInv'
    <3>1. search'.name = n /\ pending' = <<>>
      BY <2>3 DEF Searching, Idle
    <3>2. Open(search.name)'
      BY <1>0, <2>3, <3>1 DEF Open, HasName, Tentative, Proxy, Weak, tableVars
    <3>3. /\ todo' \subseteq table'.slots
          /\ pc' = "tentatives" => \A m \in todo' : HasName(table, m)'
      BY <2>3 DEF SearchInv, Idle, HasName, tableVars
    <3>4. QED
      BY <3>1, <3>2, <3>3 DEF SearchInv, PendingExport
  <2>4. ASSUME NEW n \in Names, SearchUndefined(n)  PROVE SearchInv'
    <3>1. CASE StillUndefined(n)
      <4>1. Open(n)
        BY <2>4, <3>1 DEF SearchUndefined, StillUndefined, Open, SearchInv, Idle
      <4>2. QED
        BY <2>3, <2>4, <3>1, <4>1 DEF SearchUndefined
    <3>2. CASE ~ StillUndefined(n)
      BY <1>1, <2>4, <3>2 DEF SearchUndefined, SearchInv, Idle, tableVars
    <3>3. QED
      BY <3>1, <3>2
  <2>5. ASSUME NEW n \in Names, SearchTentative(n)  PROVE SearchInv'
    <3>1. CASE Tentative(table.byName[n])
      <4>1. Open(n)
        BY <2>5, <3>1 DEF SearchTentative, Open, SearchInv, Idle
      <4>2. QED
        BY <2>3, <2>5, <3>1, <4>1 DEF SearchTentative
    <3>2. CASE ~ Tentative(table.byName[n])
      BY <1>1, <2>5, <3>2 DEF SearchTentative, SearchInv, Idle, tableVars
    <3>3. QED
      BY <3>1, <3>2
  <2>6. QED
    BY <1>5, <2>2, <2>4, <2>5 DEF ResolveUndefines
<1>6. ASSUME NEW i \in DOMAIN searchable, AskDylib(i)  PROVE SearchInv'
  <2> DEFINE n == search.name
             lib == searchable[i]
             a == link.exports[lib][n]
  <2>1. /\ lib \in Libraries /\ n \in DOMAIN link.exports[lib] /\ n \in Names
        /\ pending = <<>> /\ pending' = <<a>> /\ ~ thrown /\ ~ initial /\ search # NoSearch
        /\ search' = IF Weak(a) THEN [search EXCEPT !.next = i + 1] ELSE NoSearch
        /\ UNCHANGED <<atom, table, added, initial, thrown, pc, todo>>
    BY <1>0, <1>6
       DEF AskDylib, FirstAnswer, Answers, GoesOnAfter, RTypeInv, ResolverTypeOK, loopVars,
           tableVars
  <2>2. Open(n)
    BY <2>1 DEF SearchInv
  <2>3. search' # NoSearch => search'.name = n
    BY <1>0, <2>1 DEF Searches
  <2>4. \A m \in Names : Open(m) => Open(m)'
    BY <2>1 DEF Open, HasName, Tentative, Proxy, Weak
  <2>5. ASSUME search' # NoSearch
        PROVE  \E l \in Libraries : PendingExport(l, search.name)' /\ Weak(pending[1])'
    <3>1. search'.name = n /\ Weak(a) /\ pending'[1] = a
      BY <2>1, <2>3, <2>5
    <3>2. n \in DOMAIN link'.exports[lib] /\ pending' = <<link'.exports[lib][n]>>
      BY <1>0, <2>1
    <3> HIDE DEF lib, n, a
    <3>3. PendingExport(lib, search.name)' <=> /\ n \in DOMAIN link'.exports[lib']
                                               /\ pending' = <<link'.exports[lib'][n]>>
      BY <3>1 DEF PendingExport
    <3>4. \E l \in Libraries : /\ search'.name \in DOMAIN link'.exports[l]
                               /\ pending' = <<link'.exports[l][search'.name]>>
      BY <2>1, <3>1, <3>2
    <3>5. Weak(pending[1])'
      BY <2>1, <3>1 DEF Weak
    <3>6. QED
      BY <3>4, <3>5 DEF PendingExport
  <2>6. ASSUME NEW l \in Libraries, NEW m \in Names, PendingExport(l, m)'
        PROVE  (Open(m) /\ ~ initial)'
    <3>1. m \in DOMAIN link.exports[l] /\ link.exports[l][m] = a
      BY <1>0, <2>1, <2>6 DEF PendingExport
    <3>2. link.attributes[a].name = m /\ link.attributes[a].name = n
      <4>1. ExportOK(link, l, m) /\ ExportOK(link, lib, n)
        BY <1>0, <2>1, <3>1, OfDylib
      <4>2. QED
        BY Zenon, <2>1, <3>1, <4>1 DEF ExportOK
    <3>3. QED
      BY <2>1, <2>2, <2>4, <3>2
  <2>7. /\ todo' \subseteq table'.slots
        /\ pc' = "tentatives" => \A m \in todo' : HasName(table, m)'
    BY <2>1 DEF SearchInv, HasName
  <2>8. pending' # <<>>
    BY <2>1
  <2>9. QED
    BY <2>5, <2>6, <2>7, <2>8 DEF SearchInv
<1>7. ASSUME NEW i \in DOMAIN searchable, LoadMember(i)  PROVE SearchInv'
  <2>1. link.members[searchable[i]][search.name] \in Files
    BY <1>0, <1>7, LinkFields DEF LoadMember, FirstAnswer, Answers, RTypeInv, ResolverTypeOK
  <2>2. QED
    BY <1>0, <1>1, <1>7, <2>1 DEF LoadMember, FirstAnswer, SearchInv, loopVars, tableVars
<1>8. CASE NotFound
  BY <1>0, <1>1, <1>8 DEF NotFound, SearchInv, loopVars, tableVars
<1>9. CASE UNCHANGED resolverVars
  BY <1>9
     DEF resolverVars, tableVars, SearchInv, Open, PendingExport, HasName, Tentative, Proxy,
         Weak
<1>10. QED
  BY <1>2, <1>3, <1>4, <1>5, <1>6, <1>7, <1>8, <1>9 DEF ResolverNext, SearchLibraries

LEMMA InitSearch == ResolverInit => SearchInv
  BY DEF ResolverInit, SearchInv, PendingExport

\* Members are loaded on demand only.
THEOREM MembersOnDemand == ResolverSpec => LoadedOnDemand
<1> DEFINE OnDemand ==
              \A f \in loaded' \ loaded :
                  \E lib \in Libraries : \E n \in DOMAIN link.members[lib] :
                      /\ link.members[lib][n] = f
                      /\ n \in table.slots
                      /\ HasName(table, n) =>
                            \/ Tentative(table.byName[n])
                            \/ Proxy(table.byName[n]) /\ Weak(table.byName[n])
<1>1. RTypeInv /\ FilesInv /\ SearchInv /\ [ResolverNext]_resolverVars
          => RTypeInv' /\ FilesInv' /\ SearchInv'
  BY NextRType, NextFiles, NextSearch
<1>2. RTypeInv /\ SearchInv /\ [ResolverNext]_resolverVars => [OnDemand]_resolverVars
  <2> SUFFICES ASSUME RTypeInv, SearchInv, ResolverNext  PROVE OnDemand
    OBVIOUS
  <2>1. CASE UNCHANGED loaded
    BY <2>1
  <2>2. ASSUME NEW i \in DOMAIN searchable, LoadMember(i)  PROVE OnDemand
    <3>1. /\ searchable[i] \in Libraries
          /\ search.name \in DOMAIN link.members[searchable[i]]
          /\ loaded' = loaded \cup {link.members[searchable[i]][search.name]}
      BY <2>2 DEF LoadMember, FirstAnswer, Answers, RTypeInv, ResolverTypeOK
    <3>2. Open(search.name)
      BY <2>2 DEF LoadMember, FirstAnswer, SearchInv
    <3>3. QED
      BY <3>1, <3>2 DEF Open
  <2>3. QED
    BY <2>1, <2>2
       DEF ResolverNext, ReadFile, DoAtom, EndInput, ResolveUndefines, SearchLibraries,
           StartPass, EndUndefines, EndTentatives, EndPasses, EndLeftovers, OnlyLoops,
           SearchUndefined, SearchTentative, AskDylib, NotFound
<1>3. ResolverSpec => [](RTypeInv /\ FilesInv /\ SearchInv)
  BY InitRType, InitFiles, InitSearch, <1>1, PTL DEF ResolverSpec
<1>4. QED
  BY <1>2, <1>3, PTL DEF ResolverSpec, LoadedOnDemand

------------------------------------------------------------------------------
(***************************************************************************)
(* A dylib is asked for a name once.                                       *)
(***************************************************************************)
\* No name has an absolute and a common definition.
NoAbsoluteCommons ==
    SearchesDylibs =>
        \A l \in Links : \A a, b \in Atoms :
            /\ l.attributes[a].name = l.attributes[b].name
            /\ l.attributes[a].definition = "absolute"
            => l.attributes[b].definition # "tentative"

DylibsInv ==
    /\ \A lib \in Libraries, n \in Names :
          PendingExport(lib, n) => link.exports[lib][n] \notin known
    /\ ~ thrown =>
          /\ \A lib \in Libraries, n \in Names :
                ExportIn(lib, n, known) =>
                    /\ HasName(table, n)
                    /\ SearchesDylibs => ~ Tentative(table.byName[n])
          /\ search # NoSearch /\ search.dylibs =>
                \A lib \in Libraries :
                    ExportIn(lib, search.name, known \cup Range(pending)) =>
                        \E i \in DOMAIN searchable : i < search.next /\ searchable[i] = lib

LEMMA InitDylibs == ResolverInit => DylibsInv
  BY DEF ResolverInit, DylibsInv, PendingExport, ExportIn

\* What the input says of a dylib's atom.
LEMMA ExportFields ==
    ASSUME link \in Links, atom = link.attributes, NEW lib \in Libraries,
           NEW n \in DOMAIN link.exports[lib], NEW a, a = link.exports[lib][n]
    PROVE  /\ a \in Atoms /\ n \in Names
           /\ atom[a].name = n /\ Proxy(a) /\ Named(a) /\ ByName(a)
           /\ atom[a].subordinates = {}
           /\ link.references[a] = {} /\ link.literals[a] = NoAtom
           /\ \A b \in Atoms : atom[b].ordinal = atom[a].ordinal => Proxy(b)
           /\ \A l \in Libraries, m \in Names :
                 m \in DOMAIN link.exports[l] /\ link.exports[l][m] = a => l = lib /\ m = n
<1>1. WellFormed(link) /\ n \in Names /\ a \in Atoms
  BY LinkFields, ResolverAssumption
<1>2. ASSUME NEW l \in Libraries, NEW m \in DOMAIN link.exports[l]
      PROVE  /\ link.attributes[link.exports[l][m]].name = m
             /\ \A o \in Libraries \ {l} :
                   m \in DOMAIN link.exports[o] => link.exports[o][m] # link.exports[l][m]
  BY <1>1, OfDylib DEF ExportOK
<1>3. \A l \in Libraries, m \in Names :
          m \in DOMAIN link.exports[l] /\ link.exports[l][m] = a => l = lib /\ m = n
  BY <1>2
<1>4. QED
  BY <1>1, <1>3, OfDylib DEF ExportOK, Proxy, Named, ByName

\* When dylibs override common symbols, no common symbol takes the slot of anything
\* else.
LEMMA NeverTentativeAgain ==
    ASSUME RTypeInv, NoAbsoluteCommons, SearchesDylibs, NEW a \in Atoms, DoAtom(a), ~ thrown',
           NEW n \in Names, HasName(table, n), ~ Tentative(table.byName[n])
    PROVE  ~ Tentative(table'.byName[n])
<1> DEFINE old == table.byName[n]
<1>1. /\ AtomsOK /\ Consistent(table) /\ link \in Links /\ atom = link.attributes
      /\ old \in Atoms /\ table.byName \in [Names -> Atoms \cup {NoAtom}]
      /\ atom[old].name = n /\ old # NoAtom
  BY TypeSplit DEF RTypeInv, ResolverTypeOK, Consistent, Tables, HasName
<1>2. CASE table'.byName[n] = old
  BY <1>2
<1>3. CASE table'.byName[n] # old
  <2>1. Named(a) /\ ByName(a) /\ atom[a].name = n
    <3>1. Named(a) /\ ByName(a)
      BY <1>3, SlotAfter
    <3>2. atom[a].name # n => [table.byName EXCEPT ![atom[a].name] = a][n] = old
      BY <1>1
    <3>3. CASE table.byName[atom[a].name] = NoAtom
      <4>1. table'.byName = [table.byName EXCEPT ![atom[a].name] = a]
        BY <3>1, <3>3, SlotAfter
      <4>2. QED
        BY <1>3, <3>1, <3>2, <4>1
    <3>4. CASE table.byName[atom[a].name] # NoAtom
      <4>1. PICK new \in PickAtom(a, table.byName[atom[a].name], Treatment) :
                table'.byName = IF new THEN [table.byName EXCEPT ![atom[a].name] = a]
                                ELSE table.byName
        BY <3>1, <3>4, SlotAfter
      <4>2. QED
        BY <1>3, <3>1, <3>2, <4>1
    <3>5. QED
      BY <3>3, <3>4
  <2>2. PICK new \in PickAtom(a, old, Treatment) :
            table'.byName = IF new THEN [table.byName EXCEPT ![n] = a] ELSE table.byName
    BY <1>1, <2>1, SlotAfter
  <2>3. new /\ table'.byName[n] = a
    BY <1>1, <1>3, <2>2
  <2>4. SUFFICES ASSUME Tentative(a)  PROVE FALSE
    BY <2>3
  <2>5. ~ Absolute(old)
    BY <1>1, <2>1, <2>4 DEF NoAbsoluteCommons, Absolute, Tentative
  <2>6. Regular(old) \/ Proxy(old)
    <3>1. atom[old].definition \in Definitions
      BY <1>1 DEF AtomsOK, AtomRecords
    <3>2. QED
      BY <2>5, <3>1 DEF Definitions, Regular, Proxy, Absolute, Tentative
  <2>7. /\ atom[a].definition = "tentative"
        /\ atom[old].definition \in {"regular", "proxy"}
    BY <2>4, <2>6 DEF Tentative, Regular, Proxy
  <2>8. new = FALSE
    BY <2>2, <2>7
       DEF PickAtom, Defeats, DefeatedBy, Regular, Proxy, Tentative, Absolute, PickCommonsMode,
           SearchesDylibs
  <2>9. QED
    BY <2>3, <2>8
<1>4. QED
  BY <1>2, <1>3

\* And a dylib's atom takes the slot of a common one.
LEMMA ExportOverrides ==
    ASSUME RTypeInv, SearchesDylibs, NEW a \in Atoms, DoAtom(a), ~ thrown',
           Proxy(a), Named(a), ByName(a), NEW n \in Names, n = atom[a].name,
           HasName(table, n) => Tentative(table.byName[n]) \/ Proxy(table.byName[n])
    PROVE  HasName(table', n) /\ ~ Tentative(table'.byName[n])
<1> DEFINE old == table.byName[n]
           with == [table.byName EXCEPT ![n] = a]
<1>1. /\ AtomsOK /\ Consistent(table) /\ a # NoAtom
      /\ table.byName \in [Names -> Atoms \cup {NoAtom}]
  BY TypeSplit, AtomFields DEF RTypeInv, Consistent, Tables
<1>2. with[n] = a /\ ~ Tentative(a)
  BY <1>1 DEF Proxy, Tentative
<1>3. CASE old = NoAtom
  <2>1. table'.byName = with
    BY <1>3, SlotAfter
  <2>2. QED
    BY <1>1, <1>2, <2>1 DEF HasName
<1>4. CASE old # NoAtom
  <2>1. PICK new \in PickAtom(a, old, Treatment) :
            table'.byName = IF new THEN with ELSE table.byName
    BY <1>4, SlotAfter
  <2>2. Tentative(old) \/ Proxy(old)
    BY <1>4 DEF HasName
  <2>3. Tentative(old) => new = TRUE
    BY <2>1
       DEF PickAtom, Defeats, DefeatedBy, Regular, Proxy, Tentative, Absolute, PickCommonsMode,
           SearchesDylibs
  <2>4. QED
    BY <1>1, <1>2, <1>4, <2>1, <2>2, <2>3 DEF HasName, Proxy, Tentative
<1>5. QED
  BY <1>3, <1>4

LEMMA DoAtomDylibs ==
    ASSUME RTypeInv, FilesInv, SearchInv, NoAbsoluteCommons, DylibsInv, NEW a \in Atoms,
           DoAtom(a)
    PROVE  DylibsInv'
<1>1. /\ link \in Links /\ link' = link /\ atom' = atom /\ atom = link.attributes
      /\ ~ thrown /\ pending \in Seq(Atoms) /\ pending # <<>>
      /\ a = Head(pending) /\ pending' = Tail(pending) /\ known' = known \cup {a}
      /\ UNCHANGED <<search, searchable>>
      /\ AtomsOK /\ Consistent(table)
  BY InputStays, TypeSplit DEF RTypeInv, ResolverTypeOK, DoAtom, ResolverNext, loopVars
<1>2. \A lib \in Libraries, n \in Names : ~ PendingExport(lib, n)'
  BY NoExportAfter
<1>3. Range(pending) = {a} \cup Range(pending')
  <2>1. /\ pending[1] = a /\ 1 \in DOMAIN pending
        /\ \A i \in DOMAIN pending' : i + 1 \in DOMAIN pending /\ pending'[i] = pending[i + 1]
        /\ \A i \in DOMAIN pending : i = 1 \/ (i - 1 \in DOMAIN pending'
                                               /\ pending[i] = pending'[i - 1])
    BY <1>1
  <2>2. QED
    BY <2>1 DEF Range
<1>4. Grows(table, table')
  BY DoAtomTable
\* An export that is handed out is the one that is pending, and its name is open.
<1>5. ASSUME NEW lib \in Libraries, NEW n \in DOMAIN link.exports[lib],
             a = link.exports[lib][n]
      PROVE  PendingExport(lib, n)
  <2>1. Begun \subseteq Files
    BY <1>1, LinkFields DEF RTypeInv, ResolverTypeOK, Begun, Range
  <2>2. ASSUME NEW f \in Begun, NEW k \in 0 .. Len(link.atoms[f]), PendingOf(f, k)
        PROVE  FALSE
    <3>1. link.atoms[f] \in Seq(Atoms)
      BY <1>1, <2>1, LinkFields
    <3>2. 1 \in 1 .. Len(pending) /\ a = pending[1]
      BY <1>1
    <3>3. a = link.atoms[f][k + 1]
      BY <2>2, <3>2 DEF PendingOf
    <3>4. k + 1 \in DOMAIN link.atoms[f]
      BY <1>1, <2>2, <3>1, <3>2 DEF PendingOf
    <3>5. QED
      BY <1>1, <1>5, <2>1, <3>3, <3>4, FilesHaveNoExports
  <2>3. PICK l \in Libraries, m \in Names : PendingExport(l, m)
    BY <1>1, <2>2 DEF FilesInv
  <2>4. a = link.exports[l][m] /\ m \in DOMAIN link.exports[l]
    BY <1>1, <2>3 DEF PendingExport
  <2>5. l = lib /\ m = n
    <3>1. \A o \in Libraries, x \in Names :
              x \in DOMAIN link.exports[o] /\ link.exports[o][x] = a => o = lib /\ x = n
      BY <1>1, <1>5, ExportFields
    <3>2. QED
      BY <2>4, <3>1
  <2>6. QED
    BY <2>3, <2>5
<1>6. ASSUME ~ thrown', NEW lib \in Libraries, NEW n \in Names, ExportIn(lib, n, known)'
      PROVE  /\ HasName(table', n)
             /\ SearchesDylibs => ~ Tentative(table'.byName[n])
  <2>1. n \in DOMAIN link.exports[lib] /\ link.exports[lib][n] \in known \cup {a}
    BY <1>1, <1>6 DEF ExportIn
  <2>2. CASE link.exports[lib][n] \in known
    <3>1. HasName(table, n) /\ (SearchesDylibs => ~ Tentative(table.byName[n]))
      BY <1>1, <2>1, <2>2 DEF DylibsInv, ExportIn
    <3>2. HasName(table', n)
      BY <1>4, <3>1 DEF Grows, KeepsNames
    <3>3. QED
      BY <1>6, <3>1, <3>2, NeverTentativeAgain
  <2>3. CASE link.exports[lib][n] = a
    <3>1. PendingExport(lib, n)
      BY <1>5, <2>1, <2>3
    <3>2. Open(n)
      BY <1>1, <3>1 DEF SearchInv
    <3>3. atom[a].name = n /\ Proxy(a) /\ Named(a) /\ ByName(a)
      BY <1>1, <2>1, <2>3, ExportFields
    <3>4. HasName(table', n)
      BY <1>6, <3>3, DoAtomTable
    <3>5. SearchesDylibs => ~ Tentative(table'.byName[n])
      BY <1>6, <3>2, <3>3, ExportOverrides DEF Open
    <3>6. QED
      BY <3>4, <3>5
  <2>4. QED
    BY <2>1, <2>2, <2>3
<1>7. \A lib \in Libraries, n \in Names : HasName(table, n)' = HasName(table', n)
  BY DEF HasName
<1>8. \A b : Tentative(b)' <=> Tentative(b)
  BY <1>1 DEF Tentative
<1>9. ~ thrown' /\ search' # NoSearch /\ search'.dylibs =>
          \A lib \in Libraries :
              ExportIn(lib, search.name, known \cup Range(pending))' =>
                  \E i \in DOMAIN searchable' : i < search'.next /\ searchable'[i] = lib
  <2>1. known' \cup Range(pending') = known \cup Range(pending)
    BY <1>1, <1>3
  <2>2. QED
    BY <1>1, <2>1 DEF DylibsInv, ExportIn
<1>10. ~ thrown' => \A lib \in Libraries, n \in Names :
          ExportIn(lib, n, known)' =>
              /\ HasName(table, n)'
              /\ SearchesDylibs => ~ Tentative(table.byName[n])'
  <2> SUFFICES ASSUME ~ thrown', NEW lib \in Libraries, NEW n \in Names,
                      ExportIn(lib, n, known)'
               PROVE  /\ HasName(table, n)'
                      /\ SearchesDylibs => ~ Tentative(table.byName[n])'
    OBVIOUS
  <2>1. HasName(table', n) /\ (SearchesDylibs => ~ Tentative(table'.byName[n]))
    BY <1>6
  <2>2. QED
    BY <1>1, <2>1 DEF HasName, Tentative
<1>11. QED
  BY <1>2, <1>9, <1>10 DEF DylibsInv

LEMMA NextDylibs ==
    ASSUME RTypeInv, FilesInv, SearchInv, NoAbsoluteCommons, DylibsInv,
           [ResolverNext]_resolverVars
    PROVE  DylibsInv'
<1>0. /\ link \in Links /\ link' = link /\ atom' = atom /\ atom = link.attributes
      /\ searchable \in Seq(Libraries) /\ IsInjective(searchable)
      /\ search # NoSearch => search \in Searches /\ search.name \in Names
      /\ AtomsOK /\ Consistent(table)
  BY InputStays, TypeSplit DEF RTypeInv, ResolverTypeOK, FilesInv, Searches
<1>1. ASSUME UNCHANGED <<known, thrown>>, table'.byName = table.byName, search' = NoSearch,
             pending' = pending \/ \E f \in Files : pending' = link.atoms[f]
      PROVE  DylibsInv'
  <2>1. \A lib \in Libraries, n \in Names :
            PendingExport(lib, n)' => link'.exports[lib][n] \notin known'
    <3> SUFFICES ASSUME NEW lib \in Libraries, NEW n \in Names, PendingExport(lib, n)'
                 PROVE  link.exports[lib][n] \notin known
      BY <1>0, <1>1
    <3>1. pending' = pending
      BY <1>0, <1>1, NoExportWhenBegun
    <3>2. QED
      BY <1>0, <3>1 DEF PendingExport, DylibsInv
  <2>2. \A lib \in Libraries, n \in Names : ExportIn(lib, n, known)' = ExportIn(lib, n, known)
    BY <1>0, <1>1 DEF ExportIn
  <2>3. QED
    BY <1>0, <1>1, <2>1, <2>2 DEF DylibsInv, HasName, Tentative
<1>2. CASE ReadFile
  <2>1. Head(unread) \in Files
    BY <1>2 DEF ReadFile, RTypeInv, ResolverTypeOK
  <2>2. QED
    BY <1>1, <1>2, <2>1 DEF ReadFile, Idle, tableVars
<1>3. ASSUME NEW a \in Atoms, DoAtom(a)  PROVE DylibsInv'
  BY <1>3, DoAtomDylibs
<1>4. CASE EndInput
  <2>1. table'.byName = table.byName
    BY <1>0, <1>4 DEF EndInput, Consistent, Tables
  <2>2. QED
    BY <1>1, <1>4, <2>1 DEF EndInput, Idle
<1>5. CASE ResolveUndefines
  <2>1. ASSUME NEW n \in Names, Idle, UNCHANGED <<tableVars, pending, known, searchable>>,
               \/ ~ HasName(table, n) /\ search' = Searching(n, TRUE, FALSE)
               \/ /\ HasName(table, n) /\ Tentative(table.byName[n])
                  /\ search' = Searching(n, SearchesDylibs, TRUE)
        PROVE  DylibsInv'
    <3>1. /\ pending' = <<>> /\ ~ thrown /\ Range(pending) = {} /\ search'.name = n
          /\ search'.dylibs => ~ HasName(table, n)
                                   \/ (SearchesDylibs /\ Tentative(table.byName[n]))
      BY <2>1 DEF Idle, Range, Searching
    <3>2. search'.dylibs => \A lib \in Libraries : ~ ExportIn(lib, n, known)
      BY <2>1, <3>1 DEF DylibsInv
    <3>3. \A lib \in Libraries : ExportIn(lib, search.name, known \cup Range(pending))'
                                     => ExportIn(lib, n, known)
      BY <1>0, <2>1, <3>1 DEF ExportIn, Idle
    <3>4. \A lib \in Libraries, m \in Names :
              /\ ~ PendingExport(lib, m)'
              /\ ExportIn(lib, m, known)' => ExportIn(lib, m, known)
      BY <1>0, <2>1, <3>1 DEF PendingExport, ExportIn
    <3>5. \A m \in Names : /\ HasName(table, m) => HasName(table, m)'
                           /\ ~ Tentative(table.byName[m]) => ~ Tentative(table.byName[m])'
      BY <2>1 DEF tableVars, HasName, Tentative
    <3>6. QED
      BY <3>1, <3>2, <3>3, <3>4, <3>5 DEF DylibsInv
  <2>2. CASE search' = NoSearch
    BY <1>1, <1>5, <2>2
       DEF ResolveUndefines, StartPass, EndUndefines, EndTentatives, EndPasses, EndLeftovers,
           OnlyLoops, SearchUndefined, SearchTentative, tableVars
  <2>3. ASSUME NEW n \in Names, SearchUndefined(n), search' # NoSearch  PROVE DylibsInv'
    BY <2>1, <2>3 DEF SearchUndefined, StillUndefined
  <2>4. ASSUME NEW n \in Names, SearchTentative(n), search' # NoSearch  PROVE DylibsInv'
    <3>1. HasName(table, n)
      BY <2>4 DEF SearchTentative, SearchInv, Idle
    <3>2. QED
      BY <2>1, <2>4, <3>1 DEF SearchTentative
  <2>5. StartPass \/ EndUndefines \/ EndTentatives \/ EndPasses \/ EndLeftovers
            => search' = NoSearch
    BY DEF StartPass, EndUndefines, EndTentatives, EndPasses, EndLeftovers, OnlyLoops, Idle
  <2>6. QED
    BY <1>5, <2>2, <2>3, <2>4, <2>5 DEF ResolveUndefines
<1>6. ASSUME NEW i \in DOMAIN searchable, AskDylib(i)  PROVE DylibsInv'
  <2>1. PICK n \in Names, lib \in Libraries, a \in Atoms :
           /\ n = search.name /\ lib = searchable[i] /\ n \in DOMAIN link.exports[lib]
           /\ a = link.exports[lib][n]
    BY <1>0, <1>6, LinkFields DEF AskDylib, FirstAnswer, Answers
  <2>2. /\ pending = <<>> /\ pending' = <<a>> /\ ~ thrown /\ search.dylibs
        /\ search # NoSearch /\ search.next <= i /\ i \in Nat /\ search.next \in Nat
        /\ search' = IF Weak(a) THEN [search EXCEPT !.next = i + 1] ELSE NoSearch
        /\ UNCHANGED <<table, thrown, known, searchable>>
    BY <1>0, <1>6, <2>1
       DEF AskDylib, FirstAnswer, Answers, GoesOnAfter, Searches, tableVars
  <2>3. Range(pending) = {} /\ Range(pending') = {a}
    BY <2>2 DEF Range
  <2>4. a \notin known
    <3>1. SUFFICES ASSUME a \in known  PROVE FALSE
      OBVIOUS
    <3>2. ExportIn(lib, search.name, known \cup Range(pending))
      BY <2>1, <3>1 DEF ExportIn
    <3>3. PICK j \in DOMAIN searchable : j < search.next /\ searchable[j] = lib
      BY <2>2, <3>2 DEF DylibsInv
    <3>4. j = i
      BY <1>0, <2>1, <3>3 DEF IsInjective
    <3>5. QED
      BY <2>2, <3>3, <3>4
  <2>5. ASSUME NEW l \in Libraries, NEW m \in Names, PendingExport(l, m)'
        PROVE  link'.exports[l][m] \notin known'
    BY <1>0, <2>2, <2>4, <2>5 DEF PendingExport
  <2>6. ASSUME search' # NoSearch, NEW l \in Libraries,
               ExportIn(l, search.name, known \cup Range(pending))'
        PROVE  \E j \in DOMAIN searchable' : j < search'.next /\ searchable'[j] = l
    <3>1. search'.name = n /\ search'.next = i + 1
      BY <1>0, <2>1, <2>2, <2>6 DEF Searches
    <3>2. n \in DOMAIN link.exports[l] /\ link.exports[l][n] \in known \cup {a}
      BY <1>0, <2>2, <2>3, <2>6, <3>1 DEF ExportIn
    <3>3. CASE link.exports[l][n] \in known
      <4>1. ExportIn(l, search.name, known \cup Range(pending))
        BY <2>1, <3>2, <3>3 DEF ExportIn
      <4>2. PICK j \in DOMAIN searchable : j < search.next /\ searchable[j] = l
        BY <2>2, <4>1 DEF DylibsInv
      <4>3. j < i + 1
        BY <1>0, <2>2, <4>2
      <4>4. QED
        BY <2>2, <3>1, <4>2, <4>3
    <3>4. CASE link.exports[l][n] = a
      <4>1. l = lib
        BY <1>0, <2>1, <3>2, <3>4, ExportFields
      <4>2. QED
        BY <2>1, <2>2, <3>1, <4>1
    <3>5. QED
      BY <3>2, <3>3, <3>4
  <2>7. \A l \in Libraries, m \in Names : ExportIn(l, m, known)' = ExportIn(l, m, known)
    BY <1>0, <2>2 DEF ExportIn
  <2>8. \A m \in Names : /\ HasName(table, m) => HasName(table, m)'
                         /\ ~ Tentative(table.byName[m]) => ~ Tentative(table.byName[m])'
    BY <1>0, <2>2 DEF HasName, Tentative
  <2>9. ASSUME NEW l \in Libraries, NEW m \in Names, ExportIn(l, m, known)'
        PROVE  HasName(table, m)' /\ (SearchesDylibs => ~ Tentative(table.byName[m])')
    BY <2>2, <2>7, <2>8, <2>9 DEF DylibsInv
  <2>10. QED
    BY <2>5, <2>6, <2>9 DEF DylibsInv
<1>7. ASSUME NEW i \in DOMAIN searchable, LoadMember(i)  PROVE DylibsInv'
  <2>1. link.members[searchable[i]][search.name] \in Files
    BY <1>0, <1>7, LinkFields DEF LoadMember, FirstAnswer, Answers
  <2>2. QED
    BY <1>1, <1>7, <2>1 DEF LoadMember, tableVars
<1>8. CASE NotFound
  BY <1>1, <1>8 DEF NotFound, tableVars
<1>9. CASE UNCHANGED resolverVars
  <2>1. UNCHANGED <<link, pending, known, table, thrown, atom, search, searchable>>
    BY <1>9 DEF resolverVars, tableVars
  <2>2. \A lib \in Libraries, n \in Names :
            PendingExport(lib, n)' = PendingExport(lib, n)
    BY <2>1 DEF PendingExport
  <2>3. QED
    BY <2>1, <2>2 DEF DylibsInv, ExportIn, HasName, Tentative
<1>10. QED
  BY <1>2, <1>3, <1>4, <1>5, <1>6, <1>7, <1>8, <1>9 DEF ResolverNext, SearchLibraries

\* What is pending was not handed out before.
LEMMA PendingIsNew ==
    ASSUME RTypeInv, FilesInv, DylibsInv
    PROVE  Range(pending) \cap known = {} /\ IsInjective(pending)
<1>1. /\ link \in Links /\ pending \in Seq(Atoms)
      /\ WellFormed(link) /\ Begun \subseteq Files
  BY LinkFields, ResolverAssumption DEF RTypeInv, ResolverTypeOK, Begun, Range
<1>2. CASE pending = <<>>
  BY <1>2 DEF Range, IsInjective
<1>3. ASSUME NEW f \in Begun, NEW k \in 0 .. Len(link.atoms[f]), PendingOf(f, k)
      PROVE  Range(pending) \cap known = {} /\ IsInjective(pending)
  <2> DEFINE all == link.atoms[f]
  <2>1. all \in Seq(Atoms) /\ IsInjective(all)
    BY <1>1, LinkFields, FilesApart
  <2>2. /\ Len(pending) = Len(all) - k
        /\ \A i \in 1 .. Len(pending) : pending[i] = all[k + i]
        /\ \A i \in k + 1 .. Len(all) : all[i] \notin known
    BY <1>3 DEF PendingOf
  <2> HIDE DEF all
  <2>3. \A i \in 1 .. Len(pending) : k + i \in k + 1 .. Len(all) /\ k + i \in 1 .. Len(all)
    BY <1>1, <2>1, <2>2
  <2>4. Range(pending) \cap known = {}
    BY <1>1, <2>2, <2>3 DEF Range
  <2>5. \A i, j \in 1 .. Len(pending) : pending[i] = pending[j] => k + i = k + j
    <3>1. \A i, j \in 1 .. Len(all) : all[i] = all[j] => i = j
      BY <2>1 DEF IsInjective
    <3>2. QED
      BY <2>2, <2>3, <3>1
  <2>6. IsInjective(pending)
    BY <1>1, <2>5 DEF IsInjective
  <2>7. QED
    BY <2>4, <2>6
<1>4. ASSUME NEW lib \in Libraries, NEW n \in Names, PendingExport(lib, n)
      PROVE  Range(pending) \cap known = {} /\ IsInjective(pending)
  <2>1. pending = <<link.exports[lib][n]>> /\ link.exports[lib][n] \notin known
    BY <1>4 DEF PendingExport, DylibsInv
  <2>2. QED
    BY <2>1 DEF Range, IsInjective
<1>5. QED
  BY <1>2, <1>3, <1>4 DEF FilesInv

\* The steps of the four invariants together.
RInv == RTypeInv /\ FilesInv /\ SearchInv /\ DylibsInv

LEMMA InitR == ResolverInit => RInv
BY InitRType, InitFiles, InitSearch, InitDylibs DEF RInv

LEMMA NextR ==
    ASSUME NoAbsoluteCommons, RInv, [ResolverNext]_resolverVars
    PROVE  RInv'
BY NextRType, NextFiles, NextSearch, NextDylibs DEF RInv

\* No atom of a file or a dylib is handed to the resolver twice, however often its
\* file is listed and its name is searched.
THEOREM AtomsOnce == NoAbsoluteCommons => (ResolverSpec => []HandedOutOnce)
<1> SUFFICES ASSUME NoAbsoluteCommons  PROVE ResolverSpec => []HandedOutOnce
  OBVIOUS
<1>1. RInv /\ [ResolverNext]_resolverVars => RInv'
  BY NextR
<1>2. RInv => HandedOutOnce
  BY PendingIsNew DEF RInv, RTypeInv, HandedOutOnce
<1>3. QED
  BY InitR, <1>1, <1>2, PTL DEF ResolverSpec

------------------------------------------------------------------------------
(***************************************************************************)
(* The resolver implements the use of the table that SymbolTable assumes.  *)
(***************************************************************************)
\* A file's atoms are added before those of the next one, start atoms first.
LEMMA FileByFile ==
    ASSUME RTypeInv, FilesInv, DylibsInv, NEW a \in Atoms, pending # <<>>, a = Head(pending)
    PROVE  FileOrder(a)
<1>1. /\ link \in Links /\ atom = link.attributes /\ pending \in Seq(Atoms)
      /\ WellFormed(link) /\ Begun \subseteq Files /\ added \subseteq known
      /\ known \subseteq Atoms
  BY LinkFields, ResolverAssumption DEF RTypeInv, ResolverTypeOK, Begun, Range
<1>2. 1 \in 1 .. Len(pending) /\ a = pending[1] /\ DOMAIN pending = 1 .. Len(pending)
  BY <1>1
\* A file whose atoms are pending, and one all of whose atoms have an ordinal.
<1>3. ASSUME NEW f \in Begun, NEW k \in 0 .. Len(link.atoms[f]), PendingOf(f, k)
      PROVE  /\ k + 1 \in DOMAIN link.atoms[f] /\ a = link.atoms[f][k + 1]
             /\ Range(pending) \subseteq Range(link.atoms[f])
  <2>1. link.atoms[f] \in Seq(Atoms)
    BY <1>1, LinkFields
  <2>2. \A i \in 1 .. Len(pending) :
            k + i \in DOMAIN link.atoms[f] /\ pending[i] = link.atoms[f][k + i]
    BY <1>1, <1>3, <2>1 DEF PendingOf
  <2>3. QED
    BY <1>2, <2>2 DEF Range
<1>4. ASSUME NEW f \in Files, NEW b \in Range(link.atoms[f]), NEW c \in Atoms
      PROVE  atom[c].ordinal = atom[b].ordinal <=> c \in Range(link.atoms[f])
  <2>1. PICK i \in DOMAIN link.atoms[f] : b = link.atoms[f][i]
    BY DEF Range
  <2>2. FileAtomOK(link, f, i)
    BY <1>1, OfFile
  <2>3. link.attributes[c].ordinal = link.attributes[b].ordinal <=> c \in Range(link.atoms[f])
    BY Zenon, <2>1, <2>2 DEF FileAtomOK
  <2>4. QED
    BY <1>1, <2>3
<1>5. ASSUME NEW b \in atom[a].subordinates, Named(b)  PROVE b \in added
  <2>1. ASSUME NEW lib \in Libraries, NEW n \in Names, PendingExport(lib, n)
        PROVE  FALSE
    <3>1. n \in DOMAIN link.exports[lib] /\ a = link.exports[lib][n]
      BY <1>2, <2>1 DEF PendingExport
    <3>2. atom[a].subordinates = {}
      BY <1>1, <3>1, OfDylib DEF ExportOK
    <3>3. QED
      BY <1>5, <3>2
  <2>2. ASSUME NEW f \in Begun, NEW k \in 0 .. Len(link.atoms[f]), PendingOf(f, k)
        PROVE  b \in added
    <3>1. k + 1 \in DOMAIN link.atoms[f] /\ a = link.atoms[f][k + 1]
      BY <1>3, <2>2
    <3>2. PICK j \in 1 .. (k + 1) - 1 : link.atoms[f][j] = b
      <4>1. FileAtomOK(link, f, k + 1)
        BY <1>1, <3>1, OfFile
      <4>2. link.attributes[b].scope # "translationUnit" /\ b \in link.attributes[a].subordinates
        BY <1>1, <1>5 DEF Named
      <4>3. QED
        BY Zenon, <3>1, <4>1, <4>2 DEF FileAtomOK
    <3>3. j \in 1 .. k
      BY <3>2
    <3>4. b \in known
      BY <2>2, <3>2, <3>3 DEF PendingOf
    <3>5. QED
      BY <1>5, <3>4 DEF FilesInv
  <2>3. QED
    BY <2>1, <2>2 DEF FilesInv
<1>6. ASSUME NEW b \in added, NEW c \in Atoms \ added, Named(c), ~ Proxy(c),
             atom[b].ordinal = atom[c].ordinal
      PROVE  atom[a].ordinal = atom[b].ordinal
  <2>1. b \in known /\ b \in Atoms /\ c \notin known /\ Sourced(b)
    BY <1>1, <1>6 DEF FilesInv
  <2>2. ASSUME NEW lib \in Libraries, NEW n \in Names, ExportIn(lib, n, {b})
        PROVE  FALSE
    <3>1. \A d \in Atoms : atom[d].ordinal = atom[b].ordinal => Proxy(d)
      BY <1>1, <2>2, ExportFields DEF ExportIn
    <3>2. QED
      BY <1>6, <3>1
  <2>3. PICK f \in Files : b \in Range(link.atoms[f])
    BY <2>1, <2>2 DEF Sourced
  <2>4. c \in Range(link.atoms[f])
    BY <1>4, <1>6, <2>3
  <2>5. f \in Begun
    BY <2>1, <2>3 DEF FilesInv
  <2>6. c \in Range(pending)
    BY <2>1, <2>4, <2>5 DEF FilesInv
  <2>7. ASSUME NEW lib \in Libraries, NEW n \in Names, PendingExport(lib, n)
        PROVE  FALSE
    <3>1. n \in DOMAIN link.exports[lib] /\ c = link.exports[lib][n]
      BY <2>6, <2>7 DEF PendingExport, Range
    <3>2. QED
      BY <1>1, <1>6, <3>1, ExportFields
  <2>8. ASSUME NEW g \in Begun, NEW k \in 0 .. Len(link.atoms[g]), PendingOf(g, k)
        PROVE  atom[a].ordinal = atom[b].ordinal
    <3>1. c \in Range(link.atoms[g]) /\ a \in Range(link.atoms[g])
      BY <1>3, <2>6, <2>8 DEF Range
    <3>2. g = f
      BY <1>1, <2>4, <3>1, FilesApart
    <3>3. QED
      BY <1>4, <2>3, <3>1, <3>2
  <2>9. QED
    BY <2>7, <2>8 DEF FilesInv
<1>7. QED
  BY <1>5, <1>6 DEF FileOrder

\* A step of the resolver is one of the table, or leaves it alone.
LEMMA TableStep ==
    ASSUME RInv, [ResolverNext]_resolverVars
    PROVE  [TableNext]_tableVars
<1>0. /\ link \in Links /\ atom' = atom /\ atom = link.attributes
      /\ WellFormed(link) /\ pending \in Seq(Atoms) /\ added \subseteq known
      /\ initial <=> pc = "input"
  BY InputStays, ResolverAssumption DEF RInv, RTypeInv, ResolverTypeOK
<1>1. ASSUME NEW a \in Atoms, DoAtom(a)  PROVE TableNext
  <2>1. /\ ~ thrown /\ pending # <<>> /\ a = Head(pending)
        /\ added' = IF Named(a) THEN added \cup {a} ELSE added
        /\ initial' = initial
    BY <1>1 DEF DoAtom
  <2>2. link.references[a] \in SUBSET Names /\ link.literals[a] \in Literals
    BY <1>0, <1>1, LinkFields DEF DoAtom, RInv, RTypeInv
  <2>3. CASE Named(a)
    <3>1. a \in Range(pending)
      BY <1>0, <2>1 DEF Range
    <3>2. a \notin added
      BY <1>0, <3>1, PendingIsNew DEF RInv
    <3>3. FileOrder(a)
      BY <2>1, FileByFile DEF RInv
    <3>4. Wanted(a)
      <4>1. ASSUME NEW f \in Begun, NEW k \in 0 .. Len(link.atoms[f]), PendingOf(f, k)
            PROVE  ~ Proxy(a)
        <5>1. f \in Files /\ link.atoms[f] \in Seq(Atoms)
          BY <1>0, LinkFields DEF RInv, RTypeInv, ResolverTypeOK, Begun, Range
        <5>2. 1 \in 1 .. Len(pending) /\ a = pending[1]
          BY <1>0, <2>1
        <5>3. k + 1 \in DOMAIN link.atoms[f] /\ a = link.atoms[f][k + 1]
          BY <4>1, <5>1, <5>2 DEF PendingOf
        <5>4. QED
          BY <1>0, <5>1, <5>3, OfFile DEF FileAtomOK, Proxy
      <4>2. ASSUME NEW lib \in Libraries, NEW n \in Names, PendingExport(lib, n)
            PROVE  Wanted(a)
        <5>1. Open(n) /\ ~ initial
          BY <2>1, <4>2 DEF RInv, SearchInv
        <5>2. n \in DOMAIN link.exports[lib] /\ a = link.exports[lib][n]
          BY <2>1, <4>2 DEF PendingExport
        <5>3. atom[a].name = n
          BY <1>0, <5>2, ExportFields
        <5>4. QED
          BY <5>1, <5>3 DEF Wanted, Open, HasName
      <4>3. QED
        BY <2>1, <4>1, <4>2, SMTT(40) DEF RInv, FilesInv, Wanted
    <3>5. IF AddThrows(table, a)
          THEN thrown' = TRUE /\ UNCHANGED table
          ELSE /\ \E t \in AddTo(table, a, Treatment) :
                     \E names \in SUBSET Names, literal \in Literals :
                         table' = Referring(t, names, literal)
               /\ UNCHANGED thrown
      BY <1>1, <2>2, <2>3 DEF DoAtom
    <3>6. Add(a)
      BY <1>0, <2>1, <2>3, <3>2, <3>3, <3>4, <3>5 DEF Add
    <3>7. QED
      BY <3>6 DEF TableNext
  <2>4. CASE ~ Named(a)
    <3>1. table' = Referring(table, link.references[a], link.literals[a]) /\ thrown' = thrown
      BY <1>1, <2>4 DEF DoAtom
    <3>2. AddStatic
      BY <1>0, <2>1, <2>2, <2>4, <3>1 DEF AddStatic
    <3>3. QED
      BY <3>2 DEF TableNext
  <2>5. QED
    BY <2>3, <2>4
<1>2. CASE EndInput
  <2>1. /\ ~ thrown /\ initial /\ initial' = FALSE /\ UNCHANGED <<added, thrown>>
        /\ table' = [table EXCEPT !.slots = @ \cup link.undefines]
    BY <1>0, <1>2 DEF EndInput, Idle
  <2>2. link.undefines \in SUBSET Names
    BY <1>0, LinkFields
  <2>3. table' = Referring(table, link.undefines, NoAtom)
    BY <2>1 DEF Referring
  <2>4. CompleteInitialObjectFiles
    BY <1>0, <2>1, <2>2, <2>3, SMTT(40) DEF CompleteInitialObjectFiles
  <2>5. QED
    BY <2>4 DEF TableNext
<1>3. CASE ReadFile \/ ResolveUndefines \/ SearchLibraries \/ UNCHANGED resolverVars
  BY <1>3
     DEF ReadFile, ResolveUndefines, StartPass, EndUndefines, EndTentatives, EndPasses,
         EndLeftovers, OnlyLoops, SearchUndefined, SearchTentative, SearchLibraries,
         AskDylib, LoadMember, NotFound, resolverVars
<1>4. QED
  BY <1>1, <1>2, <1>3 DEF ResolverNext

\* The resolver uses the table as SymbolTable has it.
THEOREM TableImplemented == NoAbsoluteCommons => (ResolverSpec => ImplementsTable)
<1> SUFFICES ASSUME NoAbsoluteCommons  PROVE ResolverSpec => ImplementsTable
  OBVIOUS
<1>1. RInv /\ [ResolverNext]_resolverVars => RInv'
  BY NextR
<1>2. RInv /\ [ResolverNext]_resolverVars => [TableNext]_tableVars
  BY TableStep
<1>3. ResolverInit => TableInit
  BY LinkFields DEF ResolverInit, TableInit
<1>4. QED
  BY InitR, <1>1, <1>2, <1>3, PTL DEF ResolverSpec, ImplementsTable, TableSpec

\* So whatever order the command line and the searches bring the definitions in, the
\* table keeps what its module proves.
COROLLARY ResolvedTable ==
    NoAbsoluteCommons =>
        (ResolverSpec => /\ [](WinnerIsBest /\ DuplicatesReported /\ ContentAligned)
                         /\ PrivateUnwind => []KeptIffSlotted)
<1>1. QED
  BY TableImplemented, BestWins, ClashesReported, AlignmentMet, LosersDropped, PTL
     DEF ImplementsTable

------------------------------------------------------------------------------
(***************************************************************************)
(* Nothing is missed.                                                      *)
(***************************************************************************)
\* pending defines n.
ComesUp(n) ==
    \E i \in DOMAIN pending :
        atom[pending[i]].name = n /\ Named(pending[i]) /\ ByName(pending[i])

\* An undefined name is still to be searched, is being searched or defined, or no
\* library has it.
Asked(n) ==
    \/ pc = "undefines" /\ n \in todo
    \/ search = Searching(n, TRUE, FALSE) /\ pending = <<>>
    \/ ComesUp(n)
    \/ \A lib \in Range(searchable) : ~ Answers(lib, Searching(n, TRUE, FALSE))

PassInv ==
    ~ thrown =>
        /\ genCount <= UpdateCount(table)
        /\ pc = "input" => genCount = -1
        /\ pc = "leftovers" => autolinked # {}
        /\ pc = "resolved" =>
              pending = <<>> /\ search = NoSearch /\ (autolinked = {} => Settled)
        /\ Settled /\ autolinked = {} /\ pc # "leftovers" =>
              \A n \in Undefines(table) : Asked(n)

\* A table that grows and has as many slots as before has the same ones.
LEMMA CountGrows ==
    ASSUME NEW t, NEW u, Consistent(t), Consistent(u), Grows(t, u)
    PROVE  /\ UpdateCount(t) \in Nat /\ UpdateCount(u) \in Nat
           /\ UpdateCount(t) <= UpdateCount(u)
           /\ UpdateCount(t) = UpdateCount(u) => t.slots = u.slots
<1> DEFINE Contained(v) == {c \in Contents : v.byContent[c] # NoAtom}
<1>1. /\ t.slots \in SUBSET u.slots /\ u.slots \in SUBSET Names
      /\ Contained(t) \in SUBSET Contained(u) /\ Contained(u) \in SUBSET Contents
  BY DEF Grows, Raises, Consistent, Tables
<1>2. IsFiniteSet(u.slots) /\ IsFiniteSet(Contained(u))
  BY <1>1, FS_Subset, ResolverAssumption
<1>3. /\ IsFiniteSet(t.slots) /\ Cardinality(t.slots) <= Cardinality(u.slots)
      /\ Cardinality(u.slots) = Cardinality(t.slots) => u.slots = t.slots
  BY <1>1, <1>2, FS_Subset
<1>4. IsFiniteSet(Contained(t)) /\ Cardinality(Contained(t)) <= Cardinality(Contained(u))
  BY <1>1, <1>2, FS_Subset
<1>5. /\ Cardinality(t.slots) \in Nat /\ Cardinality(u.slots) \in Nat
      /\ Cardinality(Contained(t)) \in Nat /\ Cardinality(Contained(u)) \in Nat
  BY <1>2, <1>3, <1>4, FS_CardinalityType
<1>6. /\ UpdateCount(t) = Cardinality(t.slots) + Cardinality(Contained(t))
      /\ UpdateCount(u) = Cardinality(u.slots) + Cardinality(Contained(u))
  BY DEF UpdateCount
<1> HIDE DEF Contained
<1>7. QED
  BY <1>3, <1>4, <1>5, <1>6

\* When the loops have seen all names there were, no library has one left.
LEMMA AllAsked ==
    ASSUME RTypeInv, pending = <<>>, search = NoSearch, NEW n \in Names, Asked(n),
           pc = "undefines" => n \notin todo
    PROVE  \A lib \in Range(searchable) : ~ Answers(lib, Searching(n, TRUE, FALSE))
<1>1. Searching(n, TRUE, FALSE) # NoSearch
  <2>1. Searching(n, TRUE, FALSE) \in
            [name : Names, next : Nat, dylibs : BOOLEAN, dataOnly : BOOLEAN]
    BY DEF Searching
  <2>2. QED
    BY <2>1, ResolverAssumption
<1>2. ~ ComesUp(n)
  BY DEF ComesUp
<1>3. QED
  BY <1>1, <1>2 DEF Asked

\* An atom that is handed out defines its own name; the other ones stay.
LEMMA AskedWhileReading ==
    ASSUME RTypeInv, NEW a \in Atoms, DoAtom(a), ~ thrown', NEW n \in Names, Asked(n),
           ~ HasName(table', n)
    PROVE  Asked(n)'
<1>1. /\ pending \in Seq(Atoms) /\ pending # <<>> /\ a = Head(pending)
      /\ pending' = Tail(pending) /\ link' = link /\ atom' = atom
      /\ UNCHANGED <<pc, todo, loaded, searchable, search>>
  BY DEF DoAtom, RTypeInv, ResolverTypeOK, loopVars, inputVars
<1>2. Named(a) /\ ByName(a) => HasName(table', atom[a].name)
  BY DoAtomTable
<1>3. ASSUME ComesUp(n)  PROVE ComesUp(n)'
  <2>1. PICK i \in DOMAIN pending :
           atom[pending[i]].name = n /\ Named(pending[i]) /\ ByName(pending[i])
    BY <1>3 DEF ComesUp
  <2>2. pending[i] # a
    BY <1>2, <2>1
  <2>3. i - 1 \in DOMAIN pending' /\ pending'[i - 1] = pending[i]
    <3>1. i # 1
      BY <1>1, <2>2
    <3>2. QED
      BY <1>1, <3>1
  <2>4. QED
    BY <1>1, <2>1, <2>3 DEF ComesUp, Named, ByName
<1>4. QED
  BY <1>1, <1>3 DEF Asked, Answers, IsData

\* A search ends with an atom of the name, or with no library left that has one.
LEMMA AskedWhileSearching ==
    ASSUME RTypeInv, SearchLibraries, searchable' = searchable, NEW m, Asked(m)
    PROVE  Asked(m)'
<1>0. /\ link \in Links /\ link' = link /\ atom' = atom /\ atom = link.attributes
      /\ WellFormed(link) /\ searchable \in Seq(Libraries)
      /\ search \in Searches /\ search # NoSearch /\ pending = <<>>
      /\ UNCHANGED <<pc, todo>>
  BY Zenon, InputStays, ResolverAssumption
     DEF RTypeInv, ResolverTypeOK, ResolverNext, SearchLibraries, AskDylib, LoadMember,
         NotFound, FirstAnswer, loopVars
<1>1. ~ ComesUp(m)
  BY <1>0 DEF ComesUp
<1>2. ASSUME NEW i \in DOMAIN searchable, AskDylib(i)  PROVE Asked(m)'
  <2>1. PICK n \in Names, lib \in Libraries, a \in Atoms :
           /\ n = search.name /\ lib = searchable[i] /\ n \in DOMAIN link.exports[lib]
           /\ a = link.exports[lib][n]
    BY <1>0, <1>2, LinkFields DEF AskDylib, FirstAnswer, Answers
  <2>2. pending' = <<a>> /\ UNCHANGED loaded
    BY <1>2, <2>1 DEF AskDylib
  <2>3. CASE search = Searching(m, TRUE, FALSE)
    <3>1. m = n
      BY <2>1, <2>3 DEF Searching
    <3>2. atom[a].name = n /\ Named(a) /\ ByName(a)
      BY <1>0, <2>1, ExportFields
    <3>3. ComesUp(m)'
      BY <1>0, <2>2, <3>1, <3>2, SMTT(40) DEF ComesUp, Named, ByName
    <3>4. QED
      BY <3>3 DEF Asked
  <2>4. CASE search # Searching(m, TRUE, FALSE)
    BY <1>0, <1>1, <2>2, <2>4 DEF Asked, Answers, IsData
  <2>5. QED
    BY <2>3, <2>4
<1>3. ASSUME NEW i \in DOMAIN searchable, LoadMember(i)  PROVE Asked(m)'
  <2>1. PICK n \in Names, lib \in Libraries, f \in Files :
           /\ n = search.name /\ lib = searchable[i] /\ n \in DOMAIN link.members[lib]
           /\ f = link.members[lib][n]
    <3>1. /\ searchable[i] \in Libraries
          /\ search.name \in DOMAIN link.members[searchable[i]]
      BY <1>0, <1>3 DEF LoadMember, FirstAnswer, Answers
    <3>2. /\ search.name \in Names
          /\ link.members[searchable[i]][search.name] \in Files
      BY <1>0, <3>1, LinkFields
    <3>3. QED
      BY <3>1, <3>2
  <2>2. pending' = link.atoms[f] /\ loaded' = loaded \cup {f}
    BY <1>3, <2>1 DEF LoadMember
  <2>3. CASE search = Searching(m, TRUE, FALSE)
    <3>1. m = n
      BY <2>1, <2>3 DEF Searching
    <3>2. PICK a \in Range(link.atoms[f]) :
             /\ link.attributes[a].name = n
             /\ link.attributes[a].scope # "translationUnit"
             /\ link.attributes[a].combine # "byContent"
      BY <1>0, <2>1, OfArchive DEF MemberOK
    <3>3. ComesUp(m)'
      BY <1>0, <2>2, <3>1, <3>2 DEF ComesUp, Named, ByName, Range
    <3>4. QED
      BY <3>3 DEF Asked
  <2>4. CASE search # Searching(m, TRUE, FALSE)
    BY <1>0, <1>1, <2>2, <2>4 DEF Asked, Answers, IsData
  <2>5. QED
    BY <2>3, <2>4
<1>4. CASE NotFound
  <2>1. /\ \A i \in search.next .. Len(searchable) : ~ Answers(searchable[i], search)
        /\ UNCHANGED <<pending, loaded>>
    BY <1>4 DEF NotFound
  <2>2. CASE search = Searching(m, TRUE, FALSE)
    <3>1. search.next = 1
      BY <2>2 DEF Searching
    <3>2. \A lib \in Range(searchable) : ~ Answers(lib, Searching(m, TRUE, FALSE))
      <4>1. \A i \in 1 .. Len(searchable) : ~ Answers(searchable[i], search)
        BY <2>1, <3>1
      <4>2. \A lib \in Range(searchable) : ~ Answers(lib, search)
        BY <1>0, <4>1 DEF Range
      <4>3. QED
        BY ONLY <2>2, <4>2
    <3>3. QED
      BY <1>0, <2>1, <3>2 DEF Asked, Answers, IsData
  <2>3. CASE search # Searching(m, TRUE, FALSE)
    BY Zenon, <1>0, <1>1, <2>1, <2>3 DEF Asked, Answers, IsData
  <2>4. QED
    BY <2>2, <2>3
<1>5. QED
  BY <1>2, <1>3, <1>4 DEF SearchLibraries

LEMMA DoAtomPass ==
    ASSUME RTypeInv, PassInv, NEW a \in Atoms, DoAtom(a)
    PROVE  PassInv'
<1> SUFFICES ASSUME ~ thrown'  PROVE PassInv'
  BY DEF PassInv
<1>1. /\ ~ thrown /\ pending \in Seq(Atoms) /\ pending # <<>> /\ a = Head(pending)
      /\ pending' = Tail(pending) /\ genCount \in Int /\ link' = link /\ atom' = atom
      /\ UNCHANGED <<pc, todo, genCount, loaded, autolinked, searchable, search>>
      /\ Consistent(table)
  BY TypeSplit DEF DoAtom, RTypeInv, ResolverTypeOK, loopVars, inputVars
<1>2. /\ Consistent(table') /\ Grows(table, table')
      /\ Named(a) /\ ByName(a) => HasName(table', atom[a].name)
  BY DoAtomTable
<1>3. /\ UpdateCount(table) \in Nat /\ UpdateCount(table') \in Nat
      /\ UpdateCount(table) <= UpdateCount(table')
      /\ UpdateCount(table) = UpdateCount(table') => table.slots = table'.slots
  BY <1>1, <1>2, CountGrows
<1>4. genCount <= UpdateCount(table)
  BY <1>1 DEF PassInv
<1>5. genCount' <= UpdateCount(table')
  BY <1>1, <1>3, <1>4
<1>6. pc # "resolved"
  BY <1>1 DEF PassInv
<1>7. ASSUME Settled', autolinked' = {}, pc' # "leftovers", NEW n \in Undefines(table')
      PROVE  Asked(n)'
  <2>1. Settled /\ table.slots = table'.slots
    <3>1. genCount = UpdateCount(table')
      BY <1>1, <1>7 DEF Settled
    <3>2. QED
      BY <1>1, <1>3, <1>4, <3>1 DEF Settled
  <2>2. n \in Names /\ n \in Undefines(table)
    BY <1>2, <1>7, <2>1 DEF Undefines, Grows, KeepsNames, Consistent, Tables
  <2>3. Asked(n)
    BY <1>1, <1>7, <2>1, <2>2 DEF PassInv
  <2>4. ~ HasName(table', n)
    BY <1>7 DEF Undefines
  <2>5. QED
    BY <2>2, <2>3, <2>4, AskedWhileReading
<1>8. QED
  BY <1>1, <1>5, <1>6, <1>7 DEF PassInv

LEMMA NextPass ==
    ASSUME RTypeInv, PassInv, [ResolverNext]_resolverVars
    PROVE  PassInv'
<1>0. /\ link \in Links /\ link' = link /\ atom' = atom /\ atom = link.attributes
      /\ WellFormed(link) /\ Consistent(table) /\ genCount \in Int
      /\ searchable \in Seq(Libraries) /\ autolinked \in SUBSET Libraries
      /\ search \in Searches \cup {NoSearch}
  BY InputStays, TypeSplit, ResolverAssumption DEF RTypeInv, ResolverTypeOK
<1>1. UpdateCount(table) \in Nat /\ \A n \in Undefines(table) : n \in Names
  <2>1. Grows(table, table)
    BY <1>0, TypeSplit
       DEF RTypeInv, Grows, KeepsNames, Raises, Consistent, Tables, AtomsOK, AtomRecords
  <2>2. QED
    BY <1>0, <2>1, CountGrows DEF Undefines, Consistent, Tables
<1>2. ASSUME UNCHANGED <<table, genCount>>
      PROVE  /\ Settled' = Settled /\ UpdateCount(table)' = UpdateCount(table)
             /\ Undefines(table') = Undefines(table)
  BY <1>2 DEF Settled, UpdateCount
<1>3. ASSUME NEW a \in Atoms, DoAtom(a)  PROVE PassInv'
  BY <1>3, DoAtomPass
<1>4. CASE ReadFile
  <2>1. /\ pc = "input" /\ pc' = pc /\ ~ thrown
        /\ UNCHANGED <<table, thrown, genCount, autolinked>>
    BY <1>4 DEF ReadFile, Idle, tableVars
  <2>2. ~ Settled
    BY <1>1, <2>1 DEF PassInv, Settled
  <2>3. QED
    BY <1>2, <2>1, <2>2 DEF PassInv
<1>5. CASE EndInput
  <2>1. /\ pc = "input" /\ pc' = "pass" /\ ~ thrown /\ genCount' = genCount
        /\ table' = [table EXCEPT !.slots = @ \cup link.undefines]
    BY <1>5 DEF EndInput, Idle
  <2>2. UpdateCount(table') \in Nat
    <3>1. link.undefines \in SUBSET Names
      BY <1>0, LinkFields
    <3>2. Consistent(table')
      BY <1>0, <2>1, <3>1 DEF Consistent, HasName, Tables
    <3>3. Grows(table', table')
      BY <1>0, <3>2, TypeSplit
         DEF RTypeInv, Grows, KeepsNames, Raises, Consistent, Tables, AtomsOK, AtomRecords
    <3>4. QED
      BY <3>2, <3>3, CountGrows
  <2>3. genCount' = -1
    BY <2>1 DEF PassInv
  <2>4. QED
    BY <2>1, <2>2, <2>3 DEF PassInv, Settled
<1>6. CASE StartPass
  <2>1. /\ pc' = "undefines" /\ todo' = Undefines(table) /\ genCount' = UpdateCount(table)
        /\ table' = table
    BY <1>6 DEF StartPass, OnlyLoops, tableVars
  <2>2. \A n \in Undefines(table') : Asked(n)'
    BY <2>1 DEF Asked
  <2>3. genCount' <= UpdateCount(table')
    BY <1>1, <2>1
  <2>4. QED
    BY <2>1, <2>2, <2>3 DEF PassInv
<1>7. ASSUME NEW m \in Names, SearchUndefined(m)  PROVE PassInv'
  <2>1. /\ ~ thrown /\ pending = <<>> /\ search = NoSearch /\ todo' = todo \ {m}
        /\ search' = IF StillUndefined(m) THEN Searching(m, TRUE, FALSE) ELSE NoSearch
        /\ pc \in {"undefines", "leftovers"}
        /\ UNCHANGED <<table, thrown, pc, pending, loaded, autolinked, searchable, genCount>>
    BY <1>7 DEF SearchUndefined, Idle, tableVars
  <2>2. ASSUME Settled, autolinked = {}, pc # "leftovers", NEW n \in Undefines(table)
        PROVE  Asked(n)'
    <3>1. Asked(n) /\ pc = "undefines" /\ n \in Names
      BY <1>1, <2>1, <2>2 DEF PassInv
    <3>2. CASE n = m
      BY <2>1, <2>2, <3>2 DEF Asked, Undefines, StillUndefined
    <3>3. CASE n # m /\ n \in todo
      BY <2>1, <3>1, <3>3 DEF Asked
    <3>4. CASE n \notin todo
      BY Zenon, <1>0, <2>1, <3>1, <3>4, AllAsked DEF Asked, Answers, IsData
    <3>5. QED
      BY <3>2, <3>3, <3>4
  <2>3. QED
    BY <1>2, <2>1, <2>2 DEF PassInv
<1>8. ASSUME ~ thrown, pending = <<>>, search = NoSearch, todo = {} \/ pc # "undefines",
             UNCHANGED <<table, thrown, pending, loaded, searchable, genCount, autolinked>>,
             pc # "leftovers", pc # "input",
             pc' = "leftovers" => autolinked # {},
             pc' = "resolved" => search' = NoSearch /\ (autolinked = {} => Settled),
             pc' # "input"
      PROVE  PassInv'
  <2>1. ASSUME Settled, autolinked = {}, NEW n \in Undefines(table)
        PROVE  Asked(n)'
    <3>1. Asked(n) /\ n \in Names
      BY <1>1, <1>8, <2>1 DEF PassInv
    <3>2. QED
      BY <1>0, <1>8, <3>1, AllAsked DEF Asked, Answers, IsData
  <2>2. QED
    BY <1>2, <1>8, <2>1, SMTT(40) DEF PassInv
<1>9. CASE EndUndefines
  BY <1>8, <1>9 DEF EndUndefines, OnlyLoops, Idle, tableVars
<1>10. ASSUME NEW m \in Names, SearchTentative(m)  PROVE PassInv'
  BY <1>8, <1>10 DEF SearchTentative, Idle, tableVars
<1>11. CASE EndTentatives
  BY <1>8, <1>11 DEF EndTentatives, OnlyLoops, Idle, tableVars
<1>12. CASE EndPasses
  BY <1>8, <1>12 DEF EndPasses, OnlyLoops, Idle, tableVars
<1>13. CASE EndLeftovers
  <2>1. /\ ~ thrown /\ pc = "leftovers" /\ pc' = "resolved" /\ pending = <<>>
        /\ search = NoSearch
        /\ UNCHANGED <<table, thrown, pending, search, genCount, autolinked>>
    BY <1>13 DEF EndLeftovers, OnlyLoops, Idle, tableVars
  <2>2. QED
    BY <1>2, <2>1 DEF PassInv
<1>14. ASSUME SearchLibraries, ~ thrown, UNCHANGED <<table, thrown, pc, genCount>>,
              search # NoSearch, autolinked' = {} => searchable' = searchable,
              autolinked \subseteq autolinked'
       PROVE  PassInv'
  <2>1. pc # "resolved"
    BY <1>14 DEF PassInv
  <2>2. ASSUME autolinked' = {}, NEW m, Asked(m)  PROVE Asked(m)'
    BY <1>14, <2>2, AskedWhileSearching
  <2>3. autolinked' = {} => autolinked = {}
    BY <1>14
  <2>4. QED
    BY <1>2, <1>14, <2>1, <2>2, <2>3 DEF PassInv
<1>15. ASSUME NEW i \in DOMAIN searchable, AskDylib(i)  PROVE PassInv'
  BY <1>14, <1>15 DEF SearchLibraries, AskDylib, FirstAnswer, loopVars, tableVars
<1>16. ASSUME NEW i \in DOMAIN searchable, LoadMember(i)  PROVE PassInv'
  <2>1. PICK n \in Names, lib \in Libraries, f \in Files :
           /\ n = search.name /\ lib = searchable[i] /\ n \in DOMAIN link.members[lib]
           /\ f = link.members[lib][n]
    BY <1>0, <1>16, LinkFields DEF LoadMember, FirstAnswer, Answers
  <2>2. /\ ~ thrown /\ search # NoSearch /\ AddLinkerOptionLibraries(link.autolinks[f])
        /\ UNCHANGED <<table, thrown, pc, genCount>>
    BY <1>16, <2>1 DEF LoadMember, FirstAnswer, loopVars, tableVars
  <2>3. link.autolinks[f] \in SUBSET Libraries
    BY <1>0, LinkFields
  <2>4. /\ autolinked' = autolinked \cup link.autolinks[f]
        /\ link.autolinks[f] = {} => searchable' = searchable
    BY <1>0, <2>2, <2>3, LibrariesAdded
  <2>5. QED
    BY <1>14, <1>16, <2>2, <2>4 DEF SearchLibraries
<1>17. CASE NotFound
  BY <1>14, <1>17 DEF SearchLibraries, NotFound, loopVars, tableVars
<1>18. CASE UNCHANGED resolverVars
  <2>1. UNCHANGED <<table, thrown, pc, todo, pending, loaded, autolinked, searchable, search,
                    genCount>>
    BY <1>18, SMTT(40) DEF resolverVars, tableVars
  <2>2. ASSUME NEW m, Asked(m)  PROVE Asked(m)'
    BY <1>0, <2>1, <2>2 DEF Asked, ComesUp, Answers, IsData, Named, ByName
  <2>3. QED
    BY <1>2, <2>1, <2>2 DEF PassInv
<1>19. QED
  BY <1>3, <1>4, <1>5, <1>6, <1>7, <1>9, <1>10, <1>11, <1>12, <1>13, <1>15, <1>16, <1>17,
     <1>18
     DEF ResolverNext, ResolveUndefines, SearchLibraries

LEMMA InitPass == ResolverInit => PassInv
<1> SUFFICES ASSUME ResolverInit  PROVE PassInv
  OBVIOUS
<1>1. RTypeInv
  BY InitRType
<1>2. Consistent(table)
  BY <1>1, TypeSplit DEF RTypeInv
<1>3. Grows(table, table)
  BY <1>1, <1>2, TypeSplit
     DEF RTypeInv, Grows, KeepsNames, Raises, Consistent, Tables, AtomsOK, AtomRecords
<1>4. UpdateCount(table) \in Nat
  BY <1>2, <1>3, CountGrows
<1>5. QED
  BY <1>4 DEF ResolverInit, PassInv, Settled

\* When the resolver stops without having been asked for more libraries by the object
\* files, no library could have defined a name it leaves undefined: whatever a member
\* brings up behind the loops makes a slot, and a slot makes another pass.
THEOREM AllFound == ResolverSpec => []NothingMissed
<1>1. RTypeInv /\ PassInv /\ [ResolverNext]_resolverVars => RTypeInv' /\ PassInv'
  BY NextRType, NextPass
<1>2. RTypeInv /\ PassInv => NothingMissed
  <2> SUFFICES ASSUME RTypeInv, PassInv, pc = "resolved", ~ thrown, autolinked = {},
                      NEW n \in Undefines(table), NEW lib \in Range(searchable)
               PROVE  ~ Answers(lib, Searching(n, TRUE, FALSE))
    BY DEF NothingMissed, Stopped, Exhausted
  <2>1. Asked(n) /\ pending = <<>> /\ search = NoSearch /\ n \in Names
    BY TypeSplit
       DEF PassInv, RTypeInv, ResolverTypeOK, Undefines, Consistent, Tables
  <2>2. QED
    BY <2>1, AllAsked
<1>3. QED
  BY InitRType, InitPass, <1>1, <1>2, PTL DEF ResolverSpec

------------------------------------------------------------------------------
(***************************************************************************)
(* Common symbols are overridden.                                          *)
(***************************************************************************)
CommonSearch(n) == Searching(n, SearchesDylibs, TRUE)

\* An atom that gets the slot of a common symbol.
Overrides(a) == ~ Tentative(a) /\ (Proxy(a) => SearchesDylibs)

\* The common symbol n is still to be searched, is being searched or overridden, or no
\* library has something better.
Improved(n) ==
    \/ pc = "tentatives" /\ n \in todo
    \/ search = CommonSearch(n) /\ pending = <<>>
    \/ \E i \in DOMAIN pending :
          /\ atom[pending[i]].name = n /\ Named(pending[i]) /\ ByName(pending[i])
          /\ Overrides(pending[i])
    \/ \A lib \in Range(searchable) : ~ Answers(lib, CommonSearch(n))

CommonsInv ==
    ~ thrown =>
        /\ pc # "input" =>
              \A i \in DOMAIN pending :
                  Tentative(pending[i]) => CommonInMember(atom[pending[i]].name)
        /\ pc = "pass" => pending = <<>>
        /\ \A n \in TentativeDefs(table) :
              atom[table.byName[n]].scope = "global" => table.externalTentatives
        /\ pc = "tentatives" => table.externalTentatives
        /\ /\ table.externalTentatives /\ Settled /\ autolinked = {}
           /\ pc \in {"tentatives", "pass", "resolved"}
           => \A n \in TentativeDefs(table) : ~ CommonInMember(n) => Improved(n)

\* The flag for common symbols is set by those that get a slot, and stays set.
LEMMA FlagAfter ==
    ASSUME RTypeInv, NEW a \in Atoms, DoAtom(a), ~ thrown'
    PROVE  /\ table.externalTentatives => table'.externalTentatives
           /\ \A n \in Names :
                 table'.byName[n] # table.byName[n] =>
                    /\ table'.byName[n] = a /\ n = atom[a].name
                    /\ Tentative(a) /\ atom[a].scope = "global"
                       => table'.externalTentatives
<1>1. AtomsOK /\ Consistent(table) /\ table \in Tables /\ atom[a].name \in Names
  BY TypeSplit DEF RTypeInv, Consistent, AtomsOK, AtomRecords
<1>2. link.references[a] \in SUBSET Names /\ link.literals[a] \in Literals
  BY LinkFields DEF DoAtom, RTypeInv, ResolverTypeOK
<1>3. PICK t \in IF Named(a) THEN AddTo(table, a, Treatment) ELSE {table} :
          table' = Referring(t, link.references[a], link.literals[a])
  BY DEF DoAtom
<1>4. Consistent(t) /\ t \in Tables
  BY <1>1, <1>3, AddToConsistent DEF Consistent
<1>5. table'.byName = t.byName /\ table'.externalTentatives = t.externalTentatives
  <2>1. table'.byName = t.byName
    BY <1>1, <1>2, <1>3, <1>4, ReferringConsistent
  <2>2. table'.externalTentatives = t.externalTentatives
    BY <1>3, <1>4 DEF Referring, FindSlotForContent, Tables
  <2>3. QED
    BY <2>1, <2>2
<1>6. CASE ~ Named(a)
  BY <1>3, <1>5, <1>6
<1>7. CASE Named(a) /\ ~ ByName(a)
  <2>1. t = AddByContent(table, a)
    BY <1>3, <1>7 DEF AddTo, ByName
  <2>2. t.byName = table.byName
    BY <1>1, <1>7, <2>1, AddByContentConsistent
  <2>3. t.externalTentatives = table.externalTentatives
    BY <1>1, <2>1
       DEF AddByContent, FindSlotForContent, MarkCoalescedAway, ContentLoser, Tables
  <2>4. QED
    BY <1>5, <2>2, <2>3
<1>8. CASE Named(a) /\ ByName(a)
  <2>1. t \in AddByName(table, a, Treatment)
    BY <1>3, <1>8 DEF AddTo, ByName
  <2> DEFINE old == table.byName[atom[a].name]
             found == FindSlotForName(table, atom[a].name)
             told == IF old = NoAtom THEN found ELSE Report(found, a, old, Treatment)
  <2>2. /\ found \in Tables /\ found.byName = table.byName
        /\ found.externalTentatives = table.externalTentatives
    BY <1>1 DEF FindSlotForName, Tables
  <2>3. /\ told.byName = table.byName /\ DOMAIN told = DOMAIN table
        /\ told.externalTentatives = table.externalTentatives
    BY <1>1, <2>2 DEF Report, Tables, FindSlotForName
  <2>4. t = Replace(told, a, old) \/ t = MarkCoalescedAway(told, a)
    BY <2>1 DEF AddByName
  <2> HIDE DEF told, found
  <2>5. CASE t = MarkCoalescedAway(told, a)
    <3>1. /\ t.byName = told.byName /\ t.externalTentatives = told.externalTentatives
      BY <1>1, <2>3, <2>5 DEF MarkCoalescedAway, Tables
    <3>2. QED
      BY <1>5, <2>3, <3>1
  <2>6. CASE t = Replace(told, a, old)
    <3>1. /\ t.byName = [told.byName EXCEPT ![atom[a].name] = a]
          /\ t.externalTentatives =
                (told.externalTentatives \/ (Tentative(a) /\ atom[a].scope = "global"))
      BY <1>1, <2>3, <2>6 DEF Replace, NoteTentative, MarkCoalescedAway, Tables
    <3>2. \A n \in Names : n # atom[a].name => t.byName[n] = table.byName[n]
      BY <1>1, <2>3, <3>1 DEF Tables
    <3>3. t.byName[atom[a].name] = a
      BY <1>1, <2>3, <3>1 DEF Tables
    <3>4. QED
      BY <1>5, <2>3, <3>1, <3>2, <3>3
  <2>7. QED
    BY <2>4, <2>5, <2>6
<1>9. QED
  BY <1>6, <1>7, <1>8

\* A definition that overrides a common symbol takes its slot.
LEMMA OverridesTake ==
    ASSUME RTypeInv, NEW a \in Atoms, DoAtom(a), ~ thrown', Named(a), ByName(a), Overrides(a)
    PROVE  Tentative(table'.byName[atom[a].name]) =>
               /\ table.byName[atom[a].name] # NoAtom
               /\ ~ Tentative(table.byName[atom[a].name])
<1> DEFINE n == atom[a].name
           old == table.byName[n]
           with == [table.byName EXCEPT ![n] = a]
<1>1. /\ AtomsOK /\ Consistent(table) /\ n \in Names
      /\ table.byName \in [Names -> Atoms \cup {NoAtom}]
      /\ atom[a].definition \in Definitions
  BY TypeSplit DEF RTypeInv, Consistent, Tables, AtomsOK, AtomRecords
<1>2. with[n] = a /\ ~ Tentative(a)
  BY <1>1 DEF Overrides
<1>3. CASE old = NoAtom
  BY <1>2, <1>3, SlotAfter
<1>4. CASE old # NoAtom
  <2>1. PICK new \in PickAtom(a, old, Treatment) :
            table'.byName = IF new THEN with ELSE table.byName
    BY <1>4, SlotAfter
  <2>2. Regular(a) \/ Absolute(a) \/ (Proxy(a) /\ SearchesDylibs)
    BY <1>1 DEF Overrides, Definitions, Regular, Absolute, Proxy, Tentative
  <2>3. Tentative(old) => new = TRUE
    BY <2>1, <2>2
       DEF PickAtom, Defeats, DefeatedBy, Regular, Proxy, Tentative, Absolute, PickCommonsMode,
           SearchesDylibs
  <2>4. QED
    BY <1>2, <1>4, <2>1, <2>3
<1>5. QED
  BY <1>3, <1>4

\* A search for something better than a common symbol ends with that, or with no library
\* left that has it.
LEMMA ImprovedWhileSearching ==
    ASSUME RTypeInv, SearchLibraries, searchable' = searchable, NEW m \in Names, Improved(m),
           ~ CommonInMember(m)
    PROVE  Improved(m)'
<1>0. /\ link \in Links /\ link' = link /\ atom' = atom /\ atom = link.attributes
      /\ WellFormed(link) /\ searchable \in Seq(Libraries)
      /\ search \in Searches /\ search # NoSearch /\ pending = <<>>
      /\ UNCHANGED <<pc, todo>>
  BY Zenon, InputStays, ResolverAssumption
     DEF RTypeInv, ResolverTypeOK, ResolverNext, SearchLibraries, AskDylib, LoadMember,
         NotFound, FirstAnswer, loopVars
<1>1. CommonSearch(m)' = CommonSearch(m)
  BY DEF CommonSearch, Searching
<1>2. ASSUME loaded \subseteq loaded', search # CommonSearch(m)
      PROVE  Improved(m)'
  BY <1>0, <1>1, <1>2 DEF Improved, Answers, IsData
<1>3. CommonSearch(m).name = m /\ CommonSearch(m).dylibs = SearchesDylibs
      /\ CommonSearch(m).next = 1
  BY DEF CommonSearch, Searching
<1>4. ASSUME NEW i \in DOMAIN searchable, AskDylib(i)  PROVE Improved(m)'
  <2>1. PICK n \in Names, lib \in Libraries, a \in Atoms :
           /\ n = search.name /\ lib = searchable[i] /\ n \in DOMAIN link.exports[lib]
           /\ a = link.exports[lib][n] /\ search.dylibs
    BY <1>0, <1>4, LinkFields DEF AskDylib, FirstAnswer, Answers
  <2>2. pending' = <<a>> /\ UNCHANGED loaded
    BY <1>4, <2>1 DEF AskDylib
  <2>3. CASE search = CommonSearch(m)
    <3>1. m = n /\ SearchesDylibs
      BY <1>3, <2>1, <2>3
    <3>2. atom[a].name = n /\ Named(a) /\ ByName(a) /\ Proxy(a)
      BY <1>0, <2>1, ExportFields
    <3>3. Overrides(a)
      BY <3>1, <3>2 DEF Overrides, Proxy, Tentative
    <3>4. /\ 1 \in DOMAIN pending' /\ pending'[1] = a
          /\ atom'[a].name = m /\ Named(a)' /\ ByName(a)' /\ Overrides(a)'
      BY <1>0, <2>2, <3>1, <3>2, <3>3 DEF Named, ByName, Overrides, Proxy, Tentative
    <3>5. QED
      BY <3>4 DEF Improved
  <2>4. QED
    BY <1>2, <2>2, <2>3
<1>5. ASSUME NEW i \in DOMAIN searchable, LoadMember(i)  PROVE Improved(m)'
  <2>1. PICK n \in Names, lib \in Libraries, f \in Files :
           /\ n = search.name /\ lib = searchable[i] /\ n \in DOMAIN link.members[lib]
           /\ f = link.members[lib][n]
    BY <1>0, <1>5, LinkFields DEF LoadMember, FirstAnswer, Answers
  <2>2. pending' = link.atoms[f] /\ loaded' = loaded \cup {f}
    BY <1>5, <2>1 DEF LoadMember
  <2>3. CASE search = CommonSearch(m)
    <3>1. m = n
      BY <1>3, <2>1, <2>3
    <3>2. PICK a \in Range(link.atoms[f]) :
             /\ link.attributes[a].name = n
             /\ link.attributes[a].scope # "translationUnit"
             /\ link.attributes[a].combine # "byContent"
      BY <1>0, <2>1, OfArchive DEF MemberOK
    <3>3. ~ Tentative(a)
      BY <1>0, <2>1, <3>1, <3>2 DEF CommonInMember
    <3>4. PICK k \in DOMAIN link.atoms[f] : a = link.atoms[f][k]
      BY <3>2, SMTT(40) DEF Range
    <3>5. link.attributes[a].definition # "proxy"
      BY <1>0, <3>4, OfFile DEF FileAtomOK
    <3>6. Overrides(a)
      BY <1>0, <3>3, <3>5 DEF Overrides, Proxy
    <3>7. /\ k \in DOMAIN pending' /\ pending'[k] = a
          /\ atom'[a].name = m /\ Named(a)' /\ ByName(a)' /\ Overrides(a)'
      BY <1>0, <2>2, <3>1, <3>2, <3>4, <3>6
         DEF Named, ByName, Overrides, Proxy, Tentative
    <3>8. QED
      BY <3>7 DEF Improved
  <2>4. QED
    BY <1>2, <2>2, <2>3
<1>6. CASE NotFound
  <2>1. /\ \A i \in search.next .. Len(searchable) : ~ Answers(searchable[i], search)
        /\ UNCHANGED <<pending, loaded>>
    BY <1>6, SMTT(40) DEF NotFound
  <2>2. CASE search = CommonSearch(m)
    <3>1. \A i \in 1 .. Len(searchable) : ~ Answers(searchable[i], search)
      BY <1>3, <2>1, <2>2
    <3>2. \A lib \in Range(searchable) : ~ Answers(lib, search)
      BY <1>0, <3>1 DEF Range
    <3>3. \A lib \in Range(searchable) : ~ Answers(lib, CommonSearch(m))
      BY ONLY <2>2, <3>2
    <3>4. QED
      BY <1>0, <1>1, <2>1, <3>3 DEF Improved, Answers, IsData
  <2>3. QED
    BY <1>2, <2>1, <2>2
<1>7. QED
  BY <1>4, <1>5, <1>6 DEF SearchLibraries

\* When the loop over the common symbols has seen n, no library has something better.
LEMMA AllImproved ==
    ASSUME RTypeInv, pending = <<>>, search = NoSearch, NEW n \in Names, Improved(n),
           pc = "tentatives" => n \notin todo
    PROVE  \A lib \in Range(searchable) : ~ Answers(lib, CommonSearch(n))
<1>1. CommonSearch(n) \in [name : Names, next : Nat, dylibs : BOOLEAN, dataOnly : BOOLEAN]
  BY DEF CommonSearch, Searching, SearchesDylibs
<1>2. CommonSearch(n) # NoSearch
  BY <1>1, ResolverAssumption
<1>3. QED
  BY <1>2 DEF Improved

LEMMA DoAtomCommons ==
    ASSUME RTypeInv, PassInv, CommonsInv, NEW a \in Atoms, DoAtom(a)
    PROVE  CommonsInv'
<1> SUFFICES ASSUME ~ thrown'  PROVE CommonsInv'
  BY DEF CommonsInv
<1>1. /\ ~ thrown /\ pending \in Seq(Atoms) /\ pending # <<>> /\ a = Head(pending)
      /\ pending' = Tail(pending) /\ genCount \in Int /\ link' = link /\ atom' = atom
      /\ UNCHANGED <<pc, todo, genCount, loaded, autolinked, searchable, search>>
      /\ Consistent(table) /\ AtomsOK
  BY TypeSplit DEF DoAtom, RTypeInv, ResolverTypeOK, loopVars, inputVars
<1>2. Consistent(table') /\ Grows(table, table')
  BY DoAtomTable
<1>3. /\ 1 \in DOMAIN pending /\ pending[1] = a
      /\ \A i \in DOMAIN pending' : i + 1 \in DOMAIN pending /\ pending'[i] = pending[i + 1]
      /\ \A i \in DOMAIN pending : i # 1 =>
            i - 1 \in DOMAIN pending' /\ pending'[i - 1] = pending[i]
  BY <1>1
<1>4. \A b, n : CommonInMember(n)' = CommonInMember(n) /\ Tentative(b)' = Tentative(b)
  BY <1>1 DEF CommonInMember, Tentative
<1>5. /\ table.externalTentatives => table'.externalTentatives
      /\ \A n \in Names :
            table'.byName[n] # table.byName[n] =>
               /\ table'.byName[n] = a /\ n = atom[a].name
               /\ Tentative(a) /\ atom[a].scope = "global" => table'.externalTentatives
  BY FlagAfter
<1>6. pc # "input" => \A i \in DOMAIN pending' :
                          Tentative(pending'[i]) => CommonInMember(atom[pending'[i]].name)
  BY <1>1, <1>3 DEF CommonsInv
<1>7. pc \notin {"pass", "resolved"}
  BY <1>1 DEF CommonsInv, PassInv
<1>8. ASSUME NEW n \in TentativeDefs(table')
      PROVE  /\ n \in Names /\ HasName(table', n) /\ Tentative(table'.byName[n])
             /\ \/ n \in TentativeDefs(table) /\ table'.byName[n] = table.byName[n]
                \/ Tentative(a) /\ n = atom[a].name /\ table'.byName[n] = a
  <2>1. n \in Names /\ HasName(table', n) /\ Tentative(table'.byName[n])
    BY <1>4, <1>8 DEF TentativeDefs
  <2>2. table'.byName[n] = table.byName[n] => n \in TentativeDefs(table)
    BY <2>1 DEF TentativeDefs, HasName
  <2>3. QED
    BY <1>5, <2>1, <2>2
<1>9. \A n \in TentativeDefs(table') :
          atom[table'.byName[n]].scope = "global" => table'.externalTentatives
  <2> SUFFICES ASSUME NEW n \in TentativeDefs(table'), atom[table'.byName[n]].scope = "global"
               PROVE  table'.externalTentatives
    OBVIOUS
  <2>1. CASE n \in TentativeDefs(table) /\ table'.byName[n] = table.byName[n]
    BY <1>1, <1>5, <2>1 DEF CommonsInv
  <2>2. CASE table'.byName[n] # table.byName[n]
    BY <1>5, <1>8, <2>2
  <2>3. CASE table'.byName[n] = table.byName[n]
    BY <1>4, <1>8, <2>1, <2>3, SMTT(40) DEF TentativeDefs, HasName
  <2>4. QED
    BY <2>2, <2>3
<1>10. ASSUME pc = "tentatives", Settled', autolinked' = {}, NEW n \in TentativeDefs(table'),
              ~ CommonInMember(n)
       PROVE  Improved(n)'
  <2>1. Settled
    <3>1. /\ UpdateCount(table) \in Nat /\ UpdateCount(table') \in Nat
          /\ UpdateCount(table) <= UpdateCount(table')
      BY <1>1, <1>2, CountGrows
    <3>2. genCount <= UpdateCount(table) /\ genCount = UpdateCount(table')
      BY <1>1, <1>10 DEF PassInv, Settled
    <3>3. QED
      BY <1>1, <3>1, <3>2 DEF Settled
  <2>2. Tentative(a) => CommonInMember(atom[a].name)
    BY <1>1, <1>3, <1>10 DEF CommonsInv
  <2>3. n \in TentativeDefs(table) /\ table'.byName[n] = table.byName[n] /\ n \in Names
    BY <1>8, <1>10, <2>2
  <2>4. Improved(n)
    BY <1>1, <1>10, <2>1, <2>3 DEF CommonsInv
  <2>5. ASSUME NEW i \in DOMAIN pending, atom[pending[i]].name = n, Named(pending[i]),
               ByName(pending[i]), Overrides(pending[i])
        PROVE  Improved(n)'
    <3>1. i # 1
      <4>1. Tentative(table'.byName[n]) /\ Tentative(table.byName[n])
        BY <1>8, <1>10, <2>3
      <4>2. SUFFICES ASSUME i = 1  PROVE FALSE
        OBVIOUS
      <4>3. pending[i] = a
        BY <1>3, <4>2
      <4>4. QED
        BY <2>5, <4>1, <4>3, OverridesTake
    <3>2. PICK b, k : /\ b = pending[i] /\ k = i - 1
                      /\ k \in DOMAIN pending' /\ pending'[k] = b
      BY <1>3, <3>1
    <3>3. atom'[b].name = n /\ Named(b)' /\ ByName(b)' /\ Overrides(b)'
      BY <1>1, <2>5, <3>2 DEF Named, ByName, Overrides, Tentative, Proxy
    <3>4. QED
      BY <3>2, <3>3 DEF Improved
  <2>6. CommonSearch(n)' = CommonSearch(n)
    BY DEF CommonSearch, Searching
  <2>7. QED
    BY <1>1, <2>4, <2>5, <2>6 DEF Improved, Answers, IsData
<1>11. pc = "tentatives" => table'.externalTentatives
  BY <1>1, <1>5 DEF CommonsInv
<1>12. TentativeDefs(table)' = TentativeDefs(table')
  BY <1>4 DEF TentativeDefs, HasName
<1>13. pc' # "input" => \A i \in DOMAIN pending' :
                           Tentative(pending[i])' => CommonInMember(atom[pending[i]].name)'
  BY <1>1, <1>6 DEF CommonInMember, Tentative
<1>14. \A n \in TentativeDefs(table)' :
           atom'[table'.byName[n]].scope = "global" => table'.externalTentatives
  BY <1>1, <1>9, <1>12
<1>15. ASSUME Settled', autolinked' = {}, pc' \in {"tentatives", "pass", "resolved"}
       PROVE  \A n \in TentativeDefs(table)' : ~ CommonInMember(n)' => Improved(n)'
  BY <1>1, <1>4, <1>7, <1>10, <1>12, <1>15
<1>16. QED
  BY <1>1, <1>7, <1>11, <1>13, <1>14, <1>15 DEF CommonsInv

LEMMA NextCommons ==
    ASSUME RTypeInv, PassInv, CommonsInv, [ResolverNext]_resolverVars
    PROVE  CommonsInv'
<1>0. /\ link \in Links /\ link' = link /\ atom' = atom /\ atom = link.attributes
      /\ WellFormed(link) /\ Consistent(table) /\ pending \in Seq(Atoms)
      /\ searchable \in Seq(Libraries) /\ autolinked \in SUBSET Libraries
      /\ search \in Searches \cup {NoSearch}
      /\ search # NoSearch => pc \notin {"input", "pass"}
  BY InputStays, TypeSplit, ResolverAssumption DEF RTypeInv, ResolverTypeOK
<1>1. \A b, n : /\ CommonInMember(n)' = CommonInMember(n) /\ Tentative(b)' = Tentative(b)
                /\ CommonSearch(n)' = CommonSearch(n)
  BY <1>0 DEF CommonInMember, Tentative, CommonSearch, Searching
<1>2. ASSUME UNCHANGED <<table, genCount>>
      PROVE  /\ Settled' = Settled
             /\ TentativeDefs(table') = TentativeDefs(table)
             /\ TentativeDefs(table)' = TentativeDefs(table)
  BY <1>1, <1>2 DEF Settled, UpdateCount, TentativeDefs, HasName
<1>3. \A n \in TentativeDefs(table) : n \in Names /\ Tentative(table.byName[n])
  BY DEF TentativeDefs
<1>4. ASSUME NEW a \in Atoms, DoAtom(a)  PROVE CommonsInv'
  BY <1>4, DoAtomCommons
<1>5. CASE ReadFile
  <2>1. /\ pc = "input" /\ pc' = pc /\ ~ thrown
        /\ UNCHANGED <<table, thrown, genCount, autolinked>>
    BY <1>5 DEF ReadFile, Idle, tableVars
  <2>2. QED
    BY <1>0, <1>2, <2>1 DEF CommonsInv
<1>6. CASE EndInput
  <2>1. /\ pc' = "pass" /\ ~ thrown /\ pending' = <<>> /\ genCount' = genCount /\ pc = "input"
        /\ table' = [table EXCEPT !.slots = @ \cup link.undefines]
    BY <1>6 DEF EndInput, Idle
  <2>2. /\ TentativeDefs(table)' = TentativeDefs(table) /\ table'.byName = table.byName
        /\ table'.externalTentatives = table.externalTentatives
    BY <1>0, <1>1, <2>1 DEF TentativeDefs, HasName, Consistent, Tables
  <2>3. ~ Settled'
    <3>1. genCount' = -1
      BY <2>1 DEF PassInv
    <3>2. link.undefines \in SUBSET Names
      BY <1>0, LinkFields
    <3>3. Consistent(table')
      BY <1>0, <2>1, <3>2 DEF Consistent, HasName, Tables
    <3>4. Grows(table', table')
      BY <1>0, <3>3, TypeSplit
         DEF RTypeInv, Grows, KeepsNames, Raises, Consistent, Tables, AtomsOK, AtomRecords
    <3>5. UpdateCount(table') \in Nat
      BY <3>3, <3>4, CountGrows
    <3>6. QED
      BY <3>1, <3>5 DEF Settled
  <2>4. QED
    BY <1>0, <2>1, <2>2, <2>3 DEF CommonsInv
<1>7. ASSUME ~ thrown, pc # "input", pending = <<>>, search = NoSearch,
             UNCHANGED <<table, thrown, pending, loaded, searchable, autolinked>>,
             pc' # "tentatives" \/ table.externalTentatives,
             /\ table.externalTentatives /\ Settled' /\ autolinked = {}
             /\ pc' \in {"tentatives", "pass", "resolved"}
             => \A n \in TentativeDefs(table) : ~ CommonInMember(n) => Improved(n)'
      PROVE  CommonsInv'
  BY <1>0, <1>1, <1>7 DEF CommonsInv, TentativeDefs, HasName
<1>8. CASE StartPass
  BY <1>7, <1>8 DEF StartPass, Idle, OnlyLoops, tableVars
<1>9. ASSUME NEW m \in Names, SearchUndefined(m)  PROVE CommonsInv'
  BY <1>7, <1>9 DEF SearchUndefined, Idle, tableVars
<1>10. CASE EndUndefines
  <2>1. /\ ~ thrown /\ pending = <<>> /\ search = NoSearch /\ pc = "undefines"
        /\ UNCHANGED <<table, thrown, pending, loaded, searchable, autolinked>>
        /\ \/ table.externalTentatives /\ pc' = "tentatives" /\ todo' = TentativeDefs(table)
           \/ ~ table.externalTentatives /\ pc' = "pass"
    BY <1>10 DEF EndUndefines, OnlyLoops, Idle, tableVars
  <2>2. QED
    BY <1>7, <2>1 DEF Improved
<1>11. ASSUME NEW m \in Names, SearchTentative(m)  PROVE CommonsInv'
  <2>1. /\ ~ thrown /\ pending = <<>> /\ search = NoSearch /\ pc = "tentatives" /\ pc' = pc
        /\ todo' = todo \ {m}
        /\ search' = IF Tentative(table.byName[m]) THEN CommonSearch(m) ELSE NoSearch
        /\ UNCHANGED <<table, thrown, pending, loaded, searchable, autolinked, genCount>>
    BY <1>11 DEF SearchTentative, Idle, tableVars, CommonSearch
  <2>2. ASSUME Settled, table.externalTentatives, autolinked = {},
               NEW n \in TentativeDefs(table), ~ CommonInMember(n)
        PROVE  Improved(n)'
    <3>1. Improved(n) /\ n \in Names /\ Tentative(table.byName[n])
      BY <1>3, <2>1, <2>2 DEF CommonsInv
    <3>2. CASE n = m
      BY <1>1, <2>1, <3>1, <3>2 DEF Improved
    <3>3. CASE n # m /\ n \in todo
      BY <2>1, <3>3 DEF Improved
    <3>4. CASE n \notin todo
      <4>1. \A lib \in Range(searchable) : ~ Answers(lib, CommonSearch(n))
        BY <2>1, <3>1, <3>4, AllImproved
      <4>2. QED
        BY <1>0, <1>1, <2>1, <4>1 DEF Improved, Answers, IsData
    <3>5. QED
      BY <3>2, <3>3, <3>4
  <2>3. QED
    BY <1>0, <1>1, <1>2, <2>1, <2>2 DEF CommonsInv
<1>12. ASSUME ~ thrown, pending = <<>>, search = NoSearch, pc = "tentatives" => todo = {},
              UNCHANGED <<table, thrown, pending, loaded, searchable, autolinked, genCount>>,
              pc \in {"tentatives", "pass"}, pc' \in {"pass", "resolved", "leftovers"}
       PROVE  CommonsInv'
  <2>1. ASSUME Settled, table.externalTentatives, autolinked = {},
               NEW n \in TentativeDefs(table), ~ CommonInMember(n)
        PROVE  Improved(n)'
    <3>1. Improved(n) /\ n \in Names
      BY <1>3, <1>12, <2>1 DEF CommonsInv
    <3>2. \A lib \in Range(searchable) : ~ Answers(lib, CommonSearch(n))
      BY <1>12, <3>1, AllImproved
    <3>3. QED
      BY <1>0, <1>1, <1>12, <3>2 DEF Improved, Answers, IsData
  <2>2. Settled' = Settled
    BY <1>2, <1>12
  <2>3. QED
    BY <1>7, <1>12, <2>1, <2>2
<1>13. CASE EndTentatives
  BY <1>12, <1>13 DEF EndTentatives, OnlyLoops, Idle, tableVars
<1>14. CASE EndPasses
  BY <1>12, <1>14 DEF EndPasses, OnlyLoops, Idle, tableVars
<1>15. CASE EndLeftovers
  <2>1. /\ ~ thrown /\ pc = "leftovers" /\ pc' = "resolved" /\ pending = <<>>
        /\ search = NoSearch
        /\ UNCHANGED <<table, thrown, pending, loaded, searchable, autolinked>>
    BY <1>15 DEF EndLeftovers, OnlyLoops, Idle, tableVars
  <2>2. autolinked # {}
    BY <2>1 DEF PassInv
  <2>3. QED
    BY <1>7, <2>1, <2>2
<1>16. ASSUME SearchLibraries, ~ thrown, UNCHANGED <<table, thrown, pc, todo, genCount>>,
              search # NoSearch, autolinked' = {} => searchable' = searchable,
              autolinked \subseteq autolinked',
              \A i \in DOMAIN pending' :
                  Tentative(pending'[i]) => CommonInMember(atom[pending'[i]].name)
       PROVE  CommonsInv'
  <2>1. pc \notin {"input", "pass", "resolved"}
    BY <1>0, <1>16 DEF PassInv
  <2>2. ASSUME autolinked' = {}, NEW n \in Names, Improved(n), ~ CommonInMember(n)
        PROVE  Improved(n)'
    BY <1>16, <2>2, ImprovedWhileSearching
  <2>3. autolinked' = {} => autolinked = {}
    BY <1>16
  <2>4. QED
    BY <1>0, <1>1, <1>2, <1>3, <1>16, <2>1, <2>2, <2>3 DEF CommonsInv
<1>17. ASSUME NEW i \in DOMAIN searchable, AskDylib(i)  PROVE CommonsInv'
  <2>1. PICK n \in Names, lib \in Libraries, a \in Atoms :
           /\ n = search.name /\ lib = searchable[i] /\ n \in DOMAIN link.exports[lib]
           /\ a = link.exports[lib][n]
    BY <1>0, <1>17, LinkFields DEF AskDylib, FirstAnswer, Answers
  <2>2. pending' = <<a>> /\ ~ Tentative(a)
    <3>1. Proxy(a)
      BY <1>0, <2>1, ExportFields
    <3>2. QED
      BY <1>17, <2>1, <3>1 DEF AskDylib, Proxy, Tentative
  <2>3. \A k \in DOMAIN pending' : ~ Tentative(pending'[k])
    BY <2>2
  <2>4. QED
    BY <1>16, <1>17, <2>3 DEF SearchLibraries, AskDylib, FirstAnswer, loopVars, tableVars
<1>18. ASSUME NEW i \in DOMAIN searchable, LoadMember(i)  PROVE CommonsInv'
  <2>1. PICK n \in Names, lib \in Libraries, f \in Files :
           /\ n = search.name /\ lib = searchable[i] /\ n \in DOMAIN link.members[lib]
           /\ f = link.members[lib][n]
    BY <1>0, <1>18, LinkFields DEF LoadMember, FirstAnswer, Answers
  <2>2. /\ ~ thrown /\ search # NoSearch /\ AddLinkerOptionLibraries(link.autolinks[f])
        /\ pending' = link.atoms[f] /\ UNCHANGED <<table, thrown, pc, todo, genCount>>
    BY <1>18, <2>1 DEF LoadMember, FirstAnswer, loopVars, tableVars
  <2>3. link.autolinks[f] \in SUBSET Libraries
    BY <1>0, LinkFields
  <2>4. /\ autolinked' = autolinked \cup link.autolinks[f]
        /\ link.autolinks[f] = {} => searchable' = searchable
    BY <1>0, <2>2, <2>3, LibrariesAdded
  <2>5. \A k \in DOMAIN pending' :
            Tentative(pending'[k]) => CommonInMember(atom[pending'[k]].name)
    BY Zenon, <2>1, <2>2 DEF CommonInMember, Range
  <2>6. QED
    BY <1>16, <1>18, <2>2, <2>4, <2>5 DEF SearchLibraries
<1>19. CASE NotFound
  BY <1>0, <1>16, <1>19 DEF SearchLibraries, NotFound, loopVars, tableVars
<1>20. CASE UNCHANGED resolverVars
  <2>1. UNCHANGED <<table, thrown, pc, todo, pending, loaded, autolinked, searchable, search,
                    genCount>>
    BY <1>20 DEF resolverVars, tableVars
  <2>2. ASSUME NEW m, Improved(m)  PROVE Improved(m)'
    BY <1>0, <1>1, <2>1, <2>2
       DEF Improved, Answers, IsData, Named, ByName, Overrides, Tentative, Proxy
  <2>3. QED
    BY <1>0, <1>1, <1>2, <2>1, <2>2 DEF CommonsInv
<1>21. QED
  BY <1>4, <1>5, <1>6, <1>8, <1>9, <1>10, <1>11, <1>13, <1>14, <1>15, <1>17, <1>18, <1>19,
     <1>20
     DEF ResolverNext, ResolveUndefines, SearchLibraries

\* A common symbol of an object file does not stay when a library has a definition that
\* overrides it, unless an archive has a common symbol of the same name.
THEOREM CommonsSearched == ResolverSpec => []CommonsOverridden
<1> DEFINE Inv == RTypeInv /\ PassInv /\ CommonsInv
<1>1. ResolverInit => Inv
  <2>1. ResolverInit => CommonsInv
    BY DEF ResolverInit, TableInit, EmptyTable, CommonsInv, TentativeDefs, HasName
  <2>2. QED
    BY <2>1, InitRType, InitPass
<1>2. Inv /\ [ResolverNext]_resolverVars => Inv'
  BY NextRType, NextPass, NextCommons
<1>3. Inv => CommonsOverridden
  <2> SUFFICES ASSUME Inv, pc = "resolved", ~ thrown, autolinked = {},
                      NEW n \in TentativeDefs(table), NEW lib \in Range(searchable),
                      atom[table.byName[n]].scope = "global", ~ CommonInMember(n)
               PROVE  ~ Answers(lib, CommonSearch(n))
    BY DEF CommonsOverridden, Stopped, CommonSearch
  <2>1. table.externalTentatives /\ Settled /\ pending = <<>> /\ search = NoSearch
    BY DEF CommonsInv, PassInv
  <2>2. Improved(n) /\ n \in Names
    BY <2>1 DEF CommonsInv, TentativeDefs
  <2>3. QED
    BY <2>1, <2>2, AllImproved
<1>4. QED
  BY <1>1, <1>2, <1>3, PTL DEF ResolverSpec

------------------------------------------------------------------------------
(***************************************************************************)
(* No edge dangles.                                                        *)
(***************************************************************************)
\* What a known atom refers to has slots; the atom in the slot of a content is known,
\* or about to be.
EdgesInv ==
    ~ thrown =>
        /\ \A a \in known :
              /\ link.references[a] \subseteq table.slots
              /\ link.literals[a] # NoAtom =>
                    table.byContent[atom[link.literals[a]].content] # NoAtom
        /\ \A c \in Contents :
              table.byContent[c] \in known \cup Range(pending) \cup {NoAtom}

\* An atom changes the slot of a content to itself or to the literal it refers to.
LEMMA ContentAfter ==
    ASSUME RTypeInv, NEW a \in Atoms, DoAtom(a), NEW c \in Contents
    PROVE  table'.byContent[c] \in {table.byContent[c], a, link.literals[a]}
<1>1. AtomsOK /\ Consistent(table)
  BY TypeSplit DEF RTypeInv
<1>2. /\ link.references[a] \in SUBSET Names /\ link.literals[a] \in Literals
  BY LinkFields DEF DoAtom, RTypeInv, ResolverTypeOK
<1>3. CASE Named(a) /\ AddThrows(table, a)
  BY <1>3 DEF DoAtom
<1>4. CASE ~ (Named(a) /\ AddThrows(table, a))
  <2>1. PICK t \in IF Named(a) THEN AddTo(table, a, Treatment) ELSE {table} :
            table' = Referring(t, link.references[a], link.literals[a])
    BY <1>4 DEF DoAtom
  <2>2. Consistent(t) /\ t.byContent[c] \in {table.byContent[c], a}
    <3>1. CASE ~ Named(a)
      BY <1>1, <2>1, <3>1
    <3>2. CASE Named(a) /\ ByName(a)
      <4>1. t \in AddByName(table, a, Treatment)
        BY <2>1, <3>2 DEF AddTo, ByName
      <4>2. QED
        BY <1>1, <4>1, AddByNameConsistent
    <3>3. CASE Named(a) /\ ~ ByName(a)
      <4>1. t = AddByContent(table, a)
        BY <2>1, <3>3 DEF AddTo, ByName
      <4>2. Consistent(t)
        BY <1>1, <4>1, AddByContentConsistent
      <4>3. t.byContent \in {table.byContent, [table.byContent EXCEPT ![atom[a].content] = a]}
        BY <1>1, <4>1
           DEF AddByContent, FindSlotForContent, ContentLoser, MarkCoalescedAway, Consistent,
               Tables
      <4>4. table.byContent \in [Contents -> Atoms \cup {NoAtom}]
        BY <1>1 DEF Consistent, Tables
      <4>5. QED
        BY <4>2, <4>3, <4>4
    <3>4. QED
      BY <3>1, <3>2, <3>3
  <2>3. table'.byContent[c] \in {t.byContent[c], link.literals[a]}
    BY <1>2, <2>1, <2>2 DEF Referring, FindSlotForContent, Consistent, Tables
  <2>4. QED
    BY <2>2, <2>3
<1>5. QED
  BY <1>3, <1>4

LEMMA NextEdges ==
    ASSUME RTypeInv, FilesInv, EdgesInv, [ResolverNext]_resolverVars
    PROVE  EdgesInv'
<1>0. /\ link \in Links /\ link' = link /\ atom' = atom /\ atom = link.attributes
      /\ WellFormed(link) /\ AtomsOK /\ Consistent(table) /\ pending \in Seq(Atoms)
      /\ known \in SUBSET Atoms
  BY InputStays, TypeSplit, ResolverAssumption DEF RTypeInv, ResolverTypeOK
<1>1. ASSUME thrown => thrown', UNCHANGED <<table, known>>, pending' = pending \/ pending = <<>>
      PROVE  EdgesInv'
  <2>1. Range(pending) \subseteq Range(pending')
    BY <1>1 DEF Range
  <2>2. QED
    BY <1>0, <1>1, <2>1 DEF EdgesInv
<1>2. ASSUME NEW a \in Atoms, DoAtom(a)  PROVE EdgesInv'
  <2> SUFFICES ASSUME ~ thrown'  PROVE EdgesInv'
    BY DEF EdgesInv
  <2>1. /\ ~ thrown /\ pending # <<>> /\ a = Head(pending) /\ pending' = Tail(pending)
        /\ known' = known \cup {a}
    BY <1>2 DEF DoAtom
  <2>2. /\ Grows(table, table') /\ link.references[a] \subseteq table'.slots
        /\ link.literals[a] # NoAtom =>
              table'.byContent[atom[link.literals[a]].content] # NoAtom
    BY <1>2, DoAtomTable
  <2>3. \A b \in known : link.literals[b] # NoAtom =>
                            table'.byContent[atom[link.literals[b]].content] # NoAtom
    <3>1. ASSUME NEW b \in known, link.literals[b] # NoAtom
          PROVE  table'.byContent[atom[link.literals[b]].content] # NoAtom
      <4>1. atom[link.literals[b]].content \in Contents
        BY <1>0, <3>1, LinkFields, AtomFields
      <4>2. QED
        BY <2>1, <2>2, <3>1, <4>1 DEF EdgesInv, Grows, Raises
    <3>2. QED
      BY <3>1
  <2>4. Range(pending) = {a} \cup Range(pending')
    <3>1. /\ pending[1] = a /\ 1 \in DOMAIN pending
          /\ \A i \in DOMAIN pending' : i + 1 \in DOMAIN pending /\ pending'[i] = pending[i + 1]
          /\ \A i \in DOMAIN pending : i = 1 \/ (i - 1 \in DOMAIN pending'
                                                 /\ pending[i] = pending'[i - 1])
      BY <1>0, <2>1
    <3>2. QED
      BY <3>1 DEF Range
  <2>5. link.literals[a] \in known \cup Range(pending) \cup {NoAtom}
    <3>1. a = pending[1] /\ 1 \in 1 .. Len(pending)
      BY <1>0, <2>1
    <3>2. ASSUME NEW f \in Begun, NEW k \in 0 .. Len(link.atoms[f]), PendingOf(f, k)
          PROVE  link.literals[a] \in known \cup Range(pending) \cup {NoAtom}
      <4>1. f \in Files /\ link.atoms[f] \in Seq(Atoms)
        BY <1>0, LinkFields DEF RTypeInv, ResolverTypeOK, Begun, Range
      <4>2. k + 1 \in DOMAIN link.atoms[f] /\ a = link.atoms[f][k + 1]
        BY <3>1, <3>2, <4>1, SMTT(40) DEF PendingOf
      <4>3. link.literals[a] # NoAtom => link.literals[a] \in Range(link.atoms[f])
        BY <1>0, <4>1, <4>2, OfFile DEF FileAtomOK
      <4>4. QED
        BY <4>3 DEF FilesInv
    <3>3. ASSUME NEW lib \in Libraries, NEW n \in Names, PendingExport(lib, n)
          PROVE  link.literals[a] = NoAtom
      <4>1. n \in DOMAIN link.exports[lib] /\ a = link.exports[lib][n]
        BY <3>1, <3>3 DEF PendingExport
      <4>2. QED
        BY <1>0, <4>1, OfDylib DEF ExportOK
    <3>4. QED
      BY <2>1, <3>2, <3>3 DEF FilesInv
  <2>6. \A c \in Contents : table'.byContent[c] \in known' \cup Range(pending') \cup {NoAtom}
    BY <1>2, <2>1, <2>4, <2>5, ContentAfter DEF EdgesInv
  <2>7. QED
    BY <1>0, <2>1, <2>2, <2>3, <2>6 DEF EdgesInv, Grows
<1>3. CASE EndInput
  <2>1. /\ ~ thrown /\ UNCHANGED <<known, pending>>
        /\ table' = [table EXCEPT !.slots = @ \cup link.undefines]
    BY <1>3 DEF EndInput, Idle
  <2>2. table'.byContent = table.byContent /\ table.slots \subseteq table'.slots
    BY <1>0, <2>1 DEF Consistent, Tables
  <2>3. QED
    BY <1>0, <2>1, <2>2 DEF EdgesInv
<1>4. CASE ReadFile \/ ResolveUndefines \/ SearchLibraries \/ UNCHANGED resolverVars
  <2>1. /\ UNCHANGED <<thrown, table, known>>
        /\ pending' = pending \/ pending = <<>>
    BY <1>4
       DEF ReadFile, ResolveUndefines, StartPass, EndUndefines, EndTentatives, EndPasses,
           EndLeftovers, OnlyLoops, SearchUndefined, SearchTentative, SearchLibraries,
           AskDylib, LoadMember, NotFound, FirstAnswer, Idle, resolverVars, tableVars
  <2>2. QED
    BY <1>1, <2>1, SMTT(40)
<1>5. QED
  BY <1>2, <1>3, <1>4 DEF ResolverNext

\* A slot holds an atom that was handed out and is kept, once nothing is pending.
LEMMA NothingDangles ==
    ASSUME RTypeInv, FilesInv, PassInv, BestInv, KeptOrThrown, EdgesInv
    PROVE  NoDanglingEdges
<1> SUFFICES ASSUME pc = "resolved", ~ thrown, NEW a \in known
             PROVE  /\ \A n \in link.references[a] :
                          /\ n \in table.slots
                          /\ HasName(table, n) =>
                                table.byName[n] \in known \ table.coalescedAway
                    /\ link.literals[a] # NoAtom =>
                          table.byContent[atom[link.literals[a]].content]
                              \in known \ table.coalescedAway
  BY DEF NoDanglingEdges, Stopped
<1>1. /\ link \in Links /\ AtomsOK /\ Consistent(table) /\ added \subseteq known
      /\ known \in SUBSET Atoms /\ KeptInv(table, added)
  BY TypeSplit DEF RTypeInv, ResolverTypeOK, KeptOrThrown
<1>2. pending = <<>>
  BY DEF PassInv
<1>3. ASSUME NEW b \in Atoms, Named(b), b = SlotAtom(table, b)
      PROVE  b \notin table.coalescedAway
  BY <1>1, <1>3 DEF KeptInv, DroppedFor
<1>4. ASSUME NEW n \in link.references[a]
      PROVE  /\ n \in table.slots
             /\ HasName(table, n) => table.byName[n] \in known \ table.coalescedAway
  <2>1. n \in table.slots /\ n \in Names
    BY <1>1, LinkFields DEF EdgesInv
  <2>2. ASSUME HasName(table, n)  PROVE table.byName[n] \in known \ table.coalescedAway
    <3>1. table.byName[n] \in AddedAs(n)
      BY <2>1, <2>2 DEF BestInv, SlotBest
    <3>2. table.byName[n] \in known /\ Named(table.byName[n])
      BY <1>1, <3>1 DEF AddedAs, BestInv
    <3>3. table.byName[n] = SlotAtom(table, table.byName[n])
      BY <3>1 DEF AddedAs, SlotAtom
    <3>4. QED
      BY <1>1, <1>3, <3>2, <3>3
  <2>3. QED
    BY <2>1, <2>2
<1>5. ASSUME link.literals[a] # NoAtom
      PROVE  table.byContent[atom[link.literals[a]].content] \in known \ table.coalescedAway
  <2> DEFINE c == atom[link.literals[a]].content
             b == table.byContent[c]
  <2>1. c \in Contents
    BY <1>1, <1>5, LinkFields, AtomFields
  <2>2. b # NoAtom /\ b \in known
    BY <1>2, <1>5, <2>1 DEF EdgesInv, Range
  <2>3. b \in Literals
    BY <1>1, <2>1, SMTT(40) DEF KeptInv
  <2>4. Named(b) /\ ~ ByName(b) /\ atom[b].content = c
    BY <1>1, <2>1, <2>2, <2>3, SMTT(40) DEF Literals, ByName, Consistent
  <2>5. b = SlotAtom(table, b)
    BY <2>4 DEF SlotAtom
  <2>6. QED
    BY Zenon, <1>1, <1>3, <2>2, <2>4, <2>5
<1>6. QED
  BY <1>4, <1>5

\* Of the graph of atoms the resolver hands on, no edge leads to an atom that was not
\* handed out or was coalesced away.
THEOREM EdgesHold ==
    NoAbsoluteCommons => (ResolverSpec /\ PrivateUnwind => []NoDanglingEdges)
<1> SUFFICES ASSUME NoAbsoluteCommons
             PROVE  ResolverSpec /\ PrivateUnwind => []NoDanglingEdges
  OBVIOUS
<1> DEFINE Inv == RInv /\ PassInv /\ BestInv /\ KeptOrThrown /\ EdgesInv
<1>1. ResolverInit /\ PrivateUnwind => Inv
  <2> SUFFICES ASSUME ResolverInit, PrivateUnwind  PROVE Inv
    OBVIOUS
  <2>1. BestInv /\ KeptOrThrown
    BY DEF ResolverInit, TableInit, BestInv, SlotBest, AddedAs, EmptyTable, HasName,
           KeptOrThrown, KeptInv, UnwindFollows, DroppedFor, Literals
  <2>2. EdgesInv
    BY DEF ResolverInit, TableInit, EmptyTable, EdgesInv
  <2>3. QED
    BY <2>1, <2>2, InitR, InitPass
<1>2. Inv /\ [ResolverNext]_resolverVars => Inv'
  <2> SUFFICES ASSUME Inv, [ResolverNext]_resolverVars  PROVE Inv'
    OBVIOUS
  <2>1. RTypeInv /\ TableTypeOK /\ FilesInv
    BY DEF RInv, RTypeInv
  <2>2. RInv' /\ PassInv' /\ EdgesInv'
    BY <2>1, NextR, NextPass, NextEdges
  <2>3. BestInv' /\ KeptOrThrown'
    BY <2>1, TableStep, NextBest, NextKept
  <2>4. QED
    BY <2>2, <2>3
<1>3. Inv => NoDanglingEdges
  BY NothingDangles DEF RInv
<1>4. QED
  BY <1>1, <1>2, <1>3, PTL DEF ResolverSpec
==============================================================================
