-------------------------- MODULE SymbolTable_proofs --------------------------
(***************************************************************************)
(* Proofs about SymbolTable, for every set of atoms, names and contents,   *)
(* whatever the attributes of the atoms.                                   *)
(***************************************************************************)
EXTENDS SymbolTable, TLAPS

\* What TableTypeOK says of a table: its type, and that slots are found by what
\* their atoms are called.
Consistent(t) ==
    /\ t \in Tables
    /\ \A n \in Names : HasName(t, n) => n \in t.slots /\ atom[t.byName[n]].name = n
    /\ \A c \in Contents : t.byContent[c] # NoAtom => atom[t.byContent[c]].content = c

AtomsOK == atom \in [Atoms -> AtomRecords]

\* No name that has a definition in t is without one in u.
KeepsNames(t, u) == \A n \in Names : HasName(t, n) => HasName(u, n)

------------------------------------------------------------------------------
(***************************************************************************)
(* The operations keep a table consistent, and its names defined.          *)
(***************************************************************************)
LEMMA AtomFields ==
    ASSUME AtomsOK, NEW a \in Atoms
    PROVE  /\ atom[a].name \in Names
           /\ atom[a].content \in Contents
           /\ atom[a].subordinates \in SUBSET Atoms
           /\ a # NoAtom
BY TableAssumption DEF AtomsOK, AtomRecords

LEMMA FindSlotForNameConsistent ==
    ASSUME NEW t, Consistent(t), NEW n \in Names
    PROVE  /\ Consistent(FindSlotForName(t, n))
           /\ FindSlotForName(t, n).byName = t.byName
           /\ FindSlotForName(t, n).byContent = t.byContent
BY DEF Consistent, FindSlotForName, HasName, Tables

LEMMA FindSlotForContentConsistent ==
    ASSUME AtomsOK, NEW t, Consistent(t), NEW a \in Atoms
    PROVE  /\ Consistent(FindSlotForContent(t, a))
           /\ FindSlotForContent(t, a).byName = t.byName
BY AtomFields DEF Consistent, FindSlotForContent, HasName, Tables

LEMMA MarkCoalescedAwayConsistent ==
    ASSUME AtomsOK, NEW t, Consistent(t), NEW a \in Atoms
    PROVE  /\ Consistent(MarkCoalescedAway(t, a))
           /\ MarkCoalescedAway(t, a).byName = t.byName
           /\ MarkCoalescedAway(t, a).byContent = t.byContent
<1>1. Group(a) \in SUBSET Atoms
  BY AtomFields DEF Group
<1>2. QED
  BY <1>1 DEF Consistent, MarkCoalescedAway, HasName, Tables

LEMMA ReportConsistent ==
    ASSUME NEW t, Consistent(t), NEW new \in Atoms, NEW old \in Atoms, NEW treatment
    PROVE  /\ Consistent(Report(t, new, old, treatment))
           /\ Report(t, new, old, treatment).byName = t.byName
           /\ Report(t, new, old, treatment).byContent = t.byContent
<1>1. ListOf(old, new) \in SUBSET Atoms
  BY DEF ListOf
<1>2. QED
  BY <1>1 DEF Consistent, Report, HasName, Tables

\* Replace() after the slot was found.
LEMMA ReplaceConsistent ==
    ASSUME AtomsOK, NEW t, Consistent(t), NEW a \in Atoms, NEW old \in Atoms \cup {NoAtom},
           atom[a].name \in t.slots
    PROVE  /\ Consistent(Replace(t, a, old))
           /\ Replace(t, a, old).byName = [t.byName EXCEPT ![atom[a].name] = a]
           /\ Replace(t, a, old).byContent = t.byContent
<1> DEFINE placed == NoteTentative([t EXCEPT !.byName[atom[a].name] = a], a)
<1>1. /\ placed \in Tables
      /\ placed.byName = [t.byName EXCEPT ![atom[a].name] = a]
      /\ placed.byContent = t.byContent
      /\ placed.slots = t.slots
  BY AtomFields DEF Consistent, Tables, NoteTentative, Tentative
<1> HIDE DEF placed
<1>2. Consistent(placed)
  <2>1. t \in Tables /\ atom[a].name \in Names /\ atom[a].content \in Contents
    BY AtomFields DEF Consistent
  <2>2. ASSUME NEW n \in Names, HasName(placed, n)
        PROVE  n \in placed.slots /\ atom[placed.byName[n]].name = n
    <3>1. CASE n = atom[a].name
      BY <1>1, <2>1, <3>1 DEF Tables
    <3>2. CASE n # atom[a].name
      <4>1. placed.byName[n] = t.byName[n]
        BY <1>1, <2>1, <3>2 DEF Tables
      <4>2. QED
        BY <1>1, <2>2, <4>1 DEF Consistent, HasName
    <3>3. QED
      BY <3>1, <3>2
  <2>3. QED
    BY <1>1, <2>2 DEF Consistent
<1>3. Replace(t, a, old) = IF old = NoAtom THEN placed ELSE MarkCoalescedAway(placed, old)
  BY DEF Replace, placed
<1>4. QED
  BY <1>1, <1>2, <1>3, MarkCoalescedAwayConsistent DEF Replace

LEMMA AddByNameConsistent ==
    ASSUME AtomsOK, NEW t, Consistent(t), NEW a \in Atoms, NEW treatment,
           NEW u \in AddByName(t, a, treatment)
    PROVE  /\ Consistent(u)
           /\ KeepsNames(t, u)
           /\ u.byContent = t.byContent
<1> DEFINE n == atom[a].name
           old == t.byName[n]
           found == FindSlotForName(t, n)
           told == IF old = NoAtom THEN found ELSE Report(found, a, old, treatment)
<1>1. n \in Names /\ a # NoAtom /\ old \in Atoms \cup {NoAtom}
  BY AtomFields DEF Consistent, Tables
<1>2. /\ Consistent(found) /\ found.byName = t.byName /\ found.byContent = t.byContent
      /\ n \in found.slots
  <2>1. n \in found.slots
    BY <1>1 DEF FindSlotForName, Consistent, Tables
  <2>2. QED
    BY <1>1, <2>1, FindSlotForNameConsistent
<1>3. /\ Consistent(told) /\ told.byName = t.byName /\ told.byContent = t.byContent
      /\ n \in told.slots
  <2>1. CASE old = NoAtom
    BY <1>2, <2>1
  <2>2. CASE old # NoAtom
    <3>1. Report(found, a, old, treatment).slots = found.slots
      BY <1>2 DEF Report, Consistent, Tables
    <3>2. QED
      BY <1>1, <1>2, <2>2, <3>1, ReportConsistent
  <2>3. QED
    BY <2>1, <2>2
<1>4. u \in {Replace(told, a, old), MarkCoalescedAway(told, a)}
  BY DEF AddByName
<1>5. PICK new \in UseNew(t, a, treatment) :
          u = IF new THEN Replace(told, a, old) ELSE MarkCoalescedAway(told, a)
  BY DEF AddByName
<1> HIDE DEF told, found
<1>6. CASE u = Replace(told, a, old)
  <2>1. /\ Consistent(u) /\ u.byName = [t.byName EXCEPT ![n] = a]
        /\ u.byContent = t.byContent
    BY <1>1, <1>3, <1>6, ReplaceConsistent
  <2>2. QED
    BY <1>1, <2>1 DEF KeepsNames, HasName, Consistent, Tables
<1>7. CASE u = MarkCoalescedAway(told, a)
  BY <1>3, <1>7, MarkCoalescedAwayConsistent DEF KeepsNames, HasName
<1>8. QED
  BY <1>4, <1>6, <1>7

LEMMA AddByContentConsistent ==
    ASSUME AtomsOK, NEW t, Consistent(t), NEW a \in Atoms
    PROVE  /\ Consistent(AddByContent(t, a))
           /\ AddByContent(t, a).byName = t.byName
<1> DEFINE c == atom[a].content
           old == t.byContent[c]
           found == FindSlotForContent(t, a)
<1>1. c \in Contents /\ a # NoAtom /\ old \in Atoms \cup {NoAtom}
  BY AtomFields DEF Consistent, Tables
<1>2. Consistent(found) /\ found.byName = t.byName
  BY FindSlotForContentConsistent
<1>3. CASE old = NoAtom
  BY <1>2, <1>3 DEF AddByContent
<1>4. CASE old # NoAtom /\ PickGreaterAlignment(a, old)
  <2> DEFINE placed == [found EXCEPT !.byContent[c] = a]
  <2>1. Consistent(placed) /\ placed.byName = t.byName
    BY <1>1, <1>2 DEF Consistent, HasName, Tables
  <2>2. QED
    BY <1>1, <1>4, <2>1, MarkCoalescedAwayConsistent DEF AddByContent
<1>5. CASE old # NoAtom /\ ~ PickGreaterAlignment(a, old)
  BY <1>2, <1>5, MarkCoalescedAwayConsistent DEF AddByContent, ContentLoser
<1>6. QED
  BY <1>3, <1>4, <1>5

LEMMA AddToConsistent ==
    ASSUME AtomsOK, NEW t, Consistent(t), NEW a \in Atoms, NEW treatment,
           NEW u \in AddTo(t, a, treatment)
    PROVE  Consistent(u) /\ KeepsNames(t, u)
<1>1. CASE atom[a].combine = "byContent"
  BY <1>1, AddByContentConsistent DEF AddTo, KeepsNames, HasName
<1>2. CASE atom[a].combine # "byContent"
  BY <1>2, AddByNameConsistent DEF AddTo
<1>3. QED
  BY <1>1, <1>2

\* The references of an atom give slots to names and to a literal, and change
\* nothing else.
LEMMA ReferringConsistent ==
    ASSUME AtomsOK, NEW t, Consistent(t), NEW names \in SUBSET Names, NEW literal \in Literals
    PROVE  /\ Consistent(Referring(t, names, literal))
           /\ Referring(t, names, literal).slots = t.slots \cup names
           /\ Referring(t, names, literal).byName = t.byName
           /\ Referring(t, names, literal).coalescedAway = t.coalescedAway
           /\ Referring(t, names, literal).errors = t.errors
           /\ Referring(t, names, literal).warnings = t.warnings
<1> DEFINE named == [t EXCEPT !.slots = @ \cup names]
<1>1. /\ Consistent(named)
      /\ named.slots = t.slots \cup names /\ named.byName = t.byName
      /\ named.coalescedAway = t.coalescedAway
      /\ named.errors = t.errors /\ named.warnings = t.warnings
  BY DEF Consistent, HasName, Tables
<1> HIDE DEF named
<1>2. CASE literal = NoAtom
  BY <1>1, <1>2 DEF Referring, named
<1>3. CASE literal \in Atoms
  <2>1. Referring(t, names, literal) = FindSlotForContent(named, literal)
    BY <1>3, TableAssumption DEF Referring, named
  <2>2. /\ FindSlotForContent(named, literal).slots = named.slots
        /\ FindSlotForContent(named, literal).coalescedAway = named.coalescedAway
        /\ FindSlotForContent(named, literal).errors = named.errors
        /\ FindSlotForContent(named, literal).warnings = named.warnings
    BY <1>1 DEF FindSlotForContent, Consistent, Tables
  <2>3. QED
    BY <1>1, <1>3, <2>1, <2>2, FindSlotForContentConsistent
<1>4. QED
  BY <1>2, <1>3 DEF Literals

------------------------------------------------------------------------------
(***************************************************************************)
(* Type correctness, and that what is defined stays so.                    *)
(***************************************************************************)
LEMMA TypeSplit == TableTypeOK <=> /\ AtomsOK /\ Consistent(table)
                                   /\ added \in SUBSET Atoms
                                   /\ initial \in BOOLEAN /\ thrown \in BOOLEAN
BY DEF TableTypeOK, AtomsOK, Consistent

LEMMA InitType == TableInit => TableTypeOK
<1> SUFFICES ASSUME TableInit  PROVE TableTypeOK
  OBVIOUS
<1>1. AtomsOK
  BY TableAssumption DEF TableInit, AtomsOK
<1>2. Consistent(EmptyTable)
  <2>1. EmptyTable \in Tables
    BY DEF EmptyTable, Tables
  <2>2. QED
    BY <2>1 DEF Consistent, EmptyTable, HasName
<1>3. QED
  BY <1>1, <1>2, TypeSplit DEF TableInit

LEMMA NextType ==
    ASSUME TableTypeOK, [TableNext]_tableVars
    PROVE  TableTypeOK' /\ KeepsNames(table, table')
<1>0. /\ AtomsOK /\ Consistent(table) /\ added \in SUBSET Atoms
      /\ initial \in BOOLEAN /\ thrown \in BOOLEAN
  BY TypeSplit
<1> DEFINE Goal == /\ atom' = atom
                   /\ Consistent(table') /\ KeepsNames(table, table')
                   /\ added' \in SUBSET Atoms
                   /\ initial' \in BOOLEAN /\ thrown' \in BOOLEAN
<1>1. ASSUME NEW a \in Atoms, Add(a)  PROVE Goal
  <2>1. Consistent(table') /\ KeepsNames(table, table')
    <3>1. CASE AddThrows(table, a)
      BY <1>0, <1>1, <3>1 DEF Add, KeepsNames
    <3>2. CASE ~ AddThrows(table, a)
      <4>1. PICK t \in AddTo(table, a, Treatment),
                 names \in SUBSET Names, literal \in Literals :
              table' = Referring(t, names, literal)
        BY <1>1, <3>2 DEF Add
      <4>2. Consistent(t) /\ KeepsNames(table, t)
        BY <1>0, AddToConsistent
      <4>3. QED
        BY <1>0, <4>1, <4>2, ReferringConsistent DEF KeepsNames, HasName
    <3>3. QED
      BY <3>1, <3>2
  <2>2. /\ atom' = atom /\ added' \in SUBSET Atoms
        /\ initial' \in BOOLEAN /\ thrown' \in BOOLEAN
    BY <1>0, <1>1 DEF Add
  <2>3. QED
    BY <2>1, <2>2
<1>2. ASSUME AddStatic  PROVE Goal
  <2>0. PICK names \in SUBSET Names, literal \in Literals :
            table' = Referring(table, names, literal)
    BY <1>2 DEF AddStatic
  <2>1. Consistent(table') /\ table'.byName = table.byName
    BY <1>0, <2>0, ReferringConsistent
  <2>2. QED
    BY <1>0, <1>2, <2>1 DEF AddStatic, KeepsNames, HasName
<1>4. ASSUME CompleteInitialObjectFiles  PROVE Goal
  <2>1. Consistent(table') /\ table'.byName = table.byName
    BY <1>0, <1>4, ReferringConsistent DEF CompleteInitialObjectFiles, Literals
  <2>2. QED
    BY <1>0, <1>4, <2>1 DEF CompleteInitialObjectFiles, KeepsNames, HasName
<1>5. ASSUME UNCHANGED tableVars  PROVE Goal
  BY <1>0, <1>5 DEF tableVars, KeepsNames
<1>6. Goal
  BY <1>1, <1>2, <1>4, <1>5 DEF TableNext
<1>7. TableTypeOK'
  BY <1>0, <1>6 DEF TableTypeOK, AtomsOK, Consistent, HasName
<1>8. QED
  BY <1>6, <1>7

\* The table has its types, and a slot holds an atom of its name or content.
THEOREM TypeCorrect == TableSpec => []TableTypeOK
<1>1. TableTypeOK /\ [TableNext]_tableVars => TableTypeOK'
  BY NextType
<1>2. QED
  BY InitType, <1>1, PTL DEF TableSpec

------------------------------------------------------------------------------
(***************************************************************************)
(* The alignment of a literal.                                             *)
(***************************************************************************)
\* The content of every literal that was added has an atom, aligned at least as
\* the literal is.
AlignedInv(t) ==
    \A a \in added :
        ~ ByName(a) =>
            /\ t.byContent[atom[a].content] # NoAtom
            /\ atom[t.byContent[atom[a].content]].alignment >= atom[a].alignment

\* A slot of a content never gets an atom that is less aligned.
Raises(t, u) ==
    \A c \in Contents :
        t.byContent[c] # NoAtom =>
            /\ u.byContent[c] # NoAtom
            /\ atom[u.byContent[c]].alignment >= atom[t.byContent[c]].alignment

LEMMA FindSlotForContentRaises ==
    ASSUME AtomsOK, NEW t, Consistent(t), NEW a \in Atoms
    PROVE  Raises(t, FindSlotForContent(t, a))
<1>1. atom[a].content \in Contents
  BY AtomFields
<1>2. \A b \in Atoms : atom[b].alignment \in Nat
  BY DEF AtomsOK, AtomRecords
<1>3. QED
  BY <1>1, <1>2 DEF Raises, FindSlotForContent, Consistent, Tables

LEMMA ReferringRaises ==
    ASSUME AtomsOK, NEW t, Consistent(t), NEW names \in SUBSET Names, NEW literal \in Literals
    PROVE  Raises(t, Referring(t, names, literal))
<1> DEFINE named == [t EXCEPT !.slots = @ \cup names]
<1>1. Consistent(named) /\ named.byContent = t.byContent
  BY DEF Consistent, HasName, Tables
<1>2. \A b \in Atoms : atom[b].alignment \in Nat
  BY DEF AtomsOK, AtomRecords
<1> HIDE DEF named
<1>3. CASE literal = NoAtom
  <2>1. Referring(t, names, literal) = named
    BY <1>3 DEF Referring, named
  <2>2. QED
    BY <1>1, <1>2, <2>1 DEF Raises, Consistent, Tables
<1>4. CASE literal \in Atoms
  <2>1. Referring(t, names, literal) = FindSlotForContent(named, literal)
    BY <1>4, TableAssumption DEF Referring, named
  <2>2. Raises(named, FindSlotForContent(named, literal))
    BY <1>1, <1>4, FindSlotForContentRaises
  <2>3. QED
    BY <1>1, <2>1, <2>2 DEF Raises
<1>5. QED
  BY <1>3, <1>4 DEF Literals

LEMMA AddByContentRaises ==
    ASSUME AtomsOK, NEW t, Consistent(t), NEW a \in Atoms
    PROVE  /\ Raises(t, AddByContent(t, a))
           /\ AddByContent(t, a).byContent[atom[a].content] # NoAtom
           /\ atom[AddByContent(t, a).byContent[atom[a].content]].alignment
                 >= atom[a].alignment
<1> DEFINE c == atom[a].content
           old == t.byContent[c]
           found == FindSlotForContent(t, a)
           new == AddByContent(t, a)
<1>1. c \in Contents /\ a # NoAtom /\ old \in Atoms \cup {NoAtom}
  BY AtomFields DEF Consistent, Tables
<1>2. \A b \in Atoms : atom[b].alignment \in Nat
  BY DEF AtomsOK, AtomRecords
<1>3. CASE old = NoAtom
  <2>1. new = found /\ found.byContent[c] = a
    BY <1>1, <1>3 DEF AddByContent, FindSlotForContent, Consistent, Tables
  <2>2. QED
    BY <1>1, <1>2, <2>1, FindSlotForContentRaises
<1>4. CASE old # NoAtom /\ PickGreaterAlignment(a, old)
  <2>1. found = t
    BY <1>4 DEF FindSlotForContent
  <2>2. new.byContent = [t.byContent EXCEPT ![c] = a]
    BY <1>4, <2>1 DEF AddByContent, MarkCoalescedAway, Consistent, Tables
  <2>3. QED
    BY <1>1, <1>2, <1>4, <2>2 DEF Raises, PickGreaterAlignment, Consistent, Tables
<1>5. CASE old # NoAtom /\ ~ PickGreaterAlignment(a, old)
  <2>1. found = t
    BY <1>5 DEF FindSlotForContent
  <2>2. new.byContent = t.byContent
    BY <1>5, <2>1 DEF AddByContent, ContentLoser, MarkCoalescedAway, Consistent, Tables
  <2>3. QED
    BY <1>1, <1>2, <1>5, <2>2 DEF Raises, PickGreaterAlignment, Consistent, Tables
<1>6. QED
  BY <1>3, <1>4, <1>5

LEMMA RaisesKeepsAligned ==
    ASSUME AtomsOK, added \in SUBSET Atoms, NEW t, NEW u, Consistent(t), Consistent(u),
           Raises(t, u), AlignedInv(t)
    PROVE  AlignedInv(u)
<1>1. ASSUME NEW a \in added, ~ ByName(a)
      PROVE  /\ u.byContent[atom[a].content] # NoAtom
             /\ atom[u.byContent[atom[a].content]].alignment >= atom[a].alignment
  <2>1. a \in Atoms /\ atom[a].content \in Contents
    BY AtomFields
  <2>2. \A b \in Atoms : atom[b].alignment \in Nat
    BY DEF AtomsOK, AtomRecords
  <2>3. /\ t.byContent[atom[a].content] \in Atoms \cup {NoAtom}
        /\ u.byContent[atom[a].content] \in Atoms \cup {NoAtom}
    BY <2>1 DEF Consistent, Tables
  <2>4. QED
    BY <1>1, <2>1, <2>2, <2>3 DEF Raises, AlignedInv
<1>2. QED
  BY <1>1 DEF AlignedInv

LEMMA NextAligned ==
    ASSUME TableTypeOK, AlignedInv(table), [TableNext]_tableVars
    PROVE  AlignedInv(table)'
<1>0. /\ AtomsOK /\ Consistent(table) /\ added \in SUBSET Atoms
  BY TypeSplit
<1>1. TableTypeOK' /\ atom' = atom
  BY NextType DEF TableNext, tableVars, Add, AddStatic, CompleteInitialObjectFiles
<1>2. Consistent(table')
  BY <1>1 DEF TableTypeOK, Consistent, HasName
<1>3. ASSUME Raises(table, table'), added' = added  PROVE AlignedInv(table)'
  BY <1>0, <1>1, <1>2, <1>3, RaisesKeepsAligned DEF AlignedInv, ByName
<1>4. ASSUME UNCHANGED <<table, added>>  PROVE AlignedInv(table)'
  BY <1>1, <1>4 DEF AlignedInv, ByName
<1>5. ASSUME NEW a \in Atoms, Add(a)  PROVE AlignedInv(table)'
  <2>1. added' = added \cup {a}
    BY <1>5 DEF Add
  <2>2. CASE AddThrows(table, a)
    <3>1. ByName(a) /\ table' = table
      BY <1>5, <2>2 DEF Add, AddThrows, ByName
    <3>2. QED
      BY <1>1, <2>1, <3>1 DEF AlignedInv, ByName
  <2>3. CASE ~ AddThrows(table, a)
    <3>1. PICK t \in AddTo(table, a, Treatment),
               names \in SUBSET Names, literal \in Literals :
            table' = Referring(t, names, literal)
      BY <1>5, <2>3 DEF Add
    <3>2. Consistent(t) /\ Raises(t, table')
      BY <1>0, <3>1, AddToConsistent, ReferringRaises
    <3>3. CASE ByName(a)
      <4>1. t.byContent = table.byContent
        BY <1>0, <3>3, AddByNameConsistent DEF AddTo, ByName
      <4>2. AlignedInv(t)
        BY <4>1 DEF AlignedInv
      <4>3. AlignedInv(table')
        BY <1>0, <1>2, <3>2, <4>2, RaisesKeepsAligned
      <4>4. QED
        BY <1>1, <2>1, <3>3, <4>3 DEF AlignedInv, ByName
    <3>4. CASE ~ ByName(a)
      <4>1. t = AddByContent(table, a)
        BY <3>4 DEF AddTo, ByName
      <4>2. AlignedInv(t)
        BY <1>0, <3>2, <4>1, AddByContentRaises, RaisesKeepsAligned
      <4>3. AlignedInv(table')
        BY <1>0, <1>2, <3>2, <4>2, RaisesKeepsAligned
      <4>4. /\ t.byContent[atom[a].content] # NoAtom
            /\ atom[t.byContent[atom[a].content]].alignment >= atom[a].alignment
        BY <1>0, <4>1, AddByContentRaises
      <4>5. /\ table'.byContent[atom[a].content] # NoAtom
            /\ atom[table'.byContent[atom[a].content]].alignment >= atom[a].alignment
        <5>1. \A b \in Atoms : atom[b].alignment \in Nat /\ atom[b].content \in Contents
          BY <1>0 DEF AtomsOK, AtomRecords
        <5>2. /\ t.byContent \in [Contents -> Atoms \cup {NoAtom}]
              /\ table'.byContent \in [Contents -> Atoms \cup {NoAtom}]
          BY <1>2, <3>2 DEF Consistent, Tables
        <5>3. QED
          BY <3>2, <4>4, <5>1, <5>2 DEF Raises
      <4>6. QED
        BY <1>1, <2>1, <4>3, <4>5 DEF AlignedInv, ByName
    <3>5. QED
      BY <3>3, <3>4
  <2>4. QED
    BY <2>2, <2>3
<1>6. ASSUME AddStatic  PROVE AlignedInv(table)'
  BY <1>0, <1>3, <1>6, ReferringRaises DEF AddStatic
<1>7. ASSUME CompleteInitialObjectFiles  PROVE AlignedInv(table)'
  BY <1>0, <1>3, <1>7, ReferringRaises DEF CompleteInitialObjectFiles, Literals
<1>8. QED
  BY <1>4, <1>5, <1>6, <1>7 DEF TableNext, tableVars

\* The constant kept for a content meets every alignment asked for.
THEOREM AlignmentMet == TableSpec => []ContentAligned
<1>1. TableInit => AlignedInv(table)
  BY DEF TableInit, AlignedInv
<1>2. TableTypeOK /\ AlignedInv(table) /\ [TableNext]_tableVars => AlignedInv(table)'
  BY NextAligned
<1>3. AlignedInv(table) => ContentAligned
  BY DEF AlignedInv, ContentAligned
<1>4. QED
  BY TypeCorrect, <1>1, <1>2, <1>3, PTL DEF TableSpec

------------------------------------------------------------------------------
(***************************************************************************)
(* The winner.  Worth orders the definitions of a name; what pickAtom()    *)
(* picks is worth no less than what it drops, so that the slot, by         *)
(* induction, is worth no less than anything that was added.               *)
(***************************************************************************)
Worths == [1 .. 5 -> Int]

\* The order, written out.
Beyond(v, w) ==
    \/ v[1] > w[1]
    \/ v[1] = w[1] /\ v[2] > w[2]
    \/ v[1] = w[1] /\ v[2] = w[2] /\ v[3] > w[3]
    \/ v[1] = w[1] /\ v[2] = w[2] /\ v[3] = w[3] /\ v[4] > w[4]
    \/ v[1] = w[1] /\ v[2] = w[2] /\ v[3] = w[3] /\ v[4] = w[4] /\ v[5] > w[5]

LEMMA WorthMoreIsBeyond ==
    ASSUME NEW v \in Worths, NEW w \in Worths
    PROVE  WorthMore(v, w) <=> Beyond(v, w)
<1> DEFINE At(i) == v[i] > w[i] /\ \A j \in 1 .. i - 1 : v[j] = w[j]
<1>1. WorthMore(v, w) <=> At(1) \/ At(2) \/ At(3) \/ At(4) \/ At(5)
  <2>1. 1 .. 5 = {1, 2, 3, 4, 5}
    OBVIOUS
  <2>2. QED
    BY <2>1, Zenon DEF WorthMore
<1>2. /\ 1 .. 1 - 1 = {} /\ 1 .. 2 - 1 = {1} /\ 1 .. 3 - 1 = {1, 2}
      /\ 1 .. 4 - 1 = {1, 2, 3} /\ 1 .. 5 - 1 = {1, 2, 3, 4}
  OBVIOUS
<1>3. QED
  BY <1>1, <1>2 DEF Beyond

\* What is not beyond something that is not beyond a third is not beyond that.
LEMMA NotBeyondTransitive ==
    ASSUME NEW u \in Worths, NEW v \in Worths, NEW w \in Worths,
           ~ WorthMore(u, v), ~ WorthMore(v, w)
    PROVE  ~ WorthMore(u, w)
<1>1. \A i \in 1 .. 5 : u[i] \in Int /\ v[i] \in Int /\ w[i] \in Int
  BY DEF Worths
<1>2. QED
  BY <1>1, WorthMoreIsBeyond DEF Beyond

\* Worth, by the kind of the definition.
LEMMA WorthByKind ==
    ASSUME AtomsOK, NEW a \in Atoms
    PROVE  /\ Worth(a) \in Worths
           /\ Regular(a) /\ Weak(a) =>
                 /\ Worth(a)[1] = 5 /\ Worth(a)[2] = Flag(~ atom[a].lto)
                 /\ Worth(a)[3] = Flag(~ atom[a].autoHide)
                 /\ Worth(a)[4] = Flag(~ atom[a].autoHide /\ atom[a].scope = "global")
                 /\ Worth(a)[5] = atom[a].alignment
           /\ Regular(a) /\ ~ Weak(a) =>
                 /\ Worth(a)[1] = 6 /\ Worth(a)[2] = Flag(atom[a].machHeader)
                 /\ Worth(a)[3] = IF atom[a].machHeader THEN 0 ELSE atom[a].ordinal
                 /\ Worth(a)[4] = 0 /\ Worth(a)[5] = 0
           /\ Tentative(a) =>
                 /\ Worth(a)[1] = (IF Overridden THEN 1 ELSE 4)
                 /\ Worth(a)[2] = atom[a].size /\ Worth(a)[3] = atom[a].ordinal
                 /\ Worth(a)[4] = 0 /\ Worth(a)[5] = 0
           /\ Proxy(a) =>
                 /\ Worth(a)[1] = 3 /\ Worth(a)[2] = Flag(~ Weak(a))
                 /\ Worth(a)[3] = 0 /\ Worth(a)[4] = 0 /\ Worth(a)[5] = 0
<1>1. /\ atom[a].alignment \in Int /\ atom[a].ordinal \in Int /\ atom[a].size \in Int
  BY DEF AtomsOK, AtomRecords
<1>2. \A b : Flag(b) \in Int
  BY DEF Flag
<1>3. CASE Regular(a) /\ Weak(a)
  <2>1. Worth(a) = <<5, Flag(~ atom[a].lto), Flag(~ atom[a].autoHide),
                     Flag(~ atom[a].autoHide /\ atom[a].scope = "global"),
                     atom[a].alignment>>
    BY <1>3 DEF Worth
  <2>2. Worth(a) \in Worths
    BY <1>1, <1>2, <2>1 DEF Worths
  <2>3. QED
    BY <1>3, <2>1, <2>2 DEF Regular, Tentative, Proxy
<1>4. CASE Regular(a) /\ ~ Weak(a)
  <2>1. Worth(a) = <<6, Flag(atom[a].machHeader),
                     IF atom[a].machHeader THEN 0 ELSE atom[a].ordinal, 0, 0>>
    BY <1>4 DEF Worth
  <2>2. Worth(a) \in Worths
    BY <1>1, <1>2, <2>1 DEF Worths
  <2>3. QED
    BY <1>4, <2>1, <2>2 DEF Regular, Tentative, Proxy
<1>5. CASE Tentative(a)
  <2>1. Worth(a) = <<IF Overridden THEN 1 ELSE 4, atom[a].size, atom[a].ordinal, 0, 0>>
    BY <1>5 DEF Worth, Tentative, Regular
  <2>2. Worth(a) \in Worths
    BY <1>1, <2>1 DEF Worths
  <2>3. QED
    BY <1>5, <2>1, <2>2 DEF Regular, Tentative, Proxy
<1>6. CASE ~ Regular(a) /\ ~ Tentative(a)
  <2>1. Worth(a) = <<3, Flag(~ Weak(a)), 0, 0, 0>>
    BY <1>6 DEF Worth
  <2>2. Worth(a) \in Worths
    BY <1>2, <2>1 DEF Worths
  <2>3. QED
    BY <1>6, <2>1, <2>2
<1>7. QED
  BY <1>3, <1>4, <1>5, <1>6

\* The atom that is dropped is not worth more than the one that is picked.
LEMMA PickIsBest ==
    ASSUME AtomsOK, NEW a \in Atoms, NEW b \in Atoms, NEW treatment,
           ~ Absolute(a), ~ Absolute(b), Named(a), Named(b), ~ PickThrows(a, b),
           ~ (Clash(a, b) /\ treatment = "error"),
           NEW new \in PickAtom(a, b, treatment)
    PROVE  /\ new => ~ WorthMore(Worth(b), Worth(a))
           /\ ~ new => ~ WorthMore(Worth(a), Worth(b))
<1> DEFINE v == Worth(a)
           w == Worth(b)
<1>1. /\ WorthMore(v, w) <=> Beyond(v, w)
      /\ WorthMore(w, v) <=> Beyond(w, v)
      /\ v[1] \in Int /\ v[2] \in Int /\ v[3] \in Int /\ v[4] \in Int /\ v[5] \in Int
      /\ w[1] \in Int /\ w[2] \in Int /\ w[3] \in Int /\ w[4] \in Int /\ w[5] \in Int
  <2>1. v \in Worths /\ w \in Worths
    BY WorthByKind
  <2>2. QED
    BY <2>1, WorthMoreIsBeyond DEF Worths
<1>2. /\ Regular(a) \/ Tentative(a) \/ Proxy(a)
      /\ Regular(b) \/ Tentative(b) \/ Proxy(b)
  BY DEF Regular, Tentative, Proxy, Absolute, AtomsOK, AtomRecords, Definitions
<1>3. /\ atom[a].alignment \in Nat /\ atom[a].ordinal \in Nat /\ atom[a].size \in Nat
      /\ atom[b].alignment \in Nat /\ atom[b].ordinal \in Nat /\ atom[b].size \in Nat
      /\ atom[a].lto \in BOOLEAN /\ atom[a].autoHide \in BOOLEAN
      /\ atom[b].lto \in BOOLEAN /\ atom[b].autoHide \in BOOLEAN
      /\ atom[a].machHeader \in BOOLEAN /\ atom[b].machHeader \in BOOLEAN
      /\ atom[a].scope \in {"linkageUnit", "global"}
      /\ atom[b].scope \in {"linkageUnit", "global"}
  BY DEF AtomsOK, AtomRecords, Named, Scopes
<1>4. CASE Regular(a) /\ Regular(b)
  <2>1. PickAtom(a, b, treatment) = PickBetweenRegular(a, b, treatment)
    BY <1>4 DEF PickAtom
  <2>2. CASE Clash(a, b)
    <3>1. new <=> PickLowerOrdinal(a, b)
      BY <1>4, <2>1, <2>2 DEF PickBetweenRegular
    <3>2. v[1] = w[1] /\ v[2] = w[2] /\ v[4] = w[4] /\ v[5] = w[5]
          /\ v[3] = atom[a].ordinal /\ w[3] = atom[b].ordinal
      BY <2>2, WorthByKind DEF Clash, Flag
    <3>3. QED
      BY <1>1, <1>3, <3>1, <3>2 DEF Beyond, PickLowerOrdinal
  <2>3. CASE ~ Clash(a, b) /\ Weak(a) /\ Weak(b)
    <3>1. new <=> PickBetweenWeak(a, b)
      BY <2>1, <2>3 DEF PickBetweenRegular
    <3>2. /\ v[1] = w[1]
          /\ v[2] = Flag(~ atom[a].lto) /\ w[2] = Flag(~ atom[b].lto)
          /\ v[3] = Flag(~ atom[a].autoHide) /\ w[3] = Flag(~ atom[b].autoHide)
          /\ v[4] = Flag(~ atom[a].autoHide /\ atom[a].scope = "global")
          /\ w[4] = Flag(~ atom[b].autoHide /\ atom[b].scope = "global")
          /\ v[5] = atom[a].alignment /\ w[5] = atom[b].alignment
      BY <1>4, <2>3, WorthByKind
    <3>3. QED
      BY <1>1, <1>3, <3>1, <3>2
      DEF Beyond, PickBetweenWeak, PickVisible, PickGreaterAlignment, Flag
  <2>4. CASE ~ Clash(a, b) /\ ~ (Weak(a) /\ Weak(b))
    <3> DEFINE keeps == Weak(b) \/ (~ Weak(a) /\ atom[a].machHeader)
    <3>0. new = keeps
      BY <2>1, <2>4, Zenon DEF PickBetweenRegular
    <3>1. new <=> keeps
      BY <3>0
    <3>2. QED
      BY <1>1, <1>3, <1>4, <2>4, <3>1, WorthByKind DEF Beyond, Clash, Flag
  <2>5. QED
    BY <2>2, <2>3, <2>4
<1>5. CASE Regular(a) /\ ~ Regular(b)
  <2>1. new = TRUE
    BY <1>2, <1>5 DEF PickAtom, Defeats, Regular, Tentative, Proxy
  <2>2. v[1] > w[1]
    BY <1>2, <1>5, WorthByKind
  <2>3. QED
    BY <1>1, <2>1, <2>2 DEF Beyond
<1>6. CASE ~ Regular(a) /\ Regular(b)
  <2>1. new = FALSE
    BY <1>2, <1>6 DEF PickAtom, Defeats, DefeatedBy, Regular, Tentative, Proxy
  <2>2. w[1] > v[1]
    BY <1>2, <1>6, WorthByKind
  <2>3. QED
    BY <1>1, <2>1, <2>2 DEF Beyond
<1>7. CASE Tentative(a) /\ Tentative(b)
  <2>1. new <=> PickLargerSize(a, b)
    BY <1>7 DEF PickAtom, Defeats, DefeatedBy, Tentative, Regular
  <2>2. /\ v[1] = w[1] /\ v[2] = atom[a].size /\ w[2] = atom[b].size
        /\ v[3] = atom[a].ordinal /\ w[3] = atom[b].ordinal
        /\ v[4] = w[4] /\ v[5] = w[5]
    BY <1>7, WorthByKind
  <2>3. QED
    BY <1>1, <1>3, <2>1, <2>2 DEF Beyond, PickLargerSize, PickLowerOrdinal
<1>8. CASE (Tentative(a) /\ Proxy(b)) \/ (Proxy(a) /\ Tentative(b))
  <2>1. new <=> PickCommonsMode(a, b)
    BY <1>8 DEF PickAtom, Defeats, DefeatedBy, Tentative, Proxy, Regular, Absolute
  <2>2. CommonsMode # "conflictsError"
    BY <1>8 DEF PickThrows
  <2>3. CommonsMode = "ignoreDylibs" <=> ~ Overridden
    BY <2>2, TableAssumption DEF Overridden
  <2>4. ~ (Tentative(a) /\ Proxy(a)) /\ ~ (Tentative(b) /\ Proxy(b))
    BY DEF Tentative, Proxy
  <2>5. QED
    BY <1>1, <1>8, <2>1, <2>3, <2>4, WorthByKind DEF Beyond, PickCommonsMode
<1>9. CASE Proxy(a) /\ Proxy(b)
  <2>1. new <=> ~ Weak(a)
    BY <1>9 DEF PickAtom, Defeats, DefeatedBy, Proxy, Tentative, Regular
  <2>2. Weak(a) \/ Weak(b)
    BY <1>9 DEF PickThrows
  <2>3. /\ v[1] = w[1] /\ v[2] = Flag(~ Weak(a)) /\ w[2] = Flag(~ Weak(b))
        /\ v[3] = w[3] /\ v[4] = w[4] /\ v[5] = w[5]
    BY <1>9, WorthByKind
  <2>4. QED
    BY <1>1, <2>1, <2>2, <2>3 DEF Beyond, Flag
<1>10. QED
  BY <1>2, <1>4, <1>5, <1>6, <1>7, <1>8, <1>9

\* What add() of a named atom does to the slots, to the lists of clashes and to the
\* atoms that are coalesced away.
LEMMA AddByNameSlots ==
    ASSUME AtomsOK, NEW t, Consistent(t), NEW a \in Atoms, NEW treatment,
           NEW u \in AddByName(t, a, treatment)
    PROVE  LET old == t.byName[atom[a].name]
               with == [t.byName EXCEPT ![atom[a].name] = a]
           IN  /\ t.errors \subseteq u.errors /\ t.warnings \subseteq u.warnings
               /\ old = NoAtom => u.byName = with /\ u.coalescedAway = t.coalescedAway
               /\ old # NoAtom =>
                     /\ \E new \in PickAtom(a, old, treatment) :
                           /\ u.byName = IF new THEN with ELSE t.byName
                           /\ u.coalescedAway =
                                 t.coalescedAway \cup Group(IF new THEN old ELSE a)
                     /\ Clash(a, old) /\ treatment = "error"
                           => ListOf(old, a) \in u.errors
                     /\ Duplicates(a, old) /\ treatment # "suppress"
                           => ListOf(old, a) \in u.errors \cup u.warnings
<1> DEFINE n == atom[a].name
           old == t.byName[n]
           with == [t.byName EXCEPT ![n] = a]
           found == FindSlotForName(t, n)
           told == IF old = NoAtom THEN found ELSE Report(found, a, old, treatment)
<1>1. n \in Names /\ old \in Atoms \cup {NoAtom} /\ t \in Tables
  BY AtomFields DEF Consistent, Tables
<1>2. /\ found \in Tables /\ found.byName = t.byName /\ found.errors = t.errors
      /\ found.warnings = t.warnings /\ found.coalescedAway = t.coalescedAway
  BY <1>1 DEF FindSlotForName, Tables
<1> HIDE DEF found
<1>3. /\ told \in Tables /\ told.byName = t.byName
      /\ told.coalescedAway = t.coalescedAway
      /\ t.errors \subseteq told.errors /\ t.warnings \subseteq told.warnings
      /\ old # NoAtom /\ Clash(a, old) /\ treatment = "error"
            => ListOf(old, a) \in told.errors
      /\ old # NoAtom /\ Duplicates(a, old) /\ treatment # "suppress"
            => ListOf(old, a) \in told.errors \cup told.warnings
  <2>1. CASE old = NoAtom
    BY <1>2, <2>1, SMTT(40)
  <2>2. CASE old # NoAtom
    <3>1. ListOf(old, a) \in SUBSET Atoms
      BY <1>1, <2>2 DEF ListOf
    <3>2. told = Report(found, a, old, treatment)
      BY <2>2
    <3>3. Clash(a, old) => Duplicates(a, old)
      BY DEF Duplicates
    <3>4. QED
      BY <1>2, <2>2, <3>1, <3>2, <3>3, SMTT(40) DEF Report, Tables
  <2>3. QED
    BY <2>1, <2>2
<1> HIDE DEF told
<1>4. \A x : /\ MarkCoalescedAway(told, x).byName = told.byName
             /\ MarkCoalescedAway(told, x).errors = told.errors
             /\ MarkCoalescedAway(told, x).warnings = told.warnings
             /\ MarkCoalescedAway(told, x).coalescedAway = told.coalescedAway \cup Group(x)
  BY <1>3 DEF MarkCoalescedAway, Tables
<1>5. /\ Replace(told, a, old).byName = with
      /\ Replace(told, a, old).errors = told.errors
      /\ Replace(told, a, old).warnings = told.warnings
      /\ Replace(told, a, old).coalescedAway =
            told.coalescedAway \cup IF old = NoAtom THEN {} ELSE Group(old)
  <2> DEFINE placed == NoteTentative([told EXCEPT !.byName[n] = a], a)
  <2>1. /\ placed.byName = with /\ placed.errors = told.errors
        /\ placed.warnings = told.warnings /\ placed.coalescedAway = told.coalescedAway
    BY <1>1, <1>3 DEF NoteTentative, Tables
  <2>2. /\ MarkCoalescedAway(placed, old).byName = placed.byName
        /\ MarkCoalescedAway(placed, old).errors = placed.errors
        /\ MarkCoalescedAway(placed, old).warnings = placed.warnings
        /\ MarkCoalescedAway(placed, old).coalescedAway
              = placed.coalescedAway \cup Group(old)
    BY <1>1, <1>3 DEF MarkCoalescedAway, NoteTentative, Tables
  <2>3. QED
    BY <2>1, <2>2 DEF Replace
<1>6. PICK new \in UseNew(t, a, treatment) :
          u = IF new THEN Replace(told, a, old) ELSE MarkCoalescedAway(told, a)
  BY DEF AddByName, told, found
<1>7. /\ u.errors = told.errors /\ u.warnings = told.warnings
      /\ u.byName = IF new THEN with ELSE t.byName
      /\ u.coalescedAway = t.coalescedAway \cup
            IF new THEN IF old = NoAtom THEN {} ELSE Group(old) ELSE Group(a)
  BY <1>3, <1>4, <1>5, <1>6
<1>8. /\ old = NoAtom => new = TRUE
      /\ old # NoAtom => new \in PickAtom(a, old, treatment)
  BY <1>6 DEF UseNew
<1>9. QED
  BY <1>3, <1>7, <1>8

\* The same of the step that adds it and makes the slots it refers to.
LEMMA AddNamedStep ==
    ASSUME TableTypeOK, NEW a \in Atoms, Add(a), ByName(a), ~ AddThrows(table, a)
    PROVE  LET old == table.byName[atom[a].name]
               with == [table.byName EXCEPT ![atom[a].name] = a]
           IN  /\ table.errors \subseteq table'.errors
               /\ table.warnings \subseteq table'.warnings
               /\ old = NoAtom =>
                     table'.byName = with /\ table'.coalescedAway = table.coalescedAway
               /\ old # NoAtom =>
                     /\ \E new \in PickAtom(a, old, Treatment) :
                           /\ table'.byName = IF new THEN with ELSE table.byName
                           /\ table'.coalescedAway =
                                 table.coalescedAway \cup Group(IF new THEN old ELSE a)
                     /\ Clash(a, old) /\ Treatment = "error"
                           => ListOf(old, a) \in table'.errors
                     /\ Duplicates(a, old) /\ Treatment # "suppress"
                           => ListOf(old, a) \in table'.errors \cup table'.warnings
<1>1. AtomsOK /\ Consistent(table)
  BY TypeSplit
<1>2. PICK t \in AddByName(table, a, Treatment), names \in SUBSET Names, literal \in Literals :
        table' = Referring(t, names, literal)
  BY DEF Add, AddTo, ByName
<1>3. Consistent(t)
  BY <1>1, AddByNameConsistent
<1>4. /\ table'.byName = t.byName /\ table'.coalescedAway = t.coalescedAway
      /\ table'.errors = t.errors /\ table'.warnings = t.warnings
  BY <1>1, <1>2, <1>3, ReferringConsistent
<1>5. QED
  BY <1>1, <1>4, AddByNameSlots

\* A name that WinnerIsBest leaves out.
LeftOut(n) ==
    \/ \E a \in AddedAs(n) : Absolute(a)
    \/ \E list \in table.errors : \E a \in list : atom[a].name = n
    \/ thrown

\* The slot of a name holds one of the atoms that were added by it, if there is one,
\* and none of them is worth more.
SlotBest(n) ==
    /\ HasName(table, n) => table.byName[n] \in AddedAs(n)
    /\ AddedAs(n) # {} => HasName(table, n)
    /\ LeftOut(n) \/ \A a \in AddedAs(n) : ~ WorthMore(Worth(a), Worth(table.byName[n]))

BestInv ==
    /\ \A a \in added : Named(a)
    /\ \A n \in Names : SlotBest(n)

\* A step that leaves the slots and the atoms of a name alone.
LEMMA SameName ==
    ASSUME NEW n \in Names, SlotBest(n), atom' = atom, AddedAs(n)' = AddedAs(n),
           table'.byName[n] = table.byName[n], table.errors \subseteq table'.errors,
           thrown => thrown'
    PROVE  SlotBest(n)'
<1>1. LeftOut(n) => LeftOut(n)'
  BY DEF LeftOut, Absolute
<1>2. HasName(table, n)' <=> HasName(table, n)
  BY DEF HasName
<1>3. \A a : Worth(a)' = Worth(a)
  BY DEF Worth, Regular, Weak, Tentative, Overridden, Flag
<1>4. QED
  BY <1>1, <1>2, <1>3 DEF SlotBest, WorthMore

LEMMA AddBest ==
    ASSUME TableTypeOK, BestInv, NEW a \in Atoms, Add(a)
    PROVE  BestInv'
<1> DEFINE n == atom[a].name
           old == table.byName[n]
<1>0. /\ AtomsOK /\ Consistent(table) /\ added \in SUBSET Atoms
      /\ atom' = atom /\ added' = added \cup {a} /\ Named(a)
      /\ n \in Names /\ a # NoAtom /\ old \in Atoms \cup {NoAtom}
  BY TypeSplit, AtomFields DEF Add, Consistent, Tables
<1>1. \A b \in added' : Named(b)'
  BY <1>0 DEF BestInv, Named
<1>2. /\ \A m \in Names : m # n \/ ~ ByName(a) => AddedAs(m)' = AddedAs(m)
      /\ ByName(a) => AddedAs(n)' = AddedAs(n) \cup {a}
  BY <1>0 DEF AddedAs, ByName
<1>3. CASE AddThrows(table, a)
  <2>1. thrown' /\ table' = table /\ ByName(a) /\ HasName(table, n)
    BY <1>3 DEF Add, AddThrows, ByName
  <2>2. ASSUME NEW m \in Names  PROVE SlotBest(m)'
    <3>1. LeftOut(m)'
      BY <2>1 DEF LeftOut
    <3>2. (AddedAs(m)' = AddedAs(m) \cup {a} /\ m = n) \/ AddedAs(m)' = AddedAs(m)
      BY <1>0, <1>2, <2>1
    <3>3. SlotBest(m) /\ table'.byName = table.byName
      BY <2>1 DEF BestInv
    <3>4. QED
      BY <2>1, <3>1, <3>2, <3>3 DEF SlotBest, HasName
  <2>3. QED
    BY <1>1, <2>2 DEF BestInv
<1>4. CASE ~ AddThrows(table, a) /\ ~ ByName(a)
  <2>0. thrown' = thrown
    BY <1>4 DEF Add
  <2>1. PICK names \in SUBSET Names, literal \in Literals :
            table' = Referring(AddByContent(table, a), names, literal)
    BY <1>4 DEF Add, AddTo, ByName
  <2>2. table'.byName = table.byName
    <3>1. /\ Consistent(AddByContent(table, a))
          /\ AddByContent(table, a).byName = table.byName
      BY <1>0, AddByContentConsistent
    <3>2. QED
      BY <1>0, <2>1, <3>1, ReferringConsistent
  <2>3. table'.errors = table.errors
    <3>1. AddByContent(table, a).errors = table.errors
      BY <1>0 DEF AddByContent, FindSlotForContent, ContentLoser,
                  MarkCoalescedAway, Consistent, Tables
    <3>2. QED
      BY <1>0, <2>1, <3>1, AddByContentConsistent, ReferringConsistent
  <2>4. ASSUME NEW m \in Names  PROVE SlotBest(m)'
    BY <1>0, <1>2, <1>4, <2>0, <2>2, <2>3, SameName DEF BestInv
  <2>5. QED
    BY <1>1, <2>4 DEF BestInv
<1>5. CASE ~ AddThrows(table, a) /\ ByName(a)
  <2>1. thrown' = thrown
    BY <1>5 DEF Add
  <2> DEFINE with == [table.byName EXCEPT ![n] = a]
  <2>2. /\ table.errors \subseteq table'.errors
        /\ old = NoAtom => table'.byName = with
        /\ old # NoAtom =>
              /\ \E new \in PickAtom(a, old, Treatment) :
                    table'.byName = IF new THEN with ELSE table.byName
              /\ Clash(a, old) /\ Treatment = "error" => ListOf(old, a) \in table'.errors
    BY <1>5, AddNamedStep
  <2>3. table'.byName \in {with, table.byName} /\ with[n] = a
        /\ \A m \in Names : m # n => with[m] = table.byName[m]
    BY <1>0, <2>2 DEF Consistent, Tables
  <2>4. ASSUME NEW m \in Names, m # n  PROVE SlotBest(m)'
    <3>1. table'.byName[m] = table.byName[m]
      BY <2>3, <2>4
    <3>2. QED
      BY <1>0, <1>2, <2>1, <2>2, <2>4, <3>1, SameName DEF BestInv
  <2>5. SlotBest(n)'
    <3>1. SlotBest(n) /\ AddedAs(n)' = AddedAs(n) \cup {a}
      BY <1>0, <1>2, <1>5 DEF BestInv
    <3>2. table'.byName[n] \in AddedAs(n)' /\ table'.byName[n] # NoAtom
      <4>1. CASE old = NoAtom
        BY <1>0, <2>2, <2>3, <3>1, <4>1
      <4>2. CASE old # NoAtom
        BY <1>0, <2>3, <3>1, <4>2 DEF SlotBest, HasName
      <4>3. QED
        BY <4>1, <4>2
    <3>3. CASE LeftOut(n)
      <4>1. LeftOut(n)'
        BY <1>0, <2>1, <2>2, <3>1, <3>3 DEF LeftOut, Absolute
      <4>2. QED
        BY <1>0, <3>2, <4>1 DEF SlotBest, HasName
    <3>4. CASE Absolute(a)
      <4>1. LeftOut(n)'
        BY <1>0, <3>1, <3>4 DEF LeftOut, Absolute
      <4>2. QED
        BY <1>0, <3>2, <4>1 DEF SlotBest, HasName
    <3>5. CASE old # NoAtom /\ Clash(a, old) /\ Treatment = "error"
      <4>1. atom[old].name = n /\ old \in ListOf(old, a)
        BY <1>0, <3>5 DEF Consistent, HasName, ListOf
      <4>2. LeftOut(n)'
        BY <1>0, <2>2, <3>5, <4>1 DEF LeftOut
      <4>3. QED
        BY <1>0, <3>2, <4>2 DEF SlotBest, HasName
    <3>6. CASE ~ LeftOut(n) /\ ~ Absolute(a)
               /\ ~ (old # NoAtom /\ Clash(a, old) /\ Treatment = "error")
      <4>1. ASSUME NEW b \in AddedAs(n) \cup {a}
            PROVE  ~ WorthMore(Worth(b), Worth(table'.byName[n]))
        <5>0. b \in Atoms /\ Worth(b) \in Worths /\ Worth(a) \in Worths
          BY <1>0, WorthByKind DEF AddedAs
        <5>1. ~ WorthMore(Worth(b), Worth(b))
          BY <5>0 DEF WorthMore, Worths
        <5>2. CASE old = NoAtom
          <6>1. AddedAs(n) = {}
            BY <3>1, <5>2 DEF SlotBest, HasName
          <6>2. b = a /\ table'.byName[n] = a
            BY <2>2, <2>3, <5>2, <6>1
          <6>3. QED
            BY <5>1, <6>2
        <5>3. CASE old # NoAtom
          <6>1. old \in AddedAs(n)
            BY <1>0, <3>1, <5>3 DEF SlotBest, HasName
          <6>2. /\ old \in Atoms /\ ~ Absolute(old) /\ Named(old) /\ ~ PickThrows(a, old)
            BY <1>0, <1>5, <3>6, <5>3, <6>1
            DEF LeftOut, BestInv, AddedAs, AddThrows, ByName, HasName
          <6>3. Worth(old) \in Worths
            BY <1>0, <6>2, WorthByKind
          <6>4. PICK new \in PickAtom(a, old, Treatment) :
                    table'.byName = IF new THEN with ELSE table.byName
            BY <2>2, <5>3
          <6>5. /\ new => ~ WorthMore(Worth(old), Worth(a))
                /\ ~ new => ~ WorthMore(Worth(a), Worth(old))
            BY <1>0, <3>6, <5>3, <6>2, <6>4, PickIsBest
          <6>6. b # a => ~ WorthMore(Worth(b), Worth(old))
            BY <3>1, <3>6, <4>1 DEF SlotBest
          <6>7. CASE new
            <7>1. table'.byName[n] = a
              BY <2>3, <6>4, <6>7
            <7>2. CASE b = a
              BY <5>1, <7>1, <7>2
            <7>3. CASE b # a
              BY <5>0, <6>3, <6>5, <6>6, <6>7, <7>1, <7>3, NotBeyondTransitive
            <7>4. QED
              BY <7>2, <7>3
          <6>8. CASE ~ new
            <7>1. table'.byName[n] = old
              BY <6>4, <6>8
            <7>2. QED
              BY <6>5, <6>6, <6>8, <7>1
          <6>9. QED
            BY <6>7, <6>8
        <5>4. QED
          BY <5>2, <5>3
      <4>2. ASSUME NEW b \in AddedAs(n)'
            PROVE  ~ WorthMore(Worth(b), Worth(table.byName[n]))'
        <5>1. Worth(b)' = Worth(b)
          BY <1>0 DEF Worth, Regular, Weak, Tentative, Overridden, Flag
        <5>2. Worth(table.byName[n])' = Worth(table'.byName[n])
          BY <1>0 DEF Worth, Regular, Weak, Tentative, Overridden, Flag
        <5>3. QED
          <6>1. ~ WorthMore(Worth(b), Worth(table'.byName[n]))
            BY Zenon, <3>1, <4>1, <4>2
          <6>2. QED
            BY Zenon, <5>1, <5>2, <6>1 DEF WorthMore
      <4>3. QED
        BY <1>0, <3>2, <4>2 DEF SlotBest, HasName
    <3>7. QED
      BY <3>3, <3>4, <3>5, <3>6
  <2>6. QED
    BY <1>0, <1>1, <2>4, <2>5 DEF BestInv
<1>6. QED
  BY <1>3, <1>4, <1>5

\* A step that adds no atom, and leaves the slots of names alone.
LEMMA NothingAddedBest ==
    ASSUME BestInv, atom' = atom, added' = added, thrown' = thrown,
           table'.byName = table.byName, table'.errors = table.errors
    PROVE  BestInv'
<1>1. \A a \in added' : Named(a)'
  BY DEF BestInv, Named
<1>2. ASSUME NEW n \in Names  PROVE SlotBest(n)'
  <2>1. AddedAs(n)' = AddedAs(n)
    BY DEF AddedAs, ByName
  <2>2. QED
    BY <2>1, SameName DEF BestInv
<1>3. QED
  BY <1>1, <1>2 DEF BestInv

LEMMA NextBest ==
    ASSUME TableTypeOK, BestInv, [TableNext]_tableVars
    PROVE  BestInv'
<1>0. AtomsOK /\ Consistent(table)
  BY TypeSplit
<1>1. CASE AddStatic
  <2>0. PICK names \in SUBSET Names, literal \in Literals :
            table' = Referring(table, names, literal)
    BY <1>1 DEF AddStatic
  <2>1. /\ table'.byName = table.byName /\ table'.errors = table.errors
        /\ UNCHANGED <<atom, added, thrown>>
    BY <1>0, <1>1, <2>0, ReferringConsistent DEF AddStatic
  <2>2. QED
    BY <2>1, NothingAddedBest
<1>3. CASE CompleteInitialObjectFiles
  <2>1. /\ table'.byName = table.byName /\ table'.errors = table.errors
        /\ UNCHANGED <<atom, added, thrown>>
    BY <1>0, <1>3, ReferringConsistent DEF CompleteInitialObjectFiles, Literals
  <2>2. QED
    BY <2>1, NothingAddedBest
<1>4. CASE UNCHANGED tableVars
  BY <1>4, NothingAddedBest DEF tableVars
<1>5. QED
  BY <1>1, <1>3, <1>4, AddBest DEF TableNext

\* The slot of a name holds the best of its definitions, whatever the order in
\* which they came, and however many there are.
THEOREM BestWins == TableSpec => []WinnerIsBest
<1>1. TableInit => BestInv
  BY DEF TableInit, BestInv, SlotBest, AddedAs, EmptyTable, HasName
<1>2. TableTypeOK /\ BestInv /\ [TableNext]_tableVars => BestInv'
  BY NextBest
<1>3. BestInv => WinnerIsBest
  BY DEF BestInv, SlotBest, LeftOut, WinnerIsBest
<1>4. QED
  BY TypeCorrect, <1>1, <1>2, <1>3, PTL DEF TableSpec

------------------------------------------------------------------------------
(***************************************************************************)
(* Clashes.  While no clash of a name is on record, the slot holds the one *)
(* real definition of it, if there is one: a second one would have been    *)
(* compared with it.                                                       *)
(***************************************************************************)
Reported(n) ==
    \E list \in table.errors \cup table.warnings : \E c \in list : atom[c].name = n

\* What DuplicatesReported asks of the other definitions of a name.
Plain(n) == \A c \in AddedAs(n) : ~ Tentative(c) /\ ~ atom[c].machHeader

OneReal(n) == \A a \in AddedAs(n) : Real(a) => a = table.byName[n]

ReportedInv ==
    ~ AllowDeadDuplicates => \A n \in Names : Plain(n) => Reported(n) \/ OneReal(n)

\* Of a real definition and another one, both plain, the real one is picked unless
\* they are reported.
LEMMA RealIsPicked ==
    ASSUME AtomsOK, NEW a \in Atoms, NEW b \in Atoms, NEW treatment,
           ~ Tentative(a), ~ Tentative(b), ~ atom[a].machHeader, ~ atom[b].machHeader,
           ~ Duplicates(a, b), NEW new \in PickAtom(a, b, treatment)
    PROVE  /\ Real(a) => new /\ ~ Real(b)
           /\ Real(b) => ~ new
<1>1. /\ Regular(a) \/ Absolute(a) \/ Proxy(a)
      /\ Regular(b) \/ Absolute(b) \/ Proxy(b)
      /\ atom[a].machHeader = FALSE /\ atom[b].machHeader = FALSE
  BY DEF Regular, Tentative, Proxy, Absolute, AtomsOK, AtomRecords, Definitions
<1>2. CASE Regular(a) /\ Regular(b)
  <2>1. ~ Absolute(a) /\ ~ Absolute(b) /\ ~ Clash(a, b)
    BY <1>2 DEF Duplicates, Regular, Absolute
  <2>2. PickAtom(a, b, treatment) = PickBetweenRegular(a, b, treatment)
    BY <1>2 DEF PickAtom
  <2>3. CASE Weak(a) /\ Weak(b)
    BY <2>1, <2>3 DEF Real
  <2>4. CASE ~ (Weak(a) /\ Weak(b))
    <3>1. new = (Weak(b) \/ (~ Weak(a) /\ atom[a].machHeader))
      BY <2>1, <2>2, <2>4, Zenon DEF PickBetweenRegular
    <3>2. new <=> Weak(b)
      BY <1>1, <3>1
    <3>3. QED
      BY <1>1, <1>2, <2>1, <2>4, <3>2 DEF Real, Clash
  <2>5. QED
    BY <2>3, <2>4
<1>3. CASE ~ Proxy(a) /\ ~ Proxy(b) /\ ~ (Regular(a) /\ Regular(b))
  BY <1>1, <1>3 DEF Duplicates, RealDefinition
<1>4. CASE Proxy(a) /\ Proxy(b)
  BY <1>4 DEF Real, Proxy, Regular, Absolute
<1>5. CASE Proxy(b) /\ ~ Proxy(a)
  <2>1. new = TRUE
    BY <1>1, <1>5 DEF PickAtom, Defeats, Regular, Proxy, Absolute
  <2>2. QED
    BY <1>5, <2>1 DEF Real, Proxy, Regular, Absolute
<1>6. CASE Proxy(a) /\ ~ Proxy(b)
  <2>1. new = FALSE
    BY <1>1, <1>6 DEF PickAtom, Defeats, DefeatedBy, Regular, Proxy, Absolute
  <2>2. QED
    BY <1>6, <2>1 DEF Real, Proxy, Regular, Absolute
<1>7. QED
  BY <1>3, <1>2, <1>4, <1>5, <1>6

\* A step that leaves the slot and the atoms of a name alone, and drops no clash.
LEMMA SameReported ==
    ASSUME NEW n \in Names, Plain(n) => Reported(n) \/ OneReal(n), atom' = atom,
           AddedAs(n)' = AddedAs(n), table'.byName[n] = table.byName[n],
           table.errors \subseteq table'.errors, table.warnings \subseteq table'.warnings
    PROVE  (Plain(n) => Reported(n) \/ OneReal(n))'
<1>1. Plain(n)' <=> Plain(n)
  BY DEF Plain, Tentative
<1>2. Reported(n) => Reported(n)'
  BY DEF Reported
<1>3. OneReal(n)' <=> OneReal(n)
  BY DEF OneReal, Real, Absolute, Regular, Weak
<1>4. QED
  BY <1>1, <1>2, <1>3

LEMMA AddReported ==
    ASSUME TableTypeOK, BestInv, ReportedInv, NEW a \in Atoms, Add(a)
    PROVE  ReportedInv'
<1> DEFINE n == atom[a].name
           old == table.byName[n]
<1>0. /\ AtomsOK /\ Consistent(table) /\ added \in SUBSET Atoms
      /\ atom' = atom /\ added' = added \cup {a}
      /\ n \in Names /\ a # NoAtom /\ old \in Atoms \cup {NoAtom}
  BY TypeSplit, AtomFields DEF Add, Consistent, Tables
<1>1. \A m \in Names :
        AddedAs(m)' = IF ByName(a) /\ m = n THEN AddedAs(m) \cup {a} ELSE AddedAs(m)
  BY <1>0 DEF AddedAs, ByName
<1> SUFFICES ASSUME ~ AllowDeadDuplicates, NEW m \in Names
             PROVE  (Plain(m) => Reported(m) \/ OneReal(m))'
  BY DEF ReportedInv
<1>2. Plain(m) => Reported(m) \/ OneReal(m)
  BY DEF ReportedInv
<1>3. CASE AddThrows(table, a)
  <2>1. table' = table /\ ByName(a) /\ old # NoAtom /\ PickThrows(a, old)
    BY <1>3 DEF Add, AddThrows, ByName, HasName
  <2>2. CASE m # n
    BY <1>0, <1>1, <1>2, <2>1, <2>2, SameReported
  <2>3. CASE m = n
    <3>1. old \in AddedAs(n)
      BY <1>0, <2>1 DEF BestInv, SlotBest, HasName
    <3>2. ASSUME Plain(m)'  PROVE (Reported(m) \/ OneReal(m))'
      <4>1. Plain(m) /\ ~ Tentative(a) /\ ~ Tentative(old)
        BY <1>0, <1>1, <2>1, <2>3, <3>1, <3>2 DEF Plain, Tentative
      <4>2. ~ Real(a)
        BY <2>1, <4>1 DEF PickThrows, Real, Proxy, Absolute, Regular
      <4>3. Reported(m) => Reported(m)'
        BY <1>0, <2>1 DEF Reported
      <4>4. OneReal(m) => OneReal(m)'
        BY <1>0, <1>1, <2>1, <4>2 DEF OneReal, Real, Absolute, Regular, Weak
      <4>5. QED
        BY <1>2, <4>1, <4>3, <4>4
    <3>3. QED
      BY <3>2
  <2>4. QED
    BY <2>2, <2>3
<1>4. CASE ~ AddThrows(table, a) /\ ~ ByName(a)
  <2>1. PICK names \in SUBSET Names, literal \in Literals :
            table' = Referring(AddByContent(table, a), names, literal)
    BY <1>4 DEF Add, AddTo, ByName
  <2>2. /\ Consistent(AddByContent(table, a))
        /\ AddByContent(table, a).byName = table.byName
    BY <1>0, AddByContentConsistent
  <2>3. /\ AddByContent(table, a).errors = table.errors
        /\ AddByContent(table, a).warnings = table.warnings
    BY <1>0 DEF AddByContent, FindSlotForContent, ContentLoser,
                MarkCoalescedAway, Consistent, Tables
  <2>4. /\ table'.byName = table.byName /\ table'.errors = table.errors
        /\ table'.warnings = table.warnings
    <3>1. /\ table'.byName = AddByContent(table, a).byName
          /\ table'.errors = AddByContent(table, a).errors
          /\ table'.warnings = AddByContent(table, a).warnings
      BY <1>0, <2>1, <2>2, ReferringConsistent
    <3>2. QED
      BY <2>2, <2>3, <3>1
  <2>5. QED
    BY <1>0, <1>1, <1>2, <1>4, <2>4, SameReported
<1>5. CASE ~ AddThrows(table, a) /\ ByName(a)
  <2> DEFINE with == [table.byName EXCEPT ![n] = a]
  <2>1. /\ table.errors \subseteq table'.errors /\ table.warnings \subseteq table'.warnings
        /\ old = NoAtom => table'.byName = with
        /\ old # NoAtom =>
              /\ \E new \in PickAtom(a, old, Treatment) :
                    table'.byName = IF new THEN with ELSE table.byName
              /\ Duplicates(a, old) /\ Treatment # "suppress"
                    => ListOf(old, a) \in table'.errors \cup table'.warnings
    BY <1>5, AddNamedStep
  <2>2. table'.byName \in {with, table.byName} /\ with[n] = a
        /\ \A k \in Names : k # n => with[k] = table.byName[k]
    BY <1>0, <2>1 DEF Consistent, Tables
  <2>3. CASE m # n
    <3>1. table'.byName[m] = table.byName[m]
      BY <2>2, <2>3
    <3>2. QED
      BY <1>0, <1>1, <1>2, <2>1, <2>3, <3>1, SameReported
  <2>4. CASE m = n
    <3> SUFFICES ASSUME Plain(m)', ~ Reported(m)'  PROVE OneReal(m)'
      OBVIOUS
    <3>1. Plain(m) /\ ~ Tentative(a) /\ ~ atom[a].machHeader
      BY <1>0, <1>1, <1>5, <2>4 DEF Plain, Tentative
    <3>2. ~ Reported(m)
      BY <1>0, <2>1 DEF Reported
    <3>3. OneReal(m)
      BY <1>2, <3>1, <3>2
    <3>4. \A b \in AddedAs(m)' : b = a \/ b \in AddedAs(m)
      BY <1>1, <1>5, <2>4
    <3>5. ASSUME NEW b \in AddedAs(m) \cup {a}, Real(b)  PROVE b = table'.byName[m]
      <4>1. CASE old = NoAtom
        <5>1. AddedAs(m) = {}
          BY <1>0, <2>4, <4>1 DEF BestInv, SlotBest, HasName
        <5>2. QED
          BY <2>1, <2>2, <2>4, <4>1, <5>1
      <4>2. CASE old # NoAtom
        <5>1. old \in Atoms /\ old \in AddedAs(m) /\ atom[old].name = n
          BY <1>0, <2>4, <4>2 DEF BestInv, SlotBest, HasName, AddedAs
        <5>2. ~ Tentative(old) /\ ~ atom[old].machHeader
          BY <3>1, <5>1 DEF Plain
        <5>3. ~ Duplicates(a, old)
          <6>1. Treatment # "suppress"
            BY DEF Treatment
          <6>2. old \in ListOf(old, a)
            BY DEF ListOf
          <6>3. QED
            BY <1>0, <2>1, <2>4, <4>2, <5>1, <6>1, <6>2 DEF Reported
        <5>4. PICK new \in PickAtom(a, old, Treatment) :
                  table'.byName = IF new THEN with ELSE table.byName
          BY <2>1, <4>2
        <5>5. /\ Real(a) => new /\ ~ Real(old)
              /\ Real(old) => ~ new
          BY <1>0, <3>1, <5>1, <5>2, <5>3, <5>4, RealIsPicked
        <5>6. b = a \/ b = old
          BY <2>4, <3>3, <3>5 DEF OneReal
        <5>7. QED
          BY <2>2, <2>4, <3>5, <5>4, <5>5, <5>6
      <4>3. QED
        BY <4>1, <4>2
    <3>6. \A b : Real(b)' <=> Real(b)
      BY <1>0 DEF Real, Absolute, Regular, Weak
    <3>7. QED
      BY <1>0, <3>4, <3>5, <3>6 DEF OneReal
  <2>5. QED
    BY <2>3, <2>4
<1>6. QED
  BY <1>3, <1>4, <1>5

LEMMA NextReported ==
    ASSUME TableTypeOK, BestInv, ReportedInv, [TableNext]_tableVars
    PROVE  ReportedInv'
<1>0. AtomsOK /\ Consistent(table)
  BY TypeSplit
<1>1. ASSUME UNCHANGED <<atom, added>>, table'.byName = table.byName,
             table'.errors = table.errors, table'.warnings = table.warnings
      PROVE  ReportedInv'
  <2>1. \A n \in Names : AddedAs(n)' = AddedAs(n)
    BY <1>1 DEF AddedAs, ByName
  <2>2. QED
    BY <1>1, <2>1, SameReported DEF ReportedInv
<1>2. CASE AddStatic \/ CompleteInitialObjectFiles
  <2>1. PICK names \in SUBSET Names, literal \in Literals :
            table' = Referring(table, names, literal)
    BY <1>2 DEF AddStatic, CompleteInitialObjectFiles, Literals
  <2>2. UNCHANGED <<atom, added>>
    BY <1>2 DEF AddStatic, CompleteInitialObjectFiles
  <2>3. QED
    BY <1>0, <1>1, <2>1, <2>2, ReferringConsistent
<1>3. CASE UNCHANGED tableVars
  BY <1>1, <1>3 DEF tableVars
<1>4. QED
  BY <1>2, <1>3, AddReported DEF TableNext

\* Two real definitions of a name never pass in silence, however many other
\* definitions come before, between and after them.
THEOREM ClashesReported == TableSpec => []DuplicatesReported
<1>1. TableInit => BestInv /\ ReportedInv
  BY DEF TableInit, BestInv, SlotBest, AddedAs, EmptyTable, HasName, ReportedInv, OneReal
<1>2. TableTypeOK /\ BestInv /\ ReportedInv /\ [TableNext]_tableVars
          => BestInv' /\ ReportedInv'
  BY NextBest, NextReported
<1>3. TableTypeOK /\ ReportedInv => DuplicatesReported
  <2> SUFFICES ASSUME TableTypeOK, ReportedInv, NEW a \in added, NEW b \in added,
                      a # b, ByName(a), ByName(b), atom[a].name = atom[b].name,
                      Real(a), Real(b), ~ AllowDeadDuplicates, Plain(atom[a].name)
               PROVE  Reported(atom[a].name)
    BY DEF DuplicatesReported, Reported, Plain
  <2>1. atom[a].name \in Names
    BY TypeSplit, AtomFields
  <2>2. ~ OneReal(atom[a].name)
    BY DEF OneReal, AddedAs
  <2>3. QED
    BY <2>1, <2>2 DEF ReportedInv
<1>4. QED
  BY TypeCorrect, <1>1, <1>2, <1>3, PTL DEF TableSpec

------------------------------------------------------------------------------
(***************************************************************************)
(* What is coalesced away.                                                 *)
(***************************************************************************)
\* The unwind information of a function is static, has none of its own and belongs to
\* one function.  (An alternate entry is a function with another one among its
\* subordinates; SymbolTableAltEntry.cfg shows what becomes of those.)
PrivateUnwind ==
    \A a \in Atoms : \A u \in atom[a].subordinates :
        /\ ~ Named(u)
        /\ atom[u].subordinates = {}
        /\ \A b \in Atoms : u \in atom[b].subordinates => b = a

\* The atom in the slot of a's name or content.
SlotAtom(t, a) ==
    IF ByName(a) THEN t.byName[atom[a].name] ELSE t.byContent[atom[a].content]

UnwindFollows(t, a) ==
    \A u \in atom[a].subordinates : u \in t.coalescedAway <=> a \in t.coalescedAway

\* An atom is dropped only if the slot has another one.  One that the slot of a content
\* dropped before it was added, for only a reference had put it there, will not get the
\* slot back: the other one is aligned as well.
DroppedFor(t, done, a) ==
    a \in t.coalescedAway =>
        /\ SlotAtom(t, a) \notin {NoAtom, a}
        /\ IF ByName(a) THEN a \in done
           ELSE atom[SlotAtom(t, a)].alignment >= atom[a].alignment

\* done are the atoms added so far.
KeptInv(t, done) ==
    /\ \A a \in Atoms : Named(a) =>
          /\ UnwindFollows(t, a)
          /\ DroppedFor(t, done, a)
          /\ a \in done => a \in t.coalescedAway \/ a = SlotAtom(t, a)
    /\ \A c \in Contents : t.byContent[c] \in Literals

\* An atom goes with its own unwind information and with nothing else.
LEMMA GroupIsPrivate ==
    ASSUME AtomsOK, PrivateUnwind, NEW x \in Atoms, Named(x), NEW a \in Atoms, Named(a)
    PROVE  /\ a \in Group(x) <=> a = x
           /\ \A u \in atom[a].subordinates : u \in Group(x) <=> a = x
<1>1. atom[x].subordinates \in SUBSET Atoms /\ atom[a].subordinates \in SUBSET Atoms
  BY AtomFields
<1>2. Group(x) = {x} \cup atom[x].subordinates
  BY DEF Group, PrivateUnwind
<1>3. QED
  BY <1>1, <1>2 DEF PrivateUnwind

\* Putting the literal of a reference into an empty slot drops nothing.
LEMMA ReferringKept ==
    ASSUME AtomsOK, NEW t, Consistent(t), NEW done, KeptInv(t, done),
           NEW names \in SUBSET Names, NEW literal \in Literals
    PROVE  KeptInv(Referring(t, names, literal), done)
<1> DEFINE u == Referring(t, names, literal)
<1>1. u.byName = t.byName /\ u.coalescedAway = t.coalescedAway
  BY ReferringConsistent
<1>2. CASE u.byContent = t.byContent
  BY <1>1, <1>2 DEF KeptInv, UnwindFollows, DroppedFor, SlotAtom
<1>3. CASE u.byContent # t.byContent
  <2> DEFINE c == atom[literal].content
  <2>1. literal \in Atoms /\ c \in Contents /\ literal # NoAtom
        /\ t.byContent[c] = NoAtom /\ u.byContent = [t.byContent EXCEPT ![c] = literal]
    <3>1. literal # NoAtom
      BY <1>3 DEF Referring, Consistent, Tables
    <3>2. literal \in Atoms /\ c \in Contents
      BY <3>1, AtomFields DEF Literals
    <3>3. QED
      BY <1>3, <3>1, <3>2 DEF Referring, FindSlotForContent, Consistent, Tables
  <2>2. ASSUME NEW a \in Atoms, Named(a)
        PROVE  /\ UnwindFollows(u, a) /\ DroppedFor(u, done, a)
               /\ a \in done => a \in u.coalescedAway \/ a = SlotAtom(u, a)
    <3>1. CASE ~ ByName(a) /\ atom[a].content = c
      <4>1. SlotAtom(t, a) = NoAtom /\ a # NoAtom
        BY <2>1, <3>1, TableAssumption DEF SlotAtom
      <4>2. a \notin t.coalescedAway /\ a \notin done
        BY <2>2, <4>1 DEF KeptInv, DroppedFor
      <4>3. QED
        BY <1>1, <2>2, <4>2 DEF KeptInv, UnwindFollows, DroppedFor
    <3>2. CASE ByName(a) \/ atom[a].content # c
      <4>1. SlotAtom(u, a) = SlotAtom(t, a)
        BY <1>1, <2>1, <3>2, AtomFields DEF SlotAtom, Consistent, Tables
      <4>2. QED
        BY <1>1, <2>2, <4>1 DEF KeptInv, UnwindFollows, DroppedFor
    <3>3. QED
      BY <3>1, <3>2
  <2>3. \A d \in Contents : u.byContent[d] \in Literals
    BY <2>1 DEF KeptInv, Consistent, Tables
  <2>4. QED
    BY <2>2, <2>3 DEF KeptInv
<1>4. QED
  BY <1>2, <1>3

\* Adding a literal drops the worse aligned of two.
LEMMA AddByContentKept ==
    ASSUME AtomsOK, PrivateUnwind, NEW t, Consistent(t), NEW done, KeptInv(t, done),
           NEW a \in Atoms, Named(a), ~ ByName(a), a \notin done
    PROVE  KeptInv(AddByContent(t, a), done \cup {a})
<1> DEFINE c == atom[a].content
           old == t.byContent[c]
           u == AddByContent(t, a)
<1>1. /\ c \in Contents /\ a # NoAtom /\ old \in Literals
      /\ \A b \in Atoms : atom[b].alignment \in Nat /\ atom[b].content \in Contents
  BY AtomFields DEF KeptInv, AtomsOK, AtomRecords
<1>2. SlotAtom(t, a) = old /\ a \in Literals
  BY DEF SlotAtom, Literals, ByName
<1>3. CASE old = NoAtom
  <2>1. u.byContent = [t.byContent EXCEPT ![c] = a]
        /\ u.byName = t.byName /\ u.coalescedAway = t.coalescedAway
    BY <1>1, <1>3 DEF AddByContent, FindSlotForContent, Consistent, Tables
  <2>2. ASSUME NEW b \in Atoms, Named(b)
        PROVE  /\ UnwindFollows(u, b) /\ DroppedFor(u, done \cup {a}, b)
               /\ b \in done \cup {a} => b \in u.coalescedAway \/ b = SlotAtom(u, b)
    <3>1. CASE ~ ByName(b) /\ atom[b].content = c
      <4>1. SlotAtom(t, b) = NoAtom /\ b # NoAtom
        BY <1>3, <3>1, TableAssumption DEF SlotAtom
      <4>2. b \notin t.coalescedAway /\ b \notin done
        BY <2>2, <4>1 DEF KeptInv, DroppedFor
      <4>3. SlotAtom(u, a) = a
        BY <1>1, <2>1 DEF SlotAtom, Consistent, Tables
      <4>4. QED
        BY <2>1, <2>2, <4>2, <4>3 DEF KeptInv, UnwindFollows, DroppedFor
    <3>2. CASE ByName(b) \/ atom[b].content # c
      <4>1. SlotAtom(u, b) = SlotAtom(t, b) /\ b # a
        BY <1>1, <2>1, <3>2 DEF SlotAtom, Consistent, Tables
      <4>2. QED
        BY <2>1, <2>2, <4>1 DEF KeptInv, UnwindFollows, DroppedFor
    <3>3. QED
      BY <3>1, <3>2
  <2>3. \A d \in Contents : u.byContent[d] \in Literals
    BY <1>2, <2>1 DEF KeptInv, Consistent, Tables
  <2>4. QED
    BY <2>2, <2>3 DEF KeptInv
<1>4. CASE old = a
  <2>1. ~ PickGreaterAlignment(a, old)
    BY <1>1, <1>4 DEF PickGreaterAlignment
  <2>2. u = t
    BY <1>1, <1>4, <2>1 DEF AddByContent, ContentLoser, FindSlotForContent
  <2>3. a \notin t.coalescedAway
    BY <1>2, <1>4 DEF KeptInv, DroppedFor
  <2>4. ASSUME NEW b \in Atoms, Named(b)
        PROVE  /\ UnwindFollows(t, b) /\ DroppedFor(t, done \cup {a}, b)
               /\ b \in done \cup {a} => b \in t.coalescedAway \/ b = SlotAtom(t, b)
    BY <1>2, <1>4, <2>4 DEF KeptInv, DroppedFor
  <2>5. QED
    BY <2>2, <2>4 DEF KeptInv
<1>5. ASSUME NEW x \in {a, old}, NEW y \in {a, old}, old # NoAtom, old # a, x # y,
             u.byContent = [t.byContent EXCEPT ![c] = y], u.byName = t.byName,
             u.coalescedAway = t.coalescedAway \cup Group(x),
             atom[y].alignment >= atom[x].alignment,
             y = a => atom[y].alignment > atom[x].alignment
      PROVE  KeptInv(u, done \cup {a})
  <2>1. /\ old \in Atoms /\ Named(old) /\ ~ ByName(old) /\ atom[old].content = c
        /\ x \in Atoms /\ Named(x) /\ y \in Atoms /\ y \in Literals /\ y # NoAtom
    BY <1>1, <1>2, <1>5, TableAssumption DEF Literals, ByName, Consistent
  <2>2. y \notin t.coalescedAway
    <3>1. SlotAtom(t, y) = old
      BY <1>2, <1>5, <2>1 DEF SlotAtom
    <3>2. y \in t.coalescedAway => old # y /\ atom[old].alignment >= atom[y].alignment
      BY <1>5, <2>1, <3>1 DEF KeptInv, DroppedFor, ByName, Literals
    <3>3. QED
      BY <1>1, <1>5, <2>1, <3>2
  <2>3. ASSUME NEW b \in Atoms, Named(b)
        PROVE  /\ UnwindFollows(u, b) /\ DroppedFor(u, done \cup {a}, b)
               /\ b \in done \cup {a} => b \in u.coalescedAway \/ b = SlotAtom(u, b)
    <3>1. /\ b \in Group(x) <=> b = x
          /\ \A v \in atom[b].subordinates : v \in Group(x) <=> b = x
      BY <2>1, <2>3, GroupIsPrivate
    <3>2. UnwindFollows(u, b)
      BY <1>5, <2>3, <3>1 DEF KeptInv, UnwindFollows
    <3>3. b \in u.coalescedAway <=> b \in t.coalescedAway \/ b = x
      BY <1>5, <3>1
    <3>4. CASE ~ ByName(b) /\ atom[b].content = c
      <4>1. SlotAtom(u, b) = y /\ SlotAtom(t, b) = old
        BY <1>1, <1>5, <3>4 DEF SlotAtom, Consistent, Tables
      <4>2. b \in t.coalescedAway => atom[y].alignment >= atom[b].alignment
        <5>1. b \in t.coalescedAway => atom[old].alignment >= atom[b].alignment
          BY <2>3, <3>4, <4>1 DEF KeptInv, DroppedFor
        <5>2. QED
          BY <1>1, <1>5, <2>1, <5>1
      <4>3. b \in u.coalescedAway => b # y /\ atom[y].alignment >= atom[b].alignment
        BY <1>5, <2>2, <3>3, <4>2
      <4>4. b \in done => b \in t.coalescedAway \/ b = old
        BY <2>3, <4>1 DEF KeptInv
      <4>5. QED
        BY <1>5, <2>1, <3>2, <3>3, <3>4, <4>1, <4>3, <4>4 DEF DroppedFor
    <3>5. CASE ByName(b) \/ atom[b].content # c
      <4>1. SlotAtom(u, b) = SlotAtom(t, b) /\ b # x /\ b # a
        BY <1>1, <1>5, <2>1, <2>3, <3>5 DEF SlotAtom, Consistent, Tables
      <4>2. QED
        BY <2>3, <3>2, <3>3, <4>1 DEF KeptInv, DroppedFor
    <3>6. QED
      BY <3>4, <3>5
  <2>4. \A d \in Contents : u.byContent[d] \in Literals
    BY <1>1, <1>5, <2>1 DEF KeptInv, Consistent, Tables
  <2>5. QED
    BY <2>3, <2>4 DEF KeptInv
<1>6. CASE old # NoAtom /\ old # a
  <2>0. FindSlotForContent(t, a) = t /\ t \in Tables
        /\ atom[old].alignment \in Nat /\ atom[a].alignment \in Nat
    BY <1>1, <1>6 DEF FindSlotForContent, Consistent, Literals
  <2>1. CASE PickGreaterAlignment(a, old)
    <3>1. /\ u.byContent = [t.byContent EXCEPT ![c] = a] /\ u.byName = t.byName
          /\ u.coalescedAway = t.coalescedAway \cup Group(old)
      BY <1>6, <2>0, <2>1 DEF AddByContent, MarkCoalescedAway, Tables
    <3>2. QED
      BY <1>5, <1>6, <2>0, <2>1, <3>1 DEF PickGreaterAlignment
  <2>2. CASE ~ PickGreaterAlignment(a, old)
    <3>1. /\ u.byContent = t.byContent /\ u.byName = t.byName
          /\ u.coalescedAway = t.coalescedAway \cup Group(a)
      BY <1>6, <2>0, <2>2 DEF AddByContent, ContentLoser, MarkCoalescedAway, Tables
    <3>2. u.byContent = [t.byContent EXCEPT ![c] = old]
      BY <2>0, <3>1 DEF Tables
    <3>3. atom[old].alignment >= atom[a].alignment
      BY <2>0, <2>2 DEF PickGreaterAlignment
    <3>4. QED
      BY <1>5, <1>6, <3>1, <3>2, <3>3
  <2>3. QED
    BY <2>1, <2>2
<1>7. QED
  BY <1>3, <1>4, <1>6

\* Adding an atom by its name drops it, or the one in the slot.
LEMMA AddByNameKept ==
    ASSUME AtomsOK, PrivateUnwind, NEW t, Consistent(t), NEW done, KeptInv(t, done),
           NEW a \in Atoms, Named(a), ByName(a), a \notin done,
           t.byName[atom[a].name] # NoAtom =>
               /\ Named(t.byName[atom[a].name]) /\ ByName(t.byName[atom[a].name])
               /\ t.byName[atom[a].name] \in done,
           \A b \in done : ByName(b) /\ atom[b].name = atom[a].name
                              => t.byName[atom[a].name] # NoAtom,
           NEW treatment, NEW u \in AddByName(t, a, treatment)
    PROVE  KeptInv(u, done \cup {a})
<1> DEFINE n == atom[a].name
           old == t.byName[n]
           with == [t.byName EXCEPT ![n] = a]
<1>1. /\ n \in Names /\ a # NoAtom /\ old \in Atoms \cup {NoAtom}
      /\ \A b \in Atoms : atom[b].name \in Names
      /\ t.byName \in [Names -> Atoms \cup {NoAtom}]
  BY AtomFields DEF Consistent, Tables
<1>2. u.byContent = t.byContent
  BY AddByNameConsistent
<1>3. /\ old = NoAtom => u.byName = with /\ u.coalescedAway = t.coalescedAway
      /\ old # NoAtom =>
            \E new \in PickAtom(a, old, treatment) :
               /\ u.byName = IF new THEN with ELSE t.byName
               /\ u.coalescedAway = t.coalescedAway \cup Group(IF new THEN old ELSE a)
  BY AddByNameSlots
<1>4. a \notin t.coalescedAway
  BY DEF KeptInv, DroppedFor
<1>5. CASE old = NoAtom
  <2>1. ASSUME NEW b \in Atoms, Named(b)
        PROVE  /\ UnwindFollows(u, b) /\ DroppedFor(u, done \cup {a}, b)
               /\ b \in done \cup {a} => b \in u.coalescedAway \/ b = SlotAtom(u, b)
    <3>1. CASE ByName(b) /\ atom[b].name = n
      <4>1. b \notin done
        BY <1>5, <3>1
      <4>2. b \notin t.coalescedAway
        BY <2>1, <3>1, <4>1 DEF KeptInv, DroppedFor
      <4>3. SlotAtom(u, a) = a
        BY <1>1, <1>3, <1>5 DEF SlotAtom
      <4>4. QED
        BY <1>3, <1>5, <2>1, <4>1, <4>2, <4>3 DEF KeptInv, UnwindFollows, DroppedFor
    <3>2. CASE ~ ByName(b) \/ atom[b].name # n
      <4>1. SlotAtom(u, b) = SlotAtom(t, b) /\ b # a
        BY <1>1, <1>2, <1>3, <1>5, <3>2 DEF SlotAtom
      <4>2. QED
        BY <1>3, <1>5, <2>1, <4>1 DEF KeptInv, UnwindFollows, DroppedFor
    <3>3. QED
      BY <3>1, <3>2
  <2>2. QED
    BY <1>2, <2>1 DEF KeptInv
<1>6. CASE old # NoAtom
  <2>1. PICK x \in {a, old}, y \in {a, old} :
            /\ x # y
            /\ u.byName = [t.byName EXCEPT ![n] = y]
            /\ u.coalescedAway = t.coalescedAway \cup Group(x)
    <3>1. PICK new \in PickAtom(a, old, treatment) :
            /\ u.byName = IF new THEN with ELSE t.byName
            /\ u.coalescedAway = t.coalescedAway \cup Group(IF new THEN old ELSE a)
      BY <1>3, <1>6
    <3>2. t.byName = [t.byName EXCEPT ![n] = old] /\ old # a
      BY <1>1, <1>6
    <3>3. CASE new
      BY <3>1, <3>2, <3>3
    <3>4. CASE ~ new
      BY <3>1, <3>2, <3>4
    <3>5. QED
      BY <3>3, <3>4
  <2>2. /\ old \in Atoms /\ Named(old) /\ ByName(old) /\ old \in done
        /\ atom[old].name = n /\ x \in Atoms /\ Named(x) /\ y # NoAtom
    BY <1>1, <1>6 DEF Consistent, HasName
  <2>3. y \notin t.coalescedAway
    <3>1. SlotAtom(t, old) = old
      BY <2>2 DEF SlotAtom
    <3>2. QED
      BY <1>4, <2>2, <3>1 DEF KeptInv, DroppedFor
  <2>4. ASSUME NEW b \in Atoms, Named(b)
        PROVE  /\ UnwindFollows(u, b) /\ DroppedFor(u, done \cup {a}, b)
               /\ b \in done \cup {a} => b \in u.coalescedAway \/ b = SlotAtom(u, b)
    <3>1. /\ b \in Group(x) <=> b = x
          /\ \A v \in atom[b].subordinates : v \in Group(x) <=> b = x
      BY <2>2, <2>4, GroupIsPrivate
    <3>2. UnwindFollows(u, b)
      BY <2>1, <2>4, <3>1 DEF KeptInv, UnwindFollows
    <3>3. b \in u.coalescedAway <=> b \in t.coalescedAway \/ b = x
      BY <2>1, <3>1
    <3>4. CASE ByName(b) /\ atom[b].name = n
      <4>1. SlotAtom(u, b) = y /\ SlotAtom(t, b) = old
        BY <1>1, <2>1, <3>4 DEF SlotAtom
      <4>2. b \in t.coalescedAway => b \in done
        BY <2>4, <3>4 DEF KeptInv, DroppedFor
      <4>3. b \in done => b \in t.coalescedAway \/ b = old
        BY <2>4, <4>1 DEF KeptInv
      <4>4. QED
        BY <2>1, <2>2, <2>3, <3>2, <3>3, <3>4, <4>1, <4>2, <4>3 DEF DroppedFor
    <3>5. CASE ~ ByName(b) \/ atom[b].name # n
      <4>1. SlotAtom(u, b) = SlotAtom(t, b) /\ b # x /\ b # a
        BY <1>1, <1>2, <2>1, <2>2, <3>5 DEF SlotAtom
      <4>2. QED
        BY <2>4, <3>2, <3>3, <4>1 DEF KeptInv, DroppedFor
    <3>6. QED
      BY <3>4, <3>5
  <2>5. QED
    BY <1>2, <2>4 DEF KeptInv
<1>7. QED
  BY <1>5, <1>6

KeptOrThrown == PrivateUnwind /\ (thrown \/ KeptInv(table, added))

LEMMA NextKept ==
    ASSUME TableTypeOK, BestInv, KeptOrThrown, [TableNext]_tableVars
    PROVE  KeptOrThrown'
<1>0. AtomsOK /\ Consistent(table) /\ atom' = atom
  BY TypeSplit DEF TableNext, tableVars, Add, AddStatic, CompleteInitialObjectFiles
<1>1. PrivateUnwind'
  BY <1>0 DEF KeptOrThrown, PrivateUnwind, Named
<1>2. ASSUME KeptInv(table', added')  PROVE KeptInv(table, added)'
  BY <1>0, <1>2 DEF KeptInv, UnwindFollows, DroppedFor, SlotAtom, Literals, Named, ByName
<1>3. ASSUME NEW a \in Atoms, Add(a)  PROVE (thrown \/ KeptInv(table, added))'
  <2>1. KeptInv(table, added) /\ PrivateUnwind /\ a \notin added /\ Named(a)
        /\ added' = added \cup {a}
    BY <1>3 DEF KeptOrThrown, Add
  <2>2. CASE AddThrows(table, a)
    BY <1>3, <2>2 DEF Add
  <2>3. CASE ~ AddThrows(table, a)
    <3>1. PICK t \in AddTo(table, a, Treatment),
               names \in SUBSET Names, literal \in Literals :
            table' = Referring(t, names, literal)
      BY <1>3, <2>3 DEF Add
    <3>2. Consistent(t)
      BY <1>0, <3>1, AddToConsistent
    <3>3. KeptInv(t, added')
      <4>1. CASE ByName(a)
        <5> DEFINE n == atom[a].name
        <5>1. n \in Names /\ t \in AddByName(table, a, Treatment)
          BY <1>0, <3>1, <4>1, AtomFields DEF AddTo, ByName
        <5>2. SlotBest(n) /\ \A b \in added : Named(b)
          BY <5>1 DEF BestInv
        <5>3. table.byName[n] # NoAtom =>
                 /\ Named(table.byName[n]) /\ ByName(table.byName[n])
                 /\ table.byName[n] \in added
          BY <5>2 DEF SlotBest, HasName, AddedAs
        <5>4. \A b \in added : ByName(b) /\ atom[b].name = n => table.byName[n] # NoAtom
          BY <5>2 DEF SlotBest, HasName, AddedAs
        <5>5. QED
          BY <1>0, <2>1, <4>1, <5>1, <5>3, <5>4, AddByNameKept
      <4>2. CASE ~ ByName(a)
        <5>1. t = AddByContent(table, a)
          BY <3>1, <4>2 DEF AddTo, ByName
        <5>2. QED
          BY <1>0, <2>1, <4>2, <5>1, AddByContentKept
      <4>3. QED
        BY <4>1, <4>2
    <3>4. KeptInv(table', added')
      BY <1>0, <3>1, <3>2, <3>3, ReferringKept
    <3>5. QED
      BY <1>2, <3>4
  <2>4. QED
    BY <2>2, <2>3
<1>4. CASE AddStatic \/ CompleteInitialObjectFiles
  <2>1. PICK names \in SUBSET Names, literal \in Literals :
            table' = Referring(table, names, literal)
    BY <1>4 DEF AddStatic, CompleteInitialObjectFiles, Literals
  <2>2. added' = added /\ KeptInv(table, added)
    BY <1>4 DEF AddStatic, CompleteInitialObjectFiles, KeptOrThrown
  <2>3. KeptInv(table', added')
    BY <1>0, <2>1, <2>2, ReferringKept
  <2>4. QED
    BY <1>1, <1>2, <2>3 DEF KeptOrThrown
<1>5. CASE UNCHANGED tableVars
  <2>1. (thrown \/ KeptInv(table', added')) /\ UNCHANGED thrown
    BY <1>5 DEF tableVars, KeptOrThrown
  <2>2. QED
    BY <1>1, <1>2, <2>1 DEF KeptOrThrown
<1>6. QED
  BY <1>1, <1>3, <1>4, <1>5 DEF TableNext, KeptOrThrown

\* Of the atoms of a name or content the one in the slot is kept, and all others go,
\* each with its unwind information and with nothing else.
THEOREM LosersDropped == TableSpec /\ PrivateUnwind => []KeptIffSlotted
<1>1. TableInit /\ PrivateUnwind => BestInv /\ KeptOrThrown
  BY DEF TableInit, BestInv, SlotBest, AddedAs, EmptyTable, HasName, KeptOrThrown,
         KeptInv, UnwindFollows, DroppedFor, Literals
<1>2. TableTypeOK /\ BestInv /\ KeptOrThrown /\ [TableNext]_tableVars
          => BestInv' /\ KeptOrThrown'
  BY NextBest, NextKept
<1>3. TableTypeOK /\ BestInv /\ KeptOrThrown => KeptIffSlotted
  <2> SUFFICES ASSUME TableTypeOK, BestInv, KeptInv(table, added), NEW a \in added
               PROVE  /\ a \notin table.coalescedAway <=> a = SlotAtom(table, a)
                      /\ UnwindFollows(table, a)
    BY DEF KeptOrThrown, KeptIffSlotted, SlotAtom, UnwindFollows
  <2>1. a \in Atoms /\ Named(a)
    BY TypeSplit DEF BestInv
  <2>2. QED
    BY <2>1 DEF KeptInv, DroppedFor
<1>4. QED
  BY TypeCorrect, <1>1, <1>2, <1>3, PTL DEF TableSpec
==============================================================================
