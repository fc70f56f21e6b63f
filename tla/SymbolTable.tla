----------------------------- MODULE SymbolTable -----------------------------
(***************************************************************************)
(* The symbol table of the resolver (class SymbolTable): which of several  *)
(* atoms of one name, or of one content, the link keeps.  A reference to a *)
(* name or a content is turned into the number of a slot, and the slot     *)
(* holds the atom chosen so far.  Here a slot goes by the name or content  *)
(* it was made for.                                                        *)
(*                                                                         *)
(* The operators take a table and return a table, or a set of tables where *)
(* the compiled code may do one of several things, so that the resolver    *)
(* can compose them.  TableSpec is the table on its own: atoms are added in *)
(* any order, with whatever references.                                    *)
(***************************************************************************)
EXTENDS Integers

CONSTANTS
    Atoms, NoAtom,       \* the atoms of all files and libraries; NULL
    Names, Contents,     \* what atoms are coalesced by
    Attributes,          \* the attributes of the atoms: the inputs considered
    CommonsMode,         \* _options.commonsMode()
    DeadCodeStrip,       \* _options.deadCodeStrip()
    AllowDeadDuplicates  \* _options.allowDeadDuplicates()

Definitions == {"regular", "tentative", "absolute", "proxy"}
Scopes == {"translationUnit", "linkageUnit", "global"}

\* What the table asks of an atom.  All atoms of one file have its ordinal.
AtomRecords ==
    [name : Names, content : Contents,
     combine : {"never", "byName", "byContent"},  \* byContent: or byReferences
     definition : Definitions,
     machHeader : BOOLEAN,           \* section().type() == typeMachHeader
     lto : BOOLEAN,                  \* contentType() == typeLTOtemporary
     autoHide : BOOLEAN, scope : Scopes,
     size : Nat, alignment : Nat,    \* alignment().trailingZeros()
     path : Nat, ordinal : Nat,      \* of file()
     subordinates : SUBSET Atoms]    \* targets of kindNoneGroupSubordinate*

ASSUME TableAssumption ==
    /\ NoAtom \notin Atoms
    /\ Attributes \subseteq [Atoms -> AtomRecords]
    /\ CommonsMode \in {"ignoreDylibs", "overriddenByDylibs", "conflictsError"}
    /\ DeadCodeStrip \in BOOLEAN
    /\ AllowDeadDuplicates \in BOOLEAN

VARIABLES
    atom,       \* the attributes; never change
    table,      \* the symbol table
    added,      \* the atoms given to add() so far
    initial,    \* ! _completedInitialObjectFiles
    thrown      \* the link has ended with an exception

tableVars == <<atom, table, added, initial, thrown>>

Tables ==
    [slots : SUBSET Names,                 \* the keys of _byNameTable
     byName : [Names -> Atoms \cup {NoAtom}],       \* and the atoms in the slots
     byContent : [Contents -> Atoms \cup {NoAtom}], \* _cstringTable and others
     coalescedAway : SUBSET Atoms,         \* the atoms with coalescedAway()
     errors : SUBSET SUBSET Atoms,         \* _duplicateSymbolErrors
     warnings : SUBSET SUBSET Atoms,       \* _duplicateSymbolWarnings
     externalTentatives : BOOLEAN]         \* _hasExternalTentativeDefinitions

EmptyTable ==
    [slots |-> {}, byName |-> [n \in Names |-> NoAtom],
     byContent |-> [c \in Contents |-> NoAtom], coalescedAway |-> {},
     errors |-> {}, warnings |-> {}, externalTentatives |-> FALSE]

------------------------------------------------------------------------------
(***************************************************************************)
(* Choosing between two atoms of one name (class NameCollisionResolution). *)
(* The operators say whether the first one, the new one, is picked.        *)
(***************************************************************************)
Weak(a) == atom[a].combine = "byName"
Regular(a) == atom[a].definition = "regular"
Proxy(a) == atom[a].definition = "proxy"
Tentative(a) == atom[a].definition = "tentative"
Absolute(a) == atom[a].definition = "absolute"

\* A low ordinal is a high precedence.
PickHigherOrdinal(a, b) == atom[a].ordinal < atom[b].ordinal
PickLowerOrdinal(a, b) == atom[a].ordinal > atom[b].ordinal

PickLargerSize(a, b) ==
    IF atom[a].size = atom[b].size THEN PickLowerOrdinal(a, b)
    ELSE atom[a].size > atom[b].size

\* mutant: swapped operands
PickSmallerAlignment(a, b) == atom[b].alignment > atom[a].alignment
PickGreaterAlignment(a, b) == atom[a].alignment > atom[b].alignment

\* mutant: the more visible of two weak definitions is not preferred
PickVisibleBlindly(a, b) == PickGreaterAlignment(a, b)
PickVisible(a, b) ==
    IF atom[a].scope # atom[b].scope THEN atom[a].scope = "global"
    ELSE PickGreaterAlignment(a, b)

PickBetweenWeak(a, b) ==
    IF atom[a].lto # atom[b].lto THEN ~ atom[a].lto
    ELSE IF atom[a].autoHide # atom[b].autoHide THEN ~ atom[a].autoHide
    ELSE IF atom[a].autoHide THEN PickGreaterAlignment(a, b)
    ELSE PickVisible(a, b)

\* Two definitions that are not weak, and neither is a mach header.
Clash(a, b) ==
    /\ Regular(a) /\ Regular(b)
    /\ ~ Weak(a) /\ ~ Weak(b)
    /\ ~ atom[a].machHeader /\ ~ atom[b].machHeader

\* When an error is to be reported, pickBetweenRegularAtoms() picks neither and
\* leaves _chosen as it was, uninitialized: choseAtom() can say either.
PickBetweenRegular(a, b, treatment) ==
    IF Clash(a, b)
    THEN IF treatment = "error" THEN BOOLEAN ELSE {PickLowerOrdinal(a, b)}
    ELSE IF Weak(a) /\ Weak(b) THEN {PickBetweenWeak(a, b)}
    ELSE {Weak(b) \/ (~ Weak(a) /\ atom[a].machHeader)}

\* One of a, b is tentative and the other a dylib's.
PickCommonsMode(a, b) == Tentative(a) <=> CommonsMode = "ignoreDylibs"

\* The definitions the first of which wins against the second, always.
Defeats ==
    {<<"regular", "tentative">>, <<"regular", "proxy">>,
     <<"absolute", "tentative">>, <<"absolute", "proxy">>}
DefeatedBy ==
    {<<"tentative", "regular">>, <<"proxy", "regular">>, <<"proxy", "absolute">>}

PickAtom(a, b, treatment) ==
    LET pair == <<atom[a].definition, atom[b].definition>> IN
    IF Regular(a) /\ Regular(b) THEN PickBetweenRegular(a, b, treatment)
    ELSE IF pair \in Defeats THEN {TRUE}
    ELSE IF pair \in DefeatedBy THEN {FALSE}
    ELSE IF Tentative(a) /\ Tentative(b) THEN {PickLargerSize(a, b)}
    ELSE IF Proxy(a) /\ Proxy(b) THEN {~ Weak(a)}
    ELSE IF Absolute(a) \/ Absolute(b) THEN {PickHigherOrdinal(a, b)}
    ELSE {PickCommonsMode(a, b)}

\* mutant: an absolute symbol never clashes
RealDefinitionStrict(a) == Regular(a)
RealDefinition(a) == Regular(a) \/ Absolute(a)

\* _reportDuplicate
Duplicates(a, b) ==
    \/ Clash(a, b)
    \/ /\ RealDefinition(a) /\ RealDefinition(b)
       /\ Absolute(a) \/ Absolute(b)

\* pickAtom() throws: two dylibs export the symbol, or a common symbol
\* conflicts with a dylib.
PickThrows(a, b) ==
    \/ Proxy(a) /\ Proxy(b) /\ ~ Weak(a) /\ ~ Weak(b)
    \/ /\ CommonsMode = "conflictsError"
       /\ (Proxy(a) /\ Tentative(b)) \/ (Tentative(a) /\ Proxy(b))

------------------------------------------------------------------------------
(***************************************************************************)
(* The table.                                                              *)
(***************************************************************************)
FindSlotForName(t, n) == [t EXCEPT !.slots = @ \cup {n}]

\* mutant: any atom found in the hash table is taken for the same content
FindSlotForAnyContent(t, a) ==
    LET taken == {d \in Contents : t.byContent[d] # NoAtom}
    IN  IF taken = {} THEN [t EXCEPT !.byContent[atom[a].content] = a]
        ELSE [t EXCEPT !.byContent[atom[a].content] =
                           t.byContent[CHOOSE d \in taken : TRUE]]
\* The slot of a content nobody has asked for yet starts with the atom asked for.
FindSlotForContent(t, a) ==
    IF t.byContent[atom[a].content] # NoAtom THEN t
    ELSE [t EXCEPT !.byContent[atom[a].content] = a]

HasName(t, n) == t.byName[n] # NoAtom

\* The atoms that are coalesced away with a.  The recursion of the code ends in
\* two calls: an alternate entry has its start atom as subordinate, and that one
\* its unwind information.
Group(a) ==
    LET direct == atom[a].subordinates
    IN  {a} \cup direct \cup UNION {atom[b].subordinates : b \in direct}

MarkCoalescedAway(t, a) == [t EXCEPT !.coalescedAway = @ \cup Group(a)]

\* A clash gets a list of its own, for DuplicateSymbols is ordered by the
\* address of the new atom's name; the list holds one atom of a path.
ListOf(old, new) == IF atom[old].path = atom[new].path THEN {old} ELSE {old, new}

Report(t, new, old, treatment) ==
    IF ~ Duplicates(new, old) \/ treatment = "suppress" THEN t
    ELSE IF treatment = "error" THEN [t EXCEPT !.errors = @ \cup {ListOf(old, new)}]
    ELSE [t EXCEPT !.warnings = @ \cup {ListOf(old, new)}]

NoteTentative(t, a) ==
    [t EXCEPT !.externalTentatives =
        @ \/ (Tentative(a) /\ atom[a].scope = "global")]

\* mutant: a common symbol counts only if it replaces another atom
ReplaceNotingLate(t, a, old) ==
    LET placed == [t EXCEPT !.byName[atom[a].name] = a]
    IN  IF old = NoAtom THEN placed ELSE MarkCoalescedAway(NoteTentative(placed, a), old)
\* old, the atom in the slot so far, if any, gives way to a.
Replace(t, a, old) ==
    LET placed == NoteTentative([t EXCEPT !.byName[atom[a].name] = a], a)
    IN  IF old = NoAtom THEN placed ELSE MarkCoalescedAway(placed, old)

\* The possible answers to "is a, the new atom, used".
UseNew(t, a, treatment) ==
    LET old == t.byName[atom[a].name]
    IN  IF old = NoAtom THEN {TRUE} ELSE PickAtom(a, old, treatment)

AddByName(t, a, treatment) ==
    LET n == atom[a].name
        old == t.byName[n]
        found == FindSlotForName(t, n)
        told == IF old = NoAtom THEN found ELSE Report(found, a, old, treatment)
    IN  {IF new THEN Replace(told, a, old) ELSE MarkCoalescedAway(told, a) :
            new \in UseNew(t, a, treatment)}

\* mutant: an atom met before by a reference is coalesced into itself
ContentLoserBlindly(t, a, old) == MarkCoalescedAway(t, a)
\* a does not get the slot of its content, unless it has it already.
ContentLoser(t, a, old) == IF old = a THEN t ELSE MarkCoalescedAway(t, a)

AddByContent(t, a) ==
    LET c == atom[a].content
        old == t.byContent[c]
        found == FindSlotForContent(t, a)
    IN  IF old = NoAtom THEN found
        ELSE IF PickGreaterAlignment(a, old)
        THEN MarkCoalescedAway([found EXCEPT !.byContent[c] = a], old)
        ELSE ContentLoser(found, a, old)

\* The possible tables after add(a, treatment).
AddTo(t, a, treatment) ==
    IF atom[a].combine = "byContent" THEN {AddByContent(t, a)}
    ELSE AddByName(t, a, treatment)

AddThrows(t, a) ==
    /\ atom[a].combine # "byContent"
    /\ HasName(t, atom[a].name)
    /\ PickThrows(a, t.byName[atom[a].name])

\* doAtom() adds the atoms that are not static.
Named(a) == atom[a].scope # "translationUnit"

\* What a fixup is bound to by content, if it is.
Literals == {a \in Atoms : atom[a].combine = "byContent" /\ Named(a)} \cup {NoAtom}

\* convertReferencesToIndirect(): what an atom refers to gets slots, the names it
\* is bound to and the literal, if any.
Referring(t, names, literal) ==
    LET named == [t EXCEPT !.slots = @ \cup names]
    IN  IF literal = NoAtom THEN named ELSE FindSlotForContent(named, literal)

\* undefines(): the names asked for that nothing defines.
Undefines(t) == {n \in t.slots : ~ HasName(t, n)}
\* tentativeDefs()
TentativeDefs(t) == {n \in Names : HasName(t, n) /\ Tentative(t.byName[n])}

\* doAtom()'s treatment of duplicates.
Treatment ==
    IF ~ DeadCodeStrip THEN "error"
    ELSE IF AllowDeadDuplicates THEN "suppress"
    ELSE IF initial THEN "error" ELSE "warning"

------------------------------------------------------------------------------
(***************************************************************************)
(* The table on its own.                                                   *)
(***************************************************************************)
TableInit ==
    /\ atom \in Attributes
    /\ table = EmptyTable
    /\ added = {}
    /\ initial = TRUE
    /\ thrown = FALSE

\* A dylib is asked for a symbol only while the table has no definition of it, a
\* common one, or one that is weak in another dylib; and only after the initial
\* object files.
Wanted(a) ==
    LET old == table.byName[atom[a].name]
    IN  Proxy(a) => /\ ~ initial
                    /\ atom[a].name \in table.slots
                    /\ old # NoAtom => Tentative(old) \/ (Proxy(old) /\ Weak(old))

\* An atom of a file comes after its start atom, and a file is added before the
\* next one is begun.  A dylib gives its atoms one by one.
FileOrder(a) ==
    /\ \A b \in atom[a].subordinates : Named(b) => b \in added
    /\ \A b \in added, c \in Atoms \ added :
          atom[b].ordinal = atom[c].ordinal /\ Named(c) /\ ~ Proxy(c)
          => atom[a].ordinal = atom[b].ordinal

\* An atom of doAtom(): a named one is added, and what it refers to gets slots.
Add(a) ==
    /\ ~ thrown
    /\ a \notin added
    /\ Named(a)
    /\ FileOrder(a)
    /\ Wanted(a)
    /\ added' = added \cup {a}
    /\ IF AddThrows(table, a)
       THEN thrown' = TRUE /\ UNCHANGED table
       ELSE /\ \E t \in AddTo(table, a, Treatment) :
                  \E names \in SUBSET Names, literal \in Literals :
                      table' = Referring(t, names, literal)
            /\ UNCHANGED thrown
    /\ UNCHANGED <<atom, initial>>

\* One that is static only refers.
AddStatic ==
    /\ ~ thrown
    /\ \E names \in SUBSET Names, literal \in Literals :
          table' = Referring(table, names, literal)
    /\ UNCHANGED <<atom, added, initial, thrown>>

\* The end of buildAtomList(), and the names of addInitialUndefines().
CompleteInitialObjectFiles ==
    /\ ~ thrown
    /\ initial
    /\ initial' = FALSE
    /\ \E names \in SUBSET Names : table' = Referring(table, names, NoAtom)
    /\ UNCHANGED <<atom, added, thrown>>

TableNext ==
    \/ \E a \in Atoms : Add(a)
    \/ AddStatic
    \/ CompleteInitialObjectFiles

TableSpec == TableInit /\ [][TableNext]_tableVars

------------------------------------------------------------------------------
(***************************************************************************)
(* Properties                                                              *)
(***************************************************************************)
\* The table has the types of the class SymbolTable, and a slot of a name or a
\* content holds an atom of it.
TableTypeOK ==
    /\ atom \in [Atoms -> AtomRecords]
    /\ table \in Tables
    /\ added \in SUBSET Atoms
    /\ initial \in BOOLEAN
    /\ thrown \in BOOLEAN
    /\ \A n \in Names : HasName(table, n) => /\ n \in table.slots
                                              /\ atom[table.byName[n]].name = n
    /\ \A c \in Contents :
          table.byContent[c] # NoAtom => atom[table.byContent[c]].content = c

ByName(a) == atom[a].combine # "byContent"
AddedAs(n) == {a \in added : ByName(a) /\ atom[a].name = n}

\* What an atom is worth among atoms of its name, most significant first.  It
\* leaves out absolute symbols, which compete by file order.
Overridden == CommonsMode = "overriddenByDylibs"
Flag(b) == IF b THEN 1 ELSE 0
Worth(a) ==
    IF Regular(a)
    THEN IF Weak(a)
         THEN <<5, Flag(~ atom[a].lto), Flag(~ atom[a].autoHide),
                Flag(~ atom[a].autoHide /\ atom[a].scope = "global"),
                atom[a].alignment>>
         ELSE <<6, Flag(atom[a].machHeader),
                IF atom[a].machHeader THEN 0 ELSE atom[a].ordinal, 0, 0>>
    ELSE IF Tentative(a)
    THEN <<IF Overridden THEN 1 ELSE 4, atom[a].size, atom[a].ordinal, 0, 0>>
    ELSE <<3, Flag(~ Weak(a)), 0, 0, 0>>

WorthMore(v, w) ==
    \E i \in 1 .. 5 : v[i] > w[i] /\ \A j \in 1 .. i - 1 : v[j] = w[j]

\* Whatever the order in which files and libraries bring the definitions of a
\* name, the slot of the name ends up with one that no other beats: real before
\* weak before tentative and dylib definitions, the best of its kind.  Names
\* with an absolute symbol, or with a clash that ends the link, are left out.
WinnerIsBest ==
    \A n \in Names :
        \/ \E a \in AddedAs(n) : Absolute(a)
        \/ \E list \in table.errors : \E a \in list : atom[a].name = n
        \/ thrown
        \/ \A a \in AddedAs(n) : ~ WorthMore(Worth(a), Worth(table.byName[n]))

\* Two real definitions of one name are reported, although the second one may be
\* compared with a third that took the slot in between.  The exception: a
\* tentative definition of an earlier file takes the slot of an absolute symbol,
\* and then hides it.
Real(a) == Absolute(a) \/ (Regular(a) /\ ~ Weak(a) /\ ~ atom[a].machHeader)
DuplicatesReported ==
    \A a, b \in added :
        (/\ a # b /\ ByName(a) /\ ByName(b) /\ atom[a].name = atom[b].name
         /\ Real(a) /\ Real(b)
         /\ ~ AllowDeadDuplicates
         /\ \A c \in AddedAs(atom[a].name) : ~ Tentative(c) /\ ~ atom[c].machHeader)
        => \E list \in table.errors \cup table.warnings :
              \E c \in list : atom[c].name = atom[a].name

\* The atoms of a name, or of a content, that went through add() are coalesced
\* away but for the one in the slot; and the unwind information of a function
\* (a subordinate without a name) goes when the function goes and only then.
KeptIffSlotted ==
    thrown \/ \A a \in added :
        /\ a \notin table.coalescedAway <=>
              a = IF ByName(a) THEN table.byName[atom[a].name]
                  ELSE table.byContent[atom[a].content]
        /\ \A u \in atom[a].subordinates :
              u \in table.coalescedAway <=> a \in table.coalescedAway

\* The constant kept for a content meets the alignment every file asked for.
ContentAligned ==
    \A a \in added :
        ~ ByName(a) =>
            atom[table.byContent[atom[a].content]].alignment >= atom[a].alignment

\* choseAtom() reads _chosen only after pickAtom() has set it: whatever atom comes
\* next, the choice is determined.
ChosenAssigned ==
    \A a \in Atoms \ added :
        (~ thrown /\ ByName(a) /\ Wanted(a) /\ ~ AddThrows(table, a))
        => UseNew(table, a, Treatment) # BOOLEAN

\* An atom in the slot of a name or content has not been coalesced away.
SlotAtomKept ==
    /\ \A n \in Names : table.byName[n] \notin table.coalescedAway
    /\ \A c \in Contents : table.byContent[c] \notin table.coalescedAway
==============================================================================
