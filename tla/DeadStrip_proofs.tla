--------------------------- MODULE DeadStrip_proofs ---------------------------
(***************************************************************************)
(* Proofs about DeadStrip: what the walk marks, for every input and in     *)
(* whatever way the searches it makes change the symbol table under it.    *)
(***************************************************************************)
EXTENDS DeadStrip, Resolver_proofs

------------------------------------------------------------------------------
(***************************************************************************)
(* The resolver's invariants hold until the dead atoms are dropped.        *)
(***************************************************************************)
\* The slots of names hold known atoms, and all of those have their names defined.
SlotsKnown ==
    ~ thrown =>
        /\ \A n \in Names : HasName(table, n) => table.byName[n] \in known
        /\ \A a \in known : Named(a) /\ ByName(a) => HasName(table, atom[a].name)
        /\ pc # "input" => link.undefines \subseteq table.slots

Base == RTypeInv /\ FilesInv /\ SearchInv /\ EdgesInv /\ SlotsKnown

\* An atom that takes a name from another one coalesces it away; so does one that
\* takes a content.
LEMMA SlotsLost ==
    ASSUME RTypeInv, NEW a \in Atoms, DoAtom(a), ~ thrown'
    PROVE  /\ table.coalescedAway \subseteq table'.coalescedAway
           /\ \A n \in Names :
                 table'.byName[n] # table.byName[n] =>
                     /\ table'.byName[n] = a /\ Named(a) /\ ByName(a) /\ atom[a].name = n
                     /\ HasName(table, n) => table.byName[n] \in table'.coalescedAway
           /\ \A c \in Contents :
                 table'.byContent[c] # table.byContent[c] /\ table.byContent[c] # NoAtom =>
                     table'.byContent[c] = a /\ table.byContent[c] \in table'.coalescedAway
<1>1. AtomsOK /\ Consistent(table)
  BY TypeSplit DEF RTypeInv
<1>2. link.references[a] \in SUBSET Names /\ link.literals[a] \in Literals
  BY LinkFields DEF DoAtom, RTypeInv, ResolverTypeOK
<1>3. ~ (Named(a) /\ AddThrows(table, a))
  BY DEF DoAtom
<1>4. PICK t \in IF Named(a) THEN AddTo(table, a, Treatment) ELSE {table} :
          table' = Referring(t, link.references[a], link.literals[a])
  BY <1>3 DEF DoAtom
<1>5. Consistent(t)
  BY <1>1, <1>4, AddToConsistent
<1>6. table'.byName = t.byName /\ table'.coalescedAway = t.coalescedAway
  BY <1>1, <1>2, <1>4, <1>5, ReferringConsistent
<1>7. \A c \in Contents : t.byContent[c] # NoAtom => table'.byContent[c] = t.byContent[c]
  BY <1>2, <1>4, <1>5 DEF Referring, FindSlotForContent, Consistent, Tables
<1>8. CASE ~ Named(a)
  BY <1>1, <1>4, <1>6, <1>7, <1>8
<1>9. CASE Named(a) /\ ByName(a)
  <2> DEFINE old == table.byName[atom[a].name]
             with == [table.byName EXCEPT ![atom[a].name] = a]
  <2>1. t \in AddByName(table, a, Treatment)
    BY <1>4, <1>9 DEF AddTo, ByName
  <2>2. t.byContent = table.byContent
    BY <1>1, <2>1, AddByNameConsistent
  <2>3. /\ old = NoAtom => t.byName = with /\ t.coalescedAway = table.coalescedAway
        /\ old # NoAtom =>
              \E new \in PickAtom(a, old, Treatment) :
                  /\ t.byName = IF new THEN with ELSE table.byName
                  /\ t.coalescedAway =
                        table.coalescedAway \cup Group(IF new THEN old ELSE a)
    BY <1>1, <2>1, AddByNameSlots
  <2>4. table.byName \in [Names -> Atoms \cup {NoAtom}] /\ atom[a].name \in Names
    BY <1>1, AtomFields DEF Consistent, Tables
  <2>5. old \in Group(old)
    BY DEF Group
  <2>6. \A n \in Names : n # atom[a].name => with[n] = table.byName[n]
    BY <2>4
  <2>7. with[atom[a].name] = a
    BY <2>4
  <2> HIDE DEF with
  <2>8. /\ table.coalescedAway \subseteq t.coalescedAway
        /\ \A n \in Names :
              t.byName[n] # table.byName[n] =>
                  /\ t.byName[n] = a /\ atom[a].name = n
                  /\ HasName(table, n) => table.byName[n] \in t.coalescedAway
    <3>1. CASE old = NoAtom
      BY <2>3, <2>6, <2>7, <3>1 DEF HasName
    <3>2. CASE old # NoAtom
      BY <2>3, <2>5, <2>6, <2>7, <3>2
    <3>3. QED
      BY <3>1, <3>2
  <2>9. QED
    BY <1>6, <1>7, <1>9, <2>2, <2>8
<1>10. CASE Named(a) /\ ~ ByName(a)
  <2> DEFINE old == table.byContent[atom[a].content]
  <2>1. t = AddByContent(table, a)
    BY <1>4, <1>10 DEF AddTo, ByName
  <2>2. t.byName = table.byName
    BY <1>1, <2>1, AddByContentConsistent
  <2>3. /\ table.coalescedAway \subseteq t.coalescedAway
        /\ \/ t.byContent = table.byContent
           \/ /\ t.byContent = [table.byContent EXCEPT ![atom[a].content] = a]
              /\ old # NoAtom => old \in t.coalescedAway
    BY Zenon, <1>1, <2>1
       DEF AddByContent, FindSlotForContent, ContentLoser, MarkCoalescedAway, Group,
           Consistent, Tables
  <2>4. table.byContent \in [Contents -> Atoms \cup {NoAtom}] /\ a # NoAtom
    BY <1>1, AtomFields DEF Consistent, Tables
  <2>5. \A c \in Contents :
            t.byContent[c] # table.byContent[c] =>
                /\ t.byContent[c] = a /\ a # NoAtom
                /\ table.byContent[c] # NoAtom => table.byContent[c] \in t.coalescedAway
    BY <2>3, <2>4
  <2>6. QED
    BY <1>6, <1>7, <2>2, <2>3, <2>5
<1>11. QED
  BY <1>8, <1>9, <1>10

LEMMA NextSlotsKnown ==
    ASSUME RTypeInv, SlotsKnown, [ResolverNext]_resolverVars
    PROVE  SlotsKnown'
<1>0. /\ link \in Links /\ link' = link /\ atom' = atom /\ AtomsOK /\ Consistent(table)
  BY InputStays, TypeSplit DEF RTypeInv
<1>1. ASSUME NEW a \in Atoms, DoAtom(a)  PROVE SlotsKnown'
  <2> SUFFICES ASSUME ~ thrown'  PROVE SlotsKnown'
    BY DEF SlotsKnown
  <2>1. ~ thrown /\ known' = known \cup {a} /\ pc' = pc
    BY <1>1 DEF DoAtom, loopVars
  <2>2. /\ Grows(table, table')
        /\ Named(a) /\ ByName(a) => HasName(table', atom[a].name)
    BY <1>1, DoAtomTable
  <2>3. \A n \in Names : table'.byName[n] \in {table.byName[n], a}
    BY <1>1, SlotsLost
  <2>4. \A n \in Names : HasName(table', n) => table'.byName[n] \in known'
    BY <2>1, <2>3 DEF SlotsKnown, HasName
  <2>5. \A b \in known' : Named(b) /\ ByName(b) => HasName(table', atom[b].name)
    <3>1. \A b \in known : atom[b].name \in Names
      BY <1>0, AtomFields DEF RTypeInv, ResolverTypeOK
    <3>2. QED
      BY <2>1, <2>2, <3>1 DEF SlotsKnown, Grows, KeepsNames
  <2>6. QED
    BY <1>0, <2>1, <2>2, <2>4, <2>5 DEF SlotsKnown, Grows, Named, ByName
<1>2. CASE EndInput
  <2>1. /\ ~ thrown /\ known' = known /\ link.undefines \in SUBSET Names
        /\ table' = [table EXCEPT !.slots = @ \cup link.undefines]
    BY <1>0, <1>2, LinkFields DEF EndInput, Idle
  <2>2. table'.byName = table.byName /\ link.undefines \subseteq table'.slots
    BY <1>0, <2>1 DEF Consistent, Tables
  <2>3. QED
    BY <1>0, <2>1, <2>2 DEF SlotsKnown, HasName, Named, ByName
<1>3. CASE ReadFile \/ ResolveUndefines \/ SearchLibraries \/ UNCHANGED resolverVars
  <2>1. UNCHANGED <<thrown, table, known>> /\ (pc = "input" => pc' = "input")
    BY <1>3
       DEF ReadFile, ResolveUndefines, StartPass, EndUndefines, EndTentatives, EndPasses,
           EndLeftovers, OnlyLoops, SearchUndefined, SearchTentative, SearchLibraries,
           AskDylib, LoadMember, NotFound, FirstAnswer, Idle, resolverVars, tableVars,
           loopVars
  <2>2. QED
    BY <1>0, <2>1, SMTT(40) DEF SlotsKnown, HasName, Named, ByName
<1>4. QED
  BY <1>1, <1>2, <1>3 DEF ResolverNext

LEMMA NextBase ==
    ASSUME Base, [ResolverNext]_resolverVars
    PROVE  Base'
BY NextRType, NextFiles, NextSearch, NextEdges, NextSlotsKnown DEF Base

LEMMA InitBase == ResolverInit => Base
<1> SUFFICES ASSUME ResolverInit  PROVE Base
  OBVIOUS
<1>1. EdgesInv /\ SlotsKnown
  BY DEF ResolverInit, TableInit, EmptyTable, EdgesInv, SlotsKnown, HasName
<1>2. QED
  BY <1>1, InitRType, InitFiles, InitSearch DEF Base

\* Dead stripping may search a name that was asked for and has no definition, or a
\* common one.
LEMMA SearchBase ==
    ASSUME Base, ~ thrown, pending = <<>>, search = NoSearch, pc = "resolved",
           NEW n \in Names, n \in table.slots, NEW dylibs \in BOOLEAN, NEW dataOnly \in BOOLEAN,
           ~ HasName(table, n) \/ Tentative(table.byName[n]),
           Search(n, dylibs, dataOnly)
    PROVE  Base'
<1>1. /\ UNCHANGED <<tableVars, link, loopVars, pending, known, loaded, requested, autolinked,
                     searchable>>
      /\ search' = Searching(n, dylibs, dataOnly)
  BY DEF Search
<1>2. /\ Searching(n, dylibs, dataOnly) \in Searches
      /\ Searching(n, dylibs, dataOnly).name = n
      /\ Searching(n, dylibs, dataOnly).dylibs = dylibs
  BY DEF Searching, Searches
<1>3. RTypeInv'
  <2>1. TableTypeOK'
    BY <1>1, NextType DEF Base, RTypeInv, tableVars
  <2>2. ResolverTypeOK'
    BY <1>1, <1>2 DEF Base, RTypeInv, ResolverTypeOK, tableVars, loopVars
  <2>3. QED
    BY <1>1, <2>1, <2>2 DEF Base, RTypeInv, Literals, Named, tableVars
<1>4. FilesInv'
  BY <1>1
     DEF Base, FilesInv, Begun, PendingOf, PendingExport, Named, Sourced, ExportIn,
         tableVars, loopVars
<1>5. Open(n)' /\ \A lib \in Libraries, m \in Names : ~ PendingExport(lib, m)'
  BY <1>1 DEF Open, HasName, Tentative, Proxy, Weak, PendingExport, tableVars
<1>6. SearchInv'
  BY <1>1, <1>2, <1>5 DEF Base, SearchInv, HasName, tableVars, loopVars
<1>7. EdgesInv' /\ SlotsKnown'
  BY <1>1 DEF Base, EdgesInv, SlotsKnown, HasName, Named, ByName, tableVars, loopVars
<1>8. QED
  BY <1>3, <1>4, <1>6, <1>7 DEF Base

\* The names still to be seen are no concern of the resolver's by then.
LEMMA TodoBase ==
    ASSUME Base, pc = "resolved", todo' \in SUBSET Names, ~ thrown => todo' \subseteq table.slots,
           UNCHANGED <<tableVars, link, pc, unread, pending, known, loaded, requested,
                       autolinked, searchable, search, genCount>>
    PROVE  Base'
<1>1. RTypeInv'
  <2>1. TableTypeOK'
    BY NextType DEF Base, RTypeInv, tableVars
  <2>2. ResolverTypeOK'
    BY DEF Base, RTypeInv, ResolverTypeOK, tableVars
  <2>3. QED
    BY <2>1, <2>2 DEF Base, RTypeInv, Literals, Named, tableVars
<1>2. FilesInv'
  BY DEF Base, FilesInv, Begun, PendingOf, PendingExport, Named, Sourced, ExportIn,
         tableVars
<1>3. SearchInv'
  BY DEF Base, SearchInv, PendingExport, Open, HasName, Tentative, Proxy, Weak,
         tableVars
<1>4. EdgesInv' /\ SlotsKnown'
  BY DEF Base, EdgesInv, SlotsKnown, HasName, Named, ByName, tableVars
<1>5. QED
  BY <1>1, <1>2, <1>3, <1>4 DEF Base
------------------------------------------------------------------------------
(***************************************************************************)
(* Type correctness.                                                       *)
(***************************************************************************)
\* The calls for an atom that is live, with fixups of that atom left to see.
Calls ==
    {f \in Frames :
        /\ f.atom \in live
        /\ f.names \subseteq link.references[f.atom]
        /\ f.contents \subseteq Frame(f.atom).contents
        /\ f.targets \subseteq link.targets[f.atom]}

StripInv ==
    /\ phase \in {"off", "roots", "mark", "liveIf"}
    /\ live \subseteq known /\ roots \subseteq known /\ passed \subseteq roots
    /\ liveIf \in Seq(known \cap link.ifReferencesLive)
    /\ stack \in Seq(Calls)
    /\ visit \in Visits \cup {NoVisit}
    /\ phase # "off" => pc = "resolved"
    /\ phase \in {"off", "roots"} => live = {}
    /\ stack # <<>> => phase \in {"mark", "liveIf"}
    /\ visit # NoVisit /\ phase = "roots" => visit.name \in todo
    /\ visit # NoVisit /\ phase # "roots" =>
          stack # <<>> /\ visit.name \in Head(stack).names
    /\ phase = "roots" /\ ~ thrown => todo \subseteq table.slots

\* The fixups of the input.
LEMMA Fixups ==
    ASSUME link \in Links, atom = link.attributes, AtomsOK, NEW a \in Atoms
    PROVE  /\ link.targets[a] \in SUBSET Atoms
           /\ Frame(a) \in Frames
           /\ Frame(a).atom = a /\ Frame(a).names = link.references[a]
           /\ Frame(a).targets = link.targets[a]
           /\ Frame(a).contents = IF link.literals[a] = NoAtom THEN {}
                                  ELSE {atom[link.literals[a]].content}
<1>1. link.targets \in [Atoms -> SUBSET Atoms]
  BY ResolverAssumption DEF LinkRecords
<1>2. /\ link.references[a] \in SUBSET Names
      /\ link.literals[a] # NoAtom => atom[link.literals[a]].content \in Contents
  BY LinkFields, AtomFields
<1>3. QED
  BY <1>1, <1>2 DEF Frame, Frames

\* What a known atom leads to is known, while no file is being read.
LEMMA SuccessorsKnown ==
    ASSUME Base, ~ thrown, pending = <<>>, NEW a \in known
    PROVE  /\ link.targets[a] \subseteq known
           /\ \A c \in Frame(a).contents : c \in Contents /\ table.byContent[c] \in known
           /\ \A n \in link.references[a] :
                 n \in Names /\ n \in table.slots
                 /\ (HasName(table, n) => table.byName[n] \in known)
<1>1. /\ link \in Links /\ atom = link.attributes /\ AtomsOK /\ a \in Atoms
      /\ WellFormed(link) /\ Range(pending) = {} /\ Consistent(table)
  BY TypeSplit, ResolverAssumption DEF Base, RTypeInv, ResolverTypeOK, Range
<1>2. link.targets[a] \subseteq known
  <2>1. Sourced(a)
    BY DEF Base, FilesInv
  <2>2. ASSUME NEW f \in Files, a \in Range(link.atoms[f])  PROVE link.targets[a] \subseteq known
    <3>1. f \in Begun
      BY <2>2, SMTT(40) DEF Base, FilesInv
    <3>2. link.targets[a] \subseteq Range(link.atoms[f])
      BY <1>1, <2>2, OfFile DEF FileAtomOK, Range
    <3>3. QED
      BY <1>1, <3>1, <3>2 DEF Base, FilesInv
  <2>3. ASSUME NEW lib \in Libraries, NEW n \in Names, ExportIn(lib, n, {a})
        PROVE  link.targets[a] = {}
    BY <1>1, <2>3, OfDylib DEF ExportOK, ExportIn
  <2>4. QED
    BY <2>1, <2>2, <2>3 DEF Sourced
<1>3. ASSUME NEW c \in Frame(a).contents
      PROVE  c \in Contents /\ table.byContent[c] \in known
  <2>1. link.literals[a] # NoAtom /\ c = atom[link.literals[a]].content
    BY <1>3 DEF Frame
  <2>2. c \in Contents
    BY <1>1, <2>1, LinkFields, AtomFields
  <2>3. QED
    BY <1>1, <2>1, <2>2 DEF Base, EdgesInv
<1>4. ASSUME NEW n \in link.references[a]
      PROVE  n \in Names /\ n \in table.slots
             /\ (HasName(table, n) => table.byName[n] \in known)
  <2>1. n \in Names
    BY <1>1, LinkFields
  <2>2. QED
    BY <2>1 DEF Base, EdgesInv, SlotsKnown
<1>5. QED
  BY <1>2, <1>3, <1>4

\* A call of markLive() for an atom, with the calls of rest to return to.
LEMMA MarkInv ==
    ASSUME Base, StripInv, NEW a \in known, NEW rest \in Seq(Calls), Mark(a, rest),
           phase \in {"mark", "liveIf"},
           visit' = NoVisit, phase' = phase, roots' = roots, passed' \subseteq roots,
           liveIf' \in Seq(known \cap link.ifReferencesLive), UNCHANGED resolverVars
    PROVE  StripInv'
<1>1. /\ link \in Links /\ atom = link.attributes /\ AtomsOK /\ a \in Atoms
      /\ UNCHANGED <<link, atom, known, pc, todo, table, thrown>>
  BY TypeSplit DEF Base, RTypeInv, ResolverTypeOK, resolverVars, tableVars
<1>2. live' = live \cup {a}
  BY DEF Mark
<1>3. \A x : Frame(x)' = Frame(x)
  BY <1>1 DEF Frame
<1>4. Calls \subseteq Calls'
  BY <1>1, <1>2, <1>3 DEF Calls
<1>5. Frame(a) \in Calls'
  <2>1. PICK f : f = Frame(a)
    OBVIOUS
  <2>2. /\ f \in Frames /\ f.atom = a /\ f.names = link.references[a]
        /\ f.targets = link.targets[a] /\ f.contents = Frame(f.atom).contents
    BY <1>1, <2>1, Fixups
  <2>3. f.contents = Frame(f.atom)'.contents
    BY <1>3, <2>2
  <2>4. f \in Calls'
    BY <1>1, <1>2, <2>2, <2>3 DEF Calls
  <2>5. QED
    BY <2>1, <2>4
<1>6. stack' \in Seq(Calls')
  <2>1. rest \in Seq(Calls')
    BY <1>4
  <2>2. <<Frame(a)>> \o rest \in Seq(Calls')
    BY <1>5, <2>1
  <2>3. QED
    BY <2>1, <2>2 DEF Mark
<1>7. QED
  BY <1>1, <1>2, <1>6 DEF StripInv

\* The current call goes on with fewer fixups, or returns.
LEMMA FewerFixups ==
    ASSUME StripInv, stack # <<>>
    PROVE  /\ Tail(stack) \in Seq(Calls) /\ Head(stack) \in Calls
           /\ \A f \in Calls : <<f>> \o Tail(stack) \in Seq(Calls)
BY DEF StripInv
LEMMA CallsStay == UNCHANGED <<live, link, atom>> => Calls' = Calls
BY DEF Calls, Frame

\* The steps that only look at fixups leave the resolver's variables alone.
LEMMA StripInvStays ==
    ASSUME StripInv, UNCHANGED <<live, link, atom>>, phase' \in {"off", "roots", "mark", "liveIf"},
           known \subseteq known', roots' \subseteq known', passed' \subseteq roots',
           liveIf' \in Seq(known' \cap link.ifReferencesLive), stack' = stack,
           visit' \in Visits \cup {NoVisit}, phase' # "off" => pc' = "resolved",
           phase' \in {"off", "roots"} => live = {},
           stack # <<>> => phase' \in {"mark", "liveIf"},
           visit' # NoVisit /\ phase' = "roots" => visit'.name \in todo',
           visit' # NoVisit /\ phase' # "roots" =>
               stack # <<>> /\ visit'.name \in Head(stack).names,
           phase' = "roots" /\ ~ thrown' => todo' \subseteq table'.slots
    PROVE  StripInv'
BY CallsStay DEF StripInv

LEMMA ResolveStrip ==
    ASSUME Base, StripInv, Resolve
    PROVE  Base' /\ StripInv'
<1>1. ResolverNext /\ UNCHANGED stripVars
  BY DEF Resolve, ResolverNext
<1>2. Base'
  BY <1>1, NextBase
<1>3. link' = link /\ atom' = atom
  BY <1>1, InputStays, SMTT(40)
<1>4. known' = known
  BY DEF Resolve, ReadFile, EndInput, ResolveUndefines, StartPass, EndUndefines,
         EndTentatives, EndPasses, EndLeftovers, OnlyLoops, SearchUndefined, SearchTentative,
         SearchLibraries, AskDylib, LoadMember, NotFound
<1>5. pc = "resolved" => UNCHANGED <<pc, todo, table, thrown>>
  BY DEF Resolve, ReadFile, EndInput, ResolveUndefines, StartPass, EndUndefines,
         EndTentatives, EndPasses, EndLeftovers, OnlyLoops, SearchUndefined, SearchTentative,
         SearchLibraries, AskDylib, LoadMember, NotFound, loopVars, tableVars
<1>6. StripInv'
  BY <1>1, <1>3, <1>4, <1>5, StripInvStays DEF stripVars, StripInv
<1>7. QED
  BY <1>2, <1>6

LEMMA StripDoAtomStrip ==
    ASSUME Base, StripInv, NEW a \in Atoms, StripDoAtom(a)
    PROVE  Base' /\ StripInv'
<1>1. DoAtom(a) /\ ResolverNext /\ UNCHANGED <<phase, live, stack, visit>>
  BY DEF StripDoAtom, ResolverNext
<1>2. Base'
  BY <1>1, NextBase
<1>3. link' = link /\ atom' = atom
  BY <1>1, InputStays
<1>4. known' = known \cup {a} /\ UNCHANGED <<pc, todo>> /\ ~ thrown
  BY <1>1 DEF DoAtom, loopVars
<1>5. roots' \subseteq roots \cup {a} /\ roots \subseteq roots'
  BY DEF StripDoAtom
<1>6. passed' \subseteq roots'
  BY <1>5 DEF StripDoAtom, StripInv
<1>7. liveIf' \in Seq(known' \cap link.ifReferencesLive)
  <2>1. liveIf \in Seq(known' \cap link.ifReferencesLive)
    BY <1>4 DEF StripInv
  <2>2. liveIf' = IF a \in link.ifReferencesLive \ link.dontDeadStrip
                  THEN Append(liveIf, a) ELSE liveIf
    BY DEF StripDoAtom
  <2>3. QED
    BY <1>4, <2>1, <2>2
<1>8. table.slots \subseteq table'.slots
  BY <1>1, DoAtomTable DEF Base, Grows
<1>9. StripInv'
  BY <1>1, <1>3, <1>4, <1>5, <1>6, <1>7, <1>8, StripInvStays DEF StripInv
<1>10. QED
  BY <1>2, <1>9

\* The fixups of the current call.
LEMMA Current ==
    ASSUME Base, StripInv, ~ thrown, pending = <<>>, stack # <<>>
    PROVE  /\ Head(stack) \in Calls /\ Head(stack).atom \in live /\ live \subseteq known
           /\ Head(stack).targets \subseteq link.targets[Head(stack).atom]
           /\ Head(stack).contents \subseteq Frame(Head(stack).atom).contents
           /\ Head(stack).names \subseteq link.references[Head(stack).atom]
           /\ Head(stack).targets \subseteq known
           /\ \A c \in Head(stack).contents : table.byContent[c] \in known
           /\ \A n \in Head(stack).names :
                 n \in Names /\ n \in table.slots
                 /\ (HasName(table, n) => table.byName[n] \in known)
<1>1. Head(stack) \in Calls /\ live \subseteq known
  BY FewerFixups DEF StripInv
<1>2. /\ Head(stack).atom \in live
      /\ Head(stack).targets \subseteq link.targets[Head(stack).atom]
      /\ Head(stack).contents \subseteq Frame(Head(stack).atom).contents
      /\ Head(stack).names \subseteq link.references[Head(stack).atom]
  BY <1>1 DEF Calls
<1>3. Head(stack).atom \in known
  BY <1>1, <1>2
<1>4. QED
  BY <1>1, <1>2, <1>3, SuccessorsKnown

\* What is left of the current call's fixups makes a call of the same atom.
LEMMA LessIsCall ==
    ASSUME StripInv, stack # <<>>, NEW x
    PROVE  /\ [Head(stack) EXCEPT !.targets = @ \ {x}] \in Calls
           /\ [Head(stack) EXCEPT !.contents = @ \ {x}] \in Calls
           /\ [Head(stack) EXCEPT !.names = @ \ {x}] \in Calls
<1>1. Head(stack) \in Calls
  BY FewerFixups
<1>2. QED
  BY <1>1 DEF Calls, Frames

\* The steps of the walk, and the loops before and after it.
Walk ==
    \/ StartStrip \/ EndRoots \/ EndFixups \/ EndMark \/ CheckLiveIf
    \/ \E a \in Atoms : MarkRoot(a) \/ FollowTarget(a)
    \/ \E c \in Contents : FollowContent(c)
    \/ \E n \in Names : SearchRoot(n) \/ AddRoot(n) \/ SearchReference(n) \/ SearchCommon(n)
                        \/ FollowName(n)

LEMMA WalkStrip ==
    ASSUME Base, StripInv, Walk
    PROVE  Base' /\ StripInv'
<1>0. /\ link \in Links /\ atom = link.attributes /\ AtomsOK /\ known \in SUBSET Atoms
      /\ \A n \in Names : HasName(table, n) /\ ~ thrown => table.byName[n] \in known
      /\ pc # "input" /\ ~ thrown => link.undefines \subseteq table.slots
      /\ link.undefines \in SUBSET Names /\ todo \in SUBSET Names
  BY TypeSplit, LinkFields DEF Base, RTypeInv, ResolverTypeOK, SlotsKnown
<1>1. UNCHANGED resolverVars => Base'
  BY NextBase
<1>2. ASSUME StartStrip  PROVE Base' /\ StripInv'
  <2>1. /\ pc = "resolved" /\ ~ thrown /\ todo' = link.undefines /\ phase' = "roots"
        /\ UNCHANGED <<tableVars, link, pc, unread, pending, known, loaded, requested,
                       autolinked, searchable, search, genCount>>
        /\ UNCHANGED <<live, roots, passed, liveIf, stack, visit>> /\ phase = "off"
    BY <1>2 DEF StartStrip, Idle
  <2>2. Base'
    BY <1>0, <2>1, TodoBase
  <2>3. StripInv'
    BY <1>0, <2>1, StripInvStays DEF StripInv, tableVars
  <2>4. QED
    BY <2>2, <2>3
<1>3. ASSUME EndRoots  PROVE Base' /\ StripInv'
  <2>1. /\ phase = "roots" /\ phase' = "mark" /\ todo = {}
        /\ roots' = roots \cup (known \cap link.dontDeadStrip)
        /\ UNCHANGED <<resolverVars, live, passed, liveIf, stack, visit>>
    BY <1>3 DEF EndRoots
  <2>2. visit = NoVisit /\ stack = <<>> /\ pc = "resolved"
    BY <2>1 DEF StripInv
  <2>3. roots' \subseteq known /\ passed \subseteq roots'
    BY <2>1 DEF StripInv
  <2>4. StripInv'
    BY <2>1, <2>2, <2>3, StripInvStays DEF StripInv, resolverVars, tableVars
  <2>5. QED
    BY <1>1, <2>1, <2>4
<1>4. ASSUME EndFixups  PROVE Base' /\ StripInv'
  <2>1. /\ stack # <<>> /\ stack' = Tail(stack) /\ Head(stack).names = {}
        /\ UNCHANGED <<resolverVars, phase, live, roots, passed, liveIf, visit>>
    BY <1>4 DEF EndFixups, Marking
  <2>2. Calls' = Calls /\ UNCHANGED <<known, link, pc, todo, table, thrown>>
    BY <2>1, CallsStay DEF resolverVars, tableVars
  <2>3. visit = NoVisit /\ phase \in {"mark", "liveIf"} /\ Tail(stack) \in Seq(Calls)
    BY <2>1, FewerFixups DEF StripInv
  <2>4. StripInv'
    BY <2>1, <2>2, <2>3 DEF StripInv
  <2>5. QED
    BY <1>1, <2>1, <2>4
<1>5. ASSUME EndMark  PROVE Base' /\ StripInv'
  <2>1. StripInv'
    BY <1>5, StripInvStays DEF EndMark, StripInv, resolverVars, tableVars
  <2>2. QED
    BY <1>1, <1>5, <2>1 DEF EndMark
<1>6. ASSUME CheckLiveIf  PROVE Base' /\ StripInv'
  <2>1. /\ Head(liveIf) \in known \cap link.ifReferencesLive
        /\ Tail(liveIf) \in Seq(known \cap link.ifReferencesLive)
        /\ phase = "liveIf" /\ stack = <<>> /\ liveIf' = Tail(liveIf) /\ visit = NoVisit
        /\ UNCHANGED <<resolverVars, phase, roots, passed, visit>>
        /\ ~ thrown
    BY <1>6 DEF CheckLiveIf, StripInv, Idle
  <2>2. CASE HasLiveReference(Head(liveIf))
    <3>1. Mark(Head(liveIf), <<>>) /\ <<>> \in Seq(Calls)
      BY <1>6, <2>2 DEF CheckLiveIf
    <3>2. passed' \subseteq roots
      BY <2>1 DEF StripInv
    <3>3. StripInv'
      BY <2>1, <3>1, <3>2, MarkInv
    <3>4. QED
      BY <1>1, <2>1, <3>3
  <2>3. CASE ~ HasLiveReference(Head(liveIf))
    <3>1. UNCHANGED <<live, stack>>
      BY <1>6, <2>3 DEF CheckLiveIf
    <3>2. StripInv'
      BY <2>1, <3>1, StripInvStays DEF StripInv, resolverVars, tableVars
    <3>3. QED
      BY <1>1, <2>1, <3>2
  <2>4. QED
    BY <2>2, <2>3
<1>7. ASSUME NEW r \in Atoms, MarkRoot(r)  PROVE Base' /\ StripInv'
  <2>1. /\ r \in roots /\ passed' = passed \cup {r} /\ Mark(r, <<>>) /\ <<>> \in Seq(Calls)
        /\ phase = "mark" /\ stack = <<>>
        /\ UNCHANGED <<resolverVars, phase, roots, liveIf, visit>>
    BY <1>7 DEF MarkRoot
  <2>2. /\ r \in known /\ passed' \subseteq roots /\ visit' = NoVisit
        /\ liveIf' \in Seq(known \cap link.ifReferencesLive)
    BY <2>1 DEF StripInv
  <2>3. QED
    BY <1>1, <2>1, <2>2, MarkInv
\* A fixup of the current call is followed to an atom, with rest to return to.
<1>8. ASSUME Marking, NEW b \in known, NEW rest \in Seq(Calls), Mark(b, rest), visit' = NoVisit,
             UNCHANGED <<resolverVars, phase, roots, passed, liveIf>>
      PROVE  Base' /\ StripInv'
  <2>1. /\ phase \in {"mark", "liveIf"} /\ passed' \subseteq roots
        /\ liveIf' \in Seq(known \cap link.ifReferencesLive)
    BY <1>8 DEF StripInv, Marking
  <2>2. QED
    BY <1>1, <1>8, <2>1, MarkInv
<1>9. ASSUME NEW b \in Atoms, FollowTarget(b)  PROVE Base' /\ StripInv'
  <2>1. Marking /\ b \in Head(stack).targets
    BY <1>9 DEF FollowTarget
  <2>2. b \in known
    BY <2>1, Current DEF Marking
  <2>3. <<[Head(stack) EXCEPT !.targets = @ \ {b}]>> \o Tail(stack) \in Seq(Calls)
    BY <2>1, FewerFixups, LessIsCall DEF Marking
  <2>4. QED
    BY <1>8, <1>9, <2>1, <2>2, <2>3 DEF FollowTarget
<1>10. ASSUME NEW c \in Contents, FollowContent(c)  PROVE Base' /\ StripInv'
  <2>1. Marking /\ c \in Head(stack).contents
    BY <1>10 DEF FollowContent
  <2>2. table.byContent[c] \in known
    BY <2>1, Current DEF Marking
  <2>3. <<[Head(stack) EXCEPT !.contents = @ \ {c}]>> \o Tail(stack) \in Seq(Calls)
    BY <2>1, FewerFixups, LessIsCall DEF Marking
  <2>4. QED
    BY <1>8, <1>10, <2>1, <2>2, <2>3 DEF FollowContent
<1>11. ASSUME NEW n \in Names, n \in table.slots, ~ thrown, pending = <<>>, search = NoSearch,
              NEW dylibs \in BOOLEAN, NEW dataOnly \in BOOLEAN, Search(n, dylibs, dataOnly),
              ~ HasName(table, n) \/ Tentative(table.byName[n]),
              visit' \in Visits, phase = "roots" => visit'.name \in todo,
              phase # "roots" => stack # <<>> /\ visit'.name \in Head(stack).names,
              UNCHANGED <<phase, live, roots, passed, liveIf, stack>>
       PROVE  Base' /\ StripInv'
  <2>1. phase # "off"
    BY <1>11 DEF StripInv
  <2>2. pc = "resolved"
    BY <2>1 DEF StripInv
  <2>3. Base'
    BY <1>11, <2>2, SearchBase
  <2>4. StripInv'
    BY <1>11, StripInvStays DEF StripInv, Search, tableVars, loopVars
  <2>5. QED
    BY <2>3, <2>4
<1>12. ASSUME NEW n \in Names, SearchRoot(n)  PROVE Base' /\ StripInv'
  <2>1. n \in table.slots
    BY <1>12 DEF SearchRoot, StripInv, Idle
  <2>2. [name |-> n, stage |-> "undefined"] \in Visits
    BY DEF Visits
  <2>3. QED
    BY <1>11, <1>12, <2>1, <2>2 DEF SearchRoot, Idle
<1>13. ASSUME NEW n \in Names, SearchReference(n)  PROVE Base' /\ StripInv'
  <2>1. n \in table.slots
    BY <1>13, Current DEF SearchReference, Marking
  <2>2. [name |-> n, stage |-> "undefined"] \in Visits
    BY DEF Visits
  <2>3. /\ phase # "roots" /\ stack # <<>>
        /\ visit'.name = n /\ n \in Head(stack).names
    BY <1>13 DEF SearchReference, Marking, StripInv
  <2>4. QED
    BY <1>11, <1>13, <2>1, <2>2, <2>3 DEF SearchReference, Marking
<1>14. ASSUME NEW n \in Names, SearchCommon(n)  PROVE Base' /\ StripInv'
  <2>1. n \in table.slots
    BY <1>14, Current DEF SearchCommon, Marking
  <2>2. [name |-> n, stage |-> "tentative"] \in Visits /\ SearchesDylibs \in BOOLEAN
    BY DEF Visits, SearchesDylibs
  <2>3. /\ phase # "roots" /\ stack # <<>>
        /\ visit'.name = n /\ n \in Head(stack).names
    BY <1>14 DEF SearchCommon, Marking, StripInv
  <2>4. QED
    BY <1>11, <1>14, <2>1, <2>2, <2>3 DEF SearchCommon, Marking
<1>15. ASSUME NEW n \in Names, AddRoot(n)  PROVE Base' /\ StripInv'
  <2>1. /\ ~ thrown /\ phase = "roots" /\ todo' = todo \ {n} /\ visit' = NoVisit
        /\ roots' = IF HasName(table, n) THEN roots \cup {table.byName[n]} ELSE roots
        /\ UNCHANGED <<tableVars, link, pc, unread, pending, known, loaded, requested,
                       autolinked, searchable, search, genCount>>
        /\ UNCHANGED <<phase, live, passed, liveIf, stack>>
    BY <1>15 DEF AddRoot, Idle
  <2>2. todo' \subseteq table.slots /\ pc = "resolved"
    BY <2>1 DEF StripInv
  <2>3. Base'
    BY <1>0, <2>1, <2>2, TodoBase
  <2>4. roots' \subseteq known /\ roots \subseteq roots'
    BY <1>0, <2>1 DEF StripInv
  <2>5. StripInv'
    BY <2>1, <2>2, <2>4, StripInvStays DEF StripInv, tableVars
  <2>6. QED
    BY <2>3, <2>5
<1>16. ASSUME NEW n \in Names, FollowName(n)  PROVE Base' /\ StripInv'
  <2>1. /\ Marking /\ n \in Head(stack).names /\ visit' = NoVisit
        /\ UNCHANGED <<resolverVars, phase, roots, passed, liveIf>>
    BY <1>16 DEF FollowName
  <2>2. WithoutName(n) \in Seq(Calls)
    BY <2>1, FewerFixups, LessIsCall DEF Marking, WithoutName
  <2>3. CASE visit # NoVisit /\ ~ HasName(table, n)
    <3>1. stack' = WithoutName(n) /\ UNCHANGED live
      BY <1>16, <2>3 DEF FollowName
    <3>2. Calls' = Calls /\ UNCHANGED <<known, link, pc, todo, table, thrown>>
      BY <2>1, <3>1, CallsStay DEF resolverVars, tableVars
    <3>3. StripInv'
      BY <2>1, <2>2, <3>1, <3>2 DEF StripInv, Marking
    <3>4. QED
      BY <1>1, <2>1, <3>3
  <2>4. CASE ~ (visit # NoVisit /\ ~ HasName(table, n))
    <3>1. HasName(table, n) /\ Mark(table.byName[n], WithoutName(n))
      BY <1>16, <2>4 DEF FollowName
    <3>2. table.byName[n] \in known
      BY <1>0, <2>1, <3>1 DEF Marking
    <3>3. QED
      BY <1>8, <2>1, <2>2, <3>1, <3>2
  <2>5. QED
    BY <2>3, <2>4
<1>17. QED
  BY <1>2, <1>3, <1>4, <1>5, <1>6, <1>7, <1>9, <1>10, <1>12, <1>13, <1>14, <1>15, <1>16
     DEF Walk

\* The types of the variables, while the walk is not over.
LEMMA StripTypes == ASSUME Base, StripInv  PROVE StripTypeOK
<1>1. known \in SUBSET Atoms
  BY DEF Base, RTypeInv, ResolverTypeOK
<1>2. live \in SUBSET Atoms /\ roots \in SUBSET Atoms /\ liveIf \in Seq(Atoms)
  BY <1>1 DEF StripInv
<1>3. stack \in Seq(Frames) /\ \A i \in DOMAIN stack : stack[i].atom \in live
  <2>1. stack \in Seq(Calls) /\ Calls \subseteq Frames
    BY DEF StripInv, Calls
  <2>2. \A i \in DOMAIN stack : stack[i] \in Calls
    BY <2>1
  <2>3. QED
    BY <2>1, <2>2 DEF Calls
<1>4. QED
  BY <1>2, <1>3 DEF StripTypeOK, StripInv

\* When the dead atoms have been dropped, nothing is left to do.
DoneInv ==
    /\ StripTypeOK
    /\ Idle
    /\ pc = "resolved" /\ stack = <<>> /\ live \subseteq known
StripSafe ==
    /\ phase # "done" => Base /\ StripInv
    /\ phase = "done" => DoneInv

LEMMA NextKinds ==
    DeadStripNext => Resolve \/ (\E a \in Atoms : StripDoAtom(a)) \/ Walk \/ Strip
BY DEF DeadStripNext, Walk

LEMMA StripDone ==
    ASSUME Base, StripInv, Strip
    PROVE  phase' = "done" /\ DoneInv'
<1>1. StripTypeOK
  BY StripTypes
<1>2. StripTypeOK'
  BY <1>1 DEF Strip, StripTypeOK, Frames, loopVars
<1>3. live' \subseteq known'
  BY DEF Strip, StripInv, Kept
<1>4. QED
  BY <1>2, <1>3 DEF Strip, DoneInv, Idle, StripInv, tableVars, loopVars

\* Nothing happens after that.
LEMMA DoneStays ==
    ASSUME phase = "done", DoneInv, [DeadStripNext]_deadStripVars
    PROVE  UNCHANGED deadStripVars
<1>1. ~ Resolve
  BY DEF DoneInv, Resolve, ReadFile, EndInput, ResolveUndefines, StartPass, EndUndefines,
         EndTentatives, EndPasses, EndLeftovers, SearchUndefined, SearchTentative,
         SearchLibraries, AskDylib, LoadMember, NotFound, FirstAnswer, Idle
<1>2. \A a \in Atoms : ~ StripDoAtom(a)
  BY DEF DoneInv, StripDoAtom, DoAtom, Idle
<1>3. ~ Walk
  BY DEF DoneInv, Walk, StartStrip, EndRoots, EndFixups, EndMark, CheckLiveIf, MarkRoot,
         FollowTarget, FollowContent, SearchRoot, AddRoot, SearchReference, SearchCommon,
         FollowName, Marking, Idle
<1>4. ~ Strip
  BY DEF Strip
<1>5. QED
  BY <1>1, <1>2, <1>3, <1>4, NextKinds

LEMMA DoneUnchanged == DoneInv /\ UNCHANGED deadStripVars => DoneInv'
BY DEF DoneInv, StripTypeOK, Frames, Idle, deadStripVars, stripVars, resolverVars, tableVars,
       loopVars

LEMMA StutterStrip ==
    ASSUME Base, StripInv, UNCHANGED deadStripVars
    PROVE  Base' /\ StripInv'
<1>1. Base'
  BY NextBase DEF deadStripVars
<1>2. StripInv'
  BY StripInvStays DEF StripInv, deadStripVars, stripVars, resolverVars, tableVars, loopVars
<1>3. QED
  BY <1>1, <1>2

LEMMA NextStrip ==
    ASSUME StripSafe, [DeadStripNext]_deadStripVars
    PROVE  StripSafe'
<1>1. CASE phase = "done"
  <2>1. DoneInv /\ UNCHANGED deadStripVars
    BY <1>1, DoneStays DEF StripSafe
  <2>2. DoneInv' /\ phase' = phase
    BY <2>1, DoneUnchanged DEF deadStripVars, stripVars
  <2>3. QED
    BY <1>1, <2>2 DEF StripSafe
<1>2. CASE phase # "done"
  <2>1. Base /\ StripInv
    BY <1>2 DEF StripSafe
  <2>2. (Base' /\ StripInv') \/ Strip
    BY <2>1, NextKinds, ResolveStrip, StripDoAtomStrip, WalkStrip, StutterStrip
  <2>3. Base' /\ StripInv' => phase' # "done"
    BY DEF StripInv
  <2>4. QED
    BY <2>1, <2>2, <2>3, StripDone DEF StripSafe
<1>3. QED
  BY <1>1, <1>2

LEMMA InitStrip == DeadStripInit => StripSafe
<1> SUFFICES ASSUME DeadStripInit  PROVE StripSafe
  OBVIOUS
<1>1. Base
  BY InitBase DEF DeadStripInit
<1>2. StripInv
  BY DEF DeadStripInit, StripInv
<1>3. QED
  BY <1>1, <1>2 DEF StripSafe, DeadStripInit

\* The variables have their types: the calls of markLive() that are under way are for
\* live atoms, and marking begins after the resolver's loops.
THEOREM StripTypeCorrect == DeadStripSpec => []StripTypeOK
<1>1. StripSafe => StripTypeOK
  BY StripTypes DEF StripSafe, DoneInv
<1>2. QED
  BY InitStrip, NextStrip, <1>1, PTL DEF DeadStripSpec

------------------------------------------------------------------------------
(***************************************************************************)
(* Only what can be reached is live.                                       *)
(***************************************************************************)
\* A set of live atoms that holds the live roots, what its atoms lead to, and those
\* that are live if they refer to one of it.
Reached(S) ==
    /\ roots \cap live \subseteq S
    /\ \A a \in S : Successors(a) \cap live \subseteq S
    /\ \A a \in link.ifReferencesLive \cap live : Successors(a) \cap S # {} => a \in S
ReachInv ==
    ~ thrown /\ NoneReplaced => \A S \in SUBSET live : Reached(S) => S = live

\* More roots and more edges between the live atoms leave them reachable.
LEMMA StillReached ==
    ASSUME ReachInv, UNCHANGED <<live, link, atom>>, ~ thrown' => ~ thrown,
           NoneReplaced' => NoneReplaced, roots \subseteq roots',
           NoneReplaced' /\ ~ thrown' =>
               \A x \in live : \A b \in Successors(x) \cap live : b \in Successors(x)'
    PROVE  ReachInv'
<1> SUFFICES ASSUME ~ thrown', NoneReplaced', NEW S \in SUBSET live, Reached(S)'
             PROVE  S = live
  BY DEF ReachInv
<1>1. /\ roots \cap live \subseteq S
      /\ \A a \in S : \A b \in Successors(a) \cap live : b \in S
      /\ \A a \in link.ifReferencesLive \cap live :
            \A b \in Successors(a) \cap S : a \in S
  BY DEF Reached
<1>2. Reached(S)
  BY <1>1 DEF Reached
<1>3. QED
  BY <1>2 DEF ReachInv

\* An atom that is marked is a root, or can be reached from a live one, or is to be
\* live with one it refers to.
Marked(b) ==
    \/ b \in roots
    \/ \E x \in live : b \in Successors(x)
    \/ b \in link.ifReferencesLive /\ Successors(b) \cap live # {}

LEMMA MarkedReached ==
    ASSUME ReachInv, NEW b, Marked(b), live' = live \cup {b},
           UNCHANGED <<table, link, atom, thrown, roots>>
    PROVE  ReachInv'
<1> SUFFICES ASSUME ~ thrown', NoneReplaced', NEW S \in SUBSET live', Reached(S)'
             PROVE  S = live'
  BY DEF ReachInv
<1>1. \A x : Successors(x)' = Successors(x)
  BY DEF Successors, Frame, HasName
<1>2. /\ roots \cap live' \subseteq S
      /\ \A a \in S : Successors(a) \cap live' \subseteq S
      /\ \A a \in link.ifReferencesLive \cap live' : Successors(a) \cap S # {} => a \in S
  BY <1>1 DEF Reached
<1> DEFINE T == S \cap live
<1>3. Reached(T)
  BY <1>2 DEF Reached
<1>4. ~ thrown /\ NoneReplaced
  BY DEF NoneReplaced
<1>5. live \subseteq S
  BY <1>3, <1>4 DEF ReachInv
<1>6. b \in S
  <2>1. CASE b \in roots
    BY <1>2, <2>1
  <2>2. ASSUME NEW x \in live, b \in Successors(x)  PROVE b \in S
    BY <1>2, <1>5, <2>2
  <2>3. CASE b \in link.ifReferencesLive /\ Successors(b) \cap live # {}
    BY <1>2, <1>5, <2>3
  <2>4. QED
    BY <2>1, <2>2, <2>3 DEF Marked
<1>7. QED
  BY <1>5, <1>6

\* What the walk does to the live atoms.
LEMMA WalkMarks ==
    ASSUME Base, StripInv, Walk
    PROVE  /\ UNCHANGED <<table, link, atom, thrown>> /\ roots \subseteq roots'
           /\ \/ live' = live
              \/ roots' = roots /\ \E b \in Atoms : Marked(b) /\ live' = live \cup {b}
<1>1. /\ link \in Links /\ atom = link.attributes /\ AtomsOK /\ known \in SUBSET Atoms
      /\ roots \cup live \subseteq known
      /\ \A n \in Names : HasName(table, n) /\ ~ thrown => table.byName[n] \in known
  BY TypeSplit DEF Base, RTypeInv, ResolverTypeOK, SlotsKnown, StripInv
<1>2. CASE StartStrip \/ EndRoots \/ EndFixups \/ EndMark
  BY <1>2 DEF StartStrip, EndRoots, EndFixups, EndMark, resolverVars, tableVars
<1>3. ASSUME NEW n \in Names, SearchRoot(n) \/ AddRoot(n) \/ SearchReference(n) \/ SearchCommon(n)
      PROVE  UNCHANGED <<table, link, atom, thrown, live>> /\ roots \subseteq roots'
  BY <1>3 DEF SearchRoot, AddRoot, SearchReference, SearchCommon, Search, tableVars
\* The atoms the current call's fixups lead to.
<1>4. ASSUME Marking
      PROVE  /\ \A b \in Head(stack).targets : Marked(b) /\ b \in Atoms
             /\ \A c \in Head(stack).contents :
                   Marked(table.byContent[c]) /\ table.byContent[c] \in Atoms
             /\ \A n \in Head(stack).names :
                   HasName(table, n) => Marked(table.byName[n]) /\ table.byName[n] \in Atoms
  <2> DEFINE x == Head(stack).atom
  <2>1. /\ x \in live
        /\ Head(stack).targets \subseteq link.targets[x]
        /\ Head(stack).contents \subseteq Frame(x).contents
        /\ Head(stack).names \subseteq link.references[x]
        /\ Head(stack).targets \subseteq known
        /\ \A c \in Head(stack).contents : table.byContent[c] \in known
        /\ \A n \in Head(stack).names : HasName(table, n) => table.byName[n] \in known
    BY <1>4, Current DEF Marking
  <2>2. /\ \A b \in Head(stack).targets : b \in Successors(x)
        /\ \A c \in Head(stack).contents : table.byContent[c] \in Successors(x)
        /\ \A n \in Head(stack).names :
              HasName(table, n) => table.byName[n] \in Successors(x)
    BY <2>1 DEF Successors
  <2>3. QED
    BY <1>1, <2>1, <2>2 DEF Marked
<1>5. ASSUME NEW b \in Atoms, FollowTarget(b)
      PROVE  UNCHANGED <<resolverVars, roots>> /\ Marked(b) /\ live' = live \cup {b}
  BY <1>4, <1>5 DEF FollowTarget, Mark
<1>6. ASSUME NEW c \in Contents, FollowContent(c)
      PROVE  /\ UNCHANGED <<resolverVars, roots>> /\ table.byContent[c] \in Atoms
             /\ Marked(table.byContent[c]) /\ live' = live \cup {table.byContent[c]}
  BY <1>4, <1>6 DEF FollowContent, Mark
<1>7. ASSUME NEW n \in Names, FollowName(n)
      PROVE  /\ UNCHANGED <<resolverVars, roots>>
             /\ \/ live' = live
                \/ /\ table.byName[n] \in Atoms /\ Marked(table.byName[n])
                   /\ live' = live \cup {table.byName[n]}
  BY <1>4, <1>7 DEF FollowName, Mark
<1>8. ASSUME NEW r \in Atoms, MarkRoot(r)
      PROVE  UNCHANGED <<resolverVars, roots>> /\ Marked(r) /\ live' = live \cup {r}
  BY <1>8 DEF MarkRoot, Mark, Marked
<1>9. ASSUME CheckLiveIf
      PROVE  /\ UNCHANGED <<resolverVars, roots>>
             /\ \/ live' = live
                \/ /\ Head(liveIf) \in Atoms /\ Marked(Head(liveIf))
                   /\ live' = live \cup {Head(liveIf)}
  <2>1. Head(liveIf) \in known \cap link.ifReferencesLive
    BY <1>9 DEF CheckLiveIf, StripInv
  <2>2. HasLiveReference(Head(liveIf)) => Successors(Head(liveIf)) \cap live # {}
    BY DEF HasLiveReference, Successors
  <2>3. QED
    BY <1>1, <1>9, <2>1, <2>2 DEF CheckLiveIf, Mark, Marked
<1>10. UNCHANGED resolverVars => UNCHANGED <<table, link, atom, thrown>>
  BY DEF resolverVars, tableVars
<1>11. QED
  BY <1>2, <1>3, <1>5, <1>6, <1>7, <1>8, <1>9, <1>10 DEF Walk

\* What a live atom leads to stays, if no live atom loses its slot.
LEMMA DoAtomLeads ==
    ASSUME Base, StripInv, NEW a \in Atoms, DoAtom(a), UNCHANGED live, ~ thrown', NoneReplaced',
           NEW x \in live, NEW b \in Successors(x) \cap live
    PROVE  b \in Successors(x)'
<1>1. /\ link' = link /\ atom' = atom /\ link \in Links /\ atom = link.attributes /\ AtomsOK
      /\ x \in known /\ ~ thrown /\ x \in Atoms
  BY InputStays, TypeSplit
     DEF ResolverNext, Base, RTypeInv, ResolverTypeOK, StripInv, DoAtom
<1>2. /\ table.coalescedAway \subseteq table'.coalescedAway
      /\ \A n \in Names :
            table'.byName[n] # table.byName[n] =>
                /\ table'.byName[n] = a /\ Named(a) /\ ByName(a) /\ atom[a].name = n
                /\ HasName(table, n) => table.byName[n] \in table'.coalescedAway
      /\ \A c \in Contents :
            table'.byContent[c] # table.byContent[c] /\ table.byContent[c] # NoAtom =>
                table'.byContent[c] = a /\ table.byContent[c] \in table'.coalescedAway
  BY SlotsLost DEF Base
<1>3. b \notin table'.coalescedAway
  BY DEF NoneReplaced
<1>4. CASE b \in link.targets[x]
  BY <1>1, <1>4 DEF Successors
<1>5. ASSUME NEW n \in link.references[x], HasName(table, n), b = table.byName[n]
      PROVE  b \in Successors(x)'
  <2>1. n \in Names
    BY <1>1, LinkFields
  <2>2. table'.byName[n] = b /\ HasName(table', n)
    BY <1>2, <1>3, <1>5, <2>1 DEF HasName
  <2>3. QED
    BY <1>1, <2>2 DEF Successors
<1>6. ASSUME NEW c \in Frame(x).contents, b = table.byContent[c]
      PROVE  b \in Successors(x)'
  <2>1. link.literals[x] # NoAtom /\ c = atom[link.literals[x]].content /\ c \in Contents
    <3>1. link.literals[x] # NoAtom /\ c = atom[link.literals[x]].content
      BY DEF Frame
    <3>2. QED
      BY <1>1, <3>1, LinkFields, AtomFields
  <2>2. table.byContent[c] # NoAtom
    BY <1>1, <2>1 DEF Base, EdgesInv
  <2>3. table'.byContent[c] = b
    BY <1>2, <1>3, <1>6, <2>1, <2>2
  <2>4. QED
    BY <1>1, <2>1, <2>3 DEF Successors, Frame
<1>7. QED
  BY <1>4, <1>5, <1>6 DEF Successors

LEMMA NextReach ==
    ASSUME StripSafe, ReachInv, [DeadStripNext]_deadStripVars
    PROVE  ReachInv'
<1>1. CASE UNCHANGED <<table, link, atom, thrown, live, roots>>
  BY <1>1, StillReached DEF NoneReplaced, Successors, Frame, HasName
<1>2. CASE phase # "done"
  <2>1. Base /\ StripInv
    BY <1>2 DEF StripSafe
  <2>2. CASE Resolve
    <3>1. [ResolverNext]_resolverVars /\ UNCHANGED stripVars
      BY <2>2 DEF Resolve, ResolverNext
    <3>2. link' = link /\ atom' = atom
      BY <3>1, InputStays
    <3>3. CASE pc # "resolved"
      <4>1. live = {} /\ live' = {}
        BY <3>1, <3>3, <2>1 DEF StripInv, stripVars
      <4>2. QED
        BY <4>1 DEF ReachInv
    <3>4. CASE pc = "resolved"
      <4>1. UNCHANGED <<table, thrown>>
        BY <2>2, <3>4
           DEF Resolve, ReadFile, EndInput, ResolveUndefines, StartPass, EndUndefines,
               EndTentatives, EndPasses, EndLeftovers, OnlyLoops, SearchUndefined,
               SearchTentative, SearchLibraries, AskDylib, LoadMember, NotFound, tableVars
      <4>2. QED
        BY <1>1, <3>1, <3>2, <4>1 DEF stripVars
    <3>5. QED
      BY <3>3, <3>4
  <2>3. ASSUME NEW a \in Atoms, StripDoAtom(a)  PROVE ReachInv'
    <3>1. DoAtom(a) /\ UNCHANGED live /\ roots \subseteq roots'
      BY <2>3 DEF StripDoAtom
    <3>2. link' = link /\ atom' = atom /\ ~ thrown
      BY <3>1, InputStays DEF ResolverNext, DoAtom
    <3>3. CASE thrown'
      BY <3>3 DEF ReachInv
    <3>4. CASE ~ thrown'
      <4>1. table.coalescedAway \subseteq table'.coalescedAway
        BY <2>1, <3>1, <3>4, SlotsLost DEF Base
      <4>2. NoneReplaced' => NoneReplaced
        BY <3>1, <4>1 DEF NoneReplaced
      <4>3. NoneReplaced' => \A x \in live : \A b \in Successors(x) \cap live : b \in Successors(x)'
        BY <2>1, <3>1, <3>4, DoAtomLeads
      <4>4. QED
        BY <3>1, <3>2, <4>2, <4>3, StillReached
    <3>5. QED
      BY <3>3, <3>4
  <2>4. CASE Walk
    <3>1. UNCHANGED <<table, link, atom, thrown>> /\ roots \subseteq roots'
      BY <2>1, <2>4, WalkMarks
    <3>2. CASE live' = live
      BY <3>1, <3>2, StillReached DEF NoneReplaced, Successors, Frame, HasName
    <3>3. ASSUME roots' = roots, NEW b \in Atoms, Marked(b), live' = live \cup {b}
          PROVE  ReachInv'
      BY <3>1, <3>3, MarkedReached
    <3>4. QED
      BY <2>1, <2>4, <3>2, <3>3, WalkMarks
  <2>5. CASE Strip
    BY <1>1, <2>5 DEF Strip, tableVars
  <2>6. CASE UNCHANGED deadStripVars
    BY <1>1, <2>6 DEF deadStripVars, stripVars, resolverVars, tableVars
  <2>7. QED
    BY <2>2, <2>3, <2>4, <2>5, <2>6, NextKinds
<1>3. CASE phase = "done"
  <2>1. UNCHANGED deadStripVars
    BY <1>3, DoneStays DEF StripSafe
  <2>2. QED
    BY <1>1, <2>1 DEF deadStripVars, stripVars, resolverVars, tableVars
<1>4. QED
  BY <1>2, <1>3

\* Unless a live atom lost its slot on the way, nothing is kept alive without a reason:
\* cycles of references do not keep each other.
THEOREM ReachableOnly == DeadStripSpec => []OnlyReachableLive
<1>1. DeadStripInit => ReachInv
  BY DEF DeadStripInit, ReachInv
<1>2. ReachInv => OnlyReachableLive
  BY DEF ReachInv, OnlyReachableLive, Reached, Done
<1>3. QED
  BY InitStrip, NextStrip, NextReach, <1>1, <1>2, PTL DEF DeadStripSpec

------------------------------------------------------------------------------
(***************************************************************************)
(* What a live atom refers to is live.                                     *)
(***************************************************************************)
\* A member of an archive brings up nothing that searches before it could not know of:
\* the archive lists all it defines, and the command line all libraries it asks for.
NothingLate ==
    \A lib \in Libraries : \A n \in DOMAIN link.members[lib] :
        /\ link.autolinks[link.members[lib][n]] \subseteq Range(link.libraries)
        /\ \A a \in Range(link.atoms[link.members[lib][n]]) :
              Named(a) /\ ByName(a) => atom[a].name \in DOMAIN link.members[lib]

\* No library has n, and no atom to come.
GivenUp(n) ==
    /\ ~ HasName(table, n) /\ ~ ComesUp(n)
    /\ \A lib \in Range(searchable) : ~ Answers(lib, Searching(n, TRUE, FALSE))

\* The fixups of x lead to live atoms, or are still to be seen by a call of markLive(),
\* or their name was given up.
Followed(x) ==
    /\ \A b \in link.targets[x] :
          b \in live \/ \E f \in Range(stack) : f.atom = x /\ b \in f.targets
    /\ \A c \in Frame(x).contents :
          table.byContent[c] \in live \/ \E f \in Range(stack) : f.atom = x /\ c \in f.contents
    /\ \A n \in link.references[x] :
          \/ HasName(table, n) /\ table.byName[n] \in live
          \/ GivenUp(n)
          \/ \E f \in Range(stack) : f.atom = x /\ n \in f.names
FollowInv == ~ thrown /\ NoneReplaced => \A x \in live : Followed(x)

\* The name being looked up has a definition, or what is to be asked for it is asked.
VisitInv ==
    ~ thrown /\ phase # "roots" /\ visit # NoVisit =>
        HasName(table, visit.name) \/ (visit.stage = "undefined" /\ Asked(visit.name))

Listed == Range(link.libraries) \subseteq Range(searchable)

LEMMA NextListed ==
    ASSUME RTypeInv, Listed, [ResolverNext]_resolverVars
    PROVE  Listed'
<1>1. link' = link /\ link \in Links
  BY InputStays DEF RTypeInv
<1>2. CASE searchable' = searchable
  BY <1>1, <1>2 DEF Listed
<1>3. ASSUME NEW libs \in SUBSET Libraries, AddLinkerOptionLibraries(libs)
      PROVE  Listed'
  BY <1>1, <1>3, LibrariesAdded DEF Listed, RTypeInv, ResolverTypeOK
<1>4. CASE EndInput
  BY <1>3, <1>4 DEF EndInput, RTypeInv, ResolverTypeOK
<1>5. ASSUME NEW i \in DOMAIN searchable, LoadMember(i)  PROVE Listed'
  <2>1. PICK f \in Files : AddLinkerOptionLibraries(link.autolinks[f])
    <3>1. searchable[i] \in Libraries /\ search.name \in DOMAIN link.members[searchable[i]]
      BY <1>5 DEF LoadMember, FirstAnswer, Answers, RTypeInv, ResolverTypeOK
    <3>2. link.members[searchable[i]][search.name] \in Files
      BY <1>1, <3>1, LinkFields
    <3>3. QED
      BY <1>5, <3>2 DEF LoadMember
  <2>2. link.autolinks[f] \in SUBSET Libraries
    BY <1>1, LinkFields
  <2>3. QED
    BY <1>3, <2>1, <2>2
<1>6. QED
  BY <1>2, <1>4, <1>5
     DEF ResolverNext, ReadFile, DoAtom, ResolveUndefines, StartPass, EndUndefines,
         EndTentatives, EndPasses, EndLeftovers, OnlyLoops, SearchUndefined, SearchTentative,
         SearchLibraries, AskDylib, NotFound, resolverVars

\* A member that is loaded adds no library, and no definition of a name given up.
LEMMA LoadedInTime ==
    ASSUME Base, Listed, NothingLate, NEW i \in DOMAIN searchable, LoadMember(i)
    PROVE  /\ searchable' = searchable
           /\ \A n \in Names : GivenUp(n) => GivenUp(n)'
<1>1. /\ link \in Links /\ link' = link /\ atom' = atom /\ atom = link.attributes
      /\ WellFormed(link) /\ searchable \in Seq(Libraries) /\ search \in Searches
      /\ autolinked \in SUBSET Libraries /\ table' = table
      /\ pending = <<>> /\ ~ thrown
  BY InputStays, ResolverAssumption
     DEF Base, RTypeInv, ResolverTypeOK, ResolverNext, SearchLibraries, LoadMember,
         FirstAnswer, tableVars
<1>2. PICK m \in Names, lib \in Libraries, f \in Files :
         /\ m = search.name /\ lib = searchable[i] /\ m \in DOMAIN link.members[lib]
         /\ f = link.members[lib][m] /\ lib \notin link.dylibs
  BY <1>1, LinkFields DEF LoadMember, FirstAnswer, Answers, Searches
<1>3. /\ pending' = link.atoms[f] /\ loaded' = loaded \cup {f}
      /\ AddLinkerOptionLibraries(link.autolinks[f])
  BY <1>2 DEF LoadMember
<1>4. searchable' = searchable
  <2>1. link.autolinks[f] \subseteq Range(searchable)
    BY <1>2 DEF NothingLate, Listed
  <2>2. link.autolinks[f] \in SUBSET Libraries
    BY <1>1, LinkFields
  <2>3. QED
    BY <1>1, <1>3, <2>1, <2>2, LibrariesAdded
<1>5. ASSUME NEW n \in Names, GivenUp(n)  PROVE GivenUp(n)'
  <2>1. ~ HasName(table', n)
    BY <1>1, <1>5 DEF GivenUp, HasName
  <2>2. \A l \in Range(searchable') : ~ Answers(l, Searching(n, TRUE, FALSE))'
    BY <1>1, <1>3, <1>4, <1>5 DEF GivenUp, Answers, IsData, Searching
  <2>3. ~ ComesUp(n)'
    <3> SUFFICES ASSUME NEW a \in Range(link.atoms[f]), atom[a].name = n, Named(a), ByName(a)
                 PROVE  FALSE
      BY <1>1, <1>3 DEF ComesUp, Named, ByName, Range
    <3>1. n \in DOMAIN link.members[lib]
      BY <1>2 DEF NothingLate
    <3>2. link.members[lib][n] \in loaded
      <4>1. lib \in Range(searchable)
        BY <1>1, <1>2 DEF Range
      <4>2. ~ Answers(lib, Searching(n, TRUE, FALSE))
        BY <1>5, <4>1 DEF GivenUp
      <4>3. QED
        BY <1>2, <3>1, <4>2 DEF Answers, Searching
    <3>3. PICK b \in Range(link.atoms[link.members[lib][n]]) :
             /\ link.attributes[b].name = n
             /\ link.attributes[b].scope # "translationUnit"
             /\ link.attributes[b].combine # "byContent"
      BY <1>1, <3>1, OfArchive DEF MemberOK
    <3>4. link.members[lib][n] \in Begun
      BY <3>2 DEF Begun
    <3>5. b \in known
      BY <1>1, <3>3, <3>4 DEF Base, FilesInv, Range
    <3>6. HasName(table, n)
      BY <1>1, <3>3, <3>5 DEF Base, SlotsKnown, Named, ByName
    <3>7. QED
      BY <1>5, <3>6 DEF GivenUp
  <2>4. QED
    BY <2>1, <2>2, <2>3 DEF GivenUp
<1>6. QED
  BY <1>4, <1>5

\* What is given up stays so: nothing that the searches hand out has the name.
LEMMA SearchGivenUp ==
    ASSUME Base, Listed, NothingLate, SearchLibraries
    PROVE  /\ searchable' = searchable
           /\ \A n \in Names : GivenUp(n) => GivenUp(n)'
<1>1. /\ link \in Links /\ link' = link /\ atom' = atom /\ atom = link.attributes
      /\ table' = table /\ search \in Searches
  BY Zenon, InputStays
     DEF Base, RTypeInv, ResolverTypeOK, ResolverNext, SearchLibraries, AskDylib, LoadMember,
         NotFound, FirstAnswer, tableVars
<1>2. ASSUME NEW i \in DOMAIN searchable, AskDylib(i)
      PROVE  searchable' = searchable /\ \A n \in Names : GivenUp(n) => GivenUp(n)'
  <2>1. PICK m \in Names, lib \in Libraries, a \in Atoms :
           /\ m = search.name /\ lib = searchable[i] /\ m \in DOMAIN link.exports[lib]
           /\ a = link.exports[lib][m] /\ lib \in link.dylibs /\ atom[a].name = m
           /\ lib \in Range(searchable)
    BY <1>1, <1>2, LinkFields, ExportFields
       DEF AskDylib, FirstAnswer, Answers, Searches, Base, RTypeInv, ResolverTypeOK, Range
  <2>2. pending' = <<a>> /\ UNCHANGED <<loaded, searchable>>
    BY <1>2, <2>1 DEF AskDylib
  <2>3. ASSUME NEW n \in Names, GivenUp(n)  PROVE GivenUp(n)'
    <3>1. ~ Answers(lib, Searching(n, TRUE, FALSE))
      BY <2>1, <2>3 DEF GivenUp
    <3>2. n # m
      BY <2>1, <3>1 DEF Answers, Searching
    <3>3. \A k \in DOMAIN pending' : pending'[k] = a
      BY <2>2
    <3>4. ~ ComesUp(n)'
      BY <1>1, <2>1, <3>2, <3>3 DEF ComesUp
    <3>5. QED
      BY <1>1, <2>2, <2>3, <3>4 DEF GivenUp, HasName, Answers, IsData, Searching
  <2>4. QED
    BY <2>2, <2>3
<1>3. CASE NotFound
  BY <1>1, <1>3
     DEF NotFound, GivenUp, HasName, ComesUp, Named, ByName, Answers, IsData, Searching
<1>4. QED
  BY <1>2, <1>3, LoadedInTime DEF SearchLibraries

LEMMA DoAtomGivenUp ==
    ASSUME Base, NEW a \in Atoms, DoAtom(a), ~ thrown', NEW n \in Names, GivenUp(n)
    PROVE  GivenUp(n)'
<1>1. /\ pending \in Seq(Atoms) /\ pending # <<>> /\ a = Head(pending)
      /\ pending' = Tail(pending) /\ link' = link /\ atom' = atom
      /\ UNCHANGED <<loaded, searchable>>
  BY DEF DoAtom, Base, RTypeInv, ResolverTypeOK, inputVars
<1>2. ~ ComesUp(n) /\ table.byName[n] = NoAtom
  BY DEF GivenUp, HasName
<1>3. ~ (Named(a) /\ ByName(a) /\ atom[a].name = n)
  <2>1. 1 \in DOMAIN pending /\ pending[1] = a
    BY <1>1
  <2>2. QED
    BY <1>2, <2>1 DEF ComesUp
<1>4. table'.byName[n] = NoAtom
  BY <1>2, <1>3, SlotsLost DEF Base
<1>5. \A i \in DOMAIN pending' : i + 1 \in DOMAIN pending /\ pending'[i] = pending[i + 1]
  BY <1>1
<1>6. ~ ComesUp(n)'
  BY <1>1, <1>2, <1>5 DEF ComesUp, Named, ByName
<1>7. QED
  BY <1>1, <1>4, <1>6 DEF GivenUp, HasName, Answers, IsData, Searching

\* The calls of markLive() after a fixup was followed.
LEMMA Calling ==
    ASSUME StripInv, stack # <<>>
    PROVE  /\ Range(stack) = {Head(stack)} \cup Range(Tail(stack))
           /\ \A f, g \in Frames :
                 /\ Range(<<f>> \o Tail(stack)) = {f} \cup Range(Tail(stack))
                 /\ Range(<<f>> \o (<<g>> \o Tail(stack))) = {f, g} \cup Range(Tail(stack))
<1>1. stack \in Seq(Frames) /\ Tail(stack) \in Seq(Frames) /\ Head(stack) \in Frames
  BY FewerFixups DEF StripInv, Calls
<1>2. \A f \in Frames, s \in Seq(Frames) : Range(<<f>> \o s) = {f} \cup Range(s)
  <2> SUFFICES ASSUME NEW f \in Frames, NEW s \in Seq(Frames)
               PROVE  Range(<<f>> \o s) = {f} \cup Range(s)
    OBVIOUS
  <2> DEFINE t == <<f>> \o s
  <2>1. Len(t) = Len(s) + 1 /\ t[1] = f /\ DOMAIN t = 1 .. Len(s) + 1
    OBVIOUS
  <2>2. \A i \in DOMAIN s : i + 1 \in DOMAIN t /\ t[i + 1] = s[i]
    OBVIOUS
  <2> HIDE DEF t
  <2>3. \A i \in DOMAIN t : i = 1 \/ (i - 1 \in DOMAIN s /\ t[i] = s[i - 1])
    <3> SUFFICES ASSUME NEW i \in DOMAIN t, i # 1
                 PROVE  i - 1 \in DOMAIN s /\ t[i] = s[i - 1]
      OBVIOUS
    <3>1. i - 1 \in DOMAIN s /\ (i - 1) + 1 = i
      BY <2>1
    <3>2. QED
      BY <2>2, <3>1
  <2>4. 1 \in DOMAIN t /\ t[1] = f
    BY <2>1
  <2>5. Range(t) = {f} \cup Range(s)
    BY <2>2, <2>3, <2>4 DEF Range
  <2>6. QED
    BY <2>5 DEF t
<1>3. stack = <<Head(stack)>> \o Tail(stack)
  BY <1>1
<1>4. Range(stack) = {Head(stack)} \cup Range(Tail(stack))
  BY <1>1, <1>2, <1>3
<1>5. ASSUME NEW f \in Frames, NEW g \in Frames
      PROVE  /\ Range(<<f>> \o Tail(stack)) = {f} \cup Range(Tail(stack))
             /\ Range(<<f>> \o (<<g>> \o Tail(stack))) = {f, g} \cup Range(Tail(stack))
  <2>1. <<g>> \o Tail(stack) \in Seq(Frames)
    BY <1>1
  <2>2. Range(<<f>> \o (<<g>> \o Tail(stack))) = {f} \cup Range(<<g>> \o Tail(stack))
    BY <1>2, <2>1
  <2>3. Range(<<g>> \o Tail(stack)) = {g} \cup Range(Tail(stack))
    BY <1>1, <1>2
  <2>4. QED
    BY <1>1, <1>2, <2>2, <2>3
<1>6. QED
  BY <1>4, <1>5

\* A step of the walk keeps the fixups followed if it looks at each one it takes off a
\* call, and calls markLive() for the atom it marks.
LEMMA FollowedOn ==
    ASSUME FollowInv, live \subseteq live',
           UNCHANGED <<table, link, atom, thrown, pending, loaded, searchable>>,
           \A x \in live' \ live :
               \E f \in Range(stack') :
                   /\ f.atom = x /\ f.names = link.references[x]
                   /\ f.contents = Frame(x).contents /\ f.targets = link.targets[x],
           \A f \in Range(stack) :
               /\ \A b \in f.targets :
                     b \in live' \/ \E g \in Range(stack') : g.atom = f.atom /\ b \in g.targets
               /\ \A c \in f.contents :
                     \/ table.byContent[c] \in live'
                     \/ \E g \in Range(stack') : g.atom = f.atom /\ c \in g.contents
               /\ \A n \in f.names :
                     \/ HasName(table, n) /\ table.byName[n] \in live'
                     \/ GivenUp(n)
                     \/ \E g \in Range(stack') : g.atom = f.atom /\ n \in g.names
    PROVE  FollowInv'
<1> SUFFICES ASSUME ~ thrown', NoneReplaced', NEW x \in live'  PROVE Followed(x)'
  BY DEF FollowInv
<1>1. ~ thrown /\ NoneReplaced
  BY DEF NoneReplaced
<1>2. \A n : GivenUp(n)' = GivenUp(n)
  BY DEF GivenUp, HasName, ComesUp, Named, ByName, Answers, IsData, Searching
<1>3. Frame(x)' = Frame(x)
  BY DEF Frame
<1>4. CASE x \in live
  <2>1. Followed(x)
    BY <1>1, <1>4 DEF FollowInv
  <2>2. \A b \in link.targets[x] :
            b \in live' \/ \E f \in Range(stack') : f.atom = x /\ b \in f.targets
    BY <2>1 DEF Followed
  <2>3. \A c \in Frame(x).contents :
            \/ table.byContent[c] \in live'
            \/ \E f \in Range(stack') : f.atom = x /\ c \in f.contents
    BY <2>1 DEF Followed
  <2>4. \A n \in link.references[x] :
            \/ HasName(table, n) /\ table.byName[n] \in live'
            \/ GivenUp(n)
            \/ \E f \in Range(stack') : f.atom = x /\ n \in f.names
    BY <2>1 DEF Followed
  <2>5. QED
    BY <1>2, <1>3, <2>2, <2>3, <2>4 DEF Followed, HasName
<1>5. CASE x \notin live
  <2>1. PICK f \in Range(stack') :
           /\ f.atom = x /\ f.names = link.references[x]
           /\ f.contents = Frame(x).contents /\ f.targets = link.targets[x]
    BY <1>5
  <2>2. QED
    BY <1>3, <2>1 DEF Followed
<1>6. QED
  BY <1>4, <1>5

\* The same when markLive() is called for b: less is what is left of the current call,
\* from which nothing was taken but what b is the answer to.
LEMMA FollowedInto ==
    ASSUME Base, StripInv, FollowInv, stack # <<>>, ~ thrown, NEW b \in known, NEW less \in Calls,
           Mark(b, <<less>> \o Tail(stack)), UNCHANGED resolverVars,
           less.atom = Head(stack).atom,
           \A t \in Head(stack).targets : t \in less.targets \/ t = b,
           \A c \in Head(stack).contents : c \in less.contents \/ table.byContent[c] = b,
           \A n \in Head(stack).names :
               n \in less.names \/ (HasName(table, n) /\ table.byName[n] = b)
    PROVE  FollowInv'
<1>1. /\ UNCHANGED <<table, link, atom, thrown, pending, loaded, searchable>>
      /\ live' = live \cup {b} /\ link \in Links /\ atom = link.attributes /\ AtomsOK
      /\ b \in Atoms
  BY TypeSplit DEF resolverVars, tableVars, Mark, Base, RTypeInv, ResolverTypeOK
<1>2. Range(stack) = {Head(stack)} \cup Range(Tail(stack))
  BY Calling
<1>3. /\ {less} \cup Range(Tail(stack)) \subseteq Range(stack')
      /\ b \notin live => Frame(b) \in Range(stack')
  <2>1. CASE b \in live
    BY <2>1, Calling DEF Mark, Calls
  <2>2. CASE b \notin live
    <3>1. stack' = <<Frame(b)>> \o (<<less>> \o Tail(stack))
      BY <2>2 DEF Mark
    <3>2. Range(stack') = {Frame(b), less} \cup Range(Tail(stack))
      <4>1. Frame(b) \in Frames /\ less \in Frames
        BY <1>1, Fixups DEF Calls
      <4>2. QED
        BY <3>1, <4>1, Calling
    <3>3. QED
      BY <3>2
  <2>3. QED
    BY <2>1, <2>2
<1>4. \A f \in Range(Tail(stack)) : f \in Range(stack')
  BY <1>3
<1>5. ASSUME NEW x \in live' \ live
      PROVE  \E f \in Range(stack') :
                /\ f.atom = x /\ f.names = link.references[x]
                /\ f.contents = Frame(x).contents /\ f.targets = link.targets[x]
  <2>1. x = b /\ Frame(b) \in Range(stack')
    BY <1>1, <1>3, <1>5
  <2>2. QED
    BY <1>1, <2>1, Fixups
<1>6. ASSUME NEW f \in Range(stack)
      PROVE  /\ \A t \in f.targets :
                   t \in live' \/ \E g \in Range(stack') : g.atom = f.atom /\ t \in g.targets
             /\ \A c \in f.contents :
                   \/ table.byContent[c] \in live'
                   \/ \E g \in Range(stack') : g.atom = f.atom /\ c \in g.contents
             /\ \A n \in f.names :
                   \/ HasName(table, n) /\ table.byName[n] \in live'
                   \/ GivenUp(n)
                   \/ \E g \in Range(stack') : g.atom = f.atom /\ n \in g.names
  <2>1. CASE f = Head(stack)
    <3>1. less \in Range(stack') /\ b \in live'
      BY <1>1, <1>3
    <3>2. QED
      BY <2>1, <3>1
  <2>2. CASE f \in Range(Tail(stack))
    BY <1>4, <2>2
  <2>3. QED
    BY <1>2, <1>6, <2>1, <2>2
<1>7. live \subseteq live'
  BY <1>1
<1>8. QED
  BY Zenon, <1>1, <1>5, <1>6, <1>7, FollowedOn

\* So it is when only the table changes, and no live atom loses its slot.
LEMMA FollowedStays ==
    ASSUME Base, StripInv, FollowInv, UNCHANGED <<live, stack, link, atom>>,
           ~ thrown' => ~ thrown, ~ thrown' /\ NoneReplaced' => NoneReplaced,
           ~ thrown' => \A n \in Names : GivenUp(n) => GivenUp(n)',
           ~ thrown' /\ NoneReplaced' =>
               /\ \A n \in Names : table.byName[n] \in live => table'.byName[n] = table.byName[n]
               /\ \A c \in Contents :
                     table.byContent[c] \in live => table'.byContent[c] = table.byContent[c]
    PROVE  FollowInv'
<1> SUFFICES ASSUME ~ thrown', NoneReplaced', NEW x \in live  PROVE Followed(x)'
  BY DEF FollowInv
<1>1. /\ Followed(x) /\ link \in Links /\ atom = link.attributes /\ AtomsOK /\ x \in Atoms
  BY TypeSplit DEF FollowInv, Base, RTypeInv, ResolverTypeOK, StripInv
<1>2. Frame(x)' = Frame(x)
  BY DEF Frame
<1>3. link.references[x] \in SUBSET Names /\ Frame(x).contents \in SUBSET Contents
  BY <1>1, LinkFields, Fixups DEF Frames
<1>4. \A b \in link.targets[x] : b \in live \/ \E f \in Range(stack) : f.atom = x /\ b \in f.targets
  BY <1>1 DEF Followed
<1>5. \A c \in Frame(x).contents :
          \/ table'.byContent[c] \in live
          \/ \E f \in Range(stack) : f.atom = x /\ c \in f.contents
  BY <1>1, <1>3 DEF Followed
<1>6. \A n \in link.references[x] :
          \/ HasName(table', n) /\ table'.byName[n] \in live
          \/ GivenUp(n)'
          \/ \E f \in Range(stack) : f.atom = x /\ n \in f.names
  BY <1>1, <1>3 DEF Followed, HasName
<1>7. QED
  BY <1>2, <1>4, <1>5, <1>6 DEF Followed, HasName

\* Once the loops are over, the resolver only searches.
LEMMA ResolveSearches ==
    Resolve /\ pc = "resolved" => SearchLibraries
BY DEF Resolve, ReadFile, EndInput, ResolveUndefines, StartPass, EndUndefines, EndTentatives,
       EndPasses, EndLeftovers, SearchUndefined, SearchTentative

LEMMA ResolveFollow ==
    ASSUME Base, StripInv, Listed, NothingLate, FollowInv, VisitInv, Resolve
    PROVE  FollowInv' /\ VisitInv'
<1>1. [ResolverNext]_resolverVars /\ UNCHANGED stripVars
  BY DEF Resolve, ResolverNext
<1>2. link' = link /\ atom' = atom
  BY <1>1, InputStays
<1>3. CASE pc # "resolved"
  BY <1>1, <1>3 DEF StripInv, FollowInv, VisitInv, stripVars
<1>4. CASE pc = "resolved"
  <2>1. SearchLibraries
    BY <1>4, ResolveSearches, SMTT(40)
  <2>2. UNCHANGED <<table, thrown>>
    BY <2>1 DEF SearchLibraries, AskDylib, LoadMember, NotFound, tableVars
  <2>3. searchable' = searchable /\ \A n \in Names : GivenUp(n) => GivenUp(n)'
    BY <2>1, SearchGivenUp
  <2>4. FollowInv'
    BY <1>1, <1>2, <2>2, <2>3, FollowedStays DEF stripVars, NoneReplaced
  <2>5. \A n : Asked(n) => Asked(n)'
    BY <2>1, <2>3, AskedWhileSearching DEF Base
  <2>6. VisitInv'
    BY <1>1, <2>2, <2>5 DEF VisitInv, HasName, stripVars
  <2>7. QED
    BY <2>4, <2>6
<1>5. QED
  BY <1>3, <1>4

LEMMA DoAtomFollow ==
    ASSUME Base, StripInv, FollowInv, VisitInv, NEW a \in Atoms, StripDoAtom(a)
    PROVE  FollowInv' /\ VisitInv'
<1> SUFFICES ASSUME ~ thrown'  PROVE FollowInv' /\ VisitInv'
  BY DEF FollowInv, VisitInv
<1>1. DoAtom(a) /\ UNCHANGED <<phase, live, stack, visit>> /\ ~ thrown
  BY DEF StripDoAtom, DoAtom
<1>2. link' = link /\ atom' = atom
  BY <1>1, InputStays DEF ResolverNext
<1>3. known \in SUBSET Atoms /\ live \subseteq known /\ NoAtom \notin Atoms
  BY TableAssumption DEF Base, RTypeInv, ResolverTypeOK, StripInv
<1>4. /\ table.coalescedAway \subseteq table'.coalescedAway
      /\ \A n \in Names :
            table'.byName[n] # table.byName[n] /\ HasName(table, n) =>
                table.byName[n] \in table'.coalescedAway
      /\ \A c \in Contents :
            table'.byContent[c] # table.byContent[c] /\ table.byContent[c] # NoAtom =>
                table.byContent[c] \in table'.coalescedAway
  BY <1>1, SlotsLost DEF Base
<1>5. FollowInv'
  <2>1. NoneReplaced' =>
            /\ NoneReplaced
            /\ \A n \in Names : table.byName[n] \in live => table'.byName[n] = table.byName[n]
            /\ \A c \in Contents :
                  table.byContent[c] \in live => table'.byContent[c] = table.byContent[c]
    BY <1>1, <1>3, <1>4 DEF NoneReplaced, HasName
  <2>2. \A n \in Names : GivenUp(n) => GivenUp(n)'
    BY <1>1, DoAtomGivenUp
  <2>3. QED
    BY <1>1, <1>2, <2>1, <2>2, FollowedStays
<1>6. VisitInv'
  <2> SUFFICES ASSUME phase # "roots", visit # NoVisit, ~ HasName(table', visit.name)
               PROVE  visit.stage = "undefined" /\ Asked(visit.name)'
    BY <1>1 DEF VisitInv
  <2>1. visit.name \in Names /\ visit \in Visits
    BY DEF StripInv, Visits
  <2>2. ~ HasName(table, visit.name)
    BY <1>1, <2>1, DoAtomTable DEF Base, Grows, KeepsNames
  <2>3. visit.stage = "undefined" /\ Asked(visit.name)
    BY <1>1, <2>2 DEF VisitInv
  <2>4. PICK n \in Names : n = visit.name
    BY <2>1
  <2>5. Asked(n)'
    BY <1>1, <2>3, <2>4, AskedWhileReading DEF Base
  <2>6. Asked(visit.name)'
    BY <1>1, <2>4, <2>5
  <2>7. QED
    BY <2>3, <2>6
<1>7. QED
  BY <1>5, <1>6

\* A name that was searched for and is not defined is given up.
LEMMA VisitedGivenUp ==
    ASSUME Base, StripInv, VisitInv, Marking, NEW n \in Names, visit # NoVisit, visit.name = n,
           ~ HasName(table, n)
    PROVE  GivenUp(n)
<1>1. phase # "roots" /\ phase # "off" /\ pc = "resolved"
  BY DEF StripInv, Marking
<1>2. Asked(n)
  BY <1>1 DEF VisitInv, Marking
<1>3. \A lib \in Range(searchable) : ~ Answers(lib, Searching(n, TRUE, FALSE))
  BY <1>1, <1>2, AllAsked DEF Base, Marking
<1>4. ~ ComesUp(n)
  BY DEF Marking, ComesUp
<1>5. QED
  BY <1>3, <1>4 DEF GivenUp

LEMMA WalkFollow ==
    ASSUME Base, StripInv, FollowInv, VisitInv, Walk
    PROVE  FollowInv'
<1>0. /\ link \in Links /\ atom = link.attributes /\ AtomsOK /\ known \in SUBSET Atoms
      /\ live \subseteq known /\ roots \subseteq known
  BY TypeSplit DEF Base, RTypeInv, ResolverTypeOK, StripInv
<1>1. UNCHANGED resolverVars =>
          UNCHANGED <<table, link, atom, thrown, pending, loaded, searchable>>
  BY DEF resolverVars, tableVars
\* The steps that mark nothing.
<1>2. ASSUME UNCHANGED <<live, stack, table, link, atom, thrown, pending, loaded, searchable>>
      PROVE  FollowInv'
  BY <1>2, FollowedOn
<1>3. CASE StartStrip \/ EndRoots \/ EndMark
  BY <1>1, <1>2, <1>3 DEF StartStrip, EndRoots, EndMark, tableVars
<1>4. ASSUME NEW n \in Names, SearchRoot(n) \/ AddRoot(n) \/ SearchReference(n) \/ SearchCommon(n)
      PROVE  FollowInv'
  BY <1>2, <1>4 DEF SearchRoot, AddRoot, SearchReference, SearchCommon, Search, tableVars
<1>5. CASE EndFixups
  <2>1. /\ stack # <<>> /\ stack' = Tail(stack) /\ UNCHANGED <<resolverVars, live>>
        /\ Head(stack).names = {} /\ Head(stack).contents = {} /\ Head(stack).targets = {}
    BY <1>5 DEF EndFixups, Marking
  <2>2. Range(stack) = {Head(stack)} \cup Range(stack')
    BY <2>1, Calling
  <2>3. \A f \in Range(stack) :
            f \in Range(stack') \/ (f.names = {} /\ f.contents = {} /\ f.targets = {})
    BY <2>1, <2>2
  <2>4. QED
    BY <1>1, <2>1, <2>3, FollowedOn
\* The calls of markLive() from the loops.
<1>6. ASSUME NEW b \in known, stack = <<>>, Mark(b, <<>>), UNCHANGED resolverVars
      PROVE  FollowInv'
  <2>1. Range(stack) = {} /\ live' = live \cup {b}
    BY <1>6 DEF Mark, Range
  <2>2. b \notin live => Frame(b) \in Range(stack')
    <3>1. b \notin live => stack' = <<Frame(b)>>
      BY <1>6 DEF Mark
    <3>2. QED
      BY <3>1 DEF Range
  <2>3. b \in Atoms
    BY <1>0
  <2>4. QED
    BY <1>0, <1>1, <1>6, <2>1, <2>2, <2>3, Fixups, FollowedOn
<1>7. ASSUME NEW r \in Atoms, MarkRoot(r)  PROVE FollowInv'
  BY <1>0, <1>6, <1>7 DEF MarkRoot
<1>8. CASE CheckLiveIf
  <2>1. Head(liveIf) \in known /\ stack = <<>> /\ UNCHANGED resolverVars
    BY <1>8 DEF CheckLiveIf, StripInv
  <2>2. CASE HasLiveReference(Head(liveIf))
    BY <1>6, <1>8, <2>1, <2>2 DEF CheckLiveIf
  <2>3. CASE ~ HasLiveReference(Head(liveIf))
    BY <1>1, <1>2, <1>8, <2>1, <2>3 DEF CheckLiveIf
  <2>4. QED
    BY <2>2, <2>3
\* The calls from a call.
<1>9. ASSUME NEW b \in Atoms, FollowTarget(b)  PROVE FollowInv'
  <2>1. /\ Marking /\ b \in Head(stack).targets /\ UNCHANGED resolverVars
        /\ Mark(b, <<[Head(stack) EXCEPT !.targets = @ \ {b}]>> \o Tail(stack))
    BY <1>9 DEF FollowTarget
  <2>2. PICK less : less = [Head(stack) EXCEPT !.targets = @ \ {b}]
    OBVIOUS
  <2>3. /\ b \in known /\ less \in Calls /\ Head(stack) \in Frames
    BY <2>1, <2>2, Current, LessIsCall DEF Marking, Calls
  <2>4. /\ less.atom = Head(stack).atom /\ less.targets = Head(stack).targets \ {b}
        /\ less.contents = Head(stack).contents /\ less.names = Head(stack).names
    BY <2>2, <2>3 DEF Frames
  <2>5. QED
    BY <2>1, <2>2, <2>3, <2>4, FollowedInto DEF Marking
<1>10. ASSUME NEW c \in Contents, FollowContent(c)  PROVE FollowInv'
  <2>1. /\ Marking /\ c \in Head(stack).contents /\ UNCHANGED resolverVars
        /\ Mark(table.byContent[c],
                <<[Head(stack) EXCEPT !.contents = @ \ {c}]>> \o Tail(stack))
    BY <1>10 DEF FollowContent
  <2>2. PICK less : less = [Head(stack) EXCEPT !.contents = @ \ {c}]
    OBVIOUS
  <2>3. /\ table.byContent[c] \in known /\ less \in Calls /\ Head(stack) \in Frames
    BY <2>1, <2>2, Current, LessIsCall DEF Marking, Calls
  <2>4. /\ less.atom = Head(stack).atom /\ less.contents = Head(stack).contents \ {c}
        /\ less.targets = Head(stack).targets /\ less.names = Head(stack).names
    BY <2>2, <2>3 DEF Frames
  <2>5. QED
    BY <2>1, <2>2, <2>3, <2>4, FollowedInto DEF Marking
<1>11. ASSUME NEW n \in Names, FollowName(n)  PROVE FollowInv'
  <2>1. Marking /\ n \in Head(stack).names /\ UNCHANGED resolverVars
    BY <1>11 DEF FollowName
  <2>2. PICK less : less = [Head(stack) EXCEPT !.names = @ \ {n}]
    OBVIOUS
  <2>3. less \in Calls /\ Head(stack) \in Frames /\ WithoutName(n) = <<less>> \o Tail(stack)
    BY <2>1, <2>2, Current, LessIsCall DEF Marking, Calls, WithoutName
  <2>4. /\ less.atom = Head(stack).atom /\ less.names = Head(stack).names \ {n}
        /\ less.targets = Head(stack).targets /\ less.contents = Head(stack).contents
    BY <2>2, <2>3 DEF Frames
  <2>5. CASE visit # NoVisit /\ ~ HasName(table, n)
    <3>1. stack' = <<less>> \o Tail(stack) /\ live' = live
      BY <1>11, <2>3, <2>5 DEF FollowName
    <3>2. GivenUp(n)
      <4>1. visit.name = n
        BY <1>11, <2>5 DEF FollowName
      <4>2. QED
        BY <2>1, <2>5, <4>1, VisitedGivenUp
    <3>3. /\ Range(stack) = {Head(stack)} \cup Range(Tail(stack))
          /\ Range(stack') = {less} \cup Range(Tail(stack))
      BY <2>1, <2>3, <3>1, Calling DEF Marking, Calls
    <3>4. less \in Range(stack') /\ \A f \in Range(Tail(stack)) : f \in Range(stack')
      BY <3>3
    <3>5. QED
      BY <1>1, <2>1, <2>4, <3>1, <3>2, <3>3, <3>4, FollowedOn
  <2>6. CASE ~ (visit # NoVisit /\ ~ HasName(table, n))
    <3>1. HasName(table, n) /\ Mark(table.byName[n], <<less>> \o Tail(stack))
      BY <1>11, <2>3, <2>6 DEF FollowName
    <3>2. table.byName[n] \in known
      BY <2>1, <3>1, Current DEF Marking
    <3>3. QED
      BY <2>1, <2>3, <2>4, <3>1, <3>2, FollowedInto DEF Marking
  <2>7. QED
    BY <2>5, <2>6
<1>12. QED
  BY <1>3, <1>4, <1>5, <1>7, <1>8, <1>9, <1>10, <1>11 DEF Walk

LEMMA WalkVisit ==
    ASSUME Base, StripInv, VisitInv, Walk
    PROVE  VisitInv'
<1>1. CASE StartStrip \/ EndRoots \/ EndFixups \/ EndMark \/ CheckLiveIf
  BY <1>1 DEF StartStrip, EndRoots, EndFixups, EndMark, CheckLiveIf, StripInv, VisitInv
<1>2. ASSUME NEW a \in Atoms, MarkRoot(a) \/ FollowTarget(a)  PROVE VisitInv'
  BY <1>2 DEF MarkRoot, FollowTarget, StripInv, VisitInv
<1>3. ASSUME NEW c \in Contents, FollowContent(c)  PROVE VisitInv'
  BY <1>3 DEF FollowContent, VisitInv
<1>4. ASSUME NEW n \in Names, SearchRoot(n) \/ AddRoot(n) \/ FollowName(n)  PROVE VisitInv'
  BY <1>4 DEF SearchRoot, AddRoot, FollowName, VisitInv
<1>5. ASSUME NEW n \in Names, SearchReference(n)  PROVE VisitInv'
  BY <1>5 DEF SearchReference, Marking, Search, Searching, VisitInv, Asked
<1>6. ASSUME NEW n \in Names, SearchCommon(n)  PROVE VisitInv'
  BY <1>6 DEF SearchCommon, Search, VisitInv, HasName, tableVars
<1>7. QED
  BY <1>1, <1>2, <1>3, <1>4, <1>5, <1>6 DEF Walk

ClosedInv == Listed /\ FollowInv /\ (phase # "done" => VisitInv)

LEMMA NextClosed ==
    ASSUME StripSafe, NothingLate, ClosedInv, [DeadStripNext]_deadStripVars
    PROVE  NothingLate' /\ ClosedInv'
<1>1. CASE UNCHANGED deadStripVars
  <2>1. /\ UNCHANGED <<live, stack, visit, phase, table, link, atom, thrown, pending, loaded,
                       searchable, pc, todo, search>>
    BY <1>1 DEF deadStripVars, stripVars, resolverVars, tableVars, loopVars
  <2>2. FollowInv'
    BY <2>1, FollowedOn DEF ClosedInv
  <2>3. phase' # "done" => VisitInv'
    BY <2>1
       DEF ClosedInv, VisitInv, HasName, Asked, ComesUp, Named, ByName, Answers, IsData,
           Searching
  <2>4. NothingLate' /\ Listed'
    BY <2>1 DEF ClosedInv, NothingLate, Listed, Named, ByName
  <2>5. QED
    BY <2>2, <2>3, <2>4 DEF ClosedInv
<1>2. CASE phase = "done"
  BY <1>1, <1>2, DoneStays DEF StripSafe
<1>3. CASE phase # "done" /\ DeadStripNext
  <2>1. Base /\ StripInv /\ Listed /\ FollowInv /\ VisitInv
    BY <1>3 DEF StripSafe, ClosedInv
  <2>2. CASE Resolve \/ \E a \in Atoms : StripDoAtom(a)
    <3>1. [ResolverNext]_resolverVars
      BY <2>2 DEF Resolve, StripDoAtom, ResolverNext
    <3>2. link' = link /\ atom' = atom
      BY <3>1, InputStays
    <3>3. NothingLate' /\ Listed'
      BY <2>1, <3>1, <3>2, NextListed DEF NothingLate, Named, ByName, Base
    <3>4. FollowInv' /\ VisitInv'
      BY <2>1, <2>2, ResolveFollow, DoAtomFollow
    <3>5. QED
      BY <3>3, <3>4 DEF ClosedInv
  <2>3. CASE Walk
    <3>1. UNCHANGED <<link, atom>> /\ searchable' = searchable
      BY <2>3
         DEF Walk, StartStrip, EndRoots, EndFixups, EndMark, CheckLiveIf, MarkRoot,
             FollowTarget, FollowContent, SearchRoot, AddRoot, SearchReference, SearchCommon,
             FollowName, Search, resolverVars, tableVars
    <3>2. NothingLate' /\ Listed'
      BY <2>1, <3>1 DEF NothingLate, Listed, Named, ByName
    <3>3. FollowInv' /\ VisitInv'
      BY <2>1, <2>3, WalkFollow, WalkVisit
    <3>4. QED
      BY <3>2, <3>3 DEF ClosedInv
  <2>4. CASE Strip
    <3>1. /\ UNCHANGED <<live, stack, table, link, atom, thrown, pending, loaded, searchable>>
          /\ phase' = "done"
      BY <2>4 DEF Strip, tableVars
    <3>2. FollowInv'
      BY <2>1, <3>1, FollowedOn
    <3>3. NothingLate' /\ Listed'
      BY <2>1, <3>1 DEF NothingLate, Listed, Named, ByName
    <3>4. QED
      BY <3>1, <3>2, <3>3 DEF ClosedInv
  <2>5. QED
    BY <1>3, <2>2, <2>3, <2>4, NextKinds
<1>4. QED
  BY <1>1, <1>2, <1>3

\* Unless a live atom lost its slot on the way, what a live atom refers to is kept: each
\* fixup was followed, and a name the walk gave up is not defined later, if the archives
\* list what they define.
THEOREM ClosedLive == DeadStripSpec /\ NothingLate => []LiveClosed
<1> DEFINE Inv == StripSafe /\ NothingLate /\ ClosedInv
<1>1. DeadStripInit /\ NothingLate => Inv
  <2>1. DeadStripInit => ClosedInv
    BY DEF DeadStripInit, ResolverInit, ClosedInv, Listed, FollowInv, VisitInv
  <2>2. QED
    BY <2>1, InitStrip
<1>2. Inv /\ [DeadStripNext]_deadStripVars => Inv'
  BY NextStrip, NextClosed
<1>3. Inv => LiveClosed
  <2> SUFFICES ASSUME Inv  PROVE LiveClosed
    OBVIOUS
  <2>1. StripTypeOK
    BY StripTypes DEF StripSafe, DoneInv
  <2>2. ASSUME Done, NoneReplaced, NEW a \in live  PROVE Successors(a) \subseteq known \cap live
    <3>1. stack = <<>> /\ live \subseteq known /\ ~ thrown
      BY <2>2 DEF StripSafe, DoneInv, Done
    <3>2. Followed(a) /\ Range(stack) = {}
      BY <2>2, <3>1 DEF ClosedInv, FollowInv, Range
    <3>3. Successors(a) \subseteq live
      BY <3>2 DEF Followed, Successors, GivenUp
    <3>4. QED
      BY <3>1, <3>3
  <2>3. QED
    BY <2>1, <2>2 DEF LiveClosed
<1>4. QED
  BY <1>1, <1>2, <1>3, PTL DEF DeadStripSpec
==============================================================================
