------------------------------ MODULE Resolver ------------------------------
(***************************************************************************)
(* The resolver (class Resolver): which object files, archive members and  *)
(* dylib symbols make up the link.  It reads the files of the command line, *)
(* then searches the libraries for whatever name is still undefined, for as *)
(* long as the answers raise new questions.  The symbol table is that of   *)
(* SymbolTable.tla.                                                        *)
(*                                                                         *)
(* The resolver is one thread, but its loops call back into it: a search   *)
(* loads a member, whose atoms change the table, and whose linker options  *)
(* add libraries to those being searched.  So a step here is one atom, one *)
(* name or one library, and the loops are variables.  Names are abstract,  *)
(* so the loops over them may take any order.                              *)
(***************************************************************************)
EXTENDS SymbolTable, Sequences, FiniteSets, Functions

CONSTANTS
    Files,       \* object files, and members of archives
    Libraries,   \* archives and dylibs
    NoSearch,    \* no library is being searched
    Links        \* the inputs considered

PartialFunctions(S, T) == UNION {[D -> T] : D \in SUBSET S}

LinkRecords ==
    [attributes : Attributes,
     references : [Atoms -> SUBSET Names],      \* fixups bound by name
     literals : [Atoms -> Atoms \cup {NoAtom}], \* a fixup bound by content
     targets : [Atoms -> SUBSET Atoms],         \* fixups bound directly
     dontDeadStrip : SUBSET Atoms,              \* atoms with this attribute,
     ifReferencesLive : SUBSET Atoms,           \* with dontDeadStripIfReferencesLive()
     globalsAreRoots : BOOLEAN,                 \* allGlobalsAreDeadStripRoots()
     code : SUBSET Atoms,                       \* section().type() == typeCode
     atoms : [Files -> Seq(Atoms)],             \* what forEachAtom() hands out
     autolinks : [Files -> SUBSET Libraries],   \* linkerOptions()
     dylibs : SUBSET Libraries,
     members : [Libraries -> PartialFunctions(Names, Files)],  \* of an archive
     exports : [Libraries -> PartialFunctions(Names, Atoms)],  \* of a dylib
     objects : Seq(Files),                      \* the command line
     libraries : Seq(Libraries),
     undefines : SUBSET Names]                  \* initialUndefines: -u, -e

\* Of an atom of a file: its fixups are bound directly and by content to atoms of
\* the file, what is bound by content is never static, the file has an ordinal of
\* its own, and the atom an alternate entry belongs to comes before it.
FileAtomOK(l, f, i) ==
    LET a == l.atoms[f][i]
    IN  /\ l.attributes[a].definition # "proxy"
        /\ l.targets[a] \subseteq Range(l.atoms[f])
        /\ l.literals[a] # NoAtom =>
              /\ l.literals[a] \in Range(l.atoms[f])
              /\ l.attributes[l.literals[a]].combine = "byContent"
              /\ l.attributes[l.literals[a]].scope # "translationUnit"
        /\ \A b \in Atoms : l.attributes[b].ordinal = l.attributes[a].ordinal
                               <=> b \in Range(l.atoms[f])
        /\ \A b \in l.attributes[a].subordinates :
              \/ l.attributes[b].scope = "translationUnit"
              \/ \E j \in 1 .. i - 1 : l.atoms[f][j] = b

\* No two files hand out one atom.
FilesWellFormed(l) ==
    /\ \A f \in Files : IsInjective(l.atoms[f])
    /\ \A f, g \in Files :
          f # g => Range(l.atoms[f]) \cap Range(l.atoms[g]) = {}
    /\ \A f \in Files : \A i \in DOMAIN l.atoms[f] : FileAtomOK(l, f, i)

\* An archive lists a name of the member it names, which is not on the command line;
MemberOK(l, lib, n) ==
    /\ l.members[lib][n] \notin Range(l.objects)
    /\ \E a \in Range(l.atoms[l.members[lib][n]]) :
          /\ l.attributes[a].name = n
          /\ l.attributes[a].scope # "translationUnit"
          /\ l.attributes[a].combine # "byContent"

\* a dylib a name of its own, for an atom that is a proxy and refers to nothing.
ExportOK(l, lib, n) ==
    LET a == l.exports[lib][n]
    IN  /\ l.attributes[a].name = n
        /\ l.attributes[a].definition = "proxy"
        /\ l.attributes[a].scope = "linkageUnit"
        /\ l.attributes[a].combine # "byContent"
        /\ l.attributes[a].subordinates = {}
        /\ l.references[a] = {} /\ l.literals[a] = NoAtom /\ l.targets[a] = {}
        /\ \A b \in Atoms : l.attributes[b].ordinal = l.attributes[a].ordinal
                               => l.attributes[b].definition = "proxy"
        /\ \A other \in Libraries \ {lib} :
              n \in DOMAIN l.exports[other] => l.exports[other][n] # a

LibrariesWellFormed(l) ==
    \A lib \in Libraries :
        /\ \A n \in DOMAIN l.members[lib] : MemberOK(l, lib, n)
        /\ \A n \in DOMAIN l.exports[lib] : ExportOK(l, lib, n)

WellFormed(l) ==
    /\ FilesWellFormed(l)
    /\ LibrariesWellFormed(l)
    /\ IsInjective(l.objects) /\ IsInjective(l.libraries)

ASSUME ResolverAssumption ==
    /\ Links \subseteq LinkRecords
    /\ \A l \in Links : WellFormed(l)
    /\ NoSearch \notin [name : Names, next : Nat, dylibs : BOOLEAN, dataOnly : BOOLEAN]
    /\ IsFiniteSet(Names) /\ IsFiniteSet(Contents) /\ IsFiniteSet(Libraries)

VARIABLES
    link,        \* the input; never changes
    pc,          \* where resolve() is
    unread,      \* the files forEachInitialAtom() has still to read
    pending,     \* the atoms the file being read has still to hand out
    known,       \* _atoms
    loaded,      \* the archive members with state.loaded
    requested,   \* unprocessedLinkerOptionLibraries
    autolinked,  \* linkerOptionLibraries
    searchable,  \* _searchLibraries
    search,      \* the call of searchLibraries() in progress
    todo,        \* the names the loop of resolveUndefines() has still to see
    genCount     \* undefineGenCount

resolverVars ==
    <<tableVars, link, pc, unread, pending, known, loaded, requested,
      autolinked, searchable, search, todo, genCount>>
inputVars == <<atom, link>>
loopVars == <<pc, unread, todo, genCount>>

Searches ==
    [name : Names, next : Nat \ {0}, dylibs : BOOLEAN, dataOnly : BOOLEAN]

\* mutant: off by one
SearchingBefore(n, dylibs, dataOnly) ==
    [name |-> n, next |-> 0, dylibs |-> dylibs, dataOnly |-> dataOnly]
\* searchLibraries(name, dylibs, true, dataOnly)
Searching(n, dylibs, dataOnly) ==
    [name |-> n, next |-> 1, dylibs |-> dylibs, dataOnly |-> dataOnly]

\* updateCount(): the slots of the table.
UpdateCount(t) ==
    Cardinality(t.slots) + Cardinality({c \in Contents : t.byContent[c] # NoAtom})

\* _options.commonsMode() == Options::kCommonsOverriddenByDylibs
SearchesDylibs == CommonsMode = "overriddenByDylibs"

------------------------------------------------------------------------------
ResolverInit ==
    /\ link \in Links
    /\ atom = link.attributes
    /\ TableInit
    /\ pc = "input"
    /\ unread = link.objects
    /\ pending = <<>>
    /\ known = {}
    /\ loaded = {}
    /\ requested = {}
    /\ autolinked = {}
    /\ searchable = link.libraries
    /\ search = NoSearch
    /\ todo = {}
    /\ genCount = -1

\* No call of forEachAtom() or searchLibraries() is in progress.
Idle == ~ thrown /\ pending = <<>> /\ search = NoSearch

\* addLinkerOptionLibraries(): the libraries of libs not loaded yet can be
\* searched from now on.  They come from a set ordered by address.
AddLinkerOptionLibraries(libs) ==
    /\ LET missing == libs \ (autolinked \cup Range(searchable))
       IN  \E new \in Injection(1 .. Cardinality(missing), missing) :
              searchable' = searchable \o new
    /\ autolinked' = autolinked \cup libs

ReadFile ==
    /\ Idle
    /\ pc = "input"
    /\ unread # <<>>
    /\ pending' = link.atoms[Head(unread)]
    /\ requested' = requested \cup link.autolinks[Head(unread)]
    /\ unread' = Tail(unread)
    /\ UNCHANGED <<tableVars, link, pc, known, loaded, autolinked, searchable,
                   search, todo, genCount>>

\* What an atom refers to gets slots, added or not.
DoAtom(a) ==
    /\ ~ thrown
    /\ pending # <<>>
    /\ a = Head(pending)
    /\ pending' = Tail(pending)
    /\ known' = known \cup {a}
    /\ IF Named(a) /\ AddThrows(table, a)
       THEN thrown' = TRUE /\ UNCHANGED table
       ELSE /\ \E t \in IF Named(a) THEN AddTo(table, a, Treatment) ELSE {table} :
                  table' = Referring(t, link.references[a], link.literals[a])
            /\ UNCHANGED thrown
    /\ added' = IF Named(a) THEN added \cup {a} ELSE added
    /\ UNCHANGED <<inputVars, loopVars, initial, loaded, requested, autolinked,
                   searchable, search>>

\* The end of buildAtomList(), and addInitialUndefines().
EndInput ==
    /\ Idle
    /\ pc = "input"
    /\ unread = <<>>
    /\ AddLinkerOptionLibraries(requested)
    /\ requested' = {}
    /\ initial' = FALSE
    /\ table' = [table EXCEPT !.slots = @ \cup link.undefines]
    /\ pc' = "pass"
    /\ UNCHANGED <<inputVars, added, thrown, unread, pending, known, loaded,
                   search, todo, genCount>>

------------------------------------------------------------------------------
(***************************************************************************)
(* resolveUndefines()                                                      *)
(***************************************************************************)
OnlyLoops(next, names, count) ==
    /\ pc' = next
    /\ todo' = names
    /\ genCount' = count
    /\ UNCHANGED <<tableVars, link, unread, pending, known, loaded, requested,
                   autolinked, searchable, search>>

\* mutant: one pass is enough
SettledAtOnce == genCount # -1
\* mutant: as many passes as it takes to define every name
SettledWhenDefined == genCount # -1 /\ Undefines(table) = {}
\* The last pass added no slot.
Settled == genCount = UpdateCount(table)

StartPass ==
    /\ Idle
    /\ pc = "pass"
    /\ ~ Settled
    /\ OnlyLoops("undefines", Undefines(table), UpdateCount(table))

\* mutant: the name is not looked up again
ToBeSearched(n) == TRUE
\* A search for an earlier name may have defined this one.
StillUndefined(n) == ~ HasName(table, n)

\* The loop over the undefined names, and the one over those that are left when
\* there are linker options.
SearchUndefined(n) ==
    /\ Idle
    /\ pc \in {"undefines", "leftovers"}
    /\ n \in todo
    /\ todo' = todo \ {n}
    /\ search' = IF StillUndefined(n) THEN Searching(n, TRUE, FALSE) ELSE NoSearch
    /\ UNCHANGED <<tableVars, link, pc, unread, pending, known, loaded, requested,
                   autolinked, searchable, genCount>>

EndUndefines ==
    /\ Idle
    /\ pc = "undefines"
    /\ todo = {}
    /\ IF table.externalTentatives
       THEN OnlyLoops("tentatives", TentativeDefs(table), genCount)
       ELSE OnlyLoops("pass", {}, genCount)

\* The loop over the common symbols.
SearchTentative(n) ==
    /\ Idle
    /\ pc = "tentatives"
    /\ n \in todo
    /\ todo' = todo \ {n}
    /\ search' = IF Tentative(table.byName[n]) THEN Searching(n, SearchesDylibs, TRUE)
                 ELSE NoSearch
    /\ UNCHANGED <<tableVars, link, pc, unread, pending, known, loaded, requested,
                   autolinked, searchable, genCount>>

EndTentatives ==
    /\ Idle
    /\ pc = "tentatives"
    /\ todo = {}
    /\ OnlyLoops("pass", {}, genCount)

EndPasses ==
    /\ Idle
    /\ pc = "pass"
    /\ Settled
    /\ IF autolinked = {} THEN OnlyLoops("resolved", {}, genCount)
       ELSE OnlyLoops("leftovers", Undefines(table), genCount)

EndLeftovers ==
    /\ Idle
    /\ pc = "leftovers"
    /\ todo = {}
    /\ OnlyLoops("resolved", {}, genCount)

------------------------------------------------------------------------------
(***************************************************************************)
(* searchLibraries()                                                       *)
(***************************************************************************)
\* symbolIsDataDefinition()
IsData(f, n) ==
    \E a \in Range(link.atoms[f]) : link.attributes[a].name = n /\ a \notin link.code

\* mutant: a member that was loaded is loaded again
AnswersAgain(lib, s) ==
    IF lib \in link.dylibs
    THEN s.dylibs /\ s.name \in DOMAIN link.exports[lib]
    ELSE /\ s.name \in DOMAIN link.members[lib]
         /\ s.dataOnly => IsData(link.members[lib][s.name], s.name)
Answers(lib, s) ==
    IF lib \in link.dylibs
    THEN s.dylibs /\ s.name \in DOMAIN link.exports[lib]
    ELSE /\ s.name \in DOMAIN link.members[lib]
         /\ link.members[lib][s.name] \notin loaded
         /\ s.dataOnly => IsData(link.members[lib][s.name], s.name)

\* Library number i is the first, from the one to be asked next, that answers.
FirstAnswer(i) ==
    /\ ~ thrown
    /\ pending = <<>>
    /\ search # NoSearch
    /\ search.next <= i
    /\ Answers(searchable[i], search)
    /\ \A j \in search.next .. i - 1 : ~ Answers(searchable[j], search)

\* mutant: every dylib is asked
GoesOn(a) == TRUE
\* hasWeakDefinition(): a stronger definition is looked for.
GoesOnAfter(a) == Weak(a)

\* justInTimeforEachAtom() of a dylib.
AskDylib(i) ==
    /\ FirstAnswer(i)
    /\ searchable[i] \in link.dylibs
    /\ LET a == link.exports[searchable[i]][search.name]
       IN  /\ pending' = <<a>>
           /\ search' = IF GoesOnAfter(a) THEN [search EXCEPT !.next = i + 1] ELSE NoSearch
    /\ UNCHANGED <<tableVars, link, loopVars, known, loaded, requested, autolinked,
                   searchable>>

\* justInTimeforEachAtom() and justInTimeDataOnlyforEachAtom() of an archive, and
\* doFile(), which comes before the atoms.
LoadMember(i) ==
    /\ FirstAnswer(i)
    /\ searchable[i] \notin link.dylibs
    /\ LET f == link.members[searchable[i]][search.name]
       IN  /\ loaded' = loaded \cup {f}
           /\ pending' = link.atoms[f]
           /\ AddLinkerOptionLibraries(link.autolinks[f])
    /\ search' = NoSearch
    /\ UNCHANGED <<tableVars, link, loopVars, known, requested>>

NotFound ==
    /\ ~ thrown
    /\ pending = <<>>
    /\ search # NoSearch
    /\ \A i \in search.next .. Len(searchable) : ~ Answers(searchable[i], search)
    /\ search' = NoSearch
    /\ UNCHANGED <<tableVars, link, loopVars, pending, known, loaded, requested,
                   autolinked, searchable>>

SearchLibraries ==
    \/ \E i \in DOMAIN searchable : AskDylib(i) \/ LoadMember(i)
    \/ NotFound

ResolveUndefines ==
    \/ StartPass \/ EndUndefines \/ EndTentatives \/ EndPasses \/ EndLeftovers
    \/ \E n \in Names : SearchUndefined(n) \/ SearchTentative(n)

ResolverNext ==
    \/ ReadFile
    \/ \E a \in Atoms : DoAtom(a)
    \/ EndInput
    \/ ResolveUndefines
    \/ SearchLibraries

ResolverSpec == ResolverInit /\ [][ResolverNext]_resolverVars
FairResolverSpec == ResolverSpec /\ WF_resolverVars(ResolverNext)

------------------------------------------------------------------------------
(***************************************************************************)
(* Properties                                                              *)
(***************************************************************************)
\* The variables have the types of the classes Resolver and InputFiles, and what
\* is being read or searched fits where resolve() is.  (Dead stripping searches, too.)
ResolverTypeOK ==
    /\ atom = link.attributes
    /\ pc \in {"input", "pass", "undefines", "tentatives", "leftovers", "resolved"}
    /\ unread \in Seq(Files)
    /\ pending \in Seq(Atoms)
    /\ known \in SUBSET Atoms
    /\ added \subseteq known
    /\ loaded \in SUBSET Files
    /\ requested \in SUBSET Libraries
    /\ autolinked \in SUBSET Libraries
    /\ searchable \in Seq(Libraries)
    /\ search \in Searches \cup {NoSearch}
    /\ todo \in SUBSET Names
    /\ genCount \in Int
    /\ initial <=> pc = "input"
    /\ search # NoSearch => pc \notin {"input", "pass"}

\* The assertion of addByName(): no atom is handed to the resolver twice, by
\* whatever way its file is reached.
HandedOutOnce ==
    /\ ResolverTypeOK
    /\ Range(pending) \cap known = {}
    /\ IsInjective(pending)

\* The resolver is a user of the symbol table as SymbolTable.tla has it: it adds
\* atoms file by file, each once, and a dylib's only for a name that was asked for
\* and has no better definition.  So what holds of the table there holds here.
ImplementsTable == TableSpec

Stopped == pc = "resolved" /\ ~ thrown

Exhausted ==
    \A n \in Undefines(table), lib \in Range(searchable) :
        ~ Answers(lib, Searching(n, TRUE, FALSE))

\* When the resolver stops, what it leaves undefined no library could have
\* defined: the loops over the names missed nothing that appeared behind them.
NothingMissed == Stopped /\ autolinked = {} => Exhausted

\* The same when object files ask for libraries: the last pass resolves any name
\* that remains.
NothingMissedAutolinking == Stopped => Exhausted

\* An archive member has n as a common symbol.  It counts as data, so the search for
\* a better definition than an object file's common symbol may end with it.
CommonInMember(n) ==
    \E lib \in Libraries : \E m \in DOMAIN link.members[lib] :
        \E a \in Range(link.atoms[link.members[lib][m]]) :
            Tentative(a) /\ atom[a].name = n

\* When the resolver stops, no library has a definition left that overrides a common
\* symbol of the object files, if that is global.  For a hidden one the search may be
\* left out: the flag EndUndefines tests is set for global ones only.
CommonsOverridden ==
    Stopped /\ autolinked = {} =>
        \A n \in TentativeDefs(table), lib \in Range(searchable) :
            atom[table.byName[n]].scope = "global" /\ ~ CommonInMember(n)
            => ~ Answers(lib, Searching(n, SearchesDylibs, TRUE))

\* A member is loaded on demand only: when the name it is listed for is undefined,
\* or has nothing better than a common symbol or the weak one of a dylib.
LoadedOnDemand ==
    [][\A f \in loaded' \ loaded :
          \E lib \in Libraries : \E n \in DOMAIN link.members[lib] :
              /\ link.members[lib][n] = f
              /\ n \in table.slots
              /\ HasName(table, n) =>
                    \/ Tentative(table.byName[n])
                    \/ Proxy(table.byName[n]) /\ Weak(table.byName[n])]_resolverVars

\* The graph of atoms the resolver hands on has no dangling edges but those to
\* undefined names, which end the link: the atom a reference leads to was handed
\* out, or belongs to a dylib, and was not coalesced away.
NoDanglingEdges ==
    Stopped =>
        \A a \in known \ table.coalescedAway :
            /\ \A n \in link.references[a] :
                  /\ n \in table.slots
                  /\ HasName(table, n) =>
                        table.byName[n] \in known \ table.coalescedAway
            /\ link.literals[a] # NoAtom =>
                  table.byContent[atom[link.literals[a]].content]
                      \in known \ table.coalescedAway

\* The passes over the undefined names come to an end.
Resolves == <>(Stopped \/ thrown)
==============================================================================
