----------------------------- MODULE DylibGraph -----------------------------
(***************************************************************************)
(* The dylibs of a link: those of the command line, those object files ask *)
(* for, and the indirect ones, found because a dylib re-exports them.  A   *)
(* dylib file may be read more than once; each reading makes a reader, and *)
(* the flags, the tables and the edges of the graph are the reader's.      *)
(*                                                                         *)
(* A name is looked for in the dylibs that are searched and, through them, *)
(* in what they re-export; a reader that answers must end as a load        *)
(* command of the output, for the reference is stored as its ordinal.      *)
(*                                                                         *)
(* Paths and install names are one set: an install name is the path        *)
(* dependents give, though the file found there may call itself otherwise. *)
(***************************************************************************)
EXTENDS Naturals, Sequences, FiniteSets, Functions

CONSTANTS
    Files,        \* dylib files
    Paths,        \* paths and install names
    Symbols,
    NoFile,       \* nothing is found at a path
    DylibInputs   \* the inputs considered

InputRecords ==
    [installPath : [Files -> Paths],
     at : [Paths -> Files \cup {NoFile}],        \* findIndirectDylib(), -dylib_file
     dependents : [Files -> Seq([path : Paths, reExport : BOOLEAN])],
     umbrella : [Files -> Files \cup {NoFile}],  \* the one parentUmbrella() names
     noRexports : SUBSET Files,
     explicitReExport : SUBSET Files,            \* _explictReExportFound
     public : SUBSET Files,                      \* hasPublicInstallName()
     exports : [Files -> SUBSET Symbols],
     ignored : [Files -> SUBSET Symbols],        \* _ignoreExports
     flat : BOOLEAN,                             \* -flat_namespace
     stripUnused : BOOLEAN,                      \* -dead_strip_dylibs
     line : Seq(Files),                          \* the command line
     autolinked : SUBSET Files,                  \* what object files ask for,
     autolinkedLate : SUBSET Files]              \* what archive members ask for

\* A file without re-exports says so truly.
ASSUME DylibAssumption ==
    /\ DylibInputs \subseteq InputRecords
    /\ \A d \in DylibInputs : \A f \in d.noRexports :
          \A i \in DOMAIN d.dependents[f] : ~ d.dependents[f][i].reExport

VARIABLES
    input,      \* the input; never changes
    step,       \* where the link is
    graph,      \* the readers, see GraphRecords
    requests,   \* unprocessedLinkerOptionLibraries
    asked,      \* linkerOptionLibraries
    batch,      \* unprocessedDylibs: the readers the pass has still to see
    seen,       \* dylibsProcessed
    lastSize,   \* lastMapSize
    wanted,     \* the names still to be looked for
    provided    \* who answered: _providedAtom and the proxies made

vars == <<input, step, graph, requests, asked, batch, seen, lastSize, wanted,
          provided>>

\* Dependent::dylib before the dylib has been found
NoReader == 0

GraphRecords ==
    [readers : Seq(Files),                       \* _allDylibs
     byName : [Paths -> Nat],                    \* _installPathToDylibs
     explicit : SUBSET Nat,                      \* explicitlyLinked()
     implicit : SUBSET Nat,                      \* implicitlyLinked()
     searched : Seq(Nat),                        \* the dylibs of _searchLibraries
     processed : SUBSET Nat,                     \* _indirectDylibsProcessed
     failed : BOOLEAN,                           \* an error was thrown
     dependents : Seq(Seq([path : Paths, dylib : Nat, reExport : BOOLEAN]))]

Readers(g) == DOMAIN g.readers
FileOf(g, r) == g.readers[r]
Linked(g) == g.explicit \cup g.implicit

------------------------------------------------------------------------------
(* Adding a dylib, and finding the dependents of one                        *)

\* addDylib(): the first reader with an install name keeps it.
AddDylib(g, f) ==
    [g EXCEPT !.readers = Append(@, f),
              !.byName[input.installPath[f]] =
                  IF @ = NoReader THEN Len(g.readers) + 1 ELSE @,
              !.dependents = Append(@, [i \in DOMAIN input.dependents[f] |->
                  [path |-> input.dependents[f][i].path, dylib |-> NoReader,
                   reExport |-> input.dependents[f][i].reExport]])]

\* addDylib() for a dylib that is not indirect
AddDirect(g, f) == [AddDylib(g, f) EXCEPT !.searched = Append(@, Len(g.readers) + 1)]

\* findDylib(): the graph after it
FindLoading(g, path) ==
    IF g.byName[path] # NoReader THEN g
    ELSE IF input.at[path] = NoFile THEN [g EXCEPT !.failed = TRUE]
    ELSE AddDylib(g, input.at[path])

\* findDylib(): its result
Found(g, path) ==
    IF g.byName[path] # NoReader THEN g.byName[path] ELSE Len(g.readers) + 1

\* A public child of a dylib that is linked is linked itself.
Promotes(g, r, path, child) ==
    /\ FileOf(g, child) \in input.public
    /\ r \in Linked(g)
    /\ path = input.installPath[FileOf(g, child)]

\* Of the old format, a child is re-exported that has r for its umbrella.
ReExports(g, r, dep, child) ==
    IF input.flat \/ dep.reExport THEN dep.reExport
    ELSE input.umbrella[FileOf(g, child)] = FileOf(g, r)

\* The dependent i of r, found
WithChild(g, r, i) ==
    LET dep == g.dependents[r][i]
        h == FindLoading(g, dep.path)
        child == Found(g, dep.path)
    IN  IF h.failed THEN h
        ELSE [h EXCEPT !.dependents[r][i] =
                 [@ EXCEPT !.dylib = child, !.reExport = ReExports(h, r, dep, child)],
                       !.implicit =
                 IF ~ input.flat /\ dep.reExport /\ Promotes(h, r, dep.path, child)
                 THEN @ \cup {child} ELSE @]

\* One round of the loops of processIndirectLibraries()
FindDependent(g, r, i) ==
    IF g.failed \/ ~ (\/ input.flat
                      \/ g.dependents[r][i].reExport
                      \/ FileOf(g, r) \notin input.explicitReExport)
    THEN g ELSE WithChild(g, r, i)

FindDependents(g, r) ==
    LET all == Len(g.dependents[r])
        found[i \in 0 .. all] ==
            IF i = 0 THEN g ELSE FindDependent(found[i - 1], r, i)
    IN  IF ~ input.flat /\ FileOf(g, r) \in input.noRexports THEN g ELSE found[all]

\* The children found so far
Children(g, r) ==
    {g.dependents[r][i].dylib :
        i \in {j \in DOMAIN g.dependents[r] : g.dependents[r][j].reExport}} \ {NoReader}

\* mutant: only a child that re-exports the dylib itself is a cycle
BackTo(g, r) == \E c \in Children(g, r) : r \in Children(g, c)

\* assertNoReExportCycles(): the walk meets one it has come through.
MeetsItself(g, r) ==
    LET throws[walk \in Readers(g) \X SUBSET Readers(g)] ==
            \E child \in Children(g, walk[1]) :
                child \in walk[2] \/ throws[<<child, walk[2] \cup {walk[1]}>>]
    IN  throws[<<r, {r}>>]

\* processIndirectLibraries(), once for each reader
ProcessIndirectLibraries(g, r) ==
    IF r \in g.processed THEN g
    ELSE LET h == FindDependents(g, r)
         IN  IF h.failed \/ MeetsItself(h, r) THEN [h EXCEPT !.failed = TRUE]
             ELSE [h EXCEPT !.processed = @ \cup {r}]

------------------------------------------------------------------------------
(* Looking for a symbol                                                     *)

\* mutant: what a child re-exports in turn is not looked at
FindsNear(g, r, n) ==
    /\ n \notin input.ignored[FileOf(g, r)]
    /\ \/ n \in input.exports[FileOf(g, r)]
       \/ \E c \in Children(g, r) \ g.implicit : n \in input.exports[FileOf(g, c)]
\* containsOrReExports(): a child that is implicitly linked is searched itself.
Finds(g, r, n) ==
    LET finds[c \in Readers(g)] ==
            /\ n \notin input.ignored[FileOf(g, c)]
            /\ \/ n \in input.exports[FileOf(g, c)]
               \/ \E child \in Children(g, c) \ g.implicit : finds[child]
    IN  finds[r]

\* The indirect dylibs searchLibraries() looks in after _searchLibraries
SearchedIndirectly(g) ==
    {r \in {g.byName[n] : n \in Paths} \ ({NoReader} \cup g.explicit) :
        input.flat \/ r \in g.implicit}

\* The reader that answers: the first of _searchLibraries, or else an indirect
\* one; which one depends on the spelling of the install names.
Answers(g, n) ==
    LET direct == {i \in DOMAIN g.searched : Finds(g, g.searched[i], n)}
    IN  IF direct # {}
        THEN {g.searched[CHOOSE i \in direct : \A j \in direct : i <= j]}
        ELSE {r \in SearchedIndirectly(g) : Finds(g, r, n)}

------------------------------------------------------------------------------
(* The dylibs of the output                                                 *)

\* InputFiles::dylibs(): those of the command line, and those of the table that
\* are implicitly linked.
DylibsOf(g) ==
    1 .. Len(input.line) \cup
    (IF input.flat THEN {}
     ELSE {r \in g.implicit : \E n \in Paths : g.byName[n] = r})

Unused(r) == \A n \in Symbols : <<r, n>> \notin provided

\* mutant: a dylib that is linked explicitly too is removed
RemovedLoosely(g, r) == r \in Linked(g)
\* passes::dylibs: what is removed
Removed(g, r) ==
    /\ Unused(r)
    /\ r \in g.implicit \ g.explicit \/ input.stripUnused

\* buildDylibOrdinalMapping(): those with an ordinal
WithOrdinal(g) == {r \in DylibsOf(g) : ~ Removed(g, r)}

------------------------------------------------------------------------------
NoGraph ==
    [readers |-> <<>>, byName |-> [n \in Paths |-> NoReader], explicit |-> {},
     implicit |-> {}, searched |-> <<>>, processed |-> {}, failed |-> FALSE,
     dependents |-> <<>>]

Init ==
    /\ input \in DylibInputs
    /\ step = "input"
    /\ graph = NoGraph
    /\ requests = input.autolinked
    /\ asked = {}
    /\ batch = {}
    /\ seen = {}
    /\ lastSize = 0
    /\ wanted = Symbols
    /\ provided = {}

loopVars == <<batch, seen, lastSize>>
resolveVars == <<wanted, provided>>

\* forEachInitialAtom(): the dylibs of the command line, in order
ReadDylib ==
    /\ step = "input"
    /\ Len(graph.readers) < Len(input.line)
    /\ graph' = AddDirect(graph, input.line[Len(graph.readers) + 1])
    /\ UNCHANGED <<input, step, requests, asked, loopVars, resolveVars>>

MarkExplicitlyLinkedDylibs ==
    /\ step = "input"
    /\ Len(graph.readers) = Len(input.line)
    /\ graph' = [graph EXCEPT !.explicit =
                    {graph.byName[n] : n \in Paths} \ {NoReader}]
    /\ step' = "autolink"
    /\ UNCHANGED <<input, requests, asked, loopVars, resolveVars>>

\* libraryAlreadyLoaded()
LibraryAlreadyLoaded(f) == \E r \in Readers(graph) : FileOf(graph, r) = f

\* One round of addLinkerOptionLibraries(), in the order of a set of names
AddLinkerOptionLibrary(f) ==
    /\ step = "autolink"
    /\ f \in requests
    /\ requests' = requests \ {f}
    /\ asked' = asked \cup {f}
    /\ graph' = IF LibraryAlreadyLoaded(f) THEN graph
                ELSE [AddDirect(graph, f) EXCEPT !.implicit =
                         @ \cup {Len(graph.readers) + 1}]
    /\ UNCHANGED <<input, step, loopVars, resolveVars>>

EndLinkerOptions ==
    /\ step = "autolink"
    /\ requests = {}
    /\ step' = "indirect"
    /\ lastSize' = 0
    /\ seen' = {}
    /\ UNCHANGED <<input, graph, requests, asked, batch, resolveVars>>

\* mutant: the size is not remembered
StartPassForgetting ==
    /\ step = "indirect"
    /\ batch = {}
    /\ lastSize # Len(graph.readers)
    /\ batch' = Readers(graph) \ seen
    /\ UNCHANGED <<input, step, graph, requests, asked, seen, lastSize, resolveVars>>
\* A pass of createIndirectDylibs() begins while the last one added dylibs.
StartPass ==
    /\ step = "indirect"
    /\ batch = {}
    /\ lastSize # Len(graph.readers)
    /\ lastSize' = Len(graph.readers)
    /\ batch' = Readers(graph) \ seen
    /\ UNCHANGED <<input, step, graph, requests, asked, seen, resolveVars>>

\* The readers of a pass are sorted by path: any order.
ProcessDylib(r) ==
    /\ step = "indirect"
    /\ r \in batch
    /\ batch' = batch \ {r}
    /\ seen' = seen \cup {r}
    /\ \E g \in {ProcessIndirectLibraries(graph, r)} :
          /\ graph' = g
          /\ step' = IF g.failed THEN "failed" ELSE step
    /\ UNCHANGED <<input, requests, asked, lastSize, resolveVars>>

EndIndirect ==
    /\ step = "indirect"
    /\ batch = {}
    /\ lastSize = Len(graph.readers)
    /\ step' = "resolve"
    /\ UNCHANGED <<input, graph, requests, asked, loopVars, resolveVars>>

\* Resolver: a name nobody has defined is looked for in the dylibs.
Search(n) ==
    /\ step = "resolve"
    /\ n \in wanted
    /\ wanted' = wanted \ {n}
    /\ IF Answers(graph, n) = {} THEN UNCHANGED provided
       ELSE \E r \in Answers(graph, n) : provided' = provided \cup {<<r, n>>}
    /\ UNCHANGED <<input, step, graph, requests, asked, loopVars>>

\* A member that is loaded asks for libraries: Resolver::doFile().
LoadMember ==
    /\ step = "resolve"
    /\ \E f \in input.autolinkedLate \ asked : requests' = {f}
    /\ step' = "autolink"
    /\ UNCHANGED <<input, graph, asked, loopVars, resolveVars>>

EndResolve ==
    /\ step = "resolve"
    /\ wanted = {}
    /\ step' = "done"
    /\ UNCHANGED <<input, graph, requests, asked, loopVars, resolveVars>>

Finished == step \in {"done", "failed"} /\ UNCHANGED vars

Advance ==
    \/ ReadDylib
    \/ MarkExplicitlyLinkedDylibs
    \/ \E f \in Files : AddLinkerOptionLibrary(f)
    \/ EndLinkerOptions
    \/ StartPass
    \/ \E r \in batch : ProcessDylib(r)
    \/ EndIndirect
    \/ \E n \in Symbols : Search(n)
    \/ LoadMember
    \/ EndResolve

Next == Advance \/ Finished

Spec == Init /\ [][Next]_vars
FairSpec == Spec /\ WF_vars(Advance)
------------------------------------------------------------------------------
(* Properties                                                               *)

\* The dependents, flags and tables speak of readers there are.
DylibTypeOK ==
    /\ input \in DylibInputs
    /\ step \in {"input", "autolink", "indirect", "resolve", "done", "failed"}
    /\ graph \in GraphRecords
    /\ graph.failed = (step = "failed")
    /\ DOMAIN graph.dependents = Readers(graph)
    /\ \A n \in Paths : graph.byName[n] \in Readers(graph) \cup {NoReader}
    /\ Linked(graph) \cup graph.processed \cup Range(graph.searched) \cup batch
          \cup seen \subseteq Readers(graph)
    /\ requests \subseteq Files /\ asked \subseteq Files
    /\ lastSize \in 0 .. Len(graph.readers)
    /\ wanted \subseteq Symbols
    /\ provided \subseteq Readers(graph) \X Symbols

\* A set of readers each of which re-exports one of the set.
HasCycle ==
    LET children == [r \in Readers(graph) |-> Children(graph, r)]
    IN  \E S \in (SUBSET Readers(graph)) \ {{}} : \A r \in S : children[r] \cap S # {}

\* A search follows re-exports without a guard of its own: when it begins, all
\* that will ever be followed has been found, and none of it leads back.  The
\* guard looks from one dylib at a time while the graph is still growing.
NoCycleIsSearched ==
    step \in {"resolve", "done"} =>
       /\ ~ HasCycle
       /\ \A r \in Readers(graph) : \A i \in DOMAIN graph.dependents[r] :
             graph.dependents[r][i].reExport =>
                graph.dependents[r][i].dylib # NoReader

\* Only a cycle, or a dylib that is not there, ends the link: a dylib that is
\* reached by two ways is no cycle.
RefusedForCause ==
    step = "failed" =>
       \/ HasCycle
       \/ \E f \in Range(graph.readers) : \E i \in DOMAIN input.dependents[f] :
             input.at[input.dependents[f][i].path] = NoFile

\* Cycles of re-exports are refused, and nothing but them.
CyclesAreRefused == DylibTypeOK /\ NoCycleIsSearched /\ RefusedForCause

\* What the dylib r of the command line shows its clients.
Shows(r, n) ==
    LET shows[c \in Readers(graph)] ==
            /\ n \notin input.ignored[FileOf(graph, c)]
            /\ \/ n \in input.exports[FileOf(graph, c)]
               \/ \E child \in Children(graph, c) : shows[child]
    IN  shows[r]

\* Skipping the children that are searched themselves loses no symbol: what a
\* dylib named on the command line or by an object file shows is found, though
\* "is searched itself" is decided by a flag, a table and the order of loading.
ShownIsFound ==
    step \in {"resolve", "done"} =>
       \A n \in Symbols : \A r \in Range(graph.searched) :
          Shows(r, n) => Answers(graph, n) # {}

\* The assertion "dylib not assigned ordinal": a dylib that provided a symbol is
\* neither missing from the dylibs of the output nor removed from them.
ProvidersHaveOrdinals ==
    step = "done" /\ ~ input.flat =>
       \A p \in provided : p[1] \in WithOrdinal(graph)

\* The same, but for a dylib an object file asked for whose install name another
\* dylib had when it was read.
ProvidersHaveOrdinalsOrTwins ==
    step = "done" /\ ~ input.flat =>
       \A p \in provided :
          \/ p[1] \in WithOrdinal(graph)
          \/ /\ FileOf(graph, p[1]) \in asked
             /\ graph.byName[input.installPath[FileOf(graph, p[1])]] # p[1]

\* Processing dylibs, which adds dylibs, comes to an end.
LinkEnds == <>(step \in {"done", "failed"})
=============================================================================
