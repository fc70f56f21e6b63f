# A TLA+ model of ld64

This directory specifies the linker `ld64` (`src/ld64/ld64/src/ld`): how the
input files are read by several threads, which of several definitions of a
symbol is kept, which archive members and dylibs become part of the link, what
dead code stripping leaves, how atoms are ordered, merged, moved apart and laid
out, how code refers to them, and what is written for the loader. The modules
are checked with TLC on small instances; the theorems are proved with TLAPS for
every instance.

File names below are relative to `src/ld64/ld64/src/ld/` where no other
directory is named. `PROJECT.json` holds the exact correspondence of
definitions and source lines, the runs, the mutants each property is tried
against, and the hazards.

Contents: 1 The system. 2 The modules. 3 The properties. 4 The runs and
demonstrations. 5 Fairness. 6 What is proved. 7 Observations. 8 What is not
modelled. 9 Plan.

## 1. The system

A link is one run of `main()` in `ld.cpp`:

1. `Options` parses the command line;
2. `InputFiles` opens and parses the files, on several threads, and finds the
   dylibs that dylibs re-export;
3. `Resolver::resolve()` takes the atoms (functions, data, literals) of the
   files in command line order, enters them in the `SymbolTable`, searches the
   libraries for undefined names, strips dead code and, if there is bitcode,
   lets libLTO generate code and goes through some of this once more;
4. `InternalState` assigns the atoms to sections;
5. the passes merge functions, add atoms (stubs, GOT entries, islands, the
   unwind table, ...) and order the sections;
6. `OutputFile` gives addresses, applies the fixups and writes the file with
   its link edit information.

| component | state it keeps | operations | hard behaviour | what makes it correct |
|---|---|---|---|---|
| Input pipeline (`InputFiles`) | `_inputFiles`, the cursor and three counters, `_exception`, a lock, two condition variables | a worker's claim, parse and store; the listener's announcement; the main thread's take | three kinds of threads; signals; errors at any moment; a lock-free access to `_exception` | files reach the resolver once, in command line order; no wake-up and no error is lost; the phase ends |
| Library search (`InputFiles`, `archive_file`, `generic_dylib_file`) | the list of libraries, the members loaded, the libraries object files asked for | `searchLibraries`, `justInTimeforEachAtom`, `addLinkerOptionLibraries` | the list grows while it is searched; weak definitions of a dylib do not end a search | a member is loaded once, and only on demand |
| Dylib graph (`InputFiles`, dylib parsers, `OutputFile`) | readers by install path, re-exports, flags, ordinals | `createIndirectDylibs`, `findDylib`, `processIndirectLibraries`, `buildDylibOrdinalMapping` | a set that grows while it is processed; cycles; flags set in four places | every dependency is found; cycles are refused; what provides a symbol has an ordinal |
| Symbol table (`SymbolTable`) | slots of names and contents, the atom in each, the lists of duplicates | `add`, `findSlotForName`, `findSlotForReferences`, `undefines` | sixteen pairs of kinds; groups of atoms that go together | the slot has the best definition; clashes are reported; just the losers are dropped |
| Resolver (`Resolver`) | the atoms, where its loops are | `doAtom`, `resolveUndefines`, `convertReferencesToIndirect` | loops over lists that went stale; callbacks into the resolver from the search it started | nothing a library defines stays undefined; references lead to atoms that are kept; it ends |
| Dead code stripping (`Resolver`) | live bits, roots | `deadStripOptimize`, `markLive` | the walk loads members, adds atoms and replaces others | live atoms are closed under references and reachable from the roots |
| Link time optimization (`lto_file`, `Resolver`) | live bits and slots of the first round | `linkTimeOptimize` | the second round starts from the state of the first | as for dead stripping |
| Order pass (`ld.cpp`, `passes/order`) | the sections of atoms, clusters of follow-on atoms, ordinal overrides | `addAtom`, `buildFollowOnTables`, `buildOrdinalOverrideMap`, the sort | chains spliced from pairs in any order; the comparison of aliases | a cluster stays together; the comparison is an order |
| Code deduplication (`passes/code_dedup`) | classes of equal functions | `doPass` | functions that call each other | only functions that do the same are merged |
| Synthetic atoms (`passes/stubs`, `got`, `tlvp`, `compact_unwind`, `thread_starts`, ...) | tables of what has an entry already | one pass each | each pass decides by conditions of its own, and the next one relies on it | a reference ends at the definition the loader settles on; an address has its unwind information |
| Branch islands (`passes/branch_island`) | regions and islands | `makeIslandsForSection` | islands move what was measured | every branch reaches its island |
| Section and address layout (`ld.cpp`) | final sections, their order, addresses and file offsets | `addAtom`, `sortSections`, `setSectionSizesAndAlignments`, `assignFileOffsets` | passes that compute the same numbers separately | what is written is what the loader maps |
| Output file (`OutputFile`) | the tables of fixups | `setLoadCommandsPadding`, `applyFixUps`, `buildChainedFixupInfo`, `writeAtoms` | rewriting of instructions that depend on each other; tables sized before they are filled | the code does what was compiled |
| Link edit information (`LinkEdit.hpp`) | none | the encoders | rewriting opcodes in place | dyld decodes what was encoded |
| Export trie (`abstraction/MachOTrie.hpp`) | the tree, node offsets | `addSymbol`, `makeTrie` | offsets and their sizes depend on each other | it settles; every name is found |
| Object file parser, options, snapshot, signatures, tools, vendored code | see `PROJECT.json` | | sequential, one pass | see section 8 |

Interaction: `Resolver` calls `InputFiles::forEachInitialAtom()`, which calls
`Resolver::doAtom()` back for every atom while the workers fill `_inputFiles`.
From then on a single thread runs, but it re-enters itself: `searchLibraries()`
is called from the loops of `Resolver`, loads a member, whose atoms go through
`doAtom()` into the `SymbolTable`, and whose linker options add libraries to
the search. `markLive()` calls `searchLibraries()` in the middle of its walk.
After that the program is a sequence of passes over the lists of atoms in
`ld::Internal`; a pass knows of an earlier one what it finds there: a
fixup that was redirected, an atom in another section, an address.

## 2. The modules

| module | models | depends on |
|---|---|---|
| `OrderedInput` | the promise of the input phase: the files one by one, in order, none after a failure | |
| `InputPipeline` | `InputFiles`: `parseWorkerThread()`, `waitForInputFiles()`, `forEachInitialAtom()`, and `main()`'s reaction to an error | `OrderedInput` (as the abstract specification) |
| `SymbolTable` | `SymbolTable` and `NameCollisionResolution` | |
| `Resolver` | `Resolver::buildAtomList()`, `doAtom()`, `resolveUndefines()`, `InputFiles::searchLibraries()`, archives and dylibs | extends `SymbolTable` |
| `DeadStrip` | `Resolver::deadStripOptimize()`, `markLive()` | extends `Resolver` |
| `DylibGraph` | `InputFiles::addDylib()`, `findDylib()`, `createIndirectDylibs()`, `generic_dylib_file`, the dylibs pass, the ordinals | |
| `AtomOrder` | the atoms and follow-ons of an object file, `InternalState::addAtom()` and its moves, `passes/order.cpp` | |
| `Dedup` | `passes/code_dedup.cpp` | |
| `BranchIslands` | `passes/branch_island.cpp` | |
| `UnwindInfo` | `passes/compact_unwind.cpp`, the lookup in `other/unwinddump.cpp` | |
| `SectionLayout` | final sections, sizes, addresses and file offsets in `ld.cpp`, the padding of load commands, the segment load commands | |
| `CodeReferences` | the stubs, GOT and TLV passes of arm64, page fixups and optimization hints of `OutputFile::applyFixUps()` | |
| `ChainedFixups` | chained fixups: `passes/thread_starts.cpp`, `OutputFile` from the choice of a format to the written chains | |
| `OpcodeStream` | rebase, bind and weak bind opcodes: `LinkEdit.hpp`, the readers in `other/dyldinfo.cpp` | `Leb128` |
| `ExportTrie` | `abstraction/MachOTrie.hpp`: `makeTrie()`, `parseTrie()` | `Leb128` |
| `Leb128` | the size of a LEB128 number | |
| `MC...` | instances for TLC; `MCLinkEdit` and `MCPasses` put several modules in one run | |
| `InputPipeline_proofs`, `SymbolTable_proofs`, `Resolver_proofs`, `DeadStrip_proofs`, `DylibGraph_proofs`, `Dedup_proofs`, `Passes_proofs`, `LinkEdit_proofs` | the theorems | the modules they name |

Definitions carry the names of the source where there is one
(`PickBetweenRegular` is `pickBetweenRegularAtoms()`, `cursor` is
`_parseCursor`). Operators marked `mutant` are plausible mistakes; no
specification uses them. Each is put in the place of the definition that
follows it to see that a property notices.

In the modules from `AtomOrder` on, the program is sequential and deterministic
but for the order of hashed containers. A step is one round of a loop or one
pass; what is varied is the input, a constant set from which `Init` chooses.
The properties there do not repeat the algorithm: they are stated from the
outside, by what a loader, an unwinder or the running code makes of the result,
or by a definition of what the result should be (a bisimulation, a relation of
neighbours, a distance).

### InputPipeline

A step is the code between two points where another thread can see or do
something: taking or releasing `_parseLock`, waiting, and the code that runs
without the lock (`makeFile()`, `forEachAtom()`, the accesses of the main
thread to `_exception` at the end of the phase). `pthread_cond_signal` wakes
any one of the sleeping workers, and with `Spurious` a wait may end without a
signal. A file is one of four kinds, by what reading it does: parse, throw an
exception that is only a warning, throw one that ends the link, or parse and
fail in `forEachAtom()`. With `FifoMayFail` the listener may find its stream
ended or naming an unknown file at any time. The state after `_exit()` has no
further steps. The do-while loop of a worker is kept as it is: a worker that
is started takes a file before it looks at `_remainingInputFiles`.

`Implements` maps `fileIndex` to the files handed over, and the place of the
main thread to the outcome. Workers and listener are not in the abstraction:
their steps stutter.

### SymbolTable

The table is a record, and `add()` is an operator from tables to sets of
tables: a set, because the code may leave `_chosen` unset. The module has a
specification of its own, `TableSpec`, in which atoms of any kind are added in
every order that `FileOrder` and `Wanted` allow. These two say how the
resolver uses the table: file by file, and a dylib only for a name that was
asked for and has no real definition. They are assumptions here, and the
property `ImplementsTable` of `Resolver`, which is `TableSpec`, says that the
resolver satisfies them.

A step adds an atom with all that the code does for it before the next atom
comes: the names its fixups ask for get slots (`Referring`), and the literals
it refers to are entered (`Literals`). Static atoms have a step of their own,
since they have no slot.

The duplicate lists are sets of atoms. `DuplicateSymbols` is ordered by the
address of the name, and each atom has a copy of its name, so every clash
makes a list of its own; a list holds one atom of a path. Content tables
(C strings, other literals, references) are one function from contents.

### Resolver

One step is one atom, one name, or one library asked; the recursion of the
code is the variables `pending` (atoms being handed out), `search` (the call of
`searchLibraries()`) and `todo` (the rest of a loop). The input, `link`, is a
record of what the files and libraries contain. Loops over names and over
libraries added by linker options take any order, since the containers are
hashed or ordered by address.

### DeadStrip

Adds roots to `doAtom()` and the walk. The recursion of `markLive()` is a stack
of frames, each the fixups it has not followed yet, by name, by content and
direct. A reference by name may first search, for a definition or for
something better than a common symbol, and only then read the slot.
`_deadStripRoots` is a `std::set` ordered by address: a root added during the
loop may or may not be behind the loop, which is the choice of `behind` in
`StripDoAtom`.

`DeadStripAssumption` keeps atoms that are live if they refer to something
live out of archive members: one loaded by the loop over such atoms would
make `_dontDeadStripIfReferencesLive` grow while it is iterated over, and what
the program does then is undefined.

### DylibGraph

A dylib file can be read several times, under different paths; each reading is
a reader with a number, and the flags (implicitly linked, explicitly linked,
searched) belong to the reader. A step adds a dylib of the command line, takes
one round of linker options, lets one unprocessed dylib find its children,
marks the public ones, or searches for one symbol. `InputFiles` processes
dylibs in batches until none is new; `batch` is the copy the loop goes over
while the list grows. The paths at which an indirect dylib is found are a
function `at` of the input, which stands for the file system, `-dylib_file`
and the prefixes. Formats: the old one, with its umbrellas and sub-libraries,
and the one with re-export commands.

### AtomOrder

Phases follow the code: atoms are placed in sections as they arrive, taking
their cluster along if a symbol of it is moved to another segment; follow-on
fixups, met one by one, are linked into chains (`starts`, `nexts`); entries of
the order file give ordinals to clusters; zero fill atoms that were ordered go
to `__data`; the sections are sorted. `Less` is the comparison of the code,
clause by clause. Which atoms are chained to which is translated from the
parser (atoms of a section without subsections; alternate entries to the atom
before them; aliases of an address). `std::sort` needs a strict weak order:
where `Less` is none, `Sort` leaves any order. `OrdersStrictly` says that it is
one.

### Dedup

The hash table with its two mutually recursive functions is one action that
looks up one function: `Equal` compares instructions and targets with the
chain of functions being compared (`InCallChain`), as the code does, and is compared
with bisimilarity (`Alike`), the greatest relation closed under calls. The
variable `crossed` records functions about which the comparison assumed
something it was not comparing (the finding `dedup_guess`). The comparison is a
function of questions, a pair of functions with the chain that led to it, as
`sameFixups()` is a function of its two atoms and the back chain.

### BranchIslands, UnwindInfo

Distances and page sizes are constants, in proportion to those of the code.
`BranchIslands` visits atoms to find the places of regions, visits branches and
makes islands, and inserts them; then `Placed` lays everything out again,
islands included, and the property measures. `UnwindInfo` makes entries, pages
from the end of the table, and the index; `LookUp` is the search an unwinder
makes, by binary search in the index, then the page. What `std::map` and loops
over a vector keep in order is a set, listed in its order (`Ranked`,
`Ascending`); the first pass over a page is a function of the rounds made
(`CountFrom`), each of them `CountOne`. Atoms with unwind information are
functions, so they have a size.

### SectionLayout

A job is a link: its input sections with sizes and alignments, the options that
matter and the kind of output. A step takes an input section into a final one
(with renames and the order of sections seen), sorts, measures, pads the load
commands, or places one of the three classes of segments; a last one gives file
offsets. The properties are about `Commands`, what the segment load commands make
the loader do: every atom's bytes in the file, and only those, are at its
address, zero fill is zero, segments do not overlap.

### CodeReferences

A program is a list of instructions of one atom with fixups, the symbols they
refer to (how defined, how far, in which kind of output) and the optimization
hints of the compiler. The steps are the three passes, `applyFixUps()` for the
plain fixups, and one action for each kind of hint, in the two rounds the code
makes. Instructions are records. Meaning is given twice: `MeantStep` is what
the compiler meant by the instructions before linking, `CodeStep` runs the
instructions that were written, with stubs and tables filled by a loader that
may choose another definition of an exported weak symbol and, in the shared
cache, moves segments by whole pages. What calls, loads and stores see must be
equal. Hints are what compilers emit: the registers between the parts of a
sequence are dead after it.

### ChainedFixups, OpcodeStream, ExportTrie

`ChainedFixups` has an array of slots as memory. Steps: the count of chain
starts, the tables of pages and of bound symbols, the import table, the values
written into slots, and chaining, one fixup at a time, with words in between
taken into the chain and further starts of a page. The loader (`Visited`,
`Loaded`) follows the chains of the result. `OpcodeStream` has a step for
the sort, one for the plain program and one per rewriting pass; `RunOf` runs
the program on the machine that `dyldinfo` has, after each. `ExportTrie` inserts
names one by one, orders nodes, repeats the layout and writes; the reader is
`ProcessExportNode`. `Leb128` counts the bytes of a number in a smaller base,
so that sizes change within small instances.

### The composites

`MCLinkEdit` and `MCPasses` extend several modules. The modules do not share
variables: each behaviour runs one of them on one of its inputs while the
others are done. They are one run because each pass needs only a part of a
run's time, not because they interact.

## 3. The properties

Each is stated in words at its definition.

Input and resolution:

* `Implements`: whatever the threads do, the resolver sees the files in
  command line order, and the phase succeeds just when every file is good.
* `MainSleepsForCause`, `WorkNotStranded`, `Ends`: no lost wake-up.
* `ErrorNotLost`: an exception of any thread, stored with or without the lock,
  ends the link.
* `ScanFinds`, `ParsedOnce`: the counters agree with the array, though the
  cursor moves both ways.
* `WinnerIsBest`: the sixteen pairwise rules amount to one order (`Worth`), so
  the slot ends with a best definition, whatever the order of arrival.
* `DuplicatesReported`, `KeptIffSlotted`, `ContentAligned`.
* `NothingMissed`, `CommonsOverridden`: when the loops stop there is nothing
  left that a library would have answered.
* `LoadedOnDemand`, `HandedOutOnce`: members are loaded once and for cause.
* `NoDanglingEdges`, `LiveClosed`: references of what is kept lead to what is
  kept. `OnlyReachableLive`: the live atoms are the least closed set.
* `Resolves`, `StripEnds`, `LinkEnds`: the loops end.
* `CyclesAreRefused`: no cycle of re-exports is searched, and a link is refused
  for a cycle or a missing dylib only.
* `ShownIsFound`: a search that skips the children that are searched themselves
  misses nothing a dylib shows.
* `ProvidersHaveOrdinalsOrTwins`: the assertion of `OutputFile.cpp:4943`.

Passes:

* `LaidOutAsAsked`: from placement to sorting, atoms of a cluster remain
  neighbours, and clusters are moved as wholes; what the order file lists comes
  first and in its order.
* `OrdersStrictly`: the comparison the atoms are sorted by is a strict weak order.
* `MergedIfAlike`: functions that are merged behave alike, none that do are
  left apart, and references to what was removed find its replacement.
* `BranchesReach`: each branch reaches the target by islands, each hop in range:
  by the offsets the pass goes by (`LegsAreShort`), and where things end up.
* `UnwoundRight`: for each address the unwinder finds the encoding, FDE,
  personality routine and LSDA of its function, in any kind of page.
* `ImageIsMapped`: what is written for an atom is at its address when loaded;
  the load commands have their room, and what is encrypted starts behind them.
* `EdgesEnclose`: `segment$start`/`end` symbols and thread local data.
* `ReferencesArrive`: the rewritten code means the same.

Link edit:

* `ImageLoads`: a loader following the chains finds each pointer once with its
  target and addend, and restores the words in between; tables that are sized
  beforehand are large enough.
* `StreamMeansFixups`, `NeverGrows`: after each rewriting the opcodes mean what
  the table says, in no more bytes than before.
* `ReaderFindsExports`: the layout of the trie settles, and a reader finds the
  names and nothing else.

Some antecedents are there for a reason, and are worth knowing:
`WinnerIsBest` leaves out names with an absolute symbol, which competes by
file order in one pairing only; `DuplicatesReported` leaves out names with a
common symbol, which can take the slot of an absolute one and hide it;
`CommonsOverridden` speaks of global common symbols (see section 7);
`LiveClosed` and `OnlyReachableLive` of links in which no marked atom lost its
slot later; `NothingMissed` of links in which no object file asks for
libraries; `MergedIfAlike` of functions about which nothing was guessed;
`BranchesReach` of text in which islands push no atom, no island and not the end
further than the margin the code leaves (`Reach - Between`), of runs of chained
atoms no longer than a region's distance and of branches without an addend; `UnwoundRight` of layouts whose gaps between functions stay
within the slack of a page, and of at most three personality routines, with
more of which the code stops.

## 4. The runs and demonstrations

| run | instance | shows |
|---|---|---|
| `pipeline` | 3 files, 2 workers, all mixtures of the 4 kinds, with and without a file list, names listed twice, fifo errors and spurious wake-ups; 873156 states | the properties of `InputPipeline`, that it implements `OrderedInput`, and that it ends |
| `table` | 3 definitions of one name from 3 files, of 13 kinds, two perhaps members of one path; and 3 functions of 2 names with unwind information, literals of 2 contents; 193454 states | the properties of `SymbolTable` |
| `resolver` | 1 object file, 2 archives, 2 dylibs, 3 names, in every combination `MCLinks` lists, `-commons use_dylibs`; 14563 states | the properties of `Resolver` |
| `deadstrip` | the same files with two more static atoms, literals, cycles, atoms not to be stripped, undefined roots, members loaded by the walk; 48249 states | the properties of `DeadStrip` |
| `dylibs` | 3 dylibs that re-export each other in every way and a 4th read under two paths, old and new format, public names, linker options early and late, flat namespace; 89166 states | the properties of `DylibGraph` |
| `passes` | the six modules of `MCPasses`, below; 214393 states | the properties of the passes |
| `linkedit` | the three modules of `MCLinkEdit`, below; 206744 states | what the loader is given |
| `table_unset` | two definitions without `-dead_strip` | **violated**: `_chosen` is read though never set |
| `dedup_guess` | two functions that call others in crossed pairs | **violated**: functions that call different code are merged |
| `chained_addends` | a 32-bit bind with an addend of middle size | **violated**: the addend is lost |
| `trie_import` | a symbol exported again under a long name | **violated**: nodes are not where the layout put them |
| `hints_store` | `ADRP_ADD_STR` whose parts use two registers | **violated**: the store uses a register that is not set any more |

The runs with **violated** correspond to the findings of `PROJECT.json`, each
with the line of the source that says otherwise.

The bounds, and why they are enough to be worth having:

* Two workers and three files: one worker can be parsing, another wait, and a
  third file be announced behind the cursor; the lock has all its holders. With
  the main thread and the listener that is four threads. The theorems lift the
  bound for all safety properties.
* Three definitions of one name: the table compares two at a time, so a cycle
  among the rules, or a clash hidden by a third definition, needs three.
  `WinnerIsBest` is proved for any number.
* Two archives and two dylibs, three names: a member brings in a name that an
  earlier library defines (another pass), a dylib's weak definition is followed
  by a better one, a common symbol is overridden by a member or by a dylib, two
  names lead to one member, and one name has no definition at all.
* For the walk: a cycle through names and one through direct references, a
  frame suspended by a search in three places, and both kinds of liveness.
* Three dylibs in every graph of re-exports: cycles of each length, diamonds,
  and a dylib reached as a child and named itself, in either order.
* `AtomOrder`: four labels of one file, up to three of them at one address,
  with up to two command line aliases, and a label of another file; alternate
  entries, cold and zero fill atoms, moves, and order files that name a label,
  an alias, and a cluster twice: chains are joined at either end, hooked in
  front and spliced.
* `Dedup`: each way in which four and five functions may call one function each
  (every functional graph, so every shape of recursion), and three functions
  with two references each.
* `BranchIslands`: `MightNeed` 18, `Between` 20, `EndRoom` 4, `Reach` 26, in the
  order of arm64 (128000000 bytes, 124 MB, 1 MB, 128 MB) with a wider margin,
  since an island is larger in proportion; seven atoms of two sizes,
  which gives two regions, and branches both ways over none, one and both.
* `UnwindInfo`: pages of 10 words with a last page of at least 6, two common
  encodings, indexes to 3, a span of 20 for offsets with 12 usable: pages full
  by words, by indexes and by distance, regular and compressed ones, and all
  kinds of functions. A last page smaller than 6 words could not hold an entry
  and its encoding for sure; the code's is at least 32 words.
* `SectionLayout`: pages of 16; some 250 links in families: five sections in all
  120 orders of arrival, alignments of up to two pages, thread local data,
  `segment$start` and `segment$end`, fixed addresses, static and preload images,
  renamed sections, segments with page sizes of their own, encryption.
* `CodeReferences`: pages of 32 and a reach of 64 for adr (4096 and 1 MB): some
  6000 programs, with targets at, one beyond and one before each limit, each
  class of symbol in each kind of output, pairs of hints on shared
  instructions, and the two formats of the shared cache.
* `ChainedFixups`: pages of 7 slots, distances to 2 and 3, and limits of
  addends of each format kept apart: all mixtures over nine words, sparse
  pointers over two pages.
* `OpcodeStream`: pointers of 2 bytes, immediates to 3, LEB128 in base 8, two
  segments: each rewriting applies, alone and after the others.
* `ExportTrie`: up to five names of up to three characters, LEB128 in base 8:
  several rounds of the layout until offsets settle.

`CHECK_DEADLOCK FALSE` is set where the specification really stops: the ends of
the input phase (a link whose file list names a file twice waits for ever), of
`resolve()`, of `TableSpec`, and of the encoders. The other modules have a
stuttering step at their end, and TLC checks that they stop nowhere else.

Besides the runs there are configurations that demonstrate an observation of
section 7. TLC reports a violation for each; run
`tlc -config <configuration> <module>`.

| configuration | module | violated property |
|---|---|---|
| `InputPipelineExit.cfg` | `MCInputPipeline` | `OthersFinishedAtExit` |
| `SymbolTableAltEntry.cfg` | `MCSymbolTable` | `SlotAtomKept` |
| `ResolverAutolink.cfg` | `MCResolver` | `NothingMissedAutolinking` |
| `DeadStripReplaced.cfg` | `MCDeadStrip` | `KeptClosed` |
| `DeadStripLiveIf.cfg` | `MCDeadStrip` | `LiveIfComplete` |
| `DylibGraphTwins.cfg` | `MCDylibGraph` | `ProvidersHaveOrdinals` |
| `SectionLayoutMoved.cfg` | `MCSectionLayout` | `ImageIsMapped` |
| `OpcodeMismatch.cfg` | `MCOpcodeStream` | `MismatchIsNonWeak` |

## 5. Fairness

* `InputPipeline`: weak fairness of each worker, of the listener and of the
  main thread, that is, the operating system lets every thread that can run,
  run. A worker that waits for the lock needs no more than weak fairness for
  `Ends`: there are finitely many other critical sections before the link ends
  or everyone sleeps. For the listener it also says that the build system
  writes every name to the fifo in the end, which is its contract
  (`-pipeline`). `ListenerFail` and spurious wake-ups are not fair: they may
  happen, and need not. `Ends` allows a link to go on for ever only if a file
  list names a file twice or wake-ups without a signal never stop.
* `Resolver`, `DeadStrip`, `DylibGraph`: weak fairness of the next-state
  relation. The program is sequential and does not block; it goes on as long
  as it can.
* `ExportTrie`: the same; `ReaderFindsExports` includes that the loop over the
  offsets ends.
* The other modules have no liveness property. Their loops are over lists that
  are fixed when they start.

## 6. What is proved

All proofs are checked down to their leaves; `tlapm` reports no missing proof.

| theorem | says | from |
|---|---|---|
| `InputPipeline_proofs!TypeCorrect` | `Spec => []TypeOK` | `InputAssumption` |
| `AssertHolds` | `Spec => []ScanFinds` | |
| `NothingParsedTwice` | `Spec => []ParsedOnce` | |
| `NoLostWakeup` | `Spec => []MainSleepsForCause` | |
| `NoWorkStranded` | `Spec => []WorkNotStranded` | |
| `NoErrorLost` | `Spec => []ErrorNotLost` | |
| `PipelineImplementsOrder` | `Spec => Implements` | |
| `SymbolTable_proofs!TypeCorrect` | `TableSpec => []TableTypeOK` | `TableAssumption` |
| `AlignmentMet` | `TableSpec => []ContentAligned` | |
| `BestWins` | `TableSpec => []WinnerIsBest` | |
| `ClashesReported` | `TableSpec => []DuplicatesReported` | |
| `LosersDropped` | `TableSpec => []KeptIffSlotted` | `PrivateUnwind` |
| `Resolver_proofs!ResolverTypeCorrect` | `ResolverSpec => [](ResolverTypeOK /\ TableTypeOK)` | `ResolverAssumption` |
| `MembersOnDemand` | `ResolverSpec => LoadedOnDemand` | |
| `AtomsOnce` | `ResolverSpec => []HandedOutOnce` | `NoAbsoluteCommons` |
| `TableImplemented` | `ResolverSpec => ImplementsTable` | `NoAbsoluteCommons` |
| `ResolvedTable` | the four properties above of the table, under `ResolverSpec` | `NoAbsoluteCommons` |
| `AllFound` | `ResolverSpec => []NothingMissed` | |
| `CommonsSearched` | `ResolverSpec => []CommonsOverridden` | |
| `EdgesHold` | `ResolverSpec => []NoDanglingEdges` | `NoAbsoluteCommons`, `PrivateUnwind` |
| `DeadStrip_proofs!StripTypeCorrect` | `DeadStripSpec => []StripTypeOK` | |
| `ReachableOnly` | `DeadStripSpec => []OnlyReachableLive` | |
| `ClosedLive` | `DeadStripSpec => []LiveClosed` | `NothingLate` |
| `DylibGraph_proofs!CyclesRefused` | `Spec => []CyclesAreRefused` | `DylibAssumption` |
| `ShownFound` | `Spec => []ShownIsFound` | |
| `ProvidersOrdered` | `Spec => []ProvidersHaveOrdinalsOrTwins` | |
| `Dedup_proofs!MergingIsRight` | `DedupSpec => []MergedIfAlike` | `DedupAssumption` |
| `Passes_proofs!ComparesStrictly` | `OrderSpec => []OrdersStrictly` | `OrderAssumption` |
| `LegsStayShort` | `IslandSpec => []LegsAreShort` | `IslandAssumption` |
| `BranchesAlwaysReach` | `IslandSpec => []BranchesReach` | `IslandAssumption` |
| `UnwoundFound` | `UnwindSpec => []UnwoundRight` | `UnwindAssumption` |
| `LinkEdit_proofs!StreamsMean` | `StreamSpec => []StreamMeansFixups` | `StreamAssumption`, `InputAssumption` |

The inductive invariant of the pipeline, `IInv`, has these parts:

* `LockInv`: who holds the lock is where the code holds it, and nobody else is;
* `WorkersInv`: `_idleWorkers` counts the workers that wait, and the workers
  not started yet are the last ones;
* `SlotInv`: announced, ready, in work and stored are disjoint, the count of
  ready slots is exact, and no ready slot is before the cursor;
* `MainInv`: what is before the loop variable has been stored, and the main
  thread sleeps only for the file it has named in `_neededFileSlot`;
* `ExceptionInv`: a failure that was met is recorded, and if the main thread
  sleeps while one is, the thread that recorded it still holds the lock and is
  about to leave and wake it.

None of the properties is inductive alone. `ScanFinds` needs the count and the
cursor together: a worker sees a number and must find an index. The existence
of the least such index is the lemma `LeastElementExists`. `NoLostWakeup` needs
to know who still owes the main thread a signal. The refinement is proved from
the same invariant: steps of workers and listener change neither `fileIndex`
nor the outcome, and `MainTake` hands over a file that was stored, hence parsed.

For the table the type invariant is inductive once stated per operation
(`Consistent`, one lemma each). `AlignedInv` adds that a slot of a content that
was added is filled. `BestInv` says of each name that the atom in the slot is
one that was added, or the first to come, and that no other added atom is worth
more. Its step is `PickIsBest`, that the choice between two atoms agrees with
`Worth`, and `NotBeyondTransitive`, that worth is transitive; the clauses of
`Wanted` are needed, for the choice between two weak dylib definitions goes by
arrival.

`DuplicatesReported` rests on `BestInv`: if two real definitions of a name were
added and neither clash was recorded, the slot would have to be worth no more
than either. `KeptIffSlotted` needs `PrivateUnwind`: what goes along with an
atom when it is coalesced away is its unwind information and belongs to it
alone. Alternate entries break this, as `SymbolTableAltEntry.cfg` shows; they
are the reason for the hypothesis.

`Resolver_proofs` builds the invariant `RInv` in layers, each a lemma that the
layers below and one step give it again:

* `RTypeInv`: types, and what phases go with a search or a loop;
* `FilesInv`: a file is unread, read, or handed out, and never two of these;
  so atoms of object files and members come up once;
* `SearchInv`: what a search knows of the libraries it has passed;
* `DylibsInv`: an atom a dylib gave for a name is in the slot, or something
  better is. Here `BestInv` returns: `Wanted` holds because the slot is worth
  less than a proxy, and no step makes a slot worth less.

`TableImplemented` is then a case split: every step of the resolver adds the
atom at the head of `pending`, enters references, or leaves the table alone.
With it `ResolvedTable` gives the resolver what was proved of the table.
`PassInv` carries `NothingMissed`: while a pass goes on, each name that is
undefined and that a library could answer is still in `todo`, or a slot was
made since the pass began; and the loop ends only when no slot was.
`CommonsInv` does the same for `CommonsOverridden` and the second loop of a
pass: after the input only archive members bring common symbols. `EdgesInv`
carries `NoDanglingEdges`: what an atom that was handed out refers to has a
slot, and what is in the slot of a content was handed out or is about to be.

In `DeadStrip_proofs`, `StripInv` says that frames on the stack are for live
atoms and hold a part of their fixups. `ReachInv` (a live atom is reached by
references from a root) is inductive with it; that the references themselves
move, when a slot gets a better atom, is what `NoneReplaced` in the property
excludes. For closure, `FollowInv` says of each live atom that every fixup is
of a live atom, in a frame, or of a name that was given up, and `VisitInv` that
a root is live or still to be visited. The difficulty is a name given up: no
library had it then, and none must have it later.

In `DylibGraph_proofs` the walks along re-exports are recursive functions
without a measure. `FirstWalk` and `SearchExists` give them a value (a fixed
point of a monotone function on sets), `MinimalSet` stands in for induction.
`CycleIsMet` and `MetIsCycle` say that the guard throws for a reader if it is
on a cycle, and only if there is one. `DylibInv` then has four parts:

* `StateOK`: types, and that the rows of dependents are those of the files;
* `CycleInv`: a reader that has been processed has found all it re-exports, one
  that has not has found nothing, and there is no cycle. The guard suffices
  although it looks from one reader only: a cycle is closed by the last of its
  readers to be processed;
* `PassInv`: a pass sees all readers there were when it began, hence all are
  processed when no pass adds one;
* `LinkInv`: what is linked implicitly is searched directly, or is the reader of
  its install name, by which the search and the output find it.

`ShownFound` follows: a set of readers that show a symbol and do not find it
would be a cycle, for a child that is left out of a search is searched itself.

In `Dedup_proofs` the first question is whether the comparison of two functions
has an answer at all. Each question it leads to has a longer chain (`ChainGrows`),
and a chain holds pairs of finitely many functions, so `EqualSolved` follows from
a least counterexample. The answers are then compared with `Alike`, of which only
`AlikeIsGreatest` is used: it is closed under calls and contains each relation that
is. *Soundness* (`AnswerIsSound`): if a comparison says yes and guessed nothing,
the pairs it went through are in a relation whose calls lead to pairs of the
relation or of the chain, in either order (`Linked`). A pair of the chain that is
in the relation itself can be taken from the chain (`LinkedWithout`), so for the
empty chain, with which the pass begins, the relation is closed under calls. *Completeness* (`AnswerIsComplete`): of two
functions that are alike a comparison never says no, whatever is in its chain, if
all functions are auto-hide, for then calls are not part of the hash
(`AlikeHash`). `DedupInv` carries this through the pass: a key and a member of its
group were answered yes (`Grouped`), two keys were answered no (`ToldApart`), and
the section is the functions in their order, with aliases in front of the keys of
groups that have been aliased (`Section`). What is delicate is that inserting the
aliases of one group, and removing the duplicates of all, leaves those of
another group where they were, directly before their key
(`FrontedByInsertion`, `FrontedWithout`). The proof showed that one hypothesis of
`NothingLeftToMerge` was not needed: guesses err on one side only, so that
nothing is left to merge whatever was guessed. The property says so now.

In `Passes_proofs`, a strict weak order is shown by a key. `Before` compares
pairs of an atom, as which one is sorted, and whether it stands for an alias;
it is a strict weak order by what atoms are (`BeforeIsStrict`: a cascade of
comparisons, in which equal addresses of one file are told apart by names). Then
`LessIsBefore` says that among atoms without an ordinal `Less` is `Before` of
their keys, which is where aliases of aliases have to be excluded, and
`LessIsStrict` puts those with an ordinal in front. Of the behaviour only
`OrderInv` is needed: ordinals are numbers, whatever cluster they are given to.

For the islands, `IslandInv` has four parts:

* `RegionsClose`: regions follow one another, the first at most `Between` from
  the start, each at most `Between` from the one before;
* `LoopInv`: while atoms are visited, the place for the next region is within
  `Between` of the last one, and the atoms visited since that place are chained
  to one another, so that `Reasonable` bounds what is behind it;
* `TextCovered`: after the loop, so is the end of the text with its stubs;
* `LegsNear`: what branches and islands hop to is near them.

Here an invariant that was too weak was a finding about the model: `Reasonable`
has to count the gap that aligns the first atom of a run, and no run may go on
in the next section. `LegUp` and `LegDown` show that consecutive regions between
a branch and its target are near each other and the ends, by the extremes of the
set of regions crossed (`Extremes`); an island another branch made is right
because where it leads depends on its region and its target only.
Offsets are a recursive function; that it exists, and ascends, is shown in
`OffsetsRecursion` and `OffsetsAscend` by a least counterexample.

`BranchesAlwaysReach` goes on to the addresses once islands are in. `RouteInv` adds:
a branch that hops goes to a region with an island for its target; from an
island the next hop is such an island too, nearer the target and on the same
side of it; and when the pass is done, the list is the atoms in order, each
region's islands behind the atom the region ends with (`WithIslandsLaid`). So a
branch makes at most as many hops as there are regions (`RouteEnds`), and the
last is to the target. Since `Aligned` is monotone, nothing in that list comes
earlier than it would without islands (`NothingComesEarlier`). A leg that was at
most `Between` long is then at most `Between` and what its end was pushed, which
is `Reach` (`LegInReach`). An earlier form of the antecedent bounded what
islands add to the end of the text only. The proof did not go through, and TLC
found why: the gap that aligns a later atom can absorb islands, so that the end
does not move and a branch in between is too long all the same. The antecedent
now bounds what any element of the list is pushed.

`UnwindInv` has two halves. `TableMade` says that the entries are made of the
program as the code says, from which follows what does not depend on pages:
entries ascend, and each function has one that covers it (`Covers`,
`UniqueCovers`), its own or, by the comparison with the entry before, one that
says the same of all functions up to it; never one with an LSDA or an FDE
(`CompressedStands`, by the least entry nothing stands for). `PagesMade` says that
the pages are one behind the other, that each entry behind `endIndex` is in one,
and that each page tells of its entries what the table does (`PageRight`). A page
that is made keeps this (`NextPageRight`), which is where the two passes over a
compressed page meet: after any number of rounds of the first, each entry it
counted has an encoding among the common ones or the page's own, is near the
last one, and has an index that fits (`Counted`, `CountedOn`). So the second pass
finds an index for it (`IndexLeads`). An entry with an FDE shares its slot with no
other, for the key has its place in it; else the fixups of two would meet in one
slot (`CompressedPageRight`). That at least one entry is counted, so that
`endIndex` falls, needs room for six words. Reading the finished table, the first
level leads to the one page of an entry (`PageFound`), since functions have a
size; offsets in the page are right as long as `LayoutSettles`, for the stored
difference of addresses is then below `DeltaSpan` (`EntryReads`); and the LSDAs of
a page are those between the counts of two consecutive rows (`LsdaFound`).

In `LinkEdit_proofs` the encoder, the rewritings and the machine are all loops
over lists. Each is a recursive function, which `RecursionSolved` solves once for
all: a step that has a value everywhere has a sequence of values, by the least
number for which there were none. A program is then a word between two states of
the machine: `Reaches(r, m, s)` says that `m` leads from `r` to `s`, which is
closed under concatenation. The rest is in three parts.

* *The sort.* `Less` of the keys is a strict total order on the table
  (`LessIsStrict`, `KeyTells`: different entries have different keys, for
  pointers do not overlap and a name has one override). Hence the number of
  smaller entries tells entries apart, and as there are only as many numbers as
  entries, each is taken (`SortedByRank`).
* *The plain program.* What the encoder remembers is what the machine's registers
  hold, as far as entries to come depend on it (`Follows`): the address modulo
  `Space`, the segment with it, and library, symbol, type and addend once they
  have been named. An entry keeps this and puts out one pointer that means it
  (`PointerFollows`), or only names a symbol (`OverrideFollows`). Two things are
  delicate. The encoder of rebases uses address 0 for "forgotten" behind a
  segment, so the registers agree only until then; the next entry names its
  segment, unless it is at 0, where no pointer is. And rebases of one segment have
  one type, so they ascend (`RebasesAscend`), and overrides come before all binds
  of their name (`OverrideFirst`), so the symbol is set where it is needed.
* *The rewritings.* Each replaces pieces of the program, from the front, by
  single operations. If every piece leads where its replacement leads, so does the
  whole (`RewrittenMeans`); what is left is local: a run of single pointers, a
  pointer and a distance, a run of those (`PackedIsGood`, `CombinedIsGood`,
  `CompressedIsGood`), and immediates, whose scaled distances are multiples of
  the pointer size (`ImmediateIs`).

`StreamInv` says that the entries are the table in order, that the program
reaches a state that says the table (`Says`), and that until runs are packed each
`times` is of one pointer; without the last, what `PackRuns` makes of a run would
depend on what was packed before.

`InputOK` is what `addDyldInfo()` can put in a table. Pointers are within
segments and do not overlap; address 0 is the header's; the type of a rebase
follows from its segment (text or data); references by one name were resolved
to one library; a weak definition is overridden once per name.

The hypotheses are there because the statements are false without them, as TLC
shows on small instances:

* `PrivateUnwind`: see above.
* `NoAbsoluteCommons`: with `-commons use_dylibs`, if a name has a weak proxy,
  an absolute definition and a tentative one, the slot goes from the first to
  the second and, when the ordinal of the tentative one is lower, on to the
  third, which is worth less (section 7, `SymbolTable.cpp:402`). The dylib is
  asked for the name once more and its atom is handed out twice.
* `NothingLate`: the table of contents of an archive lists all that its members
  define, and what they ask for by linker options is on the command line. Else
  the walk may give a name up, and load a definition of it afterwards for
  another reason (section 7, `Resolver.cpp:1105`).

Only model-checked:

* All liveness. Liveness under fairness, and `ENABLED`, are out of the prover's
  reach.
* `NeverGrows` and `ReaderFindsExports`: sums over bytes and tries, which are
  inductions over data.
* `LaidOutAsAsked` of `AtomOrder` (how clusters are linked and where they end
  up; its part about the comparison is `OrdersStrictly`, proved),
  `ImageIsMapped`, `EdgesEnclose`, `ReferencesArrive` and `ImageLoads`. They
  compare the result of a whole layout with an independent reading of it.

Where a recursive function could be reasoned about without what it computes, it
was, by its fixed points and by least counterexamples (`DylibGraph`, `Dedup`,
`BranchIslands`, `UnwindInfo`, `OpcodeStream`).

## 7. Observations

Seen while the modules were written and checked, besides the findings. Those
with a configuration in section 4 name it; the others follow from reading the
code, or were seen in a run with an input left out since.

Input and resolution:

* `InputFiles.cpp:1062`: the loop of a worker tests `_remainingInputFiles`
  after its first round, so a worker that was started but gets the lock after
  another has thrown parses one more file; the comment at 1102 speaks of all
  threads stopping. The result is thrown away.
* `InputFiles.cpp:1276`: a comment says to wait for other threads, so that
  global objects are not destructed under them; the code sleeps for a second
  with `_parseLock` held, and a worker may still be in `makeFile()`
  (`InputPipelineExit.cfg`).
* `SymbolTable.h:93`: the set of duplicates compares names by address, so one
  symbol has a list per clash, although `addDuplicateSymbol()`
  (`SymbolTable.cpp:145`) looks for a list of the name to add to. It also
  compares paths, and two members of an archive may have one name, hence one
  path.
* `SymbolTable.cpp:402`: an absolute symbol and a tentative one: the absolute
  one wins if it comes second, the common symbol if that does. With `-commons
  use_dylibs` the second case takes a name back to where a dylib is asked for
  it, and one that has been asked before makes its atom a second time.
* `SymbolTable.cpp:557`: the loss of an alternate entry coalesces the atom it
  was chained to as well (`macho_relocatable_file.cpp:8600` gives both
  follow-ons), though that may hold a slot of its own
  (`SymbolTableAltEntry.cfg`).
* `Resolver.cpp:964`: libraries that linker options ask for are searched in one
  pass; a name that one of their members brings in is not looked up again in
  an earlier archive (`ResolverAutolink.cfg`).
* `Resolver.cpp:949`: hidden common symbols are looked up in archives only if
  there is a global one in the link, since `SymbolTable.cpp:463` sets the flag
  for those.
* `archive_file.cpp:562`: a common symbol of an archive member counts as data,
  so a search for something better than a common symbol may end with another
  one, and a library behind that archive is not asked. `Resolver.cpp:951`: such
  a member may also put a common symbol in the slot of a dylib's atom, after
  the list of common symbols was taken; no slot is made, so there is no other
  pass. `CommonsOverridden` leaves names out that are common in a member.
* `Resolver.cpp:1116`: a member loaded while marking may take the slot of a
  marked atom; it is not marked and gets stripped, although references to the
  name are redirected to it (`DeadStripReplaced.cfg`).
* `Resolver.cpp:1105`: a name that no library has when a live atom refers to it
  is not looked at again. A member loaded later, for another name, may define
  it without its archive listing it, or ask for a library that does; the
  definition is stripped although the reference is bound to it.
* `Resolver.cpp:1204`: roots that `doAtom()` inserts behind the cursor of the
  loop are not marked. An atom that is not to be stripped stays, but what it
  refers to may not.
* `Resolver.cpp:1218`: atoms that are live if they refer to something live are
  visited once, in the order of the files, so a chain of them against this
  order is stripped (`DeadStripLiveIf.cfg`). The loop at 811 may see its vector
  grow.
* `Resolver.cpp:818`: every global atom becomes a root when all globals are
  roots, those of archive members included, while the comment at 815 speaks of
  what is linked directly.
* `ld.hpp:341`: the index of an archive member is 16 bits of its ordinal.

Dylibs:

* `InputFiles.cpp:1186`: a dylib an object file asks for, whose install name
  another one had when it was read, is not among the dylibs of the output; the
  assertion at `OutputFile.cpp:4943` fails if it provides a symbol
  (`DylibGraphTwins.cfg`).
* A library an object file asks for is skipped if a dylib of its path has been
  loaded, even if only indirectly, by a dylib of the old format: it is not
  searched then.
* Two dylibs that re-export each other by paths that are not their install
  names are read for ever. `DylibAssumption` leaves them out, and dylibs of the
  old format that claim to have no re-exports but have re-export commands.

Order and deduplication:

* `ld.cpp:600`: of a chain that is no group of alternate entries, a moved atom
  takes the next one along but not those after it; the tables of starts are then
  wrong for the parts. What holds is `GroupsMoveTogether`.
* Three labels at one address make aliases of aliases, for which the comparison
  is no strict weak order (`Ladders` are exempt in `OrdersStrictly`).
* `N_COLD_FUNC` on a part of a cluster separates it, unless an order file names
  the cluster. `-move_to_rw_segment` of an alias's name moves the alias only,
  and ordering a zero fill atom moves only that atom to `__data`.
* Of an atom listed twice the last entry counts if it is alone, the first if it
  is in a cluster. A label that is no alternate entry, at the address of one,
  is not chained to what comes before.
* Merging the last functions of two sections without subsections leaves the
  atom before with no follow-on.

Islands, unwind information, layout:

* `branch_island.cpp:612`: an island is shared by target and addend, but the
  island itself branches to the target without the addend (`IslandsKeepTarget`
  of `BranchIslands` fails for `MCOffsets`; compare 73, 389 and
  `OutputFile.cpp:1423`).
* With several sections of code the distance is that of offsets in sections;
  only the last section of stubs is counted. In a preload image offsets are
  compared with addresses.
* `compact_unwind.cpp:718`: room for a page is checked one word short, so a
  page may be one word longer than it should be. `functionOffset` of an entry
  is not used, so several unwind entries of one atom all get its start. The
  padding at the end does not align the other pages.
* `ld.cpp:1316`: `segment$start` moved up in front of an aligned section keeps
  the padding, and so does the section: file offset and address differ
  afterwards (`SectionLayoutMoved.cfg`; comments at 1389 and 1399).
* `setLoadCommandsPadding()` has no `break` after the preload case.
* A `-seg_page_size` smaller than the segment alignment makes the contents of
  two segments overlap in the file.
* A final section has the type of the first input section of its name: zero
  fill first and contents later, and the contents are not written.
* `-rename_segment` of `__DATA` with thread local or other zero fill puts these
  in front of other sections of the segment. `__objc_methtype` has the order of
  the last section, so `segment$end` may come before it; more than 256 sections
  do the same to zero fill.
* Overlaps of two fixed segments, or of segments placed after fixed ones with
  others, are not noticed. A static image whose `-segment_order` does not begin
  with `__TEXT` fails an assertion in `sortSections()` (modelled as refused).

  The links of these points are left out of the run `passes`.

References:

* In `ADRP_LDR_GOT_LDR` the range is checked for the target plus an offset, the
  literal is then made for the target: the assertion on 1 MB can fail if the
  GOT lies before the code. In the instances it lies behind.
* `ADRP_ADRP` compares no registers in the second round and does not look
  whether the segment is usable; `usableSegment` uses a target that is NULL if
  there is no fixup; `ADRP_LDR` does not look whether its second part is a
  load. The instances have hints as compilers emit them.
* `got.cpp:336`: the last reference to a symbol decides whether its entry is
  among the weak ones.

Link edit:

* Chained fixups: an assertion on the count of overflow starts stops a link
  whose table has room. The chains of firmware go by offsets in the file and
  may cross segments, their count by addresses. A `__chain_starts` section put
  between pointers makes gaps grow after they were counted. An ordinal too wide
  is cut off (an assertion is in front). Little endian authenticated pointers
  are not counted; the first start of a section at an address below 8192
  is not either.
* Opcodes: `LinkEdit.hpp` resets the address behind a segment for rebases, not
  for binds; a rebase at address 0 would then be taken for the next one (no
  pointer is there, see section 6). "At least two" in the second phase makes two small distances
  longer than they would be as immediates. Segment numbers from 16 on overflow
  the opcode. Addresses in the last segment are not found by `findSegment`. The
  limit of binds in version 2 lets the ordinal 65536 through.
* `OutputFile.cpp:5636` and the sort in `OutputFile.h:137`: if object files
  disagree on whether a symbol may be missing, all binds of it are weak;
  `ld.1:760` says that the default is non-weak (`OpcodeMismatch.cfg`).
* Entries of re-exported symbols in a trie are sorted by an address that is
  never set, so their order may be any; the model takes every order.

## 8. What is not modelled, and why

The map covers the linker's decisions; most lines of the repository are
something else: parsers of formats and options, accessors, classes for each
architecture, tools that print, vendored code. These convert data in one pass;
a model of them would be the code again.

* The object file parser: relocations, debug information, literals and unwind
  sections. What the order pass needs of it is in `AtomOrder`.
* Options, snapshot, code signature, the file format abstractions, the tools
  (but for the readers of opcodes and unwind tables), libtapi, the third-party
  helpers, the Blocks runtime and mman for Windows: conversions, file
  operations and copies.
* Link time optimization: the second round of the resolver depends on what
  libLTO answers, which is outside the repository. See the plan. So
  `removeDeadAtoms()` of the symbol table, which empties slots between the two
  rounds, is left out of `SymbolTable`, and nothing is claimed of it.
* In `Resolver`: boundary symbols (`section$start$...`), aliases, `-U` and
  dynamic lookup proxies, export and re-export lists, `-force_load` and
  `-ObjC`: they add or mark atoms by a local rule. Libraries that object files
  ask for are archives in the instances.
* The table of contents of an archive is a function from names to members, as
  the hash table keeps one entry per name.
* In `DylibGraph`: load commands and text stubs, platforms, allowable clients,
  versions.
* In `AtomOrder`: order files that name an architecture or an object file, the
  section start and end atoms, FDEs that break a function, moves for read-only
  and authenticated data.
* In `Dedup`: collisions of hashes. In `BranchIslands`: shims, the exception
  that makes an ARM branch direct if it is in range, islands of preload images
  that lead to another section, more than one section of code.
* In `SectionLayout`: object files (`-r`), dyld and kernel variants,
  `-page_align_data_atoms`, absolute symbols, a section renamed twice, the page
  sizes of old systems.
* In `CodeReferences`: stubs of other architectures, lazy binding helpers, weak
  imports, arm64e and arm64_32, addends in page fixups, the other kinds of
  fixups of `applyFixUps()`.
* In `OpcodeStream`: threaded binds, split segment information, function
  starts, data in code, classic relocations and symbol tables. In
  `ExportTrie`: an order file, checks for malformed tries.
* Memory: the depth of the recursion of `markLive()`, the width of integers
  beyond the fields that a format limits.

## 9. Plan

The modules of section 2 are checked, with the theorems of section 6. What could
come next, by what it would say:

1. `ChainedFixups`: no two pointers share a link, from the order of locations.
2. `SectionLayout`: segments do not overlap after `PlaceOtherSegments`, and
   sections of a segment follow one another.
3. `AtomOrder`: a group of alternate entries is moved as a whole.
4. Link time optimization as a second round of `DeadStrip`, with libLTO's
   answers as a choice.
