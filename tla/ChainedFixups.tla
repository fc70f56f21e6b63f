--------------------------- MODULE ChainedFixups ---------------------------
(***************************************************************************)
(* Chained fixups: how the pointers of the output that the loader has to   *)
(* rebase or bind are strung together inside the data itself, each one     *)
(* holding the distance to the next, and how the import table says what    *)
(* the bound ones are bound to.                                            *)
(*                                                                         *)
(* Memory is an array of slots, one for each stride of the pointer format  *)
(* (4 bytes, 8 for arm64e).  The widths of the fields are CONSTANTS, small *)
(* in the runs; the comment at each says what the code has.                *)
(*                                                                         *)
(*   ptr32     5 bits of distance: where two pointers are too far apart    *)
(*             the words between them that are not pointers are made part  *)
(*             of the chain, or the page gets one more start               *)
(*   ptr64     the distance reaches across a page; addends to 255 inline   *)
(*   arm64e    the same, and authenticated pointers without an addend      *)
(*   firmware  no pages: one list of starts in a section whose size the    *)
(*             thread_starts pass worked out before the layout             *)
(***************************************************************************)
EXTENDS Integers, FiniteSets, Sequences, SequencesExt, FiniteSetsExt

CONSTANTS
    Images,          \* the images to link, see ImageOK
    PageSlots,       \* slots on a page (segment alignment / stride)
    Reach,           \* farthest ptr32 distance in slots (31)
    FirmwareReach,   \* farthest firmware distance in slots (63)
    MaxTarget,       \* 2^26, the range of a 26-bit target
    InlineMax,       \* format -> greatest addend in the pointer (63, 255, 2^18-1)
    ColumnFree,      \* greatest addend thought not to need a column (255)
    StartsPerPage,   \* entries for each page of a ptr32 table (20)
    SharedStartsPerPage  \* the same, if in the shared region (128)

Formats == {"ptr32", "ptr64", "arm64e", "firmware"}

Targets(i) == DOMAIN i.target
Slots(i)   == Targets(i) \cup DOMAIN i.data

\* an image: segments of whole pages, pointers and other words in them
ImageOK(i) ==
    /\ i.format \in Formats /\ i.shared \in BOOLEAN
    /\ Slots(i) = UNION {i.segs[g].first .. i.segs[g].last : g \in DOMAIN i.segs}
    /\ \A s \in Targets(i) : IF i.target[s].bind THEN i.format # "firmware"
                                               ELSE i.target[s].to \in 0 .. i.maxRebase - 1
    /\ Targets(i) \cap DOMAIN i.data = {}
    /\ i.maxRebase < MaxTarget

ASSUME ImageAssumption == \A i \in Images : ImageOK(i)
ASSUME ReachAssumption == /\ Reach \in Nat \ {0} /\ FirmwareReach \in Nat \ {0}
                          /\ PageSlots \in Nat \ {0}

VARIABLES
    image,      \* the input
    stage,      \* what comes next, see ChainsTypeOK
    reserved,   \* starts that the __chain_starts section has room for
    pages,      \* _chainedFixupSegments: for each segment its pages
    binds,      \* _chainedFixupBinds
    imports,    \* the import table of the encoded atom
    starts,     \* the page_start table of each segment; or the list of starts
    words,      \* the output buffer
    cursor      \* where the chaining is: segment, page, fixup; next overflow slot

chainVars == <<image, stage, reserved, pages, binds, imports, starts, words, cursor>>

-----------------------------------------------------------------------------
(* Words of the buffer. *)

Data(v)             == [kind |-> "data", value |-> v]
Rebase(next, to)    == [kind |-> "rebase", next |-> next, target |-> to]
BindTo(next, n, a)  == [kind |-> "bind", next |-> next, ordinal |-> n, addend |-> a]

\* the word read as a signed 32-bit number: "bind" is the top bit
AsInt(w) == CASE w.kind = "data"   -> w.value
              [] w.kind = "rebase" -> w.target + w.next * MaxTarget
              [] w.kind = "bind"   -> - MaxTarget * (Reach + 1) + w.next * MaxTarget

Ascending(S) == [n \in 1 .. Cardinality(S) |->
                    CHOOSE s \in S : Cardinality({t \in S : t < s}) = n - 1]
SegsOf(i)    == DOMAIN i.segs
In(i, g)     == {s \in Targets(i) : s \in i.segs[g].first .. i.segs[g].last}
PageStart(i, g, p) == i.segs[g].first + (p - 1) * PageSlots

-----------------------------------------------------------------------------
(* The thread_starts pass: how many starts firmware will need at most.     *)

\* a segment starts a chain, and so does every gap that is too long
CountChains(i) ==
    Cardinality({s \in Targets(i) :
        \E g \in SegsOf(i) :
            /\ s \in In(i, g)
            /\ \A t \in In(i, g) : t < s => s - t > FirmwareReach})

Count ==
    /\ stage = "count"
    /\ reserved' = IF image.format = "firmware" THEN CountChains(image) ELSE 0
    /\ stage' = "build"
    /\ UNCHANGED <<image, pages, binds, imports, starts, words, cursor>>

-----------------------------------------------------------------------------
(* buildChainedFixupInfo: the fixups of each page and the bound targets.   *)

\* addends are unsigned 64-bit numbers: one below zero is a huge one
ChainedFixupBindAddendFitsInline(a, format) ==
    IF format = "arm64e" THEN a \in -InlineMax[format] - 1 .. InlineMax[format]
                         ELSE a \in 0 .. InlineMax[format]

\* what of the addend goes into the pointer and what into the import table
InlineAddend(t) == IF ~t.auth /\ ChainedFixupBindAddendFitsInline(t.addend, image.format)
                   THEN t.addend ELSE 0
TableEntry(t)   == [sym |-> t.sym, addend |-> t.addend - InlineAddend(t)]

EnsureTarget(b, t) ==
    LET entry == TableEntry(t)
        wide  == /\ entry.addend # 0
                 /\ \/ t.auth
                    \/ entry.addend > ColumnFree
                    \/ entry.addend < 0
    IN  IF Contains(b.targets, entry) THEN b
        ELSE [targets |-> Append(b.targets, entry), wide |-> b.wide \/ wide]

BindTargets(i) ==
    LET bound == Ascending({s \in Targets(i) : i.target[s].bind})
    IN  FoldLeft(LAMBDA b, s : EnsureTarget(b, i.target[s]),
                 [targets |-> <<>>, wide |-> FALSE], bound)

PageOf(i, g, s) == (s - i.segs[g].first) \div PageSlots + 1

\* pages are added up to the one of the last fixup
PagesOf(i, g) ==
    LET last == IF In(i, g) = {} THEN 0 ELSE PageOf(i, g, Max(In(i, g)))
    IN  [p \in 1 .. last |->
            [offsets   |-> Ascending({s - PageStart(i, g, p) :
                                        s \in {x \in In(i, g) : PageOf(i, g, x) = p}}),
             overflows |-> <<>>]]

BuildChainedFixupInfo ==
    /\ stage = "build"
    /\ pages' = [g \in SegsOf(image) |-> PagesOf(image, g)]
    /\ binds' = BindTargets(image)
    /\ stage' = IF image.format = "firmware" THEN "write" ELSE "encode"
    /\ UNCHANGED <<image, reserved, imports, starts, words, cursor>>

-----------------------------------------------------------------------------
(* ChainedInfoAtom::encode: the tables of starts and of imports.           *)

\* an entry of page_start: 16 bits, the top one marking lists and their ends
Entry(mark, value) == [mark |-> mark, value |-> value]
StartNone          == Entry(TRUE, -1)

PerPage == CASE image.format # "ptr32" -> 1
             [] image.shared           -> SharedStartsPerPage
             [] OTHER                  -> StartsPerPage

StartsTable(pgs) ==
    [n \in 0 .. Len(pgs) * PerPage - 1 |->
        IF n >= Len(pgs) THEN Entry(FALSE, 0)
        ELSE IF pgs[n + 1].offsets = <<>> THEN StartNone
        ELSE Entry(FALSE, Head(pgs[n + 1].offsets))]

\* DYLD_CHAINED_IMPORT has no column for addends
ImportTable(b) ==
    [n \in DOMAIN b.targets |->
        [b.targets[n] EXCEPT !.addend = IF b.wide THEN @ ELSE 0]]

EncodeChainedInfo ==
    /\ stage = "encode"
    /\ starts' = [g \in DOMAIN pages |-> StartsTable(pages[g])]
    /\ imports' = ImportTable(binds)
    /\ stage' = "write"
    /\ UNCHANGED <<image, reserved, pages, binds, words, cursor>>

-----------------------------------------------------------------------------
(* writeAtoms: applyFixUps puts each target in its place, unchained.       *)

Ordinal(t) == SelectInSeq(binds.targets, LAMBDA e : e = TableEntry(t))

SetFixup(t) == IF t.bind THEN BindTo(0, Ordinal(t), InlineAddend(t))
                         ELSE Rebase(0, t.to)

FirstCursor == [seg |-> 1, page |-> 1, k |-> 1,
                slot |-> IF pages = <<>> THEN 0 ELSE Len(pages[1])]

ApplyFixUps ==
    /\ stage = "write"
    /\ words' = [s \in Slots(image) |->
                    IF s \in Targets(image) THEN SetFixup(image.target[s])
                                            ELSE Data(image.data[s])]
    /\ cursor' = FirstCursor
    /\ stage' = IF image.format = "firmware" THEN "firmware" ELSE "chain"
    /\ UNCHANGED <<image, reserved, pages, binds, imports, starts>>

-----------------------------------------------------------------------------
(* Chaining the fixups of a page.                                          *)

Page == pages[cursor.seg][cursor.page]
Loc(k) == PageStart(image, cursor.seg, cursor.page) + Page.offsets[k]

Range32 == (MaxTarget - image.maxRebase) \div 2
Bias    == (MaxTarget + image.maxRebase) \div 2

\* the farthest word in reach that a 26-bit target can express, or 0
FarthestChainableLocation(s) ==
    Max({0} \cup {p \in s + 1 .. s + Reach :
                    AsInt(words[p]) < Range32 /\ AsInt(words[p]) > - Range32})

\* the words a chain from prev takes to get near final; <<>> if it cannot
ChainPath(prev, final) ==
    LET endZone == final - Reach
        path[p \in prev .. final] ==
            IF p >= endZone THEN <<p>>
            ELSE LET q == FarthestChainableLocation(p)
                     rest == IF q = 0 THEN <<>> ELSE path[q]
                 IN  IF rest = <<>> THEN <<>> ELSE <<p>> \o rest
    IN  path[prev]

\* the words along a path with the words taken for it turned into pointers
Chained(path, final) ==
    LET hops == Append(path, final)
        NextOf(s) == LET n == SelectInSeq(path, LAMBDA p : p = s)
                     IN  hops[n + 1] - s
    IN  [s \in DOMAIN words |->
            CASE s = path[1]          -> [words[s] EXCEPT !.next = NextOf(s)]
              [] s \in ToSet(Tail(path)) -> Rebase(NextOf(s), (AsInt(words[s]) + Bias) % MaxTarget)
              [] OTHER                -> words[s]]

\* a new start for the page
AddOverflow(final) ==
    pages' = [pages EXCEPT ![cursor.seg][cursor.page].overflows =
                Append(@, final - PageStart(image, cursor.seg, cursor.page))]

Chain32bitPointers(prev, final) ==
    LET path == ChainPath(prev, final)
    IN  IF final - prev <= Reach
        THEN /\ words' = [words EXCEPT ![prev].next = final - prev]
             /\ UNCHANGED pages
        ELSE IF ~image.shared /\ path # <<>>
        THEN /\ words' = Chained(path, final)
             /\ UNCHANGED pages
        ELSE /\ AddOverflow(final)
             /\ UNCHANGED words

\* link the next fixup of the page to the one before it
ChainFixup ==
    /\ stage = "chain"
    /\ cursor.seg \in DOMAIN pages /\ cursor.page \in DOMAIN pages[cursor.seg]
    /\ cursor.k < Len(Page.offsets)
    /\ IF image.format = "ptr32"
       THEN Chain32bitPointers(Loc(cursor.k), Loc(cursor.k + 1))
       ELSE /\ words' = [words EXCEPT ![Loc(cursor.k)].next = Loc(cursor.k + 1) - Loc(cursor.k)]
            /\ UNCHANGED pages
    /\ cursor' = [cursor EXCEPT !.k = @ + 1]
    /\ UNCHANGED <<image, stage, reserved, binds, imports, starts>>

\* the table of the segment with the list of starts of the page written from
\* slot on; what is written past the table's end is not lost but somewhere else
WithOverflows(table, slot) ==
    LET p == cursor.page - 1
        list == <<table[p]>> \o [n \in DOMAIN Page.overflows |->
                                    Entry(n = Len(Page.overflows), Page.overflows[n])]
    IN  [n \in DOMAIN table \cup (slot .. slot + Len(list) - 1) |->
            CASE n = p -> Entry(TRUE, slot)
              [] n \in slot .. slot + Len(list) - 1 -> list[n - slot + 1]
              [] OTHER -> table[n]]

\* mutant: the copy of the first start is not counted
NextSlotFirstForgotten == cursor.slot + Len(Page.overflows)

NextSlot == IF Page.overflows = <<>> THEN cursor.slot
                                     ELSE cursor.slot + Len(Page.overflows) + 1

\* the number the assertion compares the next slot with
MaxOverflowCount == Len(pages[cursor.seg]) * PerPage - Len(pages[cursor.seg])

FinishPage ==
    /\ stage = "chain"
    /\ cursor.seg \in DOMAIN pages /\ cursor.page \in DOMAIN pages[cursor.seg]
    /\ cursor.k >= Len(Page.offsets)
    /\ starts' = IF Page.overflows = <<>> THEN starts
                 ELSE [starts EXCEPT ![cursor.seg] = WithOverflows(@, cursor.slot)]
    /\ stage' = IF Page.overflows # <<>> /\ NextSlot > MaxOverflowCount
                THEN "aborted" ELSE "chain"
    /\ cursor' = [cursor EXCEPT !.page = @ + 1, !.k = 1, !.slot = NextSlot]
    /\ UNCHANGED <<image, reserved, pages, binds, imports, words>>

FinishSegment ==
    /\ stage = "chain"
    /\ cursor.seg \in DOMAIN pages /\ cursor.page \notin DOMAIN pages[cursor.seg]
    /\ cursor' = [seg |-> cursor.seg + 1, page |-> 1, k |-> 1,
                  slot |-> IF cursor.seg = Len(pages) THEN 0 ELSE Len(pages[cursor.seg + 1])]
    /\ stage' = IF cursor.seg = Len(pages) THEN "done" ELSE "chain"
    /\ UNCHANGED <<image, reserved, pages, binds, imports, starts, words>>

-----------------------------------------------------------------------------
(* Chaining firmware: as long as possible, across pages and segments.      *)

AllFixups == Ascending(Targets(image))

ChainFirmware ==
    /\ stage = "firmware"
    /\ cursor.k <= Len(AllFixups)
    /\ LET loc == AllFixups[cursor.k] IN
       IF cursor.k > 1 /\ loc - AllFixups[cursor.k - 1] <= FirmwareReach
       THEN /\ words' = [words EXCEPT ![AllFixups[cursor.k - 1]].next =
                            loc - AllFixups[cursor.k - 1]]
            /\ UNCHANGED starts
       ELSE /\ starts' = Append(starts, loc)
            /\ UNCHANGED words
    /\ cursor' = [cursor EXCEPT !.k = @ + 1]
    /\ UNCHANGED <<image, stage, reserved, pages, binds, imports>>

\* "pre-computed __chain_starts section too small" ends the link
WriteChainStarts ==
    /\ stage = "firmware"
    /\ cursor.k > Len(AllFixups)
    /\ stage' = IF reserved < Len(starts) THEN "too small" ELSE "done"
    /\ UNCHANGED <<image, reserved, pages, binds, imports, starts, words, cursor>>

-----------------------------------------------------------------------------

ChainsInit ==
    /\ image \in Images
    /\ stage = "count"
    /\ reserved = 0
    /\ pages = <<>>
    /\ binds = [targets |-> <<>>, wide |-> FALSE]
    /\ imports = <<>>
    /\ starts = <<>>
    /\ words = [s \in Slots(image) |-> Data(0)]
    /\ cursor = [seg |-> 1, page |-> 1, k |-> 1, slot |-> 0]

ChainsNext ==
    \/ Count \/ BuildChainedFixupInfo \/ EncodeChainedInfo \/ ApplyFixUps
    \/ ChainFixup \/ FinishPage \/ FinishSegment
    \/ ChainFirmware \/ WriteChainStarts

ChainsSpec == ChainsInit /\ [][ChainsNext]_chainVars
-----------------------------------------------------------------------------
(* What the loader does with the result.  It follows the chain of every    *)
(* start, tells the words taken for the chain from rebased pointers by     *)
(* max_valid_pointer, and looks bound symbols up in the import table.      *)

\* the slots of the chain that starts at s, to the first that is no pointer
ChainFrom(s) ==
    LET chain[p \in Int] ==
            IF p \notin Slots(image) \/ words[p].kind = "data" \/ words[p].next = 0
            THEN <<p>> ELSE <<p>> \o chain[p + words[p].next]
    IN  chain[s]

\* the offsets listed from entry n of a table on
ListFrom(table, n) ==
    LET list[m \in DOMAIN table] ==
            IF table[m].mark \/ m + 1 \notin DOMAIN table
            THEN <<table[m].value>> ELSE <<table[m].value>> \o list[m + 1]
    IN  IF n \in DOMAIN table THEN list[n] ELSE <<>>

StartsOfPage(g, p) ==
    LET entry == starts[g][p - 1]
        offs  == CASE entry = StartNone -> <<>>
                   [] ~entry.mark      -> <<entry.value>>
                   [] OTHER            -> ListFrom(starts[g], entry.value)
    IN  [n \in DOMAIN offs |-> PageStart(image, g, p) + offs[n]]

AllStarts ==
    IF image.format = "firmware" THEN starts
    ELSE FlattenSeq([g \in DOMAIN pages |->
             FlattenSeq([p \in DOMAIN pages[g] |-> StartsOfPage(g, p)])])

Visited == FlattenSeq([n \in DOMAIN AllStarts |-> ChainFrom(AllStarts[n])])

IsPointer(w) == w.kind = "bind" \/ w.target <= image.maxRebase

\* a word that was never made a pointer is taken for one of nonsense
Loaded(w) ==
    CASE w.kind = "data"  -> [nonsense |-> w.value]
      [] w.kind = "bind"  -> [bind |-> TRUE, sym |-> imports[w.ordinal].sym,
                              addend |-> imports[w.ordinal].addend + w.addend]
      [] IsPointer(w)     -> [bind |-> FALSE, to |-> w.target]
      [] OTHER            -> Data(w.target - Bias)

Wanted(t) == IF t.bind THEN [bind |-> TRUE, sym |-> t.sym, addend |-> t.addend]
                       ELSE [bind |-> FALSE, to |-> t.to]

-----------------------------------------------------------------------------
(* Properties. *)

\* The stages, and the shape of the tables the chaining works on.
ChainsTypeOK ==
    /\ stage \in {"count", "build", "encode", "write", "chain", "firmware",
                  "aborted", "too small", "done"}
    /\ reserved \in Nat
    /\ DOMAIN words = Slots(image)
    /\ \A s \in DOMAIN words : words[s].kind \in {"data", "rebase", "bind"}
    /\ \A g \in DOMAIN pages : \A p \in DOMAIN pages[g] :
           ToSet(pages[g][p].offsets) \subseteq 0 .. PageSlots - 1
    /\ cursor.k \in Nat \ {0} /\ cursor.slot \in Nat

\* The loader comes past every pointer once: never past none, which would
\* leave it unslid, and never past one twice, which would slide it twice
\* (chain32bitPointers, and the lists of starts in writeAtoms).
EachPointerOnce ==
    stage = "done" =>
        LET seen == Visited
        IN  \A s \in Targets(image) : Cardinality({n \in DOMAIN seen : seen[n] = s}) = 1

\* A word that was taken to bridge a gap has its value back when the loader
\* is done with it, and no other word was touched (the bias of chain32bitPointers
\* and the range of farthestChainableLocation).
DataRestored ==
    stage = "done" =>
        LET seen == ToSet(Visited)
        IN  \A s \in DOMAIN image.data :
                IF s \in seen THEN Loaded(words[s]) = Data(image.data[s])
                              ELSE words[s] = Data(image.data[s])

\* Every pointer ends up where its fixup said: the bound ones at their symbol
\* with all of their addend, whether it was put into the pointer or into the
\* table (needsBind, ensureTarget, ordinal and ChainedInfoAtom::encode agree).
PointersArrive ==
    stage = "done" =>
        \A s \in Targets(image) : Loaded(words[s]) = Wanted(image.target[s])

\* The lists of starts stay inside the room that the table was given before
\* the chains were known, or the link stops (the guess of 40 bytes a page).
StartsStayInTable ==
    stage = "done" /\ image.format # "firmware" =>
        \A g \in DOMAIN pages : DOMAIN starts[g] = 0 .. Len(pages[g]) * PerPage - 1

\* The section that the thread_starts pass sized has room for all the starts
\* that chaining comes to (countChains against the loop of writeAtoms).
ReservedIsEnough == stage # "too small"

\* Tables that are sized before the chains are known are large enough.
TablesFit == StartsStayInTable /\ ReservedIsEnough

\* A loader that follows the chains rebases and binds what it should, where it
\* should, and leaves everything else as it was.
ImageLoads == ChainsTypeOK /\ EachPointerOnce /\ DataRestored /\ PointersArrive /\ TablesFit
=============================================================================
