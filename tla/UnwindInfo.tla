----------------------------- MODULE UnwindInfo -----------------------------
(***************************************************************************)
(* The table of compact unwind information.  For each function it says how *)
(* to unwind its frames: by an encoding, or by an FDE in __eh_frame.  It   *)
(* has two levels: an index of pages, and pages of entries by address, a   *)
(* compressed page with indexes of encodings, which are common to all      *)
(* pages or the page's own, or a regular page.  Pages are made from the    *)
(* end of the table to its start.                                          *)
(*                                                                         *)
(* Sizes are in words.  Addresses are known only as they would be if there *)
(* were no sections; the layout may move functions apart by some more.     *)
(***************************************************************************)
EXTENDS Integers, Sequences, FiniteSets

CONSTANTS
    UnwindInputs,  \* the programs considered
    PageWords,     \* words of a page
    MinLastPage,   \* the last page is not made smaller than this
    MaxCommon,     \* how many encodings may be common
    MaxIndex,      \* the greatest index of an encoding
    MaxDelta,      \* how far functions of one page may be apart before layout
    DeltaSpan,     \* offsets in a page are stored modulo this
    MaxPersonalities

Nothing == 0   \* no personality routine
NoEncoding == [mode |-> "none", saved |-> 0, personality |-> 0]

\* An atom with its unwind information: an encoding and what goes with it
UnwoundRecords ==
    [size : Nat, code : BOOLEAN,
     unwind : BOOLEAN,                               \* beginUnwind() # endUnwind()
     mode : {"none", "frame", "stackInd", "dwarf"},
     saved : Nat,                                    \* the rest of the encoding
     fde : BOOLEAN, lsda : BOOLEAN,
     personality : Nat,
     gap : Nat]                                      \* what layout adds in front

ASSUME UnwindAssumption ==
    /\ {PageWords, MinLastPage, MaxCommon, MaxIndex, MaxDelta, DeltaSpan, MaxPersonalities}
          \subseteq Nat
    /\ 6 <= MinLastPage /\ MinLastPage <= PageWords /\ MaxCommon <= MaxIndex
    /\ \A p \in UnwindInputs :
          /\ p.atoms \in Seq(UnwoundRecords) /\ p.ehFrame \in Nat
          /\ \A a \in DOMAIN p.atoms :
                /\ p.atoms[a].mode = "dwarf" => p.atoms[a].fde
                /\ p.atoms[a].unwind => p.atoms[a].size > 0

VARIABLES
    program,    \* the atoms in the order of the sections; never changes
    making,     \* "entries", "pages", "index" or "made"
    unique,     \* uniqueEntries
    common,     \* commonEncodings, in the order of their indexes
    endIndex,   \* what is before this entry is not in a page yet
    room,       \* pageSize
    pageList,   \* the pages made, in the order of the addresses
    firstLevel, \* the first level index: first function, first LSDA of a page
    tooMany     \* "too many personality routines"

unwindVars == <<program, making, unique, common, endIndex, room, pageList, firstLevel, tooMany>>

Code(a) == program.atoms[a]

\* The sums of the first numbers of a sequence
Sums(numbers) ==
    LET sum[k \in 0..Len(numbers)] == IF k = 0 THEN 0 ELSE sum[k - 1] + numbers[k]
    IN  sum

Gaps == Sums([a \in DOMAIN program.atoms |-> Code(a).gap])

TentAddress(a) == Sums([b \in DOMAIN program.atoms |-> Code(b).size])[a - 1]
Address(a) == TentAddress(a) + Gaps[a]

\* The members of a finite set by an order, a set of pairs
Ranked(S, order) ==
    LET rank == [e \in S |-> Cardinality({f \in S : <<f, e>> \in order})]
    IN  [n \in 1..Cardinality(S) |-> CHOOSE e \in S : rank[e] = n - 1]

Ascending(S) == Ranked(S, {p \in S \X S : p[1] < p[2]})

-----------------------------------------------------------------------------
(* The entries.                                                            *)

\* getAllUnwindInfos(): code without unwind information says so.
Listed(a) == Code(a).unwind \/ (Code(a).code /\ Code(a).size # 0)

EntryFor(a) ==
    [func |-> a,
     encoding |-> IF Code(a).unwind
                  THEN [mode |-> Code(a).mode, saved |-> Code(a).saved, personality |-> 0]
                  ELSE NoEncoding,
     lsda |-> Code(a).unwind /\ Code(a).lsda,
     personality |-> IF Code(a).unwind THEN Code(a).personality ELSE Nothing]

AllEntries ==
    LET funcs == Ascending({a \in DOMAIN program.atoms : Listed(a)})
    IN  [i \in DOMAIN funcs |-> EntryFor(funcs[i])]

UsesDwarf(e) == e.mode = "dwarf"
CannotBeMerged(e) == e.mode = "stackInd"

\* compressDuplicates(): an entry like the one before it
SameAsLast(entries, i) ==
    /\ i > 1
    /\ ~ UsesDwarf(entries[i].encoding) /\ ~ CannotBeMerged(entries[i].encoding)
    /\ entries[i].encoding = entries[i - 1].encoding
    /\ entries[i].personality = entries[i - 1].personality
    /\ ~ entries[i].lsda /\ ~ entries[i - 1].lsda

Compressed(entries) ==
    LET kept == Ascending({i \in DOMAIN entries : ~ SameAsLast(entries, i)})
    IN  [n \in DOMAIN kept |-> entries[kept[n]]]

\* makePersonalityIndexes(): the routines in the order of their first use
PersonalitiesOf(entries) ==
    LET first == Ascending({i \in DOMAIN entries :
                               /\ entries[i].personality # Nothing
                               /\ \A j \in 1..(i - 1) :
                                     entries[j].personality # entries[i].personality})
    IN  [n \in DOMAIN first |-> entries[first[n]].personality]

PersonalityIndex(list, p) == IF p = Nothing THEN 0 ELSE CHOOSE n \in DOMAIN list : list[n] = p

WithPersonalities(entries) ==
    LET list == PersonalitiesOf(entries)
    IN  [i \in DOMAIN entries |->
            [entries[i] EXCEPT !.encoding.personality =
                                   PersonalityIndex(list, entries[i].personality)]]

\* Encodings as numbers, by which the map is ordered
ModeRank == [none |-> 0, frame |-> 1, stackInd |-> 2, dwarf |-> 3]
Precedes(e, f) ==
    \/ e.personality < f.personality
    \/ e.personality = f.personality /\ ModeRank[e.mode] < ModeRank[f.mode]
    \/ e.personality = f.personality /\ e.mode = f.mode /\ e.saved < f.saved

\* findCommonEncoding(): encodings used more than once, the most used first,
\* and no more than MaxCommon; never those for dwarf
FindCommonEncoding(entries) ==
    LET uses(e) == Cardinality({i \in DOMAIN entries : entries[i].encoding = e})
        often == {e \in {entries[i].encoding : i \in DOMAIN entries} :
                     ~ UsesDwarf(e) /\ uses(e) > 1}
        all == Ranked(often, {p \in often \X often :
                                 \/ uses(p[1]) > uses(p[2])
                                 \/ uses(p[1]) = uses(p[2]) /\ Precedes(p[1], p[2])})
    IN  SubSeq(all, 1, IF Len(all) < MaxCommon THEN Len(all) ELSE MaxCommon)

-----------------------------------------------------------------------------
(* Pages.                                                                  *)

CompressedHeader == 3
RegularHeader == 2
RegularEntry == 2

\* For a mutant: functions with an FDE share an encoding of the page.
OwnEncodingShared(e, i) == [encoding |-> e, of |-> 0]

\* The key of an encoding among those of a page: one of its own for an entry
\* that has an FDE, since the encoding holds where the FDE is
OwnEncoding(e, i) == [encoding |-> e, of |-> IF UsesDwarf(e) THEN i ELSE 0]

Among(e, list) == \E n \in DOMAIN list : list[n] = e

\* A round of the first pass of makeCompressedSecondLevelPage(): own are the
\* encodings of the page by their indexes, which may be left there by an entry
\* that is not counted after all.
CountOne(c, end) ==
    LET e == unique[c.index]
        key == OwnEncoding(e.encoding, c.index)
        new == ~ Among(e.encoding, common) /\ ~ Among(key, c.own)
        indexFree == Len(common) + Len(c.own) <= MaxIndex
        own == IF new /\ indexFree THEN Append(c.own, key) ELSE c.own
        near == TentAddress(unique[end].func) - TentAddress(e.func) <= MaxDelta
        full == Len(own) + c.count > room - CompressedHeader
        ok == (new => indexFree) /\ near /\ ~ full
    IN  IF ~ c.canDo THEN c
        ELSE [own |-> own, index |-> c.index - 1, canDo |-> ok,
              count |-> IF full THEN c.count - 1 ELSE IF ok THEN c.count + 1 ELSE c.count]

\* The first pass: entries are counted from end down.
CountFrom(end) ==
    LET after[k \in 0..end] ==
          IF k = 0 THEN [own |-> <<>>, count |-> 0, index |-> end, canDo |-> TRUE]
          ELSE CountOne(after[k - 1], end)
    IN  after[end]

Used(c) == CompressedHeader + Len(c.own) + c.count
RegularEntries == (room - RegularHeader) \div RegularEntry

\* A regular page is better when there is room left, and it would hold more.
RegularIsBetter(c) == Used(c) < room - 1 /\ c.index > 0 /\ c.count < RegularEntries

\* Functions as addresses, from the first one of the page
RegularPage(end) ==
    LET count == IF end > RegularEntries THEN RegularEntries ELSE end
    IN  [kind |-> "regular", from |-> end - count, to |-> end,
         words |-> RegularHeader + RegularEntry * count,
         entries |-> [n \in 1..count |->
                        LET e == unique[end - count + n]
                        IN  [func |-> e.func, encoding |-> e.encoding,
                             fde |-> IF UsesDwarf(e.encoding) THEN e.func ELSE 0]],
         own |-> <<>>]

\* The index of an entry's encoding: common ones first
EncodingIndex(own, i) ==
    LET e == unique[i].encoding
    IN  IF ~ UsesDwarf(e) /\ Among(e, common)
        THEN CHOOSE n \in DOMAIN common : common[n] = e
        ELSE Len(common) + (CHOOSE n \in DOMAIN own : own[n] = OwnEncoding(e, i))

\* The second pass: what is stored, and a fixup in the page's encodings for
\* each FDE, the last of which stays
CompressedPage(end, c) ==
    LET from == end - c.count
    IN  [kind |-> "compressed", from |-> from, to |-> end,
         words |-> Used(c) + IF Used(c) = room - 1 THEN 1 ELSE 0,
         entries |-> [n \in 1..c.count |->
                        [delta |-> (Address(unique[from + n].func)
                                      - Address(unique[from + 1].func)) % DeltaSpan,
                         index |-> EncodingIndex(c.own, from + n)]],
         own |-> [n \in DOMAIN c.own |->
                    [encoding |-> c.own[n].encoding,
                     fde |-> LET at == {i \in (from + 1)..end :
                                          /\ UsesDwarf(unique[i].encoding)
                                          /\ EncodingIndex(c.own, i) = Len(common) + n}
                             IN  IF at = {} THEN 0
                                 ELSE unique[CHOOSE i \in at : \A j \in at : j <= i].func]]]

NextPage(end) ==
    LET c == CountFrom(end)
    IN  IF RegularIsBetter(c) THEN RegularPage(end) ELSE CompressedPage(end, c)

LastPageRoom ==
    LET left == PageWords - (program.ehFrame % PageWords)
    IN  IF left < MinLastPage THEN PageWords ELSE left

-----------------------------------------------------------------------------
(* The pass.                                                               *)

UnwindInit ==
    /\ program \in UnwindInputs
    /\ making = IF \E a \in DOMAIN program.atoms : Listed(a) THEN "entries" ELSE "made"
    /\ unique = <<>> /\ common = <<>> /\ endIndex = 0 /\ room = 0
    /\ pageList = <<>> /\ firstLevel = <<>> /\ tooMany = FALSE

\* The entries, their personality routines and the common encodings
MakeEntries ==
    /\ making = "entries"
    /\ \E kept \in {Compressed(AllEntries)} :
          IF Len(PersonalitiesOf(kept)) > MaxPersonalities
          THEN /\ tooMany' = TRUE /\ making' = "made"
               /\ UNCHANGED <<unique, common, endIndex, room>>
          ELSE /\ unique' = WithPersonalities(kept)
               /\ common' = FindCommonEncoding(unique')
               /\ endIndex' = Len(unique') /\ room' = LastPageRoom
               /\ making' = "pages"
               /\ UNCHANGED tooMany
    /\ UNCHANGED <<program, pageList, firstLevel>>

\* The page in front of those made
MakePage ==
    /\ making = "pages" /\ endIndex > 0
    /\ \E page \in {NextPage(endIndex)} :
          /\ pageList' = <<page>> \o pageList
          /\ endIndex' = page.from
          /\ room' = IF page.from > 0 THEN PageWords ELSE room
    /\ UNCHANGED <<program, making, unique, common, firstLevel, tooMany>>

\* The functions that have an LSDA, and how many of them are before an entry
LsdaIndex ==
    LET with == Ascending({i \in DOMAIN unique : unique[i].lsda})
    IN  [k \in DOMAIN with |-> unique[with[k]].func]

LsdasBefore(i) == Cardinality({j \in 1..(i - 1) : unique[j].lsda})

\* The first level index, and an entry behind the last function
MakeIndex ==
    /\ making = "pages" /\ endIndex = 0
    /\ firstLevel' = [n \in 1..(Len(pageList) + 1) |->
                        IF n > Len(pageList)
                        THEN LET f == AllEntries[Len(AllEntries)].func
                             IN  [addr |-> Address(f) + Code(f).size + 1, lsda |-> Len(LsdaIndex)]
                        ELSE LET i == pageList[n].from + 1
                             IN  [addr |-> Address(unique[i].func), lsda |-> LsdasBefore(i)]]
    /\ making' = "made"
    /\ UNCHANGED <<program, unique, common, endIndex, room, pageList, tooMany>>

UnwindMade == making = "made" /\ UNCHANGED unwindVars

UnwindNext == MakeEntries \/ MakePage \/ MakeIndex \/ UnwindMade

UnwindSpec == UnwindInit /\ [][UnwindNext]_unwindVars

-----------------------------------------------------------------------------
(* Reading the table: unwinddump's printUnwindSection() lists the entries, *)
(* and an unwinder searches them for an address.                           *)

PageAt(addr) ==
    CHOOSE n \in DOMAIN pageList : firstLevel[n].addr <= addr /\ addr < firstLevel[n + 1].addr

\* An entry of page n, as an address, an encoding and the function whose FDE
\* it leads to
EntryOf(n, k) ==
    LET page == pageList[n]
        e == page.entries[k]
        own == page.own[e.index - Len(common)]
    IN  CASE page.kind = "regular" ->
               [addr |-> Address(e.func), encoding |-> e.encoding, fde |-> e.fde]
          [] page.kind = "compressed" /\ e.index <= Len(common) ->
               [addr |-> firstLevel[n].addr + e.delta, encoding |-> common[e.index], fde |-> 0]
          [] OTHER ->
               [addr |-> firstLevel[n].addr + e.delta, encoding |-> own.encoding, fde |-> own.fde]

\* The entry of the function at an address
LookUp(addr) ==
    LET n == PageAt(addr)
        at == {k \in DOMAIN pageList[n].entries : EntryOf(n, k).addr <= addr}
    IN  EntryOf(n, CHOOSE k \in at : \A j \in at : j <= k)

\* The LSDAs the index gives for the function of an entry at an address
LsdasAt(addr, start) ==
    LET n == PageAt(addr)
        lsdas == LsdaIndex
    IN  {f \in {lsdas[k] : k \in (firstLevel[n].lsda + 1)..firstLevel[n + 1].lsda} :
            Address(f) = start}

-----------------------------------------------------------------------------
(* Properties.                                                             *)

\* Layout moves functions apart by no more than is left for that.
LayoutSettles ==
    Gaps[Len(program.atoms)] < DeltaSpan - MaxDelta

\* What the entry found for a function says of it
SaysOf(entry, addr, a) ==
    /\ entry.encoding.mode = IF Code(a).unwind THEN Code(a).mode ELSE "none"
    /\ entry.encoding.saved = IF Code(a).unwind THEN Code(a).saved ELSE 0
    /\ entry.fde = IF Code(a).unwind /\ Code(a).mode = "dwarf" THEN a ELSE 0
    /\ LET p == entry.encoding.personality
       IN  IF Code(a).unwind /\ Code(a).personality # Nothing
           THEN p > 0 /\ PersonalitiesOf(unique)[p] = Code(a).personality
           ELSE p = 0
    /\ LsdasAt(addr, entry.addr) = IF Code(a).unwind /\ Code(a).lsda THEN {a} ELSE {}

\* Looking up any address of a function, in whatever kind of page it came,
\* gives its encoding, FDE, personality routine and LSDA; encodings have
\* indexes of eight bits.
UnwoundRight ==
    making = "made" /\ ~ tooMany /\ LayoutSettles =>
        /\ \A a \in DOMAIN program.atoms : Listed(a) =>
              \A addr \in Address(a)..(Address(a) + Code(a).size - 1) :
                 SaysOf(LookUp(addr), addr, a)
        /\ \A n \in DOMAIN pageList : pageList[n].kind = "compressed" =>
              \A k \in DOMAIN pageList[n].entries :
                 pageList[n].entries[k].index <= MaxIndex + 1
=============================================================================
