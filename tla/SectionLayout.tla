--------------------------- MODULE SectionLayout ---------------------------
(***************************************************************************)
(* The layout of the output: each section of an object file becomes part   *)
(* of a final section, final sections are sorted by segment and by kind,   *)
(* get sizes and alignments, room for load commands is reserved, and each  *)
(* gets an address and an offset in the file.  What is in the file is      *)
(* found again in memory because both are computed the same way; the       *)
(* segment load commands say so once for a segment.                        *)
(*                                                                         *)
(* Segments and sections are known by their names.  Sizes are in units; a  *)
(* page is Page of them.                                                   *)
(***************************************************************************)
EXTENDS Integers, Sequences, FiniteSets, TLC
LOCAL INSTANCE SequencesExt
LOCAL INSTANCE FiniteSetsExt

CONSTANTS
    LayoutJobs,    \* the links considered, see JobOK
    Page,          \* segmentAlignment()
    LastOrder,     \* INT_MAX, as the order of a section
    ZeroFillOrders \* 256: orders set aside at the end for zero fill

NoAddress == -1    \* ULLONG_MAX

PlacedAtoms == [size : Nat, align : 0..15, modulus : Nat]
InputSections == [seg : STRING, sect : STRING, type : STRING, hidden : BOOLEAN,
                  atoms : Seq(PlacedAtoms)]

ZeroFillTypes == {"zeroFill", "TLVZeroFill"}

\* A link: an executable or a library has segments of whole pages, a static
\* one or a preload image the order of segments asked for.
JobOK(j) ==
    /\ j.kind \in {"dynamic", "static", "preload"}
    /\ j.sects \in Seq(InputSections)
    /\ j.linkEdit \in Seq(PlacedAtoms)
    /\ j.segmentOrder # <<>> => j.kind \in {"static", "preload"}
    /\ \E n \in DOMAIN j.sects : j.sects[n].type = "header"
    /\ \A n \in DOMAIN j.sects : \A k \in DOMAIN j.sects[n].atoms :
          j.sects[n].atoms[k].modulus < 2 ^ j.sects[n].atoms[k].align
    /\ \A i \in DOMAIN j.segmentOrder : j.segmentOrder[i] \in DOMAIN j.fixed =>
          \E n \in DOMAIN j.sects : j.sects[n].seg = j.segmentOrder[i]
    /\ \A a, b \in Range(j.sectionRenames), c \in Range(j.segmentRenames) :  \* renamed once
          a.to # b.from /\ a.to[1] # c.from
    /\ \A c, d \in Range(j.segmentRenames) : c # d => c.from # d.from
    /\ \A s, t \in DOMAIN j.fixed :                      \* -segaddr
          /\ j.fixed[s] % Page = 0
          /\ s # t => j.fixed[s] # j.fixed[t]

ASSUME LayoutAssumption ==
    /\ \E k \in 0..15 : Page = 2 ^ k
    /\ \A j \in LayoutJobs : JobOK(j)

VARIABLES
    job,          \* the link; never changes
    laying,       \* what comes next
    arrived,      \* how many input sections have been seen
    finals,       \* Internal::sections
    finalOf,      \* _sectionInToFinalMap: the final section of a section
    segmentsSeen, \* _s_segmentsSeen
    header,       \* size of the mach header and load commands with padding
    encryptFrom,  \* _encryptedTEXTstartOffset
    refused       \* the link has ended with an error

layoutVars == <<job, laying, arrived, finals, finalOf, segmentsSeen, header, encryptFrom, refused>>

-----------------------------------------------------------------------------
(* Which final section. *)

Names(seg, sect, type) == [seg |-> seg, sect |-> sect, type |-> type, hidden |-> FALSE]
NamesOf(s) == Names(s.seg, s.sect, s.type)
SectionKey(s) == <<s.seg, s.sect, s.hidden>>

TentativeSection == IF job.mergeZeroFill THEN "__zerofill" ELSE "__common"

\* Sections that are merged in a final image
OutputSection(s) ==
    CASE s.type \in {"literal4", "literal8", "literal16"} /\ s.seg = "__TEXT"
           -> Names("__TEXT", "__const", "unclassified")
      [] s.type = "unclassified" /\ s.sect = "__datacoal_nt" /\ s.seg \in {"__DATA", "__DATA_DIRTY"}
           -> Names(s.seg, "__data", "unclassified")
      [] s.type = "unclassified" /\ s.sect = "__const_coal"
            /\ s.seg \in {"__DATA", "__TEXT", "__DATA_CONST"}
           -> Names(s.seg, "__const", "unclassified")
      [] s.type = "zeroFill" /\ job.mergeZeroFill -> Names("__DATA", "__zerofill", "zeroFill")
      [] s.type = "code" /\ s.seg = "__TEXT" /\ s.sect \in {"__textcoal_nt", "__StaticInit"}
           -> Names("__TEXT", "__text", "code")
      [] s.type = "nonLazyPointer"
            /\ <<s.seg, s.sect>> \in {<<"__DATA", "__nl_symbol_ptr">>, <<"__IMPORT", "__pointers">>}
           -> Names("__DATA", "__nl_symbol_ptr", "nonLazyPointer")
      [] s.type = "tentativeDefs" /\ <<s.seg, s.sect>> = <<"__DATA", "__comm/tent">>
           -> Names("__DATA", TentativeSection, "zeroFill")
      [] OTHER -> [NamesOf(s) EXCEPT !.hidden = s.hidden]

\* what -rename_section and -rename_segment go by
OriginalName(s) ==
    IF s.type = "tentativeDefs" THEN Names(s.seg, TentativeSection, "zeroFill") ELSE NamesOf(s)

\* the last one that applies; a section that was renamed keeps its type
Renamed(s) ==
    LET sectionRename(t, r) ==
            IF <<t.seg, t.sect>> = r.from THEN [t EXCEPT !.seg = r.to[1], !.sect = r.to[2]] ELSE t
        bySection == FoldLeft(sectionRename, OriginalName(s), job.sectionRenames)
        segmentRename(t, r) == IF bySection.seg = r.from THEN [t EXCEPT !.seg = r.to] ELSE t
    IN  FoldLeft(segmentRename, bySection, job.segmentRenames)

IsRenamed(s) == Renamed(s) # OriginalName(s)

-----------------------------------------------------------------------------
(* The order of final sections. *)

IndexOf(list, x) == IF Contains(list, x) THEN SelectInSeq(list, LAMBDA y : y = x) ELSE 0

Usual == [__PAGEZERO |-> 0, __TEXT |-> 1, __TEXT_EXEC |-> 2, __DATA_CONST |-> 3, __DATA |-> 4,
          __OBJC |-> 5, __IMPORT |-> 6]

\* segments without a place of their own come in the order seen
SegmentOrder(seg, seen) ==
    LET asked == IndexOf(job.segmentOrder, seg)
        last == Len(job.segmentOrder)
    IN  CASE job.kind = "preload" /\ seg = "__HEADER" -> 0
          [] job.kind # "dynamic" /\ asked > 0 -> asked
          [] job.kind = "static" /\ seg = "__PAGEZERO" -> 0
          [] job.kind # "dynamic" /\ seg = "__TEXT" -> last + 1
          [] job.kind # "dynamic" /\ seg = "__DATA" -> last + 2
          [] job.kind = "dynamic" /\ seg \in DOMAIN Usual -> Usual[seg]
          [] OTHER -> 100 + (IF IndexOf(seen, seg) > 0 THEN IndexOf(seen, seg) ELSE Len(seen) + 1) - 1

HasOwnPlace(seg) ==
    \/ job.kind = "dynamic" /\ seg \in DOMAIN Usual
    \/ job.kind # "dynamic" /\ (Contains(job.segmentOrder, seg) \/ seg \in {"__TEXT", "__DATA"})
    \/ job.kind = "preload" /\ seg = "__HEADER"
    \/ job.kind = "static" /\ seg = "__PAGEZERO"

TextTypes == [stub |-> 12, stubHelper |-> 13, initOffsets |-> 14,
              threadStarts |-> LastOrder - 8, LSDA |-> LastOrder - 7, unwindInfo |-> LastOrder - 6,
              CFI |-> LastOrder - 5, stubClose |-> LastOrder - 3]
SharedStrings == <<"__objc_classname", "__objc_methname", "__objc_methtype">>
DataTypes == [lazyPointerClose |-> 8, dyldInfo |-> 9, nonLazyPointer |-> 10, lazyPointer |-> 11,
              initializerPointers |-> 12, terminatorPointers |-> 13,
              TLVInitialValues |-> LastOrder - ZeroFillOrders - 3,
              TLVZeroFill |-> LastOrder - ZeroFillOrders - 2]
ObjCData == <<"__objc_classlist", "__objc_nlclslist", "__objc_catlist", "__objc_nlcatlist",
              "__objc_protolist", "__objc_imageinfo", "__objc_const", "__objc_selrefs",
              "__objc_msgrefs", "__objc_protorefs", "__objc_classrefs", "__objc_superrefs",
              "__objc_ivar", "__objc_data", "__objc_const_ax">>
DataSegments == {"__DATA", "__DATA_CONST", "__DATA_DIRTY"}

ZeroFillOrder(seen) == LastOrder - ZeroFillOrders + seen

TextOrder(s, seen) ==
    CASE s.type = "code" -> IF s.sect = "__text" THEN 10 ELSE 11
      [] s.type \in DOMAIN TextTypes -> TextTypes[s.type]
      [] s.type = "nonStdCString" /\ s.sect = "__oslogstring" /\ job.encryptable -> LastOrder - 4
      [] s.type = "nonStdCString" /\ job.shared /\ Contains(SharedStrings, s.sect)
           -> LastOrder - 3 + IndexOf(SharedStrings, s.sect)
      [] s.type # "nonStdCString" /\ s.sect = "__objc_methlist" -> 15
      [] OTHER -> seen + 20

DataOrder(s, seen) ==
    CASE s.type \in DOMAIN DataTypes -> DataTypes[s.type]
      [] s.type = "zeroFill" -> IF s.sect = "__huge" THEN LastOrder - 1 ELSE ZeroFillOrder(seen)
      [] s.sect = "__auth_ptr" -> 11
      [] s.sect = "__const" -> 14
      [] s.sect = "__cfstring" -> 15
      [] Contains(ObjCData, s.sect) -> 19 + IndexOf(ObjCData, s.sect)
      [] OTHER -> seen + 40

SectionOrder(s, seen) ==
    CASE s.type = "first" -> 0
      [] s.type = "header" -> 1
      [] s.type = "last" -> LastOrder
      [] job.kind = "preload" /\ s.seg \in DOMAIN job.sectionOrder
            /\ Contains(job.sectionOrder[s.seg], s.sect)
           -> 9 + IndexOf(job.sectionOrder[s.seg], s.sect)
      [] s.seg = "__TEXT" -> TextOrder(s, seen)
      [] s.seg \in DataSegments -> DataOrder(s, seen)
      [] s.seg = "__OBJC_CONST" ->
            CASE s.sect = "__objc_class_ro" -> 10
              [] s.sect = "__cfstring" -> 11
              [] OTHER -> seen + 10
      [] s.type = "zeroFill" -> ZeroFillOrder(seen)
      [] OTHER -> seen + 20

-----------------------------------------------------------------------------
(* Sections arrive and are sorted. *)

LayoutInit ==
    /\ job \in LayoutJobs
    /\ laying = "sections" /\ arrived = 0
    /\ finals = <<>> /\ finalOf = <<>> /\ segmentsSeen = <<>>
    /\ header = 0 /\ encryptFrom = 0 /\ refused = FALSE

NewFinal(s, segOrder, order) ==
    [seg |-> s.seg, sect |-> s.sect, type |-> s.type, hidden |-> s.hidden,
     order |-> <<segOrder, order>>, atoms |-> <<>>,
     size |-> 0, align |-> 0, padding |-> 0, address |-> NoAddress, offset |-> 0]

\* getFinalSection(): the section itself is looked up, then what it becomes
KeyFor(s) ==
    IF SectionKey(s) \in DOMAIN finalOf THEN SectionKey(s) ELSE SectionKey(OutputSection(s))

\* what a new final section is made from; the type is that of the first to come
BaseFor(s) ==
    IF SectionKey(OutputSection(s)) = SectionKey(s)
    THEN [NamesOf(s) EXCEPT !.hidden = s.hidden] ELSE OutputSection(s)

AppendAtoms(n, s) ==
    finals' = [finals EXCEPT ![n].atoms = @ \o [k \in DOMAIN s.atoms |->
                                                  s.atoms[k] @@ [from |-> s.type]]]

\* one section of an object file, of which all atoms arrive together
AddToSection ==
    /\ laying = "sections"
    /\ \E s \in {job.sects[arrived + 1]} :
       \E t \in {IF IsRenamed(s) THEN Renamed(s) ELSE s} :
       \E named \in {{n \in DOMAIN finals : <<finals[n].seg, finals[n].sect>> = <<t.seg, t.sect>>}} :
          \/ /\ IsRenamed(s) /\ named # {}
             /\ AppendAtoms(Min(named), s)
             /\ UNCHANGED <<finalOf, segmentsSeen>>
          \/ /\ ~ (IsRenamed(s) /\ named # {})
             /\ KeyFor(t) \in DOMAIN finalOf
             /\ AppendAtoms(finalOf[KeyFor(t)], s)
             /\ finalOf' = (SectionKey(t) :> finalOf[KeyFor(t)]) @@ finalOf
             /\ UNCHANGED segmentsSeen
          \/ /\ ~ (IsRenamed(s) /\ named # {})
             /\ KeyFor(t) \notin DOMAIN finalOf
             /\ \E b \in {BaseFor(t)} :
                   /\ finals' = Append(finals,
                         [NewFinal(b, SegmentOrder(b.seg, segmentsSeen),
                                      SectionOrder(b, Cardinality(DOMAIN finalOf)))
                          EXCEPT !.atoms = [k \in DOMAIN s.atoms |->
                                              s.atoms[k] @@ [from |-> s.type]]])
                   /\ finalOf' = (SectionKey(b) :> Len(finals) + 1) @@ finalOf
                   /\ segmentsSeen' = IF HasOwnPlace(b.seg) \/ Contains(segmentsSeen, b.seg)
                                      THEN segmentsSeen ELSE Append(segmentsSeen, b.seg)
    /\ arrived' = arrived + 1
    /\ laying' = IF arrived + 1 = Len(job.sects) THEN "sort" ELSE laying
    /\ UNCHANGED <<job, header, encryptFrom, refused>>

SortsBefore(f, g) == f[1] < g[1] \/ (f[1] = g[1] /\ f[2] < g[2])

\* a stable sort
SortedSections ==
    LET at == SortSeq([n \in DOMAIN finals |-> n],
                      LAMBDA m, n : SortsBefore(finals[m].order, finals[n].order)
                                    \/ (finals[m].order = finals[n].order /\ m < n))
    IN  [n \in DOMAIN finals |-> finals[at[n]]]

\* the assertion at the end of sortSections()
HeaderComesFirst(fs) ==
    LET kinds == SubSeq([n \in DOMAIN fs |-> fs[n].type], 1, 3)
    IN  \/ kinds[1] = "header"
        \/ kinds[1] \in {"first", "pageZero"} /\ kinds[2] = "header"
        \/ kinds[1] = "pageZero" /\ kinds[2] = "first" /\ kinds[3] = "header"

SortSections ==
    /\ laying = "sort"
    /\ \E fs \in {SortedSections} :
          /\ finals' = fs
          /\ refused' = ~ HeaderComesFirst(fs)
          /\ laying' = IF HeaderComesFirst(fs) THEN "linkedit" ELSE "done"
    /\ UNCHANGED <<job, arrived, finalOf, segmentsSeen, header, encryptFrom>>

\* after the sort: the sections of __LINKEDIT, one atom each
AddLinkEdit ==
    /\ laying = "linkedit"
    /\ finals' = finals \o [k \in DOMAIN job.linkEdit |->
                     [NewFinal([Names("__LINKEDIT", "", "linkEdit") EXCEPT !.hidden = TRUE], 0, 0)
                         EXCEPT !.atoms = <<job.linkEdit[k] @@ [from |-> "linkEdit"]>>]]
    /\ laying' = "sizes"
    /\ UNCHANGED <<job, arrived, finalOf, segmentsSeen, header, encryptFrom, refused>>

-----------------------------------------------------------------------------
(* Sizes and alignments. *)

\* the next offset that is the modulus after a multiple of the alignment
Fitted(offset, a) == offset + ((a.modulus - offset) % 2 ^ a.align)
RoundedUp(x, unit) == x + ((- x) % unit)

\* where an atom is within its section
OffsetOf(f, k) ==
    LET at[n \in 1..k] == IF n = 1 THEN Fitted(0, f.atoms[1])
                          ELSE Fitted(at[n - 1] + f.atoms[n - 1].size, f.atoms[n])
    IN  at[k]

SizeOfSection(f) ==
    LET last == Len(f.atoms)
    IN  IF last = 0 \/ f.type = "linkEdit" THEN 0 ELSE OffsetOf(f, last) + f.atoms[last].size

PageAlignment == CHOOSE k \in 0..15 : 2 ^ k = Page

AlignmentOf(f) ==
    CASE f.type = "CFI" -> 3
      [] job.encryptable /\ <<f.seg, f.sect>> = <<"__TEXT", "__oslogstring">> -> PageAlignment
      [] <<f.seg, f.sect>> \in DOMAIN job.sectAlign -> job.sectAlign[<<f.seg, f.sect>>]
      [] OTHER -> Max({0} \cup {f.atoms[k].align : k \in DOMAIN f.atoms})

ThreadLocal(f) == f.type \in {"TLVInitialValues", "TLVZeroFill"}
\* mutant: the alignment of zero fill does not count
ThreadAlignmentInitial(fs) ==
    Max({0} \cup {AlignmentOf(fs[n]) : n \in {m \in DOMAIN fs : fs[m].type = "TLVInitialValues"}})

ThreadAlignment(fs) == Max({0} \cup {AlignmentOf(fs[n]) : n \in {m \in DOMAIN fs : ThreadLocal(fs[m])}})

SetSizesAndAlignments ==
    /\ laying = "sizes"
    /\ finals' = [n \in DOMAIN finals |->
                     [finals[n] EXCEPT
                         !.size = SizeOfSection(finals[n]),
                         !.align = IF ThreadLocal(finals[n]) THEN ThreadAlignment(finals)
                                   ELSE AlignmentOf(finals[n])]]
    /\ laying' = "padding"
    /\ UNCHANGED <<job, arrived, finalOf, segmentsSeen, header, encryptFrom, refused>>

-----------------------------------------------------------------------------
(* Room after the load commands. *)

HeaderIndex == CHOOSE n \in DOMAIN finals : finals[n].type = "header"
LoadCommandsSize == finals[HeaderIndex].size

SegPage(seg) == IF seg \in DOMAIN job.segPage THEN job.segPage[seg] ELSE Page

\* __TEXT laid out backwards from the end of a page
RoomBefore ==
    LET text == {n \in DOMAIN finals : finals[n].seg = "__TEXT" /\ n > HeaderIndex}
        down(addr, f) == (addr - f.size) - ((addr - f.size) % 2 ^ f.align)
        behind == FoldLeft(LAMBDA addr, n : IF n \in text THEN down(addr, finals[n]) ELSE addr,
                           0, Reverse([n \in DOMAIN finals |-> n]))
    IN  IF finals[HeaderIndex].seg = "__TEXT"
        THEN (behind - LoadCommandsSize) % SegPage("__TEXT") ELSE 0

AtLeast(room) ==
    IF room >= job.minPad THEN room
    ELSE room + Page * ((job.minPad - room + Page - 1) \div Page)

\* load commands are not on the page where encryption begins
SamePage(room) == (LoadCommandsSize + job.minPad) \div Page = (LoadCommandsSize + room) \div Page

\* the case of a preload image has no break
SetLoadCommandsPadding ==
    /\ laying = "padding"
    /\ \E room \in {AtLeast(RoomBefore)} :
       \E padding \in {IF job.encryptable /\ SamePage(room) THEN room + Page ELSE room} :
          /\ header' = LoadCommandsSize + padding
          /\ finals' = [finals EXCEPT ![HeaderIndex].size = LoadCommandsSize + padding]
          /\ encryptFrom' = IF job.encryptable
                            THEN Page * ((LoadCommandsSize + padding) \div Page) ELSE 0
    /\ laying' = "fixed"
    /\ UNCHANGED <<job, arrived, finalOf, segmentsSeen, refused>>

-----------------------------------------------------------------------------
(* Addresses: assignFileOffsets().  Each pass is a walk over the sections. *)

OverSections(first, visit(_, _)) == FoldLeft(visit, first, [n \in DOMAIN finals |-> n])

IsFixed(f) == f.seg \in DOMAIN job.fixed
TooFar(f, at) == job.kind # "static" /\ at + f.size > job.maxAddress

\* hidden sections of a preload image take no room
Room(f) == IF f.hidden /\ job.kind = "preload" THEN 0 ELSE f.size

\* put section n at the next aligned address
At(acc, n, unaligned) ==
    LET at == RoundedUp(unaligned, 2 ^ acc.fs[n].align)
    IN  [acc EXCEPT !.fs[n].address = at, !.fs[n].padding = at - unaligned,
                    !.address = at + Room(acc.fs[n]), !.seg = acc.fs[n].seg,
                    !.refused = @ \/ TooFar(acc.fs[n], at)]

\* sections of the segments -segaddr names
PlaceFixed(acc, n) ==
    LET f == acc.fs[n]
    IN  IF ~ IsFixed(f) THEN acc
        ELSE At(acc, n, IF f.seg # acc.seg THEN job.fixed[f.seg] ELSE acc.address)

PlaceFixedSegments ==
    /\ laying = "fixed"
    /\ \E acc \in {OverSections([fs |-> finals, address |-> 0, seg |-> "", refused |-> FALSE], PlaceFixed)} :
          /\ finals' = acc.fs
          /\ refused' = acc.refused
          /\ laying' = IF acc.refused THEN "done" ELSE "after"
    /\ UNCHANGED <<job, arrived, finalOf, segmentsSeen, header, encryptFrom>>

\* -segment_order names the segment after one with a fixed address
FollowsFixed(f) ==
    \E i, j \in DOMAIN job.segmentOrder :
        i < j /\ job.segmentOrder[i] \in DOMAIN job.fixed /\ job.segmentOrder[j] = f.seg

\* they go right behind the section before, wherever that is
PlaceAfterFixed(acc, n) ==
    LET f == acc.fs[n]
        end == acc.fs[n - 1].address + acc.fs[n - 1].size
        start == IF f.seg # acc.fs[n - 1].seg THEN RoundedUp(end, SegPage(acc.fs[n - 1].seg)) ELSE end
        placed == At(acc, n, start)
    IN  IF f.address # NoAddress \/ ~ FollowsFixed(f) THEN acc
        ELSE [placed EXCEPT !.refused = acc.refused]

PlaceSegmentsAfterFixed ==
    /\ laying = "after"
    /\ finals' = IF DOMAIN job.fixed # {} /\ \E n \in DOMAIN finals : IsFixed(finals[n])
                 THEN OverSections([fs |-> finals, address |-> 0, seg |-> "", refused |-> FALSE],
                           PlaceAfterFixed).fs
                 ELSE finals
    /\ laying' = "rest"
    /\ UNCHANGED <<job, arrived, finalOf, segmentsSeen, header, encryptFrom, refused>>

\* where the other segments start: behind a fixed __TEXT, or at the base address
FloatingStart ==
    LET text == {n \in DOMAIN finals : finals[n].seg = "__TEXT" /\ IsFixed(finals[n])}
    IN  IF text = {} THEN job.base ELSE finals[Max(text)].address + Room(finals[Max(text)])

Overlaps(f, g) ==
    /\ f.size # 0 /\ g.size # 0
    /\ IF f.address > g.address THEN g.address + g.size > f.address ELSE f.address + f.size > g.address

\* a first section without a size moves up with the one after it
MovedUp(fs, p, n) ==
    IF p # 0 /\ fs[p].type = "first" /\ fs[p].seg = fs[n].seg
    THEN [fs EXCEPT ![p].padding = @ + (fs[n].address - fs[p].address),
                    ![p].address = fs[n].address]
    ELSE fs

PlaceOther(acc, n) ==
    LET f == acc.fs[n]
        start == IF f.seg = acc.seg THEN acc.address
                 ELSE RoundedUp(IF acc.seg = "" THEN acc.address
                                ELSE RoundedUp(acc.address, SegPage(acc.seg)), Page)
        placed == At(acc, n, start)
        moved == MovedUp(placed.fs, acc.last, n)
    IN  IF f.address # NoAddress THEN acc
        ELSE IF job.kind = "preload" /\ f.type = "header" THEN [acc EXCEPT !.fs[n].padding = 0]
        ELSE [placed EXCEPT !.fs = moved, !.last = n,
                 !.overlap = @ \/ \E m \in DOMAIN moved : IsFixed(moved[m]) /\ Overlaps(moved[n], moved[m])]

PlaceOtherSegments ==
    /\ laying = "rest"
    /\ \E acc \in {OverSections([fs |-> finals, address |-> FloatingStart, seg |-> "", last |-> 0,
                         overlap |-> FALSE, refused |-> FALSE], PlaceOther)} :
          /\ finals' = acc.fs
          /\ refused' = (acc.refused \/ acc.overlap)
          /\ laying' = IF acc.refused \/ acc.overlap THEN "done" ELSE "offsets"
    /\ UNCHANGED <<job, arrived, finalOf, segmentsSeen, header, encryptFrom>>

-----------------------------------------------------------------------------
(* Offsets in the file. *)

HasZeroForFileOffset(f) ==
    (f.type \in ZeroFillTypes /\ job.optimizeZeroFill) \/ f.type \in {"pageZero", "stack", "tentativeDefs"}

\* mutant: padding is an affair of addresses only
FileOffsetUnpadded(acc, n) ==
    LET f == acc.fs[n]
        start == IF acc.seg # "" /\ acc.seg # f.seg THEN RoundedUp(acc.offset, SegPage(acc.seg))
                 ELSE acc.offset
    IN  IF HasZeroForFileOffset(f)
        THEN [acc EXCEPT !.fs[n].offset = 0]
        ELSE [acc EXCEPT !.fs[n].offset = start, !.offset = start + f.size, !.seg = f.seg]

AssignFileOffset(acc, n) ==
    LET f == acc.fs[n]
        start == IF acc.seg # "" /\ acc.seg # f.seg THEN RoundedUp(acc.offset, SegPage(acc.seg))
                 ELSE acc.offset
    IN  IF HasZeroForFileOffset(f)
        THEN [acc EXCEPT !.fs[n].offset = 0, !.offset = @ + f.padding]
        ELSE [acc EXCEPT !.fs[n].offset = start + f.padding,
                         !.offset = start + f.padding + f.size, !.seg = f.seg]

AssignFileOffsets ==
    /\ laying = "offsets"
    /\ finals' = OverSections([fs |-> finals, offset |-> 0, seg |-> ""], AssignFileOffset).fs
    /\ laying' = "update"
    /\ UNCHANGED <<job, arrived, finalOf, segmentsSeen, header, encryptFrom, refused>>

\* updateLINKEDITAddresses(): __LINKEDIT again, now that its contents are known
PlaceLinkEdit(acc, n) ==
    LET f == acc.fs[n]
        address == IF acc.address = 0 THEN f.address ELSE acc.address
        offset == IF acc.address = 0 THEN f.offset ELSE acc.offset
        skip == Fitted(address, f.atoms[1]) - address
    IN  IF f.type # "linkEdit" THEN acc
        ELSE [acc EXCEPT !.fs[n].size = f.atoms[1].size,
                         !.fs[n].align = f.atoms[1].align,
                         !.fs[n].address = address + skip, !.fs[n].offset = offset + skip,
                         !.address = address + skip + f.atoms[1].size,
                         !.offset = offset + skip + f.atoms[1].size]

UpdateLinkEditAddresses ==
    /\ laying = "update"
    /\ finals' = OverSections([fs |-> finals, address |-> 0, offset |-> 0], PlaceLinkEdit).fs
    /\ laying' = "done"
    /\ UNCHANGED <<job, arrived, finalOf, segmentsSeen, header, encryptFrom, refused>>

LayoutFinished == laying = "done" /\ UNCHANGED layoutVars

LayoutNext ==
    \/ AddToSection \/ SortSections \/ AddLinkEdit \/ SetSizesAndAlignments
    \/ SetLoadCommandsPadding \/ PlaceFixedSegments \/ PlaceSegmentsAfterFixed
    \/ PlaceOtherSegments \/ AssignFileOffsets \/ UpdateLinkEditAddresses \/ LayoutFinished

LayoutSpec == LayoutInit /\ [][LayoutNext]_layoutVars

-----------------------------------------------------------------------------
(* What the loader sees. *)

TakesNoDiskSpace(f) ==
    \/ f.type \in ZeroFillTypes /\ job.optimizeZeroFill
    \/ f.type \in {"pageZero", "stack", "absoluteSymbols", "tentativeDefs"}

\* sectionTakesNoDiskSpace() of the load commands
EndsBefore(f) ==
    \/ f.type \in ZeroFillTypes /\ job.optimizeZeroFill
    \/ f.type \in {"absoluteSymbols", "tentativeDefs", "last"}

\* the sections of each segment load command
Segments ==
    LET shown == SelectSeq([n \in DOMAIN finals |-> n],
                    LAMBDA n : ~ (job.kind = "preload" /\ finals[n].type \in {"header", "linkEdit"}))
        grouped(gs, n) ==
            IF gs # <<>> /\ finals[Last(Last(gs))].seg = finals[n].seg
            THEN Append(Front(gs), Append(Last(gs), n)) ELSE Append(gs, <<n>>)
    IN  FoldLeft(grouped, <<>>, shown)

\* copySegmentLoadCommands()
Command(g) ==
    LET first == finals[Head(g)]
        last == finals[Last(g)]
        disk == SelectSeq(g, LAMBDA n : ~ EndsBefore(finals[n]))
        used == finals[Last(disk)].address + finals[Last(disk)].size - first.address
    IN  [sections |-> Range(g),
         vmaddr |-> first.address,
         vmsize |-> RoundedUp(last.address + last.size - first.address, Page),
         fileoff |-> first.offset,
         filesize |-> CASE disk = <<>> \/ first.type \in {"pageZero", "stack"} -> 0
                        [] first.type = "linkEdit" -> used
                        [] OTHER -> RoundedUp(used, Page)]

Commands == {Command(g) : g \in Range(Segments)}

LinkedOut == laying = "done" /\ ~ refused

\* an atom with the place of its section
AtomPlace(n, k) ==
    LET f == finals[n]
        within == IF f.type = "linkEdit" THEN 0 ELSE OffsetOf(f, k)
    IN  [n |-> n, k |-> k, from |-> f.atoms[k].from, size |-> f.atoms[k].size,
         addr |-> f.address + within,
         off |-> IF TakesNoDiskSpace(f) THEN NoAddress ELSE f.offset + within]
AtomPlaces == UNION {{AtomPlace(n, k) : k \in DOMAIN finals[n].atoms} : n \in DOMAIN finals}

HasContent(a) == a.size > 0 /\ a.from \notin ZeroFillTypes \cup {"tentativeDefs", "pageZero", "stack"}
IsZero(a) == a.size > 0 /\ a.from \in ZeroFillTypes \cup {"tentativeDefs"}

Apart(x, xsize, y, ysize) == x + xsize <= y \/ y + ysize <= x

\* the loader finds what was written
ContentMapped(c, a) ==
    /\ a.off # NoAddress
    /\ a.off - c.fileoff = a.addr - c.vmaddr
    /\ a.addr + a.size <= c.vmaddr + c.filesize

AtomAligned(a) ==
    \/ <<finals[a.n].seg, finals[a.n].sect>> \in DOMAIN job.sectAlign
    \/ finals[a.n].type = "CFI"
    \/ a.addr % 2 ^ finals[a.n].atoms[a.k].align = finals[a.n].atoms[a.k].modulus

\* and where nothing was written it finds zeros
ZeroMapped(c, a, contents) ==
    LET from == c.fileoff + (a.addr - c.vmaddr)
        size == IF a.addr >= c.vmaddr + c.filesize THEN 0
                ELSE Min({a.size, c.vmaddr + c.filesize - a.addr})
    IN  \A b \in contents : size = 0 \/ Apart(from, size, b.off, b.size)

\* The loader maps each segment as its load command says, with one address and
\* one offset for all sections of it.  What was written for an atom is then found
\* at the atom's address, which has the alignment asked for; an atom of zeros gets
\* nothing that was written for another; no two atoms are written to one place and
\* no two segments are mapped to one.  Addresses and offsets are worked out in
\* separate passes over sections some of which take no room in the file.
SectionsMapped ==
    LinkedOut =>
        \E cmds \in {Commands}, places \in {AtomPlaces} :
        \E contents \in {{a \in places : HasContent(a)}} :
            /\ \A a, b \in contents : a # b => Apart(a.off, a.size, b.off, b.size)
            /\ \A c, d \in cmds : c # d => Apart(c.vmaddr, c.vmsize, d.vmaddr, d.vmsize)
            /\ \A a \in places : AtomAligned(a)
            /\ \A c \in cmds : \A a \in places : a.n \in c.sections =>
                  /\ HasContent(a) => ContentMapped(c, a)
                  /\ IsZero(a) => ZeroMapped(c, a, contents) /\ a.addr + a.size <= c.vmaddr + c.vmsize

\* tlvTemplateOffsetOf(): offsets are counted from the first section of thread
\* local data; the loader copies what is between the first and the last
ThreadSections == {n \in DOMAIN finals : ThreadLocal(finals[n])}
ThreadOffset(a) == a.addr - finals[Min(ThreadSections)].address

\* Places that code relies on to be at an edge are.  segment$start and segment$end
\* enclose the sections of their segment, also when a section is moved for its
\* alignment.  Nothing else is between the sections of thread local data, which the
\* loader copies for each thread to a place it aligns itself: an atom has its
\* alignment as an offset within the copy, whichever section begins it.
EdgesEnclose ==
    LinkedOut =>
        /\ \A m, n \in DOMAIN finals : finals[m].seg = finals[n].seg /\ finals[n].size > 0 =>
              /\ finals[m].type = "first" => finals[m].address <= finals[n].address
              /\ finals[m].type = "last" => finals[m].address >= finals[n].address + finals[n].size
        /\ \A a \in AtomPlaces :
              /\ a.n \in ThreadSections =>
                    ThreadOffset(a) % 2 ^ finals[a.n].atoms[a.k].align = finals[a.n].atoms[a.k].modulus
              /\ a.size > 0 /\ a.n \notin ThreadSections /\ ThreadSections # {} =>
                    a.n < Min(ThreadSections) \/ a.n > Max(ThreadSections)

\* The room after the load commands is worked out from the end of the segment
\* backwards, the addresses from its start: they agree, so that all the room there
\* is follows the load commands.  It is what was asked for, and of an encrypted
\* program the load commands and that room are outside the pages that are encrypted
\* while all sections are inside.
HeaderRoom ==
    LinkedOut =>
        LET commands == SizeOfSection(finals[HeaderIndex])
            behind == {n \in DOMAIN finals :
                          n > HeaderIndex /\ finals[n].size > 0 /\ finals[n].seg = finals[HeaderIndex].seg}
            start == finals[HeaderIndex].address + header
        IN  /\ header >= commands + job.minPad
            /\ \A n \in behind : finals[n].address >= start
            /\ (behind # {} /\ \A n \in behind : 2 ^ finals[n].align <= Page) =>
                  finals[Min(behind)].address = start
            /\ job.encryptable => /\ commands + job.minPad <= encryptFrom
                                  /\ \A n \in behind : finals[n].offset >= encryptFrom

\* What is written is what the loader maps, and the load commands have the room
\* that was set aside for them.
ImageIsMapped == SectionsMapped /\ HeaderRoom
=============================================================================
