--------------------------- MODULE MCSectionLayout --------------------------
(* Instances of SectionLayout for TLC: a page of 16 units.                  *)
EXTENDS SectionLayout
LOCAL INSTANCE SequencesExt

MCPiece(size, align) == [size |-> size, align |-> align, modulus |-> 0]
MCSect(seg, sect, type, atoms) ==
    [seg |-> seg, sect |-> sect, type |-> type, hidden |-> FALSE, atoms |-> atoms]
MCHidden(seg, sect, type, atoms) == [MCSect(seg, sect, type, atoms) EXCEPT !.hidden = TRUE]

MCHeader == MCHidden("__TEXT", "__mach_header", "header", <<MCPiece(5, 0)>>)
MCPageZero == MCHidden("__PAGEZERO", "__pagezero", "pageZero", <<MCPiece(32, 0)>>)
MCFunctions(n, al) == MCSect("__TEXT", "__text", "code", <<MCPiece(n, al), MCPiece(3, 1)>>)
MCContent(sect, n, al) == MCSect("__DATA", sect, "unclassified", <<MCPiece(n, al)>>)
MCZero(sect, n, al) == MCSect("__DATA", sect, "zeroFill", <<MCPiece(n, al)>>)

MCJob(kind, sects) ==
    [kind |-> kind, sects |-> sects, linkEdit |-> <<MCPiece(3, 3), MCPiece(5, 2)>>,
     segmentOrder |-> <<>>, sectionOrder |-> <<>>, sectionRenames |-> <<>>, segmentRenames |-> <<>>,
     fixed |-> <<>>, segPage |-> <<>>, sectAlign |-> <<>>, base |-> 0, maxAddress |-> 1000,
     minPad |-> 2, encryptable |-> FALSE, shared |-> FALSE, mergeZeroFill |-> FALSE,
     optimizeZeroFill |-> TRUE]

MCThread(type, n, al) == MCSect("__DATA", type, type, <<MCPiece(n, al)>>)
MCOther(al) == MCSect("__FOO", "__bar", "unclassified", <<MCPiece(6, al)>>)
MCEdge(seg, type) == MCHidden(seg, type, type, <<MCPiece(0, 0)>>)

\* alignments up to two pages, zero fill that comes before what has content
MCAligned ==
    {MCJob("dynamic", <<MCHeader, MCFunctions(7, a), MCZero("__bss", 5, b), MCContent("__data", 4, c),
                        MCOther(d)>>) :
        a \in {0, 3, 5}, b \in {0, 4, 5}, c \in {2, 5}, d \in {0, 5}}
\* thread local data of both kinds, in any order
MCThreads ==
    {MCJob("dynamic", <<MCHeader, MCFunctions(7, 2), MCContent("__data", 4, c), MCThread("TLVZeroFill", 3, a),
                        MCZero("__bss", 20, 3), MCThread("TLVInitialValues", 6, b),
                        MCContent("__more", 1, 0)>>) :
        a \in {0, 3, 5}, b \in {1, 4, 5}, c \in {0, 5}}
\* segment$start and segment$end; no section more aligned than a page
MCEdges ==
    {MCJob("dynamic", <<MCHeader, MCFunctions(t, 2), MCEdge("__DATA", "last"), MCContent("__data", 4, a),
                        MCEdge("__DATA", "first"), MCZero("__bss", 5, b)>>) :
        a \in {0, 3, 4}, b \in {0, 3}, t \in {2, 7}}

MCBase == <<MCPageZero, MCHeader, MCFunctions(7, 2), MCContent("__data", 4, 2), MCZero("__bss", 5, 1),
            MCOther(3)>>

\* -segaddr: room enough, too little of it, and none
MCFixed ==
    {[MCJob("dynamic", MCBase) EXCEPT !.fixed = f, !.base = b, !.maxAddress = m] :
        f \in {"__DATA" :> 64, "__FOO" :> 64, "__TEXT" :> 64, "__FOO" :> 32 @@ "__DATA" :> 64,
               "__FOO" :> 80 @@ "__DATA" :> 64},
        b \in {32, 64}, m \in {70, 1000}}
\* -segment_order; a segment after one that is fixed
MCStatic ==
    {j \in {[MCJob("static", Tail(MCBase)) EXCEPT !.segmentOrder = o, !.fixed = f] :
               o \in {<<>>, <<"__TEXT", "__FOO">>, <<"__TEXT", "__DATA", "__FOO">>, <<"__DATA", "__FOO">>},
               f \in {<<>>, "__TEXT" :> 32, "__DATA" :> 64}} :
        ~ ("__TEXT" \in DOMAIN j.fixed /\ j.segmentOrder # <<>>)}
MCPreload ==
    {[MCJob("preload", <<[MCHeader EXCEPT !.seg = "__HEADER"]>> \o SubSeq(MCBase, 3, 6)) EXCEPT
          !.segmentOrder = o, !.fixed = f, !.sectionOrder = s] :
        o \in {<<>>, <<"__DATA", "__FOO">>}, f \in {<<>>, "__DATA" :> 64},
        s \in {<<>>, "__DATA" :> <<"__data", "__bss">>}}
\* -rename_section, -rename_segment
MCRenamed ==
    {[MCJob("dynamic", MCBase \o <<MCSect("__DATA", "__comm/tent", "tentativeDefs", <<MCPiece(9, 2)>>)>>)
          EXCEPT !.segmentRenames = r, !.sectionRenames = s, !.mergeZeroFill = m] :
        r \in {<<>>, <<[from |-> "__FOO", to |-> "__DATA"]>>},
        s \in {<<>>, <<[from |-> <<"__FOO", "__bar">>, to |-> <<"__DATA", "__data">>]>>,
               <<[from |-> <<"__DATA", "__common">>, to |-> <<"__DATA", "__tent">>]>>},
        m \in BOOLEAN}
\* -seg_page_size, never less than a page; -sectalign
MCPaged ==
    {[MCJob("dynamic", MCBase) EXCEPT !.segPage = r, !.sectAlign = a, !.minPad = m] :
        m \in {2, 32}, r \in {"__DATA" :> 32, "__TEXT" :> 64}, a \in {<<>>, <<"__DATA", "__data">> :> 5}}
\* room for the load commands of encrypted programs; strings at the end
MCEncrypted ==
    {[MCJob("dynamic", MCBase \o more) EXCEPT !.encryptable = TRUE, !.minPad = m, !.shared = TRUE] :
        m \in {0, 5, 14, 20},
        more \in {<<>>, <<MCSect("__TEXT", "__oslogstring", "nonStdCString", <<MCPiece(3, 0)>>)>>, <<MCSect("__TEXT", "__objc_methname", "nonStdCString", <<MCPiece(3, 0)>>),
                         MCEdge("__TEXT", "last")>>}}

\* five sections that are merged or have a place of their own, in any order
MCMergedOf == <<MCFunctions(3, 2), MCSect("__TEXT", "__literal4", "literal4", <<MCPiece(4, 2)>>),
               MCSect("__TEXT", "__stubs", "stub", <<MCPiece(2, 1), MCPiece(2, 1)>>),
               MCZero("__huge", 20, 2), MCContent("__const", 3, 3)>>
MCMerged ==
    {MCJob("dynamic", <<MCHeader>> \o [i \in 1..5 |-> MCMergedOf[p[i]]] \o <<MCZero("__data", 3, 1)>>) :
        p \in {q \in [1..5 -> 1..5] : IsInjective(q)}}

MCLayoutJobs == MCMerged \cup MCAligned \cup MCThreads \cup MCEdges \cup MCFixed \cup MCStatic \cup MCPreload
                \cup MCRenamed \cup MCPaged \cup MCEncrypted

\* as in MCEdges, with a section more aligned than a page
MCEdgesMoved ==
    {MCJob("dynamic", <<MCHeader, MCFunctions(2, 2), MCEdge("__DATA", "first"), MCContent("__data", 4, 5)>>)}
=============================================================================
