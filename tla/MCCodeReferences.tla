-------------------------- MODULE MCCodeReferences --------------------------
(***************************************************************************)
(* Instances of CodeReferences for TLC: pages of 32 bytes, adr reaches 64. *)
(* The code lies at 256, and a page later the data segment starts, with    *)
(* targets and tables on both sides of what can be reached.                *)
(***************************************************************************)
EXTENDS CodeReferences

MCSym(seg, addr) ==
    [def |-> "regular", scope |-> "unit", weak |-> FALSE, autoHide |-> FALSE,
     interposable |-> FALSE, resolver |-> FALSE, addr |-> addr, seg |-> seg]
MCProxy == [MCSym("none", 0) EXCEPT !.def = "proxy", !.scope = "global"]
MCGlobal(addr) == [MCSym("__TEXT", addr) EXCEPT !.scope = "global"]

MCReferring(code, hints, syms) ==
    [kind |-> "dylib", flat |-> FALSE, shared |-> "no", lazy |-> TRUE, base |-> 256,
     code |-> code, hints |-> hints, syms |-> syms,
     at |-> [stub |-> 192, lazy |-> 448, got |-> 512, tlv |-> 480]]
GotAt(p, a) == [p EXCEPT !.at.got = a]
Sharing(Set, kinds) == {[p EXCEPT !.shared = k] : p \in Set, k \in kinds}

Adrp(r, kind, s)       == Instr("adrp", r, 0, 0, 0, Fix(kind, "atom", s))
Add(r, b, kind, s)     == Instr("add", r, b, 0, 0, Fix(kind, "atom", s))
Load(r, b, n, kind, s) == Instr("load", r, b, 0, n, Fix(kind, "atom", s))
LoadAt(r, b, off, n)   == Instr("load", r, b, off, n, NoFix)
StoreAt(r, b, off, n)  == Instr("store", r, b, off, n, NoFix)
Use(r)  == Instr("use", r, 0, 0, 0, NoFix)
Call(s) == Instr("call", 0, 0, 0, 0, Fix("Branch26", "atom", s))
HintOf(kind, at) == [kind |-> kind, at |-> at]

\* near, at the limits and beyond, on both sides; also odd places
MCTextAt == {176, 192, 194, 196, 198, 200, 224, 281, 284}
MCDataAt == {288, 289, 290, 300, 314, 316, 318, 320, 321, 322, 324, 326, 328, 332, 344}
MCTargets == {MCSym("__TEXT", a) : a \in MCTextAt} \cup {MCSym("__DATA", a) : a \in MCDataAt}
             \cup {MCSym("__DATA_CONST", 320)}
MCAlignedTo(n) == {t \in MCTargets : t.addr % n = 0}

\* adrp, add
MCAddresses ==
    {MCReferring(<<Adrp(1, "Page21", 1), Add(r, 1, "PageOff12", 1), Use(r)>>,
               <<HintOf("ADRP_ADD", <<1, 2>>)>>, <<t>>) : r \in {1, 2}, t \in MCTargets}
\* adrp, load
MCLoads ==
    UNION {{MCReferring(<<Adrp(1, "Page21", 1), Load(r, 1, n, "PageOff12", 1), Use(r)>>,
                      <<HintOf("ADRP_LDR", <<1, 2>>)>>, <<t>>) : r \in {1, 2}, t \in MCAlignedTo(n)} :
              n \in {1, 2, 4, 8, 16}}
\* adrp, add, load from an offset
MCOffsetLoads ==
    UNION {{MCReferring(<<Adrp(1, "Page21", 1), Add(r, 1, "PageOff12", 1), LoadAt(3, r, off, n), Use(3)>>,
                      <<HintOf("ADRP_ADD_LDR", <<1, 2, 3>>)>>, <<t>>) :
              r \in {1, 2}, off \in {0, n, 3 * n}, t \in MCTargets} : n \in {1, 4, 8}}
\* adrp, add, store: what the add sets is what the adrp set
MCStores(regs) ==
    UNION {{MCReferring(<<Adrp(1, "Page21", 1), Add(r, 1, "PageOff12", 1), StoreAt(5, r, off, n)>>,
                      <<HintOf("ADRP_ADD_STR", <<1, 2, 3>>)>>, <<t>>) :
              r \in regs, off \in {0, n}, t \in MCTargets} : n \in {1, 4, 8}}

\* what a table entry may stand for
MCEntries == {MCProxy, MCGlobal(200), MCSym("__DATA", 316), MCSym("__DATA", 318), MCSym("__DATA", 344),
              MCSym("__DATA_CONST", 316),
              [MCGlobal(200) EXCEPT !.weak = TRUE], [MCGlobal(224) EXCEPT !.interposable = TRUE]}
MCGotPair(r) == <<Adrp(1, "GOTLoadPage21", 1), Load(r, 1, 8, "GOTLoadPageOff12", 1)>>
MCGots == {288, 312, 320, 328, 512}
MCWithGot(rest(_, _), kind, at) ==
    UNION {{GotAt(MCReferring(MCGotPair(r) \o c, <<HintOf(kind, at)>>, <<t>>), g) :
              t \in MCEntries, g \in MCGots, c \in rest(r, n)} : r \in {1, 2}, n \in {1, 4, 8}}
MCLoading(r, n) == {<<LoadAt(3, r, off, n), Use(3)>> : off \in {0, n}}
MCStoring(r, n) == {<<StoreAt(5, r, off, n)>> : off \in {0, n}}
MCUsing(r, n)   == {<<Use(r)>>}
MCThroughGot ==
    MCWithGot(MCLoading, "ADRP_LDR_GOT_LDR", <<1, 2, 3>>)
    \cup MCWithGot(MCStoring, "ADRP_LDR_GOT_STR", <<1, 2, 3>>)
    \cup MCWithGot(MCUsing, "ADRP_LDR_GOT", <<1, 2>>)

\* two pages in one register, hints in any order
MCPairTargets == {MCSym("__DATA", a) : a \in {288, 296, 328, 336, 344}}
                 \cup {MCSym("__TEXT", a) : a \in {192, 200, 208}}
MCSecond(r) == {Add(r, 1, "PageOff12", IF r = 2 THEN 1 ELSE 2),
                Load(r, 1, 8, "PageOff12", IF r = 2 THEN 1 ELSE 2)}
MCHintFor(i, at) == HintOf(IF i.op = "add" THEN "ADRP_ADD" ELSE "ADRP_LDR", at)
MCPairs ==
    {MCReferring(<<Adrp(1, "Page21", 1), x, Use(2), Adrp(1, "Page21", 2), y, Use(3)>>,
               LET all == <<HintOf("ADRP_ADRP", <<1, 4>>), MCHintFor(x, <<1, 2>>), MCHintFor(y, <<4, 5>>)>>
               IN  [i \in 1 .. 3 |-> all[p[i]]], <<t, u>>) :
        p \in {<<1, 2, 3>>, <<2, 3, 1>>, <<3, 1, 2>>}, x \in MCSecond(2), y \in MCSecond(3), t \in MCPairTargets, u \in MCPairTargets}

\* every class of symbol, called and loaded, in every kind of output
MCClasses ==
    {MCProxy, MCGlobal(176), MCSym("__TEXT", 176),
     [MCGlobal(176) EXCEPT !.weak = TRUE],
     [MCGlobal(176) EXCEPT !.weak = TRUE, !.autoHide = TRUE],
     [MCGlobal(176) EXCEPT !.interposable = TRUE],
     [MCGlobal(176) EXCEPT !.resolver = TRUE],
     [MCSym("__TEXT", 176) EXCEPT !.resolver = TRUE]}
MCOutputs(Set) ==
    {q \in {[p EXCEPT !.kind = k, !.flat = f, !.lazy = l] :
                p \in Set, k \in {"executable", "dylib", "static"}, f \in BOOLEAN, l \in BOOLEAN} :
        q.kind = "static" => ~q.flat /\ \A s \in DOMAIN q.syms : q.syms[s].def # "proxy"}
MCCalling ==
    MCOutputs({MCReferring(<<Call(1)>> \o MCGotPair(2) \o <<Use(2)>> \o c, <<HintOf("ADRP_LDR_GOT", <<2, 3>>)>>,
                         <<s, t>>) :
                  s \in MCClasses, t \in {MCProxy, MCSym("__TEXT", 200)}, c \in {<<>>, <<Call(2)>>}})
\* stubs in reach of their pointers
MCNearStubs ==
    {[MCReferring(<<Call(1), Call(2)>>, <<>>, <<s, t>>) EXCEPT !.at = [@ EXCEPT !.stub = 264, !.lazy = l]] :
        s \in MCClasses, t \in {MCProxy, MCGlobal(200)}, l \in {288, 320, 328, 336}}
MCThreadLocals ==
    MCOutputs({[MCReferring(<<Adrp(1, "TLVPLoadPage21", 1), Load(r, 1, 8, "TLVPLoadPageOff12", 1), Use(r)>>,
                          <<HintOf("ADRP_LDR", <<1, 2>>)>>, <<[t EXCEPT !.addr = 344, !.seg = "__DATA"]>>)
                   EXCEPT !.at.tlv = a] :
                  r \in {1, 2}, a \in {288, 480}, t \in {s \in MCClasses : ~s.resolver}})

MCReferencePrograms ==
    LET plain == MCAddresses \cup MCLoads \cup MCOffsetLoads \cup MCStores({1}) \cup MCThroughGot
    IN  plain \cup Sharing(MCAddresses \cup MCThroughGot, {"v1", "v2"})
        \cup Sharing(MCPairs, {"no", "v1"}) \cup MCCalling \cup MCNearStubs \cup MCThreadLocals

\* what the add sets is another register than what the adrp set
MCStoresElsewhere == MCStores({2})
=============================================================================
