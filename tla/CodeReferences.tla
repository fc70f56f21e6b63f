--------------------------- MODULE CodeReferences ---------------------------
(***************************************************************************)
(* How the code of an arm64 image refers to what the loader may put        *)
(* elsewhere.  The stubs pass sends calls through stubs, the GOT pass and  *)
(* the TLV pass decide which pointers are loaded from a table and which    *)
(* loads become an addition, OutputFile::applyFixUps writes addresses into *)
(* the instructions, and then follows the compiler's optimization hints    *)
(* and rewrites the instructions that compute an address, atom by atom.    *)
(*                                                                         *)
(* An instruction is a record: its operation, the register it sets or      *)
(* stores, the base register, an immediate number (for adrp, adr and a     *)
(* literal load the address that its distance amounts to), the size of the *)
(* access and the fixup on it.                                             *)
(***************************************************************************)
EXTENDS Integers, FiniteSets, Sequences, SequencesExt, FiniteSetsExt

CONSTANTS
    Programs,    \* the images to link, see ProgramOK
    CodePage,    \* what adrp counts in (4096); also the range of imm12
    OneMeg       \* how far adr and a literal load reach

Operations == {"adrp", "adr", "add", "load", "store", "literal", "nop", "call", "use", "invalid"}
HintKinds  == {"ADRP_ADRP", "ADRP_LDR", "ADRP_ADD_LDR", "ADRP_LDR_GOT_LDR",
               "ADRP_ADD_STR", "ADRP_LDR_GOT_STR", "ADRP_ADD", "ADRP_LDR_GOT"}

Instr(op, r, b, imm, size, fix) ==
    [op |-> op, r |-> r, b |-> b, imm |-> imm, size |-> size, fix |-> fix]
Fix(kind, to, sym) == [kind |-> kind, to |-> to, sym |-> sym]
NoFix == Fix("none", "none", 0)

\* only dylibs go into the shared cache
ProgramOK(p) ==
    /\ p.kind \in {"executable", "dylib", "static"}
    /\ p.shared \in {"no", "v1", "v2"} /\ (p.shared # "no" => p.kind = "dylib")
    /\ p.base % 4 = 0
    /\ \A i \in DOMAIN p.code : p.code[i].op \in Operations
    /\ \A n \in DOMAIN p.hints : /\ p.hints[n].kind \in HintKinds
                                 /\ ToSet(p.hints[n].at) \subseteq DOMAIN p.code
    /\ \A s \in DOMAIN p.syms : p.syms[s].def = "proxy" => p.kind # "static"

ASSUME ProgramAssumption == \A p \in Programs : ProgramOK(p)
ASSUME RangeAssumption == CodePage \in Nat /\ CodePage % 16 = 0 /\ CodePage > 0 /\ OneMeg \in Nat

VARIABLES
    source,     \* the image
    doing,      \* what comes next, see ReferencesTypeOK
    tables,     \* "stub", "lazy", "got", "tlv" -> the symbols with an entry
    atoms,      \* 0 and the symbols with a stub -> their instructions
    hintsOf,    \* ... -> their hints
    current,    \* the atom that is written
    hintNo      \* the next hint of it

referenceVars == <<source, doing, tables, atoms, hintsOf, current, hintNo>>

Sym(s) == source.syms[s]

-----------------------------------------------------------------------------
(* The stubs pass.                                                         *)

\* stubableFixup: is this fixup to lead to a stub?  Static and other kinds
\* that have no stubs do not ask
StubableFixup(f) ==
    LET target == Sym(f.sym) IN
    /\ f.to = "atom"
    /\ IF f.kind # "Branch26" THEN target.resolver
       ELSE \/ target.def = "proxy"
            \/ target.resolver
            \/ /\ target.scope = "global"
               /\ IF target.weak THEN ~target.autoHide
                  ELSE target.interposable \/ (source.flat /\ source.kind # "executable")

FixupsIn(code) == {code[i].fix : i \in DOMAIN code} \ {NoFix}
Resolvers == {s \in DOMAIN source.syms : Sym(s).def = "regular" /\ Sym(s).resolver}

\* all resolver functions have a stub, called or not
StubFor == {f.sym : f \in {g \in FixupsIn(source.code) : StubableFixup(g)}} \cup Resolvers

\* a stub with a pointer that is bound late, or one with a GOT entry of its own
LateStub(s) == source.lazy \/ Sym(s).resolver

StubCode(s) ==
    LET to == IF LateStub(s) THEN "lazy" ELSE "got"
    IN  << Instr("adrp", 16, 0, 0, 0, Fix("Page21", to, s)),
           Instr("load", 16, 16, 0, 8, Fix("PageOff12", to, s)) >>

Retargeted(code, Q(_), to) ==
    [i \in DOMAIN code |->
        IF code[i].fix # NoFix /\ Q(code[i].fix)
        THEN [code[i] EXCEPT !.fix.to = to] ELSE code[i]]

\* "resolver function not supported in type of output"
StubsPass ==
    /\ doing = "stubs"
    /\ IF source.kind # "dylib" /\ Resolvers # {} THEN
           /\ doing' = "refused"
           /\ UNCHANGED <<tables, atoms, hintsOf>>
       ELSE LET stubs == IF source.kind = "static" THEN {} ELSE StubFor
                late  == {s \in stubs : LateStub(s)} IN
           /\ doing' = "got"
           /\ tables' = [tables EXCEPT !.stub = stubs, !.lazy = late, !.got = stubs \ late]
           /\ atoms' = [a \in {0} \cup stubs |->
                  IF a # 0 THEN StubCode(a)
                  ELSE IF source.kind = "static" THEN source.code
                  ELSE Retargeted(source.code, StubableFixup, "stub")]
           /\ hintsOf' = [a \in {0} \cup stubs |->
                  IF a = 0 THEN source.hints
                  ELSE IF a \in late THEN <<[kind |-> "ADRP_LDR", at |-> <<1, 2>>]>>
                  ELSE <<>>]
    /\ UNCHANGED <<source, current, hintNo>>

-----------------------------------------------------------------------------
(* The passes for the global offset table and for thread local variables.  *)

SharedRegionEligible == source.shared # "no"

\* a stub is an atom of this image and hidden in it
GotOptimizable(f) ==
    LET target == Sym(f.sym) IN
    \/ f.to = "stub"
    \/ /\ target.def # "proxy"
       /\ target.scope = "global" =>
              /\ ~(target.weak /\ source.kind \in {"executable", "dylib"})
              /\ ~target.interposable
              /\ ~target.resolver
              /\ ~source.flat
       /\ target.scope = "unit" /\ SharedRegionEligible => target.seg \in {"__TEXT", "__DATA"}

TlvOptimizable(f) ==
    LET target == Sym(f.sym) IN
    /\ target.def # "proxy"
    /\ target.scope = "global" => ~target.weak /\ ~target.interposable /\ ~source.flat

GotKinds == {"GOTLoadPage21", "GOTLoadPageOff12"}
TlvKinds == {"TLVPLoadPage21", "TLVPLoadPageOff12"}
NowLea   == [k \in GotKinds \cup TlvKinds |->
                CASE k = "GOTLoadPage21"     -> "GOTLeaPage21"
                  [] k = "GOTLoadPageOff12"  -> "GOTLeaPageOff12"
                  [] k = "TLVPLoadPage21"    -> "TLVPLoadNowLeaPage21"
                  [] k = "TLVPLoadPageOff12" -> "TLVPLoadNowLeaPageOff12"]

\* each fixup of these kinds leads to a table, or becomes one that takes the
\* address of the target
Indirected(f, kinds, optimizable, to) ==
    IF f.kind \notin kinds THEN f
    ELSE IF optimizable THEN [f EXCEPT !.kind = NowLea[@]] ELSE [f EXCEPT !.to = to]

IndirectedCode(code, kinds, Optimizable(_), to) ==
    [i \in DOMAIN code |->
        [code[i] EXCEPT !.fix = IF @ = NoFix THEN @
                                ELSE Indirected(@, kinds, Optimizable(@), to)]]

\* entries that stubs brought with them are used for other references too
GotPass ==
    /\ doing = "got"
    /\ doing' = "tlv"
    /\ atoms' = [atoms EXCEPT ![0] = IndirectedCode(@, GotKinds, GotOptimizable, "got")]
    /\ tables' = [tables EXCEPT !.got = @ \cup {f.sym : f \in
                     {g \in FixupsIn(atoms'[0]) : g.kind \in GotKinds /\ g.to = "got"}}]
    /\ UNCHANGED <<source, hintsOf, current, hintNo>>

TlvPass ==
    /\ doing = "tlv"
    /\ doing' = "write"
    /\ atoms' = [atoms EXCEPT ![0] = IndirectedCode(@, TlvKinds, TlvOptimizable, "tlv")]
    /\ tables' = [tables EXCEPT !.tlv = {f.sym : f \in
                     {g \in FixupsIn(atoms'[0]) : g.kind \in TlvKinds /\ g.to = "tlv"}}]
    /\ UNCHANGED <<source, hintsOf, current, hintNo>>

-----------------------------------------------------------------------------
(* applyFixUps: addresses are written into the instructions.               *)

EntrySize(table) == IF table = "stub" THEN 12 ELSE 8
EntryAddress(table, s) ==
    source.at[table] + EntrySize(table) * Cardinality({t \in tables[table] : t < s})

AddressOf(f) == IF f.to = "atom" THEN Sym(f.sym).addr ELSE EntryAddress(f.to, f.sym)

PageKinds    == {"Page21", "GOTLoadPage21", "TLVPLoadPage21", "GOTLeaPage21", "TLVPLoadNowLeaPage21"}
PageOffKinds == {"PageOff12", "GOTLoadPageOff12", "TLVPLoadPageOff12",
                 "GOTLeaPageOff12", "TLVPLoadNowLeaPageOff12"}
LeaKinds     == {"GOTLeaPageOff12", "TLVPLoadNowLeaPageOff12"}
PageOfAddress(a) == a - (a % CodePage)

IsLoadOrStore(i) == i.op \in {"load", "store"}

\* a load that is to become an addition is one of a pointer; the offset of an
\* access is a multiple of its size
CanFixUp(i) ==
    CASE i.fix.kind \in LeaKinds -> i.op = "load" /\ i.size \in {4, 8}
      [] i.fix.kind \in PageOffKinds \ LeaKinds /\ IsLoadOrStore(i) ->
             (AddressOf(i.fix) % CodePage) % i.size = 0
      [] OTHER -> TRUE

FixedUp(i) ==
    CASE i.fix.kind \in PageKinds -> [i EXCEPT !.imm = PageOfAddress(AddressOf(i.fix))]
      [] i.fix.kind \in LeaKinds  -> [i EXCEPT !.op = "add", !.imm = AddressOf(i.fix) % CodePage]
      [] i.fix.kind \in PageOffKinds \ LeaKinds -> [i EXCEPT !.imm = AddressOf(i.fix) % CodePage]
      [] OTHER -> i

ApplyCodeFixUps ==
    /\ doing = "write"
    /\ IF \A i \in DOMAIN atoms[current] : CanFixUp(atoms[current][i])
       THEN /\ atoms' = [atoms EXCEPT ![current] = [i \in DOMAIN @ |-> FixedUp(@[i])]]
            /\ doing' = "hints"
       ELSE /\ doing' = "refused"
            /\ UNCHANGED atoms
    /\ hintNo' = 1
    /\ UNCHANGED <<source, tables, hintsOf, current>>

-----------------------------------------------------------------------------
(* Optimization hints, pass 1.  A hint names instructions A, B and C.      *)

Instrs  == atoms[current]
Hint    == hintsOf[current][hintNo]
AtomBase == IF current = 0 THEN source.base ELSE EntryAddress("stub", current)
InstructionAddress(i) == AtomBase + 4 * (i - 1)
A == Hint.at[1]
B == Hint.at[2]
C == Hint.at[3]

IsPageKind(f, mustBeGOT)       == f.kind \in PageKinds /\ (mustBeGOT => f.kind # "Page21")
IsPageOffsetKind(f, mustBeGOT) == f.kind \in PageOffKinds /\ (mustBeGOT => f.kind # "PageOff12")
SameTarget(f, g) == f.to = g.to /\ f.sym = g.sym
TargetAddress    == AddressOf(Instrs[A].fix)

Within(a, b) == b - a < OneMeg /\ a - b < OneMeg

SegmentOf(f) == CASE f.to = "atom" -> Sym(f.sym).seg
                  [] f.to = "stub" -> "__TEXT"
                  [] OTHER         -> "__DATA"

\* in the shared cache segments, or everything, will be moved
UsableSegment == CASE source.shared = "no" -> TRUE
                   [] source.shared = "v1" -> SegmentOf(Instrs[B].fix) = "__TEXT"
                   [] source.shared = "v2" -> FALSE

\* makeNOP, makeADR, makeLDR_literal, makeLoadOrStore with what they assert;
\* the fixup on an instruction that is rewritten stays
Nop(i)            == [i EXCEPT !.op = "nop"]
ADR(i, r, to)     == [i EXCEPT !.op = "adr", !.r = r, !.imm = to]
Literal(i, to)    == [i EXCEPT !.op = IF @ = "load" THEN "literal" ELSE "invalid", !.imm = to]
Access(i, b, off) == [i EXCEPT !.b = b, !.imm = off]
InReach(delta)    == delta < OneMeg /\ delta > - OneMeg
Encodable(i, at) ==
    CASE i.op = "adr"      -> InReach(i.imm - at)
      [] i.op = "literal"  -> InReach(i.imm - at) /\ i.imm % 4 = 0 /\ i.size \in {4, 8, 16}
      [] IsLoadOrStore(i)  -> i.imm % i.size = 0 /\ i.imm \div i.size < CodePage
      [] OTHER             -> i.op # "invalid"

LiteralableSize(i) == i.size \notin {1, 2}

\* the instructions named by new are replaced, none if new is empty
Rewrite(new) ==
    /\ IF \A i \in DOMAIN new : Encodable(new[i], InstructionAddress(i))
       THEN /\ atoms' = [atoms EXCEPT ![current] =
                            [i \in DOMAIN @ |-> IF i \in DOMAIN new THEN new[i] ELSE @[i]]]
            /\ UNCHANGED doing
       ELSE /\ doing' = "aborted"
            /\ UNCHANGED atoms
    /\ hintNo' = hintNo + 1
    /\ UNCHANGED <<source, tables, hintsOf, current>>

AsBefore == <<>>
At1(i, x)              == [n \in {i} |-> x]
At2(i, x, j, y)        == At1(i, x) @@ At1(j, y)
At3(i, x, j, y, k, z)  == At2(i, x, j, y) @@ At1(k, z)

\* what is checked of the first two instructions of every hint
ProperPair(count, mustBeGOT) ==
    /\ Len(Hint.at) = count
    /\ IsPageKind(Instrs[A].fix, mustBeGOT) /\ IsPageOffsetKind(Instrs[B].fix, mustBeGOT)
    /\ SameTarget(Instrs[A].fix, Instrs[B].fix)
    /\ Instrs[A].op = "adrp"

IsHint(kind) == doing = "hints" /\ hintNo \in DOMAIN hintsOf[current] /\ Hint.kind = kind

\* processed in pass 2, because the first adrp may go away
AdrpAdrpLater == IsHint("ADRP_ADRP") /\ Rewrite(AsBefore)

AdrpLdr ==
    /\ IsHint("ADRP_LDR")
    /\ IF /\ ProperPair(2, FALSE)
          /\ IsLoadOrStore(Instrs[B]) /\ Instrs[B].b = Instrs[A].r
          /\ Instrs[B].imm = TargetAddress % CodePage
          /\ LiteralableSize(Instrs[B]) /\ UsableSegment /\ TargetAddress % 4 = 0
          /\ Within(InstructionAddress(B), TargetAddress)
       THEN Rewrite(At2(A, Nop(Instrs[A]), B, Literal(Instrs[B], TargetAddress)))
       ELSE Rewrite(AsBefore)

\* the access C is at an offset from what A and B compute
Accessed == TargetAddress + Instrs[C].imm

ProperAddition == Instrs[B].op = "add" /\ Instrs[B].b = Instrs[A].r
ProperAccess   == Instrs[C].fix = NoFix /\ IsLoadOrStore(Instrs[C]) /\ Instrs[C].b = Instrs[B].r

AdrpAddLdr ==
    /\ IsHint("ADRP_ADD_LDR")
    /\ IF ~(ProperPair(3, FALSE) /\ ProperAddition /\ ProperAccess) THEN Rewrite(AsBefore)
       ELSE IF /\ LiteralableSize(Instrs[C]) /\ UsableSegment /\ Accessed % 4 = 0
               /\ Within(InstructionAddress(C), Accessed)
       THEN Rewrite(At3(A, Nop(Instrs[A]), B, Nop(Instrs[B]), C, Literal(Instrs[C], Accessed)))
       ELSE IF UsableSegment /\ Within(InstructionAddress(A), Accessed)
       THEN Rewrite(At3(A, ADR(Instrs[A], Instrs[C].b, Accessed), B, Nop(Instrs[B]), C, Access(Instrs[C], Instrs[C].b, 0)))
       ELSE IF TargetAddress % Instrs[C].size = 0 /\ Instrs[C].imm = 0
       THEN Rewrite(At2(B, Nop(Instrs[B]), C, Access(Instrs[C], Instrs[A].r, Instrs[B].imm)))
       ELSE Rewrite(AsBefore)

AdrpAdd ==
    /\ IsHint("ADRP_ADD")
    /\ IF /\ ProperPair(2, FALSE) /\ ProperAddition
          /\ UsableSegment /\ Within(InstructionAddress(A), TargetAddress)
       THEN Rewrite(At2(A, ADR(Instrs[A], Instrs[B].r, TargetAddress), B, Nop(Instrs[B])))
       ELSE Rewrite(AsBefore)

\* the pointer is loaded from the GOT: near enough, its page is not needed
NearGot ==
    IF /\ UsableSegment /\ Accessed % 4 = 0
       /\ Within(InstructionAddress(B), Accessed)
    THEN Rewrite(At2(A, Nop(Instrs[A]), B, Literal(Instrs[B], TargetAddress)))
    ELSE Rewrite(AsBefore)

ProperGotLoad == IsLoadOrStore(Instrs[B]) /\ Instrs[B].size = 8 /\ Instrs[C].b = Instrs[B].r
ProperGotAddition == ProperAddition /\ Instrs[C].b = Instrs[B].r
ProperGotTriple ==
    /\ ProperPair(3, TRUE)
    /\ Instrs[C].fix = NoFix /\ IsLoadOrStore(Instrs[C])

AdrpLdrGotLdr ==
    /\ IsHint("ADRP_LDR_GOT_LDR")
    /\ IF ProperGotTriple /\ ProperGotLoad THEN NearGot
       ELSE IF ~(ProperGotTriple /\ ProperGotAddition) THEN Rewrite(AsBefore)
       ELSE IF /\ UsableSegment /\ LiteralableSize(Instrs[C]) /\ TargetAddress % 4 = 0
               /\ Within(InstructionAddress(C), Accessed)
       THEN Rewrite(At3(A, Nop(Instrs[A]), B, Nop(Instrs[B]), C, Literal(Instrs[C], Accessed)))
       ELSE IF UsableSegment /\ Within(InstructionAddress(A), TargetAddress)
       THEN Rewrite(At2(A, ADR(Instrs[A], Instrs[C].b, TargetAddress), B, Nop(Instrs[B])))
       ELSE IF /\ TargetAddress % Instrs[C].size = 0
               /\ Instrs[B].imm + Instrs[C].imm < CodePage
       THEN Rewrite(At2(B, Nop(Instrs[B]), C, Access(Instrs[C], Instrs[A].r, Instrs[C].imm + Instrs[B].imm)))
       ELSE Rewrite(AsBefore)

AdrpAddStr ==
    /\ IsHint("ADRP_ADD_STR")
    /\ IF ~(ProperPair(3, FALSE) /\ ProperAddition /\ ProperAccess /\ Instrs[C].op = "store")
       THEN Rewrite(AsBefore)
       ELSE IF UsableSegment /\ Within(InstructionAddress(A), Accessed)
       THEN Rewrite(At3(A, ADR(Instrs[A], Instrs[C].b, Accessed), B, Nop(Instrs[B]), C, Access(Instrs[C], Instrs[C].b, 0)))
       ELSE IF TargetAddress % Instrs[C].size = 0 /\ Instrs[C].imm = 0
       THEN Rewrite(At2(B, Nop(Instrs[B]), C, Access(Instrs[C], Instrs[C].b, Instrs[B].imm)))
       ELSE Rewrite(AsBefore)

AdrpLdrGotStr ==
    /\ IsHint("ADRP_LDR_GOT_STR")
    /\ IF ~(ProperGotTriple /\ Instrs[C].op = "store") THEN Rewrite(AsBefore)
       ELSE IF ProperGotLoad THEN NearGot
       ELSE IF ~ProperGotAddition THEN Rewrite(AsBefore)
       ELSE IF UsableSegment /\ Within(InstructionAddress(A), TargetAddress)
       THEN Rewrite(At2(A, ADR(Instrs[A], Instrs[C].b, TargetAddress), B, Nop(Instrs[B])))
       ELSE IF TargetAddress % Instrs[C].size = 0 /\ Instrs[C].imm = 0
       THEN Rewrite(At2(B, Nop(Instrs[B]), C, Access(Instrs[C], Instrs[A].r, Instrs[B].imm)))
       ELSE Rewrite(AsBefore)

AdrpLdrGot ==
    /\ IsHint("ADRP_LDR_GOT")
    /\ IF ~(ProperPair(2, TRUE) /\ UsableSegment) THEN Rewrite(AsBefore)
       ELSE IF IsLoadOrStore(Instrs[B]) /\ Within(InstructionAddress(B), TargetAddress)
       THEN Rewrite(At2(A, Nop(Instrs[A]), B, Literal(Instrs[B], TargetAddress)))
       ELSE IF Instrs[B].op = "add" /\ Within(InstructionAddress(A), TargetAddress)
       THEN Rewrite(At2(A, ADR(Instrs[A], Instrs[B].r, TargetAddress), B, Nop(Instrs[B])))
       ELSE Rewrite(AsBefore)

-----------------------------------------------------------------------------
(* Pass 2: an adrp of the page that another adrp left in the register.     *)

StartPass2 ==
    /\ doing = "hints" /\ hintNo \notin DOMAIN hintsOf[current]
    /\ doing' = "adrps"
    /\ hintNo' = 1
    /\ UNCHANGED <<source, tables, atoms, hintsOf, current>>

\* mutant: what the first has become is not looked at
SamePageSometime ==
    /\ Hint.kind = "ADRP_ADRP"
    /\ IsPageKind(Instrs[A].fix, FALSE) /\ IsPageKind(Instrs[B].fix, FALSE)
    /\ Instrs[B].op = "adrp"
    /\ PageOfAddress(AddressOf(Instrs[A].fix)) = PageOfAddress(AddressOf(Instrs[B].fix))

SamePageLoaded ==
    /\ Hint.kind = "ADRP_ADRP"
    /\ IsPageKind(Instrs[A].fix, FALSE) /\ IsPageKind(Instrs[B].fix, FALSE)
    /\ Instrs[A].op = "adrp" /\ Instrs[B].op = "adrp"
    /\ PageOfAddress(AddressOf(Instrs[A].fix)) = PageOfAddress(AddressOf(Instrs[B].fix))

AdrpAdrp ==
    /\ doing = "adrps" /\ hintNo \in DOMAIN hintsOf[current]
    /\ atoms' = IF SamePageLoaded THEN [atoms EXCEPT ![current][B] = Nop(@)] ELSE atoms
    /\ hintNo' = hintNo + 1
    /\ UNCHANGED <<source, doing, tables, hintsOf, current>>

\* the code first, then the stubs
NextAtom ==
    /\ doing = "adrps" /\ hintNo \notin DOMAIN hintsOf[current]
    /\ LET rest == {s \in tables.stub : s > current} IN
       IF rest = {} THEN doing' = "done" /\ UNCHANGED current
                    ELSE doing' = "write" /\ current' = Min(rest)
    /\ UNCHANGED <<source, tables, atoms, hintsOf, hintNo>>

-----------------------------------------------------------------------------

ReferencesInit ==
    /\ source \in Programs
    /\ doing = "stubs"
    /\ tables = [t \in {"stub", "lazy", "got", "tlv"} |-> {}]
    /\ atoms = [a \in {0} |-> source.code]
    /\ hintsOf = [a \in {0} |-> source.hints]
    /\ current = 0 /\ hintNo = 1

ReferencesNext ==
    \/ StubsPass \/ GotPass \/ TlvPass \/ ApplyCodeFixUps
    \/ AdrpAdrpLater \/ AdrpLdr \/ AdrpAddLdr \/ AdrpAdd \/ AdrpLdrGotLdr
    \/ AdrpAddStr \/ AdrpLdrGotStr \/ AdrpLdrGot
    \/ StartPass2 \/ AdrpAdrp \/ NextAtom

ReferencesSpec == ReferencesInit /\ [][ReferencesNext]_referenceVars

-----------------------------------------------------------------------------
(* What the code does when it runs.  The loader fills the tables and may   *)
(* take a definition from elsewhere; in the shared cache segments lie      *)
(* whole pages from where they were linked, and every adrp is adjusted.    *)

Exported(s) == Sym(s).scope = "global" /\ ~(Sym(s).weak /\ Sym(s).autoHide)

\* weak definitions are coalesced, interposable ones replaced, those of a flat
\* namespace looked up (from a main executable its own come first); what a
\* resolver returns is known when it has run
MayBeElsewhere(s) ==
    /\ source.kind # "static"
    /\ \/ Sym(s).def = "proxy" \/ Sym(s).resolver
       \/ /\ Exported(s)
          /\ \/ Sym(s).weak \/ Sym(s).interposable
             \/ source.flat /\ source.kind = "dylib"

Slide(segment) ==
    CASE source.shared = "no" \/ (source.shared = "v1" /\ segment = "__TEXT") -> 0
      [] segment = "__TEXT" -> 16 * CodePage
      [] OTHER              -> 32 * CodePage

Elsewhere(s) == 1024 * CodePage * s
WhereIs(s)   == IF MayBeElsewhere(s) THEN Elsewhere(s) ELSE Sym(s).addr + Slide(Sym(s).seg)

Entries == UNION {{<<t, s>> : s \in tables[t]} : t \in {"lazy", "got", "tlv"}}
EntriesAt(a) == {e \in Entries : EntryAddress(e[1], e[2]) + Slide("__DATA") = a}

\* calling a stub calls what it leads to
Meaning(v) ==
    LET stubs == {s \in tables.stub : EntryAddress("stub", s) + Slide("__TEXT") = v}
    IN  IF stubs = {} THEN v ELSE WhereIs(CHOOSE s \in stubs : TRUE)

\* an access is seen, with what a store stores; a load from an entry of a table
\* is not, but gives what the loader put there
Accessing(run, i, address) ==
    CASE i.op = "store" ->
             [run EXCEPT !.seen = Append(@, <<"store", address, i.size, Meaning(run.regs[i.r])>>)]
      [] i.op # "store" /\ EntriesAt(address) # {} ->
             [run EXCEPT !.regs[i.r] = WhereIs((CHOOSE e \in EntriesAt(address) : TRUE)[2])]
      [] OTHER ->
             [regs |-> [run.regs EXCEPT ![i.r] = - address],
              seen |-> Append(run.seen, <<"load", address, i.size>>)]

SetTo(run, r, v) == [run EXCEPT !.regs[r] = v]
UseSeen(run, i)     == [run EXCEPT !.seen = Append(@, <<"use", i.r, Meaning(run.regs[i.r])>>)]
CallSeen(run, v)   == [run EXCEPT !.seen = Append(@, <<"call", v>>)]

SimpleStep(run, i) ==
    CASE i.op = "adrp"    -> SetTo(run, i.r, i.imm + Slide(SegmentOf(i.fix)))
      [] i.op = "adr"     -> SetTo(run, i.r, i.imm + Slide("__TEXT"))
      [] i.op = "add"     -> SetTo(run, i.r, run.regs[i.b] + i.imm)
      [] IsLoadOrStore(i) -> Accessing(run, i, run.regs[i.b] + i.imm)
      [] i.op = "literal" -> Accessing(run, i, i.imm + Slide("__TEXT"))
      [] i.op = "use"     -> UseSeen(run, i)
      [] i.op = "nop"     -> run

FreshRun == [regs |-> [r \in 0 .. 16 |-> - (1024 * 1024 + r)], seen |-> <<>>]

\* a stub jumps to what it loaded
CodeStep(run, i) ==
    CASE i.op # "call" -> SimpleStep(run, i)
      [] i.op = "call" /\ i.fix.to = "atom" -> CallSeen(run, Sym(i.fix.sym).addr + Slide(Sym(i.fix.sym).seg))
      [] i.op = "call" /\ i.fix.to = "stub" ->
             CallSeen(run, FoldLeft(SimpleStep, run, atoms[i.fix.sym]).regs[16])

\* what the compiler meant: the first instruction of a pair takes the whole
\* address, the second adds nothing to it or loads from it
MeantStep(run, i) ==
    CASE i.fix.kind \in PageKinds -> SetTo(run, i.r, WhereIs(i.fix.sym))
      [] i.fix.kind \in GotKinds \cup TlvKinds \/ (i.op = "add" /\ i.fix # NoFix) ->
             SetTo(run, i.r, run.regs[i.b])
      [] IsLoadOrStore(i) /\ i.fix # NoFix -> Accessing(run, i, run.regs[i.b])
      [] i.op = "call" -> CallSeen(run, WhereIs(i.fix.sym))
      [] OTHER -> SimpleStep(run, i)

-----------------------------------------------------------------------------
(* Properties. *)

\* The stages, the tables and the instructions there are.
ReferencesTypeOK ==
    /\ doing \in {"stubs", "got", "tlv", "write", "hints", "adrps", "done", "refused", "aborted"}
    /\ \A t \in DOMAIN tables : tables[t] \subseteq DOMAIN source.syms
    /\ DOMAIN atoms = {0} \cup tables.stub /\ DOMAIN hintsOf = DOMAIN atoms
    /\ \A a \in DOMAIN atoms : \A i \in DOMAIN atoms[a] : atoms[a][i].op \in Operations

\* Whatever passes, fixups and hints have made of it, the code calls, loads,
\* stores and computes what the compiler meant: every reference to a symbol
\* ends at the definition that the loader settled on, by way of a stub or a
\* table entry where that need not be the one of this image; and no rewritten
\* instruction uses a register that is no longer set, or an address that would
\* be elsewhere in the shared cache (gotFixup, stubableFixup, the two passes
\* over the hints in applyFixUps).
CodeMeansTheSame ==
    doing = "done" => FoldLeft(CodeStep, FreshRun, atoms[0]).seen
                        = FoldLeft(MeantStep, FreshRun, source.code).seen

\* What a hint is rewritten to fits the instruction (the assertions of makeADR,
\* makeLDR_literal and makeLoadOrStore).
RewritesFit == doing # "aborted"

\* The code refers to what it should.
ReferencesArrive == ReferencesTypeOK /\ RewritesFit /\ CodeMeansTheSame
=============================================================================
