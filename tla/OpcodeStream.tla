---------------------------- MODULE OpcodeStream ----------------------------
(***************************************************************************)
(* The compressed dyld information: what is to be rebased or bound, as a   *)
(* program for a machine with a few registers that the loader runs.  The   *)
(* encoders of rebases, binds and weak binds sort their entries, write a   *)
(* plain program, and rewrite it in place a few times to make it short.    *)
(*                                                                         *)
(* An entry says at which address which symbol of which library, plus an   *)
(* addend, is to be put; a rebase has only a type and an address.  Symbols *)
(* are numbers in the order of their names, addresses numbers below Space. *)
(***************************************************************************)
EXTENDS Integers, FiniteSets, Sequences, SequencesExt, FiniteSetsExt, Leb128

CONSTANTS
    Inputs,     \* the tables to encode, see InputOK
    PtrSize,    \* sizeof(pint_t)
    ImmLimit,   \* 15, the limit of what fits beside an opcode
    Space       \* 2^64, where addresses wrap around

\* BIND_TYPE_OVERRIDE_OF_WEAKDEF_IN_DYLIB: no address, only a name
Override == 0

\* No library has this ordinal.
NoOrdinal == - Space

Segments == [start : Nat, end : Nat]
Entries  == [type : Nat, address : 0 .. Space - 1, ordinal : Int, sym : Nat, flag : BOOLEAN,
             addend : Int]

\* A pointer is in a segment, and no two overlap; where address 0 is in the
\* image, the header is there.  Only weak binds have overrides, of one
\* definition for each name.  A rebase has a type, which says if its segment is
\* writable, and an address.  References by one name were resolved to one
\* library.
InputOK(i) ==
    LET pointers == {e \in i.info : e.type # Override}
    IN  /\ i.stream \in {"rebase", "bind", "weak"}
        /\ i.segs \in Seq(Segments)
        /\ \A g \in DOMAIN i.segs : i.segs[g].start < i.segs[g].end /\ i.segs[g].end < Space
        /\ i.info \in SUBSET Entries /\ IsFiniteSet(i.info)
        /\ \A e \in pointers :
              /\ e.address # 0
              /\ \E g \in DOMAIN i.segs : e.address \in i.segs[g].start .. i.segs[g].end - PtrSize
        /\ \A e, f \in pointers :
              e # f => e.address - f.address >= PtrSize \/ f.address - e.address >= PtrSize
        /\ \A e, f \in i.info \ pointers : e.sym = f.sym => e = f
        /\ i.stream # "weak" => pointers = i.info
        /\ i.stream = "rebase" =>
              /\ \A e \in i.info : e.ordinal = 0 /\ e.sym = 0 /\ e.addend = 0
              /\ \A e, f \in i.info, g \in DOMAIN i.segs :
                    {e.address, f.address} \subseteq i.segs[g].start .. i.segs[g].end - 1
                       => e.type = f.type
        /\ i.stream # "rebase" => \A e \in i.info : e.sym # 0
        /\ i.stream = "bind" => \A e, f \in i.info :
              e.ordinal # NoOrdinal /\ (e.sym = f.sym => e.ordinal = f.ordinal)

ASSUME StreamAssumption ==
    PtrSize \in Nat \ {0} /\ ImmLimit \in Nat /\ Space \in Nat \ {0} /\ PtrSize < Space
ASSUME InputAssumption == \A i \in Inputs : InputOK(i)

VARIABLES
    table,      \* the input
    step,       \* what comes next, see StreamMeansFixups
    info,       \* the entries in order
    mid         \* the program

streamVars == <<table, step, info, mid>>

-----------------------------------------------------------------------------
(* Sorting. *)

Less(a, b) == \E k \in DOMAIN a : a[k] < b[k] /\ \A j \in 1 .. k - 1 : a[j] = b[j]

\* by library, symbol, type, weak imports first, then address; a weak bind has
\* library 0 and does not look at the flag, a rebase has only type and address
Key(e) ==
    IF table.stream = "rebase" THEN <<e.type, e.address>>
    ELSE IF table.stream = "bind"
    THEN <<e.ordinal, e.sym, e.type, IF e.flag THEN 0 ELSE 1, e.address>>
    ELSE <<e.sym, e.type, e.address>>

\* how many entries come before one
Rank(e) == Cardinality({f \in table.info : Less(Key(f), Key(e))})

Sort ==
    /\ step = "sort"
    /\ info' = [n \in 1 .. Cardinality(table.info) |->
                   CHOOSE e \in table.info : Rank(e) = n - 1]
    /\ step' = "convert"
    /\ UNCHANGED <<table, mid>>

-----------------------------------------------------------------------------
(* The plain program. *)

Op(op, a)       == [op |-> op, a |-> a]
Op2(op, a, b)   == [op |-> op, a |-> a, b |-> b]
Delta(from, to) == (to - from) % Space

NoRegs == [ordinal |-> 0, sym |-> 0, type |-> 0, seg |-> 0, address |-> Space - 1,
           addend |-> 0, out |-> <<>>]

SegOf(a)    == CHOOSE g \in DOMAIN table.segs : a >= table.segs[g].start /\ a < table.segs[g].end
InSeg(g, a) == g # 0 /\ a >= table.segs[g].start /\ a < table.segs[g].end

\* after the last pointer of a segment a rebase names the segment again
AfterRebase(seg, a) == IF a + PtrSize >= table.segs[seg].end THEN 0 ELSE a + PtrSize

\* what is appended for an entry, and what the encoder remembers
ConvertEntry(r, e) ==
    LET setOrdinal == IF table.stream # "bind" \/ r.ordinal = e.ordinal THEN <<>>
                      ELSE <<Op(IF e.ordinal <= 0 THEN "special" ELSE "ordinal", e.ordinal)>>
        setSymbol  == IF table.stream = "rebase" \/ r.sym = e.sym THEN <<>>
                      ELSE <<Op2("symbol", e.sym, e.flag)>>
        setType    == IF r.type = e.type THEN <<>> ELSE <<Op("type", e.type)>>
        seg        == IF r.address = e.address \/ InSeg(r.seg, e.address)
                      THEN r.seg ELSE SegOf(e.address)
        setAddress == IF r.address = e.address THEN <<>>
                      ELSE IF InSeg(r.seg, e.address)
                      THEN <<Op("add", Delta(r.address, e.address))>>
                      ELSE <<Op2("seg", seg, e.address - table.segs[seg].start)>>
        setAddend  == IF r.addend = e.addend THEN <<>> ELSE <<Op("addend", e.addend)>>
        named      == [r EXCEPT !.ordinal = e.ordinal, !.sym = e.sym,
                                !.out = @ \o setOrdinal \o setSymbol]
    IN  IF table.stream = "weak" /\ e.type = Override THEN named
        ELSE [named EXCEPT
                !.type = e.type, !.seg = seg, !.addend = e.addend,
                !.address = IF table.stream = "rebase" THEN AfterRebase(seg, e.address)
                                                       ELSE (e.address + PtrSize) % Space,
                !.out = @ \o setType \o setAddress \o setAddend
                          \o <<IF table.stream = "rebase" THEN Op("times", 1) ELSE Op("bind", 0)>>]

Start == [NoRegs EXCEPT !.ordinal = NoOrdinal]

\* the encoder after the n first entries
Converted(n) ==
    LET after[k \in 0 .. n] == IF k = 0 THEN Start ELSE ConvertEntry(after[k - 1], info[k])
    IN  after[n]

Convert ==
    /\ step = "convert"
    /\ mid' = Converted(Len(info)).out
    /\ step' = IF table.stream = "rebase" THEN "pack" ELSE "combine"
    /\ UNCHANGED <<table, info>>

-----------------------------------------------------------------------------
(* Making it short. *)

\* how many operations from n on are like operation n
RunLength(n) == Min({m \in n + 1 .. Len(mid) + 1 : m > Len(mid) \/ mid[m] # mid[n]} ) - n

\* the program rewritten from the front; pieces[n] has what to write for the
\* operations from n on and how many of them it stands for
Rewritten(pieces) ==
    LET from[n \in 1 .. Len(pieces) + 1] ==
            IF n > Len(pieces) THEN <<>>
            ELSE <<pieces[n].write>> \o from[n + pieces[n].read]
    IN  from[1]

Keep(n) == [write |-> mid[n], read |-> 1]

\* optimize phase 1 of rebases: packed runs of pointers
PackedRun(n) == IF mid[n].op = "times"
                THEN [write |-> Op("times", RunLength(n)), read |-> RunLength(n)]
                ELSE Keep(n)

PackRuns ==
    /\ step = "pack"
    /\ mid' = Rewritten([n \in DOMAIN mid |-> PackedRun(n)])
    /\ step' = "combine"
    /\ UNCHANGED <<table, info>>

\* mutant: any number of pointers is combined with the distance after them
CombinedPairOfRun(n) ==
    IF mid[n].op \in {"bind", "times"} /\ n < Len(mid) /\ mid[n + 1].op = "add"
    THEN [write |-> Op(IF mid[n].op = "bind" THEN "bindAdd" ELSE "timesAdd", mid[n + 1].a),
          read |-> 2]
    ELSE Keep(n)

\* a pointer and the distance after it
CombinedPair(n) ==
    IF (mid[n] = Op("times", 1) \/ mid[n].op = "bind") /\ n < Len(mid) /\ mid[n + 1].op = "add"
    THEN [write |-> Op(IF mid[n].op = "bind" THEN "bindAdd" ELSE "timesAdd", mid[n + 1].a),
          read |-> 2]
    ELSE Keep(n)

CombinePairs ==
    /\ step = "combine"
    /\ mid' = Rewritten([n \in DOMAIN mid |-> CombinedPair(n)])
    /\ step' = "compress"
    /\ UNCHANGED <<table, info>>

\* mutant: a run of one is compressed too
WorthCompressingAlways == 1

\* three rebases or two binds with the same distance are worth a loop
WorthCompressing == IF table.stream = "rebase" THEN 3 ELSE 2

CompressedRun(n) ==
    IF mid[n].op \in {"bindAdd", "timesAdd"} /\ RunLength(n) >= WorthCompressing
    THEN [write |-> Op2("skipping", RunLength(n), mid[n].a), read |-> RunLength(n)]
    ELSE Keep(n)

CompressRuns ==
    /\ step = "compress"
    /\ mid' = Rewritten([n \in DOMAIN mid |-> CompressedRun(n)])
    /\ step' = "immediate"
    /\ UNCHANGED <<table, info>>

Scalable(a) == a < ImmLimit * PtrSize /\ a % PtrSize = 0

Immediate(o) ==
    IF o.op = "add" /\ table.stream = "rebase" /\ Scalable(o.a)
    THEN Op("addScaled", o.a \div PtrSize)
    ELSE IF o.op = "times" /\ o.a < ImmLimit     THEN Op("timesImm", o.a)
    ELSE IF o.op = "bindAdd" /\ Scalable(o.a)    THEN Op("bindAddScaled", o.a \div PtrSize)
    ELSE IF o.op = "ordinal" /\ o.a <= ImmLimit  THEN Op("ordinalImm", o.a)
    ELSE o

UseImmediates ==
    /\ step = "immediate"
    /\ mid' = [n \in DOMAIN mid |-> Immediate(mid[n])]
    /\ step' = "done"
    /\ UNCHANGED <<table, info>>

-----------------------------------------------------------------------------

StreamInit ==
    /\ table \in Inputs
    /\ step = "sort"
    /\ info = <<>>
    /\ mid = <<>>

StreamNext ==
    Sort \/ Convert \/ PackRuns \/ CombinePairs \/ CompressRuns \/ UseImmediates

StreamSpec == StreamInit /\ [][StreamNext]_streamVars
-----------------------------------------------------------------------------
(* The machine that runs the program, as dyldinfo prints it. *)

\* a pointer, and some bytes to skip after it; addresses wrap around
DoPointer(r, skip) ==
    [r EXCEPT
        !.address = (@ + PtrSize + skip) % Space,
        !.out = Append(@, [type |-> r.type, ordinal |-> r.ordinal, sym |-> r.sym,
                           flag |-> r.flag, addend |-> r.addend, seg |-> r.seg,
                           offset |-> r.address])]

\* n pointers, each with the same bytes after it
DoTimes(r, n, skip) ==
    LET done[k \in 0 .. n] == IF k = 0 THEN r ELSE DoPointer(done[k - 1], skip)
    IN  done[n]

Execute(r, o) ==
    IF o.op \in {"ordinal", "ordinalImm", "special"} THEN [r EXCEPT !.ordinal = o.a]
    ELSE IF o.op = "symbol"
    THEN [r EXCEPT !.sym = o.a, !.flag = o.b, !.names = @ \cup {<<o.a, o.b>>}]
    ELSE IF o.op = "type"      THEN [r EXCEPT !.type = o.a]
    ELSE IF o.op = "addend"    THEN [r EXCEPT !.addend = o.a]
    ELSE IF o.op = "seg"       THEN [r EXCEPT !.seg = o.a, !.address = o.b]
    ELSE IF o.op = "add"       THEN [r EXCEPT !.address = (@ + o.a) % Space]
    ELSE IF o.op = "addScaled" THEN [r EXCEPT !.address = (@ + o.a * PtrSize) % Space]
    ELSE IF o.op \in {"times", "timesImm"} THEN DoTimes(r, o.a, 0)
    ELSE IF o.op = "bind"      THEN DoPointer(r, 0)
    ELSE IF o.op \in {"timesAdd", "bindAdd"} THEN DoPointer(r, o.a)
    ELSE IF o.op = "bindAddScaled" THEN DoPointer(r, o.a * PtrSize)
    ELSE DoTimes(r, o.a, o.b)

\* the machine before the program
Reset == [ordinal |-> 0, sym |-> 0, flag |-> FALSE, type |-> 0, seg |-> 0, address |-> 0,
          addend |-> 0, names |-> {}, out |-> <<>>]

\* what a program does
RunOf(m) ==
    LET after[n \in 0 .. Len(m)] == IF n = 0 THEN Reset ELSE Execute(after[n - 1], m[n])
    IN  after[Len(m)]

-----------------------------------------------------------------------------
(* Properties. *)

\* the entries to rebase or bind: an entry's number among them
Placed   == {n \in DOMAIN info : info[n].type # Override}
Place(n) == Cardinality(Placed \cap 1 .. n)

\* the references to a symbol do not agree on whether it may be missing
Mixed(e) == \E f \in table.info : f.ordinal = e.ordinal /\ f.sym = e.sym /\ f.flag # e.flag

\* where a pointer is that the machine puts out
AddressOf(d) == IF d.seg = 0 THEN d.offset ELSE table.segs[d.seg].start + d.offset

\* The machine put out d for entry e.  A rebase does not leave the segment that
\* the program named last.
Means(d, e) ==
    /\ AddressOf(d) = e.address /\ d.type = e.type
    /\ d.addend = e.addend /\ d.sym = e.sym
    /\ table.stream = "bind" => d.ordinal = e.ordinal /\ (Mixed(e) \/ d.flag = e.flag)
    /\ table.stream = "rebase" => InSeg(d.seg, e.address)

\* Plain, and after each rewriting, the program rebases or binds what the
\* table says, each entry once: address, type, library, symbol, addend and
\* flag (RebaseInfoAtom, BindingInfoAtom and WeakBindingInfoAtom against the
\* machine of DyldInfoPrinter).
StreamMeansFixups ==
    step \notin {"sort", "convert"} =>
        LET run == RunOf(mid)
        IN  /\ {info[n] : n \in DOMAIN info} = table.info /\ Len(info) = Cardinality(table.info)
            /\ Len(run.out) = Cardinality(Placed)
            /\ \A n \in Placed : Means(run.out[Place(n)], info[n])
            /\ \A e \in table.info : e.type = Override => <<e.sym, e.flag>> \in run.names

OpSize(o) ==
    CASE o.op \in {"add", "times", "timesAdd", "bindAdd", "ordinal"} -> 1 + UlebSize(o.a)
      [] o.op = "seg"      -> 1 + UlebSize(o.b)
      [] o.op = "skipping" -> 1 + UlebSize(o.a) + UlebSize(o.b)
      [] OTHER -> 1

ProgramSize(m) == FoldLeft(LAMBDA n, o : n + OpSize(o), 0, m)

\* No rewriting makes the program longer ("worth compressing").
NeverGrows == [][step \notin {"sort", "convert"} => ProgramSize(mid') <= ProgramSize(mid)]_streamVars

\* If object files do not agree on whether a symbol may be missing, it may not
\* (-weak_reference_mismatches, whose default is non-weak).
MismatchIsNonWeak ==
    step = "done" /\ table.stream = "bind" =>
        \A n \in DOMAIN info : Mixed(info[n]) => ~RunOf(mid).out[n].flag
=============================================================================
