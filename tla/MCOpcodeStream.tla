--------------------------- MODULE MCOpcodeStream ---------------------------
(***************************************************************************)
(* Instances of OpcodeStream: pointers of two bytes, two or three segments *)
(* that follow each other with and without a gap.                          *)
(***************************************************************************)
EXTENDS OpcodeStream, TLC

MCSegs(gap) == <<[start |-> 8, end |-> 24], [start |-> 24 + gap, end |-> 32 + gap]>>

Pointer == 1
Text    == 2

Rebased(types, addresses) ==
    {[type |-> types[a], address |-> a, ordinal |-> 0, sym |-> 0, flag |-> FALSE, addend |-> 0] :
        a \in addresses}

\* all sets of aligned pointers
Aligned ==
    UNION {{[stream |-> "rebase", segs |-> MCSegs(gap), info |-> Rebased([a \in s |-> Pointer], s)] :
                s \in SUBSET ({8, 10, 12, 14, 16, 18, 20, 22} \cup {24 + gap, 28 + gap})} :
           gap \in {0, 6}}

\* a read-only segment before or after a writable one, odd addresses
TwoTypes == {[stream |-> "rebase", segs |-> MCSegs(0),
              info |-> Rebased([a \in s |-> IF (a < 24) = first THEN Text ELSE Pointer], s)] :
                first \in BOOLEAN, s \in SUBSET {8, 10, 13, 17, 22, 24, 26, 29}}

BindAt(a, f, w, n) ==
    [type |-> Pointer, address |-> a, ordinal |-> IF f = 1 THEN -2 ELSE f + 1, sym |-> f,
     flag |-> w, addend |-> n]

\* binds to up to three symbols of different libraries
BindsTo(fs, weak(_), addends) ==
    UNION {{{BindAt(a, f[a], weak(f[a]), n[a]) : a \in s} :
                f \in [s -> fs], n \in [s -> addends]} :
           s \in SUBSET {8, 10, 12, 14, 20, 22, 24, 28}}

MCBinds == {[stream |-> "bind", segs |-> MCSegs(0), info |-> i] :
                i \in BindsTo({1, 4}, LAMBDA f : f = 4, {0}) \cup
                      UNION {{{BindAt(a, 3, FALSE, n[a]) : a \in s} : n \in [s -> {0, 1}]} :
                                s \in SUBSET {9, 12, 14, 16, 22}}}

\* weak binds, and names that override a weak definition
MCWeak == {[stream |-> "weak", segs |-> MCSegs(6),
            info |-> {[BindAt(a, f[a], FALSE, 0) EXCEPT !.ordinal = 0] : a \in s}
                     \cup {[type |-> Override, address |-> 8, ordinal |-> 0, sym |-> 2,
                            flag |-> w, addend |-> 0] : w \in strong}] :
                strong \in {{}, {TRUE}, {FALSE}},
                <<s, f>> \in UNION {{s} \X [s -> {1, 2}] : s \in SUBSET {8, 10, 12, 20, 30}}}

\* references of both kinds to one symbol
MCMixed == {[stream |-> "bind", segs |-> MCSegs(0),
             info |-> {BindAt(a, 3, w[a], 0) : a \in {8, 10, 24}}] : w \in [{8, 10, 24} -> BOOLEAN]}

MCInputs == Aligned \cup TwoTypes \cup MCBinds \cup MCWeak \cup MCMixed
=============================================================================
