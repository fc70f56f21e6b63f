-------------------------- MODULE MCChainedFixups --------------------------
(***************************************************************************)
(* Instances of ChainedFixups: pages of seven slots, a distance of two, so *)
(* that a gap of three slots has to be bridged.                            *)
(***************************************************************************)
EXTENDS ChainedFixups

MCInlineMax == [ptr32 |-> 1, ptr64 |-> 3, arm64e |-> 5, firmware |-> 0]

ToRebase(n)    == [bind |-> FALSE, to |-> n]
ToBind(f, a, u) == [bind |-> TRUE, sym |-> f, addend |-> a, auth |-> u]

\* what a slot may hold: a pointer, a number that fits a target, one that does not
Fill == {"pointer", "fits", "wide"}
Number(c, s) == IF c = "fits" THEN IF s % 2 = 0 THEN 4 ELSE -4
                              ELSE IF s % 2 = 0 THEN 5 ELSE -5

ImageOf(format, shared, segs, fill) ==
    LET ptrs == {s \in DOMAIN fill : fill[s] = "pointer"}
    IN  [format |-> format, shared |-> shared, segs |-> segs, maxRebase |-> 6,
         target |-> [s \in ptrs |-> IF s % 3 = 1 /\ format # "firmware"
                                    THEN ToBind("f", 0, FALSE) ELSE ToRebase(5)],
         data   |-> [s \in DOMAIN fill \ ptrs |-> Number(fill[s], s)]]

Seg(a, b) == [first |-> a, last |-> b]

\* one segment, its second page of two slots
Chains32 == {ImageOf("ptr32", FALSE, <<Seg(0, 8)>>, f) :
                f \in {x \in [0 .. 8 -> Fill] : x[0] = "pointer" /\ x[8] = "pointer"}}

\* two pages, of one segment or of two, without words to bridge gaps with
Sparse == {x \in [0 .. 13 -> {"pointer", "wide"}] :
              x[0] = "pointer" /\ Cardinality({s \in 0 .. 13 : x[s] = "pointer"}) \in 3 .. 5}
Lists32 == {ImageOf("ptr32", b, segs, f) :
                b \in BOOLEAN, f \in Sparse,
                segs \in {<<Seg(0, 13)>>, <<Seg(0, 6), Seg(7, 13)>>}}

Paged == {ImageOf(fmt, FALSE, <<Seg(0, 6), Seg(7, 9)>>, f) :
                fmt \in {"ptr64", "firmware"},
                f \in {x \in [0 .. 9 -> {"pointer", "fits"}] : \E s \in 0 .. 9 : x[s] = "pointer"}}

\* three neighbours bound with addends on both sides of every limit; those of
\* the first and the last may be authenticated
Bound(fmt, addends, auths) ==
    {[format |-> fmt, shared |-> FALSE, segs |-> <<Seg(0, 2)>>, maxRebase |-> 6,
      target |-> 0 :> ToBind("f", a[1], u[1]) @@ 1 :> ToBind(g, a[2], FALSE)
                 @@ 2 :> ToBind("f", a[3], u[2]),
      data |-> <<>>] :
         a \in [1 .. 3 -> addends], g \in {"f", "g"}, u \in auths \X auths}

MCImages ==
    Chains32 \cup Lists32 \cup Paged
    \cup Bound("ptr32", {0, 1, 5}, {FALSE})
    \cup Bound("ptr64", {0, 3, 4}, {FALSE})
    \cup Bound("arm64e", {-7, 0, 3, 6}, BOOLEAN)

\* the addends between what a 32-bit pointer holds and what ensureTarget
\* takes to be large
MCBetween == Bound("ptr32", {0, 1, 2, 5}, {FALSE})
=============================================================================
