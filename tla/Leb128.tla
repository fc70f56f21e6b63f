------------------------------- MODULE Leb128 -------------------------------
(***************************************************************************)
(* How long a number is in LEB128, the encoding of the link edit tables.   *)
(***************************************************************************)
EXTENDS Naturals

CONSTANT
    UlebUnit    \* 128, what a byte of a number counts

ASSUME UlebAssumption == UlebUnit \in Nat \ {0, 1}

UlebSize(v) ==
    LET size[x \in 0 .. v] == IF x < UlebUnit THEN 1 ELSE 1 + size[x \div UlebUnit]
    IN  size[v]
=============================================================================
