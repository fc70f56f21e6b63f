---------------------------- MODULE MCExportTrie ----------------------------
(***************************************************************************)
(* Instances of ExportTrie: names of two characters.                       *)
(***************************************************************************)
EXTENDS ExportTrie

Names(len) == UNION {[1 .. n -> {1, 2}] : n \in 1 .. len}

\* an entry whose kind and address depend on where in the table it is
ExportOf(name, n) ==
    [name |-> name, kind |-> CASE n = 2 -> "reexport" [] n = 3 -> "resolver" [] OTHER -> "regular",
     address |-> IF n % 2 = 0 THEN 9 ELSE n, other |-> 1, import |-> IF n = 2 THEN <<1>> ELSE <<>>]

Tables(names, sizes) ==
    UNION {{[n \in 1 .. s |-> ExportOf(x[n], n)] :
               x \in {y \in [1 .. s -> names] : Cardinality({y[n] : n \in 1 .. s}) = s}} :
           s \in sizes}

MCExports == Tables(Names(3), 1 .. 3) \cup Tables(Names(2), 4 .. 5)

\* an entry with an imported name whose length takes the size past one byte
MCLongImport == {<<[name |-> <<1>>, kind |-> "reexport", address |-> 0, other |-> 1,
                    import |-> [k \in 1 .. n |-> 1]],
                   [ExportOf(<<2>>, 1) EXCEPT !.address = a]>> : n \in 0 .. 6, a \in 0 .. 9}
=============================================================================
