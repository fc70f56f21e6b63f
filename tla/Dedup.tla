------------------------------- MODULE Dedup --------------------------------
(***************************************************************************)
(* Code deduplication: functions that need not be unique (auto-hide) and   *)
(* have the same instructions are merged into one.  Instructions with      *)
(* calls are the same if the calls lead to functions that are the same,    *)
(* which for functions that call each other is asked while it is answered. *)
(*                                                                         *)
(* Of a merged function an alias is left, in front of the one kept, and    *)
(* what referred to the function is redirected to the alias.               *)
(***************************************************************************)
EXTENDS Naturals, Sequences, FiniteSets, TLC, SequencesExt

CONSTANTS
    Data,         \* atoms that are not code, as numbers above those of the others
    DedupInputs   \* the inputs considered

FixupRecords ==
    [kind : {"call", "pointer"},       \* a branch, or any other reference
     bound : {"direct", "slot"},       \* to the atom, or to its binding table slot
     to : Nat \cup Data]

\* Functions are numbered from 1 on in the order of the section.
DedupInputRecords ==
    [content : Seq(Nat),               \* size and bytes, as one value
     name : Seq(Nat),
     autoHide : SUBSET Nat,
     fixups : Seq(Seq(FixupRecords))]

ASSUME DedupAssumption ==
    \A d \in DedupInputs :
        /\ d \in DedupInputRecords
        /\ DOMAIN d.name = DOMAIN d.content /\ DOMAIN d.fixups = DOMAIN d.content
        /\ d.autoHide \subseteq DOMAIN d.content
        /\ \A f \in DOMAIN d.content : \A i \in DOMAIN d.fixups[f] :
              d.fixups[f][i].to \in DOMAIN d.content \cup Data

VARIABLES
    given,      \* the input; never changes
    progress,   \* "match", "alias" or "done"
    left,       \* functions still to be looked up, which is in their order
    groups,     \* the map: the duplicates of each function that is a key
    textAtoms,  \* the atoms of the section
    table,      \* indirectBindingTable: what the slot of an atom is bound to
    direct,     \* what fixups bound directly to an atom are bound to now
    crossed     \* the functions a guess made equal, see SameTargets

dedupVars == <<given, progress, left, groups, textAtoms, table, direct, crossed>>

Functions == DOMAIN given.content
FixupsOf(f) == given.fixups[f]

\* The alias that takes a function's place
AliasOf(f) == Len(given.content) + f

Target(fx) == IF fx.bound = "slot" THEN table[fx.to] ELSE direct[fx.to]

-----------------------------------------------------------------------------
(* Comparing functions.                                                    *)

\* Calls to auto-hide functions are not part of the hash.
Hashed(fx) == ~ (fx.kind = "call" /\ Target(fx) \in given.autoHide)

\* atom_hashing::hash(): what goes into it
Hash(f) ==
    <<given.content[f],
      [i \in DOMAIN FixupsOf(f) |->
          IF ~ Hashed(FixupsOf(f)[i]) THEN <<>>
          ELSE IF Target(FixupsOf(f)[i]) \in Functions
               THEN <<given.name[Target(FixupsOf(f)[i])]>>
               ELSE <<Target(FixupsOf(f)[i])>>]>>

\* BackChain::inCallChain(), a chain being the pairs that are compared: the
\* pair the comparison began with is not asked.
InCallChain(chain, t) == \E p \in chain : t \in {p[1], p[2]}

\* For a mutant: calls are taken for the same if the hashes are.
CompareShallow(fx1, fx2, chain) ==
    CASE fx1.kind # fx2.kind \/ fx1.bound # fx2.bound -> "differ"
      [] Target(fx1) = Target(fx2) -> "same"
      [] {Target(fx1), Target(fx2)} \subseteq Functions -> "same"
      [] OTHER -> "differ"

\* What a comparison of two targets has to do
Compare(fx1, fx2, chain) ==
    IF fx1.kind # fx2.kind \/ fx1.bound # fx2.bound THEN "differ"
    ELSE IF Target(fx1) = Target(fx2) THEN "same"
    ELSE IF fx1.kind # "call" \/ ~ ({Target(fx1), Target(fx2)} \subseteq Functions) THEN "differ"
    ELSE IF InCallChain(chain, Target(fx1)) /\ InCallChain(chain, Target(fx2)) THEN "guess"
    ELSE "recurse"

Questions == [f : Functions, g : Functions, chain : SUBSET (Functions \X Functions)]

\* The question about a pair of targets that a question leads to
Deeper(q, t, u) == [f |-> t, g |-> u, chain |-> q.chain \cup {<<t, u>>}]

\* The answer to a question, and whether for it a guess was made about two
\* functions the chain does not hold as a pair; eq has answers to deeper ones.
Answer(eq, q) ==
    LET F == FixupsOf(q.f)
        G == FixupsOf(q.g)
        doing(i) == Compare(F[i], G[i], q.chain)
        deeper(i) == eq[Deeper(q, Target(F[i]), Target(G[i]))]
        unpaired(i) == LET t == Target(F[i]) u == Target(G[i])
                       IN  {<<t, u>>, <<u, t>>} \cap q.chain = {}
    IN  IF Hash(q.f) # Hash(q.g) \/ Len(F) # Len(G)
        THEN [same |-> FALSE, crossed |-> FALSE]
        ELSE [same |-> \A i \in DOMAIN F :
                          \/ doing(i) \in {"same", "guess"}
                          \/ doing(i) = "recurse" /\ deeper(i).same,
              crossed |-> \E i \in DOMAIN F :
                          \/ doing(i) = "guess" /\ unpaired(i)
                          \/ doing(i) = "recurse" /\ deeper(i).crossed]

\* atom_equal
Equal ==
    LET eq[q \in Questions] == Answer(eq, q)
    IN  [p \in Functions \X Functions |-> eq[[f |-> p[1], g |-> p[2], chain |-> {}]]]

-----------------------------------------------------------------------------
(* The pass.                                                               *)

DedupInit ==
    /\ given \in DedupInputs
    /\ progress = "match"
    /\ left = given.autoHide
    /\ groups = <<>>
    /\ textAtoms = [f \in Functions |-> f]
    /\ table = [a \in Functions \cup Data |-> a]
    /\ direct = [a \in Functions \cup Data |-> a]
    /\ crossed = {}

\* The next auto-hide function is put to a key it is equal to, any one of
\* several, or becomes a key.
MatchFunction ==
    /\ progress = "match"
    /\ \E next \in left :
       /\ \A f \in left : next <= f
       /\ left' = left \ {next}
       /\ \E eq \in {[k \in DOMAIN groups |-> Equal[<<k, next>>]]} :
             LET keys == {k \in DOMAIN groups : eq[k].same}
             IN  \/ /\ keys = {}
                    /\ groups' = [k \in DOMAIN groups \cup {next} |->
                                  IF k = next THEN <<next>> ELSE groups[k]]
                    /\ UNCHANGED crossed
                 \/ \E k \in keys :
                    /\ groups' = [groups EXCEPT ![k] = Append(@, next)]
                    /\ crossed' = crossed \cup {f \in {next} : eq[k].crossed}
    /\ UNCHANGED <<given, progress, textAtoms, table, direct>>

\* All are in the map.
EndMatch ==
    /\ progress = "match" /\ left = {}
    /\ progress' = "alias"
    /\ UNCHANGED <<given, left, groups, textAtoms, table, direct, crossed>>

Index(s, a) == CHOOSE i \in DOMAIN s : s[i] = a

\* The aliases of a key's duplicates are put in front of the key.
AliasGroup(k) ==
    /\ progress = "alias" /\ Len(groups[k]) > 1
    /\ AliasOf(groups[k][2]) \notin ToSet(textAtoms)
    /\ LET dups == Tail(groups[k])
           i == Index(textAtoms, k)
       IN  textAtoms' = SubSeq(textAtoms, 1, i - 1) \o [n \in DOMAIN dups |-> AliasOf(dups[n])]
                     \o SubSeq(textAtoms, i, Len(textAtoms))
    /\ UNCHANGED <<given, progress, left, groups, table, direct, crossed>>

\* The functions that have been replaced: replacementMap
Replaced == {f \in Functions : AliasOf(f) \in ToSet(textAtoms)}

Redirected(bound) == [a \in DOMAIN bound |-> IF a \in Replaced THEN AliasOf(a) ELSE bound[a]]

\* A list without the elements of a set
Without(s, gone) ==
    LET kept[n \in 0..Len(s)] == IF n = 0 THEN <<>>
                                ELSE IF s[n] \in gone THEN kept[n - 1]
                                ELSE Append(kept[n - 1], s[n])
    IN  kept[Len(s)]

\* All have aliases: references are redirected, and the duplicates removed.
Redirect ==
    /\ progress = "alias"
    /\ \A k \in DOMAIN groups : ToSet(Tail(groups[k])) \subseteq Replaced
    /\ table' = Redirected(table)
    /\ direct' = Redirected(direct)
    /\ textAtoms' = Without(textAtoms, Replaced)
    /\ progress' = "done"
    /\ UNCHANGED <<given, left, groups, crossed>>

DedupFinished == progress = "done" /\ UNCHANGED dedupVars

DedupNext == \/ MatchFunction \/ EndMatch \/ \E k \in DOMAIN groups : AliasGroup(k)
        \/ Redirect \/ DedupFinished

DedupSpec == DedupInit /\ [][DedupNext]_dedupVars

-----------------------------------------------------------------------------
(* Properties.                                                             *)

\* Type invariant: the groups hold what has been looked up once each, and
\* the section each function or its alias.
DedupTypeOK ==
    /\ progress \in {"match", "alias", "done"}
    /\ DOMAIN groups \subseteq given.autoHide
    /\ \A k \in DOMAIN groups : Head(groups[k]) = k
    /\ \A f \in given.autoHide :
          Cardinality({k \in DOMAIN groups : f \in ToSet(groups[k])})
             = IF f \in left THEN 0 ELSE 1
    /\ IsInjective(textAtoms)
    /\ progress = "done" =>
          \A f \in Functions : f \in ToSet(textAtoms) <=> AliasOf(f) \notin ToSet(textAtoms)
    /\ crossed \subseteq given.autoHide

\* The pairs of a relation whose functions make the same references, or calls
\* to functions that are related.
Confirmed(rel) ==
    {p \in rel :
        \A i \in DOMAIN FixupsOf(p[1]) :
           LET a == FixupsOf(p[1])[i]
               b == FixupsOf(p[2])[i]
           IN  /\ a.kind = b.kind /\ a.bound = b.bound
               /\ a.to = b.to \/ (a.kind = "call" /\ <<a.to, b.to>> \in rel)}

SameCode == {p \in Functions \X Functions :
                /\ given.content[p[1]] = given.content[p[2]]
                /\ Len(FixupsOf(p[1])) = Len(FixupsOf(p[2]))}

\* The functions that cannot be told apart: the same instructions, and at
\* each place the same reference, or calls to such functions again.
\* What is left when nothing is taken away any more
Alike ==
    LET most == Cardinality(Functions) * Cardinality(Functions)
        near[n \in 0..most] == IF n = 0 THEN SameCode ELSE Confirmed(near[n - 1])
    IN  near[CHOOSE n \in 0..most : Confirmed(near[n]) = near[n]]

\* Functions that are merged behave alike, calls through recursion included,
\* if each guess was about two functions that were being compared.
MergedBehaveAlike ==
    progress = "done" =>
        \A k \in DOMAIN groups : \A f \in ToSet(groups[k]) \ crossed : <<k, f>> \in Alike

\* Merged functions call the same functions, or such as "will de-dup
\* together" (code_dedup.cpp:203).
MergedAreTheSame ==
    progress = "done" =>
        \A k \in DOMAIN groups : \A f \in ToSet(groups[k]) : <<k, f>> \in Alike

\* If all functions are auto-hide, of those that behave alike one is left,
\* whatever was guessed.
NothingLeftToMerge ==
    progress = "done" /\ given.autoHide = Functions =>
        \A k, l \in DOMAIN groups : k # l => <<k, l>> \notin Alike

\* What is left refers to nothing that was removed, directly or through the
\* table; an alias stands before its function, other aliases of it between.
RemovedAreReplaced ==
    progress = "done" =>
        /\ \A f \in Functions \cap ToSet(textAtoms) : \A i \in DOMAIN FixupsOf(f) :
              Target(FixupsOf(f)[i]) \in ToSet(textAtoms) \cup Data
        /\ \A k \in DOMAIN groups : \A f \in ToSet(groups[k]) \ {k} :
              \A n \in Index(textAtoms, AliasOf(f))..(Index(textAtoms, k) - 1) :
                 textAtoms[n] \in {AliasOf(d) : d \in ToSet(groups[k])}

\* Merging goes as far as it should, and what it removes is not missed.
MergedIfAlike == DedupTypeOK /\ MergedBehaveAlike /\ NothingLeftToMerge /\ RemovedAreReplaced
=============================================================================
