---------------------------- MODULE Dedup_proofs ----------------------------
(***************************************************************************)
(* Proofs about Dedup, for every list of functions: what is merged behaves *)
(* alike, no two that do are left, and what was removed is replaced.       *)
(***************************************************************************)
EXTENDS Dedup, FiniteSetTheorems, TLAPS

------------------------------------------------------------------------------
(***************************************************************************)
(* Numbers and recursions.                                                 *)
(***************************************************************************)
\* Of some natural numbers one is the least.
LEMMA LeastNumber ==
    ASSUME NEW S \in SUBSET Nat, S # {}
    PROVE  \E x \in S : \A y \in S : x <= y
<1> DEFINE Upto(x) == {z \in S : z <= x}
           C == {Upto(x) : x \in S}
<1>1. C \subseteq FiniteSubsetsOf(S) /\ C # {}
  <2>1. ASSUME NEW x \in S  PROVE Upto(x) \in FiniteSubsetsOf(S)
    <3>1. x \in Nat /\ Upto(x) \in SUBSET Nat /\ \A z \in Upto(x) : z <= x
      OBVIOUS
    <3>2. IsFiniteSet(Upto(x))
      BY <3>1, FS_BoundedSetOfNaturals
    <3>3. QED
      BY <3>2 DEF FiniteSubsetsOf
  <2>2. QED
    BY <2>1
<1>6. IsWellFoundedOn(StrictSubsetOrdering(S), FiniteSubsetsOf(S))
  BY FS_StrictSubsetOrderingWellFounded
<1> HIDE DEF C
<1>2. PICK X \in C : \A Y \in C : <<Y, X>> \notin StrictSubsetOrdering(S)
  BY <1>1, <1>6, WFMin
<1>3. PICK x \in S : X = Upto(x)
  BY DEF C
<1>4. ASSUME NEW y \in S, y < x  PROVE FALSE
  <2>1. x \in Nat /\ y \in Nat /\ \A z \in S : z \in Nat
    OBVIOUS
  <2>2. Upto(y) \subseteq Upto(x) /\ x \in Upto(x) /\ x \notin Upto(y)
    <3>1. \A z \in S : z <= y => z <= x
      BY <1>4, <2>1
    <3>2. x <= x /\ ~ (x <= y)
      BY <1>4, <2>1
    <3>3. QED
      BY <3>1, <3>2
  <2>3. Upto(y) \in C /\ <<Upto(y), X>> \in StrictSubsetOrdering(S)
    BY <1>3, <2>2 DEF C, StrictSubsetOrdering
  <2>4. QED
    BY <1>2, <2>3
<1>5. QED
  BY <1>4

\* A function that gives each step of a recursion over 0 .. m in a set
IsStep(g, m, S) == g \in [(1 .. m) \X S -> S]

\* A solution of the recursion
IsSolution(f, m, S, z, g) ==
    /\ f \in [0 .. m -> S]
    /\ \A n \in 0 .. m : f[n] = IF n = 0 THEN z ELSE g[<<n, f[n - 1]>>]

\* A recursion over numbers up to some number has a solution.
LEMMA RecursionSolved ==
    ASSUME NEW m \in Nat, NEW S, NEW z \in S, NEW g, IsStep(g, m, S)
    PROVE  \E f : IsSolution(f, m, S, z, g)
<1> USE DEF IsStep
<1> DEFINE Solves(f, k) ==
               /\ f \in [0 .. k -> S]
               /\ \A n \in 0 .. k : f[n] = IF n = 0 THEN z ELSE g[<<n, f[n - 1]>>]
           unsolved == {k \in 0 .. m : \A f : ~ Solves(f, k)}
<1>1. unsolved = {}
  <2> SUFFICES ASSUME unsolved # {}  PROVE FALSE
    OBVIOUS
  <2>1. PICK k \in unsolved : \A j \in unsolved : k <= j
    <3>1. unsolved \in SUBSET Nat
      OBVIOUS
    <3> HIDE DEF unsolved
    <3>2. QED
      BY <3>1, LeastNumber
  <2>2. CASE k = 0
    <3>1. Solves([n \in 0 .. 0 |-> z], 0)
      OBVIOUS
    <3> HIDE DEF Solves
    <3>2. QED
      BY <2>2, <3>1
  <2>3. CASE k # 0
    <3>1. k - 1 \in 0 .. m /\ k \in 1 .. m /\ ~ (k <= k - 1)
      BY <2>3
    <3> HIDE DEF Solves
    <3>9. k - 1 \notin unsolved
      <4> HIDE DEF unsolved
      <4>1. unsolved \in SUBSET Nat
        BY DEF unsolved
      <4>2. QED
        BY <2>1, <3>1
    <3>2. PICK f : Solves(f, k - 1)
      BY <3>1, <3>9
    <3> USE DEF Solves
    <3>3. f[k - 1] \in S /\ g[<<k, f[k - 1]>>] \in S
      BY <3>1, <3>2
    <3> DEFINE h == [n \in 0 .. k |-> IF n = k THEN g[<<k, f[k - 1]>>] ELSE f[n]]
    <3>4. \A n \in 0 .. k : n # k => n \in 0 .. (k - 1)
      BY <3>1
    <3>5. h \in [0 .. k -> S]
      BY <3>2, <3>3, <3>4
    <3>6. ASSUME NEW n \in 0 .. k
          PROVE  h[n] = IF n = 0 THEN z ELSE g[<<n, h[n - 1]>>]
      <4>1. CASE n = k
        <5>1. k - 1 \in 0 .. k /\ k - 1 # k /\ k # 0
          BY <3>1
        <5>2. h[k - 1] = f[k - 1]
          BY <5>1
        <5>3. QED
          BY <4>1, <5>1, <5>2
      <4>2. CASE n # k
        <5>1. n \in 0 .. (k - 1) /\ (n # 0 => n - 1 \in 0 .. (k - 1) /\ n - 1 # k /\ n - 1 \in 0 .. k)
          BY <3>1, <4>2
        <5>2. h[n] = f[n] /\ (n # 0 => h[n - 1] = f[n - 1])
          BY <4>2, <5>1
        <5>3. f[n] = IF n = 0 THEN z ELSE g[<<n, f[n - 1]>>]
          BY <3>2, <5>1
        <5>4. QED
          BY <5>2, <5>3
      <4>3. QED
        BY <4>1, <4>2
    <3>7. Solves(h, k)
      <4> HIDE DEF h
      <4>1. QED
        BY <3>5, <3>6
    <3> HIDE DEF Solves
    <3>8. QED
      BY <2>1, <3>7
  <2>4. QED
    BY <2>2, <2>3
<1>2. PICK f : Solves(f, m)
  <2>1. m \in 0 .. m
    OBVIOUS
  <2> HIDE DEF Solves
  <2>2. QED
    BY <1>1, <2>1
<1>3. QED
  BY <1>2 DEF IsSolution

------------------------------------------------------------------------------
(***************************************************************************)
(* The input.                                                              *)
(***************************************************************************)
\* What is known of the functions and their references
LEMMA InputFields ==
    ASSUME given \in DedupInputs
    PROVE  /\ Len(given.content) \in Nat /\ Functions = 1 .. Len(given.content)
           /\ Functions \in SUBSET Nat /\ IsFiniteSet(Functions)
           /\ Cardinality(Functions) = Len(given.content)
           /\ given.autoHide \in SUBSET Functions
           /\ \A f \in Functions :
                 /\ FixupsOf(f) \in Seq(FixupRecords)
                 /\ DOMAIN FixupsOf(f) = 1 .. Len(FixupsOf(f))
                 /\ \A i \in DOMAIN FixupsOf(f) :
                       /\ FixupsOf(f)[i].kind \in {"call", "pointer"}
                       /\ FixupsOf(f)[i].bound \in {"direct", "slot"}
                       /\ FixupsOf(f)[i].to \in Functions \cup Data
<1>1. /\ given \in DedupInputRecords
      /\ DOMAIN given.fixups = DOMAIN given.content
      /\ given.autoHide \subseteq DOMAIN given.content
      /\ \A f \in DOMAIN given.content : \A i \in DOMAIN given.fixups[f] :
             given.fixups[f][i].to \in DOMAIN given.content \cup Data
  BY DedupAssumption
<1>2. given.content \in Seq(Nat) /\ given.fixups \in Seq(Seq(FixupRecords))
  BY <1>1 DEF DedupInputRecords
<1>3. Len(given.content) \in Nat /\ Functions = 1 .. Len(given.content)
  BY <1>2 DEF Functions
<1>4. IsFiniteSet(Functions) /\ Cardinality(Functions) = Len(given.content)
  BY <1>3, FS_Interval
<1>5. ASSUME NEW f \in Functions
      PROVE  /\ FixupsOf(f) \in Seq(FixupRecords)
             /\ DOMAIN FixupsOf(f) = 1 .. Len(FixupsOf(f))
             /\ \A i \in DOMAIN FixupsOf(f) :
                   /\ FixupsOf(f)[i].kind \in {"call", "pointer"}
                   /\ FixupsOf(f)[i].bound \in {"direct", "slot"}
                   /\ FixupsOf(f)[i].to \in Functions \cup Data
  <2>1. FixupsOf(f) \in Seq(FixupRecords)
    BY <1>1, <1>2 DEF Functions, FixupsOf
  <2>2. \A i \in DOMAIN FixupsOf(f) : FixupsOf(f)[i].to \in Functions \cup Data
    BY <1>1 DEF Functions, FixupsOf
  <2>3. \A i \in DOMAIN FixupsOf(f) : FixupsOf(f)[i] \in FixupRecords
    BY <2>1
  <2>4. QED
    BY <2>1, <2>2, <2>3 DEF FixupRecords
<1>6. QED
  BY <1>1, <1>3, <1>4, <1>5 DEF Functions

------------------------------------------------------------------------------
(***************************************************************************)
(* Functions that cannot be told apart.                                    *)
(***************************************************************************)
LEMMA ConfirmedIsMonotone ==
    ASSUME NEW R, NEW S, R \subseteq S
    PROVE  Confirmed(R) \subseteq Confirmed(S) /\ Confirmed(R) \subseteq R
BY DEF Confirmed

\* Alike is the greatest relation of functions with the same code that the
\* references confirm.
LEMMA AlikeIsGreatest ==
    ASSUME given \in DedupInputs
    PROVE  /\ Alike \subseteq SameCode /\ Confirmed(Alike) = Alike
           /\ \A R \in SUBSET SameCode : Confirmed(R) = R => R \subseteq Alike
<1> DEFINE most == Cardinality(Functions) * Cardinality(Functions)
           Solves(f) == f = [n \in 0 .. most |-> IF n = 0 THEN SameCode ELSE Confirmed(f[n - 1])]
           near == CHOOSE f : Solves(f)
           S == SUBSET SameCode
           step == [x \in (1 .. most) \X S |-> Confirmed(x[2])]
<1>1. most \in Nat /\ IsFiniteSet(SameCode) /\ Cardinality(SameCode) <= most
  <2>1. IsFiniteSet(Functions) /\ Cardinality(Functions) \in Nat
    BY InputFields, FS_CardinalityType
  <2>2. /\ IsFiniteSet(Functions \X Functions)
        /\ Cardinality(Functions \X Functions) = Cardinality(Functions) * Cardinality(Functions)
    BY <2>1, FS_Product
  <2>3. SameCode \subseteq Functions \X Functions
    BY DEF SameCode
  <2>4. IsFiniteSet(SameCode) /\ Cardinality(SameCode) <= Cardinality(Functions \X Functions)
    BY <2>2, <2>3, FS_Subset
  <2>5. QED
    BY <2>1, <2>2, <2>4
<1> HIDE DEF most
<1>2. Solves(near)
  <2>1. IsStep(step, most, S)
    <3>1. \A R \in S : Confirmed(R) \in S
      BY DEF Confirmed
    <3>2. QED
      BY <3>1 DEF IsStep
  <2>2. \A n \in 1 .. most, R \in S : step[<<n, R>>] = Confirmed(R)
    OBVIOUS
  <2> HIDE DEF step
  <2>3. SameCode \in S
    OBVIOUS
  <2>4. PICK f : IsSolution(f, most, S, SameCode, step)
    <3> HIDE DEF S
    <3>1. QED
      BY <1>1, <2>1, <2>3, RecursionSolved
  <2>5. ASSUME NEW n \in 0 .. most
        PROVE  f[n] = IF n = 0 THEN SameCode ELSE Confirmed(f[n - 1])
    <3>1. n # 0 => n \in 1 .. most /\ n - 1 \in 0 .. most
      BY <1>1
    <3>2. n # 0 => f[n - 1] \in S
      BY <2>4, <3>1 DEF IsSolution
    <3>3. n # 0 => step[<<n, f[n - 1]>>] = Confirmed(f[n - 1])
      BY <2>2, <3>1, <3>2
    <3>4. QED
      BY <2>4, <3>3 DEF IsSolution
  <2>6. Solves(f)
    <3>1. f = [n \in 0 .. most |-> f[n]]
      BY <2>4 DEF IsSolution
    <3>2. QED
      BY <2>5, <3>1
  <2> HIDE DEF Solves
  <2>7. QED
    BY <2>6
<1>3. Alike = near[CHOOSE n \in 0 .. most : Confirmed(near[n]) = near[n]]
  BY DEF Alike, most
<1>4. \A n \in 0 .. most : near[n] = IF n = 0 THEN SameCode ELSE Confirmed(near[n - 1])
  <2> HIDE DEF near
  <2>1. QED
    BY <1>2
<1> HIDE DEF near
<1> DEFINE Small(n) == /\ near[n] \subseteq SameCode
                       /\ Cardinality(near[n]) <= most - n
                       /\ \A R \in SUBSET SameCode : Confirmed(R) = R => R \subseteq near[n]
           big == {n \in 0 .. most : ~ near[n] \subseteq SameCode}
           mean == {n \in 0 .. most :
                       \E R \in SUBSET SameCode : Confirmed(R) = R /\ ~ R \subseteq near[n]}
           large == {n \in 0 .. most : ~ Cardinality(near[n]) <= most - n}
<1>5. \A n \in 0 .. most : near[n] \subseteq SameCode
  <2> SUFFICES big = {}
    OBVIOUS
  <2>1. ASSUME big # {}  PROVE FALSE
    <3>1. big \in SUBSET Nat
      BY <1>1
    <3>2. PICK n \in big : \A k \in big : n <= k
      <4> HIDE DEF big
      <4>1. QED
        BY <2>1, <3>1, LeastNumber
    <3>3. n # 0
      BY <1>4
    <3>4. n - 1 \in 0 .. most /\ ~ (n <= n - 1)
      BY <1>1, <3>3
    <3>5. near[n - 1] \subseteq SameCode
      BY <3>2, <3>4
    <3>6. near[n] = Confirmed(near[n - 1])
      BY <1>4, <3>3
    <3>7. QED
      BY <3>5, <3>6, ConfirmedIsMonotone
  <2>2. QED
    BY <2>1
<1>6. \A n \in 0 .. most : \A R \in SUBSET SameCode : Confirmed(R) = R => R \subseteq near[n]
  <2> SUFFICES mean = {}
    OBVIOUS
  <2>1. ASSUME mean # {}  PROVE FALSE
    <3>1. mean \in SUBSET Nat
      BY <1>1
    <3>2. PICK n \in mean : \A k \in mean : n <= k
      <4> HIDE DEF mean
      <4>1. QED
        BY <2>1, <3>1, LeastNumber
    <3>3. n # 0
      BY <1>4
    <3>4. n - 1 \in 0 .. most /\ ~ (n <= n - 1)
      BY <1>1, <3>3
    <3>5. \A R \in SUBSET SameCode : Confirmed(R) = R => R \subseteq near[n - 1]
      BY <3>2, <3>4
    <3>6. near[n] = Confirmed(near[n - 1])
      BY <1>4, <3>3
    <3>7. \A R \in SUBSET SameCode : Confirmed(R) = R => R \subseteq near[n]
      BY <3>5, <3>6, ConfirmedIsMonotone
    <3>8. QED
      BY <3>2, <3>7
  <2>2. QED
    BY <2>1
<1>7. \E n \in 0 .. most : Confirmed(near[n]) = near[n]
  <2> SUFFICES ASSUME \A n \in 0 .. most : Confirmed(near[n]) # near[n]
               PROVE  FALSE
    OBVIOUS
  <2>1. ASSUME large # {}  PROVE FALSE
    <3>1. large \in SUBSET Nat
      BY <1>1
    <3>2. PICK n \in large : \A k \in large : n <= k
      <4> HIDE DEF large
      <4>1. QED
        BY <2>1, <3>1, LeastNumber
    <3>3. n # 0
      BY <1>1, <1>4
    <3>4. n - 1 \in 0 .. most /\ ~ (n <= n - 1) /\ n \in 0 .. most
      BY <1>1, <3>3
    <3>5. Cardinality(near[n - 1]) <= most - (n - 1)
      BY <3>2, <3>4
    <3>6. near[n] = Confirmed(near[n - 1]) /\ near[n] # near[n - 1]
      BY <1>4, <3>3, <3>4
    <3>7. near[n] \subseteq near[n - 1] /\ near[n - 1] \subseteq SameCode
      BY <1>5, <3>4, <3>6, ConfirmedIsMonotone
    <3>8. IsFiniteSet(near[n - 1])
      BY <1>1, <3>7, FS_Subset
    <3>9. Cardinality(near[n]) \in Nat /\ Cardinality(near[n - 1]) \in Nat
      BY <3>7, <3>8, FS_Subset, FS_CardinalityType
    <3>10. Cardinality(near[n]) < Cardinality(near[n - 1])
      <4>1. near[n] \in SUBSET near[n - 1]
        BY <3>7
      <4>2. /\ Cardinality(near[n]) <= Cardinality(near[n - 1])
            /\ Cardinality(near[n - 1]) = Cardinality(near[n]) => near[n - 1] = near[n]
        BY <3>8, <4>1, FS_Subset
      <4>3. QED
        BY <3>6, <3>9, <4>2
    <3>11. QED
      BY <1>1, <3>2, <3>4, <3>5, <3>9, <3>10
  <2>2. most \in 0 .. most /\ ~ (most \in large)
    BY <1>1, <2>1
  <2>3. Cardinality(near[most]) <= 0
    BY <1>1, <2>2
  <2>4. near[most] = {}
    <3>1. IsFiniteSet(near[most])
      BY <1>1, <1>5, <2>2, FS_Subset
    <3>2. QED
      BY <2>3, <3>1, FS_CardinalityType, FS_EmptySet
  <2>5. Confirmed(near[most]) = near[most]
    BY <2>4 DEF Confirmed
  <2>6. QED
    BY <2>2, <2>5
<1>8. PICK n \in 0 .. most : Alike = near[n] /\ Confirmed(near[n]) = near[n]
  BY <1>3, <1>7
<1>9. QED
  BY <1>5, <1>6, <1>8

------------------------------------------------------------------------------
(***************************************************************************)
(* The comparison ends, because with each question that it leads to, there *)
(* is a function more in the chain.                                        *)
(***************************************************************************)
\* The functions that are not in the chain
Rest(q) == {x \in Functions : ~ InCallChain(q.chain, x)}

\* What a comparison finds to do
LEMMA CompareFacts ==
    ASSUME NEW fx1, NEW fx2, NEW chain
    PROVE  /\ Compare(fx1, fx2, chain) \in {"differ", "same", "guess", "recurse"}
           /\ Compare(fx1, fx2, chain) # "differ" =>
                 /\ fx1.kind = fx2.kind /\ fx1.bound = fx2.bound
                 /\ \/ Target(fx1) = Target(fx2)
                    \/ fx1.kind = "call" /\ Target(fx1) \in Functions /\ Target(fx2) \in Functions
           /\ Compare(fx1, fx2, chain) \in {"guess", "recurse"} =>
                 /\ Target(fx1) # Target(fx2)
                 /\ fx1.kind = "call" /\ Target(fx1) \in Functions /\ Target(fx2) \in Functions
           /\ Compare(fx1, fx2, chain) = "same" => Target(fx1) = Target(fx2)
           /\ Compare(fx1, fx2, chain) = "recurse" =>
                 ~ (InCallChain(chain, Target(fx1)) /\ InCallChain(chain, Target(fx2)))
           /\ /\ fx1.kind = fx2.kind /\ fx1.bound = fx2.bound
              /\ \/ Target(fx1) = Target(fx2)
                 \/ fx1.kind = "call" /\ Target(fx1) \in Functions /\ Target(fx2) \in Functions
              => Compare(fx1, fx2, chain) # "differ"
BY DEF Compare

\* A question that a question leads to has fewer functions that are not in
\* the chain.
LEMMA ChainGrows ==
    ASSUME given \in DedupInputs, NEW q \in Questions,
           NEW t \in Functions, NEW u \in Functions,
           ~ (InCallChain(q.chain, t) /\ InCallChain(q.chain, u))
    PROVE  /\ Deeper(q, t, u) \in Questions
           /\ Cardinality(Rest(q)) \in 0 .. Len(given.content)
           /\ Cardinality(Rest(Deeper(q, t, u))) \in 0 .. Len(given.content)
           /\ Cardinality(Rest(Deeper(q, t, u))) < Cardinality(Rest(q))
<1>1. /\ Len(given.content) \in Nat /\ IsFiniteSet(Functions)
      /\ Cardinality(Functions) = Len(given.content)
  BY InputFields
<1>2. \A R \in SUBSET Functions : /\ IsFiniteSet(R)
                                  /\ Cardinality(R) \in 0 .. Len(given.content)
  <2> SUFFICES ASSUME NEW R \in SUBSET Functions
               PROVE  IsFiniteSet(R) /\ Cardinality(R) \in 0 .. Len(given.content)
    OBVIOUS
  <2>1. IsFiniteSet(R) /\ Cardinality(R) <= Cardinality(Functions)
    BY <1>1, FS_Subset
  <2>2. QED
    BY <1>1, <2>1, FS_CardinalityType
<1> DEFINE d == Deeper(q, t, u)
<1>3. d \in Questions /\ d.chain = q.chain \cup {<<t, u>>}
  BY DEF Deeper, Questions
<1>4. ASSUME NEW x
      PROVE  InCallChain(d.chain, x) <=> InCallChain(q.chain, x) \/ x \in {t, u}
  <2> HIDE DEF d
  <2>1. <<t, u>>[1] = t /\ <<t, u>>[2] = u
    OBVIOUS
  <2>2. \A p : p \in d.chain <=> p \in q.chain \/ p = <<t, u>>
    BY <1>3
  <2>3. QED
    BY <2>1, <2>2 DEF InCallChain
<1> HIDE DEF d
<1>5. Rest(d) \in SUBSET Rest(q) /\ Rest(q) \in SUBSET Functions /\ Rest(d) # Rest(q)
  BY <1>4 DEF Rest
<1>6. /\ Cardinality(Rest(d)) <= Cardinality(Rest(q))
      /\ Cardinality(Rest(q)) = Cardinality(Rest(d)) => Rest(q) = Rest(d)
  <2>1. IsFiniteSet(Rest(q))
    BY <1>2, <1>5
  <2>2. QED
    BY <1>5, <2>1, FS_Subset
<1>7. /\ Cardinality(Rest(d)) \in 0 .. Len(given.content)
      /\ Cardinality(Rest(q)) \in 0 .. Len(given.content)
  BY <1>2, <1>5
<1>8. Cardinality(Rest(d)) < Cardinality(Rest(q))
  BY <1>1, <1>5, <1>6, <1>7
<1>9. QED
  BY <1>3, <1>7, <1>8 DEF d

Verdicts == [same : BOOLEAN, crossed : BOOLEAN]

\* An answer rests on the answers to questions with more in the chain only.
LEMMA AnswerRestsOn ==
    ASSUME given \in DedupInputs, NEW q \in Questions, NEW h, NEW k,
           \A d \in Questions : Cardinality(Rest(d)) < Cardinality(Rest(q)) => h[d] = k[d]
    PROVE  Answer(h, q) = Answer(k, q) /\ Answer(h, q) \in Verdicts
<1> DEFINE F == FixupsOf(q.f)
           G == FixupsOf(q.g)
           doing(i) == Compare(F[i], G[i], q.chain)
           deeper(e, i) == e[Deeper(q, Target(F[i]), Target(G[i]))]
           unpaired(i) == LET t == Target(F[i]) u == Target(G[i])
                          IN  {<<t, u>>, <<u, t>>} \cap q.chain = {}
           same(e) == \A i \in DOMAIN F :
                          \/ doing(i) \in {"same", "guess"}
                          \/ doing(i) = "recurse" /\ deeper(e, i).same
           guess(e) == \E i \in DOMAIN F :
                          \/ doing(i) = "guess" /\ unpaired(i)
                          \/ doing(i) = "recurse" /\ deeper(e, i).crossed
           apart == Hash(q.f) # Hash(q.g) \/ Len(F) # Len(G)
<1>1. \A e : Answer(e, q) = IF apart THEN [same |-> FALSE, crossed |-> FALSE]
                            ELSE [same |-> same(e), crossed |-> guess(e)]
  BY DEF Answer
<1>2. ASSUME NEW i \in DOMAIN F, doing(i) = "recurse"
      PROVE  deeper(h, i) = deeper(k, i)
  <2>1. /\ Target(F[i]) \in Functions /\ Target(G[i]) \in Functions
        /\ ~ (InCallChain(q.chain, Target(F[i])) /\ InCallChain(q.chain, Target(G[i])))
    BY <1>2, CompareFacts
  <2>2. /\ Deeper(q, Target(F[i]), Target(G[i])) \in Questions
        /\ Cardinality(Rest(Deeper(q, Target(F[i]), Target(G[i])))) < Cardinality(Rest(q))
    BY <2>1, ChainGrows
  <2>3. QED
    BY <2>2
<1> HIDE DEF F, doing, deeper, unpaired, apart
<1>3. same(h) = same(k) /\ guess(h) = guess(k)
  BY <1>2
<1>4. same(h) \in BOOLEAN /\ guess(h) \in BOOLEAN
  OBVIOUS
<1> HIDE DEF same, guess
<1>5. Answer(h, q) = Answer(k, q)
  BY <1>1, <1>3
<1>6. Answer(h, q) \in Verdicts
  <2>1. CASE apart
    <3>1. Answer(h, q) = [same |-> FALSE, crossed |-> FALSE]
      BY <1>1, <2>1
    <3>2. QED
      BY <3>1 DEF Verdicts
  <2>2. CASE ~ apart
    <3>1. Answer(h, q) = [same |-> same(h), crossed |-> guess(h)]
      BY <1>1, <2>2
    <3>2. QED
      BY <1>4, <3>1 DEF Verdicts
  <2>3. QED
    BY <2>1, <2>2
<1>7. QED
  BY <1>5, <1>6

\* Answers to all questions, on which Equal is based
Answers(eq) ==
    /\ eq \in [Questions -> Verdicts]
    /\ \A q \in Questions : eq[q] = Answer(eq, q)
    /\ \A f, g \in Functions : Equal[<<f, g>>] = eq[[f |-> f, g |-> g, chain |-> {}]]

\* There are answers to all questions.
LEMMA EqualSolved ==
    ASSUME given \in DedupInputs
    PROVE  \E eq : Answers(eq)
<1> DEFINE N == Len(given.content)
           S == [Questions -> Verdicts]
           Step(h) == [q \in Questions |-> Answer(h, q)]
           step == [x \in (1 .. (N + 2)) \X S |-> Step(x[2])]
           none == [q \in Questions |-> [same |-> FALSE, crossed |-> FALSE]]
           Solves(eq) == eq = [q \in Questions |-> Answer(eq, q)]
           solution == CHOOSE eq : Solves(eq)
<1>1. N \in Nat
  BY InputFields
<1>2. \A q \in Questions : Cardinality(Rest(q)) \in 0 .. N
  <2> SUFFICES ASSUME NEW q \in Questions  PROVE Cardinality(Rest(q)) \in 0 .. N
    OBVIOUS
  <2>1. Rest(q) \in SUBSET Functions /\ IsFiniteSet(Functions) /\ Cardinality(Functions) = N
    BY InputFields DEF Rest
  <2>2. IsFiniteSet(Rest(q)) /\ Cardinality(Rest(q)) <= N
    BY <2>1, FS_Subset
  <2>3. QED
    BY <1>1, <2>2, FS_CardinalityType
<1>3. \A h \in S : Step(h) \in S
  <2>1. \A h, q \in Questions : TRUE
    OBVIOUS
  <2>2. ASSUME NEW h, NEW q \in Questions  PROVE Answer(h, q) \in Verdicts
    BY AnswerRestsOn
  <2>3. QED
    BY <2>2
<1>4. none \in S
  BY DEF Verdicts
<1>5. IsStep(step, N + 2, S) /\ (\A n \in 1 .. (N + 2), h \in S : step[<<n, h>>] = Step(h))
  BY <1>3 DEF IsStep
<1> HIDE DEF N, S, step, none
<1>6. PICK it : IsSolution(it, N + 2, S, none, step)
  BY <1>1, <1>4, <1>5, RecursionSolved
<1>7. \A n \in 0 .. (N + 2) : it[n] \in S
  BY <1>6 DEF IsSolution
<1>8. \A n \in 1 .. (N + 2) : it[n] = Step(it[n - 1])
  <2> SUFFICES ASSUME NEW n \in 1 .. (N + 2)  PROVE it[n] = Step(it[n - 1])
    OBVIOUS
  <2>1. n \in 0 .. (N + 2) /\ n # 0 /\ n - 1 \in 0 .. (N + 2)
    BY <1>1
  <2>2. it[n] = step[<<n, it[n - 1]>>]
    BY <1>6, <2>1 DEF IsSolution
  <2> HIDE DEF Step
  <2>3. QED
    BY <1>5, <1>7, <2>1, <2>2
<1> DEFINE Settled(n) == \A q \in Questions : Cardinality(Rest(q)) < n => it[n + 1][q] = it[n][q]
           unsettled == {n \in 0 .. (N + 1) : ~ Settled(n)}
<1>9. \A n \in 0 .. (N + 1) : Settled(n)
  <2>1. ASSUME unsettled # {}  PROVE FALSE
    <3>1. unsettled \in SUBSET Nat
      BY <1>1
    <3>2. PICK n \in unsettled : \A m \in unsettled : n <= m
      <4> HIDE DEF unsettled
      <4>1. QED
        BY <2>1, <3>1, LeastNumber
    <3>3. n # 0
      <4>1. \A q \in Questions : ~ (Cardinality(Rest(q)) < 0)
        BY <1>2
      <4>2. QED
        BY <3>2, <4>1
    <3>4. n - 1 \in 0 .. (N + 1) /\ ~ (n <= n - 1) /\ n \in 1 .. (N + 2) /\ n + 1 \in 1 .. (N + 2)
          /\ n - 1 + 1 = n /\ n + 1 - 1 = n
      BY <1>1, <3>2, <3>3
    <3>5. Settled(n - 1)
      BY <3>2, <3>4
    <3>6. ASSUME NEW q \in Questions, Cardinality(Rest(q)) < n
          PROVE  it[n + 1][q] = it[n][q]
      <4>1. it[n + 1] = Step(it[n]) /\ it[n] = Step(it[n - 1])
        BY <1>8, <3>4
      <4>2. it[n + 1][q] = Answer(it[n], q) /\ it[n][q] = Answer(it[n - 1], q)
        BY <4>1
      <4>3. ASSUME NEW d \in Questions, Cardinality(Rest(d)) < Cardinality(Rest(q))
            PROVE  it[n][d] = it[n - 1][d]
        <5>1. Cardinality(Rest(d)) < n - 1
          BY <1>1, <1>2, <3>4, <3>6, <4>3
        <5>2. QED
          BY <3>4, <3>5, <5>1
      <4>4. Answer(it[n], q) = Answer(it[n - 1], q)
        BY <4>3, AnswerRestsOn
      <4>5. QED
        BY <4>2, <4>4
    <3>7. QED
      BY <3>2, <3>6
  <2>2. QED
    BY <2>1
<1>10. it[N + 2] = it[N + 1] /\ it[N + 2] = Step(it[N + 1]) /\ it[N + 1] \in S
  <2>1. /\ N + 1 \in 0 .. (N + 1) /\ N + 1 \in 0 .. (N + 2) /\ N + 2 \in 1 .. (N + 2)
        /\ N + 2 \in 0 .. (N + 2) /\ N + 1 + 1 = N + 2 /\ N + 2 - 1 = N + 1
    BY <1>1
  <2>2. \A q \in Questions : Cardinality(Rest(q)) < N + 1
    BY <1>1, <1>2
  <2>3. \A q \in Questions : it[N + 2][q] = it[N + 1][q]
    BY <1>9, <2>1, <2>2
  <2>4. it[N + 1] \in [Questions -> Verdicts] /\ it[N + 2] \in [Questions -> Verdicts]
    BY <1>7, <2>1 DEF S
  <2>5. it[N + 2] = it[N + 1]
    BY <2>3, <2>4
  <2> HIDE DEF Step
  <2>6. QED
    BY <1>7, <1>8, <2>1, <2>5
<1>11. Solves(it[N + 1])
  BY <1>10
<1>12. Solves(solution)
  <2> HIDE DEF Solves
  <2>1. QED
    BY <1>11
<1>13. \A q \in Questions : solution[q] = Answer(solution, q)
  <2> HIDE DEF solution
  <2>1. QED
    BY <1>12
<1>14. solution \in [Questions -> Verdicts]
  <2>1. \A q \in Questions : Answer(solution, q) \in Verdicts
    <3> HIDE DEF solution
    <3>1. QED
      BY AnswerRestsOn
  <2> HIDE DEF solution
  <2>2. QED
    BY <1>12, <2>1
<1>15. Equal = [p \in Functions \X Functions |->
                   solution[[f |-> p[1], g |-> p[2], chain |-> {}]]]
  BY DEF Equal
<1> HIDE DEF solution
<1>16. ASSUME NEW f \in Functions, NEW g \in Functions
       PROVE  Equal[<<f, g>>] = solution[[f |-> f, g |-> g, chain |-> {}]]
  BY <1>15
<1>17. Answers(solution)
  BY <1>13, <1>14, <1>16 DEF Answers
<1>18. QED
  BY <1>17

------------------------------------------------------------------------------
(***************************************************************************)
(* What is answered with yes.  A relation of functions is coherent if each *)
(* pair calls pairs of the relation again, or pairs that are compared.     *)
(***************************************************************************)
\* References of two functions are the same, or calls of related functions.
Follow(f, g, rel) ==
    \A i \in DOMAIN FixupsOf(f) :
       LET a == FixupsOf(f)[i]
           b == FixupsOf(g)[i]
       IN  /\ a.kind = b.kind /\ a.bound = b.bound
           /\ a.to = b.to \/ (a.kind = "call" /\ <<a.to, b.to>> \in rel)

Turned(p) == <<p[2], p[1]>>
Both(chain) == chain \cup {Turned(p) : p \in chain}

Coherent(rel, chain) ==
    /\ rel \subseteq SameCode
    /\ \A p \in rel : Turned(p) \in rel /\ Follow(p[1], p[2], rel \cup Both(chain))

\* All pairs that are coherent while those of a chain are compared
Linked(chain) == {p \in SameCode : \E rel \in SUBSET SameCode : p \in rel /\ Coherent(rel, chain)}

LEMMA ConfirmedFollows ==
    ASSUME NEW rel
    PROVE  Confirmed(rel) = {p \in rel : Follow(p[1], p[2], rel)}
BY DEF Confirmed, Follow

\* With more that is related, references stay related.
LEMMA FollowMore ==
    ASSUME NEW f, NEW g, NEW R, NEW S, R \subseteq S, Follow(f, g, R)
    PROVE  Follow(f, g, S)
BY DEF Follow

\* A pair can be turned if all that it calls can.
LEMMA FollowTurned ==
    ASSUME given \in DedupInputs, NEW f \in Functions, NEW g \in Functions,
           <<f, g>> \in SameCode, NEW R, \A p \in R : Turned(p) \in R, Follow(f, g, R)
    PROVE  <<g, f>> \in SameCode /\ Follow(g, f, R)
<1>1. <<g, f>> \in SameCode /\ Len(FixupsOf(f)) = Len(FixupsOf(g))
  BY DEF SameCode
<1>2. DOMAIN FixupsOf(g) = DOMAIN FixupsOf(f)
  BY <1>1, InputFields
<1>3. \A x, y : <<x, y>> \in R => <<y, x>> \in R
  <2> SUFFICES ASSUME NEW x, NEW y, <<x, y>> \in R  PROVE <<y, x>> \in R
    OBVIOUS
  <2>1. Turned(<<x, y>>) = <<y, x>>
    BY DEF Turned
  <2>2. QED
    BY <2>1
<1>4. QED
  BY <1>1, <1>2, <1>3 DEF Follow

\* What is compared can be turned.
LEMMA BothTurned ==
    ASSUME NEW chain \in SUBSET (Functions \X Functions)
    PROVE  \A p \in Both(chain) : Turned(p) \in Both(chain)
BY DEF Both, Turned

\* The pairs of all coherent relations are coherent.
LEMMA LinkedCoherent ==
    ASSUME NEW chain
    PROVE  Coherent(Linked(chain), chain)
<1>1. ASSUME NEW p \in Linked(chain)
      PROVE  Turned(p) \in Linked(chain) /\ Follow(p[1], p[2], Linked(chain) \cup Both(chain))
  <2>1. PICK rel \in SUBSET SameCode : p \in rel /\ Coherent(rel, chain)
    BY DEF Linked
  <2>2. rel \subseteq Linked(chain)
    BY <2>1 DEF Linked
  <2>3. Turned(p) \in rel /\ Follow(p[1], p[2], rel \cup Both(chain))
    BY <2>1 DEF Coherent
  <2>4. rel \cup Both(chain) \subseteq Linked(chain) \cup Both(chain)
    BY <2>2
  <2>5. Follow(p[1], p[2], Linked(chain) \cup Both(chain))
    BY <2>3, <2>4, FollowMore
  <2>6. QED
    BY <2>2, <2>3, <2>5
<1>2. Linked(chain) \subseteq SameCode
  BY DEF Linked
<1>3. QED
  BY <1>1, <1>2 DEF Coherent

\* A pair that is coherent while it is compared itself, is coherent.
LEMMA LinkedWithout ==
    ASSUME NEW chain, NEW t \in Functions, NEW u \in Functions,
           <<t, u>> \in Linked(chain \cup {<<t, u>>})
    PROVE  <<t, u>> \in Linked(chain)
<1> DEFINE more == chain \cup {<<t, u>>}
           L == Linked(more)
<1>1. Coherent(L, more)
  BY LinkedCoherent
<1>2. <<t, u>> \in L /\ Turned(<<t, u>>) \in L
  BY <1>1 DEF Coherent
<1>3. L \cup Both(more) = L \cup Both(chain)
  <2> HIDE DEF L
  <2>1. Both(more) = Both(chain) \cup {<<t, u>>, Turned(<<t, u>>)}
    BY DEF Both
  <2>2. QED
    BY <1>2, <2>1
<1>4. Coherent(L, chain)
  <2> HIDE DEF L
  <2>1. QED
    BY <1>1, <1>3 DEF Coherent
<1>5. L \in SUBSET SameCode
  BY <1>1 DEF Coherent
<1> HIDE DEF L, more
<1>6. QED
  BY <1>2, <1>4, <1>5 DEF Linked, L, more

\* A pair whose calls are coherent is coherent.
LEMMA LinkedExtends ==
    ASSUME given \in DedupInputs, NEW chain \in SUBSET (Functions \X Functions),
           NEW f \in Functions, NEW g \in Functions, <<f, g>> \in SameCode,
           Follow(f, g, Linked(chain) \cup Both(chain))
    PROVE  <<f, g>> \in Linked(chain)
<1> DEFINE L == Linked(chain)
           rel == L \cup {<<f, g>>, <<g, f>>}
<1>1. Coherent(L, chain)
  BY LinkedCoherent
<1>2. \A p \in L \cup Both(chain) : Turned(p) \in L \cup Both(chain)
  <2> HIDE DEF L
  <2>1. QED
    BY <1>1, BothTurned DEF Coherent
<1> HIDE DEF L
<1>3. <<g, f>> \in SameCode /\ Follow(g, f, L \cup Both(chain))
  <2>1. Follow(f, g, L \cup Both(chain))
    BY DEF L
  <2> DEFINE R == L \cup Both(chain)
  <2>2. (\A p \in R : Turned(p) \in R) /\ Follow(f, g, R)
    BY <1>2, <2>1
  <2> HIDE DEF R
  <2>3. <<g, f>> \in SameCode /\ Follow(g, f, R)
    BY <2>2, FollowTurned
  <2>4. QED
    BY <2>3 DEF R
<1>4. rel \in SUBSET SameCode
  BY <1>1, <1>3 DEF Coherent
<1>5. ASSUME NEW p \in rel
      PROVE  Turned(p) \in rel /\ Follow(p[1], p[2], rel \cup Both(chain))
  <2>1. L \cup Both(chain) \subseteq rel \cup Both(chain)
    OBVIOUS
  <2>2. Turned(p) \in rel
    BY <1>1 DEF Coherent, Turned
  <2>3. Follow(p[1], p[2], L \cup Both(chain))
    <3>1. CASE p \in L
      BY <1>1, <3>1 DEF Coherent
    <3>2. CASE p = <<f, g>>
      <4>1. p[1] = f /\ p[2] = g
        BY <3>2
      <4>2. QED
        BY <4>1 DEF L
    <3>3. CASE p = <<g, f>>
      <4>1. p[1] = g /\ p[2] = f
        BY <3>3
      <4>2. QED
        BY <1>3, <4>1
    <3>4. QED
      BY <3>1, <3>2, <3>3
  <2> HIDE DEF rel
  <2>4. QED
    BY <2>1, <2>2, <2>3, FollowMore
<1>6. <<f, g>> \in rel
  OBVIOUS
<1> HIDE DEF rel
<1>7. Coherent(rel, chain)
  BY <1>4, <1>5 DEF Coherent
<1>8. QED
  BY <1>4, <1>6, <1>7 DEF Linked

\* With nothing compared, what is coherent cannot be told apart.
LEMMA LinkedAlike ==
    ASSUME given \in DedupInputs
    PROVE  Linked({}) \subseteq Alike
<1> DEFINE L == Linked({})
<1>1. Coherent(L, {})
  BY LinkedCoherent
<1> HIDE DEF L
<1>2. L \cup Both({}) = L
  BY DEF Both
<1>3. Confirmed(L) = L /\ L \in SUBSET SameCode
  BY <1>1, <1>2, ConfirmedFollows DEF Coherent
<1>4. L \subseteq Alike
  BY <1>3, AlikeIsGreatest
<1>5. QED
  BY <1>4 DEF L

\* What holds of a question whenever it does of those with more in the chain,
\* holds of all questions.
LEMMA ChainInduction ==
    ASSUME given \in DedupInputs, NEW good \in SUBSET Questions,
           \A q \in Questions :
              (\A d \in Questions : Cardinality(Rest(d)) < Cardinality(Rest(q)) => d \in good)
              => q \in good
    PROVE  good = Questions
<1> DEFINE bad == {Cardinality(Rest(q)) : q \in Questions \ good}
<1>1. \A q \in Questions : Cardinality(Rest(q)) \in Nat
  <2> SUFFICES ASSUME NEW q \in Questions  PROVE Cardinality(Rest(q)) \in Nat
    OBVIOUS
  <2>1. Rest(q) \in SUBSET Functions /\ IsFiniteSet(Functions)
    BY InputFields DEF Rest
  <2>2. QED
    BY <2>1, FS_Subset, FS_CardinalityType
<1>2. ASSUME bad # {}  PROVE FALSE
  <2>1. bad \in SUBSET Nat
    BY <1>1
  <2>2. PICK n \in bad : \A m \in bad : n <= m
    <3> HIDE DEF bad
    <3>1. QED
      BY <1>2, <2>1, LeastNumber
  <2>3. PICK q \in Questions \ good : n = Cardinality(Rest(q))
    OBVIOUS
  <2>4. ASSUME NEW d \in Questions, Cardinality(Rest(d)) < Cardinality(Rest(q)), d \notin good
        PROVE  FALSE
    <3>1. Cardinality(Rest(d)) \in bad
      BY <2>4
    <3>2. QED
      BY <1>1, <2>2, <2>3, <2>4, <3>1, SMTT(40)
  <2>5. QED
    BY <2>3, <2>4
<1>3. QED
  BY <1>2

\* Nothing has been redirected yet.
Straight ==
    /\ table = [a \in Functions \cup Data |-> a]
    /\ direct = [a \in Functions \cup Data |-> a]

LEMMA TargetIsTo ==
    ASSUME given \in DedupInputs, Straight, NEW f \in Functions
    PROVE  \A i \in DOMAIN FixupsOf(f) : Target(FixupsOf(f)[i]) = FixupsOf(f)[i].to
BY InputFields DEF Straight, Target

\* What is compared at a place, and what that leads to
One(q, i) == FixupsOf(q.f)[i]
Other(q, i) == FixupsOf(q.g)[i]
Doing(q, i) == Compare(One(q, i), Other(q, i), q.chain)
Onward(q, i) == Deeper(q, Target(One(q, i)), Target(Other(q, i)))

\* An answer, part by part
LEMMA AnswerParts ==
    ASSUME NEW eq, Answers(eq), NEW q \in Questions
    PROVE  /\ eq[q].same =>
                 /\ Hash(q.f) = Hash(q.g) /\ Len(FixupsOf(q.f)) = Len(FixupsOf(q.g))
                 /\ \A i \in DOMAIN FixupsOf(q.f) :
                       /\ Doing(q, i) # "differ"
                       /\ Doing(q, i) = "recurse" => eq[Onward(q, i)].same
                       /\ Doing(q, i) = "recurse" /\ ~ eq[q].crossed => ~ eq[Onward(q, i)].crossed
                       /\ Doing(q, i) = "guess" /\ ~ eq[q].crossed =>
                             \/ <<Target(One(q, i)), Target(Other(q, i))>> \in q.chain
                             \/ <<Target(Other(q, i)), Target(One(q, i))>> \in q.chain
           /\ /\ Hash(q.f) = Hash(q.g) /\ Len(FixupsOf(q.f)) = Len(FixupsOf(q.g))
              /\ \A i \in DOMAIN FixupsOf(q.f) :
                       /\ Doing(q, i) # "differ"
                       /\ Doing(q, i) = "recurse" => eq[Onward(q, i)].same
              => eq[q].same
<1> DEFINE F == FixupsOf(q.f)
           G == FixupsOf(q.g)
           doing(i) == Compare(F[i], G[i], q.chain)
           deeper(i) == eq[Deeper(q, Target(F[i]), Target(G[i]))]
           unpaired(i) == {<<Target(F[i]), Target(G[i])>>, <<Target(G[i]), Target(F[i])>>}
                             \cap q.chain = {}
           same == \A i \in DOMAIN F :
                          \/ doing(i) \in {"same", "guess"}
                          \/ doing(i) = "recurse" /\ deeper(i).same
           guess == \E i \in DOMAIN F :
                          \/ doing(i) = "guess" /\ unpaired(i)
                          \/ doing(i) = "recurse" /\ deeper(i).crossed
           apart == Hash(q.f) # Hash(q.g) \/ Len(F) # Len(G)
<1>1. eq[q] = IF apart THEN [same |-> FALSE, crossed |-> FALSE]
              ELSE [same |-> same, crossed |-> guess]
  <2>1. eq[q] = Answer(eq, q)
    BY DEF Answers
  <2>2. QED
    BY <2>1 DEF Answer
<1>2. \A i : doing(i) \in {"differ", "same", "guess", "recurse"}
  <2> SUFFICES ASSUME NEW i  PROVE doing(i) \in {"differ", "same", "guess", "recurse"}
    OBVIOUS
  <2>1. QED
    BY CompareFacts
<1> HIDE DEF F, G, doing, deeper, unpaired, same, guess, apart
<1>3. (eq[q].same <=> ~ apart /\ same) /\ (~ apart => (eq[q].crossed <=> guess))
  <2>1. same \in BOOLEAN /\ guess \in BOOLEAN
    BY DEF same, guess
  <2>2. QED
    BY <1>1, <2>1
<1>4. same <=> \A i \in DOMAIN F : doing(i) # "differ" /\ (doing(i) = "recurse" => deeper(i).same)
  BY <1>2 DEF same
<1>5. ~ guess => \A i \in DOMAIN F : /\ doing(i) = "recurse" => ~ deeper(i).crossed
                                     /\ doing(i) = "guess" => ~ unpaired(i)
  BY DEF guess
<1>6. \A i : ~ unpaired(i) => \/ <<Target(F[i]), Target(G[i])>> \in q.chain
                             \/ <<Target(G[i]), Target(F[i])>> \in q.chain
  BY DEF unpaired
<1>7. QED
  BY <1>3, <1>4, <1>5, <1>6 DEF F, G, doing, deeper, apart, One, Other, Doing, Onward

\* Functions of which the code makes yes without a guess are coherent.
LEMMA AnswerIsSound ==
    ASSUME given \in DedupInputs, Straight, NEW eq, Answers(eq)
    PROVE  \A q \in Questions :
              eq[q].same /\ ~ eq[q].crossed => <<q.f, q.g>> \in Linked(q.chain)
<1> DEFINE good == {q \in Questions :
                       eq[q].same /\ ~ eq[q].crossed => <<q.f, q.g>> \in Linked(q.chain)}
<1>1. ASSUME NEW q \in Questions,
             \A d \in Questions : Cardinality(Rest(d)) < Cardinality(Rest(q)) => d \in good,
             eq[q].same, ~ eq[q].crossed
      PROVE  <<q.f, q.g>> \in Linked(q.chain)
  <2>1. q.f \in Functions /\ q.g \in Functions /\ q.chain \in SUBSET (Functions \X Functions)
    BY DEF Questions
  <2>2. Hash(q.f) = Hash(q.g) /\ Len(FixupsOf(q.f)) = Len(FixupsOf(q.g))
    BY <1>1, AnswerParts
  <2>3. <<q.f, q.g>> \in SameCode
    <3>1. given.content[q.f] = Hash(q.f)[1] /\ given.content[q.g] = Hash(q.g)[1]
      BY DEF Hash
    <3>2. QED
      BY <2>1, <2>2, <3>1 DEF SameCode
  <2>4. ASSUME NEW i \in DOMAIN FixupsOf(q.f)
        PROVE  /\ Doing(q, i) # "differ"
               /\ Doing(q, i) = "recurse" => eq[Onward(q, i)].same /\ ~ eq[Onward(q, i)].crossed
               /\ Doing(q, i) = "guess" => \/ <<Target(One(q, i)), Target(Other(q, i))>> \in q.chain
                                        \/ <<Target(Other(q, i)), Target(One(q, i))>> \in q.chain
    <3> HIDE DEF good
    <3>1. QED
      BY <1>1, AnswerParts
  <2>5. \A i \in DOMAIN FixupsOf(q.f) : Target(One(q, i)) = One(q, i).to /\ Target(Other(q, i)) = Other(q, i).to
    <3>1. DOMAIN FixupsOf(q.f) = DOMAIN FixupsOf(q.g)
      BY <2>1, <2>2, InputFields
    <3>2. QED
      BY <2>1, <3>1, TargetIsTo DEF One, Other
  <2>6. ASSUME NEW i \in DOMAIN FixupsOf(q.f), Target(One(q, i)) # Target(Other(q, i))
        PROVE  /\ One(q, i).kind = "call"
               /\ <<Target(One(q, i)), Target(Other(q, i))>> \in Linked(q.chain) \cup Both(q.chain)
    <3> DEFINE t == Target(One(q, i))
               u == Target(Other(q, i))
    <3>1. Doing(q, i) \in {"guess", "recurse"}
      <4>1. Doing(q, i) # "differ" /\ Doing(q, i) # "same"
        BY <2>4, <2>6, CompareFacts DEF Doing
      <4>2. Doing(q, i) \in {"differ", "same", "guess", "recurse"}
        BY CompareFacts DEF Doing
      <4>3. QED
        BY <4>1, <4>2
    <3>2. One(q, i).kind = "call" /\ t \in Functions /\ u \in Functions
      BY <3>1, CompareFacts DEF Doing
    <3>3. CASE Doing(q, i) = "guess"
      <4>2. <<t, u>> \in q.chain \/ <<u, t>> \in q.chain
        BY <2>4, <3>3
      <4> HIDE DEF t, u
      <4>3. Turned(<<u, t>>) = <<t, u>>
        BY DEF Turned
      <4>4. <<t, u>> \in Both(q.chain)
        BY <4>2, <4>3 DEF Both
      <4>5. QED
        BY <3>2, <4>4 DEF t, u
    <3>4. CASE Doing(q, i) = "recurse"
      <4>1. ~ (InCallChain(q.chain, t) /\ InCallChain(q.chain, u))
        BY <3>4, CompareFacts DEF Doing
      <4> HIDE DEF t, u
      <4>2. /\ Deeper(q, t, u) \in Questions
            /\ Cardinality(Rest(Deeper(q, t, u))) < Cardinality(Rest(q))
        BY <3>2, <4>1, ChainGrows
      <4>3. eq[Deeper(q, t, u)].same /\ ~ eq[Deeper(q, t, u)].crossed
        BY <2>4, <3>4 DEF t, u, Onward
      <4>4. Deeper(q, t, u) \in good
        BY <1>1, <4>2
      <4>5. <<t, u>> \in Linked(q.chain \cup {<<t, u>>})
        BY <4>3, <4>4 DEF Deeper
      <4>6. <<t, u>> \in Linked(q.chain)
        BY <3>2, <4>5, LinkedWithout
      <4>7. QED
        BY <3>2, <4>6 DEF t, u
    <3>5. QED
      BY <3>1, <3>3, <3>4
  <2>7. \A i \in DOMAIN FixupsOf(q.f) : One(q, i).kind = Other(q, i).kind /\ One(q, i).bound = Other(q, i).bound
    <3> SUFFICES ASSUME NEW i \in DOMAIN FixupsOf(q.f)
                 PROVE  /\ One(q, i).kind = Other(q, i).kind
                        /\ One(q, i).bound = Other(q, i).bound
      OBVIOUS
    <3>1. Compare(One(q, i), Other(q, i), q.chain) # "differ"
      BY <2>4 DEF Doing
    <3>2. QED
      BY <3>1, CompareFacts
  <2>8. Follow(q.f, q.g, Linked(q.chain) \cup Both(q.chain))
    BY <2>5, <2>6, <2>7 DEF Follow, One, Other
  <2>9. QED
    BY <2>1, <2>3, <2>8, LinkedExtends
<1>2. \A q \in Questions :
         (\A d \in Questions : Cardinality(Rest(d)) < Cardinality(Rest(q)) => d \in good)
         => q \in good
  BY <1>1
<1>3. good \in SUBSET Questions
  OBVIOUS
<1>4. good = Questions
  <2> HIDE DEF good
  <2>1. QED
    BY <1>2, <1>3, ChainInduction
<1>5. QED
  BY <1>4

\* Calls of functions that are all auto-hide do not count in the hash.
LEMMA AlikeHash ==
    ASSUME given \in DedupInputs, Straight, given.autoHide = Functions,
           NEW f \in Functions, NEW g \in Functions, <<f, g>> \in Alike
    PROVE  /\ Hash(f) = Hash(g) /\ Len(FixupsOf(f)) = Len(FixupsOf(g))
           /\ \A i \in DOMAIN FixupsOf(f) :
                 LET a == FixupsOf(f)[i]
                     b == FixupsOf(g)[i]
                 IN  /\ a.kind = b.kind /\ a.bound = b.bound
                     /\ Target(a) = a.to /\ Target(b) = b.to
                     /\ \/ a.to = b.to
                        \/ /\ a.kind = "call" /\ <<a.to, b.to>> \in Alike
                           /\ a.to \in Functions /\ b.to \in Functions
<1>1. Alike \subseteq SameCode /\ Confirmed(Alike) = Alike
  BY AlikeIsGreatest
<1>2. given.content[f] = given.content[g] /\ Len(FixupsOf(f)) = Len(FixupsOf(g))
  BY <1>1 DEF SameCode
<1>3. DOMAIN FixupsOf(f) = DOMAIN FixupsOf(g)
  BY <1>2, InputFields
<1>4. Follow(f, g, Alike)
  <2>1. <<f, g>> \in {p \in Alike : Follow(p[1], p[2], Alike)}
    BY <1>1, ConfirmedFollows
  <2>2. <<f, g>>[1] = f /\ <<f, g>>[2] = g
    OBVIOUS
  <2>3. QED
    BY <2>1, <2>2
<1>5. \A x, y : <<x, y>> \in Alike => x \in Functions /\ y \in Functions
  BY <1>1 DEF SameCode
<1>6. ASSUME NEW i \in DOMAIN FixupsOf(f)
      PROVE  LET a == FixupsOf(f)[i]
                 b == FixupsOf(g)[i]
             IN  /\ a.kind = b.kind /\ a.bound = b.bound
                 /\ Target(a) = a.to /\ Target(b) = b.to
                 /\ \/ a.to = b.to
                    \/ /\ a.kind = "call" /\ <<a.to, b.to>> \in Alike
                       /\ a.to \in Functions /\ b.to \in Functions
  <2>1. /\ Target(FixupsOf(f)[i]) = FixupsOf(f)[i].to
        /\ Target(FixupsOf(g)[i]) = FixupsOf(g)[i].to
    BY <1>3, TargetIsTo
  <2>2. QED
    BY <1>4, <1>5, <2>1 DEF Follow
<1> DEFINE part(h) == [i \in DOMAIN FixupsOf(h) |->
                          IF ~ Hashed(FixupsOf(h)[i]) THEN <<>>
                          ELSE IF Target(FixupsOf(h)[i]) \in Functions
                               THEN <<given.name[Target(FixupsOf(h)[i])]>>
                               ELSE <<Target(FixupsOf(h)[i])>>]
<1>7. Hash(f) = <<given.content[f], part(f)>> /\ Hash(g) = <<given.content[g], part(g)>>
  BY DEF Hash
<1>8. part(f) = part(g)
  <2>1. ASSUME NEW i \in DOMAIN FixupsOf(f)  PROVE part(f)[i] = part(g)[i]
    <3> DEFINE a == FixupsOf(f)[i]
               b == FixupsOf(g)[i]
    <3>1. /\ a.kind = b.kind
          /\ \/ Target(a) = Target(b)
             \/ a.kind = "call" /\ Target(a) \in Functions /\ Target(b) \in Functions
      BY <1>6
    <3>2. i \in DOMAIN FixupsOf(g)
      BY <1>3
    <3> HIDE DEF a, b
    <3>3. CASE Target(a) = Target(b)
      <4>1. Hashed(a) <=> Hashed(b)
        BY <3>1, <3>3 DEF Hashed
      <4>2. QED
        BY <3>2, <3>3, <4>1 DEF a, b
    <3>4. CASE a.kind = "call" /\ Target(a) \in Functions /\ Target(b) \in Functions
      <4>1. ~ Hashed(a) /\ ~ Hashed(b)
        BY <3>1, <3>4 DEF Hashed
      <4>2. QED
        BY <3>2, <4>1 DEF a, b
    <3>5. QED
      BY <3>1, <3>3, <3>4
  <2>2. QED
    BY <1>3, <2>1
<1> HIDE DEF part
<1>9. QED
  BY <1>2, <1>6, <1>7, <1>8

\* The code says yes of functions that cannot be told apart.
LEMMA AnswerIsComplete ==
    ASSUME given \in DedupInputs, Straight, NEW eq, Answers(eq), given.autoHide = Functions
    PROVE  \A q \in Questions : <<q.f, q.g>> \in Alike => eq[q].same
<1> DEFINE good == {q \in Questions : <<q.f, q.g>> \in Alike => eq[q].same}
<1>1. ASSUME NEW q \in Questions,
             \A d \in Questions : Cardinality(Rest(d)) < Cardinality(Rest(q)) => d \in good,
             <<q.f, q.g>> \in Alike
      PROVE  eq[q].same
  <2>1. q.f \in Functions /\ q.g \in Functions
    BY DEF Questions
  <2>2. Hash(q.f) = Hash(q.g) /\ Len(FixupsOf(q.f)) = Len(FixupsOf(q.g))
    BY <1>1, <2>1, AlikeHash
  <2>3. ASSUME NEW i \in DOMAIN FixupsOf(q.f)
        PROVE  Doing(q, i) # "differ" /\ (Doing(q, i) = "recurse" => eq[Onward(q, i)].same)
    <3>1. /\ One(q, i).kind = Other(q, i).kind /\ One(q, i).bound = Other(q, i).bound
          /\ \/ Target(One(q, i)) = Target(Other(q, i))
             \/ /\ One(q, i).kind = "call" /\ <<Target(One(q, i)), Target(Other(q, i))>> \in Alike
                /\ Target(One(q, i)) \in Functions /\ Target(Other(q, i)) \in Functions
      <4>1. /\ One(q, i).kind = Other(q, i).kind /\ One(q, i).bound = Other(q, i).bound
            /\ Target(One(q, i)) = One(q, i).to /\ Target(Other(q, i)) = Other(q, i).to
            /\ \/ One(q, i).to = Other(q, i).to
               \/ /\ One(q, i).kind = "call" /\ <<One(q, i).to, Other(q, i).to>> \in Alike
                  /\ One(q, i).to \in Functions /\ Other(q, i).to \in Functions
        <5> HIDE DEF good
        <5>1. QED
          BY <1>1, <2>1, AlikeHash DEF One, Other
      <4>2. QED
        BY <4>1
    <3>2. Doing(q, i) # "differ"
      BY <3>1, CompareFacts DEF Doing
    <3>3. ASSUME Doing(q, i) = "recurse"  PROVE eq[Onward(q, i)].same
      <4> DEFINE t == Target(One(q, i))
                 u == Target(Other(q, i))
      <4>1. t # u /\ ~ (InCallChain(q.chain, t) /\ InCallChain(q.chain, u))
        BY <3>3, CompareFacts DEF Doing
      <4>2. t \in Functions /\ u \in Functions /\ <<t, u>> \in Alike
        BY <3>1, <4>1
      <4> HIDE DEF t, u
      <4>3. /\ Deeper(q, t, u) \in Questions
            /\ Cardinality(Rest(Deeper(q, t, u))) < Cardinality(Rest(q))
        BY <4>1, <4>2, ChainGrows
      <4>4. Deeper(q, t, u) \in good
        BY <1>1, <4>3
      <4>5. eq[Deeper(q, t, u)].same
        BY <4>2, <4>4 DEF Deeper
      <4>6. QED
        BY <4>5 DEF t, u, Onward
    <3>4. QED
      BY <3>2, <3>3
  <2>4. QED
    BY <2>2, <2>3, AnswerParts
<1>2. \A q \in Questions :
         (\A d \in Questions : Cardinality(Rest(d)) < Cardinality(Rest(q)) => d \in good)
         => q \in good
  BY <1>1
<1>3. good \in SUBSET Questions
  OBVIOUS
<1>4. good = Questions
  <2> HIDE DEF good
  <2>1. QED
    BY <1>2, <1>3, ChainInduction
<1>5. QED
  BY <1>4

\* Alike holds of each function with itself, and both ways.
LEMMA AlikeBothWays ==
    ASSUME given \in DedupInputs
    PROVE  /\ \A f \in Functions : <<f, f>> \in Alike
           /\ \A f, g : <<f, g>> \in Alike => <<g, f>> \in Alike
<1>1. Alike \subseteq SameCode /\ Confirmed(Alike) = Alike
  BY AlikeIsGreatest
<1> DEFINE selves == {<<f, f>> : f \in Functions}
           turned == Alike \cup {Turned(p) : p \in Alike}
<1>2. selves \subseteq Alike
  <2>1. selves \in SUBSET SameCode
    BY DEF SameCode
  <2>2. \A p \in selves : Follow(p[1], p[2], selves)
    BY DEF Follow
  <2> HIDE DEF selves
  <2>3. Confirmed(selves) = selves
    BY <2>2, ConfirmedFollows
  <2>4. QED
    BY <2>1, <2>3, AlikeIsGreatest
<1>3. \A p \in turned : Turned(p) \in turned
  BY <1>1 DEF Turned, SameCode
<1>4. ASSUME NEW p \in Alike
      PROVE  /\ Follow(p[1], p[2], turned)
             /\ Turned(p) \in SameCode /\ Follow(p[2], p[1], turned)
  <2>1. p \in SameCode /\ Follow(p[1], p[2], Alike)
    BY <1>1, ConfirmedFollows
  <2>2. p = <<p[1], p[2]>> /\ p[1] \in Functions /\ p[2] \in Functions
    BY <2>1 DEF SameCode
  <2>3. Alike \subseteq turned
    OBVIOUS
  <2> HIDE DEF turned
  <2>4. Follow(p[1], p[2], turned)
    BY <2>1, <2>3, FollowMore
  <2>5. <<p[1], p[2]>> \in SameCode
    BY <2>1, <2>2
  <2>6. <<p[2], p[1]>> \in SameCode /\ Follow(p[2], p[1], turned)
    BY <1>3, <2>2, <2>4, <2>5, FollowTurned
  <2>7. QED
    BY <2>4, <2>6 DEF Turned
<1>5. turned \in SUBSET SameCode
  BY <1>1, <1>4
<1>6. ASSUME NEW p \in turned  PROVE Follow(p[1], p[2], turned)
  <2>1. CASE p \in Alike
    BY <1>4, <2>1
  <2>2. ASSUME NEW o \in Alike, p = Turned(o)  PROVE Follow(p[1], p[2], turned)
    <3>1. p[1] = o[2] /\ p[2] = o[1]
      BY <2>2 DEF Turned
    <3> HIDE DEF turned
    <3>2. QED
      BY <1>4, <3>1
  <2>3. QED
    BY <2>1, <2>2
<1>7. turned \subseteq Alike
  <2> HIDE DEF turned
  <2>1. Confirmed(turned) = turned
    BY <1>6, ConfirmedFollows
  <2>2. QED
    BY <1>5, <2>1, AlikeIsGreatest
<1>8. ASSUME NEW f, NEW g, <<f, g>> \in Alike  PROVE <<g, f>> \in Alike
  <2>1. Turned(<<f, g>>) = <<g, f>>
    BY DEF Turned
  <2>2. Turned(<<f, g>>) \in turned
    BY <1>8
  <2>3. QED
    BY <1>7, <2>1, <2>2
<1>9. QED
  BY <1>2, <1>8

\* The comparison of two functions is right, both ways.
LEMMA EqualIsRight ==
    ASSUME given \in DedupInputs, Straight, NEW f \in Functions, NEW g \in Functions
    PROVE  /\ Equal[<<f, g>>].same /\ ~ Equal[<<f, g>>].crossed => <<f, g>> \in Alike
           /\ given.autoHide = Functions /\ <<f, g>> \in Alike => Equal[<<f, g>>].same
<1> DEFINE q == [f |-> f, g |-> g, chain |-> {}]
<1>1. PICK eq : Answers(eq)
  BY EqualSolved
<1>2. Equal[<<f, g>>] = eq[q]
  BY <1>1 DEF Answers
<1>3. q \in Questions /\ q.f = f /\ q.g = g /\ q.chain = {}
  BY DEF Questions
<1> HIDE DEF q
<1>4. eq[q].same /\ ~ eq[q].crossed => <<f, g>> \in Linked({})
  BY <1>1, <1>3, AnswerIsSound
<1>5. given.autoHide = Functions /\ <<f, g>> \in Alike => eq[q].same
  BY <1>1, <1>3, AnswerIsComplete
<1>6. QED
  BY <1>2, <1>4, <1>5, LinkedAlike

------------------------------------------------------------------------------
(***************************************************************************)
(* The inductive invariant.                                                *)
(***************************************************************************)
\* Functions are in one group each when they have been looked up, once.
Grouped ==
    /\ DOMAIN groups \subseteq given.autoHide
    /\ groups \in [DOMAIN groups -> Seq(given.autoHide)]
    /\ \A k \in DOMAIN groups :
          /\ groups[k] # <<>> /\ groups[k][1] = k
          /\ IsInjective(groups[k])
    /\ \A k, l \in DOMAIN groups :
          ToSet(groups[k]) \cap ToSet(groups[l]) # {} => k = l
    /\ \A f \in given.autoHide :
          f \in left <=> \A k \in DOMAIN groups : f \notin ToSet(groups[k])

\* The groups are what cannot be told apart.
ToldApart ==
    /\ \A k \in DOMAIN groups : \A f \in ToSet(groups[k]) \ crossed : <<k, f>> \in Alike
    /\ given.autoHide = Functions =>
          \A k, l \in DOMAIN groups : k # l => <<k, l>> \notin Alike

Dups(k) == ToSet(Tail(groups[k]))
Aliases(k) == {AliasOf(f) : f \in Dups(k)}

\* In a list, the aliases of a key's duplicates stand before it, and nothing
\* else stands between.
Fronted(s, k) ==
    \A f \in Dups(k) : \A p, i \in DOMAIN s :
       s[p] = AliasOf(f) /\ s[i] = k =>
          p < i /\ \A n \in p .. (i - 1) : s[n] \in Aliases(k)

\* All duplicates of a key are replaced or none.
Whole(k) == Dups(k) \subseteq Replaced \/ Dups(k) \cap Replaced = {}

\* The section holds the functions that are not removed, and aliases.
Section ==
    /\ textAtoms \in Seq(Nat) /\ IsInjective(textAtoms)
    /\ ToSet(textAtoms) = {AliasOf(f) : f \in Replaced}
                             \cup (IF progress = "done" THEN Functions \ Replaced ELSE Functions)
    /\ \A f \in Replaced : \E k \in DOMAIN groups : f \in Dups(k)
    /\ progress = "match" => Replaced = {}
    /\ \A k \in DOMAIN groups : Whole(k) /\ Fronted(textAtoms, k)
    /\ progress = "done" => \A k \in DOMAIN groups : Dups(k) \subseteq Replaced

\* What an atom of the input is bound to
Bound == [a \in Functions \cup Data |->
             IF progress = "done" /\ a \in Replaced THEN AliasOf(a) ELSE a]

DedupInv ==
    /\ given \in DedupInputs
    /\ progress \in {"match", "alias", "done"}
    /\ left \subseteq given.autoHide /\ (progress # "match" => left = {})
    /\ crossed \subseteq given.autoHide
    /\ Grouped /\ ToldApart /\ Section
    /\ table = Bound /\ direct = Bound

------------------------------------------------------------------------------
(***************************************************************************)
(* Lists.                                                                  *)
(***************************************************************************)
\* The list without its first, if it has each element once
LEMMA TailFacts ==
    ASSUME NEW S, NEW s \in Seq(S), s # <<>>, IsInjective(s)
    PROVE  /\ Tail(s) \in Seq(S) /\ Len(Tail(s)) = Len(s) - 1
           /\ \A n \in 1 .. Len(Tail(s)) : Tail(s)[n] = s[n + 1]
           /\ IsInjective(Tail(s)) /\ ToSet(Tail(s)) = ToSet(s) \ {s[1]}
           /\ s[1] \in ToSet(s) /\ ToSet(s) \in SUBSET S
<1>1. /\ Tail(s) \in Seq(S) /\ Len(Tail(s)) = Len(s) - 1 /\ Len(s) \in Nat \ {0}
      /\ \A n \in 1 .. Len(Tail(s)) : Tail(s)[n] = s[n + 1]
      /\ DOMAIN s = 1 .. Len(s) /\ DOMAIN Tail(s) = 1 .. Len(Tail(s))
  OBVIOUS
<1>2. \A a, b \in 1 .. Len(s) : s[a] = s[b] => a = b
  BY <1>1 DEF IsInjective
<1>3. IsInjective(Tail(s))
  BY <1>1, <1>2 DEF IsInjective
<1>4. ToSet(Tail(s)) = ToSet(s) \ {s[1]}
  <2>1. ASSUME NEW n \in 1 .. Len(Tail(s))  PROVE Tail(s)[n] \in ToSet(s) \ {s[1]}
    BY <1>1, <1>2 DEF ToSet
  <2>2. ASSUME NEW n \in 1 .. Len(s), s[n] # s[1]  PROVE s[n] \in ToSet(Tail(s))
    <3>1. n - 1 \in 1 .. Len(Tail(s)) /\ n - 1 + 1 = n
      BY <1>1, <2>2
    <3>2. Tail(s)[n - 1] = s[n]
      BY <1>1, <3>1
    <3>3. QED
      BY <1>1, <3>1, <3>2 DEF ToSet
  <2>3. ToSet(s) = {s[n] : n \in 1 .. Len(s)} /\ ToSet(Tail(s)) = {Tail(s)[n] : n \in 1 .. Len(Tail(s))}
    BY <1>1 DEF ToSet
  <2>4. QED
    BY <2>1, <2>2, <2>3
<1>5. s[1] \in ToSet(s) /\ ToSet(s) \in SUBSET S
  BY <1>1 DEF ToSet
<1>6. QED
  BY <1>1, <1>3, <1>4, <1>5

\* A list of one
LEMMA Single ==
    ASSUME NEW S, NEW e \in S
    PROVE  /\ <<e>> \in Seq(S) /\ <<e>> # <<>> /\ <<e>>[1] = e
           /\ IsInjective(<<e>>) /\ ToSet(<<e>>) = {e}
<1>1. <<e>> \in Seq(S) /\ <<e>> # <<>> /\ <<e>>[1] = e
  OBVIOUS
<1>2. DOMAIN <<e>> = {1}
  <2>1. DOMAIN <<e>> = 1 .. 1
    OBVIOUS
  <2>2. QED
    BY <2>1
<1>3. QED
  BY <1>1, <1>2 DEF IsInjective, ToSet

\* The list with one more
LEMMA AppendFacts ==
    ASSUME NEW S, NEW s \in Seq(S), s # <<>>, IsInjective(s), NEW e \in S, e \notin ToSet(s)
    PROVE  /\ Append(s, e) \in Seq(S) /\ Append(s, e) # <<>> /\ Append(s, e)[1] = s[1]
           /\ IsInjective(Append(s, e)) /\ ToSet(Append(s, e)) = ToSet(s) \cup {e}
<1> DEFINE t == Append(s, e)
<1>1. /\ t \in Seq(S) /\ Len(t) = Len(s) + 1 /\ Len(s) \in Nat \ {0}
      /\ \A n \in 1 .. Len(s) : t[n] = s[n]
      /\ t[Len(s) + 1] = e
      /\ DOMAIN s = 1 .. Len(s) /\ DOMAIN t = 1 .. Len(t)
  OBVIOUS
<1> HIDE DEF t
<1>2. \A n \in 1 .. Len(t) : n \in 1 .. Len(s) \/ n = Len(s) + 1
  BY <1>1
<1>3. \A n \in 1 .. Len(s) : s[n] # e
  BY <1>1 DEF ToSet
<1>4. IsInjective(t)
  <2> SUFFICES ASSUME NEW a \in 1 .. Len(t), NEW b \in 1 .. Len(t), t[a] = t[b]  PROVE a = b
    BY <1>1 DEF IsInjective
  <2>1. \A x, y \in 1 .. Len(s) : s[x] = s[y] => x = y
    BY <1>1 DEF IsInjective
  <2>2. QED
    BY <1>1, <1>2, <1>3, <2>1
<1>5. ToSet(t) = ToSet(s) \cup {e}
  <2>1. ToSet(s) = {s[n] : n \in 1 .. Len(s)} /\ ToSet(t) = {t[n] : n \in 1 .. Len(t)}
    BY <1>1 DEF ToSet
  <2>2. \A n \in 1 .. Len(s) : n \in 1 .. Len(t)
    BY <1>1
  <2>3. Len(s) + 1 \in 1 .. Len(t)
    BY <1>1
  <2>4. QED
    BY <1>1, <1>2, <2>1, <2>2, <2>3
<1>6. t # <<>> /\ t[1] = s[1]
  BY <1>1
<1>7. QED
  BY <1>1, <1>4, <1>5, <1>6 DEF t

\* A list behind another
LEMMA Behind ==
    ASSUME NEW S, NEW a \in Seq(S), NEW b \in Seq(S), NEW r, r = a \o b
    PROVE  /\ r \in Seq(S) /\ Len(r) = Len(a) + Len(b)
           /\ \A n \in 1 .. Len(a) : r[n] = a[n]
           /\ \A n \in (Len(a) + 1) .. (Len(a) + Len(b)) : r[n] = b[n - Len(a)]
OBVIOUS

\* A list that is inserted into another
Insertion(s, d, i) == SubSeq(s, 1, i - 1) \o d \o SubSeq(s, i, Len(s))

\* Where the elements of the two lists are then, l of the first and m of the
\* other
IsInserted(r, s, d, i, l, m) ==
    \A n \in 1 .. (l + m) :
       /\ n < i => n \in 1 .. l /\ r[n] = s[n]
       /\ i <= n /\ n < i + m => n - i + 1 \in 1 .. m /\ r[n] = d[n - i + 1]
       /\ i + m <= n => n - m \in 1 .. l /\ r[n] = s[n - m]

LEMMA Inserted ==
    ASSUME NEW S, NEW s \in Seq(S), NEW d \in Seq(S), NEW i \in 1 .. Len(s)
    PROVE  /\ Insertion(s, d, i) \in Seq(S) /\ Len(Insertion(s, d, i)) = Len(s) + Len(d)
           /\ IsInserted(Insertion(s, d, i), s, d, i, Len(s), Len(d))
<1> DEFINE a == SubSeq(s, 1, i - 1)
           c == SubSeq(s, i, Len(s))
<1>1. /\ a \in Seq(S) /\ Len(a) = i - 1
      /\ \A n \in 1 .. (i - 1) : a[n] = s[n]
  OBVIOUS
<1>2. /\ c \in Seq(S) /\ Len(c) = Len(s) - i + 1
      /\ \A n \in 1 .. (Len(s) - i + 1) : c[n] = s[i + n - 1]
  OBVIOUS
<1>r. PICK r : r = Insertion(s, d, i)
  OBVIOUS
<1>3. Len(s) \in Nat /\ Len(d) \in Nat /\ r = (a \o d) \o c
  BY <1>r DEF Insertion
<1> HIDE DEF a, c
<1>b. PICK b : b = a \o d
  OBVIOUS
<1>4. /\ b \in Seq(S) /\ Len(b) = Len(a) + Len(d)
      /\ \A n \in 1 .. Len(a) : b[n] = a[n]
      /\ \A n \in (Len(a) + 1) .. (Len(a) + Len(d)) : b[n] = d[n - Len(a)]
  <2>1. a \in Seq(S)
    BY <1>1
  <2>2. QED
    BY <1>b, <2>1, Behind
<1>5. r = b \o c
  BY <1>3, <1>b
<1>6. /\ r \in Seq(S) /\ Len(r) = Len(b) + Len(c)
      /\ \A n \in 1 .. Len(b) : r[n] = b[n]
      /\ \A n \in (Len(b) + 1) .. (Len(b) + Len(c)) : r[n] = c[n - Len(b)]
  <2>1. b \in Seq(S) /\ c \in Seq(S)
    BY <1>2, <1>4
  <2>2. QED
    BY <1>5, <2>1, Behind
<1>7. PICK m \in Nat, l \in Nat, j \in Nat :
         /\ m = Len(d) /\ l = Len(s) /\ i = j + 1 /\ j < l
         /\ Len(a) = j /\ Len(c) = l - j /\ Len(b) = j + m /\ Len(r) = l + m
  <2>1. i - 1 \in Nat /\ i = (i - 1) + 1 /\ i - 1 < Len(s) /\ Len(c) = Len(s) - (i - 1)
    BY <1>2, <1>3
  <2>2. Len(b) = (i - 1) + Len(d)
    BY <1>1, <1>4
  <2>3. Len(r) = Len(s) + Len(d)
    BY <1>2, <1>3, <1>6, <2>2
  <2>4. QED
    BY <1>1, <1>3, <2>1, <2>2, <2>3
<1>8. ASSUME NEW n \in 1 .. (l + m)
      PROVE  /\ n < i => n \in 1 .. l /\ r[n] = s[n]
             /\ i <= n /\ n < i + m => n - i + 1 \in 1 .. m /\ r[n] = d[n - i + 1]
             /\ i + m <= n => n - m \in 1 .. l /\ r[n] = s[n - m]
  <2>1. ASSUME n < i  PROVE n \in 1 .. l /\ r[n] = s[n]
    <3>1. n \in 1 .. j /\ n \in 1 .. (j + m) /\ n \in 1 .. l /\ n \in 1 .. (i - 1)
      BY <1>7, <2>1
    <3>2. r[n] = b[n] /\ b[n] = a[n] /\ a[n] = s[n]
      BY <1>1, <1>4, <1>6, <1>7, <3>1
    <3>3. QED
      BY <3>1, <3>2
  <2>2. ASSUME i <= n, n < i + m  PROVE n - i + 1 \in 1 .. m /\ r[n] = d[n - i + 1]
    <3>1. n \in (j + 1) .. (j + m) /\ n \in 1 .. (j + m) /\ n - j \in 1 .. m /\ n - j = n - i + 1
      BY <1>7, <2>2
    <3>2. r[n] = b[n] /\ b[n] = d[n - j]
      BY <1>4, <1>6, <1>7, <3>1
    <3>3. QED
      BY <3>1, <3>2
  <2>3. ASSUME i + m <= n  PROVE n - m \in 1 .. l /\ r[n] = s[n - m]
    <3>1. /\ n \in (j + m + 1) .. (j + m + (l - j)) /\ n - m \in 1 .. l
          /\ n - (j + m) \in 1 .. (l - j) /\ n - (j + m) \in 1 .. (l - i + 1)
          /\ i + (n - (j + m)) - 1 = n - m
      BY <1>7, <2>3
    <3>2. r[n] = c[n - (j + m)]
      BY <1>6, <1>7, <3>1
    <3>3. c[n - (j + m)] = s[n - m]
      BY <1>2, <1>7, <3>1
    <3>4. QED
      BY <3>1, <3>2, <3>3
  <2>4. QED
    BY <2>1, <2>2, <2>3
<1>9. QED
  BY <1>r, <1>6, <1>7, <1>8 DEF IsInserted

\* Where they go
Places(r, s, d, i, l, m) ==
    /\ \A x \in 1 .. l : /\ x < i => x \in 1 .. (l + m) /\ r[x] = s[x]
                         /\ i <= x => x + m \in 1 .. (l + m) /\ r[x + m] = s[x]
    /\ \A x \in 1 .. m : i + x - 1 \in 1 .. (l + m) /\ r[i + x - 1] = d[x]

LEMMA InsertedPlaces ==
    ASSUME NEW l \in Nat, NEW m \in Nat, NEW i \in 1 .. l, NEW r, NEW s, NEW d,
           IsInserted(r, s, d, i, l, m)
    PROVE  Places(r, s, d, i, l, m)
<1>1. ASSUME NEW x \in 1 .. l
      PROVE  /\ x < i => x \in 1 .. (l + m) /\ r[x] = s[x]
             /\ i <= x => x + m \in 1 .. (l + m) /\ r[x + m] = s[x]
  <2>1. x < i => x \in 1 .. (l + m) /\ r[x] = s[x]
    BY DEF IsInserted
  <2>2. ASSUME i <= x  PROVE x + m \in 1 .. (l + m) /\ r[x + m] = s[x]
    <3>1. x + m \in 1 .. (l + m) /\ i + m <= x + m /\ x + m - m = x
      BY <2>2
    <3>2. QED
      BY <3>1 DEF IsInserted
  <2>3. QED
    BY <2>1, <2>2
<1>2. ASSUME NEW x \in 1 .. m
      PROVE  i + x - 1 \in 1 .. (l + m) /\ r[i + x - 1] = d[x]
  <2>1. /\ i + x - 1 \in 1 .. (l + m) /\ i <= i + x - 1 /\ i + x - 1 < i + m
        /\ i + x - 1 - i + 1 = x
    OBVIOUS
  <2>2. QED
    BY <2>1 DEF IsInserted
<1>3. QED
  BY <1>1, <1>2 DEF Places

\* What is in neither list twice, and not in both, is in the result once.
LEMMA InsertedOnce ==
    ASSUME NEW l \in Nat, NEW m \in Nat, NEW i \in 1 .. l, NEW r, NEW s, NEW d,
           IsInserted(r, s, d, i, l, m),
           \A x, y \in 1 .. l : s[x] = s[y] => x = y,
           \A x, y \in 1 .. m : d[x] = d[y] => x = y,
           \A x \in 1 .. l, y \in 1 .. m : s[x] # d[y]
    PROVE  \A x, y \in 1 .. (l + m) : r[x] = r[y] => x = y
<1> SUFFICES ASSUME NEW x \in 1 .. (l + m), NEW y \in 1 .. (l + m), r[x] = r[y]  PROVE x = y
  OBVIOUS
<1> DEFINE In(z) == i <= z /\ z < i + m
           Of(z) == IF z < i THEN z ELSE z - m
<1>1. \A z \in 1 .. (l + m) : In(z) => z - i + 1 \in 1 .. m /\ r[z] = d[z - i + 1]
  BY DEF IsInserted
<1>2. \A z \in 1 .. (l + m) : ~ In(z) => Of(z) \in 1 .. l /\ r[z] = s[Of(z)]
  BY DEF IsInserted
<1>3. \A z \in 1 .. (l + m) : ~ In(z) => (z < i <=> Of(z) < i)
  OBVIOUS
<1>4. CASE In(x) /\ In(y)
  <2>1. x - i + 1 = y - i + 1
    BY <1>1, <1>4
  <2>2. QED
    BY <2>1
<1>5. CASE ~ In(x) /\ ~ In(y)
  <2>1. Of(x) = Of(y)
    <3> HIDE DEF Of, In
    <3>1. QED
      BY <1>2, <1>5
  <2>2. QED
    BY <1>3, <1>5, <2>1
<1> HIDE DEF In, Of
<1>6. CASE In(x) /\ ~ In(y)
  BY <1>1, <1>2, <1>6
<1>7. CASE ~ In(x) /\ In(y)
  BY <1>1, <1>2, <1>7
<1>8. QED
  BY <1>4, <1>5, <1>6, <1>7

------------------------------------------------------------------------------
(***************************************************************************)
(* Every step keeps the invariant.                                         *)
(***************************************************************************)
\* Aliases are told from functions, and from each other.
LEMMA AliasFacts ==
    ASSUME given \in DedupInputs
    PROVE  /\ \A f \in Functions : f \in Nat /\ AliasOf(f) \in Nat /\ AliasOf(f) \notin Functions
           /\ \A f, g \in Functions : AliasOf(f) = AliasOf(g) => f = g
BY InputFields DEF AliasOf

\* What depends on the input only stays.
LEMMA InputStays ==
    ASSUME UNCHANGED given
    PROVE  /\ Functions' = Functions /\ Alike' = Alike
           /\ \A f : AliasOf(f)' = AliasOf(f)
<1>1. Functions' = Functions /\ \A f : FixupsOf(f)' = FixupsOf(f)
  BY DEF Functions, FixupsOf
<1>2. SameCode' = SameCode
  BY DEF SameCode, Functions, FixupsOf
<1>3. Alike' = Alike
  BY DEF Alike, SameCode, Confirmed, Functions, FixupsOf
<1>4. QED
  BY <1>1, <1>3 DEF AliasOf

\* The groups, for what the steps need of them
LEMMA GroupFacts ==
    ASSUME DedupInv, NEW k \in DOMAIN groups
    PROVE  /\ k \in Functions /\ k \in ToSet(groups[k]) /\ groups[k] \in Seq(Functions)
           /\ groups[k] # <<>> /\ groups[k][1] = k /\ IsInjective(groups[k])
           /\ ToSet(groups[k]) \in SUBSET given.autoHide /\ ToSet(groups[k]) \in SUBSET Functions
           /\ Dups(k) = ToSet(groups[k]) \ {k}
           /\ Tail(groups[k]) \in Seq(Functions) /\ IsInjective(Tail(groups[k]))
           /\ Len(Tail(groups[k])) = Len(groups[k]) - 1
           /\ \A n \in 1 .. Len(Tail(groups[k])) : Tail(groups[k])[n] = groups[k][n + 1]
<1>1. given.autoHide \in SUBSET Functions
  BY InputFields DEF DedupInv
<1>2. /\ groups[k] \in Seq(given.autoHide) /\ groups[k] # <<>> /\ groups[k][1] = k
      /\ IsInjective(groups[k])
  BY DEF DedupInv, Grouped
<1>3. ToSet(groups[k]) \in SUBSET given.autoHide /\ k \in ToSet(groups[k])
  BY <1>2, TailFacts
<1>4. groups[k] \in Seq(Functions)
  BY <1>1, <1>2
<1>5. /\ Tail(groups[k]) \in Seq(Functions) /\ IsInjective(Tail(groups[k]))
      /\ ToSet(Tail(groups[k])) = ToSet(groups[k]) \ {k}
      /\ Len(Tail(groups[k])) = Len(groups[k]) - 1
      /\ \A n \in 1 .. Len(Tail(groups[k])) : Tail(groups[k])[n] = groups[k][n + 1]
  BY <1>2, <1>4, TailFacts
<1>6. QED
  BY <1>1, <1>2, <1>3, <1>4, <1>5 DEF Dups

LEMMA DedupInvInit == DedupInit => DedupInv
<1> SUFFICES ASSUME DedupInit  PROVE DedupInv
  OBVIOUS
<1> USE DEF DedupInit
<1>1. given \in DedupInputs /\ DOMAIN groups = {} /\ groups \in [DOMAIN groups -> Seq(given.autoHide)]
  OBVIOUS
<1>2. Grouped
  BY <1>1 DEF Grouped
<1>3. ToldApart
  BY <1>1 DEF ToldApart
<1>4. /\ Len(given.content) \in Nat /\ Functions = 1 .. Len(given.content)
      /\ textAtoms = [f \in 1 .. Len(given.content) |-> f]
  BY <1>1, InputFields
<1>5. textAtoms \in Seq(Nat) /\ IsInjective(textAtoms)
  BY <1>4 DEF IsInjective
<1>6. ToSet(textAtoms) = Functions
  BY <1>4 DEF ToSet
<1>7. Replaced = {}
  BY <1>1, <1>6, AliasFacts DEF Replaced
<1>8. Section
  BY <1>1, <1>5, <1>6, <1>7 DEF Section
<1>9. table = Bound /\ direct = Bound
  BY <1>7 DEF Bound
<1>10. QED
  BY <1>1, <1>2, <1>3, <1>8, <1>9 DEF DedupInv

LEMMA MatchStep == ASSUME DedupInv, MatchFunction  PROVE DedupInv'
<1>1. /\ given \in DedupInputs /\ given.autoHide \in SUBSET Functions
      /\ progress = "match" /\ left \subseteq given.autoHide
      /\ UNCHANGED <<given, progress, textAtoms, table, direct>>
  BY InputFields DEF DedupInv, MatchFunction
<1>a. PICK next \in left :
         /\ left' = left \ {next}
         /\ \E eq \in {[k \in DOMAIN groups |-> Equal[<<k, next>>]]} :
                LET keys == {k \in DOMAIN groups : eq[k].same}
                IN  \/ /\ keys = {}
                       /\ groups' = [k \in DOMAIN groups \cup {next} |->
                                        IF k = next THEN <<next>> ELSE groups[k]]
                       /\ UNCHANGED crossed
                    \/ \E k \in keys :
                       /\ groups' = [groups EXCEPT ![k] = Append(@, next)]
                       /\ crossed' = crossed \cup {f \in {next} : eq[k].crossed}
  BY DEF MatchFunction
<1>2. /\ left' = left \ {next}
      /\ \/ /\ \A k \in DOMAIN groups : ~ Equal[<<k, next>>].same
            /\ groups' = [k \in DOMAIN groups \cup {next} |->
                             IF k = next THEN <<next>> ELSE groups[k]]
            /\ UNCHANGED crossed
         \/ \E k \in DOMAIN groups :
            /\ Equal[<<k, next>>].same
            /\ groups' = [groups EXCEPT ![k] = Append(@, next)]
            /\ crossed' = crossed \cup {f \in {next} : Equal[<<k, next>>].crossed}
  <2>1. PICK eq : /\ eq = [k \in DOMAIN groups |-> Equal[<<k, next>>]]
                  /\ \/ /\ {k \in DOMAIN groups : eq[k].same} = {}
                        /\ groups' = [k \in DOMAIN groups \cup {next} |->
                                         IF k = next THEN <<next>> ELSE groups[k]]
                        /\ UNCHANGED crossed
                     \/ \E k \in {k \in DOMAIN groups : eq[k].same} :
                        /\ groups' = [groups EXCEPT ![k] = Append(@, next)]
                        /\ crossed' = crossed \cup {f \in {next} : eq[k].crossed}
    BY <1>a
  <2>2. \A k \in DOMAIN groups : eq[k] = Equal[<<k, next>>]
    BY <2>1
  <2>3. QED
    BY <1>a, <2>1, <2>2
<1>3. next \in Functions /\ next \in given.autoHide
  BY <1>1
<1>4. Straight
  <2>1. Bound = [a \in Functions \cup Data |-> a]
    BY <1>1 DEF Bound
  <2>2. QED
    BY <2>1 DEF DedupInv, Straight
<1>5. \A k \in DOMAIN groups : k \in Functions /\ next \notin ToSet(groups[k]) /\ next # k
  <2> SUFFICES ASSUME NEW k \in DOMAIN groups
               PROVE  k \in Functions /\ next \notin ToSet(groups[k]) /\ next # k
    OBVIOUS
  <2>1. k \in Functions /\ k \in ToSet(groups[k])
    BY GroupFacts
  <2>2. next \notin ToSet(groups[k])
    BY <1>3 DEF DedupInv, Grouped
  <2>3. QED
    BY <2>1, <2>2
<1>6. Functions' = Functions /\ Alike' = Alike
  BY <1>1, InputStays
<1>7. Grouped' /\ ToldApart' /\ crossed' \subseteq given.autoHide
  <2>1. CASE /\ \A k \in DOMAIN groups : ~ Equal[<<k, next>>].same
             /\ groups' = [k \in DOMAIN groups \cup {next} |->
                              IF k = next THEN <<next>> ELSE groups[k]]
             /\ UNCHANGED crossed
    <3>1. /\ DOMAIN groups' = DOMAIN groups \cup {next}
          /\ groups'[next] = <<next>>
          /\ \A k \in DOMAIN groups : groups'[k] = groups[k]
      BY <1>5, <2>1
    <3>2. ToSet(<<next>>) = {next} /\ IsInjective(<<next>>) /\ <<next>> \in Seq(given.autoHide)
      BY <1>3, Single
    <3>3. Grouped'
      <4>1. groups' \in [DOMAIN groups' -> Seq(given.autoHide)]
        BY <2>1, <3>1, <3>2 DEF DedupInv, Grouped
      <4>2. DOMAIN groups' \subseteq given.autoHide
        BY <1>3, <3>1 DEF DedupInv, Grouped
      <4>3. ASSUME NEW k \in DOMAIN groups'
            PROVE  groups'[k] # <<>> /\ groups'[k][1] = k /\ IsInjective(groups'[k])
        BY <3>1, <3>2 DEF DedupInv, Grouped
      <4>4. ASSUME NEW k \in DOMAIN groups', NEW l \in DOMAIN groups',
                   ToSet(groups'[k]) \cap ToSet(groups'[l]) # {}
            PROVE  k = l
        <5>1. CASE k \in DOMAIN groups /\ l \in DOMAIN groups
          BY <3>1, <4>4, <5>1 DEF DedupInv, Grouped
        <5>2. CASE k = next \/ l = next
          <6>1. ToSet(groups'[next]) = {next}
            BY <3>1, <3>2
          <6>2. \A m \in DOMAIN groups : next \notin ToSet(groups'[m])
            BY <1>5, <3>1
          <6>3. QED
            BY <3>1, <4>4, <5>2, <6>1, <6>2
        <5>3. QED
          BY <3>1, <5>1, <5>2
      <4>5. ASSUME NEW f \in given.autoHide
            PROVE  f \in left' <=> \A k \in DOMAIN groups' : f \notin ToSet(groups'[k])
        <5>1. f \in left <=> \A k \in DOMAIN groups : f \notin ToSet(groups[k])
          BY DEF DedupInv, Grouped
        <5>2. QED
          BY <1>2, <3>1, <3>2, <5>1
      <4>6. QED
        BY <1>1, <4>1, <4>2, <4>3, <4>4, <4>5 DEF Grouped
    <3>4. ToldApart'
      <4>1. ASSUME NEW k \in DOMAIN groups', NEW f \in ToSet(groups'[k]) \ crossed'
            PROVE  <<k, f>> \in Alike
        <5>1. CASE k = next
          BY <1>1, <1>3, <3>1, <3>2, <5>1, AlikeBothWays
        <5>2. CASE k \in DOMAIN groups
          BY <2>1, <3>1, <5>2 DEF DedupInv, ToldApart
        <5>3. QED
          BY <3>1, <5>1, <5>2
      <4>2. ASSUME given.autoHide = Functions, NEW k \in DOMAIN groups', NEW l \in DOMAIN groups', k # l
            PROVE  <<k, l>> \notin Alike
        <5>1. \A m \in DOMAIN groups : <<m, next>> \notin Alike
          BY <1>1, <1>3, <1>4, <1>5, <2>1, <4>2, EqualIsRight
        <5>2. \A m \in DOMAIN groups : <<next, m>> \notin Alike
          BY <1>1, <5>1, AlikeBothWays
        <5>3. CASE k \in DOMAIN groups /\ l \in DOMAIN groups
          BY <4>2, <5>3 DEF DedupInv, ToldApart
        <5>4. QED
          BY <3>1, <4>2, <5>1, <5>2, <5>3
      <4>3. QED
        BY <1>1, <1>6, <4>1, <4>2 DEF ToldApart
    <3>5. QED
      BY <2>1, <3>3, <3>4 DEF DedupInv
  <2>2. ASSUME NEW o \in DOMAIN groups, Equal[<<o, next>>].same,
               groups' = [groups EXCEPT ![o] = Append(@, next)],
               crossed' = crossed \cup {f \in {next} : Equal[<<o, next>>].crossed}
        PROVE  Grouped' /\ ToldApart' /\ crossed' \subseteq given.autoHide
    <3>1. /\ DOMAIN groups' = DOMAIN groups
          /\ groups'[o] = Append(groups[o], next)
          /\ \A k \in DOMAIN groups : k # o => groups'[k] = groups[k]
      BY <2>2
    <3>2. /\ Append(groups[o], next) \in Seq(given.autoHide)
          /\ Append(groups[o], next) # <<>> /\ Append(groups[o], next)[1] = o
          /\ IsInjective(Append(groups[o], next))
          /\ ToSet(Append(groups[o], next)) = ToSet(groups[o]) \cup {next}
      <4>1. /\ groups[o] \in Seq(given.autoHide) /\ groups[o] # <<>> /\ groups[o][1] = o
            /\ IsInjective(groups[o])
        BY DEF DedupInv, Grouped
      <4>2. QED
        BY <1>3, <1>5, <4>1, AppendFacts
    <3>3. \A k \in DOMAIN groups :
             ToSet(groups'[k]) = IF k = o THEN ToSet(groups[o]) \cup {next} ELSE ToSet(groups[k])
      BY <3>1, <3>2
    <3>4. Grouped'
      <4>1. groups' \in [DOMAIN groups' -> Seq(given.autoHide)]
        BY <2>2, <3>1, <3>2 DEF DedupInv, Grouped
      <4>2. DOMAIN groups' \subseteq given.autoHide
        BY <3>1 DEF DedupInv, Grouped
      <4>3. ASSUME NEW k \in DOMAIN groups'
            PROVE  groups'[k] # <<>> /\ groups'[k][1] = k /\ IsInjective(groups'[k])
        <5>1. CASE k = o
          BY <3>1, <3>2, <5>1
        <5>2. CASE k # o
          BY <3>1, <5>2 DEF DedupInv, Grouped
        <5>3. QED
          BY <5>1, <5>2
      <4>4. ASSUME NEW k \in DOMAIN groups', NEW l \in DOMAIN groups',
                   ToSet(groups'[k]) \cap ToSet(groups'[l]) # {}
            PROVE  k = l
        <5>1. PICK f : f \in ToSet(groups'[k]) /\ f \in ToSet(groups'[l])
          BY <4>4
        <5>2. \A m, n \in DOMAIN groups : f \in ToSet(groups[m]) /\ f \in ToSet(groups[n]) => m = n
          BY DEF DedupInv, Grouped
        <5>3. QED
          BY <1>5, <3>1, <3>3, <5>1, <5>2
      <4>5. ASSUME NEW f \in given.autoHide
            PROVE  f \in left' <=> \A k \in DOMAIN groups' : f \notin ToSet(groups'[k])
        <5>1. f \in left <=> \A k \in DOMAIN groups : f \notin ToSet(groups[k])
          BY DEF DedupInv, Grouped
        <5>2. QED
          BY <1>2, <3>1, <3>3, <5>1
      <4>6. QED
        BY <1>1, <4>1, <4>2, <4>3, <4>4, <4>5 DEF Grouped
    <3>5. ToldApart'
      <4>1. ASSUME NEW k \in DOMAIN groups', NEW f \in ToSet(groups'[k]) \ crossed'
            PROVE  <<k, f>> \in Alike
        <5>1. CASE f \in ToSet(groups[k])
          BY <2>2, <3>1, <5>1 DEF DedupInv, ToldApart
        <5>2. CASE f \notin ToSet(groups[k])
          <6>1. k = o /\ f = next
            BY <3>1, <3>3, <5>2
          <6>2. ~ Equal[<<o, next>>].crossed
            BY <2>2, <4>1, <6>1
          <6>3. QED
            BY <1>1, <1>3, <1>4, <1>5, <2>2, <6>1, <6>2, EqualIsRight
        <5>3. QED
          BY <5>1, <5>2
      <4>2. QED
        BY <1>1, <1>6, <3>1, <4>1 DEF DedupInv, ToldApart
    <3>6. QED
      BY <1>3, <2>2, <3>4, <3>5 DEF DedupInv
  <2>3. QED
    BY <1>2, <2>1, <2>2
<1>8. Section'
  <2>1. textAtoms \in Seq(Nat) /\ IsInjective(textAtoms) /\ ToSet(textAtoms) = Functions
    BY <1>1 DEF DedupInv, Section
  <2>2. Replaced' = {}
    BY <1>1, <2>1, AliasFacts, InputStays DEF Replaced
  <2>3. ASSUME NEW k \in DOMAIN groups'  PROVE Whole(k)' /\ Fronted(textAtoms, k)'
    <3>1. /\ groups'[k] \in Seq(given.autoHide) /\ groups'[k] # <<>>
          /\ IsInjective(groups'[k])
      BY <1>1, <1>7 DEF Grouped
    <3>2. Dups(k)' \in SUBSET Functions
      <4>1. ToSet(Tail(groups'[k])) \in SUBSET given.autoHide
        BY <3>1, TailFacts
      <4>2. QED
        BY <1>1, <4>1 DEF Dups
    <3>3. ASSUME NEW f \in Dups(k)', NEW p \in DOMAIN textAtoms, textAtoms[p] = AliasOf(f)
          PROVE  FALSE
      <4>1. textAtoms[p] \in ToSet(textAtoms)
        BY DEF ToSet
      <4>2. QED
        BY <1>1, <2>1, <3>2, <3>3, <4>1, AliasFacts
    <3>4. \A f : AliasOf(f)' = AliasOf(f)
      BY <1>1, InputStays
    <3>5. Fronted(textAtoms, k)'
      BY <1>1, <3>3, <3>4 DEF Fronted
    <3>6. QED
      BY <2>2, <3>5 DEF Whole
  <2>4. QED
    BY <1>1, <1>6, <2>1, <2>2, <2>3 DEF Section
<1>9. Bound' = Bound
  BY <1>1, <1>6 DEF Bound
<1>10. left' \subseteq given.autoHide
  BY <1>1, <1>2
<1>11. QED
  BY <1>1, <1>7, <1>8, <1>9, <1>10 DEF DedupInv

LEMMA EndStep == ASSUME DedupInv, EndMatch  PROVE DedupInv'
<1>1. /\ progress = "match" /\ progress' = "alias" /\ left = {}
      /\ UNCHANGED <<given, left, groups, textAtoms, table, direct, crossed>>
  BY DEF EndMatch
<1>2. /\ Functions' = Functions /\ Alike' = Alike
      /\ \A f : AliasOf(f)' = AliasOf(f)
  BY <1>1, InputStays
<1>3. Replaced' = Replaced /\ \A k : Dups(k)' = Dups(k)
  BY <1>1, <1>2 DEF Replaced, Dups
<1>4. Grouped' /\ ToldApart'
  BY <1>1, <1>2 DEF DedupInv, Grouped, ToldApart
<1>5. \A k : (Whole(k)' <=> Whole(k)) /\ (Fronted(textAtoms, k)' <=> Fronted(textAtoms, k))
  BY <1>1, <1>2, <1>3 DEF Whole, Fronted, Aliases
<1>6. Section'
  BY <1>1, <1>2, <1>3, <1>5 DEF DedupInv, Section
<1>7. Bound' = Bound
  BY <1>1, <1>2, <1>3 DEF Bound
<1>8. QED
  BY <1>1, <1>4, <1>6, <1>7 DEF DedupInv

\* Where an atom is in a list
LEMMA IndexFound ==
    ASSUME NEW s, NEW a \in ToSet(s)
    PROVE  Index(s, a) \in DOMAIN s /\ s[Index(s, a)] = a
<1>1. \E i \in DOMAIN s : s[i] = a
  BY DEF ToSet
<1>2. QED
  BY <1>1 DEF Index

\* Aliases put in front of their key leave those of other keys in front.
LEMMA FrontedByInsertion ==
    ASSUME DedupInv, NEW k \in DOMAIN groups, Dups(k) \cap Replaced = {},
           NEW n0 \in Nat, NEW m \in Nat, NEW i \in 1 .. n0, NEW s, NEW d, NEW r,
           DOMAIN s = 1 .. n0, DOMAIN d = 1 .. m, DOMAIN r = 1 .. (n0 + m),
           IsInserted(r, s, d, i, n0, m), IsInjective(s), IsInjective(d), s[i] = k,
           ToSet(s) \in SUBSET (Functions \cup {AliasOf(f) : f \in Replaced}),
           ToSet(d) = Aliases(k),
           \A l \in DOMAIN groups : Fronted(s, l)
    PROVE  /\ IsInjective(r) /\ ToSet(r) = ToSet(s) \cup Aliases(k)
           /\ \A l \in DOMAIN groups : Fronted(r, l)
<1>1. given \in DedupInputs /\ Replaced \in SUBSET Functions
  BY DEF DedupInv, Replaced
<1>2. \A l \in DOMAIN groups : l \in Functions /\ Dups(l) \in SUBSET Functions
  BY GroupFacts
<1>3. \A f, g \in Functions : AliasOf(f) \notin Functions /\ (AliasOf(f) = AliasOf(g) => f = g)
  BY <1>1, AliasFacts
<1>4. ToSet(s) \cap Aliases(k) = {}
  BY <1>1, <1>2, <1>3 DEF Aliases
<1>5. n0 \in Nat /\ m \in Nat /\ i \in Nat /\ i \in 1 .. n0
  OBVIOUS
<1>8. \A x \in 1 .. n0 : s[x] \in ToSet(s)
  BY DEF ToSet
<1>9. \A x \in 1 .. m : d[x] \in Aliases(k)
  BY DEF ToSet
<1>10. /\ \A x, y \in 1 .. n0 : s[x] = s[y] => x = y
       /\ \A x, y \in 1 .. m : d[x] = d[y] => x = y
  BY DEF IsInjective
<1>11. /\ \A x \in 1 .. n0 : /\ x < i => x \in 1 .. (n0 + m) /\ r[x] = s[x]
                             /\ i <= x => x + m \in 1 .. (n0 + m) /\ r[x + m] = s[x]
       /\ \A x \in 1 .. m : i + x - 1 \in 1 .. (n0 + m) /\ r[i + x - 1] = d[x]
  <2>1. Places(r, s, d, i, n0, m)
    BY InsertedPlaces
  <2>2. QED
    BY <2>1 DEF Places
<1>6. \A n \in 1 .. (n0 + m) :
         /\ n < i => n \in 1 .. n0 /\ r[n] = s[n]
         /\ i <= n /\ n < i + m => n - i + 1 \in 1 .. m /\ r[n] = d[n - i + 1]
         /\ i + m <= n => n - m \in 1 .. n0 /\ r[n] = s[n - m]
  BY DEF IsInserted
<1>13. ToSet(r) = ToSet(s) \cup Aliases(k)
  <2>1. ASSUME NEW n \in 1 .. (n0 + m)  PROVE r[n] \in ToSet(s) \cup Aliases(k)
    <3>1. n < i \/ (i <= n /\ n < i + m) \/ i + m <= n
      BY <1>5
    <3>2. QED
      BY <1>6, <1>8, <1>9, <3>1
  <2>2. ASSUME NEW x \in 1 .. n0  PROVE s[x] \in ToSet(r)
    <3>1. x < i \/ i <= x
      BY <1>5
    <3>2. QED
      BY <1>11, <3>1 DEF ToSet
  <2>3. ASSUME NEW x \in 1 .. m  PROVE d[x] \in ToSet(r)
    BY <1>11 DEF ToSet
  <2>4. /\ ToSet(r) = {r[n] : n \in 1 .. (n0 + m)} /\ ToSet(s) = {s[n] : n \in 1 .. n0}
        /\ Aliases(k) = {d[n] : n \in 1 .. m}
    BY DEF ToSet
  <2>5. ToSet(s) \subseteq ToSet(r) /\ Aliases(k) \subseteq ToSet(r)
    BY <2>2, <2>3, <2>4
  <2>6. ToSet(r) \subseteq ToSet(s) \cup Aliases(k)
    BY <2>1, <2>4
  <2>7. QED
    BY <2>5, <2>6
<1>14. IsInjective(r)
  <2>1. \A x \in 1 .. n0, y \in 1 .. m : s[x] # d[y]
    BY <1>4, <1>8, <1>9
  <2>2. \A x, y \in 1 .. (n0 + m) : r[x] = r[y] => x = y
    BY <1>10, <2>1, InsertedOnce
  <2>3. QED
    BY <2>2 DEF IsInjective
<1>15. ASSUME NEW l \in DOMAIN groups, NEW f \in Dups(l), NEW p \in DOMAIN r, NEW q \in DOMAIN r,
              r[p] = AliasOf(f), r[q] = l
       PROVE  p < q /\ \A n \in p .. (q - 1) : r[n] \in Aliases(l)
  <2>1. p \in 1 .. (n0 + m) /\ q \in 1 .. (n0 + m) /\ p \in Nat /\ q \in Nat
    BY <1>5
  <2>2. l \in Functions /\ f \in Functions /\ k \in Functions /\ i \in 1 .. n0
    BY <1>2
  <2>3. \A g \in Functions : g \notin Aliases(k) /\ g \notin Aliases(l)
    BY <1>2, <1>3 DEF Aliases
  <2>4. q < i \/ i + m <= q
    <3>1. ~ (i <= q /\ q < i + m)
      BY <1>6, <1>9, <1>15, <2>1, <2>2, <2>3
    <3>2. QED
      BY <1>5, <2>1, <3>1
  <2>5. CASE l = k
    <3>1. q = i + m
      <4>1. i + m \in 1 .. (n0 + m) /\ r[i + m] = k
        BY <1>5, <1>11, <2>2
      <4>2. QED
        BY <1>14, <1>15, <2>1, <2>5, <4>1 DEF IsInjective
    <3>2. i <= p /\ p < i + m
      <4>1. r[p] \notin ToSet(s)
        BY <1>4, <1>15, <2>5 DEF Aliases
      <4>2. ~ (p < i) /\ ~ (i + m <= p)
        BY <1>6, <1>8, <2>1, <4>1
      <4>3. QED
        BY <1>5, <2>1, <4>2
    <3>3. ASSUME NEW n \in p .. (q - 1)  PROVE r[n] \in Aliases(l)
      <4>1. n \in 1 .. (n0 + m) /\ i <= n /\ n < i + m
        BY <1>5, <2>1, <2>2, <3>1, <3>2
      <4>2. QED
        BY <1>6, <1>9, <2>5, <4>1
    <3>4. QED
      BY <1>5, <2>1, <3>1, <3>2, <3>3
  <2>6. CASE l # k
    <3>1. AliasOf(f) \notin Aliases(k)
      <4>1. f \notin Dups(k)
        <5>1. ToSet(groups[l]) \cap ToSet(groups[k]) = {}
          BY <2>6 DEF DedupInv, Grouped
        <5>2. QED
          BY <5>1, GroupFacts
      <4>2. QED
        BY <1>2, <1>3, <2>2, <4>1 DEF Aliases
    <3>2. p < i \/ i + m <= p
      <4>1. ASSUME i <= p, p < i + m  PROVE FALSE
        <5>1. p - i + 1 \in 1 .. m /\ r[p] = d[p - i + 1]
          BY <1>6, <2>1, <4>1
        <5>2. r[p] \in Aliases(k)
          BY <1>9, <5>1
        <5>3. QED
          BY <1>15, <3>1, <5>2
      <4>2. QED
        BY <1>5, <2>1, <4>1
    <3> DEFINE p0 == IF p < i THEN p ELSE p - m
               q0 == IF q < i THEN q ELSE q - m
    <3>3. p0 \in 1 .. n0 /\ s[p0] = AliasOf(f) /\ q0 \in 1 .. n0 /\ s[q0] = l
      BY <1>6, <1>15, <2>1, <2>4, <3>2
    <3>4. p0 < q0 /\ \A n \in p0 .. (q0 - 1) : s[n] \in Aliases(l)
      <4>1. Fronted(s, l)
        OBVIOUS
      <4> HIDE DEF p0, q0
      <4>2. QED
        BY <1>5, <3>3, <4>1 DEF Fronted
    <3>5. q0 < i \/ i < p0
      <4> HIDE DEF p0, q0
      <4>1. q0 # i
        BY <2>6, <3>3
      <4>2. i \notin p0 .. (q0 - 1)
        BY <2>2, <2>3, <3>4
      <4>3. QED
        BY <1>5, <2>2, <3>3, <4>1, <4>2
    <3>6. CASE q0 < i
      <4>1. q = q0 /\ p = p0 /\ q < i /\ p < i
        BY <1>5, <2>1, <2>4, <3>2, <3>4, <3>6
      <4> HIDE DEF p0, q0
      <4>2. ASSUME NEW n \in p .. (q - 1)  PROVE r[n] \in Aliases(l)
        <5>1. n \in 1 .. (n0 + m) /\ n < i /\ n \in p0 .. (q0 - 1)
          BY <1>5, <2>1, <4>1
        <5>2. QED
          BY <1>6, <3>4, <5>1
      <4>3. QED
        BY <3>4, <4>1, <4>2
    <3>7. CASE i < p0
      <4>1. /\ q = q0 + m /\ p = p0 + m /\ p0 \in Nat /\ q0 \in Nat
        BY <1>5, <2>1, <2>4, <3>2, <3>3, <3>4, <3>7
      <4> HIDE DEF p0, q0
      <4>2. ASSUME NEW n \in p .. (q - 1)  PROVE r[n] \in Aliases(l)
        <5>1. n \in 1 .. (n0 + m) /\ i + m <= n /\ n - m \in p0 .. (q0 - 1)
          BY <1>5, <2>1, <3>7, <4>1
        <5>2. QED
          BY <1>6, <3>4, <5>1
      <4>3. QED
        BY <1>5, <3>4, <4>1, <4>2
    <3>8. QED
      BY <3>5, <3>6, <3>7
  <2>7. QED
    BY <2>5, <2>6
<1>16. QED
  BY <1>13, <1>14, <1>15 DEF Fronted

LEMMA AliasStep == ASSUME DedupInv, NEW k \in DOMAIN groups, AliasGroup(k)  PROVE DedupInv'
<1> DEFINE dups == Tail(groups[k])
           d == [n \in DOMAIN dups |-> AliasOf(dups[n])]
           i == Index(textAtoms, k)
<1>1. /\ given \in DedupInputs
      /\ progress = "alias" /\ Len(groups[k]) > 1
      /\ AliasOf(groups[k][2]) \notin ToSet(textAtoms)
      /\ textAtoms' = Insertion(textAtoms, d, i)
      /\ UNCHANGED <<given, progress, left, groups, table, direct, crossed>>
  BY DEF AliasGroup, Insertion, DedupInv
<1>2. /\ Functions' = Functions /\ Alike' = Alike
      /\ \A f : AliasOf(f)' = AliasOf(f)
      /\ \A l : Dups(l)' = Dups(l) /\ Aliases(l)' = Aliases(l)
  BY <1>1, InputStays DEF Dups, Aliases
<1>3. k \in Functions /\ dups \in Seq(Functions) /\ IsInjective(dups) /\ Dups(k) \in SUBSET Functions
  BY GroupFacts
<1>4. /\ textAtoms \in Seq(Nat) /\ IsInjective(textAtoms)
      /\ ToSet(textAtoms) = {AliasOf(f) : f \in Replaced} \cup Functions
      /\ \A l \in DOMAIN groups : Whole(l) /\ Fronted(textAtoms, l)
      /\ \A f \in Replaced : \E l \in DOMAIN groups : f \in Dups(l)
  BY <1>1 DEF DedupInv, Section
<1>5. i \in 1 .. Len(textAtoms) /\ textAtoms[i] = k
  <2>1. k \in ToSet(textAtoms) /\ DOMAIN textAtoms = 1 .. Len(textAtoms)
    BY <1>3, <1>4
  <2>2. QED
    BY <2>1, IndexFound
<1>6. Dups(k) \cap Replaced = {}
  <2>1. groups[k][2] \in Dups(k)
    <3>1. dups[1] = groups[k][2] /\ 1 \in DOMAIN dups
      BY <1>1, GroupFacts
    <3>2. QED
      BY <3>1 DEF Dups, ToSet
  <2>2. groups[k][2] \notin Replaced
    BY <1>1 DEF Replaced
  <2>3. QED
    BY <1>4, <2>1, <2>2 DEF Whole
<1>7. d \in Seq(Nat) /\ IsInjective(d) /\ ToSet(d) = Aliases(k)
  <2>1. DOMAIN d = DOMAIN dups /\ DOMAIN dups = 1 .. Len(dups) /\ Len(dups) \in Nat
    BY <1>3
  <2>2. \A n \in DOMAIN dups : dups[n] \in Functions
    BY <1>3
  <2> HIDE DEF dups
  <2>3. \A n \in DOMAIN dups : d[n] = AliasOf(dups[n]) /\ AliasOf(dups[n]) \in Nat
    BY <1>1, <2>2, AliasFacts
  <2>4. d = [n \in 1 .. Len(dups) |-> d[n]]
    BY <2>1
  <2>5. \A n \in 1 .. Len(dups) : d[n] \in Nat
    BY <2>1, <2>3
  <2>6. \A x, y \in DOMAIN dups : dups[x] = dups[y] => x = y
    BY <1>3 DEF IsInjective
  <2>7. IsInjective(d)
    <3>1. ASSUME NEW x \in DOMAIN dups, NEW y \in DOMAIN dups, d[x] = d[y]  PROVE x = y
      BY <1>1, <2>2, <2>3, <2>6, <3>1, AliasFacts
    <3>2. QED
      BY <2>1, <3>1 DEF IsInjective
  <2>8. ToSet(d) = Aliases(k)
    BY <2>1, <2>3 DEF ToSet, Aliases, Dups, dups
  <2>9. d \in Seq(Nat)
    <3> HIDE DEF d
    <3>1. QED
      BY <2>1, <2>4, <2>5
  <2>10. QED
    BY <2>7, <2>8, <2>9
<1> HIDE DEF dups, d, i
<1>8. /\ textAtoms' \in Seq(Nat) /\ IsInjective(textAtoms')
      /\ ToSet(textAtoms') = ToSet(textAtoms) \cup Aliases(k)
      /\ \A l \in DOMAIN groups : Fronted(textAtoms', l)
  <2>1. PICK n0 \in Nat, m \in Nat : n0 = Len(textAtoms) /\ m = Len(d)
    BY <1>4, <1>7
  <2>2. DOMAIN textAtoms = 1 .. n0 /\ DOMAIN d = 1 .. m /\ i \in 1 .. n0
    BY <1>4, <1>5, <1>7, <2>1
  <2>3. /\ textAtoms' \in Seq(Nat) /\ Len(textAtoms') = n0 + m
        /\ IsInserted(textAtoms', textAtoms, d, i, n0, m)
    BY <1>1, <1>4, <1>5, <1>7, <2>1, Inserted
  <2>4. DOMAIN textAtoms' = 1 .. (n0 + m)
    BY <2>3
  <2>5. ToSet(textAtoms) \in SUBSET (Functions \cup {AliasOf(f) : f \in Replaced})
    BY <1>4
  <2>6. /\ IsInjective(textAtoms') /\ ToSet(textAtoms') = ToSet(textAtoms) \cup Aliases(k)
        /\ \A l \in DOMAIN groups : Fronted(textAtoms', l)
    <3>1. /\ Dups(k) \cap Replaced = {}
          /\ i \in 1 .. n0 /\ DOMAIN textAtoms = 1 .. n0 /\ DOMAIN d = 1 .. m
          /\ DOMAIN textAtoms' = 1 .. (n0 + m)
          /\ IsInserted(textAtoms', textAtoms, d, i, n0, m)
          /\ IsInjective(textAtoms) /\ IsInjective(d) /\ textAtoms[i] = k
          /\ ToSet(textAtoms) \in SUBSET (Functions \cup {AliasOf(f) : f \in Replaced})
          /\ ToSet(d) = Aliases(k)
          /\ \A l \in DOMAIN groups : Fronted(textAtoms, l)
      BY <1>4, <1>5, <1>6, <1>7, <2>2, <2>3, <2>4, <2>5
    <3>2. QED
      BY <3>1, FrontedByInsertion
  <2>7. QED
    BY <2>3, <2>6
<1>9. Replaced' = Replaced \cup Dups(k)
  <2>1. Replaced' = {f \in Functions : AliasOf(f) \in ToSet(textAtoms')}
    BY <1>2 DEF Replaced
  <2>2. \A f \in Functions : AliasOf(f) \in Aliases(k) <=> f \in Dups(k)
    BY <1>1, <1>3, AliasFacts DEF Aliases
  <2>3. QED
    BY <1>3, <1>8, <2>1, <2>2 DEF Replaced
<1>10. Section'
  <2>1. ToSet(textAtoms') = {AliasOf(f) : f \in Replaced'} \cup Functions
    BY <1>4, <1>8, <1>9 DEF Aliases
  <2>2. \A f \in Replaced' : \E l \in DOMAIN groups : f \in Dups(l)
    BY <1>4, <1>9
  <2>3. ASSUME NEW l \in DOMAIN groups
        PROVE  Dups(l) \subseteq Replaced' \/ Dups(l) \cap Replaced' = {}
    <3>1. CASE l = k
      BY <1>9, <3>1
    <3>2. CASE l # k
      <4>1. Dups(l) \cap Dups(k) = {}
        <5>1. ToSet(groups[l]) \cap ToSet(groups[k]) = {}
          BY <3>2 DEF DedupInv, Grouped
        <5>2. QED
          BY <5>1, GroupFacts
      <4>2. QED
        BY <1>4, <1>9, <4>1 DEF Whole
    <3>3. QED
      BY <3>1, <3>2
  <2>4. \A l \in DOMAIN groups : Whole(l)' /\ Fronted(textAtoms, l)'
    BY <1>1, <1>2, <1>8, <2>3 DEF Whole, Fronted
  <2>5. QED
    BY <1>1, <1>2, <1>8, <2>1, <2>2, <2>4 DEF Section
<1>11. Grouped' /\ ToldApart'
  BY <1>1, <1>2 DEF DedupInv, Grouped, ToldApart
<1>12. Bound' = Bound
  BY <1>1, <1>2 DEF Bound
<1>13. QED
  BY <1>1, <1>10, <1>11, <1>12 DEF DedupInv

\* Which elements are left of the first n of a list, and in which order
IsLeft(w, s, n, gone) ==
    /\ ToSet(w) = {s[j] : j \in 1 .. n} \ gone
    /\ \E e \in [1 .. Len(w) -> 1 .. n] :
          /\ \A a \in 1 .. Len(w) : w[a] = s[e[a]]
          /\ \A a, b \in 1 .. Len(w) : a < b => e[a] < e[b]

\* The list with one more, if it is not one of those that are left out
LEMMA LeftNext ==
    ASSUME NEW S, NEW s, NEW gone, NEW n \in Nat, NEW w \in Seq(S), IsLeft(w, s, n, gone),
           s[n + 1] \in S
    PROVE  IsLeft(IF s[n + 1] \in gone THEN w ELSE Append(w, s[n + 1]), s, n + 1, gone)
<1>1. PICK e \in [1 .. Len(w) -> 1 .. n] :
         /\ \A a \in 1 .. Len(w) : w[a] = s[e[a]]
         /\ \A a, b \in 1 .. Len(w) : a < b => e[a] < e[b]
  BY DEF IsLeft
<1>2. PICK m \in Nat : m = Len(w)
  OBVIOUS
<1>3. ToSet(w) = {s[j] : j \in 1 .. n} \ gone
  BY DEF IsLeft
<1>4. {s[j] : j \in 1 .. (n + 1)} = {s[j] : j \in 1 .. n} \cup {s[n + 1]}
  <2>1. \A j \in 1 .. (n + 1) : j \in 1 .. n \/ j = n + 1
    OBVIOUS
  <2>2. (\A j \in 1 .. n : j \in 1 .. (n + 1)) /\ n + 1 \in 1 .. (n + 1)
    OBVIOUS
  <2>3. QED
    BY <2>1, <2>2
<1>5. CASE s[n + 1] \in gone
  <2>1. ToSet(w) = {s[j] : j \in 1 .. (n + 1)} \ gone
    BY <1>3, <1>4, <1>5
  <2>2. e \in [1 .. Len(w) -> 1 .. (n + 1)]
    OBVIOUS
  <2>3. QED
    BY <1>1, <1>5, <2>1, <2>2 DEF IsLeft
<1>6. CASE s[n + 1] \notin gone
  <2> DEFINE v == Append(w, s[n + 1])
             h == [a \in 1 .. (m + 1) |-> IF a = m + 1 THEN n + 1 ELSE e[a]]
  <2>1. /\ Len(v) = m + 1 /\ DOMAIN v = 1 .. (m + 1) /\ DOMAIN w = 1 .. m
        /\ v[m + 1] = s[n + 1]
        /\ \A a \in 1 .. m : v[a] = w[a]
    BY <1>2
  <2> HIDE DEF v
  <2>2. (\A a \in 1 .. (m + 1) : a \in 1 .. m \/ a = m + 1) /\ (\A a \in 1 .. m : a # m + 1)
    OBVIOUS
  <2>3. /\ h[m + 1] = n + 1 /\ \A a \in 1 .. m : h[a] = e[a] /\ e[a] \in 1 .. n
    BY <1>2, <2>2
  <2>4. h \in [1 .. Len(v) -> 1 .. (n + 1)]
    BY <1>2, <2>1
  <2> HIDE DEF h
  <2>5. \A a \in 1 .. Len(v) : v[a] = s[h[a]]
    BY <1>1, <1>2, <2>1, <2>2, <2>3
  <2>6. \A a, b \in 1 .. Len(v) : a < b => h[a] < h[b]
    <3> SUFFICES ASSUME NEW a \in 1 .. (m + 1), NEW b \in 1 .. (m + 1), a < b  PROVE h[a] < h[b]
      BY <2>1
    <3>1. a \in 1 .. m
      OBVIOUS
    <3>2. CASE b = m + 1
      BY <2>3, <3>1, <3>2
    <3>3. CASE b \in 1 .. m
      BY <1>1, <1>2, <2>3, <3>1, <3>3
    <3>4. QED
      BY <2>2, <3>2, <3>3
  <2>7. ToSet(v) = ToSet(w) \cup {s[n + 1]}
    <3>1. ToSet(v) = {v[a] : a \in 1 .. (m + 1)} /\ ToSet(w) = {w[a] : a \in 1 .. m}
      BY <2>1 DEF ToSet
    <3>2. (\A a \in 1 .. m : a \in 1 .. (m + 1)) /\ m + 1 \in 1 .. (m + 1)
      OBVIOUS
    <3>3. QED
      BY <2>1, <2>2, <3>1, <3>2
  <2>8. ToSet(v) = {s[j] : j \in 1 .. (n + 1)} \ gone
    BY <1>3, <1>4, <1>6, <2>7
  <2>9. IsLeft(v, s, n + 1, gone)
    BY <2>4, <2>5, <2>6, <2>8 DEF IsLeft
  <2>10. QED
    BY <1>6, <2>9 DEF v
<1>7. QED
  BY <1>5, <1>6

\* A list without some elements has the others, in their order.
LEMMA WithoutLeft ==
    ASSUME NEW S, NEW s \in Seq(S), NEW gone
    PROVE  Without(s, gone) \in Seq(S) /\ IsLeft(Without(s, gone), s, Len(s), gone)
<1> DEFINE N == Len(s)
           Solves(f) == f = [n \in 0 .. N |-> IF n = 0 THEN <<>>
                                              ELSE IF s[n] \in gone THEN f[n - 1]
                                              ELSE Append(f[n - 1], s[n])]
           kept == CHOOSE f : Solves(f)
           T == Seq(S)
           step == [x \in (1 .. N) \X T |->
                       IF s[x[1]] \in gone THEN x[2] ELSE Append(x[2], s[x[1]])]
<1>1. N \in Nat /\ \A n \in 1 .. N : s[n] \in S
  OBVIOUS
<1>2. Without(s, gone) = kept[N]
  BY DEF Without
<1> HIDE DEF N
<1>3. Solves(kept)
  <2>1. IsStep(step, N, T)
    BY <1>1 DEF IsStep
  <2>2. \A n \in 1 .. N, t \in T : step[<<n, t>>] = IF s[n] \in gone THEN t ELSE Append(t, s[n])
    OBVIOUS
  <2>3. <<>> \in T
    OBVIOUS
  <2> HIDE DEF step, T
  <2>4. PICK f : IsSolution(f, N, T, <<>>, step)
    BY <1>1, <2>1, <2>3, RecursionSolved
  <2>5. ASSUME NEW n \in 0 .. N
        PROVE  f[n] = IF n = 0 THEN <<>>
                      ELSE IF s[n] \in gone THEN f[n - 1] ELSE Append(f[n - 1], s[n])
    <3>1. n # 0 => n \in 1 .. N /\ n - 1 \in 0 .. N
      BY <1>1
    <3>2. n # 0 => f[n - 1] \in T
      BY <2>4, <3>1 DEF IsSolution
    <3>3. f[n] = IF n = 0 THEN <<>> ELSE step[<<n, f[n - 1]>>]
      BY <2>4 DEF IsSolution
    <3>4. QED
      BY <2>2, <3>1, <3>2, <3>3
  <2>6. f = [n \in 0 .. N |-> f[n]]
    BY <2>4 DEF IsSolution
  <2>7. Solves(f)
    BY <2>5, <2>6
  <2> HIDE DEF Solves
  <2>8. QED
    BY <2>7
<1>4. kept[0] = <<>> /\ \A n \in 1 .. N :
                           /\ n - 1 \in 0 .. N
                           /\ kept[n] = IF s[n] \in gone THEN kept[n - 1] ELSE Append(kept[n - 1], s[n])
  <2> HIDE DEF kept
  <2>1. \A n \in 0 .. N : kept[n] = IF n = 0 THEN <<>>
                                    ELSE IF s[n] \in gone THEN kept[n - 1]
                                    ELSE Append(kept[n - 1], s[n])
    BY <1>3
  <2>2. 0 \in 0 .. N /\ \A n \in 1 .. N : n \in 0 .. N /\ n - 1 \in 0 .. N /\ n # 0
    BY <1>1
  <2>3. QED
    BY <2>1, <2>2
<1> HIDE DEF kept, Solves, step, T
<1> DEFINE Good(n) == kept[n] \in Seq(S) /\ IsLeft(kept[n], s, n, gone)
           bad == {n \in 0 .. N : ~ Good(n)}
<1>5. ASSUME bad # {}  PROVE FALSE
  <2>1. bad \in SUBSET Nat
    BY <1>1
  <2>2. PICK n \in bad : \A m \in bad : n <= m
    <3> HIDE DEF bad
    <3>1. QED
      BY <1>5, <2>1, LeastNumber
  <2>3. CASE n = 0
    <3>1. kept[0] \in Seq(S)
      BY <1>4
    <3>2. IsLeft(<<>>, s, 0, gone)
      <4>1. ToSet(<<>>) = {} /\ {s[j] : j \in 1 .. 0} = {} /\ Len(<<>>) = 0
        BY DEF ToSet
      <4>2. [a \in 1 .. 0 |-> 1] \in [1 .. Len(<<>>) -> 1 .. 0]
        BY <4>1
      <4>3. \A a \in 1 .. 0 : FALSE
        OBVIOUS
      <4>4. QED
        BY <4>1, <4>2, <4>3 DEF IsLeft
    <3>3. QED
      BY <1>4, <2>2, <2>3, <3>1, <3>2
  <2>4. CASE n # 0
    <3>1. n \in 1 .. N /\ n - 1 \in Nat /\ n - 1 \in 0 .. N /\ ~ (n <= n - 1) /\ (n - 1) + 1 = n
      BY <1>1, <2>2, <2>4
    <3>2. Good(n - 1)
      BY <2>2, <3>1
    <3>3. kept[n] \in Seq(S) /\ IsLeft(kept[n], s, n, gone)
      <4> DEFINE m == n - 1
      <4>1. m \in Nat /\ m + 1 = n /\ kept[m] \in Seq(S) /\ IsLeft(kept[m], s, m, gone)
        BY <3>1, <3>2
      <4>2. kept[n] = IF s[n] \in gone THEN kept[m] ELSE Append(kept[m], s[n])
        BY <1>4, <3>1
      <4>3. s[n] \in S
        BY <1>1, <3>1
      <4> HIDE DEF m, Good, bad
      <4>4. IsLeft(IF s[m + 1] \in gone THEN kept[m] ELSE Append(kept[m], s[m + 1]), s, m + 1, gone)
        BY <4>1, <4>3, LeftNext
      <4>5. kept[n] \in Seq(S)
        BY <4>1, <4>2, <4>3
      <4>6. kept[n] = IF s[m + 1] \in gone THEN kept[m] ELSE Append(kept[m], s[m + 1])
        BY <4>1, <4>2
      <4>7. QED
        BY <4>1, <4>4, <4>5, <4>6
    <3>4. QED
      BY <2>2, <3>3
  <2>5. QED
    BY <2>3, <2>4
<1>6. N \in 0 .. N
  BY <1>1
<1>7. Good(N)
  BY <1>5, <1>6
<1>8. QED
  BY <1>2, <1>7 DEF N

\* With elements left out, aliases stay in front of their keys.
LEMMA FrontedWithout ==
    ASSUME NEW s, NEW n \in Nat, DOMAIN s = 1 .. n, IsInjective(s),
           NEW w, NEW m \in Nat, DOMAIN w = 1 .. m, Len(w) = m, NEW gone, IsLeft(w, s, n, gone)
    PROVE  /\ IsInjective(w) /\ ToSet(w) = ToSet(s) \ gone
           /\ \A k : Fronted(s, k) => Fronted(w, k)
<1>1. PICK e \in [1 .. m -> 1 .. n] :
         /\ \A a \in 1 .. m : w[a] = s[e[a]]
         /\ \A a, b \in 1 .. m : a < b => e[a] < e[b]
  BY DEF IsLeft
<1>2. \A a \in 1 .. m : a \in Nat /\ e[a] \in 1 .. n /\ e[a] \in Nat
  BY <1>1
<1>3. IsInjective(w)
  <2> SUFFICES ASSUME NEW a \in 1 .. m, NEW b \in 1 .. m, w[a] = w[b]  PROVE a = b
    BY DEF IsInjective
  <2>1. e[a] = e[b]
    BY <1>1, <1>2 DEF IsInjective
  <2>2. a < b \/ b < a \/ a = b
    OBVIOUS
  <2>3. QED
    BY <1>1, <1>2, <2>1, <2>2
<1>4. ToSet(w) = ToSet(s) \ gone
  BY DEF IsLeft, ToSet
<1>5. ASSUME NEW k, Fronted(s, k)  PROVE Fronted(w, k)
  <2> SUFFICES ASSUME NEW f \in Dups(k), NEW p \in 1 .. m, NEW i \in 1 .. m,
                      w[p] = AliasOf(f), w[i] = k
               PROVE  p < i /\ \A a \in p .. (i - 1) : w[a] \in Aliases(k)
    BY DEF Fronted
  <2>1. e[p] \in 1 .. n /\ e[i] \in 1 .. n /\ s[e[p]] = AliasOf(f) /\ s[e[i]] = k
    BY <1>1, <1>2
  <2>2. e[p] < e[i] /\ \A a \in e[p] .. (e[i] - 1) : s[a] \in Aliases(k)
    BY <1>5, <2>1 DEF Fronted
  <2>3. p < i
    <3>1. p < i \/ i < p \/ i = p
      OBVIOUS
    <3>2. i < p => e[i] < e[p]
      BY <1>1
    <3>3. QED
      BY <1>2, <2>2, <3>1, <3>2
  <2>4. ASSUME NEW a \in p .. (i - 1)  PROVE w[a] \in Aliases(k)
    <3>1. a \in 1 .. m /\ (a = p \/ p < a) /\ a < i
      OBVIOUS
    <3>2. e[p] <= e[a] /\ e[a] < e[i]
      BY <1>1, <1>2, <3>1
    <3>3. e[a] \in e[p] .. (e[i] - 1)
      BY <1>2, <3>1, <3>2
    <3>4. QED
      BY <1>1, <2>2, <3>1, <3>3
  <2>5. QED
    BY <2>3, <2>4
<1>6. QED
  BY <1>3, <1>4, <1>5

LEMMA RedirectStep == ASSUME DedupInv, Redirect  PROVE DedupInv'
<1>1. /\ given \in DedupInputs
      /\ progress = "alias" /\ progress' = "done"
      /\ \A k \in DOMAIN groups : Dups(k) \subseteq Replaced
      /\ table' = Redirected(table) /\ direct' = Redirected(direct)
      /\ textAtoms' = Without(textAtoms, Replaced)
      /\ UNCHANGED <<given, left, groups, crossed>>
  BY DEF Redirect, DedupInv, Dups
<1>2. /\ Functions' = Functions /\ Alike' = Alike
      /\ \A f : AliasOf(f)' = AliasOf(f)
      /\ \A l : Dups(l)' = Dups(l) /\ Aliases(l)' = Aliases(l)
  BY <1>1, InputStays DEF Dups, Aliases
<1>3. /\ textAtoms \in Seq(Nat) /\ IsInjective(textAtoms)
      /\ ToSet(textAtoms) = {AliasOf(f) : f \in Replaced} \cup Functions
      /\ \A l \in DOMAIN groups : Fronted(textAtoms, l)
      /\ \A f \in Replaced : \E l \in DOMAIN groups : f \in Dups(l)
  BY <1>1 DEF DedupInv, Section
<1>4. /\ textAtoms' \in Seq(Nat) /\ IsInjective(textAtoms')
      /\ ToSet(textAtoms') = ToSet(textAtoms) \ Replaced
      /\ \A l \in DOMAIN groups : Fronted(textAtoms', l)
  <2>1. /\ textAtoms' \in Seq(Nat)
        /\ IsLeft(textAtoms', textAtoms, Len(textAtoms), Replaced)
    BY <1>1, <1>3, WithoutLeft
  <2>2. /\ Len(textAtoms) \in Nat /\ DOMAIN textAtoms = 1 .. Len(textAtoms)
        /\ Len(textAtoms') \in Nat /\ DOMAIN textAtoms' = 1 .. Len(textAtoms')
    BY <1>3, <2>1, SMTT(40)
  <2>3. PICK n \in Nat, m \in Nat : n = Len(textAtoms) /\ m = Len(textAtoms')
    BY <2>2
  <2>4. /\ DOMAIN textAtoms = 1 .. n /\ DOMAIN textAtoms' = 1 .. m /\ Len(textAtoms') = m
        /\ IsLeft(textAtoms', textAtoms, n, Replaced) /\ IsInjective(textAtoms)
    BY <1>3, <2>1, <2>2, <2>3
  <2>5. /\ IsInjective(textAtoms') /\ ToSet(textAtoms') = ToSet(textAtoms) \ Replaced
        /\ \A k : Fronted(textAtoms, k) => Fronted(textAtoms', k)
    BY <2>4, FrontedWithout
  <2>6. QED
    BY <1>3, <2>1, <2>5
<1>5. Replaced \in SUBSET Functions
  BY DEF Replaced
<1>6. \A f \in Functions : AliasOf(f) \notin Functions
  BY <1>1, AliasFacts
<1>7. Replaced' = Replaced
  <2>1. Replaced' = {f \in Functions : AliasOf(f) \in ToSet(textAtoms')}
    BY <1>2 DEF Replaced
  <2>2. \A f \in Functions : AliasOf(f) \in ToSet(textAtoms') <=> AliasOf(f) \in ToSet(textAtoms)
    BY <1>4, <1>5, <1>6
  <2>3. QED
    BY <2>1, <2>2 DEF Replaced
<1>8. Section'
  <2>1. ToSet(textAtoms') = {AliasOf(f) : f \in Replaced} \cup (Functions \ Replaced)
    BY <1>3, <1>4, <1>5, <1>6
  <2>2. \A l \in DOMAIN groups : Whole(l)' /\ Fronted(textAtoms, l)'
    BY <1>1, <1>2, <1>4, <1>7 DEF Whole, Fronted
  <2>3. {AliasOf(f) : f \in Replaced}' = {AliasOf(f) : f \in Replaced}
    BY <1>2, <1>7
  <2>4. QED
    BY <1>1, <1>2, <1>3, <1>4, <1>7, <2>1, <2>2, <2>3 DEF Section
<1>9. Grouped' /\ ToldApart'
  BY <1>1, <1>2 DEF DedupInv, Grouped, ToldApart
<1>10. Redirected(Bound) = Bound'
  <2>1. Bound = [a \in Functions \cup Data |-> a]
    BY <1>1 DEF Bound
  <2>2. Bound' = [a \in Functions \cup Data |-> IF a \in Replaced THEN AliasOf(a) ELSE a]
    BY <1>1, <1>2, <1>7 DEF Bound
  <2>3. QED
    BY <2>1, <2>2 DEF Redirected
<1>11. QED
  BY <1>1, <1>8, <1>9, <1>10 DEF DedupInv

LEMMA DedupInvStep == DedupInv /\ [DedupNext]_dedupVars => DedupInv'
<1> SUFFICES ASSUME DedupInv, [DedupNext]_dedupVars  PROVE DedupInv'
  OBVIOUS
<1>1. CASE MatchFunction
  BY <1>1, MatchStep
<1>2. CASE EndMatch
  BY <1>2, EndStep
<1>3. CASE \E k \in DOMAIN groups : AliasGroup(k)
  BY <1>3, AliasStep
<1>4. CASE Redirect
  BY <1>4, RedirectStep
<1>5. CASE UNCHANGED dedupVars
  <2>1. /\ UNCHANGED <<given, progress, left, groups, textAtoms, table, direct, crossed>>
        /\ Functions' = Functions /\ Alike' = Alike
        /\ \A f : AliasOf(f)' = AliasOf(f)
    BY <1>5, InputStays DEF dedupVars
  <2>2. Replaced' = Replaced /\ \A l : Dups(l)' = Dups(l) /\ Aliases(l)' = Aliases(l)
    BY <2>1 DEF Replaced, Dups, Aliases
  <2>3. Grouped' /\ ToldApart'
    BY <2>1 DEF DedupInv, Grouped, ToldApart
  <2>4. \A l : (Whole(l)' <=> Whole(l)) /\ (Fronted(textAtoms, l)' <=> Fronted(textAtoms, l))
    BY <2>1, <2>2 DEF Whole, Fronted
  <2>5. Section'
    BY <2>1, <2>2, <2>4 DEF DedupInv, Section
  <2>6. Bound' = Bound
    BY <2>1, <2>2 DEF Bound
  <2>7. QED
    BY <2>1, <2>3, <2>5, <2>6 DEF DedupInv
<1>6. QED
  BY <1>1, <1>2, <1>3, <1>4, <1>5 DEF DedupNext, DedupFinished

------------------------------------------------------------------------------
(***************************************************************************)
(* What the invariant says of the outcome.                                 *)
(***************************************************************************)
LEMMA TypesOfInv == ASSUME DedupInv  PROVE DedupTypeOK
<1>1. given \in DedupInputs /\ given.autoHide \in SUBSET Functions
  BY InputFields DEF DedupInv
<1>2. \A k \in DOMAIN groups : Head(groups[k]) = k
  BY GroupFacts
<1>3. ASSUME NEW f \in given.autoHide
      PROVE  Cardinality({k \in DOMAIN groups : f \in ToSet(groups[k])})
                = IF f \in left THEN 0 ELSE 1
  <2>1. f \in left <=> \A k \in DOMAIN groups : f \notin ToSet(groups[k])
    BY DEF DedupInv, Grouped
  <2>2. CASE f \in left
    <3>1. {k \in DOMAIN groups : f \in ToSet(groups[k])} = {}
      BY <2>1, <2>2
    <3>2. QED
      BY <2>2, <3>1, FS_EmptySet
  <2>3. CASE f \notin left
    <3>1. PICK k \in DOMAIN groups : f \in ToSet(groups[k])
      BY <2>1, <2>3
    <3>2. \A l \in DOMAIN groups : f \in ToSet(groups[l]) => l = k
      BY <3>1 DEF DedupInv, Grouped
    <3>3. {l \in DOMAIN groups : f \in ToSet(groups[l])} = {k}
      BY <3>1, <3>2
    <3>4. QED
      BY <2>3, <3>3, FS_Singleton
  <2>4. QED
    BY <2>2, <2>3
<1>4. IsInjective(textAtoms)
  BY DEF DedupInv, Section
<1>5. ASSUME progress = "done", NEW f \in Functions
      PROVE  f \in ToSet(textAtoms) <=> AliasOf(f) \notin ToSet(textAtoms)
  <2>1. ToSet(textAtoms) = {AliasOf(g) : g \in Replaced} \cup (Functions \ Replaced)
    BY <1>5 DEF DedupInv, Section
  <2>2. f \notin {AliasOf(g) : g \in Replaced}
    BY <1>1, AliasFacts DEF Replaced
  <2>3. AliasOf(f) \in ToSet(textAtoms) <=> f \in Replaced
    BY DEF Replaced
  <2>4. QED
    BY <2>1, <2>2, <2>3
<1>6. QED
  BY <1>2, <1>3, <1>4, <1>5 DEF DedupTypeOK, DedupInv, Grouped

LEMMA OutcomeOfInv ==
    ASSUME DedupInv
    PROVE  MergedBehaveAlike /\ NothingLeftToMerge /\ RemovedAreReplaced
<1>1. given \in DedupInputs
  BY DEF DedupInv
<1>2. MergedBehaveAlike /\ NothingLeftToMerge
  BY DEF DedupInv, ToldApart, MergedBehaveAlike, NothingLeftToMerge
<1>3. ASSUME progress = "done"
      PROVE  /\ \A f \in Functions \cap ToSet(textAtoms) : \A i \in DOMAIN FixupsOf(f) :
                   Target(FixupsOf(f)[i]) \in ToSet(textAtoms) \cup Data
             /\ \A k \in DOMAIN groups : \A f \in ToSet(groups[k]) \ {k} :
                   \A n \in Index(textAtoms, AliasOf(f)) .. (Index(textAtoms, k) - 1) :
                      textAtoms[n] \in {AliasOf(d) : d \in ToSet(groups[k])}
  <2>1. /\ ToSet(textAtoms) = {AliasOf(f) : f \in Replaced} \cup (Functions \ Replaced)
        /\ \A k \in DOMAIN groups : Fronted(textAtoms, k) /\ Dups(k) \subseteq Replaced
        /\ \A f \in Replaced : \E k \in DOMAIN groups : f \in Dups(k)
    BY <1>3 DEF DedupInv, Section
  <2>2. /\ table = [a \in Functions \cup Data |-> IF a \in Replaced THEN AliasOf(a) ELSE a]
        /\ direct = [a \in Functions \cup Data |-> IF a \in Replaced THEN AliasOf(a) ELSE a]
    BY <1>3 DEF DedupInv, Bound
  <2>3. ASSUME NEW f \in Functions, NEW i \in DOMAIN FixupsOf(f)
        PROVE  Target(FixupsOf(f)[i]) \in ToSet(textAtoms) \cup Data
    <3>1. FixupsOf(f)[i].to \in Functions \cup Data
      BY <1>1, InputFields
    <3>2. \A a \in Functions \cup Data :
             (IF a \in Replaced THEN AliasOf(a) ELSE a) \in ToSet(textAtoms) \cup Data
      BY <2>1
    <3>3. QED
      BY <2>2, <3>1, <3>2 DEF Target
  <2>4. ASSUME NEW k \in DOMAIN groups, NEW f \in ToSet(groups[k]) \ {k},
               NEW n \in Index(textAtoms, AliasOf(f)) .. (Index(textAtoms, k) - 1)
        PROVE  textAtoms[n] \in {AliasOf(d) : d \in ToSet(groups[k])}
    <3>1. k \in Functions /\ Dups(k) = ToSet(groups[k]) \ {k}
      BY GroupFacts
    <3>2. f \in Dups(k) /\ AliasOf(f) \in ToSet(textAtoms)
      BY <2>1, <3>1
    <3>3. k \notin Replaced
      <4>1. ASSUME NEW l \in DOMAIN groups, k \in Dups(l)  PROVE FALSE
        <5>1. k \in ToSet(groups[l]) /\ k # l /\ k \in ToSet(groups[k])
          BY <4>1, GroupFacts
        <5>2. QED
          BY <5>1 DEF DedupInv, Grouped
      <4>2. QED
        BY <2>1, <4>1
    <3>4. k \in ToSet(textAtoms)
      BY <2>1, <3>1, <3>3
    <3>5. /\ Index(textAtoms, AliasOf(f)) \in DOMAIN textAtoms
          /\ textAtoms[Index(textAtoms, AliasOf(f))] = AliasOf(f)
          /\ Index(textAtoms, k) \in DOMAIN textAtoms /\ textAtoms[Index(textAtoms, k)] = k
      BY <3>2, <3>4, IndexFound
    <3>6. textAtoms[n] \in Aliases(k)
      BY <2>1, <3>2, <3>5 DEF Fronted
    <3>7. QED
      BY <3>1, <3>6 DEF Aliases
  <2>5. QED
    BY <2>3, <2>4
<1>4. RemovedAreReplaced
  BY <1>3 DEF RemovedAreReplaced
<1>5. QED
  BY <1>2, <1>4

\* Each auto-hide function is in one group, and the section has each function
\* or its alias.  Merged functions behave alike, if no guess was about others
\* than those compared.  If all are auto-hide, of those that behave alike one
\* is left.  Nothing refers to what is removed, and the aliases of a function
\* stand in front of it.
THEOREM MergingIsRight == DedupSpec => []MergedIfAlike
<1>1. DedupInit => DedupInv
  BY DedupInvInit
<1>2. DedupInv /\ [DedupNext]_dedupVars => DedupInv'
  BY DedupInvStep
<1>3. DedupInv => MergedIfAlike
  BY TypesOfInv, OutcomeOfInv DEF MergedIfAlike
<1>4. QED
  BY <1>1, <1>2, <1>3, PTL DEF DedupSpec

=============================================================================
