-------------------------- MODULE DylibGraph_proofs --------------------------
(***************************************************************************)
(* Proofs about DylibGraph, for every set of dylibs, whatever they         *)
(* re-export, and every command line.                                      *)
(***************************************************************************)
EXTENDS DylibGraph, FiniteSetTheorems, TLAPS

------------------------------------------------------------------------------
(***************************************************************************)
(* The functions that walk the graph recurse without a measure, so a value *)
(* for them has to be shown to exist: a fixed point of a monotone function *)
(* on sets.  Their properties are shown by a least counterexample.         *)
(***************************************************************************)
\* A monotone function on the subsets of a set has a fixed point.
LEMMA FixedPoint ==
    ASSUME NEW D, NEW F \in [SUBSET D -> SUBSET D],
           \A A, B \in SUBSET D : A \subseteq B => F[A] \subseteq F[B]
    PROVE  \E X \in SUBSET D : F[X] = X
<1> DEFINE Post == {A \in SUBSET D : A \subseteq F[A]}
           X == UNION Post
<1>1. X \in SUBSET D
  OBVIOUS
<1>2. \A A \in Post : A \subseteq X /\ A \in SUBSET D /\ A \subseteq F[A]
  OBVIOUS
<1>3. F[X] \in SUBSET D
  BY <1>1
<1>4. X \subseteq F[X]
  <2>1. \A A \in Post : A \subseteq F[X]
    BY <1>1, <1>2
  <2>2. QED
    BY <2>1
<1>5. F[X] \subseteq F[F[X]]
  BY <1>1, <1>3, <1>4
<1>6. F[X] \in Post
  BY <1>3, <1>5
<1>7. F[X] \subseteq X
  BY <1>6
<1>8. QED
  BY <1>1, <1>4, <1>7

\* Of the subsets of a finite set, one is minimal.
LEMMA MinimalSet ==
    ASSUME NEW D, IsFiniteSet(D), NEW C \in SUBSET (SUBSET D), C # {}
    PROVE  \E X \in C : \A Y \in C : Y \subseteq X => Y = X
<1>1. IsWellFoundedOn(StrictSubsetOrdering(D), FiniteSubsetsOf(D))
  BY FS_StrictSubsetOrderingWellFounded
<1>2. C \subseteq FiniteSubsetsOf(D)
  <2>1. \A X \in C : IsFiniteSet(X)
    BY FS_Subset
  <2>2. QED
    BY <2>1 DEF FiniteSubsetsOf
<1>3. PICK X \in C : \A Y \in C : <<Y, X>> \notin StrictSubsetOrdering(D)
  BY <1>1, <1>2, WFMin
<1>4. ASSUME NEW Y \in C, Y \subseteq X, Y # X  PROVE FALSE
  <2>1. X \in SUBSET D /\ Y \in SUBSET D
    OBVIOUS
  <2>2. <<Y, X>> \in StrictSubsetOrdering(D)
    BY <1>4, <2>1 DEF StrictSubsetOrdering
  <2>3. QED
    BY <1>3, <2>2
<1>5. QED
  BY <1>4

\* Of some indices, one is the least.
LEMMA LeastIndex ==
    ASSUME NEW n \in Nat, NEW S \in SUBSET (0 .. n), S # {}
    PROVE  \E x \in S : \A y \in S : x <= y
<1> DEFINE C == {0 .. x : x \in S}
           D == 0 .. n
<1>1. IsFiniteSet(D)
  BY FS_Interval
<1>2. C \in SUBSET (SUBSET D) /\ C # {}
  <2>1. ASSUME NEW x \in S  PROVE 0 .. x \in SUBSET (0 .. n)
    OBVIOUS
  <2>2. QED
    BY <2>1
<1> HIDE DEF C, D
<1>3. PICK X \in C : \A Y \in C : Y \subseteq X => Y = X
  BY <1>1, <1>2, MinimalSet
<1>4. PICK x \in S : X = 0 .. x
  BY DEF C
<1>5. ASSUME NEW y \in S, y < x  PROVE FALSE
  <2>1. x \in Nat /\ y \in Nat
    OBVIOUS
  <2>2. 0 .. y \subseteq 0 .. x /\ x \in 0 .. x /\ x \notin 0 .. y
    BY <1>5, <2>1
  <2>3. QED
    BY <1>3, <1>4, <2>2 DEF C
<1>6. QED
  BY <1>5

------------------------------------------------------------------------------
(***************************************************************************)
(* Cycles of re-exports, and the walk that looks for them.                 *)
(***************************************************************************)
\* A set of readers each of which re-exports one of the set
CycleIn(g) ==
    \E S \in (SUBSET Readers(g)) \ {{}} : \A r \in S : Children(g, r) \cap S # {}

\* Children are readers.
ChildrenAreReaders(g) == \A r \in Readers(g) : Children(g, r) \subseteq Readers(g)

\* The walks that throw: those that have come to a dylib through a chain
WalksThrow(g, W) ==
    \A c \in Readers(g), chain \in SUBSET Readers(g) :
        <<c, chain>> \in W <=>
            \E child \in Children(g, c) :
                child \in chain \/ <<child, chain \cup {c}>> \in W

\* assertNoReExportCycles() throws if its first walk does.
LEMMA FirstWalk ==
    ASSUME NEW g, ChildrenAreReaders(g), NEW r \in Readers(g)
    PROVE  \E W : WalksThrow(g, W) /\ (MeetsItself(g, r) <=> <<r, {r}>> \in W)
<1> DEFINE D == Readers(g) \X SUBSET Readers(g)
           Meets(A, walk) ==
               \E child \in Children(g, walk[1]) :
                   child \in walk[2] \/ <<child, walk[2] \cup {walk[1]}>> \in A
           F == [A \in SUBSET D |-> {walk \in D : Meets(A, walk)}]
           Throws(t) ==
               t = [walk \in D |-> \E child \in Children(g, walk[1]) :
                        child \in walk[2] \/ t[<<child, walk[2] \cup {walk[1]}>>]]
           t == CHOOSE u : Throws(u)
           W == {walk \in D : t[walk]}
<1>1. PICK X \in SUBSET D : F[X] = X
  <2>1. F \in [SUBSET D -> SUBSET D]
    OBVIOUS
  <2>2. ASSUME NEW A \in SUBSET D, NEW B \in SUBSET D, A \subseteq B
        PROVE  F[A] \subseteq F[B]
    <3>1. \A walk : Meets(A, walk) => Meets(B, walk)
      BY <2>2
    <3> HIDE DEF Meets
    <3>2. QED
      BY <3>1
  <2> HIDE DEF F, D
  <2>3. QED
    BY <2>1, <2>2, FixedPoint
<1>2. \A walk \in D : \A child \in Children(g, walk[1]) :
          <<child, walk[2] \cup {walk[1]}>> \in D
  <2>1. ASSUME NEW walk \in D, NEW child \in Children(g, walk[1])
        PROVE  <<child, walk[2] \cup {walk[1]}>> \in D
    <3>1. walk[1] \in Readers(g) /\ walk[2] \in SUBSET Readers(g)
      OBVIOUS
    <3>2. child \in Readers(g)
      BY <3>1 DEF ChildrenAreReaders
    <3>3. QED
      BY <3>1, <3>2
  <2>2. QED
    BY <2>1
<1>3. Throws([walk \in D |-> walk \in X])
  <2> DEFINE u == [walk \in D |-> walk \in X]
  <2>1. \A walk \in D : walk \in X <=> Meets(X, walk)
    BY <1>1
  <2>2. \A walk \in D : u[walk] <=> walk \in X
    OBVIOUS
  <2>3. ASSUME NEW walk \in D
        PROVE  (walk \in X) = (\E child \in Children(g, walk[1]) :
                   child \in walk[2] \/ u[<<child, walk[2] \cup {walk[1]}>>])
    <3> DEFINE Leads == \E child \in Children(g, walk[1]) :
                   child \in walk[2] \/ u[<<child, walk[2] \cup {walk[1]}>>]
    <3>1. \A child \in Children(g, walk[1]) :
              u[<<child, walk[2] \cup {walk[1]}>>] <=>
                  <<child, walk[2] \cup {walk[1]}>> \in X
      <4> HIDE DEF D, u
      <4>1. QED
        BY <1>2, <2>2
    <3>2. walk \in X <=> Leads
      <4> HIDE DEF D, u
      <4>1. QED
        BY <2>1, <3>1
    <3>3. Leads \in BOOLEAN /\ (walk \in X) \in BOOLEAN
      OBVIOUS
    <3> HIDE DEF Leads
    <3>4. (walk \in X) = Leads
      BY <3>2, <3>3
    <3>5. QED
      BY <3>4 DEF Leads
  <2>4. u = [walk \in D |-> \E child \in Children(g, walk[1]) :
                child \in walk[2] \/ u[<<child, walk[2] \cup {walk[1]}>>]]
    <3> DEFINE Leads(walk) == \E child \in Children(g, walk[1]) :
                  child \in walk[2] \/ u[<<child, walk[2] \cup {walk[1]}>>]
    <3>1. \A walk \in D : (walk \in X) = Leads(walk)
      BY <2>3
    <3> HIDE DEF Leads, D
    <3>2. u = [walk \in D |-> Leads(walk)]
      BY <3>1, Zenon
    <3>3. QED
      BY <3>2 DEF Leads
  <2>5. QED
    BY <2>4
<1>4. Throws(t)
  BY <1>3
<1>5. MeetsItself(g, r) <=> t[<<r, {r}>>]
  BY DEF MeetsItself
<1>6. \A walk \in D : walk \in W <=>
          \E child \in Children(g, walk[1]) :
              child \in walk[2] \/ <<child, walk[2] \cup {walk[1]}>> \in W
  <2> HIDE DEF t, D
  <2>1. QED
    BY <1>2, <1>4
<1>7. WalksThrow(g, W)
  <2>1. ASSUME NEW c \in Readers(g), NEW chain \in SUBSET Readers(g)
        PROVE  <<c, chain>> \in W <=>
                   \E child \in Children(g, c) :
                       child \in chain \/ <<child, chain \cup {c}>> \in W
    <3>1. <<c, chain>> \in D
      OBVIOUS
    <3> HIDE DEF D, W
    <3>2. QED
      BY <1>6, <3>1
  <2>2. QED
    BY <2>1 DEF WalksThrow
<1>8. <<r, {r}>> \in D
  OBVIOUS
<1>9. MeetsItself(g, r) <=> <<r, {r}>> \in W
  <2> HIDE DEF D, t
  <2>1. QED
    BY <1>5, <1>8
<1>10. QED
  BY <1>7, <1>9

\* Whoever is on a cycle meets itself.
LEMMA CycleIsMet ==
    ASSUME NEW g, ChildrenAreReaders(g), IsFiniteSet(Readers(g)),
           NEW S \in SUBSET Readers(g),
           \A c \in S : Children(g, c) \cap S # {},
           NEW r \in S
    PROVE  MeetsItself(g, r)
<1>1. PICK W : WalksThrow(g, W) /\ (MeetsItself(g, r) <=> <<r, {r}>> \in W)
  BY FirstWalk
<1> DEFINE Fails(chain) == \E c \in S : <<c, chain>> \notin W
           C == {S \ chain : chain \in {ch \in SUBSET Readers(g) : Fails(ch)}}
<1>2. ASSUME C # {}  PROVE FALSE
  <2>1. IsFiniteSet(S)
    BY FS_Subset
  <2>2. C \in SUBSET (SUBSET S)
    OBVIOUS
  <2>3. PICK X \in C : \A Y \in C : Y \subseteq X => Y = X
    <3> HIDE DEF C
    <3>1. QED
      BY <1>2, <2>1, <2>2, MinimalSet
  <2>4. PICK chain \in SUBSET Readers(g) : Fails(chain) /\ X = S \ chain
    OBVIOUS
  <2>5. ASSUME NEW c \in S, c \notin chain, <<c, chain>> \notin W  PROVE FALSE
    <3>1. PICK child \in Children(g, c) : child \in S
      OBVIOUS
    <3>2. c \in Readers(g) /\ chain \cup {c} \in SUBSET Readers(g)
      OBVIOUS
    <3>3. <<child, chain \cup {c}>> \notin W
      BY <1>1, <2>5, <3>2 DEF WalksThrow
    <3>4. S \ (chain \cup {c}) \in C
      BY <3>1, <3>2, <3>3
    <3>5. S \ (chain \cup {c}) \subseteq X /\ S \ (chain \cup {c}) # X
      BY <2>4, <2>5
    <3>6. QED
      BY <2>3, <3>4, <3>5
  <2>6. PICK c \in S : <<c, chain>> \notin W
    BY <2>4
  <2>7. c \in chain /\ c \in Readers(g) /\ chain \cup {c} = chain
    BY <2>5, <2>6
  <2>8. PICK child \in Children(g, c) : child \in S
    OBVIOUS
  <2>9. child \notin chain /\ <<child, chain>> \notin W
    BY <1>1, <2>6, <2>7 DEF WalksThrow
  <2>10. QED
    BY <2>5, <2>8, <2>9
<1>3. {r} \in SUBSET Readers(g)
  OBVIOUS
<1>4. ~ Fails({r})
  BY <1>2, <1>3
<1>5. QED
  BY <1>1, <1>4

\* A walk that throws has gone along a cycle.
LEMMA MetIsCycle ==
    ASSUME NEW g, ChildrenAreReaders(g), IsFiniteSet(Readers(g)),
           NEW r \in Readers(g), MeetsItself(g, r)
    PROVE  CycleIn(g)
<1>1. PICK W : WalksThrow(g, W) /\ (MeetsItself(g, r) <=> <<r, {r}>> \in W)
  BY FirstWalk
<1> DEFINE Led(c, chain) ==
               \A x \in chain \ {c} : Children(g, x) \cap (chain \cup {c}) # {}
           Throws(chain) == \E c \in Readers(g) : Led(c, chain) /\ <<c, chain>> \in W
           C == {Readers(g) \ chain : chain \in {ch \in SUBSET Readers(g) : Throws(ch)}}
<1> SUFFICES ASSUME ~ CycleIn(g)  PROVE FALSE
  OBVIOUS
<1>2. ASSUME NEW chain \in SUBSET Readers(g), NEW c \in Readers(g),
             Led(c, chain), <<c, chain>> \in W
      PROVE  \E child \in Children(g, c) :
                /\ child \in Readers(g)
                /\ child \notin chain
                /\ <<child, chain \cup {c}>> \in W
                /\ Led(child, chain \cup {c})
  <2>1. PICK child \in Children(g, c) :
            child \in chain \/ <<child, chain \cup {c}>> \in W
    BY <1>1, <1>2 DEF WalksThrow
  <2>2. child \in Readers(g)
    BY DEF ChildrenAreReaders
  <2>3. ASSUME child \in chain  PROVE FALSE
    <3>1. chain \cup {c} \in SUBSET Readers(g) /\ chain \cup {c} # {}
      OBVIOUS
    <3>2. \A x \in chain \cup {c} : Children(g, x) \cap (chain \cup {c}) # {}
      BY <1>2, <2>3
    <3>3. QED
      BY <3>1, <3>2 DEF CycleIn
  <2>4. Led(child, chain \cup {c})
    BY <1>2
  <2>5. QED
    BY <2>1, <2>2, <2>3, <2>4
<1>3. {r} \in SUBSET Readers(g) /\ Led(r, {r})
  OBVIOUS
<1>4. C # {}
  BY <1>1, <1>3
<1>5. PICK X \in C : \A Y \in C : Y \subseteq X => Y = X
  <2>1. C \in SUBSET (SUBSET Readers(g))
    OBVIOUS
  <2> HIDE DEF C
  <2>2. QED
    BY <1>4, <2>1, MinimalSet
<1>6. PICK chain \in SUBSET Readers(g) : Throws(chain) /\ X = Readers(g) \ chain
  OBVIOUS
<1>7. PICK c \in Readers(g) : Led(c, chain) /\ <<c, chain>> \in W
  BY <1>6
<1>8. PICK child \in Children(g, c) :
          /\ child \in Readers(g) /\ child \notin chain
          /\ <<child, chain \cup {c}>> \in W /\ Led(child, chain \cup {c})
  BY <1>2, <1>7
<1>9. chain \cup {c} \in SUBSET Readers(g) /\ Throws(chain \cup {c})
  BY <1>8
<1>10. Readers(g) \ (chain \cup {c}) \in C
  <2> HIDE DEF Throws
  <2>1. QED
    BY <1>9
<1>11. c \in chain /\ chain \cup {c} = chain
  BY <1>5, <1>6, <1>10
<1>12. PICK next \in Children(g, child) :
          /\ next \in Readers(g)
          /\ <<next, chain \cup {child}>> \in W /\ Led(next, chain \cup {child})
  <2>1. <<child, chain>> \in W /\ Led(child, chain)
    BY <1>8, <1>11
  <2> HIDE DEF Led
  <2>2. QED
    BY <1>2, <1>8, <2>1
<1>13. chain \cup {child} \in SUBSET Readers(g) /\ Throws(chain \cup {child})
  BY <1>8, <1>12
<1>14. Readers(g) \ (chain \cup {child}) \in C
  <2> HIDE DEF Throws
  <2>1. QED
    BY <1>13
<1>15. QED
  BY <1>5, <1>6, <1>8, <1>14

------------------------------------------------------------------------------
(***************************************************************************)
(* What a graph is, and how finding dependents makes it grow.              *)
(***************************************************************************)
\* The readers a path leads to
Named(g) == {g.byName[n] : n \in Paths}

\* A dependent of a reader is one of its file.
RowOK(g, r) ==
    /\ DOMAIN g.dependents[r] = DOMAIN input.dependents[FileOf(g, r)]
    /\ \A i \in DOMAIN g.dependents[r] :
          /\ g.dependents[r][i].path = input.dependents[FileOf(g, r)][i].path
          /\ g.dependents[r][i].dylib \in Readers(g) \cup {NoReader}

GraphOK(g) ==
    /\ g \in GraphRecords
    /\ DOMAIN g.dependents = Readers(g)
    /\ \A n \in Paths : g.byName[n] \in Readers(g) \cup {NoReader}
    /\ g.explicit \cup g.implicit \cup g.processed \subseteq Readers(g)
    /\ \A i \in DOMAIN g.searched : g.searched[i] \in Readers(g)
    /\ \A r \in Readers(g) : RowOK(g, r)

\* No dependent of r has been found, and each has the flag of the file.
Fresh(g, r) ==
    \A i \in DOMAIN g.dependents[r] :
       /\ g.dependents[r][i].dylib = NoReader
       /\ g.dependents[r][i].reExport = input.dependents[FileOf(g, r)][i].reExport

\* What r re-exports has been found.
Complete(g, r) ==
    \A i \in DOMAIN g.dependents[r] :
       g.dependents[r][i].reExport => g.dependents[r][i].dylib # NoReader

\* h is g with readers added that have found nothing.
Grows(g, h) ==
    /\ Readers(g) \subseteq Readers(h)
    /\ \A r \in Readers(g) : FileOf(h, r) = FileOf(g, r)
    /\ \A n \in Paths : g.byName[n] # NoReader => h.byName[n] = g.byName[n]
    /\ \A r \in Readers(h) \ Readers(g) : Fresh(h, r)
    /\ h.explicit = g.explicit
    /\ g.processed \subseteq h.processed
    /\ g.implicit \subseteq h.implicit

\* The fields of the input
LEMMA InputFields ==
    ASSUME input \in DylibInputs
    PROVE  /\ input.installPath \in [Files -> Paths]
           /\ input.at \in [Paths -> Files \cup {NoFile}]
           /\ \A f \in Files : \E n \in Nat :
                 /\ DOMAIN input.dependents[f] = 1 .. n
                 /\ \A i \in 1 .. n : /\ input.dependents[f][i].path \in Paths
                                      /\ input.dependents[f][i].reExport \in BOOLEAN
           /\ input.flat \in BOOLEAN
           /\ \A f \in input.noRexports :
                 \A i \in DOMAIN input.dependents[f] : ~ input.dependents[f][i].reExport
           /\ input.noRexports \subseteq Files
           /\ input.line \in Seq(Files)
           /\ input.autolinked \subseteq Files /\ input.autolinkedLate \subseteq Files
<1>1. input \in InputRecords
  BY DylibAssumption
<1>2. ASSUME NEW f \in Files
      PROVE  \E n \in Nat :
                /\ DOMAIN input.dependents[f] = 1 .. n
                /\ \A i \in 1 .. n : /\ input.dependents[f][i].path \in Paths
                                     /\ input.dependents[f][i].reExport \in BOOLEAN
  <2>1. input.dependents[f] \in Seq([path : Paths, reExport : BOOLEAN])
    BY <1>1 DEF InputRecords
  <2>2. Len(input.dependents[f]) \in Nat
        /\ DOMAIN input.dependents[f] = 1 .. Len(input.dependents[f])
    BY <2>1
  <2> DEFINE D == [path : Paths, reExport : BOOLEAN]
  <2>3. \A i \in 1 .. Len(input.dependents[f]) : input.dependents[f][i] \in D
    <3> HIDE DEF D
    <3>1. input.dependents[f] \in Seq(D)
      BY <2>1 DEF D
    <3>2. QED
      BY <3>1
  <2>4. QED
    BY <2>2, <2>3
<1>3. QED
  BY <1>1, <1>2, DylibAssumption DEF InputRecords

\* The fields of a graph
LEMMA GraphFields ==
    ASSUME NEW g, GraphOK(g)
    PROVE  /\ Len(g.readers) \in Nat /\ Readers(g) = 1 .. Len(g.readers)
           /\ IsFiniteSet(Readers(g))
           /\ NoReader \notin Readers(g)
           /\ \A r \in Readers(g) : FileOf(g, r) \in Files
           /\ g.byName \in [Paths -> Nat]
           /\ g.failed \in BOOLEAN
           /\ g.dependents \in Seq(Seq([path : Paths, dylib : Nat, reExport : BOOLEAN]))
           /\ \A r \in Readers(g) :
                 g.dependents[r] \in Seq([path : Paths, dylib : Nat, reExport : BOOLEAN])
           /\ \A r \in Readers(g) : \A i \in DOMAIN g.dependents[r] :
                 g.dependents[r][i] \in [path : Paths, dylib : Nat, reExport : BOOLEAN]
           /\ ChildrenAreReaders(g)
<1>1. g \in GraphRecords /\ DOMAIN g.dependents = Readers(g)
  BY DEF GraphOK
<1>2. g.readers \in Seq(Files)
      /\ g.dependents \in Seq(Seq([path : Paths, dylib : Nat, reExport : BOOLEAN]))
      /\ g.byName \in [Paths -> Nat] /\ g.failed \in BOOLEAN
  BY <1>1 DEF GraphRecords
<1>3. Len(g.readers) \in Nat /\ Readers(g) = 1 .. Len(g.readers)
      /\ \A r \in Readers(g) : FileOf(g, r) \in Files
  BY <1>2 DEF Readers, FileOf
<1>4. IsFiniteSet(Readers(g)) /\ NoReader \notin Readers(g)
  BY <1>3, FS_Interval DEF NoReader
<1>5. ASSUME NEW r \in Readers(g)
      PROVE  g.dependents[r] \in Seq([path : Paths, dylib : Nat, reExport : BOOLEAN])
  BY <1>1, <1>2
<1>6. ASSUME NEW r \in Readers(g), NEW i \in DOMAIN g.dependents[r]
      PROVE  g.dependents[r][i] \in [path : Paths, dylib : Nat, reExport : BOOLEAN]
  <2> DEFINE D == [path : Paths, dylib : Nat, reExport : BOOLEAN]
  <2>1. g.dependents[r] \in Seq(D)
    BY <1>5
  <2> HIDE DEF D
  <2>2. g.dependents[r][i] \in D
    BY <2>1
  <2>3. QED
    BY <2>2 DEF D
<1>7. ChildrenAreReaders(g)
  BY DEF ChildrenAreReaders, GraphOK, RowOK, Children
<1>8. QED
  BY <1>2, <1>3, <1>4, <1>5, <1>6, <1>7

\* A reader is added that has found nothing, and keeps its name if it is new.
LEMMA DylibAdded ==
    ASSUME input \in DylibInputs, NEW g, GraphOK(g), NEW f \in Files,
           NEW h, h = AddDylib(g, f)
    PROVE  /\ GraphOK(h)
           /\ Grows(g, h)
           /\ Len(h.readers) = Len(g.readers) + 1
           /\ Readers(h) = Readers(g) \cup {Len(g.readers) + 1}
           /\ Len(g.readers) + 1 \notin Readers(g)
           /\ FileOf(h, Len(g.readers) + 1) = f
           /\ \A r \in Readers(g) : h.dependents[r] = g.dependents[r]
           /\ h.byName[input.installPath[f]] # NoReader
           /\ g.byName[input.installPath[f]] = NoReader =>
                 h.byName[input.installPath[f]] = Len(g.readers) + 1
           /\ h.implicit = g.implicit /\ h.searched = g.searched
           /\ h.failed = g.failed /\ h.processed = g.processed
<1> DEFINE new == Len(g.readers) + 1
           row == [i \in DOMAIN input.dependents[f] |->
                      [path |-> input.dependents[f][i].path, dylib |-> NoReader,
                       reExport |-> input.dependents[f][i].reExport]]
<1>1. /\ h.readers = Append(g.readers, f)
      /\ h.byName = [g.byName EXCEPT ![input.installPath[f]] =
                        IF @ = NoReader THEN new ELSE @]
      /\ h.dependents = Append(g.dependents, row)
      /\ h.explicit = g.explicit /\ h.implicit = g.implicit
      /\ h.searched = g.searched /\ h.processed = g.processed
      /\ h.failed = g.failed
  BY DEF AddDylib, GraphOK, GraphRecords
<1>2. /\ g.readers \in Seq(Files) /\ g.byName \in [Paths -> Nat]
      /\ g.dependents \in Seq(Seq([path : Paths, dylib : Nat, reExport : BOOLEAN]))
      /\ g.explicit \in SUBSET Nat /\ g.implicit \in SUBSET Nat
      /\ g.searched \in Seq(Nat) /\ g.processed \in SUBSET Nat /\ g.failed \in BOOLEAN
  BY DEF GraphOK, GraphRecords
<1>3. Len(g.readers) \in Nat /\ Readers(g) = 1 .. Len(g.readers)
  BY <1>2 DEF Readers
<1>4. Len(g.dependents) = Len(g.readers)
  BY <1>2, <1>3 DEF GraphOK
<1>5. PICK n \in Nat :
          /\ DOMAIN input.dependents[f] = 1 .. n
          /\ \A i \in 1 .. n : /\ input.dependents[f][i].path \in Paths
                               /\ input.dependents[f][i].reExport \in BOOLEAN
  BY InputFields
<1>6. row \in Seq([path : Paths, dylib : Nat, reExport : BOOLEAN])
      /\ DOMAIN row = DOMAIN input.dependents[f]
  <2>1. \A i \in 1 .. n : row[i] \in [path : Paths, dylib : Nat, reExport : BOOLEAN]
    BY <1>5 DEF NoReader
  <2>2. row \in [1 .. n -> [path : Paths, dylib : Nat, reExport : BOOLEAN]]
    BY <1>5, <2>1
  <2>3. QED
    BY <1>5, <2>2
<1>7. /\ \A i \in DOMAIN row :
            /\ row[i].path = input.dependents[f][i].path
            /\ row[i].dylib = NoReader
            /\ row[i].reExport = input.dependents[f][i].reExport
  OBVIOUS
<1> HIDE DEF row
<1>8. /\ new \in Nat /\ Readers(h) = Readers(g) \cup {new} /\ new \notin Readers(g)
      /\ Len(h.readers) = new
      /\ FileOf(h, new) = f /\ \A r \in Readers(g) : FileOf(h, r) = FileOf(g, r)
      /\ h.readers \in Seq(Files)
  <2>1. h.readers \in Seq(Files) /\ Len(h.readers) = new /\ new \in Nat
    BY <1>1, <1>2, <1>3
  <2>2. h.readers[new] = f /\ \A r \in 1 .. Len(g.readers) : h.readers[r] = g.readers[r]
    BY <1>1, <1>2, <1>3
  <2>3. Readers(h) = 1 .. new
    BY <2>1 DEF Readers
  <2>4. Readers(h) = Readers(g) \cup {new} /\ new \notin Readers(g)
    BY <1>3, <2>1, <2>3
  <2>5. QED
    BY <1>3, <2>1, <2>2, <2>4 DEF FileOf
<1>9. /\ h.dependents \in Seq(Seq([path : Paths, dylib : Nat, reExport : BOOLEAN]))
      /\ DOMAIN h.dependents = Readers(h)
      /\ h.dependents[new] = row
      /\ \A r \in Readers(g) : h.dependents[r] = g.dependents[r]
  <2> DEFINE D == [path : Paths, dylib : Nat, reExport : BOOLEAN]
  <2>1. g.dependents \in Seq(Seq(D)) /\ row \in Seq(D)
    BY <1>2, <1>6
  <2> HIDE DEF D
  <2>2. h.dependents \in Seq(Seq(D)) /\ DOMAIN h.dependents = 1 .. new
    BY <1>1, <1>3, <1>4, <2>1
  <2>3. h.dependents[new] = row
        /\ \A r \in 1 .. Len(g.readers) : h.dependents[r] = g.dependents[r]
    BY <1>1, <1>3, <1>4, <2>1
  <2>4. Readers(h) = 1 .. new
    BY <1>3, <1>8
  <2>5. QED
    BY <1>3, <2>2, <2>3, <2>4 DEF D
<1>10. input.installPath[f] \in Paths
  BY InputFields
<1>11. /\ h.byName \in [Paths -> Nat]
       /\ \A p \in Paths : h.byName[p] = IF p = input.installPath[f] /\ g.byName[p] = NoReader
                                         THEN new ELSE g.byName[p]
  <2> HIDE DEF new
  <2>1. QED
    BY <1>1, <1>2, <1>8, <1>10
<1>12. h \in GraphRecords
  <2>1. h = [g EXCEPT !.readers = h.readers, !.byName = h.byName,
                      !.dependents = h.dependents]
    BY <1>1, <1>2 DEF AddDylib, GraphOK, GraphRecords
  <2>2. QED
    BY <1>2, <1>8, <1>9, <1>11, <2>1 DEF GraphOK, GraphRecords
<1> HIDE DEF new
<1>13. \A r \in Readers(h) : RowOK(h, r)
  <2>1. RowOK(h, new)
    BY <1>6, <1>7, <1>8, <1>9 DEF RowOK
  <2>2. ASSUME NEW r \in Readers(g)  PROVE RowOK(h, r)
    <3>1. RowOK(g, r)
      BY DEF GraphOK
    <3>2. /\ h.dependents[r] = g.dependents[r] /\ FileOf(h, r) = FileOf(g, r)
          /\ Readers(g) \subseteq Readers(h)
      BY <1>8, <1>9
    <3>3. QED
      BY <3>1, <3>2 DEF RowOK
  <2>3. QED
    BY <1>8, <2>1, <2>2
<1>14. GraphOK(h)
  BY <1>1, <1>8, <1>9, <1>11, <1>12, <1>13 DEF GraphOK
<1>15. Fresh(h, new)
  BY <1>6, <1>7, <1>8, <1>9 DEF Fresh
<1>16. Grows(g, h)
  BY <1>1, <1>8, <1>11, <1>15 DEF Grows
<1>17. NoReader \notin Readers(h)
  BY <1>14, GraphFields
<1>18. QED
  BY <1>1, <1>8, <1>9, <1>10, <1>11, <1>14, <1>16, <1>17 DEF new

------------------------------------------------------------------------------
(***************************************************************************)
(* processIndirectLibraries(): its loop, round by round.                   *)
(***************************************************************************)
\* A dependent of a dylib that has been read is not there.
NotThere(g) ==
    \E r \in Readers(g) : \E i \in DOMAIN input.dependents[FileOf(g, r)] :
       input.at[input.dependents[FileOf(g, r)][i].path] = NoFile

\* What n rounds for the dependents of r have made of g
Rounds(g, h, r, n) ==
    /\ GraphOK(h)
    /\ Grows(g, h)
    /\ h.searched = g.searched /\ h.processed = g.processed
    /\ \A c \in Readers(g) \ {r} : h.dependents[c] = g.dependents[c]
    /\ DOMAIN h.dependents[r] = DOMAIN g.dependents[r]
    /\ \A i \in DOMAIN g.dependents[r] : i > n =>
          h.dependents[r][i] = g.dependents[r][i]
    /\ h.failed => NotThere(h)
    /\ ~ h.failed => \A i \in DOMAIN g.dependents[r] : i <= n =>
          (h.dependents[r][i].reExport => h.dependents[r][i].dylib # NoReader)
    /\ \A c \in h.implicit \ g.implicit : ~ input.flat /\ c \in Named(h)

\* findDylib() finds a reader, or makes one, or there is no file to read.
LEMMA FindsOrLoads ==
    ASSUME input \in DylibInputs, NEW g, GraphOK(g), ~ g.failed,
           NEW path \in Paths, NEW h, h = FindLoading(g, path)
    PROVE  /\ GraphOK(h)
           /\ Grows(g, h)
           /\ h.searched = g.searched /\ h.implicit = g.implicit
           /\ h.processed = g.processed
           /\ \A r \in Readers(g) : h.dependents[r] = g.dependents[r]
           /\ h.failed => input.at[path] = NoFile
           /\ ~ h.failed =>
                 /\ Found(g, path) \in Readers(h)
                 /\ path = input.installPath[FileOf(h, Found(g, path))] =>
                       Found(g, path) \in Named(h)
<1>1. CASE g.byName[path] # NoReader
  <2>1. h = g /\ Found(g, path) = g.byName[path]
    BY <1>1 DEF FindLoading, Found
  <2>2. g.byName[path] \in Readers(g) /\ g.byName[path] \in Named(g)
    BY <1>1 DEF GraphOK, Named
  <2>3. Grows(g, g)
    BY DEF Grows
  <2>4. QED
    BY <2>1, <2>2, <2>3
<1>2. CASE g.byName[path] = NoReader /\ input.at[path] = NoFile
  <2>1. h = [g EXCEPT !.failed = TRUE]
    BY <1>2 DEF FindLoading
  <2>2. /\ g \in GraphRecords /\ h \in GraphRecords
        /\ h.readers = g.readers /\ h.byName = g.byName /\ h.explicit = g.explicit
        /\ h.implicit = g.implicit /\ h.searched = g.searched /\ h.failed
        /\ h.processed = g.processed /\ h.dependents = g.dependents
    BY <2>1 DEF GraphOK, GraphRecords
  <2>3. Readers(h) = Readers(g) /\ \A r : FileOf(h, r) = FileOf(g, r)
    BY <2>2 DEF Readers, FileOf
  <2>4. \A r \in Readers(g) : RowOK(g, r) => RowOK(h, r)
    BY <2>2, <2>3 DEF RowOK
  <2>5. GraphOK(h)
    BY <2>2, <2>3, <2>4 DEF GraphOK
  <2>6. Grows(g, h)
    BY <2>2, <2>3 DEF Grows
  <2>7. QED
    BY <1>2, <2>2, <2>5, <2>6
<1>3. CASE g.byName[path] = NoReader /\ input.at[path] # NoFile
  <2>1. h = AddDylib(g, input.at[path]) /\ Found(g, path) = Len(g.readers) + 1
    BY <1>3 DEF FindLoading, Found
  <2>2. input.at[path] \in Files
    BY <1>3, InputFields
  <2> DEFINE new == Len(g.readers) + 1
             f == input.at[path]
  <2>3. /\ GraphOK(h) /\ Grows(g, h) /\ Readers(h) = Readers(g) \cup {new}
        /\ FileOf(h, new) = f
        /\ \A r \in Readers(g) : h.dependents[r] = g.dependents[r]
        /\ g.byName[input.installPath[f]] = NoReader => h.byName[input.installPath[f]] = new
        /\ h.implicit = g.implicit /\ h.searched = g.searched /\ h.failed = g.failed
        /\ h.processed = g.processed
    <3> HIDE DEF new, f
    <3>1. f \in Files /\ h = AddDylib(g, f)
      BY <2>1, <2>2 DEF f
    <3>2. QED
      BY <3>1, DylibAdded DEF new
  <2>4. path = input.installPath[f] => new \in Named(h)
    BY <1>3, <2>3 DEF Named
  <2>5. QED
    BY <2>1, <2>3, <2>4
<1>4. QED
  BY <1>1, <1>2, <1>3

\* A further step of growing
LEMMA GrowsOn ==
    ASSUME NEW g, NEW h, NEW k, GraphOK(g), GraphOK(h), Grows(g, h), Grows(h, k),
           \A c \in Readers(h) \ Readers(g) : k.dependents[c] = h.dependents[c]
    PROVE  Grows(g, k)
<1>1. \A c \in Readers(k) \ Readers(g) : Fresh(k, c)
  <2>1. ASSUME NEW c \in Readers(h) \ Readers(g)  PROVE Fresh(k, c)
    <3>1. Fresh(h, c) /\ FileOf(k, c) = FileOf(h, c)
      BY DEF Grows
    <3>2. QED
      BY <3>1 DEF Fresh
  <2>2. QED
    BY <2>1 DEF Grows
<1>2. QED
  BY <1>1 DEF Grows

LEMMA NamedStays == ASSUME NEW g, NEW h, Grows(g, h), NEW c \in Named(g), c # NoReader
                    PROVE  c \in Named(h)
  BY DEF Named, Grows

\* g after a round that finds the child of a dependent
Setting(g, r, i, child, flag, linked) ==
    [g EXCEPT !.dependents[r][i] = [@ EXCEPT !.dylib = child, !.reExport = flag],
              !.implicit = linked]

\* Only the flag, the child and what is implicitly linked are set in a round.
LEMMA ChildSet ==
    ASSUME NEW g, GraphOK(g), ~ g.failed, NEW r \in Readers(g), NEW i \in DOMAIN g.dependents[r],
           NEW child \in Readers(g), NEW flag \in BOOLEAN,
           NEW linked \in SUBSET Readers(g), g.implicit \subseteq linked,
           NEW h, h = Setting(g, r, i, child, flag, linked)
    PROVE  /\ GraphOK(h)
           /\ Readers(h) = Readers(g) /\ h.byName = g.byName
           /\ \A c \in Readers(g) : FileOf(h, c) = FileOf(g, c)
           /\ h.explicit = g.explicit /\ h.processed = g.processed
           /\ h.searched = g.searched /\ h.implicit = linked /\ ~ h.failed
           /\ \A c \in Readers(g) \ {r} : h.dependents[c] = g.dependents[c]
           /\ DOMAIN h.dependents[r] = DOMAIN g.dependents[r]
           /\ \A j \in DOMAIN g.dependents[r] \ {i} :
                 h.dependents[r][j] = g.dependents[r][j]
           /\ h.dependents[r][i].dylib = child
<1> DEFINE D == [path : Paths, dylib : Nat, reExport : BOOLEAN]
           dep == [g.dependents[r][i] EXCEPT !.dylib = child, !.reExport = flag]
<1>1. /\ g \in GraphRecords /\ DOMAIN g.dependents = Readers(g)
      /\ Readers(g) \subseteq Nat
      /\ g.dependents \in Seq(Seq(D)) /\ g.dependents[r] \in Seq(D)
      /\ g.dependents[r][i] \in D
  <2>1. g \in GraphRecords /\ DOMAIN g.dependents = Readers(g)
    BY DEF GraphOK
  <2>2. g.dependents \in Seq(Seq(D)) /\ g.dependents[r] \in Seq(D)
    BY GraphFields
  <2>3. g.dependents[r][i] \in D
    BY GraphFields
  <2>4. Readers(g) \subseteq Nat
    <3>1. Len(g.readers) \in Nat /\ Readers(g) = 1 .. Len(g.readers)
      BY GraphFields
    <3>2. QED
      BY <3>1
  <2>5. QED
    BY <2>1, <2>2, <2>3, <2>4
<1>2. /\ h.readers = g.readers /\ h.byName = g.byName /\ h.explicit = g.explicit
      /\ h.implicit = linked /\ h.searched = g.searched /\ ~ h.failed
      /\ h.processed = g.processed
      /\ h.dependents = [g.dependents EXCEPT ![r] = [g.dependents[r] EXCEPT ![i] = dep]]
  BY <1>1 DEF GraphRecords, Setting
<1>3. dep \in D /\ dep.path = g.dependents[r][i].path /\ dep.dylib = child
  BY <1>1
<1> DEFINE row == [g.dependents[r] EXCEPT ![i] = dep]
<1> HIDE DEF dep, D
<1>4. /\ row \in Seq(D) /\ DOMAIN row = DOMAIN g.dependents[r] /\ row[i] = dep
      /\ \A j \in DOMAIN g.dependents[r] \ {i} : row[j] = g.dependents[r][j]
  BY <1>1, <1>3
<1> HIDE DEF row
<1>5. /\ h.dependents = [g.dependents EXCEPT ![r] = row]
      /\ DOMAIN h.dependents = DOMAIN g.dependents /\ h.dependents[r] = row
      /\ \A c \in Readers(g) \ {r} : h.dependents[c] = g.dependents[c]
      /\ h.dependents \in Seq(Seq(D))
  <2>1. h.dependents = [g.dependents EXCEPT ![r] = row]
    BY <1>2 DEF row
  <2>2. QED
    BY <1>1, <1>4, <2>1
<1>6. Readers(h) = Readers(g) /\ \A c : FileOf(h, c) = FileOf(g, c)
  BY <1>2 DEF Readers, FileOf
<1>7. h \in GraphRecords
  <2>1. h = [g EXCEPT !.dependents = h.dependents, !.implicit = linked]
    BY <1>1, <1>2 DEF GraphRecords, Setting
  <2>2. h.dependents \in Seq(Seq([path : Paths, dylib : Nat, reExport : BOOLEAN]))
    BY <1>5 DEF D
  <2>3. QED
    BY <1>1, <2>1, <2>2 DEF GraphRecords
<1>8. ASSUME NEW c \in Readers(h)  PROVE RowOK(h, c)
  <2>1. RowOK(g, c) /\ RowOK(g, r)
    BY <1>6 DEF GraphOK
  <2>2. CASE c # r
    BY <1>5, <1>6, <2>1, <2>2 DEF RowOK
  <2>3. CASE c = r
    <3>1. \A j \in DOMAIN row : /\ row[j].path = g.dependents[r][j].path
                                /\ row[j].dylib \in Readers(g) \cup {NoReader}
      BY <1>3, <1>4, <2>1 DEF RowOK
    <3>2. QED
      BY <1>4, <1>5, <1>6, <2>1, <2>3, <3>1 DEF RowOK
  <2>4. QED
    BY <2>2, <2>3
<1>9. GraphOK(h)
  BY <1>1, <1>2, <1>5, <1>6, <1>7, <1>8 DEF GraphOK
<1>10. QED
  BY <1>2, <1>3, <1>4, <1>5, <1>6, <1>9

\* One more round
LEMMA RoundMade ==
    ASSUME input \in DylibInputs, NEW g, GraphOK(g), ~ g.failed,
           NEW r \in Readers(g), NEW n \in Nat, n + 1 \in DOMAIN g.dependents[r],
           NEW h, Rounds(g, h, r, n), NEW k, k = FindDependent(h, r, n + 1)
    PROVE  Rounds(g, k, r, n + 1)
<1> DEFINE i == n + 1
<1>1. /\ GraphOK(h) /\ Grows(g, h) /\ r \in Readers(h) /\ i \in DOMAIN h.dependents[r]
      /\ DOMAIN h.dependents[r] = DOMAIN g.dependents[r]
  BY DEF Rounds, Grows
<1>2. DOMAIN g.dependents[r] \subseteq Nat /\ h.dependents[r][i].path \in Paths
      /\ h.dependents[r][i].reExport \in BOOLEAN
      /\ h.dependents[r][i].path = input.dependents[FileOf(h, r)][i].path
      /\ DOMAIN h.dependents[r] = DOMAIN input.dependents[FileOf(h, r)]
  <2>1. g.dependents[r] \in Seq([path : Paths, dylib : Nat, reExport : BOOLEAN])
    BY GraphFields
  <2>2. h.dependents[r][i] \in [path : Paths, dylib : Nat, reExport : BOOLEAN]
    BY <1>1, GraphFields
  <2>3. RowOK(h, r)
    BY <1>1 DEF GraphOK
  <2>4. DOMAIN g.dependents[r] \subseteq Nat
    BY <2>1
  <2>5. h.dependents[r][i].path \in Paths /\ h.dependents[r][i].reExport \in BOOLEAN
    BY <2>2
  <2>6. h.dependents[r][i].path = input.dependents[FileOf(h, r)][i].path
        /\ DOMAIN h.dependents[r] = DOMAIN input.dependents[FileOf(h, r)]
    BY <1>1, <2>3 DEF RowOK
  <2>7. QED
    BY <2>4, <2>5, <2>6
<1>3. CASE h.failed
  <2>1. k = h
    BY <1>3 DEF FindDependent
  <2>2. QED
    BY <1>2, <1>3, <2>1 DEF Rounds
<1>4. CASE ~ h.failed /\ ~ (\/ input.flat
                            \/ h.dependents[r][i].reExport
                            \/ FileOf(h, r) \notin input.explicitReExport)
  <2>1. k = h
    BY <1>4 DEF FindDependent
  <2>2. ~ h.dependents[r][i].reExport
    BY <1>4
  <2>3. \A j \in DOMAIN g.dependents[r] : (j > n + 1 => j > n) /\ (j <= n + 1 => j <= n \/ j = i)
    BY <1>2
  <2>4. QED
    BY <1>4, <2>1, <2>2, <2>3 DEF Rounds
<1>5. CASE ~ h.failed /\ k = WithChild(h, r, i)
  <2> DEFINE dep == h.dependents[r][i]
             m == FindLoading(h, dep.path)
             child == Found(h, dep.path)
             flag == ReExports(m, r, dep, child)
             linked == IF ~ input.flat /\ dep.reExport /\ Promotes(m, r, dep.path, child)
                       THEN m.implicit \cup {child} ELSE m.implicit
  <2>1. k = IF m.failed THEN m
            ELSE [m EXCEPT !.dependents[r][i] =
                              [@ EXCEPT !.dylib = child, !.reExport = flag],
                           !.implicit = linked]
    BY <1>5 DEF WithChild
  <2>2. dep.path \in Paths /\ dep.reExport \in BOOLEAN
    BY <1>2
  <2> HIDE DEF dep
  <2>3. /\ GraphOK(m) /\ Grows(h, m)
        /\ m.searched = h.searched /\ m.implicit = h.implicit
        /\ m.processed = h.processed
        /\ \A c \in Readers(h) : m.dependents[c] = h.dependents[c]
        /\ m.failed => input.at[dep.path] = NoFile
        /\ ~ m.failed =>
              /\ child \in Readers(m)
              /\ dep.path = input.installPath[FileOf(m, child)] => child \in Named(m)
    BY <1>1, <1>5, <2>2, FindsOrLoads
  <2> HIDE DEF m, child
  <2>4. Grows(g, m)
    BY <1>1, <2>3, GrowsOn
  <2>5. /\ \A c \in Readers(g) \ {r} : m.dependents[c] = g.dependents[c]
        /\ m.dependents[r] = h.dependents[r] /\ r \in Readers(m)
        /\ m.searched = g.searched /\ m.processed = g.processed
    BY <1>1, <2>3 DEF Rounds, Grows
  <2>6. \A c \in m.implicit \ g.implicit : ~ input.flat /\ c \in Named(m)
    <3>1. ASSUME NEW c \in h.implicit \ g.implicit  PROVE ~ input.flat /\ c \in Named(m)
      <4>1. ~ input.flat /\ c \in Named(h)
        BY DEF Rounds
      <4>2. c # NoReader
        BY <1>1, GraphFields DEF GraphOK
      <4>3. QED
        BY <2>3, <4>1, <4>2, NamedStays
    <3>2. QED
      BY <2>3, <3>1
  <2>7. CASE m.failed
    <3>1. k = m
      BY <2>1, <2>7
    <3>2. NotThere(m)
      <4>1. FileOf(m, r) = FileOf(h, r)
        BY <1>1, <2>3 DEF Grows
      <4>2. input.at[input.dependents[FileOf(m, r)][i].path] = NoFile
            /\ i \in DOMAIN input.dependents[FileOf(m, r)]
        BY <1>1, <1>2, <2>3, <2>7, <4>1 DEF dep
      <4> HIDE DEF i
      <4>3. QED
        BY <2>5, <4>2 DEF NotThere
    <3>3. \A j \in DOMAIN g.dependents[r] : j > n + 1 => j > n
      BY <1>2
    <3>4. QED
      BY <1>1, <2>3, <2>4, <2>5, <2>6, <2>7, <3>1, <3>2, <3>3 DEF Rounds
  <2>8. CASE ~ m.failed
    <3>1. child \in Readers(m)
      BY <2>3, <2>8
    <3>2. flag \in BOOLEAN
      <4>1. input.flat \in BOOLEAN
        BY InputFields
      <4>2. QED
        BY <2>2, <4>1 DEF ReExports
    <3>3. linked \in SUBSET Readers(m) /\ m.implicit \subseteq linked
      BY <2>3, <3>1 DEF GraphOK
    <3>4. \A c \in linked \ g.implicit : ~ input.flat /\ c \in Named(m)
      BY <2>3, <2>6, <2>8 DEF Promotes
    <3>5. k = Setting(m, r, i, child, flag, linked)
      BY <2>1, <2>8 DEF Setting
    <3>6. i \in DOMAIN m.dependents[r]
      BY <1>1, <2>5
    <3> HIDE DEF flag, linked, i
    <3>7. /\ GraphOK(k)
          /\ Readers(k) = Readers(m) /\ k.byName = m.byName
          /\ \A c \in Readers(m) : FileOf(k, c) = FileOf(m, c)
          /\ k.explicit = m.explicit /\ k.processed = m.processed
          /\ k.searched = m.searched /\ k.implicit = linked /\ ~ k.failed
          /\ \A c \in Readers(m) \ {r} : k.dependents[c] = m.dependents[c]
          /\ DOMAIN k.dependents[r] = DOMAIN m.dependents[r]
          /\ \A j \in DOMAIN m.dependents[r] \ {i} :
                k.dependents[r][j] = m.dependents[r][j]
          /\ k.dependents[r][i].dylib = child
      BY <2>3, <2>5, <2>8, <3>1, <3>2, <3>3, <3>5, <3>6, ChildSet
    <3>8. child # NoReader
      BY <2>3, <3>1, GraphFields
    <3>9. Grows(g, k)
      <4>1. \A c \in Readers(k) \ Readers(g) : Fresh(k, c)
        BY <2>4, <3>7 DEF Grows, Fresh
      <4>2. QED
        BY <2>4, <3>3, <3>7, <4>1 DEF Grows
    <3>10. Named(k) = Named(m)
      BY <3>7 DEF Named
    <3>11. \A j \in DOMAIN g.dependents[r] :
              /\ j > n + 1 => j > n /\ j # i
              /\ j <= n + 1 => j <= n \/ j = i
      BY <1>2 DEF i
    <3>12. \A c \in Readers(g) \ {r} : k.dependents[c] = g.dependents[c]
      BY <2>4, <2>5, <3>7 DEF Grows
    <3>13. \A j \in DOMAIN g.dependents[r] : j > n + 1 =>
               k.dependents[r][j] = g.dependents[r][j]
      BY <1>1, <2>5, <3>7, <3>11 DEF Rounds
    <3>14. \A j \in DOMAIN g.dependents[r] : j <= n + 1 =>
               (k.dependents[r][j].reExport => k.dependents[r][j].dylib # NoReader)
      BY <1>1, <1>5, <2>5, <3>7, <3>8, <3>11 DEF Rounds
    <3>15. QED
      BY <1>1, <2>5, <3>4, <3>7, <3>9, <3>10, <3>12, <3>13, <3>14 DEF Rounds
  <2>9. QED
    BY <2>7, <2>8
<1>6. QED
  BY <1>3, <1>4, <1>5 DEF FindDependent

\* All rounds: the loop is a recursive function, whose value exists.
LEMMA DependentsFound ==
    ASSUME input \in DylibInputs, NEW g, GraphOK(g), ~ g.failed, NEW r \in Readers(g),
           Fresh(g, r), NEW h, h = FindDependents(g, r)
    PROVE  /\ GraphOK(h)
           /\ Grows(g, h)
           /\ h.searched = g.searched /\ h.processed = g.processed
           /\ \A c \in Readers(g) \ {r} : h.dependents[c] = g.dependents[c]
           /\ h.failed => NotThere(h)
           /\ ~ h.failed => Complete(h, r)
           /\ \A c \in h.implicit \ g.implicit : ~ input.flat /\ c \in Named(h)
<1> DEFINE all == Len(g.dependents[r])
           Counts(found, n) ==
               \A i \in 0 .. n : found[i] =
                   IF i = 0 THEN g ELSE FindDependent(found[i - 1], r, i)
           Loop(found) ==
               found = [i \in 0 .. all |->
                           IF i = 0 THEN g ELSE FindDependent(found[i - 1], r, i)]
           found == CHOOSE f : Loop(f)
<1>1. all \in Nat /\ DOMAIN g.dependents[r] = 1 .. all
  <2>1. g.dependents[r] \in Seq([path : Paths, dylib : Nat, reExport : BOOLEAN])
    BY GraphFields
  <2>2. QED
    BY <2>1
<1>2. CASE ~ input.flat /\ FileOf(g, r) \in input.noRexports
  <2>1. h = g
    BY <1>2 DEF FindDependents
  <2>2. Complete(g, r)
    <3>1. \A i \in DOMAIN input.dependents[FileOf(g, r)] :
              ~ input.dependents[FileOf(g, r)][i].reExport
      BY <1>2, InputFields
    <3>2. RowOK(g, r)
      BY DEF GraphOK
    <3>3. QED
      BY <3>1, <3>2 DEF Complete, Fresh, RowOK
  <2>3. Grows(g, g)
    BY DEF Grows
  <2>4. QED
    BY <2>1, <2>2, <2>3
<1>3. CASE ~ (~ input.flat /\ FileOf(g, r) \in input.noRexports)
  <2>1. h = found[all]
    BY <1>3 DEF FindDependents
  <2> HIDE DEF all
  <2>2. ASSUME NEW n \in 0 .. all  PROVE \E f : DOMAIN f = 0 .. n /\ Counts(f, n)
    <3> DEFINE Bad == {m \in 0 .. all : ~ \E f : DOMAIN f = 0 .. m /\ Counts(f, m)}
    <3>1. ASSUME Bad # {}  PROVE FALSE
      <4>1. PICK m \in Bad : \A k \in Bad : m <= k
        <5>1. Bad \in SUBSET (0 .. all)
          OBVIOUS
        <5> HIDE DEF Bad
        <5>2. QED
          BY <1>1, <3>1, <5>1, LeastIndex
      <4>2. m \in Nat /\ m <= all
        BY <1>1
      <4>3. CASE m = 0
        <5> DEFINE f == [i \in 0 .. 0 |-> g]
        <5>1. DOMAIN f = 0 .. m /\ Counts(f, m)
          BY <4>3
        <5>2. QED
          BY <5>1
      <4>4. CASE m # 0
        <5>1. m - 1 \in 0 .. all /\ m - 1 \notin Bad
          BY <1>1, <4>1, <4>2, <4>4
        <5>2. PICK f : DOMAIN f = 0 .. (m - 1) /\ Counts(f, m - 1)
          BY <5>1
        <5> DEFINE e == [i \in 0 .. m |-> IF i = m THEN FindDependent(f[m - 1], r, m) ELSE f[i]]
        <5>3. ASSUME NEW i \in 0 .. m
              PROVE  e[i] = IF i = 0 THEN g ELSE FindDependent(e[i - 1], r, i)
          <6>1. CASE i = m
            <7>1. m - 1 \in 0 .. m /\ m - 1 # m
              BY <4>2, <4>4
            <7>2. e[i - 1] = f[m - 1] /\ e[i] = FindDependent(f[m - 1], r, m)
              BY <6>1, <7>1
            <7>3. QED
              BY <4>4, <6>1, <7>2
          <6>2. CASE i # m
            <7>1. i \in 0 .. (m - 1) /\ e[i] = f[i]
              BY <4>2, <6>2
            <7>2. CASE i = 0
              BY <5>2, <7>1, <7>2
            <7>3. CASE i # 0
              <8>1. i - 1 \in 0 .. m /\ i - 1 # m
                BY <4>2, <7>1, <7>3
              <8>2. e[i - 1] = f[i - 1]
                BY <8>1
              <8>3. QED
                BY <5>2, <7>1, <7>3, <8>2
            <7>4. QED
              BY <7>2, <7>3
          <6>3. QED
            BY <6>1, <6>2
        <5>4. DOMAIN e = 0 .. m /\ Counts(e, m)
          <6>1. DOMAIN e = 0 .. m
            OBVIOUS
          <6> HIDE DEF e
          <6>2. QED
            BY <5>3, <6>1
        <5> HIDE DEF e, Counts
        <5>5. QED
          BY <5>4
      <4>5. QED
        BY <4>3, <4>4
    <3>2. QED
      BY <3>1
  <2>3. PICK f : DOMAIN f = 0 .. all /\ Counts(f, all)
    BY <1>1, <2>2
  <2>4. Loop([i \in 0 .. all |-> f[i]])
    <3> DEFINE e == [i \in 0 .. all |-> f[i]]
    <3>1. ASSUME NEW i \in 0 .. all
          PROVE  f[i] = IF i = 0 THEN g ELSE FindDependent(e[i - 1], r, i)
      <4>1. CASE i = 0
        BY <2>3, <4>1
      <4>2. CASE i # 0
        <5>1. i - 1 \in 0 .. all
          BY <1>1, <4>2
        <5>2. e[i - 1] = f[i - 1]
          BY <5>1
        <5>3. QED
          BY <2>3, <4>2, <5>2
      <4>3. QED
        BY <4>1, <4>2
    <3> DEFINE Leads(i) == IF i = 0 THEN g ELSE FindDependent(e[i - 1], r, i)
    <3>2. \A i \in 0 .. all : f[i] = Leads(i)
      BY <3>1
    <3> HIDE DEF Leads
    <3>3. e = [i \in 0 .. all |-> Leads(i)]
      BY <3>2
    <3>4. QED
      BY <3>3 DEF Leads
  <2>5. Loop(found)
    BY <2>4
  <2>6. \A i \in 0 .. all : found[i] =
            IF i = 0 THEN g ELSE FindDependent(found[i - 1], r, i)
    <3> HIDE DEF found
    <3>1. QED
      BY <2>5
  <2> HIDE DEF found
  <2>7. Rounds(g, found[0], r, 0)
    <3>1. found[0] = g
      BY <1>1, <2>6
    <3>2. Grows(g, g)
      BY DEF Grows
    <3>3. \A i \in DOMAIN g.dependents[r] : ~ (i <= 0)
      BY <1>1
    <3>4. QED
      BY <3>1, <3>2, <3>3 DEF Rounds
  <2>8. ASSUME NEW n \in Nat, n + 1 <= all, Rounds(g, found[n], r, n)
        PROVE  Rounds(g, found[n + 1], r, n + 1)
    <3>1. n + 1 \in DOMAIN g.dependents[r] /\ n + 1 \in 0 .. all
          /\ n + 1 # 0 /\ (n + 1) - 1 = n
      BY <1>1, <2>8
    <3>2. found[n + 1] = FindDependent(found[n], r, n + 1)
      BY <2>6, <3>1
    <3>3. QED
      BY <2>8, <3>1, <3>2, RoundMade
  <2>9. Rounds(g, found[all], r, all)
    <3> DEFINE Bad == {m \in 0 .. all : ~ Rounds(g, found[m], r, m)}
    <3>1. ASSUME Bad # {}  PROVE FALSE
      <4>1. PICK m \in Bad : \A k \in Bad : m <= k
        <5>1. Bad \in SUBSET (0 .. all)
          OBVIOUS
        <5> HIDE DEF Bad
        <5>2. QED
          BY <1>1, <3>1, <5>1, LeastIndex
      <4>2. m \in Nat /\ m <= all /\ m # 0
        BY <1>1, <2>7
      <4>3. m - 1 \in Nat /\ m - 1 \in 0 .. all /\ (m - 1) + 1 = m /\ m - 1 \notin Bad
        BY <1>1, <4>1, <4>2
      <4>4. Rounds(g, found[m - 1], r, m - 1)
        BY <4>3
      <4>5. Rounds(g, found[(m - 1) + 1], r, (m - 1) + 1)
        BY <2>8, <4>2, <4>3, <4>4
      <4>6. QED
        BY <4>3, <4>5
    <3>2. QED
      BY <1>1, <3>1
  <2>10. \A i \in DOMAIN g.dependents[r] : i <= all
    BY <1>1
  <2>11. QED
    BY <2>1, <2>9, <2>10 DEF Rounds, Complete
<1>4. QED
  BY <1>2, <1>3

\* One dylib processed: refused, or its dependents found and no cycle made.
LEMMA DylibProcessed ==
    ASSUME input \in DylibInputs, NEW g, GraphOK(g), ~ g.failed, NEW r \in Readers(g),
           r \in g.processed => Complete(g, r), r \notin g.processed => Fresh(g, r),
           ~ CycleIn(g), NEW h, h = ProcessIndirectLibraries(g, r)
    PROVE  /\ GraphOK(h)
           /\ Grows(g, h)
           /\ h.searched = g.searched
           /\ \A c \in Readers(g) \ {r} : h.dependents[c] = g.dependents[c]
           /\ \A c \in h.implicit \ g.implicit : ~ input.flat /\ c \in Named(h)
           /\ h.failed => NotThere(h) \/ CycleIn(h)
           /\ ~ h.failed => /\ h.processed = g.processed \cup {r}
                            /\ Complete(h, r)
                            /\ ~ CycleIn(h)
<1>1. CASE r \in g.processed
  <2>1. h = g
    BY <1>1 DEF ProcessIndirectLibraries
  <2>2. Grows(g, g)
    BY DEF Grows
  <2>3. QED
    BY <1>1, <2>1, <2>2
<1>2. CASE r \notin g.processed
  <2> DEFINE k == FindDependents(g, r)
  <2>1. h = IF k.failed \/ MeetsItself(k, r) THEN [k EXCEPT !.failed = TRUE]
            ELSE [k EXCEPT !.processed = @ \cup {r}]
    BY <1>2 DEF ProcessIndirectLibraries
  <2> HIDE DEF k
  <2>2. /\ GraphOK(k)
        /\ Grows(g, k)
        /\ k.searched = g.searched /\ k.processed = g.processed
        /\ \A c \in Readers(g) \ {r} : k.dependents[c] = g.dependents[c]
        /\ k.failed => NotThere(k)
        /\ ~ k.failed => Complete(k, r)
        /\ \A c \in k.implicit \ g.implicit : ~ input.flat /\ c \in Named(k)
    BY <1>2, DependentsFound DEF k
  <2>3. /\ h.readers = k.readers /\ h.byName = k.byName /\ h.explicit = k.explicit
        /\ h.implicit = k.implicit /\ h.searched = k.searched
        /\ h.dependents = k.dependents
        /\ h.failed <=> k.failed \/ MeetsItself(k, r)
        /\ h.processed = IF h.failed THEN k.processed ELSE k.processed \cup {r}
        /\ h \in GraphRecords
    <3>1. k \in GraphRecords /\ r \in Nat
      <4>1. Len(g.readers) \in Nat /\ Readers(g) = 1 .. Len(g.readers)
        BY GraphFields
      <4>2. QED
        BY <2>2, <4>1 DEF GraphOK
    <3>2. CASE k.failed \/ MeetsItself(k, r)
      BY <2>1, <3>1, <3>2 DEF GraphRecords
    <3>3. CASE ~ (k.failed \/ MeetsItself(k, r))
      <4>1. h = [k EXCEPT !.processed = k.processed \cup {r}]
        BY <2>1, <3>3
      <4>2. k.processed \cup {r} \in SUBSET Nat
        BY <3>1 DEF GraphRecords
      <4>3. /\ h.readers = k.readers /\ h.byName = k.byName /\ h.explicit = k.explicit
            /\ h.implicit = k.implicit /\ h.searched = k.searched
            /\ h.dependents = k.dependents /\ h.failed = k.failed
            /\ h.processed = k.processed \cup {r}
        BY <3>1, <4>1 DEF GraphRecords
      <4>4. h \in GraphRecords
        BY <3>1, <4>1, <4>2 DEF GraphRecords
      <4>5. QED
        BY <3>3, <4>3, <4>4
    <3>4. QED
      BY <3>2, <3>3
  <2>4. Readers(h) = Readers(k) /\ (\A c : FileOf(h, c) = FileOf(k, c))
        /\ (\A c : Children(h, c) = Children(k, c)) /\ Named(h) = Named(k)
    BY <2>3 DEF Readers, FileOf, Children, Named
  <2>5. \A c \in Readers(k) : RowOK(k, c) => RowOK(h, c)
    BY <2>3, <2>4 DEF RowOK
  <2>6. r \in Readers(h) /\ r \in Readers(k)
    BY <2>2, <2>4 DEF Grows
  <2>7. GraphOK(h)
    BY <2>2, <2>3, <2>4, <2>5, <2>6 DEF GraphOK
  <2>8. Grows(g, h)
    <3>1. \A c : Fresh(k, c) => Fresh(h, c)
      BY <2>3, <2>4 DEF Fresh
    <3>2. QED
      BY <2>2, <2>3, <2>4, <3>1 DEF Grows
  <2>9. CycleIn(h) <=> CycleIn(k)
    BY <2>4 DEF CycleIn
  <2>10. ChildrenAreReaders(k) /\ IsFiniteSet(Readers(k))
    BY <2>2, GraphFields
  <2>11. h.failed => NotThere(h) \/ CycleIn(h)
    <3>1. NotThere(k) => NotThere(h)
      BY <2>4 DEF NotThere
    <3>2. MeetsItself(k, r) => CycleIn(k)
      BY <2>6, <2>10, MetIsCycle
    <3>3. QED
      BY <2>2, <2>3, <2>9, <3>1, <3>2
  <2>12. ASSUME ~ h.failed  PROVE ~ CycleIn(h)
    <3>1. ASSUME NEW S \in SUBSET Readers(k), S # {},
                 \A c \in S : Children(k, c) \cap S # {}
          PROVE  FALSE
      <4>1. r \notin S
        BY <2>3, <2>10, <2>12, <3>1, CycleIsMet
      <4>2. \A c \in S : c \in Readers(g)
        <5>1. ASSUME NEW c \in S, c \notin Readers(g)  PROVE FALSE
          <6>1. Fresh(k, c)
            BY <2>2, <5>1 DEF Grows
          <6>2. Children(k, c) = {}
            BY <6>1 DEF Fresh, Children
          <6>3. QED
            BY <3>1, <6>2
        <5>2. QED
          BY <5>1
      <4>3. \A c \in S : Children(g, c) = Children(k, c)
        BY <2>2, <4>1, <4>2 DEF Children
      <4>4. QED
        BY <3>1, <4>2, <4>3 DEF CycleIn
    <3>2. QED
      BY <2>9, <3>1 DEF CycleIn
  <2>13. Complete(k, r) => Complete(h, r)
    BY <2>3 DEF Complete
  <2>14. QED
    BY <2>2, <2>3, <2>4, <2>7, <2>8, <2>11, <2>12, <2>13
<1>3. QED
  BY <1>1, <1>2

------------------------------------------------------------------------------
(***************************************************************************)
(* The invariant of the link.                                              *)
(***************************************************************************)
Searched(g) == Range(g.searched)

StateOK ==
    /\ input \in DylibInputs
    /\ step \in {"input", "autolink", "indirect", "resolve", "done", "failed"}
    /\ GraphOK(graph)
    /\ graph.failed = (step = "failed")
    /\ batch \cup seen \subseteq Readers(graph)
    /\ requests \subseteq Files /\ asked \subseteq Files
    /\ lastSize \in 0 .. Len(graph.readers)
    /\ wanted \subseteq Symbols
    /\ provided \subseteq Readers(graph) \X Symbols

\* What has been processed is complete, what has not been is as it was read,
\* and there is no cycle until one is refused.
CycleInv ==
    /\ step = "failed" => CycleIn(graph) \/ NotThere(graph)
    /\ step # "failed" =>
          /\ ~ CycleIn(graph)
          /\ \A r \in graph.processed : Complete(graph, r)
          /\ \A r \in Readers(graph) \ graph.processed : Fresh(graph, r)

\* A pass sees each reader there was when it began.
PassInv ==
    /\ step # "failed" => seen \subseteq graph.processed
    /\ step = "indirect" => 1 .. lastSize \subseteq seen \cup batch
    /\ step \notin {"indirect", "failed"} => batch = {}
    /\ step \in {"resolve", "done"} => Readers(graph) \subseteq graph.processed

\* What is linked is searched or in the table; what is searched is of the command
\* line or was asked for; who has provided a symbol was searched.
LinkInv ==
    /\ step = "input" =>
          /\ graph.implicit = {}
          /\ Len(graph.readers) <= Len(input.line)
          /\ Readers(graph) \subseteq Searched(graph)
    /\ graph.explicit \subseteq Searched(graph)
    /\ \A c \in graph.implicit \ Searched(graph) : ~ input.flat /\ c \in Named(graph)
    /\ \A c \in Searched(graph) :
          \/ c \in 1 .. Len(input.line)
          \/ c \in graph.implicit /\ FileOf(graph, c) \in asked
    /\ ~ input.flat => \A p \in provided :
          p[1] \in Searched(graph) \/ p[1] \in graph.implicit \cap Named(graph)

DylibInv == StateOK /\ CycleInv /\ PassInv /\ LinkInv

------------------------------------------------------------------------------
(***************************************************************************)
(* Each step keeps the invariant.                                          *)
(***************************************************************************)
LEMMA InitDylib == Init => DylibInv
<1> SUFFICES ASSUME Init  PROVE DylibInv
  OBVIOUS
<1>1. input \in DylibInputs /\ step = "input" /\ graph = NoGraph /\ batch = {}
      /\ seen = {} /\ lastSize = 0 /\ asked = {} /\ provided = {}
      /\ requests = input.autolinked /\ wanted = Symbols
  BY DEF Init
<1>2. input.autolinked \subseteq Files /\ Len(input.line) \in Nat
  BY <1>1, InputFields
<1>3. graph \in GraphRecords
  BY <1>1 DEF NoGraph, GraphRecords, NoReader
<1>4. /\ Readers(graph) = {} /\ Len(graph.readers) = 0 /\ Searched(graph) = {}
      /\ graph.explicit = {} /\ graph.implicit = {} /\ graph.processed = {}
      /\ graph.failed = FALSE /\ DOMAIN graph.dependents = {} /\ DOMAIN graph.searched = {}
      /\ \A n \in Paths : graph.byName[n] = NoReader
  BY <1>1 DEF NoGraph, Readers, Searched, Range
<1>5. GraphOK(graph)
  BY <1>3, <1>4 DEF GraphOK
<1>6. StateOK
  <2>1. graph.failed = (step = "failed")
    BY <1>1, <1>4
  <2>2. lastSize \in 0 .. Len(graph.readers)
    BY <1>1, <1>4
  <2>3. QED
    BY <1>1, <1>2, <1>4, <1>5, <2>1, <2>2 DEF StateOK
<1>7. CycleInv
  <2>1. \A S \in SUBSET Readers(graph) : S = {}
    BY <1>4
  <2>2. \A S \in (SUBSET Readers(graph)) \ {{}} : FALSE
    BY <2>1
  <2>3. ~ CycleIn(graph)
    BY <2>2 DEF CycleIn
  <2>4. QED
    BY <1>1, <1>4, <2>3 DEF CycleInv
<1>8. PassInv
  BY <1>1, <1>4 DEF PassInv
<1>9. LinkInv
  BY <1>1, <1>2, <1>4 DEF LinkInv
<1>10. QED
  BY <1>6, <1>7, <1>8, <1>9 DEF DylibInv

\* A dylib that is not indirect is searched too, and may be linked at once.
DirectlyAdded(g, f, linked) == [AddDirect(g, f) EXCEPT !.implicit = @ \cup linked]

LEMMA DirectAdded ==
    ASSUME input \in DylibInputs, NEW g, GraphOK(g), NEW f \in Files,
           NEW linked \in SUBSET {Len(g.readers) + 1},
           NEW h, h = DirectlyAdded(g, f, linked)
    PROVE  /\ GraphOK(h)
           /\ Grows(g, h)
           /\ Len(h.readers) = Len(g.readers) + 1
           /\ Readers(h) = Readers(g) \cup {Len(g.readers) + 1}
           /\ FileOf(h, Len(g.readers) + 1) = f
           /\ \A r \in Readers(g) : h.dependents[r] = g.dependents[r]
           /\ Searched(h) = Searched(g) \cup {Len(g.readers) + 1}
           /\ h.implicit = g.implicit \cup linked
           /\ h.failed = g.failed /\ h.processed = g.processed
<1> DEFINE new == Len(g.readers) + 1
           k == AddDylib(g, f)
<1>1. /\ GraphOK(k) /\ Grows(g, k) /\ Len(k.readers) = new
      /\ Readers(k) = Readers(g) \cup {new}
      /\ FileOf(k, new) = f
      /\ \A r \in Readers(g) : k.dependents[r] = g.dependents[r]
      /\ k.implicit = g.implicit /\ k.searched = g.searched
      /\ k.failed = g.failed /\ k.processed = g.processed
  BY DylibAdded
<1>2. h = [k EXCEPT !.searched = Append(@, new), !.implicit = @ \cup linked]
  <2> HIDE DEF k
  <2>1. k \in GraphRecords
    BY <1>1 DEF GraphOK
  <2>2. AddDirect(g, f) = [k EXCEPT !.searched = Append(@, new)]
    BY DEF AddDirect, k
  <2>3. QED
    BY <2>1, <2>2 DEF GraphRecords, DirectlyAdded
<1> HIDE DEF k
<1>3. k \in GraphRecords /\ new \in Nat /\ linked \in SUBSET Nat
      /\ k.searched \in Seq(Nat) /\ k.implicit \in SUBSET Nat
  <2>1. new \in Nat
    BY GraphFields
  <2>2. k \in GraphRecords
    BY <1>1 DEF GraphOK
  <2>3. QED
    BY <2>1, <2>2 DEF GraphRecords
<1> HIDE DEF new
<1>4. Append(k.searched, new) \in Seq(Nat) /\ k.implicit \cup linked \in SUBSET Nat
  <2>1. Append(k.searched, new) \in Seq(Nat)
    BY <1>3
  <2>2. k.implicit \cup linked \in SUBSET Nat
    BY <1>3
  <2>3. QED
    BY <2>1, <2>2
<1>5. /\ h.readers = k.readers /\ h.byName = k.byName /\ h.explicit = k.explicit
      /\ h.implicit = k.implicit \cup linked /\ h.searched = Append(k.searched, new)
      /\ h.dependents = k.dependents /\ h.failed = k.failed /\ h.processed = k.processed
  BY <1>2, <1>3 DEF GraphRecords
<1>6. h \in GraphRecords
  BY <1>2, <1>3, <1>4 DEF GraphRecords
<1>7. Readers(h) = Readers(k) /\ \A c : FileOf(h, c) = FileOf(k, c)
  BY <1>5 DEF Readers, FileOf
<1>8. /\ DOMAIN h.searched = DOMAIN k.searched \cup {Len(k.searched) + 1}
      /\ h.searched[Len(k.searched) + 1] = new
      /\ \A i \in DOMAIN k.searched : h.searched[i] = k.searched[i]
  <2>1. Len(k.searched) \in Nat /\ DOMAIN k.searched = 1 .. Len(k.searched)
    BY <1>3
  <2>2. DOMAIN h.searched = 1 .. (Len(k.searched) + 1)
        /\ h.searched[Len(k.searched) + 1] = new
        /\ \A i \in 1 .. Len(k.searched) : h.searched[i] = k.searched[i]
    BY <1>3, <1>5, <2>1
  <2>3. QED
    BY <2>1, <2>2
<1>9. Searched(h) = Searched(g) \cup {new}
  BY <1>1, <1>8 DEF Searched, Range
<1>10. \A c \in Readers(k) : (RowOK(k, c) => RowOK(h, c)) /\ (Fresh(k, c) => Fresh(h, c))
  BY <1>5, <1>7 DEF RowOK, Fresh
<1>11. GraphOK(h)
  <2>1. linked \subseteq Readers(h) /\ new \in Readers(h)
    BY <1>1, <1>7 DEF new
  <2>2. \A i \in DOMAIN h.searched : h.searched[i] \in Readers(h)
    BY <1>1, <1>7, <1>8, <2>1 DEF GraphOK
  <2>3. h.explicit \cup h.implicit \cup h.processed \subseteq Readers(h)
    BY <1>1, <1>5, <1>7, <2>1 DEF GraphOK
  <2>4. DOMAIN h.dependents = Readers(h)
        /\ \A n \in Paths : h.byName[n] \in Readers(h) \cup {NoReader}
    BY <1>1, <1>5, <1>7 DEF GraphOK
  <2>5. \A r \in Readers(h) : RowOK(h, r)
    BY <1>1, <1>7, <1>10 DEF GraphOK
  <2>6. QED
    BY <1>6, <2>2, <2>3, <2>4, <2>5 DEF GraphOK
<1>12. Grows(g, h)
  BY <1>1, <1>5, <1>7, <1>10 DEF Grows
<1>13. QED
  BY <1>1, <1>5, <1>7, <1>9, <1>11, <1>12 DEF new

\* A dylib that is added makes no cycle, and has still to be processed.
LEMMA AddedNoCycle ==
    ASSUME NEW g, NEW h, GraphOK(g), GraphOK(h), Grows(g, h), h.processed = g.processed,
           \A r \in Readers(g) : h.dependents[r] = g.dependents[r],
           ~ CycleIn(g),
           \A r \in g.processed : Complete(g, r),
           \A r \in Readers(g) \ g.processed : Fresh(g, r)
    PROVE  /\ ~ CycleIn(h)
           /\ \A r \in h.processed : Complete(h, r)
           /\ \A r \in Readers(h) \ h.processed : Fresh(h, r)
<1>1. ASSUME NEW S \in SUBSET Readers(h), S # {},
             \A c \in S : Children(h, c) \cap S # {}
      PROVE  FALSE
  <2>1. \A c \in S : c \in Readers(g)
    <3>1. ASSUME NEW c \in S, c \notin Readers(g)  PROVE FALSE
      <4>1. Fresh(h, c)
        BY <3>1 DEF Grows
      <4>2. Children(h, c) = {}
        BY <4>1 DEF Fresh, Children
      <4>3. QED
        BY <1>1, <4>2
    <3>2. QED
      BY <3>1
  <2>2. \A c \in S : Children(g, c) = Children(h, c)
    BY <2>1 DEF Children
  <2>3. QED
    BY <1>1, <2>1, <2>2 DEF CycleIn
<1>2. \A r \in g.processed : r \in Readers(g)
  BY DEF GraphOK
<1>3. \A r \in Readers(g) : (Complete(g, r) => Complete(h, r)) /\ (Fresh(g, r) => Fresh(h, r))
  BY DEF Complete, Fresh, Grows
<1>4. QED
  BY <1>1, <1>2, <1>3 DEF CycleIn, Grows

\* What was searched or linked when the graph grew still is.
LEMMA LinksStay ==
    ASSUME NEW g, NEW h, GraphOK(g), Grows(g, h), NEW c \in Readers(g)
    PROVE  /\ FileOf(h, c) = FileOf(g, c)
           /\ c \in Named(g) => c \in Named(h)
           /\ c \in g.implicit => c \in h.implicit
<1>1. c # NoReader
  BY GraphFields
<1>2. QED
  BY <1>1, NamedStays DEF Grows

\* The operators that read the input, while it does not change
LEMMA SameInput ==
    ASSUME input' = input
    PROVE  /\ GraphOK(graph)' <=> GraphOK(graph')
           /\ \A r : Fresh(graph, r)' <=> Fresh(graph', r)
           /\ NotThere(graph)' <=> NotThere(graph')
<1>1. \A r : RowOK(graph, r)' <=> RowOK(graph', r)
  BY DEF RowOK, FileOf, Readers
<1>2. GraphOK(graph)' <=> GraphOK(graph')
  BY <1>1 DEF GraphOK, Readers
<1>3. \A r : Fresh(graph, r)' <=> Fresh(graph', r)
  BY DEF Fresh, FileOf
<1>4. NotThere(graph)' <=> NotThere(graph')
  BY DEF NotThere, Readers, FileOf
<1>5. QED
  BY <1>2, <1>3, <1>4

\* A dylib that is read directly leaves the graph a record.
LEMMA DirectIsRecord ==
    ASSUME input \in DylibInputs, NEW g, GraphOK(g), NEW f \in Files
    PROVE  AddDirect(g, f) \in GraphRecords
<1> DEFINE new == Len(g.readers) + 1
           k == AddDylib(g, f)
<1>1. new \in Nat
  BY GraphFields
<1>2. k \in GraphRecords
  BY DylibAdded DEF GraphOK
<1>3. AddDirect(g, f) = [k EXCEPT !.searched = Append(k.searched, new)]
  BY DEF AddDirect
<1> HIDE DEF k, new
<1>4. Append(k.searched, new) \in Seq(Nat)
  BY <1>1, <1>2 DEF GraphRecords
<1>5. QED
  BY <1>2, <1>3, <1>4 DEF GraphRecords

\* Linking nothing more leaves the graph as it is.
LEMMA NothingLinked ==
    ASSUME NEW k \in GraphRecords
    PROVE  k = [k EXCEPT !.implicit = k.implicit \cup {}]
<1>1. k.implicit \cup {} = k.implicit
  OBVIOUS
<1>2. QED
  BY <1>1 DEF GraphRecords

LEMMA ReadDylibStep == DylibInv /\ ReadDylib => DylibInv'
<1> SUFFICES ASSUME DylibInv, ReadDylib  PROVE DylibInv'
  OBVIOUS
<1>1. StateOK /\ CycleInv /\ PassInv /\ LinkInv
  BY DEF DylibInv
<1>2. /\ step = "input" /\ step' = step /\ Len(graph.readers) < Len(input.line)
      /\ graph' = AddDirect(graph, input.line[Len(graph.readers) + 1])
      /\ UNCHANGED <<input, requests, asked, batch, seen, lastSize, wanted, provided>>
  BY DEF ReadDylib, loopVars, resolveVars
<1>3. input \in DylibInputs /\ GraphOK(graph) /\ ~ graph.failed
      /\ graph.failed = FALSE
  BY <1>1, <1>2 DEF StateOK
<1>4. /\ Len(graph.readers) \in Nat /\ Readers(graph) = 1 .. Len(graph.readers)
      /\ input.line \in Seq(Files) /\ Len(input.line) \in Nat
  BY <1>3, GraphFields, InputFields
<1> DEFINE new == Len(graph.readers) + 1
           f == input.line[new]
<1>5. f \in Files
  BY <1>2, <1>4
<1>6. graph' = DirectlyAdded(graph, f, {})
  <2> DEFINE k == AddDirect(graph, f)
  <2>1. k \in GraphRecords
    BY <1>3, <1>5, DirectIsRecord
  <2>2. graph' = k
    BY <1>2
  <2>3. DirectlyAdded(graph, f, {}) = [k EXCEPT !.implicit = k.implicit \cup {}]
    BY DEF DirectlyAdded
  <2> HIDE DEF k
  <2>4. QED
    BY <2>1, <2>2, <2>3, NothingLinked
<1>7. /\ GraphOK(graph)' /\ Grows(graph, graph') /\ Len(graph.readers)' = new
      /\ Readers(graph') = Readers(graph) \cup {new}
      /\ \A r \in Readers(graph) : graph'.dependents[r] = graph.dependents[r]
      /\ Searched(graph') = Searched(graph) \cup {new}
      /\ graph'.implicit = graph.implicit
      /\ graph'.failed = graph.failed /\ graph'.processed = graph.processed
  <2> DEFINE h == graph'
             linked == {}
  <2>1. linked \in SUBSET {Len(graph.readers) + 1}
        /\ h = DirectlyAdded(graph, f, linked)
    BY <1>6
  <2> HIDE DEF h, f, linked
  <2>2. /\ GraphOK(h) /\ Grows(graph, h) /\ Len(h.readers) = new
        /\ Readers(h) = Readers(graph) \cup {new}
        /\ \A r \in Readers(graph) : h.dependents[r] = graph.dependents[r]
        /\ Searched(h) = Searched(graph) \cup {new}
        /\ h.implicit = graph.implicit \cup linked
        /\ h.failed = graph.failed /\ h.processed = graph.processed
    BY <1>3, <1>5, <2>1, DirectAdded
  <2>3. QED
    BY <1>2, <2>2, SameInput DEF h, linked
<1>8. StateOK'
  <2>1. \A p \in provided : p \in Readers(graph') \X Symbols
    BY <1>1, <1>7 DEF StateOK
  <2>2. lastSize' \in 0 .. Len(graph'.readers)
    BY <1>1, <1>2, <1>4, <1>7 DEF StateOK
  <2>3. QED
    BY <1>1, <1>2, <1>7, <2>1, <2>2 DEF StateOK
<1>9. CycleInv'
  <2>1. /\ ~ CycleIn(graph) /\ \A r \in graph.processed : Complete(graph, r)
        /\ \A r \in Readers(graph) \ graph.processed : Fresh(graph, r)
    BY <1>1, <1>2 DEF CycleInv
  <2> DEFINE h == graph'
  <2>2. GraphOK(h)
    BY <1>2, <1>7, SameInput
  <2>3. GraphOK(h) /\ Grows(graph, h) /\ h.processed = graph.processed
        /\ \A r \in Readers(graph) : h.dependents[r] = graph.dependents[r]
    BY <1>7, <2>2
  <2> HIDE DEF h
  <2>4. /\ ~ CycleIn(h) /\ \A r \in h.processed : Complete(h, r)
        /\ \A r \in Readers(h) \ h.processed : Fresh(h, r)
    BY <1>3, <2>1, <2>3, AddedNoCycle
  <2>5. QED
    BY <1>2, <2>4, SameInput DEF h, CycleInv
<1>10. PassInv'
  BY <1>1, <1>2, <1>7 DEF PassInv
<1>11. LinkInv'
  <2>1. Len(graph'.readers) <= Len(input.line) /\ new \in 1 .. Len(input.line)
    BY <1>2, <1>4, <1>7
  <2>2. \A c \in Readers(graph) : FileOf(graph', c) = FileOf(graph, c)
    BY <1>7 DEF Grows
  <2>3. graph'.explicit = graph.explicit /\ Searched(graph) \subseteq Readers(graph)
    BY <1>3, <1>7 DEF Grows, GraphOK, Searched, Range
  <2>4. graph.implicit = {}
    BY <1>1, <1>2 DEF LinkInv
  <2>5. QED
    BY <1>1, <1>2, <1>7, <2>1, <2>2, <2>3, <2>4 DEF LinkInv, Searched
<1>12. QED
  BY <1>8, <1>9, <1>10, <1>11 DEF DylibInv

LEMMA MarkExplicitlyLinkedDylibsStep ==
    DylibInv /\ MarkExplicitlyLinkedDylibs => DylibInv'
<1> SUFFICES ASSUME DylibInv, MarkExplicitlyLinkedDylibs  PROVE DylibInv'
  OBVIOUS
<1>1. StateOK /\ CycleInv /\ PassInv /\ LinkInv
  BY DEF DylibInv
<1>2. /\ step = "input" /\ step' = "autolink"
      /\ graph' = [graph EXCEPT !.explicit = Named(graph) \ {NoReader}]
      /\ UNCHANGED <<input, requests, asked, batch, seen, lastSize, wanted, provided>>
  BY DEF MarkExplicitlyLinkedDylibs, loopVars, resolveVars, Named
<1>3. input \in DylibInputs /\ GraphOK(graph) /\ graph.failed = FALSE
  BY <1>1, <1>2 DEF StateOK
<1>4. /\ graph \in GraphRecords /\ Named(graph) \ {NoReader} \subseteq Readers(graph)
      /\ Readers(graph) \subseteq Nat
  <2>1. Named(graph) \ {NoReader} \subseteq Readers(graph)
    BY <1>3 DEF GraphOK, Named
  <2>2. Len(graph.readers) \in Nat /\ Readers(graph) = 1 .. Len(graph.readers)
    BY <1>3, GraphFields
  <2>3. QED
    BY <1>3, <2>1, <2>2 DEF GraphOK
<1>5. /\ graph'.readers = graph.readers /\ graph'.byName = graph.byName
      /\ graph'.explicit = Named(graph) \ {NoReader}
      /\ graph'.implicit = graph.implicit /\ graph'.searched = graph.searched
      /\ graph'.dependents = graph.dependents
      /\ graph'.failed = graph.failed /\ graph'.processed = graph.processed
      /\ graph' \in GraphRecords
  <2> DEFINE linked == Named(graph) \ {NoReader}
  <2>1. linked \in SUBSET Nat
    BY <1>4
  <2> HIDE DEF linked
  <2>2. graph' = [graph EXCEPT !.explicit = linked]
    BY <1>2 DEF linked
  <2>3. QED
    BY <1>4, <2>1, <2>2 DEF GraphRecords, linked
<1>6. /\ Readers(graph') = Readers(graph) /\ Named(graph') = Named(graph)
      /\ Searched(graph') = Searched(graph)
      /\ \A r : /\ FileOf(graph', r) = FileOf(graph, r)
                /\ Children(graph', r) = Children(graph, r)
                /\ RowOK(graph', r) <=> RowOK(graph, r)
                /\ Fresh(graph', r) <=> Fresh(graph, r)
                /\ Complete(graph', r) <=> Complete(graph, r)
  BY <1>5 DEF Readers, Named, Searched, FileOf, Children, RowOK, Fresh, Complete
<1>7. GraphOK(graph')
  BY <1>3, <1>4, <1>5, <1>6 DEF GraphOK
<1>8. StateOK'
  BY <1>1, <1>2, <1>3, <1>5, <1>6, <1>7, SameInput DEF StateOK
<1>9. CycleInv'
  <2>1. CycleIn(graph') <=> CycleIn(graph)
    BY <1>6 DEF CycleIn
  <2>2. QED
    BY <1>1, <1>2, <1>5, <1>6, <2>1, SameInput DEF CycleInv
<1>10. PassInv'
  BY <1>1, <1>2, <1>5 DEF PassInv
<1>11. LinkInv'
  <2>1. Readers(graph) \subseteq Searched(graph)
    BY <1>1, <1>2 DEF LinkInv
  <2>2. QED
    BY <1>1, <1>2, <1>4, <1>5, <1>6, <2>1 DEF LinkInv
<1>12. QED
  BY <1>8, <1>9, <1>10, <1>11 DEF DylibInv

LEMMA AddLinkerOptionLibraryStep ==
    ASSUME DylibInv, NEW f \in Files, AddLinkerOptionLibrary(f)
    PROVE  DylibInv'
<1>1. StateOK /\ CycleInv /\ PassInv /\ LinkInv
  BY DEF DylibInv
<1>2. /\ step = "autolink" /\ step' = step
      /\ requests' = requests \ {f} /\ asked' = asked \cup {f}
      /\ UNCHANGED <<input, batch, seen, lastSize, wanted, provided>>
  BY DEF AddLinkerOptionLibrary, loopVars, resolveVars
<1>3. input \in DylibInputs /\ GraphOK(graph) /\ graph.failed = FALSE
  BY <1>1, <1>2 DEF StateOK
<1>4. CASE graph' = graph
  <2>1. GraphOK(graph')
    BY <1>3, <1>4
  <2>2. StateOK'
    BY <1>1, <1>2, <1>4, <2>1, SameInput DEF StateOK
  <2>3. CycleInv'
    BY <1>1, <1>2, <1>4, SameInput DEF CycleInv
  <2>4. PassInv'
    BY <1>1, <1>2, <1>4 DEF PassInv
  <2>5. LinkInv'
    BY <1>1, <1>2, <1>4 DEF LinkInv
  <2>6. QED
    BY <2>2, <2>3, <2>4, <2>5 DEF DylibInv
<1>5. CASE graph' = [AddDirect(graph, f) EXCEPT !.implicit = @ \cup {Len(graph.readers) + 1}]
  <2> DEFINE new == Len(graph.readers) + 1
             h == graph'
  <2>1. h = DirectlyAdded(graph, f, {Len(graph.readers) + 1})
    BY <1>5 DEF DirectlyAdded
  <2> HIDE DEF h
  <2>2. /\ GraphOK(h) /\ Grows(graph, h) /\ Len(h.readers) = new
        /\ Readers(h) = Readers(graph) \cup {new} /\ FileOf(h, new) = f
        /\ \A r \in Readers(graph) : h.dependents[r] = graph.dependents[r]
        /\ Searched(h) = Searched(graph) \cup {new}
        /\ h.implicit = graph.implicit \cup {new}
        /\ h.failed = graph.failed /\ h.processed = graph.processed
    BY <1>3, <2>1, DirectAdded
  <2>3. Len(graph.readers) \in Nat /\ Readers(graph) = 1 .. Len(graph.readers)
    BY <1>3, GraphFields
  <2>4. StateOK'
    <3>1. \A p \in provided : p \in Readers(h) \X Symbols
      BY <1>1, <2>2 DEF StateOK
    <3>2. lastSize \in 0 .. Len(h.readers)
      BY <1>1, <2>2, <2>3 DEF StateOK
    <3>3. GraphOK(graph)'
      BY <1>2, <2>2, SameInput DEF h
    <3>4. QED
      BY <1>1, <1>2, <1>3, <2>2, <3>1, <3>2, <3>3 DEF StateOK, h
  <2>5. CycleInv'
    <3>1. /\ ~ CycleIn(graph) /\ \A r \in graph.processed : Complete(graph, r)
          /\ \A r \in Readers(graph) \ graph.processed : Fresh(graph, r)
      BY <1>1, <1>2 DEF CycleInv
    <3>2. /\ ~ CycleIn(h) /\ \A r \in h.processed : Complete(h, r)
          /\ \A r \in Readers(h) \ h.processed : Fresh(h, r)
      BY <1>3, <2>2, <3>1, AddedNoCycle
    <3>3. QED
      BY <1>2, <3>2, SameInput DEF h, CycleInv
  <2>6. PassInv'
    BY <1>1, <1>2, <2>2 DEF PassInv, h
  <2>7. LinkInv'
    <3>1. \A c \in Readers(graph) : /\ FileOf(h, c) = FileOf(graph, c)
                                    /\ c \in Named(graph) => c \in Named(h)
      BY <1>3, <2>2, LinksStay
    <3>2. h.explicit = graph.explicit /\ Searched(graph) \subseteq Readers(graph)
          /\ graph.implicit \subseteq Readers(graph)
          /\ \A p \in provided : p[1] \in Readers(graph)
      BY <1>1, <1>3, <2>2 DEF Grows, GraphOK, Searched, Range, StateOK
    <3>3. h.explicit \subseteq Searched(h)
      BY <1>1, <2>2, <3>2 DEF LinkInv
    <3>4. \A c \in h.implicit \ Searched(h) : ~ input.flat /\ c \in Named(h)
      BY <1>1, <2>2, <3>1, <3>2 DEF LinkInv
    <3>5. \A c \in Searched(h) :
             \/ c \in 1 .. Len(input.line)
             \/ c \in h.implicit /\ FileOf(h, c) \in asked \cup {f}
      BY <1>1, <2>2, <3>1, <3>2 DEF LinkInv
    <3>6. ~ input.flat => \A p \in provided :
             p[1] \in Searched(h) \/ p[1] \in h.implicit \cap Named(h)
      BY <1>1, <2>2, <3>1, <3>2 DEF LinkInv
    <3>7. QED
      BY <1>2, <3>3, <3>4, <3>5, <3>6 DEF LinkInv, h
  <2>8. QED
    BY <2>4, <2>5, <2>6, <2>7 DEF DylibInv
<1>6. QED
  BY <1>4, <1>5 DEF AddLinkerOptionLibrary

LEMMA ProcessDylibStep ==
    ASSUME DylibInv, NEW r \in batch, ProcessDylib(r)
    PROVE  DylibInv'
<1>1. StateOK /\ CycleInv /\ PassInv /\ LinkInv
  BY DEF DylibInv
<1> DEFINE h == graph'
<1>2. /\ step = "indirect" /\ batch' = batch \ {r} /\ seen' = seen \cup {r}
      /\ h = ProcessIndirectLibraries(graph, r)
      /\ step' = IF h.failed THEN "failed" ELSE step
      /\ UNCHANGED <<input, requests, asked, lastSize, wanted, provided>>
  BY DEF ProcessDylib, resolveVars
<1>3. input \in DylibInputs /\ GraphOK(graph) /\ graph.failed = FALSE /\ r \in Readers(graph)
  BY <1>1, <1>2 DEF StateOK
<1>4. /\ ~ CycleIn(graph) /\ \A c \in graph.processed : Complete(graph, c)
      /\ \A c \in Readers(graph) \ graph.processed : Fresh(graph, c)
  BY <1>1, <1>2 DEF CycleInv
<1> HIDE DEF h
<1>5. /\ GraphOK(h)
      /\ Grows(graph, h)
      /\ h.searched = graph.searched
      /\ \A c \in Readers(graph) \ {r} : h.dependents[c] = graph.dependents[c]
      /\ \A c \in h.implicit \ graph.implicit : ~ input.flat /\ c \in Named(h)
      /\ h.failed => NotThere(h) \/ CycleIn(h)
      /\ ~ h.failed => /\ h.processed = graph.processed \cup {r}
                       /\ Complete(h, r)
                       /\ ~ CycleIn(h)
  BY <1>2, <1>3, <1>4, DylibProcessed
<1>6. /\ Readers(graph) \subseteq Readers(h) /\ h.explicit = graph.explicit
      /\ graph.implicit \subseteq h.implicit /\ Searched(h) = Searched(graph)
      /\ Searched(graph) \subseteq Readers(graph) /\ graph.implicit \subseteq Readers(graph)
  BY <1>3, <1>5 DEF Grows, Searched, Range, GraphOK
<1>7. Len(graph.readers) <= Len(h.readers)
      /\ Len(graph.readers) \in Nat /\ Len(h.readers) \in Nat
  <2>1. /\ Len(graph.readers) \in Nat /\ Len(h.readers) \in Nat
        /\ 1 .. Len(graph.readers) \subseteq 1 .. Len(h.readers)
    BY <1>3, <1>5, <1>6, GraphFields
  <2>2. QED
    BY <2>1
<1>8. StateOK'
  <2>1. h.failed \in BOOLEAN
    BY <1>5, GraphFields
  <2>2. \A p \in provided : p \in Readers(h) \X Symbols
    BY <1>1, <1>6 DEF StateOK
  <2>3. lastSize \in 0 .. Len(h.readers)
    BY <1>1, <1>7 DEF StateOK
  <2>4. GraphOK(graph)'
    BY <1>2, <1>5, SameInput DEF h
  <2>5. h.failed = (step' = "failed")
    BY <1>2, <2>1
  <2>6. QED
    BY <1>1, <1>2, <1>3, <1>6, <2>2, <2>3, <2>4, <2>5 DEF StateOK, h
<1>9. CycleInv'
  <2>1. ASSUME ~ h.failed
        PROVE  /\ \A c \in h.processed : Complete(h, c)
               /\ \A c \in Readers(h) \ h.processed : Fresh(h, c)
    <3>1. \A c \in graph.processed \ {r} : Complete(h, c)
      BY <1>3, <1>4, <1>5 DEF GraphOK, Complete
    <3>2. \A c \in Readers(graph) \ h.processed : Fresh(h, c)
      BY <1>4, <1>5, <2>1 DEF Grows, Fresh
    <3>3. QED
      BY <1>5, <2>1, <3>1, <3>2 DEF Grows
  <2>2. QED
    BY <1>2, <1>5, <2>1, SameInput DEF h, CycleInv
<1>10. PassInv'
  <2>1. \A c \in 1 .. lastSize : c \in seen \cup batch
    BY <1>1, <1>2 DEF PassInv
  <2>2. QED
    BY <1>1, <1>2, <1>5, <2>1 DEF PassInv, h
<1>11. LinkInv'
  <2>1. \A c \in Readers(graph) : /\ FileOf(h, c) = FileOf(graph, c)
                                  /\ c \in Named(graph) => c \in Named(h)
    BY <1>3, <1>5, LinksStay
  <2>2. \A p \in provided : p[1] \in Readers(graph)
    BY <1>1 DEF StateOK
  <2>3. h.explicit \subseteq Searched(h)
    BY <1>1, <1>6 DEF LinkInv
  <2>4. \A c \in h.implicit \ Searched(h) : ~ input.flat /\ c \in Named(h)
    BY <1>1, <1>5, <1>6, <2>1 DEF LinkInv
  <2>5. \A c \in Searched(h) :
            \/ c \in 1 .. Len(input.line)
            \/ c \in h.implicit /\ FileOf(h, c) \in asked
    BY <1>1, <1>6, <2>1 DEF LinkInv
  <2>6. ~ input.flat => \A p \in provided :
            p[1] \in Searched(h) \/ p[1] \in h.implicit \cap Named(h)
    BY <1>1, <1>6, <2>1, <2>2 DEF LinkInv
  <2>7. QED
    BY <1>2, <2>3, <2>4, <2>5, <2>6 DEF LinkInv, h
<1>12. QED
  BY <1>8, <1>9, <1>10, <1>11 DEF DylibInv

\* While the graph stays, so do its parts of the invariant.
LEMMA GraphStays ==
    ASSUME StateOK, CycleInv, LinkInv, UNCHANGED <<input, graph>>,
           step # "failed", step' # "failed", step' # "input",
           asked' = asked, provided' = provided
    PROVE  GraphOK(graph)' /\ CycleInv' /\ LinkInv'
<1>1. GraphOK(graph)'
  BY SameInput DEF StateOK
<1>2. CycleInv'
  BY SameInput DEF CycleInv
<1>3. LinkInv'
  BY DEF LinkInv
<1>4. QED
  BY <1>1, <1>2, <1>3

\* The steps of the passes and of the link that leave the graph alone
LEMMA PassSteps ==
    DylibInv /\ (EndLinkerOptions \/ StartPass \/ EndIndirect \/ LoadMember \/ EndResolve)
       => DylibInv'
<1> SUFFICES ASSUME DylibInv,
                    EndLinkerOptions \/ StartPass \/ EndIndirect \/ LoadMember \/ EndResolve
             PROVE  DylibInv'
  OBVIOUS
<1>1. StateOK /\ CycleInv /\ PassInv /\ LinkInv
  BY DEF DylibInv
<1>2. UNCHANGED <<input, graph, asked, provided, wanted>>
  BY DEF EndLinkerOptions, StartPass, EndIndirect, LoadMember, EndResolve, loopVars,
         resolveVars
<1>3. step # "failed" /\ step' # "failed" /\ step' # "input"
      /\ step' \in {"autolink", "indirect", "resolve", "done"}
  BY DEF EndLinkerOptions, StartPass, EndIndirect, LoadMember, EndResolve
<1>4. GraphOK(graph)' /\ CycleInv' /\ LinkInv'
  BY <1>1, <1>2, <1>3, GraphStays
<1>5. /\ input \in DylibInputs /\ Len(graph.readers) \in Nat
      /\ Readers(graph) = 1 .. Len(graph.readers)
  BY <1>1, GraphFields DEF StateOK
<1>6. requests' \subseteq Files
  <2>1. input.autolinkedLate \subseteq Files
    BY <1>5, InputFields
  <2>2. CASE LoadMember
    BY <2>1, <2>2 DEF LoadMember
  <2>3. CASE ~ LoadMember
    BY <1>1, <2>3 DEF StateOK, EndLinkerOptions, StartPass, EndIndirect, EndResolve, loopVars
  <2>4. QED
    BY <2>2, <2>3
<1>7. /\ batch' \cup seen' \subseteq Readers(graph)
      /\ lastSize' \in 0 .. Len(graph.readers) /\ PassInv'
  <2>1. CASE EndLinkerOptions
    BY <1>1, <1>2, <1>3, <1>5, <2>1 DEF StateOK, PassInv, EndLinkerOptions
  <2>2. CASE StartPass
    BY <1>1, <1>2, <1>3, <1>5, <2>2 DEF StateOK, PassInv, StartPass
  <2>3. CASE EndIndirect
    BY <1>1, <1>2, <1>3, <1>5, <2>3 DEF StateOK, PassInv, EndIndirect, loopVars
  <2>4. CASE LoadMember
    BY <1>1, <1>2, <1>3, <1>5, <2>4 DEF StateOK, PassInv, LoadMember, loopVars
  <2>5. CASE EndResolve
    BY <1>1, <1>2, <1>3, <1>5, <2>5 DEF StateOK, PassInv, EndResolve, loopVars
  <2>6. QED
    BY <2>1, <2>2, <2>3, <2>4, <2>5
<1>8. StateOK'
  BY <1>1, <1>2, <1>3, <1>4, <1>6, <1>7 DEF StateOK
<1>9. QED
  BY <1>4, <1>7, <1>8 DEF DylibInv

\* Who answers is searched, or is linked and in the table.
LEMMA WhoAnswers ==
    ASSUME NEW g, GraphOK(g), NEW n, NEW r \in Answers(g, n)
    PROVE  /\ r \in Readers(g)
           /\ ~ input.flat => r \in Searched(g) \/ r \in g.implicit \cap Named(g)
<1> DEFINE direct == {i \in DOMAIN g.searched : Finds(g, g.searched[i], n)}
<1>1. CASE direct # {}
  <2>1. r = g.searched[CHOOSE i \in direct : \A j \in direct : i <= j]
    BY <1>1 DEF Answers
  <2>2. g.searched \in Seq(Nat)
    BY DEF GraphOK, GraphRecords
  <2>3. Len(g.searched) \in Nat /\ DOMAIN g.searched = 1 .. Len(g.searched)
    BY <2>2
  <2>4. direct \in SUBSET (0 .. Len(g.searched))
    BY <2>3
  <2>5. \E i \in direct : \A j \in direct : i <= j
    <3> HIDE DEF direct
    <3>1. QED
      BY <1>1, <2>3, <2>4, LeastIndex
  <2>6. (CHOOSE i \in direct : \A j \in direct : i <= j) \in DOMAIN g.searched
    BY <2>5
  <2>7. QED
    BY <2>1, <2>6 DEF GraphOK, Searched, Range
<1>2. CASE direct = {}
  <2>1. r \in SearchedIndirectly(g)
    BY <1>2 DEF Answers
  <2>2. QED
    BY <2>1 DEF SearchedIndirectly, Named, GraphOK
<1>3. QED
  BY <1>1, <1>2

LEMMA SearchStep ==
    ASSUME DylibInv, NEW n \in Symbols, Search(n)
    PROVE  DylibInv'
<1>1. StateOK /\ CycleInv /\ PassInv /\ LinkInv
  BY DEF DylibInv
<1>2. /\ step = "resolve" /\ step' = step /\ wanted' = wanted \ {n}
      /\ UNCHANGED <<input, graph, requests, asked, batch, seen, lastSize>>
  BY DEF Search, loopVars
<1>3. GraphOK(graph)
  BY <1>1 DEF StateOK
<1>4. \A p \in provided' : p \in provided \/
         \E r \in Answers(graph, n) : p = <<r, n>>
  BY DEF Search
<1>5. \A p \in provided' :
         /\ p \in Readers(graph) \X Symbols
         /\ ~ input.flat => p[1] \in Searched(graph) \/ p[1] \in graph.implicit \cap Named(graph)
  <2>1. ASSUME NEW p \in provided
        PROVE  /\ p \in Readers(graph) \X Symbols
               /\ ~ input.flat => p[1] \in Searched(graph)
                                  \/ p[1] \in graph.implicit \cap Named(graph)
    BY <1>1 DEF StateOK, LinkInv
  <2>2. ASSUME NEW p, NEW r \in Answers(graph, n), p = <<r, n>>
        PROVE  /\ p \in Readers(graph) \X Symbols
               /\ ~ input.flat => p[1] \in Searched(graph)
                                  \/ p[1] \in graph.implicit \cap Named(graph)
    BY <1>3, <2>2, WhoAnswers
  <2>3. QED
    BY <1>4, <2>1, <2>2
<1>6. StateOK'
  <2>1. GraphOK(graph)'
    BY <1>2, <1>3, SameInput
  <2>2. QED
    BY <1>1, <1>2, <1>5, <2>1 DEF StateOK
<1>7. CycleInv'
  BY <1>1, <1>2, SameInput DEF CycleInv
<1>8. PassInv'
  BY <1>1, <1>2 DEF PassInv
<1>9. LinkInv'
  BY <1>1, <1>2, <1>5 DEF LinkInv
<1>10. QED
  BY <1>6, <1>7, <1>8, <1>9 DEF DylibInv

LEMMA NextDylib == DylibInv /\ [Next]_vars => DylibInv'
<1> SUFFICES ASSUME DylibInv, [Next]_vars  PROVE DylibInv'
  OBVIOUS
<1>1. CASE UNCHANGED vars
  <2>1. UNCHANGED <<input, graph>>
    BY <1>1 DEF vars
  <2>2. GraphOK(graph)' <=> GraphOK(graph)
    BY <2>1, SameInput
  <2>3. StateOK'
    BY <1>1, <2>2 DEF DylibInv, StateOK, vars
  <2>4. CycleInv'
    BY <1>1, <2>1, SameInput DEF DylibInv, CycleInv, vars
  <2>5. PassInv' /\ LinkInv'
    BY <1>1 DEF DylibInv, PassInv, LinkInv, vars
  <2>6. QED
    BY <2>3, <2>4, <2>5 DEF DylibInv
<1>2. CASE Finished
  BY <1>1, <1>2 DEF Finished
<1>3. CASE Advance
  BY <1>3, ReadDylibStep, MarkExplicitlyLinkedDylibsStep, AddLinkerOptionLibraryStep,
     PassSteps, ProcessDylibStep, SearchStep DEF Advance
<1>4. QED
  BY <1>1, <1>2, <1>3 DEF Next

LEMMA DylibInvariance == Spec => []DylibInv
  BY InitDylib, NextDylib, PTL DEF Spec

------------------------------------------------------------------------------
(***************************************************************************)
(* What the invariant implies.                                             *)
(***************************************************************************)
LEMMA InvCycles == DylibInv => CyclesAreRefused
<1> SUFFICES ASSUME DylibInv  PROVE CyclesAreRefused
  OBVIOUS
<1>1. StateOK /\ CycleInv /\ PassInv
  BY DEF DylibInv
<1>2. DylibTypeOK
  BY <1>1 DEF StateOK, DylibTypeOK, GraphOK, Linked, Range
<1>3. HasCycle <=> CycleIn(graph)
  BY DEF HasCycle, CycleIn
<1>4. NoCycleIsSearched
  BY <1>1, <1>3 DEF CycleInv, PassInv, NoCycleIsSearched, Complete
<1>5. RefusedForCause
  <2>1. ASSUME NotThere(graph)
        PROVE  \E f \in Range(graph.readers) : \E i \in DOMAIN input.dependents[f] :
                  input.at[input.dependents[f][i].path] = NoFile
    <3>1. \A r \in Readers(graph) : FileOf(graph, r) \in Range(graph.readers)
      BY DEF Range, Readers, FileOf
    <3>2. QED
      BY <2>1, <3>1 DEF NotThere
  <2>2. QED
    BY <1>1, <1>3, <2>1 DEF CycleInv, RefusedForCause
<1>6. QED
  BY <1>2, <1>4, <1>5 DEF CyclesAreRefused

\* Whatever dylibs re-export each other: a link ends in an error only for a cycle
\* or a dylib that is not there, and no search meets a cycle or a dylib not found.
THEOREM CyclesRefused == Spec => []CyclesAreRefused
  BY DylibInvariance, InvCycles, PTL

\* A search along re-exports, as a function, has a value.
IsSearch(t, D, hidden, own, ch) ==
    t = [c \in D |-> c \notin hidden /\ (c \in own \/ \E k \in ch[c] : t[k])]

LEMMA SearchExists ==
    ASSUME NEW D, NEW hidden, NEW own, NEW ch, \A c \in D : ch[c] \subseteq D
    PROVE  \E t : IsSearch(t, D, hidden, own, ch)
<1> DEFINE Has(A, c) == c \notin hidden /\ (c \in own \/ \E k \in ch[c] : k \in A)
           F == [A \in SUBSET D |-> {c \in D : Has(A, c)}]
<1>1. PICK X \in SUBSET D : F[X] = X
  <2>1. F \in [SUBSET D -> SUBSET D]
    OBVIOUS
  <2>2. \A A, B \in SUBSET D : A \subseteq B => F[A] \subseteq F[B]
    OBVIOUS
  <2> HIDE DEF F
  <2>3. QED
    BY <2>1, <2>2, FixedPoint
<1> DEFINE t == [c \in D |-> c \in X]
           Has2(c) == c \notin hidden /\ (c \in own \/ \E k \in ch[c] : t[k])
<1>2. ASSUME NEW c \in D  PROVE (c \in X) = Has2(c)
  <2>1. c \in X <=> Has(X, c)
    BY <1>1
  <2>2. \A k \in ch[c] : t[k] <=> k \in X
    OBVIOUS
  <2> HIDE DEF t
  <2>3. c \in X <=> Has2(c)
    BY <2>1, <2>2
  <2>4. Has2(c) \in BOOLEAN /\ (c \in X) \in BOOLEAN
    OBVIOUS
  <2> HIDE DEF Has2
  <2>5. QED
    BY <2>3, <2>4
<1>3. t = [c \in D |-> Has2(c)]
  <2> HIDE DEF Has2
  <2>1. QED
    BY <1>2, Zenon
<1>4. IsSearch(t, D, hidden, own, ch)
  BY <1>3 DEF IsSearch
<1> HIDE DEF t
<1>5. QED
  BY <1>4

\* containsOrReExports(), unfolded
LEMMA FindsUnfolded ==
    ASSUME NEW g, GraphOK(g), NEW n, NEW r \in Readers(g)
    PROVE  Finds(g, r, n) <=>
              /\ n \notin input.ignored[FileOf(g, r)]
              /\ \/ n \in input.exports[FileOf(g, r)]
                 \/ \E child \in Children(g, r) \ g.implicit : Finds(g, child, n)
<1> DEFINE Loop(f) == f = [c \in Readers(g) |->
                              /\ n \notin input.ignored[FileOf(g, c)]
                              /\ \/ n \in input.exports[FileOf(g, c)]
                                 \/ \E child \in Children(g, c) \ g.implicit : f[child]]
           finds == CHOOSE f : Loop(f)
           D == Readers(g)
           hidden == {c \in D : n \in input.ignored[FileOf(g, c)]}
           own == {c \in D : n \in input.exports[FileOf(g, c)]}
           ch == [c \in D |-> Children(g, c) \ g.implicit]
<1>1. \A c \in D : ch[c] \subseteq D
  BY GraphFields DEF ChildrenAreReaders
<1>2. PICK t : IsSearch(t, D, hidden, own, ch)
  <2> HIDE DEF D, hidden, own, ch
  <2>1. QED
    BY <1>1, SearchExists
<1>3. Loop(t)
  BY <1>2 DEF IsSearch
<1>4. Loop(finds)
  BY <1>3
<1>5. \A c : Finds(g, c, n) = finds[c]
  BY DEF Finds
<1> HIDE DEF finds
<1>6. finds[r] <=> /\ n \notin input.ignored[FileOf(g, r)]
                   /\ \/ n \in input.exports[FileOf(g, r)]
                      \/ \E child \in Children(g, r) \ g.implicit : finds[child]
  BY <1>4
<1>7. QED
  BY <1>5, <1>6

\* What a dylib shows, unfolded
LEMMA ShowsUnfolded ==
    ASSUME GraphOK(graph), NEW n, NEW r \in Readers(graph)
    PROVE  Shows(r, n) <=>
              /\ n \notin input.ignored[FileOf(graph, r)]
              /\ \/ n \in input.exports[FileOf(graph, r)]
                 \/ \E child \in Children(graph, r) : Shows(child, n)
<1> DEFINE Loop(f) == f = [c \in Readers(graph) |->
                              /\ n \notin input.ignored[FileOf(graph, c)]
                              /\ \/ n \in input.exports[FileOf(graph, c)]
                                 \/ \E child \in Children(graph, c) : f[child]]
           shows == CHOOSE f : Loop(f)
           D == Readers(graph)
           hidden == {c \in D : n \in input.ignored[FileOf(graph, c)]}
           own == {c \in D : n \in input.exports[FileOf(graph, c)]}
           ch == [c \in D |-> Children(graph, c)]
<1>1. \A c \in D : ch[c] \subseteq D
  BY GraphFields DEF ChildrenAreReaders
<1>2. PICK t : IsSearch(t, D, hidden, own, ch)
  <2> HIDE DEF D, hidden, own, ch
  <2>1. QED
    BY <1>1, SearchExists
<1>3. Loop(t)
  BY <1>2 DEF IsSearch
<1>4. Loop(shows)
  BY <1>3
<1>5. \A c : Shows(c, n) = shows[c]
  BY DEF Shows
<1> HIDE DEF shows
<1>6. shows[r] <=> /\ n \notin input.ignored[FileOf(graph, r)]
                   /\ \/ n \in input.exports[FileOf(graph, r)]
                      \/ \E child \in Children(graph, r) : shows[child]
  BY <1>4
<1>7. QED
  BY <1>5, <1>6

LEMMA InvShown == DylibInv => ShownIsFound
<1> SUFFICES ASSUME DylibInv, step \in {"resolve", "done"}, NEW n \in Symbols,
                    NEW r \in Range(graph.searched), Shows(r, n), Answers(graph, n) = {}
             PROVE  FALSE
  BY DEF ShownIsFound
<1>1. GraphOK(graph) /\ ~ CycleIn(graph) /\ LinkInv
  BY DEF DylibInv, StateOK, CycleInv
<1>2. \A c \in Searched(graph) : ~ Finds(graph, c, n)
  <2> DEFINE direct == {i \in DOMAIN graph.searched : Finds(graph, graph.searched[i], n)}
  <2>1. direct = {}
    BY DEF Answers
  <2>2. QED
    BY <2>1 DEF Searched, Range
<1>3. \A c \in SearchedIndirectly(graph) : ~ Finds(graph, c, n)
  <2>1. {i \in DOMAIN graph.searched : Finds(graph, graph.searched[i], n)} = {}
    BY <1>2 DEF Searched, Range
  <2>2. {c \in SearchedIndirectly(graph) : Finds(graph, c, n)} = {}
    BY <2>1 DEF Answers
  <2>3. QED
    BY <2>2
<1>4. \A c \in graph.implicit : ~ Finds(graph, c, n)
  <2>1. ASSUME NEW c \in graph.implicit, c \notin Searched(graph)
        PROVE  c \in SearchedIndirectly(graph)
    <3>1. c \in Named(graph) /\ c \notin graph.explicit /\ c # NoReader
      BY <1>1, <2>1, GraphFields DEF LinkInv, GraphOK
    <3>2. QED
      BY <3>1 DEF SearchedIndirectly, Named
  <2>2. QED
    BY <1>2, <1>3, <2>1
<1> DEFINE S == {c \in Readers(graph) : Shows(c, n) /\ ~ Finds(graph, c, n)}
<1>5. r \in S
  BY <1>1, <1>2 DEF Searched, Range, GraphOK
<1>6. ASSUME NEW c \in S  PROVE Children(graph, c) \cap S # {}
  <2>1. c \in Readers(graph) /\ Shows(c, n) /\ ~ Finds(graph, c, n)
    OBVIOUS
  <2>2. PICK child \in Children(graph, c) : Shows(child, n)
        /\ (child \notin graph.implicit => ~ Finds(graph, child, n))
    BY <1>1, <2>1, FindsUnfolded, ShowsUnfolded
  <2>3. child \in Readers(graph)
    BY <1>1, <2>1, GraphFields DEF ChildrenAreReaders
  <2>4. child \in S
    BY <1>4, <2>2, <2>3
  <2>5. QED
    BY <2>4
<1>7. S \in (SUBSET Readers(graph)) \ {{}}
  BY <1>5
<1>8. QED
  BY <1>1, <1>6, <1>7 DEF CycleIn

\* Whatever the order of loading decides about a dylib, what a dylib that is
\* searched shows its clients is found.
THEOREM ShownFound == Spec => []ShownIsFound
  BY DylibInvariance, InvShown, PTL

LEMMA InvOrdinals == DylibInv => ProvidersHaveOrdinalsOrTwins
<1> SUFFICES ASSUME DylibInv, ~ input.flat, NEW p \in provided
             PROVE  \/ p[1] \in WithOrdinal(graph)
                    \/ /\ FileOf(graph, p[1]) \in asked
                       /\ graph.byName[input.installPath[FileOf(graph, p[1])]] # p[1]
  BY DEF ProvidersHaveOrdinalsOrTwins
<1>1. StateOK /\ LinkInv
  BY DEF DylibInv
<1>2. p[1] \in Readers(graph) /\ p[2] \in Symbols /\ p = <<p[1], p[2]>>
  BY <1>1 DEF StateOK
<1>3. ~ Unused(p[1])
  BY <1>2 DEF Unused
<1>4. ~ Removed(graph, p[1])
  BY <1>3 DEF Removed
<1>5. \/ p[1] \in 1 .. Len(input.line)
      \/ p[1] \in graph.implicit /\ p[1] \in Named(graph)
      \/ p[1] \in graph.implicit /\ FileOf(graph, p[1]) \in asked
  BY <1>1 DEF LinkInv
<1>6. p[1] \in graph.implicit /\ p[1] \in Named(graph) => p[1] \in DylibsOf(graph)
  BY DEF DylibsOf, Named
<1>7. p[1] \in 1 .. Len(input.line) => p[1] \in DylibsOf(graph)
  BY DEF DylibsOf
<1>8. CASE p[1] \in DylibsOf(graph)
  BY <1>4, <1>8 DEF WithOrdinal
<1>9. CASE ~ (p[1] \in DylibsOf(graph))
  <2>1. FileOf(graph, p[1]) \in asked /\ p[1] \notin Named(graph)
    BY <1>5, <1>6, <1>7, <1>9
  <2>2. input.installPath[FileOf(graph, p[1])] \in Paths
    BY <1>1, <1>2, InputFields, GraphFields DEF StateOK
  <2>3. QED
    BY <2>1, <2>2 DEF Named
<1>10. QED
  BY <1>8, <1>9

\* Whatever the flags and the order of loading: a dylib that provides a symbol has
\* an ordinal in the output, unless a twin had its install name.
THEOREM ProvidersOrdered == Spec => []ProvidersHaveOrdinalsOrTwins
  BY DylibInvariance, InvOrdinals, PTL
==============================================================================
