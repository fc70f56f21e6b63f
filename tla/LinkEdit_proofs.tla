-------------------------- MODULE LinkEdit_proofs ---------------------------
(***************************************************************************)
(* Proofs about the tables in __LINKEDIT.  Of OpcodeStream: for every      *)
(* table, the program of opcodes means what the table says, plain and      *)
(* after each rewriting.                                                   *)
(***************************************************************************)
EXTENDS OpcodeStream, FiniteSetTheorems, TLAPS

------------------------------------------------------------------------------
(***************************************************************************)
(* Numbers and recursions.                                                 *)
(***************************************************************************)
\* Of some natural numbers one is the least.
LEMMA LeastNumber ==
    ASSUME NEW S \in SUBSET Nat, S # {}
    PROVE  \E x \in S : \A y \in S : x <= y
<1> DEFINE Upto(x) == {z \in S : z <= x}
           C == {Upto(x) : x \in S}
<1>1. C \subseteq FiniteSubsetsOf(S) /\ C # {}
  <2>1. ASSUME NEW x \in S  PROVE Upto(x) \in FiniteSubsetsOf(S)
    <3>1. x \in Nat /\ Upto(x) \in SUBSET Nat /\ \A z \in Upto(x) : z <= x
      OBVIOUS
    <3>2. IsFiniteSet(Upto(x))
      BY <3>1, FS_BoundedSetOfNaturals
    <3>3. QED
      BY <3>2 DEF FiniteSubsetsOf
  <2>2. QED
    BY <2>1
<1>6. IsWellFoundedOn(StrictSubsetOrdering(S), FiniteSubsetsOf(S))
  BY FS_StrictSubsetOrderingWellFounded
<1> HIDE DEF C
<1>2. PICK X \in C : \A Y \in C : <<Y, X>> \notin StrictSubsetOrdering(S)
  BY <1>1, <1>6, WFMin
<1>3. PICK x \in S : X = Upto(x)
  BY DEF C
<1>4. ASSUME NEW y \in S, y < x  PROVE FALSE
  <2>1. x \in Nat /\ y \in Nat /\ \A z \in S : z \in Nat
    OBVIOUS
  <2>2. Upto(y) \subseteq Upto(x) /\ x \in Upto(x) /\ x \notin Upto(y)
    <3>1. \A z \in S : z <= y => z <= x
      BY <1>4, <2>1
    <3>2. x <= x /\ ~ (x <= y)
      BY <1>4, <2>1
    <3>3. QED
      BY <3>1, <3>2
  <2>3. Upto(y) \in C /\ <<Upto(y), X>> \in StrictSubsetOrdering(S)
    BY <1>3, <2>2 DEF C, StrictSubsetOrdering
  <2>4. QED
    BY <1>2, <2>3
<1>5. QED
  BY <1>4

\* A function that gives each step of a recursion over 0 .. m in a set
IsStep(g, m, S) == g \in [(1 .. m) \X S -> S]

\* A solution of the recursion
IsSolution(f, m, S, z, g) ==
    /\ f \in [0 .. m -> S]
    /\ \A n \in 0 .. m : f[n] = IF n = 0 THEN z ELSE g[<<n, f[n - 1]>>]

\* A recursion over numbers up to some number has a solution.
LEMMA RecursionSolved ==
    ASSUME NEW m \in Nat, NEW S, NEW z \in S, NEW g, IsStep(g, m, S)
    PROVE  \E f : IsSolution(f, m, S, z, g)
<1> USE DEF IsStep
<1> DEFINE Solves(f, k) ==
               /\ f \in [0 .. k -> S]
               /\ \A n \in 0 .. k : f[n] = IF n = 0 THEN z ELSE g[<<n, f[n - 1]>>]
           unsolved == {k \in 0 .. m : \A f : ~ Solves(f, k)}
<1>1. unsolved = {}
  <2> SUFFICES ASSUME unsolved # {}  PROVE FALSE
    OBVIOUS
  <2>1. PICK k \in unsolved : \A j \in unsolved : k <= j
    <3>1. unsolved \in SUBSET Nat
      OBVIOUS
    <3> HIDE DEF unsolved
    <3>2. QED
      BY <3>1, LeastNumber
  <2>2. CASE k = 0
    <3>1. Solves([n \in 0 .. 0 |-> z], 0)
      OBVIOUS
    <3> HIDE DEF Solves
    <3>2. QED
      BY <2>2, <3>1
  <2>3. CASE k # 0
    <3>1. k - 1 \in 0 .. m /\ k \in 1 .. m /\ ~ (k <= k - 1)
      BY <2>3
    <3> HIDE DEF Solves
    <3>9. k - 1 \notin unsolved
      <4> HIDE DEF unsolved
      <4>1. unsolved \in SUBSET Nat
        BY DEF unsolved
      <4>2. QED
        BY <2>1, <3>1
    <3>2. PICK f : Solves(f, k - 1)
      BY <3>1, <3>9
    <3> USE DEF Solves
    <3>3. f[k - 1] \in S /\ g[<<k, f[k - 1]>>] \in S
      BY <3>1, <3>2
    <3> DEFINE h == [n \in 0 .. k |-> IF n = k THEN g[<<k, f[k - 1]>>] ELSE f[n]]
    <3>4. \A n \in 0 .. k : n # k => n \in 0 .. (k - 1)
      BY <3>1
    <3>5. h \in [0 .. k -> S]
      BY <3>2, <3>3, <3>4
    <3>6. ASSUME NEW n \in 0 .. k
          PROVE  h[n] = IF n = 0 THEN z ELSE g[<<n, h[n - 1]>>]
      <4>1. CASE n = k
        <5>1. k - 1 \in 0 .. k /\ k - 1 # k /\ k # 0
          BY <3>1
        <5>2. h[k - 1] = f[k - 1]
          BY <5>1
        <5>3. QED
          BY <4>1, <5>1, <5>2
      <4>2. CASE n # k
        <5>1. n \in 0 .. (k - 1) /\ (n # 0 => n - 1 \in 0 .. (k - 1) /\ n - 1 # k /\ n - 1 \in 0 .. k)
          BY <3>1, <4>2
        <5>2. h[n] = f[n] /\ (n # 0 => h[n - 1] = f[n - 1])
          BY <4>2, <5>1
        <5>3. f[n] = IF n = 0 THEN z ELSE g[<<n, f[n - 1]>>]
          BY <3>2, <5>1
        <5>4. QED
          BY <5>2, <5>3
      <4>3. QED
        BY <4>1, <4>2
    <3>7. Solves(h, k)
      <4> HIDE DEF h
      <4>1. QED
        BY <3>5, <3>6
    <3> HIDE DEF Solves
    <3>8. QED
      BY <2>1, <3>7
  <2>4. QED
    BY <2>2, <2>3
<1>2. PICK f : Solves(f, m)
  <2>1. m \in 0 .. m
    OBVIOUS
  <2> HIDE DEF Solves
  <2>2. QED
    BY <1>1, <2>1
<1>3. QED
  BY <1>2 DEF IsSolution

\* Induction up to a number
LEMMA UpTo ==
    ASSUME NEW m \in Nat, NEW S, 0 \in S, \A n \in 1 .. m : n - 1 \in S => n \in S
    PROVE  \A n \in 0 .. m : n \in S
<1> DEFINE others == {n \in 0 .. m : n \notin S}
<1>1. others = {}
  <2> SUFFICES ASSUME others # {}  PROVE FALSE
    OBVIOUS
  <2>1. others \in SUBSET Nat
    OBVIOUS
  <2>2. PICK n \in others : \A k \in others : n <= k
    <3> HIDE DEF others
    <3>1. QED
      BY <2>1, LeastNumber
  <2>3. n # 0 /\ n \in 1 .. m /\ n - 1 \in 0 .. m /\ ~ (n <= n - 1)
    OBVIOUS
  <2>4. n - 1 \in S
    BY <2>2, <2>3
  <2>5. QED
    BY <2>3, <2>4
<1>2. QED
  BY <1>1

\* Division with a remainder
LEMMA Division ==
    ASSUME NEW S \in Nat \ {0}, NEW x \in Int
    PROVE  x = (S * (x \div S)) + (x % S) /\ x % S \in 0 .. S - 1 /\ x \div S \in Int
BY SMT

LEMMA Remainder ==
    ASSUME NEW S \in Nat \ {0}, NEW x \in Int, NEW q \in Int, NEW r \in 0 .. S - 1, x = S * q + r
    PROVE  x % S = r
BY SMT

\* Sums may be reduced before they are complete.
LEMMA SumModulo ==
    ASSUME NEW S \in Nat \ {0}, NEW x \in Int, NEW y \in Int
    PROVE  ((x % S) + y) % S = (x + y) % S
<1> DEFINE q == x \div S
           r == x % S
           p == (x + y) \div S
           u == (x + y) % S
<1>1. x = (S * q) + r /\ r \in 0 .. S - 1 /\ q \in Int
  BY Division
<1>2. x + y = (S * p) + u /\ u \in 0 .. S - 1 /\ p \in Int
  <2>1. x + y \in Int
    OBVIOUS
  <2>2. QED
    BY <2>1, Division
<1> HIDE DEF q, r, p, u
<1>3. r + y = (S * p) + u - (S * q) /\ r + y \in Int
  BY <1>1, <1>2
<1>4. (S * p) - (S * q) = S * (p - q) /\ p - q \in Int
  BY <1>1, <1>2
<1>5. S * p \in Int /\ S * q \in Int /\ S * (p - q) \in Int
  BY <1>1, <1>2
<1>6. r + y = (S * (p - q)) + u
  BY <1>1, <1>2, <1>3, <1>4, <1>5
<1>7. (r + y) % S = u
  BY <1>2, <1>3, <1>4, <1>6, Remainder
<1>8. QED
  BY <1>7 DEF r, u

LEMMA Divides ==
    ASSUME NEW S \in Nat \ {0}, NEW x \in Int, x % S = 0
    PROVE  (x \div S) * S = x
<1>1. x = (S * (x \div S)) + 0 /\ x \div S \in Int
  BY Division
<1>2. QED
  BY <1>1

------------------------------------------------------------------------------
(***************************************************************************)
(* OpcodeStream: the machine.                                              *)
(***************************************************************************)
Outs == [type : Nat, ordinal : Int, sym : Nat, flag : BOOLEAN, addend : Int, seg : Nat,
         offset : 0 .. Space - 1]

Regs == [ordinal : Int, sym : Nat, flag : BOOLEAN, type : Nat, seg : Nat,
         address : 0 .. Space - 1, addend : Int, names : SUBSET (Nat \X BOOLEAN),
         out : Seq(Outs)]

Ops == [op : {"ordinal", "ordinalImm", "special", "addend"}, a : Int]
       \cup [op : {"type", "times", "timesImm", "bind", "add", "addScaled", "timesAdd", "bindAdd",
                   "bindAddScaled"}, a : Nat]
       \cup [op : {"symbol"}, a : Nat, b : BOOLEAN]
       \cup [op : {"seg"}, a : Nat, b : 0 .. Space - 1]
       \cup [op : {"skipping"}, a : Nat, b : Nat]

LEMMA ResetTyped == Reset \in Regs
<1>1. 0 \in 0 .. Space - 1
  BY StreamAssumption
<1>2. {} \in SUBSET (Nat \X BOOLEAN) /\ <<>> \in Seq(Outs)
  OBVIOUS
<1>3. QED
  BY <1>1, <1>2 DEF Reset, Regs

LEMMA PointerTyped ==
    ASSUME NEW r \in Regs, NEW skip \in Nat
    PROVE  DoPointer(r, skip) \in Regs
<1> DEFINE o == [type |-> r.type, ordinal |-> r.ordinal, sym |-> r.sym, flag |-> r.flag,
                 addend |-> r.addend, seg |-> r.seg, offset |-> r.address]
           a == (r.address + PtrSize + skip) % Space
<1>1. o \in Outs
  BY DEF Regs, Outs
<1>2. a \in 0 .. Space - 1
  <2>1. r.address + PtrSize + skip \in Int
    BY StreamAssumption DEF Regs
  <2>2. QED
    BY <2>1, StreamAssumption, Division
<1>3. DoPointer(r, skip) = [r EXCEPT !.address = a, !.out = Append(r.out, o)]
  BY DEF DoPointer, Regs
<1>4. Append(r.out, o) \in Seq(Outs)
  <2>1. r.out \in Seq(Outs)
    BY DEF Regs
  <2> HIDE DEF o
  <2>2. QED
    BY <1>1, <2>1
<1> HIDE DEF o, a
<1>5. QED
  BY <1>2, <1>3, <1>4 DEF Regs

\* What DoTimes does is done pointer by pointer.
LEMMA TimesSolved ==
    ASSUME NEW r \in Regs, NEW n \in Nat, NEW skip \in Nat
    PROVE  \E done \in [0 .. n -> Regs] :
              /\ done[0] = r /\ done[n] = DoTimes(r, n, skip)
              /\ \A k \in 1 .. n : done[k] = DoPointer(done[k - 1], skip)
<1> DEFINE g == [p \in (1 .. n) \X Regs |-> DoPointer(p[2], skip)]
           Solves(f) == f = [k \in 0 .. n |-> IF k = 0 THEN r ELSE DoPointer(f[k - 1], skip)]
           it == CHOOSE f : Solves(f)
<1>1. IsStep(g, n, Regs)
  <2>1. \A p \in (1 .. n) \X Regs : DoPointer(p[2], skip) \in Regs
    BY PointerTyped
  <2>2. QED
    BY <2>1 DEF IsStep
<1>2. PICK f : IsSolution(f, n, Regs, r, g)
  BY <1>1, RecursionSolved
<1>3. f \in [0 .. n -> Regs]
  BY <1>2 DEF IsSolution
<1>4. \A k \in 0 .. n : f[k] = IF k = 0 THEN r ELSE DoPointer(f[k - 1], skip)
  <2> SUFFICES ASSUME NEW k \in 0 .. n
               PROVE  f[k] = IF k = 0 THEN r ELSE DoPointer(f[k - 1], skip)
    OBVIOUS
  <2>1. f[k] = IF k = 0 THEN r ELSE g[<<k, f[k - 1]>>]
    BY <1>2 DEF IsSolution
  <2>2. CASE k = 0
    BY <2>1, <2>2
  <2>3. CASE k # 0
    <3>1. k \in 1 .. n /\ k - 1 \in 0 .. n /\ f[k - 1] \in Regs
      BY <2>3, <1>3
    <3>2. g[<<k, f[k - 1]>>] = DoPointer(f[k - 1], skip)
      BY <3>1
    <3> HIDE DEF g
    <3>3. QED
      BY <2>1, <2>3, <3>2
  <2>4. QED
    BY <2>2, <2>3
<1>5. Solves(f)
  BY <1>3, <1>4
<1>6. Solves(it)
  <2> HIDE DEF Solves
  <2>1. QED
    BY <1>5
<1>7. DoTimes(r, n, skip) = it[n]
  BY DEF DoTimes
<1>8. it[0] = r /\ \A k \in 1 .. n : it[k] = DoPointer(it[k - 1], skip)
  <2>1. \A k \in 0 .. n : it[k] = IF k = 0 THEN r ELSE DoPointer(it[k - 1], skip)
    BY <1>6
  <2> HIDE DEF it
  <2>2. QED
    BY <2>1
<1>9. it \in [0 .. n -> Regs]
  <2>1. DOMAIN it = 0 .. n /\ it = [k \in 0 .. n |-> it[k]]
    BY <1>6
  <2> HIDE DEF it
  <2>2. \A k \in 0 .. n : k \in {x \in 0 .. n : it[x] \in Regs}
    <3> DEFINE S == {x \in 0 .. n : it[x] \in Regs}
    <3>1. 0 \in S
      BY <1>8
    <3>2. \A k \in 1 .. n : k - 1 \in S => k \in S
      BY <1>8, PointerTyped
    <3> HIDE DEF S
    <3>3. \A k \in 0 .. n : k \in S
      BY <3>1, <3>2, UpTo
    <3>4. QED
      BY <3>3 DEF S
  <2>3. QED
    BY <2>1, <2>2
<1> HIDE DEF it
<1>10. QED
  BY <1>7, <1>8, <1>9

LEMMA TimesTyped ==
    ASSUME NEW r \in Regs, NEW n \in Nat, NEW skip \in Nat
    PROVE  DoTimes(r, n, skip) \in Regs
<1>1. PICK done \in [0 .. n -> Regs] :
              /\ done[0] = r /\ done[n] = DoTimes(r, n, skip)
              /\ \A k \in 1 .. n : done[k] = DoPointer(done[k - 1], skip)
  BY TimesSolved
<1>2. n \in 0 .. n
  OBVIOUS
<1>3. QED
  BY <1>1, <1>2

\* What is done pointer by pointer is what DoTimes does.
LEMMA TimesIs ==
    ASSUME NEW t, NEW i \in Nat, NEW n \in Nat, NEW skip \in Nat, t[i] \in Regs,
           \A k \in 1 .. n : t[i + k] = DoPointer(t[i + k - 1], skip)
    PROVE  t[i + n] = DoTimes(t[i], n, skip)
<1>1. PICK done \in [0 .. n -> Regs] :
              /\ done[0] = t[i] /\ done[n] = DoTimes(t[i], n, skip)
              /\ \A k \in 1 .. n : done[k] = DoPointer(done[k - 1], skip)
  BY TimesSolved, ZenonT(60)
<1> DEFINE S == {k \in 0 .. n : t[i + k] = done[k]}
<1>2. 0 \in S
  BY <1>1
<1>3. ASSUME NEW k \in 1 .. n, k - 1 \in S  PROVE k \in S
  <2>1. t[i + (k - 1)] = done[k - 1] /\ i + (k - 1) = i + k - 1 /\ k \in 0 .. n
    BY <1>3
  <2>2. QED
    BY <1>1, <2>1
<1> HIDE DEF S
<1>4. \A k \in 0 .. n : k \in S
  <2>1. \A k \in 1 .. n : k - 1 \in S => k \in S
    BY <1>3
  <2>2. QED
    BY <1>2, <2>1, UpTo
<1>5. n \in 0 .. n
  OBVIOUS
<1>6. QED
  BY <1>1, <1>4, <1>5 DEF S

LEMMA ExecuteTyped ==
    ASSUME NEW r \in Regs, NEW o \in Ops
    PROVE  Execute(r, o) \in Regs
<1> DEFINE Execs == Execute(r, o)
<1>1. CASE o \in [op : {"ordinal", "ordinalImm", "special", "addend"}, a : Int]
  BY <1>1 DEF Execute, Regs
<1>2. CASE o \in [op : {"symbol"}, a : Nat, b : BOOLEAN]
  <2>1. Execute(r, o) = [r EXCEPT !.sym = o.a, !.flag = o.b, !.names = r.names \cup {<<o.a, o.b>>}]
    BY <1>2 DEF Execute, Regs
  <2>2. r.names \cup {<<o.a, o.b>>} \in SUBSET (Nat \X BOOLEAN)
    BY <1>2 DEF Regs
  <2>3. QED
    BY <1>2, <2>1, <2>2 DEF Regs
<1>3. CASE o \in [op : {"seg"}, a : Nat, b : 0 .. Space - 1]
  BY <1>3 DEF Execute, Regs
<1>4. CASE o \in [op : {"skipping"}, a : Nat, b : Nat]
  <2>1. Execute(r, o) = DoTimes(r, o.a, o.b) /\ o.a \in Nat /\ o.b \in Nat
    BY <1>4 DEF Execute
  <2>2. QED
    BY <2>1, TimesTyped
<1>5. CASE o \in [op : {"type", "times", "timesImm", "bind", "add", "addScaled", "timesAdd",
                        "bindAdd", "bindAddScaled"}, a : Nat]
  <2>1. o.a \in Nat /\ o.a * PtrSize \in Nat /\ 0 \in Nat /\ r.address \in Int
    BY <1>5, StreamAssumption DEF Regs
  <2>2. CASE o.op = "type"
    BY <2>1, <2>2 DEF Execute, Regs
  <2>3. CASE o.op \in {"times", "timesImm"}
    <3>1. Execute(r, o) = DoTimes(r, o.a, 0)
      BY <2>3 DEF Execute
    <3>2. QED
      BY <2>1, <3>1, TimesTyped
  <2>4. CASE o.op \in {"bind", "timesAdd", "bindAdd", "bindAddScaled"}
    <3>1. \E skip \in Nat : Execute(r, o) = DoPointer(r, skip)
      BY <2>1, <2>4 DEF Execute
    <3>2. QED
      BY <3>1, PointerTyped
  <2>5. CASE o.op \in {"add", "addScaled"}
    <3>1. \E d \in Nat : Execute(r, o) = [r EXCEPT !.address = (r.address + d) % Space]
      BY <2>1, <2>5 DEF Execute
    <3>2. PICK d \in Nat : Execute(r, o) = [r EXCEPT !.address = (r.address + d) % Space]
      BY <3>1
    <3>3. r.address + d \in Int
      BY <2>1
    <3>4. (r.address + d) % Space \in 0 .. Space - 1
      BY <3>3, StreamAssumption, Division
    <3>5. QED
      BY <3>2, <3>4 DEF Regs
  <2>6. QED
    BY <1>5, <2>2, <2>3, <2>4, <2>5
<1>6. QED
  BY <1>1, <1>2, <1>3, <1>4, <1>5 DEF Ops


------------------------------------------------------------------------------
(***************************************************************************)
(* OpcodeStream: what a program does.                                      *)
(***************************************************************************)
\* The states a program goes through
IsTrace(t, m) ==
    /\ t \in [0 .. Len(m) -> Regs]
    /\ \A n \in 1 .. Len(m) : t[n] = Execute(t[n - 1], m[n])

\* A program takes the machine from a state to another.
Reaches(r, m, s) == \E t : IsTrace(t, m) /\ t[0] = r /\ t[Len(m)] = s

LEMMA ReachesNothing == ASSUME NEW r \in Regs  PROVE Reaches(r, <<>>, r)
<1> DEFINE t == [n \in 0 .. 0 |-> r]
<1>1. IsTrace(t, <<>>) /\ t[0] = r /\ Len(<<>>) = 0
  BY DEF IsTrace
<1> HIDE DEF t
<1>2. QED
  BY <1>1 DEF Reaches

LEMMA ReachesTyped ==
    ASSUME NEW r, NEW m \in Seq(Ops), NEW s, Reaches(r, m, s)
    PROVE  r \in Regs /\ s \in Regs
<1>1. PICK t : IsTrace(t, m) /\ t[0] = r /\ t[Len(m)] = s
  BY DEF Reaches
<1>2. 0 \in 0 .. Len(m) /\ Len(m) \in 0 .. Len(m)
  OBVIOUS
<1>3. QED
  BY <1>1, <1>2 DEF IsTrace

\* An operation first
LEMMA ReachesFirst ==
    ASSUME NEW r \in Regs, NEW o \in Ops, NEW m \in Seq(Ops), NEW s, Reaches(Execute(r, o), m, s)
    PROVE  Reaches(r, <<o>> \o m, s)
<1> DEFINE w == <<o>> \o m
<1>1. PICK t : IsTrace(t, m) /\ t[0] = Execute(r, o) /\ t[Len(m)] = s
  BY DEF Reaches
<1>2. /\ Len(m) \in Nat /\ Len(w) = Len(m) + 1 /\ w[1] = o
      /\ \A n \in 2 .. Len(m) + 1 : w[n] = m[n - 1]
  OBVIOUS
<1> DEFINE u == [n \in 0 .. Len(w) |-> IF n = 0 THEN r ELSE t[n - 1]]
<1> HIDE DEF w
<1>3. t \in [0 .. Len(m) -> Regs] /\ \A n \in 1 .. Len(m) : t[n] = Execute(t[n - 1], m[n])
  BY <1>1 DEF IsTrace
<1>4. u \in [0 .. Len(w) -> Regs]
  <2>1. \A n \in 0 .. Len(w) : n # 0 => n - 1 \in 0 .. Len(m)
    BY <1>2
  <2>2. QED
    BY <1>3, <2>1
<1>5. u[0] = r /\ \A n \in 1 .. Len(w) : u[n] = t[n - 1]
  BY <1>2
<1> HIDE DEF u
<1>6. ASSUME NEW n \in 1 .. Len(w)  PROVE u[n] = Execute(u[n - 1], w[n])
  <2>1. CASE n = 1
    <3>1. 1 - 1 = 0 /\ 1 \in 1 .. Len(w)
      BY <1>2
    <3>2. u[1] = t[0] /\ u[1 - 1] = r
      BY <1>5, <3>1
    <3>3. QED
      BY <1>1, <1>2, <2>1, <3>2
  <2>2. CASE n # 1
    <3>1. n - 1 \in 1 .. Len(m) /\ n - 1 \in 1 .. Len(w) /\ n \in 2 .. Len(m) + 1
      BY <1>2, <2>2
    <3>2. u[n] = t[n - 1] /\ u[n - 1] = t[(n - 1) - 1] /\ w[n] = m[n - 1]
      BY <1>2, <1>5, <3>1
    <3>3. t[n - 1] = Execute(t[(n - 1) - 1], m[n - 1])
      BY <1>3, <3>1
    <3>4. QED
      BY <3>2, <3>3
  <2>3. QED
    BY <2>1, <2>2
<1>7. u[Len(w)] = s
  <2>1. Len(w) \in 1 .. Len(w) /\ Len(w) - 1 = Len(m)
    BY <1>2
  <2>2. u[Len(w)] = t[Len(w) - 1]
    BY <1>5, <2>1
  <2>3. QED
    BY <1>1, <2>1, <2>2
<1>8. IsTrace(u, w)
  BY <1>4, <1>6 DEF IsTrace
<1>9. Reaches(r, w, s)
  BY <1>5, <1>7, <1>8 DEF Reaches
<1>10. QED
  BY <1>9 DEF w

\* An operation last
LEMMA ReachesLast ==
    ASSUME NEW r, NEW m \in Seq(Ops), NEW s, Reaches(r, m, s), NEW o \in Ops
    PROVE  Reaches(r, m \o <<o>>, Execute(s, o))
<1> DEFINE w == m \o <<o>>
           x == Execute(s, o)
<1>1. PICK t : IsTrace(t, m) /\ t[0] = r /\ t[Len(m)] = s
  BY DEF Reaches
<1>2. /\ Len(m) \in Nat /\ Len(w) = Len(m) + 1 /\ w[Len(m) + 1] = o
      /\ \A n \in 1 .. Len(m) : w[n] = m[n]
  OBVIOUS
<1> DEFINE u == [n \in 0 .. Len(w) |-> IF n = Len(w) THEN x ELSE t[n]]
<1>20. x \in Regs
  BY ReachesTyped, ExecuteTyped
<1> HIDE DEF w, x
<1>3. t \in [0 .. Len(m) -> Regs] /\ \A n \in 1 .. Len(m) : t[n] = Execute(t[n - 1], m[n])
  BY <1>1 DEF IsTrace
<1>4. u \in [0 .. Len(w) -> Regs]
  <2>1. \A n \in 0 .. Len(w) : n # Len(w) => n \in 0 .. Len(m)
    BY <1>2
  <2>2. QED
    BY <1>3, <1>20, <2>1
<1>5. u[Len(w)] = x /\ \A n \in 0 .. Len(m) : u[n] = t[n]
  BY <1>2
<1> HIDE DEF u
<1>6. ASSUME NEW n \in 1 .. Len(w)  PROVE u[n] = Execute(u[n - 1], w[n])
  <2>1. CASE n = Len(w)
    <3>1. n - 1 = Len(m) /\ Len(m) \in 0 .. Len(m) /\ n = Len(m) + 1
      BY <1>2, <2>1
    <3>2. u[n] = x /\ u[n - 1] = s /\ w[n] = o
      BY <1>1, <1>2, <1>5, <2>1, <3>1
    <3>3. QED
      BY <3>2 DEF x
  <2>2. CASE n # Len(w)
    <3>1. n \in 1 .. Len(m) /\ n \in 0 .. Len(m) /\ n - 1 \in 0 .. Len(m)
      BY <1>2, <2>2
    <3>2. u[n] = t[n] /\ u[n - 1] = t[n - 1] /\ w[n] = m[n]
      BY <1>2, <1>5, <3>1
    <3>3. QED
      BY <1>3, <3>1, <3>2
  <2>3. QED
    BY <2>1, <2>2
<1>7. u[0] = r
  BY <1>1, <1>2, <1>5
<1>8. IsTrace(u, w)
  BY <1>4, <1>6 DEF IsTrace
<1>9. Reaches(r, w, x)
  BY <1>5, <1>7, <1>8 DEF Reaches
<1>10. QED
  BY <1>9 DEF w, x

\* What the program does is where it takes the machine.
LEMMA RunIs ==
    ASSUME NEW m \in Seq(Ops), NEW s, Reaches(Reset, m, s)
    PROVE  RunOf(m) = s
<1> DEFINE Solves(f) == f = [n \in 0 .. Len(m) |-> IF n = 0 THEN Reset ELSE Execute(f[n - 1], m[n])]
           it == CHOOSE f : Solves(f)
<1>1. PICK t : IsTrace(t, m) /\ t[0] = Reset /\ t[Len(m)] = s
  BY DEF Reaches
<1>2. Len(m) \in Nat
  OBVIOUS
<1>3. \A n \in 0 .. Len(m) : t[n] = IF n = 0 THEN Reset ELSE Execute(t[n - 1], m[n])
  <2>1. \A n \in 0 .. Len(m) : n # 0 => n \in 1 .. Len(m)
    BY <1>2
  <2>2. QED
    BY <1>1, <2>1 DEF IsTrace
<1>4. Solves(t)
  BY <1>1, <1>3 DEF IsTrace
<1>5. Solves(it)
  <2> HIDE DEF Solves
  <2>1. QED
    BY <1>4
<1>6. RunOf(m) = it[Len(m)]
  BY DEF RunOf
<1>7. \A n \in 0 .. Len(m) : it[n] = IF n = 0 THEN Reset ELSE Execute(it[n - 1], m[n])
  BY <1>5
<1> DEFINE S == {n \in 0 .. Len(m) : it[n] = t[n]}
<1> HIDE DEF it
<1>8. 0 \in S
  BY <1>2, <1>3, <1>7
<1>9. \A n \in 1 .. Len(m) : n - 1 \in S => n \in S
  <2> SUFFICES ASSUME NEW n \in 1 .. Len(m), n - 1 \in S  PROVE n \in S
    OBVIOUS
  <2>1. n \in 0 .. Len(m) /\ n # 0 /\ it[n - 1] = t[n - 1]
    BY <1>2
  <2>2. it[n] = Execute(it[n - 1], m[n]) /\ t[n] = Execute(t[n - 1], m[n])
    BY <1>3, <1>7, <2>1
  <2>3. QED
    BY <2>1, <2>2
<1> HIDE DEF S
<1>10. \A n \in 0 .. Len(m) : n \in S
  BY <1>2, <1>8, <1>9, UpTo
<1>11. Len(m) \in 0 .. Len(m)
  BY <1>2
<1>12. QED
  BY <1>1, <1>6, <1>10, <1>11 DEF S


------------------------------------------------------------------------------
(***************************************************************************)
(* OpcodeStream: rewriting a program.                                      *)
(***************************************************************************)
Pieces(W) == [write : W, read : Nat \ {0}]

\* Pieces end with the program they are made of.
ArePieces(pieces, W) ==
    /\ pieces \in Seq(Pieces(W))
    /\ \A n \in 1 .. Len(pieces) : n + pieces[n].read <= Len(pieces) + 1

\* The programs from each operation on
IsRewriting(F, pieces, W) ==
    /\ F \in [1 .. Len(pieces) + 1 -> Seq(W)]
    /\ F[Len(pieces) + 1] = <<>>
    /\ \A n \in 1 .. Len(pieces) : F[n] = <<pieces[n].write>> \o F[n + pieces[n].read]

LEMMA PiecesTyped ==
    ASSUME NEW W, NEW pieces, ArePieces(pieces, W)
    PROVE  /\ Len(pieces) \in Nat
           /\ \A n \in 1 .. Len(pieces) : /\ pieces[n].write \in W /\ pieces[n].read \in Nat \ {0}
                                          /\ n + pieces[n].read <= Len(pieces) + 1
<1> DEFINE P == Pieces(W)
<1>1. pieces \in Seq(P) /\ \A n \in 1 .. Len(pieces) : n + pieces[n].read <= Len(pieces) + 1
  BY DEF ArePieces
<1>2. \A p \in P : p.write \in W /\ p.read \in Nat \ {0}
  BY DEF Pieces
<1> HIDE DEF P
<1>3. Len(pieces) \in Nat /\ \A n \in 1 .. Len(pieces) : pieces[n] \in P
  BY <1>1
<1>4. QED
  BY <1>1, <1>2, <1>3

LEMMA RewritingExists ==
    ASSUME NEW W, NEW pieces, ArePieces(pieces, W)
    PROVE  \E F : IsRewriting(F, pieces, W)
<1> DEFINE L == Len(pieces)
<1>1. L \in Nat
  BY PiecesTyped
<1>2. \A n \in 1 .. L : /\ pieces[n].write \in W /\ pieces[n].read \in Nat \ {0}
                        /\ n + pieces[n].read <= L + 1
  BY PiecesTyped
<1> HIDE DEF L
<1> DEFINE From(F, k) == /\ F \in [(L + 1) - k .. L + 1 -> Seq(W)]
                         /\ F[L + 1] = <<>>
                         /\ \A n \in (L + 1) - k .. L :
                               F[n] = <<pieces[n].write>> \o F[n + pieces[n].read]
           S == {k \in 0 .. L : \E F : From(F, k)}
<1>3. 0 \in S
  <2> DEFINE F == [n \in (L + 1) - 0 .. L + 1 |-> <<>>]
  <2>1. F[L + 1] = <<>> /\ F \in [(L + 1) - 0 .. L + 1 -> Seq(W)] /\ (L + 1) - 0 .. L = {}
    BY <1>1
  <2> HIDE DEF F
  <2>2. From(F, 0)
    BY <2>1
  <2> HIDE DEF From
  <2>3. QED
    BY <1>1, <2>2
<1>4. ASSUME NEW k \in 1 .. L, k - 1 \in S  PROVE k \in S
  <2> DEFINE m == (L + 1) - k
  <2>1. PICK F : From(F, k - 1)
    BY <1>4
  <2>2. m \in 1 .. L /\ (L + 1) - (k - 1) = m + 1 /\ m + pieces[m].read \in m + 1 .. L + 1
    <3>1. m \in 1 .. L
      BY <1>1
    <3>2. pieces[m].read \in Nat \ {0} /\ m + pieces[m].read <= L + 1
      BY <1>2, <3>1
    <3>3. QED
      BY <1>1, <3>1, <3>2
  <2>3. /\ F \in [m + 1 .. L + 1 -> Seq(W)] /\ F[L + 1] = <<>>
        /\ \A n \in m + 1 .. L : F[n] = <<pieces[n].write>> \o F[n + pieces[n].read]
    BY <2>1, <2>2
  <2> DEFINE w == <<pieces[m].write>> \o F[m + pieces[m].read]
             G == [n \in m .. L + 1 |-> IF n = m THEN w ELSE F[n]]
  <2>4. w \in Seq(W)
    <3>1. pieces[m].write \in W /\ F[m + pieces[m].read] \in Seq(W)
      BY <1>2, <2>2, <2>3
    <3>2. QED
      BY <3>1
  <2> HIDE DEF m, w
  <2>5. m \in m .. L + 1 /\ L + 1 \in m .. L + 1 /\ L + 1 # m
        /\ \A n \in m .. L + 1 : n # m => n \in m + 1 .. L + 1
    BY <1>1, <2>2
  <2>6. G \in [m .. L + 1 -> Seq(W)]
    BY <2>3, <2>4, <2>5
  <2>7. G[L + 1] = <<>> /\ G[m] = w /\ \A n \in m + 1 .. L + 1 : G[n] = F[n]
    <3>1. \A n \in m + 1 .. L + 1 : n # m /\ n \in m .. L + 1
      BY <1>1, <2>2
    <3>2. QED
      BY <2>3, <2>5, <3>1
  <2> HIDE DEF G
  <2>8. ASSUME NEW n \in m .. L  PROVE G[n] = <<pieces[n].write>> \o G[n + pieces[n].read]
    <3>1. n \in 1 .. L
      BY <1>1, <2>2
    <3>2. pieces[n].read \in Nat \ {0} /\ n + pieces[n].read <= L + 1
      BY <1>2, <3>1
    <3>3. n + pieces[n].read \in m + 1 .. L + 1
      BY <1>1, <2>2, <3>1, <3>2
    <3>4. G[n + pieces[n].read] = F[n + pieces[n].read]
      BY <2>7, <3>3
    <3>5. CASE n = m
      BY <2>7, <3>4, <3>5 DEF w
    <3>6. CASE n # m
      <4>1. n \in m + 1 .. L /\ n \in m + 1 .. L + 1
        BY <1>1, <2>2, <3>6
      <4>2. QED
        BY <2>3, <2>7, <3>4, <4>1
    <3>7. QED
      BY <3>5, <3>6
  <2>9. From(G, k)
    BY <2>6, <2>7, <2>8 DEF m
  <2> HIDE DEF From
  <2>10. QED
    BY <1>1, <2>9
<1>5. L \in S
  <2> HIDE DEF S
  <2>1. \A k \in 1 .. L : k - 1 \in S => k \in S
    BY <1>4
  <2>2. \A k \in 0 .. L : k \in S
    BY <1>1, <1>3, <2>1, UpTo
  <2>3. QED
    BY <1>1, <2>2
<1>6. PICK F : From(F, L)
  BY <1>5
<1>7. (L + 1) - L = 1
  BY <1>1
<1>8. QED
  BY <1>6, <1>7 DEF IsRewriting, L

LEMMA RewrittenSolved ==
    ASSUME NEW W, NEW pieces, ArePieces(pieces, W)
    PROVE  \E F : IsRewriting(F, pieces, W) /\ Rewritten(pieces) = F[1]
<1> DEFINE L == Len(pieces)
           Solves(f) == f = [n \in 1 .. L + 1 |->
                               IF n > L THEN <<>>
                               ELSE <<pieces[n].write>> \o f[n + pieces[n].read]]
           it == CHOOSE f : Solves(f)
<1>1. L \in Nat
  BY PiecesTyped
<1>12. \A n \in 1 .. L : pieces[n].read \in Nat \ {0} /\ n + pieces[n].read <= L + 1
  BY PiecesTyped
<1>2. PICK F : IsRewriting(F, pieces, W)
  BY RewritingExists
<1>3. \A n \in 1 .. L + 1 :
         F[n] = IF n > L THEN <<>> ELSE <<pieces[n].write>> \o F[n + pieces[n].read]
  <2> SUFFICES ASSUME NEW n \in 1 .. L + 1
               PROVE  F[n] = IF n > L THEN <<>> ELSE <<pieces[n].write>> \o F[n + pieces[n].read]
    OBVIOUS
  <2> HIDE DEF L
  <2>1. CASE n > L
    <3>1. n = L + 1
      BY <1>1, <2>1
    <3>2. QED
      BY <1>2, <2>1, <3>1 DEF IsRewriting, L
  <2>2. CASE ~ (n > L)
    <3>1. n \in 1 .. L
      BY <1>1, <2>2
    <3>2. QED
      BY <1>2, <2>2, <3>1 DEF IsRewriting, L
  <2>3. QED
    BY <2>1, <2>2
<1>4. Solves(F)
  BY <1>2, <1>3 DEF IsRewriting
<1>5. Solves(it)
  <2> HIDE DEF Solves
  <2>1. QED
    BY <1>4
<1>6. Rewritten(pieces) = it[1]
  BY DEF Rewritten
<1>7. \A n \in 1 .. L + 1 :
         it[n] = IF n > L THEN <<>> ELSE <<pieces[n].write>> \o it[n + pieces[n].read]
  BY <1>5
<1> HIDE DEF it
<1> DEFINE S == {k \in 0 .. L : \A j \in 0 .. k : it[(L + 1) - j] = F[(L + 1) - j]}
<1> HIDE DEF L
<1>8. 0 \in S
  <2>1. (L + 1) - 0 = L + 1 /\ L + 1 \in 1 .. L + 1 /\ L + 1 > L /\ 0 .. 0 = {0}
    BY <1>1
  <2>2. it[L + 1] = F[L + 1]
    BY <1>3, <1>7, <2>1
  <2>3. QED
    BY <1>1, <2>1, <2>2
<1>9. ASSUME NEW k \in 1 .. L, k - 1 \in S  PROVE k \in S
  <2>1. \A j \in 0 .. k - 1 : it[(L + 1) - j] = F[(L + 1) - j]
    BY <1>9
  <2> DEFINE n == (L + 1) - k
             j == (L + 1) - (n + pieces[n].read)
  <2>2. n \in 1 .. L /\ n \in 1 .. L + 1 /\ ~ (n > L)
    BY <1>1
  <2>3. j \in 0 .. k - 1 /\ (L + 1) - j = n + pieces[n].read
    <3>1. pieces[n].read \in Nat \ {0} /\ n + pieces[n].read <= L + 1
      BY <1>12, <2>2
    <3>2. QED
      BY <1>1, <2>2, <3>1
  <2> HIDE DEF j
  <2>4. it[n + pieces[n].read] = F[n + pieces[n].read]
    BY <2>1, <2>3
  <2>5. it[n] = F[n]
    <3> HIDE DEF n
    <3>1. QED
      BY <1>3, <1>7, <2>2, <2>4
  <2>6. \A i \in 0 .. k : i \in 0 .. k - 1 \/ i = k
    OBVIOUS
  <2>7. \A i \in 0 .. k : it[(L + 1) - i] = F[(L + 1) - i]
    BY <2>1, <2>5, <2>6
  <2>8. k \in 0 .. L
    BY <1>1
  <2>9. QED
    BY <2>7, <2>8
<1>10. it[1] = F[1]
  <2> HIDE DEF S
  <2>1. \A k \in 1 .. L : k - 1 \in S => k \in S
    BY <1>9
  <2>2. \A k \in 0 .. L : k \in S
    BY <1>1, <1>8, <2>1, UpTo
  <2>3. L \in 0 .. L /\ (L + 1) - L = 1
    BY <1>1
  <2>4. QED
    BY <2>2, <2>3 DEF S
<1>11. QED
  BY <1>2, <1>6, <1>10

\* If each piece does what the operations do that it stands for, the program
\* that is written does what the program did.
LEMMA RewrittenMeans ==
    ASSUME NEW pieces, ArePieces(pieces, Ops), NEW m \in Seq(Ops), Len(m) = Len(pieces),
           NEW t, IsTrace(t, m),
           \A n \in 1 .. Len(m) : Execute(t[n - 1], pieces[n].write) = t[n - 1 + pieces[n].read]
    PROVE  Rewritten(pieces) \in Seq(Ops) /\ Reaches(t[0], Rewritten(pieces), t[Len(m)])
<1> DEFINE L == Len(m)
<1>1. L \in Nat
  OBVIOUS
<1>2. PICK F : IsRewriting(F, pieces, Ops) /\ Rewritten(pieces) = F[1]
  BY RewrittenSolved
<1>3. /\ F \in [1 .. L + 1 -> Seq(Ops)] /\ F[L + 1] = <<>>
      /\ \A n \in 1 .. L : F[n] = <<pieces[n].write>> \o F[n + pieces[n].read]
  BY <1>2 DEF IsRewriting
<1>4. \A n \in 1 .. L : /\ pieces[n].write \in Ops /\ pieces[n].read \in Nat \ {0}
                        /\ n + pieces[n].read <= L + 1
  BY PiecesTyped
<1>5. t \in [0 .. L -> Regs]
  BY DEF IsTrace
<1>6. \A n \in 1 .. L : Execute(t[n - 1], pieces[n].write) = t[n - 1 + pieces[n].read]
  OBVIOUS
<1> HIDE DEF L
<1> DEFINE S == {k \in 0 .. L : \A j \in 0 .. k : Reaches(t[L - j], F[(L + 1) - j], t[L])}
<1>8. 0 \in S
  <2>1. (L + 1) - 0 = L + 1 /\ L - 0 = L /\ L \in 0 .. L /\ 0 .. 0 = {0}
    BY <1>1
  <2>2. t[L] \in Regs
    BY <1>5, <2>1
  <2>3. Reaches(t[L], F[L + 1], t[L])
    BY <1>3, <2>2, ReachesNothing
  <2>4. QED
    BY <1>1, <2>1, <2>3
<1>9. ASSUME NEW k \in 1 .. L, k - 1 \in S  PROVE k \in S
  <2>1. \A j \in 0 .. k - 1 : Reaches(t[L - j], F[(L + 1) - j], t[L])
    BY <1>9
  <2> DEFINE n == (L + 1) - k
             j == (L + 1) - (n + pieces[n].read)
  <2>2. n \in 1 .. L /\ n - 1 = L - k /\ n - 1 \in 0 .. L
    BY <1>1
  <2>3. /\ j \in 0 .. k - 1 /\ (L + 1) - j = n + pieces[n].read
        /\ L - j = n - 1 + pieces[n].read /\ n + pieces[n].read \in 1 .. L + 1
    <3>1. PICK c \in Nat \ {0} : c = pieces[n].read /\ n + c <= L + 1
      BY <1>4, <2>2
    <3>2. n = (L + 1) - k /\ j = (L + 1) - (n + c)
      BY <3>1
    <3> HIDE DEF n, j
    <3>3. j \in 0 .. k - 1 /\ (L + 1) - j = n + c /\ L - j = n - 1 + c /\ n + c \in 1 .. L + 1
      <4>1. k \in 1 .. L
        OBVIOUS
      <4>2. n + c <= L + 1
        BY <3>1
      <4>3. QED
        BY ONLY <1>1, <3>2, <4>1, <4>2, c \in Nat \ {0}
    <3>4. QED
      BY <3>1, <3>3
  <2> HIDE DEF j
  <2>4. Reaches(t[n - 1 + pieces[n].read], F[n + pieces[n].read], t[L])
    BY <2>1, <2>3
  <2> HIDE DEF n
  <2>5. Reaches(Execute(t[n - 1], pieces[n].write), F[n + pieces[n].read], t[L])
    BY <1>6, <2>2, <2>4
  <2>6. t[n - 1] \in Regs /\ pieces[n].write \in Ops /\ F[n + pieces[n].read] \in Seq(Ops)
    BY <1>3, <1>4, <1>5, <2>2, <2>3
  <2>7. Reaches(t[n - 1], <<pieces[n].write>> \o F[n + pieces[n].read], t[L])
    BY <2>5, <2>6, ReachesFirst
  <2>8. Reaches(t[n - 1], F[n], t[L])
    BY <1>3, <2>2, <2>7
  <2>9. \A i \in 0 .. k : i \in 0 .. k - 1 \/ i = k
    OBVIOUS
  <2>10. Reaches(t[L - k], F[(L + 1) - k], t[L])
    BY <2>2, <2>8 DEF n
  <2>11. \A i \in 0 .. k : Reaches(t[L - i], F[(L + 1) - i], t[L])
    BY <2>1, <2>9, <2>10
  <2>12. k \in 0 .. L
    BY <1>1
  <2>13. QED
    BY <2>11, <2>12
<1>10. Reaches(t[0], F[1], t[L])
  <2> HIDE DEF S
  <2>1. \A k \in 1 .. L : k - 1 \in S => k \in S
    BY <1>9
  <2>2. \A k \in 0 .. L : k \in S
    BY <1>1, <1>8, <2>1, UpTo
  <2>3. L \in 0 .. L /\ (L + 1) - L = 1 /\ L - L = 0
    BY <1>1
  <2>4. QED
    BY <2>2, <2>3 DEF S
<1>11. F[1] \in Seq(Ops)
  <2>1. 1 \in 1 .. L + 1
    BY <1>1
  <2>2. QED
    BY <1>3, <2>1
<1>12. QED
  BY <1>2, <1>10, <1>11 DEF L

------------------------------------------------------------------------------
(***************************************************************************)
(* OpcodeStream: the four rewritings.                                      *)
(***************************************************************************)
\* A run of like operations
LEMMA RunIsAlike ==
    ASSUME mid \in Seq(Ops), NEW n \in 1 .. Len(mid)
    PROVE  /\ RunLength(n) \in Nat \ {0} /\ n + RunLength(n) <= Len(mid) + 1
           /\ \A k \in 1 .. RunLength(n) : n - 1 + k \in 1 .. Len(mid) /\ mid[n - 1 + k] = mid[n]
<1> DEFINE L == Len(mid)
           S == {m \in n + 1 .. L + 1 : m > L \/ mid[m] # mid[n]}
           x == Min(S)
<1>1. L \in Nat /\ n \in 1 .. L
  OBVIOUS
<1>2. RunLength(n) = x - n
  BY DEF RunLength
<1> HIDE DEF L
<1>3. S \in SUBSET Nat /\ S # {}
  <2>1. L + 1 \in n + 1 .. L + 1 /\ L + 1 > L
    BY ONLY <1>1
  <2>2. \A m \in n + 1 .. L + 1 : m \in Nat
    BY ONLY <1>1
  <2>3. QED
    BY <2>1, <2>2
<1>4. \E y \in S : \A z \in S : y <= z
  <2> HIDE DEF S
  <2>1. QED
    BY <1>3, LeastNumber
<1>5. x \in S /\ \A z \in S : x <= z
  <2> HIDE DEF S
  <2>1. QED
    BY <1>4 DEF Min
<1>6. x \in n + 1 .. L + 1
  BY <1>5
<1>7. ASSUME NEW k \in 1 .. x - n  PROVE n - 1 + k \in 1 .. L /\ mid[n - 1 + k] = mid[n]
  <2> HIDE DEF x, S
  <2>0. n \in Int /\ L \in Int /\ x \in Int /\ n >= 1 /\ n <= L /\ x >= n + 1 /\ x <= L + 1
    BY ONLY <1>1, <1>6
  <2>1. n - 1 + k \in 1 .. L /\ ~ (x <= n - 1 + k) /\ ~ (n - 1 + k > L)
    BY ONLY <2>0, k \in 1 .. x - n
  <2>2. CASE k = 1
    <3>1. n - 1 + k = n
      BY ONLY <2>0, <2>2
    <3>2. QED
      BY <2>1, <3>1
  <2>3. CASE k # 1
    <3>1. n - 1 + k \in n + 1 .. L + 1
      BY ONLY <2>0, <2>3, k \in 1 .. x - n
    <3>2. n - 1 + k \notin S
      BY <1>5, <2>1
    <3>3. QED
      BY <2>1, <3>1, <3>2 DEF S
  <2>4. QED
    BY <2>2, <2>3
<1>8. x - n \in Nat \ {0} /\ n + (x - n) <= L + 1
  <2> HIDE DEF x, S
  <2>1. QED
    BY ONLY <1>1, <1>6
<1> HIDE DEF x, S
<1>9. QED
  BY <1>2, <1>7, <1>8 DEF L

\* One pointer is a run of one.
LEMMA TimesOne ==
    ASSUME NEW r \in Regs, NEW skip \in Nat
    PROVE  DoTimes(r, 1, skip) = DoPointer(r, skip)
<1>0. 1 \in Nat
  OBVIOUS
<1>1. PICK done \in [0 .. 1 -> Regs] :
              /\ done[0] = r /\ done[1] = DoTimes(r, 1, skip)
              /\ \A k \in 1 .. 1 : done[k] = DoPointer(done[k - 1], skip)
  BY <1>0, TimesSolved
<1>2. 1 \in 1 .. 1 /\ 1 - 1 = 0
  OBVIOUS
<1>3. QED
  BY <1>1, <1>2

\* A run of pointers, each with the same distance after it, is one loop.
LEMMA RunIsLoop ==
    ASSUME mid \in Seq(Ops), NEW t, IsTrace(t, mid), NEW n \in 1 .. Len(mid), NEW skip \in Nat,
           \A r \in Regs : Execute(r, mid[n]) = DoPointer(r, skip)
    PROVE  t[n - 1 + RunLength(n)] = DoTimes(t[n - 1], RunLength(n), skip)
<1> DEFINE i == n - 1
           K == RunLength(n)
<1>1. /\ Len(mid) \in Nat /\ n \in Nat /\ i \in Nat /\ i \in 0 .. Len(mid)
  OBVIOUS
<1>2. K \in Nat /\ n + K <= Len(mid) + 1
      /\ \A k \in 1 .. K : n - 1 + k \in 1 .. Len(mid) /\ mid[n - 1 + k] = mid[n]
  BY RunIsAlike
<1> HIDE DEF K
<1>3. t \in [0 .. Len(mid) -> Regs]
      /\ \A k \in 1 .. Len(mid) : t[k] = Execute(t[k - 1], mid[k])
  BY DEF IsTrace
<1>4. t[i] \in Regs
  BY <1>1, <1>3
<1>5. ASSUME NEW k \in 1 .. K  PROVE t[i + k] = DoPointer(t[i + k - 1], skip)
  <2>1. i + k \in 1 .. Len(mid) /\ mid[i + k] = mid[n]
    BY <1>2
  <2>2. i + k - 1 \in 0 .. Len(mid)
    BY ONLY <1>1, <2>1
  <2> HIDE DEF i
  <2>3. t[i + k] = Execute(t[i + k - 1], mid[n]) /\ t[i + k - 1] \in Regs
    <3>1. \A x \in 0 .. Len(mid) : t[x] \in Regs
      BY <1>3
    <3>2. t[i + k - 1] \in Regs
      BY ONLY <2>2, <3>1
    <3>3. t[i + k] = Execute(t[(i + k) - 1], mid[i + k])
      BY ONLY <1>3, <2>1
    <3>4. (i + k) - 1 = i + k - 1
      BY ONLY <1>1, k \in 1 .. K
    <3>5. QED
      BY <2>1, <3>2, <3>3, <3>4
  <2>4. QED
    BY <2>3
<1> HIDE DEF i
<1>6. \A k \in 1 .. K : t[i + k] = DoPointer(t[i + k - 1], skip)
  BY <1>5
<1>7. t[i + K] = DoTimes(t[i], K, skip)
  <2>1. i \in Nat /\ K \in Nat
    BY <1>1, <1>2
  <2>2. QED
    BY <1>4, <1>6, <2>1, TimesIs
<1>8. QED
  BY <1>7 DEF i, K

\* An operation that is kept
LEMMA Kept ==
    ASSUME mid \in Seq(Ops), NEW t, IsTrace(t, mid), NEW n \in 1 .. Len(mid)
    PROVE  /\ Keep(n) \in Pieces(Ops) /\ n + Keep(n).read <= Len(mid) + 1
           /\ Execute(t[n - 1], Keep(n).write) = t[n - 1 + Keep(n).read]
<1>1. Keep(n).write = mid[n] /\ Keep(n).read = 1 /\ n - 1 + 1 = n /\ n + 1 <= Len(mid) + 1
  BY DEF Keep
<1>2. mid[n] \in Ops /\ t[n] = Execute(t[n - 1], mid[n])
  BY DEF IsTrace
<1>3. Keep(n) \in Pieces(Ops)
  BY <1>2 DEF Keep, Pieces
<1>4. QED
  BY <1>1, <1>2, <1>3

\* Pieces that each do what they stand for
IsGood(piece, n, t) ==
    /\ piece \in Pieces(Ops) /\ n + piece.read <= Len(mid) + 1
    /\ Execute(t[n - 1], piece.write) = t[n - 1 + piece.read]

LEMMA GoodPieces ==
    ASSUME mid \in Seq(Ops), NEW s, Reaches(Reset, mid, s), NEW pieces,
           pieces \in [DOMAIN mid -> Pieces(Ops)],
           \A t : IsTrace(t, mid) => \A n \in 1 .. Len(mid) : IsGood(pieces[n], n, t)
    PROVE  Rewritten(pieces) \in Seq(Ops) /\ Reaches(Reset, Rewritten(pieces), s)
<1> DEFINE P == Pieces(Ops)
<1>1. PICK t : IsTrace(t, mid) /\ t[0] = Reset /\ t[Len(mid)] = s
  BY DEF Reaches
<1>2. Len(mid) \in Nat /\ DOMAIN mid = 1 .. Len(mid)
  OBVIOUS
<1>3. pieces \in Seq(P) /\ Len(pieces) = Len(mid)
  <2> HIDE DEF P
  <2>1. pieces \in [1 .. Len(mid) -> P]
    BY <1>2 DEF P
  <2>2. QED
    BY <1>2, <2>1
<1>4. ArePieces(pieces, Ops)
  BY <1>1, <1>3 DEF ArePieces, IsGood
<1>5. \A n \in 1 .. Len(mid) :
         Execute(t[n - 1], pieces[n].write) = t[n - 1 + pieces[n].read]
  BY <1>1 DEF IsGood
<1>6. QED
  BY <1>1, <1>3, <1>4, <1>5, RewrittenMeans


\* optimize phase 1 of rebases: before it each "times" is of one pointer
LEMMA PackedIsGood ==
    ASSUME mid \in Seq(Ops), \A n \in DOMAIN mid : mid[n].op = "times" => mid[n].a = 1,
           NEW t, IsTrace(t, mid), NEW n \in 1 .. Len(mid)
    PROVE  IsGood(PackedRun(n), n, t)
<1> DEFINE K == RunLength(n)
           w == Op("times", K)
<1>1. CASE mid[n].op # "times"
  BY <1>1, Kept DEF PackedRun, IsGood
<1>2. CASE mid[n].op = "times"
  <2>1. PackedRun(n) = [write |-> w, read |-> K]
    BY <1>2 DEF PackedRun
  <2>2. K \in Nat \ {0} /\ n + K <= Len(mid) + 1
    BY RunIsAlike
  <2>3. ASSUME NEW r \in Regs  PROVE Execute(r, mid[n]) = DoPointer(r, 0)
    <3>1. mid[n].a = 1
      BY <1>2
    <3>2. Execute(r, mid[n]) = DoTimes(r, 1, 0)
      BY <1>2, <3>1 DEF Execute
    <3>3. QED
      BY <3>2, TimesOne
  <2>4. t[n - 1 + K] = DoTimes(t[n - 1], K, 0)
    <3>1. \A r \in Regs : Execute(r, mid[n]) = DoPointer(r, 0)
      BY <2>3
    <3>2. 0 \in Nat
      OBVIOUS
    <3>3. QED
      BY <3>1, <3>2, RunIsLoop
  <2> HIDE DEF K
  <2>5. Execute(t[n - 1], w) = DoTimes(t[n - 1], K, 0)
    BY DEF Execute, Op
  <2>6. w \in Ops
    BY <2>2 DEF Op, Ops
  <2> HIDE DEF w
  <2>7. [write |-> w, read |-> K] \in Pieces(Ops)
    BY <2>2, <2>6 DEF Pieces
  <2>8. QED
    BY <2>1, <2>2, <2>4, <2>5, <2>7 DEF IsGood
<1>3. QED
  BY <1>1, <1>2

\* A pointer, and then the address moved on
LEMMA PointerAndDistance ==
    ASSUME NEW r \in Regs, NEW d \in Nat, NEW o, o.op = "add", o.a = d
    PROVE  Execute(DoPointer(r, 0), o) = DoPointer(r, d)
<1> DEFINE out == [type |-> r.type, ordinal |-> r.ordinal, sym |-> r.sym, flag |-> r.flag,
                   addend |-> r.addend, seg |-> r.seg, offset |-> r.address]
           x == DoPointer(r, 0)
           y == (r.address + PtrSize + 0) % Space
           z == (r.address + PtrSize + d) % Space
<1>1. x = [r EXCEPT !.address = y, !.out = Append(r.out, out)]
  BY DEF DoPointer, Regs
<1>2. DoPointer(r, d) = [r EXCEPT !.address = z, !.out = Append(r.out, out)]
  BY DEF DoPointer, Regs
<1>3. x \in Regs
  BY PointerTyped
<1>4. Execute(x, o) = [x EXCEPT !.address = (x.address + d) % Space]
  BY <1>3 DEF Execute, Regs
<1>5. (y + d) % Space = z
  <2>1. r.address + PtrSize \in Int /\ d \in Int /\ Space \in Nat \ {0}
    BY StreamAssumption DEF Regs
  <2>2. r.address + PtrSize + 0 = r.address + PtrSize
        /\ (r.address + PtrSize) + d = r.address + PtrSize + d
    BY <2>1, StreamAssumption DEF Regs
  <2>3. (((r.address + PtrSize) % Space) + d) % Space = ((r.address + PtrSize) + d) % Space
    BY <2>1, SumModulo
  <2>4. QED
    BY <2>2, <2>3
<1>6. x.address = y
  <2> HIDE DEF x, y, out
  <2>1. QED
    BY <1>1 DEF Regs
<1> HIDE DEF x, y, z, out
<1>7. [x EXCEPT !.address = z] = [r EXCEPT !.address = z, !.out = Append(r.out, out)]
  BY <1>1 DEF Regs
<1>8. QED
  BY <1>2, <1>4, <1>5, <1>6, <1>7 DEF x

LEMMA CombinedIsGood ==
    ASSUME mid \in Seq(Ops), NEW t, IsTrace(t, mid), NEW n \in 1 .. Len(mid)
    PROVE  IsGood(CombinedPair(n), n, t)
<1> DEFINE pairs == (mid[n] = Op("times", 1) \/ mid[n].op = "bind") /\ n < Len(mid)
                    /\ mid[n + 1].op = "add"
           w == Op(IF mid[n].op = "bind" THEN "bindAdd" ELSE "timesAdd", mid[n + 1].a)
<1>1. CASE ~ pairs
  BY <1>1, Kept DEF CombinedPair, IsGood
<1>2. CASE pairs
  <2>1. CombinedPair(n) = [write |-> w, read |-> 2]
    BY <1>2 DEF CombinedPair
  <2>2. n + 1 \in 1 .. Len(mid) /\ n + 2 <= Len(mid) + 1 /\ n - 1 + 2 = n + 1 /\ (n + 1) - 1 = n
        /\ n - 1 \in 0 .. Len(mid)
    BY <1>2
  <2>3. mid[n] \in Ops /\ mid[n + 1] \in Ops
    BY <2>2
  <2>4. t[n - 1] \in Regs /\ t[n] = Execute(t[n - 1], mid[n])
        /\ t[n + 1] = Execute(t[(n + 1) - 1], mid[n + 1])
    BY <2>2 DEF IsTrace
  <2>5. mid[n + 1].a \in Nat
    BY <1>2, <2>3 DEF Ops
  <2> DEFINE a == mid[n + 1].a
  <2>6. t[n] = DoPointer(t[n - 1], 0)
    <3>1. CASE mid[n].op = "bind"
      BY <2>4, <3>1 DEF Execute
    <3>2. CASE mid[n] = Op("times", 1)
      <4>1. Execute(t[n - 1], mid[n]) = DoTimes(t[n - 1], 1, 0)
        BY <3>2 DEF Execute, Op
      <4>2. 0 \in Nat
        OBVIOUS
      <4>3. QED
        BY <2>4, <4>1, <4>2, TimesOne
    <3>3. QED
      BY <1>2, <3>1, <3>2
  <2>7. t[n + 1] = DoPointer(t[n - 1], a)
    <3>1. t[n + 1] = Execute(DoPointer(t[n - 1], 0), mid[n + 1])
      BY <2>2, <2>4, <2>6
    <3>2. mid[n + 1].op = "add" /\ mid[n + 1].a = a
      BY <1>2
    <3> HIDE DEF a
    <3>3. a \in Nat
      BY <2>5 DEF a
    <3>4. QED
      BY <2>4, <3>1, <3>2, <3>3, PointerAndDistance
  <2>8. w \in Ops /\ Execute(t[n - 1], w) = DoPointer(t[n - 1], a)
    <3> HIDE DEF a
    <3>1. a \in Nat /\ (w = [op |-> "bindAdd", a |-> a] \/ w = [op |-> "timesAdd", a |-> a])
      BY <2>5 DEF Op, a
    <3> HIDE DEF w
    <3>2. QED
      BY <3>1 DEF Ops, Execute
  <2> HIDE DEF w, a
  <2>9. [write |-> w, read |-> 2] \in Pieces(Ops)
    BY <2>8 DEF Pieces
  <2>10. QED
    BY <2>1, <2>2, <2>7, <2>8, <2>9 DEF IsGood
<1>3. QED
  BY <1>1, <1>2

LEMMA CompressedIsGood ==
    ASSUME mid \in Seq(Ops), NEW t, IsTrace(t, mid), NEW n \in 1 .. Len(mid)
    PROVE  IsGood(CompressedRun(n), n, t)
<1> DEFINE K == RunLength(n)
           a == mid[n].a
           w == Op2("skipping", K, a)
           runs == mid[n].op \in {"bindAdd", "timesAdd"} /\ K >= WorthCompressing
<1>1. CASE ~ runs
  BY <1>1, Kept DEF CompressedRun, IsGood
<1>2. CASE runs
  <2>1. CompressedRun(n) = [write |-> w, read |-> K]
    BY <1>2 DEF CompressedRun
  <2>2. K \in Nat \ {0} /\ n + K <= Len(mid) + 1
    BY RunIsAlike
  <2>3. mid[n] \in Ops
    BY SMTT(40)
  <2>4. a \in Nat /\ \A r \in Regs : Execute(r, mid[n]) = DoPointer(r, a)
    BY <1>2, <2>3 DEF Ops, Execute
  <2> HIDE DEF a
  <2>5. t[n - 1 + K] = DoTimes(t[n - 1], K, a)
    BY <2>4, RunIsLoop
  <2> HIDE DEF K
  <2>6. Execute(t[n - 1], w) = DoTimes(t[n - 1], K, a)
    BY DEF Execute, Op2
  <2>7. w \in Ops
    BY <2>2, <2>4 DEF Op2, Ops
  <2> HIDE DEF w
  <2>8. [write |-> w, read |-> K] \in Pieces(Ops)
    BY <2>2, <2>7 DEF Pieces
  <2>9. QED
    BY <2>1, <2>2, <2>5, <2>6, <2>8 DEF IsGood
<1>3. QED
  BY <1>1, <1>2

\* What fits beside the opcode does the same.
LEMMA ImmediateIs ==
    ASSUME NEW o \in Ops
    PROVE  Immediate(o) \in Ops /\ \A r : Execute(r, Immediate(o)) = Execute(r, o)
<1>1. CASE o.op \in {"add", "bindAdd"} /\ Scalable(o.a)
  <2>1. o.a \in Nat
    BY <1>1 DEF Ops
  <2>2. (o.a \div PtrSize) * PtrSize = o.a
    <3>1. o.a \in Int /\ o.a % PtrSize = 0
      BY <1>1, <2>1 DEF Scalable
    <3>2. QED
      BY <3>1, StreamAssumption, Divides
  <2>3. o.a \div PtrSize \in Nat
    BY <2>1, StreamAssumption
  <2> DEFINE q == o.a \div PtrSize
  <2> HIDE DEF q
  <2>4. q \in Nat /\ q * PtrSize = o.a
    BY <2>2, <2>3 DEF q
  <2>5. Immediate(o) \in {o, Op("addScaled", q), Op("bindAddScaled", q)}
        /\ (Immediate(o) = Op("addScaled", q) => o.op = "add")
        /\ (Immediate(o) = Op("bindAddScaled", q) => o.op = "bindAdd")
    BY <1>1 DEF Immediate, Op, q
  <2>6. CASE Immediate(o) = o
    BY <2>6
  <2>7. CASE Immediate(o) = Op("addScaled", q)
    <3>1. o.op = "add"
      BY <2>5, <2>7
    <3>2. Op("addScaled", q) \in Ops
      BY <2>4 DEF Op, Ops
    <3>3. \A r : Execute(r, Op("addScaled", q)) = [r EXCEPT !.address = (@ + q * PtrSize) % Space]
      BY DEF Op, Execute
    <3>4. \A r : Execute(r, o) = [r EXCEPT !.address = (@ + o.a) % Space]
      BY <3>1 DEF Execute
    <3>5. QED
      BY <2>4, <2>7, <3>2, <3>3, <3>4
  <2>8. CASE Immediate(o) = Op("bindAddScaled", q)
    <3>1. o.op = "bindAdd"
      BY <2>5, <2>8
    <3>2. Op("bindAddScaled", q) \in Ops
      BY <2>4 DEF Op, Ops
    <3>3. \A r : Execute(r, Op("bindAddScaled", q)) = DoPointer(r, q * PtrSize)
      BY DEF Op, Execute
    <3>4. \A r : Execute(r, o) = DoPointer(r, o.a)
      BY <3>1 DEF Execute
    <3>5. QED
      BY <2>4, <2>8, <3>2, <3>3, <3>4
  <2>9. QED
    BY <2>5, <2>6, <2>7, <2>8
<1>2. CASE ~ (o.op \in {"add", "bindAdd"} /\ Scalable(o.a))
  <2>1. \/ Immediate(o) = o
        \/ o.op = "times" /\ Immediate(o) = Op("timesImm", o.a)
        \/ o.op = "ordinal" /\ Immediate(o) = Op("ordinalImm", o.a)
    BY <1>2 DEF Immediate
  <2>2. CASE Immediate(o) = o
    BY <2>2
  <2>3. CASE o.op = "times" /\ Immediate(o) = Op("timesImm", o.a)
    <3>1. o.a \in Nat
      BY <2>3 DEF Ops
    <3>2. Op("timesImm", o.a) \in Ops
      BY <3>1 DEF Op, Ops
    <3>3. \A r : Execute(r, Op("timesImm", o.a)) = DoTimes(r, o.a, 0) /\ Execute(r, o) = DoTimes(r, o.a, 0)
      BY <2>3 DEF Op, Execute
    <3>4. QED
      BY <2>3, <3>2, <3>3
  <2>4. CASE o.op = "ordinal" /\ Immediate(o) = Op("ordinalImm", o.a)
    <3>1. o.a \in Int
      BY <2>4 DEF Ops
    <3>2. Op("ordinalImm", o.a) \in Ops
      BY <3>1 DEF Op, Ops
    <3>3. \A r : Execute(r, Op("ordinalImm", o.a)) = Execute(r, o)
      BY <2>4 DEF Op, Execute
    <3>4. QED
      BY <2>4, <3>2, <3>3
  <2>5. QED
    BY <2>1, <2>2, <2>3, <2>4
<1>3. QED
  BY <1>1, <1>2

LEMMA ImmediatesReach ==
    ASSUME mid \in Seq(Ops), NEW s, Reaches(Reset, mid, s), NEW w,
           w = [n \in DOMAIN mid |-> Immediate(mid[n])]
    PROVE  w \in Seq(Ops) /\ Reaches(Reset, w, s)
<1>1. PICK t : IsTrace(t, mid) /\ t[0] = Reset /\ t[Len(mid)] = s
  BY DEF Reaches
<1>2. Len(mid) \in Nat /\ DOMAIN mid = 1 .. Len(mid) /\ \A n \in 1 .. Len(mid) : mid[n] \in Ops
  OBVIOUS
<1>3. w \in [1 .. Len(mid) -> Ops]
  BY <1>2, ImmediateIs
<1>4. w \in Seq(Ops) /\ Len(w) = Len(mid)
  BY <1>2, <1>3
<1>5. t \in [0 .. Len(mid) -> Regs] /\ \A n \in 1 .. Len(mid) : t[n] = Execute(t[n - 1], mid[n])
  BY <1>1 DEF IsTrace
<1>6. \A n \in 1 .. Len(mid) : w[n] = Immediate(mid[n])
  BY <1>2
<1>7. \A n \in 1 .. Len(mid) : t[n] = Execute(t[n - 1], w[n])
  BY <1>2, <1>5, <1>6, ImmediateIs
<1>8. IsTrace(t, w)
  BY <1>4, <1>5, <1>7 DEF IsTrace
<1>9. QED
  BY <1>1, <1>4, <1>8 DEF Reaches


------------------------------------------------------------------------------
(***************************************************************************)
(* OpcodeStream: sorting.                                                  *)
(***************************************************************************)
\* Keys of one length are in a strict order.
LEMMA LessIsStrict ==
    ASSUME NEW K \in Nat, NEW a \in [1 .. K -> Int], NEW b \in [1 .. K -> Int],
           NEW c \in [1 .. K -> Int]
    PROVE  /\ ~ Less(a, a)
           /\ Less(a, b) /\ Less(b, c) => Less(a, c)
           /\ a # b => Less(a, b) \/ Less(b, a)
<1>0. /\ \A k \in 1 .. K : a[k] \in Int /\ b[k] \in Int /\ c[k] \in Int
      /\ DOMAIN a = 1 .. K /\ DOMAIN b = 1 .. K
  OBVIOUS
<1>1. ~ Less(a, a)
  <2>1. \A k \in 1 .. K : ~ (a[k] < a[k])
    BY <1>0
  <2>2. QED
    BY <1>0, <2>1 DEF Less
<1>2. ASSUME Less(a, b), Less(b, c)  PROVE Less(a, c)
  <2>1. PICK i \in 1 .. K : a[i] < b[i] /\ \A j \in 1 .. i - 1 : a[j] = b[j]
    BY <1>0, <1>2 DEF Less
  <2>2. PICK k \in 1 .. K : b[k] < c[k] /\ \A j \in 1 .. k - 1 : b[j] = c[j]
    BY <1>0, <1>2 DEF Less
  <2>3. CASE i < k
    <3>1. i \in 1 .. k - 1
      BY <2>3
    <3>2. a[i] < c[i]
      BY <2>1, <2>2, <3>1
    <3>3. \A j \in 1 .. i - 1 : j \in 1 .. k - 1
      BY <2>3
    <3>4. \A j \in 1 .. i - 1 : a[j] = c[j]
      BY <2>1, <2>2, <3>3
    <3>5. QED
      BY <1>0, <3>2, <3>4 DEF Less
  <2>4. CASE k <= i
    <3>1. a[k] <= b[k]
      <4>1. CASE k = i
        BY <1>0, <2>1, <4>1
      <4>2. CASE k # i
        <5>1. k \in 1 .. i - 1
          BY <2>4, <4>2
        <5>2. QED
          BY <1>0, <2>1, <5>1
      <4>3. QED
        BY <4>1, <4>2
    <3>2. a[k] < c[k]
      BY <1>0, <2>2, <3>1
    <3>3. \A j \in 1 .. k - 1 : j \in 1 .. i - 1
      BY <2>4
    <3>4. \A j \in 1 .. k - 1 : a[j] = c[j]
      BY <2>1, <2>2, <3>3
    <3>5. QED
      BY <1>0, <3>2, <3>4 DEF Less
  <2>5. QED
    BY <2>3, <2>4
<1>3. ASSUME a # b  PROVE Less(a, b) \/ Less(b, a)
  <2> DEFINE D == {k \in 1 .. K : a[k] # b[k]}
  <2>1. D \in SUBSET Nat
    OBVIOUS
  <2>2. D # {}
    <3>1. a = [k \in 1 .. K |-> a[k]] /\ b = [k \in 1 .. K |-> b[k]]
      OBVIOUS
    <3>2. (\A k \in 1 .. K : a[k] = b[k]) => a = b
      BY <3>1
    <3>3. QED
      BY <1>3, <3>2
  <2>3. PICK k \in D : \A j \in D : k <= j
    <3> HIDE DEF D
    <3>1. QED
      BY <2>1, <2>2, LeastNumber
  <2>4. k \in 1 .. K /\ a[k] # b[k]
    OBVIOUS
  <2>5. ASSUME NEW j \in 1 .. k - 1  PROVE a[j] = b[j]
    <3>1. j \in 1 .. K /\ ~ (k <= j)
      BY <2>4
    <3>2. j \notin D
      BY <2>3, <3>1
    <3>3. QED
      BY <3>1, <3>2
  <2>6. a[k] < b[k] \/ b[k] < a[k]
    BY <1>0, <2>4
  <2> HIDE DEF D
  <2>7. QED
    BY <1>0, <2>4, <2>5, <2>6 DEF Less
<1>4. QED
  BY <1>1, <1>2, <1>3

\* How long the keys of a stream are
KeySize == IF table.stream = "rebase" THEN 2 ELSE IF table.stream = "bind" THEN 5 ELSE 3

LEMMA KeyTyped ==
    ASSUME NEW e \in Entries
    PROVE  KeySize \in Nat /\ Key(e) \in [1 .. KeySize -> Int]
<1>1. /\ e.type \in Int /\ e.address \in Int /\ e.ordinal \in Int /\ e.sym \in Int
      /\ (IF e.flag THEN 0 ELSE 1) \in Int
  BY StreamAssumption DEF Entries
<1>2. CASE table.stream = "rebase"
  BY <1>1, <1>2 DEF KeySize, Key
<1>3. CASE table.stream # "rebase" /\ table.stream = "bind"
  BY <1>1, <1>3 DEF KeySize, Key
<1>4. CASE table.stream # "rebase" /\ table.stream # "bind"
  BY <1>1, <1>4 DEF KeySize, Key
<1>5. QED
  BY <1>2, <1>3, <1>4

LEMMA KeyTells ==
    ASSUME InputOK(table), NEW e \in table.info, NEW f \in table.info, Key(e) = Key(f)
    PROVE  e = f
<1>1. e \in Entries /\ f \in Entries
  BY DEF InputOK
<1>2. e.type = f.type /\ e.address = f.address /\ (table.stream # "rebase" => e.sym = f.sym)
  <2>1. CASE table.stream = "rebase"
    BY <2>1 DEF Key
  <2>2. CASE table.stream # "rebase" /\ table.stream = "bind"
    BY <2>2 DEF Key
  <2>3. CASE table.stream # "rebase" /\ table.stream # "bind"
    BY <2>3 DEF Key
  <2>4. QED
    BY <2>1, <2>2, <2>3
<1>3. CASE e.type # Override
  <2> DEFINE pointers == {p \in table.info : p.type # Override}
  <2>1. e \in pointers /\ f \in pointers
    BY <1>2, <1>3
  <2>2. e # f => e.address - f.address >= PtrSize \/ f.address - e.address >= PtrSize
    BY <2>1 DEF InputOK
  <2>3. e.address \in Int /\ e.address - f.address = 0 /\ f.address - e.address = 0 /\ ~ (0 >= PtrSize)
    BY <1>1, <1>2, StreamAssumption DEF Entries
  <2>4. QED
    BY <2>2, <2>3
<1>4. CASE e.type = Override
  <2> DEFINE pointers == {p \in table.info : p.type # Override}
  <2>1. e \in table.info \ pointers /\ f \in table.info \ pointers
    BY <1>2, <1>4
  <2>2. table.stream # "weak" => pointers = table.info
    BY DEF InputOK
  <2>3. table.stream = "weak"
    <3> HIDE DEF pointers
    <3>1. QED
      BY <2>1, <2>2
  <2>4. e.sym = f.sym
    BY <1>2, <2>3
  <2>5. QED
    BY <2>1, <2>4 DEF InputOK
<1>5. QED
  BY <1>3, <1>4

\* The entries in the order of their keys
TableInOrder(entries) ==
    LET N == Cardinality(table.info)
    IN  /\ entries \in [1 .. N -> table.info]
        /\ \A e \in table.info : \E n \in 1 .. N : entries[n] = e
        /\ \A m, n \in 1 .. N : m < n => Less(Key(entries[m]), Key(entries[n]))

LEMMA RankGrows ==
    ASSUME InputOK(table), NEW e \in table.info, NEW f \in table.info, Less(Key(e), Key(f))
    PROVE  Rank(e) < Rank(f)
<1> DEFINE Before(g) == {h \in table.info : Less(Key(h), Key(g))}
<1>1. IsFiniteSet(table.info) /\ \A h \in table.info : h \in Entries
  BY DEF InputOK
<1>2. ASSUME NEW h \in table.info, Less(Key(h), Key(e))  PROVE Less(Key(h), Key(f))
  <2>1. KeySize \in Nat /\ Key(h) \in [1 .. KeySize -> Int] /\ Key(e) \in [1 .. KeySize -> Int]
        /\ Key(f) \in [1 .. KeySize -> Int]
    BY <1>1, KeyTyped
  <2>2. QED
    BY <1>2, <2>1, LessIsStrict
<1>3. ~ Less(Key(e), Key(e))
  <2>1. KeySize \in Nat /\ Key(e) \in [1 .. KeySize -> Int]
    BY <1>1, KeyTyped
  <2>2. QED
    BY <2>1, LessIsStrict
<1>4. Before(e) \in SUBSET Before(f) /\ e \in Before(f) /\ e \notin Before(e)
      /\ Before(f) \in SUBSET table.info
  BY <1>2, <1>3
<1>5. Rank(e) = Cardinality(Before(e)) /\ Rank(f) = Cardinality(Before(f))
  BY DEF Rank
<1> HIDE DEF Before
<1>6. IsFiniteSet(Before(f))
  BY <1>1, <1>4, FS_Subset
<1>7. IsFiniteSet(Before(e)) /\ Cardinality(Before(e)) <= Cardinality(Before(f))
      /\ (Cardinality(Before(f)) = Cardinality(Before(e)) => Before(f) = Before(e))
  BY <1>4, <1>6, FS_Subset
<1>8. Cardinality(Before(e)) \in Nat /\ Cardinality(Before(f)) \in Nat
  BY <1>6, <1>7, FS_CardinalityType
<1>9. QED
  BY <1>4, <1>5, <1>7, <1>8

LEMMA RankTyped ==
    ASSUME InputOK(table), NEW e \in table.info
    PROVE  Rank(e) \in 0 .. Cardinality(table.info) - 1
<1> DEFINE before == {h \in table.info : Less(Key(h), Key(e))}
<1>1. IsFiniteSet(table.info) /\ e \in Entries
  BY DEF InputOK
<1>2. ~ Less(Key(e), Key(e))
  <2>1. KeySize \in Nat /\ Key(e) \in [1 .. KeySize -> Int]
    BY <1>1, KeyTyped
  <2>2. QED
    BY <2>1, LessIsStrict
<1>3. before \in SUBSET table.info /\ e \notin before /\ Rank(e) = Cardinality(before)
  BY <1>2 DEF Rank
<1> HIDE DEF before
<1>4. IsFiniteSet(before) /\ Cardinality(before) <= Cardinality(table.info)
      /\ (Cardinality(table.info) = Cardinality(before) => table.info = before)
  BY <1>1, <1>3, FS_Subset
<1>5. Cardinality(before) \in Nat /\ Cardinality(table.info) \in Nat
  BY <1>1, <1>4, FS_CardinalityType
<1>6. QED
  BY <1>3, <1>4, <1>5

\* Sorting puts every entry in its place.
LEMMA SortedByRank ==
    ASSUME InputOK(table), NEW entries,
           entries = [n \in 1 .. Cardinality(table.info) |->
                         CHOOSE e \in table.info : Rank(e) = n - 1]
    PROVE  TableInOrder(entries)
<1> DEFINE T == table.info
           N == Cardinality(T)
           f == [e \in T |-> Rank(e)]
<1>1. IsFiniteSet(T) /\ N \in Nat /\ \A e \in T : e \in Entries
  BY FS_CardinalityType DEF InputOK
<1>2. \A e, g \in T : Less(Key(e), Key(g)) => Rank(e) < Rank(g)
  BY RankGrows
<1>3. \A e \in T : Rank(e) \in 0 .. N - 1
  BY RankTyped
<1>4. \A e, g \in T : e # g => Less(Key(e), Key(g)) \/ Less(Key(g), Key(e))
  <2> SUFFICES ASSUME NEW e \in T, NEW g \in T, e # g
               PROVE  Less(Key(e), Key(g)) \/ Less(Key(g), Key(e))
    OBVIOUS
  <2>1. KeySize \in Nat /\ Key(e) \in [1 .. KeySize -> Int] /\ Key(g) \in [1 .. KeySize -> Int]
    BY <1>1, KeyTyped
  <2>2. Key(e) # Key(g)
    BY KeyTells
  <2>3. QED
    BY <2>1, <2>2, LessIsStrict
<1> HIDE DEF T, N
<1>5. \A e, g \in T : Rank(e) = Rank(g) => e = g
  <2> SUFFICES ASSUME NEW e \in T, NEW g \in T, Rank(e) = Rank(g), e # g  PROVE FALSE
    OBVIOUS
  <2>1. Rank(e) < Rank(g) \/ Rank(g) < Rank(e)
    BY <1>2, <1>4
  <2>2. Rank(e) \in Int
    BY <1>3
  <2>3. QED
    BY <2>1, <2>2
<1>6. f \in Injection(T, 0 .. N - 1)
  <2>1. f \in [T -> 0 .. N - 1]
    BY <1>3
  <2>2. \A e, g \in T : f[e] = f[g] => e = g
    BY <1>5
  <2> HIDE DEF f
  <2>3. QED
    BY <2>1, <2>2 DEF Injection, IsInjective
<1>7. IsFiniteSet(0 .. N - 1) /\ Cardinality(0 .. N - 1) = N
  <2>1. 0 \in Int /\ N - 1 \in Int
    BY <1>1
  <2>2. QED
    BY <1>1, <2>1, FS_Interval
<1>8. f \in Surjection(T, 0 .. N - 1)
  <2> HIDE DEF f
  <2>1. Cardinality(T) = Cardinality(0 .. N - 1)
    BY <1>7 DEF N
  <2>2. QED
    BY <1>6, <1>7, <2>1, FS_Injection
<1>9. \A k \in 0 .. N - 1 : \E e \in T : Rank(e) = k
  <2>1. \A k \in 0 .. N - 1 : \E e \in T : f[e] = k
    <3> HIDE DEF f
    <3>1. QED
      BY <1>8 DEF Surjection
  <2>2. QED
    BY <2>1
<1>10. entries = [n \in 1 .. N |-> CHOOSE e \in T : Rank(e) = n - 1]
  BY DEF N, T
<1>11. ASSUME NEW n \in 1 .. N  PROVE entries[n] \in T /\ Rank(entries[n]) = n - 1
  <2>1. n - 1 \in 0 .. N - 1
    BY <1>1
  <2>2. \E e \in T : Rank(e) = n - 1
    BY <1>9, <2>1
  <2>3. entries[n] = CHOOSE e \in T : Rank(e) = n - 1
    BY <1>10
  <2>4. QED
    BY <2>2, <2>3
<1>12. entries \in [1 .. N -> T]
  BY <1>10, <1>11
<1>13. ASSUME NEW e \in T  PROVE \E n \in 1 .. N : entries[n] = e
  <2>1. Rank(e) \in 0 .. N - 1
    BY <1>3
  <2>2. Rank(e) + 1 \in 1 .. N /\ (Rank(e) + 1) - 1 = Rank(e)
    BY <1>1, <2>1
  <2>3. Rank(entries[Rank(e) + 1]) = Rank(e) /\ entries[Rank(e) + 1] \in T
    BY <1>11, <2>2
  <2>4. entries[Rank(e) + 1] = e
    BY <1>5, <2>3
  <2>5. QED
    BY <2>2, <2>4
<1>14. ASSUME NEW m \in 1 .. N, NEW n \in 1 .. N, m < n
       PROVE  Less(Key(entries[m]), Key(entries[n]))
  <2>1. /\ entries[m] \in T /\ Rank(entries[m]) = m - 1
        /\ entries[n] \in T /\ Rank(entries[n]) = n - 1
    BY <1>11
  <2>2. m - 1 # n - 1 /\ ~ (n - 1 < m - 1)
    BY <1>1, <1>14
  <2>3. QED
    BY <1>2, <1>4, <2>1, <2>2
<1>15. QED
  BY <1>12, <1>13, <1>14 DEF TableInOrder, N, T


------------------------------------------------------------------------------
(***************************************************************************)
(* OpcodeStream: the plain program.                                        *)
(***************************************************************************)
\* A program that takes the machine to a state and has no runs yet
Writes(m, s) ==
    /\ m \in Seq(Ops) /\ Reaches(Reset, m, s)
    /\ \A n \in DOMAIN m : m[n].op = "times" => m[n].a = 1

LEMMA WritesNothing == Writes(<<>>, Reset)
<1>1. <<>> \in Seq(Ops) /\ DOMAIN <<>> = {}
  OBVIOUS
<1>2. QED
  BY <1>1, ResetTyped, ReachesNothing DEF Writes

LEMMA WritesOne ==
    ASSUME NEW m, NEW s, Writes(m, s), NEW o \in Ops, o.op = "times" => o.a = 1
    PROVE  Writes(m \o <<o>>, Execute(s, o)) /\ s \in Regs
<1> DEFINE w == m \o <<o>>
<1>1. m \in Seq(Ops) /\ Reaches(Reset, m, s)
      /\ \A n \in DOMAIN m : m[n].op = "times" => m[n].a = 1
  BY DEF Writes
<1>2. /\ Len(m) \in Nat /\ DOMAIN m = 1 .. Len(m) /\ DOMAIN w = 1 .. Len(m) + 1
      /\ w[Len(m) + 1] = o /\ \A n \in 1 .. Len(m) : w[n] = m[n]
      /\ w \in Seq(Ops)
  BY <1>1
<1>3. Reaches(Reset, w, Execute(s, o))
  BY <1>1, ReachesLast
<1>4. s \in Regs
  BY <1>1, ReachesTyped
<1> HIDE DEF w
<1>5. \A n \in DOMAIN w : w[n].op = "times" => w[n].a = 1
  <2>1. \A n \in DOMAIN w : n \in 1 .. Len(m) \/ n = Len(m) + 1
    BY <1>2
  <2>2. QED
    BY <1>1, <1>2, <2>1
<1>6. Writes(w, Execute(s, o))
  BY <1>2, <1>3, <1>5 DEF Writes
<1>7. QED
  BY <1>4, <1>6 DEF w

\* An operation that is written only if the machine does not know yet
LEMMA WritesMaybe ==
    ASSUME NEW m, NEW s, Writes(m, s), NEW known \in BOOLEAN,
           NEW o, ~ known => o \in Ops /\ o.op # "times"
    PROVE  /\ Writes(m \o (IF known THEN <<>> ELSE <<o>>), IF known THEN s ELSE Execute(s, o))
           /\ s \in Regs
<1>1. CASE known
  <2>1. m \in Seq(Ops) /\ Reaches(Reset, m, s)
    BY DEF Writes
  <2>2. m \o <<>> = m
    BY <2>1
  <2>4. s \in Regs
    BY <2>1, ReachesTyped
  <2>3. QED
    BY <1>1, <2>2, <2>4
<1>2. CASE ~ known
  BY <1>2, WritesOne
<1>3. QED
  BY <1>1, <1>2

\* What the encoder remembers
Encoders == [ordinal : Int, sym : Nat, type : Nat, seg : Nat, address : 0 .. Space - 1,
             addend : Int, out : Seq(Ops)]

\* An entry's pointer
IsPointer(e) == e \in table.info /\ e.type # Override

LEMMA SegmentTyped ==
    ASSUME InputOK(table), NEW g \in DOMAIN table.segs
    PROVE  /\ g \in Nat \ {0} /\ table.segs[g].start \in Nat /\ table.segs[g].end \in Nat
           /\ table.segs[g].end < Space
<1>1. table.segs \in Seq(Segments) /\ table.segs[g].end < Space
  BY DEF InputOK
<1>2. table.segs[g] \in Segments /\ g \in Nat \ {0}
  BY <1>1
<1>3. QED
  BY <1>1, <1>2 DEF Segments

LEMMA PointerInSegment ==
    ASSUME InputOK(table), NEW e, IsPointer(e)
    PROVE  /\ e.address # 0 /\ e.address + PtrSize < Space
           /\ SegOf(e.address) \in DOMAIN table.segs
           /\ table.segs[SegOf(e.address)].start <= e.address
           /\ e.address < table.segs[SegOf(e.address)].end
<1> DEFINE a == e.address
           G == DOMAIN table.segs
<1>1. e \in Entries /\ a \in 0 .. Space - 1
  BY DEF InputOK, IsPointer, Entries
<1>2. a # 0 /\ \E g \in G : a \in table.segs[g].start .. table.segs[g].end - PtrSize
  <2>1. e \in {p \in table.info : p.type # Override}
    BY DEF IsPointer
  <2>2. QED
    BY <2>1 DEF InputOK
<1>3. \A g \in G : /\ table.segs[g].start \in Nat /\ table.segs[g].end \in Nat
                   /\ table.segs[g].end < Space
  <2>1. table.segs \in Seq(Segments) /\ \A g \in G : table.segs[g].end < Space
    BY DEF InputOK
  <2>2. \A g \in G : table.segs[g] \in Segments
    BY <2>1
  <2>3. QED
    BY <2>1, <2>2 DEF Segments
<1>4. PtrSize \in Nat /\ PtrSize > 0 /\ Space \in Nat
  BY StreamAssumption
<1> HIDE DEF a, G
<1>5. PICK g \in G : a \in table.segs[g].start .. table.segs[g].end - PtrSize
  BY <1>2
<1>6. a >= table.segs[g].start /\ a < table.segs[g].end /\ a + PtrSize < Space /\ a \in Int
  BY <1>1, <1>3, <1>4, <1>5
<1>7. SegOf(a) \in G /\ a >= table.segs[SegOf(a)].start /\ a < table.segs[SegOf(a)].end
  BY <1>6 DEF SegOf, G
<1>8. table.segs[SegOf(a)].start \in Int
  BY <1>3, <1>7
<1>9. QED
  BY <1>2, <1>6, <1>7, <1>8 DEF a, G

\* The parts of ConvertEntry
NewSeg(r, e) == IF r.address = e.address \/ InSeg(r.seg, e.address)
                THEN r.seg ELSE SegOf(e.address)

Named(r, e) ==
    (r.out \o (IF table.stream # "bind" \/ r.ordinal = e.ordinal THEN <<>>
               ELSE <<Op(IF e.ordinal <= 0 THEN "special" ELSE "ordinal", e.ordinal)>>))
           \o (IF table.stream = "rebase" \/ r.sym = e.sym THEN <<>>
               ELSE <<Op2("symbol", e.sym, e.flag)>>)

Pointed(r, e, seg, out) ==
    (((out \o (IF r.type = e.type THEN <<>> ELSE <<Op("type", e.type)>>))
           \o (IF r.address = e.address THEN <<>>
               ELSE IF InSeg(r.seg, e.address)
               THEN <<Op("add", Delta(r.address, e.address))>>
               ELSE <<Op2("seg", seg, e.address - table.segs[seg].start)>>))
           \o (IF r.addend = e.addend THEN <<>> ELSE <<Op("addend", e.addend)>>))
           \o <<IF table.stream = "rebase" THEN Op("times", 1) ELSE Op("bind", 0)>>

LEMMA ConvertParts ==
    ASSUME NEW r \in Encoders, NEW e \in Entries
    PROVE  LET named == [r EXCEPT !.ordinal = e.ordinal, !.sym = e.sym, !.out = Named(r, e)]
           IN  ConvertEntry(r, e) =
                 IF table.stream = "weak" /\ e.type = Override THEN named
                 ELSE [named EXCEPT
                         !.type = e.type, !.seg = NewSeg(r, e), !.addend = e.addend,
                         !.address = IF table.stream = "rebase"
                                     THEN AfterRebase(NewSeg(r, e), e.address)
                                     ELSE (e.address + PtrSize) % Space,
                         !.out = Pointed(r, e, NewSeg(r, e), Named(r, e))]
<1> DEFINE n == Named(r, e)
           named == [r EXCEPT !.ordinal = e.ordinal, !.sym = e.sym, !.out = n]
           s == NewSeg(r, e)
           x == IF table.stream = "rebase" THEN AfterRebase(s, e.address)
                ELSE (e.address + PtrSize) % Space
<1>1. named.out = n
  <2> HIDE DEF n
  <2>1. QED
    BY DEF Encoders
<1>2. ConvertEntry(r, e) =
        IF table.stream = "weak" /\ e.type = Override THEN named
        ELSE [named EXCEPT !.type = e.type, !.seg = s, !.addend = e.addend, !.address = x,
                           !.out = Pointed(r, e, s, @)]
  BY Zenon DEF ConvertEntry, Named, Pointed, NewSeg
<1>3. QED
  BY Zenon, <1>1, <1>2

\* How the address register is set
MoveTo(r, e) == IF InSeg(r.seg, e.address) THEN Op("add", Delta(r.address, e.address))
                ELSE Op2("seg", NewSeg(r, e), e.address - table.segs[NewSeg(r, e)].start)

PutOut == IF table.stream = "rebase" THEN Op("times", 1) ELSE Op("bind", 0)

LEMMA PointedParts ==
    ASSUME NEW r, NEW e, NEW out
    PROVE  Pointed(r, e, NewSeg(r, e), out) =
             (((out \o (IF r.type = e.type THEN <<>> ELSE <<Op("type", e.type)>>))
                    \o (IF r.address = e.address THEN <<>> ELSE <<MoveTo(r, e)>>))
                    \o (IF r.addend = e.addend THEN <<>> ELSE <<Op("addend", e.addend)>>))
                    \o <<PutOut>>
BY Zenon DEF Pointed, MoveTo, PutOut

LEMMA OrdinalTyped ==
    ASSUME NEW a \in Int
    PROVE  LET o == Op(IF a <= 0 THEN "special" ELSE "ordinal", a)
           IN  o \in Ops /\ o.op # "times"
BY DEF Op, Ops

LEMMA SymbolTyped ==
    ASSUME NEW a \in Nat, NEW b \in BOOLEAN
    PROVE  Op2("symbol", a, b) \in Ops /\ Op2("symbol", a, b).op # "times"
BY DEF Op2, Ops

LEMMA SetTyped ==
    ASSUME NEW a \in Nat, NEW b \in Int
    PROVE  /\ Op("type", a) \in Ops /\ Op("type", a).op # "times"
           /\ Op("addend", b) \in Ops /\ Op("addend", b).op # "times"
<1>1. Op("type", a) \in [op : {"type", "times", "timesImm", "bind", "add", "addScaled", "timesAdd",
                               "bindAdd", "bindAddScaled"}, a : Nat] /\ Op("type", a).op = "type"
  BY DEF Op
<1>2. Op("addend", b) \in [op : {"ordinal", "ordinalImm", "special", "addend"}, a : Int]
      /\ Op("addend", b).op = "addend"
  BY DEF Op
<1>3. QED
  BY <1>1, <1>2 DEF Ops

LEMMA PutOutTyped == PutOut \in Ops /\ (PutOut.op = "times" => PutOut.a = 1)
<1>1. \A n \in Nat : Op("times", n) \in Ops /\ Op("bind", n) \in Ops /\ Op("times", n).a = n
                     /\ Op("bind", n).op = "bind"
  BY DEF Op, Ops
<1>2. QED
  BY <1>1 DEF PutOut

LEMMA MoveTyped ==
    ASSUME InputOK(table), NEW e, IsPointer(e), NEW r \in Encoders, r.address # e.address
    PROVE  MoveTo(r, e) \in Ops /\ MoveTo(r, e).op # "times"
<1>1. e.address \in 0 .. Space - 1 /\ r.address \in 0 .. Space - 1
  BY DEF IsPointer, InputOK, Entries, Encoders
<1>2. CASE InSeg(r.seg, e.address)
  <2> DEFINE d == Delta(r.address, e.address)
  <2>1. d \in Nat
    <3>1. e.address - r.address \in Int
      BY <1>1
    <3>2. (e.address - r.address) % Space \in 0 .. Space - 1
      BY <3>1, StreamAssumption, Division
    <3>3. QED
      BY <3>2, StreamAssumption DEF Delta
  <2>2. MoveTo(r, e) = Op("add", d)
    BY <1>2 DEF MoveTo
  <2> HIDE DEF d
  <2>3. QED
    BY <2>1, <2>2 DEF Op, Ops
<1>3. CASE ~ InSeg(r.seg, e.address)
  <2> DEFINE g == SegOf(e.address)
             d == e.address - table.segs[g].start
  <2>1. MoveTo(r, e) = Op2("seg", g, d)
    BY <1>3 DEF MoveTo, NewSeg
  <2>2. g \in DOMAIN table.segs /\ table.segs[g].start <= e.address
    BY PointerInSegment
  <2> HIDE DEF g
  <2>4. g \in Nat /\ table.segs[g].start \in Nat
    BY <2>2, SegmentTyped
  <2>5. d \in 0 .. Space - 1
    BY <1>1, <2>2, <2>4, StreamAssumption
  <2> HIDE DEF d
  <2>6. QED
    BY <2>1, <2>4, <2>5 DEF Op2, Ops
<1>4. QED
  BY <1>2, <1>3

LEMMA AppendMaybe ==
    ASSUME NEW m \in Seq(Ops), NEW known \in BOOLEAN, NEW o, ~ known => o \in Ops
    PROVE  m \o (IF known THEN <<>> ELSE <<o>>) \in Seq(Ops)
<1>1. CASE known
  BY <1>1
<1>2. CASE ~ known
  BY <1>2
<1>3. QED
  BY <1>1, <1>2

LEMMA NamedTyped ==
    ASSUME NEW r \in Encoders, NEW e \in Entries
    PROVE  Named(r, e) \in Seq(Ops)
<1> DEFINE o1 == Op(IF e.ordinal <= 0 THEN "special" ELSE "ordinal", e.ordinal)
           o2 == Op2("symbol", e.sym, e.flag)
           k1 == table.stream # "bind" \/ r.ordinal = e.ordinal
           k2 == table.stream = "rebase" \/ r.sym = e.sym
           m1 == r.out \o (IF k1 THEN <<>> ELSE <<o1>>)
<1>1. r.out \in Seq(Ops) /\ e.ordinal \in Int /\ e.sym \in Nat /\ e.flag \in BOOLEAN
  BY DEF Encoders, Entries
<1>2. o1 \in Ops /\ o2 \in Ops
  BY <1>1, OrdinalTyped, SymbolTyped
<1>3. Named(r, e) = m1 \o (IF k2 THEN <<>> ELSE <<o2>>) /\ k1 \in BOOLEAN /\ k2 \in BOOLEAN
  BY DEF Named
<1> HIDE DEF o1, o2, k1, k2
<1>4. m1 \in Seq(Ops)
  BY <1>1, <1>2, <1>3, AppendMaybe
<1> HIDE DEF m1
<1>5. QED
  BY <1>2, <1>3, <1>4, AppendMaybe

LEMMA PointedTyped ==
    ASSUME InputOK(table), NEW e, IsPointer(e), NEW r \in Encoders, NEW out, out \in Seq(Ops)
    PROVE  Pointed(r, e, NewSeg(r, e), out) \in Seq(Ops)
<1> DEFINE o1 == Op("type", e.type)
           o2 == MoveTo(r, e)
           o3 == Op("addend", e.addend)
           k1 == r.type = e.type
           k2 == r.address = e.address
           k3 == r.addend = e.addend
           m1 == out \o (IF k1 THEN <<>> ELSE <<o1>>)
           m2 == m1 \o (IF k2 THEN <<>> ELSE <<o2>>)
           m3 == m2 \o (IF k3 THEN <<>> ELSE <<o3>>)
<1>1. e \in Entries /\ e.type \in Nat /\ e.addend \in Int
  BY DEF IsPointer, InputOK, Entries
<1>2. o1 \in Ops /\ o3 \in Ops
  BY <1>1, SetTyped
<1>3. ~ k2 => o2 \in Ops
  BY MoveTyped
<1>4. Pointed(r, e, NewSeg(r, e), out) = m3 \o <<PutOut>>
      /\ k1 \in BOOLEAN /\ k2 \in BOOLEAN /\ k3 \in BOOLEAN
  BY PointedParts
<1> HIDE DEF o1, o2, o3, k1, k2, k3
<1>5. m1 \in Seq(Ops)
  BY <1>2, <1>4, AppendMaybe
<1> HIDE DEF m1
<1>6. m2 \in Seq(Ops)
  BY <1>3, <1>4, <1>5, AppendMaybe
<1> HIDE DEF m2
<1>7. m3 \in Seq(Ops)
  BY <1>2, <1>4, <1>6, AppendMaybe
<1> HIDE DEF m3
<1>8. QED
  BY <1>4, <1>7, PutOutTyped

\* What is remembered after a pointer's entry
LEMMA AddressTyped ==
    ASSUME InputOK(table), NEW e, IsPointer(e), NEW r \in Encoders
    PROVE  /\ NewSeg(r, e) \in Nat
           /\ AfterRebase(NewSeg(r, e), e.address) \in 0 .. Space - 1
           /\ (e.address + PtrSize) % Space = e.address + PtrSize
           /\ e.address + PtrSize \in 0 .. Space - 1
<1>1. e.address \in 0 .. Space - 1 /\ r.seg \in Nat
  BY DEF IsPointer, InputOK, Entries, Encoders
<1>2. e.address + PtrSize < Space /\ SegOf(e.address) \in DOMAIN table.segs
  BY PointerInSegment
<1>3. e.address + PtrSize \in 0 .. Space - 1
  BY <1>1, <1>2, StreamAssumption
<1>4. (e.address + PtrSize) % Space = e.address + PtrSize
  <2> DEFINE x == e.address + PtrSize
  <2>1. x \in 0 .. Space - 1 /\ x \in Int /\ x = Space * 0 + x
    BY <1>3, StreamAssumption
  <2> HIDE DEF x
  <2>2. x % Space = x
    BY <2>1, StreamAssumption, Remainder
  <2>3. QED
    BY <2>2 DEF x
<1>5. SegOf(e.address) \in Nat
  <2>1. table.segs \in Seq(Segments)
    BY DEF InputOK
  <2>2. QED
    BY <1>2, <2>1
<1>6. NewSeg(r, e) \in Nat
  BY <1>1, <1>5 DEF NewSeg
<1>7. AfterRebase(NewSeg(r, e), e.address) \in {0, e.address + PtrSize} /\ 0 \in 0 .. Space - 1
  BY StreamAssumption DEF AfterRebase
<1>8. QED
  BY <1>3, <1>4, <1>6, <1>7

\* What converting an entry does to the encoder
LEMMA ConvertOverride ==
    ASSUME InputOK(table), NEW e \in table.info, e.type = Override, NEW r \in Encoders,
           NEW c, c = ConvertEntry(r, e)
    PROVE  /\ c \in Encoders /\ c.ordinal = e.ordinal /\ c.sym = e.sym /\ c.out = Named(r, e)
           /\ c.type = r.type /\ c.seg = r.seg /\ c.addend = r.addend /\ c.address = r.address
<1>1. e \in Entries /\ e.ordinal \in Int /\ e.sym \in Nat
  BY DEF InputOK, Entries
<1>2. table.stream = "weak"
  <2>1. table.stream # "weak" => {p \in table.info : p.type # Override} = table.info
    BY DEF InputOK
  <2>2. e \notin {p \in table.info : p.type # Override}
    BY SMTT(40)
  <2>3. QED
    BY <2>1, <2>2
<1> DEFINE u == Named(r, e)
<1>3. c = [r EXCEPT !.ordinal = e.ordinal, !.sym = e.sym, !.out = u]
  BY <1>1, <1>2, ConvertParts
<1>4. u \in Seq(Ops)
  BY <1>1, NamedTyped
<1> HIDE DEF u
<1>5. /\ c \in Encoders /\ c.ordinal = e.ordinal /\ c.sym = e.sym /\ c.out = u
      /\ c.type = r.type /\ c.seg = r.seg /\ c.addend = r.addend /\ c.address = r.address
  BY <1>1, <1>3, <1>4 DEF Encoders
<1>6. QED
  BY <1>5 DEF u

LEMMA ConvertPointer ==
    ASSUME InputOK(table), NEW e, IsPointer(e), NEW r \in Encoders, NEW c, c = ConvertEntry(r, e)
    PROVE  /\ c \in Encoders /\ c.ordinal = e.ordinal /\ c.sym = e.sym /\ c.type = e.type
           /\ c.seg = NewSeg(r, e) /\ c.addend = e.addend
           /\ c.out = Pointed(r, e, NewSeg(r, e), Named(r, e))
           /\ c.address = IF table.stream = "rebase" THEN AfterRebase(NewSeg(r, e), e.address)
                          ELSE e.address + PtrSize
<1> DEFINE u == Named(r, e)
           g == NewSeg(r, e)
           v == Pointed(r, e, g, u)
           y == IF table.stream = "rebase" THEN AfterRebase(g, e.address)
                ELSE (e.address + PtrSize) % Space
           q == [r EXCEPT !.ordinal = e.ordinal, !.sym = e.sym, !.out = u]
<1>1. e \in Entries /\ e.ordinal \in Int /\ e.sym \in Nat /\ e.type \in Nat /\ e.addend \in Int
      /\ e.type # Override
  BY DEF IsPointer, InputOK, Entries
<1>2. u \in Seq(Ops)
  BY <1>1, NamedTyped
<1>3. v \in Seq(Ops)
  <2> HIDE DEF u
  <2>1. QED
    BY <1>2, PointedTyped
<1>4. g \in Nat /\ y \in 0 .. Space - 1
      /\ y = IF table.stream = "rebase" THEN AfterRebase(g, e.address) ELSE e.address + PtrSize
  BY AddressTyped, SMTT(40)
<1>5. c = [q EXCEPT !.type = e.type, !.seg = g, !.addend = e.addend, !.address = y, !.out = v]
  BY <1>1, ConvertParts
<1> HIDE DEF u, g, v, y
<1>6. q \in Encoders /\ q.ordinal = e.ordinal /\ q.sym = e.sym
  BY <1>1, <1>2 DEF q, Encoders
<1> HIDE DEF q
<1>7. /\ c \in Encoders /\ c.type = e.type /\ c.seg = g /\ c.addend = e.addend /\ c.address = y
      /\ c.out = v /\ c.ordinal = q.ordinal /\ c.sym = q.sym
  BY <1>1, <1>3, <1>4, <1>5, <1>6 DEF Encoders
<1>8. QED
  BY <1>4, <1>6, <1>7 DEF u, g, v

LEMMA ConvertTyped ==
    ASSUME InputOK(table), NEW e \in table.info, NEW r \in Encoders
    PROVE  ConvertEntry(r, e) \in Encoders
<1>1. CASE e.type = Override
  BY <1>1, ConvertOverride
<1>2. CASE e.type # Override
  BY <1>2, ConvertPointer DEF IsPointer
<1>3. QED
  BY <1>1, <1>2

LEMMA StartTyped ==
    /\ Start \in Encoders /\ Start.out = <<>> /\ Start.ordinal = NoOrdinal /\ Start.sym = 0
    /\ Start.type = 0 /\ Start.seg = 0 /\ Start.addend = 0 /\ Start.address = Space - 1
<1>1. Space - 1 \in 0 .. Space - 1 /\ NoOrdinal \in Int
  BY StreamAssumption DEF NoOrdinal
<1>2. <<>> \in Seq(Ops)
  OBVIOUS
<1>3. NoRegs \in Encoders /\ NoRegs.out = <<>> /\ NoRegs.sym = 0 /\ NoRegs.type = 0
      /\ NoRegs.seg = 0 /\ NoRegs.addend = 0 /\ NoRegs.address = Space - 1
  BY <1>1, <1>2 DEF NoRegs, Encoders
<1>4. QED
  BY <1>1, <1>3 DEF Start, Encoders

\* Converting goes entry by entry.
LEMMA ConvertedSolved ==
    ASSUME InputOK(table), NEW n \in Nat, \A k \in 1 .. n : info[k] \in table.info
    PROVE  \E after \in [0 .. n -> Encoders] :
              /\ after[0] = Start /\ after[n] = Converted(n)
              /\ \A k \in 1 .. n : after[k] = ConvertEntry(after[k - 1], info[k])
<1> DEFINE g == [p \in (1 .. n) \X Encoders |-> ConvertEntry(p[2], info[p[1]])]
           Solves(f) == f = [k \in 0 .. n |-> IF k = 0 THEN Start
                                             ELSE ConvertEntry(f[k - 1], info[k])]
           it == CHOOSE f : Solves(f)
<1>1. IsStep(g, n, Encoders)
  <2>1. \A p \in (1 .. n) \X Encoders : ConvertEntry(p[2], info[p[1]]) \in Encoders
    BY ConvertTyped
  <2>2. QED
    BY <2>1 DEF IsStep
<1>2. PICK f : IsSolution(f, n, Encoders, Start, g)
  BY <1>1, StartTyped, RecursionSolved
<1>3. f \in [0 .. n -> Encoders]
  BY <1>2 DEF IsSolution
<1>4. \A k \in 0 .. n : f[k] = IF k = 0 THEN Start ELSE ConvertEntry(f[k - 1], info[k])
  <2> SUFFICES ASSUME NEW k \in 0 .. n
               PROVE  f[k] = IF k = 0 THEN Start ELSE ConvertEntry(f[k - 1], info[k])
    OBVIOUS
  <2>1. f[k] = IF k = 0 THEN Start ELSE g[<<k, f[k - 1]>>]
    BY <1>2 DEF IsSolution
  <2>2. CASE k = 0
    BY <2>1, <2>2
  <2>3. CASE k # 0
    <3>1. k \in 1 .. n /\ k - 1 \in 0 .. n /\ f[k - 1] \in Encoders
      BY <2>3, <1>3
    <3>2. g[<<k, f[k - 1]>>] = ConvertEntry(f[k - 1], info[k])
      BY <3>1
    <3> HIDE DEF g
    <3>3. QED
      BY <2>1, <2>3, <3>2
  <2>4. QED
    BY <2>2, <2>3
<1>5. Solves(f)
  BY <1>3, <1>4
<1>6. Solves(it)
  <2> HIDE DEF Solves
  <2>1. QED
    BY <1>5
<1>7. Converted(n) = it[n]
  BY DEF Converted
<1>8. it[0] = Start /\ \A k \in 1 .. n : it[k] = ConvertEntry(it[k - 1], info[k])
  <2>1. \A k \in 0 .. n : it[k] = IF k = 0 THEN Start ELSE ConvertEntry(it[k - 1], info[k])
    BY <1>6
  <2> HIDE DEF it
  <2>2. QED
    BY <2>1
<1>9. it \in [0 .. n -> Encoders]
  <2>1. DOMAIN it = 0 .. n /\ it = [k \in 0 .. n |-> it[k]]
    BY <1>6
  <2> HIDE DEF it
  <2>2. \A k \in 0 .. n : k \in {x \in 0 .. n : it[x] \in Encoders}
    <3> DEFINE S == {x \in 0 .. n : it[x] \in Encoders}
    <3>1. 0 \in S
      BY <1>8, StartTyped
    <3>2. \A k \in 1 .. n : k - 1 \in S => k \in S
      BY <1>8, ConvertTyped
    <3> HIDE DEF S
    <3>3. \A k \in 0 .. n : k \in S
      BY <3>1, <3>2, UpTo
    <3>4. QED
      BY <3>3 DEF S
  <2>3. QED
    BY <2>1, <2>2
<1> HIDE DEF it
<1>10. QED
  BY <1>7, <1>8, <1>9


------------------------------------------------------------------------------
(***************************************************************************)
(* OpcodeStream: encoder and machine go along.                             *)
(***************************************************************************)
\* The registers that name the symbol
LEMMA NamedReaches ==
    ASSUME InputOK(table), NEW e \in table.info, NEW r \in Encoders, NEW s, Writes(r.out, s),
           s.sym = r.sym, table.stream = "rebase" => r.sym = 0,
           table.stream = "bind" => r.ordinal \in {NoOrdinal, s.ordinal},
           r.sym # 0 => \E f \in table.info : f.sym = r.sym /\ f.flag = s.flag
    PROVE  \E x \in Regs :
              /\ Writes(Named(r, e), x)
              /\ x.type = s.type /\ x.addend = s.addend /\ x.seg = s.seg /\ x.address = s.address
              /\ x.out = s.out /\ s.names \subseteq x.names
              /\ x.sym = e.sym
              /\ table.stream = "bind" => x.ordinal = e.ordinal
              /\ e.sym # 0 => \E f \in table.info : f.sym = e.sym /\ f.flag = x.flag
              /\ table.stream # "rebase" /\ r.sym # e.sym => <<e.sym, e.flag>> \in x.names
<1> DEFINE o1 == Op(IF e.ordinal <= 0 THEN "special" ELSE "ordinal", e.ordinal)
           o2 == Op2("symbol", e.sym, e.flag)
           k1 == table.stream # "bind" \/ r.ordinal = e.ordinal
           k2 == table.stream = "rebase" \/ r.sym = e.sym
           m1 == r.out \o (IF k1 THEN <<>> ELSE <<o1>>)
           m2 == m1 \o (IF k2 THEN <<>> ELSE <<o2>>)
           y == IF k1 THEN s ELSE Execute(s, o1)
           x == IF k2 THEN y ELSE Execute(y, o2)
<1>1. /\ e.ordinal \in Int /\ e.sym \in Nat /\ e.flag \in BOOLEAN
      /\ (table.stream = "rebase" => e.sym = 0) /\ (table.stream = "bind" => e.ordinal # NoOrdinal)
  BY DEF InputOK, Entries
<1>2. /\ o1 \in Ops /\ o1.op # "times" /\ o2 \in Ops /\ o2.op # "times"
      /\ k1 \in BOOLEAN /\ k2 \in BOOLEAN
  BY <1>1, OrdinalTyped, SymbolTyped
<1>3. Named(r, e) = m2
  BY DEF Named
<1>4. \A z : Execute(z, o1) = [z EXCEPT !.ordinal = e.ordinal]
  BY DEF Execute, Op
<1>5. \A z : Execute(z, o2) = [z EXCEPT !.sym = e.sym, !.flag = e.flag,
                                        !.names = @ \cup {<<e.sym, e.flag>>}]
  BY DEF Execute, Op2
<1> HIDE DEF o1, o2
<1>6. Writes(m1, y) /\ s \in Regs
  <2> HIDE DEF k1
  <2>1. QED
    BY <1>2, WritesMaybe
<1>7. /\ y.type = s.type /\ y.addend = s.addend /\ y.seg = s.seg /\ y.address = s.address
      /\ y.out = s.out /\ y.names = s.names /\ y.sym = s.sym /\ y.flag = s.flag
      /\ table.stream = "bind" => y.ordinal = e.ordinal
  <2>1. CASE k1
    BY <1>1, <2>1
  <2>2. CASE ~ k1
    BY <1>4, <1>6, <2>2 DEF Regs
  <2>3. QED
    BY <2>1, <2>2
<1> HIDE DEF m1, y, k1
<1>8. Writes(m2, x) /\ y \in Regs
  <2> HIDE DEF k2
  <2>1. QED
    BY <1>2, <1>6, WritesMaybe
<1>9. x \in Regs
  BY <1>2, <1>8, ExecuteTyped
<1>10. CASE k2
  <2>1. x = y
    BY <1>10
  <2>2. x.sym = e.sym /\ e.sym = r.sym
    BY <1>1, <1>7, <1>10, <2>1
  <2>3. e.sym # 0 => \E f \in table.info : f.sym = e.sym /\ f.flag = x.flag
    BY <1>7, <2>1, <2>2
  <2> HIDE DEF x, m2
  <2>4. s.names \subseteq x.names
    BY <1>7, <2>1
  <2>5. QED
    BY <1>3, <1>7, <1>8, <1>9, <2>1, <2>2, <2>3, <2>4
<1>11. CASE ~ k2
  <2>1. x = [y EXCEPT !.sym = e.sym, !.flag = e.flag, !.names = @ \cup {<<e.sym, e.flag>>}]
    BY <1>5, <1>11
  <2> HIDE DEF x, m2
  <2>2. /\ x.type = y.type /\ x.addend = y.addend /\ x.seg = y.seg /\ x.address = y.address
        /\ x.out = y.out /\ x.ordinal = y.ordinal /\ x.sym = e.sym /\ x.flag = e.flag
        /\ x.names = y.names \cup {<<e.sym, e.flag>>}
    BY <1>8, <2>1 DEF Regs
  <2>3. s.names \subseteq x.names /\ <<e.sym, e.flag>> \in x.names
    BY <1>7, <2>2
  <2>4. \E f \in table.info : f.sym = e.sym /\ f.flag = x.flag
    BY <2>2
  <2>5. QED
    BY <1>3, <1>7, <1>8, <1>9, <2>2, <2>3, <2>4
<1>12. QED
  BY <1>10, <1>11

\* The machine's address register moved to a pointer
LEMMA Moved ==
    ASSUME InputOK(table), NEW e, IsPointer(e), NEW r \in Encoders, NEW x \in Regs,
           x.seg = r.seg, r.seg = 0 => r.address = Space - 1,
           r.seg # 0 => r.seg \in DOMAIN table.segs,
           r.seg # 0 /\ (r.address = e.address \/ InSeg(r.seg, e.address)) =>
              table.segs[r.seg].start + x.address = r.address,
           table.stream = "rebase" /\ r.address = e.address => InSeg(r.seg, e.address),
           NEW y, y = IF r.address = e.address THEN x ELSE Execute(x, MoveTo(r, e))
    PROVE  /\ y.seg = NewSeg(r, e) /\ NewSeg(r, e) \in DOMAIN table.segs
           /\ table.segs[NewSeg(r, e)].start + y.address = e.address
           /\ table.stream = "rebase" => InSeg(NewSeg(r, e), e.address)
           /\ y.type = x.type /\ y.addend = x.addend /\ y.ordinal = x.ordinal /\ y.sym = x.sym
           /\ y.flag = x.flag /\ y.names = x.names /\ y.out = x.out
<1>1. e.address \in 0 .. Space - 1 /\ r.address \in 0 .. Space - 1 /\ x.address \in 0 .. Space - 1
  BY DEF IsPointer, InputOK, Entries, Encoders, Regs
<1>2. /\ e.address + PtrSize < Space /\ SegOf(e.address) \in DOMAIN table.segs
      /\ table.segs[SegOf(e.address)].start <= e.address
      /\ e.address < table.segs[SegOf(e.address)].end
  BY PointerInSegment
<1>3. e.address # Space - 1 /\ 0 \notin DOMAIN table.segs
  <2>1. e.address # Space - 1
    BY <1>1, <1>2, StreamAssumption
  <2>2. 0 \notin DOMAIN table.segs
    BY SegmentTyped
  <2>3. QED
    BY <2>1, <2>2
<1>4. CASE r.address = e.address
  <2>1. NewSeg(r, e) = r.seg /\ y = x /\ r.seg # 0
    BY <1>3, <1>4 DEF NewSeg
  <2>2. QED
    BY <1>4, <2>1
<1>5. CASE r.address # e.address /\ InSeg(r.seg, e.address)
  <2> DEFINE d == Delta(r.address, e.address)
             b == table.segs[r.seg].start
  <2>1. /\ NewSeg(r, e) = r.seg /\ r.seg # 0 /\ MoveTo(r, e) = Op("add", d)
        /\ b <= e.address /\ r.seg \in DOMAIN table.segs
    BY <1>5 DEF NewSeg, InSeg, MoveTo
  <2>2. b + x.address = r.address
    BY <1>5, <2>1
  <2>3. y = [x EXCEPT !.address = (@ + d) % Space]
    <3>1. y = Execute(x, Op("add", d))
      BY <1>5, <2>1
    <3> HIDE DEF d
    <3>2. QED
      BY <3>1 DEF Execute, Op
  <2>4. b \in Nat
    BY <2>1, SegmentTyped
  <2> HIDE DEF b
  <2>5. (x.address + d) % Space = e.address - b
    <3> DEFINE u == e.address - r.address
               v == e.address - b
    <3>1. u \in Int /\ v \in 0 .. Space - 1 /\ u + x.address = v /\ x.address \in Int
      BY <1>1, <2>1, <2>2, <2>4, StreamAssumption
    <3>2. d = u % Space
      BY DEF Delta
    <3> HIDE DEF d, u, v
    <3>3. ((u % Space) + x.address) % Space = (u + x.address) % Space
      BY <3>1, StreamAssumption, SumModulo
    <3>4. v % Space = v
      <4>1. v \in Int /\ v = Space * 0 + v
        BY <3>1, StreamAssumption
      <4>2. QED
        BY <3>1, <4>1, StreamAssumption, Remainder
    <3>5. u % Space \in Int
      BY <3>1, StreamAssumption, Division
    <3>6. x.address + d = (u % Space) + x.address
      BY <3>1, <3>2, <3>5
    <3>7. QED
      BY <3>1, <3>3, <3>4, <3>6 DEF v
  <2> HIDE DEF d
  <2>6. /\ y.address = e.address - b /\ y.seg = x.seg
        /\ y.type = x.type /\ y.addend = x.addend /\ y.ordinal = x.ordinal /\ y.sym = x.sym
        /\ y.flag = x.flag /\ y.names = x.names /\ y.out = x.out
    BY <2>3, <2>5 DEF Regs
  <2>7. b + (e.address - b) = e.address
    BY <1>1, <2>4
  <2>8. QED
    BY <1>5, <2>1, <2>6, <2>7 DEF b
<1>6. CASE r.address # e.address /\ ~ InSeg(r.seg, e.address)
  <2> DEFINE g == SegOf(e.address)
             b == table.segs[g].start
             d == e.address - b
  <2>1. NewSeg(r, e) = g /\ MoveTo(r, e) = Op2("seg", g, d)
    BY <1>6 DEF NewSeg, MoveTo
  <2>2. b \in Nat /\ b + d = e.address /\ g # 0
    <3>1. g \in DOMAIN table.segs
      BY <1>2
    <3>2. b \in Nat
      BY <3>1, SegmentTyped
    <3>3. g # 0
      BY <1>3, <3>1
    <3> HIDE DEF b
    <3>4. b + (e.address - b) = e.address
      BY <1>1, <3>2
    <3>5. QED
      BY <3>2, <3>3, <3>4
  <2>3. y = [x EXCEPT !.seg = g, !.address = d]
    <3>1. y = Execute(x, Op2("seg", g, d))
      BY <1>6, <2>1
    <3> HIDE DEF d, g
    <3>2. QED
      BY <3>1 DEF Execute, Op2
  <2>4. InSeg(g, e.address) /\ g \in DOMAIN table.segs
    <3>1. e.address >= b
      BY <1>1, <1>2, <2>2
    <3>2. QED
      BY <1>2, <2>2, <3>1 DEF InSeg
  <2> HIDE DEF d, g
  <2>5. /\ y.address = d /\ y.seg = g
        /\ y.type = x.type /\ y.addend = x.addend /\ y.ordinal = x.ordinal /\ y.sym = x.sym
        /\ y.flag = x.flag /\ y.names = x.names /\ y.out = x.out
    BY <2>3 DEF Regs
  <2>6. QED
    BY <2>1, <2>2, <2>4, <2>5
<1>7. QED
  BY <1>4, <1>5, <1>6

\* The other registers, and the pointer
LEMMA PointedReaches ==
    ASSUME InputOK(table), NEW e, IsPointer(e), NEW r \in Encoders, NEW out, NEW x, Writes(out, x),
           x.type = r.type, x.addend = r.addend,
           x.seg = r.seg, r.seg = 0 => r.address = Space - 1,
           r.seg # 0 => r.seg \in DOMAIN table.segs,
           r.seg # 0 /\ (r.address = e.address \/ InSeg(r.seg, e.address)) =>
              table.segs[r.seg].start + x.address = r.address,
           table.stream = "rebase" /\ r.address = e.address => InSeg(r.seg, e.address)
    PROVE  \E y \in Regs :
              /\ Writes(Pointed(r, e, NewSeg(r, e), out), DoPointer(y, 0))
              /\ y.type = e.type /\ y.addend = e.addend
              /\ y.seg = NewSeg(r, e) /\ NewSeg(r, e) \in DOMAIN table.segs
              /\ table.segs[NewSeg(r, e)].start + y.address = e.address
              /\ table.stream = "rebase" => InSeg(NewSeg(r, e), e.address)
              /\ y.ordinal = x.ordinal /\ y.sym = x.sym
              /\ y.flag = x.flag /\ y.names = x.names /\ y.out = x.out
<1> DEFINE o1 == Op("type", e.type)
           o2 == MoveTo(r, e)
           o3 == Op("addend", e.addend)
           k1 == r.type = e.type
           k2 == r.address = e.address
           k3 == r.addend = e.addend
           m1 == out \o (IF k1 THEN <<>> ELSE <<o1>>)
           m2 == m1 \o (IF k2 THEN <<>> ELSE <<o2>>)
           m3 == m2 \o (IF k3 THEN <<>> ELSE <<o3>>)
           x1 == IF k1 THEN x ELSE Execute(x, o1)
           x2 == IF k2 THEN x1 ELSE Execute(x1, o2)
           x3 == IF k3 THEN x2 ELSE Execute(x2, o3)
<1>1. e \in Entries /\ e.type \in Nat /\ e.addend \in Int
  BY DEF IsPointer, InputOK, Entries
<1>2. o1 \in Ops /\ o1.op # "times" /\ o3 \in Ops /\ o3.op # "times"
  BY <1>1, SetTyped
<1>3. ~ k2 => o2 \in Ops /\ o2.op # "times"
  BY MoveTyped
<1>4. Pointed(r, e, NewSeg(r, e), out) = m3 \o <<PutOut>>
      /\ k1 \in BOOLEAN /\ k2 \in BOOLEAN /\ k3 \in BOOLEAN
  BY PointedParts
<1>5. \A z : Execute(z, o1) = [z EXCEPT !.type = e.type]
             /\ Execute(z, o3) = [z EXCEPT !.addend = e.addend]
  BY DEF Execute, Op
<1> HIDE DEF o1, o3
<1>6. Writes(m1, x1) /\ x \in Regs
  <2> HIDE DEF k1
  <2>1. QED
    BY <1>2, <1>4, WritesMaybe
<1>7. /\ x1.type = e.type /\ x1.addend = r.addend /\ x1.seg = x.seg /\ x1.address = x.address
      /\ x1.ordinal = x.ordinal /\ x1.sym = x.sym /\ x1.flag = x.flag /\ x1.names = x.names
      /\ x1.out = x.out
  <2>1. CASE k1
    BY <2>1
  <2>2. CASE ~ k1
    BY <1>5, <1>6, <2>2 DEF Regs
  <2>3. QED
    BY <2>1, <2>2
<1> HIDE DEF m1, x1, k1
<1>8. Writes(m2, x2) /\ x1 \in Regs
  <2> HIDE DEF k2, o2
  <2>1. QED
    BY <1>3, <1>4, <1>6, WritesMaybe
<1>9. /\ x2.seg = NewSeg(r, e) /\ NewSeg(r, e) \in DOMAIN table.segs
      /\ table.segs[NewSeg(r, e)].start + x2.address = e.address
      /\ table.stream = "rebase" => InSeg(NewSeg(r, e), e.address)
      /\ x2.type = x1.type /\ x2.addend = x1.addend /\ x2.ordinal = x1.ordinal
      /\ x2.sym = x1.sym /\ x2.flag = x1.flag /\ x2.names = x1.names /\ x2.out = x1.out
  BY <1>7, <1>8, Moved
<1> HIDE DEF m2, x2, k2
<1>10. Writes(m3, x3) /\ x2 \in Regs
  <2> HIDE DEF k3
  <2>1. QED
    BY <1>2, <1>4, <1>8, WritesMaybe
<1>11. /\ x3.type = e.type /\ x3.addend = e.addend /\ x3.seg = x2.seg /\ x3.address = x2.address
       /\ x3.ordinal = x.ordinal /\ x3.sym = x.sym /\ x3.flag = x.flag /\ x3.names = x.names
       /\ x3.out = x.out
  <2>1. CASE k3
    BY <1>7, <1>9, <2>1
  <2>2. CASE ~ k3
    <3>1. x3 = [x2 EXCEPT !.addend = e.addend] /\ x2 \in Regs
      BY <1>5, <1>10, <2>2
    <3> HIDE DEF x3
    <3>2. /\ x3.type = x2.type /\ x3.addend = e.addend /\ x3.seg = x2.seg
          /\ x3.address = x2.address /\ x3.ordinal = x2.ordinal /\ x3.sym = x2.sym
          /\ x3.flag = x2.flag /\ x3.names = x2.names /\ x3.out = x2.out
      BY <3>1 DEF Regs
    <3>3. QED
      BY <1>7, <1>9, <3>2
  <2>3. QED
    BY <2>1, <2>2
<1> HIDE DEF m3, x3, k3
<1>12. Writes(m3 \o <<PutOut>>, Execute(x3, PutOut)) /\ x3 \in Regs
  BY <1>10, PutOutTyped, WritesOne
<1>13. Execute(x3, PutOut) = DoPointer(x3, 0)
  <2>1. CASE table.stream = "rebase"
    <3>1. Execute(x3, PutOut) = DoTimes(x3, 1, 0) /\ 0 \in Nat
      BY <2>1 DEF PutOut, Execute, Op
    <3>2. QED
      BY <1>12, <3>1, TimesOne
  <2>2. CASE table.stream # "rebase"
    BY <2>2 DEF PutOut, Execute, Op
  <2>3. QED
    BY <2>1, <2>2
<1>14. Writes(Pointed(r, e, NewSeg(r, e), out), DoPointer(x3, 0))
  BY <1>4, <1>12, <1>13
<1>15. QED
  BY <1>9, <1>11, <1>12, <1>14


------------------------------------------------------------------------------
(***************************************************************************)
(* OpcodeStream: entry by entry.                                           *)
(***************************************************************************)
Entered == Cardinality(table.info)

LEMMA SortedTyped ==
    ASSUME InputOK(table), TableInOrder(info)
    PROVE  /\ Entered \in Nat /\ DOMAIN info = 1 .. Entered
           /\ \A n \in 1 .. Entered : info[n] \in table.info /\ info[n] \in Entries
<1>1. IsFiniteSet(table.info) /\ \A e \in table.info : e \in Entries
  BY DEF InputOK
<1>2. Entered \in Nat
  BY <1>1, FS_CardinalityType DEF Entered
<1>3. info \in [1 .. Entered -> table.info]
  BY DEF TableInOrder, Entered
<1>4. QED
  BY <1>1, <1>2, <1>3

\* Keys of two and of three numbers
LEMMA LessOfTwo ==
    ASSUME NEW a, NEW b, NEW c, NEW d, Less(<<a, b>>, <<c, d>>)
    PROVE  a < c \/ (a = c /\ b < d)
<1>1. PICK k \in 1 .. 2 : <<a, b>>[k] < <<c, d>>[k]
                         /\ \A j \in 1 .. k - 1 : <<a, b>>[j] = <<c, d>>[j]
  BY DEF Less
<1>2. CASE k = 1
  BY <1>1, <1>2
<1>3. CASE k = 2
  <2>1. 1 \in 1 .. k - 1
    BY <1>3
  <2>2. QED
    BY <1>1, <1>3, <2>1
<1>4. QED
  BY <1>2, <1>3

LEMMA LessOfThree ==
    ASSUME NEW a, NEW b, NEW c, NEW d, NEW f, NEW g, Less(<<a, b, f>>, <<c, d, g>>)
    PROVE  a < c \/ (a = c /\ (b < d \/ b = d))
<1>1. PICK k \in 1 .. 3 : <<a, b, f>>[k] < <<c, d, g>>[k]
                         /\ \A j \in 1 .. k - 1 : <<a, b, f>>[j] = <<c, d, g>>[j]
  BY DEF Less
<1>2. CASE k = 1
  BY <1>1, <1>2
<1>3. CASE k = 2
  <2>1. 1 \in 1 .. k - 1
    BY <1>3
  <2>2. QED
    BY <1>1, <1>3, <2>1
<1>4. CASE k = 3
  <2>1. 1 \in 1 .. k - 1 /\ 2 \in 1 .. k - 1
    BY <1>4
  <2>2. QED
    BY <1>1, <1>4, <2>1
<1>5. QED
  BY <1>2, <1>3, <1>4

\* An override is the first entry of its symbol.
LEMMA OverrideFirst ==
    ASSUME InputOK(table), TableInOrder(info), NEW n \in 2 .. Entered, info[n].type = Override
    PROVE  info[n - 1].sym # info[n].sym
<1> DEFINE e == info[n]
           p == info[n - 1]
<1>1. /\ n \in 1 .. Entered /\ n - 1 \in 1 .. Entered /\ n - 1 < n
  BY SortedTyped
<1>2. e \in table.info /\ p \in table.info /\ e \in Entries /\ p \in Entries
  BY <1>1, SortedTyped
<1>3. Less(Key(p), Key(e))
  BY <1>1 DEF TableInOrder, Entered
<1> HIDE DEF e, p
<1>4. e.type = Override
  BY DEF e
<1>5. table.stream = "weak"
  <2>1. table.stream # "weak" => {q \in table.info : q.type # Override} = table.info
    BY DEF InputOK
  <2>2. e \notin {q \in table.info : q.type # Override}
    BY <1>4
  <2>3. QED
    BY <1>2, <2>1, <2>2
<1>6. ASSUME p.sym = e.sym  PROVE FALSE
  <2>1. Less(<<p.sym, p.type, p.address>>, <<e.sym, e.type, e.address>>)
    BY <1>3, <1>5 DEF Key
  <2>2. p.sym \in Int /\ p.type \in Nat /\ e.sym \in Int
    BY <1>2 DEF Entries
  <2>3. p.type < 0 \/ p.type = 0
    BY <1>4, <1>6, <2>1, <2>2, LessOfThree DEF Override
  <2>4. p.type = Override
    BY <2>2, <2>3 DEF Override
  <2> DEFINE pointers == {q \in table.info : q.type # Override}
  <2>5. p \in table.info \ pointers /\ e \in table.info \ pointers
    BY <1>2, <1>4, <2>4
  <2>6. p = e
    BY <1>6, <2>5 DEF InputOK
  <2>7. KeySize \in Nat /\ Key(e) \in [1 .. KeySize -> Int]
    BY <1>2, KeyTyped
  <2>8. ~ Less(Key(e), Key(e))
    BY <2>7, LessIsStrict
  <2>9. QED
    BY <1>3, <2>6, <2>8
<1>7. QED
  BY <1>6 DEF e, p

\* The rebases of a segment are in the order of their addresses.
LEMMA RebasesAscend ==
    ASSUME InputOK(table), TableInOrder(info), table.stream = "rebase", NEW n \in 2 .. Entered,
           NEW g \in DOMAIN table.segs, InSeg(g, info[n - 1].address), InSeg(g, info[n].address)
    PROVE  info[n].address >= info[n - 1].address + PtrSize
<1> DEFINE e == info[n]
           p == info[n - 1]
<1>1. /\ n \in 1 .. Entered /\ n - 1 \in 1 .. Entered /\ n - 1 < n
  BY SortedTyped
<1>2. e \in table.info /\ p \in table.info /\ e \in Entries /\ p \in Entries
  BY <1>1, SortedTyped
<1>3. Less(Key(p), Key(e)) /\ InSeg(g, p.address) /\ InSeg(g, e.address)
  BY <1>1 DEF TableInOrder, Entered
<1> HIDE DEF e, p
<1>4. /\ p.type \in Int /\ e.type \in Int /\ p.address \in Int /\ e.address \in Int
      /\ PtrSize \in Nat /\ PtrSize > 0
  BY <1>2, StreamAssumption DEF Entries
<1>5. p.type = e.type
  <2>1. table.segs[g].start \in Nat /\ table.segs[g].end \in Nat
    BY SegmentTyped
  <2>2. {e.address, p.address} \subseteq table.segs[g].start .. table.segs[g].end - 1
    <3>1. /\ e.address >= table.segs[g].start /\ e.address < table.segs[g].end
          /\ p.address >= table.segs[g].start /\ p.address < table.segs[g].end
      BY <1>3 DEF InSeg
    <3>2. e.address \in table.segs[g].start .. table.segs[g].end - 1
      BY <1>4, <2>1, <3>1
    <3>3. p.address \in table.segs[g].start .. table.segs[g].end - 1
      BY <1>4, <2>1, <3>1
    <3>4. QED
      BY <3>2, <3>3
  <2>3. QED
    BY <1>2, <2>2 DEF InputOK
<1>6. Less(<<p.type, p.address>>, <<e.type, e.address>>)
  BY <1>3 DEF Key
<1>7. p.address < e.address
  BY <1>4, <1>5, <1>6, LessOfTwo
<1>8. e.address - p.address >= PtrSize \/ p.address - e.address >= PtrSize
  <2> DEFINE pointers == {q \in table.info : q.type # Override}
  <2>1. pointers = table.info
    BY DEF InputOK
  <2>2. e # p
    BY <1>4, <1>7
  <2>3. e \in pointers /\ p \in pointers
    <3> HIDE DEF pointers
    <3>1. QED
      BY <1>2, <2>1
  <2>4. QED
    BY <2>2, <2>3 DEF InputOK
<1>9. e.address >= p.address + PtrSize
  BY <1>4, <1>7, <1>8
<1>10. QED
  BY <1>9 DEF e, p

\* Counting the pointers
LEMMA Placing ==
    ASSUME InputOK(table), TableInOrder(info)
    PROVE  /\ Place(0) = 0 /\ Place(Entered) = Cardinality(Placed)
           /\ \A n \in 1 .. Entered :
                /\ Place(n - 1) \in Nat
                /\ Place(n) = IF n \in Placed THEN Place(n - 1) + 1 ELSE Place(n - 1)
                /\ \A m \in Placed \cap 1 .. n : Place(m) \in 1 .. Place(n)
<1>1. Entered \in Nat /\ DOMAIN info = 1 .. Entered
  BY SortedTyped
<1>2. Placed \in SUBSET (1 .. Entered)
  BY <1>1 DEF Placed
<1>3. Place(0) = 0
  <2>1. Placed \cap 1 .. 0 = {}
    OBVIOUS
  <2>2. QED
    BY <2>1, FS_EmptySet DEF Place
<1>4. Place(Entered) = Cardinality(Placed)
  <2>1. Placed \cap 1 .. Entered = Placed
    BY <1>2
  <2>2. QED
    BY <2>1 DEF Place
<1>5. ASSUME NEW n \in Nat  PROVE IsFiniteSet(Placed \cap 1 .. n) /\ Place(n) \in Nat
  <2>1. IsFiniteSet(1 .. n)
    <3>1. 1 \in Int /\ n \in Int
      OBVIOUS
    <3>2. QED
      BY <3>1, FS_Interval
  <2>2. Placed \cap 1 .. n \in SUBSET (1 .. n)
    OBVIOUS
  <2>3. IsFiniteSet(Placed \cap 1 .. n)
    BY <2>1, <2>2, FS_Subset
  <2>4. QED
    BY <2>3, FS_CardinalityType DEF Place
<1>6. ASSUME NEW n \in 1 .. Entered
      PROVE  Place(n) = IF n \in Placed THEN Place(n - 1) + 1 ELSE Place(n - 1)
  <2> DEFINE S == Placed \cap 1 .. n - 1
  <2>1. n - 1 \in Nat /\ n \notin S
    OBVIOUS
  <2>2. IsFiniteSet(S) /\ Place(n - 1) = Cardinality(S)
    BY <1>5, <2>1 DEF Place
  <2>3. Placed \cap 1 .. n = IF n \in Placed THEN S \cup {n} ELSE S
    <3>1. \A k \in 1 .. n : k \in 1 .. n - 1 \/ k = n
      OBVIOUS
    <3>2. \A k \in 1 .. n - 1 : k \in 1 .. n
      OBVIOUS
    <3>3. n \in 1 .. n
      OBVIOUS
    <3>4. CASE n \in Placed
      BY <3>1, <3>2, <3>3, <3>4
    <3>5. CASE n \notin Placed
      BY <3>1, <3>2, <3>5
    <3>6. QED
      BY <3>4, <3>5
  <2> HIDE DEF S
  <2>4. CASE n \in Placed
    <3>1. Place(n) = Cardinality(S \cup {n})
      BY <2>3, <2>4 DEF Place
    <3>2. QED
      BY <2>1, <2>2, <2>4, <3>1, FS_AddElement
  <2>5. CASE n \notin Placed
    BY <2>2, <2>3, <2>5 DEF Place
  <2>6. QED
    BY <2>4, <2>5
<1>7. ASSUME NEW n \in 1 .. Entered, NEW m \in Placed \cap 1 .. n  PROVE Place(m) \in 1 .. Place(n)
  <2> DEFINE A == Placed \cap 1 .. m
             B == Placed \cap 1 .. n
  <2>1. m \in Nat /\ n \in Nat /\ m \in A /\ A \in SUBSET B
    OBVIOUS
  <2>2. IsFiniteSet(A) /\ IsFiniteSet(B) /\ Cardinality(A) = Place(m) /\ Cardinality(B) = Place(n)
        /\ Place(m) \in Nat /\ Place(n) \in Nat
    BY <1>5, <2>1 DEF Place
  <2> HIDE DEF A, B
  <2>3. Place(m) <= Place(n)
    BY <2>1, <2>2, FS_Subset
  <2>4. Place(m) # 0
    BY <2>1, <2>2, FS_EmptySet
  <2>5. QED
    BY <2>2, <2>3, <2>4
<1>8. \A n \in 1 .. Entered : Place(n - 1) \in Nat
  <2>1. \A n \in 1 .. Entered : n - 1 \in Nat
    OBVIOUS
  <2>2. QED
    BY <1>5, <2>1
<1>9. QED
  BY <1>3, <1>4, <1>6, <1>7, <1>8


\* Where the encoder thinks the machine's address is.  The rebase encoder
\* forgets it at the end of a segment.
Addresses(n, r, s) ==
    /\ r.seg = 0 => r.address = Space - 1
    /\ r.seg # 0 =>
          /\ r.seg \in DOMAIN table.segs
          /\ table.stream # "rebase" => table.segs[r.seg].start + s.address = r.address
          /\ table.stream = "rebase" =>
                /\ n # 0 /\ InSeg(r.seg, info[n].address)
                /\ table.segs[r.seg].start + s.address = info[n].address + PtrSize
                /\ r.address = AfterRebase(r.seg, info[n].address)

\* The machine put out the pointers of the first n entries, and its registers
\* are as the encoder remembers them.
Follows(n, r, s) ==
    /\ r \in Encoders /\ s \in Regs /\ Writes(r.out, s)
    /\ s.type = r.type /\ s.addend = r.addend /\ s.sym = r.sym /\ s.seg = r.seg
    /\ r.sym = IF n = 0 THEN 0 ELSE info[n].sym
    /\ table.stream = "bind" => r.ordinal \in {NoOrdinal, s.ordinal}
    /\ r.sym # 0 => \E f \in table.info : f.sym = r.sym /\ f.flag = s.flag
    /\ Addresses(n, r, s)
    /\ Len(s.out) = Place(n)
    /\ \A m \in Placed \cap 1 .. n : Means(s.out[Place(m)], info[m])
    /\ \A m \in 1 .. n : info[m].type = Override => <<info[m].sym, info[m].flag>> \in s.names

LEMMA StartFollows ==
    ASSUME InputOK(table), TableInOrder(info)
    PROVE  Follows(0, Start, Reset)
<1>1. Writes(Start.out, Reset)
  BY StartTyped, WritesNothing
<1>2. /\ Reset.type = 0 /\ Reset.addend = 0 /\ Reset.sym = 0 /\ Reset.seg = 0 /\ Len(Reset.out) = 0
  BY DEF Reset
<1>3. 1 .. 0 = {}
  OBVIOUS
<1>4. QED
  BY <1>1, <1>2, <1>3, StartTyped, ResetTyped, Placing DEF Follows, Addresses

\* What the encoder may assume of the address register
LEMMA AddressKnown ==
    ASSUME InputOK(table), TableInOrder(info), NEW n \in 1 .. Entered, NEW r \in Encoders,
           NEW s \in Regs, Addresses(n - 1, r, s), IsPointer(info[n])
    PROVE  /\ r.seg = 0 => r.address = Space - 1
           /\ r.seg # 0 => r.seg \in DOMAIN table.segs
           /\ r.seg # 0 /\ (r.address = info[n].address \/ InSeg(r.seg, info[n].address)) =>
                 table.segs[r.seg].start + s.address = r.address
           /\ table.stream = "rebase" /\ r.address = info[n].address => InSeg(r.seg, info[n].address)
<1> DEFINE e == info[n]
           p == info[n - 1]
<1>1. /\ e.address \in 0 .. Space - 1 /\ r.address \in 0 .. Space - 1
      /\ PtrSize \in Nat /\ Space \in Nat /\ PtrSize > 0
  <2>1. e \in Entries
    BY SortedTyped
  <2> HIDE DEF e
  <2>2. e.address \in 0 .. Space - 1 /\ r.address \in 0 .. Space - 1
    BY <2>1 DEF Entries, Encoders
  <2>3. QED
    BY <2>2, StreamAssumption
<1>2. e.address # 0 /\ e.address + PtrSize < Space
  BY PointerInSegment
<1>3. e.address # Space - 1
  BY <1>1, <1>2
<1>4. CASE r.seg = 0
  BY <1>3, <1>4 DEF Addresses
<1>5. CASE r.seg # 0 /\ table.stream # "rebase"
  BY <1>5 DEF Addresses
<1>6. CASE r.seg # 0 /\ table.stream = "rebase"
  <2> DEFINE g == r.seg
             last == table.segs[g].end
  <2>1. /\ g \in DOMAIN table.segs /\ n - 1 # 0 /\ InSeg(g, p.address)
        /\ table.segs[g].start + s.address = p.address + PtrSize
        /\ r.address = AfterRebase(g, p.address)
    BY <1>6 DEF Addresses
  <2>2. n \in 2 .. Entered /\ n - 1 \in 1 .. Entered
    <3>1. Entered \in Nat
      BY SortedTyped
    <3>2. QED
      BY <2>1, <3>1
  <2>3. p.address \in Nat
    <3>1. p \in Entries
      BY <2>2, SortedTyped
    <3>2. QED
      BY <3>1 DEF Entries
  <2>4. table.segs[g].start \in Nat /\ last \in Nat
    BY <2>1, SegmentTyped
  <2>5. p.address >= table.segs[g].start
    BY <2>1 DEF InSeg
  <2>6. CASE p.address + PtrSize >= last
    <3>1. r.address = 0
      BY <2>1, <2>6 DEF AfterRebase
    <3>2. ASSUME InSeg(g, e.address)  PROVE FALSE
      <4>1. e.address >= p.address + PtrSize
        BY <1>6, <2>1, <2>2, <3>2, RebasesAscend
      <4>2. e.address < last
        BY <3>2 DEF InSeg
      <4> HIDE DEF e, p, last
      <4>3. QED
        BY <1>1, <2>3, <2>4, <2>6, <4>1, <4>2
    <3> HIDE DEF e, p, last
    <3>3. QED
      BY <1>2, <1>6, <2>1, <3>1, <3>2 DEF e
  <2>7. CASE ~ (p.address + PtrSize >= last)
    <3>1. r.address = p.address + PtrSize
      BY <2>1, <2>7 DEF AfterRebase
    <3>2. r.address = e.address => InSeg(g, e.address)
      <4>1. SUFFICES ASSUME r.address = e.address  PROVE InSeg(g, e.address)
        OBVIOUS
      <4> HIDE DEF e, p, last
      <4>2. e.address < last
        BY <2>3, <2>4, <2>7, <3>1, <4>1, <1>1
      <4>3. e.address >= table.segs[g].start
        BY <2>3, <2>4, <2>5, <3>1, <4>1, <1>1
      <4>4. QED
        BY <1>6, <4>2, <4>3 DEF InSeg, last
    <3> HIDE DEF p
    <3>3. QED
      BY <1>6, <2>1, <3>1, <3>2
  <2>8. QED
    BY <2>6, <2>7
<1>7. QED
  BY <1>4, <1>5, <1>6

LEMMA PointerDone ==
    ASSUME NEW y \in Regs, y.address + PtrSize < Space, NEW x, x = DoPointer(y, 0)
    PROVE  /\ x \in Regs /\ x.address = y.address + PtrSize
           /\ x.out = Append(y.out, [type |-> y.type, ordinal |-> y.ordinal, sym |-> y.sym,
                                     flag |-> y.flag, addend |-> y.addend, seg |-> y.seg,
                                     offset |-> y.address])
           /\ x.type = y.type /\ x.ordinal = y.ordinal /\ x.sym = y.sym /\ x.flag = y.flag
           /\ x.addend = y.addend /\ x.seg = y.seg /\ x.names = y.names
<1> DEFINE o == [type |-> y.type, ordinal |-> y.ordinal, sym |-> y.sym, flag |-> y.flag,
                 addend |-> y.addend, seg |-> y.seg, offset |-> y.address]
           a == y.address + PtrSize
           l == Append(y.out, o)
<1>1. x \in Regs
  BY PointerTyped
<1>2. (y.address + PtrSize + 0) % Space = a
  <2>1. a \in 0 .. Space - 1 /\ a \in Int /\ a = Space * 0 + a /\ y.address + PtrSize + 0 = a
    BY StreamAssumption DEF Regs
  <2> HIDE DEF a
  <2>2. QED
    BY <2>1, StreamAssumption, Remainder
<1>3. x = [y EXCEPT !.address = a, !.out = l]
  BY <1>2 DEF DoPointer, Regs
<1> HIDE DEF a, l
<1>4. /\ x.address = a /\ x.out = l
      /\ x.type = y.type /\ x.ordinal = y.ordinal /\ x.sym = y.sym /\ x.flag = y.flag
      /\ x.addend = y.addend /\ x.seg = y.seg /\ x.names = y.names
  BY <1>3 DEF Regs
<1>5. QED
  BY <1>1, <1>4 DEF a, l

\* A pointer that means the entry
LEMMA PointerMeans ==
    ASSUME InputOK(table), NEW e, IsPointer(e), NEW y \in Regs,
           y.type = e.type, y.addend = e.addend, y.sym = e.sym,
           y.seg \in DOMAIN table.segs, table.segs[y.seg].start + y.address = e.address,
           table.stream = "rebase" => InSeg(y.seg, e.address),
           table.stream = "bind" => y.ordinal = e.ordinal,
           e.sym # 0 => \E f \in table.info : f.sym = e.sym /\ f.flag = y.flag,
           NEW d, d = [type |-> y.type, ordinal |-> y.ordinal, sym |-> y.sym, flag |-> y.flag,
                       addend |-> y.addend, seg |-> y.seg, offset |-> y.address]
    PROVE  Means(d, e)
<1>1. y.seg # 0
  BY SegmentTyped
<1>2. AddressOf(d) = e.address
  BY <1>1 DEF AddressOf
<1>3. ASSUME table.stream = "bind"  PROVE Mixed(e) \/ d.flag = e.flag
  <2>1. e \in table.info /\ e.sym # 0
    BY <1>3 DEF InputOK, IsPointer
  <2>2. PICK f \in table.info : f.sym = e.sym /\ f.flag = y.flag
    BY <2>1
  <2>3. f.ordinal = e.ordinal
    BY <1>3, <2>1, <2>2 DEF InputOK
  <2>4. d.flag = y.flag
    OBVIOUS
  <2>5. QED
    BY <2>2, <2>3, <2>4 DEF Mixed
<1>4. QED
  BY <1>2, <1>3 DEF Means

LEMMA OverrideFollows ==
    ASSUME InputOK(table), TableInOrder(info), NEW n \in 1 .. Entered, NEW r, NEW s,
           Follows(n - 1, r, s), info[n].type = Override
    PROVE  \E x : Follows(n, ConvertEntry(r, info[n]), x)
<1> DEFINE e == info[n]
           c == ConvertEntry(r, e)
<1>1. Entered \in Nat /\ DOMAIN info = 1 .. Entered /\ e \in table.info /\ e \in Entries /\ n # 0
  BY SortedTyped
<1>2. r \in Encoders /\ s \in Regs /\ Writes(r.out, s) /\ s.sym = r.sym
      /\ r.sym = IF n - 1 = 0 THEN 0 ELSE info[n - 1].sym
  BY DEF Follows
<1>3. table.stream = "weak" /\ e.sym # 0
  <2>1. table.stream # "weak" => {q \in table.info : q.type # Override} = table.info
    BY DEF InputOK
  <2>2. e \notin {q \in table.info : q.type # Override}
    OBVIOUS
  <2>3. table.stream = "weak"
    BY <1>1, <2>1, <2>2
  <2>4. QED
    BY <1>1, <2>3 DEF InputOK
<1>4. r.sym # e.sym
  <2>1. CASE n = 1
    BY <1>2, <1>3, <2>1
  <2>2. CASE n # 1
    <3>1. n \in 2 .. Entered /\ n - 1 # 0
      BY <1>1, <2>2
    <3>2. QED
      BY <1>2, <3>1, OverrideFirst
  <2>3. QED
    BY <2>1, <2>2
<1>5. PICK x \in Regs :
              /\ Writes(Named(r, e), x)
              /\ x.type = s.type /\ x.addend = s.addend /\ x.seg = s.seg /\ x.address = s.address
              /\ x.out = s.out /\ s.names \subseteq x.names
              /\ x.sym = e.sym
              /\ table.stream = "bind" => x.ordinal = e.ordinal
              /\ e.sym # 0 => \E f \in table.info : f.sym = e.sym /\ f.flag = x.flag
              /\ table.stream # "rebase" /\ r.sym # e.sym => <<e.sym, e.flag>> \in x.names
  <2>1. /\ table.stream # "rebase" /\ table.stream # "bind"
        /\ r.sym # 0 => \E f \in table.info : f.sym = r.sym /\ f.flag = s.flag
    BY <1>3 DEF Follows
  <2> HIDE DEF e
  <2>2. QED
    BY <1>1, <1>2, <2>1, NamedReaches
<1>6. /\ c \in Encoders /\ c.ordinal = e.ordinal /\ c.sym = e.sym /\ c.out = Named(r, e)
      /\ c.type = r.type /\ c.seg = r.seg /\ c.addend = r.addend /\ c.address = r.address
  BY <1>1, <1>2, ConvertOverride
<1>7. n \notin Placed /\ Place(n) = Place(n - 1)
  <2>1. n \notin Placed
    BY DEF Placed
  <2>2. QED
    BY <2>1, Placing
<1>8. \A m \in 1 .. n : m \in 1 .. n - 1 \/ m = n
  OBVIOUS
<1> HIDE DEF c
<1>9. Addresses(n, c, x)
  BY <1>3, <1>5, <1>6 DEF Follows, Addresses
<1>10. \A m \in Placed \cap 1 .. n : Means(x.out[Place(m)], info[m])
  <2>1. \A m \in Placed \cap 1 .. n - 1 : Means(s.out[Place(m)], info[m])
    BY DEF Follows
  <2>2. QED
    BY <1>5, <1>7, <1>8, <2>1
<1>11. \A m \in 1 .. n : info[m].type = Override => <<info[m].sym, info[m].flag>> \in x.names
  <2>1. \A m \in 1 .. n - 1 : info[m].type = Override => <<info[m].sym, info[m].flag>> \in s.names
    BY DEF Follows
  <2>2. <<info[n].sym, info[n].flag>> \in x.names
    BY <1>3, <1>4, <1>5
  <2>3. QED
    BY <1>5, <1>8, <2>1, <2>2
<1>12. Len(x.out) = Place(n)
  BY <1>5, <1>7 DEF Follows
<1>13. x.type = c.type /\ x.addend = c.addend /\ x.seg = c.seg
  BY <1>5, <1>6 DEF Follows
<1>14. Follows(n, c, x)
  BY <1>1, <1>3, <1>5, <1>6, <1>9, <1>10, <1>11, <1>12, <1>13 DEF Follows
<1>15. QED
  BY <1>14 DEF c

LEMMA PointerFollows ==
    ASSUME InputOK(table), TableInOrder(info), NEW n \in 1 .. Entered, NEW r, NEW s,
           Follows(n - 1, r, s), info[n].type # Override
    PROVE  \E x : Follows(n, ConvertEntry(r, info[n]), x)
<1> DEFINE e == info[n]
           c == ConvertEntry(r, e)
           g == NewSeg(r, e)
           b == table.segs[g].start
<1>1. /\ Entered \in Nat /\ DOMAIN info = 1 .. Entered /\ e \in table.info /\ e \in Entries
      /\ n # 0 /\ IsPointer(e)
  BY SortedTyped DEF IsPointer
<1>2. /\ r \in Encoders /\ s \in Regs /\ Writes(r.out, s)
      /\ s.type = r.type /\ s.addend = r.addend /\ s.sym = r.sym /\ s.seg = r.seg
      /\ table.stream = "bind" => r.ordinal \in {NoOrdinal, s.ordinal}
      /\ r.sym # 0 => \E f \in table.info : f.sym = r.sym /\ f.flag = s.flag
  BY DEF Follows
<1>3. table.stream = "rebase" => r.sym = 0
  <2>1. r.sym = IF n - 1 = 0 THEN 0 ELSE info[n - 1].sym
    BY DEF Follows
  <2>2. n - 1 # 0 => n - 1 \in 1 .. Entered
    BY <1>1
  <2>3. n - 1 # 0 => info[n - 1] \in table.info
    BY <2>2, SortedTyped
  <2>4. table.stream = "rebase" => \A q \in table.info : q.sym = 0
    BY DEF InputOK
  <2>5. QED
    BY <2>1, <2>3, <2>4
<1>4. PICK x \in Regs :
              /\ Writes(Named(r, e), x)
              /\ x.type = s.type /\ x.addend = s.addend /\ x.seg = s.seg /\ x.address = s.address
              /\ x.out = s.out /\ s.names \subseteq x.names
              /\ x.sym = e.sym
              /\ table.stream = "bind" => x.ordinal = e.ordinal
              /\ e.sym # 0 => \E f \in table.info : f.sym = e.sym /\ f.flag = x.flag
              /\ table.stream # "rebase" /\ r.sym # e.sym => <<e.sym, e.flag>> \in x.names
  <2> HIDE DEF e
  <2>1. QED
    BY <1>1, <1>2, <1>3, NamedReaches
<1>5. /\ r.seg = 0 => r.address = Space - 1
      /\ r.seg # 0 => r.seg \in DOMAIN table.segs
      /\ r.seg # 0 /\ (r.address = e.address \/ InSeg(r.seg, e.address)) =>
            table.segs[r.seg].start + x.address = r.address
      /\ table.stream = "rebase" /\ r.address = e.address => InSeg(r.seg, e.address)
  <2>1. Addresses(n - 1, r, s)
    BY DEF Follows
  <2>2. QED
    BY <1>1, <1>2, <1>4, <2>1, AddressKnown
<1>6. x.type = r.type /\ x.addend = r.addend /\ x.seg = r.seg
  BY <1>2, <1>4
<1>7. PICK y \in Regs :
              /\ Writes(Pointed(r, e, NewSeg(r, e), Named(r, e)), DoPointer(y, 0))
              /\ y.type = e.type /\ y.addend = e.addend
              /\ y.seg = NewSeg(r, e) /\ NewSeg(r, e) \in DOMAIN table.segs
              /\ table.segs[NewSeg(r, e)].start + y.address = e.address
              /\ table.stream = "rebase" => InSeg(NewSeg(r, e), e.address)
              /\ y.ordinal = x.ordinal /\ y.sym = x.sym
              /\ y.flag = x.flag /\ y.names = x.names /\ y.out = x.out
  <2> DEFINE out == Named(r, e)
  <2>1. Writes(out, x)
    BY <1>4
  <2> HIDE DEF e, out
  <2>2. \E y \in Regs :
              /\ Writes(Pointed(r, e, NewSeg(r, e), out), DoPointer(y, 0))
              /\ y.type = e.type /\ y.addend = e.addend
              /\ y.seg = NewSeg(r, e) /\ NewSeg(r, e) \in DOMAIN table.segs
              /\ table.segs[NewSeg(r, e)].start + y.address = e.address
              /\ table.stream = "rebase" => InSeg(NewSeg(r, e), e.address)
              /\ y.ordinal = x.ordinal /\ y.sym = x.sym
              /\ y.flag = x.flag /\ y.names = x.names /\ y.out = x.out
    BY <1>1, <1>2, <1>5, <1>6, <2>1, PointedReaches
  <2>3. QED
    BY <2>2 DEF out
<1>8. /\ c \in Encoders /\ c.ordinal = e.ordinal /\ c.sym = e.sym /\ c.type = e.type
      /\ c.seg = g /\ c.addend = e.addend
      /\ c.out = Pointed(r, e, g, Named(r, e))
      /\ c.address = IF table.stream = "rebase" THEN AfterRebase(g, e.address)
                     ELSE e.address + PtrSize
  BY <1>1, <1>2, ConvertPointer
<1> DEFINE z == DoPointer(y, 0)
           d == [type |-> y.type, ordinal |-> y.ordinal, sym |-> y.sym, flag |-> y.flag,
                 addend |-> y.addend, seg |-> y.seg, offset |-> y.address]
<1>9. b \in Nat /\ g # 0 /\ b + y.address = e.address /\ y.address \in Nat /\ e.address \in Nat
      /\ PtrSize \in Nat /\ Space \in Nat
  <2> HIDE DEF e
  <2>1. g \in DOMAIN table.segs /\ b + y.address = e.address
    BY <1>7
  <2>2. b \in Nat /\ g # 0
    <3> HIDE DEF g
    <3>1. QED
      BY <2>1, SegmentTyped
  <2>3. y.address \in Nat /\ e.address \in Nat
    <3>1. y.address \in 0 .. Space - 1 /\ e.address \in 0 .. Space - 1
      BY <1>1 DEF Regs, Entries
    <3>2. QED
      BY <3>1
  <2>4. QED
    BY <2>1, <2>2, <2>3, StreamAssumption
<1>10. y.address + PtrSize < Space /\ b + (y.address + PtrSize) = e.address + PtrSize
  <2>1. e.address + PtrSize < Space
    BY <1>1, PointerInSegment
  <2> HIDE DEF b, e
  <2>2. QED
    BY <1>9, <2>1
<1>11. /\ z \in Regs /\ z.address = y.address + PtrSize /\ z.out = Append(y.out, d)
       /\ z.type = y.type /\ z.ordinal = y.ordinal /\ z.sym = y.sym /\ z.flag = y.flag
       /\ z.addend = y.addend /\ z.seg = y.seg /\ z.names = y.names
  <2> HIDE DEF z
  <2>1. z = DoPointer(y, 0)
    BY DEF z
  <2>2. QED
    BY <1>10, <2>1, PointerDone
<1>12. Means(d, e)
  <2>1. /\ y.sym = e.sym /\ y.seg \in DOMAIN table.segs
        /\ table.segs[y.seg].start + y.address = e.address
        /\ table.stream = "rebase" => InSeg(y.seg, e.address)
        /\ table.stream = "bind" => y.ordinal = e.ordinal
        /\ e.sym # 0 => \E f \in table.info : f.sym = e.sym /\ f.flag = y.flag
    BY <1>4, <1>7
  <2> HIDE DEF e, d
  <2>2. d = [type |-> y.type, ordinal |-> y.ordinal, sym |-> y.sym, flag |-> y.flag,
             addend |-> y.addend, seg |-> y.seg, offset |-> y.address]
    BY DEF d
  <2>3. QED
    BY <1>1, <1>7, <2>1, <2>2, PointerMeans
<1>13. n \in Placed /\ Place(n) = Place(n - 1) + 1 /\ Place(n - 1) \in Nat
  <2>1. n \in Placed
    BY <1>1 DEF Placed
  <2>2. QED
    BY <2>1, Placing
<1>14. /\ Len(z.out) = Place(n) /\ z.out[Place(n)] = d
       /\ \A i \in 1 .. Place(n - 1) : z.out[i] = s.out[i]
  <2>1. y.out \in Seq(Outs) /\ Len(y.out) = Place(n - 1) /\ y.out = s.out
    BY <1>4, <1>7 DEF Follows, Regs
  <2> HIDE DEF d, z
  <2>2. QED
    BY <1>11, <1>13, <2>1
<1>15. \A m \in 1 .. n : m \in 1 .. n - 1 \/ m = n
  OBVIOUS
<1>16. \A m \in Placed \cap 1 .. n : Means(z.out[Place(m)], info[m])
  <2> SUFFICES ASSUME NEW m \in Placed \cap 1 .. n  PROVE Means(z.out[Place(m)], info[m])
    OBVIOUS
  <2> HIDE DEF d, z
  <2>1. CASE m = n
    BY <1>12, <1>14, <2>1
  <2>2. CASE m # n
    <3>1. m \in Placed \cap 1 .. n - 1
      BY <2>2, <1>15
    <3>2. n - 1 \in 1 .. Entered
      BY <1>1, <3>1
    <3>3. Place(m) \in 1 .. Place(n - 1)
      BY <3>1, <3>2, Placing
    <3>4. Means(s.out[Place(m)], info[m])
      BY <3>1 DEF Follows
    <3>5. QED
      BY <1>14, <3>3, <3>4
  <2>3. QED
    BY <2>1, <2>2
<1>17. \A m \in 1 .. n : info[m].type = Override => <<info[m].sym, info[m].flag>> \in z.names
  <2>1. \A m \in 1 .. n - 1 : info[m].type = Override => <<info[m].sym, info[m].flag>> \in s.names
    BY DEF Follows
  <2>2. s.names \subseteq z.names
    BY <1>4, <1>7, <1>11
  <2>3. QED
    BY <1>15, <2>1, <2>2
<1> HIDE DEF c, g, z, d
<1>18. Addresses(n, c, z)
  <2>1. /\ c.seg = g /\ g # 0 /\ g \in DOMAIN table.segs
        /\ table.segs[g].start + z.address = e.address + PtrSize
        /\ table.stream = "rebase" => InSeg(g, e.address)
    BY <1>7, <1>8, <1>9, <1>10, <1>11 DEF g
  <2>2. QED
    BY <1>1, <1>8, <2>1 DEF Addresses
<1>19. Writes(c.out, z)
  BY <1>7, <1>8 DEF g, z
<1>20. /\ z.type = c.type /\ z.addend = c.addend /\ z.sym = c.sym /\ z.seg = c.seg
       /\ table.stream = "bind" => c.ordinal = z.ordinal
       /\ c.sym # 0 => \E f \in table.info : f.sym = c.sym /\ f.flag = z.flag
  BY <1>4, <1>7, <1>8, <1>11 DEF g
<1>21. c.sym = IF n = 0 THEN 0 ELSE info[n].sym
  BY <1>1, <1>8
<1>22. Follows(n, c, z)
  BY <1>8, <1>11, <1>14, <1>16, <1>17, <1>18, <1>19, <1>20, <1>21 DEF Follows
<1>23. QED
  BY <1>22 DEF c

\* The plain program
LEMMA ConvertedFollows ==
    ASSUME InputOK(table), TableInOrder(info)
    PROVE  \E s : Follows(Entered, Converted(Entered), s)
<1>1. Entered \in Nat /\ \A n \in 1 .. Entered : info[n] \in table.info
  BY SortedTyped
<1>2. PICK after \in [0 .. Entered -> Encoders] :
              /\ after[0] = Start /\ after[Entered] = Converted(Entered)
              /\ \A k \in 1 .. Entered : after[k] = ConvertEntry(after[k - 1], info[k])
  BY <1>1, ConvertedSolved
<1> DEFINE S == {k \in 0 .. Entered : \E s : Follows(k, after[k], s)}
<1>3. 0 \in S
  BY <1>1, <1>2, StartFollows
<1>4. ASSUME NEW n \in 1 .. Entered, n - 1 \in S  PROVE n \in S
  <2>1. PICK s : Follows(n - 1, after[n - 1], s)
    BY <1>4
  <2>2. \E x : Follows(n, ConvertEntry(after[n - 1], info[n]), x)
    BY <2>1, OverrideFollows, PointerFollows
  <2>3. n \in 0 .. Entered /\ after[n] = ConvertEntry(after[n - 1], info[n])
    BY <1>1, <1>2
  <2>4. QED
    BY <2>2, <2>3
<1> HIDE DEF S
<1>5. \A n \in 0 .. Entered : n \in S
  <2>1. \A n \in 1 .. Entered : n - 1 \in S => n \in S
    BY <1>4
  <2>2. QED
    BY <1>1, <1>3, <2>1, UpTo
<1>6. Entered \in 0 .. Entered
  BY <1>1
<1>7. QED
  BY <1>2, <1>5, <1>6 DEF S


------------------------------------------------------------------------------
(***************************************************************************)
(* OpcodeStream: the invariant.                                            *)
(***************************************************************************)
\* The machine put out what the table says.
Says(s) ==
    /\ Len(s.out) = Cardinality(Placed)
    /\ \A n \in Placed : Means(s.out[Place(n)], info[n])
    /\ \A e \in table.info : e.type = Override => <<e.sym, e.flag>> \in s.names

\* The entries are in order once they are sorted; the program takes the machine
\* to a state that says what the table says; before runs are packed, each
\* "times" is of one pointer.
StreamInv ==
    /\ table \in Inputs
    /\ step \in {"sort", "convert", "pack", "combine", "compress", "immediate", "done"}
    /\ step # "sort" => TableInOrder(info)
    /\ step \notin {"sort", "convert"} =>
          mid \in Seq(Ops) /\ \E s : Reaches(Reset, mid, s) /\ Says(s)
    /\ step = "pack" => \A n \in DOMAIN mid : mid[n].op = "times" => mid[n].a = 1

LEMMA SortedStays ==
    ASSUME TableInOrder(info'), table' = table
    PROVE  TableInOrder(info)'
BY DEF TableInOrder, Key

LEMMA SaysStays ==
    ASSUME NEW s, Says(s), table' = table, info' = info
    PROVE  Says(s)'
<1>1. Placed' = Placed
  BY DEF Placed
<1>2. \A n : Place(n)' = Place(n)
  BY <1>1 DEF Place
<1>3. \A d : AddressOf(d)' = AddressOf(d)
  BY DEF AddressOf
<1>4. \A g, a : InSeg(g, a)' <=> InSeg(g, a)
  BY DEF InSeg
<1>5. \A e : Mixed(e)' <=> Mixed(e)
  BY DEF Mixed
<1>6. \A d, e : Means(d, e) => Means(d, e)'
  BY <1>3, <1>4, <1>5 DEF Means
<1>7. QED
  BY <1>1, <1>2, <1>6 DEF Says

LEMMA SortKeeps == StreamInv /\ Sort => StreamInv'
<1> SUFFICES ASSUME StreamInv, Sort  PROVE StreamInv'
  OBVIOUS
<1>1. InputOK(table) /\ table' = table /\ table \in Inputs
  BY InputAssumption DEF StreamInv, Sort
<1>2. info' = [n \in 1 .. Cardinality(table.info) |->
                   CHOOSE e \in table.info : Rank(e) = n - 1]
  BY DEF Sort
<1>3. TableInOrder(info')
  BY <1>1, <1>2, SortedByRank
<1>4. TableInOrder(info)'
  BY <1>1, <1>3, SortedStays
<1>5. step' = "convert"
  BY DEF Sort
<1>6. QED
  BY <1>1, <1>4, <1>5 DEF StreamInv

LEMMA ConvertKeeps == StreamInv /\ Convert => StreamInv'
<1> SUFFICES ASSUME StreamInv, Convert  PROVE StreamInv'
  OBVIOUS
<1>1. /\ InputOK(table) /\ table' = table /\ info' = info /\ table \in Inputs
      /\ TableInOrder(info)
      /\ mid' = Converted(Len(info)).out /\ step' \in {"pack", "combine"}
  BY InputAssumption DEF StreamInv, Convert
<1>2. Len(info) = Entered
  <2>1. Entered \in Nat /\ info \in [1 .. Entered -> table.info]
    BY <1>1, SortedTyped DEF TableInOrder, Entered
  <2>2. QED
    BY <2>1
<1>3. PICK s : Follows(Entered, Converted(Entered), s)
  BY <1>1, ConvertedFollows
<1>4. /\ mid' \in Seq(Ops) /\ Reaches(Reset, mid', s)
      /\ \A n \in DOMAIN mid' : mid'[n].op = "times" => mid'[n].a = 1
  <2>1. Writes(mid', s)
    BY <1>1, <1>2, <1>3 DEF Follows
  <2>2. QED
    BY <2>1 DEF Writes
<1>5. Says(s)
  <2>1. Place(Entered) = Cardinality(Placed)
    BY <1>1, Placing
  <2>2. Placed \cap 1 .. Entered = Placed
    BY <1>1, SortedTyped DEF Placed
  <2>3. ASSUME NEW e \in table.info, e.type = Override  PROVE <<e.sym, e.flag>> \in s.names
    <3>1. PICK n \in 1 .. Entered : info[n] = e
      BY <1>1 DEF TableInOrder, Entered
    <3>2. QED
      BY <1>3, <2>3, <3>1 DEF Follows
  <2>4. QED
    BY <1>3, <2>1, <2>2, <2>3 DEF Says, Follows
<1>6. Says(s)' /\ TableInOrder(info)'
  BY <1>1, <1>5, SaysStays, SortedStays
<1>7. QED
  BY <1>1, <1>4, <1>6 DEF StreamInv

\* A program that is rewritten says the same.
LEMMA RewritingKeeps ==
    ASSUME StreamInv, table' = table, info' = info, step \notin {"sort", "convert"},
           step' \in {"combine", "compress", "immediate", "done"},
           mid' \in Seq(Ops), \A s : Reaches(Reset, mid, s) => Reaches(Reset, mid', s)
    PROVE  StreamInv'
<1>1. PICK s : Reaches(Reset, mid, s) /\ Says(s)
  BY DEF StreamInv
<1>2. Says(s)' /\ TableInOrder(info)' /\ table' \in Inputs
  BY <1>1, SaysStays, SortedStays DEF StreamInv
<1>3. Reaches(Reset, mid', s)
  BY <1>1
<1>4. QED
  BY <1>2, <1>3 DEF StreamInv

LEMMA PiecesKeep ==
    ASSUME mid \in Seq(Ops), NEW pieces, DOMAIN pieces = DOMAIN mid,
           pieces = [n \in DOMAIN mid |-> pieces[n]],
           NEW s, Reaches(Reset, mid, s),
           \A t : IsTrace(t, mid) => \A n \in 1 .. Len(mid) : IsGood(pieces[n], n, t)
    PROVE  Rewritten(pieces) \in Seq(Ops) /\ Reaches(Reset, Rewritten(pieces), s)
<1>1. PICK t : IsTrace(t, mid)
  BY DEF Reaches
<1>2. DOMAIN mid = 1 .. Len(mid)
  OBVIOUS
<1>3. \A n \in DOMAIN mid : pieces[n] \in Pieces(Ops)
  BY <1>1, <1>2 DEF IsGood
<1>4. pieces \in [DOMAIN mid -> Pieces(Ops)]
  BY <1>3
<1>5. QED
  BY <1>4, GoodPieces

LEMMA PackRunsKeeps == StreamInv /\ PackRuns => StreamInv'
<1> SUFFICES ASSUME StreamInv, PackRuns  PROVE StreamInv'
  OBVIOUS
<1> DEFINE pieces == [n \in DOMAIN mid |-> PackedRun(n)]
<1>1. /\ mid \in Seq(Ops) /\ \A n \in DOMAIN mid : mid[n].op = "times" => mid[n].a = 1
      /\ \E s : Reaches(Reset, mid, s)
      /\ table' = table /\ info' = info /\ step \notin {"sort", "convert"} /\ step' = "combine"
      /\ mid' = Rewritten(pieces)
  BY DEF StreamInv, PackRuns
<1>2. ASSUME NEW t, IsTrace(t, mid), NEW n \in 1 .. Len(mid)  PROVE IsGood(pieces[n], n, t)
  <2>1. pieces[n] = PackedRun(n)
    BY <1>1
  <2> HIDE DEF pieces
  <2>2. QED
    BY <1>1, <1>2, <2>1, PackedIsGood
<1>3. DOMAIN pieces = DOMAIN mid /\ pieces = [n \in DOMAIN mid |-> pieces[n]]
  OBVIOUS
<1> HIDE DEF pieces
<1>4. \A s : Reaches(Reset, mid, s) =>
                Rewritten(pieces) \in Seq(Ops) /\ Reaches(Reset, Rewritten(pieces), s)
  BY <1>1, <1>2, <1>3, PiecesKeep
<1>5. QED
  BY <1>1, <1>4, RewritingKeeps

LEMMA CombinePairsKeeps == StreamInv /\ CombinePairs => StreamInv'
<1> SUFFICES ASSUME StreamInv, CombinePairs  PROVE StreamInv'
  OBVIOUS
<1> DEFINE pieces == [n \in DOMAIN mid |-> CombinedPair(n)]
<1>1. /\ mid \in Seq(Ops) /\ \E s : Reaches(Reset, mid, s)
      /\ table' = table /\ info' = info /\ step \notin {"sort", "convert"} /\ step' = "compress"
      /\ mid' = Rewritten(pieces)
  BY DEF StreamInv, CombinePairs
<1>2. ASSUME NEW t, IsTrace(t, mid), NEW n \in 1 .. Len(mid)  PROVE IsGood(pieces[n], n, t)
  <2>1. pieces[n] = CombinedPair(n)
    BY <1>1
  <2> HIDE DEF pieces
  <2>2. QED
    BY <1>1, <1>2, <2>1, CombinedIsGood
<1>3. DOMAIN pieces = DOMAIN mid /\ pieces = [n \in DOMAIN mid |-> pieces[n]]
  OBVIOUS
<1> HIDE DEF pieces
<1>4. \A s : Reaches(Reset, mid, s) =>
                Rewritten(pieces) \in Seq(Ops) /\ Reaches(Reset, Rewritten(pieces), s)
  BY <1>1, <1>2, <1>3, PiecesKeep
<1>5. QED
  BY <1>1, <1>4, RewritingKeeps

LEMMA CompressRunsKeeps == StreamInv /\ CompressRuns => StreamInv'
<1> SUFFICES ASSUME StreamInv, CompressRuns  PROVE StreamInv'
  OBVIOUS
<1> DEFINE pieces == [n \in DOMAIN mid |-> CompressedRun(n)]
<1>1. /\ mid \in Seq(Ops) /\ \E s : Reaches(Reset, mid, s)
      /\ table' = table /\ info' = info /\ step \notin {"sort", "convert"} /\ step' = "immediate"
      /\ mid' = Rewritten(pieces)
  BY DEF StreamInv, CompressRuns
<1>2. ASSUME NEW t, IsTrace(t, mid), NEW n \in 1 .. Len(mid)  PROVE IsGood(pieces[n], n, t)
  <2>1. pieces[n] = CompressedRun(n)
    BY <1>1
  <2> HIDE DEF pieces
  <2>2. QED
    BY <1>1, <1>2, <2>1, CompressedIsGood
<1>3. DOMAIN pieces = DOMAIN mid /\ pieces = [n \in DOMAIN mid |-> pieces[n]]
  OBVIOUS
<1> HIDE DEF pieces
<1>4. \A s : Reaches(Reset, mid, s) =>
                Rewritten(pieces) \in Seq(Ops) /\ Reaches(Reset, Rewritten(pieces), s)
  BY <1>1, <1>2, <1>3, PiecesKeep
<1>5. QED
  BY <1>1, <1>4, RewritingKeeps

LEMMA UseImmediatesKeeps == StreamInv /\ UseImmediates => StreamInv'
<1> SUFFICES ASSUME StreamInv, UseImmediates  PROVE StreamInv'
  OBVIOUS
<1>1. /\ mid \in Seq(Ops) /\ \E s : Reaches(Reset, mid, s)
      /\ table' = table /\ info' = info /\ step \notin {"sort", "convert"} /\ step' = "done"
      /\ mid' = [n \in DOMAIN mid |-> Immediate(mid[n])]
  BY DEF StreamInv, UseImmediates
<1>2. \A s : Reaches(Reset, mid, s) => mid' \in Seq(Ops) /\ Reaches(Reset, mid', s)
  BY <1>1, ImmediatesReach
<1>3. QED
  BY <1>1, <1>2, RewritingKeeps

LEMMA StreamInvMeans == StreamInv => StreamMeansFixups
<1> SUFFICES ASSUME StreamInv, step \notin {"sort", "convert"}
             PROVE  LET run == RunOf(mid)
                    IN  /\ {info[n] : n \in DOMAIN info} = table.info
                        /\ Len(info) = Cardinality(table.info)
                        /\ Len(run.out) = Cardinality(Placed)
                        /\ \A n \in Placed : Means(run.out[Place(n)], info[n])
                        /\ \A e \in table.info :
                              e.type = Override => <<e.sym, e.flag>> \in run.names
  BY DEF StreamMeansFixups
<1>1. InputOK(table) /\ TableInOrder(info) /\ mid \in Seq(Ops)
  BY InputAssumption DEF StreamInv
<1>2. PICK s : Reaches(Reset, mid, s) /\ Says(s)
  BY DEF StreamInv
<1>3. RunOf(mid) = s
  BY <1>1, <1>2, RunIs
<1>4. /\ Entered \in Nat /\ DOMAIN info = 1 .. Entered
      /\ info \in [1 .. Entered -> table.info]
      /\ \A e \in table.info : \E n \in 1 .. Entered : info[n] = e
  BY <1>1, SortedTyped DEF TableInOrder, Entered
<1>5. {info[n] : n \in DOMAIN info} = table.info
  BY <1>4
<1>6. Len(info) = Cardinality(table.info)
  <2>1. Len(info) = Entered
    BY <1>4
  <2>2. QED
    BY <2>1 DEF Entered
<1>7. QED
  BY <1>2, <1>3, <1>5, <1>6 DEF Says

\* For every table, the program that the encoder writes, and each rewriting of
\* it, rebases or binds exactly what the table says when the machine runs it
\* (RebaseInfoAtom, BindingInfoAtom and WeakBindingInfoAtom against the machine
\* of DyldInfoPrinter).
THEOREM StreamsMean == StreamSpec => []StreamMeansFixups
<1>1. StreamInit => StreamInv
  BY DEF StreamInit, StreamInv
<1>2. StreamInv /\ [StreamNext]_streamVars => StreamInv'
  <2> SUFFICES ASSUME StreamInv, [StreamNext]_streamVars  PROVE StreamInv'
    OBVIOUS
  <2>1. CASE Sort
    BY <2>1, SortKeeps
  <2>2. CASE Convert
    BY <2>2, ConvertKeeps
  <2>3. CASE PackRuns
    BY <2>3, PackRunsKeeps
  <2>4. CASE CombinePairs
    BY <2>4, CombinePairsKeeps
  <2>5. CASE CompressRuns
    BY <2>5, CompressRunsKeeps
  <2>6. CASE UseImmediates
    BY <2>6, UseImmediatesKeeps
  <2>7. CASE UNCHANGED streamVars
    <3>1. table' = table /\ step' = step /\ info' = info /\ mid' = mid
      BY <2>7 DEF streamVars
    <3>2. step # "sort" => TableInOrder(info)'
      BY <3>1, SortedStays DEF StreamInv
    <3>3. \A s : Says(s) => Says(s)'
      BY <3>1, SaysStays
    <3>4. QED
      BY <3>1, <3>2, <3>3 DEF StreamInv
  <2>8. QED
    BY <2>1, <2>2, <2>3, <2>4, <2>5, <2>6, <2>7 DEF StreamNext
<1>3. QED
  BY <1>1, <1>2, StreamInvMeans, PTL DEF StreamSpec


=============================================================================
