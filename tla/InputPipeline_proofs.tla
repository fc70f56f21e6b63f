------------------------- MODULE InputPipeline_proofs -------------------------
(***************************************************************************)
(* Proofs about InputPipeline, for every number of files and processors    *)
(* and every command line.                                                 *)
(***************************************************************************)
EXTENDS InputPipeline, FiniteSetTheorems, TLAPS

(***************************************************************************)
(* Every non-empty set of natural numbers has a least element.  The        *)
(* library states this for a predicate; as a statement about sets it can   *)
(* be used directly, and serves for induction as well: look at the least   *)
(* counterexample.                                                         *)
(***************************************************************************)
\* The elements of S up to x; the smallest such set belongs to the least element.
UpTo(S, x) == {y \in S : y <= x}

\* Scans such as the one for the next file to parse, and the searches of the
\* symbol table, stop at a least element.
LEMMA LeastElementExists ==
  ASSUME NEW S \in SUBSET Nat, S # {}
  PROVE  \E x \in S : \A y \in S : x <= y
<1> DEFINE Initials == {UpTo(S, x) : x \in S}
<1>1. IsWellFoundedOn(StrictSubsetOrdering(S), FiniteSubsetsOf(S))
  BY FS_StrictSubsetOrderingWellFounded
<1>2. Initials \subseteq FiniteSubsetsOf(S)
  <2> SUFFICES ASSUME NEW x \in S PROVE UpTo(S, x) \in FiniteSubsetsOf(S)
    OBVIOUS
  <2>1. UpTo(S, x) \in SUBSET S /\ UpTo(S, x) \in SUBSET Nat
        /\ \A y \in UpTo(S, x) : y <= x
    BY DEF UpTo
  <2>2. x \in Nat
    OBVIOUS
  <2>3. IsFiniteSet(UpTo(S, x))
    BY <2>1, <2>2, FS_BoundedSetOfNaturals
  <2> QED  BY <2>1, <2>3 DEF FiniteSubsetsOf
<1>3. Initials # {}
  OBVIOUS
<1> HIDE DEF Initials
<1>4. PICK I \in Initials : \A J \in Initials : <<J, I>> \notin StrictSubsetOrdering(S)
  BY <1>1, <1>2, <1>3, WFMin
<1>5. PICK x \in S : I = UpTo(S, x)
  BY DEF Initials
<1>6. ASSUME NEW y \in S, y < x  PROVE FALSE
  <2>1. UpTo(S, y) \in Initials
    BY DEF Initials
  <2>2. UpTo(S, y) \subseteq UpTo(S, x) /\ UpTo(S, x) \subseteq S
    <3>1. x \in Nat /\ y \in Nat /\ \A z \in S : z \in Nat
      OBVIOUS
    <3>2. y < x
      BY <1>6
    <3>3. ASSUME NEW z \in UpTo(S, y)  PROVE z \in UpTo(S, x)
      <4>1. z \in S /\ z <= y
        BY DEF UpTo
      <4>2. z \in Nat /\ z <= x
        BY <3>1, <3>2, <4>1
      <4> QED  BY <4>1, <4>2 DEF UpTo
    <3> QED  BY <3>3 DEF UpTo
  <2>3. x \in UpTo(S, x) /\ x \notin UpTo(S, y)
    BY <1>6 DEF UpTo
  <2>4. <<UpTo(S, y), UpTo(S, x)>> \in StrictSubsetOrdering(S)
    BY <2>2, <2>3 DEF StrictSubsetOrdering
  <2> QED  BY <1>4, <1>5, <2>1, <2>4
<1>7. \A y \in S : x <= y
  BY <1>6
<1> QED  BY <1>7

-----------------------------------------------------------------------------

Idle == {w \in Workers : wpc[w] \in {"waiting", "woken"}}
Busy(w) == wpc[w] \in {"parsing", "parsed"}

\* Who is where when _parseLock is held.
LockInv ==
    /\ \A w \in Workers : lock = w <=> wpc[w] \in {"top", "check"}
    /\ mpc = "test" => lock = Main
    /\ lock = Main => mpc \in {"test", "throwing", "exited"}

\* The counters of workers agree with the states of the workers.
WorkersInv ==
    /\ idleWorkers = Cardinality(Idle)
    /\ \A w \in Workers :
         wpc[w] = "unstarted" <=> w > WorkerLimit - availableWorkers

\* A slot is announced, ready, in work or stored, one after the other; the
\* cursor is at or before every ready slot.
SlotInv ==
    /\ available = Cardinality(ready)
    /\ \A s \in ready : s >= cursor
    /\ ready \cap stored = {}
    /\ fileMap \cap (ready \cup stored) = {}
    /\ \A w \in Workers : Busy(w) =>
         /\ wslot[w] \in Slots
         /\ wslot[w] \notin ready \cup stored \cup fileMap
         /\ \A v \in Workers \ {w} : Busy(v) => wslot[v] # wslot[w]

\* What the main thread has seen of the files, and why it sleeps.
MainInv ==
    /\ mpc \in {"lock", "test", "waiting", "woken", "consume"} => fileIndex < NumFiles
    /\ mpc = "consume" => fileIndex \in stored
    /\ mpc \in {"finish", "done"} => fileIndex = NumFiles
    /\ \A s \in stored : cmd.kind[s] # "badFile"
    /\ \A s \in Slots : s < fileIndex => s \in stored
    /\ mpc = "waiting" => neededSlot = fileIndex /\ fileIndex \notin stored

\* _exception is set once something has failed, and the sleeping main thread
\* is about to be told.
ExceptionInv ==
    /\ \A s \in Slots : s < fileIndex /\ cmd.kind[s] = "badAtoms"
                          => exception # NoException
    /\ mpc = "consume" => \A s \in Slots : s < fileIndex => cmd.kind[s] # "badAtoms"
    /\ mpc = "done" => \A s \in Slots : cmd.kind[s] # "badAtoms"
    /\ mpc = "waiting" /\ exception # NoException
         => \E w \in Workers : lock = w /\ wpc[w] = "check" /\ remaining = 0
    /\ exception = FifoError \/ lpc = "failing" => FifoMayFail
    /\ exception \in Slots => cmd.kind[exception] \in {"badFile", "badAtoms"}
    /\ mpc \in {"throwing", "exited"} => exception # NoException

IInv ==
    TypeOK /\ LockInv /\ WorkersInv /\ SlotInv /\ MainInv /\ ExceptionInv

-----------------------------------------------------------------------------
\* The arithmetic facts about the constants that every step uses.
LEMMA Constants ==
  /\ NumFiles \in Nat /\ NumFiles > 0
  /\ WorkerLimit \in Nat /\ WorkerLimit > 0
  /\ Workers = 1 .. WorkerLimit /\ Slots = 0 .. NumFiles - 1
  /\ Free \notin Workers /\ Main \notin Workers /\ Free # Main
  /\ NoException \notin Slots /\ FifoError \notin Slots
  /\ NoException # FifoError
  BY InputAssumption DEF WorkerLimit, Workers, Slots, Free, Main, NoException, FifoError

\* Sets of slots and sets of workers are finite, and no larger than they should be.
LEMMA FiniteSlots ==
  ASSUME NEW S \in SUBSET Slots
  PROVE  IsFiniteSet(S) /\ Cardinality(S) \in 0 .. NumFiles
<1>1. IsFiniteSet(Slots) /\ Cardinality(Slots) = NumFiles
  BY Constants, FS_Interval
<1>2. IsFiniteSet(S) /\ Cardinality(S) <= NumFiles
  BY <1>1, FS_Subset
<1> QED  BY <1>2, FS_CardinalityType, Constants

\* The same for workers.
LEMMA FiniteWorkers ==
  ASSUME NEW S \in SUBSET Workers
  PROVE  IsFiniteSet(S) /\ Cardinality(S) \in 0 .. WorkerLimit
<1>1. IsFiniteSet(Workers) /\ Cardinality(Workers) = WorkerLimit
  BY Constants, FS_Interval
<1>2. IsFiniteSet(S) /\ Cardinality(S) <= WorkerLimit
  BY <1>1, FS_Subset
<1> QED  BY <1>2, FS_CardinalityType, Constants

\* The scan of parseWorkerThread() finds a file whenever one is ready: every
\* ready slot is past the cursor and not stored, so the least of them is it.
LEMMA ReadyIsClaimable ==
  ASSUME TypeOK, SlotInv, available # 0
  PROVE  \E slot \in Slots : Claimable(slot)
<1>1. ready # {}
  BY FS_EmptySet DEF SlotInv
<1>2. ready \in SUBSET Nat
  BY Constants DEF TypeOK
<1>3. PICK slot \in ready : \A s \in ready : slot <= s
  BY <1>1, <1>2, LeastElementExists
<1>4. slot \in Slots /\ slot >= cursor /\ slot \notin stored
  BY DEF TypeOK, SlotInv
<1>5. \A s \in Slots : s >= cursor /\ s \notin stored /\ s \in ready => s >= slot
  BY <1>3, <1>4, Constants
<1> QED  BY <1>4, <1>5 DEF Claimable

\* The next worker to start has not been started.
LEMMA NextWorkerUnstarted ==
  ASSUME TypeOK, WorkersInv, availableWorkers > 0
  PROVE  NextWorker \in Workers /\ wpc[NextWorker] = "unstarted"
  BY Constants DEF TypeOK, WorkersInv, NextWorker

-----------------------------------------------------------------------------
\* The invariant holds when the constructor of InputFiles returns.
LEMMA InitIInv == Init => IInv
<1> SUFFICES ASSUME Init PROVE IInv
  OBVIOUS
<1>1. ready \subseteq Slots /\ available = Cardinality(ready)
  BY DEF Init
<1>2. fileMap \subseteq Slots /\ fileMap \cap ready = {}
  <2>1. cmd.fromFileList \subseteq Slots
    BY InputAssumption DEF Init
  <2> QED  BY <2>1 DEF Init, LastOfPath
<1>3. TypeOK
  BY <1>1, <1>2, FiniteSlots, Constants
     DEF Init, TypeOK, WorkerPCs, ListenerPCs, MainPCs, NoException, FifoError
<1>4. LockInv
  BY Constants DEF Init, LockInv, TypeOK
<1>5. WorkersInv
  <2>1. Idle = {}
    BY DEF Init, Idle
  <2> QED  BY <2>1, Constants, FS_EmptySet DEF Init, WorkersInv
<1>6. SlotInv
  BY <1>1, <1>2, Constants DEF Init, SlotInv, Busy
<1>7. MainInv
  BY Constants DEF Init, MainInv
<1>8. ExceptionInv
  BY Constants DEF Init, ExceptionInv
<1> QED  BY <1>3, <1>4, <1>5, <1>6, <1>7, <1>8 DEF IInv

-----------------------------------------------------------------------------
\* A thread that takes the lock for its first round keeps the invariant.
LEMMA WorkerStartStep ==
  ASSUME IInv, NEW w \in Workers, WorkerStart(w)
  PROVE  IInv'
<1>1. TypeOK'
  BY Constants DEF IInv, TypeOK, WorkerStart, WorkerPCs, ListenerPCs, MainPCs, parseVars, workerVars, mainVars, listenVars
<1>2. LockInv'
  BY Constants DEF IInv, LockInv, WorkerStart, TypeOK, parseVars, workerVars, mainVars, listenVars
<1>3. WorkersInv'
  BY Constants DEF IInv, WorkersInv, WorkerStart, TypeOK, Idle, parseVars, workerVars, mainVars, listenVars
<1>4. SlotInv'
  BY Constants DEF IInv, SlotInv, WorkerStart, TypeOK, Busy, parseVars, workerVars, mainVars, listenVars
<1>5. MainInv'
  BY Constants DEF IInv, MainInv, WorkerStart, TypeOK, parseVars, workerVars, mainVars, listenVars
<1>6. ExceptionInv'
  BY Constants DEF IInv, ExceptionInv, WorkerStart, TypeOK, LockInv, MainInv, parseVars, workerVars, mainVars, listenVars
<1> QED  BY <1>1, <1>2, <1>3, <1>4, <1>5, <1>6 DEF IInv

\* A worker that goes to sleep joins the idle ones and keeps the invariant.
LEMMA WorkerWaitStep ==
  ASSUME IInv, NEW w \in Workers, WorkerWait(w)
  PROVE  IInv'
<1>a. Idle \in SUBSET Workers /\ IsFiniteSet(Idle)
  BY FiniteWorkers DEF Idle
<1>b. Idle' = Idle \cup {w} /\ w \notin Idle
  BY DEF IInv, TypeOK, WorkerWait, Idle
<1>c. idleWorkers' = Cardinality(Idle')
  BY <1>a, <1>b, FS_AddElement, FiniteWorkers, Constants DEF IInv, WorkersInv, WorkerWait
<1>d. Idle' \in SUBSET Workers
  BY <1>a, <1>b
<1>e. idleWorkers' \in 0 .. WorkerLimit
  BY <1>c, <1>d, FiniteWorkers
<1>1. TypeOK'
  BY <1>e, Constants DEF IInv, TypeOK, WorkerWait, WorkerPCs, ListenerPCs, MainPCs, parseVars, workerVars, mainVars, listenVars
<1>2. LockInv'
  BY Constants DEF IInv, LockInv, WorkerWait, TypeOK, parseVars, workerVars, mainVars, listenVars
<1>3. WorkersInv'
  BY <1>c, Constants DEF IInv, WorkersInv, TypeOK, WorkerWait, parseVars, workerVars, mainVars, listenVars
<1>4. SlotInv'
  <2>1. /\ UNCHANGED <<available, ready, cursor, stored, fileMap, wslot>>
        /\ \A v \in Workers : Busy(v)' => Busy(v)
    BY Constants DEF IInv, WorkerWait, TypeOK, Busy, NextWorker, parseVars, listenVars
  <2>2. QED
    BY <2>1 DEF IInv, SlotInv
<1>5. MainInv'
  BY Constants DEF IInv, MainInv, WorkerWait, TypeOK, parseVars, workerVars, mainVars, listenVars
<1>6. ExceptionInv'
  BY Constants DEF IInv, ExceptionInv, WorkerWait, TypeOK, LockInv, MainInv, parseVars, workerVars, mainVars, listenVars
<1> QED  BY <1>1, <1>2, <1>3, <1>4, <1>5, <1>6 DEF IInv

\* A worker that wakes up leaves the idle ones and keeps the invariant.
LEMMA WorkerResumeStep ==
  ASSUME IInv, NEW w \in Workers, WorkerResume(w)
  PROVE  IInv'
<1>a. Idle \in SUBSET Workers /\ IsFiniteSet(Idle)
  BY FiniteWorkers DEF Idle
<1>b. Idle' = Idle \ {w} /\ w \in Idle
  BY DEF IInv, TypeOK, WorkerResume, Idle
<1>c. idleWorkers' = Cardinality(Idle')
  BY <1>a, <1>b, FS_RemoveElement, FiniteWorkers, Constants DEF IInv, WorkersInv, WorkerResume
<1>d. Idle' \in SUBSET Workers
  BY <1>a, <1>b
<1>e. idleWorkers' \in 0 .. WorkerLimit
  BY <1>c, <1>d, FiniteWorkers
<1>1. TypeOK'
  BY <1>e, Constants DEF IInv, TypeOK, WorkerResume, WorkerPCs, ListenerPCs, MainPCs, parseVars, workerVars, mainVars, listenVars
<1>2. LockInv'
  BY Constants DEF IInv, LockInv, WorkerResume, TypeOK, parseVars, workerVars, mainVars, listenVars
<1>3. WorkersInv'
  BY <1>c, Constants DEF IInv, WorkersInv, TypeOK, WorkerResume, parseVars, workerVars, mainVars, listenVars
<1>4. SlotInv'
  BY Constants DEF IInv, SlotInv, WorkerResume, TypeOK, Busy, parseVars, workerVars, mainVars, listenVars
<1>5. MainInv'
  BY Constants DEF IInv, MainInv, WorkerResume, TypeOK, parseVars, workerVars, mainVars, listenVars
<1>6. ExceptionInv'
  BY Constants DEF IInv, ExceptionInv, WorkerResume, TypeOK, LockInv, MainInv, parseVars, workerVars, mainVars, listenVars
<1> QED  BY <1>1, <1>2, <1>3, <1>4, <1>5, <1>6 DEF IInv

\* Claiming the least ready slot moves it from ready to in work and keeps the invariant.
LEMMA WorkerClaimStep ==
  ASSUME IInv, NEW w \in Workers, WorkerClaim(w)
  PROVE  IInv'
<1>a. PICK slot \in Slots :
        /\ Claimable(slot)
        /\ cursor' = slot + 1 /\ ready' = ready \ {slot}
        /\ wslot' = [wslot EXCEPT ![w] = slot]
  BY DEF WorkerClaim
<1>b. available' = Cardinality(ready')
  <2>1. ready \in SUBSET Slots /\ slot \in ready
    BY <1>a DEF IInv, TypeOK, Claimable
  <2> QED
    BY <2>1, <1>a, FiniteSlots, FS_RemoveElement DEF IInv, SlotInv, WorkerClaim
<1>c. \A s \in ready' : s >= cursor'
  BY <1>a, Constants DEF IInv, TypeOK, SlotInv, Claimable
<1>1. TypeOK'
  BY Constants DEF IInv, TypeOK, WorkerClaim, WorkerPCs, ListenerPCs, MainPCs, parseVars, workerVars, mainVars, listenVars
<1>2. LockInv'
  BY Constants DEF IInv, LockInv, WorkerClaim, TypeOK, parseVars, workerVars, mainVars, listenVars
<1>3. WorkersInv'
  BY Constants DEF IInv, WorkersInv, WorkerClaim, TypeOK, Idle, parseVars, workerVars, mainVars, listenVars
<1>4. SlotInv'
  <2>1. ready' \cap stored' = {} /\ fileMap' \cap (ready' \cup stored') = {}
    BY <1>a DEF IInv, SlotInv, WorkerClaim, listenVars
  <2>2. ASSUME NEW v \in Workers, Busy(v)'
        PROVE  /\ wslot'[v] \in Slots
               /\ wslot'[v] \notin ready' \cup stored' \cup fileMap'
               /\ v # w => Busy(v) /\ wslot'[v] = wslot[v] /\ wslot[v] # slot
    <3>1. CASE v = w
      BY <1>a, <3>1 DEF IInv, SlotInv, TypeOK, Claimable, WorkerClaim, listenVars
    <3>2. CASE v # w
      BY <1>a, <2>2, <3>2
         DEF IInv, SlotInv, TypeOK, Busy, Claimable, WorkerClaim, listenVars
    <3> QED  BY <3>1, <3>2
  <2>3. ASSUME NEW v \in Workers, NEW u \in Workers \ {v}, Busy(v)', Busy(u)'
        PROVE  wslot'[u] # wslot'[v]
    <3>1. wslot'[w] = slot
      BY <1>a DEF IInv, TypeOK
    <3> QED  BY <2>2, <2>3, <3>1 DEF IInv, SlotInv
  <2> QED  BY <1>b, <1>c, <2>1, <2>2, <2>3 DEF SlotInv
<1>5. MainInv'
  BY Constants DEF IInv, MainInv, WorkerClaim, TypeOK, parseVars, workerVars, mainVars, listenVars
<1>6. ExceptionInv'
  BY Constants DEF IInv, ExceptionInv, WorkerClaim, TypeOK, LockInv, MainInv, parseVars, workerVars, mainVars, listenVars
<1> QED  BY <1>1, <1>2, <1>3, <1>4, <1>5, <1>6 DEF IInv

\* makeFile() touches nothing shared and keeps the invariant.
LEMMA WorkerParseStep ==
  ASSUME IInv, NEW w \in Workers, WorkerParse(w)
  PROVE  IInv'
<1>1. TypeOK'
  BY Constants DEF IInv, TypeOK, WorkerParse, WorkerPCs, ListenerPCs, MainPCs, parseVars, workerVars, mainVars, listenVars
<1>2. LockInv'
  BY Constants DEF IInv, LockInv, WorkerParse, TypeOK, parseVars, workerVars, mainVars, listenVars
<1>3. WorkersInv'
  BY Constants DEF IInv, WorkersInv, WorkerParse, TypeOK, Idle, parseVars, workerVars, mainVars, listenVars
<1>4. SlotInv'
  BY Constants DEF IInv, SlotInv, WorkerParse, TypeOK, Busy, parseVars, workerVars, mainVars, listenVars
<1>5. MainInv'
  BY Constants DEF IInv, MainInv, WorkerParse, TypeOK, parseVars, workerVars, mainVars, listenVars
<1>6. ExceptionInv'
  BY Constants DEF IInv, ExceptionInv, WorkerParse, TypeOK, LockInv, MainInv, parseVars, workerVars, mainVars, listenVars
<1> QED  BY <1>1, <1>2, <1>3, <1>4, <1>5, <1>6 DEF IInv

\* Storing a file, or giving up on the link, keeps the invariant.
LEMMA WorkerStoreStep ==
  ASSUME IInv, NEW w \in Workers, WorkerStore(w)
  PROVE  IInv'
<1>a. wslot[w] \in Slots /\ wslot[w] \notin ready \cup stored \cup fileMap
  BY DEF IInv, SlotInv, Busy, WorkerStore
<1>b. mpc' \in {mpc, "woken"} /\ (mpc' # mpc => mpc = "waiting")
  BY DEF WorkerStore, SignalMain
<1>c. stored' \in {stored, stored \cup {wslot[w]}}
  BY DEF WorkerStore
<1>1. TypeOK'
  <2>1. stored' \subseteq Slots
    BY <1>a, <1>c DEF IInv, TypeOK
  <2>2. remaining' \in 0 .. NumFiles /\ exception' \in {NoException, FifoError} \cup Slots
    BY <1>a, Constants DEF IInv, TypeOK, WorkerStore, Decremented
  <2>3. mpc' \in MainPCs
    BY <1>b DEF IInv, TypeOK, MainPCs
  <2>4. wpc' \in [Workers -> WorkerPCs] /\ wslot' \in [Workers -> {-1} \cup Slots]
        /\ lock' \in {Free, Main} \cup Workers
    BY DEF IInv, TypeOK, WorkerStore, WorkerPCs
  <2> QED  BY <2>1, <2>2, <2>3, <2>4 DEF IInv, TypeOK, WorkerStore, listenVars
<1>2. LockInv'
  BY <1>b, Constants DEF IInv, LockInv, TypeOK, WorkerStore
<1>3. WorkersInv'
  BY Constants DEF IInv, WorkersInv, WorkerStore, TypeOK, Idle, parseVars, workerVars, mainVars, listenVars
<1>4. SlotInv'
  <2>1. available' = Cardinality(ready') /\ \A s \in ready' : s >= cursor'
    BY DEF IInv, SlotInv, WorkerStore
  <2>2. ready' \cap stored' = {} /\ fileMap' \cap (ready' \cup stored') = {}
    BY <1>a, <1>c DEF IInv, SlotInv, WorkerStore, listenVars
  <2>3. \A v \in Workers : Busy(v)' => v # w /\ Busy(v) /\ wslot'[v] = wslot[v]
    BY DEF IInv, TypeOK, Busy, WorkerStore
  <2>4. ready' = ready /\ fileMap' = fileMap
    BY DEF WorkerStore, listenVars
  <2> QED  BY <1>a, <1>c, <2>1, <2>2, <2>3, <2>4 DEF IInv, SlotInv, Busy, WorkerStore
<1>5. MainInv'
  <2>1. \A s \in stored' : cmd'.kind[s] # "badFile"
    BY DEF IInv, MainInv, WorkerStore
  <2>2. mpc' = "waiting" => neededSlot' = fileIndex' /\ fileIndex' \notin stored'
    BY DEF IInv, MainInv, WorkerStore, SignalMain
  <2> QED  BY <1>b, <1>c, <2>1, <2>2 DEF IInv, MainInv, WorkerStore
<1>6. ExceptionInv'
  <2>1. exception' # NoException => exception # NoException \/ remaining' = 0
    BY DEF WorkerStore
  <2>2. mpc' = "waiting" /\ exception' # NoException => remaining' = 0
    <3>1. mpc = "waiting" => exception = NoException
      BY Constants DEF IInv, ExceptionInv, TypeOK, WorkerStore
    <3> QED  BY <1>b, <2>1, <3>1
  <2>3. lock' = w /\ wpc'[w] = "check"
    BY DEF IInv, TypeOK, WorkerStore
  <2>4. exception' # exception => exception' \in Slots /\ cmd.kind[exception'] = "badFile"
    BY <1>a DEF WorkerStore
  <2> QED
    BY <1>b, <2>2, <2>3, <2>4, Constants
       DEF IInv, ExceptionInv, TypeOK, WorkerStore, listenVars
<1> QED  BY <1>1, <1>2, <1>3, <1>4, <1>5, <1>6 DEF IInv

\* Going for another round keeps the invariant.
LEMMA WorkerContinueStep ==
  ASSUME IInv, NEW w \in Workers, WorkerContinue(w)
  PROVE  IInv'
<1>1. TypeOK'
  BY Constants DEF IInv, TypeOK, WorkerContinue, WorkerPCs, ListenerPCs, MainPCs, parseVars, workerVars, mainVars, listenVars
<1>2. LockInv'
  BY Constants DEF IInv, LockInv, WorkerContinue, TypeOK, parseVars, workerVars, mainVars, listenVars
<1>3. WorkersInv'
  BY Constants DEF IInv, WorkersInv, WorkerContinue, TypeOK, Idle, parseVars, workerVars, mainVars, listenVars
<1>4. SlotInv'
  BY Constants DEF IInv, SlotInv, WorkerContinue, TypeOK, Busy, parseVars, workerVars, mainVars, listenVars
<1>5. MainInv'
  BY Constants DEF IInv, MainInv, WorkerContinue, TypeOK, parseVars, workerVars, mainVars, listenVars
<1>6. ExceptionInv'
  BY Constants DEF IInv, ExceptionInv, WorkerContinue, TypeOK, LockInv, MainInv, parseVars, workerVars, mainVars, listenVars
<1> QED  BY <1>1, <1>2, <1>3, <1>4, <1>5, <1>6 DEF IInv

\* The broadcast and the signal of a worker that ends tell the main thread of the exception and the step keeps the invariant.
LEMMA WorkerExitStep ==
  ASSUME IInv, NEW w \in Workers, WorkerExit(w)
  PROVE  IInv'
<1>a. mpc' \in {mpc, "woken"} /\ (mpc' # mpc => mpc = "waiting") /\ mpc' # "waiting"
  BY DEF WorkerExit, SignalMain
<1>b. \A v \in Workers :
        wpc'[v] = IF v = w THEN "exited" ELSE IF wpc[v] = "waiting" THEN "woken" ELSE wpc[v]
  BY DEF IInv, TypeOK, WorkerExit, WakeAll
<1>c. wpc' \in [Workers -> WorkerPCs]
  <2>1. wpc' = [v \in Workers |-> wpc'[v]]
    BY DEF WorkerExit, WakeAll
  <2>2. \A v \in Workers : wpc'[v] \in WorkerPCs
    BY <1>b DEF IInv, TypeOK, WorkerPCs
  <2> QED  BY <2>1, <2>2
<1>1. TypeOK'
  <2>1. mpc' \in MainPCs
    BY <1>a DEF IInv, TypeOK, MainPCs
  <2> QED  BY <1>c, <2>1 DEF IInv, TypeOK, WorkerExit, parseVars, listenVars
<1>2. LockInv'
  BY <1>a, <1>b, Constants DEF IInv, LockInv, TypeOK, WorkerExit
<1>3. WorkersInv'
  <2>1. Idle' = Idle
    BY <1>b DEF Idle, WorkerExit
  <2>2. \A v \in Workers : wpc'[v] = "unstarted" <=> wpc[v] = "unstarted"
    BY <1>b DEF WorkerExit
  <2> QED  BY <2>1, <2>2 DEF IInv, WorkersInv, WorkerExit
<1>4. SlotInv'
  <2>1. \A v \in Workers : Busy(v)' <=> Busy(v)
    BY <1>b DEF Busy, WorkerExit
  <2> QED  BY <2>1 DEF IInv, SlotInv, WorkerExit, parseVars, listenVars
<1>5. MainInv'
  BY <1>a DEF IInv, MainInv, WorkerExit, parseVars
<1>6. ExceptionInv'
  BY <1>a DEF IInv, ExceptionInv, WorkerExit, listenVars
<1> QED  BY <1>1, <1>2, <1>3, <1>4, <1>5, <1>6 DEF IInv

\* A spurious wake-up of a worker keeps the invariant.
LEMMA WorkerSpuriousStep ==
  ASSUME IInv, NEW w \in Workers, WorkerSpurious(w)
  PROVE  IInv'
<1>1. TypeOK'
  BY Constants DEF IInv, TypeOK, WorkerSpurious, WorkerPCs, ListenerPCs, MainPCs, parseVars, workerVars, mainVars, listenVars
<1>2. LockInv'
  BY Constants DEF IInv, LockInv, WorkerSpurious, TypeOK, parseVars, workerVars, mainVars, listenVars
<1>3. WorkersInv'
  BY Constants DEF IInv, WorkersInv, WorkerSpurious, TypeOK, Idle, parseVars, workerVars, mainVars, listenVars
<1>4. SlotInv'
  BY Constants DEF IInv, SlotInv, WorkerSpurious, TypeOK, Busy, parseVars, workerVars, mainVars, listenVars
<1>5. MainInv'
  BY Constants DEF IInv, MainInv, WorkerSpurious, TypeOK, parseVars, workerVars, mainVars, listenVars
<1>6. ExceptionInv'
  BY Constants DEF IInv, ExceptionInv, WorkerSpurious, TypeOK, LockInv, MainInv, parseVars, workerVars, mainVars, listenVars
<1> QED  BY <1>1, <1>2, <1>3, <1>4, <1>5, <1>6 DEF IInv

\* Reading a name keeps the invariant.
LEMMA ListenerReadStep ==
  ASSUME IInv, ListenerRead
  PROVE  IInv'
<1>1. TypeOK'
  BY Constants DEF IInv, TypeOK, ListenerRead, WorkerPCs, ListenerPCs, MainPCs, parseVars, workerVars, mainVars, listenVars
<1>2. LockInv'
  BY Constants DEF IInv, LockInv, ListenerRead, TypeOK, parseVars, workerVars, mainVars, listenVars
<1>3. WorkersInv'
  BY Constants DEF IInv, WorkersInv, ListenerRead, TypeOK, Idle, parseVars, workerVars, mainVars, listenVars
<1>4. SlotInv'
  BY Constants DEF IInv, SlotInv, ListenerRead, TypeOK, Busy, parseVars, workerVars, mainVars, listenVars
<1>5. MainInv'
  BY Constants DEF IInv, MainInv, ListenerRead, TypeOK, parseVars, workerVars, mainVars, listenVars
<1>6. ExceptionInv'
  BY Constants DEF IInv, ExceptionInv, ListenerRead, TypeOK, LockInv, MainInv, parseVars, workerVars, mainVars, listenVars
<1> QED  BY <1>1, <1>2, <1>3, <1>4, <1>5, <1>6 DEF IInv

\* Announcing a file moves the cursor back to it if need be and keeps the invariant.
LEMMA ListenerPublishStep ==
  ASSUME IInv, ListenerPublish
  PROVE  IInv'
<1>a. PICK slot \in fileMap :
        /\ wpc' \in IF idleWorkers # 0 THEN SignalWorker(wpc) ELSE {wpc}
        /\ ready' = ready \cup {slot}
        /\ cursor' = IF cursor > slot THEN slot ELSE cursor
        /\ fileMap' = fileMap \ {slot}
  BY DEF ListenerPublish, CursorFor
<1>b. slot \in Slots /\ slot \notin ready \cup stored
  BY DEF IInv, TypeOK, SlotInv
<1>c. \A v \in Workers :
        /\ wpc'[v] # wpc[v] => wpc[v] = "waiting" /\ wpc'[v] = "woken"
        /\ wpc' \in [Workers -> WorkerPCs]
  <2>1. CASE wpc' = wpc
    BY <2>1 DEF IInv, TypeOK
  <2>2. CASE \E u \in Workers : wpc[u] = "waiting" /\ wpc' = [wpc EXCEPT ![u] = "woken"]
    BY <2>2 DEF IInv, TypeOK, WorkerPCs
  <2> QED  BY <1>a, <2>1, <2>2 DEF SignalWorker
<1>d. available' = Cardinality(ready') /\ available' \in 0 .. NumFiles
  <2>1. ready \in SUBSET Slots /\ ready' \in SUBSET Slots
    BY <1>a, <1>b DEF IInv, TypeOK
  <2>2. available' = Cardinality(ready')
    BY <2>1, <1>a, <1>b, FiniteSlots, FS_AddElement DEF IInv, SlotInv, ListenerPublish
  <2> QED  BY <2>1, <2>2, FiniteSlots
<1>e. \A v \in Workers : Busy(v)' <=> Busy(v)
  BY <1>c DEF Busy
<1>1. TypeOK'
  <2>1. wpc' \in [Workers -> WorkerPCs]
    BY <1>c, Constants
  <2>2. cursor' \in 0 .. NumFiles
    BY <1>a, <1>b, Constants DEF IInv, TypeOK
  <2> QED
    BY <1>a, <1>b, <1>d, <2>1, <2>2
       DEF IInv, TypeOK, ListenerPublish, ListenerPCs, mainVars
<1>2. LockInv'
  BY <1>c DEF IInv, LockInv, ListenerPublish, mainVars
<1>3. WorkersInv'
  <2>1. Idle' = Idle
    BY <1>c DEF Idle
  <2>2. \A v \in Workers : wpc'[v] = "unstarted" <=> wpc[v] = "unstarted"
    BY <1>c
  <2> QED  BY <2>1, <2>2 DEF IInv, WorkersInv, ListenerPublish, mainVars
<1>4. SlotInv'
  <2>1. \A s \in ready' : s >= cursor'
    BY <1>a, <1>b, Constants DEF IInv, TypeOK, SlotInv
  <2>2. ready' \cap stored' = {} /\ fileMap' \cap (ready' \cup stored') = {}
    BY <1>a, <1>b DEF IInv, SlotInv, ListenerPublish
  <2>3. \A v \in Workers : Busy(v) => wslot[v] \notin ready' \cup stored' \cup fileMap'
    BY <1>a DEF IInv, SlotInv, ListenerPublish
  <2> QED  BY <1>d, <1>e, <2>1, <2>2, <2>3 DEF IInv, SlotInv, ListenerPublish
<1>5. MainInv'
  BY Constants DEF IInv, MainInv, ListenerPublish, TypeOK, parseVars, workerVars, mainVars, listenVars
<1>6. ExceptionInv'
  BY Constants DEF IInv, ExceptionInv, ListenerPublish, TypeOK, LockInv, MainInv, parseVars, workerVars, mainVars, listenVars
<1> QED  BY <1>1, <1>2, <1>3, <1>4, <1>5, <1>6 DEF IInv

\* An error of the fifo keeps the invariant.
LEMMA ListenerFailStep ==
  ASSUME IInv, ListenerFail
  PROVE  IInv'
<1>1. TypeOK'
  BY Constants DEF IInv, TypeOK, ListenerFail, WorkerPCs, ListenerPCs, MainPCs, parseVars, workerVars, mainVars, listenVars
<1>2. LockInv'
  BY Constants DEF IInv, LockInv, ListenerFail, TypeOK, parseVars, workerVars, mainVars, listenVars
<1>3. WorkersInv'
  BY Constants DEF IInv, WorkersInv, ListenerFail, TypeOK, Idle, parseVars, workerVars, mainVars, listenVars
<1>4. SlotInv'
  BY Constants DEF IInv, SlotInv, ListenerFail, TypeOK, Busy, parseVars, workerVars, mainVars, listenVars
<1>5. MainInv'
  BY Constants DEF IInv, MainInv, ListenerFail, TypeOK, parseVars, workerVars, mainVars, listenVars
<1>6. ExceptionInv'
  BY Constants DEF IInv, ExceptionInv, ListenerFail, TypeOK, LockInv, MainInv, parseVars, workerVars, mainVars, listenVars
<1> QED  BY <1>1, <1>2, <1>3, <1>4, <1>5, <1>6 DEF IInv

\* The exception of the listener wakes the main thread and the step keeps the invariant.
LEMMA ListenerThrowStep ==
  ASSUME IInv, ListenerThrow
  PROVE  IInv'
<1>a. mpc' \in {mpc, "woken"} /\ (mpc' # mpc => mpc = "waiting") /\ mpc' # "waiting"
  BY DEF ListenerThrow, SignalMain
<1>1. TypeOK'
  BY <1>a DEF IInv, TypeOK, ListenerThrow, MainPCs, ListenerPCs, parseVars, workerVars
<1>2. LockInv'
  BY <1>a DEF IInv, LockInv, ListenerThrow, workerVars
<1>3. WorkersInv'
  BY Constants DEF IInv, WorkersInv, ListenerThrow, TypeOK, Idle, parseVars, workerVars, mainVars, listenVars
<1>4. SlotInv'
  BY Constants DEF IInv, SlotInv, ListenerThrow, TypeOK, Busy, parseVars, workerVars, mainVars, listenVars
<1>5. MainInv'
  BY <1>a DEF IInv, MainInv, ListenerThrow, parseVars
<1>6. ExceptionInv'
  BY <1>a, Constants DEF IInv, ExceptionInv, ListenerThrow, workerVars, parseVars
<1> QED  BY <1>1, <1>2, <1>3, <1>4, <1>5, <1>6 DEF IInv

\* The end of the listener keeps the invariant.
LEMMA ListenerEndStep ==
  ASSUME IInv, ListenerEnd
  PROVE  IInv'
<1>1. TypeOK'
  BY Constants DEF IInv, TypeOK, ListenerEnd, WorkerPCs, ListenerPCs, MainPCs, parseVars, workerVars, mainVars, listenVars
<1>2. LockInv'
  BY Constants DEF IInv, LockInv, ListenerEnd, TypeOK, parseVars, workerVars, mainVars, listenVars
<1>3. WorkersInv'
  BY Constants DEF IInv, WorkersInv, ListenerEnd, TypeOK, Idle, parseVars, workerVars, mainVars, listenVars
<1>4. SlotInv'
  BY Constants DEF IInv, SlotInv, ListenerEnd, TypeOK, Busy, parseVars, workerVars, mainVars, listenVars
<1>5. MainInv'
  BY Constants DEF IInv, MainInv, ListenerEnd, TypeOK, parseVars, workerVars, mainVars, listenVars
<1>6. ExceptionInv'
  BY Constants DEF IInv, ExceptionInv, ListenerEnd, TypeOK, LockInv, MainInv, parseVars, workerVars, mainVars, listenVars
<1> QED  BY <1>1, <1>2, <1>3, <1>4, <1>5, <1>6 DEF IInv

\* The main thread taking the lock keeps the invariant.
LEMMA MainLockStep ==
  ASSUME IInv, MainLock
  PROVE  IInv'
<1>1. TypeOK'
  BY Constants DEF IInv, TypeOK, MainLock, WorkerPCs, ListenerPCs, MainPCs, parseVars, workerVars, mainVars, listenVars
<1>2. LockInv'
  BY Constants DEF IInv, LockInv, MainLock, TypeOK, parseVars, workerVars, mainVars, listenVars
<1>3. WorkersInv'
  BY Constants DEF IInv, WorkersInv, MainLock, TypeOK, Idle, parseVars, workerVars, mainVars, listenVars
<1>4. SlotInv'
  BY Constants DEF IInv, SlotInv, MainLock, TypeOK, Busy, parseVars, workerVars, mainVars, listenVars
<1>5. MainInv'
  BY Constants DEF IInv, MainInv, MainLock, TypeOK, parseVars, workerVars, mainVars, listenVars
<1>6. ExceptionInv'
  BY Constants DEF IInv, ExceptionInv, MainLock, TypeOK, LockInv, MainInv, parseVars, workerVars, mainVars, listenVars
<1> QED  BY <1>1, <1>2, <1>3, <1>4, <1>5, <1>6 DEF IInv

\* Going to sleep for a file, perhaps after starting a worker, keeps the invariant.
LEMMA MainWaitStep ==
  ASSUME IInv, MainWait
  PROVE  IInv'
<1>a. fileIndex \in Slots
  BY Constants DEF IInv, TypeOK, MainInv, MainWait
<1>b. /\ wpc' \in [Workers -> WorkerPCs]
      /\ availableWorkers' \in 0 .. WorkerLimit
      /\ Idle' = Idle
      /\ \A v \in Workers : wpc'[v] = "unstarted" <=> v > WorkerLimit - availableWorkers'
  <2>1. CASE available > 0 /\ availableWorkers > 0
    <3>1. NextWorker \in Workers /\ wpc[NextWorker] = "unstarted"
      BY <2>1, NextWorkerUnstarted DEF IInv
    <3>2. wpc' = [wpc EXCEPT ![NextWorker] = "starting"]
          /\ availableWorkers' = availableWorkers - 1
      BY <2>1 DEF MainWait
    <3> QED
      BY <2>1, <3>1, <3>2, Constants
         DEF IInv, TypeOK, WorkersInv, WorkerPCs, Idle, NextWorker
  <2>2. CASE ~(available > 0 /\ availableWorkers > 0)
    BY <2>2 DEF MainWait, IInv, TypeOK, WorkersInv, Idle
  <2> QED  BY <2>1, <2>2
<1>1. TypeOK'
  BY <1>a, <1>b DEF IInv, TypeOK, MainWait, MainPCs, parseVars, listenVars
<1>2. LockInv'
  BY Constants DEF IInv, LockInv, MainWait, TypeOK, parseVars, workerVars, mainVars, listenVars
<1>3. WorkersInv'
  BY <1>b DEF IInv, WorkersInv, MainWait
<1>4. SlotInv'
  <2>1. /\ UNCHANGED <<available, ready, cursor, stored, fileMap, wslot>>
        /\ \A v \in Workers : Busy(v)' => Busy(v)
    BY Constants DEF IInv, MainWait, TypeOK, Busy, NextWorker, parseVars, listenVars
  <2>2. QED
    BY <2>1 DEF IInv, SlotInv
<1>5. MainInv'
  BY Constants DEF IInv, MainInv, MainWait, TypeOK, parseVars, workerVars, mainVars, listenVars
<1>6. ExceptionInv'
  BY Constants DEF IInv, ExceptionInv, MainWait, TypeOK, LockInv, MainInv, parseVars, workerVars, mainVars, listenVars
<1> QED  BY <1>1, <1>2, <1>3, <1>4, <1>5, <1>6 DEF IInv

\* Leaving the loop with the lock held keeps the invariant.
LEMMA MainThrowStep ==
  ASSUME IInv, MainThrow
  PROVE  IInv'
<1>1. TypeOK'
  BY Constants DEF IInv, TypeOK, MainThrow, WorkerPCs, ListenerPCs, MainPCs, parseVars, workerVars, mainVars, listenVars
<1>2. LockInv'
  BY Constants DEF IInv, LockInv, MainThrow, TypeOK, parseVars, workerVars, mainVars, listenVars
<1>3. WorkersInv'
  BY Constants DEF IInv, WorkersInv, MainThrow, TypeOK, Idle, parseVars, workerVars, mainVars, listenVars
<1>4. SlotInv'
  BY Constants DEF IInv, SlotInv, MainThrow, TypeOK, Busy, parseVars, workerVars, mainVars, listenVars
<1>5. MainInv'
  BY Constants DEF IInv, MainInv, MainThrow, TypeOK, parseVars, workerVars, mainVars, listenVars
<1>6. ExceptionInv'
  BY Constants DEF IInv, ExceptionInv, MainThrow, TypeOK, LockInv, MainInv, parseVars, workerVars, mainVars, listenVars
<1> QED  BY <1>1, <1>2, <1>3, <1>4, <1>5, <1>6 DEF IInv

\* Taking the next file keeps the invariant.
LEMMA MainTakeStep ==
  ASSUME IInv, MainTake
  PROVE  IInv'
<1>1. TypeOK'
  BY Constants DEF IInv, TypeOK, MainTake, WorkerPCs, ListenerPCs, MainPCs, parseVars, workerVars, mainVars, listenVars
<1>2. LockInv'
  BY Constants DEF IInv, LockInv, MainTake, TypeOK, parseVars, workerVars, mainVars, listenVars
<1>3. WorkersInv'
  BY Constants DEF IInv, WorkersInv, MainTake, TypeOK, Idle, parseVars, workerVars, mainVars, listenVars
<1>4. SlotInv'
  BY Constants DEF IInv, SlotInv, MainTake, TypeOK, Busy, parseVars, workerVars, mainVars, listenVars
<1>5. MainInv'
  BY Constants DEF IInv, MainInv, MainTake, TypeOK, parseVars, workerVars, mainVars, listenVars
<1>6. ExceptionInv'
  BY Constants DEF IInv, ExceptionInv, MainTake, TypeOK, LockInv, MainInv, parseVars, workerVars, mainVars, listenVars
<1> QED  BY <1>1, <1>2, <1>3, <1>4, <1>5, <1>6 DEF IInv

\* Handing a file to the resolver, which may set the exception, keeps the invariant.
LEMMA MainConsumeStep ==
  ASSUME IInv, MainConsume
  PROVE  IInv'
<1>a. fileIndex \in Slots
  BY Constants DEF IInv, TypeOK, MainInv, MainConsume
<1>b. exception' \in {NoException, FifoError} \cup Slots
  BY <1>a DEF IInv, TypeOK, MainConsume
<1>1. TypeOK'
  BY <1>a, <1>b, Constants
     DEF IInv, TypeOK, MainConsume, MainPCs, parseVars, workerVars, listenVars
<1>2. LockInv'
  BY Constants DEF IInv, LockInv, MainConsume, TypeOK, parseVars, workerVars, mainVars, listenVars
<1>3. WorkersInv'
  BY Constants DEF IInv, WorkersInv, MainConsume, TypeOK, Idle, parseVars, workerVars, mainVars, listenVars
<1>4. SlotInv'
  BY Constants DEF IInv, SlotInv, MainConsume, TypeOK, Busy, parseVars, workerVars, mainVars, listenVars
<1>5. MainInv'
  BY Constants DEF IInv, MainInv, MainConsume, TypeOK, parseVars, workerVars, mainVars, listenVars
<1>6. ExceptionInv'
  <2>1. cmd'.kind = cmd.kind /\ fileIndex' = fileIndex + 1
    BY DEF MainConsume
  <2>2. ASSUME NEW s \in Slots, s < fileIndex', cmd.kind[s] = "badAtoms"
        PROVE  exception' # NoException
    <3>1. CASE s = fileIndex
      BY <1>a, <2>2, <3>1, Constants DEF MainConsume
    <3>2. CASE s < fileIndex
      BY <2>2, <3>2 DEF IInv, ExceptionInv, MainConsume
    <3> QED  BY <1>a, <2>1, <2>2, <3>1, <3>2, Constants
  <2>3. mpc' \in {"lock", "finish"}
    BY DEF MainConsume
  <2>4. exception' # exception => exception' \in Slots /\ cmd.kind[exception'] = "badAtoms"
    BY <1>a DEF MainConsume
  <2>5. exception' = FifoError \/ lpc' = "failing" => FifoMayFail
    BY <1>a, <2>4, Constants DEF IInv, ExceptionInv, MainConsume, listenVars
  <2>6. exception' \in Slots => cmd'.kind[exception'] \in {"badFile", "badAtoms"}
    BY <2>1, <2>4 DEF IInv, ExceptionInv, MainConsume
  <2> QED  BY <2>1, <2>2, <2>3, <2>5, <2>6 DEF ExceptionInv
<1> QED  BY <1>1, <1>2, <1>3, <1>4, <1>5, <1>6 DEF IInv

\* The test after the loop keeps the invariant.
LEMMA MainFinishStep ==
  ASSUME IInv, MainFinish
  PROVE  IInv'
<1>1. TypeOK'
  BY Constants DEF IInv, TypeOK, MainFinish, AfterLoop, WorkerPCs, ListenerPCs, MainPCs, parseVars, workerVars, mainVars, listenVars
<1>2. LockInv'
  BY Constants DEF IInv, LockInv, MainFinish, AfterLoop, TypeOK, parseVars, workerVars, mainVars, listenVars
<1>3. WorkersInv'
  BY Constants DEF IInv, WorkersInv, MainFinish, AfterLoop, TypeOK, Idle, parseVars, workerVars, mainVars, listenVars
<1>4. SlotInv'
  BY Constants DEF IInv, SlotInv, MainFinish, AfterLoop, TypeOK, Busy, parseVars, workerVars, mainVars, listenVars
<1>5. MainInv'
  BY Constants DEF IInv, MainInv, MainFinish, AfterLoop, TypeOK, parseVars, workerVars, mainVars, listenVars
<1>6. ExceptionInv'
  BY Constants DEF IInv, ExceptionInv, MainFinish, AfterLoop, TypeOK, LockInv, MainInv, parseVars, workerVars, mainVars, listenVars
<1> QED  BY <1>1, <1>2, <1>3, <1>4, <1>5, <1>6 DEF IInv

\* The exit keeps the invariant.
LEMMA MainDieStep ==
  ASSUME IInv, MainDie
  PROVE  IInv'
<1>1. TypeOK'
  BY Constants DEF IInv, TypeOK, MainDie, WorkerPCs, ListenerPCs, MainPCs, parseVars, workerVars, mainVars, listenVars
<1>2. LockInv'
  BY Constants DEF IInv, LockInv, MainDie, TypeOK, parseVars, workerVars, mainVars, listenVars
<1>3. WorkersInv'
  BY Constants DEF IInv, WorkersInv, MainDie, TypeOK, Idle, parseVars, workerVars, mainVars, listenVars
<1>4. SlotInv'
  BY Constants DEF IInv, SlotInv, MainDie, TypeOK, Busy, parseVars, workerVars, mainVars, listenVars
<1>5. MainInv'
  BY Constants DEF IInv, MainInv, MainDie, TypeOK, parseVars, workerVars, mainVars, listenVars
<1>6. ExceptionInv'
  BY Constants DEF IInv, ExceptionInv, MainDie, TypeOK, LockInv, MainInv, parseVars, workerVars, mainVars, listenVars
<1> QED  BY <1>1, <1>2, <1>3, <1>4, <1>5, <1>6 DEF IInv

\* A spurious wake-up of the main thread keeps the invariant.
LEMMA MainSpuriousStep ==
  ASSUME IInv, MainSpurious
  PROVE  IInv'
<1>1. TypeOK'
  BY Constants DEF IInv, TypeOK, MainSpurious, WorkerPCs, ListenerPCs, MainPCs, parseVars, workerVars, mainVars, listenVars
<1>2. LockInv'
  BY Constants DEF IInv, LockInv, MainSpurious, TypeOK, parseVars, workerVars, mainVars, listenVars
<1>3. WorkersInv'
  BY Constants DEF IInv, WorkersInv, MainSpurious, TypeOK, Idle, parseVars, workerVars, mainVars, listenVars
<1>4. SlotInv'
  BY Constants DEF IInv, SlotInv, MainSpurious, TypeOK, Busy, parseVars, workerVars, mainVars, listenVars
<1>5. MainInv'
  BY Constants DEF IInv, MainInv, MainSpurious, TypeOK, parseVars, workerVars, mainVars, listenVars
<1>6. ExceptionInv'
  BY Constants DEF IInv, ExceptionInv, MainSpurious, TypeOK, LockInv, MainInv, parseVars, workerVars, mainVars, listenVars
<1> QED  BY <1>1, <1>2, <1>3, <1>4, <1>5, <1>6 DEF IInv

-----------------------------------------------------------------------------
\* Every step of every thread keeps the invariant.
LEMMA NextIInv == IInv /\ [Next]_vars => IInv'
<1> SUFFICES ASSUME IInv, [Next]_vars PROVE IInv'
  OBVIOUS
<1>1. ASSUME NEW w \in Workers, WorkerStep(w)  PROVE IInv'
  BY <1>1, WorkerStartStep, WorkerWaitStep, WorkerResumeStep, WorkerClaimStep,
     WorkerParseStep, WorkerStoreStep, WorkerContinueStep, WorkerExitStep DEF WorkerStep
<1>2. ASSUME NEW w \in Workers, WorkerSpurious(w)  PROVE IInv'
  BY <1>2, WorkerSpuriousStep
<1>3. CASE ListenerStep \/ ListenerFail
  BY <1>3, ListenerReadStep, ListenerPublishStep, ListenerThrowStep, ListenerEndStep,
     ListenerFailStep DEF ListenerStep
<1>4. CASE MainStep \/ MainSpurious
  BY <1>4, MainLockStep, MainWaitStep, MainThrowStep, MainTakeStep, MainConsumeStep,
     MainFinishStep, MainDieStep, MainSpuriousStep DEF MainStep
<1>5. CASE UNCHANGED vars
  BY <1>5 DEF vars, IInv, TypeOK, LockInv, WorkersInv, SlotInv, MainInv, ExceptionInv,
              Idle, Busy
<1> QED  BY <1>1, <1>2, <1>3, <1>4, <1>5 DEF Next, Terminated

\* So it holds at all times.
LEMMA Invariance == Spec => []IInv
  BY InitIInv, NextIInv, PTL DEF Spec

\* The fields of InputFiles keep their types: no counter leaves its range, and
\* no slot number its vector.
THEOREM TypeCorrect == Spec => []TypeOK
<1>1. IInv => TypeOK
  BY DEF IInv
<1> QED  BY <1>1, Invariance, PTL

\* The assert in the scan of parseWorkerThread() never fails.
THEOREM AssertHolds == Spec => []ScanFinds
<1>1. IInv => ScanFinds
  BY ReadyIsClaimable DEF IInv, ScanFinds
<1> QED  BY <1>1, Invariance, PTL

\* No file is parsed twice.
THEOREM NothingParsedTwice == Spec => []ParsedOnce
<1>1. IInv => ParsedOnce
  BY DEF IInv, SlotInv, Busy, ParsedOnce
<1> QED  BY <1>1, Invariance, PTL

\* The main thread misses no signal: it sleeps only as long as there is nothing
\* for it to see.
THEOREM NoLostWakeup == Spec => []MainSleepsForCause
<1>1. IInv => MainSleepsForCause
  BY Constants DEF IInv, MainInv, ExceptionInv, MainSleepsForCause
<1> QED  BY <1>1, Invariance, PTL

\* A link with a file that cannot be read never ends well.
THEOREM NoErrorLost == Spec => []ErrorNotLost
<1>1. IInv => ErrorNotLost
  <2> SUFFICES ASSUME IInv, mpc = "done", NEW s \in Slots
               PROVE  cmd.kind[s] \in {"object", "ignored"}
    BY DEF ErrorNotLost
  <2>1. cmd.kind[s] \in Kinds
    BY InputAssumption DEF IInv, TypeOK
  <2>2. s < fileIndex
    BY Constants DEF IInv, MainInv
  <2>3. cmd.kind[s] # "badFile" /\ cmd.kind[s] # "badAtoms"
    BY <2>2 DEF IInv, MainInv, ExceptionInv
  <2> QED  BY <2>1, <2>3 DEF Kinds
<1> QED  BY <1>1, Invariance, PTL

-----------------------------------------------------------------------------
\* Workers end only when nothing remains, and the first one was started by the
\* constructor: with files to parse somebody is there to parse them.
AwakeInv ==
    /\ availableWorkers < WorkerLimit
    /\ \A w \in Workers : wpc[w] = "exited" => remaining = 0
    /\ WorkNotStranded

Awake(pcs) == \E w \in Workers : pcs[w] \notin {"unstarted", "waiting", "exited"}

\* It holds at the start: the first worker has been started.
LEMMA InitAwake == Init => AwakeInv
<1> SUFFICES ASSUME Init PROVE AwakeInv
  OBVIOUS
<1>1. 1 \in Workers /\ wpc[1] = "starting"
  BY Constants DEF Init
<1>2. WorkNotStranded
  BY <1>1 DEF WorkNotStranded
<1> QED  BY <1>1, <1>2, Constants DEF Init, AwakeInv

\* No step of a worker strands the work: it sleeps only with nothing available,
\* and ends only with nothing remaining.
LEMMA WorkerAwake ==
  ASSUME IInv, AwakeInv, NEW w \in Workers, WorkerStep(w) \/ WorkerSpurious(w)
  PROVE  AwakeInv'
<1>1. CASE WorkerStart(w) \/ WorkerParse(w) \/ WorkerContinue(w) \/ WorkerSpurious(w)
  BY <1>1 DEF IInv, TypeOK, AwakeInv, WorkNotStranded, WorkerStart, WorkerParse,
              WorkerContinue, WorkerSpurious, parseVars, mainVars
<1>2. CASE WorkerWait(w)
  BY <1>2, Constants DEF IInv, TypeOK, AwakeInv, WorkNotStranded, WorkerWait, parseVars, mainVars
<1>3. CASE WorkerResume(w) \/ WorkerClaim(w)
  BY <1>3 DEF IInv, TypeOK, AwakeInv, WorkNotStranded, WorkerResume, WorkerClaim,
              parseVars, mainVars
<1>4. CASE WorkerStore(w)
  <2>1. remaining = 0 => remaining' = 0
    BY <1>4 DEF WorkerStore, Decremented
  <2> QED
    BY <1>4, <2>1 DEF IInv, TypeOK, AwakeInv, WorkNotStranded, WorkerStore
<1>5. CASE WorkerExit(w)
  BY <1>5 DEF IInv, TypeOK, AwakeInv, WorkNotStranded, WorkerExit, WakeAll, parseVars
<1> QED  BY <1>1, <1>2, <1>3, <1>4, <1>5 DEF WorkerStep

\* When a file becomes available one idle worker is woken; if nobody is idle the
\* first worker is at work.
LEMMA PublishAwake ==
  ASSUME IInv, AwakeInv, ListenerPublish
  PROVE  AwakeInv'
<1>1. /\ wpc' \in IF idleWorkers # 0 THEN SignalWorker(wpc) ELSE {wpc}
      /\ remaining' = remaining /\ availableWorkers' = availableWorkers
  BY DEF ListenerPublish, mainVars
<1>2. \A w \in Workers : wpc'[w] = "exited" => wpc[w] = "exited"
  BY <1>1 DEF IInv, TypeOK, SignalWorker
<1>3. ASSUME remaining > 0  PROVE Awake(wpc')
  <2>1. CASE idleWorkers = 0
    <3>1. Idle \in SUBSET Workers
      BY DEF Idle
    <3>2. Idle = {}
      BY <2>1, <3>1, FiniteWorkers, FS_EmptySet DEF IInv, WorkersInv
    <3>3. 1 \in Workers /\ wpc[1] \notin {"unstarted", "exited"}
      BY <1>3, Constants DEF IInv, TypeOK, WorkersInv, AwakeInv
    <3> QED  BY <1>1, <2>1, <3>2, <3>3 DEF Idle, Awake
  <2>2. CASE idleWorkers # 0
    <3>1. Idle # {}
      BY <2>2, FS_EmptySet DEF IInv, WorkersInv
    <3>2. CASE {w \in Workers : wpc[w] = "waiting"} = {}
      <4>1. wpc' = wpc
        BY <1>1, <2>2, <3>2 DEF SignalWorker
      <4> QED  BY <3>1, <3>2, <4>1 DEF Idle, Awake
    <3>3. CASE {w \in Workers : wpc[w] = "waiting"} # {}
      <4>1. \E w \in Workers : wpc' = [wpc EXCEPT ![w] = "woken"]
        BY <1>1, <2>2, <3>3 DEF SignalWorker
      <4> QED  BY <4>1 DEF IInv, TypeOK, Awake
    <3> QED  BY <3>2, <3>3
  <2> QED  BY <2>1, <2>2
<1> QED  BY <1>1, <1>2, <1>3 DEF AwakeInv, WorkNotStranded, Awake

\* The other steps start workers but put none to sleep.
LEMMA NextAwake == IInv /\ AwakeInv /\ [Next]_vars => AwakeInv'
<1> SUFFICES ASSUME IInv, AwakeInv, [Next]_vars PROVE AwakeInv'
  OBVIOUS
<1>1. CASE ListenerRead \/ ListenerThrow \/ ListenerEnd \/ ListenerFail
  BY <1>1 DEF AwakeInv, WorkNotStranded, ListenerRead, ListenerThrow, ListenerEnd,
              ListenerFail, parseVars, workerVars, mainVars
<1>2. CASE MainWait
  <2>1. CASE available > 0 /\ availableWorkers > 0
    <3>1. NextWorker \in Workers /\ wpc[NextWorker] = "unstarted"
      BY <2>1, NextWorkerUnstarted DEF IInv
    <3>2. wpc' = [wpc EXCEPT ![NextWorker] = "starting"]
          /\ availableWorkers' = availableWorkers - 1 /\ remaining' = remaining
      BY <1>2, <2>1 DEF MainWait, parseVars
    <3> QED  BY <3>1, <3>2, Constants DEF IInv, TypeOK, AwakeInv, WorkNotStranded
  <2>2. CASE ~(available > 0 /\ availableWorkers > 0)
    BY <1>2, <2>2 DEF MainWait, AwakeInv, WorkNotStranded, parseVars
  <2> QED  BY <2>1, <2>2
<1>3. CASE MainLock \/ MainThrow \/ MainTake \/ MainConsume \/ MainFinish \/ MainDie
           \/ MainSpurious
  BY <1>3 DEF AwakeInv, WorkNotStranded, MainLock, MainThrow, MainTake, MainConsume,
              MainFinish, MainDie, MainSpurious, parseVars, workerVars
<1>4. CASE UNCHANGED vars
  BY <1>4 DEF vars, AwakeInv, WorkNotStranded
<1> QED
  BY <1>1, <1>2, <1>3, <1>4, WorkerAwake, PublishAwake
     DEF Next, ListenerStep, MainStep, Terminated

\* No wake-up of a worker is lost: while files wait to be parsed and the link
\* goes on, some worker is awake or about to be.
THEOREM NoWorkStranded == Spec => []WorkNotStranded
<1>1. AwakeInv => WorkNotStranded
  BY DEF AwakeInv
<1> QED  BY <1>1, InitAwake, NextAwake, Invariance, PTL DEF Spec

-----------------------------------------------------------------------------
\* The initial states are initial states of the sequential reading.
LEMMA InitRefines == Init => Ordered!Init
  BY DEF Init, Ordered!Init, Outcome

\* Every step of a thread is a step of the sequential reading or none.
LEMMA StepRefines == IInv /\ [Next]_vars => [Ordered!Next]_(Ordered!vars)
<1> SUFFICES ASSUME IInv, [Next]_vars
             PROVE  Ordered!Next \/ UNCHANGED <<cmd, fileIndex, Outcome>>
  BY DEF Ordered!vars
<1>1. ASSUME NEW w \in Workers, WorkerStep(w) \/ WorkerSpurious(w)
      PROVE  UNCHANGED <<cmd, fileIndex, Outcome>>
  BY <1>1 DEF WorkerStep, WorkerStart, WorkerWait, WorkerResume, WorkerClaim, WorkerParse,
     WorkerStore, WorkerContinue, WorkerExit, WorkerSpurious, SignalMain, Outcome, mainVars
<1>2. CASE ListenerStep \/ ListenerFail
  BY <1>2 DEF ListenerStep, ListenerRead, ListenerPublish, ListenerThrow, ListenerEnd,
     ListenerFail, SignalMain, Outcome, mainVars
<1>3. CASE MainLock \/ MainWait \/ MainTake \/ MainSpurious \/ MainDie
  BY <1>3 DEF MainLock, MainWait, MainTake, MainSpurious, MainDie, Outcome
<1>4. ASSUME exception # NoException
      PROVE  FifoMayFail \/ \E s \in Ordered!Slots : ~Ordered!Good(s)
  <2>1. exception \in Slots \/ exception = FifoError
    BY <1>4 DEF IInv, TypeOK
  <2>2. exception \in Slots => ~Ordered!Good(exception)
    BY DEF IInv, ExceptionInv, Ordered!Good
  <2> QED  BY <2>1, <2>2 DEF IInv, ExceptionInv, Slots, Ordered!Slots
<1>5. CASE MainThrow
  BY <1>4, <1>5 DEF MainThrow, Ordered!Next, Ordered!Fail, Outcome
<1>6. CASE MainConsume
  <2>1. fileIndex \in Slots /\ cmd.kind[fileIndex] # "badFile"
    BY <1>6, Constants DEF MainConsume, IInv, TypeOK, MainInv
  <2>2. ASSUME NEW s \in Slots, s < fileIndex  PROVE Ordered!Good(s)
    <3>1. cmd.kind[s] \in Kinds
      BY InputAssumption DEF IInv, TypeOK
    <3>2. cmd.kind[s] # "badFile" /\ cmd.kind[s] # "badAtoms"
      BY <1>6, <2>2 DEF MainConsume, IInv, MainInv, ExceptionInv
    <3> QED  BY <3>1, <3>2 DEF Kinds, Ordered!Good
  <2>3. Outcome = "running" /\ Outcome' = "running"
    BY <1>6 DEF MainConsume, Outcome
  <2> QED
    BY <1>6, <2>1, <2>2, <2>3
       DEF MainConsume, Ordered!Next, Ordered!HandOver, Ordered!Parses, Ordered!Slots, Slots
<1>7. CASE MainFinish
  <2>1. CASE exception # NoException
    BY <1>4, <1>7, <2>1 DEF MainFinish, AfterLoop, Ordered!Next, Ordered!Fail, Outcome
  <2>2. CASE exception = NoException
    <3>1. fileIndex = NumFiles
      BY <1>7 DEF MainFinish, AfterLoop, IInv, MainInv
    <3>2. ASSUME NEW s \in Slots  PROVE Ordered!Good(s)
      <4>1. cmd.kind[s] \in Kinds /\ s < fileIndex
        BY <3>1, InputAssumption, Constants DEF IInv, TypeOK
      <4>2. cmd.kind[s] # "badFile" /\ cmd.kind[s] # "badAtoms"
        BY <2>2, <4>1 DEF IInv, MainInv, ExceptionInv
      <4> QED  BY <4>1, <4>2 DEF Kinds, Ordered!Good
    <3> QED
      BY <1>7, <2>2, <3>1, <3>2
         DEF MainFinish, AfterLoop, Ordered!Next, Ordered!Succeed, Ordered!Slots, Slots, Outcome
  <2> QED  BY <2>1, <2>2
<1>8. CASE UNCHANGED vars
  BY <1>8 DEF vars, Outcome
<1> QED
  BY <1>1, <1>2, <1>3, <1>5, <1>6, <1>7, <1>8 DEF Next, MainStep, Terminated

\* However the threads are scheduled, the resolver sees what the build without
\* threads would show it.
THEOREM PipelineImplementsOrder == Spec => Implements
<1>1. Spec => Ordered!Init /\ [][Ordered!Next]_(Ordered!vars)
  BY InitRefines, StepRefines, Invariance, PTL DEF Spec
<1> QED  BY <1>1 DEF Implements, Ordered!Spec
=============================================================================
