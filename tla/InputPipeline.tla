---------------------------- MODULE InputPipeline ----------------------------
(***************************************************************************)
(* The parallel reading of the input files (class InputFiles).  The main   *)
(* thread consumes the files in command line order while worker threads    *)
(* parse them in any order; in a pipelined link a listener thread learns   *)
(* from a fifo which files of the file list exist already.  The three kinds *)
(* of threads share the fields of InputFiles under _parseLock and sleep on  *)
(* two condition variables, _parseWorkReady and _newFileAvailable.          *)
(*                                                                         *)
(* A step is the code between two points where a thread may be preempted   *)
(* with an effect others can see: taking the lock, releasing it (also by    *)
(* waiting), the unlocked makeFile(), and the accesses of the main thread   *)
(* to _exception that take no lock.                                         *)
(***************************************************************************)
EXTENDS Integers, FiniteSets

CONSTANTS
    NumFiles,      \* _options.getInputFiles().size()
    NumCpus,       \* hardware_concurrency()
    Paths,         \* the names input files can have
    Pipelined,     \* _options.pipelineEnabled()
    FifoMayFail,   \* may the fifo end early, name an unknown or a missing file
    Spurious,      \* does pthread_cond_wait() return spuriously
    CommandLines   \* the command lines considered

Slots == 0 .. NumFiles - 1

\* What reading one input file comes to.
Kinds == {"object",    \* parses, and its atoms can be iterated
          "ignored",   \* makeFile() throws, the exception only earns a warning
          "badFile",   \* makeFile() throws an exception that ends the link
          "badAtoms"}  \* parses, but forEachAtom() throws

ASSUME InputAssumption ==
    /\ NumFiles \in Nat \ {0}
    /\ NumCpus \in Nat \ {0}
    /\ Pipelined \in BOOLEAN
    /\ FifoMayFail \in BOOLEAN
    /\ Spurious \in BOOLEAN
    /\ CommandLines \subseteq [kind : [Slots -> Kinds],
                               path : [Slots -> Paths],
                               fromFileList : SUBSET Slots]

WorkerLimit == IF NumCpus < NumFiles THEN NumCpus ELSE NumFiles
Workers == 1 .. WorkerLimit

\* The holder of _parseLock that is no worker.
Free == -1
Main == 0

\* _exception is a message: here its origin, the slot of a file or the fifo.
NoException == -1
FifoError == NumFiles

VARIABLES
    cmd,              \* the command line; never changes
    lock,             \* holder of _parseLock
    stored,           \* the slots with _inputFiles[slot] != NULL
    ready,            \* the slots with readyToParse
    available,        \* _availableInputFiles
    cursor,           \* _parseCursor
    remaining,        \* _remainingInputFiles
    exception,        \* _exception
    availableWorkers, \* _availableWorkers
    idleWorkers,      \* _idleWorkers
    neededSlot,       \* _neededFileSlot
    wpc,              \* where each worker is
    wslot,            \* the file a worker is parsing
    lpc,              \* where the listener is
    fileMap,          \* the listener's fileMap: slots not announced yet
    mpc,              \* where the main thread is in forEachInitialAtom()
    fileIndex         \* its loop variable

vars == <<cmd, lock, stored, ready, available, cursor, remaining, exception,
          availableWorkers, idleWorkers, neededSlot, wpc, wslot, lpc, fileMap,
          mpc, fileIndex>>

parseVars  == <<stored, ready, available, cursor, remaining>>
workerVars == <<wpc, wslot, idleWorkers>>
mainVars   == <<mpc, fileIndex, neededSlot, availableWorkers>>
listenVars == <<lpc, fileMap>>

WorkerPCs == {"unstarted", "starting", "top", "waiting", "woken", "parsing",
              "parsed", "check", "exited"}
ListenerPCs == {"off", "reading", "publish", "failing", "ended"}
MainPCs == {"lock", "test", "waiting", "woken", "consume", "finish",
            "throwing", "done", "exited"}

TypeOK ==
    /\ cmd \in CommandLines
    /\ lock \in {Free, Main} \cup Workers
    /\ stored \subseteq Slots
    /\ ready \subseteq Slots
    /\ available \in 0 .. NumFiles
    /\ cursor \in 0 .. NumFiles
    /\ remaining \in 0 .. NumFiles
    /\ exception \in {NoException, FifoError} \cup Slots
    /\ availableWorkers \in 0 .. WorkerLimit
    /\ idleWorkers \in 0 .. WorkerLimit
    /\ neededSlot \in {-1} \cup Slots
    /\ wpc \in [Workers -> WorkerPCs]
    /\ wslot \in [Workers -> {-1} \cup Slots]
    /\ lpc \in ListenerPCs
    /\ fileMap \subseteq Slots
    /\ mpc \in MainPCs
    /\ fileIndex \in 0 .. NumFiles

-----------------------------------------------------------------------------
(* Helpers *)

\* The listener keys its map by path: a later entry replaces an earlier one.
LastOfPath(c) ==
    {s \in c.fromFileList :
        \A t \in c.fromFileList : c.path[t] = c.path[s] => t <= s}

\* The slot the scan of a worker stops at.
ClaimableUnready(slot) ==   \* mutant: the scan ignores readyToParse
    /\ slot >= cursor /\ slot \notin stored
    /\ \A s \in Slots : s >= cursor /\ s \notin stored => s >= slot
Claimable(slot) ==
    /\ slot >= cursor
    /\ slot \notin stored /\ slot \in ready
    /\ \A s \in Slots : s >= cursor /\ s \notin stored /\ s \in ready => s >= slot

\* The process is alive: _exit() stops every thread.
Alive == mpc # "exited"

\* An announced file may lie before the cursor.
CursorKept(slot) == cursor   \* mutant: the cursor never goes back
CursorFor(slot) == IF cursor > slot THEN slot ELSE cursor

\* One file less to parse; the counter is zero already when the link has failed.
DecrementedBlindly(n) == n - 1   \* mutant: no test for zero
Decremented(n) == IF n > 0 THEN n - 1 ELSE n

\* Where the test of _exception after the loop of the main thread leads.
AfterLoopUntested == "done"   \* mutant: the test is missing
AfterLoop == IF exception # NoException THEN "throwing" ELSE "done"

\* pthread_cond_signal(&_parseWorkReady): one waiting worker, if there is one.
SignalLost(pcs) == {pcs}   \* mutant: no signal
SignalWorker(pcs) ==
    LET asleep == {w \in Workers : pcs[w] = "waiting"}
    IN  IF asleep = {} THEN {pcs}
        ELSE {[pcs EXCEPT ![w] = "woken"] : w \in asleep}

\* pthread_cond_broadcast(&_parseWorkReady)
WakeAll(pcs) == [w \in Workers |-> IF pcs[w] = "waiting" THEN "woken" ELSE pcs[w]]

\* pthread_cond_signal(&_newFileAvailable): only the main thread waits on it.
NoSignal == mpc' = mpc   \* mutant: no signal
SignalMain == mpc' = IF mpc = "waiting" THEN "woken" ELSE mpc

\* startThread(parseWorkerThread): the next worker comes to life.
NextWorker == WorkerLimit - availableWorkers + 1

-----------------------------------------------------------------------------
Init ==
    /\ cmd \in CommandLines
    /\ lock = Free
    /\ stored = {}
    /\ ready = IF Pipelined THEN Slots \ cmd.fromFileList ELSE Slots
    /\ available = Cardinality(ready)
    /\ cursor = 0
    /\ remaining = NumFiles
    /\ exception = NoException
    /\ availableWorkers = WorkerLimit - 1
    /\ idleWorkers = 0
    /\ neededSlot = -1
    /\ wpc = [w \in Workers |-> IF w = 1 THEN "starting" ELSE "unstarted"]
    /\ wslot = [w \in Workers |-> -1]
    /\ lpc = IF Pipelined THEN "reading" ELSE "off"
    /\ fileMap = IF Pipelined THEN LastOfPath(cmd) ELSE {}
    /\ mpc = "lock"
    /\ fileIndex = 0

-----------------------------------------------------------------------------
(* parseWorkerThread() *)

\* The thread takes the lock before its first round of the do-while loop.
WorkerStart(w) ==
    /\ wpc[w] = "starting" /\ lock = Free
    /\ lock' = w
    /\ wpc' = [wpc EXCEPT ![w] = "top"]
    /\ UNCHANGED <<cmd, parseVars, exception, wslot, idleWorkers, mainVars, listenVars>>

\* Nothing to parse: sleep on _parseWorkReady.
WorkerWait(w) ==
    /\ wpc[w] = "top" /\ available = 0
    /\ idleWorkers' = idleWorkers + 1
    /\ wpc' = [wpc EXCEPT ![w] = "waiting"]
    /\ lock' = Free
    /\ UNCHANGED <<cmd, parseVars, exception, wslot, mainVars, listenVars>>

\* pthread_cond_wait() returns with the lock.
WorkerResume(w) ==
    /\ wpc[w] = "woken" /\ lock = Free
    /\ lock' = w
    /\ idleWorkers' = idleWorkers - 1
    /\ wpc' = [wpc EXCEPT ![w] = "check"]
    /\ UNCHANGED <<cmd, parseVars, exception, wslot, mainVars, listenVars>>

\* Claim the first file at or after the cursor that waits to be parsed.
WorkerClaim(w) ==
    /\ wpc[w] = "top" /\ available # 0
    /\ \E slot \in Slots :
         /\ Claimable(slot)
         /\ cursor' = slot + 1
         /\ ready' = ready \ {slot}
         /\ wslot' = [wslot EXCEPT ![w] = slot]
    /\ available' = available - 1
    /\ wpc' = [wpc EXCEPT ![w] = "parsing"]
    /\ lock' = Free
    /\ UNCHANGED <<cmd, stored, remaining, exception, idleWorkers, mainVars, listenVars>>

\* makeFile() runs without the lock.
WorkerParse(w) ==
    /\ wpc[w] = "parsing"
    /\ wpc' = [wpc EXCEPT ![w] = "parsed"]
    /\ UNCHANGED <<cmd, lock, parseVars, exception, wslot, idleWorkers, mainVars, listenVars>>

\* Back under the lock: store the file, or give up on the whole link.
WorkerStore(w) ==
    /\ wpc[w] = "parsed" /\ lock = Free
    /\ lock' = w
    /\ LET slot == wslot[w] IN
         IF cmd.kind[slot] = "badFile"
         THEN /\ remaining' = 0
              /\ exception' = slot
              /\ UNCHANGED <<stored, mpc>>
         ELSE /\ remaining' = Decremented(remaining)
              /\ stored' = stored \cup {slot}
              /\ IF neededSlot = slot THEN SignalMain ELSE UNCHANGED mpc
              /\ UNCHANGED exception
    /\ wslot' = [wslot EXCEPT ![w] = -1]
    /\ wpc' = [wpc EXCEPT ![w] = "check"]
    /\ UNCHANGED <<cmd, ready, available, cursor, idleWorkers, fileIndex, neededSlot,
                   availableWorkers, listenVars>>

\* while (_remainingInputFiles): another round ...
WorkerContinue(w) ==
    /\ wpc[w] = "check" /\ remaining # 0
    /\ wpc' = [wpc EXCEPT ![w] = "top"]
    /\ UNCHANGED <<cmd, lock, parseVars, exception, wslot, idleWorkers, mainVars, listenVars>>

\* ... or the end of the thread, which wakes everybody.
WorkerExit(w) ==
    /\ wpc[w] = "check" /\ remaining = 0
    /\ wpc' = WakeAll([wpc EXCEPT ![w] = "exited"])
    /\ SignalMain
    /\ lock' = Free
    /\ UNCHANGED <<cmd, parseVars, exception, wslot, idleWorkers, fileIndex, neededSlot,
                   availableWorkers, listenVars>>

WorkerSpurious(w) ==
    /\ Spurious /\ wpc[w] = "waiting"
    /\ wpc' = [wpc EXCEPT ![w] = "woken"]
    /\ UNCHANGED <<cmd, lock, parseVars, exception, wslot, idleWorkers, mainVars, listenVars>>

WorkerStep(w) ==
    \/ WorkerStart(w) \/ WorkerWait(w) \/ WorkerResume(w) \/ WorkerClaim(w)
    \/ WorkerParse(w) \/ WorkerStore(w) \/ WorkerContinue(w) \/ WorkerExit(w)

-----------------------------------------------------------------------------
(* waitForInputFiles() *)

\* fgets() returns a name of the file map, and the file exists.
ListenerRead ==
    /\ lpc = "reading" /\ fileMap # {}
    /\ lpc' = "publish"
    /\ UNCHANGED <<cmd, lock, parseVars, exception, workerVars, mainVars, fileMap>>

\* The file becomes available; one idle worker is signalled.
ListenerPublish ==
    /\ lpc = "publish" /\ lock = Free
    /\ \E slot \in fileMap :
         /\ wpc' \in IF idleWorkers # 0 THEN SignalWorker(wpc) ELSE {wpc}
         /\ ready' = ready \cup {slot}
         /\ cursor' = CursorFor(slot)
         /\ fileMap' = fileMap \ {slot}
    /\ available' = available + 1
    /\ lpc' = "reading"
    /\ UNCHANGED <<cmd, lock, stored, remaining, exception, wslot, idleWorkers, mainVars>>

\* fopen() fails, the stream ends early, names no file of the map or a missing one.
ListenerFail ==
    /\ FifoMayFail
    /\ lpc = "reading" /\ fileMap # {}
    /\ lpc' = "failing"
    /\ UNCHANGED <<cmd, lock, parseVars, exception, workerVars, mainVars, fileMap>>

ListenerThrow ==
    /\ lpc = "failing" /\ lock = Free
    /\ exception' = FifoError
    /\ SignalMain
    /\ lpc' = "ended"
    /\ UNCHANGED <<cmd, lock, parseVars, workerVars, fileIndex, neededSlot,
                   availableWorkers, fileMap>>

ListenerEnd ==
    /\ lpc = "reading" /\ fileMap = {}
    /\ lpc' = "ended"
    /\ UNCHANGED <<cmd, lock, parseVars, exception, workerVars, mainVars, fileMap>>

ListenerStep == ListenerRead \/ ListenerPublish \/ ListenerThrow \/ ListenerEnd

-----------------------------------------------------------------------------
(* forEachInitialAtom() *)

MainLock ==
    /\ mpc \in {"lock", "woken"} /\ lock = Free
    /\ lock' = Main
    /\ mpc' = "test"
    /\ UNCHANGED <<cmd, parseVars, exception, workerVars, fileIndex, neededSlot,
                   availableWorkers, listenVars>>

\* Starved for input: start another worker if that may help, then wait.
MainWait ==
    /\ mpc = "test" /\ fileIndex \notin stored /\ exception = NoException
    /\ IF available > 0 /\ availableWorkers > 0
       THEN /\ wpc' = [wpc EXCEPT ![NextWorker] = "starting"]
            /\ availableWorkers' = availableWorkers - 1
       ELSE UNCHANGED <<wpc, availableWorkers>>
    /\ neededSlot' = fileIndex
    /\ mpc' = "waiting"
    /\ lock' = Free
    /\ UNCHANGED <<cmd, parseVars, exception, wslot, idleWorkers, fileIndex, listenVars>>

\* The exception leaves the loop with _parseLock held, after sleep(1).
MainThrow ==
    /\ mpc = "test" /\ exception # NoException
    /\ mpc' = "throwing"
    /\ UNCHANGED <<cmd, lock, parseVars, exception, workerVars, fileIndex, neededSlot,
                   availableWorkers, listenVars>>

MainTakeUnparsed ==   \* mutant: the main thread does not look whether the file is there
    /\ mpc = "test" /\ exception = NoException
    /\ lock' = Free
    /\ mpc' = "consume"
    /\ UNCHANGED <<cmd, parseVars, exception, workerVars, fileIndex, neededSlot,
                   availableWorkers, listenVars>>
MainTake ==
    /\ mpc = "test" /\ fileIndex \in stored /\ exception = NoException
    /\ lock' = Free
    /\ mpc' = "consume"
    /\ UNCHANGED <<cmd, parseVars, exception, workerVars, fileIndex, neededSlot,
                   availableWorkers, listenVars>>

\* forEachAtom() runs without the lock, and so does the write of _exception.
MainConsume ==
    /\ mpc = "consume"
    /\ exception' = IF cmd.kind[fileIndex] = "badAtoms" THEN fileIndex ELSE exception
    /\ fileIndex' = fileIndex + 1
    /\ mpc' = IF fileIndex + 1 < NumFiles THEN "lock" ELSE "finish"
    /\ UNCHANGED <<cmd, lock, parseVars, workerVars, neededSlot, availableWorkers, listenVars>>

\* The test of _exception after the loop, without the lock.
MainFinish ==
    /\ mpc = "finish"
    /\ mpc' = AfterLoop
    /\ UNCHANGED <<cmd, lock, parseVars, exception, workerVars, fileIndex, neededSlot,
                   availableWorkers, listenVars>>

\* main() reports the message and calls _exit(1).
MainDie ==
    /\ mpc = "throwing"
    /\ mpc' = "exited"
    /\ UNCHANGED <<cmd, lock, parseVars, exception, workerVars, fileIndex, neededSlot,
                   availableWorkers, listenVars>>

MainSpurious ==
    /\ Spurious /\ mpc = "waiting"
    /\ mpc' = "woken"
    /\ UNCHANGED <<cmd, lock, parseVars, exception, workerVars, fileIndex, neededSlot,
                   availableWorkers, listenVars>>

MainStep ==
    \/ MainLock \/ MainWait \/ MainThrow \/ MainTake \/ MainConsume
    \/ MainFinish \/ MainDie

-----------------------------------------------------------------------------
\* The phase is over; what other threads do then has no part in it.
Terminated == mpc \in {"done", "exited"} /\ UNCHANGED vars

Next ==
    \/ Alive /\ \E w \in Workers : WorkerStep(w) \/ WorkerSpurious(w)
    \/ Alive /\ (ListenerStep \/ ListenerFail)
    \/ MainStep \/ MainSpurious
    \/ Terminated

\* The operating system runs every thread that can run, and the build system
\* writes every name to the fifo in the end.
Fairness ==
    /\ \A w \in Workers : WF_vars(Alive /\ WorkerStep(w))
    /\ WF_vars(Alive /\ ListenerStep)
    /\ WF_vars(MainStep)

Spec == Init /\ [][Next]_vars
FairSpec == Spec /\ Fairness

-----------------------------------------------------------------------------
(* Properties *)

\* A worker that sees _availableInputFiles # 0 finds a file in its scan: the
\* assert of parseWorkerThread() never fails, whatever the listener announced
\* and however far the cursor of other workers went.
ScanFinds ==
    \A w \in Workers : wpc[w] = "top" /\ available # 0
                         => \E slot \in Slots : Claimable(slot)

\* No file is parsed by two workers, and no file that is parsed already is
\* parsed again: the slots in work are distinct, and neither ready nor stored.
ParsedOnce ==
    \A w \in Workers : wpc[w] \in {"parsing", "parsed"} =>
        /\ wslot[w] \notin ready \cup stored
        /\ \A v \in Workers \ {w} :
              wpc[v] \in {"parsing", "parsed"} => wslot[v] # wslot[w]

\* No wake-up of the main thread is lost: while it sleeps and nobody is inside
\* a critical section, the file it needs is missing and no thread has thrown.
MainSleepsForCause ==
    mpc = "waiting" /\ lock = Free => fileIndex \notin stored /\ exception = NoException

\* No wake-up of a worker is lost: files wait to be parsed and the link goes
\* on, then some worker is awake.
WorkNotStranded ==
    available > 0 /\ remaining > 0 =>
        \E w \in Workers : wpc[w] \notin {"unstarted", "waiting", "exited"}

\* Reading the input succeeds only when every file could be read and iterated:
\* an exception of any thread, at any moment, is not overlooked.
ErrorNotLost == mpc = "done" => \A s \in Slots : cmd.kind[s] \in {"object", "ignored"}

\* What the resolver sees does not depend on the threads: the files come one by
\* one in command line order, none after one that failed.
Outcome == IF mpc \in {"throwing", "exited"} THEN "failed"
           ELSE IF mpc = "done" THEN "done" ELSE "running"
Ordered == INSTANCE OrderedInput WITH next <- fileIndex, outcome <- Outcome
Implements == Ordered!Spec

\* main() dies of an error only when no other thread is at work on a file: "wait
\* for other threads to finish so we don't destruct global objects out from under
\* them" (the throw in forEachInitialAtom).
OthersFinishedAtExit ==
    mpc = "exited" => \A w \in Workers : wpc[w] \notin {"parsing", "parsed"}


\* Every link ends, with or without an error, provided no two entries of the
\* file list name the same file, and wake-ups without a signal do not go on for
\* ever.
DistinctPaths ==
    \A s, t \in cmd.fromFileList : cmd.path[s] = cmd.path[t] => s = t
SpuriousWakeUp == MainSpurious \/ \E w \in Workers : WorkerSpurious(w)
Ends ==
    DistinctPaths =>
        <>(mpc \in {"done", "exited"}) \/ []<><<SpuriousWakeUp>>_vars

=============================================================================
