----------------------------- MODULE OrderedInput -----------------------------
(***************************************************************************)
(* What reading the input files promises to the resolver, however many     *)
(* threads do the work: the files are handed over one by one, in command   *)
(* line order, none after one that failed, and the phase ends well only    *)
(* when all of them were good.  This is the loop of forEachInitialAtom()   *)
(* as the build without threads runs it.                                   *)
(***************************************************************************)
EXTENDS Integers

CONSTANTS NumFiles, CommandLines, FifoMayFail

VARIABLES cmd,      \* the command line
          next,     \* files handed over so far
          outcome   \* how the phase stands

vars == <<cmd, next, outcome>>

Slots == 0 .. NumFiles - 1

Good(s) == cmd.kind[s] \in {"object", "ignored"}
Parses(s) == cmd.kind[s] # "badFile"

Init == cmd \in CommandLines /\ next = 0 /\ outcome = "running"

\* The next file parses, and no file before it failed in forEachAtom().
HandOver ==
    /\ outcome = "running"
    /\ next \in Slots /\ Parses(next)
    /\ \A s \in Slots : s < next => Good(s)
    /\ next' = next + 1
    /\ UNCHANGED <<cmd, outcome>>

Succeed ==
    /\ outcome = "running"
    /\ next = NumFiles /\ \A s \in Slots : Good(s)
    /\ outcome' = "done"
    /\ UNCHANGED <<cmd, next>>

\* An error may be noticed before its file's turn, but there is one.
Fail ==
    /\ outcome = "running"
    /\ FifoMayFail \/ \E s \in Slots : ~Good(s)
    /\ outcome' = "failed"
    /\ UNCHANGED <<cmd, next>>

Next == HandOver \/ Succeed \/ Fail

Spec == Init /\ [][Next]_vars
=============================================================================
