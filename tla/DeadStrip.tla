------------------------------ MODULE DeadStrip ------------------------------
(***************************************************************************)
(* Dead code stripping (-dead_strip), the last thing the resolver does to  *)
(* its atoms: it marks what can be reached from the roots, and drops the   *)
(* rest.  Marking is a depth first walk which may still search libraries,  *)
(* and so load members, add atoms and replace the atom in a slot while the *)
(* walk is under way.  The recursion of markLive() is the variable stack.  *)
(***************************************************************************)
EXTENDS Resolver

CONSTANT NoVisit  \* no reference is being looked at

\* Atoms that are live if they refer to something live are in files of the command
\* line: a member with such an atom, when it is loaded by the loop over them, lets
\* a vector grow while it is iterated over, and what follows is undefined.
ASSUME DeadStripAssumption ==
    \A l \in Links : \A f \in Files :
        Range(l.atoms[f]) \cap l.ifReferencesLive # {} => f \in Range(l.objects)

VARIABLES
    phase,       \* where deadStripOptimize() is
    live,        \* the atoms with live()
    roots,       \* _deadStripRoots
    passed,      \* the roots the loop over that set is past
    liveIf,      \* _dontDeadStripIfReferencesLive
    stack,       \* the calls of markLive(), the current one first
    visit        \* the name being looked up, and how far

stripVars == <<phase, live, roots, passed, liveIf, stack, visit>>
deadStripVars == <<resolverVars, stripVars>>

\* A call of markLive(): the atom, and the fixups the loop has not seen yet.
Frames ==
    [atom : Atoms, names : SUBSET Names, contents : SUBSET Contents,
     targets : SUBSET Atoms]
Visits == [name : Names, stage : {"undefined", "tentative"}]

DeadStripInit ==
    /\ ResolverInit
    /\ phase = "off"
    /\ live = {}
    /\ roots = {}
    /\ passed = {}
    /\ liveIf = <<>>
    /\ stack = <<>>
    /\ visit = NoVisit

\* doAtom(), with what it does for dead stripping.  A root that is added while the
\* loop over the set, which is ordered by address, is under way may be added
\* behind it.
IsRoot(a) ==
    \/ a \in link.dontDeadStrip
    \/ link.globalsAreRoots /\ atom[a].scope = "global"
StripDoAtom(a) ==
    /\ DoAtom(a)
    /\ LET new == {r \in {a} \ roots : IsRoot(r)}
       IN  /\ roots' = roots \cup new
           /\ \E behind \in IF phase = "mark" THEN SUBSET new ELSE {{}} :
                 passed' = passed \cup behind
    /\ liveIf' = IF a \in link.ifReferencesLive \ link.dontDeadStrip
                 THEN Append(liveIf, a) ELSE liveIf
    /\ UNCHANGED <<phase, live, stack, visit>>

Resolve ==
    /\ \/ ReadFile \/ EndInput \/ ResolveUndefines \/ SearchLibraries
    /\ UNCHANGED stripVars

------------------------------------------------------------------------------
\* searchLibraries(n, ...), called from here.
Search(n, dylibs, dataOnly) ==
    /\ search' = Searching(n, dylibs, dataOnly)
    /\ UNCHANGED <<tableVars, link, loopVars, pending, known, loaded, requested,
                   autolinked, searchable>>

\* deadStripOptimize() begins: the entry point and the initial undefined names.
StartStrip ==
    /\ Idle
    /\ pc = "resolved"
    /\ DeadCodeStrip
    /\ phase = "off"
    /\ phase' = "roots"
    /\ todo' = link.undefines
    /\ UNCHANGED <<tableVars, link, pc, unread, pending, known, loaded, requested,
                   autolinked, searchable, search, genCount>>
    /\ UNCHANGED <<live, roots, passed, liveIf, stack, visit>>

\* An initial undefined name that has no definition yet is searched, in archives.
SearchRoot(n) ==
    /\ Idle
    /\ phase = "roots"
    /\ visit = NoVisit
    /\ n \in todo
    /\ ~ HasName(table, n)
    /\ Search(n, FALSE, FALSE)
    /\ visit' = [name |-> n, stage |-> "undefined"]
    /\ UNCHANGED <<phase, live, roots, passed, liveIf, stack>>

AddRoot(n) ==
    /\ Idle
    /\ phase = "roots"
    /\ n \in todo
    /\ IF visit = NoVisit THEN HasName(table, n) ELSE visit.name = n
    /\ todo' = todo \ {n}
    /\ roots' = IF HasName(table, n) THEN roots \cup {table.byName[n]} ELSE roots
    /\ visit' = NoVisit
    /\ UNCHANGED <<tableVars, link, pc, unread, pending, known, loaded, requested,
                   autolinked, searchable, search, genCount>>
    /\ UNCHANGED <<phase, live, passed, liveIf, stack>>

EndRoots ==
    /\ Idle
    /\ phase = "roots"
    /\ todo = {}
    /\ phase' = "mark"
    /\ roots' = roots \cup (known \cap link.dontDeadStrip)
    /\ UNCHANGED <<resolverVars, live, passed, liveIf, stack, visit>>

------------------------------------------------------------------------------
(***************************************************************************)
(* markLive()                                                              *)
(***************************************************************************)
Frame(a) ==
    [atom |-> a, names |-> link.references[a],
     contents |-> IF link.literals[a] = NoAtom THEN {}
                  ELSE {atom[link.literals[a]].content},
     targets |-> link.targets[a]]

\* mutant: an atom that was reached is taken for live without looking further
MarkShallow(a, rest) ==
    /\ live' = live \cup {a}
    /\ stack' = rest
\* mutant: an atom is live only when all it refers to has been seen
MarkLate(a, rest) ==
    /\ live' = IF link.references[a] = {} THEN live \cup {a} ELSE live
    /\ stack' = IF a \in live THEN rest ELSE <<Frame(a)>> \o rest
\* markLive(a) is called, and the stack is to be rest when it returns.
Mark(a, rest) ==
    /\ live' = live \cup {a}
    /\ stack' = IF a \in live THEN rest ELSE <<Frame(a)>> \o rest

Marking == ~ thrown /\ pending = <<>> /\ search = NoSearch /\ stack # <<>>

MarkRoot(r) ==
    /\ Idle
    /\ phase = "mark"
    /\ stack = <<>>
    /\ r \in roots \ passed
    /\ passed' = passed \cup {r}
    /\ Mark(r, <<>>)
    /\ UNCHANGED <<resolverVars, phase, roots, liveIf, visit>>

\* mutant: the loop stays at the name
WithName(n) == stack
\* The stack once the current call is done with name n.
WithoutName(n) == <<[Head(stack) EXCEPT !.names = @ \ {n}]>> \o Tail(stack)

FollowTarget(b) ==
    /\ Marking
    /\ visit = NoVisit
    /\ b \in Head(stack).targets
    /\ Mark(b, <<[Head(stack) EXCEPT !.targets = @ \ {b}]>> \o Tail(stack))
    /\ UNCHANGED <<resolverVars, phase, roots, passed, liveIf, visit>>

FollowContent(c) ==
    /\ Marking
    /\ visit = NoVisit
    /\ c \in Head(stack).contents
    /\ Mark(table.byContent[c],
            <<[Head(stack) EXCEPT !.contents = @ \ {c}]>> \o Tail(stack))
    /\ UNCHANGED <<resolverVars, phase, roots, passed, liveIf, visit>>

\* A name without a definition is searched once more.
SearchReference(n) ==
    /\ Marking
    /\ visit = NoVisit
    /\ n \in Head(stack).names
    /\ ~ HasName(table, n)
    /\ Search(n, TRUE, FALSE)
    /\ visit' = [name |-> n, stage |-> "undefined"]
    /\ UNCHANGED <<phase, live, roots, passed, liveIf, stack>>

\* So is a common symbol, for something better.
SearchCommon(n) ==
    /\ Marking
    /\ n \in Head(stack).names
    /\ visit \in {NoVisit, [name |-> n, stage |-> "undefined"]}
    /\ HasName(table, n) /\ Tentative(table.byName[n])
    /\ Search(n, SearchesDylibs, TRUE)
    /\ visit' = [name |-> n, stage |-> "tentative"]
    /\ UNCHANGED <<phase, live, roots, passed, liveIf, stack>>

\* The atom in the slot is marked: the one that is there after the searches.
FollowName(n) ==
    /\ Marking
    /\ n \in Head(stack).names
    /\ visit \in {NoVisit} \cup [name : {n}, stage : {"undefined", "tentative"}]
    /\ IF visit # NoVisit /\ ~ HasName(table, n)
       THEN stack' = WithoutName(n) /\ UNCHANGED live
       ELSE /\ HasName(table, n)
            /\ \/ ~ Tentative(table.byName[n])
               \/ visit # NoVisit /\ visit.stage = "tentative"
            /\ Mark(table.byName[n], WithoutName(n))
    /\ visit' = NoVisit
    /\ UNCHANGED <<resolverVars, phase, roots, passed, liveIf>>

\* The call returns.
EndFixups ==
    /\ Marking
    /\ Head(stack).names = {} /\ Head(stack).contents = {} /\ Head(stack).targets = {}
    /\ stack' = Tail(stack)
    /\ UNCHANGED <<resolverVars, phase, live, roots, passed, liveIf, visit>>

------------------------------------------------------------------------------
EndMark ==
    /\ Idle
    /\ phase = "mark"
    /\ stack = <<>>
    /\ roots \subseteq passed
    /\ phase' = "liveIf"
    /\ UNCHANGED <<resolverVars, live, roots, passed, liveIf, stack, visit>>

\* mutant: any reference will do
HasReference(a) == link.targets[a] # {} \/ link.references[a] # {}
\* hasLiveRef
HasLiveReference(a) ==
    \/ link.targets[a] \cap live # {}
    \/ \E n \in link.references[a] : HasName(table, n) /\ table.byName[n] \in live
    \/ \E c \in Frame(a).contents : table.byContent[c] \in live

\* One pass over the atoms that are live if they refer to something live.
CheckLiveIf ==
    /\ Idle
    /\ phase = "liveIf"
    /\ stack = <<>>
    /\ liveIf # <<>>
    /\ liveIf' = Tail(liveIf)
    /\ IF HasLiveReference(Head(liveIf)) THEN Mark(Head(liveIf), <<>>)
       ELSE UNCHANGED <<live, stack>>
    /\ UNCHANGED <<resolverVars, phase, roots, passed, visit>>

\* ! NotLive
Kept(a) == a \in live \/ a \in link.dontDeadStrip

Strip ==
    /\ Idle
    /\ phase = "liveIf"
    /\ stack = <<>>
    /\ liveIf = <<>>
    /\ phase' = "done"
    /\ known' = {a \in known : Kept(a)}
    /\ UNCHANGED <<tableVars, link, loopVars, pending, loaded, requested, autolinked,
                   searchable, search>>
    /\ UNCHANGED <<live, roots, passed, liveIf, stack, visit>>

DeadStripNext ==
    \/ Resolve
    \/ \E a \in Atoms :
          StripDoAtom(a) \/ MarkRoot(a) \/ FollowTarget(a)
    \/ \E n \in Names :
          SearchRoot(n) \/ AddRoot(n) \/ SearchReference(n) \/ SearchCommon(n)
          \/ FollowName(n)
    \/ \E c \in Contents : FollowContent(c)
    \/ StartStrip \/ EndRoots \/ EndFixups \/ EndMark \/ CheckLiveIf \/ Strip

DeadStripSpec == DeadStripInit /\ [][DeadStripNext]_deadStripVars
FairDeadStripSpec == DeadStripSpec /\ WF_deadStripVars(DeadStripNext)

------------------------------------------------------------------------------
(***************************************************************************)
(* Properties                                                              *)
(***************************************************************************)
\* The variables have their types, and marking goes on only while it may.
StripTypeOK ==
    /\ phase \in {"off", "roots", "mark", "liveIf", "done"}
    /\ live \in SUBSET Atoms
    /\ roots \in SUBSET Atoms
    /\ passed \in SUBSET roots
    /\ liveIf \in Seq(Atoms)
    /\ stack \in Seq(Frames)
    /\ visit \in Visits \cup {NoVisit}
    /\ phase # "off" => pc = "resolved"
    /\ stack # <<>> => phase \in {"mark", "liveIf"}
    /\ visit # NoVisit => phase = "roots" \/ stack # <<>>
    /\ \A i \in DOMAIN stack : stack[i].atom \in live

\* The atoms the fixups of a lead to.
Successors(a) ==
    link.targets[a]
        \cup {table.byName[n] : n \in {m \in link.references[a] : HasName(table, m)}}
        \cup {table.byContent[c] : c \in Frame(a).contents}

Done == phase = "done" /\ ~ thrown

\* No atom that was marked has since lost its slot to one of a late member.
NoneReplaced == live \cap table.coalescedAway = {}

\* When dead stripping is done, what a live atom refers to is kept: its graph has
\* no dangling edges.
LiveClosed ==
    /\ StripTypeOK
    /\ Done /\ NoneReplaced => \A a \in live : Successors(a) \subseteq known \cap live

\* The same, whatever members are loaded on the way.
KeptClosed == Done => \A a \in known \ table.coalescedAway : Successors(a) \subseteq known

\* What is kept can be reached: a set of atoms that holds the roots, is closed
\* under references and holds the atoms that are live if they refer to one of it,
\* holds the live atoms.
OnlyReachableLive ==
    Done /\ NoneReplaced =>
        \A S \in SUBSET live :
            (/\ roots \cap live \subseteq S
             /\ \A a \in S : Successors(a) \subseteq S
             /\ \A a \in link.ifReferencesLive : Successors(a) \cap S # {} => a \in S)
            => S = live

\* An atom that is to be live if it refers to something live, is; atoms that were
\* stripped are not in known any more.
LiveIfComplete ==
    Done => \A f \in loaded \cup Range(link.objects) :
                \A a \in Range(link.atoms[f]) \cap link.ifReferencesLive :
                    HasLiveReference(a) => a \in live

\* Dead stripping ends: cycles of references do not keep it going.
StripEnds == <>(phase = "done" \/ thrown)
==============================================================================
