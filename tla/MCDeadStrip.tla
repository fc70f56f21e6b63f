----------------------------- MODULE MCDeadStrip -----------------------------
(* Instances of DeadStrip for TLC: those of Resolver, with two more atoms. *)
EXTENDS DeadStrip, MCResolver

\* 11 and 12 are static atoms of the object file, perhaps not to be stripped, or
\* live if they refer to something live; y is a common symbol, perhaps hidden.
MCBase ==
    {l \in MCLinksOf({<<MCWeak("y", 1), TRUE>>, <<MCHidden(MCTentative("y", 1)), TRUE>>},
                     {<<<<"A", "B">>, {}>>}) :
        /\ l.references[1] = {"y", "z"} /\ l.references[3] = {"z"}
        /\ l.atoms["m2"] = <<4, 10>>
        /\ l.attributes[3].definition = "regular"
        /\ l.attributes[6] = MCExport("y", 4)}
MCStripLinks ==
    {[l EXCEPT !.atoms["main"] = @ \o <<11, 12>>,
               !.attributes[11] = MCStatic(1), !.attributes[12] = MCStatic(1),
               !.targets[1] = t1, !.targets[11] = t11, !.references[11] = r11,
               !.targets[12] = {11}, !.dontDeadStrip = keep,
               !.ifReferencesLive = liveIfs] :
        l \in MCBase, t1 \in {{}, {12}}, t11 \in {{}, {12}}, r11 \in {{}, {"y"}, {"z"}},
        keep \in {{}, {11}}, liveIfs \in {{}, {11}, {11, 12}}}
\* z may be undefined, and a root; and with m2 still to come, x, until the walk.
MCUnresolvedLinks ==
    {[l EXCEPT !.libraries = <<"A">>, !.undefines = {"x", "z"},
               !.globalsAreRoots = globals] : l \in MCBase, globals \in BOOLEAN}
        \cup {l \in MCAutolinkChain : l.attributes[3].definition = "regular"}
\* 11 refers to 12, and 12 to x.
MCLiveIfChain ==
    {[l EXCEPT !.atoms["main"] = @ \o <<11, 12>>,
               !.attributes[11] = MCStatic(1), !.attributes[12] = MCStatic(1),
               !.targets[11] = {12},
               !.references[12] = {"x"}, !.ifReferencesLive = {11, 12}] : l \in MCBase}

\* The object file has a hidden common symbol, for which m1, which initializes it,
\* is searched no sooner than in the walk.
MCHiddenCommon ==
    MCLinksOf({<<MCHidden(MCTentative("y", 1)), TRUE>>}, {<<<<"A", "B">>, {}>>})
\* Members loaded while marking: m1 defines z, too, which is weak in the object
\* file.
MCLateReplacement ==
    {[l EXCEPT !.attributes[11] = MCWeak("z", 1), !.attributes[12] = MCAtom("z", 2),
               !.atoms["main"] = @ \o <<11>>, !.atoms["m1"] = <<3, 12>>] :
        l \in MCHiddenCommon}
\* m1 has an atom that is not to be stripped.
MCLateRoot ==
    {[l EXCEPT !.attributes[12] = MCStatic(2), !.atoms["m1"] = <<3, 12>>,
               !.dontDeadStrip = {12}] : l \in MCHiddenCommon}
MCPassLinks == MCStripLinks \cup MCUnresolvedLinks \cup MCLateRoot
MCAllAttributes ==
    {l.attributes : l \in MCPassLinks \cup MCLiveIfChain \cup MCLateReplacement}
==============================================================================
