------------------------------ MODULE MCDedup -------------------------------
(* Instances of Dedup for TLC.                                             *)
EXTENDS Dedup

MCData == {90}

MCCall(t) == [kind |-> "call", bound |-> "direct", to |-> t]
MCSlotCall(t) == [kind |-> "call", bound |-> "slot", to |-> t]
MCPointer(t) == [kind |-> "pointer", bound |-> "slot", to |-> t]

MCDedupInput(content, name, auto, fixups) ==
    [content |-> content, name |-> name, autoHide |-> auto, fixups |-> fixups]

\* Four functions that call one each, all auto-hide or not
MCCalls(calls) == [f \in DOMAIN calls |-> <<MCCall(calls[f])>>]
MCOneCall ==
    {MCDedupInput(co, na, auto, MCCalls(calls)) :
        co \in {<<1, 1, 1, 1>>, <<1, 1, 2, 2>>}, na \in {<<1, 2, 3, 4>>, <<1, 2, 3, 3>>},
        auto \in {1..4, {1, 2}, {1, 2, 3}}, calls \in [1..4 -> 1..4]}

\* Five functions, which is what a guess about two that are no pair takes
MCFive ==
    {MCDedupInput(<<1, 1, 2, 2, 2>>, <<1, 2, 3, 4, 5>>, 1..5, MCCalls(calls)) :
        calls \in {c \in [1..5 -> 1..5] : c[1] \in {3, 4} /\ c[2] \in {3, 4}}}

\* Three functions with two references each, some to data, some in the table
MCReferences == {MCCall(1), MCCall(2), MCSlotCall(3), MCPointer(1), MCPointer(90)}
MCTwo ==
    {MCDedupInput(<<1, 1, 1>>, <<1, 2, 3>>, 1..3, [f \in 1..3 |-> <<a[f], b[f]>>]) :
        a \in [1..3 -> {MCCall(2), MCSlotCall(3), MCCall(3)}],
        b \in [1..3 -> MCReferences]}

MCDedupInputs == MCOneCall \cup MCFive \cup MCTwo

MCCrossed == {MCDedupInput(<<1, 1, 2, 2, 2>>, <<1, 2, 3, 4, 5>>, 1..5,
                      MCCalls(<<3, 4, 1, 4, 2>>))}
=============================================================================
