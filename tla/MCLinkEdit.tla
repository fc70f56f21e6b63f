----------------------------- MODULE MCLinkEdit -----------------------------
(***************************************************************************)
(* What the output file puts into __LINKEDIT for the loader: either the    *)
(* chained fixups or the streams of opcodes, and the export trie           *)
(* (OutputFile::addLoadCommands and addLinkEdit choose the atoms).  The    *)
(* encoders share no state, so each behaviour runs one of them on one of   *)
(* its inputs while the others have nothing to encode.                     *)
(***************************************************************************)
EXTENDS MCChainedFixups, MCOpcodeStream, MCExportTrie

NoImage == [format |-> "ptr64", shared |-> FALSE, segs |-> <<>>, maxRebase |-> 0,
            target |-> <<>>, data |-> <<>>]
NoTable == [stream |-> "rebase", segs |-> <<>>, info |-> {}]

ChainsIdle == /\ image = NoImage /\ stage = "done" /\ reserved = 0 /\ pages = <<>>
              /\ binds = [targets |-> <<>>, wide |-> FALSE] /\ imports = <<>>
              /\ starts = <<>> /\ words = <<>>
              /\ cursor = [seg |-> 1, page |-> 1, k |-> 1, slot |-> 0]
StreamIdle == table = NoTable /\ step = "done" /\ info = <<>> /\ mid = <<>>
TrieIdle   == /\ entries = <<>> /\ phase = "done" /\ next = 1 /\ nodes = <<>>
              /\ ordered = <<>> /\ more = FALSE /\ stream = <<>>

LinkEditVars == <<chainVars, streamVars, trieVars>>

LinkEditInit ==
    \/ ChainsInit /\ StreamIdle /\ TrieIdle
    \/ StreamInit /\ ChainsIdle /\ TrieIdle
    \/ TrieInit /\ ChainsIdle /\ StreamIdle

LinkEditNext ==
    \/ ChainsNext /\ UNCHANGED <<streamVars, trieVars>>
    \/ StreamNext /\ UNCHANGED <<chainVars, trieVars>>
    \/ TrieNext /\ UNCHANGED <<chainVars, streamVars>>

LinkEditSpec == LinkEditInit /\ [][LinkEditNext]_LinkEditVars /\ WF_trieVars(TrieNext)
=============================================================================
