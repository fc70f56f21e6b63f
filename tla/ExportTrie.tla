----------------------------- MODULE ExportTrie -----------------------------
(***************************************************************************)
(* The export trie: the exported names as a prefix tree, laid out node by  *)
(* node in a stream of bytes where each node gives the offsets of its      *)
(* children as LEB128 numbers.  The offsets depend on the sizes of the     *)
(* nodes and the sizes on the offsets, so the layout is repeated until     *)
(* nothing moves.                                                          *)
(*                                                                         *)
(* Names are sequences of characters.  An entry is exported at an address, *)
(* or with a stub and a resolver, or again from a dylib, under its own     *)
(* name or with another name that is spelled out.  The order of the        *)
(* entries is any: those of dylibs are sorted by an address never set.     *)
(***************************************************************************)
EXTENDS Integers, FiniteSets, Sequences, SequencesExt, FiniteSetsExt, Leb128

CONSTANT
    Exports     \* the sequences of entries to encode, see ExportsOK

\* names differ and are not empty; flags take one byte
ExportsOK(x) ==
    /\ \A n \in DOMAIN x : x[n].kind \in {"regular", "resolver", "reexport"} /\ x[n].name # <<>>
    /\ \A n, m \in DOMAIN x : n # m => x[n].name # x[m].name

ASSUME ExportsAssumption == \A x \in Exports : ExportsOK(x)

VARIABLES
    entries,    \* the input
    phase,      \* what comes next: "add", "order", "layout", "append" or "done"
    next,       \* the entry to add or to order the nodes of
    nodes,      \* the nodes, the root first: name so far, edges, entry, offset
    ordered,    \* orderedNodes
    more,       \* something moved in this round of the layout
    stream      \* the nodes of the output by the position where they begin

trieVars == <<entries, phase, next, nodes, ordered, more, stream>>

-----------------------------------------------------------------------------
(* Adding names. *)

TrieNode(cummulative, edges, entry) ==
    [cummulative |-> cummulative, edges |-> edges, entry |-> entry, offset |-> 0]

Edge(sub, child) == [sub |-> sub, child |-> child]

PartialStr(n, name) == SubSeq(name, Len(nodes[n].cummulative) + 1, Len(name))

CommonLength(s, t) ==
    Max({i \in 0 .. Min({Len(s), Len(t)}) : SubSeq(s, 1, i) = SubSeq(t, 1, i)})

\* the edges of node n that the rest of the name can go along, or begin to
Along(n, name) ==
    {k \in DOMAIN nodes[n].edges :
        LET sub == nodes[n].edges[k].sub
        IN  sub = <<>> \/ CommonLength(sub, PartialStr(n, name)) > 0}

\* the node where the way down ends, and the edge there to be split, or 0
WayDown(name) ==
    LET from[n \in DOMAIN nodes] ==
            IF Along(n, name) = {} THEN [node |-> n, split |-> 0]
            ELSE LET k   == Min(Along(n, name))
                     sub == nodes[n].edges[k].sub
                 IN  IF IsPrefix(sub, PartialStr(n, name)) THEN from[nodes[n].edges[k].child]
                     ELSE [node |-> n, split |-> k]
    IN  from[1]

\* a new edge for all that is left of the name
WithNewEdge(n, name) ==
    Append([nodes EXCEPT ![n].edges = Append(@, Edge(PartialStr(n, name), Len(nodes) + 1))],
           TrieNode(name, <<>>, next))

\* splice a node into edge k: was A -> C, now A -> B -> C and B -> the new one
WithSplitEdge(n, k, name) ==
    LET edge == nodes[n].edges[k]
        i    == CommonLength(edge.sub, PartialStr(n, name))
        b    == Len(nodes) + 1
        cumm == nodes[n].cummulative \o SubSeq(edge.sub, 1, i)
        rest == SubSeq(name, Len(cumm) + 1, Len(name))
    IN  [nodes EXCEPT ![n].edges[k] = Edge(SubSeq(edge.sub, 1, i), b)]
        \o <<TrieNode(cumm, <<Edge(SubSeq(edge.sub, i + 1, Len(edge.sub)), edge.child),
                              Edge(rest, b + 1)>>, 0),
             TrieNode(name, <<>>, next)>>

AddSymbol ==
    /\ phase = "add" /\ next <= Len(entries)
    /\ \E name \in {entries[next].name} : \E way \in {WayDown(name)} :
           nodes' = IF way.split = 0 THEN WithNewEdge(way.node, name)
                                     ELSE WithSplitEdge(way.node, way.split, name)
    /\ next' = next + 1
    /\ UNCHANGED <<entries, phase, ordered, more, stream>>

AllAdded ==
    /\ phase = "add" /\ next > Len(entries)
    /\ phase' = "order" /\ next' = 1
    /\ UNCHANGED <<entries, nodes, ordered, more, stream>>

-----------------------------------------------------------------------------
(* Ordering the nodes and giving them offsets. *)

\* mutant: only the nodes where a name ends are ordered
PathOfEnds(name) == <<1, CHOOSE n \in DOMAIN nodes : nodes[n].entry # 0 /\ nodes[n].cummulative = name>>

\* the nodes on the way down to a name
Path(name) ==
    LET from[n \in DOMAIN nodes] ==
            LET whole == {k \in DOMAIN nodes[n].edges :
                             IsPrefix(nodes[n].edges[k].sub, PartialStr(n, name))}
            IN  IF whole = {} THEN <<n>>
                ELSE <<n>> \o from[nodes[n].edges[Min(whole)].child]
    IN  from[1]

AddOrderedNodes ==
    /\ phase = "order" /\ next <= Len(entries)
    /\ ordered' = ordered \o SelectSeq(Path(entries[next].name),
                                       LAMBDA n : ~Contains(ordered, n))
    /\ next' = next + 1
    /\ UNCHANGED <<entries, phase, nodes, more, stream>>

AllOrdered ==
    /\ phase = "order" /\ next > Len(entries)
    /\ phase' = "layout"
    /\ UNCHANGED <<entries, next, nodes, ordered, more, stream>>

\* the bytes of what is exported, its flags taking one
InfoSize(e) ==
    CASE e.kind = "regular"  -> 1 + UlebSize(e.address)
      [] e.kind = "resolver" -> 1 + UlebSize(e.address) + UlebSize(e.other)
      [] e.kind = "reexport" -> 1 + UlebSize(e.other) + Len(e.import) + 1

\* the children of a node with their names and offsets
ChildrenSize(edges) ==
    FoldLeft(LAMBDA size, e : size + Len(e.sub) + 1 + UlebSize(nodes[e.child].offset), 1, edges)

\* what the layout takes the size of a node to be
NodeSize(node) ==
    ChildrenSize(node.edges)
    + (IF node.entry = 0 THEN 1
       ELSE LET size == InfoSize(entries[node.entry]) IN UlebSize(size) + size)

\* a node of the round was not where it was before
Moved(offsets) == \E k \in DOMAIN offsets : offsets[k] # nodes[ordered[k]].offset

\* where each of the ordered nodes begins if the nodes have these sizes
Offsets(Size(_)) ==
    FoldLeft(LAMBDA at, k : Append(at, at[k - 1] + Size(ordered[k - 1])),
             <<0>>, [k \in 1 .. Len(ordered) - 1 |-> k + 1])

\* one round: each node begins where the one before it ends.  The children's
\* offsets a size is worked out from are those of this round if the child is
\* ordered before its parent, and of the last round if it is ordered after it,
\* as children are.
UpdateOffsets ==
    /\ phase = "layout"
    /\ \E offsets \in {Offsets(LAMBDA n : NodeSize(nodes[n]))} :
           /\ more' = Moved(offsets)
           /\ nodes' = [n \in DOMAIN nodes |->
                  IF Contains(ordered, n)
                  THEN [nodes[n] EXCEPT !.offset = offsets[SelectInSeq(ordered, LAMBDA m : m = n)]]
                  ELSE nodes[n]]
           /\ phase' = IF Moved(offsets) THEN "layout" ELSE "append"
    /\ UNCHANGED <<entries, next, ordered, stream>>

-----------------------------------------------------------------------------
(* The stream. *)

\* the size of the exported information is written as one byte
AppendedSize(node) ==
    ChildrenSize(node.edges)
    + (IF node.entry = 0 THEN 1 ELSE 1 + InfoSize(entries[node.entry]))

Appended(node) ==
    [size     |-> IF node.entry = 0 THEN 0 ELSE InfoSize(entries[node.entry]),
     entry    |-> node.entry,
     children |-> [k \in DOMAIN node.edges |->
                      Edge(node.edges[k].sub, nodes[node.edges[k].child].offset)]]

AppendToStream ==
    /\ phase = "append"
    /\ \E positions \in {Offsets(LAMBDA n : AppendedSize(nodes[n]))} :
           stream' = [p \in {positions[k] : k \in DOMAIN ordered} |->
                         Appended(nodes[ordered[SelectInSeq(positions, LAMBDA q : q = p)]])]
    /\ phase' = "done"
    /\ UNCHANGED <<entries, next, nodes, ordered, more>>

-----------------------------------------------------------------------------

TrieInit ==
    /\ entries \in Exports
    /\ phase = "add" /\ next = 1
    /\ nodes = <<TrieNode(<<>>, <<>>, 0)>>
    /\ ordered = <<>>
    /\ more = FALSE
    /\ stream = <<>>

TrieNext ==
    AddSymbol \/ AllAdded \/ AddOrderedNodes \/ AllOrdered \/ UpdateOffsets \/ AppendToStream

TrieSpec == TrieInit /\ [][TrieNext]_trieVars /\ WF_trieVars(TrieNext)
-----------------------------------------------------------------------------
(* Reading the stream: parseTrie. *)

\* a size of more than one byte is misread, as is a node where none begins;
\* edges lead forward
Readable(p) ==
    /\ p \in DOMAIN stream /\ stream[p].size < UlebUnit
    /\ \A k \in DOMAIN stream[p].children :
           stream[p].children[k].child \in p + 1 .. Max(DOMAIN stream)

\* the entries found from position p on with the names they are found under;
\* an entry of 0 if the reader loses its way
ProcessExportNode(p) ==
    LET found[q \in 0 .. Max(DOMAIN stream)] ==
            IF ~Readable(q) THEN {<<<<>>, 0>>}
            ELSE (IF stream[q].entry = 0 THEN {} ELSE {<<<<>>, stream[q].entry>>})
                 \cup UNION {LET e == stream[q].children[k] IN
                             {<<e.sub \o f[1], f[2]>> : f \in found[e.child]} :
                             k \in DOMAIN stream[q].children}
    IN  found[p]

ParsedTrie == IF entries = <<>> THEN {} ELSE ProcessExportNode(0)

-----------------------------------------------------------------------------
(* Properties. *)

\* The layout comes to an end, and a reader of the stream finds every exported
\* name with its entry, and nothing else (makeTrie against parseTrie).
ReaderFindsExports ==
    <>(/\ phase = "done"
       /\ ParsedTrie = {<<entries[n].name, n>> : n \in DOMAIN entries})

\* The offsets the nodes were given are where they are: the sizes that the
\* layout took them to have are the sizes written ("overall node size so far is
\* uleb128 of export info + export info", updateOffset and appendToStream).
NodesWhereLaidOut ==
    phase = "done" => DOMAIN stream = {nodes[n].offset : n \in DOMAIN nodes}
=============================================================================
