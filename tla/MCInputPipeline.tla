--------------------------- MODULE MCInputPipeline ---------------------------
(* Instances of InputPipeline for TLC. *)
EXTENDS InputPipeline

\* Every mixture of files with distinct names, all on the command line or all but
\* the first from the file list.
MCDistinctLines ==
    [kind : [Slots -> Kinds], path : {[s \in Slots |-> s]},
     fromFileList : {{}, Slots \ {0}}]

\* Command lines whose files all come from the file list, two of them perhaps
\* by the same name.
MCListedLines ==
    [kind : [Slots -> {"object", "badFile"}],
     path : {[s \in Slots |-> IF s = t THEN 0 ELSE s] : t \in Slots},
     fromFileList : {Slots, Slots \ {0}}]

MCLines == MCDistinctLines \cup MCListedLines

\* Command lines that parse, but for one file.
MCOneBadLine ==
    [kind : {[s \in Slots |-> IF s = 0 THEN "badFile" ELSE "object"]},
     path : {[s \in Slots |-> s]}, fromFileList : {{}}]

MCPaths == Slots
=============================================================================
