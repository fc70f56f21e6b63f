SPECIFICATION TrieSpec
CONSTANTS
    Exports <- MCLongImport
    UlebUnit = 8
INVARIANT
    NodesWhereLaidOut
CHECK_DEADLOCK FALSE
