\* Pages of one row, three rows that may be listed, two writes of this browser
\* and one of another: enough for a page that shifts under a refetch, a rename
\* over a rename, a write answered while a page is being read.  Deadlock is not
\* checked: writes are made once.
SPECIFICATION FolderSpec
CONSTANTS
    w1 = w1
    w2 = w2
    w3 = w3
    NoCursor = NoCursor
    NoName = 0
    PageLimit = 1
    Nodes <- MCNodes
    Kind <- MCKind
    RowNames <- MCRowNames
    Wanted <- MCWanted
    InitNames <- MCInitNames
    Own <- MCOwn
    Others <- MCOthers
SYMMETRY Symmetric
INVARIANTS
    FolderTypeOK
    UnwrittenRowsListedOnce
    ShownNamesAreReal
    AnsweredWritesShow
CHECK_DEADLOCK FALSE
