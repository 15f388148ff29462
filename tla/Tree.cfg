\* A folder and a file in the root, two names of which one has two spellings,
\* three requests: two rivals for CONFLICT_RETRIES = 2, a family of names that
\* two probes exhaust, a folder below a folder at the depth limit.  Deadlock is
\* not checked: every request is served once.
SPECIFICATION Spec
CONSTANTS
    root = root
    d1 = d1
    d2 = d2
    f1 = f1
    f2 = f2
    f3 = f3
    r1 = r1
    r2 = r2
    r3 = r3
    None = None
    Root = root
    Folders <- MCFolders
    InitNodes <- MCInitNodes
    Files <- MCFiles
    Requests <- MCRequests
    Stems <- MCStems
    InitNames <- MCInitNames
    Asked <- MCAsked
    Fold <- MCFold
    MaxDepth = 2
    ProbeBatch = 2
    ProbeLimit = 3
    Retries = 2
    MaxSuffixes = 0
SYMMETRY Symmetric
INVARIANTS
    SiblingNamesUnique
    PathsAgree
    RefusedOnlyAfterLosing
PROPERTY MoveOnlyMoves
CHECK_DEADLOCK FALSE
