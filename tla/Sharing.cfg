\* A share on the folder between the root and the file and a share that may be
\* created, an owner's two requests, one read by link or with the session, a
\* clock on which the first share expires.  Deadlock is not checked: requests
\* are served once and the clock stops at its bound.
SPECIFICATION Spec
CONSTANTS
    root = root
    outer = outer
    file = file
    s1 = s1
    s2 = s2
    o1 = o1
    o2 = o2
    r1 = r1
    buyer = buyer
    Visitor = visitor
    None = none
    Folders <- MCFolders
    Files <- MCFiles
    Above <- MCAbove
    Shares <- MCShares
    Users <- MCUsers
    InitShare <- MCInitShare
    OwnerRequests <- MCOwnerRequests
    MayAsk <- MCMayAsk
    Reads <- MCReads
    MaxTime = 1
INVARIANTS
    TypeOK
    ServedWasCovered
    LinkNamesStayBelow
PROPERTY RevocationSticks
CHECK_DEADLOCK FALSE
