\* Without sleep: the counterexample is a renewal that failed.
SPECIFICATION Spec
CONSTANTS
    n1 = n1
    n2 = n2
    d1 = d1
    d2 = d2
    None = None
    Names <- MCNames
    Folders <- MCFolders
    UrlTtl = 2
    RenewEarly = 1
    MaxTime = 3
    MaySleep = FALSE
PROPERTIES
    ReloadsHaveALiveUrl
CHECK_DEADLOCK FALSE
