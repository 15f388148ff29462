\* A URL that lives for two ticks and is renewed after one, over three ticks:
\* the URL that a renewal brings is renewed itself.  Deadlock is not checked:
\* the clock ends and the tab is left.
SPECIFICATION Spec
CONSTANTS
    n1 = n1
    n2 = n2
    d1 = d1
    d2 = d2
    None = None
    Names <- MCNames
    Folders <- MCFolders
    UrlTtl = 2
    RenewEarly = 1
    MaxTime = 3
    MaySleep = TRUE
SYMMETRY Symmetric
INVARIANTS
    UrlsAreRenewedInTime
    HeaderFollows
PROPERTIES
    ReaderKeepsPlace
CHECK_DEADLOCK FALSE
