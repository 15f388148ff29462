\* A move out of a folder while it is deleted.
SPECIFICATION Spec
CONSTANTS
    Files = {f1}
    Root = root
    Sub = sub
    Folders = {root, sub}
    Anc <- MCAnc
    Requests = {r1, r2}
    None = None
    UrlTtl = 0
    ReservationTtl = 1
    SweepBatch = 1
    MaxFaults = 0
INVARIANT OnlyRemovedFilesAreReleased
CHECK_DEADLOCK FALSE
