\* Two requests: two commits of one file, a commit or a move against the
\* deletion of its folder, each against the sweep.  No symmetry with liveness.
\* Deadlock is not checked: the behaviour stops when every id has been used.
SPECIFICATION FairSpec
CONSTANTS
    Files = {f1}
    Root = root
    Sub = sub
    Folders = {root, sub}
    Anc <- MCAnc
    Requests = {r1, r2}
    None = None
    UrlTtl = 0
    ReservationTtl = 1
    SweepBatch = 1
    MaxFaults = 1
INVARIANTS
    ReadyHasObject
    HeldKeysAreUnreferenced
    OrphansAreTracked
    ParentsExist
PROPERTIES
    CommittedFilesLeaveByDeletion
    ReservationsEnd
    OrphansAreCollected
CHECK_DEADLOCK FALSE
