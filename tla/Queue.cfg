\* Three rows for two slots: row 3 waits behind rows 1 and 2, which the user
\* cancels, retries and dismisses over their old runs; an old run and a new one
\* of one row may hold both slots.  A counter that let a third run start would
\* differ from the number of runs.  No symmetry with liveness.  Deadlock is not
\* checked: the user may dismiss every row.
CONSTANTS
    MaxItems = 3
    Concurrency = 2
    HonoursAbort = FALSE
    Handled = {1, 2}
    Runs = {r1, r2}
    None = None
SPECIFICATION FairSpec
INVARIANTS
    RunningCountsRuns
    NoIdleSlot
    StoppedRowsStayStopped
    RowsTellTheTruth
PROPERTY UploadsEnd
CHECK_DEADLOCK FALSE
