\* Two calls in one tab while another signs out and in again; four tokens: one
\* to start with, two rotations, a new sign-in.  Deadlock is not checked: calls
\* are made once.
SPECIFICATION Spec
CONSTANTS
    t1 = t1
    t2 = t2
    me = me
    work = work
    login = login
    logout = logout
    Tabs <- MCTabs
    OldTabs <- MCOldTabs
    Calls <- MCCalls
    TabOf <- MCTabOf
    Kind <- MCKind
    MaxTokens = 4
INVARIANTS
    ReplaysNeedTwoTabs
    RefusedOnlyIfOver
    SignedOutHoldsNothing
PROPERTY CallsEnd
CHECK_DEADLOCK FALSE
