\* Two requests and four tokens: room for a rotation race, a grace sibling
\* and a further rotation; a clock long enough for a token to expire.
\* Deadlock is not checked: the behaviour stops when the clock is at its
\* bound and every token has been deleted.
CONSTANTS
    Tokens = {t1, t2, t3, t4}
    Families = {f1}
    Requests = {q1, q2}
    None = None
    Ttl = 2
    Cap = 3
    Grace = 1
    MaxTime = 3
SPECIFICATION Spec
SYMMETRY Symmetry
INVARIANTS
    OneHeadPerChain
    SessionsEndByTheCap
    EndedSessionsStayEnded
PROPERTY SiblingsInheritTheExpiry
CHECK_DEADLOCK FALSE
