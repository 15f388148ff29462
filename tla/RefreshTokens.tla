--------------------------- MODULE RefreshTokens ---------------------------
(***************************************************************************)
(* Refresh-token rotation in the API: the rows of refresh_tokens, the      *)
(* sign-ins that start a family of them, the refresh requests that rotate  *)
(* a token or mint a sibling inside the grace window, reuse detection, and *)
(* sign-out.                                                               *)
(*                                                                         *)
(* One step of a request is one call to the store, so what a request has   *)
(* read may be stale when it writes; PrismaRefreshTokenStore.rotate is one *)
(* transaction and one step.  A token stands for its row, its hash and the *)
(* plaintext in a cookie: any token ever issued can be presented again, by *)
(* the client that kept it or by somebody else.                            *)
(***************************************************************************)
EXTENDS Naturals

CONSTANTS
    Tokens,    \* token ids; a bound on how many tokens are ever issued
    Families,  \* one family per sign-in
    Requests,  \* refresh and sign-out requests in progress at one time
    None,      \* SQL NULL, and the row of a token that does not exist
    Ttl,       \* REFRESH_TOKEN_TTL_SECONDS, in ticks of the model's clock
    Cap,       \* ABSOLUTE_SESSION_MAX_SECONDS, in ticks
    Grace,     \* REFRESH_ROTATION_GRACE_SECONDS, in ticks
    MaxTime    \* bound: the last instant of the model's clock

ASSUME NoneAssumption ==
    /\ None \notin Nat
    /\ None \notin Tokens
    /\ None \notin [family : Families, familyStartedAt : Nat, expiresAt : Nat,
                    revokedAt : Nat \cup {None},
                    replacedBy : Tokens \cup {None}]

ASSUME TimesAssumption ==
    /\ Ttl \in Nat \ {0}
    /\ Cap \in Nat \ {0}
    /\ Grace \in Nat
    /\ MaxTime \in Nat

VARIABLES
    row,        \* row[t]: the row of token t
    clock,      \* the API's clock
    pc,         \* pc[q]: the next call request q makes
    presented,  \* presented[q]: the token in q's cookie
    seen,       \* seen[q]: the row of that token as q read it
    at,         \* at[q]: the instant q took as "now"
    ceiling,    \* ceiling[q]: the expiry a grace sibling may not exceed
    startedAt,  \* history: when family f signed in
    chain,      \* history: the sign-in or grace token t descends from
    ended,      \* history: families whose revocation has run
    raced       \* history: those it ran on while a request could still issue

requestVars == <<pc, presented, seen, at, ceiling>>
vars == <<row, clock, requestVars, startedAt, chain, ended, raced>>

Row == [family : Families, familyStartedAt : Nat, expiresAt : Nat,
        revokedAt : Nat \cup {None}, replacedBy : Tokens \cup {None}]

Step == {"idle", "decide", "rotate", "reread", "successor", "mint",
         "revoke", "endSession"}

\* What request q still has to remember: nothing when it is idle.
RequestOK(q) ==
    /\ pc[q] # "idle" => presented[q] \in Tokens /\ seen[q] \in Row
    /\ pc[q] \notin {"idle", "decide", "endSession"} => at[q] \in 0 .. clock
    /\ pc[q] = "successor" => seen[q].replacedBy \in Tokens
    /\ pc[q] = "mint" => ceiling[q] \in Nat

TypeOK ==
    /\ row \in [Tokens -> Row \cup {None}]
    /\ clock \in 0 .. MaxTime
    /\ pc \in [Requests -> Step]
    /\ presented \in [Requests -> Tokens \cup {None}]
    /\ seen \in [Requests -> Row \cup {None}]
    /\ at \in [Requests -> Nat \cup {None}]
    /\ ceiling \in [Requests -> Nat \cup {None}]
    /\ \A q \in Requests : RequestOK(q)
    /\ startedAt \in [Families -> Nat \cup {None}]
    /\ chain \in [Tokens -> Tokens \cup {None}]
    /\ ended \subseteq Families
    /\ raced \subseteq Families

Init ==
    /\ row = [t \in Tokens |-> None]
    /\ clock = 0
    /\ pc = [q \in Requests |-> "idle"]
    /\ presented = [q \in Requests |-> None]
    /\ seen = [q \in Requests |-> None]
    /\ at = [q \in Requests |-> None]
    /\ ceiling = [q \in Requests |-> None]
    /\ startedAt = [f \in Families |-> None]
    /\ chain = [t \in Tokens |-> None]
    /\ ended = {}
    /\ raced = {}

-----------------------------------------------------------------------------
(* Reading and writing rows *)

Exists(t) == row[t] # None
Fresh(t) == chain[t] = None
RowsOf(f) == {t \in Tokens : Exists(t) /\ row[t].family = f}

Earlier(a, b) == IF a <= b THEN a ELSE b

\* newRefreshToken: the idle timeout or the cap of the sign-in, the earlier.
Expiry(now, started) == Earlier(now + Ttl, started + Cap)

NewRow(family, started, expires) ==
    [family |-> family, familyStartedAt |-> started, expiresAt |-> expires,
     revokedAt |-> None, replacedBy |-> None]

\* A request that has answered keeps nothing.
Answer(q) ==
    /\ pc' = [pc EXCEPT ![q] = "idle"]
    /\ presented' = [presented EXCEPT ![q] = None]
    /\ seen' = [seen EXCEPT ![q] = None]
    /\ at' = [at EXCEPT ![q] = None]
    /\ ceiling' = [ceiling EXCEPT ![q] = None]

\* Requests that would still insert a token into f without another read:
\* a sibling about to be minted, or a token they read as live and unspent.
CanStillIssue(q, f) ==
    /\ pc[q] # "idle"
    /\ seen[q].family = f
    /\ \/ pc[q] = "mint"
       \/ pc[q] \in {"decide", "rotate"} /\ seen[q].revokedAt = None

RevokeFamily(f, now) ==
    /\ row' = [t \in Tokens |->
                 IF t \in RowsOf(f) /\ row[t].revokedAt = None
                 THEN [row[t] EXCEPT !.revokedAt = now] ELSE row[t]]
    /\ ended' = ended \cup {f}
    /\ raced' = IF \E q \in Requests : CanStillIssue(q, f)
                THEN raced \cup {f} ELSE raced

-----------------------------------------------------------------------------
(* Sign-in *)

\* AuthService.startSession -> TokenService.issue: a family and its first
\* token.  The family id is a fresh uuid.
Issue(f) ==
    /\ startedAt[f] = None
    /\ startedAt' = [startedAt EXCEPT ![f] = clock]
    /\ \E t \in Tokens :
         /\ Fresh(t)
         /\ row' = [row EXCEPT ![t] = NewRow(f, clock, Expiry(clock, clock))]
         /\ chain' = [chain EXCEPT ![t] = t]
    /\ UNCHANGED <<clock, requestVars, ended, raced>>

-----------------------------------------------------------------------------
(* Refresh: TokenService.rotate *)

\* The two requests that carry the cookie start with findByTokenHash.  An
\* unknown token is refused (or ignored, on sign-out) and changes nothing.
Find(q, t, next) ==
    /\ pc[q] = "idle"
    /\ Exists(t)
    /\ pc' = [pc EXCEPT ![q] = next]
    /\ presented' = [presented EXCEPT ![q] = t]
    /\ seen' = [seen EXCEPT ![q] = row[t]]
    /\ UNCHANGED <<row, clock, at, ceiling, startedAt, chain, ended, raced>>

Refresh(q, t) == Find(q, t, "decide")
SignOut(q, t) == Find(q, t, "endSession")

\* liveSuccessor, up to its read: the window applies to a linked row whose
\* rotation is at most Grace old.
InGrace(r, now) ==
    /\ r.revokedAt # None
    /\ now <= r.revokedAt + Grace
    /\ r.replacedBy # None

\* rotateAlreadyRotated: look the successor up, or revoke the family.
AlreadyRotated(r, now) == IF InGrace(r, now) THEN "successor" ELSE "revoke"

Refused(q) ==
    \/ seen[q].expiresAt <= clock
    \/ seen[q].replacedBy = None /\ seen[q].revokedAt # None

\* The branch rotate takes on the row it read and the instant it reads then.
Decide(q) ==
    /\ pc[q] = "decide"
    /\ \/ /\ Refused(q)
          /\ Answer(q)
       \/ /\ ~Refused(q)
          /\ pc' = [pc EXCEPT ![q] =
                      IF seen[q].replacedBy = None THEN "rotate"
                      ELSE AlreadyRotated(seen[q], clock)]
          /\ at' = [at EXCEPT ![q] = clock]
          /\ UNCHANGED <<presented, seen, ceiling>>
    /\ UNCHANGED <<row, clock, startedAt, chain, ended, raced>>

Unspent(t) == Exists(t) /\ row[t].replacedBy = None

\* mutant: the UPDATE's WHERE names the id and forgets replacedById: null
LinkAnyRow(t) == Exists(t)

\* The WHERE of the store's link: the predecessor, while it is unspent.
Linkable(t) == Unspent(t)

\* mutant: the successor's family clock starts again at the rotation
SuccessorOfFreshFamily(q) ==
    NewRow(seen[q].family, at[q], Expiry(at[q], at[q]))

SuccessorRow(q) ==
    NewRow(seen[q].family, seen[q].familyStartedAt,
           Expiry(at[q], seen[q].familyStartedAt))

Linked(r, successor, now) ==
    [r EXCEPT !.replacedBy = successor, !.revokedAt = now]

\* store.rotate: insert the successor and spend the predecessor.
RotateWins(q) ==
    /\ pc[q] = "rotate"
    /\ Linkable(presented[q])
    /\ \E n \in Tokens :
         /\ Fresh(n)
         /\ row' = [row EXCEPT ![n] = SuccessorRow(q),
                               ![presented[q]] = Linked(@, n, at[q])]
         /\ chain' = [chain EXCEPT ![n] = chain[presented[q]]]
    /\ Answer(q)
    /\ UNCHANGED <<clock, startedAt, ended, raced>>

\* Zero rows linked: the transaction takes its successor back.
RotateLoses(q) ==
    /\ pc[q] = "rotate"
    /\ ~Linkable(presented[q])
    /\ pc' = [pc EXCEPT ![q] = "reread"]
    /\ UNCHANGED <<row, clock, presented, seen, at, ceiling, startedAt, chain,
                   ended, raced>>

\* The loser reads the row again and keeps the instant it had taken.
Reread(q) ==
    /\ pc[q] = "reread"
    /\ \/ /\ ~Exists(presented[q])
          /\ Answer(q)
       \/ /\ Exists(presented[q])
          /\ seen' = [seen EXCEPT ![q] = row[presented[q]]]
          /\ pc' = [pc EXCEPT ![q] = AlreadyRotated(row[presented[q]], at[q])]
          /\ UNCHANGED <<presented, at, ceiling>>
    /\ UNCHANGED <<row, clock, startedAt, chain, ended, raced>>

\* mutant: liveSuccessor forgets that a revoked successor is a dead session
UsableIfUnexpired(t, now) == Exists(t) /\ row[t].expiresAt > now

Usable(t, now) ==
    /\ Exists(t)
    /\ row[t].revokedAt = None
    /\ row[t].expiresAt > now

\* liveSuccessor's findById.
FindSuccessor(q) ==
    /\ pc[q] = "successor"
    /\ LET s == seen[q].replacedBy IN
       \/ /\ Usable(s, at[q])
          /\ pc' = [pc EXCEPT ![q] = "mint"]
          /\ ceiling' = [ceiling EXCEPT ![q] = row[s].expiresAt]
       \/ /\ ~Usable(s, at[q])
          /\ pc' = [pc EXCEPT ![q] = "revoke"]
          /\ UNCHANGED ceiling
    /\ UNCHANGED <<row, clock, presented, seen, at, startedAt, chain,
                   ended, raced>>

\* mutant: the sibling gets a full fresh lifetime
SiblingUncapped(q) == Expiry(clock, seen[q].familyStartedAt)

SiblingExpiry(q) ==
    Earlier(Expiry(clock, seen[q].familyStartedAt), ceiling[q])

\* mint: a sibling that is linked to nothing.
MintSibling(q) ==
    /\ pc[q] = "mint"
    /\ \E n \in Tokens :
         /\ Fresh(n)
         /\ row' = [row EXCEPT ![n] =
                      NewRow(seen[q].family, seen[q].familyStartedAt,
                             SiblingExpiry(q))]
         /\ chain' = [chain EXCEPT ![n] = n]
    /\ Answer(q)
    /\ UNCHANGED <<clock, startedAt, ended, raced>>

\* A replay: the family dies at the instant the request took as now.
RevokeReused(q) ==
    /\ pc[q] = "revoke"
    /\ RevokeFamily(seen[q].family, at[q])
    /\ Answer(q)
    /\ UNCHANGED <<clock, startedAt, chain>>

-----------------------------------------------------------------------------
(* Sign-out, failures, housekeeping and time *)

\* SessionService.endSession after its read.
EndSession(q) ==
    /\ pc[q] = "endSession"
    /\ RevokeFamily(seen[q].family, clock)
    /\ Answer(q)
    /\ UNCHANGED <<clock, startedAt, chain>>

\* The call fails, or the process stops: nothing is written.  A sign-out
\* swallows the error and answers as if it had succeeded.
RequestFails(q) ==
    /\ pc[q] # "idle"
    /\ Answer(q)
    /\ UNCHANGED <<row, clock, startedAt, chain, ended, raced>>

\* deleteExpired: one DELETE over expires_at <= asOf.
DeleteExpired ==
    /\ \E t \in Tokens : Exists(t) /\ row[t].expiresAt <= clock
    /\ row' = [t \in Tokens |->
                 IF Exists(t) /\ row[t].expiresAt <= clock THEN None
                 ELSE row[t]]
    /\ UNCHANGED <<clock, requestVars, startedAt, chain, ended, raced>>

Tick ==
    /\ clock < MaxTime
    /\ clock' = clock + 1
    /\ UNCHANGED <<row, requestVars, startedAt, chain, ended, raced>>

RequestStep(q) ==
    \/ \E t \in Tokens : Refresh(q, t) \/ SignOut(q, t)
    \/ Decide(q)
    \/ RotateWins(q)
    \/ RotateLoses(q)
    \/ Reread(q)
    \/ FindSuccessor(q)
    \/ MintSibling(q)
    \/ RevokeReused(q)
    \/ EndSession(q)
    \/ RequestFails(q)

Next ==
    \/ \E f \in Families : Issue(f)
    \/ \E q \in Requests : RequestStep(q)
    \/ DeleteExpired
    \/ Tick

Spec == Init /\ [][Next]_vars

-----------------------------------------------------------------------------
(* Properties *)

\* A rotation has one winner: of the tokens that descend from one sign-in or
\* one grace sibling, at most one is unspent, however many requests present
\* the same cookie at once and wherever one of them stops.
OneHeadPerChain ==
    \A s, t \in Tokens :
      Unspent(s) /\ Unspent(t) /\ chain[s] = chain[t] => s = t

\* The absolute cap is measured from the sign-in, through every rotation and
\* every grace sibling: no token outlives it.
SessionsEndByTheCap ==
    \A t \in Tokens :
      Exists(t) => row[t].expiresAt <= startedAt[row[t].family] + Cap

\* Sign-out and reuse detection end the session for good when no request was
\* between its read and its insert: no token of the family is usable again,
\* whichever tokens are presented later.
EndedSessionsStayEnded ==
    \A f \in ended \ raced :
      \A t \in RowsOf(f) : row[t].revokedAt # None

\* The token a replay is handed inside the grace window is no fresh start: a
\* token that heads a new chain in a signed-in family expires no later than a
\* token that was there, even when that one was rotated, revoked or deleted
\* after it was read.  It says nothing of what the sibling is rotated into:
\* RotateWins gives that a full lifetime, on a chain of its own, up to the cap.
SiblingsInheritTheExpiry ==
    [][\A n \in Tokens :
         /\ chain[n] = None
         /\ chain'[n] = n
         /\ startedAt[row'[n].family] # None
         => \/ row'[n].expiresAt <= clock
            \/ \E t \in RowsOf(row'[n].family) :
                 row'[n].expiresAt <= row[t].expiresAt]_vars

-----------------------------------------------------------------------------
(* The inductive invariant behind them *)

\* The row r, in the table or in a request's hands, agrees with its family
\* and points at a token of that family that was issued.
RowAgrees(r) ==
    /\ startedAt[r.family] = r.familyStartedAt
    /\ r.expiresAt <= r.familyStartedAt + Cap
    /\ r.replacedBy # None =>
         /\ chain[r.replacedBy] # None
         /\ Exists(r.replacedBy) => row[r.replacedBy].family = r.family

RowsAgree ==
    /\ \A t \in Tokens : Exists(t) => RowAgrees(row[t])
    /\ \A q \in Requests : pc[q] # "idle" => RowAgrees(seen[q])

\* A token that was ever stored has a chain, whose first token was stored.
ChainsAreRooted ==
    /\ \A t \in Tokens : Exists(t) => chain[t] # None
    /\ \A t \in Tokens : chain[t] # None => chain[chain[t]] # None

\* A request presents a token that was stored, of the family it has read.
RequestsAgree ==
    \A q \in Requests : pc[q] # "idle" =>
      /\ chain[presented[q]] # None
      /\ Exists(presented[q]) => row[presented[q]].family = seen[q].family
      /\ pc[q] = "rotate" => seen[q].revokedAt = None

\* In a family that ended with nobody racing, no request can still issue.
NobodyIssuesIntoEnded ==
    /\ \A f \in ended : startedAt[f] # None
    /\ \A f \in ended \ raced : \A q \in Requests : ~CanStillIssue(q, f)

\* The successor a sibling stands for is there, or its lifetime is over.
CeilingIsCovered ==
    \A q \in Requests : pc[q] = "mint" =>
      \/ ceiling[q] <= clock
      \/ \E t \in RowsOf(seen[q].family) : ceiling[q] <= row[t].expiresAt

IInv ==
    /\ TypeOK
    /\ RowsAgree
    /\ ChainsAreRooted
    /\ OneHeadPerChain
    /\ RequestsAgree
    /\ NobodyIssuesIntoEnded
    /\ EndedSessionsStayEnded
    /\ CeilingIsCovered
=============================================================================
