------------------------ MODULE RefreshTokens_proofs ------------------------
(***************************************************************************)
(* Machine-checked proofs about RefreshTokens, for any number of tokens,   *)
(* sign-ins and concurrent requests and for every lifetime, cap and grace  *)
(* window.                                                                 *)
(***************************************************************************)
EXTENDS RefreshTokens, TLAPS

USE DEF requestVars, vars

\* A new row is a row, and it expires by the cap of its sign-in.
LEMMA NewRowIsRow ==
    ASSUME NEW f \in Families, NEW s \in Nat, NEW e \in Nat
    PROVE  NewRow(f, s, e) \in Row /\ NewRow(f, s, e) # None
  BY NoneAssumption DEF NewRow, Row

LEMMA ExpiryBounds ==
    ASSUME NEW now \in Nat, NEW s \in Nat
    PROVE  Expiry(now, s) \in Nat /\ Expiry(now, s) <= s + Cap
  BY TimesAssumption DEF Expiry, Earlier

\* A sibling expires by the cap of its sign-in and by its ceiling.
LEMMA SiblingExpiryBounds ==
    ASSUME TypeOK, NEW q \in Requests, pc[q] = "mint"
    PROVE  /\ seen[q] \in Row
           /\ SiblingExpiry(q) \in Nat
           /\ SiblingExpiry(q) <= ceiling[q]
           /\ SiblingExpiry(q) <= seen[q].familyStartedAt + Cap
<1>1. RequestOK(q) /\ clock \in Nat
  BY TimesAssumption DEF TypeOK
<1>2. seen[q] \in Row /\ ceiling[q] \in Nat
  BY <1>1 DEF RequestOK
<1>3. seen[q].familyStartedAt \in Nat
  BY <1>2 DEF Row
<1> DEFINE e == Expiry(clock, seen[q].familyStartedAt)
<1>4. e \in Nat /\ e <= seen[q].familyStartedAt + Cap
  BY <1>1, <1>3, ExpiryBounds
<1> HIDE DEF e
<1>5. SiblingExpiry(q) = Earlier(e, ceiling[q])
  BY DEF SiblingExpiry, e
<1> QED
  BY <1>2, <1>3, <1>4, <1>5, TimesAssumption DEF Earlier

\* What the link does to a row.
LEMMA LinkedRow ==
    ASSUME NEW x \in Row, NEW n \in Tokens, NEW now \in Nat
    PROVE  /\ Linked(x, n, now) \in Row
           /\ Linked(x, n, now) # None
           /\ Linked(x, n, now).family = x.family
           /\ Linked(x, n, now).familyStartedAt = x.familyStartedAt
           /\ Linked(x, n, now).expiresAt = x.expiresAt
           /\ Linked(x, n, now).replacedBy = n
           /\ Linked(x, n, now).revokedAt = now
<1>1. Linked(x, n, now) \in Row
  BY DEF Row, Linked
<1>2. Linked(x, n, now).family = x.family /\ Linked(x, n, now).familyStartedAt = x.familyStartedAt
  BY DEF Row, Linked
<1>3. Linked(x, n, now).expiresAt = x.expiresAt
  BY DEF Row, Linked
<1>4. Linked(x, n, now).replacedBy = n /\ Linked(x, n, now).revokedAt = now
  BY DEF Row, Linked
<1> QED
  BY <1>1, <1>2, <1>3, <1>4, NoneAssumption DEF Row, Linked

\* What a rotation writes: the successor, the predecessor's link, no other row.
LEMMA RotationWrites ==
    ASSUME TypeOK, NEW p \in Tokens, NEW n \in Tokens, NEW r \in Row,
           NEW now \in Nat, Exists(p), n # p,
           row' = [row EXCEPT ![n] = r, ![p] = Linked(row[p], n, now)]
    PROVE  /\ row' \in [Tokens -> Row \cup {None}]
           /\ row'[n] = r
           /\ row'[p] \in Row
           /\ row'[p] = Linked(row[p], n, now)
           /\ \A t \in Tokens \ {n, p} : row'[t] = row[t]
<1>1. row[p] \in Row
  BY DEF TypeOK, Exists
<1>2. Linked(row[p], n, now) \in Row
  BY <1>1, LinkedRow
<1> QED
  BY <1>1, <1>2 DEF TypeOK

\* What a revocation writes: revokedAt of the family's unrevoked rows.
LEMMA RevocationWrites ==
    ASSUME TypeOK, NEW f \in Families, NEW now \in Nat, RevokeFamily(f, now)
    PROVE  /\ row' \in [Tokens -> Row \cup {None}]
           /\ \A t \in Tokens :
                \/ row'[t] = row[t] /\ (t \in RowsOf(f) => row[t].revokedAt # None)
                \/ /\ t \in RowsOf(f)
                   /\ row[t] \in Row
                   /\ row'[t] = [row[t] EXCEPT !.revokedAt = now]
                   /\ row'[t] \in Row
<1>1. ASSUME NEW t \in Tokens
      PROVE  \/ row'[t] = row[t] /\ (t \in RowsOf(f) => row[t].revokedAt # None)
             \/ /\ t \in RowsOf(f)
                /\ row[t] \in Row
                /\ row'[t] = [row[t] EXCEPT !.revokedAt = now]
                /\ row'[t] \in Row
  <2>1. CASE t \in RowsOf(f) /\ row[t].revokedAt = None
    <3>1. row[t] \in Row
      BY <2>1 DEF TypeOK, RowsOf, Exists
    <3>2. [row[t] EXCEPT !.revokedAt = now] \in Row
      BY <3>1 DEF Row
    <3> QED
      BY <2>1, <3>1, <3>2 DEF RevokeFamily
  <2>2. CASE ~(t \in RowsOf(f) /\ row[t].revokedAt = None)
    BY <2>2 DEF RevokeFamily
  <2> QED
    BY <2>1, <2>2
<1>2. row' = [t \in Tokens |-> row'[t]]
  BY DEF RevokeFamily
<1> QED
  BY <1>1, <1>2 DEF TypeOK

-----------------------------------------------------------------------------
(* Type correctness *)

LEMMA TypeInvariantInit == Init => TypeOK
  BY TimesAssumption DEF Init, TypeOK, Step, RequestOK

LEMMA AnswerKeepsTypes ==
    ASSUME TypeOK, NEW q \in Requests, Answer(q), clock' = clock
    PROVE  /\ pc' \in [Requests -> Step]
           /\ presented' \in [Requests -> Tokens \cup {None}]
           /\ seen' \in [Requests -> Row \cup {None}]
           /\ at' \in [Requests -> Nat \cup {None}]
           /\ ceiling' \in [Requests -> Nat \cup {None}]
           /\ \A r \in Requests : RequestOK(r)'
  BY DEF TypeOK, Answer, Step, RequestOK

LEMMA TypeInvariantStep == TypeOK /\ [Next]_vars => TypeOK'
<1> SUFFICES ASSUME TypeOK, [Next]_vars PROVE TypeOK'
  OBVIOUS
<1> USE NoneAssumption, TimesAssumption
<1>1. CASE \E f \in Families : Issue(f)
  <2> PICK f \in Families : Issue(f)
    BY <1>1
  <2> PICK t \in Tokens : /\ row' = [row EXCEPT ![t] = NewRow(f, clock, Expiry(clock, clock))]
                          /\ chain' = [chain EXCEPT ![t] = t]
    BY DEF Issue
  <2>1. NewRow(f, clock, Expiry(clock, clock)) \in Row
    BY NewRowIsRow, ExpiryBounds DEF TypeOK
  <2> QED
    BY <2>1 DEF Issue, TypeOK, RequestOK
<1>2. CASE \E q \in Requests : RequestStep(q)
  <2> PICK q \in Requests : RequestStep(q)
    BY <1>2
  <2>1. ASSUME NEW t \in Tokens, Refresh(q, t) \/ SignOut(q, t) PROVE TypeOK'
    BY <2>1 DEF Refresh, SignOut, Find, TypeOK, RequestOK, Step, Exists
  <2>2. CASE Decide(q)
    <3>1. CASE Answer(q)
      BY <2>2, <3>1, AnswerKeepsTypes DEF Decide, TypeOK
    <3>2. CASE ~Answer(q)
      BY <2>2, <3>2 DEF Decide, TypeOK, RequestOK, Step, AlreadyRotated, InGrace, Row
    <3> QED
      BY <3>1, <3>2
  <2>3. CASE RotateWins(q)
    <3> PICK n \in Tokens :
          /\ Fresh(n)
          /\ row' = [row EXCEPT ![n] = SuccessorRow(q),
                                ![presented[q]] = Linked(@, n, at[q])]
          /\ chain' = [chain EXCEPT ![n] = chain[presented[q]]]
      BY <2>3 DEF RotateWins
    <3>1. SuccessorRow(q) \in Row
      <4>1. seen[q] \in Row /\ at[q] \in Nat
        BY <2>3 DEF RotateWins, TypeOK, RequestOK
      <4>2. seen[q].family \in Families /\ seen[q].familyStartedAt \in Nat
        BY <4>1 DEF Row
      <4> QED
        BY <4>1, <4>2, NewRowIsRow, ExpiryBounds DEF SuccessorRow
    <3>2. row' \in [Tokens -> Row \cup {None}]
      <4>1. presented[q] \in Tokens /\ at[q] \in Nat /\ row[presented[q]] \in Row
        BY <2>3 DEF RotateWins, Linkable, Unspent, Exists, TypeOK, RequestOK
      <4>2. CASE n # presented[q]
        BY <2>3, <3>1, <4>1, <4>2, RotationWrites DEF RotateWins, Linkable, Unspent
      <4>3. CASE n = presented[q]
        BY <3>1, <4>1, <4>3, LinkedRow DEF TypeOK
      <4> QED
        BY <4>2, <4>3
    <3> QED
      BY <2>3, <3>2, AnswerKeepsTypes DEF RotateWins, TypeOK, RequestOK
  <2>4. CASE RotateLoses(q)
    BY <2>4 DEF RotateLoses, TypeOK, RequestOK, Step
  <2>5. CASE Reread(q)
    <3>1. CASE Answer(q)
      BY <2>5, <3>1, AnswerKeepsTypes DEF Reread, TypeOK
    <3>2. CASE ~Answer(q)
      BY <2>5, <3>2 DEF Reread, TypeOK, RequestOK, Step, AlreadyRotated, InGrace, Row, Exists
    <3> QED
      BY <3>1, <3>2
  <2>6. CASE FindSuccessor(q)
    BY <2>6 DEF FindSuccessor, TypeOK, RequestOK, Step, Usable, Row, Exists
  <2>7. CASE MintSibling(q)
    <3> PICK n \in Tokens :
          /\ row' = [row EXCEPT ![n] = NewRow(seen[q].family, seen[q].familyStartedAt,
                                              SiblingExpiry(q))]
          /\ chain' = [chain EXCEPT ![n] = n]
      BY <2>7 DEF MintSibling
    <3>1. SiblingExpiry(q) \in Nat /\ seen[q] \in Row
      BY <2>7, SiblingExpiryBounds DEF MintSibling
    <3>2. row' \in [Tokens -> Row \cup {None}]
      BY <3>1, NewRowIsRow DEF TypeOK, Row
    <3> QED
      BY <2>7, <3>2, AnswerKeepsTypes DEF MintSibling, TypeOK
  <2>8. CASE RevokeReused(q)
    <3>1. seen[q].family \in Families /\ at[q] \in Nat
      BY <2>8 DEF RevokeReused, TypeOK, RequestOK, Row
    <3> QED
      BY <2>8, <3>1, RevocationWrites, AnswerKeepsTypes
      DEF RevokeReused, RevokeFamily, TypeOK
  <2>9. CASE EndSession(q)
    <3>1. seen[q].family \in Families /\ clock \in Nat
      BY <2>9 DEF EndSession, TypeOK, RequestOK, Row
    <3> QED
      BY <2>9, <3>1, RevocationWrites, AnswerKeepsTypes
      DEF EndSession, RevokeFamily, TypeOK
  <2>10. CASE RequestFails(q)
    BY <2>10, AnswerKeepsTypes DEF RequestFails, TypeOK
  <2> QED
    BY <2>1, <2>2, <2>3, <2>4, <2>5, <2>6, <2>7, <2>8, <2>9, <2>10 DEF RequestStep
<1>3. CASE DeleteExpired
  BY <1>3 DEF DeleteExpired, TypeOK, RequestOK
<1>4. CASE Tick
  BY <1>4 DEF Tick, TypeOK, RequestOK
<1>5. CASE UNCHANGED vars
  BY <1>5 DEF TypeOK, RequestOK
<1> QED
  BY <1>1, <1>2, <1>3, <1>4, <1>5 DEF Next

\* Every variable keeps its type in every reachable state.
THEOREM TokensTypeCorrect == Spec => []TypeOK
  BY TypeInvariantInit, TypeInvariantStep, PTL DEF Spec

-----------------------------------------------------------------------------
(* The inductive invariant *)

LEMMA IInvInit == Init => IInv
<1> SUFFICES ASSUME Init PROVE IInv
  OBVIOUS
<1>1. TypeOK
  BY TypeInvariantInit
<1>2. \A t \in Tokens : ~Exists(t) /\ chain[t] = None
  BY DEF Init, Exists
<1>3. \A q \in Requests : pc[q] = "idle"
  BY DEF Init
<1>4. ended = {}
  BY DEF Init
<1> QED
  BY <1>1, <1>2, <1>3, <1>4
  DEF IInv, RowsAgree, ChainsAreRooted, OneHeadPerChain, Unspent, RequestsAgree,
      NobodyIssuesIntoEnded, EndedSessionsStayEnded, CeilingIsCovered

\* What a request reads is a row of the table, with all a row satisfies.
LEMMA FindKeepsIInv ==
    ASSUME IInv, TypeOK', NEW q \in Requests, NEW t \in Tokens,
           Refresh(q, t) \/ SignOut(q, t)
    PROVE  IInv'
<1>1. /\ pc'[q] \in {"decide", "endSession"} /\ presented'[q] = t /\ seen'[q] = row[t]
      /\ Exists(t) /\ pc[q] = "idle"
      /\ \A x \in Requests \ {q} :
           /\ pc'[x] = pc[x] /\ presented'[x] = presented[x] /\ seen'[x] = seen[x]
      /\ UNCHANGED <<row, clock, at, ceiling, startedAt, chain, ended, raced>>
  BY DEF Refresh, SignOut, Find, IInv, TypeOK
<1>2. RowsAgree'
  BY <1>1 DEF IInv, RowsAgree, RowAgrees, Exists
<1>3. ChainsAreRooted' /\ OneHeadPerChain' /\ EndedSessionsStayEnded'
  BY <1>1 DEF IInv, ChainsAreRooted, OneHeadPerChain, Unspent, EndedSessionsStayEnded,
              RowsOf, Exists
<1>4. RequestsAgree'
  BY <1>1 DEF IInv, RequestsAgree, ChainsAreRooted, Exists
<1>5. \A f \in ended \ raced : f = row[t].family => row[t].revokedAt # None
  BY <1>1 DEF IInv, EndedSessionsStayEnded, RowsOf
<1>6. NobodyIssuesIntoEnded'
  BY <1>1, <1>5 DEF IInv, NobodyIssuesIntoEnded, CanStillIssue
<1>7. CeilingIsCovered'
  BY <1>1 DEF IInv, CeilingIsCovered, RowsOf, Exists
<1> QED
  BY <1>2, <1>3, <1>4, <1>6, <1>7 DEF IInv

LEMMA DecideKeepsIInv ==
    ASSUME IInv, TypeOK', NEW q \in Requests, Decide(q)
    PROVE  IInv'
<1> USE NoneAssumption, TimesAssumption
    DEF IInv, TypeOK, RequestOK, Decide, Answer, Refused, AlreadyRotated
<1>1. RowsAgree'
  BY DEF RowsAgree, RowAgrees, Exists
<1>2. ChainsAreRooted'
  BY DEF ChainsAreRooted, Exists
<1>3. OneHeadPerChain'
  BY DEF OneHeadPerChain, Unspent, Exists
<1>4. RequestsAgree'
  BY DEF RequestsAgree, Exists
<1>5. NobodyIssuesIntoEnded'
  BY DEF NobodyIssuesIntoEnded, CanStillIssue
<1>6. EndedSessionsStayEnded'
  BY DEF EndedSessionsStayEnded, RowsOf, Exists
<1>7. CeilingIsCovered'
  BY DEF CeilingIsCovered, RowsOf, Exists
<1> QED
  BY <1>1, <1>2, <1>3, <1>4, <1>5, <1>6, <1>7

LEMMA RotateLosesKeepsIInv ==
    ASSUME IInv, TypeOK', NEW q \in Requests, RotateLoses(q)
    PROVE  IInv'
<1> USE NoneAssumption, TimesAssumption
    DEF IInv, TypeOK, RequestOK, RotateLoses
<1>1. RowsAgree'
  BY DEF RowsAgree, RowAgrees, Exists
<1>2. ChainsAreRooted'
  BY DEF ChainsAreRooted, Exists
<1>3. OneHeadPerChain'
  BY DEF OneHeadPerChain, Unspent, Exists
<1>4. RequestsAgree'
  BY DEF RequestsAgree, Exists
<1>5. NobodyIssuesIntoEnded'
  BY DEF NobodyIssuesIntoEnded, CanStillIssue
<1>6. EndedSessionsStayEnded'
  BY DEF EndedSessionsStayEnded, RowsOf, Exists
<1>7. CeilingIsCovered'
  BY DEF CeilingIsCovered, RowsOf, Exists
<1> QED
  BY <1>1, <1>2, <1>3, <1>4, <1>5, <1>6, <1>7

LEMMA RereadKeepsIInv ==
    ASSUME IInv, TypeOK', NEW q \in Requests, Reread(q)
    PROVE  IInv'
<1> USE NoneAssumption, TimesAssumption
    DEF IInv, TypeOK, RequestOK, Reread, Answer, AlreadyRotated
<1>1. RowsAgree'
  BY DEF RowsAgree, RowAgrees, Exists
<1>2. ChainsAreRooted'
  BY DEF ChainsAreRooted, Exists
<1>3. OneHeadPerChain'
  BY DEF OneHeadPerChain, Unspent, Exists
<1>4. RequestsAgree'
  BY DEF RequestsAgree, Exists
<1>5. NobodyIssuesIntoEnded'
  BY DEF NobodyIssuesIntoEnded, CanStillIssue
<1>6. EndedSessionsStayEnded'
  BY DEF EndedSessionsStayEnded, RowsOf, Exists
<1>7. CeilingIsCovered'
  BY DEF CeilingIsCovered, RowsOf, Exists
<1> QED
  BY <1>1, <1>2, <1>3, <1>4, <1>5, <1>6, <1>7

\* A usable successor is a row of the family that no revocation has reached.
LEMMA FindSuccessorKeepsIInv ==
    ASSUME IInv, TypeOK', NEW q \in Requests, FindSuccessor(q)
    PROVE  IInv'
<1> PICK s \in Tokens : s = seen[q].replacedBy
  BY DEF FindSuccessor, IInv, TypeOK, RequestOK
<1>1. /\ \A x \in Requests \ {q} : pc'[x] = pc[x] /\ ceiling'[x] = ceiling[x]
      /\ UNCHANGED <<row, clock, presented, seen, at, startedAt, chain, ended, raced>>
      /\ pc[q] = "successor"
      /\ \/ pc'[q] = "revoke"
         \/ pc'[q] = "mint" /\ Usable(s, at[q]) /\ ceiling'[q] = row[s].expiresAt
  BY DEF FindSuccessor, IInv, TypeOK
<1>2. Usable(s, at[q]) => s \in RowsOf(seen[q].family) /\ row[s].revokedAt = None
  BY <1>1, NoneAssumption DEF Usable, RowsOf, IInv, RowsAgree, RowAgrees, Exists
<1>3. RowsAgree' /\ ChainsAreRooted' /\ OneHeadPerChain' /\ EndedSessionsStayEnded'
  BY <1>1 DEF IInv, RowsAgree, RowAgrees, ChainsAreRooted, OneHeadPerChain, Unspent,
              EndedSessionsStayEnded, RowsOf, Exists
<1>4. RequestsAgree'
  BY <1>1 DEF IInv, RequestsAgree, Exists
<1>5. Usable(s, at[q]) => seen[q].family \notin ended \ raced
  BY <1>2 DEF IInv, EndedSessionsStayEnded
<1>6. NobodyIssuesIntoEnded'
  BY <1>1, <1>5 DEF IInv, NobodyIssuesIntoEnded, CanStillIssue
<1>7. CeilingIsCovered'
  <2>1. ASSUME pc'[q] = "mint"
        PROVE  s \in RowsOf(seen[q].family)' /\ ceiling'[q] <= row'[s].expiresAt
    <3>1. row[s] \in Row
      BY <1>1, <1>2, <2>1 DEF RowsOf, Exists, IInv, TypeOK
    <3>2. row[s].expiresAt \in Nat
      BY <3>1 DEF Row
    <3> QED
      BY <1>1, <1>2, <2>1, <3>2 DEF RowsOf, Exists
  <2> QED
    BY <1>1, <2>1 DEF IInv, CeilingIsCovered, RowsOf, Exists
<1> QED
  BY <1>3, <1>4, <1>6, <1>7 DEF IInv

LEMMA RequestFailsKeepsIInv ==
    ASSUME IInv, TypeOK', NEW q \in Requests, RequestFails(q)
    PROVE  IInv'
<1> USE NoneAssumption, TimesAssumption
    DEF IInv, TypeOK, RequestOK, RequestFails, Answer
<1>1. RowsAgree'
  BY DEF RowsAgree, RowAgrees, Exists
<1>2. ChainsAreRooted'
  BY DEF ChainsAreRooted, Exists
<1>3. OneHeadPerChain'
  BY DEF OneHeadPerChain, Unspent, Exists
<1>4. RequestsAgree'
  BY DEF RequestsAgree, Exists
<1>5. NobodyIssuesIntoEnded'
  BY DEF NobodyIssuesIntoEnded, CanStillIssue
<1>6. EndedSessionsStayEnded'
  BY DEF EndedSessionsStayEnded, RowsOf, Exists
<1>7. CeilingIsCovered'
  BY DEF CeilingIsCovered, RowsOf, Exists
<1> QED
  BY <1>1, <1>2, <1>3, <1>4, <1>5, <1>6, <1>7

\* A family that signs in has no row and was never revoked.
LEMMA IssueKeepsIInv ==
    ASSUME IInv, TypeOK', NEW f \in Families, Issue(f)
    PROVE  IInv'
<1> DEFINE r == NewRow(f, clock, Expiry(clock, clock))
<1> PICK n \in Tokens : /\ Fresh(n)
                       /\ row' = [row EXCEPT ![n] = r]
                       /\ chain' = [chain EXCEPT ![n] = n]
  BY DEF Issue
<1>1. /\ r \in Row /\ r # None /\ r.family = f /\ r.familyStartedAt = clock
      /\ r.expiresAt <= clock + Cap /\ r.replacedBy = None
  BY NewRowIsRow, ExpiryBounds, TimesAssumption DEF NewRow, IInv, TypeOK
<1> HIDE DEF r
<1>2. /\ row'[n] = r /\ \A t \in Tokens \ {n} : row'[t] = row[t]
      /\ chain'[n] = n /\ \A t \in Tokens \ {n} : chain'[t] = chain[t]
  BY <1>1 DEF IInv, TypeOK
<1>3. chain[n] = None /\ ~Exists(n) /\ clock \in Nat
  BY TimesAssumption DEF Fresh, Exists, IInv, ChainsAreRooted, TypeOK
<1>4. /\ startedAt[f] = None /\ startedAt'[f] = clock
      /\ \A g \in Families \ {f} : startedAt'[g] = startedAt[g]
      /\ UNCHANGED <<clock, requestVars, ended, raced>>
  BY DEF Issue, IInv, TypeOK
<1>5. \A x \in Row : RowAgrees(x) => x.family # f /\ RowAgrees(x)'
  <2> SUFFICES ASSUME NEW x \in Row, RowAgrees(x)
               PROVE  x.family # f /\ RowAgrees(x)'
    OBVIOUS
  <2>1. x.family \in Families /\ x.familyStartedAt \in Nat
        /\ x.replacedBy \in Tokens \cup {None}
    BY DEF Row
  <2>2. x.family # f
    BY <2>1, <1>4, NoneAssumption DEF RowAgrees
  <2> QED
    BY <2>1, <2>2, <1>2, <1>3, <1>4, NoneAssumption DEF RowAgrees, Exists
<1>6. \A t \in Tokens : Exists(t) => row[t] \in Row /\ row[t].family # f
  BY <1>5 DEF IInv, TypeOK, RowsAgree, Exists
<1>7. \A q \in Requests : pc[q] # "idle" => seen[q] \in Row /\ seen[q].family # f
  BY <1>5 DEF IInv, TypeOK, RequestOK, RowsAgree
<1>8. f \notin ended
  BY <1>4 DEF IInv, NobodyIssuesIntoEnded
<1>9. RowsAgree'
  BY <1>1, <1>2, <1>3, <1>4, <1>5, <1>6, <1>7, NoneAssumption
  DEF IInv, RowsAgree, RowAgrees, Exists
<1>10. ChainsAreRooted'
  BY <1>2, <1>3, NoneAssumption DEF IInv, TypeOK, ChainsAreRooted, Exists
<1>11. OneHeadPerChain'
  BY <1>2, <1>3, NoneAssumption
  DEF IInv, TypeOK, ChainsAreRooted, OneHeadPerChain, Unspent, Exists
<1>12. RequestsAgree'
  BY <1>2, <1>3, <1>4, NoneAssumption DEF IInv, TypeOK, RequestOK, RequestsAgree, Exists
<1>13. NobodyIssuesIntoEnded'
  BY <1>4, NoneAssumption DEF IInv, TypeOK, NobodyIssuesIntoEnded, CanStillIssue
<1>14. EndedSessionsStayEnded'
  BY <1>1, <1>2, <1>4, <1>8 DEF IInv, EndedSessionsStayEnded, RowsOf, Exists
<1>15. CeilingIsCovered'
  BY <1>2, <1>3, <1>4 DEF IInv, CeilingIsCovered, RowsOf, Exists
<1> QED
  BY <1>9, <1>10, <1>11, <1>12, <1>13, <1>14, <1>15 DEF IInv

\* The successor takes the predecessor's place as the head of the chain.
LEMMA RotateWinsKeepsIInv ==
    ASSUME IInv, TypeOK', NEW q \in Requests, RotateWins(q)
    PROVE  IInv'
<1> PICK p \in Tokens : p = presented[q]
  BY DEF RotateWins, IInv, TypeOK, RequestOK
<1>a. PICK r : r = SuccessorRow(q)
  OBVIOUS
<1>b. PICK n \in Tokens :
      /\ Fresh(n)
      /\ row' = [row EXCEPT ![n] = r, ![p] = Linked(row[p], n, at[q])]
      /\ chain' = [chain EXCEPT ![n] = chain[p]]
  BY <1>a DEF RotateWins
<1>1. /\ pc[q] = "rotate" /\ p \in Tokens /\ seen[q] \in Row /\ at[q] \in Nat
      /\ RowAgrees(seen[q]) /\ seen[q].revokedAt = None
      /\ chain[p] # None /\ Unspent(p) /\ row[p].family = seen[q].family
  BY DEF RotateWins, IInv, TypeOK, RequestOK, RowsAgree, RequestsAgree, Linkable, Unspent
<1>2. /\ r \in Row /\ r # None /\ r.family = seen[q].family
      /\ r.familyStartedAt = seen[q].familyStartedAt
      /\ r.expiresAt <= r.familyStartedAt + Cap
      /\ r.replacedBy = None /\ r.revokedAt = None
  <2>1. seen[q].family \in Families /\ seen[q].familyStartedAt \in Nat
    BY <1>1 DEF Row
  <2>2. r = NewRow(seen[q].family, seen[q].familyStartedAt,
                   Expiry(at[q], seen[q].familyStartedAt))
    BY <1>a DEF SuccessorRow
  <2> QED
    BY <1>1, <2>1, <2>2, NewRowIsRow, ExpiryBounds DEF NewRow
<1>3. chain[n] = None /\ ~Exists(n) /\ n # p
  BY <1>1, <1>b DEF Fresh, Exists, IInv, ChainsAreRooted
<1>4. /\ row'[n] = r
      /\ row'[p] \in Row
      /\ row'[p] = Linked(row[p], n, at[q])
      /\ \A t \in Tokens \ {n, p} : row'[t] = row[t]
  <2>1. TypeOK /\ Exists(p) /\ at[q] \in Nat /\ r \in Row
    BY <1>1, <1>2 DEF Unspent, IInv
  <2> QED
    BY <2>1, <1>3, <1>b, RotationWrites
<1>5. row[p] \in Row
  BY <1>1 DEF Unspent, Exists, IInv, TypeOK
<1>6. /\ Exists(n)' /\ Exists(p)' /\ Exists(p) /\ row'[n] = r
      /\ \A u \in Tokens \ {n} : Exists(u)' <=> Exists(u)
      /\ \A u \in Tokens \ {n, p} : row'[u] = row[u]
      /\ row'[p].family = row[p].family
      /\ row'[p].familyStartedAt = row[p].familyStartedAt
      /\ row'[p].expiresAt = row[p].expiresAt
      /\ row'[p].replacedBy = n /\ row'[p].revokedAt = at[q]
  <2>1. at[q] \in Nat /\ row'[p] = Linked(row[p], n, at[q])
    BY <1>1, <1>4
  <2>2. /\ row'[p] # None
        /\ row'[p].family = row[p].family
        /\ row'[p].familyStartedAt = row[p].familyStartedAt
        /\ row'[p].expiresAt = row[p].expiresAt
        /\ row'[p].replacedBy = n /\ row'[p].revokedAt = at[q]
    BY <2>1, <1>5, LinkedRow
  <2>3. row'[n] = r /\ r # None /\ Exists(p)
    BY <1>1, <1>2, <1>4 DEF Unspent
  <2>4. \A u \in Tokens \ {n, p} : row'[u] = row[u]
    BY <1>4
  <2> QED
    BY <2>2, <2>3, <2>4 DEF Exists
<1>7. /\ chain'[n] = chain[p] /\ chain[p] \in Tokens
      /\ \A t \in Tokens \ {n} : chain'[t] = chain[t]
  BY <1>1, <1>b DEF IInv, TypeOK
<1>8. /\ \A x \in Requests \ {q} :
           /\ pc'[x] = pc[x] /\ presented'[x] = presented[x]
           /\ seen'[x] = seen[x] /\ ceiling'[x] = ceiling[x]
      /\ pc'[q] = "idle"
      /\ UNCHANGED <<clock, startedAt, ended, raced>>
  BY DEF RotateWins, Answer, IInv, TypeOK
<1>9. \A x \in Row : RowAgrees(x) => RowAgrees(x)'
  <2> SUFFICES ASSUME NEW x \in Row, RowAgrees(x) PROVE RowAgrees(x)'
    OBVIOUS
  <2>1. x.replacedBy \in Tokens \cup {None}
    BY DEF Row
  <2> QED
    BY <2>1, <1>3, <1>6, <1>7, <1>8 DEF RowAgrees
<1>10. RowsAgree'
  <2>1. RowAgrees(row[n])'
    BY <1>1, <1>2, <1>4, <1>8 DEF RowAgrees
  <2>2. RowAgrees(row[p])
    BY <1>1 DEF IInv, RowsAgree, Unspent
  <2>3. RowAgrees(row[p])'
    BY <1>1, <1>2, <1>4, <1>6, <1>7, <1>8, <2>2 DEF RowAgrees
  <2>4. \A t \in Tokens \ {n, p} : Exists(t)' => RowAgrees(row[t])'
    BY <1>4, <1>9 DEF IInv, RowsAgree, RowAgrees, Exists, TypeOK
  <2>5. \A x \in Requests : pc'[x] # "idle" => RowAgrees(seen[x])'
    BY <1>8, <1>9 DEF IInv, RowsAgree, RowAgrees, Exists, TypeOK, RequestOK
  <2> QED
    BY <2>1, <2>3, <2>4, <2>5 DEF RowsAgree
<1>11. ChainsAreRooted'
  <2>1. chain[chain[p]] # None
    BY <1>1, <1>7 DEF IInv, ChainsAreRooted
  <2>2. \A t \in Tokens : chain[t] # None => chain[t] \in Tokens /\ chain[chain[t]] # None
    BY DEF IInv, ChainsAreRooted, TypeOK
  <2>3. \A t \in Tokens : chain'[t] # None => chain'[chain'[t]] # None
    BY <2>1, <2>2, <1>3, <1>7
  <2>4. \A t \in Tokens : Exists(t)' => chain'[t] # None
    BY <1>1, <1>3, <1>4, <1>7 DEF IInv, ChainsAreRooted, Exists
  <2> QED
    BY <2>3, <2>4 DEF ChainsAreRooted
<1>12. OneHeadPerChain'
  <2>1. /\ ~Unspent(p)' /\ Unspent(p) /\ chain'[n] = chain[p]
        /\ \A u \in Tokens \ {n, p} : /\ Unspent(u)' <=> Unspent(u)
                                      /\ chain'[u] = chain[u]
    BY <1>1, <1>6, <1>7, NoneAssumption DEF Unspent, Exists
  <2> QED
    BY <2>1 DEF IInv, OneHeadPerChain
<1>13. RequestsAgree'
  <2>1. \A x \in Requests : pc[x] # "idle" => presented[x] \in Tokens
    BY DEF IInv, TypeOK, RequestOK
  <2> QED
    BY <1>3, <1>6, <1>7, <1>8, <2>1 DEF IInv, RequestsAgree
<1>14. NobodyIssuesIntoEnded'
  BY <1>8 DEF IInv, NobodyIssuesIntoEnded, CanStillIssue
<1>15. r.family \notin ended \ raced
  BY <1>1, <1>2 DEF IInv, NobodyIssuesIntoEnded, CanStillIssue
<1>16. EndedSessionsStayEnded'
  <2>1. at[q] # None
    BY <1>1, NoneAssumption
  <2> QED
    BY <2>1, <1>6, <1>8, <1>15 DEF IInv, EndedSessionsStayEnded, RowsOf
<1>17. CeilingIsCovered'
  <2>1. \A f \in Families : \A u \in RowsOf(f) :
          u \in RowsOf(f)' /\ row'[u].expiresAt = row[u].expiresAt
    BY <1>3, <1>6 DEF RowsOf
  <2>2. \A x \in Requests : pc[x] = "mint" => seen[x].family \in Families
    BY DEF IInv, TypeOK, RequestOK, Row
  <2> QED
    BY <2>1, <2>2, <1>8 DEF IInv, CeilingIsCovered
<1> QED
  BY <1>10, <1>11, <1>12, <1>13, <1>14, <1>16, <1>17 DEF IInv

\* The sibling starts a chain of its own.
LEMMA MintSiblingKeepsIInv ==
    ASSUME IInv, TypeOK', NEW q \in Requests, MintSibling(q)
    PROVE  IInv'
<1> DEFINE r == NewRow(seen[q].family, seen[q].familyStartedAt, SiblingExpiry(q))
<1> PICK n \in Tokens : /\ Fresh(n)
                       /\ row' = [row EXCEPT ![n] = r]
                       /\ chain' = [chain EXCEPT ![n] = n]
  BY DEF MintSibling
<1>1. pc[q] = "mint" /\ seen[q] \in Row /\ RowAgrees(seen[q])
  BY DEF MintSibling, IInv, TypeOK, RequestOK, RowsAgree
<1>2. /\ r \in Row /\ r # None /\ r.family = seen[q].family
      /\ r.familyStartedAt = seen[q].familyStartedAt
      /\ r.expiresAt <= r.familyStartedAt + Cap
      /\ r.replacedBy = None /\ r.revokedAt = None
  <2>1. seen[q].family \in Families /\ seen[q].familyStartedAt \in Nat
    BY <1>1 DEF Row
  <2> QED
    BY <1>1, <2>1, NewRowIsRow, SiblingExpiryBounds DEF NewRow, IInv
<1>3. chain[n] = None /\ ~Exists(n)
  BY DEF Fresh, Exists, IInv, ChainsAreRooted
<1> HIDE DEF r
<1>4. /\ row'[n] = r /\ \A t \in Tokens \ {n} : row'[t] = row[t]
      /\ chain'[n] = n /\ \A t \in Tokens \ {n} : chain'[t] = chain[t]
  BY <1>2 DEF IInv, TypeOK
<1>5. /\ \A x \in Requests \ {q} :
           /\ pc'[x] = pc[x] /\ presented'[x] = presented[x]
           /\ seen'[x] = seen[x] /\ ceiling'[x] = ceiling[x]
      /\ pc'[q] = "idle"
      /\ UNCHANGED <<clock, startedAt, ended, raced>>
  BY DEF MintSibling, Answer, IInv, TypeOK
<1>6. \A x \in Row : RowAgrees(x) => RowAgrees(x)'
  <2> SUFFICES ASSUME NEW x \in Row, RowAgrees(x) PROVE RowAgrees(x)'
    OBVIOUS
  <2>1. x.replacedBy \in Tokens \cup {None}
    BY DEF Row
  <2> QED
    BY <2>1, <1>3, <1>4, <1>5 DEF RowAgrees, Exists
<1>7. RowsAgree'
  <2>1. RowAgrees(row[n])'
    BY <1>1, <1>2, <1>4, <1>5 DEF RowAgrees
  <2>2. \A t \in Tokens \ {n} : Exists(t)' => RowAgrees(row[t])'
    BY <1>4, <1>6 DEF IInv, RowsAgree, RowAgrees, Exists, TypeOK
  <2>3. \A x \in Requests : pc'[x] # "idle" => RowAgrees(seen[x])'
    BY <1>5, <1>6 DEF IInv, RowsAgree, RowAgrees, Exists, TypeOK, RequestOK
  <2> QED
    BY <2>1, <2>2, <2>3 DEF RowsAgree
<1>8. ChainsAreRooted'
  BY <1>3, <1>4, NoneAssumption DEF IInv, TypeOK, ChainsAreRooted, Exists
<1>9. OneHeadPerChain'
  <2>1. \A t \in Tokens : Exists(t) => chain[t] # n
    BY <1>3 DEF IInv, ChainsAreRooted
  <2> QED
    BY <2>1, <1>3, <1>4 DEF IInv, OneHeadPerChain, Unspent, Exists
<1>10. RequestsAgree'
  <2>1. \A x \in Requests : pc[x] # "idle" => presented[x] \in Tokens
    BY DEF IInv, TypeOK, RequestOK
  <2> QED
    BY <1>3, <1>4, <1>5, <2>1 DEF IInv, RequestsAgree, Exists
<1>11. NobodyIssuesIntoEnded'
  BY <1>5 DEF IInv, NobodyIssuesIntoEnded, CanStillIssue
<1>12. r.family \notin ended \ raced
  BY <1>1, <1>2 DEF IInv, NobodyIssuesIntoEnded, CanStillIssue
<1>13. EndedSessionsStayEnded'
  BY <1>2, <1>4, <1>5, <1>12 DEF IInv, EndedSessionsStayEnded, RowsOf, Exists
<1>14. CeilingIsCovered'
  BY <1>3, <1>4, <1>5 DEF IInv, CeilingIsCovered, RowsOf, Exists
<1> QED
  BY <1>7, <1>8, <1>9, <1>10, <1>11, <1>13, <1>14 DEF IInv

\* Sign-out and reuse detection: every row of the family is revoked now, and
\* whoever could still insert one is counted as racing.
LEMMA RevocationKeepsIInv ==
    ASSUME IInv, TypeOK', NEW q \in Requests, NEW now \in Nat,
           pc[q] # "idle", RevokeFamily(seen[q].family, now), Answer(q),
           UNCHANGED <<clock, startedAt, chain>>
    PROVE  IInv'
<1> DEFINE f == seen[q].family
<1>1. f \in Families /\ RowAgrees(seen[q]) /\ startedAt[f] # None
  <2>1. seen[q] \in Row /\ RowAgrees(seen[q])
    BY DEF IInv, TypeOK, RequestOK, RowsAgree
  <2>2. seen[q].family \in Families /\ seen[q].familyStartedAt \in Nat
    BY <2>1 DEF Row
  <2> QED
    BY <2>1, <2>2, NoneAssumption DEF RowAgrees
<1>2. \A t \in Tokens :
        \/ row'[t] = row[t] /\ (t \in RowsOf(f) => row[t].revokedAt # None)
        \/ /\ t \in RowsOf(f)
           /\ row[t] \in Row /\ row'[t] \in Row
           /\ row'[t] = [row[t] EXCEPT !.revokedAt = now]
  BY <1>1, RevocationWrites DEF IInv
<1>3. \A t \in Tokens :
        /\ Exists(t)' <=> Exists(t)
        /\ Exists(t) => /\ row'[t].family = row[t].family
                        /\ row'[t].familyStartedAt = row[t].familyStartedAt
                        /\ row'[t].expiresAt = row[t].expiresAt
                        /\ row'[t].replacedBy = row[t].replacedBy
                        /\ row[t].revokedAt # None => row'[t].revokedAt # None
                        /\ row[t].family = f => row'[t].revokedAt # None
  <2> TAKE t \in Tokens
  <2>1. CASE row'[t] = row[t] /\ (t \in RowsOf(f) => row[t].revokedAt # None)
    BY <2>1 DEF Exists, RowsOf
  <2>2. CASE /\ t \in RowsOf(f)
             /\ row[t] \in Row /\ row'[t] \in Row
             /\ row'[t] = [row[t] EXCEPT !.revokedAt = now]
    <3>1. row[t] # None /\ row'[t] # None
      BY <2>2, NoneAssumption DEF Row
    <3> QED
      BY <2>2, <3>1, NoneAssumption DEF Exists, Row
  <2> QED
    BY <1>2, <2>1, <2>2
<1>4. /\ \A x \in Requests \ {q} :
           /\ pc'[x] = pc[x] /\ presented'[x] = presented[x]
           /\ seen'[x] = seen[x] /\ ceiling'[x] = ceiling[x]
      /\ pc'[q] = "idle"
  BY DEF Answer, IInv, TypeOK
<1>5. /\ ended' = ended \cup {f}
      /\ raced \subseteq raced'
      /\ f \in raced' \/ \A x \in Requests : ~CanStillIssue(x, f)
  BY DEF RevokeFamily
<1> HIDE DEF f
<1>6. \A x \in Row : RowAgrees(x) => RowAgrees(x)'
  <2> SUFFICES ASSUME NEW x \in Row, RowAgrees(x) PROVE RowAgrees(x)'
    OBVIOUS
  <2>1. x.replacedBy \in Tokens \cup {None}
    BY DEF Row
  <2> QED
    BY <2>1, <1>3 DEF RowAgrees
<1>7. RowsAgree'
  <2>1. ASSUME NEW t \in Tokens, Exists(t)' PROVE RowAgrees(row[t])'
    <3>1. row[t] \in Row /\ RowAgrees(row[t])
      BY <2>1, <1>3 DEF IInv, RowsAgree, TypeOK, Exists
    <3>2. row[t].replacedBy \in Tokens \cup {None}
      BY <3>1 DEF Row
    <3> QED
      BY <3>1, <3>2, <2>1, <1>3 DEF RowAgrees
  <2>2. \A x \in Requests : pc'[x] # "idle" => RowAgrees(seen[x])'
    BY <1>4, <1>6 DEF IInv, RowsAgree, RowAgrees, Exists, TypeOK, RequestOK
  <2> QED
    BY <2>1, <2>2 DEF RowsAgree
<1>8. ChainsAreRooted'
  BY <1>3 DEF IInv, ChainsAreRooted
<1>9. OneHeadPerChain'
  BY <1>3 DEF IInv, OneHeadPerChain, Unspent
<1>10. RequestsAgree'
  <2>1. \A x \in Requests : pc[x] # "idle" => presented[x] \in Tokens
    BY DEF IInv, TypeOK, RequestOK
  <2> QED
    BY <1>3, <1>4, <2>1 DEF IInv, RequestsAgree
<1>11. NobodyIssuesIntoEnded'
  BY <1>1, <1>4, <1>5 DEF IInv, NobodyIssuesIntoEnded, CanStillIssue
<1>12. EndedSessionsStayEnded'
  BY <1>3, <1>5 DEF IInv, EndedSessionsStayEnded, RowsOf
<1>13. CeilingIsCovered'
  BY <1>3, <1>4 DEF IInv, CeilingIsCovered, RowsOf
<1> QED
  BY <1>7, <1>8, <1>9, <1>10, <1>11, <1>12, <1>13 DEF IInv

\* Only rows whose lifetime is over go.
LEMMA DeleteExpiredKeepsIInv ==
    ASSUME IInv, TypeOK', DeleteExpired
    PROVE  IInv'
<1>1. \A t \in Tokens :
        \/ row'[t] = row[t]
        \/ row'[t] = None /\ Exists(t) /\ row[t].expiresAt <= clock
  BY DEF DeleteExpired
<1>2. UNCHANGED <<clock, requestVars, startedAt, chain, ended, raced>>
  BY DEF DeleteExpired
<1>3. \A x \in Row : RowAgrees(x) => RowAgrees(x)'
  <2> SUFFICES ASSUME NEW x \in Row, RowAgrees(x) PROVE RowAgrees(x)'
    OBVIOUS
  <2>1. x.replacedBy \in Tokens \cup {None}
    BY DEF Row
  <2> QED
    BY <2>1, <1>1, <1>2 DEF RowAgrees, Exists
<1>4. RowsAgree'
  <2>1. \A t \in Tokens : Exists(t)' => RowAgrees(row[t])'
    BY <1>1, <1>3 DEF IInv, RowsAgree, RowAgrees, Exists, TypeOK
  <2>2. \A x \in Requests : pc'[x] # "idle" => RowAgrees(seen[x])'
    BY <1>2, <1>3 DEF IInv, RowsAgree, RowAgrees, Exists, TypeOK, RequestOK
  <2> QED
    BY <2>1, <2>2 DEF RowsAgree
<1>5. ChainsAreRooted'
  BY <1>1, <1>2 DEF IInv, ChainsAreRooted, Exists
<1>6. OneHeadPerChain'
  BY <1>1, <1>2 DEF IInv, OneHeadPerChain, Unspent, Exists
<1>7. RequestsAgree'
  BY <1>1, <1>2 DEF IInv, TypeOK, RequestOK, RequestsAgree, Exists
<1>8. NobodyIssuesIntoEnded'
  BY <1>2 DEF IInv, NobodyIssuesIntoEnded, CanStillIssue
<1>9. EndedSessionsStayEnded'
  BY <1>1, <1>2 DEF IInv, EndedSessionsStayEnded, RowsOf, Exists
<1>10. CeilingIsCovered'
  <2> SUFFICES ASSUME NEW q \in Requests, pc[q] = "mint",
                      NEW t \in RowsOf(seen[q].family), ceiling[q] <= row[t].expiresAt
               PROVE  \/ ceiling[q] <= clock
                      \/ t \in RowsOf(seen[q].family)' /\ row'[t] = row[t]
    BY <1>2 DEF IInv, CeilingIsCovered, RowsOf
  <2>1. CASE row'[t] = row[t]
    BY <2>1, <1>2 DEF RowsOf, Exists
  <2>2. CASE row[t].expiresAt <= clock
    <3>1. row[t] \in Row /\ ceiling[q] \in Nat /\ clock \in Nat
      BY TimesAssumption DEF IInv, TypeOK, RequestOK, RowsOf, Exists
    <3>2. row[t].expiresAt \in Nat
      BY <3>1 DEF Row
    <3> QED
      BY <2>2, <3>1, <3>2
  <2> QED
    BY <2>1, <2>2, <1>1 DEF RowsOf
<1> QED
  BY <1>4, <1>5, <1>6, <1>7, <1>8, <1>9, <1>10 DEF IInv

LEMMA TickKeepsIInv ==
    ASSUME IInv, TypeOK', Tick
    PROVE  IInv'
<1> USE NoneAssumption, TimesAssumption
    DEF IInv, TypeOK, RequestOK, Tick
<1>1. RowsAgree'
  BY DEF RowsAgree, RowAgrees, Exists
<1>2. ChainsAreRooted'
  BY DEF ChainsAreRooted, Exists
<1>3. OneHeadPerChain'
  BY DEF OneHeadPerChain, Unspent, Exists
<1>4. RequestsAgree'
  BY DEF RequestsAgree, Exists
<1>5. NobodyIssuesIntoEnded'
  BY DEF NobodyIssuesIntoEnded, CanStillIssue
<1>6. EndedSessionsStayEnded'
  BY DEF EndedSessionsStayEnded, RowsOf, Exists
<1>7. CeilingIsCovered'
  BY DEF CeilingIsCovered, RowsOf, Exists
<1> QED
  BY <1>1, <1>2, <1>3, <1>4, <1>5, <1>6, <1>7

LEMMA IInvStep == IInv /\ [Next]_vars => IInv'
<1> SUFFICES ASSUME IInv, [Next]_vars PROVE IInv'
  OBVIOUS
<1>1. TypeOK'
  BY TypeInvariantStep DEF IInv
<1>2. CASE \E f \in Families : Issue(f)
  BY <1>1, <1>2, IssueKeepsIInv
<1>3. CASE \E q \in Requests : RequestStep(q)
  <2> PICK q \in Requests : RequestStep(q)
    BY <1>3
  <2>1. CASE RevokeReused(q)
    <3>1. at[q] \in Nat
      BY <2>1 DEF RevokeReused, IInv, TypeOK, RequestOK
    <3> QED
      BY <1>1, <2>1, <3>1, RevocationKeepsIInv DEF RevokeReused
  <2>2. CASE EndSession(q)
    <3>1. clock \in Nat
      BY TimesAssumption DEF IInv, TypeOK
    <3> QED
      BY <1>1, <2>2, <3>1, RevocationKeepsIInv DEF EndSession
  <2> QED
    BY <1>1, <2>1, <2>2, FindKeepsIInv, DecideKeepsIInv, RotateWinsKeepsIInv,
       RotateLosesKeepsIInv, RereadKeepsIInv, FindSuccessorKeepsIInv,
       MintSiblingKeepsIInv, RequestFailsKeepsIInv
    DEF RequestStep
<1>4. CASE DeleteExpired
  BY <1>1, <1>4, DeleteExpiredKeepsIInv
<1>5. CASE Tick
  BY <1>1, <1>5, TickKeepsIInv
<1>6. CASE UNCHANGED vars
  BY <1>1, <1>6
  DEF IInv, RowsAgree, RowAgrees, ChainsAreRooted, OneHeadPerChain, Unspent,
      RequestsAgree, NobodyIssuesIntoEnded, CanStillIssue, EndedSessionsStayEnded,
      CeilingIsCovered, RowsOf, Exists
<1> QED
  BY <1>2, <1>3, <1>4, <1>5, <1>6 DEF Next

LEMMA InductiveInvariant == Spec => []IInv
  BY IInvInit, IInvStep, PTL DEF Spec

-----------------------------------------------------------------------------
(* The properties *)

\* A rotation has one winner, however many requests present the cookie.
THEOREM OneWinnerPerRotation == Spec => []OneHeadPerChain
<1>1. IInv => OneHeadPerChain
  BY DEF IInv
<1> QED
  BY <1>1, InductiveInvariant, PTL

\* No token outlives the absolute cap of its sign-in.
THEOREM CapHolds == Spec => []SessionsEndByTheCap
<1>1. IInv => SessionsEndByTheCap
  BY DEF IInv, RowsAgree, RowAgrees, SessionsEndByTheCap
<1> QED
  BY <1>1, InductiveInvariant, PTL

\* A family revoked while nobody could still issue into it stays dead.
THEOREM EndedStaysEnded == Spec => []EndedSessionsStayEnded
<1>1. IInv => EndedSessionsStayEnded
  BY DEF IInv
<1> QED
  BY <1>1, InductiveInvariant, PTL

\* Every step: a token that starts a chain in a signed-in family is a sibling,
\* and its ceiling was covered when it was minted.
LEMMA SiblingsInheritTheExpiryStep ==
    ASSUME IInv, [Next]_vars, NEW n \in Tokens,
           chain[n] = None, chain'[n] = n,
           startedAt[row'[n].family] # None
    PROVE  \/ row'[n].expiresAt <= clock
           \/ \E t \in RowsOf(row'[n].family) : row'[n].expiresAt <= row[t].expiresAt
<1>1. ASSUME NEW f \in Families, Issue(f) PROVE FALSE
  <2> PICK t \in Tokens : /\ row' = [row EXCEPT ![t] = NewRow(f, clock, Expiry(clock, clock))]
                         /\ chain' = [chain EXCEPT ![t] = t]
    BY <1>1 DEF Issue
  <2>1. t = n
    BY NoneAssumption DEF IInv, TypeOK
  <2>2. row'[n].family = f
    BY <2>1 DEF IInv, TypeOK, NewRow
  <2> QED
    BY <1>1, <2>2 DEF Issue
<1>2. ASSUME NEW q \in Requests, RotateWins(q) PROVE FALSE
  <2>1. /\ presented[q] \in Tokens /\ chain[presented[q]] # None
        /\ chain[chain[presented[q]]] # None
    BY <1>2 DEF RotateWins, IInv, TypeOK, RequestOK, RequestsAgree, ChainsAreRooted
  <2>2. chain'[n] = chain[n] \/ chain'[n] = chain[presented[q]]
    BY <1>2 DEF RotateWins, IInv, TypeOK
  <2> QED
    BY <2>1, <2>2, NoneAssumption
<1>3. ASSUME NEW q \in Requests, MintSibling(q)
      PROVE  \/ row'[n].expiresAt <= clock
             \/ \E t \in RowsOf(row'[n].family) : row'[n].expiresAt <= row[t].expiresAt
  <2> DEFINE r == NewRow(seen[q].family, seen[q].familyStartedAt, SiblingExpiry(q))
  <2>1. PICK m \in Tokens : /\ row' = [row EXCEPT ![m] = r]
                            /\ chain' = [chain EXCEPT ![m] = m]
    BY <1>3 DEF MintSibling
  <2>2. m = n
    BY <2>1, NoneAssumption DEF IInv, TypeOK
  <2>3. row'[n] = r
    BY <2>1, <2>2 DEF IInv, TypeOK
  <2>4. row'[n].family = seen[q].family /\ row'[n].expiresAt = SiblingExpiry(q)
    BY <2>3 DEF NewRow
  <2> HIDE DEF r
  <2>5. pc[q] = "mint" /\ SiblingExpiry(q) \in Nat /\ SiblingExpiry(q) <= ceiling[q]
    BY <1>3, SiblingExpiryBounds DEF MintSibling, IInv
  <2>6. ceiling[q] \in Nat /\ clock \in Nat
    BY <2>5, TimesAssumption DEF IInv, TypeOK, RequestOK
  <2>7. \A f \in Families : \A t \in RowsOf(f) : row[t].expiresAt \in Nat
    <3> TAKE f \in Families
    <3> TAKE t \in RowsOf(f)
    <3>1. row[t] \in Row
      BY DEF RowsOf, Exists, IInv, TypeOK
    <3> QED
      BY <3>1 DEF Row
  <2>8. seen[q].family \in Families
    BY <2>5 DEF IInv, TypeOK, RequestOK, Row
  <2>9. CASE ceiling[q] <= clock
    BY <2>4, <2>5, <2>6, <2>9
  <2>10. CASE \E t \in RowsOf(seen[q].family) : ceiling[q] <= row[t].expiresAt
    BY <2>4, <2>5, <2>6, <2>7, <2>8, <2>10
  <2> QED
    BY <2>5, <2>9, <2>10 DEF IInv, CeilingIsCovered
<1>4. CASE UNCHANGED chain
  BY <1>4, NoneAssumption
<1>5. UNCHANGED chain \/ (\E f \in Families : Issue(f))
        \/ (\E q \in Requests : RotateWins(q) \/ MintSibling(q))
  BY DEF Next, RequestStep, Refresh, SignOut, Find, Decide, RotateLoses, Reread,
         FindSuccessor, RevokeReused, EndSession, RequestFails, DeleteExpired, Tick
<1> QED
  BY <1>1, <1>2, <1>3, <1>4, <1>5

\* The token a replay is handed inside the grace window has the lifetime of a
\* token its family had, not a fresh one; what it is rotated into may live longer.
THEOREM SiblingsInherit == Spec => SiblingsInheritTheExpiry
<1> DEFINE Step1 ==
      \A n \in Tokens :
        /\ chain[n] = None
        /\ chain'[n] = n
        /\ startedAt[row'[n].family] # None
        => \/ row'[n].expiresAt <= clock
           \/ \E t \in RowsOf(row'[n].family) : row'[n].expiresAt <= row[t].expiresAt
<1>1. IInv /\ [Next]_vars => [Step1]_vars
  BY SiblingsInheritTheExpiryStep
<1> QED
  BY <1>1, InductiveInvariant, PTL DEF Spec, SiblingsInheritTheExpiry
=============================================================================
