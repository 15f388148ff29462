------------------------------- MODULE Sharing -------------------------------
(***************************************************************************)
(* Shares of one Data Room and the two surfaces a recipient reads through. *)
(*                                                                         *)
(* The owner's requests read a share and then write it.  A recipient's     *)
(* request takes several queries, and anything may happen in between: a    *)
(* revocation, an expiry, a grant, a file moved out, a folder deleted.     *)
(* With a session the node is read first and its ancestors' shares next;   *)
(* with a link the share is read first, the grant next, then the node.     *)
(* What the response names is read last on both.                           *)
(***************************************************************************)
EXTENDS Naturals, FiniteSets, SequencesExt

CONSTANTS
    Folders, Files,
    Above,         \* Above[d]: the ids in the path of the folder d, root first
    Shares,        \* ids of shares, used or not
    Users,         \* e-mail addresses; an account's user id is its address here
    Visitor,       \* a caller without a session
    InitShare,     \* InitShare[s]: the row of s at the start, all of them restricted
    OwnerRequests, \* requests of the room's owner, each served once
    MayAsk,        \* bound: MayAsk[o], the operations an owner's request may be for
    Reads,         \* requests of recipients, each served once
    None,
    MaxTime        \* bound on the clock

Nodes == Folders \cup Files

ASSUME SharingAssumption ==
    /\ Folders \cap Files = {} /\ None \notin Nodes \cup Shares
    /\ Above \in [Folders -> Seq(Folders)]
    /\ \A d \in Folders : \A k \in DOMAIN Above[d] : Above[Above[d][k]] = SubSeq(Above[d], 1, k - 1)
    /\ \E root \in Folders : Above[root] = << >>
    /\ Visitor \notin Users
    /\ MaxTime \in Nat

\* No expiry, no revocation: later than the clock ever gets.
Never == MaxTime + 1

NoShare == [status |-> "none", node |-> None, mode |-> "RESTRICTED",
            expires |-> Never, revoked |-> Never]

ASSUME InitShareAssumption ==
    InitShare \in [Shares -> {NoShare} \cup [status : {"live"}, node : Nodes, mode : {"RESTRICTED"},
                                            expires : 1 .. Never, revoked : {Never}]]

VARIABLES
    here,      \* the nodes with a committed row
    home,      \* home[f]: the parent of the file f
    share,     \* share[s]: its row
    grant,     \* grant[s][u]: "none", "pending" (no user id) or "bound"
    accounts,  \* the addresses that have registered
    now,
    owner,     \* owner[o]: what an owner's request is about to write
    read,      \* read[r]: where a recipient's request stands and what it has read
    met        \* history: met[r], what has been true of each share since r started

treeVars == <<here, home>>
vars == <<treeVars, share, grant, accounts, now, owner, read, met>>

Time == 0 .. MaxTime

Mode == {"PUBLIC_LINK", "RESTRICTED"}

NoWrite == [op |-> "none", share |-> None, node |-> None, mode |-> "RESTRICTED",
            expires |-> Never, emails |-> {}]
NotRead == [pc |-> "idle", surface |-> "session", user |-> Visitor, node |-> None,
            path |-> << >>, share |-> None, names |-> {}]
NothingMet == [active |-> {}, granted |-> {}, above |-> {}, below |-> {}]

TypeOK ==
    /\ here \subseteq Nodes
    /\ home \in [Files -> Folders]
    /\ share \in [Shares -> [status : {"none", "live", "gone"}, node : Nodes \cup {None},
                             mode : Mode, expires : Time \cup {Never},
                             revoked : Time \cup {Never}]]
    /\ grant \in [Shares -> [Users -> {"none", "pending", "bound"}]]
    /\ accounts \subseteq Users
    /\ now \in Time
    /\ owner \in [OwnerRequests ->
                    [op : {"none", "done", "create", "revoke", "setExpiry", "addGrants", "removeGrant"},
                     share : Shares \cup {None}, node : Nodes \cup {None}, mode : Mode,
                     expires : Time \cup {Never}, emails : SUBSET Users]]
    /\ read \in [Reads ->
                   [pc : {"idle", "resolve", "grant", "locate", "respond", "served", "refused"},
                    surface : {"session", "link"}, user : Users \cup {Visitor},
                    node : Nodes \cup {None}, path : Seq(Folders),
                    share : Shares \cup {None}, names : SUBSET Nodes]]
    /\ \A r \in Reads :
          /\ read[r].pc = "grant" => read[r].user \in Users
          /\ read[r].pc \in {"grant", "locate", "respond", "served"} => read[r].share \in Shares
    /\ met \in [Reads -> [active : SUBSET Shares, granted : SUBSET Shares,
                     above : SUBSET Nodes, below : SUBSET Nodes]]

Exists(s) == share[s].status = "live"

Init ==
    /\ here = Nodes
    /\ home \in [Files -> Folders]
    /\ share = InitShare
    /\ grant = [s \in Shares |-> [u \in Users |-> IF Exists(s) THEN "pending" ELSE "none"]]
    /\ accounts = {}
    /\ now = 0
    /\ owner = [o \in OwnerRequests |-> NoWrite]
    /\ read = [r \in Reads |-> NotRead]
    /\ met = [r \in Reads |-> NothingMet]

----------------------------------------------------------------------------
(* The tree and what a share covers.                                       *)

Path(n) == IF n \in Folders THEN Above[n] ELSE Append(Above[home[n]], home[n])

\* The node's ancestors, root first, and the node.
Chain(n) == Append(Path(n), n)

\* slice(indexOf(top)): of the positions kept, those from the first that holds
\* top on.
From(ids, kept, top) == {k \in kept : \E j \in kept : j <= k /\ ids[j] = top}

\* activeShare.
ActiveShare(s) ==
    /\ Exists(s)
    /\ share[s].revoked = Never
    /\ share[s].expires > now

\* A session matches a grant bound to its user, a link also one that only
\* names the user's address.
Granted(s, u, surface) ==
    IF surface = "link"
      THEN share[s].mode = "PUBLIC_LINK" \/ (u \in accounts /\ grant[s][u] # "none")
      ELSE share[s].mode = "RESTRICTED" /\ u \in accounts /\ grant[s][u] = "bound"

----------------------------------------------------------------------------
(* The owner's requests: what is checked on reading ...                    *)

Decide(o, w) ==
    /\ owner[o].op = "none" /\ w.op \in MayAsk[o]
    /\ owner' = [owner EXCEPT ![o] = w]
    /\ UNCHANGED <<treeVars, share, grant, accounts, now, read>>

\* findOwnedNode.
Owned(n) == n \in here

\* grantEmailsFor: a public link names nobody.
Grantable(mode, emails) == mode = "PUBLIC_LINK" => emails = {}

\* parseExpiry.
FutureExpiry(e) == e > now

StartCreateShare(o, n, mode, e, emails) ==
    /\ Owned(n) /\ Grantable(mode, emails) /\ FutureExpiry(e)
    /\ Decide(o, [NoWrite EXCEPT !.op = "create", !.node = n, !.mode = mode,
                                 !.expires = e, !.emails = emails])

\* Revoking a revoked share is answered at once.
StartRevokeShare(o, s) ==
    /\ Exists(s) /\ share[s].revoked = Never
    /\ Decide(o, [NoWrite EXCEPT !.op = "revoke", !.share = s])

StartSetExpiry(o, s, e) ==
    /\ Exists(s) /\ FutureExpiry(e)
    /\ Decide(o, [NoWrite EXCEPT !.op = "setExpiry", !.share = s, !.expires = e])

StartAddGrants(o, s, emails) ==
    /\ Exists(s) /\ emails # {} /\ Grantable(share[s].mode, emails)
    /\ Decide(o, [NoWrite EXCEPT !.op = "addGrants", !.share = s, !.emails = emails])

StartRemoveGrant(o, s, u) ==
    /\ Exists(s)
    /\ Decide(o, [NoWrite EXCEPT !.op = "removeGrant", !.share = s, !.emails = {u}])

----------------------------------------------------------------------------
(* ... and what is written, by id.  A row that has gone meanwhile makes    *)
(* the request fail; nothing is written then.                              *)

Finish(o) ==
    /\ owner' = [owner EXCEPT ![o] = [NoWrite EXCEPT !.op = "done"]]
    /\ UNCHANGED <<treeVars, accounts, now, read>>

\* The foreign key refuses a node that has gone.
CreateShare(o) ==
    LET w == owner[o] IN
    /\ w.op = "create" /\ Finish(o)
    /\ \/ w.node \notin here /\ UNCHANGED <<share, grant>>
       \/ \E s \in Shares :
          /\ w.node \in here /\ share[s].status = "none"
          /\ share' = [share EXCEPT ![s] = [status |-> "live", node |-> w.node, mode |-> w.mode,
                                            expires |-> w.expires, revoked |-> Never]]
          /\ grant' = [grant EXCEPT ![s] = [u \in Users |-> IF u \in w.emails THEN "pending" ELSE "none"]]

\* Mutant: the timestamp is set whether or not there is one.
RevokeAgain(o) ==
    LET s == owner[o].share IN
    /\ owner[o].op = "revoke" /\ Finish(o)
    /\ share' = [share EXCEPT ![s].revoked = IF Exists(s) THEN now ELSE @]
    /\ UNCHANGED grant

RevokeShare(o) ==
    LET s == owner[o].share IN
    /\ owner[o].op = "revoke" /\ Finish(o)
    /\ share' = [share EXCEPT ![s].revoked = IF Exists(s) /\ @ = Never THEN now ELSE @]
    /\ UNCHANGED grant

SetExpiry(o) ==
    LET s == owner[o].share IN
    /\ owner[o].op = "setExpiry" /\ Finish(o)
    /\ share' = [share EXCEPT ![s].expires = IF Exists(s) THEN owner[o].expires ELSE @]
    /\ UNCHANGED grant

\* skipDuplicates: an address that is named already stays as it is.
AddGrants(o) ==
    LET s == owner[o].share IN
    /\ owner[o].op = "addGrants" /\ Finish(o)
    /\ grant' = [grant EXCEPT ![s] = [u \in Users |->
                    IF Exists(s) /\ u \in owner[o].emails /\ @[u] = "none" THEN "pending" ELSE @[u]]]
    /\ UNCHANGED share

\* The grant named by id may be another than the one there is by now.
RemoveGrant(o) ==
    LET s == owner[o].share IN
    /\ owner[o].op = "removeGrant" /\ Finish(o)
    /\ \/ UNCHANGED grant
       \/ grant' = [grant EXCEPT ![s] = [u \in Users |-> IF u \in owner[o].emails THEN "none" ELSE @[u]]]
    /\ UNCHANGED share

----------------------------------------------------------------------------
(* What else happens.                                                      *)

Bound(u) == [s \in Shares |-> [v \in Users |->
                IF v = u /\ grant[s][v] = "pending" THEN "bound" ELSE grant[s][v]]]

\* register or login; a failure to bind is swallowed.
SignIn(u) ==
    /\ accounts' = accounts \cup {u}
    /\ grant' \in {grant, Bound(u)}
    /\ UNCHANGED <<treeVars, share, now, owner, read>>

Move(f, d) ==
    /\ f \in here /\ d \in here
    /\ home' = [home EXCEPT ![f] = d]
    /\ UNCHANGED <<here, share, grant, accounts, now, owner, read>>

\* The node goes with everything below it, and the shares on them with their grants.
Delete(n) ==
    LET doomed == {m \in here : n \in ToSet(Chain(m))}
        ended == {s \in Shares : Exists(s) /\ share[s].node \in doomed}
    IN /\ n \in here /\ Path(n) # << >>
       /\ here' = here \ doomed
       /\ share' = [s \in Shares |-> IF s \in ended THEN [share[s] EXCEPT !.status = "gone"] ELSE share[s]]
       /\ grant' = [s \in Shares |-> IF s \in ended THEN [u \in Users |-> "none"] ELSE grant[s]]
       /\ UNCHANGED <<home, accounts, now, owner, read>>

Tick ==
    /\ now < MaxTime
    /\ now' = now + 1
    /\ UNCHANGED <<treeVars, share, grant, accounts, owner, read>>

----------------------------------------------------------------------------
(* Reading with a session: GET folders/:id, files/:id and its content.     *)

ReadStep(r, new) ==
    /\ read' = [read EXCEPT ![r] = new]
    /\ UNCHANGED <<treeVars, share, grant, accounts, now, owner>>

Refuse(r) == ReadStep(r, [read[r] EXCEPT !.pc = "refused"])

\* NodeAccessService: the node as it was loaded goes to the resolver.
RequireReadable(r, u, n) ==
    ReadStep(r, [NotRead EXCEPT !.pc = "resolve", !.surface = "session", !.user = u,
                                !.node = n, !.path = Path(n)])

\* findFolderForRead.
LoadFolder(r, u, d) == read[r].pc = "idle" /\ d \in Folders \cap here /\ RequireReadable(r, u, d)

\* findFileForRead.
LoadFile(r, u, f) == read[r].pc = "idle" /\ f \in Files \cap here /\ RequireReadable(r, u, f)

\* Mutant: shares that have ended are found too.
CandidatesEnded(r) ==
    {s \in Shares : /\ share[s].node \in ToSet(read[r].path) \cup {read[r].node}
                    /\ Granted(s, read[r].user, "session")}

\* findActiveShares: on the node and the ancestors read a step earlier.
Candidates(r) ==
    {s \in Shares : /\ share[s].node \in ToSet(read[r].path) \cup {read[r].node}
                    /\ ActiveShare(s)
                    /\ Granted(s, read[r].user, "session")}

Depth(r, s) == SelectInSeq(Append(read[r].path, read[r].node), LAMBDA n : n = share[s].node)

\* mostPermissive: the shallowest; of two on one node, the lower id.
Resolve(r) ==
    /\ read[r].pc = "resolve"
    /\ \/ Candidates(r) = {} /\ Refuse(r)
       \/ \E s \in Candidates(r) :
             /\ \A t \in Candidates(r) : Depth(r, s) <= Depth(r, t)
             /\ ReadStep(r, [read[r] EXCEPT !.pc = "respond", !.share = s])

\* rerootBreadcrumbs: from the shared node on; the whole chain if it is not in it.
Rerooted(chain, kept, top) ==
    IF From(chain, kept, top) = {} THEN kept ELSE From(chain, kept, top)

\* breadcrumbsFor: the ancestors that are still there, and the node.
SessionNames(r) ==
    LET chain == Append(read[r].path, read[r].node)
        kept == {k \in DOMAIN chain : k = Len(chain) \/ chain[k] \in here}
    IN {chain[k] : k \in Rerooted(chain, kept, share[read[r].share].node)}

----------------------------------------------------------------------------
(* Reading with a link: GET public/shares/:token, its nodes and content.   *)

\* Mutant: whoever has the link to a restricted share is asked for a grant.
AdmittedForAnyone(s, u) ==
    IF ~ActiveShare(s) THEN "refused"
    ELSE IF share[s].mode = "PUBLIC_LINK" THEN "locate" ELSE "grant"

\* requireShare: a restricted share without a session is a 401.
Admitted(s, u) ==
    IF ~ActiveShare(s) THEN "refused"
    ELSE IF share[s].mode = "PUBLIC_LINK" THEN "locate"
    ELSE IF u = Visitor THEN "refused" ELSE "grant"

\* findActiveShareByTokenHash.
FindShare(r, s, u, n) ==
    /\ read[r].pc = "idle"
    /\ Exists(s)
    /\ ReadStep(r, [NotRead EXCEPT !.pc = Admitted(s, u), !.surface = "link",
                                   !.user = u, !.node = n, !.share = s])

HoldsGrant(r) ==
    /\ read[r].pc = "grant"
    /\ IF Granted(read[r].share, read[r].user, "link")
         THEN ReadStep(r, [read[r] EXCEPT !.pc = "locate"])
         ELSE Refuse(r)

\* The shared node itself was read with the share; another one is looked up
\* under it.
Locate(r) ==
    LET n == read[r].node
        top == share[read[r].share].node
    IN /\ read[r].pc = "locate"
       /\ \/ /\ n = top \/ (n \in here /\ top \in ToSet(Path(n)))
             /\ ReadStep(r, [read[r] EXCEPT !.pc = "respond", !.path = Path(n)])
          \/ /\ n \notin here \/ top \notin ToSet(Chain(n))
             /\ Refuse(r)

\* Mutant: the whole path is named.
WholePath(r) == ToSet(read[r].path)

\* scopedAncestorIds: from the shared node down.
ScopedAncestors(r) ==
    LET ids == read[r].path
    IN {ids[k] : k \in From(ids, DOMAIN ids, share[read[r].share].node)}

LinkNames(r) == (ScopedAncestors(r) \cap here) \cup {read[r].node}

----------------------------------------------------------------------------
(* The response.                                                           *)

\* listChildren: nothing below a file, nor below a folder that has gone.
Children(n) == {m \in here : Path(m) # << >> /\ Last(Path(m)) = n}

Serve(r, names) == ReadStep(r, [read[r] EXCEPT !.pc = "served", !.names = names])

\* getContents, getFile.
RespondContents(r) ==
    /\ read[r].pc = "respond" /\ read[r].surface = "session"
    /\ Serve(r, SessionNames(r) \cup Children(read[r].node))

\* viewOf.
Viewed(r) == LinkNames(r) \cup Children(read[r].node)

\* viewRoot, viewNode.
RespondView(r) ==
    /\ read[r].pc = "respond" /\ read[r].surface = "link"
    /\ Serve(r, Viewed(r))

\* A URL is signed for an object that is there and is a PDF by now; that of a
\* file that has just been deleted may still be there.
SignUrl(r) ==
    /\ read[r].pc = "respond" /\ read[r].node \in Files
    /\ Serve(r, {}) \/ Refuse(r)

RespondUrl(r) == read[r].surface = "session" /\ SignUrl(r)
RespondLinkUrl(r) == read[r].surface = "link" /\ SignUrl(r)

----------------------------------------------------------------------------

Busy(r) == read[r].pc \notin {"idle", "served", "refused"}

ActiveNow == {s \in Shares : ActiveShare(s)}
GrantedNow(r) == {s \in Shares : Granted(s, read[r].user, read[r].surface)}
AboveNow(r) == ToSet(Chain(read[r].node))
BelowNow(r) == {n \in Nodes : read[r].share # None /\ share[read[r].share].node \in ToSet(Chain(n))}

\* The history: what is true after each step of a read that is not over.
Watch ==
    met' = [r \in Reads |->
              IF Busy(r) \/ Busy(r)'
              THEN [active |-> met[r].active \cup ActiveNow',
                    granted |-> met[r].granted \cup GrantedNow(r)',
                    above |-> met[r].above \cup AboveNow(r)',
                    below |-> met[r].below \cup BelowNow(r)']
              ELSE met[r]]

OwnerStep(o) ==
    \/ \E n \in Nodes, mode \in Mode, e \in Time \cup {Never}, us \in SUBSET Users :
          StartCreateShare(o, n, mode, e, us) /\ Watch
    \/ \E s \in Shares :
          \/ StartRevokeShare(o, s) /\ Watch
          \/ \E e \in Time \cup {Never} : StartSetExpiry(o, s, e) /\ Watch
          \/ \E us \in SUBSET Users : StartAddGrants(o, s, us) /\ Watch
          \/ \E u \in Users : StartRemoveGrant(o, s, u) /\ Watch
    \/ CreateShare(o) /\ Watch
    \/ RevokeShare(o) /\ Watch
    \/ SetExpiry(o) /\ Watch
    \/ AddGrants(o) /\ Watch
    \/ RemoveGrant(o) /\ Watch

RecipientStep(r) ==
    \/ \E n \in Nodes :
          \/ \E u \in Users : LoadFolder(r, u, n) /\ Watch
          \/ \E u \in Users : LoadFile(r, u, n) /\ Watch
          \/ \E s \in Shares, u \in Users \cup {Visitor} : FindShare(r, s, u, n) /\ Watch
    \/ Resolve(r) /\ Watch
    \/ HoldsGrant(r) /\ Watch
    \/ Locate(r) /\ Watch
    \/ RespondContents(r) /\ Watch
    \/ RespondView(r) /\ Watch
    \/ RespondUrl(r) /\ Watch
    \/ RespondLinkUrl(r) /\ Watch

Next ==
    \/ \E o \in OwnerRequests : OwnerStep(o)
    \/ \E r \in Reads : RecipientStep(r)
    \/ \E u \in Users : SignIn(u) /\ Watch
    \/ \E f \in Files, d \in Folders : Move(f, d) /\ Watch
    \/ \E n \in Nodes : Delete(n) /\ Watch
    \/ Tick /\ Watch

Spec == Init /\ [][Next]_vars

----------------------------------------------------------------------------
(* Properties.                                                             *)

\* What a recipient is served was theirs to read: since the request started
\* the share it is served through was neither revoked nor expired at one
\* moment, named its reader at one, and was above the node at one.  A share
\* revoked or expired, a grant removed or a file moved out before the
\* request started never serves it.
ServedWasCovered ==
    \A r \in Reads :
        read[r].pc = "served" =>
            /\ read[r].share \in met[r].active \cap met[r].granted
            /\ share[read[r].share].node \in met[r].above

\* A response to the holder of a link names the node read and what was the
\* shared node or below it at one moment of the request: ancestors and children,
\* whatever is moved or deleted meanwhile.
LinkNamesStayBelow ==
    \A r \in Reads :
        read[r].surface = "link" /\ read[r].pc = "served" =>
            read[r].names \ {read[r].node} \subseteq met[r].below

\* Two revocations agree on when access ended: the later one changes nothing.
RevocationSticks ==
    [][\A s \in Shares : share[s].revoked # Never => share'[s].revoked = share[s].revoked]_vars

=============================================================================
