---------------------------- MODULE Sharing_proofs ----------------------------
(***************************************************************************)
(* Proofs about Sharing: for any tree, shares, users, owners' requests and *)
(* reads, a recipient is served only what was shared with them at moments  *)
(* of their own request, a link names nothing above the shared node, and a *)
(* revocation is never moved.                                              *)
(*                                                                         *)
(* A read keeps what its queries found while shares, grants and the tree   *)
(* change under it.  ReadInv says, for each place a read may be at, which  *)
(* of those findings the history bears out; it is preserved because the    *)
(* history only grows and a share never changes its node (SharesKept).     *)
(***************************************************************************)
EXTENDS Sharing, TLAPS

-----------------------------------------------------------------------------
(* The tree *)

\* The path of a node is the ids of folders.
LEMMA PathType ==
    ASSUME NEW n \in Nodes, home \in [Files -> Folders]
    PROVE  Path(n) \in Seq(Folders)
<1>1. CASE n \in Folders
  BY <1>1, SharingAssumption DEF Path
<1>2. CASE n \notin Folders
  <2>1. n \in Files /\ home[n] \in Folders
    BY <1>2 DEF Nodes
  <2>2. Above[home[n]] \in Seq(Folders)
    BY <2>1, SharingAssumption
  <2> QED
    BY <1>2, <2>1, <2>2 DEF Path
<1> QED
  BY <1>1, <1>2

\* The chain is the path and the node.
LEMMA ChainIs ==
    ASSUME NEW n \in Nodes, home \in [Files -> Folders]
    PROVE  ToSet(Chain(n)) = ToSet(Path(n)) \cup {n} /\ ToSet(Chain(n)) \subseteq Nodes
<1>1. Path(n) \in Seq(Folders)
  BY PathType
<1>2. PICK p \in Seq(Folders) : p = Path(n)
  BY <1>1
<1>3. ToSet(Append(p, n)) = ToSet(p) \cup {n}
  <2>1. Append(p, n) \in Seq(Nodes) /\ Len(Append(p, n)) = Len(p) + 1 /\ Len(p) \in Nat
        /\ \A k \in 1 .. Len(p) : Append(p, n)[k] = p[k]
        /\ Append(p, n)[Len(p) + 1] = n
    BY DEF Nodes
  <2>2. DOMAIN p = 1 .. Len(p) /\ DOMAIN Append(p, n) = 1 .. Len(p) + 1
    BY <2>1
  <2>3. ASSUME NEW x \in ToSet(Append(p, n))
        PROVE  x \in ToSet(p) \cup {n}
    <3>1. PICK k \in 1 .. Len(p) + 1 : x = Append(p, n)[k]
      BY <2>2, <2>3 DEF ToSet
    <3>2. CASE k \in 1 .. Len(p)
      BY <2>1, <2>2, <3>1, <3>2 DEF ToSet
    <3>3. CASE k = Len(p) + 1
      BY <2>1, <3>1, <3>3
    <3> QED
      BY <2>1, <3>1, <3>2, <3>3
  <2>4. ASSUME NEW x \in ToSet(p) \cup {n}
        PROVE  x \in ToSet(Append(p, n))
    <3>1. CASE x \in ToSet(p)
      <4>1. PICK k \in 1 .. Len(p) : x = p[k]
        BY <2>2, <3>1 DEF ToSet
      <4>2. k \in 1 .. Len(p) + 1 /\ x = Append(p, n)[k]
        BY <2>1, <4>1
      <4> QED
        BY <2>2, <4>2 DEF ToSet
    <3>2. CASE x = n
      <4>1. Len(p) + 1 \in 1 .. Len(p) + 1 /\ x = Append(p, n)[Len(p) + 1]
        BY <2>1, <3>2
      <4> QED
        BY <2>2, <4>1 DEF ToSet
    <3> QED
      BY <2>4, <3>1, <3>2
  <2> QED
    BY <2>3, <2>4
<1>4. ToSet(p) \subseteq Nodes
  BY DEF ToSet, Nodes
<1> QED
  BY <1>2, <1>3, <1>4 DEF Chain

\* In the path of a node, what stands earlier is above what stands later.
Nested(ids) ==
    \A j, k \in DOMAIN ids : j <= k => ids[j] \in ToSet(Append(Above[ids[k]], ids[k]))

LEMMA PathNested ==
    ASSUME NEW n \in Nodes, home \in [Files -> Folders]
    PROVE  Nested(Path(n))
<1>1. ASSUME NEW d \in Folders
      PROVE  Nested(Above[d])
  <2> SUFFICES ASSUME NEW j \in DOMAIN Above[d], NEW k \in DOMAIN Above[d], j <= k
               PROVE  Above[d][j] \in ToSet(Append(Above[Above[d][k]], Above[d][k]))
    BY DEF Nested
  <2>1. PICK p \in Seq(Folders) : p = Above[d]
    BY SharingAssumption
  <2>2. Above[p[k]] = SubSeq(p, 1, k - 1)
    BY <2>1, SharingAssumption
  <2>3. /\ j \in Nat /\ k \in Nat /\ 1 <= j /\ k <= Len(p) /\ Len(p) \in Nat
        /\ DOMAIN p = 1 .. Len(p)
    BY <2>1
  <2>4. PICK q : q = Append(SubSeq(p, 1, k - 1), p[k])
    OBVIOUS
  <2>5. /\ SubSeq(p, 1, k - 1) \in Seq(Folders) /\ Len(SubSeq(p, 1, k - 1)) = k - 1
        /\ \A i \in 1 .. k - 1 : SubSeq(p, 1, k - 1)[i] = p[i]
    BY <2>3
  <2>6. DOMAIN q = 1 .. k /\ \A i \in 1 .. k : q[i] = p[i]
    BY <2>3, <2>4, <2>5
  <2>7. j \in DOMAIN q /\ q[j] = p[j]
    BY <2>3, <2>6
  <2> QED
    BY <2>1, <2>2, <2>4, <2>7 DEF ToSet
<1>2. CASE n \in Folders
  BY <1>1, <1>2 DEF Path
<1>3. CASE n \notin Folders
  <2>1. PICK d \in Folders : d = home[n]
    BY <1>3 DEF Nodes
  <2>2. PICK p \in Seq(Folders) : p = Above[d]
    BY SharingAssumption
  <2>n. Append(p, d) \in Seq(Folders)
    OBVIOUS
  <2>3. PICK q \in Seq(Folders) : q = Append(p, d)
    BY <2>n
  <2>4. Path(n) = q
    BY <1>3, <2>1, <2>2, <2>3 DEF Path
  <2>5. /\ Len(p) \in Nat /\ DOMAIN p = 1 .. Len(p) /\ DOMAIN q = 1 .. Len(p) + 1
        /\ q[Len(p) + 1] = d /\ \A i \in 1 .. Len(p) : q[i] = p[i]
    BY <2>2, <2>3
  <2>6. Nested(p)
    BY <1>1, <2>2
  <2>7. ASSUME NEW j \in DOMAIN q, NEW k \in DOMAIN q, j <= k
        PROVE  q[j] \in ToSet(Append(Above[q[k]], q[k]))
    <3>1. CASE k = Len(p) + 1
      <4>1. Append(Above[q[k]], q[k]) = q
        BY <2>2, <2>3, <2>5, <3>1
      <4> QED
        BY <2>7, <4>1 DEF ToSet
    <3>2. CASE k # Len(p) + 1
      <4>1. j \in DOMAIN p /\ k \in DOMAIN p /\ q[j] = p[j] /\ q[k] = p[k]
        BY <2>5, <2>7, <3>2
      <4> QED
        BY <2>6, <2>7, <4>1 DEF Nested
    <3> QED
      BY <3>1, <3>2
  <2> QED
    BY <2>4, <2>7 DEF Nested
<1> QED
  BY <1>2, <1>3

\* A child's chain holds the chain of the folder it is in.
LEMMA ChildBelow ==
    ASSUME NEW d \in Nodes, NEW m \in Nodes, home \in [Files -> Folders],
           Path(m) # << >>, Last(Path(m)) = d
    PROVE  d \in Folders /\ ToSet(Chain(d)) \subseteq ToSet(Chain(m))
<1>1. PICK p \in Seq(Folders) : p = Path(m)
  BY PathType
<1>2. Len(p) \in Nat /\ Len(p) >= 1 /\ d = p[Len(p)] /\ d \in Folders /\ DOMAIN p = 1 .. Len(p)
  BY <1>1 DEF Last
<1>3. \A j \in DOMAIN p : p[j] \in ToSet(Append(Above[d], d))
  BY <1>1, <1>2, PathNested DEF Nested
<1>4. ToSet(Chain(m)) = ToSet(p) \cup {m}
  BY <1>1, ChainIs
<1>5. Chain(d) = Append(Above[d], d)
  BY <1>2 DEF Chain, Path
<1>6. Append(Above[d], d) = p
  <2>1. CASE m \in Folders
    <3>1. p = Above[m]
      BY <1>1, <2>1 DEF Path
    <3>2. Above[d] = SubSeq(p, 1, Len(p) - 1)
      <4>1. Len(p) \in DOMAIN Above[m] /\ Above[m][Len(p)] = d
        BY <1>2, <3>1
      <4>2. Above[Above[m][Len(p)]] = SubSeq(Above[m], 1, Len(p) - 1)
        BY <2>1, <4>1, SharingAssumption
      <4> QED
        BY <3>1, <4>1, <4>2
    <3>3. PICK q : q = Append(SubSeq(p, 1, Len(p) - 1), d)
      OBVIOUS
    <3>l. PICK k \in Nat : k = Len(p) - 1 /\ k <= Len(p)
      <4>1. PICK n \in Nat : n = Len(p) /\ n >= 1
        BY <1>2
      <4>2. n - 1 \in Nat /\ n - 1 <= n
        BY <4>1
      <4> QED
        BY <4>1, <4>2
    <3>s. /\ SubSeq(p, 1, k) \in Seq(Folders) /\ Len(SubSeq(p, 1, k)) = k
          /\ \A i \in 1 .. k : SubSeq(p, 1, k)[i] = p[i]
      BY <3>l
    <3>n. /\ SubSeq(p, 1, Len(p) - 1) \in Seq(Folders)
          /\ Len(SubSeq(p, 1, Len(p) - 1)) = Len(p) - 1
          /\ \A i \in 1 .. Len(p) - 1 : SubSeq(p, 1, Len(p) - 1)[i] = p[i]
      BY <3>l, <3>s
    <3>m. PICK o \in Seq(Folders) : o = SubSeq(p, 1, Len(p) - 1)
      BY <3>n
    <3>j. q = Append(o, d) /\ d \in Folders
      BY <1>2, <3>3, <3>m
    <3>k. /\ q \in Seq(Folders) /\ Len(q) = Len(o) + 1 /\ q[Len(o) + 1] = d
          /\ \A i \in 1 .. Len(o) : q[i] = o[i]
      BY <3>j
    <3>4. q \in Seq(Folders) /\ Len(q) = Len(p) /\ \A i \in 1 .. Len(p) : q[i] = p[i]
      BY <1>2, <3>m, <3>n, <3>k
    <3>5. q = p
      BY <1>2, <3>4
    <3> QED
      BY <3>2, <3>3, <3>5
  <2>2. CASE m \notin Folders
    <3>1. PICK e \in Folders : e = home[m]
      BY <2>2 DEF Nodes
    <3>2. PICK q \in Seq(Folders) : q = Above[e]
      BY SharingAssumption
    <3>3. p = Append(q, e)
      BY <1>1, <2>2, <3>1, <3>2 DEF Path
    <3>4. d = e
      BY <1>2, <3>2, <3>3
    <3> QED
      BY <3>2, <3>3, <3>4
  <2> QED
    BY <2>1, <2>2
<1> QED
  BY <1>2, <1>4, <1>5, <1>6

-----------------------------------------------------------------------------
(* The inductive invariant *)

\* A share that has not been created carries no revocation.
UnusedAreClean == \A s \in Shares : share[s].status = "none" => share[s].revoked = Never

\* What a read has found so far was true at some moment since it started.
ReadInv(r) ==
    LET q == read[r]
        known == q.share \in Shares /\ share[q.share].status # "none"
        top == share[q.share].node
    IN /\ q.pc # "idle" => q.node \in Nodes
       /\ q.pc = "resolve" =>
             q.surface = "session" /\ ToSet(q.path) \cup {q.node} \subseteq met[r].above
       /\ q.pc = "grant" => q.surface = "link" /\ known /\ q.share \in met[r].active
       /\ q.pc = "locate" =>
             q.surface = "link" /\ known /\ q.share \in met[r].active \cap met[r].granted
       /\ q.pc \in {"respond", "served"} =>
             known /\ q.share \in met[r].active \cap met[r].granted /\ top \in met[r].above
       /\ q.pc = "respond" /\ q.surface = "link" =>
             /\ Nested(q.path)
             /\ q.node \in Folders => top \in ToSet(Append(Above[q.node], q.node))
       /\ q.pc = "served" /\ q.surface = "link" => q.names \ {q.node} \subseteq met[r].below

IInv == TypeOK /\ UnusedAreClean /\ \A r \in Reads : ReadInv(r)

-----------------------------------------------------------------------------
(* Types *)

ShareRow == [status : {"none", "live", "gone"}, node : Nodes \cup {None}, mode : Mode,
             expires : Time \cup {Never}, revoked : Time \cup {Never}]
Write == [op : {"none", "done", "create", "revoke", "setExpiry", "addGrants", "removeGrant"},
          share : Shares \cup {None}, node : Nodes \cup {None}, mode : Mode,
          expires : Time \cup {Never}, emails : SUBSET Users]
ReadRow == [pc : {"idle", "resolve", "grant", "locate", "respond", "served", "refused"},
            surface : {"session", "link"}, user : Users \cup {Visitor},
            node : Nodes \cup {None}, path : Seq(Folders),
            share : Shares \cup {None}, names : SUBSET Nodes]
Met == [active : SUBSET Shares, granted : SUBSET Shares,
        above : SUBSET Nodes, below : SUBSET Nodes]

StoreTypes ==
    /\ here \subseteq Nodes
    /\ home \in [Files -> Folders]
    /\ share \in [Shares -> ShareRow]
    /\ grant \in [Shares -> [Users -> {"none", "pending", "bound"}]]
    /\ accounts \subseteq Users
    /\ now \in Time
OwnerTypes == owner \in [OwnerRequests -> Write]
ReadOK(q) ==
    /\ q.pc = "grant" => q.user \in Users
    /\ q.pc \in {"grant", "locate", "respond", "served"} => q.share \in Shares
ReadTypes == read \in [Reads -> ReadRow] /\ \A r \in Reads : ReadOK(read[r])
MetTypes == met \in [Reads -> Met]

LEMMA TypesSplit == TypeOK <=> StoreTypes /\ OwnerTypes /\ ReadTypes /\ MetTypes
  BY DEF TypeOK, StoreTypes, OwnerTypes, ReadTypes, MetTypes, ReadOK, ShareRow, Write, ReadRow, Met

LEMMA Clock == MaxTime \in Nat /\ Never \in Nat /\ Never \notin Time /\ Time \subseteq Nat
  BY SharingAssumption DEF Never, Time

LEMMA EmptyWrite ==
    /\ NoWrite \in Write /\ NoWrite.op = "none"
    /\ [NoWrite EXCEPT !.op = "done"] \in Write
<1>1. Never \in Time \cup {Never} /\ None \in Nodes \cup {None}
  OBVIOUS
<1> QED
  BY <1>1 DEF NoWrite, Write, Mode

LEMMA EmptyRead == NotRead \in ReadRow /\ ReadOK(NotRead) /\ NotRead.pc = "idle"
<1>1. << >> \in Seq(Folders)
  OBVIOUS
<1> QED
  BY <1>1 DEF NotRead, ReadRow, ReadOK

LEMMA InitTypes == Init => TypeOK
<1> SUFFICES ASSUME Init
             PROVE  TypeOK
  OBVIOUS
<1>1. StoreTypes
  <2>1. 0 \in Time
    BY SharingAssumption DEF Time
  <2>2. 1 .. Never \subseteq Time \cup {Never}
    BY SharingAssumption DEF Time, Never
  <2>3. NoShare \in ShareRow
    BY DEF NoShare, ShareRow, Mode
  <2>4. \A row \in [status : {"live"}, node : Nodes, mode : {"RESTRICTED"},
                    expires : 1 .. Never, revoked : {Never}] : row \in ShareRow
    BY <2>2 DEF ShareRow, Mode
  <2>5. share \in [Shares -> ShareRow]
    BY <2>3, <2>4, InitShareAssumption DEF Init
  <2>6. grant \in [Shares -> [Users -> {"none", "pending", "bound"}]]
    BY DEF Init
  <2> QED
    BY <2>1, <2>5, <2>6 DEF Init, StoreTypes
<1>2. OwnerTypes
  BY EmptyWrite DEF Init, OwnerTypes
<1>3. ReadTypes
  BY EmptyRead DEF Init, ReadTypes
<1>4. MetTypes
  BY DEF Init, MetTypes, Met, NothingMet
<1> QED
  BY <1>1, <1>2, <1>3, <1>4, TypesSplit

LEMMA InitInv == Init => IInv
<1> SUFFICES ASSUME Init
             PROVE  IInv
  OBVIOUS
<1>1. UnusedAreClean
  BY InitShareAssumption DEF Init, UnusedAreClean, NoShare
<1>2. ASSUME NEW r \in Reads
      PROVE  ReadInv(r)
  BY EmptyRead DEF Init, ReadInv
<1> QED
  BY <1>1, <1>2, InitTypes DEF IInv

-----------------------------------------------------------------------------
(* The history *)

\* Nothing that has been true is forgotten.
HistoryGrows ==
    \A r \in Reads : /\ met[r].active \subseteq met'[r].active
                     /\ met[r].granted \subseteq met'[r].granted
                     /\ met[r].above \subseteq met'[r].above
                     /\ met[r].below \subseteq met'[r].below

\* A share that has been created keeps its node.
SharesKept ==
    \A s \in Shares : share[s].status # "none" =>
        share'[s].status # "none" /\ share'[s].node = share[s].node

LEMMA WatchGrows ==
    ASSUME Watch, met \in [Reads -> Met]
    PROVE  HistoryGrows
<1> SUFFICES ASSUME NEW r \in Reads
             PROVE  /\ met[r].active \subseteq met'[r].active
                    /\ met[r].granted \subseteq met'[r].granted
                    /\ met[r].above \subseteq met'[r].above
                    /\ met[r].below \subseteq met'[r].below
  BY DEF HistoryGrows
<1>1. CASE Busy(r) \/ Busy(r)'
  BY <1>1 DEF Watch
<1>2. CASE ~(Busy(r) \/ Busy(r)')
  BY <1>2 DEF Watch
<1> QED
  BY <1>1, <1>2

\* A step of a read that is not over is watched: what is true after it is met.
LEMMA Watched ==
    ASSUME Watch, NEW r \in Reads, Busy(r) \/ Busy(r)'
    PROVE  /\ ActiveNow' \subseteq met'[r].active
           /\ GrantedNow(r)' \subseteq met'[r].granted
           /\ AboveNow(r)' \subseteq met'[r].above
           /\ BelowNow(r)' \subseteq met'[r].below
  BY DEF Watch

TreeFacts == \A n \in Nodes : ToSet(Chain(n)) = ToSet(Path(n)) \cup {n} /\ ToSet(Chain(n)) \subseteq Nodes

LEMMA TreeHolds == StoreTypes => TreeFacts
  BY ChainIs DEF StoreTypes, TreeFacts

LEMMA TreeHoldsAfter == StoreTypes' => TreeFacts'
  BY TreeHolds, PTL

\* The chain after a step that leaves a read at a node.
LEMMA AboveAfter ==
    ASSUME NEW r \in Reads, NEW n, read'[r].node = n
    PROVE  AboveNow(r)' = ToSet(Chain(n))'
  BY DEF AboveNow, Chain, Path

LEMMA WatchTypes ==
    ASSUME MetTypes, Watch, StoreTypes',
           \A r \in Reads : Busy(r) \/ Busy(r)' => read'[r].node \in Nodes
    PROVE  MetTypes'
<1> SUFFICES ASSUME NEW r \in Reads
             PROVE  met'[r] \in Met
  BY DEF MetTypes, Watch
<1>1. met[r] \in Met
  BY DEF MetTypes
<1>2. CASE Busy(r) \/ Busy(r)'
  <2>1. PICK n \in Nodes : n = read'[r].node
    BY <1>2
  <2>2. AboveNow(r)' \subseteq Nodes
    BY <2>1, AboveAfter, TreeHoldsAfter DEF TreeFacts
  <2>3. ActiveNow' \subseteq Shares /\ GrantedNow(r)' \subseteq Shares /\ BelowNow(r)' \subseteq Nodes
    BY DEF ActiveNow, GrantedNow, BelowNow
  <2>4. met'[r] = [active |-> met[r].active \cup ActiveNow',
                   granted |-> met[r].granted \cup GrantedNow(r)',
                   above |-> met[r].above \cup AboveNow(r)',
                   below |-> met[r].below \cup BelowNow(r)']
    BY <1>2 DEF Watch
  <2> QED
    BY <1>1, <2>2, <2>3, <2>4 DEF Met
<1>3. CASE ~(Busy(r) \/ Busy(r)')
  BY <1>1, <1>3 DEF Watch
<1> QED
  BY <1>2, <1>3

-----------------------------------------------------------------------------
(* Steps that are not a read's *)

\* What a read has found stays borne out while it takes no step itself.
LEMMA ReadsCarryOn ==
    ASSUME IInv, NEW r \in Reads, read'[r] = read[r], SharesKept, HistoryGrows
    PROVE  ReadInv(r)'
<1>1. ReadInv(r)
  BY DEF IInv
<1> QED
  BY <1>1 DEF ReadInv, SharesKept, HistoryGrows

\* The store is written, or a request of the owner goes on, or time passes.
LEMMA StoreStep ==
    ASSUME IInv, Watch, StoreTypes', OwnerTypes', UnusedAreClean', SharesKept, read' = read
    PROVE  IInv'
<1>1. StoreTypes /\ ReadTypes /\ MetTypes /\ \A r \in Reads : ReadInv(r)
  BY TypesSplit DEF IInv
<1>2. ReadTypes'
  BY <1>1 DEF ReadTypes, ReadOK
<1>3. \A r \in Reads : Busy(r) \/ Busy(r)' => read'[r].node \in Nodes
  BY <1>1 DEF Busy, ReadInv
<1>4. MetTypes'
  BY <1>1, <1>3, WatchTypes
<1>5. HistoryGrows
  BY <1>1, WatchGrows DEF MetTypes
<1>6. ASSUME NEW r \in Reads
      PROVE  ReadInv(r)'
  BY <1>5, ReadsCarryOn
<1>7. TypeOK'
  <2>1. (TypeOK <=> StoreTypes /\ OwnerTypes /\ ReadTypes /\ MetTypes)'
    BY TypesSplit, PTL
  <2> QED
    BY <1>2, <1>4, <2>1
<1> QED
  BY <1>6, <1>7 DEF IInv

LEMMA DecideStep ==
    ASSUME IInv, NEW o \in OwnerRequests, NEW w \in Write, Decide(o, w), Watch
    PROVE  IInv'
<1>1. StoreTypes' /\ UnusedAreClean' /\ SharesKept
  BY TypesSplit DEF IInv, Decide, treeVars, StoreTypes, UnusedAreClean, SharesKept
<1>2. OwnerTypes'
  BY TypesSplit DEF IInv, Decide, OwnerTypes
<1> QED
  BY <1>1, <1>2, StoreStep DEF Decide

\* What a request of the owner has decided to write is a write.
LEMMA DecidedIsWrite ==
    /\ \A n \in Nodes, mode \in Mode, e \in Time \cup {Never}, us \in SUBSET Users :
          [NoWrite EXCEPT !.op = "create", !.node = n, !.mode = mode, !.expires = e, !.emails = us]
          \in Write
    /\ \A s \in Shares :
          /\ [NoWrite EXCEPT !.op = "revoke", !.share = s] \in Write
          /\ \A e \in Time \cup {Never} :
                [NoWrite EXCEPT !.op = "setExpiry", !.share = s, !.expires = e] \in Write
          /\ \A us \in SUBSET Users :
                [NoWrite EXCEPT !.op = "addGrants", !.share = s, !.emails = us] \in Write
          /\ \A u \in Users :
                [NoWrite EXCEPT !.op = "removeGrant", !.share = s, !.emails = {u}] \in Write
<1>1. NoWrite \in Write
  BY EmptyWrite
<1>2. \A n \in Nodes, mode \in Mode, e \in Time \cup {Never}, us \in SUBSET Users :
          [NoWrite EXCEPT !.op = "create", !.node = n, !.mode = mode, !.expires = e, !.emails = us]
          \in Write
  BY <1>1 DEF Write
<1>3. ASSUME NEW s \in Shares
      PROVE  /\ [NoWrite EXCEPT !.op = "revoke", !.share = s] \in Write
             /\ \A e \in Time \cup {Never} :
                   [NoWrite EXCEPT !.op = "setExpiry", !.share = s, !.expires = e] \in Write
             /\ \A us \in SUBSET Users :
                   [NoWrite EXCEPT !.op = "addGrants", !.share = s, !.emails = us] \in Write
             /\ \A u \in Users :
                   [NoWrite EXCEPT !.op = "removeGrant", !.share = s, !.emails = {u}] \in Write
  BY <1>1 DEF Write
<1> QED
  BY <1>2, <1>3

\* A revocation keeps its moment.
RevocationsKept ==
    \A s \in Shares : share[s].revoked # Never => share'[s].revoked = share[s].revoked

\* What a write of the store has to leave in order.
StoreKept == StoreTypes' /\ UnusedAreClean' /\ SharesKept /\ RevocationsKept

LEMMA FinishStep ==
    ASSUME IInv, NEW o \in OwnerRequests, Finish(o), StoreKept, Watch
    PROVE  IInv'
<1>1. OwnerTypes'
  BY TypesSplit, EmptyWrite DEF IInv, Finish, OwnerTypes
<1> QED
  BY <1>1, StoreStep DEF Finish, StoreKept

LEMMA CreateShareKeeps ==
    ASSUME IInv, NEW o \in OwnerRequests, CreateShare(o)
    PROVE  StoreKept
<1>1. StoreTypes /\ UnusedAreClean /\ owner[o] \in Write
  BY TypesSplit DEF IInv, OwnerTypes
<1>2. home' = home /\ here' = here /\ accounts' = accounts /\ now' = now
  BY DEF CreateShare, Finish, treeVars
<1>3. CASE UNCHANGED <<share, grant>>
  BY <1>1, <1>2, <1>3 DEF StoreKept, StoreTypes, UnusedAreClean, SharesKept, RevocationsKept
<1>4. CASE \E s \in Shares :
          /\ owner[o].node \in here /\ share[s].status = "none"
          /\ share' = [share EXCEPT ![s] = [status |-> "live", node |-> owner[o].node,
                                            mode |-> owner[o].mode,
                                            expires |-> owner[o].expires, revoked |-> Never]]
          /\ grant' = [grant EXCEPT ![s] = [u \in Users |->
                         IF u \in owner[o].emails THEN "pending" ELSE "none"]]
  <2>1. PICK s \in Shares :
          /\ owner[o].node \in here /\ share[s].status = "none"
          /\ share' = [share EXCEPT ![s] = [status |-> "live", node |-> owner[o].node,
                                            mode |-> owner[o].mode,
                                            expires |-> owner[o].expires, revoked |-> Never]]
          /\ grant' = [grant EXCEPT ![s] = [u \in Users |->
                         IF u \in owner[o].emails THEN "pending" ELSE "none"]]
    BY <1>4
  <2>2. [status |-> "live", node |-> owner[o].node, mode |-> owner[o].mode,
         expires |-> owner[o].expires, revoked |-> Never] \in ShareRow
    BY <1>1 DEF Write, ShareRow
  <2>3. share' \in [Shares -> ShareRow]
    BY <1>1, <2>1, <2>2 DEF StoreTypes
  <2>4. grant' \in [Shares -> [Users -> {"none", "pending", "bound"}]]
    BY <1>1, <2>1 DEF StoreTypes
  <2>5. UnusedAreClean' /\ SharesKept /\ RevocationsKept
    BY <1>1, <2>1 DEF StoreTypes, UnusedAreClean, SharesKept, RevocationsKept
  <2> QED
    BY <1>1, <1>2, <2>3, <2>4, <2>5 DEF StoreKept, StoreTypes
<1> QED
  BY <1>3, <1>4 DEF CreateShare

\* A row with another expiry, revoked now, or gone is a row; its node is the same.
LEMMA RowIs ==
    ASSUME NEW row \in ShareRow, NEW e \in Time \cup {Never}
    PROVE  /\ [row EXCEPT !.expires = e] \in ShareRow
           /\ [row EXCEPT !.expires = e].node = row.node
           /\ [row EXCEPT !.expires = e].status = row.status
           /\ [row EXCEPT !.expires = e].revoked = row.revoked
           /\ [row EXCEPT !.revoked = e] \in ShareRow
           /\ [row EXCEPT !.revoked = e].node = row.node
           /\ [row EXCEPT !.revoked = e].status = row.status
           /\ [row EXCEPT !.revoked = e].revoked = e
           /\ [row EXCEPT !.status = "gone"] \in ShareRow
           /\ [row EXCEPT !.status = "gone"].node = row.node
           /\ [row EXCEPT !.status = "gone"].status = "gone"
           /\ [row EXCEPT !.status = "gone"].revoked = row.revoked
  BY DEF ShareRow

LEMMA RevokeShareKeeps ==
    ASSUME IInv, NEW o \in OwnerRequests, RevokeShare(o)
    PROVE  StoreKept
<1>1. StoreTypes /\ UnusedAreClean
  BY TypesSplit DEF IInv
<1>2. PICK s : s = owner[o].share
  OBVIOUS
<1>3. /\ home' = home /\ here' = here /\ accounts' = accounts /\ now' = now /\ grant' = grant
      /\ share' = [share EXCEPT ![s].revoked = IF Exists(s) /\ @ = Never THEN now ELSE @]
  BY <1>2 DEF RevokeShare, Finish, treeVars
<1>4. CASE s \in Shares
  <2>1. PICK t \in Time \cup {Never} :
          t = IF Exists(s) /\ share[s].revoked = Never THEN now ELSE share[s].revoked
    BY <1>1, <1>4 DEF StoreTypes, ShareRow
  <2>2. share' = [share EXCEPT ![s] = [share[s] EXCEPT !.revoked = t]]
    BY <1>1, <1>3, <1>4, <2>1 DEF StoreTypes
  <2>3. share' \in [Shares -> ShareRow]
    BY <1>1, <1>4, <2>2, RowIs DEF StoreTypes
  <2>4. UnusedAreClean' /\ SharesKept /\ RevocationsKept
    BY <1>1, <1>4, <2>1, <2>2, RowIs
    DEF StoreTypes, UnusedAreClean, SharesKept, RevocationsKept, Exists
  <2> QED
    BY <1>1, <1>3, <2>3, <2>4 DEF StoreKept, StoreTypes
<1>5. CASE s \notin Shares
  <2>1. share' = share
    BY <1>1, <1>3, <1>5 DEF StoreTypes
  <2> QED
    BY <1>1, <1>3, <2>1 DEF StoreKept, StoreTypes, UnusedAreClean, SharesKept, RevocationsKept
<1> QED
  BY <1>4, <1>5

LEMMA SetExpiryKeeps ==
    ASSUME IInv, NEW o \in OwnerRequests, SetExpiry(o)
    PROVE  StoreKept
<1>1. StoreTypes /\ UnusedAreClean /\ owner[o] \in Write
  BY TypesSplit DEF IInv, OwnerTypes
<1>2. PICK s : s = owner[o].share
  OBVIOUS
<1>3. /\ home' = home /\ here' = here /\ accounts' = accounts /\ now' = now /\ grant' = grant
      /\ share' = [share EXCEPT ![s].expires = IF Exists(s) THEN owner[o].expires ELSE @]
  BY <1>2 DEF SetExpiry, Finish, treeVars
<1>4. CASE s \in Shares
  <2>1. PICK t \in Time \cup {Never} :
          t = IF Exists(s) THEN owner[o].expires ELSE share[s].expires
    BY <1>1, <1>4 DEF StoreTypes, ShareRow, Write
  <2>2. share' = [share EXCEPT ![s] = [share[s] EXCEPT !.expires = t]]
    BY <1>1, <1>3, <1>4, <2>1 DEF StoreTypes
  <2>3. share' \in [Shares -> ShareRow]
    BY <1>1, <1>4, <2>2, RowIs DEF StoreTypes
  <2>4. UnusedAreClean' /\ SharesKept /\ RevocationsKept
    BY <1>1, <1>4, <2>1, <2>2, RowIs
    DEF StoreTypes, UnusedAreClean, SharesKept, RevocationsKept
  <2> QED
    BY <1>1, <1>3, <2>3, <2>4 DEF StoreKept, StoreTypes
<1>5. CASE s \notin Shares
  <2>1. share' = share
    BY <1>1, <1>3, <1>5 DEF StoreTypes
  <2> QED
    BY <1>1, <1>3, <2>1 DEF StoreKept, StoreTypes, UnusedAreClean, SharesKept, RevocationsKept
<1> QED
  BY <1>4, <1>5

\* Steps that leave the shares' rows alone.
LEMMA RowsStay ==
    ASSUME IInv, share' = share, here' \subseteq Nodes, home' \in [Files -> Folders],
           grant' \in [Shares -> [Users -> {"none", "pending", "bound"}]],
           accounts' \subseteq Users, now' \in Time
    PROVE  StoreKept
<1>1. StoreTypes /\ UnusedAreClean
  BY TypesSplit DEF IInv
<1> QED
  BY <1>1 DEF StoreKept, StoreTypes, UnusedAreClean, SharesKept, RevocationsKept

LEMMA GrantsKeep ==
    ASSUME IInv, NEW o \in OwnerRequests, AddGrants(o) \/ RemoveGrant(o)
    PROVE  StoreKept
<1>1. StoreTypes
  BY TypesSplit DEF IInv
<1>2. PICK s : s = owner[o].share
  OBVIOUS
<1>3. home' = home /\ here' = here /\ accounts' = accounts /\ now' = now /\ share' = share
  BY DEF AddGrants, RemoveGrant, Finish, treeVars
<1>4. grant' \in [Shares -> [Users -> {"none", "pending", "bound"}]]
  <2>1. CASE AddGrants(o)
    BY <1>1, <2>1 DEF AddGrants, StoreTypes
  <2>2. CASE RemoveGrant(o)
    BY <1>1, <2>2 DEF RemoveGrant, StoreTypes
  <2> QED
    BY <2>1, <2>2
<1> QED
  BY <1>1, <1>3, <1>4, RowsStay DEF StoreTypes

LEMMA SignInKeeps ==
    ASSUME IInv, NEW u \in Users, SignIn(u)
    PROVE  StoreKept
<1>1. StoreTypes
  BY TypesSplit DEF IInv
<1>2. Bound(u) \in [Shares -> [Users -> {"none", "pending", "bound"}]]
  BY <1>1 DEF Bound, StoreTypes
<1> QED
  BY <1>1, <1>2, RowsStay DEF SignIn, treeVars, StoreTypes

LEMMA MoveKeeps ==
    ASSUME IInv, NEW f \in Files, NEW d \in Folders, Move(f, d)
    PROVE  StoreKept
<1>1. StoreTypes
  BY TypesSplit DEF IInv
<1> QED
  BY <1>1, RowsStay DEF Move, StoreTypes

LEMMA TickKeeps ==
    ASSUME IInv, Tick
    PROVE  StoreKept
<1>1. StoreTypes
  BY TypesSplit DEF IInv
<1>2. now' \in Time
  BY <1>1, Clock DEF Tick, StoreTypes, Time
<1> QED
  BY <1>1, <1>2, RowsStay DEF Tick, treeVars, StoreTypes

LEMMA DeleteKeeps ==
    ASSUME IInv, NEW n \in Nodes, Delete(n)
    PROVE  StoreKept
<1>1. StoreTypes /\ UnusedAreClean
  BY TypesSplit DEF IInv
<1>2. PICK doomed : doomed = {m \in here : n \in ToSet(Chain(m))}
  OBVIOUS
<1>3. PICK ended : ended = {s \in Shares : Exists(s) /\ share[s].node \in doomed}
  OBVIOUS
<1>4. /\ here' = here \ doomed /\ home' = home /\ accounts' = accounts /\ now' = now
      /\ share' = [s \in Shares |-> IF s \in ended THEN [share[s] EXCEPT !.status = "gone"]
                                                   ELSE share[s]]
      /\ grant' = [s \in Shares |-> IF s \in ended THEN [u \in Users |-> "none"] ELSE grant[s]]
  BY <1>2, <1>3 DEF Delete
<1>5. \A s \in Shares :
        /\ share'[s] \in ShareRow /\ share'[s].node = share[s].node
        /\ share'[s].revoked = share[s].revoked
        /\ share'[s].status \in {share[s].status, "gone"}
  BY <1>1, <1>4, RowIs DEF StoreTypes
<1>6. \A s \in ended : share[s].status = "live"
  BY <1>3 DEF Exists
<1>7. \A s \in Shares : share'[s].status = "none" <=> share[s].status = "none"
  BY <1>1, <1>4, <1>6, RowIs DEF StoreTypes
<1>8. grant' \in [Shares -> [Users -> {"none", "pending", "bound"}]]
  BY <1>1, <1>4 DEF StoreTypes
<1>9. share' \in [Shares -> ShareRow]
  BY <1>4, <1>5
<1>10. UnusedAreClean' /\ SharesKept /\ RevocationsKept
  BY <1>1, <1>5, <1>7 DEF UnusedAreClean, SharesKept, RevocationsKept
<1> QED
  BY <1>1, <1>4, <1>8, <1>9, <1>10 DEF StoreKept, StoreTypes

-----------------------------------------------------------------------------
(* Steps of a read *)

\* The step of a read is watched: the store is as it was, the read as it is now.
LEMMA StepWatched ==
    ASSUME NEW r \in Reads, NEW new \in ReadRow, read \in [Reads -> ReadRow],
           ReadStep(r, new), Watch, Busy(r) \/ new.pc \notin {"idle", "served", "refused"}
    PROVE  /\ \A s \in Shares : ActiveShare(s) => s \in met'[r].active
           /\ \A s \in Shares : Granted(s, new.user, new.surface) => s \in met'[r].granted
           /\ ToSet(Chain(new.node)) \subseteq met'[r].above
           /\ \A n \in Nodes : new.share # None /\ share[new.share].node \in ToSet(Chain(n)) =>
                 n \in met'[r].below
<1>1. read'[r] = new
  BY DEF ReadStep
<1>2. Busy(r) \/ Busy(r)'
  BY <1>1 DEF Busy
<1>3. /\ here' = here /\ home' = home /\ share' = share /\ grant' = grant
      /\ accounts' = accounts /\ now' = now
  BY DEF ReadStep, treeVars
<1>4. ASSUME NEW s \in Shares, ActiveShare(s)
      PROVE  s \in met'[r].active
  <2>1. s \in ActiveNow'
    BY <1>3, <1>4 DEF ActiveNow, ActiveShare, Exists
  <2> QED
    BY <1>2, <2>1, Watched
<1>5. ASSUME NEW s \in Shares, Granted(s, new.user, new.surface)
      PROVE  s \in met'[r].granted
  <2>1. s \in GrantedNow(r)'
    BY <1>1, <1>3, <1>5 DEF GrantedNow, Granted
  <2> QED
    BY <1>2, <2>1, Watched
<1>6. ToSet(Chain(new.node)) \subseteq met'[r].above
  <2>1. AboveNow(r)' = ToSet(Chain(new.node))
    BY <1>1, <1>3 DEF AboveNow, Chain, Path
  <2> QED
    BY <1>2, <2>1, Watched
<1>7. ASSUME NEW n \in Nodes, new.share # None, share[new.share].node \in ToSet(Chain(n))
      PROVE  n \in met'[r].below
  <2>1. n \in BelowNow(r)'
    BY <1>1, <1>3, <1>7 DEF BelowNow, Chain, Path
  <2> QED
    BY <1>2, <2>1, Watched
<1> QED
  BY <1>4, <1>5, <1>6, <1>7

LEMMA ReadStepKeeps ==
    ASSUME IInv, NEW r \in Reads, NEW new \in ReadRow, ReadOK(new), new.node \in Nodes,
           ReadStep(r, new), Watch, ReadInv(r)'
    PROVE  IInv' /\ RevocationsKept
<1>1. StoreTypes /\ OwnerTypes /\ ReadTypes /\ MetTypes /\ UnusedAreClean
      /\ \A t \in Reads : ReadInv(t)
  BY TypesSplit DEF IInv
<1>2. StoreTypes' /\ OwnerTypes' /\ UnusedAreClean' /\ SharesKept /\ RevocationsKept
  BY <1>1 DEF ReadStep, treeVars, StoreTypes, OwnerTypes, UnusedAreClean, SharesKept, RevocationsKept
<1>3. read' = [read EXCEPT ![r] = new]
  BY DEF ReadStep
<1>4. ReadTypes'
  BY <1>1, <1>3 DEF ReadTypes
<1>5. \A t \in Reads : Busy(t) \/ Busy(t)' => read'[t].node \in Nodes
  BY <1>1, <1>3 DEF Busy, ReadInv, ReadTypes
<1>6. MetTypes'
  BY <1>1, <1>2, <1>5, WatchTypes
<1>7. HistoryGrows
  BY <1>1, WatchGrows DEF MetTypes
<1>8. ASSUME NEW t \in Reads
      PROVE  ReadInv(t)'
  <2>1. CASE t = r
    BY <2>1
  <2>2. CASE t # r
    <3>1. read'[t] = read[t]
      BY <1>1, <1>3, <2>2 DEF ReadTypes
    <3> QED
      BY <1>2, <1>7, <3>1, ReadsCarryOn
  <2> QED
    BY <2>1, <2>2
<1>9. (TypeOK <=> StoreTypes /\ OwnerTypes /\ ReadTypes /\ MetTypes)'
  BY TypesSplit, PTL
<1> QED
  BY <1>2, <1>4, <1>6, <1>8, <1>9 DEF IInv

\* What a step makes of the record of a read.
LEMMA ReadRowIs ==
    ASSUME NEW q \in ReadRow
    PROVE  /\ [q EXCEPT !.pc = "refused"] \in ReadRow
           /\ [q EXCEPT !.pc = "refused"].pc = "refused"
           /\ [q EXCEPT !.pc = "refused"].node = q.node
           /\ [q EXCEPT !.pc = "locate"] \in ReadRow
           /\ [q EXCEPT !.pc = "locate"].pc = "locate"
           /\ [q EXCEPT !.pc = "locate"].node = q.node
           /\ [q EXCEPT !.pc = "locate"].share = q.share
           /\ [q EXCEPT !.pc = "locate"].surface = q.surface
           /\ [q EXCEPT !.pc = "locate"].user = q.user
  BY DEF ReadRow

LEMMA RefuseStep ==
    ASSUME IInv, NEW r \in Reads, read[r].pc # "idle", Refuse(r), Watch
    PROVE  IInv' /\ RevocationsKept
<1>1. read[r] \in ReadRow /\ read[r].node \in Nodes
  BY TypesSplit DEF IInv, ReadTypes, ReadInv
<1>2. PICK new \in ReadRow : new = [read[r] EXCEPT !.pc = "refused"]
  BY <1>1, ReadRowIs
<1>3. new.pc = "refused" /\ new.node \in Nodes /\ ReadStep(r, new)
  BY <1>1, <1>2, ReadRowIs DEF Refuse
<1>4. read'[r] = new
  BY <1>3, TypesSplit DEF ReadStep, IInv, ReadTypes
<1>5. ReadInv(r)'
  BY <1>3, <1>4 DEF ReadInv
<1>6. ReadOK(new)
  BY <1>3 DEF ReadOK
<1> QED
  BY <1>3, <1>5, <1>6, ReadStepKeeps

\* A read begins by session: the chain of its node is met.
LEMMA LoadStep ==
    ASSUME IInv, NEW r \in Reads, NEW u \in Users, NEW n \in Nodes,
           RequireReadable(r, u, n), Watch
    PROVE  IInv' /\ RevocationsKept
<1>1. StoreTypes /\ read \in [Reads -> ReadRow]
  BY TypesSplit DEF IInv, ReadTypes
<1>2. Path(n) \in Seq(Folders)
  BY <1>1, PathType DEF StoreTypes
<1>3. PICK p \in Seq(Folders) : p = Path(n)
  BY <1>2
<1>4. PICK new : new = [NotRead EXCEPT !.pc = "resolve", !.surface = "session", !.user = u,
                                       !.node = n, !.path = p]
  OBVIOUS
<1>5. /\ new \in ReadRow /\ ReadOK(new) /\ new.pc = "resolve" /\ new.surface = "session"
      /\ new.node = n /\ new.path = p
  BY <1>4, EmptyRead DEF ReadRow, ReadOK
<1>6. ReadStep(r, new)
  BY <1>3, <1>4 DEF RequireReadable
<1>7. read'[r] = new
  BY <1>1, <1>6 DEF ReadStep
<1>8. ToSet(Chain(n)) \subseteq met'[r].above
  BY <1>1, <1>5, <1>6, StepWatched
<1>9. ToSet(Chain(n)) = ToSet(p) \cup {n}
  BY <1>1, <1>3, ChainIs DEF StoreTypes
<1>10. ReadInv(r)'
  BY <1>5, <1>7, <1>8, <1>9 DEF ReadInv
<1> QED
  BY <1>5, <1>6, <1>10, ReadStepKeeps

LEMMA ResolveStep ==
    ASSUME IInv, NEW r \in Reads, Resolve(r), Watch
    PROVE  IInv' /\ RevocationsKept
<1>1. /\ StoreTypes /\ read \in [Reads -> ReadRow] /\ met \in [Reads -> Met]
      /\ ReadInv(r) /\ read[r].pc = "resolve"
  BY TypesSplit DEF IInv, ReadTypes, MetTypes, Resolve
<1>2. CASE Refuse(r)
  BY <1>1, <1>2, RefuseStep
<1>3. CASE \E s \in Candidates(r) : ReadStep(r, [read[r] EXCEPT !.pc = "respond", !.share = s])
  <2>1. PICK s \in Candidates(r) : ReadStep(r, [read[r] EXCEPT !.pc = "respond", !.share = s])
    BY <1>3
  <2>2. /\ s \in Shares /\ ActiveShare(s) /\ Granted(s, read[r].user, "session")
        /\ share[s].node \in ToSet(read[r].path) \cup {read[r].node}
    BY <2>1 DEF Candidates
  <2>3. PICK new : new = [read[r] EXCEPT !.pc = "respond", !.share = s]
    OBVIOUS
  <2>4. /\ new \in ReadRow /\ ReadOK(new) /\ new.pc = "respond" /\ new.share = s
        /\ new.surface = "session" /\ new.user = read[r].user /\ new.node = read[r].node
    BY <1>1, <2>2, <2>3 DEF ReadRow, ReadOK, ReadInv
  <2>5. ReadStep(r, new) /\ read'[r] = new
    BY <1>1, <2>1, <2>3 DEF ReadStep
  <2>6. s \in met'[r].active /\ s \in met'[r].granted
    BY <1>1, <2>2, <2>4, <2>5, StepWatched
  <2>7. share[s].node \in met'[r].above
    <3>1. share[s].node \in met[r].above
      BY <1>1, <2>2 DEF ReadInv
    <3> QED
      BY <1>1, <3>1, WatchGrows DEF HistoryGrows
  <2>8. share[s].status # "none" /\ share' = share
    BY <2>2, <2>5 DEF ActiveShare, Exists, ReadStep
  <2>9. new.node \in Nodes
    BY <1>1, <2>4 DEF ReadInv
  <2>10. ReadInv(r)'
    BY <2>2, <2>4, <2>5, <2>6, <2>7, <2>8, <2>9 DEF ReadInv
  <2> QED
    BY <2>4, <2>5, <2>9, <2>10, ReadStepKeeps
<1> QED
  BY <1>2, <1>3 DEF Resolve

LEMMA FindShareStep ==
    ASSUME IInv, NEW r \in Reads, NEW s \in Shares, NEW u \in Users \cup {Visitor}, NEW n \in Nodes,
           FindShare(r, s, u, n), Watch
    PROVE  IInv' /\ RevocationsKept
<1>1. StoreTypes /\ read \in [Reads -> ReadRow]
  BY TypesSplit DEF IInv, ReadTypes
<1>2. PICK step \in {"refused", "locate", "grant"} : step = Admitted(s, u)
  BY DEF Admitted
<1>3. /\ step # "refused" => ActiveShare(s)
      /\ step = "locate" => share[s].mode = "PUBLIC_LINK"
      /\ step = "grant" => u \in Users
  BY <1>2 DEF Admitted
<1>4. PICK new : new = [NotRead EXCEPT !.pc = step, !.surface = "link", !.user = u,
                                       !.node = n, !.share = s]
  OBVIOUS
<1>5. /\ new \in ReadRow /\ ReadOK(new) /\ new.pc = step /\ new.surface = "link"
      /\ new.node = n /\ new.share = s
  BY <1>3, <1>4, EmptyRead DEF ReadRow, ReadOK
<1>6. ReadStep(r, new) /\ read'[r] = new
  BY <1>1, <1>2, <1>4 DEF FindShare, ReadStep
<1>7. share' = share /\ share[s].status # "none"
  BY <1>6 DEF FindShare, Exists, ReadStep
<1>8. CASE step = "refused"
  <2>1. ReadInv(r)'
    BY <1>5, <1>6, <1>8 DEF ReadInv
  <2> QED
    BY <1>5, <1>6, <2>1, ReadStepKeeps
<1>9. CASE step # "refused"
  <2>1. s \in met'[r].active
    BY <1>1, <1>3, <1>5, <1>6, <1>9, StepWatched
  <2>2. step = "locate" => s \in met'[r].granted
    <3> SUFFICES ASSUME step = "locate"
                 PROVE  s \in met'[r].granted
      OBVIOUS
    <3>1. Granted(s, new.user, new.surface)
      BY <1>3, <1>5 DEF Granted
    <3> QED
      BY <1>1, <1>5, <1>6, <3>1, StepWatched
  <2>3. ReadInv(r)'
    BY <1>5, <1>6, <1>7, <1>9, <2>1, <2>2 DEF ReadInv
  <2> QED
    BY <1>5, <1>6, <2>3, ReadStepKeeps
<1> QED
  BY <1>8, <1>9

LEMMA HoldsGrantStep ==
    ASSUME IInv, NEW r \in Reads, HoldsGrant(r), Watch
    PROVE  IInv' /\ RevocationsKept
<1>1. /\ StoreTypes /\ ReadTypes /\ read \in [Reads -> ReadRow] /\ met \in [Reads -> Met]
      /\ ReadInv(r) /\ read[r].pc = "grant"
  BY TypesSplit DEF IInv, ReadTypes, MetTypes, HoldsGrant
<1>2. CASE Refuse(r)
  BY <1>1, <1>2, RefuseStep
<1>3. CASE /\ Granted(read[r].share, read[r].user, "link")
           /\ ReadStep(r, [read[r] EXCEPT !.pc = "locate"])
  <2>1. PICK new \in ReadRow : new = [read[r] EXCEPT !.pc = "locate"]
    BY <1>1, ReadRowIs
  <2>2. /\ new.pc = "locate" /\ new.node = read[r].node /\ new.share = read[r].share
        /\ new.surface = read[r].surface /\ new.user = read[r].user
    BY <1>1, <2>1, ReadRowIs
  <2>3. ReadStep(r, new) /\ read'[r] = new
    BY <1>1, <1>3, <2>1 DEF ReadStep
  <2>4. PICK s \in Shares : s = read[r].share
    BY <1>1 DEF ReadTypes, ReadOK
  <2>5. new.surface = "link" /\ share[s].status # "none" /\ s \in met[r].active
    BY <1>1, <2>2, <2>4 DEF ReadInv
  <2>6. s \in met'[r].granted
    BY <1>1, <1>3, <2>2, <2>3, <2>4, <2>5, StepWatched
  <2>7. s \in met'[r].active
    BY <1>1, <2>5, WatchGrows DEF HistoryGrows
  <2>8. new.node \in Nodes /\ share' = share
    BY <1>1, <2>2, <2>3 DEF ReadInv, ReadStep
  <2>9. ReadInv(r)'
    BY <2>2, <2>3, <2>4, <2>5, <2>6, <2>7, <2>8 DEF ReadInv
  <2>10. ReadOK(new)
    BY <2>2, <2>4 DEF ReadOK
  <2> QED
    BY <2>3, <2>8, <2>9, <2>10, ReadStepKeeps
<1> QED
  BY <1>2, <1>3 DEF HoldsGrant

LEMMA LocateStep ==
    ASSUME IInv, NEW r \in Reads, Locate(r), Watch
    PROVE  IInv' /\ RevocationsKept
<1>1. /\ StoreTypes /\ ReadTypes /\ read \in [Reads -> ReadRow] /\ met \in [Reads -> Met]
      /\ ReadInv(r) /\ read[r].pc = "locate"
  BY TypesSplit DEF IInv, ReadTypes, MetTypes, Locate
<1>2. PICK n \in Nodes : n = read[r].node
  BY <1>1 DEF ReadInv
<1>3. PICK s \in Shares : s = read[r].share
  BY <1>1 DEF ReadTypes, ReadOK
<1>4. CASE Refuse(r)
  BY <1>1, <1>4, RefuseStep
<1>5. CASE /\ n = share[s].node \/ (n \in here /\ share[s].node \in ToSet(Path(n)))
           /\ ReadStep(r, [read[r] EXCEPT !.pc = "respond", !.path = Path(n)])
  <2>1. PICK p \in Seq(Folders) : p = Path(n)
    BY <1>1, PathType DEF StoreTypes
  <2>2. PICK new : new = [read[r] EXCEPT !.pc = "respond", !.path = p]
    OBVIOUS
  <2>3. /\ new \in ReadRow /\ new.pc = "respond" /\ new.path = p /\ new.node = n
        /\ new.share = s /\ new.surface = read[r].surface
    BY <1>1, <1>2, <1>3, <2>2 DEF ReadRow
  <2>4. ReadStep(r, new) /\ read'[r] = new /\ share' = share
    BY <1>1, <1>5, <2>1, <2>2 DEF ReadStep
  <2>5. share[s].node \in ToSet(Chain(n))
    BY <1>1, <1>5, ChainIs DEF StoreTypes
  <2>6. share[s].node \in met'[r].above
    BY <1>1, <2>3, <2>4, <2>5, StepWatched
  <2>7. s \in met'[r].active \cap met'[r].granted /\ share[s].status # "none"
    BY <1>1, <1>3, WatchGrows DEF HistoryGrows, ReadInv
  <2>8. Nested(p) /\ (n \in Folders => share[s].node \in ToSet(Append(Above[n], n)))
    BY <1>1, <2>1, <2>5, PathNested DEF StoreTypes, Chain, Path
  <2>9. ReadInv(r)'
    BY <1>3, <2>3, <2>4, <2>6, <2>7, <2>8 DEF ReadInv
  <2>10. ReadOK(new)
    BY <2>3 DEF ReadOK
  <2> QED
    BY <2>3, <2>4, <2>9, <2>10, ReadStepKeeps
<1> QED
  BY <1>2, <1>3, <1>4, <1>5 DEF Locate

LEMMA ServeStep ==
    ASSUME IInv, NEW r \in Reads, read[r].pc = "respond", NEW names \in SUBSET Nodes,
           Serve(r, names), Watch,
           read[r].surface = "link" =>
              \A n \in names \ {read[r].node} : share[read[r].share].node \in ToSet(Chain(n))
    PROVE  IInv' /\ RevocationsKept
<1>1. /\ StoreTypes /\ ReadTypes /\ read \in [Reads -> ReadRow] /\ met \in [Reads -> Met]
      /\ ReadInv(r)
  BY TypesSplit DEF IInv, ReadTypes, MetTypes
<1>2. PICK s \in Shares : s = read[r].share
  BY <1>1 DEF ReadTypes, ReadOK
<1>3. PICK new : new = [read[r] EXCEPT !.pc = "served", !.names = names]
  OBVIOUS
<1>4. /\ new \in ReadRow /\ new.pc = "served" /\ new.names = names /\ new.node = read[r].node
      /\ new.share = s /\ new.surface = read[r].surface
  BY <1>1, <1>2, <1>3 DEF ReadRow
<1>5. ReadStep(r, new) /\ read'[r] = new /\ share' = share
  BY <1>1, <1>3 DEF Serve, ReadStep
<1>6. Busy(r)
  BY DEF Busy
<1>7. /\ s \in met'[r].active \cap met'[r].granted /\ share[s].status # "none"
      /\ share[s].node \in met'[r].above /\ new.node \in Nodes
  BY <1>1, <1>2, <1>4, WatchGrows DEF HistoryGrows, ReadInv
<1>8. new.surface = "link" => new.names \ {new.node} \subseteq met'[r].below
  <2> SUFFICES ASSUME new.surface = "link", NEW n \in new.names \ {new.node}
               PROVE  n \in met'[r].below
    OBVIOUS
  <2>1. share[s].node \in ToSet(Chain(n)) /\ n \in Nodes
    BY <1>2, <1>4
  <2>2. new.share # None
    BY <1>4, SharingAssumption
  <2> QED
    BY <1>1, <1>4, <1>5, <1>6, <2>1, <2>2, StepWatched
<1>9. ReadInv(r)'
  BY <1>4, <1>5, <1>7, <1>8 DEF ReadInv
<1>10. ReadOK(new)
  BY <1>4 DEF ReadOK
<1> QED
  BY <1>4, <1>5, <1>7, <1>9, <1>10, ReadStepKeeps

LEMMA ChildrenAreNodes == StoreTypes => \A n : Children(n) \subseteq Nodes
  BY DEF StoreTypes, Children

LEMMA RespondContentsStep ==
    ASSUME IInv, NEW r \in Reads, RespondContents(r), Watch
    PROVE  IInv' /\ RevocationsKept
<1>1. /\ StoreTypes /\ read[r] \in ReadRow /\ ReadInv(r) /\ read[r].pc = "respond"
      /\ read[r].surface = "session"
  BY TypesSplit DEF IInv, ReadTypes, RespondContents
<1>2. SessionNames(r) \subseteq Nodes
  <2>1. PICK chain : chain = Append(read[r].path, read[r].node)
    OBVIOUS
  <2>2. read[r].path \in Seq(Nodes) /\ read[r].node \in Nodes
    BY <1>1 DEF ReadRow, ReadInv, Nodes
  <2>3. chain \in Seq(Nodes)
    BY <2>1, <2>2
  <2>4. \A kept \in SUBSET DOMAIN chain : \A top : Rerooted(chain, kept, top) \subseteq DOMAIN chain
    BY DEF Rerooted, From
  <2>5. \A k \in DOMAIN chain : chain[k] \in Nodes
    BY <2>3
  <2>6. PICK kept \in SUBSET DOMAIN chain :
          SessionNames(r) = {chain[k] : k \in Rerooted(chain, kept, share[read[r].share].node)}
    BY <2>1 DEF SessionNames
  <2> QED
    BY <2>4, <2>5, <2>6
<1>3. PICK names \in SUBSET Nodes : names = SessionNames(r) \cup Children(read[r].node)
  BY <1>1, <1>2, ChildrenAreNodes
<1> QED
  BY <1>1, <1>3, ServeStep DEF RespondContents

LEMMA RespondViewStep ==
    ASSUME IInv, NEW r \in Reads, RespondView(r), Watch
    PROVE  IInv' /\ RevocationsKept
<1>1. /\ StoreTypes /\ read[r] \in ReadRow /\ ReadInv(r) /\ read[r].pc = "respond"
      /\ read[r].surface = "link"
  BY TypesSplit DEF IInv, ReadTypes, RespondView
<1>2. PICK top : top = share[read[r].share].node
  OBVIOUS
<1>3. PICK ids \in Seq(Folders) : ids = read[r].path
  BY <1>1 DEF ReadRow
<1>4. ASSUME NEW m \in ScopedAncestors(r)
      PROVE  m \in Nodes /\ top \in ToSet(Chain(m))
  <2>1. PICK k \in From(ids, DOMAIN ids, top) : m = ids[k]
    BY <1>2, <1>3, <1>4 DEF ScopedAncestors
  <2>2. PICK j \in DOMAIN ids : k \in DOMAIN ids /\ j <= k /\ ids[j] = top
    BY <2>1 DEF From
  <2>3. Nested(ids)
    BY <1>1, <1>3 DEF ReadInv
  <2>4. top \in ToSet(Append(Above[m], m)) /\ m \in Folders
    BY <2>1, <2>2, <2>3 DEF Nested
  <2> QED
    BY <2>4 DEF Chain, Path, Nodes
<1>5. ASSUME NEW m \in Children(read[r].node)
      PROVE  m \in Nodes /\ top \in ToSet(Chain(m))
  <2>1. PICK d \in Nodes : d = read[r].node
    BY <1>1 DEF ReadInv
  <2>2. m \in Nodes /\ Path(m) # << >> /\ Last(Path(m)) = d
    BY <1>1, <1>5, <2>1 DEF Children, StoreTypes
  <2>3. d \in Folders /\ ToSet(Chain(d)) \subseteq ToSet(Chain(m))
    BY <1>1, <2>2, ChildBelow DEF StoreTypes
  <2>4. top \in ToSet(Append(Above[d], d))
    BY <1>1, <1>2, <2>1, <2>3 DEF ReadInv
  <2>5. Chain(d) = Append(Above[d], d)
    BY <2>3 DEF Chain, Path
  <2> QED
    BY <2>2, <2>3, <2>4, <2>5
<1>6. Viewed(r) \subseteq Nodes
  BY <1>1, <1>4, <1>5 DEF Viewed, LinkNames, ReadInv
<1>7. \A n \in Viewed(r) \ {read[r].node} : top \in ToSet(Chain(n))
  BY <1>4, <1>5 DEF Viewed, LinkNames
<1>8. PICK names \in SUBSET Nodes : names = Viewed(r)
  BY <1>6
<1> QED
  BY <1>1, <1>2, <1>7, <1>8, ServeStep DEF RespondView

LEMMA SignUrlStep ==
    ASSUME IInv, NEW r \in Reads, SignUrl(r), Watch
    PROVE  IInv' /\ RevocationsKept
<1>1. read[r].pc = "respond"
  BY DEF SignUrl
<1>2. CASE Serve(r, {})
  BY <1>1, <1>2, ServeStep
<1>3. CASE Refuse(r)
  BY <1>1, <1>3, RefuseStep
<1> QED
  BY <1>2, <1>3 DEF SignUrl

-----------------------------------------------------------------------------
(* Every step *)

LEMMA OwnerSteps ==
    ASSUME IInv, NEW o \in OwnerRequests, OwnerStep(o)
    PROVE  IInv' /\ RevocationsKept
<1>1. ASSUME NEW w \in Write, Decide(o, w), Watch
      PROVE  IInv' /\ RevocationsKept
  BY <1>1, DecideStep DEF Decide, RevocationsKept
<1>2. ASSUME NEW n \in Nodes, NEW mode \in Mode, NEW e \in Time \cup {Never}, NEW us \in SUBSET Users,
             StartCreateShare(o, n, mode, e, us), Watch
      PROVE  IInv' /\ RevocationsKept
  BY <1>1, <1>2, DecidedIsWrite DEF StartCreateShare
<1>3. ASSUME NEW s \in Shares, StartRevokeShare(o, s), Watch
      PROVE  IInv' /\ RevocationsKept
  BY <1>1, <1>3, DecidedIsWrite DEF StartRevokeShare
<1>4. ASSUME NEW s \in Shares, NEW e \in Time \cup {Never}, StartSetExpiry(o, s, e), Watch
      PROVE  IInv' /\ RevocationsKept
  BY <1>1, <1>4, DecidedIsWrite DEF StartSetExpiry
<1>5. ASSUME NEW s \in Shares, NEW us \in SUBSET Users, StartAddGrants(o, s, us), Watch
      PROVE  IInv' /\ RevocationsKept
  BY <1>1, <1>5, DecidedIsWrite DEF StartAddGrants
<1>6. ASSUME NEW s \in Shares, NEW u \in Users, StartRemoveGrant(o, s, u), Watch
      PROVE  IInv' /\ RevocationsKept
  BY <1>1, <1>6, DecidedIsWrite DEF StartRemoveGrant
<1>7. CASE CreateShare(o) /\ Watch
  BY <1>7, CreateShareKeeps, FinishStep DEF CreateShare, StoreKept
<1>8. CASE RevokeShare(o) /\ Watch
  BY <1>8, RevokeShareKeeps, FinishStep DEF RevokeShare, StoreKept
<1>9. CASE SetExpiry(o) /\ Watch
  BY <1>9, SetExpiryKeeps, FinishStep DEF SetExpiry, StoreKept
<1>10. CASE (AddGrants(o) \/ RemoveGrant(o)) /\ Watch
  BY <1>10, GrantsKeep, FinishStep DEF AddGrants, RemoveGrant, StoreKept
<1> QED
  BY <1>2, <1>3, <1>4, <1>5, <1>6, <1>7, <1>8, <1>9, <1>10 DEF OwnerStep

LEMMA RecipientSteps ==
    ASSUME IInv, NEW r \in Reads, RecipientStep(r)
    PROVE  IInv' /\ RevocationsKept
<1>1. ASSUME NEW n \in Nodes, NEW u \in Users, LoadFolder(r, u, n) \/ LoadFile(r, u, n), Watch
      PROVE  IInv' /\ RevocationsKept
  BY <1>1, LoadStep DEF LoadFolder, LoadFile
<1>2. ASSUME NEW n \in Nodes, NEW s \in Shares, NEW u \in Users \cup {Visitor},
             FindShare(r, s, u, n), Watch
      PROVE  IInv' /\ RevocationsKept
  BY <1>2, FindShareStep
<1>3. CASE (RespondUrl(r) \/ RespondLinkUrl(r)) /\ Watch
  BY <1>3, SignUrlStep DEF RespondUrl, RespondLinkUrl
<1> QED
  BY <1>1, <1>2, <1>3, ResolveStep, HoldsGrantStep, LocateStep, RespondContentsStep,
     RespondViewStep DEF RecipientStep

LEMMA OtherSteps ==
    ASSUME IInv, Watch,
           \/ \E u \in Users : SignIn(u)
           \/ \E f \in Files, d \in Folders : Move(f, d)
           \/ \E n \in Nodes : Delete(n)
           \/ Tick
    PROVE  IInv' /\ RevocationsKept
<1>1. StoreKept
  BY SignInKeeps, MoveKeeps, DeleteKeeps, TickKeeps
<1>2. OwnerTypes /\ owner' = owner /\ read' = read
  BY TypesSplit DEF IInv, SignIn, Move, Delete, Tick
<1>3. OwnerTypes'
  BY <1>2 DEF OwnerTypes
<1> QED
  BY <1>1, <1>2, <1>3, StoreStep DEF StoreKept

LEMMA StutterStep ==
    ASSUME IInv, UNCHANGED vars
    PROVE  IInv' /\ RevocationsKept
<1>1. UnusedAreClean' /\ RevocationsKept
  BY DEF IInv, vars, UnusedAreClean, RevocationsKept
<1>2. ASSUME NEW r \in Reads
      PROVE  ReadInv(r)'
  BY DEF IInv, vars, ReadInv
<1>3. TypeOK'
  BY DEF IInv, vars, treeVars, TypeOK
<1> QED
  BY <1>1, <1>2, <1>3 DEF IInv

LEMMA StepInv == IInv /\ [Next]_vars => IInv' /\ RevocationsKept
<1> SUFFICES ASSUME IInv, [Next]_vars
             PROVE  IInv' /\ RevocationsKept
  OBVIOUS
<1>1. CASE \E o \in OwnerRequests : OwnerStep(o)
  BY <1>1, OwnerSteps
<1>2. CASE \E r \in Reads : RecipientStep(r)
  BY <1>2, RecipientSteps
<1>3. CASE \/ \E u \in Users : SignIn(u) /\ Watch
           \/ \E f \in Files, d \in Folders : Move(f, d) /\ Watch
           \/ \E n \in Nodes : Delete(n) /\ Watch
           \/ Tick /\ Watch
  BY <1>3, OtherSteps
<1>4. CASE UNCHANGED vars
  BY <1>4, StutterStep
<1> QED
  BY <1>1, <1>2, <1>3, <1>4 DEF Next

LEMMA Invariance == Spec => []IInv
  BY InitInv, StepInv, PTL DEF Spec

-----------------------------------------------------------------------------
(* Theorems *)

\* Shares, grants, requests and reads stay well typed; a read that asks for a
\* grant has a user, and one past the share has a share.
THEOREM TypeCorrect == Spec => []TypeOK
<1>1. IInv => TypeOK
  BY DEF IInv
<1> QED
  BY <1>1, Invariance, PTL

\* Whoever is served was covered: the share served through was active, granted
\* to the reader and above the node at moments of the request itself, whatever
\* the owner revokes, removes, moves or deletes between its queries.
THEOREM ServingIsCovered == Spec => []ServedWasCovered
<1>1. IInv => ServedWasCovered
  BY DEF IInv, ReadInv, ServedWasCovered
<1> QED
  BY <1>1, Invariance, PTL

\* A link's view names only the node read and nodes at or below the shared one:
\* nothing above a shared folder is disclosed, though the path, the names and
\* the children are read at different moments.
THEOREM LinksDiscloseNothingAbove == Spec => []LinkNamesStayBelow
<1>1. IInv => LinkNamesStayBelow
  BY DEF IInv, ReadInv, LinkNamesStayBelow
<1> QED
  BY <1>1, Invariance, PTL

\* Once a share is revoked, no request moves or clears the moment of it: not a
\* second revocation that read the share before the first, nor an expiry, nor
\* the deletion of its node.
THEOREM RevocationIsFinal == Spec => RevocationSticks
<1>1. IInv /\ [Next]_vars =>
        [\A s \in Shares : share[s].revoked # Never => share'[s].revoked = share[s].revoked]_vars
  BY StepInv DEF RevocationsKept
<1> QED
  BY <1>1, Invariance, PTL DEF Spec, RevocationSticks

==============================================================================
