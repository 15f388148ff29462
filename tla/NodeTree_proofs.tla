--------------------------- MODULE NodeTree_proofs ---------------------------
(***************************************************************************)
(* Proofs about NodeTree: for any set of folders, files and requests and   *)
(* any bounds of the name probe, siblings have different names, paths and  *)
(* depths follow from parents, and a file's request is refused for its     *)
(* name only after it has really lost.                                     *)
(*                                                                         *)
(* A write checks the unique index and the foreign key on the rows of its  *)
(* own step, so names and parents never rest on what a request read        *)
(* earlier.  What does rest on an earlier read is the depth of a new       *)
(* folder: CreationsFit says why it is still right, a folder never moves.  *)
(***************************************************************************)
EXTENDS NodeTree, TLAPS

-----------------------------------------------------------------------------
(* Types *)

TreeTypes ==
    /\ state \in [Nodes -> {"unused", "PENDING", "READY", "gone"}]
    /\ parent \in [Nodes -> Folders \cup {None}]
    /\ path \in [Nodes -> Seq(Folders)]
    /\ depth \in [Nodes -> Nat]
    /\ name \in [Nodes -> Seq(Nat)]
    /\ \A n \in Nodes \ {Root} : HasRow(n) => name[n] \in Name

RequestTypes ==
    /\ req \in [Requests -> Request]
    /\ \A r \in Requests : RequestOK(req[r])

LEMMA TypesSplit == TypeOK <=> TreeTypes /\ RequestTypes
  BY DEF TypeOK, TreeTypes, RequestTypes

LEMMA SpellingIsName ==
    ASSUME NEW s \in Asked
    PROVE  <<s>> \in Name /\ <<s>> \in Seq(Nat)
  BY NamesAssumption DEF Name

LEMMA CandidateIsName ==
    ASSUME NEW n \in Name, NEW i \in Nat
    PROVE  nthCandidateName(n, i) \in Name
<1>1. n \in Seq(Nat) /\ n # << >> /\ n[1] \in Stems /\ Len(n) \in Nat /\ Len(n) > 0
  BY DEF Name
<1>2. Append(n, i) \in Seq(Nat) /\ Append(n, i) # << >> /\ Append(n, i)[1] = n[1]
  BY <1>1
<1> QED
  BY <1>1, <1>2 DEF Name, nthCandidateName

\* A request that goes on to a well-typed record leaves requests well typed.
LEMMA RequestGoesOn ==
    ASSUME RequestTypes, NEW r \in Requests, NEW q \in Request, RequestOK(q),
           req' = [req EXCEPT ![r] = q]
    PROVE  RequestTypes'
  BY DEF RequestTypes

\* What the steps of a request make of its record.
Stepped(q, step) == [q EXCEPT !.pc = step]
LookingOn(q, k) == [q EXCEPT !.from = k]
Found(q, c) == [q EXCEPT !.pc = "write", !.cand = c]
TryingAgain(q) == [q EXCEPT !.pc = "probe", !.from = 0, !.tries = q.tries + 1]
Begun(step, op, id, d, nm) ==
    [Idle EXCEPT !.pc = step, !.op = op, !.id = id, !.dir = d, !.want = nm,
                 !.cand = IF step = "write" THEN nm ELSE << >>]

SameWork(p, q) ==
    /\ p.op = q.op /\ p.id = q.id /\ p.dir = q.dir /\ p.want = q.want
    /\ p.rivals = q.rivals /\ p.outdated = q.outdated

LEMMA FoundIs ==
    ASSUME NEW q \in Request, NEW c \in Name
    PROVE  /\ Found(q, c) \in Request /\ SameWork(Found(q, c), q)
           /\ Found(q, c).pc = "write" /\ Found(q, c).cand = c
           /\ Found(q, c).from = q.from /\ Found(q, c).tries = q.tries
  BY DEF Request, Name, Found, SameWork

LEMMA SteppedIs ==
    ASSUME NEW q \in Request, NEW s \in {"probe", "answered", "refused"}
    PROVE  /\ Stepped(q, s) \in Request /\ SameWork(Stepped(q, s), q)
           /\ Stepped(q, s).pc = s /\ Stepped(q, s).cand = q.cand
           /\ Stepped(q, s).from = q.from /\ Stepped(q, s).tries = q.tries
  BY DEF Request, Stepped, SameWork

LEMMA LookingOnIs ==
    ASSUME NEW q \in Request, NEW k \in Nat
    PROVE  /\ LookingOn(q, k) \in Request /\ SameWork(LookingOn(q, k), q)
           /\ LookingOn(q, k).pc = q.pc /\ LookingOn(q, k).cand = q.cand
           /\ LookingOn(q, k).from = k /\ LookingOn(q, k).tries = q.tries
  BY DEF Request, LookingOn, SameWork

LEMMA TryingAgainIs ==
    ASSUME NEW q \in Request
    PROVE  /\ TryingAgain(q) \in Request /\ SameWork(TryingAgain(q), q)
           /\ TryingAgain(q).pc = "probe" /\ TryingAgain(q).cand = q.cand
           /\ TryingAgain(q).from = 0 /\ TryingAgain(q).tries = q.tries + 1
<1>1. q.tries \in Nat
  BY DEF Request
<1>2. PICK k \in Nat : k = q.tries + 1
  BY <1>1
<1>3. PICK p : p = [q EXCEPT !.pc = "probe", !.from = 0, !.tries = k]
  OBVIOUS
<1>4. p \in Request
  BY <1>3 DEF Request
<1>5. TryingAgain(q) = p
  BY <1>2, <1>3 DEF TryingAgain
<1> QED
  BY <1>2, <1>3, <1>4, <1>5 DEF Request, SameWork

\* What a write by another leaves of a request.
OvertakenBy(q, k, o) == [q EXCEPT !.rivals = k, !.outdated = o]

LEMMA Overtaken ==
    ASSUME NEW q \in Request, NEW k \in 0 .. Retries,
           NEW o \in SUBSET {"renamed", "moved"}
    PROVE  /\ OvertakenBy(q, k, o) \in Request
           /\ OvertakenBy(q, k, o).pc = q.pc /\ OvertakenBy(q, k, o).cand = q.cand
           /\ OvertakenBy(q, k, o).op = q.op /\ OvertakenBy(q, k, o).id = q.id
           /\ OvertakenBy(q, k, o).dir = q.dir /\ OvertakenBy(q, k, o).want = q.want
           /\ OvertakenBy(q, k, o).from = q.from /\ OvertakenBy(q, k, o).tries = q.tries
           /\ OvertakenBy(q, k, o).rivals = k /\ OvertakenBy(q, k, o).outdated = o
  BY DEF Request, OvertakenBy

LEMMA IdleIsRequest ==
    /\ Idle \in Request
    /\ Idle.tries = 0 /\ Idle.rivals = 0 /\ Idle.from = 0 /\ Idle.outdated = {}
<1>1. << >> \in Seq(Nat) /\ 0 \in 0 .. Retries /\ Root \in Folders
  BY TreeAssumption, BoundsAssumption
<1> QED
  BY <1>1 DEF Idle, Request, Op

LEMMA AnsweredIsRequest ==
    Answered \in Request /\ RequestOK(Answered) /\ Answered.pc = "answered"
<1>1. Answered \in Request /\ Answered.pc = "answered"
  BY IdleIsRequest, SteppedIs DEF Answered, Stepped
<1> QED
  BY <1>1 DEF RequestOK

\* What a request starts with.
LEMMA BegunIs ==
    ASSUME NEW step \in {"target", "probe", "write"}, NEW op \in Op, NEW d \in Folders,
           NEW id \in Nodes \cup {None}, NEW nm \in Name
    PROVE  /\ Begun(step, op, id, d, nm) \in Request
           /\ Begun(step, op, id, d, nm).pc = step
           /\ Begun(step, op, id, d, nm).op = op
           /\ Begun(step, op, id, d, nm).id = id
           /\ Begun(step, op, id, d, nm).dir = d
           /\ Begun(step, op, id, d, nm).want = nm
           /\ step = "write" => Begun(step, op, id, d, nm).cand = nm
           /\ Begun(step, op, id, d, nm).from = 0
           /\ Begun(step, op, id, d, nm).tries = 0
           /\ Begun(step, op, id, d, nm).rivals = 0
           /\ Begun(step, op, id, d, nm).outdated = {}
<1>0. << >> \in Seq(Nat) /\ nm \in Seq(Nat)
  BY DEF Name
<1>1. PICK c \in Seq(Nat) : c = IF step = "write" THEN nm ELSE << >>
  BY <1>0, Zenon
<1>n. PICK w \in Seq(Nat) : w = nm
  BY <1>0
<1>2. PICK p : p = [Idle EXCEPT !.pc = step, !.op = op, !.id = id, !.dir = d, !.want = w,
                                !.cand = c]
  OBVIOUS
<1>3. /\ p \in Request
      /\ p.pc = step /\ p.op = op /\ p.id = id /\ p.dir = d /\ p.want = w /\ p.cand = c
      /\ p.from = 0 /\ p.tries = 0 /\ p.rivals = 0 /\ p.outdated = {}
  BY <1>2, IdleIsRequest DEF Request
<1>4. Begun(step, op, id, d, nm) = p
  BY <1>1, <1>2, <1>n DEF Begun
<1> QED
  BY <1>1, <1>3, <1>4, <1>n

-----------------------------------------------------------------------------
(* What each write does to the tree *)

TreeInv == TreeTypes /\ SiblingNamesUnique /\ PathsAgree

\* A name that is not taken is no sibling's.
LEMMA NotTaken ==
    ASSUME NEW d, NEW c, NEW n, ~Taken(d, c, n), NEW m \in Nodes, m # n, HasRow(m),
           parent[m] = d
    PROVE  Normalize(name[m]) # Normalize(c)
  BY DEF Taken, Children

LEMMA PrefixTypes ==
    ASSUME TreeTypes, NEW d \in Folders
    PROVE  /\ subtreePrefixOf(d) \in Seq(Folders)
           /\ Len(subtreePrefixOf(d)) = Len(path[d]) + 1
           /\ Len(path[d]) \in Nat
  BY DEF TreeTypes, subtreePrefixOf, Nodes

\* createFolder and reserveFile insert a row.
LEMMA InsertKeepsTree ==
    ASSUME TreeInv, NEW d \in Folders, NEW n \in Nodes, NEW c \in Name,
           NEW new \in {"PENDING", "READY"},
           HasRow(d), state[n] = "unused", ~Taken(d, c, None),
           n \in Folders => depth[d] + 1 <= MaxDepth,
           state' = [state EXCEPT ![n] = new],
           parent' = [parent EXCEPT ![n] = d],
           path' = [path EXCEPT ![n] = subtreePrefixOf(d)],
           depth' = [depth EXCEPT ![n] = depth[d] + 1],
           name' = [name EXCEPT ![n] = c]
    PROVE  TreeInv'
<1> USE TreeAssumption
<1>1. TreeTypes /\ SiblingNamesUnique /\ PathsAgree /\ d \in Nodes /\ Root \in Nodes
  BY DEF TreeInv, Nodes
<1>2. n # Root /\ n # d /\ ~HasRow(n)
  BY <1>1 DEF PathsAgree, HasRow
<1>3. c \in Seq(Nat)
  BY DEF Name
<1>4. \A m \in Nodes \ {n} : /\ HasRow(m)' = HasRow(m) /\ parent'[m] = parent[m]
                            /\ path'[m] = path[m] /\ depth'[m] = depth[m]
                            /\ name'[m] = name[m]
  BY <1>1 DEF TreeTypes, HasRow
<1>5. /\ HasRow(n)' /\ parent'[n] = d /\ path'[n] = Append(path[d], d)
      /\ depth'[n] = depth[d] + 1 /\ name'[n] = c
  BY <1>1 DEF TreeTypes, HasRow, subtreePrefixOf
<1>6. TreeTypes'
  <2>a. subtreePrefixOf(d) \in Seq(Folders)
    BY <1>1, PrefixTypes
  <2>1. subtreePrefixOf(d) \in Seq(Folders) /\ depth[d] + 1 \in Nat
    BY <1>1, <2>a DEF TreeTypes
  <2>2. /\ state' \in [Nodes -> {"unused", "PENDING", "READY", "gone"}]
        /\ parent' \in [Nodes -> Folders \cup {None}]
        /\ path' \in [Nodes -> Seq(Folders)]
        /\ depth' \in [Nodes -> Nat]
        /\ name' \in [Nodes -> Seq(Nat)]
    BY <1>1, <1>3, <2>1 DEF TreeTypes
  <2>3. \A m \in Nodes \ {Root} : HasRow(m)' => name'[m] \in Name
    BY <1>1, <1>4, <1>5 DEF TreeTypes
  <2> QED
    BY <2>2, <2>3 DEF TreeTypes
<1>7. SiblingNamesUnique'
  BY <1>1, <1>2, <1>4, <1>5, NotTaken DEF SiblingNamesUnique, Nodes
<1>8. PathsAgree'
  <2>1. HasRow(Root)' /\ parent'[Root] = None /\ path'[Root] = << >>
    BY <1>1, <1>2, <1>4 DEF PathsAgree
  <2>2. ASSUME NEW m \in Nodes \ {Root}, HasRow(m)'
        PROVE  /\ parent'[m] # None
               /\ HasRow(parent[m])'
               /\ path'[m] = Append(path'[parent'[m]], parent'[m])
    <3>1. CASE m = n
      BY <1>1, <1>2, <1>4, <1>5, <3>1 DEF HasRow
    <3>2. CASE m # n
      <4>1. /\ HasRow(m) /\ parent[m] # None /\ parent[m] \in Folders /\ HasRow(parent[m])
            /\ path[m] = Append(path[parent[m]], parent[m])
        BY <1>1, <1>4, <2>2, <3>2 DEF PathsAgree, TreeTypes, subtreePrefixOf
      <4>2. parent[m] # n /\ parent[m] \in Nodes
        BY <1>2, <4>1 DEF Nodes
      <4> QED
        BY <1>4, <3>2, <4>1, <4>2 DEF HasRow
    <3> QED
      BY <3>1, <3>2
  <2>3. \A m \in Nodes : HasRow(m)' => depth'[m] = Len(path'[m])
    <3>1. depth[d] = Len(path[d]) /\ path[d] \in Seq(Folders)
      BY <1>1 DEF PathsAgree, TreeTypes
    <3>2. Len(Append(path[d], d)) = Len(path[d]) + 1
      BY <3>1
    <3> QED
      BY <1>1, <1>4, <1>5, <3>1, <3>2 DEF PathsAgree
  <2>4. \A x \in Folders : HasRow(x)' => depth'[x] <= MaxDepth
    BY <1>1, <1>4, <1>5 DEF PathsAgree, Nodes
  <2> QED
    BY <2>1, <2>2, <2>3, <2>4 DEF PathsAgree, subtreePrefixOf
<1> QED
  BY <1>6, <1>7, <1>8 DEF TreeInv

\* renameNode and renameFile write a name that is free where the row is now.
LEMMA RenameKeepsTree ==
    ASSUME TreeInv, NEW n \in Nodes \ {Root}, NEW c \in Name,
           HasRow(n), ~Taken(parent[n], c, n),
           name' = [name EXCEPT ![n] = c], UNCHANGED <<state, parent, path, depth>>
    PROVE  TreeInv'
<1>1. TreeTypes /\ SiblingNamesUnique /\ PathsAgree /\ c \in Seq(Nat)
  BY DEF TreeInv, Name
<1>2. name'[n] = c /\ \A m \in Nodes \ {n} : name'[m] = name[m]
  BY <1>1 DEF TreeTypes
<1>3. \A m \in Nodes : HasRow(m)' = HasRow(m)
  BY DEF HasRow
<1>4. TreeTypes'
  BY <1>1, <1>2, <1>3 DEF TreeTypes
<1>5. SiblingNamesUnique'
  BY <1>1, <1>2, <1>3, NotTaken DEF SiblingNamesUnique
<1>6. PathsAgree'
  BY <1>1, <1>3 DEF PathsAgree, HasRow, subtreePrefixOf
<1> QED
  BY <1>4, <1>5, <1>6 DEF TreeInv

\* moveFile writes the name, the parent and what follows from the parent.
LEMMA MoveKeepsTree ==
    ASSUME TreeInv, NEW f \in Files, NEW d \in Folders, NEW c \in Name,
           HasRow(f), HasRow(d), ~Taken(d, c, f), PositionAt(f, d, c), UNCHANGED state
    PROVE  TreeInv'
<1> USE TreeAssumption
<1>1. /\ TreeTypes /\ SiblingNamesUnique /\ PathsAgree /\ c \in Seq(Nat)
      /\ d \in Nodes /\ Root \in Nodes /\ f \in Nodes /\ f \notin Folders
  BY DEF TreeInv, Name, Nodes
<1>2. \A m \in Nodes : HasRow(m)' = HasRow(m)
  BY DEF HasRow
<1>3. \A m \in Nodes \ {f} : /\ parent'[m] = parent[m] /\ path'[m] = path[m]
                            /\ depth'[m] = depth[m] /\ name'[m] = name[m]
  BY <1>1 DEF TreeTypes, PositionAt
<1>4. /\ parent'[f] = d /\ path'[f] = Append(path[d], d)
      /\ depth'[f] = depth[d] + 1 /\ name'[f] = c
  BY <1>1 DEF TreeTypes, PositionAt, subtreePrefixOf
<1>5. TreeTypes'
  <2>a. subtreePrefixOf(d) \in Seq(Folders)
    BY <1>1, PrefixTypes
  <2>1. subtreePrefixOf(d) \in Seq(Folders) /\ depth[d] + 1 \in Nat
    BY <1>1, <2>a DEF TreeTypes
  <2>2. /\ state' \in [Nodes -> {"unused", "PENDING", "READY", "gone"}]
        /\ parent' \in [Nodes -> Folders \cup {None}]
        /\ path' \in [Nodes -> Seq(Folders)]
        /\ depth' \in [Nodes -> Nat]
        /\ name' \in [Nodes -> Seq(Nat)]
    BY <1>1, <2>1 DEF TreeTypes, PositionAt
  <2>3. \A m \in Nodes \ {Root} : HasRow(m)' => name'[m] \in Name
    BY <1>1, <1>2, <1>3, <1>4 DEF TreeTypes
  <2> QED
    BY <2>2, <2>3 DEF TreeTypes
<1>6. SiblingNamesUnique'
  BY <1>1, <1>2, <1>3, <1>4, NotTaken DEF SiblingNamesUnique
<1>7. PathsAgree'
  <2>1. HasRow(Root)' /\ parent'[Root] = None /\ path'[Root] = << >>
    BY <1>1, <1>2, <1>3 DEF PathsAgree
  <2>2. ASSUME NEW m \in Nodes \ {Root}, HasRow(m)'
        PROVE  /\ parent'[m] # None
               /\ HasRow(parent[m])'
               /\ path'[m] = Append(path'[parent'[m]], parent'[m])
    <3>1. CASE m = f
      BY <1>1, <1>2, <1>3, <1>4, <3>1 DEF HasRow
    <3>2. CASE m # f
      <4>1. /\ HasRow(m) /\ parent[m] # None /\ parent[m] \in Folders /\ HasRow(parent[m])
            /\ path[m] = Append(path[parent[m]], parent[m])
        BY <1>1, <1>2, <2>2, <3>2 DEF PathsAgree, TreeTypes, subtreePrefixOf
      <4>2. parent[m] # f /\ parent[m] \in Nodes
        BY <1>1, <4>1 DEF Nodes
      <4> QED
        BY <1>3, <3>2, <4>1, <4>2 DEF HasRow
    <3> QED
      BY <3>1, <3>2
  <2>3. \A m \in Nodes : HasRow(m)' => depth'[m] = Len(path'[m])
    <3>1. depth[d] = Len(path[d]) /\ path[d] \in Seq(Folders)
      BY <1>1 DEF PathsAgree, TreeTypes
    <3>2. Len(Append(path[d], d)) = Len(path[d]) + 1
      BY <3>1
    <3> QED
      BY <1>1, <1>2, <1>3, <1>4, <3>1, <3>2 DEF PathsAgree
  <2>4. \A x \in Folders : HasRow(x)' => depth'[x] <= MaxDepth
    BY <1>1, <1>2, <1>3 DEF PathsAgree, Nodes
  <2> QED
    BY <2>1, <2>2, <2>3, <2>4 DEF PathsAgree, subtreePrefixOf
<1> QED
  BY <1>5, <1>6, <1>7 DEF TreeInv

\* A removal that takes the children of what it takes leaves a tree.
LEMMA RemoveKeepsTree ==
    ASSUME TreeInv, NEW S \in SUBSET (Nodes \ {Root}), Remove(S),
           \A n \in Nodes \ {Root} : HasRow(n) /\ parent[n] \in S => n \in S
    PROVE  TreeInv'
<1> USE TreeAssumption
<1>1. TreeTypes /\ SiblingNamesUnique /\ PathsAgree /\ Root \in Nodes
  BY DEF TreeInv, Nodes
<1>2. \A n \in Nodes \ S : /\ state'[n] = state[n] /\ parent'[n] = parent[n]
                          /\ path'[n] = path[n] /\ depth'[n] = depth[n]
                          /\ name'[n] = name[n] /\ HasRow(n)' = HasRow(n)
  BY DEF Remove, HasRow
<1>3. \A n \in S : ~HasRow(n)'
  BY DEF Remove, HasRow
<1>4. TreeTypes'
  <2>1. << >> \in Seq(Folders) /\ << >> \in Seq(Nat)
    OBVIOUS
  <2>2. /\ state' \in [Nodes -> {"unused", "PENDING", "READY", "gone"}]
        /\ parent' \in [Nodes -> Folders \cup {None}]
        /\ path' \in [Nodes -> Seq(Folders)]
        /\ depth' \in [Nodes -> Nat]
        /\ name' \in [Nodes -> Seq(Nat)]
    BY <1>1, <2>1 DEF TreeTypes, Remove
  <2>3. \A m \in Nodes \ {Root} : HasRow(m)' => name'[m] \in Name
    BY <1>1, <1>2, <1>3 DEF TreeTypes
  <2> QED
    BY <2>2, <2>3 DEF TreeTypes
<1>5. SiblingNamesUnique'
  BY <1>1, <1>2, <1>3 DEF SiblingNamesUnique
<1>6. PathsAgree'
  <2>1. HasRow(Root)' /\ parent'[Root] = None /\ path'[Root] = << >>
    BY <1>1, <1>2 DEF PathsAgree
  <2>2. ASSUME NEW m \in Nodes \ {Root}, HasRow(m)'
        PROVE  /\ parent'[m] # None
               /\ HasRow(parent[m])'
               /\ path'[m] = Append(path'[parent'[m]], parent'[m])
    <3>1. m \notin S /\ HasRow(m)
      BY <1>2, <1>3, <2>2
    <3>2. /\ parent[m] # None /\ HasRow(parent[m])
          /\ path[m] = Append(path[parent[m]], parent[m])
      BY <1>1, <3>1 DEF PathsAgree, subtreePrefixOf
    <3>3. parent[m] \in Nodes
      BY <1>1, <3>2 DEF TreeTypes, Nodes
    <3>4. PICK d \in Nodes : d = parent[m]
      BY <3>3
    <3>5. d \notin S
      BY <3>1, <3>2, <3>4
    <3>6. parent'[m] = d /\ path'[m] = path[m]
      BY <1>2, <3>1, <3>4
    <3>7. path'[d] = path[d] /\ HasRow(d)'
      BY <1>2, <3>2, <3>4, <3>5
    <3> QED
      BY <3>2, <3>4, <3>6, <3>7 DEF HasRow
  <2>3. \A m \in Nodes : HasRow(m)' => depth'[m] = Len(path'[m])
    BY <1>1, <1>2, <1>3 DEF PathsAgree
  <2>4. \A x \in Folders : HasRow(x)' => depth'[x] <= MaxDepth
    BY <1>1, <1>2, <1>3 DEF PathsAgree, Nodes
  <2> QED
    BY <2>1, <2>2, <2>3, <2>4 DEF PathsAgree, subtreePrefixOf
<1> QED
  BY <1>4, <1>5, <1>6 DEF TreeInv

\* What deleteSubtree takes: a child of the folder, or of a row below it, has
\* the folder in its path.
LEMMA BelowIsClosed ==
    ASSUME TreeInv, NEW d \in Folders, HasRow(d), NEW n \in Nodes \ {Root}, HasRow(n),
           parent[n] \in {d} \cup Below(d)
    PROVE  n \in Below(d)
<1> DEFINE p == parent[n]
           k == Len(path[d]) + 1
<1>1. /\ TreeTypes /\ p \in Folders /\ p \in Nodes /\ d \in Nodes /\ HasRow(p)
      /\ path[p] \in Seq(Folders) /\ path[d] \in Seq(Folders)
      /\ path[n] = Append(path[p], p)
  BY TreeAssumption DEF TreeInv, PathsAgree, TreeTypes, subtreePrefixOf, Nodes
<1> HIDE DEF p
<1>2. /\ Len(path[n]) = Len(path[p]) + 1 /\ Len(path[p]) \in Nat /\ Len(path[d]) \in Nat
      /\ \A i \in 1 .. Len(path[p]) : path[n][i] = path[p][i]
      /\ path[n][Len(path[p]) + 1] = p
      /\ path[n] \in Seq(Folders)
  BY <1>1
<1>3. CASE p = d
  <2>1. Len(path[n]) = k /\ SubSeq(path[n], 1, k) = path[n]
    BY <1>1, <1>2, <1>3
  <2> QED
    BY <1>1, <1>2, <1>3, <2>1 DEF Below, subtreePrefixOf
<1>4. CASE p # d
  <2>1. /\ Len(path[p]) > Len(path[d])
        /\ SubSeq(path[p], 1, k) = subtreePrefixOf(d)
    BY <1>4 DEF Below, p
  <2>2. SubSeq(path[n], 1, k) = SubSeq(path[p], 1, k)
    <3>1. /\ SubSeq(path[n], 1, k) = [i \in 1 .. k |-> path[n][i]]
          /\ SubSeq(path[p], 1, k) = [i \in 1 .. k |-> path[p][i]]
      BY <1>1, <1>2, <2>1
    <3>2. \A i \in 1 .. k : path[n][i] = path[p][i]
      BY <1>2, <2>1
    <3> QED
      BY <3>1, <3>2
  <2>3. Len(path[n]) > Len(path[d])
    BY <1>2, <2>1
  <2>4. SubSeq(path[n], 1, Len(path[d]) + 1) = subtreePrefixOf(d)
    BY <2>1, <2>2, Zenon
  <2> QED
    BY <2>3, <2>4, Zenon DEF Below
<1> QED
  BY <1>3, <1>4

-----------------------------------------------------------------------------
(* What a request may still count on *)

\* The four invariants about requests, of one request's record.
Sound(q) ==
    /\ q.pc \in {"probe", "write"} => state[q.dir] # "unused"
    /\ q.pc \in {"target", "probe", "write"} /\ q.id # None => state[q.id] # "unused"
    /\ q.pc = "write" /\ q.op = "createFolder" /\ HasRow(q.dir)
         => depth[q.dir] + 1 <= MaxDepth
    /\ q.pc \in {"target", "probe", "write"} /\ q.op \in Arbitrated /\ "moved" \notin q.outdated
         => /\ q.tries < Retries /\ q.tries <= q.rivals
            /\ q.pc = "write" /\ Taken(q.dir, q.cand, q.id) => q.tries < q.rivals
            /\ q.op = "renameFile" /\ HasRow(q.id) => parent[q.id] = q.dir
    /\ q.pc = "refused" /\ q.op \in Arbitrated
         => \/ q.rivals = Retries
            \/ q.from + ProbeBatch >= ProbeLimit
            \/ "moved" \in q.outdated

LEMMA SoundMeans ==
    (\A r \in Requests : Sound(req[r]))
      <=> RowsWereRead /\ CreationsFit /\ LossesHaveRivals /\ RefusedOnlyAfterLosing
  BY DEF Sound, RowsWereRead, CreationsFit, LossesHaveRivals, RefusedOnlyAfterLosing

\* A step that leaves the tree alone: only the request that goes on matters.
LEMMA OneGoesOn ==
    ASSUME RequestTypes, \A x \in Requests : Sound(req[x]), UNCHANGED treeVars,
           NEW r \in Requests, NEW q \in Request, RequestOK(q), Sound(q),
           req' = [req EXCEPT ![r] = q]
    PROVE  RequestTypes' /\ \A x \in Requests : Sound(req[x])'
<1>1. \A x \in Requests : req'[x] = IF x = r THEN q ELSE req[x]
  BY DEF RequestTypes
<1>2. \A x \in Requests : Sound(req[x])'
  BY <1>1 DEF treeVars, Sound, Taken, Children, HasRow
<1> QED
  BY <1>2, RequestGoesOn

LEMMA AnsweredIsSound == Sound(Answered)
  BY AnsweredIsRequest DEF Sound

\* A write: the row n ends up in the folder d, nothing else changes, and the
\* requests that look for a name there have one more rival.
LEMMA OthersAreOvertaken ==
    ASSUME RequestTypes, \A x \in Requests : Sound(req[x]),
           NEW r \in Requests, NEW d \in Folders, NEW n \in Nodes,
           NEW f \in {None, n}, NEW how \in SUBSET {"renamed", "moved"},
           AnswerWritten(r, d, f, how),
           \A m \in Nodes \ {n} : /\ state'[m] = state[m] /\ parent'[m] = parent[m]
                                 /\ name'[m] = name[m] /\ depth'[m] = depth[m],
           state'[n] \in {"PENDING", "READY"}, parent'[n] = d,
           \/ state[n] = "unused"
           \/ HasRow(n) /\ parent[n] = d /\ depth'[n] = depth[n]
           \/ HasRow(n) /\ n \in Files /\ f = n /\ "moved" \in how
    PROVE  RequestTypes' /\ \A x \in Requests : Sound(req[x])'
<1> USE TreeAssumption, BoundsAssumption
<1> DEFINE k(x) == IF req[x].dir = d /\ req[x].pc \in {"probe", "write"} /\ req[x].rivals < Retries
                   THEN req[x].rivals + 1 ELSE req[x].rivals
           o(x) == IF f # None /\ req[x].id = f THEN req[x].outdated \cup how
                   ELSE req[x].outdated
<1>1. /\ req'[r] = Answered
      /\ \A x \in Requests \ {r} :
            req'[x] = [req[x] EXCEPT !.rivals = k(x), !.outdated = o(x)]
      /\ req' = [x \in Requests |-> req'[x]]
  BY DEF AnswerWritten
<1>2. \A x \in Requests : /\ req[x] \in Request /\ RequestOK(req[x]) /\ Sound(req[x])
                         /\ k(x) \in 0 .. Retries
                         /\ o(x) \in SUBSET {"renamed", "moved"}
  <2> TAKE x \in Requests
  <2>1. req[x] \in Request /\ RequestOK(req[x]) /\ Sound(req[x])
    BY DEF RequestTypes
  <2>2. req[x].rivals \in 0 .. Retries /\ req[x].outdated \in SUBSET {"renamed", "moved"}
    BY <2>1 DEF Request
  <2>3. k(x) \in 0 .. Retries
    BY <2>2
  <2>4. o(x) \in SUBSET {"renamed", "moved"}
    BY <2>2
  <2> QED
    BY <2>1, <2>3, <2>4
<1>3. ASSUME NEW x \in Requests \ {r}
      PROVE  /\ req'[x] \in Request
             /\ req'[x].pc = req[x].pc /\ req'[x].cand = req[x].cand
             /\ req'[x].op = req[x].op /\ req'[x].id = req[x].id
             /\ req'[x].dir = req[x].dir /\ req'[x].want = req[x].want
             /\ req'[x].from = req[x].from /\ req'[x].tries = req[x].tries
             /\ req'[x].rivals = k(x)
             /\ req'[x].outdated = o(x)
  <2>1. /\ req[x] \in Request /\ k(x) \in 0 .. Retries /\ o(x) \in SUBSET {"renamed", "moved"}
        /\ req'[x] = [req[x] EXCEPT !.rivals = k(x), !.outdated = o(x)]
    BY <1>1, <1>2
  <2> HIDE DEF k, o
  <2>2. PICK q \in Request : q = req[x]
    BY <2>1
  <2>3. PICK c \in 0 .. Retries : c = k(x)
    BY <2>1
  <2>4. PICK s \in SUBSET {"renamed", "moved"} : s = o(x)
    BY <2>1
  <2>5. PICK p : p = OvertakenBy(q, c, s)
    OBVIOUS
  <2>6. /\ p \in Request /\ p.pc = q.pc /\ p.cand = q.cand /\ p.op = q.op /\ p.id = q.id
        /\ p.dir = q.dir /\ p.want = q.want /\ p.from = q.from /\ p.tries = q.tries
        /\ p.rivals = c /\ p.outdated = s
    BY <2>5, Overtaken
  <2>7. req'[x] = p
    BY <2>1, <2>2, <2>3, <2>4, <2>5 DEF OvertakenBy
  <2> QED
    BY <2>2, <2>3, <2>4, <2>6, <2>7
<1>4. \A x \in Requests : req'[x] \in Request /\ RequestOK(req'[x])
  <2> HIDE DEF k, o
  <2>1. ASSUME NEW x \in Requests \ {r}
        PROVE  RequestOK(req'[x])
    <3>1. PICK q : q = req[x] /\ RequestOK(q)
      BY <1>2
    <3>2. PICK p : /\ p = req'[x] /\ p.pc = q.pc /\ p.cand = q.cand /\ p.op = q.op
                   /\ p.id = q.id /\ p.want = q.want
      BY <1>3, <3>1
    <3>3. RequestOK(p)
      BY <3>1, <3>2 DEF RequestOK
    <3> QED
      BY <3>2, <3>3
  <2> QED
    BY <1>1, <1>3, <2>1, AnsweredIsRequest
<1>5. RequestTypes'
  BY <1>1, <1>4 DEF RequestTypes
<1>6. ASSUME NEW x \in Requests \ {r}
      PROVE  Sound(req[x])'
  <2> PICK q \in Request : q = req[x]
    BY <1>2
  <2>1. /\ q \in Request /\ RequestOK(q) /\ Sound(q)
        /\ q.dir \in Folders /\ q.dir \in Nodes /\ q.tries \in Nat /\ q.rivals \in 0 .. Retries
        /\ q.id \in Nodes \cup {None}
    BY <1>2 DEF Request, Nodes
  <2>2. \A m \in Nodes : state[m] # "unused" => state'[m] # "unused"
    OBVIOUS
  <2>3. q.pc \in {"probe", "write"} => state[q.dir] # "unused"
    BY <2>1 DEF Sound
  <2>4. q.pc = "write" /\ q.op = "createFolder" /\ HasRow(q.dir)'
          => depth'[q.dir] + 1 <= MaxDepth
    <3> SUFFICES ASSUME q.pc = "write", q.op = "createFolder", HasRow(q.dir)'
                 PROVE  depth'[q.dir] + 1 <= MaxDepth
      OBVIOUS
    <3>1. q.dir # n \/ (HasRow(n) /\ depth'[n] = depth[n])
      <4>1. q.dir \in Folders /\ q.dir \notin Files /\ state[q.dir] # "unused"
        BY <2>1, <2>3
      <4> QED
        BY <4>1
    <3>2. HasRow(q.dir) /\ depth'[q.dir] = depth[q.dir]
      BY <2>1, <3>1 DEF HasRow
    <3> QED
      BY <2>1, <3>2 DEF Sound
  <2>5. q.dir # d /\ Taken(q.dir, q.cand, q.id)' => Taken(q.dir, q.cand, q.id)
    BY DEF Taken, Children, HasRow
  <2>6. ASSUME q.pc \in {"target", "probe", "write"}, q.op \in Arbitrated, "moved" \notin o(x)
        PROVE  /\ q.tries < Retries /\ q.tries <= k(x)
               /\ q.pc = "write" /\ Taken(q.dir, q.cand, q.id)' => q.tries < k(x)
               /\ q.op = "renameFile" /\ HasRow(q.id)' => parent'[q.id] = q.dir
    <3>1. "moved" \notin q.outdated
      BY <2>6
    <3>2. /\ q.tries < Retries /\ q.tries <= q.rivals
          /\ q.pc = "write" /\ Taken(q.dir, q.cand, q.id) => q.tries < q.rivals
          /\ q.op = "renameFile" /\ HasRow(q.id) => parent[q.id] = q.dir
      BY <2>1, <2>6, <3>1 DEF Sound
    <3>3. q.tries <= k(x) /\ (q.dir = d /\ q.pc = "write" => q.tries < k(x))
      BY <2>1, <3>2
    <3>4. q.dir # d /\ q.pc = "write" /\ Taken(q.dir, q.cand, q.id)' => q.tries < k(x)
      BY <2>1, <2>5, <3>2
    <3>5. ASSUME q.op = "renameFile", HasRow(q.id)'
          PROVE  parent'[q.id] = q.dir
      <4>1. q.id \in Files /\ q.id \in Nodes /\ q.id # None /\ state[q.id] # "unused"
        BY <2>1, <2>6, <3>5 DEF RequestOK, Sound, Nodes
      <4>2. CASE q.id # n
        BY <3>2, <3>5, <4>1, <4>2 DEF HasRow
      <4>3. CASE q.id = n
        <5>1. ~(f = n /\ "moved" \in how)
          BY <2>6, <4>1, <4>3
        <5> QED
          BY <3>2, <3>5, <4>1, <4>3, <5>1
      <4> QED
        BY <4>2, <4>3
    <3> QED
      BY <3>2, <3>3, <3>4, <3>5
  <2>7. q.pc = "refused" /\ q.op \in Arbitrated
          => k(x) = Retries \/ q.from + ProbeBatch >= ProbeLimit \/ "moved" \in o(x)
    BY <2>1 DEF Sound
  <2> HIDE DEF k, o
  <2> QED
    BY <1>3, <2>1, <2>2, <2>3, <2>4, <2>6, <2>7 DEF Sound
<1>7. Sound(req[r])'
  BY <1>1, AnsweredIsRequest DEF Sound
<1> QED
  BY <1>5, <1>6, <1>7

-----------------------------------------------------------------------------
(* Every step *)

Strong == TreeInv /\ RequestTypes /\ \A x \in Requests : Sound(req[x])

LEMMA StrongIsIInv == IInv <=> Strong
  BY TypesSplit, SoundMeans DEF IInv, Strong, TreeInv

LEMMA TreeStays ==
    ASSUME TreeInv, UNCHANGED treeVars
    PROVE  TreeInv'
  BY DEF treeVars, TreeInv, TreeTypes, SiblingNamesUnique, PathsAgree, HasRow, subtreePrefixOf

LEMMA GoesOn ==
    ASSUME Strong, UNCHANGED treeVars, NEW r \in Requests, NEW q \in Request,
           RequestOK(q), Sound(q), req' = [req EXCEPT ![r] = q]
    PROVE  Strong'
  BY TreeStays, OneGoesOn DEF Strong

LEMMA Replies ==
    ASSUME Strong, UNCHANGED treeVars, NEW r \in Requests, Answer(r)
    PROVE  Strong'
  BY GoesOn, AnsweredIsRequest, AnsweredIsSound DEF Answer

\* A row that is there: its parent is a folder, its name a name.
LEMMA RowsAre ==
    ASSUME TreeInv, NEW n \in Nodes \ {Root}, HasRow(n)
    PROVE  /\ parent[n] \in Folders /\ HasRow(parent[n]) /\ name[n] \in Name
           /\ state[n] # "unused" /\ state[parent[n]] # "unused"
  BY DEF TreeInv, TreeTypes, PathsAgree, HasRow

\* A request begins.
LEMMA Begins ==
    ASSUME Strong, NEW r \in Requests, NEW step \in {"target", "probe", "write"},
           NEW op \in Op, NEW d \in Folders, NEW id \in Nodes \cup {None}, NEW nm \in Name,
           Begin(r, step, op, id, d, nm),
           op = "renameNode" => id \in Folders \ {Root},
           op \in {"renameFile", "moveFile"} => id \in Files,
           op \in {"createFolder", "reserveFile"} => id = None,
           id # None => state[id] # "unused",
           step \in {"probe", "write"} => state[d] # "unused",
           step = "write" <=> op \in {"createFolder", "renameNode"},
           op = "createFolder" => depth[d] + 1 <= MaxDepth,
           op = "renameFile" => parent[id] = d
    PROVE  Strong'
<1>2. PICK p : p = Begun(step, op, id, d, nm)
  OBVIOUS
<1>3. /\ p \in Request
      /\ p.pc = step /\ p.op = op /\ p.id = id /\ p.dir = d /\ p.want = nm
      /\ step = "write" => p.cand = nm
      /\ p.from = 0 /\ p.tries = 0 /\ p.rivals = 0 /\ p.outdated = {}
  BY <1>2, BegunIs
<1>4. UNCHANGED treeVars /\ req' = [req EXCEPT ![r] = p]
  BY <1>2 DEF Begin, Begun
<1>5. RequestOK(p)
  BY <1>3 DEF RequestOK, Op
<1>6. Sound(p)
  BY <1>3, BoundsAssumption DEF Sound, Arbitrated
<1> QED
  BY <1>3, <1>4, <1>5, <1>6, GoesOn

LEMMA StartCreateKeeps ==
    ASSUME Strong, NEW r \in Requests, NEW d \in Folders, NEW s \in Asked,
           \/ StartCreateFolder(r, d, <<s>>)
           \/ StartRenameFolder(r, d, <<s>>)
           \/ StartReserveFile(r, d, <<s>>)
    PROVE  Strong'
<1>1. /\ <<s>> \in Name /\ d \in Nodes /\ None \notin Nodes
      /\ TreeInv /\ Op = {"createFolder", "renameNode", "reserveFile", "renameFile", "moveFile"}
  BY SpellingIsName, TreeAssumption DEF Nodes, Strong, Op
<1>2. CASE StartCreateFolder(r, d, <<s>>)
  <2>1. /\ state[d] # "unused" /\ depth[d] + 1 <= MaxDepth
        /\ Begin(r, "write", "createFolder", None, d, <<s>>)
    BY <1>2 DEF StartCreateFolder, HasRow
  <2> QED
    BY <1>1, <2>1, Begins
<1>3. CASE StartRenameFolder(r, d, <<s>>)
  BY <1>1, <1>3, RowsAre, Begins DEF StartRenameFolder
<1>4. CASE StartReserveFile(r, d, <<s>>)
  BY <1>1, <1>4, Begins DEF StartReserveFile, HasRow
<1> QED
  BY <1>2, <1>3, <1>4

LEMMA StartRenameFileKeeps ==
    ASSUME Strong, NEW r \in Requests, NEW f \in Files, NEW s \in Asked,
           StartRenameFile(r, f, <<s>>)
    PROVE  Strong'
<1>1. /\ <<s>> \in Name /\ f \in Nodes \ {Root} /\ None \notin Nodes
      /\ TreeInv /\ Op = {"createFolder", "renameNode", "reserveFile", "renameFile", "moveFile"}
  BY SpellingIsName, TreeAssumption DEF Nodes, Strong, Op
<1>2. HasRow(f)
  BY DEF StartRenameFile, HasRow
<1> QED
  BY <1>1, <1>2, RowsAre, Begins DEF StartRenameFile

LEMMA StartMoveFileKeeps ==
    ASSUME Strong, NEW r \in Requests, NEW f \in Files, NEW d \in Folders,
           StartMoveFile(r, f, d)
    PROVE  Strong'
<1>1. /\ f \in Nodes \ {Root} /\ None \notin Nodes
      /\ TreeInv /\ Op = {"createFolder", "renameNode", "reserveFile", "renameFile", "moveFile"}
  BY TreeAssumption DEF Nodes, Strong, Op
<1>2. HasRow(f)
  BY DEF StartMoveFile, HasRow
<1> QED
  BY <1>1, <1>2, RowsAre, Begins DEF StartMoveFile

LEMMA ReadTargetKeeps ==
    ASSUME Strong, NEW r \in Requests, ReadTarget(r)
    PROVE  Strong'
<1> PICK q \in Request : q = req[r]
  BY DEF Strong, RequestTypes
<1>1. /\ RequestOK(q) /\ Sound(q) /\ q.pc = "target" /\ UNCHANGED treeVars
      /\ Stepped(q, "probe") \in Request /\ SameWork(Stepped(q, "probe"), q)
      /\ Stepped(q, "probe").pc = "probe" /\ Stepped(q, "probe").cand = q.cand
      /\ Stepped(q, "probe").from = q.from /\ Stepped(q, "probe").tries = q.tries
  BY SteppedIs DEF Strong, RequestTypes, ReadTarget
<1>2. CASE HasRow(q.dir)
  <2>1. req' = [req EXCEPT ![r] = Stepped(q, "probe")]
    BY <1>2 DEF ReadTarget, Stepped
  <2>2. RequestOK(Stepped(q, "probe"))
    BY <1>1 DEF RequestOK, SameWork
  <2>3. Sound(Stepped(q, "probe"))
    BY <1>1, <1>2 DEF Sound, SameWork, HasRow
  <2> QED
    BY <1>1, <2>1, <2>2, <2>3, GoesOn
<1>3. CASE ~HasRow(q.dir)
  BY <1>1, <1>3, Replies DEF ReadTarget
<1> QED
  BY <1>2, <1>3

\* A probe that finds a name leaves it free for r, one that finds none goes on
\* or refuses when the whole family is taken.
LEMMA FindAvailableNameKeeps ==
    ASSUME Strong, NEW r \in Requests, FindAvailableName(r)
    PROVE  Strong'
<1> PICK q \in Request : q = req[r]
  BY DEF Strong, RequestTypes
<1>1. /\ RequestOK(q) /\ Sound(q) /\ q.pc = "probe" /\ UNCHANGED treeVars
      /\ q.want \in Name /\ q.from \in Nat /\ q.tries \in Nat
  <2>1. RequestOK(q) /\ Sound(q)
    BY DEF Strong, RequestTypes
  <2>2. q.pc = "probe" /\ UNCHANGED treeVars
    BY DEF FindAvailableName
  <2>3. q.want \in Name
    BY <2>1, <2>2 DEF RequestOK
  <2>4. q.from \in Nat /\ q.tries \in Nat
    BY DEF Request
  <2> QED
    BY <2>1, <2>2, <2>3, <2>4
<1>2. ASSUME NEW i \in FreeIndices(r),
             req' = [req EXCEPT ![r] = Found(q, nthCandidateName(q.want, i))]
      PROVE  Strong'
  <2>1. i \in Nat /\ ~Taken(q.dir, nthCandidateName(q.want, i), q.id)
    BY <1>1, BoundsAssumption DEF FreeIndices, Candidates
  <2>a. PICK c \in Name : c = nthCandidateName(q.want, i)
    BY <1>1, <2>1, CandidateIsName
  <2>b. PICK p : p = Found(q, c)
    OBVIOUS
  <2>2. /\ p \in Request /\ SameWork(p, q) /\ p.pc = "write" /\ p.cand = c
        /\ p.from = q.from /\ p.tries = q.tries
    BY <2>b, FoundIs
  <2>3. RequestOK(p)
    BY <1>1, <2>2 DEF RequestOK, SameWork
  <2>4. ~Taken(p.dir, p.cand, p.id)
    BY <2>1, <2>2, <2>a, Zenon DEF SameWork
  <2>5. q.op \in {"reserveFile", "renameFile", "moveFile"}
    BY <1>1 DEF RequestOK
  <2>6. Sound(p)
    BY <1>1, <2>2, <2>4, <2>5 DEF Sound, SameWork
  <2> QED
    BY <1>1, <1>2, <2>a, <2>b, <2>2, <2>3, <2>6, GoesOn
<1>3. ASSUME req' = [req EXCEPT ![r] = LookingOn(q, q.from + ProbeBatch)]
      PROVE  Strong'
  <2> PICK k \in Nat : k = q.from + ProbeBatch
    BY <1>1, BoundsAssumption
  <2> PICK p : p = LookingOn(q, k)
    OBVIOUS
  <2>1. /\ p \in Request /\ SameWork(p, q) /\ p.pc = "probe"
        /\ p.from = k /\ p.tries = q.tries
    BY <1>1, LookingOnIs
  <2>2. RequestOK(p)
    BY <1>1, <2>1 DEF RequestOK, SameWork
  <2>3. Sound(p)
    BY <1>1, <2>1 DEF Sound, SameWork
  <2> QED
    BY <1>1, <1>3, <2>1, <2>2, <2>3, GoesOn
<1>4. ASSUME req' = [req EXCEPT ![r] = Stepped(q, "refused")],
             ~(q.from + ProbeBatch < ProbeLimit)
      PROVE  Strong'
  <2> PICK p : p = Stepped(q, "refused")
    OBVIOUS
  <2>1. /\ p \in Request /\ SameWork(p, q) /\ p.pc = "refused" /\ p.from = q.from
    BY SteppedIs
  <2>2. RequestOK(p)
    BY <2>1 DEF RequestOK
  <2>3. Sound(p)
    BY <1>1, <1>4, <2>1, BoundsAssumption DEF Sound
  <2> QED
    BY <1>1, <1>4, <2>1, <2>2, <2>3, GoesOn
<1> QED
  BY <1>2, <1>3, <1>4 DEF FindAvailableName, Refuse, Found, LookingOn, Stepped

\* A write that loses was beaten by a rival it knows of.
LEMMA LoseRaceKeeps ==
    ASSUME Strong, UNCHANGED treeVars, NEW r \in Requests, req[r].pc = "write", LoseRace(r),
           req[r].op \in Arbitrated /\ "moved" \notin req[r].outdated
             => req[r].tries < req[r].rivals
    PROVE  Strong'
<1>q. PICK q \in Request : q = req[r]
  BY DEF Strong, RequestTypes
<1>1. /\ RequestOK(q) /\ Sound(q) /\ q.pc = "write"
      /\ q.tries \in Nat /\ q.rivals \in 0 .. Retries
      /\ q.op \in Arbitrated /\ "moved" \notin q.outdated => q.tries < q.rivals
  BY <1>q DEF Strong, RequestTypes, Request
<1>2. ASSUME q.op \in {"createFolder", "renameNode"} \/ q.tries + 1 = Retries,
             req' = [req EXCEPT ![r] = Stepped(q, "refused")]
      PROVE  Strong'
  <2>p. PICK p : p = Stepped(q, "refused")
    OBVIOUS
  <2>1. /\ p \in Request /\ SameWork(p, q) /\ p.pc = "refused" /\ p.from = q.from
    BY <2>p, SteppedIs
  <2>2. RequestOK(p)
    BY <2>1 DEF RequestOK
  <2>3. Sound(p)
    BY <1>1, <1>2, <2>1, BoundsAssumption DEF Sound, SameWork, Arbitrated
  <2> QED
    BY <1>2, <2>p, <2>1, <2>2, <2>3, GoesOn
<1>3. ASSUME q.op \notin {"createFolder", "renameNode"}, q.tries + 1 # Retries,
             req' = [req EXCEPT ![r] = TryingAgain(q)]
      PROVE  Strong'
  <2>p. PICK p : p = TryingAgain(q)
    OBVIOUS
  <2>1. /\ p \in Request /\ SameWork(p, q) /\ p.pc = "probe" /\ p.tries = q.tries + 1
    BY <2>p, TryingAgainIs
  <2>2. q.op \in {"reserveFile", "renameFile", "moveFile"}
    BY <1>3 DEF Request, Op
  <2>3. RequestOK(p)
    BY <1>1, <2>1, <2>2 DEF RequestOK, SameWork
  <2>4. Sound(p)
    BY <1>1, <1>3, <2>1, BoundsAssumption DEF Sound, SameWork, Arbitrated
  <2> QED
    BY <1>3, <2>p, <2>1, <2>3, <2>4, GoesOn
<1>4. \/ /\ q.op \in {"createFolder", "renameNode"} \/ q.tries + 1 = Retries
         /\ req' = [req EXCEPT ![r] = Stepped(q, "refused")]
      \/ /\ q.op \notin {"createFolder", "renameNode"} /\ q.tries + 1 # Retries
         /\ req' = [req EXCEPT ![r] = TryingAgain(q)]
  <2>1. CASE q.op \in {"createFolder", "renameNode"} \/ q.tries + 1 = Retries
    BY <1>q, <2>1 DEF LoseRace, Refuse, Stepped
  <2>2. CASE ~(q.op \in {"createFolder", "renameNode"} \/ q.tries + 1 = Retries)
    BY <1>q, <2>2 DEF LoseRace, TryingAgain
  <2> QED
    BY <2>1, <2>2
<1> QED
  BY <1>2, <1>3, <1>4

LEMMA InsertKeeps ==
    ASSUME Strong, NEW r \in Requests, Insert(r)
    PROVE  Strong'
<1> USE TreeAssumption
<1>q. PICK q \in Request : q = req[r]
  BY DEF Strong, RequestTypes
<1>1. /\ RequestOK(q) /\ Sound(q) /\ q.pc = "write" /\ q.op \in {"createFolder", "reserveFile"}
      /\ q.dir \in Folders /\ q.dir \in Nodes
  BY <1>q DEF Strong, RequestTypes, Request, Insert, Nodes
<1>2. q.id = None /\ q.cand \in Name
  BY <1>1 DEF RequestOK
<1>3. CASE Answer(r) /\ UNCHANGED treeVars
  BY <1>3, Replies
<1>4. CASE Taken(q.dir, q.cand, None) /\ LoseRace(r) /\ UNCHANGED treeVars
  <2>1. q.op \in Arbitrated /\ "moved" \notin q.outdated => q.tries < q.rivals
    BY <1>1, <1>2, <1>4 DEF Sound
  <2> QED
    BY <1>q, <1>1, <1>4, <2>1, LoseRaceKeeps
<1>5. ASSUME NEW n \in IF q.op = "createFolder" THEN Folders ELSE Files,
             HasRow(q.dir), ~Taken(q.dir, q.cand, None), state[n] = "unused",
             state' = [state EXCEPT ![n] = IF n \in Folders THEN "READY" ELSE "PENDING"],
             parent' = [parent EXCEPT ![n] = q.dir],
             path' = [path EXCEPT ![n] = subtreePrefixOf(q.dir)],
             depth' = [depth EXCEPT ![n] = depth[q.dir] + 1],
             name' = [name EXCEPT ![n] = q.cand],
             AnswerWritten(r, q.dir, None, {})
      PROVE  Strong'
  <2>1. n \in Nodes /\ (n \in Folders => q.op = "createFolder")
    BY <1>5 DEF Nodes
  <2>2. n \in Folders => depth[q.dir] + 1 <= MaxDepth
    BY <1>1, <1>5, <2>1 DEF Sound
  <2>n. PICK new \in {"PENDING", "READY"} : new = IF n \in Folders THEN "READY" ELSE "PENDING"
    OBVIOUS
  <2>3. state' = [state EXCEPT ![n] = new]
    BY <1>5, <2>n
  <2>4. TreeInv'
    BY <1>1, <1>2, <1>5, <2>1, <2>2, <2>3, InsertKeepsTree DEF Strong
  <2>5. TreeTypes /\ RequestTypes /\ \A x \in Requests : Sound(req[x])
    BY DEF Strong, TreeInv
  <2>6. /\ \A m \in Nodes \ {n} : /\ state'[m] = state[m] /\ parent'[m] = parent[m]
                                  /\ name'[m] = name[m] /\ depth'[m] = depth[m]
        /\ state'[n] \in {"PENDING", "READY"} /\ parent'[n] = q.dir
    BY <1>5, <2>1, <2>3, <2>5 DEF TreeTypes
  <2>7. RequestTypes' /\ \A x \in Requests : Sound(req[x])'
    BY <1>1, <1>5, <2>1, <2>5, <2>6, OthersAreOvertaken
  <2> QED
    BY <2>4, <2>7 DEF Strong
<1> QED
  BY <1>q, <1>3, <1>4, <1>5 DEF Insert

LEMMA UpdateNameKeeps ==
    ASSUME Strong, NEW r \in Requests, UpdateName(r)
    PROVE  Strong'
<1> USE TreeAssumption
<1>q. PICK q \in Request : q = req[r]
  BY DEF Strong, RequestTypes
<1>1. /\ RequestOK(q) /\ Sound(q) /\ q.pc = "write" /\ q.op \in {"renameNode", "renameFile"}
  BY <1>q DEF Strong, RequestTypes, UpdateName
<1>2. q.id \in Nodes \ {Root} /\ q.cand \in Name
  BY <1>1 DEF RequestOK, Nodes
<1>3. CASE Answer(r) /\ UNCHANGED treeVars
  BY <1>3, Replies
<1>4. CASE HasRow(q.id) /\ Taken(parent[q.id], q.cand, q.id) /\ LoseRace(r)
           /\ UNCHANGED treeVars
  <2>1. q.op \in Arbitrated /\ "moved" \notin q.outdated => q.tries < q.rivals
    BY <1>1, <1>4 DEF Sound, Arbitrated
  <2> QED
    BY <1>q, <1>1, <1>4, <2>1, LoseRaceKeeps
<1>5. ASSUME HasRow(q.id), ~Taken(parent[q.id], q.cand, q.id),
             UNCHANGED <<state, parent, path, depth>>,
             name' = [name EXCEPT ![q.id] = q.cand],
             AnswerWritten(r, parent[q.id], q.id, {"renamed"})
      PROVE  Strong'
  <2>1. TreeInv'
    BY <1>2, <1>5, RenameKeepsTree DEF Strong
  <2>2. TreeInv /\ TreeTypes /\ RequestTypes /\ \A x \in Requests : Sound(req[x])
    BY DEF Strong, TreeInv
  <2>3. parent[q.id] \in Folders
    BY <1>2, <1>5, <2>2, RowsAre
  <2>4. /\ \A m \in Nodes \ {q.id} : /\ state'[m] = state[m] /\ parent'[m] = parent[m]
                                     /\ name'[m] = name[m] /\ depth'[m] = depth[m]
        /\ state'[q.id] \in {"PENDING", "READY"} /\ parent'[q.id] = parent[q.id]
        /\ depth'[q.id] = depth[q.id]
    BY <1>2, <1>5, <2>2 DEF TreeTypes, HasRow
  <2>5. RequestTypes' /\ \A x \in Requests : Sound(req[x])'
    BY <1>2, <1>5, <2>2, <2>3, <2>4, OthersAreOvertaken
  <2> QED
    BY <2>1, <2>5 DEF Strong
<1> QED
  BY <1>q, <1>3, <1>4, <1>5 DEF UpdateName, treeVars

LEMMA UpdatePositionKeeps ==
    ASSUME Strong, NEW r \in Requests, UpdatePosition(r)
    PROVE  Strong'
<1> USE TreeAssumption
<1>q. PICK q \in Request : q = req[r]
  BY DEF Strong, RequestTypes
<1>1. /\ RequestOK(q) /\ Sound(q) /\ q.pc = "write" /\ q.op = "moveFile"
      /\ q.dir \in Folders /\ q.dir \in Nodes
  BY <1>q DEF Strong, RequestTypes, Request, UpdatePosition, Nodes
<1>2. q.id \in Files /\ q.id \in Nodes /\ q.cand \in Name
  BY <1>1 DEF RequestOK, Nodes
<1>3. CASE Answer(r) /\ UNCHANGED treeVars
  BY <1>3, Replies
<1>4. CASE Taken(q.dir, q.cand, q.id) /\ LoseRace(r) /\ UNCHANGED treeVars
  <2>1. q.op \in Arbitrated /\ "moved" \notin q.outdated => q.tries < q.rivals
    BY <1>1, <1>4 DEF Sound
  <2> QED
    BY <1>q, <1>1, <1>4, <2>1, LoseRaceKeeps
<1>5. ASSUME NEW how \in SUBSET {"renamed", "moved"}, "moved" \in how,
             HasRow(q.id), HasRow(q.dir), ~Taken(q.dir, q.cand, q.id), UNCHANGED state,
             PositionAt(q.id, q.dir, q.cand), AnswerWritten(r, q.dir, q.id, how)
      PROVE  Strong'
  <2>1. TreeInv /\ TreeTypes /\ RequestTypes /\ \A x \in Requests : Sound(req[x])
    BY DEF Strong, TreeInv
  <2>2. TreeInv'
    BY <1>1, <1>2, <1>5, <2>1, MoveKeepsTree
  <2>3. /\ \A m \in Nodes \ {q.id} : /\ state'[m] = state[m] /\ parent'[m] = parent[m]
                                     /\ name'[m] = name[m] /\ depth'[m] = depth[m]
        /\ state'[q.id] \in {"PENDING", "READY"} /\ parent'[q.id] = q.dir
    BY <1>2, <1>5, <2>1 DEF TreeTypes, PositionAt, HasRow
  <2>4. RequestTypes' /\ \A x \in Requests : Sound(req[x])'
    BY <1>1, <1>2, <1>5, <2>1, <2>3, OthersAreOvertaken
  <2> QED
    BY <2>2, <2>4 DEF Strong
<1>6. {"moved"} \cup {h \in {"renamed"} : name[q.id] # q.cand} \in SUBSET {"renamed", "moved"}
  OBVIOUS
<1> QED
  BY <1>q, <1>3, <1>4, <1>5, <1>6 DEF UpdatePosition

\* Commits and deletions take nothing from a request that it counts on.
LEMMA OthersCountOn ==
    ASSUME Strong, UNCHANGED req,
           \A n \in Nodes : /\ state[n] # "unused" => state'[n] # "unused"
                            /\ HasRow(n)' => /\ HasRow(n)
                                             /\ parent'[n] = parent[n]
                                             /\ depth'[n] = depth[n]
                                             /\ name'[n] = name[n]
    PROVE  RequestTypes' /\ \A x \in Requests : Sound(req[x])'
<1>1. RequestTypes'
  BY DEF Strong, RequestTypes, RequestOK
<1>2. ASSUME NEW x \in Requests
      PROVE  Sound(req[x])'
  <2>q. PICK q \in Request : q = req[x]
    BY DEF Strong, RequestTypes
  <2>1. Sound(q) /\ RequestOK(q) /\ q.dir \in Nodes /\ q.id \in Nodes \cup {None}
    BY <2>q DEF Strong, RequestTypes, Request, Nodes
  <2>2. Taken(q.dir, q.cand, q.id)' => Taken(q.dir, q.cand, q.id)
    BY DEF Taken, Children
  <2>3. q.op = "renameFile" /\ q.pc \in {"target", "probe", "write"} => q.id \in Nodes
    BY <2>1 DEF RequestOK, Nodes
  <2>4. Sound(q)'
    BY <2>1, <2>2, <2>3 DEF Sound
  <2> QED
    BY <2>q, <2>4
<1> QED
  BY <1>1, <1>2

LEMMA MarkReadyKeeps ==
    ASSUME Strong, NEW f \in Files, MarkReady(f)
    PROVE  Strong'
<1>1. TreeInv /\ TreeTypes /\ SiblingNamesUnique /\ PathsAgree /\ f \in Nodes
  BY DEF Strong, TreeInv, Nodes
<1>2. /\ \A n \in Nodes : HasRow(n)' = HasRow(n) /\ (state[n] # "unused" => state'[n] # "unused")
      /\ UNCHANGED <<parent, path, depth, name, req>>
      /\ state' \in [Nodes -> {"unused", "PENDING", "READY", "gone"}]
  BY <1>1 DEF MarkReady, HasRow, TreeTypes
<1>3. TreeInv'
  BY <1>1, <1>2, TreeAssumption
  DEF TreeInv, TreeTypes, SiblingNamesUnique, PathsAgree, subtreePrefixOf, Nodes
<1>4. RequestTypes' /\ \A x \in Requests : Sound(req[x])'
  BY <1>2, OthersCountOn
<1> QED
  BY <1>3, <1>4 DEF Strong

LEMMA RemovalKeeps ==
    ASSUME Strong, NEW S \in SUBSET (Nodes \ {Root}), Remove(S),
           \A n \in Nodes \ {Root} : HasRow(n) /\ parent[n] \in S => n \in S
    PROVE  Strong'
<1>1. TreeInv'
  BY RemoveKeepsTree DEF Strong
<1>2. \A n \in Nodes : /\ state[n] # "unused" => state'[n] # "unused"
                       /\ HasRow(n)' => /\ HasRow(n)
                                        /\ parent'[n] = parent[n]
                                        /\ depth'[n] = depth[n]
                                        /\ name'[n] = name[n]
  BY DEF Remove, HasRow
<1>3. UNCHANGED req
  BY DEF Remove
<1> QED
  BY <1>1, <1>2, <1>3, OthersCountOn DEF Strong

LEMMA FileRemovalKeeps ==
    ASSUME Strong, NEW f \in Files, Remove({f})
    PROVE  Strong'
<1>1. {f} \in SUBSET (Nodes \ {Root})
  BY TreeAssumption DEF Nodes
<1>2. \A n \in Nodes \ {Root} : HasRow(n) => parent[n] # f
  BY RowsAre, TreeAssumption DEF Strong
<1> QED
  BY <1>1, <1>2, RemovalKeeps

LEMMA DeleteSubtreeKeeps ==
    ASSUME Strong, NEW d \in Folders, DeleteSubtree(d)
    PROVE  Strong'
<1>1. TreeInv /\ HasRow(d) /\ d # Root /\ d \in Nodes /\ path[Root] = << >>
  BY DEF Strong, TreeInv, PathsAgree, DeleteSubtree, Nodes
<1>2. Root \notin Below(d)
  BY <1>1, PrefixTypes DEF Below, TreeInv
<1>3. {d} \cup Below(d) \in SUBSET (Nodes \ {Root})
  BY <1>1, <1>2 DEF Below
<1>4. \A n \in Nodes \ {Root} : HasRow(n) /\ parent[n] \in {d} \cup Below(d)
                               => n \in {d} \cup Below(d)
  BY <1>1, BelowIsClosed
<1> QED
  BY <1>3, <1>4, RemovalKeeps DEF DeleteSubtree

LEMMA InitIsStrong == Init => Strong
<1> SUFFICES ASSUME Init PROVE Strong
  OBVIOUS
<1> USE TreeAssumption
<1>1. PICK given \in [InitNodes -> InitNames] :
          /\ \A a, b \in InitNodes : a # b => Normalize(given[a]) # Normalize(given[b])
          /\ name = [n \in Nodes |-> IF n \in InitNodes THEN given[n] ELSE << >>]
  BY DEF Init
<1>2. /\ Root \in Nodes /\ Root \notin InitNodes /\ InitNodes \subseteq Nodes
      /\ << >> \in Seq(Nat) /\ << >> \in Seq(Folders) /\ <<Root>> \in Seq(Folders)
      /\ Len(<<Root>>) = 1 /\ <<Root>> = Append(<< >>, Root)
  BY DEF Nodes
<1>3. /\ state = [n \in Nodes |-> IF n \in InitNodes \cup {Root} THEN "READY" ELSE "unused"]
      /\ parent = [n \in Nodes |-> IF n \in InitNodes THEN Root ELSE None]
      /\ path = [n \in Nodes |-> IF n \in InitNodes THEN <<Root>> ELSE << >>]
      /\ depth = [n \in Nodes |-> IF n \in InitNodes THEN 1 ELSE 0]
      /\ req = [r \in Requests |-> Idle]
  BY DEF Init
<1>4. \A n \in Nodes : HasRow(n) <=> n \in InitNodes \cup {Root}
  BY <1>3 DEF HasRow
<1>5. \A n \in InitNodes : name[n] = given[n] /\ name[n] \in Name /\ name[n] \in Seq(Nat)
  BY <1>1, <1>2, NamesAssumption DEF Name
<1>6. TreeTypes
  <2>1. name \in [Nodes -> Seq(Nat)]
    BY <1>1, <1>2, <1>5
  <2>2. /\ state \in [Nodes -> {"unused", "PENDING", "READY", "gone"}]
        /\ parent \in [Nodes -> Folders \cup {None}]
        /\ path \in [Nodes -> Seq(Folders)]
        /\ depth \in [Nodes -> Nat]
    BY <1>2, <1>3
  <2> QED
    BY <1>4, <1>5, <2>1, <2>2 DEF TreeTypes
<1>7. SiblingNamesUnique
  BY <1>1, <1>2, <1>3, <1>4, <1>5 DEF SiblingNamesUnique
<1>8. PathsAgree
  <2>1. HasRow(Root) /\ parent[Root] = None /\ path[Root] = << >> /\ depth[Root] = 0
    BY <1>2, <1>3, <1>4
  <2>2. \A n \in InitNodes : parent[n] = Root /\ path[n] = <<Root>> /\ depth[n] = 1
    BY <1>2, <1>3
  <2>3. \A n \in Nodes \ {Root} : HasRow(n) => /\ parent[n] # None /\ HasRow(parent[n])
                                              /\ path[n] = Append(path[parent[n]], parent[n])
    BY <1>2, <1>4, <2>1, <2>2
  <2>e. Len(<< >>) = 0 /\ Len(<<Root>>) = 1
    OBVIOUS
  <2>4. \A n \in Nodes : HasRow(n) => depth[n] = Len(path[n]) /\ depth[n] \in {0, 1}
    BY <1>4, <2>1, <2>2, <2>e, Zenon
  <2>5. 1 <= MaxDepth /\ MaxDepth \in Nat
    BY BoundsAssumption
  <2>6. \A d \in Folders : HasRow(d) => depth[d] <= MaxDepth
    BY <2>4, <2>5 DEF Nodes
  <2> QED
    BY <2>1, <2>3, <2>4, <2>6 DEF PathsAgree, subtreePrefixOf
<1>9. RequestTypes /\ \A x \in Requests : Sound(req[x])
  <2>1. Idle \in Request /\ Idle.pc = "idle"
    BY IdleIsRequest DEF Idle
  <2>2. RequestOK(Idle) /\ Sound(Idle)
    BY <2>1 DEF RequestOK, Sound
  <2> QED
    BY <1>3, <2>1, <2>2 DEF RequestTypes
<1> QED
  BY <1>6, <1>7, <1>8, <1>9 DEF Strong, TreeInv

LEMMA StutterKeeps ==
    ASSUME Strong, UNCHANGED vars
    PROVE  Strong'
<1>1. TreeInv' /\ UNCHANGED <<req, state, parent, path, depth, name>>
  BY TreeStays DEF Strong, vars, treeVars
<1>2. RequestTypes' /\ \A x \in Requests : Sound(req[x])'
  BY <1>1, OthersCountOn DEF HasRow
<1> QED
  BY <1>1, <1>2 DEF Strong

LEMMA StepKeeps ==
    ASSUME Strong, [Next]_vars
    PROVE  Strong'
<1>1. ASSUME NEW r \in Requests, RequestStep(r)
      PROVE  Strong'
  <2>1. CASE \E d \in Folders, s \in Asked : \/ StartCreateFolder(r, d, <<s>>)
                                            \/ StartRenameFolder(r, d, <<s>>)
                                            \/ StartReserveFile(r, d, <<s>>)
    BY <2>1, StartCreateKeeps
  <2>2. CASE \E f \in Files, s \in Asked : StartRenameFile(r, f, <<s>>)
    BY <2>2, StartRenameFileKeeps
  <2>3. CASE \E f \in Files, d \in Folders : StartMoveFile(r, f, d)
    BY <2>3, StartMoveFileKeeps
  <2>4. CASE ReadTarget(r)
    BY <2>4, ReadTargetKeeps
  <2>5. CASE FindAvailableName(r)
    BY <2>5, FindAvailableNameKeeps
  <2>6. CASE Insert(r)
    BY <2>6, InsertKeeps
  <2>7. CASE UpdateName(r)
    BY <2>7, UpdateNameKeeps
  <2>8. CASE UpdatePosition(r)
    BY <2>8, UpdatePositionKeeps
  <2> QED
    BY <1>1, <2>1, <2>2, <2>3, <2>4, <2>5, <2>6, <2>7, <2>8 DEF RequestStep
<1>2. ASSUME NEW f \in Files, MarkReady(f) \/ DropReservation(f) \/ DeleteFile(f)
      PROVE  Strong'
  BY <1>2, MarkReadyKeeps, FileRemovalKeeps DEF DropReservation, DeleteFile
<1>3. ASSUME NEW d \in Folders, DeleteSubtree(d)
      PROVE  Strong'
  BY <1>3, DeleteSubtreeKeeps
<1>4. CASE UNCHANGED vars
  BY <1>4, StutterKeeps
<1> QED
  BY <1>1, <1>2, <1>3, <1>4 DEF Next

\* The strengthened invariant is inductive.
LEMMA Invariance == Spec => []IInv
<1>1. Init => IInv
  BY InitIsStrong, StrongIsIInv
<1>2. IInv /\ [Next]_vars => IInv'
  <2>1. IInv => Strong
    BY StrongIsIInv
  <2>2. Strong' => IInv'
    BY StrongIsIInv, PTL
  <2> QED
    BY <2>1, <2>2, StepKeeps
<1> QED
  BY <1>1, <1>2, PTL DEF Spec

-----------------------------------------------------------------------------
(* What a move knows *)

Reach == 0 .. ProbeLimit + ProbeBatch
AtWork(q) == q.pc \in {"target", "probe", "write"}

\* A move that nobody interfered with asks for the name the file has, and in
\* the folder the file is in the first name it probes is that one.
Informed(q) ==
    /\ AtWork(q) => q.from < ProbeLimit
    /\ AtWork(q) /\ q.op = "moveFile" /\ q.outdated = {} /\ HasRow(q.id)
       => /\ q.want = name[q.id]
          /\ q.pc = "write" => q.cand \in {nthCandidateName(q.want, i) : i \in Reach}
          /\ q.dir = parent[q.id] => q.from = 0 /\ (q.pc = "write" => q.cand = q.want)

MovesInformed == \A r \in Requests : Informed(req[r])

\* What another's step has to leave of the request q, which becomes p.
LEMMA InformedStays ==
    ASSUME NEW q, NEW p, Informed(q),
           p.pc = q.pc, p.op = q.op, p.id = q.id, p.dir = q.dir, p.want = q.want,
           p.cand = q.cand, p.from = q.from,
           AtWork(q) /\ q.op = "moveFile" /\ p.outdated = {} /\ HasRow(q.id)'
             => /\ q.outdated = {} /\ HasRow(q.id)
                /\ name'[q.id] = name[q.id] /\ parent'[q.id] = parent[q.id]
    PROVE  AtWork(p) => Informed(p)'
  BY DEF Informed, AtWork

LEMMA RestIsInformed ==
    ASSUME NEW q, ~AtWork(q)
    PROVE  Informed(q)'
  BY DEF Informed, AtWork

\* A step that leaves the tree alone: only the request that goes on matters.
LEMMA OneIsInformed ==
    ASSUME RequestTypes, MovesInformed, UNCHANGED treeVars,
           NEW r \in Requests, NEW p, Informed(p), req' = [req EXCEPT ![r] = p]
    PROVE  MovesInformed'
<1>1. \A x \in Requests : req'[x] = IF x = r THEN p ELSE req[x]
  BY DEF RequestTypes
<1> QED
  BY <1>1 DEF MovesInformed, treeVars, Informed, HasRow, AtWork

LEMMA BeginsInformed ==
    ASSUME Strong, MovesInformed, NEW r \in Requests, NEW step \in {"target", "probe", "write"},
           NEW op \in Op, NEW d \in Folders, NEW id \in Nodes \cup {None}, NEW nm \in Name,
           Begin(r, step, op, id, d, nm),
           op = "moveFile" => step = "target" /\ nm = name[id]
    PROVE  MovesInformed'
<1>1. PICK p : p = Begun(step, op, id, d, nm)
  OBVIOUS
<1>2. /\ p.pc = step /\ p.op = op /\ p.id = id /\ p.dir = d /\ p.want = nm
      /\ p.from = 0 /\ p.outdated = {}
  BY <1>1, BegunIs
<1>3. UNCHANGED treeVars /\ req' = [req EXCEPT ![r] = p]
  BY <1>1 DEF Begin, Begun
<1>4. Informed(p)
  BY <1>2, BoundsAssumption DEF Informed, AtWork
<1> QED
  BY <1>3, <1>4, OneIsInformed DEF Strong

LEMMA AnsweredIsInformed == Informed(Answered)
  BY AnsweredIsRequest DEF Informed, AtWork

LEMMA RepliesInformed ==
    ASSUME Strong, MovesInformed, UNCHANGED treeVars, NEW r \in Requests, Answer(r)
    PROVE  MovesInformed'
  BY AnsweredIsInformed, OneIsInformed DEF Answer, Strong

LEMMA StartsInformed ==
    ASSUME Strong, MovesInformed, NEW r \in Requests,
           \/ \E d \in Folders, s \in Asked : \/ StartCreateFolder(r, d, <<s>>)
                                             \/ StartRenameFolder(r, d, <<s>>)
                                             \/ StartReserveFile(r, d, <<s>>)
           \/ \E f \in Files, s \in Asked : StartRenameFile(r, f, <<s>>)
           \/ \E f \in Files, d \in Folders : StartMoveFile(r, f, d)
    PROVE  MovesInformed'
<1> USE TreeAssumption
<1>1. /\ TreeInv
      /\ Op = {"createFolder", "renameNode", "reserveFile", "renameFile", "moveFile"}
      /\ Nodes = Folders \cup Files
  BY DEF Strong, Op, Nodes
<1>2. ASSUME NEW d \in Folders, NEW s \in Asked,
             \/ StartCreateFolder(r, d, <<s>>)
             \/ StartRenameFolder(r, d, <<s>>)
             \/ StartReserveFile(r, d, <<s>>)
      PROVE  MovesInformed'
  <2>1. <<s>> \in Name
    BY SpellingIsName
  <2>2. CASE StartCreateFolder(r, d, <<s>>)
    BY <1>1, <2>1, <2>2, BeginsInformed DEF StartCreateFolder
  <2>3. CASE StartRenameFolder(r, d, <<s>>)
    <3>1. parent[d] \in Folders
      BY <1>1, <2>3, RowsAre DEF StartRenameFolder
    <3> QED
      BY <1>1, <2>1, <2>3, <3>1, BeginsInformed DEF StartRenameFolder
  <2>4. CASE StartReserveFile(r, d, <<s>>)
    BY <1>1, <2>1, <2>4, BeginsInformed DEF StartReserveFile
  <2> QED
    BY <1>2, <2>2, <2>3, <2>4
<1>3. ASSUME NEW f \in Files, NEW s \in Asked, StartRenameFile(r, f, <<s>>)
      PROVE  MovesInformed'
  <2>1. <<s>> \in Name /\ f \in Nodes \ {Root} /\ HasRow(f)
    BY <1>1, <1>3, SpellingIsName DEF StartRenameFile, HasRow
  <2>2. parent[f] \in Folders
    BY <1>1, <2>1, RowsAre
  <2> QED
    BY <1>1, <1>3, <2>1, <2>2, BeginsInformed DEF StartRenameFile
<1>4. ASSUME NEW f \in Files, NEW d \in Folders, StartMoveFile(r, f, d)
      PROVE  MovesInformed'
  <2>1. f \in Nodes \ {Root} /\ HasRow(f)
    BY <1>1, <1>4 DEF StartMoveFile, HasRow
  <2>2. name[f] \in Name
    BY <1>1, <2>1, RowsAre
  <2> QED
    BY <1>1, <1>4, <2>1, <2>2, BeginsInformed DEF StartMoveFile
<1> QED
  BY <1>2, <1>3, <1>4

LEMMA ReadTargetInformed ==
    ASSUME Strong, MovesInformed, NEW r \in Requests, ReadTarget(r)
    PROVE  MovesInformed'
<1> PICK q \in Request : q = req[r]
  BY DEF Strong, RequestTypes
<1>1. Informed(q) /\ q.pc = "target" /\ UNCHANGED treeVars /\ RequestTypes
  BY DEF MovesInformed, ReadTarget, Strong
<1>2. CASE HasRow(q.dir)
  <2>1. PICK p : p = Stepped(q, "probe")
    OBVIOUS
  <2>2. /\ req' = [req EXCEPT ![r] = p]
        /\ SameWork(p, q) /\ p.pc = "probe" /\ p.from = q.from
    BY <1>2, <2>1, SteppedIs DEF ReadTarget, Stepped
  <2>3. Informed(p)
    BY <1>1, <2>2 DEF Informed, AtWork, SameWork
  <2> QED
    BY <1>1, <2>2, <2>3, OneIsInformed
<1>3. CASE ~HasRow(q.dir)
  BY <1>1, <1>3, RepliesInformed DEF ReadTarget
<1> QED
  BY <1>2, <1>3

\* The name of a file is free for the file itself in its own folder.
LEMMA OwnNameIsFree ==
    ASSUME TreeInv, NEW n \in Nodes, HasRow(n)
    PROVE  ~Taken(parent[n], name[n], n)
  BY DEF TreeInv, SiblingNamesUnique, Taken, Children

LEMMA FindAvailableNameInformed ==
    ASSUME Strong, MovesInformed, NEW r \in Requests, FindAvailableName(r)
    PROVE  MovesInformed'
<1> USE BoundsAssumption
<1> PICK q \in Request : q = req[r]
  BY DEF Strong, RequestTypes
<1>1. /\ Informed(q) /\ q.pc = "probe" /\ AtWork(q) /\ UNCHANGED treeVars /\ RequestTypes /\ TreeInv
      /\ q.from \in Nat /\ q.from < ProbeLimit /\ RequestOK(q) /\ q.want \in Name
  <2>1. Informed(q) /\ q.pc = "probe" /\ UNCHANGED treeVars /\ RequestTypes /\ TreeInv /\ RequestOK(q)
    BY DEF MovesInformed, FindAvailableName, Strong, RequestTypes
  <2>2. q.from \in Nat
    BY DEF Request
  <2> QED
    BY <2>1, <2>2 DEF Informed, AtWork, RequestOK
<1>2. FreeIndices(r) = {i \in q.from .. (q.from + ProbeBatch - 1) :
                           ~Taken(q.dir, nthCandidateName(q.want, i), q.id)}
  BY DEF FreeIndices, Candidates
<1>3. ASSUME q.op = "moveFile", q.outdated = {}, HasRow(q.id), q.dir = parent[q.id]
      PROVE  q.from = 0 /\ 0 \in FreeIndices(r) /\ q.want = name[q.id]
  <2>1. q.from = 0 /\ q.want = name[q.id]
    BY <1>1, <1>3 DEF Informed
  <2>2. q.id \in Nodes
    BY <1>1, <1>3 DEF RequestOK, Nodes
  <2>3. nthCandidateName(q.want, 0) = q.want
    BY DEF nthCandidateName
  <2>4. ~Taken(q.dir, nthCandidateName(q.want, 0), q.id)
    BY <1>1, <1>3, <2>1, <2>2, <2>3, OwnNameIsFree
  <2>5. 0 \in q.from .. (q.from + ProbeBatch - 1)
    BY <2>1
  <2> QED
    BY <1>2, <2>1, <2>4, <2>5
<1>4. ASSUME NEW i \in FreeIndices(r), \A j \in FreeIndices(r) : i <= j,
             req' = [req EXCEPT ![r] = Found(q, nthCandidateName(q.want, i))]
      PROVE  MovesInformed'
  <2>1. i \in Nat /\ i \in Reach
    BY <1>1, <1>2 DEF Reach
  <2>2. PICK c \in Name : c = nthCandidateName(q.want, i)
    BY <1>1, <2>1, CandidateIsName
  <2>3. PICK p : p = Found(q, c)
    OBVIOUS
  <2>4. SameWork(p, q) /\ p.pc = "write" /\ p.cand = c /\ p.from = q.from
    BY <2>3, FoundIs
  <2>5. ASSUME q.op = "moveFile", q.outdated = {}, HasRow(q.id)
        PROVE  q.want = name[q.id] /\ (q.dir = parent[q.id] => q.from = 0 /\ c = q.want)
    <3>1. q.want = name[q.id]
      BY <1>1, <2>5 DEF Informed
    <3>2. ASSUME q.dir = parent[q.id]
          PROVE  q.from = 0 /\ c = q.want
      <4>1. q.from = 0 /\ 0 \in FreeIndices(r)
        BY <1>3, <2>5, <3>2
      <4>2. i = 0
        BY <1>4, <2>1, <4>1
      <4> QED
        BY <2>2, <4>1, <4>2 DEF nthCandidateName
    <3> QED
      BY <3>1, <3>2
  <2>6. c \in {nthCandidateName(q.want, j) : j \in Reach}
    BY <2>1, <2>2
  <2>7. Informed(p)
    BY <1>1, <2>4, <2>5, <2>6 DEF Informed, SameWork
  <2> QED
    BY <1>1, <1>4, <2>2, <2>3, <2>7, OneIsInformed
<1>5. ASSUME FreeIndices(r) = {}, q.from + ProbeBatch < ProbeLimit,
             req' = [req EXCEPT ![r] = LookingOn(q, q.from + ProbeBatch)]
      PROVE  MovesInformed'
  <2>1. PICK k \in Nat : k = q.from + ProbeBatch
    BY <1>1
  <2>2. PICK p : p = LookingOn(q, k)
    OBVIOUS
  <2>3. SameWork(p, q) /\ p.pc = "probe" /\ p.from = k
    BY <1>1, <2>2, LookingOnIs
  <2>4. Informed(p)
    <3>1. q.op = "moveFile" /\ q.outdated = {} /\ HasRow(q.id)
            => q.want = name[q.id] /\ q.dir # parent[q.id]
      BY <1>1, <1>3, <1>5 DEF Informed
    <3> QED
      BY <1>5, <2>1, <2>3, <3>1 DEF Informed, SameWork
  <2> QED
    BY <1>1, <1>5, <2>1, <2>2, <2>4, OneIsInformed
<1>6. ASSUME req' = [req EXCEPT ![r] = Stepped(q, "refused")]
      PROVE  MovesInformed'
  <2>1. PICK p : p = Stepped(q, "refused")
    OBVIOUS
  <2>2. Informed(p)
    BY <2>1, SteppedIs DEF Informed, AtWork
  <2> QED
    BY <1>1, <1>6, <2>1, <2>2, OneIsInformed
<1> QED
  BY <1>4, <1>5, <1>6 DEF FindAvailableName, Refuse, Found, LookingOn, Stepped

LEMMA LoseRaceInformed ==
    ASSUME Strong, MovesInformed, NEW r \in Requests, LoseRace(r), req[r].pc = "write",
           UNCHANGED treeVars
    PROVE  MovesInformed'
<1> USE BoundsAssumption
<1> PICK q \in Request : q = req[r]
  BY DEF Strong, RequestTypes
<1>1. Informed(q) /\ q.pc = "write" /\ RequestTypes
  BY DEF MovesInformed, Strong
<1>2. CASE req' = [req EXCEPT ![r] = Stepped(q, "refused")]
  <2>1. PICK p : p = Stepped(q, "refused")
    OBVIOUS
  <2>2. Informed(p)
    BY <2>1, SteppedIs DEF Informed, AtWork
  <2> QED
    BY <1>1, <1>2, <2>1, <2>2, OneIsInformed
<1>3. CASE req' = [req EXCEPT ![r] = TryingAgain(q)]
  <2>1. PICK p : p = TryingAgain(q)
    OBVIOUS
  <2>2. SameWork(p, q) /\ p.pc = "probe" /\ p.from = 0
    BY <2>1, TryingAgainIs
  <2>3. Informed(p)
    BY <1>1, <2>2 DEF Informed, AtWork, SameWork
  <2> QED
    BY <1>1, <1>3, <2>1, <2>3, OneIsInformed
<1> QED
  BY <1>2, <1>3 DEF LoseRace, Refuse, Stepped, TryingAgain

\* A write: those who read the row n before are told, or n was no row.
LEMMA OthersStayInformed ==
    ASSUME Strong, MovesInformed, NEW r \in Requests, NEW d \in Folders, NEW n \in Nodes,
           NEW f \in {None, n}, NEW how \in SUBSET {"renamed", "moved"},
           AnswerWritten(r, d, f, how),
           \A m \in Nodes \ {n} : /\ state'[m] = state[m] /\ parent'[m] = parent[m]
                                 /\ name'[m] = name[m],
           state[n] = "unused" \/ (f = n /\ how # {})
    PROVE  MovesInformed'
<1> USE TreeAssumption
<1>1. /\ req'[r] = Answered
      /\ \A x \in Requests \ {r} :
            \E k \in 0 .. Retries :
               req'[x] = OvertakenBy(req[x], k, IF f # None /\ req[x].id = f
                                                THEN req[x].outdated \cup how
                                                ELSE req[x].outdated)
  <2>1. ASSUME NEW x \in Requests \ {r}
        PROVE  \E k \in 0 .. Retries :
                  req'[x] = OvertakenBy(req[x], k, IF f # None /\ req[x].id = f
                                                   THEN req[x].outdated \cup how
                                                   ELSE req[x].outdated)
    <3>1. req[x].rivals \in 0 .. Retries
      BY DEF Strong, RequestTypes, Request
    <3>2. PICK k \in 0 .. Retries :
            k = IF req[x].dir = d /\ req[x].pc \in {"probe", "write"} /\ req[x].rivals < Retries
                THEN req[x].rivals + 1 ELSE req[x].rivals
      BY <3>1, BoundsAssumption
    <3> QED
      BY <3>2 DEF AnswerWritten, OvertakenBy
  <2> QED
    BY <2>1 DEF AnswerWritten
<1>2. ASSUME NEW x \in Requests \ {r}
      PROVE  Informed(req[x])'
  <2>q. PICK q \in Request : q = req[x]
    BY DEF Strong, RequestTypes
  <2>1. Informed(q) /\ RequestOK(q) /\ Sound(q)
    BY <2>q DEF MovesInformed, Strong, RequestTypes
  <2>2. PICK o \in SUBSET {"renamed", "moved"} :
          o = IF f # None /\ q.id = f THEN q.outdated \cup how ELSE q.outdated
    BY DEF Request
  <2>3. PICK k \in 0 .. Retries : req'[x] = OvertakenBy(q, k, o)
    BY <1>1, <2>2, <2>q
  <2>4. PICK p : p = req'[x]
    OBVIOUS
  <2>5. /\ p.pc = q.pc /\ p.op = q.op /\ p.id = q.id /\ p.dir = q.dir /\ p.want = q.want
        /\ p.cand = q.cand /\ p.from = q.from /\ p.outdated = o
    BY <2>3, <2>4, Overtaken
  <2>6. ASSUME AtWork(q), q.op = "moveFile", p.outdated = {}, HasRow(q.id)'
        PROVE  /\ q.outdated = {} /\ HasRow(q.id)
               /\ name'[q.id] = name[q.id] /\ parent'[q.id] = parent[q.id]
    <3>1. q.id \in Files /\ q.id \in Nodes /\ q.id # None /\ state[q.id] # "unused"
      BY <2>1, <2>6 DEF RequestOK, Sound, Nodes, AtWork
    <3>2. q.id # n /\ q.outdated = {}
      BY <2>2, <2>5, <2>6, <3>1
    <3> QED
      BY <2>6, <3>1, <3>2 DEF HasRow
  <2>7. AtWork(p) => Informed(p)'
    BY <2>1, <2>5, <2>6, InformedStays
  <2>8. ~AtWork(p) => Informed(p)'
    BY RestIsInformed
  <2> QED
    BY <2>4, <2>7, <2>8 DEF Informed, AtWork
<1>3. Informed(req[r])'
  BY <1>1, AnsweredIsRequest DEF Informed, AtWork
<1> QED
  BY <1>2, <1>3 DEF MovesInformed

LEMMA WritesInformed ==
    ASSUME Strong, MovesInformed, NEW r \in Requests,
           Insert(r) \/ UpdateName(r) \/ UpdatePosition(r)
    PROVE  MovesInformed'
<1> USE TreeAssumption
<1>q. PICK q \in Request : q = req[r]
  BY DEF Strong, RequestTypes
<1>1. /\ RequestOK(q) /\ q.pc = "write" /\ q.dir \in Folders
      /\ Strong /\ MovesInformed /\ TreeInv /\ TreeTypes
  BY <1>q DEF Strong, RequestTypes, Request, TreeInv, Insert, UpdateName, UpdatePosition
<1>2. CASE Answer(r) /\ UNCHANGED treeVars
  BY <1>1, <1>2, RepliesInformed
<1>3. CASE LoseRace(r) /\ UNCHANGED treeVars
  BY <1>q, <1>1, <1>3, LoseRaceInformed
<1>4. ASSUME NEW n \in Nodes, state[n] = "unused",
             state' = [state EXCEPT ![n] = IF n \in Folders THEN "READY" ELSE "PENDING"],
             parent' = [parent EXCEPT ![n] = q.dir],
             name' = [name EXCEPT ![n] = q.cand],
             AnswerWritten(r, q.dir, None, {})
      PROVE  MovesInformed'
  <2>1. \A m \in Nodes \ {n} : /\ state'[m] = state[m] /\ parent'[m] = parent[m]
                               /\ name'[m] = name[m]
    BY <1>1, <1>4 DEF TreeTypes
  <2> QED
    BY <1>1, <1>4, <2>1, OthersStayInformed
<1>5. ASSUME q.op \in {"renameNode", "renameFile"}, HasRow(q.id), UNCHANGED <<state, parent>>,
             name' = [name EXCEPT ![q.id] = q.cand],
             AnswerWritten(r, parent[q.id], q.id, {"renamed"})
      PROVE  MovesInformed'
  <2>1. PICK n \in Nodes \ {Root} : n = q.id
    BY <1>1, <1>5 DEF RequestOK, Nodes
  <2>2. parent[n] \in Folders
    BY <1>1, <1>5, <2>1, RowsAre
  <2>3. \A m \in Nodes \ {n} : /\ state'[m] = state[m] /\ parent'[m] = parent[m]
                               /\ name'[m] = name[m]
    BY <1>1, <1>5, <2>1 DEF TreeTypes
  <2>4. AnswerWritten(r, parent[n], n, {"renamed"})
    BY <1>5, <2>1
  <2> QED
    BY <1>1, <2>2, <2>3, <2>4, OthersStayInformed
<1>6. ASSUME NEW how \in SUBSET {"renamed", "moved"}, "moved" \in how,
             q.op = "moveFile", UNCHANGED state, PositionAt(q.id, q.dir, q.cand),
             AnswerWritten(r, q.dir, q.id, how)
      PROVE  MovesInformed'
  <2>1. PICK n \in Nodes : n = q.id
    BY <1>1, <1>6 DEF RequestOK, Nodes
  <2>2. \A m \in Nodes \ {n} : /\ state'[m] = state[m] /\ parent'[m] = parent[m]
                               /\ name'[m] = name[m]
    BY <1>1, <1>6, <2>1 DEF TreeTypes, PositionAt
  <2>3. AnswerWritten(r, q.dir, n, how) /\ how # {}
    BY <1>6, <2>1
  <2> QED
    BY <1>1, <2>2, <2>3, OthersStayInformed
<1>7. CASE Insert(r)
  BY <1>q, <1>2, <1>3, <1>4, <1>7 DEF Insert, Nodes
<1>8. CASE UpdateName(r)
  BY <1>q, <1>2, <1>3, <1>5, <1>8 DEF UpdateName, treeVars
<1>9. CASE UpdatePosition(r)
  <2>1. {"moved"} \cup {h \in {"renamed"} : name[q.id] # q.cand} \in SUBSET {"renamed", "moved"}
    OBVIOUS
  <2> QED
    BY <1>q, <1>2, <1>3, <1>6, <1>9, <2>1 DEF UpdatePosition
<1> QED
  BY <1>7, <1>8, <1>9

\* Commits and deletions change no row that stays.
LEMMA RowsStayInformed ==
    ASSUME Strong, MovesInformed, UNCHANGED req,
           \A n \in Nodes : HasRow(n)' => /\ HasRow(n)
                                         /\ parent'[n] = parent[n]
                                         /\ name'[n] = name[n]
    PROVE  MovesInformed'
<1> SUFFICES ASSUME NEW x \in Requests
             PROVE  Informed(req[x])'
  BY DEF MovesInformed
<1>q. PICK q \in Request : q = req[x]
  BY DEF Strong, RequestTypes
<1>1. Informed(q) /\ RequestOK(q)
  BY <1>q DEF MovesInformed, Strong, RequestTypes
<1>2. AtWork(q) /\ q.op = "moveFile" => q.id \in Nodes
  BY <1>1 DEF RequestOK, AtWork, Nodes
<1>3. Informed(q)'
  BY <1>1, <1>2 DEF Informed, AtWork
<1> QED
  BY <1>q, <1>3

LEMMA StepInformed ==
    ASSUME Strong, MovesInformed, [Next]_vars
    PROVE  MovesInformed'
<1>1. ASSUME NEW r \in Requests, RequestStep(r)
      PROVE  MovesInformed'
  <2>1. CASE \/ \E d \in Folders, s \in Asked : \/ StartCreateFolder(r, d, <<s>>)
                                               \/ StartRenameFolder(r, d, <<s>>)
                                               \/ StartReserveFile(r, d, <<s>>)
             \/ \E f \in Files, s \in Asked : StartRenameFile(r, f, <<s>>)
             \/ \E f \in Files, d \in Folders : StartMoveFile(r, f, d)
    BY <2>1, StartsInformed
  <2>2. CASE ReadTarget(r)
    BY <2>2, ReadTargetInformed
  <2>3. CASE FindAvailableName(r)
    BY <2>3, FindAvailableNameInformed
  <2>4. CASE Insert(r) \/ UpdateName(r) \/ UpdatePosition(r)
    BY <2>4, WritesInformed
  <2> QED
    BY <1>1, <2>1, <2>2, <2>3, <2>4 DEF RequestStep
<1>2. ASSUME NEW S, Remove(S)
      PROVE  MovesInformed'
  <2>1. UNCHANGED req /\ \A n \in Nodes : HasRow(n)' => /\ HasRow(n)
                                                       /\ parent'[n] = parent[n]
                                                       /\ name'[n] = name[n]
    BY <1>2 DEF Remove, HasRow
  <2> QED
    BY <2>1, RowsStayInformed
<1>3. ASSUME NEW f \in Files, MarkReady(f)
      PROVE  MovesInformed'
  <2>1. UNCHANGED <<parent, name, req>> /\ \A n \in Nodes : HasRow(n)' => HasRow(n)
    BY <1>3 DEF MarkReady, HasRow, Strong, TreeInv, TreeTypes
  <2> QED
    BY <2>1, RowsStayInformed
<1>4. CASE UNCHANGED vars
  <2>1. UNCHANGED <<state, parent, name, req>>
    BY <1>4 DEF vars, treeVars
  <2> QED
    BY <2>1, RowsStayInformed DEF HasRow
<1> QED
  BY <1>1, <1>2, <1>3, <1>4 DEF Next, DropReservation, DeleteFile, DeleteSubtree

LEMMA MovesAreInformed == Spec => []MovesInformed
<1>1. Init => MovesInformed
  <2>1. Idle.pc = "idle"
    BY IdleIsRequest DEF Idle
  <2> QED
    BY <2>1 DEF Init, MovesInformed, Informed, AtWork
<1>2. IInv /\ MovesInformed /\ [Next]_vars => MovesInformed'
  BY StrongIsIInv, StepInformed
<1> QED
  BY <1>1, <1>2, Invariance, PTL DEF Spec

\* A request's step leaves the others where they are.
LEMMA OthersStand ==
    ASSUME RequestTypes, NEW x \in Requests, NEW r \in Requests \ {x}, RequestStep(x)
    PROVE  req'[r].pc = req[r].pc
<1>1. PICK q \in Request : q = req[r]
  BY DEF RequestTypes
<1>2. ASSUME NEW row, req' = [req EXCEPT ![x] = row]
      PROVE  req'[r].pc = req[r].pc
  BY <1>2 DEF RequestTypes
<1>3. ASSUME NEW d, NEW f, NEW how, AnswerWritten(x, d, f, how)
      PROVE  req'[r].pc = req[r].pc
  <2>1. PICK k, o : req'[r] = OvertakenBy(q, k, o)
    BY <1>1, <1>3 DEF AnswerWritten, OvertakenBy
  <2>2. OvertakenBy(q, k, o).pc = q.pc
    BY DEF Request, OvertakenBy
  <2> QED
    BY <1>1, <2>1, <2>2
<1>4. ASSUME NEW step, NEW op, NEW id, NEW d, NEW nm, Begin(x, step, op, id, d, nm)
      PROVE  req'[r].pc = req[r].pc
  BY <1>2, <1>4 DEF Begin
<1>5. ASSUME Answer(x) \/ Refuse(x) \/ LoseRace(x)
      PROVE  req'[r].pc = req[r].pc
  BY <1>2, <1>5 DEF Answer, Refuse, LoseRace
<1>6. CASE ReadTarget(x)
  BY <1>2, <1>5, <1>6 DEF ReadTarget
<1>7. CASE FindAvailableName(x)
  BY <1>2, <1>5, <1>7 DEF FindAvailableName
<1>8. CASE Insert(x)
  BY <1>3, <1>5, <1>8 DEF Insert
<1>9. CASE UpdateName(x)
  BY <1>3, <1>5, <1>9 DEF UpdateName
<1>10. CASE UpdatePosition(x)
  BY <1>3, <1>5, <1>10 DEF UpdatePosition
<1> QED
  BY <1>4, <1>6, <1>7, <1>8, <1>9, <1>10
  DEF RequestStep, StartCreateFolder, StartRenameFolder, StartReserveFile, StartRenameFile, StartMoveFile

\* Only the write of the move itself answers it.
LEMMA MoveIsAnsweredByItsWrite ==
    ASSUME Strong, [Next]_vars, NEW r \in Requests, NEW f \in Files,
           req[r].pc = "write", req[r].op = "moveFile", req[r].id = f,
           req'[r].pc = "answered", HasRow(f), HasRow(req[r].dir)
    PROVE  name'[f] = req[r].cand
<1>1. PICK q \in Request : q = req[r]
  BY DEF Strong, RequestTypes
<1>2. RequestTypes /\ req \in [Requests -> Request] /\ name \in [Nodes -> Seq(Nat)] /\ f \in Nodes
  BY DEF Strong, RequestTypes, TreeInv, TreeTypes, Nodes
<1>3. PICK x \in Requests : RequestStep(x)
  BY DEF Next, MarkReady, DropReservation, DeleteFile, DeleteSubtree, Remove, vars
<1>4. RequestStep(r)
  BY <1>2, <1>3, OthersStand
<1>5. UpdatePosition(r)
  BY <1>4
  DEF RequestStep, StartCreateFolder, StartRenameFolder, StartReserveFile, StartRenameFile,
      StartMoveFile, Begin, ReadTarget, FindAvailableName, Insert, UpdateName
<1>6. ~LoseRace(r)
  <2>1. Stepped(q, "refused").pc = "refused" /\ TryingAgain(q).pc = "probe"
    BY SteppedIs, TryingAgainIs
  <2> QED
    BY <1>1, <1>2, <2>1 DEF LoseRace, Refuse, Stepped, TryingAgain
<1>7. PositionAt(f, req[r].dir, req[r].cand)
  BY <1>5, <1>6 DEF UpdatePosition
<1> QED
  BY <1>2, <1>7 DEF PositionAt

-----------------------------------------------------------------------------
(* Theorems *)

\* Rows, parents, paths and requests have their types, whatever is created,
\* renamed, moved and deleted at once.
THEOREM TreeTypeCorrect == Spec => []TypeOK
<1>1. IInv => TypeOK
  BY DEF IInv
<1> QED
  BY <1>1, Invariance, PTL

\* Two rows of one folder never have one name: every insert, rename and move
\* is decided by the unique index on the rows of that moment.
THEOREM SiblingsDiffer == Spec => []SiblingNamesUnique
<1>1. IInv => SiblingNamesUnique
  BY DEF IInv
<1> QED
  BY <1>1, Invariance, PTL

\* Paths and depths follow from the parents, every parent is there, and no
\* folder is deeper than MAX_FOLDER_DEPTH, though the depth was checked in an
\* earlier query and a deletion takes what the paths name.
THEOREM PathsFollowParents == Spec => []PathsAgree
<1>1. IInv => PathsAgree
  BY DEF IInv
<1> QED
  BY <1>1, Invariance, PTL

\* A file's request is refused for its name only after CONFLICT_RETRIES rivals,
\* with the whole family of names taken, or when the file was moved away.
THEOREM RefusalsAreEarned == Spec => []RefusedOnlyAfterLosing
<1>1. IInv => RefusedOnlyAfterLosing
  BY DEF IInv
<1> QED
  BY <1>1, Invariance, PTL

\* A file that nobody else renames or moves meanwhile keeps its name when it is
\* moved within its folder, and in another gets that name or a suffixed form of
\* it, though moveFile writes the name it read at first.
THEOREM MovesOnlyMove == Spec => MoveOnlyMoves
<1> DEFINE Step == \A r \in Requests, f \in Files :
                     /\ req[r].pc = "write" /\ req[r].op = "moveFile" /\ req[r].id = f
                     /\ req'[r].pc = "answered" /\ req[r].outdated = {}
                     /\ HasRow(f) /\ HasRow(req[r].dir)
                     => IF req[r].dir = parent[f]
                          THEN name'[f] = name[f]
                          ELSE name'[f] \in {nthCandidateName(name[f], i) :
                                                i \in 0 .. ProbeLimit + ProbeBatch}
<1>1. IInv /\ MovesInformed /\ [Next]_vars => [Step]_vars
  <2> SUFFICES ASSUME IInv, MovesInformed, [Next]_vars,
                      NEW r \in Requests, NEW f \in Files,
                      req[r].pc = "write", req[r].op = "moveFile", req[r].id = f,
                      req'[r].pc = "answered", req[r].outdated = {},
                      HasRow(f), HasRow(req[r].dir)
               PROVE  IF req[r].dir = parent[f]
                        THEN name'[f] = name[f]
                        ELSE name'[f] \in {nthCandidateName(name[f], i) :
                                              i \in 0 .. ProbeLimit + ProbeBatch}
    OBVIOUS
  <2>1. name'[f] = req[r].cand
    BY StrongIsIInv, MoveIsAnsweredByItsWrite
  <2>2. /\ req[r].want = name[f]
        /\ req[r].cand \in {nthCandidateName(req[r].want, i) : i \in Reach}
        /\ req[r].dir = parent[f] => req[r].cand = req[r].want
    BY DEF MovesInformed, Informed, AtWork
  <2> QED
    BY <2>1, <2>2 DEF Reach
<1>2. Spec => [][Step]_vars
  BY <1>1, Invariance, MovesAreInformed, PTL DEF Spec
<1> QED
  BY <1>2 DEF MoveOnlyMoves

==============================================================================
