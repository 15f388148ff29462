--------------------------- MODULE DataRooms_proofs ---------------------------
(***************************************************************************)
(* Machine-checked proofs about DataRooms, for every set of addresses,     *)
(* accounts, rooms and names and any number of concurrent requests.        *)
(***************************************************************************)
EXTENDS DataRooms, TLAPS

USE DataRoomsAssumption DEF Ops, Waiting, rows

Stutter == UNCHANGED vars

\* One conjunct of Next holds of a step: the frame of every proof below.
LEMMA StepCases ==
  ASSUME [Next]_vars
  PROVE  \/ \E r \in Requests, a \in Addresses : StartRegister(r, a) \/ StartLogin(r, a)
         \/ \E r \in Requests, u \in Users : StartMe(r, u)
         \/ \E r \in Requests, u \in Users, k \in Rooms, n \in Names : StartRename(r, u, k, n)
         \/ \E r \in Requests : CreateWithPassword(r) \/ Verify(r) \/ StartSession(r)
         \/ \E r \in Requests : FindRoom(r) \/ FindRoot(r)
         \/ \E r \in Requests : Provision(r)
         \/ \E r \in Requests : RenameRoom(r) \/ RenameRoot(r)
         \/ \E r \in Requests : Answer(r) \/ RequestFails(r)
         \/ Stutter
  BY DEF Next, Start, Serve, Stutter

----------------------------------------------------------------------------
(* The inductive invariant.                                                *)

\* The unique indexes.
OneAccount == \A u, v \in Users : email[u] # None /\ email[u] = email[v] => u = v

OneOwner == \A k, l \in Rooms : room[k].owner # None /\ room[k].owner = room[l].owner => k = l

\* A room and its root folder are there together, under one name.
Rooted == \A k \in Rooms : /\ room[k].name = root[k]
                           /\ room[k].owner = None <=> root[k] = None

\* What a request that signs in has found is the account of its address.
SignInKnows(r) ==
    op[r] \in {"register", "login"} =>
        /\ given[r] \in Addresses
        /\ user[r] # None => email[user[r]] = given[r]
        /\ pc[r] \in {"insert", "verify", "session", "answer", "done", "refused", "failed"}
        /\ pc[r] \in {"session", "answer", "done"} => user[r] # None

\* What a request for a room has found is its user's room.
RoomKnown(r) ==
    op[r] \in {"me", "rename"} =>
        /\ user[r] \in Users
        /\ pc[r] \notin {"idle", "insert", "verify", "session"}
        /\ op[r] = "me" => pc[r] \notin {"update", "updateRoot"}
        /\ op[r] = "rename" => /\ given[r] \in Names /\ target[r] \in Rooms
                               /\ pc[r] \notin {"provision", "reread"}
        /\ pc[r] \in {"root", "update", "updateRoot", "answer", "done"}
              => target[r] \in Rooms /\ room[target[r]].owner = user[r]
        /\ pc[r] = "reread" => \E k \in Rooms : room[k].owner = user[r]

Fresh(r) == op[r] = "none" => pc[r] = "idle"

Knows == \A r \in Requests : SignInKnows(r) /\ RoomKnown(r) /\ Fresh(r) /\ pc[r] # "vanished"

IInv == TypeOK /\ OneAccount /\ OneOwner /\ Rooted /\ Knows

----------------------------------------------------------------------------
(* Types.                                                                  *)

LEMMA TypeInvariantInit == Init => TypeOK
  BY DEF Init, TypeOK, NoRoom

LEMMA TypeInvariantStep == IInv /\ [Next]_vars => TypeOK'
<1> SUFFICES ASSUME IInv, [Next]_vars PROVE TypeOK'
  OBVIOUS
<1> USE DEF IInv, TypeOK, Goto, Ask, NoRoom
<1>1. CASE \E r \in Requests, a \in Addresses : StartRegister(r, a) \/ StartLogin(r, a)
  <2> PICK r \in Requests, a \in Addresses : StartRegister(r, a) \/ StartLogin(r, a)
    BY <1>1
  <2>1. CASE StartRegister(r, a)
    BY <2>1 DEF StartRegister
  <2>2. CASE \E u \in Users : email[u] = a /\ Ask(r, "login", "verify", a, u, None)
    BY <2>2
  <2>3. CASE (\A u \in Users : email[u] # a) /\ Ask(r, "login", "verify", a, None, None)
    BY <2>3
  <2> QED
    BY <2>1, <2>2, <2>3 DEF StartLogin
<1>2. CASE \E r \in Requests, u \in Users : StartMe(r, u)
  BY <1>2 DEF StartMe
<1>3. CASE \E r \in Requests, u \in Users, k \in Rooms, n \in Names : StartRename(r, u, k, n)
  <2> PICK r \in Requests, u \in Users, k \in Rooms, n \in Names : StartRename(r, u, k, n)
    BY <1>3
  <2>1. Ask(r, "rename", "find", n, u, k)
    BY DEF StartRename
  <2>2. /\ pc' \in [Requests -> Waiting \cup {"idle", "done", "refused", "failed", "vanished"}]
        /\ op' \in [Requests -> Ops \cup {"none"}]
        /\ given' \in [Requests -> Addresses \cup Names \cup {None}]
        /\ user' \in [Requests -> Users \cup {None}]
        /\ target' \in [Requests -> Rooms \cup {None}]
        /\ UNCHANGED rows
    BY <2>1
  <2>3. \A q \in Requests :
          /\ pc'[q] \in {"insert", "verify"} => given'[q] \in Addresses
          /\ pc'[q] \in {"session", "find", "provision", "reread"} => user'[q] \in Users
          /\ pc'[q] \in {"root", "update", "updateRoot"} => target'[q] \in Rooms
    BY <2>1
  <2> QED
    BY <2>2, <2>3
<1>4. CASE \E r \in Requests : CreateWithPassword(r) \/ Verify(r) \/ StartSession(r)
  <2> PICK r \in Requests : CreateWithPassword(r) \/ Verify(r) \/ StartSession(r)
    BY <1>4
  <2>1. CASE CreateWithPassword(r)
    BY <2>1 DEF CreateWithPassword
  <2>2. CASE Verify(r)
    BY <2>2 DEF Verify
  <2>3. CASE StartSession(r)
    BY <2>3 DEF StartSession
  <2> QED
    BY <2>1, <2>2, <2>3
<1>5. CASE \E r \in Requests : FindRoom(r) \/ FindRoot(r)
  <2> PICK r \in Requests : FindRoom(r) \/ FindRoot(r)
    BY <1>5
  <2>1. CASE FindRoom(r)
    BY <2>1 DEF FindRoom, Mine
  <2>2. CASE FindRoot(r)
    BY <2>2 DEF FindRoot
  <2> QED
    BY <2>1, <2>2
<1>6. CASE \E r \in Requests : Provision(r)
  <2> PICK r \in Requests : Provision(r)
    BY <1>6
  <2>1. CASE UNCHANGED <<room, root, target>>
    BY <2>1 DEF Provision
  <2>2. CASE \E k \in Rooms : /\ room' = [room EXCEPT ![k] = [owner |-> user[r], name |-> DefaultName]]
                            /\ root' = [root EXCEPT ![k] = DefaultName]
                            /\ target' = [target EXCEPT ![r] = k]
    <3> PICK k \in Rooms : /\ room' = [room EXCEPT ![k] = [owner |-> user[r], name |-> DefaultName]]
                           /\ root' = [root EXCEPT ![k] = DefaultName]
                           /\ target' = [target EXCEPT ![r] = k]
      BY <2>2
    <3>1. [owner |-> user[r], name |-> DefaultName] \in [owner : Users \cup {None}, name : Names \cup {None}]
      OBVIOUS
    <3> QED
      BY <3>1 DEF Provision
  <2> QED
    BY <2>1, <2>2 DEF Provision
<1>7. CASE \E r \in Requests : RenameRoom(r) \/ RenameRoot(r)
  <2> PICK r \in Requests : RenameRoom(r) \/ RenameRoot(r)
    BY <1>7
  <2>1. CASE RenameRoom(r)
    BY <2>1 DEF RenameRoom
  <2>2. CASE RenameRoot(r)
    <3>1. given[r] \in Names
      BY <2>2 DEF RenameRoot, Knows, RoomKnown, SignInKnows, Fresh
    <3> QED
      BY <2>2, <3>1 DEF RenameRoot
  <2> QED
    BY <2>1, <2>2
<1>8. CASE \E r \in Requests : Answer(r) \/ RequestFails(r)
  <2> PICK r \in Requests : Answer(r) \/ RequestFails(r)
    BY <1>8
  <2>1. CASE Answer(r)
    BY <2>1 DEF Answer
  <2>2. CASE RequestFails(r)
    BY <2>2 DEF RequestFails
  <2> QED
    BY <2>1, <2>2
<1>9. CASE Stutter
  BY <1>9 DEF Stutter, vars
<1> QED
  BY <1>1, <1>2, <1>3, <1>4, <1>5, <1>6, <1>7, <1>8, <1>9, StepCases

LEMMA IInvInit == Init => IInv
<1> SUFFICES ASSUME Init PROVE IInv
  OBVIOUS
<1>1. TypeOK
  BY TypeInvariantInit
<1>2. OneAccount /\ OneOwner /\ Rooted
  BY DEF Init, OneAccount, OneOwner, Rooted, NoRoom
<1>3. Knows
  BY DEF Init, Knows, SignInKnows, RoomKnown, Fresh
<1> QED
  BY <1>1, <1>2, <1>3 DEF IInv

\* What Provision does when the owner has no room yet.
Provided(r, k) ==
    /\ \A l \in Rooms : room[l].owner # user[r]
    /\ user[r] \in Users
    /\ room[k] = NoRoom
    /\ room' = [room EXCEPT ![k] = [owner |-> user[r], name |-> DefaultName]]
    /\ root' = [root EXCEPT ![k] = DefaultName]
    /\ target' = [target EXCEPT ![r] = k]
    /\ UNCHANGED email

\* The database's part: no step breaks what its indexes and transactions keep.
LEMMA RowsStep ==
  ASSUME IInv, [Next]_vars
  PROVE  (OneAccount /\ OneOwner /\ Rooted)'
<1> USE DEF IInv, TypeOK, Goto
<1>1. CASE UNCHANGED <<email, room, root>>
  BY <1>1 DEF OneAccount, OneOwner, Rooted
<1>2. CASE \E r \in Requests : CreateWithPassword(r)
  BY <1>2 DEF CreateWithPassword, OneAccount, OneOwner, Rooted
<1>3. CASE \E r \in Requests : Provision(r)
  <2> PICK r \in Requests : Provision(r)
    BY <1>3
  <2>1. CASE UNCHANGED <<email, room, root>>
    BY <1>1, <2>1
  <2>2. CASE \E k \in Rooms : Provided(r, k)
    <3> PICK k \in Rooms : Provided(r, k)
      BY <2>2
    <3> QED
      BY DEF Provided, OneAccount, OneOwner, Rooted, NoRoom
  <2> QED
    BY <2>1, <2>2 DEF Provision, Provided
<1>4. CASE \E r \in Requests : RenameRoot(r)
  <2> PICK r \in Requests : RenameRoot(r)
    BY <1>4
  <2>1. /\ given[r] \in Names /\ target[r] \in Rooms
        /\ room[target[r]].owner # None
    BY DEF RenameRoot, Knows, RoomKnown, SignInKnows, Fresh
  <2> QED
    BY <2>1 DEF RenameRoot, OneAccount, OneOwner, Rooted
<1>5. \/ UNCHANGED <<email, room, root>>
      \/ \E r \in Requests : CreateWithPassword(r) \/ Provision(r) \/ RenameRoot(r)
  BY StepCases DEF StartRegister, StartLogin, StartMe, StartRename, Ask, Verify, StartSession, FindRoom,
      FindRoot, RenameRoom, Answer, RequestFails, Stutter, vars
<1> QED
  BY <1>1, <1>2, <1>3, <1>4, <1>5

\* What a request knows stays true while others go on: an account keeps its
\* address and a room its owner.
LEMMA OthersKnow ==
  ASSUME IInv, [Next]_vars, NEW q \in Requests,
         pc'[q] = pc[q], op'[q] = op[q], given'[q] = given[q], user'[q] = user[q], target'[q] = target[q]
  PROVE  (SignInKnows(q) /\ RoomKnown(q) /\ Fresh(q) /\ pc[q] # "vanished")'
<1> USE DEF IInv, TypeOK
<1>1. \A u \in Users : email[u] # None => email'[u] = email[u]
  BY StepCases DEF StartRegister, StartLogin, StartMe, StartRename, Ask, CreateWithPassword, Verify, StartSession,
      FindRoom, FindRoot, Provision, RenameRoom, RenameRoot, Answer, RequestFails, Stutter, vars
<1>2. \A k \in Rooms : room[k].owner # None => room'[k].owner = room[k].owner
  <2>1. CASE UNCHANGED room
    BY <2>1
  <2>2. CASE \E r \in Requests : Provision(r)
    <3> PICK r \in Requests : Provision(r)
      BY <2>2
    <3>1. CASE \E k \in Rooms : Provided(r, k)
      BY <3>1 DEF Provided, NoRoom
    <3> QED
      BY <2>1, <3>1 DEF Provision, Provided
  <2>3. CASE \E r \in Requests : RenameRoot(r)
    BY <2>3 DEF RenameRoot
  <2> QED
    BY <2>1, <2>2, <2>3, StepCases
    DEF StartRegister, StartLogin, StartMe, StartRename, Ask, CreateWithPassword, Verify, StartSession,
        FindRoom, FindRoot, RenameRoom, Answer, RequestFails, Stutter, vars
<1>3. SignInKnows(q)'
  <2>1. SignInKnows(q)
    BY DEF Knows
  <2>2. user[q] # None => user[q] \in Users
    OBVIOUS
  <2>3. SUFFICES ASSUME op[q] \in {"register", "login"}
                 PROVE  user[q] # None => email'[user[q]] = given[q]
    BY <2>1 DEF SignInKnows
  <2> QED
    BY <1>1, <2>1, <2>2, <2>3 DEF SignInKnows
<1>4. RoomKnown(q)'
  <2>1. RoomKnown(q)
    BY DEF Knows
  <2>2. SUFFICES ASSUME op[q] \in {"me", "rename"} PROVE RoomKnown(q)'
    BY DEF RoomKnown
  <2>3. user[q] \in Users
    BY <2>1, <2>2 DEF RoomKnown
  <2>4. target[q] \in Rooms /\ room[target[q]].owner = user[q] => room'[target[q]].owner = user[q]
    BY <1>2, <2>3
  <2>5. (\E k \in Rooms : room[k].owner = user[q]) => \E k \in Rooms : room'[k].owner = user[q]
    BY <1>2, <2>3
  <2> QED
    BY <2>1, <2>2, <2>4, <2>5 DEF RoomKnown
<1> QED
  BY <1>3, <1>4 DEF Knows, Fresh

\* The request that takes a step knows what it found.
LEMMA ActorKnows ==
  ASSUME IInv, [Next]_vars, NEW r \in Requests, Start(r) \/ Serve(r) \/ RequestFails(r)
  PROVE  (SignInKnows(r) /\ RoomKnown(r) /\ Fresh(r) /\ pc[r] # "vanished")'
<1> DEFINE Goal == (SignInKnows(r) /\ RoomKnown(r) /\ Fresh(r) /\ pc[r] # "vanished")'
<1>0. SignInKnows(r) /\ RoomKnown(r) /\ Fresh(r)
  BY DEF IInv, Knows
<1> USE <1>0 DEF IInv, TypeOK, SignInKnows, RoomKnown, Fresh, Goto, Ask
<1>1. CASE \E a \in Addresses : StartRegister(r, a)
  BY <1>1 DEF StartRegister
<1>2. CASE \E a \in Addresses : StartLogin(r, a)
  <2> PICK a \in Addresses : StartLogin(r, a)
    BY <1>2
  <2>1. CASE \E u \in Users : email[u] = a /\ Ask(r, "login", "verify", a, u, None)
    BY <2>1
  <2>2. CASE Ask(r, "login", "verify", a, None, None)
    BY <2>2
  <2> QED
    BY <2>1, <2>2 DEF StartLogin
<1>3. CASE \E u \in Users : StartMe(r, u)
  BY <1>3 DEF StartMe
<1>4. CASE \E u \in Users, k \in Rooms, n \in Names : StartRename(r, u, k, n)
  BY <1>4 DEF StartRename
<1>5. CASE CreateWithPassword(r)
  BY <1>5 DEF CreateWithPassword
<1>6. CASE Verify(r)
  BY <1>6 DEF Verify
<1>7. CASE StartSession(r)
  BY <1>7 DEF StartSession
<1>8. CASE FindRoom(r)
  BY <1>8 DEF FindRoom, Mine
<1>9. CASE FindRoot(r)
  BY <1>9 DEF FindRoot, Rooted
<1>10. CASE Provision(r)
  <2>1. CASE \E k \in Rooms : Provided(r, k)
    BY <1>10, <2>1 DEF Provision, Provided
  <2>2. CASE UNCHANGED <<room, root, target>> /\ \E k \in Rooms : room[k].owner = user[r]
    BY <1>10, <2>2 DEF Provision
  <2> QED
    BY <1>10, <2>1, <2>2 DEF Provision, Provided
<1>11. CASE RenameRoom(r)
  BY <1>11 DEF RenameRoom
<1>12. CASE RenameRoot(r)
  BY <1>12 DEF RenameRoot
<1>13. CASE Answer(r)
  BY <1>13 DEF Answer
<1>14. CASE RequestFails(r)
  BY <1>14 DEF RequestFails
<1> QED
  BY <1>1, <1>2, <1>3, <1>4, <1>5, <1>6, <1>7, <1>8, <1>9, <1>10, <1>11, <1>12, <1>13, <1>14
  DEF Start, Serve

\* A step changes what one request keeps.
LEMMA OneActs ==
  ASSUME IInv, NEW r \in Requests, Start(r) \/ Serve(r) \/ RequestFails(r), NEW q \in Requests \ {r}
  PROVE  /\ pc'[q] = pc[q] /\ op'[q] = op[q] /\ given'[q] = given[q]
         /\ user'[q] = user[q] /\ target'[q] = target[q]
  BY DEF IInv, TypeOK, Goto, Ask, Start, Serve, StartRegister, StartLogin, StartMe, StartRename,
     CreateWithPassword, Verify, StartSession, FindRoom, FindRoot, Provision, RenameRoom, RenameRoot,
     Answer, RequestFails

LEMMA IInvStep == IInv /\ [Next]_vars => IInv'
<1> SUFFICES ASSUME IInv, [Next]_vars PROVE IInv'
  OBVIOUS
<1>1. TypeOK' /\ (OneAccount /\ OneOwner /\ Rooted)'
  BY TypeInvariantStep, RowsStep
<1>2. Knows'
  <2> SUFFICES ASSUME NEW q \in Requests
               PROVE  (SignInKnows(q) /\ RoomKnown(q) /\ Fresh(q) /\ pc[q] # "vanished")'
    BY DEF Knows
  <2>1. CASE Start(q) \/ Serve(q) \/ RequestFails(q)
    BY <2>1, ActorKnows
  <2>2. CASE ~(Start(q) \/ Serve(q) \/ RequestFails(q))
    <3>1. /\ pc'[q] = pc[q] /\ op'[q] = op[q] /\ given'[q] = given[q]
          /\ user'[q] = user[q] /\ target'[q] = target[q]
      <4>1. CASE UNCHANGED vars
        BY <4>1 DEF vars
      <4>2. CASE Next
        <5> PICK r \in Requests : Start(r) \/ Serve(r) \/ RequestFails(r)
          BY <4>2 DEF Next
        <5> q \in Requests \ {r}
          BY <2>2
        <5> QED
          BY OneActs
      <4> QED
        BY <4>1, <4>2
    <3> QED
      BY <3>1, OthersKnow
  <2> QED
    BY <2>1, <2>2
<1> QED
  BY <1>1, <1>2 DEF IInv

LEMMA InductiveInvariant == Spec => []IInv
  BY IInvInit, IInvStep, PTL DEF Spec

\* TypeOK, for every value of the constants.
THEOREM TypeCorrect == Spec => []TypeOK
  BY InductiveInvariant, PTL DEF IInv

\* Registrations that race for one address make one account, and every
\* sign-in with the address reaches it.
THEOREM OneAccountForAll == Spec => []OneAccountPerAddress
<1>1. IInv => OneAccountPerAddress
  BY DEF IInv, TypeOK, OneAccount, Knows, SignInKnows, OneAccountPerAddress, SignsIn
<1> QED
  BY <1>1, InductiveInvariant, PTL

\* The two errors of the provisioning code are never thrown.
THEOREM NoContradiction == Spec => []NothingVanishes
<1>1. IInv => NothingVanishes
  BY DEF IInv, Knows, NothingVanishes
<1> QED
  BY <1>1, InductiveInvariant, PTL

\* A rename changes the room and its root folder together.
THEOREM OneName == Spec => []RoomAndRootAgree
<1>1. IInv => RoomAndRootAgree
  BY DEF IInv, Rooted, RoomAndRootAgree
<1> QED
  BY <1>1, InductiveInvariant, PTL

----------------------------------------------------------------------------
(* DataRooms implements RoomRegistry.                                      *)

\* With one room per owner, RoomOf names it.
LEMMA RoomOfOwner ==
  ASSUME OneOwner, TypeOK, NEW u \in Users
  PROVE  /\ \A k \in Rooms : room[k].owner = u => RoomOf(u) = k
         /\ RoomOf(u) # None => RoomOf(u) \in Rooms /\ room[RoomOf(u)].owner = u
         /\ (\A k \in Rooms : room[k].owner # u) => RoomOf(u) = None
<1>1. CASE \E k \in Rooms : room[k].owner = u
  <2> PICK k \in Rooms : room[k].owner = u
    BY <1>1
  <2>1. RoomOf(u) \in Rooms /\ room[RoomOf(u)].owner = u
    BY <1>1 DEF RoomOf
  <2> QED
    BY <2>1, <1>1 DEF OneOwner
<1>2. CASE ~ \E k \in Rooms : room[k].owner = u
  BY <1>2 DEF RoomOf
<1> QED
  BY <1>1, <1>2

LEMMA RefinementInit == Init => Registry!Init
<1> SUFFICES ASSUME Init PROVE Registry!Init
  OBVIOUS
<1>1. \A u \in Users : RoomOf(u) = None
  BY DEF Init, NoRoom, RoomOf
<1> QED
  BY <1>1 DEF Init, Registry!Init, Called, AnsweredWith

\* Owners unchanged, everyone has the room they had.
LEMMA SameRooms ==
  ASSUME IInv, IInv', \A k \in Rooms : room'[k].owner = room[k].owner, NEW u \in Users
  PROVE  RoomOf(u)' = RoomOf(u)
<1>1. CASE \E k \in Rooms : room[k].owner = u
  <2> PICK k \in Rooms : room[k].owner = u
    BY <1>1
  <2>1. RoomOf(u) = k
    BY RoomOfOwner DEF IInv
  <2>2. /\ room'[k].owner = u
        /\ RoomOf(u)' \in Rooms /\ room'[RoomOf(u)'].owner = u
    BY DEF RoomOf
  <2>3. RoomOf(u)' = k
    BY <2>2 DEF IInv, OneOwner
  <2> QED
    BY <2>1, <2>3
<1>2. CASE ~ \E k \in Rooms : room[k].owner = u
  BY <1>2 DEF RoomOf
<1> QED
  BY <1>1, <1>2

\* Whatever a step does, one request at most is answered by it.
LEMMA RefinementStep == IInv /\ IInv' /\ [Next]_vars => [Registry!Next]_(Registry!vars)
<1> SUFFICES ASSUME IInv, IInv', [Next]_vars
             PROVE  Registry!Next \/ UNCHANGED Registry!vars
  BY DEF Registry!vars
<1> DEFINE rooms == [u \in Users |-> RoomOf(u)]
           names == [u \in Users |-> Called(u)]
           answers == [r \in Requests |-> AnsweredWith(r)]
<1>0. \A j, l \in Rooms : room'[j].owner # None /\ room'[j].owner = room'[l].owner => j = l
  BY DEF IInv, OneOwner
<1> USE DEF IInv, TypeOK, Goto, Ask
<1>1. CASE \E r \in Requests : Answer(r)
  <2> PICK r \in Requests : Answer(r)
    BY <1>1
  <2>1. \A u \in Users : RoomOf(u)' = RoomOf(u) /\ Called(u)' = Called(u)
    BY SameRooms DEF Answer, RoomOf, Called
  <2>2. rooms' = rooms /\ names' = names
    BY <2>1
  <2>3. \A q \in Requests \ {r} : AnsweredWith(q)' = AnsweredWith(q)
    BY DEF Answer, AnsweredWith
  <2>4. CASE op[r] = "me"
    <3>1. user[r] \in Users /\ RoomOf(user[r]) = target[r] /\ target[r] # None
      BY <2>4, RoomOfOwner DEF Answer, Knows, RoomKnown
    <3>2. AnsweredWith(r) = None /\ AnsweredWith(r)' = target[r]
      BY <2>4 DEF Answer, AnsweredWith
    <3>3. answers' = [answers EXCEPT ![r] = rooms[user[r]]]
      BY <2>3, <3>1, <3>2
    <3>4. Registry!Answer(r, user[r])
      BY <2>2, <3>1, <3>2, <3>3 DEF Registry!Answer
    <3> QED
      BY <3>1, <3>4 DEF Registry!Next
  <2>5. CASE op[r] # "me"
    <3>1. answers' = answers
      BY <2>3, <2>5 DEF Answer, AnsweredWith
    <3> QED
      BY <2>2, <3>1 DEF Registry!vars
  <2> QED
    BY <2>4, <2>5
<1>2. CASE \E r \in Requests : Provision(r) /\ room' # room
  <2> PICK r \in Requests : Provision(r) /\ room' # room
    BY <1>2
  <2>1. PICK k \in Rooms : Provided(r, k)
    BY DEF Provision, Provided
  <2> PICK w \in Users : w = user[r]
    BY <2>1 DEF Provided
  <2>2. w \in Users /\ RoomOf(w) = None
    BY <2>1, RoomOfOwner DEF Provided
  <2>3. RoomOf(w)' = k
    <3>1. room'[k].owner = w
      BY <2>1 DEF Provided
    <3>2. RoomOf(w)' \in Rooms /\ room'[RoomOf(w)'].owner = w
      BY <3>1 DEF RoomOf
    <3> QED
      BY <1>0, <2>2, <3>1, <3>2
  <2>4. \A u \in Users \ {w} : RoomOf(u)' = RoomOf(u) /\ RoomOf(u) # k
    <3> SUFFICES ASSUME NEW u \in Users \ {w} PROVE RoomOf(u)' = RoomOf(u) /\ RoomOf(u) # k
      OBVIOUS
    <3>1. CASE \E l \in Rooms : room[l].owner = u
      <4> PICK l \in Rooms : room[l].owner = u
        BY <3>1
      <4>1. RoomOf(u) = l
        BY RoomOfOwner
      <4>2. l # k /\ room'[l].owner = u
        BY <2>1 DEF Provided, NoRoom
      <4>3. RoomOf(u)' \in Rooms /\ room'[RoomOf(u)'].owner = u
        BY <4>2 DEF RoomOf
      <4> QED
        BY <1>0, <4>1, <4>2, <4>3
    <3>2. CASE ~ \E l \in Rooms : room[l].owner = u
      <4>1. ~ \E l \in Rooms : room'[l].owner = u
        BY <3>2, <2>1 DEF Provided
      <4> QED
        BY <3>2, <4>1 DEF RoomOf
    <3> QED
      BY <3>1, <3>2
  <2>5. \A u \in Users \ {w} : Called(u)' = Called(u)
    BY <2>1, <2>4, RoomOfOwner DEF Provided, Called
  <2>6. Called(w)' = DefaultName
    BY <2>1, <2>3 DEF Provided, Called
  <2>7. /\ rooms' = [rooms EXCEPT ![w] = k]
        /\ names' = [names EXCEPT ![w] = DefaultName]
    <3>1. rooms' = [rooms EXCEPT ![w] = k]
      BY <2>2, <2>3, <2>4
    <3>2. names' = [names EXCEPT ![w] = DefaultName]
      BY <2>2, <2>5, <2>6
    <3> QED
      BY <3>1, <3>2
  <2>8. answers' = answers
    BY DEF Provision, AnsweredWith
  <2>9. Registry!Open(w)
    <3>1. rooms[w] = None /\ \A v \in Users : rooms[v] # k
      BY <2>2, <2>4
    <3> QED
      BY <2>7, <2>8, <3>1 DEF Registry!Open
  <2> QED
    BY <2>2, <2>9 DEF Registry!Next
<1>3. CASE \E r \in Requests : RenameRoot(r)
  <2> PICK r \in Requests : RenameRoot(r)
    BY <1>3
  <2> PICK w \in Users : w = user[r]
    BY DEF RenameRoot, Knows, RoomKnown, SignInKnows, Fresh
  <2>1. /\ w \in Users /\ given[r] \in Names /\ target[r] \in Rooms
        /\ room[target[r]].owner = w
    BY DEF RenameRoot, Knows, RoomKnown, SignInKnows, Fresh
  <2>2. RoomOf(w) = target[r]
    BY <2>1, RoomOfOwner
  <2>3. \A u \in Users : RoomOf(u)' = RoomOf(u)
    BY <2>1, SameRooms DEF RenameRoot
  <2>4. \A u \in Users \ {w} : RoomOf(u) # target[r]
    BY <2>1, RoomOfOwner
  <2>5. \A u \in Users \ {w} : Called(u)' = Called(u)
    BY <2>3, <2>4, RoomOfOwner DEF RenameRoot, Called
  <2>6. Called(w)' = given[r]
    BY <2>1, <2>2, <2>3 DEF RenameRoot, Called
  <2>7. rooms' = rooms /\ names' = [names EXCEPT ![w] = given[r]]
    <3>1. rooms' = rooms
      BY <2>3
    <3>2. names' = [names EXCEPT ![w] = given[r]]
      BY <2>1, <2>5, <2>6
    <3> QED
      BY <3>1, <3>2
  <2>8. answers' = answers
    BY DEF RenameRoot, AnsweredWith
  <2>9. Registry!Rename(w, given[r])
    BY <2>1, <2>2, <2>7, <2>8 DEF Registry!Rename
  <2> QED
    BY <2>1, <2>9 DEF Registry!Next
<1>4. CASE /\ UNCHANGED <<room, root>>
           /\ \A r \in Requests : AnsweredWith(r)' = AnsweredWith(r)
  <2>1. \A u \in Users : RoomOf(u)' = RoomOf(u) /\ Called(u)' = Called(u)
    BY <1>4 DEF RoomOf, Called
  <2> QED
    BY <1>4, <2>1 DEF Registry!vars
<1>5. ASSUME NEW r \in Requests, (Start(r) \/ Serve(r) \/ RequestFails(r)), ~Answer(r),
             ~(Provision(r) /\ room' # room), ~RenameRoot(r)
      PROVE  UNCHANGED <<room, root>>
  BY <1>5 DEF Start, Serve, StartRegister, StartLogin, StartMe, StartRename, CreateWithPassword, Verify,
      StartSession, FindRoom, FindRoot, Provision, RenameRoom, RequestFails, rows, NoRoom
<1>6. ASSUME NEW r \in Requests, (Start(r) \/ Serve(r) \/ RequestFails(r)), ~Answer(r)
      PROVE  \A q \in Requests : AnsweredWith(q)' = AnsweredWith(q)
  <2>1. \A q \in Requests \ {r} : AnsweredWith(q)' = AnsweredWith(q)
    BY <1>6, OneActs DEF AnsweredWith
  <2>2. pc[r] # "done" /\ pc'[r] # "done"
    BY <1>6 DEF Start, Serve, StartRegister, StartLogin, StartMe, StartRename, CreateWithPassword, Verify,
      StartSession, FindRoom, FindRoot, Provision, RenameRoom, RenameRoot, RequestFails
  <2> QED
    BY <2>1, <2>2 DEF AnsweredWith
<1>7. CASE UNCHANGED vars
  BY <1>4, <1>7 DEF vars, rows, AnsweredWith
<1> QED
  BY <1>1, <1>2, <1>3, <1>4, <1>5, <1>6, <1>7 DEF Next

\* Every behaviour of the provisioning and renaming code is one of the
\* abstract registry: one room per user, the same for every answer.
THEOREM Implements == Spec => OneRoomPerUser
  BY RefinementInit, RefinementStep, InductiveInvariant, PTL DEF Spec, OneRoomPerUser, Registry!Spec
=============================================================================
