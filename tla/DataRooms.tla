------------------------------ MODULE DataRooms ------------------------------
(***************************************************************************)
(* Accounts and the Data Room each of them gets on its first request.      *)
(*                                                                         *)
(* A request is the queries its handler awaits, in their order, and others *)
(* come in between: two registrations of one address, two first requests   *)
(* of one user, two renames of one room.  Nothing is checked before it is  *)
(* inserted; the unique indexes of users.email and data_rooms.owner_id     *)
(* decide.  A rename is one transaction over two rows, whose first update  *)
(* holds the room's row lock until the commit.                             *)
(***************************************************************************)
EXTENDS Naturals, FiniteSets

CONSTANTS
    Addresses,     \* e-mail addresses, normalised
    Users, Rooms,  \* ids the inserts draw from
    Names,
    DefaultName,
    Requests,      \* requests, each served once
    MayAsk,        \* bound: MayAsk[r], the operations r may be for
    None

Ops == {"register", "login", "me", "rename"}

ASSUME DataRoomsAssumption ==
    /\ DefaultName \in Names
    /\ MayAsk \in [Requests -> SUBSET Ops]
    /\ None \notin Addresses \cup Users \cup Rooms \cup Names \cup Requests

VARIABLES
    email,   \* email[u]: the address of the account u, None before its insert
    room,    \* room[k]: its row
    root,    \* root[k]: the name of its root folder, None without one
    lock,    \* lock[k]: the request whose transaction has updated the row of k
    pc, op,  \* where the request r stands, and what it is for
    given,   \* given[r]: the address or the name it came with
    user,    \* user[r]: the account it runs as, or has found
    target   \* target[r]: the room it names, or has found

rows == <<email, room, root, lock>>
vars == <<rows, pc, op, given, user, target>>

NoRoom == [owner |-> None, name |-> None]

Waiting == {"insert", "verify", "session", "find", "reread", "root", "provision",
            "update", "updateRoot", "answer"}

TypeOK ==
    /\ email \in [Users -> Addresses \cup {None}]
    /\ room \in [Rooms -> [owner : Users \cup {None}, name : Names \cup {None}]]
    /\ root \in [Rooms -> Names \cup {None}]
    /\ lock \in [Rooms -> Requests \cup {None}]
    /\ pc \in [Requests -> Waiting \cup {"idle", "done", "refused", "failed", "vanished"}]
    /\ op \in [Requests -> Ops \cup {"none"}]
    /\ given \in [Requests -> Addresses \cup Names \cup {None}]
    /\ user \in [Requests -> Users \cup {None}]
    /\ target \in [Requests -> Rooms \cup {None}]
    /\ \A r \in Requests :
          /\ pc[r] \in {"insert", "verify"} => given[r] \in Addresses
          /\ pc[r] \in {"session", "find", "provision", "reread"} => user[r] \in Users
          /\ pc[r] \in {"root", "update", "updateRoot"} => target[r] \in Rooms

Init ==
    /\ email = [u \in Users |-> None]
    /\ room = [k \in Rooms |-> NoRoom]
    /\ root = [k \in Rooms |-> None]
    /\ lock = [k \in Rooms |-> None]
    /\ pc = [r \in Requests |-> "idle"]
    /\ op = [r \in Requests |-> "none"]
    /\ given = [r \in Requests |-> None]
    /\ user = [r \in Requests |-> None]
    /\ target = [r \in Requests |-> None]

Goto(r, step) == pc' = [pc EXCEPT ![r] = step]

Ask(r, what, step, with, as, k) ==
    /\ pc[r] = "idle" /\ what \in MayAsk[r]
    /\ Goto(r, step)
    /\ op' = [op EXCEPT ![r] = what]
    /\ given' = [given EXCEPT ![r] = with]
    /\ user' = [user EXCEPT ![r] = as]
    /\ target' = [target EXCEPT ![r] = k]
    /\ UNCHANGED rows

----------------------------------------------------------------------------
(* Registration and login.                                                 *)

StartRegister(r, a) == Ask(r, "register", "insert", a, None, None)

\* Mutant: without the unique index.
CreateWithPasswordAnyway(r) ==
    /\ pc[r] = "insert" /\ Goto(r, "session")
    /\ \E u \in Users :
          /\ email[u] = None
          /\ email' = [email EXCEPT ![u] = given[r]]
          /\ user' = [user EXCEPT ![r] = u]
    /\ UNCHANGED <<room, root, lock, op, given, target>>

\* The unique index on the address refuses the second account.
CreateWithPassword(r) ==
    /\ pc[r] = "insert"
    /\ \/ /\ \E u \in Users : email[u] = given[r]
          /\ Goto(r, "refused")
          /\ UNCHANGED <<email, user>>
       \/ /\ \A u \in Users : email[u] # given[r]
          /\ Goto(r, "session")
          /\ \E u \in Users :
                /\ email[u] = None
                /\ email' = [email EXCEPT ![u] = given[r]]
                /\ user' = [user EXCEPT ![r] = u]
    /\ UNCHANGED <<room, root, lock, op, given, target>>

\* findByEmail.
StartLogin(r, a) ==
    \/ \E u \in Users : email[u] = a /\ Ask(r, "login", "verify", a, u, None)
    \/ (\A u \in Users : email[u] # a) /\ Ask(r, "login", "verify", a, None, None)

\* The password is verified, against a decoy where there is no account.
Verify(r) ==
    /\ pc[r] = "verify"
    /\ \/ user[r] # None /\ Goto(r, "session")
       \/ Goto(r, "refused")
    /\ UNCHANGED <<rows, op, given, user, target>>

\* bindPendingGrants and TokenService.issue, which have modules of their own.
StartSession(r) ==
    /\ pc[r] = "session" /\ Goto(r, "answer")
    /\ UNCHANGED <<rows, op, given, user, target>>

SignsIn(r) == op[r] \in {"register", "login"} /\ pc[r] = "done"

SignedIn(u) == \E r \in Requests : SignsIn(r) /\ user[r] = u

----------------------------------------------------------------------------
(* GET data-rooms/me.                                                      *)

StartMe(r, u) == SignedIn(u) /\ Ask(r, "me", "find", None, u, None)

\* The rooms findByOwner or findForOwner may match.
Mine(r) == {k \in Rooms : room[k].owner = user[r] /\ (op[r] = "rename" => k = target[r])}

\* The room's row, ...
FindRoom(r) ==
    /\ pc[r] \in {"find", "reread"}
    /\ \/ /\ Goto(r, "root")
          /\ \E k \in Mine(r) : target' = [target EXCEPT ![r] = k]
       \/ /\ Mine(r) = {}
          /\ Goto(r, IF op[r] = "rename" THEN "refused"
                     ELSE IF pc[r] = "find" THEN "provision" ELSE "vanished")
          /\ UNCHANGED target
    /\ UNCHANGED <<rows, op, given, user>>

\* ... and in a query of its own the root folder.
FindRoot(r) ==
    /\ pc[r] = "root"
    /\ Goto(r, IF root[target[r]] = None THEN "vanished"
               ELSE IF op[r] = "rename" THEN "update" ELSE "answer")
    /\ UNCHANGED <<rows, op, given, user, target>>

\* Mutant: without the unique index.
ProvisionAnyway(r) ==
    /\ pc[r] = "provision" /\ Goto(r, "answer")
    /\ \E k \in Rooms :
          /\ room[k] = NoRoom
          /\ room' = [room EXCEPT ![k] = [owner |-> user[r], name |-> DefaultName]]
          /\ root' = [root EXCEPT ![k] = DefaultName]
          /\ target' = [target EXCEPT ![r] = k]
    /\ UNCHANGED <<email, lock, op, given, user>>

\* Mutant: the room first, its root folder in a statement of its own.
ProvisionPiecemeal(r) ==
    /\ pc[r] = "provision"
    /\ \/ /\ \E k \in Rooms : room[k].owner = user[r] /\ k # target[r]
          /\ Goto(r, "reread")
          /\ UNCHANGED <<room, root, target>>
       \/ /\ \A k \in Rooms : room[k].owner # user[r]
          /\ \E k \in Rooms :
                /\ room[k] = NoRoom
                /\ room' = [room EXCEPT ![k] = [owner |-> user[r], name |-> DefaultName]]
                /\ target' = [target EXCEPT ![r] = k]
          /\ UNCHANGED <<root, pc>>
       \/ /\ target[r] # None
          /\ root' = [root EXCEPT ![target[r]] = DefaultName]
          /\ Goto(r, "answer")
          /\ UNCHANGED <<room, target>>
    /\ UNCHANGED <<email, lock, op, given, user>>

\* One nested write; the unique index on the owner refuses the second room.
Provision(r) ==
    /\ pc[r] = "provision"
    /\ \/ /\ \E k \in Rooms : room[k].owner = user[r]
          /\ Goto(r, "reread")
          /\ UNCHANGED <<room, root, target>>
       \/ /\ \A k \in Rooms : room[k].owner # user[r]
          /\ Goto(r, "answer")
          /\ \E k \in Rooms :
                /\ room[k] = NoRoom
                /\ room' = [room EXCEPT ![k] = [owner |-> user[r], name |-> DefaultName]]
                /\ root' = [root EXCEPT ![k] = DefaultName]
                /\ target' = [target EXCEPT ![r] = k]
    /\ UNCHANGED <<email, lock, op, given, user>>

----------------------------------------------------------------------------
(* PATCH data-rooms/:id.                                                   *)

StartRename(r, u, k, n) == SignedIn(u) /\ Ask(r, "rename", "find", n, u, k)

\* Mutant: outside a transaction, the update is there for everyone.
RenameRoomAtOnce(r) ==
    /\ pc[r] = "update" /\ Goto(r, "updateRoot")
    /\ room' = [room EXCEPT ![target[r]].name = given[r]]
    /\ UNCHANGED <<email, root, lock, op, given, user, target>>

\* The transaction's first update waits for the row, and keeps it.
RenameRoom(r) ==
    /\ pc[r] = "update" /\ Goto(r, "updateRoot")
    /\ lock[target[r]] = None
    /\ lock' = [lock EXCEPT ![target[r]] = r]
    /\ UNCHANGED <<email, room, root, op, given, user, target>>

\* The second one, and the commit.
RenameRoot(r) ==
    /\ pc[r] = "updateRoot" /\ Goto(r, "answer")
    /\ room' = [room EXCEPT ![target[r]].name = given[r]]
    /\ root' = [root EXCEPT ![target[r]] = given[r]]
    /\ lock' = [lock EXCEPT ![target[r]] = None]
    /\ UNCHANGED <<email, op, given, user, target>>

----------------------------------------------------------------------------

Answer(r) ==
    /\ pc[r] = "answer" /\ Goto(r, "done")
    /\ UNCHANGED <<rows, op, given, user, target>>

\* Mutant: a transaction that failed is not rolled back.
RequestFailsOpen(r) ==
    /\ pc[r] \in Waiting /\ Goto(r, "failed")
    /\ UNCHANGED <<rows, op, given, user, target>>

\* A query throws, or the process stops: what is not committed is rolled
\* back, what is committed stays.
RequestFails(r) ==
    /\ pc[r] \in Waiting /\ Goto(r, "failed")
    /\ lock' = [k \in Rooms |-> IF lock[k] = r THEN None ELSE lock[k]]
    /\ UNCHANGED <<email, room, root, op, given, user, target>>

Start(r) ==
    \/ \E a \in Addresses : StartRegister(r, a) \/ StartLogin(r, a)
    \/ \E u \in Users :
          \/ StartMe(r, u)
          \/ \E k \in Rooms, n \in Names : StartRename(r, u, k, n)

Serve(r) ==
    \/ CreateWithPassword(r) \/ Verify(r) \/ StartSession(r)
    \/ FindRoom(r) \/ FindRoot(r) \/ Provision(r)
    \/ RenameRoom(r) \/ RenameRoot(r) \/ Answer(r)

Next == \E r \in Requests : Start(r) \/ Serve(r) \/ RequestFails(r)

\* The database answers every query of a request.
Fairness == \A r \in Requests : WF_vars(Serve(r))

Spec == Init /\ [][Next]_vars /\ Fairness

----------------------------------------------------------------------------
(* Properties.                                                             *)

\* Everyone who signs in with an address reaches the same account, however
\* many registrations of it ran at once.
OneAccountPerAddress ==
    \A r, q \in Requests :
        SignsIn(r) /\ SignsIn(q) /\ given[r] = given[q] => user[r] = user[q]

\* No request meets the two states the code calls a contradiction: an owner's
\* room refused and yet not there, and a room without its root folder.
NothingVanishes == \A r \in Requests : pc[r] # "vanished"

\* The room and its root folder have the same name at every moment, which the
\* breadcrumbs rely on.
RoomAndRootAgree == \A k \in Rooms : room[k].name = root[k]

\* Every request ends, those that wait for a row another one has updated too.
RequestsEnd == \A r \in Requests : pc[r] \in Waiting ~> pc[r] \notin Waiting

----------------------------------------------------------------------------
(* The promise of RoomRegistry.                                            *)

RoomOf(u) == IF \E k \in Rooms : room[k].owner = u
             THEN CHOOSE k \in Rooms : room[k].owner = u ELSE None

Called(u) == IF RoomOf(u) = None THEN None ELSE root[RoomOf(u)]

AnsweredWith(r) == IF op[r] = "me" /\ pc[r] = "done" THEN target[r] ELSE None

Registry == INSTANCE RoomRegistry WITH
    room <- [u \in Users |-> RoomOf(u)],
    name <- [u \in Users |-> Called(u)],
    answer <- [r \in Requests |-> AnsweredWith(r)]

\* A user has one room for good, and is answered with that one whoever
\* provisioned it: RoomRegistry.
OneRoomPerUser == Registry!Spec

=============================================================================
