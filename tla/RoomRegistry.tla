----------------------------- MODULE RoomRegistry -----------------------------
(***************************************************************************)
(* What the API promises about Data Rooms: a user has one room, opened on  *)
(* demand and never replaced, and everyone who asks for it is answered     *)
(* with it.  DataRooms is shown to implement this.                         *)
(***************************************************************************)
CONSTANTS Users, Rooms, Names, DefaultName, Requests, None

VARIABLES
    room,     \* room[u]: the room of u, or None
    name,     \* name[u]: what it is called
    answer    \* answer[r]: the room the request r was answered with, or None

vars == <<room, name, answer>>

Init ==
    /\ room = [u \in Users |-> None]
    /\ name = [u \in Users |-> None]
    /\ answer = [r \in Requests |-> None]

\* A room of one's own, with the default name.
Open(u) ==
    /\ room[u] = None
    /\ \E k \in Rooms :
          /\ \A v \in Users : room[v] # k
          /\ room' = [room EXCEPT ![u] = k]
    /\ name' = [name EXCEPT ![u] = DefaultName]
    /\ UNCHANGED answer

Rename(u, n) ==
    /\ room[u] # None
    /\ name' = [name EXCEPT ![u] = n]
    /\ UNCHANGED <<room, answer>>

Answer(r, u) ==
    /\ room[u] # None /\ answer[r] = None
    /\ answer' = [answer EXCEPT ![r] = room[u]]
    /\ UNCHANGED <<room, name>>

Next ==
    \/ \E u \in Users :
          \/ Open(u)
          \/ \E n \in Names : Rename(u, n)
    \/ \E r \in Requests, u \in Users : Answer(r, u)

Spec == Init /\ [][Next]_vars

=============================================================================
