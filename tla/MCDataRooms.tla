----------------------------- MODULE MCDataRooms -----------------------------
(* An instance of DataRooms for TLC: two addresses, two requests that may   *)
(* register, three that may ask for the room and two that may rename it.   *)
EXTENDS DataRooms, TLC

CONSTANTS r1, r2, r3, r4, a1, a2, u1, u2, k1, k2

MCAddresses == {a1, a2}
MCUsers == {u1, u2}
MCRooms == {k1, k2}
MCRequests == {r1, r2, r3, r4}
MCMayAsk == r1 :> {"register"} @@ r2 :> {"register", "login", "me"} @@ r3 :> {"me", "rename"}
            @@ r4 :> {"me", "rename"}

=============================================================================
