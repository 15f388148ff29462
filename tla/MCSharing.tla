------------------------------ MODULE MCSharing ------------------------------
(* An instance of Sharing for TLC: a folder in the root, a file in either,  *)
(* a share that is there and one that may be created.                     *)
EXTENDS Sharing, TLC

CONSTANTS root, outer, file, s1, s2, o1, o2, r1, buyer

MCFolders == {root, outer}
MCFiles == {file}
MCAbove == root :> << >> @@ outer :> <<root>>
MCShares == {s1, s2}
MCInitShare ==
    s1 :> [NoShare EXCEPT !.status = "live", !.node = outer, !.expires = 1] @@ s2 :> NoShare
MCOwnerRequests == {o1, o2}
MCMayAsk == o1 :> {"create", "revoke", "setExpiry", "addGrants", "removeGrant"}
            @@ o2 :> {"revoke"}
MCReads == {r1}
MCUsers == {buyer}

=============================================================================
