----------------------------- MODULE MCNodeTree -----------------------------
(* A small instance of NodeTree for TLC: a folder and a file in the root,  *)
(* a folder and two files that requests may create.                        *)
EXTENDS NodeTree, TLC

CONSTANTS root, d1, d2, f1, f2, f3, r1, r2, r3

MCFolders == {root, d1, d2}
MCFiles == {f1, f2, f3}
MCInitNodes == {d1, f1}
MCRequests == {r1, r2, r3}

\* One name in two spellings, and another name.
MCStems == {1, 2, 3}
MCInitNames == {<<1>>, <<1, 1>>, <<3>>}
MCAsked == {1, 2}
MCFold == 1 :> 1 @@ 2 :> 1 @@ 3 :> 3

Symmetric == Permutations({f2, f3}) \cup Permutations(MCRequests)

=============================================================================
