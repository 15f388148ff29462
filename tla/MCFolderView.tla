---------------------------- MODULE MCFolderView ----------------------------
(* A small instance of FolderView for TLC: a folder and two files, one of   *)
(* them not there at the start.                                            *)
EXTENDS FolderView, TLC

CONSTANTS w1, w2, w3

MCNodes == {1, 2, 3}
MCKind == <<1, 2, 2>>
MCRowNames == {1, 2, 3}
MCWanted == {1, 3}
MCInitNames == <<2, 1, 0>>
MCOwn == {w1, w2}
MCOthers == {w3}

Symmetric == Permutations(MCOwn)

=============================================================================
