---------------------------- MODULE MCFileViewer ----------------------------
(* A small instance of FileViewer for TLC: two names, two folders.          *)
EXTENDS FileViewer, TLC

CONSTANTS n1, n2, d1, d2

MCNames == {n1, n2}
MCFolders == {d1, d2}

Symmetric == Permutations(MCNames) \cup Permutations(MCFolders)

=============================================================================
