--------------------------- MODULE MCRefreshTokens --------------------------
(* Instances of RefreshTokens for TLC. *)
EXTENDS RefreshTokens, TLC

\* Token ids, families and requests are interchangeable.
Symmetry ==
    Permutations(Tokens) \cup Permutations(Families) \cup Permutations(Requests)
=============================================================================
