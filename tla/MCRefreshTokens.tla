-------------------------- MODULE MCRefreshTokens --------------------------
(* Model values for RefreshTokens: identifiers are interchangeable.        *)
EXTENDS RefreshTokens, TLC

Symmetry == Permutations(Tokens) \cup Permutations(Txns)
=============================================================================
