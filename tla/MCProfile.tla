----------------------------- MODULE MCProfile -----------------------------
EXTENDS Profile, TLC

Symmetry == Permutations(Skills) \cup Permutations(Requests)
=============================================================================
