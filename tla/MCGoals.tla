------------------------------ MODULE MCGoals ------------------------------
EXTENDS Goals, TLC

Symmetry == Permutations(Goals) \cup Permutations(Requests)

\* The larger skill of the second kind alone scores 71, or 74 with a close resume; a distant
\* resume keeps everything under the bar.
RequirementBound == {[s \in {1} |-> 2], [s \in {1, 2} |-> IF s = 1 THEN 5 ELSE 2]}
=============================================================================
