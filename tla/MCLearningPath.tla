--------------------------- MODULE MCLearningPath ---------------------------
(* Small graphs: every edge that goes up in the alphabet, one that goes down *)
(* and can close cycles, and one from a skill that is gone.                  *)
EXTENDS LearningPath

GoneId == CHOOSE g \in Gone : TRUE

UpEdges == {e \in Skills \X Skills : e[1] < e[2]}

EdgeBound == UpEdges \cup {<<3, 1>>, <<GoneId, 2>>}
=============================================================================
