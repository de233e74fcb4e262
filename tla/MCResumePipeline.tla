-------------------------- MODULE MCResumePipeline --------------------------
(* Model values for ResumePipeline: resumes and users are interchangeable.   *)
EXTENDS ResumePipeline, TLC

Symmetry == Permutations(Resumes) \cup Permutations(Users)
=============================================================================
