-------------------------- MODULE ResumeLifecycle --------------------------
(***************************************************************************)
(* What a client that polls GET /resumes may rely on: a resume's status    *)
(* only moves forward, and once it is complete or failed it stays so       *)
(* (models/resume.py ParseStatus, is_terminal).  The list stops polling on *)
(* that promise.                                                           *)
(***************************************************************************)
CONSTANT Resumes

VARIABLE status

Terminal == {"complete", "failed"}
ParseStatus == {"absent", "pending", "processing"} \cup Terminal

Init == status = [r \in Resumes |-> "absent"]

Move(r, from, to) == status[r] \in from /\ status' = [status EXCEPT ![r] = to]

Next ==
    \E r \in Resumes : \/ Move(r, {"absent"}, "pending")
                       \/ Move(r, {"pending"}, "processing")
                       \/ Move(r, {"processing"}, "complete")
                       \/ Move(r, {"pending", "processing"}, "failed")

Spec == Init /\ [][Next]_status
=============================================================================
