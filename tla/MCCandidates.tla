---------------------------- MODULE MCCandidates ----------------------------
(* Accounts and postings that differ in one thing each.                      *)
EXTENDS Candidates

Entries(a, b) == [s \in {1, 2} |-> IF s = 1 THEN a ELSE b]

Resume(st, c) == [status |-> st, cosine |-> c]

Profile(r, a, e, cv) == [role |-> r, active |-> a, entries |-> e, resumes |-> cv]

NewOverOld == <<Resume("processing", NoSimilarity), Resume("complete", 80), Resume("complete", 20)>>

NewNotEmbedded == <<Resume("complete", NoSimilarity), Resume("complete", 40)>>

ProfileBound == {
    Profile("job_seeker", TRUE, Entries("confirmed", "suggested"), <<>>),
    Profile("job_seeker", TRUE, Entries("confirmed", "learning"), NewOverOld),
    Profile("job_seeker", TRUE, Entries("rejected", "suggested"), NewNotEmbedded),
    Profile("job_seeker", TRUE, Entries("learning", "rejected"), NewOverOld),
    Profile("job_seeker", TRUE, Entries("none", "confirmed"), <<Resume("complete", -20)>>),
    Profile("job_seeker", TRUE, Entries("confirmed", "none"), <<Resume("failed", NoSimilarity)>>),
    Profile("job_seeker", FALSE, Entries("confirmed", "confirmed"), NewOverOld),
    Profile("recruiter", TRUE, Entries("confirmed", "confirmed"), NewOverOld)}

PostingBound ==
    {[required |-> r, vector |-> v] :
        r \in {<<>>, [s \in {1} |-> 2], [s \in {1, 2} |-> s + 3],
               [s \in {1, 2} |-> IF s = 1 THEN 5 ELSE 2], [s \in {1, 2, 3} |-> s + 1]},
        v \in BOOLEAN}
=============================================================================
