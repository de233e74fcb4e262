----------------------------- MODULE Candidates -----------------------------
(***************************************************************************)
(* One scoring engine from two sides: MatchService.score, by which a job   *)
(* seeker compares herself with a job (services/match.py), and             *)
(* CandidateService.rank_for_job, by which a recruiter ranks everybody     *)
(* against his posting (services/candidates.py over                        *)
(* repositories/candidate.py).  They collect their inputs by different     *)
(* queries.                                                                *)
(*                                                                         *)
(* The state is what the tables hold when a recruiter's request arrives;   *)
(* its reads are taken as one.                                             *)
(* Names differ from those of Goals: ScoringProofs extends both.           *)
(***************************************************************************)
EXTENDS MatchScore

CONSTANTS
    People,     \* numbered by created_at: the greater, the newer the account
    Profiles,   \* bound: what the accounts look like
    Postings,   \* bound: required skills and whether the vector is there
    Limits      \* bound: the `limit` of a request

ASSUME PeopleAreNumbered == People \subseteq Nat /\ IsFiniteSet(People)
ASSUME LimitsArePositive == Limits \subseteq Nat \ {0}

\* Resumes are listed newest first; `cosine` compares a resume's vector with the vector
\* of the job and is NoSimilarity while the resume has none.
Resumes == Seq([status : {"pending", "processing", "complete", "failed"},
                cosine : Cosines \cup {NoSimilarity}])

ASSUME ProfilesListResumes == \A profile \in Profiles : profile.resumes \in Resumes

ASSUME PostingsAreWeighted == \A posting \in Postings : Weighted(posting.required)

VARIABLES people, job, asker, limit, phase, ranking

rankVars == <<people, job, asker, limit, phase, ranking>>

Roles == {"job_seeker", "recruiter", "admin"}

RankInit ==
    /\ people \in [People -> Profiles]
    /\ job \in [posting : Postings, public : BOOLEAN]
    /\ asker \in [role : Roles, owner : BOOLEAN]
    /\ limit \in Limits
    /\ phase = "asked"
    /\ ranking = <<>>

-----------------------------------------------------------------------------
(* What both sides score.                                                  *)

\* SkillStatus.counts_as_held
CountsAsHeld == {"confirmed", "suggested"}

Held(p) == {s \in DOMAIN people[p].entries : people[p].entries[s] \in CountsAsHeld}

Embedded(resume) == resume.status = "complete" /\ resume.cosine # NoSimilarity

EmbeddedOf(p) == {i \in DOMAIN people[p].resumes : Embedded(people[p].resumes[i])}

\* latest_embedded_for_user: ORDER BY created_at DESC LIMIT 1.
LatestEmbedded(p) ==
    IF EmbeddedOf(p) = {} THEN NoSimilarity ELSE people[p].resumes[Min(EmbeddedOf(p))].cosine

Similarity(cosine) == IF job.posting.vector THEN cosine ELSE NoSimilarity

\* MatchService.score
OwnMatch(p) ==
    ScoreMatch(Held(p), job.posting.required, Similarity(LatestEmbedded(p)))

-----------------------------------------------------------------------------
(* load_candidate_profiles and rank_for_job.                               *)

\* ORDER BY created_at DESC
ByNewest(S) ==
    CHOOSE q \in [1..Cardinality(S) -> S] : \A i, j \in 1..Cardinality(S) : i < j => q[i] > q[j]

\* LIMIT limit
Newest(S) == {ByNewest(S)[i] : i \in {k \in 1..Cardinality(S) : k <= limit}}

\* Mutant: suspended accounts are candidates too.
Pool_Suspended == Newest({p \in People : people[p].role = "job_seeker"})

\* The newest active job seekers, up to the limit of the request.
Pool == Newest({p \in People : people[p].role = "job_seeker" /\ people[p].active})

\* Mutant: an older resume overwrites a newer one.
ProfileCosine_Oldest(p) ==
    IF EmbeddedOf(p) = {} THEN NoSimilarity ELSE people[p].resumes[Max(EmbeddedOf(p))].cosine

\* The first vector seen for a person stays.
ProfileCosine(p) ==
    LET resumes == people[p].resumes
        seen[i \in 0..Len(resumes)] ==
            IF i = 0 THEN NoSimilarity
            ELSE IF seen[i - 1] = NoSimilarity /\ Embedded(resumes[i]) THEN resumes[i].cosine
                 ELSE seen[i - 1]
    IN seen[Len(resumes)]

\* A RankedCandidate.
Candidate(p) ==
    [user       |-> p,
     result     |-> ScoreMatch(Held(p), job.posting.required, Similarity(ProfileCosine(p))),
     has_resume |-> ProfileCosine(p) # NoSimilarity]

\* Somebody without a skill is not scored.
Loaded == {p \in Pool : Held(p) # {}}

\* Scores of 0 are noise.
Scored == {c \in {Candidate(p) : p \in Loaded} : c.result.score > 0}

\* A stable sort by score of what comes newest first.
Better(c, d) ==
    c.result.score > d.result.score \/ (c.result.score = d.result.score /\ c.user > d.user)

Ranked ==
    CHOOSE q \in [1..Cardinality(Scored) -> Scored] :
        \A i, j \in 1..Cardinality(Scored) : i < j => Better(q[i], q[j])

Refuse(reason) ==
    /\ phase' = reason
    /\ UNCHANGED <<people, job, asker, limit, ranking>>

\* require_role: 403.
Forbid == phase = "asked" /\ asker.role = "job_seeker" /\ Refuse("forbidden")

\* get_visible: somebody else's private posting does not exist for the asker.
NotFound ==
    /\ phase = "asked"
    /\ asker.role # "job_seeker"
    /\ ~asker.owner /\ ~job.public
    /\ Refuse("not_found")

NotYours ==
    /\ phase = "asked"
    /\ asker.role # "job_seeker"
    /\ ~asker.owner /\ job.public
    /\ Refuse("not_yours")

Rank ==
    /\ phase = "asked"
    /\ asker.role # "job_seeker"
    /\ asker.owner
    /\ ranking' = Ranked
    /\ phase' = "ranked"
    /\ UNCHANGED <<people, job, asker, limit>>

RankNext == Forbid \/ NotFound \/ NotYours \/ Rank

RankSpec == RankInit /\ [][RankNext]_rankVars

-----------------------------------------------------------------------------
(* Properties.                                                             *)

Listed == {ranking[i].user : i \in DOMAIN ranking}

\* "The two sides can never disagree about what a 62% means": the recruiter sees of
\* a candidate the score, the matched and the missing skills the candidate sees of
\* herself, although other queries collected them (candidates.py:5, match.py:35).
TwoSidesAgree == \A i \in DOMAIN ranking : ranking[i].result = OwnMatch(ranking[i].user)

\* Who is listed: the active job seekers with a skill and a score, of whom fewer than
\* `limit` other active job seekers are newer (candidate.py:39).
FittingAreListed ==
    phase = "ranked" =>
        Listed = {p \in People :
            /\ people[p].role = "job_seeker" /\ people[p].active
            /\ Held(p) # {}
            /\ OwnMatch(p).score > 0
            /\ Cardinality({q \in People : q > p /\ people[q].active
                                           /\ people[q].role = "job_seeker"}) < limit}

ScoreWith(p, s) ==
    Score(Held(p) \cup {s}, job.posting.required, Similarity(LatestEmbedded(p)))

\* Learning a missing skill always moves the number, whatever the vectors say: the
\* mechanic of the progress loop (matching.py:78, user_skill.py:38).
LearningPays ==
    \A p \in People : \A s \in DOMAIN job.posting.required \ Held(p) :
        ScoreWith(p, s) > OwnMatch(p).score
=============================================================================
