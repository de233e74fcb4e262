-------------------------------- MODULE Goals --------------------------------
(***************************************************************************)
(* One user's career goals: GoalService (services/goal.py over             *)
(* repositories/career_goal.py), while her profile, the postings she aims  *)
(* at and their vectors change under the requests.                         *)
(*                                                                         *)
(* A request is a sequence of SELECTs, each of what is committed when it   *)
(* runs, and one write at its commit.  An entity once loaded keeps the     *)
(* requirements it was loaded with for the rest of the request.            *)
(***************************************************************************)
EXTENDS MatchScore

CONSTANTS
    Skills,         \* the skills postings ask for
    Jobs,           \* postings the user can see (is_public never changes)
    Goals,          \* identifiers of goals, each used once
    Requests,       \* requests that may be open at once
    Requirements,   \* bound: the skills and importances a posting may ask for
    Similarities,   \* bound: cosines of the newest embedded resume and a posting
    Gone

ASSUME RequirementsAreWeighted ==
    \A required \in Requirements :
        DOMAIN required \subseteq Skills /\ \A s \in DOMAIN required : required[s] \in 1..5

VARIABLES
    held,        \* the skills of the profile that count: confirmed or suggested
    posting,     \* what each job requires, Gone when deleted
    similarity,  \* of the user's vector and the job's
    goals,       \* committed rows of career_goals
    req,
    reached      \* history: the goals whose bar has been cleared at some moment

surroundings == <<held, posting, similarity>>

vars == <<surroundings, goals, req, reached>>

NoGoal == [job |-> Gone]
Goal == [job : Jobs, baseline : 0..1000, achieved : BOOLEAN]
Rows == {g \in Goals : goals[g] \in Goal}
IsActive(g) == g \in Rows /\ ~goals[g].achieved

Idle == [op |-> "idle"]

Init ==
    /\ held = {}
    /\ posting \in [Jobs -> Requirements]
    /\ similarity = [j \in Jobs |-> NoSimilarity]
    /\ goals = [g \in Goals |-> NoGoal]
    /\ req = [r \in Requests |-> Idle]
    /\ reached = {}

-----------------------------------------------------------------------------
(* Scoring.                                                                *)

ACHIEVEMENT_THRESHOLD == 850

\* Mutant: one missing skill is forgiven.
Achievable_AlmostThere(j, required) ==
    \E s \in Skills : Score(held \cup {s}, required, similarity[j]) >= ACHIEVEMENT_THRESHOLD

\* is_achievable_now, for a job whose requirements were loaded earlier.
Achievable(j, required) == Score(held, required, similarity[j]) >= ACHIEVEMENT_THRESHOLD

\* Requirements a goal may be measured by: the posting's, or those a request holds.
Measures(g) ==
    ({posting[goals[g].job]} \ {Gone}) \cup
    {req[r].required : r \in {r \in Requests : req[r].op = "mark" /\ req[r].goal = g}}

\* What the history records of each step.
Clears(g) ==
    IsActive(g) /\ \E required \in Measures(g) :
        Score(held, required, similarity[goals[g].job]) >= ACHIEVEMENT_THRESHOLD

Watch == reached' = reached \cup {g \in Goals : Clears(g)'}

-----------------------------------------------------------------------------
(* set_goal, abandon and mark_achieved.                                    *)

\* ActiveGoalExistsError, JobNotFoundError; the score is taken before anything is written.
SetGoal(r, j) ==
    /\ req[r] = Idle
    /\ posting[j] # Gone
    /\ \A g \in Goals : ~IsActive(g)
    /\ req' = [req EXCEPT ![r] = [op |-> "set", job |-> j,
                                  baseline |-> Score(held, posting[j], similarity[j])]]
    /\ UNCHANGED <<goals, surroundings>>
    /\ Watch

\* Mutant: there is no unique index to refuse the second of two.
Insertable_NoIndex(j) == posting[j] # Gone

\* The foreign key on jobs and uq_career_goals_one_active_per_user.
Insertable(j) == posting[j] # Gone /\ \A g \in Goals : ~IsActive(g)

SetGoalCommit(r) ==
    /\ req[r].op = "set"
    /\ \E g \in Goals :
        /\ goals[g] = NoGoal
        /\ goals' = IF Insertable(req[r].job)
                    THEN [goals EXCEPT ![g] = [job |-> req[r].job, baseline |-> req[r].baseline,
                                               achieved |-> FALSE]]
                    ELSE goals
    /\ req' = [req EXCEPT ![r] = Idle]
    /\ UNCHANGED surroundings
    /\ Watch

\* GoalNotFoundError for a goal that is not there or is achieved already.
MarkAchieved(r, g) ==
    /\ req[r] = Idle
    /\ IsActive(g)
    /\ req' = [req EXCEPT ![r] = [op |-> "mark", goal |-> g, required |-> posting[goals[g].job]]]
    /\ UNCHANGED <<goals, surroundings>>
    /\ Watch

\* _progress_for, on the requirements that came with the goal: JobNotFoundError when the
\* posting has been deleted since, GoalNotAchievedError below the threshold.
MarkScore(r) ==
    /\ req[r].op = "mark"
    /\ LET g == req[r].goal
       IN req' = [req EXCEPT ![r] =
                   IF g \in Rows /\ Achievable(goals[g].job, req[r].required)
                   THEN [op |-> "bank", goal |-> g] ELSE Idle]
    /\ UNCHANGED <<goals, surroundings>>
    /\ Watch

\* An UPDATE by primary key, which fails when the row is gone; a goal banked by another
\* request meanwhile is banked again.
MarkCommit(r) ==
    /\ req[r].op = "bank"
    /\ goals' = IF req[r].goal \in Rows THEN [goals EXCEPT ![req[r].goal].achieved = TRUE] ELSE goals
    /\ req' = [req EXCEPT ![r] = Idle]
    /\ UNCHANGED surroundings
    /\ Watch

\* Any goal of the user, achieved or not.
Abandon(r, g) ==
    /\ req[r] = Idle
    /\ g \in Rows
    /\ req' = [req EXCEPT ![r] = [op |-> "abandon", goal |-> g]]
    /\ UNCHANGED <<goals, surroundings>>
    /\ Watch

Deleted(S) == [g \in Goals |-> IF g \in S THEN [job |-> Gone, was |-> "deleted"] ELSE goals[g]]

\* Mutant: the DELETE names the user, not the goal.
AbandonCommit_ByUser(r) ==
    /\ req[r].op = "abandon"
    /\ goals' = Deleted(Rows)
    /\ req' = [req EXCEPT ![r] = Idle]
    /\ UNCHANGED surroundings
    /\ Watch

\* A DELETE by primary key; that another request deleted the row before is no error.
AbandonCommit(r) ==
    /\ req[r].op = "abandon"
    /\ goals' = Deleted({req[r].goal})
    /\ req' = [req EXCEPT ![r] = Idle]
    /\ UNCHANGED surroundings
    /\ Watch

-----------------------------------------------------------------------------
(* What goes on around the requests.                                       *)

\* Extraction, a confirmation, a rejection or a start of learning changes what counts.
ProfileChanges(s) ==
    /\ held' = IF s \in held THEN held \ {s} ELSE held \cup {s}
    /\ UNCHANGED <<posting, similarity, goals, req>>
    /\ Watch

\* The owner edits the posting and its skills are extracted anew.
PostingChanges(j, required) ==
    /\ posting[j] # Gone
    /\ posting' = [posting EXCEPT ![j] = required]
    /\ UNCHANGED <<held, similarity, goals, req>>
    /\ Watch

\* ON DELETE CASCADE from jobs to career_goals.
PostingGoes(j) ==
    /\ posting[j] # Gone
    /\ posting' = [posting EXCEPT ![j] = Gone]
    /\ goals' = Deleted({g \in Rows : goals[g].job = j})
    /\ UNCHANGED <<held, similarity, req>>
    /\ Watch

\* A vector lands for a new resume or for the posting.
VectorLands(j, c) ==
    /\ similarity' = [similarity EXCEPT ![j] = c]
    /\ UNCHANGED <<held, posting, goals, req>>
    /\ Watch

-----------------------------------------------------------------------------

Request(r) ==
    \/ \E j \in Jobs : SetGoal(r, j)
    \/ SetGoalCommit(r)
    \/ \E g \in Goals : MarkAchieved(r, g) \/ Abandon(r, g)
    \/ MarkScore(r)
    \/ MarkCommit(r)
    \/ AbandonCommit(r)

Next ==
    \/ \E r \in Requests : Request(r)
    \/ \E s \in Skills : ProfileChanges(s)
    \/ \E j \in Jobs :
        \/ \E required \in Requirements : PostingChanges(j, required)
        \/ PostingGoes(j)
        \/ \E c \in Similarities : VectorLands(j, c)

Spec == Init /\ [][Next]_vars

-----------------------------------------------------------------------------
(* Properties.                                                             *)

\* Goals point at postings that exist, requests at what they loaded.
TypeOK ==
    /\ held \subseteq Skills
    /\ posting \in [Jobs -> Requirements \cup {Gone}]
    /\ \A g \in Rows : goals[g].job \in Jobs /\ posting[goals[g].job] # Gone
    /\ \A r \in Requests : req[r].op \in {"idle", "set", "mark", "bank", "abandon"}
    /\ reached \subseteq Goals

\* A user has at most one active goal, whatever requests overlap: set_goal's own check is
\* made before the insert and cannot see the goal another request is about to commit.
OneActiveGoal ==
    \A g, h \in Goals : IsActive(g) /\ IsActive(h) => g = h

\* No goal is achieved by assertion: at some moment while it was active, the user's score
\* for its posting, as the posting was or as the banking request had loaded it, cleared the
\* bar, though profile, posting and vectors change between the score and the commit.
AchievedWasReached ==
    \A g \in Rows : goals[g].achieved => g \in reached

\* A goal keeps its job and its baseline for as long as it exists, an achievement is never
\* taken back, and a goal disappears only with its posting or by a request that named it.
HistoryIsKept ==
    [][\A g \in Rows :
        \/ goals'[g] = goals[g]
        \/ goals'[g] = [goals[g] EXCEPT !.achieved = TRUE]
        \/ posting'[goals[g].job] = Gone
        \/ \E r \in Requests :
            req[r] = [op |-> "abandon", goal |-> g] /\ req'[r] = Idle]_vars
=============================================================================
