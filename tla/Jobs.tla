-------------------------------- MODULE Jobs --------------------------------
(***************************************************************************)
(* One posting: JobService (services/job.py over repositories/job.py)      *)
(* keeps what it requires in step with its text, and the worker task       *)
(* embed_job (workers/tasks.py) keeps its vector.                          *)
(*                                                                         *)
(* A request is the SELECT of the row, the DELETE of replace_skills if the *)
(* description is edited, the flush with the commit, and the publication   *)
(* of the task.  SessionFactory does not flush before the DELETE, so two   *)
(* edits meet at the rows of job_skills first.  Location and company are   *)
(* left out: nothing is derived from them.                                 *)
(***************************************************************************)
EXTENDS SkillMatching

CONSTANTS
    Titles, Descriptions,   \* bound: the texts an owner writes
    LineBreak,
    Requests,               \* requests that may be open at once
    Workers,                \* processes of the worker: celery_concurrency
    MaxCommits,             \* bound: commits of a text
    MaxFaults,              \* bound: crashes, kills and tasks that give up
    Gone

VARIABLES
    job,      \* the committed row, Gone before it is created and once it is deleted
    skills,   \* its rows of job_skills, each with the commit that wrote it
    req,      \* the open requests
    queue,    \* messages of embed_job, by the attempts they have left
    task,     \* what each worker process is embedding
    commits,  \* commits of a text so far
    faults,
    history   \* titles: those the job has had; attached: the description its skills were
              \* last derived from; overlapped: two edits have met; lost: the last message
              \* published has been lost

vars == <<job, skills, req, queue, task, commits, faults, history>>

\* The vector is named by the text it was computed from.
NoVector == <<>>

Idle == [stage |-> "idle"]

max_retries == 2

Init ==
    /\ job = Gone
    /\ skills = {}
    /\ req = [r \in Requests |-> Idle]
    /\ queue = [left \in 0..max_retries |-> 0]
    /\ task = [w \in Workers |-> Idle]
    /\ commits = 0
    /\ faults = 0
    /\ history = [titles |-> {}, attached |-> Gone, overlapped |-> FALSE, lost |-> FALSE]

ImportanceFor(n) ==
    IF n >= 5 THEN 5 ELSE IF n >= 3 THEN 4 ELSE IF n = 2 THEN 3 ELSE IF n = 1 THEN 2 ELSE 1

\* _attach_skills: title and description together.
DerivedFrom == [title \in Titles |-> [description \in Descriptions |->
    {[skill |-> match.skill, importance |-> ImportanceFor(match.occurrences)] :
        match \in Find(title \o <<LineBreak>> \o description)}]]

Derived(title, description) == DerivedFrom[title][description]

Plain(rows) == {[skill |-> row.skill, importance |-> row.importance] : row \in rows}

-----------------------------------------------------------------------------
(* The API.                                                                *)

\* create: the row and its skills in one transaction.
Create(r, title, description) ==
    /\ commits = 0 /\ req[r] = Idle
    /\ job' = [title |-> title, description |-> description, vector |-> NoVector]
    /\ skills' = {[skill |-> row.skill, importance |-> row.importance, by |-> 1] :
                    row \in Derived(title, description)}
    /\ commits' = 1
    /\ history' = [history EXCEPT !.titles = {title}, !.attached = description]
    /\ req' = [req EXCEPT ![r] = [stage |-> "publish"]]
    /\ UNCHANGED <<queue, task, faults>>

\* NotYourJobError when it is gone.
Open(r, kind, title, description) ==
    /\ req[r] = Idle
    /\ job # Gone
    /\ commits + Cardinality({o \in Requests : req[o] # Idle}) < MaxCommits
    /\ req' = [req EXCEPT ![r] = [stage |-> kind, title |-> title, description |-> description,
                                  was |-> [title |-> job.title, description |-> job.description],
                                  derives |-> {}, replaces |-> {}]]
    /\ history' = [history EXCEPT !.overlapped = @ \/ \E o \in Requests :
                                                        req[o].stage \notin {"idle", "publish"}]
    /\ UNCHANGED <<job, skills, queue, task, commits, faults>>

\* A payload with a description, and perhaps a title.
UpdateDescription(r, title, description) ==
    Open(r, "derive", title, description)

\* A payload without one: nothing is derived anew.
UpdateTitle(r, title) ==
    /\ job # Gone
    /\ Open(r, "commit", title, job.description)

\* Mutant: the rows of before are not deleted.
Replaced_Nothing == {}

\* The rows the DELETE of replace_skills sees; it waits for those another edit is deleting.
Replaced == skills

\* _attach_skills on the entity in the session.
AttachSkills(r) ==
    /\ req[r].stage = "derive"
    /\ req' = [req EXCEPT
         ![r].stage = IF \E o \in Requests \ {r} : req[o].stage = "locked" /\ req[o].replaces \cap skills # {}
                      THEN "waits" ELSE "locked",
         ![r].replaces = Replaced,
         ![r].derives = Derived(req[r].title, req[r].description)]
    /\ UNCHANGED <<job, skills, queue, task, commits, faults, history>>

\* Rows an edit that ended has deleted or written are not this DELETE's any more.
Left(r) == {row \in skills : row \notin req[r].replaces}

\* The primary key of job_skills.
Unique(r) == \A row \in Left(r), new \in req[r].derives : row.skill # new.skill

\* Mutant: a new vector is asked for when the title changes.
Reembed_OnTitle(q) == q.title # q.was.title

\* The text changed, so the stored vector describes something that no longer exists.
Reembed(q) == q.stage # "commit"

\* The flush leaves a column out that was assigned what had been loaded.
Written(q) ==
    [job EXCEPT !.title = IF q.title # q.was.title THEN q.title ELSE @,
                !.description = IF q.description # q.was.description THEN q.description ELSE @]

\* Nothing to flush: neither an UPDATE nor an INSERT misses a job that is deleted.
NothingToWrite(q) == q.title = q.was.title /\ q.description = q.was.description /\ q.derives = {}

\* The columns that differ, and the new rows.
UpdateCommit(r) ==
    LET q == req[r]
        text == q.stage # "commit"   \* the payload had a description
        ok == Unique(r) /\ (job = Gone => NothingToWrite(q))
    IN
    /\ q.stage \in {"commit", "locked"} \/
       (q.stage = "waits" /\ \A o \in Requests : req[o].stage = "locked" => req[o].replaces \cap q.replaces = {})
    /\ job' = IF ok /\ job # Gone THEN Written(q) ELSE job
    /\ skills' = IF ok /\ text
                 THEN Left(r) \cup {[skill |-> row.skill, importance |-> row.importance,
                                     by |-> commits + 1] : row \in q.derives}
                 ELSE skills
    /\ commits' = IF ok THEN commits + 1 ELSE commits
    /\ history' = IF ok /\ job # Gone
                  THEN [history EXCEPT !.titles = @ \cup {job'.title},
                                       !.attached = IF text THEN q.description ELSE @]
                  ELSE history
    /\ req' = [req EXCEPT ![r] = IF ok /\ Reembed(q) THEN [stage |-> "publish"] ELSE Idle]
    /\ UNCHANGED <<queue, task, faults>>

\* enqueue_job_embedding
Publish(r) ==
    /\ req[r].stage = "publish"
    /\ queue' = [queue EXCEPT ![max_retries] = @ + 1]
    /\ history' = [history EXCEPT !.lost = FALSE]
    /\ req' = [req EXCEPT ![r] = Idle]
    /\ UNCHANGED <<job, skills, task, commits, faults>>

\* delete, with everything the foreign keys cascade to.
Delete(r) ==
    /\ req[r] = Idle
    /\ job # Gone
    /\ job' = Gone
    /\ skills' = {}
    /\ UNCHANGED <<req, queue, task, commits, faults, history>>

\* The API dies: open transactions are rolled back and unpublished tasks never are.
ApiDies ==
    /\ faults < MaxFaults
    /\ \E r \in Requests : req[r] # Idle
    /\ history' = [history EXCEPT !.lost = @ \/ \E r \in Requests : req[r].stage = "publish"]
    /\ req' = [r \in Requests |-> Idle]
    /\ faults' = faults + 1
    /\ UNCHANGED <<job, skills, queue, task, commits>>

-----------------------------------------------------------------------------
(* embed_job.                                                              *)

\* acks_late=False: the message is gone once the task starts; no job, no work.
EmbedBegins(w, left) ==
    /\ task[w] = Idle
    /\ queue[left] > 0
    /\ queue' = [queue EXCEPT ![left] = @ - 1]
    /\ task' = [task EXCEPT ![w] = IF job = Gone THEN Idle
                                   ELSE [stage |-> "embeds", text |-> <<job.title, job.description>>,
                                         left |-> left]]
    /\ UNCHANGED <<job, skills, req, commits, faults, history>>

\* The UPDATE at the end of worker_session; of a job that was deleted it raises.
EmbedCommits(w) ==
    /\ task[w] # Idle
    /\ job' = IF job = Gone THEN Gone ELSE [job EXCEPT !.vector = task[w].text]
    /\ task' = [task EXCEPT ![w] = Idle]
    /\ UNCHANGED <<skills, req, queue, commits, faults, history>>

\* An exception publishes the task again, which then reads the text of that moment.
EmbedRaises(w) ==
    /\ task[w] # Idle
    /\ task[w].left > 0
    /\ queue' = [queue EXCEPT ![task[w].left - 1] = @ + 1]
    /\ task' = [task EXCEPT ![w] = Idle]
    /\ UNCHANGED <<job, skills, req, commits, faults, history>>

\* EmbeddingDisabledError, SoftTimeLimitExceeded, the last retry, or the child is killed.
EmbedEnds(w) ==
    /\ task[w] # Idle
    /\ faults < MaxFaults
    /\ task' = [task EXCEPT ![w] = Idle]
    /\ faults' = faults + 1
    /\ history' = [history EXCEPT !.lost = TRUE]
    /\ UNCHANGED <<job, skills, req, queue, commits>>

-----------------------------------------------------------------------------

Next ==
    \/ \E r \in Requests :
        \/ \E title \in Titles, description \in Descriptions :
            \/ Create(r, title, description)
            \/ UpdateDescription(r, title, description)
        \/ \E title \in Titles : UpdateTitle(r, title)
        \/ AttachSkills(r)
        \/ UpdateCommit(r)
        \/ Publish(r)
        \/ Delete(r)
    \/ ApiDies
    \/ \E w \in Workers :
        \/ \E left \in 0..max_retries : EmbedBegins(w, left)
        \/ EmbedCommits(w)
        \/ EmbedRaises(w)
        \/ EmbedEnds(w)

Spec == Init /\ [][Next]_vars

-----------------------------------------------------------------------------
(* Properties.                                                             *)

\* As long as edits do not meet, a posting requires exactly what its description, as it
\* stands, and a title it has had name.  Whatever edits meet, it requires all that the last of
\* them to derive skills did derive: neither the DELETE of the other nor its rows take any of
\* that away.  It is of that edit's description, which need not be the one that stands.
SkillsFollowDescription ==
    job # Gone => \E title \in history.titles :
        /\ history.overlapped \/ Plain(skills) = Derived(title, job.description)
        /\ Derived(title, history.attached) \subseteq Plain(skills)

\* Whatever text a posting is edited to, each pattern claims every mention of its own skills
\* once: not a short name inside a longer one of the same pattern, and none left out.  The
\* two patterns do not know of each other: a name that needs its case is counted also inside
\* a longer one that does not.
PatternsClaimMentions == job # Gone => ClaimsAreRight

Drained ==
    /\ \A left \in DOMAIN queue : queue[left] = 0
    /\ \A w \in Workers : task[w] = Idle
    /\ \A r \in Requests : req[r].stage # "publish"

\* Once no embedding is on its way, and unless the last one asked for was lost, the vector
\* is of the description as it stands: a task that read the text before an edit and commits
\* after it is followed by the task of that edit.
VectorFollowsDescription ==
    Drained /\ ~history.lost /\ job # Gone =>
        \E title \in history.titles : job.vector = <<title, job.description>>
=============================================================================
