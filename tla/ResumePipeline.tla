--------------------------- MODULE ResumePipeline ---------------------------
(***************************************************************************)
(* From upload to vector: ResumeService.upload, the Celery tasks           *)
(* parse_resume and embed_resume, and the sweeper requeue_stuck_resumes,   *)
(* over Redis as a broker and one worker process that runs one task at a   *)
(* time (Procfile: --concurrency=1, beat embedded).                        *)
(*                                                                         *)
(* parse_resume is acknowledged after it ran, embed_resume on receipt.     *)
(* Celery acknowledges a task whose child process was killed; only when    *)
(* the whole container dies does a message stay unacknowledged, until the  *)
(* visibility timeout hands it out again.                                  *)
(***************************************************************************)
EXTENDS FiniteSets, Integers

CONSTANTS
    Resumes,               \* resume ids; also a bound on the uploads
    Users,
    MAX_PENDING_PER_USER,
    MaxRetries,            \* max_retries of both tasks
    MaxFaults,             \* bound: kills, crashes and transient errors
    MaxCopies,             \* bound: a sweep resends no resume with so many messages waiting
    NoMessage

ASSUME PendingCapPositive == MAX_PENDING_PER_USER \in Nat \ {0}
ASSUME PipelineBounds == MaxRetries \in Nat /\ MaxFaults \in Nat /\ MaxCopies \in Nat \ {0}

VARIABLES
    row,        \* the committed rows of resumes
    doc,        \* what the uploaded file will do to the parser
    up,         \* where the request that uploads each resume is
    overlapped, \* history: users two of whose uploads ran at once
    queue,      \* the broker: how many copies of each message wait
    unacked,    \* messages a dead worker had not acknowledged
    cur,        \* the message the worker runs, and how far it is
    step,
    faults

vars == <<row, doc, up, overlapped, queue, unacked, cur, step, faults>>

\* poison: every attempt ends in an exception nobody anticipated.
Documents == {"good", "bad", "slow", "poison"}
Reasons == {"none", "unreadable", "timeout", "no-data", "interrupted"}
Message == [task : {"parse", "embed"}, res : Resumes, retries : 0..MaxRetries]
ASSUME NoMessageIsNone == NoMessage \notin Message

Parse(r, n) == [task |-> "parse", res |-> r, retries |-> n]
Embed(r, n) == [task |-> "embed", res |-> r, retries |-> n]

Active == {"pending", "processing"}
Resume == [status : {"absent", "complete", "failed"} \cup Active, user : Users,
           file_data : BOOLEAN, extracted_text : BOOLEAN, embedding : BOOLEAN,
           error : Reasons, stale : BOOLEAN]

Init ==
    /\ \E owner \in [Resumes -> Users] :
          row = [r \in Resumes |-> [status |-> "absent", user |-> owner[r], file_data |-> FALSE,
                                    extracted_text |-> FALSE, embedding |-> FALSE,
                                    error |-> "none", stale |-> FALSE]]
    /\ doc \in [Resumes -> Documents]
    /\ up = [r \in Resumes |-> "new"]
    /\ overlapped = {}
    /\ queue = [m \in Message |-> 0]
    /\ unacked = [m \in Message |-> 0]
    /\ cur = NoMessage
    /\ step = "idle"
    /\ faults = 0

-----------------------------------------------------------------------------
(* ResumeService.upload                                                    *)

PendingOf(u) == {r \in Resumes : row[r].user = u /\ row[r].status \in Active}
Uploading(u) == {r \in Resumes : row[r].user = u /\ up[r] = "counted"}

\* Mutant: the cap is compared with > instead of >=.
UploadCount_OffByOne(r) ==
    LET u == row[r].user IN
    /\ up[r] = "new"
    /\ Cardinality(PendingOf(u)) <= MAX_PENDING_PER_USER
    /\ up' = [up EXCEPT ![r] = "counted"]
    /\ overlapped' = IF Uploading(u) = {} THEN overlapped ELSE overlapped \cup {u}
    /\ UNCHANGED <<row, doc, queue, unacked, cur, step, faults>>

\* The type checks pass and the user's unprocessed resumes are counted.
UploadCount(r) ==
    LET u == row[r].user IN
    /\ up[r] = "new"
    /\ Cardinality(PendingOf(u)) < MAX_PENDING_PER_USER
    /\ up' = [up EXCEPT ![r] = "counted"]
    /\ overlapped' = IF Uploading(u) = {} THEN overlapped ELSE overlapped \cup {u}
    /\ UNCHANGED <<row, doc, queue, unacked, cur, step, faults>>

\* Mutant: the message goes out before the row is committed.
UploadCommit_EnqueueFirst(r) ==
    /\ up[r] = "counted"
    /\ queue' = [queue EXCEPT ![Parse(r, 0)] = @ + 1]
    /\ up' = [up EXCEPT ![r] = "committed"]
    /\ UNCHANGED <<row, doc, overlapped, unacked, cur, step, faults>>

\* The row is committed, then the task is published.
UploadCommit(r) ==
    /\ up[r] = "counted"
    /\ row' = [row EXCEPT ![r].status = "pending", ![r].file_data = TRUE]
    /\ up' = [up EXCEPT ![r] = "committed"]
    /\ UNCHANGED <<doc, overlapped, queue, unacked, cur, step, faults>>

UploadEnqueue(r) ==
    /\ up[r] = "committed"
    /\ queue' = [queue EXCEPT ![Parse(r, 0)] = @ + 1]
    /\ up' = [up EXCEPT ![r] = "accepted"]
    /\ UNCHANGED <<row, doc, overlapped, unacked, cur, step, faults>>

-----------------------------------------------------------------------------
(* The worker.                                                             *)

Take(m) ==
    /\ cur = NoMessage
    /\ queue[m] > 0
    /\ queue' = [queue EXCEPT ![m] = @ - 1]
    /\ cur' = m
    /\ step' = "received"
    /\ UNCHANGED <<row, doc, up, overlapped, unacked, faults>>

\* The task returns or raises, and its message is acknowledged.
Finish == cur' = NoMessage /\ step' = "idle"

Running(task, at) == cur # NoMessage /\ cur.task = task /\ step = at

Failed(x, why) == [x EXCEPT !.status = "failed", !.error = why, !.file_data = FALSE]

\* Mutant: a complete resume is not recognised.
ParseBegin_NoCompleteGuard ==
    LET r == cur.res IN
    /\ Running("parse", "received")
    /\ IF ~row[r].file_data
       THEN row' = [row EXCEPT ![r] = Failed(@, "no-data")] /\ Finish
       ELSE /\ row' = [row EXCEPT ![r].status = "processing"]
            /\ step' = "parsing" /\ UNCHANGED cur
    /\ UNCHANGED <<doc, up, overlapped, queue, unacked, faults>>

\* The guards, then `processing` in a commit of its own.  A row that already
\* says so is not written again, so its updated_at stays what it was.
ParseBegin ==
    LET r == cur.res IN
    /\ Running("parse", "received")
    /\ \/ row[r].status = "complete" /\ Finish /\ UNCHANGED row
       \/ /\ row[r].status # "complete" /\ ~row[r].file_data
          /\ row' = [row EXCEPT ![r] = Failed(@, "no-data")]
          /\ Finish
       \/ /\ row[r].status # "complete" /\ row[r].file_data
          /\ row' = [row EXCEPT ![r].status = "processing",
                                ![r].stale = @ /\ row[r].status = "processing"]
          /\ step' = "parsing" /\ UNCHANGED cur
    /\ UNCHANGED <<doc, up, overlapped, queue, unacked, faults>>

\* Mutant: the bytes are kept after success.
ParseSucceeds_KeepsBytes ==
    /\ Running("parse", "parsing")
    /\ doc[cur.res] = "good"
    /\ row' = [row EXCEPT ![cur.res] = [@ EXCEPT !.status = "complete", !.extracted_text = TRUE,
                                                 !.error = "none"]]
    /\ step' = "parsed"
    /\ UNCHANGED <<doc, up, overlapped, queue, unacked, cur, faults>>

\* Text and skills are committed and the bytes dropped, also when the matcher of
\* _extract_skills raised.
ParseSucceeds ==
    /\ Running("parse", "parsing")
    /\ doc[cur.res] = "good"
    /\ row' = [row EXCEPT ![cur.res] = [@ EXCEPT !.status = "complete", !.extracted_text = TRUE,
                                                 !.error = "none", !.file_data = FALSE]]
    /\ step' = "parsed"
    /\ UNCHANGED <<doc, up, overlapped, queue, unacked, cur, faults>>

\* ExtractionError, and SoftTimeLimitExceeded.
ParseFails ==
    /\ Running("parse", "parsing")
    /\ \/ doc[cur.res] = "bad" /\ row' = [row EXCEPT ![cur.res] = Failed(@, "unreadable")]
       \/ doc[cur.res] = "slow" /\ row' = [row EXCEPT ![cur.res] = Failed(@, "timeout")]
    /\ Finish
    /\ UNCHANGED <<doc, up, overlapped, queue, unacked, faults>>

\* self.retry(exc=exc): another attempt is published while retries remain.
\* When none remain Celery re-raises exc itself, so the handler of
\* MaxRetriesExceededError is not reached and the session rolls back.
Retry ==
    queue' = IF cur.retries < MaxRetries
             THEN [queue EXCEPT ![[cur EXCEPT !.retries = @ + 1]] = @ + 1]
             ELSE queue

ParseRaises ==
    /\ Running("parse", "parsing")
    /\ doc[cur.res] = "poison"
    /\ Retry
    /\ Finish
    /\ UNCHANGED <<row, doc, up, overlapped, unacked, faults>>

TransientError ==
    /\ Running("parse", "parsing") \/ Running("embed", "received")
    /\ doc[cur.res] # "poison"
    /\ faults < MaxFaults
    /\ faults' = faults + 1
    /\ Retry
    /\ Finish
    /\ UNCHANGED <<row, doc, up, overlapped, unacked>>

\* A database error inside _extract_skills is caught, but PostgreSQL has aborted
\* the transaction: the commit fails, the text is lost, nothing is retried.
SkillsAbortTransaction ==
    /\ Running("parse", "parsing")
    /\ doc[cur.res] = "good"
    /\ faults < MaxFaults
    /\ faults' = faults + 1
    /\ Finish
    /\ UNCHANGED <<row, doc, up, overlapped, queue, unacked>>

\* Mutant: nobody asks for the embedding.
EnqueueEmbed_Forgotten ==
    /\ Running("parse", "parsed")
    /\ Finish
    /\ UNCHANGED <<row, doc, up, overlapped, queue, unacked, faults>>

\* embed_resume.delay, after the transaction that completed the resume.
EnqueueEmbed ==
    /\ Running("parse", "parsed")
    /\ queue' = [queue EXCEPT ![Embed(cur.res, 0)] = @ + 1]
    /\ Finish
    /\ UNCHANGED <<row, doc, up, overlapped, unacked, faults>>

\* A vector that exists is kept, and without text there is nothing to embed.
EmbedRuns ==
    /\ Running("embed", "received")
    /\ row' = [row EXCEPT ![cur.res].embedding = @ \/ row[cur.res].extracted_text]
    /\ Finish
    /\ UNCHANGED <<doc, up, overlapped, queue, unacked, faults>>

\* EmbeddingDisabledError and SoftTimeLimitExceeded are not retried.
EmbedGivesUp ==
    /\ Running("embed", "received")
    /\ faults < MaxFaults
    /\ faults' = faults + 1
    /\ Finish
    /\ UNCHANGED <<row, doc, up, overlapped, queue, unacked>>

-----------------------------------------------------------------------------
(* The sweeper, a task of the same worker, and the passage of time.        *)

\* updated_at falls behind the cutoff of fifteen minutes.
Age(r) ==
    /\ row[r].status \in Active
    /\ ~row[r].stale
    /\ row' = [row EXCEPT ![r].stale = TRUE]
    /\ UNCHANGED <<doc, up, overlapped, queue, unacked, cur, step, faults>>

\* Mutant: an earlier version looked at pending rows alone.
Stuck_PendingOnly(r) == row[r].status = "pending" /\ row[r].stale

Stuck(r) == row[r].status \in Active /\ row[r].stale

Resendable(r) == Stuck(r) /\ \A n \in 0..MaxRetries : queue[Parse(r, n)] < MaxCopies

\* Rows whose bytes are gone are failed, the others are sent again; the sweep
\* does not touch updated_at, so the next one sends them once more.
RequeueStuck ==
    /\ cur = NoMessage
    /\ \E r \in Resumes : Resendable(r)
    /\ row' = [r \in Resumes |->
                  IF Resendable(r) /\ ~row[r].file_data THEN Failed(row[r], "interrupted") ELSE row[r]]
    /\ queue' = [m \in Message |->
                    IF m = Parse(m.res, 0) /\ Resendable(m.res) /\ row[m.res].file_data
                    THEN queue[m] + 1 ELSE queue[m]]
    /\ UNCHANGED <<doc, up, overlapped, unacked, cur, step, faults>>

-----------------------------------------------------------------------------
(* Failures.                                                               *)

\* Mutant: a killed child leaves its slot occupied.
ChildKilled_KeepsSlot ==
    /\ cur # NoMessage
    /\ faults < MaxFaults
    /\ faults' = faults + 1
    /\ cur' = NoMessage
    /\ UNCHANGED <<row, doc, up, overlapped, queue, unacked, step>>

\* The child running the task is killed (memory, hard time limit).
ChildKilled ==
    /\ cur # NoMessage
    /\ faults < MaxFaults
    /\ faults' = faults + 1
    /\ Finish
    /\ UNCHANGED <<row, doc, up, overlapped, queue, unacked>>

\* The container dies, and with it the API: uploads under way are cut short, an
\* unacknowledged parse stays with the broker, an embed is gone.
ContainerDies ==
    /\ faults < MaxFaults
    /\ faults' = faults + 1
    /\ up' = [r \in Resumes |-> IF up[r] \in {"counted", "committed"} THEN "cut" ELSE up[r]]
    /\ unacked' = IF cur # NoMessage /\ cur.task = "parse"
                  THEN [unacked EXCEPT ![cur] = @ + 1] ELSE unacked
    /\ Finish
    /\ UNCHANGED <<row, doc, overlapped, queue>>

Redeliver(m) ==
    /\ unacked[m] > 0
    /\ unacked' = [unacked EXCEPT ![m] = @ - 1]
    /\ queue' = [queue EXCEPT ![m] = @ + 1]
    /\ UNCHANGED <<row, doc, up, overlapped, cur, step, faults>>

-----------------------------------------------------------------------------

Work ==
    \/ ParseBegin
    \/ ParseSucceeds
    \/ ParseFails
    \/ ParseRaises
    \/ EnqueueEmbed
    \/ EmbedRuns

Next ==
    \/ \E r \in Resumes : UploadCount(r) \/ UploadCommit(r) \/ UploadEnqueue(r) \/ Age(r)
    \/ \E m \in Message : Take(m) \/ Redeliver(m)
    \/ Work
    \/ RequeueStuck
    \/ TransientError
    \/ SkillsAbortTransaction
    \/ EmbedGivesUp
    \/ ChildKilled
    \/ ContainerDies

Spec == Init /\ [][Next]_vars

\* The worker runs what it has taken and the platform restarts it; the queue is
\* a list served in order, so neither a message nor the sweeper waiting in it
\* is passed over for ever; beat keeps its schedule; time passes.
Fairness ==
    /\ WF_vars(Work)
    /\ SF_vars(RequeueStuck)
    /\ \A m \in Message : SF_vars(Take(m)) /\ WF_vars(Redeliver(m))
    /\ \A r \in Resumes : WF_vars(Age(r)) /\ WF_vars(UploadEnqueue(r))

FairSpec == Spec /\ Fairness

-----------------------------------------------------------------------------
(* Properties.                                                             *)

\* Every variable has its type, and the worker is between tasks exactly when it
\* runs no message.
TypeOK ==
    /\ row \in [Resumes -> Resume]
    /\ doc \in [Resumes -> Documents]
    /\ up \in [Resumes -> {"new", "counted", "committed", "accepted", "cut"}]
    /\ overlapped \subseteq Users
    /\ queue \in [Message -> Nat]
    /\ unacked \in [Message -> Nat]
    /\ cur \in Message \cup {NoMessage}
    /\ step \in {"idle", "received", "parsing", "parsed"}
    /\ (cur = NoMessage) = (step = "idle")
    /\ faults \in 0..MaxFaults

\* Whatever ran twice, died or was retried, a row is coherent: the bytes are
\* kept exactly while a parse may still need them, the text exists exactly when
\* it is complete, a reason exactly when it failed, a vector only with text.
RowCoherent ==
    \A r \in Resumes :
        /\ row[r].file_data <=> row[r].status \in Active
        /\ row[r].extracted_text <=> row[r].status = "complete"
        /\ row[r].error # "none" <=> row[r].status = "failed"
        /\ row[r].embedding => row[r].extracted_text

\* No message is about a row that is not committed yet (resume.py:89-91).
CommittedBeforeQueued ==
    \A m \in Message : queue[m] + unacked[m] > 0 => row[m.res].status # "absent"

\* A user whose uploads never overlapped has at most MAX_PENDING_PER_USER
\* resumes queued or in flight, however often parsing starts over.
PendingCapWithoutOverlap ==
    \A u \in Users \ overlapped : Cardinality(PendingOf(u)) <= MAX_PENDING_PER_USER

\* What the polling client sees is the lifecycle of ResumeLifecycle: redelivered
\* and repeated messages never take a finished resume back.
Lifecycle == INSTANCE ResumeLifecycle WITH status <- [r \in Resumes |-> row[r].status]
StatusOnlyMovesForward == Lifecycle!Spec

\* A committed upload does not stay pending or processing, whether its message
\* was lost, its worker killed or the container restarted, unless the document
\* makes every attempt raise.
EveryUploadSettles ==
    \A r \in Resumes :
        row[r].status \in Active /\ doc[r] # "poison" ~> row[r].status \in {"complete", "failed"}

\* Without a fault a complete resume gets its vector.
VectorFollows ==
    [](faults = 0) => \A r \in Resumes : row[r].status = "complete" ~> row[r].embedding
=============================================================================
