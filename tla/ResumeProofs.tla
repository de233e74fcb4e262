---------------------------- MODULE ResumeProofs ----------------------------
(***************************************************************************)
(* What ResumePipeline promises, for any number of resumes, users, retries *)
(* and faults; and that it implements ResumeLifecycle.                     *)
(***************************************************************************)
EXTENDS ResumePipeline, FiniteSetTheorems, TLAPS

Coherent(x) ==
    /\ x.file_data <=> x.status \in Active
    /\ x.extracted_text <=> x.status = "complete"
    /\ x.error # "none" <=> x.status = "failed"
    /\ x.embedding => x.extracted_text

\* The worker has one task at a time, so between the two commits of a parse nobody else moves
\* its row; and a message exists only for a row that does.
IInv ==
    /\ TypeOK
    /\ RowCoherent
    /\ CommittedBeforeQueued
    /\ \A r \in Resumes : up[r] \in {"new", "counted"} <=> row[r].status = "absent" /\ up[r] # "cut"
    /\ cur # NoMessage => row[cur.res].status # "absent"
    /\ Running("parse", "parsing") => row[cur.res].status = "processing"

\* The moves of ResumeLifecycle, of one row.
Forward(from, to) ==
    \/ from = to
    \/ from = "absent" /\ to = "pending"
    \/ from = "pending" /\ to = "processing"
    \/ from = "processing" /\ to = "complete"
    \/ from \in Active /\ to = "failed"

\* At most one row moves, and it moves forward.
OneMoves ==
    \/ \A r \in Resumes : row'[r].status = row[r].status
    \/ \E r \in Resumes :
        /\ Forward(row[r].status, row'[r].status)
        /\ \A o \in Resumes \ {r} : row'[o].status = row[o].status

\* Rows keep their owners, and a row appears when the request that uploads it commits.
RowsAppear ==
    \A r \in Resumes :
        /\ row'[r].user = row[r].user
        /\ row[r].status = "absent" /\ row'[r].status # "absent" => up[r] = "counted"

StatusSteps == OneMoves /\ RowsAppear

LEMMA ParseIsMessage ==
    ASSUME NEW r \in Resumes, NEW n \in 0..MaxRetries
    PROVE  Parse(r, n) \in Message /\ Embed(r, n) \in Message /\ Parse(r, n).res = r /\ Embed(r, n).res = r
BY DEF Parse, Embed, Message

LEMMA FailedIsCoherent ==
    ASSUME NEW x \in Resume, x.status # "complete", Coherent(x), NEW why \in Reasons \ {"none"}
    PROVE  /\ Failed(x, why) \in Resume /\ Coherent(Failed(x, why))
           /\ Failed(x, why).status = "failed" /\ Failed(x, why).user = x.user
<1>1. /\ Failed(x, why) \in Resume
      /\ Failed(x, why).status = "failed" /\ Failed(x, why).error = why
      /\ Failed(x, why).file_data = FALSE /\ Failed(x, why).user = x.user
      /\ Failed(x, why).extracted_text = x.extracted_text /\ Failed(x, why).embedding = x.embedding
  BY DEF Failed, Resume
<1> QED
  BY <1>1 DEF Coherent, Active

-----------------------------------------------------------------------------
(* The shapes of a step.                                                   *)

\* No row moves: what a step may do to the requests, the broker and the worker.
LEMMA RowsRest ==
    ASSUME IInv, UNCHANGED <<row, doc>>, TypeOK', NEW old \in SUBSET Message,
           \A r \in Resumes : \/ up'[r] = up[r]
                              \/ up'[r] = "cut"
                              \/ up'[r] = "counted" /\ up[r] = "new"
                              \/ up'[r] = "accepted" /\ up[r] = "committed",
           \A m \in Message : m \in old => row[m.res].status # "absent",
           \A m \in Message \ old : queue'[m] + unacked'[m] <= queue[m] + unacked[m],
           cur' # NoMessage => cur' \in old,
           cur' # NoMessage => (cur' = cur /\ step' = step) \/ step' = "received"
    PROVE  IInv' /\ StatusSteps
<1>1. RowCoherent'
  BY DEF IInv, RowCoherent
<1>2. CommittedBeforeQueued'
  BY DEF IInv, CommittedBeforeQueued, TypeOK
<1>3. \A r \in Resumes : (up[r] \in {"new", "counted"} <=> row[r].status = "absent" /\ up[r] # "cut")'
  BY DEF IInv
<1>4. (cur # NoMessage => row[cur.res].status # "absent")'
  BY DEF TypeOK
<1>5. (Running("parse", "parsing") => row[cur.res].status = "processing")'
  BY DEF IInv, Running
<1>6. StatusSteps
  BY DEF StatusSteps, OneMoves, RowsAppear
<1> QED
  BY <1>1, <1>2, <1>3, <1>4, <1>5, <1>6 DEF IInv

\* One row moves; requests and broker stay, or the request that uploads it has committed.
LEMMA RowMoves ==
    ASSUME IInv, NEW r \in Resumes, NEW x \in Resume, Coherent(x), x.user = row[r].user,
           row' = [row EXCEPT ![r] = x], UNCHANGED <<doc, overlapped, queue, unacked, faults>>,
           Forward(row[r].status, x.status), x.status # "absent",
           \/ UNCHANGED up /\ row[r].status # "absent"
           \/ up' = [up EXCEPT ![r] = "committed"] /\ row[r].status = "absent" /\ up[r] = "counted",
           \/ UNCHANGED <<cur, step>> /\ (row[r].status = "processing" => x.status = "processing")
           \/ cur' = NoMessage /\ step' = "idle"
           \/ cur' = cur /\ cur # NoMessage /\ step' \in {"parsing", "parsed"} /\ cur.res = r
                /\ (step' = "parsing" => x.status = "processing")
    PROVE  IInv' /\ StatusSteps
<1>1. /\ row' \in [Resumes -> Resume] /\ row'[r] = x
      /\ \A o \in Resumes : o # r => row'[o] = row[o]
  BY DEF IInv, TypeOK
<1>2. TypeOK'
  BY <1>1 DEF IInv, TypeOK
<1>3. \A o \in Resumes : Coherent(row'[o])
  BY <1>1 DEF IInv, RowCoherent, Coherent
<1>4. RowCoherent'
  BY <1>3 DEF RowCoherent, Coherent
<1>5. \A o \in Resumes : row[o].status # "absent" => row'[o].status # "absent"
  BY <1>1
<1>6. CommittedBeforeQueued'
  BY <1>5 DEF IInv, CommittedBeforeQueued, Message
<1>7. \A o \in Resumes : (up[o] \in {"new", "counted"} <=> row[o].status = "absent" /\ up[o] # "cut")'
  BY <1>1 DEF IInv, TypeOK
<1>8. (cur # NoMessage => row[cur.res].status # "absent")'
  BY <1>5 DEF IInv, TypeOK, Message
<1>9. (Running("parse", "parsing") => row[cur.res].status = "processing")'
  BY <1>1 DEF IInv, TypeOK, Message, Running
<1>10. StatusSteps
  BY <1>1 DEF StatusSteps, OneMoves, RowsAppear
<1> QED
  BY <1>2, <1>4, <1>6, <1>7, <1>8, <1>9, <1>10 DEF IInv

-----------------------------------------------------------------------------
(* Uploads.                                                                *)

LEMMA UploadKeeps ==
    ASSUME IInv, NEW r \in Resumes, UploadCount(r) \/ UploadCommit(r) \/ UploadEnqueue(r) \/ Age(r)
    PROVE  IInv' /\ StatusSteps
<1>0. row[r] \in Resume /\ Coherent(row[r])
  BY DEF IInv, TypeOK, RowCoherent, Coherent
<1> DEFINE old == {m \in Message : row[m.res].status # "absent"}
<1>1. CASE UploadCount(r)
  <2>1. TypeOK'
    BY <1>0, <1>1 DEF UploadCount, IInv, TypeOK, Resume
  <2>2. \A o \in Resumes : up'[o] = up[o] \/ (up'[o] = "counted" /\ up[o] = "new")
    BY <1>1 DEF UploadCount, IInv, TypeOK
  <2>3. cur # NoMessage => cur \in old
    BY DEF IInv, TypeOK
  <2> HIDE DEF old
  <2>4. old \in SUBSET Message /\ \A m \in Message : m \in old => row[m.res].status # "absent"
    BY DEF old
  <2>5. UNCHANGED <<row, doc, queue, unacked, cur, step>>
    BY <1>1 DEF UploadCount
  <2>6. \A m \in Message : queue'[m] + unacked'[m] <= queue[m] + unacked[m]
    BY <2>5 DEF IInv, TypeOK
  <2> QED
    BY <2>1, <2>2, <2>3, <2>4, <2>5, <2>6, RowsRest
<1>2. CASE UploadCommit(r)
  <2> DEFINE x == [row[r] EXCEPT !.status = "pending", !.file_data = TRUE]
  <2>1. row[r].status = "absent" /\ up[r] = "counted"
    BY <1>2 DEF UploadCommit, IInv
  <2>2. /\ x \in Resume /\ x.user = row[r].user /\ x.status = "pending" /\ x.file_data = TRUE
        /\ x.extracted_text = row[r].extracted_text /\ x.error = row[r].error
        /\ x.embedding = row[r].embedding
    BY <1>0 DEF Resume, Active
  <2>3. row' = [row EXCEPT ![r] = x]
    BY <1>2 DEF UploadCommit
  <2> HIDE DEF x
  <2>4. Coherent(x)
    BY <1>0, <2>1, <2>2 DEF Coherent, Active
  <2>5. Forward(row[r].status, x.status) /\ row[r].status # "processing"
    BY <2>1, <2>2 DEF Forward
  <2> QED
    BY <1>2, <2>1, <2>2, <2>3, <2>4, <2>5, RowMoves DEF UploadCommit
<1>3. CASE UploadEnqueue(r)
  <2>1. row[r].status # "absent"
    BY <1>3 DEF UploadEnqueue, IInv, TypeOK
  <2>2. 0 \in 0..MaxRetries
    BY PipelineBounds
  <2>3. Parse(r, 0) \in old
    BY <2>1, <2>2, ParseIsMessage
  <2>4. TypeOK'
    <3>1. Parse(r, 0) \in Message
      BY <2>2, ParseIsMessage
    <3>2. queue' \in [Message -> Nat]
      BY <1>3, <3>1 DEF UploadEnqueue, IInv, TypeOK
    <3>3. up' \in [Resumes -> {"new", "counted", "committed", "accepted", "cut"}]
      BY <1>3 DEF UploadEnqueue, IInv, TypeOK
    <3> QED
      BY <1>3, <3>2, <3>3 DEF UploadEnqueue, IInv, TypeOK
  <2>5. \A o \in Resumes : up'[o] = up[o] \/ (up'[o] = "accepted" /\ up[o] = "committed")
    BY <1>3 DEF UploadEnqueue, IInv, TypeOK
  <2>6. cur # NoMessage => cur \in old
    BY DEF IInv, TypeOK
  <2>7. UNCHANGED <<row, doc, unacked, cur, step>>
    BY <1>3 DEF UploadEnqueue
  <2> HIDE DEF old
  <2>8. old \in SUBSET Message /\ \A m \in Message : m \in old => row[m.res].status # "absent"
    BY DEF old
  <2>9. \A m \in Message \ old : queue'[m] + unacked'[m] <= queue[m] + unacked[m]
    BY <1>3, <2>3, <2>7 DEF UploadEnqueue, IInv, TypeOK
  <2> QED
    BY <2>4, <2>5, <2>6, <2>7, <2>8, <2>9, RowsRest
<1>4. CASE Age(r)
  <2> DEFINE x == [row[r] EXCEPT !.stale = TRUE]
  <2>1. row[r].status # "absent"
    BY <1>4 DEF Age, Active
  <2>2. x \in Resume /\ Coherent(x) /\ x.status = row[r].status /\ x.user = row[r].user
    BY <1>0 DEF Resume, Coherent
  <2>3. row' = [row EXCEPT ![r] = x]
    BY <1>4 DEF Age
  <2> HIDE DEF x
  <2>4. Forward(row[r].status, x.status)
    BY <2>2 DEF Forward
  <2> QED
    BY <1>4, <2>1, <2>2, <2>3, <2>4, RowMoves DEF Age
<1> QED
  BY <1>1, <1>2, <1>3, <1>4

-----------------------------------------------------------------------------
(* The worker.                                                             *)

\* A task ends, or a message moves between broker, worker and limbo: nothing is said of a
\* row that was not said before.
LEMMA MessagesMove ==
    ASSUME IInv, UNCHANGED <<row, doc, overlapped>>, NEW S \in SUBSET Message,
           \A m \in S : row[m.res].status # "absent",
           queue' \in [Message -> Nat], unacked' \in [Message -> Nat], faults' \in 0..MaxFaults,
           \A m \in Message \ S : queue'[m] + unacked'[m] <= queue[m] + unacked[m],
           \/ UNCHANGED up
           \/ up' = [r \in Resumes |-> IF up[r] \in {"counted", "committed"} THEN "cut" ELSE up[r]],
           \/ cur' = NoMessage /\ step' = "idle"
           \/ UNCHANGED <<cur, step>>
           \/ cur' \in S /\ step' = "received"
    PROVE  IInv' /\ StatusSteps
<1> DEFINE old == S \cup ({cur} \ {NoMessage})
<1>1. TypeOK'
  BY NoMessageIsNone DEF IInv, TypeOK
<1>2. old \in SUBSET Message
  BY DEF IInv, TypeOK
<1>3. \A m \in Message : m \in old => row[m.res].status # "absent"
  BY DEF IInv
<1>4. \A r \in Resumes : up'[r] = up[r] \/ up'[r] = "cut"
  OBVIOUS
<1>5. /\ cur' # NoMessage => cur' \in old
      /\ cur' # NoMessage => (cur' = cur /\ step' = step) \/ step' = "received"
  OBVIOUS
<1>6. \A m \in Message \ old : queue'[m] + unacked'[m] <= queue[m] + unacked[m]
  OBVIOUS
<1> HIDE DEF old
<1> QED
  BY <1>1, <1>2, <1>3, <1>4, <1>5, <1>6, RowsRest

LEMMA TakenIsCommitted ==
    ASSUME IInv
    PROVE  /\ cur # NoMessage => cur \in Message /\ cur.res \in Resumes /\ row[cur.res].status # "absent"
                                 /\ row[cur.res] \in Resume /\ Coherent(row[cur.res])
           /\ \A m \in Message : queue[m] \in Nat /\ unacked[m] \in Nat
           /\ \A m \in Message : queue[m] > 0 \/ unacked[m] > 0 => row[m.res].status # "absent"
<1>1. \A r \in Resumes : row[r] \in Resume /\ Coherent(row[r])
  BY DEF IInv, TypeOK, RowCoherent, Coherent
<1>2. cur # NoMessage => cur \in Message /\ row[cur.res].status # "absent"
  BY DEF IInv, TypeOK
<1>3. \A m \in Message : m.res \in Resumes
  BY DEF Message
<1>4. \A m \in Message : queue[m] \in Nat /\ unacked[m] \in Nat
  BY DEF IInv, TypeOK
<1>5. \A m \in Message : queue[m] > 0 \/ unacked[m] > 0 => row[m.res].status # "absent"
  BY <1>4 DEF IInv, CommittedBeforeQueued
<1> QED
  BY <1>1, <1>2, <1>3, <1>4, <1>5

LEMMA BrokerKeeps ==
    ASSUME IInv, NEW m \in Message, Take(m) \/ Redeliver(m)
    PROVE  IInv' /\ StatusSteps
<1>1. row[m.res].status # "absent" /\ {m} \in SUBSET Message
  BY TakenIsCommitted DEF Take, Redeliver
<1>2. queue' \in [Message -> Nat] /\ unacked' \in [Message -> Nat]
  BY TakenIsCommitted DEF Take, Redeliver, IInv, TypeOK
<1>3. \A o \in Message \ {m} : queue'[o] + unacked'[o] <= queue[o] + unacked[o]
  BY TakenIsCommitted DEF Take, Redeliver, IInv, TypeOK
<1>4. faults' \in 0..MaxFaults /\ UNCHANGED <<row, doc, overlapped, up>>
  BY DEF Take, Redeliver, IInv, TypeOK
<1>5. (cur' \in {m} /\ step' = "received") \/ UNCHANGED <<cur, step>>
  BY DEF Take, Redeliver
<1> QED
  BY <1>1, <1>2, <1>3, <1>4, <1>5, MessagesMove

LEMMA TaskEndsKeeps ==
    ASSUME IInv,
           \/ ParseRaises \/ EnqueueEmbed \/ TransientError \/ SkillsAbortTransaction
           \/ EmbedGivesUp \/ ChildKilled \/ ContainerDies
    PROVE  IInv' /\ StatusSteps
<1> DEFINE S == {m \in Message : row[m.res].status # "absent"}
<1>1. S \in SUBSET Message /\ \A m \in S : row[m.res].status # "absent"
  OBVIOUS
<1>2. faults' \in 0..MaxFaults
  BY PipelineBounds DEF ParseRaises, EnqueueEmbed, TransientError, SkillsAbortTransaction, EmbedGivesUp,
     ChildKilled, ContainerDies, IInv, TypeOK
<1>3. /\ UNCHANGED <<row, doc, overlapped>> /\ cur' = NoMessage /\ step' = "idle"
      /\ \/ UNCHANGED up
         \/ up' = [r \in Resumes |-> IF up[r] \in {"counted", "committed"} THEN "cut" ELSE up[r]]
  BY DEF ParseRaises, EnqueueEmbed, TransientError, SkillsAbortTransaction, EmbedGivesUp, ChildKilled,
     ContainerDies, Finish
<1>4. /\ queue' \in [Message -> Nat] /\ unacked' \in [Message -> Nat]
      /\ \A m \in Message \ S : queue'[m] + unacked'[m] <= queue[m] + unacked[m]
  <2>1. ASSUME NEW m \in S, queue' = [queue EXCEPT ![m] = @ + 1], UNCHANGED unacked
        PROVE  /\ queue' \in [Message -> Nat] /\ unacked' \in [Message -> Nat]
               /\ \A o \in Message \ S : queue'[o] + unacked'[o] <= queue[o] + unacked[o]
    BY <2>1 DEF IInv, TypeOK
  <2>2. CASE UNCHANGED <<queue, unacked>>
    BY <2>2 DEF IInv, TypeOK
  <2>3. CASE ParseRaises \/ TransientError
    <3>1. cur # NoMessage /\ Retry /\ UNCHANGED unacked
      BY <2>3 DEF ParseRaises, TransientError, Running
    <3>2. CASE cur.retries < MaxRetries
      <4>1. [cur EXCEPT !.retries = @ + 1] \in Message /\ [cur EXCEPT !.retries = @ + 1].res = cur.res
        BY <3>1, <3>2, TakenIsCommitted, PipelineBounds DEF Message
      <4>2. [cur EXCEPT !.retries = @ + 1] \in S
        BY <3>1, <4>1, TakenIsCommitted
      <4> QED
        BY <2>1, <3>1, <3>2, <4>2 DEF Retry
    <3>3. CASE ~(cur.retries < MaxRetries)
      BY <2>2, <3>1, <3>3 DEF Retry
    <3> QED
      BY <3>2, <3>3
  <2>4. CASE EnqueueEmbed
    <3>1. cur # NoMessage /\ 0 \in 0..MaxRetries
      BY <2>4, PipelineBounds DEF EnqueueEmbed, Running
    <3>2. Embed(cur.res, 0) \in S
      BY <3>1, TakenIsCommitted, ParseIsMessage
    <3> QED
      BY <2>1, <2>4, <3>2 DEF EnqueueEmbed
  <2>5. CASE ContainerDies
    <3>1. CASE cur # NoMessage /\ cur.task = "parse"
      <4>1. cur \in S /\ UNCHANGED queue /\ unacked' = [unacked EXCEPT ![cur] = @ + 1]
        BY <2>5, <3>1, TakenIsCommitted DEF ContainerDies
      <4> QED
        BY <4>1 DEF IInv, TypeOK
    <3>2. CASE ~(cur # NoMessage /\ cur.task = "parse")
      BY <2>2, <2>5, <3>2 DEF ContainerDies
    <3> QED
      BY <3>1, <3>2
  <2> QED
    BY <2>2, <2>3, <2>4, <2>5 DEF SkillsAbortTransaction, EmbedGivesUp, ChildKilled
<1> HIDE DEF S
<1> QED
  BY <1>1, <1>2, <1>3, <1>4, MessagesMove

LEMMA ParseBeginKeeps ==
    ASSUME IInv, ParseBegin
    PROVE  IInv' /\ StatusSteps
<1> DEFINE r == cur.res
<1>1. /\ cur # NoMessage /\ r \in Resumes /\ row[r] \in Resume /\ Coherent(row[r])
      /\ row[r].status # "absent"
  BY TakenIsCommitted DEF ParseBegin, Running
<1>2. UNCHANGED <<doc, up, overlapped, queue, unacked, faults>>
  BY DEF ParseBegin
<1>3. CASE row[r].status = "complete"
  <2>1. UNCHANGED row /\ cur' = NoMessage /\ step' = "idle"
    BY <1>3 DEF ParseBegin, Finish
  <2> DEFINE none == {m \in Message : FALSE}
  <2>2. /\ queue' \in [Message -> Nat] /\ unacked' \in [Message -> Nat] /\ faults' \in 0..MaxFaults
        /\ \A m \in Message \ none : queue'[m] + unacked'[m] <= queue[m] + unacked[m]
    BY <1>2 DEF IInv, TypeOK
  <2>3. none \in SUBSET Message /\ \A m \in none : row[m.res].status # "absent"
    OBVIOUS
  <2> HIDE DEF none
  <2> QED
    BY <1>2, <2>1, <2>2, <2>3, MessagesMove
<1>4. CASE row[r].status # "complete" /\ ~row[r].file_data
  <2> DEFINE x == Failed(row[r], "no-data")
  <2>1. row' = [row EXCEPT ![r] = x] /\ cur' = NoMessage /\ step' = "idle"
    BY <1>4 DEF ParseBegin, Finish
  <2>2. x \in Resume /\ Coherent(x) /\ x.status = "failed" /\ x.user = row[r].user
    BY <1>1, <1>4, FailedIsCoherent DEF Reasons
  <2>3. row[r].status = "failed"
    BY <1>1, <1>4 DEF Coherent, Active, Resume
  <2> HIDE DEF x
  <2>4. Forward(row[r].status, x.status)
    BY <2>2, <2>3 DEF Forward
  <2> QED
    BY <1>1, <1>2, <2>1, <2>2, <2>4, RowMoves
<1>5. CASE row[r].status # "complete" /\ row[r].file_data
  <2> DEFINE x == [row[r] EXCEPT !.status = "processing",
                                 !.stale = @ /\ row[r].status = "processing"]
  <2>1. row' = [row EXCEPT ![r] = x] /\ cur' = cur /\ step' = "parsing"
    BY <1>5 DEF ParseBegin
  <2>2. /\ x \in Resume /\ x.user = row[r].user /\ x.status = "processing" /\ x.file_data = row[r].file_data
        /\ x.extracted_text = row[r].extracted_text /\ x.error = row[r].error
        /\ x.embedding = row[r].embedding
    BY <1>1 DEF Resume, Active
  <2>3. row[r].status \in Active
    BY <1>1, <1>5 DEF Coherent
  <2> HIDE DEF x
  <2>4. Coherent(x)
    BY <1>1, <2>2, <2>3 DEF Coherent, Active
  <2>5. Forward(row[r].status, x.status)
    BY <2>2, <2>3 DEF Forward, Active
  <2> QED
    BY <1>1, <1>2, <2>1, <2>2, <2>4, <2>5, RowMoves
<1> QED
  BY <1>3, <1>4, <1>5

LEMMA ParseEndsKeeps ==
    ASSUME IInv, ParseSucceeds \/ ParseFails
    PROVE  IInv' /\ StatusSteps
<1> DEFINE r == cur.res
<1>1. /\ cur # NoMessage /\ r \in Resumes /\ row[r] \in Resume /\ Coherent(row[r])
      /\ row[r].status = "processing"
  BY TakenIsCommitted DEF ParseSucceeds, ParseFails, Running, IInv
<1>2. UNCHANGED <<doc, up, overlapped, queue, unacked, faults>>
  BY DEF ParseSucceeds, ParseFails
<1>3. CASE ParseSucceeds
  <2> DEFINE x == [row[r] EXCEPT !.status = "complete", !.extracted_text = TRUE,
                                 !.error = "none", !.file_data = FALSE]
  <2>1. row' = [row EXCEPT ![r] = x] /\ cur' = cur /\ step' = "parsed"
    BY <1>3 DEF ParseSucceeds
  <2>2. /\ x \in Resume /\ x.user = row[r].user /\ x.status = "complete" /\ x.file_data = FALSE
        /\ x.extracted_text = TRUE /\ x.error = "none"
    BY <1>1 DEF Resume, Reasons
  <2> HIDE DEF x
  <2>3. Coherent(x)
    BY <2>2 DEF Coherent, Active
  <2>4. Forward(row[r].status, x.status)
    BY <1>1, <2>2 DEF Forward
  <2> QED
    BY <1>1, <1>2, <2>1, <2>2, <2>3, <2>4, RowMoves
<1>4. CASE ParseFails
  <2>1. PICK why \in {"unreadable", "timeout"} : row' = [row EXCEPT ![r] = Failed(row[r], why)]
    BY <1>4 DEF ParseFails
  <2> DEFINE x == Failed(row[r], why)
  <2>2. x \in Resume /\ Coherent(x) /\ x.status = "failed" /\ x.user = row[r].user
    BY <1>1, FailedIsCoherent DEF Reasons
  <2>3. row' = [row EXCEPT ![r] = x] /\ cur' = NoMessage /\ step' = "idle"
    BY <1>4, <2>1 DEF ParseFails, Finish
  <2> HIDE DEF x
  <2>4. Forward(row[r].status, x.status)
    BY <1>1, <2>2 DEF Forward, Active
  <2> QED
    BY <1>1, <1>2, <2>2, <2>3, <2>4, RowMoves
<1> QED
  BY <1>3, <1>4

LEMMA EmbedRunsKeeps ==
    ASSUME IInv, EmbedRuns
    PROVE  IInv' /\ StatusSteps
<1> DEFINE r == cur.res
           x == [row[r] EXCEPT !.embedding = @ \/ row[r].extracted_text]
<1>1. /\ cur # NoMessage /\ r \in Resumes /\ row[r] \in Resume /\ Coherent(row[r])
      /\ row[r].status # "absent"
  BY TakenIsCommitted DEF EmbedRuns, Running
<1>2. /\ row' = [row EXCEPT ![r] = x] /\ cur' = NoMessage /\ step' = "idle"
      /\ UNCHANGED <<doc, up, overlapped, queue, unacked, faults>>
  BY DEF EmbedRuns, Finish
<1>3. /\ x \in Resume /\ x.user = row[r].user /\ x.status = row[r].status /\ x.file_data = row[r].file_data
      /\ x.extracted_text = row[r].extracted_text /\ x.error = row[r].error
      /\ x.embedding = (row[r].embedding \/ row[r].extracted_text)
  BY <1>1 DEF Resume
<1> HIDE DEF x
<1>4. Coherent(x)
  BY <1>1, <1>3 DEF Coherent
<1>5. Forward(row[r].status, x.status)
  BY <1>3 DEF Forward
<1> QED
  BY <1>1, <1>2, <1>3, <1>4, <1>5, RowMoves

\* The bytes of a row that is active are there: no sweep fails a row.
LEMMA RequeueKeeps ==
    ASSUME IInv, RequeueStuck
    PROVE  IInv' /\ StatusSteps
<1> DEFINE S == {m \in Message : row[m.res].status # "absent"}
<1>1. S \in SUBSET Message /\ \A m \in S : row[m.res].status # "absent"
  OBVIOUS
<1>2. \A r \in Resumes : Resendable(r) => row[r].status # "absent" /\ row[r].file_data
  BY DEF Resendable, Stuck, Active, IInv, RowCoherent
<1>3. UNCHANGED row
  <2>1. row' = [r \in Resumes |-> row[r]]
    BY <1>2 DEF RequeueStuck
  <2> QED
    BY <2>1 DEF IInv, TypeOK
<1>4. UNCHANGED <<doc, up, overlapped, unacked, cur, step, faults>>
  BY DEF RequeueStuck
<1>5. \A m \in Message : m.res \in Resumes
  BY DEF Message
<1>6. /\ queue' = [m \in Message |->
            IF m = Parse(m.res, 0) /\ Resendable(m.res) /\ row[m.res].file_data
            THEN queue[m] + 1 ELSE queue[m]]
  BY DEF RequeueStuck
<1>7. queue' \in [Message -> Nat] /\ unacked' \in [Message -> Nat] /\ faults' \in 0..MaxFaults
  BY <1>4, <1>6 DEF IInv, TypeOK
<1>8. \A m \in Message \ S : queue'[m] + unacked'[m] <= queue[m] + unacked[m]
  <2> SUFFICES ASSUME NEW m \in Message \ S
               PROVE  queue'[m] + unacked'[m] <= queue[m] + unacked[m]
    OBVIOUS
  <2>1. ~Resendable(m.res)
    BY <1>2, <1>5
  <2>2. queue'[m] = queue[m]
    BY <1>6, <2>1
  <2> QED
    BY <1>4, <2>2, TakenIsCommitted
<1> HIDE DEF S
<1> QED
  BY <1>1, <1>3, <1>4, <1>7, <1>8, MessagesMove

LEMMA NextKeeps ==
    ASSUME IInv, Next
    PROVE  IInv' /\ StatusSteps
BY UploadKeeps, BrokerKeeps, TaskEndsKeeps, ParseBeginKeeps, ParseEndsKeeps, EmbedRunsKeeps,
   RequeueKeeps DEF Next, Work

LEMMA StutterKeeps ==
    ASSUME IInv, UNCHANGED vars
    PROVE  IInv' /\ UNCHANGED row
BY DEF vars, IInv, TypeOK, RowCoherent, CommittedBeforeQueued, Running

LEMMA InitHolds == Init => IInv
<1> SUFFICES ASSUME Init PROVE IInv
  OBVIOUS
<1>1. \A r \in Resumes : row[r] \in Resume /\ row[r].status = "absent" /\ Coherent(row[r])
  BY DEF Init, Resume, Coherent, Active, Reasons
<1>2. row \in [Resumes -> Resume]
  BY <1>1 DEF Init
<1>3. TypeOK
  BY <1>2, PipelineBounds DEF Init, TypeOK
<1>4. RowCoherent /\ CommittedBeforeQueued
  BY <1>1 DEF Init, RowCoherent, Coherent, CommittedBeforeQueued
<1> QED
  BY <1>1, <1>3, <1>4 DEF Init, IInv, Running

\* Everything the pipeline keeps, whatever is killed, lost, retried or delivered twice.
THEOREM PipelineInvariant == Spec => []IInv
<1>1. IInv /\ [Next]_vars => IInv'
  BY NextKeeps, StutterKeeps
<1> QED
  BY <1>1, InitHolds, PTL DEF Spec

\* Every variable has its type, and the worker is idle exactly when it runs no message.
THEOREM TypeCorrect == Spec => []TypeOK
<1>1. IInv => TypeOK
  BY DEF IInv
<1> QED
  BY <1>1, PipelineInvariant, PTL

\* Whatever ran twice, died or was retried: bytes exactly while a parse may need them, text
\* exactly when complete, a reason exactly when failed, a vector only with text.
THEOREM RowsAreCoherent == Spec => []RowCoherent
<1>1. IInv => RowCoherent
  BY DEF IInv
<1> QED
  BY <1>1, PipelineInvariant, PTL

\* No message, waiting or unacknowledged, is about a row that is not committed.
THEOREM MessagesFollowRows == Spec => []CommittedBeforeQueued
<1>1. IInv => CommittedBeforeQueued
  BY DEF IInv
<1> QED
  BY <1>1, PipelineInvariant, PTL

-----------------------------------------------------------------------------
(* Refinement.                                                             *)

statusBar == [r \in Resumes |-> row[r].status]

LEMMA StatusRefines ==
    ASSUME OneMoves
    PROVE  [Lifecycle!Next]_statusBar
<1>1. CASE \A r \in Resumes : row'[r].status = row[r].status
  BY <1>1 DEF statusBar
<1>2. ASSUME NEW r \in Resumes, Forward(row[r].status, row'[r].status),
             \A o \in Resumes \ {r} : row'[o].status = row[o].status
      PROVE  [Lifecycle!Next]_statusBar
  <2> DEFINE from == row[r].status
             to == row'[r].status
  <2>1. statusBar' = [statusBar EXCEPT ![r] = to] /\ statusBar[r] = from
    BY <1>2 DEF statusBar
  <2>2. CASE from = to
    BY <2>1, <2>2 DEF statusBar
  <2>3. CASE from = "absent" /\ to = "pending"
    <3>1. Lifecycle!Move(r, {"absent"}, "pending")
      BY <2>1, <2>3 DEF Lifecycle!Move, statusBar
    <3> QED
      BY <3>1 DEF Lifecycle!Next
  <2>4. CASE from = "pending" /\ to = "processing"
    <3>1. Lifecycle!Move(r, {"pending"}, "processing")
      BY <2>1, <2>4 DEF Lifecycle!Move, statusBar
    <3> QED
      BY <3>1 DEF Lifecycle!Next
  <2>5. CASE from = "processing" /\ to = "complete"
    <3>1. Lifecycle!Move(r, {"processing"}, "complete")
      BY <2>1, <2>5 DEF Lifecycle!Move, statusBar
    <3> QED
      BY <3>1 DEF Lifecycle!Next
  <2>6. CASE from \in Active /\ to = "failed"
    <3>1. Lifecycle!Move(r, {"pending", "processing"}, "failed")
      BY <2>1, <2>6 DEF Lifecycle!Move, statusBar, Active
    <3> QED
      BY <3>1 DEF Lifecycle!Next
  <2> QED
    BY <1>2, <2>2, <2>3, <2>4, <2>5, <2>6 DEF Forward
<1> QED
  BY <1>1, <1>2 DEF OneMoves

\* The pipeline implements the lifecycle its clients poll by: a status only moves forward,
\* one resume at a time, and a final one is final, whatever is repeated, killed or lost.
THEOREM PipelineImplementsLifecycle == Spec => StatusOnlyMovesForward
<1>1. Init => Lifecycle!Init
  BY DEF Init, Lifecycle!Init
<1>2. IInv /\ [Next]_vars => [Lifecycle!Next]_statusBar
  <2>1. IInv /\ Next => OneMoves
    BY NextKeeps DEF StatusSteps
  <2>2. UNCHANGED vars => OneMoves
    BY DEF vars, OneMoves
  <2> QED
    BY <2>1, <2>2, StatusRefines
<1>3. [Lifecycle!Next]_statusBar <=> [Lifecycle!Next]_([r \in Resumes |-> row[r].status])
  BY DEF statusBar
<1> QED
  BY <1>1, <1>2, <1>3, PipelineInvariant, PTL DEF Spec, StatusOnlyMovesForward, Lifecycle!Spec

-----------------------------------------------------------------------------
(* The cap.                                                                *)

\* Resumes that count against a user, or are about to.
Claimed(u) == PendingOf(u) \cup Uploading(u)

CapInv ==
    \A u \in Users \ overlapped :
        /\ IsFiniteSet(Claimed(u))
        /\ Cardinality(Claimed(u)) <= MAX_PENDING_PER_USER

\* A step after which no more resumes count than before.
LEMMA ClaimsShrink ==
    ASSUME CapInv, UNCHANGED overlapped, \A u \in Users : Claimed(u)' \subseteq Claimed(u)
    PROVE  CapInv'
<1> SUFFICES ASSUME NEW u \in Users, u \notin overlapped
             PROVE  IsFiniteSet(Claimed(u)') /\ Cardinality(Claimed(u)') <= MAX_PENDING_PER_USER
  BY DEF CapInv
<1>1. IsFiniteSet(Claimed(u)) /\ Cardinality(Claimed(u)) <= MAX_PENDING_PER_USER
  BY DEF CapInv
<1>2. Claimed(u)' \subseteq Claimed(u)
  OBVIOUS
<1> HIDE DEF Claimed
<1>3. IsFiniteSet(Claimed(u)') /\ Cardinality(Claimed(u)') <= Cardinality(Claimed(u))
  BY <1>1, <1>2, FS_Subset
<1>4. Cardinality(Claimed(u)') \in Nat /\ Cardinality(Claimed(u)) \in Nat
  BY <1>1, <1>3, FS_CardinalityType
<1> QED
  BY <1>1, <1>3, <1>4, PendingCapPositive

LEMMA OthersShrink ==
    ASSUME IInv, CapInv, [Next]_vars, \A r \in Resumes : ~UploadCount(r)
    PROVE  CapInv'
<1>1. RowsAppear
  <2>1. CASE Next
    BY <2>1, NextKeeps DEF StatusSteps
  <2>2. CASE UNCHANGED vars
    BY <2>2 DEF vars, RowsAppear
  <2> QED
    BY <2>1, <2>2
<1>2. OneMoves
  <2>1. CASE Next
    BY <2>1, NextKeeps DEF StatusSteps
  <2>2. CASE UNCHANGED vars
    BY <2>2 DEF vars, OneMoves
  <2> QED
    BY <2>1, <2>2
<1>3. UNCHANGED overlapped /\ \A r \in Resumes : up'[r] = "counted" => up[r] = "counted"
  BY DEF Next, Work, vars, UploadCommit, UploadEnqueue, Age, Take, Redeliver, ParseBegin, ParseSucceeds,
     ParseFails, ParseRaises, EnqueueEmbed, EmbedRuns, RequeueStuck, TransientError,
     SkillsAbortTransaction, EmbedGivesUp, ChildKilled, ContainerDies, IInv, TypeOK
<1>4. \A r \in Resumes : row'[r].status \in Active =>
                            row[r].status \in Active \/ row[r].status = "absent"
  BY <1>2 DEF OneMoves, Forward, Active
<1>5. \A u \in Users : Claimed(u)' \subseteq Claimed(u)
  <2> SUFFICES ASSUME NEW u \in Users, NEW r \in Resumes, r \in Claimed(u)'
               PROVE  r \in Claimed(u)
    BY DEF Claimed, PendingOf, Uploading
  <2>1. row'[r].user = u /\ row[r].user = u
    BY <1>1 DEF RowsAppear, Claimed, PendingOf, Uploading
  <2>2. CASE up'[r] = "counted"
    BY <1>3, <2>1, <2>2 DEF Claimed, Uploading
  <2>3. CASE row'[r].status \in Active
    BY <1>1, <1>4, <2>1, <2>3 DEF RowsAppear, Claimed, PendingOf, Uploading, Active
  <2> QED
    BY <2>2, <2>3 DEF Claimed, PendingOf, Uploading
<1> QED
  BY <1>3, <1>5, ClaimsShrink

\* The count was taken with nobody else counting, so the resume it lets in is one more.
LEMMA CountKeepsCap ==
    ASSUME IInv, CapInv, NEW r \in Resumes, UploadCount(r)
    PROVE  CapInv'
<1> DEFINE o == row[r].user
<1>1. /\ UNCHANGED row /\ Cardinality(PendingOf(o)) < MAX_PENDING_PER_USER
      /\ overlapped' = IF Uploading(o) = {} THEN overlapped ELSE overlapped \cup {o}
      /\ \A q \in Resumes : up'[q] = "counted" => q = r \/ up[q] = "counted"
  BY DEF UploadCount, IInv, TypeOK
<1> SUFFICES ASSUME NEW u \in Users, u \notin overlapped'
             PROVE  IsFiniteSet(Claimed(u)') /\ Cardinality(Claimed(u)') <= MAX_PENDING_PER_USER
  BY DEF CapInv
<1>2. IsFiniteSet(Claimed(u)) /\ Cardinality(Claimed(u)) <= MAX_PENDING_PER_USER
  BY <1>1 DEF CapInv
<1>3. CASE u # o
  <2>1. Claimed(u)' \subseteq Claimed(u)
    BY <1>1, <1>3 DEF Claimed, PendingOf, Uploading
  <2>2. IsFiniteSet(Claimed(u)') /\ Cardinality(Claimed(u)') <= Cardinality(Claimed(u))
    BY <1>2, <2>1, FS_Subset
  <2>3. Cardinality(Claimed(u)') \in Nat /\ Cardinality(Claimed(u)) \in Nat
    BY <1>2, <2>2, FS_CardinalityType
  <2> QED
    BY <1>2, <2>2, <2>3, PendingCapPositive
<1>4. CASE u = o
  <2>1. Uploading(o) = {} /\ Claimed(o) = PendingOf(o)
    BY <1>1, <1>4 DEF Claimed
  <2>2. Claimed(u)' \subseteq PendingOf(o) \cup {r}
    BY <1>1, <1>4, <2>1 DEF Claimed, PendingOf, Uploading
  <2>3. IsFiniteSet(PendingOf(o))
    BY <1>2, <1>4, <2>1
  <2>4. /\ IsFiniteSet(PendingOf(o) \cup {r})
        /\ Cardinality(PendingOf(o) \cup {r}) <= Cardinality(PendingOf(o)) + 1
    <3> DEFINE S == PendingOf(o)
    <3>1. IsFiniteSet(S) /\ Cardinality(S) \in Nat
      BY <2>3, FS_CardinalityType
    <3> HIDE DEF S
    <3>2. IsFiniteSet(S \cup {r}) /\ Cardinality(S \cup {r}) = IF r \in S THEN Cardinality(S) ELSE Cardinality(S) + 1
      BY <3>1, FS_AddElement
    <3>3. IsFiniteSet(S \cup {r}) /\ Cardinality(S \cup {r}) <= Cardinality(S) + 1
      BY <3>1, <3>2
    <3> QED
      BY <3>3 DEF S
  <2>5. IsFiniteSet(Claimed(u)') /\ Cardinality(Claimed(u)') <= Cardinality(PendingOf(o) \cup {r})
    BY <2>2, <2>4, FS_Subset
  <2>6. /\ Cardinality(PendingOf(o)) \in Nat /\ Cardinality(PendingOf(o) \cup {r}) \in Nat
        /\ Cardinality(Claimed(u)') \in Nat
    BY <2>3, <2>4, <2>5, FS_CardinalityType
  <2> HIDE DEF o
  <2> QED
    BY <1>1, <2>4, <2>5, <2>6, PendingCapPositive
<1> QED
  BY <1>3, <1>4

\* A user whose uploads never overlapped has no more unprocessed resumes than the cap: parses
\* that start over, are swept up or delivered again are still one resume each.
THEOREM CapHoldsWithoutOverlap == Spec => []PendingCapWithoutOverlap
<1>1. Init => CapInv
  <2>1. Init => \A u \in Users : Claimed(u) = {}
    BY DEF Init, Claimed, PendingOf, Uploading, Active
  <2> QED
    BY <2>1, FS_EmptySet, PendingCapPositive DEF CapInv
<1>2. IInv /\ CapInv /\ [Next]_vars => CapInv'
  BY OthersShrink, CountKeepsCap
<1>3. CapInv => PendingCapWithoutOverlap
  <2> SUFFICES ASSUME CapInv, NEW u \in Users \ overlapped
               PROVE  Cardinality(PendingOf(u)) <= MAX_PENDING_PER_USER
    BY DEF PendingCapWithoutOverlap
  <2>1. IsFiniteSet(Claimed(u)) /\ Cardinality(Claimed(u)) <= MAX_PENDING_PER_USER
        /\ PendingOf(u) \subseteq Claimed(u)
    BY DEF CapInv, Claimed
  <2>2. IsFiniteSet(PendingOf(u)) /\ Cardinality(PendingOf(u)) <= Cardinality(Claimed(u))
    BY <2>1, FS_Subset
  <2>3. Cardinality(PendingOf(u)) \in Nat /\ Cardinality(Claimed(u)) \in Nat
    BY <2>1, <2>2, FS_CardinalityType
  <2> QED
    BY <2>1, <2>2, <2>3, PendingCapPositive
<1> QED
  BY <1>1, <1>2, <1>3, PipelineInvariant, PTL DEF Spec
=============================================================================
