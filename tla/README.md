# CareerGraph: models, checks and proofs

CareerGraph is a FastAPI and PostgreSQL service with a Celery worker behind Redis and a
Next.js client. A user uploads a resume; a worker extracts text and skills and, in a second
task, a vector; the service scores the profile against job postings and computes an ordered
learning path over a graph of prerequisites. This directory holds TLA+ models of the parts of
that system where order, overlap, failure and repetition decide whether it is right, the TLC
configurations that check small instances of them, and TLAPS proofs of the most important
properties for every instance.

Paths below are relative to `src/backend/app/` unless they start with `frontend/` or `docs/`.

## 1. The system

| Component | State it keeps | Operations | Talks to |
|---|---|---|---|
| Sessions: `services/auth.py`, `repositories/refresh_token.py` | `refresh_tokens` rows (family, successor link, revoked, expiry), `users.is_active`, password hash | login, Google sign-in, refresh, logout, reset_password, reuse detection | purge (shares the table), administration (suspends accounts), client |
| Maintenance: `workers/maintenance.py` | none of its own | daily purge of expired tokens, sweep of stuck resumes every ten minutes | the two tables above and below, the broker |
| Resume upload: `services/resume.py` | `resumes` rows (status, bytes, text, vector, reason) | upload (count, commit, publish), get, list | dispatcher, worker, polling client |
| Worker: `workers/tasks.py`, `workers/celery_app.py` | messages at the broker, unacknowledged messages | parse_resume, embed_resume, embed_job, with retries | `resumes`, `user_skills`, `jobs` |
| Skill graph and paths: `services/skill_graph.py`, `services/learning_path.py` | none (rebuilt for each request) | build_graph, compute_learning_path, prerequisite_chain, for_job, for_skill | skills and edges in the database, the profile |
| Accounts: `services/auth.py`, the two link tables | verification and reset links (used, expiry) | register, verify_email, resend_verification, request_password_reset, Google linking | e-mail, sessions |
| Administration: `services/admin.py` | roles and flags of `users` | set_active, set_role with the last-admin rule, verify_email | sessions |
| Skill profile: `services/skill_profile.py` | `user_skills` (suggested, confirmed, learning, rejected tombstones) | add_skill, update_skill (confirm, reject), start_learning, confirm_all_suggestions | worker's upsert, goals |
| Career goals: `services/goal.py` | one active goal per user, baseline, achieved goals | set_goal, abandon, mark_achieved | profile, scores |
| Jobs: `services/job.py` | postings, derived skills and vector | create, update, delete, embed_job | worker |
| Matching and candidates: `services/matching.py`, `candidates.py` | none | weighted score, ranking | profile, jobs, vectors |
| Rate limiting: `core/rate_limit.py`, `api/rate_limit.py` | counters in Redis | INCR, EXPIRE, TTL, fail-open | Redis, every sign-in route |
| Access: `api/deps.py`, `api/errors.py`, the routers | none (tokens are self-describing) | decode, load the account, require a role, issue tokens, map refusals to answers | every service |
| Vocabulary matcher: `services/skill_matching.py` | none | build, find | jobs, the parse |
| Client sessions: `frontend/src/lib/api.ts` | tokens in memory and localStorage | single-flight refresh, retry of a 401, sign-out | sessions |
| Embeddings, hashing, configuration, pages, seeds | no protocol state | | |

What is hard in them, and what makes them correct:

* **Sessions.** Every request reads an ORM object, decides, and writes later; PostgreSQL runs at
  READ COMMITTED and nothing takes a lock before it decides. Correct means: a spent token never
  gives a second live successor, a logout or a detected reuse ends the whole family, a password
  reset ends all earlier sessions, the purge never erases what reuse detection still needs, and
  row locks never hold requests for ever.
* **Resumes.** A commit and a publication are separate steps, messages are delivered again, tasks
  are killed or their container dies, retries run out. Correct means: every upload reaches a final
  status, a final status stays, the bytes and the text exist exactly when they should, and one
  user cannot occupy the worker.
* **Learning paths.** Pure, but subtle: transitive prerequisites, an induced subgraph, a
  deterministic tie-break, shortest chains from a set of sources. Correct means: a plan can be
  followed step by step, closes the gap and nothing more, and the same question has one answer.
* **Accounts and administration.** Links are read usable and marked used in two statements; "the
  newest link only" and "at least one admin" are checked by reading first. Correct means: a link
  works once, one link is live, an admin remains.
* **Profile.** The worker and the user write the same `user_skills` rows, from entities loaded
  earlier. Correct means: what the user has ruled on survives later parses, a rating is never
  written back as it was, and nothing changes its standing that nobody asked for.
* **Goals.** A goal is scored in one statement and banked in a later one. Correct means: one goal is
  active, an achievement was true at some moment, and history stays.
* **Matching.** Two sides of the product compute one number from different queries. Correct means:
  they agree, the list holds who it should, and learning always shows.
* **Jobs.** Skills and vector are derived from text that can change while they are computed. Correct
  means: they follow the text once nothing is on its way.
* **Rate limiting.** Several Redis commands where one would have to be atomic. Correct means:
  admissions stay bounded and nobody is locked out for longer than announced.
* **Access.** A token outlives what it says. Correct means: the account as it is now decides, and
  nobody is issued one whose account is suspended all through the call.
* **Client.** The single-flight guard is per tab and the refresh token is shared by all tabs.

`PROJECT.json` lists the hazards with the line where each bites and the property that covers it.

## 2. Plan

| Order | Module | Content | State |
|---|---|---|---|
| 1 | `RefreshTokens`, `RefreshTokensProofs` | sessions and purge, statement by statement | written, checked, proved |
| 2 | `ResumeLifecycle`, `ResumePipeline`, `ResumeProofs` | upload, parse, embed, sweep; implements the lifecycle a client polls | written, checked, proved |
| 3 | `LearningPath`, `LearningPathProofs` | the planner and its chains | written, checked, proved |
| 4 | `Accounts`, `AccountsProofs` | registration, the two kinds of links, Google linking, the operator's actions | written, checked, proved |
| 5 | `Profile`, `ProfileProofs` | the requests on a profile against the rows a parse writes | written, checked, proved |
| 6 | `MatchScore`, `Goals`, `ScoringProofs` | the score, and goals under a changing profile and posting | written, checked, proved |
| 7 | `Candidates`, `ScoringProofs` | both sides of the score, over `MatchScore` | written, checked, proved |
| 8 | `SkillMatching`, `Jobs`, `JobsProofs` | the matcher, and a posting with its skills and vector | written, checked, proved |
| 9 | `RateLimiter`, `Access`, `AccessProofs` | the Redis commands of `hit`; the limiter, tokens and roles in front of the handlers | written, checked, proved |
| 10 | `ClientSession` | tabs over one refresh token, against an abstract server that answers a token once | to do |

Composition: `Access` extends `RateLimiter` (a limited route is a call of `hit` first), `Jobs` extends
`SkillMatching` (what a posting requires is what the matcher finds), `Goals` and `Candidates` extend
`MatchScore`, `ResumePipeline` implements `ResumeLifecycle`.

## 3. Sessions: `RefreshTokens`

A request is a transaction slot (`Txns`) and advances one SQL statement at a time; `req` holds
what it has read, the rows it still has to lock (`todo`) and those it holds (`held`). `rows` and
`users` are the committed tables. Each request starts with its first SELECT (`LoginRead`,
`RefreshRead`, `ReuseRead`, `LogoutRead`, `ResetRead`, `PurgeStart`) and ends with its commit
(`LoginCommit`, `RefreshCommit`, `EndFamily`, `ResetCommit`, `PurgeCommit`) or without one
(`Rollback` at any point: process or connection dies; `DeadlockAbort`).

* `refresh` and its reuse branch are separate arrivals because the branch is taken on the row just
  read. The UPDATE of the presented row goes by primary key and does not look whether the row is
  still live (`RefreshFlush`); a row that has been deleted gives StaleDataError and a rollback.
* `revoke_family` and `revoke_all_for_user` are bulk UPDATEs: `RevokeStart` takes the snapshot,
  `LockRow` reaches the rows in any order, waits for locks and re-checks the WHERE clause.
* `family_id` is a fresh UUID; the model names a family after its first token.
* `crossedFam` and `crossedUser` are history variables: the families and accounts two open requests
  worked on at once. They separate what the code guarantees from what it does not: the documented
  guarantees fail when requests overlap (section 13) and hold otherwise.
* `epoch`, `pwd` and `legacy` follow passwords as the number of the reset that set them; the
  transparent rehash of a login writes the password it verified earlier.

| Run | Question | Instance |
|---|---|---|
| `sessions` (`Sessions.cfg`) | type correctness; `ChainIsARecord`, `OneLiveToken`, `EndedFamilyIsDead`, `ResetReachesEverySession`; the step properties `DeadStaysDead`, `SpentRowsKept` | one user, three tokens, two open transactions, one reset, one expiry |
| `sessions_end` | `RequestsEnd`: every request ends although locks are waited for | two tokens, two transactions, two expiries |
| `sessions_single_use` | violated: `SingleUse` for overlapping refreshes | as `sessions` |

Bounds. Three tokens are a login with two rotations, a rotation raced by another, or two families
of one user; two transactions are enough for every conflict of the code, each of which is between
two requests (the proofs below hold for any number). One reset distinguishes before from after.
Tokens and transactions are interchangeable, so `Sessions.cfg` uses symmetry, which is sound
because its properties are invariants and step properties. `sessions_end` checks liveness and uses
none. Once all token ids are used and nothing is open no request may be left to arrive, so
`SessionsEnd.cfg` allows the system to stop.

Fairness (`FairSpec`): strong fairness of the steps of each open request. The event loop keeps
running the handlers it has started, and PostgreSQL grants row locks in the order of the requests
and aborts one member of a cycle of waiters, so a waiting statement that is enabled again and
again is not overtaken for ever. No arrival, expiry, suspension or rollback is fair.

### Proofs (`RefreshTokensProofs`)

For any users, tokens and transactions, from the constants' assumptions alone (`NoToken` and
`NoUser` are not ids, the bounds are numbers, suspendable accounts are accounts):

* `TypeCorrect`: `Spec => []TypeOK`. `TypeOK` is not inductive: a commit needs to know that the row
  it writes still exists and that the id it inserts is nobody else's. `Inv1` adds the shape of a
  request in each of its steps (`RequestShape`), exclusive reservation of new ids (`Reserved`) and
  that a locked row exists and has one holder (`Locks`).
* `SingleUseWithoutOverlap`: `Spec => []OneLiveToken`. `Inv2` adds that the token a family is named
  after was issued (`Rooted`), that an uncrossed family has one open request (`Alone`), and that a
  refresh under way on it read the only token that can be live (`ReadsTheLiveEnd`).
* `LogoutIsFinalWithoutOverlap`: `Spec => []EndedFamilyIsDead`. `Inv3` adds that a revocation alone on
  its family still has every live row to lock or holds it (`RevokesAll`), and that nothing extends
  a family that ended alone (`EndedIsFinal`).
* `DeadFamiliesStayDead`: `Spec => DeadStaysDead`, with no condition on overlap: only a rotation that
  read a live token extends a family.

The proof has one lemma for what an arrival does, one for a step inside a request, and one for a
commit; steps that insert no row are shown "quiet" (no row becomes live) and treated together.

The rest of the module is about the other properties and rests on what a step makes of a row that
exists (`Carried`: it keeps its account, family and epoch, an expired row stays expired, none is
issued or made live again):

* `SpentRowsStay`: `Spec => SpentRowsKept`. `PurgeInv` adds that the purge lists and holds only rows
  that were issued and, while they exist, have expired; this survives commits between its snapshot
  and its locks because expiry is never taken back.
* `ResetIsThorough`: `Spec => []ResetReachesEverySession`. `OwnerInv` adds that an account nothing
  overlapped on has one open request; that a login or refresh there carries the account's current
  epoch, and a rehash its current password; and that a reset which is locking still has every live
  row to lock or holds it.
* `ChainStaysARecord`: `Spec => []ChainIsARecord`. That no token but the first of an uncrossed family
  lacks its predecessor is not inductive, because a purge could remove a middle one. `ChainInv` adds
  that the first token expires before the others (`StartExpiresFirst`), that a purge which has a row
  of such a family on its list has the first one too, or finds it gone (`TakesTheStart`), and that a
  refresh adds to a token that has no successor yet (`Extends`).

`RequestsEnd` is liveness and is model-checked only.

## 4. Resumes: `ResumePipeline` implements `ResumeLifecycle`

`row` is the committed table, `up` the upload requests, `queue` and `unacked` the broker, `cur` and
`step` the one task the worker runs (`--concurrency=1`, beat embedded), `doc` what the uploaded file
does to the parser: `good`, `bad` (ExtractionError), `slow` (soft time limit) or `poison` (every
attempt raises something unforeseen).

* `UploadCount`, `UploadCommit`, `UploadEnqueue` are the three steps of `upload`; a container that dies
  between them cuts the request short.
* `ParseBegin` holds the guards of `parse_resume` and the early commit of `processing`;
  `ParseSucceeds`, `ParseFails`, `ParseRaises`, `SkillsAbortTransaction` are its ways to end;
  `EnqueueEmbed` publishes the vector task after the commit; `EmbedRuns` keeps an existing vector.
* `Retry` is `self.retry(exc=exc)`: it publishes another attempt while there are any, and otherwise
  re-raises `exc` itself, which the code's `except MaxRetriesExceededError` does not catch.
* `RequeueStuck` is the sweep: it fails rows without bytes and resends the others, of both active
  states, and does not touch `updated_at`; it is a task of the same worker, so it runs only between
  tasks.
* Failures: `ChildKilled` (memory, hard time limit; Celery acknowledges the message), `ContainerDies`
  (the parse under way stays unacknowledged until `Redeliver`; an embed is lost, it is acknowledged
  on receipt), `TransientError`, `EmbedGivesUp`.

`ResumeLifecycle` is what a polling client relies on: absent, pending, processing, complete or
failed, only forward, and a final status is final. `StatusOnlyMovesForward` is its specification
under the mapping from rows to their status.

| Run | Question | Instance |
|---|---|---|
| `resumes` (`Resumes.cfg`) | `RowCoherent`, `CommittedBeforeQueued`, `PendingCapWithoutOverlap`, and the refinement `StatusOnlyMovesForward` | two resumes of one user, cap 1, one retry, two faults, symmetric |
| `resumes_settle` | `EveryUploadSettles`; `VectorFollows` where no fault occurs | one resume, the code's two retries, two faults |

Bounds. `MaxRetries` is 2 in the code (1 where two resumes make the space large); two faults allow a
failure during the recovery from another; cap 1 with two resumes is the smallest instance in which
the cap bites (the code's 3 only adds uploads). `MaxCopies` bounds the messages of one resume: a
sweep does not resend a resume with two parses waiting, where the code would; both copies and an
unacknowledged one can exist together, which is every kind of repetition the task can meet. The
system may stop when all uploads are done, hence `CHECK_DEADLOCK FALSE`.

Fairness: the worker finishes what it has taken and is restarted when it dies; the queue is served
in order, so strong fairness for taking each message and for the sweep that waits in the same queue;
unacknowledged messages are redelivered, time passes (`Age`), and an upload that has committed goes
on to publish. Uploads, faults and kills are not fair. A poisonous document is outside
`EveryUploadSettles`: it never settles (section 13).

### Proofs (`ResumeProofs`)

For any resumes, users, retries, faults and copies, assuming only that the bounds are numbers and
that `NoMessage` is no message:

* `TypeCorrect`, `RowsAreCoherent`, `MessagesFollowRows`: `TypeOK`, `RowCoherent` and
  `CommittedBeforeQueued`. None of them is inductive alone. `IInv` joins them and adds that an upload
  that has not committed has no row and every other one has, that the task the worker runs is about
  a committed row, and that a parse under way finds `processing`: the last is why a second copy of a
  message cannot complete a row that the first has failed.
* `PipelineImplementsLifecycle`: every step of the pipeline is a step of `ResumeLifecycle` or a
  stutter, by `OneMoves` (at most one row changes its status, and forward). `RowsAppear` separates
  the one action that creates a row.
* `CapHoldsWithoutOverlap`: `CapInv` counts the rows pending or processing together with the uploads
  of the user that have counted and not committed (`Claimed`); on accounts whose uploads did not
  overlap that set never exceeds the cap.

`EveryUploadSettles` and `VectorFollows` are liveness and stay with TLC.

## 5. Learning paths: `LearningPath`

A skill is its rank in the order of names. The initial state is any graph over `Edges`, any
difficulty; `BuildGraph` refuses cycles and edges with an unknown end; `ForJob` and `ForSkill` bring
any profile and request; `Emit` is one round of the lexicographic topological sort on the induced
subgraph (`Ready`: in-degree zero; least difficulty, then name); `AnswerSkill` is
`prerequisite_chain`, where the choice among equally cheap chains is open because the code iterates
over a set of sources.

| Run | Question | Instance |
|---|---|---|
| `paths` (`Paths.cfg`) | `Followable`, `PlanCloses`, `PlanIsLeast` (of all valid orders of the same skills the plan is the least, so the answer is unique), `ChainIsDirect` | every graph over eight edges of four skills, one of them closing cycles and one from a missing id; difficulties 1 and 2 |

Bounds. Four skills give diamonds, two roots of one target, a known skill inside a chain and
isolated skills; two difficulties exercise both parts of the key. Requests name any set of two nodes
and one unknown id, or any single skill. A request ends, so `CHECK_DEADLOCK FALSE`. There is no
liveness claim: every step shortens the work.

### Proofs (`LearningPathProofs`)

For any graph, difficulties, profile and request, from the assumptions that skills are finitely many
numbers and difficulties positive:

* `PlansAreFollowable`: `Followable`. Ancestors are closed under prerequisites, so what a needed skill
  depends on directly is known or needed too (`NeededClosed`); hence a skill whose prerequisites
  inside the induced subgraph are planned has all its prerequisites.
* `PlansClose`: `PlanCloses`. `PlanInv` adds that a graph that was built has no cycle, that plans hold
  needed skills and that an answered one holds all of them. The last is `EmptyHeapIsDone`: a set of
  skills of which each has a prerequisite in the set has no member with the fewest ancestors, unless
  there is a cycle.
* `PlansAreLeast`: `PlanIsLeast`. `PlanInv` adds that every step was the least of the skills ready then
  (`Greedy`); at the first place where another order differs, what it puts there was ready.
* `ChainsAreDirect`: `ChainIsDirect`. Without cycles a way repeats no skill, so it is no longer than
  there are skills and a chain leads from every ancestor (`AncestorsLead`); and what remains of a
  chain after a known skill inside it would be a cheaper chain (`RestIsCheaper`), since every
  difficulty counts at least one.

The inductions in them are by the least counterexample in a set of numbers (`LeastExists`, from the
well-foundedness of the natural numbers); the recursive functions `Cost` uses are shown to exist the
same way.

## 6. Accounts: `Accounts`

`users` and `links` are the committed tables (both link tables, told apart by `kind`); an account is
named by its address. A request reads (`RegisterRead`, `GoogleRead`, `IssueRead`, `RedeemRead`,
`AdminRead`), decides and commits. Inserting an account is a flush that waits for another insert of
the same address and fails on the unique index (`InsertUser`); a link request burns the links its
UPDATE can see (`IssueBurn`) and inserts the new one later (`IssueCommit`); an operator's request
reads the actor, then the target, counts administrators where it demotes one, and writes a column
only where it differs from what it read, as the ORM does (`Changed`). `IssueRead` with `verify` is
resend_verification and with `reset` request_password_reset; `RedeemRead` and `RedeemCommit` are
verify_email and the account half of reset_password. Row locks are not modelled here: every writer
of a link sets `used_at`, so their order does not show, and a deadlock is a `Rollback`.

`overlapping` and `operators` are history: accounts two open requests worked on at once, and whether
two administrative requests ever were open at once.

| Run | Question | Instance |
|---|---|---|
| `accounts` (`Accounts.cfg`) | `NewestLinkOnly`, `SpentLinksStaySpent`, `AccountsAreKept` (races never replace an account, a password or a role), `AnAdminRemains` | two addresses, two links, two transactions, one expiry, symmetric |

Bounds. Two addresses are an operator and one other account, enough for each to demote or suspend
the other; two links are an older and a newer one of each kind. The system begins as the promotion
script leaves it, with one operator. The constraint `OneSceneAtATime` keeps operators to
states with at most one link, which they meet at every step of its life, and several links to
histories in which nobody was promoted or suspended. All
links issued and both operators suspended, the system stops: `CHECK_DEADLOCK FALSE`.

### Proofs (`AccountsProofs`)

For any users, links and transactions, without the constraint of the run:

* `AccountsStand`: `AccountsAreKept`. `IInv` types the tables and gives each request the shape of its
  program counter (`ReqOK`); it adds that two requests never both have an uncommitted insert of one
  address (the unique index), without which a commit could replace an account, and that a reset
  link belongs to an account with a password (`LinkOK`), without which a redemption would give one
  to a Google account.
* `AnAdminStays`: `AnAdminRemains`. `AdminInv` adds that while operators have worked one at a time only
  one administrative request is open, and that a demotion which has passed its count still finds
  more than one administrator.

* `OneLinkIsActive` and `SpentLinksStand`: `NewestLinkOnly` and `SpentLinksStaySpent`. `LinksInv` adds that
  an account nothing overlapped on has one request that holds what it has read, that what this
  request read of a link is still so, that the links it burns are all that were live
  (`Faithful`), and that no two requests insert the same link.

## 7. Profile: `Profile`

`rows` is one user's part of `user_skills`. A request loads the row it names and commits later
(`StartLearning`, `AddSkill`, `UpdateSkill`, then `CommitInsert` or `CommitUpdate`); `Changed` is the
unit of work of the ORM: only the columns the handler gave another value than it loaded are
written, into whatever the row holds by then. `ConfirmAll` remembers what it listed and as what.
A parse reads the tombstones (`ExtractRead`) and upserts later (`ExtractUpsert`, whose `WHERE` is
evaluated on the row of that moment). What an excerpt says is left out; `occurrences` only tells a
term that some document showed from one that none did.

| Run | Question | Instance |
|---|---|---|
| `profile` (`Profile.cfg`) | `RulingsSurviveParsing`, `StandingIsAskedFor`, `RatingsAreKept` | two skills, two requests, one parse, a rating and none; 1.7 million states |

Bounds. Two skills let `confirm_all_suggestions` and a parse meet several rows at once; two requests
and a parse are every pair of writers of one row with a third around them; the proofs hold for any
number. Nothing ends in this model and no deadlock is possible.

### Proofs (`ProfileProofs`)

`NoRatingIsLost`, `ParsesRespectRulings` and `StandingFollowsTheUser`: the three properties for any
vocabulary, requests and parses. The inductive invariant needs one fact beside the types: a request
that found a row will find one when it commits, because no handler deletes rows (`RowsGrow`).

## 8. Goals: `Goals`, over `MatchScore`

`MatchScore` is `services/matching.py` in exact arithmetic: scores in tenths of a point, cosines in
hundredths. `Goals` is one user's `career_goals`. `SetGoal`, `MarkAchieved`, `MarkScore` and `Abandon`
are the reads of the requests, `SetGoalCommit`, `MarkCommit` and `AbandonCommit` their writes;
`Insertable` is the partial unique index with the foreign key. A request that loaded a goal keeps
the requirements it came with (`required`), as the identity map of the session does. Around them the
profile, the posting and the vectors change at any time (`ProfileChanges`, `PostingChanges`,
`PostingGoes`, `VectorLands`). `reached` is history: goals whose bar was cleared while they were
active.

| Run | Question | Instance |
|---|---|---|
| `goals` (`Goals.cfg`) | `OneActiveGoal`, `AchievedWasReached`, `HistoryIsKept` | one posting of two kinds, two skills, two goals, two requests, two cosines; 824 000 states |

Bounds. Two goals and two requests are the race of two insertions and of a banking with an
abandonment. The requirements of `MCGoals` and the cosines put the score on either side of the bar
by a skill or by the vector. An identifier is used once, as a UUID is, so the run ends when
both goals have been used and goes on changing the surroundings.

### Proofs (`ScoringProofs`, first part)

`AtMostOneActive`, `NothingIsAsserted` and `HistoryStands`, for any constants. `IInv` adds to the
properties that whatever clears the bar has been noted (`Clears(g) => g \in reached`) and the shape
of the requests; a request about to bank a goal has seen the bar cleared. These proofs do not look
into the arithmetic of `Score`: what they show holds for any scoring.

## 9. Candidates: `Candidates`, over `MatchScore`

The state is what the tables hold when a recruiter asks; `Rank` answers, `Forbid`, `NotFound` and
`NotYours` refuse. `OwnMatch` is the job seeker's side (`latest_embedded_for_user`), `Candidate` and
`Pool` the recruiter's (newest active job seekers up to the limit, one pass over the resumes).

| Run | Question | Instance |
|---|---|---|
| `candidates` (`Candidates.cfg`) | `TwoSidesAgree`, `FittingAreListed`, `LearningPays` | every choice of three accounts of eight kinds, ten postings, six askers, two limits; 246 000 states |

Bounds. The kinds of accounts differ in one thing each: statuses that count and those that do not,
newer resumes without a vector over older ones with it, a negative cosine, a suspended account, a
recruiter with skills. Three accounts and limit 2 let the limit bite. A request ends, so
`CHECK_DEADLOCK FALSE`. `ByNewest` and `Ranked` choose the one list in the order that ORDER BY and
`list.sort` bring about.

### Proofs (`ScoringProofs`, second part)

The module extends `Goals` and `Candidates`; `RankSpec` is the specification of the latter. The tables
stand while a request is answered (`Tables`), and what is answered is `Ranked` or nothing (`RankInv`);
the rest is about what the functions compute.

* `BothSidesAgree`: `TwoSidesAgree` for any accounts, resumes, postings and limits. A pass that keeps the
  first vector it meets ends with that of the newest resume that has one (`FirstIsSeen`,
  `CosineIsLatest`), by the least row that would refute it. A list in order exists, each member's
  place being one after those ahead of it, and holds everybody (`OrderExists`, `OrderIsOnto`).
* `TheFittingAreListed`: `FittingAreListed`. The i-th newest has i - 1 newer than himself, so a cut after
  `limit` rows is a count of those newer (`NewestAreFirst`).
* `LearningAlwaysPays`: `LearningPays`. A weight is a sum in whatever order (`WeightAdds`), and adding more
  than the divisor survives rounding (`RoundGrows`). With the vectors there, one importance is worth
  65 points of the total importance, so the step shows after the first decimal as long as that total
  is below 650: `PostingsAreWeighted` bounds the skills of a posting by 129, of importance 5 at most. The
  seeded vocabulary has 113. Beyond that a skill may be learned and the number stay.

## 10. Jobs: `Jobs`, over `SkillMatching`

`SkillMatching` is the matcher on texts of abstract symbols: which symbols are word characters and
which are forms of one letter is all a guarded alternation sees. `Jobs` is one posting: an edit is
its SELECT (`UpdateDescription`, `UpdateTitle`), the DELETE of its old skills (`AttachSkills`, which
sees the rows of its snapshot and waits for another edit's), and flush with commit (`UpdateCommit`).
`Publish` sends the task; `EmbedBegins` reads the text and `EmbedCommits` writes the vector, which is
named by the text it was made from. `ApiDies`, `EmbedRaises` and `EmbedEnds` are the failures.
Rows of `job_skills` carry the commit that wrote them, so that a DELETE by an old snapshot does not
see the rows of a later one. A request remembers the title and description it loaded (`was`): SQLAlchemy
leaves a column out of the UPDATE that was assigned the value it had (`Written`), while `replace_skills`
runs whatever the description is. With nothing to write at all even a deleted posting is "edited"
(`NothingToWrite`); otherwise the UPDATE, or the foreign key of the new rows, fails.

| Run | Question | Instance |
|---|---|---|
| `jobs` (`Jobs.cfg`) | `PatternsClaimMentions` on every text of at most five of six symbols; `SkillsFollowDescription`, `VectorFollowsDescription` | two titles, two descriptions, two requests, one worker process, four commits, one fault; 1 181 000 states |

Bounds. The vocabulary has a name inside a longer one, an alias, a name that ends in punctuation and
one that needs its case. One description names three skills, the other none, so that what is derived
from the latter depends on the title and can be nothing. Two requests are the race of two edits; four commits are a creation and
three edits. One worker process is the code's `celery_concurrency`; with two the property fails (section
13). Deleted postings and reached bounds stop the system, hence `CHECK_DEADLOCK FALSE`.

What holds is conditional and the conditions are history variables. As long as no two edits met, the
skills are exactly those of the description and a title the posting has had. When edits met, two
things may go wrong: the DELETE of one does not see the rows of the other, so the skills of both
stay; and an edit that repeats the description it loaded leaves one committed meanwhile in place, with the
skills of its own text. What then still holds is about the last edit that derived skills
(`history.attached`): nothing it derived is missing. The vector follows the description unless the
last message was lost, for such an edit publishes too and the task rereads the text. The title may
be an older one: an edit of the title alone derives nothing anew.

`PatternsClaimMentions` is about each of the two patterns (names that need their case, and the others) by
itself: of two of its names that overlap one is counted, and nothing is left out for another
reason. A mention that both patterns claim is counted by both (section 13).

### Proofs (`JobsProofs`)

For any titles, descriptions, vocabulary, requests, commits and faults:

* `RequirementsFollow`: `SkillsFollowDescription`. `EditInv` adds what an open edit holds: the title it loaded
  is one the posting has had; what it derives is of its own text; and, unless edits have met, the
  description it loaded is the one that stands and the rows it replaces are all there are. While none
  have met, one is open.
* `VectorKeepsUp`: `VectorFollowsDescription`, where any two worker processes are the same one, which is
  how the worker is deployed (`celery_concurrency`, and `--concurrency=1` of the Procfile); with two it is
  false (section 13). `VectorInv` says that unless the last message was lost, either an embedding of the
  description is to come (an unpublished request, a message, or a task that read it), or nothing
  is under way and the vector is of it.
* `EachPatternClaims`: `PatternsClaimMentions`, of any text of symbols and any vocabulary without blank
  names (`build` drops those). What is claimed from a place on is right if it is right from all later
  places on (`ClaimsGoOn`), from which the least counterexample gives the whole text; that the scan
  is defined (`ScanExists`) and a longest branch exists (`PreferredIsLongest`) are shown the same way.

## 11. Access: `Access`, over `RateLimiter`

`RateLimiter` is one Redis key: `Hit`, `Incr`, `Expire`, `ReadTtl`, `Repair` are the commands of
`RedisRateLimiter.hit`, each a step of its call; `GivesUp` is a timeout, a connection that fails or a
process that dies, after which the last command may or may not be executed; `Tick` is time. `recent`
and `waiting` are history: what was admitted during the last window, and how long each refused
client was told to wait. `Access` puts it in front of the routes: `ArriveLimited` and `Enforce`, `Arrive`
and `Authenticate` (decode, load, check the role), `Handle`, while operators change the account
(`AccountChanges`) and tokens run out (`TokensExpire`). A handler that answers with tokens loads the
account and decides (`Identify`), and signs a token with the role it loaded later (`Issue`); its
credentials may be wrong or its address unverified, which is a choice of `Identify`.

| Run | Question | Instance |
|---|---|---|
| `access` (`Access.cfg`) | `AdmissionsAreBounded`, `RetryAfterIsKept`; `AuthorityIsCurrent`, `TokensAreEarned` | two calls, limit 1, a window of two ticks, three routes (a limited one that mints, a role's, an administrator's); 1 216 000 states |

Bounds. Two calls interleave every pair of Redis commands; a limit of one lets the second be refused;
a window of two ticks tells a window that is running out from a fresh one. The routes served are one
of each kind of guard. A tick is longer
than the limiter's timeout, so a hit sees at most one: that is the code's one second against the windows
of `core/config.py`. `RetryAfterIsKept` grants one tick more than was announced, the time a command
of another hit may be under way.

### Proofs (`AccessProofs`)

* `RetryAfterStands`: `RetryAfterIsKept` for any calls, limit and window. `LimiterInv` relates what was
  announced to the key: nobody waits for less than the key lives, a key without a value has no
  expiry, and an EXPIRE still under way may lengthen the window by no more than its own age, which
  whoever was refused has been granted.
* `AuthorityStands`: `AuthorityIsCurrent` for any routes served. A call keeps its route, guarded and public
  routes are disjoint, and only `Authenticate` lets a guarded call through, on the account of that
  moment.

* `AdmissionsStayBounded`: `AdmissionsAreBounded` for any calls, limit and window. `recent` counts the hits
  admitted during the last ticks, for every number of them. `AdmissionInv` bounds each count by the
  limit and what the counter has admitted since it was last born, and the counts that reach back no
  further than the start of the key's window by the latter alone; when the key expires, they start again from
  the limit.
* `TokensStayEarned`: `TokensAreEarned` for any calls and routes. A call that is about to issue a token was
  `Identify`'s, which saw an active account after the call arrived.

What an answer tells (403 or 404 for a row that is somebody else's, the order of refusals at login)
is a fact about each handler's text and no state depends on it: it is not modelled.

## 12. Reading and running

Each property of a passing run has at least one mutated definition (named after the definition and
the bug, `RefreshCommit_NoLink`, next to the original) under which that run fails; the mutants
are not part of any specification. `PROJECT.json` pairs them, maps each definition to the lines
it models, and lists the hazards. Definitions mapped as external are PostgreSQL's row locks, Celery's
retry, Redis, regular expressions and networkx's algorithms, modelled from how this code uses them.

    tlc -workers 2 -config Sessions.cfg MCRefreshTokens
    tlapm RefreshTokensProofs.tla

Out of the provers' reach and left to model checking: liveness under fairness (`RequestsEnd`,
`EveryUploadSettles`, `VectorFollows`). Only `VectorKeepsUp` assumes more than the named assumptions on the
constants of its module, and says what; TLC evaluates every one of those in a run.

## 13. Where documentation and code differ

One has a run of its own:

* A refresh token is not single-use when two refreshes overlap (`sessions_single_use`,
  `services/auth.py:443`, ADR 0007): both rotate it and the family has two live tokens.

The others were seen while modelling. The properties that are checked state what does hold:

* A password reset does not revoke the session of a login or rotation that overlaps it
  (`services/auth.py:305`, against `api/v1/auth.py:133`; `ResetReachesEverySession`).
* A spent token past its expiry is still answered as reuse until the purge removes it, although
  `workers/maintenance.py:40` says it is rejected as expired first.
* A resume whose parse always raises is never marked failed: Celery re-raises the exception it is
  given, and `except MaxRetriesExceededError` does not catch it (`workers/tasks.py:104`).
* Overlapping uploads of one account exceed the cap (`services/resume.py:75`;
  `PendingCapWithoutOverlap`).
* A plan may put a skill before one it depends on through a skill the user already knows
  (`services/skill_graph.py:155`, against the docstring from line 22).
* The cheapest chain does not count the difficulty of an unlearned root
  (`services/skill_graph.py:217`, and line 202).
* The last-admin rule counts suspended administrators, so the last one who can act may demote himself
  (`services/admin.py:75`; `AnAdminRemains`).
* `set_role` grants `ADMIN`, although `models/user.py:25` says no API call does.
* Abandoning a goal deletes an achieved one too, which `models/career_goal.py:26` says is kept
  (`services/goal.py:136`; `HistoryIsKept`).
* `mark_achieved` scores on requirements loaded with the goal, before an edit of the posting, and banking
  a goal twice moves `achieved_at`. The assertion after the commit of `set_goal` (`services/goal.py:117`)
  can fail when another request abandons or banks the goal first.
* `confirm_all_suggestions` may undo a rejection committed after its SELECT (`services/skill_profile.py:166`,
  against `models/user_skill.py:31`; `StandingIsAskedFor`).
* `rank_for_job` considers the newest job seekers up to its limit, not every one
  (`repositories/candidate.py:53`, against `services/candidates.py:58`; `FittingAreListed`).
* A low similarity lowers the score below what coverage alone gives, because the weight of the
  coverage drops as soon as there is a vector (`services/matching.py:127`).
* An edit that repeats the description it loaded leaves a newer one, committed meanwhile, as it is but
  replaces its skills by those of its own text (`services/job.py:139`, against the comment at line 140;
  `SkillsFollowDescription`).
* An edit of the title alone keeps skills and vector of the old title (`services/job.py:139`), and two
  overlapping edits of the description leave the skills of both, or one of them fails on the primary
  key (`repositories/job.py:76`; `SkillsFollowDescription`).
* With more than one worker process an embedding of an older text may be written last
  (`workers/tasks.py:283`); the default of one excludes it.
* A case-sensitive name inside a longer one that is not ("C" in "C++") is counted by both patterns
  (`services/skill_matching.py:59`); the unique index on aliases does not cover canonical names.
* `Retry-After` may be short by the duration of one command, when the EXPIRE of another hit lands late
  (`core/rate_limit.py:127`).

## 14. Not modelled

Planned (section 2): client sessions, the tabs of one browser over one refresh token.

Left out for good: PDF and DOCX parsing and the numerical embedding (their outcomes are inputs of
`ResumePipeline`, `Jobs` and `Goals`); Argon2, JWT signatures and Google's token verification (assumed
to identify what they were made from); delivery of e-mails; the dependency wiring that constructs
services, configuration, health probes, request ids and logging; texts and codes of refusals; `InMemoryRateLimiter`, which only tests
construct; rendering; migrations and seed data, of which the models assume what the schema enforces.
