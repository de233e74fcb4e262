---------------------------- MODULE ScoringProofs ----------------------------
(***************************************************************************)
(* What the score is used for: goals and rankings.  For any vocabulary,    *)
(* any postings and requirements, any accounts and any number of requests. *)
(* Spec is that of Goals, RankSpec that of Candidates.                     *)
(***************************************************************************)
EXTENDS Goals, Candidates, TLAPS, FiniteSetTheorems, WellFoundedInduction

\* What a request holds between its steps; the goal it names has been inserted.
Names(q) == q.goal \in Goals /\ goals[q.goal] # NoGoal

ReqOK(q) ==
    \/ q = Idle
    \/ q.op = "set" /\ q = [op |-> "set", job |-> q.job, baseline |-> q.baseline]
    \/ q.op = "mark" /\ q = [op |-> "mark", goal |-> q.goal, required |-> q.required] /\ Names(q)
    \/ q.op = "bank" /\ q = [op |-> "bank", goal |-> q.goal] /\ Names(q)
                     /\ (q.goal \in Rows => q.goal \in reached)
    \/ q.op = "abandon" /\ q = [op |-> "abandon", goal |-> q.goal] /\ Names(q)

\* An identifier is never used again, so a request cannot bank a goal it has not scored;
\* and whatever clears the bar has been noted at the step that made it clear it.
IInv ==
    /\ DOMAIN goals = Goals
    /\ DOMAIN posting = Jobs
    /\ DOMAIN req = Requests
    /\ \A r \in Requests : ReqOK(req[r])
    /\ OneActiveGoal
    /\ AchievedWasReached
    /\ \A g \in Goals : Clears(g) => g \in reached

LEMMA NoGoalIsNoRow == NoGoal \notin Goal
BY DEF NoGoal, Goal

LEMMA DeletedIsNoRow ==
    /\ [job |-> Gone, was |-> "deleted"] \notin Goal
    /\ [job |-> Gone, was |-> "deleted"] # NoGoal
BY DEF NoGoal, Goal

-----------------------------------------------------------------------------
(* The steps.                                                              *)

\* What a step leaves as it was, or makes less of.
GoalsShrink ==
    /\ DOMAIN goals' = Goals
    /\ \A g \in Goals :
        /\ goals[g] # NoGoal => goals'[g] # NoGoal
        /\ g \in Rows' => goals'[g] = goals[g]

LEMMA WatchNotes ==
    ASSUME IInv, Watch
    PROVE  /\ reached \subseteq reached'
           /\ \A g \in Goals : Clears(g)' => g \in reached'
BY DEF Watch

LEMMA RequestsSurvive ==
    ASSUME IInv, NEW q, ReqOK(q), Watch,
           \A g \in Goals : /\ goals[g] # NoGoal => goals'[g] # NoGoal
                            /\ g \in Rows' /\ goals[g] # NoGoal => g \in Rows
    PROVE  ReqOK(q)'
<1>1. reached \subseteq reached'
  BY WatchNotes
<1> QED
  BY <1>1 DEF ReqOK, Names

\* Every step that changes no goal but to delete it.
LEMMA ShrinkKeeps ==
    ASSUME IInv, GoalsShrink, Watch, DOMAIN posting' = Jobs, DOMAIN req' = Requests,
           \A r \in Requests : ReqOK(req'[r])
    PROVE  IInv'
<1>1. /\ reached \subseteq reached'
      /\ \A g \in Goals : Clears(g)' => g \in reached'
  BY WatchNotes
<1>2. \A g \in Goals : g \in Rows' => g \in Rows
  BY DEF GoalsShrink, Rows
<1>3. \A r \in Requests : ReqOK(req[r])'
  BY <1>2, RequestsSurvive DEF GoalsShrink, IInv
<1>4. OneActiveGoal'
  BY <1>2 DEF GoalsShrink, IInv, OneActiveGoal, IsActive
<1>5. AchievedWasReached'
  BY <1>1, <1>2 DEF GoalsShrink, IInv, AchievedWasReached, Rows
<1> QED
  BY <1>1, <1>3, <1>4, <1>5 DEF IInv, GoalsShrink

\* A step that leaves every goal alone.
LEMMA SameGoalsShrink ==
    ASSUME IInv, UNCHANGED goals
    PROVE  GoalsShrink
BY DEF IInv, GoalsShrink, Rows

LEMMA DeletedShrinks ==
    ASSUME IInv, NEW S, goals' = Deleted(S)
    PROVE  GoalsShrink
<1>1. \A g \in Goals : goals'[g] = IF g \in S THEN [job |-> Gone, was |-> "deleted"] ELSE goals[g]
  BY DEF Deleted
<1>2. DOMAIN goals' = Goals
  BY DEF Deleted
<1> QED
  BY <1>1, <1>2, DeletedIsNoRow DEF GoalsShrink, Rows

\* One request moves on.
LEMMA MoveKeeps ==
    ASSUME IInv, NEW r \in Requests, NEW q, ReqOK(q), req' = [req EXCEPT ![r] = q],
           GoalsShrink, UNCHANGED surroundings, Watch
    PROVE  IInv'
<1>1. \A o \in Requests : ReqOK(req'[o])
  BY DEF IInv
<1>2. DOMAIN posting' = Jobs /\ DOMAIN req' = Requests
  BY DEF IInv, surroundings
<1> QED
  BY <1>1, <1>2, ShrinkKeeps

LEMMA SetGoalKeeps ==
    ASSUME IInv, NEW r \in Requests, NEW j \in Jobs, SetGoal(r, j)
    PROVE  IInv'
<1> DEFINE q == [op |-> "set", job |-> j, baseline |-> Score(held, posting[j], similarity[j])]
<1>1. ReqOK(q)
  BY DEF ReqOK
<1> QED
  BY <1>1, SameGoalsShrink, MoveKeeps DEF SetGoal

LEMMA MarkAchievedKeeps ==
    ASSUME IInv, NEW r \in Requests, NEW g \in Goals, MarkAchieved(r, g)
    PROVE  IInv'
<1> DEFINE q == [op |-> "mark", goal |-> g, required |-> posting[goals[g].job]]
<1>1. ReqOK(q)
  BY NoGoalIsNoRow DEF ReqOK, Names, MarkAchieved, IsActive, Rows
<1> QED
  BY <1>1, SameGoalsShrink, MoveKeeps DEF MarkAchieved

LEMMA AbandonKeeps ==
    ASSUME IInv, NEW r \in Requests, NEW g \in Goals, Abandon(r, g)
    PROVE  IInv'
<1> DEFINE q == [op |-> "abandon", goal |-> g]
<1>1. ReqOK(q)
  BY NoGoalIsNoRow DEF ReqOK, Names, Abandon, Rows
<1> QED
  BY <1>1, SameGoalsShrink, MoveKeeps DEF Abandon

\* A goal that scores enough has been reached: it was banked before, or it is active and
\* clears the bar by the requirements of this very request.
LEMMA MarkScoreKeeps ==
    ASSUME IInv, NEW r \in Requests, MarkScore(r)
    PROVE  IInv'
<1> DEFINE g == req[r].goal
           pass == g \in Rows /\ Achievable(goals[g].job, req[r].required)
<1>1. req[r].op = "mark" /\ Names(req[r])
  BY DEF IInv, ReqOK, Idle, MarkScore
<1>2. ReqOK(Idle)
  BY DEF ReqOK
<1>3. CASE ~pass
  BY <1>2, <1>3, SameGoalsShrink, MoveKeeps DEF MarkScore
<1>4. CASE pass
  <2> DEFINE q == [op |-> "bank", goal |-> g]
  <2>1. req[r].required \in Measures(g)
    BY <1>1 DEF Measures
  <2>2. g \in Rows /\ g \in Goals
    BY <1>4 DEF Rows
  <2>3. g \in reached
    <3>1. CASE goals[g].achieved
      BY <2>2, <3>1 DEF IInv, AchievedWasReached
    <3>2. CASE ~goals[g].achieved
      <4>1. Clears(g)
        BY <1>4, <2>1, <2>2, <3>2 DEF Clears, IsActive, Achievable
      <4> QED
        BY <2>2, <4>1 DEF IInv
    <3> QED
      BY <3>1, <3>2
  <2>4. ReqOK(q)
    BY <1>1, <2>2, <2>3 DEF ReqOK, Names
  <2> HIDE DEF q
  <2>5. req' = [req EXCEPT ![r] = q]
    BY <1>4 DEF MarkScore, q
  <2> QED
    BY <2>4, <2>5, SameGoalsShrink, MoveKeeps DEF MarkScore
<1> QED
  BY <1>3, <1>4

LEMMA AbandonCommitKeeps ==
    ASSUME IInv, NEW r \in Requests, AbandonCommit(r)
    PROVE  IInv'
<1>1. ReqOK(Idle)
  BY DEF ReqOK
<1> QED
  BY <1>1, DeletedShrinks, MoveKeeps DEF AbandonCommit

\* The unique index refuses a second active goal at the insert, whatever was checked before.
LEMMA SetGoalCommitKeeps ==
    ASSUME IInv, NEW r \in Requests, SetGoalCommit(r)
    PROVE  IInv'
<1> DEFINE new == [job |-> req[r].job, baseline |-> req[r].baseline, achieved |-> FALSE]
<1>0. ReqOK(Idle)
  BY DEF ReqOK
<1>1. CASE UNCHANGED goals
  BY <1>0, <1>1, SameGoalsShrink, MoveKeeps DEF SetGoalCommit
<1>2. CASE ~UNCHANGED goals
  <2>1. PICK g \in Goals : goals[g] = NoGoal /\ goals' = [goals EXCEPT ![g] = new]
                           /\ \A h \in Goals : ~IsActive(h)
    BY <1>2 DEF SetGoalCommit, Insertable
  <2>2. \A h \in Goals : goals'[h] = IF h = g THEN new ELSE goals[h]
    BY <2>1 DEF IInv
  <2>3. new.achieved = FALSE /\ new # NoGoal
    BY DEF NoGoal
  <2>4. /\ DOMAIN goals' = Goals
        /\ DOMAIN posting' = Jobs
        /\ req' = [req EXCEPT ![r] = Idle] /\ DOMAIN req' = Requests
        /\ Watch
    BY <2>1 DEF IInv, SetGoalCommit, surroundings
  <2> HIDE DEF new
  <2>5. /\ reached \subseteq reached'
        /\ \A h \in Goals : Clears(h)' => h \in reached'
    BY <2>4, WatchNotes
  <2>6. \A h \in Goals : /\ goals[h] # NoGoal => goals'[h] # NoGoal
                         /\ h \in Rows' /\ goals[h] # NoGoal => h \in Rows
    BY <2>1, <2>2, <2>3 DEF Rows
  <2>7. \A o \in Requests : ReqOK(req'[o])
    BY <1>0, <2>4 DEF IInv
  <2>8. \A o \in Requests : ReqOK(req[o])'
    BY <2>4, <2>6, <2>7, RequestsSurvive
  <2>9. OneActiveGoal'
    BY <2>1, <2>2 DEF OneActiveGoal, IsActive, Rows
  <2>10. AchievedWasReached'
    BY <2>2, <2>3, <2>5 DEF IInv, AchievedWasReached, Rows
  <2> QED
    BY <2>4, <2>5, <2>8, <2>9, <2>10 DEF IInv
<1> QED
  BY <1>1, <1>2

LEMMA MarkCommitKeeps ==
    ASSUME IInv, NEW r \in Requests, MarkCommit(r)
    PROVE  IInv'
<1> DEFINE g == req[r].goal
<1>0. ReqOK(Idle)
  BY DEF ReqOK
<1>1. CASE g \notin Rows
  BY <1>0, <1>1, SameGoalsShrink, MoveKeeps DEF MarkCommit
<1>2. CASE g \in Rows
  <2>1. Names(req[r]) /\ g \in reached
    BY <1>2 DEF IInv, ReqOK, Idle, MarkCommit
  <2>2. goals[g] \in Goal /\ g \in Goals
    BY <1>2 DEF Rows
  <2>3. \A h \in Goals : goals'[h] = IF h = g THEN [goals[g] EXCEPT !.achieved = TRUE] ELSE goals[h]
    BY <1>2 DEF MarkCommit, IInv
  <2>4. [goals[g] EXCEPT !.achieved = TRUE] \in Goal /\ [goals[g] EXCEPT !.achieved = TRUE].achieved
    BY <2>2 DEF Goal
  <2>5. /\ DOMAIN goals' = Goals
        /\ DOMAIN posting' = Jobs
        /\ req' = [req EXCEPT ![r] = Idle] /\ DOMAIN req' = Requests
        /\ Watch
    BY <1>2 DEF IInv, MarkCommit, surroundings
  <2>6. /\ reached \subseteq reached'
        /\ \A h \in Goals : Clears(h)' => h \in reached'
    BY <2>5, WatchNotes
  <2>7. \A h \in Goals : /\ goals[h] # NoGoal => goals'[h] # NoGoal
                         /\ h \in Rows' => h \in Rows
    BY <2>2, <2>3, <2>4, NoGoalIsNoRow DEF Rows
  <2>8. \A o \in Requests : ReqOK(req'[o])
    BY <1>0, <2>5 DEF IInv
  <2>9. \A o \in Requests : ReqOK(req[o])'
    BY <2>5, <2>7, <2>8, RequestsSurvive
  <2>10. OneActiveGoal'
    BY <2>3, <2>4, <2>7 DEF IInv, OneActiveGoal, IsActive
  <2>11. AchievedWasReached'
    BY <2>1, <2>3, <2>6, <2>7 DEF IInv, AchievedWasReached, Rows
  <2> QED
    BY <2>5, <2>6, <2>9, <2>10, <2>11 DEF IInv
<1> QED
  BY <1>1, <1>2

\* Profile, postings and vectors change; no request moves.
LEMMA SurroundingsKeep ==
    ASSUME IInv, GoalsShrink, Watch, DOMAIN posting' = Jobs, UNCHANGED req
    PROVE  IInv'
<1>1. DOMAIN req' = Requests /\ \A r \in Requests : ReqOK(req'[r])
  BY DEF IInv
<1> QED
  BY <1>1, ShrinkKeeps

LEMMA NextKeeps ==
    ASSUME IInv, [Next]_vars
    PROVE  IInv'
<1>1. CASE UNCHANGED vars
  <2>1. UNCHANGED <<held, posting, similarity, goals, req, reached>>
    BY <1>1 DEF vars, surroundings
  <2> QED
    BY <2>1 DEF IInv, ReqOK, Names, OneActiveGoal, AchievedWasReached, IsActive, Rows, Clears, Measures
<1>2. ASSUME NEW r \in Requests, Request(r)
      PROVE  IInv'
  BY <1>2, SetGoalKeeps, SetGoalCommitKeeps, MarkAchievedKeeps, AbandonKeeps, MarkScoreKeeps,
     MarkCommitKeeps, AbandonCommitKeeps DEF Request
<1>3. ASSUME NEW s \in Skills, ProfileChanges(s)
      PROVE  IInv'
  BY <1>3, SameGoalsShrink, SurroundingsKeep DEF ProfileChanges, IInv
<1>4. ASSUME NEW j \in Jobs, NEW required \in Requirements, PostingChanges(j, required)
      PROVE  IInv'
  BY <1>4, SameGoalsShrink, SurroundingsKeep DEF PostingChanges, IInv
<1>5. ASSUME NEW j \in Jobs, PostingGoes(j)
      PROVE  IInv'
  BY <1>5, DeletedShrinks, SurroundingsKeep DEF PostingGoes, IInv
<1>6. ASSUME NEW j \in Jobs, NEW c \in Similarities, VectorLands(j, c)
      PROVE  IInv'
  BY <1>6, SameGoalsShrink, SurroundingsKeep DEF VectorLands, IInv
<1> QED
  BY <1>1, <1>2, <1>3, <1>4, <1>5, <1>6 DEF Next

\* The goals of a user, the requests on them and what has been reached agree, always.
THEOREM GoalsInvariant == Spec => []IInv
<1>1. Init => IInv
  BY NoGoalIsNoRow DEF Init, IInv, ReqOK, OneActiveGoal, AchievedWasReached, IsActive, Rows, Clears
<1>2. IInv /\ [Next]_vars => IInv'
  BY NextKeeps
<1> QED
  BY <1>1, <1>2, PTL DEF Spec

\* However requests overlap, a user never has two active goals (uq_career_goals_one_active_per_user
\* is what keeps set_goal's check true).
THEOREM AtMostOneActive == Spec => []OneActiveGoal
<1>1. IInv => OneActiveGoal
  BY DEF IInv
<1> QED
  BY <1>1, GoalsInvariant, PTL

\* A goal that counts as achieved cleared the bar at some moment while it was active, whatever
\* happened between the score mark_achieved took and its commit.
THEOREM NothingIsAsserted == Spec => []AchievedWasReached
<1>1. IInv => AchievedWasReached
  BY DEF IInv
<1> QED
  BY <1>1, GoalsInvariant, PTL

-----------------------------------------------------------------------------
(* What may become of a goal in one step.                                  *)

Kept(g) ==
    \/ goals'[g] = goals[g]
    \/ goals'[g] = [goals[g] EXCEPT !.achieved = TRUE]
    \/ posting'[goals[g].job] = Gone
    \/ \E r \in Requests : req[r] = [op |-> "abandon", goal |-> g] /\ req'[r] = Idle

LEMMA RequestKeepsHistory ==
    ASSUME IInv, NEW r \in Requests, Request(r), NEW g \in Rows
    PROVE  Kept(g)
<1>1. CASE UNCHANGED goals
  BY <1>1 DEF Kept
<1>2. CASE SetGoalCommit(r)
  <2>1. g \in Goals /\ goals[g] # NoGoal
    BY NoGoalIsNoRow DEF Rows
  <2>2. goals'[g] = goals[g]
    BY <1>2, <2>1 DEF SetGoalCommit, IInv
  <2> QED
    BY <2>2 DEF Kept
<1>3. CASE MarkCommit(r)
  <2>1. goals' = [goals EXCEPT ![req[r].goal].achieved = TRUE] \/ goals' = goals
    BY <1>3 DEF MarkCommit
  <2>2. g \in DOMAIN goals
    BY DEF Rows, IInv
  <2>3. goals'[g] = goals[g] \/ goals'[g] = [goals[g] EXCEPT !.achieved = TRUE]
    BY <2>1, <2>2
  <2> QED
    BY <2>3 DEF Kept
<1>4. CASE AbandonCommit(r)
  <2>1. req[r] = [op |-> "abandon", goal |-> req[r].goal] /\ req'[r] = Idle
    BY <1>4 DEF AbandonCommit, IInv, ReqOK, Idle
  <2>2. g # req[r].goal => goals'[g] = goals[g]
    BY <1>4 DEF AbandonCommit, Deleted, Rows
  <2> QED
    BY <2>1, <2>2 DEF Kept
<1> QED
  BY <1>1, <1>2, <1>3, <1>4 DEF Request, SetGoal, MarkAchieved, MarkScore, Abandon

LEMMA StepKeepsHistory ==
    ASSUME IInv, Next, NEW g \in Rows
    PROVE  Kept(g)
<1>1. CASE \E r \in Requests : Request(r)
  BY <1>1, RequestKeepsHistory
<1>2. CASE UNCHANGED goals
  BY <1>2 DEF Kept
<1>3. ASSUME NEW j \in Jobs, PostingGoes(j)
      PROVE  Kept(g)
  <2>1. posting'[j] = Gone
    BY <1>3 DEF PostingGoes, IInv
  <2>2. goals[g].job # j => goals'[g] = goals[g]
    BY <1>3 DEF PostingGoes, Deleted, Rows
  <2> QED
    BY <2>1, <2>2 DEF Kept
<1> QED
  BY <1>1, <1>2, <1>3 DEF Next, ProfileChanges, PostingChanges, VectorLands

\* A goal keeps its job and baseline while it exists, an achievement is never taken back, and
\* a goal goes only with its posting or by a request that named it.
THEOREM HistoryStands == Spec => HistoryIsKept
<1>1. IInv /\ [Next]_vars => [\A g \in Rows : Kept(g)]_vars
  BY StepKeepsHistory
<1>2. [\A g \in Rows : Kept(g)]_vars =>
      [\A g \in Rows :
        \/ goals'[g] = goals[g]
        \/ goals'[g] = [goals[g] EXCEPT !.achieved = TRUE]
        \/ posting'[goals[g].job] = Gone
        \/ \E r \in Requests :
            req[r] = [op |-> "abandon", goal |-> g] /\ req'[r] = Idle]_vars
  BY DEF Kept
<1> QED
  BY <1>1, <1>2, GoalsInvariant, PTL DEF Spec, HistoryIsKept

-----------------------------------------------------------------------------
(* Weights and rounding (services/matching.py).                            *)

\* A set of numbers has a least one.
LEMMA LeastExists ==
    ASSUME NEW S, S \subseteq Nat, S # {}
    PROVE  \E n \in S : \A m \in S : n <= m
<1>1. PICK less : less = OpToRel(<, Nat)
  OBVIOUS
<1>2. IsWellFoundedOn(less, Nat)
  BY <1>1, NatLessThanWellFounded, Zenon
<1>3. ASSUME NEW m \in Nat, NEW n \in Nat, m < n PROVE <<m, n>> \in less
  <2>1. <<m, n>> \in OpToRel(<, Nat)
    BY <1>3 DEF OpToRel
  <2> QED
    BY <1>1, <2>1, Zenon
<1>4. PICK n \in S : \A m \in S : ~ (<<m, n>> \in less)
  BY <1>2, WFMin, Zenon
<1>5. \A m \in S : ~ (m < n)
  BY <1>3, <1>4, Zenon
<1> QED
  BY <1>5

\* Of a set of finite sets that is not empty, one of the smallest.
LEMMA SmallestExists ==
    ASSUME NEW F, F # {}, \A T \in F : IsFiniteSet(T)
    PROVE  \E T \in F : \A U \in F : ~ (Cardinality(U) < Cardinality(T))
<1> DEFINE sizes == {Cardinality(T) : T \in F}
<1>1. sizes \subseteq Nat /\ sizes # {}
  BY FS_CardinalityType
<1>2. PICK n \in sizes : \A m \in sizes : n <= m
  BY <1>1, LeastExists
<1>3. PICK T \in F : n = Cardinality(T)
  OBVIOUS
<1>4. ASSUME NEW U \in F PROVE ~ (Cardinality(U) < Cardinality(T))
  <2>1. Cardinality(U) \in sizes /\ n \in Nat /\ Cardinality(U) \in Nat
    BY <1>1
  <2> QED
    BY <1>2, <1>3, <2>1
<1> QED
  BY <1>4

\* The sums over the subsets of S, one member at a time.
First(T) == CHOOSE x \in T : TRUE

Sum(g, r, T) == IF T = {} THEN 0 ELSE r[First(T)] + g[T \ {First(T)}]

Sums(g, r, S) == g = [T \in SUBSET S |-> Sum(g, r, T)]

LEMMA FirstIsMember == ASSUME NEW T, T # {} PROVE First(T) \in T
BY DEF First

\* Without its first member a finite set is smaller.
LEMMA RestIsSmaller ==
    ASSUME NEW T, IsFiniteSet(T), T # {}
    PROVE  /\ IsFiniteSet(T \ {First(T)})
           /\ Cardinality(T \ {First(T)}) = Cardinality(T) - 1
           /\ Cardinality(T) \in Nat /\ Cardinality(T \ {First(T)}) \in Nat
BY FirstIsMember, FS_RemoveElement, FS_CardinalityType

LEMMA SumsExist ==
    ASSUME NEW r, NEW S, IsFiniteSet(S)
    PROVE  \E g : Sums(g, r, S)
<1> DEFINE Upto(g, n) ==
             /\ g = [T \in SUBSET S |-> g[T]]
             /\ \A T \in SUBSET S : Cardinality(T) <= n => g[T] = Sum(g, r, T)
           open == {n \in Nat : ~ \E g : Upto(g, n)}
<1>1. \A T \in SUBSET S : IsFiniteSet(T) /\ Cardinality(T) \in Nat /\ Cardinality(T) <= Cardinality(S)
  BY FS_Subset, FS_CardinalityType
<1>2. SUFFICES ASSUME open # {} PROVE FALSE
  <2>1. Cardinality(S) \in Nat
    BY FS_CardinalityType
  <2>2. PICK g : Upto(g, Cardinality(S))
    BY <2>1
  <2>3. \A T \in SUBSET S : g[T] = Sum(g, r, T)
    BY <1>1, <2>2
  <2>4. Sums(g, r, S)
    BY <2>2, <2>3 DEF Sums
  <2> QED
    BY <2>4
<1>3. PICK n \in open : \A m \in open : n <= m
  BY <1>2, LeastExists
<1>4. n \in Nat /\ ~ \E g : Upto(g, n)
  OBVIOUS
<1>5. CASE n = 0
  <2> DEFINE g == [T \in SUBSET S |-> 0]
  <2>1. \A T \in SUBSET S : Cardinality(T) <= 0 => T = {}
    BY <1>1, FS_EmptySet
  <2>2. Upto(g, 0)
    BY <2>1 DEF Sum
  <2> QED
    BY <1>4, <1>5, <2>2
<1>6. CASE n # 0
  <2>1. n - 1 \in Nat /\ ~ (n <= n - 1)
    BY <1>4, <1>6
  <2>2. PICK g : Upto(g, n - 1)
    BY <1>3, <2>1
  <2> DEFINE h == [T \in SUBSET S |-> IF Cardinality(T) = n THEN Sum(g, r, T) ELSE g[T]]
  <2>3. ASSUME NEW T \in SUBSET S, Cardinality(T) <= n
        PROVE  h[T] = Sum(g, r, T) /\ Sum(h, r, T) = Sum(g, r, T)
    <3>1. h[T] = Sum(g, r, T)
      <4>1. CASE Cardinality(T) = n
        BY <4>1
      <4>2. CASE Cardinality(T) # n
        <5>1. Cardinality(T) <= n - 1
          BY <1>1, <1>4, <2>3, <4>2
        <5> QED
          BY <2>2, <4>2, <5>1
      <4> QED
        BY <4>1, <4>2
    <3>2. T # {} => T \ {First(T)} \in SUBSET S /\ Cardinality(T \ {First(T)}) # n
      BY <1>1, <1>4, <2>3, RestIsSmaller
    <3>3. T # {} => h[T \ {First(T)}] = g[T \ {First(T)}]
      BY <3>2
    <3> HIDE DEF h
    <3> QED
      BY <3>1, <3>3 DEF Sum
  <2>4. h = [T \in SUBSET S |-> h[T]]
    OBVIOUS
  <2> HIDE DEF h
  <2>5. Upto(h, n)
    BY <2>3, <2>4
  <2> QED
    BY <1>4, <2>5
<1> QED
  BY <1>5, <1>6

LEMMA SumsAgree ==
    ASSUME NEW r, NEW S, IsFiniteSet(S), NEW g, NEW h, NEW T \in SUBSET S,
           Sums(g, r, S), Sums(h, r, T)
    PROVE  g[T] = h[T]
<1> DEFINE wrong == {U \in SUBSET T : g[U] # h[U]}
<1>1. SUFFICES ASSUME wrong # {} PROVE FALSE
  OBVIOUS
<1>2. \A U \in wrong : IsFiniteSet(U)
  BY FS_Subset
<1>3. PICK U \in wrong : \A V \in wrong : ~ (Cardinality(V) < Cardinality(U))
  BY <1>1, <1>2, SmallestExists, Zenon
<1>4. U \in SUBSET T /\ U \in SUBSET S /\ g[U] # h[U] /\ IsFiniteSet(U)
  BY <1>2
<1>5. g[U] = Sum(g, r, U) /\ h[U] = Sum(h, r, U)
  BY <1>4 DEF Sums
<1>6. U # {}
  BY <1>4, <1>5 DEF Sum
<1>7. Cardinality(U \ {First(U)}) < Cardinality(U) /\ U \ {First(U)} \in SUBSET T
  BY <1>4, <1>6, RestIsSmaller
<1>8. g[U \ {First(U)}] = h[U \ {First(U)}]
  BY <1>3, <1>7
<1> QED
  BY <1>4, <1>5, <1>6, <1>8 DEF Sum

\* The fold of Weight, as its first member and the rest.
LEMMA WeightUnfolds ==
    ASSUME NEW r, NEW S, IsFiniteSet(S)
    PROVE  Weight(r, S) = IF S = {} THEN 0 ELSE r[First(S)] + Weight(r, S \ {First(S)})
<1>1. ASSUME NEW T, IsFiniteSet(T) PROVE \E g : Sums(g, r, T) /\ Weight(r, T) = g[T]
  <2> DEFINE g == CHOOSE iter : iter = [U \in SUBSET T |->
                    IF U = {} THEN 0 ELSE LET x == CHOOSE y \in U : TRUE IN r[x] + iter[U \ {x}]]
  <2>1. Weight(r, T) = g[T]
    BY DEF Weight, MapThenSumSet, MapThenFoldSet
  <2>2. g = CHOOSE iter : Sums(iter, r, T)
    BY DEF Sums, Sum, First
  <2> HIDE DEF g
  <2>3. Sums(g, r, T)
    BY <1>1, <2>2, SumsExist
  <2> QED
    BY <2>1, <2>3
<1>2. PICK g : Sums(g, r, S) /\ Weight(r, S) = g[S]
  BY <1>1
<1>3. g[S] = Sum(g, r, S)
  BY <1>2 DEF Sums
<1>4. CASE S = {}
  BY <1>2, <1>3, <1>4 DEF Sum
<1>5. CASE S # {}
  <2>1. IsFiniteSet(S \ {First(S)})
    BY <1>5, RestIsSmaller
  <2>2. PICK h : Sums(h, r, S \ {First(S)}) /\ Weight(r, S \ {First(S)}) = h[S \ {First(S)}]
    BY <1>1, <2>1
  <2>3. g[S \ {First(S)}] = h[S \ {First(S)}]
    BY <1>2, <2>2, SumsAgree
  <2> QED
    BY <1>2, <1>3, <1>5, <2>2, <2>3 DEF Sum
<1> QED
  BY <1>4, <1>5

\* Importances are 1..5, and so is their mean.
LEMMA WeightBounds ==
    ASSUME NEW r, NEW S, IsFiniteSet(S), \A s \in S : r[s] \in 1..5
    PROVE  /\ Weight(r, S) \in Nat
           /\ Cardinality(S) <= Weight(r, S) /\ Weight(r, S) <= 5 * Cardinality(S)
<1> DEFINE Good(T) == Weight(r, T) \in Nat /\ Cardinality(T) <= Weight(r, T)
                      /\ Weight(r, T) <= 5 * Cardinality(T)
           wrong == {T \in SUBSET S : ~Good(T)}
<1>1. SUFFICES ASSUME wrong # {} PROVE FALSE
  OBVIOUS
<1>2. \A T \in wrong : IsFiniteSet(T)
  BY FS_Subset
<1>3. PICK T \in wrong : \A U \in wrong : ~ (Cardinality(U) < Cardinality(T))
  BY <1>1, <1>2, SmallestExists, Zenon
<1>4. T \in SUBSET S /\ ~Good(T) /\ IsFiniteSet(T)
  BY <1>2
<1>5. CASE T = {}
  <2>1. Weight(r, {}) = 0 /\ Cardinality({}) = 0
    BY WeightUnfolds, FS_EmptySet
  <2> QED
    BY <1>4, <1>5, <2>1
<1>6. CASE T # {}
  <2> DEFINE x == First(T)
             U == T \ {x}
  <2>1. x \in T /\ r[x] \in 1..5
    BY <1>4, <1>6, FirstIsMember
  <2>2. Weight(r, T) = r[x] + Weight(r, U)
    BY <1>4, <1>6, WeightUnfolds
  <2>3. Cardinality(U) = Cardinality(T) - 1 /\ Cardinality(T) \in Nat /\ Cardinality(U) \in Nat
    BY <1>4, <1>6, RestIsSmaller
  <2>4. Good(U)
    <3>1. Cardinality(U) < Cardinality(T)
      BY <2>3
    <3>2. U \notin wrong
      BY <1>3, <3>1, Zenon
    <3> QED
      BY <1>4, <3>2
  <2> HIDE DEF x, U
  <2> QED
    BY <1>4, <2>1, <2>2, <2>3, <2>4
<1> QED
  BY <1>5, <1>6

\* It does not matter which member is taken first.
LEMMA WeightAdds ==
    ASSUME NEW r, NEW S, IsFiniteSet(S), NEW s \in S, \A t \in S : r[t] \in 1..5
    PROVE  Weight(r, S) = r[s] + Weight(r, S \ {s})
<1> DEFINE Good(T) == \A x \in T : Weight(r, T) = r[x] + Weight(r, T \ {x})
           wrong == {T \in SUBSET S : ~Good(T)}
<1>1. SUFFICES ASSUME wrong # {} PROVE FALSE
  OBVIOUS
<1>2. \A T \in SUBSET S : IsFiniteSet(T) /\ Weight(r, T) \in Nat
  BY FS_Subset, WeightBounds
<1>3. PICK T \in wrong : \A U \in wrong : ~ (Cardinality(U) < Cardinality(T))
  BY <1>1, <1>2, SmallestExists, Zenon
<1>4. T \in SUBSET S /\ ~Good(T)
  OBVIOUS
<1>5. PICK x \in T : Weight(r, T) # r[x] + Weight(r, T \ {x})
  BY <1>4
<1>6. \A y \in T : Good(T \ {y})
  <2> SUFFICES ASSUME NEW y \in T PROVE Good(T \ {y})
    OBVIOUS
  <2>1. Cardinality(T \ {y}) < Cardinality(T)
    <3>1. IsFiniteSet(T) /\ Cardinality(T) \in Nat
      BY <1>2, <1>4, FS_CardinalityType
    <3>2. Cardinality(T \ {y}) = Cardinality(T) - 1
      BY <3>1, FS_RemoveElement
    <3> QED
      BY <3>1, <3>2
  <2>2. T \ {y} \notin wrong
    BY <1>3, <2>1, Zenon
  <2> QED
    BY <1>4, <2>2
<1> HIDE DEF wrong
<1>7. PICK y : y \in T /\ Weight(r, T) = r[y] + Weight(r, T \ {y})
  BY <1>2, <1>4, <1>5, WeightUnfolds, FirstIsMember
<1>8. x # y
  BY <1>5, <1>7
<1>9. Weight(r, T \ {y}) = r[x] + Weight(r, (T \ {y}) \ {x})
  BY <1>6, <1>7, <1>8
<1>10. Weight(r, T \ {x}) = r[y] + Weight(r, (T \ {x}) \ {y})
  BY <1>6, <1>7, <1>8
<1>11. (T \ {y}) \ {x} = (T \ {x}) \ {y}
  OBVIOUS
<1>12. r[x] \in Nat /\ r[y] \in Nat /\ Weight(r, (T \ {x}) \ {y}) \in Nat
  <2>1. (T \ {x}) \ {y} \in SUBSET S
    BY <1>4
  <2> QED
    BY <1>2, <1>4, <1>7, <2>1
<1> QED
  BY <1>5, <1>7, <1>9, <1>10, <1>11, <1>12

LEMMA Divides ==
    ASSUME NEW n \in Nat, NEW d \in Nat \ {0}
    PROVE  n = d * (n \div d) + (n % d) /\ n \div d \in Nat /\ n % d \in 0..(d - 1)
OBVIOUS

\* What d divides n by, and what is left.
LEMMA RoundIs ==
    ASSUME NEW n \in Nat, NEW d \in Nat \ {0}
    PROVE  \E q \in Nat : \E r \in 0..(d - 1) :
             /\ n = d * q + r
             /\ Round(n, d) = IF 2 * r < d \/ (2 * r = d /\ q % 2 = 0) THEN q ELSE q + 1
<1> DEFINE q == n \div d
           r == n % d
<1>1. n = d * q + r /\ q \in Nat /\ r \in 0..(d - 1)
  BY Divides
<1>2. Round(n, d) = IF 2 * r < d \/ (2 * r = d /\ q % 2 = 0) THEN q ELSE q + 1
  BY DEF Round
<1> HIDE DEF q, r
<1> QED
  BY <1>1, <1>2

\* More by more than the divisor is more when rounded.
LEMMA RoundGrows ==
    ASSUME NEW n \in Nat, NEW d \in Nat \ {0}, NEW k \in Nat, k > d
    PROVE  Round(n + k, d) > Round(n, d)
<1>1. PICK q \in Nat, r \in 0..(d - 1) :
        /\ n = d * q + r
        /\ Round(n, d) = IF 2 * r < d \/ (2 * r = d /\ q % 2 = 0) THEN q ELSE q + 1
  BY RoundIs
<1>2. PICK p \in Nat, t \in 0..(d - 1) :
        /\ n + k = d * p + t
        /\ Round(n + k, d) = IF 2 * t < d \/ (2 * t = d /\ p % 2 = 0) THEN p ELSE p + 1
  <2>1. n + k \in Nat
    OBVIOUS
  <2> QED
    BY <2>1, RoundIs
<1>3. d * p + t > d * q + r + d
  BY <1>1, <1>2
<1>4. p > q
  <2>1. SUFFICES ASSUME p <= q PROVE FALSE
    OBVIOUS
  <2>2. d * (q - p) >= 0 /\ d * (q - p) = d * q - d * p
    BY <2>1
  <2> QED
    BY <1>3, <2>2
<1>5. CASE p > q + 1
  BY <1>1, <1>2, <1>5
<1>6. CASE p = q + 1
  <2>1. d * p = d * q + d
    BY <1>6
  <2>2. t > r
    BY <1>3, <2>1
  <2>3. CASE 2 * r < d
    BY <1>1, <1>2, <1>6, <2>3
  <2>4. CASE 2 * r >= d
    <3>1. 2 * t > d
      BY <2>2, <2>4
    <3> QED
      BY <1>1, <1>2, <1>6, <3>1
  <2> QED
    BY <2>3, <2>4
<1> QED
  BY <1>4, <1>5, <1>6

LEMMA RoundIsANumber ==
    ASSUME NEW n \in Nat, NEW d \in Nat \ {0}
    PROVE  Round(n, d) \in Nat
<1>1. PICK q \in Nat, r \in 0..(d - 1) :
        /\ n = d * q + r
        /\ Round(n, d) = IF 2 * r < d \/ (2 * r = d /\ q % 2 = 0) THEN q ELSE q + 1
  BY RoundIs
<1> QED
  BY <1>1

LEMMA CoverageIsAFraction ==
    ASSUME NEW required, Weighted(required), NEW H
    PROVE  /\ Coverage(H, required)[1] \in Nat
           /\ Coverage(H, required)[2] \in 1..645
<1>1. CASE DOMAIN required = {}
  BY <1>1 DEF Coverage
<1>2. CASE DOMAIN required # {}
  <2>1. IsFiniteSet(DOMAIN required \cap H)
    BY FS_Intersection DEF Weighted
  <2>2. Weight(required, DOMAIN required \cap H) \in Nat
    BY <2>1, WeightBounds DEF Weighted
  <2>3. Cardinality(DOMAIN required) \in 1..129
    <3>1. Cardinality(DOMAIN required) \in Nat
      BY FS_CardinalityType DEF Weighted
    <3>2. Cardinality(DOMAIN required) # 0
      BY <1>2, FS_EmptySet DEF Weighted
    <3> QED
      BY <3>1, <3>2 DEF Weighted
  <2>4. Weight(required, DOMAIN required) \in 1..645
    <3>1. /\ Weight(required, DOMAIN required) \in Nat
          /\ Cardinality(DOMAIN required) <= Weight(required, DOMAIN required)
          /\ Weight(required, DOMAIN required) <= 5 * Cardinality(DOMAIN required)
      BY WeightBounds DEF Weighted
    <3> QED
      BY <2>3, <3>1
  <2> QED
    BY <1>2, <2>2, <2>4 DEF Coverage
<1> QED
  BY <1>1, <1>2

LEMMA ScoreIsANumber ==
    ASSUME NEW required, Weighted(required), NEW H, NEW similarity0 \in Cosines \cup {NoSimilarity}
    PROVE  Score(H, required, similarity0) \in Nat
<1> DEFINE w == Coverage(H, required)[1]
           d == Coverage(H, required)[2]
           a == Clamped(similarity0)
<1>1. w \in Nat /\ d \in 1..645
  BY CoverageIsAFraction
<1>2. a \in 0..100
  BY DEF Clamped, Cosines, NoSimilarity
<1>3. Score(H, required, similarity0) =
        IF similarity0 = NoSimilarity THEN Round(1000 * w, d)
        ELSE Round(100 * 65 * w + 35 * a * d, 10 * d)
  BY DEF Score, SKILL_WEIGHT, SEMANTIC_WEIGHT
<1> HIDE DEF w, d, a
<1>4. 1000 * w \in Nat /\ d \in Nat \ {0}
  BY <1>1
<1>5. 100 * 65 * w + 35 * a * d \in Nat /\ 10 * d \in Nat \ {0}
  <2>1. a * d \in Nat
    BY <1>1, <1>2
  <2>2. 35 * a * d = 35 * (a * d)
    BY <1>1, <1>2
  <2> QED
    BY <1>1, <2>1, <2>2
<1> QED
  BY <1>3, <1>4, <1>5, RoundIsANumber

\* One more of the required skills is a higher score.
LEMMA SkillPays ==
    ASSUME NEW required, Weighted(required), NEW H, NEW s \in DOMAIN required \ H,
           NEW similarity0 \in Cosines \cup {NoSimilarity}
    PROVE  Score(H \cup {s}, required, similarity0) > Score(H, required, similarity0)
<1> DEFINE w == Coverage(H, required)[1]
           d == Coverage(H, required)[2]
           a == Clamped(similarity0)
           i == required[s]
<1>1. w \in Nat /\ d \in 1..645 /\ i \in 1..5
  BY CoverageIsAFraction DEF Weighted
<1>2. a \in 0..100
  BY DEF Clamped, Cosines, NoSimilarity
<1>3. Coverage(H \cup {s}, required)[1] = w + i /\ Coverage(H \cup {s}, required)[2] = d
  <2>1. IsFiniteSet(DOMAIN required \cap (H \cup {s}))
    BY FS_Intersection DEF Weighted
  <2>2. s \in DOMAIN required \cap (H \cup {s})
    OBVIOUS
  <2>3. (DOMAIN required \cap (H \cup {s})) \ {s} = DOMAIN required \cap H
    OBVIOUS
  <2>4. \A t \in DOMAIN required \cap (H \cup {s}) : required[t] \in 1..5
    BY DEF Weighted
  <2>5. Weight(required, DOMAIN required \cap (H \cup {s})) = i + Weight(required, DOMAIN required \cap H)
    BY <2>1, <2>2, <2>3, <2>4, WeightAdds
  <2>6. DOMAIN required # {}
    OBVIOUS
  <2>7. w = Weight(required, DOMAIN required \cap H) /\ d = Weight(required, DOMAIN required)
    BY <2>6 DEF Coverage
  <2>8. /\ Coverage(H \cup {s}, required)[1] = Weight(required, DOMAIN required \cap (H \cup {s}))
        /\ Coverage(H \cup {s}, required)[2] = Weight(required, DOMAIN required)
    BY <2>6 DEF Coverage
  <2> HIDE DEF w, d, i
  <2> QED
    BY <1>1, <2>5, <2>7, <2>8
<1>4. Score(H, required, similarity0) =
        IF similarity0 = NoSimilarity THEN Round(1000 * w, d)
        ELSE Round(100 * 65 * w + 35 * a * d, 10 * d)
  BY DEF Score, SKILL_WEIGHT, SEMANTIC_WEIGHT
<1>5. Score(H \cup {s}, required, similarity0) =
        IF similarity0 = NoSimilarity THEN Round(1000 * (w + i), d)
        ELSE Round(100 * 65 * (w + i) + 35 * a * d, 10 * d)
  BY <1>3 DEF Score, SKILL_WEIGHT, SEMANTIC_WEIGHT
<1> HIDE DEF w, d, a, i
<1>6. Round(1000 * (w + i), d) > Round(1000 * w, d)
  <2>1. PICK n \in Nat : n = 1000 * w
    BY <1>1
  <2>2. PICK k \in Nat : k = 1000 * i
    BY <1>1
  <2>3. d \in Nat \ {0} /\ k > d /\ 1000 * (w + i) = n + k
    BY <1>1, <2>1, <2>2
  <2>4. Round(n + k, d) > Round(n, d)
    BY <2>3, RoundGrows
  <2> QED
    BY <2>1, <2>3, <2>4
<1>7. Round(100 * 65 * (w + i) + 35 * a * d, 10 * d) > Round(100 * 65 * w + 35 * a * d, 10 * d)
  <2>1. PICK m \in Nat : m = 35 * a * d
    <3>1. a * d \in Nat
      BY <1>1, <1>2
    <3>2. 35 * a * d = 35 * (a * d)
      BY <1>1, <1>2
    <3> QED
      BY <3>1, <3>2
  <2>2. PICK n \in Nat : n = 100 * 65 * w + m
    BY <1>1, <2>1
  <2>3. PICK k \in Nat : k = 6500 * i
    BY <1>1
  <2>4. PICK e \in Nat \ {0} : e = 10 * d
    BY <1>1
  <2>5. k > e /\ 100 * 65 * (w + i) + m = n + k
    BY <1>1, <2>1, <2>2, <2>3, <2>4
  <2>6. Round(n + k, e) > Round(n, e)
    BY <2>5, RoundGrows
  <2> QED
    BY <2>1, <2>2, <2>4, <2>5, <2>6
<1> QED
  BY <1>4, <1>5, <1>6, <1>7

-----------------------------------------------------------------------------
(* Sets in an order.                                                       *)

\* R orders S: no two of its members are both ahead of each other, or neither.
Orders(R, S) ==
    /\ \A x \in S : <<x, x>> \notin R
    /\ \A x, y \in S : x # y => <<x, y>> \in R \/ <<y, x>> \in R
    /\ \A x, y, z \in S : <<x, y>> \in R /\ <<y, z>> \in R => <<x, z>> \in R

Ordered(q, R, S) ==
    /\ q \in [1..Cardinality(S) -> S]
    /\ \A i, j \in 1..Cardinality(S) : i < j => <<q[i], q[j]>> \in R

\* Every member of a finite set has its place: one after those that are ahead of it.
LEMMA OrderExists ==
    ASSUME NEW S, IsFiniteSet(S), NEW R, Orders(R, S)
    PROVE  \E q : Ordered(q, R, S)
<1> DEFINE n == Cardinality(S)
           Before(x) == {y \in S : <<y, x>> \in R}
           place == [x \in S |-> Cardinality(Before(x)) + 1]
<1>1. n \in Nat /\ IsFiniteSet(1..n) /\ Cardinality(1..n) = n
  <2>1. n \in Nat
    BY FS_CardinalityType
  <2> HIDE DEF n
  <2> QED
    BY <2>1, FS_Interval
<1>2. ASSUME NEW x \in S
      PROVE  /\ IsFiniteSet(Before(x)) /\ Cardinality(Before(x)) \in Nat
             /\ Cardinality(Before(x)) < n
  <2>1. Before(x) \in SUBSET S /\ x \notin Before(x)
    BY DEF Orders
  <2>2. IsFiniteSet(Before(x)) /\ Cardinality(Before(x)) <= n /\ (n = Cardinality(Before(x)) => S = Before(x))
    BY <2>1, FS_Subset
  <2>3. Cardinality(Before(x)) \in Nat
    BY <2>2, FS_CardinalityType
  <2>4. S # Before(x)
    BY <2>1
  <2> HIDE DEF n, Before
  <2> QED
    BY <1>1, <2>2, <2>3, <2>4
<1>3. ASSUME NEW x \in S, NEW y \in S, <<x, y>> \in R
      PROVE  Cardinality(Before(x)) < Cardinality(Before(y))
  <2>1. Before(x) \in SUBSET Before(y)
    BY <1>3 DEF Orders
  <2>2. x \in Before(y) /\ x \notin Before(x)
    BY <1>3 DEF Orders
  <2>3. Before(x) # Before(y)
    BY <2>2
  <2>4. IsFiniteSet(Before(y)) /\ Cardinality(Before(y)) \in Nat /\ Cardinality(Before(x)) \in Nat
    BY <1>2
  <2> HIDE DEF Before
  <2> QED
    BY <2>1, <2>3, <2>4, FS_Subset
<1>4. place \in [S -> 1..n]
  <2>1. ASSUME NEW x \in S PROVE Cardinality(Before(x)) + 1 \in 1..n
    <3>1. Cardinality(Before(x)) \in Nat /\ Cardinality(Before(x)) < n
      BY <1>2
    <3> HIDE DEF n, Before
    <3> QED
      BY <1>1, <3>1
  <2> HIDE DEF n, Before
  <2> QED
    BY <2>1
<1>5. ASSUME NEW x \in S, NEW y \in S, <<x, y>> \in R PROVE place[x] < place[y]
  <2>1. Cardinality(Before(x)) < Cardinality(Before(y))
    BY <1>3, <1>5
  <2>2. Cardinality(Before(x)) \in Nat /\ Cardinality(Before(y)) \in Nat
    BY <1>2
  <2>3. place[x] = Cardinality(Before(x)) + 1 /\ place[y] = Cardinality(Before(y)) + 1
    OBVIOUS
  <2> HIDE DEF Before, place
  <2> QED
    BY <2>1, <2>2, <2>3
<1> HIDE DEF place, n, Before
<1>6. \A x, y \in S : place[x] = place[y] => x = y
  <2> SUFFICES ASSUME NEW x \in S, NEW y \in S, place[x] = place[y], x # y PROVE FALSE
    OBVIOUS
  <2>1. <<x, y>> \in R \/ <<y, x>> \in R
    BY DEF Orders
  <2>2. place[x] \in Int /\ place[y] \in Int
    BY <1>4
  <2> QED
    BY <1>5, <2>1, <2>2
<1>7. \A i \in 1..n : \E x \in S : place[x] = i
  <2>1. place \in Injection(S, 1..n)
    BY <1>4, <1>6 DEF Injection, IsInjective
  <2>2. Cardinality(S) = Cardinality(1..n)
    BY <1>1 DEF n
  <2>3. place \in Surjection(S, 1..n)
    BY <1>1, <2>1, <2>2, FS_Injection
  <2> QED
    BY <2>3 DEF Surjection
<1> DEFINE q == [i \in 1..n |-> CHOOSE x \in S : place[x] = i]
<1>8. \A i \in 1..n : q[i] \in S /\ place[q[i]] = i
  BY <1>7
<1>9. q \in [1..n -> S]
  BY <1>8
<1> HIDE DEF q
<1>10. \A i, j \in 1..n : i < j => <<q[i], q[j]>> \in R
  <2> SUFFICES ASSUME NEW i \in 1..n, NEW j \in 1..n, i < j PROVE <<q[i], q[j]>> \in R
    OBVIOUS
  <2>1. q[i] # q[j]
    BY <1>8
  <2>2. ~ (<<q[j], q[i]>> \in R)
    <3>1. ~ (place[q[j]] < place[q[i]])
      BY <1>8
    <3> QED
      BY <1>5, <1>8, <3>1
  <2> QED
    BY <1>8, <2>1, <2>2 DEF Orders
<1> QED
  BY <1>9, <1>10 DEF Ordered, n

\* A set in an order is complete.
LEMMA OrderIsOnto ==
    ASSUME NEW S, IsFiniteSet(S), NEW R, Orders(R, S), NEW q, Ordered(q, R, S)
    PROVE  /\ \A x \in S : \E i \in 1..Cardinality(S) : q[i] = x
           /\ \A i, j \in 1..Cardinality(S) : q[i] = q[j] => i = j
<1>1. PICK n \in Nat : n = Cardinality(S)
  BY FS_CardinalityType
<1>2. q \in [1..n -> S] /\ \A i, j \in 1..n : i < j => <<q[i], q[j]>> \in R
  BY <1>1 DEF Ordered
<1>3. \A i, j \in 1..n : q[i] = q[j] => i = j
  <2> SUFFICES ASSUME NEW i \in 1..n, NEW j \in 1..n, q[i] = q[j], i < j PROVE FALSE
    OBVIOUS
  <2> QED
    BY <1>2 DEF Orders
<1>4. q \in Injection(1..n, S)
  BY <1>2, <1>3 DEF Injection, IsInjective
<1>5. Cardinality(1..n) = n
  BY FS_Interval
<1>6. q \in Surjection(1..n, S)
  BY <1>1, <1>4, <1>5, FS_Injection
<1> QED
  BY <1>1, <1>3, <1>6 DEF Surjection

-----------------------------------------------------------------------------
(* Candidates (services/candidates.py, services/match.py).                 *)

\* What the tables hold does not change while a request is answered.
Tables ==
    /\ people \in [People -> Profiles]
    /\ job \in [posting : Postings, public : BOOLEAN]
    /\ limit \in Limits

LEMMA TablesStand == RankSpec => []Tables
<1>1. RankInit => Tables
  BY DEF RankInit, Tables
<1>2. Tables /\ [RankNext]_rankVars => Tables'
  BY DEF Tables, RankNext, rankVars, Forbid, NotFound, NotYours, Rank, Refuse
<1> QED
  BY <1>1, <1>2, PTL DEF RankSpec

\* What both sides score with is what a score is defined for.
LEMMA CosinesAreTyped ==
    ASSUME Tables, NEW p \in People
    PROVE  /\ LatestEmbedded(p) \in Cosines \cup {NoSimilarity}
           /\ Similarity(LatestEmbedded(p)) \in Cosines \cup {NoSimilarity}
<1>1. people[p].resumes \in Resumes
  BY ProfilesListResumes DEF Tables
<1>2. \A i \in DOMAIN people[p].resumes : people[p].resumes[i].cosine \in Cosines \cup {NoSimilarity}
  <2>1. PICK resumes \in Resumes : resumes = people[p].resumes
    BY <1>1
  <2>2. ASSUME NEW i \in DOMAIN resumes PROVE resumes[i].cosine \in Cosines \cup {NoSimilarity}
    <3>1. PICK Resume : Resume = [status : {"pending", "processing", "complete", "failed"},
                                  cosine : Cosines \cup {NoSimilarity}]
      OBVIOUS
    <3>2. resumes \in Seq(Resume)
      BY <3>1 DEF Resumes
    <3>3. resumes[i] \in Resume
      BY <3>2
    <3> QED
      BY <3>1, <3>3
  <2> QED
    BY <2>1, <2>2
<1>3. EmbeddedOf(p) # {} => Min(EmbeddedOf(p)) \in DOMAIN people[p].resumes
  <2> SUFFICES ASSUME EmbeddedOf(p) # {} PROVE Min(EmbeddedOf(p)) \in EmbeddedOf(p)
    BY DEF EmbeddedOf
  <2>1. EmbeddedOf(p) \subseteq Nat
    BY <1>1 DEF EmbeddedOf, Resumes
  <2>2. \E n \in EmbeddedOf(p) : \A m \in EmbeddedOf(p) : n <= m
    BY <2>1, LeastExists
  <2> QED
    BY <2>2 DEF Min
<1>4. LatestEmbedded(p) \in Cosines \cup {NoSimilarity}
  BY <1>2, <1>3 DEF LatestEmbedded
<1> QED
  BY <1>4 DEF Similarity

\* Each missing skill that is learnt moves the number, whatever the vectors say
\* (services/matching.py:78).
THEOREM LearningAlwaysPays ==
    RankSpec => []LearningPays
<1>1. Tables => LearningPays
  <2> SUFFICES ASSUME Tables, NEW p \in People,
                      NEW s \in DOMAIN job.posting.required \ Held(p)
               PROVE  ScoreWith(p, s) > OwnMatch(p).score
    BY DEF LearningPays
  <2>1. Weighted(job.posting.required)
    BY PostingsAreWeighted DEF Tables
  <2>2. Similarity(LatestEmbedded(p)) \in Cosines \cup {NoSimilarity}
    BY CosinesAreTyped
  <2>3. OwnMatch(p).score = Score(Held(p), job.posting.required, Similarity(LatestEmbedded(p)))
    BY DEF OwnMatch, ScoreMatch
  <2> QED
    BY <2>1, <2>2, <2>3, SkillPays DEF ScoreWith
<1> QED
  BY <1>1, TablesStand, PTL

-----------------------------------------------------------------------------
(* The vector of a candidate.                                              *)

\* The vector seen after row i, and after each of the first n.
Step(u, resumes, i) ==
    IF i = 0 THEN NoSimilarity
    ELSE IF u[i - 1] = NoSimilarity /\ Embedded(resumes[i]) THEN resumes[i].cosine ELSE u[i - 1]

Seen(u, resumes, n) == u = [i \in 0..n |-> Step(u, resumes, i)]

LEMMA SeenExists ==
    ASSUME NEW resumes, NEW n \in Nat
    PROVE  \E u : Seen(u, resumes, n)
<1> DEFINE open == {k \in 0..n : ~ \E u : Seen(u, resumes, k)}
<1>1. SUFFICES ASSUME open # {} PROVE FALSE
  <2>1. n \in 0..n
    OBVIOUS
  <2> QED
    BY <2>1
<1>2. open \subseteq Nat
  OBVIOUS
<1>3. PICK k \in open : \A j \in open : k <= j
  BY <1>1, <1>2, LeastExists
<1>4. k \in 0..n /\ ~ \E u : Seen(u, resumes, k)
  OBVIOUS
<1>5. CASE k = 0
  <2> DEFINE u == [i \in 0..0 |-> NoSimilarity]
  <2>1. Seen(u, resumes, 0)
    BY DEF Seen, Step
  <2> QED
    BY <1>4, <1>5, <2>1
<1>6. CASE k # 0
  <2>1. k - 1 \in 0..n /\ ~ (k <= k - 1)
    BY <1>4, <1>6
  <2>2. PICK u : Seen(u, resumes, k - 1)
    BY <1>3, <2>1
  <2> DEFINE v == [i \in 0..k |-> IF i = k THEN Step(u, resumes, k) ELSE u[i]]
  <2>3. \A i \in 0..(k - 1) : v[i] = u[i] /\ u[i] = Step(u, resumes, i)
    BY <1>4, <2>2 DEF Seen
  <2>4. ASSUME NEW i \in 0..k PROVE v[i] = Step(v, resumes, i)
    <3>1. v[k] = Step(u, resumes, k)
      BY <1>4
    <3>2. i # 0 => i - 1 \in 0..(k - 1)
      BY <1>4
    <3>3. i # k => i \in 0..(k - 1)
      BY <1>4
    <3> HIDE DEF v
    <3>4. Step(v, resumes, i) = Step(u, resumes, i)
      BY <2>3, <3>2 DEF Step
    <3> QED
      BY <2>3, <3>1, <3>3, <3>4
  <2>5. v = [i \in 0..k |-> v[i]]
    OBVIOUS
  <2> HIDE DEF v
  <2>6. Seen(v, resumes, k)
    BY <2>4, <2>5 DEF Seen
  <2> QED
    BY <1>4, <2>6
<1> QED
  BY <1>5, <1>6

\* Nothing is seen before the first resume with a vector, and then that one.
LEMMA FirstIsSeen ==
    ASSUME NEW resumes, NEW n \in Nat, NEW u, Seen(u, resumes, n), NEW k \in 0..n,
           \A j \in 1..k : ~Embedded(resumes[j])
    PROVE  /\ u[k] = NoSimilarity
           /\ \A i \in (k + 1)..n : Embedded(resumes[k + 1]) => u[i] = resumes[k + 1].cosine
<1>1. \A i \in 0..n : u[i] = Step(u, resumes, i)
  BY DEF Seen
<1>2. \A i \in 0..k : u[i] = NoSimilarity
  <2> DEFINE wrong == {i \in 0..k : u[i] # NoSimilarity}
  <2>1. SUFFICES ASSUME wrong # {} PROVE FALSE
    OBVIOUS
  <2>2. wrong \subseteq Nat
    OBVIOUS
  <2>3. PICK i \in wrong : \A j \in wrong : i <= j
    BY <2>1, <2>2, LeastExists
  <2>4. i \in 0..k /\ i \in 0..n /\ u[i] # NoSimilarity
    OBVIOUS
  <2>5. i # 0
    BY <1>1, <2>4 DEF Step
  <2>6. i - 1 \in 0..k /\ ~ (i <= i - 1) /\ i \in 1..k
    BY <2>4, <2>5
  <2>7. u[i - 1] = NoSimilarity
    BY <2>3, <2>6
  <2> QED
    BY <1>1, <2>4, <2>5, <2>6, <2>7 DEF Step
<1>3. ASSUME Embedded(resumes[k + 1])
      PROVE  \A i \in (k + 1)..n : u[i] = resumes[k + 1].cosine
  <2> DEFINE wrong == {i \in (k + 1)..n : u[i] # resumes[k + 1].cosine}
  <2>1. SUFFICES ASSUME wrong # {} PROVE FALSE
    OBVIOUS
  <2>2. wrong \subseteq Nat
    OBVIOUS
  <2>3. PICK i \in wrong : \A j \in wrong : i <= j
    BY <2>1, <2>2, LeastExists
  <2>4. i \in (k + 1)..n /\ i \in 0..n /\ i # 0 /\ u[i] # resumes[k + 1].cosine
    OBVIOUS
  <2>5. u[i] = IF u[i - 1] = NoSimilarity /\ Embedded(resumes[i]) THEN resumes[i].cosine ELSE u[i - 1]
    BY <1>1, <2>4 DEF Step
  <2>6. CASE i = k + 1
    <3>1. u[i - 1] = NoSimilarity
      BY <1>2, <2>6
    <3> QED
      BY <1>3, <2>4, <2>5, <2>6, <3>1
  <2>7. CASE i # k + 1
    <3>1. i - 1 \in (k + 1)..n /\ ~ (i <= i - 1)
      BY <2>4, <2>7
    <3>2. u[i - 1] = resumes[k + 1].cosine
      BY <2>3, <3>1
    <3>3. resumes[k + 1].cosine # NoSimilarity
      BY <1>3 DEF Embedded
    <3> QED
      BY <2>4, <2>5, <3>2, <3>3
  <2> QED
    BY <2>6, <2>7
<1>4. k \in 0..k
  OBVIOUS
<1> QED
  BY <1>2, <1>3, <1>4

\* Both sides compare the same resume with the job, although one asks the database for the
\* newest and the other keeps the first of the rows it gets.
LEMMA CosineIsLatest ==
    ASSUME Tables, NEW p \in People
    PROVE  ProfileCosine(p) = LatestEmbedded(p)
<1>1. PICK resumes \in Resumes : resumes = people[p].resumes
  BY ProfilesListResumes DEF Tables
<1>2. PICK n \in Nat : n = Len(resumes) /\ DOMAIN resumes = 1..n
  BY DEF Resumes
<1>3. PICK u : Seen(u, resumes, n) /\ ProfileCosine(p) = u[n]
  <2> DEFINE u == CHOOSE seen : seen = [i \in 0..Len(people[p].resumes) |->
                    IF i = 0 THEN NoSimilarity
                    ELSE IF seen[i - 1] = NoSimilarity /\ Embedded(people[p].resumes[i])
                         THEN people[p].resumes[i].cosine
                    ELSE seen[i - 1]]
  <2>1. ProfileCosine(p) = u[Len(people[p].resumes)]
    BY DEF ProfileCosine
  <2>2. u = CHOOSE seen : Seen(seen, resumes, n)
    BY <1>1, <1>2 DEF Seen, Step
  <2> HIDE DEF u
  <2>3. Seen(u, resumes, n)
    BY <2>2, SeenExists
  <2> QED
    BY <1>1, <1>2, <2>1, <2>3
<1>4. EmbeddedOf(p) = {i \in 1..n : Embedded(resumes[i])}
  BY <1>1, <1>2 DEF EmbeddedOf
<1>5. CASE EmbeddedOf(p) = {}
  <2>1. \A j \in 1..n : ~Embedded(resumes[j])
    BY <1>4, <1>5
  <2>2. u[n] = NoSimilarity
    BY <1>3, <2>1, FirstIsSeen
  <2> QED
    BY <1>3, <1>5, <2>2 DEF LatestEmbedded
<1>6. CASE EmbeddedOf(p) # {}
  <2>1. EmbeddedOf(p) \subseteq Nat
    BY <1>4
  <2>2. \E m \in EmbeddedOf(p) : \A i \in EmbeddedOf(p) : m <= i
    BY <1>6, <2>1, LeastExists
  <2>3. PICK m \in EmbeddedOf(p) : m = Min(EmbeddedOf(p)) /\ \A i \in EmbeddedOf(p) : m <= i
    BY <2>2 DEF Min
  <2>4. PICK k : k = m - 1
    OBVIOUS
  <2>5. k \in 0..n /\ k + 1 = m /\ n \in (k + 1)..n /\ Embedded(resumes[k + 1])
    BY <1>4, <2>3, <2>4
  <2>6. \A j \in 1..k : ~Embedded(resumes[j])
    <3> SUFFICES ASSUME NEW j \in 1..k, Embedded(resumes[j]) PROVE FALSE
      OBVIOUS
    <3>1. j \in EmbeddedOf(p) /\ ~ (m <= j)
      BY <1>4, <2>5
    <3> QED
      BY <2>3, <3>1
  <2>7. u[n] = resumes[k + 1].cosine
    BY <1>3, <2>5, <2>6, FirstIsSeen
  <2>8. LatestEmbedded(p) = resumes[m].cosine
    BY <1>1, <1>6, <2>3 DEF LatestEmbedded
  <2> QED
    BY <1>3, <2>5, <2>7, <2>8
<1> QED
  BY <1>5, <1>6

\* What the recruiter's side computes of a candidate is her own match.
LEMMA CandidateIsOwnMatch ==
    ASSUME Tables, NEW p \in People
    PROVE  Candidate(p).user = p /\ Candidate(p).result = OwnMatch(p)
BY CosineIsLatest DEF Candidate, OwnMatch

-----------------------------------------------------------------------------
(* The ranking.                                                            *)

\* Of some people the newest are those with fewer than `limit` newer ones.
LEMMA NewestAreFirst ==
    ASSUME NEW S, S \subseteq People, limit \in Nat
    PROVE  Newest(S) = {p \in S : Cardinality({x \in S : x > p}) < limit}
<1>1. IsFiniteSet(S) /\ S \subseteq Nat
  BY PeopleAreNumbered, FS_Subset
<1>2. PICK R : \A x, y \in S : <<x, y>> \in R <=> x > y
  <2>1. \A x, y \in S : <<x, y>> \in {e \in S \X S : e[1] > e[2]} <=> x > y
    OBVIOUS
  <2> QED
    BY <2>1
<1>3. Orders(R, S)
  BY <1>1, <1>2 DEF Orders
<1>4. PICK q : q = ByNewest(S)
  OBVIOUS
<1>5. Ordered(q, R, S)
  <2>1. PICK s : Ordered(s, R, S)
    BY <1>1, <1>3, OrderExists
  <2>2. s \in [1..Cardinality(S) -> S]
        /\ \A i, j \in 1..Cardinality(S) : i < j => s[i] > s[j]
    BY <1>2, <2>1 DEF Ordered
  <2>3. q = CHOOSE q0 \in [1..Cardinality(S) -> S] :
               \A i, j \in 1..Cardinality(S) : i < j => q0[i] > q0[j]
    BY <1>4 DEF ByNewest
  <2>4. q \in [1..Cardinality(S) -> S]
        /\ \A i, j \in 1..Cardinality(S) : i < j => q[i] > q[j]
    BY <2>2, <2>3
  <2> QED
    BY <1>2, <2>4 DEF Ordered
<1>6. PICK n \in Nat : n = Cardinality(S)
  BY <1>1, FS_CardinalityType
<1>7. /\ q \in [1..n -> S]
      /\ \A i, j \in 1..n : i < j => q[i] > q[j]
      /\ \A x \in S : \E i \in 1..n : q[i] = x
      /\ \A i, j \in 1..n : q[i] = q[j] => i = j
  <2>1. /\ \A x \in S : \E i \in 1..n : q[i] = x
        /\ \A i, j \in 1..n : q[i] = q[j] => i = j
    BY <1>1, <1>3, <1>5, <1>6, OrderIsOnto
  <2>2. q \in [1..n -> S] /\ \A i, j \in 1..n : i < j => <<q[i], q[j]>> \in R
    BY <1>5, <1>6 DEF Ordered
  <2> QED
    BY <1>2, <2>1, <2>2
<1>8. ASSUME NEW i \in 1..n PROVE Cardinality({x \in S : x > q[i]}) = i - 1
  <2> DEFINE f == [j \in 1..(i - 1) |-> q[j]]
             T == {x \in S : x > q[i]}
  <2>1. \A j \in 1..(i - 1) : j \in 1..n /\ j < i
    OBVIOUS
  <2>2. f \in [1..(i - 1) -> T]
    BY <1>7, <2>1
  <2>3. \A j, k \in 1..(i - 1) : f[j] = f[k] => j = k
    BY <1>7, <2>1
  <2>4. \A x \in T : \E j \in 1..(i - 1) : f[j] = x
    <3> SUFFICES ASSUME NEW x \in S, x > q[i] PROVE \E j \in 1..(i - 1) : q[j] = x
      OBVIOUS
    <3>1. PICK j \in 1..n : q[j] = x
      BY <1>7
    <3>2. q[i] \in Nat /\ x \in Nat
      BY <1>1, <1>7
    <3>3. j < i
      BY <1>7, <3>1, <3>2
    <3> QED
      BY <3>1, <3>3
  <2> HIDE DEF f, T
  <2>5. f \in Bijection(1..(i - 1), T)
    BY <2>2, <2>3, <2>4 DEF Bijection, Injection, Surjection, IsInjective
  <2>6. IsFiniteSet(1..(i - 1)) /\ Cardinality(1..(i - 1)) = i - 1
    BY FS_Interval
  <2>7. Cardinality(T) = i - 1
    BY <2>5, <2>6, FS_Bijection DEF ExistsBijection
  <2> QED
    BY <2>7 DEF T
<1>9. Newest(S) = {q[i] : i \in {k \in 1..n : k <= limit}}
  BY <1>4, <1>6 DEF Newest
<1>10. ASSUME NEW p \in S
       PROVE  p \in Newest(S) <=> Cardinality({x \in S : x > p}) < limit
  <2>1. PICK i \in 1..n : q[i] = p
    BY <1>7
  <2>2. p \in Newest(S) <=> i <= limit
    BY <1>7, <1>9, <2>1
  <2> QED
    BY <1>8, <2>1, <2>2
<1>11. Newest(S) \subseteq S
  BY <1>7, <1>9
<1> QED
  BY <1>10, <1>11

Seekers == {p \in People : people[p].role = "job_seeker" /\ people[p].active}

LEMMA PoolIs ==
    ASSUME Tables
    PROVE  Pool = {p \in Seekers : Cardinality({x \in Seekers : x > p}) < limit}
<1>1. limit \in Nat
  BY LimitsArePositive DEF Tables
<1> QED
  BY <1>1, NewestAreFirst DEF Pool, Seekers

\* The rows of the ranking are in an order: nobody has two, and the users are numbered.
LEMMA RankedIsOrdered ==
    ASSUME Tables
    PROVE  /\ Ranked \in [1..Cardinality(Scored) -> Scored]
           /\ \A c \in Scored : \E i \in 1..Cardinality(Scored) : Ranked[i] = c
<1>1. Pool \subseteq People
  BY PoolIs DEF Seekers
<1>2. \A c \in Scored : c.user \in People /\ c = Candidate(c.user)
  BY <1>1, CandidateIsOwnMatch DEF Scored, Loaded
<1>3. IsFiniteSet(Scored)
  <2> DEFINE who == [c \in Scored |-> c.user]
  <2>1. who \in Injection(Scored, People)
    BY <1>2 DEF Injection, IsInjective
  <2> QED
    BY <2>1, PeopleAreNumbered, FS_Injection
<1>4. \A c \in Scored : c.user \in Nat /\ c.result.score \in Nat
  <2> SUFFICES ASSUME NEW c \in Scored PROVE c.user \in Nat /\ c.result.score \in Nat
    OBVIOUS
  <2>1. c.user \in People /\ c.user \in Nat /\ c.result = OwnMatch(c.user)
    BY <1>2, CandidateIsOwnMatch, PeopleAreNumbered
  <2>2. OwnMatch(c.user).score
          = Score(Held(c.user), job.posting.required, Similarity(LatestEmbedded(c.user)))
    BY DEF OwnMatch, ScoreMatch
  <2>3. Weighted(job.posting.required)
    BY PostingsAreWeighted DEF Tables
  <2>4. Similarity(LatestEmbedded(c.user)) \in Cosines \cup {NoSimilarity}
    BY <2>1, CosinesAreTyped
  <2> QED
    BY <2>1, <2>2, <2>3, <2>4, ScoreIsANumber
<1>5. PICK R : \A c, d \in Scored : <<c, d>> \in R <=> Better(c, d)
  <2>1. \A c, d \in Scored : <<c, d>> \in {e \in Scored \X Scored : Better(e[1], e[2])} <=> Better(c, d)
    OBVIOUS
  <2> QED
    BY <2>1
<1>6. Orders(R, Scored)
  <2>1. \A c \in Scored : <<c, c>> \notin R
    BY <1>4, <1>5 DEF Better
  <2>2. \A c, d \in Scored : c # d => <<c, d>> \in R \/ <<d, c>> \in R
    <3> SUFFICES ASSUME NEW c \in Scored, NEW d \in Scored, c # d PROVE Better(c, d) \/ Better(d, c)
      BY <1>5
    <3>1. c.user # d.user
      BY <1>2
    <3> QED
      BY <1>4, <3>1 DEF Better
  <2>3. \A c, d, e \in Scored : <<c, d>> \in R /\ <<d, e>> \in R => <<c, e>> \in R
    <3> SUFFICES ASSUME NEW c \in Scored, NEW d \in Scored, NEW e \in Scored, Better(c, d), Better(d, e)
                 PROVE Better(c, e)
      BY <1>5
    <3> QED
      BY <1>4 DEF Better
  <2> QED
    BY <2>1, <2>2, <2>3 DEF Orders
<1>7. PICK q : Ordered(q, R, Scored)
  BY <1>3, <1>6, OrderExists
<1>8. q \in [1..Cardinality(Scored) -> Scored]
      /\ \A i, j \in 1..Cardinality(Scored) : i < j => Better(q[i], q[j])
  BY <1>5, <1>7 DEF Ordered
<1>9. Ranked = CHOOSE q0 \in [1..Cardinality(Scored) -> Scored] :
                 \A i, j \in 1..Cardinality(Scored) : i < j => Better(q0[i], q0[j])
  BY DEF Ranked
<1>10. Ranked \in [1..Cardinality(Scored) -> Scored]
       /\ \A i, j \in 1..Cardinality(Scored) : i < j => Better(Ranked[i], Ranked[j])
  BY <1>8, <1>9
<1>11. Ordered(Ranked, R, Scored)
  BY <1>5, <1>10 DEF Ordered
<1>12. \A c \in Scored : \E i \in 1..Cardinality(Scored) : Ranked[i] = c
  BY <1>3, <1>6, <1>11, OrderIsOnto
<1> QED
  BY <1>10, <1>12

\* Nothing is answered but the ranking, and only to whoever may have it.
RankInv ==
    \/ phase = "ranked" /\ ranking = Ranked
    \/ phase # "ranked" /\ ranking = <<>>

LEMMA RankingStands == RankSpec => []RankInv
<1>1. RankInit => RankInv
  BY DEF RankInit, RankInv
<1>2. RankInv /\ [RankNext]_rankVars => RankInv'
  <2> SUFFICES ASSUME RankInv, [RankNext]_rankVars PROVE RankInv'
    OBVIOUS
  <2>1. UNCHANGED <<people, job, asker, limit>>
    BY DEF RankNext, rankVars, Forbid, NotFound, NotYours, Rank, Refuse
  <2>2. Ranked' = Ranked
    <3>1. Pool' = Pool
      BY <2>1 DEF Pool, Newest, ByNewest
    <3>2. \A p : Candidate(p)' = Candidate(p) /\ Held(p)' = Held(p)
      BY <2>1 DEF Candidate, Held, ProfileCosine, Similarity, Embedded
    <3>3. Scored' = Scored
      BY <3>1, <3>2 DEF Scored, Loaded
    <3> QED
      BY <3>3 DEF Ranked, Better
  <2>3. CASE Rank
    BY <2>2, <2>3 DEF Rank, RankInv
  <2>4. CASE Forbid \/ NotFound \/ NotYours
    BY <2>4 DEF Forbid, NotFound, NotYours, Refuse, RankInv
  <2>5. CASE UNCHANGED rankVars
    BY <2>2, <2>5 DEF RankInv, rankVars
  <2> QED
    BY <2>3, <2>4, <2>5 DEF RankNext
<1> QED
  BY <1>1, <1>2, PTL DEF RankSpec

\* The recruiter's side and the job seeker's own say the same of every candidate listed
\* (services/candidates.py:5, services/match.py:35).
THEOREM BothSidesAgree == RankSpec => []TwoSidesAgree
<1>1. Tables /\ RankInv => TwoSidesAgree
  <2> SUFFICES ASSUME Tables, RankInv, NEW i \in DOMAIN ranking
               PROVE  ranking[i].result = OwnMatch(ranking[i].user)
    BY DEF TwoSidesAgree
  <2>1. ranking = Ranked
    BY DEF RankInv
  <2>2. ranking[i] \in Scored
    BY <2>1, RankedIsOrdered
  <2>3. PICK p \in Pool : ranking[i] = Candidate(p)
    BY <2>2 DEF Scored, Loaded
  <2>4. p \in People
    BY PoolIs DEF Seekers
  <2> QED
    BY <2>3, <2>4, CandidateIsOwnMatch
<1> QED
  BY <1>1, TablesStand, RankingStands, PTL

\* Whoever fits is listed, if few enough other job seekers are newer, and nobody else is
\* (repositories/candidate.py:39).
THEOREM TheFittingAreListed == RankSpec => []FittingAreListed
<1>1. Tables /\ RankInv => FittingAreListed
  <2> SUFFICES ASSUME Tables, RankInv, phase = "ranked"
               PROVE  Listed = {p \in People :
                        /\ people[p].role = "job_seeker" /\ people[p].active
                        /\ Held(p) # {}
                        /\ OwnMatch(p).score > 0
                        /\ Cardinality({q \in People : q > p /\ people[q].active
                                                       /\ people[q].role = "job_seeker"}) < limit}
    BY DEF FittingAreListed
  <2>1. ranking = Ranked
    BY DEF RankInv
  <2>2. Listed = {c.user : c \in Scored}
    BY <2>1, RankedIsOrdered DEF Listed
  <2>3. Scored = {c \in {Candidate(p) : p \in {p \in Pool : Held(p) # {}}} : c.result.score > 0}
    BY DEF Scored, Loaded
  <2>4. \A p \in Pool : p \in People
    BY PoolIs DEF Seekers
  <2>5. Listed = {p \in Pool : Held(p) # {} /\ OwnMatch(p).score > 0}
    BY <2>2, <2>3, <2>4, CandidateIsOwnMatch
  <2>6. \A p \in People : {q \in People : q > p /\ people[q].active /\ people[q].role = "job_seeker"}
                          = {x \in Seekers : x > p}
    BY DEF Seekers
  <2> QED
    BY <2>5, <2>6, PoolIs DEF Seekers
<1> QED
  BY <1>1, TablesStand, RankingStands, PTL
=============================================================================
