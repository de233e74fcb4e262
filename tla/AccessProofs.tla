---------------------------- MODULE AccessProofs ----------------------------
(***************************************************************************)
(* What Access and its limiter promise, for any number of calls in flight, *)
(* any limit, any window and any set of routes served.                     *)
(***************************************************************************)
EXTENDS Access, TLAPS

\* Hits that may still send an EXPIRE, and the ticks they have been at it.
Pending(d) == hit[d].stage \in {"expire", "repair"}
Age(d) == IF hit[d].late THEN 1 ELSE 0

LimiterTypes ==
    /\ counter \in Nat
    /\ expiry \in {Never} \cup 1..Window
    /\ hit \in [Calls -> Hits]
    /\ waiting \in [Calls -> Int]

\* The clock a refused client was told of runs no faster than the key's.  An EXPIRE that is
\* still on its way can set the key back to a whole window, but it belongs to a hit that has
\* found no expiry, and so is at most its own age behind one.
LimiterInv ==
    /\ LimiterTypes
    /\ counter = 0 => expiry = Never
    /\ \A d \in Calls : Pending(d) /\ expiry > 0 => expiry >= Window - Age(d)
    /\ \A c \in Calls : waiting[c] # Never =>
          /\ expiry > 0
          /\ waiting[c] >= expiry
          /\ \A d \in Calls : Pending(d) => waiting[c] >= Window + 1 - Age(d)

LEMMA MaxOfTwo ==
    ASSUME NEW n \in Int
    PROVE  Max({1, n}) = IF n > 1 THEN n ELSE 1
<1>1. \E x \in {1, n} : \A y \in {1, n} : x >= y
  OBVIOUS
<1>2. Max({1, n}) \in {1, n} /\ \A y \in {1, n} : Max({1, n}) >= y
  BY <1>1 DEF Max
<1> QED
  BY <1>2

-----------------------------------------------------------------------------
(* The steps of the limiter.                                               *)

LEMMA LimiterStarts == LimiterInit => LimiterInv
BY LimitsArePositive DEF LimiterInit, LimiterInv, LimiterTypes, Hits, Outside, Never, Pending

LEMMA LimiterRests == LimiterInv /\ UNCHANGED limiterVars => LimiterInv'
BY DEF limiterVars, LimiterInv, LimiterTypes, Pending, Age

\* A hit that moves to a stage from which it sends no EXPIRE.
LEMMA SettlesKeeps ==
    ASSUME LimiterInv, NEW c \in Calls, NEW stage \in {"outside", "incr", "ttl", "allowed", "refused"},
           hit' = [hit EXCEPT ![c].stage = stage] \/ hit' = [hit EXCEPT ![c] = Outside]
    PROVE  /\ hit' \in [Calls -> Hits]
           /\ \A d \in Calls : Pending(d)' => Pending(d) /\ Age(d)' = Age(d)
<1>1. hit[c] \in Hits /\ [hit[c] EXCEPT !.stage = stage] \in Hits /\ Outside \in Hits
  BY DEF LimiterInv, LimiterTypes, Hits, Outside
<1>2. hit' \in [Calls -> Hits]
  BY <1>1 DEF LimiterInv, LimiterTypes
<1>3. hit'[c].stage \in {"outside", "incr", "ttl", "allowed", "refused"}
  BY <1>1 DEF LimiterInv, LimiterTypes, Hits, Outside
<1>4. \A d \in Calls \ {c} : hit'[d] = hit[d]
  BY DEF LimiterInv, LimiterTypes
<1> QED
  BY <1>2, <1>3, <1>4 DEF Pending, Age

LEMMA QuietKeeps ==
    ASSUME LimiterInv, NEW c \in Calls, Hit(c) \/ Leave(c)
    PROVE  LimiterInv'
<1>1. /\ UNCHANGED <<counter, expiry, waiting>>
      /\ \/ hit' = [hit EXCEPT ![c].stage = "incr"]
         \/ hit' = [hit EXCEPT ![c] = Outside]
  BY DEF Hit, Leave, Goto
<1>2. /\ hit' \in [Calls -> Hits]
      /\ \A d \in Calls : Pending(d)' => Pending(d) /\ Age(d)' = Age(d)
  BY <1>1, SettlesKeeps
<1> QED
  BY <1>1, <1>2 DEF LimiterInv, LimiterTypes

\* The key is new: nothing waits for it.
LEMMA IncrKeeps ==
    ASSUME LimiterInv, NEW c \in Calls, Incr(c)
    PROVE  LimiterInv'
<1>1. counter' \in Nat /\ counter' # 0 /\ UNCHANGED <<expiry, waiting>>
  BY LimitsArePositive DEF Incr, INCR, LimiterInv, LimiterTypes
<1>2. CASE counter = 0
  <2>1. hit' = [hit EXCEPT ![c].stage = "expire"]
    BY <1>2 DEF Incr, Goto
  <2>2. hit' \in [Calls -> Hits]
    BY <2>1 DEF LimiterInv, LimiterTypes, Hits
  <2>3. expiry = Never /\ \A d \in Calls : waiting[d] = Never
    BY <1>2 DEF LimiterInv, Never
  <2> QED
    BY <1>1, <2>2, <2>3 DEF LimiterInv, LimiterTypes, Never
<1>3. CASE counter # 0
  <2>1. hit' = [hit EXCEPT ![c].stage = "allowed"] \/ hit' = [hit EXCEPT ![c].stage = "ttl"]
    <3>1. counter + 1 # 1
      BY <1>3 DEF LimiterInv, LimiterTypes
    <3>2. CASE Admits(counter + 1)
      BY <3>1, <3>2 DEF Incr, Goto
    <3>3. CASE ~Admits(counter + 1)
      BY <3>1, <3>3 DEF Incr, Goto
    <3> QED
      BY <3>2, <3>3
  <2>2. /\ hit' \in [Calls -> Hits]
        /\ \A d \in Calls : Pending(d)' => Pending(d) /\ Age(d)' = Age(d)
    BY <2>1, SettlesKeeps
  <2> QED
    BY <1>1, <1>3, <2>2 DEF LimiterInv, LimiterTypes
<1> QED
  BY <1>2, <1>3

\* An EXPIRE that is sent, whoever waits for the reply.
LEMMA ExpireSent ==
    ASSUME LimiterInv, NEW c \in Calls, Pending(c), EXPIRE
    PROVE  /\ expiry' \in {Never} \cup 1..Window
           /\ counter' = counter /\ (counter = 0 => expiry' = Never)
           /\ \A d \in Calls : expiry' > 0 /\ Pending(d) => expiry' >= Window - Age(d)
           /\ \A d \in Calls : waiting[d] # Never => expiry' > 0 /\ waiting[d] >= expiry'
           /\ expiry' > 0 => expiry' = Window
<1>1. Window \in Nat \ {0} /\ \A d \in Calls : Age(d) \in {0, 1}
  BY LimitsArePositive DEF Age
<1>2. CASE counter = 0
  BY <1>2 DEF EXPIRE, LimiterInv, LimiterTypes, Never
<1>3. CASE counter # 0
  <2>1. expiry' = Window /\ counter' = counter
    BY <1>3 DEF EXPIRE
  <2>2. \A d \in Calls : waiting[d] # Never => waiting[d] >= Window + 1 - Age(c)
    BY DEF LimiterInv
  <2> QED
    BY <1>1, <1>3, <2>1, <2>2 DEF LimiterInv, LimiterTypes
<1> QED
  BY <1>2, <1>3

LEMMA ExpireKeeps ==
    ASSUME LimiterInv, NEW c \in Calls, Pending(c), EXPIRE, hit' = [hit EXCEPT ![c].stage = "allowed"],
           UNCHANGED waiting
    PROVE  LimiterInv'
<1>1. /\ hit' \in [Calls -> Hits]
      /\ \A d \in Calls : Pending(d)' => Pending(d) /\ Age(d)' = Age(d)
  BY SettlesKeeps
<1> QED
  BY <1>1, ExpireSent DEF LimiterInv, LimiterTypes

\* Retry-After is at least what the key has left, and a pending EXPIRE is accounted for by
\* the tick that was added to it.
LEMMA ToldKeeps ==
    ASSUME LimiterInv, NEW c \in Calls, NEW ticks \in Int, Told(c, ticks),
           hit' = [hit EXCEPT ![c].stage = "refused"],
           expiry' \in {Never} \cup 1..Window, counter' = counter,
           counter = 0 => expiry' = Never,
           counter # 0 => expiry' > 0 /\ ticks = expiry',
           \A d \in Calls : expiry' > 0 /\ Pending(d) => expiry' >= Window - Age(d),
           \A d \in Calls : waiting[d] # Never => expiry' > 0 /\ waiting[d] >= expiry'
    PROVE  LimiterInv'
<1>1. /\ hit' \in [Calls -> Hits]
      /\ \A d \in Calls : Pending(d)' => Pending(d) /\ Age(d)' = Age(d)
  BY SettlesKeeps
<1>2. Window \in Nat \ {0} /\ \A d \in Calls : Age(d) \in {0, 1}
  BY LimitsArePositive DEF Age
<1>3. \A d \in Calls : waiting'[d] = IF d # c THEN waiting[d]
                                     ELSE IF counter = 0 THEN Never ELSE ticks + 1
  BY DEF Told, LimiterInv, LimiterTypes
<1>4. waiting' \in [Calls -> Int]
  BY DEF Told, LimiterInv, LimiterTypes, Never
<1>5. ASSUME NEW d \in Calls, waiting'[d] # Never
      PROVE  /\ expiry' > 0
             /\ waiting'[d] >= expiry'
             /\ \A e \in Calls : Pending(e)' => waiting'[d] >= Window + 1 - Age(e)'
  <2>1. CASE d # c
    BY <1>1, <1>3, <1>5, <2>1 DEF LimiterInv
  <2>2. CASE d = c
    <3>1. counter # 0 /\ waiting'[d] = expiry' + 1 /\ expiry' > 0
      BY <1>3, <1>5, <2>2 DEF Never
    <3> QED
      BY <1>1, <1>2, <3>1
  <2> QED
    BY <2>1, <2>2
<1> QED
  BY <1>1, <1>4, <1>5 DEF LimiterInv, LimiterTypes

LEMMA ReadTtlKeeps ==
    ASSUME LimiterInv, NEW c \in Calls, ReadTtl(c)
    PROVE  LimiterInv'
<1>1. UNCHANGED <<counter, expiry>> /\ counter \in Nat /\ expiry \in {Never} \cup 1..Window
  BY DEF ReadTtl, LimiterInv, LimiterTypes
<1>2. NeedsRepair(TTL) <=> counter = 0 \/ expiry = Never
  BY <1>1, LimitsArePositive DEF NeedsRepair, TTL, Absent, Never
<1>3. CASE NeedsRepair(TTL)
  <2>1. hit' = [hit EXCEPT ![c].stage = "repair"] /\ UNCHANGED waiting
    BY <1>3 DEF ReadTtl, Goto
  <2>2. hit' \in [Calls -> Hits]
    BY <2>1 DEF LimiterInv, LimiterTypes, Hits
  <2>3. expiry = Never /\ \A d \in Calls : waiting[d] = Never
    BY <1>2, <1>3 DEF LimiterInv, Never
  <2> QED
    BY <1>1, <2>1, <2>2, <2>3 DEF LimiterInv, LimiterTypes, Never
<1>4. CASE ~NeedsRepair(TTL)
  <2>1. counter # 0 /\ expiry > 0 /\ TTL = expiry
    BY <1>1, <1>2, <1>4, LimitsArePositive DEF TTL, Never
  <2>2. Max({1, TTL}) = expiry
    BY <1>1, <2>1, MaxOfTwo DEF Never
  <2>3. hit' = [hit EXCEPT ![c].stage = "refused"] /\ Told(c, expiry)
    BY <1>4, <2>2 DEF ReadTtl, Goto
  <2>4. /\ expiry' = expiry /\ counter' = counter /\ expiry \in Int
        /\ \A d \in Calls : expiry > 0 /\ Pending(d) => expiry >= Window - Age(d)
        /\ \A d \in Calls : waiting[d] # Never => expiry > 0 /\ waiting[d] >= expiry
    BY <1>1 DEF LimiterInv, Never
  <2> QED
    BY <1>1, <2>1, <2>3, <2>4, ToldKeeps
<1> QED
  BY <1>3, <1>4

LEMMA RepairKeeps ==
    ASSUME LimiterInv, NEW c \in Calls, Repair(c)
    PROVE  LimiterInv'
<1>1. Pending(c) /\ EXPIRE /\ hit' = [hit EXCEPT ![c].stage = "refused"] /\ Told(c, Window)
  BY DEF Repair, Pending, Goto
<1>2. counter # 0 => expiry' = Window /\ Window > 0
  BY <1>1, LimitsArePositive DEF EXPIRE
<1>3. Window \in Int
  BY LimitsArePositive
<1>4. /\ expiry' \in {Never} \cup 1..Window
      /\ counter' = counter /\ (counter = 0 => expiry' = Never)
      /\ \A d \in Calls : expiry' > 0 /\ Pending(d) => expiry' >= Window - Age(d)
      /\ \A d \in Calls : waiting[d] # Never => expiry' > 0 /\ waiting[d] >= expiry'
  BY <1>1, ExpireSent
<1> QED
  BY <1>1, <1>2, <1>3, <1>4, ToldKeeps

LEMMA GivesUpKeeps ==
    ASSUME LimiterInv, NEW c \in Calls, GivesUp(c)
    PROVE  LimiterInv'
<1>0. hit' = [hit EXCEPT ![c].stage = "allowed"] /\ UNCHANGED waiting
  BY DEF GivesUp, Goto
<1>1. /\ hit' \in [Calls -> Hits]
      /\ \A d \in Calls : Pending(d)' => Pending(d) /\ Age(d)' = Age(d)
  BY <1>0, SettlesKeeps
<1>2. CASE UNCHANGED <<counter, expiry>>
  BY <1>0, <1>1, <1>2 DEF LimiterInv, LimiterTypes
<1>3. CASE INCR
  <2>1. counter' \in Nat /\ counter' # 0 /\ UNCHANGED expiry
    BY <1>3, LimitsArePositive DEF INCR, LimiterInv, LimiterTypes
  <2> QED
    BY <1>0, <1>1, <2>1 DEF LimiterInv, LimiterTypes
<1>4. CASE Pending(c) /\ EXPIRE
  BY <1>0, <1>4, ExpireKeeps
<1> QED
  BY <1>2, <1>3, <1>4 DEF GivesUp, Pending

LEMMA LimiterStepKeeps ==
    ASSUME LimiterInv, NEW c \in Calls, LimiterStep(c)
    PROVE  LimiterInv'
<1>1. CASE Expire(c)
  <2>1. Pending(c) /\ EXPIRE /\ hit' = [hit EXCEPT ![c].stage = "allowed"] /\ UNCHANGED waiting
    BY <1>1 DEF Expire, Pending, Goto
  <2> QED
    BY <2>1, ExpireKeeps
<1> QED
  BY <1>1, IncrKeeps, ReadTtlKeeps, RepairKeeps, GivesUpKeeps DEF LimiterStep

\* All clocks run at one speed, and no hit sees two ticks.
LEMMA TickKeeps ==
    ASSUME LimiterInv, Tick
    PROVE  LimiterInv'
<1>1. Window \in Nat \ {0} /\ \A d \in Calls : hit[d] \in Hits /\ hit[d].late \in BOOLEAN
  BY LimitsArePositive DEF LimiterInv, LimiterTypes, Hits
<1>2. /\ hit' \in [Calls -> Hits]
      /\ \A d \in Calls : hit'[d].stage = hit[d].stage /\ hit'[d].late = InFlight(d)
  <2>1. /\ hit' = [d \in Calls |-> [hit[d] EXCEPT !.late = InFlight(d)]]
        /\ \A d \in Calls : InFlight(d) \in BOOLEAN
    BY DEF Tick, InFlight
  <2>2. \A d \in Calls : [hit[d] EXCEPT !.late = InFlight(d)] \in Hits
    BY <1>1, <2>1 DEF Hits
  <2>3. \A d \in Calls : hit'[d] = [hit[d] EXCEPT !.late = InFlight(d)]
    BY <2>1
  <2>4. \A d \in Calls : hit'[d].stage = hit[d].stage
    BY <1>1, <2>3 DEF Hits
  <2>5. \A d \in Calls : hit'[d].late = InFlight(d)
    BY <1>1, <2>3 DEF Hits
  <2> QED
    BY <2>1, <2>2, <2>4, <2>5
<1>3. \A d \in Calls : Pending(d)' => Pending(d) /\ Age(d) = 0 /\ Age(d)' = 1
  <2> SUFFICES ASSUME NEW d \in Calls, Pending(d)'
               PROVE  Pending(d) /\ Age(d) = 0 /\ Age(d)' = 1
    OBVIOUS
  <2>1. Pending(d) /\ InFlight(d)
    BY <1>2 DEF Pending, InFlight
  <2>2. ~hit[d].late
    BY <2>1 DEF Tick
  <2>3. hit'[d].late
    BY <1>2, <2>1
  <2> QED
    BY <2>1, <2>2, <2>3 DEF Age
<1>4. \A d \in Calls : waiting'[d] = IF expiry = 1 THEN Never ELSE Later(waiting[d])
  BY DEF Tick
<1>5. waiting' \in [Calls -> Int]
  BY DEF Tick, LimiterInv, LimiterTypes, Later, Never
<1>6. CASE expiry = 1
  <2>1. counter' = 0 /\ expiry' = Never
    BY <1>6 DEF Tick
  <2> QED
    BY <1>2, <1>4, <1>5, <1>6, <2>1 DEF LimiterInv, LimiterTypes, Never
<1>7. CASE expiry # 1
  <2>1. counter' = counter /\ expiry' = Later(expiry)
    BY <1>7 DEF Tick
  <2>2. CASE expiry = Never
    <3>1. expiry' = Never /\ \A d \in Calls : waiting[d] = Never
      BY <2>1, <2>2 DEF LimiterInv, Later, Never
    <3>2. \A d \in Calls : waiting'[d] = Never
      BY <1>4, <1>7, <3>1 DEF Later, Never
    <3> QED
      BY <1>2, <1>5, <2>1, <3>1, <3>2 DEF LimiterInv, LimiterTypes, Never
  <2>3. CASE expiry # Never
    <3>1. expiry \in 2..Window /\ expiry' = expiry - 1 /\ expiry' \in 1..Window
      BY <1>1, <1>7, <2>1, <2>3 DEF LimiterInv, LimiterTypes, Later, Never
    <3>2. \A d \in Calls : Pending(d)' => expiry' >= Window - Age(d)'
      BY <1>1, <1>3, <3>1 DEF LimiterInv
    <3>3. ASSUME NEW d \in Calls, waiting'[d] # Never
          PROVE  /\ waiting'[d] >= expiry'
                 /\ \A e \in Calls : Pending(e)' => waiting'[d] >= Window + 1 - Age(e)'
      <4>1. waiting[d] # Never /\ waiting[d] \in Int
        BY <1>4, <1>7, <3>3 DEF Later, Never, LimiterInv, LimiterTypes
      <4>2. waiting[d] >= expiry /\ \A e \in Calls : Pending(e) => waiting[d] >= Window + 1 - Age(e)
        BY <4>1 DEF LimiterInv
      <4>3. waiting'[d] = waiting[d] - 1
        BY <1>4, <1>7, <3>1, <4>1, <4>2 DEF Later
      <4> QED
        BY <1>1, <1>3, <3>1, <4>1, <4>2, <4>3
    <3>4. counter' = 0 => expiry' = Never
      BY <2>1, <2>3 DEF LimiterInv
    <3>5. counter' \in Nat
      BY <2>1 DEF LimiterInv, LimiterTypes
    <3> QED
      BY <1>2, <1>5, <3>1, <3>2, <3>3, <3>4, <3>5 DEF LimiterInv, LimiterTypes
  <2> QED
    BY <2>2, <2>3
<1> QED
  BY <1>6, <1>7

LEMMA LimiterNext == LimiterInv /\ [Next]_vars => LimiterInv'
<1> SUFFICES ASSUME LimiterInv, [Next]_vars
             PROVE  LimiterInv'
  OBVIOUS
<1>1. CASE UNCHANGED limiterVars
  BY <1>1, LimiterRests
<1>2. ASSUME NEW c \in Calls, Hit(c) \/ Leave(c) \/ LimiterStep(c)
      PROVE  LimiterInv'
  BY <1>2, QuietKeeps, LimiterStepKeeps
<1>3. CASE Tick
  BY <1>3, TickKeeps
<1> QED
  BY <1>1, <1>2, <1>3 DEF Next, vars, Arrive, ArriveLimited, Enforce, Authenticate, Handle, Identify, Issue,
     AccountChanges, TokensExpire

\* Whoever is refused can trust Retry-After: for any limit and window, and whatever processes
\* died between their INCR and their EXPIRE, the counter is gone when that time has passed.
THEOREM RetryAfterStands == Spec => []RetryAfterIsKept
<1>1. Init => LimiterInv
  BY LimiterStarts DEF Init
<1>2. LimiterInv => RetryAfterIsKept
  BY DEF LimiterInv, LimiterTypes, RetryAfterIsKept, Never
<1> QED
  BY <1>1, <1>2, LimiterNext, PTL DEF Spec

-----------------------------------------------------------------------------
(* Admissions.                                                             *)

Ages == 0..(Window - 1)

\* How many hits the counter that is there has admitted, at most.
Admitted == IF counter <= Limit THEN counter ELSE Limit

\* At most one counter before this one admitted hits in the last window, because a counter
\* outlives a whole window; and none but this one admitted hits since its EXPIRE.
AdmissionInv ==
    /\ recent \in [Ages -> Nat]
    /\ \A age \in Ages : recent[age] <= Limit + Admitted
    /\ expiry > 0 => \A age \in 0..(Window - expiry - 1) : recent[age] <= Admitted

LEMMA AdmissionStarts == LimiterInit => AdmissionInv
BY LimitsArePositive DEF LimiterInit, AdmissionInv, Ages, Admitted, Never

\* A step that admits nobody, and after which the counter has lost neither hits nor time.
LEMMA NoneAdmitted ==
    ASSUME LimiterInv, AdmissionInv, UNCHANGED recent,
           counter' \in Nat, counter' >= counter,
           expiry' = expiry \/ expiry' = Window
    PROVE  AdmissionInv'
<1>1. Admitted' >= Admitted /\ Admitted \in Nat /\ Admitted' \in Nat
  BY LimitsArePositive DEF Admitted, LimiterInv, LimiterTypes
<1>2. Limit \in Nat /\ Window \in Nat \ {0} /\ expiry \in Int
  BY LimitsArePositive DEF LimiterInv, LimiterTypes, Never
<1>3. \A age \in Ages : recent'[age] <= Limit + Admitted'
  BY <1>1, <1>2 DEF AdmissionInv
<1>4. ASSUME expiry' > 0, NEW age \in 0..(Window - expiry' - 1)
      PROVE  recent'[age] <= Admitted'
  <2>1. expiry' = expiry /\ age \in Ages
    BY <1>2, <1>4 DEF Ages
  <2>2. recent[age] <= Admitted /\ recent[age] \in Nat
    BY <1>4, <2>1 DEF AdmissionInv
  <2> QED
    BY <1>1, <2>2
<1> QED
  BY <1>3, <1>4 DEF AdmissionInv

\* INCR admits a hit only while the counter is below the limit, and a new counter finds what
\* one other has admitted.
LEMMA IncrAdmits ==
    ASSUME LimiterInv, AdmissionInv, NEW c \in Calls, Incr(c)
    PROVE  AdmissionInv'
<1>1. Limit \in Nat \ {0} /\ Window \in Nat \ {0} /\ counter \in Nat /\ expiry' = expiry
  BY LimitsArePositive DEF LimiterInv, LimiterTypes, Incr, INCR
<1>2. CASE counter < Limit
  <2>1. counter' = counter + 1 /\ recent' = [age \in Ages |-> recent[age] + 1]
    BY <1>1, <1>2 DEF Incr, INCR, Admits, AdmissionInv
  <2>2. Admitted = counter /\ Admitted' = counter + 1
    BY <1>1, <1>2, <2>1 DEF Admitted
  <2>3. \A age \in Ages : recent'[age] = recent[age] + 1 /\ recent[age] \in Nat
    BY <2>1 DEF AdmissionInv
  <2>4. \A age \in Ages : recent'[age] <= Limit + Admitted'
    BY <1>1, <2>2, <2>3 DEF AdmissionInv
  <2>5. ASSUME expiry' > 0, NEW age \in 0..(Window - expiry' - 1)
        PROVE  recent'[age] <= Admitted'
    <3>1. age \in Ages /\ recent[age] <= Admitted
      BY <1>1, <2>5 DEF AdmissionInv, Ages, LimiterInv, LimiterTypes, Never
    <3> QED
      BY <1>1, <2>2, <2>3, <3>1
  <2>6. recent' \in [Ages -> Nat]
    BY <2>1 DEF AdmissionInv
  <2> QED
    BY <2>4, <2>5, <2>6 DEF AdmissionInv
<1>3. CASE counter >= Limit
  <2>1. recent' = recent /\ counter' \in Nat /\ counter' >= counter
    BY <1>1, <1>3 DEF Incr, INCR, Admits
  <2> QED
    BY <1>1, <2>1, NoneAdmitted
<1> QED
  BY <1>1, <1>2, <1>3

\* Time passes: what the counter that is removed admitted is all there is in the window.
LEMMA TickAdmits ==
    ASSUME LimiterInv, AdmissionInv, Tick
    PROVE  AdmissionInv'
<1>1. /\ Limit \in Nat \ {0} /\ Window \in Nat \ {0} /\ counter \in Nat
      /\ expiry \in {Never} \cup 1..Window /\ Never < 0
  BY LimitsArePositive DEF LimiterInv, LimiterTypes, Never
<1>2. /\ DOMAIN recent = Ages
      /\ recent' = [age \in Ages |-> IF age = 0 THEN 0 ELSE recent[age - 1]]
  BY DEF Tick, AdmissionInv
<1>3. \A age \in Ages \ {0} : age - 1 \in Ages /\ recent'[age] = recent[age - 1]
  BY <1>1, <1>2 DEF Ages
<1>4. 0 \in Ages /\ recent'[0] = 0
  BY <1>1, <1>2 DEF Ages
<1>5. recent' \in [Ages -> Nat]
  BY <1>2, <1>3, <1>4 DEF AdmissionInv
<1>6. Admitted \in Nat /\ Admitted <= Limit
  BY <1>1 DEF Admitted
<1>7. CASE expiry = 1
  <2>1. Admitted' = 0 /\ expiry' = Never
    BY <1>1, <1>7 DEF Tick, Admitted
  <2>2. \A age \in Ages \ {0} : recent[age - 1] <= Admitted
    BY <1>1, <1>7 DEF AdmissionInv, Ages
  <2>3. \A age \in Ages : recent'[age] <= Limit + Admitted'
    BY <1>1, <1>3, <1>4, <1>5, <1>6, <2>1, <2>2
  <2> QED
    BY <1>5, <2>1, <2>3 DEF AdmissionInv, Never
<1>8. CASE expiry # 1
  <2>1. counter' = counter /\ expiry' = Later(expiry) /\ Admitted' = Admitted
    BY <1>8 DEF Tick, Admitted
  <2>2. \A age \in Ages : recent'[age] <= Limit + Admitted'
    BY <1>1, <1>3, <1>4, <1>6, <2>1 DEF AdmissionInv
  <2>3. ASSUME expiry' > 0, NEW age \in 0..(Window - expiry' - 1)
        PROVE  recent'[age] <= Admitted'
    <3>1. expiry > 0 /\ expiry' = expiry - 1 /\ age \in Ages
      BY <1>1, <1>8, <2>1, <2>3 DEF Later, Ages
    <3>2. CASE age = 0
      BY <1>4, <1>6, <2>1, <3>2
    <3>3. CASE age # 0
      <4>1. age - 1 \in 0..(Window - expiry - 1)
        BY <1>1, <2>3, <3>1, <3>3 DEF Ages, Never
      <4> QED
        BY <1>3, <2>1, <3>1, <3>3, <4>1 DEF AdmissionInv
    <3> QED
      BY <3>2, <3>3
  <2> QED
    BY <1>5, <2>2, <2>3 DEF AdmissionInv
<1> QED
  BY <1>7, <1>8

\* However hits, expiries, repairs, failures of Redis and deaths of processes interleave, for
\* any limit and window, no stretch as long as a window sees more than twice the limit admitted.
THEOREM AdmissionsStayBounded == Spec => []AdmissionsAreBounded
<1>1. Init => LimiterInv /\ AdmissionInv
  BY LimiterStarts, AdmissionStarts DEF Init
<1>2. LimiterInv /\ AdmissionInv /\ [Next]_vars => AdmissionInv'
  <2> SUFFICES ASSUME LimiterInv, AdmissionInv, [Next]_vars
               PROVE  AdmissionInv'
    OBVIOUS
  <2>0. counter \in Nat
    BY DEF LimiterInv, LimiterTypes
  <2>1. CASE UNCHANGED <<counter, expiry, recent>>
    BY <2>0, <2>1, NoneAdmitted
  <2>2. ASSUME NEW c \in Calls, LimiterStep(c)
        PROVE  AdmissionInv'
    <3>1. CASE Incr(c)
      BY <3>1, IncrAdmits
    <3>2. CASE Expire(c) \/ ReadTtl(c) \/ Repair(c) \/ GivesUp(c)
      <4>1. /\ UNCHANGED recent
            /\ UNCHANGED <<counter, expiry>> \/ INCR \/ EXPIRE
        BY <3>2 DEF Expire, ReadTtl, Repair, GivesUp
      <4>2. /\ counter' \in Nat /\ counter' >= counter
            /\ expiry' = expiry \/ expiry' = Window
        BY <2>0, <4>1 DEF INCR, EXPIRE
      <4> QED
        BY <4>1, <4>2, NoneAdmitted
    <3> QED
      BY <2>2, <3>1, <3>2 DEF LimiterStep
  <2>3. CASE Tick
    BY <2>3, TickAdmits
  <2> QED
    BY <2>1, <2>2, <2>3 DEF Next, vars, limiterVars, Arrive, ArriveLimited, Hit, Leave, Enforce,
       Authenticate, Handle, Identify, Issue, AccountChanges, TokensExpire
<1>3. AdmissionInv /\ LimiterInv => AdmissionsAreBounded
  <2> SUFFICES ASSUME AdmissionInv, LimiterInv PROVE AdmissionsAreBounded
    OBVIOUS
  <2>1. Window - 1 \in Ages /\ Limit \in Nat /\ Admitted \in Nat /\ Admitted <= Limit
    BY LimitsArePositive DEF Ages, Admitted, LimiterInv, LimiterTypes
  <2>2. recent[Window - 1] <= Limit + Admitted /\ recent[Window - 1] \in Nat
    BY <2>1 DEF AdmissionInv
  <2> QED
    BY <2>1, <2>2 DEF AdmissionsAreBounded
<1> QED
  BY <1>1, <1>2, <1>3, LimiterNext, PTL DEF Spec

-----------------------------------------------------------------------------
(* Authority.                                                              *)

CallOK(q) == q = Idle \/ q = [route |-> q.route, token |-> q.token, stage |-> q.stage]

\* A handler is reached by a route that asks for nobody, or through Authenticate; a token is
\* issued after Identify.
AuthorityInv ==
    /\ DOMAIN call = Calls
    /\ \A c \in Calls : /\ CallOK(call[c])
                        /\ call[c].stage = "limiting" => call[c].route \in LimitedRoutes
                        /\ call[c].stage = "issuing" => c \in entitled
    /\ AuthorityIsCurrent

LEMMA PublicIsUnguarded == PublicRoutes \cap GuardedRoutes = {}
BY DEF PublicRoutes, LimitedRoutes, GuardedRoutes, SkillRoutes, ResumeRoutes, JobRoutes, GoalRoutes,
       AdminRoutes

LEMMA OpenIsNotIdle == \A route, token, stage : [route |-> route, token |-> token, stage |-> stage] # Idle
BY DEF Idle

\* A call that goes on keeps its route, and what it was once entitled to.
LEMMA EntitledStays ==
    ASSUME Watch, NEW c \in Calls, call'[c] # Idle, c \in entitled
    PROVE  c \in entitled'
BY DEF Watch

LEMMA PermittedIsEntitled ==
    ASSUME NEW route, NEW token, Permitted(route, token)
    PROVE  Entitles(route)
BY DEF Permitted, Recognised, Entitles

\* A step that moves one call, or none.
LEMMA CallStepKeeps ==
    ASSUME AuthorityInv, Watch, NEW c \in Calls, NEW q, CallOK(q), call' = [call EXCEPT ![c] = q],
           q.stage = "limiting" => q.route \in LimitedRoutes,
           q # Idle /\ q.stage = "issuing" => c \in entitled',
           q # Idle /\ q.stage = "handling" /\ q.route \in GuardedRoutes => c \in entitled'
    PROVE  AuthorityInv'
<1>1. \A d \in Calls : call'[d] = IF d = c THEN q ELSE call[d]
  BY DEF AuthorityInv
<1>2. \A d \in Calls : /\ CallOK(call'[d])
                       /\ call'[d].stage = "limiting" => call'[d].route \in LimitedRoutes
  BY <1>1 DEF AuthorityInv
<1>3. ASSUME NEW d \in Calls, call'[d].stage = "handling", call'[d].route \in GuardedRoutes
      PROVE  d \in entitled'
  <2>1. call'[d] # Idle
    BY <1>3 DEF Idle
  <2>2. CASE d = c
    BY <1>1, <1>3, <2>1, <2>2
  <2>3. CASE d # c
    BY <1>1, <1>3, <2>1, <2>3, EntitledStays DEF AuthorityInv, AuthorityIsCurrent
  <2> QED
    BY <2>2, <2>3
<1>5. ASSUME NEW d \in Calls, call'[d].stage = "issuing" PROVE d \in entitled'
  <2>1. call'[d] # Idle
    BY <1>5 DEF Idle
  <2>2. CASE d = c
    BY <1>1, <1>5, <2>1, <2>2
  <2>3. CASE d # c
    BY <1>1, <1>5, <2>1, <2>3, EntitledStays DEF AuthorityInv
  <2> QED
    BY <2>2, <2>3
<1>4. DOMAIN call' = Calls
  BY DEF AuthorityInv
<1> QED
  BY <1>2, <1>3, <1>4, <1>5 DEF AuthorityInv, AuthorityIsCurrent, CallOK

LEMMA EndsKeeps ==
    ASSUME AuthorityInv, Watch, NEW c \in Calls, Ends(c)
    PROVE  AuthorityInv'
<1>1. CallOK(Idle) /\ Idle.stage = "idle"
  BY DEF CallOK, Idle
<1> QED
  BY <1>1, CallStepKeeps DEF Ends

LEMMA HandlingKeeps ==
    ASSUME AuthorityInv, Watch, NEW c \in Calls, call[c] # Idle, Step(c, "handling"),
           call[c].route \in GuardedRoutes => c \in entitled'
    PROVE  AuthorityInv'
<1> DEFINE q == [route |-> call[c].route, token |-> call[c].token, stage |-> "handling"]
<1>1. call' = [call EXCEPT ![c] = q]
  <2>1. call[c] = [route |-> call[c].route, token |-> call[c].token, stage |-> call[c].stage]
    BY DEF AuthorityInv, CallOK
  <2>2. [call[c] EXCEPT !.stage = "handling"] = q
    BY <2>1
  <2> HIDE DEF q
  <2> QED
    BY <2>2 DEF Step
<1>2. CallOK(q) /\ q.stage = "handling" /\ q.route = call[c].route
  BY DEF CallOK
<1> HIDE DEF q
<1> QED
  BY <1>1, <1>2, CallStepKeeps

LEMMA AuthenticateKeeps ==
    ASSUME AuthorityInv, NEW c \in Calls, Authenticate(c)
    PROVE  AuthorityInv'
<1>1. Watch /\ call[c] # Idle /\ UNCHANGED user
  BY DEF Authenticate, Idle
<1>2. CASE Permitted(call[c].route, call[c].token)
  <2>1. Step(c, "handling")
    BY <1>2 DEF Authenticate
  <2>2. call'[c] # Idle /\ call'[c].route = call[c].route
    BY <1>1, <2>1, OpenIsNotIdle DEF Step, AuthorityInv, CallOK
  <2>3. Entitles(call[c].route)
    BY <1>2, PermittedIsEntitled
  <2>4. Entitles(call[c].route)'
    BY <1>1, <2>2, <2>3 DEF Entitles
  <2>5. c \in entitled'
    BY <1>1, <2>2, <2>4 DEF Watch
  <2> QED
    BY <1>1, <2>1, <2>5, HandlingKeeps
<1>3. CASE ~Permitted(call[c].route, call[c].token)
  BY <1>1, <1>3, EndsKeeps DEF Authenticate
<1> QED
  BY <1>2, <1>3

\* Nothing that waits for the limiter is guarded.
LEMMA EnforceKeeps ==
    ASSUME AuthorityInv, NEW c \in Calls, Enforce(c)
    PROVE  AuthorityInv'
<1>1. Watch /\ call[c] # Idle /\ call[c].route \notin GuardedRoutes
  BY PublicIsUnguarded DEF Enforce, Idle, AuthorityInv, PublicRoutes
<1>2. Step(c, "handling") \/ Ends(c)
  BY DEF Enforce
<1> QED
  BY <1>1, <1>2, HandlingKeeps, EndsKeeps

LEMMA ArriveKeeps ==
    ASSUME AuthorityInv, NEW c \in Calls, NEW route, NEW token,
           Arrive(c, route, token) \/ (route \in LimitedRoutes /\ ArriveLimited(c, route))
    PROVE  AuthorityInv'
<1>1. CASE Arrive(c, route, token)
  <2> DEFINE q == [route |-> route, token |-> token,
                   stage |-> IF route \in PublicRoutes THEN "handling" ELSE "authenticating"]
  <2>1. /\ CallOK(q)
        /\ q.stage \notin {"limiting", "issuing"}
        /\ q.stage = "handling" => q.route \notin GuardedRoutes
    BY PublicIsUnguarded DEF CallOK
  <2>2. Watch /\ call' = [call EXCEPT ![c] = q]
    BY <1>1 DEF Arrive
  <2> HIDE DEF q
  <2> QED
    BY <2>1, <2>2, CallStepKeeps
<1>2. CASE route \in LimitedRoutes /\ ArriveLimited(c, route)
  <2> DEFINE q == [route |-> route, token |-> NoToken, stage |-> "limiting"]
  <2>1. CallOK(q) /\ q.stage = "limiting" /\ q.route \in LimitedRoutes
    BY <1>2 DEF CallOK
  <2>2. Watch /\ call' = [call EXCEPT ![c] = q]
    BY <1>2 DEF ArriveLimited
  <2> HIDE DEF q
  <2> QED
    BY <2>1, <2>2, CallStepKeeps
<1> QED
  BY <1>1, <1>2

\* The account or the tokens change under the calls: none of them reaches its handler.
LEMMA AroundKeeps ==
    ASSUME AuthorityInv, TokensExpire \/ \E role \in Roles, active \in BOOLEAN : AccountChanges(role, active)
    PROVE  AuthorityInv'
<1>1. Watch /\ DOMAIN call' = Calls
  BY DEF TokensExpire, AccountChanges, AuthorityInv
<1>2. \A d \in Calls : \/ call'[d] = call[d]
                       \/ /\ call[d].stage = "authenticating"
                          /\ call'[d] = [call[d] EXCEPT !.token = NoToken]
  BY DEF TokensExpire, AccountChanges
<1>3. ASSUME NEW d \in Calls
      PROVE  /\ CallOK(call'[d])
             /\ call'[d].stage = "limiting" => call'[d].route \in LimitedRoutes
             /\ call'[d].stage \in {"handling", "issuing"} => call'[d] = call[d]
  <2>1. CASE call'[d] = call[d]
    BY <2>1 DEF AuthorityInv
  <2>2. CASE call[d].stage = "authenticating" /\ call'[d] = [call[d] EXCEPT !.token = NoToken]
    <3>1. call[d] # Idle
      BY <2>2 DEF Idle
    <3>2. call'[d] = [route |-> call[d].route, token |-> NoToken, stage |-> "authenticating"]
      BY <2>2, <3>1 DEF AuthorityInv, CallOK
    <3> QED
      BY <3>2 DEF CallOK
  <2> QED
    BY <1>2, <2>1, <2>2
<1>4. ASSUME NEW d \in Calls, call'[d].stage = "handling", call'[d].route \in GuardedRoutes
      PROVE  d \in entitled'
  <2>1. call'[d] # Idle /\ call'[d] = call[d]
    BY <1>3, <1>4 DEF Idle
  <2> QED
    BY <1>1, <1>4, <2>1, EntitledStays DEF AuthorityInv, AuthorityIsCurrent
<1>5. ASSUME NEW d \in Calls, call'[d].stage = "issuing" PROVE d \in entitled'
  <2>1. call'[d] # Idle /\ call'[d] = call[d]
    BY <1>3, <1>5 DEF Idle
  <2> QED
    BY <1>1, <1>5, <2>1, EntitledStays DEF AuthorityInv
<1> QED
  BY <1>1, <1>3, <1>4, <1>5 DEF AuthorityInv, AuthorityIsCurrent, CallOK

\* Who may be issued a token is active when the account is loaded.
LEMMA IdentifyKeeps ==
    ASSUME AuthorityInv, user.role \in Roles, NEW c \in Calls, Identify(c)
    PROVE  AuthorityInv'
<1>1. Watch /\ call[c] # Idle /\ UNCHANGED user
  BY DEF Identify, Idle
<1>2. CASE Ends(c)
  BY <1>1, <1>2, EndsKeeps
<1>3. CASE MayIssue /\ call' = [call EXCEPT ![c].stage = "issuing", ![c].token = Minted]
  <2>1. PICK q, minted :
           minted = Minted /\ q = [route |-> call[c].route, token |-> minted, stage |-> "issuing"]
    OBVIOUS
  <2>2. call' = [call EXCEPT ![c] = q]
    <3>1. PICK route, token, stage : call[c] = [route |-> route, token |-> token, stage |-> stage]
      BY <1>1 DEF AuthorityInv, CallOK
    <3>2. [call[c] EXCEPT !.stage = "issuing"] = [route |-> route, token |-> token, stage |-> "issuing"]
      BY <3>1
    <3>3. [[call[c] EXCEPT !.stage = "issuing"] EXCEPT !.token = minted]
             = [route |-> route, token |-> minted, stage |-> "issuing"]
      <4>1. [[route |-> route, token |-> token, stage |-> "issuing"] EXCEPT !.token = minted]
               = [route |-> route, token |-> minted, stage |-> "issuing"]
        OBVIOUS
      <4> QED
        BY <3>2, <4>1, Zenon
    <3>4. route = call[c].route
      BY <3>1
    <3>5. call' = [call EXCEPT ![c] = [[call[c] EXCEPT !.stage = "issuing"] EXCEPT !.token = minted]]
      <4>1. call' = [call EXCEPT ![c].stage = "issuing", ![c].token = minted]
        BY <1>3, <2>1
      <4> QED
        BY <4>1 DEF AuthorityInv
    <3> QED
      BY <2>1, <3>3, <3>4, <3>5
  <2>3. CallOK(q) /\ q.stage = "issuing" /\ q.route = call[c].route /\ q # Idle
    BY <2>1 DEF CallOK, Idle
  <2>4. call'[c] = q
    BY <2>2 DEF AuthorityInv
  <2>5. Entitles(call[c].route)'
    <3>1. q.route \in MintingRoutes
      BY <2>3 DEF Identify
    <3>2. Needs(q.route) = Roles
      BY <3>1 DEF Needs, MintingRoutes, AdminRoutes
    <3> QED
      BY <1>1, <1>3, <2>3, <2>4, <3>2 DEF MayIssue, Entitles
  <2>6. c \in entitled'
    BY <1>1, <2>3, <2>4, <2>5 DEF Watch
  <2> QED
    BY <1>1, <2>2, <2>3, <2>6, CallStepKeeps
<1> QED
  BY <1>2, <1>3 DEF Identify

LEMMA AuthorityInit == Init => AuthorityInv /\ user.role \in Roles
BY DEF Init, AuthorityInv, AuthorityIsCurrent, CallOK, Idle

LEMMA AuthorityNext ==
    ASSUME AuthorityInv, user.role \in Roles, [Next]_vars
    PROVE  AuthorityInv' /\ user'.role \in Roles
<1>1. CASE UNCHANGED <<user, tokens, call, entitled>>
  BY <1>1 DEF AuthorityInv, AuthorityIsCurrent, CallOK
<1>2. ASSUME NEW c \in Calls,
             \/ \E route \in Served \ LimitedRoutes, token \in tokens \cup {NoToken} :
                  Arrive(c, route, token)
             \/ \E route \in Served \cap LimitedRoutes : ArriveLimited(c, route)
      PROVE  AuthorityInv' /\ user' = user
  BY <1>2, ArriveKeeps DEF Arrive, ArriveLimited
<1>3. ASSUME NEW c \in Calls,
             Enforce(c) \/ Authenticate(c) \/ Handle(c) \/ Identify(c) \/ Issue(c)
      PROVE  AuthorityInv' /\ user' = user
  <2>1. user' = user
    BY <1>3 DEF Enforce, Authenticate, Handle, Identify, Issue
  <2>2. CASE Handle(c) \/ Issue(c)
    BY <2>2, EndsKeeps DEF Handle, Issue
  <2> QED
    BY <1>3, <2>1, <2>2, EnforceKeeps, AuthenticateKeeps, IdentifyKeeps
<1>4. CASE TokensExpire \/ \E role \in Roles, active \in BOOLEAN : AccountChanges(role, active)
  <2>1. user'.role \in Roles
    BY <1>4 DEF TokensExpire, AccountChanges
  <2> QED
    BY <1>4, <2>1, AroundKeeps
<1> QED
  BY <1>1, <1>2, <1>3, <1>4 DEF Next, vars, Elsewhere

\* No token outlives the standing of its account: whatever calls, suspensions, changes of
\* role and expiries interleave, a guarded handler runs only for a call that the account was
\* entitled to at some time since it arrived.
THEOREM AuthorityStands == Spec => []AuthorityIsCurrent
<1>1. AuthorityInv => AuthorityIsCurrent
  BY DEF AuthorityInv
<1>2. AuthorityInv /\ user.role \in Roles /\ [Next]_vars => (AuthorityInv /\ user.role \in Roles)'
  BY AuthorityNext
<1> QED
  BY <1>1, <1>2, AuthorityInit, PTL DEF Spec

\* Tokens are issued only to an account that has been active during the call that asked, for
\* any calls, whatever suspensions and changes of role come between what login, refresh or
\* authenticate_with_google loads and what it issues.
THEOREM TokensStayEarned == Spec => TokensAreEarned
<1> DEFINE Earns == \A token \in tokens' \ tokens : \E c \in entitled :
                       call[c].stage = "issuing" /\ call[c].token = token /\ call'[c] = Idle
<1>1. ASSUME AuthorityInv, [Next]_vars PROVE [Earns]_vars
  <2>1. ASSUME NEW c \in Calls, Issue(c) PROVE Earns
    <3>1. /\ call[c].stage = "issuing" /\ c \in entitled /\ call'[c] = Idle
          /\ tokens' = tokens \cup {call[c].token}
      BY <1>1, <2>1 DEF Issue, Ends, AuthorityInv
    <3> QED
      BY <3>1
  <2>2. CASE tokens' \subseteq tokens
    BY <2>2
  <2>3. CASE UNCHANGED vars
    BY <2>3
  <2> HIDE DEF Earns
  <2>4. CASE Next
    BY <2>1, <2>2, <2>4 DEF Next, Arrive, ArriveLimited, Elsewhere, Enforce, Authenticate, Handle,
       Identify, AccountChanges, TokensExpire
  <2> QED
    BY <1>1, <2>3, <2>4
<1>2. AuthorityInv /\ user.role \in Roles /\ [Next]_vars => (AuthorityInv /\ user.role \in Roles)'
  BY AuthorityNext
<1> QED
  BY <1>1, <1>2, AuthorityInit, PTL DEF Spec, TokensAreEarned
=============================================================================
