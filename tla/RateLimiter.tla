----------------------------- MODULE RateLimiter -----------------------------
(***************************************************************************)
(* One key of the fixed-window limiter: RedisRateLimiter.hit               *)
(* (core/rate_limit.py), each Redis command a step, for the requests of    *)
(* one client address to one scope.                                        *)
(*                                                                         *)
(* A tick of the clock is longer than _REDIS_TIMEOUT_SECONDS, so a hit     *)
(* sees at most one.                                                       *)
(***************************************************************************)
EXTENDS FiniteSetsExt, Integers

CONSTANTS
    Calls,    \* requests that may be in flight at once
    Limit,
    Window    \* window_seconds, in ticks

ASSUME LimitsArePositive == Limit \in Nat \ {0} /\ Window \in Nat \ {0}

VARIABLES
    counter,  \* the value of the key, 0 when there is none
    expiry,   \* ticks until Redis removes it
    hit,      \* where each request is inside hit()
    recent,   \* history: hits the counter admitted in this tick and the `age` ticks before it
    waiting   \* history: ticks until a refused client finds the window over that it was told of

limiterVars == <<counter, expiry, hit, recent, waiting>>

Never == -1
Absent == -2     \* TTL of a key that is not there

Hits == [stage : {"outside", "incr", "expire", "ttl", "repair", "allowed", "refused"}, late : BOOLEAN]

Outside == [stage |-> "outside", late |-> FALSE]
InFlight(c) == hit[c].stage \in {"incr", "expire", "ttl", "repair"}

LimiterInit ==
    /\ counter = 0
    /\ expiry = Never
    /\ hit = [c \in Calls |-> Outside]
    /\ recent = [age \in 0..(Window - 1) |-> 0]
    /\ waiting = [c \in Calls |-> Never]

-----------------------------------------------------------------------------
(* Redis.                                                                  *)

\* INCR; the code compares the value with 1 and Limit only, so it stops above Limit.
INCR ==
    /\ counter' = IF counter > Limit THEN counter ELSE counter + 1
    /\ UNCHANGED expiry

EXPIRE ==
    /\ expiry' = IF counter = 0 THEN expiry ELSE Window
    /\ UNCHANGED counter

TTL == IF counter = 0 THEN Absent ELSE expiry

-----------------------------------------------------------------------------
(* hit().                                                                  *)

Goto(c, stage) == hit' = [hit EXCEPT ![c].stage = stage]

Hit(c) ==
    /\ hit[c] = Outside
    /\ Goto(c, "incr")
    /\ UNCHANGED <<counter, expiry, recent, waiting>>

\* Mutant: the comparison is off by one.
Admits_OffByOne(count) == count <= Limit + 1

Admits(count) == count <= Limit

Incr(c) ==
    /\ hit[c].stage = "incr"
    /\ INCR
    /\ Goto(c, IF counter + 1 = 1 THEN "expire" ELSE IF Admits(counter + 1) THEN "allowed" ELSE "ttl")
    /\ recent' = IF Admits(counter + 1) THEN [age \in DOMAIN recent |-> recent[age] + 1] ELSE recent
    /\ UNCHANGED waiting

\* The first hit of a window is within any limit.
Expire(c) ==
    /\ hit[c].stage = "expire"
    /\ EXPIRE
    /\ Goto(c, "allowed")
    /\ UNCHANGED <<recent, waiting>>

\* Retry-After, and one tick for the EXPIRE of another hit that is still in flight.
Told(c, ticks) == waiting' = [waiting EXCEPT ![c] = IF counter = 0 THEN Never ELSE ticks + 1]

\* Mutant: the answer is given without looking at the expiry.
NeedsRepair_Never(ttl) == FALSE

\* The process died between INCR and EXPIRE.
NeedsRepair(ttl) == ttl < 0

ReadTtl(c) ==
    /\ hit[c].stage = "ttl"
    /\ IF NeedsRepair(TTL)
       THEN Goto(c, "repair") /\ UNCHANGED waiting
       ELSE Goto(c, "refused") /\ Told(c, Max({1, TTL}))
    /\ UNCHANGED <<counter, expiry, recent>>

Repair(c) ==
    /\ hit[c].stage = "repair"
    /\ EXPIRE
    /\ Goto(c, "refused")
    /\ Told(c, Window)
    /\ UNCHANGED recent

\* Redis is unreachable, too slow, or the API dies: the command sent last may still be
\* executed, and the request is let through.
GivesUp(c) ==
    /\ InFlight(c)
    /\ \/ UNCHANGED <<counter, expiry>>
       \/ hit[c].stage = "incr" /\ INCR
       \/ hit[c].stage \in {"expire", "repair"} /\ EXPIRE
    /\ Goto(c, "allowed")
    /\ UNCHANGED <<recent, waiting>>

\* _enforce has its decision.
Leave(c) ==
    /\ hit[c].stage \in {"allowed", "refused"}
    /\ hit' = [hit EXCEPT ![c] = Outside]
    /\ UNCHANGED <<counter, expiry, recent, waiting>>

Later(ticks) == IF ticks > 0 THEN ticks - 1 ELSE ticks

Tick ==
    /\ \A c \in Calls : InFlight(c) => ~hit[c].late
    /\ counter' = IF expiry = 1 THEN 0 ELSE counter
    /\ expiry' = IF expiry = 1 THEN Never ELSE Later(expiry)
    /\ hit' = [c \in Calls |-> [hit[c] EXCEPT !.late = InFlight(c)]]
    /\ recent' = [age \in DOMAIN recent |-> IF age = 0 THEN 0 ELSE recent[age - 1]]
    /\ waiting' = [c \in Calls |-> IF expiry = 1 THEN Never ELSE Later(waiting[c])]

LimiterStep(c) ==
    \/ Incr(c)
    \/ Expire(c)
    \/ ReadTtl(c)
    \/ Repair(c)
    \/ GivesUp(c)

-----------------------------------------------------------------------------
(* Properties.                                                             *)

\* However hits, expiries, repairs and failures of Redis interleave, no stretch of time as
\* long as a window sees more than two windows' worth of hits that Redis answered.
AdmissionsAreBounded == recent[Window - 1] <= 2 * Limit

\* Nobody is locked out for longer than announced: when Retry-After, and the time one hit
\* may take, have passed, the counter that refused the client is gone, although any process
\* may have died between INCR and EXPIRE.
RetryAfterIsKept ==
    \A c \in Calls : waiting[c] # 0
=============================================================================
