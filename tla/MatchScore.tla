----------------------------- MODULE MatchScore -----------------------------
(***************************************************************************)
(* How well a profile fits a job: the pure functions of                    *)
(* services/matching.py.                                                   *)
(*                                                                         *)
(* `required` maps the skills of a job to their importance, `held` is the  *)
(* set of skills a person counts as having.  A skill is the number of its  *)
(* canonical name in alphabetical order.  A score is in tenths of a point  *)
(* (0..1000) and a cosine in hundredths, so the weights 0.65 and 0.35 are  *)
(* exact; round() goes to the even neighbour on a tie, where the code's    *)
(* floating point may go either way.                                       *)
(***************************************************************************)
EXTENDS FiniteSetsExt, Integers, SequencesExt

SKILL_WEIGHT == 65
SEMANTIC_WEIGHT == 35

NoSimilarity == -1000   \* None: one of the two vectors is missing
Cosines == -100..100

\* What a job may ask for: each importance is 1..5, and the vocabulary has 113 skills
\* (data/skills_seed.py).
Weighted(required) ==
    /\ IsFiniteSet(DOMAIN required)
    /\ Cardinality(DOMAIN required) < 130
    /\ \A s \in DOMAIN required : required[s] \in 1..5

Weight(required, S) == MapThenSumSet(LAMBDA s : required[s], S)

Round(n, d) ==
    LET q == n \div d
        r == 2 * (n % d)
    IN IF r < d \/ (r = d /\ q % 2 = 0) THEN q ELSE q + 1

\* Most consequential first, then by name.
Sorted(S, required) ==
    SetToSortSeq(S, LAMBDA a, b :
        required[a] > required[b] \/ (required[a] = required[b] /\ a < b))

\* Mutant: an integer division.
Coverage_Floor(held, required) ==
    IF DOMAIN required = {} THEN <<0, 1>>
    ELSE <<Weight(required, DOMAIN required \cap held) \div Weight(required, DOMAIN required), 1>>

\* The covered share of the total importance, as a fraction; nothing of nothing is 0.
Coverage(held, required) ==
    IF DOMAIN required = {} THEN <<0, 1>>
    ELSE <<Weight(required, DOMAIN required \cap held), Weight(required, DOMAIN required)>>

Clamped(similarity) ==
    IF similarity < 0 THEN 0 ELSE IF similarity > 100 THEN 100 ELSE similarity

\* The headline number of score_match: coverage alone until both vectors exist.
Score(held, required, similarity) ==
    LET c == Coverage(held, required)
    IN IF similarity = NoSimilarity
       THEN Round(1000 * c[1], c[2])
       ELSE Round(100 * SKILL_WEIGHT * c[1] + SEMANTIC_WEIGHT * Clamped(similarity) * c[2],
                  10 * c[2])

ScoreMatch(held, required, similarity) ==
    [score   |-> Score(held, required, similarity),
     matched |-> Sorted(DOMAIN required \cap held, required),
     missing |-> Sorted(DOMAIN required \ held, required)]
=============================================================================
