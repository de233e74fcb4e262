---------------------------- MODULE SkillMatching ----------------------------
(***************************************************************************)
(* Which skills a text names and how often: SkillMatcher                   *)
(* (services/skill_matching.py), as posting and parse use it.              *)
(*                                                                         *)
(* A text is a sequence of symbols; only which symbols are parts of words  *)
(* and which are forms of one letter matters.  What one pattern finds is a *)
(* set of spans <<first, last>>.  The ranking of what was found is left    *)
(* out: nothing here depends on it.                                        *)
(***************************************************************************)
EXTENDS FiniteSetsExt, Integers, Sequences

CONSTANTS
    Vocabulary,   \* the entries: skill, terms and requires_exact_case
    WordChars,    \* [A-Za-z0-9_]
    Lower,        \* the lower form of each symbol
    Texts         \* bound: the texts the matcher is checked on

\* The unique indexes on names and aliases.
ASSUME TermsAreUnique ==
    \A one, other \in Vocabulary : one # other => one.skill # other.skill /\ one.terms \cap other.terms = {}

\* build drops a name that is blank.
ASSUME TermsAreWords == \A entry \in Vocabulary : entry.terms \subseteq Seq(DOMAIN Lower) \ {<<>>}

ASSUME TextsAreText == Texts \subseteq Seq(DOMAIN Lower)

Lowered(text) == [i \in DOMAIN text |-> Lower[text[i]]]

\* build: the entries that require exact case have a lookup and a pattern of their own.
Sensitive == {entry \in Vocabulary : entry.requires_exact_case}
Insensitive == Vocabulary \ Sensitive

Part(text, span) == SubSeq(text, span[1], span[2])

\* Case-insensitive keys and hits are lowered.
Names(entry, part) ==
    \E term \in entry.terms :
        IF entry.requires_exact_case THEN part = term ELSE Lowered(part) = Lowered(term)

\* The guards: no part of a word on either side.
Guarded(text, span) ==
    \A i \in {span[1] - 1, span[2] + 1} \cap DOMAIN text : text[i] \notin WordChars

Lengths(entries) == {Len(term) : term \in UNION {entry.terms : entry \in entries}}

\* The branches of the alternation that match at i.
Branches(entries, text, i) ==
    {span \in {<<i, i + length - 1>> : length \in Lengths(entries)} :
        /\ span[2] <= Len(text)
        /\ Guarded(text, span)
        /\ \E entry \in entries : Names(entry, Part(text, span))}

\* Mutant: shortest first.
Preferred_Shortest(spans) == CHOOSE span \in spans : \A other \in spans : span[2] <= other[2]

\* Longest first.
Preferred(spans) == CHOOSE span \in spans : \A other \in spans : span[2] >= other[2]

\* finditer: left to right, going on after each match.
Spans(entries, text) ==
    LET scan[i \in 1..(Len(text) + 1)] ==
            IF i > Len(text) THEN {}
            ELSE LET here == Branches(entries, text, i)
                 IN IF here = {} THEN scan[i + 1]
                    ELSE {Preferred(here)} \cup scan[Preferred(here)[2] + 1]
    IN scan[1]

Occurrences(entry, text) ==
    Cardinality({span \in Spans(IF entry.requires_exact_case THEN Sensitive ELSE Insensitive, text) :
                   Names(entry, Part(text, span))})

\* find: the skills that occur, with their counts.
Find(text) ==
    {match \in {[skill |-> entry.skill, occurrences |-> Occurrences(entry, text)] : entry \in Vocabulary} :
        match.occurrences > 0}

-----------------------------------------------------------------------------
(* Properties.                                                             *)

Overlap(one, other) == one[1] <= other[2] /\ other[1] <= one[2]

\* Every place of the text where a term stands by itself.
Mentioned(entries, text) == UNION {Branches(entries, text, i) : i \in DOMAIN text}

\* What a pattern claims of a text: mentions that do not overlap, and for every mention it
\* leaves out one that overlaps it and begins earlier, or begins with it and is longer.  Of
\* two names of the same pattern the short one is not counted inside the long one, and nothing
\* of the pattern is missed.
ClaimsMentions(entries, text) ==
    LET claimed == Spans(entries, text)
        mentioned == Mentioned(entries, text)
    IN
    /\ claimed \subseteq mentioned
    /\ \A one, other \in claimed : Overlap(one, other) => one = other
    /\ \A span \in mentioned \ claimed : \E by \in claimed :
        /\ Overlap(by, span)
        /\ by[1] < span[1] \/ (by[1] = span[1] /\ by[2] > span[2])

\* Both patterns keep to that on every text, each by itself: what one claims the other may
\* claim too.
ClaimsAreRight ==
    \A text \in Texts : ClaimsMentions(Sensitive, text) /\ ClaimsMentions(Insensitive, text)
=============================================================================
