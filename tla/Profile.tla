------------------------------- MODULE Profile -------------------------------
(***************************************************************************)
(* One user's skill profile: SkillProfileService (services/                *)
(* skill_profile.py over repositories/skill.py) and the rows the worker's  *)
(* _extract_skills writes (workers/tasks.py) race for the same             *)
(* (user_id, skill_id) rows of user_skills.                                *)
(*                                                                         *)
(* A request reads, then commits.  The ORM writes back only the columns    *)
(* whose value differs from the one it loaded, by primary key and whatever *)
(* the row holds by then.  Requests name skills of the vocabulary.         *)
(***************************************************************************)
EXTENDS Integers

CONSTANTS
    Skills,        \* the vocabulary, as far as one user meets it
    Requests,      \* requests that may be open at once
    Parses,        \* parse tasks that may run at once
    NoRow,
    Proficiencies  \* bound: ratings a user gives, 0 being SQL NULL

ASSUME NullIsAProficiency == 0 \in Proficiencies /\ Proficiencies \subseteq 0..5

VARIABLES
    rows,   \* committed rows of user_skills, by skill
    req,    \* what each open request wants and what it has read
    parse   \* the terms each parse task found and the tombstones it read

vars == <<rows, req, parse>>

Sources == {"extracted", "manual"}
Statuses == {"suggested", "confirmed", "rejected", "learning"}

\* `occurrences` tells a term never seen in a document from one that was.
Columns == [source |-> Sources, status |-> Statuses, proficiency |-> 0..5, occurrences |-> 0..1]
Row == [source : Columns.source, status : Columns.status,
        proficiency : Columns.proficiency, occurrences : Columns.occurrences]

ASSUME NoRowIsNone == NoRow \notin Row

\* What a parse inserts.
Suggestion == [source |-> "extracted", status |-> "suggested", proficiency |-> 0, occurrences |-> 1]

TypeRows == [Skills -> Row \cup {NoRow}]

Idle == [op |-> "idle"]

NoParse == [found |-> {}, rejected |-> {}]

Init ==
    /\ rows = [s \in Skills |-> NoRow]
    /\ req = [r \in Requests |-> Idle]
    /\ parse = [p \in Parses |-> NoParse]

With(status) == {s \in Skills : rows[s] # NoRow /\ rows[s].status = status}

-----------------------------------------------------------------------------
(* The API.                                                                *)

\* Mutant: every column of the loaded entity is written.
Changed_Everything(loaded, wanted) == wanted

\* The columns the handler has given another value than it loaded.
Changed(loaded, wanted) == [c \in {c \in DOMAIN loaded : wanted[c] # loaded[c]} |-> wanted[c]]

Load(r, s, wanted) ==
    /\ req[r] = Idle
    /\ req' = [req EXCEPT ![r] =
                 IF rows[s] = NoRow THEN [op |-> "insert", skill |-> s, writes |-> wanted]
                 ELSE [op |-> "update", skill |-> s, writes |-> Changed(rows[s], wanted)]]
    /\ UNCHANGED <<rows, parse>>

\* A row that no document has shown.
Asserted(status, proficiency) ==
    [source |-> "manual", status |-> status, proficiency |-> proficiency, occurrences |-> 0]

StartLearning(r, s) ==
    Load(r, s, IF rows[s] = NoRow THEN Asserted("learning", 0)
               ELSE [rows[s] EXCEPT !.status = "learning"])

\* A proficiency of 0 is the None of a payload.
Rated(row, proficiency) ==
    [row EXCEPT !.proficiency = IF proficiency = 0 THEN @ ELSE proficiency]

AddSkill(r, s, proficiency) ==
    Load(r, s, IF rows[s] = NoRow THEN Asserted("confirmed", proficiency)
               ELSE Rated([rows[s] EXCEPT !.status = "confirmed", !.source = "manual"], proficiency))

\* SkillNotInProfileError without a row; `keep` is a payload without a status.
UpdateSkill(r, s, status, proficiency) ==
    /\ rows[s] # NoRow
    /\ Load(r, s, Rated([rows[s] EXCEPT !.status = IF status = "keep" THEN @ ELSE status], proficiency))

\* Mutant: the filter on the status is lost.
ConfirmAll_Everything(r) ==
    /\ req[r] = Idle
    /\ req' = [req EXCEPT ![r] = [op |-> "confirm_all", listed |->
                 [s \in {s \in Skills : rows[s] # NoRow} |-> rows[s].status]]]
    /\ UNCHANGED <<rows, parse>>

\* The entities it loads, each with the status it was loaded with.
ConfirmAll(r) ==
    /\ req[r] = Idle
    /\ req' = [req EXCEPT ![r] = [op |-> "confirm_all", listed |->
                 [s \in With("suggested") |-> rows[s].status]]]
    /\ UNCHANGED <<rows, parse>>

\* The UPDATE of an entity that was there when it was read, into the row of now.
CommitUpdate(r) ==
    /\ req[r].op = "update"
    /\ rows' = [rows EXCEPT ![req[r].skill] =
                  [c \in DOMAIN @ |-> IF c \in DOMAIN req[r].writes THEN req[r].writes[c] ELSE @[c]]]
    /\ req' = [req EXCEPT ![r] = Idle]
    /\ UNCHANGED parse

\* The INSERT of a new one; the primary key refuses it when a row has come to be
\* meanwhile, and the request fails.
CommitInsert(r) ==
    /\ req[r].op = "insert"
    /\ rows' = [rows EXCEPT ![req[r].skill] = IF @ = NoRow THEN req[r].writes ELSE @]
    /\ req' = [req EXCEPT ![r] = Idle]
    /\ UNCHANGED parse

CommitConfirmAll(r) ==
    /\ req[r].op = "confirm_all"
    /\ rows' = [s \in Skills |-> IF s \in DOMAIN req[r].listed
                                 THEN [rows[s] EXCEPT !.status = "confirmed"] ELSE rows[s]]
    /\ req' = [req EXCEPT ![r] = Idle]
    /\ UNCHANGED parse

-----------------------------------------------------------------------------
(* The worker.                                                             *)

\* The document names some skills; the tombstones are read before the upsert.
ExtractRead(p, found) ==
    /\ parse[p] = NoParse
    /\ found # {}
    /\ parse' = [parse EXCEPT ![p] = [found |-> found, rejected |-> With("rejected")]]
    /\ UNCHANGED <<rows, req>>

\* Mutant: the conflict clause has no WHERE and rewrites the row.
Upserted_Overwrites(row) == Suggestion

\* ON CONFLICT DO UPDATE of the count, re-evaluated on the row as it is then.
Upserted(row) ==
    IF row = NoRow THEN Suggestion
    ELSE IF row.status = "suggested" THEN [row EXCEPT !.occurrences = 1]
    ELSE row

ExtractUpsert(p) ==
    /\ parse[p] # NoParse
    /\ LET upserts == parse[p].found \ parse[p].rejected
       IN rows' = [s \in Skills |-> IF s \in upserts THEN Upserted(rows[s]) ELSE rows[s]]
    /\ parse' = [parse EXCEPT ![p] = NoParse]
    /\ UNCHANGED req

-----------------------------------------------------------------------------

Next ==
    \/ \E r \in Requests :
        \/ \E s \in Skills :
            \/ StartLearning(r, s)
            \/ \E n \in Proficiencies :
                \/ AddSkill(r, s, n)
                \/ \E status \in Statuses \cup {"keep"} : UpdateSkill(r, s, status, n)
        \/ ConfirmAll(r)
        \/ CommitUpdate(r)
        \/ CommitInsert(r)
        \/ CommitConfirmAll(r)
    \/ \E p \in Parses :
        \/ \E found \in SUBSET Skills : ExtractRead(p, found)
        \/ ExtractUpsert(p)

Spec == Init /\ [][Next]_vars

-----------------------------------------------------------------------------
(* Properties.                                                             *)

\* Rows carry a source, a status and a rating, requests what they have read.
TypeOK ==
    /\ rows \in TypeRows
    /\ \A r \in Requests :
        \/ req[r] = Idle
        \/ req[r].op = "confirm_all" /\ DOMAIN req[r].listed \subseteq Skills
        \/ /\ req[r].op \in {"insert", "update"}
           /\ req[r].skill \in Skills
           /\ \A c \in DOMAIN req[r].writes : req[r].writes[c] \in Columns[c]
    /\ parse \in [Parses -> [found : SUBSET Skills, rejected : SUBSET Skills]]

Finishes(r) == req[r] # Idle /\ req'[r] = Idle

\* What a finishing request was entitled to set: the skill it names, or one that was a
\* suggestion when confirm_all listed it.
Names(r, s) == req[r].op \in {"insert", "update"} /\ req[r].skill = s

Lists(r, s) == req[r].op = "confirm_all" /\ s \in DOMAIN req[r].listed /\ req[r].listed[s] = "suggested"

\* However late a parse writes, a row the user has confirmed, rejected, rated or begun to
\* learn stays as it is, and a suggestion keeps everything but its count: upsert_extracted
\* races every request of the API for the same rows (tasks.py:244-252).
RulingsSurviveParsing ==
    [][(req' = req) =>
        \A s \in Skills : rows[s] # NoRow =>
            IF rows[s].status = "suggested"
            THEN rows'[s] = [rows[s] EXCEPT !.occurrences = rows'[s].occurrences]
            ELSE rows'[s] = rows[s]]_vars

\* A skill enters the profile, or changes its standing, only as a new suggestion of a
\* parse or for a request of the user that named it or was shown it as a suggestion:
\* accepting all suggestions touches no row that had been ruled on when they were listed.
StandingIsAskedFor ==
    [][\A s \in Skills :
        \/ rows'[s] = rows[s]
        \/ rows[s] # NoRow /\ rows'[s].status = rows[s].status
        \/ rows[s] = NoRow /\ rows'[s] = Suggestion
        \/ \E r \in Requests :
            /\ Finishes(r)
            /\ Names(r, s) \/ (Lists(r, s) /\ rows'[s].status = "confirmed")]_vars

\* A rating once given is never lost, although requests that loaded the row before it was
\* committed write their entity after it: no handler clears one, and a flush writes only
\* the columns its handler changed.
RatingsAreKept ==
    [][\A s \in Skills : rows[s] # NoRow /\ rows[s].proficiency # 0 => rows'[s].proficiency # 0]_vars
=============================================================================
