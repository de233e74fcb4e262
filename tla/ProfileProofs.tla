---------------------------- MODULE ProfileProofs ----------------------------
(***************************************************************************)
(* What Profile promises, for any vocabulary and any number of requests    *)
(* and parses.                                                             *)
(***************************************************************************)
EXTENDS Profile, TLAPS

Names4 == {"source", "status", "proficiency", "occurrences"}

\* What a flush writes into a row: columns of their types, and a rating if any.
WritesOK(w) ==
    /\ DOMAIN w \subseteq Names4
    /\ \A c \in DOMAIN w : w[c] \in Columns[c]
    /\ "proficiency" \in DOMAIN w => w["proficiency"] # 0

Inserts(q) == q.op = "insert" /\ q.skill \in Skills /\ q.writes \in Row
Updates(q) == q.op = "update" /\ q.skill \in Skills /\ rows[q.skill] # NoRow /\ WritesOK(q.writes)
Accepts(q) ==
    /\ q.op = "confirm_all"
    /\ DOMAIN q.listed \subseteq Skills
    /\ \A s \in DOMAIN q.listed : rows[s] # NoRow /\ q.listed[s] = "suggested"

ReqOK(q) == q = Idle \/ Inserts(q) \/ Updates(q) \/ Accepts(q)

\* A request that has read a row finds one when it commits, since none is ever deleted.
IInv ==
    /\ rows \in TypeRows
    /\ DOMAIN req = Requests
    /\ \A r \in Requests : ReqOK(req[r])
    /\ parse \in [Parses -> [found : SUBSET Skills, rejected : SUBSET Skills]]

RowsGrow == \A s \in Skills : rows[s] # NoRow => rows'[s] # NoRow

-----------------------------------------------------------------------------
(* Rows and what handlers make of them.                                    *)

LEMMA SuggestionIsRow == Suggestion \in Row
BY DEF Suggestion, Row, Columns, Sources, Statuses

LEMMA AssertedIsRow ==
    ASSUME NEW status \in Statuses, NEW n \in Proficiencies
    PROVE  Asserted(status, n) \in Row
BY NullIsAProficiency DEF Asserted, Row, Columns, Sources, Statuses

LEMMA StatusIsSet ==
    ASSUME NEW row \in Row, NEW status \in Statuses
    PROVE  /\ [row EXCEPT !.status = status] \in Row
           /\ [row EXCEPT !.status = status].proficiency = row.proficiency
BY DEF Row, Columns

LEMMA SourceIsSet ==
    ASSUME NEW row \in Row
    PROVE  /\ [row EXCEPT !.source = "manual"] \in Row
           /\ [row EXCEPT !.source = "manual"].proficiency = row.proficiency
BY DEF Row, Columns, Sources

LEMMA RatedIsRow ==
    ASSUME NEW row \in Row, NEW n \in Proficiencies
    PROVE  /\ Rated(row, n) \in Row
           /\ Rated(row, n).proficiency # row.proficiency => Rated(row, n).proficiency # 0
BY NullIsAProficiency DEF Rated, Row, Columns

LEMMA ChangedIsWritten ==
    ASSUME NEW loaded \in Row, NEW wanted \in Row,
           wanted.proficiency # loaded.proficiency => wanted.proficiency # 0
    PROVE  WritesOK(Changed(loaded, wanted))
<1>1. DOMAIN loaded = Names4
  BY DEF Row, Names4
<1>2. \A c \in Names4 : wanted[c] \in Columns[c]
  BY DEF Row, Columns, Names4
<1> QED
  BY <1>1, <1>2 DEF WritesOK, Changed, Names4

LEMMA UpsertedIsRow ==
    ASSUME NEW row \in Row \cup {NoRow}
    PROVE  Upserted(row) \in Row
BY SuggestionIsRow DEF Upserted, Row, Columns

LEMMA WrittenIsRow ==
    ASSUME NEW row \in Row, NEW w, WritesOK(w)
    PROVE  LET new == [c \in DOMAIN row |-> IF c \in DOMAIN w THEN w[c] ELSE row[c]]
           IN /\ new \in Row
              /\ row.proficiency # 0 => new.proficiency # 0
<1> DEFINE new == [c \in DOMAIN row |-> IF c \in DOMAIN w THEN w[c] ELSE row[c]]
<1>1. DOMAIN row = Names4
  BY DEF Row, Names4
<1>2. \A c \in Names4 : row[c] \in Columns[c]
  BY DEF Row, Columns, Names4
<1>3. \A c \in Names4 : new[c] \in Columns[c]
  BY <1>1, <1>2 DEF WritesOK
<1>4. new = [source |-> new.source, status |-> new.status, proficiency |-> new.proficiency,
             occurrences |-> new.occurrences]
  BY <1>1 DEF Names4
<1>5. new \in Row
  BY <1>3, <1>4 DEF Row, Names4
<1> QED
  BY <1>1, <1>5 DEF WritesOK, Names4

-----------------------------------------------------------------------------
(* The steps.                                                              *)

LEMMA RequestsOutliveRows ==
    ASSUME NEW q, ReqOK(q), RowsGrow
    PROVE  ReqOK(q)'
BY DEF ReqOK, Inserts, Updates, Accepts, RowsGrow

LEMMA NewRequestKeeps ==
    ASSUME IInv, NEW r \in Requests, NEW q, ReqOK(q), req' = [req EXCEPT ![r] = q], UNCHANGED <<rows, parse>>
    PROVE  IInv' /\ RowsGrow
<1>1. RowsGrow
  BY DEF RowsGrow
<1>2. \A o \in Requests : ReqOK(req[o])'
  BY <1>1, RequestsOutliveRows DEF IInv, ReqOK, Inserts, Updates, Accepts
<1> QED
  BY <1>1, <1>2 DEF IInv

LEMMA LoadKeeps ==
    ASSUME IInv, NEW r \in Requests, NEW s \in Skills, NEW wanted \in Row,
           rows[s] # NoRow /\ wanted.proficiency # rows[s].proficiency => wanted.proficiency # 0,
           Load(r, s, wanted)
    PROVE  IInv' /\ RowsGrow
<1> DEFINE q == IF rows[s] = NoRow THEN [op |-> "insert", skill |-> s, writes |-> wanted]
                ELSE [op |-> "update", skill |-> s, writes |-> Changed(rows[s], wanted)]
<1>1. ReqOK(q)
  <2>1. CASE rows[s] = NoRow
    BY <2>1 DEF ReqOK, Inserts
  <2>2. CASE rows[s] # NoRow
    <3>1. rows[s] \in Row
      BY <2>2 DEF IInv, TypeRows
    <3>2. WritesOK(Changed(rows[s], wanted))
      BY <2>2, <3>1, ChangedIsWritten
    <3> QED
      BY <2>2, <3>2 DEF ReqOK, Updates
  <2> QED
    BY <2>1, <2>2
<1> QED
  BY <1>1, NewRequestKeeps DEF Load

LEMMA FinishKeeps ==
    ASSUME IInv, NEW r \in Requests, req' = [req EXCEPT ![r] = Idle], rows' \in TypeRows, RowsGrow,
           UNCHANGED parse
    PROVE  IInv'
<1>1. \A o \in Requests : ReqOK(req'[o])
  BY DEF IInv, ReqOK
<1>2. \A o \in Requests : ReqOK(req[o])'
  <2> SUFFICES ASSUME NEW o \in Requests PROVE ReqOK(req[o])'
    OBVIOUS
  <2> QED
    BY <1>1 DEF ReqOK, Inserts, Updates, Accepts, RowsGrow
<1> QED
  BY <1>2 DEF IInv

LEMMA WantedByStartLearning ==
    ASSUME IInv, NEW r \in Requests, NEW s \in Skills, StartLearning(r, s)
    PROVE  IInv' /\ RowsGrow
<1> DEFINE wanted == IF rows[s] = NoRow THEN Asserted("learning", 0)
                     ELSE [rows[s] EXCEPT !.status = "learning"]
<1>1. wanted \in Row /\ (rows[s] # NoRow => wanted.proficiency = rows[s].proficiency)
  BY AssertedIsRow, StatusIsSet, NullIsAProficiency DEF IInv, TypeRows, Statuses
<1> QED
  BY <1>1, LoadKeeps DEF StartLearning

LEMMA WantedByAddSkill ==
    ASSUME IInv, NEW r \in Requests, NEW s \in Skills, NEW n \in Proficiencies, AddSkill(r, s, n)
    PROVE  IInv' /\ RowsGrow
<1> DEFINE asserted == [rows[s] EXCEPT !.status = "confirmed", !.source = "manual"]
           wanted == IF rows[s] = NoRow THEN Asserted("confirmed", n) ELSE Rated(asserted, n)
<1>1. CASE rows[s] = NoRow
  <2>1. wanted \in Row
    BY <1>1, AssertedIsRow DEF Statuses
  <2> QED
    BY <1>1, <2>1, LoadKeeps DEF AddSkill
<1>2. CASE rows[s] # NoRow
  <2>1. rows[s] \in Row
    BY <1>2 DEF IInv, TypeRows
  <2>2. asserted \in Row /\ asserted.proficiency = rows[s].proficiency
    BY <2>1 DEF Row, Columns, Statuses, Sources
  <2>3. wanted \in Row /\ (wanted.proficiency # rows[s].proficiency => wanted.proficiency # 0)
    BY <1>2, <2>2, RatedIsRow
  <2> QED
    BY <2>3, LoadKeeps DEF AddSkill
<1> QED
  BY <1>1, <1>2

LEMMA WantedByUpdateSkill ==
    ASSUME IInv, NEW r \in Requests, NEW s \in Skills, NEW n \in Proficiencies,
           NEW status \in Statuses \cup {"keep"}, UpdateSkill(r, s, status, n)
    PROVE  IInv' /\ RowsGrow
<1> DEFINE ruled == [rows[s] EXCEPT !.status = IF status = "keep" THEN @ ELSE status]
           wanted == Rated(ruled, n)
<1>1. rows[s] # NoRow /\ rows[s] \in Row
  BY DEF UpdateSkill, IInv, TypeRows
<1>2. ruled \in Row /\ ruled.proficiency = rows[s].proficiency
  BY <1>1 DEF Row, Columns
<1>3. wanted \in Row /\ (wanted.proficiency # rows[s].proficiency => wanted.proficiency # 0)
  BY <1>2, RatedIsRow
<1>4. Load(r, s, wanted)
  BY DEF UpdateSkill
<1> QED
  BY <1>3, <1>4, LoadKeeps

LEMMA ConfirmAllKeeps ==
    ASSUME IInv, NEW r \in Requests, ConfirmAll(r)
    PROVE  IInv' /\ RowsGrow
<1> DEFINE q == [op |-> "confirm_all", listed |-> [s \in With("suggested") |-> rows[s].status]]
<1>1. ReqOK(q)
  BY DEF ReqOK, Accepts, With
<1> QED
  BY <1>1, NewRequestKeeps DEF ConfirmAll

LEMMA CommitUpdateKeeps ==
    ASSUME IInv, NEW r \in Requests, CommitUpdate(r)
    PROVE  IInv' /\ RowsGrow
<1> DEFINE t == req[r].skill
           w == req[r].writes
           new == [c \in DOMAIN rows[t] |-> IF c \in DOMAIN w THEN w[c] ELSE rows[t][c]]
<1>1. Updates(req[r])
  BY DEF CommitUpdate, IInv, ReqOK, Idle, Inserts, Accepts
<1>2. rows[t] \in Row /\ WritesOK(w)
  BY <1>1 DEF Updates, IInv, TypeRows
<1>3. new \in Row
  BY <1>2, WrittenIsRow
<1>4. rows' = [rows EXCEPT ![t] = new]
  BY DEF CommitUpdate
<1>5. rows' \in TypeRows /\ RowsGrow
  BY <1>1, <1>3, <1>4, NoRowIsNone DEF IInv, TypeRows, RowsGrow, Updates
<1> QED
  BY <1>5, FinishKeeps DEF CommitUpdate

LEMMA CommitInsertKeeps ==
    ASSUME IInv, NEW r \in Requests, CommitInsert(r)
    PROVE  IInv' /\ RowsGrow
<1>1. Inserts(req[r])
  BY DEF CommitInsert, IInv, ReqOK, Idle, Updates, Accepts
<1>2. rows' \in TypeRows /\ RowsGrow
  BY <1>1, NoRowIsNone DEF CommitInsert, IInv, TypeRows, RowsGrow, Inserts
<1> QED
  BY <1>2, FinishKeeps DEF CommitInsert

LEMMA CommitConfirmAllKeeps ==
    ASSUME IInv, NEW r \in Requests, CommitConfirmAll(r)
    PROVE  IInv' /\ RowsGrow
<1>1. Accepts(req[r])
  BY DEF CommitConfirmAll, IInv, ReqOK, Idle, Updates, Inserts
<1>2. \A s \in DOMAIN req[r].listed : [rows[s] EXCEPT !.status = "confirmed"] \in Row
  BY <1>1, StatusIsSet DEF Accepts, IInv, TypeRows, Statuses
<1>3. rows' \in TypeRows /\ RowsGrow
  BY <1>2, NoRowIsNone DEF CommitConfirmAll, IInv, TypeRows, RowsGrow
<1> QED
  BY <1>3, FinishKeeps DEF CommitConfirmAll

LEMMA ExtractReadKeeps ==
    ASSUME IInv, NEW p \in Parses, NEW found \in SUBSET Skills, ExtractRead(p, found)
    PROVE  IInv' /\ RowsGrow
<1>1. RowsGrow
  BY DEF ExtractRead, RowsGrow
<1>2. \A r \in Requests : ReqOK(req[r])'
  BY DEF ExtractRead, IInv, ReqOK, Inserts, Updates, Accepts
<1>3. parse' \in [Parses -> [found : SUBSET Skills, rejected : SUBSET Skills]]
  BY DEF ExtractRead, IInv, With
<1> QED
  BY <1>1, <1>2, <1>3 DEF ExtractRead, IInv

LEMMA ExtractUpsertKeeps ==
    ASSUME IInv, NEW p \in Parses, ExtractUpsert(p)
    PROVE  IInv' /\ RowsGrow
<1>1. \A s \in Skills : rows'[s] = rows[s] \/ rows'[s] = Upserted(rows[s])
  BY DEF ExtractUpsert
<1>2. rows' \in TypeRows /\ RowsGrow
  BY <1>1, UpsertedIsRow, NoRowIsNone DEF ExtractUpsert, IInv, TypeRows, RowsGrow
<1>3. \A r \in Requests : ReqOK(req[r])'
  BY <1>2 DEF ExtractUpsert, IInv, ReqOK, Inserts, Updates, Accepts, RowsGrow
<1>4. parse' \in [Parses -> [found : SUBSET Skills, rejected : SUBSET Skills]]
  BY DEF ExtractUpsert, IInv, NoParse
<1> QED
  BY <1>2, <1>3, <1>4 DEF ExtractUpsert, IInv

LEMMA InitEstablishes == Init => IInv
BY DEF Init, IInv, TypeRows, ReqOK, NoParse

LEMMA NextKeeps ==
    ASSUME IInv, [Next]_vars
    PROVE  IInv' /\ RowsGrow
<1>1. ASSUME NEW r \in Requests, NEW s \in Skills, StartLearning(r, s) PROVE IInv' /\ RowsGrow
  BY <1>1, WantedByStartLearning
<1>2. ASSUME NEW r \in Requests, NEW s \in Skills, NEW n \in Proficiencies, AddSkill(r, s, n)
      PROVE IInv' /\ RowsGrow
  BY <1>2, WantedByAddSkill
<1>3. ASSUME NEW r \in Requests, NEW s \in Skills, NEW n \in Proficiencies,
             NEW status \in Statuses \cup {"keep"}, UpdateSkill(r, s, status, n)
      PROVE IInv' /\ RowsGrow
  BY <1>3, WantedByUpdateSkill
<1>4. ASSUME NEW r \in Requests, ConfirmAll(r) \/ CommitUpdate(r) \/ CommitInsert(r) \/ CommitConfirmAll(r)
      PROVE IInv' /\ RowsGrow
  BY <1>4, ConfirmAllKeeps, CommitUpdateKeeps, CommitInsertKeeps, CommitConfirmAllKeeps
<1>5. ASSUME NEW p \in Parses, NEW found \in SUBSET Skills, ExtractRead(p, found) PROVE IInv' /\ RowsGrow
  BY <1>5, ExtractReadKeeps
<1>6. ASSUME NEW p \in Parses, ExtractUpsert(p) PROVE IInv' /\ RowsGrow
  BY <1>6, ExtractUpsertKeeps
<1>7. CASE UNCHANGED vars
  BY <1>7 DEF vars, IInv, RowsGrow, ReqOK, Inserts, Updates, Accepts
<1> QED
  BY <1>1, <1>2, <1>3, <1>4, <1>5, <1>6, <1>7 DEF Next

\* Rows and requests keep their types, and a request's row outlives it.
THEOREM ProfileInvariant == Spec => []IInv
BY InitEstablishes, NextKeeps, PTL DEF Spec

-----------------------------------------------------------------------------
(* What a step may never do.                                               *)

\* The steps by which a request reads, and those of a parse, leave every rating.
LEMMA RatingsKeptByStep ==
    ASSUME IInv, [Next]_vars, NEW s \in Skills, rows[s] # NoRow, rows[s].proficiency # 0
    PROVE  rows'[s].proficiency # 0
<1>1. rows[s] \in Row
  BY DEF IInv, TypeRows
<1>2. ASSUME NEW r \in Requests, CommitUpdate(r) PROVE rows'[s].proficiency # 0
  <2> DEFINE t == req[r].skill
             w == req[r].writes
             new == [c \in DOMAIN rows[t] |-> IF c \in DOMAIN w THEN w[c] ELSE rows[t][c]]
  <2>1. Updates(req[r])
    BY <1>2 DEF CommitUpdate, IInv, ReqOK, Idle, Inserts, Accepts
  <2>2. rows[t] \in Row /\ WritesOK(w)
    BY <2>1 DEF Updates, IInv, TypeRows
  <2>3. new.proficiency # 0 \/ rows[t].proficiency = 0
    BY <2>2, WrittenIsRow
  <2>4. rows' = [rows EXCEPT ![t] = new]
    BY <1>2 DEF CommitUpdate
  <2> QED
    BY <2>1, <2>3, <2>4 DEF Updates, IInv, TypeRows
<1>3. ASSUME NEW r \in Requests, CommitInsert(r) PROVE rows'[s].proficiency # 0
  BY <1>3 DEF CommitInsert, IInv, TypeRows
<1>4. ASSUME NEW r \in Requests, CommitConfirmAll(r) PROVE rows'[s].proficiency # 0
  BY <1>1, <1>4, StatusIsSet DEF CommitConfirmAll, Statuses
<1>5. ASSUME NEW p \in Parses, ExtractUpsert(p) PROVE rows'[s].proficiency # 0
  BY <1>1, <1>5 DEF ExtractUpsert, Upserted, Row
<1>6. CASE UNCHANGED rows
  BY <1>6
<1> QED
  BY <1>2, <1>3, <1>4, <1>5, <1>6
  DEF Next, vars, Load, StartLearning, AddSkill, UpdateSkill, ConfirmAll, ExtractRead

\* For any number of requests and parses, no rating is ever lost (skill_profile.py).
THEOREM NoRatingIsLost == Spec => RatingsAreKept
<1>1. IInv /\ [Next]_vars => [\A s \in Skills : rows[s] # NoRow /\ rows[s].proficiency # 0
                                              => rows'[s].proficiency # 0]_vars
  BY RatingsKeptByStep
<1> QED
  BY <1>1, ProfileInvariant, PTL DEF Spec, RatingsAreKept

\* A step that answers no request and begins none is one of a parse.
LEMMA RulingsKeptByStep ==
    ASSUME IInv, [Next]_vars, req' = req, NEW s \in Skills, rows[s] # NoRow
    PROVE  IF rows[s].status = "suggested"
           THEN rows'[s] = [rows[s] EXCEPT !.occurrences = rows'[s].occurrences]
           ELSE rows'[s] = rows[s]
<1>1. rows[s] \in Row
  BY DEF IInv, TypeRows
<1>2. ASSUME NEW p \in Parses, ExtractUpsert(p)
      PROVE  rows'[s] = rows[s] \/ (rows[s].status = "suggested"
                                     /\ rows'[s] = [rows[s] EXCEPT !.occurrences = 1])
  BY <1>2 DEF ExtractUpsert, Upserted
<1>3. \A r \in Requests : ~CommitUpdate(r) /\ ~CommitInsert(r) /\ ~CommitConfirmAll(r)
  BY DEF CommitUpdate, CommitInsert, CommitConfirmAll, Idle, IInv
<1>4. CASE rows'[s] = rows[s]
  <2>1. rows[s] = [rows[s] EXCEPT !.occurrences = rows[s].occurrences]
    BY <1>1 DEF Row
  <2> QED
    BY <1>4, <2>1
<1>5. CASE rows[s].status = "suggested" /\ rows'[s] = [rows[s] EXCEPT !.occurrences = 1]
  BY <1>1, <1>5 DEF Row
<1>6. rows'[s] = rows[s] \/ \E p \in Parses : ExtractUpsert(p)
  BY <1>3 DEF Next, vars, Load, StartLearning, AddSkill, UpdateSkill, ConfirmAll, ExtractRead
<1> QED
  BY <1>2, <1>4, <1>5, <1>6

\* For any number of requests and parses, a parse overwrites nothing the user has ruled on
\* (tasks.py:244).
THEOREM ParsesRespectRulings == Spec => RulingsSurviveParsing
<1>1. IInv /\ [Next]_vars =>
        [(req' = req) =>
           \A s \in Skills : rows[s] # NoRow =>
             IF rows[s].status = "suggested"
             THEN rows'[s] = [rows[s] EXCEPT !.occurrences = rows'[s].occurrences]
             ELSE rows'[s] = rows[s]]_vars
  BY RulingsKeptByStep
<1> QED
  BY <1>1, ProfileInvariant, PTL DEF Spec, RulingsSurviveParsing

Asked(s) ==
    \/ rows'[s] = rows[s]
    \/ rows[s] # NoRow /\ rows'[s].status = rows[s].status
    \/ rows[s] = NoRow /\ rows'[s] = Suggestion
    \/ \E r \in Requests :
        /\ Finishes(r)
        /\ Names(r, s) \/ (Lists(r, s) /\ rows'[s].status = "confirmed")

LEMMA StandingChangesByStep ==
    ASSUME IInv, [Next]_vars, NEW s \in Skills
    PROVE  Asked(s)
<1>1. ASSUME NEW r \in Requests, CommitUpdate(r) \/ CommitInsert(r) PROVE Asked(s)
  <2>1. CASE s = req[r].skill
    <3>1. Finishes(r) /\ Names(r, s)
      BY <1>1, <2>1 DEF CommitUpdate, CommitInsert, IInv, Idle, Finishes, Names
    <3> QED
      BY <3>1 DEF Asked
  <2>2. CASE s # req[r].skill
    BY <1>1, <2>2 DEF CommitUpdate, CommitInsert, IInv, TypeRows, Asked
  <2> QED
    BY <2>1, <2>2
<1>2. ASSUME NEW r \in Requests, CommitConfirmAll(r) PROVE Asked(s)
  <2>1. CASE s \in DOMAIN req[r].listed
    <3>1. Accepts(req[r]) /\ Finishes(r)
      BY <1>2 DEF CommitConfirmAll, IInv, ReqOK, Idle, Updates, Inserts, Finishes
    <3>2. rows[s] \in Row /\ Lists(r, s)
      BY <2>1, <3>1 DEF Accepts, Lists, IInv, TypeRows
    <3>3. rows'[s].status = "confirmed"
      BY <1>2, <2>1, <3>2 DEF CommitConfirmAll, Row
    <3> QED
      BY <3>1, <3>2, <3>3 DEF Asked
  <2>2. CASE s \notin DOMAIN req[r].listed
    BY <1>2, <2>2 DEF CommitConfirmAll, Asked
  <2> QED
    BY <2>1, <2>2
<1>3. ASSUME NEW p \in Parses, ExtractUpsert(p) PROVE Asked(s)
  <2>1. CASE rows[s] = NoRow
    BY <1>3, <2>1 DEF ExtractUpsert, Upserted, Asked
  <2>2. CASE rows[s] # NoRow
    BY <1>3, <2>2 DEF ExtractUpsert, Upserted, Asked, IInv, TypeRows, Row
  <2> QED
    BY <2>1, <2>2
<1>4. CASE UNCHANGED rows
  BY <1>4 DEF Asked
<1> QED
  BY <1>1, <1>2, <1>3, <1>4
  DEF Next, vars, Load, StartLearning, AddSkill, UpdateSkill, ConfirmAll, ExtractRead

\* For any number of requests and parses, a skill's standing changes only as the user asked,
\* or from nothing to a suggestion (skill_profile.py:166).
THEOREM StandingFollowsTheUser == Spec => StandingIsAskedFor
<1>1. IInv /\ [Next]_vars => [\A s \in Skills : Asked(s)]_vars
  BY StandingChangesByStep
<1> QED
  BY <1>1, ProfileInvariant, PTL DEF Spec, StandingIsAskedFor, Asked
=============================================================================
