----------------------------- MODULE JobsProofs -----------------------------
(***************************************************************************)
(* Theorems about a posting: its requirements follow its description, its  *)
(* vector does so too where one process embeds, and each pattern of the    *)
(* matcher claims its mentions, for any vocabulary and any text.           *)
(***************************************************************************)
EXTENDS Jobs, TLAPS, WellFoundedInduction

-----------------------------------------------------------------------------
(* Edits and what they derive.                                             *)

Editing(q) == q.stage \in {"derive", "commit", "locked", "waits"}

Attached(q) == q.stage \in {"locked", "waits"}

\* An open edit: what it loaded is a title the job has had and, unless edits have met, the
\* description it still has; what it derives is of its own text, and, unless edits have met, it
\* replaces all there is.
Edit(q) ==
    /\ q = [stage |-> q.stage, title |-> q.title, description |-> q.description, was |-> q.was,
            derives |-> q.derives, replaces |-> q.replaces]
    /\ q.title \in Titles /\ q.description \in Descriptions /\ q.was.title \in history.titles
    /\ q.stage = "commit" => q.description = q.was.description
    /\ job # Gone /\ ~history.overlapped => q.was.description = job.description
    /\ Attached(q) => q.derives = Derived(q.title, q.description)
    /\ Attached(q) /\ ~history.overlapped => skills \subseteq q.replaces

Publishing == [stage |-> "publish"]

Request(q) == q \in {Idle, Publishing} \/ (Editing(q) /\ Edit(q))

Posting ==
    /\ job = [title |-> job.title, description |-> job.description, vector |-> job.vector]
    /\ job.title \in history.titles /\ job.description \in Descriptions

EditInv ==
    /\ req = [r \in Requests |-> req[r]]
    /\ \A r \in Requests : Request(req[r])
    /\ ~history.overlapped => \A r, o \in Requests : Editing(req[r]) /\ Editing(req[o]) => r = o
    /\ commits \in Nat
    /\ commits = 0 => job = Gone /\ \A r \in Requests : ~Editing(req[r])
    /\ job # Gone => Posting
    /\ history = [titles |-> history.titles, attached |-> history.attached,
                  overlapped |-> history.overlapped, lost |-> history.lost]
    /\ history.titles \subseteq Titles
    /\ SkillsFollowDescription

LEMMA Stages ==
    /\ ~Editing(Idle) /\ ~Editing(Publishing) /\ Idle.stage = "idle" /\ Publishing.stage = "publish"
    /\ \A q : Attached(q) => Editing(q)
    /\ \A q : Request(q) => (Editing(q) <=> q.stage \notin {"idle", "publish"})
BY DEF Editing, Attached, Request, Idle, Publishing

\* The rows of a text are what a posting shows of them once they are written.
LEMMA DerivedIsPlain ==
    ASSUME NEW title \in Titles, NEW description \in Descriptions
    PROVE  \A n : Plain({[skill |-> row.skill, importance |-> row.importance, by |-> n] :
                           row \in Derived(title, description)}) = Derived(title, description)
<1> DEFINE rows == Derived(title, description)
<1>1. \A row \in rows : row = [skill |-> row.skill, importance |-> row.importance]
  BY DEF Derived, DerivedFrom
<1> HIDE DEF rows
<1>2. ASSUME NEW n
      PROVE  Plain({[skill |-> row.skill, importance |-> row.importance, by |-> n] : row \in rows}) = rows
  <2> DEFINE W == {[skill |-> row.skill, importance |-> row.importance, by |-> n] : row \in rows}
  <2>1. ASSUME NEW row \in rows PROVE row \in Plain(W)
    <3>1. [skill |-> row.skill, importance |-> row.importance, by |-> n] \in W
      OBVIOUS
    <3> QED
      BY <1>1, <3>1 DEF Plain
  <2>2. ASSUME NEW row \in Plain(W) PROVE row \in rows
    BY <1>1, <2>2 DEF Plain
  <2> QED
    BY <2>1, <2>2
<1> QED
  BY <1>2 DEF rows

LEMMA PlainOfMore == ASSUME NEW A, NEW B PROVE Plain(B) \subseteq Plain(A \cup B)
BY DEF Plain

LEMMA InitEditInv == Init => EditInv
BY DEF Init, EditInv, Request, Idle, Publishing, Editing, SkillsFollowDescription

\* Steps that leave the posting and the titles it has had alone.
LEMMA RequestKeepsEditInv ==
    ASSUME EditInv, NEW r \in Requests, NEW q, req' = [req EXCEPT ![r] = q],
           UNCHANGED <<job, skills, commits>>, history'.titles = history.titles,
           history'.attached = history.attached,
           history' = [titles |-> history'.titles, attached |-> history'.attached,
                      overlapped |-> history'.overlapped, lost |-> history'.lost],
           history.overlapped => history'.overlapped,
           Request(q)', Editing(q) => commits > 0,
           Editing(q) /\ ~history'.overlapped => \A o \in Requests \ {r} : ~Editing(req[o])
    PROVE  EditInv'
<1>1. req' = [o \in Requests |-> req'[o]] /\ req'[r] = q /\ \A o \in Requests \ {r} : req'[o] = req[o]
  BY DEF EditInv
<1>2. ASSUME NEW o \in Requests PROVE Request(req[o])'
  <2>1. Request(req[o])
    BY DEF EditInv
  <2> QED
    BY <1>1, <2>1 DEF Request, Edit, Attached, Editing
<1>3. ~history'.overlapped => \A i, o \in Requests : Editing(req'[i]) /\ Editing(req'[o]) => i = o
  BY <1>1 DEF EditInv
<1>4. SkillsFollowDescription'
  BY DEF EditInv, SkillsFollowDescription
<1>5. job' # Gone => Posting'
  BY DEF EditInv, Posting
<1>6. commits' = 0 => job' = Gone /\ \A o \in Requests : ~Editing(req'[o])
  BY <1>1 DEF EditInv
<1> QED
  BY <1>1, <1>2, <1>3, <1>4, <1>5, <1>6 DEF EditInv, Editing

LEMMA OpenKeepsEditInv ==
    ASSUME EditInv, NEW r \in Requests, NEW kind \in {"derive", "commit"},
           NEW title \in Titles, NEW description \in Descriptions, Open(r, kind, title, description),
           kind = "commit" => description = job.description
    PROVE  EditInv'
<1>0. PICK was : was = [title |-> job.title, description |-> job.description]
  OBVIOUS
<1> DEFINE q == [stage |-> kind, title |-> title, description |-> description,
                 was |-> was, derives |-> {}, replaces |-> {}]
<1>1. /\ req' = [req EXCEPT ![r] = q] /\ UNCHANGED <<job, skills, commits>> /\ job # Gone
      /\ history' = [history EXCEPT !.overlapped = @ \/ \E o \in Requests :
                                                          req[o].stage \notin {"idle", "publish"}]
  BY <1>0 DEF Open
<1>2. /\ history'.titles = history.titles /\ history'.attached = history.attached
      /\ history.overlapped => history'.overlapped
      /\ history' = [titles |-> history'.titles, attached |-> history'.attached,
                      overlapped |-> history'.overlapped, lost |-> history'.lost]
      /\ history'.overlapped = (history.overlapped \/ \E o \in Requests :
                                                          req[o].stage \notin {"idle", "publish"})
  BY <1>1 DEF EditInv
<1>3. Editing(q) /\ ~Attached(q)
  BY DEF Editing, Attached
<1>4. was.title \in history.titles /\ was.description = job.description
  BY <1>0, <1>1 DEF EditInv, Posting
<1>5. Request(q)'
  BY <1>1, <1>2, <1>3, <1>4 DEF Request, Edit, Editing, Attached
<1>6. commits > 0
  BY <1>1 DEF EditInv
<1>7. ~history'.overlapped => \A o \in Requests \ {r} : ~Editing(req[o])
  BY <1>2, Stages DEF EditInv
<1> HIDE DEF q
<1> QED
  BY <1>1, <1>2, <1>5, <1>6, <1>7, RequestKeepsEditInv

LEMMA AttachKeepsEditInv ==
    ASSUME EditInv, NEW r \in Requests, AttachSkills(r)
    PROVE  EditInv'
<1>1. /\ req[r].stage = "derive" /\ Editing(req[r]) /\ Edit(req[r])
      /\ UNCHANGED <<job, skills, commits, history>>
  BY Stages DEF AttachSkills, EditInv, Request, Editing
<1>2. PICK q, stage :
         /\ stage \in {"waits", "locked"}
         /\ req' = [req EXCEPT ![r] = q]
         /\ q = [stage |-> stage, title |-> req[r].title, description |-> req[r].description,
                 was |-> req[r].was, derives |-> Derived(req[r].title, req[r].description),
                 replaces |-> skills]
  <2> DEFINE next == IF \E o \in Requests \ {r} : req[o].stage = "locked" /\ req[o].replaces \cap skills # {}
                     THEN "waits" ELSE "locked"
             rows == Derived(req[r].title, req[r].description)
  <2>1. req' = [req EXCEPT ![r].stage = next, ![r].replaces = skills, ![r].derives = rows]
    BY DEF AttachSkills, Replaced
  <2> HIDE DEF next, rows
  <2>2. PICK e : e = [req[r] EXCEPT !.stage = next, !.replaces = skills, !.derives = rows]
    OBVIOUS
  <2>3. req' = [req EXCEPT ![r] = e]
    BY <2>1, <2>2 DEF EditInv
  <2>4. PICK s, t, d, w, x, y :
           req[r] = [stage |-> s, title |-> t, description |-> d, was |-> w, derives |-> x, replaces |-> y]
    BY <1>1 DEF Edit
  <2>5. e = [stage |-> next, title |-> t, description |-> d, was |-> w, derives |-> rows, replaces |-> skills]
    <3>1. e = [[[req[r] EXCEPT !.stage = next] EXCEPT !.replaces = skills] EXCEPT !.derives = rows]
      BY <2>2
    <3>2. [req[r] EXCEPT !.stage = next]
             = [stage |-> next, title |-> t, description |-> d, was |-> w, derives |-> x, replaces |-> y]
      BY <2>4
    <3> QED
      BY <3>1, <3>2
  <2>6. t = req[r].title /\ d = req[r].description /\ w = req[r].was
    BY <2>4
  <2>7. next \in {"waits", "locked"}
    BY DEF next
  <2> QED
    <3>1. /\ req' = [req EXCEPT ![r] = e]
          /\ e = [stage |-> next, title |-> req[r].title, description |-> req[r].description,
                  was |-> req[r].was, derives |-> rows, replaces |-> skills]
      BY <2>3, <2>5, <2>6
    <3> QED
      BY <2>7, <3>1, Zenon DEF rows
<1>3. Editing(q) /\ Request(q)'
  <2>1. /\ q = [stage |-> q.stage, title |-> q.title, description |-> q.description, was |-> q.was,
                derives |-> q.derives, replaces |-> q.replaces]
        /\ q.stage = stage /\ q.title = req[r].title /\ q.description = req[r].description
        /\ q.was = req[r].was /\ q.derives = Derived(q.title, q.description) /\ q.replaces = skills
    BY <1>2
  <2>2. Editing(q)
    BY <1>2, <2>1 DEF Editing
  <2>3. /\ q.title \in Titles /\ q.description \in Descriptions /\ q.was.title \in history.titles
        /\ q.stage # "commit"
        /\ job # Gone /\ ~history.overlapped => q.was.description = job.description
    BY <1>1, <1>2, <2>1 DEF Edit
  <2>4. Edit(q)'
    BY <1>1, <2>1, <2>3 DEF Edit
  <2> QED
    BY <2>2, <2>4 DEF Request
<1>4. commits > 0
  BY <1>1 DEF EditInv
<1>5. ~history.overlapped => \A o \in Requests \ {r} : ~Editing(req[o])
  BY <1>1 DEF EditInv
<1> QED
  BY <1>1, <1>2, <1>3, <1>4, <1>5, RequestKeepsEditInv DEF EditInv

\* The posting appears.
LEMMA CreateKeepsEditInv ==
    ASSUME EditInv, NEW r \in Requests, NEW title \in Titles, NEW description \in Descriptions,
           Create(r, title, description)
    PROVE  EditInv'
<1> DEFINE rows == Derived(title, description)
<1>1. /\ commits = 0 /\ commits' = 1 /\ req' = [req EXCEPT ![r] = Publishing]
      /\ job' = [title |-> title, description |-> description, vector |-> NoVector]
      /\ skills' = {[skill |-> row.skill, importance |-> row.importance, by |-> 1] : row \in rows}
      /\ history' = [history EXCEPT !.titles = {title}, !.attached = description]
  BY DEF Create, Publishing
<1> HIDE DEF rows
<1>2. /\ history' = [titles |-> history'.titles, attached |-> history'.attached,
                      overlapped |-> history'.overlapped, lost |-> history'.lost]
      /\ history'.titles = {title} /\ history'.attached = description
  BY <1>1 DEF EditInv
<1>3. \A o \in Requests : req'[o] \in {Idle, Publishing}
  BY <1>1 DEF EditInv, Request
<1>4. \A o \in Requests : Request(req[o])' /\ ~Editing(req'[o])
  BY <1>3, Stages DEF Request
<1>5. Posting'
  BY <1>1, <1>2 DEF Posting
<1>6. SkillsFollowDescription'
  <2>1. Plain(skills') = rows
    BY <1>1, DerivedIsPlain DEF rows
  <2>2. job'.description = description
    BY <1>1
  <2> QED
    BY <1>2, <2>1, <2>2 DEF SkillsFollowDescription, rows, Plain
<1> QED
  BY <1>1, <1>2, <1>4, <1>5, <1>6 DEF EditInv, Editing

\* An edit ends: it fails, or its title and text are those of the posting now.
LEMMA UpdateCommitKeepsEditInv ==
    ASSUME EditInv, NEW r \in Requests, UpdateCommit(r)
    PROVE  EditInv'
<1> DEFINE q == req[r]
           text == q.stage # "commit"
           ok == Unique(r) /\ (job = Gone => NothingToWrite(q))
<1>1. Editing(q) /\ Edit(q) /\ (text => Attached(q))
  BY Stages DEF UpdateCommit, EditInv, Request, Editing, Attached
<1>2. /\ req' = [req EXCEPT ![r] = IF ok /\ Reembed(q) THEN Publishing ELSE Idle]
      /\ commits' = IF ok THEN commits + 1 ELSE commits
      /\ ~ok => skills' = skills
      /\ ~(ok /\ job # Gone) => job' = job /\ history' = history
      /\ ok /\ job # Gone =>
            /\ job' = Written(q)
            /\ history' = [history EXCEPT !.titles = @ \cup {job'.title},
                                          !.attached = IF text THEN q.description ELSE @]
      /\ ok /\ ~text => skills' = skills
      /\ ok /\ text => skills' = Left(r) \cup {[skill |-> row.skill, importance |-> row.importance,
                                                by |-> commits + 1] : row \in q.derives}
  BY DEF UpdateCommit, Publishing
<1>3. \A o \in Requests : IF o = r THEN req'[o] \in {Idle, Publishing} ELSE req'[o] = req[o]
  BY <1>2 DEF EditInv
<1> HIDE DEF text, ok, q
<1>4. ok /\ job # Gone =>
            /\ job' = [title |-> job'.title, description |-> job'.description, vector |-> job'.vector]
            /\ job'.title = (IF q.title # q.was.title THEN q.title ELSE job.title)
            /\ job'.description = (IF q.description # q.was.description THEN q.description ELSE job.description)
            /\ history' = [titles |-> history'.titles, attached |-> history'.attached,
                           overlapped |-> history'.overlapped, lost |-> history'.lost]
            /\ history'.titles = history.titles \cup {job'.title}
            /\ history'.attached = (IF text THEN q.description ELSE history.attached)
            /\ history'.overlapped = history.overlapped
  BY <1>2 DEF EditInv, Posting, Written
<1>5. ok /\ job # Gone => history'.titles \subseteq Titles /\ Posting' /\ q.title \in history'.titles
  BY <1>1, <1>4 DEF EditInv, Posting, Edit
<1>6. ASSUME NEW o \in Requests PROVE Request(req[o])'
  <2>1. CASE o = r
    BY <1>3, <2>1 DEF Request
  <2>2. CASE o # r /\ Editing(req[o])
    <3>1. history.overlapped /\ Edit(req[o]) /\ req'[o] = req[o]
      BY <1>1, <1>3, <2>2 DEF EditInv, Request, Editing, Idle, Publishing, q
    <3>2. history'.overlapped /\ history.titles \subseteq history'.titles
      BY <1>2, <1>4, <3>1
    <3> QED
      BY <2>2, <3>1, <3>2 DEF Request, Edit, Editing
  <2>3. CASE o # r /\ ~Editing(req[o])
    BY <1>3, <2>3 DEF EditInv, Request
  <2> QED
    BY <2>1, <2>2, <2>3
<1>7. ~history'.overlapped => \A i, o \in Requests : Editing(req'[i]) /\ Editing(req'[o]) => i = o
  BY <1>2, <1>3, <1>4, Stages DEF EditInv
<1>8. SkillsFollowDescription'
  <2>1. CASE job = Gone
    BY <1>2, <2>1 DEF SkillsFollowDescription
  <2>2. CASE ~ok
    BY <1>2, <2>2 DEF EditInv, SkillsFollowDescription, Plain
  <2>3. CASE ok /\ job # Gone /\ ~text
    <3>1. job'.description = job.description /\ history'.attached = history.attached
      BY <1>1, <1>4, <2>3 DEF Edit, text
    <3> QED
      BY <1>2, <1>4, <2>3, <3>1 DEF EditInv, SkillsFollowDescription, Plain
  <2>4. CASE ok /\ job # Gone /\ text
    <3> DEFINE rows == Derived(q.title, q.description)
               new == {[skill |-> row.skill, importance |-> row.importance, by |-> commits + 1] :
                         row \in rows}
    <3>1. q.derives = rows /\ q.title \in Titles /\ q.description \in Descriptions
      BY <1>1, <2>4 DEF Edit
    <3>2. Plain(new) = rows
      BY <3>1, DerivedIsPlain
    <3>3. skills' = Left(r) \cup new
      BY <1>2, <2>4, <3>1
    <3>4. ~history.overlapped => Left(r) = {}
      BY <1>1, <2>4 DEF Edit, Left, q
    <3> HIDE DEF new, rows
    <3>5. rows \subseteq Plain(skills') /\ (~history.overlapped => rows = Plain(skills'))
      BY <3>2, <3>3, <3>4, PlainOfMore
    <3>6. /\ history'.attached = q.description /\ q.title \in history'.titles
          /\ history'.overlapped = history.overlapped
      BY <1>4, <1>5, <2>4
    <3>7. ~history.overlapped => job'.description = q.description
      BY <1>1, <1>4, <2>4 DEF Edit
    <3>8. /\ history'.overlapped \/ Plain(skills') = Derived(q.title, job'.description)
          /\ Derived(q.title, history'.attached) \subseteq Plain(skills')
      BY <3>5, <3>6, <3>7 DEF rows
    <3>9. \E title \in history'.titles :
             /\ history'.overlapped \/ Plain(skills') = Derived(title, job'.description)
             /\ Derived(title, history'.attached) \subseteq Plain(skills')
      BY <3>6, <3>8
    <3> QED
      BY <3>9 DEF SkillsFollowDescription, Plain
  <2> QED
    BY <2>1, <2>2, <2>3, <2>4
<1>9. req' = [o \in Requests |-> req'[o]] /\ commits' \in Nat
      /\ (commits' = 0 => job' = Gone /\ \A o \in Requests : ~Editing(req'[o]))
  <2>1. req' = [o \in Requests |-> req'[o]] /\ commits' \in Nat
    BY <1>2 DEF EditInv
  <2>2. commits # 0 /\ commits' # 0
    BY <1>1, <1>2 DEF EditInv, q
  <2> QED
    BY <2>1, <2>2
<1>10. /\ job' # Gone => Posting'
       /\ history' = [titles |-> history'.titles, attached |-> history'.attached,
                      overlapped |-> history'.overlapped, lost |-> history'.lost]
       /\ history'.titles \subseteq Titles
  <2>1. CASE ok /\ job # Gone
    BY <1>4, <1>5, <2>1
  <2>2. CASE ~(ok /\ job # Gone)
    BY <1>2, <2>2 DEF EditInv, Posting
  <2> QED
    BY <2>1, <2>2
<1> QED
  BY <1>6, <1>7, <1>8, <1>9, <1>10 DEF EditInv, Editing

LEMMA NextKeepsEditInv == EditInv /\ [Next]_vars => EditInv'
<1> SUFFICES ASSUME EditInv, [Next]_vars PROVE EditInv'
  OBVIOUS
\* The posting, its skills and the edits stay; the vector and what was lost are not EditInv's.
<1>1. ASSUME UNCHANGED <<skills, req, commits>>, history' = [history EXCEPT !.lost = history'.lost],
             job' = job \/ (job # Gone /\ \E v : job' = [job EXCEPT !.vector = v])
      PROVE  EditInv'
  <2>1. /\ history' = [titles |-> history'.titles, attached |-> history'.attached,
                      overlapped |-> history'.overlapped, lost |-> history'.lost]
        /\ history'.titles = history.titles /\ history'.attached = history.attached
        /\ history'.overlapped = history.overlapped
    BY <1>1 DEF EditInv
  <2>2. job' = Gone => job = Gone \/ (job # Gone /\ \E v : job' = [job EXCEPT !.vector = v])
    BY <1>1
  <2>3. job # Gone => /\ job'.description = job.description /\ job'.title = job.title
                      /\ job' = [title |-> job'.title, description |-> job'.description, vector |-> job'.vector]
    BY <1>1 DEF EditInv, Posting
  <2>4. job = Gone => job' = Gone
    BY <1>1
  <2>5. \A o \in Requests : Request(req[o])'
    <3>1. job' # Gone => job # Gone /\ job'.description = job.description
      BY <2>3, <2>4
    <3> QED
      BY <1>1, <2>1, <3>1 DEF EditInv, Request, Edit, Editing, Attached
  <2>6. SkillsFollowDescription'
    BY <1>1, <2>1, <2>3, <2>4 DEF EditInv, SkillsFollowDescription, Plain
  <2>7. job' # Gone => Posting'
    BY <2>1, <2>3, <2>4 DEF EditInv, Posting
  <2> QED
    BY <1>1, <2>1, <2>4, <2>5, <2>6, <2>7 DEF EditInv, Editing
<1>2. ASSUME NEW r \in Requests, Publish(r) PROVE EditInv'
  <2>1. /\ req' = [req EXCEPT ![r] = Idle] /\ UNCHANGED <<job, skills, commits>>
        /\ history' = [history EXCEPT !.lost = FALSE]
    BY <1>2 DEF Publish
  <2>2. /\ history' = [titles |-> history'.titles, attached |-> history'.attached,
                      overlapped |-> history'.overlapped, lost |-> history'.lost]
        /\ history'.titles = history.titles /\ history'.attached = history.attached
        /\ history'.overlapped = history.overlapped
    BY <2>1 DEF EditInv
  <2>3. Request(Idle)' /\ ~Editing(Idle)
    BY Stages DEF Request
  <2> QED
    BY <2>1, <2>2, <2>3, RequestKeepsEditInv
<1>3. ASSUME NEW r \in Requests, Delete(r) PROVE EditInv'
  <2>1. job' = Gone /\ skills' = {} /\ UNCHANGED <<req, commits, history>>
    BY <1>3 DEF Delete
  <2>2. \A o \in Requests : Request(req[o])'
    BY <2>1 DEF EditInv, Request, Edit, Editing, Attached
  <2> QED
    BY <2>1, <2>2 DEF EditInv, SkillsFollowDescription, Editing
<1>4. ASSUME ApiDies PROVE EditInv'
  <2>1. /\ req' = [r \in Requests |-> Idle] /\ UNCHANGED <<job, skills, commits>>
        /\ history' = [history EXCEPT !.lost = history'.lost]
    BY <1>4 DEF ApiDies, EditInv
  <2>2. /\ history' = [titles |-> history'.titles, attached |-> history'.attached,
                      overlapped |-> history'.overlapped, lost |-> history'.lost]
        /\ history'.titles = history.titles /\ history'.attached = history.attached
        /\ history'.overlapped = history.overlapped
    BY <2>1 DEF EditInv
  <2>3. /\ req' = [o \in Requests |-> req'[o]]
        /\ \A o \in Requests : Request(req[o])' /\ ~Editing(req'[o])
    BY <2>1, Stages DEF Request
  <2>4. SkillsFollowDescription' /\ (job' # Gone => Posting')
    BY <2>1, <2>2 DEF EditInv, SkillsFollowDescription, Posting, Plain
  <2> QED
    BY <2>1, <2>2, <2>3, <2>4 DEF EditInv, Editing
<1>5. ASSUME NEW w \in Workers, (\E left \in 0..max_retries : EmbedBegins(w, left)) \/ EmbedRaises(w)
                                  \/ EmbedCommits(w) \/ EmbedEnds(w)
      PROVE  EditInv'
  <2>1. UNCHANGED <<skills, req, commits>>
    BY <1>5 DEF EmbedBegins, EmbedRaises, EmbedCommits, EmbedEnds
  <2>2. history' = history \/ history' = [history EXCEPT !.lost = TRUE]
    BY <1>5 DEF EmbedBegins, EmbedRaises, EmbedCommits, EmbedEnds
  <2>3. history' = [history EXCEPT !.lost = history'.lost]
    BY <2>2 DEF EditInv
  <2>4. job' = job \/ (job # Gone /\ \E v : job' = [job EXCEPT !.vector = v])
    BY <1>5 DEF EmbedBegins, EmbedRaises, EmbedCommits, EmbedEnds
  <2> QED
    BY <1>1, <2>1, <2>3, <2>4
<1>6. ASSUME NEW r \in Requests, NEW title \in Titles, NEW description \in Descriptions,
             UpdateDescription(r, title, description)
      PROVE  EditInv'
  <2>1. Open(r, "derive", title, description)
    BY <1>6 DEF UpdateDescription
  <2> QED
    BY <2>1, OpenKeepsEditInv
<1>7. ASSUME NEW r \in Requests, NEW title \in Titles, UpdateTitle(r, title) PROVE EditInv'
  <2>1. job.description \in Descriptions /\ Open(r, "commit", title, job.description)
    BY <1>7 DEF UpdateTitle, EditInv, Posting
  <2> QED
    BY <2>1, OpenKeepsEditInv
<1>8. CASE UNCHANGED vars
  <2>1. history' = [history EXCEPT !.lost = history'.lost]
    BY <1>8 DEF EditInv, vars
  <2> QED
    BY <1>1, <1>8, <2>1 DEF vars
<1> QED
  BY <1>2, <1>3, <1>4, <1>5, <1>6, <1>7, <1>8, CreateKeepsEditInv, AttachKeepsEditInv,
     UpdateCommitKeepsEditInv DEF Next

\* What a posting requires follows its description as it stands, for any texts and vocabulary
\* and however many edits, deletions and crashes there are (_attach_skills, replace_skills).
THEOREM RequirementsFollow == Spec => []SkillsFollowDescription
<1>1. EditInv => SkillsFollowDescription
  BY DEF EditInv
<1> QED
  BY <1>1, InitEditInv, NextKeepsEditInv, PTL DEF Spec

-----------------------------------------------------------------------------
(* The vector.                                                             *)

Fresh(text) == \E title \in history.titles : text = <<title, job.description>>

\* An embedding of the description as it stands is to come.
Pending ==
    \/ \E r \in Requests : req[r].stage = "publish"
    \/ \E left \in 0..max_retries : queue[left] > 0
    \/ \E w \in Workers : task[w] # Idle /\ Fresh(task[w].text)

Embedding(t) ==
    t = Idle \/ (t.left \in 0..max_retries /\ t = [stage |-> "embeds", text |-> t.text, left |-> t.left])

\* Unless the last message was lost, the vector is of the description or an embedding of it
\* is to come, by messages or tasks of which a stale one is never the last.
VectorInv ==
    /\ queue \in [0..max_retries -> Nat]
    /\ task = [w \in Workers |-> task[w]]
    /\ \A w \in Workers : Embedding(task[w])
    /\ job # Gone /\ ~history.lost =>
          Pending \/ ((\A w \in Workers : task[w] = Idle) /\ Fresh(job.vector))


LEMMA InitVectorInv == Init => VectorInv
BY DEF Init, VectorInv, Embedding, max_retries

LEMMA EditStepKeepsVectorInv ==
    ASSUME VectorInv, EditInv, NEW r \in Requests, UpdateCommit(r)
    PROVE  VectorInv'
<1> DEFINE q == req[r]
           text == q.stage # "commit"
           ok == Unique(r) /\ (job = Gone => NothingToWrite(q))
<1>1. /\ req' = [req EXCEPT ![r] = IF ok /\ text THEN Publishing ELSE Idle]
      /\ ~(ok /\ job # Gone) => job' = job /\ history' = history
      /\ ok /\ job # Gone =>
            /\ job' = Written(q)
            /\ history' = [history EXCEPT !.titles = @ \cup {job'.title},
                                          !.attached = IF text THEN q.description ELSE @]
      /\ UNCHANGED <<queue, task>>
  BY DEF UpdateCommit, Publishing, Reembed
<1>2. q.stage # "publish" /\ (~text => q.description = q.was.description)
  BY Stages DEF UpdateCommit, EditInv, Request, Edit, Idle, Publishing
<1> HIDE DEF text, ok, q
<1>3. CASE ok /\ text
  <2>1. req'[r].stage = "publish"
    BY <1>1, <1>3 DEF EditInv, Publishing
  <2> QED
    BY <1>1, <2>1 DEF VectorInv, Pending
<1>4. CASE ~(ok /\ text)
  <2>1. /\ \A o \in Requests : req[o].stage = "publish" => req'[o].stage = "publish"
    BY <1>1, <1>2, <1>4 DEF EditInv, q
  <2>2. /\ job' # Gone => job # Gone
        /\ job # Gone /\ job' # Gone => /\ job'.description = job.description
                                         /\ job'.vector = job.vector
        /\ history.titles \subseteq history'.titles
        /\ history'.lost = history.lost
    BY <1>1, <1>2, <1>4 DEF EditInv, Posting, Written
  <2>3. ASSUME job' # Gone, NEW t, Fresh(t) PROVE Fresh(t)'
    BY <2>2, <2>3 DEF Fresh
  <2>4. job' # Gone /\ Pending => Pending'
    BY <1>1, <2>1, <2>3 DEF Pending
  <2>5. job' # Gone /\ Fresh(job.vector) => Fresh(job.vector)'
    BY <2>2, <2>3 DEF Fresh
  <2>6. job' # Gone /\ ~history'.lost =>
          Pending' \/ ((\A w \in Workers : task[w] = Idle)' /\ Fresh(job.vector)')
    BY <1>1, <2>2, <2>4, <2>5 DEF VectorInv
  <2> QED
    BY <1>1, <2>6 DEF VectorInv, Fresh
<1> QED
  BY <1>3, <1>4

\* A step of the one process that embeds: the task it ends was fresh, is lost or is replaced
\* by its retry, and with it ends the last that could overwrite the vector.
LEMMA TaskStepKeepsVectorInv ==
    ASSUME VectorInv, EditInv, \A v, w \in Workers : v = w, NEW w \in Workers,
           (\E left \in 0..max_retries : EmbedBegins(w, left)) \/ EmbedCommits(w)
             \/ EmbedRaises(w) \/ EmbedEnds(w)
    PROVE  VectorInv'
<1>1. /\ UNCHANGED req /\ history'.titles = history.titles
      /\ job # Gone => job'.description = job.description
      /\ job' # Gone => job # Gone
  BY DEF EditInv, Posting, EmbedBegins, EmbedCommits, EmbedRaises, EmbedEnds
<1>2. CASE \E left \in 0..max_retries : EmbedBegins(w, left)
  <2>1. PICK left \in 0..max_retries : EmbedBegins(w, left)
    BY <1>2
  <2>2. /\ queue' = [queue EXCEPT ![left] = @ - 1] /\ queue[left] > 0
        /\ UNCHANGED <<job, history>>
        /\ job = Gone => task' = [task EXCEPT ![w] = Idle]
        /\ job # Gone => task' = [task EXCEPT ![w] = [stage |-> "embeds",
                                    text |-> <<job.title, job.description>>, left |-> left]]
    BY <2>1 DEF EmbedBegins
  <2>3. queue' \in [0..max_retries -> Nat]
    BY <2>2 DEF VectorInv
  <2>4. Embedding(task'[w])
    BY <2>2 DEF VectorInv, Embedding
  <2>5. job' # Gone => Pending'
    <3> SUFFICES ASSUME job' # Gone PROVE Pending'
      OBVIOUS
    <3>1. job # Gone /\ job.title \in history.titles
      BY <2>2 DEF EditInv, Posting
    <3>2. task'[w] = [stage |-> "embeds", text |-> <<job.title, job.description>>, left |-> left]
      BY <2>2, <3>1 DEF VectorInv
    <3>3. task'[w] # Idle /\ task'[w].text = <<job'.title, job'.description>> /\ job'.title \in history'.titles
      BY <2>2, <3>1, <3>2 DEF Idle
    <3> QED
      BY <3>3 DEF Pending, Fresh
  <2> QED
    BY <2>2, <2>3, <2>4, <2>5 DEF VectorInv, Embedding
<1>3. CASE EmbedCommits(w)
  <2>1. /\ UNCHANGED <<queue, history>> /\ task[w] # Idle
        /\ task' = [task EXCEPT ![w] = Idle]
        /\ job' # Gone => job'.vector = task[w].text /\ job'.description = job.description
    BY <1>3 DEF EmbedCommits, EditInv, Posting
  <2>2. \A v \in Workers : task'[v] = Idle
    BY <2>1 DEF VectorInv
  <2>3. ASSUME job' # Gone, ~history'.lost
        PROVE  Pending' \/ Fresh(job.vector)'
    <3>1. Pending
      BY <1>1, <2>1, <2>3 DEF VectorInv
    <3>2. CASE Fresh(task[w].text)
      <4>1. \E title \in history'.titles : job'.vector = <<title, job'.description>>
        BY <2>1, <2>3, <3>2 DEF Fresh
      <4> QED
        BY <4>1 DEF Fresh
    <3>3. CASE ~Fresh(task[w].text)
      BY <1>1, <2>1, <3>1, <3>3 DEF Pending
    <3> QED
      BY <3>2, <3>3
  <2> QED
    BY <2>1, <2>2, <2>3 DEF VectorInv, Embedding
<1>4. CASE EmbedRaises(w)
  <2>1. /\ UNCHANGED <<job, history>> /\ task[w].left \in 0..max_retries /\ task[w].left > 0
        /\ task' = [task EXCEPT ![w] = Idle]
        /\ queue' = [queue EXCEPT ![task[w].left - 1] = @ + 1]
    BY <1>4 DEF EmbedRaises, VectorInv, Embedding
  <2>2. PICK m : m = task[w].left - 1
    OBVIOUS
  <2>3. m \in 0..max_retries
    BY <2>1, <2>2 DEF max_retries
  <2>4. queue' \in [0..max_retries -> Nat] /\ queue'[m] > 0
    BY <2>1, <2>2, <2>3 DEF VectorInv
  <2> QED
    BY <2>1, <2>3, <2>4 DEF VectorInv, Embedding, Pending
<1>5. CASE EmbedEnds(w)
  <2>1. /\ UNCHANGED <<job, queue>> /\ task' = [task EXCEPT ![w] = Idle] /\ history'.lost
    BY <1>5 DEF EmbedEnds, EditInv
  <2> QED
    BY <2>1 DEF VectorInv, Embedding
<1> QED
  BY <1>2, <1>3, <1>4, <1>5

\* A request begins, goes on without a commit, or ends.
LEMMA RequestStepKeepsVectorInv ==
    ASSUME VectorInv, EditInv, NEW r \in Requests,
           \/ \E title \in Titles, description \in Descriptions :
                 Create(r, title, description) \/ UpdateDescription(r, title, description)
           \/ \E title \in Titles : UpdateTitle(r, title)
           \/ AttachSkills(r) \/ Publish(r) \/ Delete(r)
    PROVE  VectorInv'
<1>1. CASE \E title \in Titles, description \in Descriptions : Create(r, title, description)
  <2>1. req' = [req EXCEPT ![r] = Publishing] /\ UNCHANGED <<queue, task>>
    BY <1>1 DEF Create, Publishing
  <2>2. req'[r].stage = "publish"
    BY <2>1 DEF EditInv, Publishing
  <2> QED
    BY <2>1, <2>2 DEF VectorInv, Pending
<1>2. CASE AttachSkills(r) \/ \E kind \in {"derive", "commit"} : \E title, description : Open(r, kind, title, description)
  <2>1. /\ UNCHANGED <<job, queue, task>> /\ history'.titles = history.titles
        /\ history'.lost = history.lost
        /\ req[r].stage # "publish"
        /\ \E e : req' = [req EXCEPT ![r] = e]
    <3>1. CASE AttachSkills(r)
      <4>1. \E e : req' = [req EXCEPT ![r] = e]
        BY <3>1 DEF AttachSkills
      <4> QED
        BY <3>1, <4>1 DEF AttachSkills
    <3>2. CASE \E kind \in {"derive", "commit"} : \E title, description : Open(r, kind, title, description)
      <4>1. /\ req[r] = Idle /\ UNCHANGED <<job, queue, task>>
            /\ \E e : req' = [req EXCEPT ![r] = e]
            /\ \E x : history' = [history EXCEPT !.overlapped = x]
        BY <3>2 DEF Open
      <4>2. history'.titles = history.titles /\ history'.lost = history.lost
        BY <4>1 DEF EditInv
      <4>3. req[r].stage # "publish"
        BY <4>1 DEF Idle
      <4> QED
        BY <4>1, <4>2, <4>3
    <3> QED
      BY <1>2, <3>1, <3>2
  <2>2. \A o \in Requests : req[o].stage = "publish" => req'[o].stage = "publish"
    BY <2>1 DEF EditInv
  <2>3. Pending => Pending'
    BY <2>1, <2>2 DEF Pending, Fresh
  <2> QED
    BY <2>1, <2>3 DEF VectorInv, Fresh
<1>3. CASE Publish(r)
  <2>1. UNCHANGED task /\ queue' = [queue EXCEPT ![max_retries] = @ + 1]
    BY <1>3 DEF Publish
  <2>2. max_retries \in 0..max_retries
    BY DEF max_retries
  <2>3. queue' \in [0..max_retries -> Nat] /\ queue'[max_retries] > 0
    BY <2>1, <2>2 DEF VectorInv
  <2> QED
    BY <2>1, <2>2, <2>3 DEF VectorInv, Pending
<1>4. CASE Delete(r)
  BY <1>4 DEF Delete, VectorInv
<1>5. ASSUME \/ \E title \in Titles, description \in Descriptions : UpdateDescription(r, title, description)
             \/ \E title \in Titles : UpdateTitle(r, title)
      PROVE  \E kind \in {"derive", "commit"} : \E title, description : Open(r, kind, title, description)
  BY <1>5 DEF UpdateDescription, UpdateTitle
<1> QED
  BY <1>1, <1>2, <1>3, <1>4, <1>5

LEMMA NextKeepsVectorInv ==
    ASSUME VectorInv, EditInv, \A v, w \in Workers : v = w, [Next]_vars
    PROVE  VectorInv'
<1>1. ASSUME ApiDies PROVE VectorInv'
  <2>1. /\ UNCHANGED <<job, queue, task>> /\ history'.titles = history.titles
        /\ history'.lost = (history.lost \/ \E r \in Requests : req[r].stage = "publish")
    BY <1>1 DEF ApiDies, EditInv
  <2>2. ~history'.lost => ~history.lost /\ (Pending => Pending')
    BY <2>1 DEF Pending, Fresh
  <2> QED
    BY <2>1, <2>2 DEF VectorInv, Fresh
<1>2. CASE UNCHANGED vars
  BY <1>2 DEF vars, VectorInv, Pending, Fresh
<1>3. CASE Next
  BY <1>1, <1>3, EditStepKeepsVectorInv, TaskStepKeepsVectorInv, RequestStepKeepsVectorInv, Zenon DEF Next
<1> QED
  BY <1>2, <1>3

\* Once no embedding is on its way and the last was not lost, the vector is of the
\* description as it stands, where at most one process embeds, as the deployment has it
\* (Procfile: --concurrency=1): two may commit in the order they did not read.
THEOREM VectorKeepsUp ==
    ASSUME \A v, w \in Workers : v = w
    PROVE  Spec => []VectorFollowsDescription
<1>1. VectorInv => VectorFollowsDescription
  BY DEF VectorInv, VectorFollowsDescription, Drained, Pending, Fresh
<1>2. EditInv /\ VectorInv /\ [Next]_vars => (EditInv /\ VectorInv)'
  BY NextKeepsEditInv, NextKeepsVectorInv
<1> QED
  BY <1>1, <1>2, InitEditInv, InitVectorInv, PTL DEF Spec

-----------------------------------------------------------------------------
(* The matcher.                                                            *)

\* A set of numbers has a least one.
LEMMA LeastExists ==
    ASSUME NEW S, S \subseteq Nat, S # {}
    PROVE  \E n \in S : \A m \in S : n <= m
<1>1. PICK less : less = OpToRel(<, Nat)
  OBVIOUS
<1>2. IsWellFoundedOn(less, Nat)
  BY <1>1, NatLessThanWellFounded, Zenon
<1>3. ASSUME NEW m \in Nat, NEW n \in Nat, m < n PROVE <<m, n>> \in less
  <2>1. <<m, n>> \in OpToRel(<, Nat)
    BY <1>3 DEF OpToRel
  <2> QED
    BY <1>1, <2>1, Zenon
<1>4. PICK n \in S : \A m \in S : ~ (<<m, n>> \in less)
  BY <1>2, WFMin, Zenon
<1>5. \A m \in S : ~ (m < n)
  BY <1>3, <1>4, Zenon
<1> QED
  BY <1>5

\* A mention that starts at i is of a character at least, and ends in the text.
LEMMA BranchesAreSpans ==
    ASSUME NEW entries \in SUBSET Vocabulary, NEW text \in Texts, NEW i \in 1..Len(text),
           NEW span \in Branches(entries, text, i)
    PROVE  span[1] = i /\ span[2] \in i..Len(text)
<1>1. PICK length \in Lengths(entries) : span = <<i, i + length - 1>> /\ span[2] <= Len(text)
  BY DEF Branches
<1>2. length \in Nat \ {0}
  <2>1. PICK entry \in entries : \E term \in entry.terms : length = Len(term)
    BY <1>1 DEF Lengths
  <2> PICK term \in entry.terms : length = Len(term)
    BY <2>1
  <2>2. term \in Seq(DOMAIN Lower) /\ term # <<>>
    BY <2>1, TermsAreWords
  <2>3. Len(term) \in Nat /\ Len(term) # 0
    BY <2>2
  <2> QED
    BY <2>3
<1>3. Len(text) \in Nat
  BY TextsAreText
<1> QED
  BY <1>1, <1>2, <1>3

\* Where a branch matches, the longest that does is a match.
LEMMA PreferredIsLongest ==
    ASSUME NEW entries \in SUBSET Vocabulary, NEW text \in Texts, NEW i \in 1..Len(text),
           Branches(entries, text, i) # {}
    PROVE  /\ Preferred(Branches(entries, text, i)) \in Branches(entries, text, i)
           /\ \A other \in Branches(entries, text, i) : Preferred(Branches(entries, text, i))[2] >= other[2]
<1> DEFINE here == Branches(entries, text, i)
           rests == {Len(text) - span[2] : span \in here}
<1>1. Len(text) \in Nat
  BY TextsAreText
<1>2. \A span \in here : span[2] \in i..Len(text)
  BY BranchesAreSpans
<1>3. rests \subseteq Nat /\ rests # {}
  BY <1>1, <1>2
<1> HIDE DEF here
<1>4. PICK n \in rests : \A m \in rests : n <= m
  BY <1>3, LeastExists
<1>5. PICK span \in here : n = Len(text) - span[2]
  BY <1>4
<1>6. ASSUME NEW other \in here PROVE span[2] >= other[2]
  <2>1. Len(text) - other[2] \in rests
    OBVIOUS
  <2>2. n <= Len(text) - other[2]
    BY <1>4, <2>1
  <2> QED
    BY <1>1, <1>2, <1>5, <2>2
<1>7. \E p \in here : \A other \in here : p[2] >= other[2]
  BY <1>5, <1>6
<1>8. Preferred(here) \in here /\ \A other \in here : Preferred(here)[2] >= other[2]
  BY <1>7 DEF Preferred
<1> QED
  BY <1>8 DEF here

\* What finditer claims from i on, given what it claims from every later place on.
From(entries, text, later, i) ==
    IF i > Len(text) THEN {}
    ELSE LET here == Branches(entries, text, i)
         IN IF here = {} THEN later[i + 1]
            ELSE {Preferred(here)} \cup later[Preferred(here)[2] + 1]

\* It looks at later places only.
LEMMA FromLooksAhead ==
    ASSUME NEW entries \in SUBSET Vocabulary, NEW text \in Texts, NEW i \in 1..(Len(text) + 1),
           NEW one, NEW other, \A j \in (i + 1)..(Len(text) + 1) : one[j] = other[j]
    PROVE  From(entries, text, one, i) = From(entries, text, other, i)
<1> DEFINE here == Branches(entries, text, i)
<1>1. Len(text) \in Nat
  BY TextsAreText
<1>2. CASE i > Len(text)
  BY <1>2 DEF From
<1>3. CASE i <= Len(text) /\ here = {}
  <2>1. one[i + 1] = other[i + 1]
    BY <1>1, <1>3
  <2> QED
    BY <1>1, <1>3, <2>1 DEF From
<1>4. CASE i <= Len(text) /\ here # {}
  <2>1. Preferred(here)[2] \in i..Len(text)
    BY <1>1, <1>4, PreferredIsLongest, BranchesAreSpans
  <2>2. one[Preferred(here)[2] + 1] = other[Preferred(here)[2] + 1]
    BY <1>1, <2>1
  <2> QED
    BY <1>1, <1>4, <2>2 DEF From
<1> QED
  BY <1>1, <1>2, <1>3, <1>4

\* Hence its scan from right to left is defined.
LEMMA ScanExists ==
    ASSUME NEW entries \in SUBSET Vocabulary, NEW text \in Texts
    PROVE  \E scan : scan = [i \in 1..(Len(text) + 1) |-> From(entries, text, scan, i)]
<1> DEFINE N == Len(text)
           Scans(g, k) == g = [i \in k..(N + 1) |-> From(entries, text, g, i)]
           starts == {k \in 1..(N + 1) : \E g : Scans(g, k)}
<1>1. N \in Nat
  BY TextsAreText
<1>2. N + 1 \in starts
  <2> DEFINE g == [i \in (N + 1)..(N + 1) |-> {}]
  <2>1. \A h : From(entries, text, h, N + 1) = {}
    BY <1>1 DEF From
  <2>2. Scans(g, N + 1)
    BY <1>1, <2>1
  <2> HIDE DEF Scans, g
  <2> QED
    BY <1>1, <2>2
<1> HIDE DEF N, Scans, starts
<1>3. starts \subseteq Nat
  BY <1>1 DEF starts
<1>4. PICK k \in starts : \A m \in starts : k <= m
  BY <1>2, <1>3, LeastExists
<1>5. PICK g : Scans(g, k)
  BY <1>4 DEF starts
<1>6. k \in 1..(N + 1)
  BY <1>4 DEF starts
<1>7. k = 1
  <2> SUFFICES ASSUME k # 1 PROVE FALSE
    OBVIOUS
  <2> DEFINE h == [i \in (k - 1)..(N + 1) |-> IF i = k - 1 THEN From(entries, text, g, i) ELSE g[i]]
  <2>1. \A j \in k..(N + 1) : h[j] = g[j]
    BY <1>1, <1>6
  <2>2. ASSUME NEW i \in (k - 1)..(N + 1)
        PROVE  h[i] = From(entries, text, h, i)
    <3>1. From(entries, text, g, i) = From(entries, text, h, i)
      <4>1. i \in 1..(Len(text) + 1)
        BY <1>1, <1>6 DEF N
      <4>2. \A j \in (i + 1)..(Len(text) + 1) : g[j] = h[j]
        BY <1>1, <1>6, <2>1 DEF N
      <4> HIDE DEF h
      <4> QED
        BY <4>1, <4>2, FromLooksAhead
    <3>2. i # k - 1 => g[i] = From(entries, text, g, i)
      BY <1>1, <1>5, <1>6 DEF Scans
    <3> QED
      BY <3>1, <3>2
  <2>3. h = [i \in (k - 1)..(N + 1) |-> h[i]]
    OBVIOUS
  <2> HIDE DEF h
  <2>4. Scans(h, k - 1)
    BY <2>2, <2>3 DEF Scans
  <2>5. k - 1 \in starts
    BY <1>1, <1>6, <2>4 DEF starts
  <2> QED
    BY <1>4, <1>6, <2>5
<1> QED
  BY <1>5, <1>7 DEF Scans, N

\* What is claimed from i on, as the property has it of the whole text.
ClaimsFrom(entries, text, claimed, i) ==
    /\ \A span \in claimed : \E j \in i..Len(text) : span \in Branches(entries, text, j)
    /\ \A one, other \in claimed : Overlap(one, other) => one = other
    /\ \A j \in i..Len(text) : \A span \in Branches(entries, text, j) \ claimed : \E by \in claimed :
        /\ Overlap(by, span)
        /\ by[1] < span[1] \/ (by[1] = span[1] /\ by[2] > span[2])

LEMMA ClaimsGoOn ==
    ASSUME NEW entries \in SUBSET Vocabulary, NEW text \in Texts, NEW i \in 1..(Len(text) + 1), NEW scan,
           \A j \in (i + 1)..(Len(text) + 1) : ClaimsFrom(entries, text, scan[j], j)
    PROVE  ClaimsFrom(entries, text, From(entries, text, scan, i), i)
<1> DEFINE here == Branches(entries, text, i)
<1>1. Len(text) \in Nat
  BY TextsAreText
<1>2. CASE i > Len(text)
  BY <1>1, <1>2 DEF From, ClaimsFrom
<1>3. CASE i <= Len(text) /\ here = {}
  <2>1. From(entries, text, scan, i) = scan[i + 1]
    BY <1>1, <1>3 DEF From
  <2>2. ClaimsFrom(entries, text, scan[i + 1], i + 1)
    BY <1>1, <1>3
  <2>3. \A j \in i..Len(text) : j \in (i + 1)..Len(text) \/ Branches(entries, text, j) = {}
    BY <1>1, <1>3
  <2>4. \A j \in (i + 1)..Len(text) : j \in i..Len(text)
    BY <1>1
  <2> QED
    BY <2>1, <2>2, <2>3, <2>4 DEF ClaimsFrom
<1>4. CASE i <= Len(text) /\ here # {}
  <2> DEFINE p == Preferred(here)
             rest == scan[p[2] + 1]
  <2>1. i \in 1..Len(text)
    BY <1>1, <1>4
  <2>2. p \in here /\ \A other \in here : p[2] >= other[2]
    BY <1>4, <2>1, PreferredIsLongest
  <2>3. p[1] = i /\ p[2] \in i..Len(text)
    BY <2>1, <2>2, BranchesAreSpans
  <2>4. From(entries, text, scan, i) = {p} \cup rest
    BY <1>1, <1>4 DEF From
  <2>5. ClaimsFrom(entries, text, rest, p[2] + 1)
    BY <1>1, <2>1, <2>3
  <2> HIDE DEF p, rest
  <2>6. \A j \in (p[2] + 1)..Len(text) : j \in 1..Len(text) /\ j \in i..Len(text)
    BY <1>1, <2>1, <2>3
  <2>7. \A span \in rest : \E j \in (p[2] + 1)..Len(text) :
          span \in Branches(entries, text, j) /\ span[1] = j /\ span[2] \in j..Len(text)
    BY <2>5, <2>6, BranchesAreSpans DEF ClaimsFrom
  <2>8. \A span \in {p} \cup rest : \E j \in i..Len(text) : span \in Branches(entries, text, j)
    BY <1>1, <2>1, <2>2, <2>6, <2>7
  <2>9. \A span \in rest : ~Overlap(p, span) /\ ~Overlap(span, p)
    BY <1>1, <2>3, <2>7 DEF Overlap
  <2>10. \A one, other \in {p} \cup rest : Overlap(one, other) => one = other
    BY <2>5, <2>9 DEF ClaimsFrom
  <2>11. ASSUME NEW j \in i..Len(text), NEW span \in Branches(entries, text, j), span \notin {p} \cup rest
         PROVE  \E by \in {p} \cup rest :
                  /\ Overlap(by, span)
                  /\ by[1] < span[1] \/ (by[1] = span[1] /\ by[2] > span[2])
    <3>1. j \in 1..Len(text)
      BY <1>1, <2>1
    <3>2. span[1] = j /\ span[2] \in j..Len(text)
      BY <3>1, BranchesAreSpans
    <3>3. CASE j > p[2]
      BY <1>1, <2>3, <2>5, <2>11, <3>3 DEF ClaimsFrom
    <3>4. CASE j <= p[2] /\ j > i
      BY <1>1, <2>1, <2>3, <3>2, <3>4 DEF Overlap
    <3>5. CASE j = i
      <4>1. span \in here /\ span = <<i, span[2]>> /\ p = <<i, p[2]>>
        BY <2>2, <2>3, <3>2, <3>5 DEF Branches
      <4>2. p[2] > span[2]
        BY <1>1, <2>1, <2>2, <2>3, <2>11, <3>2, <4>1
      <4> QED
        BY <1>1, <2>1, <2>3, <3>2, <3>5, <4>2 DEF Overlap
    <3> QED
      BY <1>1, <2>1, <2>3, <3>3, <3>4, <3>5
  <2> QED
    BY <2>4, <2>8, <2>10, <2>11 DEF ClaimsFrom
<1> QED
  BY <1>1, <1>2, <1>3, <1>4

\* A pattern claims its mentions of any text, for any names.
LEMMA EveryMentionIsClaimed ==
    ASSUME NEW entries \in SUBSET Vocabulary, NEW text \in Texts
    PROVE  ClaimsMentions(entries, text)
<1> DEFINE N == Len(text)
           scan == CHOOSE s : s = [i \in 1..(N + 1) |->
                      IF i > N THEN {}
                      ELSE LET here == Branches(entries, text, i)
                           IN IF here = {} THEN s[i + 1]
                              ELSE {Preferred(here)} \cup s[Preferred(here)[2] + 1]]
           wrong == {i \in 1..(N + 1) : ~ClaimsFrom(entries, text, scan[i], i)}
           left == {N + 1 - i : i \in wrong}
<1>1. N \in Nat /\ DOMAIN text = 1..N
  BY TextsAreText
<1>2. Spans(entries, text) = scan[1]
  BY DEF Spans
<1>3. scan = [i \in 1..(N + 1) |-> From(entries, text, scan, i)]
  BY ScanExists DEF From
<1> HIDE DEF scan
<1>4. wrong = {}
  <2> SUFFICES ASSUME wrong # {} PROVE FALSE
    OBVIOUS
  <2>1. left \subseteq Nat /\ left # {}
    BY <1>1
  <2> HIDE DEF left
  <2>2. PICK n \in left : \A m \in left : n <= m
    BY <2>1, LeastExists
  <2>3. PICK i \in wrong : n = N + 1 - i
    BY <2>2 DEF left
  <2>4. ASSUME NEW j \in (i + 1)..(N + 1) PROVE ClaimsFrom(entries, text, scan[j], j)
    <3>1. j \in 1..(N + 1) /\ N + 1 - j < n
      BY <1>1, <2>3
    <3>2. N + 1 - j \notin left
      BY <1>1, <2>1, <2>2, <3>1
    <3> QED
      BY <3>1, <3>2 DEF left
  <2>5. ClaimsFrom(entries, text, From(entries, text, scan, i), i)
    BY <2>4, ClaimsGoOn
  <2> QED
    BY <1>3, <2>5
<1>5. ClaimsFrom(entries, text, scan[1], 1)
  BY <1>1, <1>4
<1> QED
  BY <1>1, <1>2, <1>5 DEF ClaimsFrom, ClaimsMentions, Mentioned

\* Whatever text a posting is edited to, each of the two patterns claims every mention of its
\* own names once, for any vocabulary and any text (SkillMatcher.build, SkillMatcher.find);
\* what both claim is counted by both.
THEOREM EachPatternClaims == Spec => []PatternsClaimMentions
<1>1. PatternsClaimMentions
  BY EveryMentionIsClaimed DEF PatternsClaimMentions, ClaimsAreRight, Sensitive, Insensitive
<1> QED
  BY <1>1, PTL
=============================================================================
