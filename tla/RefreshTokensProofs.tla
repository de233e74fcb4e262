------------------------ MODULE RefreshTokensProofs ------------------------
(***************************************************************************)
(* Theorems about RefreshTokens, for any accounts, tokens and number of    *)
(* transactions.                                                           *)
(*                                                                         *)
(* An arrival only opens a request (Begin), a step inside a request only   *)
(* changes that request (Advance), a commit replaces rows and closes the   *)
(* request (Close).  One lemma per kind says what the invariant needs of   *)
(* it; the case of each action shows that it meets those needs.            *)
(***************************************************************************)
EXTENDS RefreshTokens, TLAPS

\* What each kind of request holds at each of its steps.
Shape(r) ==
    /\ r.op = "none" => r = Idle
    /\ r.op = "login" =>
          /\ r.pc = "loaded" /\ r.user \in Users /\ r.new \in Tokens /\ r.fam = r.new
          /\ r.todo = {} /\ r.held = {}
    /\ r.op = "refresh" =>
          /\ r.pc \in {"presented", "loaded", "flushed"}
          /\ r.user \in Users /\ r.fam \in Tokens /\ r.tok \in Tokens /\ r.new \in Tokens
          /\ r.todo = {} /\ r.held = IF r.pc = "flushed" THEN {r.tok} ELSE {}
    /\ r.op \in {"reuse", "logout"} =>
          r.pc \in {"loaded", "locking"} /\ r.user \in Users /\ r.fam \in Tokens /\ r.new = NoToken
    /\ r.op = "reset" =>
          r.pc \in {"loaded", "locking"} /\ r.user \in Users /\ r.fam = NoToken /\ r.new = NoToken
    /\ r.op = "purge" => r.pc = "locking" /\ r.fam = NoToken /\ r.new = NoToken

\* What TypeOK says of one row.
Stored(r) == r.status \in {"live", "revoked"}
Sound(r) == IF Stored(r) THEN r.user \in Users /\ r.fam \in Tokens ELSE r = NoRow(r.status)

RequestShape == \A p \in Txns : Shape(req[p])

\* The id a request will insert is nobody else's.
Reserved ==
    \A p \in Txns : req[p].new \in Tokens =>
        /\ rows[req[p].new].status = "unissued"
        /\ \A q \in Txns \ {p} : req[q].new # req[p].new

\* A locked row exists, and has one holder.
Locks == \A p \in Txns : \A t \in req[p].held : Exists(t) /\ ~LockedByOther(p, t)

Inv1 == TypeOK /\ RequestShape /\ Reserved /\ Locks

-----------------------------------------------------------------------------

LEMMA IdleIsRequest == Idle \in Request /\ Shape(Idle)
  BY DEF Idle, Request, Shape, Ops, Steps

LEMMA ClosedIsIdle == ASSUME Inv1, NEW p \in Txns PROVE ~Open(p) <=> req[p] = Idle
<1>1. req[p] \in Request /\ Shape(req[p])
  BY DEF Inv1, TypeOK, RequestShape
<1>2. Idle.pc = "idle"
  BY DEF Idle
<1>3. QED
  BY <1>1, <1>2 DEF Open, Shape, Request, Ops

LEMMA BeginKeepsInv1 ==
  ASSUME Inv1, NEW p \in Txns, NEW r \in Request, Begin(p, r),
         Shape(r), r.held = {}, r.new \in Tokens => r.new \in Unused
  PROVE  Inv1'
<1>1. /\ req' \in [Txns -> Request] /\ req'[p] = r
      /\ \A q \in Txns \ {p} : req'[q] = req[q]
  BY DEF Begin, Inv1, TypeOK
<1>2. UNCHANGED <<rows, users, ended>>
  BY DEF Begin
<1>3. TypeOK'
  <2>1. r.fam \in Tokens \cup {NoToken} /\ r.user \in Users \cup {NoUser}
    BY DEF Request
  <2>2. crossedFam' \subseteq Tokens /\ crossedUser' \subseteq Users
    BY <2>1 DEF Begin, Inv1, TypeOK
  <2>3. QED
    BY <1>1, <1>2, <2>2 DEF Inv1, TypeOK, Exists
<1>4. RequestShape'
  BY <1>1 DEF Inv1, RequestShape
<1>5. Reserved'
  BY <1>1, <1>2 DEF Inv1, Reserved, Unused
<1>6. Locks'
  BY <1>1, <1>2 DEF Inv1, Locks, Exists, LockedByOther
<1>7. QED
  BY <1>3, <1>4, <1>5, <1>6 DEF Inv1

LEMMA AdvanceKeepsInv1 ==
  ASSUME Inv1, NEW p \in Txns, NEW r \in Request, Advance(p, r),
         Shape(r), r.new \in {req[p].new, NoToken},
         \A t \in r.held : Exists(t) /\ ~LockedByOther(p, t)
  PROVE  Inv1'
<1>1. /\ req' \in [Txns -> Request] /\ req'[p] = r
      /\ \A q \in Txns \ {p} : req'[q] = req[q]
  BY DEF Advance, Inv1, TypeOK
<1>2. UNCHANGED <<rows, users, crossedFam, crossedUser, ended>>
  BY DEF Advance
<1>3. TypeOK'
  BY <1>1, <1>2 DEF Inv1, TypeOK, Exists
<1>4. RequestShape'
  BY <1>1 DEF Inv1, RequestShape
<1>5. Reserved'
  BY <1>1, <1>2, NoTokenFresh DEF Inv1, Reserved
<1>6. Locks'
  BY <1>1, <1>2 DEF Inv1, Locks, Exists, LockedByOther
<1>7. QED
  BY <1>3, <1>4, <1>5, <1>6 DEF Inv1

LEMMA SoundRows ==
  ASSUME TypeOK PROVE \A t \in Tokens : Sound(rows[t]) /\ (Exists(t) <=> Stored(rows[t]))
  BY DEF TypeOK, Sound, Stored, Exists

\* The ways a commit rewrites a row.
LEMMA Revoking ==
  ASSUME NEW r \in Row, Sound(r), Stored(r)
  PROVE  LET v == [r EXCEPT !.status = "revoked"]
         IN  /\ v \in Row /\ Sound(v) /\ Stored(v)
             /\ v.user = r.user /\ v.fam = r.fam /\ v.epoch = r.epoch /\ v.status = "revoked"
<1> DEFINE v == [r EXCEPT !.status = "revoked"]
<1>1. v \in Row /\ v.status = "revoked" /\ v.user = r.user /\ v.fam = r.fam /\ v.epoch = r.epoch
  BY DEF Row, Status
<1>2. QED
  BY <1>1 DEF Sound, Stored

LEMMA Linking ==
  ASSUME NEW r \in Row, Sound(r), Stored(r), NEW n \in Tokens \cup {NoToken}
  PROVE  LET v == [r EXCEPT !.next = n]
         IN  /\ v \in Row /\ Sound(v) /\ Stored(v)
             /\ v.user = r.user /\ v.fam = r.fam /\ v.epoch = r.epoch /\ v.status = r.status
<1> DEFINE v == [r EXCEPT !.next = n]
<1>1. v \in Row /\ v.status = r.status /\ v.user = r.user /\ v.fam = r.fam /\ v.epoch = r.epoch
  BY DEF Row
<1>2. QED
  BY <1>1 DEF Sound, Stored

\* A commit may not touch the ids others reserved, nor remove rows they locked.
LEMMA CloseKeepsInv1 ==
  ASSUME Inv1, NEW p \in Txns, Close(p), users' \in [Users -> Account],
         ended' \subseteq Tokens, rows' \in [Tokens -> Row],
         \A t \in Tokens : Sound(rows'[t]),
         \A t \in Tokens : rows[t].status = "unissued" /\ t # req[p].new
                              => rows'[t].status = "unissued",
         \A t \in Tokens : Stored(rows[t]) /\ t \notin req[p].held => Stored(rows'[t])
  PROVE  Inv1'
<1>1. /\ req' \in [Txns -> Request] /\ req'[p] = Idle
      /\ \A q \in Txns \ {p} : req'[q] = req[q]
  BY IdleIsRequest DEF Close, Inv1, TypeOK
<1>2. Idle.new = NoToken /\ Idle.held = {}
  BY DEF Idle
<1>3. TypeOK'
  BY <1>1 DEF Close, Inv1, TypeOK, Sound, Stored, Exists
<1>4. RequestShape'
  BY <1>1, IdleIsRequest DEF Inv1, RequestShape
<1>5. Reserved'
  BY <1>1, <1>2, NoTokenFresh DEF Inv1, Reserved
<1>6. Locks'
  <2> SUFFICES ASSUME NEW q \in Txns, NEW t \in req'[q].held
               PROVE  Exists(t)' /\ ~LockedByOther(q, t)'
    BY DEF Locks
  <2>1. q # p /\ t \in req[q].held
    BY <1>1, <1>2
  <2>2. Exists(t) /\ ~LockedByOther(q, t) /\ t \in Tokens
    BY <2>1 DEF Inv1, Locks, TypeOK, Request
  <2>3. t \notin req[p].held
    BY <2>1, <2>2 DEF LockedByOther
  <2>4. QED
    BY <1>1, <1>2, <2>2, <2>3 DEF LockedByOther, Exists, Stored
<1>7. QED
  BY <1>3, <1>4, <1>5, <1>6 DEF Inv1

-----------------------------------------------------------------------------
(* Each action keeps Inv1.                                                 *)

LEMMA InitInv1 == Init => Inv1
<1> SUFFICES ASSUME Init PROVE Inv1
  OBVIOUS
<1>1. NoRow("unissued") \in Row /\ \A t \in Tokens : rows[t] = NoRow("unissued")
  BY DEF Init, NoRow, Row, Status
<1>2. NoRow("unissued").status = "unissued"
  BY DEF NoRow
<1>3. \A u \in Users : [active |-> TRUE, pwd |-> 0, resets |-> 0, legacy |-> TRUE] \in Account
  BY DEF Account
<1>4. \A p \in Txns : req[p] = Idle
  BY DEF Init
<1>5. TypeOK
  BY <1>1, <1>2, <1>3, IdleIsRequest DEF Init, TypeOK, Exists
<1>6. RequestShape
  BY <1>4, IdleIsRequest DEF RequestShape
<1>7. Idle.new = NoToken /\ Idle.held = {}
  BY DEF Idle
<1>8. Reserved /\ Locks
  BY <1>4, <1>7, NoTokenFresh DEF Reserved, Locks
<1>9. QED
  BY <1>5, <1>6, <1>8 DEF Inv1

\* What an arrival knows of the rows it has just read.
Opening(p, r) ==
    /\ Begin(p, r)
    /\ Shape(r)
    /\ r.held = {}
    /\ r.new \in Tokens => r.new \in Unused
    /\ r.op = "refresh" => IsLive(r.tok) /\ rows[r.tok].fam = r.fam /\ rows[r.tok].user = r.user
    /\ r.op = "purge" => r.todo = {t \in Tokens : Exists(t) /\ rows[t].expired}
    /\ r.op \in {"reuse", "logout"} => r.pc = "loaded"
    /\ r.op \in {"reuse", "logout"} => \E t \in Tokens : Exists(t) /\ rows[t].fam = r.fam

LEMMA Arrivals ==
  ASSUME Inv1, NEW p \in Txns, Arrive(p) PROVE \E r \in Request : Opening(p, r)
<1>0. /\ rows \in [Tokens -> Row] /\ users \in [Users -> Account]
      /\ \A t \in Tokens : Exists(t) => rows[t].user \in Users /\ rows[t].fam \in Tokens
  BY DEF Inv1, TypeOK
<1>1. ASSUME NEW u \in Users, NEW s \in Tokens, NEW b \in BOOLEAN, LoginRead(p, u, s, b)
      PROVE  \E r \in Request : Opening(p, r)
  <2> DEFINE r == [Idle EXCEPT !.op = "login", !.pc = "loaded", !.user = u, !.fam = s,
                               !.new = s, !.epoch = users[u].resets, !.rehash = b,
                               !.pwd = IF b THEN users[u].pwd ELSE 0]
  <2>1. Begin(p, r) /\ s \in Unused
    BY <1>1 DEF LoginRead
  <2>2. r \in Request /\ Shape(r) /\ r.held = {} /\ r.new = s /\ r.op = "login"
    BY <1>0 DEF Idle, Request, Shape, Ops, Steps, Account
  <2>3. QED
    BY <2>1, <2>2 DEF Opening
<1>2. ASSUME NEW t \in Tokens, NEW s \in Tokens, RefreshRead(p, t, s)
      PROVE  \E r \in Request : Opening(p, r)
  <2> DEFINE r == [Idle EXCEPT !.op = "refresh", !.pc = "presented", !.user = rows[t].user,
                               !.fam = rows[t].fam, !.tok = t, !.new = s,
                               !.epoch = rows[t].epoch]
  <2>1. Begin(p, r) /\ s \in Unused /\ Exists(t) /\ IsLive(t)
    BY <1>2 DEF RefreshRead, IsLive, Exists
  <2>2. r \in Request /\ Shape(r) /\ r.held = {} /\ r.new = s /\ r.op = "refresh"
        /\ r.tok = t /\ r.fam = rows[t].fam /\ r.user = rows[t].user
    BY <1>0, <2>1 DEF Idle, Request, Shape, Ops, Steps, Row
  <2>3. QED
    BY <2>1, <2>2 DEF Opening
<1>3. ASSUME NEW t \in Tokens, NEW o \in {"reuse", "logout"}, Exists(t),
             Begin(p, [Idle EXCEPT !.op = o, !.pc = "loaded", !.user = rows[t].user,
                                   !.fam = rows[t].fam])
      PROVE  \E r \in Request : Opening(p, r)
  <2> DEFINE r == [Idle EXCEPT !.op = o, !.pc = "loaded", !.user = rows[t].user,
                               !.fam = rows[t].fam]
  <2>1. r \in Request /\ Shape(r) /\ r.held = {} /\ r.new = NoToken /\ r.op = o
        /\ r.fam = rows[t].fam /\ r.pc = "loaded"
    BY <1>0, <1>3 DEF Idle, Request, Shape, Ops, Steps, Row
  <2>2. QED
    BY <1>3, <2>1, NoTokenFresh DEF Opening
<1>4. ASSUME NEW u \in Users, ResetRead(p, u)
      PROVE  \E r \in Request : Opening(p, r)
  <2> DEFINE r == [Idle EXCEPT !.op = "reset", !.pc = "loaded", !.user = u]
  <2>1. Begin(p, r)
    BY <1>4 DEF ResetRead
  <2>2. r \in Request /\ Shape(r) /\ r.held = {} /\ r.new = NoToken /\ r.op = "reset"
    BY DEF Idle, Request, Shape, Ops, Steps
  <2>3. QED
    BY <2>1, <2>2, NoTokenFresh DEF Opening
<1>5. ASSUME PurgeStart(p)
      PROVE  \E r \in Request : Opening(p, r)
  <2> DEFINE expired == {t \in Tokens : Exists(t) /\ rows[t].expired}
             r == [Idle EXCEPT !.op = "purge", !.pc = "locking", !.todo = expired]
  <2>1. Begin(p, r)
    BY <1>5 DEF PurgeStart
  <2>2. r \in Request /\ Shape(r) /\ r.held = {} /\ r.new = NoToken /\ r.op = "purge" /\ r.todo = expired
    BY DEF Idle, Request, Shape, Ops, Steps
  <2>3. QED
    BY <2>1, <2>2, NoTokenFresh DEF Opening
<1>6. ASSUME NEW t \in Tokens, ReuseRead(p, t) PROVE \E r \in Request : Opening(p, r)
  BY <1>3, <1>6 DEF ReuseRead, IsRevoked, Exists
<1>7. ASSUME NEW t \in Tokens, LogoutRead(p, t) PROVE \E r \in Request : Opening(p, r)
  BY <1>3, <1>7 DEF LogoutRead
<1>8. QED
  BY <1>1, <1>2, <1>4, <1>5, <1>6, <1>7 DEF Arrive

LEMMA ArriveKeepsInv1 ==
  ASSUME Inv1, NEW p \in Txns, Arrive(p) PROVE Inv1'
  BY Arrivals, BeginKeepsInv1 DEF Opening

\* A commit inserts its reserved row, revokes rows it locked, or deletes them.
LEMMA CommitKeepsInv1 ==
  ASSUME Inv1, NEW p \in Txns, Commit(p) PROVE Inv1'
<1>a. rows \in [Tokens -> Row] /\ users \in [Users -> Account] /\ ended \subseteq Tokens
  BY DEF Inv1, TypeOK
<1>b. \A t \in Tokens : Sound(rows[t])
  BY SoundRows DEF Inv1
<1>c. req[p] \in Request /\ Shape(req[p])
  BY DEF Inv1, TypeOK, RequestShape
<1>d. \A t \in req[p].held : t \in Tokens /\ Stored(rows[t])
  BY <1>c DEF Inv1, Locks, Exists, Stored, Request
<1>1. CASE LoginCommit(p)
  <2>1. req[p].new \in Tokens /\ req[p].fam = req[p].new /\ req[p].user \in Users
    BY <1>c, <1>1 DEF LoginCommit, Shape
  <2>2. rows' = [rows EXCEPT ![req[p].new] = NewRow(p)] /\ Close(p) /\ ended' = ended
    BY <1>1 DEF LoginCommit
  <2>3. NewRow(p) \in Row /\ Sound(NewRow(p)) /\ Stored(NewRow(p))
    BY <1>c, <2>1 DEF NewRow, Row, Status, Request, Sound, Stored
  <2>4. users' \in [Users -> Account]
    BY <1>a, <1>c, <1>1, <2>1 DEF LoginCommit, Account, Request
  <2>5. rows' \in [Tokens -> Row] /\ \A t \in Tokens : Sound(rows'[t])
    BY <1>a, <1>b, <2>2, <2>3
  <2>6. \A t \in Tokens : Stored(rows[t]) => Stored(rows'[t])
    BY <1>a, <2>2, <2>3
  <2>7. \A t \in Tokens : t # req[p].new => rows'[t] = rows[t]
    BY <1>a, <2>2
  <2>8. QED
    BY <1>a, <2>2, <2>4, <2>5, <2>6, <2>7, CloseKeepsInv1
<1>2. CASE RefreshCommit(p)
  <2> DEFINE tok == req[p].tok
             new == req[p].new
             old == [[rows[tok] EXCEPT !.status = "revoked"] EXCEPT !.next = new]
  <2>1. tok \in Tokens /\ new \in Tokens /\ req[p].fam \in Tokens /\ req[p].user \in Users
        /\ tok \in req[p].held
    BY <1>c, <1>2 DEF RefreshCommit, Shape
  <2>2. rows[new].status = "unissued" /\ Stored(rows[tok])
    BY <1>d, <2>1 DEF Inv1, Reserved
  <2>3. tok # new
    BY <2>2 DEF Stored
  <2>4. NewRow(p) \in Row /\ Sound(NewRow(p)) /\ Stored(NewRow(p))
    BY <1>c, <2>1 DEF NewRow, Row, Status, Request, Sound, Stored
  <2>5. rows' = [[[rows EXCEPT ![tok].status = "revoked"] EXCEPT ![tok].next = new]
                    EXCEPT ![new] = NewRow(p)]
    BY <1>2 DEF RefreshCommit
  <2>6. /\ rows'[new] = NewRow(p) /\ rows'[tok] = old
        /\ \A t \in Tokens : t \notin {tok, new} => rows'[t] = rows[t]
    BY <1>a, <2>1, <2>3, <2>5
  <2>7. rows[tok] \in Row /\ Sound(rows[tok]) /\ Stored(rows[tok])
    BY <1>a, <1>b, <2>1, <2>2
  <2>8. old \in Row /\ Sound(old) /\ Stored(old)
    BY <2>1, <2>7, Revoking, Linking
  <2>9. rows' \in [Tokens -> Row]
    <3>1. DOMAIN rows' = Tokens /\ rows' = [t \in Tokens |-> rows'[t]]
      BY <1>a, <2>5
    <3>2. \A t \in Tokens : rows'[t] \in Row
      BY <1>a, <2>4, <2>6, <2>8
    <3>3. QED
      BY <3>1, <3>2
  <2>10. \A t \in Tokens : Sound(rows'[t])
    BY <1>b, <2>4, <2>6, <2>8
  <2>11. \A t \in Tokens : Stored(rows[t]) => Stored(rows'[t])
    BY <2>4, <2>6, <2>8
  <2>12. \A t \in Tokens : rows[t].status = "unissued" /\ t # new => rows'[t].status = "unissued"
    BY <2>2, <2>6 DEF Stored
  <2>13. Close(p) /\ users' = users /\ ended' = ended
    BY <1>2 DEF RefreshCommit
  <2>14. QED
    BY <1>a, <2>9, <2>10, <2>11, <2>12, <2>13, CloseKeepsInv1
<1>3. ASSUME rows' = RevokeRows(req[p].held), Close(p), users' \in [Users -> Account],
             ended' \subseteq Tokens
      PROVE  Inv1'
  <2>1. \A t \in Tokens :
           rows'[t] = IF t \in req[p].held THEN [rows[t] EXCEPT !.status = "revoked"] ELSE rows[t]
    BY <1>3 DEF RevokeRows
  <2>2. \A t \in Tokens : /\ rows'[t] \in Row /\ Sound(rows'[t])
                          /\ Stored(rows[t]) => Stored(rows'[t])
    <3> TAKE t \in Tokens
    <3>1. rows[t] \in Row /\ Sound(rows[t])
      BY <1>a, <1>b
    <3>2. CASE t \in req[p].held
      BY <1>d, <2>1, <3>1, <3>2, Revoking
    <3>3. CASE t \notin req[p].held
      BY <2>1, <3>1, <3>3
    <3>4. QED
      BY <3>2, <3>3
  <2>3. rows' \in [Tokens -> Row]
    BY <1>3, <2>2 DEF RevokeRows
  <2>4. \A t \in Tokens : rows[t].status = "unissued" => rows'[t].status = "unissued"
    BY <1>d, <2>1 DEF Stored
  <2>5. QED
    BY <1>3, <2>2, <2>3, <2>4, CloseKeepsInv1
<1>4. CASE EndFamily(p)
  <2>1. req[p].fam \in Tokens
    BY <1>c, <1>4 DEF EndFamily, Shape
  <2>2. QED
    BY <1>a, <1>3, <1>4, <2>1 DEF EndFamily
<1>5. CASE ResetCommit(p)
  <2> DEFINE u == req[p].user
             acc == [users[u] EXCEPT !.resets = users[u].resets + 1,
                                     !.pwd = users[u].resets + 1, !.legacy = FALSE]
  <2>1. u \in Users
    BY <1>c, <1>5 DEF ResetCommit, Shape
  <2>2. users' = [users EXCEPT ![u] = acc] /\ rows' = RevokeRows(req[p].held)
        /\ Close(p) /\ ended' = ended
    BY <1>a, <1>5, <2>1 DEF ResetCommit
  <2>3. acc \in Account
    <3>1. users[u] \in Account /\ users[u].resets + 1 \in Nat
      BY <1>a, <2>1 DEF Account
    <3>2. QED
      BY <3>1 DEF Account
  <2>4. users' \in [Users -> Account]
    BY <1>a, <2>1, <2>2, <2>3
  <2>5. QED
    BY <1>a, <1>3, <2>2, <2>4
<1>6. CASE PurgeCommit(p)
  <2> DEFINE gone == req[p].held
  <2>1. \A t \in Tokens :
           rows'[t] = IF t \in gone THEN NoRow("purged")
                      ELSE IF rows[t].next \in gone THEN [rows[t] EXCEPT !.next = NoToken]
                      ELSE rows[t]
    BY <1>6 DEF PurgeCommit
  <2>2. NoRow("purged") \in Row /\ Sound(NoRow("purged")) /\ ~Stored(NoRow("purged"))
    BY DEF NoRow, Row, Status, Sound, Stored
  <2>3. gone \subseteq Tokens
    BY <1>d
  <2>4. \A t \in Tokens : rows[t].next \in gone => Stored(rows[t])
    <3>1. \A s : NoRow(s).next = NoToken
      BY DEF NoRow
    <3>2. \A t \in Tokens : ~Stored(rows[t]) => rows[t].next = NoToken
      BY <1>b, <3>1 DEF Sound
    <3>3. QED
      BY <2>3, <3>2, NoTokenFresh
  <2>5. \A t \in Tokens : /\ rows'[t] \in Row /\ Sound(rows'[t])
                          /\ Stored(rows[t]) /\ t \notin gone => Stored(rows'[t])
    <3> TAKE t \in Tokens
    <3>1. rows[t] \in Row /\ Sound(rows[t])
      BY <1>a, <1>b
    <3>2. CASE t \in gone
      BY <2>1, <2>2, <3>2
    <3>3. CASE t \notin gone /\ rows[t].next \in gone
      <4>1. rows'[t] = [rows[t] EXCEPT !.next = NoToken] /\ Stored(rows[t])
        BY <2>1, <2>4, <3>3
      <4>2. QED
        BY <3>1, <4>1, Linking
    <3>4. CASE t \notin gone /\ rows[t].next \notin gone
      BY <2>1, <3>1, <3>4
    <3>5. QED
      BY <3>2, <3>3, <3>4
  <2>6. rows' \in [Tokens -> Row]
    BY <1>6, <2>5 DEF PurgeCommit
  <2>7. \A t \in Tokens : rows[t].status = "unissued" => rows'[t].status = "unissued"
    BY <1>d, <2>1, <2>4 DEF Stored
  <2>8. Close(p) /\ users' = users /\ ended' = ended
    BY <1>6 DEF PurgeCommit
  <2>9. QED
    BY <1>a, <2>5, <2>6, <2>7, <2>8, CloseKeepsInv1
<1>7. QED
  BY <1>1, <1>2, <1>4, <1>5, <1>6 DEF Commit

LEMMA WorkKeepsInv1 ==
  ASSUME Inv1, NEW p \in Txns, Work(p) \/ Rollback(p) PROVE Inv1'
<1>0. /\ rows \in [Tokens -> Row] /\ users \in [Users -> Account]
      /\ req[p] \in Request /\ Shape(req[p])
      /\ \A t \in req[p].held : Exists(t) /\ ~LockedByOther(p, t)
  BY DEF Inv1, TypeOK, RequestShape, Locks
<1>1. CASE Advance(p, Idle)
  <2>1. Idle.new = NoToken /\ Idle.held = {}
    BY DEF Idle
  <2>2. QED
    BY <1>1, <2>1, IdleIsRequest, AdvanceKeepsInv1
<1>2. CASE RefreshCheckUser(p)
  <2> DEFINE r == [req[p] EXCEPT !.pc = "loaded"]
  <2>1. req[p].op = "refresh"
    BY <1>0, <1>2 DEF RefreshCheckUser, Shape, Idle, Request, Ops
  <2>2. r \in Request /\ Shape(r) /\ r.new = req[p].new /\ r.held = req[p].held
    BY <1>0, <1>2, <2>1 DEF RefreshCheckUser, Shape, Request, Steps
  <2>3. Advance(p, r) \/ Advance(p, Idle)
    BY <1>2 DEF RefreshCheckUser
  <2>4. QED
    BY <1>0, <1>1, <2>2, <2>3, AdvanceKeepsInv1
<1>3. CASE RevokeStart(p)
  <2> DEFINE r == [req[p] EXCEPT !.pc = "locking", !.todo = {t \in Tokens : Matches(p, t)}]
  <2>1. Advance(p, r)
    BY <1>3 DEF RevokeStart
  <2>2. r \in Request /\ Shape(r) /\ r.new = req[p].new /\ r.held = req[p].held
    BY <1>0, <1>3 DEF RevokeStart, Shape, Request, Steps
  <2>3. QED
    BY <1>0, <2>1, <2>2, AdvanceKeepsInv1
<1>4. ASSUME NEW t \in Tokens, LockRow(p, t)
      PROVE  Inv1'
  <2> DEFINE hit == IF req[p].op = "purge" THEN Exists(t) ELSE Matches(p, t)
             r == [req[p] EXCEPT !.todo = @ \ {t}, !.held = IF hit THEN @ \cup {t} ELSE @]
  <2>1. Advance(p, r) /\ ~LockedByOther(p, t) /\ req[p].pc = "locking"
    BY <1>4 DEF LockRow
  <2>2. hit => Exists(t)
    BY DEF Matches, IsLive, Exists
  <2>3. r \in Request /\ Shape(r) /\ r.new = req[p].new
    <3>1. req[p].op \in {"reuse", "logout", "reset", "purge"}
      BY <1>0, <2>1 DEF Shape, Request, Ops, Idle
    <3>2. r \in Request /\ r.new = req[p].new /\ r.pc = req[p].pc /\ r.op = req[p].op
          /\ r.user = req[p].user /\ r.fam = req[p].fam
      BY <1>0 DEF Request
    <3>3. QED
      BY <1>0, <3>1, <3>2 DEF Shape
  <2>4. \A s \in r.held : Exists(s) /\ ~LockedByOther(p, s)
    BY <1>0, <2>1, <2>2 DEF Request
  <2>5. QED
    BY <2>1, <2>3, <2>4, AdvanceKeepsInv1
<1>5. CASE RefreshFlush(p)
  <2> DEFINE r == [req[p] EXCEPT !.pc = "flushed", !.held = {req[p].tok}]
  <2>1. CASE ~Exists(req[p].tok)
    BY <1>1, <1>5, <2>1 DEF RefreshFlush
  <2>2. CASE Exists(req[p].tok)
    <3>1. Advance(p, r) /\ ~LockedByOther(p, req[p].tok) /\ req[p].op = "refresh"
      BY <1>5, <2>2 DEF RefreshFlush
    <3>2. r \in Request /\ Shape(r) /\ r.new = req[p].new /\ r.held = {req[p].tok}
      BY <1>0, <3>1 DEF Shape, Request, Steps
    <3>3. QED
      BY <2>2, <3>1, <3>2, AdvanceKeepsInv1
  <2>3. QED
    BY <2>1, <2>2
<1>6. CASE Commit(p)
  BY <1>6, CommitKeepsInv1
<1>7. QED
  BY <1>1, <1>2, <1>3, <1>4, <1>5, <1>6 DEF Work, Rollback, DeadlockAbort

LEMMA OutsideKeepsInv1 ==
  ASSUME Inv1,
         (\E t \in Tokens : Expire(t)) \/ (\E u \in Users : SetActive(u)) \/ UNCHANGED vars
  PROVE  Inv1'
<1>1. ASSUME NEW t \in Tokens, Expire(t) PROVE Inv1'
  <2>1. /\ rows' = [rows EXCEPT ![t].expired = TRUE]
        /\ UNCHANGED <<users, req, crossedFam, crossedUser, ended>> /\ Exists(t)
    BY <1>1 DEF Expire
  <2>2. rows \in [Tokens -> Row] /\ rows[t].user \in Users /\ rows[t].fam \in Tokens
    BY <2>1 DEF Inv1, TypeOK
  <2>3. [rows[t] EXCEPT !.expired = TRUE] \in Row
    BY <2>2 DEF Row
  <2>4. rows' \in [Tokens -> Row]
    BY <2>1, <2>2, <2>3
  <2>5. /\ \A s \in Tokens : rows'[s].status = rows[s].status
        /\ rows'[t].user = rows[t].user /\ rows'[t].fam = rows[t].fam
        /\ \A s \in Tokens \ {t} : rows'[s] = rows[s]
    BY <2>1, <2>2 DEF Row
  <2>6. TypeOK'
    BY <2>1, <2>2, <2>4, <2>5 DEF Inv1, TypeOK, Exists
  <2>7. RequestShape'
    BY <2>1 DEF Inv1, RequestShape
  <2>8. Reserved'
    BY <2>1, <2>5 DEF Inv1, Reserved
  <2>9. Locks'
    BY <2>1, <2>5 DEF Inv1, Locks, Exists, LockedByOther, TypeOK, Request
  <2>10. QED
    BY <2>6, <2>7, <2>8, <2>9 DEF Inv1
<1>2. ASSUME NEW u \in Users, SetActive(u) PROVE Inv1'
  <2>1. users' \in [Users -> Account] /\ UNCHANGED <<rows, req, crossedFam, crossedUser, ended>>
    <3>1. users \in [Users -> Account]
      BY DEF Inv1, TypeOK
    <3>2. [users[u] EXCEPT !.active = ~users[u].active] \in Account
      BY <3>1 DEF Account
    <3>3. QED
      BY <1>2, <3>1, <3>2 DEF SetActive
  <2>2. QED
    BY <2>1 DEF Inv1, TypeOK, RequestShape, Reserved, Locks, Exists, LockedByOther
<1>3. CASE UNCHANGED vars
  BY <1>3 DEF vars, Inv1, TypeOK, RequestShape, Reserved, Locks, Exists, LockedByOther
<1>4. QED
  BY <1>1, <1>2, <1>3

LEMMA NextKeepsInv1 == Inv1 /\ [Next]_vars => Inv1'
  BY ArriveKeepsInv1, WorkKeepsInv1, OutsideKeepsInv1 DEF Next

LEMMA Inv1Holds == Spec => []Inv1
  BY InitInv1, NextKeepsInv1, PTL DEF Spec

\* The tables and requests stay well formed: in particular no commit writes to
\* a row another transaction removed, and no two inserts collide.
THEOREM TypeCorrect == Spec => []TypeOK
<1>1. Inv1 => TypeOK
  BY DEF Inv1
<1>2. QED
  BY <1>1, Inv1Holds, PTL

-----------------------------------------------------------------------------
(* What the steps do to a family.  Every step but an arrival and the two   *)
(* commits that insert a token is quiet: it makes nothing live and moves   *)
(* no request to another family.                                           *)

NoInsertion ==
    \A t \in Tokens :
        /\ Stored(rows'[t]) => Stored(rows[t]) /\ rows'[t].fam = rows[t].fam
        /\ rows'[t].status = "live" => rows[t].status = "live"
        /\ rows[t].status # "unissued" => rows'[t].status # "unissued"

Progress ==
    \A q \in Txns :
        \/ req'[q] = Idle
        \/ /\ req'[q].op = req[q].op
           /\ req'[q].fam = req[q].fam
           /\ req'[q].tok = req[q].tok

\* While a revocation runs alone on its family, every live row of the family is
\* one it still has to lock or has locked.
RevokesAll ==
    \A p \in Txns : (/\ req[p].op \in {"reuse", "logout"} /\ req[p].pc = "locking"
                     /\ req[p].fam \notin crossedFam)
                       => LiveIn(req[p].fam) \subseteq req[p].todo \cup req[p].held

\* The requests of a quiet step still cover the rows live before it.
Covering ==
    RevokesAll =>
        \A q \in Txns : (/\ req'[q].op \in {"reuse", "logout"} /\ req'[q].pc = "locking"
                         /\ req'[q].fam \notin crossedFam)
                           => LiveIn(req'[q].fam) \subseteq req'[q].todo \cup req'[q].held

Quiet == NoInsertion /\ Progress /\ Covering /\ crossedFam' = crossedFam

LEMMA AdvanceIsQuiet ==
  ASSUME Inv1, NEW p \in Txns, NEW r \in Request, Advance(p, r),
         r = Idle \/ (r.op = req[p].op /\ r.fam = req[p].fam /\ r.tok = req[p].tok),
         RevokesAll /\ r.op \in {"reuse", "logout"} /\ r.pc = "locking" /\ r.fam \notin crossedFam
            => LiveIn(r.fam) \subseteq r.todo \cup r.held
  PROVE  Quiet /\ ended' = ended /\ rows' = rows
<1>1. req' = [req EXCEPT ![p] = r] /\ UNCHANGED <<rows, crossedFam, ended>>
  BY DEF Advance
<1>2. Progress
  BY <1>1 DEF Progress, Inv1, TypeOK
<1>3. NoInsertion
  BY <1>1 DEF NoInsertion
<1>4. Covering
  BY <1>1 DEF Covering, RevokesAll, Inv1, TypeOK
<1>5. QED
  BY <1>1, <1>2, <1>3, <1>4 DEF Quiet

LEMMA CloseIsQuiet ==
  ASSUME Inv1, NEW p \in Txns, Close(p), NoInsertion
  PROVE  Quiet
<1>1. req' = [req EXCEPT ![p] = Idle] /\ crossedFam' = crossedFam
  BY DEF Close
<1>2. Progress
  BY <1>1 DEF Progress, Inv1, TypeOK
<1>3. Idle.op = "none"
  BY DEF Idle
<1>4. Covering
  BY <1>1, <1>3 DEF Covering, RevokesAll, Inv1, TypeOK
<1>5. QED
  BY <1>1, <1>2, <1>4 DEF Quiet

LEMMA RevokingIsQuiet ==
  ASSUME Inv1, NEW p \in Txns, rows' = RevokeRows(req[p].held)
  PROVE  /\ NoInsertion
         /\ \A t \in req[p].held : rows'[t].status = "revoked"
<1>1. \A t \in req[p].held : t \in Tokens /\ Stored(rows[t])
  BY DEF Inv1, Locks, Exists, Stored, TypeOK, Request
<1>2. \A t \in Tokens :
         rows'[t] = IF t \in req[p].held THEN [rows[t] EXCEPT !.status = "revoked"] ELSE rows[t]
  BY DEF RevokeRows
<1>3. \A t \in Tokens : rows[t] \in Row /\ Sound(rows[t])
  BY SoundRows DEF Inv1, TypeOK
<1>4. ASSUME NEW t \in Tokens, t \in req[p].held
      PROVE  Stored(rows[t]) /\ rows'[t].fam = rows[t].fam /\ rows'[t].status = "revoked"
  BY <1>1, <1>2, <1>3, <1>4, Revoking
<1>5. QED
  BY <1>1, <1>2, <1>4 DEF NoInsertion, Stored

LEMMA PurgingIsQuiet ==
  ASSUME Inv1, NEW p \in Txns, PurgeCommit(p)
  PROVE  NoInsertion
<1> DEFINE gone == req[p].held
<1>1. \A t \in Tokens :
         rows'[t] = IF t \in gone THEN NoRow("purged")
                    ELSE IF rows[t].next \in gone THEN [rows[t] EXCEPT !.next = NoToken]
                    ELSE rows[t]
  BY DEF PurgeCommit
<1>2. \A t \in gone : t \in Tokens /\ Stored(rows[t])
  BY DEF Inv1, Locks, Exists, Stored, TypeOK, Request
<1>3. \A t \in Tokens : rows[t] \in Row
  BY DEF Inv1, TypeOK
<1>4. NoRow("purged").status = "purged"
  BY DEF NoRow
<1>5. ASSUME NEW t \in Tokens
      PROVE  /\ Stored(rows'[t]) => Stored(rows[t]) /\ rows'[t].fam = rows[t].fam
             /\ rows'[t].status = "live" => rows[t].status = "live"
             /\ rows[t].status # "unissued" => rows'[t].status # "unissued"
  <2>1. CASE t \in gone
    BY <1>1, <1>4, <2>1 DEF Stored
  <2>2. CASE t \notin gone /\ rows[t].next \in gone
    <3>1. rows'[t] = [rows[t] EXCEPT !.next = NoToken] /\ rows[t] \in Row
      BY <1>1, <1>3, <2>2
    <3>2. rows'[t].status = rows[t].status /\ rows'[t].fam = rows[t].fam
      BY <3>1 DEF Row
    <3>3. QED
      BY <3>2 DEF Stored
  <2>3. CASE t \notin gone /\ rows[t].next \notin gone
    BY <1>1, <2>3
  <2>4. QED
    BY <2>1, <2>2, <2>3
<1>6. QED
  BY <1>5 DEF NoInsertion

LEMMA OutsideIsQuiet ==
  ASSUME Inv1,
         (\E t \in Tokens : Expire(t)) \/ (\E u \in Users : SetActive(u)) \/ UNCHANGED vars
  PROVE  Quiet /\ ended' = ended /\ req' = req
<1>1. ASSUME NEW t \in Tokens, Expire(t) PROVE NoInsertion
  <2>1. rows' = [rows EXCEPT ![t].expired = TRUE] /\ rows \in [Tokens -> Row]
    BY <1>1 DEF Expire, Inv1, TypeOK
  <2>2. \A s \in Tokens : rows'[s].status = rows[s].status /\ rows'[s].fam = rows[s].fam
    BY <2>1 DEF Row
  <2>3. QED
    BY <2>2 DEF NoInsertion, Stored
<1>2. rows' = rows => NoInsertion
  BY DEF NoInsertion
<1>3. req' = req /\ crossedFam' = crossedFam /\ ended' = ended
  BY DEF Expire, SetActive, vars
<1>4. req' = req => Progress /\ Covering
  BY DEF Progress, Covering, RevokesAll
<1>5. QED
  BY <1>1, <1>2, <1>3, <1>4 DEF Quiet, SetActive, vars

\* The step that ends a family is quiet too, and the only one to change ended.
LEMMA StepsClassified ==
  ASSUME Inv1, [Next]_vars
  PROVE  \/ \E p \in Txns : \E r \in Request : Opening(p, r)
         \/ \E p \in Txns : LoginCommit(p)
         \/ \E p \in Txns : RefreshCommit(p)
         \/ Quiet /\ ended' = ended
         \/ Quiet /\ \E p \in Txns : EndFamily(p)
<1>0. req \in [Txns -> Request] /\ RequestShape /\ Idle.op = "none"
  BY DEF Inv1, TypeOK, Idle
<1>1. ASSUME NEW p \in Txns, Arrive(p) PROVE \E r \in Request : Opening(p, r)
  BY <1>1, Arrivals
<1>2. ASSUME NEW p \in Txns, Advance(p, Idle) PROVE Quiet /\ ended' = ended
  BY <1>0, <1>2, IdleIsRequest, AdvanceIsQuiet
<1>3. ASSUME NEW p \in Txns, RefreshCheckUser(p) PROVE Quiet /\ ended' = ended
  <2> DEFINE r == [req[p] EXCEPT !.pc = "loaded"]
  <2>1. r \in Request /\ r.op = req[p].op /\ r.fam = req[p].fam /\ r.tok = req[p].tok
        /\ r.pc = "loaded"
    BY <1>0 DEF Request, Steps
  <2>2. Advance(p, r) \/ Advance(p, Idle)
    BY <1>3 DEF RefreshCheckUser
  <2>3. QED
    BY <1>2, <2>1, <2>2, AdvanceIsQuiet
<1>4. ASSUME NEW p \in Txns, RevokeStart(p) PROVE Quiet /\ ended' = ended
  <2> DEFINE r == [req[p] EXCEPT !.pc = "locking", !.todo = {t \in Tokens : Matches(p, t)}]
  <2>1. r \in Request /\ r.op = req[p].op /\ r.fam = req[p].fam /\ r.tok = req[p].tok
    BY <1>0 DEF Request, Steps
  <2>2. Advance(p, r)
    BY <1>4 DEF RevokeStart
  <2>3. r.op \in {"reuse", "logout"} => LiveIn(r.fam) \subseteq r.todo \cup r.held
    BY <1>0, <2>1 DEF Request, LiveIn, Matches
  <2>4. QED
    BY <2>1, <2>2, <2>3, AdvanceIsQuiet
<1>5. ASSUME NEW p \in Txns, NEW t \in Tokens, LockRow(p, t) PROVE Quiet /\ ended' = ended
  <2> DEFINE hit == IF req[p].op = "purge" THEN Exists(t) ELSE Matches(p, t)
             r == [req[p] EXCEPT !.todo = @ \ {t}, !.held = IF hit THEN @ \cup {t} ELSE @]
  <2>1. r \in Request /\ r.op = req[p].op /\ r.fam = req[p].fam /\ r.tok = req[p].tok
    BY <1>0 DEF Request
  <2>2. Advance(p, r) /\ req[p].pc = "locking"
    BY <1>5 DEF LockRow
  <2>3. ASSUME RevokesAll, r.op \in {"reuse", "logout"}, r.fam \notin crossedFam
        PROVE  LiveIn(r.fam) \subseteq r.todo \cup r.held
    <3>1. LiveIn(r.fam) \subseteq req[p].todo \cup req[p].held
      BY <2>1, <2>2, <2>3 DEF RevokesAll
    <3>2. t \in LiveIn(r.fam) => hit
      BY <2>1, <2>3 DEF LiveIn, Matches
    <3>3. r.todo = req[p].todo \ {t} /\ req[p].held \subseteq r.held /\ (hit => t \in r.held)
      BY <1>0 DEF Request
    <3>4. QED
      BY <3>1, <3>2, <3>3
  <2>4. QED
    BY <2>1, <2>2, <2>3, AdvanceIsQuiet
<1>6. ASSUME NEW p \in Txns, RefreshFlush(p) PROVE Quiet /\ ended' = ended
  <2> DEFINE r == [req[p] EXCEPT !.pc = "flushed", !.held = {req[p].tok}]
  <2>1. req[p].tok \in Tokens
    BY <1>0, <1>6 DEF RefreshFlush, RequestShape, Shape
  <2>2. r \in Request /\ r.op = req[p].op /\ r.fam = req[p].fam /\ r.tok = req[p].tok
        /\ r.pc = "flushed"
    BY <1>0, <2>1 DEF Request, Steps
  <2>3. Advance(p, r) \/ Advance(p, Idle)
    BY <1>6 DEF RefreshFlush
  <2>4. QED
    BY <1>2, <2>2, <2>3, AdvanceIsQuiet
<1>7. ASSUME NEW p \in Txns, EndFamily(p) PROVE Quiet
  BY <1>7, RevokingIsQuiet, CloseIsQuiet DEF EndFamily
<1>8. ASSUME NEW p \in Txns, ResetCommit(p) PROVE Quiet /\ ended' = ended
  BY <1>8, RevokingIsQuiet, CloseIsQuiet DEF ResetCommit
<1>9. ASSUME NEW p \in Txns, PurgeCommit(p) PROVE Quiet /\ ended' = ended
  BY <1>9, PurgingIsQuiet, CloseIsQuiet DEF PurgeCommit
<1>10. QED
  BY <1>1, <1>2, <1>3, <1>4, <1>5, <1>6, <1>7, <1>8, <1>9, OutsideIsQuiet
     DEF Next, Work, Commit, Rollback, DeadlockAbort

-----------------------------------------------------------------------------
(* A family is a chain with one live end.                                  *)

\* A family is named after a token issued before all its others.
Rooted ==
    /\ \A t \in Tokens : Stored(rows[t]) => rows[rows[t].fam].status # "unissued"
    /\ \A p \in Txns : req[p].op \in {"refresh", "reuse", "logout"}
                          => rows[req[p].fam].status # "unissued"

\* On a family that was never crossed at most one request is open.
Alone ==
    \A f \in Tokens \ crossedFam : \A p, q \in Txns : req[p].fam = f /\ req[q].fam = f => p = q

\* What an open refresh read is the only token of the family that can be live.
ReadsTheLiveEnd ==
    \A p \in Txns : req[p].op = "refresh" /\ req[p].fam \notin crossedFam
                       => LiveIn(req[p].fam) \subseteq {req[p].tok}

Inv2 == Rooted /\ Alone /\ ReadsTheLiveEnd /\ OneLiveToken

LEMMA Fields ==
  ASSUME Inv1
  PROVE  /\ \A p \in Txns : req[p].op = "none" => req[p] = Idle
         /\ \A p \in Txns : req[p].op \in {"refresh", "reuse", "logout", "login"}
                               => req[p].fam \in Tokens
         /\ \A p \in Txns : req[p].fam \in Tokens
                               => Open(p) /\ req[p].op \in {"refresh", "reuse", "logout", "login"}
         /\ \A t \in Tokens : IsLive(t) => Stored(rows[t])
         /\ \A t \in Tokens : Stored(rows[t]) => rows[t].fam \in Tokens
<1>1. \A p \in Txns : req[p] \in Request /\ Shape(req[p])
  BY DEF Inv1, TypeOK, RequestShape
<1>2. \A t \in Tokens : Sound(rows[t])
  BY SoundRows DEF Inv1
<1>3. Idle.pc = "idle" /\ Idle.fam = NoToken /\ Idle.op = "none"
  BY DEF Idle
<1>4. ASSUME NEW p \in Txns, req[p].fam \in Tokens
      PROVE  Open(p) /\ req[p].op \in {"refresh", "reuse", "logout", "login"}
  <2>1. req[p] # Idle
    BY <1>3, <1>4, NoTokenFresh
  <2>2. Open(p)
    BY <2>1, ClosedIsIdle
  <2>3. req[p].op \in {"refresh", "reuse", "logout", "login"}
    BY <1>1, <1>4, <2>1, NoTokenFresh DEF Shape, Request, Ops
  <2>4. QED
    BY <2>2, <2>3
<1>5. QED
  BY <1>1, <1>2, <1>4 DEF Shape, Sound, Stored, IsLive

LEMMA InitInv2 == Init => Inv2
<1> SUFFICES ASSUME Init PROVE Inv2
  OBVIOUS
<1>1. \A t \in Tokens : rows[t].status = "unissued"
  BY DEF Init, NoRow
<1>2. \A p \in Txns : req[p].op = "none" /\ req[p].fam = NoToken
  BY DEF Init, Idle
<1>3. QED
  BY <1>1, <1>2, NoTokenFresh
     DEF Inv2, Rooted, Alone, ReadsTheLiveEnd, OneLiveToken, LiveIn, IsLive, Stored

LEMMA OpeningKeepsInv2 ==
  ASSUME Inv1, Inv2, NEW p \in Txns, NEW r \in Request, Opening(p, r)
  PROVE  Inv2'
<1>1. /\ req'[p] = r /\ \A q \in Txns \ {p} : req'[q] = req[q]
      /\ rows' = rows /\ crossedFam \subseteq crossedFam'
      /\ \A q \in Txns \ {p} : Open(q) /\ req[q].fam = r.fam /\ r.fam # NoToken
                                  => r.fam \in crossedFam'
  BY DEF Opening, Begin, Inv1, TypeOK
<1>2. Rooted'
  <2>1. ASSUME NEW q \in Txns, req'[q].op \in {"refresh", "reuse", "logout"}
        PROVE  rows[req'[q].fam].status # "unissued"
    <3>1. CASE q # p
      BY <1>1, <2>1, <3>1 DEF Inv2, Rooted
    <3>2. CASE q = p
      <4>1. PICK t \in Tokens : Exists(t) /\ rows[t].fam = r.fam
        BY <1>1, <2>1, <3>2 DEF Opening, Shape, IsLive, Exists
      <4>2. QED
        BY <1>1, <3>2, <4>1 DEF Inv2, Rooted, Exists, Stored
    <3>3. QED
      BY <3>1, <3>2
  <2>2. QED
    BY <1>1, <2>1 DEF Inv2, Rooted
<1>3. Alone'
  <2> SUFFICES ASSUME NEW f \in Tokens, f \notin crossedFam', NEW q1 \in Txns, NEW q2 \in Txns,
                      req'[q1].fam = f, req'[q2].fam = f, q1 # q2
               PROVE  FALSE
    BY DEF Alone
  <2>1. CASE q1 # p /\ q2 # p
    BY <1>1, <2>1 DEF Inv2, Alone
  <2>2. CASE q1 = p \/ q2 = p
    <3>1. PICK q \in Txns \ {p} : req[q].fam = f /\ r.fam = f
      BY <1>1, <2>2
    <3>2. QED
      BY <1>1, <3>1, Fields, NoTokenFresh
  <2>3. QED
    BY <2>1, <2>2
<1>4. OneLiveToken'
  BY <1>1 DEF Inv2, OneLiveToken, LiveIn, IsLive
<1>5. ReadsTheLiveEnd'
  <2> SUFFICES ASSUME NEW q \in Txns, req'[q].op = "refresh", req'[q].fam \notin crossedFam'
               PROVE  LiveIn(req'[q].fam) \subseteq {req'[q].tok}
    BY <1>1 DEF ReadsTheLiveEnd, LiveIn, IsLive
  <2>1. CASE q = p
    <3>1. r.op = "refresh" /\ IsLive(r.tok) /\ rows[r.tok].fam = r.fam /\ r.tok \in Tokens
          /\ r.fam \in Tokens /\ r.fam \notin crossedFam
      BY <1>1, <2>1 DEF Opening, Shape
    <3>2. r.tok \in LiveIn(r.fam)
      BY <3>1 DEF LiveIn
    <3>3. QED
      BY <1>1, <2>1, <3>1, <3>2 DEF Inv2, OneLiveToken
  <2>2. CASE q # p
    BY <1>1, <2>2 DEF Inv2, ReadsTheLiveEnd
  <2>3. QED
    BY <2>1, <2>2
<1>6. QED
  BY <1>2, <1>3, <1>4, <1>5 DEF Inv2

LEMMA QuietShrinks ==
  ASSUME Inv1, Quiet PROVE \A f \in Tokens : LiveIn(f)' \subseteq LiveIn(f)
  BY DEF Quiet, NoInsertion, LiveIn, IsLive, Stored

LEMMA QuietKeepsInv2 ==
  ASSUME Inv1, Inv2, Quiet
  PROVE  Inv2'
<1>1. Idle.op = "none" /\ Idle.fam = NoToken
  BY DEF Idle
<1>2. \A q \in Txns : req'[q].op # "none" => req'[q].op = req[q].op /\ req'[q].fam = req[q].fam
                                              /\ req'[q].tok = req[q].tok
  BY <1>1 DEF Quiet, Progress
<1>3. \A q \in Txns : req'[q].fam \in Tokens => req'[q].fam = req[q].fam
  BY <1>1, NoTokenFresh DEF Quiet, Progress
<1>4. Rooted'
  <2>1. \A t \in Tokens : rows[t].status # "unissued" => rows'[t].status # "unissued"
    BY DEF Quiet, NoInsertion
  <2>2. ASSUME NEW t \in Tokens, Stored(rows'[t])
        PROVE  rows'[rows'[t].fam].status # "unissued"
    <3>1. Stored(rows[t]) /\ rows'[t].fam = rows[t].fam
      BY <2>2 DEF Quiet, NoInsertion
    <3>2. QED
      BY <2>1, <3>1, Fields DEF Inv2, Rooted
  <2>3. ASSUME NEW p \in Txns, req'[p].op \in {"refresh", "reuse", "logout"}
        PROVE  rows'[req'[p].fam].status # "unissued"
    <3>1. req'[p].op = req[p].op /\ req'[p].fam = req[p].fam
      BY <1>2, <2>3
    <3>2. req[p].fam \in Tokens /\ rows[req[p].fam].status # "unissued"
      BY <2>3, <3>1, Fields DEF Inv2, Rooted
    <3>3. QED
      BY <2>1, <3>1, <3>2
  <2>4. QED
    BY <2>2, <2>3 DEF Rooted, Stored
<1>5. Alone'
  BY <1>3 DEF Inv2, Alone, Quiet
<1>6. OneLiveToken'
  BY QuietShrinks DEF Inv2, OneLiveToken, Quiet
<1>7. ReadsTheLiveEnd'
  <2> SUFFICES ASSUME NEW q \in Txns, req'[q].op = "refresh", req'[q].fam \notin crossedFam',
                      NEW t \in Tokens, rows'[t].status = "live", rows'[t].fam = req'[q].fam
               PROVE  t = req'[q].tok
    BY DEF ReadsTheLiveEnd, LiveIn, IsLive
  <2>1. req[q].op = "refresh" /\ req'[q].fam = req[q].fam /\ req'[q].tok = req[q].tok
        /\ req[q].fam \notin crossedFam
    BY <1>2 DEF Quiet
  <2>2. t \in LiveIn(req[q].fam)
    BY <2>1 DEF Quiet, NoInsertion, Stored, LiveIn, IsLive
  <2>3. QED
    BY <2>1, <2>2 DEF Inv2, ReadsTheLiveEnd
<1>8. QED
  BY <1>4, <1>5, <1>6, <1>7 DEF Inv2

\* The two commits that insert: a row that is not `new` keeps its family, and
\* none of them becomes live.
Inserting(p) ==
    /\ rows'[req[p].new].status = "live" /\ rows'[req[p].new].fam = req[p].fam
    /\ \A t \in Tokens \ {req[p].new} :
          /\ rows'[t].fam = rows[t].fam /\ Stored(rows'[t]) = Stored(rows[t])
          /\ rows'[t].status = "live" => rows[t].status = "live"
          /\ rows[t].status # "unissued" => rows'[t].status # "unissued"
    /\ req'[p] = Idle /\ \A q \in Txns \ {p} : req'[q] = req[q]
    /\ crossedFam' = crossedFam /\ ended' = ended

LEMMA CommitsInsert ==
  ASSUME Inv1, NEW p \in Txns, LoginCommit(p) \/ RefreshCommit(p)
  PROVE  /\ Inserting(p)
         /\ req[p].new \in Tokens /\ rows[req[p].new].status = "unissued"
         /\ LoginCommit(p) => req[p].op = "login" /\ req[p].fam = req[p].new
         /\ RefreshCommit(p) => /\ req[p].op = "refresh" /\ req[p].tok \in Tokens
                                /\ rows'[req[p].tok].status = "revoked"
<1> DEFINE new == req[p].new
           tok == req[p].tok
<1>1. rows \in [Tokens -> Row] /\ req \in [Txns -> Request] /\ Shape(req[p])
  BY DEF Inv1, TypeOK, RequestShape
<1>2. new \in Tokens
  BY <1>1 DEF LoginCommit, RefreshCommit, Shape
<1>3. rows[new].status = "unissued"
  BY <1>2 DEF Inv1, Reserved
<1>4. /\ req'[p] = Idle /\ \A q \in Txns \ {p} : req'[q] = req[q]
      /\ crossedFam' = crossedFam /\ ended' = ended
  BY <1>1 DEF LoginCommit, RefreshCommit, Close
<1>5. NewRow(p).status = "live" /\ NewRow(p).fam = req[p].fam
  BY DEF NewRow
<1>6. CASE LoginCommit(p)
  <2>1. rows' = [rows EXCEPT ![new] = NewRow(p)]
    BY <1>6 DEF LoginCommit
  <2>2. Inserting(p)
    BY <1>1, <1>2, <1>4, <1>5, <2>1 DEF Inserting
  <2>3. req[p].op = "login" /\ req[p].fam = new
    BY <1>1, <1>6 DEF LoginCommit, Shape
  <2>4. ~RefreshCommit(p)
    BY <2>3 DEF RefreshCommit
  <2>5. QED
    BY <1>2, <1>3, <2>2, <2>3, <2>4
<1>7. CASE RefreshCommit(p)
  <2>1. rows' = [[[rows EXCEPT ![tok].status = "revoked"] EXCEPT ![tok].next = new]
                    EXCEPT ![new] = NewRow(p)]
    BY <1>7 DEF RefreshCommit
  <2>2. req[p].op = "refresh" /\ tok \in Tokens /\ tok \in req[p].held
    BY <1>1, <1>7 DEF RefreshCommit, Shape
  <2>3. Stored(rows[tok]) /\ tok # new
    BY <1>3, <2>2 DEF Inv1, Locks, Exists, Stored
  <2>4. /\ rows'[new] = NewRow(p)
        /\ rows'[tok] = [[rows[tok] EXCEPT !.status = "revoked"] EXCEPT !.next = new]
        /\ \A t \in Tokens : t \notin {tok, new} => rows'[t] = rows[t]
    BY <1>1, <1>2, <2>1, <2>2, <2>3
  <2>5. rows'[tok].status = "revoked" /\ rows'[tok].fam = rows[tok].fam
    BY <1>1, <2>2, <2>4 DEF Row
  <2>6. Inserting(p)
    <3>1. rows'[new].status = "live" /\ rows'[new].fam = req[p].fam
      BY <1>5, <2>4
    <3>2. Stored(rows'[tok]) /\ rows[tok].status # "unissued" /\ rows'[tok].status # "live"
      BY <2>3, <2>5 DEF Stored
    <3>3. ASSUME NEW t \in Tokens \ {new}
          PROVE  /\ rows'[t].fam = rows[t].fam /\ Stored(rows'[t]) = Stored(rows[t])
                 /\ rows'[t].status = "live" => rows[t].status = "live"
                 /\ rows[t].status # "unissued" => rows'[t].status # "unissued"
      <4>1. CASE t = tok
        BY <2>3, <2>5, <3>2, <4>1 DEF Stored
      <4>2. CASE t # tok
        BY <2>4, <4>2
      <4>3. QED
        BY <4>1, <4>2
    <3>4. QED
      BY <1>4, <3>1, <3>3 DEF Inserting
  <2>7. ~LoginCommit(p)
    BY <2>2 DEF LoginCommit
  <2>8. QED
    BY <1>2, <1>3, <2>2, <2>5, <2>6, <2>7
<1>8. QED
  BY <1>6, <1>7

LEMMA InsertingKeepsInv2 ==
  ASSUME Inv1, Inv2, NEW p \in Txns, LoginCommit(p) \/ RefreshCommit(p)
  PROVE  Inv2'
<1> DEFINE new == req[p].new
           fam == req[p].fam
<1>1. Inserting(p) /\ new \in Tokens /\ rows[new].status = "unissued"
  BY CommitsInsert
<1>2. Idle.op = "none" /\ Idle.fam = NoToken
  BY DEF Idle
<1>3. req[p].op \in {"login", "refresh"} /\ fam \in Tokens
  BY Fields DEF LoginCommit, RefreshCommit
<1>4. Rooted'
  <2>1. \A t \in Tokens : rows[t].status # "unissued" => rows'[t].status # "unissued"
    BY <1>1 DEF Inserting
  <2>2. rows'[fam].status # "unissued"
    <3>1. CASE LoginCommit(p)
      BY <1>1, <3>1, CommitsInsert DEF Inserting
    <3>2. CASE RefreshCommit(p)
      BY <1>3, <2>1, <3>2 DEF Inv2, Rooted, RefreshCommit
    <3>3. QED
      BY <3>1, <3>2
  <2>3. \A t \in Tokens : Stored(rows'[t]) => rows'[rows'[t].fam].status # "unissued"
    BY <1>1, <2>1, <2>2, Fields DEF Inserting, Inv2, Rooted
  <2>4. \A q \in Txns : req'[q].op \in {"refresh", "reuse", "logout"}
                           => rows'[req'[q].fam].status # "unissued"
    BY <1>1, <1>2, <2>1, Fields DEF Inserting, Inv2, Rooted
  <2>5. QED
    BY <2>3, <2>4 DEF Rooted, Stored
<1>5. Alone'
  BY <1>1, <1>2, NoTokenFresh DEF Inserting, Inv2, Alone
<1>6. ASSUME fam \notin crossedFam, NEW t \in Tokens, rows'[t].status = "live", rows'[t].fam = fam
      PROVE  t = new
  <2>1. CASE LoginCommit(p)
    <3>1. fam = new
      BY <2>1, CommitsInsert
    <3>2. t # new => Stored(rows[t]) /\ rows[t].fam = new
      BY <1>1, <1>6, <3>1 DEF Inserting, Stored
    <3>3. QED
      BY <1>1, <3>2 DEF Inv2, Rooted
  <2>2. CASE RefreshCommit(p)
    <3>1. LiveIn(fam) \subseteq {req[p].tok}
      BY <1>6, <2>2 DEF Inv2, ReadsTheLiveEnd, RefreshCommit
    <3>2. t # new => t \in LiveIn(fam)
      BY <1>1, <1>6 DEF Inserting, LiveIn, IsLive
    <3>3. QED
      BY <1>6, <2>2, <3>1, <3>2, CommitsInsert
  <2>3. QED
    BY <2>1, <2>2
<1>7. OneLiveToken'
  <2> SUFFICES ASSUME NEW f \in Tokens, f \notin crossedFam', NEW s \in Tokens, NEW t \in Tokens,
                      rows'[s].status = "live", rows'[s].fam = f,
                      rows'[t].status = "live", rows'[t].fam = f
               PROVE  s = t
    BY DEF OneLiveToken, LiveIn, IsLive
  <2>1. CASE f = fam
    BY <1>1, <1>6, <2>1 DEF Inserting
  <2>2. CASE f # fam
    BY <1>1, <2>2 DEF Inserting, Inv2, OneLiveToken, LiveIn, IsLive
  <2>3. QED
    BY <2>1, <2>2
<1>8. ReadsTheLiveEnd'
  <2> SUFFICES ASSUME NEW q \in Txns, req'[q].op = "refresh", req'[q].fam \notin crossedFam',
                      NEW t \in Tokens, rows'[t].status = "live", rows'[t].fam = req'[q].fam
               PROVE  t = req'[q].tok
    BY DEF ReadsTheLiveEnd, LiveIn, IsLive
  <2>1. q # p /\ req'[q] = req[q] /\ req[q].fam \in Tokens /\ req[q].fam \notin crossedFam
    BY <1>1, <1>2, Fields DEF Inserting
  <2>2. fam # req[q].fam
    BY <2>1 DEF Inv2, Alone
  <2>3. t \in LiveIn(req[q].fam)
    BY <1>1, <2>1, <2>2 DEF Inserting, LiveIn, IsLive
  <2>4. QED
    BY <2>1, <2>3 DEF Inv2, ReadsTheLiveEnd
<1>9. QED
  BY <1>4, <1>5, <1>7, <1>8 DEF Inv2

LEMMA NextKeepsInv2 == Inv1 /\ Inv2 /\ [Next]_vars => Inv2'
  BY StepsClassified, OpeningKeepsInv2, QuietKeepsInv2, InsertingKeepsInv2

LEMMA Inv2Holds == Spec => [](Inv1 /\ Inv2)
  BY InitInv2, NextKeepsInv2, InitInv1, NextKeepsInv1, PTL DEF Spec

\* Single use: whatever runs at the same time elsewhere, a family on which no
\* two requests overlapped has at most one token that can be spent.
THEOREM SingleUseWithoutOverlap == Spec => []OneLiveToken
<1>1. Inv2 => OneLiveToken
  BY DEF Inv2
<1>2. QED
  BY <1>1, Inv2Holds, PTL

-----------------------------------------------------------------------------
(* An ended family stays ended.                                            *)

\* Nothing extends a family that ended alone.
EndedIsFinal ==
    /\ EndedFamilyIsDead
    /\ \A f \in ended : rows[f].status # "unissued"
    /\ \A p \in Txns : req[p].op = "refresh" /\ req[p].fam \in ended => req[p].fam \in crossedFam

Inv3 == RevokesAll /\ EndedIsFinal

LEMMA InitInv3 == Init => Inv3
<1> SUFFICES ASSUME Init PROVE Inv3
  OBVIOUS
<1>1. \A p \in Txns : req[p].op = "none"
  BY DEF Init, Idle
<1>2. ended = {}
  BY DEF Init
<1>3. QED
  BY <1>1, <1>2 DEF Inv3, RevokesAll, EndedIsFinal, EndedFamilyIsDead

LEMMA OpeningKeepsInv3 ==
  ASSUME Inv1, Inv3, NEW p \in Txns, NEW r \in Request, Opening(p, r)
  PROVE  Inv3'
<1>1. /\ req'[p] = r /\ \A q \in Txns \ {p} : req'[q] = req[q]
      /\ rows' = rows /\ ended' = ended /\ crossedFam \subseteq crossedFam'
  BY DEF Opening, Begin, Inv1, TypeOK
<1>2. r.op \in {"reuse", "logout"} => r.pc = "loaded"
  BY DEF Opening
<1>3. RevokesAll'
  BY <1>1, <1>2 DEF Inv3, RevokesAll, LiveIn, IsLive
<1>4. EndedFamilyIsDead' /\ \A f \in ended' : rows'[f].status # "unissued"
  BY <1>1 DEF Inv3, EndedIsFinal, EndedFamilyIsDead, LiveIn, IsLive
<1>5. r.op = "refresh" /\ r.fam \in ended => r.fam \in crossedFam
  <2>1. r.op = "refresh" => r.tok \in LiveIn(r.fam)
    BY DEF Opening, Shape, LiveIn
  <2>2. QED
    BY <2>1 DEF Inv3, EndedIsFinal, EndedFamilyIsDead
<1>6. QED
  BY <1>1, <1>3, <1>4, <1>5 DEF Inv3, EndedIsFinal

LEMMA QuietKeepsRevokesAll ==
  ASSUME Inv1, RevokesAll, Quiet PROVE RevokesAll'
<1> SUFFICES ASSUME NEW q \in Txns, req'[q].op \in {"reuse", "logout"}, req'[q].pc = "locking",
                    req'[q].fam \notin crossedFam',
                    NEW t \in Tokens, rows'[t].status = "live", rows'[t].fam = req'[q].fam
             PROVE  t \in req'[q].todo \cup req'[q].held
  BY DEF RevokesAll, LiveIn, IsLive
<1>1. t \in LiveIn(req'[q].fam)
  BY DEF Quiet, NoInsertion, Stored, LiveIn, IsLive
<1>2. QED
  BY <1>1 DEF Quiet, Covering

LEMMA QuietKeepsInv3 ==
  ASSUME Inv1, Inv3, Quiet, ended' = ended
  PROVE  Inv3'
<1>1. RevokesAll'
  BY QuietKeepsRevokesAll DEF Inv3
<1>2. ended \subseteq Tokens /\ crossedFam' = crossedFam /\ Idle.op = "none"
  BY DEF Inv1, TypeOK, Quiet, Idle
<1>3. EndedFamilyIsDead'
  BY <1>2, QuietShrinks DEF Inv3, EndedIsFinal, EndedFamilyIsDead
<1>4. \A f \in ended' : rows'[f].status # "unissued"
  BY <1>2 DEF Inv3, EndedIsFinal, Quiet, NoInsertion
<1>5. \A q \in Txns : req'[q].op = "refresh" /\ req'[q].fam \in ended' => req'[q].fam \in crossedFam'
  BY <1>2 DEF Inv3, EndedIsFinal, Quiet, Progress
<1>6. QED
  BY <1>1, <1>3, <1>4, <1>5 DEF Inv3, EndedIsFinal

LEMMA EndingKeepsInv3 ==
  ASSUME Inv1, Inv2, Inv3, Quiet, NEW p \in Txns, EndFamily(p)
  PROVE  Inv3'
<1> DEFINE f == req[p].fam
<1>1. ended' = ended \cup {f} /\ ended \subseteq Tokens /\ f \in Tokens
      /\ crossedFam' = crossedFam /\ Idle.op = "none"
  BY Fields DEF EndFamily, Inv1, TypeOK, Quiet, Idle
<1>2. RevokesAll'
  BY QuietKeepsRevokesAll DEF Inv3
<1>3. ASSUME f \notin crossedFam, NEW t \in Tokens, rows'[t].status = "live", rows'[t].fam = f
      PROVE  FALSE
  <2>1. LiveIn(f) \subseteq req[p].held
    BY <1>3 DEF EndFamily, Inv3, RevokesAll
  <2>2. t \in LiveIn(f)
    BY <1>3 DEF Quiet, NoInsertion, Stored, LiveIn, IsLive
  <2>3. rows'[t].status = "revoked"
    BY <2>1, <2>2, RevokingIsQuiet DEF EndFamily
  <2>4. QED
    BY <1>3, <2>3
<1>4. ASSUME NEW g \in ended, g \notin crossedFam, NEW t \in Tokens,
             rows'[t].status = "live", rows'[t].fam = g
      PROVE  FALSE
  <2>1. t \in LiveIn(g)
    BY <1>4 DEF Quiet, NoInsertion, Stored, LiveIn, IsLive
  <2>2. QED
    BY <1>4, <2>1 DEF Inv3, EndedIsFinal, EndedFamilyIsDead
<1>5. EndedFamilyIsDead'
  BY <1>1, <1>3, <1>4 DEF EndedFamilyIsDead, LiveIn, IsLive
<1>6. \A g \in ended' : rows'[g].status # "unissued"
  <2>1. rows[f].status # "unissued"
    BY DEF Inv2, Rooted, EndFamily
  <2>2. QED
    BY <1>1, <2>1 DEF Inv3, EndedIsFinal, Quiet, NoInsertion
<1>7. ASSUME NEW q \in Txns, req'[q].op = "refresh", req'[q].fam \in ended'
      PROVE  req'[q].fam \in crossedFam'
  <2>1. req[q].op = "refresh" /\ req'[q].fam = req[q].fam /\ q # p
    BY <1>1, <1>7 DEF Quiet, Progress, EndFamily
  <2>2. CASE req[q].fam \in ended
    BY <1>1, <2>1, <2>2 DEF Inv3, EndedIsFinal
  <2>3. CASE req[q].fam = f
    BY <1>1, <2>1, <2>3 DEF Inv2, Alone
  <2>4. QED
    BY <1>1, <1>7, <2>1, <2>2, <2>3
<1>8. QED
  BY <1>2, <1>5, <1>6, <1>7 DEF Inv3, EndedIsFinal

LEMMA InsertingKeepsInv3 ==
  ASSUME Inv1, Inv2, Inv3, NEW p \in Txns, LoginCommit(p) \/ RefreshCommit(p)
  PROVE  Inv3'
<1> DEFINE new == req[p].new
           fam == req[p].fam
<1>1. Inserting(p) /\ new \in Tokens /\ rows[new].status = "unissued"
      /\ crossedFam' = crossedFam /\ ended' = ended /\ ended \subseteq Tokens
  BY CommitsInsert DEF Inserting, Inv1, TypeOK
<1>2. Idle.op = "none" /\ fam \in Tokens
  BY Fields DEF Idle, LoginCommit, RefreshCommit
<1>3. ASSUME NEW t \in Tokens, rows'[t].status = "live", rows'[t].fam # fam
      PROVE  rows[t].status = "live" /\ rows'[t].fam = rows[t].fam
  BY <1>1, <1>3 DEF Inserting
<1>4. RevokesAll'
  <2> SUFFICES ASSUME NEW q \in Txns, req'[q].op \in {"reuse", "logout"}, req'[q].pc = "locking",
                      req'[q].fam \notin crossedFam',
                      NEW t \in Tokens, rows'[t].status = "live", rows'[t].fam = req'[q].fam
               PROVE  t \in req'[q].todo \cup req'[q].held
    BY DEF RevokesAll, LiveIn, IsLive
  <2>1. q # p /\ req'[q] = req[q]
    BY <1>1, <1>2 DEF Inserting
  <2>2. req[q].fam \in Tokens /\ req[q].fam # fam
    BY <1>1, <2>1, Fields DEF Inv2, Alone
  <2>3. t \in LiveIn(req[q].fam)
    BY <1>3, <2>1, <2>2 DEF LiveIn, IsLive
  <2>4. QED
    BY <1>1, <2>1, <2>3 DEF Inv3, RevokesAll
<1>5. fam \in ended => fam \in crossedFam
  <2>1. CASE LoginCommit(p)
    BY <1>1, <2>1, CommitsInsert DEF Inv3, EndedIsFinal
  <2>2. CASE RefreshCommit(p)
    BY <2>2 DEF Inv3, EndedIsFinal, RefreshCommit
  <2>3. QED
    BY <2>1, <2>2
<1>6. EndedFamilyIsDead'
  <2> SUFFICES ASSUME NEW f \in ended, f \notin crossedFam,
                      NEW t \in Tokens, rows'[t].status = "live", rows'[t].fam = f
               PROVE  FALSE
    BY <1>1 DEF EndedFamilyIsDead, LiveIn, IsLive
  <2>1. t \in LiveIn(f)
    BY <1>3, <1>5 DEF LiveIn, IsLive
  <2>2. QED
    BY <2>1 DEF Inv3, EndedIsFinal, EndedFamilyIsDead
<1>7. \A f \in ended' : rows'[f].status # "unissued"
  BY <1>1 DEF Inserting, Inv3, EndedIsFinal
<1>8. \A q \in Txns : req'[q].op = "refresh" /\ req'[q].fam \in ended' => req'[q].fam \in crossedFam'
  BY <1>1, <1>2 DEF Inserting, Inv3, EndedIsFinal
<1>9. QED
  BY <1>4, <1>6, <1>7, <1>8 DEF Inv3, EndedIsFinal

LEMMA NextKeepsInv3 == Inv1 /\ Inv2 /\ Inv3 /\ [Next]_vars => Inv3'
  BY StepsClassified, OpeningKeepsInv3, QuietKeepsInv3, EndingKeepsInv3, InsertingKeepsInv3

\* A logout, or the answer to a reuse, that no other request of the family
\* overlapped ends the session for good.
THEOREM LogoutIsFinalWithoutOverlap == Spec => []EndedFamilyIsDead
<1>1. Init => Inv1 /\ Inv2 /\ Inv3
  BY InitInv1, InitInv2, InitInv3
<1>2. Inv1 /\ Inv2 /\ Inv3 /\ [Next]_vars => (Inv1 /\ Inv2 /\ Inv3)'
  BY NextKeepsInv1, NextKeepsInv2, NextKeepsInv3
<1>3. Inv3 => EndedFamilyIsDead
  BY DEF Inv3, EndedIsFinal
<1>4. QED
  BY <1>1, <1>2, <1>3, PTL DEF Spec

-----------------------------------------------------------------------------

LEMMA DeadStep ==
  ASSUME Inv1, Inv2, [Next]_vars, NEW f \in Tokens, Dead(f)
  PROVE  Dead(f)'
<1>0. /\ rows[f].status # "unissued" /\ LiveIn(f) = {}
      /\ \A p \in Txns : ~(req[p].op = "refresh" /\ req[p].fam = f)
      /\ Idle.op = "none"
  BY DEF Dead, Idle
<1>1. ASSUME NEW p \in Txns, NEW r \in Request, Opening(p, r) PROVE Dead(f)'
  <2>1. /\ req'[p] = r /\ \A q \in Txns \ {p} : req'[q] = req[q]
        /\ rows' = rows
    BY <1>1 DEF Opening, Begin, Inv1, TypeOK
  <2>2. r.op = "refresh" => r.tok \in LiveIn(r.fam)
    BY <1>1 DEF Opening, Shape, LiveIn
  <2>3. QED
    BY <1>0, <2>1, <2>2 DEF Dead, LiveIn, IsLive
<1>2. ASSUME Quiet PROVE Dead(f)'
  <2>1. LiveIn(f)' = {}
    BY <1>0, <1>2, QuietShrinks
  <2>2. rows'[f].status # "unissued"
    BY <1>0, <1>2 DEF Quiet, NoInsertion
  <2>3. \A q \in Txns : ~(req'[q].op = "refresh" /\ req'[q].fam = f)
    BY <1>0, <1>2 DEF Quiet, Progress
  <2>4. QED
    BY <2>1, <2>2, <2>3 DEF Dead
<1>3. ASSUME NEW p \in Txns, LoginCommit(p) \/ RefreshCommit(p) PROVE Dead(f)'
  <2>1. Inserting(p) /\ req[p].new \in Tokens /\ rows[req[p].new].status = "unissued"
    BY <1>3, CommitsInsert
  <2>2. req[p].fam # f
    BY <1>0, <1>3, <2>1, CommitsInsert
  <2>3. LiveIn(f)' = {}
    BY <1>0, <2>1, <2>2 DEF Inserting, LiveIn, IsLive
  <2>4. rows'[f].status # "unissued"
    BY <1>0, <2>1 DEF Inserting
  <2>5. \A q \in Txns : ~(req'[q].op = "refresh" /\ req'[q].fam = f)
    BY <1>0, <2>1 DEF Inserting
  <2>6. QED
    BY <2>3, <2>4, <2>5 DEF Dead
<1>4. QED
  BY <1>1, <1>2, <1>3, StepsClassified

\* Whatever overlaps, a family without a live token and without a refresh under
\* way is never extended again.
THEOREM DeadFamiliesStayDead == Spec => DeadStaysDead
<1>1. Inv1 /\ Inv2 /\ [Next]_vars => [\A f \in Tokens : Dead(f) => Dead(f)']_vars
  BY DeadStep
<1>2. QED
  BY <1>1, Inv2Holds, PTL DEF Spec, DeadStaysDead

-----------------------------------------------------------------------------
(* Resets and the purge.  Both ask of each step what it makes of rows that *)
(* exist already (Carried).                                                *)

\* A row keeps its family, its account, the reset its family was begun after and,
\* once expired, its expiry; it is neither issued nor made live again.
Carried(t) ==
    /\ rows[t].status # "unissued" => rows'[t].status # "unissued"
    /\ rows'[t].status = "live" => rows[t].status = "live"
    /\ Stored(rows'[t]) =>
          /\ Stored(rows[t])
          /\ rows'[t].fam = rows[t].fam
          /\ rows'[t].user = rows[t].user
          /\ rows'[t].epoch = rows[t].epoch
          /\ rows[t].expired => rows'[t].expired

\* It stays in the table, too.
Stays(t) == Carried(t) /\ (Stored(rows[t]) => Stored(rows'[t]))

LEMMA UnchangedStays == ASSUME NEW t \in Tokens, rows'[t] = rows[t] PROVE Stays(t)
  BY DEF Stays, Carried

LEMMA RevokedStays ==
  ASSUME Inv1, NEW p \in Txns, rows' = RevokeRows(req[p].held), NEW t \in Tokens
  PROVE  Stays(t)
<1>1. rows[t] \in Row /\ (t \in req[p].held => Stored(rows[t]))
  BY DEF Inv1, TypeOK, Locks, Exists, Stored
<1>2. CASE t \in req[p].held
  <2>1. rows'[t] = [rows[t] EXCEPT !.status = "revoked"]
    BY <1>2 DEF RevokeRows
  <2>2. /\ rows'[t].status = "revoked" /\ rows'[t].user = rows[t].user
        /\ rows'[t].fam = rows[t].fam /\ rows'[t].epoch = rows[t].epoch /\ rows'[t].expired = rows[t].expired
    BY <1>1, <2>1 DEF Row
  <2>3. QED
    BY <1>1, <1>2, <2>2 DEF Stays, Carried, Stored
<1>3. CASE t \notin req[p].held
  BY <1>3, UnchangedStays DEF RevokeRows
<1>4. QED
  BY <1>2, <1>3

LEMMA ExpiringStays ==
  ASSUME Inv1, NEW s \in Tokens, Expire(s), NEW t \in Tokens
  PROVE  Stays(t)
<1>1. rows' = [rows EXCEPT ![s].expired = TRUE] /\ rows \in [Tokens -> Row]
  BY DEF Expire, Inv1, TypeOK
<1>2. CASE t = s
  <2>1. rows'[t] = [rows[t] EXCEPT !.expired = TRUE] /\ rows[t] \in Row
    BY <1>1, <1>2
  <2>2. /\ rows'[t].status = rows[t].status /\ rows'[t].user = rows[t].user
        /\ rows'[t].fam = rows[t].fam /\ rows'[t].epoch = rows[t].epoch /\ rows'[t].expired
    BY <2>1 DEF Row
  <2>3. QED
    BY <2>2 DEF Stays, Carried, Stored
<1>3. CASE t # s
  BY <1>1, <1>3, UnchangedStays
<1>4. QED
  BY <1>2, <1>3

LEMMA PurgingCarries ==
  ASSUME Inv1, NEW p \in Txns, PurgeCommit(p), NEW t \in Tokens
  PROVE  Carried(t) /\ (t \notin req[p].held => Stays(t))
<1> DEFINE gone == req[p].held
<1>1. rows'[t] = IF t \in gone THEN NoRow("purged")
                 ELSE IF rows[t].next \in gone THEN [rows[t] EXCEPT !.next = NoToken]
                 ELSE rows[t]
  BY DEF PurgeCommit
<1>2. rows[t] \in Row
  BY DEF Inv1, TypeOK
<1>3. CASE t \in gone
  <2>1. rows'[t].status = "purged"
    BY <1>1, <1>3 DEF NoRow
  <2>2. QED
    BY <1>3, <2>1 DEF Carried, Stored
<1>4. CASE t \notin gone /\ rows[t].next \in gone
  <2>1. rows'[t] = [rows[t] EXCEPT !.next = NoToken]
    BY <1>1, <1>4
  <2>2. /\ rows'[t].status = rows[t].status /\ rows'[t].user = rows[t].user
        /\ rows'[t].fam = rows[t].fam /\ rows'[t].epoch = rows[t].epoch /\ rows'[t].expired = rows[t].expired
    BY <1>2, <2>1 DEF Row
  <2>3. QED
    BY <2>2 DEF Stays, Carried, Stored
<1>5. CASE t \notin gone /\ rows[t].next \notin gone
  <2>1. rows'[t] = rows[t]
    BY <1>1, <1>5
  <2>2. QED
    BY <2>1, UnchangedStays DEF Stays
<1>6. QED
  BY <1>3, <1>4, <1>5

\* The two commits that insert leave every other row in the table.
LEMMA InsertingStays ==
  ASSUME Inv1, NEW p \in Txns, LoginCommit(p) \/ RefreshCommit(p)
  PROVE  /\ req[p].new \in Tokens /\ rows[req[p].new].status = "unissued"
         /\ rows'[req[p].new] = NewRow(p)
         /\ \A t \in Tokens \ {req[p].new} : Stays(t)
<1> DEFINE new == req[p].new
           tok == req[p].tok
<1>1. new \in Tokens /\ rows[new].status = "unissued" /\ rows \in [Tokens -> Row] /\ Shape(req[p])
  BY CommitsInsert DEF Inv1, TypeOK, RequestShape
<1>2. CASE LoginCommit(p)
  <2>1. rows' = [rows EXCEPT ![new] = NewRow(p)]
    BY <1>2 DEF LoginCommit
  <2>2. QED
    BY <1>1, <2>1, UnchangedStays
<1>3. CASE RefreshCommit(p)
  <2>1. rows' = [[[rows EXCEPT ![tok].status = "revoked"] EXCEPT ![tok].next = new]
                    EXCEPT ![new] = NewRow(p)]
    BY <1>3 DEF RefreshCommit
  <2>2. tok \in Tokens /\ tok \in req[p].held
    BY <1>1, <1>3 DEF RefreshCommit, Shape
  <2>3. Stored(rows[tok]) /\ tok # new
    BY <1>1, <2>2 DEF Inv1, Locks, Exists, Stored
  <2>4. /\ rows'[new] = NewRow(p)
        /\ rows'[tok] = [[rows[tok] EXCEPT !.status = "revoked"] EXCEPT !.next = new]
        /\ \A t \in Tokens : t \notin {tok, new} => rows'[t] = rows[t]
    BY <1>1, <2>1, <2>2, <2>3
  <2>5. /\ rows'[tok].status = "revoked" /\ rows'[tok].user = rows[tok].user
        /\ rows'[tok].fam = rows[tok].fam /\ rows'[tok].epoch = rows[tok].epoch /\ rows'[tok].expired = rows[tok].expired
    BY <1>1, <2>2, <2>4 DEF Row
  <2>6. Stays(tok)
    BY <2>3, <2>5 DEF Stays, Carried, Stored
  <2>7. QED
    BY <1>1, <2>4, <2>6, UnchangedStays
<1>4. QED
  BY <1>2, <1>3

-----------------------------------------------------------------------------
(* The purge.                                                              *)

\* What the purge has found, and found again when it locked it, is past its expiry.
OnlyExpired(r) ==
    r.op = "purge" => \A t \in r.todo \cup r.held :
        rows[t].status # "unissued" /\ (Stored(rows[t]) => rows[t].expired)

PurgeInv == \A p \in Txns : OnlyExpired(req[p])

LEMMA InitPurgeInv == Init => PurgeInv
  BY DEF Init, PurgeInv, OnlyExpired, Idle

LEMMA IdlePurgesNothing == OnlyExpired(Idle)
  BY DEF OnlyExpired, Idle

LEMMA BeginKeepsPurgeInv ==
  ASSUME Inv1, PurgeInv, NEW p \in Txns, NEW r, Begin(p, r), OnlyExpired(r)
  PROVE  PurgeInv' /\ rows' = rows
  BY DEF Begin, Inv1, TypeOK, PurgeInv, OnlyExpired, Stored

LEMMA AdvanceKeepsPurgeInv ==
  ASSUME Inv1, PurgeInv, NEW p \in Txns, NEW r, Advance(p, r), OnlyExpired(r)
  PROVE  PurgeInv' /\ rows' = rows
  BY DEF Advance, Inv1, TypeOK, PurgeInv, OnlyExpired, Stored

LEMMA CloseKeepsPurgeInv ==
  ASSUME Inv1, PurgeInv, NEW p \in Txns, Close(p),
         \A t \in Tokens : rows[t].status # "unissued" => Carried(t)
  PROVE  PurgeInv'
<1> SUFFICES ASSUME NEW q \in Txns, req'[q].op = "purge", NEW t \in req'[q].todo \cup req'[q].held
             PROVE  rows'[t].status # "unissued" /\ (Stored(rows'[t]) => rows'[t].expired)
  BY DEF PurgeInv, OnlyExpired, Stored
<1>1. q # p /\ req'[q] = req[q]
  BY DEF Close, Inv1, TypeOK, Idle
<1>2. t \in Tokens
  BY <1>1 DEF Inv1, TypeOK, Request
<1>3. QED
  BY <1>1, <1>2 DEF PurgeInv, OnlyExpired, Carried

LEMMA ArriveKeepsPurgeInv ==
  ASSUME Inv1, PurgeInv, NEW p \in Txns, Arrive(p)
  PROVE  PurgeInv' /\ rows' = rows
<1>1. ASSUME NEW u \in Users, NEW s \in Tokens, NEW b \in BOOLEAN, LoginRead(p, u, s, b)
      PROVE  PurgeInv' /\ rows' = rows
  <2> DEFINE r == [Idle EXCEPT !.op = "login", !.pc = "loaded", !.user = u, !.fam = s,
                               !.new = s, !.epoch = users[u].resets, !.rehash = b,
                               !.pwd = IF b THEN users[u].pwd ELSE 0]
  <2>1. Begin(p, r)
    BY <1>1 DEF LoginRead
  <2>2. OnlyExpired(r)
    BY DEF OnlyExpired, Idle
  <2> HIDE DEF r
  <2>3. QED
    BY <2>1, <2>2, BeginKeepsPurgeInv
<1>2. ASSUME NEW t \in Tokens, NEW s \in Tokens, RefreshRead(p, t, s)
      PROVE  PurgeInv' /\ rows' = rows
  <2> DEFINE r == [Idle EXCEPT !.op = "refresh", !.pc = "presented", !.user = rows[t].user,
                               !.fam = rows[t].fam, !.tok = t, !.new = s,
                               !.epoch = rows[t].epoch]
  <2>1. Begin(p, r)
    BY <1>2 DEF RefreshRead
  <2>2. OnlyExpired(r)
    BY DEF OnlyExpired, Idle
  <2> HIDE DEF r
  <2>3. QED
    BY <2>1, <2>2, BeginKeepsPurgeInv
<1>3. ASSUME NEW t \in Tokens, NEW o \in {"reuse", "logout"},
             Begin(p, [Idle EXCEPT !.op = o, !.pc = "loaded", !.user = rows[t].user,
                                   !.fam = rows[t].fam])
      PROVE  PurgeInv' /\ rows' = rows
  <2> DEFINE r == [Idle EXCEPT !.op = o, !.pc = "loaded", !.user = rows[t].user,
                               !.fam = rows[t].fam]
  <2>1. Begin(p, r) /\ OnlyExpired(r)
    BY <1>3 DEF OnlyExpired, Idle
  <2> HIDE DEF r
  <2>2. QED
    BY <2>1, BeginKeepsPurgeInv
<1>4. ASSUME NEW u \in Users, ResetRead(p, u)
      PROVE  PurgeInv' /\ rows' = rows
  <2> DEFINE r == [Idle EXCEPT !.op = "reset", !.pc = "loaded", !.user = u]
  <2>1. Begin(p, r) /\ OnlyExpired(r)
    BY <1>4 DEF ResetRead, OnlyExpired, Idle
  <2> HIDE DEF r
  <2>2. QED
    BY <2>1, BeginKeepsPurgeInv
<1>5. ASSUME PurgeStart(p)
      PROVE  PurgeInv' /\ rows' = rows
  <2> DEFINE expired == {t \in Tokens : Exists(t) /\ rows[t].expired}
             r == [Idle EXCEPT !.op = "purge", !.pc = "locking", !.todo = expired]
  <2>1. Begin(p, r)
    BY <1>5 DEF PurgeStart
  <2>2. r.todo \cup r.held = expired
    BY DEF Idle
  <2>3. OnlyExpired(r)
    BY <2>2 DEF OnlyExpired, Exists, Stored
  <2> HIDE DEF r
  <2>4. QED
    BY <2>1, <2>3, BeginKeepsPurgeInv
<1>6. ASSUME NEW t \in Tokens, ReuseRead(p, t) PROVE PurgeInv' /\ rows' = rows
  BY <1>3, <1>6 DEF ReuseRead
<1>7. ASSUME NEW t \in Tokens, LogoutRead(p, t) PROVE PurgeInv' /\ rows' = rows
  BY <1>3, <1>7 DEF LogoutRead
<1>8. QED
  BY <1>1, <1>2, <1>4, <1>5, <1>6, <1>7 DEF Arrive

\* No step but the purge's commit takes a row out, and that one only expired ones.
PurgeStep == \A t \in Tokens : Stored(rows[t]) /\ ~Stored(rows'[t]) => rows[t].expired

LEMMA PurgeStepHolds ==
  ASSUME Inv1, PurgeInv, [Next]_vars
  PROVE  PurgeInv' /\ PurgeStep
<1>0. /\ req \in [Txns -> Request]
      /\ rows' = rows => PurgeStep
      /\ (\A t \in Tokens : Stays(t)) => PurgeStep
  BY DEF Inv1, TypeOK, PurgeStep, Stays
<1>1. ASSUME NEW p \in Txns, Arrive(p) PROVE PurgeInv' /\ PurgeStep
  BY <1>0, <1>1, ArriveKeepsPurgeInv
<1>2. ASSUME NEW p \in Txns, Advance(p, Idle) PROVE PurgeInv' /\ PurgeStep
  BY <1>0, <1>2, IdlePurgesNothing, AdvanceKeepsPurgeInv
<1>3. ASSUME NEW p \in Txns, NEW r \in Request, Advance(p, r), r.op = req[p].op,
             r.op = "purge" => r.todo \cup r.held \subseteq req[p].todo \cup req[p].held
      PROVE  PurgeInv' /\ PurgeStep
  <2>1. OnlyExpired(r)
    BY <1>3 DEF PurgeInv, OnlyExpired
  <2>2. QED
    BY <1>0, <1>3, <2>1, AdvanceKeepsPurgeInv
<1>4. ASSUME NEW p \in Txns, RefreshCheckUser(p) PROVE PurgeInv' /\ PurgeStep
  <2> DEFINE r == [req[p] EXCEPT !.pc = "loaded"]
  <2>1. r \in Request /\ r.op = req[p].op /\ r.todo = req[p].todo /\ r.held = req[p].held
    BY <1>0 DEF Request, Steps
  <2>2. Advance(p, r) \/ Advance(p, Idle)
    BY <1>4 DEF RefreshCheckUser
  <2>3. QED
    BY <1>2, <1>3, <2>1, <2>2
<1>5. ASSUME NEW p \in Txns, RevokeStart(p) PROVE PurgeInv' /\ PurgeStep
  <2> DEFINE r == [req[p] EXCEPT !.pc = "locking", !.todo = {t \in Tokens : Matches(p, t)}]
  <2>1. r \in Request /\ r.op = req[p].op
    BY <1>0 DEF Request, Steps
  <2>2. Advance(p, r) /\ req[p].op # "purge"
    BY <1>5 DEF RevokeStart
  <2>3. QED
    BY <1>3, <2>1, <2>2
<1>6. ASSUME NEW p \in Txns, NEW t \in Tokens, LockRow(p, t) PROVE PurgeInv' /\ PurgeStep
  <2> DEFINE hit == IF req[p].op = "purge" THEN Exists(t) ELSE Matches(p, t)
             r == [req[p] EXCEPT !.todo = @ \ {t}, !.held = IF hit THEN @ \cup {t} ELSE @]
  <2>1. /\ r \in Request /\ r.op = req[p].op
        /\ r.todo \subseteq req[p].todo /\ r.held \subseteq req[p].held \cup {t}
    BY <1>0 DEF Request
  <2>2. Advance(p, r) /\ t \in req[p].todo
    BY <1>6 DEF LockRow
  <2>3. QED
    BY <1>3, <2>1, <2>2
<1>7. ASSUME NEW p \in Txns, RefreshFlush(p) PROVE PurgeInv' /\ PurgeStep
  <2> DEFINE r == [req[p] EXCEPT !.pc = "flushed", !.held = {req[p].tok}]
  <2>1. req[p].tok \in Tokens /\ req[p].op = "refresh"
    BY <1>7 DEF RefreshFlush, Inv1, RequestShape, Shape
  <2>2. r \in Request /\ r.op = req[p].op
    BY <1>0, <2>1 DEF Request, Steps
  <2>3. Advance(p, r) \/ Advance(p, Idle)
    BY <1>7 DEF RefreshFlush
  <2>4. QED
    BY <1>2, <1>3, <2>1, <2>2, <2>3
<1>8. ASSUME NEW p \in Txns, LoginCommit(p) \/ RefreshCommit(p) PROVE PurgeInv' /\ PurgeStep
  <2>1. /\ rows[req[p].new].status = "unissued"
        /\ \A t \in Tokens \ {req[p].new} : Stays(t)
        /\ Close(p)
    BY <1>8, InsertingStays DEF LoginCommit, RefreshCommit
  <2>2. PurgeStep
    BY <2>1 DEF PurgeStep, Stays, Stored
  <2>3. QED
    BY <2>1, <2>2, CloseKeepsPurgeInv DEF Stays
<1>9. ASSUME NEW p \in Txns, EndFamily(p) \/ ResetCommit(p) PROVE PurgeInv' /\ PurgeStep
  <2>1. (\A t \in Tokens : Stays(t)) /\ Close(p)
    BY <1>9, RevokedStays DEF EndFamily, ResetCommit
  <2>2. QED
    BY <1>0, <2>1, CloseKeepsPurgeInv DEF Stays
<1>10. ASSUME NEW p \in Txns, PurgeCommit(p) PROVE PurgeInv' /\ PurgeStep
  <2>1. \A t \in Tokens : Carried(t) /\ (t \notin req[p].held => Stays(t))
    BY <1>10, PurgingCarries
  <2>2. Close(p) /\ req[p].op = "purge"
    BY <1>10 DEF PurgeCommit
  <2>3. PurgeStep
    BY <2>1, <2>2 DEF PurgeStep, PurgeInv, OnlyExpired, Stays
  <2>4. QED
    BY <2>1, <2>2, <2>3, CloseKeepsPurgeInv
<1>11. ASSUME NEW s \in Tokens, Expire(s) PROVE PurgeInv' /\ PurgeStep
  <2>1. (\A t \in Tokens : Stays(t)) /\ req' = req
    BY <1>11, ExpiringStays DEF Expire
  <2>2. PurgeInv'
    <3> SUFFICES ASSUME NEW q \in Txns, req[q].op = "purge", NEW t \in req[q].todo \cup req[q].held
                 PROVE  rows'[t].status # "unissued" /\ (Stored(rows'[t]) => rows'[t].expired)
      BY <2>1 DEF PurgeInv, OnlyExpired, Stored
    <3>1. t \in Tokens
      BY <1>0 DEF Request
    <3>2. QED
      BY <2>1, <3>1 DEF PurgeInv, OnlyExpired, Stays, Carried
  <2>3. QED
    BY <1>0, <2>1, <2>2
<1>12. ASSUME UNCHANGED <<rows, req>> PROVE PurgeInv' /\ PurgeStep
  BY <1>0, <1>12 DEF PurgeInv, OnlyExpired, Stored
<1>13. QED
  BY <1>1, <1>2, <1>4, <1>5, <1>6, <1>7, <1>8, <1>9, <1>10, <1>11, <1>12
  DEF Next, Work, Commit, Rollback, DeadlockAbort, SetActive, vars

\* Whatever the purge meets while it waits for locks, a spent row stays until it has
\* expired: a replay within its lifetime is recognised (maintenance.py:38-39).
THEOREM SpentRowsStay == Spec => SpentRowsKept
<1>1. Inv1 /\ PurgeInv /\ [Next]_vars => PurgeInv'
  BY PurgeStepHolds
<1>2. Inv1 /\ PurgeInv /\ [Next]_vars
         => [\A t \in Tokens : Exists(t) /\ ~Exists(t)' => rows[t].expired]_vars
  BY PurgeStepHolds DEF PurgeStep, Stored, Exists
<1>3. QED
  BY <1>1, <1>2, InitPurgeInv, InitInv1, NextKeepsInv1, PTL DEF Spec, SpentRowsKept

-----------------------------------------------------------------------------
(* Password resets.                                                        *)

\* What a request on an account that no other request worked on knows of it.
Faithful(r) ==
    /\ r.op \in {"login", "refresh"} => r.epoch = users[r.user].resets
    /\ r.op = "login" /\ r.rehash => r.pwd = users[r.user].pwd
    /\ r.op = "reset" /\ r.pc = "locking" => LiveOf(r.user) \subseteq r.todo \cup r.held

\* On an account that was never crossed at most one request is open.
AloneOnAccount ==
    \A u \in Users \ crossedUser : \A p, q \in Txns : req[p].user = u /\ req[q].user = u => p = q

OwnerInv ==
    /\ ResetReachesEverySession
    /\ AloneOnAccount
    /\ \A p \in Txns : req[p].user \in Users \ crossedUser => Faithful(req[p])

LEMMA IdleHasNoAccount == Idle.user \notin Users /\ Idle.op = "none"
  BY NoUserFresh DEF Idle

LEMMA InitOwnerInv == Init => OwnerInv
<1> SUFFICES ASSUME Init PROVE OwnerInv
  OBVIOUS
<1>1. \A t \in Tokens : rows[t].status = "unissued"
  BY DEF Init, NoRow
<1>2. \A u \in Users : users[u].pwd = 0 /\ users[u].resets = 0
  BY DEF Init
<1>3. ResetReachesEverySession
  BY <1>1, <1>2 DEF ResetReachesEverySession, LiveOf, IsLive
<1>4. \A p \in Txns : req[p].user \notin Users
  BY IdleHasNoAccount DEF Init
<1>5. QED
  BY <1>3, <1>4 DEF OwnerInv, AloneOnAccount

LEMMA BeginKeepsOwnerInv ==
  ASSUME Inv1, OwnerInv, NEW p \in Txns, NEW r \in Request, Begin(p, r),
         r.user \in Users \ crossedUser => Faithful(r)
  PROVE  OwnerInv'
<1>1. /\ req'[p] = r /\ \A q \in Txns \ {p} : req'[q] = req[q]
      /\ UNCHANGED <<rows, users>> /\ crossedUser \subseteq crossedUser'
  BY DEF Begin, Inv1, TypeOK
<1>2. ResetReachesEverySession'
  BY <1>1 DEF OwnerInv, ResetReachesEverySession, LiveOf, IsLive
<1>3. ASSUME NEW q \in Txns \ {p}, req[q].user = r.user, r.user \in Users
      PROVE  r.user \in crossedUser'
  <2>1. Open(q)
    BY <1>3, IdleHasNoAccount, ClosedIsIdle
  <2>2. QED
    BY <1>3, <2>1, NoUserFresh DEF Begin
<1>4. AloneOnAccount'
  BY <1>1, <1>3 DEF OwnerInv, AloneOnAccount
<1>5. \A q \in Txns : req'[q].user \in Users \ crossedUser' => Faithful(req[q])'
  BY <1>1 DEF OwnerInv, Faithful, LiveOf, IsLive
<1>6. QED
  BY <1>2, <1>4, <1>5 DEF OwnerInv

LEMMA AdvanceKeepsOwnerInv ==
  ASSUME Inv1, OwnerInv, NEW p \in Txns, NEW r \in Request, Advance(p, r),
         r.user \in Users => r.user = req[p].user,
         r.user \in Users \ crossedUser => Faithful(r)
  PROVE  OwnerInv'
<1>1. /\ req'[p] = r /\ \A q \in Txns \ {p} : req'[q] = req[q]
      /\ UNCHANGED <<rows, users, crossedUser>>
  BY DEF Advance, Inv1, TypeOK
<1>2. ResetReachesEverySession'
  BY <1>1 DEF OwnerInv, ResetReachesEverySession, LiveOf, IsLive
<1>3. AloneOnAccount'
  BY <1>1 DEF OwnerInv, AloneOnAccount
<1>4. \A q \in Txns : req'[q].user \in Users \ crossedUser' => Faithful(req[q])'
  BY <1>1 DEF OwnerInv, Faithful, LiveOf, IsLive
<1>5. QED
  BY <1>2, <1>3, <1>4 DEF OwnerInv

\* A commit writes to the account of its request alone, and leaves what it should there.
LEMMA CloseKeepsOwnerInv ==
  ASSUME Inv1, OwnerInv, NEW p \in Txns, Close(p),
         \A t \in Tokens : Carried(t) \/ rows'[t].user = req[p].user,
         \A u \in Users \ {req[p].user} : users'[u] = users[u],
         req[p].user \in Users \ crossedUser =>
             /\ users'[req[p].user].pwd = users'[req[p].user].resets
             /\ \A t \in Tokens : rows'[t].status = "live" /\ rows'[t].user = req[p].user
                                     => rows'[t].epoch = users'[req[p].user].resets
  PROVE  OwnerInv'
<1>1. /\ req'[p] = Idle /\ \A q \in Txns \ {p} : req'[q] = req[q]
      /\ crossedUser' = crossedUser
  BY DEF Close, Inv1, TypeOK
<1>2. ASSUME NEW u \in Users \ {req[p].user}
      PROVE  LiveOf(u)' \subseteq LiveOf(u) /\ \A t \in LiveOf(u)' : rows'[t].epoch = rows[t].epoch
  BY DEF LiveOf, IsLive, Carried, Stored
<1>3. ResetReachesEverySession'
  <2> SUFFICES ASSUME NEW u \in Users \ crossedUser
               PROVE  /\ users'[u].pwd = users'[u].resets
                      /\ \A t \in LiveOf(u)' : rows'[t].epoch = users'[u].resets
    BY <1>1 DEF ResetReachesEverySession
  <2>1. CASE u = req[p].user
    BY <2>1 DEF LiveOf, IsLive
  <2>2. CASE u # req[p].user
    BY <1>2, <2>2 DEF OwnerInv, ResetReachesEverySession
  <2>3. QED
    BY <2>1, <2>2
<1>4. AloneOnAccount'
  BY <1>1, IdleHasNoAccount DEF OwnerInv, AloneOnAccount
<1>5. ASSUME NEW q \in Txns, req'[q].user \in Users \ crossedUser'
      PROVE  Faithful(req[q])'
  <2>1. q # p /\ req'[q] = req[q] /\ req[q].user \in Users \ crossedUser
    BY <1>1, <1>5, IdleHasNoAccount
  <2>2. req[q].user # req[p].user
    BY <2>1 DEF OwnerInv, AloneOnAccount
  <2>3. users'[req[q].user] = users[req[q].user] /\ LiveOf(req[q].user)' \subseteq LiveOf(req[q].user)
    BY <1>2, <2>1, <2>2
  <2>4. LiveOf(req[q].user)' = {t \in Tokens : rows'[t].status = "live" /\ rows'[t].user = req[q].user}
    BY <2>1 DEF LiveOf, IsLive
  <2>6. Faithful(req[q])
    BY <2>1 DEF OwnerInv
  <2>7. QED
    BY <2>1, <2>3, <2>4, <2>6 DEF Faithful, LiveOf, IsLive
<1>6. QED
  BY <1>3, <1>4, <1>5 DEF OwnerInv

LEMMA ArriveKeepsOwnerInv ==
  ASSUME Inv1, OwnerInv, NEW p \in Txns, Arrive(p)
  PROVE  OwnerInv'
<1>0. rows \in [Tokens -> Row] /\ users \in [Users -> Account]
      /\ \A t \in Tokens : Exists(t) => rows[t].user \in Users /\ rows[t].fam \in Tokens
  BY DEF Inv1, TypeOK
<1>1. ASSUME NEW u \in Users, NEW s \in Tokens, NEW b \in BOOLEAN, LoginRead(p, u, s, b)
      PROVE  OwnerInv'
  <2> DEFINE r == [Idle EXCEPT !.op = "login", !.pc = "loaded", !.user = u, !.fam = s,
                               !.new = s, !.epoch = users[u].resets, !.rehash = b,
                               !.pwd = IF b THEN users[u].pwd ELSE 0]
  <2>1. Begin(p, r)
    BY <1>1 DEF LoginRead
  <2>2. r \in Request
    BY <1>0 DEF Idle, Request, Ops, Steps, Account
  <2>3. Faithful(r)
    BY DEF Faithful, Idle
  <2> HIDE DEF r
  <2>4. QED
    BY <2>1, <2>2, <2>3, BeginKeepsOwnerInv
<1>2. ASSUME NEW t \in Tokens, NEW s \in Tokens, RefreshRead(p, t, s)
      PROVE  OwnerInv'
  <2> DEFINE r == [Idle EXCEPT !.op = "refresh", !.pc = "presented", !.user = rows[t].user,
                               !.fam = rows[t].fam, !.tok = t, !.new = s,
                               !.epoch = rows[t].epoch]
  <2>1. Begin(p, r) /\ IsLive(t) /\ Exists(t)
    BY <1>2 DEF RefreshRead, IsLive, Exists
  <2>2. r \in Request /\ r.op = "refresh" /\ r.user = rows[t].user /\ r.epoch = rows[t].epoch
    BY <1>0, <2>1 DEF Idle, Request, Ops, Steps, Row
  <2>3. r.user \in Users \ crossedUser => Faithful(r)
    BY <2>1, <2>2 DEF Faithful, OwnerInv, ResetReachesEverySession, LiveOf
  <2> HIDE DEF r
  <2>4. QED
    BY <2>1, <2>2, <2>3, BeginKeepsOwnerInv
<1>3. ASSUME NEW t \in Tokens, NEW o \in {"reuse", "logout"}, Exists(t),
             Begin(p, [Idle EXCEPT !.op = o, !.pc = "loaded", !.user = rows[t].user,
                                   !.fam = rows[t].fam])
      PROVE  OwnerInv'
  <2> DEFINE r == [Idle EXCEPT !.op = o, !.pc = "loaded", !.user = rows[t].user,
                               !.fam = rows[t].fam]
  <2>1. r \in Request /\ Faithful(r)
    BY <1>0, <1>3 DEF Idle, Request, Ops, Steps, Row, Faithful
  <2> HIDE DEF r
  <2>2. QED
    BY <1>3, <2>1, BeginKeepsOwnerInv DEF r
<1>4. ASSUME NEW u \in Users, ResetRead(p, u) PROVE OwnerInv'
  <2> DEFINE r == [Idle EXCEPT !.op = "reset", !.pc = "loaded", !.user = u]
  <2>1. Begin(p, r) /\ r \in Request /\ Faithful(r)
    BY <1>4 DEF ResetRead, Idle, Request, Ops, Steps, Faithful
  <2> HIDE DEF r
  <2>2. QED
    BY <2>1, BeginKeepsOwnerInv
<1>5. ASSUME PurgeStart(p) PROVE OwnerInv'
  <2> DEFINE expired == {t \in Tokens : Exists(t) /\ rows[t].expired}
             r == [Idle EXCEPT !.op = "purge", !.pc = "locking", !.todo = expired]
  <2>1. Begin(p, r)
    BY <1>5 DEF PurgeStart
  <2>2. r \in Request /\ Faithful(r)
    BY DEF Idle, Request, Ops, Steps, Faithful
  <2> HIDE DEF r
  <2>3. QED
    BY <2>1, <2>2, BeginKeepsOwnerInv
<1>6. ASSUME NEW t \in Tokens, ReuseRead(p, t) PROVE OwnerInv'
  BY <1>3, <1>6 DEF ReuseRead, IsRevoked, Exists
<1>7. ASSUME NEW t \in Tokens, LogoutRead(p, t) PROVE OwnerInv'
  BY <1>3, <1>7 DEF LogoutRead
<1>8. QED
  BY <1>1, <1>2, <1>4, <1>5, <1>6, <1>7 DEF Arrive

LEMMA StatementsKeepOwnerInv ==
  ASSUME Inv1, OwnerInv, NEW p \in Txns,
         \/ RefreshCheckUser(p) \/ RevokeStart(p) \/ RefreshFlush(p)
         \/ Advance(p, Idle) \/ \E t \in Tokens : LockRow(p, t)
  PROVE  OwnerInv'
<1>0. /\ req[p] \in Request /\ Shape(req[p])
      /\ req[p].user \in Users \ crossedUser => Faithful(req[p])
  BY DEF Inv1, TypeOK, RequestShape, OwnerInv
<1>1. ASSUME Advance(p, Idle) PROVE OwnerInv'
  BY <1>1, IdleIsRequest, IdleHasNoAccount, AdvanceKeepsOwnerInv
<1>2. ASSUME NEW r \in Request, Advance(p, r), r.op = req[p].op, r.user = req[p].user,
             r.epoch = req[p].epoch, r.pwd = req[p].pwd, r.rehash = req[p].rehash,
             r.user \in Users \ crossedUser /\ r.op = "reset" /\ r.pc = "locking"
                => LiveOf(r.user) \subseteq r.todo \cup r.held
      PROVE  OwnerInv'
  <2>1. r.user \in Users \ crossedUser => Faithful(r)
    BY <1>0, <1>2 DEF Faithful
  <2>2. QED
    BY <1>2, <2>1, AdvanceKeepsOwnerInv
<1>3. CASE RefreshCheckUser(p)
  <2> DEFINE r == [req[p] EXCEPT !.pc = "loaded"]
  <2>1. /\ r \in Request /\ r.op = req[p].op /\ r.user = req[p].user /\ r.epoch = req[p].epoch
        /\ r.pwd = req[p].pwd /\ r.rehash = req[p].rehash /\ r.pc = "loaded"
    BY <1>0 DEF Request, Steps
  <2>2. Advance(p, r) \/ Advance(p, Idle)
    BY <1>3 DEF RefreshCheckUser
  <2>3. QED
    BY <1>1, <1>2, <2>1, <2>2
<1>4. CASE RevokeStart(p)
  <2> DEFINE r == [req[p] EXCEPT !.pc = "locking", !.todo = {t \in Tokens : Matches(p, t)}]
  <2>1. /\ r \in Request /\ r.op = req[p].op /\ r.user = req[p].user /\ r.epoch = req[p].epoch
        /\ r.pwd = req[p].pwd /\ r.rehash = req[p].rehash
        /\ r.todo = {t \in Tokens : Matches(p, t)}
    BY <1>0 DEF Request, Steps
  <2>2. Advance(p, r)
    BY <1>4 DEF RevokeStart
  <2>3. r.op = "reset" => LiveOf(r.user) \subseteq r.todo
    BY <2>1 DEF LiveOf, Matches
  <2>4. QED
    BY <1>2, <2>1, <2>2, <2>3
<1>5. ASSUME NEW t \in Tokens, LockRow(p, t) PROVE OwnerInv'
  <2> DEFINE hit == IF req[p].op = "purge" THEN Exists(t) ELSE Matches(p, t)
             r == [req[p] EXCEPT !.todo = @ \ {t}, !.held = IF hit THEN @ \cup {t} ELSE @]
  <2>1. /\ r \in Request /\ r.op = req[p].op /\ r.user = req[p].user /\ r.epoch = req[p].epoch
        /\ r.pwd = req[p].pwd /\ r.rehash = req[p].rehash /\ r.pc = req[p].pc
        /\ r.todo = req[p].todo \ {t} /\ req[p].held \subseteq r.held /\ (hit => t \in r.held)
    BY <1>0 DEF Request
  <2>2. Advance(p, r)
    BY <1>5 DEF LockRow
  <2>3. ASSUME r.user \in Users \ crossedUser, r.op = "reset", r.pc = "locking"
        PROVE  LiveOf(r.user) \subseteq r.todo \cup r.held
    <3>1. LiveOf(r.user) \subseteq req[p].todo \cup req[p].held
      BY <1>0, <2>1, <2>3 DEF Faithful
    <3>2. t \in LiveOf(r.user) => hit
      BY <2>1, <2>3 DEF LiveOf, Matches
    <3>3. QED
      BY <2>1, <3>1, <3>2
  <2>4. QED
    BY <1>2, <2>1, <2>2, <2>3
<1>6. CASE RefreshFlush(p)
  <2> DEFINE r == [req[p] EXCEPT !.pc = "flushed", !.held = {req[p].tok}]
  <2>1. req[p].tok \in Tokens /\ req[p].op = "refresh"
    BY <1>0, <1>6 DEF RefreshFlush, Shape
  <2>2. /\ r \in Request /\ r.op = req[p].op /\ r.user = req[p].user /\ r.epoch = req[p].epoch
        /\ r.pwd = req[p].pwd /\ r.rehash = req[p].rehash
    BY <1>0, <2>1 DEF Request, Steps
  <2>3. Advance(p, r) \/ Advance(p, Idle)
    BY <1>6 DEF RefreshFlush
  <2>4. QED
    BY <1>1, <1>2, <2>1, <2>2, <2>3
<1>7. QED
  BY <1>1, <1>3, <1>4, <1>5, <1>6

LEMMA CommitsKeepOwnerInv ==
  ASSUME Inv1, OwnerInv, NEW p \in Txns, Commit(p)
  PROVE  OwnerInv'
<1> DEFINE u == req[p].user
<1>0. /\ req[p] \in Request /\ Shape(req[p]) /\ users \in [Users -> Account]
      /\ u \in Users \ crossedUser =>
            /\ Faithful(req[p])
            /\ users[u].pwd = users[u].resets
            /\ \A t \in LiveOf(u) : rows[t].epoch = users[u].resets
  BY DEF Inv1, TypeOK, RequestShape, OwnerInv, ResetReachesEverySession
<1>1. ASSUME \A t \in Tokens : Carried(t), u \in Users \ crossedUser,
             NEW t \in Tokens, rows'[t].status = "live", rows'[t].user = u
      PROVE  t \in LiveOf(u) /\ rows'[t].epoch = users[u].resets
  <2>1. t \in LiveOf(u) /\ rows'[t].epoch = rows[t].epoch
    BY <1>1 DEF Carried, Stored, LiveOf, IsLive
  <2>2. QED
    BY <1>0, <1>1, <2>1
<1>2. CASE LoginCommit(p) \/ RefreshCommit(p)
  <2>1. /\ rows'[req[p].new].user = u /\ rows'[req[p].new].epoch = req[p].epoch
        /\ \A t \in Tokens \ {req[p].new} : Carried(t)
    <3>1. rows'[req[p].new] = NewRow(p) /\ \A t \in Tokens \ {req[p].new} : Stays(t)
      BY <1>2, InsertingStays
    <3>2. NewRow(p).user = u /\ NewRow(p).epoch = req[p].epoch
      BY DEF NewRow
    <3>3. QED
      BY <3>1, <3>2 DEF Stays
  <2>2. /\ Close(p) /\ req[p].op \in {"login", "refresh"}
        /\ \A v \in Users \ {u} : users'[v] = users[v]
    BY <1>0, <1>2 DEF LoginCommit, RefreshCommit
  <2>3. ASSUME u \in Users \ crossedUser
        PROVE  users'[u].pwd = users[u].pwd /\ users'[u].resets = users[u].resets
    <3>1. CASE LoginCommit(p) /\ req[p].rehash
      <4>1. users' = [users EXCEPT ![u].pwd = req[p].pwd, ![u].legacy = FALSE]
        BY <3>1 DEF LoginCommit
      <4>2. req[p].pwd = users[u].pwd
        BY <1>0, <2>3, <3>1 DEF Faithful, LoginCommit
      <4>3. QED
        BY <1>0, <2>3, <4>1, <4>2 DEF Account
    <3>2. CASE ~(LoginCommit(p) /\ req[p].rehash)
      BY <1>2, <3>2 DEF LoginCommit, RefreshCommit
    <3>3. QED
      BY <3>1, <3>2
  <2>4. ASSUME u \in Users \ crossedUser,
               NEW t \in Tokens, rows'[t].status = "live", rows'[t].user = u
        PROVE  rows'[t].epoch = users'[u].resets
    <3>1. CASE t = req[p].new
      BY <1>0, <2>1, <2>2, <2>3, <2>4, <3>1 DEF Faithful
    <3>2. CASE t # req[p].new
      <4>1. t \in LiveOf(u) /\ rows'[t].epoch = rows[t].epoch
        BY <2>1, <2>4, <3>2 DEF Carried, Stored, LiveOf, IsLive
      <4>2. QED
        BY <1>0, <2>3, <2>4, <4>1
    <3>3. QED
      BY <3>1, <3>2
  <2>5. QED
    BY <1>0, <2>1, <2>2, <2>3, <2>4, CloseKeepsOwnerInv
<1>3. CASE EndFamily(p)
  <2>1. (\A t \in Tokens : Carried(t)) /\ Close(p) /\ users' = users
    BY <1>3, RevokedStays DEF EndFamily, Stays
  <2>2. QED
    BY <1>0, <1>1, <2>1, CloseKeepsOwnerInv
<1>4. CASE ResetCommit(p)
  <2> DEFINE n == users[u].resets + 1
  <2>1. /\ \A t \in Tokens : Carried(t)
        /\ Close(p)
        /\ users' = [users EXCEPT ![u] = [users[u] EXCEPT !.resets = n, !.pwd = n, !.legacy = FALSE]]
    BY <1>4, RevokedStays DEF ResetCommit, Stays
  <2>2. req[p].op = "reset" /\ req[p].pc = "locking" /\ req[p].todo = {} /\ u \in Users
    BY <1>0, <1>4 DEF ResetCommit, Shape
  <2>3. users'[u].pwd = users'[u].resets /\ \A v \in Users \ {u} : users'[v] = users[v]
    BY <1>0, <2>1, <2>2 DEF Account
  <2>4. ASSUME u \in Users \ crossedUser,
               NEW t \in Tokens, rows'[t].status = "live", rows'[t].user = u
        PROVE  FALSE
    <3>1. t \in LiveOf(u)
      BY <1>1, <2>1, <2>4
    <3>2. t \in req[p].held
      BY <1>0, <2>2, <2>4, <3>1 DEF Faithful
    <3>3. rows'[t].status = "revoked"
      BY <1>4, <3>2, RevokingIsQuiet DEF ResetCommit
    <3>4. QED
      BY <2>4, <3>3
  <2>5. QED
    BY <2>1, <2>3, <2>4, CloseKeepsOwnerInv
<1>5. CASE PurgeCommit(p)
  <2>1. (\A t \in Tokens : Carried(t)) /\ Close(p) /\ users' = users
    BY <1>5, PurgingCarries DEF PurgeCommit
  <2>2. QED
    BY <1>0, <1>1, <2>1, CloseKeepsOwnerInv
<1>6. QED
  BY <1>2, <1>3, <1>4, <1>5 DEF Commit

LEMMA OutsideKeepsOwnerInv ==
  ASSUME Inv1, OwnerInv,
         (\E t \in Tokens : Expire(t)) \/ (\E u \in Users : SetActive(u)) \/ UNCHANGED vars
  PROVE  OwnerInv'
<1>1. req' = req /\ crossedUser' = crossedUser
  BY DEF Expire, SetActive, vars
<1>2. \A u \in Users : users'[u].pwd = users[u].pwd /\ users'[u].resets = users[u].resets
  <2>1. ASSUME NEW v \in Users, SetActive(v)
        PROVE  \A u \in Users : users'[u].pwd = users[u].pwd /\ users'[u].resets = users[u].resets
    BY <2>1 DEF SetActive, Inv1, TypeOK, Account
  <2>2. QED
    BY <2>1 DEF Expire, vars
<1>3. \A t \in Tokens : Carried(t)
  BY ExpiringStays, UnchangedStays DEF Stays, SetActive, vars
<1>4. \A u \in Users : LiveOf(u)' \subseteq LiveOf(u) /\ \A t \in LiveOf(u)' : rows'[t].epoch = rows[t].epoch
  BY <1>3 DEF LiveOf, IsLive, Carried, Stored
<1>5. ResetReachesEverySession'
  BY <1>1, <1>2, <1>4 DEF OwnerInv, ResetReachesEverySession
<1>6. AloneOnAccount'
  BY <1>1 DEF OwnerInv, AloneOnAccount
<1>7. ASSUME NEW q \in Txns, req'[q].user \in Users \ crossedUser'
      PROVE  Faithful(req[q])'
  <2>1. Faithful(req[q]) /\ req[q].user \in Users
    BY <1>1, <1>7 DEF OwnerInv
  <2>2. LiveOf(req[q].user)' \subseteq LiveOf(req[q].user)
    BY <1>1, <1>4, <2>1 DEF LiveOf, IsLive
  <2>3. QED
    BY <1>1, <1>2, <2>1, <2>2 DEF Faithful
<1>8. QED
  BY <1>5, <1>6, <1>7 DEF OwnerInv

\* A reset that no other request of the account overlapped reaches every session begun
\* before it, and its password stays in force: no rehash of a login undoes it
\* (reset_password, auth.py:305 and :346).
THEOREM ResetIsThorough == Spec => []ResetReachesEverySession
<1>1. ASSUME Inv1, OwnerInv, [Next]_vars PROVE OwnerInv'
  BY <1>1, ArriveKeepsOwnerInv, StatementsKeepOwnerInv, CommitsKeepOwnerInv, OutsideKeepsOwnerInv
  DEF Next, Work, Rollback, DeadlockAbort
<1>2. OwnerInv => ResetReachesEverySession
  BY DEF OwnerInv
<1>3. QED
  BY <1>1, <1>2, InitOwnerInv, InitInv1, NextKeepsInv1, PTL DEF Spec

-----------------------------------------------------------------------------
(* The rotation chain.                                                     *)

\* What a link says, of the two rows it joins and of every other link.
LinksLead ==
    \A t \in Tokens : rows[t].next # NoToken =>
        /\ IsRevoked(t) /\ Exists(rows[t].next)
        /\ rows[rows[t].next].fam = rows[t].fam /\ rows[rows[t].next].user = rows[t].user
        /\ \A r \in Tokens \ {t} : rows[r].next # rows[t].next

AllReached ==
    \A s \in Tokens : Exists(s) /\ s # rows[s].fam /\ rows[s].fam \notin crossedFam =>
        rows[rows[s].fam].status = "purged" \/ \E t \in Tokens : rows[t].next = s

\* The start of a chain expires, and goes, before the rest of it.
StartExpiresFirst ==
    \A t \in Tokens : Exists(t) /\ rows[t].expired /\ rows[t].fam \notin crossedFam =>
        rows[rows[t].fam].status = "purged" \/ rows[rows[t].fam].expired

\* A refresh that overlapped nothing adds to the end of its chain.
Extends(r) ==
    r.op = "refresh" =>
        /\ rows[r.tok].status # "unissued"
        /\ Exists(r.tok) => /\ rows[r.tok].fam = r.fam /\ rows[r.tok].user = r.user
                            /\ r.fam \notin crossedFam => rows[r.tok].next = NoToken

\* A purge takes the start of a chain with the rest, unless it is gone already.
TakesTheStart(r) ==
    r.op = "purge" =>
        \A t \in r.todo \cup r.held : Exists(t) /\ rows[t].fam \notin crossedFam =>
            rows[rows[t].fam].status = "purged" \/ rows[t].fam \in r.todo \cup r.held

ChainInv ==
    /\ LinksLead /\ AllReached /\ StartExpiresFirst
    /\ \A p \in Txns : Extends(req[p]) /\ TakesTheStart(req[p])

LEMMA ChainIsLinked == ASSUME TypeOK PROVE ChainIsARecord <=> LinksLead /\ AllReached
  BY DEF ChainIsARecord, LinksLead, AllReached

LEMMA InitChainInv == Init => ChainInv
<1> SUFFICES ASSUME Init PROVE ChainInv
  OBVIOUS
<1>1. \A t \in Tokens : rows[t].status = "unissued" /\ rows[t].next = NoToken
  BY DEF Init, NoRow
<1>2. \A p \in Txns : req[p].op = "none"
  BY DEF Init, Idle
<1>3. QED
  BY <1>1, <1>2 DEF ChainInv, LinksLead, AllReached, StartExpiresFirst, Extends, TakesTheStart, Exists

\* What the invariants so far say of the rows a chain is made of.
LEMMA RowFacts ==
  ASSUME Inv1, Inv2
  PROVE  \A t \in Tokens :
            /\ rows[t] \in Row
            /\ Stored(rows[t]) => /\ rows[t].fam \in Tokens /\ rows[t].user \in Users
                                  /\ rows[rows[t].fam].status \in {"purged", "live", "revoked"}
            /\ rows[t].next # NoToken => Stored(rows[t])
            /\ Exists(t) <=> Stored(rows[t])
<1>1. \A t \in Tokens : rows[t] \in Row /\ Sound(rows[t])
  BY SoundRows DEF Inv1, TypeOK
<1>2. \A s : NoRow(s).next = NoToken
  BY DEF NoRow
<1>3. ASSUME NEW t \in Tokens, Stored(rows[t])
      PROVE  rows[t].fam \in Tokens /\ rows[rows[t].fam].status \in {"purged", "live", "revoked"}
  BY <1>1, <1>3 DEF Sound, Inv2, Rooted, Row, Status
<1>4. QED
  BY <1>1, <1>2, <1>3 DEF Sound, Stored, Exists

LEMMA IdleAddsNothing == Extends(Idle) /\ TakesTheStart(Idle)
  BY DEF Extends, TakesTheStart, Idle

\* A step that only reads.
LEMMA ReadingKeepsChainInv ==
  ASSUME Inv1, ChainInv, NEW p \in Txns, NEW r, req' = [req EXCEPT ![p] = r], rows' = rows,
         crossedFam \subseteq crossedFam', Extends(r), TakesTheStart(r)
  PROVE  ChainInv'
<1>1. \A t : Exists(t)' <=> Exists(t)
  BY DEF Exists
<1>2. LinksLead'
  BY <1>1 DEF ChainInv, LinksLead, IsRevoked
<1>3. AllReached' /\ StartExpiresFirst'
  BY <1>1 DEF ChainInv, AllReached, StartExpiresFirst
<1>4. ASSUME NEW q \in Txns PROVE Extends(req[q])' /\ TakesTheStart(req[q])'
  <2>1. Extends(req'[q]) /\ TakesTheStart(req'[q])
    BY DEF ChainInv, Inv1, TypeOK
  <2>2. QED
    BY <1>1, <2>1 DEF Extends, TakesTheStart
<1>5. QED
  BY <1>2, <1>3, <1>4 DEF ChainInv

LEMMA OpeningKeepsChainInv ==
  ASSUME Inv1, Inv2, ChainInv, NEW p \in Txns, NEW r \in Request, Opening(p, r)
  PROVE  ChainInv'
<1>1. Extends(r)
  <2> SUFFICES ASSUME r.op = "refresh" PROVE Extends(r)
    BY DEF Extends
  <2>1. /\ r.tok \in Tokens /\ rows[r.tok].status = "live"
        /\ rows[r.tok].fam = r.fam /\ rows[r.tok].user = r.user
    BY DEF Opening, Shape, IsLive
  <2>2. rows[r.tok].next = NoToken
    BY <2>1 DEF ChainInv, LinksLead, IsRevoked
  <2>3. QED
    BY <2>1, <2>2 DEF Extends
<1>2. TakesTheStart(r)
  <2> SUFFICES ASSUME r.op = "purge", NEW t \in Tokens, Exists(t), rows[t].expired,
                      rows[t].fam \notin crossedFam, rows[rows[t].fam].status # "purged"
               PROVE  rows[t].fam \in r.todo
    BY DEF Opening, TakesTheStart
  <2>1. rows[t].fam \in Tokens /\ Exists(rows[t].fam) /\ rows[rows[t].fam].expired
    BY RowFacts DEF ChainInv, StartExpiresFirst, Exists, Stored
  <2>2. QED
    BY <2>1 DEF Opening
<1>3. QED
  BY <1>1, <1>2, ReadingKeepsChainInv DEF Opening, Begin

\* What an open request knows survives the commits of the others.
LEMMA PurgedStaysPurged ==
  ASSUME Inv1', NEW f \in Tokens, Carried(f), rows[f].status = "purged"
  PROVE  rows'[f].status = "purged"
<1>1. rows'[f].status \in Status
  BY DEF Inv1, TypeOK, Row
<1>2. QED
  BY <1>1 DEF Carried, Stored, Status

\* The row an open refresh would add to gets no link from the step.
EndStays(q) ==
    req[q].op = "refresh" /\ req[q].fam \notin crossedFam /\ Exists(req[q].tok)
        => (rows[req[q].tok].next = NoToken => rows'[req[q].tok].next = NoToken)

LEMMA CloseKeepsRequests ==
  ASSUME Inv1, Inv1', Inv2, PurgeInv, ChainInv, NEW p \in Txns, Close(p),
         \A t \in Tokens : rows[t].status # "unissued" => Carried(t),
         \A q \in Txns \ {p} : EndStays(q)
  PROVE  \A q \in Txns : Extends(req[q])' /\ TakesTheStart(req[q])'
<1>0. req'[p] = Idle /\ crossedFam' = crossedFam /\ \A q \in Txns \ {p} : req'[q] = req[q]
  BY DEF Close, Inv1, TypeOK
<1>1. Extends(req[p])' /\ TakesTheStart(req[p])'
  BY <1>0 DEF Extends, TakesTheStart, Idle
<1>2. ASSUME NEW q \in Txns \ {p} PROVE Extends(req[q])'
  <2> SUFFICES ASSUME req[q].op = "refresh" PROVE Extends(req[q])'
    BY <1>0 DEF Extends
  <2>1. req[q].tok \in Tokens /\ Extends(req[q]) /\ rows[req[q].tok].status # "unissued"
    BY DEF Inv1, RequestShape, Shape, ChainInv, Extends
  <2>2. Carried(req[q].tok)
    BY <2>1
  <2>3. rows'[req[q].tok].status # "unissued"
    BY <2>1, <2>2 DEF Carried
  <2>4. ASSUME Stored(rows'[req[q].tok])
        PROVE  /\ rows'[req[q].tok].fam = req[q].fam /\ rows'[req[q].tok].user = req[q].user
               /\ req[q].fam \notin crossedFam => rows'[req[q].tok].next = NoToken
    <3>1. /\ Exists(req[q].tok) /\ rows'[req[q].tok].fam = rows[req[q].tok].fam
          /\ rows'[req[q].tok].user = rows[req[q].tok].user
      BY <2>2, <2>4 DEF Carried, Stored, Exists
    <3>2. QED
      BY <2>1, <3>1 DEF Extends, EndStays
  <2>5. QED
    BY <1>0, <2>3, <2>4 DEF Extends, Exists, Stored
<1>3. ASSUME NEW q \in Txns \ {p} PROVE TakesTheStart(req[q])'
  <2> SUFFICES ASSUME req[q].op = "purge", NEW t \in req[q].todo \cup req[q].held,
                      Stored(rows'[t]), rows'[t].fam \notin crossedFam,
                      rows'[t].fam \notin req[q].todo \cup req[q].held
               PROVE  rows'[rows'[t].fam].status = "purged"
    BY <1>0 DEF TakesTheStart, Exists, Stored
  <2>1. t \in Tokens /\ rows[t].status # "unissued"
    BY DEF PurgeInv, OnlyExpired, Inv1, TypeOK, Request
  <2>2. Stored(rows[t]) /\ rows'[t].fam = rows[t].fam
    BY <2>1 DEF Carried
  <2>3. rows[t].fam \in Tokens /\ rows[rows[t].fam].status = "purged"
    BY <2>1, <2>2, RowFacts DEF ChainInv, TakesTheStart
  <2>4. QED
    BY <2>2, <2>3, PurgedStaysPurged
<1>4. QED
  BY <1>1, <1>2, <1>3

\* A token expires after the one that links to it.
LEMMA ExpiringKeepsChainInv ==
  ASSUME Inv1, Inv2, ChainInv, NEW e \in Tokens, Expire(e)
  PROVE  ChainInv'
<1>0. /\ UNCHANGED <<req, crossedFam>> /\ Stored(rows[e])
      /\ rows' = [rows EXCEPT ![e].expired = TRUE] /\ rows \in [Tokens -> Row]
      /\ \A s \in Tokens : rows[s].next = e => rows[s].expired
  BY DEF Expire, Inv1, TypeOK, Exists, Stored
<1>1. /\ \A t \in Tokens : /\ rows'[t].status = rows[t].status /\ rows'[t].fam = rows[t].fam
                           /\ rows'[t].user = rows[t].user /\ rows'[t].next = rows[t].next
                           /\ t # e => rows'[t].expired = rows[t].expired
      /\ rows'[e].expired
  BY <1>0 DEF Row
<1>2. \A t \in Tokens : (Exists(t)' <=> Exists(t)) /\ (IsRevoked(t)' <=> IsRevoked(t))
  BY <1>1 DEF Exists, IsRevoked
<1>3. \A t \in Tokens : rows[t].next # NoToken => rows[t].next \in Tokens
  BY <1>0 DEF Row
<1>4. LinksLead'
  BY <1>1, <1>2, <1>3 DEF ChainInv, LinksLead
<1>5. AllReached'
  BY <1>0, <1>1, <1>2, RowFacts DEF ChainInv, AllReached
<1>6. ASSUME NEW t \in Tokens, Exists(t), rows'[t].expired, rows[t].fam \notin crossedFam
      PROVE  rows[rows[t].fam].status = "purged" \/ rows'[rows[t].fam].expired
  <2>0. rows[t].fam \in Tokens
    BY <1>6, RowFacts
  <2>1. CASE rows[t].expired
    BY <1>1, <1>6, <2>0, <2>1 DEF ChainInv, StartExpiresFirst
  <2>2. CASE ~rows[t].expired /\ t # rows[t].fam
    <3>1. t = e
      BY <1>1, <1>6, <2>2
    <3>2. rows[rows[t].fam].status = "purged" \/ \E r \in Tokens : rows[r].next = t
      BY <1>6, <2>2 DEF ChainInv, AllReached
    <3>3. ASSUME NEW r \in Tokens, rows[r].next = t
          PROVE  rows[rows[t].fam].status = "purged" \/ rows[rows[t].fam].expired
      <4>1. rows[r].expired /\ Exists(r) /\ rows[r].fam = rows[t].fam
        BY <1>0, <3>1, <3>3, NoTokenFresh DEF ChainInv, LinksLead, IsRevoked, Exists
      <4>2. QED
        BY <1>6, <4>1 DEF ChainInv, StartExpiresFirst
    <3>4. QED
      BY <1>1, <2>0, <3>2, <3>3
  <2>3. CASE t = rows[t].fam
    BY <1>6, <2>3
  <2>4. QED
    BY <2>1, <2>2, <2>3
<1>7. StartExpiresFirst'
  BY <1>0, <1>1, <1>2, <1>6, RowFacts DEF StartExpiresFirst
<1>8. ASSUME NEW q \in Txns PROVE Extends(req[q])' /\ TakesTheStart(req[q])'
  <2>1. /\ req[q].op = "refresh" => req[q].tok \in Tokens
        /\ req[q].todo \cup req[q].held \subseteq Tokens
    BY DEF Inv1, TypeOK, RequestShape, Shape, Request
  <2>2. Extends(req[q])'
    BY <1>0, <1>1, <1>2, <2>1 DEF ChainInv, Extends
  <2>3. TakesTheStart(req[q])'
    <3> SUFFICES ASSUME req[q].op = "purge", NEW t \in req[q].todo \cup req[q].held, Exists(t),
                        rows[t].fam \notin crossedFam
                 PROVE  rows'[rows[t].fam].status = "purged" \/ rows[t].fam \in req[q].todo \cup req[q].held
      BY <1>0, <1>1, <1>2, <2>1 DEF TakesTheStart
    <3>1. rows[t].fam \in Tokens
      BY <2>1, RowFacts
    <3>2. QED
      BY <1>1, <3>1 DEF ChainInv, TakesTheStart
  <2>4. QED
    BY <2>2, <2>3
<1>9. QED
  BY <1>4, <1>5, <1>7, <1>8 DEF ChainInv

LEMMA RevokingKeepsChainInv ==
  ASSUME Inv1, Inv1', Inv2, PurgeInv, ChainInv, NEW p \in Txns, Close(p),
         rows' = RevokeRows(req[p].held)
  PROVE  ChainInv'
<1>0. rows \in [Tokens -> Row] /\ crossedFam' = crossedFam
      /\ \A t \in req[p].held : t \in Tokens /\ Stored(rows[t])
  BY DEF Close, Inv1, TypeOK, Locks, Exists, Stored, Request
<1>1. \A t \in Tokens : /\ rows'[t].fam = rows[t].fam /\ rows'[t].user = rows[t].user
                        /\ rows'[t].next = rows[t].next /\ rows'[t].expired = rows[t].expired
                        /\ rows'[t].status = IF t \in req[p].held THEN "revoked" ELSE rows[t].status
  BY <1>0 DEF RevokeRows, Row
<1>2. \A t \in Tokens : /\ Exists(t)' <=> Exists(t)
                        /\ IsRevoked(t) => IsRevoked(t)'
                        /\ (rows'[t].status = "purged") <=> (rows[t].status = "purged")
  BY <1>0, <1>1 DEF Exists, IsRevoked, Stored
<1>3. \A t \in Tokens : rows[t].next # NoToken => rows[t].next \in Tokens
  BY <1>0 DEF Row
<1>4. LinksLead'
  BY <1>1, <1>2, <1>3 DEF ChainInv, LinksLead
<1>5. AllReached'
  BY <1>0, <1>1, <1>2, RowFacts DEF ChainInv, AllReached
<1>6. StartExpiresFirst'
  BY <1>0, <1>1, <1>2, RowFacts DEF ChainInv, StartExpiresFirst
<1>7. \A q \in Txns : Extends(req[q])' /\ TakesTheStart(req[q])'
  <2>1. \A t \in Tokens : Carried(t)
    BY RevokedStays DEF Stays
  <2>2. \A q \in Txns : req[q].op = "refresh" => req[q].tok \in Tokens
    BY DEF Inv1, RequestShape, Shape
  <2>3. \A q \in Txns : EndStays(q)
    BY <1>1, <2>2 DEF EndStays
  <2>4. QED
    BY <2>1, <2>3, CloseKeepsRequests
<1>8. QED
  BY <1>4, <1>5, <1>6, <1>7 DEF ChainInv

LEMMA PurgingKeepsChainInv ==
  ASSUME Inv1, Inv1', Inv2, PurgeInv, ChainInv, NEW p \in Txns, PurgeCommit(p)
  PROVE  ChainInv'
<1> DEFINE gone == req[p].held
<1>0. /\ rows \in [Tokens -> Row] /\ crossedFam' = crossedFam /\ Close(p)
      /\ \A t \in Tokens :
            rows'[t] = IF t \in gone THEN NoRow("purged")
                       ELSE IF rows[t].next \in gone THEN [rows[t] EXCEPT !.next = NoToken]
                       ELSE rows[t]
      /\ \A t \in gone : t \in Tokens /\ Exists(t)
      /\ req[p].op = "purge" /\ req[p].todo = {}
  BY DEF PurgeCommit, Close, Inv1, TypeOK, Locks, Request
<1>1. ASSUME NEW t \in Tokens
      PROVE  IF t \in gone
             THEN rows'[t].status = "purged" /\ rows'[t].next = NoToken
             ELSE /\ rows'[t].fam = rows[t].fam /\ rows'[t].user = rows[t].user
                  /\ rows'[t].expired = rows[t].expired /\ rows'[t].status = rows[t].status
                  /\ rows'[t].next = IF rows[t].next \in gone THEN NoToken ELSE rows[t].next
  <2>1. CASE t \in gone
    <3>1. rows'[t] = NoRow("purged")
      BY <1>0, <2>1
    <3>2. QED
      BY <2>1, <3>1 DEF NoRow
  <2>2. CASE t \notin gone /\ rows[t].next \in gone
    <3>1. rows'[t] = [rows[t] EXCEPT !.next = NoToken] /\ rows[t] \in Row
      BY <1>0, <2>2
    <3>2. QED
      BY <2>2, <3>1 DEF Row
  <2>3. CASE t \notin gone /\ rows[t].next \notin gone
    BY <1>0, <2>3
  <2>4. QED
    BY <2>1, <2>2, <2>3
<1> HIDE DEF gone
<1>2. \A t \in Tokens : /\ Exists(t)' <=> Exists(t) /\ t \notin gone
                        /\ IsRevoked(t) /\ t \notin gone => IsRevoked(t)'
  BY <1>1 DEF Exists, IsRevoked
<1>3. \A t \in Tokens : rows[t].next # NoToken => rows[t].next \in Tokens
  BY <1>0 DEF Row
<1>4. LinksLead'
  <2> SUFFICES ASSUME NEW t \in Tokens, rows'[t].next # NoToken
               PROVE  /\ IsRevoked(t)' /\ Exists(rows[t].next)' /\ rows'[t].next = rows[t].next
                      /\ rows'[rows[t].next].fam = rows'[t].fam
                      /\ rows'[rows[t].next].user = rows'[t].user
                      /\ \A r \in Tokens \ {t} : rows'[r].next # rows[t].next
    BY DEF LinksLead, Exists
  <2>1. t \notin gone /\ rows'[t].next = rows[t].next /\ rows[t].next \in Tokens \ gone
    BY <1>1, <1>3
  <2>2. /\ IsRevoked(t) /\ Exists(rows[t].next)
        /\ rows[rows[t].next].fam = rows[t].fam /\ rows[rows[t].next].user = rows[t].user
        /\ \A r \in Tokens \ {t} : rows[r].next # rows[t].next
    BY <2>1 DEF ChainInv, LinksLead
  <2>3. \A r \in Tokens \ {t} : rows'[r].next # rows[t].next
    BY <1>1, <2>1, <2>2
  <2>4. QED
    BY <1>1, <1>2, <2>1, <2>2, <2>3
\* Whatever is gone took the start of its chain along.
<1>5. ASSUME NEW t \in gone, rows[t].fam \notin crossedFam
      PROVE  rows[t].fam \in Tokens /\ rows'[rows[t].fam].status = "purged"
  <2>1. rows[t].fam \in Tokens
    BY <1>0, RowFacts
  <2>2. rows[rows[t].fam].status = "purged" \/ rows[t].fam \in gone
    BY <1>0, <1>5 DEF ChainInv, TakesTheStart, gone
  <2>3. QED
    BY <1>1, <2>1, <2>2
<1>6. AllReached'
  <2> SUFFICES ASSUME NEW s \in Tokens, Exists(s), s \notin gone, s # rows[s].fam,
                      rows[s].fam \notin crossedFam
               PROVE  rows'[rows[s].fam].status = "purged" \/ \E t \in Tokens : rows'[t].next = s
    BY <1>0, <1>1, <1>2 DEF AllReached
  <2>1. CASE rows[rows[s].fam].status = "purged"
    BY <1>1, <2>1, RowFacts
  <2>2. CASE \E t \in Tokens : rows[t].next = s
    <3>1. PICK t \in Tokens : rows[t].next = s
      BY <2>2
    <3>2. CASE t \in gone
      <4>1. rows[t].fam = rows[s].fam
        BY <3>1, NoTokenFresh DEF ChainInv, LinksLead
      <4>2. QED
        BY <1>5, <3>2, <4>1
    <3>3. CASE t \notin gone
      BY <1>1, <3>1, <3>3
    <3>4. QED
      BY <3>2, <3>3
  <2>3. QED
    BY <2>1, <2>2 DEF ChainInv, AllReached
<1>7. StartExpiresFirst'
  <2> SUFFICES ASSUME NEW t \in Tokens, Exists(t), t \notin gone, rows[t].expired,
                      rows[t].fam \notin crossedFam
               PROVE  rows'[rows[t].fam].status = "purged" \/ rows'[rows[t].fam].expired
    BY <1>0, <1>1, <1>2 DEF StartExpiresFirst
  <2>1. rows[t].fam \in Tokens
    BY RowFacts
  <2>2. QED
    BY <1>1, <2>1 DEF ChainInv, StartExpiresFirst
<1>8. \A q \in Txns : Extends(req[q])' /\ TakesTheStart(req[q])'
  <2>1. \A t \in Tokens : Carried(t) /\ (rows[t].next = NoToken => rows'[t].next = NoToken)
    BY <1>1, PurgingCarries
  <2>2. \A q \in Txns : req[q].op = "refresh" => req[q].tok \in Tokens
    BY DEF Inv1, RequestShape, Shape
  <2>3. \A q \in Txns : EndStays(q)
    BY <2>1, <2>2 DEF EndStays
  <2>4. QED
    BY <1>0, <2>1, <2>3, CloseKeepsRequests
<1>9. QED
  BY <1>4, <1>6, <1>7, <1>8 DEF ChainInv

\* A login starts a family, a refresh hangs its token at the end of one.
LEMMA InsertingKeepsChainInv ==
  ASSUME Inv1, Inv1', Inv2, PurgeInv, ChainInv, NEW p \in Txns, LoginCommit(p) \/ RefreshCommit(p)
  PROVE  ChainInv'
<1> DEFINE new == req[p].new
           tok == req[p].tok
           fam == req[p].fam
           rotated == RefreshCommit(p)
<1>0. /\ rows \in [Tokens -> Row] /\ Shape(req[p]) /\ Close(p) /\ crossedFam' = crossedFam
      /\ new \in Tokens /\ rows[new].status = "unissued" /\ rows'[new] = NewRow(p)
      /\ fam \in Tokens /\ req[p].user \in Users
      /\ ~rotated => req[p].op = "login" /\ fam = new
      /\ rotated => req[p].op = "refresh" /\ tok \in Tokens /\ tok \in req[p].held
  <2>1. rotated => req[p].pc = "flushed" /\ req[p].op = "refresh"
    BY DEF RefreshCommit
  <2>2. ~rotated => req[p].op = "login" /\ Close(p)
    BY DEF LoginCommit
  <2>3. Shape(req[p]) /\ rows \in [Tokens -> Row]
    BY DEF Inv1, TypeOK, RequestShape
  <2>4. Close(p) /\ crossedFam' = crossedFam
    BY DEF LoginCommit, RefreshCommit, Close
  <2>5. QED
    BY <2>1, <2>2, <2>3, <2>4, InsertingStays DEF Shape
<1>1. /\ NewRow(p).status = "live" /\ NewRow(p).fam = fam /\ NewRow(p).user = req[p].user
      /\ NewRow(p).next = NoToken /\ ~NewRow(p).expired
  BY DEF NewRow
<1>2. rotated => Exists(tok) /\ tok # new /\ rows[tok].fam = fam /\ rows[tok].user = req[p].user
                 /\ (fam \notin crossedFam => rows[tok].next = NoToken)
  BY <1>0 DEF Inv1, Locks, ChainInv, Extends, Exists
<1>3. ASSUME NEW t \in Tokens, t # new
      PROVE  /\ rows'[t].fam = rows[t].fam /\ rows'[t].user = rows[t].user
             /\ rows'[t].expired = rows[t].expired
             /\ rows'[t].status = IF rotated /\ t = tok THEN "revoked" ELSE rows[t].status
             /\ rows'[t].next = IF rotated /\ t = tok THEN new ELSE rows[t].next
  <2>1. CASE ~rotated
    <3>1. rows' = [rows EXCEPT ![new] = NewRow(p)]
      BY <2>1 DEF LoginCommit
    <3>2. QED
      BY <1>0, <1>3, <2>1, <3>1
  <2>2. CASE rotated
    <3>1. rows' = [[[rows EXCEPT ![tok].status = "revoked"] EXCEPT ![tok].next = new]
                      EXCEPT ![new] = NewRow(p)]
      BY <2>2 DEF RefreshCommit
    <3>2. CASE t # tok
      <4>1. rows'[t] = rows[t]
        BY <1>0, <1>3, <3>1, <3>2
      <4>2. QED
        BY <3>2, <4>1
    <3>3. CASE t = tok
      <4>1. rows'[t] = [[rows[t] EXCEPT !.status = "revoked"] EXCEPT !.next = new] /\ rows[t] \in Row
        BY <1>0, <1>3, <3>1, <3>3
      <4>2. QED
        BY <2>2, <3>3, <4>1 DEF Row
    <3>4. QED
      BY <3>2, <3>3
  <2>3. QED
    BY <2>1, <2>2
<1> HIDE DEF rotated, new, tok, fam
<1>4. \A t \in Tokens \ {new} : /\ Stored(rows'[t]) <=> Exists(t)
                                /\ IsRevoked(t) => rows'[t].status = "revoked"
                                /\ rows[t].status = "purged" => rows'[t].status = "purged"
  BY <1>2, <1>3 DEF Exists, IsRevoked, Stored
<1>5. \A t \in Tokens : rows[t].next # NoToken => rows[t].next \in Tokens \ {new}
  BY <1>0 DEF Row, ChainInv, LinksLead, Exists
<1>6. LinksLead'
  <2> SUFFICES ASSUME NEW t \in Tokens, rows'[t].next # NoToken
               PROVE  /\ rows'[t].status = "revoked" /\ Stored(rows'[rows'[t].next])
                      /\ rows'[rows'[t].next].fam = rows'[t].fam
                      /\ rows'[rows'[t].next].user = rows'[t].user
                      /\ \A r \in Tokens \ {t} : rows'[r].next # rows'[t].next
    BY DEF LinksLead, Exists, IsRevoked, Stored
  <2>1. t # new
    BY <1>0, <1>1
  <2>2. CASE rotated /\ t = tok
    <3>1. rows'[t].next = new /\ rows'[t].status = "revoked"
      BY <1>3, <2>1, <2>2
    <3>2. rows'[new].fam = rows'[t].fam /\ rows'[new].user = rows'[t].user /\ Stored(rows'[new])
      BY <1>0, <1>1, <1>2, <1>3, <2>1, <2>2 DEF Stored
    <3>3. \A r \in Tokens \ {t} : rows'[r].next # new
      BY <1>0, <1>1, <1>3, <1>5, <2>2, NoTokenFresh
    <3>4. QED
      BY <3>1, <3>2, <3>3
  <2>3. CASE ~(rotated /\ t = tok)
    <3>1. rows'[t].next = rows[t].next /\ rows[t].next \in Tokens \ {new}
      BY <1>3, <1>5, <2>1, <2>3
    <3>2. /\ IsRevoked(t) /\ Exists(rows[t].next)
          /\ rows[rows[t].next].fam = rows[t].fam /\ rows[rows[t].next].user = rows[t].user
          /\ \A r \in Tokens \ {t} : rows[r].next # rows[t].next
      BY <3>1, NoTokenFresh DEF ChainInv, LinksLead
    <3>3. \A r \in Tokens \ {t} : rows'[r].next # rows[t].next
      BY <1>0, <1>1, <1>3, <3>1, <3>2, NoTokenFresh
    <3>4. QED
      BY <1>3, <1>4, <2>1, <3>1, <3>2, <3>3
  <2>4. QED
    BY <2>2, <2>3
<1>7. AllReached'
  <2> SUFFICES ASSUME NEW s \in Tokens, Stored(rows'[s]), s # rows'[s].fam, rows'[s].fam \notin crossedFam
               PROVE  rows'[rows'[s].fam].status = "purged" \/ \E t \in Tokens : rows'[t].next = s
    BY <1>0 DEF AllReached, Exists, Stored
  <2>1. CASE s = new
    <3>1. rotated
      BY <1>0, <1>1, <2>1
    <3>2. rows'[tok].next = new
      BY <1>0, <1>2, <1>3, <3>1
    <3>3. QED
      BY <1>0, <2>1, <3>1, <3>2
  <2>2. CASE s # new
    <3>1. Exists(s) /\ rows'[s].fam = rows[s].fam /\ rows[s].fam \in Tokens \ {new}
      BY <1>0, <1>3, <1>4, <2>2, RowFacts
    <3>2. CASE rows[rows[s].fam].status = "purged"
      BY <1>4, <3>1, <3>2
    <3>3. ASSUME NEW t \in Tokens, rows[t].next = s PROVE rows'[t].next = s
      <4>1. rows[t].fam = rows[s].fam /\ t # new
        BY <1>0, <3>3, NoTokenFresh DEF ChainInv, LinksLead, IsRevoked
      <4>2. ~(rotated /\ t = tok)
        BY <1>2, <3>1, <3>3, <4>1, NoTokenFresh
      <4>3. QED
        BY <1>3, <3>3, <4>1, <4>2
    <3>4. QED
      BY <3>1, <3>2, <3>3 DEF ChainInv, AllReached
  <2>3. QED
    BY <2>1, <2>2
<1>8. StartExpiresFirst'
  <2> SUFFICES ASSUME NEW t \in Tokens, Stored(rows'[t]), rows'[t].expired, rows'[t].fam \notin crossedFam
               PROVE  rows'[rows'[t].fam].status = "purged" \/ rows'[rows'[t].fam].expired
    BY <1>0 DEF StartExpiresFirst, Exists, Stored
  <2>1. t # new
    BY <1>0, <1>1
  <2>2. Exists(t) /\ rows'[t].fam = rows[t].fam /\ rows[t].expired /\ rows[t].fam \in Tokens \ {new}
    BY <1>0, <1>3, <1>4, <2>1, RowFacts
  <2>3. QED
    BY <1>3, <1>4, <2>2 DEF ChainInv, StartExpiresFirst
<1>9. \A q \in Txns : Extends(req[q])' /\ TakesTheStart(req[q])'
  <2>1. \A t \in Tokens : rows[t].status # "unissued" => Carried(t)
    BY <1>0, InsertingStays DEF Stays, new
  <2>2. ASSUME NEW q \in Txns \ {p} PROVE EndStays(q)
    <3> SUFFICES ASSUME req[q].op = "refresh", req[q].fam \notin crossedFam,
                        Exists(req[q].tok), rows[req[q].tok].next = NoToken
                 PROVE  rows'[req[q].tok].next = NoToken
      BY DEF EndStays
    <3>1. req[q].tok \in Tokens /\ req[q].tok # new /\ req[q].fam \in Tokens
      BY <1>0 DEF Inv1, RequestShape, Shape, Exists
    <3>2. ~(rotated /\ req[q].tok = tok)
      <4> SUFFICES ASSUME rotated, req[q].tok = tok PROVE FALSE
        OBVIOUS
      <4>1. rows[tok].fam = req[q].fam
        BY DEF ChainInv, Extends
      <4>2. req[p].fam = req[q].fam
        BY <1>2, <4>1 DEF fam
      <4>3. QED
        BY <3>1, <4>2 DEF Inv2, Alone
    <3>3. QED
      BY <1>3, <3>1, <3>2
  <2>3. QED
    BY <1>0, <2>1, <2>2, CloseKeepsRequests
<1>10. QED
  BY <1>6, <1>7, <1>8, <1>9 DEF ChainInv

LEMMA NextKeepsChainInv ==
  ASSUME Inv1, Inv1', Inv2, PurgeInv, ChainInv, [Next]_vars
  PROVE  ChainInv'
<1>0. req \in [Txns -> Request] /\ \A p \in Txns : Extends(req[p]) /\ TakesTheStart(req[p])
  BY DEF Inv1, TypeOK, ChainInv
<1>1. ASSUME NEW p \in Txns, Arrive(p) PROVE ChainInv'
  BY <1>1, Arrivals, OpeningKeepsChainInv
<1>2. ASSUME NEW p \in Txns, NEW r, Advance(p, r), Extends(r), TakesTheStart(r) PROVE ChainInv'
  BY <1>2, ReadingKeepsChainInv DEF Advance
<1>3. ASSUME NEW p \in Txns, Advance(p, Idle) PROVE ChainInv'
  BY <1>2, <1>3, IdleAddsNothing
<1>4. ASSUME NEW p \in Txns, NEW r, Advance(p, r), r.op = req[p].op, r.tok = req[p].tok,
             r.fam = req[p].fam, r.user = req[p].user,
             r.op = "purge" => TakesTheStart(r)
      PROVE  ChainInv'
  BY <1>0, <1>2, <1>4 DEF Extends, TakesTheStart
<1>5. ASSUME NEW p \in Txns, RefreshCheckUser(p) PROVE ChainInv'
  <2> DEFINE r == [req[p] EXCEPT !.pc = "loaded"]
  <2>1. /\ r.op = req[p].op /\ r.tok = req[p].tok /\ r.fam = req[p].fam /\ r.user = req[p].user
        /\ r.todo = req[p].todo /\ r.held = req[p].held
    BY <1>0 DEF Request
  <2>2. Advance(p, r) \/ Advance(p, Idle)
    BY <1>5 DEF RefreshCheckUser
  <2> HIDE DEF r
  <2>3. QED
    BY <1>0, <1>3, <1>4, <2>1, <2>2 DEF TakesTheStart
<1>6. ASSUME NEW p \in Txns, RevokeStart(p) PROVE ChainInv'
  <2> DEFINE r == [req[p] EXCEPT !.pc = "locking", !.todo = {t \in Tokens : Matches(p, t)}]
  <2>1. /\ r.op = req[p].op /\ r.tok = req[p].tok /\ r.fam = req[p].fam /\ r.user = req[p].user
    BY <1>0 DEF Request
  <2>2. Advance(p, r) /\ req[p].op # "purge"
    BY <1>6 DEF RevokeStart
  <2> HIDE DEF r
  <2>3. QED
    BY <1>4, <2>1, <2>2
<1>7. ASSUME NEW p \in Txns, NEW t \in Tokens, LockRow(p, t) PROVE ChainInv'
  <2> DEFINE hit == IF req[p].op = "purge" THEN Exists(t) ELSE Matches(p, t)
             r == [req[p] EXCEPT !.todo = @ \ {t}, !.held = IF hit THEN @ \cup {t} ELSE @]
  <2>1. /\ r.op = req[p].op /\ r.tok = req[p].tok /\ r.fam = req[p].fam /\ r.user = req[p].user
        /\ r.todo = req[p].todo \ {t} /\ r.held = IF hit THEN req[p].held \cup {t} ELSE req[p].held
    BY <1>0 DEF Request
  <2>2. Advance(p, r) /\ t \in req[p].todo
    BY <1>7 DEF LockRow
  <2> HIDE DEF r
  <2>3. ASSUME r.op = "purge", NEW s \in r.todo \cup r.held, Exists(s), rows[s].fam \notin crossedFam
        PROVE  rows[rows[s].fam].status = "purged" \/ rows[s].fam \in r.todo \cup r.held
    <3>1. s \in req[p].todo \cup req[p].held /\ s \in Tokens
      BY <1>0, <2>1, <2>2, <2>3 DEF Request
    <3>2. rows[rows[s].fam].status = "purged" \/ rows[s].fam \in req[p].todo \cup req[p].held
      BY <1>0, <2>1, <2>3, <3>1 DEF TakesTheStart
    <3>3. rows[s].fam = t => rows[t].status = "purged" \/ t \in r.held
      BY <2>1, <2>3, <3>1, RowFacts DEF Exists, Stored
    <3>4. QED
      BY <2>1, <3>2, <3>3
  <2>4. QED
    BY <1>4, <2>1, <2>2, <2>3 DEF TakesTheStart
<1>8. ASSUME NEW p \in Txns, RefreshFlush(p) PROVE ChainInv'
  <2> DEFINE r == [req[p] EXCEPT !.pc = "flushed", !.held = {req[p].tok}]
  <2>1. /\ r.op = req[p].op /\ r.tok = req[p].tok /\ r.fam = req[p].fam /\ r.user = req[p].user
    BY <1>0 DEF Request
  <2>2. Advance(p, r) \/ Advance(p, Idle)
    BY <1>8 DEF RefreshFlush
  <2>3. req[p].op # "purge"
    BY <1>8 DEF RefreshFlush
  <2> HIDE DEF r
  <2>4. QED
    BY <1>3, <1>4, <2>1, <2>2, <2>3
<1>9. ASSUME NEW p \in Txns, EndFamily(p) \/ ResetCommit(p) PROVE ChainInv'
  BY <1>9, RevokingKeepsChainInv DEF EndFamily, ResetCommit
<1>10. ASSUME UNCHANGED <<rows, req, crossedFam>> PROVE ChainInv'
  BY <1>10 DEF ChainInv, LinksLead, AllReached, StartExpiresFirst, Extends, TakesTheStart, Exists,
               IsRevoked
<1>11. QED
  BY <1>1, <1>3, <1>5, <1>6, <1>7, <1>8, <1>9, <1>10, InsertingKeepsChainInv, PurgingKeepsChainInv,
     ExpiringKeepsChainInv
  DEF Next, Work, Commit, Rollback, DeadlockAbort, SetActive, vars

\* The rotation chain is a forensic record (ADR-0007:30): a link leads from a spent token to
\* the successor it was exchanged for, and without overlap no token but the first lacks one.
THEOREM ChainStaysARecord == Spec => []ChainIsARecord
<1>1. Inv1 /\ Inv1' /\ Inv2 /\ PurgeInv /\ ChainInv /\ [Next]_vars => ChainInv'
  BY NextKeepsChainInv
<1>2. Inv1 /\ PurgeInv /\ [Next]_vars => PurgeInv'
  BY PurgeStepHolds
<1>3. Inv1 /\ ChainInv => ChainIsARecord
  BY ChainIsLinked DEF Inv1, ChainInv
<1>4. QED
  BY <1>1, <1>2, <1>3, InitInv1, InitInv2, InitPurgeInv, InitChainInv, NextKeepsInv1, NextKeepsInv2,
     PTL DEF Spec
=============================================================================
