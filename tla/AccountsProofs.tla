--------------------------- MODULE AccountsProofs ---------------------------
(***************************************************************************)
(* What Accounts promises, for any addresses, links and transactions.      *)
(***************************************************************************)
EXTENDS Accounts, FiniteSetTheorems, TLAPS

HasPassword(u) == u \in Users /\ users[u].exists /\ users[u].password

\* What a request may hold in each of its steps.
ReqOK(r) ==
    /\ r \in Request
    /\ r.pc # "idle" => r.user \in Users
    /\ r.pc \in {"absent", "inserted"} => r.op \in {"register", "google"}
    /\ r.op = "register" => r.pc \in {"absent", "inserted"} /\ r.new \in Links
    /\ r.pc = "inserted" => ~users[r.user].exists
    /\ r.op = "issue" => r.pc # "idle" /\ r.new \in Links
    /\ r.op = "redeem" => r.pc # "idle" /\ r.link \in Links
    /\ r.op \in {"issue", "redeem"} /\ r.kind = "reset" => HasPassword(r.user)
    /\ r.op = "google" => r.pc # "idle"
    /\ r.op \in Admin => r.pc # "idle"
    /\ r.op = "set_role" => r.value \in Roles
    /\ r.op = "set_role" /\ r.pc \in {"loaded", "ready"} => r.seen \in Roles

LinkOK(l) ==
    links[l].issued => /\ links[l].user \in Users
                       /\ links[l].kind = "reset" => HasPassword(links[l].user)

\* One insert of an address at a time, of an address that has no account; and whoever was
\* sent a link to a new password has one.
IInv ==
    /\ users \in [Users -> Account]
    /\ links \in [Links -> Link]
    /\ req \in [Txns -> Request]
    /\ \A p \in Txns : ReqOK(req[p])
    /\ \A p, q \in Txns : req[p].pc = "inserted" /\ req[q].pc = "inserted" /\ req[p].user = req[q].user
                            => p = q
    /\ \A l \in Links : LinkOK(l)

\* What AccountsAreKept says of one account, and that it goes on existing.
Kept(u) ==
    users[u].exists =>
        /\ users'[u].exists
        /\ users'[u].password = users[u].password
        /\ users[u].google => users'[u].google
        /\ users[u].verified => users'[u].verified
        /\ users'[u].role # users[u].role =>
              \E p \in Txns : req[p].op = "set_role" /\ req[p].user = u

LEMMA IdleOK == ReqOK(Idle) /\ Idle \in Request
BY DEF ReqOK, Idle, Request, Ops, Values, Roles, Kinds, Admin

LEMMA SameUsersKept == ASSUME UNCHANGED users PROVE \A u \in Users : Kept(u)
BY DEF Kept

-----------------------------------------------------------------------------
(* The shapes of a step.                                                   *)

\* One request moves, and no table changes.
LEMMA MoveKeeps ==
    ASSUME IInv, NEW p \in Txns, NEW r, ReqOK(r), req' = [req EXCEPT ![p] = r],
           UNCHANGED <<users, links>>,
           r.pc = "inserted" => \A q \in Txns : req[q].pc = "inserted" => req[q].user # r.user
    PROVE  IInv'
<1>1. \A q \in Txns : req'[q] = IF q = p THEN r ELSE req[q]
  BY DEF IInv
<1>2. req' \in [Txns -> Request]
  BY DEF IInv, ReqOK
<1>3. \A q \in Txns : ReqOK(req'[q])
  BY <1>1 DEF IInv
<1>4. \A q \in Txns : ReqOK(req[q])'
  BY <1>3 DEF ReqOK, HasPassword
<1>5. \A o, q \in Txns : req'[o].pc = "inserted" /\ req'[q].pc = "inserted" /\ req'[o].user = req'[q].user
                            => o = q
  BY <1>1 DEF IInv
<1>6. \A l \in Links : LinkOK(l)'
  BY DEF IInv, LinkOK, HasPassword
<1> QED
  BY <1>2, <1>4, <1>5, <1>6 DEF IInv

\* A request ends and writes what it may.
LEMMA CommitKeeps ==
    ASSUME IInv, NEW p \in Txns, req' = [req EXCEPT ![p] = Idle],
           users' \in [Users -> Account], links' \in [Links -> Link],
           \A u \in Users : Kept(u),
           \A u \in Users : users'[u].exists =>
                users[u].exists \/ (req[p].pc = "inserted" /\ u = req[p].user),
           \A l \in Links : LinkOK(l)'
    PROVE  IInv'
<1>1. \A q \in Txns : req'[q] = IF q = p THEN Idle ELSE req[q]
  BY DEF IInv
<1>2. req' \in [Txns -> Request]
  BY IdleOK DEF IInv
<1>3. \A u : HasPassword(u) => HasPassword(u)'
  BY DEF HasPassword, Kept
<1>4. ASSUME NEW q \in Txns \ {p}
      PROVE  ReqOK(req[q])'
  <2>1. ReqOK(req[q]) /\ req'[q] = req[q]
    BY <1>1 DEF IInv
  <2>2. req[q].pc = "inserted" => ~users'[req[q].user].exists
    BY <2>1 DEF IInv, ReqOK
  <2> QED
    BY <1>3, <2>1, <2>2 DEF ReqOK
<1>5. ReqOK(req[p])'
  BY <1>1, IdleOK DEF ReqOK, Idle
<1>6. \A q \in Txns : ReqOK(req[q])'
  BY <1>4, <1>5
<1>7. \A o, q \in Txns : req'[o].pc = "inserted" /\ req'[q].pc = "inserted" /\ req'[o].user = req'[q].user
                            => o = q
  BY <1>1 DEF IInv, Idle
<1> QED
  BY <1>2, <1>6, <1>7 DEF IInv

-----------------------------------------------------------------------------
(* Arrivals and the steps inside a request.                                *)

LEMMA BeginKeeps ==
    ASSUME IInv, NEW p \in Txns, NEW r, Begin(p, r), ReqOK(r), r.pc # "inserted"
    PROVE  IInv' /\ \A u \in Users : Kept(u)
BY MoveKeeps, SameUsersKept DEF Begin

LEMMA AdvanceKeeps ==
    ASSUME IInv, NEW p \in Txns, NEW r, Advance(p, r), ReqOK(r),
           r.pc = "inserted" => \A q \in Txns : req[q].pc = "inserted" => req[q].user # r.user
    PROVE  IInv' /\ \A u \in Users : Kept(u)
BY MoveKeeps, SameUsersKept DEF Advance

LEMMA ArriveKeeps ==
    ASSUME IInv, NEW p \in Txns, Arrive(p)
    PROVE  IInv' /\ \A u \in Users : Kept(u)
<1>1. ASSUME NEW u \in Users, NEW l \in Links, RegisterRead(p, u, l)
      PROVE  IInv' /\ \A v \in Users : Kept(v)
  <2> DEFINE r == [Idle EXCEPT !.op = "register", !.pc = "absent", !.user = u, !.new = l]
  <2>1. ReqOK(r) /\ r.pc # "inserted"
    BY IdleOK DEF ReqOK, Idle, Request, Ops, Admin
  <2> QED
    BY <1>1, <2>1, BeginKeeps DEF RegisterRead
<1>2. ASSUME NEW u \in Users, NEW v \in {"true", "false"}, GoogleRead(p, u, v)
      PROVE  IInv' /\ \A w \in Users : Kept(w)
  <2> DEFINE r == [Idle EXCEPT !.op = "google", !.user = u, !.value = v,
                               !.pc = IF users[u].exists THEN "ready" ELSE "absent"]
  <2>1. ReqOK(r) /\ r.pc # "inserted"
    BY IdleOK DEF ReqOK, Idle, Request, Ops, Admin, Values
  <2> QED
    BY <1>2, <2>1, BeginKeeps DEF GoogleRead
<1>3. ASSUME NEW u \in Users, NEW k \in Kinds, NEW l \in Links, IssueRead(p, u, k, l)
      PROVE  IInv' /\ \A v \in Users : Kept(v)
  <2> DEFINE r == [Idle EXCEPT !.op = "issue", !.pc = "authorized", !.user = u, !.kind = k, !.new = l]
  <2>1. k = "reset" => HasPassword(u)
    BY <1>3 DEF IssueRead, MayAsk, HasPassword
  <2>2. ReqOK(r) /\ r.pc # "inserted"
    BY <2>1, IdleOK DEF ReqOK, Idle, Request, Ops, Admin
  <2> QED
    BY <1>3, <2>2, BeginKeeps DEF IssueRead
<1>4. ASSUME NEW l \in Links, RedeemRead(p, l)
      PROVE  IInv' /\ \A v \in Users : Kept(v)
  <2> DEFINE r == [Idle EXCEPT !.op = "redeem", !.pc = "ready", !.user = links[l].user,
                               !.kind = links[l].kind, !.link = l]
  <2>1. LinkOK(l) /\ links[l].issued /\ links[l] \in Link
    BY <1>4 DEF RedeemRead, Live, IInv
  <2>2. links[l].user \in Users /\ links[l].kind \in Kinds
        /\ (links[l].kind = "reset" => HasPassword(links[l].user))
    BY <2>1 DEF LinkOK, Link
  <2>3. ReqOK(r) /\ r.pc # "inserted"
    BY <2>2, IdleOK DEF ReqOK, Idle, Request, Ops, Admin
  <2> QED
    BY <1>4, <2>3, BeginKeeps DEF RedeemRead
<1>5. ASSUME NEW op \in Admin, NEW actor \in Users, NEW u \in Users, NEW v \in Values,
             AdminRead(p, op, actor, u, v)
      PROVE  IInv' /\ \A w \in Users : Kept(w)
  <2> DEFINE r == [Idle EXCEPT !.op = op, !.user = u, !.value = v,
                               !.pc = IF actor = u THEN "loaded" ELSE "authorized",
                               !.seen = IF actor = u THEN Column(op, users[u]) ELSE "false"]
  <2>1. users[u] \in Account
    BY DEF IInv
  <2>2. Column(op, users[u]) \in Values /\ (op = "set_role" => Column(op, users[u]) \in Roles)
    BY <2>1 DEF Column, Account, Values, Flag, Admin
  <2>3. op = "set_role" => v \in Roles
    BY <1>5 DEF AdminRead
  <2>4. ReqOK(r) /\ r.pc # "inserted"
    BY <2>2, <2>3, IdleOK DEF ReqOK, Idle, Request, Ops, Admin
  <2> QED
    BY <1>5, <2>4, BeginKeeps DEF AdminRead
<1> QED
  BY <1>1, <1>2, <1>3, <1>4, <1>5 DEF Arrive

LEMMA StepsInsideKeep ==
    ASSUME IInv, NEW p \in Txns,
           InsertUser(p) \/ IssueBurn(p) \/ LoadTarget(p) \/ CountAdmins(p) \/ Rollback(p)
    PROVE  IInv' /\ \A u \in Users : Kept(u)
<1>0. ReqOK(req[p]) /\ req[p] \in Request
  BY DEF IInv
<1>1. ASSUME Advance(p, Idle)
      PROVE  IInv' /\ \A u \in Users : Kept(u)
  BY <1>1, IdleOK, AdvanceKeeps DEF Idle
<1>2. CASE InsertUser(p)
  <2> DEFINE r == [req[p] EXCEPT !.pc = "inserted"]
  <2>1. CASE users[req[p].user].exists
    BY <1>1, <1>2, <2>1 DEF InsertUser
  <2>2. CASE ~users[req[p].user].exists
    <3>1. ReqOK(r)
      BY <1>0, <1>2, <2>2 DEF InsertUser, ReqOK, Request, Admin
    <3>2. r.user = req[p].user /\ \A q \in Txns : req[q].pc = "inserted" => req[q].user # r.user
      BY <1>0, <1>2 DEF InsertUser, Request
    <3>3. Advance(p, r)
      BY <1>2, <2>2 DEF InsertUser
    <3> QED
      BY <3>1, <3>2, <3>3, AdvanceKeeps
  <2> QED
    BY <2>1, <2>2
<1>3. CASE IssueBurn(p)
  <2> DEFINE r == [req[p] EXCEPT !.pc = "ready", !.burn = LiveOf(req[p].user, req[p].kind)]
  <2>1. ReqOK(r) /\ r.pc # "inserted"
    BY <1>0, <1>3 DEF IssueBurn, ReqOK, Request, Admin, LiveOf
  <2>2. Advance(p, r)
    BY <1>3 DEF IssueBurn
  <2> QED
    BY <2>1, <2>2, AdvanceKeeps
<1>4. CASE LoadTarget(p)
  <2> DEFINE r == [req[p] EXCEPT !.pc = "loaded", !.seen = Column(req[p].op, users[req[p].user])]
  <2>1. CASE ~users[req[p].user].exists
    BY <1>1, <1>4, <2>1 DEF LoadTarget
  <2>2. CASE users[req[p].user].exists
    <3>1. req[p].user \in Users /\ users[req[p].user] \in Account /\ req[p].op \in Admin
      BY <1>0, <1>4 DEF LoadTarget, IInv, ReqOK
    <3>2. /\ Column(req[p].op, users[req[p].user]) \in Values
          /\ req[p].op = "set_role" => Column(req[p].op, users[req[p].user]) \in Roles
      BY <3>1 DEF Column, Account, Values, Flag, Admin
    <3>3. ReqOK(r) /\ r.pc # "inserted"
      BY <1>0, <3>1, <3>2 DEF ReqOK, Request, Admin
    <3>4. Advance(p, r)
      BY <1>4, <2>2 DEF LoadTarget
    <3> QED
      BY <3>3, <3>4, AdvanceKeeps
  <2> QED
    BY <2>1, <2>2
<1>5. CASE CountAdmins(p)
  <2> DEFINE r == [req[p] EXCEPT !.pc = "ready"]
  <2>1. Advance(p, Idle) \/ Advance(p, r)
    BY <1>5 DEF CountAdmins
  <2>2. ReqOK(r) /\ r.pc # "inserted"
    BY <1>0, <1>5 DEF CountAdmins, Demotes, ReqOK, Request, Admin
  <2> QED
    BY <1>1, <2>1, <2>2, AdvanceKeeps
<1>6. CASE Rollback(p)
  BY <1>1, <1>6 DEF Rollback
<1> QED
  BY <1>2, <1>3, <1>4, <1>5, <1>6

-----------------------------------------------------------------------------
(* Commits.                                                                *)

LEMMA IssuedIsLink ==
    ASSUME NEW l \in Links, NEW u \in Users, NEW k \in Kinds
    PROVE  /\ Issued(l, u, k) \in Link
           /\ Issued(l, u, k).user = u /\ Issued(l, u, k).kind = k
BY DEF Issued, NoRow, Link, Kinds

\* Links that are as they were, but for their used_at.
LEMMA LinksStayOK ==
    ASSUME IInv, \A u \in Users : Kept(u), NEW l \in Links,
           links'[l].issued = links[l].issued, links'[l].user = links[l].user, links'[l].kind = links[l].kind
    PROVE  LinkOK(l)'
<1>1. LinkOK(l)
  BY DEF IInv
<1>2. ASSUME links[l].issued PROVE LinkOK(l)'
  BY <1>1, <1>2 DEF LinkOK, HasPassword, Kept
<1>3. ASSUME ~links[l].issued PROVE LinkOK(l)'
  BY <1>3 DEF LinkOK
<1> QED
  BY <1>2, <1>3

LEMMA RegisterCommitKeeps ==
    ASSUME IInv, NEW p \in Txns, RegisterCommit(p)
    PROVE  IInv' /\ \A u \in Users : Kept(u)
<1> DEFINE u == req[p].user
           a == [NoAccount EXCEPT !.exists = TRUE, !.password = TRUE, !.active = TRUE]
           l == req[p].new
<1>1. /\ u \in Users /\ ~users[u].exists /\ l \in Links /\ req[p].pc = "inserted"
      /\ req' = [req EXCEPT ![p] = Idle]
      /\ users' = [users EXCEPT ![u] = a]
      /\ links' = [links EXCEPT ![l] = Issued(l, u, "verify")]
  BY DEF RegisterCommit, Close, IInv, ReqOK
<1>2. a \in Account /\ a.exists
  BY DEF NoAccount, Account, Roles
<1> HIDE DEF a, u, l
<1>3. users' \in [Users -> Account]
  BY <1>1, <1>2 DEF IInv
<1>4. \A v \in Users : v # u => users'[v] = users[v]
  BY <1>1 DEF IInv
<1>5. \A v \in Users : Kept(v)
  BY <1>1, <1>4 DEF Kept
<1>6. links' \in [Links -> Link]
  BY <1>1, IssuedIsLink DEF IInv, Kinds
<1>7. ASSUME NEW m \in Links PROVE LinkOK(m)'
  <2>1. CASE m = l
    <3>1. links'[m].user = u /\ links'[m].kind = "verify"
      BY <1>1, <2>1, IssuedIsLink DEF IInv, Kinds
    <3> QED
      BY <1>1, <3>1 DEF LinkOK
  <2>2. CASE m # l
    BY <1>1, <1>5, <2>2, LinksStayOK DEF IInv
  <2> QED
    BY <2>1, <2>2
<1> QED
  BY <1>1, <1>3, <1>4, <1>5, <1>6, <1>7, CommitKeeps DEF u

LEMMA GoogleCommitKeeps ==
    ASSUME IInv, NEW p \in Txns, GoogleCommit(p)
    PROVE  IInv' /\ \A u \in Users : Kept(u)
<1> DEFINE u == req[p].user
           old == IF req[p].pc = "inserted"
                  THEN [NoAccount EXCEPT !.exists = TRUE, !.active = TRUE] ELSE users[u]
           a == [old EXCEPT !.google = TRUE, !.verified = @ \/ req[p].value = "true"]
<1>1. /\ u \in Users /\ (req[p].pc = "inserted" => ~users[u].exists)
      /\ req' = [req EXCEPT ![p] = Idle]
      /\ users' = [users EXCEPT ![u] = a]
      /\ UNCHANGED links
  BY DEF GoogleCommit, Close, IInv, ReqOK
<1>2. old \in Account
  BY <1>1 DEF NoAccount, Account, Roles, IInv
<1>3. /\ a \in Account
      /\ a.exists = old.exists /\ a.password = old.password /\ a.role = old.role
      /\ a.google /\ (old.verified => a.verified)
  <2> HIDE DEF old
  <2> QED
    BY <1>2 DEF Account
<1>4. req[p].pc # "inserted" => old = users[u]
  OBVIOUS
<1> HIDE DEF a, u, old
<1>5. users' \in [Users -> Account] /\ users'[u] = a
  BY <1>1, <1>3 DEF IInv
<1>6. \A v \in Users : v # u => users'[v] = users[v]
  BY <1>1 DEF IInv
<1>7. Kept(u)
  BY <1>1, <1>3, <1>4, <1>5 DEF Kept
<1>8. \A v \in Users : Kept(v)
  BY <1>6, <1>7 DEF Kept
<1>9. \A v \in Users : users'[v].exists => users[v].exists \/ (req[p].pc = "inserted" /\ v = req[p].user)
  BY <1>3, <1>4, <1>5, <1>6 DEF u
<1>10. links' \in [Links -> Link] /\ \A m \in Links : LinkOK(m)'
  BY <1>1, <1>8, LinksStayOK DEF IInv
<1> QED
  BY <1>1, <1>5, <1>8, <1>9, <1>10, CommitKeeps

LEMMA IssueCommitKeeps ==
    ASSUME IInv, NEW p \in Txns, IssueCommit(p)
    PROVE  IInv' /\ \A u \in Users : Kept(u)
<1> DEFINE n == req[p].new
           u == req[p].user
           k == req[p].kind
<1>1. /\ u \in Users /\ n \in Links /\ k \in Kinds /\ (k = "reset" => HasPassword(u))
      /\ req' = [req EXCEPT ![p] = Idle]
      /\ UNCHANGED users
  BY DEF IssueCommit, Close, IInv, ReqOK, Request
<1>2. \A l \in Links : links'[l] = IF l = n THEN Issued(l, u, k)
                                   ELSE IF l \in req[p].burn THEN [links[l] EXCEPT !.used = TRUE]
                                   ELSE links[l]
  BY DEF IssueCommit
<1>3. \A v \in Users : Kept(v)
  BY <1>1, SameUsersKept
<1> HIDE DEF n, u, k
<1>4. ASSUME NEW l \in Links
      PROVE  links'[l] \in Link /\ LinkOK(l)'
  <2>1. links[l] \in Link
    BY DEF IInv
  <2>2. CASE l = n
    <3>0. links'[l] = Issued(l, u, k)
      BY <1>2, <2>2
    <3>1. links'[l] \in Link /\ links'[l].user = u /\ links'[l].kind = k
      BY <1>1, <3>0, IssuedIsLink
    <3> QED
      BY <1>1, <3>1 DEF LinkOK, HasPassword
  <2>3. CASE l # n
    <3>1. links'[l] = links[l] \/ links'[l] = [links[l] EXCEPT !.used = TRUE]
      BY <1>2, <2>3
    <3>2. /\ links'[l] \in Link
          /\ links'[l].issued = links[l].issued /\ links'[l].user = links[l].user
          /\ links'[l].kind = links[l].kind
      BY <2>1, <3>1 DEF Link
    <3> QED
      BY <1>3, <3>2, LinksStayOK
  <2> QED
    BY <2>2, <2>3
<1>5. links' \in [Links -> Link]
  BY <1>4 DEF IssueCommit
<1> QED
  BY <1>1, <1>3, <1>4, <1>5, CommitKeeps DEF IInv

LEMMA RedeemCommitKeeps ==
    ASSUME IInv, NEW p \in Txns, RedeemCommit(p)
    PROVE  IInv' /\ \A u \in Users : Kept(u)
<1> DEFINE n == req[p].link
           u == req[p].user
           a == IF req[p].kind = "verify" THEN [users[u] EXCEPT !.verified = TRUE]
                                          ELSE [users[u] EXCEPT !.password = TRUE]
<1>1. /\ u \in Users /\ n \in Links /\ (req[p].kind # "verify" => HasPassword(u))
      /\ req' = [req EXCEPT ![p] = Idle]
  BY DEF RedeemCommit, Close, IInv, ReqOK, Request, Kinds
<1>2. users' = [users EXCEPT ![u] = a]
  BY DEF RedeemCommit
<1>3. users[u] \in Account
  BY <1>1 DEF IInv
<1>4. /\ a \in Account
      /\ a.exists = users[u].exists /\ a.google = users[u].google /\ a.role = users[u].role
      /\ a.password = users[u].password
      /\ users[u].verified => a.verified
  BY <1>1, <1>3 DEF Account, HasPassword
<1>5. \A l \in Links : links'[l] = IF l = n THEN [links[n] EXCEPT !.used = TRUE, !.spent = @ + 1]
                                   ELSE links[l]
  BY <1>1 DEF RedeemCommit, IInv
<1> HIDE DEF a, u, n
<1>6. users' \in [Users -> Account] /\ users'[u] = a /\ \A v \in Users : v # u => users'[v] = users[v]
  BY <1>1, <1>2, <1>4 DEF IInv
<1>7. Kept(u)
  BY <1>4, <1>6 DEF Kept
<1>8. \A v \in Users : Kept(v)
  BY <1>6, <1>7 DEF Kept
<1>9. \A v \in Users : users'[v].exists => users[v].exists
  BY <1>4, <1>6
<1>10. links[n] \in Link
  BY <1>1 DEF IInv
<1>11. [links[n] EXCEPT !.used = TRUE, !.spent = @ + 1] \in Link
  <2>1. links[n].spent + 1 \in Nat
    BY <1>10 DEF Link
  <2> QED
    BY <1>10, <2>1 DEF Link
<1>12. ASSUME NEW l \in Links
      PROVE  /\ links'[l] \in Link
             /\ links'[l].issued = links[l].issued /\ links'[l].user = links[l].user
             /\ links'[l].kind = links[l].kind
  BY <1>5, <1>10, <1>11 DEF Link, IInv
<1>13. links' \in [Links -> Link]
  BY <1>12 DEF RedeemCommit, IInv
<1>14. \A l \in Links : LinkOK(l)'
  BY <1>8, <1>12, LinksStayOK
<1> QED
  BY <1>1, <1>6, <1>8, <1>9, <1>13, <1>14, CommitKeeps

\* What an operator's request leaves of a row.
LEMMA ChangedIsRow ==
    ASSUME IInv, NEW p \in Txns, AdminCommit(p)
    PROVE  LET a == Changed(p) old == users[req[p].user]
           IN /\ req[p].user \in Users /\ old \in Account /\ a \in Account
              /\ a.exists = old.exists /\ a.password = old.password /\ a.google = old.google
              /\ old.verified => a.verified
              /\ a.role # old.role => req[p].op = "set_role" /\ a.role = req[p].value
<1>1. ReqOK(req[p]) /\ req[p].op \in Admin
  BY DEF AdminCommit, IInv
<1>2. req[p].user \in Users /\ users[req[p].user] \in Account
  BY <1>1 DEF IInv, ReqOK
<1>3. CASE req[p].op = "set_role"
  BY <1>1, <1>2, <1>3 DEF Changed, Account, ReqOK
<1>4. CASE req[p].op = "set_active"
  BY <1>1, <1>2, <1>4 DEF Changed, Account
<1>5. CASE req[p].op = "vouch"
  BY <1>1, <1>2, <1>5 DEF Changed, Account
<1> QED
  BY <1>1, <1>3, <1>4, <1>5 DEF Admin

LEMMA AdminCommitKeeps ==
    ASSUME IInv, NEW p \in Txns, AdminCommit(p)
    PROVE  IInv' /\ \A u \in Users : Kept(u)
<1> DEFINE u == req[p].user
           a == Changed(p)
<1>1. /\ u \in Users /\ users[u] \in Account /\ a \in Account
      /\ a.exists = users[u].exists /\ a.password = users[u].password /\ a.google = users[u].google
      /\ users[u].verified => a.verified
      /\ a.role # users[u].role => req[p].op = "set_role"
  BY ChangedIsRow
<1>2. req' = [req EXCEPT ![p] = Idle] /\ users' = [users EXCEPT ![u] = a] /\ UNCHANGED links
  BY DEF AdminCommit, Close
<1> HIDE DEF a
<1>3. users' \in [Users -> Account] /\ users'[u] = a /\ \A v \in Users : v # u => users'[v] = users[v]
  BY <1>1, <1>2 DEF IInv
<1>4. Kept(u)
  BY <1>1, <1>3 DEF Kept
<1>5. \A v \in Users : Kept(v)
  BY <1>3, <1>4 DEF Kept
<1>6. \A v \in Users : users'[v].exists => users[v].exists
  BY <1>1, <1>3
<1>7. links' \in [Links -> Link] /\ \A m \in Links : LinkOK(m)'
  BY <1>2, <1>5, LinksStayOK DEF IInv
<1> QED
  BY <1>2, <1>3, <1>5, <1>6, <1>7, CommitKeeps

LEMMA ExpireKeeps ==
    ASSUME IInv, NEW l \in Links, Expire(l)
    PROVE  IInv' /\ \A u \in Users : Kept(u)
<1>1. UNCHANGED <<users, req>> /\ links' = [links EXCEPT ![l].expired = TRUE]
  BY DEF Expire
<1>2. \A u \in Users : Kept(u)
  BY <1>1, SameUsersKept
<1>3. ASSUME NEW m \in Links
      PROVE  /\ links'[m] \in Link
             /\ links'[m].issued = links[m].issued /\ links'[m].user = links[m].user
             /\ links'[m].kind = links[m].kind
  <2>1. links[m] \in Link
    BY DEF IInv
  <2>2. links'[m] = links[m] \/ links'[m] = [links[m] EXCEPT !.expired = TRUE]
    BY <1>1 DEF IInv
  <2> QED
    BY <2>1, <2>2 DEF Link
<1>4. links' \in [Links -> Link]
  BY <1>1, <1>3 DEF IInv
<1>5. \A m \in Links : LinkOK(m)'
  BY <1>2, <1>3, LinksStayOK
<1>6. \A p \in Txns : ReqOK(req[p])'
  BY <1>1 DEF IInv, ReqOK, HasPassword
<1> QED
  BY <1>1, <1>2, <1>4, <1>5, <1>6 DEF IInv

LEMMA NextKeeps ==
    ASSUME IInv, Next
    PROVE  IInv' /\ \A u \in Users : Kept(u)
<1>1. ASSUME NEW p \in Txns, Arrive(p) \/ Work(p) \/ Rollback(p)
      PROVE  IInv' /\ \A u \in Users : Kept(u)
  BY <1>1, ArriveKeeps, StepsInsideKeep, RegisterCommitKeeps, GoogleCommitKeeps, IssueCommitKeeps,
     RedeemCommitKeeps, AdminCommitKeeps DEF Work
<1> QED
  BY <1>1, ExpireKeeps DEF Next

LEMMA StutterKeeps ==
    ASSUME IInv, UNCHANGED vars
    PROVE  IInv'
BY DEF vars, IInv, ReqOK, LinkOK, HasPassword

LEMMA InitHolds == Init => IInv
<1>1. NoRow \in Link /\ ~NoRow.issued /\ Idle.pc # "inserted"
  BY DEF NoRow, Link, Kinds, Idle
<1>2. NoAccount \in Account
  BY DEF NoAccount, Account, Roles
<1>3. [exists |-> TRUE, password |-> TRUE, google |-> FALSE, verified |-> TRUE,
       role |-> "admin", active |-> TRUE] \in Account
  BY DEF Account, Roles
<1> SUFFICES ASSUME Init PROVE IInv
  OBVIOUS
<1>4. users \in [Users -> Account]
  BY <1>2, <1>3 DEF Init
<1>5. links \in [Links -> Link] /\ \A l \in Links : LinkOK(l)
  BY <1>1 DEF Init, LinkOK
<1>6. req \in [Txns -> Request] /\ \A p \in Txns : req[p] = Idle
  BY IdleOK DEF Init
<1> QED
  BY <1>1, <1>4, <1>5, <1>6, IdleOK DEF IInv

\* The tables and the requests agree, always.
THEOREM AccountsInvariant == Spec => []IInv
<1>1. IInv /\ [Next]_vars => IInv'
  BY NextKeeps, StutterKeeps
<1> QED
  BY <1>1, InitHolds, PTL DEF Spec

\* However registrations, Google sign-ins, redeemed links and operators interleave, an
\* account keeps its password or its want of one, its identity, its verification and, but
\* for set_role, its role.
THEOREM AccountsStand == Spec => AccountsAreKept
<1>1. IInv /\ [Next]_vars => [\A u \in Users : Kept(u)]_vars
  BY NextKeeps
<1>2. [\A u \in Users : Kept(u)]_vars =>
      [\A u \in Users : users[u].exists =>
          /\ users'[u].password = users[u].password
          /\ users[u].google => users'[u].google
          /\ users[u].verified => users'[u].verified
          /\ users'[u].role # users[u].role =>
                \E p \in Txns : req[p].op = "set_role" /\ req[p].user = u]_vars
  BY DEF Kept
<1> QED
  BY <1>1, <1>2, AccountsInvariant, PTL DEF Spec, AccountsAreKept

-----------------------------------------------------------------------------
(* Administrators.                                                         *)

Demotion(p) == req[p].op = "set_role" /\ req[p].pc = "ready"

\* Operators who work one at a time: nobody else's request is open, and the one that has
\* counted the administrators has counted them as they are.
AdminInv ==
    /\ IsFiniteSet(Admins)
    /\ ~operators => /\ Admins # {}
                     /\ \A p, q \in Txns : req[p].op \in Admin /\ req[q].op \in Admin => p = q
                     /\ \A p \in Txns : Demotion(p) => ~(Cardinality(Admins) <= 1)

LEMMA IdleIsNoAdmin == Idle.op \notin Admin /\ Idle.op # "set_role"
BY DEF Idle, Admin

\* A step that promotes and demotes nobody, and admits no request of an operator.
LEMMA SameAdmins ==
    ASSUME AdminInv, Admins' = Admins, operators' = operators,
           \A p \in Txns : /\ req'[p].op \in Admin => req[p].op \in Admin
                           /\ Demotion(p)' => Demotion(p)
    PROVE  AdminInv'
<1>1. Cardinality(Admins)' = Cardinality(Admins)
  OBVIOUS
<1> QED
  BY <1>1 DEF AdminInv

LEMMA ClosedKeeps ==
    ASSUME IInv, AdminInv, NEW p \in Txns, Admins' = Admins, operators' = operators,
           req' = [req EXCEPT ![p] = Idle]
    PROVE  AdminInv'
<1>1. \A q \in Txns : req'[q] = IF q = p THEN Idle ELSE req[q]
  BY DEF IInv
<1> QED
  BY <1>1, IdleIsNoAdmin, SameAdmins DEF Demotion

LEMMA AdminsStay ==
    ASSUME \A u \in Users : users'[u].exists = users[u].exists /\ users'[u].role = users[u].role
    PROVE  Admins' = Admins
BY DEF Admins

LEMMA ArrivalKeepsAdmins ==
    ASSUME IInv, AdminInv, NEW p \in Txns, NEW r, Begin(p, r),
           ~(r.op = "set_role" /\ r.pc = "ready")
    PROVE  AdminInv'
<1>1. \A q \in Txns : req'[q] = IF q = p THEN r ELSE req[q]
  BY DEF Begin, IInv
<1>2. Admins' = Admins /\ Cardinality(Admins)' = Cardinality(Admins)
  BY DEF Begin, Admins
<1>3. operators' = (operators \/ (r.op \in Admin /\ \E q \in Txns \ {p} : req[q].op \in Admin))
  BY DEF Begin
<1>4. ASSUME ~operators'
      PROVE  /\ \A o, q \in Txns : req'[o].op \in Admin /\ req'[q].op \in Admin => o = q
             /\ \A q \in Txns : Demotion(q)' => Demotion(q)
  BY <1>1, <1>3, <1>4 DEF AdminInv, Demotion
<1> QED
  BY <1>2, <1>3, <1>4 DEF AdminInv

LEMMA InsideKeepsAdmins ==
    ASSUME IInv, AdminInv, NEW p \in Txns,
           InsertUser(p) \/ IssueBurn(p) \/ LoadTarget(p) \/ CountAdmins(p) \/ Rollback(p)
    PROVE  AdminInv'
<1>0. req[p] \in Request
  BY DEF IInv
<1>1. ASSUME NEW r, Advance(p, r), r.op \in Admin => req[p].op \in Admin,
             r.op = "set_role" /\ r.pc = "ready" /\ ~operators => ~(Cardinality(Admins) <= 1)
      PROVE  AdminInv'
  <2>1. \A q \in Txns : req'[q] = IF q = p THEN r ELSE req[q]
    BY <1>1 DEF Advance, IInv
  <2>2. Admins' = Admins /\ Cardinality(Admins)' = Cardinality(Admins) /\ operators' = operators
    BY <1>1 DEF Advance, Admins
  <2> QED
    BY <1>1, <2>1, <2>2 DEF AdminInv, Demotion
<1>2. ASSUME Advance(p, Idle)
      PROVE  AdminInv'
  BY <1>1, <1>2, IdleIsNoAdmin
<1>3. CASE InsertUser(p)
  <2> DEFINE r == [req[p] EXCEPT !.pc = "inserted"]
  <2>1. Advance(p, Idle) \/ Advance(p, r)
    BY <1>3 DEF InsertUser
  <2>2. r.op = req[p].op /\ r.pc # "ready"
    BY <1>0 DEF Request
  <2> QED
    BY <1>1, <1>2, <2>1, <2>2
<1>4. CASE IssueBurn(p)
  <2> DEFINE r == [req[p] EXCEPT !.pc = "ready", !.burn = LiveOf(req[p].user, req[p].kind)]
  <2>1. Advance(p, r) /\ r.op = "issue"
    BY <1>0, <1>4 DEF IssueBurn, Request
  <2> QED
    BY <1>1, <2>1 DEF Admin
<1>5. CASE LoadTarget(p)
  <2> DEFINE r == [req[p] EXCEPT !.pc = "loaded", !.seen = Column(req[p].op, users[req[p].user])]
  <2>1. Advance(p, Idle) \/ Advance(p, r)
    BY <1>5 DEF LoadTarget
  <2>2. r.op = req[p].op /\ r.pc # "ready"
    BY <1>0 DEF Request
  <2> QED
    BY <1>1, <1>2, <2>1, <2>2
<1>6. CASE CountAdmins(p)
  <2> DEFINE r == [req[p] EXCEPT !.pc = "ready"]
  <2>1. Advance(p, Idle) \/ (Advance(p, r) /\ ~(Cardinality(Admins) <= 1))
    BY <1>6 DEF CountAdmins
  <2>2. r.op = req[p].op
    BY <1>0 DEF Request
  <2> QED
    BY <1>1, <1>2, <2>1, <2>2
<1>7. CASE Rollback(p)
  BY <1>2, <1>7 DEF Rollback
<1> QED
  BY <1>3, <1>4, <1>5, <1>6, <1>7

\* A new account is nobody's administrator, and signing in makes nobody one.
LEMMA CommitKeepsAdmins ==
    ASSUME IInv, AdminInv, NEW p \in Txns,
           RegisterCommit(p) \/ GoogleCommit(p) \/ IssueCommit(p) \/ RedeemCommit(p)
    PROVE  AdminInv'
<1>1. req' = [req EXCEPT ![p] = Idle] /\ operators' = operators
  BY DEF RegisterCommit, GoogleCommit, IssueCommit, RedeemCommit, Close
<1>2. ReqOK(req[p])
  BY DEF IInv
<1>3. Admins' = Admins
  <2>1. CASE RegisterCommit(p)
    <3> DEFINE a == [NoAccount EXCEPT !.exists = TRUE, !.password = TRUE, !.active = TRUE]
               u == req[p].user
    <3>1. a.role # "admin"
      BY DEF NoAccount
    <3>2. u \in Users /\ ~users[u].exists /\ users' = [users EXCEPT ![u] = a]
      BY <1>2, <2>1 DEF RegisterCommit, ReqOK
    <3> HIDE DEF a, u
    <3>3. \A v \in Users : users'[v] = IF v = u THEN a ELSE users[v]
      BY <3>2 DEF IInv
    <3> QED
      BY <3>1, <3>2, <3>3 DEF Admins
  <2>2. CASE GoogleCommit(p)
    <3> DEFINE u == req[p].user
               old == IF req[p].pc = "inserted"
                      THEN [NoAccount EXCEPT !.exists = TRUE, !.active = TRUE] ELSE users[u]
               a == [old EXCEPT !.google = TRUE, !.verified = @ \/ req[p].value = "true"]
    <3>1. u \in Users /\ (req[p].pc = "inserted" => ~users[u].exists) /\ users' = [users EXCEPT ![u] = a]
      BY <1>2, <2>2 DEF GoogleCommit, ReqOK
    <3>2. old \in Account
      BY <3>1 DEF NoAccount, Account, Roles, IInv
    <3>3. IF req[p].pc = "inserted" THEN old.role # "admin" ELSE old = users[u]
      BY DEF NoAccount
    <3> HIDE DEF old
    <3>4. a.role = old.role /\ a.exists = old.exists
      BY <3>2 DEF Account
    <3> HIDE DEF a, u
    <3>5. \A v \in Users : users'[v] = IF v = u THEN a ELSE users[v]
      BY <3>1 DEF IInv
    <3>6. CASE req[p].pc = "inserted"
      BY <3>1, <3>3, <3>4, <3>5, <3>6 DEF Admins
    <3>7. CASE req[p].pc # "inserted"
      BY <3>1, <3>3, <3>4, <3>5, <3>7, AdminsStay
    <3> QED
      BY <3>6, <3>7
  <2>3. CASE IssueCommit(p)
    BY <2>3 DEF IssueCommit, Admins
  <2>4. CASE RedeemCommit(p)
    <3> DEFINE u == req[p].user
               a == IF req[p].kind = "verify" THEN [users[u] EXCEPT !.verified = TRUE]
                                              ELSE [users[u] EXCEPT !.password = TRUE]
    <3>1. u \in Users /\ users' = [users EXCEPT ![u] = a]
      BY <1>2, <2>4 DEF RedeemCommit, ReqOK
    <3>2. a.role = users[u].role /\ a.exists = users[u].exists
      BY <3>1 DEF Account, IInv
    <3> HIDE DEF a, u
    <3>3. \A v \in Users : users'[v] = IF v = u THEN a ELSE users[v]
      BY <3>1 DEF IInv
    <3> QED
      BY <3>2, <3>3, AdminsStay
  <2> QED
    BY <2>1, <2>2, <2>3, <2>4
<1> QED
  BY <1>1, <1>3, ClosedKeeps

\* Only a request that has counted two takes the role from anybody.
LEMMA AdminCommitKeepsAdmins ==
    ASSUME IInv, AdminInv, NEW p \in Txns, AdminCommit(p)
    PROVE  AdminInv'
<1> DEFINE u == req[p].user
           a == Changed(p)
<1>1. /\ u \in Users
      /\ a.exists = users[u].exists
      /\ a.role # users[u].role => req[p].op = "set_role" /\ a.role = req[p].value
  BY ChangedIsRow
<1>2. /\ req' = [req EXCEPT ![p] = Idle] /\ operators' = operators
      /\ users' = [users EXCEPT ![u] = a]
      /\ Demotes(p) => req[p].pc = "ready"
      /\ req[p].op = "set_role" => req[p].pc \in {"loaded", "ready"}
  BY DEF AdminCommit, Close
<1>3. a.role # users[u].role => req[p].seen # req[p].value
  BY DEF Changed
<1>4. ReqOK(req[p])
  BY DEF IInv
<1> HIDE DEF a, u
<1>5. \A v \in Users : users'[v] = IF v = u THEN a ELSE users[v]
  BY <1>2 DEF IInv
<1>6. Admins \ {u} \subseteq Admins' /\ Admins' \subseteq Admins \cup {u}
  BY <1>5 DEF Admins
<1>7. IsFiniteSet(Admins')
  <2>1. IsFiniteSet(Admins \cup {u})
    BY FS_AddElement DEF AdminInv
  <2> QED
    BY <1>6, <2>1, FS_Subset
<1>8. ASSUME ~operators
      PROVE  Admins' # {}
  <2>1. CASE a.role = "admin" \/ a.role = users[u].role
    <3>1. Admins \subseteq Admins'
      BY <1>1, <1>5, <2>1 DEF Admins
    <3> QED
      BY <1>8, <3>1 DEF AdminInv
  <2>2. CASE a.role # "admin" /\ a.role # users[u].role
    <3>1. req[p].op = "set_role" /\ req[p].value # "admin" /\ req[p].seen # req[p].value
      BY <1>1, <1>3, <2>2
    <3>2. req[p].seen \in Roles /\ req[p].value \in Roles
      BY <1>2, <1>4, <3>1 DEF ReqOK
    <3>3. Demotion(p)
      BY <1>2, <3>1, <3>2 DEF Demotion, Demotes, Roles
    <3>4. ~(Cardinality(Admins) <= 1) /\ IsFiniteSet(Admins)
      BY <1>8, <3>3 DEF AdminInv
    <3>5. Admins \ {u} # {}
      <4> SUFFICES ASSUME Admins \ {u} = {}
                   PROVE  FALSE
        OBVIOUS
      <4>1. Admins \subseteq {u} /\ IsFiniteSet({u}) /\ Cardinality({u}) = 1
        BY FS_Singleton
      <4>2. Cardinality(Admins) <= Cardinality({u})
        BY <4>1, FS_Subset
      <4> QED
        BY <3>4, <4>1, <4>2
    <3> QED
      BY <1>6, <3>5
  <2> QED
    BY <2>1, <2>2
<1>9. \A q \in Txns : req'[q] = IF q = p THEN Idle ELSE req[q]
  BY <1>2 DEF IInv
<1>10. req[p].op \in Admin
  BY DEF AdminCommit
<1>11. ASSUME ~operators, NEW q \in Txns
      PROVE  req'[q].op \notin Admin
  BY <1>9, <1>10, <1>11, IdleIsNoAdmin DEF AdminInv
<1>12. ~operators => \A q \in Txns : ~Demotion(q)'
  BY <1>11 DEF Demotion, Admin
<1> QED
  BY <1>2, <1>7, <1>8, <1>11, <1>12 DEF AdminInv

LEMMA NextKeepsAdmins ==
    ASSUME IInv, AdminInv, [Next]_vars
    PROVE  AdminInv'
<1>1. CASE UNCHANGED vars
  BY <1>1 DEF vars, AdminInv, Admins, Demotion
<1>2. ASSUME NEW p \in Txns, Arrive(p)
      PROVE  AdminInv'
  <2>1. ASSUME NEW r, Begin(p, r), r.op # "set_role"
        PROVE  AdminInv'
    BY <2>1, ArrivalKeepsAdmins
  <2>2. ASSUME NEW op \in Admin, NEW actor \in Users, NEW u \in Users, NEW v \in Values,
               AdminRead(p, op, actor, u, v)
        PROVE  AdminInv'
    <3> DEFINE r == [Idle EXCEPT !.op = op, !.user = u, !.value = v,
                                 !.pc = IF actor = u THEN "loaded" ELSE "authorized",
                                 !.seen = IF actor = u THEN Column(op, users[u]) ELSE "false"]
    <3>1. Begin(p, r) /\ r.pc # "ready"
      BY <2>2 DEF AdminRead, Idle
    <3> QED
      BY <3>1, ArrivalKeepsAdmins
  <2>3. ASSUME NEW u \in Users, NEW l \in Links, RegisterRead(p, u, l)
        PROVE  AdminInv'
    BY <2>1, <2>3 DEF RegisterRead, Idle
  <2>4. ASSUME NEW u \in Users, NEW v \in {"true", "false"}, GoogleRead(p, u, v)
        PROVE  AdminInv'
    BY <2>1, <2>4 DEF GoogleRead, Idle
  <2>5. ASSUME NEW u \in Users, NEW k \in Kinds, NEW l \in Links, IssueRead(p, u, k, l)
        PROVE  AdminInv'
    BY <2>1, <2>5 DEF IssueRead, Idle
  <2>6. ASSUME NEW l \in Links, RedeemRead(p, l)
        PROVE  AdminInv'
    BY <2>1, <2>6 DEF RedeemRead, Idle
  <2> QED
    BY <1>2, <2>2, <2>3, <2>4, <2>5, <2>6 DEF Arrive
<1>3. ASSUME NEW p \in Txns, Work(p) \/ Rollback(p)
      PROVE  AdminInv'
  BY <1>3, InsideKeepsAdmins, CommitKeepsAdmins, AdminCommitKeepsAdmins DEF Work
<1>4. ASSUME NEW l \in Links, Expire(l)
      PROVE  AdminInv'
  BY <1>4 DEF Expire, AdminInv, Admins, Demotion
<1> QED
  BY <1>1, <1>2, <1>3, <1>4 DEF Next

\* While operators work one at a time there is an administrator: set_role counts before it
\* demotes, and nothing that users do in between can make the count untrue.
THEOREM AnAdminStays == Spec => []AnAdminRemains
<1>1. Init => AdminInv
  <2> SUFFICES ASSUME Init PROVE AdminInv
    OBVIOUS
  <2>1. Admins = {Operator}
    BY OperatorIsUser DEF Init, Admins, NoAccount
  <2>2. \A p \in Txns : req[p] = Idle
    BY DEF Init
  <2> QED
    BY <2>1, <2>2, IdleIsNoAdmin, FS_Singleton DEF AdminInv, Demotion
<1>2. IInv /\ AdminInv /\ [Next]_vars => AdminInv'
  BY NextKeepsAdmins
<1>3. AdminInv => AnAdminRemains
  BY DEF AdminInv, AnAdminRemains
<1> QED
  BY <1>1, <1>2, <1>3, AccountsInvariant, PTL DEF Spec

-----------------------------------------------------------------------------
(* Links.                                                                  *)

\* The links a request has found and may write to.
Found(r) == r.burn \cup (IF r.op = "redeem" THEN {r.link} ELSE {})

\* What holds of every request, whatever it overlaps: nobody else has its new link, and the
\* links it found are of its account.
Bound(r) ==
    /\ r.pc = "idle" => r.user = NoUser
    /\ r.new \in Links => ~links[r.new].issued
    /\ r.op = "issue" => users[r.user].exists
    /\ \A l \in Found(r) : links[l].issued /\ links[l].user = r.user

\* What a request knows of an account no other request worked on: the links it replaces are
\* all there are, and the one it redeems has not been used since it was looked up.
Faithful(r) ==
    /\ r.op = "issue" /\ r.pc = "ready" => LiveOf(r.user, r.kind) \subseteq r.burn
    /\ r.op = "redeem" => Live(r.link)

LinksInv ==
    /\ \A p \in Txns : Bound(req[p])
    /\ \A p, q \in Txns : req[p].new \in Links /\ req[q].new = req[p].new => p = q
    /\ \A l \in Links : links[l].issued => users[links[l].user].exists
    /\ \A u \in Users \ overlapping : \A p, q \in Txns : req[p].user = u /\ req[q].user = u => p = q
    /\ \A p \in Txns : req[p].user \in Users \ overlapping => Faithful(req[p])
    /\ NewestLinkOnly

LEMMA IdleIsBound ==
    /\ Idle.user \notin Users /\ Idle.new \notin Links /\ Bound(Idle)
BY NoUserIsNoAddress, NoLinkIsNoId DEF Idle, Bound, Found

LEMMA InitLinks == Init => LinksInv
<1> SUFFICES ASSUME Init PROVE LinksInv
  OBVIOUS
<1>1. \A l \in Links : ~links[l].issued
  BY DEF Init, NoRow
<1>2. \A p \in Txns : req[p] = Idle
  BY DEF Init
<1>3. NewestLinkOnly
  BY <1>1 DEF NewestLinkOnly, LiveOf, Live
<1> QED
  BY <1>1, <1>2, <1>3, IdleIsBound DEF LinksInv

LEMMA BeginKeepsLinks ==
    ASSUME IInv, LinksInv, NEW p \in Txns, NEW r, Begin(p, r), r.user \in Users,
           r.new \in Links => r.new \in Unused, Bound(r), Faithful(r)
    PROVE  LinksInv'
<1>1. /\ \A q \in Txns : req'[q] = IF q = p THEN r ELSE req[q]
      /\ UNCHANGED <<users, links>> /\ overlapping \subseteq overlapping'
  BY DEF Begin, IInv
<1>2. \A q \in Txns : Bound(req[q])'
  BY <1>1 DEF LinksInv, Bound
<1>3. \A o, q \in Txns : req'[o].new \in Links /\ req'[q].new = req'[o].new => o = q
  BY <1>1 DEF LinksInv, Unused
<1>4. ASSUME NEW q \in Txns \ {p}, req[q].user = r.user
      PROVE  r.user \in overlapping'
  <2>1. Open(q)
    BY <1>4, NoUserIsNoAddress DEF LinksInv, Bound, Open
  <2> QED
    BY <1>4, <2>1 DEF Begin
<1>5. \A u \in Users \ overlapping' : \A o, q \in Txns : req'[o].user = u /\ req'[q].user = u => o = q
  BY <1>1, <1>4 DEF LinksInv
<1>6. \A q \in Txns : req'[q].user \in Users \ overlapping' => Faithful(req'[q])
  BY <1>1 DEF LinksInv
<1>7. \A q \in Txns : req'[q].user \in Users \ overlapping' => Faithful(req[q])'
  BY <1>1, <1>6 DEF Faithful, Live, LiveOf
<1>8. NewestLinkOnly'
  BY <1>1 DEF LinksInv, NewestLinkOnly, LiveOf, Live
<1> QED
  BY <1>1, <1>2, <1>3, <1>5, <1>7, <1>8 DEF LinksInv

LEMMA AdvanceKeepsLinks ==
    ASSUME IInv, LinksInv, NEW p \in Txns, NEW r, Advance(p, r),
           r.user \in Users => r.user = req[p].user,
           r.new \in Links => r.new = req[p].new,
           Bound(r), Faithful(r) \/ r.user \notin Users
    PROVE  LinksInv'
<1>1. /\ \A q \in Txns : req'[q] = IF q = p THEN r ELSE req[q]
      /\ UNCHANGED <<users, links, overlapping>>
  BY DEF Advance, IInv
<1>2. \A q \in Txns : Bound(req[q])'
  BY <1>1 DEF LinksInv, Bound
<1>3. \A o, q \in Txns : req'[o].new \in Links /\ req'[q].new = req'[o].new => o = q
  BY <1>1 DEF LinksInv
<1>4. \A u \in Users \ overlapping : \A o, q \in Txns : req'[o].user = u /\ req'[q].user = u => o = q
  BY <1>1 DEF LinksInv
<1>5. \A q \in Txns : req'[q].user \in Users \ overlapping => Faithful(req'[q])
  BY <1>1 DEF LinksInv
<1>6. \A q \in Txns : req'[q].user \in Users \ overlapping => Faithful(req[q])'
  BY <1>1, <1>5 DEF Faithful, Live, LiveOf
<1>7. NewestLinkOnly'
  BY <1>1 DEF LinksInv, NewestLinkOnly, LiveOf, Live
<1> QED
  BY <1>1, <1>2, <1>3, <1>4, <1>6, <1>7 DEF LinksInv

\* A row of an account that a commit may have marked as used, and a row it inserts.
Marked(l, u) ==
    /\ links'[l].issued = links[l].issued
    /\ links'[l].user = links[l].user /\ links'[l].kind = links[l].kind
    /\ \/ links'[l].used = links[l].used
       \/ links[l].issued /\ links[l].user = u /\ links'[l].used

Inserted(l, p) ==
    /\ l = req[p].new
    /\ links'[l].issued /\ links'[l].user = req[p].user

\* A commit touches links of its own account only.
LEMMA CloseKeepsLinks ==
    ASSUME IInv, LinksInv, NEW p \in Txns, NEW v \in Users, req[p].user = v,
           req' = [req EXCEPT ![p] = Idle], UNCHANGED overlapping,
           \A u \in Users : users[u].exists => users'[u].exists,
           \A l \in Links : Marked(l, req[p].user) \/ (Inserted(l, p) /\ users'[req[p].user].exists),
           v \notin overlapping => \A k \in Kinds : \A l, m \in LiveOf(v, k)' : l = m
    PROVE  LinksInv'
<1>1. \A q \in Txns : req'[q] = IF q = p THEN Idle ELSE req[q]
  BY DEF IInv
<1>2. ASSUME NEW q \in Txns \ {p}
      PROVE  Bound(req[q])'
  <2>1. Bound(req[q]) /\ req'[q] = req[q] /\ ReqOK(req[q])
    BY <1>1 DEF LinksInv, IInv
  <2>2. \A l \in Found(req[q]) : l \in Links
    BY <2>1 DEF Found, ReqOK, Request
  <2>3. req[q].new \in Links => ~links'[req[q].new].issued
    <3> SUFFICES ASSUME req[q].new \in Links PROVE ~links'[req[q].new].issued
      OBVIOUS
    <3>1. ~Inserted(req[q].new, p)
      BY DEF LinksInv, Inserted
    <3> QED
      BY <2>1, <3>1 DEF Bound, Marked
  <2>4. \A l \in Found(req[q]) : links'[l].issued /\ links'[l].user = req[q].user
    <3> SUFFICES ASSUME NEW l \in Found(req[q])
                 PROVE  links'[l].issued /\ links'[l].user = req[q].user
      OBVIOUS
    <3>1. l \in Links /\ links[l].issued /\ links[l].user = req[q].user
      BY <2>1, <2>2 DEF Bound
    <3>2. ~Inserted(l, p)
      BY <3>1 DEF LinksInv, Inserted, Bound
    <3> QED
      BY <3>1, <3>2 DEF Marked
  <2>5. req[q].op = "issue" => users'[req[q].user].exists
    BY <2>1 DEF Bound, ReqOK
  <2> QED
    BY <2>1, <2>3, <2>4, <2>5 DEF Bound, Found
<1>3. \A q \in Txns : Bound(req[q])'
  <2>1. Bound(req[p])'
    BY <1>1, NoLinkIsNoId DEF Bound, Found, Idle
  <2> QED
    BY <1>2, <2>1
<1>4. \A o, q \in Txns : req'[o].new \in Links /\ req'[q].new = req'[o].new => o = q
  BY <1>1, IdleIsBound DEF LinksInv
<1>5. ASSUME NEW l \in Links, links'[l].issued
      PROVE  users'[links'[l].user].exists
  <2>1. CASE Marked(l, req[p].user)
    BY <1>5, <2>1 DEF LinksInv, Marked, IInv, LinkOK
  <2>2. CASE Inserted(l, p) /\ users'[req[p].user].exists
    BY <2>2 DEF Inserted
  <2> QED
    BY <2>1, <2>2
<1>6. \A u \in Users \ overlapping : \A o, q \in Txns : req'[o].user = u /\ req'[q].user = u => o = q
  BY <1>1, IdleIsBound DEF LinksInv
<1>7. \A u \in Users \ {req[p].user}, k \in Kinds : LiveOf(u, k)' = LiveOf(u, k)
  <2> SUFFICES ASSUME NEW u \in Users \ {req[p].user}, NEW k \in Kinds, NEW l \in Links
               PROVE  l \in LiveOf(u, k)' <=> l \in LiveOf(u, k)
    BY DEF LiveOf
  <2>1. CASE Marked(l, req[p].user)
    BY <2>1 DEF Marked, LiveOf, Live
  <2>2. CASE Inserted(l, p)
    BY <2>2 DEF Inserted, LiveOf, Live, LinksInv, Bound
  <2> QED
    BY <2>1, <2>2
<1>8. NewestLinkOnly'
  <2> SUFFICES ASSUME NEW u \in Users \ overlapping, NEW k \in Kinds
               PROVE  \A l, m \in LiveOf(u, k)' : l = m
    BY DEF NewestLinkOnly
  <2>1. CASE u = v
    BY <2>1
  <2>2. CASE u # v
    BY <1>7, <2>2 DEF NewestLinkOnly, LinksInv
  <2> QED
    BY <2>1, <2>2
<1>9. ASSUME NEW q \in Txns, req'[q].user \in Users \ overlapping
      PROVE  Faithful(req[q])'
  <2>1. q # p /\ req'[q] = req[q] /\ req[q].user # req[p].user /\ Faithful(req[q])
    BY <1>1, <1>9, IdleIsBound DEF LinksInv
  <2>2. req[q].kind \in Kinds /\ ReqOK(req[q]) /\ Bound(req[q])
    BY DEF IInv, Request, LinksInv
  <2>3. req[q].op = "redeem" => Live(req[q].link)'
    <3> SUFFICES ASSUME req[q].op = "redeem" PROVE Live(req[q].link)'
      OBVIOUS
    <3>1. /\ req[q].link \in Links /\ Live(req[q].link)
          /\ links[req[q].link].user = req[q].user
      BY <2>1, <2>2 DEF ReqOK, Bound, Found, Faithful
    <3>2. ~Inserted(req[q].link, p)
      BY <3>1 DEF Inserted, LinksInv, Bound, Live
    <3> QED
      BY <2>1, <3>1, <3>2 DEF Marked, Live
  <2>4. LiveOf(req[q].user, req[q].kind)' = LiveOf(req[q].user, req[q].kind)
    BY <1>7, <1>9, <2>1, <2>2 DEF LiveOf, Live
  <2> QED
    BY <2>1, <2>3, <2>4 DEF Faithful
<1> QED
  BY <1>3, <1>4, <1>5, <1>6, <1>8, <1>9 DEF LinksInv

\* An existing link that a commit only marks, or leaves alone, is counted where it was.
LEMMA MarkedStaysLive ==
    ASSUME NEW l \in Links, NEW u, NEW v \in Users, NEW k \in Kinds, Marked(l, u), l \in LiveOf(v, k)'
    PROVE  l \in LiveOf(v, k)
BY DEF Marked, LiveOf, Live

LEMMA ArriveKeepsLinks ==
    ASSUME IInv, LinksInv, NEW p \in Txns, Arrive(p)
    PROVE  LinksInv'
<1>1. ASSUME NEW u \in Users, NEW l \in Links, RegisterRead(p, u, l)
      PROVE  LinksInv'
  <2> DEFINE r == [Idle EXCEPT !.op = "register", !.pc = "absent", !.user = u, !.new = l]
  <2>1. Begin(p, r) /\ l \in Unused
    BY <1>1 DEF RegisterRead
  <2>2. r.user = u /\ r.new = l /\ r.op = "register" /\ r.pc = "absent" /\ r.burn = {}
    BY DEF Idle
  <2> HIDE DEF r
  <2> QED
    BY <2>1, <2>2, BeginKeepsLinks DEF Bound, Faithful, Found, Unused
<1>2. ASSUME NEW u \in Users, NEW w \in {"true", "false"}, GoogleRead(p, u, w)
      PROVE  LinksInv'
  <2> DEFINE r == [Idle EXCEPT !.op = "google", !.user = u, !.value = w,
                               !.pc = IF users[u].exists THEN "ready" ELSE "absent"]
  <2>1. Begin(p, r)
    BY <1>2 DEF GoogleRead
  <2>2. r.user = u /\ r.new = NoLink /\ r.op = "google" /\ r.pc # "idle" /\ r.burn = {}
    BY DEF Idle
  <2> HIDE DEF r
  <2> QED
    BY <2>1, <2>2, NoLinkIsNoId, BeginKeepsLinks DEF Bound, Faithful, Found
<1>3. ASSUME NEW u \in Users, NEW k \in Kinds, NEW l \in Links, IssueRead(p, u, k, l)
      PROVE  LinksInv'
  <2> DEFINE r == [Idle EXCEPT !.op = "issue", !.pc = "authorized", !.user = u, !.kind = k, !.new = l]
  <2>1. Begin(p, r) /\ l \in Unused /\ users[u].exists
    BY <1>3 DEF IssueRead, MayAsk
  <2>2. r.user = u /\ r.new = l /\ r.op = "issue" /\ r.pc = "authorized" /\ r.burn = {}
    BY DEF Idle
  <2> HIDE DEF r
  <2> QED
    BY <2>1, <2>2, BeginKeepsLinks DEF Bound, Faithful, Found, Unused
<1>4. ASSUME NEW l \in Links, RedeemRead(p, l)
      PROVE  LinksInv'
  <2> DEFINE r == [Idle EXCEPT !.op = "redeem", !.pc = "ready", !.user = links[l].user,
                               !.kind = links[l].kind, !.link = l]
  <2>1. Begin(p, r) /\ Live(l)
    BY <1>4 DEF RedeemRead
  <2>2. links[l].user \in Users /\ links[l].issued
    BY <2>1 DEF Live, IInv, LinkOK
  <2>3. /\ r.user = links[l].user /\ r.new = NoLink /\ r.op = "redeem" /\ r.pc = "ready"
        /\ r.burn = {} /\ r.link = l
    BY DEF Idle
  <2> HIDE DEF r
  <2> QED
    BY <2>1, <2>2, <2>3, NoLinkIsNoId, BeginKeepsLinks DEF Bound, Faithful, Found
<1>5. ASSUME NEW op \in Admin, NEW actor \in Users, NEW u \in Users, NEW w \in Values,
             AdminRead(p, op, actor, u, w)
      PROVE  LinksInv'
  <2> DEFINE r == [Idle EXCEPT !.op = op, !.user = u, !.value = w,
                               !.pc = IF actor = u THEN "loaded" ELSE "authorized",
                               !.seen = IF actor = u THEN Column(op, users[u]) ELSE "false"]
  <2>1. Begin(p, r)
    BY <1>5 DEF AdminRead
  <2>2. r.user = u /\ r.new = NoLink /\ r.op \in Admin /\ r.pc # "idle" /\ r.burn = {}
    BY DEF Idle
  <2> HIDE DEF r
  <2> QED
    BY <2>1, <2>2, NoLinkIsNoId, BeginKeepsLinks DEF Bound, Faithful, Found, Admin
<1> QED
  BY <1>1, <1>2, <1>3, <1>4, <1>5 DEF Arrive

LEMMA InsideKeepsLinks ==
    ASSUME IInv, LinksInv, NEW p \in Txns,
           InsertUser(p) \/ IssueBurn(p) \/ LoadTarget(p) \/ CountAdmins(p) \/ Rollback(p)
    PROVE  LinksInv'
<1>0. req[p] \in Request /\ ReqOK(req[p]) /\ Bound(req[p])
  BY DEF IInv, LinksInv
<1>1. ASSUME Advance(p, Idle) PROVE LinksInv'
  BY <1>1, IdleIsBound, AdvanceKeepsLinks
<1>2. ASSUME NEW r, Advance(p, r), req[p].op \notin {"issue", "redeem"},
             r.op = req[p].op, r.pc # "idle", r.user = req[p].user, r.new = req[p].new,
             r.burn = req[p].burn
      PROVE  LinksInv'
  <2>1. Bound(r)
    BY <1>0, <1>2 DEF Bound, Found
  <2>2. Faithful(r)
    BY <1>2 DEF Faithful
  <2> QED
    BY <1>2, <2>1, <2>2, AdvanceKeepsLinks
<1>3. CASE InsertUser(p)
  <2> DEFINE r == [req[p] EXCEPT !.pc = "inserted"]
  <2>1. Advance(p, Idle) \/ Advance(p, r)
    BY <1>3 DEF InsertUser
  <2>2. req[p].op \notin {"issue", "redeem"}
    BY <1>0, <1>3 DEF InsertUser, ReqOK
  <2>3. /\ r.op = req[p].op /\ r.pc = "inserted" /\ r.user = req[p].user /\ r.new = req[p].new
        /\ r.burn = req[p].burn
    BY <1>0 DEF Request
  <2> QED
    BY <1>1, <1>2, <2>1, <2>2, <2>3
<1>4. CASE IssueBurn(p)
  <2> DEFINE r == [req[p] EXCEPT !.pc = "ready", !.burn = LiveOf(req[p].user, req[p].kind)]
  <2>1. Advance(p, r) /\ req[p].op = "issue"
    BY <1>4 DEF IssueBurn
  <2>2. /\ r.op = "issue" /\ r.pc = "ready" /\ r.user = req[p].user /\ r.kind = req[p].kind
        /\ r.new = req[p].new /\ r.burn = LiveOf(req[p].user, req[p].kind)
    BY <1>0, <2>1 DEF Request
  <2>3. \A l \in LiveOf(req[p].user, req[p].kind) : links[l].issued /\ links[l].user = req[p].user
    BY DEF LiveOf, Live
  <2> HIDE DEF r
  <2>4. Bound(r)
    BY <1>0, <2>1, <2>2, <2>3 DEF Bound, Found
  <2>5. Faithful(r)
    BY <2>2 DEF Faithful
  <2> QED
    BY <2>1, <2>2, <2>4, <2>5, AdvanceKeepsLinks
<1>5. CASE LoadTarget(p)
  <2> DEFINE r == [req[p] EXCEPT !.pc = "loaded", !.seen = Column(req[p].op, users[req[p].user])]
  <2>1. Advance(p, Idle) \/ Advance(p, r)
    BY <1>5 DEF LoadTarget
  <2>2. req[p].op \notin {"issue", "redeem"}
    BY <1>5 DEF LoadTarget, Admin
  <2>3. /\ r.op = req[p].op /\ r.pc = "loaded" /\ r.user = req[p].user /\ r.new = req[p].new
        /\ r.burn = req[p].burn
    BY <1>0 DEF Request
  <2> QED
    BY <1>1, <1>2, <2>1, <2>2, <2>3
<1>6. CASE CountAdmins(p)
  <2> DEFINE r == [req[p] EXCEPT !.pc = "ready"]
  <2>1. Advance(p, Idle) \/ Advance(p, r)
    BY <1>6 DEF CountAdmins
  <2>2. req[p].op \notin {"issue", "redeem"}
    BY <1>6 DEF CountAdmins, Demotes
  <2>3. /\ r.op = req[p].op /\ r.pc = "ready" /\ r.user = req[p].user /\ r.new = req[p].new
        /\ r.burn = req[p].burn
    BY <1>0 DEF Request
  <2> QED
    BY <1>1, <1>2, <2>1, <2>2, <2>3
<1>7. CASE Rollback(p)
  BY <1>1, <1>7 DEF Rollback
<1> QED
  BY <1>3, <1>4, <1>5, <1>6, <1>7

\* What the action property says of one link.
Spends(l) == links'[l].spent > links[l].spent => Live(l) \/ links[l].user \in overlapping

LEMMA CommitKeepsLinks ==
    ASSUME IInv, LinksInv, NEW p \in Txns, NEW v \in Users, req[p].user = v,
           RegisterCommit(p) \/ GoogleCommit(p) \/ IssueCommit(p) \/ RedeemCommit(p) \/ AdminCommit(p)
    PROVE  LinksInv' /\ \A l \in Links : Spends(l)
<1>0. /\ ReqOK(req[p]) /\ Bound(req[p]) /\ v \in Users /\ req[p].kind \in Kinds
      /\ links \in [Links -> Link]
      /\ v \notin overlapping => Faithful(req[p])
  BY DEF IInv, LinksInv, ReqOK, Request, RegisterCommit, GoogleCommit, IssueCommit, RedeemCommit,
         AdminCommit
<1>1. \A u \in Users : Kept(u)
  BY RegisterCommitKeeps, GoogleCommitKeeps, IssueCommitKeeps, RedeemCommitKeeps, AdminCommitKeeps
<1>2. /\ req' = [req EXCEPT ![p] = Idle] /\ UNCHANGED overlapping
      /\ \A u \in Users : users[u].exists => users'[u].exists
  BY <1>1 DEF RegisterCommit, GoogleCommit, IssueCommit, RedeemCommit, AdminCommit, Close, Kept
<1>3. ASSUME \A l \in Links : Marked(l, v) \/ (Inserted(l, p) /\ users'[v].exists),
             v \notin overlapping => \A k \in Kinds : \A l, m \in LiveOf(v, k)' : l = m
      PROVE  LinksInv'
  BY <1>0, <1>2, <1>3, CloseKeepsLinks
<1>4. CASE GoogleCommit(p) \/ AdminCommit(p)
  <2>1. UNCHANGED links
    BY <1>4 DEF GoogleCommit, AdminCommit
  <2>2. \A l \in Links : Marked(l, v) /\ Spends(l)
    BY <1>0, <2>1 DEF Marked, Spends, Link
  <2>3. v \notin overlapping => \A k \in Kinds : \A l, m \in LiveOf(v, k)' : l = m
    BY <1>0, <2>2, MarkedStaysLive DEF LinksInv, NewestLinkOnly, LiveOf
  <2> QED
    BY <1>3, <2>2, <2>3
<1>5. CASE RegisterCommit(p)
  <2> DEFINE n == req[p].new
  <2>1. /\ n \in Links /\ ~users[v].exists /\ ~links[n].issued
        /\ links' = [links EXCEPT ![n] = Issued(n, v, "verify")]
    BY <1>0, <1>5 DEF RegisterCommit, ReqOK, Bound
  <2>2. users'[v].exists
    <3> DEFINE a == [NoAccount EXCEPT !.exists = TRUE, !.password = TRUE, !.active = TRUE]
    <3>1. users' = [users EXCEPT ![v] = a] /\ a.exists
      BY <1>5 DEF RegisterCommit, NoAccount
    <3> HIDE DEF a
    <3> QED
      BY <1>0, <3>1 DEF IInv
  <2>3. /\ Issued(n, v, "verify").issued /\ Issued(n, v, "verify").user = v
        /\ Issued(n, v, "verify").spent = 0
    BY DEF Issued, NoRow
  <2> HIDE DEF n
  <2>4. /\ links'[n].issued /\ links'[n].user = v /\ links'[n].spent = 0
        /\ \A l \in Links \ {n} : links'[l] = links[l]
    BY <1>0, <2>1, <2>3
  <2>5. \A l \in Links : Marked(l, v) \/ (Inserted(l, p) /\ users'[v].exists)
    BY <2>2, <2>4 DEF Marked, Inserted, n
  <2>6. \A l \in Links : Spends(l)
    BY <1>0, <2>1, <2>4 DEF Spends, Link
  <2>7. ASSUME NEW k \in Kinds, NEW l \in LiveOf(v, k)'
        PROVE  l = n
    <3>1. l \in Links /\ links'[l].issued /\ links'[l].user = v
      BY <2>7 DEF LiveOf, Live
    <3>2. l # n => links[l].issued /\ links[l].user = v
      BY <2>4, <3>1
    <3> QED
      BY <2>1, <3>1, <3>2 DEF LinksInv
  <2> QED
    BY <1>3, <2>5, <2>6, <2>7
<1>6. CASE IssueCommit(p)
  <2> DEFINE n == req[p].new
             k0 == req[p].kind
  <2>1. /\ n \in Links /\ users[v].exists /\ ~links[n].issued /\ req[p].op = "issue" /\ req[p].pc = "ready"
        /\ \A l \in Links : links'[l] = IF l = n THEN Issued(l, v, k0)
                                        ELSE IF l \in req[p].burn THEN [links[l] EXCEPT !.used = TRUE]
                                        ELSE links[l]
        /\ \A l \in req[p].burn : links[l].issued /\ links[l].user = v
    BY <1>0, <1>6 DEF IssueCommit, ReqOK, Bound, Found
  <2>2. \A l : /\ Issued(l, v, k0).issued /\ Issued(l, v, k0).user = v /\ Issued(l, v, k0).spent = 0
               /\ Issued(l, v, k0).kind = k0
    BY DEF Issued, NoRow
  <2> HIDE DEF n, k0
  <2>3. /\ links'[n].issued /\ links'[n].user = v /\ links'[n].kind = k0 /\ links'[n].spent = 0
        /\ \A l \in Links \ {n} : Marked(l, v) /\ links'[l].spent = links[l].spent
    <3>1. ASSUME NEW l \in Links \ {n}
          PROVE  Marked(l, v) /\ links'[l].spent = links[l].spent
      <4>1. links[l] \in Link
        BY <1>0
      <4>2. CASE l \in req[p].burn
        <5>1. links'[l] = [links[l] EXCEPT !.used = TRUE]
          BY <2>1, <4>2
        <5> QED
          BY <2>1, <4>1, <4>2, <5>1 DEF Link, Marked
      <4>3. CASE l \notin req[p].burn
        BY <2>1, <4>3 DEF Marked
      <4> QED
        BY <4>2, <4>3
    <3> QED
      BY <2>1, <2>2, <3>1
  <2>4. \A l \in Links : Marked(l, v) \/ (Inserted(l, p) /\ users'[v].exists)
    BY <1>0, <1>2, <2>1, <2>3 DEF Inserted, n
  <2>5. \A l \in Links : Spends(l)
    BY <1>0, <2>1, <2>3 DEF Spends, Link
  <2>6. ASSUME v \notin overlapping, NEW k \in Kinds, NEW l \in LiveOf(v, k)', NEW m \in LiveOf(v, k)'
        PROVE  l = m
    <3>1. ASSUME NEW i \in LiveOf(v, k)', i # n
          PROVE  i \in LiveOf(v, k) /\ k # k0
      <4>1. i \in Links /\ i \in LiveOf(v, k)
        BY <1>0, <2>3, <3>1, MarkedStaysLive DEF LiveOf
      <4>2. k = k0 => i \in req[p].burn
        BY <1>0, <2>1, <2>6, <4>1 DEF Faithful, k0
      <4>3. i \in req[p].burn => links'[i].used
        <5> SUFFICES ASSUME i \in req[p].burn PROVE links'[i].used
          OBVIOUS
        <5>1. links'[i] = [links[i] EXCEPT !.used = TRUE] /\ links[i] \in Link
          BY <1>0, <2>1, <3>1, <4>1
        <5> QED
          BY <5>1 DEF Link
      <4> QED
        BY <3>1, <4>1, <4>2, <4>3 DEF LiveOf, Live
    <3>2. n \in LiveOf(v, k)' => k = k0
      BY <2>3 DEF LiveOf
    <3>3. \A i, j \in LiveOf(v, k) : i = j
      BY <1>0, <2>6 DEF LinksInv, NewestLinkOnly
    <3> QED
      BY <2>6, <3>1, <3>2, <3>3
  <2> QED
    BY <1>3, <2>4, <2>5, <2>6
<1>7. CASE RedeemCommit(p)
  <2> DEFINE n == req[p].link
  <2>1. /\ n \in Links /\ links[n] \in Link /\ links[n].issued /\ links[n].user = v
        /\ v \notin overlapping => Live(n)
        /\ links' = [links EXCEPT ![n] = [links[n] EXCEPT !.used = TRUE, !.spent = @ + 1]]
    BY <1>0, <1>7 DEF RedeemCommit, ReqOK, Bound, Found, Faithful
  <2> HIDE DEF n
  <2>2. /\ links'[n] = [links[n] EXCEPT !.used = TRUE, !.spent = @ + 1]
        /\ \A l \in Links \ {n} : links'[l] = links[l]
    BY <1>0, <2>1
  <2>3. Marked(n, v)
    <3>1. /\ links'[n].issued = links[n].issued /\ links'[n].user = links[n].user
          /\ links'[n].kind = links[n].kind /\ links'[n].used
      <4> DEFINE a == links[n]
      <4>1. a \in Link /\ links'[n] = [a EXCEPT !.used = TRUE, !.spent = @ + 1]
        BY <2>1, <2>2
      <4> HIDE DEF a
      <4>2. /\ links'[n].issued = a.issued /\ links'[n].user = a.user
            /\ links'[n].kind = a.kind /\ links'[n].used
        BY <4>1 DEF Link
      <4> QED
        BY <4>2 DEF a
    <3> QED
      BY <2>1, <3>1 DEF Marked
  <2>4. \A l \in Links : Marked(l, v)
    BY <2>2, <2>3 DEF Marked
  <2>5. \A l \in Links : Spends(l)
    BY <1>0, <2>1, <2>2 DEF Spends, Link
  <2>6. v \notin overlapping => \A k \in Kinds : \A l, m \in LiveOf(v, k)' : l = m
    BY <1>0, <2>4, MarkedStaysLive DEF LinksInv, NewestLinkOnly, LiveOf
  <2> QED
    BY <1>3, <2>4, <2>5, <2>6
<1> QED
  BY <1>4, <1>5, <1>6, <1>7

LEMMA NextKeepsLinks ==
    ASSUME IInv, LinksInv, [Next]_vars
    PROVE  LinksInv' /\ [\A l \in Links : Spends(l)]_vars
<1>1. ASSUME UNCHANGED links PROVE \A l \in Links : Spends(l)
  BY <1>1 DEF Spends, IInv, Link
<1>2. CASE UNCHANGED vars
  BY <1>2 DEF vars, LinksInv, Bound, Faithful, Found, NewestLinkOnly, LiveOf, Live
<1>3. ASSUME NEW p \in Txns, Arrive(p)
      PROVE  LinksInv' /\ \A l \in Links : Spends(l)
  <2>1. \E r : Begin(p, r)
    BY <1>3, Zenon DEF Arrive, RegisterRead, GoogleRead, IssueRead, RedeemRead, AdminRead
  <2>2. UNCHANGED links
    BY <2>1 DEF Begin
  <2> QED
    BY <1>1, <1>3, <2>2, ArriveKeepsLinks
<1>4. ASSUME NEW p \in Txns,
             InsertUser(p) \/ IssueBurn(p) \/ LoadTarget(p) \/ CountAdmins(p) \/ Rollback(p)
      PROVE  LinksInv' /\ \A l \in Links : Spends(l)
  <2>1. UNCHANGED links
    BY <1>4 DEF InsertUser, IssueBurn, LoadTarget, CountAdmins, Rollback, Advance
  <2> QED
    BY <1>1, <1>4, <2>1, InsideKeepsLinks
<1>5. ASSUME NEW l \in Links, Expire(l)
      PROVE  LinksInv' /\ \A m \in Links : Spends(m)
  <2>1. UNCHANGED <<users, req, overlapping>> /\ links' = [links EXCEPT ![l].expired = TRUE]
    BY <1>5 DEF Expire
  <2>2. \A m \in Links : /\ links'[m].issued = links[m].issued /\ links'[m].user = links[m].user
                         /\ links'[m].kind = links[m].kind /\ links'[m].used = links[m].used
                         /\ links'[m].spent = links[m].spent /\ links[m].spent \in Nat
    BY <2>1 DEF IInv, Link
  <2>3. \A m \in Links : Live(m)' = Live(m)
    BY <2>2 DEF Live
  <2>4. \A u, k : LiveOf(u, k)' = LiveOf(u, k)
    BY <2>2, <2>3 DEF LiveOf
  <2>5. \A p \in Txns : req[p].op = "redeem" => req[p].link \in Links
    BY DEF IInv, ReqOK
  <2>6. \A p \in Txns : \A m \in Found(req[p]) : m \in Links
    BY <2>5 DEF IInv, Found, Request
  <2>7. \A p \in Txns : Bound(req[p])'
    BY <2>1, <2>2, <2>6 DEF LinksInv, Bound, Found
  <2>8. \A p \in Txns : req[p].user \in Users \ overlapping => Faithful(req[p])'
    BY <2>1, <2>3, <2>4, <2>5 DEF LinksInv, Faithful, LiveOf, Live
  <2>9. NewestLinkOnly'
    BY <2>1, <2>4 DEF LinksInv, NewestLinkOnly
  <2>10. \A m \in Links : links'[m].issued => users'[links'[m].user].exists
    BY <2>1, <2>2 DEF LinksInv
  <2>11. \A m \in Links : Spends(m)
    BY <2>2 DEF Spends
  <2> QED
    BY <2>1, <2>7, <2>8, <2>9, <2>10, <2>11 DEF LinksInv
<1>6. ASSUME NEW p \in Txns,
             RegisterCommit(p) \/ GoogleCommit(p) \/ IssueCommit(p) \/ RedeemCommit(p) \/ AdminCommit(p)
      PROVE  LinksInv' /\ \A l \in Links : Spends(l)
  <2>1. req[p].user \in Users
    BY <1>6 DEF IInv, ReqOK, RegisterCommit, GoogleCommit, IssueCommit, RedeemCommit, AdminCommit
  <2> QED
    BY <1>6, <2>1, CommitKeepsLinks
<1>7. CASE Next
  <2>1. (\E p \in Txns : Arrive(p) \/ Work(p) \/ Rollback(p)) \/ (\E l \in Links : Expire(l))
    BY <1>7 DEF Next
  <2>2. ASSUME NEW p \in Txns, Work(p)
        PROVE  LinksInv' /\ \A l \in Links : Spends(l)
    BY <1>4, <1>6, <2>2 DEF Work
  <2> QED
    BY <1>3, <1>4, <1>5, <2>1, <2>2
<1> QED
  BY <1>2, <1>7

\* An account whose requests never overlapped has at most one usable link of each kind,
\* however many are asked for, redeemed and rolled back (auth.py:85).
THEOREM OneLinkIsActive == Spec => []NewestLinkOnly
<1>1. IInv /\ LinksInv /\ [Next]_vars => LinksInv'
  BY NextKeepsLinks
<1>2. LinksInv => NewestLinkOnly
  BY DEF LinksInv
<1> QED
  BY <1>1, <1>2, InitLinks, AccountsInvariant, PTL DEF Spec

\* A link that was used or replaced is redeemed no more, unless requests of its account
\* overlapped (verify_email, reset_password).
THEOREM SpentLinksStand == Spec => SpentLinksStaySpent
<1>1. IInv /\ LinksInv /\ [Next]_vars => LinksInv'
  BY NextKeepsLinks
<1>2. IInv /\ LinksInv /\ [Next]_vars =>
      [\A l \in Links : links'[l].spent > links[l].spent => Live(l) \/ links[l].user \in overlapping]_vars
  BY NextKeepsLinks DEF Spends
<1> QED
  BY <1>1, <1>2, InitLinks, AccountsInvariant, PTL DEF Spec, SpentLinksStaySpent
=============================================================================
