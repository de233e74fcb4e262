------------------------------ MODULE Accounts ------------------------------
(***************************************************************************)
(* Accounts: registration, e-mailed links, Google sign-in and the account  *)
(* half of AuthService.reset_password (services/auth.py), and the          *)
(* operator's actions (services/admin.py), over PostgreSQL at READ         *)
(* COMMITTED.                                                              *)
(*                                                                         *)
(* A request is a transaction slot of Txns that reads, decides and commits *)
(* in separate steps.  An account is named by its address, and a Google    *)
(* identity by the address it presents.  Sessions are RefreshTokens' part. *)
(***************************************************************************)
EXTENDS FiniteSets, Integers

CONSTANTS
    Users,     \* addresses
    Operator,  \* the account scripts/promote_admin.py made an administrator
    Links,     \* ids of e-mailed links; a bound on how many are ever issued
    Txns,      \* transactions that may be open at the same time
    NoUser,
    NoLink,
    MaxExpired \* bound: links whose lifetime ends within the behaviour

ASSUME OperatorIsUser == Operator \in Users
ASSUME NoUserIsNoAddress == NoUser \notin Users
ASSUME NoLinkIsNoId == NoLink \notin Links
ASSUME MaxExpiredIsNat == MaxExpired \in Nat

VARIABLES
    users,       \* committed rows of users
    links,       \* committed rows of both link tables
    req,         \* what each open transaction has read and will write
    overlapping, \* history: accounts two open requests worked on at once
    operators    \* history: two administrative requests were open at once

vars == <<users, links, req, overlapping, operators>>

Roles == {"seeker", "admin"}
Kinds == {"verify", "reset"}
Admin == {"set_role", "set_active", "vouch"}
Values == Roles \cup {"true", "false"}
Ops == {"register", "google", "issue", "redeem"} \cup Admin

Account == [exists : BOOLEAN, password : BOOLEAN, google : BOOLEAN, verified : BOOLEAN,
            role : Roles, active : BOOLEAN]

NoAccount == [exists |-> FALSE, password |-> FALSE, google |-> FALSE, verified |-> FALSE,
              role |-> "seeker", active |-> FALSE]

\* used: used_at is set; spent is history: how often the link was redeemed.
Link == [issued : BOOLEAN, kind : Kinds, user : Users \cup {NoUser}, used : BOOLEAN,
         expired : BOOLEAN, spent : Nat]

NoRow == [issued |-> FALSE, kind |-> "verify", user |-> NoUser, used |-> FALSE,
          expired |-> FALSE, spent |-> 0]

\* burn: links a bulk UPDATE has reached; value: what a column is to become;
\* seen: the column as the operator's request read it.
Request == [op : Ops \cup {"none"},
            pc : {"idle", "authorized", "absent", "inserted", "loaded", "ready"},
            user : Users \cup {NoUser}, kind : Kinds, new : Links \cup {NoLink},
            link : Links \cup {NoLink}, burn : SUBSET Links, value : Values, seen : Values]

Idle == [op |-> "none", pc |-> "idle", user |-> NoUser, kind |-> "verify", new |-> NoLink,
         link |-> NoLink, burn |-> {}, value |-> "false", seen |-> "false"]

Open(p) == req[p].pc # "idle"
Live(l) == links[l].issued /\ ~links[l].used
Unused == {l \in Links : ~links[l].issued /\ \A p \in Txns : req[p].new # l}
LiveOf(u, k) == {l \in Links : Live(l) /\ links[l].user = u /\ links[l].kind = k}
Admins == {u \in Users : users[u].exists /\ users[u].role = "admin"}

Init ==
    /\ users = [u \in Users |->
                  IF u = Operator
                  THEN [exists |-> TRUE, password |-> TRUE, google |-> FALSE, verified |-> TRUE,
                        role |-> "admin", active |-> TRUE]
                  ELSE NoAccount]
    /\ links = [l \in Links |-> NoRow]
    /\ req = [p \in Txns |-> Idle]
    /\ overlapping = {}
    /\ operators = FALSE

-----------------------------------------------------------------------------
(* Steps of every request.                                                 *)

Begin(p, r) ==
    /\ ~Open(p)
    /\ req' = [req EXCEPT ![p] = r]
    /\ overlapping' = overlapping \cup
          {u \in {r.user} : \E q \in Txns \ {p} : Open(q) /\ req[q].user = u}
    /\ operators' = (operators \/ (r.op \in Admin /\ \E q \in Txns \ {p} : req[q].op \in Admin))
    /\ UNCHANGED <<users, links>>

Advance(p, r) ==
    /\ req' = [req EXCEPT ![p] = r]
    /\ UNCHANGED <<users, links, overlapping, operators>>

Close(p) ==
    /\ req' = [req EXCEPT ![p] = Idle]
    /\ UNCHANGED <<overlapping, operators>>

\* An exception, or a death of the process or the connection.
Rollback(p) == Open(p) /\ Advance(p, Idle)

Issued(l, u, k) == [NoRow EXCEPT !.issued = TRUE, !.kind = k, !.user = u]

-----------------------------------------------------------------------------
(* register and authenticate_with_google                                   *)

\* email_exists says no.
RegisterRead(p, u, l) ==
    /\ ~users[u].exists
    /\ l \in Unused
    /\ Begin(p, [Idle EXCEPT !.op = "register", !.pc = "absent", !.user = u, !.new = l])

\* The account is found by the identity or by its address (linking), or it is new;
\* a suspended one is refused.  verified is what the identity says of its address.
GoogleRead(p, u, verified) ==
    /\ users[u].exists => users[u].active
    /\ Begin(p, [Idle EXCEPT !.op = "google", !.user = u, !.value = verified,
                             !.pc = IF users[u].exists THEN "ready" ELSE "absent"])

\* Mutant: the address is not unique, the row is written whatever is there.
InsertUser_NotUnique(p) ==
    /\ req[p].pc = "absent"
    /\ Advance(p, [req[p] EXCEPT !.pc = "inserted"])

\* The flush that inserts the account waits for another insert of the address and
\* fails on the unique index when there is one.
InsertUser(p) ==
    LET u == req[p].user IN
    /\ req[p].pc = "absent"
    /\ \A q \in Txns : req[q].pc = "inserted" => req[q].user # u
    /\ Advance(p, IF users[u].exists THEN Idle ELSE [req[p] EXCEPT !.pc = "inserted"])

RegisterCommit(p) ==
    LET u == req[p].user IN
    /\ req[p].op = "register"
    /\ req[p].pc = "inserted"
    /\ users' = [users EXCEPT ![u] = [NoAccount EXCEPT !.exists = TRUE, !.password = TRUE,
                                                       !.active = TRUE]]
    /\ links' = [links EXCEPT ![req[p].new] = Issued(req[p].new, u, "verify")]
    /\ Close(p)

GoogleCommit(p) ==
    LET u == req[p].user
        a == IF req[p].pc = "inserted"
             THEN [NoAccount EXCEPT !.exists = TRUE, !.active = TRUE] ELSE users[u]
    IN
    /\ req[p].op = "google"
    /\ req[p].pc \in {"inserted", "ready"}
    /\ users' = [users EXCEPT ![u] = [a EXCEPT !.google = TRUE, !.verified = @ \/ req[p].value = "true"]]
    /\ Close(p)
    /\ UNCHANGED links

-----------------------------------------------------------------------------
(* Links.                                                                  *)

\* Mutant: a link is sent to accounts that have no password.
MayAsk_Anyone(u, k) == users[u].exists

\* The early returns of resend_verification and request_password_reset.
MayAsk(u, k) ==
    /\ users[u].exists
    /\ IF k = "verify" THEN ~users[u].verified ELSE users[u].password

\* invalidate_active_for_user: the UPDATE reaches the unused links committed now.
IssueRead(p, u, k, l) ==
    /\ MayAsk(u, k)
    /\ l \in Unused
    /\ Begin(p, [Idle EXCEPT !.op = "issue", !.pc = "authorized", !.user = u, !.kind = k,
                             !.new = l])

IssueBurn(p) ==
    /\ req[p].op = "issue"
    /\ req[p].pc = "authorized"
    /\ Advance(p, [req[p] EXCEPT !.pc = "ready", !.burn = LiveOf(req[p].user, req[p].kind)])

\* Mutant: older links stay active.
IssueCommit_KeepsOlder(p) ==
    /\ req[p].op = "issue"
    /\ req[p].pc = "ready"
    /\ links' = [links EXCEPT ![req[p].new] = Issued(req[p].new, req[p].user, req[p].kind)]
    /\ Close(p)
    /\ UNCHANGED users

\* Row locks order the writers of one link, and each of them sets used_at: the
\* order does not show.
IssueCommit(p) ==
    /\ req[p].op = "issue"
    /\ req[p].pc = "ready"
    /\ links' = [l \in Links |->
                    IF l = req[p].new THEN Issued(l, req[p].user, req[p].kind)
                    ELSE IF l \in req[p].burn THEN [links[l] EXCEPT !.used = TRUE]
                    ELSE links[l]]
    /\ Close(p)
    /\ UNCHANGED users

\* Mutant: used_at is not looked at.
RedeemRead_AlsoUsed(p, l) ==
    /\ links[l].issued /\ ~links[l].expired
    /\ Begin(p, [Idle EXCEPT !.op = "redeem", !.pc = "ready", !.user = links[l].user,
                             !.kind = links[l].kind, !.link = l])

\* verify_email and reset_password find the link usable.
RedeemRead(p, l) ==
    /\ Live(l) /\ ~links[l].expired
    /\ Begin(p, [Idle EXCEPT !.op = "redeem", !.pc = "ready", !.user = links[l].user,
                             !.kind = links[l].kind, !.link = l])

RedeemCommit(p) ==
    LET u == req[p].user IN
    /\ req[p].op = "redeem"
    /\ links' = [links EXCEPT ![req[p].link].used = TRUE, ![req[p].link].spent = @ + 1]
    /\ users' = IF req[p].kind = "verify" THEN [users EXCEPT ![u].verified = TRUE]
                                          ELSE [users EXCEPT ![u].password = TRUE]
    /\ Close(p)

Expire(l) ==
    /\ links[l].issued /\ ~links[l].expired
    /\ Cardinality({m \in Links : links[m].expired}) < MaxExpired
    /\ links' = [links EXCEPT ![l].expired = TRUE]
    /\ UNCHANGED <<users, req, overlapping, operators>>

-----------------------------------------------------------------------------
(* AdminService.                                                           *)

Flag(b) == IF b THEN "true" ELSE "false"

Column(op, a) ==
    CASE op = "set_role" -> a.role
      [] op = "set_active" -> Flag(a.active)
      [] op = "vouch" -> Flag(a.verified)

\* get_current_user and require_role; nobody suspends oneself.  The session hands
\* out the actor's own object again where the target is the actor.
AdminRead(p, op, actor, u, value) ==
    /\ actor \in Admins /\ users[actor].active
    /\ value \in IF op = "set_role" THEN Roles ELSE IF op = "set_active" THEN {"true", "false"} ELSE {"true"}
    /\ ~(op = "set_active" /\ actor = u /\ value = "false")
    /\ Begin(p, [Idle EXCEPT !.op = op, !.user = u, !.value = value,
                             !.pc = IF actor = u THEN "loaded" ELSE "authorized",
                             !.seen = IF actor = u THEN Column(op, users[u]) ELSE "false"])

LoadTarget(p) ==
    LET u == req[p].user IN
    /\ req[p].op \in Admin
    /\ req[p].pc = "authorized"
    /\ Advance(p, IF users[u].exists THEN [req[p] EXCEPT !.pc = "loaded",
                                                          !.seen = Column(req[p].op, users[u])]
                                     ELSE Idle)

Demotes(p) == req[p].op = "set_role" /\ req[p].seen = "admin" /\ req[p].value # "admin"

\* Mutant: the comparison lets the last one go.
CountAdmins_OffByOne(p) ==
    /\ req[p].pc = "loaded"
    /\ Demotes(p)
    /\ Advance(p, IF Cardinality(Admins) < 1 THEN Idle ELSE [req[p] EXCEPT !.pc = "ready"])

\* stats counts administrators by role, suspended ones too.
CountAdmins(p) ==
    /\ req[p].pc = "loaded"
    /\ Demotes(p)
    /\ Advance(p, IF Cardinality(Admins) <= 1 THEN Idle ELSE [req[p] EXCEPT !.pc = "ready"])

\* The session writes a column only where it differs from what was read.
Changed(p) ==
    LET a == users[req[p].user]
        v == req[p].value
    IN  IF req[p].seen = v THEN a
        ELSE CASE req[p].op = "set_role" -> [a EXCEPT !.role = v]
               [] req[p].op = "set_active" -> [a EXCEPT !.active = (v = "true")]
               [] req[p].op = "vouch" -> [a EXCEPT !.verified = TRUE]

AdminCommit(p) ==
    /\ req[p].op \in Admin
    /\ req[p].pc = IF Demotes(p) THEN "ready" ELSE "loaded"
    /\ users' = [users EXCEPT ![req[p].user] = Changed(p)]
    /\ Close(p)
    /\ UNCHANGED links

-----------------------------------------------------------------------------

Arrive(p) ==
    \/ \E u \in Users, l \in Links : RegisterRead(p, u, l)
    \/ \E u \in Users, v \in {"true", "false"} : GoogleRead(p, u, v)
    \/ \E u \in Users, k \in Kinds, l \in Links : IssueRead(p, u, k, l)
    \/ \E l \in Links : RedeemRead(p, l)
    \/ \E op \in Admin, actor, u \in Users, v \in Values : AdminRead(p, op, actor, u, v)

Work(p) ==
    \/ InsertUser(p)
    \/ RegisterCommit(p)
    \/ GoogleCommit(p)
    \/ IssueBurn(p)
    \/ IssueCommit(p)
    \/ RedeemCommit(p)
    \/ LoadTarget(p)
    \/ CountAdmins(p)
    \/ AdminCommit(p)

Next ==
    \/ \E p \in Txns : Arrive(p) \/ Work(p) \/ Rollback(p)
    \/ \E l \in Links : Expire(l)

Spec == Init /\ [][Next]_vars

-----------------------------------------------------------------------------
(* Properties.                                                             *)

\* Every variable has its type, and an account can always be signed in to.
TypeOK ==
    /\ users \in [Users -> Account]
    /\ \A u \in Users : users[u].exists => users[u].password \/ users[u].google
    /\ links \in [Links -> Link]
    /\ req \in [Txns -> Request]
    /\ overlapping \subseteq Users
    /\ operators \in BOOLEAN

\* "Only the newest link stays active" (auth.py:85): an account whose requests
\* never overlapped has at most one unused link of each kind.
NewestLinkOnly ==
    \A u \in Users \ overlapping, k \in Kinds : \A l, m \in LiveOf(u, k) : l = m

\* A link that was redeemed, or replaced by a newer one, is not redeemed any more,
\* unless the requests of its account overlapped.
SpentLinksStaySpent ==
    [][\A l \in Links :
          links'[l].spent > links[l].spent => Live(l) \/ links[l].user \in overlapping]_vars

\* No race of registrations and Google sign-ins replaces an account that exists:
\* it keeps its way to sign in, and only an operator changes its role.  An account
\* without a password gets none by a reset (request_password_reset).
AccountsAreKept ==
    [][\A u \in Users : users[u].exists =>
          /\ users'[u].password = users[u].password
          /\ users[u].google => users'[u].google
          /\ users[u].verified => users'[u].verified
          /\ users'[u].role # users[u].role =>
                \E p \in Txns : req[p].op = "set_role" /\ req[p].user = u]_vars

\* As long as operators work one at a time, there is an administrator (set_role).
AnAdminRemains == ~operators => Admins # {}
=============================================================================
