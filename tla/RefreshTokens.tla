--------------------------- MODULE RefreshTokens ---------------------------
(***************************************************************************)
(* Sessions: rotating refresh tokens with reuse detection, as implemented  *)
(* by services/auth.py (login, authenticate_with_google, refresh, logout,  *)
(* reset_password), repositories/refresh_token.py and the daily purge of   *)
(* workers/maintenance.py, over PostgreSQL at READ COMMITTED.              *)
(*                                                                         *)
(* A request is a transaction slot of Txns.  It advances one SQL statement *)
(* at a time: what an ORM object holds was true when it was read and need  *)
(* not be true when it is written back, and a bulk UPDATE sees the rows    *)
(* committed when the statement started, waits for the row locks of other  *)
(* transactions, and re-checks its WHERE clause on each row it locks.      *)
(*                                                                         *)
(* A family_id is a fresh UUID drawn by a login; the model names the       *)
(* family after the token that login issues.                               *)
(***************************************************************************)
EXTENDS FiniteSets, Integers

CONSTANTS
    Users,       \* accounts, all with a verified address
    Suspendable, \* bound: those an administrator suspends and restores meanwhile
    Tokens,      \* refresh-token ids; a bound on how many are ever issued
    Txns,        \* transactions that may be open at the same time
    NoToken,     \* SQL NULL in replaced_by_id, and "no row" in a request
    NoUser,
    MaxResets,   \* bound: password resets per account
    MaxExpired   \* bound: tokens whose lifetime ends within the behaviour

ASSUME NoTokenFresh == NoToken \notin Tokens
ASSUME NoUserFresh == NoUser \notin Users
ASSUME SuspendableAreUsers == Suspendable \subseteq Users
ASSUME BoundsAreNat == MaxResets \in Nat /\ MaxExpired \in Nat

VARIABLES
    rows,          \* committed rows of refresh_tokens
    users,         \* committed columns of users that sessions depend on
    req,           \* what each open transaction has read, locked and will write
    crossedFam,    \* history: families two open requests worked on at once
    crossedUser,   \* history: accounts two open requests worked on at once
    ended          \* history: families a committed logout or reuse detection ended

vars == <<rows, users, req, crossedFam, crossedUser, ended>>

Status == {"unissued", "live", "revoked", "purged"}
Ops == {"none", "login", "refresh", "reuse", "logout", "reset", "purge"}
Steps == {"idle", "presented", "loaded", "locking", "flushed"}

\* One row of refresh_tokens.  `epoch` is history: how many resets of the
\* account had committed when the login that started the family was checked.
Row == [status: Status, user: Users \cup {NoUser}, fam: Tokens \cup {NoToken},
        next: Tokens \cup {NoToken}, expired: BOOLEAN, epoch: Nat]

NoRow(s) == [status |-> s, user |-> NoUser, fam |-> NoToken, next |-> NoToken,
             expired |-> FALSE, epoch |-> 0]

\* pwd is the password in force (the number of the reset that set it), legacy
\* says its hash was made with cheaper Argon2 parameters than today's.
Account == [active: BOOLEAN, pwd: Nat, resets: Nat, legacy: BOOLEAN]

\* todo: rows a bulk statement still has to lock; held: rows whose lock and
\* pending write the transaction has; new: the id of the row it will insert.
Request == [op: Ops, pc: Steps, user: Users \cup {NoUser},
            fam: Tokens \cup {NoToken}, tok: Tokens \cup {NoToken},
            new: Tokens \cup {NoToken}, epoch: Nat, pwd: Nat,
            rehash: BOOLEAN, todo: SUBSET Tokens, held: SUBSET Tokens]

Idle == [op |-> "none", pc |-> "idle", user |-> NoUser, fam |-> NoToken,
         tok |-> NoToken, new |-> NoToken, epoch |-> 0, pwd |-> 0,
         rehash |-> FALSE, todo |-> {}, held |-> {}]

-----------------------------------------------------------------------------

Exists(t) == rows[t].status \in {"live", "revoked"}
IsRevoked(t) == rows[t].status = "revoked"
IsLive(t) == rows[t].status = "live"
Open(p) == req[p].pc # "idle"
Unused == {t \in Tokens : rows[t].status = "unissued" /\ \A p \in Txns : req[p].new # t}
LockedByOther(p, t) == \E q \in Txns \ {p} : t \in req[q].held
LiveIn(f) == {t \in Tokens : IsLive(t) /\ rows[t].fam = f}
LiveOf(u) == {t \in Tokens : IsLive(t) /\ rows[t].user = u}

Init ==
    /\ rows = [t \in Tokens |-> NoRow("unissued")]
    /\ users = [u \in Users |-> [active |-> TRUE, pwd |-> 0, resets |-> 0, legacy |-> TRUE]]
    /\ req = [p \in Txns |-> Idle]
    /\ crossedFam = {}
    /\ crossedUser = {}
    /\ ended = {}

-----------------------------------------------------------------------------
(* Opening a request: its first SELECT.                                    *)

Begin(p, r) ==
    /\ ~Open(p)
    /\ req' = [req EXCEPT ![p] = r]
    /\ crossedFam' = crossedFam \cup
          {f \in {r.fam} \ {NoToken} : \E q \in Txns \ {p} : Open(q) /\ req[q].fam = f}
    /\ crossedUser' = crossedUser \cup
          {u \in {r.user} \ {NoUser} : \E q \in Txns \ {p} : Open(q) /\ req[q].user = u}
    /\ UNCHANGED <<rows, users, ended>>

\* login: the password is verified against the hash just read, and the account
\* is active.  authenticate_with_google signs the same account in without a
\* password, so it never rehashes one.  Refusals write nothing.
LoginRead(p, u, s, rehash) ==
    /\ users[u].active
    /\ s \in Unused
    /\ rehash => users[u].legacy
    /\ Begin(p, [Idle EXCEPT !.op = "login", !.pc = "loaded", !.user = u, !.fam = s,
                             !.new = s, !.epoch = users[u].resets, !.rehash = rehash,
                             !.pwd = IF rehash THEN users[u].pwd ELSE 0])

\* Mutant: the revoked check is missing, a spent token rotates again.
RefreshRead_NoRevokedCheck(p, t, s) ==
    /\ Exists(t)
    /\ ~rows[t].expired
    /\ s \in Unused
    /\ Begin(p, [Idle EXCEPT !.op = "refresh", !.pc = "presented", !.user = rows[t].user,
                             !.fam = rows[t].fam, !.tok = t, !.new = s,
                             !.epoch = rows[t].epoch])

\* refresh, first SELECT: an unknown token is refused, a revoked one is reuse
\* (whether or not it has also expired), an expired one is refused.
RefreshRead(p, t, s) ==
    /\ IsLive(t)
    /\ ~rows[t].expired
    /\ s \in Unused
    /\ Begin(p, [Idle EXCEPT !.op = "refresh", !.pc = "presented", !.user = rows[t].user,
                             !.fam = rows[t].fam, !.tok = t, !.new = s,
                             !.epoch = rows[t].epoch])

ReuseRead(p, t) ==
    /\ IsRevoked(t)
    /\ Begin(p, [Idle EXCEPT !.op = "reuse", !.pc = "loaded", !.user = rows[t].user,
                             !.fam = rows[t].fam])

LogoutRead(p, t) ==
    /\ Exists(t)
    /\ Begin(p, [Idle EXCEPT !.op = "logout", !.pc = "loaded", !.user = rows[t].user,
                             !.fam = rows[t].fam])

\* reset_password once its link is found usable and the account is read.
ResetRead(p, u) ==
    /\ users[u].resets + Cardinality({q \in Txns : req[q].op = "reset" /\ req[q].user = u})
          < MaxResets
    /\ Begin(p, [Idle EXCEPT !.op = "reset", !.pc = "loaded", !.user = u])

\* Mutant: spent rows are purged too.
PurgeStart_Spent(p) ==
    LET spent == {t \in Tokens : Exists(t) /\ (rows[t].expired \/ IsRevoked(t))} IN
    /\ spent # {}
    /\ Begin(p, [Idle EXCEPT !.op = "purge", !.pc = "locking", !.todo = spent])

\* purge_expired_refresh_tokens is one DELETE: it starts with its own snapshot.
PurgeStart(p) ==
    LET expired == {t \in Tokens : Exists(t) /\ rows[t].expired} IN
    /\ expired # {}
    /\ Begin(p, [Idle EXCEPT !.op = "purge", !.pc = "locking", !.todo = expired])

-----------------------------------------------------------------------------
(* Inside a request.                                                       *)

Advance(p, r) ==
    /\ req' = [req EXCEPT ![p] = r]
    /\ UNCHANGED <<rows, users, crossedFam, crossedUser, ended>>

\* refresh, second SELECT: a suspended account is refused.
RefreshCheckUser(p) ==
    /\ req[p].pc = "presented"
    /\ Advance(p, IF users[req[p].user].active
                  THEN [req[p] EXCEPT !.pc = "loaded"]
                  ELSE Idle)

\* Mutant: a reset also goes by the family, and it has none.
Matches_NotOnReset(p, t) ==
    /\ IsLive(t)
    /\ rows[t].fam = req[p].fam

\* The WHERE clauses of revoke_family and revoke_all_for_user.
Matches(p, t) ==
    /\ IsLive(t)
    /\ IF req[p].op = "reset" THEN rows[t].user = req[p].user
                              ELSE rows[t].fam = req[p].fam

\* A bulk UPDATE starts: its snapshot is what is committed now.
RevokeStart(p) ==
    /\ req[p].pc = "loaded"
    /\ req[p].op \in {"reuse", "logout", "reset"}
    /\ Advance(p, [req[p] EXCEPT !.pc = "locking", !.todo = {t \in Tokens : Matches(p, t)}])

\* It reaches one row of its snapshot, waits for its lock, re-checks the row.
LockRow(p, t) ==
    /\ req[p].pc = "locking"
    /\ t \in req[p].todo
    /\ ~LockedByOther(p, t)
    /\ LET hit == IF req[p].op = "purge" THEN Exists(t) ELSE Matches(p, t)
       IN  Advance(p, [req[p] EXCEPT !.todo = @ \ {t},
                                     !.held = IF hit THEN @ \cup {t} ELSE @])

\* The flush in _issue_tokens: UPDATE of the presented row by primary key (with
\* no check that it is still live), then INSERT of the successor.  A row that
\* is gone makes the UPDATE match nothing: StaleDataError, rollback.
RefreshFlush(p) ==
    /\ req[p].op = "refresh"
    /\ req[p].pc = "loaded"
    /\ ~LockedByOther(p, req[p].tok)
    /\ Advance(p, IF Exists(req[p].tok)
                  THEN [req[p] EXCEPT !.pc = "flushed", !.held = {req[p].tok}]
                  ELSE Idle)

-----------------------------------------------------------------------------
(* Commits: pending writes become visible and the locks are released.      *)

Close(p) ==
    /\ req' = [req EXCEPT ![p] = Idle]
    /\ UNCHANGED <<crossedFam, crossedUser>>

\* Mutant: the row is added without its user.
NewRow_NoUser(p) == [NoRow("live") EXCEPT !.fam = req[p].fam, !.epoch = req[p].epoch]

NewRow(p) == [status |-> "live", user |-> req[p].user, fam |-> req[p].fam, next |-> NoToken,
              expired |-> FALSE, epoch |-> req[p].epoch]

RevokeRows(ts) ==
    [t \in Tokens |-> IF t \in ts THEN [rows[t] EXCEPT !.status = "revoked"] ELSE rows[t]]

\* login with an old hash also rewrites it, from the password it verified.
LoginCommit(p) ==
    /\ req[p].op = "login"
    /\ rows' = [rows EXCEPT ![req[p].new] = NewRow(p)]
    /\ users' = IF req[p].rehash
                THEN [users EXCEPT ![req[p].user].pwd = req[p].pwd,
                                   ![req[p].user].legacy = FALSE]
                ELSE users
    /\ Close(p)
    /\ UNCHANGED ended

\* Mutants: the presented token is not revoked; the link back is forgotten.
RefreshCommit_KeepsOld(p) ==
    /\ req[p].op = "refresh"
    /\ req[p].pc = "flushed"
    /\ rows' = [rows EXCEPT ![req[p].new] = NewRow(p)]
    /\ Close(p)
    /\ UNCHANGED <<users, ended>>

RefreshCommit_NoLink(p) ==
    /\ req[p].op = "refresh"
    /\ req[p].pc = "flushed"
    /\ rows' = [rows EXCEPT ![req[p].tok].status = "revoked", ![req[p].new] = NewRow(p)]
    /\ Close(p)
    /\ UNCHANGED <<users, ended>>

RefreshCommit(p) ==
    /\ req[p].op = "refresh"
    /\ req[p].pc = "flushed"
    /\ rows' = [rows EXCEPT ![req[p].tok].status = "revoked",
                            ![req[p].tok].next = req[p].new,
                            ![req[p].new] = NewRow(p)]
    /\ Close(p)
    /\ UNCHANGED <<users, ended>>

\* Mutant: the error is raised before the commit, and get_db rolls back.
EndFamily_NoCommit(p) ==
    /\ req[p].op \in {"reuse", "logout"}
    /\ req[p].pc = "locking"
    /\ req[p].todo = {}
    /\ ended' = ended \cup {req[p].fam}
    /\ Close(p)
    /\ UNCHANGED <<rows, users>>

\* refresh answering reuse, and logout.
EndFamily(p) ==
    /\ req[p].op \in {"reuse", "logout"}
    /\ req[p].pc = "locking"
    /\ req[p].todo = {}
    /\ rows' = RevokeRows(req[p].held)
    /\ ended' = ended \cup {req[p].fam}
    /\ Close(p)
    /\ UNCHANGED users

ResetCommit(p) ==
    LET u == req[p].user
        n == users[u].resets + 1
    IN
    /\ req[p].op = "reset"
    /\ req[p].pc = "locking"
    /\ req[p].todo = {}
    /\ rows' = RevokeRows(req[p].held)
    /\ users' = [users EXCEPT ![u] =
                    [users[u] EXCEPT !.resets = n, !.pwd = n, !.legacy = FALSE]]
    /\ Close(p)
    /\ UNCHANGED ended

\* ON DELETE SET NULL clears the links to the deleted rows.
PurgeCommit(p) ==
    LET gone == req[p].held IN
    /\ req[p].op = "purge"
    /\ req[p].todo = {}
    /\ rows' = [t \in Tokens |->
                   IF t \in gone THEN NoRow("purged")
                   ELSE IF rows[t].next \in gone THEN [rows[t] EXCEPT !.next = NoToken]
                   ELSE rows[t]]
    /\ Close(p)
    /\ UNCHANGED <<users, ended>>

-----------------------------------------------------------------------------
(* What PostgreSQL, the clock and the administrator do.                    *)

\* The process or the connection dies: PostgreSQL rolls the transaction back.
Rollback(p) ==
    /\ Open(p)
    /\ Advance(p, Idle)

WaitsFor(p, q) ==
    /\ p # q
    /\ \/ req[p].todo \cap req[q].held # {}
       \/ req[p].pc = "loaded" /\ req[p].op = "refresh" /\ req[p].tok \in req[q].held

\* Mutant: nobody resolves deadlocks.
DeadlockAbort_Never(p) == FALSE

\* The deadlock detector aborts a member of a cycle of waiting transactions.
DeadlockAbort(p) ==
    /\ \E S \in SUBSET Txns : /\ p \in S
                              /\ \A q \in S : /\ \E r \in S : WaitsFor(q, r)
                                              /\ \E r \in S : WaitsFor(r, q)
    /\ Advance(p, Idle)

\* A lifetime is the same for every token, so a token expires no earlier than
\* the one it replaced.
Expire(t) ==
    /\ Exists(t)
    /\ ~rows[t].expired
    /\ Cardinality({s \in Tokens : rows[s].expired \/ rows[s].status = "purged"}) < MaxExpired
    /\ \A s \in Tokens : rows[s].next = t => rows[s].expired
    /\ rows' = [rows EXCEPT ![t].expired = TRUE]
    /\ UNCHANGED <<users, req, crossedFam, crossedUser, ended>>

\* AdminService.set_active: the flag alone, sessions are left as they are.
SetActive(u) ==
    /\ u \in Suspendable
    /\ users' = [users EXCEPT ![u].active = ~@]
    /\ UNCHANGED <<rows, req, crossedFam, crossedUser, ended>>

-----------------------------------------------------------------------------

Commit(p) ==
    \/ LoginCommit(p)
    \/ RefreshCommit(p)
    \/ EndFamily(p)
    \/ ResetCommit(p)
    \/ PurgeCommit(p)

Work(p) ==
    \/ RefreshCheckUser(p)
    \/ RevokeStart(p)
    \/ \E t \in Tokens : LockRow(p, t)
    \/ RefreshFlush(p)
    \/ Commit(p)
    \/ DeadlockAbort(p)

Arrive(p) ==
    \/ \E u \in Users, s \in Tokens, rehash \in BOOLEAN : LoginRead(p, u, s, rehash)
    \/ \E t, s \in Tokens : RefreshRead(p, t, s)
    \/ \E t \in Tokens : ReuseRead(p, t)
    \/ \E t \in Tokens : LogoutRead(p, t)
    \/ \E u \in Users : ResetRead(p, u)
    \/ PurgeStart(p)

Next ==
    \/ \E p \in Txns : Arrive(p) \/ Work(p) \/ Rollback(p)
    \/ \E t \in Tokens : Expire(t)
    \/ \E u \in Users : SetActive(u)

Spec == Init /\ [][Next]_vars

\* The event loop keeps running every handler it has started, and PostgreSQL
\* resolves deadlocks and grants row locks in the order they were asked for, so
\* a waiting statement is not overtaken for ever: strong fairness.
Fairness == \A p \in Txns : SF_vars(Work(p))

FairSpec == Spec /\ Fairness
-----------------------------------------------------------------------------
(* Properties.                                                             *)

\* Every variable has its type; a row that exists has its NOT NULL columns and
\* one that does not has none (models/refresh_token.py).
TypeOK ==
    /\ rows \in [Tokens -> Row]
    /\ \A t \in Tokens : IF Exists(t) THEN rows[t].user \in Users /\ rows[t].fam \in Tokens
                                      ELSE rows[t] = NoRow(rows[t].status)
    /\ users \in [Users -> Account]
    /\ req \in [Txns -> Request]
    /\ crossedFam \subseteq Tokens
    /\ crossedUser \subseteq Users
    /\ ended \subseteq Tokens

\* The rotation chain is a forensic record (ADR-0007): a link leads from a
\* revoked token to an existing successor of the same family and account, no
\* two tokens link to the same successor, and in a family on which requests
\* did not overlap every token but the first is reached by a link until the
\* purge removes the start of the chain.
ChainIsARecord ==
    /\ \A t \in Tokens : rows[t].next # NoToken =>
          LET s == rows[t].next IN
          /\ IsRevoked(t) /\ Exists(s)
          /\ rows[s].fam = rows[t].fam /\ rows[s].user = rows[t].user
          /\ \A r \in Tokens \ {t} : rows[r].next # s
    /\ \A s \in Tokens :
          LET f == rows[s].fam IN
          Exists(s) /\ s # f /\ f \notin crossedFam
             => rows[f].status = "purged" \/ \E t \in Tokens : rows[t].next = s

\* Refresh tokens are single-use (ADR-0007:30): as long as no two requests on a
\* family overlapped, at most one of its tokens can be spent.
OneLiveToken ==
    \A f \in Tokens \ crossedFam : \A s, t \in LiveIn(f) : s = t

\* A logout, or a detected reuse, that overlapped no other request on the
\* family leaves none of its tokens usable, then and ever after.
EndedFamilyIsDead ==
    \A f \in ended \ crossedFam : LiveIn(f) = {}

\* A reset that overlapped no other request of the account ends every session
\* begun before it, and its password stays in force (auth.py reset_password).
ResetReachesEverySession ==
    \A u \in Users \ crossedUser :
        /\ users[u].pwd = users[u].resets
        /\ \A t \in LiveOf(u) : rows[t].epoch = users[u].resets

\* A family no token of which is live, and on which no refresh is under way,
\* can not come back to life, whatever overlaps: only a rotation that read a
\* live token extends a family.
Dead(f) ==
    /\ rows[f].status # "unissued"
    /\ LiveIn(f) = {}
    /\ \A p \in Txns : ~(req[p].op = "refresh" /\ req[p].fam = f)

DeadStaysDead == [][\A f \in Tokens : Dead(f) => Dead(f)']_vars

\* Spent rows stay until they expire: a replay of one within its lifetime is
\* always recognised as reuse (maintenance.py:38-39).
SpentRowsKept ==
    [][\A t \in Tokens : Exists(t) /\ ~Exists(t)' => rows[t].expired]_vars

\* Every request ends: no cycle of row locks holds one for ever.
RequestsEnd == \A p \in Txns : Open(p) ~> ~Open(p)

-----------------------------------------------------------------------------
(* What the documentation says and the code does not ensure.               *)

\* ADR-0007:30: "They are single-use and rotate. Every refresh revokes the
\* presented token and issues a successor": one token yields one live successor.
SingleUse == \A f \in Tokens : \A s, t \in LiveIn(f) : s = t
=============================================================================
