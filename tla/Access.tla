------------------------------- MODULE Access -------------------------------
(***************************************************************************)
(* What stands between a request and its handler (api/deps.py,             *)
(* api/rate_limit.py, the routers of api/v1), for the clients of one       *)
(* address and one account, and how the handlers that issue access tokens  *)
(* come to do so (services/auth.py).                                       *)
(*                                                                         *)
(* Routes are named after their handlers; a handler that treats two        *)
(* payloads differently counts as two.  The scopes of the limiter are      *)
(* independent of each other: one is modelled, the login's.                *)
(***************************************************************************)
EXTENDS RateLimiter

CONSTANTS
    Served   \* bound: the routes requests are explored for

Roles == {"job_seeker", "recruiter", "admin"}

-----------------------------------------------------------------------------
(* The route table.                                                        *)

\* rate_limit(...) in `dependencies`; none of them asks for a token.
LimitedRoutes == {"register", "verify_email", "resend_verification", "forgot_password",
                  "reset_password", "google_auth", "login", "refresh"}

PublicRoutes == LimitedRoutes \cup {"logout", "list_skills", "get_skill_graph"}

SkillRoutes == {"get_my_profile", "start_learning", "add_skill", "update_skill", "confirm_all",
                "skill_learning_path"}
ResumeRoutes == {"upload_resume", "list_resumes", "get_resume", "get_resume_text"}
JobRoutes == {"create_private_job", "publish_job", "list_jobs", "get_job", "update_job", "delete_job",
              "get_match", "job_learning_path", "rank_candidates"}
GoalRoutes == {"set_goal", "get_current_goal", "achieve_goal", "list_achievements", "abandon_goal"}
AdminRoutes == {"get_stats", "list_users", "set_active", "set_role", "verify_user"}

GuardedRoutes == {"me"} \cup SkillRoutes \cup ResumeRoutes \cup JobRoutes \cup GoalRoutes \cup AdminRoutes

Routes == PublicRoutes \cup GuardedRoutes

ASSUME ServedAreRoutes == Served \subseteq Routes

\* require_role, and the rule JobService.create applies to the same loaded user.
Needs(route) ==
    IF route \in AdminRoutes THEN {"admin"}
    ELSE IF route = "rank_candidates" THEN {"recruiter", "admin"}
    ELSE IF route = "publish_job" THEN {"recruiter"}
    ELSE Roles

-----------------------------------------------------------------------------
(* Tokens and calls.                                                       *)

VARIABLES
    user,      \* the account: its role and whether it is active
    tokens,    \* the valid access tokens the clients hold, by the role they claim
    call,      \* what each request asks for and how far it has come
    entitled   \* history: the account has been entitled to the call since it arrived

vars == <<user, tokens, call, entitled, limiterVars>>

\* None, or one that is expired, forged or malformed.
NoToken == "none"

Idle == [stage |-> "idle"]

Init ==
    /\ LimiterInit
    /\ user \in [role : Roles, active : BOOLEAN]
    /\ tokens = {}
    /\ call = [c \in Calls |-> Idle]
    /\ entitled = {}

\* The handlers that answer with a pair of tokens.
MintingRoutes == {"login", "google_auth", "refresh"}

\* What create_access_token will claim: the role as it was loaded.
Minted == user.role

\* Mutant: the credentials alone decide.
MayIssue_Whoever == TRUE

\* After the credentials: InactiveAccountError.
MayIssue == user.active

\* decode_access_token
Decodes(token) == token # NoToken

\* get_current_user: whatever the token claims, the row of the account decides.
Recognised(token) == Decodes(token) /\ user.active

\* Mutant: the role is taken from the token.
Permitted_ByClaim(route, token) == Recognised(token) /\ token \in Needs(route)

Permitted(route, token) == Recognised(token) /\ user.role \in Needs(route)

Entitles(route) == user.active /\ user.role \in Needs(route)

-----------------------------------------------------------------------------
(* A request.                                                              *)

\* The history of the step.
Watch == entitled' = {c \in Calls : call'[c] # Idle /\ (c \in entitled \/ Entitles(call[c].route)')}

Step(c, stage) == call' = [call EXCEPT ![c].stage = stage]
Ends(c) == call' = [call EXCEPT ![c] = Idle]

Arrive(c, route, token) ==
    /\ call[c] = Idle
    /\ call' = [call EXCEPT ![c] = [route |-> route, token |-> token,
                                    stage |-> IF route \in PublicRoutes THEN "handling"
                                              ELSE "authenticating"]]
    /\ UNCHANGED <<user, tokens, limiterVars>>
    /\ Watch

ArriveLimited(c, route) ==
    /\ call[c] = Idle
    /\ call' = [call EXCEPT ![c] = [route |-> route, token |-> NoToken, stage |-> "limiting"]]
    /\ Hit(c)
    /\ UNCHANGED <<user, tokens>>
    /\ Watch

\* _enforce: 429, or on to the handler.
Enforce(c) ==
    /\ call[c].stage = "limiting"
    /\ Leave(c)
    /\ IF hit[c].stage = "allowed" THEN Step(c, "handling") ELSE Ends(c)
    /\ UNCHANGED <<user, tokens>>
    /\ Watch

\* get_current_user (401) and require_role (403), on one SELECT of the account.
Authenticate(c) ==
    /\ call[c].stage = "authenticating"
    /\ IF Permitted(call[c].route, call[c].token) THEN Step(c, "handling") ELSE Ends(c)
    /\ UNCHANGED <<user, tokens, limiterVars>>
    /\ Watch

\* The other handlers: nothing here depends on what they do.
Handle(c) ==
    /\ call[c].stage = "handling"
    /\ call[c].route \notin MintingRoutes
    /\ Ends(c)
    /\ UNCHANGED <<user, tokens, limiterVars>>
    /\ Watch

\* The SELECT of the account whose credentials the call brings; wrong ones, an address that
\* is not verified or a suspension end it.  A hash is verified before the answer goes on.
Identify(c) ==
    /\ call[c].stage = "handling"
    /\ call[c].route \in MintingRoutes
    /\ \/ MayIssue /\ call' = [call EXCEPT ![c].stage = "issuing", ![c].token = Minted]
       \/ Ends(c)
    /\ UNCHANGED <<user, tokens, limiterVars>>
    /\ Watch

\* _issue_tokens and the commit, for the account as it was loaded.
Issue(c) ==
    /\ call[c].stage = "issuing"
    /\ tokens' = tokens \cup {call[c].token}
    /\ Ends(c)
    /\ UNCHANGED <<user, limiterVars>>
    /\ Watch

\* Operators change the account, in requests of theirs.
AccountChanges(role, active) ==
    /\ user' = [role |-> role, active |-> active]
    /\ UNCHANGED <<tokens, call, limiterVars>>
    /\ Watch

\* access_token_expire_minutes have passed.
TokensExpire ==
    /\ tokens' = {}
    /\ call' = [c \in Calls |-> IF call[c].stage = "authenticating"
                                THEN [call[c] EXCEPT !.token = NoToken] ELSE call[c]]
    /\ UNCHANGED <<user, limiterVars>>
    /\ Watch

Elsewhere == UNCHANGED <<user, tokens, call, entitled>>

Next ==
    \/ \E c \in Calls :
        \/ \E route \in Served \ LimitedRoutes, token \in tokens \cup {NoToken} :
             Arrive(c, route, token)
        \/ \E route \in Served \cap LimitedRoutes : ArriveLimited(c, route)
        \/ LimiterStep(c) /\ Elsewhere
        \/ Enforce(c)
        \/ Authenticate(c)
        \/ Handle(c)
        \/ Identify(c)
        \/ Issue(c)
    \/ \E role \in Roles, active \in BOOLEAN : AccountChanges(role, active)
    \/ TokensExpire
    \/ Tick /\ Elsewhere

Spec == Init /\ [][Next]_vars

-----------------------------------------------------------------------------
(* Properties.                                                             *)

\* Every call that reaches a guarded handler was the account's to make at some time since
\* it arrived: a token that outlives a suspension or a change of role opens nothing.
AuthorityIsCurrent ==
    \A c \in Calls : call[c].stage = "handling" /\ call[c].route \in GuardedRoutes => c \in entitled

\* A token is issued only by a call during which the account has been active: what the call
\* loaded may be stale when the token is signed, for a login verifies a hash in between, but
\* it is never older than the call.
TokensAreEarned ==
    [][\A token \in tokens' \ tokens : \E c \in entitled :
         call[c].stage = "issuing" /\ call[c].token = token /\ call'[c] = Idle]_vars
=============================================================================
