------------------------------- MODULE Access -------------------------------
(***************************************************************************)
(* People: accounts, sign-in and its throttle, sessions, the session       *)
(* middleware in front of every route, and the audit trail that the        *)
(* throttle counts.                                                        *)
(*                                                                         *)
(* The middleware and the form handlers (/masuk, /keluar, POST /pengguna)  *)
(* are coroutines: between two awaits nothing else runs on the event loop. *)
(* POST /api/v1/users runs in the thread pool, so its transactions fall    *)
(* between those of any other request.  Passwords, token hashes and CSRF   *)
(* values are abstracted to whether they match.                            *)
(***************************************************************************)
EXTENDS Integers, FiniteSets

CONSTANTS
    Usernames,          \* normalised usernames that somebody may hold or try
    Tokens,             \* session tokens; each is issued at most once
    Requests,           \* the HTTP requests
    None,
    AllowUnprovisioned, \* settings.allow_unprovisioned_access; FALSE in production
    MaxFailures,        \* MAX_FAILED_SIGN_IN_ATTEMPTS
    Window,             \* FAILED_SIGN_IN_WINDOW_SECONDS
    Lifetime,           \* SESSION_LIFETIME_SECONDS
    IdleTimeout,        \* SESSION_IDLE_TIMEOUT_SECONDS
    MaxTime             \* bound on the clock

ASSUME NamesAreDistinct == None \notin Usernames \cup Tokens \cup {"sistem", "invalid"}
ASSUME LimitsAreCounts == {MaxFailures, Window, Lifetime, IdleTimeout, MaxTime} \subseteq Nat
ASSUME FailuresAreAllowed == MaxFailures > 0
ASSUME SettingIsBoolean == AllowUnprovisioned \in BOOLEAN

VARIABLES
    now,
    users,      \* the role of each account, or None where there is no row
    sessions,   \* the session row of each token, or None
    audit,      \* audit_records
    req,        \* the state of each request
    signedIn    \* history: who signed in with each token, when, and whether they signed out

vars == <<now, users, sessions, audit, req, signedIn>>

-----------------------------------------------------------------------------
(* Roles and routes.                                                       *)

Roles == {"operator", "manager", "administrator"}

ASSUME NoneIsNoRole == None \notin Roles

Operator == {"create_prediction", "record_actual_fuel", "import_operations",
             "view_monitoring", "view_models"}

CapabilitiesFor == [operator      |-> Operator,
                    manager       |-> Operator \cup {"view_audit"},
                    administrator |-> Operator \cup {"view_audit", "manage_models", "manage_users"}]

RoleAllows(role, capability) == capability \in CapabilitiesFor[role]

\* One route per way the middleware treats a request: public forms, a form and
\* an API route that need a capability, and pages any signed-in caller or only
\* some may read.
RequiredCapability == [masuk |-> "none", keluar |-> "none", pengguna |-> "manage_users",
                       api_users |-> "manage_users", audit |-> "view_audit",
                       prediksi |-> "create_prediction"]

Routes == DOMAIN RequiredCapability
IsPublic(route) == route \in {"masuk", "keluar"}
RequiresCsrf(route) == route \in {"masuk", "keluar", "pengguna"}

\* The administrator that stands in for everybody while there is no account.
StandIn == [name |-> "sistem", role |-> "administrator", token |-> None]
NoCaller == [name |-> None, role |-> "operator", token |-> None]
Callers == {NoCaller, StandIn} \cup [name : Usernames, role : Roles, token : Tokens]

Accounts == {u \in Usernames : users[u] # None}

IsSystemProvisioned == ~AllowUnprovisioned \/ Accounts # {}

-----------------------------------------------------------------------------
(* The audit trail.  n tells records of one kind and time apart.           *)

Actions == {"sign_in_failed", "sign_in_succeeded", "sign_out", "user_created"}
Reasons == {"none", "invalid_username", "throttled", "unknown_or_inactive", "bad_password"}

\* "invalid" is any text that normalize_username refuses; it is recorded as typed,
\* so it never counts towards the throttle of a username.
AuditRecords == [action : Actions, subject : Usernames \cup {"sistem", "invalid"}, reason : Reasons,
                 at : 0..MaxTime, n : Nat]

RecordAuditEvent(action, subject, reason) ==
    LET alike == {a \in audit : /\ a.action = action /\ a.subject = subject
                                /\ a.reason = reason /\ a.at = now}
    IN audit' = audit \cup {[action |-> action, subject |-> subject, reason |-> reason,
                             at |-> now, n |-> Cardinality(alike)]}

\* count_recent: the records of one action about one subject since a moment.
Recent(action, subject, since) ==
    {a \in audit : a.action = action /\ a.subject = subject /\ a.at >= since}

-----------------------------------------------------------------------------
(* Sessions.                                                               *)

Sessions == [user : Usernames, expires : 0..(MaxTime + Lifetime), seen : 0..MaxTime]

IsExpired(s) == now >= s.expires
IsIdle(s) == now - s.seen >= IdleTimeout

\* ResolveSession: the middleware awaits nothing from the read of the session
\* to the touch, and no thread-pool endpoint writes sessions or edits accounts.
Resolves(token) ==
    /\ token # None
    /\ sessions[token] # None
    /\ ~IsExpired(sessions[token])
    /\ ~IsIdle(sessions[token])
    /\ users[sessions[token].user] # None

\* Mutant of ResolvedSessions: a stale session is refused but its row is touched.
TouchedAnyway(token) ==
    IF token = None \/ sessions[token] = None THEN sessions
    ELSE [sessions EXCEPT ![token].seen = now]

ResolvedSessions(token) ==
    IF token = None \/ sessions[token] = None THEN sessions
    ELSE [sessions EXCEPT ![token] =
             IF Resolves(token) THEN [@ EXCEPT !.seen = now] ELSE None]

CallerOf(token) ==
    IF Resolves(token)
    THEN [name |-> sessions[token].user, role |-> users[sessions[token].user], token |-> token]
    ELSE NoCaller

-----------------------------------------------------------------------------
(* Requests and the middleware.                                            *)

PCs == {"new", "body", "handle", "count", "verify", "open", "audit_sign_in",
        "insert", "audit_user", "done"}

Results == {"none", "csrf", "sign_in_required", "denied", "served", "failed", "throttled",
            "signed_in", "signed_out", "invalid", "exists", "created", "storage_error"}

NoRequest == [pc |-> "new", route |-> "prediksi", cookie |-> None, caller |-> NoCaller,
              target |-> None, moment |-> 0, result |-> "none"]

Init ==
    /\ now = 0
    /\ users \in {[u \in Usernames |-> None]}
                 \cup {[[u \in Usernames |-> None] EXCEPT ![a] = "administrator"] : a \in Usernames}
    /\ sessions = [t \in Tokens |-> None]
    /\ audit = {}
    /\ req = [r \in Requests |-> NoRequest]
    /\ signedIn = [t \in Tokens |-> [user |-> None, at |-> 0, out |-> FALSE]]

At(r, pc) == req[r].pc = pc
Move(r, pc) == req' = [req EXCEPT ![r].pc = pc]
\* Of an answered request only its answer remains.
Reply(r, result) == req' = [req EXCEPT ![r] = [NoRequest EXCEPT !.pc = "done", !.result = result]]

\* A coroutine between two awaits keeps the event loop to itself.
OnEventLoop(r) ==
    \/ req[r].pc \in {"count", "verify", "open", "audit_sign_in"}
    \/ req[r].pc \in {"insert", "audit_user"} /\ req[r].route = "pengguna"

EventLoopFree == \A r \in Requests : ~OnEventLoop(r)

Authorize(caller, route) ==
    IF ~IsPublic(route) /\ caller.name = None THEN "sign_in_required"
    ELSE IF /\ RequiredCapability[route] # "none" /\ caller.name # None
            /\ ~RoleAllows(caller.role, RequiredCapability[route]) THEN "denied"
    ELSE "handle"

\* The request with the verdict of the middleware: to its handler, or answered.
Decided(request, verdict) ==
    IF verdict = "handle" THEN [request EXCEPT !.pc = "handle"]
    ELSE [NoRequest EXCEPT !.pc = "done", !.result = verdict]

\* The cookie is resolved on arrival; a form then awaits its body, and only
\* after that are its CSRF token, the caller and the capability checked.
Arrive(r, route, cookie) ==
    /\ At(r, "new")
    /\ EventLoopFree
    /\ LET caller == IF IsSystemProvisioned THEN CallerOf(cookie) ELSE StandIn
           request == [NoRequest EXCEPT !.route = route, !.cookie = cookie, !.caller = caller]
           verdict == IF IsSystemProvisioned THEN Authorize(caller, route) ELSE "handle"
       IN /\ req' = [req EXCEPT ![r] =
                       IF IsSystemProvisioned /\ RequiresCsrf(route)
                       THEN [request EXCEPT !.pc = "body"] ELSE Decided(request, verdict)]
          /\ sessions' = IF IsSystemProvisioned THEN ResolvedSessions(cookie) ELSE sessions
    /\ UNCHANGED <<now, users, audit, signedIn>>

Body(r, csrfMatches) ==
    /\ At(r, "body")
    /\ EventLoopFree
    /\ LET verdict == IF csrfMatches THEN Authorize(req[r].caller, req[r].route) ELSE "csrf"
       IN req' = [req EXCEPT ![r] = Decided(@, verdict)]
    /\ UNCHANGED <<now, users, sessions, audit, signedIn>>

\* A page: the handler reads and renders.
ServePage(r) ==
    /\ At(r, "handle")
    /\ req[r].route \in {"audit", "prediksi"}
    /\ Reply(r, "served")
    /\ UNCHANGED <<now, users, sessions, audit, signedIn>>

-----------------------------------------------------------------------------
(* SignIn.execute, one step per transaction; the clock goes on meanwhile.  *)

StartSignIn(r, u) ==
    /\ At(r, "handle") /\ req[r].route = "masuk"
    /\ EventLoopFree
    /\ req' = [req EXCEPT ![r].pc = "count", ![r].target = u, ![r].moment = now]
    /\ UNCHANGED <<now, users, sessions, audit, signedIn>>

SignInInvalid(r) ==
    /\ At(r, "handle") /\ req[r].route = "masuk"
    /\ EventLoopFree
    /\ RecordAuditEvent("sign_in_failed", "invalid", "invalid_username")
    /\ Reply(r, "failed")
    /\ UNCHANGED <<now, users, sessions, signedIn>>

\* Mutant of IsThrottled: the window leaves out its first moment.
IsThrottledExclusive(r) ==
    Cardinality(Recent("sign_in_failed", req[r].target, req[r].moment - Window + 1)) >= MaxFailures

IsThrottled(r) ==
    Cardinality(Recent("sign_in_failed", req[r].target, req[r].moment - Window)) >= MaxFailures

CountFailures(r) ==
    /\ At(r, "count")
    /\ IF IsThrottled(r)
       THEN RecordAuditEvent("sign_in_failed", req[r].target, "throttled") /\ Reply(r, "throttled")
       ELSE Move(r, "verify") /\ UNCHANGED audit
    /\ UNCHANGED <<now, users, sessions, signedIn>>

Verify(r, passwordMatches) ==
    /\ At(r, "verify")
    /\ LET u == req[r].target
           reason == IF users[u] = None THEN "unknown_or_inactive" ELSE "bad_password"
       IN IF users[u] # None /\ passwordMatches
          THEN Move(r, "open") /\ UNCHANGED audit
          ELSE RecordAuditEvent("sign_in_failed", u, reason) /\ Reply(r, "failed")
    /\ UNCHANGED <<now, users, sessions, signedIn>>

\* delete_expired and add; the session counts from the moment the call began.
OpenSession(r, t) ==
    /\ At(r, "open")
    /\ signedIn[t].user = None
    /\ LET kept == [x \in Tokens |-> IF sessions[x] # None /\ sessions[x].expires <= req[r].moment
                                     THEN None ELSE sessions[x]]
       IN sessions' = [kept EXCEPT ![t] = [user |-> req[r].target, seen |-> req[r].moment,
                                           expires |-> req[r].moment + Lifetime]]
    /\ signedIn' = [signedIn EXCEPT ![t] = [user |-> req[r].target, at |-> req[r].moment, out |-> FALSE]]
    /\ Move(r, "audit_sign_in")
    /\ UNCHANGED <<now, users, audit>>

AuditSignIn(r) ==
    /\ At(r, "audit_sign_in")
    /\ RecordAuditEvent("sign_in_succeeded", req[r].target, "none")
    /\ Reply(r, "signed_in")
    /\ UNCHANGED <<now, users, sessions, signedIn>>

\* Mutant of SignOut: the cookie is cleared and the row is left.
SignOutCookieOnly(r) ==
    /\ At(r, "handle") /\ req[r].route = "keluar"
    /\ EventLoopFree
    /\ LET t == req[r].cookie
           ends == req[r].caller # NoCaller /\ t # None
       IN signedIn' = IF ends THEN [signedIn EXCEPT ![t].out = TRUE] ELSE signedIn
    /\ Reply(r, "signed_out")
    /\ UNCHANGED <<now, users, audit, sessions>>

\* submit_sign_out: nothing is deleted for a cookie that resolved to nobody, or
\* for the stand-in without a cookie.
SignOut(r) ==
    /\ At(r, "handle") /\ req[r].route = "keluar"
    /\ EventLoopFree
    /\ LET t == req[r].cookie
           ends == req[r].caller # NoCaller /\ t # None
       IN /\ sessions' = IF ends THEN [sessions EXCEPT ![t] = None] ELSE sessions
          /\ signedIn' = IF ends THEN [signedIn EXCEPT ![t].out = TRUE] ELSE signedIn
          /\ IF ends THEN RecordAuditEvent("sign_out", req[r].caller.name, "none")
                     ELSE UNCHANGED audit
    /\ Reply(r, "signed_out")
    /\ UNCHANGED <<now, users>>

-----------------------------------------------------------------------------
(* CreateUser.execute, from the form or the API.                           *)

\* normalize_username, validate_full_name and validate_password come first.
InvalidUser(r) ==
    /\ At(r, "handle")
    /\ req[r].route \in {"pengguna", "api_users"}
    /\ req[r].route = "pengguna" => EventLoopFree
    /\ Reply(r, "invalid")
    /\ UNCHANGED <<now, users, sessions, audit, signedIn>>

CheckUsername(r, u) ==
    /\ At(r, "handle")
    /\ req[r].route \in {"pengguna", "api_users"}
    /\ req[r].route = "pengguna" => EventLoopFree
    /\ IF users[u] = None
       THEN req' = [req EXCEPT ![r].target = u, ![r].pc = "insert"]
       ELSE Reply(r, "exists")
    /\ UNCHANGED <<now, users, sessions, audit, signedIn>>

\* Mutant of InsertUser: the table has no unique index on the username.
InsertUserUnchecked(r, role) ==
    /\ At(r, "insert")
    /\ users' = [users EXCEPT ![req[r].target] = role]
    /\ Move(r, "audit_user")
    /\ UNCHANGED <<now, sessions, audit, signedIn>>

\* The unique index on users.username refuses the later of two inserts.
InsertUser(r, role) ==
    /\ At(r, "insert")
    /\ IF users[req[r].target] = None
       THEN users' = [users EXCEPT ![req[r].target] = role] /\ Move(r, "audit_user")
       ELSE Reply(r, "storage_error") /\ UNCHANGED users
    /\ UNCHANGED <<now, sessions, audit, signedIn>>

AuditUser(r) ==
    /\ At(r, "audit_user")
    /\ RecordAuditEvent("user_created", req[r].target, "none")
    /\ Reply(r, "created")
    /\ UNCHANGED <<now, users, sessions, signedIn>>

Tick ==
    /\ now < MaxTime
    /\ now' = now + 1
    /\ UNCHANGED <<users, sessions, audit, req, signedIn>>

-----------------------------------------------------------------------------

Next ==
    \/ Tick
    \/ \E r \in Requests :
         \/ \E route \in Routes, cookie \in Tokens \cup {None} :
              /\ cookie # None => signedIn[cookie].user # None
              /\ Arrive(r, route, cookie)
         \/ \E match \in BOOLEAN : Body(r, match) \/ Verify(r, match)
         \/ \E u \in Usernames : StartSignIn(r, u) \/ CheckUsername(r, u)
         \/ \E t \in Tokens : OpenSession(r, t)
         \/ \E role \in Roles : InsertUser(r, role)
         \/ ServePage(r) \/ SignInInvalid(r) \/ InvalidUser(r) \/ CountFailures(r) \/ AuditSignIn(r) \/ SignOut(r) \/ AuditUser(r)

Spec == Init /\ [][Next]_vars

-----------------------------------------------------------------------------
(* Properties.                                                             *)

\* Accounts, sessions, the trail and requests hold only what the code stores.
TypeOK ==
    /\ now \in 0..MaxTime
    /\ users \in [Usernames -> Roles \cup {None}]
    /\ sessions \in [Tokens -> Sessions \cup {None}]
    /\ \A t \in Tokens : sessions[t] # None => sessions[t].user \in Accounts /\ sessions[t].seen <= now
    /\ audit \subseteq AuditRecords
    /\ req \in [Requests -> [pc : PCs, route : Routes, cookie : Tokens \cup {None},
                             caller : Callers, target : Usernames \cup {None},
                             moment : 0..MaxTime, result : Results]]
    /\ signedIn \in [Tokens -> [user : Usernames \cup {None}, at : 0..MaxTime, out : BOOLEAN]]

Guesses(u, from) ==
    {a \in audit : /\ a.subject = u
                   /\ a.reason \in {"bad_password", "unknown_or_inactive"}
                   /\ a.at \in from..(from + Window)}

\* Whatever the requests in flight and however long a password check takes, no
\* window of the throttle's length holds more than MaxFailures attempts at one
\* username that were checked and failed.
GuessesAreBounded ==
    \A u \in Usernames, from \in 0..MaxTime : Cardinality(Guesses(u, from)) <= MaxFailures

\* A request acts as a person only through a session that person opened with the
\* right password less than Lifetime before it arrived, and had not left by then;
\* and as the stand-in administrator only where nobody has an account yet.
CallersAreAuthentic ==
    [][\A r \in Requests :
         LET caller == req'[r].caller
         IN caller # req[r].caller =>
              /\ caller.token # None =>
                    /\ signedIn[caller.token].user = caller.name
                    /\ now < signedIn[caller.token].at + Lifetime
                    /\ ~signedIn[caller.token].out
              /\ caller = StandIn => Accounts = {} /\ AllowUnprovisioned]_vars

\* Two creations of one username that both found it free leave one account and
\* one user_created record: the trail never credits an account to two actors.
AccountsAreCreatedOnce ==
    \A u \in Usernames :
       LET created == {a \in audit : a.action = "user_created" /\ a.subject = u}
       IN Cardinality(created) <= 1 /\ (created # {} => users[u] # None)

\* A session that has been idle stays ended: no request revives a row whose last
\* use is IdleTimeout or more in the past.
IdleSessionsStayEnded ==
    [][\A t \in Tokens :
         (sessions[t] # None /\ IsIdle(sessions[t])) => sessions'[t] \in {None, sessions[t]}]_vars

\* What the tables of identity keep: rows of their kinds, sessions of accounts that
\* exist, and one account for each creation in the trail.
AccessInv == TypeOK /\ AccountsAreCreatedOnce
=============================================================================
