----------------------------- MODULE AccessProofs -----------------------------
(* Proofs about Access, for every set of usernames, tokens and requests,   *)
(* every limit of the throttle and of the sessions, and any clock.         *)
EXTENDS Access, FiniteSetTheorems, TLAPS

-----------------------------------------------------------------------------
(* The inductive invariant.                                                *)

RequestRecords == [pc : PCs, route : Routes, cookie : Tokens \cup {None}, caller : Callers,
                   target : Usernames \cup {None}, moment : 0..MaxTime, result : Results]

SignIns == [user : Usernames \cup {None}, at : 0..MaxTime, out : BOOLEAN]

AccessTypeOK ==
    /\ now \in 0..MaxTime
    /\ users \in [Usernames -> Roles \cup {None}]
    /\ sessions \in [Tokens -> Sessions \cup {None}]
    /\ audit \subseteq AuditRecords /\ IsFiniteSet(audit)
    /\ req \in [Requests -> RequestRecords]
    /\ signedIn \in [Tokens -> SignIns]

\* A session is of the person that signed in with its token and has not left.
SessionAgrees(t) ==
    sessions[t] # None =>
        /\ users[sessions[t].user] # None /\ sessions[t].seen <= now
        /\ signedIn[t].user = sessions[t].user
        /\ sessions[t].expires = signedIn[t].at + Lifetime
        /\ ~signedIn[t].out

Created == {a \in audit : a.action = "user_created"}

\* What a request has found out stays true until it acts on it.
RequestAgrees(r) ==
    /\ req[r].moment <= now
    /\ req[r].pc \in {"count", "verify", "open", "audit_sign_in", "insert", "audit_user"} =>
         req[r].target \in Usernames
    /\ req[r].pc = "verify" => ~IsThrottled(r)
    /\ req[r].pc \in {"open", "audit_user"} => users[req[r].target] # None
    /\ req[r].pc = "audit_user" => \A a \in Created : a.subject # req[r].target

\* The trail is of the past, and credits each account to one creation.
TrailAgrees ==
    /\ \A a \in audit :
         /\ a.at <= now
         /\ a.reason \in {"bad_password", "unknown_or_inactive"} => a.action = "sign_in_failed"
    /\ \A a \in Created : a.subject \in Usernames /\ users[a.subject] # None
    /\ \A a, b \in Created : a.subject = b.subject => a = b

\* One coroutine at a time is between two awaits.
LoopAgrees == \A r, q \in Requests : OnEventLoop(r) /\ OnEventLoop(q) => r = q

\* Two requests are never about to record the creation of one account.
CreationsAgree ==
    \A r, q \in Requests :
        req[r].pc = "audit_user" /\ req[q].pc = "audit_user" /\ req[r].target = req[q].target => r = q

\* The strengthening behind the properties of Access.
IdentityInv ==
    /\ AccessTypeOK
    /\ \A t \in Tokens : SessionAgrees(t)
    /\ \A r \in Requests : RequestAgrees(r)
    /\ TrailAgrees
    /\ LoopAgrees
    /\ CreationsAgree
    /\ GuessesAreBounded

-----------------------------------------------------------------------------
(* Requests and the trail.                                                 *)

\* The limits are counts.
LEMMA Limits ==
    /\ MaxFailures \in Nat /\ Window \in Nat /\ Lifetime \in Nat /\ IdleTimeout \in Nat
    /\ MaxTime \in Nat
  BY LimitsAreCounts

\* A request that has not arrived, and one that is answered.
LEMMA NoRequestFacts ==
    ASSUME NEW pc \in PCs, NEW result \in Results
    PROVE  /\ [NoRequest EXCEPT !.pc = pc, !.result = result] \in RequestRecords
           /\ NoRequest \in RequestRecords
<1>1. Routes = {"masuk", "keluar", "pengguna", "api_users", "audit", "prediksi"}
  BY DEF Routes, RequiredCapability
<1>2. 0 \in 0..MaxTime
  BY Limits
<1>3. NoCaller \in Callers
  BY DEF Callers
<1> QED
  BY <1>1, <1>2, <1>3 DEF NoRequest, RequestRecords, PCs, Results

\* Only the record of r changes.
Alone(r) == req' \in [Requests -> RequestRecords] /\ \A q \in Requests \ {r} : req'[q] = req[q]

\* What remains of an answered request.
LEMMA Replied ==
    ASSUME AccessTypeOK, NEW r \in Requests, NEW result \in Results, Reply(r, result)
    PROVE  /\ Alone(r) /\ req'[r].pc = "done" /\ req'[r].moment = 0
           /\ req'[r].caller = NoCaller
<1> DEFINE n == [NoRequest EXCEPT !.pc = "done", !.result = result]
<1>1. n \in RequestRecords
  BY NoRequestFacts DEF PCs
<1>2. n.pc = "done" /\ n.moment = 0 /\ n.caller = NoCaller
  BY DEF NoRequest
<1>3. req' = [req EXCEPT ![r] = n]
  BY DEF Reply
<1> HIDE DEF n
<1> QED
  BY <1>1, <1>2, <1>3 DEF AccessTypeOK, Alone

\* A handler goes on.
LEMMA Moved ==
    ASSUME AccessTypeOK, NEW r \in Requests, NEW pc \in PCs, Move(r, pc)
    PROVE  /\ Alone(r) /\ req'[r].pc = pc
           /\ req'[r].route = req[r].route /\ req'[r].cookie = req[r].cookie
           /\ req'[r].caller = req[r].caller /\ req'[r].target = req[r].target
           /\ req'[r].moment = req[r].moment
<1> DEFINE n == [req[r] EXCEPT !.pc = pc]
<1>1. /\ n \in RequestRecords /\ n.pc = pc /\ n.route = req[r].route /\ n.cookie = req[r].cookie
      /\ n.caller = req[r].caller /\ n.target = req[r].target /\ n.moment = req[r].moment
  BY DEF AccessTypeOK, RequestRecords
<1>2. req' = [req EXCEPT ![r] = n]
  BY DEF Move, AccessTypeOK, RequestRecords
<1> HIDE DEF n
<1> QED
  BY <1>1, <1>2 DEF AccessTypeOK, Alone

\* A record of now is added to the trail.
LEMMA Noted ==
    ASSUME AccessTypeOK, NEW action \in Actions,
           NEW subject \in Usernames \cup {"sistem", "invalid"}, NEW reason \in Reasons,
           RecordAuditEvent(action, subject, reason)
    PROVE  \E a \in AuditRecords :
              /\ audit' = audit \cup {a} /\ a.action = action /\ a.subject = subject
              /\ a.reason = reason /\ a.at = now
<1> DEFINE alike == {a \in audit : /\ a.action = action /\ a.subject = subject
                                   /\ a.reason = reason /\ a.at = now}
           new == [action |-> action, subject |-> subject, reason |-> reason, at |-> now,
                   n |-> Cardinality(alike)]
<1>1. Cardinality(alike) \in Nat
  <2>1. alike \in SUBSET audit
    OBVIOUS
  <2> HIDE DEF alike
  <2> QED
    BY <2>1, FS_Subset, FS_CardinalityType DEF AccessTypeOK
<1>2. audit' = audit \cup {new}
  BY DEF RecordAuditEvent
<1> HIDE DEF alike
<1>3. /\ new \in AuditRecords /\ new.action = action /\ new.subject = subject
      /\ new.reason = reason /\ new.at = now
  BY <1>1 DEF AuditRecords, AccessTypeOK
<1> HIDE DEF new
<1> QED
  BY <1>2, <1>3

\* The trail stays a finite set of records.
LEMMA TrailTyped ==
    ASSUME AccessTypeOK, NEW a \in AuditRecords, audit' = audit \cup {a}
    PROVE  audit' \subseteq AuditRecords /\ IsFiniteSet(audit')
<1>1. IsFiniteSet(audit \cup {a})
  BY FS_AddElement DEF AccessTypeOK
<1> QED
  BY <1>1 DEF AccessTypeOK

-----------------------------------------------------------------------------
(* What a step of one request leaves of the rest.                          *)

\* Accounts and records stay, and only the request that is alone on the event loop
\* reports a failed sign-in.
Grows(r) ==
    /\ \A q \in Requests \ {r} : req'[q] = req[q]
    /\ now' = now
    /\ \A u \in Usernames : users[u] # None => users'[u] = users[u]
    /\ audit \subseteq audit'
    /\ \A a \in audit' \ audit :
         /\ a.action = "sign_in_failed" => OnEventLoop(r) \/ EventLoopFree
         /\ a.action = "user_created" => req[r].pc = "audit_user" /\ a.subject = req[r].target

\* What the others have found out is still true.
LEMMA BystandersAgree ==
    ASSUME IdentityInv, NEW r \in Requests, Grows(r), NEW q \in Requests \ {r}
    PROVE  RequestAgrees(q)'
<1>1. RequestAgrees(q) /\ req'[q] = req[q] /\ now' = now
  BY DEF IdentityInv, Grows
<1>2. req[q].pc = "verify" => ~IsThrottled(q)'
  <2> SUFFICES ASSUME req[q].pc = "verify" PROVE ~IsThrottled(q)'
    OBVIOUS
  <2>1. OnEventLoop(q) /\ ~EventLoopFree /\ ~OnEventLoop(r)
    BY DEF OnEventLoop, EventLoopFree, IdentityInv, LoopAgrees
  <2>2. \A a \in audit' \ audit : a.action # "sign_in_failed"
    BY <2>1 DEF Grows
  <2>3. Recent("sign_in_failed", req[q].target, req[q].moment - Window)' =
          Recent("sign_in_failed", req[q].target, req[q].moment - Window)
    BY <1>1, <2>2 DEF Recent, Grows
  <2> QED
    BY <1>1, <2>3 DEF RequestAgrees, IsThrottled
<1>3. req[q].pc \in {"open", "audit_user"} => users'[req[q].target] # None
  BY <1>1 DEF RequestAgrees, Grows
<1>4. req[q].pc = "audit_user" => \A a \in Created' : a.subject # req[q].target
  <2> SUFFICES ASSUME req[q].pc = "audit_user", NEW a \in Created' PROVE a.subject # req[q].target
    OBVIOUS
  <2>1. CASE a \in audit
    BY <1>1, <2>1 DEF RequestAgrees, Created
  <2>2. CASE a \notin audit
    <3>1. req[r].pc = "audit_user" /\ a.subject = req[r].target
      BY <2>2 DEF Grows, Created
    <3> QED
      BY <3>1 DEF IdentityInv, CreationsAgree
  <2> QED
    BY <2>1, <2>2
<1> QED
  BY <1>1, <1>2, <1>3, <1>4 DEF RequestAgrees

\* What is left to show of a step of r.
LEMMA OneMoves ==
    ASSUME IdentityInv, NEW r \in Requests, Grows(r), AccessTypeOK', RequestAgrees(r)',
           \A t \in Tokens : SessionAgrees(t)', TrailAgrees', GuessesAreBounded',
           OnEventLoop(r)' => OnEventLoop(r) \/ EventLoopFree,
           req'[r].pc = "audit_user" =>
               \A q \in Requests \ {r} : req[q].pc = "audit_user" => req[q].target # req'[r].target
    PROVE  IdentityInv'
<1>1. \A q \in Requests : RequestAgrees(q)'
  BY BystandersAgree
<1>2. \A q \in Requests \ {r} : req'[q] = req[q] /\ (OnEventLoop(q)' <=> OnEventLoop(q))
  BY DEF Grows, OnEventLoop
<1>3. LoopAgrees'
  BY <1>2 DEF IdentityInv, LoopAgrees, EventLoopFree
<1>4. CreationsAgree'
  BY <1>2 DEF IdentityInv, CreationsAgree
<1> QED
  BY <1>1, <1>3, <1>4 DEF IdentityInv

\* Steps that leave the trail and the accounts alone.
LEMMA QuietTrail ==
    ASSUME IdentityInv, UNCHANGED <<now, users, audit>>
    PROVE  TrailAgrees' /\ GuessesAreBounded'
<1>1. TrailAgrees'
  BY DEF IdentityInv, TrailAgrees, Created
<1>2. GuessesAreBounded'
  BY DEF IdentityInv, GuessesAreBounded, Guesses
<1> QED
  BY <1>1, <1>2

\* Steps that leave the sessions and the accounts alone.
LEMMA QuietSessions ==
    ASSUME IdentityInv, UNCHANGED <<now, users, sessions, signedIn>>
    PROVE  \A t \in Tokens : SessionAgrees(t)'
  BY DEF IdentityInv, SessionAgrees

\* Steps of a request that change nothing but itself, on its way to a place where it
\* has found nothing out yet.
LEMMA QuietStep ==
    ASSUME IdentityInv, NEW r \in Requests, Alone(r),
           UNCHANGED <<now, users, sessions, audit, signedIn>>,
           req'[r].moment <= now,
           req'[r].pc \in {"new", "body", "handle", "count", "insert", "done"},
           req'[r].pc \in {"count", "insert"} => req'[r].target \in Usernames,
           OnEventLoop(r)' => EventLoopFree
    PROVE  IdentityInv'
<1>1. AccessTypeOK'
  BY DEF IdentityInv, AccessTypeOK, Alone
<1>2. Grows(r)
  BY DEF Grows, Alone
<1>3. RequestAgrees(r)'
  BY DEF RequestAgrees
<1> QED
  BY <1>1, <1>2, <1>3, QuietTrail, QuietSessions, OneMoves

-----------------------------------------------------------------------------
(* What a record does to the trail.                                        *)

\* A record of now keeps the trail in order, if it credits an account to nobody
\* or to the first that claims it.
LEMMA TrailGrows ==
    ASSUME IdentityInv, NEW a \in AuditRecords, audit' = audit \cup {a}, a.at = now,
           UNCHANGED <<now, users>>,
           a.reason \in {"bad_password", "unknown_or_inactive"} => a.action = "sign_in_failed",
           a.action = "user_created" =>
               /\ a.subject \in Usernames /\ users[a.subject] # None
               /\ \A b \in Created : b.subject # a.subject
    PROVE  TrailAgrees'
<1>1. TrailAgrees
  BY DEF IdentityInv
<1>2. now \in Nat
  BY Limits DEF IdentityInv, AccessTypeOK
<1>3. \A b \in audit' :
         /\ b.at <= now'
         /\ b.reason \in {"bad_password", "unknown_or_inactive"} => b.action = "sign_in_failed"
  BY <1>1, <1>2 DEF TrailAgrees
<1>4. \A b \in Created' : b \in Created \/ (b = a /\ a.action = "user_created")
  BY DEF Created
<1>5. \A b \in Created' : b.subject \in Usernames /\ users'[b.subject] # None
  BY <1>1, <1>4 DEF TrailAgrees
<1>6. \A b, c \in Created' : b.subject = c.subject => b = c
  BY <1>1, <1>4 DEF TrailAgrees
<1> QED
  BY <1>3, <1>5, <1>6 DEF TrailAgrees

\* A record that is no guess leaves the guesses as they are.
LEMMA GuessesKept ==
    ASSUME IdentityInv, NEW a \in AuditRecords, audit' = audit \cup {a},
           a.reason \notin {"bad_password", "unknown_or_inactive"}
    PROVE  GuessesAreBounded'
<1>1. ASSUME NEW u \in Usernames, NEW from \in 0..MaxTime PROVE Guesses(u, from)' = Guesses(u, from)
  BY DEF Guesses
<1> QED
  BY <1>1 DEF IdentityInv, GuessesAreBounded

\* A part of fewer than k elements, and one more, are at most k.
LEMMA OneMore ==
    ASSUME NEW S, NEW T, NEW G, NEW a, NEW k \in Nat, IsFiniteSet(S), T \subseteq S,
           Cardinality(T) < k, G \subseteq T \cup {a}
    PROVE  Cardinality(G) <= k
<1>1. IsFiniteSet(T) /\ Cardinality(T) \in Nat
  BY FS_Subset, FS_CardinalityType
<1>2. IsFiniteSet(T \cup {a}) /\ Cardinality(T \cup {a}) <= Cardinality(T) + 1
  <2>1. /\ IsFiniteSet(T \cup {a})
        /\ Cardinality(T \cup {a}) = IF a \in T THEN Cardinality(T) ELSE Cardinality(T) + 1
    BY <1>1, FS_AddElement
  <2> QED
    BY <1>1, <2>1
<1>3. Cardinality(T \cup {a}) \in Nat
  BY <1>2, FS_CardinalityType
<1>4. IsFiniteSet(G) /\ Cardinality(G) <= Cardinality(T \cup {a})
  BY <1>2, FS_Subset
<1>5. Cardinality(G) \in Nat
  BY <1>4, FS_CardinalityType
<1> QED
  BY <1>1, <1>2, <1>3, <1>4, <1>5

\* A guess that the throttle let through stays within its bound: the guesses of any
\* window that reaches now were all in the window that the throttle counted.
LEMMA GuessAdded ==
    ASSUME IdentityInv, NEW r \in Requests, req[r].pc = "verify", UNCHANGED now,
           NEW a \in AuditRecords, audit' = audit \cup {a},
           a.subject = req[r].target, a.at = now
    PROVE  GuessesAreBounded'
<1> SUFFICES ASSUME NEW u \in Usernames, NEW from \in 0..MaxTime
             PROVE  Cardinality(Guesses(u, from)') <= MaxFailures
  BY DEF GuessesAreBounded
<1>0. /\ from \in Nat /\ now \in Nat /\ Window \in Nat /\ MaxFailures \in Nat
      /\ req[r].moment \in Nat /\ req[r].moment <= now
  BY Limits DEF IdentityInv, AccessTypeOK, RequestRecords, RequestAgrees
<1>1. CASE a \notin Guesses(u, from)'
  <2>1. Guesses(u, from)' = Guesses(u, from)
    BY <1>1 DEF Guesses
  <2> QED
    BY <2>1 DEF IdentityInv, GuessesAreBounded
<1>2. CASE a \in Guesses(u, from)'
  <2> DEFINE T == Recent("sign_in_failed", req[r].target, req[r].moment - Window)
             G == Guesses(u, from)'
  <2>1. u = req[r].target /\ now \in from..(from + Window)
    BY <1>2 DEF Guesses
  <2>2. from >= req[r].moment - Window
    BY <1>0, <2>1
  <2>3. ASSUME NEW g \in Guesses(u, from)', g # a PROVE g \in T
    <3>1. /\ g \in audit /\ g.subject = u /\ g.at \in from..(from + Window)
          /\ g.reason \in {"bad_password", "unknown_or_inactive"}
      BY <2>3 DEF Guesses
    <3>2. g.action = "sign_in_failed"
      BY <3>1 DEF IdentityInv, TrailAgrees
    <3>3. g.at >= req[r].moment - Window
      BY <1>0, <2>2, <3>1
    <3> QED
      BY <2>1, <3>1, <3>2, <3>3 DEF Recent
  <2>4. T \subseteq audit /\ IsFiniteSet(audit)
    BY DEF Recent, IdentityInv, AccessTypeOK
  <2>5. ~(Cardinality(T) >= MaxFailures)
    BY DEF IdentityInv, RequestAgrees, IsThrottled
  <2>6. G \subseteq T \cup {a}
    BY <2>3
  <2> HIDE DEF T, G
  <2>7. Cardinality(T) < MaxFailures
    <3>1. Cardinality(T) \in Nat
      BY <2>4, FS_Subset, FS_CardinalityType
    <3> QED
      BY <1>0, <2>5, <3>1
  <2>8. Cardinality(G) <= MaxFailures
    BY <1>0, <2>4, <2>6, <2>7, OneMore
  <2> QED
    BY <2>8 DEF G
<1> QED
  BY <1>1, <1>2

-----------------------------------------------------------------------------
(* The steps.                                                              *)

\* The limits of a window and a session are of the clock that a moment was read from.
LEMMA TickStep ==
    ASSUME IdentityInv, Tick
    PROVE  IdentityInv'
<1>1. now \in Nat /\ now' = now + 1 /\ now' \in 0..MaxTime
  BY Limits DEF IdentityInv, AccessTypeOK, Tick
<1>2. UNCHANGED <<users, sessions, audit, req, signedIn>>
  BY DEF Tick
<1>3. AccessTypeOK'
  BY <1>1, <1>2 DEF IdentityInv, AccessTypeOK
<1>4. ASSUME NEW t \in Tokens PROVE SessionAgrees(t)'
  <2>1. SessionAgrees(t) /\ sessions[t] \in Sessions \cup {None}
    BY DEF IdentityInv, AccessTypeOK
  <2>2. sessions[t] # None => sessions[t].seen \in Nat
    BY <2>1, Limits DEF Sessions
  <2> QED
    BY <1>1, <1>2, <2>1, <2>2 DEF SessionAgrees
<1>5. ASSUME NEW r \in Requests PROVE RequestAgrees(r)'
  <2>1. RequestAgrees(r) /\ req[r].moment \in Nat
    BY Limits DEF IdentityInv, AccessTypeOK, RequestRecords
  <2>2. IsThrottled(r)' <=> IsThrottled(r)
    BY <1>2 DEF IsThrottled, Recent
  <2>3. req[r].moment <= now'
    BY <1>1, <2>1 DEF RequestAgrees
  <2> QED
    BY <1>2, <2>1, <2>2, <2>3 DEF RequestAgrees, Created
<1>6. TrailAgrees'
  <2>1. \A a \in audit : a.at \in Nat
    BY Limits DEF IdentityInv, AccessTypeOK, AuditRecords
  <2>2. TrailAgrees
    BY DEF IdentityInv
  <2>3. \A a \in audit : a.at <= now'
    BY <1>1, <2>1, <2>2 DEF TrailAgrees
  <2> QED
    BY <1>2, <2>2, <2>3 DEF TrailAgrees, Created
<1>7. LoopAgrees' /\ CreationsAgree' /\ GuessesAreBounded'
  BY <1>2 DEF IdentityInv, LoopAgrees, OnEventLoop, CreationsAgree, GuessesAreBounded, Guesses
<1> QED
  BY <1>3, <1>4, <1>5, <1>6, <1>7 DEF IdentityInv

\* A cookie is resolved to somebody.
LEMMA CallerTyped ==
    ASSUME AccessTypeOK, NEW cookie \in Tokens \cup {None}
    PROVE  CallerOf(cookie) \in Callers
<1>1. CASE Resolves(cookie)
  <2>1. /\ cookie \in Tokens /\ sessions[cookie].user \in Usernames
        /\ users[sessions[cookie].user] \in Roles
    BY <1>1 DEF Resolves, AccessTypeOK, Sessions
  <2> QED
    BY <1>1, <2>1 DEF CallerOf, Callers
<1>2. CASE ~Resolves(cookie)
  BY <1>2 DEF CallerOf, Callers
<1> QED
  BY <1>1, <1>2

\* Resolving a cookie ends its session or makes it of now, and leaves the others.
LEMMA Resolving ==
    ASSUME IdentityInv, NEW cookie \in Tokens \cup {None}
    PROVE  /\ ResolvedSessions(cookie) \in [Tokens -> Sessions \cup {None}]
           /\ \A t \in Tokens :
                \/ ResolvedSessions(cookie)[t] = None
                \/ /\ sessions[t] # None
                   /\ ResolvedSessions(cookie)[t].user = sessions[t].user
                   /\ ResolvedSessions(cookie)[t].expires = sessions[t].expires
                   /\ ResolvedSessions(cookie)[t].seen \in {now, sessions[t].seen}
<1>0. sessions \in [Tokens -> Sessions \cup {None}] /\ now \in 0..MaxTime
  BY DEF IdentityInv, AccessTypeOK
<1>1. CASE cookie = None \/ sessions[cookie] = None
  BY <1>0, <1>1 DEF ResolvedSessions
<1>2. CASE cookie # None /\ sessions[cookie] # None /\ ~Resolves(cookie)
  <2>1. ResolvedSessions(cookie) = [sessions EXCEPT ![cookie] = None]
    BY <1>2 DEF ResolvedSessions
  <2> QED
    BY <1>0, <1>2, <2>1
<1>3. CASE cookie # None /\ sessions[cookie] # None /\ Resolves(cookie)
  <2> DEFINE s == [sessions[cookie] EXCEPT !.seen = now]
  <2>1. cookie \in Tokens /\ sessions[cookie] \in Sessions
    BY <1>0, <1>3
  <2>2. /\ s \in Sessions /\ s.user = sessions[cookie].user /\ s.expires = sessions[cookie].expires
        /\ s.seen = now
    BY <1>0, <2>1 DEF Sessions
  <2>3. ResolvedSessions(cookie) = [sessions EXCEPT ![cookie] = s]
    BY <1>0, <1>3 DEF ResolvedSessions
  <2> HIDE DEF s
  <2>4. ResolvedSessions(cookie) \in [Tokens -> Sessions \cup {None}]
    BY <1>0, <2>1, <2>2, <2>3
  <2>5. ResolvedSessions(cookie)[cookie] = s
    BY <1>0, <2>1, <2>3
  <2>6. \A t \in Tokens \ {cookie} : ResolvedSessions(cookie)[t] = sessions[t]
    BY <1>0, <2>1, <2>3
  <2> QED
    BY <1>3, <2>2, <2>4, <2>5, <2>6
<1> QED
  BY <1>1, <1>2, <1>3

\* Sessions that were resolved are still of those who signed in.
LEMMA SessionsResolved ==
    ASSUME IdentityInv, NEW cookie \in Tokens \cup {None}, sessions' = ResolvedSessions(cookie),
           UNCHANGED <<now, users, signedIn>>
    PROVE  \A t \in Tokens : SessionAgrees(t)'
<1> SUFFICES ASSUME NEW t \in Tokens, sessions'[t] # None PROVE SessionAgrees(t)'
  BY DEF SessionAgrees
<1>1. /\ sessions[t] # None /\ sessions'[t].user = sessions[t].user
      /\ sessions'[t].expires = sessions[t].expires /\ sessions'[t].seen \in {now, sessions[t].seen}
  BY Resolving
<1>2. SessionAgrees(t) /\ now \in Nat
  BY Limits DEF IdentityInv, AccessTypeOK
<1> QED
  BY <1>1, <1>2 DEF SessionAgrees

\* The request with the verdict of the middleware.
LEMMA DecidedFacts ==
    ASSUME NEW request \in RequestRecords, NEW verdict \in Results \cup {"handle"}
    PROVE  /\ Decided(request, verdict) \in RequestRecords
           /\ Decided(request, verdict).pc \in {"handle", "done"}
           /\ Decided(request, verdict).moment \in {0, request.moment}
           /\ Decided(request, verdict).caller \in {NoCaller, request.caller}
<1>1. CASE verdict = "handle"
  BY <1>1 DEF Decided, RequestRecords, PCs
<1>2. CASE verdict # "handle"
  <2> DEFINE n == [NoRequest EXCEPT !.pc = "done", !.result = verdict]
  <2>1. n \in RequestRecords
    BY <1>2, NoRequestFacts DEF PCs
  <2>2. n.pc = "done" /\ n.moment = 0 /\ n.caller = NoCaller
    BY DEF NoRequest
  <2>3. Decided(request, verdict) = n
    BY <1>2 DEF Decided
  <2> HIDE DEF n
  <2> QED
    BY <2>1, <2>2, <2>3
<1> QED
  BY <1>1, <1>2

\* The verdict of the middleware is an answer or the way to the handler.
LEMMA VerdictTyped ==
    ASSUME NEW caller, NEW route
    PROVE  Authorize(caller, route) \in Results \cup {"handle"}
  BY DEF Authorize, Results

\* A request arrives with the caller its cookie resolves to.
LEMMA ArriveStep ==
    ASSUME IdentityInv, NEW r \in Requests, NEW route \in Routes, NEW cookie \in Tokens \cup {None},
           Arrive(r, route, cookie)
    PROVE  IdentityInv'
<1> DEFINE caller == IF IsSystemProvisioned THEN CallerOf(cookie) ELSE StandIn
           request == [NoRequest EXCEPT !.route = route, !.cookie = cookie, !.caller = caller]
           verdict == IF IsSystemProvisioned THEN Authorize(caller, route) ELSE "handle"
           n == IF IsSystemProvisioned /\ RequiresCsrf(route)
                THEN [request EXCEPT !.pc = "body"] ELSE Decided(request, verdict)
<1>0. AccessTypeOK /\ now \in Nat
  BY Limits DEF IdentityInv, AccessTypeOK
<1>1. request \in RequestRecords /\ request.moment = 0
  <2>1. caller \in Callers
    BY <1>0, CallerTyped DEF Callers
  <2>2. NoRequest \in RequestRecords /\ NoRequest.moment = 0
    BY NoRequestFacts DEF PCs, Results, NoRequest
  <2> HIDE DEF caller
  <2> QED
    BY <2>1, <2>2 DEF RequestRecords
<1>2. verdict \in Results \cup {"handle"}
  BY VerdictTyped
<1>3. n \in RequestRecords /\ n.pc \in {"body", "handle", "done"} /\ n.moment = 0
  <2> HIDE DEF request, verdict
  <2>1. CASE IsSystemProvisioned /\ RequiresCsrf(route)
    BY <1>1, <2>1 DEF RequestRecords, PCs
  <2>2. CASE ~(IsSystemProvisioned /\ RequiresCsrf(route))
    BY <1>1, <1>2, <2>2, DecidedFacts
  <2> QED
    BY <2>1, <2>2
<1>4. /\ req' = [req EXCEPT ![r] = n] /\ EventLoopFree
      /\ sessions' = (IF IsSystemProvisioned THEN ResolvedSessions(cookie) ELSE sessions)
      /\ UNCHANGED <<now, users, audit, signedIn>>
  BY DEF Arrive
<1> HIDE DEF n
<1>5. Alone(r) /\ req'[r] = n
  BY <1>0, <1>3, <1>4 DEF Alone, AccessTypeOK
<1>6. /\ sessions' \in [Tokens -> Sessions \cup {None}]
      /\ \A t \in Tokens : SessionAgrees(t)'
  <2>1. CASE IsSystemProvisioned
    BY <1>4, <2>1, Resolving, SessionsResolved
  <2>2. CASE ~IsSystemProvisioned
    BY <1>0, <1>4, <2>2, QuietSessions DEF AccessTypeOK
  <2> QED
    BY <2>1, <2>2
<1>7. AccessTypeOK'
  BY <1>0, <1>4, <1>5, <1>6 DEF AccessTypeOK, Alone
<1>8. Grows(r)
  BY <1>4, <1>5 DEF Grows, Alone
<1>9. RequestAgrees(r)'
  BY <1>0, <1>3, <1>4, <1>5 DEF RequestAgrees
<1>10. TrailAgrees' /\ GuessesAreBounded'
  BY <1>4, QuietTrail
<1> QED
  BY <1>3, <1>4, <1>5, <1>6, <1>7, <1>8, <1>9, <1>10, OneMoves

\* A form is read.
LEMMA BodyStep ==
    ASSUME IdentityInv, NEW r \in Requests, NEW csrfMatches \in BOOLEAN, Body(r, csrfMatches)
    PROVE  IdentityInv'
<1> DEFINE verdict == IF csrfMatches THEN Authorize(req[r].caller, req[r].route) ELSE "csrf"
           n == Decided(req[r], verdict)
<1>0. AccessTypeOK /\ now \in Nat /\ req[r] \in RequestRecords /\ req[r].moment <= now
  BY Limits DEF IdentityInv, AccessTypeOK, RequestAgrees
<1>1. verdict \in Results \cup {"handle"}
  BY VerdictTyped DEF Results
<1>2. req' = [req EXCEPT ![r] = n] /\ UNCHANGED <<now, users, sessions, audit, signedIn>>
  BY DEF Body
<1>3. n \in RequestRecords /\ n.pc \in {"handle", "done"} /\ n.moment \in {0, req[r].moment}
  <2> HIDE DEF verdict
  <2> QED
    BY <1>0, <1>1, DecidedFacts
<1> HIDE DEF n
<1>4. Alone(r) /\ req'[r] = n
  BY <1>0, <1>2, <1>3 DEF Alone, AccessTypeOK
<1>5. req'[r].moment <= now /\ req'[r].pc \in {"handle", "done"} /\ ~OnEventLoop(r)'
  BY <1>0, <1>3, <1>4 DEF OnEventLoop
<1> QED
  BY <1>2, <1>4, <1>5, QuietStep

\* A request is answered without a trace.
LEMMA AnswerStep ==
    ASSUME IdentityInv, NEW r \in Requests, NEW result \in Results, Reply(r, result),
           UNCHANGED <<now, users, sessions, audit, signedIn>>
    PROVE  IdentityInv'
<1>0. AccessTypeOK /\ now \in Nat
  BY Limits DEF IdentityInv, AccessTypeOK
<1>1. Alone(r) /\ req'[r].pc = "done" /\ req'[r].moment = 0
  BY <1>0, Replied
<1>2. ~OnEventLoop(r)' /\ req'[r].moment <= now
  BY <1>0, <1>1 DEF OnEventLoop
<1> QED
  BY <1>1, <1>2, QuietStep

\* A sign-in starts, or a creation finds its username free.
LEMMA TargetStep ==
    ASSUME IdentityInv, NEW r \in Requests, NEW u \in Usernames,
           StartSignIn(r, u) \/ CheckUsername(r, u)
    PROVE  IdentityInv'
<1>0. /\ AccessTypeOK /\ now \in Nat /\ now \in 0..MaxTime /\ req[r] \in RequestRecords
      /\ req[r].moment <= now
  BY Limits DEF IdentityInv, AccessTypeOK, RequestAgrees
<1>1. CASE StartSignIn(r, u)
  <2> DEFINE n == [req[r] EXCEPT !.pc = "count", !.target = u, !.moment = now]
  <2>1. n \in RequestRecords /\ n.pc = "count" /\ n.target = u /\ n.moment = now
    BY <1>0 DEF RequestRecords, PCs
  <2>2. /\ req' = [req EXCEPT ![r] = n] /\ UNCHANGED <<now, users, sessions, audit, signedIn>>
        /\ EventLoopFree
    BY <1>0, <1>1 DEF StartSignIn, AccessTypeOK
  <2> HIDE DEF n
  <2>3. Alone(r) /\ req'[r] = n
    BY <1>0, <2>1, <2>2 DEF Alone, AccessTypeOK
  <2>4. req'[r].moment <= now /\ req'[r].pc = "count" /\ req'[r].target \in Usernames
    BY <1>0, <2>1, <2>3
  <2> QED
    BY <2>2, <2>3, <2>4, QuietStep
<1>2. CASE CheckUsername(r, u) /\ users[u] = None
  <2> DEFINE n == [req[r] EXCEPT !.target = u, !.pc = "insert"]
  <2>1. /\ n \in RequestRecords /\ n.pc = "insert" /\ n.target = u /\ n.moment = req[r].moment
        /\ n.route = req[r].route
    BY <1>0 DEF RequestRecords, PCs
  <2>2. /\ req' = [req EXCEPT ![r] = n] /\ UNCHANGED <<now, users, sessions, audit, signedIn>>
        /\ req[r].route = "pengguna" => EventLoopFree
    BY <1>0, <1>2 DEF CheckUsername, AccessTypeOK
  <2> HIDE DEF n
  <2>3. Alone(r) /\ req'[r] = n
    BY <1>0, <2>1, <2>2 DEF Alone, AccessTypeOK
  <2>4. /\ req'[r].moment <= now /\ req'[r].pc = "insert" /\ req'[r].target \in Usernames
        /\ OnEventLoop(r)' => EventLoopFree
    BY <1>0, <2>1, <2>2, <2>3 DEF OnEventLoop
  <2> QED
    BY <2>2, <2>3, <2>4, QuietStep
<1>3. CASE CheckUsername(r, u) /\ users[u] # None
  <2>1. Reply(r, "exists") /\ UNCHANGED <<now, users, sessions, audit, signedIn>>
    BY <1>3 DEF CheckUsername
  <2>2. "exists" \in Results
    BY DEF Results
  <2> QED
    BY <2>1, <2>2, AnswerStep
<1> QED
  BY <1>1, <1>2, <1>3

\* A record of a step of r whose own request is answered, or goes on elsewhere.
LEMMA NotedStep ==
    ASSUME IdentityInv, NEW r \in Requests, Alone(r), NEW action \in Actions,
           NEW subject \in Usernames \cup {"sistem", "invalid"}, NEW reason \in Reasons,
           RecordAuditEvent(action, subject, reason),
           UNCHANGED <<now, users>>, sessions' \in [Tokens -> Sessions \cup {None}],
           signedIn' \in [Tokens -> SignIns], \A t \in Tokens : SessionAgrees(t)',
           req'[r].pc = "done", req'[r].moment = 0,
           action = "sign_in_failed" => OnEventLoop(r) \/ EventLoopFree,
           action = "user_created" =>
               req[r].pc = "audit_user" /\ subject = req[r].target,
           reason \in {"bad_password", "unknown_or_inactive"} =>
               action = "sign_in_failed" /\ req[r].pc = "verify" /\ subject = req[r].target
    PROVE  IdentityInv'
<1>0. AccessTypeOK /\ now \in Nat
  BY Limits DEF IdentityInv, AccessTypeOK
<1>1. PICK a \in AuditRecords :
         /\ audit' = audit \cup {a} /\ a.action = action /\ a.subject = subject
         /\ a.reason = reason /\ a.at = now
  BY <1>0, Noted
<1>2. audit' \subseteq AuditRecords /\ IsFiniteSet(audit')
  BY <1>0, <1>1, TrailTyped
<1>3. AccessTypeOK'
  BY <1>0, <1>2 DEF AccessTypeOK, Alone
<1>4. Grows(r)
  BY <1>1 DEF Grows, Alone
<1>5. RequestAgrees(r)'
  BY <1>0 DEF RequestAgrees
<1>6. action = "user_created" =>
        /\ subject \in Usernames /\ users[subject] # None
        /\ \A b \in Created : b.subject # subject
  BY DEF IdentityInv, RequestAgrees
<1>7. TrailAgrees'
  BY <1>1, <1>6, TrailGrows
<1>8. GuessesAreBounded'
  <2>1. CASE reason \in {"bad_password", "unknown_or_inactive"}
    BY <1>1, <2>1, GuessAdded
  <2>2. CASE reason \notin {"bad_password", "unknown_or_inactive"}
    BY <1>1, <2>2, GuessesKept
  <2> QED
    BY <2>1, <2>2
<1>9. ~OnEventLoop(r)'
  BY DEF OnEventLoop
<1> QED
  BY <1>3, <1>4, <1>5, <1>7, <1>8, <1>9, OneMoves

\* A handler that records and answers, and does no more.
LEMMA RecordAndReply ==
    ASSUME IdentityInv, NEW r \in Requests, NEW action \in Actions,
           NEW subject \in Usernames \cup {"sistem", "invalid"}, NEW reason \in Reasons,
           NEW result \in Results,
           RecordAuditEvent(action, subject, reason), Reply(r, result),
           UNCHANGED <<now, users, sessions, signedIn>>,
           action = "sign_in_failed" => OnEventLoop(r) \/ EventLoopFree,
           action = "user_created" =>
               req[r].pc = "audit_user" /\ subject = req[r].target,
           reason \in {"bad_password", "unknown_or_inactive"} =>
               action = "sign_in_failed" /\ req[r].pc = "verify" /\ subject = req[r].target
    PROVE  IdentityInv'
<1>1. AccessTypeOK
  BY DEF IdentityInv
<1>2. Alone(r) /\ req'[r].pc = "done" /\ req'[r].moment = 0
  BY <1>1, Replied
<1>3. \A t \in Tokens : SessionAgrees(t)'
  BY QuietSessions
<1>4. sessions' \in [Tokens -> Sessions \cup {None}] /\ signedIn' \in [Tokens -> SignIns]
  BY <1>1 DEF AccessTypeOK
<1> QED
  BY <1>2, <1>3, <1>4, NotedStep

\* A name that is no username is recorded as typed.
LEMMA SignInInvalidStep ==
    ASSUME IdentityInv, NEW r \in Requests, SignInInvalid(r)
    PROVE  IdentityInv'
<1>1. /\ "sign_in_failed" \in Actions /\ "invalid_username" \in Reasons /\ "failed" \in Results
      /\ "invalid_username" \notin {"bad_password", "unknown_or_inactive"}
  BY DEF Actions, Reasons, Results
<1>2. /\ RecordAuditEvent("sign_in_failed", "invalid", "invalid_username") /\ Reply(r, "failed")
      /\ UNCHANGED <<now, users, sessions, signedIn>> /\ EventLoopFree
  BY DEF SignInInvalid
<1> QED
  BY <1>1, <1>2, RecordAndReply

\* The throttle counts, and refuses or lets through.
LEMMA CountFailuresStep ==
    ASSUME IdentityInv, NEW r \in Requests, CountFailures(r)
    PROVE  IdentityInv'
<1>0. /\ AccessTypeOK /\ now \in Nat /\ RequestAgrees(r) /\ req[r].pc = "count"
      /\ req[r].target \in Usernames /\ OnEventLoop(r)
      /\ UNCHANGED <<now, users, sessions, signedIn>>
  BY Limits DEF IdentityInv, AccessTypeOK, RequestAgrees, CountFailures, At, OnEventLoop
<1>1. CASE IsThrottled(r)
  <2>1. /\ "sign_in_failed" \in Actions /\ "throttled" \in Reasons /\ "throttled" \in Results
        /\ "throttled" \notin {"bad_password", "unknown_or_inactive"}
    BY DEF Actions, Reasons, Results
  <2>2. RecordAuditEvent("sign_in_failed", req[r].target, "throttled") /\ Reply(r, "throttled")
    BY <1>1 DEF CountFailures
  <2> QED
    BY <1>0, <2>1, <2>2, RecordAndReply
<1>2. CASE ~IsThrottled(r)
  <2>1. Move(r, "verify") /\ audit' = audit /\ "verify" \in PCs
    BY <1>2 DEF CountFailures, PCs
  <2>2. /\ Alone(r) /\ req'[r].pc = "verify" /\ req'[r].target = req[r].target
        /\ req'[r].moment = req[r].moment
    BY <1>0, <2>1, Moved
  <2>3. AccessTypeOK' /\ Grows(r)
    BY <1>0, <2>1, <2>2 DEF AccessTypeOK, Alone, Grows
  <2>4. ~IsThrottled(r)'
    BY <1>2, <2>1, <2>2 DEF IsThrottled, Recent
  <2>5. RequestAgrees(r)'
    BY <1>0, <2>2, <2>4 DEF RequestAgrees
  <2> QED
    BY <1>0, <2>1, <2>2, <2>3, <2>5, QuietTrail, QuietSessions, OneMoves
<1> QED
  BY <1>1, <1>2

\* The password is checked: a guess is recorded, or a session will be opened.
LEMMA VerifyStep ==
    ASSUME IdentityInv, NEW r \in Requests, NEW passwordMatches \in BOOLEAN,
           Verify(r, passwordMatches)
    PROVE  IdentityInv'
<1>0. /\ AccessTypeOK /\ now \in Nat /\ RequestAgrees(r) /\ req[r].pc = "verify"
      /\ req[r].target \in Usernames /\ OnEventLoop(r)
      /\ UNCHANGED <<now, users, sessions, signedIn>>
  BY Limits DEF IdentityInv, AccessTypeOK, RequestAgrees, Verify, At, OnEventLoop
<1>1. CASE users[req[r].target] # None /\ passwordMatches
  <2>1. Move(r, "open") /\ audit' = audit /\ "open" \in PCs
    BY <1>1 DEF Verify, PCs
  <2>2. /\ Alone(r) /\ req'[r].pc = "open" /\ req'[r].target = req[r].target
        /\ req'[r].moment = req[r].moment
    BY <1>0, <2>1, Moved
  <2>3. AccessTypeOK' /\ Grows(r)
    BY <1>0, <2>1, <2>2 DEF AccessTypeOK, Alone, Grows
  <2>4. RequestAgrees(r)'
    BY <1>0, <1>1, <2>2 DEF RequestAgrees
  <2> QED
    BY <1>0, <2>1, <2>2, <2>3, <2>4, QuietTrail, QuietSessions, OneMoves
<1>2. CASE ~(users[req[r].target] # None /\ passwordMatches)
  <2> DEFINE reason == IF users[req[r].target] = None THEN "unknown_or_inactive" ELSE "bad_password"
  <2>1. /\ "sign_in_failed" \in Actions /\ reason \in Reasons /\ "failed" \in Results
    BY DEF Actions, Reasons, Results
  <2>2. RecordAuditEvent("sign_in_failed", req[r].target, reason) /\ Reply(r, "failed")
    BY <1>2 DEF Verify
  <2>3. PICK x \in Reasons : x = reason
    BY <2>1
  <2>4. RecordAuditEvent("sign_in_failed", req[r].target, x)
    BY <2>2, <2>3
  <2> QED
    BY <1>0, <2>1, <2>2, <2>4, RecordAndReply
<1> QED
  BY <1>1, <1>2

\* A session opens for the one whose password matched.
LEMMA OpenSessionStep ==
    ASSUME IdentityInv, NEW r \in Requests, NEW t \in Tokens, OpenSession(r, t)
    PROVE  IdentityInv'
<1> DEFINE kept == [x \in Tokens |-> IF sessions[x] # None /\ sessions[x].expires <= req[r].moment
                                     THEN None ELSE sessions[x]]
           s == [user |-> req[r].target, seen |-> req[r].moment, expires |-> req[r].moment + Lifetime]
           i == [user |-> req[r].target, at |-> req[r].moment, out |-> FALSE]
<1>0. /\ AccessTypeOK /\ now \in Nat /\ RequestAgrees(r) /\ req[r].pc = "open"
      /\ req[r].target \in Usernames /\ users[req[r].target] # None /\ OnEventLoop(r)
      /\ req[r].moment \in 0..MaxTime /\ req[r].moment <= now
      /\ UNCHANGED <<now, users, audit>>
  BY Limits DEF IdentityInv, AccessTypeOK, RequestAgrees, OpenSession, At, OnEventLoop, RequestRecords
<1>1. s \in Sessions /\ i \in SignIns
  BY <1>0, Limits DEF Sessions, SignIns
<1>2. /\ s.user = req[r].target /\ s.seen = req[r].moment /\ s.expires = req[r].moment + Lifetime
      /\ i.user = req[r].target /\ i.at = req[r].moment /\ i.out = FALSE
  OBVIOUS
<1>3. kept \in [Tokens -> Sessions \cup {None}] /\ \A x \in Tokens : kept[x] \in {None, sessions[x]}
  BY <1>0 DEF AccessTypeOK
<1>4. sessions' = [kept EXCEPT ![t] = s] /\ signedIn' = [signedIn EXCEPT ![t] = i]
  BY DEF OpenSession
<1> HIDE DEF kept, s, i
<1>5. /\ sessions' \in [Tokens -> Sessions \cup {None}] /\ signedIn' \in [Tokens -> SignIns]
      /\ sessions'[t] = s /\ signedIn'[t] = i
      /\ \A x \in Tokens \ {t} : sessions'[x] \in {None, sessions[x]} /\ signedIn'[x] = signedIn[x]
  BY <1>0, <1>1, <1>3, <1>4 DEF AccessTypeOK
<1>6. ASSUME NEW x \in Tokens PROVE SessionAgrees(x)'
  <2>1. CASE x = t
    BY <1>0, <1>2, <1>5, <2>1 DEF SessionAgrees
  <2>2. CASE x # t
    BY <1>0, <1>5, <2>2 DEF SessionAgrees, IdentityInv
  <2> QED
    BY <2>1, <2>2
<1>7. Move(r, "audit_sign_in") /\ "audit_sign_in" \in PCs
  BY DEF OpenSession, PCs
<1>8. /\ Alone(r) /\ req'[r].pc = "audit_sign_in" /\ req'[r].target = req[r].target
      /\ req'[r].moment = req[r].moment
  BY <1>0, <1>7, Moved
<1>9. AccessTypeOK' /\ Grows(r)
  BY <1>0, <1>5, <1>8 DEF AccessTypeOK, Alone, Grows
<1>10. RequestAgrees(r)'
  BY <1>0, <1>8 DEF RequestAgrees
<1> QED
  BY <1>0, <1>6, <1>8, <1>9, <1>10, QuietTrail, OneMoves

\* A sign-in is recorded.
LEMMA AuditSignInStep ==
    ASSUME IdentityInv, NEW r \in Requests, AuditSignIn(r)
    PROVE  IdentityInv'
<1>1. req[r].target \in Usernames
  BY DEF IdentityInv, RequestAgrees, AuditSignIn, At
<1>2. /\ "sign_in_succeeded" \in Actions /\ "none" \in Reasons /\ "signed_in" \in Results
      /\ "none" \notin {"bad_password", "unknown_or_inactive"}
  BY DEF Actions, Reasons, Results
<1>3. /\ RecordAuditEvent("sign_in_succeeded", req[r].target, "none") /\ Reply(r, "signed_in")
      /\ UNCHANGED <<now, users, sessions, signedIn>>
  BY DEF AuditSignIn
<1> QED
  BY <1>1, <1>2, <1>3, RecordAndReply

\* A sign-out ends the session of the cookie.
LEMMA SignOutStep ==
    ASSUME IdentityInv, NEW r \in Requests, SignOut(r)
    PROVE  IdentityInv'
<1>0. /\ AccessTypeOK /\ req[r] \in RequestRecords /\ EventLoopFree
      /\ UNCHANGED <<now, users>> /\ Reply(r, "signed_out")
  BY DEF IdentityInv, AccessTypeOK, SignOut
<1>1. "signed_out" \in Results
  BY DEF Results
<1>2. CASE req[r].caller # NoCaller /\ req[r].cookie # None
  <2>1. req[r].cookie \in Tokens /\ req[r].caller.name \in Usernames \cup {"sistem"}
    BY <1>0, <1>2 DEF RequestRecords, Callers, StandIn
  <2>2. /\ sessions' = [sessions EXCEPT ![req[r].cookie] = None]
        /\ signedIn' = [signedIn EXCEPT ![req[r].cookie].out = TRUE]
        /\ RecordAuditEvent("sign_out", req[r].caller.name, "none")
    BY <1>2 DEF SignOut
  <2>3. /\ sessions' \in [Tokens -> Sessions \cup {None}] /\ sessions'[req[r].cookie] = None
        /\ \A x \in Tokens \ {req[r].cookie} : sessions'[x] = sessions[x]
    BY <1>0, <2>1, <2>2 DEF AccessTypeOK
  <2>4. /\ signedIn' \in [Tokens -> SignIns]
        /\ \A x \in Tokens \ {req[r].cookie} : signedIn'[x] = signedIn[x]
    BY <1>0, <2>1, <2>2 DEF AccessTypeOK, SignIns
  <2>5. ASSUME NEW x \in Tokens PROVE SessionAgrees(x)'
    BY <1>0, <2>3, <2>4 DEF SessionAgrees, IdentityInv
  <2>6. /\ "sign_out" \in Actions /\ "none" \in Reasons
        /\ "none" \notin {"bad_password", "unknown_or_inactive"}
    BY DEF Actions, Reasons
  <2>7. Alone(r) /\ req'[r].pc = "done" /\ req'[r].moment = 0
    BY <1>0, <1>1, Replied
  <2>8. PICK u \in Usernames \cup {"sistem", "invalid"} : u = req[r].caller.name
    BY <2>1
  <2>9. RecordAuditEvent("sign_out", u, "none")
    BY <2>2, <2>8
  <2> QED
    BY <1>0, <2>3, <2>4, <2>5, <2>6, <2>7, <2>9, NotedStep
<1>3. CASE ~(req[r].caller # NoCaller /\ req[r].cookie # None)
  <2>1. UNCHANGED <<now, users, sessions, audit, signedIn>>
    BY <1>3 DEF SignOut
  <2> QED
    BY <1>0, <1>1, <2>1, AnswerStep
<1> QED
  BY <1>2, <1>3

\* The account is inserted, or the unique index refuses it.
LEMMA InsertUserStep ==
    ASSUME IdentityInv, NEW r \in Requests, NEW role \in Roles, InsertUser(r, role)
    PROVE  IdentityInv'
<1>0. /\ AccessTypeOK /\ now \in Nat /\ RequestAgrees(r) /\ req[r].pc = "insert"
      /\ req[r].target \in Usernames /\ role # None
      /\ UNCHANGED <<now, sessions, audit, signedIn>>
  BY Limits, NoneIsNoRole DEF IdentityInv, AccessTypeOK, RequestAgrees, InsertUser, At
<1>1. CASE users[req[r].target] = None
  <2>1. users' = [users EXCEPT ![req[r].target] = role] /\ Move(r, "audit_user") /\ "audit_user" \in PCs
    BY <1>1 DEF InsertUser, PCs
  <2>2. /\ users' \in [Usernames -> Roles \cup {None}] /\ users'[req[r].target] = role
        /\ \A u \in Usernames : users[u] # None => users'[u] = users[u]
    BY <1>0, <1>1, <2>1 DEF AccessTypeOK
  <2>3. /\ Alone(r) /\ req'[r].pc = "audit_user" /\ req'[r].target = req[r].target
        /\ req'[r].moment = req[r].moment /\ req'[r].route = req[r].route
    BY <1>0, <2>1, Moved
  <2>4. AccessTypeOK'
    BY <1>0, <2>2, <2>3 DEF AccessTypeOK, Alone
  <2>5. Grows(r)
    BY <1>0, <2>2, <2>3 DEF Grows, Alone
  <2>6. \A a \in Created : a.subject # req[r].target
    BY <1>1 DEF IdentityInv, TrailAgrees
  <2>7. RequestAgrees(r)'
    BY <1>0, <2>2, <2>3, <2>6 DEF RequestAgrees, Created
  <2>8. ASSUME NEW t \in Tokens PROVE SessionAgrees(t)'
    <3>1. sessions[t] # None => sessions[t].user \in Usernames
      BY <1>0 DEF AccessTypeOK, Sessions
    <3>2. SessionAgrees(t)
      BY DEF IdentityInv
    <3> QED
      BY <1>0, <2>2, <3>1, <3>2 DEF SessionAgrees
  <2>9. TrailAgrees'
    <3>1. TrailAgrees
      BY DEF IdentityInv
    <3>2. \A a \in Created' : a.subject \in Usernames /\ users'[a.subject] # None
      BY <1>0, <2>2, <3>1 DEF TrailAgrees, Created
    <3> QED
      BY <1>0, <3>1, <3>2 DEF TrailAgrees, Created
  <2>10. GuessesAreBounded'
    BY <1>0 DEF IdentityInv, GuessesAreBounded, Guesses
  <2>11. OnEventLoop(r)' => OnEventLoop(r)
    BY <1>0, <2>3 DEF OnEventLoop
  <2>12. \A q \in Requests \ {r} : req[q].pc = "audit_user" => req[q].target # req'[r].target
    BY <1>1, <2>3 DEF IdentityInv, RequestAgrees
  <2> QED
    BY <2>4, <2>5, <2>7, <2>8, <2>9, <2>10, <2>11, <2>12, OneMoves
<1>2. CASE users[req[r].target] # None
  <2>1. Reply(r, "storage_error") /\ UNCHANGED users /\ "storage_error" \in Results
    BY <1>2 DEF InsertUser, Results
  <2> QED
    BY <1>0, <2>1, AnswerStep
<1> QED
  BY <1>1, <1>2

\* The creation of an account is recorded.
LEMMA AuditUserStep ==
    ASSUME IdentityInv, NEW r \in Requests, AuditUser(r)
    PROVE  IdentityInv'
<1>1. req[r].target \in Usernames /\ req[r].pc = "audit_user"
  BY DEF IdentityInv, RequestAgrees, AuditUser, At
<1>2. /\ "user_created" \in Actions /\ "none" \in Reasons /\ "created" \in Results
      /\ "none" \notin {"bad_password", "unknown_or_inactive"}
  BY DEF Actions, Reasons, Results
<1>3. /\ RecordAuditEvent("user_created", req[r].target, "none") /\ Reply(r, "created")
      /\ UNCHANGED <<now, users, sessions, signedIn>>
  BY DEF AuditUser
<1> QED
  BY <1>1, <1>2, <1>3, RecordAndReply

\* At first nobody is signed in and nothing is recorded.
LEMMA InitLemma == Init => IdentityInv
<1> SUFFICES ASSUME Init PROVE IdentityInv
  OBVIOUS
<1>0. /\ now = 0 /\ 0 \in 0..MaxTime /\ sessions = [t \in Tokens |-> None] /\ audit = {}
      /\ req = [r \in Requests |-> NoRequest]
      /\ signedIn = [t \in Tokens |-> [user |-> None, at |-> 0, out |-> FALSE]]
  BY Limits DEF Init
<1>1. users \in [Usernames -> Roles \cup {None}]
  BY DEF Init, Roles
<1>2. NoRequest \in RequestRecords /\ NoRequest.pc = "new" /\ NoRequest.moment = 0
  BY NoRequestFacts DEF PCs, Results, NoRequest
<1>3. [user |-> None, at |-> 0, out |-> FALSE] \in SignIns
  BY <1>0 DEF SignIns
<1>4. AccessTypeOK
  BY <1>0, <1>1, <1>2, <1>3, FS_EmptySet DEF AccessTypeOK
<1>5. \A r \in Requests : req[r] = NoRequest
  BY <1>0
<1>6. (\A t \in Tokens : SessionAgrees(t)) /\ TrailAgrees
  BY <1>0 DEF SessionAgrees, TrailAgrees, Created
<1>7. (\A r \in Requests : RequestAgrees(r)) /\ LoopAgrees /\ CreationsAgree
  BY <1>0, <1>2, <1>5 DEF RequestAgrees, LoopAgrees, OnEventLoop, CreationsAgree
<1>8. GuessesAreBounded
  <2>1. ASSUME NEW u \in Usernames, NEW from \in 0..MaxTime PROVE Guesses(u, from) = {}
    BY <1>0 DEF Guesses
  <2>2. Cardinality({}) = 0 /\ 0 <= MaxFailures
    BY FS_EmptySet, Limits
  <2> QED
    BY <2>1, <2>2 DEF GuessesAreBounded
<1> QED
  BY <1>4, <1>6, <1>7, <1>8 DEF IdentityInv

\* Every step keeps the strengthening.
LEMMA NextLemma == IdentityInv /\ [Next]_vars => IdentityInv'
<1> SUFFICES ASSUME IdentityInv, [Next]_vars PROVE IdentityInv'
  OBVIOUS
<1>1. CASE Tick
  BY <1>1, TickStep
<1>2. ASSUME NEW r \in Requests, NEW route \in Routes, NEW cookie \in Tokens \cup {None},
             Arrive(r, route, cookie)
      PROVE  IdentityInv'
  BY <1>2, ArriveStep
<1>3. ASSUME NEW r \in Requests, NEW match \in BOOLEAN, Body(r, match) \/ Verify(r, match)
      PROVE  IdentityInv'
  BY <1>3, BodyStep, VerifyStep
<1>4. ASSUME NEW r \in Requests, NEW u \in Usernames, StartSignIn(r, u) \/ CheckUsername(r, u)
      PROVE  IdentityInv'
  BY <1>4, TargetStep
<1>5. ASSUME NEW r \in Requests, NEW t \in Tokens, OpenSession(r, t) PROVE IdentityInv'
  BY <1>5, OpenSessionStep
<1>6. ASSUME NEW r \in Requests, NEW role \in Roles, InsertUser(r, role) PROVE IdentityInv'
  BY <1>6, InsertUserStep
<1>7. ASSUME NEW r \in Requests, ServePage(r) \/ InvalidUser(r) PROVE IdentityInv'
  <2>1. "served" \in Results /\ "invalid" \in Results
    BY DEF Results
  <2> QED
    BY <1>7, <2>1, AnswerStep DEF ServePage, InvalidUser
<1>8. ASSUME NEW r \in Requests, SignInInvalid(r) \/ CountFailures(r) \/ AuditSignIn(r)
      PROVE  IdentityInv'
  BY <1>8, SignInInvalidStep, CountFailuresStep, AuditSignInStep
<1>9. ASSUME NEW r \in Requests, SignOut(r) \/ AuditUser(r) PROVE IdentityInv'
  BY <1>9, SignOutStep, AuditUserStep
<1>10. CASE UNCHANGED vars
  BY <1>10 DEF vars, IdentityInv, AccessTypeOK, SessionAgrees, RequestAgrees, TrailAgrees, Created,
     LoopAgrees, OnEventLoop, CreationsAgree, GuessesAreBounded, Guesses, IsThrottled, Recent
<1> QED
  BY <1>1, <1>2, <1>3, <1>4, <1>5, <1>6, <1>7, <1>8, <1>9, <1>10 DEF Next

-----------------------------------------------------------------------------
(* What follows.                                                           *)

\* Sessions are of those who signed in, the event loop runs one coroutine between its
\* awaits, and what a request has found out about the throttle, the password and the
\* free username still holds when it acts on it.
THEOREM IdentityInvariant == Spec => []IdentityInv
  BY InitLemma, NextLemma, PTL DEF Spec

\* The tables keep rows of their kinds.
LEMMA TypeLemma == IdentityInv => TypeOK
<1> SUFFICES ASSUME IdentityInv PROVE TypeOK
  OBVIOUS
<1>1. AccessTypeOK
  BY DEF IdentityInv
<1>2. ASSUME NEW t \in Tokens, sessions[t] # None
      PROVE  sessions[t].user \in Accounts /\ sessions[t].seen <= now
  BY <1>1, <1>2 DEF IdentityInv, SessionAgrees, AccessTypeOK, Sessions, Accounts
<1> QED
  BY <1>1, <1>2 DEF AccessTypeOK, TypeOK, RequestRecords, SignIns

\* One record at most claims the creation of an account.
LEMMA OnceLemma == IdentityInv => AccountsAreCreatedOnce
<1> SUFFICES ASSUME IdentityInv, NEW u \in Usernames
             PROVE  LET created == {a \in audit : a.action = "user_created" /\ a.subject = u}
                    IN Cardinality(created) <= 1 /\ (created # {} => users[u] # None)
  BY DEF AccountsAreCreatedOnce
<1> DEFINE created == {a \in audit : a.action = "user_created" /\ a.subject = u}
<1>1. \A a \in created : a \in Created /\ a.subject = u
  BY DEF Created
<1>2. \A a, b \in created : a = b
  BY <1>1 DEF IdentityInv, TrailAgrees
<1>3. created # {} => users[u] # None
  BY <1>1 DEF IdentityInv, TrailAgrees
<1> HIDE DEF created
<1>4. created = {} \/ \E a : created = {a}
  BY <1>2
<1>5. Cardinality(created) <= 1
  BY <1>4, FS_EmptySet, FS_Singleton
<1> QED
  BY <1>3, <1>5 DEF created

\* AccessInv: rows of their kinds, and one account for each creation in the trail.
\* The unique index on usernames refuses the later of two inserts, and the request it
\* refuses records nothing.
THEOREM TablesOfIdentity == Spec => []AccessInv
<1>1. IdentityInv => AccessInv
  BY TypeLemma, OnceLemma DEF AccessInv
<1> QED
  BY <1>1, IdentityInvariant, PTL

\* GuessesAreBounded: the count that let an attempt through is still the count when the
\* attempt is recorded, since no other sign-in runs between the two, and the window it
\* counted reaches further back than any window that holds the attempt.
THEOREM ThrottleHolds == Spec => []GuessesAreBounded
<1>1. IdentityInv => GuessesAreBounded
  BY DEF IdentityInv
<1> QED
  BY <1>1, IdentityInvariant, PTL

\* A caller that a cookie resolves to signed in with it, lately, and has not left.
LEMMA ResolvedCaller ==
    ASSUME IdentityInv, NEW cookie \in Tokens \cup {None}, CallerOf(cookie).token # None
    PROVE  LET caller == CallerOf(cookie)
           IN /\ signedIn[caller.token].user = caller.name
              /\ now < signedIn[caller.token].at + Lifetime
              /\ ~signedIn[caller.token].out
<1>1. Resolves(cookie)
  BY DEF CallerOf, NoCaller
<1>2. CallerOf(cookie).token = cookie /\ CallerOf(cookie).name = sessions[cookie].user
  BY <1>1 DEF CallerOf
<1>3. cookie \in Tokens /\ sessions[cookie] # None /\ ~(now >= sessions[cookie].expires)
  BY <1>1 DEF Resolves, IsExpired
<1>4. SessionAgrees(cookie) /\ now \in Nat /\ sessions[cookie].expires \in Nat
  BY <1>3, Limits DEF IdentityInv, AccessTypeOK, Sessions
<1>5. now < sessions[cookie].expires
  BY <1>3, <1>4
<1> QED
  BY <1>2, <1>3, <1>4, <1>5 DEF SessionAgrees

\* The caller of a request is set when it arrives, and forgotten when it is answered.
LEMMA CallerKept ==
    ASSUME IdentityInv, [Next]_vars, NEW r \in Requests
    PROVE  \/ req'[r].caller \in {req[r].caller, NoCaller}
           \/ \E route \in Routes, cookie \in Tokens \cup {None} : Arrive(r, route, cookie)
<1>0. AccessTypeOK
  BY DEF IdentityInv
<1>1. ASSUME NEW q \in Requests, NEW result \in Results, Reply(q, result)
      PROVE  req'[r].caller \in {req[r].caller, NoCaller}
  BY <1>0, <1>1, Replied DEF Alone
<1>2. ASSUME NEW q \in Requests, NEW pc \in PCs, Move(q, pc)
      PROVE  req'[r].caller = req[r].caller
  BY <1>0, <1>2, Moved DEF Alone
<1>3. /\ {"served", "failed", "throttled", "signed_in", "signed_out", "invalid", "exists", "created",
          "storage_error"} \subseteq Results
      /\ {"verify", "open", "audit_sign_in", "audit_user"} \subseteq PCs
  BY DEF Results, PCs
<1>4. CASE Tick \/ UNCHANGED vars
  BY <1>4 DEF Tick, vars
<1>5. ASSUME NEW q \in Requests, NEW route \in Routes, NEW cookie \in Tokens \cup {None},
             Arrive(q, route, cookie), q # r
      PROVE  req'[r].caller = req[r].caller
  BY <1>0, <1>5 DEF Arrive, AccessTypeOK
<1>6. ASSUME NEW q \in Requests, NEW match \in BOOLEAN, Body(q, match)
      PROVE  req'[r].caller \in {req[r].caller, NoCaller}
  <2> DEFINE verdict == IF match THEN Authorize(req[q].caller, req[q].route) ELSE "csrf"
             n == Decided(req[q], verdict)
  <2>1. verdict \in Results \cup {"handle"}
    BY VerdictTyped DEF Results
  <2>2. req[q] \in RequestRecords
    BY <1>0 DEF AccessTypeOK
  <2>3. req' = [req EXCEPT ![q] = n]
    BY <1>6 DEF Body
  <2>4. n.caller \in {NoCaller, req[q].caller}
    <3> HIDE DEF verdict
    <3> QED
      BY <2>1, <2>2, DecidedFacts
  <2> HIDE DEF n
  <2> QED
    BY <1>0, <2>3, <2>4 DEF AccessTypeOK
<1>7. ASSUME NEW q \in Requests, NEW match \in BOOLEAN, Verify(q, match)
      PROVE  req'[r].caller \in {req[r].caller, NoCaller}
  BY <1>1, <1>2, <1>3, <1>7 DEF Verify
<1>8. ASSUME NEW q \in Requests, NEW u \in Usernames, StartSignIn(q, u)
      PROVE  req'[r].caller = req[r].caller
  BY <1>0, <1>8 DEF StartSignIn, AccessTypeOK, RequestRecords
<1>9. ASSUME NEW q \in Requests, NEW u \in Usernames, CheckUsername(q, u)
      PROVE  req'[r].caller \in {req[r].caller, NoCaller}
  <2>1. CASE users[u] = None
    BY <1>0, <1>9, <2>1 DEF CheckUsername, AccessTypeOK, RequestRecords
  <2>2. CASE users[u] # None
    BY <1>1, <1>3, <1>9, <2>2 DEF CheckUsername
  <2> QED
    BY <2>1, <2>2
<1>10. ASSUME NEW q \in Requests, NEW t \in Tokens, OpenSession(q, t)
       PROVE  req'[r].caller = req[r].caller
  BY <1>2, <1>3, <1>10 DEF OpenSession
<1>11. ASSUME NEW q \in Requests, NEW role \in Roles, InsertUser(q, role)
       PROVE  req'[r].caller \in {req[r].caller, NoCaller}
  BY <1>1, <1>2, <1>3, <1>11 DEF InsertUser
<1>12. ASSUME NEW q \in Requests,
              ServePage(q) \/ SignInInvalid(q) \/ InvalidUser(q) \/ AuditSignIn(q) \/ SignOut(q)
                \/ AuditUser(q)
       PROVE  req'[r].caller \in {req[r].caller, NoCaller}
  BY <1>1, <1>3, <1>12 DEF ServePage, SignInInvalid, InvalidUser, AuditSignIn, SignOut, AuditUser
<1>13. ASSUME NEW q \in Requests, CountFailures(q)
       PROVE  req'[r].caller \in {req[r].caller, NoCaller}
  BY <1>1, <1>2, <1>3, <1>13 DEF CountFailures
<1> QED
  BY <1>4, <1>5, <1>6, <1>7, <1>8, <1>9, <1>10, <1>11, <1>12, <1>13 DEF Next

\* CallersAreAuthentic: a request acts as a person only through a session which that
\* person opened less than Lifetime before and had not left, and as the stand-in
\* administrator only in a deployment without accounts that allows it.
THEOREM CallersOpenedTheirSessions == Spec => CallersAreAuthentic
<1> DEFINE Authentic(r) ==
             LET caller == req'[r].caller
             IN caller # req[r].caller =>
                  /\ caller.token # None =>
                        /\ signedIn[caller.token].user = caller.name
                        /\ now < signedIn[caller.token].at + Lifetime
                        /\ ~signedIn[caller.token].out
                  /\ caller = StandIn => Accounts = {} /\ AllowUnprovisioned
<1>1. ASSUME IdentityInv, [Next]_vars, NEW r \in Requests PROVE Authentic(r)
  <2>1. NoCaller.token = None /\ NoCaller # StandIn /\ StandIn.token = None
    BY NamesAreDistinct DEF NoCaller, StandIn
  <2>2. CASE req'[r].caller \in {req[r].caller, NoCaller}
    BY <2>1, <2>2
  <2>3. ASSUME NEW route \in Routes, NEW cookie \in Tokens \cup {None}, Arrive(r, route, cookie)
        PROVE  Authentic(r)
    <3> DEFINE caller == IF IsSystemProvisioned THEN CallerOf(cookie) ELSE StandIn
               request == [NoRequest EXCEPT !.route = route, !.cookie = cookie, !.caller = caller]
               verdict == IF IsSystemProvisioned THEN Authorize(caller, route) ELSE "handle"
               n == IF IsSystemProvisioned /\ RequiresCsrf(route)
                    THEN [request EXCEPT !.pc = "body"] ELSE Decided(request, verdict)
    <3>1. req' = [req EXCEPT ![r] = n]
      BY <2>3 DEF Arrive
    <3>2. n.caller \in {NoCaller, caller}
      <4>1. request.caller = caller
        BY DEF NoRequest
      <4>2. [request EXCEPT !.pc = "body"].caller = request.caller
        BY DEF NoRequest
      <4>3. Decided(request, verdict).caller \in {NoCaller, request.caller}
        BY DEF Decided, NoRequest
      <4> HIDE DEF caller, request, verdict
      <4> QED
        BY <4>1, <4>2, <4>3
    <3>3. req'[r].caller \in {NoCaller, caller}
      <4> HIDE DEF n
      <4> QED
        BY <1>1, <3>1, <3>2 DEF IdentityInv, AccessTypeOK
    <3> HIDE DEF n, request, verdict
    <3>4. CASE IsSystemProvisioned
      <4>1. caller = CallerOf(cookie)
        BY <3>4
      <4>2. CallerOf(cookie) # StandIn
        <5>1. Resolves(cookie) => sessions[cookie].user \in Usernames
          BY <1>1 DEF Resolves, IdentityInv, AccessTypeOK, Sessions
        <5> QED
          BY <2>1, <5>1, NamesAreDistinct DEF CallerOf, StandIn, Resolves
      <4> QED
        BY <1>1, <2>1, <3>3, <4>1, <4>2, ResolvedCaller
    <3>5. CASE ~IsSystemProvisioned
      BY <2>1, <3>3, <3>5 DEF IsSystemProvisioned
    <3> QED
      BY <3>4, <3>5
  <2> HIDE DEF Authentic
  <2> QED
    BY <1>1, <2>2, <2>3, CallerKept
<1>2. IdentityInv /\ [Next]_vars => [\A r \in Requests : Authentic(r)]_vars
  BY <1>1
<1> QED
  BY <1>2, IdentityInvariant, PTL DEF Spec, CallersAreAuthentic

\* A token signs in once.
LEMMA LiveTokensAreUsed ==
    ASSUME IdentityInv, NEW t \in Tokens, sessions[t] # None
    PROVE  signedIn[t].user # None
<1>1. SessionAgrees(t) /\ sessions[t].user \in Usernames
  BY DEF IdentityInv, AccessTypeOK, Sessions
<1> QED
  BY <1>1, NamesAreDistinct DEF SessionAgrees

\* IdleSessionsStayEnded: whoever comes with an idle session, and whatever else goes on,
\* its row is deleted or stays as it is.
THEOREM IdleSessionsEnd == Spec => IdleSessionsStayEnded
<1> DEFINE Ended(t) == (sessions[t] # None /\ IsIdle(sessions[t])) => sessions'[t] \in {None, sessions[t]}
<1>1. ASSUME IdentityInv, [Next]_vars, NEW t \in Tokens, sessions[t] # None, IsIdle(sessions[t])
      PROVE  sessions'[t] \in {None, sessions[t]}
  <2>0. sessions \in [Tokens -> Sessions \cup {None}]
    BY <1>1 DEF IdentityInv, AccessTypeOK
  <2>1. CASE sessions' = sessions
    BY <2>1
  <2>2. ASSUME NEW r \in Requests, NEW route \in Routes, NEW cookie \in Tokens \cup {None},
               Arrive(r, route, cookie)
        PROVE  sessions'[t] \in {None, sessions[t]}
    <3>1. sessions' \in {sessions, ResolvedSessions(cookie)}
      BY <2>2 DEF Arrive
    <3>2. ResolvedSessions(cookie)[t] \in {None, sessions[t]}
      BY <1>1, <2>0 DEF ResolvedSessions, Resolves
    <3> QED
      BY <3>1, <3>2
  <2>3. ASSUME NEW r \in Requests, NEW x \in Tokens, OpenSession(r, x)
        PROVE  sessions'[t] \in {None, sessions[t]}
    <3> DEFINE kept == [y \in Tokens |-> IF sessions[y] # None /\ sessions[y].expires <= req[r].moment
                                         THEN None ELSE sessions[y]]
               s == [user |-> req[r].target, seen |-> req[r].moment, expires |-> req[r].moment + Lifetime]
    <3>1. x # t
      BY <1>1, <2>3, LiveTokensAreUsed DEF OpenSession
    <3>2. kept \in [Tokens -> Sessions \cup {None}] /\ kept[t] \in {None, sessions[t]}
      BY <2>0
    <3>3. sessions' = [kept EXCEPT ![x] = s]
      BY <2>3 DEF OpenSession
    <3> HIDE DEF kept, s
    <3> QED
      BY <3>1, <3>2, <3>3
  <2>4. ASSUME NEW r \in Requests, SignOut(r)
        PROVE  sessions'[t] \in {None, sessions[t]}
    BY <2>0, <2>4 DEF SignOut
  <2> QED
    BY <1>1, <2>1, <2>2, <2>3, <2>4
    DEF Next, vars, Tick, Body, Verify, StartSignIn, CheckUsername, InsertUser, ServePage,
        SignInInvalid, InvalidUser, CountFailures, AuditSignIn, AuditUser
<1>2. IdentityInv /\ [Next]_vars => [\A t \in Tokens : Ended(t)]_vars
  BY <1>1
<1> QED
  BY <1>2, IdentityInvariant, PTL DEF Spec, IdleSessionsStayEnded
=============================================================================
