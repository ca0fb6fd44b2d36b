-------------------------- MODULE AgentAccessProofs --------------------------
(* Proofs about AgentAccess, for every set of credentials, names and       *)
(* scopes, every limit and window, and any clock.                          *)
EXTENDS AgentAccess, FiniteSetTheorems, TLAPS

-----------------------------------------------------------------------------
(* The inductive invariant.                                                *)

AgentTypeOK ==
    /\ clock \in 0..MaxClock
    /\ clients \in [Clients -> ClientRows \cup {Nothing}]
    /\ trail \subseteq CallRecords /\ IsFiniteSet(trail)
    /\ call \in Calls
    /\ crashes \in 0..MaxCrashes

\* The trail is of the past, under the names of the credentials.
TrailAgrees ==
    \A a \in trail : a.at <= clock /\ clients[a.client] # Nothing /\ a.name = clients[a.client].name

\* The call under way is of a credential in the table; one that the limiter has let
\* through is still below the limit, as nothing else is recorded before it is; and one
\* that it rejects has a full limit of calls before it.
CallAgrees ==
    /\ call.judged <= clock
    /\ call.pc # "none" => call.client \in Clients /\ clients[call.client] # Nothing
    /\ call.pc = "run" => call.outcome = "failed"
    /\ call.pc = "limit" => call.outcome = "failed"
    /\ call.pc \in {"run", "audit"} /\ call.outcome # "rate_limited" => ~IsRateLimited(call.client)
    /\ call.pc = "audit" => call.outcome \in {"succeeded", "failed", "rate_limited"}
    /\ call.outcome = "rate_limited" =>
          Cardinality(InWindowBefore(clients[call.client].name, call.judged)) >= MaxCalls

\* The strengthening behind the properties of AgentAccess.
CallsInv ==
    /\ AgentTypeOK
    /\ TrailAgrees
    /\ CallAgrees
    /\ ActiveNamesAreUnique
    /\ RejectionsDoNotExtendTheBlock
    /\ RunsAreBounded

-----------------------------------------------------------------------------
(* Counts, and records of a call.                                          *)

\* The bounds are counts.
LEMMA Limits ==
    MaxCalls \in Nat /\ CallWindow \in Nat /\ MaxClock \in Nat /\ MaxCrashes \in Nat
  BY CountsAreNatural

\* A part of a finite set has no more elements.
LEMMA PartsAreSmaller ==
    ASSUME NEW S, NEW T, IsFiniteSet(T), S \subseteq T
    PROVE  Cardinality(S) \in Nat /\ Cardinality(T) \in Nat /\ Cardinality(S) <= Cardinality(T)
<1>1. IsFiniteSet(S) /\ Cardinality(S) <= Cardinality(T)
  BY FS_Subset
<1> QED
  BY <1>1, FS_CardinalityType

\* One element more than fewer than k is at most k.
LEMMA OneMore ==
    ASSUME NEW T, NEW G, NEW a, NEW k \in Nat, IsFiniteSet(T), ~(Cardinality(T) >= k),
           G \subseteq T \cup {a}
    PROVE  Cardinality(G) <= k
<1>1. Cardinality(T) \in Nat
  BY FS_CardinalityType
<1>2. /\ IsFiniteSet(T \cup {a})
      /\ Cardinality(T \cup {a}) = IF a \in T THEN Cardinality(T) ELSE Cardinality(T) + 1
  BY FS_AddElement
<1>3. Cardinality(T \cup {a}) <= k
  BY <1>1, <1>2
<1>4. /\ Cardinality(G) \in Nat /\ Cardinality(T \cup {a}) \in Nat
      /\ Cardinality(G) <= Cardinality(T \cup {a})
  BY <1>2, PartsAreSmaller
<1> QED
  BY <1>3, <1>4

\* A record of now, under the name of the credential.
LEMMA Noted ==
    ASSUME AgentTypeOK, NEW c \in Clients, clients[c] # Nothing, NEW tool \in Tools,
           NEW outcome \in Outcomes, NEW judged \in 0..MaxClock, Audit(c, tool, outcome, judged)
    PROVE  \E a \in CallRecords :
              /\ trail' = trail \cup {a} /\ a.client = c /\ a.name = clients[c].name
              /\ a.outcome = outcome /\ a.at = clock /\ a.judged = judged
<1> DEFINE alike == {a \in trail : /\ a.client = c /\ a.tool = tool
                                   /\ a.outcome = outcome /\ a.at = clock}
           new == [client |-> c, name |-> clients[c].name, tool |-> tool, outcome |-> outcome,
                   at |-> clock, judged |-> judged, n |-> Cardinality(alike)]
<1>1. Cardinality(alike) \in Nat
  <2>1. alike \subseteq trail /\ IsFiniteSet(trail)
    BY DEF AgentTypeOK
  <2> HIDE DEF alike
  <2> QED
    BY <2>1, PartsAreSmaller
<1>2. trail' = trail \cup {new}
  BY DEF Audit
<1> HIDE DEF alike
<1>3. /\ new \in CallRecords /\ new.client = c /\ new.name = clients[c].name
      /\ new.outcome = outcome /\ new.at = clock /\ new.judged = judged
  BY <1>1 DEF CallRecords, AgentTypeOK, ClientRows
<1> HIDE DEF new
<1> QED
  BY <1>2, <1>3

\* Without a call under way there is nothing to agree with.
LEMMA NoCallFacts ==
    /\ NoCall \in Calls /\ NoCall.pc = "none" /\ NoCall.outcome = "failed" /\ NoCall.judged = 0
  BY Limits DEF NoCall, Calls, Tools, Outcomes

\* What the limiter counted is in the window that it looked at.
LEMMA CountedIsInWindow ==
    ASSUME AgentTypeOK, TrailAgrees, NEW c \in Clients, IsRateLimited(c)
    PROVE  Cardinality(InWindowBefore(clients[c].name, clock)) >= MaxCalls
<1> DEFINE counted == RecentByActor(clients[c].name, clock - CallWindow)
           before == InWindowBefore(clients[c].name, clock)
<1>0. clock \in Nat /\ IsFiniteSet(trail) /\ MaxCalls \in Nat /\ CallWindow \in Nat
  BY Limits DEF AgentTypeOK
<1>1. Cardinality(counted) >= MaxCalls
  BY DEF IsRateLimited
<1>2. counted \subseteq before
  <2> SUFFICES ASSUME NEW g \in counted PROVE g \in before
    OBVIOUS
  <2>1. /\ g \in trail /\ g.outcome # "rate_limited" /\ g.name = clients[c].name
        /\ g.at >= clock - CallWindow
    BY DEF RecentByActor, ToolCalls
  <2>2. g.at \in 0..MaxClock /\ g.at <= clock
    BY <2>1 DEF AgentTypeOK, CallRecords, TrailAgrees
  <2>3. g.at \in (clock - CallWindow)..clock
    BY <1>0, Limits, <2>1, <2>2
  <2> QED
    BY <2>1, <2>3 DEF InWindowBefore
<1>3. before \subseteq trail
  BY DEF InWindowBefore
<1> HIDE DEF counted, before
<1>4. IsFiniteSet(before)
  BY <1>0, <1>3, FS_Subset
<1> QED
  BY <1>0, <1>1, <1>2, <1>4, PartsAreSmaller DEF before

\* A window loses none of its calls.
LEMMA WindowKept ==
    ASSUME IsFiniteSet(trail'), trail \subseteq trail', NEW name, NEW moment,
           Cardinality(InWindowBefore(name, moment)) >= MaxCalls
    PROVE  Cardinality(InWindowBefore(name, moment)') >= MaxCalls
<1>1. InWindowBefore(name, moment) \subseteq InWindowBefore(name, moment)'
  BY DEF InWindowBefore
<1>2. InWindowBefore(name, moment)' \subseteq trail'
  BY DEF InWindowBefore
<1>3. IsFiniteSet(InWindowBefore(name, moment)')
  BY <1>2, FS_Subset
<1> QED
  BY <1>1, <1>3, PartsAreSmaller, Limits

\* The records that block a client are there for every rejection once they are.
LEMMA RejectionsKept ==
    ASSUME CallsInv, NEW a \in CallRecords, trail' = trail \cup {a}, IsFiniteSet(trail'),
           a.judged <= a.at,
           a.outcome = "rate_limited" =>
              Cardinality(InWindowBefore(a.name, a.judged)) >= MaxCalls
    PROVE  RejectionsDoNotExtendTheBlock'
<1> SUFFICES ASSUME NEW b \in trail', b.outcome = "rate_limited"
             PROVE  /\ b.judged <= b.at
                    /\ Cardinality(InWindowBefore(b.name, b.judged)') >= MaxCalls
  BY DEF RejectionsDoNotExtendTheBlock, InWindowBefore
<1>1. b.judged <= b.at /\ Cardinality(InWindowBefore(b.name, b.judged)) >= MaxCalls
  BY DEF CallsInv, RejectionsDoNotExtendTheBlock
<1> QED
  BY <1>1, WindowKept

\* A run that the limiter let through stays within its bound: the runs of a window that
\* reaches now were among the calls that it counted.
LEMMA RunsStayBounded ==
    ASSUME CallsInv, NEW a \in CallRecords, trail' = trail \cup {a}, UNCHANGED <<clock, clients>>,
           a.at = clock, a.client \in Clients, a.name = clients[a.client].name,
           a.outcome \in {"succeeded", "failed"} => ~IsRateLimited(a.client)
    PROVE  RunsAreBounded'
<1> SUFFICES ASSUME MaxCalls > 0, NEW c \in Clients, NEW from \in 0..MaxClock
             PROVE  Cardinality(Ran(c, from)') <= MaxCalls
  BY DEF RunsAreBounded
<1>0. /\ AgentTypeOK /\ TrailAgrees /\ clock \in Nat /\ IsFiniteSet(trail) /\ trail \subseteq CallRecords
      /\ MaxCalls \in Nat /\ CallWindow \in Nat /\ from \in Nat
  BY Limits DEF CallsInv, AgentTypeOK
<1>1. CASE a \notin Ran(c, from)'
  <2>1. Ran(c, from)' = Ran(c, from)
    BY <1>1 DEF Ran
  <2> QED
    BY <2>1 DEF CallsInv, RunsAreBounded
<1>2. CASE a \in Ran(c, from)'
  <2> DEFINE counted == RecentByActor(clients[c].name, clock - CallWindow)
             G == Ran(c, from)'
  <2>1. /\ a.client = c /\ a.outcome \in {"succeeded", "failed"} /\ clock \in from..(from + CallWindow)
        /\ from >= clock - CallWindow
    BY <1>0, <1>2 DEF Ran
  <2>2. ~(Cardinality(counted) >= MaxCalls)
    BY <2>1 DEF IsRateLimited
  <2>3. ASSUME NEW g \in G, g # a PROVE g \in counted
    <3>1. /\ g \in trail /\ g.client = c /\ g.outcome \in {"succeeded", "failed"}
          /\ g.at \in from..(from + CallWindow)
      BY <2>3 DEF Ran
    <3>2. g.name = clients[c].name
      BY <1>0, <3>1 DEF TrailAgrees
    <3>3. g.at >= clock - CallWindow
      BY <1>0, <2>1, <3>1
    <3> QED
      BY <3>1, <3>2, <3>3 DEF RecentByActor, ToolCalls
  <2>4. counted \subseteq trail /\ G \subseteq counted \cup {a}
    BY <2>3 DEF RecentByActor, ToolCalls
  <2> HIDE DEF counted, G
  <2>5. IsFiniteSet(counted)
    BY <1>0, <2>4, FS_Subset
  <2>6. Cardinality(G) <= MaxCalls
    BY <1>0, <2>2, <2>4, <2>5, OneMore
  <2> QED
    BY <2>6 DEF G
<1> QED
  BY <1>1, <1>2

\* A call is recorded, and leaves the event loop.
LEMMA RecordStep ==
    ASSUME CallsInv, NEW c \in Clients, clients[c] # Nothing, NEW tool \in Tools,
           NEW outcome \in Outcomes, NEW judged \in 0..MaxClock, judged <= clock,
           Audit(c, tool, outcome, judged), call' = NoCall,
           UNCHANGED <<clock, clients, crashes>>,
           outcome = "rate_limited" =>
              Cardinality(InWindowBefore(clients[c].name, judged)) >= MaxCalls,
           outcome \in {"succeeded", "failed"} => ~IsRateLimited(c)
    PROVE  CallsInv'
<1>0. AgentTypeOK /\ TrailAgrees /\ clock \in Nat
  BY Limits DEF CallsInv, AgentTypeOK
<1>1. PICK a \in CallRecords :
         /\ trail' = trail \cup {a} /\ a.client = c /\ a.name = clients[c].name
         /\ a.outcome = outcome /\ a.at = clock /\ a.judged = judged
  BY <1>0, Noted
<1>2. IsFiniteSet(trail') /\ trail' \subseteq CallRecords /\ a.name \in ClientNames
  BY <1>0, <1>1, FS_AddElement DEF AgentTypeOK, CallRecords
<1>3. AgentTypeOK'
  BY <1>0, <1>2, NoCallFacts DEF AgentTypeOK
<1>4. TrailAgrees'
  BY <1>0, <1>1 DEF TrailAgrees
<1>5. CallAgrees'
  BY <1>0, NoCallFacts DEF CallAgrees
<1>6. ActiveNamesAreUnique'
  BY DEF CallsInv, ActiveNamesAreUnique, InUse
<1>7. RejectionsDoNotExtendTheBlock'
  BY <1>1, <1>2, RejectionsKept
<1>8. RunsAreBounded'
  BY <1>1, RunsStayBounded
<1> QED
  BY <1>3, <1>4, <1>5, <1>6, <1>7, <1>8 DEF CallsInv

\* Steps that leave the trail as it is.
LEMMA QuietTrail ==
    ASSUME CallsInv, UNCHANGED trail
    PROVE  RejectionsDoNotExtendTheBlock' /\ RunsAreBounded'
<1>1. RejectionsDoNotExtendTheBlock'
  BY DEF CallsInv, RejectionsDoNotExtendTheBlock, InWindowBefore
<1>2. RunsAreBounded'
  BY DEF CallsInv, RunsAreBounded, Ran
<1> QED
  BY <1>1, <1>2

-----------------------------------------------------------------------------
(* The steps.                                                              *)

\* The clock goes on: what the limiter counts only leaves its window.
LEMMA TickStep ==
    ASSUME CallsInv, ClockTicks
    PROVE  CallsInv'
<1>0. /\ AgentTypeOK /\ TrailAgrees /\ CallAgrees /\ clock \in Nat /\ clock' = clock + 1 /\ clock' \in 0..MaxClock
      /\ UNCHANGED <<clients, trail, call, crashes>>
  BY Limits DEF CallsInv, AgentTypeOK, ClockTicks
<1>1. AgentTypeOK'
  BY <1>0 DEF AgentTypeOK
<1>2. TrailAgrees'
  <2>1. \A a \in trail : a.at \in Nat
    BY <1>0, Limits DEF AgentTypeOK, CallRecords
  <2> QED
    BY <1>0, <2>1 DEF TrailAgrees
<1>3. CallAgrees'
  <2>1. ASSUME NEW c \in Clients, ~IsRateLimited(c) PROVE ~IsRateLimited(c)'
    <3> DEFINE before == RecentByActor(clients[c].name, clock - CallWindow)
               after == RecentByActor(clients[c].name, clock' - CallWindow)
    <3>1. after \subseteq before
      <4>1. \A a \in trail : a.at \in Nat
        BY <1>0, Limits DEF AgentTypeOK, CallRecords
      <4> QED
        BY <1>0, <4>1, Limits DEF RecentByActor, ToolCalls
    <3>2. before \subseteq trail /\ IsFiniteSet(trail)
      BY <1>0 DEF RecentByActor, ToolCalls, AgentTypeOK
    <3>3. (IsRateLimited(c) <=> MaxCalls > 0 /\ Cardinality(before) >= MaxCalls)
      BY DEF IsRateLimited
    <3>4. (IsRateLimited(c)' <=> MaxCalls > 0 /\ Cardinality(after) >= MaxCalls)
      BY <1>0 DEF IsRateLimited, RecentByActor, ToolCalls
    <3> HIDE DEF before, after
    <3>5. IsFiniteSet(before)
      BY <3>2, FS_Subset
    <3> QED
      BY <2>1, <3>1, <3>3, <3>4, <3>5, PartsAreSmaller, Limits
  <2>2. call.judged \in Nat
    BY <1>0, Limits DEF AgentTypeOK, Calls
  <2> QED
    BY <1>0, <2>1, <2>2 DEF CallAgrees, InWindowBefore
<1>4. ActiveNamesAreUnique'
  BY <1>0 DEF CallsInv, ActiveNamesAreUnique, InUse
<1> QED
  BY <1>0, <1>1, <1>2, <1>3, <1>4, QuietTrail DEF CallsInv

\* The process dies between two transactions: the call is not recorded.
LEMMA CrashStep ==
    ASSUME CallsInv, Crash
    PROVE  CallsInv'
<1>0. /\ AgentTypeOK /\ call' = NoCall /\ crashes' \in 0..MaxCrashes /\ UNCHANGED <<clock, clients, trail>>
  BY Limits DEF CallsInv, AgentTypeOK, Crash
<1>1. AgentTypeOK' /\ TrailAgrees' /\ CallAgrees' /\ ActiveNamesAreUnique'
  BY <1>0, NoCallFacts
  DEF CallsInv, AgentTypeOK, TrailAgrees, CallAgrees, ActiveNamesAreUnique, InUse
<1> QED
  BY <1>0, <1>1, QuietTrail DEF CallsInv

\* A name is given to one credential in use.
LEMMA IssueStep ==
    ASSUME CallsInv, NEW c \in Clients, NEW name \in ClientNames, NEW scopes \in Granted,
           IssueAgentCredential(c, name, scopes)
    PROVE  CallsInv'
<1> DEFINE row == [name |-> name, scopes |-> scopes, active |-> TRUE]
<1>0. /\ AgentTypeOK /\ TrailAgrees /\ call = NoCall /\ clients[c] = Nothing /\ ~NameIsTaken(name)
      /\ UNCHANGED <<clock, trail, call, crashes>>
  BY DEF CallsInv, IssueAgentCredential, EventLoopIsFree
<1>1. row \in ClientRows /\ row.name = name /\ row.active = TRUE
  <2>1. scopes \in (SUBSET Scopes) \ {{}}
    <3>1. scopes \in SUBSET Scopes
      BY GrantsAreScopes, Zenon
    <3>2. scopes # {}
      BY DEF IssueAgentCredential
    <3> QED
      BY <3>1, <3>2
  <2> QED
    BY <2>1 DEF ClientRows
<1>2. clients' = [clients EXCEPT ![c] = row]
  BY DEF IssueAgentCredential
<1> HIDE DEF row
<1>3. /\ clients' \in [Clients -> ClientRows \cup {Nothing}] /\ clients'[c] = row
      /\ \A d \in Clients \ {c} : clients'[d] = clients[d]
  BY <1>0, <1>1, <1>2 DEF AgentTypeOK
<1>4. AgentTypeOK'
  BY <1>0, <1>3 DEF AgentTypeOK
<1>5. TrailAgrees'
  <2>1. \A a \in trail : a.client \in Clients /\ a.client # c
    BY <1>0 DEF AgentTypeOK, CallRecords, TrailAgrees
  <2> QED
    BY <1>0, <1>3, <2>1 DEF TrailAgrees
<1>6. CallAgrees'
  BY <1>0, NoCallFacts DEF CallsInv, CallAgrees
<1>7. ActiveNamesAreUnique'
  BY <1>0, <1>1, <1>3 DEF CallsInv, ActiveNamesAreUnique, InUse, NameIsTaken
<1> QED
  BY <1>0, <1>4, <1>5, <1>6, <1>7, QuietTrail DEF CallsInv

\* A credential that is revoked keeps its name in the trail.
LEMMA RevokeStep ==
    ASSUME CallsInv, NEW c \in Clients, RevokeAgentCredential(c)
    PROVE  CallsInv'
<1> DEFINE row == [clients[c] EXCEPT !.active = FALSE]
<1>0. /\ AgentTypeOK /\ TrailAgrees /\ call = NoCall /\ clients[c] \in ClientRows
      /\ UNCHANGED <<clock, trail, call, crashes>>
  BY DEF CallsInv, AgentTypeOK, RevokeAgentCredential, EventLoopIsFree
<1>1. row \in ClientRows /\ row.name = clients[c].name /\ row.active = FALSE /\ row # Nothing
  <2>1. row \in ClientRows /\ row.name = clients[c].name /\ row.active = FALSE
    BY <1>0 DEF ClientRows
  <2> QED
    BY <2>1, NothingIsNoRow
<1>2. clients' = [clients EXCEPT ![c] = row]
  BY <1>0 DEF RevokeAgentCredential, AgentTypeOK, ClientRows
<1> HIDE DEF row
<1>3. /\ clients' \in [Clients -> ClientRows \cup {Nothing}] /\ clients'[c] = row
      /\ \A d \in Clients \ {c} : clients'[d] = clients[d]
  BY <1>0, <1>1, <1>2 DEF AgentTypeOK
<1>4. AgentTypeOK'
  BY <1>0, <1>3 DEF AgentTypeOK
<1>5. TrailAgrees'
  <2>1. \A a \in trail : a.client \in Clients
    BY <1>0 DEF AgentTypeOK, CallRecords
  <2> QED
    BY <1>0, <1>1, <1>3, <2>1 DEF TrailAgrees
<1>6. CallAgrees'
  BY <1>0, NoCallFacts DEF CallsInv, CallAgrees
<1>7. ActiveNamesAreUnique'
  BY <1>1, <1>3 DEF CallsInv, ActiveNamesAreUnique, InUse
<1> QED
  BY <1>0, <1>4, <1>5, <1>6, <1>7, QuietTrail DEF CallsInv

\* A call is refused on the record, or goes to the limiter.
LEMMA CallStep ==
    ASSUME CallsInv, NEW c \in Clients, NEW tool \in Called, Call(c, tool)
    PROVE  CallsInv'
<1>0. /\ AgentTypeOK /\ call = NoCall /\ clients[c] # Nothing /\ tool \in Tools
      /\ clock \in 0..MaxClock /\ clock <= clock
      /\ UNCHANGED <<clock, clients, crashes>>
  BY CallsAreTools, Limits DEF CallsInv, AgentTypeOK, Call, EventLoopIsFree, Authenticates, InUse
<1>1. {"denied", "unknown_tool"} \subseteq Outcomes
  BY DEF Outcomes
<1>2. CASE tool \notin DOMAIN ToolScope
  <2>1. (Audit(c, tool, "unknown_tool", clock) \/ UNCHANGED trail) /\ call' = call
    BY <1>2 DEF Call
  <2>2. CASE Audit(c, tool, "unknown_tool", clock)
    BY <1>0, <1>1, <2>1, <2>2, RecordStep
  <2>3. CASE UNCHANGED trail
    BY <1>0, <2>1, <2>3, QuietTrail
    DEF CallsInv, AgentTypeOK, TrailAgrees, CallAgrees, ActiveNamesAreUnique, InUse, NoCall,
        InWindowBefore
  <2> QED
    BY <2>1, <2>2, <2>3
<1>3. CASE tool \in DOMAIN ToolScope /\ ToolScope[tool] \notin clients[c].scopes
  <2>1. Audit(c, tool, "denied", clock) /\ call' = call
    BY <1>3 DEF Call
  <2> QED
    BY <1>0, <1>1, <2>1, RecordStep
<1>4. CASE tool \in DOMAIN ToolScope /\ ToolScope[tool] \in clients[c].scopes
  <2> DEFINE new == [NoCall EXCEPT !.client = c, !.tool = tool, !.pc = "limit"]
  <2>1. call' = new /\ UNCHANGED trail
    BY <1>4 DEF Call
  <2>2. /\ new \in Calls /\ new.client = c /\ new.pc = "limit" /\ new.outcome = "failed"
        /\ new.judged = 0 /\ 0 <= clock
    <3>1. NoCall \in Calls /\ NoCall.outcome = "failed" /\ NoCall.judged = 0
      BY NoCallFacts
    <3>2. 0 <= clock
      BY <1>0, Limits
    <3> QED
      BY <1>0, <3>1, <3>2 DEF Calls
  <2> HIDE DEF new
  <2> QED
    BY <1>0, <2>1, <2>2, QuietTrail
    DEF CallsInv, AgentTypeOK, TrailAgrees, CallAgrees, ActiveNamesAreUnique, InUse
<1> QED
  BY <1>2, <1>3, <1>4

\* The limiter rejects, with what it counted in its window, or lets through.
LEMMA LimitStep ==
    ASSUME CallsInv, Limit
    PROVE  CallsInv'
<1>0. /\ AgentTypeOK /\ TrailAgrees /\ call.pc = "limit" /\ call \in Calls
      /\ call.client \in Clients /\ clients[call.client] # Nothing /\ call.outcome = "failed"
      /\ clock \in 0..MaxClock /\ clock <= clock
      /\ UNCHANGED <<clock, clients, trail, crashes>>
  BY Limits DEF CallsInv, AgentTypeOK, CallAgrees, Limit
<1>1. CASE IsRateLimited(call.client)
  <2> DEFINE new == [call EXCEPT !.pc = "audit", !.outcome = "rate_limited", !.judged = clock]
  <2>1. call' = new
    BY <1>1 DEF Limit
  <2>2. /\ new \in Calls /\ new.client = call.client /\ new.pc = "audit"
        /\ new.outcome = "rate_limited" /\ new.judged = clock
    BY <1>0 DEF Calls, Outcomes
  <2> HIDE DEF new
  <2>3. Cardinality(InWindowBefore(clients[call.client].name, clock)) >= MaxCalls
    BY <1>0, <1>1, CountedIsInWindow
  <2>4. CallAgrees'
    BY <1>0, <2>1, <2>2, <2>3 DEF CallAgrees, InWindowBefore
  <2> QED
    BY <1>0, <2>1, <2>2, <2>4, QuietTrail
    DEF CallsInv, AgentTypeOK, TrailAgrees, ActiveNamesAreUnique, InUse
<1>2. CASE ~IsRateLimited(call.client)
  <2> DEFINE new == [call EXCEPT !.pc = "run"]
  <2>1. call' = new
    BY <1>2 DEF Limit
  <2>2. /\ new \in Calls /\ new.client = call.client /\ new.pc = "run"
        /\ new.outcome = "failed" /\ new.judged = call.judged
    BY <1>0 DEF Calls
  <2> HIDE DEF new
  <2>3. ~IsRateLimited(call.client)'
    BY <1>0, <1>2, <2>1, <2>2 DEF IsRateLimited, RecentByActor, ToolCalls
  <2> QED
    BY <1>0, <2>1, <2>2, <2>3, QuietTrail
    DEF CallsInv, AgentTypeOK, TrailAgrees, CallAgrees, ActiveNamesAreUnique, InUse
<1> QED
  BY <1>1, <1>2

\* The handler runs, or raises.
LEMMA RunStep ==
    ASSUME CallsInv, NEW succeeds \in BOOLEAN, RunTool(succeeds)
    PROVE  CallsInv'
<1> DEFINE new == [call EXCEPT !.pc = "audit", !.outcome = IF succeeds THEN "succeeded" ELSE "failed"]
<1>0. /\ AgentTypeOK /\ call.pc = "run" /\ call \in Calls /\ call.client \in Clients
      /\ clients[call.client] # Nothing /\ ~IsRateLimited(call.client) /\ call.judged <= clock
      /\ UNCHANGED <<clock, clients, trail, crashes>>
  BY DEF CallsInv, AgentTypeOK, CallAgrees, RunTool
<1>1. /\ new \in Calls /\ new.client = call.client /\ new.pc = "audit" /\ new.judged = call.judged
      /\ new.outcome \in {"succeeded", "failed"}
  BY <1>0 DEF Calls, Outcomes
<1>2. call' = new
  BY <1>0 DEF RunTool, Calls
<1> HIDE DEF new
<1>3. ~IsRateLimited(call.client)'
  BY <1>0, <1>1, <1>2 DEF IsRateLimited, RecentByActor, ToolCalls
<1> QED
  BY <1>0, <1>1, <1>2, <1>3, QuietTrail
  DEF CallsInv, AgentTypeOK, TrailAgrees, CallAgrees, ActiveNamesAreUnique, InUse

\* A call that ran, or was rejected, is recorded.
LEMMA RecordCallStep ==
    ASSUME CallsInv, RecordCall
    PROVE  CallsInv'
<1>0. /\ AgentTypeOK /\ call.pc = "audit" /\ call.tool \in Tools /\ call.client \in Clients
      /\ clients[call.client] # Nothing /\ call.judged \in 0..MaxClock /\ call.judged <= clock
      /\ call.outcome \in {"succeeded", "failed"} => ~IsRateLimited(call.client)
      /\ call.outcome = "rate_limited" =>
            Cardinality(InWindowBefore(clients[call.client].name, call.judged)) >= MaxCalls
      /\ call.outcome \in Outcomes /\ call' = NoCall
      /\ Audit(call.client, call.tool, call.outcome, call.judged)
      /\ UNCHANGED <<clock, clients, crashes>>
  BY DEF CallsInv, AgentTypeOK, CallAgrees, RecordCall, Calls
<1>1. PICK c \in Clients, tool \in Tools, outcome \in Outcomes, judged \in 0..MaxClock :
         c = call.client /\ tool = call.tool /\ outcome = call.outcome /\ judged = call.judged
  BY <1>0
<1>2. /\ Audit(c, tool, outcome, judged) /\ clients[c] # Nothing /\ judged <= clock
      /\ outcome \in {"succeeded", "failed"} => ~IsRateLimited(c)
      /\ outcome = "rate_limited" => Cardinality(InWindowBefore(clients[c].name, judged)) >= MaxCalls
  BY <1>0, <1>1
<1> QED
  BY <1>0, <1>2, RecordStep

\* At first no credential is issued.
LEMMA InitLemma == AgentsInit => CallsInv
<1> SUFFICES ASSUME AgentsInit PROVE CallsInv
  OBVIOUS
<1>0. /\ clock = 0 /\ clock \in 0..MaxClock /\ crashes = 0 /\ crashes \in 0..MaxCrashes /\ trail = {}
      /\ IsFiniteSet(trail) /\ call = NoCall /\ clients = [c \in Clients |-> Nothing]
  BY Limits, FS_EmptySet DEF AgentsInit
<1>1. AgentTypeOK /\ TrailAgrees /\ CallAgrees
  BY <1>0, NoCallFacts DEF AgentTypeOK, TrailAgrees, CallAgrees
<1>2. ActiveNamesAreUnique /\ RejectionsDoNotExtendTheBlock
  BY <1>0 DEF ActiveNamesAreUnique, InUse, RejectionsDoNotExtendTheBlock
<1>3. RunsAreBounded
  <2>1. ASSUME NEW c \in Clients, NEW from \in 0..MaxClock PROVE Ran(c, from) = {}
    BY <1>0 DEF Ran
  <2>2. Cardinality({}) = 0 /\ 0 <= MaxCalls
    BY FS_EmptySet, Limits
  <2> QED
    BY <2>1, <2>2 DEF RunsAreBounded
<1> QED
  BY <1>1, <1>2, <1>3 DEF CallsInv

\* Every step keeps the strengthening.
LEMMA NextLemma == CallsInv /\ [AgentsNext]_agentVars => CallsInv'
<1> SUFFICES ASSUME CallsInv, [AgentsNext]_agentVars PROVE CallsInv'
  OBVIOUS
<1>1. CASE ClockTicks \/ Crash
  BY <1>1, TickStep, CrashStep
<1>2. CASE Limit \/ RecordCall
  BY <1>2, LimitStep, RecordCallStep
<1>3. ASSUME NEW succeeds \in BOOLEAN, RunTool(succeeds) PROVE CallsInv'
  BY <1>3, RunStep
<1>4. ASSUME NEW c \in Clients, RevokeAgentCredential(c) PROVE CallsInv'
  BY <1>4, RevokeStep
<1>5. ASSUME NEW c \in Clients, NEW name \in ClientNames, NEW scopes \in Granted,
             IssueAgentCredential(c, name, scopes)
      PROVE  CallsInv'
  BY <1>5, IssueStep
<1>6. ASSUME NEW c \in Clients, NEW tool \in Called, Call(c, tool) PROVE CallsInv'
  BY <1>6, CallStep
<1>7. CASE UNCHANGED agentVars
  BY <1>7, QuietTrail DEF agentVars, CallsInv, AgentTypeOK, TrailAgrees, CallAgrees, ActiveNamesAreUnique,
     InUse, IsRateLimited, RecentByActor, ToolCalls, InWindowBefore
<1> QED
  BY <1>1, <1>2, <1>3, <1>4, <1>5, <1>6, <1>7 DEF AgentsNext

-----------------------------------------------------------------------------
(* What follows.                                                           *)

\* A call that the limiter let through is still below the limit when it is recorded,
\* and the trail goes by the names of the credentials.
THEOREM CallsInvariant == AgentsSpec => []CallsInv
  BY InitLemma, NextLemma, PTL DEF AgentsSpec

\* AgentInv: names tell the credentials in use apart, the trail goes by them, and a
\* rejection by the limit is on account of a full limit of calls before it that were
\* not rejected, so that an agent that keeps calling is let in again.
THEOREM ActorsAreToldApart == AgentsSpec => []AgentInv
<1>1. CallsInv => AgentInv
  BY DEF CallsInv, AgentTypeOK, TrailAgrees, AgentInv, AgentsTypeOK
<1> QED
  BY <1>1, CallsInvariant, PTL

\* RunsAreBounded: however long a tool runs, and whatever is lost in a crash, no window
\* of the limiter's length holds more recorded runs of a client than the limit.
THEOREM LimitHolds == AgentsSpec => []RunsAreBounded
<1>1. CallsInv => RunsAreBounded
  BY DEF CallsInv
<1> QED
  BY <1>1, CallsInvariant, PTL
=============================================================================
