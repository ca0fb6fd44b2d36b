----------------------------- MODULE AgentAccess -----------------------------
(***************************************************************************)
(* Agents: the credentials administrators issue and revoke, and the calls  *)
(* POST /mcp authenticates, authorises, limits, dispatches and audits.     *)
(*                                                                         *)
(* Issuing, revoking and calling are coroutines that await nothing once    *)
(* their body is read, so each runs alone on the event loop; a call takes  *)
(* a step per transaction because the clock goes on, and the process may   *)
(* die, between them.  The limiter counts audit records by the client's    *)
(* name, as the code does.                                                 *)
(***************************************************************************)
EXTENDS Integers, FiniteSets

CONSTANTS
    Clients,       \* client_id of each credential; its token is its own
    ClientNames,   \* client names, up to case
    LongTool,      \* a tool name too long for audit_records.action, or Nothing
    Nothing,
    Called,        \* the tools the agents ask for
    Granted,       \* the scope sets administrators choose from
    MaxCalls,      \* settings.mcp_max_calls_per_window; 0 disables the limit
    CallWindow,    \* settings.mcp_rate_limit_window_seconds
    MaxClock,      \* bound on the clock
    MaxRecords,    \* bound on the calls in the trail
    MaxCrashes     \* bound on the crashes of the process

VARIABLES
    clock,
    clients,   \* agent_clients: the row of each credential, or Nothing
    trail,     \* audit_records of agent calls
    call,      \* the call on the event loop, or NoCall
    crashes

agentVars == <<clock, clients, trail, call, crashes>>

-----------------------------------------------------------------------------

Scopes == {"fuel:predict", "fuel:monitor", "models:read", "models:admin"}

ClientRows == [name : ClientNames, scopes : (SUBSET Scopes) \ {{}}, active : BOOLEAN]

ASSUME NothingIsNoRow == Nothing \notin ClientRows

\* The scope each tool needs; one tool stands for those of its scope that read.
ToolScope == [predict_fuel |-> "fuel:predict", get_service_health |-> "fuel:monitor",
              list_model_versions |-> "models:read", activate_model_version |-> "models:admin"]

Tools == DOMAIN ToolScope \cup {"unknown"} \cup ({LongTool} \ {Nothing})

ASSUME AgentsAreDistinct == Nothing \notin Clients /\ LongTool # "unknown"
ASSUME GrantsAreScopes == Granted \subseteq SUBSET Scopes
ASSUME CallsAreTools == Called \subseteq Tools
ASSUME CountsAreNatural == {MaxCalls, CallWindow, MaxClock, MaxRecords, MaxCrashes} \subseteq Nat

\* audit_records.action holds 64 characters and the prefix takes nine.
FitsAudit(tool) == tool # LongTool

\* Calls under "mcp_tool:" that ran or did not, and rejections by the limit.
Outcomes == {"succeeded", "failed", "denied", "unknown_tool", "rate_limited"}

\* `judged` is history: when the limiter rejected the call, which is before the
\* rejection is recorded.
CallRecords == [client : Clients, name : ClientNames, tool : Tools, outcome : Outcomes,
                at : 0..MaxClock, judged : 0..MaxClock, n : Nat]

NoCall == [client |-> Nothing, tool |-> "unknown", pc |-> "none", outcome |-> "failed",
           judged |-> 0]

Calls == [client : Clients \cup {Nothing}, tool : Tools, outcome : Outcomes,
          pc : {"none", "limit", "run", "audit"}, judged : 0..MaxClock]

AgentsInit ==
    /\ clock = 0
    /\ clients = [c \in Clients |-> Nothing]
    /\ trail = {}
    /\ call = NoCall
    /\ crashes = 0

EventLoopIsFree == call = NoCall

InUse(c) == clients[c] # Nothing /\ clients[c].active

-----------------------------------------------------------------------------
(* The credentials page.                                                   *)

NameIsTaken(name) == \E c \in Clients : InUse(c) /\ clients[c].name = name

IssueAgentCredential(c, name, scopes) ==
    /\ EventLoopIsFree
    /\ clients[c] = Nothing
    /\ scopes # {}
    /\ ~NameIsTaken(name)
    /\ clients' = [clients EXCEPT ![c] = [name |-> name, scopes |-> scopes, active |-> TRUE]]
    /\ UNCHANGED <<clock, trail, call, crashes>>

RevokeAgentCredential(c) ==
    /\ EventLoopIsFree
    /\ clients[c] # Nothing
    /\ clients' = [clients EXCEPT ![c].active = FALSE]
    /\ UNCHANGED <<clock, trail, call, crashes>>

-----------------------------------------------------------------------------
(* A call.                                                                 *)

Audit(c, tool, outcome, judged) ==
    LET alike == {a \in trail : /\ a.client = c /\ a.tool = tool
                                /\ a.outcome = outcome /\ a.at = clock}
    IN trail' = trail \cup {[client |-> c, name |-> clients[c].name, tool |-> tool,
                             outcome |-> outcome, at |-> clock, judged |-> judged,
                             n |-> Cardinality(alike)]}

Authenticates(c) == InUse(c)

\* authenticate, then the registry and the scope; the audit of a tool whose name
\* the action column cannot hold fails, and the caller gets a tool error.
Call(c, tool) ==
    /\ EventLoopIsFree
    /\ Authenticates(c)
    /\ Cardinality(trail) < MaxRecords
    /\ CASE tool \notin DOMAIN ToolScope ->
                /\ IF FitsAudit(tool) THEN Audit(c, tool, "unknown_tool", clock) ELSE UNCHANGED trail
                /\ UNCHANGED call
         [] tool \in DOMAIN ToolScope /\ ToolScope[tool] \notin clients[c].scopes ->
                Audit(c, tool, "denied", clock) /\ UNCHANGED call
         [] OTHER ->
                /\ call' = [NoCall EXCEPT !.client = c, !.tool = tool, !.pc = "limit"]
                /\ UNCHANGED trail
    /\ UNCHANGED <<clock, clients, crashes>>

\* Mutant of ToolCalls: rejections are recorded under the prefix that is counted.
ToolCallsAndRejections == trail

\* The records under "mcp_tool:"; rejections by the limit have their own action.
ToolCalls == {a \in trail : a.outcome # "rate_limited"}

RecentByActor(name, since) == {a \in ToolCalls : a.name = name /\ a.at >= since}

\* Mutant of IsRateLimited: one call more than the limit goes through.
IsRateLimitedLate(c) ==
    MaxCalls > 0 /\ Cardinality(RecentByActor(clients[c].name, clock - CallWindow)) > MaxCalls

IsRateLimited(c) ==
    MaxCalls > 0 /\ Cardinality(RecentByActor(clients[c].name, clock - CallWindow)) >= MaxCalls

\* The count; what it rejects is recorded in another transaction.
Limit ==
    /\ call.pc = "limit"
    /\ call' = IF IsRateLimited(call.client)
               THEN [call EXCEPT !.pc = "audit", !.outcome = "rate_limited", !.judged = clock]
               ELSE [call EXCEPT !.pc = "run"]
    /\ UNCHANGED <<clock, clients, trail, crashes>>

\* The handler commits what it does, or raises, before the call is recorded.
RunTool(succeeds) ==
    /\ call.pc = "run"
    /\ call' = [call EXCEPT !.pc = "audit", !.outcome = IF succeeds THEN "succeeded" ELSE "failed"]
    /\ UNCHANGED <<clock, clients, trail, crashes>>

RecordCall ==
    /\ call.pc = "audit"
    /\ Audit(call.client, call.tool, call.outcome, call.judged)
    /\ call' = NoCall
    /\ UNCHANGED <<clock, clients, crashes>>

-----------------------------------------------------------------------------

Crash ==
    /\ crashes < MaxCrashes
    /\ crashes' = crashes + 1
    /\ call' = NoCall
    /\ UNCHANGED <<clock, clients, trail>>

ClockTicks ==
    /\ clock < MaxClock
    /\ clock' = clock + 1
    /\ UNCHANGED <<clients, trail, call, crashes>>

AgentsNext ==
    \/ ClockTicks \/ Crash \/ Limit \/ RecordCall
    \/ \E succeeds \in BOOLEAN : RunTool(succeeds)
    \/ \E c \in Clients :
         \/ RevokeAgentCredential(c)
         \/ \E name \in ClientNames, scopes \in Granted : IssueAgentCredential(c, name, scopes)
         \/ \E tool \in Called : Call(c, tool)

AgentsSpec == AgentsInit /\ [][AgentsNext]_agentVars

-----------------------------------------------------------------------------
(* Properties.                                                             *)

\* Credentials, records and the call under way hold only what the code stores.
AgentsTypeOK ==
    /\ clock \in 0..MaxClock
    /\ clients \in [Clients -> ClientRows \cup {Nothing}]
    /\ trail \subseteq CallRecords
    /\ call \in Calls
    /\ \A a \in trail : clients[a.client] # Nothing /\ a.name = clients[a.client].name
    /\ crashes \in 0..MaxCrashes

Ran(c, from) ==
    {a \in trail : /\ a.client = c /\ a.outcome \in {"succeeded", "failed"}
                   /\ a.at \in from..(from + CallWindow)}

\* No window of the limiter's length holds more than MaxCalls recorded runs of
\* one client's tools, however long each takes and across restarts.
RunsAreBounded ==
    MaxCalls > 0 =>
      \A c \in Clients, from \in 0..MaxClock : Cardinality(Ran(c, from)) <= MaxCalls

\* The calls recorded in the window of the limiter that ends at a moment, other
\* than rejections by the limit.
InWindowBefore(name, moment) ==
    {a \in trail : /\ a.name = name /\ a.outcome # "rate_limited"
                   /\ a.at \in (moment - CallWindow)..moment}

\* A polling agent recovers: a call is rejected only on account of a full limit
\* of calls that were not themselves rejected, in the window before the moment
\* it was judged, however late the rejection is recorded.
RejectionsDoNotExtendTheBlock ==
    \A b \in trail :
       b.outcome = "rate_limited" =>
         b.judged <= b.at /\ Cardinality(InWindowBefore(b.name, b.judged)) >= MaxCalls

\* Records name the actor by client name, so the name is unique among the
\* credentials in use whatever is issued and revoked in between.
ActiveNamesAreUnique ==
    \A c, d \in Clients : (InUse(c) /\ InUse(d) /\ clients[c].name = clients[d].name) => c = d

\* What the trail and the credentials keep, whoever calls and whatever is issued,
\* revoked or lost meanwhile: names that tell the actors apart, and rejections
\* that each follow a full limit of calls.
AgentInv == AgentsTypeOK /\ ActiveNamesAreUnique /\ RejectionsDoNotExtendTheBlock
=============================================================================
