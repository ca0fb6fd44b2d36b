------------------------------- MODULE Alerts -------------------------------
(***************************************************************************)
(* Monitoring: every dashboard, whether a page shows it or the scheduled   *)
(* job computes it, reads the data, reconciles the alert table with what   *)
(* it read, and the job then records its run and tells the operators what  *)
(* has changed since they were last told.                                  *)
(*                                                                         *)
(* Pages run in the thread pool and jobs are processes of their own.  Each *)
(* reader is one transaction; reconciliation is one transaction at READ    *)
(* COMMITTED, of which other transactions see two moments: the reads of    *)
(* the rows, and the commit.                                               *)
(***************************************************************************)
EXTENDS Naturals, FiniteSets

CONSTANTS
    QualityKeys,      \* data_quality alerts: a row of a dataset was quarantined
    MissingKeys,      \* missing_actual alerts: an old prediction has no actual
    ModelKeys,        \* feature_drift and model_degradation alerts
    Pages,            \* dashboards asked for by the web pages, REST and MCP
    Jobs,             \* processes of "python -m fuel_predictor monitor"
    IsConfigured,     \* whether an alert channel is configured
    MaxCrashes,       \* bound on the crashes of jobs
    MaxTimeouts       \* bound on the messages whose acceptance is not heard of

Keys == QualityKeys \cup MissingKeys \cup ModelKeys
Dashboards == Pages \cup Jobs

ASSUME KindsAreDisjoint ==
    /\ QualityKeys \cap MissingKeys = {} /\ QualityKeys \cap ModelKeys = {}
    /\ MissingKeys \cap ModelKeys = {}
ASSUME PagesAreNotJobs == Pages \cap Jobs = {}
ASSUME ChannelIsBoolean == IsConfigured \in BOOLEAN
ASSUME JobsAreFinite == IsFiniteSet(Jobs)
ASSUME CrashesAreCounted == MaxCrashes \in Nat
ASSUME TimeoutsAreCounted == MaxTimeouts \in Nat

VARIABLES
    holds,      \* the keys whose condition the data meets
    alerts,     \* monitoring_alerts: "none", "open" or "resolved" for each key
    notified,   \* alert_notifications: the keys recorded as sent
    lastRun,    \* the outcome of the last recorded run, and whether any succeeded
    dash,       \* the state of each dashboard
    told,       \* history: what the operators last heard of each key
    crashes,
    timeouts    \* messages that arrived although sending them failed

vars == <<holds, alerts, notified, lastRun, dash, told, crashes, timeouts>>

-----------------------------------------------------------------------------

\* execute() reads issues, then missing actuals, then the model and its outcomes.
Readings == <<QualityKeys, MissingKeys, ModelKeys>>

PCs == {"idle", "read1", "read2", "read3", "get", "commit", "record", "list",
        "outstanding", "send", "mark", "clear"}

DashboardStates ==
    [pc : PCs,
     seen : SUBSET Keys,         \* conditions met when they were read
     rows : [Keys -> {"none", "open", "resolved"}],   \* alert rows as reconcile got them
     new : SUBSET Keys,          \* keys to tell and to record
     over : SUBSET Keys,         \* keys told as resolved and to clear
     ok : BOOLEAN]               \* the dashboard was computed

Idle == [pc |-> "idle", seen |-> {}, rows |-> [k \in Keys |-> "none"],
         new |-> {}, over |-> {}, ok |-> FALSE]

Init ==
    /\ holds \in SUBSET Keys
    /\ alerts = [k \in Keys |-> "none"]
    /\ notified = {}
    /\ lastRun = [latest |-> "none", succeeded |-> FALSE]
    /\ dash = [d \in Dashboards |-> Idle]
    /\ told = [k \in Keys |-> "never"]
    /\ crashes = 0
    /\ timeouts = 0

At(d, pc) == dash[d].pc = pc
Move(d, pc) == dash' = [dash EXCEPT ![d].pc = pc]
End(d) == dash' = [dash EXCEPT ![d] = Idle]

OpenAlerts == {k \in Keys : alerts[k] = "open"}

-----------------------------------------------------------------------------
(* The data, which planners and imports change.                            *)

\* A quarantined row stays: nothing deletes data_quality_issues.  A missing
\* actual ends when it is recorded; a model condition comes and goes.
ConditionChanges(k) ==
    /\ k \in QualityKeys => k \notin holds
    /\ holds' = IF k \in holds THEN holds \ {k} ELSE holds \cup {k}
    /\ UNCHANGED <<alerts, notified, lastRun, dash, told, crashes, timeouts>>

-----------------------------------------------------------------------------
(* GetMonitoringDashboard.execute.                                         *)

StartDashboard(d) ==
    /\ At(d, "idle")
    /\ Move(d, "read1")
    /\ UNCHANGED <<holds, alerts, notified, lastRun, told, crashes, timeouts>>

After == [read1 |-> "read2", read2 |-> "read3", read3 |-> "get"]

ReadConditions(d) ==
    /\ \E i \in 1..3 :
         /\ At(d, <<"read1", "read2", "read3">>[i])
         /\ dash' = [dash EXCEPT ![d].seen = @ \cup (holds \cap Readings[i]), ![d].pc = After[@]]
    /\ UNCHANGED <<holds, alerts, notified, lastRun, told, crashes, timeouts>>

\* reconcile, first half: the rows of the alerts that hold are read.
GetRows(d) ==
    /\ At(d, "get")
    /\ dash' = [dash EXCEPT ![d].pc = "commit",
                  ![d].rows = [k \in Keys |-> IF k \in dash[d].seen THEN alerts[k] ELSE "none"]]
    /\ UNCHANGED <<holds, alerts, notified, lastRun, told, crashes, timeouts>>

\* Two transactions that each found no row insert it: the later one fails.
InsertConflict(d) == \E k \in dash[d].seen : dash[d].rows[k] = "none" /\ alerts[k] # "none"

\* Mutant of Reconciled: an alert that was resolved once is not opened again.
ReconciledOnce(d) ==
    [k \in Keys |->
       IF k \in dash[d].seen
       THEN IF dash[d].rows[k] = "none" THEN "open" ELSE alerts[k]
       ELSE IF alerts[k] = "open" THEN "resolved" ELSE alerts[k]]

\* A row loaded with resolved_at NULL is assigned NULL again, which is no change
\* and writes nothing; open rows of other alerts are selected and resolved now.
Reconciled(d) ==
    [k \in Keys |->
       IF k \in dash[d].seen
       THEN IF dash[d].rows[k] = "open" THEN alerts[k] ELSE "open"
       ELSE IF alerts[k] = "open" THEN "resolved" ELSE alerts[k]]

\* A page shows what it reconciled, or fails; a job goes on to record its run.
CommitAlerts(d) ==
    /\ At(d, "commit")
    /\ alerts' = IF InsertConflict(d) THEN alerts ELSE Reconciled(d)
    /\ IF d \in Pages THEN End(d)
       ELSE dash' = [dash EXCEPT ![d] = [Idle EXCEPT !.pc = "record", !.ok = ~InsertConflict(d)]]
    /\ UNCHANGED <<holds, notified, lastRun, told, crashes, timeouts>>

-----------------------------------------------------------------------------
(* RunScheduledMonitoring and DeliverMonitoringAlerts.                     *)

\* A run that cannot be stored counts as failed, and nothing is delivered.
RecordRun(d, stored) ==
    /\ At(d, "record")
    /\ lastRun' = IF ~stored THEN lastRun
               ELSE [latest |-> IF dash[d].ok THEN "succeeded" ELSE "failed",
                     succeeded |-> lastRun.succeeded \/ dash[d].ok]
    /\ IF stored /\ dash[d].ok THEN Move(d, "list") ELSE End(d)
    /\ UNCHANGED <<holds, alerts, notified, told, crashes, timeouts>>

\* list_active_alerts: read back, not carried over from the reconciliation.
ListAlerts(d) ==
    /\ At(d, "list")
    /\ dash' = [dash EXCEPT ![d].seen = OpenAlerts, ![d].pc = "outstanding"]
    /\ UNCHANGED <<holds, alerts, notified, lastRun, told, crashes, timeouts>>

\* The severity of a key is fixed by its kind, so no alert is ever "changed".
CompareOutstanding(d) ==
    /\ At(d, "outstanding")
    /\ LET new == dash[d].seen \ notified
           over == notified \ dash[d].seen
       IN IF new \cup over = {} \/ ~IsConfigured THEN End(d)
          ELSE dash' = [dash EXCEPT ![d].new = new, ![d].over = over, ![d].pc = "send"]
    /\ UNCHANGED <<holds, alerts, notified, lastRun, told, crashes, timeouts>>

Heard(d) == [k \in Keys |-> IF k \in dash[d].new THEN "active"
                            ELSE IF k \in dash[d].over THEN "resolved" ELSE told[k]]

\* One message tells everything; if it cannot be sent nothing is recorded.
Send(d) ==
    /\ At(d, "send")
    /\ told' = Heard(d)
    /\ Move(d, "mark")
    /\ UNCHANGED <<holds, alerts, notified, lastRun, crashes, timeouts>>

\* Mutant of SendFails: the alerts are recorded as sent although they were not.
SendFailsQuietly(d) ==
    /\ At(d, "send")
    /\ Move(d, "mark")
    /\ UNCHANGED <<holds, alerts, notified, lastRun, told, crashes, timeouts>>

SendFails(d) ==
    /\ At(d, "send")
    /\ End(d)
    /\ UNCHANGED <<holds, alerts, notified, lastRun, told, crashes, timeouts>>

\* The channel accepted the message, but its answer is late, lost or an error after
\* the fact: the job cannot tell that from a message that was not sent.
SendTimesOut(d) ==
    /\ At(d, "send")
    /\ timeouts < MaxTimeouts
    /\ timeouts' = timeouts + 1
    /\ told' = Heard(d)
    /\ End(d)
    /\ UNCHANGED <<holds, alerts, notified, lastRun, crashes>>

\* Mutant of RecordSent: what was sent is not recorded.
RecordNothing(d) ==
    /\ At(d, "mark")
    /\ Move(d, "clear")
    /\ UNCHANGED <<holds, alerts, notified, lastRun, told, crashes, timeouts>>

\* record_sent, then clear: a transaction for each key.
RecordSent(d) ==
    /\ At(d, "mark")
    /\ IF dash[d].new = {} THEN Move(d, "clear") /\ UNCHANGED notified
       ELSE \E k \in dash[d].new :
              /\ notified' = notified \cup {k}
              /\ dash' = [dash EXCEPT ![d].new = @ \ {k}]
    /\ UNCHANGED <<holds, alerts, lastRun, told, crashes, timeouts>>

\* Mutant of Clear: a resolved alert stays recorded as told.
ClearNothing(d) ==
    /\ At(d, "clear")
    /\ End(d)
    /\ UNCHANGED <<holds, alerts, notified, lastRun, told, crashes, timeouts>>

Clear(d) ==
    /\ At(d, "clear")
    /\ IF dash[d].over = {} THEN End(d) /\ UNCHANGED notified
       ELSE \E k \in dash[d].over :
              /\ notified' = notified \ {k}
              /\ dash' = [dash EXCEPT ![d].over = @ \ {k}]
    /\ UNCHANGED <<holds, alerts, lastRun, told, crashes, timeouts>>

Crash(d) ==
    /\ ~At(d, "idle")
    /\ crashes < MaxCrashes
    /\ crashes' = crashes + 1
    /\ End(d)
    /\ UNCHANGED <<holds, alerts, notified, lastRun, told, timeouts>>

-----------------------------------------------------------------------------

\* What a job does once it has started, when nothing fails.
Advance(d) ==
    \/ ReadConditions(d) \/ GetRows(d) \/ CommitAlerts(d) \/ RecordRun(d, TRUE)
    \/ ListAlerts(d) \/ CompareOutstanding(d) \/ RecordSent(d) \/ Clear(d)

Next ==
    \/ \E k \in Keys : ConditionChanges(k)
    \/ \E d \in Dashboards : StartDashboard(d) \/ Advance(d)
    \/ \E d \in Jobs : \/ RecordRun(d, FALSE) \/ Crash(d)
                     \/ Send(d) \/ SendFails(d) \/ SendTimesOut(d)

Spec == Init /\ [][Next]_vars

\* The scheduler starts the job again and again and its steps go on; storing a
\* run and sending a message succeed if they are tried often enough.
Fairness ==
    \A d \in Jobs : /\ WF_vars(StartDashboard(d)) /\ WF_vars(Advance(d))
                    /\ SF_vars(RecordRun(d, TRUE)) /\ SF_vars(Send(d))

FairSpec == Spec /\ Fairness

-----------------------------------------------------------------------------
(* Properties.                                                             *)

\* Tables and dashboards hold only what the code stores; an alert that was never
\* stored has never been told.
TypeOK ==
    /\ holds \subseteq Keys
    /\ alerts \in [Keys -> {"none", "open", "resolved"}]
    /\ notified \subseteq {k \in Keys : alerts[k] # "none"}
    /\ lastRun \in [latest : {"none", "succeeded", "failed"}, succeeded : BOOLEAN]
    /\ dash \in [Dashboards -> DashboardStates]
    /\ told \in [Keys -> {"never", "active", "resolved"}]
    /\ crashes \in 0..MaxCrashes
    /\ timeouts \in 0..MaxTimeouts

\* No delivery failure, crash or overlap of jobs marks an alert as handled that
\* the operators were never told of.
MarkedAlertsWereTold == \A k \in notified : told[k] # "never"

\* No job died, and none was told that a message had failed which had arrived.
OutcomesAreKnown == crashes = 0 /\ timeouts = 0

\* With one job at a time whose outcomes are known, the operators hear of an alert
\* once: no message repeats that it is active, or that it is over.
NothingIsRepeated ==
    [][(Cardinality(Jobs) = 1 /\ OutcomesAreKnown) =>
         \A d \in Jobs, k \in Keys :
            (At(d, "send") /\ (dash'[d].pc = "mark" \/ timeouts' # timeouts)) =>
               /\ k \in dash[d].new => told[k] # "active"
               /\ k \in dash[d].over => told[k] = "active"]_vars

\* However dashboards, jobs, failures and crashes interleave, once the data stops
\* changing the open alerts come to be exactly the conditions the data meets.
AlertsBecomeAccurate ==
    <>[][UNCHANGED holds]_vars => <>[](OpenAlerts = holds)

\* And the operators come to know them: told of every condition that holds, and
\* told that every other one they had heard of is over.  (Not so after an outcome
\* that is not known: a condition that returns after the message that it is over,
\* which is not on record, is not told again.)
OperatorsBecomeInformed ==
    <>[][UNCHANGED holds]_vars =>
        <>[](OutcomesAreKnown =>
               \A k \in Keys : IF k \in holds THEN told[k] = "active" ELSE told[k] # "active")

\* What the alert tables keep through every failed delivery, crash and overlap:
\* rows of their kinds, and no alert marked as told that nobody was told of.
AlertsInv == TypeOK /\ MarkedAlertsWereTold
=============================================================================
