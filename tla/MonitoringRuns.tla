--------------------------- MODULE MonitoringRuns ---------------------------
(***************************************************************************)
(* The record of scheduled work and what is read from it: every monitoring *)
(* job stores how it ended, the backup script has its outcome recorded, a  *)
(* page shows how current the picture is, and an outside watchdog polls    *)
(* /sehat.                                                                 *)
(*                                                                         *)
(* Jobs are processes of their own and may overlap; pages and /sehat run   *)
(* in the thread pool and read each row in a transaction of its own.       *)
(* Requests only read, so it is enough to follow any one of them.          *)
(***************************************************************************)
EXTENDS Integers, FiniteSets

CONSTANTS
    RunIds,     \* run ids: drawn at random, so their order says nothing
    StaleAfter, \* settings.monitoring_stale_after_hours
    MaxTime     \* bound on the clock

ASSUME IdsAreOrdered == RunIds \subseteq Nat
ASSUME AllowanceIsCount == StaleAfter \in Nat /\ MaxTime \in Nat

VARIABLES
    now,
    runs,      \* monitoring_runs
    backups,   \* backup_runs
    jobs,      \* the monitoring process of each run id, as long as it has not ended
    view       \* what one request has read, and its answer

runsVars == <<now, runs, backups, jobs, view>>

-----------------------------------------------------------------------------
(* The two tables, of the same shape where it matters here.                *)

Run(id, time, succeeded) == [id |-> id, finished |-> time, succeeded |-> succeeded]

\* What a backup came to is shown with its row and decides nothing.
Backup(id, time) == [id |-> id, finished |-> time]

Succeeded(table) == {run \in table : run.succeeded}

\* Mutant of Latest: the order is ascending.
LatestLast(table) ==
    {run \in table :
        \A other \in table : \/ run.finished < other.finished
                             \/ other.finished = run.finished /\ run.id <= other.id}

\* The first row by finished_at, then by run_id, the latest first: none or one.
Latest(table) ==
    {run \in table :
        \A other \in table : \/ other.finished < run.finished
                             \/ other.finished = run.finished /\ other.id <= run.id}

-----------------------------------------------------------------------------
(* Jobs.                                                                   *)

JobStates == [at : {"computing", "storing", "ended"}, finished : 0..MaxTime, succeeded : BOOLEAN]

Computing == [at |-> "computing", finished |-> 0, succeeded |-> FALSE]

NoView == [kind |-> "none", at |-> "idle", asked |-> {}, kept |-> {}, latest |-> {},
           success |-> {}, verdict |-> "none", time |-> 0, backup |-> {}]

RunsInit ==
    /\ now = 0
    /\ runs = {} /\ backups = {}
    /\ jobs = [id \in RunIds |-> Computing]
    /\ view = NoView

\* The dashboard is computed or raises; either way the run is then recorded.
FinishJob(id) ==
    /\ jobs[id].at = "computing"
    /\ \E ok \in BOOLEAN :
         jobs' = [jobs EXCEPT ![id] = [at |-> "storing", finished |-> now, succeeded |-> ok]]
    /\ UNCHANGED <<now, runs, backups, view>>

StoreRun(id) ==
    /\ jobs[id].at = "storing"
    /\ runs' = runs \cup {Run(id, jobs[id].finished, jobs[id].succeeded)}
    /\ jobs' = [jobs EXCEPT ![id].at = "ended"]
    /\ UNCHANGED <<now, backups, view>>

\* The process dies, or its run cannot be stored: no row tells of it.
LoseRun(id) ==
    /\ jobs[id].at \in {"computing", "storing"}
    /\ jobs' = [jobs EXCEPT ![id].at = "ended"]
    /\ UNCHANGED <<now, runs, backups, view>>

\* record-backup, once the backup script knows its outcome.
RecordBackup(id) ==
    /\ \A backup \in backups : backup.id # id
    /\ backups' = backups \cup {Backup(id, now)}
    /\ UNCHANGED <<now, runs, jobs, view>>

-----------------------------------------------------------------------------
(* What is read from the tables.                                           *)

\* asked and kept are what the tables held when the request came: history.
StartView(kind) ==
    /\ view = NoView
    /\ view' = [NoView EXCEPT !.kind = kind, !.asked = runs, !.kept = backups,
                              !.at = IF kind = "page" THEN "latest" ELSE "database"]
    /\ UNCHANGED <<now, runs, backups, jobs>>

\* /sehat asks first whether the database answers at all.
PingDatabase ==
    /\ view.at = "database"
    /\ \E answers \in BOOLEAN :
         view' = IF answers THEN [view EXCEPT !.at = "success"]
                 ELSE [view EXCEPT !.at = "answered", !.verdict = "unavailable"]
    /\ UNCHANGED <<now, runs, backups, jobs>>

ReadLatest ==
    /\ view.at = "latest"
    /\ view' = [view EXCEPT !.at = "success", !.latest = Latest(runs)]
    /\ UNCHANGED <<now, runs, backups, jobs>>

\* Mutant of ReadSuccess: the last run is taken for the last success.
ReadSuccessOfAny ==
    /\ view.at = "success"
    /\ view' = [view EXCEPT !.at = "judge", !.success = Latest(runs)]
    /\ UNCHANGED <<now, runs, backups, jobs>>

ReadSuccess ==
    /\ view.at = "success"
    /\ view' = [view EXCEPT !.at = "judge", !.success = Latest(Succeeded(runs))]
    /\ UNCHANGED <<now, runs, backups, jobs>>

IsStale(success) == \E run \in success : now - run.finished > StaleAfter

\* MonitoringFreshness, and /sehat, which answers null for a monitor that never
\* succeeded and does not tell of a failure.
Verdict ==
    IF view.success = {} THEN IF view.kind = "page" THEN "never" ELSE "unknown"
    ELSE IF IsStale(view.success) THEN "stale"
    ELSE IF \E run \in view.latest : ~run.succeeded THEN "last failed"
    ELSE "current"

Judge ==
    /\ view.at = "judge"
    /\ view' = [view EXCEPT !.verdict = Verdict, !.time = now,
                            !.at = IF view.kind = "page" THEN "backup" ELSE "answered"]
    /\ UNCHANGED <<now, runs, backups, jobs>>

ReadBackup ==
    /\ view.at = "backup"
    /\ view' = [view EXCEPT !.at = "answered", !.backup = Latest(backups)]
    /\ UNCHANGED <<now, runs, backups, jobs>>

\* The tables cannot be read: the page fails, /sehat answers without them.
ReadFails ==
    /\ view.at \in {"latest", "success", "backup"}
    /\ view' = [view EXCEPT !.at = "answered",
                            !.verdict = IF view.kind = "page" THEN "error" ELSE "unknown"]
    /\ UNCHANGED <<now, runs, backups, jobs>>

HoursPass ==
    /\ now < MaxTime
    /\ now' = now + 1
    /\ UNCHANGED <<runs, backups, jobs, view>>

RunsNext ==
    \/ \E id \in RunIds : FinishJob(id) \/ StoreRun(id) \/ LoseRun(id) \/ RecordBackup(id)
    \/ \E kind \in {"page", "probe"} : StartView(kind)
    \/ PingDatabase \/ ReadLatest \/ ReadSuccess \/ Judge \/ ReadBackup \/ ReadFails
    \/ HoursPass

RunsSpec == RunsInit /\ [][RunsNext]_runsVars

-----------------------------------------------------------------------------
(* Properties.                                                             *)

Answered(verdicts) == view.at = "answered" /\ view.verdict \in verdicts

\* Each row is a run that ended, at the time and with the outcome its process had.
RunsTypeOK ==
    /\ now \in 0..MaxTime
    /\ jobs \in [RunIds -> JobStates]
    /\ \A run \in runs :
         /\ jobs[run.id].at = "ended" /\ run.finished <= now
         /\ run = Run(run.id, jobs[run.id].finished, jobs[run.id].succeeded)
    /\ \A id \in RunIds : Cardinality({backup \in backups : backup.id = id}) <= 1

\* monitoring_runs.py:182: a page or a watchdog is told that monitoring is current
\* only when a run has succeeded and ended within the allowance, whatever failed,
\* died or was stored late meanwhile.
CurrentIsCurrent ==
    Answered({"current", "last failed"}) =>
        \E run \in Succeeded(runs) : view.time - run.finished <= StaleAfter

\* health.py:57: nobody is paged while there is a success within the allowance: one
\* that was recorded when the request came is found, in whatever order runs that
\* overlapped were stored.
NoFalseAlarm ==
    Answered({"stale", "never"}) =>
        \A run \in Succeeded(view.asked) : view.time - run.finished > StaleAfter

\* monitoring_runs.py:185: a failure is surfaced even while the numbers still look
\* fine: a page that shows none knows of a success after each failure there was, and
\* it shows no older backup than was recorded when it was asked for.
LatestIsShown ==
    view.kind = "page" /\ Answered({"current"}) =>
        /\ \A failed \in view.asked \ Succeeded(view.asked) :
             \E run \in Succeeded(runs) : run.finished >= failed.finished
        /\ \A kept \in view.kept : \E shown \in view.backup : shown.finished >= kept.finished

\* What is kept of scheduled work and shown of it: runs as they ended, and pages and
\* watchdogs that report neither a success nor a calm that there was not.
RunsInv == RunsTypeOK /\ CurrentIsCurrent /\ LatestIsShown
=============================================================================
