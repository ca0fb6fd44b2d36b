----------------------- MODULE MonitoringAndSheetsProofs -----------------------
(* Proofs about what the commands of "python -m fuel_predictor" keep and   *)
(* about the functions they rest on: the record of scheduled work          *)
(* (MonitoringRuns), the catalogues they import (Catalogues), the alerts   *)
(* that monitoring delivers (Alerts), the rows of a workbook               *)
(* (Spreadsheets) and what monitoring computes of recorded outcomes        *)
(* (Measurements).  The five share no state; each is proved for every      *)
(* value of its constants.                                                 *)
EXTENDS MonitoringRuns, Catalogues, Alerts, Spreadsheets, Measurements,
        FiniteSetTheorems, WellFoundedInduction, TLAPS

-----------------------------------------------------------------------------
(* The record of scheduled work: the inductive invariant.                  *)

RunRows == [id : RunIds, finished : 0..MaxTime, succeeded : BOOLEAN]
BackupRows == [id : RunIds, finished : 0..MaxTime]

Views == [kind : {"none", "page", "probe"},
          at : {"idle", "database", "latest", "success", "judge", "backup", "answered"},
          asked : SUBSET RunRows, kept : SUBSET BackupRows,
          latest : SUBSET RunRows, success : SUBSET RunRows,
          verdict : {"none", "never", "unknown", "stale", "last failed", "current", "error",
                     "unavailable"},
          time : 0..MaxTime, backup : SUBSET BackupRows]

RecordTypeOK ==
    /\ now \in 0..MaxTime
    /\ runs \subseteq RunRows /\ backups \subseteq BackupRows
    /\ jobs \in [RunIds -> JobStates]
    /\ view \in Views

\* A row is the run of a process that ended, and a backup is recorded once.
RowsAgree ==
    /\ \A id \in RunIds : jobs[id].finished <= now
    /\ \A run \in runs : /\ jobs[run.id].at = "ended" /\ run.finished = jobs[run.id].finished
                         /\ run.succeeded = jobs[run.id].succeeded
    /\ \A a, b \in backups : a.id = b.id => a = b

\* Some row of a table that is not empty is the latest.
HasLatest(table) == table # {} => Latest(table) # {}

\* What a request has read is no older than what the tables held when it came.
Reaches(found, asked) == \A r \in asked : \E latest \in found : r.finished <= latest.finished

ReadingsAgree ==
    /\ view.asked \subseteq runs /\ view.kept \subseteq backups
    /\ view.at = "database" => view.kind = "probe"
    /\ view.kind = "page" /\ view.at \in {"success", "judge"} =>
         view.latest \subseteq runs /\ Reaches(view.latest, view.asked)
    /\ view.at = "judge" =>
         /\ view.success \subseteq Succeeded(runs)
         /\ \A success \in view.success, run \in Succeeded(view.asked) : run.finished <= success.finished
         /\ view.success = {} => Succeeded(view.asked) = {}

\* What was concluded from it is right, before it is shown too.
Judged(verdicts) == view.at \in {"backup", "answered"} /\ view.verdict \in verdicts

VerdictAgrees ==
    /\ Judged({"current", "last failed"}) =>
         \E run \in Succeeded(runs) : view.time - run.finished <= StaleAfter
    /\ Judged({"stale", "never"}) =>
         \A run \in Succeeded(view.asked) : view.time - run.finished > StaleAfter
    /\ view.kind = "page" /\ Judged({"current"}) =>
         \A failed \in view.asked \ Succeeded(view.asked) :
            \E run \in Succeeded(runs) : run.finished >= failed.finished
    /\ view.kind = "page" /\ Answered({"current"}) =>
         \A kept \in view.kept : \E shown \in view.backup : shown.finished >= kept.finished

\* The strengthening behind the properties of MonitoringRuns.
RecordInv ==
    /\ RecordTypeOK
    /\ RowsAgree
    /\ HasLatest(runs) /\ HasLatest(Succeeded(runs)) /\ HasLatest(backups)
    /\ ReadingsAgree
    /\ VerdictAgrees

-----------------------------------------------------------------------------
(* Rows and the latest of them.                                            *)

\* The clock and the allowance are counts.
LEMMA RecordLimits == MaxTime \in Nat /\ StaleAfter \in Nat /\ RunIds \subseteq Nat
  BY AllowanceIsCount, IdsAreOrdered

\* What is not older than the allowance is within it.
LEMMA WithinAllowance == \A t, f, a \in Nat : ~(t - f > a) => t - f <= a
  OBVIOUS

\* A table of rows with a time and an id still has a latest row when one is added.
LEMMA LatestGrows ==
    ASSUME NEW table, NEW added, HasLatest(table),
           \A r \in table \cup {added} : r.finished \in Nat /\ r.id \in Nat
    PROVE  HasLatest(table \cup {added})
<1>1. CASE table = {}
  <2>1. added \in Latest({added})
    BY <1>1 DEF Latest
  <2> QED
    BY <1>1, <2>1 DEF HasLatest
<1>2. CASE table # {}
  <2>1. PICK m \in table :
           \A other \in table : \/ other.finished < m.finished
                                \/ other.finished = m.finished /\ other.id <= m.id
    BY <1>2 DEF HasLatest, Latest
  <2>2. CASE added.finished < m.finished \/ (added.finished = m.finished /\ added.id <= m.id)
    <3>1. m \in Latest(table \cup {added})
      BY <2>1, <2>2 DEF Latest
    <3> QED
      BY <3>1 DEF HasLatest
  <2>3. CASE ~(added.finished < m.finished \/ (added.finished = m.finished /\ added.id <= m.id))
    <3>1. m.finished < added.finished \/ (m.finished = added.finished /\ m.id <= added.id)
      BY <2>3
    <3>2. \A other \in table : \/ other.finished < added.finished
                               \/ other.finished = added.finished /\ other.id <= added.id
      BY <2>1, <3>1
    <3>3. added \in Latest(table \cup {added})
      BY <3>2 DEF Latest
    <3> QED
      BY <3>3 DEF HasLatest
  <2> QED
    BY <2>2, <2>3
<1> QED
  BY <1>1, <1>2

\* The latest row is of the table, and as late as every other.
LEMMA LatestIsLatest ==
    ASSUME NEW table, NEW latest \in Latest(table), \A r \in table : r.finished \in Nat
    PROVE  latest \in table /\ \A other \in table : other.finished <= latest.finished
  BY DEF Latest

\* Rows have a time and an id.
LEMMA RowsAreTimed ==
    /\ \A run \in RunRows : run.finished \in Nat /\ run.id \in Nat /\ run.id \in RunIds
    /\ \A backup \in BackupRows : backup.finished \in Nat /\ backup.id \in Nat
<1>1. \A time \in 0..MaxTime : time \in Nat
  BY RecordLimits
<1>2. ASSUME NEW run \in RunRows PROVE run.finished \in 0..MaxTime /\ run.id \in RunIds
  BY DEF RunRows
<1>3. ASSUME NEW backup \in BackupRows PROVE backup.finished \in 0..MaxTime /\ backup.id \in RunIds
  BY DEF BackupRows
<1>4. \A id \in RunIds : id \in Nat
  BY RecordLimits
<1> QED
  BY <1>1, <1>2, <1>3, <1>4

\* Steps that leave the request alone leave right what it has read and concluded.
LEMMA ViewKept ==
    ASSUME RecordInv, UNCHANGED view, runs \subseteq runs', backups \subseteq backups'
    PROVE  ReadingsAgree' /\ VerdictAgrees'
<1>1. Succeeded(runs) \subseteq Succeeded(runs')
  BY DEF Succeeded
<1>2. ReadingsAgree'
  BY <1>1 DEF RecordInv, ReadingsAgree
<1>3. VerdictAgrees'
  BY <1>1 DEF RecordInv, VerdictAgrees, Judged, Answered
<1> QED
  BY <1>2, <1>3

-----------------------------------------------------------------------------
(* The steps of jobs.                                                      *)

\* A job that ends leaves its row, or no row.
LEMMA JobStep ==
    ASSUME RecordInv, NEW id \in RunIds, FinishJob(id) \/ StoreRun(id) \/ LoseRun(id)
    PROVE  RecordInv'
<1>0. /\ RecordTypeOK /\ RowsAgree /\ now \in 0..MaxTime /\ now \in Nat /\ jobs[id] \in JobStates
      /\ UNCHANGED <<now, backups, view>>
  BY RecordLimits DEF RecordInv, RecordTypeOK, FinishJob, StoreRun, LoseRun
<1>1. CASE FinishJob(id)
  <2>1. PICK ok \in BOOLEAN :
           jobs' = [jobs EXCEPT ![id] = [at |-> "storing", finished |-> now, succeeded |-> ok]]
    BY <1>1 DEF FinishJob
  <2> DEFINE j == [at |-> "storing", finished |-> now, succeeded |-> ok]
  <2>2. j \in JobStates /\ j.finished = now
    BY <1>0 DEF JobStates
  <2>3. UNCHANGED runs /\ \A run \in runs : run.id # id
    BY <1>0, <1>1 DEF FinishJob, RowsAgree
  <2> HIDE DEF j
  <2>4. jobs' \in [RunIds -> JobStates] /\ jobs'[id] = j /\ \A x \in RunIds \ {id} : jobs'[x] = jobs[x]
    BY <1>0, <2>1, <2>2 DEF RecordTypeOK, j
  <2>5. RecordTypeOK' /\ RowsAgree'
    BY <1>0, <2>2, <2>3, <2>4, RowsAreTimed DEF RecordTypeOK, RowsAgree
  <2> QED
    BY <1>0, <2>3, <2>5, ViewKept DEF RecordInv
<1>2. CASE StoreRun(id)
  <2> DEFINE added == Run(id, jobs[id].finished, jobs[id].succeeded)
             j == [jobs[id] EXCEPT !.at = "ended"]
  <2>1. runs' = runs \cup {added} /\ jobs' = [jobs EXCEPT ![id] = j]
    BY <1>0, <1>2 DEF StoreRun, RecordTypeOK, JobStates
  <2>2. /\ added \in RunRows /\ added.id = id /\ added.finished = jobs[id].finished
        /\ added.succeeded = jobs[id].succeeded
    BY <1>0 DEF Run, RunRows, JobStates
  <2>3. /\ j \in JobStates /\ j.at = "ended" /\ j.finished = jobs[id].finished
        /\ j.succeeded = jobs[id].succeeded
    BY <1>0 DEF JobStates
  <2> HIDE DEF added, j
  <2>4. jobs' \in [RunIds -> JobStates] /\ jobs'[id] = j /\ \A x \in RunIds \ {id} : jobs'[x] = jobs[x]
    BY <1>0, <2>1, <2>3 DEF RecordTypeOK
  <2>5. RecordTypeOK' /\ RowsAgree'
    BY <1>0, <2>1, <2>2, <2>3, <2>4, RowsAreTimed DEF RecordTypeOK, RowsAgree
  <2>6. \A r \in runs \cup {added} : r.finished \in Nat /\ r.id \in Nat
    BY <2>1, <2>5, RowsAreTimed DEF RecordTypeOK
  <2>7. HasLatest(runs')
    BY <2>1, <2>6, LatestGrows DEF RecordInv
  <2>8. HasLatest(Succeeded(runs'))
    <3>1. CASE added.succeeded
      <4>1. Succeeded(runs') = Succeeded(runs) \cup {added}
        BY <2>1, <3>1 DEF Succeeded
      <4>2. \A r \in Succeeded(runs) \cup {added} : r.finished \in Nat /\ r.id \in Nat
        BY <2>6 DEF Succeeded
      <4> QED
        BY <4>1, <4>2, LatestGrows DEF RecordInv
    <3>2. CASE ~added.succeeded
      <4>1. Succeeded(runs') = Succeeded(runs)
        BY <2>1, <3>2 DEF Succeeded
      <4> QED
        BY <4>1 DEF RecordInv
    <3> QED
      BY <3>1, <3>2
  <2>9. HasLatest(runs)' /\ HasLatest(Succeeded(runs))' /\ HasLatest(backups)'
    BY <1>0, <2>7, <2>8 DEF RecordInv, HasLatest, Latest, Succeeded
  <2> QED
    BY <1>0, <2>1, <2>5, <2>9, ViewKept DEF RecordInv
<1>3. CASE LoseRun(id)
  <2> DEFINE j == [jobs[id] EXCEPT !.at = "ended"]
  <2>1. UNCHANGED runs /\ jobs' = [jobs EXCEPT ![id] = j]
    BY <1>0, <1>3 DEF LoseRun, RecordTypeOK, JobStates
  <2>2. /\ j \in JobStates /\ j.at = "ended" /\ j.finished = jobs[id].finished
        /\ j.succeeded = jobs[id].succeeded
    BY <1>0 DEF JobStates
  <2> HIDE DEF j
  <2>3. jobs' \in [RunIds -> JobStates] /\ jobs'[id] = j /\ \A x \in RunIds \ {id} : jobs'[x] = jobs[x]
    BY <1>0, <2>1, <2>2 DEF RecordTypeOK
  <2>4. RecordTypeOK' /\ RowsAgree'
    BY <1>0, <2>1, <2>2, <2>3, RowsAreTimed DEF RecordTypeOK, RowsAgree
  <2> QED
    BY <1>0, <2>1, <2>4, ViewKept DEF RecordInv
<1> QED
  BY <1>1, <1>2, <1>3

\* A backup is recorded once.
LEMMA BackupStep ==
    ASSUME RecordInv, NEW id \in RunIds, RecordBackup(id)
    PROVE  RecordInv'
<1> DEFINE added == Backup(id, now)
<1>0. /\ RecordTypeOK /\ RowsAgree /\ now \in 0..MaxTime /\ backups' = backups \cup {added}
      /\ UNCHANGED <<now, runs, jobs, view>> /\ \A backup \in backups : backup.id # id
  BY DEF RecordInv, RecordTypeOK, RecordBackup
<1>1. added \in BackupRows /\ added.id = id
  BY <1>0 DEF Backup, BackupRows
<1> HIDE DEF added
<1>2. RecordTypeOK' /\ RowsAgree'
  BY <1>0, <1>1 DEF RecordTypeOK, RowsAgree
<1>3. \A r \in backups \cup {added} : r.finished \in Nat /\ r.id \in Nat
  BY <1>0, <1>2, RowsAreTimed DEF RecordTypeOK
<1>4. HasLatest(backups')
  BY <1>0, <1>3, LatestGrows DEF RecordInv
<1> QED
  BY <1>0, <1>2, <1>4, ViewKept DEF RecordInv, HasLatest, Latest

\* Time passes.
LEMMA HoursStep ==
    ASSUME RecordInv, HoursPass
    PROVE  RecordInv'
<1>0. /\ RecordTypeOK /\ RowsAgree /\ now \in Nat /\ now' = now + 1 /\ now' \in 0..MaxTime
      /\ UNCHANGED <<runs, backups, jobs, view>>
  BY RecordLimits DEF RecordInv, RecordTypeOK, HoursPass
<1>1. RecordTypeOK'
  BY <1>0 DEF RecordTypeOK
<1>2. RowsAgree'
  <2>1. \A id \in RunIds : jobs[id].finished \in Nat
    BY <1>0, RecordLimits DEF RecordTypeOK, JobStates
  <2> QED
    BY <1>0, <2>1 DEF RowsAgree
<1> QED
  BY <1>0, <1>1, <1>2, ViewKept DEF RecordInv

-----------------------------------------------------------------------------
(* The steps of a request.                                                 *)

\* What is left to show when only the request goes on.
LEMMA ViewStep ==
    ASSUME RecordInv, view' \in Views, ReadingsAgree', VerdictAgrees',
           UNCHANGED <<now, runs, backups, jobs>>
    PROVE  RecordInv'
<1>1. RecordTypeOK' /\ RowsAgree'
  BY DEF RecordInv, RecordTypeOK, RowsAgree
<1>2. HasLatest(runs)' /\ HasLatest(Succeeded(runs))' /\ HasLatest(backups)'
  BY DEF RecordInv, HasLatest, Latest, Succeeded
<1> QED
  BY <1>1, <1>2 DEF RecordInv

\* A request comes.
LEMMA StartViewStep ==
    ASSUME RecordInv, NEW kind \in {"page", "probe"}, StartView(kind)
    PROVE  RecordInv'
<1> DEFINE v == [NoView EXCEPT !.kind = kind, !.asked = runs, !.kept = backups,
                               !.at = IF kind = "page" THEN "latest" ELSE "database"]
<1>0. runs \subseteq RunRows /\ backups \subseteq BackupRows /\ view' = v
      /\ UNCHANGED <<now, runs, backups, jobs>>
  BY DEF RecordInv, RecordTypeOK, StartView
<1>1. /\ v \in Views /\ v.asked = runs /\ v.kept = backups /\ v.kind = kind
      /\ v.at = IF kind = "page" THEN "latest" ELSE "database"
  <2>1. 0 \in 0..MaxTime
    BY RecordLimits
  <2>2. NoView \in Views
    BY <2>1 DEF NoView, Views
  <2> QED
    BY <1>0, <2>2 DEF Views
<1> HIDE DEF v
<1>2. ReadingsAgree' /\ VerdictAgrees'
  BY <1>0, <1>1 DEF ReadingsAgree, VerdictAgrees, Judged, Answered
<1> QED
  BY <1>0, <1>1, <1>2, ViewStep

\* The database answers, or not.
LEMMA PingStep ==
    ASSUME RecordInv, PingDatabase
    PROVE  RecordInv'
<1>0. /\ view \in Views /\ view.at = "database" /\ UNCHANGED <<now, runs, backups, jobs>>
      /\ ReadingsAgree
  BY DEF RecordInv, RecordTypeOK, PingDatabase
<1>1. CASE view' = [view EXCEPT !.at = "success"] /\ view.kind # "page"
  <2>1. /\ view' \in Views /\ view'.at = "success" /\ view'.kind # "page" /\ view'.asked = view.asked
        /\ view'.kept = view.kept
    BY <1>0, <1>1 DEF Views
  <2>2. ReadingsAgree' /\ VerdictAgrees'
    BY <1>0, <2>1 DEF ReadingsAgree, VerdictAgrees, Judged, Answered
  <2> QED
    BY <1>0, <2>1, <2>2, ViewStep
<1>2. CASE view' = [view EXCEPT !.at = "answered", !.verdict = "unavailable"]
  <2>1. /\ view' \in Views /\ view'.at = "answered" /\ view'.verdict = "unavailable"
        /\ view'.asked = view.asked /\ view'.kept = view.kept
    BY <1>0, <1>2 DEF Views
  <2>2. ReadingsAgree' /\ VerdictAgrees'
    BY <1>0, <2>1 DEF ReadingsAgree, VerdictAgrees, Judged, Answered
  <2> QED
    BY <1>0, <2>1, <2>2, ViewStep
<1>3. view.kind # "page"
  BY <1>0 DEF RecordInv, ReadingsAgree
<1> QED
  BY <1>1, <1>2, <1>3 DEF PingDatabase

\* The page reads the latest run.
LEMMA ReadLatestStep ==
    ASSUME RecordInv, ReadLatest
    PROVE  RecordInv'
<1> DEFINE v == [view EXCEPT !.at = "success", !.latest = Latest(runs)]
<1>0. /\ view \in Views /\ runs \subseteq RunRows /\ HasLatest(runs) /\ ReadingsAgree
      /\ UNCHANGED <<now, runs, backups, jobs>> /\ view' = v
  BY DEF RecordInv, RecordTypeOK, ReadLatest
<1>1. Latest(runs) \subseteq runs
  BY DEF Latest
<1>2. Reaches(Latest(runs), view.asked)
  <2>1. \A r \in runs : r.finished \in Nat
    BY <1>0, RowsAreTimed
  <2>2. \A latest \in Latest(runs), other \in runs : other.finished <= latest.finished
    BY <2>1, LatestIsLatest
  <2>3. view.asked # {} => Latest(runs) # {}
    BY <1>0 DEF ReadingsAgree, HasLatest
  <2> QED
    BY <1>0, <2>2, <2>3 DEF Reaches, ReadingsAgree
<1>3. /\ v \in Views /\ v.at = "success" /\ v.latest = Latest(runs) /\ v.asked = view.asked
      /\ v.kept = view.kept /\ v.kind = view.kind
  BY <1>0, <1>1 DEF Views
<1> HIDE DEF v
<1>4. Latest(runs)' = Latest(runs) /\ Succeeded(runs)' = Succeeded(runs)
  BY <1>0
<1>5. ReadingsAgree'
  BY <1>0, <1>1, <1>2, <1>3 DEF ReadingsAgree, Reaches
<1>6. VerdictAgrees'
  BY <1>0, <1>3 DEF VerdictAgrees, Judged, Answered
<1> QED
  BY <1>0, <1>3, <1>5, <1>6, ViewStep

\* The latest success is read.
LEMMA ReadSuccessStep ==
    ASSUME RecordInv, ReadSuccess
    PROVE  RecordInv'
<1> DEFINE found == Latest(Succeeded(runs))
           v == [view EXCEPT !.at = "judge", !.success = found]
<1>0. /\ view \in Views /\ view.at = "success" /\ runs \subseteq RunRows /\ HasLatest(Succeeded(runs))
      /\ ReadingsAgree /\ UNCHANGED <<now, runs, backups, jobs>> /\ view' = v
  BY DEF RecordInv, RecordTypeOK, ReadSuccess
<1>1. found \subseteq Succeeded(runs) /\ Succeeded(runs) \subseteq runs
  BY DEF Latest, Succeeded
<1>2. \A success \in found, run \in Succeeded(runs) : run.finished <= success.finished
  <2>1. \A r \in Succeeded(runs) : r.finished \in Nat
    BY <1>0, <1>1, RowsAreTimed
  <2> QED
    BY <2>1, LatestIsLatest
<1>3. found = {} => Succeeded(runs) = {}
  BY <1>0 DEF HasLatest
<1>4. Succeeded(view.asked) \subseteq Succeeded(runs)
  BY <1>0 DEF ReadingsAgree, Succeeded
<1> HIDE DEF found
<1>5. /\ v \in Views /\ v.at = "judge" /\ v.success = found /\ v.asked = view.asked
      /\ v.kept = view.kept /\ v.kind = view.kind /\ v.latest = view.latest
  BY <1>0, <1>1 DEF Views
<1> HIDE DEF v
<1>6. ReadingsAgree'
  <2>1. view'.asked \subseteq runs' /\ view'.kept \subseteq backups'
    BY <1>0, <1>5 DEF ReadingsAgree
  <2>2. view'.kind = "page" => view'.latest \subseteq runs' /\ Reaches(view'.latest, view'.asked)
    BY <1>0, <1>5 DEF ReadingsAgree
  <2>3. view'.success \subseteq Succeeded(runs)' /\ (view'.success = {} => Succeeded(view'.asked) = {})
    BY <1>0, <1>1, <1>3, <1>4, <1>5
  <2>4. \A success \in view'.success, run \in Succeeded(view'.asked) : run.finished <= success.finished
    BY <1>0, <1>2, <1>4, <1>5
  <2>5. view'.at = "judge"
    BY <1>0, <1>5
  <2> QED
    BY <2>1, <2>2, <2>3, <2>4, <2>5 DEF ReadingsAgree, Succeeded, Reaches
<1>7. VerdictAgrees'
  BY <1>0, <1>5 DEF VerdictAgrees, Judged, Answered
<1> QED
  BY <1>0, <1>5, <1>6, <1>7, ViewStep

\* The request makes up its mind.
LEMMA JudgeStep ==
    ASSUME RecordInv, Judge
    PROVE  RecordInv'
<1> DEFINE v == [view EXCEPT !.verdict = Verdict, !.time = now,
                             !.at = IF view.kind = "page" THEN "backup" ELSE "answered"]
<1>0. /\ view \in Views /\ view.at = "judge" /\ runs \subseteq RunRows /\ backups \subseteq BackupRows
      /\ ReadingsAgree /\ now \in 0..MaxTime /\ now \in Nat
      /\ UNCHANGED <<now, runs, backups, jobs>> /\ view' = v
  BY RecordLimits DEF RecordInv, RecordTypeOK, Judge
<1>1. /\ v \in Views /\ v.verdict = Verdict /\ v.time = now /\ v.asked = view.asked
      /\ v.kept = view.kept /\ v.kind = view.kind /\ v.latest = view.latest /\ v.success = view.success
      /\ v.at = IF view.kind = "page" THEN "backup" ELSE "answered"
  <2>1. Verdict \in {"never", "unknown", "stale", "last failed", "current"}
    BY DEF Verdict
  <2> HIDE DEF Verdict
  <2> QED
    BY <1>0, <2>1 DEF Views
<1> HIDE DEF v
<1>2. /\ view.success \subseteq Succeeded(runs) /\ view.asked \subseteq runs
      /\ \A success \in view.success, run \in Succeeded(view.asked) : run.finished <= success.finished
      /\ view.success = {} => Succeeded(view.asked) = {}
      /\ view.kind = "page" => view.latest \subseteq runs /\ Reaches(view.latest, view.asked)
  BY <1>0 DEF ReadingsAgree
<1>3. \A run \in runs : run.finished \in Nat
  BY <1>0, RowsAreTimed
<1>4. Verdict \in {"current", "last failed"} =>
         \E run \in Succeeded(runs) : now - run.finished <= StaleAfter
  <2> SUFFICES ASSUME Verdict \in {"current", "last failed"}
               PROVE  \E run \in Succeeded(runs) : now - run.finished <= StaleAfter
    OBVIOUS
  <2>1. view.success # {} /\ ~IsStale(view.success)
    BY DEF Verdict
  <2>2. PICK s \in view.success : ~(now - s.finished > StaleAfter)
    BY <2>1 DEF IsStale
  <2>3. s \in Succeeded(runs) /\ s.finished \in Nat
    BY <1>2, <1>3 DEF Succeeded
  <2>5. now \in Nat /\ s.finished \in Nat /\ StaleAfter \in Nat
    BY <1>0, <2>3, RecordLimits
  <2>6. now - s.finished <= StaleAfter
    BY <2>2, <2>5, WithinAllowance
  <2> QED
    BY <2>3, <2>6
<1>5. Verdict \in {"stale", "never"} =>
         \A run \in Succeeded(view.asked) : now - run.finished > StaleAfter
  <2> SUFFICES ASSUME Verdict \in {"stale", "never"}, NEW run \in Succeeded(view.asked)
               PROVE  now - run.finished > StaleAfter
    OBVIOUS
  <2>1. view.success # {}
    BY <1>2
  <2>2. IsStale(view.success)
    BY <2>1 DEF Verdict
  <2>3. PICK s \in view.success : now - s.finished > StaleAfter
    BY <2>2 DEF IsStale
  <2>4. run.finished <= s.finished /\ run.finished \in Nat /\ s.finished \in Nat
    BY <1>2, <1>3 DEF Succeeded
  <2> QED
    BY <1>0, <2>3, <2>4, RecordLimits
<1>6. view.kind = "page" /\ Verdict = "current" =>
         \A failed \in view.asked \ Succeeded(view.asked) :
            \E run \in Succeeded(runs) : run.finished >= failed.finished
  <2> SUFFICES ASSUME view.kind = "page", Verdict = "current",
                      NEW failed \in view.asked \ Succeeded(view.asked)
               PROVE  \E run \in Succeeded(runs) : run.finished >= failed.finished
    OBVIOUS
  <2>1. \A run \in view.latest : run.succeeded
    BY DEF Verdict
  <2>2. PICK m \in view.latest : failed.finished <= m.finished
    BY <1>2 DEF Reaches
  <2>3. m \in Succeeded(runs) /\ m.finished \in Nat /\ failed.finished \in Nat
    BY <1>2, <1>3, <2>1 DEF Succeeded
  <2> QED
    BY <2>2, <2>3
<1>7. VerdictAgrees'
  <2> HIDE DEF Verdict
  <2>1. view'.verdict = Verdict /\ view'.time = now /\ view'.asked = view.asked /\ view'.kind = view.kind
        /\ (view'.at = "answered" => view'.kind # "page") /\ Succeeded(runs)' = Succeeded(runs)
    BY <1>0, <1>1
  <2>2. Judged({"current", "last failed"})' =>
          \E run \in Succeeded(runs)' : view'.time - run.finished <= StaleAfter
    BY <1>4, <2>1 DEF Judged
  <2>3. Judged({"stale", "never"})' =>
          \A run \in Succeeded(view'.asked) : view'.time - run.finished > StaleAfter
    BY <1>5, <2>1 DEF Judged
  <2>4. view'.kind = "page" /\ Judged({"current"})' =>
          \A failed \in view'.asked \ Succeeded(view'.asked) :
             \E run \in Succeeded(runs)' : run.finished >= failed.finished
    BY <1>6, <2>1 DEF Judged
  <2>5. ~(view'.kind = "page" /\ Answered({"current"})')
    BY <2>1 DEF Answered
  <2> QED
    BY <2>2, <2>3, <2>4, <2>5 DEF VerdictAgrees, Succeeded
<1>8. ReadingsAgree'
  BY <1>0, <1>1 DEF ReadingsAgree
<1> QED
  BY <1>0, <1>1, <1>7, <1>8, ViewStep

\* The page reads the latest backup.
LEMMA ReadBackupStep ==
    ASSUME RecordInv, ReadBackup
    PROVE  RecordInv'
<1> DEFINE v == [view EXCEPT !.at = "answered", !.backup = Latest(backups)]
<1>0. /\ view \in Views /\ view.at = "backup" /\ backups \subseteq BackupRows /\ HasLatest(backups)
      /\ ReadingsAgree /\ VerdictAgrees /\ UNCHANGED <<now, runs, backups, jobs>> /\ view' = v
  BY DEF RecordInv, RecordTypeOK, ReadBackup
<1>1. Latest(backups) \subseteq backups
  BY DEF Latest
<1>2. \A kept \in view.kept : \E shown \in Latest(backups) : shown.finished >= kept.finished
  <2>1. \A r \in backups : r.finished \in Nat
    BY <1>0, RowsAreTimed
  <2>2. \A shown \in Latest(backups), other \in backups : other.finished <= shown.finished
    BY <2>1, LatestIsLatest
  <2>3. view.kept \subseteq backups /\ (view.kept # {} => Latest(backups) # {})
    BY <1>0 DEF ReadingsAgree, HasLatest
  <2> SUFFICES ASSUME NEW kept \in view.kept
               PROVE  \E shown \in Latest(backups) : shown.finished >= kept.finished
    OBVIOUS
  <2>4. PICK shown \in Latest(backups) : kept.finished <= shown.finished
    BY <2>2, <2>3
  <2>5. kept.finished \in Nat /\ shown.finished \in Nat
    BY <1>1, <2>1, <2>3
  <2> QED
    BY <2>4, <2>5
<1>3. /\ v \in Views /\ v.at = "answered" /\ v.backup = Latest(backups) /\ v.asked = view.asked
      /\ v.kept = view.kept /\ v.kind = view.kind /\ v.verdict = view.verdict /\ v.time = view.time
  BY <1>0, <1>1 DEF Views
<1> HIDE DEF v
<1>4. ReadingsAgree'
  BY <1>0, <1>3 DEF ReadingsAgree
<1>5. VerdictAgrees'
  <2>1. Succeeded(runs)' = Succeeded(runs)
    BY <1>0 DEF Succeeded
  <2>2. Judged({"current", "last failed"})' =>
          \E run \in Succeeded(runs)' : view'.time - run.finished <= StaleAfter
    BY <1>0, <1>3, <2>1 DEF Judged, VerdictAgrees
  <2>3. Judged({"stale", "never"})' =>
          \A run \in Succeeded(view'.asked) : view'.time - run.finished > StaleAfter
    BY <1>0, <1>3 DEF Judged, VerdictAgrees
  <2>4. view'.kind = "page" /\ Judged({"current"})' =>
          \A failed \in view'.asked \ Succeeded(view'.asked) :
             \E run \in Succeeded(runs)' : run.finished >= failed.finished
    BY <1>0, <1>3, <2>1 DEF Judged, VerdictAgrees
  <2>5. \A kept \in view'.kept : \E shown \in view'.backup : shown.finished >= kept.finished
    BY <1>0, <1>2, <1>3
  <2> QED
    BY <2>2, <2>3, <2>4, <2>5 DEF VerdictAgrees, Succeeded
<1> QED
  BY <1>0, <1>3, <1>4, <1>5, ViewStep

\* The tables cannot be read: nothing is concluded.
LEMMA ReadFailsStep ==
    ASSUME RecordInv, ReadFails
    PROVE  RecordInv'
<1> DEFINE v == [view EXCEPT !.at = "answered",
                             !.verdict = IF view.kind = "page" THEN "error" ELSE "unknown"]
<1>0. /\ view \in Views /\ ReadingsAgree /\ UNCHANGED <<now, runs, backups, jobs>> /\ view' = v
  BY DEF RecordInv, RecordTypeOK, ReadFails
<1>1. /\ v \in Views /\ v.at = "answered" /\ v.asked = view.asked /\ v.kept = view.kept
      /\ v.verdict \in {"error", "unknown"}
  BY <1>0 DEF Views
<1> HIDE DEF v
<1>2. ReadingsAgree' /\ VerdictAgrees'
  BY <1>0, <1>1 DEF ReadingsAgree, VerdictAgrees, Judged, Answered
<1> QED
  BY <1>0, <1>1, <1>2, ViewStep

\* At first no job has ended and nobody has asked.
LEMMA RecordInit == RunsInit => RecordInv
<1> SUFFICES ASSUME RunsInit PROVE RecordInv
  OBVIOUS
<1>0. /\ now = 0 /\ now \in 0..MaxTime /\ 0 <= now /\ runs = {} /\ backups = {} /\ view = NoView
      /\ jobs = [id \in RunIds |-> Computing]
  BY RecordLimits DEF RunsInit
<1>1. /\ NoView \in Views /\ Computing \in JobStates /\ Computing.finished = 0
      /\ NoView.at = "idle" /\ NoView.asked = {} /\ NoView.kept = {}
  BY <1>0 DEF NoView, Views, Computing, JobStates
<1>2. RecordTypeOK /\ RowsAgree
  BY <1>0, <1>1 DEF RecordTypeOK, RowsAgree
<1>3. HasLatest(runs) /\ HasLatest(Succeeded(runs)) /\ HasLatest(backups)
  BY <1>0 DEF HasLatest, Succeeded
<1>4. ReadingsAgree /\ VerdictAgrees
  BY <1>0, <1>1 DEF ReadingsAgree, VerdictAgrees, Judged, Answered
<1> QED
  BY <1>2, <1>3, <1>4 DEF RecordInv

\* Every step keeps the strengthening.
LEMMA RecordNext == RecordInv /\ [RunsNext]_runsVars => RecordInv'
<1> SUFFICES ASSUME RecordInv, [RunsNext]_runsVars PROVE RecordInv'
  OBVIOUS
<1>1. ASSUME NEW id \in RunIds, FinishJob(id) \/ StoreRun(id) \/ LoseRun(id) PROVE RecordInv'
  BY <1>1, JobStep
<1>2. ASSUME NEW id \in RunIds, RecordBackup(id) PROVE RecordInv'
  BY <1>2, BackupStep
<1>3. ASSUME NEW kind \in {"page", "probe"}, StartView(kind) PROVE RecordInv'
  BY <1>3, StartViewStep
<1>4. CASE PingDatabase \/ ReadLatest \/ ReadSuccess
  BY <1>4, PingStep, ReadLatestStep, ReadSuccessStep
<1>5. CASE Judge \/ ReadBackup \/ ReadFails
  BY <1>5, JudgeStep, ReadBackupStep, ReadFailsStep
<1>6. CASE HoursPass
  BY <1>6, HoursStep
<1>7. CASE UNCHANGED runsVars
  <2>1. UNCHANGED <<now, runs, backups, jobs, view>>
    BY <1>7 DEF runsVars
  <2>2. ReadingsAgree' /\ VerdictAgrees'
    BY <2>1, ViewKept
  <2>3. view' \in Views
    BY <2>1 DEF RecordInv, RecordTypeOK
  <2> QED
    BY <2>1, <2>2, <2>3, ViewStep
<1> QED
  BY <1>1, <1>2, <1>3, <1>4, <1>5, <1>6, <1>7 DEF RunsNext

\* Every table has a latest row once it has one at all, what a request has read is no
\* older than what it was asked for, and its verdict follows from it.
THEOREM RecordInvariant == RunsSpec => []RecordInv
  BY RecordInit, RecordNext, PTL DEF RunsSpec

\* A backup is recorded at most once.
LEMMA BackupsAreOnce ==
    ASSUME RecordInv, NEW id \in RunIds
    PROVE  Cardinality({backup \in backups : backup.id = id}) <= 1
<1> DEFINE same == {backup \in backups : backup.id = id}
<1>1. \A a, b \in same : a = b
  BY DEF RecordInv, RowsAgree
<1> HIDE DEF same
<1>2. same = {} \/ \E a : same = {a}
  BY <1>1
<1>3. same = {} => Cardinality(same) = 0
  BY FS_EmptySet
<1>4. ASSUME NEW a, same = {a} PROVE Cardinality(same) = 1
  BY <1>4, FS_Singleton
<1>5. Cardinality(same) <= 1
  BY <1>2, <1>4, <1>3
<1> QED
  BY <1>5 DEF same

\* RunsInv: rows are runs as they ended; a page or a watchdog that says that monitoring
\* is current knows of a success within the allowance, and a page that shows no failure
\* knows of a success after each, however jobs overlap, die and store late.
THEOREM RecordIsKept == RunsSpec => []RunsInv
<1>1. ASSUME RecordInv PROVE RunsTypeOK
  <2>1. ASSUME NEW run \in runs
        PROVE  /\ jobs[run.id].at = "ended" /\ run.finished <= now
               /\ run = Run(run.id, jobs[run.id].finished, jobs[run.id].succeeded)
    <3>1. run \in RunRows /\ run.id \in RunIds
      BY <1>1 DEF RecordInv, RecordTypeOK, RunRows
    <3>2. /\ jobs[run.id].at = "ended" /\ run.finished = jobs[run.id].finished
          /\ run.succeeded = jobs[run.id].succeeded /\ jobs[run.id].finished <= now
      BY <1>1, <3>1 DEF RecordInv, RowsAgree
    <3> QED
      BY <3>1, <3>2 DEF RunRows, Run
  <2> QED
    BY <1>1, <2>1, BackupsAreOnce DEF RecordInv, RecordTypeOK, RunsTypeOK
<1>2. ASSUME RecordInv PROVE CurrentIsCurrent /\ LatestIsShown
  <2>1. CurrentIsCurrent
    BY <1>2 DEF RecordInv, VerdictAgrees, Judged, Answered, CurrentIsCurrent
  <2>2. LatestIsShown
    BY <1>2 DEF RecordInv, VerdictAgrees, Judged, Answered, LatestIsShown
  <2> QED
    BY <2>1, <2>2
<1>3. RecordInv => RunsInv
  BY <1>1, <1>2 DEF RunsInv
<1> QED
  BY <1>3, RecordInvariant, PTL

\* NoFalseAlarm: a success within the allowance that was recorded when the request came
\* is found, so nobody is paged while there is one.
THEOREM AlarmsAreTrue == RunsSpec => []NoFalseAlarm
<1>1. RecordInv => NoFalseAlarm
  BY DEF RecordInv, VerdictAgrees, Judged, Answered, NoFalseAlarm
<1> QED
  BY <1>1, RecordInvariant, PTL

-----------------------------------------------------------------------------
(* The catalogues: the inductive invariant.                                *)

Lookups == [at : {"idle", "options", "find", "answered"}, kind : {"none", "vehicle", "stop"},
            written : Names \cup {"none"}, loaded : Imports \cup {Nobody},
            read : Imports \cup {Nobody}, answer : Names \cup {"none", "written", "unknown", "error"}]

TablesTypeOK ==
    /\ imports \in [Imports -> ImportStates]
    /\ loader \in Imports \cup {Nobody}
    /\ lookup \in Lookups

\* An import has deleted, or waits to delete, all of the catalogue or none of it,
\* and one import at a time has deleted something.
DeletionsAgree ==
    /\ \A i \in Imports : imports[i].at \in {"waiting", "insert"} => imports[i].rows \in {{}, catalogue}
    /\ \A i, j \in Imports :
         (imports[i].at = "insert" /\ imports[j].at = "insert"
             /\ imports[i].rows # {} /\ imports[j].rows # {}) => i = j

\* A lookup is answered from one catalogue, and once some sheet is loaded one stays.
LookupAgrees ==
    /\ lookup.loaded # Nobody => loader # Nobody
    /\ lookup.at = "options" => lookup.kind = "vehicle"
    /\ lookup.at \in {"options", "find"} => lookup.written \in Names
    /\ lookup.at = "answered" => lookup.answer \in Names \cup {"written", "unknown", "error"}

\* The strengthening behind the properties of Catalogues.
SheetsInv ==
    /\ TablesTypeOK
    /\ DeletionsAgree
    /\ CatalogueIsOneSheet
    /\ LookupAgrees
    /\ KnownVehiclesAreFound
    /\ StopsFailOnlyByTheirTwins

-----------------------------------------------------------------------------
(* The steps of imports and lookups.                                       *)

\* Sheets are not empty, and any two share a name.
LEMMA SheetFacts ==
    ASSUME NEW i \in Imports, NEW j \in Imports
    PROVE  SheetOf[i] \subseteq Names /\ SheetOf[i] # {} /\ SheetOf[i] \cap SheetOf[j] # {}
  BY SheetsShareNames

\* Imports leave a lookup as it is, and the catalogue loaded.
LEMMA LookupKept ==
    ASSUME SheetsInv, UNCHANGED lookup, loader' \in {loader} \cup Imports
    PROVE  /\ LookupAgrees' /\ KnownVehiclesAreFound' /\ StopsFailOnlyByTheirTwins'
           /\ lookup' \in Lookups
<1>1. LookupAgrees'
  BY NobodyImports DEF SheetsInv, LookupAgrees
<1>2. KnownVehiclesAreFound' /\ StopsFailOnlyByTheirTwins'
  BY DEF SheetsInv, KnownVehiclesAreFound, StopsFailOnlyByTheirTwins, Spelled
<1> QED
  BY <1>1, <1>2 DEF SheetsInv, TablesTypeOK

\* An import deletes what it finds, or waits for the one that has.
LEMMA DeleteStep ==
    ASSUME SheetsInv, NEW i \in Imports, DeleteRows(i)
    PROVE  SheetsInv'
<1> DEFINE s == [at |-> IF Locked \cap catalogue = {} THEN "insert" ELSE "waiting", rows |-> catalogue]
<1>0. /\ TablesTypeOK /\ DeletionsAgree /\ CatalogueIsOneSheet /\ imports' = [imports EXCEPT ![i] = s]
      /\ UNCHANGED <<catalogue, loader, lookup>>
  BY DEF SheetsInv, DeleteRows
<1>1. catalogue \subseteq Names
  BY <1>0, SheetFacts DEF CatalogueIsOneSheet, TablesTypeOK
<1>2. /\ s \in ImportStates /\ s.at \in {"insert", "waiting"} /\ s.rows = catalogue
      /\ (s.at = "insert" => Locked \cap catalogue = {})
  BY <1>1 DEF ImportStates
<1> HIDE DEF s
<1>3. imports' \in [Imports -> ImportStates] /\ imports'[i] = s /\ \A j \in Imports \ {i} : imports'[j] = imports[j]
  BY <1>0, <1>2 DEF TablesTypeOK
<1>4. ASSUME NEW j \in Imports \ {i}, imports[j].at = "insert", imports[j].rows # {}, s.at = "insert"
      PROVE  s.rows = {}
  <2>1. imports[j].rows = catalogue /\ imports[j].rows \subseteq Locked
    BY <1>0, <1>4 DEF DeletionsAgree, Locked
  <2> QED
    BY <1>2, <1>4, <2>1
<1>5. DeletionsAgree'
  <2>1. \A j \in Imports : imports'[j].at \in {"waiting", "insert"} => imports'[j].rows \in {{}, catalogue'}
    BY <1>0, <1>2, <1>3 DEF DeletionsAgree
  <2>2. ASSUME NEW j \in Imports, NEW k \in Imports, imports'[j].at = "insert", imports'[k].at = "insert",
               imports'[j].rows # {}, imports'[k].rows # {}
        PROVE  j = k
    BY <1>0, <1>3, <1>4, <2>2 DEF DeletionsAgree
  <2> QED
    BY <2>1, <2>2 DEF DeletionsAgree
<1>6. CatalogueIsOneSheet'
  BY <1>0 DEF CatalogueIsOneSheet
<1>7. TablesTypeOK'
  BY <1>0, <1>3 DEF TablesTypeOK
<1> QED
  BY <1>0, <1>5, <1>6, <1>7, LookupKept DEF SheetsInv

\* An import that waited finds the rows it waited for left alone, or none.
LEMMA ResumeStep ==
    ASSUME SheetsInv, NEW i \in Imports, ResumeDelete(i)
    PROVE  SheetsInv'
<1> DEFINE s == [imports[i] EXCEPT !.at = "insert"]
<1>0. /\ TablesTypeOK /\ DeletionsAgree /\ CatalogueIsOneSheet /\ imports[i] \in ImportStates
      /\ imports[i].at = "waiting" /\ Locked \cap imports[i].rows = {}
      /\ UNCHANGED <<catalogue, loader, lookup>>
  BY DEF SheetsInv, ResumeDelete, TablesTypeOK
<1>1. s \in ImportStates /\ s.at = "insert" /\ s.rows = imports[i].rows
  BY <1>0 DEF ImportStates
<1>2. imports' = [imports EXCEPT ![i] = s]
  BY <1>0 DEF ResumeDelete, TablesTypeOK, ImportStates
<1> HIDE DEF s
<1>3. imports' \in [Imports -> ImportStates] /\ imports'[i] = s /\ \A j \in Imports \ {i} : imports'[j] = imports[j]
  BY <1>0, <1>1, <1>2 DEF TablesTypeOK
<1>4. ASSUME NEW j \in Imports \ {i}, imports[j].at = "insert", imports[j].rows # {}
      PROVE  s.rows = {}
  <2>1. /\ imports[j].rows = catalogue /\ imports[j].rows \subseteq Locked
        /\ imports[i].rows \in {{}, catalogue}
    BY <1>0, <1>4 DEF DeletionsAgree, Locked
  <2> QED
    BY <1>0, <1>1, <1>4, <2>1
<1>5. DeletionsAgree'
  <2>1. \A j \in Imports : imports'[j].at \in {"waiting", "insert"} => imports'[j].rows \in {{}, catalogue'}
    BY <1>0, <1>1, <1>3 DEF DeletionsAgree
  <2>2. ASSUME NEW j \in Imports, NEW k \in Imports, imports'[j].at = "insert", imports'[k].at = "insert",
               imports'[j].rows # {}, imports'[k].rows # {}
        PROVE  j = k
    BY <1>0, <1>3, <1>4, <2>2 DEF DeletionsAgree
  <2> QED
    BY <2>1, <2>2 DEF DeletionsAgree
<1>6. CatalogueIsOneSheet'
  BY <1>0 DEF CatalogueIsOneSheet
<1>7. TablesTypeOK'
  BY <1>0, <1>3 DEF TablesTypeOK
<1> QED
  BY <1>0, <1>5, <1>6, <1>7, LookupKept DEF SheetsInv

\* An import that fails leaves everything as it was.
LEMMA FailStep ==
    ASSUME SheetsInv, NEW i \in Imports, UNCHANGED <<catalogue, loader, lookup>>,
           imports' = [imports EXCEPT ![i] = [at |-> "failed", rows |-> {}]]
    PROVE  SheetsInv'
<1> DEFINE s == [at |-> "failed", rows |-> {}]
<1>0. TablesTypeOK /\ DeletionsAgree /\ CatalogueIsOneSheet /\ imports' = [imports EXCEPT ![i] = s]
  BY DEF SheetsInv
<1>1. s \in ImportStates /\ s.at = "failed"
  BY DEF ImportStates
<1> HIDE DEF s
<1>2. imports' \in [Imports -> ImportStates] /\ imports'[i] = s /\ \A j \in Imports \ {i} : imports'[j] = imports[j]
  BY <1>0, <1>1 DEF TablesTypeOK
<1>3. DeletionsAgree'
  BY <1>0, <1>1, <1>2 DEF DeletionsAgree
<1>4. CatalogueIsOneSheet' /\ TablesTypeOK'
  BY <1>0, <1>2 DEF CatalogueIsOneSheet, TablesTypeOK
<1> QED
  BY <1>3, <1>4, LookupKept DEF SheetsInv

\* An import that deleted none of the rows of another sheet meets a name of its own
\* among them, so whoever commits has deleted the whole catalogue.
LEMMA ReplaceStep ==
    ASSUME SheetsInv, NEW i \in Imports, ReplaceRows(i)
    PROVE  SheetsInv'
<1>0. /\ TablesTypeOK /\ DeletionsAgree /\ CatalogueIsOneSheet /\ UNCHANGED lookup
      /\ imports[i].at = "insert" /\ imports[i].rows \in {{}, catalogue}
  BY DEF SheetsInv, ReplaceRows, DeletionsAgree
<1>1. CASE (catalogue \ imports[i].rows) \cap SheetOf[i] # {}
  <2>1. /\ imports' = [imports EXCEPT ![i] = [at |-> "failed", rows |-> {}]]
        /\ UNCHANGED <<catalogue, loader>>
    BY <1>1 DEF ReplaceRows
  <2> QED
    BY <1>0, <2>1, FailStep
<1>2. CASE (catalogue \ imports[i].rows) \cap SheetOf[i] = {}
  <2>1. catalogue = imports[i].rows
    <3>1. CASE imports[i].rows = {}
      <4>1. catalogue \cap SheetOf[i] = {}
        BY <1>2, <3>1
      <4>2. loader = Nobody
        BY <1>0, <4>1, SheetFacts DEF CatalogueIsOneSheet, TablesTypeOK
      <4> QED
        BY <1>0, <3>1, <4>2 DEF CatalogueIsOneSheet
    <3> QED
      BY <1>0, <3>1
  <2>2. /\ catalogue' = SheetOf[i] /\ loader' = i
        /\ imports' = [j \in Imports |->
                         IF j = i THEN [at |-> "imported", rows |-> {}]
                         ELSE IF imports[j].at = "waiting" THEN [imports[j] EXCEPT !.rows = {}]
                         ELSE imports[j]]
    BY <1>2, <2>1 DEF ReplaceRows
  <2>3. CatalogueIsOneSheet'
    BY <2>2, NobodyImports DEF CatalogueIsOneSheet
  <2>4. ASSUME NEW j \in Imports
        PROVE  /\ imports'[j] \in ImportStates
               /\ (imports'[j].at \in {"waiting", "insert"} => imports'[j].rows = {})
    <3>1. imports[j] \in ImportStates
      BY <1>0 DEF TablesTypeOK
    <3>2. CASE j = i
      BY <2>2, <3>2 DEF ImportStates
    <3>3. CASE j # i /\ imports[j].at = "waiting"
      <4> DEFINE s == [imports[j] EXCEPT !.rows = {}]
      <4>1. s \in ImportStates /\ s.rows = {}
        BY <3>1 DEF ImportStates
      <4>2. imports'[j] = s
        BY <2>2, <3>3
      <4> HIDE DEF s
      <4> QED
        BY <4>1, <4>2
    <3>4. CASE j # i /\ imports[j].at # "waiting"
      <4>1. imports'[j] = imports[j]
        BY <2>2, <3>4
      <4>2. imports[j].at = "insert" => imports[j].rows = {}
        BY <1>0, <2>1, <3>4 DEF DeletionsAgree
      <4> QED
        BY <3>1, <3>4, <4>1, <4>2
    <3> QED
      BY <3>2, <3>3, <3>4
  <2>5. imports' \in [Imports -> ImportStates]
    <3>1. imports' = [j \in Imports |-> imports'[j]]
      BY <2>2
    <3> QED
      BY <2>4, <3>1
  <2>6. DeletionsAgree'
    BY <2>4 DEF DeletionsAgree
  <2>7. LookupAgrees' /\ KnownVehiclesAreFound' /\ StopsFailOnlyByTheirTwins' /\ lookup' \in Lookups
    BY <1>0, <2>2, LookupKept
  <2>8. TablesTypeOK'
    BY <2>2, <2>5, <2>7 DEF TablesTypeOK
  <2> QED
    BY <2>3, <2>6, <2>7, <2>8 DEF SheetsInv
<1> QED
  BY <1>1, <1>2

\* What is left to show when only a lookup goes on.
LEMMA LookupStep ==
    ASSUME SheetsInv, UNCHANGED <<catalogue, imports, loader>>, lookup' \in Lookups,
           LookupAgrees', KnownVehiclesAreFound', StopsFailOnlyByTheirTwins'
    PROVE  SheetsInv'
  BY DEF SheetsInv, TablesTypeOK, DeletionsAgree, CatalogueIsOneSheet

\* A lookup starts.
LEMMA StartLookupStep ==
    ASSUME SheetsInv, NEW kind \in {"vehicle", "stop"}, NEW written \in Names,
           StartLookup(kind, written)
    PROVE  SheetsInv'
<1> DEFINE l == [NoLookup EXCEPT !.kind = kind, !.written = written, !.loaded = loader,
                                 !.at = IF kind = "vehicle" THEN "options" ELSE "find"]
<1>0. loader \in Imports \cup {Nobody} /\ lookup' = l /\ UNCHANGED <<catalogue, imports, loader>>
  BY DEF SheetsInv, TablesTypeOK, StartLookup
<1>1. NoLookup \in Lookups
  BY DEF NoLookup, Lookups
<1>2. /\ l \in Lookups /\ l.loaded = loader /\ l.written = written /\ l.kind = kind
      /\ l.at = IF kind = "vehicle" THEN "options" ELSE "find"
  BY <1>0, <1>1 DEF Lookups
<1> HIDE DEF l
<1>3. LookupAgrees' /\ KnownVehiclesAreFound' /\ StopsFailOnlyByTheirTwins'
  BY <1>0, <1>2 DEF LookupAgrees, KnownVehiclesAreFound, StopsFailOnlyByTheirTwins
<1> QED
  BY <1>0, <1>2, <1>3, LookupStep

\* A vehicle is taken as it is written while there is no catalogue.
LEMMA OptionsStep ==
    ASSUME SheetsInv, ReadOptions
    PROVE  SheetsInv'
<1>0. /\ lookup \in Lookups /\ LookupAgrees /\ lookup.at = "options" /\ lookup.written \in Names
      /\ CatalogueIsOneSheet /\ loader \in Imports \cup {Nobody}
      /\ UNCHANGED <<catalogue, imports, loader>>
  BY DEF SheetsInv, TablesTypeOK, ReadOptions, LookupAgrees
<1>1. CASE catalogue = {}
  <2>1. lookup' = [lookup EXCEPT !.at = "answered", !.answer = "written"]
    BY <1>1 DEF ReadOptions
  <2>2. /\ lookup' \in Lookups /\ lookup'.at = "answered" /\ lookup'.answer = "written"
        /\ lookup'.loaded = lookup.loaded /\ lookup'.read = lookup.read /\ lookup'.kind = lookup.kind
    BY <1>0, <2>1 DEF Lookups
  <2>3. lookup.loaded = Nobody
    BY <1>0, <1>1, SheetFacts DEF LookupAgrees, CatalogueIsOneSheet
  <2>4. LookupAgrees' /\ KnownVehiclesAreFound'
    BY <1>0, <2>2, <2>3 DEF LookupAgrees, KnownVehiclesAreFound
  <2>5. StopsFailOnlyByTheirTwins'
    <3>1. lookup.kind = "vehicle"
      BY <1>0 DEF LookupAgrees
    <3> QED
      BY <2>2, <3>1 DEF StopsFailOnlyByTheirTwins
  <2> QED
    BY <1>0, <2>2, <2>4, <2>5, LookupStep
<1>2. CASE catalogue # {}
  <2>1. lookup' = [lookup EXCEPT !.at = "find"]
    BY <1>2 DEF ReadOptions
  <2>2. /\ lookup' \in Lookups /\ lookup'.at = "find" /\ lookup'.written = lookup.written
        /\ lookup'.loaded = lookup.loaded
    BY <1>0, <2>1 DEF Lookups
  <2>3. LookupAgrees' /\ KnownVehiclesAreFound' /\ StopsFailOnlyByTheirTwins'
    BY <1>0, <2>2 DEF LookupAgrees, KnownVehiclesAreFound, StopsFailOnlyByTheirTwins
  <2> QED
    BY <1>0, <2>2, <2>3, LookupStep
<1> QED
  BY <1>1, <1>2

\* A name is looked for in the sheet that is loaded.
LEMMA FindStep ==
    ASSUME SheetsInv, Find
    PROVE  SheetsInv'
<1>0. /\ lookup \in Lookups /\ LookupAgrees /\ lookup.at = "find" /\ lookup.written \in Names
      /\ CatalogueIsOneSheet /\ loader \in Imports \cup {Nobody}
      /\ UNCHANGED <<catalogue, imports, loader>>
  BY DEF SheetsInv, TablesTypeOK, Find, LookupAgrees
<1> DEFINE found == Matches(lookup.written)
           answers == IF found = {} THEN {"unknown"}
                      ELSE IF lookup.kind = "stop" /\ Cardinality(found) > 1 THEN {"error"}
                      ELSE found
<1>1. PICK answer \in answers :
         lookup' = [lookup EXCEPT !.at = "answered", !.answer = answer, !.read = loader]
  BY DEF Find
<1>2. found \subseteq Names /\ (loader # Nobody => found = Spelled(lookup.written, loader))
  <2>1. CASE loader = Nobody
    BY <1>0, <2>1 DEF CatalogueIsOneSheet, Matches
  <2>2. CASE loader # Nobody
    BY <1>0, <2>2, SheetFacts DEF CatalogueIsOneSheet, Matches, Spelled
  <2> QED
    BY <2>1, <2>2
<1>3. answer \in Names \cup {"unknown", "error"}
  BY <1>2
<1>4. /\ lookup' \in Lookups /\ lookup'.at = "answered" /\ lookup'.answer = answer
      /\ lookup'.read = loader /\ lookup'.kind = lookup.kind /\ lookup'.written = lookup.written
      /\ lookup'.loaded = lookup.loaded
  <2> HIDE DEF answers
  <2> QED
    BY <1>0, <1>1, <1>3 DEF Lookups
<1>5. LookupAgrees'
  BY <1>0, <1>3, <1>4 DEF LookupAgrees
<1>6. KnownVehiclesAreFound'
  <2> SUFFICES ASSUME lookup'.kind = "vehicle", lookup'.loaded # Nobody,
                      \A i \in Imports : Spelled(lookup'.written, i) # {}
               PROVE  \E i \in Imports : lookup'.answer \in Spelled(lookup'.written, i)
    BY DEF KnownVehiclesAreFound, Spelled
  <2>1. loader \in Imports /\ loader # Nobody
    BY <1>0, <1>4 DEF LookupAgrees
  <2>2. found = Spelled(lookup'.written, loader) /\ found # {}
    BY <1>2, <1>4, <2>1
  <2>3. answer \in found
    BY <1>4, <2>2
  <2> QED
    BY <1>4, <2>1, <2>2, <2>3
<1>7. StopsFailOnlyByTheirTwins'
  <2> SUFFICES ASSUME lookup'.kind = "stop", lookup'.answer \notin Names, lookup'.read # Nobody
               PROVE  Cardinality(Spelled(lookup'.written, lookup'.read)) # 1
    BY DEF StopsFailOnlyByTheirTwins, Spelled
  <2>1. found = Spelled(lookup'.written, lookup'.read)
    BY <1>2, <1>4
  <2>2. found = {} \/ Cardinality(found) > 1
    BY <1>2, <1>4
  <2>3. Cardinality({}) = 0
    BY FS_EmptySet
  <2> HIDE DEF found
  <2> QED
    BY <2>1, <2>2, <2>3
<1> QED
  BY <1>0, <1>4, <1>5, <1>6, <1>7, LookupStep

\* At first there is no catalogue.
LEMMA SheetsInit == CataloguesInit => SheetsInv
<1> SUFFICES ASSUME CataloguesInit PROVE SheetsInv
  OBVIOUS
<1>0. /\ catalogue = {} /\ loader = Nobody /\ lookup = NoLookup
      /\ imports = [i \in Imports |-> [at |-> "idle", rows |-> {}]]
  BY DEF CataloguesInit
<1>1. /\ NoLookup \in Lookups /\ NoLookup.at = "idle" /\ NoLookup.loaded = Nobody
      /\ [at |-> "idle", rows |-> {}] \in ImportStates
  BY DEF NoLookup, Lookups, ImportStates
<1>2. TablesTypeOK /\ DeletionsAgree /\ CatalogueIsOneSheet
  BY <1>0, <1>1 DEF TablesTypeOK, DeletionsAgree, CatalogueIsOneSheet
<1>3. LookupAgrees /\ KnownVehiclesAreFound /\ StopsFailOnlyByTheirTwins
  BY <1>0, <1>1 DEF LookupAgrees, KnownVehiclesAreFound, StopsFailOnlyByTheirTwins
<1> QED
  BY <1>2, <1>3 DEF SheetsInv

\* Every step keeps the strengthening.
LEMMA SheetsNext == SheetsInv /\ [CataloguesNext]_catalogueVars => SheetsInv'
<1> SUFFICES ASSUME SheetsInv, [CataloguesNext]_catalogueVars PROVE SheetsInv'
  OBVIOUS
<1>1. ASSUME NEW i \in Imports, DeleteRows(i) PROVE SheetsInv'
  BY <1>1, DeleteStep
<1>2. ASSUME NEW i \in Imports, ResumeDelete(i) PROVE SheetsInv'
  BY <1>2, ResumeStep
<1>3. ASSUME NEW i \in Imports, ReplaceRows(i) PROVE SheetsInv'
  BY <1>3, ReplaceStep
<1>4. ASSUME NEW i \in Imports, ImportFails(i) PROVE SheetsInv'
  BY <1>4, FailStep DEF ImportFails
<1>5. ASSUME NEW kind \in {"vehicle", "stop"}, NEW written \in Names, StartLookup(kind, written)
      PROVE  SheetsInv'
  BY <1>5, StartLookupStep
<1>6. CASE ReadOptions \/ Find
  BY <1>6, OptionsStep, FindStep
<1>7. CASE UNCHANGED catalogueVars
  <2>1. UNCHANGED <<catalogue, imports, loader, lookup>>
    BY <1>7 DEF catalogueVars
  <2> QED
    BY <2>1, LookupKept, LookupStep
<1> QED
  BY <1>1, <1>2, <1>3, <1>4, <1>5, <1>6, <1>7 DEF CataloguesNext

\* An import has deleted all of the catalogue or none of it, one at a time has deleted
\* something, and a lookup is answered from the one sheet that is loaded.
THEOREM SheetsInvariant == CataloguesSpec => []SheetsInv
  BY SheetsInit, SheetsNext, PTL DEF CataloguesSpec

\* CataloguesInv: however imports overlap and fail, the catalogue is the whole sheet of
\* the last one that reported success, and a stop of it resolves unless it has a twin.
THEOREM CatalogueIsTheSheet == CataloguesSpec => []CataloguesInv
<1>1. ASSUME SheetsInv PROVE CataloguesTypeOK
  <2>1. \A i \in Imports : imports[i].at = "insert" => imports[i].rows \subseteq catalogue
    BY <1>1 DEF SheetsInv, DeletionsAgree
  <2> QED
    BY <1>1, <2>1 DEF SheetsInv, TablesTypeOK, LookupAgrees, CataloguesTypeOK
<1>2. SheetsInv => CataloguesInv
  BY <1>1 DEF SheetsInv, CataloguesInv
<1> QED
  BY <1>2, SheetsInvariant, PTL

\* KnownVehiclesAreFound: once some sheet is loaded, a vehicle of every sheet is found
\* under a catalogued name, though the catalogue is replaced between the two reads.
THEOREM VehiclesAreFound == CataloguesSpec => []KnownVehiclesAreFound
<1>1. SheetsInv => KnownVehiclesAreFound
  BY DEF SheetsInv
<1> QED
  BY <1>1, SheetsInvariant, PTL

-----------------------------------------------------------------------------
(* Alerts: the inductive invariant.                                        *)

\* A dashboard has read rows of alerts that were stored; only jobs go on to deliver,
\* and nothing is recorded as told, or about to be, that the operators never heard of.
DeliveriesAgree ==
    /\ \A d \in Pages : dash[d].pc \in {"idle", "read1", "read2", "read3", "get", "commit"}
    /\ \A d \in Dashboards, k \in Keys :
         /\ (dash[d].pc = "outstanding" /\ k \in dash[d].seen) => alerts[k] # "none"
         /\ (dash[d].pc \in {"send", "mark"} /\ k \in dash[d].new) => alerts[k] # "none"
         /\ (dash[d].pc = "mark" /\ k \in dash[d].new) => told[k] # "never"

\* What the operators know is what is recorded of it and what j has yet to record.
Known(j) ==
    IF dash[j].pc = "mark" THEN (notified \cup dash[j].new) \ dash[j].over
    ELSE IF dash[j].pc = "clear" THEN notified \ dash[j].over
    ELSE notified

\* While one job delivers and its outcomes are known, the records keep up with what was told.
OneJobKeepsUp ==
    OutcomesAreKnown =>
      \A j \in Jobs : Jobs = {j} =>
         /\ \A k \in Keys : told[k] = "active" <=> k \in Known(j)
         /\ dash[j].pc = "send" =>
              dash[j].new \cap notified = {} /\ dash[j].over \subseteq notified
         /\ dash[j].pc = "mark" => dash[j].new \cap dash[j].over = {}

\* The strengthening behind the properties of Alerts.
DeliveryInv ==
    /\ TypeOK
    /\ MarkedAlertsWereTold
    /\ DeliveriesAgree
    /\ OneJobKeepsUp

-----------------------------------------------------------------------------
(* The steps of dashboards and deliveries.                                 *)

\* What a step that only concerns the dashboard of d leaves of the others.
LEMMA OneDashboard ==
    ASSUME TypeOK, NEW d \in Dashboards, NEW n \in DashboardStates,
           dash' = [dash EXCEPT ![d] = n]
    PROVE  /\ dash' \in [Dashboards -> DashboardStates] /\ dash'[d] = n
           /\ \A x \in Dashboards \ {d} : dash'[x] = dash[x]
  BY DEF TypeOK

\* A dashboard ends.
LEMMA IdleFacts ==
    /\ Idle \in DashboardStates /\ Idle.pc = "idle"
    /\ \A d : End(d) => dash' = [dash EXCEPT ![d] = Idle]
  BY DEF Idle, DashboardStates, PCs, End

\* A dashboard goes on.
LEMMA MoveFacts ==
    ASSUME TypeOK, NEW d \in Dashboards, NEW pc \in PCs, Move(d, pc)
    PROVE  \E n \in DashboardStates :
              /\ dash' = [dash EXCEPT ![d] = n] /\ n.pc = pc /\ n.seen = dash[d].seen
              /\ n.new = dash[d].new /\ n.over = dash[d].over
<1> DEFINE n == [dash[d] EXCEPT !.pc = pc]
<1>1. dash[d] \in DashboardStates
  BY DEF TypeOK
<1>2. /\ n \in DashboardStates /\ n.pc = pc /\ n.seen = dash[d].seen /\ n.new = dash[d].new
      /\ n.over = dash[d].over
  BY <1>1 DEF DashboardStates
<1>3. dash' = [dash EXCEPT ![d] = n]
  BY <1>1 DEF Move, TypeOK, DashboardStates
<1> QED
  BY <1>2, <1>3

\* A step of the dashboard of d that tells and records nothing, before it has anything
\* to tell or once it has given up.
LEMMA QuietStep ==
    ASSUME DeliveryInv, NEW d \in Dashboards, NEW n \in DashboardStates,
           dash' = [dash EXCEPT ![d] = n],
           UNCHANGED <<holds, notified, told, crashes, timeouts>>,
           lastRun' \in [latest : {"none", "succeeded", "failed"}, succeeded : BOOLEAN],
           alerts' \in [Keys -> {"none", "open", "resolved"}],
           \A k \in Keys : alerts[k] # "none" => alerts'[k] # "none",
           d \in Pages => n.pc \in {"idle", "read1", "read2", "read3", "get", "commit"},
           n.pc \notin {"outstanding", "send", "mark", "clear"},
           dash[d].pc \notin {"mark", "clear"}
    PROVE  DeliveryInv'
<1>0. TypeOK /\ MarkedAlertsWereTold /\ DeliveriesAgree /\ OneJobKeepsUp
  BY DEF DeliveryInv
<1>1. /\ dash' \in [Dashboards -> DashboardStates] /\ dash'[d] = n
      /\ \A x \in Dashboards \ {d} : dash'[x] = dash[x]
  BY <1>0, OneDashboard
<1>2. TypeOK'
  BY <1>0, <1>1 DEF TypeOK
<1>3. DeliveriesAgree'
  BY <1>0, <1>1 DEF DeliveriesAgree, Dashboards
<1>4. OneJobKeepsUp'
  <2>1. \A j \in Jobs : Known(j)' = Known(j)
    BY <1>1 DEF Known, Dashboards
  <2> QED
    BY <1>0, <1>1, <2>1 DEF OneJobKeepsUp, OutcomesAreKnown, Dashboards
<1>5. MarkedAlertsWereTold'
  BY <1>0 DEF MarkedAlertsWereTold
<1> QED
  BY <1>2, <1>3, <1>4, <1>5 DEF DeliveryInv

\* A page or a job starts, and reads what holds.
LEMMA ReadStep ==
    ASSUME DeliveryInv, NEW d \in Dashboards, StartDashboard(d) \/ ReadConditions(d) \/ GetRows(d)
    PROVE  DeliveryInv'
<1>0. /\ TypeOK /\ dash[d] \in DashboardStates /\ UNCHANGED <<holds, alerts, notified, lastRun, told, crashes, timeouts>>
      /\ dash[d].pc \in {"idle", "read1", "read2", "read3", "get"}
  BY DEF DeliveryInv, TypeOK, StartDashboard, ReadConditions, GetRows, At
<1>1. \E n \in DashboardStates :
         dash' = [dash EXCEPT ![d] = n] /\ n.pc \in {"read1", "read2", "read3", "get", "commit"}
  <2>1. CASE StartDashboard(d)
    BY <1>0, <2>1, MoveFacts DEF StartDashboard, PCs
  <2>2. CASE ReadConditions(d)
    <3>1. PICK i \in 1..3 :
             /\ dash[d].pc = <<"read1", "read2", "read3">>[i]
             /\ dash' = [dash EXCEPT ![d].seen = @ \cup (holds \cap Readings[i]), ![d].pc = After[@]]
      BY <2>2 DEF ReadConditions, At
    <3> DEFINE n == [dash[d] EXCEPT !.seen = @ \cup (holds \cap Readings[i]), !.pc = After[@]]
    <3>2. After[dash[d].pc] \in {"read2", "read3", "get"}
      BY <3>1 DEF After
    <3>3. n \in DashboardStates /\ n.pc = After[dash[d].pc]
      <4>1. dash[d].seen \cup (holds \cap Readings[i]) \in SUBSET Keys
        BY <1>0 DEF TypeOK, DashboardStates
      <4> QED
        BY <1>0, <3>2, <4>1 DEF DashboardStates, PCs
    <3>4. dash' = [dash EXCEPT ![d] = n]
      BY <1>0, <3>1 DEF TypeOK, DashboardStates
    <3> HIDE DEF n
    <3> QED
      BY <3>2, <3>3, <3>4
  <2>3. CASE GetRows(d)
    <3> DEFINE rows == [k \in Keys |-> IF k \in dash[d].seen THEN alerts[k] ELSE "none"]
               n == [dash[d] EXCEPT !.pc = "commit", !.rows = rows]
    <3>1. rows \in [Keys -> {"none", "open", "resolved"}]
      BY <1>0 DEF TypeOK
    <3>2. dash' = [dash EXCEPT ![d] = n]
      BY <1>0, <2>3 DEF GetRows, TypeOK, DashboardStates
    <3> HIDE DEF rows
    <3>3. n \in DashboardStates /\ n.pc = "commit"
      BY <1>0, <3>1 DEF DashboardStates, PCs
    <3> HIDE DEF n
    <3> QED
      BY <3>2, <3>3
  <2> QED
    BY <2>1, <2>2, <2>3
<1>2. PICK n \in DashboardStates :
         dash' = [dash EXCEPT ![d] = n] /\ n.pc \in {"read1", "read2", "read3", "get", "commit"}
  BY <1>1
<1> QED
  BY <1>0, <1>2, QuietStep DEF TypeOK

\* An alert that has been stored is never forgotten.
LEMMA CommitStep ==
    ASSUME DeliveryInv, NEW d \in Dashboards, CommitAlerts(d)
    PROVE  DeliveryInv'
<1>0. /\ TypeOK /\ dash[d] \in DashboardStates /\ dash[d].pc = "commit"
      /\ UNCHANGED <<holds, notified, lastRun, told, crashes, timeouts>>
      /\ alerts' = (IF InsertConflict(d) THEN alerts ELSE Reconciled(d))
  BY DEF DeliveryInv, TypeOK, CommitAlerts, At
<1>1. /\ Reconciled(d) \in [Keys -> {"none", "open", "resolved"}]
      /\ \A k \in Keys : alerts[k] # "none" => Reconciled(d)[k] # "none"
  BY <1>0 DEF TypeOK, Reconciled
<1>2. /\ alerts' \in [Keys -> {"none", "open", "resolved"}]
      /\ \A k \in Keys : alerts[k] # "none" => alerts'[k] # "none"
  <2> HIDE DEF Reconciled, InsertConflict
  <2> QED
    BY <1>0, <1>1 DEF TypeOK
<1>3. CASE d \in Pages
  BY <1>0, <1>2, <1>3, IdleFacts, QuietStep DEF CommitAlerts, TypeOK
<1>4. CASE d \notin Pages
  <2> DEFINE n == [Idle EXCEPT !.pc = "record", !.ok = ~InsertConflict(d)]
  <2>1. dash' = [dash EXCEPT ![d] = n]
    BY <1>4 DEF CommitAlerts
  <2>2. n \in DashboardStates /\ n.pc = "record"
    <3>1. InsertConflict(d) \in BOOLEAN
      BY DEF InsertConflict
    <3> QED
      BY <3>1 DEF Idle, DashboardStates, PCs
  <2> HIDE DEF n
  <2> QED
    BY <1>0, <1>2, <1>4, <2>1, <2>2, QuietStep DEF TypeOK
<1> QED
  BY <1>3, <1>4

\* Pages do not deliver.
LEMMA OnlyJobsDeliver ==
    ASSUME DeliveryInv, NEW d \in Dashboards,
           dash[d].pc \notin {"idle", "read1", "read2", "read3", "get", "commit"}
    PROVE  d \in Jobs /\ d \notin Pages
  BY DEF DeliveryInv, DeliveriesAgree, Dashboards

\* A run is recorded, or cannot be.
LEMMA RecordRunStep ==
    ASSUME DeliveryInv, NEW d \in Dashboards, NEW stored \in BOOLEAN, RecordRun(d, stored)
    PROVE  DeliveryInv'
<1>0. /\ TypeOK /\ dash[d] \in DashboardStates /\ dash[d].pc = "record"
      /\ UNCHANGED <<holds, alerts, notified, told, crashes, timeouts>>
  BY DEF DeliveryInv, TypeOK, RecordRun, At
<1>1. d \notin Pages
  BY <1>0, OnlyJobsDeliver
<1>2. lastRun' \in [latest : {"none", "succeeded", "failed"}, succeeded : BOOLEAN]
  <2>1. dash[d].ok \in BOOLEAN /\ lastRun \in [latest : {"none", "succeeded", "failed"}, succeeded : BOOLEAN]
    BY <1>0 DEF DashboardStates, TypeOK
  <2>2. CASE ~stored
    BY <2>1, <2>2 DEF RecordRun
  <2>3. CASE stored /\ dash[d].ok
    BY <2>1, <2>3 DEF RecordRun
  <2>4. CASE stored /\ ~dash[d].ok
    BY <2>1, <2>4 DEF RecordRun
  <2> QED
    BY <2>2, <2>3, <2>4
<1>3. PICK n \in DashboardStates : dash' = [dash EXCEPT ![d] = n] /\ n.pc \in {"list", "idle"}
  <2>1. "list" \in PCs
    BY DEF PCs
  <2> QED
    BY <1>0, <2>1, MoveFacts, IdleFacts DEF RecordRun
<1> QED
  BY <1>0, <1>1, <1>2, <1>3, QuietStep DEF TypeOK

\* A message that cannot be sent changes nothing.
LEMMA SendFailsStep ==
    ASSUME DeliveryInv, NEW d \in Jobs, SendFails(d)
    PROVE  DeliveryInv'
<1>0. /\ TypeOK /\ d \in Dashboards /\ dash[d].pc = "send" /\ dash' = [dash EXCEPT ![d] = Idle]
      /\ UNCHANGED <<holds, alerts, notified, lastRun, told, crashes, timeouts>>
  BY IdleFacts DEF DeliveryInv, SendFails, At, Dashboards
<1> QED
  BY <1>0, IdleFacts, QuietStep DEF TypeOK

\* A message arrives although sending it failed: the records no longer need to keep up.
LEMMA SendTimesOutStep ==
    ASSUME DeliveryInv, NEW d \in Jobs, SendTimesOut(d)
    PROVE  DeliveryInv'
<1>0. /\ TypeOK /\ MarkedAlertsWereTold /\ DeliveriesAgree /\ d \in Dashboards
      /\ UNCHANGED <<holds, alerts, notified, lastRun, crashes>> /\ told' = Heard(d)
      /\ dash' = [dash EXCEPT ![d] = Idle] /\ timeouts < MaxTimeouts /\ timeouts' = timeouts + 1
  BY IdleFacts DEF DeliveryInv, SendTimesOut, Dashboards
<1>1. /\ dash' \in [Dashboards -> DashboardStates] /\ dash'[d] = Idle
      /\ \A x \in Dashboards \ {d} : dash'[x] = dash[x]
  BY <1>0, OneDashboard, IdleFacts
<1>2. timeouts' \in 0..MaxTimeouts /\ timeouts' # 0
  BY <1>0, TimeoutsAreCounted DEF TypeOK
<1>3. /\ told' \in [Keys -> {"never", "active", "resolved"}]
      /\ \A k \in Keys : told[k] # "never" => told'[k] # "never"
  BY <1>0 DEF Heard, TypeOK
<1>4. TypeOK' /\ MarkedAlertsWereTold'
  BY <1>0, <1>1, <1>2, <1>3 DEF TypeOK, MarkedAlertsWereTold
<1>5. DeliveriesAgree'
  BY <1>0, <1>1, <1>3, IdleFacts DEF DeliveriesAgree, Dashboards
<1>6. OneJobKeepsUp'
  BY <1>2 DEF OneJobKeepsUp, OutcomesAreKnown
<1> QED
  BY <1>4, <1>5, <1>6 DEF DeliveryInv

\* A job reads the open alerts back, and compares them with what is outstanding.
LEMMA CompareStep ==
    ASSUME DeliveryInv, NEW d \in Dashboards, ListAlerts(d) \/ CompareOutstanding(d)
    PROVE  DeliveryInv'
<1>0. /\ TypeOK /\ MarkedAlertsWereTold /\ DeliveriesAgree /\ OneJobKeepsUp
      /\ dash[d] \in DashboardStates /\ dash[d].pc \in {"list", "outstanding"}
      /\ UNCHANGED <<holds, alerts, notified, lastRun, told, crashes, timeouts>>
  BY DEF DeliveryInv, TypeOK, ListAlerts, CompareOutstanding, At
<1>1. d \in Jobs /\ d \notin Pages
  BY <1>0, OnlyJobsDeliver
<1>2. \E n \in DashboardStates :
         /\ dash' = [dash EXCEPT ![d] = n] /\ n.pc \in {"outstanding", "send", "idle"}
         /\ n.pc = "outstanding" => \A k \in n.seen : alerts[k] # "none"
         /\ n.pc = "send" => /\ \A k \in n.new : alerts[k] # "none"
                             /\ n.new \cap notified = {} /\ n.over \subseteq notified
  <2>1. CASE ListAlerts(d)
    <3> DEFINE n == [dash[d] EXCEPT !.seen = OpenAlerts, !.pc = "outstanding"]
    <3>1. OpenAlerts \subseteq Keys /\ \A k \in OpenAlerts : alerts[k] # "none"
      BY DEF OpenAlerts
    <3>2. dash' = [dash EXCEPT ![d] = n]
      BY <1>0, <2>1 DEF ListAlerts, TypeOK, DashboardStates
    <3>3. n \in DashboardStates /\ n.pc = "outstanding" /\ n.seen = OpenAlerts
      BY <1>0, <3>1 DEF DashboardStates, PCs
    <3> HIDE DEF n
    <3> QED
      BY <3>1, <3>2, <3>3
  <2>2. CASE CompareOutstanding(d)
    <3> DEFINE new == dash[d].seen \ notified
               over == notified \ dash[d].seen
               n == [dash[d] EXCEPT !.new = new, !.over = over, !.pc = "send"]
    <3>1. dash[d].pc = "outstanding" /\ \A k \in dash[d].seen : k \in Keys /\ alerts[k] # "none"
      BY <1>0, <2>2 DEF CompareOutstanding, At, DeliveriesAgree, DashboardStates
    <3>2. /\ new \subseteq Keys /\ over \subseteq Keys /\ new \cap notified = {}
          /\ over \subseteq notified /\ \A k \in new : alerts[k] # "none"
      BY <1>0, <3>1 DEF TypeOK, DashboardStates
    <3>3. dash' = [dash EXCEPT ![d] = n] \/ End(d)
      BY <1>0, <2>2 DEF CompareOutstanding, TypeOK, DashboardStates
    <3> HIDE DEF new, over
    <3>4. n \in DashboardStates /\ n.pc = "send" /\ n.new = new /\ n.over = over
      BY <1>0, <3>2 DEF DashboardStates, PCs
    <3> HIDE DEF n
    <3> QED
      BY <3>2, <3>3, <3>4, IdleFacts
  <2> QED
    BY <2>1, <2>2
<1>3. PICK n \in DashboardStates :
         /\ dash' = [dash EXCEPT ![d] = n] /\ n.pc \in {"outstanding", "send", "idle"}
         /\ n.pc = "outstanding" => \A k \in n.seen : alerts[k] # "none"
         /\ n.pc = "send" => /\ \A k \in n.new : alerts[k] # "none"
                             /\ n.new \cap notified = {} /\ n.over \subseteq notified
  BY <1>2
<1>4. /\ dash' \in [Dashboards -> DashboardStates] /\ dash'[d] = n
      /\ \A x \in Dashboards \ {d} : dash'[x] = dash[x]
  BY <1>0, <1>3, OneDashboard
<1>5. TypeOK' /\ MarkedAlertsWereTold'
  BY <1>0, <1>4 DEF TypeOK, MarkedAlertsWereTold
<1>6. DeliveriesAgree'
  BY <1>0, <1>1, <1>3, <1>4 DEF DeliveriesAgree, Dashboards
<1>7. OneJobKeepsUp'
  <2>1. \A j \in Jobs : Known(j)' = Known(j)
    BY <1>0, <1>3, <1>4 DEF Known, Dashboards
  <2> QED
    BY <1>0, <1>3, <1>4, <2>1 DEF OneJobKeepsUp, OutcomesAreKnown, Dashboards
<1> QED
  BY <1>5, <1>6, <1>7 DEF DeliveryInv

\* A message is sent: everyone in it is told, and nothing of it is recorded yet.
LEMMA SendStep ==
    ASSUME DeliveryInv, NEW d \in Jobs, Send(d)
    PROVE  DeliveryInv'
<1>0. /\ TypeOK /\ MarkedAlertsWereTold /\ DeliveriesAgree /\ OneJobKeepsUp
      /\ d \in Dashboards /\ dash[d] \in DashboardStates /\ dash[d].pc = "send"
      /\ UNCHANGED <<holds, alerts, notified, lastRun, crashes, timeouts>> /\ told' = Heard(d)
  BY DEF DeliveryInv, TypeOK, Send, At, Dashboards
<1>1. PICK n \in DashboardStates :
         /\ dash' = [dash EXCEPT ![d] = n] /\ n.pc = "mark"
         /\ n.new = dash[d].new /\ n.over = dash[d].over
  <2>1. "mark" \in PCs /\ Move(d, "mark")
    BY DEF PCs, Send
  <2> QED
    BY <1>0, <2>1, MoveFacts
<1>2. /\ dash' \in [Dashboards -> DashboardStates] /\ dash'[d] = n
      /\ \A x \in Dashboards \ {d} : dash'[x] = dash[x]
  BY <1>0, <1>1, OneDashboard
<1>3. /\ told' \in [Keys -> {"never", "active", "resolved"}]
      /\ \A k \in Keys : /\ told[k] # "never" => told'[k] # "never"
                         /\ k \in dash[d].new => told'[k] = "active"
                         /\ (k \in dash[d].over /\ k \notin dash[d].new) => told'[k] = "resolved"
                         /\ (k \notin dash[d].over /\ k \notin dash[d].new) => told'[k] = told[k]
  BY <1>0 DEF Heard, TypeOK
<1>4. TypeOK'
  BY <1>0, <1>2, <1>3 DEF TypeOK
<1>5. MarkedAlertsWereTold'
  BY <1>0, <1>3 DEF MarkedAlertsWereTold, TypeOK
<1>6. DeliveriesAgree'
  <2>1. d \notin Pages
    BY PagesAreNotJobs
  <2> QED
    BY <1>0, <1>1, <1>2, <1>3, <2>1 DEF DeliveriesAgree, Dashboards
<1>7. OneJobKeepsUp'
  <2> SUFFICES ASSUME OutcomesAreKnown, NEW j \in Jobs, Jobs = {j}
               PROVE  /\ \A k \in Keys : told'[k] = "active" <=> k \in Known(j)'
                      /\ dash'[j].pc = "mark" /\ dash'[j].new \cap dash'[j].over = {}
    BY <1>0 DEF OneJobKeepsUp, OutcomesAreKnown
  <2>1. /\ j = d /\ \A k \in Keys : told[k] = "active" <=> k \in notified
        /\ dash[d].new \cap notified = {} /\ dash[d].over \subseteq notified
    BY <1>0 DEF OneJobKeepsUp, Known
  <2>2. Known(j)' = (notified \cup dash[d].new) \ dash[d].over
    BY <1>0, <1>1, <1>2, <2>1 DEF Known
  <2>3. \A k \in Keys : told'[k] = "active" <=> k \in (notified \cup dash[d].new) \ dash[d].over
    BY <1>3, <2>1
  <2> QED
    BY <1>1, <1>2, <2>1, <2>2, <2>3
<1> QED
  BY <1>4, <1>5, <1>6, <1>7 DEF DeliveryInv

\* One key is recorded, or one is cleared: what is known of it stays.
LEMMA RecordsStep ==
    ASSUME DeliveryInv, NEW d \in Dashboards, RecordSent(d) \/ Clear(d)
    PROVE  DeliveryInv'
<1>0. /\ TypeOK /\ MarkedAlertsWereTold /\ DeliveriesAgree /\ OneJobKeepsUp
      /\ dash[d] \in DashboardStates /\ dash[d].pc \in {"mark", "clear"}
      /\ UNCHANGED <<holds, alerts, lastRun, told, crashes, timeouts>>
  BY DEF DeliveryInv, TypeOK, RecordSent, Clear, At
<1>1. d \in Jobs /\ d \notin Pages
  BY <1>0, OnlyJobsDeliver
<1>2. \E n \in DashboardStates :
         /\ dash' = [dash EXCEPT ![d] = n] /\ n.pc \in {"mark", "clear", "idle"}
         /\ n.pc # "idle" => n.new \subseteq dash[d].new /\ n.over \subseteq dash[d].over
         /\ n.pc = "mark" => dash[d].pc = "mark" /\ n.over = dash[d].over
         /\ \A k \in notified' : k \in notified \/ (dash[d].pc = "mark" /\ k \in dash[d].new)
         /\ dash[d].pc = "mark" =>
              /\ n.pc # "idle" /\ n.over = dash[d].over
              /\ n.pc = "mark" => notified' \cup n.new = notified \cup dash[d].new
              /\ n.pc = "clear" => notified' = notified /\ dash[d].new = {}
         /\ dash[d].pc = "clear" =>
              /\ n.pc = "clear" => notified' \ n.over = notified \ dash[d].over
              /\ n.pc = "idle" => notified' = notified /\ dash[d].over = {}
  <2>1. CASE RecordSent(d) /\ dash[d].new = {}
    <3>1. "clear" \in PCs /\ Move(d, "clear") /\ notified' = notified /\ dash[d].pc = "mark"
      BY <2>1 DEF PCs, RecordSent, At
    <3>2. PICK n \in DashboardStates :
             /\ dash' = [dash EXCEPT ![d] = n] /\ n.pc = "clear"
             /\ n.new = dash[d].new /\ n.over = dash[d].over
      BY <1>0, <3>1, MoveFacts
    <3> QED
      BY <2>1, <3>1, <3>2
  <2>2. CASE RecordSent(d) /\ dash[d].new # {}
    <3>1. PICK k \in dash[d].new :
             notified' = notified \cup {k} /\ dash' = [dash EXCEPT ![d].new = @ \ {k}]
      BY <2>2 DEF RecordSent
    <3> DEFINE n == [dash[d] EXCEPT !.new = @ \ {k}]
    <3>2. dash' = [dash EXCEPT ![d] = n]
      BY <1>0, <3>1 DEF TypeOK, DashboardStates
    <3>3. /\ n \in DashboardStates /\ n.pc = "mark" /\ dash[d].pc = "mark"
          /\ n.new = dash[d].new \ {k} /\ n.over = dash[d].over
      BY <1>0, <2>2 DEF DashboardStates, RecordSent, At
    <3> HIDE DEF n
    <3> QED
      BY <3>1, <3>2, <3>3
  <2>3. CASE Clear(d) /\ dash[d].over = {}
    BY <2>3, IdleFacts DEF Clear, At
  <2>4. CASE Clear(d) /\ dash[d].over # {}
    <3>1. PICK k \in dash[d].over :
             notified' = notified \ {k} /\ dash' = [dash EXCEPT ![d].over = @ \ {k}]
      BY <2>4 DEF Clear
    <3> DEFINE n == [dash[d] EXCEPT !.over = @ \ {k}]
    <3>2. dash' = [dash EXCEPT ![d] = n]
      BY <1>0, <3>1 DEF TypeOK, DashboardStates
    <3>3. /\ n \in DashboardStates /\ n.pc = "clear" /\ dash[d].pc = "clear"
          /\ n.new = dash[d].new /\ n.over = dash[d].over \ {k}
      BY <1>0, <2>4 DEF DashboardStates, Clear, At
    <3> HIDE DEF n
    <3> QED
      BY <3>1, <3>2, <3>3
  <2> QED
    BY <2>1, <2>2, <2>3, <2>4
<1>3. PICK n \in DashboardStates :
         /\ dash' = [dash EXCEPT ![d] = n] /\ n.pc \in {"mark", "clear", "idle"}
         /\ n.pc # "idle" => n.new \subseteq dash[d].new /\ n.over \subseteq dash[d].over
         /\ n.pc = "mark" => dash[d].pc = "mark" /\ n.over = dash[d].over
         /\ \A k \in notified' : k \in notified \/ (dash[d].pc = "mark" /\ k \in dash[d].new)
         /\ dash[d].pc = "mark" =>
              /\ n.pc # "idle" /\ n.over = dash[d].over
              /\ n.pc = "mark" => notified' \cup n.new = notified \cup dash[d].new
              /\ n.pc = "clear" => notified' = notified /\ dash[d].new = {}
         /\ dash[d].pc = "clear" =>
              /\ n.pc = "clear" => notified' \ n.over = notified \ dash[d].over
              /\ n.pc = "idle" => notified' = notified /\ dash[d].over = {}
  BY <1>2
<1>4. /\ dash' \in [Dashboards -> DashboardStates] /\ dash'[d] = n
      /\ \A x \in Dashboards \ {d} : dash'[x] = dash[x]
  BY <1>0, <1>3, OneDashboard
<1>5. \A k \in notified' : k \in Keys /\ alerts[k] # "none" /\ told[k] # "never"
  BY <1>0, <1>3 DEF TypeOK, MarkedAlertsWereTold, DeliveriesAgree, DashboardStates
<1>6. TypeOK' /\ MarkedAlertsWereTold'
  BY <1>0, <1>4, <1>5 DEF TypeOK, MarkedAlertsWereTold
<1>7. DeliveriesAgree'
  BY <1>0, <1>1, <1>3, <1>4 DEF DeliveriesAgree, Dashboards
<1>8. OneJobKeepsUp'
  <2> SUFFICES ASSUME OutcomesAreKnown, NEW j \in Jobs, Jobs = {j}
               PROVE  /\ Known(j)' = Known(j) /\ dash'[j].pc # "send"
                      /\ dash'[j].pc = "mark" => dash'[j].new \cap dash'[j].over = {}
    BY <1>0 DEF OneJobKeepsUp, OutcomesAreKnown
  <2>1. j = d /\ (dash[d].pc = "mark" => dash[d].new \cap dash[d].over = {})
    BY <1>0, <1>1 DEF OneJobKeepsUp
  <2>2. Known(j)' = Known(j)
    <3>1. CASE dash[d].pc = "mark"
      BY <1>0, <1>3, <1>4, <2>1, <3>1 DEF Known
    <3>2. CASE dash[d].pc = "clear"
      BY <1>0, <1>3, <1>4, <2>1, <3>2 DEF Known
    <3> QED
      BY <1>0, <3>1, <3>2
  <2> QED
    BY <1>3, <1>4, <2>1, <2>2
<1> QED
  BY <1>6, <1>7, <1>8 DEF DeliveryInv

\* A job dies: the records no longer need to keep up, and nothing else changes.
LEMMA CrashStep ==
    ASSUME DeliveryInv, NEW d \in Jobs, Crash(d)
    PROVE  DeliveryInv'
<1>0. /\ TypeOK /\ MarkedAlertsWereTold /\ DeliveriesAgree /\ d \in Dashboards
      /\ UNCHANGED <<holds, alerts, notified, lastRun, told, timeouts>>
      /\ dash' = [dash EXCEPT ![d] = Idle] /\ crashes < MaxCrashes /\ crashes' = crashes + 1
  BY IdleFacts DEF DeliveryInv, Crash, Dashboards
<1>1. /\ dash' \in [Dashboards -> DashboardStates] /\ dash'[d] = Idle
      /\ \A x \in Dashboards \ {d} : dash'[x] = dash[x]
  BY <1>0, OneDashboard, IdleFacts
<1>2. crashes' \in 0..MaxCrashes /\ crashes' # 0
  BY <1>0, CrashesAreCounted DEF TypeOK
<1>3. TypeOK' /\ MarkedAlertsWereTold'
  BY <1>0, <1>1, <1>2 DEF TypeOK, MarkedAlertsWereTold
<1>4. DeliveriesAgree'
  BY <1>0, <1>1, IdleFacts DEF DeliveriesAgree, Dashboards
<1>5. OneJobKeepsUp'
  BY <1>2 DEF OneJobKeepsUp, OutcomesAreKnown
<1> QED
  BY <1>3, <1>4, <1>5 DEF DeliveryInv

-----------------------------------------------------------------------------
(* Alerts: the theorems.                                                   *)

\* A dashboard that has not started, and tables that are empty.
LEMMA DeliveryInvHoldsAtFirst == Init => DeliveryInv
<1> SUFFICES ASSUME Init PROVE DeliveryInv
  OBVIOUS
<1>1. TypeOK
  <2>1. 0 \in 0..MaxCrashes /\ 0 \in 0..MaxTimeouts
    BY CrashesAreCounted, TimeoutsAreCounted
  <2> QED
    BY <2>1, IdleFacts DEF Init, TypeOK
<1>2. MarkedAlertsWereTold
  BY DEF Init, MarkedAlertsWereTold
<1>3. \A d \in Dashboards : dash[d].pc = "idle"
  BY IdleFacts DEF Init
<1>4. DeliveriesAgree
  BY <1>3 DEF DeliveriesAgree, Dashboards
<1>5. OneJobKeepsUp
  BY <1>3 DEF OneJobKeepsUp, Known, Init, Dashboards
<1> QED
  BY <1>1, <1>2, <1>4, <1>5 DEF DeliveryInv

\* Every step of the data, of a dashboard or of a delivery keeps it.
LEMMA DeliveryInvIsKept == DeliveryInv /\ [Next]_vars => DeliveryInv'
<1> SUFFICES ASSUME DeliveryInv, [Next]_vars PROVE DeliveryInv'
  OBVIOUS
<1>1. CASE UNCHANGED vars
  <2>1. \A j \in Jobs : Known(j)' = Known(j)
    BY <1>1 DEF vars, Known
  <2> QED
    BY <1>1, <2>1 DEF vars, DeliveryInv, TypeOK, MarkedAlertsWereTold, DeliveriesAgree,
                      OneJobKeepsUp, OutcomesAreKnown
<1>2. ASSUME NEW k \in Keys, ConditionChanges(k) PROVE DeliveryInv'
  <2>1. \A j \in Jobs : Known(j)' = Known(j)
    BY <1>2 DEF ConditionChanges, Known
  <2>2. holds' \subseteq Keys
    BY <1>2 DEF ConditionChanges, DeliveryInv, TypeOK
  <2> QED
    BY <1>2, <2>1, <2>2 DEF ConditionChanges, DeliveryInv, TypeOK, MarkedAlertsWereTold,
                            DeliveriesAgree, OneJobKeepsUp, OutcomesAreKnown
<1>3. ASSUME NEW d \in Dashboards, StartDashboard(d) \/ Advance(d) PROVE DeliveryInv'
  BY <1>3, ReadStep, CommitStep, RecordRunStep, CompareStep, RecordsStep DEF Advance
<1>4. ASSUME NEW d \in Jobs,
             RecordRun(d, FALSE) \/ Crash(d) \/ Send(d) \/ SendFails(d) \/ SendTimesOut(d)
      PROVE  DeliveryInv'
  <2>1. d \in Dashboards
    BY DEF Dashboards
  <2> QED
    BY <1>4, <2>1, RecordRunStep, SendStep, SendFailsStep, SendTimesOutStep, CrashStep
<1> QED
  BY <1>1, <1>2, <1>3, <1>4 DEF Next

\* Whatever dashboards and jobs overlap, fail and die, the records of what was told are
\* true of what the operators heard, and one job whose outcomes are known keeps them up to date.
THEOREM DeliveryInvariant == Spec => []DeliveryInv
  BY DeliveryInvHoldsAtFirst, DeliveryInvIsKept, PTL DEF Spec

\* SQLAlchemyAlertRepository and the notification table keep alerts of their kinds, and
\* an alert is recorded as sent only if some message told the operators of it.
THEOREM MarksAreTrue == Spec => []AlertsInv
<1>1. DeliveryInv => AlertsInv
  BY DEF DeliveryInv, AlertsInv
<1> QED
  BY <1>1, DeliveryInvariant, PTL

\* DeliverMonitoringAlerts: a job that runs alone and whose outcomes are known sends no message that
\* tells of an alert the operators know, or that one is over of which they know nothing.
THEOREM AlertsAreToldOnce == Spec => NothingIsRepeated
<1>1. ASSUME DeliveryInv, [Next]_vars, Cardinality(Jobs) = 1, OutcomesAreKnown,
             NEW d \in Jobs, NEW k \in Keys, At(d, "send")
      PROVE  /\ k \in dash[d].new => told[k] # "active"
             /\ k \in dash[d].over => told[k] = "active"
  <2>1. Jobs = {d}
    <3>1. PICK j : Jobs = {j}
      BY <1>1, JobsAreFinite, FS_Singleton
    <3> QED
      BY <3>1
  <2>2. dash[d].pc = "send"
    BY <1>1 DEF At
  <2>3. \A x \in Keys : told[x] = "active" <=> x \in notified
    BY <1>1, <2>1, <2>2 DEF DeliveryInv, OneJobKeepsUp, Known
  <2>4. dash[d].new \cap notified = {} /\ dash[d].over \subseteq notified
    BY <1>1, <2>1, <2>2 DEF DeliveryInv, OneJobKeepsUp
  <2> QED
    BY <2>3, <2>4
<1>2. DeliveryInv /\ [Next]_vars =>
        ((Cardinality(Jobs) = 1 /\ OutcomesAreKnown) =>
           \A d \in Jobs, k \in Keys :
              (At(d, "send") /\ (dash'[d].pc = "mark" \/ timeouts' # timeouts)) =>
                 /\ k \in dash[d].new => told[k] # "active"
                 /\ k \in dash[d].over => told[k] = "active")
  BY <1>1
<1> QED
  BY <1>2, DeliveryInvariant, PTL DEF Spec, NothingIsRepeated

-----------------------------------------------------------------------------
(* Spreadsheets: what becomes of a row, for every combination of cells.    *)

\* A row of importer i, with any class of cell in any field.
IsRowOf(i, r) == DOMAIN r = Fields(i) /\ \A f \in DOMAIN r : r[f] \in CellsOf[f]

\* The fields that plans and history share.
OperationCells(r) ==
    /\ r["vehicle_category"] \in {"missing", "blank", "unknown", "angber"}
    /\ r["activity_mode"] \in {"missing", "blank", "unknown", "transport", "lifting",
                               "transport_and_lifting"}
    /\ r["lifting_hours"] \in {"missing", "blank", "boolean", "text", "infinite", "negative",
                               "zero", "positive"}
    /\ r["total_distance_km"] \in {"missing", "blank", "boolean", "text", "infinite", "negative",
                                   "zero", "positive"}
    /\ r["distance_source"] \in {"missing", "blank", "unknown", "manual", "routing_provider"}
    /\ r["vehicle"] \in {"missing", "blank", "unknown", "catalogued"}

\* The classes of cells, field by field.
LEMMA PlanCells ==
    ASSUME NEW r, IsRowOf("plan", r)
    PROVE  /\ OperationCells(r) /\ r["stop_sequence"] \in {"missing", "blank", "one", "gap", "stops"}
           /\ DOMAIN r = {"vehicle_category", "activity_mode", "total_distance_km",
                          "distance_source", "vehicle", "lifting_hours", "stop_sequence"}
<1>1. DOMAIN r = {"vehicle_category", "activity_mode", "total_distance_km",
                  "distance_source", "vehicle", "lifting_hours", "stop_sequence"}
  BY DEF IsRowOf, Fields, RequiredFields, OptionalFields
<1>2. \A f \in DOMAIN r : r[f] \in CellsOf[f]
  BY DEF IsRowOf
<1> QED
  BY <1>1, <1>2 DEF CellsOf, OperationCells, Absent, NotNumbers, Numbers

\* The same for a row of history ...
LEMMA PastCells ==
    ASSUME NEW r, IsRowOf("past", r)
    PROVE  /\ OperationCells(r)
           /\ r["prepared_fuel_liters"] \in {"missing", "blank", "boolean", "text", "infinite",
                                             "negative", "zero", "positive"}
           /\ DOMAIN r = {"vehicle_category", "activity_mode", "total_distance_km",
                          "distance_source", "prepared_fuel_liters", "vehicle", "lifting_hours"}
<1>1. DOMAIN r = {"vehicle_category", "activity_mode", "total_distance_km",
                  "distance_source", "prepared_fuel_liters", "vehicle", "lifting_hours"}
  BY DEF IsRowOf, Fields, RequiredFields, OptionalFields
<1>2. \A f \in DOMAIN r : r[f] \in CellsOf[f]
  BY DEF IsRowOf
<1> QED
  BY <1>1, <1>2 DEF CellsOf, OperationCells, Absent, NotNumbers, Numbers

\* ... and for a row of actual fuel.
LEMMA ActualCells ==
    ASSUME NEW r, IsRowOf("actual", r)
    PROVE  /\ r["operation_id"] \in {"missing", "blank", "written"}
           /\ r["actual_fuel_liters"] \in {"missing", "blank", "boolean", "text", "infinite",
                                           "negative", "zero", "positive"}
           /\ r["measurement_source"] \in {"missing", "blank", "unknown", "receipt"}
           /\ DOMAIN r = {"operation_id", "actual_fuel_liters", "measurement_source"}
<1>1. DOMAIN r = {"operation_id", "actual_fuel_liters", "measurement_source"}
  BY DEF IsRowOf, Fields, RequiredFields, OptionalFields
<1>2. \A f \in DOMAIN r : r[f] \in CellsOf[f]
  BY DEF IsRowOf
<1> QED
  BY <1>1, <1>2 DEF CellsOf, Absent, NotNumbers, Numbers

\* When the cells of an operation are all parsed.
LEMMA CellsParse ==
    ASSUME NEW r, OperationCells(r), NEW i \in {"plan", "past"}
    PROVE  OperationCellIssues(r, i) = {} <=>
             /\ r["vehicle_category"] \notin {"blank", "unknown"}
             /\ r["activity_mode"] \notin {"blank", "unknown"}
             /\ r["distance_source"] \notin {"blank", "unknown"}
             /\ ~(i = "past" /\ r["vehicle"] = "unknown")
             /\ r["lifting_hours"] \notin {"boolean", "text", "infinite"}
             /\ r["total_distance_km"] \in {"missing", "positive"}
<1> DEFINE choices == UNION {ChoiceIssues(r, f) :
                              f \in {"vehicle_category", "activity_mode", "distance_source"}}
<1>1. choices = {} <=>
        \A f \in {"vehicle_category", "activity_mode", "distance_source"} :
           r[f] \notin {"blank", "unknown"}
  <2>1. \A f : ChoiceIssues(r, f) = {} <=> r[f] \notin {"blank", "unknown"}
    BY DEF ChoiceIssues
  <2>2. choices = {} <=>
          \A f \in {"vehicle_category", "activity_mode", "distance_source"} : ChoiceIssues(r, f) = {}
    OBVIOUS
  <2> QED
    BY <2>1, <2>2
<1>2. VehicleIssues(r, i) = {} <=> ~(i = "past" /\ r["vehicle"] = "unknown")
  BY DEF VehicleIssues
<1>3. NumberIssues(r, "lifting_hours", FALSE) = {} <=>
        r["lifting_hours"] \notin {"boolean", "text", "infinite"}
  BY DEF NumberIssues, NotNumbers
<1>4. /\ NumberIssues(r, "total_distance_km", TRUE) = {} /\ SignIssues(r, "total_distance_km") = {}
      <=> r["total_distance_km"] \in {"missing", "positive"}
  BY DEF NumberIssues, NotNumbers, SignIssues, OperationCells
<1>5. OperationCellIssues(r, i) = {} <=>
        /\ choices = {} /\ VehicleIssues(r, i) = {} /\ NumberIssues(r, "lifting_hours", FALSE) = {}
        /\ NumberIssues(r, "total_distance_km", TRUE) = {} /\ SignIssues(r, "total_distance_km") = {}
  <2>1. OperationCellIssues(r, i) =
          choices \cup VehicleIssues(r, i) \cup NumberIssues(r, "lifting_hours", FALSE)
          \cup NumberIssues(r, "total_distance_km", TRUE) \cup SignIssues(r, "total_distance_km")
    BY DEF OperationCellIssues
  <2> HIDE DEF choices
  <2> QED
    BY <2>1
<1> HIDE DEF choices
<1> QED
  BY <1>1, <1>2, <1>3, <1>4, <1>5

\* A plan is accepted by its parsers, its importer and DailyOperation together exactly
\* when it describes an operation.
LEMMA PlansParse ==
    ASSUME NEW r, IsRowOf("plan", r)
    PROVE  PlanIssues(r) = {} <=> MeansSomething("plan", r)
<1> DEFINE parsed == (Missing(r) \cap RequiredFields["plan"])
                     \cup OperationCellIssues(r, "plan") \cup StopIssues(r)
<1>1. /\ OperationCells(r) /\ r["stop_sequence"] \in {"missing", "blank", "one", "gap", "stops"}
      /\ DOMAIN r = {"vehicle_category", "activity_mode", "total_distance_km",
                     "distance_source", "vehicle", "lifting_hours", "stop_sequence"}
  BY PlanCells
<1>2. Missing(r) \cap RequiredFields["plan"] = {} <=>
        \A f \in {"vehicle_category", "activity_mode", "total_distance_km", "distance_source"} :
           r[f] # "missing"
  BY <1>1 DEF Missing, RequiredFields
<1>3. StopIssues(r) = {} <=> r["stop_sequence"] \in {"missing", "blank", "stops"}
  BY <1>1 DEF StopIssues
<1>4. parsed = {} <=> /\ Missing(r) \cap RequiredFields["plan"] = {}
                      /\ OperationCellIssues(r, "plan") = {} /\ StopIssues(r) = {}
  OBVIOUS
<1>5. PlanIssues(r) = {} <=> parsed = {} /\ OperationIssues(r) = {}
  BY DEF PlanIssues
<1> HIDE DEF parsed
<1>6. OperationIssues(r) = {} <=>
        \/ r["activity_mode"] \in {"lifting", "transport_and_lifting"} /\ r["lifting_hours"] = "positive"
        \/ /\ r["activity_mode"] \notin {"lifting", "transport_and_lifting"}
           /\ r["lifting_hours"] \in {"missing", "blank"}
  BY DEF OperationIssues, Absent
<1>7. MeansSomething("plan", r) <=>
        DescribesAnOperation(r) /\ r["stop_sequence"] \in {"missing", "blank", "stops"}
  BY DEF MeansSomething, Absent
<1> QED
  BY <1>1, <1>2, <1>3, <1>4, <1>5, <1>6, <1>7, CellsParse
  DEF DescribesAnOperation, OperationCells, Absent

\* So is a row of history, with its prepared fuel.
LEMMA HistoryParses ==
    ASSUME NEW r, IsRowOf("past", r)
    PROVE  PastIssues(r) = {} <=> MeansSomething("past", r)
<1> DEFINE parsed == (Missing(r) \cap RequiredFields["past"])
                     \cup OperationCellIssues(r, "past")
                     \cup NumberIssues(r, "prepared_fuel_liters", TRUE)
                     \cup SignIssues(r, "prepared_fuel_liters")
<1>1. /\ OperationCells(r)
      /\ r["prepared_fuel_liters"] \in {"missing", "blank", "boolean", "text", "infinite",
                                        "negative", "zero", "positive"}
      /\ DOMAIN r = {"vehicle_category", "activity_mode", "total_distance_km",
                     "distance_source", "prepared_fuel_liters", "vehicle", "lifting_hours"}
  BY PastCells
<1>2. Missing(r) \cap RequiredFields["past"] = {} <=>
        \A f \in {"vehicle_category", "activity_mode", "total_distance_km", "distance_source",
                  "prepared_fuel_liters"} : r[f] # "missing"
  BY <1>1 DEF Missing, RequiredFields
<1>3. /\ NumberIssues(r, "prepared_fuel_liters", TRUE) = {}
      /\ SignIssues(r, "prepared_fuel_liters") = {}
      <=> r["prepared_fuel_liters"] \in {"missing", "positive"}
  BY <1>1 DEF NumberIssues, NotNumbers, SignIssues
<1>4. parsed = {} <=> /\ Missing(r) \cap RequiredFields["past"] = {}
                      /\ OperationCellIssues(r, "past") = {}
                      /\ NumberIssues(r, "prepared_fuel_liters", TRUE) = {}
                      /\ SignIssues(r, "prepared_fuel_liters") = {}
  OBVIOUS
<1>5. PastIssues(r) = {} <=> parsed = {} /\ OperationIssues(r) = {}
  BY DEF PastIssues
<1> HIDE DEF parsed
<1>6. OperationIssues(r) = {} <=>
        \/ r["activity_mode"] \in {"lifting", "transport_and_lifting"} /\ r["lifting_hours"] = "positive"
        \/ /\ r["activity_mode"] \notin {"lifting", "transport_and_lifting"}
           /\ r["lifting_hours"] \in {"missing", "blank"}
  BY DEF OperationIssues, Absent
<1>7. MeansSomething("past", r) <=>
        /\ DescribesAnOperation(r) /\ r["prepared_fuel_liters"] = "positive"
        /\ r["vehicle"] # "unknown"
  BY DEF MeansSomething
<1> QED
  BY <1>1, <1>2, <1>3, <1>4, <1>5, <1>6, <1>7, CellsParse
  DEF DescribesAnOperation, OperationCells, Absent

\* And a row of actual fuel, unless a stray cell is read for its source.
LEMMA ActualsParse ==
    ASSUME NEW r, IsRowOf("actual", r), NEW others
    PROVE  ActualIssues(r, others) = {} <=>
             MeansSomething("actual", r) /\ ~StrayIsRead("actual", r, others)
<1>1. /\ r["operation_id"] \in {"missing", "blank", "written"}
      /\ r["actual_fuel_liters"] \in {"missing", "blank", "boolean", "text", "infinite",
                                      "negative", "zero", "positive"}
      /\ r["measurement_source"] \in {"missing", "blank", "unknown", "receipt"}
      /\ DOMAIN r = {"operation_id", "actual_fuel_liters", "measurement_source"}
  BY ActualCells
<1>2. Missing(r) \cap RequiredFields["actual"] = {} <=>
        r["operation_id"] # "missing" /\ r["actual_fuel_liters"] # "missing"
  BY <1>1 DEF Missing, RequiredFields
<1>3. /\ NumberIssues(r, "actual_fuel_liters", TRUE) = {}
      /\ SignIssues(r, "actual_fuel_liters") = {}
      <=> r["actual_fuel_liters"] \in {"missing", "positive"}
  BY <1>1 DEF NumberIssues, NotNumbers, SignIssues
<1>4. ActualIssues(r, others) = {} <=>
        /\ Missing(r) \cap RequiredFields["actual"] = {} /\ r["operation_id"] # "blank"
        /\ NumberIssues(r, "actual_fuel_liters", TRUE) = {}
        /\ SignIssues(r, "actual_fuel_liters") = {} /\ r["measurement_source"] # "unknown"
        /\ ~StrayIsRead("actual", r, others)
  BY DEF ActualIssues
<1>5. MeansSomething("actual", r) <=>
        /\ r["operation_id"] = "written" /\ r["actual_fuel_liters"] = "positive"
        /\ r["measurement_source"] # "unknown"
  BY DEF MeansSomething
<1> QED
  BY <1>1, <1>2, <1>3, <1>4, <1>5

\* Whatever its cells are, a row is reported for nothing exactly when it means something
\* and no stray cell is read for its source.
LEMMA RowsParse ==
    ASSUME NEW i \in Importers, NEW r, IsRowOf(i, r), NEW others
    PROVE  Issues(i, r, others) = {} <=> MeansSomething(i, r) /\ ~StrayIsRead(i, r, others)
<1>1. i \in {"plan", "actual", "past"}
  BY DEF Importers, RequiredFields
<1>2. CASE i = "plan"
  BY <1>2, PlansParse DEF Issues, StrayIsRead
<1>3. CASE i = "past"
  BY <1>3, HistoryParses DEF Issues, StrayIsRead
<1>4. CASE i = "actual"
  BY <1>4, ActualsParse DEF Issues
<1> QED
  BY <1>1, <1>2, <1>3, <1>4

\* The fields a report names are fields of the row.
LEMMA ReportsNameFields ==
    ASSUME NEW i \in Importers, NEW r, IsRowOf(i, r), NEW others
    PROVE  Issues(i, r, others) \subseteq Fields(i)
<1>1. i \in {"plan", "actual", "past"}
  BY DEF Importers, RequiredFields
<1>2. ASSUME NEW j \in {"plan", "past"}
      PROVE  /\ OperationCellIssues(r, j) \subseteq Fields(j)
             /\ OperationIssues(r) \subseteq Fields(j)
  <2>1. {"vehicle_category", "activity_mode", "distance_source", "vehicle", "lifting_hours",
         "total_distance_km"} \subseteq Fields(j)
    BY DEF Fields, RequiredFields, OptionalFields
  <2>2. OperationIssues(r) \subseteq {"lifting_hours"}
    BY DEF OperationIssues
  <2>3. \A f : ChoiceIssues(r, f) \subseteq {f} /\ SignIssues(r, f) \subseteq {f}
    BY DEF ChoiceIssues, SignIssues
  <2>4. \A f, required : NumberIssues(r, f, required) \subseteq {f}
    BY DEF NumberIssues
  <2>5. VehicleIssues(r, j) \subseteq {"vehicle"}
    BY DEF VehicleIssues
  <2>6. OperationCellIssues(r, j) \subseteq
          {"vehicle_category", "activity_mode", "distance_source", "vehicle", "lifting_hours",
           "total_distance_km"}
    <3> DEFINE choices == UNION {ChoiceIssues(r, f) :
                                  f \in {"vehicle_category", "activity_mode", "distance_source"}}
    <3>1. choices \subseteq {"vehicle_category", "activity_mode", "distance_source"}
      <4> SUFFICES ASSUME NEW x \in choices
                   PROVE  x \in {"vehicle_category", "activity_mode", "distance_source"}
        OBVIOUS
      <4>1. PICK f \in {"vehicle_category", "activity_mode", "distance_source"} :
               x \in ChoiceIssues(r, f)
        OBVIOUS
      <4>2. x = f
        BY <2>3, <4>1
      <4> QED
        BY <4>1, <4>2
    <3>2. OperationCellIssues(r, j) =
            choices \cup VehicleIssues(r, j) \cup NumberIssues(r, "lifting_hours", FALSE)
            \cup NumberIssues(r, "total_distance_km", TRUE) \cup SignIssues(r, "total_distance_km")
      BY DEF OperationCellIssues
    <3> HIDE DEF choices
    <3> QED
      BY <2>3, <2>4, <2>5, <3>1, <3>2
  <2> QED
    BY <2>1, <2>2, <2>6
<1>3. Missing(r) \subseteq Fields(i)
  BY DEF IsRowOf, Missing
<1>4. CASE i = "plan"
  <2>1. StopIssues(r) \subseteq Fields("plan")
    BY DEF StopIssues, Fields, OptionalFields
  <2>2. Issues(i, r, others) = PlanIssues(r)
    BY <1>4 DEF Issues
  <2>3. OperationCellIssues(r, "plan") \subseteq Fields("plan") /\ OperationIssues(r) \subseteq Fields("plan")
    BY <1>2
  <2> QED
    BY <1>3, <1>4, <2>1, <2>2, <2>3 DEF PlanIssues
<1>5. CASE i = "past"
  <2>1. /\ NumberIssues(r, "prepared_fuel_liters", TRUE) \subseteq Fields("past")
        /\ SignIssues(r, "prepared_fuel_liters") \subseteq Fields("past")
    BY DEF NumberIssues, SignIssues, Fields, RequiredFields
  <2>2. Issues(i, r, others) = PastIssues(r)
    BY <1>5 DEF Issues
  <2>3. OperationCellIssues(r, "past") \subseteq Fields("past") /\ OperationIssues(r) \subseteq Fields("past")
    BY <1>2
  <2> QED
    BY <1>3, <1>5, <2>1, <2>2, <2>3 DEF PastIssues
<1>6. CASE i = "actual"
  <2>1. /\ NumberIssues(r, "actual_fuel_liters", TRUE) \subseteq Fields("actual")
        /\ SignIssues(r, "actual_fuel_liters") \subseteq Fields("actual")
        /\ {"operation_id", "measurement_source"} \subseteq Fields("actual")
    BY DEF NumberIssues, SignIssues, Fields, RequiredFields, OptionalFields
  <2>2. Issues(i, r, others) = ActualIssues(r, others)
    BY <1>6 DEF Issues
  <2> QED
    BY <1>3, <1>6, <2>1, <2>2 DEF ActualIssues
<1> QED
  BY <1>1, <1>4, <1>5, <1>6

\* A row is taken for blank exactly when there is nothing in it, and then means nothing.
LEMMA BlankRows ==
    ASSUME NEW i \in Importers, NEW r, IsRowOf(i, r), NEW others \in Others
    PROVE  /\ IsBlankRow(r, others) <=>
                /\ \A f \in DOMAIN r : r[f] \in Absent
                /\ (\A f \in DOMAIN r : r[f] = "missing") => others = "blank"
           /\ IsBlankRow(r, others) => ~MeansSomething(i, r)
<1>1. IsBlankRow(r, others) <=>
        /\ \A f \in DOMAIN r : r[f] \in Absent
        /\ (\A f \in DOMAIN r : r[f] = "missing") => others = "blank"
  <2>1. Missing(r) = DOMAIN r <=> \A f \in DOMAIN r : r[f] = "missing"
    BY DEF Missing
  <2>2. (\A f \in DOMAIN r \ Missing(r) : r[f] = "blank") <=> \A f \in DOMAIN r : r[f] \in Absent
    BY DEF Missing, Absent
  <2> QED
    BY <2>1, <2>2 DEF IsBlankRow, Absent
<1>2. (\A f \in DOMAIN r : r[f] \in Absent) => ~MeansSomething(i, r)
  <2>1. i \in {"plan", "actual", "past"}
    BY DEF Importers, RequiredFields
  <2>2. CASE i = "actual"
    BY <2>2, ActualCells DEF MeansSomething, Absent
  <2>3. CASE i = "plan"
    <3>1. "vehicle_category" \in DOMAIN r
      BY <2>3, PlanCells
    <3> QED
      BY <2>3, <3>1 DEF MeansSomething, DescribesAnOperation, Absent
  <2>4. CASE i = "past"
    <3>1. "vehicle_category" \in DOMAIN r
      BY <2>4, PastCells
    <3> QED
      BY <2>4, <3>1 DEF MeansSomething, DescribesAnOperation, Absent
  <2> QED
    BY <2>1, <2>2, <2>3, <2>4
<1> QED
  BY <1>1, <1>2

\* What a planner is told to write is a cell of its field.
LEMMA CorrectionsAreCells ==
    ASSUME NEW i \in Importers, NEW f \in Fields(i)
    PROVE  Right(f) \in CellsOf[f]
<1>1. f \in {"vehicle_category", "vehicle", "activity_mode", "lifting_hours", "total_distance_km",
             "distance_source", "stop_sequence", "prepared_fuel_liters", "operation_id",
             "actual_fuel_liters", "measurement_source"}
  BY DEF Importers, Fields, RequiredFields, OptionalFields
<1>2. CASE f = "lifting_hours"
  BY <1>2 DEF Right, CellsOf, Absent, Numbers
<1>3. CASE f # "lifting_hours"
  <2>1. Right(f) = GoodRow[f]
    BY <1>3 DEF Right
  <2> QED
    BY <1>1, <1>3, <2>1 DEF GoodRow, CellsOf, Absent, Numbers
<1> QED
  BY <1>2, <1>3

\* Rows of every importer, as they are uploaded, are rows of cells.
LEMMA UploadedRowsAreCells ==
    ASSUME NEW i \in Importers, NEW r \in Rows(i)
    PROVE  IsRowOf(i, r)
<1>1. i \in {"plan", "actual", "past"}
  BY DEF Importers, RequiredFields
<1>2. \A f \in Fields(i) : "missing" \in CellsOf[f] /\ "blank" \in CellsOf[f]
  BY <1>1 DEF Fields, RequiredFields, OptionalFields, CellsOf, Absent
<1>3. \A good \in GoodRows(i) : IsRowOf(i, good)
  <2>1. CASE i = "plan"
    <3>1. \A t \in PlanTemplate : \A f \in Fields(i) : t[f] \in CellsOf[f]
      BY <2>1 DEF PlanTemplate, Fields, RequiredFields, OptionalFields, CellsOf, Absent, Numbers
    <3>2. GoodRows(i) = {[f \in Fields(i) |-> t[f]] : t \in PlanTemplate}
      BY <2>1 DEF GoodRows
    <3> QED
      BY <3>1, <3>2 DEF IsRowOf
  <2>2. CASE i = "actual"
    <3>1. \A t \in ActualTemplate : \A f \in Fields(i) : t[f] \in CellsOf[f]
      BY <2>2 DEF ActualTemplate, Fields, RequiredFields, OptionalFields, CellsOf, Absent, Numbers
    <3>2. GoodRows(i) = {[f \in Fields(i) |-> t[f]] : t \in ActualTemplate}
      BY <2>2 DEF GoodRows
    <3> QED
      BY <3>1, <3>2 DEF IsRowOf
  <2>3. CASE i = "past"
    <3>1. \A t \in {GoodRow, [GoodRow EXCEPT !.activity_mode = "lifting"]} :
             \A f \in Fields(i) : t[f] \in CellsOf[f]
      BY <2>3 DEF GoodRow, Fields, RequiredFields, OptionalFields, CellsOf, Absent, Numbers
    <3>2. GoodRows(i) = {[f \in Fields(i) |-> t[f]] :
                           t \in {GoodRow, [GoodRow EXCEPT !.activity_mode = "lifting"]}}
      BY <2>3 DEF GoodRows
    <3> QED
      BY <3>1, <3>2 DEF IsRowOf
  <2> QED
    BY <1>1, <2>1, <2>2, <2>3
<1>4. CASE r = [f \in Fields(i) |-> "missing"] \/ r = [f \in Fields(i) |-> "blank"]
  BY <1>2, <1>4 DEF IsRowOf
<1>5. ASSUME NEW good \in GoodRows(i), NEW f \in Fields(i), NEW g \in Fields(i),
             NEW x \in CellsOf[f], NEW y \in CellsOf[g],
             r = [[good EXCEPT ![f] = x] EXCEPT ![g] = y]
      PROVE  IsRowOf(i, r)
  <2>1. DOMAIN good = Fields(i) /\ \A h \in DOMAIN good : good[h] \in CellsOf[h]
    BY <1>3 DEF IsRowOf
  <2>2. DOMAIN r = Fields(i)
    BY <1>5, <2>1
  <2>3. \A h \in Fields(i) : r[h] = IF h = g THEN y ELSE IF h = f THEN x ELSE good[h]
    BY <1>5, <2>1
  <2> QED
    BY <2>1, <2>2, <2>3 DEF IsRowOf
<1> QED
  BY <1>4, <1>5 DEF Rows

-----------------------------------------------------------------------------
(* Spreadsheets: the theorem.                                              *)

\* Any upload and any number of corrections keep the relation of a row to its verdict.
LEMMA RowsInvIsKept == RowsInv /\ [RowsNext]_cells => RowsInv'
<1> SUFFICES ASSUME RowsInv, [RowsNext]_cells PROVE RowsInv'
  OBVIOUS
<1>0. /\ RowsTypeOK /\ AcceptedRowsMeanSomething /\ NothingWrittenIsIgnored
      /\ importer \in Importers /\ IsRowOf(importer, row) /\ rest \in Others
  BY DEF RowsInv, RowsTypeOK, IsRowOf
<1>1. CASE ReadRow
  <2>1. /\ UNCHANGED <<importer, row, rest>>
        /\ IF IsBlankRow(row, rest)
           THEN verdict' = "blank" /\ reported' = {}
           ELSE /\ reported' = Issues(importer, row, rest)
                /\ verdict' = IF reported' = {} THEN "accepted" ELSE "corrected"
    BY <1>1 DEF ReadRow
  <2>2. RowsTypeOK'
    BY <1>0, <2>1, ReportsNameFields DEF RowsTypeOK
  <2>3. verdict' = "accepted" <=>
          MeansSomething(importer, row) /\ ~StrayIsRead(importer, row, rest)
    BY <1>0, <2>1, RowsParse, BlankRows
  <2>4. AcceptedRowsMeanSomething'
    BY <2>1, <2>3 DEF AcceptedRowsMeanSomething, StrayIsRead
  <2>5. NothingWrittenIsIgnored'
    BY <1>0, <2>1, BlankRows DEF NothingWrittenIsIgnored
  <2> QED
    BY <2>2, <2>4, <2>5 DEF RowsInv
<1>2. CASE Correct
  <2>1. /\ UNCHANGED <<importer, rest, reported>> /\ verdict' = "unread"
        /\ row' = [f \in DOMAIN row |-> IF f \in reported THEN Right(f) ELSE row[f]]
    BY <1>2 DEF Correct
  <2>2. RowsTypeOK'
    BY <1>0, <2>1, CorrectionsAreCells DEF RowsTypeOK
  <2> QED
    BY <2>1, <2>2 DEF RowsInv, AcceptedRowsMeanSomething, NothingWrittenIsIgnored
<1>3. CASE UNCHANGED cells
  BY <1>0, <1>3 DEF cells, RowsInv, RowsTypeOK, AcceptedRowsMeanSomething,
                         NothingWrittenIsIgnored, StrayIsRead
<1> QED
  BY <1>1, <1>2, <1>3 DEF RowsNext

\* The three importers, for every combination of cells and every correction: a row is
\* accepted exactly when it means something and no stray cell is read for the source of
\* its fuel, and only an empty one is passed over.
THEOREM RowsAreUnderstood == RowsSpec => []RowsInv
<1>1. RowsInit => RowsInv
  <2> SUFFICES ASSUME RowsInit PROVE RowsInv
    OBVIOUS
  <2>1. /\ importer \in Importers /\ IsRowOf(importer, row) /\ rest \in Others
        /\ verdict = "unread" /\ reported = {}
    BY UploadedRowsAreCells DEF RowsInit
  <2> QED
    BY <2>1 DEF RowsInv, RowsTypeOK, AcceptedRowsMeanSomething, NothingWrittenIsIgnored, IsRowOf
<1> QED
  BY <1>1, RowsInvIsKept, PTL DEF RowsSpec

-----------------------------------------------------------------------------
(* Measurements: sums over finite sets.                                    *)

\* A set of natural numbers that is not empty has a least one.
LEMMA LeastNat ==
    ASSUME NEW T \in SUBSET Nat, T # {}
    PROVE  \E x \in T : \A y \in T : x <= y
<1>1. \E x \in T : \A y \in T : ~(y < x)
  <2>1. \A x, y \in Nat : y < x => <<y, x>> \in OpToRel(<, Nat)
    BY DEF OpToRel
  <2>2. PICK x \in T : \A y \in T : <<y, x>> \notin OpToRel(<, Nat)
    BY NatLessThanWellFounded, WFMin, Zenon
  <2> QED
    BY <2>1, <2>2, Zenon
<1> QED
  BY <1>1

\* Among some subsets of a finite set there is one that contains no other of them.  What
\* follows is proved for all subsets by showing that no least one fails.
LEMMA SmallestSet ==
    ASSUME NEW S, IsFiniteSet(S), NEW B \in SUBSET (SUBSET S), B # {}
    PROVE  \E s \in B : \A t \in B : t \subseteq s => t = s
<1> DEFINE sizes == {Cardinality(s) : s \in B}
<1>1. \A s \in SUBSET S : IsFiniteSet(s) /\ Cardinality(s) \in Nat
  BY FS_Subset, FS_CardinalityType
<1>2. PICK n \in sizes : \A m \in sizes : n <= m
  <2>1. sizes \in SUBSET Nat /\ sizes # {}
    BY <1>1
  <2> QED
    BY <2>1, LeastNat
<1>3. PICK s \in B : n = Cardinality(s)
  BY <1>2
<1>4. ASSUME NEW t \in B, t \subseteq s PROVE t = s
  <2>1. Cardinality(t) <= Cardinality(s) /\ (Cardinality(s) = Cardinality(t) => s = t)
    BY <1>1, <1>4, FS_Subset
  <2>2. Cardinality(s) <= Cardinality(t)
    BY <1>2, <1>3
  <2> QED
    BY <1>1, <2>1, <2>2
<1> QED
  BY <1>4

\* The element that a sum takes first.
Pick(s) == CHOOSE x \in s : TRUE

\* G gives the sum of F over each subset of its domain.
SumsUp(F, G) ==
    G = [s \in SUBSET (DOMAIN F) |-> IF s = {} THEN 0 ELSE F[Pick(s)] + G[s \ {Pick(s)}]]

\* Sums are defined: first over the empty set, then over sets of one more element.
LEMMA SumsExist ==
    ASSUME NEW F, IsFiniteSet(DOMAIN F)
    PROVE  \E G : SumsUp(F, G)
<1> DEFINE Small(n) == {s \in SUBSET (DOMAIN F) : Cardinality(s) <= n}
           Sums(n, G) == G = [s \in Small(n) |->
                                IF s = {} THEN 0 ELSE F[Pick(s)] + G[s \ {Pick(s)}]]
           bad == {n \in Nat : ~ \E G : Sums(n, G)}
<1>1. \A s \in SUBSET (DOMAIN F) : IsFiniteSet(s) /\ Cardinality(s) \in Nat
  BY FS_Subset, FS_CardinalityType
<1>2. \E G : Sums(0, G)
  <2> DEFINE G == [s \in Small(0) |-> 0]
  <2>1. \A s \in Small(0) : s = {}
    BY <1>1, FS_EmptySet
  <2>2. Sums(0, G)
    BY <2>1
  <2> QED
    BY <2>2
<1>3. ASSUME NEW n \in Nat, NEW G, Sums(n, G)
      PROVE  \E H : Sums(n + 1, H)
  <2> DEFINE H == [s \in Small(n + 1) |->
                     IF s = {} THEN 0 ELSE F[Pick(s)] + G[s \ {Pick(s)}]]
  <2>1. \A s \in Small(n) : s \in Small(n + 1) /\ H[s] = G[s]
    <3> SUFFICES ASSUME NEW s \in Small(n) PROVE s \in Small(n + 1) /\ H[s] = G[s]
      OBVIOUS
    <3>1. s \in Small(n + 1)
      BY <1>1
    <3>2. G[s] = IF s = {} THEN 0 ELSE F[Pick(s)] + G[s \ {Pick(s)}]
      BY <1>3
    <3> QED
      BY <3>1, <3>2
  <2>2. ASSUME NEW s \in Small(n + 1), s # {}
        PROVE  s \ {Pick(s)} \in Small(n)
    <3>1. Pick(s) \in s
      BY <2>2 DEF Pick
    <3>2. Cardinality(s \ {Pick(s)}) = Cardinality(s) - 1
      BY <1>1, <3>1, FS_RemoveElement
    <3> QED
      BY <1>1, <3>2
  <2>3. \A s \in Small(n + 1) : H[s] = IF s = {} THEN 0 ELSE F[Pick(s)] + H[s \ {Pick(s)}]
    BY <2>1, <2>2
  <2>4. DOMAIN H = Small(n + 1)
    OBVIOUS
  <2>5. H = [s \in Small(n + 1) |-> H[s]]
    OBVIOUS
  <2> HIDE DEF H
  <2> QED
    BY <2>3, <2>5
<1> HIDE DEF Sums, Small
<1>4. bad = {}
  <2> SUFFICES ASSUME bad # {} PROVE FALSE
    OBVIOUS
  <2>1. PICK n \in bad : \A m \in bad : n <= m
    BY LeastNat
  <2>2. n # 0
    BY <1>2
  <2>3. n - 1 \in Nat /\ n - 1 \notin bad /\ n = (n - 1) + 1
    BY <2>1, <2>2
  <2>4. \E H : Sums((n - 1) + 1, H)
    BY <1>3, <2>3
  <2> QED
    BY <2>3, <2>4
<1>5. PICK G : Sums(Cardinality(DOMAIN F), G)
  BY <1>4, FS_CardinalityType
<1>6. Small(Cardinality(DOMAIN F)) = SUBSET (DOMAIN F)
  BY FS_Subset DEF Small
<1> QED
  BY <1>5, <1>6 DEF Sums, SumsUp

\* Total is such a sum.
LEMMA TotalSumsUp ==
    ASSUME NEW F, IsFiniteSet(DOMAIN F)
    PROVE  \E G : SumsUp(F, G) /\ Total(F) = G[DOMAIN F]
<1>1. PICK G : SumsUp(F, G)
  BY SumsExist
<1> QED
  BY <1>1, Zenon DEF Total, MapThenSumSet, MapThenFoldSet, SumsUp, Pick

\* Any element may be taken first.
LEMMA AnyElementFirst ==
    ASSUME NEW S, IsFiniteSet(S), NEW F \in [S -> Int], NEW G, SumsUp(F, G)
    PROVE  \A s \in SUBSET S : G[s] \in Int /\ \A x \in s : G[s] = F[x] + G[s \ {x}]
<1> DEFINE Fine(s) == G[s] \in Int /\ \A x \in s : G[s] = F[x] + G[s \ {x}]
           B == {s \in SUBSET S : ~Fine(s)}
<1>1. \A s \in SUBSET S : G[s] = IF s = {} THEN 0 ELSE F[Pick(s)] + G[s \ {Pick(s)}]
  BY DEF SumsUp
<1> SUFFICES ASSUME B # {} PROVE FALSE
  OBVIOUS
<1>2. PICK s \in B : \A t \in B : t \subseteq s => t = s
  <2>1. B \in SUBSET (SUBSET S)
    OBVIOUS
  <2> HIDE DEF B
  <2> QED
    BY <2>1, SmallestSet
<1>3. s # {}
  BY <1>1
<1> DEFINE y == Pick(s)
<1>4. y \in s
  BY <1>3 DEF Pick
<1>5. G[s] = F[y] + G[s \ {y}]
  BY <1>1, <1>3
<1> HIDE DEF y
<1>6. \A x \in s : Fine(s \ {x})
  <2>1. \A x \in s : s \ {x} \in SUBSET S /\ s \ {x} \subseteq s /\ s \ {x} # s
    OBVIOUS
  <2> HIDE DEF Fine
  <2> QED
    BY <1>2, <2>1
<1>7. G[s] \in Int
  <2>1. G[s \ {y}] \in Int /\ F[y] \in Int
    BY <1>4, <1>6
  <2> QED
    BY <1>5, <2>1
<1>8. ASSUME NEW x \in s PROVE G[s] = F[x] + G[s \ {x}]
  <2>1. CASE x = y
    BY <1>5, <2>1
  <2>2. CASE x # y
    <3>1. G[s \ {y}] = F[x] + G[(s \ {y}) \ {x}]
      BY <1>4, <1>6, <2>2
    <3>2. G[s \ {x}] = F[y] + G[(s \ {x}) \ {y}]
      BY <1>4, <1>6, <2>2
    <3>3. (s \ {x}) \ {y} = (s \ {y}) \ {x}
      OBVIOUS
    <3>4. (s \ {x}) \ {y} \in SUBSET S /\ G[(s \ {x}) \ {y}] \in Int
      <4> DEFINE r == (s \ {x}) \ {y}
      <4>1. r \in SUBSET S /\ r \subseteq s /\ r # s
        BY <1>4
      <4> HIDE DEF r, Fine
      <4>2. Fine(r)
        BY <1>2, <4>1
      <4> QED
        BY <4>1, <4>2 DEF Fine, r
    <3>5. F[x] \in Int /\ F[y] \in Int
      BY <1>4
    <3>6. G[s] = F[y] + (F[x] + G[(s \ {x}) \ {y}])
      BY <1>5, <3>1, <3>3
    <3>7. \A a, b, c \in Int : a + (b + c) = b + (a + c)
      OBVIOUS
    <3> QED
      BY <3>2, <3>4, <3>5, <3>6, <3>7
  <2> QED
    BY <2>1, <2>2
<1> QED
  BY <1>2, <1>7, <1>8

\* A sum over a part does not depend on the rest.
LEMMA PartsSumAlike ==
    ASSUME NEW S, IsFiniteSet(S), NEW F \in [S -> Int], NEW G, SumsUp(F, G),
           NEW T \in SUBSET S, NEW H, SumsUp([x \in T |-> F[x]], H)
    PROVE  H[T] = G[T]
<1> DEFINE B == {s \in SUBSET T : H[s] # G[s]}
<1>1. \A s \in SUBSET T : G[s] = IF s = {} THEN 0 ELSE F[Pick(s)] + G[s \ {Pick(s)}]
  BY DEF SumsUp
<1>2. \A s \in SUBSET T : H[s] = IF s = {} THEN 0 ELSE F[Pick(s)] + H[s \ {Pick(s)}]
  <2>1. \A s \in SUBSET T : s # {} => Pick(s) \in T
    BY DEF Pick
  <2> QED
    BY <2>1 DEF SumsUp
<1> SUFFICES ASSUME B # {} PROVE FALSE
  OBVIOUS
<1>3. PICK s \in B : \A t \in B : t \subseteq s => t = s
  <2>1. IsFiniteSet(T)
    BY FS_Subset
  <2> QED
    <3>1. B \in SUBSET (SUBSET T)
      OBVIOUS
    <3> HIDE DEF B
    <3> QED
      BY <2>1, <3>1, SmallestSet
<1>4. s # {}
  BY <1>1, <1>2
<1>5. Pick(s) \in s
  BY <1>4 DEF Pick
<1>6. H[s \ {Pick(s)}] = G[s \ {Pick(s)}]
  BY <1>3, <1>5
<1> QED
  BY <1>1, <1>2, <1>3, <1>4, <1>6

\* A sum is an integer, nothing sums up to zero, and any element may be taken out.
LEMMA TotalStep ==
    ASSUME NEW S, IsFiniteSet(S), NEW F \in [S -> Int]
    PROVE  /\ Total(F) \in Int
           /\ S = {} => Total(F) = 0
           /\ \A x \in S : Total(F) = F[x] + Total([y \in S \ {x} |-> F[y]])
<1>1. PICK G : SumsUp(F, G) /\ Total(F) = G[S]
  BY TotalSumsUp
<1>2. Total(F) \in Int /\ \A x \in S : Total(F) = F[x] + G[S \ {x}]
  <2>1. \A s \in SUBSET S : G[s] \in Int /\ \A x \in s : G[s] = F[x] + G[s \ {x}]
    <3>1. SumsUp(F, G) /\ IsFiniteSet(S) /\ F \in [S -> Int]
      BY <1>1
    <3>2. \A s : s \in SUBSET S => G[s] \in Int /\ \A x \in s : G[s] = F[x] + G[s \ {x}]
      BY <3>1, AnyElementFirst
    <3> QED
      BY <3>2
  <2>2. S \in SUBSET S
    OBVIOUS
  <2>3. G[S] \in Int /\ \A x \in S : G[S] = F[x] + G[S \ {x}]
    BY <2>1, <2>2
  <2> QED
    BY <1>1, <2>3
<1>3. S = {} => Total(F) = 0
  BY <1>1 DEF SumsUp
<1>4. ASSUME NEW x \in S PROVE Total([y \in S \ {x} |-> F[y]]) = G[S \ {x}]
  <2> DEFINE T == S \ {x}
  <2>1. IsFiniteSet(T) /\ DOMAIN [y \in T |-> F[y]] = T /\ T \in SUBSET S
    BY FS_Subset
  <2> HIDE DEF T
  <2>2. PICK H : SumsUp([y \in T |-> F[y]], H) /\ Total([y \in T |-> F[y]]) = H[T]
    BY <2>1, TotalSumsUp
  <2>3. H[T] = G[T]
    BY <1>1, <2>1, <2>2, PartsSumAlike
  <2> QED
    BY <2>2, <2>3 DEF T
<1> QED
  BY <1>2, <1>3, <1>4

\* The sum of F over s.
Over(s, F) == Total([x \in s |-> F[x]])

\* The same of the sums over subsets, which is how the lemmas below use it.
LEMMA OverStep ==
    ASSUME NEW S, IsFiniteSet(S), NEW F \in [S -> Int], NEW s \in SUBSET S
    PROVE  /\ Over(s, F) \in Int
           /\ s = {} => Over(s, F) = 0
           /\ \A x \in s : Over(s, F) = F[x] + Over(s \ {x}, F)
<1> DEFINE f == [x \in s |-> F[x]]
<1>1. IsFiniteSet(s) /\ f \in [s -> Int]
  BY FS_Subset
<1>2. \A x \in s : [y \in s \ {x} |-> f[y]] = [y \in s \ {x} |-> F[y]] /\ f[x] = F[x]
  OBVIOUS
<1> HIDE DEF f
<1>3. /\ Total(f) \in Int /\ (s = {} => Total(f) = 0)
      /\ \A x \in s : Total(f) = f[x] + Total([y \in s \ {x} |-> f[y]])
  BY <1>1, TotalStep
<1> QED
  BY <1>2, <1>3 DEF Over, f

\* A sum is the sum over its whole domain.
LEMMA OverAll ==
    ASSUME NEW S, NEW F \in [S -> Int]
    PROVE  Over(S, F) = Total(F)
<1>1. [x \in S |-> F[x]] = F
  OBVIOUS
<1> QED
  BY <1>1 DEF Over

\* Taking an element out of a set of S: one fewer.
LEMMA OneFewer ==
    ASSUME NEW S, IsFiniteSet(S), NEW s \in SUBSET S, NEW x \in s
    PROVE  /\ s \ {x} \in SUBSET S /\ s \ {x} \subseteq s /\ s \ {x} # s
           /\ Cardinality(s \ {x}) \in Nat /\ Cardinality(s) = Cardinality(s \ {x}) + 1
<1>1. IsFiniteSet(s) /\ IsFiniteSet(s \ {x})
  BY FS_Subset
<1>2. Cardinality(s \ {x}) = Cardinality(s) - 1 /\ Cardinality(s) \in Nat
  BY <1>1, FS_RemoveElement, FS_CardinalityType
<1> QED
  BY <1>1, <1>2, FS_CardinalityType

\* Terms above M sum up to more than M times their number, when there are any; terms of
\* at most M to no more than that; and equal terms to exactly that.
LEMMA TotalBounds ==
    ASSUME NEW S, IsFiniteSet(S), NEW F \in [S -> Int], NEW M \in Int
    PROVE  /\ (\A i \in S : F[i] > M) /\ S # {} => Total(F) > M * Cardinality(S)
           /\ (\A i \in S : F[i] <= M) => Total(F) <= M * Cardinality(S)
           /\ (\A i \in S : F[i] = M) => Total(F) = M * Cardinality(S)
<1> DEFINE Bounded(s) ==
             /\ (\A i \in S : F[i] > M) /\ s # {} => Over(s, F) > M * Cardinality(s)
             /\ (\A i \in S : F[i] <= M) => Over(s, F) <= M * Cardinality(s)
             /\ (\A i \in S : F[i] = M) => Over(s, F) = M * Cardinality(s)
           B == {s \in SUBSET S : ~Bounded(s)}
<1>1. B = {}
  <2> SUFFICES ASSUME B # {} PROVE FALSE
    OBVIOUS
  <2>1. PICK s \in B : \A t \in B : t \subseteq s => t = s
    <3>1. B \in SUBSET (SUBSET S)
      OBVIOUS
    <3> HIDE DEF B
    <3> QED
      BY <3>1, SmallestSet
  <2>2. s # {}
    <3>1. Cardinality({}) = 0 /\ M * 0 = 0
      BY FS_EmptySet
    <3>2. Over({}, F) = 0
      BY OverStep
    <3>3. Bounded({})
      <4> HIDE DEF Over
      <4> QED
        BY <3>1, <3>2
    <3> HIDE DEF Bounded
    <3> QED
      BY <2>1, <3>3
  <2>3. PICK x \in s : TRUE
    BY <2>2
  <2> DEFINE r == s \ {x}
             n == Cardinality(r)
             sum == Over(r, F)
  <2>4. r \in SUBSET S /\ r \subseteq s /\ r # s /\ n \in Nat /\ Cardinality(s) = n + 1
    BY OneFewer
  <2>5. Bounded(r)
    <3> HIDE DEF Bounded, r
    <3> QED
      BY <2>1, <2>4
  <2>6. Over(s, F) = F[x] + sum /\ sum \in Int /\ F[x] \in Int
    BY <2>4, OverStep
  <2>7. r = {} => n = 0 /\ sum = 0
    BY <2>4, OverStep, FS_EmptySet
  <2>8. M * (n + 1) = M * n + M /\ M * n \in Int /\ (n = 0 => M * n = 0)
    BY <2>4
  <2> HIDE DEF r, n, sum
  <2>9. /\ (\A i \in S : F[i] > M) /\ r # {} => sum > M * n
        /\ (\A i \in S : F[i] <= M) => sum <= M * n
        /\ (\A i \in S : F[i] = M) => sum = M * n
    BY <2>5 DEF r, n, sum
  <2>10. Bounded(s)
    <3>1. M * Cardinality(s) = M * n + M
      BY <2>4, <2>8
    <3> DEFINE mn == M * n
    <3>2. mn \in Int /\ (r = {} => mn = 0)
      BY <2>7, <2>8
    <3> HIDE DEF mn
    <3>3. ASSUME \A i \in S : F[i] > M PROVE F[x] + sum > mn + M
      BY <2>6, <2>7, <2>9, <3>2, <3>3 DEF mn
    <3>4. ASSUME \A i \in S : F[i] <= M PROVE F[x] + sum <= mn + M
      BY <2>6, <2>9, <3>2, <3>4 DEF mn
    <3>5. ASSUME \A i \in S : F[i] = M PROVE F[x] + sum = mn + M
      BY <2>6, <2>9, <3>2, <3>5 DEF mn
    <3> QED
      BY <2>6, <3>1, <3>3, <3>4, <3>5 DEF mn
  <2> HIDE DEF Bounded
  <2> QED
    BY <2>1, <2>10
<1>2. Bounded(S)
  <2> HIDE DEF Bounded
  <2> QED
    BY <1>1
<1> QED
  BY <1>2, OverAll

\* The sum of the sums over the classes that g makes is the sum of everything.
LEMMA ClassesSumUp ==
    ASSUME NEW S, IsFiniteSet(S), NEW F \in [S -> Int], NEW g,
           NEW C, IsFiniteSet(C), \A i \in S : g[i] \in C
    PROVE  Total([c \in C |-> Over({i \in S : g[i] = c}, F)]) = Total(F)
<1> DEFINE Class(s, c) == {i \in s : g[i] = c}
           Sums(s) == [c \in C |-> Over(Class(s, c), F)]
           B == {s \in SUBSET S : Total(Sums(s)) # Over(s, F)}
<1>1. \A s \in SUBSET S : Sums(s) \in [C -> Int]
  <2>1. \A s \in SUBSET S : \A c \in C : Class(s, c) \in SUBSET S
    OBVIOUS
  <2> HIDE DEF Class
  <2>2. \A s \in SUBSET S : \A c \in C : Over(Class(s, c), F) \in Int
    BY <2>1, OverStep
  <2> QED
    BY <2>2
<1>2. B = {}
  <2> SUFFICES ASSUME B # {} PROVE FALSE
    OBVIOUS
  <2>1. PICK s \in B : \A t \in B : t \subseteq s => t = s
    <3>1. B \in SUBSET (SUBSET S)
      OBVIOUS
    <3> HIDE DEF B
    <3> QED
      BY <3>1, SmallestSet
  <2>2. s # {}
    <3> SUFFICES ASSUME s = {} PROVE FALSE
      OBVIOUS
    <3>1. \A c \in C : Sums({})[c] = 0
      <4>1. \A c \in C : Class({}, c) = {}
        OBVIOUS
      <4>2. Over({}, F) = 0
        BY OverStep
      <4> QED
        BY <4>1, <4>2
    <3>2. Sums({}) \in [C -> Int]
      BY <1>1
    <3> HIDE DEF Sums
    <3>3. Total(Sums({})) = 0 * Cardinality(C)
      BY <3>1, <3>2, TotalBounds
    <3>4. Over({}, F) = 0 /\ Cardinality(C) \in Nat
      BY OverStep, FS_CardinalityType
    <3> QED
      BY <2>1, <3>3, <3>4
  <2>3. PICK x \in s : TRUE
    BY <2>2
  <2> DEFINE r == s \ {x}
  <2>4. r \in SUBSET S /\ r \subseteq s /\ r # s /\ g[x] \in C
    BY OneFewer
  <2>5. Total(Sums(r)) = Over(r, F)
    <3> HIDE DEF Sums, r
    <3> QED
      BY <2>1, <2>4
  <2>6. Over(s, F) = F[x] + Over(r, F)
    BY OverStep
  <2>7. Sums(s)[g[x]] = F[x] + Sums(r)[g[x]]
    <3>1. Class(s, g[x]) \in SUBSET S /\ x \in Class(s, g[x]) /\ Class(r, g[x]) = Class(s, g[x]) \ {x}
      OBVIOUS
    <3> HIDE DEF Class, r
    <3>2. Over(Class(s, g[x]), F) = F[x] + Over(Class(r, g[x]), F)
      BY <3>1, OverStep
    <3> QED
      BY <2>4, <3>2
  <2>8. \A c \in C \ {g[x]} : Sums(s)[c] = Sums(r)[c]
    <3>1. \A c \in C \ {g[x]} : Class(s, c) = Class(r, c)
      OBVIOUS
    <3> HIDE DEF Class, r
    <3> QED
      BY <3>1
  <2> DEFINE rest_s == Total([c \in C \ {g[x]} |-> Sums(s)[c]])
             rest_r == Total([c \in C \ {g[x]} |-> Sums(r)[c]])
  <2>9. Sums(s) \in [C -> Int] /\ Sums(r) \in [C -> Int]
    BY <1>1, <2>1, <2>4
  <2> HIDE DEF Sums, r
  <2>10. /\ Total(Sums(s)) = Sums(s)[g[x]] + rest_s
         /\ Total(Sums(r)) = Sums(r)[g[x]] + rest_r
    <3>1. \A h \in [C -> Int] : Total(h) = h[g[x]] + Total([c \in C \ {g[x]} |-> h[c]])
      <4> SUFFICES ASSUME NEW h \in [C -> Int]
                   PROVE  Total(h) = h[g[x]] + Total([c \in C \ {g[x]} |-> h[c]])
        OBVIOUS
      <4>1. \A z \in C : Total(h) = h[z] + Total([c \in C \ {z} |-> h[c]])
        BY TotalStep, Zenon
      <4> QED
        BY <2>4, <4>1
    <3> QED
      BY <2>9, <3>1
  <2>11. [c \in C \ {g[x]} |-> Sums(s)[c]] = [c \in C \ {g[x]} |-> Sums(r)[c]]
    BY <2>8
  <2>12. rest_s = rest_r
    BY <2>11
  <2>13. rest_r \in Int
    <3> DEFINE D == C \ {g[x]}
               h == [c \in D |-> Sums(r)[c]]
    <3>1. IsFiniteSet(D) /\ h \in [D -> Int]
      BY <2>9, FS_Subset
    <3> HIDE DEF h
    <3>2. Total(h) \in Int
      BY <3>1, TotalStep
    <3> QED
      BY <3>2 DEF h
  <2>14. F[x] \in Int /\ Sums(r)[g[x]] \in Int
    BY <2>1, <2>4, <2>9
  <2> HIDE DEF rest_s, rest_r
  <2>15. Total(Sums(s)) = Over(s, F)
    BY <2>5, <2>6, <2>7, <2>10, <2>12, <2>13, <2>14
  <2> QED
    BY <2>1, <2>15
<1>3. Total(Sums(S)) = Over(S, F)
  <2> HIDE DEF Sums
  <2> QED
    BY <1>2
<1> QED
  BY <1>3, OverAll

-----------------------------------------------------------------------------
(* Measurements: what is recorded, and its outcomes.                       *)

\* The settings, one by one.
LEMMA Settings ==
    /\ MaxLiters \in Nat /\ Uncertainty \in Nat /\ Margin \in Nat /\ MaxMae \in Nat
    /\ RollingWindow \in Nat \ {0} /\ MinimumOutcomes \in Nat \ {0} /\ Answers \subseteq Int
  BY SettingsAreCounts

\* An operation is recorded once: the amount it then has tells that it was.
LEMMA MeasuresAreTyped == MeasuresSpec => []MeasuresTypeOK
<1>1. MeasuresInit => MeasuresTypeOK
  BY Settings DEF MeasuresInit, MeasuresTypeOK
<1>2. MeasuresTypeOK /\ [MeasuresNext]_measured => MeasuresTypeOK'
  <2> SUFFICES ASSUME MeasuresTypeOK, [MeasuresNext]_measured PROVE MeasuresTypeOK'
    OBVIOUS
  <2>1. ASSUME NEW o \in Operations, NEW answer \in Answers, Predict(o, answer)
        PROVE  MeasuresTypeOK'
    <3>1. predicted' \in [Operations -> {NoPrediction} \cup {Prediction(a) : a \in Answers}]
      BY <2>1 DEF Predict, MeasuresTypeOK
    <3> QED
      BY <2>1, <3>1 DEF Predict, MeasuresTypeOK
  <2>2. ASSUME NEW o \in Operations, NEW amount \in 0..MaxLiters, RecordActual(o, amount)
        PROVE  MeasuresTypeOK'
    <3>1. /\ liters' = [liters EXCEPT ![o] = amount] /\ amount > 0 /\ liters[o] = 0
          /\ recorded' = Append(recorded, o) /\ predicted' = predicted
      BY <2>2 DEF RecordActual
    <3>2. liters' \in [Operations -> 0..MaxLiters] /\ recorded' \in Seq(Operations)
      BY <3>1 DEF MeasuresTypeOK
    <3>3. \A i \in DOMAIN recorded' :
            \/ i \in DOMAIN recorded /\ recorded'[i] = recorded[i] /\ recorded[i] \in Operations
            \/ i = Len(recorded) + 1 /\ i \notin DOMAIN recorded /\ recorded'[i] = o
      BY <3>1 DEF MeasuresTypeOK
    <3>4. \A i \in DOMAIN recorded : recorded[i] # o
      BY <3>1 DEF MeasuresTypeOK
    <3>5. \A i, j \in DOMAIN recorded' : i # j => recorded'[i] # recorded'[j]
      BY <3>3, <3>4 DEF MeasuresTypeOK
    <3>6. \A i \in DOMAIN recorded' : liters'[recorded'[i]] > 0
      BY <3>1, <3>3, <3>4 DEF MeasuresTypeOK
    <3> QED
      BY <3>1, <3>2, <3>5, <3>6 DEF MeasuresTypeOK
  <2>3. CASE UNCHANGED measured
    BY <2>3 DEF measured, MeasuresTypeOK
  <2> QED
    BY <2>1, <2>2, <2>3 DEF MeasuresNext
<1> QED
  BY <1>1, <1>2, PTL DEF MeasuresSpec

\* What an outcome is made of.
LEMMA OutcomeFacts ==
    ASSUME MeasuresTypeOK
    PROVE  /\ PredictionOutcomes \subseteq 1..Len(recorded) /\ Len(recorded) \in Nat
           /\ IsFiniteSet(PredictionOutcomes)
           /\ \A i \in PredictionOutcomes :
                /\ liters[recorded[i]] \in Nat /\ liters[recorded[i]] > 0
                /\ \E a \in Int : predicted[recorded[i]] = Prediction(a)
                /\ Error(i) \in Nat
<1>1. PredictionOutcomes \subseteq 1..Len(recorded) /\ Len(recorded) \in Nat
  BY DEF PredictionOutcomes, MeasuresTypeOK
<1>2. IsFiniteSet(PredictionOutcomes)
  <2>1. IsFiniteSet(1..Len(recorded))
    BY <1>1, FS_Interval
  <2> QED
    BY <1>1, <2>1, FS_Subset
<1>3. ASSUME NEW i \in PredictionOutcomes
      PROVE  /\ liters[recorded[i]] \in Nat /\ liters[recorded[i]] > 0
             /\ \E a \in Int : predicted[recorded[i]] = Prediction(a)
             /\ Error(i) \in Nat
  <2>1. /\ recorded[i] \in Operations /\ liters[recorded[i]] \in 0..MaxLiters
        /\ liters[recorded[i]] > 0 /\ predicted[recorded[i]] # NoPrediction
    BY DEF PredictionOutcomes, MeasuresTypeOK
  <2>2. PICK a \in Answers : predicted[recorded[i]] = Prediction(a)
    BY <2>1 DEF MeasuresTypeOK
  <2>3. Prediction(a).estimate \in Int
    BY Settings DEF Prediction, Larger
  <2> QED
    BY <2>1, <2>2, <2>3, Settings DEF Error, Distance, Larger
<1> QED
  BY <1>1, <1>2, <1>3

\* An interval around an estimate, cut off at zero, covers exactly the amounts above zero
\* that are within the uncertainty of it.
LEMMA IntervalCovers ==
    ASSUME NEW a \in Int, NEW l \in Nat, l > 0
    PROVE  LET p == Prediction(a)
           IN /\ p.estimate + l > 0
              /\ (p.lower <= l /\ l <= p.upper) <=> Distance(p.estimate, l) <= Uncertainty
              /\ (p.lower <= l /\ l <= p.upper) => l <= p.recommended
  BY Settings DEF Prediction, Larger, Distance

\* No metric divides by zero, and the interval means what it says.
LEMMA MetricsHold == MeasuresTypeOK => MetricsMeanSomething
<1> SUFFICES ASSUME MeasuresTypeOK, NEW i \in PredictionOutcomes
             PROVE  /\ SmapeDenominator(i) > 0
                    /\ Covered(i) <=> Error(i) <= Uncertainty
                    /\ Covered(i) => liters[recorded[i]] <= predicted[recorded[i]].recommended
  BY DEF MetricsMeanSomething
<1>1. PICK a \in Int : predicted[recorded[i]] = Prediction(a)
  BY OutcomeFacts
<1>2. liters[recorded[i]] \in Nat /\ liters[recorded[i]] > 0
  BY OutcomeFacts
<1> QED
  BY <1>1, <1>2, IntervalCovers DEF SmapeDenominator, Covered, Error

-----------------------------------------------------------------------------
(* Measurements: the latest outcomes.                                      *)

\* The members of S after j, up to n.
Following(S, j, n) == {k \in S : j < k /\ k <= n}

\* [-window:] takes the latest outcomes and no others: as many as the window holds, or all.
LEMMA SliceIsLatest ==
    ASSUME NEW n \in Nat, NEW S \in SUBSET (1..n)
    PROVE  RollingSlice(S, n) \subseteq S /\ AreLatest(RollingSlice(S, n), S)
<1> DEFINE Rank(j) == Cardinality(Following(S, j, n))
           T == RollingSlice(S, n)
<1>1. IsFiniteSet(S)
  <2>1. IsFiniteSet(1..n)
    BY FS_Interval
  <2> QED
    BY <2>1, FS_Subset
<1>2. \A j \in S : IsFiniteSet(Following(S, j, n)) /\ Rank(j) \in Nat
  <2>1. \A j \in S : Following(S, j, n) \in SUBSET S
    BY DEF Following
  <2> QED
    BY <1>1, <2>1, FS_Subset, FS_CardinalityType
<1>3. T = {j \in S : Rank(j) < RollingWindow}
  <2>1. T = {j \in S : j <= n /\ Rank(j) < RollingWindow}
    BY DEF RollingSlice, Following
  <2>2. \A j \in S : j <= n
    OBVIOUS
  <2> HIDE DEF T, Rank
  <2> QED
    BY <2>1, <2>2
<1>4. IsFiniteSet(T) /\ Cardinality(T) \in Nat /\ T \subseteq S
  <2>1. T \in SUBSET S
    BY <1>3
  <2> QED
    BY <1>1, <2>1, FS_Subset, FS_CardinalityType
<1>5. \A i, j \in S : i < j => Rank(j) < Rank(i)
  <2> SUFFICES ASSUME NEW i \in S, NEW j \in S, i < j PROVE Rank(j) < Rank(i)
    OBVIOUS
  <2>1. /\ Following(S, j, n) \in SUBSET Following(S, i, n)
        /\ j \in Following(S, i, n) /\ j \notin Following(S, j, n)
    <3>1. \A k \in S : k \in Int /\ k <= n
      OBVIOUS
    <3>2. \A k \in S : j < k => i < k
      BY <3>1
    <3>3. Following(S, j, n) \subseteq Following(S, i, n)
      BY <3>2 DEF Following
    <3>4. j \in Following(S, i, n)
      BY <3>1 DEF Following
    <3>5. j \notin Following(S, j, n)
      BY <3>1 DEF Following
    <3> QED
      BY <3>3, <3>4, <3>5
  <2>2. Rank(j) <= Rank(i) /\ Rank(j) # Rank(i)
    BY <1>2, <2>1, FS_Subset
  <2> QED
    BY <1>2, <2>2
<1> HIDE DEF T, Rank
<1>6. \A i \in T, j \in S \ T : j < i
  <2> SUFFICES ASSUME NEW i \in T, NEW j \in S \ T, ~(j < i) PROVE FALSE
    OBVIOUS
  <2>1. i \in S /\ i < j
    BY <1>3
  <2>2. Rank(j) < Rank(i) /\ Rank(i) < RollingWindow /\ ~(Rank(j) < RollingWindow)
    BY <1>3, <1>5, <2>1
  <2> QED
    BY <1>2, <2>1, <2>2, Settings
<1>7. Cardinality(T) <= RollingWindow
  <2>1. CASE T = {}
    BY <2>1, FS_EmptySet, Settings
  <2>2. CASE T # {}
    <3>1. PICK x \in T : \A y \in T : x <= y
      <4>1. T \in SUBSET Nat
        BY <1>4
      <4> QED
        BY <2>2, <4>1, LeastNat
    <3>2. T \ {x} \in SUBSET Following(S, x, n)
      BY <1>4, <3>1 DEF Following
    <3>3. Cardinality(T \ {x}) <= Rank(x) /\ Cardinality(T \ {x}) = Cardinality(T) - 1
      BY <1>2, <1>4, <3>2, FS_Subset, FS_RemoveElement DEF Rank
    <3>4. Rank(x) \in Nat /\ Rank(x) < RollingWindow
      BY <1>2, <1>3
    <3> QED
      BY <1>4, <3>3, <3>4, Settings
  <2> QED
    BY <2>1, <2>2
<1>8. CASE T = S
  BY <1>4, <1>6, <1>7, <1>8, Settings DEF AreLatest, T
<1>9. CASE T # S
  <2> DEFINE ranks == {Rank(j) : j \in S \ T}
  <2>1. PICK x \in S \ T : \A y \in S \ T : Rank(x) <= Rank(y)
    <3>1. ranks \in SUBSET Nat /\ ranks # {}
      BY <1>2, <1>4, <1>9
    <3>2. PICK r \in ranks : \A q \in ranks : r <= q
      BY <3>1, LeastNat
    <3> QED
      BY <3>2
  <2>2. Following(S, x, n) \in SUBSET T
    <3> SUFFICES ASSUME NEW y \in Following(S, x, n), y \notin T PROVE FALSE
      OBVIOUS
    <3>1. y \in S /\ x < y
      BY DEF Following
    <3> QED
      BY <1>2, <1>5, <2>1, <3>1
  <2>3. Rank(x) <= Cardinality(T)
    BY <1>4, <2>2, FS_Subset DEF Rank
  <2>4. Rank(x) \in Nat /\ ~(Rank(x) < RollingWindow)
    BY <1>2, <1>3
  <2>5. Cardinality(T) = RollingWindow
    BY <1>4, <1>7, <2>3, <2>4, Settings
  <2> QED
    BY <1>4, <1>6, <2>5 DEF AreLatest, T
<1> QED
  BY <1>8, <1>9

-----------------------------------------------------------------------------
(* Measurements: alerts, trend and performance.                            *)

\* The outcomes of a category are outcomes, and their errors are numbers.
LEMMA CategoryFacts ==
    ASSUME MeasuresTypeOK, NEW S \in SUBSET PredictionOutcomes
    PROVE  /\ IsFiniteSet(S) /\ S \in SUBSET (1..Len(recorded)) /\ Len(recorded) \in Nat
           /\ [i \in S |-> Error(i)] \in [S -> Int]
           /\ Cardinality(S) \in Nat
<1>1. IsFiniteSet(S) /\ Cardinality(S) \in Nat
  BY OutcomeFacts, FS_Subset, FS_CardinalityType
<1>2. \A i \in S : Error(i) \in Int
  BY OutcomeFacts
<1>3. [i \in S |-> Error(i)] \in [S -> Int]
  BY <1>2
<1> QED
  BY <1>1, <1>3, OutcomeFacts

\* Sums of errors above, or at most, the threshold.
LEMMA ErrorsAgainstTheThreshold ==
    ASSUME MeasuresTypeOK, NEW S \in SUBSET PredictionOutcomes
    PROVE  /\ (\A i \in S : Error(i) > MaxMae) /\ S # {} =>
                TotalError(S) > MaxMae * Cardinality(S)
           /\ (\A i \in S : Error(i) <= MaxMae) =>
                ~(TotalError(S) > MaxMae * Cardinality(S))
<1> DEFINE F == [i \in S |-> Error(i)]
<1>1. IsFiniteSet(S) /\ F \in [S -> Int] /\ Cardinality(S) \in Nat /\ MaxMae \in Int
  BY CategoryFacts, Settings
<1>2. \A i \in S : F[i] = Error(i)
  OBVIOUS
<1>3. TotalError(S) = Total(F)
  BY DEF TotalError
<1> HIDE DEF F
<1>4. Total(F) \in Int /\ MaxMae * Cardinality(S) \in Int
  BY <1>1, TotalStep
<1>5. /\ (\A i \in S : F[i] > MaxMae) /\ S # {} => Total(F) > MaxMae * Cardinality(S)
      /\ (\A i \in S : F[i] <= MaxMae) => Total(F) <= MaxMae * Cardinality(S)
  BY <1>1, TotalBounds
<1> DEFINE bound == MaxMae * Cardinality(S)
<1>6. bound \in Int
  BY <1>4
<1> HIDE DEF bound
<1>7. Total(F) <= bound => ~(Total(F) > bound)
  BY <1>4, <1>6
<1> QED
  BY <1>2, <1>3, <1>5, <1>7 DEF bound

\* An alert says what the latest outcomes of its category say.
LEMMA AlertsFollow == MeasuresTypeOK => AlertsFollowTheLatestOutcomes
<1> SUFFICES ASSUME MeasuresTypeOK, NEW c \in Categories
             PROVE  \E latest \in SUBSET OutcomesOf(c) :
                      /\ AreLatest(latest, OutcomesOf(c))
                      /\ /\ \A i \in latest : Error(i) > MaxMae
                         /\ Cardinality(latest) >= MinimumOutcomes
                         => c \in Degraded
                      /\ (\A i \in latest : Error(i) <= MaxMae) => c \notin Degraded
                      /\ Cardinality(latest) < MinimumOutcomes => c \notin Degraded
  BY DEF AlertsFollowTheLatestOutcomes
<1> DEFINE latest == RecentOutcomes(c)
<1>1. OutcomesOf(c) \in SUBSET PredictionOutcomes
  BY DEF OutcomesOf
<1>2. latest \in SUBSET OutcomesOf(c) /\ AreLatest(latest, OutcomesOf(c))
  BY <1>1, CategoryFacts, SliceIsLatest DEF RecentOutcomes
<1>3. c \in Degraded <=> /\ Cardinality(latest) >= MinimumOutcomes
                         /\ TotalError(latest) > MaxMae * Cardinality(latest)
  BY DEF Degraded, IsDegraded
<1> HIDE DEF latest
<1>4. latest \in SUBSET PredictionOutcomes
  BY <1>1, <1>2
<1>5. /\ (\A i \in latest : Error(i) > MaxMae) /\ latest # {} =>
           TotalError(latest) > MaxMae * Cardinality(latest)
      /\ (\A i \in latest : Error(i) <= MaxMae) =>
           ~(TotalError(latest) > MaxMae * Cardinality(latest))
  BY <1>4, ErrorsAgainstTheThreshold
<1>6. Cardinality(latest) \in Nat /\ (Cardinality(latest) >= MinimumOutcomes => latest # {})
  BY <1>4, CategoryFacts, FS_EmptySet, Settings
<1>7. Cardinality(latest) < MinimumOutcomes => ~(Cardinality(latest) >= MinimumOutcomes)
  BY <1>6, Settings
<1> QED
  BY <1>2, <1>3, <1>5, <1>6, <1>7

\* The last point of the trend is the error of the only category.
LEMMA TrendAgrees == MeasuresTypeOK => TrendAgreesWithTheAlert
<1> SUFFICES ASSUME MeasuresTypeOK, NEW c \in Categories, NEW i \in PredictionOutcomes,
                    Categories = {c}, \A j \in PredictionOutcomes : j <= i
             PROVE  LET last == RollingErrorTrend[i]
                    IN c \in Degraded <=> /\ last.count >= MinimumOutcomes
                                          /\ last.error > MaxMae * last.count
  BY DEF TrendAgreesWithTheAlert
<1>1. OutcomesOf(c) = PredictionOutcomes
  BY DEF OutcomesOf, Categories
<1>2. RollingSlice(PredictionOutcomes, i) = RollingSlice(PredictionOutcomes, Len(recorded))
  <2>1. \A j \in PredictionOutcomes : j <= i /\ j <= Len(recorded)
    BY OutcomeFacts
  <2>2. \A j : {k \in PredictionOutcomes : j < k /\ k <= i} =
               {k \in PredictionOutcomes : j < k /\ k <= Len(recorded)}
    BY <2>1
  <2> QED
    BY <2>1, <2>2 DEF RollingSlice
<1> DEFINE slice == RollingSlice(PredictionOutcomes, i)
<1>3. RollingErrorTrend[i] = [count |-> Cardinality(slice), error |-> TotalError(slice)]
  BY DEF RollingErrorTrend
<1>4. RecentOutcomes(c) = slice
  BY <1>1, <1>2 DEF RecentOutcomes
<1> HIDE DEF slice
<1>5. c \in Degraded <=> /\ Cardinality(slice) >= MinimumOutcomes
                         /\ TotalError(slice) > MaxMae * Cardinality(slice)
  BY <1>4 DEF Degraded, IsDegraded
<1> QED
  BY <1>3, <1>5

\* Whatever is added up over the outcomes may be added up category by category.
LEMMA CategoriesSumUp ==
    ASSUME MeasuresTypeOK, NEW F \in [PredictionOutcomes -> Int]
    PROVE  Total([c \in Categories |-> Over(OutcomesOf(c), F)]) = Total(F)
<1> DEFINE g == [i \in PredictionOutcomes |-> Category(i)]
           S == PredictionOutcomes
           C == Categories
<1>1. IsFiniteSet(S)
  BY OutcomeFacts
<1>2. IsFiniteSet(C) /\ \A i \in S : g[i] \in C
  <2>1. C = {g[i] : i \in S}
    BY DEF Categories
  <2>3. g = [i \in S |-> g[i]]
    BY DEF g
  <2> HIDE DEF g, S, C
  <2>2. IsFiniteSet({g[i] : i \in S})
    <3>1. g \in Surjection(S, {g[i] : i \in S})
      BY <2>3 DEF Surjection
    <3> QED
      BY <1>1, <3>1, FS_Surjection
  <2> QED
    BY <2>1, <2>2
<1>3. \A c : {i \in S : g[i] = c} = OutcomesOf(c)
  BY DEF OutcomesOf
<1> HIDE DEF g, S, C
<1>4. F \in [S -> Int]
  BY DEF S
<1>5. Total([c \in C |-> Over({i \in S : g[i] = c}, F)]) = Total(F)
  BY <1>1, <1>2, <1>4, ClassesSumUp
<1> QED
  BY <1>3, <1>5 DEF C

\* The performance of the whole is that of its parts, field by field.
LEMMA PartsHold == MeasuresTypeOK => PartsMakeTheWhole
<1> SUFFICES ASSUME MeasuresTypeOK PROVE PartsMakeTheWhole
  OBVIOUS
<1> DEFINE S == PredictionOutcomes
           One == [i \in S |-> 1]
           Err == [i \in S |-> Error(i)]
           Squ == [i \in S |-> Error(i) * Error(i)]
           Cov == [i \in S |-> IF Covered(i) THEN 1 ELSE 0]
<1>1. One \in [S -> Int] /\ Err \in [S -> Int] /\ Squ \in [S -> Int] /\ Cov \in [S -> Int]
  BY OutcomeFacts
<1>2. ASSUME NEW T \in SUBSET S
      PROVE  /\ PerformanceMetrics(T).count = Over(T, One)
             /\ PerformanceMetrics(T).error = Over(T, Err)
             /\ PerformanceMetrics(T).squares = Over(T, Squ)
             /\ PerformanceMetrics(T).covered = Over(T, Cov)
  <2>1. /\ [i \in T |-> Err[i]] = [i \in T |-> Error(i)]
        /\ [i \in T |-> Squ[i]] = [i \in T |-> Error(i) * Error(i)]
        /\ [i \in T |-> Cov[i]] = [i \in T |-> IF Covered(i) THEN 1 ELSE 0]
    OBVIOUS
  <2>2. Over(T, One) = Cardinality(T)
    <3> DEFINE f == [i \in T |-> One[i]]
    <3>1. f \in [T -> Int] /\ \A i \in T : f[i] = 1
      OBVIOUS
    <3>2. IsFiniteSet(T) /\ Cardinality(T) \in Nat
      BY CategoryFacts
    <3> HIDE DEF f
    <3>3. Total(f) = 1 * Cardinality(T)
      BY <3>1, <3>2, TotalBounds
    <3> QED
      BY <3>2, <3>3 DEF Over, f
  <2> QED
    BY <2>1, <2>2 DEF PerformanceMetrics, TotalError, Over
<1>3. \A c \in Categories : OutcomesOf(c) \in SUBSET S
  BY DEF OutcomesOf
<1>4. /\ Over(S, One) = Total(One) /\ Over(S, Err) = Total(Err)
      /\ Over(S, Squ) = Total(Squ) /\ Over(S, Cov) = Total(Cov)
  BY <1>1, OverAll
<1> HIDE DEF One, Err, Squ, Cov
<1>5. \A c \in Categories :
        /\ PerCategory[c].count = Over(OutcomesOf(c), One)
        /\ PerCategory[c].error = Over(OutcomesOf(c), Err)
        /\ PerCategory[c].squares = Over(OutcomesOf(c), Squ)
        /\ PerCategory[c].covered = Over(OutcomesOf(c), Cov)
  BY <1>2, <1>3 DEF PerCategory
<1>6. /\ Overall.count = Total(One) /\ Overall.error = Total(Err)
      /\ Overall.squares = Total(Squ) /\ Overall.covered = Total(Cov)
  BY <1>2, <1>4 DEF Overall
<1>7. /\ Overall.count = Total([c \in Categories |-> PerCategory[c].count])
      /\ Overall.error = Total([c \in Categories |-> PerCategory[c].error])
      /\ Overall.squares = Total([c \in Categories |-> PerCategory[c].squares])
      /\ Overall.covered = Total([c \in Categories |-> PerCategory[c].covered])
  <2>1. /\ [c \in Categories |-> PerCategory[c].count] = [c \in Categories |-> Over(OutcomesOf(c), One)]
        /\ [c \in Categories |-> PerCategory[c].error] = [c \in Categories |-> Over(OutcomesOf(c), Err)]
        /\ [c \in Categories |-> PerCategory[c].squares] =
             [c \in Categories |-> Over(OutcomesOf(c), Squ)]
        /\ [c \in Categories |-> PerCategory[c].covered] =
             [c \in Categories |-> Over(OutcomesOf(c), Cov)]
    BY <1>5
  <2>2. /\ Total([c \in Categories |-> Over(OutcomesOf(c), One)]) = Total(One)
        /\ Total([c \in Categories |-> Over(OutcomesOf(c), Err)]) = Total(Err)
        /\ Total([c \in Categories |-> Over(OutcomesOf(c), Squ)]) = Total(Squ)
        /\ Total([c \in Categories |-> Over(OutcomesOf(c), Cov)]) = Total(Cov)
    BY <1>1, CategoriesSumUp
  <2> QED
    BY <1>6, <2>1, <2>2
<1> QED
  BY <1>7 DEF PartsMakeTheWhole

-----------------------------------------------------------------------------
(* Measurements: the theorems.                                             *)

\* Whatever is predicted and recorded, in whatever order: no metric divides by zero, an
\* interval covers what is within the uncertainty, the categories add up to the whole, and
\* the trend and the alert of monitoring say the same.
THEOREM MeasuresMeanSomething == MeasuresSpec => []MeasuresInv
<1>1. MeasuresTypeOK => MeasuresInv
  BY TrendAgrees, PartsHold, MetricsHold DEF MeasuresInv
<1> QED
  BY <1>1, MeasuresAreTyped, PTL

\* The alert of a category is what its latest outcomes make of it, for every window,
\* threshold and minimum.
THEOREM AlertsAreWhatOutcomesSay == MeasuresSpec => []AlertsFollowTheLatestOutcomes
  BY AlertsFollow, MeasuresAreTyped, PTL
=============================================================================
