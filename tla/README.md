# Verification of the fuel predictor

TLA+ models of the fuel-predictor application, the TLC configurations that check
them on small instances, and TLAPS proofs of the theorems about them. Paths below
are relative to the application's package, `src/fuel_predictor/`, unless they start
with `docs/` or `README`.

## The system

One uvicorn process serves Indonesian-language pages, a REST API and an MCP endpoint
over one PostgreSQL database and one directory of retained model packages. How its
handlers run decides which interleavings exist:

- endpoints declared `def` run in a thread pool, so any two of them interleave between
  transactions;
- `async def` handlers (`POST /mcp`, sign-in and sign-out, the account form, package
  upload, the agent pages, the operation and actual-fuel forms, spreadsheet uploads and
  dataset imports, the session middleware) await only their body: while one of them
  works the event loop dispatches nothing, but the pool threads go on;
- every repository method is one short transaction at READ COMMITTED;
- the CLI of `__main__.py` (monitoring and alert delivery, package pruning, catalogue
  imports, backup records, seeding) runs as separate processes, started by cron or an
  operator, that share the database and the directory.

| Component | State | What is hard | Where it is modelled |
|---|---|---|---|
| Model version repository | `model_versions` rows: lifecycle, `promoted_at`, `retired_at` | interleaved statements, cycles of waits, refused flushes, lost commits | `ModelVersionRepository`, `ActiveVersionRegister` |
| Activation, resident model | the holder, the activation lock | order of commits and swaps, failures half-way, restarts | `ModelActivation`; what is loaded: `Packages` (partly) |
| Promotion, comparison | none | bypasses the holder; reads cases back from the tables | `ModelActivation`, `Operations` (partly) |
| Package upload, artefact store | a directory per version | file-by-file writes, restarts between steps | `Packages`, `PackageRetention`, `ModelActivation` |
| Package validation, promotion policy | validation history | order of the checks, errors that escape | `Packages` (partly) |
| Prediction serving | prediction rows | a swap in the middle of a request | `ModelActivation`, `Operations`, `Measurements` (partly) |
| Privileged agent tools | the confirmation secret | stale readings, replayed tokens | `ModelActivation` |
| Package retention | none | races the serving process from another one | `PackageRetention` |
| Monitoring, alert reconciliation | alerts | overlapping reconciliations, windows | `Alerts`, `Measurements` (partly) |
| Alert delivery | delivery records | failure and death between send and record | `Alerts` |
| Record of scheduled work, health | monitoring and backup runs | late, lost and overlapping records; reads in two transactions | `MonitoringRuns` |
| Identity, sessions, throttle | accounts, sessions, audit trail | check then act across transactions, expiry | `Access` (partly) |
| Agent credentials, MCP server | clients, audit trail | a limit counted from the trail | `AgentAccess` |
| Operations, bulk prediction | operations, sources, predictions | partial failure of a file, routing fallback | `Operations`, `Spreadsheets` |
| Actual fuel | one record per operation | concurrent recording, rows read back | `Operations`, `Measurements`, `Spreadsheets` |
| Historical datasets, seeding | datasets, baselines | whole or nothing; a process that dies | `Operations`, `Spreadsheets` |
| Routing, locations, vehicles | two catalogues | replacement while they are read | `Operations`, `Catalogues` (partly) |
| Dashboards and rendering, SQLite adapters, migrations and scripts | – | – | not modelled, see below |

## Modules

| Module | Contents |
|---|---|
| `ActiveVersionRegister` | the abstract specification: one register holding the active version, every call atomic, activate a compare-and-set |
| `ModelVersionRepository` | the `model_versions` table and the statements of `create`, `promote` and `activate`; `ModelVersionRepositoryProofs` |
| `ModelActivation` | the serving process over the repository: uploads, activations, promotions, agent calls, predictions, restarts; `ModelActivationProofs` |
| `PackageRetention` | the pruning command against the table and the directory that the serving process writes; `PackageRetentionProofs` |
| `Packages` | a package from upload to activation, step by step and file by file; `PackagesProofs` |
| `Access` | accounts, sign-in and its throttle, sessions, the session middleware; `AccessProofs` |
| `AgentAccess` | agent credentials and calls, the rate limit; `AgentAccessProofs` |
| `Alerts` | dashboards, reconciliation, delivery |
| `MonitoringRuns` | what jobs record and what pages and `/sehat` read of it |
| `Catalogues` | imports and lookups of locations and vehicles |
| `Operations` | operations, predictions, recordings, spreadsheets, training, seeding over their tables; `OperationsProofs` |
| `Spreadsheets` | what becomes of one row of each of the three spreadsheets |
| `Measurements` | metrics, rolling trend and degradation as functions of a history |
| `MonitoringAndSheetsProofs` | the proofs of `Alerts`, `MonitoringRuns`, `Catalogues`, `Spreadsheets` and `Measurements`, which share no state |
| `MC...` | small instances: symmetry sets, constant functions, and in `MCJobs` and `MCFunctions` several components that share no state, one per behaviour |

`ModelVersionRepository` is part of `ModelActivation` (it extends it: a request's
transaction is a transaction of the repository), which is part of no other. The other
modules see the repository through what it is proved to implement: a change of the active
version is one step.

### ModelVersionRepository

`rows[v]` is the committed row of a version, timestamps reduced to whether they are
set. `tx[c]` is the transaction of a caller: where it is, its target and expectation,
the row it has locked and retired, whether its target had `retired_at` when it was
loaded, and its outcome. Each caller makes one call, so a caller that retries is
another caller.

One action stands for one SQL statement, because another transaction can run between
any two. `BeginPromote` and `BeginActivate` are the SELECT of the target and the early
returns decided by it; `PromoteScan` and `PromoteRetire` are the two halves of an
UPDATE at READ COMMITTED, the snapshot and the re-evaluation once the row lock is
granted; `ActivateCheckNone` and `ActivateRetire` are the two branches on
`expected_active_version_id`; `FlushAndCommit`, `FlushRefused` and
`CommitUnacknowledged` end a call. The flush takes
two steps, because its UPDATE locks the target row (`LockTarget`) before it waits for the
index entry; the entry and the COMMIT are one: between them every other transaction that
wants either waits, and no reader sees them. `RetiredAtOf` follows the object-relational mapper: assigning
`retired_at = None` to a row that was loaded with NULL writes nothing, so a retirement
committed in between keeps its stamp.

PostgreSQL is outside the source, modelled from how the code relies on it: row locks
(`Locks`, `LockedByOther`), the wait of a unique index for an uncommitted change of its
entry (`IndexHeldByOther`), rollback (`Abort`), a COMMIT whose answer is lost, and deadlock
detection. Waits can form a cycle (`Deadlocked`): d found no active version and is about to
activate v1; e makes v2 active; c promotes v1 and has retired v2; d locks v1 and waits for
the index entry of v2, which c holds, and c waits for d's lock on v1. `DeadlockVictim` ends
one of the two with an error that nobody catches, and without it `EveryCallReturns` fails.

### ModelActivation

Each member of `Callers` is one request: `req[r]` holds its kind, the point it has
reached and what it has read; its transaction is `tx[r]`. A handler is split exactly
where another thread can be observed: at a transaction, at a read of the package
directory, at the lock, at the holder. `EventLoopFree` in `Begin` is the blocked event
loop. `bytes[v]` abstracts a package directory to missing, torn (a re-upload is writing
its members) or intact; `ReadPackage` refuses a torn directory, which is what
`verify_member_checksums` is for. Memory check, load and smoke tests are one step that
succeeds or fails, for the lock is held throughout. `Restart` loses every request, the
holder, the lock and the confirmation secret, and rolls every open transaction back.
`lastActivated` is a history variable: what `activate()` last told a caller of this
process it had made active.

A request of an agent reads the active version twice, in transactions of their own: the
tool reads it to issue or to verify a token (`seen`, in `Preview` and `Confirm`), and the
activation reads it again as what its conditional UPDATE expects (`expected`, in
`ReadExpected`).

A deadlock of two transactions ends in the process like any other `DatabaseError`; the one
above takes more requests than these runs have, and is reached in `repository`.

Left out of the handlers: the validation record that an upload appends (it is in
`Packages`), the prediction row (`Operations`), and audit events other than the rollback
intent, all append-only and read by nothing in this model; the numbers of an estimate.

### PackageRetention

`prune-packages` is a process of its own, so this module looks at the directory file by
file. `lifecycle` and `number` are the status and the autoincremented version of a row,
`directories` and `files` the disk, `upload` the one upload that a coroutine without an
await admits, `loaded` the versions an activation has read and verified but not yet made
active, `prune` what the command has read and still means to delete. `undisturbed` is
history: whether the active version has stayed the same since the command listed the
versions.

The command reads the table twice (`ListVersions`, `ReadActive`), plans (`MakePlan`), and
deletes directory by directory: `BeginDelete` is `is_dir()` and the listing of the
members, `Unlink` one of them, `RemoveDirectory` the `rmdir()` that fails on a directory
an upload has written into. An upload is `MakeDirectory`, then `OpenMember` (truncate or
create) and `WriteMember` for each file, then `RegisterPackage`; a file unlinked while it
is open is written to no avail. `ReadPackage` takes the reading of all members and their
verification as one step. `Restart` and `PruneStops` lose either process at any point and
leave the disk as it is.

### Packages

A package (`pkg[u]`) is its version, the format of its artefact, the layout of its
members, a metric, whether it was tested enough, and at most one fault, drawn from all
those the steps of `ValidateModelPackage` tell apart; a fault of the archive, of the
manifest, of a checksum, of the statistics or of the smoke tests is refused by the step
that looks for it, and the `UncaughtFaults` are those whose error is not a
`ModelPackageValidationError`. `stage[u]` walks through `Steps`, the order in the code.
`dirs[v]` maps file names to bytes, and bytes remember the package and the member they
came from, so that `Verifies` (the checksums) and what `Activate` loads can be judged after
any overwriting: `StoreMember` writes one member under its base name, which is how members
in directories collide. An activation runs in a thread of the pool while an upload writes:
`StartReading` lists the directory, `ReadMember` reads one file after another, each as it
was last written or cut short if it is about to be written, and `Activate` verifies and
loads what was read. `records` are the rows of the history page.

### Access

`req[r]` is one request on its way through the middleware (`Arrive`, `Body`) and its
handler. Sign-in takes a step for each transaction (`CountFailures`, `Verify`,
`OpenSession`, `AuditSignIn`) because the clock goes on between them: the throttle counts
failures in `audit` from the moment the request began. `POST /pengguna` holds the event
loop and `POST /api/v1/users` does not, hence the race of two `CheckUsername` before
`InsertUser`. `signedIn` is history: who opened a session and whether they left it.
Passwords, token hashes and CSRF values are reduced to whether they match.

### AgentAccess

`call` is the one call that the event loop admits, from `Call` (credential, registry,
scope) through `Limit` and `RunTool` to `RecordCall`; `Limit` counts the records of the
client's name, and a call enters the trail only when it has ended, or, in a transaction
after the count, when it was rejected. `judged`, history, is when it was counted. A tool whose name is
too long for the audit column leaves no record.

### Alerts

`holds` is what the data says, changed by `ConditionChanges`. A dashboard reads the three
kinds of conditions in three transactions (`ReadConditions`), then the rows of the alerts
that hold (`GetRows`), and writes (`CommitAlerts`): `Reconciled` writes what the mapper
writes, which is nothing for a row that was read as open. A job goes on: `RecordRun`,
`ListAlerts`, `CompareOutstanding`, then `Send`, `SendFails`, or `SendTimesOut` when the
message arrived and the job hears of an error, then one transaction per key in `RecordSent`
and `Clear`. `OutcomesAreKnown` excludes timeouts and deaths where the code repeats or
forgets after one: a message that was told and not recorded is sent again, and a condition
that returns after an unrecorded message that it is over is not told. `told` is history: what the operators last heard.

### MonitoringRuns and Catalogues

A job ends (`FinishJob`), then stores its run (`StoreRun`) or dies before it does
(`LoseRun`), and jobs overlap; a view reads the last run, the last success and the last
backup one by one, and `Judge` is the verdict. A catalogue import is one transaction:
`DeleteRows` locks what it sees, or waits for whoever holds it (`ResumeDelete`), and
`ReplaceRows` inserts and commits, or conflicts. A vehicle is looked up in two
transactions (`ReadOptions`, `Find`), a stop in one.

### Operations

`jobs[r]` is a request: its kind, where it is, the row it is at, what it made. Every
repository call is a step: an operation is created (`CreateOperation`, `PlanRow`), its
source added (`AddSource`), the model read (`ReadModel`), the prediction saved
(`SavePrediction`), fuel checked and inserted (`StartRecording`, `InsertActual`); files go
row by row and hold the event loop; a dataset is one transaction at the end
(`EndUpload`); `StartTraining`, `Fit` and `CreateBaseline` train; `seed-demo` is a process of
its own over the same use cases. The provider's answer decides `Planned`: measured in the
planner's order, or the manual fallback. `Fail` and `Crash` end a request anywhere.

### Spreadsheets and Measurements

A row of a spreadsheet maps the fields an importer looks for to classes of cells (absent,
unknown, a number by its sign, ...). `Issues` follows the importer's checks and the
domain's; the report names fields, and `Correct` is a planner who mends exactly those. The cells that no
importer looks for matter twice: for whether a row is blank, and because the importer of
actual fuel, in a sheet without a column for the measurement source, looks its cell up
under the empty header (`StrayIsRead`).

Measurements keep sums and counts instead of quotients, so that means are compared without
dividing. An outcome is named by its place in `recorded`, the order of `recorded_at` in
which both functions of monitoring sort them, so that a slice of a list is a set of places
(`RollingSlice`: those that fewer than a window of others follow) and `sum()` is `Total`, a
sum over a finite set. `RecentOutcomes`, `RollingErrorTrend`, `PerformanceMetrics` and
`IsDegraded` are the code's computations over them.

## Runs

| Run | Instance | What it shows |
|---|---|---|
| `repository` | 2 versions, 3 callers, fair | `RepoInv`, `AtMostOneActive`, `ActiveNeverLost`, the refinement `ImplementsRegister`, `EveryCallReturns` |
| `activation` | 2 packages and an in-process model, 4 requests of every kind but REST promotions, 1 restart | `ActivationInv`, `ResidentIsLastActivated`, `ChangesAreConfirmed`, `RollbacksAreRecorded`, `PredictionsAreAttributed` |
| `liveness` | a package and an in-process model, 3 requests (uploads, promotions by form and REST, agents' activations), 1 restart, fair | `RequestsComplete` |
| `jobs` | pruning: 2 packages of 2 files, an in-process model, 1 retired version to keep; runs: 2 jobs, allowance 1, clock to 2; catalogues: 3 imports of 3 names, two of them twins; agents: 2 credentials, 2 names, 2 calls in a window of 1, clock to 2, 4 records, 1 restart | `OnlyServedVersionsArePruned`, `UndisturbedActiveIsKept`, `UndisturbedRetiredAreKept`, `CandidatesKeepTheirBytes`; `RunsInv`, `NoFalseAlarm`; `CataloguesInv`, `KnownVehiclesAreFound`; `AgentInv`, `RunsAreBounded` |
| `packages` | 2 uploads, 2 versions, every fault, 1 activation at a time, 1 restart | `PackagesInv`, `ResidentIsOnePackage`, `AcceptedCanBeActivated` |
| `access` | 2 usernames, 1 session token, 4 requests, 2 failures allowed in a window of 1, lifetime 2, idle 1, clock to 2 | `AccessInv`, `GuessesAreBounded`, `CallersAreAuthentic`, `IdleSessionsStayEnded` |
| `alerts` | a missing actual and a model condition, a page, the job, 1 crash, 1 timeout, fair | `AlertsInv`, `NothingIsRepeated`, `AlertsBecomeAccurate`, `OperatorsBecomeInformed` |
| `operations` | 3 requests, 2 operations, files of up to 2 rows, 1 restart | `OperationsInv`, `DistancesAreAttributed`, `RecordedFuelIsKept`, `BatchesLeaveAtMostOneOrphan` |
| `functions` | every row of three spreadsheets by classes of cells; 4 operations in 2 categories, window 2, litres to 2 | `RowsInv`, `CorrectionsConverge`; `MeasuresInv`, `AlertsFollowTheLatestOutcomes` |

The properties that carry a name ending in `Inv` are conjunctions of the module's type
invariant and of named statements about one table or one answer, each with its own
comment: for instance `PackagesInv` is `TypeOK`, `NothingUnverifiedIsLoaded`,
`OnlySoundPackagesAreKept`, `RecordsAreTrue` and `AnswersAreRecorded`.

### Why the bounds are enough

- *Repository.* Three callers are what a conflict, a refused flush, a third party's
  retirement and a deadlock need, two versions the least that can contend.
- *Activation.* An activation needs an upload first, so four requests give two packages
  and two activations that race, with a restart anywhere among them, or an in-process
  model that answers a prediction while a package is activated over it. A promotion
  through REST differs from one through the form only in that it takes packages too; it
  is in `liveness` and in `resident_after_promotion`, and in the proofs. `liveness` leaves
  out the requests that wait for nothing (predictions) and rollbacks, which after their
  audit entry are activations.
- *Pruning.* Three versions let one be active, one be kept and one be pruned; two files
  are the least an upload can leave half written. Re-uploads, activations and prunings
  are not bounded.
- *Runs, catalogues.* Two jobs overlap and are stored in either order, and a clock of two
  passes the allowance; three imports let two wait for one another while a third has
  committed, and the sheets {here, there}, {here, Here, there}, {there} contain the twins,
  a name that comes and goes, and a name that all share.
- *Packages.* Two uploads of one version overwrite each other and of two versions do
  not; a package has any layout, or either format and either metric, or any one fault. One
  activation reads at a time: whether what it has read fits together is a question about it
  and the uploads alone.
- *Access, agents.* The windows are as long as one tick, so both an old record at the
  edge and one that has left occur; two failures, or two calls, are the least that can
  overlap at the limit; four requests are two sign-ins racing two others. One token is
  enough because sessions are told apart by it alone.
- *Alerts.* Page and job overlap in every way that two dashboards can. Conditions change
  without bound, in both directions.
- *Operations.* Three requests are two that race and one that fails, or a file and two
  requests for its operations; two rows let a file die between them.
- *Functions.* The classes of cells are those between which some check distinguishes;
  four operations fill a window of two and slide past it, and leave one for another
  category.

Callers, requests, versions, packages and credentials are interchangeable, so safety runs
use symmetry; the runs with temporal properties under fairness do not. Deadlock is not
checked where each caller makes one call and the system stops when all have (that none waits
for ever is `EveryCallReturns` and `RequestsComplete`), or where the clock, the records or the inputs end; it is checked in `alerts`, whose job runs for
ever.

### Fairness

`FairRepoSpec` assumes that a statement that can run does (its thread is scheduled,
PostgreSQL grants a free lock and ends a deadlock); `FairSpec` of `ModelActivation` assumes the same of each
request. `Acquire` is covered by weak fairness alone: with finitely many requests the lock
is finally contended by one. `FairSpec` of `Alerts` assumes that cron starts the job again
and again and that its steps go on (weak), and that storing a run and sending a message
succeed if they are tried for ever (strong: a channel that never recovers informs nobody).
`CorrectionsConverge` assumes that the planner goes on correcting and uploading. No
fairness is assumed of requests, pages, failures, crashes or the data.

### Where the documents and the code differ

| Run | Sentence | Behaviour |
|---|---|---|
| `resident_after_promotion` | `README.md:178`, promotion retires the previously active model | the retired package stays resident and serves |
| `stale_confirmation` | `delivery/mcp_privileged.py:13-16` and ADR 0010, lines 37–40: activation and rollback carry the caller's reading, so that a stale one loses instead of overwriting a change it never saw | the reading that the confirmation was checked against is dropped and the active version read again (`application/retained_package_activation.py:201`): a change committed between the two is replaced |
| `unreadable_cases` | `README.md:183`, candidates are compared with the active model on the operations that have actual fuel | one such operation whose distance fell back to the planner's cannot be read back (`infrastructure/sqlalchemy_actual_fuel.py:84` builds it without its stops, which the domain refuses), and every comparison fails |

Others the models show, for which no run is kept:

- a version that is retired while its promotion waits is promoted all the same, against
  `README.md:180`; a package that was active is not resident after a restart, against
  ADR 0010, lines 69–70;
- a version that becomes active after the plan was made is pruned
  (`tests/test_package_retention.py:75` says it never is), and retired versions are kept by
  their number, not by when they were retired, so the version that a rollback would return
  to may go (ADR 0010, line 73);
- two calls with one target may end in a deadlock, of which one caller sees an
  `OperationalError` and not the conflict that `infrastructure/sqlalchemy_predictions.py:112-119`
  describes;
- a row of actual fuel that is complete comes back when the sheet has no column for the
  optional source and something strays under an empty header
  (`application/bulk_actual_fuel.py:166`);
- a message whose channel answered too late is sent again;
- a crash in a re-upload of a candidate leaves a row whose bytes cannot be loaded
  (`application/retained_package_activation.py:65`), and so do members left over from an
  earlier upload or members in directories (`infrastructure/model_artifact_store.py:40`);
- an upload whose loader raises anything but a validation error leaves no record
  (`application/model_package_records.py:3`);
- the bundled list of stops has two pairs that differ only in case
  (`lokasi-angber.csv:1103-1106`): looking one up raises, so their distances are always the
  planner's; imports of sheets without a common name would merge;
- a minimum of outcomes above the rolling window never alerts; a prediction made after
  the measurement is judged like any other; a monitor that never succeeded is unknown to
  `/sehat` for ever;
- a credential that gets the name of a revoked one inherits its calls; a file submitted
  again creates its operations again; `predict_fuel` leaves its operation when there is no
  model; a seed that failed leaves a dataset that the next one does not find.

## Proofs

TLAPS checks every theorem, for all values of the constants. Every invariant and every
action property of the passing runs, and the refinement, is a theorem. Each rests on an
inductive invariant that is stronger than what the runs check; they are defined in the
`...Proofs` modules, beside the argument that needs them.

*Assumptions.* A `None` is neither a member of the set it is added to nor a value of the
kind it stands in for (`NoneIsNo...`, `NoneIsNeither`, `NobodyImports`); limits, windows,
thresholds and bounds are natural numbers; the subsets that a module takes (`Packages`,
`Kinds`, `Granted`, `Called`) are subsets. Those with content: the versions of
`PackageRetention` and the jobs of `Alerts` are finitely many, `FailuresAreAllowed` (a
throttle of zero admits nobody), `SheetsShareNames` (two exports of one catalogue have some
name in common; sheets that have none would merge), a window and a minimum of outcomes are
positive, and `MaxRows` is at least two, for it is also the length of the bundled history,
which is enough to train on.

*Repository.* `AtMostOneActive` is not inductive: a commit is safe only because of what
the transactions hold. `RepoInv` adds that a transaction which retired a row holds the
active row and is about to flush (`RetiringRowIsActive`), that no two do
(`RetiringIsExclusive`), and what a record says at each point (`TransactionsAgree`).
The key lemma is `WrittenRows`: a flush that the index accepts leaves the target as the
one active row. From it follow `RepositoryInvariant`, `OneActiveVersion`,
`StampsTellTheLifecycle` (a conjunct of `RepoInv`), the action property
`SomeVersionStaysActive`, and `RepositoryImplementsRegister`: the linearisation point is
the commit for a write, the failed statement for a conflict, the first SELECT for a
refusal or an idempotent success.

*Serving process.* `ProcessRunsRepository` shows that every behaviour of the process is
a behaviour of the repository, so the theorems above hold in it. `ActivationInv` ties the
lock to the request that is activating and the holder to the history: no swap is pending
and the two agree, or the pending swap is of the last version confirmed. Two lemmas
carry the induction, `QuietStep` for requests outside the sequence and `LockedStep` for
the one inside: while it holds the lock no other swap can be pending. From it follow
`ResidentModelFollowsTheDatabase` and `OneActivation`.

Three statements are about requests that ended long before: who previewed a change, which
rollback was announced, which version was ever active. `HistoryInv` says of each request
what it remembers of them (`Remembers`), of each token that some request previewed it, and
of the holder that its version has been active. That no step takes such a fact back is one
lemma about `Kept` (stamps are never cleared, the audit trail only grows, a finished
request stays as it ended), so each action has only to show what it adds.
`PredictionsAttributed`, `ChangesConfirmed` and `RollbacksRecorded` follow, the second
because a restart that forgets the tokens leaves the previews answered.

*Retention.* `OnlyServedVersionsArePruned` needs that what the command listed as having
served has served ever since (`ListingStaysServed`, for no step makes a served version
unserved), that its plan holds only such versions (`PlanIsListed`), and for the active
version that the command's own reading of it is spared (`PlanSparesActive`); `PruneInv`
is their conjunction. `BytesInv` adds what an upload has stored so far, and that the
version being deleted is in the plan, hence has served: so `Unlink` and `RemoveDirectory`
cannot touch a candidate. From the two follow `CandidatesAreSafe`,
`ActiveIsSafeUndisturbed` and `CandidateBytesStay`. `RetiredAreSafeUndisturbed` says which
retired versions stay: one is in the plan only if `KeepRetired` retired ones of a greater
number are not, the order in which `tests/test_package_retention.py:97-110` expects them. The
plan spares each version that fewer than `KeepRetired` newer ones precede, and
`NewestAreEnough`, applied to those newer than the one that goes (`NewerAreEnough`), shows
that they are as many as were asked for. It takes a least element at a time (`LeastNat`), which is how an induction is done where an induction
theorem cannot be instantiated.

*Packages.* `StoreInv` says of an upload that its package has none of the faults that the
checks behind it find (`UploadAgrees`), that one upload at a time is being stored, and of a
directory that each of its files comes from a sound upload of that version
(`DirectoryAgrees`), and so does each file that an activation has read (`ReadingAgrees`),
which is what makes overwriting harmless, before or during the reading: whatever mixture
verifies is of one package (`ResidentIsWhole`). `UploadsLeaveNothing` is `PackagesInv`.
`AcceptedIsActivatable` needs besides which files are the last upload's: those it has
stored, as soon as it has stored them, until another upload of the version begins.

*Identity.* `IdentityInv` holds what a request has found out to be true still when it acts
on it (`RequestAgrees`), which rests on one coroutine at a time being between two awaits
(`LoopAgrees`): the count that a sign-in took stays an upper bound until its own failure is
recorded, because no other sign-in runs meanwhile (`ThrottleHolds`). Of the creations of an
account only the one that inserted its row goes on to record it (`TablesOfIdentity`).
`CallersOpenedTheirSessions` and `IdleSessionsEnd` are action properties over the same
invariant.

*Agents.* `CallsInv` says that a call which has been let through is still below the limit:
nothing is recorded before it is. A record extends the set that a window
counts by one, and every window that holds the new record is one the limiter counted
(`LimitHolds`); `ActorsAreToldApart` adds the uniqueness of active names, and that a rejection
follows a full limit at the moment it was judged.

*Operations.* `TablesInv` relates the record of each request to the rows it has made
(`JobAgrees`): the operation it is working on is the only one of its own without a
prediction, its dataset is stored once, after its last row, and what it fits is a dataset
of two rows or more. Each action
of a request is shown to keep its own record and, through what no step takes back (`Kept`
of that module), everyone else's. `TablesKept`, `DistancesAttributed`, `RecordedFuelKept`
and `BatchesLeaveOneOrphan` follow, for any number of requests and of rows up to any bound.

*Scheduled work, catalogues, alerts.* `RecordInv`: a table that is not empty has a latest
row, and what a request has read is no older than what was there when it came, so the
verdict follows from a row that is new enough (`RecordIsKept`, `AlarmsAreTrue`). `SheetsInv`:
an import that has deleted, has deleted all of the catalogue or nothing, and one import at a
time has; because sheets share a name, a second one that sees the first's rows must wait or
conflict (`CatalogueIsTheSheet`, `VehiclesAreFound`). `DeliveryInv`: what is recorded as told,
or is about to be, was told; and while one job delivers and outcomes are known, what was told is
recorded or about to be (`OneJobKeepsUp`), whence `MarksAreTrue` and `AlertsAreToldOnce`.

*Functions.* `RowsAreUnderstood` is a case analysis over the classes of cells and covers
every combination of them, where the run takes rows that differ from a good one in two
cells. It says which row is quarantined although it is complete: that of `StrayIsRead`, and
no other. `MeasuresMeanSomething` and `AlertsAreWhatOutcomesSay` cover histories of any length.
They rest on sums over finite sets: `TotalSumsUp` (the fold is a sum in some order),
`AnyElementFirst` (any element may be taken first, hence in every order), `TotalBounds` (a sum
of terms above a threshold is above its multiple) and `ClassesSumUp` (the sums of the classes
of a partition add up), each proved from a smallest counterexample; and `SliceIsLatest`: the
places that fewer than a window of others follow are the latest, and as many as the window
holds.

*Only model-checked.* The liveness properties `EveryCallReturns`, `RequestsComplete`,
`AlertsBecomeAccurate`, `OperatorsBecomeInformed` and `CorrectionsConverge`: they rest on
fairness and ENABLED, for which the prover has no rule. The three properties of the violation
runs are false.

## Not modelled

- Dashboards, rendering and navigation: read-only pages; who may see them is in `Access`.
- `SetUserActivation`, `ChangePassword` and `RollbackModelVersion`: use cases that no route
  or command reaches. The SQLite adapters of earlier versions: the composition root builds
  none of them.
- The numbers: the regression and its features, which features drift (Evidently's), the
  wording of remediations and messages, password hashing, the parsing of CSV and XLSX
  bytes. The metrics that a promotion compares with the active model's: an upload never
  passes any.
- A package with two faults at once; a negative `--keep-retired`; the aliases under which
  one vehicle is known.
- The schema's history (`alembic`), and the backup and restore scripts but for the outcome
  they record.

## What is left

1. `EvaluationsAreAnswered`, `ResidentModelIsActive` and `StaleReadingsLose` are false of the
   code. What is true in place of the first two (a comparison is answered while no recorded operation fell back; after an
   activation and until the next promotion the resident model is the active one) is not
   stated.
2. `CorrectionsConverge` as a step property: a row that is corrected is accepted when it is
   uploaded again. Its liveness form is checked by TLC.
3. `AlertsBecomeAccurate` for two jobs at once, and a package with several faults.
