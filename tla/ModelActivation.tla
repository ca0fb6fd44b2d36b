--------------------------- MODULE ModelActivation ---------------------------
(***************************************************************************)
(* The serving process: the resident model (ActiveModelHolder), the ADR    *)
(* 0010 activation sequence, the promotion path that bypasses it, the      *)
(* agent's preview-and-confirm calls, package upload and prediction, over  *)
(* the transactions of ModelVersionRepository.                             *)
(*                                                                         *)
(* Each request is one handler call and takes one step per point at which  *)
(* another thread can be seen: a database transaction, a read of the       *)
(* package directory, the activation lock, a read or write of the holder.  *)
(* Form, REST and prediction endpoints run in the thread pool and          *)
(* interleave freely; upload and MCP handlers are coroutines that never    *)
(* await while they work, so while one of them is under way the event loop *)
(* dispatches nothing.                                                     *)
(***************************************************************************)
EXTENDS ModelVersionRepository, Naturals

CONSTANTS
    Packages,      \* the versions built elsewhere and uploaded as packages;
                   \* the others are trained in process and kept by MLflow
    Kinds,         \* the kinds of request the environment makes
    MaxRestarts    \* bound on the restarts of the process

Async == {"upload", "mcp_activate", "mcp_rollback"}

AllKinds == {"web", "rest", "predict"} \cup Async

ASSUME NoneIsNoCaller == None \notin Callers
ASSUME PackagesAreVersions == Packages \subseteq Versions
ASSUME KindsAreKinds == Kinds \subseteq AllKinds
ASSUME RestartsAreCounted == MaxRestarts \in Nat

VARIABLES
    holder,         \* version of the resident LoadedModel (one immutable pair), or None
    lock,           \* the request that holds activation_lock, or None
    bytes,          \* the retained directory of each package
    tokens,         \* confirmations issued under the secret of this process
    audit,          \* rollback intents in the audit trail
    req,            \* the state of each request
    restarts,
    lastActivated   \* history: what activate() last made, or confirmed, active
                    \* in the life of this process

processVars == <<holder, lock, bytes, tokens, audit, req, restarts, lastActivated>>
vars == <<rows, tx, holder, lock, bytes, tokens, audit, req, restarts, lastActivated>>

-----------------------------------------------------------------------------
(* Requests.                                                               *)

Tokens == [op : {"mcp_activate", "mcp_rollback"}, version : Versions, expected : VersionOrNone]

NoToken == [op |-> "none", version |-> None, expected |-> None]

PCs == {"idle", "route", "promote_get", "promote", "lookup", "read", "expect", "acquire",
        "load", "persist", "transaction", "health", "confirm", "record", "validate",
        "write", "register", "resident", "active", "answer", "save", "done"}

Results == {"none", "lost", "rejected", "accepted", "confirmation_required", "storage_error",
            "package_invalid", "load_failed", "unhealthy", "no_model", "predict_failed",
            "predicted"} \cup Outcomes

Requests ==
    [kind : AllKinds \cup {"none"}, pc : PCs,
     version : VersionOrNone,            \* the version asked for, or serving a prediction
     seen : VersionOrNone,               \* the active version that the agent's tool read
     expected : VersionOrNone,           \* the one that the activation read, later
     token : Tokens \cup {NoToken},      \* confirm_token as supplied
     answer : VersionOrNone,             \* the version whose predictor gave the estimate
     result : Results]

NoRequest == [kind |-> "none", pc |-> "idle", version |-> None, seen |-> None,
              expected |-> None, token |-> NoToken, answer |-> None, result |-> "none"]

UnderWay(r) == req[r].pc \notin {"idle", "done"}

EventLoopFree == \A r \in Callers : UnderWay(r) => req[r].kind \notin Async

At(r, pc) == req[r].pc = pc

Begin(r, kind, pc, v, t) ==
    /\ At(r, "idle")
    /\ kind \in Kinds
    /\ EventLoopFree
    /\ req' = [req EXCEPT ![r] = [NoRequest EXCEPT !.kind = kind, !.pc = pc, !.version = v, !.token = t]]
    /\ UNCHANGED <<repoVars, holder, lock, bytes, tokens, audit, restarts, lastActivated>>

Move(r, pc) == req' = [req EXCEPT ![r].pc = pc]

Reply(r, result) == req' = [req EXCEPT ![r].pc = "done", ![r].result = result]

Retained(v) == v \in Packages /\ bytes[v] # "missing"

\* The handler's own steps that touch neither the table nor the process state.
Local == UNCHANGED <<repoVars, holder, lock, bytes, tokens, audit, restarts, lastActivated>>

Init ==
    /\ RepoInit
    /\ holder = None
    /\ lock = None
    /\ bytes = [v \in Packages |-> "missing"]
    /\ tokens = {}
    /\ audit = {}
    /\ req = [r \in Callers |-> NoRequest]
    /\ restarts = 0
    /\ lastActivated = None

-----------------------------------------------------------------------------
(* Candidates: in-process training, and package upload.                    *)

\* POST .../baseline-candidates: MLflow keeps the model, then the row is created.
Train(v) ==
    /\ v \notin Packages
    /\ Create(v)
    /\ UNCHANGED processVars

StartUpload(r, v) == v \in Packages /\ Begin(r, "upload", "validate", v, NoToken)

UploadRejected(r) == At(r, "validate") /\ Reply(r, "rejected") /\ Local

\* store() writes the members one by one into the directory of the version,
\* over whatever an earlier upload left there.
UploadWrites(r) ==
    /\ At(r, "validate")
    /\ bytes' = [bytes EXCEPT ![req[r].version] = "torn"]
    /\ Move(r, "write")
    /\ UNCHANGED <<repoVars, holder, lock, tokens, audit, restarts, lastActivated>>

UploadStored(r) ==
    /\ At(r, "write")
    /\ bytes' = [bytes EXCEPT ![req[r].version] = "intact"]
    /\ Move(r, "register")
    /\ UNCHANGED <<repoVars, holder, lock, tokens, audit, restarts, lastActivated>>

\* RegisterIngestedPackage: an existing row is left as it is.
UploadRegisters(r) ==
    /\ At(r, "register")
    /\ \/ Create(req[r].version)
       \/ rows[req[r].version].status # "absent" /\ UNCHANGED repoVars
    /\ Reply(r, "accepted")
    /\ UNCHANGED <<holder, lock, bytes, tokens, audit, restarts, lastActivated>>

-----------------------------------------------------------------------------
(* The promotion path: PromoteCandidateModel, from the form for a model    *)
(* without retained bytes and from REST for any model.                     *)

StartWeb(r, v) == Begin(r, "web", "route", v, NoToken)

StartRest(r, v) == Begin(r, "rest", "promote_get", v, NoToken)

Route(r) ==
    /\ At(r, "route")
    /\ Move(r, IF Retained(req[r].version) THEN "lookup" ELSE "promote_get")
    /\ Local

PromoteGet(r) ==
    LET status == rows[req[r].version].status IN
    /\ At(r, "promote_get")
    /\ \/ status = "absent" /\ Reply(r, "not_found")
       \/ status = "retired" /\ Reply(r, "not_allowed")
       \/ status \in {"candidate", "active"} /\ Move(r, "promote")
    /\ Local

PromoteBegins(r) ==
    /\ At(r, "promote")
    /\ BeginPromote(r, req[r].version)
    /\ Move(r, "transaction")
    /\ UNCHANGED <<holder, lock, bytes, tokens, audit, restarts, lastActivated>>

\* The holder is not told.
PromoteEnds(r) ==
    /\ At(r, "transaction") /\ tx[r].op = "promote" /\ tx[r].pc = "done"
    /\ Reply(r, tx[r].outcome)
    /\ Local

-----------------------------------------------------------------------------
(* The activation sequence: ActivateRetainedModelPackage.execute and       *)
(* ActivateModelVersion.execute.                                           *)

Lookup(r) ==
    /\ At(r, "lookup")
    /\ IF rows[req[r].version].status = "absent" THEN Reply(r, "not_found") ELSE Move(r, "read")
    /\ Local

\* read_members, the manifest, and verify_member_checksums.
ReadPackage(r) ==
    LET v == req[r].version IN
    /\ At(r, "read")
    /\ \/ ~Retained(v) /\ Reply(r, "storage_error")
       \/ Retained(v) /\ bytes[v] = "torn" /\ Reply(r, "package_invalid")
       \/ Retained(v) /\ bytes[v] = "intact" /\ Move(r, "expect")
    /\ Local

\* The expectation is read here, whoever asked and whatever they expected.
ReadExpected(r) ==
    /\ At(r, "expect")
    /\ req' = [req EXCEPT ![r].pc = "acquire", ![r].expected = ActiveVersion]
    /\ Local

\* Mutant of Acquire: the lock is taken without being waited for.
AcquireWithoutWaiting(r) ==
    /\ At(r, "acquire")
    /\ lock' = r
    /\ Move(r, "load")
    /\ UNCHANGED <<repoVars, holder, bytes, tokens, audit, restarts, lastActivated>>

\* activation_lock, held until the swap or the failure.
Acquire(r) ==
    /\ At(r, "acquire")
    /\ lock = None
    /\ lock' = r
    /\ Move(r, "load")
    /\ UNCHANGED <<repoVars, holder, bytes, tokens, audit, restarts, lastActivated>>

\* Mutant of Load: the lock covers the loading only.
LoadThenUnlock(r) ==
    /\ At(r, "load")
    /\ lock' = None
    /\ Move(r, "persist")
    /\ UNCHANGED <<repoVars, holder, bytes, tokens, audit, restarts, lastActivated>>

\* Memory check, load and smoke tests, all passed.
Load(r) == At(r, "load") /\ Move(r, "persist") /\ Local

\* Mutant of LoadFails: the exception skips the release of the lock.
LoadFailsLocked(r) == At(r, "load") /\ Reply(r, "load_failed") /\ Local

\* One of the three failed: the exception leaves the with-block.
LoadFails(r) ==
    /\ At(r, "load")
    /\ lock' = None
    /\ Reply(r, "load_failed")
    /\ UNCHANGED <<repoVars, holder, bytes, tokens, audit, restarts, lastActivated>>

Won == {"activated", "already_active"}

\* The history variable follows what activate() tells its caller.
RecordActivation(r) ==
    lastActivated' = IF tx'[r].op = "activate" /\ tx'[r].outcome \in Won
                     THEN tx'[r].target ELSE lastActivated

Persist(r) ==
    /\ At(r, "persist")
    /\ BeginActivate(r, req[r].version, req[r].expected)
    /\ RecordActivation(r)
    /\ Move(r, "transaction")
    /\ UNCHANGED <<holder, lock, bytes, tokens, audit, restarts>>

\* The statements of the transaction, of either path.
DatabaseStep(r) ==
    /\ At(r, "transaction")
    /\ Statement(r)
    /\ RecordActivation(r)
    /\ UNCHANGED <<holder, lock, bytes, tokens, audit, req, restarts>>

\* The connection fails before or after the commit.
DatabaseError(r) ==
    /\ At(r, "transaction")
    /\ Abort({r}) \/ CommitUnacknowledged(r)
    /\ UNCHANGED processVars

\* Only after the commit does the in-memory reference move.
Swap(r) ==
    /\ At(r, "transaction") /\ tx[r].op = "activate" /\ tx[r].outcome \in Won
    /\ holder' = tx[r].target
    /\ lock' = None
    /\ Move(r, "health")
    /\ UNCHANGED <<repoVars, bytes, tokens, audit, restarts, lastActivated>>

ActivationFails(r) ==
    /\ At(r, "transaction") /\ tx[r].op = "activate" /\ tx[r].pc = "done"
    /\ tx[r].outcome \notin Won
    /\ lock' = None
    /\ Reply(r, tx[r].outcome)
    /\ UNCHANGED <<repoVars, holder, bytes, tokens, audit, restarts, lastActivated>>

\* A failed check is reported, never reverted.
HealthCheck(r) ==
    /\ At(r, "health")
    /\ \E result \in {"activated", "unhealthy"} : Reply(r, result)
    /\ Local

-----------------------------------------------------------------------------
(* The privileged MCP tools: preview, then confirm with the token.         *)

StartMcp(r, v, t) ==
    \E kind \in {"mcp_activate", "mcp_rollback"} : Begin(r, kind, "confirm", v, t)

ConfirmationFor(r) ==
    [op |-> req[r].kind, version |-> req[r].version, expected |-> ActiveVersion]

Preview(r) ==
    /\ At(r, "confirm")
    /\ req[r].token # ConfirmationFor(r)
    /\ tokens' = tokens \cup {ConfirmationFor(r)}
    /\ req' = [req EXCEPT ![r].pc = "done", ![r].result = "confirmation_required",
                          ![r].seen = ActiveVersion]
    /\ UNCHANGED <<repoVars, holder, lock, bytes, audit, restarts, lastActivated>>

\* Mutant of Confirm: the token is not bound to the active version.
ConfirmAnyReading(r) ==
    /\ At(r, "confirm")
    /\ req[r].token.op = req[r].kind /\ req[r].token.version = req[r].version
    /\ req' = [req EXCEPT ![r].pc = IF req[r].kind = "mcp_rollback" THEN "record" ELSE "lookup",
                          ![r].seen = ActiveVersion]
    /\ Local

\* Mutant of Confirm: the intent is left to be recorded after the attempt.
ConfirmUnrecorded(r) ==
    /\ At(r, "confirm")
    /\ req[r].token = ConfirmationFor(r)
    /\ req' = [req EXCEPT ![r].pc = "lookup", ![r].seen = ActiveVersion]
    /\ Local

\* A token for this operation, this version and the version active now.
Confirm(r) ==
    /\ At(r, "confirm")
    /\ req[r].token = ConfirmationFor(r)
    /\ req' = [req EXCEPT ![r].pc = IF req[r].kind = "mcp_rollback" THEN "record" ELSE "lookup",
                          ![r].seen = ActiveVersion]
    /\ Local

\* rollback(): the intent is recorded before the attempt.
RecordRollback(r) ==
    /\ At(r, "record")
    /\ audit' = audit \cup {[by |-> r, target |-> req[r].version, previous |-> req[r].seen]}
    /\ Move(r, "lookup")
    /\ UNCHANGED <<repoVars, holder, lock, bytes, tokens, restarts, lastActivated>>

-----------------------------------------------------------------------------
(* Prediction: GenerateFuelPrediction.execute.                             *)

StartPrediction(r) == Begin(r, "predict", "resident", None, NoToken)

\* The holder is read once, and the reference kept for the whole request.
ReadHolder(r) ==
    /\ At(r, "resident")
    /\ IF holder # None
          THEN req' = [req EXCEPT ![r].pc = "answer", ![r].version = holder]
          ELSE Move(r, "active")
    /\ Local

\* No resident model: the active row, loaded through MLflow, which has no
\* model to load in the directory of a package.
ReadActive(r) ==
    /\ At(r, "active")
    /\ \/ ActiveVersion = None /\ Reply(r, "no_model")
       \/ ActiveVersion \in Packages /\ Reply(r, "predict_failed")
       \/ /\ ActiveVersion \in Versions \ Packages
          /\ req' = [req EXCEPT ![r].pc = "answer", ![r].version = ActiveVersion]
    /\ Local

\* Mutant of Answer: the holder is read a second time.
AnswerFromHolder(r) ==
    /\ At(r, "answer")
    /\ req' = [req EXCEPT ![r].pc = "save",
                          ![r].answer = IF holder # None THEN holder ELSE req[r].version]
    /\ Local

\* The predictor of the pair read above, whatever has been swapped since.
Answer(r) ==
    /\ At(r, "answer")
    /\ req' = [req EXCEPT ![r].pc = "save", ![r].answer = req[r].version]
    /\ Local

SavePrediction(r) == At(r, "save") /\ Reply(r, "predicted") /\ Local

-----------------------------------------------------------------------------
\* The process is killed and started again: every request under way is lost,
\* the holder is empty, the lock free, the confirmation secret a new one.
Restart ==
    /\ restarts < MaxRestarts
    /\ restarts' = restarts + 1
    /\ Abort(InFlight) \/ (InFlight = {} /\ UNCHANGED repoVars)
    /\ req' = [r \in Callers |-> IF UnderWay(r) THEN [req[r] EXCEPT !.pc = "done", !.result = "lost"]
                                                ELSE req[r]]
    /\ holder' = None
    /\ lock' = None
    /\ tokens' = {}
    /\ lastActivated' = None
    /\ UNCHANGED <<bytes, audit>>

-----------------------------------------------------------------------------
Start ==
    \/ \E r \in Callers, v \in Versions :
          \/ StartUpload(r, v)
          \/ StartWeb(r, v)
          \/ StartRest(r, v)
          \/ \E t \in tokens \cup {NoToken} : StartMcp(r, v, t)
    \/ \E r \in Callers : StartPrediction(r)

Proceed(r) ==
    \/ UploadRejected(r) \/ UploadWrites(r) \/ UploadStored(r) \/ UploadRegisters(r)
    \/ Route(r) \/ PromoteGet(r) \/ PromoteBegins(r) \/ PromoteEnds(r)
    \/ Lookup(r) \/ ReadPackage(r) \/ ReadExpected(r) \/ Acquire(r) \/ Load(r) \/ LoadFails(r)
    \/ Persist(r) \/ DatabaseStep(r) \/ Swap(r) \/ ActivationFails(r) \/ HealthCheck(r)
    \/ Preview(r) \/ Confirm(r) \/ RecordRollback(r)
    \/ ReadHolder(r) \/ ReadActive(r) \/ Answer(r) \/ SavePrediction(r)

Next ==
    \/ \E v \in Versions : Train(v)
    \/ Start
    \/ \E r \in Callers : Proceed(r) \/ DatabaseError(r)
    \/ Restart

Spec == Init /\ [][Next]_vars

\* Every thread that has work is scheduled; threading.Lock hands the lock to
\* some waiter, and with finitely many requests each waiter has its turn.
FairSpec == Spec /\ \A r \in Callers : WF_vars(Proceed(r))

-----------------------------------------------------------------------------
(* Properties.                                                             *)

\* Every variable of the process has its type.
TypeOK ==
    /\ RepoTypeOK
    /\ holder \in VersionOrNone
    /\ lock \in Callers \cup {None}
    /\ bytes \in [Packages -> {"missing", "torn", "intact"}]
    /\ tokens \in SUBSET Tokens
    /\ audit \in SUBSET [by : Callers, target : Versions, previous : VersionOrNone]
    /\ req \in [Callers -> Requests]
    /\ restarts \in 0 .. MaxRestarts
    /\ lastActivated \in VersionOrNone

\* Between taking the activation lock and the swap, or the failure.
Activating(r) ==
    \/ At(r, "load") \/ At(r, "persist")
    \/ At(r, "transaction") /\ tx[r].op = "activate"

\* The database has agreed and the holder has not been swapped yet.
SwapPending(r) ==
    At(r, "transaction") /\ tx[r].op = "activate" /\ tx[r].outcome \in Won

\* Where a request names a version: everywhere but before it starts, after it
\* ends, and while a prediction is looking for a model.
NamesVersion == PCs \ {"idle", "health", "resident", "active", "done"}

\* What the point a request has reached says of the rest of its state.
RequestAgrees(r) ==
    /\ req[r].pc \in NamesVersion => req[r].version \in Versions
    /\ req[r].pc \in {"confirm", "record"} => req[r].kind \in {"mcp_activate", "mcp_rollback"}
    /\ tx[r].pc = "idle" \/ req[r].pc \in {"transaction", "health", "done"}
    /\ At(r, "transaction") => tx[r].pc # "idle"
    /\ tx[r].pc \notin {"idle", "done"} => At(r, "transaction")

\* The activation lock is held by the request that is activating, and by no other.
RequestsAgree == \A r \in Callers : (lock = r <=> Activating(r)) /\ RequestAgrees(r)

\* model_activation.py:99 "only one activation loads and warms a candidate at
\* a time", from the capacity check to the swap.
OneActivationAtATime == \A r, q \in Callers : Activating(r) /\ Activating(q) => r = q

\* The resident model is the one the database last confirmed: swaps happen in
\* the order of the commits, a lost race or a failed load never reaches the
\* holder, and nothing but the pending swap separates the two.
ResidentIsLastActivated ==
    /\ \A r \in Callers : SwapPending(r) => tx[r].target = lastActivated
    /\ (\A r \in Callers : ~SwapPending(r)) => holder = lastActivated

\* The strengthening that makes ResidentIsLastActivated inductive.
ActivationInv ==
    /\ RepoInv
    /\ TypeOK
    /\ RequestsAgree
    /\ ResidentIsLastActivated

\* A prediction carries the version whose predictor gave its estimate, and
\* that version has been active, even if it was swapped out mid-request.
PredictionsAreAttributed ==
    \A r \in Callers : req[r].result = "predicted" =>
        /\ req[r].answer = req[r].version
        /\ rows[req[r].version].promotedAt

\* mcp_privileged.py:9 "a second call to take effect": an agent opens the
\* transaction that changes the active model only after an earlier call
\* previewed the same operation on the same version and named, as the version
\* it would replace, the one that the confirming call read again.
ChangesAreConfirmed ==
    \A r \in Callers :
        req[r].kind \in {"mcp_activate", "mcp_rollback"} /\ tx[r].op # "none"
        => \E q \in Callers \ {r} :
              /\ req[q].result = "confirmation_required"
              /\ req[q].kind = req[r].kind
              /\ req[q].version = tx[r].target
              /\ req[q].seen = req[r].seen

\* retained_package_activation.py:175 "recorded before the attempt": no
\* rollback opens its transaction without its intent in the audit trail.
RollbacksAreRecorded ==
    \A r \in Callers : req[r].kind = "mcp_rollback" /\ tx[r].op # "none" =>
        \E entry \in audit : entry.by = r /\ entry.target = tx[r].target

\* Every request is answered: the activation lock is always released, and no
\* request waits for ever for it or for a row lock.
RequestsComplete == \A r \in Callers : UnderWay(r) ~> (req[r].pc = "done")

-----------------------------------------------------------------------------
(* What the documents say and the code does not do.                        *)

Quiet == \A r \in Callers : ~UnderWay(r)

\* README.md:178 "model aktif sebelumnya berubah menjadi retired": once a
\* promotion has been answered, the retired model serves no more.
ResidentModelIsActive == Quiet /\ holder # None => holder \in ActiveRows

\* mcp_privileged.py:13 activation and rollback pass the caller's reading "into
\* the same conditional UPDATE the web UI uses, so an agent acting on a stale
\* reading loses the race": what an agent's call replaces is what it read.
StaleReadingsLose ==
    \A r \in Callers :
        req[r].kind \in {"mcp_activate", "mcp_rollback"} /\ tx[r].outcome = "activated"
        => tx[r].expected = req[r].seen
=============================================================================
