----------------------------- MODULE Operations -----------------------------
(***************************************************************************)
(* Daily operations, their predictions and their actual fuel, and the      *)
(* datasets that baselines are trained on: the use cases of                *)
(* daily_operations, bulk_operation_predictions, actual_fuel,              *)
(* bulk_actual_fuel, historical_datasets and baseline_predictions over     *)
(* their tables.                                                           *)
(*                                                                         *)
(* A request is one HTTP call and is answered once.  Each repository       *)
(* method is one transaction and one step here.  Handlers declared "def"   *)
(* run in the thread pool; spreadsheet uploads are coroutines that do not  *)
(* await while they work, so one of them holds the event loop until it has *)
(* ended.  What becomes of a row's cells is in Spreadsheets; here a row is *)
(* blank, reported or good.  The agents' tool predict_fuel is a coroutine  *)
(* as well; the command seed-demo is a process of its own and goes through *)
(* the same use cases.                                                     *)
(***************************************************************************)
EXTENDS Integers, FiniteSets

CONSTANTS
    Requests,   \* HTTP calls
    Ids,        \* operation ids: those that will be drawn, in any order
    None,
    MaxRows,    \* bound: rows of a spreadsheet, and of the bundled history, which
                \* has enough of them to be trained on
    MaxCrashes  \* bound: restarts of the process

ASSUME NoneIsNeither == None \notin Requests /\ None \notin Ids
ASSUME NoneIsNoAnswer == None \notin {"accepted", "no_model", "seeded"}
ASSUME BoundsAreCounts == MaxRows \in Nat \ {0, 1} /\ MaxCrashes \in Nat

VARIABLES
    served,       \* whether some version is active, so that predictions can be made
    operations,   \* daily_operations: None, or the row and what it was made from
    predictions,  \* predictions: the ids of the operations they are of
    actual,       \* actual_fuel_records: None, or the request that inserted the row
    datasets,     \* dataset_versions, each with the rows it was made from
    baselines,    \* model_versions trained here
    jobs,         \* Requests -> what the handler has in its local variables
    crashes

tables == <<served, operations, predictions, actual, datasets, baselines>>
vars == <<served, operations, predictions, actual, datasets, baselines, jobs, crashes>>

-----------------------------------------------------------------------------
(* Operations.                                                             *)

\* total_distance_km holds the planner's figure or the provider's; "reordered" would
\* be the provider's figure for stops in another order.
Rows ==
    [stops    : BOOLEAN,
     km       : {"planned", "measured", "reordered"},
     source   : {"manual", "routing_provider"},
     fallback : BOOLEAN,
     by       : Requests,       \* the request that made it; no column holds it
     file     : BOOLEAN]        \* whether daily_operation_sources has its row

ASSUME NoneIsNoRow == None \notin Rows

\* What DailyOperation's constructor demands of the fields that are kept apart here.
WellFormed(row) == row.fallback => row.stops /\ row.source = "manual"

\* What a caller sends, after its cells or its JSON have been understood.
Plans == [stops : BOOLEAN, km : {"planned", None}, source : {"manual", "routing_provider"}]

\* What the provider answers for the stops in the order they were entered.
Answers == {"unreachable", "no_route", "reordered", "unusable", "measured"}

\* Mutant of RouteDistances: the order of the way points is not compared.
RouteDistancesAnyOrder == {"reordered", "measured"}

\* The answers that calculate_distance returns a distance for.
RouteDistances == {"measured"}

\* The operation that CreateDailyOperation makes of a plan.
Planned(plan, answer, r) ==
    LET routed == plan.stops /\ answer \in RouteDistances
    IN [stops |-> plan.stops,
        km |-> IF routed THEN answer ELSE plan.km,
        source |-> IF ~plan.stops THEN plan.source
                   ELSE IF routed THEN "routing_provider" ELSE "manual",
        fallback |-> plan.stops /\ ~routed,
        by |-> r,
        file |-> FALSE]

Drawn == {o \in Ids : operations[o] # None}

\* The rows that get_model_evaluation_cases builds its operations from: neither the
\* stops nor the vehicle are among the columns it selects.
CaseOf(o) == [operations[o] EXCEPT !.stops = FALSE]

-----------------------------------------------------------------------------
(* Requests.                                                               *)

Uploads == {"plans", "actuals", "history"}

Idle ==
    [kind |-> None, at |-> "idle", op |-> None, rows |-> 0, accepted |-> {},
     issues |-> 0, answer |-> None]

\* A coroutine runs only while no other one is at work: those of the uploads and of
\* the agents' tools.
LoopIsFree ==
    \A r \in Requests : jobs[r].kind \in Uploads \cup {"agent"} => jobs[r].at = "answered"

Begin(r, kind, at) == jobs' = [jobs EXCEPT ![r].kind = kind, ![r].at = at]
Goto(r, at) == jobs' = [jobs EXCEPT ![r].at = at]
Reply(r, kind, answer) ==
    jobs' = [jobs EXCEPT ![r].kind = kind, ![r].at = "answered", ![r].answer = answer]

\* The next row of the sheet, with what became of this one.
NextRow(r, accepted, issues) ==
    jobs' = [jobs EXCEPT ![r].at = "rows", ![r].rows = @ + 1, ![r].op = None,
                         ![r].accepted = @ \cup accepted, ![r].issues = @ + issues]

Init ==
    /\ served = FALSE
    /\ operations = [o \in Ids |-> None]
    /\ predictions = {}
    /\ actual = [o \in Ids |-> None]
    /\ datasets = {}
    /\ baselines = {}
    /\ jobs = [r \in Requests |-> Idle]
    /\ crashes = 0

\* A version is promoted or activated; ModelVersionRepository shows that from then on
\* there is always an active one.
ModelPromoted ==
    /\ ~served
    /\ served' = TRUE
    /\ UNCHANGED <<operations, predictions, actual, datasets, baselines, jobs, crashes>>

(* POST /api/v1/daily-operations and the form for one operation.           *)
CreateOperation(r) ==
    /\ jobs[r] = Idle
    /\ \E plan \in Plans, answer \in Answers :
         LET row == Planned(plan, answer, r)
         IN IF row.km = None
            THEN Reply(r, "create", "refused") /\ UNCHANGED operations
            ELSE \E o \in Ids \ Drawn :
                   /\ operations' = [operations EXCEPT ![o] = row]
                   /\ Reply(r, "create", "accepted")
    /\ UNCHANGED <<served, predictions, actual, datasets, baselines, crashes>>

\* The tool predict_fuel creates an operation and then predicts it; whether there
\* is a model to predict it with comes out only then.
PredictFuel(r) ==
    /\ jobs[r] = Idle
    /\ LoopIsFree
    /\ \E plan \in Plans, answer \in Answers :
         IF plan.km = None
         THEN Reply(r, "agent", "refused") /\ UNCHANGED operations
         ELSE \E o \in Ids \ Drawn :
                /\ operations' = [operations EXCEPT ![o] = Planned(plan, answer, r)]
                /\ jobs' = [jobs EXCEPT ![r].kind = "agent", ![r].at = "predict", ![r].op = o]
    /\ UNCHANGED <<served, predictions, actual, datasets, baselines, crashes>>

(* A prediction for an operation that is there.                            *)
StartPrediction(r) ==
    /\ jobs[r] = Idle
    /\ \E o \in Ids :
         IF o \in Drawn
         THEN jobs' = [jobs EXCEPT ![r].kind = "predict", ![r].at = "predict", ![r].op = o]
         ELSE Reply(r, "predict", "refused")
    /\ UNCHANGED <<tables, crashes>>

\* GenerateFuelPrediction.execute up to the estimate.
ReadModel(r) ==
    /\ jobs[r].at = "predict"
    /\ IF served THEN Goto(r, "save") ELSE Reply(r, jobs[r].kind, "no_model")
    /\ UNCHANGED <<tables, crashes>>

SavePrediction(r) ==
    /\ jobs[r].at = "save"
    /\ predictions' = predictions \cup {jobs[r].op}
    /\ IF jobs[r].kind = "plans" THEN NextRow(r, {jobs[r].op}, 0)
       ELSE Reply(r, jobs[r].kind, "accepted")
    /\ UNCHANGED <<served, operations, actual, datasets, baselines, crashes>>

(* The actual fuel of one operation.                                       *)
StartRecording(r) ==
    /\ jobs[r] = Idle
    /\ \E o \in Ids, positive \in BOOLEAN :
         IF o \in Drawn /\ positive
         THEN jobs' = [jobs EXCEPT ![r].kind = "record", ![r].at = "insert", ![r].op = o]
         ELSE Reply(r, "record", "refused")
    /\ UNCHANGED <<tables, crashes>>

\* Mutant of InsertActual: a conflict updates the row that is there.
InsertActualUpserts(r) ==
    /\ jobs[r].at = "insert"
    /\ actual' = [actual EXCEPT ![jobs[r].op] = r]
    /\ IF jobs[r].kind = "actuals" THEN NextRow(r, {jobs[r].op}, 0)
       ELSE jobs' = [jobs EXCEPT ![r].at = "answered", ![r].answer = "accepted",
                                 ![r].accepted = {jobs[r].op}]
    /\ UNCHANGED <<served, operations, predictions, datasets, baselines, crashes>>

\* The primary key decides between two recordings of one operation.
InsertActual(r) ==
    LET o == jobs[r].op
        taken == actual[o] # None
        mine == IF taken THEN {} ELSE {o}
    IN /\ jobs[r].at = "insert"
       /\ actual' = IF taken THEN actual ELSE [actual EXCEPT ![o] = r]
       /\ IF jobs[r].kind = "actuals" THEN NextRow(r, mine, Cardinality({o} \ mine))
          ELSE jobs' = [jobs EXCEPT ![r].at = "answered", ![r].accepted = mine,
                                    ![r].answer = IF taken THEN "conflict" ELSE "accepted"]
       /\ UNCHANGED <<served, operations, predictions, datasets, baselines, crashes>>

-----------------------------------------------------------------------------
(* Spreadsheets.                                                           *)

\* An empty or unreadable file is refused before anything is read or written.
RefuseFile(r) ==
    /\ jobs[r] = Idle
    /\ LoopIsFree
    /\ \E kind \in Uploads : Reply(r, kind, "refused")
    /\ UNCHANGED <<tables, crashes>>

\* Plans are only read when a model is there to predict them.
StartUpload(r) ==
    /\ jobs[r] = Idle
    /\ LoopIsFree
    /\ \E kind \in Uploads :
         IF kind = "plans" /\ ~served THEN Reply(r, kind, "no_model")
         ELSE Begin(r, kind, "rows")
    /\ UNCHANGED <<tables, crashes>>

HasRow(r, kinds) == jobs[r].at = "rows" /\ jobs[r].kind \in kinds /\ jobs[r].rows < MaxRows

\* A blank row is counted and a row with something wrong is reported.
SkipRow(r) ==
    /\ HasRow(r, Uploads)
    /\ \E issues \in {0, 1} : NextRow(r, {}, issues)
    /\ UNCHANGED <<tables, crashes>>

PlanRow(r) ==
    /\ HasRow(r, {"plans"})
    /\ \E plan \in {p \in Plans : p.km # None}, answer \in Answers, o \in Ids \ Drawn :
         /\ operations' = [operations EXCEPT ![o] = Planned(plan, answer, r)]
         /\ jobs' = [jobs EXCEPT ![r].at = "source", ![r].op = o]
    /\ UNCHANGED <<served, predictions, actual, datasets, baselines, crashes>>

\* Mutant of AddSource: predictions are left for when all the rows are in.
AddSourceOnly(r) ==
    /\ jobs[r].at = "source"
    /\ operations' = [operations EXCEPT ![jobs[r].op].file = TRUE]
    /\ IF jobs[r].rows + 1 < MaxRows THEN NextRow(r, {}, 0) ELSE Goto(r, "predict")
    /\ UNCHANGED <<served, predictions, actual, datasets, baselines, crashes>>

AddSource(r) ==
    /\ jobs[r].at = "source"
    /\ operations' = [operations EXCEPT ![jobs[r].op].file = TRUE]
    /\ Goto(r, "predict")
    /\ UNCHANGED <<served, predictions, actual, datasets, baselines, crashes>>

ActualRow(r) ==
    /\ HasRow(r, {"actuals"})
    /\ \E o \in Ids :
         IF o \in Drawn THEN jobs' = [jobs EXCEPT ![r].at = "insert", ![r].op = o]
         ELSE NextRow(r, {}, 1)
    /\ UNCHANGED <<tables, crashes>>

\* Mutant of HistoryRow: each good row is stored as it is read.
HistoryRowStores(r) ==
    /\ HasRow(r, {"history"})
    /\ datasets' = {d \in datasets : d.file # r} \cup
                   {[file |-> r, valid |-> jobs[r].accepted \cup {jobs[r].rows + 1},
                     issues |-> jobs[r].issues, read |-> jobs[r].rows + 1]}
    /\ NextRow(r, {jobs[r].rows + 1}, 0)
    /\ UNCHANGED <<served, operations, predictions, actual, baselines, crashes>>

\* A good row of history is kept in memory; rows are told apart by their number.
HistoryRow(r) ==
    /\ HasRow(r, {"history"})
    /\ NextRow(r, {jobs[r].rows + 1}, 0)
    /\ UNCHANGED <<tables, crashes>>

\* The last row has been read; what is kept in memory is stored in one transaction.
EndUpload(r) ==
    /\ jobs[r].at = "rows"
    /\ datasets' = IF jobs[r].kind = "history"
                   THEN datasets \cup {[file |-> r, valid |-> jobs[r].accepted,
                                        issues |-> jobs[r].issues, read |-> jobs[r].rows]}
                   ELSE datasets
    /\ Reply(r, jobs[r].kind, "accepted")
    /\ UNCHANGED <<served, operations, predictions, actual, baselines, crashes>>

-----------------------------------------------------------------------------
(* Training, from a dataset that was imported here.                        *)

StartTraining(r) ==
    /\ jobs[r] = Idle
    /\ \E f \in Requests :
         IF \E d \in datasets : d.file = f /\ Cardinality(d.valid) >= 2
         THEN jobs' = [jobs EXCEPT ![r].kind = "train", ![r].at = "fit", ![r].op = f]
         ELSE Reply(r, "train", "refused")
    /\ UNCHANGED <<tables, crashes>>

\* The pipeline is fitted to the rows of the dataset and kept by MLflow.
Fit(r) ==
    /\ jobs[r].at = "fit"
    /\ \E d \in datasets :
         /\ d.file = jobs[r].op
         /\ jobs' = [jobs EXCEPT ![r].at = "candidate", ![r].rows = Cardinality(d.valid)]
    /\ UNCHANGED <<tables, crashes>>

\* Then the row of the candidate is created.
CreateBaseline(r) ==
    /\ jobs[r].at = "candidate"
    /\ baselines' = baselines \cup {[dataset |-> jobs[r].op, rows |-> jobs[r].rows]}
    /\ IF jobs[r].kind = "seed" THEN Goto(r, "promote") ELSE Reply(r, "train", "accepted")
    /\ UNCHANGED <<served, operations, predictions, actual, datasets, crashes>>

(* seed-demo, a process of its own: from an empty database to a model.     *)

\* It stops when a model is active, unless it is forced.
StartSeed(r) ==
    /\ jobs[r] = Idle
    /\ \E force \in BOOLEAN :
         IF served /\ ~force THEN Reply(r, "seed", "seeded")
         ELSE Begin(r, "seed", "history")
    /\ UNCHANGED <<tables, crashes>>

\* The bundled history, of which every row is good.
SeedHistory(r) ==
    /\ jobs[r].at = "history"
    /\ datasets' = datasets \cup {[file |-> r, valid |-> 1 .. MaxRows, issues |-> 0,
                                   read |-> MaxRows]}
    /\ jobs' = [jobs EXCEPT ![r].at = "fit", ![r].op = r]
    /\ UNCHANGED <<served, operations, predictions, actual, baselines, crashes>>

PromoteSeed(r) ==
    /\ jobs[r].at = "promote"
    /\ served' = TRUE
    /\ Goto(r, "read back")
    /\ UNCHANGED <<operations, predictions, actual, datasets, baselines, crashes>>

\* The model is fetched again before the database is called ready.
ReadBack(r) ==
    /\ jobs[r].at = "read back"
    /\ Reply(r, "seed", "accepted")
    /\ UNCHANGED <<tables, crashes>>

(* The comparison of a candidate, and the governance dashboard.            *)

\* Each operation with actual fuel is built again, and one that cannot be built
\* fails the whole request.
Evaluate(r) ==
    /\ jobs[r] = Idle
    /\ LET cases == {o \in Ids : actual[o] # None}
       IN \E answer \in {"refused",
                         IF \A o \in cases : WellFormed(CaseOf(o)) THEN "accepted" ELSE "error"} :
            Reply(r, "evaluate", answer)
    /\ UNCHANGED <<tables, crashes>>

-----------------------------------------------------------------------------
(* Failures.                                                               *)

Working(r) == jobs[r].at \notin {"idle", "answered"}

\* A statement fails, the tracking server does not answer, a model cannot be loaded:
\* the exception leaves the handler, and what is committed stays.
Fail(r) ==
    /\ Working(r)
    /\ Reply(r, jobs[r].kind, "error")
    /\ UNCHANGED <<tables, crashes>>

\* The process is killed and started again.
Crash ==
    /\ crashes < MaxCrashes
    /\ crashes' = crashes + 1
    /\ jobs' = [r \in Requests |-> IF Working(r) /\ jobs[r].kind # "seed"
                                   THEN [jobs[r] EXCEPT !.at = "answered", !.answer = "lost"]
                                   ELSE jobs[r]]
    /\ UNCHANGED tables

Handle(r) ==
    \/ ReadModel(r) \/ SavePrediction(r) \/ InsertActual(r) \/ SkipRow(r) \/ PlanRow(r)
    \/ AddSource(r) \/ ActualRow(r) \/ HistoryRow(r) \/ EndUpload(r) \/ Fit(r)
    \/ CreateBaseline(r) \/ SeedHistory(r) \/ PromoteSeed(r) \/ ReadBack(r)

Next ==
    \/ ModelPromoted
    \/ \E r \in Requests :
         \/ CreateOperation(r) \/ PredictFuel(r) \/ StartPrediction(r) \/ StartRecording(r)
         \/ RefuseFile(r) \/ StartUpload(r) \/ StartTraining(r) \/ StartSeed(r) \/ Evaluate(r)
         \/ Handle(r) \/ Fail(r)
    \/ Crash

Spec == Init /\ [][Next]_vars

-----------------------------------------------------------------------------
(* Properties.                                                             *)

\* The tables hold rows of their kind, and a request's place belongs to its kind.
TypeOK ==
    /\ served \in BOOLEAN
    /\ \A o \in Ids : operations[o] # None => operations[o] \in Rows
    /\ predictions \subseteq Drawn
    /\ \A o \in Ids : actual[o] # None => actual[o] \in Requests /\ o \in Drawn
    /\ \A r \in Requests :
         /\ jobs[r].rows \in 0 .. MaxRows /\ jobs[r].issues \in 0 .. jobs[r].rows
         /\ jobs[r].at \in {"source"} => jobs[r].kind = "plans"
         /\ jobs[r].at \in {"source", "predict", "save", "insert"} => jobs[r].op \in Drawn

\* daily_operations.py:67: whatever the provider answers, an operation says truly
\* where its distance comes from, and the provider's figure is for the planner's
\* order of the stops; so can it be built again from its row.
DistancesAreAttributed ==
    \A o \in Drawn :
        LET row == operations[o] IN
        /\ row.km \in {"planned", "measured"}
        /\ row.stops => (row.source = "routing_provider" <=> row.km = "measured")
        /\ row.fallback <=> row.stops /\ row.km = "planned"
        /\ WellFormed(row)

\* README.md:229 one actual record per operation, which a second entry does not
\* silently replace: whoever was told that a record was made finds it to be theirs,
\* however many requests and files name the same operation at once.
RecordedFuelIsKept ==
    \A r \in Requests :
        jobs[r].kind \in {"record", "actuals"} => \A o \in jobs[r].accepted : actual[o] = r

\* README.md:217: the rows a file is answered with have their source and their
\* prediction, and whenever it dies it leaves at most the one operation it was at
\* work on without either; bulk_operation_predictions.py:69 "so a missing candidate
\* cannot leave orphan rows": a file answered with "no model" has made none at all.
BatchesLeaveAtMostOneOrphan ==
    \A r \in Requests :
        jobs[r].kind = "plans" =>
            LET made == {o \in Drawn : operations[o].by = r}
                whole == {o \in predictions : operations[o].file}
            IN /\ Cardinality(made \ whole) <= (IF jobs[r].answer = "accepted" THEN 0 ELSE 1)
               /\ jobs[r].answer = "no_model" => made = {}
               /\ jobs[r].accepted \subseteq whole

\* A dataset is stored when its file has been read to the end, with every row
\* accounted for, and a baseline is trained on all the rows of such a dataset.
DatasetsAreWhole ==
    /\ \A d \in datasets :
         /\ jobs[d.file].kind = "history" =>
              jobs[d.file].answer = "accepted" /\ d.read = jobs[d.file].rows
         /\ Cardinality(d.valid) + d.issues <= d.read
    /\ \A b \in baselines :
         b.rows >= 2 /\ \E d \in datasets : d.file = b.dataset /\ Cardinality(d.valid) = b.rows

\* README.md:102: a seed that reports success leaves a model that serves and the
\* candidate it trained; one that finds a model has written nothing.
SeededIsReady ==
    \A r \in Requests :
        jobs[r].kind = "seed" =>
            /\ jobs[r].answer \in {"accepted", "seeded"} => served
            /\ jobs[r].answer = "accepted" => \E b \in baselines : b.dataset = r
            /\ jobs[r].answer = "seeded" => \A d \in datasets : d.file # r

\* What the tables of operations keep, whatever fails: rows of their kinds, datasets
\* and baselines that stand for whole files, and seeds that did what they report.
OperationsInv == TypeOK /\ DatasetsAreWhole /\ SeededIsReady

\* README.md:183: candidates are compared with the active model on the operations
\* that have actual fuel: whatever was recorded before, the comparison is answered.
EvaluationsAreAnswered ==
    \A r \in Requests : jobs[r].kind = "evaluate" => jobs[r].answer # "error"
=============================================================================
