-------------------------- MODULE OperationsProofs --------------------------
(* Proofs about Operations, for every set of requests and operations, and  *)
(* every length of a spreadsheet and number of restarts.                   *)
EXTENDS Operations, FiniteSetTheorems, TLAPS

-----------------------------------------------------------------------------
(* Types.                                                                  *)

Kinds == Uploads \cup {None, "create", "agent", "predict", "record", "train", "seed", "evaluate"}

Places == {"idle", "predict", "save", "insert", "rows", "source", "fit", "candidate", "history",
           "promote", "read back", "answered"}

Replies == {None, "refused", "accepted", "no_model", "conflict", "error", "lost", "seeded"}

Held == Ids \cup Requests \cup {None}

Jobs == [kind : Kinds, at : Places, op : Held, rows : 0 .. MaxRows,
         accepted : SUBSET (Ids \cup 1 .. MaxRows), issues : 0 .. MaxRows, answer : Replies]

Datasets == [file : Requests, valid : SUBSET (1 .. MaxRows), issues : 0 .. MaxRows,
             read : 0 .. MaxRows]

TablesTypeOK ==
    /\ served \in BOOLEAN
    /\ operations \in [Ids -> Rows \cup {None}]
    /\ predictions \subseteq Drawn
    /\ actual \in [Ids -> Requests \cup {None}]
    /\ \A o \in Ids : actual[o] # None => o \in Drawn
    /\ datasets \subseteq Datasets

JobsTypeOK == jobs \in [Requests -> Jobs]

-----------------------------------------------------------------------------
(* What the place of a request says of the rest of its record, and of the  *)
(* tables.                                                                 *)

Made(r) == {o \in Drawn : operations[o].by = r}
Whole == {o \in predictions : operations[o].file}
Orphans(r) == Made(r) \ Whole

\* Each place is in the handlers of some kinds only.
PlaceAgrees(r) ==
    /\ jobs[r].at = "rows" => jobs[r].kind \in Uploads
    /\ jobs[r].at = "source" => jobs[r].kind = "plans"
    /\ jobs[r].at \in {"predict", "save"} => jobs[r].kind \in {"plans", "predict", "agent"}
    /\ jobs[r].at = "insert" => jobs[r].kind \in {"record", "actuals"}
    /\ jobs[r].at \in {"fit", "candidate"} => jobs[r].kind \in {"train", "seed"}
    /\ jobs[r].at \in {"history", "promote", "read back"} => jobs[r].kind = "seed"

\* A record is empty until the request begins, and has no answer until it ends.
RecordAgrees(r) ==
    /\ jobs[r].at = "idle" => jobs[r] = Idle
    /\ jobs[r].at # "answered" => jobs[r].answer = None
    /\ jobs[r].at \in {"source", "predict", "save", "insert"} =>
         jobs[r].op \in Drawn /\ (jobs[r].kind \in Uploads => jobs[r].rows < MaxRows)
    /\ jobs[r].issues <= jobs[r].rows

\* What was accepted as recorded is recorded under this request.
RecordingAgrees(r) ==
    jobs[r].kind \in {"record", "actuals"} =>
        jobs[r].accepted \subseteq Ids /\ \A o \in jobs[r].accepted : actual[o] = r

\* A file of plans has one operation in hand, and a model to predict it with.
BatchAgrees(r) ==
    /\ jobs[r].at = "idle" => Made(r) = {}
    /\ jobs[r].kind = "plans" =>
         /\ jobs[r].accepted \subseteq Whole
         /\ jobs[r].at \notin {"idle", "answered"} => served
         /\ jobs[r].at = "rows" \/ jobs[r].answer = "accepted" => Orphans(r) = {}
         /\ jobs[r].at \in {"source", "predict", "save"} => Orphans(r) \subseteq {jobs[r].op}
         /\ jobs[r].at \in {"predict", "save"} => operations[jobs[r].op].file
         /\ jobs[r].at = "answered" => \E o \in Ids \cup {None} : Orphans(r) \subseteq {o}
         /\ jobs[r].answer = "no_model" => Made(r) = {}

\* A request stores its dataset once, after its last row.
HistoryAgrees(r) ==
    /\ \A d \in datasets : d.file = r =>
         /\ jobs[r].at \notin {"idle", "history"}
         /\ jobs[r].kind = "history" => jobs[r].answer = "accepted" /\ d.read = jobs[r].rows
         /\ jobs[r].answer # "seeded"
    /\ jobs[r].at = "rows" /\ jobs[r].kind = "history" =>
         /\ jobs[r].accepted \subseteq 1 .. jobs[r].rows
         /\ Cardinality(jobs[r].accepted) + jobs[r].issues <= jobs[r].rows

\* What is fitted is a dataset of at least two rows, and a seed has its own.
TrainingAgrees(r) ==
    /\ jobs[r].at \in {"history", "fit", "candidate"} => jobs[r].issues = 0
    /\ jobs[r].at \in {"fit", "candidate"} =>
         /\ \E d \in datasets :
              /\ d.file = jobs[r].op /\ Cardinality(d.valid) >= 2
              /\ jobs[r].at = "candidate" => jobs[r].rows = Cardinality(d.valid)
         /\ jobs[r].kind = "seed" => jobs[r].op = r
    /\ jobs[r].kind = "seed" =>
         /\ jobs[r].at \in {"promote", "read back"} \/ jobs[r].answer = "accepted" =>
              \E b \in baselines : b.dataset = r
         /\ jobs[r].at = "read back" \/ jobs[r].answer \in {"accepted", "seeded"} => served

JobAgrees(r) ==
    /\ PlaceAgrees(r)
    /\ RecordAgrees(r)
    /\ RecordingAgrees(r)
    /\ BatchAgrees(r)
    /\ HistoryAgrees(r)
    /\ TrainingAgrees(r)

\* One dataset per file, with its rows accounted for, and baselines of them.
DatasetsAgree ==
    /\ \A d, e \in datasets : d.file = e.file => d = e
    /\ \A d \in datasets : Cardinality(d.valid) + d.issues <= d.read
    /\ \A b \in baselines :
         b.rows >= 2 /\ \E d \in datasets : d.file = b.dataset /\ Cardinality(d.valid) = b.rows

\* The strengthening behind the invariants of Operations.
TablesInv ==
    /\ TablesTypeOK
    /\ JobsTypeOK
    /\ DistancesAreAttributed
    /\ DatasetsAgree
    /\ \A r \in Requests : JobAgrees(r)

-----------------------------------------------------------------------------
(* The record of a request.                                                *)

\* A step of one request leaves the records of the others alone.
Alone(r) == JobsTypeOK' /\ \A q \in Requests \ {r} : jobs'[q] = jobs[q]

\* A record is replaced.
LEMMA JobReplaced ==
    ASSUME JobsTypeOK, NEW r \in Requests, NEW n \in Jobs, jobs' = [jobs EXCEPT ![r] = n]
    PROVE  Alone(r) /\ jobs'[r] = n
  BY DEF JobsTypeOK, Alone

\* An answer ends the request.
LEMMA JobAnswered ==
    ASSUME JobsTypeOK, NEW r \in Requests, NEW kind \in Kinds, NEW answer \in Replies,
           Reply(r, kind, answer)
    PROVE  /\ Alone(r)
           /\ jobs'[r].kind = kind /\ jobs'[r].at = "answered" /\ jobs'[r].answer = answer
           /\ jobs'[r].op = jobs[r].op /\ jobs'[r].rows = jobs[r].rows
           /\ jobs'[r].accepted = jobs[r].accepted /\ jobs'[r].issues = jobs[r].issues
<1> DEFINE n == [jobs[r] EXCEPT !.kind = kind, !.at = "answered", !.answer = answer]
<1>1. /\ n \in Jobs
      /\ n.kind = kind /\ n.at = "answered" /\ n.answer = answer
      /\ n.op = jobs[r].op /\ n.rows = jobs[r].rows
      /\ n.accepted = jobs[r].accepted /\ n.issues = jobs[r].issues
  BY DEF JobsTypeOK, Jobs, Places
<1>2. jobs' = [jobs EXCEPT ![r] = n]
  BY DEF Reply, JobsTypeOK, Jobs
<1> HIDE DEF n
<1> QED
  BY <1>1, <1>2, JobReplaced

\* A handler goes on at a place, with something in hand.
GoesOn(r, kind, at, op) ==
    jobs' = [jobs EXCEPT ![r] = [@ EXCEPT !.kind = kind, !.at = at, !.op = op]]

\* The handler goes on, perhaps with an operation or a file in hand.
LEMMA JobGoesOn ==
    ASSUME JobsTypeOK, NEW r \in Requests, NEW kind \in Kinds, NEW at \in Places,
           NEW op \in Held, GoesOn(r, kind, at, op)
    PROVE  /\ Alone(r)
           /\ jobs'[r].kind = kind /\ jobs'[r].at = at /\ jobs'[r].op = op
           /\ jobs'[r].rows = jobs[r].rows /\ jobs'[r].accepted = jobs[r].accepted
           /\ jobs'[r].issues = jobs[r].issues /\ jobs'[r].answer = jobs[r].answer
<1> DEFINE n == [jobs[r] EXCEPT !.kind = kind, !.at = at, !.op = op]
<1>1. /\ n \in Jobs
      /\ n.kind = kind /\ n.at = at /\ n.op = op
      /\ n.rows = jobs[r].rows /\ n.accepted = jobs[r].accepted
      /\ n.issues = jobs[r].issues /\ n.answer = jobs[r].answer
  BY DEF JobsTypeOK, Jobs
<1>2. jobs' = [jobs EXCEPT ![r] = n]
  BY DEF GoesOn, JobsTypeOK, Jobs
<1> HIDE DEF n
<1> QED
  BY <1>1, <1>2, JobReplaced

\* The forms in which the handlers go on.
LEMMA Forms ==
    ASSUME JobsTypeOK, NEW r \in Requests, NEW kind, NEW at, NEW op
    PROVE  /\ Goto(r, at) => GoesOn(r, jobs[r].kind, at, jobs[r].op)
           /\ Begin(r, kind, at) => GoesOn(r, kind, at, jobs[r].op)
           /\ jobs' = [jobs EXCEPT ![r].kind = kind, ![r].at = at, ![r].op = op] =>
                 GoesOn(r, kind, at, op)
           /\ jobs' = [jobs EXCEPT ![r].at = at, ![r].op = op] =>
                 GoesOn(r, jobs[r].kind, at, op)
  BY DEF GoesOn, Goto, Begin, JobsTypeOK, Jobs

\* The next row, with what became of this one.
LEMMA JobNextRow ==
    ASSUME JobsTypeOK, NEW r \in Requests, NEW mine \in SUBSET (Ids \cup 1 .. MaxRows),
           NEW issues \in {0, 1}, NextRow(r, mine, issues), jobs[r].rows < MaxRows,
           jobs[r].issues <= jobs[r].rows
    PROVE  /\ Alone(r)
           /\ jobs'[r].kind = jobs[r].kind /\ jobs'[r].at = "rows" /\ jobs'[r].op = None
           /\ jobs'[r].rows = jobs[r].rows + 1
           /\ jobs'[r].accepted = jobs[r].accepted \cup mine
           /\ jobs'[r].issues = jobs[r].issues + issues /\ jobs'[r].answer = jobs[r].answer
<1> DEFINE n == [jobs[r] EXCEPT !.at = "rows", !.rows = @ + 1, !.op = None,
                                !.accepted = @ \cup mine, !.issues = @ + issues]
<1>1. jobs[r] \in Jobs
  BY DEF JobsTypeOK
<1>2. /\ jobs[r].rows + 1 \in 0 .. MaxRows /\ jobs[r].issues + issues \in 0 .. MaxRows
      /\ jobs[r].accepted \cup mine \in SUBSET (Ids \cup 1 .. MaxRows)
  BY <1>1, BoundsAreCounts DEF Jobs
<1>3. /\ n \in Jobs
      /\ n.kind = jobs[r].kind /\ n.at = "rows" /\ n.op = None
      /\ n.rows = jobs[r].rows + 1
      /\ n.accepted = jobs[r].accepted \cup mine
      /\ n.issues = jobs[r].issues + issues /\ n.answer = jobs[r].answer
  BY <1>1, <1>2 DEF Jobs, Places, Held
<1>4. jobs' = [jobs EXCEPT ![r] = n]
  BY <1>1 DEF NextRow, JobsTypeOK, Jobs
<1> HIDE DEF n
<1> QED
  BY <1>3, <1>4, JobReplaced

-----------------------------------------------------------------------------
(* What a step of one request leaves of the others.                        *)

\* The facts no step of r takes back, and what it may add.
Kept(r) ==
    /\ served => served'
    /\ \A o \in Drawn : /\ o \in Drawn' /\ operations'[o].by = operations[o].by
                        /\ operations[o].file => operations'[o].file
    /\ \A o \in Drawn' \ Drawn : operations'[o].by = r
    /\ predictions \subseteq predictions'
    /\ \A o \in Ids : actual[o] # None => actual'[o] = actual[o]
    /\ datasets \subseteq datasets' /\ \A d \in datasets' \ datasets : d.file = r
    /\ baselines \subseteq baselines'

\* The rows of another request are the same, and no fewer of them are whole.
LEMMA BatchesApart ==
    ASSUME NEW r \in Requests, Kept(r), TablesTypeOK, TablesTypeOK', NEW q \in Requests \ {r}
    PROVE  Made(q)' = Made(q) /\ Whole \subseteq Whole' /\ Orphans(q)' \subseteq Orphans(q)
<1>1. Whole \subseteq Whole'
  BY DEF Kept, Whole, TablesTypeOK
<1>2. Made(q)' = Made(q)
  BY DEF Kept, Made
<1> QED
  BY <1>1, <1>2 DEF Orphans

\* A request whose own record a step leaves alone agrees with the tables as before.
LEMMA BystandersAgree ==
    ASSUME NEW r \in Requests, Kept(r), TablesTypeOK, TablesTypeOK', JobsTypeOK,
           NEW q \in Requests \ {r}, JobAgrees(q), jobs'[q] = jobs[q]
    PROVE  JobAgrees(q)'
<1> USE DEF JobAgrees
<1>1. PlaceAgrees(q)' /\ RecordAgrees(q)'
  BY DEF PlaceAgrees, RecordAgrees, Kept
<1>2. RecordingAgrees(q)'
  BY NoneIsNeither DEF RecordingAgrees, Kept
<1>3. BatchAgrees(q)'
  <2>1. Made(q)' = Made(q) /\ Whole \subseteq Whole' /\ Orphans(q)' \subseteq Orphans(q)
    BY BatchesApart
  <2> QED
    BY <2>1 DEF BatchAgrees, RecordAgrees, Kept
<1>4. HistoryAgrees(q)'
  BY DEF HistoryAgrees, Kept
<1>5. TrainingAgrees(q)'
  BY DEF TrainingAgrees, Kept
<1> QED
  BY <1>1, <1>2, <1>3, <1>4, <1>5

\* What is left to show of a step of one request.
LEMMA OneJobMoves ==
    ASSUME TablesInv, NEW r \in Requests, Kept(r), TablesTypeOK', Alone(r),
           DistancesAreAttributed', DatasetsAgree', JobAgrees(r)'
    PROVE  TablesInv'
  BY BystandersAgree DEF TablesInv, Alone

-----------------------------------------------------------------------------
(* Steps that leave the tables alone.                                      *)

\* Nothing is taken back, and the tables stay as they agree.
LEMMA TablesStay ==
    ASSUME TablesInv, UNCHANGED tables, NEW r \in Requests
    PROVE  Kept(r) /\ TablesTypeOK' /\ DistancesAreAttributed' /\ DatasetsAgree'
           /\ Made(r)' = Made(r) /\ Whole' = Whole /\ Orphans(r)' = Orphans(r) /\ Drawn' = Drawn
  BY DEF TablesInv, tables, Kept, TablesTypeOK, DistancesAreAttributed, DatasetsAgree, Made, Whole,
     Orphans, Drawn

\* What a request that has not begun has done: nothing.
LEMMA IdleRecord ==
    ASSUME TablesInv, NEW r \in Requests, jobs[r].at = "idle" \/ jobs[r] = Idle
    PROVE  /\ jobs[r].at = "idle" /\ jobs[r].rows = 0 /\ jobs[r].accepted = {}
           /\ jobs[r].issues = 0 /\ jobs[r].answer = None
           /\ Made(r) = {} /\ Orphans(r) = {}
           /\ \A d \in datasets : d.file # r
<1>1. jobs[r] = Idle /\ jobs[r].at = "idle"
  <2>1. RecordAgrees(r)
    BY DEF TablesInv, JobAgrees
  <2>2. jobs[r] = Idle
    BY <2>1 DEF RecordAgrees
  <2> QED
    BY <2>2 DEF Idle
<1>2. /\ jobs[r].rows = 0 /\ jobs[r].accepted = {}
      /\ jobs[r].issues = 0 /\ jobs[r].answer = None
  BY <1>1 DEF Idle
<1>3. Made(r) = {} /\ Orphans(r) = {}
  BY <1>1 DEF TablesInv, JobAgrees, BatchAgrees, Orphans
<1>4. \A d \in datasets : d.file # r
  BY <1>1 DEF TablesInv, JobAgrees, HistoryAgrees
<1> QED
  BY <1>1, <1>2, <1>3, <1>4

\* A request that has not begun is answered at once, without a success to report
\* unless it is of a kind that reports none.
LEMMA AnsweredAtOnce ==
    ASSUME TablesInv, NEW r \in Requests, jobs[r] = Idle, UNCHANGED tables,
           NEW kind \in Kinds, NEW answer \in Replies, Reply(r, kind, answer),
           answer = "accepted" => kind \notin {"history", "seed"},
           answer = "seeded" => served
    PROVE  TablesInv'
<1>1. /\ Alone(r)
      /\ jobs'[r].kind = kind /\ jobs'[r].at = "answered" /\ jobs'[r].answer = answer
      /\ jobs'[r].op = jobs[r].op /\ jobs'[r].rows = jobs[r].rows
      /\ jobs'[r].accepted = jobs[r].accepted /\ jobs'[r].issues = jobs[r].issues
  BY JobAnswered DEF TablesInv
<1>2. /\ jobs[r].at = "idle" /\ jobs[r].rows = 0 /\ jobs[r].accepted = {}
      /\ jobs[r].issues = 0 /\ jobs[r].answer = None
      /\ Made(r) = {} /\ Orphans(r) = {}
      /\ \A d \in datasets : d.file # r
  BY IdleRecord
<1>3. /\ Made(r)' = {} /\ Orphans(r)' = {} /\ UNCHANGED <<served, datasets>>
  BY <1>2, TablesStay DEF tables
<1>4. PlaceAgrees(r)' /\ RecordAgrees(r)' /\ RecordingAgrees(r)'
  BY <1>1, <1>2 DEF PlaceAgrees, RecordAgrees, RecordingAgrees
<1>5. BatchAgrees(r)'
  BY <1>1, <1>2, <1>3 DEF BatchAgrees
<1>6. HistoryAgrees(r)' /\ TrainingAgrees(r)'
  BY <1>1, <1>2, <1>3 DEF HistoryAgrees, TrainingAgrees
<1> QED
  BY <1>1, <1>4, <1>5, <1>6, TablesStay, OneJobMoves DEF JobAgrees

\* A request that begins, at the first place of its kind.
LEMMA Begun ==
    ASSUME TablesInv, NEW r \in Requests, jobs[r] = Idle, UNCHANGED tables,
           NEW kind \in Kinds, NEW at \in {"predict", "insert", "rows", "fit", "history"},
           NEW op \in Held, GoesOn(r, kind, at, op),
           at = "predict" => kind = "predict" /\ op \in Drawn,
           at = "insert" => kind = "record" /\ op \in Drawn,
           at = "rows" => kind \in Uploads /\ (kind = "plans" => served),
           at = "fit" => kind = "train" /\ \E d \in datasets : d.file = op /\ Cardinality(d.valid) >= 2,
           at = "history" => kind = "seed"
    PROVE  TablesInv'
<1>1. /\ Alone(r)
      /\ jobs'[r].kind = kind /\ jobs'[r].at = at /\ jobs'[r].op = op
      /\ jobs'[r].rows = jobs[r].rows /\ jobs'[r].accepted = jobs[r].accepted
      /\ jobs'[r].issues = jobs[r].issues /\ jobs'[r].answer = jobs[r].answer
  <2>1. JobsTypeOK /\ at \in Places
    BY DEF TablesInv, Places
  <2> QED
    BY <2>1, JobGoesOn
<1>2. /\ jobs[r].at = "idle" /\ jobs[r].rows = 0 /\ jobs[r].accepted = {}
      /\ jobs[r].issues = 0 /\ jobs[r].answer = None
      /\ Made(r) = {} /\ Orphans(r) = {}
      /\ \A d \in datasets : d.file # r
  BY IdleRecord
<1>3. /\ Made(r)' = {} /\ Orphans(r)' = {} /\ Drawn' = Drawn /\ UNCHANGED <<served, datasets, baselines>>
  BY <1>2, TablesStay DEF tables
<1>4. PlaceAgrees(r)' /\ RecordAgrees(r)' /\ RecordingAgrees(r)'
  <2>1. RecordingAgrees(r)'
    BY <1>1, <1>2 DEF RecordingAgrees
  <2>2. PlaceAgrees(r)'
    BY <1>1 DEF PlaceAgrees
  <2>3. RecordAgrees(r)'
    BY <1>1, <1>2, <1>3 DEF RecordAgrees, Uploads
  <2> QED
    BY <2>1, <2>2, <2>3
<1>5. BatchAgrees(r)'
  BY <1>1, <1>2, <1>3, NoneIsNoAnswer DEF BatchAgrees
<1>6. HistoryAgrees(r)'
  <2>1. Cardinality({}) = 0
    BY FS_EmptySet
  <2> QED
    BY <1>1, <1>2, <1>3, <2>1, NoneIsNoAnswer DEF HistoryAgrees
<1>7. TrainingAgrees(r)'
  BY <1>1, <1>2, <1>3, NoneIsNoAnswer DEF TrainingAgrees
<1> QED
  BY <1>1, <1>4, <1>5, <1>6, <1>7, TablesStay, OneJobMoves DEF JobAgrees

\* The requests that are answered by their first step, and those that are not.
LEMMA StartsPreserve ==
    ASSUME TablesInv, NEW r \in Requests,
           \/ StartPrediction(r) \/ StartRecording(r) \/ RefuseFile(r) \/ StartUpload(r)
           \/ StartTraining(r) \/ StartSeed(r) \/ Evaluate(r)
    PROVE  TablesInv'
<1> USE DEF Kinds, Uploads, Replies, Held
<1>1. jobs[r] = Idle /\ UNCHANGED tables /\ JobsTypeOK /\ jobs[r].op = None
  BY DEF StartPrediction, StartRecording, RefuseFile, StartUpload, StartTraining, StartSeed,
     Evaluate, TablesInv, Idle
<1>2. CASE StartPrediction(r)
  <2>1. PICK o \in Ids :
           IF o \in Drawn
           THEN jobs' = [jobs EXCEPT ![r].kind = "predict", ![r].at = "predict", ![r].op = o]
           ELSE Reply(r, "predict", "refused")
    BY <1>2 DEF StartPrediction
  <2>2. CASE o \in Drawn
    <3>1. GoesOn(r, "predict", "predict", o)
      BY <1>1, <2>1, <2>2, Forms
    <3> QED
      BY <1>1, <2>2, <3>1, Begun
  <2>3. CASE o \notin Drawn
    BY <1>1, <2>1, <2>3, AnsweredAtOnce
  <2> QED
    BY <2>2, <2>3
<1>3. CASE StartRecording(r)
  <2>1. PICK o \in Ids, positive \in BOOLEAN :
           IF o \in Drawn /\ positive
           THEN jobs' = [jobs EXCEPT ![r].kind = "record", ![r].at = "insert", ![r].op = o]
           ELSE Reply(r, "record", "refused")
    BY <1>3 DEF StartRecording
  <2>2. CASE o \in Drawn /\ positive
    <3>1. GoesOn(r, "record", "insert", o)
      BY <1>1, <2>1, <2>2, Forms
    <3> QED
      BY <1>1, <2>2, <3>1, Begun
  <2>3. CASE ~(o \in Drawn /\ positive)
    BY <1>1, <2>1, <2>3, AnsweredAtOnce
  <2> QED
    BY <2>2, <2>3
<1>4. CASE RefuseFile(r)
  BY <1>1, <1>4, AnsweredAtOnce DEF RefuseFile
<1>5. CASE StartUpload(r)
  <2>1. PICK kind \in Uploads : IF kind = "plans" /\ ~served THEN Reply(r, kind, "no_model")
                                ELSE Begin(r, kind, "rows")
    BY <1>5 DEF StartUpload
  <2>2. CASE kind = "plans" /\ ~served
    BY <1>1, <2>1, <2>2, AnsweredAtOnce
  <2>3. CASE ~(kind = "plans" /\ ~served)
    <3>1. GoesOn(r, kind, "rows", jobs[r].op)
      BY <1>1, <2>1, <2>3, Forms
    <3> QED
      BY <1>1, <2>3, <3>1, Begun
  <2> QED
    BY <2>2, <2>3
<1>6. CASE StartTraining(r)
  <2>1. PICK f \in Requests :
           IF \E d \in datasets : d.file = f /\ Cardinality(d.valid) >= 2
           THEN jobs' = [jobs EXCEPT ![r].kind = "train", ![r].at = "fit", ![r].op = f]
           ELSE Reply(r, "train", "refused")
    BY <1>6 DEF StartTraining
  <2>2. CASE \E d \in datasets : d.file = f /\ Cardinality(d.valid) >= 2
    <3>1. GoesOn(r, "train", "fit", f)
      BY <1>1, <2>1, <2>2, Forms
    <3> QED
      BY <1>1, <2>2, <3>1, Begun
  <2>3. CASE ~(\E d \in datasets : d.file = f /\ Cardinality(d.valid) >= 2)
    BY <1>1, <2>1, <2>3, AnsweredAtOnce
  <2> QED
    BY <2>2, <2>3
<1>7. CASE StartSeed(r)
  <2>1. PICK force \in BOOLEAN : IF served /\ ~force THEN Reply(r, "seed", "seeded")
                                 ELSE Begin(r, "seed", "history")
    BY <1>7 DEF StartSeed
  <2>2. CASE served /\ ~force
    BY <1>1, <2>1, <2>2, AnsweredAtOnce
  <2>3. CASE ~(served /\ ~force)
    <3>1. GoesOn(r, "seed", "history", jobs[r].op)
      BY <1>1, <2>1, <2>3, Forms
    <3> QED
      BY <1>1, <3>1, Begun
  <2> QED
    BY <2>2, <2>3
<1>8. CASE Evaluate(r)
  <2>1. \E answer \in {"refused", "accepted", "error"} : Reply(r, "evaluate", answer)
    BY <1>8 DEF Evaluate
  <2> QED
    BY <1>1, <2>1, AnsweredAtOnce
<1> QED
  BY <1>2, <1>3, <1>4, <1>5, <1>6, <1>7, <1>8

-----------------------------------------------------------------------------
(* Steps that make an operation.                                           *)

\* What a row of operations says of the origin of its distance.
Attributed(row) ==
    /\ row.km \in {"planned", "measured"}
    /\ row.stops => (row.source = "routing_provider" <=> row.km = "measured")
    /\ row.fallback <=> row.stops /\ row.km = "planned"
    /\ WellFormed(row)

\* CreateDailyOperation makes such a row of any plan that comes to have a distance.
LEMMA PlannedRow ==
    ASSUME NEW r \in Requests, NEW plan \in Plans, NEW answer \in Answers,
           plan.km # None \/ Planned(plan, answer, r).km # None
    PROVE  Planned(plan, answer, r) \in Rows /\ Planned(plan, answer, r).by = r
           /\ Attributed(Planned(plan, answer, r))
<1> DEFINE row == Planned(plan, answer, r)
<1>1. /\ plan.stops \in BOOLEAN /\ plan.km \in {"planned", None}
      /\ plan.source \in {"manual", "routing_provider"}
  BY DEF Plans
<1>2. CASE plan.stops /\ answer = "measured"
  <2>1. row = [stops |-> TRUE, km |-> "measured", source |-> "routing_provider",
               fallback |-> FALSE, by |-> r, file |-> FALSE]
    BY <1>1, <1>2 DEF Planned, RouteDistances
  <2> QED
    BY <2>1 DEF Rows, Attributed, WellFormed
<1>3. CASE plan.stops /\ answer # "measured"
  <2>1. row = [stops |-> TRUE, km |-> plan.km, source |-> "manual",
               fallback |-> TRUE, by |-> r, file |-> FALSE]
    BY <1>1, <1>3 DEF Planned, RouteDistances
  <2>2. plan.km = "planned"
    BY <1>1, <2>1
  <2> QED
    BY <2>1, <2>2 DEF Rows, Attributed, WellFormed
<1>4. CASE ~plan.stops
  <2>1. row = [stops |-> FALSE, km |-> plan.km, source |-> plan.source,
               fallback |-> FALSE, by |-> r, file |-> FALSE]
    BY <1>1, <1>4 DEF Planned
  <2>2. plan.km = "planned"
    BY <1>1, <2>1
  <2> QED
    BY <1>1, <2>1, <2>2 DEF Rows, Attributed, WellFormed
<1> QED
  BY <1>1, <1>2, <1>3, <1>4

\* A row of its own is added for an id that was not drawn.
LEMMA Drawing ==
    ASSUME TablesInv, NEW r \in Requests, NEW o \in Ids \ Drawn, NEW row \in Rows,
           row.by = r, Attributed(row), operations' = [operations EXCEPT ![o] = row],
           UNCHANGED <<served, predictions, actual, datasets, baselines>>
    PROVE  /\ Kept(r) /\ TablesTypeOK' /\ DistancesAreAttributed' /\ DatasetsAgree'
           /\ Drawn' = Drawn \cup {o} /\ Made(r)' = Made(r) \cup {o} /\ Whole' = Whole
<1>1. operations \in [Ids -> Rows \cup {None}] /\ predictions \subseteq Drawn /\ row # None
  BY NoneIsNoRow DEF TablesInv, TablesTypeOK
<1>2. operations' \in [Ids -> Rows \cup {None}] /\ operations'[o] = row
      /\ \A p \in Ids \ {o} : operations'[p] = operations[p]
  BY <1>1
<1>3. Drawn' = Drawn \cup {o} /\ o \notin Drawn
  BY <1>1, <1>2 DEF Drawn
<1>4. \A p \in Drawn : operations'[p] = operations[p] /\ p \in Ids
  BY <1>2, <1>3 DEF Drawn
<1>5. Kept(r)
  BY <1>2, <1>3, <1>4 DEF Kept
<1>6. TablesTypeOK'
  BY <1>1, <1>2, <1>3 DEF TablesInv, TablesTypeOK
<1>7. DistancesAreAttributed'
  BY <1>2, <1>3, <1>4 DEF TablesInv, DistancesAreAttributed, Attributed
<1>8. DatasetsAgree'
  BY DEF TablesInv, DatasetsAgree
<1>9. Made(r)' = Made(r) \cup {o}
  BY <1>2, <1>3, <1>4 DEF Made
<1>10. Whole' = Whole
  BY <1>1, <1>4 DEF Whole
<1> QED
  BY <1>3, <1>5, <1>6, <1>7, <1>8, <1>9, <1>10

\* The facts every step of one request starts from.
LEMMA JobFacts ==
    ASSUME TablesInv, NEW r \in Requests
    PROVE  /\ PlaceAgrees(r) /\ RecordAgrees(r) /\ RecordingAgrees(r)
           /\ BatchAgrees(r) /\ HistoryAgrees(r) /\ TrainingAgrees(r)
           /\ JobsTypeOK /\ TablesTypeOK /\ jobs[r] \in Jobs
           /\ jobs[r].kind \in Kinds /\ jobs[r].op \in Held
           /\ jobs[r].rows \in 0 .. MaxRows /\ jobs[r].issues \in 0 .. MaxRows
           /\ jobs[r].accepted \in SUBSET (Ids \cup 1 .. MaxRows)
<1>1. jobs[r] \in Jobs
  BY DEF TablesInv, JobsTypeOK
<1> QED
  BY <1>1 DEF TablesInv, JobAgrees, Jobs

\* One operation, from the form or the API.
LEMMA CreatePreserves ==
    ASSUME TablesInv, NEW r \in Requests, CreateOperation(r)
    PROVE  TablesInv'
<1> USE DEF Kinds, Replies
<1>1. /\ jobs[r].at = "idle" /\ jobs[r].rows = 0 /\ jobs[r].accepted = {}
      /\ jobs[r].issues = 0 /\ jobs[r].answer = None
      /\ \A d \in datasets : d.file # r
      /\ jobs[r] = Idle /\ JobsTypeOK
  BY IdleRecord DEF CreateOperation, TablesInv
<1>2. PICK plan \in Plans, answer \in Answers :
         IF Planned(plan, answer, r).km = None
         THEN Reply(r, "create", "refused") /\ UNCHANGED operations
         ELSE \E o \in Ids \ Drawn : /\ operations' = [operations EXCEPT ![o] = Planned(plan, answer, r)]
                                     /\ Reply(r, "create", "accepted")
  BY DEF CreateOperation
<1>3. CASE Planned(plan, answer, r).km = None
  BY <1>1, <1>2, <1>3, AnsweredAtOnce DEF CreateOperation, tables
<1>4. CASE Planned(plan, answer, r).km # None
  <2>1. PICK o \in Ids \ Drawn : /\ operations' = [operations EXCEPT ![o] = Planned(plan, answer, r)]
                                 /\ Reply(r, "create", "accepted")
    BY <1>2, <1>4
  <2>2. /\ Alone(r)
        /\ jobs'[r].kind = "create" /\ jobs'[r].at = "answered" /\ jobs'[r].answer = "accepted"
        /\ jobs'[r].rows = 0 /\ jobs'[r].accepted = {} /\ jobs'[r].issues = 0
    BY <1>1, <2>1, JobAnswered
  <2>3. /\ Kept(r) /\ TablesTypeOK' /\ DistancesAreAttributed' /\ DatasetsAgree'
        /\ UNCHANGED datasets
    BY <1>4, <2>1, PlannedRow, Drawing DEF CreateOperation
  <2>4. PlaceAgrees(r)' /\ RecordAgrees(r)' /\ RecordingAgrees(r)' /\ BatchAgrees(r)'
    BY <2>2 DEF PlaceAgrees, RecordAgrees, RecordingAgrees, BatchAgrees
  <2>5. HistoryAgrees(r)' /\ TrainingAgrees(r)'
    BY <1>1, <2>2, <2>3 DEF HistoryAgrees, TrainingAgrees
  <2> QED
    BY <2>2, <2>3, <2>4, <2>5, OneJobMoves DEF JobAgrees
<1> QED
  BY <1>3, <1>4

\* The operation that predict_fuel makes before it predicts it.
LEMMA AgentPreserves ==
    ASSUME TablesInv, NEW r \in Requests, PredictFuel(r)
    PROVE  TablesInv'
<1> USE DEF Kinds, Replies, Uploads
<1>1. /\ jobs[r].at = "idle" /\ jobs[r].rows = 0 /\ jobs[r].accepted = {}
      /\ jobs[r].issues = 0 /\ jobs[r].answer = None
      /\ \A d \in datasets : d.file # r
      /\ jobs[r] = Idle /\ JobsTypeOK
  BY IdleRecord DEF PredictFuel, TablesInv
<1>2. PICK plan \in Plans, answer \in Answers :
         IF plan.km = None
         THEN Reply(r, "agent", "refused") /\ UNCHANGED operations
         ELSE \E o \in Ids \ Drawn :
                /\ operations' = [operations EXCEPT ![o] = Planned(plan, answer, r)]
                /\ jobs' = [jobs EXCEPT ![r].kind = "agent", ![r].at = "predict", ![r].op = o]
  BY DEF PredictFuel
<1>3. CASE plan.km = None
  BY <1>1, <1>2, <1>3, AnsweredAtOnce DEF PredictFuel, tables
<1>4. CASE plan.km # None
  <2>1. PICK o \in Ids \ Drawn :
           /\ operations' = [operations EXCEPT ![o] = Planned(plan, answer, r)]
           /\ jobs' = [jobs EXCEPT ![r].kind = "agent", ![r].at = "predict", ![r].op = o]
    BY <1>2, <1>4
  <2>2. GoesOn(r, "agent", "predict", o) /\ o \in Held /\ "predict" \in Places
    BY <1>1, <2>1, Forms DEF Held, Places
  <2>3. /\ Alone(r)
        /\ jobs'[r].kind = "agent" /\ jobs'[r].at = "predict" /\ jobs'[r].answer = None
        /\ jobs'[r].rows = 0 /\ jobs'[r].accepted = {} /\ jobs'[r].issues = 0
        /\ jobs'[r].op = o
    BY <1>1, <2>2, JobGoesOn
  <2>4. /\ Kept(r) /\ TablesTypeOK' /\ DistancesAreAttributed' /\ DatasetsAgree'
        /\ Drawn' = Drawn \cup {o} /\ UNCHANGED datasets
    BY <1>4, <2>1, PlannedRow, Drawing DEF PredictFuel
  <2>5. PlaceAgrees(r)' /\ RecordAgrees(r)' /\ RecordingAgrees(r)' /\ BatchAgrees(r)'
    BY <2>3, <2>4 DEF PlaceAgrees, RecordAgrees, RecordingAgrees, BatchAgrees
  <2>6. HistoryAgrees(r)' /\ TrainingAgrees(r)'
    BY <1>1, <2>3, <2>4 DEF HistoryAgrees, TrainingAgrees
  <2> QED
    BY <2>3, <2>4, <2>5, <2>6, OneJobMoves DEF JobAgrees
<1> QED
  BY <1>3, <1>4

\* The operation of a row of plans is the one its file has in hand.
LEMMA PlanRowPreserves ==
    ASSUME TablesInv, NEW r \in Requests, PlanRow(r)
    PROVE  TablesInv'
<1>1. /\ PlaceAgrees(r) /\ RecordAgrees(r) /\ RecordingAgrees(r)
      /\ BatchAgrees(r) /\ HistoryAgrees(r) /\ JobsTypeOK
      /\ jobs[r].kind \in Kinds
  BY JobFacts
<1>2. /\ jobs[r].kind = "plans" /\ jobs[r].at = "rows"
      /\ UNCHANGED <<served, predictions, actual, datasets, baselines>>
  BY DEF PlanRow, HasRow
<1>3. PICK plan \in {p \in Plans : p.km # None}, answer \in Answers, o \in Ids \ Drawn :
         /\ operations' = [operations EXCEPT ![o] = Planned(plan, answer, r)]
         /\ jobs' = [jobs EXCEPT ![r].at = "source", ![r].op = o]
  BY DEF PlanRow
<1>4. GoesOn(r, jobs[r].kind, "source", o) /\ o \in Held /\ "source" \in Places
      /\ jobs[r].answer = None
  BY <1>1, <1>2, <1>3, Forms DEF Held, Places, RecordAgrees
<1>5. /\ Alone(r)
      /\ jobs'[r].kind = "plans" /\ jobs'[r].at = "source" /\ jobs'[r].op = o
      /\ jobs'[r].rows = jobs[r].rows /\ jobs'[r].accepted = jobs[r].accepted
      /\ jobs'[r].issues = jobs[r].issues /\ jobs'[r].answer = None
  BY <1>1, <1>2, <1>4, JobGoesOn
<1>6. /\ Kept(r) /\ TablesTypeOK' /\ DistancesAreAttributed' /\ DatasetsAgree'
      /\ Drawn' = Drawn \cup {o} /\ Made(r)' = Made(r) \cup {o} /\ Whole' = Whole
  BY <1>2, <1>3, PlannedRow, Drawing
<1>7. PlaceAgrees(r)' /\ RecordAgrees(r)' /\ RecordingAgrees(r)'
  BY <1>1, <1>2, <1>5, <1>6 DEF PlaceAgrees, RecordAgrees, RecordingAgrees, PlanRow, HasRow
<1>8. BatchAgrees(r)'
  <2>1. /\ jobs[r].accepted \subseteq Whole /\ served /\ Orphans(r) = {}
    BY <1>1, <1>2 DEF BatchAgrees
  <2>2. Orphans(r)' \subseteq {o}
    BY <1>6, <2>1 DEF Orphans
  <2> QED
    BY <1>2, <1>5, <1>6, <2>1, <2>2, NoneIsNoAnswer DEF BatchAgrees
<1>9. HistoryAgrees(r)' /\ TrainingAgrees(r)'
  <2>1. \A d \in datasets : d.file = r => jobs[r].answer # "seeded"
    BY <1>1 DEF HistoryAgrees
  <2> QED
    BY <1>2, <1>5, <2>1, NoneIsNoAnswer DEF HistoryAgrees, TrainingAgrees
<1> QED
  BY <1>5, <1>6, <1>7, <1>8, <1>9, OneJobMoves DEF JobAgrees

-----------------------------------------------------------------------------
(* Predictions, sources and recordings.                                    *)

\* Without an active version there is no prediction, and no file of plans at work.
LEMMA ReadModelPreserves ==
    ASSUME TablesInv, NEW r \in Requests, ReadModel(r)
    PROVE  TablesInv'
<1>1. /\ PlaceAgrees(r) /\ RecordAgrees(r) /\ RecordingAgrees(r)
      /\ BatchAgrees(r) /\ HistoryAgrees(r) /\ JobsTypeOK
      /\ jobs[r].kind \in Kinds /\ jobs[r].op \in Held
  BY JobFacts
<1>2. /\ jobs[r].at = "predict" /\ UNCHANGED tables
      /\ jobs[r].kind \in {"plans", "predict", "agent"} /\ jobs[r].answer = None
      /\ jobs[r].kind = "plans" => served
  BY <1>1 DEF ReadModel, PlaceAgrees, RecordAgrees, BatchAgrees
<1>3. /\ Kept(r) /\ TablesTypeOK' /\ DistancesAreAttributed' /\ DatasetsAgree'
      /\ Made(r)' = Made(r) /\ Whole' = Whole /\ Orphans(r)' = Orphans(r) /\ Drawn' = Drawn
      /\ UNCHANGED <<served, operations, actual, datasets>>
  BY <1>2, TablesStay DEF tables
<1>4. CASE served
  <2>1. GoesOn(r, jobs[r].kind, "save", jobs[r].op) /\ "save" \in Places
    BY <1>1, <1>4, Forms DEF ReadModel, Places
  <2>2. /\ Alone(r)
        /\ jobs'[r].kind = jobs[r].kind /\ jobs'[r].at = "save" /\ jobs'[r].op = jobs[r].op
        /\ jobs'[r].rows = jobs[r].rows /\ jobs'[r].accepted = jobs[r].accepted
        /\ jobs'[r].issues = jobs[r].issues /\ jobs'[r].answer = None
    BY <1>1, <1>2, <2>1, JobGoesOn
  <2>3. PlaceAgrees(r)' /\ RecordAgrees(r)' /\ RecordingAgrees(r)'
    BY <1>1, <1>2, <1>3, <2>2 DEF PlaceAgrees, RecordAgrees, RecordingAgrees
  <2>4. BatchAgrees(r)'
    BY <1>1, <1>2, <1>3, <2>2, NoneIsNoAnswer DEF BatchAgrees
  <2>5. HistoryAgrees(r)' /\ TrainingAgrees(r)'
    BY <1>1, <1>2, <1>3, <2>2, NoneIsNoAnswer DEF HistoryAgrees, TrainingAgrees
  <2> QED
    BY <1>3, <2>2, <2>3, <2>4, <2>5, OneJobMoves DEF JobAgrees
<1>5. CASE ~served
  <2>1. Reply(r, jobs[r].kind, "no_model") /\ "no_model" \in Replies
    BY <1>5 DEF ReadModel, Replies
  <2>2. /\ Alone(r)
        /\ jobs'[r].kind = jobs[r].kind /\ jobs'[r].at = "answered" /\ jobs'[r].op = jobs[r].op
        /\ jobs'[r].rows = jobs[r].rows /\ jobs'[r].accepted = jobs[r].accepted
        /\ jobs'[r].issues = jobs[r].issues /\ jobs'[r].answer = "no_model"
    BY <1>1, <2>1, JobAnswered
  <2>3. PlaceAgrees(r)' /\ RecordAgrees(r)' /\ RecordingAgrees(r)' /\ BatchAgrees(r)'
    BY <1>1, <1>2, <1>5, <2>2 DEF PlaceAgrees, RecordAgrees, RecordingAgrees, BatchAgrees
  <2>4. HistoryAgrees(r)' /\ TrainingAgrees(r)'
    BY <1>1, <1>2, <1>3, <2>2 DEF HistoryAgrees, TrainingAgrees
  <2> QED
    BY <1>3, <2>2, <2>3, <2>4, OneJobMoves DEF JobAgrees
<1> QED
  BY <1>4, <1>5

\* A prediction makes the operation in hand whole, if its source is there.
LEMMA SavePreserves ==
    ASSUME TablesInv, NEW r \in Requests, SavePrediction(r)
    PROVE  TablesInv'
<1>1. /\ PlaceAgrees(r) /\ RecordAgrees(r) /\ RecordingAgrees(r)
      /\ BatchAgrees(r) /\ HistoryAgrees(r) /\ JobsTypeOK /\ TablesTypeOK
      /\ jobs[r].kind \in Kinds /\ jobs[r].rows \in 0 .. MaxRows /\ jobs[r].issues \in 0 .. MaxRows
  BY JobFacts
<1>2. /\ jobs[r].at = "save" /\ jobs[r].op \in Drawn
      /\ predictions' = predictions \cup {jobs[r].op}
      /\ UNCHANGED <<served, operations, actual, datasets, baselines>>
      /\ jobs[r].kind \in {"plans", "predict", "agent"} /\ jobs[r].answer = None
  BY <1>1 DEF SavePrediction, PlaceAgrees, RecordAgrees
<1>3. /\ Drawn' = Drawn /\ Made(r)' = Made(r) /\ Whole \subseteq Whole'
      /\ operations[jobs[r].op].file => Whole' = Whole \cup {jobs[r].op}
  BY <1>2 DEF Drawn, Made, Whole
<1>4. Kept(r) /\ TablesTypeOK' /\ DistancesAreAttributed' /\ DatasetsAgree'
  BY <1>1, <1>2, <1>3 DEF TablesInv, Kept, TablesTypeOK, DistancesAreAttributed, DatasetsAgree
<1>5. CASE jobs[r].kind = "plans"
  <2>1. /\ NextRow(r, {jobs[r].op}, 0) /\ {jobs[r].op} \in SUBSET (Ids \cup 1 .. MaxRows)
        /\ jobs[r].issues <= jobs[r].rows /\ jobs[r].rows < MaxRows
    BY <1>1, <1>2, <1>5 DEF SavePrediction, RecordAgrees, Drawn, Uploads
  <2>2. /\ Alone(r)
        /\ jobs'[r].kind = "plans" /\ jobs'[r].at = "rows"
        /\ jobs'[r].rows = jobs[r].rows + 1
        /\ jobs'[r].accepted = jobs[r].accepted \cup {jobs[r].op}
        /\ jobs'[r].issues = jobs[r].issues + 0 /\ jobs'[r].answer = None
    BY <1>1, <1>2, <1>5, <2>1, JobNextRow
  <2>3. PlaceAgrees(r)' /\ RecordingAgrees(r)'
    BY <2>2 DEF PlaceAgrees, RecordingAgrees, Uploads
  <2>4. RecordAgrees(r)'
    BY <1>1, <2>1, <2>2 DEF RecordAgrees
  <2>5. /\ Whole' = Whole \cup {jobs[r].op} /\ Orphans(r) \subseteq {jobs[r].op}
        /\ jobs[r].accepted \subseteq Whole /\ served
    BY <1>1, <1>2, <1>3, <1>5 DEF BatchAgrees
  <2>6. Orphans(r)' = {}
    BY <1>3, <2>5 DEF Orphans
  <2>7. BatchAgrees(r)'
    BY <1>2, <2>2, <2>5, <2>6, NoneIsNoAnswer DEF BatchAgrees
  <2>8. HistoryAgrees(r)' /\ TrainingAgrees(r)'
    BY <1>2, <2>2, NoneIsNoAnswer DEF HistoryAgrees, TrainingAgrees
  <2> QED
    BY <1>4, <2>2, <2>3, <2>4, <2>7, <2>8, OneJobMoves DEF JobAgrees
<1>6. CASE jobs[r].kind # "plans"
  <2>1. Reply(r, jobs[r].kind, "accepted") /\ "accepted" \in Replies
    BY <1>6 DEF SavePrediction, Replies
  <2>2. /\ Alone(r)
        /\ jobs'[r].kind = jobs[r].kind /\ jobs'[r].at = "answered" /\ jobs'[r].op = jobs[r].op
        /\ jobs'[r].rows = jobs[r].rows /\ jobs'[r].accepted = jobs[r].accepted
        /\ jobs'[r].issues = jobs[r].issues /\ jobs'[r].answer = "accepted"
    BY <1>1, <2>1, JobAnswered
  <2>3. PlaceAgrees(r)' /\ RecordAgrees(r)' /\ RecordingAgrees(r)' /\ BatchAgrees(r)'
    BY <1>1, <1>2, <1>6, <2>2 DEF PlaceAgrees, RecordAgrees, RecordingAgrees, BatchAgrees
  <2>4. HistoryAgrees(r)' /\ TrainingAgrees(r)'
    BY <1>1, <1>2, <2>2 DEF HistoryAgrees, TrainingAgrees
  <2> QED
    BY <1>4, <2>2, <2>3, <2>4, OneJobMoves DEF JobAgrees
<1> QED
  BY <1>5, <1>6

\* The source of the operation in hand.
LEMMA SourcePreserves ==
    ASSUME TablesInv, NEW r \in Requests, AddSource(r)
    PROVE  TablesInv'
<1>1. /\ PlaceAgrees(r) /\ RecordAgrees(r) /\ BatchAgrees(r) /\ HistoryAgrees(r)
      /\ JobsTypeOK /\ TablesTypeOK /\ jobs[r].kind \in Kinds /\ jobs[r].op \in Held
  BY JobFacts
<1>2. /\ jobs[r].at = "source" /\ jobs[r].op \in Drawn /\ jobs[r].rows < MaxRows
      /\ operations' = [operations EXCEPT ![jobs[r].op].file = TRUE]
      /\ UNCHANGED <<served, predictions, actual, datasets, baselines>>
      /\ jobs[r].kind = "plans" /\ jobs[r].answer = None
      /\ Goto(r, "predict")
  BY <1>1 DEF AddSource, PlaceAgrees, RecordAgrees, Uploads
<1> DEFINE o == jobs[r].op
           row == [operations[o] EXCEPT !.file = TRUE]
<1>3. /\ o \in Ids /\ operations \in [Ids -> Rows \cup {None}] /\ operations[o] \in Rows
  BY <1>1, <1>2 DEF TablesTypeOK, Drawn
<1>4. /\ row \in Rows /\ row.by = operations[o].by /\ row.file = TRUE
      /\ row.km = operations[o].km /\ row.stops = operations[o].stops
      /\ row.source = operations[o].source /\ row.fallback = operations[o].fallback
  BY <1>3 DEF Rows
<1>5. operations' = [operations EXCEPT ![o] = row]
  BY <1>2, <1>3 DEF Rows
<1> HIDE DEF row
<1>6. /\ operations' \in [Ids -> Rows \cup {None}] /\ operations'[o] = row
      /\ \A p \in Ids \ {o} : operations'[p] = operations[p]
      /\ row # None
  BY <1>3, <1>4, <1>5, NoneIsNoRow
<1> HIDE DEF o
<1>7. Drawn' = Drawn
  BY <1>2, <1>6 DEF Drawn, o
<1>8. \A p \in Drawn : p \in Ids /\ operations'[p].by = operations[p].by
                       /\ (operations[p].file => operations'[p].file)
  BY <1>4, <1>6 DEF Drawn
<1>9. Kept(r) /\ Made(r)' = Made(r)
  BY <1>2, <1>7, <1>8 DEF Kept, Made
<1>10. TablesTypeOK'
  BY <1>1, <1>2, <1>6, <1>7 DEF TablesTypeOK
<1>11. DistancesAreAttributed'
  <2>1. ASSUME NEW p \in Drawn PROVE Attributed(operations'[p])
    <3>1. Attributed(operations[p])
      BY DEF TablesInv, DistancesAreAttributed, Attributed
    <3> QED
      BY <1>4, <1>6, <1>8, <3>1 DEF Attributed, WellFormed
  <2> QED
    BY <1>7, <2>1 DEF DistancesAreAttributed, Attributed
<1>12. DatasetsAgree'
  BY <1>2 DEF TablesInv, DatasetsAgree
<1>13. GoesOn(r, jobs[r].kind, "predict", jobs[r].op) /\ "predict" \in Places
  BY <1>1, <1>2, Forms DEF Places
<1>14. /\ Alone(r)
       /\ jobs'[r].kind = "plans" /\ jobs'[r].at = "predict" /\ jobs'[r].op = o
       /\ jobs'[r].rows = jobs[r].rows /\ jobs'[r].accepted = jobs[r].accepted
       /\ jobs'[r].issues = jobs[r].issues /\ jobs'[r].answer = None
  BY <1>1, <1>2, <1>13, JobGoesOn DEF o
<1>15. PlaceAgrees(r)' /\ RecordAgrees(r)' /\ RecordingAgrees(r)'
  BY <1>1, <1>2, <1>7, <1>14 DEF PlaceAgrees, RecordAgrees, RecordingAgrees, o
<1>16. BatchAgrees(r)'
  <2>1. jobs[r].accepted \subseteq Whole /\ Orphans(r) \subseteq {o} /\ served
    BY <1>1, <1>2 DEF BatchAgrees, o
  <2>2. Whole \subseteq Whole'
    BY <1>1, <1>2, <1>8 DEF Whole, TablesTypeOK
  <2>3. Orphans(r)' \subseteq {o}
    BY <1>9, <2>1, <2>2 DEF Orphans
  <2> QED
    BY <1>2, <1>4, <1>6, <1>14, <2>1, <2>2, <2>3, NoneIsNoAnswer DEF BatchAgrees
<1>17. HistoryAgrees(r)' /\ TrainingAgrees(r)'
  BY <1>2, <1>14, NoneIsNoAnswer DEF HistoryAgrees, TrainingAgrees
<1> QED
  BY <1>9, <1>10, <1>11, <1>12, <1>14, <1>15, <1>16, <1>17, OneJobMoves DEF JobAgrees

\* The primary key keeps the record that is there.
LEMMA InsertPreserves ==
    ASSUME TablesInv, NEW r \in Requests, InsertActual(r)
    PROVE  TablesInv'
<1> DEFINE o == jobs[r].op
           taken == actual[o] # None
           mine == IF taken THEN {} ELSE {o}
<1>1. /\ PlaceAgrees(r) /\ RecordAgrees(r) /\ RecordingAgrees(r)
      /\ JobsTypeOK /\ TablesTypeOK /\ jobs[r] \in Jobs
  BY JobFacts
<1>2. /\ jobs[r].at = "insert" /\ o \in Drawn /\ o \in Ids
      /\ jobs[r].kind \in {"record", "actuals"} /\ jobs[r].answer = None
      /\ UNCHANGED <<served, operations, predictions, datasets, baselines>>
      /\ actual' = IF taken THEN actual ELSE [actual EXCEPT ![o] = r]
      /\ actual \in [Ids -> Requests \cup {None}]
  BY <1>1 DEF InsertActual, PlaceAgrees, RecordAgrees, Drawn, TablesTypeOK
<1>3. /\ actual' \in [Ids -> Requests \cup {None}]
      /\ \A p \in Ids : actual[p] # None => actual'[p] = actual[p]
      /\ \A p \in Ids : actual'[p] # None => actual[p] # None \/ p = o
      /\ \A p \in mine : p \in Ids /\ actual'[p] = r
  BY <1>2
<1>4. mine \in SUBSET (Ids \cup 1 .. MaxRows) /\ (mine = {} \/ mine = {o})
  BY <1>2
<1>5. jobs[r].kind = "actuals" => NextRow(r, mine, Cardinality({o} \ mine))
  BY DEF InsertActual
<1>6. jobs[r].kind = "record" =>
         jobs' = [jobs EXCEPT ![r].at = "answered", ![r].accepted = mine,
                              ![r].answer = IF taken THEN "conflict" ELSE "accepted"]
  BY DEF InsertActual
<1> HIDE DEF mine, taken
<1>7. Kept(r) /\ Drawn' = Drawn
  BY <1>2, <1>3 DEF Kept, Drawn
<1>8. TablesTypeOK' /\ DistancesAreAttributed' /\ DatasetsAgree'
  BY <1>1, <1>2, <1>3, <1>7 DEF TablesInv, TablesTypeOK, DistancesAreAttributed, DatasetsAgree
<1>9. jobs[r].accepted \subseteq Ids /\ \A p \in jobs[r].accepted : actual[p] = r /\ r # None
  BY <1>1, <1>2, NoneIsNeither DEF RecordingAgrees
<1>10. CASE jobs[r].kind = "actuals"
  <2>1. Cardinality({o} \ mine) \in {0, 1}
    <3>1. {o} \ mine = {} \/ {o} \ mine = {o}
      BY <1>4
    <3>2. Cardinality({}) = 0 /\ Cardinality({o}) = 1
      BY FS_EmptySet, FS_Singleton
    <3> QED
      BY <3>1, <3>2
  <2>2. jobs[r].rows < MaxRows /\ jobs[r].issues <= jobs[r].rows
        /\ jobs[r].rows \in 0 .. MaxRows /\ jobs[r].issues \in 0 .. MaxRows
    BY <1>1, <1>2, <1>10 DEF RecordAgrees, Uploads, Jobs
  <2> DEFINE issues == Cardinality({o} \ mine)
  <2> HIDE DEF issues
  <2>3. /\ Alone(r)
        /\ jobs'[r].kind = "actuals" /\ jobs'[r].at = "rows"
        /\ jobs'[r].rows = jobs[r].rows + 1
        /\ jobs'[r].accepted = jobs[r].accepted \cup mine
        /\ jobs'[r].issues = jobs[r].issues + issues /\ jobs'[r].answer = None
    BY <1>1, <1>2, <1>4, <1>5, <1>10, <2>1, <2>2, JobNextRow DEF issues
  <2>4. PlaceAgrees(r)' /\ BatchAgrees(r)'
    BY <2>3 DEF PlaceAgrees, BatchAgrees, Uploads
  <2>5. RecordAgrees(r)'
    BY <2>1, <2>2, <2>3 DEF RecordAgrees, issues
  <2>6. RecordingAgrees(r)'
    BY <1>3, <1>9, <2>3 DEF RecordingAgrees
  <2>7. HistoryAgrees(r)' /\ TrainingAgrees(r)'
    BY <2>3, NoneIsNoAnswer DEF HistoryAgrees, TrainingAgrees
  <2> QED
    BY <1>7, <1>8, <2>3, <2>4, <2>5, <2>6, <2>7, OneJobMoves DEF JobAgrees
<1>11. CASE jobs[r].kind = "record"
  <2> DEFINE answer == IF taken THEN "conflict" ELSE "accepted"
             n == [jobs[r] EXCEPT !.at = "answered", !.accepted = mine, !.answer = answer]
  <2>1. answer \in {"conflict", "accepted"}
    OBVIOUS
  <2> HIDE DEF answer
  <2>2. /\ n \in Jobs /\ n.kind = "record" /\ n.at = "answered" /\ n.accepted = mine
        /\ n.rows = jobs[r].rows /\ n.issues = jobs[r].issues /\ n.answer = answer
    BY <1>1, <1>4, <1>11, <2>1 DEF Jobs, Places, Replies
  <2>3. jobs' = [jobs EXCEPT ![r] = n]
    BY <1>1, <1>6, <1>11 DEF JobsTypeOK, Jobs, answer
  <2> HIDE DEF n
  <2>4. Alone(r) /\ jobs'[r] = n
    BY <1>1, <2>2, <2>3, JobReplaced
  <2>5. PlaceAgrees(r)' /\ BatchAgrees(r)'
    BY <2>2, <2>4 DEF PlaceAgrees, BatchAgrees
  <2>6. RecordAgrees(r)'
    BY <1>1, <2>2, <2>4 DEF RecordAgrees
  <2>7. RecordingAgrees(r)'
    BY <1>3, <2>2, <2>4 DEF RecordingAgrees
  <2>8. HistoryAgrees(r)' /\ TrainingAgrees(r)'
    BY <2>1, <2>2, <2>4 DEF HistoryAgrees, TrainingAgrees
  <2> QED
    BY <1>7, <1>8, <2>4, <2>5, <2>6, <2>7, <2>8, OneJobMoves DEF JobAgrees
<1> QED
  BY <1>2, <1>10, <1>11

-----------------------------------------------------------------------------
(* Rows, datasets and training.                                            *)

\* A row is accounted for once more, whether it is kept, reported or blank.
LEMMA RowCounted ==
    ASSUME NEW n \in Nat, NEW S \in SUBSET (1 .. n), NEW i \in Nat, Cardinality(S) + i <= n,
           NEW mine, NEW j \in {0, 1}, mine = {} \/ (mine = {n + 1} /\ j = 0)
    PROVE  S \cup mine \subseteq 1 .. n + 1 /\ Cardinality(S \cup mine) + (i + j) <= n + 1
<1>1. IsFiniteSet(S) /\ Cardinality(S) \in Nat
  <2>1. IsFiniteSet(1 .. n)
    BY 1 \in Int, n \in Int, FS_Interval
  <2> QED
    BY <2>1, FS_Subset, FS_CardinalityType
<1>2. CASE mine = {}
  <2>1. S \cup mine = S /\ S \subseteq 1 .. n + 1
    BY <1>2
  <2>2. Cardinality(S) + (i + j) <= n + 1
    BY <1>1
  <2> QED
    BY <2>1, <2>2
<1>3. CASE mine = {n + 1} /\ j = 0
  <2> DEFINE x == n + 1
             T == S \cup {x}
  <2>1. T \subseteq 1 .. x
    OBVIOUS
  <2>2. n + 1 = x /\ x \in Nat
    OBVIOUS
  <2> HIDE DEF x
  <2>3. Cardinality(T) = Cardinality(S) \/ Cardinality(T) = Cardinality(S) + 1
    BY <1>1, FS_AddElement
  <2>4. S \cup mine = T
    BY <1>3, <2>2
  <2> HIDE DEF T
  <2>5. Cardinality(T) + (i + j) <= x
    BY <1>1, <1>3, <2>2, <2>3
  <2> QED
    BY <2>1, <2>2, <2>4, <2>5
<1> QED
  BY <1>2, <1>3

\* A row that is blank, reported or kept in memory.
LEMMA RowRead ==
    ASSUME TablesInv, NEW r \in Requests, UNCHANGED tables, HasRow(r, Uploads),
           NEW mine \in SUBSET (1 .. MaxRows), NEW issues \in {0, 1}, NextRow(r, mine, issues),
           \/ mine = {}
           \/ jobs[r].kind = "history" /\ mine = {jobs[r].rows + 1} /\ issues = 0
    PROVE  TablesInv'
<1>1. /\ RecordAgrees(r) /\ RecordingAgrees(r) /\ BatchAgrees(r) /\ HistoryAgrees(r)
      /\ JobsTypeOK /\ TablesTypeOK /\ jobs[r].kind \in Kinds
      /\ jobs[r].rows \in 0 .. MaxRows /\ jobs[r].issues \in 0 .. MaxRows
  BY JobFacts
<1>2. /\ jobs[r].at = "rows" /\ jobs[r].kind \in Uploads /\ jobs[r].rows < MaxRows
      /\ jobs[r].issues <= jobs[r].rows /\ jobs[r].answer = None
  BY <1>1 DEF HasRow, RecordAgrees
<1>3. /\ Alone(r)
      /\ jobs'[r].kind = jobs[r].kind /\ jobs'[r].at = "rows"
      /\ jobs'[r].rows = jobs[r].rows + 1
      /\ jobs'[r].accepted = jobs[r].accepted \cup mine
      /\ jobs'[r].issues = jobs[r].issues + issues /\ jobs'[r].answer = None
  BY <1>1, <1>2, JobNextRow
<1>4. /\ Kept(r) /\ TablesTypeOK' /\ DistancesAreAttributed' /\ DatasetsAgree'
      /\ Made(r)' = Made(r) /\ Whole' = Whole /\ Orphans(r)' = Orphans(r) /\ Drawn' = Drawn
      /\ UNCHANGED <<served, operations, actual, datasets>>
  BY TablesStay DEF tables
<1>5. PlaceAgrees(r)'
  BY <1>2, <1>3 DEF PlaceAgrees
<1>6. RecordAgrees(r)'
  BY <1>1, <1>2, <1>3 DEF RecordAgrees
<1>7. RecordingAgrees(r)'
  BY <1>1, <1>3, <1>4 DEF RecordingAgrees
<1>8. BatchAgrees(r)'
  BY <1>1, <1>2, <1>3, <1>4, NoneIsNoAnswer DEF BatchAgrees
<1>9. HistoryAgrees(r)'
  <2>1. \A d \in datasets : d.file = r => jobs[r].kind # "history"
    BY <1>1, <1>2, NoneIsNoAnswer DEF HistoryAgrees
  <2>2. ASSUME jobs[r].kind = "history"
        PROVE  /\ jobs'[r].accepted \subseteq 1 .. jobs'[r].rows
               /\ Cardinality(jobs'[r].accepted) + jobs'[r].issues <= jobs'[r].rows
    <3>1. /\ jobs[r].accepted \subseteq 1 .. jobs[r].rows
          /\ Cardinality(jobs[r].accepted) + jobs[r].issues <= jobs[r].rows
      BY <1>1, <1>2, <2>2 DEF HistoryAgrees
    <3>2. /\ jobs[r].accepted \cup mine \subseteq 1 .. jobs[r].rows + 1
          /\ Cardinality(jobs[r].accepted \cup mine) + (jobs[r].issues + issues) <= jobs[r].rows + 1
      <4>1. jobs[r].rows \in Nat /\ jobs[r].issues \in Nat
        BY <1>1, BoundsAreCounts
      <4>2. jobs[r].accepted \in SUBSET (1 .. jobs[r].rows)
        BY <3>1
      <4>3. mine = {} \/ (mine = {jobs[r].rows + 1} /\ issues = 0)
        OBVIOUS
      <4> QED
        BY <3>1, <4>1, <4>2, <4>3, RowCounted
    <3> QED
      BY <1>3, <3>2
  <2> QED
    BY <1>2, <1>3, <1>4, <2>1, <2>2, NoneIsNoAnswer DEF HistoryAgrees
<1>10. TrainingAgrees(r)'
  BY <1>3, NoneIsNoAnswer DEF TrainingAgrees
<1> QED
  BY <1>3, <1>4, <1>5, <1>6, <1>7, <1>8, <1>9, <1>10, OneJobMoves DEF JobAgrees

\* The rows that write nothing, and the one that finds its operation.
LEMMA RowsPreserve ==
    ASSUME TablesInv, NEW r \in Requests, SkipRow(r) \/ HistoryRow(r) \/ ActualRow(r)
    PROVE  TablesInv'
<1>1. /\ RecordAgrees(r) /\ RecordingAgrees(r) /\ JobsTypeOK /\ jobs[r].kind \in Kinds
      /\ jobs[r].rows \in 0 .. MaxRows
  BY JobFacts
<1>2. CASE SkipRow(r)
  BY <1>2, RowRead DEF SkipRow
<1>3. CASE HistoryRow(r)
  <2>1. /\ HasRow(r, Uploads) /\ jobs[r].kind = "history" /\ UNCHANGED tables
        /\ NextRow(r, {jobs[r].rows + 1}, 0) /\ jobs[r].rows < MaxRows
    BY <1>3 DEF HistoryRow, HasRow, Uploads
  <2>2. {jobs[r].rows + 1} \in SUBSET (1 .. MaxRows)
    BY <1>1, <2>1, BoundsAreCounts
  <2> QED
    BY <2>1, <2>2, RowRead
<1>4. CASE ActualRow(r)
  <2>1. PICK o \in Ids : IF o \in Drawn THEN jobs' = [jobs EXCEPT ![r].at = "insert", ![r].op = o]
                         ELSE NextRow(r, {}, 1)
    BY <1>4 DEF ActualRow
  <2>2. /\ HasRow(r, Uploads) /\ jobs[r].kind = "actuals" /\ UNCHANGED tables
        /\ jobs[r].at = "rows" /\ jobs[r].rows < MaxRows
    BY <1>4 DEF ActualRow, HasRow, Uploads
  <2>3. CASE o \notin Drawn
    BY <2>1, <2>2, <2>3, RowRead
  <2>4. CASE o \in Drawn
    <3>1. GoesOn(r, jobs[r].kind, "insert", o) /\ "insert" \in Places /\ o \in Held
          /\ jobs[r].answer = None
      BY <1>1, <2>1, <2>2, <2>4, Forms DEF Places, Held, RecordAgrees
    <3>2. /\ Alone(r)
          /\ jobs'[r].kind = "actuals" /\ jobs'[r].at = "insert" /\ jobs'[r].op = o
          /\ jobs'[r].rows = jobs[r].rows /\ jobs'[r].accepted = jobs[r].accepted
          /\ jobs'[r].issues = jobs[r].issues /\ jobs'[r].answer = None
      BY <1>1, <2>2, <3>1, JobGoesOn
    <3>3. /\ Kept(r) /\ TablesTypeOK' /\ DistancesAreAttributed' /\ DatasetsAgree'
          /\ Drawn' = Drawn /\ UNCHANGED <<actual, datasets>>
      BY <2>2, TablesStay DEF tables
    <3>4. PlaceAgrees(r)' /\ RecordingAgrees(r)' /\ BatchAgrees(r)'
      BY <1>1, <2>2, <3>2, <3>3 DEF PlaceAgrees, RecordingAgrees, BatchAgrees
    <3>5. RecordAgrees(r)'
      BY <1>1, <2>2, <2>4, <3>2, <3>3 DEF RecordAgrees
    <3>6. HistoryAgrees(r)' /\ TrainingAgrees(r)'
      BY <3>2, NoneIsNoAnswer DEF HistoryAgrees, TrainingAgrees
    <3> QED
      BY <3>2, <3>3, <3>4, <3>5, <3>6, OneJobMoves DEF JobAgrees
  <2> QED
    BY <2>3, <2>4
<1> QED
  BY <1>2, <1>3, <1>4

\* As many rows as fit, and all of them good.
LEMMA FullSheet == IsFiniteSet(1 .. MaxRows) /\ Cardinality(1 .. MaxRows) = MaxRows
<1>1. MaxRows \in Int /\ 1 \in Int /\ ~(1 > MaxRows) /\ MaxRows - 1 + 1 = MaxRows
  BY BoundsAreCounts
<1>2. /\ IsFiniteSet(1 .. MaxRows)
      /\ Cardinality(1 .. MaxRows) = IF 1 > MaxRows THEN 0 ELSE MaxRows - 1 + 1
  BY <1>1, FS_Interval
<1> QED
  BY <1>1, <1>2

\* A dataset of its own is stored for a request that has none.
LEMMA DatasetStored ==
    ASSUME TablesInv, NEW r \in Requests, NEW d \in Datasets, d.file = r,
           \A e \in datasets : e.file # r, Cardinality(d.valid) + d.issues <= d.read,
           datasets' = datasets \cup {d},
           UNCHANGED <<served, operations, predictions, actual, baselines>>
    PROVE  /\ Kept(r) /\ TablesTypeOK' /\ DistancesAreAttributed' /\ DatasetsAgree'
           /\ Made(r)' = Made(r) /\ Whole' = Whole /\ Orphans(r)' = Orphans(r) /\ Drawn' = Drawn
<1>1. /\ Made(r)' = Made(r) /\ Whole' = Whole /\ Orphans(r)' = Orphans(r) /\ Drawn' = Drawn
  BY DEF Made, Whole, Orphans, Drawn
<1>2. Kept(r)
  BY <1>1 DEF Kept
<1>3. TablesTypeOK' /\ DistancesAreAttributed'
  BY <1>1 DEF TablesInv, TablesTypeOK, DistancesAreAttributed
<1>4. DatasetsAgree'
  <2>1. DatasetsAgree
    BY DEF TablesInv
  <2> QED
    BY <2>1 DEF DatasetsAgree
<1> QED
  BY <1>1, <1>2, <1>3, <1>4

\* The upload ends; a file of history becomes its dataset.
LEMMA EndPreserves ==
    ASSUME TablesInv, NEW r \in Requests, EndUpload(r)
    PROVE  TablesInv'
<1>1. /\ PlaceAgrees(r) /\ RecordAgrees(r) /\ RecordingAgrees(r)
      /\ BatchAgrees(r) /\ HistoryAgrees(r) /\ JobsTypeOK
      /\ jobs[r].kind \in Kinds /\ jobs[r].rows \in 0 .. MaxRows /\ jobs[r].issues \in 0 .. MaxRows
  BY JobFacts
<1>2. /\ jobs[r].at = "rows" /\ jobs[r].kind \in Uploads /\ jobs[r].answer = None
      /\ UNCHANGED <<served, operations, predictions, actual, baselines>>
  BY <1>1 DEF EndUpload, PlaceAgrees, RecordAgrees
<1>3. /\ Alone(r)
      /\ jobs'[r].kind = jobs[r].kind /\ jobs'[r].at = "answered" /\ jobs'[r].answer = "accepted"
      /\ jobs'[r].rows = jobs[r].rows /\ jobs'[r].accepted = jobs[r].accepted
      /\ jobs'[r].issues = jobs[r].issues
  <2>1. Reply(r, jobs[r].kind, "accepted") /\ "accepted" \in Replies
    BY DEF EndUpload, Replies
  <2> QED
    BY <1>1, <2>1, JobAnswered
<1>4. /\ Kept(r) /\ TablesTypeOK' /\ DistancesAreAttributed' /\ DatasetsAgree'
      /\ Made(r)' = Made(r) /\ Whole' = Whole /\ Orphans(r)' = Orphans(r)
      /\ \A d \in datasets' : d.file = r /\ jobs[r].kind = "history" => d.read = jobs[r].rows
  <2>1. CASE jobs[r].kind # "history"
    <3>1. UNCHANGED tables
      BY <2>1 DEF EndUpload, tables
    <3> QED
      BY <2>1, <3>1, TablesStay
  <2>2. CASE jobs[r].kind = "history"
    <3> DEFINE d == [file |-> r, valid |-> jobs[r].accepted, issues |-> jobs[r].issues,
                     read |-> jobs[r].rows]
    <3>1. /\ jobs[r].accepted \subseteq 1 .. jobs[r].rows
          /\ Cardinality(jobs[r].accepted) + jobs[r].issues <= jobs[r].rows
          /\ \A e \in datasets : e.file # r
      BY <1>1, <1>2, <2>2, NoneIsNoAnswer DEF HistoryAgrees
    <3>2. jobs[r].accepted \subseteq 1 .. MaxRows
      BY <1>1, <3>1, BoundsAreCounts
    <3>3. d \in Datasets /\ d.file = r /\ d.read = jobs[r].rows
          /\ Cardinality(d.valid) + d.issues <= d.read
      BY <1>1, <3>1, <3>2 DEF Datasets
    <3>4. datasets' = datasets \cup {d}
      BY <2>2 DEF EndUpload
    <3> HIDE DEF d
    <3>5. /\ Kept(r) /\ TablesTypeOK' /\ DistancesAreAttributed' /\ DatasetsAgree'
          /\ Made(r)' = Made(r) /\ Whole' = Whole /\ Orphans(r)' = Orphans(r)
      BY <1>2, <3>1, <3>3, <3>4, DatasetStored
    <3> QED
      BY <3>1, <3>3, <3>4, <3>5
  <2> QED
    BY <2>1, <2>2
<1>5. PlaceAgrees(r)' /\ RecordAgrees(r)' /\ RecordingAgrees(r)'
  BY <1>1, <1>2, <1>3 DEF PlaceAgrees, RecordAgrees, RecordingAgrees
<1>6. BatchAgrees(r)'
  BY <1>1, <1>2, <1>3, <1>4 DEF BatchAgrees
<1>7. HistoryAgrees(r)' /\ TrainingAgrees(r)'
  BY <1>2, <1>3, <1>4 DEF HistoryAgrees, TrainingAgrees, Uploads
<1> QED
  BY <1>3, <1>4, <1>5, <1>6, <1>7, OneJobMoves DEF JobAgrees

\* The rows a model is fitted to are those of the dataset of its file.
LEMMA FitPreserves ==
    ASSUME TablesInv, NEW r \in Requests, Fit(r)
    PROVE  TablesInv'
<1>1. /\ PlaceAgrees(r) /\ RecordAgrees(r) /\ HistoryAgrees(r) /\ TrainingAgrees(r)
      /\ JobsTypeOK /\ TablesTypeOK /\ jobs[r] \in Jobs
  BY JobFacts
<1>2. /\ jobs[r].at = "fit" /\ jobs[r].kind \in {"train", "seed"} /\ jobs[r].answer = None
      /\ jobs[r].issues = 0 /\ UNCHANGED tables
      /\ jobs[r].kind = "seed" => jobs[r].op = r
  BY <1>1 DEF Fit, PlaceAgrees, RecordAgrees, TrainingAgrees
<1>3. PICK d \in datasets :
         /\ d.file = jobs[r].op
         /\ jobs' = [jobs EXCEPT ![r].at = "candidate", ![r].rows = Cardinality(d.valid)]
  BY DEF Fit
<1>4. Cardinality(d.valid) >= 2
  <2>1. PICK e \in datasets : e.file = jobs[r].op /\ Cardinality(e.valid) >= 2
    BY <1>1, <1>2 DEF TrainingAgrees
  <2>2. d = e
    BY <1>3, <2>1 DEF TablesInv, DatasetsAgree
  <2> QED
    BY <2>1, <2>2
<1>5. Cardinality(d.valid) \in 0 .. MaxRows
  <2>1. d.valid \in SUBSET (1 .. MaxRows)
    BY <1>1 DEF TablesTypeOK, Datasets
  <2>2. Cardinality(d.valid) <= MaxRows /\ Cardinality(d.valid) \in Nat
    BY <2>1, FullSheet, FS_Subset, FS_CardinalityType
  <2> QED
    BY <2>2, BoundsAreCounts
<1> DEFINE n == [jobs[r] EXCEPT !.at = "candidate", !.rows = Cardinality(d.valid)]
<1>6. /\ n \in Jobs /\ n.kind = jobs[r].kind /\ n.at = "candidate" /\ n.op = jobs[r].op
      /\ n.rows = Cardinality(d.valid) /\ n.issues = 0 /\ n.answer = None
  BY <1>1, <1>2, <1>5 DEF Jobs, Places
<1>7. jobs' = [jobs EXCEPT ![r] = n]
  BY <1>1, <1>3 DEF JobsTypeOK, Jobs
<1> HIDE DEF n
<1>8. Alone(r) /\ jobs'[r] = n
  BY <1>1, <1>6, <1>7, JobReplaced
<1>9. /\ Kept(r) /\ TablesTypeOK' /\ DistancesAreAttributed' /\ DatasetsAgree'
      /\ UNCHANGED datasets
  BY <1>2, TablesStay DEF tables
<1>10. PlaceAgrees(r)' /\ RecordingAgrees(r)' /\ BatchAgrees(r)'
  BY <1>2, <1>6, <1>8 DEF PlaceAgrees, RecordingAgrees, BatchAgrees
<1>11. RecordAgrees(r)'
  BY <1>5, <1>6, <1>8 DEF RecordAgrees
<1>12. HistoryAgrees(r)'
  BY <1>2, <1>6, <1>8, NoneIsNoAnswer DEF HistoryAgrees
<1>13. TrainingAgrees(r)'
  BY <1>2, <1>3, <1>4, <1>6, <1>8, <1>9, NoneIsNoAnswer DEF TrainingAgrees
<1> QED
  BY <1>8, <1>9, <1>10, <1>11, <1>12, <1>13, OneJobMoves DEF JobAgrees

\* A baseline is created of the rows it was fitted to.
LEMMA BaselinePreserves ==
    ASSUME TablesInv, NEW r \in Requests, CreateBaseline(r)
    PROVE  TablesInv'
<1>1. /\ PlaceAgrees(r) /\ RecordAgrees(r) /\ HistoryAgrees(r) /\ TrainingAgrees(r)
      /\ JobsTypeOK /\ TablesTypeOK /\ jobs[r].kind \in Kinds /\ jobs[r].op \in Held
  BY JobFacts
<1> DEFINE b == [dataset |-> jobs[r].op, rows |-> jobs[r].rows]
<1>2. /\ jobs[r].at = "candidate" /\ jobs[r].kind \in {"train", "seed"} /\ jobs[r].answer = None
      /\ jobs[r].kind = "seed" => jobs[r].op = r
      /\ jobs[r].issues = 0 /\ jobs[r].issues <= jobs[r].rows
      /\ baselines' = baselines \cup {b}
      /\ UNCHANGED <<served, operations, predictions, actual, datasets>>
  BY <1>1 DEF CreateBaseline, PlaceAgrees, RecordAgrees, TrainingAgrees
<1>3. PICK d \in datasets : d.file = jobs[r].op /\ Cardinality(d.valid) >= 2
                            /\ jobs[r].rows = Cardinality(d.valid)
  BY <1>1, <1>2 DEF TrainingAgrees
<1>4. b.dataset = jobs[r].op /\ b.rows = jobs[r].rows
  OBVIOUS
<1> HIDE DEF b
<1>5. Kept(r) /\ Drawn' = Drawn
  BY <1>2 DEF Kept, Drawn
<1>6. TablesTypeOK' /\ DistancesAreAttributed'
  BY <1>2, <1>5 DEF TablesInv, TablesTypeOK, DistancesAreAttributed
<1>7. DatasetsAgree'
  <2>1. DatasetsAgree
    BY DEF TablesInv
  <2>2. b.rows >= 2 /\ \E e \in datasets : e.file = b.dataset /\ Cardinality(e.valid) = b.rows
    BY <1>3, <1>4
  <2> QED
    BY <1>2, <2>1, <2>2 DEF DatasetsAgree
<1>8. CASE jobs[r].kind = "seed"
  <2>1. GoesOn(r, jobs[r].kind, "promote", jobs[r].op) /\ "promote" \in Places
    BY <1>1, <1>8, Forms DEF CreateBaseline, Places
  <2>2. /\ Alone(r)
        /\ jobs'[r].kind = "seed" /\ jobs'[r].at = "promote"
        /\ jobs'[r].rows = jobs[r].rows /\ jobs'[r].issues = jobs[r].issues
        /\ jobs'[r].answer = None
    BY <1>1, <1>2, <1>8, <2>1, JobGoesOn
  <2>3. PlaceAgrees(r)' /\ RecordAgrees(r)' /\ RecordingAgrees(r)' /\ BatchAgrees(r)'
    BY <1>2, <2>2 DEF PlaceAgrees, RecordAgrees, RecordingAgrees, BatchAgrees
  <2>4. HistoryAgrees(r)'
    BY <2>2, NoneIsNoAnswer DEF HistoryAgrees
  <2>5. TrainingAgrees(r)'
    BY <1>2, <1>4, <1>8, <2>2, NoneIsNoAnswer DEF TrainingAgrees
  <2> QED
    BY <1>5, <1>6, <1>7, <2>2, <2>3, <2>4, <2>5, OneJobMoves DEF JobAgrees
<1>9. CASE jobs[r].kind # "seed"
  <2>1. Reply(r, "train", "accepted") /\ "accepted" \in Replies /\ "train" \in Kinds
    BY <1>9 DEF CreateBaseline, Replies, Kinds
  <2>2. /\ Alone(r)
        /\ jobs'[r].kind = "train" /\ jobs'[r].at = "answered"
        /\ jobs'[r].rows = jobs[r].rows /\ jobs'[r].issues = jobs[r].issues
        /\ jobs'[r].answer = "accepted"
    BY <1>1, <2>1, JobAnswered
  <2>3. PlaceAgrees(r)' /\ RecordAgrees(r)' /\ RecordingAgrees(r)' /\ BatchAgrees(r)'
    BY <1>2, <2>2 DEF PlaceAgrees, RecordAgrees, RecordingAgrees, BatchAgrees
  <2>4. HistoryAgrees(r)' /\ TrainingAgrees(r)'
    BY <2>2 DEF HistoryAgrees, TrainingAgrees
  <2> QED
    BY <1>5, <1>6, <1>7, <2>2, <2>3, <2>4, OneJobMoves DEF JobAgrees
<1> QED
  BY <1>8, <1>9

\* The seed's dataset is the bundled history.
LEMMA SeedHistoryPreserves ==
    ASSUME TablesInv, NEW r \in Requests, SeedHistory(r)
    PROVE  TablesInv'
<1>1. /\ PlaceAgrees(r) /\ RecordAgrees(r) /\ HistoryAgrees(r) /\ TrainingAgrees(r)
      /\ JobsTypeOK /\ jobs[r].kind \in Kinds /\ jobs[r].op \in Held
  BY JobFacts
<1>2. /\ jobs[r].at = "history" /\ jobs[r].kind = "seed" /\ jobs[r].answer = None
      /\ jobs[r].issues = 0 /\ jobs[r].issues <= jobs[r].rows
      /\ \A e \in datasets : e.file # r
      /\ UNCHANGED <<served, operations, predictions, actual, baselines>>
  BY <1>1 DEF SeedHistory, PlaceAgrees, RecordAgrees, TrainingAgrees, HistoryAgrees
<1> DEFINE d == [file |-> r, valid |-> 1 .. MaxRows, issues |-> 0, read |-> MaxRows]
<1>3. /\ d \in Datasets /\ d.file = r /\ d.issues = 0 /\ d.read = MaxRows
      /\ d.valid = 1 .. MaxRows
  BY BoundsAreCounts DEF Datasets
<1>4. Cardinality(d.valid) + d.issues <= d.read /\ Cardinality(d.valid) >= 2
  BY <1>3, FullSheet, BoundsAreCounts
<1>5. datasets' = datasets \cup {d}
  BY DEF SeedHistory
<1> HIDE DEF d
<1>6. Kept(r) /\ TablesTypeOK' /\ DistancesAreAttributed' /\ DatasetsAgree'
  BY <1>2, <1>3, <1>4, <1>5, DatasetStored
<1>7. GoesOn(r, jobs[r].kind, "fit", r) /\ "fit" \in Places /\ r \in Held
  BY <1>1, Forms DEF SeedHistory, Places, Held
<1>8. /\ Alone(r)
      /\ jobs'[r].kind = "seed" /\ jobs'[r].at = "fit" /\ jobs'[r].op = r
      /\ jobs'[r].rows = jobs[r].rows /\ jobs'[r].issues = 0 /\ jobs'[r].answer = None
  BY <1>1, <1>2, <1>7, JobGoesOn
<1>9. PlaceAgrees(r)' /\ RecordAgrees(r)' /\ RecordingAgrees(r)' /\ BatchAgrees(r)'
  BY <1>2, <1>8 DEF PlaceAgrees, RecordAgrees, RecordingAgrees, BatchAgrees
<1>10. HistoryAgrees(r)'
  BY <1>8, NoneIsNoAnswer DEF HistoryAgrees
<1>11. TrainingAgrees(r)'
  BY <1>3, <1>4, <1>5, <1>8, NoneIsNoAnswer DEF TrainingAgrees
<1> QED
  BY <1>6, <1>8, <1>9, <1>10, <1>11, OneJobMoves DEF JobAgrees

\* A model begins to serve, and nothing else changes in the tables.
LEMMA TablesServed ==
    ASSUME TablesInv, served' = TRUE, NEW r \in Requests,
           UNCHANGED <<operations, predictions, actual, datasets, baselines>>
    PROVE  Kept(r) /\ TablesTypeOK' /\ DistancesAreAttributed' /\ DatasetsAgree' /\ Drawn' = Drawn
  BY DEF TablesInv, Kept, TablesTypeOK, DistancesAreAttributed, DatasetsAgree, Drawn

\* The seed's model is promoted.
LEMMA PromoteSeedPreserves ==
    ASSUME TablesInv, NEW r \in Requests, PromoteSeed(r)
    PROVE  TablesInv'
<1>1. /\ PlaceAgrees(r) /\ RecordAgrees(r) /\ HistoryAgrees(r) /\ TrainingAgrees(r)
      /\ JobsTypeOK /\ jobs[r].kind \in Kinds /\ jobs[r].op \in Held
  BY JobFacts
<1>2. /\ jobs[r].at = "promote" /\ jobs[r].kind = "seed" /\ jobs[r].answer = None
      /\ jobs[r].issues <= jobs[r].rows /\ \E b \in baselines : b.dataset = r
      /\ served' = TRUE /\ UNCHANGED <<operations, predictions, actual, datasets, baselines>>
  BY <1>1 DEF PromoteSeed, PlaceAgrees, RecordAgrees, TrainingAgrees
<1>3. GoesOn(r, jobs[r].kind, "read back", jobs[r].op) /\ "read back" \in Places
  BY <1>1, Forms DEF PromoteSeed, Places
<1>4. /\ Alone(r)
      /\ jobs'[r].kind = "seed" /\ jobs'[r].at = "read back"
      /\ jobs'[r].rows = jobs[r].rows /\ jobs'[r].issues = jobs[r].issues
      /\ jobs'[r].answer = None
  BY <1>1, <1>2, <1>3, JobGoesOn
<1>5. PlaceAgrees(r)' /\ RecordAgrees(r)' /\ RecordingAgrees(r)' /\ BatchAgrees(r)'
  BY <1>2, <1>4 DEF PlaceAgrees, RecordAgrees, RecordingAgrees, BatchAgrees
<1>6. HistoryAgrees(r)' /\ TrainingAgrees(r)'
  BY <1>2, <1>4, NoneIsNoAnswer DEF HistoryAgrees, TrainingAgrees
<1> QED
  BY <1>2, <1>4, <1>5, <1>6, TablesServed, OneJobMoves DEF JobAgrees

\* The seed has read its model back and reports success.
LEMMA ReadBackPreserves ==
    ASSUME TablesInv, NEW r \in Requests, ReadBack(r)
    PROVE  TablesInv'
<1>1. /\ PlaceAgrees(r) /\ RecordAgrees(r) /\ HistoryAgrees(r) /\ TrainingAgrees(r) /\ JobsTypeOK
  BY JobFacts
<1>2. /\ jobs[r].at = "read back" /\ jobs[r].kind = "seed" /\ UNCHANGED tables
      /\ jobs[r].issues <= jobs[r].rows /\ served /\ \E b \in baselines : b.dataset = r
  BY <1>1 DEF ReadBack, PlaceAgrees, RecordAgrees, TrainingAgrees
<1>3. Reply(r, "seed", "accepted") /\ "seed" \in Kinds /\ "accepted" \in Replies
  BY DEF ReadBack, Kinds, Replies
<1>4. /\ Alone(r)
      /\ jobs'[r].kind = "seed" /\ jobs'[r].at = "answered" /\ jobs'[r].answer = "accepted"
      /\ jobs'[r].rows = jobs[r].rows /\ jobs'[r].issues = jobs[r].issues
  BY <1>1, <1>3, JobAnswered
<1>5. PlaceAgrees(r)' /\ RecordAgrees(r)' /\ RecordingAgrees(r)' /\ BatchAgrees(r)'
  BY <1>2, <1>4 DEF PlaceAgrees, RecordAgrees, RecordingAgrees, BatchAgrees
<1>6. HistoryAgrees(r)' /\ TrainingAgrees(r)'
  BY <1>2, <1>4 DEF HistoryAgrees, TrainingAgrees, tables
<1> QED
  BY <1>2, <1>4, <1>5, <1>6, TablesStay, OneJobMoves DEF JobAgrees

-----------------------------------------------------------------------------
(* Failures, and the invariant of the tables.                              *)

\* What ends a request before its time, and leaves what it has committed.
Ends(r, answer) ==
    UNCHANGED tables /\ jobs'[r] = [jobs[r] EXCEPT !.at = "answered", !.answer = answer]

\* Wherever a request ends, it leaves at most one operation without a prediction.
LEMMA EndedAgrees ==
    ASSUME TablesInv, NEW r \in Requests, Working(r), NEW answer \in {"error", "lost"},
           Ends(r, answer)
    PROVE  jobs'[r] \in Jobs /\ JobAgrees(r)'
<1>1. /\ PlaceAgrees(r) /\ RecordAgrees(r) /\ RecordingAgrees(r)
      /\ BatchAgrees(r) /\ HistoryAgrees(r) /\ jobs[r] \in Jobs
  BY JobFacts
<1>2. /\ jobs'[r] \in Jobs /\ jobs'[r].kind = jobs[r].kind /\ jobs'[r].at = "answered"
      /\ jobs'[r].answer = answer /\ jobs'[r].accepted = jobs[r].accepted
      /\ jobs'[r].rows = jobs[r].rows /\ jobs'[r].issues = jobs[r].issues
  BY <1>1 DEF Ends, Jobs, Places, Replies
<1>3. /\ Made(r)' = Made(r) /\ Whole' = Whole /\ Orphans(r)' = Orphans(r)
      /\ UNCHANGED <<served, actual, datasets, baselines>>
  BY TablesStay DEF Ends, tables
<1>4. jobs[r].at \in Places /\ jobs[r].at \notin {"idle", "answered"} /\ jobs[r].answer = None
  BY <1>1 DEF Working, RecordAgrees, Jobs
<1>5. PlaceAgrees(r)' /\ RecordAgrees(r)' /\ RecordingAgrees(r)'
  BY <1>1, <1>2, <1>3 DEF PlaceAgrees, RecordAgrees, RecordingAgrees
<1>6. BatchAgrees(r)'
  <2>1. ASSUME jobs[r].kind = "plans" PROVE \E o \in Ids \cup {None} : Orphans(r) \subseteq {o}
    <3>1. jobs[r].at = "rows" \/ jobs[r].at \in {"source", "predict", "save"}
      BY <1>1, <1>4, <2>1 DEF PlaceAgrees, Places
    <3>2. CASE jobs[r].at = "rows"
      BY <1>1, <2>1, <3>2 DEF BatchAgrees
    <3>3. CASE jobs[r].at \in {"source", "predict", "save"}
      BY <1>1, <2>1, <3>3 DEF BatchAgrees, RecordAgrees, Drawn
    <3> QED
      BY <3>1, <3>2, <3>3
  <2> QED
    BY <1>1, <1>2, <1>3, <2>1 DEF BatchAgrees
<1>7. HistoryAgrees(r)'
  BY <1>1, <1>2, <1>3, <1>4, NoneIsNoAnswer DEF HistoryAgrees
<1>8. TrainingAgrees(r)'
  BY <1>2 DEF TrainingAgrees
<1> QED
  BY <1>2, <1>5, <1>6, <1>7, <1>8 DEF JobAgrees

\* A handler fails.
LEMMA FailPreserves ==
    ASSUME TablesInv, NEW r \in Requests, Fail(r)
    PROVE  TablesInv'
<1>1. JobsTypeOK /\ jobs[r] \in Jobs
  BY JobFacts
<1>2. Working(r) /\ UNCHANGED tables /\ Reply(r, jobs[r].kind, "error")
  BY DEF Fail
<1>3. jobs' = [jobs EXCEPT ![r] = [jobs[r] EXCEPT !.at = "answered", !.answer = "error"]]
  BY <1>1, <1>2 DEF Reply, JobsTypeOK, Jobs
<1>4. Ends(r, "error")
  BY <1>1, <1>2, <1>3 DEF Ends, JobsTypeOK
<1>5. JobAgrees(r)' /\ jobs'[r] \in Jobs
  BY <1>2, <1>4, EndedAgrees
<1>6. Alone(r)
  BY <1>1, <1>3, <1>5 DEF Alone, JobsTypeOK
<1> QED
  BY <1>2, <1>5, <1>6, TablesStay, OneJobMoves

\* The process is killed, and every request that it was at work on with it.
LEMMA CrashPreserves ==
    ASSUME TablesInv, Crash
    PROVE  TablesInv'
<1>1. UNCHANGED tables /\ JobsTypeOK
  BY DEF Crash, TablesInv
<1>2. ASSUME NEW r \in Requests PROVE jobs'[r] \in Jobs /\ JobAgrees(r)'
  <2>1. CASE Working(r) /\ jobs[r].kind # "seed"
    <3>1. Ends(r, "lost")
      BY <1>1, <2>1 DEF Crash, Ends
    <3> QED
      BY <2>1, <3>1, EndedAgrees
  <2>2. CASE ~(Working(r) /\ jobs[r].kind # "seed")
    <3>1. jobs'[r] = jobs[r]
      BY <2>2 DEF Crash
    <3>2. JobAgrees(r) /\ jobs[r] \in Jobs
      BY DEF TablesInv, JobsTypeOK
    <3>3. /\ Made(r)' = Made(r) /\ Whole' = Whole /\ Orphans(r)' = Orphans(r) /\ Drawn' = Drawn
      BY <1>1, TablesStay
    <3>4. PlaceAgrees(r)' /\ RecordAgrees(r)' /\ RecordingAgrees(r)'
      BY <1>1, <3>1, <3>2, <3>3
         DEF JobAgrees, PlaceAgrees, RecordAgrees, RecordingAgrees, tables
    <3>5. BatchAgrees(r)'
      BY <1>1, <3>1, <3>2, <3>3 DEF JobAgrees, BatchAgrees, tables
    <3>6. HistoryAgrees(r)' /\ TrainingAgrees(r)'
      BY <1>1, <3>1, <3>2 DEF JobAgrees, HistoryAgrees, TrainingAgrees, tables
    <3> QED
      BY <3>1, <3>2, <3>4, <3>5, <3>6 DEF JobAgrees
  <2> QED
    BY <2>1, <2>2
<1>3. JobsTypeOK'
  BY <1>2 DEF Crash, JobsTypeOK
<1>4. (TablesTypeOK /\ DistancesAreAttributed /\ DatasetsAgree)'
  BY <1>1 DEF TablesInv, TablesTypeOK, DistancesAreAttributed, DatasetsAgree, tables, Drawn
<1> QED
  BY <1>2, <1>3, <1>4 DEF TablesInv

\* A version is promoted or activated elsewhere.
LEMMA PromotedPreserves ==
    ASSUME TablesInv, ModelPromoted
    PROVE  TablesInv'
<1>1. /\ served' = TRUE /\ jobs' = jobs
      /\ UNCHANGED <<operations, predictions, actual, datasets, baselines>>
  BY DEF ModelPromoted
<1>2. ASSUME NEW r \in Requests PROVE JobAgrees(r)'
  <2>1. JobAgrees(r) /\ jobs'[r] = jobs[r]
    BY <1>1 DEF TablesInv
  <2>2. Made(r)' = Made(r) /\ Whole' = Whole /\ Orphans(r)' = Orphans(r) /\ Drawn' = Drawn
    BY <1>1 DEF Made, Whole, Orphans, Drawn
  <2>3. PlaceAgrees(r)' /\ RecordAgrees(r)' /\ RecordingAgrees(r)'
    BY <1>1, <2>1, <2>2 DEF JobAgrees, PlaceAgrees, RecordAgrees, RecordingAgrees
  <2>4. BatchAgrees(r)'
    BY <1>1, <2>1, <2>2 DEF JobAgrees, BatchAgrees
  <2>5. HistoryAgrees(r)' /\ TrainingAgrees(r)'
    BY <1>1, <2>1 DEF JobAgrees, HistoryAgrees, TrainingAgrees
  <2> QED
    BY <2>3, <2>4, <2>5 DEF JobAgrees
<1>3. (TablesTypeOK /\ JobsTypeOK /\ DistancesAreAttributed /\ DatasetsAgree)'
  BY <1>1 DEF TablesInv, TablesTypeOK, JobsTypeOK, DistancesAreAttributed, DatasetsAgree, Drawn
<1> QED
  BY <1>2, <1>3 DEF TablesInv

\* A new installation: empty tables, and requests that have not begun.
LEMMA TablesInitInv ==
    ASSUME Init
    PROVE  TablesInv
<1> USE DEF Init
<1>1. Drawn = {} /\ Whole = {}
  BY DEF Drawn, Whole
<1>2. TablesTypeOK /\ DistancesAreAttributed /\ DatasetsAgree
  BY <1>1 DEF TablesTypeOK, DistancesAreAttributed, DatasetsAgree
<1>3. Idle \in Jobs
  BY BoundsAreCounts DEF Idle, Jobs, Kinds, Places, Held, Replies
<1>4. JobsTypeOK
  BY <1>3 DEF JobsTypeOK
<1>5. ASSUME NEW r \in Requests PROVE JobAgrees(r)
  <2>1. /\ jobs[r] = Idle /\ jobs[r].at = "idle" /\ jobs[r].kind = None /\ jobs[r].accepted = {}
        /\ jobs[r].issues = 0 /\ jobs[r].rows = 0 /\ jobs[r].answer = None
    BY DEF Idle
  <2>2. Made(r) = {} /\ Orphans(r) = {}
    BY <1>1 DEF Made, Orphans
  <2>3. PlaceAgrees(r)
    BY <2>1 DEF PlaceAgrees
  <2>4. RecordAgrees(r)
    BY <2>1 DEF RecordAgrees
  <2>5. RecordingAgrees(r)
    BY <2>1 DEF RecordingAgrees
  <2>6. BatchAgrees(r)
    BY <1>1, <2>1, <2>2, NoneIsNoAnswer DEF BatchAgrees
  <2>7. HistoryAgrees(r) /\ TrainingAgrees(r)
    BY <2>1, NoneIsNoAnswer DEF HistoryAgrees, TrainingAgrees
  <2> QED
    BY <2>3, <2>4, <2>5, <2>6, <2>7 DEF JobAgrees
<1> QED
  BY <1>2, <1>4, <1>5 DEF TablesInv

\* No step of any request, no failure and no restart breaks the invariant.
LEMMA TablesNextInv ==
    ASSUME TablesInv, [Next]_vars
    PROVE  TablesInv'
<1>1. CASE UNCHANGED vars
  <2>1. UNCHANGED <<tables, jobs>>
    BY <1>1 DEF vars, tables
  <2>2. (TablesTypeOK /\ JobsTypeOK /\ DistancesAreAttributed /\ DatasetsAgree)'
    BY <2>1 DEF TablesInv, TablesTypeOK, JobsTypeOK, DistancesAreAttributed, DatasetsAgree,
       tables, Drawn
  <2>3. ASSUME NEW r \in Requests PROVE JobAgrees(r)'
    <3>1. JobAgrees(r) /\ jobs' = jobs
      BY <2>1 DEF TablesInv
    <3>2. /\ Made(r)' = Made(r) /\ Whole' = Whole /\ Orphans(r)' = Orphans(r) /\ Drawn' = Drawn
      BY <2>1, TablesStay
    <3>3. PlaceAgrees(r)' /\ RecordAgrees(r)' /\ RecordingAgrees(r)' /\ BatchAgrees(r)'
      BY <2>1, <3>1, <3>2
         DEF JobAgrees, PlaceAgrees, RecordAgrees, RecordingAgrees, BatchAgrees, tables
    <3>4. HistoryAgrees(r)' /\ TrainingAgrees(r)'
      BY <2>1, <3>1 DEF JobAgrees, HistoryAgrees, TrainingAgrees, tables
    <3> QED
      BY <3>3, <3>4 DEF JobAgrees
  <2> QED
    BY <2>2, <2>3 DEF TablesInv
<1>2. CASE ModelPromoted
  BY <1>2, PromotedPreserves
<1>3. CASE Crash
  BY <1>3, CrashPreserves
<1>4. ASSUME NEW r \in Requests,
             \/ CreateOperation(r) \/ PredictFuel(r) \/ StartPrediction(r) \/ StartRecording(r)
             \/ RefuseFile(r) \/ StartUpload(r) \/ StartTraining(r) \/ StartSeed(r) \/ Evaluate(r)
      PROVE  TablesInv'
  BY <1>4, CreatePreserves, AgentPreserves, StartsPreserve
<1>5. ASSUME NEW r \in Requests, Handle(r)
      PROVE  TablesInv'
  BY <1>5, ReadModelPreserves, SavePreserves, InsertPreserves, RowsPreserve, PlanRowPreserves,
     SourcePreserves, EndPreserves, FitPreserves, BaselinePreserves, SeedHistoryPreserves,
     PromoteSeedPreserves, ReadBackPreserves DEF Handle
<1>6. ASSUME NEW r \in Requests, Fail(r)
      PROVE  TablesInv'
  BY <1>6, FailPreserves
<1> QED
  BY <1>1, <1>2, <1>3, <1>4, <1>5, <1>6 DEF Next

\* The tables and the requests agree with one another in every reachable state.
THEOREM TablesInvariant == Spec => []TablesInv
<1>1. Init => TablesInv
  BY TablesInitInv
<1>2. TablesInv /\ [Next]_vars => TablesInv'
  BY TablesNextInv
<1> QED
  BY <1>1, <1>2, PTL DEF Spec

-----------------------------------------------------------------------------
(* What follows from it.                                                   *)

\* daily_operations.py:67: whatever the provider answers, an operation says truly
\* where its distance comes from, for every set of requests and operations.
THEOREM DistancesAttributed == Spec => []DistancesAreAttributed
<1>1. TablesInv => DistancesAreAttributed
  BY DEF TablesInv
<1> QED
  BY <1>1, TablesInvariant, PTL

\* The rows are of their kinds, a dataset and a baseline stand for a whole file, and
\* a seed has done what it reports: OperationsInv, for every length of a file.
THEOREM TablesKept == Spec => []OperationsInv
<1>1. ASSUME TablesInv PROVE TypeOK
  <2>1. ASSUME NEW r \in Requests
        PROVE  /\ jobs[r].rows \in 0 .. MaxRows /\ jobs[r].issues \in 0 .. jobs[r].rows
               /\ jobs[r].at \in {"source"} => jobs[r].kind = "plans"
               /\ jobs[r].at \in {"source", "predict", "save", "insert"} => jobs[r].op \in Drawn
    <3>1. /\ PlaceAgrees(r) /\ RecordAgrees(r)
          /\ jobs[r].rows \in 0 .. MaxRows /\ jobs[r].issues \in 0 .. MaxRows
      BY <1>1, JobFacts
    <3>2. jobs[r].issues <= jobs[r].rows
      BY <3>1 DEF RecordAgrees
    <3>3. jobs[r].issues \in 0 .. jobs[r].rows
      BY <3>1, <3>2
    <3> QED
      BY <3>1, <3>3 DEF PlaceAgrees, RecordAgrees
  <2> QED
    BY <1>1, <2>1 DEF TablesInv, TablesTypeOK, TypeOK
<1>2. ASSUME TablesInv PROVE DatasetsAreWhole
  <2>1. ASSUME NEW d \in datasets, jobs[d.file].kind = "history"
        PROVE  jobs[d.file].answer = "accepted" /\ d.read = jobs[d.file].rows
    <3>1. d.file \in Requests
      BY <1>2 DEF TablesInv, TablesTypeOK, Datasets
    <3>2. HistoryAgrees(d.file)
      BY <1>2, <3>1, JobFacts
    <3> QED
      BY <2>1, <3>2 DEF HistoryAgrees
  <2> QED
    BY <1>2, <2>1 DEF TablesInv, DatasetsAgree, DatasetsAreWhole
<1>3. ASSUME TablesInv PROVE SeededIsReady
  <2>1. ASSUME NEW r \in Requests PROVE HistoryAgrees(r) /\ TrainingAgrees(r)
    BY <1>3, JobFacts
  <2> QED
    BY <2>1 DEF SeededIsReady, HistoryAgrees, TrainingAgrees
<1>4. TablesInv => OperationsInv
  BY <1>1, <1>2, <1>3 DEF OperationsInv
<1> QED
  BY <1>4, TablesInvariant, PTL

\* README.md:229: a record of actual fuel is never replaced silently, however many
\* requests and files name the same operation at once.
THEOREM RecordedFuelKept == Spec => []RecordedFuelIsKept
<1>1. ASSUME TablesInv PROVE RecordedFuelIsKept
  <2>1. ASSUME NEW r \in Requests PROVE RecordingAgrees(r)
    BY <1>1, JobFacts
  <2> QED
    BY <2>1 DEF RecordingAgrees, RecordedFuelIsKept
<1>2. TablesInv => RecordedFuelIsKept
  BY <1>1
<1> QED
  BY <1>2, TablesInvariant, PTL

\* README.md:217: a file of plans leaves at most the operation it was at work on
\* without its source and its prediction, wherever it fails or is killed.
THEOREM BatchesLeaveOneOrphan == Spec => []BatchesLeaveAtMostOneOrphan
<1>1. ASSUME TablesInv, NEW r \in Requests, jobs[r].kind = "plans"
      PROVE  /\ Cardinality(Orphans(r)) <= (IF jobs[r].answer = "accepted" THEN 0 ELSE 1)
             /\ jobs[r].answer = "no_model" => Made(r) = {}
             /\ jobs[r].accepted \subseteq Whole
  <2>1. /\ PlaceAgrees(r) /\ RecordAgrees(r) /\ BatchAgrees(r) /\ jobs[r] \in Jobs
    BY <1>1, JobFacts
  <2>2. jobs[r].at \in {"idle", "rows", "source", "predict", "save", "answered"}
    BY <1>1, <2>1 DEF PlaceAgrees, Jobs, Places
  <2>3. \E o : Orphans(r) \subseteq {o}
    BY <1>1, <2>1, <2>2 DEF BatchAgrees, Orphans
  <2>4. Orphans(r) = {} \/ \E o : Orphans(r) = {o}
    BY <2>3
  <2>5. jobs[r].answer = "accepted" => Orphans(r) = {}
    BY <1>1, <2>1 DEF BatchAgrees
  <2>6. Cardinality(Orphans(r)) \in {0, 1}
    BY <2>4, FS_EmptySet, FS_Singleton
  <2>7. Orphans(r) = {} => Cardinality(Orphans(r)) = 0
    BY FS_EmptySet
  <2>8. jobs[r].answer = "no_model" => Made(r) = {}
    BY <1>1, <2>1 DEF BatchAgrees
  <2> QED
    BY <1>1, <2>1, <2>5, <2>6, <2>7, <2>8 DEF BatchAgrees
<1>2. TablesInv => BatchesLeaveAtMostOneOrphan
  BY <1>1 DEF BatchesLeaveAtMostOneOrphan, Orphans, Made, Whole
<1> QED
  BY <1>2, TablesInvariant, PTL
=============================================================================
