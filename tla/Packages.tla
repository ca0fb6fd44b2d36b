------------------------------ MODULE Packages ------------------------------
(***************************************************************************)
(* A model package from the upload to the activation: ValidateModelPackage *)
(* and the steps it is made of, the promotion policy, the artefact store,  *)
(* RegisterIngestedPackage, the validation records, and what               *)
(* ActivateRetainedModelPackage checks before it loads the stored files.   *)
(*                                                                         *)
(* submit_upload is a coroutine that does not await after it has read the  *)
(* file, so uploads run one at a time; its steps are actions because the   *)
(* process may stop between any two of them.  The members of a package are *)
(* written one file at a time, over whatever the directory of the version  *)
(* already holds.  Activations run in the thread pool and read the files   *)
(* one at a time too, while an upload may be writing them: a file that is  *)
(* being written may be found cut short.  The activation sequence itself   *)
(* is in ModelActivation.                                                  *)
(***************************************************************************)
EXTENDS Integers, FiniteSets, Sequences

CONSTANTS
    Uploads,    \* calls of POST /model/unggah
    Versions,   \* values of the manifest's model_version
    None,
    MaxMae,     \* PromotionPolicy.max_mae_liters, in whole litres
    MaxCrashes  \* bound: restarts of the process

ASSUME NoneIsNoUpload == None \notin Uploads /\ None \notin Versions
ASSUME BoundsAreCounts == MaxMae \in Nat /\ MaxCrashes \in Nat

VARIABLES
    pkg,       \* Uploads -> None, or the package that was sent
    stage,     \* Uploads -> the step the handler is about to take, or how it ended
    pending,   \* Uploads -> members its store call has still to write
    loaded,    \* the uploads whose artefact was given to a model runtime
    dirs,      \* Versions -> the files of the version's directory
    rows,      \* Versions -> None, or the package whose manifest made the row
    records,   \* model_package_validations
    reading,   \* None, or the files an activation has read and those it has still to read
    resident,  \* ActiveModelHolder: None, or what was loaded
    last,      \* history: Versions -> the latest upload whose members were being written
    crashes

vars == <<pkg, stage, pending, loaded, dirs, rows, records, reading, resident, last, crashes>>

-----------------------------------------------------------------------------
(* Packages.  fault is the one thing that is wrong with it, None if nothing. *)

ArchiveFaults == {"too_large", "not_zip", "too_many_members", "expands_too_much",
                  "compressed_too_much", "unsafe_name"}
ManifestFaults == {"no_manifest", "not_json", "schema", "unknown_contract",
                   "unknown_runtime", "feature_twice", "member_without_checksum"}
ChecksumFaults == {"altered", "undeclared_member", "member_missing"}
StatisticsFaults == {"statistics_schema", "statistics_of_other_features"}
SmokeFaults == {"smoke_schema"}
CaseFaults == {"wrong_answer", "case_raises"}
\* Raised as something else than ModelPackageValidationError.
UncaughtFaults == {"trained_at_not_iso", "no_artefact", "not_loadable",
                   "untrusted_type", "fails_to_warm", "many_outputs"}

Faults == ArchiveFaults \cup ManifestFaults \cup ChecksumFaults \cup StatisticsFaults
            \cup SmokeFaults \cup CaseFaults \cup UncaughtFaults

ASSUME NoneIsNoFault == None \notin Faults

Package(v, format, layout, mae, tests, fault) ==
    [version |-> v, format |-> format, layout |-> layout, mae |-> mae,
     enoughTests |-> tests, fault |-> fault]

PackagesOf(v) ==
    {Package(v, "onnx", l, 1, TRUE, None) : l \in {"plain", "extra", "nested"}}
      \cup {Package(v, f, "plain", m, TRUE, None) : f \in {"onnx", "skops"}, m \in 1..2}
      \cup {Package(v, "onnx", "plain", MaxMae + 1, TRUE, None),
            Package(v, "onnx", "plain", 1, FALSE, None)}
      \cup {Package(v, "onnx", "plain", 1, TRUE, f) : f \in Faults}

AllPackages == UNION {PackagesOf(v) : v \in Versions}

ASSUME NoneIsNoPackage == None \notin AllPackages

Artefact(p) == IF p.format = "onnx" THEN "model.onnx" ELSE "model.skops"

\* The names package_checksums holds.  What the packager writes is "plain".
Declared(p) ==
    {"reference-statistics.json", "smoke-tests.json"}
      \cup (IF p.fault = "no_artefact" THEN {} ELSE {Artefact(p)})
      \cup CASE p.layout = "plain" -> {}
             [] p.layout = "extra" -> {"notes.txt"}
             [] p.layout = "nested" -> {"docs/notes.txt"}

\* The names in the archive.
Members(p) ==
    ({"manifest.json"} \cup Declared(p)
        \cup IF p.fault = "undeclared_member" THEN {"notes.txt"} ELSE {})
      \ (IF p.fault = "member_missing" THEN {Artefact(p)} ELSE {})

\* Bytes are told apart by the package and the member they were written for.
Bytes(p, n, intact) == [of |-> p, name |-> n, intact |-> intact]

Archive(p) ==
    [n \in Members(p) |-> Bytes(p, n, ~(p.fault = "altered" /\ n = Artefact(p)))]

-----------------------------------------------------------------------------
(* ValidateModelPackage, step by step.                                     *)

Verifies(files) ==
    LET p == files["manifest.json"].of
        verifiable == DOMAIN files \ {"manifest.json"}
    IN  /\ verifiable = Declared(p)
        /\ \A n \in verifiable : files[n] = Bytes(p, n, TRUE)

ReadMembers(p) == IF p.fault \in ArchiveFaults THEN "refused" ELSE "ok"

\* _build_manifest parses trained_at, whose format the schema does not assert.
ParseManifest(p) ==
    CASE p.fault \in ManifestFaults -> "refused"
      [] p.fault = "trained_at_not_iso" -> "failed"
      [] OTHER -> "ok"

VerifyMemberChecksums(p) == IF Verifies(Archive(p)) THEN "ok" ELSE "refused"

ParseReferenceStatistics(p) == IF p.fault \in StatisticsFaults THEN "refused" ELSE "ok"

ParseSmokeTests(p) == IF p.fault \in SmokeFaults THEN "refused" ELSE "ok"

\* build_loader and load, whose errors are ModelLoadFailedErrors.
LoadArtefact(p) == IF p.fault \in UncaughtFaults THEN "failed" ELSE "ok"

RunCases(p) == IF p.fault \in CaseFaults THEN "refused" ELSE "ok"

Check(step, p) ==
    CASE step = "archive" -> ReadMembers(p)
      [] step = "manifest" -> ParseManifest(p)
      [] step = "checksums" -> VerifyMemberChecksums(p)
      [] step = "statistics" -> ParseReferenceStatistics(p)
      [] step = "smoke tests" -> ParseSmokeTests(p)
      [] step = "load" -> LoadArtefact(p)
      [] step = "cases" -> RunCases(p)

\* The upload calls the policy without the metrics of the active model, so
\* that only its absolute thresholds decide.
Eligible(p) == p.mae <= MaxMae /\ p.enoughTests

-----------------------------------------------------------------------------
\* Mutant of Steps: the verdict is recorded before the version is registered.
StepsRecordingFirst ==
    <<"archive", "manifest", "checksums", "statistics", "smoke tests", "load",
      "cases", "store", "record", "register", "answered">>

\* What submit_upload does with a package that passes, in order.
Steps ==
    <<"archive", "manifest", "checksums", "statistics", "smoke tests", "load",
      "cases", "store", "register", "record", "answered">>

After(step) == Steps[1 + CHOOSE i \in 1..(Len(Steps) - 1) : Steps[i] = step]

Checks == {"archive", "manifest", "checksums", "statistics", "smoke tests", "load", "cases"}
Ended == {"answered", "refused", "failed", "lost"}
InHand(u) == stage[u] \notin Ended \cup {"new"}

NoFiles == [n \in {} |-> None]

Init ==
    /\ pkg = [u \in Uploads |-> None]
    /\ stage = [u \in Uploads |-> "new"]
    /\ pending = [u \in Uploads |-> {}]
    /\ loaded = {}
    /\ dirs = [v \in Versions |-> NoFiles]
    /\ rows = [v \in Versions |-> None]
    /\ records = {}
    /\ reading = None
    /\ resident = None
    /\ last = [v \in Versions |-> None]
    /\ crashes = 0

-----------------------------------------------------------------------------
(* The upload.                                                             *)

Submit(u, p) ==
    /\ stage[u] = "new"
    /\ \A w \in Uploads : ~InHand(w)
    /\ pkg' = [pkg EXCEPT ![u] = p]
    /\ stage' = [stage EXCEPT ![u] = "archive"]
    /\ UNCHANGED <<pending, loaded, dirs, rows, records, reading, resident, last, crashes>>

Record(u, version, outcome, eligible) ==
    [upload |-> u, version |-> version, outcome |-> outcome, eligible |-> eligible]

\* ModelPackageValidationError: the refusal is recorded, then rendered.
Refuse(u) ==
    /\ stage' = [stage EXCEPT ![u] = "refused"]
    /\ records' = records \cup {Record(u, None, "rejected", FALSE)}

\* Any other error leaves the handler as a response 500.
Fail(u) ==
    /\ stage' = [stage EXCEPT ![u] = "failed"]
    /\ UNCHANGED records

Validate(u) ==
    /\ stage[u] \in Checks
    /\ LET outcome == Check(stage[u], pkg[u])
       IN  CASE outcome = "refused" -> Refuse(u)
             [] outcome = "failed" -> Fail(u)
             [] OTHER -> /\ stage' = [stage EXCEPT ![u] = After(stage[u])]
                         /\ UNCHANGED records
    /\ loaded' = IF stage[u] = "load" /\ pkg[u].fault # "no_artefact"
                 THEN loaded \cup {u} ELSE loaded
    /\ UNCHANGED <<pkg, pending, dirs, rows, reading, resident, last, crashes>>

StartStore(u) ==
    /\ stage[u] = "store"
    /\ pending[u] = {}
    /\ stage' = [stage EXCEPT ![u] = "writing"]
    /\ pending' = [pending EXCEPT ![u] = Members(pkg[u])]
    /\ last' = [last EXCEPT ![pkg[u].version] = u]
    /\ UNCHANGED <<pkg, loaded, dirs, rows, records, reading, resident, crashes>>

\* Path(name).name
FileName(n) == IF n = "docs/notes.txt" THEN "notes.txt" ELSE n

\* Mutant of StoreMember: a file that is already there is left alone.
StoreMissingMember(u, n) ==
    /\ stage[u] = "writing"
    /\ LET v == pkg[u].version
       IN  dirs' = [dirs EXCEPT ![v] =
               [f \in DOMAIN @ \cup {FileName(n)} |->
                   IF f \in DOMAIN dirs[v] THEN dirs[v][f] ELSE Archive(pkg[u])[n]]]
    /\ pending' = [pending EXCEPT ![u] = @ \ {n}]
    /\ stage' = IF pending[u] = {n} THEN [stage EXCEPT ![u] = After("store")] ELSE stage
    /\ UNCHANGED <<pkg, loaded, rows, records, reading, resident, last, crashes>>

StoreMember(u, n) ==
    /\ stage[u] = "writing"
    /\ LET v == pkg[u].version
       IN  dirs' = [dirs EXCEPT ![v] =
               [f \in DOMAIN @ \cup {FileName(n)} |->
                   IF f = FileName(n) THEN Archive(pkg[u])[n] ELSE dirs[v][f]]]
    /\ pending' = [pending EXCEPT ![u] = @ \ {n}]
    /\ stage' = IF pending[u] = {n} THEN [stage EXCEPT ![u] = After("store")] ELSE stage
    /\ UNCHANGED <<pkg, loaded, rows, records, reading, resident, last, crashes>>

\* The row of a version that was uploaded before is left as it is.
Register(u) ==
    /\ stage[u] = "register"
    /\ LET v == pkg[u].version
       IN  rows' = IF rows[v] = None THEN [rows EXCEPT ![v] = pkg[u]] ELSE rows
    /\ stage' = [stage EXCEPT ![u] = After("register")]
    /\ UNCHANGED <<pkg, pending, loaded, dirs, records, reading, resident, last, crashes>>

SaveRecord(u) ==
    /\ stage[u] = "record"
    /\ records' = records \cup
           {Record(u, pkg[u].version, "validated", Eligible(pkg[u]))}
    /\ stage' = [stage EXCEPT ![u] = After("record")]
    /\ UNCHANGED <<pkg, pending, loaded, dirs, rows, reading, resident, last, crashes>>

-----------------------------------------------------------------------------
(* The activation of a version, over the files that are there.             *)

FileNames == {"manifest.json", "model.onnx", "model.skops", "reference-statistics.json",
              "smoke-tests.json", "notes.txt"}

\* The files that an upload is about to write, or is writing.
BeingWritten(v) ==
    {FileName(n) : n \in UNION {pending[u] : u \in {w \in Uploads : InHand(w) /\ pkg[w].version = v}}}

\* The directory is listed once; a new file is listed from when it is opened.
StartReading(v) ==
    /\ reading = None
    /\ rows[v] # None
    /\ \E opened \in {{}} \cup {{f} : f \in BeingWritten(v)} :
          reading' = [version |-> v, todo |-> DOMAIN dirs[v] \cup opened, files |-> NoFiles]
    /\ UNCHANGED <<pkg, stage, pending, loaded, dirs, rows, records, resident, last, crashes>>

\* What reading a file may return: what was last written, or a part of what is
\* being written.
Readable(v, f) ==
    {dirs[v][g] : g \in {f} \cap DOMAIN dirs[v]}
      \cup {Bytes(None, g, FALSE) : g \in {f} \cap BeingWritten(v)}

ReadMember(f) ==
    /\ reading # None
    /\ f \in reading.todo
    /\ \E bytes \in Readable(reading.version, f) :
          reading' = [version |-> reading.version, todo |-> reading.todo \ {f},
                      files |-> [g \in DOMAIN reading.files \cup {f} |->
                                    IF g = f THEN bytes ELSE reading.files[g]]]
    /\ UNCHANGED <<pkg, stage, pending, loaded, dirs, rows, records, resident, last, crashes>>

HasManifest(files) ==
    "manifest.json" \in DOMAIN files /\ files["manifest.json"].intact

\* Mutant of Loadable: the stored files are taken as they were accepted.
LoadableUnverified(files) ==
    /\ HasManifest(files)
    /\ "smoke-tests.json" \in DOMAIN files
    /\ Artefact(files["manifest.json"].of) \in DOMAIN files

Loadable(files) == HasManifest(files) /\ Verifies(files)

Loaded(v, files) ==
    LET manifest == files["manifest.json"].of
    IN  [version |-> v, manifest |-> manifest, artefact |-> files[Artefact(manifest)].of,
         cases |-> files["smoke-tests.json"].of]

\* What does not verify is left where it is, and so is the model that serves.
Activate ==
    /\ reading # None
    /\ reading.todo = {}
    /\ resident' = IF Loadable(reading.files)
                   THEN Loaded(reading.version, reading.files) ELSE resident
    /\ reading' = None
    /\ UNCHANGED <<pkg, stage, pending, loaded, dirs, rows, records, last, crashes>>

\* What inspect answers of the files that are there.
Activatable(v) == rows[v] # None /\ Loadable(dirs[v])

Crash ==
    /\ crashes < MaxCrashes
    /\ crashes' = crashes + 1
    /\ stage' = [u \in Uploads |-> IF InHand(u) THEN "lost" ELSE stage[u]]
    /\ pending' = [u \in Uploads |-> {}]
    /\ reading' = None
    /\ resident' = None
    /\ UNCHANGED <<pkg, loaded, dirs, rows, records, last>>

Next ==
    \/ \E u \in Uploads :
           \/ \E p \in AllPackages : Submit(u, p)
           \/ Validate(u)
           \/ StartStore(u)
           \/ \E n \in pending[u] : StoreMember(u, n)
           \/ Register(u)
           \/ SaveRecord(u)
    \/ \E v \in Versions : StartReading(v)
    \/ \E f \in FileNames : ReadMember(f)
    \/ Activate
    \/ Crash

Spec == Init /\ [][Next]_vars

-----------------------------------------------------------------------------
(* Properties.                                                             *)

\* Uploads, directories, rows and records hold only what the code stores, and a
\* directory only files of its own version.
TypeOK ==
    /\ pkg \in [Uploads -> AllPackages \cup {None}]
    /\ stage \in [Uploads -> {Steps[i] : i \in DOMAIN Steps}
                                 \cup {"new", "writing"} \cup Ended]
    /\ \A u \in Uploads : pending[u] # {} => pending[u] \subseteq Members(pkg[u])
    /\ loaded \subseteq Uploads
    /\ DOMAIN dirs = Versions
    /\ \A v \in Versions :
           /\ rows[v] = None \/ rows[v].version = v
           /\ DOMAIN dirs[v] \subseteq FileNames
           /\ \A f \in DOMAIN dirs[v] : dirs[v][f].of.version = v
    /\ \A r \in records :
           r.outcome \in {"validated", "rejected"} /\ r.eligible \in BOOLEAN
    /\ reading = None \/ (/\ reading.version \in Versions
                          /\ reading.todo \subseteq FileNames
                          /\ DOMAIN reading.files \subseteq FileNames)
    /\ resident = None \/ resident.version \in Versions
    /\ last \in [Versions -> Uploads \cup {None}]
    /\ crashes \in 0..MaxCrashes

\* No artefact reaches a model runtime while its bytes, or any other member
\* of its package, differ from what a valid manifest declares (step 3 of
\* ValidateModelPackage "must come before the artefact is touched").
NothingUnverifiedIsLoaded ==
    \A u \in loaded : pkg[u].fault \notin ArchiveFaults \cup ManifestFaults \cup ChecksumFaults

\* A file is kept, and a version registered, only for a package without a
\* fault, whatever happened to the process: neither a refusal nor a failure
\* nor a restart in mid-upload leaves anything of a bad package behind.
OnlySoundPackagesAreKept ==
    \A v \in Versions :
        /\ rows[v] # None => rows[v].fault = None
        /\ \A f \in DOMAIN dirs[v] : dirs[v][f].of.fault = None

\* What the history page says is so: a package it shows as validated is
\* registered and its bytes were all stored, the eligibility shown is that of
\* the policy, and one it shows as rejected had something wrong with it.
RecordsAreTrue ==
    \A r \in records :
        LET p == pkg[r.upload]
        IN  IF r.outcome = "validated"
            THEN /\ rows[r.version] # None
                 /\ \A n \in Members(p) : FileName(n) \in DOMAIN dirs[r.version]
                 /\ r.eligible <=> (p.mae \in 0..MaxMae /\ p.enoughTests)
            ELSE p.fault # None /\ stage[r.upload] = "refused"

\* A page that tells the operator the verdict is never the only trace of it:
\* the record is already there when the answer is given.
AnswersAreRecorded ==
    \A u \in Uploads :
        stage[u] \in {"answered", "refused"} =>
            \E r \in records :
                r.upload = u /\ (r.outcome = "validated" <=> stage[u] = "answered")

\* What is loaded from a directory is one package, whole: the manifest it is
\* described by, the artefact that answers and the cases it was tried on are
\* of the same upload, although uploads of one version overwrite each other's
\* files, before and while they are read, and the process may stop in the middle
\* of one.
ResidentIsOnePackage ==
    resident # None =>
        /\ resident.artefact = resident.manifest
        /\ resident.cases = resident.manifest

\* The uploads of a version that may have written into its directory hold
\* members of the names u holds, none of them in a directory.
NothingIsLeftOver(v, u) ==
    /\ pkg[u].layout # "nested"
    /\ \A w \in Uploads :
           (pkg[w] # None /\ pkg[w].version = v /\ pkg[w].fault = None) =>
               /\ Declared(pkg[w]) \subseteq Declared(pkg[u])
               /\ pkg[w].layout # "nested"

\* What was accepted last can be activated, and is what will be activated: it
\* replaces an earlier upload of its version file by file, repairs one that
\* was cut short, and is not disturbed by packages that are turned away.
\* ("The row exists" and "the bytes exist" are not to drift apart, as
\* retained_package_activation.py puts it; a version uploaded again with fewer
\* member names, or with members in directories, is where they do.)
AcceptedCanBeActivated ==
    \A v \in Versions :
        (/\ last[v] # None
         /\ stage[last[v]] = "answered"
         /\ NothingIsLeftOver(v, last[v])) =>
            /\ Activatable(v)
            /\ dirs[v]["manifest.json"].of = pkg[last[v]]

\* What an upload leaves, at whichever step it is refused, fails or loses its process:
\* nothing unverified loaded, nothing unsound kept, and a true record of each answer.
PackagesInv ==
    TypeOK /\ NothingUnverifiedIsLoaded /\ OnlySoundPackagesAreKept /\ RecordsAreTrue /\ AnswersAreRecorded
=============================================================================
