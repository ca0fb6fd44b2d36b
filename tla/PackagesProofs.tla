---------------------------- MODULE PackagesProofs ----------------------------
(* Proofs about Packages, for every set of uploads and versions, every     *)
(* threshold of the policy and every number of restarts.                   *)
EXTENDS Packages, TLAPS

-----------------------------------------------------------------------------
(* The inductive invariant.                                                *)

\* The steps after which a package has been found sound.
Sound == {"store", "writing", "register", "record", "answered"}

Stages == {"new", "refused", "failed", "lost"} \cup Checks \cup Sound

\* The files that a package leaves in a directory.
Files(p) == {FileName(n) : n \in Members(p)}

StoreTypeOK ==
    /\ pkg \in [Uploads -> AllPackages \cup {None}]
    /\ stage \in [Uploads -> Stages]
    /\ pending \in [Uploads -> SUBSET (FileNames \cup {"docs/notes.txt"})]
    /\ loaded \subseteq Uploads
    /\ dirs = [v \in Versions |-> dirs[v]]
    /\ rows \in [Versions -> AllPackages \cup {None}]
    /\ resident = None \/ resident.version \in Versions
    /\ last \in [Versions -> Uploads \cup {None}]
    /\ crashes \in 0..MaxCrashes

\* What the checks that u has passed rule out.
Cleared(u) ==
    /\ stage[u] \in {"manifest", "checksums", "statistics", "smoke tests", "load", "cases"} =>
         pkg[u].fault \notin ArchiveFaults
    /\ stage[u] \in {"checksums", "statistics", "smoke tests", "load", "cases"} =>
         pkg[u].fault \notin ManifestFaults \cup {"trained_at_not_iso"}
    /\ stage[u] \in {"statistics", "smoke tests", "load", "cases"} =>
         pkg[u].fault \notin ChecksumFaults
    /\ stage[u] \in {"smoke tests", "load", "cases"} => pkg[u].fault \notin StatisticsFaults
    /\ stage[u] \in {"load", "cases"} => pkg[u].fault \notin SmokeFaults
    /\ stage[u] = "cases" => pkg[u].fault \notin UncaughtFaults
    /\ stage[u] \in Sound => pkg[u].fault = None

\* What has been written for u, up to the step it is at.
Written(u) ==
    LET p == pkg[u] IN
    /\ stage[u] # "writing" => pending[u] = {}
    /\ stage[u] = "writing" => pending[u] \subseteq Members(p) /\ last[p.version] = u
    /\ stage[u] \in {"writing", "register", "record", "answered"} =>
         \A n \in Members(p) \ pending[u] : FileName(n) \in DOMAIN dirs[p.version]
    /\ stage[u] \in {"record", "answered"} => rows[p.version] # None
    /\ stage[u] \in {"answered", "refused"} =>
         \E r \in records : r.upload = u /\ (r.outcome = "validated" <=> stage[u] = "answered")

UploadAgrees(u) ==
    /\ stage[u] # "new" => pkg[u] \in AllPackages
    /\ Cleared(u)
    /\ Written(u)
    /\ u \in loaded =>
         /\ stage[u] # "new"
         /\ pkg[u].fault \notin ArchiveFaults \cup ManifestFaults \cup ChecksumFaults

\* Each file of a directory, and the row, come from a sound upload of the version.
DirectoryAgrees(v) ==
    /\ \A f \in DOMAIN dirs[v] :
         /\ f \in FileNames /\ dirs[v][f].of.version = v /\ dirs[v][f].of.fault = None
         /\ \E w \in Uploads : /\ stage[w] # "new" /\ pkg[w].version = v /\ pkg[w].fault = None
                               /\ f \in Files(pkg[w])
    /\ rows[v] # None => rows[v].version = v /\ rows[v].fault = None

\* What the last upload has written is there as it was sent.
LastAgrees(v) ==
    last[v] # None =>
        LET u == last[v] IN
        /\ stage[u] # "new" /\ pkg[u].version = v
        /\ stage[u] \in {"writing", "register", "record", "answered"} =>
             \A n \in Members(pkg[u]) \ pending[u] :
                 dirs[v][FileName(n)] = Archive(pkg[u])[n]

RecordAgrees(r) ==
    LET p == pkg[r.upload] IN
    /\ r.upload \in Uploads /\ r.outcome \in {"validated", "rejected"} /\ r.eligible \in BOOLEAN
    /\ r.outcome = "validated" =>
         /\ stage[r.upload] = "answered" /\ r.version = p.version
         /\ r.eligible <=> Eligible(p)
    /\ r.outcome = "rejected" => p.fault # None /\ stage[r.upload] = "refused"

\* An activation has read files of sound packages, or parts of files.
ReadingAgrees ==
    reading # None =>
        /\ reading.version \in Versions
        /\ reading.todo \subseteq FileNames
        /\ \A f \in DOMAIN reading.files :
             /\ f \in FileNames
             /\ reading.files[f].intact => reading.files[f].of.fault = None

OneAtATime == \A u, w \in Uploads : InHand(u) /\ InHand(w) => u = w

\* The strengthening behind the invariants of Packages.
StoreInv ==
    /\ StoreTypeOK
    /\ OneAtATime
    /\ \A u \in Uploads : UploadAgrees(u)
    /\ \A v \in Versions : DirectoryAgrees(v) /\ LastAgrees(v)
    /\ \A r \in records : RecordAgrees(r)
    /\ ReadingAgrees
    /\ ResidentIsOnePackage

-----------------------------------------------------------------------------
(* Packages and steps.                                                     *)

\* What a package is made of.
LEMMA PackageFacts ==
    ASSUME NEW p \in AllPackages
    PROVE  /\ p.version \in Versions /\ p.format \in {"onnx", "skops"}
           /\ p.layout \in {"plain", "extra", "nested"} /\ p.mae \in Nat
           /\ p.enoughTests \in BOOLEAN /\ p.fault \in Faults \cup {None}
           /\ p.fault # None => p.layout = "plain"
           /\ p # None
<1>1. PICK v \in Versions : p \in PackagesOf(v)
  BY DEF AllPackages
<1>2. p # None
  BY NoneIsNoPackage
<1>3. CASE \E l \in {"plain", "extra", "nested"} : p = Package(v, "onnx", l, 1, TRUE, None)
  BY <1>2, <1>3 DEF Package
<1>4. CASE \E f \in {"onnx", "skops"}, m \in 1..2 : p = Package(v, f, "plain", m, TRUE, None)
  BY <1>2, <1>4 DEF Package
<1>5. CASE p = Package(v, "onnx", "plain", MaxMae + 1, TRUE, None)
  BY <1>2, <1>5, BoundsAreCounts DEF Package
<1>6. CASE p = Package(v, "onnx", "plain", 1, FALSE, None)
  BY <1>2, <1>6 DEF Package
<1>7. CASE \E f \in Faults : p = Package(v, "onnx", "plain", 1, TRUE, f)
  BY <1>2, <1>7 DEF Package
<1>8. \/ \E l \in {"plain", "extra", "nested"} : p = Package(v, "onnx", l, 1, TRUE, None)
      \/ \E f \in {"onnx", "skops"}, m \in 1..2 : p = Package(v, f, "plain", m, TRUE, None)
      \/ p = Package(v, "onnx", "plain", MaxMae + 1, TRUE, None)
      \/ p = Package(v, "onnx", "plain", 1, FALSE, None)
      \/ \E f \in Faults : p = Package(v, "onnx", "plain", 1, TRUE, f)
  BY <1>1 DEF PackagesOf, Package
<1> QED
  BY <1>3, <1>4, <1>5, <1>6, <1>7, <1>8

\* The steps in order.
LEMMA AfterStep ==
    /\ After("archive") = "manifest" /\ After("manifest") = "checksums"
    /\ After("checksums") = "statistics" /\ After("statistics") = "smoke tests"
    /\ After("smoke tests") = "load" /\ After("load") = "cases" /\ After("cases") = "store"
    /\ After("store") = "register" /\ After("register") = "record"
    /\ After("record") = "answered"
<1>1. /\ Len(Steps) = 11
      /\ Steps[1] = "archive" /\ Steps[2] = "manifest" /\ Steps[3] = "checksums"
      /\ Steps[4] = "statistics" /\ Steps[5] = "smoke tests" /\ Steps[6] = "load"
      /\ Steps[7] = "cases" /\ Steps[8] = "store" /\ Steps[9] = "register"
      /\ Steps[10] = "record" /\ Steps[11] = "answered"
  BY DEF Steps
<1>2. \A i \in 1..10 : i = 1 \/ i = 2 \/ i = 3 \/ i = 4 \/ i = 5 \/ i = 6 \/ i = 7 \/ i = 8
                       \/ i = 9 \/ i = 10
  OBVIOUS
<1>3. ASSUME NEW k \in 1..10
      PROVE  After(Steps[k]) = Steps[1 + k]
  <2>1. \A i \in 1..10 : Steps[i] = Steps[k] => i = k
    BY <1>1, <1>2
  <2> DEFINE i == CHOOSE i \in 1..(Len(Steps) - 1) : Steps[i] = Steps[k]
  <2>2. Len(Steps) - 1 = 10
    <3>1. Len(Steps) = 11
      BY <1>1
    <3> HIDE DEF i
    <3> QED
      BY <3>1
  <2>3. \E j \in 1..(Len(Steps) - 1) : Steps[j] = Steps[k]
    BY <2>2
  <2>4. i \in 1..10 /\ Steps[i] = Steps[k]
    BY <2>2, <2>3
  <2>5. i = k
    BY <2>1, <2>4
  <2> QED
    BY <2>5 DEF After
<1>4. /\ 1 + 1 = 2 /\ 1 + 2 = 3 /\ 1 + 3 = 4 /\ 1 + 4 = 5 /\ 1 + 5 = 6 /\ 1 + 6 = 7
      /\ 1 + 7 = 8 /\ 1 + 8 = 9 /\ 1 + 9 = 10 /\ 1 + 10 = 11
  OBVIOUS
<1>5. After(Steps[1]) = Steps[2] /\ After(Steps[2]) = Steps[3] /\ After(Steps[3]) = Steps[4]
  BY <1>3, <1>4
<1>6. After(Steps[4]) = Steps[5] /\ After(Steps[5]) = Steps[6] /\ After(Steps[6]) = Steps[7]
  BY <1>3, <1>4
<1>7. After(Steps[7]) = Steps[8] /\ After(Steps[8]) = Steps[9] /\ After(Steps[9]) = Steps[10]
      /\ After(Steps[10]) = Steps[11]
  BY <1>3, <1>4
<1> QED
  BY <1>1, <1>5, <1>6, <1>7

\* The names of the members, and of the files they become: one file each in a package
\* that is sound.
LEMMA MemberNames ==
    ASSUME NEW p \in AllPackages
    PROVE  /\ Members(p) \subseteq FileNames \cup {"docs/notes.txt"} /\ Files(p) \subseteq FileNames
           /\ p.fault = None =>
                /\ Members(p) = {"manifest.json"} \cup Declared(p)
                /\ "manifest.json" \in Members(p) /\ "manifest.json" \notin Declared(p)
                /\ "smoke-tests.json" \in Declared(p) /\ Artefact(p) \in Declared(p)
                /\ \A n, m \in Members(p) : FileName(n) = FileName(m) => n = m
                /\ p.layout # "nested" => \A n \in Members(p) : FileName(n) = n
<1>1. /\ p.format \in {"onnx", "skops"} /\ p.layout \in {"plain", "extra", "nested"}
      /\ p.fault # None => p.layout = "plain"
  BY PackageFacts
<1>2. Artefact(p) \in {"model.onnx", "model.skops"}
  BY DEF Artefact
<1>3. Declared(p) \subseteq {"reference-statistics.json", "smoke-tests.json", Artefact(p),
                             "notes.txt", "docs/notes.txt"}
  BY <1>1 DEF Declared
<1>4. Members(p) \subseteq FileNames \cup {"docs/notes.txt"}
  BY <1>2, <1>3 DEF Members, FileNames
<1>5. Files(p) \subseteq FileNames
  BY <1>4 DEF Files, FileName, FileNames
<1>6. ASSUME p.fault = None
      PROVE  /\ Members(p) = {"manifest.json"} \cup Declared(p)
             /\ "manifest.json" \in Members(p) /\ "manifest.json" \notin Declared(p)
             /\ "smoke-tests.json" \in Declared(p) /\ Artefact(p) \in Declared(p)
             /\ \A n, m \in Members(p) : FileName(n) = FileName(m) => n = m
             /\ p.layout # "nested" => \A n \in Members(p) : FileName(n) = n
  <2>1. /\ p.fault # "no_artefact" /\ p.fault # "undeclared_member" /\ p.fault # "member_missing"
    BY <1>6, NoneIsNoFault DEF Faults, UncaughtFaults, ChecksumFaults
  <2>2. Members(p) = {"manifest.json"} \cup Declared(p)
    BY <2>1 DEF Members
  <2>3. "manifest.json" \notin Declared(p)
    BY <1>2, <1>3
  <2>4. "smoke-tests.json" \in Declared(p) /\ Artefact(p) \in Declared(p)
    BY <2>1 DEF Declared
  <2>5. "docs/notes.txt" \in Declared(p) <=> p.layout = "nested"
    BY <1>1, <1>2, <2>1 DEF Declared
  <2>6. "notes.txt" \in Declared(p) <=> p.layout = "extra"
    BY <1>1, <1>2, <2>1 DEF Declared
  <2>7. \A n, m \in Members(p) : FileName(n) = FileName(m) => n = m
    BY <2>2, <2>5, <2>6 DEF FileName
  <2>8. p.layout # "nested" => \A n \in Members(p) : FileName(n) = n
    BY <2>2, <2>5 DEF FileName
  <2> QED
    BY <2>2, <2>3, <2>4, <2>7, <2>8
<1> QED
  BY <1>4, <1>5, <1>6

\* The checksums find out what was altered, added or left out, and nothing else.
LEMMA ChecksumsDecide ==
    ASSUME NEW p \in AllPackages
    PROVE  /\ p.fault \in ChecksumFaults => VerifyMemberChecksums(p) = "refused"
           /\ p.fault = None => VerifyMemberChecksums(p) = "ok"
           /\ VerifyMemberChecksums(p) \in {"ok", "refused"}
<1>1. /\ DOMAIN Archive(p) = Members(p)
      /\ \A n \in Members(p) :
           Archive(p)[n] = Bytes(p, n, ~(p.fault = "altered" /\ n = Artefact(p)))
  BY DEF Archive
<1>2. "manifest.json" \in Members(p)
  BY DEF Members, Artefact
<1>3. Archive(p)["manifest.json"].of = p
  BY <1>1, <1>2 DEF Bytes
<1>4. Verifies(Archive(p)) <=>
        /\ Members(p) \ {"manifest.json"} = Declared(p)
        /\ \A n \in Members(p) \ {"manifest.json"} : Archive(p)[n] = Bytes(p, n, TRUE)
  BY <1>1, <1>3 DEF Verifies
<1>5. CASE p.fault = "altered"
  <2>1. Artefact(p) \in Declared(p) /\ Artefact(p) \in Members(p) \ {"manifest.json"}
    BY <1>5 DEF Declared, Members, Artefact
  <2>2. Archive(p)[Artefact(p)] = Bytes(p, Artefact(p), FALSE)
    BY <1>1, <1>5, <2>1 DEF Bytes
  <2>3. Archive(p)[Artefact(p)] # Bytes(p, Artefact(p), TRUE)
    BY <2>2 DEF Bytes
  <2> QED
    BY <1>4, <1>5, <2>1, <2>3, NoneIsNoFault DEF VerifyMemberChecksums, Faults, ChecksumFaults
<1>6. CASE p.fault = "undeclared_member"
  <2>1. p.layout = "plain" /\ p.fault # None
    BY <1>6, PackageFacts, NoneIsNoFault DEF Faults, ChecksumFaults
  <2>2. "notes.txt" \in Members(p) \ {"manifest.json"}
    BY <1>6 DEF Members
  <2>3. "notes.txt" \notin Declared(p)
    BY <2>1 DEF Declared, Artefact
  <2> QED
    BY <1>4, <1>6, <2>1, <2>2, <2>3 DEF VerifyMemberChecksums
<1>7. CASE p.fault = "member_missing"
  <2>1. p.fault # None
    BY <1>7, NoneIsNoFault DEF Faults, ChecksumFaults
  <2>2. Artefact(p) \notin Members(p) /\ Artefact(p) \in Declared(p)
    BY <1>7 DEF Members, Declared
  <2> QED
    BY <1>4, <1>7, <2>1, <2>2 DEF VerifyMemberChecksums
<1>8. CASE p.fault \notin ChecksumFaults
  <2>1. ASSUME p.fault = None PROVE VerifyMemberChecksums(p) = "ok"
    <3>1. Members(p) = {"manifest.json"} \cup Declared(p) /\ "manifest.json" \notin Declared(p)
      BY <2>1, MemberNames
    <3>2. \A n \in Members(p) : Archive(p)[n] = Bytes(p, n, TRUE)
      BY <1>1, <1>8 DEF ChecksumFaults, Bytes
    <3> QED
      BY <1>4, <3>1, <3>2 DEF VerifyMemberChecksums
  <2> QED
    BY <1>8, <2>1 DEF VerifyMemberChecksums
<1> QED
  BY <1>5, <1>6, <1>7, <1>8 DEF ChecksumFaults

-----------------------------------------------------------------------------
(* What a step of one upload leaves of the rest.                           *)

\* Only u is at work, and what is stored, registered and recorded stays.
Moves(u) ==
    /\ \A w \in Uploads \ {u} : /\ ~InHand(w) /\ pkg'[w] = pkg[w] /\ stage'[w] = stage[w]
                                /\ pending'[w] = pending[w]
    /\ stage[u] # "new" => pkg'[u] = pkg[u]
    /\ stage'[u] # "new"
    /\ \A v \in Versions : /\ DOMAIN dirs[v] \subseteq DOMAIN dirs'[v]
                           /\ rows[v] # None => rows'[v] = rows[v]
    /\ records \subseteq records'
    /\ loaded' \subseteq loaded \cup {u}

\* The facts each step starts from.
LEMMA UploadFacts ==
    ASSUME StoreInv, NEW u \in Uploads
    PROVE  /\ StoreTypeOK /\ UploadAgrees(u) /\ Cleared(u) /\ Written(u) /\ stage[u] \in Stages
           /\ stage[u] # "new" => pkg[u] \in AllPackages /\ pkg[u].version \in Versions
           /\ InHand(u) => \A w \in Uploads \ {u} : ~InHand(w)
<1>1. StoreTypeOK /\ UploadAgrees(u) /\ OneAtATime
  BY DEF StoreInv
<1>2. stage[u] # "new" => pkg[u] \in AllPackages
  BY <1>1 DEF UploadAgrees
<1>3. stage[u] # "new" => pkg[u].version \in Versions
  BY <1>2, PackageFacts
<1>4. InHand(u) => \A w \in Uploads \ {u} : ~InHand(w)
  BY <1>1 DEF OneAtATime
<1> QED
  BY <1>1, <1>2, <1>3, <1>4 DEF UploadAgrees, StoreTypeOK

\* The other uploads agree as before.
LEMMA BystandersAgree ==
    ASSUME StoreInv, NEW u \in Uploads, Moves(u), NEW w \in Uploads \ {u}
    PROVE  UploadAgrees(w)'
<1>1. /\ UploadAgrees(w) /\ Cleared(w) /\ Written(w)
      /\ stage[w] # "new" => pkg[w].version \in Versions
  BY UploadFacts
<1>2. /\ pkg'[w] = pkg[w] /\ stage'[w] = stage[w] /\ pending'[w] = pending[w] /\ ~InHand(w)
  BY DEF Moves
<1>3. stage[w] # "writing"
  BY <1>2 DEF InHand, Ended
<1>4. Cleared(w)'
  BY <1>1, <1>2 DEF Cleared
<1>5. Written(w)'
  <2>1. ASSUME stage[w] \in {"register", "record", "answered"}, NEW n \in Members(pkg[w]) \ pending[w]
        PROVE  FileName(n) \in DOMAIN dirs'[pkg[w].version]
    <3>1. FileName(n) \in DOMAIN dirs[pkg[w].version] /\ pkg[w].version \in Versions
      BY <1>1, <2>1 DEF Written
    <3> QED
      BY <3>1 DEF Moves
  <2>2. stage[w] \in {"record", "answered"} => rows'[pkg[w].version] # None
    BY <1>1 DEF Written, Moves
  <2>3. stage[w] \in {"answered", "refused"} =>
          \E r \in records' : r.upload = w /\ (r.outcome = "validated" <=> stage[w] = "answered")
    BY <1>1 DEF Written, Moves
  <2>4. pending[w] = {}
    BY <1>1, <1>3 DEF Written
  <2> QED
    BY <1>2, <1>3, <2>1, <2>2, <2>3, <2>4 DEF Written
<1>6. w \in loaded' => w \in loaded
  BY DEF Moves
<1> QED
  BY <1>1, <1>2, <1>4, <1>5, <1>6 DEF UploadAgrees

\* What is left to show of a step of u.
LEMMA OneMoves ==
    ASSUME StoreInv, NEW u \in Uploads, Moves(u), StoreTypeOK', UploadAgrees(u)',
           \A v \in Versions : DirectoryAgrees(v)' /\ LastAgrees(v)',
           \A r \in records' : RecordAgrees(r)', UNCHANGED <<reading, resident>>
    PROVE  StoreInv'
<1>1. OneAtATime'
  BY DEF Moves, OneAtATime, InHand
<1>2. \A w \in Uploads : UploadAgrees(w)'
  BY BystandersAgree
<1>3. ResidentIsOnePackage' /\ ReadingAgrees'
  BY DEF StoreInv, ResidentIsOnePackage, ReadingAgrees
<1> QED
  BY <1>1, <1>2, <1>3 DEF StoreInv

\* Directories that are left alone have their files from the same uploads.
LEMMA DirectoriesStay ==
    ASSUME StoreInv, NEW u \in Uploads, Moves(u), UNCHANGED <<dirs, rows>>
    PROVE  \A v \in Versions : DirectoryAgrees(v)'
<1>1. \A w \in Uploads : stage[w] # "new" => stage'[w] # "new" /\ pkg'[w] = pkg[w]
  BY DEF Moves
<1> QED
  BY <1>1 DEF StoreInv, DirectoryAgrees

\* The records that are there are of other uploads.
LEMMA RecordsStay ==
    ASSUME StoreInv, NEW u \in Uploads, Moves(u), stage[u] \notin {"answered", "refused"}
    PROVE  \A r \in records : RecordAgrees(r)'
<1> SUFFICES ASSUME NEW r \in records PROVE RecordAgrees(r)'
  OBVIOUS
<1>1. RecordAgrees(r)
  BY DEF StoreInv
<1>2. r.upload \in Uploads \ {u}
  BY <1>1 DEF RecordAgrees
<1>3. pkg'[r.upload] = pkg[r.upload] /\ stage'[r.upload] = stage[r.upload]
  BY <1>2 DEF Moves
<1> QED
  BY <1>1, <1>3 DEF RecordAgrees

\* A step of u that is not at the files leaves what the last uploads have written.
LEMMA LastStays ==
    ASSUME StoreInv, NEW u \in Uploads, Moves(u), UNCHANGED <<dirs, last>>,
           \/ stage'[u] \notin {"writing", "register", "record", "answered"}
           \/ /\ stage[u] \in {"writing", "register", "record", "answered"}
              /\ pending'[u] = pending[u]
    PROVE  \A v \in Versions : LastAgrees(v)'
<1> SUFFICES ASSUME NEW v \in Versions, last[v] # None PROVE LastAgrees(v)'
  BY DEF LastAgrees
<1>1. LastAgrees(v) /\ last[v] \in Uploads
  BY DEF StoreInv, StoreTypeOK
<1>2. CASE last[v] = u
  BY <1>1, <1>2 DEF LastAgrees, Moves
<1>3. CASE last[v] # u
  <2>1. /\ pkg'[last[v]] = pkg[last[v]] /\ stage'[last[v]] = stage[last[v]]
        /\ pending'[last[v]] = pending[last[v]]
    BY <1>1, <1>3 DEF Moves
  <2> QED
    BY <1>1, <2>1 DEF LastAgrees
<1> QED
  BY <1>2, <1>3

-----------------------------------------------------------------------------
(* The steps of an upload.                                                 *)

\* A package is sent.
LEMMA SubmitPreserves ==
    ASSUME StoreInv, NEW u \in Uploads, NEW p \in AllPackages, Submit(u, p)
    PROVE  StoreInv'
<1>1. StoreTypeOK /\ UploadAgrees(u) /\ Written(u)
  BY UploadFacts
<1>2. /\ stage[u] = "new" /\ \A w \in Uploads : ~InHand(w)
      /\ pkg' = [pkg EXCEPT ![u] = p] /\ stage' = [stage EXCEPT ![u] = "archive"]
      /\ UNCHANGED <<pending, loaded, dirs, rows, records, reading, resident, last, crashes>>
  BY DEF Submit
<1>3. StoreTypeOK'
  BY <1>1, <1>2 DEF StoreTypeOK, Stages, Checks
<1>4. pkg'[u] = p /\ stage'[u] = "archive"
  BY <1>1, <1>2 DEF StoreTypeOK
<1>5. Moves(u)
  BY <1>1, <1>2, <1>4 DEF Moves, StoreTypeOK
<1>6. UploadAgrees(u)'
  <2>1. Cleared(u)'
    BY <1>4 DEF Cleared, Sound
  <2>2. Written(u)'
    BY <1>1, <1>2, <1>4 DEF Written
  <2> QED
    BY <1>1, <1>2, <1>4, <2>1, <2>2 DEF UploadAgrees
<1>7. \A v \in Versions : DirectoryAgrees(v)' /\ LastAgrees(v)'
  BY <1>2, <1>4, <1>5, DirectoriesStay, LastStays
<1>8. \A r \in records' : RecordAgrees(r)'
  BY <1>2, <1>5, RecordsStay
<1> QED
  BY <1>2, <1>3, <1>5, <1>6, <1>7, <1>8, OneMoves

\* What a check that is passed rules out, and what a refusal is for.
LEMMA ChecksRuleOut ==
    ASSUME NEW p \in AllPackages, NEW step \in Checks
    PROVE  /\ Check(step, p) \in {"ok", "refused", "failed"}
           /\ Check(step, p) = "refused" => p.fault # None
           /\ Check(step, p) = "ok" =>
                /\ step = "archive" => p.fault \notin ArchiveFaults
                /\ step = "manifest" => p.fault \notin ManifestFaults \cup {"trained_at_not_iso"}
                /\ step = "checksums" => p.fault \notin ChecksumFaults
                /\ step = "statistics" => p.fault \notin StatisticsFaults
                /\ step = "smoke tests" => p.fault \notin SmokeFaults
                /\ step = "load" => p.fault \notin UncaughtFaults
                /\ step = "cases" => p.fault \notin CaseFaults
<1>1. None \notin ArchiveFaults \cup ManifestFaults \cup StatisticsFaults \cup SmokeFaults
                    \cup CaseFaults
  BY NoneIsNoFault DEF Faults
<1>2. CASE step = "archive"
  BY <1>1, <1>2 DEF Check, ReadMembers
<1>3. CASE step = "manifest"
  BY <1>1, <1>3 DEF Check, ParseManifest, ManifestFaults
<1>4. CASE step = "checksums"
  BY <1>4, ChecksumsDecide DEF Check
<1>5. CASE step = "statistics"
  BY <1>1, <1>5 DEF Check, ParseReferenceStatistics
<1>6. CASE step = "smoke tests"
  BY <1>1, <1>6 DEF Check, ParseSmokeTests
<1>7. CASE step = "load"
  BY <1>7 DEF Check, LoadArtefact
<1>8. CASE step = "cases"
  BY <1>1, <1>8 DEF Check, RunCases
<1> QED
  BY <1>2, <1>3, <1>4, <1>5, <1>6, <1>7, <1>8 DEF Checks

\* A check is passed, or ends the upload.
LEMMA ValidatePreserves ==
    ASSUME StoreInv, NEW u \in Uploads, Validate(u)
    PROVE  StoreInv'
<1> DEFINE p == pkg[u]
           outcome == Check(stage[u], p)
           refusal == Record(u, None, "rejected", FALSE)
<1>1. /\ StoreTypeOK /\ UploadAgrees(u) /\ Cleared(u) /\ Written(u) /\ stage[u] \in Checks
  BY UploadFacts DEF Validate
<1>2. /\ InHand(u) /\ stage[u] # "new" /\ stage[u] \notin {"answered", "refused", "writing"}
      /\ stage[u] \notin Sound
  BY <1>1 DEF InHand, Ended, Checks, Sound
<1>3. p \in AllPackages /\ \A w \in Uploads \ {u} : ~InHand(w)
  BY <1>2, UploadFacts
<1>4. /\ outcome \in {"ok", "refused", "failed"}
      /\ outcome = "refused" => p.fault # None
      /\ outcome = "ok" =>
           /\ stage[u] = "archive" => p.fault \notin ArchiveFaults
           /\ stage[u] = "manifest" => p.fault \notin ManifestFaults \cup {"trained_at_not_iso"}
           /\ stage[u] = "checksums" => p.fault \notin ChecksumFaults
           /\ stage[u] = "statistics" => p.fault \notin StatisticsFaults
           /\ stage[u] = "smoke tests" => p.fault \notin SmokeFaults
           /\ stage[u] = "load" => p.fault \notin UncaughtFaults
           /\ stage[u] = "cases" => p.fault \notin CaseFaults
  BY <1>1, <1>3, ChecksRuleOut
<1>5. UNCHANGED <<pkg, pending, dirs, rows, reading, resident, last, crashes>>
  BY DEF Validate
<1>6. /\ outcome = "refused" => /\ stage' = [stage EXCEPT ![u] = "refused"]
                                /\ records' = records \cup {refusal}
      /\ outcome = "failed" => stage' = [stage EXCEPT ![u] = "failed"] /\ records' = records
      /\ outcome = "ok" => /\ stage' = [stage EXCEPT ![u] = After(stage[u])]
                           /\ records' = records
  BY DEF Validate, Refuse, Fail
<1>7. loaded \subseteq loaded' /\ loaded' \subseteq loaded \cup {u}
      /\ (u \in loaded' => u \in loaded \/ stage[u] = "load")
  BY DEF Validate
<1>8. refusal.upload = u /\ refusal.outcome = "rejected" /\ refusal.eligible = FALSE
  BY DEF Record
<1> HIDE DEF outcome, refusal
<1>9. /\ stage' = [stage EXCEPT ![u] = stage'[u]]
      /\ outcome = "refused" => stage'[u] = "refused"
      /\ outcome = "failed" => stage'[u] = "failed"
      /\ outcome = "ok" => stage'[u] = After(stage[u])
  BY <1>1, <1>4, <1>6 DEF StoreTypeOK
<1>10. stage'[u] \in (Checks \ {"archive"}) \cup {"store", "refused", "failed"}
  BY <1>1, <1>4, <1>9, AfterStep DEF Checks
<1>11. StoreTypeOK'
  <2>1. stage'[u] \in Stages
    BY <1>10 DEF Stages, Sound, Checks
  <2>2. stage' \in [Uploads -> Stages]
    BY <1>1, <1>9, <2>1 DEF StoreTypeOK
  <2>3. loaded' \subseteq Uploads
    BY <1>1, <1>7 DEF StoreTypeOK
  <2> QED
    BY <1>1, <1>5, <2>2, <2>3 DEF StoreTypeOK
<1>12. Moves(u)
  <2>1. \A w \in Uploads \ {u} : stage'[w] = stage[w]
    BY <1>1, <1>9 DEF StoreTypeOK
  <2>2. records \subseteq records'
    BY <1>4, <1>6
  <2>3. stage'[u] # "new"
    BY <1>10 DEF Checks
  <2> QED
    BY <1>3, <1>5, <1>7, <2>1, <2>2, <2>3 DEF Moves
<1>13. Cleared(u)'
  <2>1. CASE outcome \in {"refused", "failed"}
    <3>1. stage'[u] \in {"refused", "failed"}
      BY <1>9, <2>1
    <3> QED
      BY <3>1 DEF Cleared, Sound
  <2>2. CASE outcome = "ok" /\ stage[u] # "cases"
    <3>1. stage'[u] = After(stage[u])
      BY <1>9, <2>2
    <3>2. CASE stage[u] = "archive"
      BY <1>4, <1>5, <2>2, <3>1, <3>2, AfterStep DEF Cleared, Sound
    <3>3. CASE stage[u] = "manifest"
      BY <1>1, <1>4, <1>5, <2>2, <3>1, <3>3, AfterStep DEF Cleared, Sound
    <3>4. CASE stage[u] = "checksums"
      BY <1>1, <1>4, <1>5, <2>2, <3>1, <3>4, AfterStep DEF Cleared, Sound
    <3>5. CASE stage[u] = "statistics"
      BY <1>1, <1>4, <1>5, <2>2, <3>1, <3>5, AfterStep DEF Cleared, Sound
    <3>6. CASE stage[u] = "smoke tests"
      BY <1>1, <1>4, <1>5, <2>2, <3>1, <3>6, AfterStep DEF Cleared, Sound
    <3>7. CASE stage[u] = "load"
      BY <1>1, <1>4, <1>5, <2>2, <3>1, <3>7, AfterStep DEF Cleared, Sound
    <3> QED
      BY <1>1, <2>2, <3>2, <3>3, <3>4, <3>5, <3>6, <3>7 DEF Checks
  <2>3. CASE outcome = "ok" /\ stage[u] = "cases"
    <3>1. stage'[u] = "store"
      BY <1>9, <2>3, AfterStep
    <3>2. p.fault \notin Faults
      BY <1>1, <1>4, <2>3 DEF Cleared, Faults
    <3>3. p.fault = None
      BY <1>3, <3>2, PackageFacts
    <3> QED
      BY <1>5, <3>1, <3>3 DEF Cleared, Sound
  <2> QED
    BY <1>4, <2>1, <2>2, <2>3
<1>14. Written(u)'
  <2>1. pending[u] = {} /\ pending'[u] = {}
    BY <1>1, <1>2, <1>5 DEF Written
  <2>2. stage'[u] \notin {"writing", "register", "record", "answered"}
    BY <1>10 DEF Checks
  <2>3. stage'[u] = "refused" => refusal \in records'
    BY <1>4, <1>6, <1>9, <1>1, AfterStep DEF Checks
  <2> QED
    BY <1>8, <2>1, <2>2, <2>3 DEF Written
<1>15. UploadAgrees(u)'
  <2>1. ASSUME u \in loaded'
        PROVE  p.fault \notin ArchiveFaults \cup ManifestFaults \cup ChecksumFaults
    BY <1>1, <1>7, <2>1 DEF UploadAgrees, Cleared
  <2> QED
    BY <1>3, <1>5, <1>12, <1>13, <1>14, <2>1 DEF UploadAgrees, Moves
<1>16. \A v \in Versions : DirectoryAgrees(v)' /\ LastAgrees(v)'
  <2>1. stage'[u] \notin {"writing", "register", "record", "answered"}
    BY <1>10 DEF Checks
  <2> QED
    BY <1>5, <1>12, <2>1, DirectoriesStay, LastStays
<1>17. \A r \in records' : RecordAgrees(r)'
  <2>1. \A r \in records : RecordAgrees(r)'
    BY <1>2, <1>12, RecordsStay
  <2>2. CASE outcome = "refused"
    <3>1. RecordAgrees(refusal)'
      BY <1>4, <1>5, <1>8, <1>9, <2>2 DEF RecordAgrees
    <3> QED
      BY <1>6, <2>1, <2>2, <3>1
  <2>3. CASE outcome # "refused"
    BY <1>4, <1>6, <2>1, <2>3
  <2> QED
    BY <2>2, <2>3
<1> QED
  BY <1>5, <1>11, <1>12, <1>15, <1>16, <1>17, OneMoves

\* The members of a sound package are about to be written.
LEMMA StartStorePreserves ==
    ASSUME StoreInv, NEW u \in Uploads, StartStore(u)
    PROVE  StoreInv'
<1> DEFINE p == pkg[u]
<1>1. StoreTypeOK /\ UploadAgrees(u) /\ Cleared(u) /\ Written(u) /\ stage[u] = "store"
  BY UploadFacts DEF StartStore
<1>2. InHand(u)
  BY <1>1 DEF InHand, Ended
<1>3. p \in AllPackages /\ p.version \in Versions /\ \A w \in Uploads \ {u} : ~InHand(w)
  BY <1>1, <1>2, UploadFacts
<1>4. p.fault = None /\ Members(p) \subseteq FileNames \cup {"docs/notes.txt"}
  BY <1>1, <1>3, MemberNames DEF Cleared, Sound
<1>5. /\ stage' = [stage EXCEPT ![u] = "writing"]
      /\ pending' = [pending EXCEPT ![u] = Members(p)]
      /\ last' = [last EXCEPT ![p.version] = u]
      /\ UNCHANGED <<pkg, loaded, dirs, rows, records, reading, resident, crashes>>
  BY DEF StartStore
<1>6. /\ stage'[u] = "writing" /\ pending'[u] = Members(p) /\ last'[p.version] = u
      /\ \A w \in Uploads \ {u} : stage'[w] = stage[w] /\ pending'[w] = pending[w]
      /\ \A v \in Versions \ {p.version} : last'[v] = last[v]
  BY <1>1, <1>3, <1>5 DEF StoreTypeOK
<1>7. StoreTypeOK'
  BY <1>1, <1>3, <1>4, <1>5 DEF StoreTypeOK, Stages, Sound
<1>8. Moves(u)
  BY <1>3, <1>5, <1>6 DEF Moves
<1>9. UploadAgrees(u)'
  <2>1. Cleared(u)'
    BY <1>4, <1>5, <1>6 DEF Cleared
  <2>2. Written(u)'
    BY <1>5, <1>6 DEF Written
  <2> QED
    BY <1>1, <1>3, <1>5, <1>6, <2>1, <2>2 DEF UploadAgrees
<1>10. \A v \in Versions : DirectoryAgrees(v)'
  BY <1>5, <1>8, DirectoriesStay
<1>11. ASSUME NEW v \in Versions, last'[v] # None PROVE LastAgrees(v)'
  <2>1. CASE v = p.version
    BY <1>5, <1>6, <2>1 DEF LastAgrees
  <2>2. CASE v # p.version
    <3>1. last'[v] = last[v] /\ LastAgrees(v) /\ last[v] \in Uploads
      BY <1>1, <1>6, <1>11, <2>2 DEF StoreInv, StoreTypeOK
    <3>2. last[v] # u
      BY <1>11, <2>2, <3>1 DEF LastAgrees
    <3> QED
      BY <1>5, <1>6, <3>1, <3>2 DEF LastAgrees
  <2> QED
    BY <2>1, <2>2
<1>12. \A r \in records' : RecordAgrees(r)'
  BY <1>1, <1>5, <1>8, RecordsStay
<1> QED
  BY <1>5, <1>7, <1>8, <1>9, <1>10, <1>11, <1>12, OneMoves DEF LastAgrees

\* A member is written, over whatever file has its name.
LEMMA StoreMemberPreserves ==
    ASSUME StoreInv, NEW u \in Uploads, NEW n \in pending[u], StoreMember(u, n)
    PROVE  StoreInv'
<1> DEFINE p == pkg[u]
           v == p.version
<1>1. StoreTypeOK /\ UploadAgrees(u) /\ Cleared(u) /\ Written(u) /\ stage[u] = "writing"
  BY UploadFacts DEF StoreMember
<1>2. p \in AllPackages /\ v \in Versions /\ \A w \in Uploads \ {u} : ~InHand(w)
  <2>1. InHand(u)
    BY <1>1 DEF InHand, Ended
  <2> QED
    BY <1>1, <2>1, UploadFacts
<1>3. /\ p.fault = None /\ Files(p) \subseteq FileNames
      /\ \A m, k \in Members(p) : FileName(m) = FileName(k) => m = k
  BY <1>1, <1>2, MemberNames DEF Cleared, Sound
<1>4. /\ pending[u] \subseteq Members(p) /\ last[v] = u /\ n \in Members(p)
      /\ \A m \in Members(p) \ pending[u] : FileName(m) \in DOMAIN dirs[v]
  BY <1>1 DEF Written
<1>5. UNCHANGED <<pkg, loaded, rows, records, reading, resident, last, crashes>>
  BY DEF StoreMember
<1>6. /\ \A w \in Uploads \ {u} : stage'[w] = stage[w] /\ pending'[w] = pending[w]
      /\ pending'[u] = pending[u] \ {n}
      /\ pending[u] = {n} => stage'[u] = "register"
      /\ pending[u] # {n} => stage'[u] = "writing"
      /\ stage' \in [Uploads -> Stages]
      /\ pending' \in [Uploads -> SUBSET (FileNames \cup {"docs/notes.txt"})]
  BY <1>1, AfterStep DEF StoreMember, StoreTypeOK, Stages, Sound
<1>7. /\ dirs' = [x \in Versions |-> dirs'[x]]
      /\ \A x \in Versions \ {v} : dirs'[x] = dirs[x]
      /\ DOMAIN dirs'[v] = DOMAIN dirs[v] \cup {FileName(n)}
      /\ dirs'[v][FileName(n)] = Archive(p)[n]
      /\ \A f \in DOMAIN dirs[v] \ {FileName(n)} : dirs'[v][f] = dirs[v][f]
  <2> DEFINE d == [f \in DOMAIN dirs[v] \cup {FileName(n)} |->
                      IF f = FileName(n) THEN Archive(p)[n] ELSE dirs[v][f]]
  <2>1. dirs' = [dirs EXCEPT ![v] = d] /\ dirs = [x \in Versions |-> dirs[x]]
    BY <1>1 DEF StoreMember, StoreTypeOK
  <2>2. /\ DOMAIN d = DOMAIN dirs[v] \cup {FileName(n)} /\ d[FileName(n)] = Archive(p)[n]
        /\ \A f \in DOMAIN dirs[v] \ {FileName(n)} : d[f] = dirs[v][f]
    OBVIOUS
  <2> HIDE DEF d
  <2>3. dirs'[v] = d /\ \A x \in Versions \ {v} : dirs'[x] = dirs[x]
    BY <1>2, <2>1
  <2> QED
    BY <2>1, <2>2, <2>3
<1>8. Archive(p)[n].of = p
  BY <1>4 DEF Archive, Bytes
<1>9. stage'[u] \in {"writing", "register"}
  BY <1>6
<1>10. StoreTypeOK'
  BY <1>1, <1>5, <1>6, <1>7 DEF StoreTypeOK
<1>11. Moves(u)
  BY <1>2, <1>5, <1>6, <1>7, <1>9 DEF Moves
<1>12. UploadAgrees(u)'
  <2>1. Cleared(u)'
    BY <1>3, <1>5, <1>9 DEF Cleared
  <2>2. \A m \in Members(p) \ pending'[u] : FileName(m) \in DOMAIN dirs'[v]
    BY <1>4, <1>6, <1>7
  <2>3. Written(u)'
    BY <1>4, <1>5, <1>6, <1>9, <2>2 DEF Written
  <2> QED
    BY <1>1, <1>2, <1>5, <1>9, <2>1, <2>3 DEF UploadAgrees
<1>13. ASSUME NEW x \in Versions PROVE DirectoryAgrees(x)'
  <2>1. /\ DirectoryAgrees(x)
        /\ \A w \in Uploads : stage[w] # "new" => stage'[w] # "new" /\ pkg'[w] = pkg[w]
    BY <1>11 DEF StoreInv, Moves
  <2>2. CASE x # v
    BY <1>5, <1>7, <2>1, <2>2 DEF DirectoryAgrees
  <2>3. CASE x = v
    <3>1. ASSUME NEW f \in DOMAIN dirs'[v]
          PROVE  /\ f \in FileNames /\ dirs'[v][f].of.version = v /\ dirs'[v][f].of.fault = None
                 /\ \E w \in Uploads : /\ stage'[w] # "new" /\ pkg'[w].version = v
                                       /\ pkg'[w].fault = None /\ f \in Files(pkg'[w])
      <4>1. CASE f = FileName(n)
        <5>1. f \in Files(p)
          BY <1>4, <4>1 DEF Files
        <5>2. stage'[u] # "new" /\ pkg'[u] = p
          BY <1>5, <1>9
        <5> QED
          BY <1>3, <1>7, <1>8, <4>1, <5>1, <5>2
      <4>2. CASE f # FileName(n)
        <5>1. f \in DOMAIN dirs[v] /\ dirs'[v][f] = dirs[v][f]
          BY <1>7, <3>1, <4>2
        <5> QED
          BY <2>1, <2>3, <5>1 DEF DirectoryAgrees
      <4> QED
        BY <4>1, <4>2
    <3> QED
      BY <1>5, <2>1, <2>3, <3>1 DEF DirectoryAgrees
  <2> QED
    BY <2>2, <2>3
<1>14. ASSUME NEW x \in Versions, last'[x] # None PROVE LastAgrees(x)'
  <2>1. LastAgrees(x) /\ last'[x] = last[x] /\ last[x] \in Uploads
    BY <1>1, <1>5, <1>14 DEF StoreInv, StoreTypeOK
  <2>2. CASE x = v
    <3>1. ASSUME NEW m \in Members(p) \ pending'[u]
          PROVE  dirs'[v][FileName(m)] = Archive(p)[m]
      <4>1. CASE m = n
        BY <1>7, <4>1
      <4>2. CASE m # n
        <5>1. m \in Members(p) \ pending[u] /\ FileName(m) # FileName(n)
          BY <1>3, <1>4, <1>6, <3>1, <4>2
        <5>2. dirs[v][FileName(m)] = Archive(p)[m]
          BY <1>1, <1>4, <1>14, <1>5, <2>1, <2>2, <5>1 DEF LastAgrees
        <5> QED
          BY <1>4, <1>7, <5>1, <5>2
      <4> QED
        BY <4>1, <4>2
    <3> QED
      BY <1>4, <1>5, <1>9, <2>2, <3>1 DEF LastAgrees
  <2>3. CASE x # v
    <3>1. last[x] # u
      BY <1>5, <1>14, <2>1, <2>3 DEF LastAgrees
    <3>2. dirs'[x] = dirs[x] /\ stage'[last[x]] = stage[last[x]]
          /\ pending'[last[x]] = pending[last[x]]
      BY <1>6, <1>7, <2>1, <2>3, <3>1
    <3> QED
      BY <1>5, <2>1, <3>2 DEF LastAgrees
  <2> QED
    BY <2>2, <2>3
<1>15. \A r \in records' : RecordAgrees(r)'
  BY <1>1, <1>5, <1>11, RecordsStay
<1> QED
  BY <1>5, <1>10, <1>11, <1>12, <1>13, <1>14, <1>15, OneMoves DEF LastAgrees

\* The version is registered, unless it is.
LEMMA RegisterPreserves ==
    ASSUME StoreInv, NEW u \in Uploads, Register(u)
    PROVE  StoreInv'
<1> DEFINE p == pkg[u]
<1>1. StoreTypeOK /\ UploadAgrees(u) /\ Cleared(u) /\ Written(u) /\ stage[u] = "register"
  BY UploadFacts DEF Register
<1>2. p \in AllPackages /\ p.version \in Versions /\ \A w \in Uploads \ {u} : ~InHand(w)
  <2>1. InHand(u)
    BY <1>1 DEF InHand, Ended
  <2> QED
    BY <1>1, <2>1, UploadFacts
<1>3. p.fault = None /\ p # None
  BY <1>1, <1>2, PackageFacts DEF Cleared, Sound
<1>4. /\ UNCHANGED <<pkg, pending, loaded, dirs, records, reading, resident, last, crashes>>
      /\ rows' = IF rows[p.version] = None THEN [rows EXCEPT ![p.version] = p] ELSE rows
  BY DEF Register
<1>5. /\ \A w \in Uploads \ {u} : stage'[w] = stage[w]
      /\ stage'[u] = "record" /\ stage' \in [Uploads -> Stages]
  BY <1>1, AfterStep DEF Register, StoreTypeOK, Stages, Sound
<1>6. /\ rows' \in [Versions -> AllPackages \cup {None}] /\ rows'[p.version] # None
      /\ \A v \in Versions : rows[v] # None => rows'[v] = rows[v]
      /\ \A v \in Versions : rows'[v] = rows[v] \/ (v = p.version /\ rows'[v] = p)
  BY <1>1, <1>2, <1>3, <1>4 DEF StoreTypeOK
<1>7. StoreTypeOK'
  BY <1>1, <1>4, <1>5, <1>6 DEF StoreTypeOK
<1>8. Moves(u)
  BY <1>2, <1>4, <1>5, <1>6 DEF Moves
<1>9. UploadAgrees(u)'
  <2>1. Cleared(u)'
    BY <1>3, <1>4, <1>5 DEF Cleared
  <2>2. Written(u)'
    BY <1>1, <1>4, <1>5, <1>6 DEF Written
  <2> QED
    BY <1>1, <1>2, <1>4, <1>5, <2>1, <2>2 DEF UploadAgrees
<1>10. ASSUME NEW v \in Versions PROVE DirectoryAgrees(v)'
  <2>1. /\ DirectoryAgrees(v)
        /\ \A w \in Uploads : stage[w] # "new" => stage'[w] # "new" /\ pkg'[w] = pkg[w]
    BY <1>8 DEF StoreInv, Moves
  <2>2. rows'[v] # None => rows'[v].version = v /\ rows'[v].fault = None
    BY <1>3, <1>6, <2>1 DEF DirectoryAgrees
  <2> QED
    BY <1>4, <2>1, <2>2 DEF DirectoryAgrees
<1>11. \A v \in Versions : LastAgrees(v)'
  BY <1>1, <1>4, <1>8, LastStays
<1>12. \A r \in records' : RecordAgrees(r)'
  BY <1>1, <1>4, <1>8, RecordsStay
<1> QED
  BY <1>4, <1>7, <1>8, <1>9, <1>10, <1>11, <1>12, OneMoves

\* The verdict is recorded, and the upload answered.
LEMMA SaveRecordPreserves ==
    ASSUME StoreInv, NEW u \in Uploads, SaveRecord(u)
    PROVE  StoreInv'
<1> DEFINE p == pkg[u]
<1>0. PICK verdict : verdict = Record(u, p.version, "validated", Eligible(p))
  OBVIOUS
<1>1. StoreTypeOK /\ UploadAgrees(u) /\ Cleared(u) /\ Written(u) /\ stage[u] = "record"
  BY UploadFacts DEF SaveRecord
<1>2. p \in AllPackages /\ p.version \in Versions /\ \A w \in Uploads \ {u} : ~InHand(w)
  <2>1. InHand(u)
    BY <1>1 DEF InHand, Ended
  <2> QED
    BY <1>1, <2>1, UploadFacts
<1>3. /\ UNCHANGED <<pkg, pending, loaded, dirs, rows, reading, resident, last, crashes>>
      /\ records' = records \cup {verdict}
  BY <1>0 DEF SaveRecord
<1>4. /\ \A w \in Uploads \ {u} : stage'[w] = stage[w]
      /\ stage'[u] = "answered" /\ stage' \in [Uploads -> Stages]
  BY <1>1, AfterStep DEF SaveRecord, StoreTypeOK, Stages, Sound
<1>5. Eligible(p) \in BOOLEAN
  BY <1>2, PackageFacts DEF Eligible
<1>6. /\ verdict.upload = u /\ verdict.outcome = "validated" /\ verdict.version = p.version
      /\ verdict.eligible = Eligible(p)
  BY <1>0 DEF Record
<1>7. StoreTypeOK'
  BY <1>1, <1>3, <1>4 DEF StoreTypeOK
<1>8. Moves(u)
  BY <1>2, <1>3, <1>4 DEF Moves
<1>9. UploadAgrees(u)'
  <2>1. Cleared(u)'
    BY <1>1, <1>3, <1>4 DEF Cleared, Sound
  <2>2. Written(u)'
    BY <1>1, <1>3, <1>4, <1>6 DEF Written
  <2> QED
    BY <1>1, <1>2, <1>3, <1>4, <2>1, <2>2 DEF UploadAgrees
<1>10. \A v \in Versions : DirectoryAgrees(v)' /\ LastAgrees(v)'
  BY <1>1, <1>3, <1>8, DirectoriesStay, LastStays
<1>11. RecordAgrees(verdict)'
  BY <1>3, <1>4, <1>5, <1>6 DEF RecordAgrees, Eligible
<1>12. \A r \in records' : RecordAgrees(r)'
  BY <1>1, <1>3, <1>8, <1>11, RecordsStay
<1> QED
  BY <1>3, <1>7, <1>8, <1>9, <1>10, <1>12, OneMoves

-----------------------------------------------------------------------------
(* Activations, restarts, and the invariant.                               *)

\* A step of an activation leaves alone what the uploads keep.
LEMMA ReadersDisturbNothing ==
    ASSUME StoreInv, UNCHANGED <<pkg, stage, pending, loaded, dirs, rows, records, last, crashes>>,
           ReadingAgrees', ResidentIsOnePackage',
           resident' = None \/ resident'.version \in Versions
    PROVE  StoreInv'
<1>1. StoreTypeOK' /\ OneAtATime'
  BY DEF StoreInv, StoreTypeOK, OneAtATime, InHand
<1>2. ASSUME NEW u \in Uploads PROVE UploadAgrees(u)'
  <2>1. UploadAgrees(u) /\ Cleared(u) /\ Written(u)
    BY UploadFacts
  <2>2. Cleared(u)' /\ Written(u)'
    BY <2>1 DEF Cleared, Written
  <2> QED
    BY <2>1, <2>2 DEF UploadAgrees
<1>3. ASSUME NEW x \in Versions PROVE DirectoryAgrees(x)' /\ LastAgrees(x)'
  BY DEF StoreInv, DirectoryAgrees, LastAgrees
<1>4. ASSUME NEW r \in records' PROVE RecordAgrees(r)'
  BY DEF StoreInv, RecordAgrees
<1> QED
  BY <1>1, <1>2, <1>3, <1>4 DEF StoreInv

\* What is being written has the name of a file.
LEMMA WrittenNames ==
    ASSUME StoreInv, NEW v \in Versions
    PROVE  BeingWritten(v) \subseteq FileNames
<1>1. pending \in [Uploads -> SUBSET (FileNames \cup {"docs/notes.txt"})]
  BY DEF StoreInv, StoreTypeOK
<1> QED
  BY <1>1 DEF BeingWritten, FileName, FileNames

\* The directory is listed.
LEMMA StartReadingPreserves ==
    ASSUME StoreInv, NEW v \in Versions, StartReading(v)
    PROVE  StoreInv'
<1>1. PICK opened \in {{}} \cup {{f} : f \in BeingWritten(v)} :
         reading' = [version |-> v, todo |-> DOMAIN dirs[v] \cup opened, files |-> NoFiles]
  BY DEF StartReading
<1>2. UNCHANGED <<pkg, stage, pending, loaded, dirs, rows, records, resident, last, crashes>>
  BY DEF StartReading
<1>3. DOMAIN dirs[v] \subseteq FileNames
  BY DEF StoreInv, DirectoryAgrees
<1>4. opened \subseteq FileNames
  BY <1>1, WrittenNames
<1>5. /\ reading'.version = v /\ reading'.todo \subseteq FileNames
      /\ DOMAIN reading'.files = {}
  BY <1>1, <1>3, <1>4 DEF NoFiles
<1>6. ReadingAgrees'
  BY <1>5 DEF ReadingAgrees
<1>7. ResidentIsOnePackage' /\ (resident' = None \/ resident'.version \in Versions)
  BY <1>2 DEF StoreInv, StoreTypeOK, ResidentIsOnePackage
<1> QED
  BY <1>2, <1>6, <1>7, ReadersDisturbNothing

\* A file is read, as it was last written or cut short.
LEMMA ReadMemberPreserves ==
    ASSUME StoreInv, NEW f \in FileNames, ReadMember(f)
    PROVE  StoreInv'
<1> DEFINE v == reading.version
           old == reading.files
<1>1. PICK bytes \in Readable(v, f) :
         reading' = [version |-> v, todo |-> reading.todo \ {f},
                     files |-> [g \in DOMAIN old \cup {f} |-> IF g = f THEN bytes ELSE old[g]]]
  BY DEF ReadMember
<1>2. /\ UNCHANGED <<pkg, stage, pending, loaded, dirs, rows, records, resident, last, crashes>>
      /\ reading # None
  BY DEF ReadMember
<1>3. /\ v \in Versions /\ reading.todo \subseteq FileNames
      /\ \A g \in DOMAIN old : g \in FileNames /\ (old[g].intact => old[g].of.fault = None)
  BY <1>2 DEF StoreInv, ReadingAgrees
<1>4. bytes.intact => bytes.of.fault = None
  <2>1. CASE bytes \in {dirs[v][g] : g \in {f} \cap DOMAIN dirs[v]}
    BY <1>3, <2>1 DEF StoreInv, DirectoryAgrees
  <2>2. CASE bytes \in {Bytes(None, g, FALSE) : g \in {f} \cap BeingWritten(v)}
    BY <2>2 DEF Bytes
  <2> QED
    BY <1>1, <2>1, <2>2 DEF Readable
<1> DEFINE new == [g \in DOMAIN old \cup {f} |-> IF g = f THEN bytes ELSE old[g]]
<1>5. DOMAIN new = DOMAIN old \cup {f} /\ \A g \in DOMAIN new : new[g] = bytes \/ (g \in DOMAIN old /\ new[g] = old[g])
  OBVIOUS
<1>6. reading'.version = v /\ reading'.todo = reading.todo \ {f} /\ reading'.files = new
  BY <1>1
<1> HIDE DEF new, old, v
<1>7. ReadingAgrees'
  BY <1>3, <1>4, <1>5, <1>6 DEF ReadingAgrees, old
<1>8. ResidentIsOnePackage' /\ (resident' = None \/ resident'.version \in Versions)
  BY <1>2 DEF StoreInv, StoreTypeOK, ResidentIsOnePackage
<1> QED
  BY <1>2, <1>7, <1>8, ReadersDisturbNothing

\* What is loaded is one package: its checksums name every file but the manifest.
LEMMA ActivatePreserves ==
    ASSUME StoreInv, Activate
    PROVE  StoreInv'
<1> DEFINE files == reading.files
           p == files["manifest.json"].of
<1>0. /\ UNCHANGED <<pkg, stage, pending, loaded, dirs, rows, records, last, crashes>>
      /\ reading # None /\ reading' = None /\ ReadingAgrees
  BY DEF Activate, StoreInv
<1>1. ReadingAgrees'
  BY <1>0 DEF ReadingAgrees
<1>2. CASE ~Loadable(files)
  <2>1. resident' = resident
    BY <1>2 DEF Activate
  <2>2. ResidentIsOnePackage' /\ (resident' = None \/ resident'.version \in Versions)
    BY <2>1 DEF StoreInv, StoreTypeOK, ResidentIsOnePackage
  <2> QED
    BY <1>0, <1>1, <2>2, ReadersDisturbNothing
<1>3. CASE Loadable(files)
  <2>1. /\ "manifest.json" \in DOMAIN files /\ files["manifest.json"].intact
        /\ \A n \in Declared(p) : files[n] = Bytes(p, n, TRUE)
        /\ resident' = [version |-> reading.version, manifest |-> p, artefact |-> files[Artefact(p)].of,
                        cases |-> files["smoke-tests.json"].of]
    BY <1>3 DEF Activate, Loadable, HasManifest, Verifies, Loaded
  <2>2. p.fault # "no_artefact"
    BY <1>0, <2>1, NoneIsNoFault DEF ReadingAgrees, Faults, UncaughtFaults
  <2>3. Artefact(p) \in Declared(p) /\ "smoke-tests.json" \in Declared(p)
    BY <2>2 DEF Declared
  <2>4. files[Artefact(p)].of = p /\ files["smoke-tests.json"].of = p
    <3>1. \A q, n : Bytes(q, n, TRUE).of = q
      BY DEF Bytes
    <3> HIDE DEF p
    <3> QED
      BY <2>1, <2>3, <3>1
  <2>5. ResidentIsOnePackage' /\ resident'.version \in Versions
    BY <1>0, <2>1, <2>4 DEF ResidentIsOnePackage, ReadingAgrees
  <2> QED
    BY <1>0, <1>1, <2>5, ReadersDisturbNothing
<1> QED
  BY <1>2, <1>3

\* A restart ends the upload that was at work; what is on disk and in the tables stays.
LEMMA CrashPreserves ==
    ASSUME StoreInv, Crash
    PROVE  StoreInv'
<1>1. StoreTypeOK /\ UNCHANGED <<pkg, loaded, dirs, rows, records, last>>
      /\ pending' = [u \in Uploads |-> {}] /\ resident' = None /\ reading' = None
  BY DEF StoreInv, Crash
<1>2. \A u \in Uploads : /\ InHand(u) => stage'[u] = "lost"
                         /\ ~InHand(u) => stage'[u] = stage[u]
                         /\ stage'[u] \in Stages
  BY <1>1 DEF Crash, StoreTypeOK, Stages
<1>3. StoreTypeOK'
  <2>1. stage' \in [Uploads -> Stages]
    BY <1>2 DEF Crash
  <2>2. crashes' \in 0..MaxCrashes
    BY <1>1, BoundsAreCounts DEF Crash, StoreTypeOK
  <2> QED
    BY <1>1, <2>1, <2>2 DEF StoreTypeOK
<1>4. \A u \in Uploads : ~InHand(u)' /\ stage'[u] # "writing" /\ (stage'[u] = "new" <=> stage[u] = "new")
  BY <1>2 DEF InHand, Ended
<1>5. ASSUME NEW u \in Uploads PROVE UploadAgrees(u)'
  <2>1. UploadAgrees(u) /\ Cleared(u) /\ Written(u) /\ pkg'[u] = pkg[u] /\ pending'[u] = {}
    BY <1>1, UploadFacts
  <2>2. Cleared(u)'
    BY <1>2, <2>1 DEF Cleared, Sound
  <2>3. CASE InHand(u)
    BY <1>1, <1>2, <2>1, <2>2, <2>3 DEF UploadAgrees, Written, InHand
  <2>4. CASE ~InHand(u)
    <3>1. stage'[u] = stage[u] /\ pending[u] = {}
      BY <1>2, <1>4, <2>1, <2>4 DEF Written
    <3> QED
      BY <1>1, <2>1, <2>2, <3>1 DEF UploadAgrees, Written
  <2> QED
    BY <2>3, <2>4
<1>6. ASSUME NEW v \in Versions PROVE DirectoryAgrees(v)'
  BY <1>1, <1>4 DEF StoreInv, DirectoryAgrees
<1>7. ASSUME NEW v \in Versions, last'[v] # None PROVE LastAgrees(v)'
  <2>1. LastAgrees(v) /\ last'[v] = last[v] /\ last[v] \in Uploads
    BY <1>1, <1>7 DEF StoreInv, StoreTypeOK
  <2>2. stage'[last[v]] = stage[last[v]] \/ stage'[last[v]] = "lost"
    BY <1>2, <2>1
  <2>3. stage'[last[v]] = stage[last[v]] => pending[last[v]] = {}
    BY <1>4, <2>1, UploadFacts DEF Written
  <2> QED
    BY <1>1, <1>4, <1>7, <2>1, <2>2, <2>3 DEF LastAgrees
<1>8. ASSUME NEW r \in records PROVE RecordAgrees(r)'
  <2>1. RecordAgrees(r) /\ r.upload \in Uploads
    BY DEF StoreInv, RecordAgrees
  <2>2. stage[r.upload] \in {"answered", "refused"}
    BY <2>1 DEF RecordAgrees
  <2>3. stage'[r.upload] = stage[r.upload]
    BY <1>2, <2>1, <2>2 DEF InHand, Ended
  <2> QED
    BY <1>1, <2>1, <2>3 DEF RecordAgrees
<1>9. ResidentIsOnePackage' /\ OneAtATime' /\ ReadingAgrees'
  BY <1>1, <1>4 DEF ResidentIsOnePackage, OneAtATime, ReadingAgrees
<1> QED
  BY <1>1, <1>3, <1>5, <1>6, <1>7, <1>8, <1>9 DEF StoreInv, LastAgrees

\* Nothing has been sent or stored.
LEMMA StoreInitInv ==
    ASSUME Init
    PROVE  StoreInv
<1> USE DEF Init
<1>1. StoreTypeOK
  BY BoundsAreCounts DEF StoreTypeOK, Stages
<1>2. ASSUME NEW u \in Uploads PROVE UploadAgrees(u) /\ ~InHand(u)
  BY DEF UploadAgrees, Cleared, Written, Sound, InHand
<1>3. ASSUME NEW v \in Versions PROVE DirectoryAgrees(v) /\ LastAgrees(v)
  BY DEF DirectoryAgrees, LastAgrees, NoFiles
<1> QED
  BY <1>1, <1>2, <1>3 DEF StoreInv, OneAtATime, ResidentIsOnePackage, ReadingAgrees

\* No step of an upload, no activation and no restart breaks the invariant.
LEMMA StoreNextInv ==
    ASSUME StoreInv, [Next]_vars
    PROVE  StoreInv'
<1>1. CASE UNCHANGED vars
  <2>1. UNCHANGED <<pkg, stage, pending, loaded, dirs, rows, records, reading, resident, last, crashes>>
    BY <1>1 DEF vars
  <2>2. StoreTypeOK' /\ OneAtATime' /\ ResidentIsOnePackage' /\ ReadingAgrees'
    BY <2>1 DEF StoreInv, StoreTypeOK, OneAtATime, InHand, ResidentIsOnePackage, ReadingAgrees
  <2>3. ASSUME NEW u \in Uploads PROVE UploadAgrees(u)'
    <3>1. UploadAgrees(u) /\ Cleared(u) /\ Written(u)
      BY UploadFacts
    <3>2. Cleared(u)' /\ Written(u)'
      BY <2>1, <3>1 DEF Cleared, Written
    <3> QED
      BY <2>1, <3>1, <3>2 DEF UploadAgrees
  <2>4. ASSUME NEW v \in Versions PROVE DirectoryAgrees(v)' /\ LastAgrees(v)'
    BY <2>1 DEF StoreInv, DirectoryAgrees, LastAgrees
  <2>5. ASSUME NEW r \in records' PROVE RecordAgrees(r)'
    BY <2>1 DEF StoreInv, RecordAgrees
  <2> QED
    BY <2>2, <2>3, <2>4, <2>5 DEF StoreInv
<1>2. ASSUME NEW u \in Uploads, NEW p \in AllPackages, Submit(u, p) PROVE StoreInv'
  BY <1>2, SubmitPreserves
<1>3. ASSUME NEW u \in Uploads, Validate(u) PROVE StoreInv'
  BY <1>3, ValidatePreserves
<1>4. ASSUME NEW u \in Uploads, StartStore(u) PROVE StoreInv'
  BY <1>4, StartStorePreserves
<1>5. ASSUME NEW u \in Uploads, NEW n \in pending[u], StoreMember(u, n) PROVE StoreInv'
  BY <1>5, StoreMemberPreserves
<1>6. ASSUME NEW u \in Uploads, Register(u) PROVE StoreInv'
  BY <1>6, RegisterPreserves
<1>7. ASSUME NEW u \in Uploads, SaveRecord(u) PROVE StoreInv'
  BY <1>7, SaveRecordPreserves
<1>8. ASSUME NEW v \in Versions, StartReading(v) PROVE StoreInv'
  BY <1>8, StartReadingPreserves
<1>9. ASSUME NEW f \in FileNames, ReadMember(f) PROVE StoreInv'
  BY <1>9, ReadMemberPreserves
<1>10. CASE Activate
  BY <1>10, ActivatePreserves
<1>11. CASE Crash
  BY <1>11, CrashPreserves
<1> QED
  BY <1>1, <1>2, <1>3, <1>4, <1>5, <1>6, <1>7, <1>8, <1>9, <1>10, <1>11 DEF Next

\* Uploads, directories, rows and records agree in every reachable state.
THEOREM StoreInvariant == Spec => []StoreInv
<1>1. Init => StoreInv
  BY StoreInitInv
<1>2. StoreInv /\ [Next]_vars => StoreInv'
  BY StoreNextInv
<1> QED
  BY <1>1, <1>2, PTL DEF Spec

-----------------------------------------------------------------------------
(* What follows from it.                                                   *)

\* What is loaded from a directory is one package, whole, however many uploads have
\* written into it and wherever the process stopped.
THEOREM ResidentIsWhole == Spec => []ResidentIsOnePackage
<1>1. StoreInv => ResidentIsOnePackage
  BY DEF StoreInv
<1> QED
  BY <1>1, StoreInvariant, PTL

\* No upload leaves anything unverified loaded or unsound kept, and each answer has a
\* true record, at whichever step the upload is refused, fails or loses its process.
THEOREM UploadsLeaveNothing == Spec => []PackagesInv
<1>1. ASSUME StoreInv PROVE TypeOK
  <2>1. StoreTypeOK
    BY <1>1 DEF StoreInv
  <2>2. Stages \subseteq {Steps[i] : i \in DOMAIN Steps} \cup {"new", "writing"} \cup Ended
    <3>1. /\ Steps[1] = "archive" /\ Steps[2] = "manifest" /\ Steps[3] = "checksums"
          /\ Steps[4] = "statistics" /\ Steps[5] = "smoke tests" /\ Steps[6] = "load"
          /\ Steps[7] = "cases" /\ Steps[8] = "store" /\ Steps[9] = "register"
          /\ Steps[10] = "record" /\ Steps[11] = "answered" /\ DOMAIN Steps = 1..11
      BY DEF Steps
    <3> DEFINE S == {Steps[i] : i \in DOMAIN Steps}
    <3>2. \A i \in 1..11 : Steps[i] \in S
      BY <3>1
    <3> HIDE DEF S
    <3>3. /\ Steps[1] \in S /\ Steps[2] \in S /\ Steps[3] \in S /\ Steps[4] \in S
          /\ Steps[5] \in S /\ Steps[6] \in S /\ Steps[7] \in S /\ Steps[8] \in S
          /\ Steps[9] \in S /\ Steps[10] \in S /\ Steps[11] \in S
      BY <3>2
    <3>4. Stages \subseteq S \cup {"new", "writing"} \cup Ended
      BY <3>1, <3>3 DEF Stages, Sound, Checks, Ended
    <3> QED
      BY <3>4 DEF S
  <2>3. stage \in [Uploads -> {Steps[i] : i \in DOMAIN Steps} \cup {"new", "writing"} \cup Ended]
    BY <2>1, <2>2 DEF StoreTypeOK
  <2>4. \A u \in Uploads : pending[u] # {} => pending[u] \subseteq Members(pkg[u])
    BY <1>1, UploadFacts DEF Written
  <2>5. \A v \in Versions :
           /\ rows[v] = None \/ rows[v].version = v
           /\ DOMAIN dirs[v] \subseteq FileNames
           /\ \A f \in DOMAIN dirs[v] : dirs[v][f].of.version = v
    BY <1>1 DEF StoreInv, DirectoryAgrees
  <2>6. \A r \in records : r.outcome \in {"validated", "rejected"} /\ r.eligible \in BOOLEAN
    BY <1>1 DEF StoreInv, RecordAgrees
  <2>7. DOMAIN dirs = Versions
    BY <2>1 DEF StoreTypeOK
  <2>8. reading = None \/ (/\ reading.version \in Versions
                          /\ reading.todo \subseteq FileNames
                          /\ DOMAIN reading.files \subseteq FileNames)
    BY <1>1 DEF StoreInv, ReadingAgrees
  <2> QED
    BY <2>1, <2>3, <2>4, <2>5, <2>6, <2>7, <2>8 DEF StoreTypeOK, TypeOK
<1>2. ASSUME StoreInv PROVE NothingUnverifiedIsLoaded
  BY <1>2 DEF StoreInv, StoreTypeOK, UploadAgrees, NothingUnverifiedIsLoaded
<1>3. ASSUME StoreInv PROVE OnlySoundPackagesAreKept
  BY <1>3 DEF StoreInv, DirectoryAgrees, OnlySoundPackagesAreKept
<1>4. ASSUME StoreInv PROVE RecordsAreTrue
  <2> SUFFICES ASSUME NEW r \in records
               PROVE  LET p == pkg[r.upload]
                      IN  IF r.outcome = "validated"
                          THEN /\ rows[r.version] # None
                               /\ \A n \in Members(p) : FileName(n) \in DOMAIN dirs[r.version]
                               /\ r.eligible <=> (p.mae \in 0..MaxMae /\ p.enoughTests)
                          ELSE p.fault # None /\ stage[r.upload] = "refused"
    BY DEF RecordsAreTrue
  <2>1. RecordAgrees(r) /\ r.upload \in Uploads
    BY <1>4 DEF StoreInv, RecordAgrees
  <2>2. CASE r.outcome = "validated"
    <3>1. stage[r.upload] = "answered" /\ r.version = pkg[r.upload].version
          /\ (r.eligible <=> Eligible(pkg[r.upload]))
      BY <2>1, <2>2 DEF RecordAgrees
    <3>2. Written(r.upload) /\ pkg[r.upload] \in AllPackages
      BY <1>4, <2>1, <3>1, UploadFacts
    <3>3. pkg[r.upload].mae \in Nat
      BY <3>2, PackageFacts
    <3>4. Eligible(pkg[r.upload]) <=> pkg[r.upload].mae \in 0..MaxMae /\ pkg[r.upload].enoughTests
      BY <3>3, BoundsAreCounts DEF Eligible
    <3>5. pending[r.upload] = {}
      BY <3>1, <3>2 DEF Written
    <3> QED
      BY <2>2, <3>1, <3>2, <3>4, <3>5 DEF Written
  <2>3. CASE r.outcome # "validated"
    BY <2>1, <2>3 DEF RecordAgrees
  <2> QED
    BY <2>2, <2>3
<1>5. ASSUME StoreInv PROVE AnswersAreRecorded
  <2>1. \A u \in Uploads : Written(u)
    BY <1>5, UploadFacts
  <2> QED
    BY <2>1 DEF Written, AnswersAreRecorded
<1>6. StoreInv => PackagesInv
  BY <1>1, <1>2, <1>3, <1>4, <1>5 DEF PackagesInv
<1> QED
  BY <1>6, StoreInvariant, PTL

\* What was accepted last can be activated and is what will be, unless an earlier
\* upload of its version left a file that it does not name.
THEOREM AcceptedIsActivatable == Spec => []AcceptedCanBeActivated
<1>1. ASSUME StoreInv, NEW v \in Versions, last[v] # None, stage[last[v]] = "answered",
             NothingIsLeftOver(v, last[v])
      PROVE  Activatable(v) /\ dirs[v]["manifest.json"].of = pkg[last[v]]
  <2> DEFINE u == last[v]
             p == pkg[u]
  <2>1. u \in Uploads /\ LastAgrees(v) /\ DirectoryAgrees(v)
    BY <1>1 DEF StoreInv, StoreTypeOK
  <2>2. /\ Cleared(u) /\ Written(u) /\ p \in AllPackages /\ StoreTypeOK
        /\ p.version = v /\ p.fault = None /\ pending[u] = {}
    BY <1>1, <2>1, UploadFacts DEF LastAgrees, Cleared, Written, Sound
  <2>3. /\ Members(p) = {"manifest.json"} \cup Declared(p) /\ "manifest.json" \notin Declared(p)
        /\ \A n \in Members(p) : FileName(n) = n
    BY <1>1, <2>2, MemberNames DEF NothingIsLeftOver
  <2>4. \A n \in Members(p) : n \in DOMAIN dirs[v] /\ dirs[v][n] = Bytes(p, n, TRUE)
    <3> TAKE n \in Members(p)
    <3>1. n \in DOMAIN dirs[v] /\ dirs[v][n] = Archive(p)[n]
      BY <1>1, <2>1, <2>2, <2>3 DEF Written, LastAgrees
    <3>2. p.fault # "altered"
      BY <2>2, NoneIsNoFault DEF Faults, ChecksumFaults
    <3> QED
      BY <3>1, <3>2 DEF Archive, Bytes
  <2>5. /\ dirs[v]["manifest.json"].of = p /\ "manifest.json" \in DOMAIN dirs[v]
        /\ dirs[v]["manifest.json"].intact
    <3>1. \A q, n : Bytes(q, n, TRUE).of = q /\ Bytes(q, n, TRUE).intact
      BY DEF Bytes
    <3> HIDE DEF p
    <3> QED
      BY <2>3, <2>4, <3>1
  <2>6. \A f \in DOMAIN dirs[v] : f \in Members(p)
    <3> TAKE f \in DOMAIN dirs[v]
    <3>1. PICK w \in Uploads : /\ stage[w] # "new" /\ pkg[w].version = v /\ pkg[w].fault = None
                               /\ f \in Files(pkg[w])
      BY <2>1 DEF DirectoryAgrees
    <3>2. pkg[w] \in AllPackages /\ pkg[w] # None
      BY <1>1, <3>1, UploadFacts, PackageFacts
    <3>3. Declared(pkg[w]) \subseteq Declared(p) /\ pkg[w].layout # "nested"
      BY <1>1, <3>1, <3>2 DEF NothingIsLeftOver
    <3>4. f \in {"manifest.json"} \cup Declared(pkg[w])
      BY <3>1, <3>2, <3>3, MemberNames DEF Files
    <3> QED
      BY <2>3, <3>3, <3>4
  <2>7. DOMAIN dirs[v] \ {"manifest.json"} = Declared(p)
    BY <2>3, <2>4, <2>6
  <2>8. rows[v] # None
    BY <1>1, <2>2 DEF Written
  <2>9. \A n \in Declared(p) : dirs[v][n] = Bytes(p, n, TRUE)
    BY <2>3, <2>4
  <2> QED
    BY <2>5, <2>7, <2>8, <2>9 DEF Activatable, Loadable, HasManifest, Verifies
<1>2. StoreInv => AcceptedCanBeActivated
  BY <1>1 DEF AcceptedCanBeActivated
<1> QED
  BY <1>2, StoreInvariant, PTL
=============================================================================
