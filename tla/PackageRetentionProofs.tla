------------------------ MODULE PackageRetentionProofs ------------------------
(* Proofs about PackageRetention, for every set of versions, packages and  *)
(* files, and every number of retired versions to keep.                    *)
EXTENDS PackageRetention, FiniteSetTheorems, WellFoundedInduction, TLAPS

\* The table after a version has been made active: that one alone is active,
\* and whatever had served still counts as having served.
LEMMA MadeActive ==
    ASSUME TypeOK, NEW v \in Versions, MakeActive(v)
    PROVE  /\ lifecycle' \in [Versions -> Statuses]
           /\ undisturbed' = FALSE
           /\ Active' = {v}
           /\ \A w \in Versions : Served(lifecycle[w]) => Served(lifecycle'[w])
<1>1. \A w \in Versions :
         lifecycle'[w] = IF w = v THEN "active" ELSE IF w \in Active THEN "retired" ELSE lifecycle[w]
  BY DEF MakeActive
<1>2. lifecycle' \in [Versions -> Statuses]
  BY DEF MakeActive, TypeOK, Statuses
<1>4. Active' = {v}
  BY <1>1 DEF Active
<1>5. \A w \in Versions : Served(lifecycle[w]) => Served(lifecycle'[w])
  BY <1>1 DEF Served, Active
<1> QED
  BY <1>2, <1>4, <1>5 DEF MakeActive

\* Registering a version makes nothing active and nothing less served.
LEMMA Registering ==
    ASSUME TypeOK, NEW v \in Versions, lifecycle[v] = "absent", Register(v)
    PROVE  /\ lifecycle' \in [Versions -> Statuses]
           /\ number' \in [Versions -> Nat]
           /\ Active' = Active
           /\ \A w \in Versions : Served(lifecycle[w]) => Served(lifecycle'[w])
<1>1. Cardinality(Registered) \in Nat
  <2>1. IsFiniteSet(Registered)
    BY VersionsAreFinite, FS_Subset DEF Registered
  <2> QED
    BY <2>1, FS_CardinalityType
<1>2. number' \in [Versions -> Nat]
  BY <1>1 DEF Register, TypeOK
<1>3. \A w \in Versions : lifecycle'[w] = IF w = v THEN "candidate" ELSE lifecycle[w]
  BY DEF Register, TypeOK
<1>4. lifecycle' \in [Versions -> Statuses]
  BY DEF Register, TypeOK, Statuses
<1>5. Active' = Active
  BY <1>3 DEF Active
<1>6. \A w \in Versions : Served(lifecycle[w]) => Served(lifecycle'[w])
  BY <1>3 DEF Served
<1> QED
  BY <1>2, <1>4, <1>5, <1>6

\* What the plan says survives a step that leaves the command alone, provided
\* that what has served stays served, and that either the active version is the
\* same or the command counts as disturbed.
LEMMA PlanSurvives ==
    ASSUME PruneInv, TypeOK', AtMostOneActive', UNCHANGED prune,
           \A w \in Versions : Served(lifecycle[w]) => Served(lifecycle'[w]),
           \/ undisturbed' = FALSE
           \/ undisturbed' = undisturbed /\ Active' = Active
    PROVE  PruneInv'
  BY DEF PruneInv, ListingStaysServed, PlanIsListed, PlanSparesActive

LEMMA PruneInvInitially == Init => PruneInv
<1> SUFFICES ASSUME Init PROVE PruneInv
  OBVIOUS
<1>1. NoPrune \in Prunes
  BY DEF NoPrune, Prunes, Statuses
<1>2. NoUpload \in Uploads /\ NoUpload.pc = "idle"
  BY DEF NoUpload, Uploads
<1>3. TypeOK
  BY <1>1, <1>2 DEF Init, TypeOK, Statuses
<1>4. AtMostOneActive
  BY DEF Init, AtMostOneActive, Active
<1>5. prune.pc = "idle" /\ prune.plan = {} /\ undisturbed = FALSE
  BY DEF Init, NoPrune
<1> QED
  BY <1>3, <1>4, <1>5 DEF PruneInv, ListingStaysServed, PlanIsListed, PlanSparesActive

\* The steps of the serving process and of training.
LEMMA ServingKeepsPruneInv ==
    ASSUME PruneInv, NEW v \in Versions,
           \/ Train(v) \/ Promote(v) \/ ReadPackage(v) \/ Activate(v) \/ MakeDirectory(v)
    PROVE  PruneInv'
<1> USE DEF disk, table
<1> TypeOK /\ AtMostOneActive
  BY DEF PruneInv
<1>1. CASE Train(v)
  <2>1. lifecycle[v] = "absent" /\ Register(v)
    BY <1>1 DEF Train
  <2>2. TypeOK' /\ AtMostOneActive'
    BY <1>1, <2>1, Registering DEF Train, Register, TypeOK, AtMostOneActive
  <2> QED
    BY <1>1, <2>1, <2>2, Registering, PlanSurvives DEF Train, Register
<1>2. CASE Promote(v)
  <2>1. TypeOK' /\ AtMostOneActive'
    BY <1>2, MadeActive DEF Promote, MakeActive, TypeOK, AtMostOneActive
  <2> QED
    BY <1>2, <2>1, MadeActive, PlanSurvives DEF Promote
<1>3. CASE ReadPackage(v)
  <2>1. TypeOK' /\ AtMostOneActive' /\ Active' = Active
    BY <1>3 DEF ReadPackage, TypeOK, AtMostOneActive, Active
  <2> QED
    BY <1>3, <2>1, PlanSurvives DEF ReadPackage
<1>4. CASE Activate(v)
  <2>1. CASE MakeActive(v)
    <3>1. TypeOK' /\ AtMostOneActive'
      BY <1>4, <2>1, MadeActive DEF Activate, MakeActive, TypeOK, AtMostOneActive
    <3> QED
      BY <1>4, <2>1, <3>1, MadeActive, PlanSurvives DEF Activate
  <2>2. CASE UNCHANGED table
    <3>1. TypeOK' /\ AtMostOneActive' /\ Active' = Active
      BY <1>4, <2>2 DEF Activate, TypeOK, AtMostOneActive, Active
    <3> QED
      BY <1>4, <2>2, <3>1, PlanSurvives DEF Activate
  <2> QED
    BY <1>4, <2>1, <2>2 DEF Activate
<1>5. CASE MakeDirectory(v)
  <2>1. TypeOK' /\ AtMostOneActive' /\ Active' = Active
    BY <1>5 DEF MakeDirectory, TypeOK, AtMostOneActive, Active, Uploads
  <2> QED
    BY <1>5, <2>1, PlanSurvives DEF MakeDirectory
<1> QED
  BY <1>1, <1>2, <1>3, <1>4, <1>5

\* The steps of an upload, and a restart of the serving process.
LEMMA UploadKeepsPruneInv ==
    ASSUME PruneInv,
           \/ \E m \in Members : OpenMember(m)
           \/ WriteMember \/ RegisterPackage \/ Restart
    PROVE  PruneInv'
<1> USE DEF disk, table
<1> TypeOK /\ AtMostOneActive
  BY DEF PruneInv
<1> NoUpload \in Uploads /\ NoUpload.pc = "idle"
  BY DEF NoUpload, Uploads
<1>1. ASSUME NEW m \in Members, OpenMember(m)
      PROVE  PruneInv'
  <2>1. upload' \in Uploads /\ (upload'.pc # "idle" => upload'.version \in Versions)
    <3>1. CASE upload' = NoUpload
      BY <3>1
    <3>2. CASE upload' = [upload EXCEPT !.open = m]
      BY <1>1, <3>2 DEF OpenMember, TypeOK, Uploads
    <3> QED
      BY <1>1, <3>1, <3>2 DEF OpenMember
  <2>2. files' \in [Versions -> [Members -> {"none", "partial", "whole"}]]
    <3>1. upload.version \in Versions
      BY <1>1 DEF OpenMember, TypeOK
    <3>2. [files[upload.version] EXCEPT ![m] = "partial"] \in [Members -> {"none", "partial", "whole"}]
      BY <3>1 DEF TypeOK
    <3> QED
      BY <1>1, <3>1, <3>2 DEF OpenMember, TypeOK
  <2>3. TypeOK' /\ AtMostOneActive' /\ Active' = Active
    BY <1>1, <2>1, <2>2 DEF OpenMember, TypeOK, AtMostOneActive, Active
  <2> QED
    BY <1>1, <2>3, PlanSurvives DEF OpenMember
<1>2. CASE WriteMember
  <2>1. upload' \in Uploads
    BY <1>2 DEF WriteMember, TypeOK, Uploads
  <2>2. files' \in [Versions -> [Members -> {"none", "partial", "whole"}]]
    BY <1>2 DEF WriteMember, TypeOK
  <2>3. TypeOK' /\ AtMostOneActive' /\ Active' = Active
    BY <1>2, <2>1, <2>2 DEF WriteMember, TypeOK, AtMostOneActive, Active
  <2> QED
    BY <1>2, <2>3, PlanSurvives DEF WriteMember
<1>3. CASE RegisterPackage
  <2>1. CASE UNCHANGED table
    <3>1. TypeOK' /\ AtMostOneActive' /\ Active' = Active
      BY <1>3, <2>1 DEF RegisterPackage, TypeOK, AtMostOneActive, Active
    <3> QED
      BY <1>3, <2>1, <3>1, PlanSurvives DEF RegisterPackage
  <2>2. CASE lifecycle[upload.version] = "absent" /\ Register(upload.version)
    <3>1. upload.version \in Versions
      BY <1>3 DEF RegisterPackage, TypeOK
    <3>2. TypeOK' /\ AtMostOneActive'
      BY <1>3, <2>2, <3>1, Registering DEF RegisterPackage, Register, TypeOK, AtMostOneActive
    <3> QED
      BY <1>3, <2>2, <3>1, <3>2, Registering, PlanSurvives DEF RegisterPackage, Register
  <2> QED
    BY <1>3, <2>1, <2>2 DEF RegisterPackage
<1>4. CASE Restart
  <2>1. TypeOK' /\ AtMostOneActive' /\ Active' = Active
    BY <1>4 DEF Restart, TypeOK, AtMostOneActive, Active
  <2> QED
    BY <1>4, <2>1, PlanSurvives DEF Restart
<1> QED
  BY <1>1, <1>2, <1>3, <1>4

\* The steps of the command up to its plan.
LEMMA PlanningKeepsPruneInv ==
    ASSUME PruneInv, ListVersions \/ ReadActive \/ MakePlan
    PROVE  PruneInv'
<1> USE DEF disk, table
<1> TypeOK
  BY DEF PruneInv
<1>1. CASE ListVersions
  <2>1. prune' \in Prunes
    BY <1>1 DEF ListVersions, TypeOK, Prunes, NoPrune, Statuses
  <2>2. /\ prune'.pc = "active" /\ prune'.plan = {} /\ prune'.listed = lifecycle
        /\ lifecycle' = lifecycle
    BY <1>1 DEF ListVersions, NoPrune
  <2>3. TypeOK' /\ AtMostOneActive'
    BY <1>1, <2>1 DEF ListVersions, TypeOK, PruneInv, AtMostOneActive, Active
  <2> QED
    BY <2>2, <2>3 DEF PruneInv, ListingStaysServed, PlanIsListed, PlanSparesActive
<1>2. CASE ReadActive
  <2>1. /\ prune' \in Prunes
        /\ prune'.pc = "plan" /\ prune'.plan = prune.plan /\ prune'.listed = prune.listed
    BY <1>2 DEF ReadActive, TypeOK, Prunes, Active
  <2>2. Active \subseteq {prune'.active}
    BY <1>2 DEF ReadActive, TypeOK, Prunes, PruneInv, AtMostOneActive
  <2>3. TypeOK' /\ AtMostOneActive' /\ Active' = Active /\ lifecycle' = lifecycle
    BY <1>2, <2>1 DEF ReadActive, TypeOK, PruneInv, AtMostOneActive, Active
  <2> QED
    BY <1>2, <2>1, <2>2, <2>3
    DEF ReadActive, PruneInv, ListingStaysServed, PlanIsListed, PlanSparesActive
<1>3. CASE MakePlan
  <2> DEFINE plan == ((Versions \ Listed("absent")) \ Kept) \cap directories
  <2>1. plan \subseteq Versions /\ prune.active \notin plan
    BY NoneIsNothing DEF Kept
  <2>2. \A v \in plan : Served(prune.listed[v])
    BY DEF Kept, Listed, Served, TypeOK, Prunes, Statuses
  <2>3. /\ prune' \in Prunes
        /\ prune'.pc = "delete" /\ prune'.plan = plan
        /\ prune'.listed = prune.listed /\ prune'.active = prune.active
    BY <1>3, <2>1 DEF MakePlan, TypeOK, Prunes
  <2>4. TypeOK' /\ AtMostOneActive' /\ Active' = Active /\ lifecycle' = lifecycle
    BY <1>3, <2>3 DEF MakePlan, TypeOK, PruneInv, AtMostOneActive, Active
  <2> HIDE DEF plan
  <2> QED
    BY <1>3, <2>1, <2>2, <2>3, <2>4
    DEF MakePlan, PruneInv, ListingStaysServed, PlanIsListed, PlanSparesActive
<1> QED
  BY <1>1, <1>2, <1>3

\* The command only removes from its plan while it deletes, and its end leaves
\* none.
LEMMA DeletingKeepsPruneInv ==
    ASSUME PruneInv, BeginDelete \/ Unlink \/ RemoveDirectory \/ PruneEnds \/ PruneStops
    PROVE  PruneInv'
<1> USE DEF disk, table
<1> TypeOK
  BY DEF PruneInv
<1>1. NoPrune \in Prunes /\ NoPrune.pc = "idle" /\ NoPrune.plan = {}
  BY DEF NoPrune, Prunes, Statuses
<1>2. UNCHANGED <<lifecycle, number, undisturbed, upload, loaded>>
  BY DEF BeginDelete, Unlink, RemoveDirectory, PruneEnds, PruneStops
<1>3. directories' \subseteq Versions
  BY DEF BeginDelete, Unlink, RemoveDirectory, PruneEnds, PruneStops, TypeOK
<1>4. files' \in [Versions -> [Members -> {"none", "partial", "whole"}]]
  <2>1. CASE Unlink
    <3>1. PICK m \in prune.unlink : files' = [files EXCEPT ![prune.victim][m] = "none"]
      BY <2>1 DEF Unlink
    <3>2. CASE prune.victim \in Versions
      <4>1. [files[prune.victim] EXCEPT ![m] = "none"] \in [Members -> {"none", "partial", "whole"}]
        BY <3>2 DEF TypeOK, Prunes
      <4> QED
        BY <3>1, <3>2, <4>1 DEF TypeOK
    <3>3. CASE prune.victim \notin Versions
      BY <3>1, <3>3 DEF TypeOK
    <3> QED
      BY <3>2, <3>3
  <2>2. CASE ~Unlink
    BY <2>2 DEF BeginDelete, RemoveDirectory, PruneEnds, PruneStops, TypeOK
  <2> QED
    BY <2>1, <2>2
<1>5. \/ prune' = NoPrune
      \/ /\ prune' \in Prunes
         /\ prune.pc \in {"delete", "unlink"} /\ prune'.pc \in {"delete", "unlink"}
         /\ prune'.plan \subseteq prune.plan
         /\ prune'.listed = prune.listed /\ prune'.active = prune.active
  <2>1. CASE BeginDelete
    <3>1. PICK v \in prune.plan :
             prune' = IF v \in directories
                      THEN [prune EXCEPT !.pc = "unlink", !.victim = v, !.unlink = Present(v)]
                      ELSE [prune EXCEPT !.plan = @ \ {v}]
      BY <2>1 DEF BeginDelete
    <3>2. v \in Versions /\ Present(v) \subseteq Members
      BY DEF TypeOK, Prunes, Present
    <3> QED
      BY <2>1, <3>1, <3>2 DEF BeginDelete, TypeOK, Prunes
  <2>2. CASE Unlink
    <3>1. PICK m \in prune.unlink : prune' = [prune EXCEPT !.unlink = @ \ {m}]
      BY <2>2 DEF Unlink
    <3> QED
      BY <2>2, <3>1 DEF Unlink, TypeOK, Prunes
  <2>3. CASE RemoveDirectory
    <3> DEFINE done == [prune EXCEPT !.pc = "delete", !.plan = @ \ {prune.victim}, !.victim = None]
    <3>1. prune.pc = "unlink" /\ (prune' = NoPrune \/ prune' = done)
      BY <2>3 DEF RemoveDirectory
    <3>2. /\ done \in Prunes /\ done.pc = "delete" /\ done.plan \subseteq prune.plan
          /\ done.listed = prune.listed /\ done.active = prune.active
      BY DEF TypeOK, Prunes
    <3> HIDE DEF done
    <3> QED
      BY <3>1, <3>2
  <2>4. CASE PruneEnds \/ PruneStops
    BY <2>4 DEF PruneEnds, PruneStops
  <2> QED
    BY <2>1, <2>2, <2>3, <2>4
<1>6. TypeOK'
  BY <1>1, <1>2, <1>3, <1>4, <1>5 DEF TypeOK
<1>7. AtMostOneActive' /\ Active' = Active
  BY <1>2 DEF PruneInv, AtMostOneActive, Active
<1> QED
  BY <1>1, <1>2, <1>5, <1>6, <1>7
  DEF PruneInv, ListingStaysServed, PlanIsListed, PlanSparesActive

\* PruneInv holds in every reachable state.
THEOREM RetentionInvariant == Spec => []PruneInv
<1>1. PruneInv /\ [Next]_vars => PruneInv'
  <2> SUFFICES ASSUME PruneInv, [Next]_vars
               PROVE  PruneInv'
    OBVIOUS
  <2>1. CASE UNCHANGED vars
    <3>1. TypeOK' /\ AtMostOneActive' /\ Active' = Active
      BY <2>1 DEF vars, PruneInv, TypeOK, AtMostOneActive, Active
    <3> QED
      BY <2>1, <3>1, PlanSurvives DEF vars
  <2>2. CASE Next
    BY <2>2, ServingKeepsPruneInv, UploadKeepsPruneInv, PlanningKeepsPruneInv, DeletingKeepsPruneInv
    DEF Next, Pruning
  <2> QED
    BY <2>1, <2>2
<1> QED
  BY <1>1, PruneInvInitially, PTL DEF Spec

\* `prune-packages` deletes nothing that has not served: no candidate awaiting
\* review, no package whose row is still to be created.
THEOREM CandidatesAreSafe == Spec => []OnlyServedVersionsArePruned
<1>1. PruneInv => OnlyServedVersionsArePruned
  BY DEF PruneInv, TypeOK, Prunes, PlanIsListed, ListingStaysServed, OnlyServedVersionsArePruned
<1> QED
  BY <1>1, RetentionInvariant, PTL

\* As long as the active version stays the same while the command runs, the
\* command does not delete it.
THEOREM ActiveIsSafeUndisturbed == Spec => []UndisturbedActiveIsKept
<1>1. PruneInv => UndisturbedActiveIsKept
  BY DEF PruneInv, PlanSparesActive, UndisturbedActiveIsKept
<1> QED
  BY <1>1, RetentionInvariant, PTL

-----------------------------------------------------------------------------
(* The bytes of candidates.                                                *)

\* BytesInv survives a step that takes nothing from the directory, lets nothing
\* become a candidate, and leaves the upload and the command alone.
LEMMA BytesSurvive ==
    ASSUME PruneInv, BytesInv, UNCHANGED <<directories, files, upload, prune>>,
           \A w \in Versions : lifecycle'[w] = "candidate" => lifecycle[w] = "candidate" \/ w \notin Packages,
           \A w \in Versions : Served(lifecycle[w]) => Served(lifecycle'[w])
    PROVE  BytesInv'
<1>1. upload.pc # "idle" => upload.version \in Versions
  BY DEF PruneInv, TypeOK
<1>2. CandidatesKeepTheirBytes'
  BY PackagesAreVersions DEF BytesInv, CandidatesKeepTheirBytes, Present
<1>3. UploadIsThere'
  BY <1>1 DEF BytesInv, UploadIsThere, Present
<1> QED
  BY <1>2, <1>3 DEF BytesInv

\* Making a version active makes no candidate.
LEMMA MadeNoCandidate ==
    ASSUME TypeOK, NEW v \in Versions, MakeActive(v)
    PROVE  \A w \in Versions : lifecycle'[w] = "candidate" => lifecycle[w] = "candidate"
  BY DEF MakeActive, TypeOK

LEMMA ServingKeepsBytes ==
    ASSUME PruneInv, BytesInv, NEW v \in Versions,
           \/ Train(v) \/ Promote(v) \/ ReadPackage(v) \/ Activate(v) \/ MakeDirectory(v)
    PROVE  BytesInv'
<1> USE DEF disk, table
<1> TypeOK
  BY DEF PruneInv
<1>1. CASE Train(v)
  <2>1. \A w \in Versions : lifecycle'[w] = IF w = v THEN "candidate" ELSE lifecycle[w]
    BY <1>1 DEF Train, Register, TypeOK
  <2> QED
    BY <1>1, <2>1, BytesSurvive DEF Train, Served
<1>2. CASE Promote(v)
  BY <1>2, MadeActive, MadeNoCandidate, BytesSurvive DEF Promote
<1>3. CASE ReadPackage(v)
  BY <1>3, BytesSurvive DEF ReadPackage
<1>4. CASE Activate(v)
  BY <1>4, MadeActive, MadeNoCandidate, BytesSurvive DEF Activate
<1>5. CASE MakeDirectory(v)
  <2>1. /\ upload' = [pc |-> "write", version |-> v, left |-> Members, open |-> None]
        /\ v \in Packages /\ directories' = directories \cup {v}
        /\ UNCHANGED <<lifecycle, files, prune>>
    BY <1>5 DEF MakeDirectory
  <2> QED
    BY <2>1 DEF BytesInv, CandidatesKeepTheirBytes, UploadIsThere, Present
<1> QED
  BY <1>1, <1>2, <1>3, <1>4, <1>5

\* An upload only adds to the directory, and registers what it has stored.
LEMMA UploadKeepsBytes ==
    ASSUME PruneInv, BytesInv,
           \/ \E m \in Members : OpenMember(m)
           \/ WriteMember \/ RegisterPackage \/ Restart
    PROVE  BytesInv'
<1> USE DEF disk, table
<1> TypeOK /\ (upload.pc # "idle" => upload.version \in Versions)
  BY DEF PruneInv, TypeOK
<1> NoUpload.pc = "idle"
  BY DEF NoUpload
<1>1. ASSUME NEW m \in Members, OpenMember(m)
      PROVE  BytesInv'
  <2>1. CASE upload.version \notin directories
    <3>1. upload' = NoUpload /\ UNCHANGED <<lifecycle, directories, files, prune>>
      BY <1>1, <2>1 DEF OpenMember
    <3> QED
      BY <3>1 DEF BytesInv, CandidatesKeepTheirBytes, UploadIsThere, Present
  <2>2. CASE upload.version \in directories
    <3>1. /\ upload.version \in Versions /\ upload.pc = "write"
          /\ upload' = [upload EXCEPT !.open = m]
          /\ files' = [files EXCEPT ![upload.version][m] = "partial"]
          /\ UNCHANGED <<lifecycle, directories, prune>>
      BY <1>1, <2>2 DEF OpenMember
    <3>2. /\ upload'.pc = "write" /\ upload'.version = upload.version
          /\ upload'.left = upload.left /\ upload'.open = m
      BY <3>1 DEF TypeOK, Uploads
    <3>3. [files[upload.version] EXCEPT ![m] = "partial"][m] = "partial"
      BY <3>1 DEF TypeOK
    <3>4. /\ Present(upload.version)' = Present(upload.version) \cup {m}
          /\ \A w \in Versions \ {upload.version} : Present(w)' = Present(w)
      BY <3>1, <3>3 DEF TypeOK, Present
    <3>5. CandidatesKeepTheirBytes'
      BY <3>1, <3>4, PackagesAreVersions DEF BytesInv, CandidatesKeepTheirBytes, Present
    <3>6. UploadIsThere'
      BY <3>1, <3>2, <3>4 DEF BytesInv, UploadIsThere
    <3> QED
      BY <3>1, <3>5, <3>6 DEF BytesInv
  <2> QED
    BY <2>1, <2>2
<1>2. CASE WriteMember
  <2> DEFINE v == upload.version
             m == upload.open
  <2>1. /\ v \in Versions /\ upload.pc = "write" /\ m # None /\ m \in Members
        /\ files' = [files EXCEPT ![v][m] = IF @ = "none" THEN "none" ELSE "whole"]
        /\ UNCHANGED <<lifecycle, directories, prune>>
    BY <1>2 DEF WriteMember, TypeOK, Uploads
  <2>2. /\ upload'.version = v /\ upload'.open = None /\ upload'.left = upload.left \ {m}
        /\ upload'.pc \in {"write", "register"}
        /\ upload'.pc = "register" => upload.left = {m}
    BY <1>2, <2>1 DEF WriteMember, TypeOK, Uploads
  <2>3. \A w \in Versions : Present(w)' = Present(w)
    <3>1. \A w \in Versions, n \in Members :
             files'[w][n] = IF w = v /\ n = m /\ files[w][n] # "none" THEN "whole" ELSE files[w][n]
      BY <2>1 DEF TypeOK
    <3> QED
      BY <3>1 DEF Present
  <2> HIDE DEF v, m
  <2>4. CandidatesKeepTheirBytes'
    BY <2>1, <2>3, PackagesAreVersions DEF BytesInv, CandidatesKeepTheirBytes
  <2>5. UploadIsThere'
    BY <2>1, <2>2, <2>3 DEF BytesInv, UploadIsThere, v, m
  <2> QED
    BY <2>1, <2>4, <2>5 DEF BytesInv
<1>3. CASE RegisterPackage
  <2>1. /\ upload.pc = "register" /\ upload' = NoUpload
        /\ UNCHANGED <<directories, files, prune>>
    BY <1>3 DEF RegisterPackage
  <2>2. UploadIsThere'
    BY <2>1 DEF UploadIsThere
  <2>3. CASE lifecycle[upload.version] = "absent" /\ Register(upload.version)
    <3>1. Members \subseteq Present(upload.version) /\ upload.version \in directories
      BY <2>1, <2>3 DEF BytesInv, UploadIsThere, Served
    <3>2. \A w \in Versions : lifecycle'[w] = IF w = upload.version THEN "candidate" ELSE lifecycle[w]
      BY <2>3 DEF Register, TypeOK
    <3> QED
      BY <2>1, <2>2, <3>1, <3>2, PackagesAreVersions DEF BytesInv, CandidatesKeepTheirBytes, Present
  <2>4. CASE UNCHANGED table
    BY <2>1, <2>2, <2>4 DEF BytesInv, CandidatesKeepTheirBytes, Present
  <2> QED
    BY <1>3, <2>3, <2>4 DEF RegisterPackage
<1>4. CASE Restart
  <2>1. upload' = NoUpload /\ UNCHANGED <<lifecycle, directories, files, prune>>
    BY <1>4 DEF Restart
  <2> QED
    BY <2>1 DEF BytesInv, CandidatesKeepTheirBytes, UploadIsThere, Present
<1> QED
  BY <1>1, <1>2, <1>3, <1>4

\* The command takes bytes only from a version in its plan, which has served.
LEMMA PruningKeepsBytes ==
    ASSUME PruneInv, BytesInv, ListVersions \/ Pruning \/ PruneStops
    PROVE  BytesInv'
<1> USE DEF disk, table
<1> TypeOK
  BY DEF PruneInv
<1>1. UNCHANGED <<lifecycle, upload>>
  BY DEF ListVersions, Pruning, ReadActive, MakePlan, BeginDelete, Unlink, RemoveDirectory,
         PruneEnds, PruneStops
<1>2. prune.pc = "unlink" =>
         prune.victim \in Versions /\ Served(lifecycle[prune.victim])
  BY DEF PruneInv, BytesInv, TypeOK, Prunes, PlanIsListed, ListingStaysServed
<1>3. /\ \A w \in Versions : ~Served(lifecycle[w]) => Present(w)' = Present(w)
      /\ \A w \in Versions : ~Served(lifecycle[w]) => (w \in directories' <=> w \in directories)
  <2>1. CASE Unlink
    <3>1. PICK m \in prune.unlink : files' = [files EXCEPT ![prune.victim][m] = "none"]
      BY <2>1 DEF Unlink
    <3>2. prune.pc = "unlink" /\ directories' = directories
      BY <2>1 DEF Unlink
    <3>3. \A w \in Versions \ {prune.victim} : files'[w] = files[w]
      BY <3>1, <3>2, <1>2 DEF TypeOK
    <3> QED
      BY <3>2, <3>3, <1>2 DEF Present
  <2>2. CASE RemoveDirectory
    BY <2>2, <1>2 DEF RemoveDirectory, Present
  <2>3. CASE ~Unlink /\ ~RemoveDirectory
    BY <2>3 DEF ListVersions, Pruning, ReadActive, MakePlan, BeginDelete, PruneEnds, PruneStops,
                Present
  <2> QED
    BY <2>1, <2>2, <2>3
<1>4. CandidatesKeepTheirBytes'
  BY <1>1, <1>3, PackagesAreVersions DEF BytesInv, CandidatesKeepTheirBytes, Served
<1>5. UploadIsThere'
  <2>1. upload.pc # "idle" => upload.version \in Versions
    BY DEF TypeOK
  <2> QED
    BY <1>1, <1>3, <2>1 DEF BytesInv, UploadIsThere
<1>6. prune'.pc = "unlink" => prune'.victim \in prune'.plan
  <2>1. NoPrune.pc = "idle"
    BY DEF NoPrune
  <2>2. CASE ListVersions
    BY <2>2 DEF ListVersions, NoPrune
  <2>3. CASE ReadActive \/ MakePlan
    BY <2>3 DEF ReadActive, MakePlan, TypeOK, Prunes
  <2>4. CASE BeginDelete
    <3>1. PICK v \in prune.plan :
             prune' = IF v \in directories
                      THEN [prune EXCEPT !.pc = "unlink", !.victim = v, !.unlink = Present(v)]
                      ELSE [prune EXCEPT !.plan = @ \ {v}]
      BY <2>4 DEF BeginDelete
    <3> QED
      BY <2>4, <3>1 DEF BeginDelete, TypeOK, Prunes
  <2>5. CASE Unlink
    <3>1. PICK m \in prune.unlink : prune' = [prune EXCEPT !.unlink = @ \ {m}]
      BY <2>5 DEF Unlink
    <3> QED
      BY <2>5, <3>1 DEF Unlink, BytesInv, TypeOK, Prunes
  <2>6. CASE RemoveDirectory
    <3> DEFINE done == [prune EXCEPT !.pc = "delete", !.plan = @ \ {prune.victim}, !.victim = None]
    <3>1. prune' = NoPrune \/ prune' = done
      BY <2>6 DEF RemoveDirectory
    <3>2. done.pc = "delete"
      BY DEF TypeOK, Prunes
    <3> HIDE DEF done
    <3> QED
      BY <2>1, <3>1, <3>2
  <2>7. CASE PruneEnds \/ PruneStops
    BY <2>1, <2>7 DEF PruneEnds, PruneStops
  <2> QED
    BY <2>2, <2>3, <2>4, <2>5, <2>6, <2>7 DEF Pruning
<1> QED
  BY <1>4, <1>5, <1>6 DEF BytesInv

\* BytesInv holds in every reachable state.
THEOREM BytesInvariant == Spec => []BytesInv
<1>1. Init => BytesInv
  BY PackagesAreVersions DEF Init, BytesInv, CandidatesKeepTheirBytes, UploadIsThere, NoUpload, NoPrune
<1>2. PruneInv /\ BytesInv /\ [Next]_vars => BytesInv'
  <2> SUFFICES ASSUME PruneInv, BytesInv, [Next]_vars
               PROVE  BytesInv'
    OBVIOUS
  <2>1. CASE UNCHANGED vars
    BY <2>1, BytesSurvive DEF vars
  <2>2. CASE Next
    BY <2>2, ServingKeepsBytes, UploadKeepsBytes, PruningKeepsBytes DEF Next
  <2> QED
    BY <2>1, <2>2
<1> QED
  BY <1>1, <1>2, RetentionInvariant, PTL DEF Spec

\* The row of a candidate and the files of its package do not drift apart, by
\* upload, restart or pruning.
THEOREM CandidateBytesStay == Spec => []CandidatesKeepTheirBytes
<1>1. BytesInv => CandidatesKeepTheirBytes
  BY DEF BytesInv
<1> QED
  BY <1>1, BytesInvariant, PTL

-----------------------------------------------------------------------------
(* The retired versions that are kept.                                     *)

\* A set of natural numbers that is not empty has a least one.
LEMMA LeastNat ==
    ASSUME NEW T \in SUBSET Nat, T # {}
    PROVE  \E x \in T : \A y \in T : x <= y
<1>1. \E x \in T : \A y \in T : ~(y < x)
  <2>1. \A x, y \in Nat : y < x => <<y, x>> \in OpToRel(<, Nat)
    BY DEF OpToRel
  <2>2. PICK x \in T : \A y \in T : <<y, x>> \notin OpToRel(<, Nat)
    BY NatLessThanWellFounded, WFMin, Zenon
  <2> QED
    BY <2>1, <2>2, Zenon
<1> QED
  BY <1>1

\* The members of S with a greater number than v.
Newer(S, num, v) == {w \in S : num[w] > num[v]}

\* retired[: K]: if any member of S is left out of those with fewer than K newer ones, then
\* those are K or more, whether or not the numbers are distinct.
LEMMA NewestAreEnough ==
    ASSUME NEW S, IsFiniteSet(S), NEW num, \A v \in S : num[v] \in Nat, NEW K \in Nat,
           NEW v \in S, ~(Cardinality(Newer(S, num, v)) < K)
    PROVE  Cardinality({w \in S : Cardinality(Newer(S, num, w)) < K}) >= K
<1> DEFINE Rank(w) == Cardinality(Newer(S, num, w))
           kept == {w \in S : Rank(w) < K}
           ranks == {Rank(w) : w \in S \ kept}
<1>1. \A w \in S : IsFiniteSet(Newer(S, num, w)) /\ Rank(w) \in Nat
  <2> SUFFICES ASSUME NEW w \in S
               PROVE  IsFiniteSet(Newer(S, num, w)) /\ Rank(w) \in Nat
    OBVIOUS
  <2>1. Newer(S, num, w) \in SUBSET S
    BY DEF Newer
  <2> QED
    BY <2>1, FS_Subset, FS_CardinalityType
<1>2. IsFiniteSet(kept) /\ Cardinality(kept) \in Nat
  <2>1. kept \in SUBSET S
    OBVIOUS
  <2> QED
    BY <2>1, FS_Subset, FS_CardinalityType
<1>3. PICK x \in S \ kept : \A y \in S \ kept : Rank(x) <= Rank(y)
  <2>1. ranks \in SUBSET Nat /\ ranks # {}
    BY <1>1
  <2>2. PICK r \in ranks : \A q \in ranks : r <= q
    BY <2>1, LeastNat
  <2> QED
    BY <2>2
<1>4. Newer(S, num, x) \subseteq kept
  <2> SUFFICES ASSUME NEW y \in Newer(S, num, x), y \notin kept
               PROVE  FALSE
    OBVIOUS
  <2>1. y \in S /\ Newer(S, num, y) \in SUBSET Newer(S, num, x) /\ y \notin Newer(S, num, y)
    BY DEF Newer
  <2>2. Rank(y) <= Rank(x) /\ Rank(y) # Rank(x)
    BY <1>1, <2>1, FS_Subset
  <2>3. Rank(x) <= Rank(y)
    BY <1>3, <2>1
  <2> QED
    BY <1>1, <2>1, <2>2, <2>3
<1>5. Rank(x) <= Cardinality(kept)
  BY <1>2, <1>4, FS_Subset
<1>6. ~(Rank(x) < K)
  BY <1>3
<1> HIDE DEF Rank
<1>7. Rank(x) \in Nat
  BY <1>1
<1> QED
  BY <1>2, <1>5, <1>6, <1>7 DEF Rank

\* And as many of those that are kept are newer than the one that is left out.
LEMMA NewerAreEnough ==
    ASSUME NEW S, IsFiniteSet(S), NEW num, \A v \in S : num[v] \in Nat, NEW K \in Nat,
           NEW v \in S, ~(Cardinality(Newer(S, num, v)) < K)
    PROVE  Cardinality({w \in S : num[w] > num[v] /\ Cardinality(Newer(S, num, w)) < K}) >= K
<1> DEFINE newer == Newer(S, num, v)
           chosen == {w \in newer : Cardinality(Newer(newer, num, w)) < K}
           kept == {w \in S : num[w] > num[v] /\ Cardinality(Newer(S, num, w)) < K}
<1>1. IsFiniteSet(newer) /\ Cardinality(newer) \in Nat /\ newer \in SUBSET S
  <2>1. newer \in SUBSET S
    BY DEF Newer
  <2> QED
    BY <2>1, FS_Subset, FS_CardinalityType
<1>2. \A w \in newer : Newer(newer, num, w) = Newer(S, num, w)
  BY DEF Newer
<1>3. chosen = kept
  BY <1>2 DEF Newer
<1>4. Cardinality(chosen) >= K
  <2>1. CASE chosen = newer
    <3>1. ~(Cardinality(newer) < K)
      OBVIOUS
    <3> HIDE DEF newer, chosen
    <3> QED
      BY <1>1, <2>1, <3>1
  <2>2. CASE chosen # newer
    <3>1. PICK w \in newer : ~(Cardinality(Newer(newer, num, w)) < K)
      BY <2>2
    <3>2. \A x \in newer : num[x] \in Nat
      BY <1>1
    <3> HIDE DEF newer
    <3> QED
      BY <1>1, <3>1, <3>2, NewestAreEnough
  <2> QED
    BY <2>1, <2>2
<1> QED
  BY <1>3, <1>4

\* Undisturbed, the command has listed as retired what is retired, and leaves the newest.
RetiredInv ==
    /\ undisturbed /\ prune.pc # "idle" =>
         \A v \in Versions : prune.listed[v] = "retired" <=> lifecycle[v] = "retired"
    /\ UndisturbedRetiredAreKept

Retired == {v \in Versions : lifecycle[v] = "retired"}

\* The retired versions newer than v that are not in plan, by the numbers in num.
Spared(plan, num, v) == {w \in Retired \ plan : num[w] > num[v]}

\* A change of the numbers is a registration, of a version that is not retired.
KeepsNumbers == \A v \in Retired : number'[v] = number[v]

\* It survives what leaves the command alone and retires nothing, or disturbs it.
LEMMA RetiredSurvive ==
    ASSUME RetiredInv, UNCHANGED prune,
           \/ undisturbed' = FALSE
           \/ /\ undisturbed' = undisturbed /\ KeepsNumbers
              /\ \A v \in Versions : lifecycle'[v] = "retired" <=> lifecycle[v] = "retired"
    PROVE  RetiredInv'
<1>1. undisturbed' => undisturbed /\ Retired' = Retired
  BY DEF Retired
<1>2. UndisturbedRetiredAreKept'
  <2> SUFFICES ASSUME undisturbed', prune.pc \in {"delete", "unlink"}, NEW v \in Retired' \cap prune.plan
               PROVE  Cardinality({w \in Retired' \ prune.plan : number'[w] > number'[v]}) >= KeepRetired
    BY DEF UndisturbedRetiredAreKept, Retired
  <2>1. undisturbed /\ Retired' = Retired /\ \A w \in Retired : number'[w] = number[w]
    BY <1>1 DEF KeepsNumbers
  <2>2. {w \in Retired' \ prune.plan : number'[w] > number'[v]} = Spared(prune.plan, number, v)
    BY <2>1 DEF Spared
  <2>3. Cardinality(Spared(prune.plan, number, v)) >= KeepRetired
    BY <2>1 DEF RetiredInv, UndisturbedRetiredAreKept, Retired, Spared
  <2> QED
    BY <2>2, <2>3
<1> QED
  BY <1>2 DEF RetiredInv

\* The plan leaves the newest of the retired versions.
LEMMA PlanLeavesTheNewest ==
    ASSUME TypeOK, RetiredInv, MakePlan
    PROVE  RetiredInv'
<1> DEFINE plan == ((Versions \ Listed("absent")) \ Kept) \cap directories
<1>1. /\ prune.pc = "plan" /\ prune' = [prune EXCEPT !.pc = "delete", !.plan = plan]
      /\ UNCHANGED <<lifecycle, number, undisturbed>>
  BY DEF MakePlan, table
<1>2. prune'.pc = "delete" /\ prune'.plan = plan /\ prune'.listed = prune.listed
  BY <1>1 DEF TypeOK, Prunes
<1>3. ASSUME undisturbed, NEW v \in Retired \cap plan
      PROVE  Cardinality(Spared(plan, number, v)) >= KeepRetired
  <2> DEFINE kept == {w \in Retired : number[w] > number[v]
                                      /\ Cardinality(Newer(Retired, number, w)) < KeepRetired}
  <2>1. Listed("retired") = Retired /\ IsFiniteSet(Retired)
    BY <1>1, <1>3, VersionsAreFinite, FS_Subset DEF RetiredInv, Listed, Retired
  <2>2. RollbackTargets = {w \in Retired : Cardinality(Newer(Retired, number, w)) < KeepRetired}
    BY <2>1 DEF RollbackTargets, Newer
  <2>3. RollbackTargets \subseteq Retired /\ RollbackTargets \cap plan = {} /\ v \notin RollbackTargets
    BY <2>2 DEF Kept
  <2>4. Cardinality(kept) >= KeepRetired
    <3>1. \A w \in Retired : number[w] \in Nat
      BY DEF TypeOK, Retired
    <3>2. ~(Cardinality(Newer(Retired, number, v)) < KeepRetired)
      BY <2>2, <2>3
    <3> QED
      BY <2>1, <3>1, <3>2, NewerAreEnough, KeepRetiredIsNat
  <2>5. kept \in SUBSET Spared(plan, number, v)
    BY <2>2, <2>3 DEF Spared
  <2>6. /\ IsFiniteSet(Spared(plan, number, v)) /\ IsFiniteSet(kept)
        /\ Cardinality(Spared(plan, number, v)) \in Nat /\ Cardinality(kept) \in Nat
    <3>1. Spared(plan, number, v) \in SUBSET Retired /\ kept \in SUBSET Retired
      BY DEF Spared
    <3> QED
      BY <2>1, <3>1, FS_Subset, FS_CardinalityType
  <2>7. Cardinality(kept) <= Cardinality(Spared(plan, number, v))
    BY <2>5, <2>6, FS_Subset
  <2> HIDE DEF kept
  <2> QED
    BY <2>4, <2>6, <2>7, KeepRetiredIsNat
<1> HIDE DEF plan
<1>4. UndisturbedRetiredAreKept'
  <2>1. Retired' = Retired
    BY <1>1 DEF Retired
  <2>2. undisturbed => \A v \in Retired \cap plan : Cardinality(Spared(plan, number, v)) >= KeepRetired
    BY <1>3
  <2> QED
    BY <1>1, <1>2, <2>1, <2>2 DEF UndisturbedRetiredAreKept, Retired, Spared
<1> QED
  BY <1>1, <1>2, <1>4 DEF RetiredInv

\* Deleting from the plan never takes away what is left.
LEMMA DeletingLeavesTheNewest ==
    ASSUME TypeOK, RetiredInv, BeginDelete \/ Unlink \/ RemoveDirectory \/ PruneEnds \/ PruneStops
    PROVE  RetiredInv'
<1>1. /\ UNCHANGED <<lifecycle, number, undisturbed>>
      /\ \/ prune'.pc = "idle"
         \/ /\ prune.pc \in {"delete", "unlink"} /\ prune'.pc \in {"delete", "unlink"}
            /\ prune'.plan \subseteq prune.plan /\ prune'.listed = prune.listed
  <2>1. CASE BeginDelete
    BY <2>1 DEF BeginDelete, TypeOK, Prunes, table
  <2>2. CASE Unlink
    BY <2>2 DEF Unlink, TypeOK, Prunes, table
  <2>3. CASE RemoveDirectory
    <3> DEFINE done == [prune EXCEPT !.pc = "delete", !.plan = @ \ {prune.victim}, !.victim = None]
    <3>1. prune.pc = "unlink" /\ (prune' = NoPrune \/ prune' = done)
      BY <2>3 DEF RemoveDirectory
    <3>2. /\ done.pc = "delete" /\ done.plan \subseteq prune.plan /\ done.listed = prune.listed
          /\ NoPrune.pc = "idle"
      BY DEF TypeOK, Prunes, NoPrune
    <3> HIDE DEF done
    <3> QED
      BY <2>3, <3>1, <3>2 DEF RemoveDirectory, table
  <2>4. CASE PruneEnds \/ PruneStops
    BY <2>4 DEF PruneEnds, PruneStops, NoPrune, table
  <2> QED
    BY <2>1, <2>2, <2>3, <2>4
<1>2. CASE prune'.pc = "idle"
  BY <1>2 DEF RetiredInv, UndisturbedRetiredAreKept
<1>3. CASE prune'.pc # "idle"
  <2>1. Retired' = Retired
    BY <1>1 DEF Retired
  <2>2. ASSUME undisturbed, NEW v \in Retired \cap prune'.plan
        PROVE  Cardinality(Spared(prune'.plan, number, v)) >= KeepRetired
    <3>1. Cardinality(Spared(prune.plan, number, v)) >= KeepRetired
      BY <1>1, <1>3, <2>2 DEF RetiredInv, UndisturbedRetiredAreKept, Retired, Spared
    <3>2. /\ Spared(prune'.plan, number, v) \in SUBSET Versions
          /\ Spared(prune.plan, number, v) \in SUBSET Spared(prune'.plan, number, v)
      BY <1>1, <1>3 DEF Retired, Spared
    <3>3. /\ Cardinality(Spared(prune.plan, number, v)) <= Cardinality(Spared(prune'.plan, number, v))
          /\ Cardinality(Spared(prune.plan, number, v)) \in Nat
          /\ Cardinality(Spared(prune'.plan, number, v)) \in Nat
      BY <3>2, VersionsAreFinite, FS_Subset, FS_CardinalityType
    <3> QED
      BY <3>1, <3>3, KeepRetiredIsNat
  <2>3. UndisturbedRetiredAreKept'
    BY <1>1, <2>1, <2>2 DEF UndisturbedRetiredAreKept, Retired, Spared
  <2> QED
    BY <1>1, <1>3, <2>3 DEF RetiredInv
<1> QED
  BY <1>2, <1>3

\* Every step keeps what is listed as retired and the newest of it.
LEMMA RetiredInvIsKept == PruneInv /\ RetiredInv /\ [Next]_vars => RetiredInv'
<1> SUFFICES ASSUME PruneInv, RetiredInv, [Next]_vars
             PROVE  RetiredInv'
  OBVIOUS
<1>0. TypeOK
  BY DEF PruneInv
<1>1. \A v \in Versions : lifecycle[v] = "absent" /\ Register(v) =>
         /\ \A w \in Versions : lifecycle'[w] = "retired" <=> lifecycle[w] = "retired"
         /\ KeepsNumbers
  BY <1>0 DEF Register, TypeOK, KeepsNumbers, Retired
<1>2. CASE UNCHANGED vars
  BY <1>2, RetiredSurvive DEF vars, KeepsNumbers
<1>3. ASSUME NEW v \in Versions,
             Train(v) \/ Promote(v) \/ ReadPackage(v) \/ Activate(v) \/ MakeDirectory(v)
      PROVE  RetiredInv'
  <2>1. UNCHANGED prune
    BY <1>3 DEF Train, Promote, ReadPackage, Activate, MakeDirectory
  <2>2. \/ undisturbed' = FALSE
        \/ UNCHANGED table
        \/ lifecycle[v] = "absent" /\ Register(v)
    BY <1>3 DEF Train, Promote, ReadPackage, Activate, MakeDirectory, MakeActive, table
  <2> QED
    BY <1>1, <2>1, <2>2, RetiredSurvive DEF table, Register, KeepsNumbers
<1>4. CASE (\E m \in Members : OpenMember(m)) \/ WriteMember \/ RegisterPackage \/ Restart
  <2>1. UNCHANGED prune
    BY <1>4 DEF OpenMember, WriteMember, RegisterPackage, Restart
  <2>2. \/ UNCHANGED table
        \/ /\ upload.version \in Versions /\ lifecycle[upload.version] = "absent"
           /\ Register(upload.version)
    BY <1>0, <1>4 DEF OpenMember, WriteMember, RegisterPackage, Restart, TypeOK
  <2> QED
    BY <1>1, <2>1, <2>2, RetiredSurvive DEF table, Register, KeepsNumbers
<1>5. CASE ListVersions
  BY <1>5 DEF ListVersions, RetiredInv, UndisturbedRetiredAreKept, NoPrune
<1>6. CASE ReadActive
  <2>1. /\ prune.pc = "active" /\ prune'.pc = "plan" /\ prune'.listed = prune.listed
        /\ UNCHANGED <<lifecycle, undisturbed>>
    BY <1>0, <1>6 DEF ReadActive, TypeOK, Prunes, table
  <2> QED
    BY <2>1 DEF RetiredInv, UndisturbedRetiredAreKept
<1> QED
  BY <1>0, <1>2, <1>3, <1>4, <1>5, <1>6, PlanLeavesTheNewest, DeletingLeavesTheNewest
  DEF Next, Pruning

\* `prune-packages` deletes a retired version only if as many newer ones as were asked for
\* are left to roll back to, unless some version is activated or promoted while it runs.
THEOREM RetiredAreSafeUndisturbed == Spec => []UndisturbedRetiredAreKept
<1>1. Init => RetiredInv
  BY DEF Init, RetiredInv, UndisturbedRetiredAreKept
<1>2. RetiredInv => UndisturbedRetiredAreKept
  BY DEF RetiredInv
<1> QED
  BY <1>1, <1>2, RetiredInvIsKept, RetentionInvariant, PTL DEF Spec
=============================================================================
