--------------------------- MODULE PackageRetention ---------------------------
(***************************************************************************)
(* application/package_retention.py, run by `prune-packages` as a process  *)
(* of its own, against the directory of packages that the serving process  *)
(* writes on upload and reads on activation.                               *)
(*                                                                         *)
(* The table is used here through what ModelVersionRepository is proved to *)
(* implement (ActiveVersionRegister): a change of the active version is    *)
(* one step.  A call that loses its race changes nothing and is left out.  *)
(* The directory is used file by file, as the store does.                  *)
(***************************************************************************)
EXTENDS Integers, FiniteSets

CONSTANTS
    Versions,      \* model versions
    Packages,      \* those that are uploaded; the others are trained in process
    Members,       \* the files of a package
    None,          \* no version, no file
    KeepRetired    \* --keep-retired, 3 by default; a negative one is left out

ASSUME PackagesAreVersions == Packages \subseteq Versions
ASSUME NoneIsNothing == None \notin Versions \cup Members
ASSUME KeepRetiredIsNat == KeepRetired \in Nat
ASSUME VersionsAreFinite == IsFiniteSet(Versions)

VARIABLES
    lifecycle,      \* lifecycle_status of each row, or "absent"
    number,         \* the autoincremented `version` of each row, 0 when absent
    directories,    \* versions that have a directory
    files,          \* each member of each version: none, partial or whole
    upload,         \* the upload under way
    loaded,         \* versions whose bytes an activation has read and verified
    prune,          \* the pruning process
    undisturbed     \* history: the active version has not changed since it listed

vars == <<lifecycle, number, directories, files, upload, loaded, prune, undisturbed>>
table == <<lifecycle, number, undisturbed>>
disk == <<directories, files>>

Statuses == {"absent", "candidate", "active", "retired"}

Uploads == [pc : {"idle", "write", "register"}, version : Versions \cup {None},
            left : SUBSET Members, open : Members \cup {None}]

NoUpload == [pc |-> "idle", version |-> None, left |-> {}, open |-> None]

Prunes == [pc : {"idle", "active", "plan", "delete", "unlink"},
           listed : [Versions -> Statuses],      \* list_all()
           active : Versions \cup {None},        \* get_active()
           plan : SUBSET Versions,               \* what is left of the plan to delete
           victim : Versions \cup {None},        \* the version being deleted
           unlink : SUBSET Members]              \* its files as iterdir() listed them

NoPrune == [pc |-> "idle", listed |-> [v \in Versions |-> "absent"], active |-> None,
            plan |-> {}, victim |-> None, unlink |-> {}]

Registered == {v \in Versions : lifecycle[v] # "absent"}

Active == {v \in Versions : lifecycle[v] = "active"}

Present(v) == {m \in Members : files[v][m] # "none"}

Intact(v) == v \in directories /\ \A m \in Members : files[v][m] = "whole"

Init ==
    /\ lifecycle = [v \in Versions |-> "absent"]
    /\ number = [v \in Versions |-> 0]
    /\ directories = {}
    /\ files = [v \in Versions |-> [m \in Members |-> "none"]]
    /\ upload = NoUpload
    /\ loaded = {}
    /\ prune = NoPrune
    /\ undisturbed = FALSE

-----------------------------------------------------------------------------
(* The table.                                                              *)

Register(v) ==
    /\ lifecycle' = [lifecycle EXCEPT ![v] = "candidate"]
    /\ number' = [number EXCEPT ![v] = Cardinality(Registered) + 1]
    /\ UNCHANGED undisturbed

Train(v) ==
    /\ v \in Versions \ Packages /\ lifecycle[v] = "absent"
    /\ Register(v)
    /\ UNCHANGED <<disk, upload, loaded, prune>>

\* The row becomes active and the active one, if any, retired, in one commit.
MakeActive(v) ==
    /\ lifecycle' = [w \in Versions |-> IF w = v THEN "active"
                                        ELSE IF w \in Active THEN "retired" ELSE lifecycle[w]]
    /\ undisturbed' = FALSE
    /\ UNCHANGED number

\* promote(): no bytes are needed.
Promote(v) ==
    /\ lifecycle[v] = "candidate"
    /\ MakeActive(v)
    /\ UNCHANGED <<disk, upload, loaded, prune>>

\* read_members and verify_member_checksums find every member whole ...
ReadPackage(v) ==
    /\ v \in Registered /\ Intact(v)
    /\ loaded' = loaded \cup {v}
    /\ UNCHANGED <<table, disk, upload, prune>>

\* ... and activate() follows after loading and smoke tests, from memory, or not at all.
Activate(v) ==
    /\ v \in loaded
    /\ loaded' = loaded \ {v}
    /\ \/ lifecycle[v] \in {"candidate", "retired"} /\ MakeActive(v)
       \/ UNCHANGED table
    /\ UNCHANGED <<disk, upload, prune>>

-----------------------------------------------------------------------------
(* Upload: FilesystemModelArtifactStore.store, then RegisterIngestedPackage.  *)
(* The handler is a coroutine that does not await: one upload at a time.   *)

MakeDirectory(v) ==
    /\ upload.pc = "idle" /\ v \in Packages
    /\ directories' = directories \cup {v}
    /\ upload' = [pc |-> "write", version |-> v, left |-> Members, open |-> None]
    /\ UNCHANGED <<table, files, loaded, prune>>

\* write_bytes truncates the file, or creates it ...
OpenMember(m) ==
    /\ upload.pc = "write" /\ upload.open = None /\ m \in upload.left
    /\ IF upload.version \in directories
          THEN /\ upload' = [upload EXCEPT !.open = m]
               /\ files' = [files EXCEPT ![upload.version][m] = "partial"]
          ELSE upload' = NoUpload /\ UNCHANGED files
    /\ UNCHANGED <<table, directories, loaded, prune>>

\* Mutant of WriteMember: the package counts as stored after its first member.
WriteMemberRegistersEarly ==
    LET v == upload.version
        m == upload.open
    IN
    /\ upload.pc = "write" /\ m # None
    /\ files' = [files EXCEPT ![v][m] = IF @ = "none" THEN "none" ELSE "whole"]
    /\ upload' = [upload EXCEPT !.open = None, !.left = @ \ {m}, !.pc = "register"]
    /\ UNCHANGED <<table, directories, loaded, prune>>

\* ... and fills it, unless its name has been unlinked under it.
WriteMember ==
    LET v == upload.version
        m == upload.open
    IN
    /\ upload.pc = "write" /\ m # None
    /\ files' = [files EXCEPT ![v][m] = IF @ = "none" THEN "none" ELSE "whole"]
    /\ upload' = [upload EXCEPT !.open = None, !.left = @ \ {m},
                                !.pc = IF upload.left = {m} THEN "register" ELSE "write"]
    /\ UNCHANGED <<table, directories, loaded, prune>>

RegisterPackage ==
    /\ upload.pc = "register"
    /\ IF lifecycle[upload.version] = "absent" THEN Register(upload.version) ELSE UNCHANGED table
    /\ upload' = NoUpload
    /\ UNCHANGED <<disk, loaded, prune>>

\* The serving process is killed: what it was doing is lost, the disk stays.
Restart ==
    /\ upload # NoUpload \/ loaded # {}
    /\ upload' = NoUpload
    /\ loaded' = {}
    /\ UNCHANGED <<table, disk, prune>>

-----------------------------------------------------------------------------
(* PruneRetainedPackages.plan().                                           *)

ListVersions ==
    /\ prune.pc = "idle"
    /\ prune' = [NoPrune EXCEPT !.pc = "active", !.listed = lifecycle]
    /\ undisturbed' = TRUE
    /\ UNCHANGED <<lifecycle, number, disk, upload, loaded>>

ReadActive ==
    /\ prune.pc = "active"
    /\ prune' = [prune EXCEPT !.pc = "plan",
                              !.active = IF Active = {} THEN None ELSE CHOOSE v \in Active : TRUE]
    /\ UNCHANGED <<table, disk, upload, loaded>>

Listed(status) == {v \in Versions : prune.listed[v] = status}

\* Mutant of RollbackTargets: the listing is taken for oldest first.
OldestRetired ==
    {v \in Listed("retired") :
        Cardinality({w \in Listed("retired") : number[w] < number[v]}) < KeepRetired}

\* retired[: keep_retired], of a listing by descending version.
RollbackTargets ==
    {v \in Listed("retired") :
        Cardinality({w \in Listed("retired") : number[w] > number[v]}) < KeepRetired}

\* Mutant of Kept: candidates are not positively kept.
KeptWithoutCandidates == ({prune.active} \ {None}) \cup RollbackTargets

\* Mutant of Kept: the active version is in nobody's list.
KeptWithoutActive == Listed("candidate") \cup RollbackTargets

\* The versions the plan names as kept.
Kept == ({prune.active} \ {None}) \cup Listed("candidate") \cup RollbackTargets

\* Every other listed version that has a directory.  A dry run ends here.
MakePlan ==
    /\ prune.pc = "plan"
    /\ prune' = [prune EXCEPT !.pc = "delete",
                              !.plan = ((Versions \ Listed("absent")) \ Kept) \cap directories]
    /\ UNCHANGED <<table, disk, upload, loaded>>

-----------------------------------------------------------------------------
(* PruneRetainedPackages.execute(): delete() on each, in the listed order. *)

NewestFirst(v) == v \in prune.plan /\ \A w \in prune.plan : number[w] <= number[v]

\* is_dir(), and the names that iterdir() returns.
BeginDelete ==
    /\ prune.pc = "delete"
    /\ \E v \in prune.plan :
          /\ NewestFirst(v)
          /\ prune' = IF v \in directories
                      THEN [prune EXCEPT !.pc = "unlink", !.victim = v, !.unlink = Present(v)]
                      ELSE [prune EXCEPT !.plan = @ \ {v}]
    /\ UNCHANGED <<table, disk, upload, loaded>>

Unlink ==
    /\ prune.pc = "unlink"
    /\ \E m \in prune.unlink :
          /\ prune' = [prune EXCEPT !.unlink = @ \ {m}]
          /\ files' = [files EXCEPT ![prune.victim][m] = "none"]
    /\ UNCHANGED <<table, directories, upload, loaded>>

\* rmdir() refuses a directory that is not empty, which ends the command.
RemoveDirectory ==
    LET v == prune.victim IN
    /\ prune.pc = "unlink" /\ prune.unlink = {}
    /\ \/ /\ Present(v) = {}
          /\ directories' = directories \ {v}
          /\ prune' = [prune EXCEPT !.pc = "delete", !.plan = @ \ {v}, !.victim = None]
       \/ /\ Present(v) # {}
          /\ prune' = NoPrune
          /\ UNCHANGED directories
    /\ UNCHANGED <<table, files, upload, loaded>>

PruneEnds == prune.pc = "delete" /\ prune.plan = {} /\ prune' = NoPrune
             /\ UNCHANGED <<table, disk, upload, loaded>>

\* The command is interrupted, or the database fails it.
PruneStops == prune.pc # "idle" /\ prune' = NoPrune
              /\ UNCHANGED <<table, disk, upload, loaded>>

-----------------------------------------------------------------------------
Pruning ==
    \/ ReadActive \/ MakePlan
    \/ BeginDelete \/ Unlink \/ RemoveDirectory \/ PruneEnds

Next ==
    \/ \E v \in Versions :
          Train(v) \/ Promote(v) \/ ReadPackage(v) \/ Activate(v) \/ MakeDirectory(v)
    \/ \E m \in Members : OpenMember(m)
    \/ WriteMember \/ RegisterPackage \/ Restart
    \/ ListVersions \/ Pruning \/ PruneStops

Spec == Init /\ [][Next]_vars

-----------------------------------------------------------------------------
(* Properties.                                                             *)

\* Every variable has its type, and files are in directories.
TypeOK ==
    /\ lifecycle \in [Versions -> Statuses]
    /\ number \in [Versions -> Nat]
    /\ directories \subseteq Versions
    /\ files \in [Versions -> [Members -> {"none", "partial", "whole"}]]
    /\ upload \in Uploads
    /\ upload.pc # "idle" => upload.version \in Versions
    /\ loaded \subseteq Versions
    /\ prune \in Prunes
    /\ undisturbed \in BOOLEAN

AtMostOneActive == \A v, w \in Active : v = w

Served(status) == status \in {"active", "retired"}

\* What the command has listed as having served has served ever since.
ListingStaysServed ==
    prune.pc # "idle" => \A v \in Versions : Served(prune.listed[v]) => Served(lifecycle[v])

\* The plan holds versions that were listed as having served.
PlanIsListed == \A v \in prune.plan : Served(prune.listed[v])

\* What was the active version when the command asked is not in its plan, and
\* is still the active one if nothing has changed since.
PlanSparesActive ==
    /\ prune.pc \in {"delete", "unlink"} => prune.active \notin prune.plan
    /\ undisturbed /\ prune.pc \in {"plan", "delete", "unlink"} => Active \subseteq {prune.active}

\* What every step keeps: the plan and the table it was made from stay related.
PruneInv ==
    /\ TypeOK
    /\ AtMostOneActive
    /\ ListingStaysServed
    /\ PlanIsListed
    /\ prune.pc \in {"idle", "active", "plan"} => prune.plan = {}
    /\ PlanSparesActive

\* Only versions that have served are ever deleted: neither a candidate
\* awaiting review nor a package whose row is still to be created.
OnlyServedVersionsArePruned ==
    \A v \in prune.plan : Served(lifecycle[v])

\* As long as no version is activated or promoted while the command runs, the
\* active version is not deleted: its listing and its later question agree.
UndisturbedActiveIsKept ==
    undisturbed /\ prune.pc \in {"delete", "unlink"} => Active \cap prune.plan = {}

\* Nor is a retired version, unless enough newer ones, by default three, are retired
\* as well and spared: the rollback targets are the newest.  A version is newer by the
\* number it was registered under, whenever it was retired.
UndisturbedRetiredAreKept ==
    undisturbed /\ prune.pc \in {"delete", "unlink"} =>
        LET retired == {v \in Versions : lifecycle[v] = "retired"}
        IN  \A v \in retired \cap prune.plan :
                Cardinality({w \in retired \ prune.plan : number[w] > number[v]}) >= KeepRetired

\* A candidate's row and its package do not drift apart: as long as it awaits its
\* decision every one of its files is there, though a re-upload may be rewriting it.
CandidatesKeepTheirBytes ==
    \A v \in Packages : lifecycle[v] = "candidate" => v \in directories /\ Present(v) = Members

\* What has been stored of a version that has not served is still there.
UploadIsThere ==
    upload.pc # "idle" =>
        /\ upload.version \in Packages
        /\ upload.pc = "register" => upload.left = {}
        /\ ~Served(lifecycle[upload.version]) =>
              /\ upload.version \in directories
              /\ Members \ upload.left \subseteq Present(upload.version)
              /\ upload.open # None => upload.open \in Present(upload.version)

\* What every step keeps of the directory.
BytesInv ==
    /\ CandidatesKeepTheirBytes
    /\ UploadIsThere
    /\ prune.pc = "unlink" => prune.victim \in prune.plan
=============================================================================
