----------------------- MODULE ModelVersionRepository -----------------------
(***************************************************************************)
(* infrastructure/sqlalchemy_predictions.py and the model_versions table   *)
(* of infrastructure/database.py: how a model version's lifecycle changes. *)
(*                                                                         *)
(* PostgreSQL at READ COMMITTED: a SELECT sees the rows committed when it  *)
(* runs, an UPDATE waits for the row locks of other open transactions and  *)
(* then re-evaluates its WHERE, and the partial unique index               *)
(* ux_model_versions_one_active makes a statement wait for an open         *)
(* transaction that has updated the active row, and fail if another row    *)
(* has the entry.  `rows` is the committed table; what an open transaction *)
(* has written and not yet committed is in its own record of `tx`.  The    *)
(* flush of the target row takes two steps, because the UPDATE first locks *)
(* the row and only then waits for the index entry; the insertion of the   *)
(* entry and the COMMIT after it are one, as every other transaction that  *)
(* could tell them apart waits in between.  PostgreSQL breaks a cycle of   *)
(* waits by aborting one of its transactions.                              *)
(***************************************************************************)
CONSTANTS
    Versions,   \* identifiers of model versions (model_version_id)
    Callers,    \* each runs at most one promote() or activate()
    None        \* no model version

ASSUME NoneIsNoVersion == None \notin Versions

VARIABLES
    rows,       \* the committed row of each version
    tx          \* the transaction of each caller

repoVars == <<rows, tx>>

VersionOrNone == Versions \cup {None}

-----------------------------------------------------------------------------
(* Rows.  Timestamps are abstracted to "is not NULL".                      *)

Rows == [status : {"absent", "candidate", "active", "retired"},
         promotedAt : BOOLEAN, retiredAt : BOOLEAN]

NoRow == [status |-> "absent", promotedAt |-> FALSE, retiredAt |-> FALSE]

ActiveRows == {v \in Versions : rows[v].status = "active"}

\* get_active(): at most one row qualifies, because of the unique index.
ActiveVersion == IF ActiveRows = {} THEN None ELSE CHOOSE v \in ActiveRows : TRUE

-----------------------------------------------------------------------------
(* Transactions.                                                           *)

Outcomes == {"none", "activated", "promoted", "already_active", "not_found",
             "not_allowed", "conflict", "integrity_error", "aborted"}

Transactions ==
    [op : {"none", "promote", "activate"},
     pc : {"idle", "scan", "check", "update", "flush", "index", "done"},
     target : VersionOrNone,
     expected : VersionOrNone,    \* activate(): the argument; promote(): the row its UPDATE found
     sawRetiredAt : BOOLEAN,      \* retired_at of the target was not NULL when it was loaded
     retiring : VersionOrNone,    \* row locked and retired, not yet committed
     outcome : Outcomes]

NoTransaction ==
    [op |-> "none", pc |-> "idle", target |-> None, expected |-> None,
     sawRetiredAt |-> FALSE, retiring |-> None, outcome |-> "none"]

InFlight == {c \in Callers : tx[c].pc \notin {"idle", "done"}}

RepoInit ==
    /\ rows = [v \in Versions |-> NoRow]
    /\ tx = [c \in Callers |-> NoTransaction]

\* The first statement: SELECT the target row, which decides what comes next.
Select(c, op, v, e, pc, outcome) ==
    /\ tx[c].pc = "idle"
    /\ tx' = [tx EXCEPT ![c] =
                [op |-> op, pc |-> pc, target |-> v, expected |-> e,
                 sawRetiredAt |-> rows[v].retiredAt, retiring |-> None, outcome |-> outcome]]
    /\ UNCHANGED rows

Goto(c, pc) ==
    /\ tx' = [tx EXCEPT ![c].pc = pc]
    /\ UNCHANGED rows

Finish(c, outcome) ==
    tx' = [tx EXCEPT ![c].pc = "done", ![c].retiring = None, ![c].outcome = outcome]

\* Mutant of LockedByOther: row locks are not waited for.
NoRowLocks(c, v) == FALSE

\* The rows a transaction has updated and not committed.
Locks(d) ==
    {v \in Versions : v = tx[d].retiring \/ (tx[d].pc = "index" /\ v = tx[d].target)}

LockedByOther(c, v) == \E d \in Callers \ {c} : v \in Locks(d)

\* Mutant of IndexHeldByOther: the target is written from a second connection,
\* which waits for the first.
IndexHeldByAnyone(c) == \E d \in Callers : Locks(d) \cap ActiveRows # {}

\* Some other open transaction has updated the row that has the index entry.
IndexHeldByOther(c) == \E d \in Callers \ {c} : Locks(d) \cap ActiveRows # {}

\* The row whose lock the next statement of c needs.
Wanted(c) == IF tx[c].pc = "flush" THEN tx[c].target ELSE tx[c].expected

\* c is blocked, on a row lock or on the index entry, until d ends.
WaitsFor(c, d) ==
    \/ tx[c].pc = "flush" /\ Wanted(c) \in Locks(d)
    \/ tx[c].pc = "update" /\ Wanted(c) \in Locks(d) \cap ActiveRows
    \/ tx[c].pc = "index" /\ Locks(d) \cap ActiveRows # {}

\* Cycles of waits have length two: whoever waits with a lock of its own waits
\* for, or is, the one transaction that has updated the active row.
Deadlocked(c) == \E d \in Callers \ {c} : WaitsFor(c, d) /\ WaitsFor(d, c)

-----------------------------------------------------------------------------
(* create(): a new version is always a candidate.                          *)

Create(v) ==
    /\ rows[v].status = "absent"
    /\ rows' = [rows EXCEPT ![v].status = "candidate"]
    /\ UNCHANGED tx

-----------------------------------------------------------------------------
(* promote(model_version_id, promoted_at).                                 *)

BeginPromote(c, v) ==
    \/ rows[v].status = "absent"    /\ Select(c, "promote", v, None, "done", "not_found")
    \/ rows[v].status = "active"    /\ Select(c, "promote", v, None, "done", "already_active")
    \/ rows[v].status = "retired"   /\ Select(c, "promote", v, None, "done", "not_allowed")
    \/ rows[v].status = "candidate" /\ Select(c, "promote", v, None, "scan", "none")

\* UPDATE ... WHERE lifecycle_status = 'active': the rows of its snapshot ...
PromoteScan(c) ==
    /\ tx[c].op = "promote" /\ tx[c].pc = "scan"
    /\ tx' = [tx EXCEPT ![c].pc = "update", ![c].expected = ActiveVersion]
    /\ UNCHANGED rows

\* ... each locked, and retired if it still qualifies once it is locked.
PromoteRetire(c) ==
    LET found == tx[c].expected IN
    /\ tx[c].op = "promote" /\ tx[c].pc = "update"
    /\ IF found \in ActiveRows
          THEN /\ ~LockedByOther(c, found)
               /\ tx' = [tx EXCEPT ![c].pc = "flush", ![c].retiring = found]
               /\ UNCHANGED rows
          ELSE Goto(c, "flush")

-----------------------------------------------------------------------------
(* activate(model_version_id, expected_active_version_id, activated_at).   *)

BeginActivate(c, v, e) ==
    \/ rows[v].status = "absent" /\ Select(c, "activate", v, e, "done", "not_found")
    \/ /\ rows[v].status = "active"
       /\ Select(c, "activate", v, e, "done", IF e = v THEN "already_active" ELSE "conflict")
    \/ /\ rows[v].status \in {"candidate", "retired"}
       /\ Select(c, "activate", v, e, IF e = None THEN "check" ELSE "update", "none")

\* expected is None: nothing may be active.
ActivateCheckNone(c) ==
    /\ tx[c].op = "activate" /\ tx[c].pc = "check"
    /\ IF ActiveRows = {} THEN Goto(c, "flush") ELSE Finish(c, "conflict") /\ UNCHANGED rows

\* Mutant of ActivateRetire: the UPDATE does not ask which row is active.
ActivateRetireUnconditionally(c) ==
    /\ tx[c].op = "activate" /\ tx[c].pc = "update"
    /\ ~LockedByOther(c, ActiveVersion)
    /\ tx' = [tx EXCEPT ![c].pc = "flush", ![c].retiring = ActiveVersion]
    /\ UNCHANGED rows

\* Mutant of ActivateRetire: the retirement is committed on its own.
ActivateRetireCommitted(c) ==
    LET expected == tx[c].expected IN
    /\ tx[c].op = "activate" /\ tx[c].pc = "update"
    /\ expected \in ActiveRows
    /\ rows' = [rows EXCEPT ![expected].status = "retired", ![expected].retiredAt = TRUE]
    /\ tx' = [tx EXCEPT ![c].pc = "flush"]

\* The conditional UPDATE, which waits if its row is locked: zero rows means
\* this caller lost.
ActivateRetire(c) ==
    LET expected == tx[c].expected IN
    /\ tx[c].op = "activate" /\ tx[c].pc = "update"
    /\ IF expected \in ActiveRows
          THEN /\ ~LockedByOther(c, expected)
               /\ tx' = [tx EXCEPT ![c].pc = "flush", ![c].retiring = expected]
          ELSE Finish(c, "conflict")
    /\ UNCHANGED rows

-----------------------------------------------------------------------------
(* The flush of the target row, and COMMIT.                                *)

\* UPDATE ... WHERE model_version_id = target: the row first ...
LockTarget(c) ==
    /\ tx[c].pc = "flush"
    /\ ~LockedByOther(c, tx[c].target)
    /\ Goto(c, "index")

\* ... and then its entry in the index, with that lock in hand.

\* retired_at: the bulk UPDATE stamps the retired row; activate() clears the
\* target's, but only if it was not NULL when the target was loaded (an
\* assignment of the loaded value is not a change); promote() never clears it.
RetiredAtOf(c, v) ==
    IF v = tx[c].target /\ tx[c].op = "activate" /\ tx[c].sawRetiredAt
    THEN FALSE
    ELSE v = tx[c].retiring \/ rows[v].retiredAt

RowAfter(c, v) ==
    [status |-> CASE v = tx[c].target -> "active"
                  [] v # tx[c].target /\ v = tx[c].retiring -> "retired"
                  [] OTHER -> rows[v].status,
     promotedAt |-> v = tx[c].target \/ rows[v].promotedAt,
     retiredAt |-> RetiredAtOf(c, v)]

\* Mutant of IndexAccepts: the migration forgot the partial unique index.
NoUniqueIndex(c) == TRUE

\* The unique index refuses a second active row.
IndexAccepts(c) == ActiveRows \ {tx[c].retiring} \subseteq {tx[c].target}

Write(c) ==
    /\ tx[c].pc = "index"
    /\ ~IndexHeldByOther(c)
    /\ IndexAccepts(c)
    /\ rows' = [v \in Versions |-> RowAfter(c, v)]

FlushAndCommit(c) ==
    /\ Write(c)
    /\ Finish(c, IF tx[c].op = "promote" THEN "promoted" ELSE "activated")

\* The connection is lost after COMMIT was sent: the transaction is committed,
\* its caller gets an error.
CommitUnacknowledged(c) ==
    /\ Write(c)
    /\ Finish(c, "aborted")

\* activate() turns the IntegrityError into a conflict, promote() lets it out.
FlushRefused(c) ==
    /\ tx[c].pc = "index"
    /\ ~IndexHeldByOther(c)
    /\ ~IndexAccepts(c)
    /\ Finish(c, IF tx[c].op = "promote" THEN "integrity_error" ELSE "conflict")
    /\ UNCHANGED rows

\* PostgreSQL's deadlock detection: an OperationalError, which neither caller
\* catches.
DeadlockVictim(c) ==
    /\ Deadlocked(c)
    /\ Finish(c, "aborted")
    /\ UNCHANGED rows

\* Connections lost, the process killed: PostgreSQL rolls the open transactions
\* of S back.
Abort(S) ==
    /\ S # {} /\ S \subseteq InFlight
    /\ tx' = [c \in Callers |->
                IF c \in S THEN [tx[c] EXCEPT !.pc = "done", !.retiring = None, !.outcome = "aborted"]
                           ELSE tx[c]]
    /\ UNCHANGED rows

-----------------------------------------------------------------------------
Statement(c) ==
    \/ PromoteScan(c)
    \/ PromoteRetire(c)
    \/ ActivateCheckNone(c)
    \/ ActivateRetire(c)
    \/ LockTarget(c)
    \/ FlushAndCommit(c)
    \/ FlushRefused(c)
    \/ DeadlockVictim(c)

RepoNext ==
    \/ \E v \in Versions : Create(v)
    \/ \E c \in Callers, v \in Versions :
          \/ BeginPromote(c, v)
          \/ \E e \in VersionOrNone : BeginActivate(c, v, e)
    \/ \E c \in Callers : Statement(c) \/ CommitUnacknowledged(c)
    \/ \E S \in SUBSET Callers : Abort(S)

RepoSpec == RepoInit /\ [][RepoNext]_repoVars

\* A transaction that has started is driven on: its thread is scheduled, and
\* PostgreSQL grants a lock once it is free and aborts a deadlocked transaction
\* (after deadlock_timeout).
FairRepoSpec == RepoSpec /\ \A c \in Callers : WF_repoVars(Statement(c))

-----------------------------------------------------------------------------
(* Properties.                                                             *)

\* Every row, and every transaction record, has its type.
RepoTypeOK ==
    /\ rows \in [Versions -> Rows]
    /\ tx \in [Callers -> Transactions]

\* Whatever promotions and activations race, at most one version is active.
AtMostOneActive == \A v, w \in ActiveRows : v = w

\* A transaction that has retired a row holds the active row and goes on to
\* write its target: no transaction commits a retirement alone.
RetiringRowIsActive ==
    \A c \in Callers : tx[c].retiring # None =>
        tx[c].retiring \in ActiveRows /\ tx[c].pc \in {"flush", "index"}

\* Two transactions never both have the active row in hand.
RetiringIsExclusive ==
    \A c, d \in Callers : tx[c].retiring # None /\ tx[d].retiring # None => c = d

\* The audit columns tell the lifecycle: a version that is or was active has
\* promoted_at, and one that is retired has retired_at.
StampsMatchStatus ==
    \A v \in Versions :
        /\ rows[v].status \in {"active", "retired"} <=> rows[v].promotedAt
        /\ rows[v].status = "retired" => rows[v].retiredAt

\* What the record of a transaction says at each point of its program.
TransactionsAgree ==
    \A c \in Callers :
        /\ tx[c].pc = "done" <=> tx[c].outcome # "none"
        /\ tx[c].pc = "idle" => tx[c] = NoTransaction
        /\ tx[c].pc # "idle" => tx[c].op # "none" /\ tx[c].target \in Versions
        /\ tx[c].op = "activate" /\ tx[c].pc = "check" => tx[c].expected = None
        /\ tx[c].op = "activate" /\ tx[c].pc = "update" => tx[c].expected # None
        /\ tx[c].op = "activate" /\ tx[c].pc \in {"flush", "index"} => tx[c].retiring = tx[c].expected

\* The strengthening that makes AtMostOneActive inductive.
RepoInv ==
    /\ RepoTypeOK
    /\ TransactionsAgree
    /\ AtMostOneActive
    /\ RetiringRowIsActive
    /\ RetiringIsExclusive
    /\ StampsMatchStatus

\* Once a version has been activated there is always an active version: no
\* interleaving, conflict or rollback commits a table without one.
ActiveNeverLost == [][ActiveRows # {} => ActiveRows' # {}]_repoVars

\* Every transaction that starts ends.  Waits on row locks and on the index
\* entry may form a cycle, when a promotion retires the active row while an
\* activation of the same target, which found no active version, has locked
\* it; PostgreSQL's deadlock detection then ends one of the two with an error.
EveryCallReturns == \A c \in Callers : (tx[c].pc # "idle") ~> (tx[c].pc = "done")

-----------------------------------------------------------------------------
(* The repository implements the register of ActiveVersionRegister.        *)

AnswerOf(c) ==
    [op |-> IF tx[c].outcome = "none" THEN "none" ELSE tx[c].op,
     target |-> IF tx[c].outcome = "none" THEN None ELSE tx[c].target,
     expected |-> IF tx[c].outcome = "none" \/ tx[c].op = "promote" THEN None ELSE tx[c].expected,
     outcome |-> tx[c].outcome]

Replies == [c \in Callers |-> AnswerOf(c)]

Register == INSTANCE ActiveVersionRegister WITH active <- ActiveVersion, call <- Replies

\* Every call is atomic, and activate() is a compare-and-set of the active
\* version, except that two callers that expect no active version and bring the
\* same one may both succeed.
ImplementsRegister == Register!RegisterSpec
=============================================================================
