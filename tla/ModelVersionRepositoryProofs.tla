-------------------- MODULE ModelVersionRepositoryProofs --------------------
(* Proofs about ModelVersionRepository, for every set of versions and      *)
(* callers.                                                                *)
EXTENDS ModelVersionRepository, TLAPS

-----------------------------------------------------------------------------
(* The active version.                                                     *)

\* get_active() returns a version or nothing.
LEMMA ActiveVersionType == ActiveVersion \in VersionOrNone
  BY DEF ActiveVersion, ActiveRows, VersionOrNone

\* With at most one active row, get_active() returns that row.
LEMMA ActiveVersionUnique ==
    ASSUME AtMostOneActive, NEW v \in ActiveRows
    PROVE  ActiveVersion = v
<1>1. ActiveVersion \in ActiveRows
  BY DEF ActiveVersion
<1> QED
  BY <1>1 DEF AtMostOneActive

\* get_active() returns nothing exactly when no row is active.
LEMMA NoActiveVersion == ActiveVersion = None <=> ActiveRows = {}
  BY NoneIsNoVersion DEF ActiveVersion, ActiveRows

-----------------------------------------------------------------------------
(* What a step does to the transactions.                                   *)

\* Opening a transaction touches only the caller's own record.
LEMMA SelectPreserves ==
    ASSUME RepoInv, NEW c \in Callers, NEW op \in {"promote", "activate"}, NEW v \in Versions,
           NEW e \in VersionOrNone, NEW pc \in {"scan", "check", "update", "done"},
           NEW o \in Outcomes,
           Select(c, op, v, e, pc, o),
           pc = "done" <=> o # "none",
           op = "activate" /\ pc = "check" => e = None,
           op = "activate" /\ pc = "update" => e # None
    PROVE  RepoInv'
<1> USE DEF RepoInv, Select
<1>1. RepoTypeOK'
  BY DEF RepoTypeOK, Rows, Transactions, VersionOrNone
<1>2. TransactionsAgree'
  BY DEF RepoTypeOK, TransactionsAgree, NoTransaction
<1>3. AtMostOneActive' /\ StampsMatchStatus'
  BY DEF AtMostOneActive, StampsMatchStatus, ActiveRows
<1>4. RetiringRowIsActive'
  BY DEF RepoTypeOK, RetiringRowIsActive, ActiveRows
<1>5. RetiringIsExclusive'
  BY DEF RepoTypeOK, RetiringIsExclusive
<1> QED
  BY <1>1, <1>2, <1>3, <1>4, <1>5

\* The record of a caller whose transaction ends.
LEMMA FinishedRecord ==
    ASSUME RepoTypeOK, NEW c \in Callers, NEW o \in Outcomes, Finish(c, o)
    PROVE  /\ tx' \in [Callers -> Transactions]
           /\ tx'[c].op = tx[c].op /\ tx'[c].target = tx[c].target
           /\ tx'[c].expected = tx[c].expected
           /\ tx'[c].pc = "done" /\ tx'[c].retiring = None /\ tx'[c].outcome = o
           /\ \A d \in Callers \ {c} : tx'[d] = tx[d]
<1> DEFINE t == [tx[c] EXCEPT !.pc = "done", !.retiring = None, !.outcome = o]
<1>1. tx[c] \in Transactions /\ tx \in [Callers -> Transactions]
  BY DEF RepoTypeOK
<1>2. t \in Transactions
  BY <1>1 DEF Transactions, VersionOrNone
<1>3. tx' = [tx EXCEPT ![c] = t]
  BY <1>1 DEF Finish, Transactions
<1>4. /\ t.op = tx[c].op /\ t.target = tx[c].target /\ t.expected = tx[c].expected
      /\ t.pc = "done" /\ t.retiring = None /\ t.outcome = o
  BY <1>1 DEF Transactions
<1> HIDE DEF t
<1> QED
  BY <1>1, <1>2, <1>3, <1>4

\* Ending a transaction without writing releases what it held.
LEMMA RefusalPreserves ==
    ASSUME RepoInv, NEW c \in Callers, NEW o \in Outcomes \ {"none"},
           tx[c].pc # "idle", Finish(c, o), UNCHANGED rows
    PROVE  RepoInv'
<1> USE DEF RepoInv
<1>0. /\ tx' \in [Callers -> Transactions]
      /\ tx'[c].op = tx[c].op /\ tx'[c].target = tx[c].target
      /\ tx'[c].expected = tx[c].expected
      /\ tx'[c].pc = "done" /\ tx'[c].retiring = None /\ tx'[c].outcome = o
      /\ \A d \in Callers \ {c} : tx'[d] = tx[d]
  BY FinishedRecord
<1>1. RepoTypeOK'
  BY <1>0 DEF RepoTypeOK
<1>2. TransactionsAgree'
  BY <1>0 DEF TransactionsAgree, NoTransaction
<1>3. AtMostOneActive' /\ StampsMatchStatus'
  BY DEF AtMostOneActive, StampsMatchStatus, ActiveRows
<1>4. RetiringRowIsActive'
  BY <1>0 DEF RetiringRowIsActive, ActiveRows
<1>5. RetiringIsExclusive'
  BY <1>0 DEF RetiringIsExclusive
<1> QED
  BY <1>1, <1>2, <1>3, <1>4, <1>5

\* Moving on to the next statement, with nothing written.
LEMMA GotoPreserves ==
    ASSUME RepoInv, NEW c \in Callers,
           NEW pc \in {"update", "flush"}, NEW e \in VersionOrNone, NEW r \in VersionOrNone,
           tx[c].pc \in {"scan", "check", "update"},
           tx' = [tx EXCEPT ![c] = [@ EXCEPT !.pc = pc, !.expected = e, !.retiring = r]],
           UNCHANGED rows,
           r # None => r \in ActiveRows /\ pc = "flush" /\ ~LockedByOther(c, r),
           tx[c].op = "activate" => pc = "flush" /\ r = e
    PROVE  RepoInv'
<1> USE DEF RepoInv
<1> DEFINE t == [tx[c] EXCEPT !.pc = pc, !.expected = e, !.retiring = r]
<1>1. tx[c] \in Transactions /\ tx \in [Callers -> Transactions]
  BY DEF RepoTypeOK
<1>2. t \in Transactions
  BY <1>1 DEF Transactions
<1>3. tx' = [tx EXCEPT ![c] = t]
  BY <1>1 DEF Transactions
<1>4. /\ t.op = tx[c].op /\ t.target = tx[c].target /\ t.outcome = tx[c].outcome
      /\ t.pc = pc /\ t.expected = e /\ t.retiring = r
  BY <1>1 DEF Transactions
<1> HIDE DEF t
<1>5. tx'[c] = t /\ \A d \in Callers \ {c} : tx'[d] = tx[d]
  BY <1>1, <1>3
<1>6. RepoTypeOK'
  BY <1>1, <1>2, <1>3 DEF RepoTypeOK
<1>7. TransactionsAgree'
  BY <1>4, <1>5 DEF TransactionsAgree
<1>8. AtMostOneActive' /\ StampsMatchStatus'
  BY DEF AtMostOneActive, StampsMatchStatus, ActiveRows
<1>9. RetiringRowIsActive'
  BY <1>4, <1>5 DEF RetiringRowIsActive, ActiveRows
<1>10. RetiringIsExclusive'
  <2>1. ASSUME NEW d \in Callers \ {c}, r # None, tx[d].retiring # None
        PROVE  FALSE
    BY <2>1 DEF RetiringRowIsActive, AtMostOneActive, LockedByOther, Locks, ActiveRows
  <2> QED
    BY <1>4, <1>5, <2>1 DEF RetiringIsExclusive
<1> QED
  BY <1>6, <1>7, <1>8, <1>9, <1>10

\* What a commit leaves in the table: the target is the one active row, and a
\* row that it retired is stamped.
LEMMA WrittenRows ==
    ASSUME RepoInv, NEW c \in Callers, Write(c)
    PROVE  /\ rows' \in [Versions -> Rows]
           /\ ActiveRows' = {tx[c].target}
           /\ StampsMatchStatus'
           /\ tx[c].target \in Versions
<1> USE DEF RepoInv
<1>1. tx[c] \in Transactions /\ tx[c].target \in Versions /\ rows \in [Versions -> Rows]
  BY DEF RepoTypeOK, TransactionsAgree, Write
<1>2. rows' = [v \in Versions |-> RowAfter(c, v)]
  BY DEF Write
<1>3. ASSUME NEW v \in Versions PROVE RowAfter(c, v) \in Rows
  BY <1>1 DEF RowAfter, RetiredAtOf, Rows
<1>4. ASSUME NEW v \in Versions
      PROVE  rows'[v].status = "active" <=> v = tx[c].target
  BY <1>1, <1>2 DEF RowAfter, Write, IndexAccepts, ActiveRows
<1>5. StampsMatchStatus'
  <2>1. SUFFICES ASSUME NEW v \in Versions
                 PROVE  /\ RowAfter(c, v).status \in {"active", "retired"} <=> RowAfter(c, v).promotedAt
                        /\ RowAfter(c, v).status = "retired" => RowAfter(c, v).retiredAt
    BY <1>2 DEF StampsMatchStatus
  <2>2. CASE v = tx[c].target
    BY <2>2 DEF RowAfter
  <2>3. CASE v # tx[c].target /\ v = tx[c].retiring
    <3>1. rows[v].status = "active" /\ rows[v].promotedAt
      BY NoneIsNoVersion, <2>3 DEF RetiringRowIsActive, ActiveRows, StampsMatchStatus
    <3> QED
      BY <2>3, <3>1 DEF RowAfter, RetiredAtOf
  <2>4. CASE v # tx[c].target /\ v # tx[c].retiring
    <3>1. RowAfter(c, v).status = rows[v].status
      BY <2>4 DEF RowAfter
    <3>2. RowAfter(c, v).promotedAt = rows[v].promotedAt
          /\ RowAfter(c, v).retiredAt = rows[v].retiredAt
      BY <1>1, <2>4 DEF RowAfter, RetiredAtOf, Rows
    <3> QED
      BY <3>1, <3>2 DEF StampsMatchStatus
  <2> QED
    BY <2>2, <2>3, <2>4
<1>6. ActiveRows' = {tx[c].target}
  BY <1>1, <1>4 DEF ActiveRows
<1>7. rows' \in [Versions -> Rows]
  BY <1>2, <1>3
<1> QED
  BY <1>1, <1>5, <1>6, <1>7

\* A commit, acknowledged or not, preserves the invariant.
LEMMA WritePreserves ==
    ASSUME RepoInv, NEW c \in Callers, NEW o \in Outcomes \ {"none"}, Write(c), Finish(c, o)
    PROVE  RepoInv'
<1> USE DEF RepoInv
<1>0. /\ tx' \in [Callers -> Transactions]
      /\ tx'[c].op = tx[c].op /\ tx'[c].target = tx[c].target
      /\ tx'[c].pc = "done" /\ tx'[c].retiring = None /\ tx'[c].outcome = o
      /\ \A d \in Callers \ {c} : tx'[d] = tx[d]
  BY FinishedRecord
<1>1. RepoTypeOK'
  BY <1>0, WrittenRows DEF RepoTypeOK
<1>2. TransactionsAgree'
  BY <1>0 DEF TransactionsAgree, NoTransaction, Write
<1>3. AtMostOneActive' /\ StampsMatchStatus'
  BY WrittenRows DEF AtMostOneActive
<1>4. RetiringRowIsActive' /\ RetiringIsExclusive'
  <2>1. ASSUME NEW d \in Callers \ {c}
        PROVE  tx[d].retiring = None
    BY <2>1 DEF Write, IndexHeldByOther, Locks, RetiringRowIsActive, ActiveRows
  <2> QED
    BY <1>0, <2>1 DEF RetiringRowIsActive, RetiringIsExclusive
<1> QED
  BY <1>1, <1>2, <1>3, <1>4

\* A rollback of any set of open transactions preserves the invariant.
LEMMA AbortPreserves ==
    ASSUME RepoInv, NEW S \in SUBSET Callers, Abort(S)
    PROVE  RepoInv'
<1> USE DEF RepoInv
<1> DEFINE t(c) == [tx[c] EXCEPT !.pc = "done", !.retiring = None, !.outcome = "aborted"]
<1>1. tx \in [Callers -> Transactions] /\ \A c \in S : tx[c].pc # "idle"
  BY DEF RepoTypeOK, Abort, InFlight
<1>2. \A c \in Callers : tx'[c] = IF c \in S THEN t(c) ELSE tx[c]
  BY DEF Abort
<1>3. ASSUME NEW c \in Callers
      PROVE  /\ t(c) \in Transactions
             /\ t(c).op = tx[c].op /\ t(c).target = tx[c].target
             /\ t(c).pc = "done" /\ t(c).retiring = None /\ t(c).outcome = "aborted"
  BY <1>1 DEF Transactions, VersionOrNone, Outcomes
<1>4. tx' = [c \in Callers |-> IF c \in S THEN t(c) ELSE tx[c]] /\ UNCHANGED rows
  BY DEF Abort
<1> HIDE DEF t
<1>5. RepoTypeOK'
  BY <1>1, <1>3, <1>4 DEF RepoTypeOK
<1>6. TransactionsAgree'
  <2>1. ASSUME NEW c \in S
        PROVE  /\ tx'[c].op = tx[c].op /\ tx'[c].target = tx[c].target
               /\ tx'[c].pc = "done" /\ tx'[c].outcome = "aborted" /\ tx[c].pc # "idle"
    BY <1>1, <1>2, <1>3
  <2>2. \A c \in Callers \ S : tx'[c] = tx[c]
    BY <1>2
  <2> QED
    BY <2>1, <2>2 DEF TransactionsAgree, NoTransaction
<1>7. AtMostOneActive' /\ StampsMatchStatus'
  BY <1>4 DEF AtMostOneActive, StampsMatchStatus, ActiveRows
<1>8. RetiringRowIsActive' /\ RetiringIsExclusive'
  BY <1>2, <1>3, <1>4 DEF RetiringRowIsActive, RetiringIsExclusive, ActiveRows
<1> QED
  BY <1>5, <1>6, <1>7, <1>8

\* A new candidate row preserves the invariant.
LEMMA CreatePreserves ==
    ASSUME RepoInv, NEW v \in Versions, Create(v)
    PROVE  RepoInv'
<1> USE DEF RepoInv, Create
<1>1. rows' \in [Versions -> Rows] /\ RepoTypeOK'
  BY DEF RepoTypeOK, Rows
<1>2. ActiveRows' = ActiveRows
  BY DEF RepoTypeOK, ActiveRows, Rows
<1>3. AtMostOneActive' /\ RetiringRowIsActive' /\ RetiringIsExclusive' /\ TransactionsAgree'
  BY <1>2 DEF AtMostOneActive, RetiringRowIsActive, RetiringIsExclusive, TransactionsAgree
<1>4. StampsMatchStatus'
  BY DEF RepoTypeOK, StampsMatchStatus, Rows
<1> QED
  BY <1>1, <1>3, <1>4

\* Locking the target keeps what the transaction has retired.
LEMMA LockTargetPreserves ==
    ASSUME RepoInv, NEW c \in Callers, LockTarget(c)
    PROVE  RepoInv'
<1> USE DEF RepoInv
<1> DEFINE t == [tx[c] EXCEPT !.pc = "index"]
<1>1. /\ tx[c] \in Transactions /\ tx \in [Callers -> Transactions] /\ tx[c].pc = "flush"
      /\ UNCHANGED rows
  BY DEF RepoTypeOK, LockTarget, Goto
<1>2. t \in Transactions
  BY <1>1 DEF Transactions
<1>3. tx' = [tx EXCEPT ![c] = t]
  BY <1>1 DEF LockTarget, Goto
<1>4. /\ t.op = tx[c].op /\ t.target = tx[c].target /\ t.outcome = tx[c].outcome
      /\ t.pc = "index" /\ t.expected = tx[c].expected /\ t.retiring = tx[c].retiring
  BY <1>1 DEF Transactions
<1> HIDE DEF t
<1>5. tx'[c] = t /\ \A d \in Callers \ {c} : tx'[d] = tx[d]
  BY <1>1, <1>3
<1>6. RepoTypeOK'
  BY <1>1, <1>2, <1>3 DEF RepoTypeOK
<1>7. TransactionsAgree'
  BY <1>1, <1>4, <1>5 DEF TransactionsAgree
<1>8. AtMostOneActive' /\ StampsMatchStatus'
  BY <1>1 DEF AtMostOneActive, StampsMatchStatus, ActiveRows
<1>9. RetiringRowIsActive'
  BY <1>1, <1>4, <1>5 DEF RetiringRowIsActive, ActiveRows
<1>10. RetiringIsExclusive'
  BY <1>4, <1>5 DEF RetiringIsExclusive
<1> QED
  BY <1>6, <1>7, <1>8, <1>9, <1>10

\* To its caller a deadlock is one more way to be rolled back.
LEMMA VictimIsAborted ==
    ASSUME RepoTypeOK, NEW c \in Callers, DeadlockVictim(c)
    PROVE  Abort({c})
<1> DEFINE t(d) == [tx[d] EXCEPT !.pc = "done", !.retiring = None, !.outcome = "aborted"]
<1>1. c \in InFlight
  BY DEF DeadlockVictim, Deadlocked, WaitsFor, InFlight
<1>2. tx' = [tx EXCEPT ![c] = t(c)] /\ tx \in [Callers -> Transactions]
  BY DEF DeadlockVictim, Finish, RepoTypeOK, Transactions
<1>3. tx' = [d \in Callers |-> IF d \in {c} THEN t(d) ELSE tx[d]]
  <2> HIDE DEF t
  <2> QED
    BY <1>2
<1> QED
  BY <1>1, <1>3 DEF DeadlockVictim, Abort

\* Every statement but the flush moves to the next one or refuses.
LEMMA StatementPreserves ==
    ASSUME RepoInv, NEW c \in Callers, Statement(c)
    PROVE  RepoInv'
<1>0. tx \in [Callers -> Transactions] /\ tx[c] \in Transactions
  BY DEF RepoInv, RepoTypeOK
<1>1. CASE PromoteScan(c)
  <2>1. tx' = [tx EXCEPT ![c] = [@ EXCEPT !.pc = "update", !.expected = ActiveVersion,
                                          !.retiring = tx[c].retiring]]
    BY <1>0, <1>1 DEF PromoteScan, Transactions
  <2>2. tx[c].retiring = None /\ tx[c].retiring \in VersionOrNone
    BY <1>0, <1>1 DEF RepoInv, RetiringRowIsActive, PromoteScan, VersionOrNone
  <2> QED
    BY <1>1, <2>1, <2>2, ActiveVersionType, GotoPreserves DEF PromoteScan
<1>2. CASE PromoteRetire(c)
  <2>0. tx[c].retiring = None /\ tx[c].expected \in VersionOrNone /\ tx[c].op = "promote"
        /\ tx[c].pc = "update"
    BY <1>0, <1>2 DEF RepoInv, RetiringRowIsActive, PromoteRetire, Transactions
  <2>1. CASE tx[c].expected \in ActiveRows
    <3>1. tx' = [tx EXCEPT ![c] = [@ EXCEPT !.pc = "flush", !.expected = tx[c].expected,
                                            !.retiring = tx[c].expected]]
      BY <1>0, <1>2, <2>1 DEF PromoteRetire, Transactions
    <3> QED
      BY <1>2, <2>0, <2>1, <3>1, GotoPreserves DEF PromoteRetire
  <2>2. CASE tx[c].expected \notin ActiveRows
    <3>1. tx' = [tx EXCEPT ![c] = [@ EXCEPT !.pc = "flush", !.expected = tx[c].expected,
                                            !.retiring = None]]
      BY <1>0, <1>2, <2>0, <2>2 DEF PromoteRetire, Goto, Transactions
    <3> QED
      BY <1>2, <2>0, <2>2, <3>1, GotoPreserves DEF PromoteRetire, Goto, VersionOrNone
  <2> QED
    BY <2>1, <2>2
<1>3. CASE ActivateCheckNone(c)
  <2>0. tx[c].retiring = None /\ tx[c].expected = None /\ tx[c].op = "activate"
        /\ tx[c].pc = "check"
    BY <1>0, <1>3 DEF RepoInv, RetiringRowIsActive, TransactionsAgree, ActivateCheckNone
  <2>1. CASE ActiveRows = {}
    <3>1. tx' = [tx EXCEPT ![c] = [@ EXCEPT !.pc = "flush", !.expected = tx[c].expected,
                                            !.retiring = tx[c].retiring]]
      BY <1>0, <1>3, <2>1 DEF ActivateCheckNone, Goto, Transactions
    <3> QED
      BY <1>3, <2>0, <2>1, <3>1, GotoPreserves DEF ActivateCheckNone, Goto, VersionOrNone
  <2>2. CASE ActiveRows # {}
    BY <1>3, <2>0, <2>2, RefusalPreserves DEF ActivateCheckNone, Outcomes
  <2> QED
    BY <2>1, <2>2
<1>4. CASE ActivateRetire(c)
  <2>0. tx[c].retiring = None /\ tx[c].expected \in VersionOrNone /\ tx[c].op = "activate"
        /\ tx[c].pc = "update"
    BY <1>0, <1>4 DEF RepoInv, RetiringRowIsActive, ActivateRetire, Transactions
  <2>1. CASE tx[c].expected \in ActiveRows
    <3>1. tx' = [tx EXCEPT ![c] = [@ EXCEPT !.pc = "flush", !.expected = tx[c].expected,
                                            !.retiring = tx[c].expected]]
      BY <1>0, <1>4, <2>1 DEF ActivateRetire, Transactions
    <3> QED
      BY <1>4, <2>0, <2>1, <3>1, GotoPreserves DEF ActivateRetire
  <2>2. CASE tx[c].expected \notin ActiveRows
    BY <1>4, <2>0, <2>2, RefusalPreserves DEF ActivateRetire, Outcomes
  <2> QED
    BY <2>1, <2>2
<1>5. CASE FlushAndCommit(c)
  BY <1>5, WritePreserves DEF FlushAndCommit, Outcomes
<1>6. CASE FlushRefused(c)
  BY <1>6, RefusalPreserves DEF FlushRefused, Outcomes
<1>7. CASE DeadlockVictim(c)
  BY <1>7, VictimIsAborted, AbortPreserves DEF RepoInv
<1> QED
  BY <1>1, <1>2, <1>3, <1>4, <1>5, <1>6, <1>7, LockTargetPreserves DEF Statement

\* Opening a promotion or an activation preserves the invariant.
LEMMA BeginPreserves ==
    ASSUME RepoInv, NEW c \in Callers, NEW v \in Versions
    PROVE  /\ BeginPromote(c, v) => RepoInv'
           /\ \A e \in VersionOrNone : BeginActivate(c, v, e) => RepoInv'
<1>1. ASSUME BeginPromote(c, v) PROVE RepoInv'
  BY <1>1, SelectPreserves DEF BeginPromote, Outcomes, VersionOrNone
<1>2. ASSUME NEW e \in VersionOrNone, BeginActivate(c, v, e) PROVE RepoInv'
  <2>1. CASE Select(c, "activate", v, e, "done", "not_found")
    BY <2>1, SelectPreserves DEF Outcomes
  <2>2. CASE Select(c, "activate", v, e, "done", "already_active")
    BY <2>2, SelectPreserves DEF Outcomes
  <2>3. CASE Select(c, "activate", v, e, "done", "conflict")
    BY <2>3, SelectPreserves DEF Outcomes
  <2>4. CASE e = None /\ Select(c, "activate", v, e, "check", "none")
    BY <2>4, SelectPreserves DEF Outcomes
  <2>5. CASE e # None /\ Select(c, "activate", v, e, "update", "none")
    BY <2>5, SelectPreserves DEF Outcomes
  <2> QED
    BY <1>2, <2>1, <2>2, <2>3, <2>4, <2>5 DEF BeginActivate
<1> QED
  BY <1>1, <1>2

-----------------------------------------------------------------------------
(* The invariant.                                                          *)

\* An empty table, with no transaction open, satisfies the invariant.
LEMMA RepoInitInv == RepoInit => RepoInv
  BY NoneIsNoVersion DEF RepoInit, RepoInv, RepoTypeOK, Rows, NoRow, Transactions, NoTransaction,
     VersionOrNone, Outcomes, TransactionsAgree, AtMostOneActive, ActiveRows,
     RetiringRowIsActive, RetiringIsExclusive, StampsMatchStatus

\* Every step of the repository preserves the invariant.
LEMMA RepoNextInv == RepoInv /\ [RepoNext]_repoVars => RepoInv'
<1> SUFFICES ASSUME RepoInv, [RepoNext]_repoVars PROVE RepoInv'
  OBVIOUS
<1>1. CASE UNCHANGED repoVars
  BY <1>1 DEF repoVars, RepoInv, RepoTypeOK, TransactionsAgree, AtMostOneActive, ActiveRows,
     RetiringRowIsActive, RetiringIsExclusive, StampsMatchStatus
<1>2. ASSUME NEW v \in Versions, Create(v) PROVE RepoInv'
  BY <1>2, CreatePreserves
<1>3. ASSUME NEW c \in Callers, NEW v \in Versions, BeginPromote(c, v) PROVE RepoInv'
  BY <1>3, BeginPreserves
<1>4. ASSUME NEW c \in Callers, NEW v \in Versions, NEW e \in VersionOrNone, BeginActivate(c, v, e)
      PROVE  RepoInv'
  BY <1>4, BeginPreserves
<1>5. ASSUME NEW c \in Callers, Statement(c) PROVE RepoInv'
  BY <1>5, StatementPreserves
<1>6. ASSUME NEW c \in Callers, CommitUnacknowledged(c) PROVE RepoInv'
  BY <1>6, WritePreserves DEF CommitUnacknowledged, Outcomes
<1>7. ASSUME NEW S \in SUBSET Callers, Abort(S) PROVE RepoInv'
  BY <1>7, AbortPreserves
<1> QED
  BY <1>1, <1>2, <1>3, <1>4, <1>5, <1>6, <1>7 DEF RepoNext

\* The invariant of the repository: types, transaction records, one active
\* row, row locks and timestamps, under every interleaving, commit failure and
\* rollback.
THEOREM RepositoryInvariant == RepoSpec => []RepoInv
<1> QED
  BY RepoInitInv, RepoNextInv, PTL DEF RepoSpec

\* At most one version is active (ux_model_versions_one_active).
THEOREM OneActiveVersion == RepoSpec => []AtMostOneActive
<1>1. RepoInv => AtMostOneActive
  BY DEF RepoInv
<1> QED
  BY <1>1, RepositoryInvariant, PTL

\* The timestamps of a version tell its lifecycle.
THEOREM StampsTellTheLifecycle == RepoSpec => []StampsMatchStatus
<1>1. RepoInv => StampsMatchStatus
  BY DEF RepoInv
<1> QED
  BY <1>1, RepositoryInvariant, PTL

-----------------------------------------------------------------------------
(* What a step does to the active row.                                     *)

\* A step that does not write leaves the active row alone.
LEMMA NoWrite ==
    ASSUME UNCHANGED rows
    PROVE  ActiveRows' = ActiveRows /\ ActiveVersion' = ActiveVersion
<1>1. ActiveRows' = ActiveRows
  BY DEF ActiveRows
<1> QED
  BY <1>1 DEF ActiveVersion

\* A new candidate leaves the active row alone.
LEMMA CreateKeepsActive ==
    ASSUME RepoInv, NEW v \in Versions, Create(v)
    PROVE  ActiveRows' = ActiveRows /\ ActiveVersion' = ActiveVersion
<1>1. ActiveRows' = ActiveRows
  BY DEF RepoInv, RepoTypeOK, Create, ActiveRows, Rows
<1> QED
  BY <1>1 DEF ActiveVersion

\* A commit makes its target the active version.
LEMMA WriteActivates ==
    ASSUME RepoInv, NEW c \in Callers, Write(c)
    PROVE  ActiveVersion' = tx[c].target
<1>1. ActiveRows' = {tx[c].target}
  BY WrittenRows
<1> QED
  BY <1>1 DEF ActiveVersion

\* The only steps that write are a new candidate and a commit.
LEMMA WhoWrites ==
    ASSUME RepoNext
    PROVE  \/ UNCHANGED rows
           \/ \E v \in Versions : Create(v)
           \/ \E c \in Callers : Write(c)
<1>1. ASSUME NEW c \in Callers, NEW v \in Versions,
             BeginPromote(c, v) \/ \E e \in VersionOrNone : BeginActivate(c, v, e)
      PROVE  UNCHANGED rows
  BY <1>1 DEF BeginPromote, BeginActivate, Select
<1>2. ASSUME NEW c \in Callers, Statement(c) \/ CommitUnacknowledged(c)
      PROVE  UNCHANGED rows \/ Write(c)
  BY <1>2 DEF Statement, CommitUnacknowledged, PromoteScan, PromoteRetire, ActivateCheckNone,
     ActivateRetire, LockTarget, FlushAndCommit, FlushRefused, DeadlockVictim, Goto
<1>3. ASSUME NEW S \in SUBSET Callers, Abort(S)
      PROVE  UNCHANGED rows
  BY <1>3 DEF Abort
<1> QED
  BY <1>1, <1>2, <1>3 DEF RepoNext

\* No step leaves the table without an active row once there is one: the
\* retirement and the activation of its successor are one commit.
THEOREM SomeVersionStaysActive == RepoSpec => ActiveNeverLost
<1>1. RepoInv /\ [RepoNext]_repoVars => [ActiveRows # {} => ActiveRows' # {}]_repoVars
  <2> SUFFICES ASSUME RepoInv, RepoNext PROVE ActiveRows # {} => ActiveRows' # {}
    OBVIOUS
  <2> QED
    BY WhoWrites, NoWrite, CreateKeepsActive, WrittenRows
<1> QED
  BY <1>1, RepositoryInvariant, PTL DEF RepoSpec, ActiveNeverLost

-----------------------------------------------------------------------------
(* The repository implements the register.                                 *)

\* A call that is answered had no answer before, and answers nobody else.
LEMMA Answered ==
    ASSUME NEW c \in Callers, tx[c].outcome = "none",
           \A d \in Callers \ {c} : tx'[d] = tx[d]
    PROVE  /\ Replies[c] = Register!NoCall
           /\ Replies' = [Replies EXCEPT ![c] = AnswerOf(c)']
  BY DEF Replies, AnswerOf, Register!NoCall

\* A step that answers nobody.
LEMMA Unanswered ==
    ASSUME \A d \in Callers : tx'[d] = tx[d] \/ (tx[d].outcome = "none" /\ tx'[d].outcome = "none")
    PROVE  Replies' = Replies
  BY DEF Replies, AnswerOf

\* An answer that a caller gets, in the register's terms.
LEMMA RegisterAnswer ==
    ASSUME NEW c \in Callers, NEW o \in Outcomes \ {"none"}, tx[c].outcome = "none",
           \A d \in Callers \ {c} : tx'[d] = tx[d], tx'[c].outcome = o
    PROVE  Register!Answer(c, tx'[c].op, tx'[c].target,
                           IF tx'[c].op = "promote" THEN None ELSE tx'[c].expected, o)
<1>1. AnswerOf(c)' = [op |-> tx'[c].op, target |-> tx'[c].target,
                      expected |-> IF tx'[c].op = "promote" THEN None ELSE tx'[c].expected,
                      outcome |-> o]
  BY DEF AnswerOf
<1> QED
  BY <1>1, Answered DEF Register!Answer

\* The record that a first statement leaves.
LEMMA SelectedRecord ==
    ASSUME RepoInv, NEW c \in Callers, NEW op, NEW v, NEW e, NEW pc, NEW o,
           Select(c, op, v, e, pc, o)
    PROVE  /\ tx[c].outcome = "none"
           /\ tx'[c].op = op /\ tx'[c].target = v /\ tx'[c].expected = e /\ tx'[c].outcome = o
           /\ \A d \in Callers \ {c} : tx'[d] = tx[d]
           /\ UNCHANGED rows
  BY DEF Select, RepoInv, RepoTypeOK, TransactionsAgree

\* promote()'s first statement answers what the register holds, or nothing yet.
LEMMA BeginPromoteImplements ==
    ASSUME RepoInv, NEW c \in Callers, NEW v \in Versions, BeginPromote(c, v)
    PROVE  [Register!RegisterNext]_<<ActiveVersion, Replies>>
<1>1. CASE rows[v].status \in {"absent", "retired"}
  <2>1. PICK o \in {"not_found", "not_allowed"} : Select(c, "promote", v, None, "done", o)
    BY <1>1 DEF BeginPromote
  <2>2. Register!Answer(c, "promote", v, None, o) /\ UNCHANGED ActiveVersion
    BY <2>1, SelectedRecord, RegisterAnswer, NoWrite DEF Outcomes
  <2>3. Register!Refuse(c, "promote", v, None, o)
    BY <2>2 DEF Register!Refuse
  <2> QED
    BY <2>3 DEF Register!RegisterNext, Register!VersionOrNone, Register!Refusals
<1>2. CASE rows[v].status = "active"
  <2>1. Select(c, "promote", v, None, "done", "already_active")
    BY <1>2 DEF BeginPromote
  <2>2. Register!Answer(c, "promote", v, None, "already_active") /\ UNCHANGED ActiveVersion
    BY <2>1, SelectedRecord, RegisterAnswer, NoWrite DEF Outcomes
  <2>3. ActiveVersion = v
    BY <1>2, ActiveVersionUnique DEF ActiveRows, RepoInv
  <2> QED
    BY <2>2, <2>3 DEF Register!PromoteAgain, Register!RegisterNext
<1>3. CASE rows[v].status = "candidate"
  <2>1. Select(c, "promote", v, None, "scan", "none")
    BY <1>3 DEF BeginPromote
  <2> QED
    BY <2>1, SelectedRecord, Unanswered, NoWrite
<1> QED
  BY <1>1, <1>2, <1>3 DEF BeginPromote

\* activate()'s first statement likewise.
LEMMA BeginActivateImplements ==
    ASSUME RepoInv, NEW c \in Callers, NEW v \in Versions, NEW e \in VersionOrNone,
           BeginActivate(c, v, e)
    PROVE  [Register!RegisterNext]_<<ActiveVersion, Replies>>
<1>1. CASE rows[v].status = "absent"
  <2>1. Select(c, "activate", v, e, "done", "not_found")
    BY <1>1 DEF BeginActivate
  <2>2. Register!Answer(c, "activate", v, e, "not_found") /\ UNCHANGED ActiveVersion
    BY <2>1, SelectedRecord, RegisterAnswer, NoWrite DEF Outcomes
  <2>3. Register!Refuse(c, "activate", v, e, "not_found")
    BY <2>2 DEF Register!Refuse
  <2> QED
    BY <2>3 DEF Register!RegisterNext, Register!VersionOrNone, VersionOrNone, Register!Refusals
<1>2. CASE rows[v].status = "active" /\ e = v
  <2>1. Select(c, "activate", v, e, "done", "already_active")
    BY <1>2 DEF BeginActivate
  <2>2. Register!Answer(c, "activate", v, v, "already_active") /\ UNCHANGED ActiveVersion
    BY <1>2, <2>1, SelectedRecord, RegisterAnswer, NoWrite DEF Outcomes
  <2>3. ActiveVersion = v
    BY <1>2, ActiveVersionUnique DEF ActiveRows, RepoInv
  <2> QED
    BY <2>2, <2>3 DEF Register!Reassert, Register!RegisterNext
<1>3. CASE rows[v].status = "active" /\ e # v
  <2>1. Select(c, "activate", v, e, "done", "conflict")
    BY <1>3 DEF BeginActivate
  <2>2. Register!Answer(c, "activate", v, e, "conflict") /\ UNCHANGED ActiveVersion
    BY <2>1, SelectedRecord, RegisterAnswer, NoWrite DEF Outcomes
  <2>3. ActiveVersion = v
    BY <1>3, ActiveVersionUnique DEF ActiveRows, RepoInv
  <2>4. Register!Conflict(c, v, e)
    BY <1>3, <2>2, <2>3 DEF Register!Conflict
  <2> QED
    BY <2>4 DEF Register!RegisterNext, Register!VersionOrNone, VersionOrNone
<1>4. CASE rows[v].status \in {"candidate", "retired"}
  <2>1. PICK pc \in {"check", "update"} : Select(c, "activate", v, e, pc, "none")
    BY <1>4 DEF BeginActivate
  <2> QED
    BY <2>1, SelectedRecord, Unanswered, NoWrite
<1> QED
  BY <1>1, <1>2, <1>3, <1>4 DEF BeginActivate

\* The caller of an open transaction has no answer yet, and it has a target.
LEMMA OpenTransaction ==
    ASSUME RepoInv, NEW c \in Callers, tx[c].pc \notin {"idle", "done"}
    PROVE  /\ tx[c].outcome = "none" /\ tx[c].op \in {"promote", "activate"}
           /\ tx[c].target \in Versions /\ tx[c].expected \in VersionOrNone
  BY DEF RepoInv, RepoTypeOK, TransactionsAgree, Transactions

\* What ends a transaction in a conflict is an expectation that is wrong.
LEMMA ConflictImplements ==
    ASSUME RepoInv, NEW c \in Callers, tx[c].pc \notin {"idle", "done"}, tx[c].op = "activate",
           Finish(c, "conflict"), UNCHANGED rows, ActiveVersion # tx[c].expected
    PROVE  [Register!RegisterNext]_<<ActiveVersion, Replies>>
<1>1. /\ tx[c].outcome = "none" /\ tx[c].target \in Versions /\ tx[c].expected \in VersionOrNone
  BY OpenTransaction
<1>2. /\ tx'[c].op = "activate" /\ tx'[c].target = tx[c].target
      /\ tx'[c].expected = tx[c].expected /\ tx'[c].outcome = "conflict"
      /\ \A d \in Callers \ {c} : tx'[d] = tx[d]
  BY FinishedRecord DEF Outcomes, RepoInv
<1>3. Register!Answer(c, "activate", tx[c].target, tx[c].expected, "conflict")
  BY <1>1, <1>2, RegisterAnswer DEF Outcomes
<1>4. Register!Conflict(c, tx[c].target, tx[c].expected)
  BY <1>3, NoWrite DEF Register!Conflict
<1> QED
  BY <1>1, <1>4 DEF Register!RegisterNext, Register!VersionOrNone, VersionOrNone

\* A commit is the write of the register, acknowledged or not.
LEMMA WriteImplements ==
    ASSUME RepoInv, NEW c \in Callers, FlushAndCommit(c) \/ CommitUnacknowledged(c)
    PROVE  [Register!RegisterNext]_<<ActiveVersion, Replies>>
<1> DEFINE t == tx[c].target
<1> DEFINE e == IF tx[c].op = "promote" THEN None ELSE tx[c].expected
<1>1. /\ Write(c) /\ tx[c].pc = "index" /\ tx[c].outcome = "none"
      /\ tx[c].op \in {"promote", "activate"} /\ t \in Versions /\ tx[c].expected \in VersionOrNone
      /\ e \in Register!VersionOrNone
  BY OpenTransaction DEF FlushAndCommit, CommitUnacknowledged, Write, Register!VersionOrNone,
     VersionOrNone
<1>2. PICK o \in {"promoted", "activated", "aborted"} :
         /\ Finish(c, o)
         /\ o = "promoted" => tx[c].op = "promote"
         /\ o = "activated" => tx[c].op = "activate"
  BY <1>1 DEF FlushAndCommit, CommitUnacknowledged
<1>3. /\ tx'[c].op = tx[c].op /\ tx'[c].target = t /\ tx'[c].expected = tx[c].expected
      /\ tx'[c].outcome = o
      /\ \A d \in Callers \ {c} : tx'[d] = tx[d]
  BY <1>2, FinishedRecord DEF Outcomes, RepoInv
<1>4. Register!Answer(c, tx[c].op, t, e, o)
  BY <1>1, <1>3, RegisterAnswer DEF Outcomes
<1>5. ActiveVersion' = t
  BY <1>1, WriteActivates
<1>6. CASE o = "aborted"
  BY <1>1, <1>4, <1>5, <1>6 DEF Register!Unacknowledged, Register!RegisterNext
<1>7. CASE o = "promoted"
  BY <1>1, <1>2, <1>4, <1>5, <1>7 DEF Register!Promote, Register!RegisterNext
<1>8. CASE o = "activated"
  <2>1. tx[c].op = "activate" /\ tx[c].retiring = tx[c].expected
    BY <1>1, <1>2, <1>8 DEF RepoInv, TransactionsAgree
  <2>2. Register!Activate(c, t, e)
    <3>1. ActiveVersion = e \/ (e = None /\ ActiveVersion = t)
      <4>1. CASE tx[c].expected = None
        <5>1. ActiveRows \subseteq {t}
          BY <1>1, <2>1, <4>1, NoneIsNoVersion DEF Write, IndexAccepts, ActiveRows
        <5> QED
          BY <2>1, <4>1, <5>1 DEF ActiveVersion
      <4>2. CASE tx[c].expected # None
        BY <2>1, <4>2, ActiveVersionUnique DEF RepoInv, RetiringRowIsActive
      <4> QED
        BY <4>1, <4>2
    <3> QED
      BY <1>4, <1>5, <1>8, <2>1, <3>1 DEF Register!Activate
  <2> QED
    BY <1>1, <2>2 DEF Register!RegisterNext
<1> QED
  BY <1>6, <1>7, <1>8

\* Rolling open transactions back answers all their callers at once.
LEMMA AbortImplements ==
    ASSUME RepoInv, NEW S \in SUBSET Callers, Abort(S)
    PROVE  [Register!RegisterNext]_<<ActiveVersion, Replies>>
<1> DEFINE t(c) == [tx[c] EXCEPT !.pc = "done", !.retiring = None, !.outcome = "aborted"]
<1>1. /\ tx \in [Callers -> Transactions] /\ \A c \in Callers : tx[c] \in Transactions
      /\ \A c \in S : tx[c].outcome = "none" /\ tx[c].op \in {"promote", "activate"}
      /\ UNCHANGED rows
  BY OpenTransaction DEF RepoInv, RepoTypeOK, Abort, InFlight
<1>2. \A c \in Callers : tx'[c] = IF c \in S THEN t(c) ELSE tx[c]
  BY DEF Abort
<1>3. \A c \in Callers : t(c) \in Transactions /\ t(c).outcome = "aborted"
  BY <1>1 DEF Transactions, Outcomes, VersionOrNone
<1> HIDE DEF t
<1>4. \A c \in Callers : tx'[c] \in Transactions
  BY <1>1, <1>2, <1>3
<1>5. \A c \in Callers : tx'[c].outcome \in Register!Answers \cup {"none"}
  BY <1>4 DEF Transactions, Outcomes, Register!Answers, Register!Refusals
<1>6. Replies' \in [Callers -> Register!Calls]
  BY <1>4, <1>5 DEF Replies, AnswerOf, Transactions, Register!Calls, Register!VersionOrNone,
     VersionOrNone
<1>7. \A c \in S : Replies[c] = Register!NoCall /\ Replies'[c].outcome = "aborted"
  BY <1>1, <1>2, <1>3 DEF Replies, AnswerOf, Register!NoCall
<1>8. \A c \in Callers \ S : Replies'[c] = Replies[c]
  BY <1>2 DEF Replies, AnswerOf
<1> QED
  BY <1>1, <1>6, <1>7, <1>8, NoWrite DEF Register!Interrupt, Register!RegisterNext

\* A statement answers its caller, or nobody.
LEMMA StatementImplements ==
    ASSUME RepoInv, NEW c \in Callers, Statement(c)
    PROVE  [Register!RegisterNext]_<<ActiveVersion, Replies>>
<1>0. tx \in [Callers -> Transactions] /\ tx[c] \in Transactions
  BY DEF RepoInv, RepoTypeOK
<1>1. CASE PromoteScan(c) \/ PromoteRetire(c) \/ LockTarget(c)
  <2>1. /\ tx[c].outcome = "none" /\ tx'[c].outcome = "none" /\ UNCHANGED rows
        /\ \A d \in Callers \ {c} : tx'[d] = tx[d]
    BY <1>0, <1>1, OpenTransaction DEF PromoteScan, PromoteRetire, LockTarget, Goto, Transactions
  <2> QED
    BY <2>1, Unanswered, NoWrite
<1>2. CASE ActivateCheckNone(c)
  <2>0. tx[c].pc = "check" /\ tx[c].op = "activate" /\ tx[c].expected = None
    BY <1>2 DEF ActivateCheckNone, RepoInv, TransactionsAgree
  <2>1. CASE ActiveRows = {}
    <3>1. /\ tx[c].outcome = "none" /\ tx'[c].outcome = "none" /\ UNCHANGED rows
          /\ \A d \in Callers \ {c} : tx'[d] = tx[d]
      BY <1>0, <1>2, <2>0, <2>1, OpenTransaction DEF ActivateCheckNone, Goto, Transactions
    <3> QED
      BY <3>1, Unanswered, NoWrite
  <2>2. CASE ActiveRows # {}
    BY <1>2, <2>0, <2>2, NoActiveVersion, ConflictImplements DEF ActivateCheckNone
  <2> QED
    BY <2>1, <2>2
<1>3. CASE ActivateRetire(c)
  <2>0. tx[c].pc = "update" /\ tx[c].op = "activate" /\ tx[c].expected # None
    BY <1>3 DEF ActivateRetire, RepoInv, TransactionsAgree
  <2>1. CASE tx[c].expected \in ActiveRows
    <3>1. /\ tx[c].outcome = "none" /\ tx'[c].outcome = "none" /\ UNCHANGED rows
          /\ \A d \in Callers \ {c} : tx'[d] = tx[d]
      BY <1>0, <1>3, <2>0, <2>1, OpenTransaction DEF ActivateRetire, Transactions
    <3> QED
      BY <3>1, Unanswered, NoWrite
  <2>2. CASE tx[c].expected \notin ActiveRows
    <3>1. ActiveVersion # tx[c].expected
      BY <2>0, <2>2 DEF ActiveVersion
    <3> QED
      BY <1>3, <2>0, <2>2, <3>1, ConflictImplements DEF ActivateRetire
  <2> QED
    BY <2>1, <2>2
<1>4. CASE FlushAndCommit(c)
  BY <1>4, WriteImplements
<1>5. CASE FlushRefused(c)
  <2>0. tx[c].pc = "index" /\ UNCHANGED rows /\ ~IndexAccepts(c)
    BY <1>5 DEF FlushRefused
  <2>1. CASE tx[c].op = "activate"
    <3>1. tx[c].retiring = tx[c].expected
      BY <2>0, <2>1 DEF RepoInv, TransactionsAgree
    <3>2. PICK w \in ActiveRows : w # tx[c].retiring
      BY <2>0 DEF IndexAccepts
    <3>3. ActiveVersion # tx[c].expected
      BY <3>1, <3>2, ActiveVersionUnique DEF RepoInv
    <3> QED
      BY <1>5, <2>0, <2>1, <3>3, ConflictImplements DEF FlushRefused
  <2>2. CASE tx[c].op = "promote"
    <3>1. /\ tx[c].outcome = "none" /\ tx[c].target \in Versions
          /\ Finish(c, "integrity_error")
      BY <1>5, <2>0, <2>2, OpenTransaction DEF FlushRefused
    <3>2. /\ tx'[c].op = "promote" /\ tx'[c].target = tx[c].target
          /\ tx'[c].outcome = "integrity_error"
          /\ \A d \in Callers \ {c} : tx'[d] = tx[d]
      BY <2>2, <3>1, FinishedRecord DEF Outcomes, RepoInv
    <3>3. Register!Answer(c, "promote", tx[c].target, None, "integrity_error")
      BY <3>1, <3>2, RegisterAnswer DEF Outcomes
    <3>4. Register!Refuse(c, "promote", tx[c].target, None, "integrity_error")
      BY <2>0, <3>3, NoWrite DEF Register!Refuse
    <3> QED
      BY <3>1, <3>4 DEF Register!RegisterNext, Register!VersionOrNone, Register!Refusals
  <2> QED
    BY <2>0, <2>1, <2>2, OpenTransaction
<1>6. CASE DeadlockVictim(c)
  BY <1>6, VictimIsAborted, AbortImplements DEF RepoInv
<1> QED
  BY <1>1, <1>2, <1>3, <1>4, <1>5, <1>6 DEF Statement

\* Every step of the repository is a step of the register, or leaves it alone.
LEMMA StepImplements ==
    RepoInv /\ [RepoNext]_repoVars => [Register!RegisterNext]_<<ActiveVersion, Replies>>
<1> SUFFICES ASSUME RepoInv, [RepoNext]_repoVars
             PROVE  [Register!RegisterNext]_<<ActiveVersion, Replies>>
  OBVIOUS
<1>1. CASE UNCHANGED repoVars
  BY <1>1, NoWrite, Unanswered DEF repoVars
<1>2. ASSUME NEW v \in Versions, Create(v) PROVE UNCHANGED <<ActiveVersion, Replies>>
  BY <1>2, CreateKeepsActive, Unanswered DEF Create
<1>3. ASSUME NEW c \in Callers, CommitUnacknowledged(c)
      PROVE  [Register!RegisterNext]_<<ActiveVersion, Replies>>
  BY <1>3, WriteImplements
<1> QED
  BY <1>1, <1>2, <1>3, BeginPromoteImplements, BeginActivateImplements, StatementImplements,
     AbortImplements DEF RepoNext

\* The repository implements the register: promote() and activate() take
\* effect at one instant, activate() as a compare-and-set.
THEOREM RepositoryImplementsRegister == RepoSpec => ImplementsRegister
<1>1. RepoInit => Register!RegisterInit
  <2> SUFFICES ASSUME RepoInit PROVE Register!RegisterInit
    OBVIOUS
  <2>1. ActiveVersion = None
    BY DEF RepoInit, NoRow, ActiveVersion, ActiveRows
  <2>2. Replies = [c \in Callers |-> Register!NoCall]
    BY DEF RepoInit, NoTransaction, Replies, AnswerOf, Register!NoCall
  <2> QED
    BY <2>1, <2>2 DEF Register!RegisterInit
<1> QED
  BY <1>1, StepImplements, RepositoryInvariant, PTL
     DEF RepoSpec, ImplementsRegister, Register!RegisterSpec, Register!registerVars
=============================================================================
