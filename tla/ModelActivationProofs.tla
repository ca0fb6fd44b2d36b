------------------------ MODULE ModelActivationProofs ------------------------
(* Proofs about ModelActivation, for every set of versions, packages,      *)
(* requests and kinds of request, and every number of restarts.            *)
EXTENDS ModelActivation, ModelVersionRepositoryProofs

-----------------------------------------------------------------------------
(* The record of a request.                                                *)

\* A request is replaced, and the others left alone.
LEMMA Replaced ==
    ASSUME req \in [Callers -> Requests], NEW r \in Callers, NEW n \in Requests,
           req' = [req EXCEPT ![r] = n]
    PROVE  req' \in [Callers -> Requests] /\ req'[r] = n /\ \A q \in Callers \ {r} : req'[q] = req[q]
  OBVIOUS

\* Move changes the point the request has reached, and nothing else of it.
LEMMA Moved ==
    ASSUME req \in [Callers -> Requests], NEW r \in Callers, NEW pc \in PCs, Move(r, pc)
    PROVE  /\ req' \in [Callers -> Requests]
           /\ req'[r].pc = pc /\ req'[r].version = req[r].version
           /\ req'[r].expected = req[r].expected /\ req'[r].kind = req[r].kind
           /\ req'[r].token = req[r].token /\ req'[r].seen = req[r].seen /\ req'[r].answer = req[r].answer
           /\ req'[r].result = req[r].result
           /\ \A q \in Callers \ {r} : req'[q] = req[q]
<1> DEFINE n == [req[r] EXCEPT !.pc = pc]
<1>1. n \in Requests /\ n.pc = pc /\ n.version = req[r].version /\ n.expected = req[r].expected
      /\ n.kind = req[r].kind /\ n.token = req[r].token /\ n.seen = req[r].seen /\ n.answer = req[r].answer
      /\ n.result = req[r].result
  BY DEF Requests
<1>2. req' = [req EXCEPT ![r] = n]
  BY DEF Move, Requests
<1> HIDE DEF n
<1> QED
  BY <1>1, <1>2, Replaced

\* Reply ends the request.
LEMMA Replied ==
    ASSUME req \in [Callers -> Requests], NEW r \in Callers, NEW o \in Results, Reply(r, o)
    PROVE  /\ req' \in [Callers -> Requests]
           /\ req'[r].pc = "done" /\ req'[r].version = req[r].version
           /\ req'[r].kind = req[r].kind /\ req'[r].token = req[r].token /\ req'[r].seen = req[r].seen
           /\ req'[r].answer = req[r].answer /\ req'[r].result = o
           /\ \A q \in Callers \ {r} : req'[q] = req[q]
<1> DEFINE n == [req[r] EXCEPT !.pc = "done", !.result = o]
<1>1. n \in Requests /\ n.pc = "done" /\ n.version = req[r].version /\ n.kind = req[r].kind
      /\ n.token = req[r].token /\ n.seen = req[r].seen /\ n.answer = req[r].answer /\ n.result = o
  BY DEF Requests, PCs
<1>2. req' = [req EXCEPT ![r] = n]
  BY DEF Reply, Requests
<1> HIDE DEF n
<1> QED
  BY <1>1, <1>2, Replaced

\* The request notes the version it expects to be active.
LEMMA ExpectationNoted ==
    ASSUME req \in [Callers -> Requests], NEW r \in Callers, NEW pc \in PCs,
           NEW v \in VersionOrNone,
           req' = [req EXCEPT ![r].pc = pc, ![r].expected = v]
    PROVE  /\ req' \in [Callers -> Requests]
           /\ req'[r].pc = pc
           /\ req'[r].version = req[r].version
           /\ req'[r].kind = req[r].kind /\ req'[r].token = req[r].token /\ req'[r].seen = req[r].seen
           /\ req'[r].result = req[r].result /\ req'[r].answer = req[r].answer
           /\ \A q \in Callers \ {r} : req'[q] = req[q]
<1> DEFINE n == [req[r] EXCEPT !.pc = pc, !.expected = v]
<1>1. n \in Requests /\ n.pc = pc /\ n.kind = req[r].kind
      /\ n.token = req[r].token /\ n.seen = req[r].seen /\ n.result = req[r].result /\ n.answer = req[r].answer
      /\ n.version = req[r].version
  BY DEF Requests
<1>2. req' = [req EXCEPT ![r] = n]
  BY DEF Requests
<1> HIDE DEF n
<1> QED
  BY <1>1, <1>2, Replaced

\* An agent's call notes the active version that it read, and goes on ...
LEMMA ReadingNoted ==
    ASSUME req \in [Callers -> Requests], NEW r \in Callers, NEW pc \in PCs,
           req' = [req EXCEPT ![r].pc = pc, ![r].seen = ActiveVersion]
    PROVE  /\ req' \in [Callers -> Requests]
           /\ req'[r].pc = pc /\ req'[r].seen = ActiveVersion /\ req'[r].result = req[r].result
           /\ req'[r].version = req[r].version
           /\ req'[r].kind = req[r].kind /\ req'[r].token = req[r].token
           /\ req'[r].answer = req[r].answer
           /\ \A q \in Callers \ {r} : req'[q] = req[q]
<1> DEFINE n == [req[r] EXCEPT !.pc = pc, !.seen = ActiveVersion]
<1>1. n \in Requests /\ n.pc = pc /\ n.seen = ActiveVersion /\ n.result = req[r].result
      /\ n.kind = req[r].kind /\ n.token = req[r].token /\ n.answer = req[r].answer
      /\ n.version = req[r].version
  BY ActiveVersionType DEF Requests
<1>2. req' = [req EXCEPT ![r] = n]
  BY DEF Requests
<1> HIDE DEF n
<1> QED
  BY <1>1, <1>2, Replaced

\* ... or ends with a preview.
LEMMA PreviewNoted ==
    ASSUME req \in [Callers -> Requests], NEW r \in Callers,
           req' = [req EXCEPT ![r].pc = "done", ![r].result = "confirmation_required",
                              ![r].seen = ActiveVersion]
    PROVE  /\ req' \in [Callers -> Requests]
           /\ req'[r].pc = "done" /\ req'[r].seen = ActiveVersion
           /\ req'[r].result = "confirmation_required"
           /\ req'[r].version = req[r].version
           /\ req'[r].kind = req[r].kind /\ req'[r].token = req[r].token
           /\ req'[r].answer = req[r].answer
           /\ \A q \in Callers \ {r} : req'[q] = req[q]
<1> DEFINE n == [req[r] EXCEPT !.pc = "done", !.result = "confirmation_required",
                              !.seen = ActiveVersion]
<1>1. n \in Requests /\ n.pc = "done" /\ n.seen = ActiveVersion
      /\ n.result = "confirmation_required"
      /\ n.kind = req[r].kind /\ n.token = req[r].token /\ n.answer = req[r].answer
      /\ n.version = req[r].version
  BY ActiveVersionType DEF Requests, PCs, Results
<1>2. req' = [req EXCEPT ![r] = n]
  BY DEF Requests
<1> HIDE DEF n
<1> QED
  BY <1>1, <1>2, Replaced

\* A prediction notes the version that will serve it.
LEMMA VersionNoted ==
    ASSUME req \in [Callers -> Requests], NEW r \in Callers, NEW pc \in PCs,
           NEW v \in VersionOrNone,
           req' = [req EXCEPT ![r].pc = pc, ![r].version = v]
    PROVE  /\ req' \in [Callers -> Requests]
           /\ req'[r].pc = pc
           /\ req'[r].version = v
           /\ req'[r].kind = req[r].kind /\ req'[r].token = req[r].token /\ req'[r].seen = req[r].seen
           /\ req'[r].result = req[r].result /\ req'[r].answer = req[r].answer
           /\ \A q \in Callers \ {r} : req'[q] = req[q]
<1> DEFINE n == [req[r] EXCEPT !.pc = pc, !.version = v]
<1>1. n \in Requests /\ n.pc = pc /\ n.kind = req[r].kind
      /\ n.token = req[r].token /\ n.seen = req[r].seen /\ n.result = req[r].result /\ n.answer = req[r].answer
      /\ n.version = v
  BY DEF Requests
<1>2. req' = [req EXCEPT ![r] = n]
  BY DEF Requests
<1> HIDE DEF n
<1> QED
  BY <1>1, <1>2, Replaced

\* A prediction notes the version that served it.
LEMMA AnswerNoted ==
    ASSUME req \in [Callers -> Requests], NEW r \in Callers, NEW pc \in PCs,
           NEW v \in VersionOrNone,
           req' = [req EXCEPT ![r].pc = pc, ![r].answer = v]
    PROVE  /\ req' \in [Callers -> Requests]
           /\ req'[r].pc = pc
           /\ req'[r].version = req[r].version
           /\ req'[r].kind = req[r].kind /\ req'[r].token = req[r].token /\ req'[r].seen = req[r].seen
           /\ req'[r].result = req[r].result /\ req'[r].answer = v
           /\ \A q \in Callers \ {r} : req'[q] = req[q]
<1> DEFINE n == [req[r] EXCEPT !.pc = pc, !.answer = v]
<1>1. n \in Requests /\ n.pc = pc /\ n.kind = req[r].kind
      /\ n.token = req[r].token /\ n.seen = req[r].seen /\ n.result = req[r].result /\ n.answer = v
      /\ n.version = req[r].version
  BY DEF Requests
<1>2. req' = [req EXCEPT ![r] = n]
  BY DEF Requests
<1> HIDE DEF n
<1> QED
  BY <1>1, <1>2, Replaced

-----------------------------------------------------------------------------
(* The invariant of the process, one kind of step at a time.               *)

\* A request that is not activating, and does not begin to, leaves the lock,
\* the holder and the other requests alone.
LEMMA QuietStep ==
    ASSUME ActivationInv, NEW r \in Callers,
           \A q \in Callers \ {r} : req'[q] = req[q] /\ tx'[q] = tx[q],
           UNCHANGED <<holder, lock, lastActivated>>,
           ~Activating(r), ~Activating(r)', RequestAgrees(r)'
    PROVE  RequestsAgree' /\ ResidentIsLastActivated'
<1> USE DEF ActivationInv
<1>1. \A q \in Callers \ {r} : /\ Activating(q)' = Activating(q)
                               /\ SwapPending(q)' = SwapPending(q)
                               /\ RequestAgrees(q)' = RequestAgrees(q)
                               /\ tx'[q].target = tx[q].target
  BY DEF Activating, SwapPending, RequestAgrees, At
<1>2. ~SwapPending(r) /\ ~SwapPending(r)'
  BY DEF Activating, SwapPending
<1> QED
  BY <1>1, <1>2 DEF RequestsAgree, ResidentIsLastActivated

\* The request that holds the lock, or takes it while it is free, leaves the
\* other requests alone: none of them has a swap pending.
LEMMA LockedStep ==
    ASSUME ActivationInv, NEW r \in Callers,
           \A q \in Callers \ {r} : req'[q] = req[q] /\ tx'[q] = tx[q],
           lock \in {None, r}, lock' \in {None, r},
           lock' = r <=> Activating(r)', RequestAgrees(r)',
           SwapPending(r)' => tx'[r].target = lastActivated',
           ~SwapPending(r)' => holder' = lastActivated'
    PROVE  RequestsAgree' /\ ResidentIsLastActivated'
<1> USE DEF ActivationInv
<1>1. \A q \in Callers \ {r} : /\ Activating(q)' = Activating(q)
                               /\ SwapPending(q)' = SwapPending(q)
                               /\ RequestAgrees(q)' = RequestAgrees(q)
  BY DEF Activating, SwapPending, RequestAgrees, At
<1>2. \A q \in Callers \ {r} : ~Activating(q) /\ lock' # q
  BY NoneIsNoCaller DEF RequestsAgree
<1>3. \A q \in Callers \ {r} : ~SwapPending(q)'
  BY <1>1, <1>2 DEF Activating, SwapPending
<1> QED
  BY <1>1, <1>2, <1>3 DEF RequestsAgree, ResidentIsLastActivated

-----------------------------------------------------------------------------
(* What a step of the repository leaves of the transaction records.        *)

\* A first statement opens the caller's own transaction.
LEMMA Selected ==
    ASSUME RepoTypeOK, NEW c \in Callers, NEW op, NEW v, NEW e, NEW pc, NEW o,
           Select(c, op, v, e, pc, o)
    PROVE  /\ tx[c].pc = "idle"
           /\ tx'[c].op = op /\ tx'[c].pc = pc /\ tx'[c].target = v /\ tx'[c].outcome = o
           /\ \A d \in Callers \ {c} : tx'[d] = tx[d]
  BY DEF Select, RepoTypeOK

\* A later statement runs in an open transaction, which goes on or ends.
LEMMA StatementRuns ==
    ASSUME RepoTypeOK, NEW c \in Callers, Statement(c) \/ CommitUnacknowledged(c) \/ Abort({c})
    PROVE  /\ tx[c].pc \notin {"idle", "done"}
           /\ tx'[c].pc # "idle"
           /\ tx'[c].op = tx[c].op /\ tx'[c].target = tx[c].target
           /\ \A d \in Callers \ {c} : tx'[d] = tx[d]
<1>1. tx \in [Callers -> Transactions] /\ tx[c] \in Transactions
  BY DEF RepoTypeOK
<1>2. CASE \/ PromoteScan(c) \/ PromoteRetire(c) \/ ActivateCheckNone(c) \/ ActivateRetire(c)
           \/ LockTarget(c)
  BY <1>1, <1>2 DEF PromoteScan, PromoteRetire, ActivateCheckNone, ActivateRetire,
     LockTarget, Goto, Finish, Transactions
<1>3. CASE FlushAndCommit(c) \/ FlushRefused(c) \/ CommitUnacknowledged(c)
  BY <1>1, <1>3 DEF FlushAndCommit, FlushRefused, CommitUnacknowledged, Write, Finish, Transactions
<1>4. CASE Abort({c})
  BY <1>1, <1>4 DEF Abort, InFlight, Transactions
<1> QED
  BY <1>2, <1>3, <1>4, VictimIsAborted DEF Statement

\* A failed transaction answers with an error.
LEMMA FailureAborts ==
    ASSUME RepoTypeOK, NEW c \in Callers, CommitUnacknowledged(c) \/ Abort({c})
    PROVE  tx'[c].outcome = "aborted"
<1>1. tx \in [Callers -> Transactions] /\ tx[c] \in Transactions
  BY DEF RepoTypeOK
<1>2. CASE CommitUnacknowledged(c)
  BY <1>2, FinishedRecord DEF CommitUnacknowledged, Outcomes
<1>3. CASE Abort({c})
  BY <1>1, <1>3 DEF Abort, Transactions
<1> QED
  BY <1>2, <1>3

-----------------------------------------------------------------------------
(* Each kind of step preserves the invariant of the process.               *)

ProcessInv == TypeOK /\ RequestsAgree /\ ResidentIsLastActivated

\* A request that begins has no transaction and names its version.
LEMMA BeginStarts ==
    ASSUME ActivationInv, NEW r \in Callers, NEW kind \in AllKinds, NEW v \in VersionOrNone,
           NEW pc \in {"validate", "route", "promote_get", "confirm", "resident"},
           NEW t \in Tokens \cup {NoToken},
           Begin(r, kind, pc, v, t),
           pc # "resident" => v \in Versions,
           pc = "confirm" => kind \in {"mcp_activate", "mcp_rollback"}
    PROVE  ProcessInv'
<1> USE DEF ActivationInv
<1> DEFINE n == [NoRequest EXCEPT !.kind = kind, !.pc = pc, !.version = v, !.token = t]
<1>1. n \in Requests /\ n.kind = kind /\ n.pc = pc /\ n.version = v
  BY DEF NoRequest, Requests, PCs, Results, VersionOrNone
<1>2. req' = [req EXCEPT ![r] = n]
  BY DEF Begin
<1> HIDE DEF n
<1>3. req' \in [Callers -> Requests] /\ req'[r] = n /\ \A q \in Callers \ {r} : req'[q] = req[q]
  BY <1>1, <1>2, Replaced DEF TypeOK
<1>4. UNCHANGED <<rows, tx, holder, lock, bytes, tokens, audit, restarts, lastActivated>>
  BY DEF Begin, repoVars
<1>5. TypeOK'
  BY <1>3, <1>4 DEF TypeOK, RepoTypeOK
<1>6. ~Activating(r) /\ ~Activating(r)'
  BY <1>1, <1>3 DEF Begin, Activating, At
<1>7. tx[r].pc = "idle"
  BY DEF Begin, At, RequestsAgree, RequestAgrees
<1>8. RequestAgrees(r)'
  BY <1>1, <1>3, <1>4, <1>7 DEF RequestAgrees, NamesVersion, At
<1> QED
  BY <1>3, <1>4, <1>5, <1>6, <1>8, QuietStep DEF ProcessInv

\* Every kind of request that starts is one of those.
LEMMA StartPreserves ==
    ASSUME ActivationInv, Start
    PROVE  ProcessInv'
<1> USE DEF ActivationInv, Async, AllKinds, VersionOrNone
<1>1. tokens \cup {NoToken} \subseteq Tokens \cup {NoToken}
  BY DEF TypeOK
<1>2. ASSUME NEW r \in Callers, NEW v \in Versions, StartUpload(r, v) PROVE ProcessInv'
  BY <1>2, BeginStarts DEF StartUpload
<1>3. ASSUME NEW r \in Callers, NEW v \in Versions, StartWeb(r, v) PROVE ProcessInv'
  BY <1>3, BeginStarts DEF StartWeb
<1>4. ASSUME NEW r \in Callers, NEW v \in Versions, StartRest(r, v) PROVE ProcessInv'
  BY <1>4, BeginStarts DEF StartRest
<1>5. ASSUME NEW r \in Callers, NEW v \in Versions, NEW t \in tokens \cup {NoToken},
             StartMcp(r, v, t)
      PROVE  ProcessInv'
  BY <1>1, <1>5, BeginStarts DEF StartMcp
<1>6. ASSUME NEW r \in Callers, StartPrediction(r) PROVE ProcessInv'
  BY <1>6, BeginStarts DEF StartPrediction
<1> QED
  BY <1>2, <1>3, <1>4, <1>5, <1>6 DEF Start

\* Steps of a request that has no transaction and does not hold the lock.
LEMMA HandlerPreserves ==
    ASSUME ActivationInv, RepoTypeOK', NEW r \in Callers,
           UNCHANGED <<tx, holder, lock, lastActivated, restarts>>,
           req[r].pc \notin {"load", "persist", "transaction", "idle", "done"},
           req' \in [Callers -> Requests],
           \A q \in Callers \ {r} : req'[q] = req[q],
           req'[r].pc \notin {"load", "persist", "transaction"},
           req'[r].pc \in NamesVersion => req'[r].version \in Versions,
           req'[r].pc \in {"confirm", "record"}
              => req'[r].kind \in {"mcp_activate", "mcp_rollback"},
           req[r].pc = "health" => req'[r].pc = "done",
           bytes' \in [Packages -> {"missing", "torn", "intact"}],
           tokens' \in SUBSET Tokens,
           audit' \in SUBSET [by : Callers, target : Versions, previous : VersionOrNone]
    PROVE  ProcessInv'
<1> USE DEF ActivationInv
<1>1. TypeOK'
  BY DEF TypeOK
<1>2. ~Activating(r) /\ ~Activating(r)'
  BY DEF Activating, At
<1>3. RequestAgrees(r)'
  BY DEF RequestsAgree, RequestAgrees, At
<1> QED
  BY <1>1, <1>2, <1>3, QuietStep DEF ProcessInv

\* The steps of a handler, taken one by one.
Handler(r) ==
    \/ UploadRejected(r) \/ UploadWrites(r) \/ UploadStored(r) \/ UploadRegisters(r)
    \/ Route(r) \/ PromoteGet(r) \/ Lookup(r) \/ ReadPackage(r) \/ ReadExpected(r)
    \/ HealthCheck(r) \/ Preview(r) \/ Confirm(r) \/ RecordRollback(r)
    \/ ReadHolder(r) \/ ReadActive(r) \/ Answer(r) \/ SavePrediction(r)

LEMMA HandlerStep ==
    ASSUME ActivationInv, RepoTypeOK', NEW r \in Callers, Handler(r)
    PROVE  ProcessInv'
<1> USE DEF ActivationInv, Local, repoVars
<1>1. /\ req \in [Callers -> Requests] /\ req[r] \in Requests
      /\ bytes \in [Packages -> {"missing", "torn", "intact"}]
      /\ tokens \in SUBSET Tokens
      /\ audit \in SUBSET [by : Callers, target : Versions, previous : VersionOrNone]
      /\ req[r].pc \in NamesVersion => req[r].version \in Versions
      /\ req[r].pc \in {"confirm", "record"} => req[r].kind \in {"mcp_activate", "mcp_rollback"}
      /\ holder \in VersionOrNone
  BY DEF TypeOK, RequestsAgree, RequestAgrees
<1>2. /\ req[r].version \in VersionOrNone /\ req[r].expected \in VersionOrNone
      /\ req[r].seen \in VersionOrNone
      /\ req[r].answer \in VersionOrNone
  BY <1>1 DEF Requests
<1>3. CASE UploadRejected(r)
  <2>1. Reply(r, "rejected") /\ "rejected" \in Results /\ req[r].pc = "validate"
    BY <1>3 DEF UploadRejected, At, Results
  <2> QED
    BY <1>1, <1>3, <2>1, Replied, HandlerPreserves DEF UploadRejected, NamesVersion
<1>4. CASE UploadWrites(r)
  <2>1. Move(r, "write") /\ "write" \in PCs /\ req[r].pc = "validate"
    BY <1>4 DEF UploadWrites, At, PCs
  <2>2. bytes' \in [Packages -> {"missing", "torn", "intact"}]
    BY <1>1, <1>4 DEF UploadWrites
  <2> QED
    BY <1>1, <1>4, <2>1, <2>2, Moved, HandlerPreserves DEF UploadWrites, NamesVersion, PCs
<1>5. CASE UploadStored(r)
  <2>1. Move(r, "register") /\ "register" \in PCs /\ req[r].pc = "write"
    BY <1>5 DEF UploadStored, At, PCs
  <2>2. bytes' \in [Packages -> {"missing", "torn", "intact"}]
    BY <1>1, <1>5 DEF UploadStored
  <2> QED
    BY <1>1, <1>5, <2>1, <2>2, Moved, HandlerPreserves DEF UploadStored, NamesVersion, PCs
<1>6. CASE UploadRegisters(r)
  <2>1. Reply(r, "accepted") /\ "accepted" \in Results /\ req[r].pc = "register"
    BY <1>6 DEF UploadRegisters, At, Results
  <2>2. UNCHANGED tx
    BY <1>6 DEF UploadRegisters, Create
  <2> QED
    BY <1>1, <1>6, <2>1, <2>2, Replied, HandlerPreserves DEF UploadRegisters, NamesVersion
<1>7. CASE Route(r)
  <2>1. PICK pc \in {"lookup", "promote_get"} : Move(r, pc)
    BY <1>7 DEF Route
  <2>2. pc \in PCs /\ req[r].pc = "route"
    BY <1>7 DEF Route, At, PCs
  <2> QED
    BY <1>1, <1>7, <2>1, <2>2, Moved, HandlerPreserves DEF Route, NamesVersion, PCs
<1>8. CASE PromoteGet(r)
  <2>1. req[r].pc = "promote_get"
    BY <1>8 DEF PromoteGet, At
  <2>2. CASE Move(r, "promote")
    BY <1>1, <1>8, <2>1, <2>2, Moved, HandlerPreserves DEF PromoteGet, NamesVersion, PCs
  <2>3. CASE Reply(r, "not_found")
    BY <1>1, <1>8, <2>1, <2>3, Replied, HandlerPreserves DEF PromoteGet, NamesVersion, Results, Outcomes
  <2>4. CASE Reply(r, "not_allowed")
    BY <1>1, <1>8, <2>1, <2>4, Replied, HandlerPreserves DEF PromoteGet, NamesVersion, Results, Outcomes
  <2> QED
    BY <1>8, <2>2, <2>3, <2>4 DEF PromoteGet
<1>9. CASE Lookup(r)
  <2>1. req[r].pc = "lookup"
    BY <1>9 DEF Lookup, At
  <2>2. CASE Move(r, "read")
    BY <1>1, <1>9, <2>1, <2>2, Moved, HandlerPreserves DEF Lookup, NamesVersion, PCs
  <2>3. CASE Reply(r, "not_found")
    BY <1>1, <1>9, <2>1, <2>3, Replied, HandlerPreserves DEF Lookup, NamesVersion, Results, Outcomes
  <2> QED
    BY <1>9, <2>2, <2>3 DEF Lookup
<1>10. CASE ReadPackage(r)
  <2>1. req[r].pc = "read"
    BY <1>10 DEF ReadPackage, At
  <2>2. CASE Move(r, "expect")
    BY <1>1, <1>10, <2>1, <2>2, Moved, HandlerPreserves DEF ReadPackage, NamesVersion, PCs
  <2>3. CASE Reply(r, "storage_error")
    BY <1>1, <1>10, <2>1, <2>3, Replied, HandlerPreserves DEF ReadPackage, NamesVersion, Results
  <2>4. CASE Reply(r, "package_invalid")
    BY <1>1, <1>10, <2>1, <2>4, Replied, HandlerPreserves DEF ReadPackage, NamesVersion, Results
  <2> QED
    BY <1>10, <2>2, <2>3, <2>4 DEF ReadPackage
<1>11. CASE ReadExpected(r)
  <2>1. req[r].pc = "expect" /\ "acquire" \in PCs
    BY <1>11 DEF ReadExpected, At, PCs
  <2>2. req' = [req EXCEPT ![r].pc = "acquire", ![r].expected = ActiveVersion]
    BY <1>11 DEF ReadExpected
  <2>3. /\ req' \in [Callers -> Requests]
        /\ req'[r].pc = "acquire" /\ req'[r].version = req[r].version
        /\ \A q \in Callers \ {r} : req'[q] = req[q]
    BY <1>1, <2>1, <2>2, ActiveVersionType, ExpectationNoted
  <2> QED
    BY <1>1, <1>11, <2>1, <2>3, HandlerPreserves DEF ReadExpected, NamesVersion, PCs
<1>12. CASE HealthCheck(r)
  <2>1. req[r].pc = "health"
    BY <1>12 DEF HealthCheck, At
  <2>2. PICK o \in {"activated", "unhealthy"} : Reply(r, o)
    BY <1>12 DEF HealthCheck
  <2>3. o \in Results
    BY DEF Results, Outcomes
  <2> QED
    BY <1>1, <1>12, <2>1, <2>2, <2>3, Replied, HandlerPreserves DEF HealthCheck, NamesVersion
<1>13. CASE Preview(r)
  <2>1. /\ req' = [req EXCEPT ![r].pc = "done", ![r].result = "confirmation_required",
                             ![r].seen = ActiveVersion]
        /\ req[r].pc = "confirm"
    BY <1>13 DEF Preview, At
  <2>4. /\ req' \in [Callers -> Requests]
        /\ req'[r].pc = "done" /\ req'[r].version = req[r].version /\ req'[r].kind = req[r].kind
        /\ \A q \in Callers \ {r} : req'[q] = req[q]
    BY <1>1, <2>1, PreviewNoted
  <2>2. ConfirmationFor(r) \in Tokens
    BY <1>1, <2>1, ActiveVersionType DEF ConfirmationFor, Tokens, NamesVersion, PCs
  <2>3. tokens' \in SUBSET Tokens
    BY <1>1, <1>13, <2>2 DEF Preview
  <2> QED
    BY <1>1, <1>13, <2>1, <2>3, <2>4, HandlerPreserves DEF Preview, NamesVersion
<1>14. CASE Confirm(r)
  <2>1. req[r].pc = "confirm"
    BY <1>14 DEF Confirm, At
  <2>2. PICK pc \in {"record", "lookup"} :
           req' = [req EXCEPT ![r].pc = pc, ![r].seen = ActiveVersion]
    BY <1>14 DEF Confirm
  <2>3. pc \in PCs
    BY DEF PCs
  <2>4. /\ req' \in [Callers -> Requests]
        /\ req'[r].pc = pc /\ req'[r].version = req[r].version /\ req'[r].kind = req[r].kind
        /\ \A q \in Callers \ {r} : req'[q] = req[q]
    BY <1>1, <2>2, <2>3, ReadingNoted
  <2> QED
    BY <1>1, <1>14, <2>1, <2>4, HandlerPreserves DEF Confirm, NamesVersion, PCs
<1>15. CASE RecordRollback(r)
  <2>1. Move(r, "lookup") /\ "lookup" \in PCs /\ req[r].pc = "record"
    BY <1>15 DEF RecordRollback, At, PCs
  <2>2. audit' \in SUBSET [by : Callers, target : Versions, previous : VersionOrNone]
    BY <1>1, <1>2, <1>15, <2>1 DEF RecordRollback, NamesVersion, PCs
  <2> QED
    BY <1>1, <1>15, <2>1, <2>2, Moved, HandlerPreserves DEF RecordRollback, NamesVersion, PCs
<1>16. CASE ReadHolder(r)
  <2>1. req[r].pc = "resident" /\ "answer" \in PCs /\ "active" \in PCs
    BY <1>16 DEF ReadHolder, At, PCs
  <2>2. CASE holder # None
    <3>1. req' = [req EXCEPT ![r].pc = "answer", ![r].version = holder]
      BY <1>16, <2>2 DEF ReadHolder
    <3>2. holder \in Versions
      BY <1>1, <2>2 DEF VersionOrNone
    <3>3. /\ req' \in [Callers -> Requests]
          /\ req'[r].pc = "answer" /\ req'[r].version = holder
          /\ \A q \in Callers \ {r} : req'[q] = req[q]
      BY <1>1, <2>1, <3>1, VersionNoted
    <3> QED
      BY <1>1, <1>16, <2>1, <3>2, <3>3, HandlerPreserves DEF ReadHolder
  <2>3. CASE holder = None
    <3>1. Move(r, "active")
      BY <1>16, <2>3 DEF ReadHolder
    <3> QED
      BY <1>1, <1>16, <2>1, <3>1, Moved, HandlerPreserves DEF ReadHolder, NamesVersion
  <2> QED
    BY <2>2, <2>3
<1>17. CASE ReadActive(r)
  <2>1. req[r].pc = "active" /\ "answer" \in PCs
    BY <1>17 DEF ReadActive, At, PCs
  <2>2. CASE Reply(r, "no_model")
    BY <1>1, <1>17, <2>1, <2>2, Replied, HandlerPreserves DEF ReadActive, NamesVersion, Results
  <2>3. CASE Reply(r, "predict_failed")
    BY <1>1, <1>17, <2>1, <2>3, Replied, HandlerPreserves DEF ReadActive, NamesVersion, Results
  <2>4. CASE /\ ActiveVersion \in Versions
             /\ req' = [req EXCEPT ![r].pc = "answer", ![r].version = ActiveVersion]
    <3>1. /\ req' \in [Callers -> Requests]
          /\ req'[r].pc = "answer" /\ req'[r].version = ActiveVersion
          /\ \A q \in Callers \ {r} : req'[q] = req[q]
      BY <1>1, <2>1, <2>4, ActiveVersionType, VersionNoted
    <3> QED
      BY <1>1, <1>17, <2>1, <2>4, <3>1, HandlerPreserves DEF ReadActive
  <2> QED
    BY <1>17, <2>2, <2>3, <2>4 DEF ReadActive
<1>18. CASE Answer(r)
  <2>1. req[r].pc = "answer" /\ "save" \in PCs
    BY <1>18 DEF Answer, At, PCs
  <2>2. req' = [req EXCEPT ![r].pc = "save", ![r].answer = req[r].version]
    BY <1>18 DEF Answer
  <2>3. /\ req' \in [Callers -> Requests]
        /\ req'[r].pc = "save" /\ req'[r].version = req[r].version
        /\ \A q \in Callers \ {r} : req'[q] = req[q]
    BY <1>1, <1>2, <2>1, <2>2, AnswerNoted
  <2> QED
    BY <1>1, <1>18, <2>1, <2>3, HandlerPreserves DEF Answer, NamesVersion, PCs
<1>19. CASE SavePrediction(r)
  <2>1. Reply(r, "predicted") /\ "predicted" \in Results /\ req[r].pc = "save"
    BY <1>19 DEF SavePrediction, At, Results
  <2> QED
    BY <1>1, <1>19, <2>1, Replied, HandlerPreserves DEF SavePrediction, NamesVersion
<1> QED
  BY <1>3, <1>4, <1>5, <1>6, <1>7, <1>8, <1>9, <1>10, <1>11, <1>12, <1>13, <1>14, <1>15, <1>16,
     <1>17, <1>18, <1>19 DEF Handler

\* The history variable is a version that some transaction brought, or what it was.
LEMMA ActivationRecorded ==
    ASSUME lastActivated \in VersionOrNone, NEW r \in Callers, RepoTypeOK', RecordActivation(r)
    PROVE  lastActivated' \in VersionOrNone
  BY DEF RecordActivation, RepoTypeOK, Transactions

\* Taking the lock, loading under it, and failing to load.
LEMMA LoadingPreserves ==
    ASSUME ActivationInv, NEW r \in Callers, Acquire(r) \/ Load(r) \/ LoadFails(r)
    PROVE  ProcessInv'
<1> USE DEF ActivationInv, Local, repoVars
<1>1. /\ req \in [Callers -> Requests] /\ (lock = r <=> Activating(r)) /\ RequestAgrees(r)
      /\ ResidentIsLastActivated
  BY DEF TypeOK, RequestsAgree
<1>2. UNCHANGED <<rows, tx, holder, bytes, tokens, audit, restarts, lastActivated>>
  BY DEF Acquire, Load, LoadFails
<1>3. ASSUME req[r].pc \in {"acquire", "load"}, lock \in {None, r}
      PROVE  holder = lastActivated
  <2>1. \A q \in Callers : ~SwapPending(q)
    BY <1>3, NoneIsNoCaller DEF RequestsAgree, Activating, SwapPending, At
  <2> QED
    BY <2>1 DEF ResidentIsLastActivated
<1>4. CASE Acquire(r)
  <2>1. Move(r, "load") /\ "load" \in PCs /\ req[r].pc = "acquire" /\ lock = None /\ lock' = r
    BY <1>4 DEF Acquire, At, PCs
  <2>2. /\ req' \in [Callers -> Requests] /\ req'[r].pc = "load" /\ req'[r].version = req[r].version
        /\ \A q \in Callers \ {r} : req'[q] = req[q]
    BY <1>1, <2>1, Moved
  <2>3. TypeOK'
    BY <1>2, <2>1, <2>2 DEF TypeOK, RepoTypeOK
  <2>4. Activating(r)' /\ ~SwapPending(r)'
    BY <2>2 DEF Activating, SwapPending, At
  <2>5. RequestAgrees(r)'
    BY <1>1, <1>2, <2>1, <2>2 DEF RequestAgrees, NamesVersion, PCs, At
  <2> QED
    BY <1>2, <1>3, <2>1, <2>2, <2>3, <2>4, <2>5, LockedStep DEF ProcessInv
<1>5. CASE Load(r)
  <2>1. Move(r, "persist") /\ "persist" \in PCs /\ req[r].pc = "load" /\ lock = r /\ lock' = r
    BY <1>1, <1>5 DEF Load, At, PCs, Activating
  <2>2. /\ req' \in [Callers -> Requests] /\ req'[r].pc = "persist"
        /\ req'[r].version = req[r].version
        /\ \A q \in Callers \ {r} : req'[q] = req[q]
    BY <1>1, <2>1, Moved
  <2>3. TypeOK'
    BY <1>2, <2>1, <2>2 DEF TypeOK, RepoTypeOK
  <2>4. Activating(r)' /\ ~SwapPending(r)'
    BY <2>2 DEF Activating, SwapPending, At
  <2>5. RequestAgrees(r)'
    BY <1>1, <1>2, <2>1, <2>2 DEF RequestAgrees, NamesVersion, PCs, At
  <2> QED
    BY <1>2, <1>3, <2>1, <2>2, <2>3, <2>4, <2>5, LockedStep DEF ProcessInv
<1>6. CASE LoadFails(r)
  <2>1. Reply(r, "load_failed") /\ "load_failed" \in Results /\ req[r].pc = "load" /\ lock = r
        /\ lock' = None
    BY <1>1, <1>6 DEF LoadFails, At, Results, Activating
  <2>2. /\ req' \in [Callers -> Requests] /\ req'[r].pc = "done"
        /\ \A q \in Callers \ {r} : req'[q] = req[q]
    BY <1>1, <2>1, Replied
  <2>3. TypeOK'
    BY <1>2, <2>1, <2>2 DEF TypeOK, RepoTypeOK
  <2>4. ~Activating(r)' /\ ~SwapPending(r)' /\ lock' # r
    BY <2>1, <2>2, NoneIsNoCaller DEF Activating, SwapPending, At
  <2>5. RequestAgrees(r)'
    BY <1>1, <1>2, <2>1, <2>2 DEF RequestAgrees, NamesVersion, At
  <2> QED
    BY <1>2, <1>3, <2>1, <2>2, <2>3, <2>4, <2>5, LockedStep DEF ProcessInv
<1> QED
  BY <1>4, <1>5, <1>6

\* The end of an activation: the swap, or the release of the lock alone.
LEMMA ActivationEnds ==
    ASSUME ActivationInv, NEW r \in Callers, Swap(r) \/ ActivationFails(r)
    PROVE  ProcessInv'
<1> USE DEF ActivationInv, repoVars
<1>1. /\ req \in [Callers -> Requests] /\ (lock = r <=> Activating(r)) /\ RequestAgrees(r)
      /\ tx[r] \in Transactions
  BY DEF TypeOK, RepoTypeOK, RequestsAgree
<1>2. UNCHANGED <<rows, tx, bytes, tokens, audit, restarts, lastActivated>>
      /\ req[r].pc = "transaction" /\ tx[r].op = "activate" /\ lock = r /\ lock' = None
      /\ tx[r].pc = "done"
  BY <1>1 DEF Swap, ActivationFails, At, Activating, RepoInv, TransactionsAgree, Won
<1>3. CASE Swap(r)
  <2>1. Move(r, "health") /\ "health" \in PCs /\ SwapPending(r) /\ holder' = tx[r].target
        /\ holder' \in VersionOrNone
    BY <1>1, <1>3 DEF Swap, PCs, SwapPending, Transactions
  <2>2. /\ req' \in [Callers -> Requests] /\ req'[r].pc = "health"
        /\ \A q \in Callers \ {r} : req'[q] = req[q]
    BY <1>1, <2>1, Moved
  <2>3. TypeOK'
    BY <1>2, <2>1, <2>2 DEF TypeOK, RepoTypeOK
  <2>4. ~Activating(r)' /\ ~SwapPending(r)' /\ lock' # r
    BY <1>2, <2>2, NoneIsNoCaller DEF Activating, SwapPending, At
  <2>5. RequestAgrees(r)'
    BY <1>1, <1>2, <2>2 DEF RequestAgrees, NamesVersion, At
  <2>6. holder' = lastActivated'
    BY <1>2, <2>1 DEF ResidentIsLastActivated
  <2> QED
    BY <1>2, <2>2, <2>3, <2>4, <2>5, <2>6, LockedStep DEF ProcessInv
<1>4. CASE ActivationFails(r)
  <2>1. Reply(r, tx[r].outcome) /\ tx[r].outcome \in Results /\ ~SwapPending(r) /\ holder' = holder
    BY <1>1, <1>4 DEF ActivationFails, Results, SwapPending, Transactions
  <2>2. /\ req' \in [Callers -> Requests] /\ req'[r].pc = "done"
        /\ \A q \in Callers \ {r} : req'[q] = req[q]
    BY <1>1, <2>1, Replied
  <2>3. TypeOK'
    BY <1>2, <2>1, <2>2 DEF TypeOK, RepoTypeOK
  <2>4. ~Activating(r)' /\ ~SwapPending(r)' /\ lock' # r
    BY <1>2, <2>2, NoneIsNoCaller DEF Activating, SwapPending, At
  <2>5. RequestAgrees(r)'
    BY <1>1, <1>2, <2>2 DEF RequestAgrees, NamesVersion, At
  <2>6. holder' = lastActivated'
    <3>1. \A q \in Callers : ~SwapPending(q)
      BY <1>2, <2>1 DEF RequestsAgree, Activating, SwapPending
    <3> QED
      BY <1>2, <2>1, <3>1 DEF ResidentIsLastActivated
  <2> QED
    BY <1>2, <2>2, <2>3, <2>4, <2>5, <2>6, LockedStep DEF ProcessInv
<1> QED
  BY <1>3, <1>4

\* activate() opens its transaction, and may be answered by its first statement.
LEMMA PersistPreserves ==
    ASSUME ActivationInv, RepoTypeOK', NEW r \in Callers, Persist(r)
    PROVE  ProcessInv'
<1> USE DEF ActivationInv
<1>1. /\ req \in [Callers -> Requests] /\ (lock = r <=> Activating(r)) /\ RequestAgrees(r)
      /\ lastActivated \in VersionOrNone
  BY DEF TypeOK, RequestsAgree
<1>2. /\ Move(r, "transaction") /\ "transaction" \in PCs /\ req[r].pc = "persist" /\ lock = r
      /\ UNCHANGED <<holder, lock, bytes, tokens, audit, restarts>>
  BY <1>1 DEF Persist, At, PCs, Activating
<1>3. /\ req' \in [Callers -> Requests] /\ req'[r].pc = "transaction"
      /\ req'[r].version = req[r].version
      /\ \A q \in Callers \ {r} : req'[q] = req[q]
  BY <1>1, <1>2, Moved
<1>4. /\ tx'[r].op = "activate" /\ tx'[r].pc # "idle"
      /\ \A q \in Callers \ {r} : tx'[q] = tx[q]
  <2>1. PICK pc \in {"done", "check", "update"}, o \in Outcomes :
           Select(r, "activate", req[r].version, req[r].expected, pc, o)
    BY DEF Persist, BeginActivate, Outcomes
  <2> QED
    BY <2>1, Selected DEF TypeOK
<1>5. TypeOK'
  BY <1>1, <1>2, <1>3, ActivationRecorded DEF TypeOK, Persist
<1>6. Activating(r)'
  BY <1>3, <1>4 DEF Activating, At
<1>7. RequestAgrees(r)'
  BY <1>1, <1>2, <1>3, <1>4 DEF RequestAgrees, NamesVersion, PCs, At
<1>8. SwapPending(r)' => tx'[r].target = lastActivated'
  BY <1>4 DEF SwapPending, Persist, RecordActivation
<1>9. ~SwapPending(r)' => holder' = lastActivated'
  <2>1. \A q \in Callers : ~SwapPending(q)
    BY <1>2 DEF RequestsAgree, Activating, SwapPending, At
  <2>2. ~SwapPending(r)' => lastActivated' = lastActivated
    BY <1>3, <1>4 DEF SwapPending, Persist, RecordActivation, At
  <2> QED
    BY <1>2, <2>1, <2>2 DEF ResidentIsLastActivated
<1> QED
  BY <1>2, <1>3, <1>4, <1>5, <1>6, <1>7, <1>8, <1>9, LockedStep DEF ProcessInv

\* The statements of a transaction, and its failure.
LEMMA TransactionPreserves ==
    ASSUME ActivationInv, RepoTypeOK', NEW r \in Callers, DatabaseStep(r) \/ DatabaseError(r)
    PROVE  ProcessInv'
<1> USE DEF ActivationInv
<1>1. /\ req \in [Callers -> Requests] /\ (lock = r <=> Activating(r)) /\ RequestAgrees(r)
      /\ lastActivated \in VersionOrNone
  BY DEF TypeOK, RequestsAgree
<1>2. /\ UNCHANGED <<holder, lock, bytes, tokens, audit, req, restarts>>
      /\ req[r].pc = "transaction"
  BY DEF DatabaseStep, DatabaseError, processVars, At
<1>3. /\ tx[r].pc \notin {"idle", "done"} /\ tx'[r].pc # "idle"
      /\ tx'[r].op = tx[r].op /\ tx'[r].target = tx[r].target
      /\ \A q \in Callers \ {r} : tx'[q] = tx[q]
  BY StatementRuns DEF DatabaseStep, DatabaseError, TypeOK
<1>4. ~SwapPending(r)
  BY <1>3 DEF SwapPending, RepoInv, TransactionsAgree, Won
<1>5. /\ lastActivated' = IF tx'[r].op = "activate" /\ tx'[r].outcome \in Won
                          THEN tx'[r].target ELSE lastActivated
      /\ lastActivated' \in VersionOrNone
  <2>1. CASE DatabaseStep(r)
    BY <1>1, <2>1, ActivationRecorded DEF DatabaseStep, RecordActivation
  <2>2. CASE DatabaseError(r)
    <3>1. tx'[r].outcome = "aborted"
      BY <2>2, FailureAborts DEF DatabaseError, TypeOK
    <3>2. lastActivated' = lastActivated
      BY <2>2 DEF DatabaseError, processVars
    <3> QED
      BY <1>1, <3>1, <3>2 DEF Won
  <2> QED
    BY <2>1, <2>2
<1>6. TypeOK'
  BY <1>2, <1>5 DEF TypeOK
<1>7. RequestAgrees(r)'
  BY <1>1, <1>2, <1>3 DEF RequestAgrees, At
<1>8. CASE tx[r].op = "activate"
  <2>1. lock = r /\ Activating(r)'
    BY <1>1, <1>2, <1>3, <1>8 DEF Activating, At
  <2>2. \A q \in Callers : ~SwapPending(q)
    BY <1>4, <2>1 DEF RequestsAgree, Activating, SwapPending
  <2>3. /\ SwapPending(r)' => tx'[r].target = lastActivated'
        /\ ~SwapPending(r)' => holder' = lastActivated'
    BY <1>2, <1>3, <1>5, <1>8, <2>2 DEF SwapPending, At, ResidentIsLastActivated
  <2> QED
    BY <1>2, <1>3, <1>6, <1>7, <2>1, <2>3, LockedStep DEF ProcessInv
<1>9. CASE tx[r].op # "activate"
  <2>1. ~Activating(r) /\ ~Activating(r)' /\ lastActivated' = lastActivated
    BY <1>2, <1>3, <1>5, <1>9 DEF Activating, At
  <2> QED
    BY <1>2, <1>3, <1>6, <1>7, <2>1, QuietStep DEF ProcessInv
<1> QED
  BY <1>8, <1>9

\* The promotion path runs its transaction without the lock, and ends without a swap.
LEMMA PromotionPreserves ==
    ASSUME ActivationInv, RepoTypeOK', NEW r \in Callers, PromoteBegins(r) \/ PromoteEnds(r)
    PROVE  ProcessInv'
<1> USE DEF ActivationInv
<1>1. /\ req \in [Callers -> Requests] /\ (lock = r <=> Activating(r)) /\ RequestAgrees(r)
      /\ tx[r] \in Transactions
  BY DEF TypeOK, RepoTypeOK, RequestsAgree
<1>2. CASE PromoteBegins(r)
  <2>1. /\ Move(r, "transaction") /\ "transaction" \in PCs /\ req[r].pc = "promote"
        /\ UNCHANGED <<holder, lock, bytes, tokens, audit, restarts, lastActivated>>
    BY <1>2 DEF PromoteBegins, At, PCs
  <2>2. /\ req' \in [Callers -> Requests] /\ req'[r].pc = "transaction"
        /\ req'[r].version = req[r].version
        /\ \A q \in Callers \ {r} : req'[q] = req[q]
    BY <1>1, <2>1, Moved
  <2>3. /\ tx'[r].op = "promote" /\ tx'[r].pc # "idle"
        /\ \A q \in Callers \ {r} : tx'[q] = tx[q]
    <3>1. PICK pc \in {"done", "scan"}, o \in Outcomes :
             Select(r, "promote", req[r].version, None, pc, o)
      BY <1>2 DEF PromoteBegins, BeginPromote, Outcomes
    <3> QED
      BY <3>1, Selected DEF TypeOK
  <2>4. TypeOK'
    BY <2>1, <2>2 DEF TypeOK
  <2>5. ~Activating(r) /\ ~Activating(r)'
    BY <2>1, <2>2, <2>3 DEF Activating, At
  <2>6. RequestAgrees(r)'
    BY <1>1, <2>1, <2>2, <2>3 DEF RequestAgrees, NamesVersion, PCs, At
  <2> QED
    BY <2>1, <2>2, <2>3, <2>4, <2>5, <2>6, QuietStep DEF ProcessInv
<1>3. CASE PromoteEnds(r)
  <2>1. /\ Reply(r, tx[r].outcome) /\ tx[r].outcome \in Results
        /\ req[r].pc = "transaction" /\ tx[r].op = "promote" /\ tx[r].pc = "done"
        /\ UNCHANGED <<rows, tx, holder, lock, bytes, tokens, audit, restarts, lastActivated>>
    BY <1>1, <1>3 DEF PromoteEnds, At, Local, repoVars, Results, Transactions
  <2>2. /\ req' \in [Callers -> Requests] /\ req'[r].pc = "done"
        /\ \A q \in Callers \ {r} : req'[q] = req[q]
    BY <1>1, <2>1, Replied
  <2>3. TypeOK'
    BY <2>1, <2>2 DEF TypeOK
  <2>4. ~Activating(r) /\ ~Activating(r)'
    BY <2>1, <2>2 DEF Activating, At
  <2>5. RequestAgrees(r)'
    BY <2>1, <2>2 DEF RequestAgrees, NamesVersion, At
  <2> QED
    BY <2>1, <2>2, <2>3, <2>4, <2>5, QuietStep DEF ProcessInv
<1> QED
  BY <1>2, <1>3

\* A restart ends every request, empties the holder and frees the lock.
LEMMA RestartPreserves ==
    ASSUME ActivationInv, RepoTypeOK', Restart
    PROVE  ProcessInv'
<1> USE DEF ActivationInv
<1> DEFINE Lost(q) == [req[q] EXCEPT !.pc = "done", !.result = "lost"]
<1>1. /\ req \in [Callers -> Requests] /\ tx \in [Callers -> Transactions]
      /\ \A q \in Callers : RequestAgrees(q)
  BY DEF TypeOK, RepoTypeOK, RequestsAgree
<1>2. \A q \in Callers : Lost(q) \in Requests /\ Lost(q).pc = "done"
  BY <1>1 DEF Requests, PCs, Results
<1>3. req' = [q \in Callers |-> IF UnderWay(q) THEN Lost(q) ELSE req[q]]
  BY DEF Restart
<1> HIDE DEF Lost
<1>4. /\ req' \in [Callers -> Requests]
      /\ \A q \in Callers : req'[q].pc = "done" \/ (req'[q] = req[q] /\ req[q].pc = "idle")
  BY <1>1, <1>2, <1>3 DEF UnderWay
<1>5. \A q \in Callers : tx'[q].pc \in {"idle", "done"} /\ (tx[q].pc = "idle" => tx'[q] = tx[q])
  <2>1. CASE Abort(InFlight)
    BY <1>1, <2>1 DEF Abort, InFlight, Transactions
  <2>2. CASE InFlight = {} /\ UNCHANGED repoVars
    BY <2>2 DEF InFlight, repoVars
  <2> QED
    BY <2>1, <2>2 DEF Restart
<1>6. /\ holder' = None /\ lock' = None /\ tokens' = {} /\ lastActivated' = None
      /\ UNCHANGED <<bytes, audit>>
      /\ restarts' = restarts + 1 /\ restarts < MaxRestarts
  BY DEF Restart
<1>7. TypeOK'
  BY <1>4, <1>6, RestartsAreCounted DEF TypeOK, VersionOrNone
<1>8. \A q \in Callers : ~Activating(q)' /\ ~SwapPending(q)' /\ RequestAgrees(q)'
  BY <1>1, <1>4, <1>5 DEF Activating, SwapPending, RequestAgrees, NamesVersion, At
<1> QED
  BY <1>6, <1>7, <1>8, NoneIsNoCaller DEF ProcessInv, RequestsAgree, ResidentIsLastActivated

-----------------------------------------------------------------------------
(* The process runs the repository, and keeps its own invariant.           *)

\* Every step of the process is a step of the repository, or leaves it alone.
LEMMA StepRunsRepository == ActivationInv /\ [Next]_vars => [RepoNext]_repoVars
<1> SUFFICES ASSUME ActivationInv, [Next]_vars PROVE [RepoNext]_repoVars
  OBVIOUS
<1> USE DEF ActivationInv
<1>1. \A r \in Callers : RequestAgrees(r) /\ req[r].expected \in VersionOrNone
  BY DEF TypeOK, RequestsAgree, Requests
<1>2. CASE UNCHANGED vars
  BY <1>2 DEF vars, repoVars
<1>3. ASSUME NEW v \in Versions, Train(v) PROVE RepoNext
  BY <1>3 DEF Train, RepoNext
<1>4. CASE Start
  BY <1>4 DEF Start, StartUpload, StartWeb, StartRest, StartMcp, StartPrediction, Begin
<1>5. ASSUME NEW r \in Callers, Handler(r), ~UploadRegisters(r) PROVE UNCHANGED repoVars
  BY <1>5 DEF Handler, UploadRejected, UploadWrites, UploadStored, Route, PromoteGet, Lookup,
     ReadPackage, ReadExpected, HealthCheck, Preview, Confirm, RecordRollback, ReadHolder,
     ReadActive, Answer, SavePrediction, Local
<1>6. ASSUME NEW r \in Callers, UploadRegisters(r) PROVE [RepoNext]_repoVars
  BY <1>1, <1>6 DEF UploadRegisters, RequestAgrees, NamesVersion, PCs, At, RepoNext
<1>7. ASSUME NEW r \in Callers, Acquire(r) \/ Load(r) \/ LoadFails(r) \/ Swap(r)
                                \/ ActivationFails(r) \/ PromoteEnds(r)
      PROVE  UNCHANGED repoVars
  BY <1>7 DEF Acquire, Load, LoadFails, Swap, ActivationFails, PromoteEnds, Local
<1>8. ASSUME NEW r \in Callers, Persist(r) PROVE RepoNext
  BY <1>1, <1>8 DEF Persist, RequestAgrees, NamesVersion, PCs, At, RepoNext
<1>9. ASSUME NEW r \in Callers, PromoteBegins(r) PROVE RepoNext
  BY <1>1, <1>9 DEF PromoteBegins, RequestAgrees, NamesVersion, PCs, At, RepoNext
<1>10. ASSUME NEW r \in Callers, DatabaseStep(r) PROVE RepoNext
  BY <1>10 DEF DatabaseStep, RepoNext
<1>11. ASSUME NEW r \in Callers, DatabaseError(r) PROVE RepoNext
  BY <1>11 DEF DatabaseError, RepoNext
<1>12. CASE Restart
  BY <1>12 DEF Restart, RepoNext, InFlight
<1> QED
  BY <1>2, <1>3, <1>4, <1>5, <1>6, <1>7, <1>8, <1>9, <1>10, <1>11, <1>12
     DEF Next, Proceed, Handler

\* The empty database and the process just started satisfy the invariant.
LEMMA ActivationInitInv == Init => ActivationInv
<1> SUFFICES ASSUME Init PROVE ActivationInv
  OBVIOUS
<1>1. RepoInv
  BY RepoInitInv DEF Init
<1>2. TypeOK
  BY <1>1, RestartsAreCounted DEF Init, RepoInv, TypeOK, VersionOrNone, NoRequest, Requests, PCs,
     Results
<1>3. RequestsAgree
  BY NoneIsNoCaller DEF Init, RepoInit, RequestsAgree, RequestAgrees, NamesVersion, PCs, At,
     Activating, NoRequest, NoTransaction
<1>4. ResidentIsLastActivated
  BY DEF Init, RepoInit, ResidentIsLastActivated, SwapPending, NoRequest, At
<1> QED
  BY <1>1, <1>2, <1>3, <1>4 DEF ActivationInv

\* Every step of the process preserves the invariant.
LEMMA ActivationNextInv == ActivationInv /\ [Next]_vars => ActivationInv'
<1> SUFFICES ASSUME ActivationInv, [Next]_vars PROVE ActivationInv'
  OBVIOUS
<1>1. RepoInv' /\ RepoTypeOK'
  BY StepRunsRepository, RepoNextInv DEF ActivationInv, RepoInv
<1>2. CASE UNCHANGED vars
  BY <1>1, <1>2 DEF vars, ActivationInv, TypeOK, RequestsAgree, RequestAgrees, Activating, At,
     ResidentIsLastActivated, SwapPending
<1>3. ASSUME NEW v \in Versions, Train(v) PROVE ProcessInv'
  BY <1>1, <1>3 DEF Train, Create, processVars, ProcessInv, ActivationInv, TypeOK, RequestsAgree,
     RequestAgrees, Activating, At, ResidentIsLastActivated, SwapPending
<1>4. ASSUME Start PROVE ProcessInv'
  BY <1>4, StartPreserves
<1>5. ASSUME NEW r \in Callers, Proceed(r) \/ DatabaseError(r) PROVE ProcessInv'
  <2>1. CASE Handler(r)
    BY <1>1, <2>1, HandlerStep
  <2>2. CASE Acquire(r) \/ Load(r) \/ LoadFails(r)
    BY <2>2, LoadingPreserves
  <2>3. CASE Swap(r) \/ ActivationFails(r)
    BY <2>3, ActivationEnds
  <2>4. CASE Persist(r)
    BY <1>1, <2>4, PersistPreserves
  <2>5. CASE DatabaseStep(r) \/ DatabaseError(r)
    BY <1>1, <2>5, TransactionPreserves
  <2>6. CASE PromoteBegins(r) \/ PromoteEnds(r)
    BY <1>1, <2>6, PromotionPreserves
  <2> QED
    BY <1>5, <2>1, <2>2, <2>3, <2>4, <2>5, <2>6 DEF Proceed, Handler
<1>6. ASSUME Restart PROVE ProcessInv'
  BY <1>1, <1>6, RestartPreserves
<1>7. CASE Next
  BY <1>1, <1>3, <1>4, <1>5, <1>6, <1>7 DEF Next, ProcessInv, ActivationInv
<1> QED
  BY <1>2, <1>7

\* The invariant of the serving process, through every interleaving of
\* requests, failure of the database and restart.
THEOREM ActivationInvariant == Spec => []ActivationInv
<1> QED
  BY ActivationInitInv, ActivationNextInv, PTL DEF Spec

\* The resident model is the one the database last confirmed: the swap follows
\* its commit with nothing in between (model_activation.py:189-205).
THEOREM ResidentModelFollowsTheDatabase == Spec => []ResidentIsLastActivated
<1>1. ActivationInv => ResidentIsLastActivated
  BY DEF ActivationInv
<1> QED
  BY <1>1, ActivationInvariant, PTL

\* The activation lock admits one request to the sequence at a time.
THEOREM OneActivation == Spec => []OneActivationAtATime
<1>1. ActivationInv => OneActivationAtATime
  BY DEF ActivationInv, RequestsAgree, OneActivationAtATime
<1> QED
  BY <1>1, ActivationInvariant, PTL

\* The process uses the table only through the repository's transactions.
THEOREM ProcessRunsRepository == Spec => RepoSpec
<1>1. Init => RepoInit
  BY DEF Init
<1> QED
  BY <1>1, ActivationInvariant, StepRunsRepository, PTL DEF Spec, RepoSpec

\* So the process never has two active versions (ux_model_versions_one_active).
THEOREM OneActiveInTheProcess == Spec => []AtMostOneActive
  BY ProcessRunsRepository, OneActiveVersion, PTL

-----------------------------------------------------------------------------
(* What the finished requests, the audit trail and the table remember.     *)

Agent(r) == req[r].kind \in {"mcp_activate", "mcp_rollback"}

BeenActive(v) == v \in Versions /\ rows[v].promotedAt

\* q answered what op would do to version v while e was active.
Previews(q, op, v, e) ==
    /\ req[q].result = "confirmation_required" /\ req[q].kind = op
    /\ req[q].version = v /\ req[q].seen = e

PreviewedByAnother(r, op, v, e) == \E q \in Callers \ {r} : Previews(q, op, v, e)

Recorded(r, v) == \E entry \in audit : entry.by = r /\ entry.target = v

\* A prediction serves a version that has been active, from the moment it has
\* one, and answers with that version.
PredictionAgrees(r) ==
    /\ req[r].pc \in {"resident", "active", "answer", "save"} => req[r].kind = "predict"
    /\ req[r].pc \in {"answer", "save"} => BeenActive(req[r].version)
    /\ At(r, "save") => req[r].answer = req[r].version
    /\ req[r].result = "predicted" =>
          req[r].answer = req[r].version /\ BeenActive(req[r].version)

\* An agent's request past its confirmation was previewed by another request
\* for the same operation, version and active version; a rollback past its
\* record has one.
AgentAgrees(r) ==
    /\ req[r].token # NoToken =>
          PreviewedByAnother(r, req[r].token.op, req[r].token.version, req[r].token.expected)
    /\ Agent(r) /\ req[r].pc \notin {"idle", "confirm", "done"} =>
          PreviewedByAnother(r, req[r].kind, req[r].version, req[r].seen)
    /\ Agent(r) /\ tx[r].op # "none" =>
          PreviewedByAnother(r, req[r].kind, tx[r].target, req[r].seen)
    /\ req[r].kind = "mcp_rollback" /\ req[r].pc \notin {"idle", "confirm", "record", "done"} =>
          Recorded(r, req[r].version)
    /\ req[r].kind = "mcp_rollback" /\ tx[r].op # "none" => Recorded(r, tx[r].target)

\* What the history says of one request.
Remembers(r) ==
    /\ req[r].result # "none" => At(r, "done")
    /\ tx[r].outcome \in Won => BeenActive(tx[r].target)
    /\ PredictionAgrees(r)
    /\ AgentAgrees(r)

\* The strengthening behind the attribution of predictions, the confirmation
\* of changes and the record of rollbacks.
HistoryInv ==
    /\ \A r \in Callers : Remembers(r)
    /\ \A t \in tokens : \E q \in Callers : Previews(q, t.op, t.version, t.expected)
    /\ holder # None => BeenActive(holder)
    /\ lastActivated # None => BeenActive(lastActivated)

\* promoted_at is never cleared.
LEMMA PromotedAtKept ==
    ASSUME RepoInv, [RepoNext]_repoVars, NEW v \in Versions, rows[v].promotedAt
    PROVE  rows'[v].promotedAt
<1>1. rows \in [Versions -> Rows]
  BY DEF RepoInv, RepoTypeOK
<1>2. ASSUME NEW c \in Callers, Write(c) PROVE rows'[v].promotedAt
  BY <1>2 DEF Write, RowAfter
<1>3. ASSUME NEW w \in Versions, Create(w) PROVE rows'[v].promotedAt
  BY <1>1, <1>3 DEF Create, Rows
<1>4. ASSUME UNCHANGED rows PROVE rows'[v].promotedAt
  BY <1>4
<1>5. ASSUME NEW c \in Callers, NEW w \in Versions, BeginPromote(c, w) PROVE UNCHANGED rows
  BY <1>5 DEF BeginPromote, Select
<1>6. ASSUME NEW c \in Callers, NEW w \in Versions, NEW e \in VersionOrNone, BeginActivate(c, w, e)
      PROVE  UNCHANGED rows
  BY <1>6 DEF BeginActivate, Select
<1>7. ASSUME NEW c \in Callers, Statement(c) \/ CommitUnacknowledged(c)
      PROVE  UNCHANGED rows \/ Write(c)
  BY <1>7 DEF Statement, PromoteScan, PromoteRetire, ActivateCheckNone, ActivateRetire, Goto,
     LockTarget, FlushAndCommit, FlushRefused, DeadlockVictim, CommitUnacknowledged
<1>8. ASSUME NEW S \in SUBSET Callers, Abort(S) PROVE UNCHANGED rows
  BY <1>8 DEF Abort
<1> QED
  BY <1>2, <1>3, <1>4, <1>5, <1>6, <1>7, <1>8 DEF RepoNext, repoVars

\* A transaction that won leaves its target stamped.
LEMMA WinnerIsStamped ==
    ASSUME RepoInv, NEW c \in Callers, Statement(c), tx'[c].outcome \in Won
    PROVE  tx[c].target \in Versions /\ rows'[tx[c].target].promotedAt
<1>1. tx \in [Callers -> Transactions] /\ tx[c] \in Transactions
  BY DEF RepoInv, RepoTypeOK
<1>2. tx[c].pc \notin {"idle", "done"} /\ tx[c].outcome = "none" /\ tx[c].target \in Versions
  BY StatementRuns DEF RepoInv, TransactionsAgree
<1>3. CASE \/ PromoteScan(c) \/ PromoteRetire(c) \/ ActivateCheckNone(c) \/ ActivateRetire(c)
           \/ LockTarget(c)
  <2>1. tx'[c].outcome \in {"none", "conflict"}
    BY <1>1, <1>2, <1>3 DEF PromoteScan, PromoteRetire, ActivateCheckNone, ActivateRetire,
       LockTarget, Goto, Finish, Transactions
  <2> QED
    BY <2>1 DEF Won
<1>4. CASE FlushAndCommit(c)
  BY <1>2, <1>4 DEF FlushAndCommit, Write, RowAfter
<1>5. CASE FlushRefused(c)
  <2>1. tx'[c].outcome \in {"integrity_error", "conflict"}
    BY <1>1, <1>5 DEF FlushRefused, Finish, Transactions
  <2> QED
    BY <2>1 DEF Won
<1>6. CASE DeadlockVictim(c)
  <2>1. tx'[c].outcome = "aborted"
    BY <1>1, <1>6 DEF DeadlockVictim, Finish, Transactions
  <2> QED
    BY <2>1 DEF Won
<1> QED
  BY <1>3, <1>4, <1>5, <1>6 DEF Statement

\* A request that has not reached its transaction has none.
LEMMA NoTransactionYet ==
    ASSUME ActivationInv, NEW r \in Callers, req[r].pc \notin {"transaction", "health", "done"}
    PROVE  tx[r].op = "none" /\ tx[r].outcome = "none"
<1>1. tx[r].pc = "idle"
  BY DEF ActivationInv, RequestsAgree, RequestAgrees
<1> QED
  BY <1>1 DEF ActivationInv, RepoInv, TransactionsAgree, NoTransaction

\* The facts no step takes back: stamps, audit entries, finished requests.
Kept ==
    /\ \A v \in Versions : rows[v].promotedAt => rows'[v].promotedAt
    /\ audit \subseteq audit'
    /\ \A q \in Callers : req[q].result # "none" => req'[q] = req[q]

\* So a request whose own records a step leaves alone is remembered as it was.
LEMMA BystandersRemember ==
    ASSUME Kept, NEW r \in Callers, Remembers(r), req'[r] = req[r],
           tx'[r] = tx[r]
    PROVE  Remembers(r)'
<1>1. \A op, v, e : PreviewedByAnother(r, op, v, e) => PreviewedByAnother(r, op, v, e)'
  BY DEF Kept, PreviewedByAnother, Previews
<1>2. \A v : BeenActive(v) => BeenActive(v)'
  BY DEF Kept, BeenActive
<1>3. \A v : Recorded(r, v) => Recorded(r, v)'
  BY DEF Kept, Recorded
<1>4. PredictionAgrees(r)'
  BY <1>2 DEF Remembers, PredictionAgrees, At
<1>5. AgentAgrees(r)'
  BY <1>1, <1>3 DEF Remembers, AgentAgrees, Agent
<1> QED
  BY <1>2, <1>4, <1>5 DEF Remembers, At

\* A step of one request leaves the history of the others as it was.
LEMMA OneRequestMoves ==
    ASSUME HistoryInv, [RepoNext]_repoVars, RepoInv, NEW r \in Callers,
           ~At(r, "done"), audit \subseteq audit',
           \A q \in Callers \ {r} : req'[q] = req[q] /\ tx'[q] = tx[q],
           Kept => Remembers(r)',
           \A t \in tokens' \ tokens : Previews(r, t.op, t.version, t.expected)',
           holder' # holder => BeenActive(holder)',
           lastActivated' # lastActivated => BeenActive(lastActivated)'
    PROVE  HistoryInv'
<1>1. Kept
  BY PromotedAtKept DEF Kept, HistoryInv, Remembers
<1>2. \A q \in Callers : Remembers(q)'
  BY <1>1, BystandersRemember DEF HistoryInv
<1>3. \A t \in tokens' : \E q \in Callers : Previews(q, t.op, t.version, t.expected)'
  BY <1>1 DEF HistoryInv, Previews, Kept
<1>4. \A v : BeenActive(v) => BeenActive(v)'
  BY <1>1 DEF Kept, BeenActive
<1> QED
  BY <1>2, <1>3, <1>4 DEF HistoryInv

\* What Kept preserves for the request that moves.
LEMMA KeptForMover ==
    ASSUME Kept, NEW r \in Callers
    PROVE  /\ \A op, v, e : PreviewedByAnother(r, op, v, e) => PreviewedByAnother(r, op, v, e)'
           /\ \A v : BeenActive(v) => BeenActive(v)'
           /\ \A v : Recorded(r, v) => Recorded(r, v)'
  BY DEF Kept, PreviewedByAnother, Previews, BeenActive, Recorded

\* A request that moves on, keeping what it was asked, is remembered as before.
LEMMA MoveRemembers ==
    ASSUME Kept, NEW r \in Callers, Remembers(r), tx'[r] = tx[r],
           req'[r].kind = req[r].kind, req'[r].version = req[r].version,
           req'[r].token = req[r].token /\ req'[r].seen = req[r].seen, req'[r].result = req[r].result,
           req[r].pc \notin {"idle", "confirm", "record", "done"},
           req'[r].pc \notin {"confirm", "save", "answer"},
           req'[r].pc \in {"resident", "active"} => req[r].pc = "resident"
    PROVE  Remembers(r)'
<1>1. req[r].result = "none"
  BY DEF Remembers, At
<1>2. PredictionAgrees(r)'
  BY <1>1 DEF Remembers, PredictionAgrees, At
<1>3. AgentAgrees(r)'
  BY KeptForMover DEF Remembers, AgentAgrees, Agent
<1> QED
  BY <1>1, <1>2, <1>3, KeptForMover DEF Remembers

\* A request that ends with any answer but a prediction is remembered too.
LEMMA ReplyRemembers ==
    ASSUME Kept, NEW r \in Callers, Remembers(r), tx'[r] = tx[r],
           req'[r].kind = req[r].kind, req'[r].version = req[r].version,
           req'[r].token = req[r].token /\ req'[r].seen = req[r].seen, req'[r].pc = "done", req'[r].result # "predicted"
    PROVE  Remembers(r)'
<1>1. PredictionAgrees(r)'
  BY DEF PredictionAgrees, At
<1>2. AgentAgrees(r)'
  BY KeptForMover DEF Remembers, AgentAgrees, Agent
<1> QED
  BY <1>1, <1>2, KeptForMover DEF Remembers, At

\* A handler's step that changes neither the confirmations nor the process.
LEMMA QuietHistory ==
    ASSUME ActivationInv, HistoryInv, [RepoNext]_repoVars, NEW r \in Callers,
           UNCHANGED <<tx, holder, tokens, lastActivated>>, audit \subseteq audit',
           ~At(r, "done"), \A q \in Callers \ {r} : req'[q] = req[q],
           Kept => Remembers(r)'
    PROVE  HistoryInv'
  BY OneRequestMoves DEF ActivationInv

\* ... when it moves on without changing what was asked.
LEMMA MoveHistory ==
    ASSUME ActivationInv, HistoryInv, [RepoNext]_repoVars, NEW r \in Callers, NEW pc \in PCs,
           UNCHANGED <<tx, holder, audit, tokens, lastActivated>>,
           req[r].pc \notin {"idle", "confirm", "record", "done"},
           pc \notin {"confirm", "save", "answer"},
           pc \in {"resident", "active"} => req[r].pc = "resident",
           Move(r, pc)
    PROVE  HistoryInv'
<1>1. req \in [Callers -> Requests]
  BY DEF ActivationInv, TypeOK
<1> QED
  BY <1>1, Moved, MoveRemembers, QuietHistory DEF HistoryInv, At

\* ... or when it ends the request, with any answer but a prediction.
LEMMA ReplyHistory ==
    ASSUME ActivationInv, HistoryInv, [RepoNext]_repoVars, NEW r \in Callers, NEW o \in Results,
           UNCHANGED <<tx, holder, audit, tokens, lastActivated>>,
           ~At(r, "done"), o # "predicted", Reply(r, o)
    PROVE  HistoryInv'
<1>1. req \in [Callers -> Requests]
  BY DEF ActivationInv, TypeOK
<1> QED
  BY <1>1, Replied, ReplyRemembers, QuietHistory DEF HistoryInv

\* A request that begins has a confirmation to show for its token.
LEMMA BeginHistory ==
    ASSUME ActivationInv, HistoryInv, [RepoNext]_repoVars, NEW r \in Callers, NEW kind, NEW v,
           NEW pc \in {"validate", "route", "promote_get", "confirm", "resident"},
           NEW t \in tokens \cup {NoToken},
           pc = "resident" => kind = "predict",
           pc = "confirm" \/ kind \notin {"mcp_activate", "mcp_rollback"},
           Begin(r, kind, pc, v, t)
    PROVE  HistoryInv'
<1> DEFINE n == [NoRequest EXCEPT !.kind = kind, !.pc = pc, !.version = v, !.token = t]
<1>1. n.kind = kind /\ n.pc = pc /\ n.token = t /\ n.result = "none"
  BY DEF NoRequest
<1>2. req' = [req EXCEPT ![r] = n] /\ req \in [Callers -> Requests] /\ req[r].pc = "idle"
  BY DEF Begin, ActivationInv, TypeOK, At
<1> HIDE DEF n
<1>3. req'[r] = n /\ \A q \in Callers \ {r} : req'[q] = req[q]
  BY <1>2
<1>4. UNCHANGED <<tx, holder, tokens, audit, lastActivated>>
  BY DEF Begin, repoVars
<1>5. tx'[r].op = "none" /\ tx'[r].outcome = "none"
  BY <1>2, <1>4, NoTransactionYet
<1>6. t # NoToken => PreviewedByAnother(r, t.op, t.version, t.expected)
  <2>1. ASSUME NEW q \in Callers, Previews(q, t.op, t.version, t.expected) PROVE q # r
    BY <1>2, <2>1 DEF HistoryInv, Remembers, Previews, At
  <2> QED
    BY <2>1 DEF HistoryInv, PreviewedByAnother
<1>7. ASSUME Kept PROVE Remembers(r)'
  <2>1. PredictionAgrees(r)'
    BY <1>1, <1>3 DEF PredictionAgrees, At
  <2>2. AgentAgrees(r)'
    BY <1>1, <1>3, <1>5, <1>6, <1>7, KeptForMover DEF AgentAgrees, Agent
  <2> QED
    BY <1>1, <1>3, <1>5, <2>1, <2>2 DEF Remembers, Won
<1> QED
  BY <1>2, <1>3, <1>4, <1>7, QuietHistory DEF At

\* Every kind of request that starts is one of those.
LEMMA StartHistory ==
    ASSUME ActivationInv, HistoryInv, [RepoNext]_repoVars, Start
    PROVE  HistoryInv'
<1>1. ASSUME NEW r \in Callers, NEW v \in Versions, StartUpload(r, v) PROVE HistoryInv'
  BY <1>1, BeginHistory DEF StartUpload
<1>2. ASSUME NEW r \in Callers, NEW v \in Versions, StartWeb(r, v) PROVE HistoryInv'
  BY <1>2, BeginHistory DEF StartWeb
<1>3. ASSUME NEW r \in Callers, NEW v \in Versions, StartRest(r, v) PROVE HistoryInv'
  BY <1>3, BeginHistory DEF StartRest
<1>4. ASSUME NEW r \in Callers, NEW v \in Versions, NEW t \in tokens \cup {NoToken},
             StartMcp(r, v, t)
      PROVE  HistoryInv'
  BY <1>4, BeginHistory DEF StartMcp
<1>5. ASSUME NEW r \in Callers, StartPrediction(r) PROVE HistoryInv'
  BY <1>5, BeginHistory DEF StartPrediction
<1> QED
  BY <1>1, <1>2, <1>3, <1>4, <1>5 DEF Start

\* A preview leaves a confirmation and itself as its witness; a call that is
\* confirmed has the token of an earlier preview of what it asks for.
LEMMA ConfirmationHistory ==
    ASSUME ActivationInv, HistoryInv, [RepoNext]_repoVars, NEW r \in Callers,
           Preview(r) \/ Confirm(r) \/ RecordRollback(r)
    PROVE  HistoryInv'
<1>1. /\ req \in [Callers -> Requests] /\ RequestAgrees(r) /\ Remembers(r)
      /\ UNCHANGED <<tx, holder, lastActivated>>
  BY DEF ActivationInv, TypeOK, RequestsAgree, HistoryInv, Preview, Confirm, RecordRollback,
     Local, repoVars
<1>2. CASE Preview(r)
  <2>1. /\ req' = [req EXCEPT ![r].pc = "done", ![r].result = "confirmation_required",
                             ![r].seen = ActiveVersion]
        /\ req[r].pc = "confirm" /\ UNCHANGED audit
        /\ tokens' = tokens \cup {ConfirmationFor(r)}
    BY <1>2 DEF Preview, At
  <2>2. /\ req'[r].pc = "done" /\ req'[r].version = req[r].version
        /\ req'[r].kind = req[r].kind /\ req'[r].token = req[r].token
        /\ req'[r].seen = ActiveVersion /\ req'[r].result = "confirmation_required"
        /\ \A q \in Callers \ {r} : req'[q] = req[q]
    BY <1>1, <2>1, PreviewNoted
  <2>3. \A t \in tokens' \ tokens : Previews(r, t.op, t.version, t.expected)'
    BY <2>1, <2>2 DEF ConfirmationFor, Previews
  <2>4. ASSUME Kept PROVE Remembers(r)'
    <3>1. tx[r].op = "none" /\ tx[r].outcome = "none"
      BY <2>1, NoTransactionYet
    <3>2. PredictionAgrees(r)'
      BY <2>2 DEF PredictionAgrees, At
    <3>3. AgentAgrees(r)'
      BY <1>1, <2>2, <2>4, <3>1, KeptForMover DEF Remembers, AgentAgrees, Agent
    <3> QED
      BY <1>1, <2>2, <3>1, <3>2, <3>3 DEF Remembers, At, Won
  <2>5. ~At(r, "done")
    BY <2>1 DEF At
  <2> QED
    BY <1>1, <2>1, <2>2, <2>3, <2>4, <2>5, OneRequestMoves DEF ActivationInv
<1>3. CASE Confirm(r)
  <2>1. PICK pc \in {"record", "lookup"} :
           /\ req' = [req EXCEPT ![r].pc = pc, ![r].seen = ActiveVersion]
           /\ req[r].kind = "mcp_rollback" => pc = "record"
    BY <1>3 DEF Confirm
  <2>2. /\ req'[r].pc = pc /\ req'[r].version = req[r].version
        /\ req'[r].kind = req[r].kind /\ req'[r].token = req[r].token
        /\ req'[r].seen = ActiveVersion /\ req'[r].result = req[r].result
        /\ \A q \in Callers \ {r} : req'[q] = req[q]
    <3>1. pc \in PCs
      BY <2>1 DEF PCs
    <3>2. req' = [req EXCEPT ![r].pc = pc, ![r].seen = ActiveVersion]
      BY <2>1
    <3>3. req \in [Callers -> Requests]
      BY <1>1
    <3> QED
      BY <3>1, <3>2, <3>3, ReadingNoted
  <2>3. /\ req[r].pc = "confirm" /\ UNCHANGED <<audit, tokens>>
        /\ req[r].token = ConfirmationFor(r)
    BY <1>3 DEF Confirm, Local, At
  <2>4. PreviewedByAnother(r, req[r].kind, req[r].version, ActiveVersion)
    <3>1. Agent(r)
      BY <1>1, <2>3 DEF RequestAgrees, Agent
    <3>2. /\ req[r].token.op = req[r].kind /\ req[r].token.version = req[r].version
          /\ req[r].token.expected = ActiveVersion /\ req[r].token # NoToken
      BY <2>3, <3>1 DEF ConfirmationFor, Agent, NoToken
    <3> QED
      BY <1>1, <3>2 DEF Remembers, AgentAgrees
  <2>5. ASSUME Kept PROVE Remembers(r)'
    <3>1. PredictionAgrees(r)'
      BY <1>1, <2>2, <2>3 DEF Remembers, PredictionAgrees, At
    <3>2. AgentAgrees(r)'
      <4>1. tx[r].op = "none"
        BY <2>3, NoTransactionYet
      <4> QED
        BY <1>1, <2>1, <2>2, <2>4, <2>5, <4>1, KeptForMover DEF Remembers, AgentAgrees, Agent
    <3> QED
      BY <1>1, <2>2, <2>3, <2>5, <3>1, <3>2, KeptForMover DEF Remembers, At
  <2> QED
    BY <1>1, <2>2, <2>3, <2>5, QuietHistory DEF At
<1>4. CASE RecordRollback(r)
  <2>1. /\ Move(r, "lookup") /\ "lookup" \in PCs /\ req[r].pc = "record" /\ UNCHANGED tokens
        /\ audit' = audit \cup {[by |-> r, target |-> req[r].version, previous |-> req[r].seen]}
    BY <1>4 DEF RecordRollback, At, PCs
  <2>2. /\ req'[r].pc = "lookup" /\ req'[r].version = req[r].version
        /\ req'[r].kind = req[r].kind /\ req'[r].token = req[r].token /\ req'[r].seen = req[r].seen
        /\ req'[r].result = req[r].result
        /\ \A q \in Callers \ {r} : req'[q] = req[q]
    BY <1>1, <2>1, Moved
  <2>3. Recorded(r, req[r].version)'
    <3> DEFINE entry == [by |-> r, target |-> req[r].version, previous |-> req[r].seen]
    <3>1. entry \in audit' /\ entry.by = r /\ entry.target = req'[r].version
      BY <2>1, <2>2
    <3> HIDE DEF entry
    <3> QED
      BY <3>1 DEF Recorded
  <2>4. ASSUME Kept PROVE Remembers(r)'
    <3>1. PredictionAgrees(r)'
      BY <1>1, <2>1, <2>2 DEF Remembers, PredictionAgrees, At
    <3>2. AgentAgrees(r)'
      BY <1>1, <2>1, <2>2, <2>3, <2>4, KeptForMover DEF Remembers, AgentAgrees, Agent
    <3> QED
      BY <1>1, <2>1, <2>2, <2>4, <3>1, <3>2, KeptForMover DEF Remembers, At
  <2> QED
    BY <1>1, <2>1, <2>2, <2>4, QuietHistory DEF At
<1> QED
  BY <1>2, <1>3, <1>4

\* A prediction takes the version of the holder, or of the active row, and
\* keeps it.
LEMMA PredictionHistory ==
    ASSUME ActivationInv, HistoryInv, [RepoNext]_repoVars, NEW r \in Callers,
           ReadHolder(r) \/ ReadActive(r) \/ Answer(r) \/ SavePrediction(r)
    PROVE  HistoryInv'
<1>1. /\ req \in [Callers -> Requests] /\ req[r] \in Requests /\ Remembers(r)
      /\ UNCHANGED <<tx, holder, audit, tokens, lastActivated>>
      /\ holder \in VersionOrNone
  BY DEF ActivationInv, TypeOK, HistoryInv, ReadHolder, ReadActive, Answer, SavePrediction, Local,
     repoVars
<1>2. ASSUME NEW v \in VersionOrNone, BeenActive(v), req[r].pc \in {"resident", "active"},
             req' = [req EXCEPT ![r].pc = "answer", ![r].version = v]
      PROVE  HistoryInv'
  <2>1. /\ req'[r].pc = "answer" /\ req'[r].version = v
        /\ req'[r].kind = req[r].kind /\ req'[r].token = req[r].token /\ req'[r].seen = req[r].seen
        /\ req'[r].result = req[r].result
        /\ \A q \in Callers \ {r} : req'[q] = req[q]
    BY <1>1, <1>2, VersionNoted DEF PCs
  <2>2. req[r].kind = "predict" /\ req[r].result = "none"
    BY <1>1, <1>2 DEF Remembers, PredictionAgrees, At
  <2>3. ASSUME Kept PROVE Remembers(r)'
    <3>1. PredictionAgrees(r)'
      BY <1>2, <2>1, <2>2, <2>3, KeptForMover DEF PredictionAgrees, At
    <3>2. AgentAgrees(r)'
      BY <1>1, <2>1, <2>2, <2>3, KeptForMover DEF Remembers, AgentAgrees, Agent
    <3> QED
      BY <1>1, <2>1, <2>2, <2>3, <3>1, <3>2, KeptForMover DEF Remembers
  <2> QED
    BY <1>1, <1>2, <2>1, <2>3, QuietHistory DEF At
<1>3. CASE ReadHolder(r)
  <2>1. req[r].pc = "resident" /\ "active" \in PCs
    BY <1>3 DEF ReadHolder, At, PCs
  <2>2. CASE holder # None
    <3>1. req' = [req EXCEPT ![r].pc = "answer", ![r].version = holder]
      BY <1>3, <2>2 DEF ReadHolder
    <3> QED
      BY <1>1, <1>2, <2>1, <2>2, <3>1 DEF HistoryInv
  <2>3. CASE holder = None
    <3>1. Move(r, "active")
      BY <1>3, <2>3 DEF ReadHolder
    <3> QED
      BY <1>1, <2>1, <3>1, MoveHistory
  <2> QED
    BY <2>2, <2>3
<1>4. CASE ReadActive(r)
  <2>1. req[r].pc = "active" /\ ~At(r, "done")
    BY <1>4 DEF ReadActive, At
  <2>2. CASE Reply(r, "no_model")
    BY <1>1, <2>1, <2>2, ReplyHistory DEF Results
  <2>3. CASE Reply(r, "predict_failed")
    BY <1>1, <2>1, <2>3, ReplyHistory DEF Results
  <2>4. CASE /\ ActiveVersion \in Versions
             /\ req' = [req EXCEPT ![r].pc = "answer", ![r].version = ActiveVersion]
    <3>1. BeenActive(ActiveVersion)
      <4>1. ActiveVersion \in ActiveRows
        BY <2>4, NoneIsNoVersion, NoActiveVersion DEF ActiveVersion
      <4> QED
        BY <4>1 DEF ActivationInv, RepoInv, StampsMatchStatus, ActiveRows, BeenActive
    <3> QED
      BY <1>2, <2>1, <2>4, <3>1, ActiveVersionType
  <2> QED
    BY <1>4, <2>2, <2>3, <2>4 DEF ReadActive
<1>5. CASE Answer(r)
  <2>1. /\ req' = [req EXCEPT ![r].pc = "save", ![r].answer = req[r].version]
        /\ req[r].pc = "answer" /\ "save" \in PCs
    BY <1>5 DEF Answer, At, PCs
  <2>2. req[r].version \in VersionOrNone
    BY <1>1 DEF Requests
  <2>3. /\ req'[r].pc = "save" /\ req'[r].version = req[r].version
        /\ req'[r].kind = req[r].kind /\ req'[r].token = req[r].token /\ req'[r].seen = req[r].seen
        /\ req'[r].result = req[r].result /\ req'[r].answer = req[r].version
        /\ \A q \in Callers \ {r} : req'[q] = req[q]
    BY <1>1, <2>1, <2>2, AnswerNoted
  <2>4. ASSUME Kept PROVE Remembers(r)'
    <3>1. PredictionAgrees(r)'
      BY <1>1, <2>1, <2>3, <2>4, KeptForMover DEF Remembers, PredictionAgrees, At
    <3>2. AgentAgrees(r)'
      BY <1>1, <2>1, <2>3, <2>4, KeptForMover DEF Remembers, AgentAgrees, Agent
    <3> QED
      BY <1>1, <2>1, <2>3, <2>4, <3>1, <3>2, KeptForMover DEF Remembers, At
  <2> QED
    BY <1>1, <2>1, <2>3, <2>4, QuietHistory DEF At
<1>6. CASE SavePrediction(r)
  <2>1. Reply(r, "predicted") /\ "predicted" \in Results /\ req[r].pc = "save"
    BY <1>6 DEF SavePrediction, At, Results
  <2>2. /\ req'[r].pc = "done" /\ req'[r].version = req[r].version
        /\ req'[r].kind = req[r].kind /\ req'[r].token = req[r].token /\ req'[r].seen = req[r].seen
        /\ req'[r].answer = req[r].answer
        /\ \A q \in Callers \ {r} : req'[q] = req[q]
    BY <1>1, <2>1, Replied
  <2>3. ASSUME Kept PROVE Remembers(r)'
    <3>1. PredictionAgrees(r)'
      BY <1>1, <2>1, <2>2, <2>3, KeptForMover DEF Remembers, PredictionAgrees, At
    <3>2. AgentAgrees(r)'
      BY <1>1, <2>1, <2>2, <2>3, KeptForMover DEF Remembers, AgentAgrees, Agent
    <3> QED
      BY <1>1, <2>2, <2>3, <3>1, <3>2, KeptForMover DEF Remembers, At
  <2> QED
    BY <1>1, <2>1, <2>2, <2>3, QuietHistory DEF At
<1> QED
  BY <1>3, <1>4, <1>5, <1>6

\* The steps of a handler that neither confirm anything nor serve a prediction.
LEMMA HandlerHistory ==
    ASSUME ActivationInv, HistoryInv, [RepoNext]_repoVars, NEW r \in Callers,
           Handler(r) \/ Acquire(r) \/ Load(r) \/ LoadFails(r)
    PROVE  HistoryInv'
<1>1. /\ req \in [Callers -> Requests] /\ req[r] \in Requests /\ Remembers(r)
  BY DEF ActivationInv, TypeOK, HistoryInv
<1>2. CASE UploadRejected(r)
  BY <1>2, ReplyHistory DEF UploadRejected, Local, repoVars, At, Results
<1>3. CASE UploadWrites(r) \/ UploadStored(r)
  BY <1>3, MoveHistory DEF UploadWrites, UploadStored, repoVars, At, PCs
<1>4. CASE UploadRegisters(r)
  BY <1>4, ReplyHistory DEF UploadRegisters, Create, repoVars, At, Results
<1>5. CASE Route(r)
  <2>1. PICK pc \in {"lookup", "promote_get"} : Move(r, pc)
    BY <1>5 DEF Route
  <2> QED
    BY <1>5, <2>1, MoveHistory DEF Route, Local, repoVars, At, PCs
<1>6. CASE PromoteGet(r) \/ Lookup(r) \/ ReadPackage(r)
  <2>1. req[r].pc \in {"promote_get", "lookup", "read"} /\ UNCHANGED <<tx, holder, audit, tokens, lastActivated>>
    BY <1>6 DEF PromoteGet, Lookup, ReadPackage, At, Local, repoVars
  <2>2. ASSUME NEW pc \in {"promote", "read", "expect"}, Move(r, pc) PROVE HistoryInv'
    BY <2>1, <2>2, MoveHistory DEF PCs
  <2>3. ASSUME NEW o \in {"not_found", "not_allowed", "storage_error", "package_invalid"}, Reply(r, o)
        PROVE  HistoryInv'
    BY <2>1, <2>3, ReplyHistory DEF At, Results, Outcomes
  <2> QED
    BY <1>6, <2>2, <2>3 DEF PromoteGet, Lookup, ReadPackage
<1>7. CASE ReadExpected(r)
  <2>1. /\ req' = [req EXCEPT ![r].pc = "acquire", ![r].expected = ActiveVersion]
        /\ req[r].pc = "expect" /\ UNCHANGED <<tx, holder, audit, tokens, lastActivated>>
    BY <1>7 DEF ReadExpected, At, Local, repoVars
  <2>2. /\ req'[r].pc = "acquire" /\ req'[r].version = req[r].version
        /\ req'[r].kind = req[r].kind /\ req'[r].token = req[r].token /\ req'[r].seen = req[r].seen
        /\ req'[r].result = req[r].result
        /\ \A q \in Callers \ {r} : req'[q] = req[q]
    BY <1>1, <2>1, ActiveVersionType, ExpectationNoted DEF PCs
  <2> QED
    BY <1>1, <2>1, <2>2, MoveRemembers, QuietHistory DEF At
<1>8. CASE HealthCheck(r)
  <2>1. PICK o \in {"activated", "unhealthy"} : Reply(r, o)
    BY <1>8 DEF HealthCheck
  <2> QED
    BY <1>8, <2>1, ReplyHistory DEF HealthCheck, Local, repoVars, At, Results, Outcomes
<1>9. CASE Acquire(r) \/ Load(r)
  BY <1>9, MoveHistory DEF Acquire, Load, Local, repoVars, At, PCs
<1>10. CASE LoadFails(r)
  BY <1>10, ReplyHistory DEF LoadFails, repoVars, At, Results
<1> QED
  BY <1>2, <1>3, <1>4, <1>5, <1>6, <1>7, <1>8, <1>9, <1>10, ConfirmationHistory, PredictionHistory
     DEF Handler

\* A transaction that opens brings the version the request was confirmed for.
LEMMA OpeningHistory ==
    ASSUME ActivationInv, HistoryInv, [RepoNext]_repoVars, NEW r \in Callers,
           Persist(r) \/ PromoteBegins(r)
    PROVE  HistoryInv'
<1>1. /\ req \in [Callers -> Requests] /\ Remembers(r) /\ RequestAgrees(r) /\ RepoTypeOK
      /\ UNCHANGED <<holder, audit, tokens>>
      /\ req[r].pc \in {"persist", "promote"}
      /\ Move(r, "transaction")
  BY DEF ActivationInv, TypeOK, RequestsAgree, HistoryInv, Persist, PromoteBegins, At
<1>2. /\ req'[r].pc = "transaction" /\ req'[r].version = req[r].version
      /\ req'[r].kind = req[r].kind /\ req'[r].token = req[r].token /\ req'[r].seen = req[r].seen
      /\ req'[r].result = req[r].result
      /\ \A q \in Callers \ {r} : req'[q] = req[q]
  BY <1>1, Moved DEF PCs
<1>3. /\ req[r].version \in Versions
      /\ tx'[r].target = req[r].version
      /\ \A q \in Callers \ {r} : tx'[q] = tx[q]
      /\ tx'[r].outcome \in Won => BeenActive(req[r].version)
  <2>1. PICK op, e, pc, o :
           /\ Select(r, op, req[r].version, e, pc, o)
           /\ o \in Won => rows[req[r].version].status = "active"
    BY <1>1 DEF Persist, PromoteBegins, BeginActivate, BeginPromote, Won
  <2>2. req[r].version \in Versions
    BY <1>1 DEF RequestAgrees, NamesVersion, PCs
  <2>3. o \in Won => BeenActive(req[r].version)
    BY <2>1, <2>2 DEF ActivationInv, RepoInv, StampsMatchStatus, BeenActive
  <2> QED
    BY <1>1, <2>1, <2>2, <2>3, Selected
<1>4. ASSUME Kept PROVE Remembers(r)'
  <2>1. PredictionAgrees(r)'
    BY <1>1, <1>2, <1>4, KeptForMover DEF Remembers, PredictionAgrees, At
  <2>2. AgentAgrees(r)'
    BY <1>1, <1>2, <1>3, <1>4, KeptForMover DEF Remembers, AgentAgrees, Agent
  <2> QED
    BY <1>1, <1>2, <1>3, <1>4, <2>1, <2>2, KeptForMover DEF Remembers, At
<1>5. lastActivated' # lastActivated => BeenActive(lastActivated)'
  <2>1. CASE Persist(r)
    <3>1. lastActivated' # lastActivated => tx'[r].outcome \in Won /\ lastActivated' = tx'[r].target
      BY <2>1 DEF Persist, RecordActivation
    <3>2. BeenActive(req[r].version) => BeenActive(req[r].version)'
      BY <1>2, PromotedAtKept DEF BeenActive, ActivationInv
    <3> QED
      BY <1>2, <1>3, <3>1, <3>2
  <2>2. CASE PromoteBegins(r)
    BY <2>2 DEF PromoteBegins
  <2> QED
    BY <2>1, <2>2
<1> QED
  BY <1>1, <1>2, <1>3, <1>4, <1>5, OneRequestMoves DEF ActivationInv, At

\* The statements of a transaction stamp the target of one that wins.
LEMMA TransactionHistory ==
    ASSUME ActivationInv, HistoryInv, [RepoNext]_repoVars, NEW r \in Callers,
           DatabaseStep(r) \/ DatabaseError(r)
    PROVE  HistoryInv'
<1>1. /\ UNCHANGED <<holder, tokens, audit, req>> /\ req[r].pc = "transaction"
      /\ RepoInv /\ RepoTypeOK /\ Remembers(r)
  BY DEF DatabaseStep, DatabaseError, processVars, At, ActivationInv, RepoInv, HistoryInv
<1>2. /\ tx[r].pc \notin {"idle", "done"}
      /\ tx'[r].op = tx[r].op /\ tx'[r].target = tx[r].target
      /\ \A q \in Callers \ {r} : tx'[q] = tx[q]
  BY <1>1, StatementRuns DEF DatabaseStep, DatabaseError
<1>3. tx'[r].outcome \in Won => BeenActive(tx[r].target)'
  <2>1. CASE DatabaseStep(r)
    BY <1>1, <1>2, <2>1, WinnerIsStamped DEF DatabaseStep, BeenActive
  <2>2. CASE DatabaseError(r)
    BY <1>1, <2>2, FailureAborts DEF DatabaseError, Won
  <2> QED
    BY <2>1, <2>2
<1>4. ASSUME Kept PROVE Remembers(r)'
  <2>1. PredictionAgrees(r)'
    BY <1>1, <1>4, KeptForMover DEF Remembers, PredictionAgrees, At
  <2>2. AgentAgrees(r)'
    BY <1>1, <1>2, <1>4, KeptForMover DEF Remembers, AgentAgrees, Agent
  <2> QED
    BY <1>1, <1>3, <2>1, <2>2 DEF Remembers, At
<1>5. lastActivated' # lastActivated => BeenActive(lastActivated)'
  <2>1. CASE DatabaseStep(r)
    BY <1>3, <2>1 DEF DatabaseStep, RecordActivation
  <2>2. CASE DatabaseError(r)
    BY <2>2 DEF DatabaseError, processVars
  <2> QED
    BY <2>1, <2>2
<1> QED
  BY <1>1, <1>2, <1>4, <1>5, OneRequestMoves DEF At

\* The end of a promotion or an activation: the holder takes a version that won.
LEMMA EndHistory ==
    ASSUME ActivationInv, HistoryInv, [RepoNext]_repoVars, NEW r \in Callers,
           Swap(r) \/ ActivationFails(r) \/ PromoteEnds(r)
    PROVE  HistoryInv'
<1>1. /\ req \in [Callers -> Requests] /\ Remembers(r) /\ req[r].pc = "transaction"
      /\ tx[r] \in Transactions
      /\ UNCHANGED <<tx, tokens, audit, lastActivated>>
  BY DEF ActivationInv, TypeOK, RepoTypeOK, HistoryInv, Swap, ActivationFails, PromoteEnds, Local,
     repoVars, At
<1>2. CASE Swap(r)
  <2>1. Move(r, "health") /\ holder' = tx[r].target /\ tx[r].outcome \in Won
    BY <1>2 DEF Swap
  <2>2. /\ req'[r].pc = "health" /\ req'[r].version = req[r].version
        /\ req'[r].kind = req[r].kind /\ req'[r].token = req[r].token /\ req'[r].seen = req[r].seen
        /\ req'[r].result = req[r].result
        /\ \A q \in Callers \ {r} : req'[q] = req[q]
    BY <1>1, <2>1, Moved DEF PCs
  <2>3. Kept => Remembers(r)'
    BY <1>1, <2>2, MoveRemembers
  <2>4. BeenActive(holder)'
    BY <1>1, <2>1, PromotedAtKept DEF Remembers, BeenActive, ActivationInv
  <2> QED
    BY <1>1, <2>2, <2>3, <2>4, OneRequestMoves DEF ActivationInv, At
<1>3. CASE ActivationFails(r) \/ PromoteEnds(r)
  <2>1. /\ Reply(r, tx[r].outcome) /\ UNCHANGED holder
        /\ tx[r].outcome \in Results /\ tx[r].outcome # "predicted"
    BY <1>1, <1>3 DEF ActivationFails, PromoteEnds, Local, Results, Transactions, Outcomes
  <2> QED
    BY <1>1, <2>1, ReplyHistory DEF At
<1> QED
  BY <1>2, <1>3

\* A restart forgets the confirmations, and ends what was under way.
LEMMA RestartHistory ==
    ASSUME ActivationInv, HistoryInv, [RepoNext]_repoVars, Restart
    PROVE  HistoryInv'
<1> DEFINE Lost(q) == [req[q] EXCEPT !.pc = "done", !.result = "lost"]
<1>1. /\ req \in [Callers -> Requests] /\ tx \in [Callers -> Transactions]
      /\ \A q \in Callers : RequestAgrees(q) /\ Remembers(q)
      /\ RepoInv /\ TransactionsAgree
  BY DEF ActivationInv, TypeOK, RepoInv, RepoTypeOK, RequestsAgree, HistoryInv
<1>2. \A q \in Callers : /\ Lost(q).pc = "done" /\ Lost(q).result = "lost"
                         /\ Lost(q).kind = req[q].kind /\ Lost(q).version = req[q].version
                         /\ Lost(q).token = req[q].token /\ Lost(q).seen = req[q].seen
  BY <1>1 DEF Requests
<1>3. req' = [q \in Callers |-> IF UnderWay(q) THEN Lost(q) ELSE req[q]]
  BY DEF Restart
<1> HIDE DEF Lost
<1>4. UNCHANGED audit /\ tokens' = {} /\ holder' = None /\ lastActivated' = None
  BY DEF Restart
<1>5. Kept
  <2>1. \A q \in Callers : req[q].result # "none" => req'[q] = req[q]
    BY <1>1, <1>3 DEF Remembers, At, UnderWay
  <2> QED
    BY <1>1, <1>4, <2>1, PromotedAtKept DEF Kept
<1>6. \A q \in Callers : /\ tx'[q].op = tx[q].op /\ tx'[q].target = tx[q].target
                         /\ tx'[q] = tx[q] \/ tx'[q].outcome = "aborted"
                         /\ req[q].pc = "idle" => tx'[q] = tx[q]
  <2>1. CASE Abort(InFlight)
    BY <1>1, <2>1 DEF Abort, InFlight, Transactions, RequestAgrees
  <2>2. CASE InFlight = {} /\ UNCHANGED repoVars
    BY <2>2 DEF repoVars
  <2> QED
    BY <2>1, <2>2 DEF Restart
<1>7. ASSUME NEW q \in Callers PROVE Remembers(q)'
  <2>1. tx'[q].outcome \in Won => BeenActive(tx[q].target)'
    BY <1>1, <1>5, <1>6, KeptForMover DEF Remembers, Won
  <2>2. CASE UnderWay(q)
    <3>1. req'[q] = Lost(q)
      BY <1>3, <2>2
    <3>2. PredictionAgrees(q)'
      BY <1>2, <3>1 DEF PredictionAgrees, At
    <3>3. AgentAgrees(q)'
      BY <1>1, <1>2, <1>5, <1>6, <3>1, KeptForMover DEF Remembers, AgentAgrees, Agent
    <3> QED
      BY <1>2, <2>1, <3>1, <3>2, <3>3 DEF Remembers, At
  <2>3. CASE ~UnderWay(q)
    <3>1. req'[q] = req[q]
      BY <1>3, <2>3
    <3>2. PredictionAgrees(q)'
      BY <1>1, <1>5, <3>1, KeptForMover DEF Remembers, PredictionAgrees, At
    <3>3. AgentAgrees(q)'
      BY <1>1, <1>5, <1>6, <3>1, KeptForMover DEF Remembers, AgentAgrees, Agent
    <3> QED
      BY <1>1, <2>1, <3>1, <3>2, <3>3 DEF Remembers, At
  <2> QED
    BY <2>2, <2>3
<1> QED
  BY <1>4, <1>7 DEF HistoryInv

\* Nothing has happened when the process starts on an empty database.
LEMMA HistoryInitInv == Init => HistoryInv
  BY DEF Init, RepoInit, NoTransaction, NoRequest, NoToken, HistoryInv, Remembers, PredictionAgrees,
     AgentAgrees, Agent, At, Won

\* Every step of the process preserves what is remembered.
LEMMA HistoryNextInv == ActivationInv /\ HistoryInv /\ [Next]_vars => HistoryInv'
<1> SUFFICES ASSUME ActivationInv, HistoryInv, [Next]_vars PROVE HistoryInv'
  OBVIOUS
<1>1. [RepoNext]_repoVars
  BY StepRunsRepository
<1>2. ASSUME UNCHANGED <<tx, holder, tokens, audit, req, lastActivated>> PROVE HistoryInv'
  <2>1. Kept
    BY <1>1, <1>2, PromotedAtKept DEF Kept, ActivationInv
  <2>2. \A q \in Callers : Remembers(q)'
    BY <1>2, <2>1, BystandersRemember DEF HistoryInv
  <2>3. \A v : BeenActive(v) => BeenActive(v)'
    BY <2>1 DEF Kept, BeenActive
  <2>4. \A t \in tokens' : \E q \in Callers : Previews(q, t.op, t.version, t.expected)'
    BY <1>2 DEF HistoryInv, Previews
  <2> QED
    BY <1>2, <2>2, <2>3, <2>4 DEF HistoryInv
<1>3. CASE UNCHANGED vars
  BY <1>2, <1>3 DEF vars
<1>4. ASSUME NEW v \in Versions, Train(v) PROVE HistoryInv'
  BY <1>2, <1>4 DEF Train, Create, processVars
<1>5. CASE Start
  BY <1>1, <1>5, StartHistory
<1>6. ASSUME NEW r \in Callers, Proceed(r) \/ DatabaseError(r) PROVE HistoryInv'
  BY <1>1, <1>6, HandlerHistory, OpeningHistory, TransactionHistory, EndHistory DEF Proceed, Handler
<1>7. CASE Restart
  BY <1>1, <1>7, RestartHistory
<1> QED
  BY <1>3, <1>4, <1>5, <1>6, <1>7 DEF Next

\* Confirmations, audit entries and stamps stand behind every request, through
\* every interleaving, failure and restart.
THEOREM HistoryInvariant == Spec => []HistoryInv
<1>1. Init => ActivationInv /\ HistoryInv
  BY ActivationInitInv, HistoryInitInv
<1>2. ActivationInv /\ HistoryInv /\ [Next]_vars => (ActivationInv /\ HistoryInv)'
  BY ActivationNextInv, HistoryNextInv
<1> QED
  BY <1>1, <1>2, PTL DEF Spec

\* A prediction is stored under the version whose predictor answered, and that
\* version has been active (application/predictions.py, one read of the holder).
THEOREM PredictionsAttributed == Spec => []PredictionsAreAttributed
<1>1. HistoryInv => PredictionsAreAttributed
  BY DEF HistoryInv, Remembers, PredictionAgrees, BeenActive, PredictionsAreAttributed
<1> QED
  BY <1>1, HistoryInvariant, PTL

\* mcp_privileged.py:9: no agent changes the active model in a single call, nor
\* by a confirmation of what was previewed while another version was active.
THEOREM ChangesConfirmed == Spec => []ChangesAreConfirmed
<1>1. HistoryInv => ChangesAreConfirmed
  <2> SUFFICES ASSUME HistoryInv, NEW r \in Callers, Agent(r), tx[r].op # "none"
               PROVE  \E q \in Callers \ {r} : Previews(q, req[r].kind, tx[r].target, req[r].seen)
    BY DEF ChangesAreConfirmed, Agent, Previews
  <2> QED
    BY DEF HistoryInv, Remembers, AgentAgrees, PreviewedByAnother
<1> QED
  BY <1>1, HistoryInvariant, PTL

\* retained_package_activation.py:175: a rollback is on record before it is tried.
THEOREM RollbacksRecorded == Spec => []RollbacksAreRecorded
<1>1. HistoryInv => RollbacksAreRecorded
  BY DEF HistoryInv, Remembers, AgentAgrees, Recorded, RollbacksAreRecorded
<1> QED
  BY <1>1, HistoryInvariant, PTL
=============================================================================
