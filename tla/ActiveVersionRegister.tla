------------------------ MODULE ActiveVersionRegister ------------------------
(***************************************************************************)
(* What the model-version repository promises its callers, with no         *)
(* database in it: one register that holds the active model version, on    *)
(* which every call takes effect at one instant.  Activate is a            *)
(* compare-and-set, Promote an unconditional write; a call that is refused *)
(* leaves the register alone.                                              *)
(*                                                                         *)
(* ModelVersionRepository implements this register: see its Register       *)
(* instance and the theorem RepositoryImplementsRegister.                  *)
(***************************************************************************)
CONSTANTS
    Versions,   \* identifiers of model versions
    Callers,    \* each makes one call
    None        \* no version is active; not one of Versions

VARIABLES
    active,     \* the active version, or None
    call        \* what each caller has been answered

registerVars == <<active, call>>

VersionOrNone == Versions \cup {None}

Refusals == {"not_found", "not_allowed", "integrity_error", "aborted"}

Answers == {"activated", "promoted", "already_active", "conflict"} \cup Refusals

Calls == [op : {"none", "promote", "activate"}, target : VersionOrNone,
          expected : VersionOrNone, outcome : Answers \cup {"none"}]

NoCall == [op |-> "none", target |-> None, expected |-> None, outcome |-> "none"]

Answer(c, op, v, e, o) ==
    /\ call[c] = NoCall
    /\ call' = [call EXCEPT ![c] = [op |-> op, target |-> v, expected |-> e, outcome |-> o]]

-----------------------------------------------------------------------------
RegisterInit ==
    /\ active = None
    /\ call = [c \in Callers |-> NoCall]

\* The caller's expectation held, so its version takes the register over.  The
\* one departure from a compare-and-set: two callers that both expected no
\* active version and bring the same version are both told that they won.
Activate(c, v, e) ==
    /\ active = e \/ (e = None /\ active = v)
    /\ active' = v
    /\ Answer(c, "activate", v, e, "activated")

\* A repeated activation of the version it expects to find is not an error.
Reassert(c, v) ==
    /\ active = v
    /\ Answer(c, "activate", v, v, "already_active")
    /\ UNCHANGED active

\* A caller is told of a conflict only when its expectation is really wrong.
Conflict(c, v, e) ==
    /\ active # e
    /\ Answer(c, "activate", v, e, "conflict")
    /\ UNCHANGED active

Promote(c, v) ==
    /\ active' = v
    /\ Answer(c, "promote", v, None, "promoted")

PromoteAgain(c, v) ==
    /\ active = v
    /\ Answer(c, "promote", v, None, "already_active")
    /\ UNCHANGED active

Refuse(c, op, v, e, o) ==
    /\ Answer(c, op, v, e, o)
    /\ UNCHANGED active

\* The write took effect but its caller was told that the database failed.
Unacknowledged(c, op, v, e) ==
    /\ active' = v
    /\ Answer(c, op, v, e, "aborted")

\* A crash answers every open call of the process at once.
Interrupt(S) ==
    /\ \A c \in S : call[c] = NoCall /\ call'[c].outcome = "aborted"
    /\ call' \in [Callers -> Calls]
    /\ \A c \in Callers \ S : call'[c] = call[c]
    /\ UNCHANGED active

RegisterNext ==
    \/ \E c \in Callers, v \in Versions :
          \/ Promote(c, v)
          \/ PromoteAgain(c, v)
          \/ Reassert(c, v)
          \/ \E e \in VersionOrNone :
                \/ Activate(c, v, e)
                \/ Conflict(c, v, e)
                \/ \E op \in {"promote", "activate"} :
                      \/ Unacknowledged(c, op, v, e)
                      \/ \E o \in Refusals : Refuse(c, op, v, e, o)
    \/ \E S \in SUBSET Callers : Interrupt(S)

RegisterSpec == RegisterInit /\ [][RegisterNext]_registerVars
=============================================================================
