------------------------------- MODULE MCJobs -------------------------------
(* What comes to the application otherwise than through its pages: the    *)
(* commands of "python -m fuel_predictor", which are prune-packages        *)
(* (PackageRetention), monitor and record-backup (MonitoringRuns),         *)
(* import-locations and import-vehicles (Catalogues), and the agents'      *)
(* calls of POST /mcp (AgentAccess).  The four share no state: a behaviour *)
(* is about one of them, and the rest stays where it began.                *)
EXTENDS PackageRetention, MonitoringRuns, Catalogues, AgentAccess, TLC

CONSTANTS here, Here, there, i1, i2, i3

VARIABLE subject

\* Two stops of the sheet differ in the case of their names, as two pairs of the
\* shipped catalogue do.
Spellings == here :> "here" @@ Here :> "here" @@ there :> "there"
Sheets == i1 :> {here, there} @@ i2 :> {here, Here, there} @@ i3 :> {there}

JobsInit ==
    /\ Init /\ RunsInit /\ CataloguesInit /\ AgentsInit
    /\ subject \in {"packages", "runs", "catalogues", "agents"}

PackagesNext ==
    subject = "packages" /\ Next /\ UNCHANGED <<runsVars, catalogueVars, agentVars, subject>>
RunsOnlyNext ==
    subject = "runs" /\ RunsNext /\ UNCHANGED <<vars, catalogueVars, agentVars, subject>>
CataloguesOnlyNext ==
    subject = "catalogues" /\ CataloguesNext /\ UNCHANGED <<vars, runsVars, agentVars, subject>>
AgentsOnlyNext ==
    subject = "agents" /\ AgentsNext /\ UNCHANGED <<vars, runsVars, catalogueVars, subject>>

JobsNext == PackagesNext \/ RunsOnlyNext \/ CataloguesOnlyNext \/ AgentsOnlyNext

JobsSpec ==
    JobsInit /\ [][JobsNext]_<<vars, runsVars, catalogueVars, agentVars, subject>>

\* Packages are interchangeable, and so are credentials.
JobsSymmetry == Permutations(Packages) \cup Permutations(Clients)
=============================================================================
