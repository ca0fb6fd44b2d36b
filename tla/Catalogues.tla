----------------------------- MODULE Catalogues -----------------------------
(***************************************************************************)
(* The catalogues of locations and vehicles: import-locations and          *)
(* import-vehicles (and seed-demo) replace one from the export of a sheet, *)
(* importers of spreadsheets look a vehicle up in it and the routing       *)
(* provider a stop.  The two tables are handled alike, and this is either. *)
(*                                                                         *)
(* Imports are processes of their own.  Each is one transaction at READ    *)
(* COMMITTED, of which others see two moments: its DELETE, which locks the *)
(* rows it found, and the commit of its inserts.                           *)
(***************************************************************************)
EXTENDS Naturals, FiniteSets

CONSTANTS
    Names,     \* names of stops, or of vehicles
    KeyOf,     \* the spelling under which a name is looked up, without its case
    Imports,   \* processes that import
    SheetOf,   \* the names in the sheet of each
    Nobody

ASSUME NobodyImports == Nobody \notin Imports
\* Two exports of one sheet have some name in common.
ASSUME SheetsShareNames ==
    \A i, j \in Imports : SheetOf[i] \subseteq Names /\ SheetOf[i] \cap SheetOf[j] # {}

VARIABLES
    catalogue,  \* the names in the table
    imports,    \* how far each import has got, and the rows its DELETE locked
    loader,     \* history: the last import that reported success
    lookup      \* a lookup, with the sheets loaded when it began and when it was answered

catalogueVars == <<catalogue, imports, loader, lookup>>

-----------------------------------------------------------------------------

ImportStates == [at : {"idle", "waiting", "insert", "imported", "failed"}, rows : SUBSET Names]

NoLookup == [at |-> "idle", kind |-> "none", written |-> "none", loaded |-> Nobody,
             read |-> Nobody, answer |-> "none"]

CataloguesInit ==
    /\ catalogue = {}
    /\ imports = [i \in Imports |-> [at |-> "idle", rows |-> {}]]
    /\ loader = Nobody
    /\ lookup = NoLookup

-----------------------------------------------------------------------------
(* replace_all.                                                            *)

\* The rows that the transactions under way have deleted and not yet committed.
Locked == UNION {imports[i].rows : i \in {j \in Imports : imports[j].at = "insert"}}

\* DELETE waits for whoever has deleted rows of its snapshot.
DeleteRows(i) ==
    /\ imports[i].at = "idle"
    /\ imports' = [imports EXCEPT
                     ![i] = [at |-> IF Locked \cap catalogue = {} THEN "insert" ELSE "waiting",
                             rows |-> catalogue]]
    /\ UNCHANGED <<catalogue, loader, lookup>>

ResumeDelete(i) ==
    /\ imports[i].at = "waiting"
    /\ Locked \cap imports[i].rows = {}
    /\ imports' = [imports EXCEPT ![i].at = "insert"]
    /\ UNCHANGED <<catalogue, loader, lookup>>

\* Mutant of ReplaceRows: a row that is there is updated.
ReplaceRowsUpserts(i) ==
    /\ imports[i].at = "insert"
    /\ catalogue' = (catalogue \ imports[i].rows) \cup SheetOf[i]
    /\ loader' = i
    /\ imports' = [j \in Imports |->
                     IF j = i THEN [at |-> "imported", rows |-> {}]
                     ELSE IF imports[j].at = "waiting" THEN [imports[j] EXCEPT !.rows = {}]
                     ELSE imports[j]]
    /\ UNCHANGED lookup

\* The inserts and the commit, or the conflict of a name with a row that another
\* import has committed meanwhile.  Those who waited find their rows gone, and the
\* new ones are not in their snapshot.
ReplaceRows(i) ==
    /\ imports[i].at = "insert"
    /\ IF (catalogue \ imports[i].rows) \cap SheetOf[i] # {}
       THEN /\ imports' = [imports EXCEPT ![i] = [at |-> "failed", rows |-> {}]]
            /\ UNCHANGED <<catalogue, loader>>
       ELSE /\ catalogue' = (catalogue \ imports[i].rows) \cup SheetOf[i]
            /\ loader' = i
            /\ imports' = [j \in Imports |->
                             IF j = i THEN [at |-> "imported", rows |-> {}]
                             ELSE IF imports[j].at = "waiting" THEN [imports[j] EXCEPT !.rows = {}]
                             ELSE imports[j]]
    /\ UNCHANGED lookup

\* Mutant of ImportFails: the delete was committed before the inserts.
ImportFailsEmpty(i) ==
    /\ imports[i].at \in {"waiting", "insert"}
    /\ catalogue' = IF imports[i].at = "insert" THEN catalogue \ imports[i].rows ELSE catalogue
    /\ imports' = [imports EXCEPT ![i] = [at |-> "failed", rows |-> {}]]
    /\ UNCHANGED <<loader, lookup>>

\* The process dies or a statement fails: the transaction is rolled back.
ImportFails(i) ==
    /\ imports[i].at \in {"waiting", "insert"}
    /\ imports' = [imports EXCEPT ![i] = [at |-> "failed", rows |-> {}]]
    /\ UNCHANGED <<catalogue, loader, lookup>>

-----------------------------------------------------------------------------
(* Lookups.                                                                *)

Matches(written) == {n \in catalogue : KeyOf[n] = KeyOf[written]}

\* A vehicle is asked for in two transactions; a stop in one.
StartLookup(kind, written) ==
    /\ lookup = NoLookup
    /\ lookup' = [NoLookup EXCEPT !.kind = kind, !.written = written, !.loaded = loader,
                                  !.at = IF kind = "vehicle" THEN "options" ELSE "find"]
    /\ UNCHANGED <<catalogue, imports, loader>>

\* parse_vehicle takes a name as it is written while there is no catalogue.
ReadOptions ==
    /\ lookup.at = "options"
    /\ lookup' = IF catalogue = {} THEN [lookup EXCEPT !.at = "answered", !.answer = "written"]
                 ELSE [lookup EXCEPT !.at = "find"]
    /\ UNCHANGED <<catalogue, imports, loader>>

\* The first vehicle that matches, or a correction to make; the one stop that
\* matches, or an error when several do, or an address to look for.
Find ==
    /\ lookup.at = "find"
    /\ LET found == Matches(lookup.written)
       IN \E answer \in IF found = {} THEN {"unknown"}
                        ELSE IF lookup.kind = "stop" /\ Cardinality(found) > 1 THEN {"error"}
                        ELSE found :
            lookup' = [lookup EXCEPT !.at = "answered", !.answer = answer, !.read = loader]
    /\ UNCHANGED <<catalogue, imports, loader>>

CataloguesNext ==
    \/ \E i \in Imports : DeleteRows(i) \/ ResumeDelete(i) \/ ReplaceRows(i) \/ ImportFails(i)
    \/ \E kind \in {"vehicle", "stop"}, written \in Names : StartLookup(kind, written)
    \/ ReadOptions \/ Find

CataloguesSpec == CataloguesInit /\ [][CataloguesNext]_catalogueVars

-----------------------------------------------------------------------------
(* Properties.                                                             *)

\* A transaction holds only rows that were there, and an answer is a catalogued name
\* or says why there is none.
CataloguesTypeOK ==
    /\ imports \in [Imports -> ImportStates]
    /\ \A i \in Imports : imports[i].at = "insert" => imports[i].rows \subseteq catalogue
    /\ loader \in Imports \cup {Nobody}
    /\ lookup.at = "answered" => lookup.answer \in Names \cup {"written", "unknown", "error"}

\* sqlalchemy_locations.py:34: the sheet is the source of truth, so a point deleted
\* there disappears here: however imports overlap and fail, the catalogue is the whole
\* sheet of the last one that reported success.
CatalogueIsOneSheet ==
    catalogue = IF loader = Nobody THEN {} ELSE SheetOf[loader]

\* The spellings of a name in a sheet.
Spelled(written, i) == {n \in SheetOf[i] : KeyOf[n] = KeyOf[written]}

\* historical_datasets.py:296: once some sheet is loaded, a vehicle that is in every
\* sheet is found under a catalogued name and never taken as it is written, also while
\* the catalogue is replaced between the two reads of a lookup.
KnownVehiclesAreFound ==
    (lookup.at = "answered" /\ lookup.kind = "vehicle" /\ lookup.loaded # Nobody
        /\ \A i \in Imports : Spelled(lookup.written, i) # {}) =>
            \E i \in Imports : lookup.answer \in Spelled(lookup.written, i)

\* google_maps_routing.py:33: a stop of the sheet that is loaded resolves to its
\* coordinates, unless the sheet has another stop whose name differs in its case only.
StopsFailOnlyByTheirTwins ==
    (lookup.at = "answered" /\ lookup.kind = "stop" /\ lookup.answer \notin Names) =>
        lookup.read = Nobody \/ Cardinality(Spelled(lookup.written, lookup.read)) # 1

\* What a catalogue holds and what lookups say of it, while imports overlap and fail.
CataloguesInv == CataloguesTypeOK /\ CatalogueIsOneSheet /\ StopsFailOnlyByTheirTwins
=============================================================================
