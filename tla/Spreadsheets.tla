---------------------------- MODULE Spreadsheets ----------------------------
(***************************************************************************)
(* What the three spreadsheet importers make of one row: plans to predict  *)
(* (bulk_operation_predictions), actual fuel to record (bulk_actual_fuel)  *)
(* and history to train on (historical_datasets).                          *)
(*                                                                         *)
(* A row is a function from the fields an importer looks for to the class  *)
(* its cell falls into; a field is "missing" when no header of the sheet   *)
(* is an alias of it.  Corrections are the set of fields named in the      *)
(* report; their wording is left out.                                      *)
(***************************************************************************)
EXTENDS FiniteSets

VARIABLES
    importer,   \* which of the three reads the row
    row,
    rest,       \* what the cells under headers nobody looks for hold
    verdict,    \* "unread", "blank", "accepted" or "corrected"
    reported    \* the fields the correction report names

cells == <<importer, row, rest, verdict, reported>>

-----------------------------------------------------------------------------
(* Cells.                                                                  *)

Absent == {"missing", "blank"}
\* A spreadsheet holds true and false, text that is no number, infinities, and
\* numbers that matter by their sign.
NotNumbers == {"boolean", "text", "infinite"}
Numbers == {"negative", "zero", "positive"}

CellsOf ==
    [vehicle_category     |-> Absent \cup {"unknown", "angber"},
     vehicle              |-> Absent \cup {"unknown", "catalogued"},
     activity_mode        |-> Absent \cup {"unknown", "transport", "lifting", "transport_and_lifting"},
     lifting_hours        |-> Absent \cup NotNumbers \cup Numbers,
     total_distance_km    |-> Absent \cup NotNumbers \cup Numbers,
     distance_source      |-> Absent \cup {"unknown", "manual", "routing_provider"},
     stop_sequence        |-> Absent \cup {"one", "gap", "stops"},
     prepared_fuel_liters |-> Absent \cup NotNumbers \cup Numbers,
     operation_id         |-> Absent \cup {"written"},
     actual_fuel_liters   |-> Absent \cup NotNumbers \cup Numbers,
     measurement_source   |-> Absent \cup {"unknown", "receipt"}]

\* "stray" is a filled cell under an empty header that is no alias of a source;
\* "filled" is anything else that is not blank.
Others == {"blank", "filled", "stray"}

RequiredFields ==
    [plan   |-> {"vehicle_category", "activity_mode", "total_distance_km", "distance_source"},
     actual |-> {"operation_id", "actual_fuel_liters"},
     past   |-> {"vehicle_category", "activity_mode", "total_distance_km", "distance_source",
                 "prepared_fuel_liters"}]

OptionalFields ==
    [plan   |-> {"vehicle", "lifting_hours", "stop_sequence"},
     actual |-> {"measurement_source"},
     past   |-> {"vehicle", "lifting_hours"}]

\* The rows that the instructions in a downloaded template ask for.
PlanTemplate ==
    [vehicle_category : {"angber"}, vehicle : {"blank", "catalogued"},
     activity_mode : {"transport", "lifting", "transport_and_lifting"},
     lifting_hours : {"blank", "positive"}, total_distance_km : {"positive"},
     distance_source : {"manual", "routing_provider"}, stop_sequence : {"blank", "stops"}]

ActualTemplate ==
    [operation_id : {"written"}, actual_fuel_liters : {"positive"},
     measurement_source : {"blank", "receipt"}]

Fields(i) == RequiredFields[i] \cup OptionalFields[i]
Importers == DOMAIN RequiredFields

Missing(r) == {f \in DOMAIN r : r[f] = "missing"}

\* With none of its headers in the sheet, a row is blank if every cell of it is.
IsBlankRow(r, others) ==
    IF Missing(r) = DOMAIN r THEN others = "blank"
    ELSE \A f \in DOMAIN r \ Missing(r) : r[f] = "blank"

-----------------------------------------------------------------------------
(* Parsing: each parser adds its field to the report or returns a value.   *)

\* Mutant of NumberIssues: a truth value is taken for the number it equals.
NumberIssuesBoolean(r, f, required) ==
    IF \/ r[f] \in NotNumbers \ {"boolean"}
       \/ required /\ r[f] = "blank"
    THEN {f} ELSE {}

\* parse_number; a missing column is reported with the columns.
NumberIssues(r, f, required) ==
    IF \/ r[f] \in NotNumbers
       \/ required /\ r[f] = "blank"
    THEN {f} ELSE {}

\* The importer's own check that a number it requires is above zero.
SignIssues(r, f) == IF r[f] \in {"negative", "zero"} THEN {f} ELSE {}

\* parse_vehicle_category, parse_activity_mode and parse_distance_source.
ChoiceIssues(r, f) == IF r[f] \in {"blank", "unknown"} THEN {f} ELSE {}

\* parse_vehicle with a catalogue; the plan importer passes none and takes any name.
VehicleIssues(r, i) ==
    IF i = "past" /\ r["vehicle"] = "unknown" THEN {"vehicle"} ELSE {}

\* _parse_stop_sequence.
StopIssues(r) == IF r["stop_sequence"] \in {"one", "gap"} THEN {"stop_sequence"} ELSE {}

\* Mutant of OperationIssues: a clash of mode and hours is blamed on the mode.
OperationIssuesOfMode(r) ==
    IF (r["activity_mode"] = "transport") # (r["lifting_hours"] \in Absent)
       \/ (r["activity_mode"] # "transport" /\ r["lifting_hours"] # "positive")
    THEN {"activity_mode"} ELSE {}

\* DailyOperation.__post_init__ on a row whose cells all parsed: it raises for the
\* first field that is wrong, and with these rows only the lifting hours still can be.
OperationIssues(r) ==
    LET lifts == r["activity_mode"] \in {"lifting", "transport_and_lifting"}
        hours == r["lifting_hours"]
    IN IF (lifts /\ hours # "positive") \/ (~lifts /\ hours \notin Absent)
       THEN {"lifting_hours"} ELSE {}

OperationCellIssues(r, i) ==
    (UNION {ChoiceIssues(r, f) : f \in {"vehicle_category", "activity_mode", "distance_source"}})
    \cup VehicleIssues(r, i)
    \cup NumberIssues(r, "lifting_hours", FALSE)
    \cup NumberIssues(r, "total_distance_km", TRUE)
    \cup SignIssues(r, "total_distance_km")

PlanIssues(r) ==
    LET parsed == (Missing(r) \cap RequiredFields["plan"])
                  \cup OperationCellIssues(r, "plan") \cup StopIssues(r)
    IN IF parsed # {} THEN parsed ELSE OperationIssues(r)

PastIssues(r) ==
    LET parsed == (Missing(r) \cap RequiredFields["past"])
                  \cup OperationCellIssues(r, "past")
                  \cup NumberIssues(r, "prepared_fuel_liters", TRUE)
                  \cup SignIssues(r, "prepared_fuel_liters")
    IN IF parsed # {} THEN parsed ELSE OperationIssues(r)

\* With no column for the measurement source its cell is looked up under the empty
\* header, so that what strays there is read for a source.  Of the three importers
\* only that of actual fuel has such a look-up.
StrayIsRead(i, r, others) ==
    i = "actual" /\ r["measurement_source"] = "missing" /\ others = "stray"

\* A missing required column is reported alone.
ActualIssues(r, others) ==
    LET columns == Missing(r) \cap RequiredFields["actual"]
    IN IF columns # {} THEN columns
       ELSE (IF r["operation_id"] = "blank" THEN {"operation_id"} ELSE {})
            \cup NumberIssues(r, "actual_fuel_liters", TRUE)
            \cup SignIssues(r, "actual_fuel_liters")
            \cup (IF r["measurement_source"] = "unknown" \/ StrayIsRead("actual", r, others)
                  THEN {"measurement_source"} ELSE {})

Issues(i, r, others) ==
    CASE i = "plan"   -> PlanIssues(r)
      [] i = "past"   -> PastIssues(r)
      [] i = "actual" -> ActualIssues(r, others)

-----------------------------------------------------------------------------
(* Reading a row, and correcting it and uploading it again.                *)

GoodRow ==
    [vehicle_category |-> "angber", vehicle |-> "catalogued", activity_mode |-> "transport",
     lifting_hours |-> "blank", total_distance_km |-> "positive", distance_source |-> "manual",
     stop_sequence |-> "blank", prepared_fuel_liters |-> "positive", operation_id |-> "written",
     actual_fuel_liters |-> "positive", measurement_source |-> "blank"]

\* Rows that follow a template; none comes with the importer of history.
GoodRows(i) ==
    {[f \in Fields(i) |-> t[f]] :
       t \in CASE i = "plan"   -> PlanTemplate
               [] i = "actual" -> ActualTemplate
               [] i = "past"   -> {GoodRow, [GoodRow EXCEPT !.activity_mode = "lifting"]}}

\* Any row that differs from a good one in the classes of at most two cells.
Rows(i) ==
    {[f \in Fields(i) |-> "missing"]} \cup {[f \in Fields(i) |-> "blank"]} \cup
    UNION {{[[good EXCEPT ![f] = x] EXCEPT ![g] = y] : x \in CellsOf[f], y \in CellsOf[g]} :
             good \in GoodRows(i), f \in Fields(i), g \in Fields(i)}

RowsInit ==
    /\ importer \in Importers
    /\ row \in Rows(importer)
    /\ rest \in Others
    /\ verdict = "unread"
    /\ reported = {}

ReadRow ==
    /\ verdict = "unread"
    /\ IF IsBlankRow(row, rest)
       THEN verdict' = "blank" /\ reported' = {}
       ELSE /\ reported' = Issues(importer, row, rest)
            /\ verdict' = IF reported' = {} THEN "accepted" ELSE "corrected"
    /\ UNCHANGED <<importer, row, rest>>

\* What a planner who does what the report says writes into a field.
Right(f) ==
    IF f = "lifting_hours"
    THEN IF row["activity_mode"] \in {"lifting", "transport_and_lifting"} THEN "positive" ELSE "blank"
    ELSE GoodRow[f]

Correct ==
    /\ verdict = "corrected"
    /\ row' = [f \in DOMAIN row |-> IF f \in reported THEN Right(f) ELSE row[f]]
    /\ verdict' = "unread"
    /\ UNCHANGED <<importer, rest, reported>>

RowsNext == ReadRow \/ Correct

RowsSpec == RowsInit /\ [][RowsNext]_cells /\ WF_cells(RowsNext)

-----------------------------------------------------------------------------
(* Properties.                                                             *)

\* Rows hold classes of cells, and the report names fields of the importer.
RowsTypeOK ==
    /\ importer \in Importers
    /\ DOMAIN row = Fields(importer)
    /\ \A f \in DOMAIN row : row[f] \in CellsOf[f]
    /\ rest \in Others
    /\ verdict \in {"unread", "blank", "accepted", "corrected"}
    /\ reported \subseteq Fields(importer)

\* The operation that a row describes, said once for all importers: no cell that
\* is not understood, positive quantities, lifting hours exactly when it lifts.
DescribesAnOperation(r) ==
    /\ r["vehicle_category"] = "angber"
    /\ r["total_distance_km"] = "positive"
    /\ r["distance_source"] \in {"manual", "routing_provider"}
    /\ \/ r["activity_mode"] = "transport" /\ r["lifting_hours"] \in Absent
       \/ /\ r["activity_mode"] \in {"lifting", "transport_and_lifting"}
          /\ r["lifting_hours"] = "positive"

MeansSomething(i, r) ==
    CASE i = "plan"   -> DescribesAnOperation(r) /\ r["stop_sequence"] \in Absent \cup {"stops"}
      [] i = "past"   -> /\ DescribesAnOperation(r) /\ r["prepared_fuel_liters"] = "positive"
                         /\ r["vehicle"] # "unknown"
      [] i = "actual" -> /\ r["operation_id"] = "written" /\ r["actual_fuel_liters"] = "positive"
                         /\ r["measurement_source"] # "unknown"

\* Parsing cell by cell, the importer's own checks and the domain's constructor
\* together let nothing wrong slip between two of them, and quarantine nothing right
\* but in one case: a row of actual fuel that is complete, in a sheet without the
\* optional column for its source, comes back because of a stray cell.
AcceptedRowsMeanSomething ==
    verdict # "unread" =>
        (verdict = "accepted" <=> MeansSomething(importer, row) /\ ~StrayIsRead(importer, row, rest))

\* A row is left out of the report only if there is nothing in it: what a planner
\* wrote is either accepted or told to be wrong.
NothingWrittenIsIgnored ==
    verdict = "blank" <=> /\ verdict # "unread"
                          /\ \A f \in DOMAIN row : row[f] \in Absent
                          /\ (\A f \in DOMAIN row : row[f] = "missing") => rest = "blank"

\* What the reading of a row comes to, for every combination of cells: it is accepted
\* exactly when it means something and no stray cell is read for its source, and is
\* passed over only when nothing is in it.
RowsInv == RowsTypeOK /\ AcceptedRowsMeanSomething /\ NothingWrittenIsIgnored

\* The report leads somewhere: whoever corrects the fields it names, and uploads
\* the row again as often as it comes back, has it accepted in the end.
CorrectionsConverge ==
    (verdict = "corrected") ~> (verdict = "accepted")
=============================================================================
