----------------------------- MODULE MCFunctions -----------------------------
(* What is computed from rows (Spreadsheets) and from outcomes             *)
(* (Measurements), over all the small inputs.  The two share no state: a   *)
(* behaviour is about the one or about the other, and the half it is not   *)
(* about stays where it began.                                             *)
EXTENDS Spreadsheets, Measurements, TLC

VARIABLE subject

\* One answer below zero, and one above the uncertainty.
SmallAnswers == {-1, 2}

\* One operation of a category, the others of another.
Groups == (CHOOSE f \in [Operations -> {"crane", "truck"}] :
             Cardinality({o \in Operations : f[o] = "crane"}) = 1)

FunctionsInit ==
    /\ RowsInit
    /\ MeasuresInit
    /\ subject \in {"rows", "outcomes"}
    /\ subject = "outcomes" => importer = "actual" /\ row = [f \in Fields("actual") |-> "blank"]
                               /\ rest = "blank"

ReadRows == subject = "rows" /\ RowsNext /\ UNCHANGED <<measured, subject>>
Measure == subject = "outcomes" /\ MeasuresNext /\ UNCHANGED <<cells, subject>>

FunctionsSpec ==
    /\ FunctionsInit
    /\ [][ReadRows \/ Measure]_<<cells, measured, subject>>
    /\ WF_cells(ReadRows)
=============================================================================
