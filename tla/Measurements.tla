---------------------------- MODULE Measurements ----------------------------
(***************************************************************************)
(* What the system concludes from the predictions it made and the fuel     *)
(* that was used: the performance of its predictions (actual_fuel), the    *)
(* rolling error trend and the degradation of a vehicle category that      *)
(* raises an alert (monitoring).                                           *)
(*                                                                         *)
(* Litres are whole numbers, and a mean is the pair of a sum and a count,  *)
(* compared without dividing.  An operation counts once its actual fuel is *)
(* recorded and some prediction was made for it; the latest one is judged, *)
(* made before the fuel was recorded or after.                             *)
(***************************************************************************)
EXTENDS Integers, Sequences, FiniteSets, FiniteSetsExt

CONSTANTS
    Operations,      \* daily operations
    CategoryOf,      \* the vehicle category of each
    NoPrediction,
    Answers,         \* bound: what models answer, below zero too
    MaxLiters,       \* bound on the amounts recorded
    Uncertainty,     \* uncertainty_liters of the model that serves
    Margin,          \* settings.initial_safety_margin_liters
    RollingWindow,   \* settings.monitoring_rolling_error_window
    MinimumOutcomes, \* settings.monitoring_min_matched_outcomes
    MaxMae           \* settings.max_active_model_mae_liters

ASSUME SettingsAreCounts ==
    /\ {MaxLiters, Uncertainty, Margin, MaxMae} \subseteq Nat
    /\ {RollingWindow, MinimumOutcomes} \subseteq Nat \ {0}
    /\ Answers \subseteq Int

VARIABLES
    predicted,  \* predictions: the latest of each operation, or NoPrediction
    liters,     \* actual_fuel_records.actual_fuel_liters, or 0 where there is no row
    recorded    \* the operations with actual fuel, in the order of recorded_at

measured == <<predicted, liters, recorded>>

-----------------------------------------------------------------------------
(* Predictions and actual fuel.                                            *)

Larger(a, b) == IF a > b THEN a ELSE b
Distance(a, b) == Larger(a - b, b - a)

\* What GenerateFuelPrediction makes of the number its model answers.
Prediction(answer) ==
    LET estimate == Larger(0, answer)
        upper == estimate + Uncertainty
    IN [estimate |-> estimate,
        lower |-> Larger(0, estimate - Uncertainty),
        upper |-> upper,
        recommended |-> Larger(estimate, Larger(upper, estimate + Margin))]

MeasuresInit ==
    /\ predicted = [o \in Operations |-> NoPrediction]
    /\ liters = [o \in Operations |-> 0]
    /\ recorded = <<>>

Predict(o, answer) ==
    /\ predicted' = [predicted EXCEPT ![o] = Prediction(answer)]
    /\ UNCHANGED <<liters, recorded>>

\* An amount that is not positive, or a second record, is refused.
RecordActual(o, amount) ==
    /\ amount > 0
    /\ liters[o] = 0
    /\ liters' = [liters EXCEPT ![o] = amount]
    /\ recorded' = Append(recorded, o)
    /\ UNCHANGED predicted

MeasuresNext ==
    \E o \in Operations :
       \/ \E answer \in Answers : Predict(o, answer)
       \/ \E amount \in 0..MaxLiters : RecordActual(o, amount)

MeasuresSpec == MeasuresInit /\ [][MeasuresNext]_measured

-----------------------------------------------------------------------------
(* Outcomes.                                                               *)

\* get_timed_prediction_outcomes.  An outcome is named by its place in the order of
\* recorded_at, in which both functions of monitoring sort them.
PredictionOutcomes == {i \in DOMAIN recorded : predicted[recorded[i]] # NoPrediction}

Category(i) == CategoryOf[recorded[i]]
Categories == {Category(i) : i \in PredictionOutcomes}

OutcomesOf(category) == {i \in PredictionOutcomes : Category(i) = category}

Error(i) == Distance(predicted[recorded[i]].estimate, liters[recorded[i]])

\* sum() of the values of F.
Total(F) == MapThenSumSet(LAMBDA x : F[x], DOMAIN F)

TotalError(outcomes) == Total([i \in outcomes |-> Error(i)])

-----------------------------------------------------------------------------
(* calculate_performance_metrics.                                          *)

Covered(i) == LET p == predicted[recorded[i]]
              IN p.lower <= liters[recorded[i]] /\ liters[recorded[i]] <= p.upper

\* The denominator of an outcome's share in the symmetric percentage error.
SmapeDenominator(i) == predicted[recorded[i]].estimate + liters[recorded[i]]

PerformanceMetrics(outcomes) ==
    [count |-> Cardinality(outcomes),
     error |-> TotalError(outcomes),
     squares |-> Total([i \in outcomes |-> Error(i) * Error(i)]),
     covered |-> Total([i \in outcomes |-> IF Covered(i) THEN 1 ELSE 0])]

Overall == PerformanceMetrics(PredictionOutcomes)
PerCategory == [c \in Categories |-> PerformanceMetrics(OutcomesOf(c))]

-----------------------------------------------------------------------------
(* Rolling errors.                                                         *)

\* The outcomes up to i that are preceded by fewer than RollingWindow, backwards from i.
RollingSlice(outcomes, i) ==
    {j \in outcomes : j <= i /\ Cardinality({k \in outcomes : j < k /\ k <= i}) < RollingWindow}

\* Mutant of RollingErrorTrend: the slice ends before the outcome it is shown at.
RollingErrorTrendLate ==
    [i \in PredictionOutcomes |->
       LET slice == RollingSlice(PredictionOutcomes, i - 1)
       IN [count |-> Cardinality(slice), error |-> TotalError(slice)]]

RollingErrorTrend ==
    [i \in PredictionOutcomes |->
       LET slice == RollingSlice(PredictionOutcomes, i)
       IN [count |-> Cardinality(slice), error |-> TotalError(slice)]]

\* Mutant of RecentOutcomes: the oldest outcomes of the category are judged.
OldestOutcomes(category) ==
    {j \in OutcomesOf(category) :
       Cardinality({k \in OutcomesOf(category) : k < j}) < RollingWindow}

RecentOutcomes(category) == RollingSlice(OutcomesOf(category), Len(recorded))

IsDegraded(category) ==
    LET recent == RecentOutcomes(category)
    IN /\ Cardinality(recent) >= MinimumOutcomes
       /\ TotalError(recent) > MaxMae * Cardinality(recent)

Degraded == {c \in Categories : IsDegraded(c)}

-----------------------------------------------------------------------------
(* Properties.                                                             *)

\* Every operation is recorded once, for an amount, and every prediction is one that the
\* use case makes.
MeasuresTypeOK ==
    /\ predicted \in [Operations -> {NoPrediction} \cup {Prediction(a) : a \in Answers}]
    /\ liters \in [Operations -> 0..MaxLiters]
    /\ recorded \in Seq(Operations)
    /\ \A i, j \in DOMAIN recorded : i # j => recorded[i] # recorded[j]
    /\ \A i \in DOMAIN recorded : liters[recorded[i]] > 0

\* The RollingWindow latest of some outcomes, or all when there are fewer.
AreLatest(latest, outcomes) ==
    /\ \A i \in latest, j \in outcomes \ latest : j < i
    /\ \/ Cardinality(latest) = RollingWindow
       \/ latest = outcomes /\ Cardinality(latest) < RollingWindow

\* A category's alert says what its latest outcomes say: it is raised when each of
\* the last RollingWindow exceeds the threshold, it is over once none of them does,
\* and it is never raised on fewer than MinimumOutcomes of them.
AlertsFollowTheLatestOutcomes ==
    \A c \in Categories :
       \E latest \in SUBSET OutcomesOf(c) :
          /\ AreLatest(latest, OutcomesOf(c))
          /\ (\A i \in latest : Error(i) > MaxMae) /\ Cardinality(latest) >= MinimumOutcomes
                => c \in Degraded
          /\ (\A i \in latest : Error(i) <= MaxMae) => c \notin Degraded
          /\ Cardinality(latest) < MinimumOutcomes => c \notin Degraded

\* The two rolling errors of the monitoring page do not contradict each other: when
\* all outcomes are of one category, its error is the last point of the trend, and
\* the alert is the comparison of that point with the threshold.
TrendAgreesWithTheAlert ==
    \A c \in Categories, i \in PredictionOutcomes :
       (Categories = {c} /\ \A j \in PredictionOutcomes : j <= i) =>
          LET last == RollingErrorTrend[i]
          IN c \in Degraded <=> last.count >= MinimumOutcomes /\ last.error > MaxMae * last.count

\* The performance of the whole is that of its categories put together.
PartsMakeTheWhole ==
    \A field \in {"count", "error", "squares", "covered"} :
       Overall[field] = Total([c \in Categories |-> PerCategory[c][field]])

\* Whatever was predicted and recorded, no metric divides by zero, an outcome is
\* covered by its interval exactly when its error is within the uncertainty, although
\* the interval is cut off at zero, and one that is covered was given enough fuel.
MetricsMeanSomething ==
    \A i \in PredictionOutcomes :
       /\ SmapeDenominator(i) > 0
       /\ Covered(i) <=> Error(i) <= Uncertainty
       /\ Covered(i) => liters[recorded[i]] <= predicted[recorded[i]].recommended

\* What the measures of one history come to: records made once, and metrics, trend
\* and alerts that say the same of them.
MeasuresInv ==
    MeasuresTypeOK /\ TrendAgreesWithTheAlert /\ PartsMakeTheWhole /\ MetricsMeanSomething
=============================================================================
