---------------------------- MODULE HealthTuner ----------------------------
(***************************************************************************)
(* The HealthThresholdTuner of autonomy/health_tuner.py: the thresholds of *)
(* one check, learnt from a window of its durations.  Every method holds   *)
(* the lock while it touches the history.  Percentiles and multipliers     *)
(* are whole numbers, thresholds are in hundredths.                        *)
(***************************************************************************)
EXTENDS Percentiles

CONSTANTS Durations,
          HistorySize, MinSamples,                      \* history_size and min_samples
          DegradedPercentile, UnhealthyPercentile,      \* degraded_percentile and so on
          DegradedMultiplier, UnhealthyMultiplier,
          DegradedDefault, UnhealthyDefault,            \* those of _default_thresholds()
          MaxChecks                                     \* bound on the checks

TunerAssumption ==
  /\ Durations \subseteq Nat /\ HistorySize \in Nat \ {0} /\ MinSamples \in Nat \ {0}
  /\ DegradedPercentile \in 0..100 /\ UnhealthyPercentile \in DegradedPercentile..100
  /\ DegradedMultiplier \in Nat /\ UnhealthyMultiplier >= DegradedMultiplier
  /\ DegradedDefault <= UnhealthyDefault /\ MaxChecks \in Nat

VARIABLES durations,             \* hist.durations
          successes, failures    \* hist.successes and hist.failures

historyVars == <<durations, successes, failures>>

TypeOK == /\ durations \in Seq(Durations) /\ Len(durations) <= HistorySize
          /\ successes \in Nat /\ failures \in Nat

Init == durations = <<>> /\ successes = 0 /\ failures = 0

\* record_check(): the deque is bounded, the two totals are not.
RecordCheck(d, ok) ==
  /\ successes + failures < MaxChecks
  /\ durations' = LET s == Append(durations, d)
                  IN  IF Len(s) > HistorySize THEN Tail(s) ELSE s
  /\ IF ok THEN successes' = successes + 1 /\ UNCHANGED failures
           ELSE failures' = failures + 1 /\ UNCHANGED successes

Reset == durations' = <<>> /\ successes' = 0 /\ failures' = 0

Next == (\E d \in Durations, ok \in BOOLEAN : RecordCheck(d, ok)) \/ Reset

\* Faulty: the lower of the two candidates is taken.
Threshold_Lower(p, multiplier, medians) ==
  Min({Weighted(durations, p) * multiplier, Weighted(durations, 50) * medians})

\* get_thresholds(): multiples of a percentile, or of the median if that is more.
Threshold(p, multiplier, medians) ==
  Max({Weighted(durations, p) * multiplier, Weighted(durations, 50) * medians})

Learnt == Len(durations) >= MinSamples
DegradedAt == IF Learnt THEN Threshold(DegradedPercentile, DegradedMultiplier, 3)
                        ELSE 100 * DegradedDefault
UnhealthyAt == IF Learnt THEN Threshold(UnhealthyPercentile, UnhealthyMultiplier, 10)
                         ELSE 100 * UnhealthyDefault

-----------------------------------------------------------------------------
\* A duration that is_unhealthy() reports is one that is_degraded() reports, and one
\* that was usual for the check, at or below the degraded percentile of its history,
\* is neither unless it is zero (health_tuner.py:86-142).
ThresholdsInv ==
  /\ TypeOK /\ DegradedAt <= UnhealthyAt
  /\ Learnt /\ DegradedMultiplier > 1 =>
       \A d \in Durations \ {0} :
         100 * d <= Weighted(durations, DegradedPercentile) => 100 * d < DegradedAt
=============================================================================
