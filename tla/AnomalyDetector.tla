-------------------------- MODULE AnomalyDetector --------------------------
(***************************************************************************)
(* The AnomalyDetector of autonomy/anomaly_detector.py, whose record()     *)
(* holds the lock: a value is tested against running sums over the window  *)
(* before it enters it.  |v - mean| / stddev >= z is written without roots *)
(* and fractions; the values are whole, so that the sums are exact.        *)
(***************************************************************************)
EXTENDS Integers, Sequences, Functions

CONSTANTS Names, Readings,
          WindowSize,       \* window_size
          MinSamples,       \* min_samples
          ZMedium, ZHigh, ZCritical,   \* z_threshold_medium and so on
          MaxAnomalies,     \* the length of _anomalies
          MaxReadings       \* bound on the calls of record()

DetectorAssumption ==
  /\ Readings \subseteq Int /\ WindowSize \in Nat \ {0} /\ MinSamples \in Nat \ {0}
  /\ {ZMedium, ZHigh, ZCritical} \subseteq Nat /\ MaxAnomalies \in Nat \ {0}
  /\ MaxReadings \in Nat

VARIABLES windows,     \* _windows
          anomalies,   \* _anomalies
          verdict,     \* history: the last call's name, value and severity
          before,      \* history: the values its name had in the window
          readings     \* history: the calls so far

detectorVars == <<windows, anomalies, verdict, before, readings>>

Severities == {"none", "medium", "high", "critical"}
Window == [values : Seq(Readings), sum : Int, sumSq : Int, count : Nat]
Fresh  == [values |-> <<>>, sum |-> 0, sumSq |-> 0, count |-> 0]

TypeOK ==
  /\ DOMAIN windows \subseteq Names /\ \A n \in DOMAIN windows : windows[n] \in Window
  /\ Len(anomalies) <= MaxAnomalies /\ verdict \in Severities /\ readings \in Nat

Init == /\ windows = [n \in {} |-> Fresh] /\ anomalies = <<>>
        /\ verdict = "none" /\ before = <<>> /\ readings = 0

\* z >= T, with z the distance of v from the mean in standard deviations.
Deviates(v, w, z) ==
  (w.count * v - w.sum) * (w.count * v - w.sum)
    >= z * z * (w.count * w.sumSq - w.sum * w.sum)

\* _classify_severity(), for a window of enough values that are not all the same.
Classify(v, w) ==
  IF w.count < MinSamples \/ w.count * w.sumSq <= w.sum * w.sum THEN "none"
  ELSE IF Deviates(v, w, ZCritical) THEN "critical"
  ELSE IF Deviates(v, w, ZHigh) THEN "high"
  ELSE IF Deviates(v, w, ZMedium) THEN "medium" ELSE "none"

\* Faulty: the square of the value that leaves the window stays in the sum.
Evict_KeepsSquare(w) ==
  IF Len(w.values) < WindowSize THEN w
  ELSE [w EXCEPT !.values = Tail(@), !.sum = @ - Head(w.values), !.count = @ - 1]

Evict(w) ==
  IF Len(w.values) < WindowSize THEN w
  ELSE [values |-> Tail(w.values), sum |-> w.sum - Head(w.values),
        sumSq |-> w.sumSq - Head(w.values) * Head(w.values), count |-> w.count - 1]

Push(w, v) == [values |-> Append(w.values, v), sum |-> w.sum + v,
               sumSq |-> w.sumSq + v * v, count |-> w.count + 1]

Record(n, v) ==
  LET w == IF n \in DOMAIN windows THEN windows[n] ELSE Fresh IN
  /\ readings < MaxReadings /\ readings' = readings + 1
  /\ verdict' = Classify(v, w) /\ before' = Append(w.values, v)
  /\ anomalies' = IF verdict' = "none" THEN anomalies
                  ELSE LET all == Append(anomalies, <<n, v, verdict'>>)
                       IN  IF Len(all) > MaxAnomalies THEN Tail(all) ELSE all
  /\ windows' = [m \in DOMAIN windows \cup {n} |->
                   IF m = n THEN Push(Evict(w), v) ELSE windows[m]]

\* reset(name) forgets the window and keeps the anomalies; reset() forgets all.
Reset == /\ \/ windows' = [n \in {} |-> Fresh] /\ anomalies' = <<>>
            \/ \E n \in DOMAIN windows :
                 /\ windows' = [m \in DOMAIN windows \ {n} |-> windows[m]]
                 /\ UNCHANGED anomalies
         /\ verdict' = "none" /\ before' = <<>> /\ UNCHANGED readings

Next == (\E n \in Names, v \in Readings : Record(n, v)) \/ Reset

-----------------------------------------------------------------------------
Sum(s) == SumFunction(s)
Squares(s) == [i \in DOMAIN s |-> s[i] * s[i]]

\* The running sums are those of the window, however often it has slid.
SumsMatchWindow ==
  \A n \in DOMAIN windows :
    LET w == windows[n] IN
    /\ w.count = Len(w.values) /\ w.count <= WindowSize
    /\ w.sum = Sum(w.values) /\ w.sumSq = Sum(Squares(w.values))

\* So the last verdict is the one that the mean and the variance of the window's own
\* values give (anomaly_detector.py:102-106, 149-157).
VerdictFitsWindow ==
  before # <<>> =>
    LET n == Len(before) - 1
        s == SubSeq(before, 1, n)
        v == before[n + 1]
        d == [i \in DOMAIN s |-> n * s[i] - Sum(s)]          \* n times the deviations
        far(z) == n * (n * v - Sum(s)) * (n * v - Sum(s)) >= z * z * Sum(Squares(d))
    IN
    IF n < MinSamples \/ \A i \in DOMAIN d : d[i] = 0 THEN verdict = "none"
    ELSE /\ verdict = "critical" <=> far(ZCritical)
         /\ verdict \in {"high", "critical"} <=> far(ZHigh)
         /\ verdict # "none" <=> far(ZMedium)

AnomalyInv == TypeOK /\ SumsMatchWindow /\ VerdictFitsWindow
=============================================================================
