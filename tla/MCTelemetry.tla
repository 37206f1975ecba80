---------------------------- MODULE MCTelemetry ----------------------------
(***************************************************************************)
(* What the package keeps of the telemetry, and what it learns from it: a  *)
(* behaviour has the offline buffer or the offline storage, the tracer or  *)
(* the correlation identifier, one of the two histograms, the anomaly      *)
(* detector, or one of the parts that tune themselves.                     *)
(***************************************************************************)
EXTENDS OfflineBuffer

CONSTANTS MaxEntries, MaxStored, MaxMillis, MaxCrashes,
          Tasks, MaxSpans, MaxOpened, Contexts, MaxDepth, MaxIds,
          Keys, Values, Bounds, MaxCardinality, MaxObservations, MaxObserves,
          Names, Readings, MaxAnomalies, MaxReadings,
          Durations, Latencies, Attempts, WindowSize, HistorySize, MinSamples, MaxSamples

VARIABLES
  part,   \* which of them
  memory, disk, ms, job, stored, synced, lost, swept, unsaved, crashes,
  current, open, parent, trace, owner, spans, ending, checking, copy, started, inherited,
  recorded, raced,
  identifier, slot, scopes, ids, left, running,
  hist, seen, fast, observed,
  windows, anomalies, verdict, before, readings,
  samples, tick, sample, total, all,
  durations, successes, failures,
  outcomes, told

Storage == INSTANCE OfflineStorage
  WITH BatchSize <- 1, MaxRecords <- MaxStored, MaxTime <- MaxMillis
Trace   == INSTANCE Tracing WITH completed <- spans
Corr    == INSTANCE Correlation WITH current <- identifier, started <- running
Simple  == INSTANCE Histogram
Fast    == INSTANCE EfficientHistogram WITH hist <- fast, seen <- observed
Anomaly == INSTANCE AnomalyDetector WITH ZMedium <- 1, ZHigh <- 2, ZCritical <- 3
Adapt   == INSTANCE AdaptiveTimeout
  WITH now <- tick, history <- all, Durations <- Latencies, WindowSeconds <- 1,
       Percentage <- 100, Multiplier <- 2, MinTimeout <- 3, MaxTimeout <- 7,
       InitialTimeout <- 5
Health  == INSTANCE HealthTuner
  WITH DegradedPercentile <- 90, UnhealthyPercentile <- 99, DegradedMultiplier <- 2,
       UnhealthyMultiplier <- 5, DegradedDefault <- 10, UnhealthyDefault <- 50,
       MaxChecks <- MaxReadings
Retry   == INSTANCE RetryOptimizer
  WITH recorded <- told, RarePercent <- 30, MaxOutcomes <- MaxReadings

ASSUME TelemetryAssumption ==
  /\ BufferAssumption /\ Storage!StorageAssumption
  /\ Trace!TracerAssumption /\ Corr!CorrelationAssumption
  /\ Simple!HistogramAssumption /\ Anomaly!DetectorAssumption
  /\ Adapt!TimeoutAssumption /\ Health!TunerAssumption /\ Retry!OptimizerAssumption

storageVars  == <<memory, disk, ms, job, stored, synced, lost, swept, unsaved, crashes>>
tracerVars   == <<current, open, parent, trace, owner, spans, ending, checking, copy,
                  started, inherited, recorded, raced>>
corrVars     == <<identifier, slot, scopes, ids, left, running>>
simpleVars   == <<hist, seen>>
fastVars     == <<fast, observed>>
detectorVars == <<windows, anomalies, verdict, before, readings>>
timeoutVars  == <<samples, tick, sample, total, all>>
historyVars  == <<durations, successes, failures>>
retryVars    == <<outcomes, told>>
keeping      == <<vars, storageVars, tracerVars, corrVars>>
learning     == <<simpleVars, fastVars, detectorVars, timeoutVars, historyVars, retryVars>>

TelemetryInit ==
  /\ part \in {"buffer", "storage", "tracer", "correlation", "histogram",
               "efficient", "anomaly", "timeout", "health", "retry"}
  /\ Init /\ Storage!Init /\ Trace!Init /\ Corr!Init /\ Simple!Init /\ Fast!Init
  /\ Anomaly!Init /\ Adapt!Init /\ Health!Init /\ Retry!Init

Keep ==
  \/ part = "buffer" /\ Next /\ UNCHANGED <<storageVars, tracerVars, corrVars>>
  \/ part = "storage" /\ Storage!Next /\ UNCHANGED <<vars, tracerVars, corrVars>>
  \/ part = "tracer" /\ Trace!Next /\ UNCHANGED <<vars, storageVars, corrVars>>
  \/ part = "correlation" /\ Corr!Next /\ UNCHANGED <<vars, storageVars, tracerVars>>

Learn ==
  \/ /\ part = "histogram" /\ Simple!Next
     /\ UNCHANGED <<fastVars, detectorVars, timeoutVars, historyVars, retryVars>>
  \/ /\ part = "efficient" /\ Fast!Next
     /\ UNCHANGED <<simpleVars, detectorVars, timeoutVars, historyVars, retryVars>>
  \/ /\ part = "anomaly" /\ Anomaly!Next
     /\ UNCHANGED <<simpleVars, fastVars, timeoutVars, historyVars, retryVars>>
  \/ /\ part = "timeout" /\ Adapt!Next
     /\ UNCHANGED <<simpleVars, fastVars, detectorVars, historyVars, retryVars>>
  \/ /\ part = "health" /\ Health!Next
     /\ UNCHANGED <<simpleVars, fastVars, detectorVars, timeoutVars, retryVars>>
  \/ /\ part = "retry" /\ Retry!Next
     /\ UNCHANGED <<simpleVars, fastVars, detectorVars, timeoutVars, historyVars>>

TelemetryNext ==
  /\ UNCHANGED part
  /\ \/ Keep /\ UNCHANGED learning
     \/ Learn /\ UNCHANGED keeping

TelemetrySpec == TelemetryInit /\ [][TelemetryNext]_<<part, keeping, learning>>

\* Whatever crashes or fails, every entry is in one place or was synced, lost to a crash or
\* to a file, cleared, swept away, or not put back by a write that raised
\* (offline_storage.py:87-214).
StorageInv == part = "storage" => Storage!StorageInv

\* Spans nest within a task, and the latest are kept (tracing.py:87-146).
TraceInv == part = "tracer" => Trace!TraceInv

\* A scope restores the identifier it replaced (correlation.py:27-103).
CorrelationInv == part = "correlation" => Corr!CorrelationInv

\* A bucket counts the values at or below its bound; the efficient histogram exports
\* those counts as they are (metrics.py:154-206, efficient_histogram.py:62-113).
HistogramInv == /\ part = "histogram" => Simple!HistogramInv
                /\ part = "efficient" => Fast!ExportIsCumulative

\* To a caller the efficient histogram is a histogram that never reaches its
\* cardinality limit (efficient_histogram.py:21-34).
RefinesHistogram == Fast!RefinesHistogram

\* The running sums are those of the window (anomaly_detector.py:88-157).
AnomalyInv == part = "anomaly" => Anomaly!AnomalyInv

\* What is learnt from a window covers the samples in it: the timeout the slowest, the
\* thresholds the usual, the retries nine in ten (adaptive_timeout.py:76-91,
\* health_tuner.py:86-142, retry_optimizer.py:68-135).
TunersInv == /\ part = "timeout" => Adapt!TimeoutInv
             /\ part = "health" => Health!ThresholdsInv
             /\ part = "retry" => Retry!OptimizerInv
=============================================================================
