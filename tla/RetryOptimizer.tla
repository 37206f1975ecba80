--------------------------- MODULE RetryOptimizer ---------------------------
(***************************************************************************)
(* The RetryOptimizer of autonomy/retry_optimizer.py: the number of        *)
(* retries it recommends from a window of outcomes.  The delays it also    *)
(* recommends are averages in floating point and are left out.             *)
(***************************************************************************)
EXTENDS Lists

CONSTANTS Attempts,                  \* values of attempts_used
          HistorySize, MinSamples,   \* history_size and min_samples
          RarePercent,               \* the rate of 0.05 below which retries are rare
          MaxOutcomes                \* bound on the outcomes

OptimizerAssumption ==
  /\ Attempts \subseteq Nat /\ HistorySize \in Nat \ {0} /\ MinSamples \in Nat \ {0}
  /\ RarePercent \in 0..100 /\ MaxOutcomes \in Nat

VARIABLES outcomes,   \* _outcomes of one name
          recorded    \* the number of outcomes so far

Outcome == [attempts : Attempts, success : BOOLEAN]

TypeOK == /\ outcomes \in Seq(Outcome) /\ Len(outcomes) <= HistorySize
          /\ recorded \in 0..MaxOutcomes

Init == outcomes = <<>> /\ recorded = 0

RecordOutcome(o) ==
  /\ recorded < MaxOutcomes /\ recorded' = recorded + 1
  /\ outcomes' = LET s == Append(outcomes, o)
                 IN  IF Len(s) > HistorySize THEN Tail(s) ELSE s

Next == \E o \in Outcome : RecordOutcome(o)

Successes == Keeping(outcomes, {o \in Outcome : o.success})
RetrySuccesses == Keeping(Successes, {o \in Outcome : o.attempts > 1})

\* Faulty: the index of the smallest number is used for that of the ninth tenth.
NinetyPercentIndex_Low(n) == n \div 10

\* int(n * 0.9), counted from 0 and kept within the list.
NinetyPercentIndex(n) == Min({(9 * n) \div 10, n - 1})

P90Attempts ==
  LET s == Ascending([i \in DOMAIN Successes |-> Successes[i].attempts])
  IN  s[NinetyPercentIndex(Len(s)) + 1]

\* get_recommendation(): the attempts of nine successes in ten, and fewer if hardly
\* any success needed a retry; without enough outcomes the default of 3.
RetriesRare ==
  RetrySuccesses # <<>> /\ 100 * Len(RetrySuccesses) < RarePercent * Len(outcomes)

MaxRetries ==
  LET usual == IF Successes = <<>> THEN 1 ELSE Max({1, P90Attempts}) IN
  IF Len(outcomes) < MinSamples THEN 3
  ELSE IF RetriesRare THEN 1
  ELSE IF RetrySuccesses = <<>> /\ Len(outcomes) > MinSamples THEN Max({1, usual - 1})
  ELSE usual

-----------------------------------------------------------------------------
\* Unless retries rarely help, at least nine successes in ten needed no more than
\* the recommended attempts, and with no success the recommendation is the least
\* (retry_optimizer.py:73-76, 95-127).
RetriesCoverSuccesses ==
  Len(outcomes) >= MinSamples =>
    /\ Successes = <<>> => MaxRetries = 1
    /\ ~RetriesRare =>
         10 * Len(Keeping(Successes, {o \in Outcome : o.attempts <= MaxRetries}))
           >= 9 * Len(Successes)

OptimizerInv == TypeOK /\ RetriesCoverSuccesses
=============================================================================
