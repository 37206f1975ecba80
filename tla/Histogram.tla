----------------------------- MODULE Histogram -----------------------------
(***************************************************************************)
(* The Histogram of metrics.py, whose methods that write hold its lock.    *)
(* The maps _counts, _sums, _totals and _observations have the same keys   *)
(* and are one map here; values and bounds are whole numbers.              *)
(***************************************************************************)
EXTENDS Percentiles

CONSTANTS Keys, Values,      \* sets of labels, and the values observed
          Bounds,            \* _buckets
          MaxCardinality,    \* max_cardinality
          MaxObservations,   \* max_observations
          MaxObserves        \* bound on the calls of observe()

HistogramAssumption ==
  /\ IsFiniteSet(Keys) /\ IsFiniteSet(Bounds)
  /\ Values \subseteq Nat /\ Bounds \subseteq Nat /\ MaxCardinality \in Nat
  /\ MaxObservations \in Nat \ {0} /\ MaxObserves \in Nat

VARIABLES hist,   \* what each known set of labels maps to
          seen    \* history: the values counted for each set of labels

Entry == [counts : [Bounds -> Nat], sum : Nat, total : Nat, recent : Seq(Values)]
NewEntry == [counts |-> [b \in Bounds |-> 0], sum |-> 0, total |-> 0, recent |-> <<>>]

TypeOK ==
  /\ DOMAIN hist \subseteq Keys /\ Cardinality(DOMAIN hist) <= MaxCardinality
  /\ \A k \in DOMAIN hist : hist[k] \in Entry
  /\ seen \in [Keys -> Seq(Values)]

Init == hist = [k \in {} |-> NewEntry] /\ seen = [k \in Keys |-> <<>>]

Latest(s, n) == SubSeq(s, IF Len(s) > n THEN Len(s) - n + 1 ELSE 1, Len(s))

\* Faulty: a value on a bound falls into the next bucket.
Counts_Below(v, b) == v < b

Counts(v, b) == v <= b

Counted(e, v) ==
  [counts |-> [b \in Bounds |-> e.counts[b] + IF Counts(v, b) THEN 1 ELSE 0],
   sum    |-> e.sum + v,
   total  |-> e.total + 1,
   recent |-> Latest(Append(e.recent, v), MaxObservations)]

Known(k) == k \in DOMAIN hist

\* At the cardinality limit a value of a new set of labels is dropped.
Observe(k, v) ==
  /\ Known(k) \/ Cardinality(DOMAIN hist) < MaxCardinality
  /\ hist' = [j \in DOMAIN hist \cup {k} |->
                IF j = k THEN Counted(IF Known(k) THEN hist[k] ELSE NewEntry, v) ELSE hist[j]]
  /\ seen' = [seen EXCEPT ![k] = Append(@, v)]

Reset == hist' = [k \in {} |-> NewEntry] /\ seen' = [k \in Keys |-> <<>>]

Observed == SumFunction([k \in Keys |-> Len(seen[k])])

Next == \/ Observed < MaxObserves /\ \E k \in Keys, v \in Values : Observe(k, v)
        \/ Reset

Spec == Init /\ [][Next]_<<hist, seen>>

\* The line of the bucket b in to_prometheus(), which sums the counts up to b.
BucketLine(k, b) == SumFunctionOnSet(hist[k].counts, {a \in Bounds : a <= b})

-----------------------------------------------------------------------------
Within(s, b) == Cardinality({i \in DOMAIN s : s[i] <= b})

\* A bucket counts the values at or below its bound, out of all that were observed,
\* whatever has left the deque of the observations since; and every percentile of
\* what is in the deque is one of the latest values (metrics.py:154-206).
CountsAreExact ==
  \A k \in DOMAIN hist :
    /\ hist[k].total = Len(seen[k]) /\ hist[k].sum = SumFunction(seen[k])
    /\ \A b \in Bounds : hist[k].counts[b] = Within(seen[k], b)
    /\ hist[k].recent = Latest(seen[k], MaxObservations)
    /\ PercentilesAgree(hist[k].recent, {0, 50, 95, 100})

HistogramInv == TypeOK /\ CountsAreExact

\* metrics.py:3: "Prometheus-compatible text exposition format.": the bucket lines of
\* that format are cumulative, and none exceeds the line of all the values.
BucketsCumulative == \A k \in DOMAIN hist, b \in Bounds : BucketLine(k, b) <= hist[k].total
=============================================================================
