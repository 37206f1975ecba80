------------------------- MODULE EfficientHistogram -------------------------
(***************************************************************************)
(* The EfficientHistogram of performance/efficient_histogram.py: sorted    *)
(* bounds and a binary search in place of Histogram's scan.  It drops no   *)
(* set of labels and keeps no observations, but their extremes.            *)
(***************************************************************************)
EXTENDS Percentiles

CONSTANTS Keys, Values,      \* sets of labels, and the values observed
          Bounds,            \* _buckets, a set as the constructor sorts them
          MaxObservations,   \* of the Histogram it stands in for
          MaxObserves        \* bound on the calls of observe()

VARIABLES hist,   \* what each known set of labels maps to
          seen    \* history: the values observed for each set of labels

BucketList ==
  CHOOSE s \in [1..Cardinality(Bounds) -> Bounds] :
    \A i, j \in DOMAIN s : i < j => s[i] < s[j]

\* bisect.bisect_left: the number of bounds below the value.
BisectLeft(v) ==
  CHOOSE i \in 0..Len(BucketList) :
    \A j \in DOMAIN BucketList : j <= i <=> BucketList[j] < v

\* Faulty: bisect_right, which skips a bound equal to the value.
FirstBucket_Right(v) == Cardinality({b \in Bounds : b <= v})

FirstBucket(v) == BisectLeft(v)

\* _ensure_key(); the infinities of _mins and _maxs are the value itself, which the
\* caller is about to compare with them.
Fresh(v) == [counts |-> [b \in Bounds |-> 0], sum |-> 0, total |-> 0, min |-> v, max |-> v]

Init == hist = [k \in {} |-> Fresh(0)] /\ seen = [k \in Keys |-> <<>>]

Counted(e, v) ==
  LET hit == {BucketList[i] : i \in (FirstBucket(v) + 1)..Len(BucketList)} IN
  [counts |-> [b \in Bounds |-> e.counts[b] + IF b \in hit THEN 1 ELSE 0],
   sum    |-> e.sum + v,
   total  |-> e.total + 1,
   min    |-> IF v < e.min THEN v ELSE e.min,
   max    |-> IF v > e.max THEN v ELSE e.max]

Observe(k, v) ==
  /\ hist' = [j \in DOMAIN hist \cup {k} |->
                IF j = k THEN Counted(IF j \in DOMAIN hist THEN hist[j] ELSE Fresh(v), v)
                         ELSE hist[j]]
  /\ seen' = [seen EXCEPT ![k] = Append(@, v)]

Observed == SumFunction([k \in Keys |-> Len(seen[k])])

Next == Observed < MaxObserves /\ \E k \in Keys, v \in Values : Observe(k, v)

Spec == Init /\ [][Next]_<<hist, seen>>

\* The lines of to_prometheus() are the counts as they are, and all are read under
\* the lock.
BucketLine(k, b) == hist[k].counts[b]

-----------------------------------------------------------------------------
Latest(s, n) == SubSeq(s, IF Len(s) > n THEN Len(s) - n + 1 ELSE 1, Len(s))

Plain == INSTANCE Histogram WITH
           MaxCardinality <- Cardinality(Keys),
           hist <- [k \in DOMAIN hist |->
                      [counts |-> hist[k].counts, sum |-> hist[k].sum,
                       total |-> hist[k].total, recent |-> Latest(seen[k], MaxObservations)]]

\* To a caller it is a Histogram that never reaches its cardinality limit
\* (efficient_histogram.py:21-34).
RefinesHistogram == Plain!Spec

\* Its export is cumulative and bounded by the line of all the values, and the
\* minimum and maximum of get_stats() are those of all the values.
ExportIsCumulative ==
  \A k \in DOMAIN hist :
    /\ \A a, b \in Bounds : a <= b => BucketLine(k, a) <= BucketLine(k, b)
    /\ \A b \in Bounds : BucketLine(k, b) <= hist[k].total
    /\ hist[k].min = Min(Range(seen[k])) /\ hist[k].max = Max(Range(seen[k]))
=============================================================================
