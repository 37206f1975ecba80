---------------------------- MODULE Percentiles ----------------------------
(***************************************************************************)
(* The percentile of a window of samples, which three files compute with   *)
(* formulas of their own: metrics.py, resilience/adaptive_timeout.py and   *)
(* autonomy/health_tuner.py.  Percentages are whole numbers; a result is   *)
(* in hundredths of the samples' unit, so that none is rounded.            *)
(***************************************************************************)
EXTENDS Lists

\* Faulty: the rank is taken of n samples, not of the n - 1 steps between them.
Position_OfCount(s, p) == p * Len(s)

\* k = (p / 100) * (n - 1), in hundredths, for samples counted from 0.
Position(s, p) == p * (Len(s) - 1)

\* Histogram.get_percentile and AdaptiveTimeout._compute_percentile.
Interpolated(window, p) ==
  LET s     == Ascending(window)
      lower == Position(s, p) \div 100
  IN
  IF lower + 1 >= Len(s)
    THEN 100 * s[Len(s)]
    ELSE 100 * s[lower + 1] + (Position(s, p) % 100) * (s[lower + 2] - s[lower + 1])

\* HealthThresholdTuner._percentile, between the floor and the ceiling of k.
Weighted(window, p) ==
  LET s == Ascending(window)
      k == p * (Len(s) - 1)
      f == k \div 100
      c == (k + 99) \div 100
  IN
  IF f = c THEN 100 * s[f + 1]
           ELSE s[f + 1] * (100 * c - k) + s[c + 1] * (k - 100 * f)

AtMost(window, x) == Cardinality({i \in DOMAIN window : 100 * window[i] <= x})
AtLeast(window, x) == Cardinality({i \in DOMAIN window : 100 * window[i] >= x})

\* The formulas agree, a larger percentage never gives a smaller value, and the
\* value splits the samples: of the n - 1 steps between them the fraction p / 100,
\* rounded down, lies at or below it, and the rest at or above.
PercentilesAgree(window, ps) ==
  \A p \in ps :
    LET x == Interpolated(window, p) IN
    /\ Weighted(window, p) = x
    /\ AtMost(window, x) > (p * (Len(window) - 1)) \div 100
    /\ AtLeast(window, x) > ((100 - p) * (Len(window) - 1)) \div 100
    /\ \A q \in ps : p <= q => x <= Interpolated(window, q)
=============================================================================
