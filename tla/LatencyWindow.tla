--------------------------- MODULE LatencyWindow ---------------------------
(***************************************************************************)
(* What the latency figures mean: nearest-rank percentiles of the last     *)
(* Size requests.  The p-th percentile is the smallest of the samples that *)
(* at least p of a hundred do not exceed.                                  *)
(***************************************************************************)
EXTENDS Integers, Sequences, FiniteSets

\* The last size elements of s.
Window(s, size) == SubSeq(s, IF Len(s) > size THEN Len(s) - size + 1 ELSE 1, Len(s))

AtMost(w, d) == Cardinality({i \in DOMAIN w : w[i] <= d})

NearestRank(w, p) ==
    CHOOSE d \in {w[i] : i \in DOMAIN w} :
        /\ 100 * AtMost(w, d) >= p * Len(w)
        /\ \A i \in DOMAIN w : 100 * AtMost(w, w[i]) >= p * Len(w) => d <= w[i]

\* No figures at all when nothing has been measured.
Summary(w) ==
    [samples |-> Len(w),
     p50 |-> IF w = <<>> THEN 0 ELSE NearestRank(w, 50),
     p95 |-> IF w = <<>> THEN 0 ELSE NearestRank(w, 95),
     p99 |-> IF w = <<>> THEN 0 ELSE NearestRank(w, 99)]

=============================================================================
