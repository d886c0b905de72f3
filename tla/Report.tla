------------------------------- MODULE Report -------------------------------
(***************************************************************************)
(* The report of the load generator (cmd/loadgen/stats.go): nearest-rank   *)
(* percentiles, the counts, the ratios and the verdict.  A sample is one   *)
(* completed request.  Time is counted in half microseconds, so that the   *)
(* rounding of the report to a microsecond is visible; ratios and          *)
(* percentiles are counted in millionths.                                  *)
(***************************************************************************)
EXTENDS Integers, Sequences, TLC

Million == 1000000

\* An error budget that is no number: validate asks whether it is below 0 or above 1,
\* and NaN is neither.  It stands for a value validate refuses; no comparison with
\* it holds.
NaN == 2 * Million
Exceeds(f, g) == g # NaN /\ f > g

Percentiles == {500000, 900000, 950000, 990000, 999000}

responseTime(s) == s.completedAt - s.scheduledAt

\* Mutant: the rank is rounded down.
percentileIndex_Floor(n, pm) ==
    IF n <= 0 THEN -1
    ELSE LET idx == (pm * n) \div Million - 1
         IN IF idx < 0 THEN 0 ELSE IF idx > n - 1 THEN n - 1 ELSE idx

percentileIndex(n, pm) ==
    IF n <= 0 THEN -1
    ELSE IF pm <= 0 THEN 0
    ELSE IF pm >= Million THEN n - 1
    ELSE LET idx == (pm * n + (Million - 1)) \div Million - 1
         IN IF idx < 0 THEN 0 ELSE IF idx > n - 1 THEN n - 1 ELSE idx

\* The index counts from zero.
percentile(sorted, pm) ==
    LET i == percentileIndex(Len(sorted), pm)
    IN IF i < 0 THEN 0 ELSE sorted[i + 1]

\* Half away from zero, as math.Round; f is the fraction num/den.
Round(num, den) == (2 * num + den) \div (2 * den)
msRound(d) == Round(d, 2)

mergeSamples(perWorker) ==
    LET all[k \in 0 .. Len(perWorker)] == IF k = 0 THEN <<>> ELSE all[k - 1] \o perWorker[k]
    IN all[Len(perWorker)]

buildReport(samples, p) ==
    LET oks == SelectSeq(samples, LAMBDA s : s.code = "OK")
        response == SortSeq([i \in DOMAIN oks |-> responseTime(oks[i])], <)
        errors == Len(samples) - Len(oks)
    IN [Scheduled |-> p.Scheduled, Interrupted |-> p.Interrupted,
        Total |-> Len(samples), OK |-> Len(oks), Errors |-> errors,
        ResponseTime |-> [pm \in Percentiles |-> msRound(percentile(response, pm))],
        SLOViolations |-> Len(SelectSeq(oks, LAMBDA s : responseTime(s) > p.SLO)),
        SLOMs |-> msRound(p.SLO), ErrorBudget |-> p.ErrorBudget,
        ErrorRatio |-> IF samples = <<>> THEN 0 ELSE Round(errors * Million, Len(samples))]

\* failReason finds nothing.
sloPass(r) ==
    /\ r.Total > 0 /\ ~r.Interrupted /\ r.OK > 0
    /\ ~Exceeds(r.ErrorRatio, r.ErrorBudget)
    /\ r.ResponseTime[990000] <= r.SLOMs
=============================================================================
