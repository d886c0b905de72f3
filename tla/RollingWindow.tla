--------------------------- MODULE RollingWindow ---------------------------
(***************************************************************************)
(* The rolling window of a breaker against the history it summarises.      *)
(* Every window operation of circuit.go runs under the breaker's lock, so  *)
(* the calls are serial here; held is the bag of the probes that callers   *)
(* hold.  hist is the history: the outcomes recorded at each instant since *)
(* the window was last forgotten on purpose (closing, or Reset).           *)
(***************************************************************************)
EXTENDS Circuit, Bags

CONSTANTS
    MaxTime,    \* bound on the clock
    MaxEvents   \* bound on the outcomes recorded

ASSUME WindowAssumption == MaxTime \in Nat /\ MaxEvents \in Nat

VARIABLES b, now, held, events, hist

vars == <<b, now, held, events, hist>>

Times == 0 .. MaxTime
NoHistory == [t \in Times |-> Zero]

Init ==
    /\ b = NewBreaker(0)
    /\ now = 0
    /\ held = EmptyBag
    /\ events = 0
    /\ hist = NoHistory

\* The clock jumps: a gap of several buckets, or of the whole window, is one step.
Elapse ==
    /\ now' \in now + 1 .. MaxTime
    /\ UNCHANGED <<b, held, events, hist>>

\* A locked Admit; a probe it hands out joins the held ones.
Admit ==
    LET a == AdmitLocked(b, now)
    IN  /\ b' = Unlocked(a.breaker)
        /\ held' = IF a.probe.probe THEN held (+) SetToBag({a.probe}) ELSE held
        /\ UNCHANGED <<now, events, hist>>

\* An outcome of a request, with the probe it holds if it holds one.
Record(failed, p) ==
    LET after == record(b, failed, p, now)
        f == IF failed THEN 1 ELSE 0
    IN  /\ events < MaxEvents
        /\ events' = events + 1
        /\ b' = Unlocked(after)
        /\ hist' = IF after.state = StateClosed /\ b.state # StateClosed THEN NoHistory
                   ELSE [hist EXCEPT ![now] = [requests |-> @.requests + 1,
                                               failures |-> @.failures + f]]
        /\ held' = held (-) SetToBag({p})
        /\ UNCHANGED now

ReadCounts ==
    /\ b' = Counts(b, now)
    /\ UNCHANGED <<now, held, events, hist>>

DoReset ==
    /\ b' = Unlocked(Reset(b, now))
    /\ hist' = NoHistory
    /\ UNCHANGED <<now, held, events>>

Next ==
    \/ Elapse
    \/ Admit
    \/ \E failed \in BOOLEAN, p \in BagToSet(held) \cup {NoProbe} : Record(failed, p)
    \/ ReadCounts
    \/ DoReset

Spec == Init /\ [][Next]_vars

-----------------------------------------------------------------------------
(* Properties.                                                             *)

Sum(f, S) == [requests |-> MapThenSumSet(LAMBDA i : f[i].requests, S),
              failures |-> MapThenSumSet(LAMBDA i : f[i].failures, S)]

\* The outcomes at or after instant t.
Since(h, t) == Sum(h, {u \in Times : u >= t})

\* The window is exact to a bucket: it counts each recorded outcome from the
\* start of its oldest bucket on, and none before, for every pattern of gaps,
\* and the running total stays the sum of the live buckets (circuit.go: "running
\* sum over all live buckets").
WindowExact ==
    /\ b.total = Since(hist, b.start - (set.Buckets - 1) * BucketDur)
    /\ b.total = Sum(b.buckets, Slots)

\* A breaker trips only on evidence inside the last Window (in whole buckets):
\* the outcomes of that span alone reach MinRequests and hold enough failures
\* for the ratio at MinRequests (circuit.go record, after refreshLocked).
TripJustified ==
    [][b.state = StateClosed /\ b'.state = StateOpen
       => LET recent == Since(hist', now - set.Buckets * BucketDur + 1)
          IN  /\ recent.requests >= set.MinRequests
              /\ recent.failures * set.FailureRatio.den
                   >= set.FailureRatio.num * set.MinRequests]_vars
=============================================================================
