------------------------------ MODULE Circuit ------------------------------
(***************************************************************************)
(* The sequential part of internal/circuit/circuit.go: the fields of a     *)
(* Breaker as one record, and one operator per method that runs with mu    *)
(* held (the ...Locked methods) or per critical section of a public        *)
(* method.  The field trs is the local list of transitions that such a     *)
(* section collects for fire: it is empty when the lock is free.           *)
(*                                                                         *)
(* Time is a natural number of ticks.  FailureRatio is the rational        *)
(* num/den, compared exactly where the code divides two float64.           *)
(***************************************************************************)
EXTENDS Integers, Sequences, FiniteSetsExt

CONSTANT Settings   \* the Settings given to NewBreaker, before normalize

ASSUME SettingsAssumption ==
    /\ Settings \in [Window : Int, Buckets : Int, MinRequests : Int,
                     OpenTimeout : Int, HalfOpenMax : Int,
                     FailureRatio : [num : Int, den : Int]]
    /\ Settings.FailureRatio.den > 0

StateClosed == "closed"
StateOpen == "open"
StateHalfOpen == "half-open"
States == {StateClosed, StateOpen, StateHalfOpen}

AtLeastOne(n) == IF n < 1 THEN 1 ELSE n

\* One tick stands for the nanosecond of the code; DefaultWindow for a second.
DefaultWindow == 4

Normalize(s) ==
    [s EXCEPT !.Window       = IF @ <= 0 THEN DefaultWindow ELSE @,
              !.Buckets      = AtLeastOne(@),
              !.MinRequests  = AtLeastOne(@),
              !.HalfOpenMax  = AtLeastOne(@),
              !.FailureRatio = IF @.num <= 0 THEN [num |-> 1, den |-> 2] ELSE @]

set == Normalize(Settings)

\* A window shorter than one tick per bucket is stretched to one tick each.
BucketDur == AtLeastOne(set.Window \div set.Buckets)

Slots == 0 .. set.Buckets - 1
Zero == [requests |-> 0, failures |-> 0]

NewBreaker(now) ==
    [state |-> StateClosed, fastState |-> StateClosed,
     buckets |-> [i \in Slots |-> Zero], idx |-> 0, start |-> now,
     total |-> Zero, openedAt |-> 0, probes |-> 0, successes |-> 0,
     gen |-> 0, trs |-> <<>>]

-----------------------------------------------------------------------------
(* Probes.                                                                 *)

\* Probe{b: b}: outcomes are counted, nothing is resolved (gen is its zero).
NoProbe == [probe |-> FALSE, gen |-> 0]
ProbeOf(b) == [probe |-> TRUE, gen |-> b.gen]

\* Mutant: the episode of the probe is not compared.
Current_AnyEpisode(b, p) == p.probe /\ b.state = StateHalfOpen

\* The condition under which an outcome may resolve a slot or steer the state.
Current(b, p) == p.probe /\ p.gen = b.gen /\ b.state = StateHalfOpen

-----------------------------------------------------------------------------
(* The methods that run under the lock.                                    *)

clearLocked(b, now) ==
    [b EXCEPT !.buckets = [i \in Slots |-> Zero], !.total = Zero,
              !.idx = 0, !.start = now]

\* Mutant: the loop runs one step short.
Retired_OneShort(b, n) == {(b.idx + k) % set.Buckets : k \in 1 .. n - 1}

\* The slots that n steps of the ring move into, and so retire.
Retired(b, n) == {(b.idx + k) % set.Buckets : k \in 1 .. n}

Minus(total, buckets, S) ==
    [requests |-> total.requests - MapThenSumSet(LAMBDA i : buckets[i].requests, S),
     failures |-> total.failures - MapThenSumSet(LAMBDA i : buckets[i].failures, S)]

advanceLocked(b, now) ==
    LET n == (now - b.start) \div BucketDur
        S == Retired(b, n)
    IN  IF n < 1 THEN b
        ELSE IF n >= set.Buckets THEN clearLocked(b, now)
        ELSE [b EXCEPT !.idx = (@ + n) % set.Buckets,
                       !.total = Minus(@, b.buckets, S),
                       !.buckets = [i \in Slots |-> IF i \in S THEN Zero ELSE @[i]],
                       !.start = @ + n * BucketDur]

countLocked(b, failed) ==
    LET f == IF failed THEN 1 ELSE 0
        Plus(c) == [requests |-> c.requests + 1, failures |-> c.failures + f]
    IN  [b EXCEPT !.buckets[b.idx] = Plus(@), !.total = Plus(@)]

\* Entering half-open starts a new episode, entering open starts the timer,
\* and closing forgets the window that tripped the breaker.
EnterState(b, to, now) ==
    CASE to = StateHalfOpen -> [b EXCEPT !.gen = @ + 1]
      [] to = StateOpen     -> [b EXCEPT !.openedAt = now]
      [] to = StateClosed   -> clearLocked(b, now)

\* Mutant: the lock-free mirror is not stored.
setStateLocked_NoMirror(b, to, now) ==
    IF b.state = to THEN b
    ELSE EnterState([b EXCEPT !.state = to, !.probes = 0, !.successes = 0,
                              !.trs = Append(@, [from |-> b.state, to |-> to])],
                    to, now)

setStateLocked(b, to, now) ==
    IF b.state = to THEN b
    ELSE EnterState([b EXCEPT !.state = to, !.fastState = to,
                              !.probes = 0, !.successes = 0,
                              !.trs = Append(@, [from |-> b.state, to |-> to])],
                    to, now)

\* Mutant: refreshing only rolls the window.
refreshLocked_NoExpiry(b, now) == advanceLocked(b, now)

refreshLocked(b, now) ==
    LET a == advanceLocked(b, now)
    IN  IF a.state = StateOpen /\ now - a.openedAt >= set.OpenTimeout
        THEN setStateLocked(a, StateHalfOpen, now)
        ELSE a

-----------------------------------------------------------------------------
(* The critical sections of the public methods.                            *)

HasSlot(b) == b.state = StateHalfOpen /\ b.probes < set.HalfOpenMax

\* What Ready answers once it holds the lock and has refreshed.
Ready(b) == b.state = StateClosed \/ HasSlot(b)

\* Admit from Lock to Unlock: the breaker after it, its verdict and the probe.
AdmitLocked(b, now) ==
    LET r == refreshLocked(b, now)
    IN  [allowed |-> Ready(r),
         probe   |-> IF HasSlot(r) THEN ProbeOf(r) ELSE NoProbe,
         breaker |-> IF HasSlot(r) THEN [r EXCEPT !.probes = @ + 1] ELSE r]

ShouldTrip(b) ==
    /\ b.total.requests >= set.MinRequests
    /\ b.total.failures * set.FailureRatio.den >= set.FailureRatio.num * b.total.requests

\* Mutant: the successes are compared with the number allowed before this one.
ResolveProbe_OneEarly(b, failed, now) ==
    LET r == [b EXCEPT !.probes = IF @ > 0 THEN @ - 1 ELSE @]
        s == [r EXCEPT !.successes = @ + 1]
    IN  IF failed THEN setStateLocked(r, StateOpen, now)
        ELSE IF s.successes >= set.HalfOpenMax - 1 THEN setStateLocked(s, StateClosed, now)
        ELSE s

\* The half-open branch of record for a probe of the running episode.
ResolveProbe(b, failed, now) ==
    LET r == [b EXCEPT !.probes = IF @ > 0 THEN @ - 1 ELSE @]
        s == [r EXCEPT !.successes = @ + 1]
    IN  IF failed THEN setStateLocked(r, StateOpen, now)
        ELSE IF s.successes >= set.HalfOpenMax THEN setStateLocked(s, StateClosed, now)
        ELSE s

\* Mutant: the window is judged as it was left, not as it is now.
record_NoRefresh(b, failed, p, now) ==
    LET c == countLocked(b, failed)
    IN  IF c.state = StateClosed /\ ShouldTrip(c) THEN setStateLocked(c, StateOpen, now)
        ELSE IF Current(c, p) THEN ResolveProbe(c, failed, now)
        ELSE c

record(b, failed, p, now) ==
    LET c == countLocked(refreshLocked(b, now), failed)
    IN  IF c.state = StateClosed /\ ShouldTrip(c) THEN setStateLocked(c, StateOpen, now)
        ELSE IF Current(c, p) THEN ResolveProbe(c, failed, now)
        ELSE c

\* Mutant: an abandoned probe keeps its slot.
release_Leaks(b, p) == b

release(b, p) ==
    IF Current(b, p) /\ b.probes > 0 THEN [b EXCEPT !.probes = @ - 1] ELSE b

Counts(b, now) == advanceLocked(b, now)

Reset(b, now) ==
    [clearLocked(setStateLocked(b, StateClosed, now), now)
        EXCEPT !.probes = 0, !.successes = 0]

\* Unlock: the collected transitions leave the breaker with the caller.
Unlocked(b) == [b EXCEPT !.trs = <<>>]
=============================================================================
