------------------------------ MODULE Balancer ------------------------------
(***************************************************************************)
(* Balancer.Pick (balancer.go) while health and breakers change under it.  *)
(* Pick reads the health and the breaker of one backend at a time; each    *)
(* read is a step.  The ring and the snapshot are published by New, before *)
(* the first Pick, and the pool's membership never changes, so Rebuild     *)
(* later finds nothing to do.  A key is the preference order the ring      *)
(* gives it: any permutation (CompleteOrder of HashRing).                  *)
(***************************************************************************)
EXTENDS Integers, Sequences

CONSTANTS
    backends,   \* the pool's backends, in config order
    Attempts,   \* values of maxAttempts
    MaxPicks,   \* bound on the calls of Pick
    MaxFlips    \* bound on the changes of health and breakers

Members(s) == {s[i] : i \in DOMAIN s}
Distinct(s) == \A i, j \in DOMAIN s : s[i] = s[j] => i = j

Pool == Members(backends)
N == Len(backends)

\* What the ring may answer for a key, in full.
Orders == {f \in [1..N -> Pool] : Distinct(f) /\ Members(f) = Pool}

ASSUME BalancerAssumption ==
    /\ backends \in Seq(Pool) /\ N > 0 /\ Distinct(backends)
    /\ Attempts \subseteq Int /\ MaxPicks \in Nat /\ MaxFlips \in Nat

VARIABLES
    breakerEnabled,  \* Backend.breakerEnabled, one setting for all
    healthy,         \* the backends whose state is healthy
    ready,           \* the backends whose breaker says Ready
    flips, picks,    \* counters for the bounds
    rr,              \* the rotation counter
    p,               \* the Pick under way: its arguments and local variables
    seen             \* history of the Pick under way

pickVars == <<breakerEnabled, healthy, ready, flips, picks, rr, p, seen>>

AvailableNow(hs, rs) == {b \in hs : ~breakerEnabled \/ b \in rs}

\* ok: available ever since Pick began.  well, willing: healthy, ready at some
\* moment since.  calm: nothing has changed since.
Watched(hs, rs) ==
    [ok |-> AvailableNow(hs, rs), well |-> hs, willing |-> rs, calm |-> TRUE]

PickInit ==
    /\ breakerEnabled \in BOOLEAN
    /\ healthy \in SUBSET Pool /\ ready \in SUBSET Pool
    /\ flips = 0 /\ picks = 0 /\ rr = 0
    /\ p = [pc |-> "idle", keyed |-> FALSE, max |-> 1, order |-> backends, ids |-> <<>>,
            i |-> 1, rung |-> "available", out |-> <<>>]
    /\ seen = Watched(healthy, ready)

-----------------------------------------------------------------------------
(* The environment: the health checker and the breakers.                   *)

Change(hs, rs) ==
    /\ flips < MaxFlips
    /\ flips' = flips + 1
    /\ healthy' = hs /\ ready' = rs
    /\ seen' = [ok |-> seen.ok \cap AvailableNow(hs, rs), well |-> seen.well \cup hs,
                willing |-> seen.willing \cup rs, calm |-> FALSE]
    /\ UNCHANGED <<breakerEnabled, picks, rr, p>>

Toggle(S, b) == IF b \in S THEN S \ {b} ELSE S \cup {b}
FlipHealth(b) == Change(Toggle(healthy, b), ready)
FlipReady(b) == breakerEnabled /\ Change(healthy, Toggle(ready, b))

-----------------------------------------------------------------------------
(* Pick.                                                                   *)

Limit(max) ==
    LET some == IF max <= 0 THEN 1 ELSE max
    IN IF some > N THEN N ELSE some

Rotation(start) == [i \in 1..N |-> backends[((start + i - 1) % N) + 1]]

\* A keyed Pick first asks the ring for no more than it needs.
Begin(order, keyed, max) ==
    /\ p.pc = "idle"
    /\ picks < MaxPicks
    /\ picks' = picks + 1
    /\ p' = [pc |-> "look", keyed |-> keyed, max |-> Limit(max), order |-> order,
             ids |-> IF keyed THEN SubSeq(order, 1, Limit(max)) ELSE order,
             i |-> 1, rung |-> "available", out |-> <<>>]
    /\ seen' = Watched(healthy, ready)
    /\ UNCHANGED <<breakerEnabled, healthy, ready, flips>>

PickKeyed(order, max) == Begin(order, TRUE, max) /\ UNCHANGED rr

PickKeyless(max) == Begin(Rotation(rr % N), FALSE, max) /\ rr' = rr + 1

ScanOver(q) == Len(q.out) = q.max \/ q.i > Len(q.ids)

Skip(q) == [q EXCEPT !.i = @ + 1, !.pc = "look"]
\* Mutant: candidates are put in front.
Admit_Prepends(q) == [q EXCEPT !.i = @ + 1, !.pc = "look", !.out = <<q.ids[q.i]>> \o @]

Admit(q) == [q EXCEPT !.i = @ + 1, !.pc = "look", !.out = Append(@, q.ids[q.i])]

\* collectRing and collectRotation, up to the read of the health.
Look ==
    /\ p.pc = "look" /\ ~ScanOver(p)
    /\ LET b == p.ids[p.i]
       IN p' = IF b \in Members(p.out) THEN Skip(p)
               ELSE IF p.rung = "any" THEN Admit(p)
               ELSE IF b \notin healthy THEN Skip(p)
               ELSE IF p.rung = "available" /\ breakerEnabled THEN [p EXCEPT !.pc = "ready"]
               ELSE Admit(p)
    /\ UNCHANGED <<breakerEnabled, healthy, ready, flips, picks, rr, seen>>

\* Mutant: the breaker's answer is not used.
AskBreaker_Ignored ==
    /\ p.pc = "ready"
    /\ p' = Admit(p)
    /\ UNCHANGED <<breakerEnabled, healthy, ready, flips, picks, rr, seen>>

\* Available's second read.
AskBreaker ==
    /\ p.pc = "ready"
    /\ p' = IF p.ids[p.i] \in ready THEN Admit(p) ELSE Skip(p)
    /\ UNCHANGED <<breakerEnabled, healthy, ready, flips, picks, rr, seen>>

\* Mutant: the rest of the preference order is never consulted.
Widens_Never(q) == FALSE

\* Rung one of a keyed Pick goes on with the whole order when it came up short.
Widens(q) ==
    q.keyed /\ q.rung = "available" /\ Len(q.out) < q.max /\ Len(q.ids) < N

NextRung(rung) ==
    CASE rung = "available" -> "healthy"
      [] rung = "healthy" -> "any"
      [] OTHER -> "none"

EndScan ==
    /\ p.pc = "look" /\ ScanOver(p)
    /\ p' = CASE Widens(p) -> [p EXCEPT !.ids = p.order, !.i = 1]
              [] ~Widens(p) /\ p.out = <<>> /\ NextRung(p.rung) # "none" ->
                    [p EXCEPT !.rung = NextRung(p.rung), !.i = 1]
              [] OTHER -> [p EXCEPT !.pc = "done"]
    /\ UNCHANGED <<breakerEnabled, healthy, ready, flips, picks, rr, seen>>

\* The caller takes the answer.
Return ==
    /\ p.pc = "done"
    /\ p' = [p EXCEPT !.pc = "idle", !.keyed = FALSE, !.max = 1, !.order = backends,
                      !.ids = <<>>, !.i = 1, !.rung = "available", !.out = <<>>]
    /\ UNCHANGED <<breakerEnabled, healthy, ready, flips, picks, rr, seen>>

-----------------------------------------------------------------------------
PickNext ==
    \/ \E b \in Pool : FlipHealth(b) \/ FlipReady(b)
    \/ \E max \in Attempts :
         \/ PickKeyless(max)
         \/ \E order \in Orders : PickKeyed(order, max)
    \/ Look \/ AskBreaker \/ EndScan \/ Return

PickSpec == PickInit /\ [][PickNext]_pickVars

-----------------------------------------------------------------------------
(* Properties.                                                             *)

Answered == p.pc = "done"

\* The best rung that holds anyone.
Best ==
    LET ok == AvailableNow(healthy, ready)
    IN IF ok # {} THEN ok ELSE IF healthy # {} THEN healthy ELSE Pool

Before(b, c) == \E i, j \in 1..N : i < j /\ p.order[i] = b /\ p.order[j] = c

\* When nothing changes during Pick its scans, widening and ladder return the first
\* members of the best rung, as many as asked for or as there are, in preference
\* order.
ExactWhenCalm ==
    Answered /\ seen.calm =>
        /\ Members(p.out) \subseteq Best /\ Len(p.out) <= p.max
        /\ \A i, j \in DOMAIN p.out : i < j => Before(p.out[i], p.out[j])
        /\ \A b \in Best \ Members(p.out) :
             Len(p.out) = p.max /\ \A c \in Members(p.out) : Before(c, b)

\* A backend that stays available keeps its keys: if it is first in the order
\* it is first in the answer, whatever happens to the others meanwhile.
OwnerFirst == Answered /\ Head(p.order) \in seen.ok => Head(p.out) = Head(p.order)

\* Whatever changes while it scans, Pick answers with at least one backend, no more
\* than asked for, none of them twice; and as long as somebody stays available,
\* nobody who was not healthy at some moment of the scan, and ready at some moment:
\* the ladder does not fall through because of changes elsewhere.
NoSickCandidate ==
    Answered =>
        /\ Len(p.out) \in 1 .. p.max /\ Distinct(p.out)
        /\ seen.ok # {} =>
             \A b \in Members(p.out) : b \in seen.well /\ (breakerEnabled => b \in seen.willing)

\* The candidates come in the key's preference order, as Pick's comment says.
PreferenceOrder ==
    Answered => p.out = SelectSeq(p.order, LAMBDA b : b \in Members(p.out))
=============================================================================
