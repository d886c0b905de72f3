------------------------------ MODULE Breaker ------------------------------
(***************************************************************************)
(* One circuit breaker shared by concurrent goroutines (circuit.go).       *)
(* A request asks for admission (lock-free when the mirror says closed,    *)
(* under the lock otherwise), may then run, and is resolved by Success,    *)
(* Failure or Release on the probe it was handed.  Pollers call the        *)
(* methods that take no admission.  State-change callbacks run on the      *)
(* goroutine that caused them, after it unlocked, and set the              *)
(* lb_circuit_state gauge.                                                 *)
(***************************************************************************)
EXTENDS Circuit

CONSTANTS
    Requests,   \* the requests of the run, each used once
    Pollers,    \* goroutines calling State, Ready, Counts and Reset
    MaxTime     \* bound on the clock

ASSUME BreakerAssumption ==
    /\ IsFiniteSet(Requests)
    /\ Requests \cap Pollers = {}
    /\ MaxTime \in Nat

VARIABLES
    b,       \* the fields of the Breaker
    now,     \* set.Now()
    pc,      \* where each goroutine is
    probe,   \* the Probe each request was handed
    trs,     \* transitions each goroutine has yet to pass to onChange
    gauge    \* lb_circuit_state

vars == <<b, now, pc, probe, trs, gauge>>

Goroutines == Requests \cup Pollers

\* "locking": saw a mirror that was not closed and is about to take the lock.
\* "running" and "refused": Admit returned true or false (a refused request
\* may run all the same: the proxy's last candidate does).
Unresolved == {"running", "refused"}
Resolved == {"succeeded", "failed", "released", "abandoned"}

TransitionRecord == [from : States, to : States]

Init ==
    /\ b = NewBreaker(0)
    /\ now = 0
    /\ pc = [g \in Goroutines |-> "idle"]
    /\ probe = [r \in Requests |-> NoProbe]
    /\ trs = [g \in Goroutines |-> <<>>]
    /\ gauge = StateClosed

\* g is at point `from` and has run every callback it owes.
At(g, from) == pc[g] = from /\ trs[g] = <<>>
Goto(g, to) == pc' = [pc EXCEPT ![g] = to]

\* g leaves its critical section, which turned the breaker into after.
Unlock(g, after) ==
    /\ b' = Unlocked(after)
    /\ trs' = [trs EXCEPT ![g] = after.trs]

Tick ==
    /\ now < MaxTime
    /\ now' = now + 1
    /\ UNCHANGED <<b, pc, probe, trs, gauge>>

-----------------------------------------------------------------------------
(* Requests.                                                               *)

AdmitFast(r) ==
    /\ At(r, "idle")
    /\ b.fastState = StateClosed
    /\ Goto(r, "running")
    /\ UNCHANGED <<b, now, probe, trs, gauge>>

AdmitSlow(r) ==
    /\ At(r, "idle")
    /\ b.fastState # StateClosed
    /\ Goto(r, "locking")
    /\ UNCHANGED <<b, now, probe, trs, gauge>>

Admit(r) ==
    LET a == AdmitLocked(b, now)
    IN  /\ At(r, "locking")
        /\ Unlock(r, a.breaker)
        /\ probe' = [probe EXCEPT ![r] = a.probe]
        /\ Goto(r, IF a.allowed THEN "running" ELSE "refused")
        /\ UNCHANGED <<now, gauge>>

\* Unattributed: breaking is off, or the backend was not healthy.
Unattributed(r) ==
    /\ At(r, "idle")
    /\ Goto(r, "running")
    /\ UNCHANGED <<b, now, probe, trs, gauge>>

\* A refused request whose caller moves on to the next candidate.
Abandon(r) ==
    /\ At(r, "refused")
    /\ Goto(r, "abandoned")
    /\ UNCHANGED <<b, now, probe, trs, gauge>>

Resolve(r, failed) ==
    /\ pc[r] \in Unresolved /\ trs[r] = <<>>
    /\ Unlock(r, record(b, failed, probe[r], now))
    /\ Goto(r, IF failed THEN "failed" ELSE "succeeded")
    /\ UNCHANGED <<now, probe, gauge>>

Success(r) == Resolve(r, FALSE)
Failure(r) == Resolve(r, TRUE)

Release(r) ==
    /\ pc[r] \in Unresolved /\ trs[r] = <<>>
    /\ b' = release(b, probe[r])
    /\ Goto(r, "released")
    /\ UNCHANGED <<now, probe, trs, gauge>>

-----------------------------------------------------------------------------
(* Pollers, and the callbacks.                                             *)

\* State and Ready, which answer from the mirror while it says closed.
PollSlow(p) ==
    /\ At(p, "idle")
    /\ b.fastState # StateClosed
    /\ Goto(p, "locking")
    /\ UNCHANGED <<b, now, probe, trs, gauge>>

Poll(p) ==
    /\ At(p, "locking")
    /\ Unlock(p, refreshLocked(b, now))
    /\ Goto(p, "idle")
    /\ UNCHANGED <<now, probe, gauge>>

PollCounts(p) ==
    /\ At(p, "idle")
    /\ b' = Counts(b, now)
    /\ UNCHANGED <<now, pc, probe, trs, gauge>>

PollReset(p) ==
    /\ At(p, "idle")
    /\ Unlock(p, Reset(b, now))
    /\ UNCHANGED <<now, pc, probe, gauge>>

\* fire: the callback sets the gauge to the state the transition went to.
Fire(g) ==
    /\ trs[g] # <<>>
    /\ gauge' = Head(trs[g]).to
    /\ trs' = [trs EXCEPT ![g] = Tail(@)]
    /\ UNCHANGED <<b, now, pc, probe>>

Step(r) ==
    \/ AdmitFast(r) \/ AdmitSlow(r) \/ Admit(r) \/ Unattributed(r)
    \/ Abandon(r) \/ Success(r) \/ Failure(r) \/ Release(r)

PollStep(p) == PollSlow(p) \/ Poll(p) \/ PollCounts(p) \/ PollReset(p)

Next ==
    \/ Tick
    \/ \E r \in Requests : Step(r)
    \/ \E p \in Pollers : PollStep(p)
    \/ \E g \in Goroutines : Fire(g)

Spec == Init /\ [][Next]_vars

\* Callers resolve every probe they were handed (the contract of Admit), a
\* goroutine inside a method returns, the clock moves, and somebody keeps
\* asking: Pick calls Ready for every candidate of every request.
FairSpec ==
    /\ Spec
    /\ WF_vars(Tick)
    /\ \A r \in Requests :
         WF_vars(Admit(r)) /\ WF_vars(Success(r) \/ Failure(r) \/ Release(r) \/ Abandon(r))
    /\ \A p \in Pollers : WF_vars(PollSlow(p)) /\ WF_vars(Poll(p))
    /\ \A g \in Goroutines : WF_vars(Fire(g))
-----------------------------------------------------------------------------
(* Properties.                                                             *)

\* The requests of the running episode that still hold a slot, and the ones
\* that have been resolved as successes.
Outstanding == {r \in Requests : pc[r] = "running" /\ probe[r] = ProbeOf(b)}
Won == {r \in Requests : pc[r] = "succeeded" /\ probe[r] = ProbeOf(b)}

ControlTypeOK ==
    /\ b.state \in States
    /\ b.fastState \in States
    /\ b.probes \in Nat
    /\ b.successes \in Nat
    /\ b.gen \in Nat
    /\ b.trs = <<>>
    /\ now \in 0 .. MaxTime
    /\ pc \in [Goroutines -> {"idle", "locking"} \cup Unresolved \cup Resolved]
    /\ probe \in [Requests -> [probe : BOOLEAN, gen : Nat]]

\* Types: every field of the breaker and every goroutine is in its range, and
\* no instant it remembers lies ahead of the clock.  (That total is the sum of
\* the buckets, and so a pair of naturals, is a property of RollingWindow.)
TypeOK ==
    /\ ControlTypeOK
    /\ b.buckets \in [Slots -> [requests : Nat, failures : Nat]]
    /\ b.idx \in Slots
    /\ b.start \in 0 .. now
    /\ b.openedAt \in 0 .. now
    /\ gauge \in States
    /\ trs \in [Goroutines -> {<<>>} \cup {<<t>> : t \in TransitionRecord}]

\* The lock-free mirror never disagrees with the state it mirrors, so the
\* fast path of Admit, State and Ready never answers for another state.
MirrorAgrees == b.fastState = b.state

\* probes is exactly the number of admitted probes of this episode that are
\* not yet resolved or released, and never passes HalfOpenMax; successes is
\* exactly the number of this episode's probes that succeeded, and never
\* reaches HalfOpenMax while half-open.  A leaked slot would break the first.
ProbeAccounting ==
    IF b.state = StateHalfOpen
    THEN /\ b.probes = Cardinality(Outstanding)
         /\ b.probes <= set.HalfOpenMax
         /\ b.successes = Cardinality(Won)
         /\ b.successes < set.HalfOpenMax
    ELSE b.probes = 0 /\ b.successes = 0

\* A critical section makes at most one transition: an outcome that itself
\* expires the open timer cannot also judge the episode it just started.
OneTransitionPerSection == \A g \in Goroutines : Len(trs[g]) <= 1

\* The inductive invariant behind the theorems of BreakerProofs: besides the
\* properties above, no request holds a probe of a future episode, and one
\* that has not been let in holds none.
Fields == {"state", "fastState", "buckets", "idx", "start", "total", "openedAt",
           "probes", "successes", "gen", "trs"}

IInv ==
    /\ DOMAIN b = Fields
    /\ ControlTypeOK
    /\ trs \in [Goroutines -> {<<>>} \cup {<<t>> : t \in TransitionRecord}]
    /\ MirrorAgrees
    /\ ProbeAccounting
    /\ \A r \in Requests : probe[r].gen <= b.gen
    /\ \A r \in Requests : pc[r] \in {"idle", "locking", "refused"} => ~probe[r].probe

\* Only an outcome of a probe admitted in the running episode moves the
\* breaker out of half-open; the sole other way out is Reset, which closes.
\* (circuit.go: "Only a probe from the episode still running may ... steer".)
OnlyOwnProbesJudge ==
    [][b.state = StateHalfOpen /\ b'.state # StateHalfOpen
       => \/ \E r \in Outstanding : pc'[r] \in {"succeeded", "failed"}
          \/ pc' = pc /\ b'.state = StateClosed]_vars

\* Half-open closes on outcomes only after HalfOpenMax probes of this very
\* episode succeeded and none of them failed.
RecoveryEarned ==
    [][b.state = StateHalfOpen /\ b'.state = StateClosed /\ pc' # pc
       => LET Mine(end) == {r \in Requests : pc'[r] = end /\ probe[r] = ProbeOf(b)}
          IN  Cardinality(Mine("succeeded")) = set.HalfOpenMax /\ Mine("failed") = {}]_vars

\* A half-open breaker with every slot taken gets a slot back or leaves
\* half-open: it never wedges while callers resolve what they were handed.
SaturationEnds ==
    (b.state = StateHalfOpen /\ ~HasSlot(b)) ~> (b.state # StateHalfOpen \/ HasSlot(b))

\* An open breaker whose timer runs out within the horizon of the clock does
\* leave open, although no timer goroutine exists: any caller's refresh does it.
OpenExpires ==
    (b.state = StateOpen /\ b.openedAt + set.OpenTimeout <= MaxTime) ~> (b.state # StateOpen)

\* Once no callback is owed, lb_circuit_state shows the breaker's state
\* (README.md: "gauge | name (0 closed, 1 open, 2 half-open)").
GaugeSettles == (\A g \in Goroutines : trs[g] = <<>>) => gauge = b.state
=============================================================================
