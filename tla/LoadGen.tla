------------------------------ MODULE LoadGen ------------------------------
(***************************************************************************)
(* A run of the load generator (cmd/loadgen): the scheduler that feeds a   *)
(* bounded channel at a fixed rate and the workers that drain it (runOpen),*)
(* or workers that each keep one request in flight until the deadline      *)
(* (runClosed); an interrupt at any time; the report.  The target answers  *)
(* as late as it likes, up to the timeout of a request.                    *)
(***************************************************************************)
EXTENDS Report, FiniteSets

CONSTANTS
    Rates,      \* numbers of slots int(rps * duration) to try, one per tick
    Budgets,    \* error budgets to try, in millionths, or NaN
    MaxWorkers, \* -concurrency is at most this
    SLO,        \* -slo
    Duration,   \* -duration
    MaxCalls,   \* bound on the calls of a worker in closed mode
    MaxTime     \* bound on the clock

ASSUME LoadGenAssumption ==
    /\ Rates \subseteq Nat /\ \A b \in Budgets : b \in 0 .. Million \/ b = NaN
    /\ MaxWorkers \in Nat \ {0} /\ SLO \in Nat \ {0} /\ Duration \in Nat \ {0}
    /\ MaxCalls \in Nat /\ MaxTime \in Nat
    /\ \A n \in Rates : n <= MaxTime + 1
    /\ Duration <= MaxTime

VARIABLES
    opts,        \* [mode, n, workers]
    main,        \* where run is
    now,         \* the clock, from the start of the measurement
    ctxDone,     \* the signal context has ended
    sched,       \* the scheduler: "wait", "send" or "returned"
    next,        \* its loop variable
    slots,       \* the channel: indices of the slots in it
    closed,      \* the channel is closed
    worker,      \* each worker: its place, and the schedule of its call
    perWorker,   \* the samples of each worker
    interrupted  \* what run read of ctx after the run

clock == <<now, ctxDone>>
svars == <<sched, next, closed>>
vars == <<opts, main, clock, svars, slots, worker, perWorker, interrupted>>

Workers == 1 .. opts.workers
Idle == [pc |-> "recv", scheduledAt |-> 0]

\* Any rate leads to a number of slots: a rate validate lets through although it is no
\* number, or that the duration makes too small, to none.
Init ==
    /\ opts \in [mode : {"open", "closed"}, n : Rates, workers : 1 .. MaxWorkers]
    /\ opts.mode = "closed" => opts.n = 0
    /\ main = "connect" /\ now = 0 /\ ctxDone = FALSE
    /\ sched = "wait" /\ next = 0 /\ slots = <<>> /\ closed = FALSE
    /\ worker = [w \in Workers |-> Idle]
    /\ perWorker = [w \in Workers |-> <<>>]
    /\ interrupted = FALSE

\* The schedule is absolute.
At(i) == i

Tick ==
    /\ main = "run" /\ now < MaxTime
    /\ now' = now + 1
    /\ UNCHANGED <<opts, main, ctxDone, svars, slots, worker, perWorker, interrupted>>

Interrupt ==
    /\ ~ctxDone
    /\ ctxDone' = TRUE
    /\ UNCHANGED <<opts, main, now, svars, slots, worker, perWorker, interrupted>>

\* waitReady fails when the target is not there or the context ends.
Connect ==
    /\ main = "connect"
    /\ \/ main' = "failed"
       \/ ~ctxDone /\ main' = "warmup"
    /\ UNCHANGED <<opts, clock, svars, slots, worker, perWorker, interrupted>>

\* Calls whose results are dropped; an interrupt ends it early and run goes on.
Warmup ==
    /\ main = "warmup"
    /\ main' = "run"
    /\ UNCHANGED <<opts, clock, svars, slots, worker, perWorker, interrupted>>

-----------------------------------------------------------------------------
(* runOpen's scheduler.                                                    *)

Open == main = "run" /\ opts.mode = "open"

\* Mutant: the channel is closed at the end of the schedule only.
SchedReturn_NoDefer ==
    /\ sched' = "returned"
    /\ closed' = (next = opts.n)
    /\ UNCHANGED next

SchedReturn ==
    /\ sched' = "returned"
    /\ closed' = TRUE
    /\ UNCHANGED next

\* A slot whose time has come is sent on without a look at the context.
SchedWait ==
    /\ Open /\ sched = "wait"
    /\ \/ next = opts.n /\ SchedReturn
       \/ next < opts.n /\ now >= At(next) /\ sched' = "send" /\ UNCHANGED <<next, closed>>
       \/ next < opts.n /\ now < At(next) /\ ctxDone /\ SchedReturn
    /\ UNCHANGED <<opts, main, clock, slots, worker, perWorker, interrupted>>

\* The select takes either branch that is ready.
SchedSend ==
    /\ Open /\ sched = "send"
    /\ \/ /\ Len(slots) < 2 * opts.workers
          /\ slots' = Append(slots, next)
          /\ next' = next + 1
          /\ sched' = "wait" /\ UNCHANGED closed
       \/ ctxDone /\ SchedReturn /\ UNCHANGED slots
    /\ UNCHANGED <<opts, main, clock, worker, perWorker, interrupted>>

-----------------------------------------------------------------------------
(* The workers.                                                            *)

\* Mutant: the clock of a request starts when a worker gets round to it.
Call_Omits(w, at) == worker' = [worker EXCEPT ![w] = [pc |-> "calling", scheduledAt |-> now]]

Call(w, at) == worker' = [worker EXCEPT ![w] = [pc |-> "calling", scheduledAt |-> at]]

Exit(w) == worker' = [worker EXCEPT ![w] = [Idle EXCEPT !.pc = "done"]]

\* A slot taken after an interrupt is dropped, and the worker ends.
RecvOpen(w) ==
    /\ Open /\ worker[w].pc = "recv"
    /\ \/ slots # <<>> /\ ~ctxDone /\ Call(w, At(Head(slots))) /\ slots' = Tail(slots)
       \/ slots # <<>> /\ ctxDone /\ Exit(w) /\ slots' = Tail(slots)
       \/ slots = <<>> /\ closed /\ Exit(w) /\ UNCHANGED slots
    /\ UNCHANGED <<opts, main, clock, svars, perWorker, interrupted>>

\* The deadline and the interrupt end the same context.
NextClosed(w) ==
    /\ main = "run" /\ opts.mode = "closed" /\ worker[w].pc = "recv"
    /\ \/ ~ctxDone /\ now < Duration /\ Len(perWorker[w]) < MaxCalls /\ Call(w, now)
       \/ (ctxDone \/ now >= Duration) /\ Exit(w)
    /\ UNCHANGED <<opts, main, clock, svars, slots, perWorker, interrupted>>

\* A call in flight is not interrupted; it ends by its own timeout at the latest.
Complete(w) ==
    /\ worker[w].pc = "calling"
    /\ \E code \in {"OK", "Unavailable"} :
         perWorker' = [perWorker EXCEPT ![w] =
             Append(@, [scheduledAt |-> worker[w].scheduledAt, completedAt |-> now, code |-> code])]
    /\ worker' = [worker EXCEPT ![w] = Idle]
    /\ UNCHANGED <<opts, main, clock, svars, slots, interrupted>>

-----------------------------------------------------------------------------
\* Mutant: only an interrupt before the schedule ended is noticed.
Finish_LooksAtClock ==
    /\ main = "run" /\ \A w \in Workers : worker[w].pc = "done"
    /\ interrupted' = (ctxDone /\ now < Duration)
    /\ main' = "done"
    /\ UNCHANGED <<opts, clock, svars, slots, worker, perWorker>>

\* wg.Wait, the reading of the context, and the report.
Finish ==
    /\ main = "run" /\ \A w \in Workers : worker[w].pc = "done"
    /\ interrupted' = ctxDone
    /\ main' = "done"
    /\ UNCHANGED <<opts, clock, svars, slots, worker, perWorker>>

Samples == mergeSamples(perWorker)

\* The report for an error budget, which has no other influence on the run.
Rep(budget) == buildReport(Samples,
    [Scheduled |-> opts.n, Interrupted |-> interrupted, SLO |-> SLO, ErrorBudget |-> budget])

WorkerStep(w) == RecvOpen(w) \/ NextClosed(w) \/ Complete(w)
Scheduler == SchedWait \/ SchedSend

Next ==
    \/ Tick \/ Interrupt \/ Connect \/ Warmup \/ Scheduler \/ Finish
    \/ \E w \in Workers : WorkerStep(w)

\* Goroutines run, time passes and calls end (requestTimeout).
Spec ==
    /\ Init /\ [][Next]_vars
    /\ WF_vars(Tick) /\ WF_vars(Connect) /\ WF_vars(Warmup) /\ WF_vars(Finish)
    /\ WF_vars(Scheduler)
    /\ \A w \in 1 .. MaxWorkers : WF_vars(w \in Workers /\ WorkerStep(w))

-----------------------------------------------------------------------------
(* Properties.                                                             *)

Reported == main = "done"

Count(T(_)) == Cardinality({i \in DOMAIN Samples : T(Samples[i])})

\* Each slot has its sample: one of some worker, and no other of any worker.
EverySlotOnce ==
    /\ \A w \in Workers : \A k \in DOMAIN perWorker[w] :
         \E i \in 0 .. opts.n - 1 : perWorker[w][k].scheduledAt = At(i)
    /\ \A i \in 0 .. opts.n - 1 : \E w \in Workers : \E k \in DOMAIN perWorker[w] :
         /\ perWorker[w][k].scheduledAt = At(i)
         /\ \A v \in Workers : \A l \in DOMAIN perWorker[v] :
              perWorker[v][l].scheduledAt = At(i) => v = w /\ l = k

\* In open mode a run that nobody interrupts reports one sample for every slot,
\* timed from the slot's place in the schedule however long it waited in the
\* channel or for a worker, and nothing is lost at the end (runOpen: "There is
\* no artificial cutoff").
NothingOmitted ==
    Reported /\ opts.mode = "open" /\ ~ctxDone =>
        /\ Rep(0).Total = Rep(0).Scheduled
        /\ \A i \in 0 .. opts.n - 1 : Count(LAMBDA s : s.scheduledAt = At(i)) = 1
        /\ EverySlotOnce

\* A passed verdict is true of the whole run: it was not cut short, every slot was
\* issued, the failures are within the budget (to half a millionth, and if the budget
\* is a number: any share of failures passes NaN) and of the successes 99% are within
\* the SLO (to the rounding of the report).
VerdictHonest ==
    Reported => \A budget \in Budgets : sloPass(Rep(budget)) =>
        /\ Len(Samples) >= opts.n /\ Len(Samples) > 0
        /\ Count(LAMBDA s : s.code = "OK") > 0
        /\ budget # NaN =>
             2 * Million * Count(LAMBDA s : s.code # "OK") <= (2 * budget + 1) * Len(Samples)
        /\ 100 * Count(LAMBDA s : s.code = "OK" /\ msRound(responseTime(s)) <= msRound(SLO))
             >= 99 * Count(LAMBDA s : s.code = "OK")

\* A reported percentile is the response time of some request, and the least one
\* that so many of the successful requests stayed within (percentile: "Nearest
\* rank always reports a latency some request actually experienced").
PercentileExact ==
    Reported /\ Rep(0).OK > 0 => \A pm \in Percentiles :
        LET P == Rep(0).ResponseTime[pm]
            Within(v) == Count(LAMBDA s : s.code = "OK" /\ msRound(responseTime(s)) <= v)
        IN /\ Million * Within(P) >= pm * Rep(0).OK
           /\ Million * Within(P - 1) < pm * Rep(0).OK

\* A run that is started ends, also when it is interrupted while the scheduler is
\* blocked on a full channel or the workers on an empty one.
RunEnds == <>(main \in {"done", "failed"})
=============================================================================
