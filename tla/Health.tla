------------------------------- MODULE Health -------------------------------
(***************************************************************************)
(* The health checker (health.go) over the backends of the pool (pool.go): *)
(* one goroutine per backend probes and damps, a watcher folds the two     *)
(* shutdown signals into one context, and Stop waits for all of them.      *)
(* The main goroutine calls Start and Stop, so the two never overlap; any  *)
(* number of callers may Stop.                                             *)
(***************************************************************************)
EXTENDS Integers, Sequences, FiniteSets

CONSTANTS
    Backends,    \* p.Backends()
    Stoppers,    \* callers of Stop
    Rise, Fall,  \* cfg.Rise and cfg.Fall as configured
    MaxProbes    \* bound on the probes of one backend

ASSUME HealthAssumption ==
    /\ IsFiniteSet(Backends) /\ IsFiniteSet(Stoppers)
    /\ Rise \in Int /\ Fall \in Int /\ MaxProbes \in Nat

VARIABLES
    state,      \* Backend.state
    counters,   \* the hysteresis counters of each probing goroutine
    gauge,      \* lb_backend_healthy, as a Boolean
    loop,       \* where the goroutine of each backend is
    watcher,    \* where the watcher is
    started,    \* startOnce has run
    stop,       \* the stop channel is closed
    parent,     \* the context given to Start has ended
    cancelled,  \* the watcher has cancelled the derived context
    caller,     \* where each caller of Stop is
    hist        \* history: the results of each backend's probes, oldest first

signals == <<started, stop, parent, cancelled>>
vars == <<state, counters, gauge, loop, watcher, signals, caller, hist>>

States == {"unknown", "healthy", "unhealthy"}
Answers == {"serving", "notServing", "unimplemented", "error"}

\* New: thresholds below one are raised to one.
rise == IF Rise < 1 THEN 1 ELSE Rise
fall == IF Fall < 1 THEN 1 ELSE Fall

\* ctx.Done() of the derived context.
Done == parent \/ cancelled

\* The goroutines Stop waits for: those spawned that have not returned.
Live == {b \in Backends : loop[b] \notin {"off", "exited"}}
WatcherLive == watcher = "waiting"

Init ==
    /\ state = [b \in Backends |-> "unknown"]
    /\ counters = [b \in Backends |-> [success |-> 0, failure |-> 0]]
    /\ gauge = [b \in Backends |-> FALSE]
    /\ loop = [b \in Backends |-> "off"]
    /\ watcher = "off"
    /\ started = FALSE /\ stop = FALSE /\ parent = FALSE /\ cancelled = FALSE
    /\ caller = [c \in Stoppers |-> "idle"]
    /\ hist = [b \in Backends |-> <<>>]

-----------------------------------------------------------------------------
(* Start, Stop and the watcher.                                            *)

\* Mutant: Start does not look at the stop channel.
Start_AfterStop ==
    /\ ~started
    /\ started' = TRUE
    /\ watcher' = "waiting"
    /\ loop' = [b \in Backends |-> "probing"]
    /\ UNCHANGED <<state, counters, gauge, stop, parent, cancelled, caller, hist>>

Start ==
    /\ ~started
    /\ started' = TRUE
    /\ watcher' = IF stop THEN "off" ELSE "waiting"
    /\ loop' = [b \in Backends |-> IF stop THEN "off" ELSE "probing"]
    /\ UNCHANGED <<state, counters, gauge, stop, parent, cancelled, caller, hist>>

ParentEnds ==
    /\ ~parent
    /\ parent' = TRUE
    /\ UNCHANGED <<state, counters, gauge, loop, watcher, started, stop, cancelled, caller, hist>>

\* Mutant: the watcher only listens to the context.
WatcherExits_IgnoresStop ==
    /\ watcher = "waiting"
    /\ Done
    /\ watcher' = "exited"
    /\ cancelled' = TRUE
    /\ UNCHANGED <<state, counters, gauge, loop, started, stop, parent, caller, hist>>

WatcherExits ==
    /\ watcher = "waiting"
    /\ Done \/ stop
    /\ watcher' = "exited"
    /\ cancelled' = TRUE
    /\ UNCHANGED <<state, counters, gauge, loop, started, stop, parent, caller, hist>>

Stop(c) ==
    /\ caller[c] = "idle"
    /\ stop' = TRUE
    /\ caller' = [caller EXCEPT ![c] = "waiting"]
    /\ UNCHANGED <<state, counters, gauge, loop, watcher, started, parent, cancelled, hist>>

StopReturns(c) ==
    /\ caller[c] = "waiting"
    /\ Live = {} /\ ~WatcherLive
    /\ caller' = [caller EXCEPT ![c] = "returned"]
    /\ UNCHANGED <<state, counters, gauge, loop, watcher, signals, hist>>

-----------------------------------------------------------------------------
(* The goroutine of one backend.                                           *)

CheckOnce(answer) ==
    IF answer \in {"serving", "unimplemented"} THEN "healthy" ELSE "unhealthy"

Clamped(n, limit) == IF n < limit THEN n + 1 ELSE n

\* Mutant: a success does not end a run of failures.
Counted_NoReset(st, s) ==
    IF s = "healthy" THEN [st EXCEPT !.success = Clamped(@, rise)]
                     ELSE [success |-> 0, failure |-> Clamped(st.failure, fall)]

Counted(st, s) ==
    IF s = "healthy" THEN [success |-> Clamped(st.success, rise), failure |-> 0]
                     ELSE [success |-> 0, failure |-> Clamped(st.failure, fall)]

\* The state record stores after result s, given the counters it just updated.
Target(old, st, s) ==
    CASE s = "healthy" /\ st.success >= rise -> "healthy"
      [] s = "unhealthy" /\ st.failure >= fall -> "unhealthy"
      [] OTHER -> old

\* probe up to the swap of the state.  The RPC has a timeout and fails when the
\* context ends, so it always returns; the caller of record cannot tell why.
Probe(b) ==
    /\ loop[b] = "probing"
    /\ \E answer \in Answers :
         LET s == CheckOnce(answer)
             st == Counted(counters[b], s)
             target == Target(state[b], st, s)
         IN /\ counters' = [counters EXCEPT ![b] = st]
            /\ state' = [state EXCEPT ![b] = target]
            /\ loop' = [loop EXCEPT ![b] = IF target # state[b] THEN "publishing" ELSE "waiting"]
            /\ hist' = [hist EXCEPT ![b] = Append(@, s)]
    /\ UNCHANGED <<gauge, watcher, signals, caller>>

\* SetBackendHealth, then NotifyChange: its only callback, Balancer.Rebuild,
\* finds the membership unchanged.
Publish(b) ==
    /\ loop[b] = "publishing"
    /\ gauge' = [gauge EXCEPT ![b] = state[b] = "healthy"]
    /\ loop' = [loop EXCEPT ![b] = "waiting"]
    /\ UNCHANGED <<state, counters, watcher, signals, caller, hist>>

\* The timer fires.  When the context has ended as well, select may take either.
Wake(b) ==
    /\ loop[b] = "waiting"
    /\ Len(hist[b]) < MaxProbes
    /\ loop' = [loop EXCEPT ![b] = "probing"]
    /\ UNCHANGED <<state, counters, gauge, watcher, signals, caller, hist>>

Exit(b) ==
    /\ loop[b] = "waiting"
    /\ Done
    /\ loop' = [loop EXCEPT ![b] = "exited"]
    /\ UNCHANGED <<state, counters, gauge, watcher, signals, caller, hist>>

-----------------------------------------------------------------------------
Next ==
    \/ Start \/ ParentEnds \/ WatcherExits
    \/ \E c \in Stoppers : Stop(c) \/ StopReturns(c)
    \/ \E b \in Backends : Probe(b) \/ Publish(b) \/ Wake(b) \/ Exit(b)

\* Goroutines run and probes time out; Exit is strongly fair because select
\* chooses at random among its ready cases.
Fairness ==
    /\ WF_vars(WatcherExits)
    /\ \A c \in Stoppers : WF_vars(StopReturns(c))
    /\ \A b \in Backends : WF_vars(Probe(b)) /\ WF_vars(Publish(b)) /\ SF_vars(Exit(b))

Spec == Init /\ [][Next]_vars /\ Fairness

-----------------------------------------------------------------------------
(* Properties.                                                             *)

TypeOK ==
    /\ state \in [Backends -> States]
    /\ counters \in [Backends -> [success : 0..rise, failure : 0..fall]]
    /\ gauge \in [Backends -> BOOLEAN]
    /\ loop \in [Backends -> {"off", "probing", "publishing", "waiting", "exited"}]
    /\ watcher \in {"off", "waiting", "exited"}
    /\ started \in BOOLEAN /\ stop \in BOOLEAN /\ parent \in BOOLEAN /\ cancelled \in BOOLEAN
    /\ caller \in [Stoppers -> {"idle", "waiting", "returned"}]
    /\ hist \in [Backends -> Seq({"healthy", "unhealthy"})]

\* The end of the last run of n results s in h, 0 when there was none.
LastRun(h, s, n) ==
    LET ends == {i \in n..Len(h) : \A j \in i-n+1..i : h[j] = s}
    IN IF ends = {} THEN 0 ELSE CHOOSE i \in ends : \A j \in ends : j <= i

\* A backend's state is decided by its whole history of probes: healthy exactly
\* when the last run of Rise successes came after the last run of Fall failures,
\* unhealthy the other way round, unknown before either (record's hysteresis,
\* whose counters remember far less than that).  The health gauge disagrees with
\* it only while the goroutine that flipped it is on its way to publish.
Damped ==
    /\ TypeOK
    /\ \A b \in Backends :
         LET up == LastRun(hist[b], "healthy", rise)
             down == LastRun(hist[b], "unhealthy", fall)
         IN state[b] = CASE up > down -> "healthy"
                         [] down > up -> "unhealthy"
                         [] OTHER -> "unknown"
    /\ \A b \in Backends : loop[b] # "publishing" => gauge[b] = (state[b] = "healthy")

\* Once any Stop has returned no goroutine of the checker is left, so no
\* backend flips while traffic drains (shutdown's reason to stop probing first),
\* even when Start is called afterwards.
QuietAfterStop ==
    (\E c \in Stoppers : caller[c] = "returned") => Live = {} /\ ~WatcherLive

\* Every Stop returns, whatever the probes are doing and whichever signal came
\* first.
StopTerminates == \A c \in Stoppers : caller[c] = "waiting" ~> caller[c] = "returned"
=============================================================================
