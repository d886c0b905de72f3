# Verification of nw-lb-go

nw-lb-go is a layer-7 gRPC load balancer: a proxy that forwards any method to a
fleet of backends, with consistent hashing, health checks, circuit breakers,
rate limits and retries. This directory models its stateful parts in TLA+,
checks them with TLC on small instances and proves the central properties with
TLAPS for every instance.

## The system

| part | state | operations | talks to |
|---|---|---|---|
| circuit breaker (`internal/circuit`) | state and its lock-free mirror, ring of buckets, open timer, half-open slots, successes, episode number | Admit, Ready, State, Success, Failure, Release, Counts, Reset | proxy and middleware reserve and settle; callbacks set a gauge |
| proxy (`internal/proxy`) | per RPC: current upstream stream, committed, halfClosed, what the client has seen | handle, run, install, pump, relay, canRetry, record | balancer for candidates, pool for reservations, gRPC for streams |
| pool (`internal/pool`) | backends with health state and breaker, change callbacks | Reserve, Available, SetState, OnChange, NotifyChange, Close | health checker, balancer, proxy |
| health checker (`internal/health`) | rise and fall counters per backend | Start, Stop, CheckOnce, probe, record | pool |
| balancer and ring (`internal/balancer`, `internal/hashring`) | ring of all configured members (health is a filter over it), rotation counter | Pick, Rebuild; Set, Add, Remove, Get, GetN | pool |
| rate limiter (`internal/ratelimit`) | sharded table of token buckets | Allow, sweep, Close | middleware |
| middleware (`internal/middleware`) | table of metric labels, per-method breakers, gauges | interceptor chain | rate limiter, breaker registry, proxy |
| configuration (`internal/config`) | none | Default, Load, ApplyEnv, Validate | process |
| process (`cmd/lb`) | servers, connections, goroutines, shutdown phase | resolveConfig, runWith, shutdown | all of the above |
| load generator (`cmd/loadgen`) | schedule, channel of slots, samples | open and closed loop, report | the balancer, over the network |

What makes these hard: outcomes of long streams that arrive in a later episode
of a breaker; a lock-free fast path; callbacks that run after the unlock; a pump
goroutine that races every retry decision; half-closes and cancellations at any
moment; backends that answer, break or hang at any moment; panics that unwind
through counters; a start that fails half way; a shutdown that must neither wait
for ever nor close connections under running requests.

## Modules

* `Circuit` - the fields of a `Breaker` as one record and one operator per
  method that runs under its lock (`advanceLocked`, `countLocked`,
  `setStateLocked`, `refreshLocked`, the sections of `Admit`, `record`,
  `release`, `Counts`, `Reset`). Time is counted in ticks; the failure ratio is
  a fraction, compared exactly.
* `Breaker` - `Circuit` used by concurrent goroutines. A step is a lock-free
  read, a critical section, or one callback. `pc` and `probe` say where each
  request is and which probe it holds; `trs` are the transitions a goroutine has
  still to report; `gauge` is `lb_circuit_state`.
* `RollingWindow` - `Circuit` used serially, against the history of all outcomes
  (`hist`) that the ring of buckets summarises.
* `BreakerProofs`, `RegistryProofs`, `ChainProofs`, `RateLimitProofs` - the theorems
  about the modules they are named after; `ExchangeSteps` and `ExchangeProofs` about
  `Exchange`; `PoolProofs` about `Health` and `Balancer`; `CommandProofs` about
  `Process`, `LoadGen` and `Report`.
* `Exchange` - one proxied RPC: `x` holds the fields of `exchange`, `h` the
  handler goroutine, `p` the pump goroutine, `up` one upstream stream per
  attempt, `seen` what the client was given. `install` holds the mutex from
  opening the stream to sending the first message, so those are two steps with
  the pump locked out (`MuFree`). The client and the gRPC streams are external:
  a stream may be answered, ended or broken whenever it is open, `SendMsg` fails
  on an ended stream, and an ended context ends its streams at some later step.
* `Health` - the checker: one goroutine per backend (`loop`, `counters`), the
  watcher that folds the two shutdown signals into one context, and callers of
  `Stop`. A probe with its counters and the swap of the state is one step (the
  counters are private); publishing the flip is the next. `hist` records all
  results. The main goroutine calls both Start and Stop, so they do not overlap.
* `Registry` - a bounded table with an overflow entry, one step per atomic
  operation: `circuit.Registry.Get`, and `boundedLabels.label`, which runs the
  same steps. `call` says where each caller is and what it was given.
* `Chain` - concurrent requests on their way through the interceptors, with two
  instances of `Registry`: the labels of `Metrics` and the breakers of
  `CircuitBreak`. A request may be refused by the limiter or by its breaker, and
  its handler may return any code or panic. Breakers appear by their answers and
  by the outcomes they are owed (`owed`); `inflight`, `observed` and `panics` are
  the metrics; of the panic counter only the sum is kept.
* `RateLimit` - `Allow` step by step, the janitor shard by shard, and `Close`.
  `rate.Limiter` is external: a bucket taken from atomically, counted in
  fractions of a token. `mode` is the configuration.
* `HashRing` - `build`, the writers and the readers as operators; `hash` is any
  hash function of a small space, so collisions are included.
* `Balancer` - one `Pick`, a step per read of a backend's health or breaker,
  while both change. A key stands for the preference order the ring gives it. Its
  specification is `PickSpec`, so that `PoolProofs` can extend it beside `Health`.
* `Config` - the layers of the configuration as operators: defaults, file,
  environment, derived values, flags, and the checks of `Validate`. A
  configuration is a function from settings to values; words and numbers are
  taken from small sets that include blanks, unparsable values and NaN. Rates are
  counted in quarters. Syntax errors of the command line are left out.
* `Process` - `runWith` with the pool's construction and `Close`, `shutdown`, and
  the deferred cleanups. `main` is the main goroutine, `stopper` the goroutine of
  `GracefulStop`, `serve` the two goroutines that run the servers' `Serve` and that
  nobody waits for; RPCs, admin requests, signals, failing servers, probes and the
  deadline run beside it. A `Serve` that first runs after its server was told to
  stop closes its listener and returns; until then the server knows nothing of that
  listener, and stopping it leaves the port open. The components appear by what the process needs of them
  and the other modules show: a Stop that silences the checker (`Health`), a
  handler that returns once it is cancelled (`Exchange`), a Close that returns
  (`RateLimit`).
* `Drain` - what the process promises about its end, in nine actions, without
  goroutines, deadlines or components. `Process` implements it (see below).
* `Report` - percentiles, rounding, counts and verdict of the load generator's
  report, as operators.
* `LoadGen` - a run of the load generator: the scheduler and its bounded channel,
  the workers of both modes, an interrupt at any time, the report. Of
  `options.validate` it has the modes and their rates; the other checks bound what
  the constants may be (`LoadGenAssumption`). A rate or an error budget of NaN passes
  `validate`, so the first may mean no slots at all and the second is a value of its
  own (`Report`).
* `MCBreaker`, `MCRollingWindow`, `MCRateLimit`, `MCBalancer`, `MCProcess` -
  constants for TLC.

## Runs

| run | question | result |
|---|---|---|
| `breaker` | do slots, episodes and recovery stay exact for three requests, a poller and late callbacks, and does a saturated or open breaker always move on? | holds |
| `breaker_gauge` | does the gauge settle on the breaker's state? | violated: callbacks may run in the opposite order |
| `rolling_window` | does the window count exactly the outcomes of its buckets? | holds |
| `exchange` | is the request direction lossless and free of duplicates, and every reservation settled once? | holds |
| `exchange_live` | does the client hear one attempt only, do both goroutines end, and does a half-close arrive? | holds |
| `health` | do two small counters decide what the whole history of probes says, is every flip published, and does every Stop return and leave nothing running? | holds |
| `rate_limit` | do both limits hold over every stretch of time while idle entries are swept, and does Close return? | holds, unless an entry in use is swept |
| `hash_ring` | are orders complete, owners nearest, and moves minimal for every hash function? | holds |
| `balancer` | is Pick exact when nothing changes, and never empty, duplicated or needlessly sick when something does? | holds |
| `chain` | does every method keep its own breaker, every breaker get its outcome and every gauge come back to zero, with full tables, refusals and panics? | holds |
| `process` | does the process implement `Drain`, leave nothing behind that does not end by itself, from any failed start or shutdown, leave the backends alone while it drains, and accept only what its parts can be built from? | holds |
| `loadgen` | is no request left out of the report, is a pass earned, are percentiles exact, and does every run end? | holds |

Four properties are stated in the modules and belong to no run, because the
code does not keep them; adding one to the named configuration shows how.
`ClientLimit` (`RateLimit.cfg` with `MaxCalls = 3` and `Closers = {}`): `client`
publishes a new entry whose `last` is still zero, unlocks, and stores the time
after that; a sweep in between deletes the entry, and the next request of that
client gets a second full bucket, against the comment at
`internal/ratelimit/ratelimit.go:129-130`. `ClientLimitUnlessTorn` is the part
that holds.
`AnsweredNotReplayed` (`ExchangeLive.cfg` with the policy connect-failure): a
backend that itself answers Unavailable before the first message is sent is
followed by another one, against the comment at `internal/proxy/proxy.go:435-440`.
`TrailerForwarded` (`ExchangeLive.cfg`): a status read by `firstSendError`
reaches the client without the backend's trailer, against
`docs/CONTRACT.md:472-473`. `PreferenceOrder` (`Balancer.cfg`): a preferred
backend that recovers between the two scans of `Pick` is listed after a less
preferred one, against `internal/balancer/balancer.go:82`.

A divergence outside the modules' data: the comment at
`internal/middleware/metrics.go:13-15` says that the number of method labels that
reach Prometheus is bounded. Only the metrics of the interceptor `Metrics` use the
bounded label. `lb_panics_total`, `lb_rate_limited_total`, `lb_rejected_total`
(`internal/middleware/recovery.go:27`, `ratelimit.go:26`, `circuitbreaker.go:27`) and
`lb_failovers_total` (`internal/proxy/proxy.go:466`) take the method as it
came. `Capped` is about the table of labels and the table of breakers.

What may outlive `runWith`. `NothingLeaks` names it. A signal, or the failure of
the other server, may start and even finish the shutdown before a goroutine of `Serve`
has run; its listener is then still open when `runWith` returns, and `Drains` says
that it is closed and the goroutine ends (the channels of the results are buffered,
`cmd/lb/main.go:149-150`). An admin request that is still served when the grace is
over outlives it too: `adminSrv.Close` closes the connection and does not wait for
the handler. Everything else is gone: connections, checker, janitor and RPCs, and
after a failed start both ports.

Refinement. `Process` is a `Drain` under the mapping: `active` are the handlers
that run, `asked` is a signal or a failed server, `held` are the ports that are open
or have a goroutine of `Serve`, and `phase` follows the
goroutine of `GracefulStop` (draining from its first moments on) and the pool
(closed once the connections are). TLC checks the steps and the fairness: every
step of the process is a step of `Drain` or leaves it alone, in particular
connections are never closed under a handler, on the graceful or the forced path,
and a process that is asked to stop ends although backends and clients may hang,
and gives back both ports.

What a pass of `loadgen` means. `VerdictHonest` is stated to the rounding of the
report: the error ratio is rounded to six decimals, so one failure in more than
two million requests passes a budget of zero, and times to a microsecond. It says
nothing of the failures when the budget is NaN: the flag parses, no comparison
with it is true, so that neither `validate` (`cmd/loadgen/main.go:166`, "-error-budget
must be in [0,1]") nor the verdict refuses any share of them. A
schedule the target cannot follow drops nothing: the delay is response time of the
slots it held up.

Bounds. `breaker`: three requests against `HalfOpenMax` 2 give a full episode
with a request left over from before the trip; two ticks let the window pass and
the open timer expire twice. Successes kept from an episode that failed
would take a fourth request to show; the proofs below cover the safety properties
for that and every other instance. `rolling_window`: three buckets of two
ticks, a window the buckets do not divide, clock jumps up to past the whole
window, four outcomes. `exchange`: three candidates (a failed attempt, a skipped
or refused one, and a last one), two client messages (the buffered one and one
that commits the exchange), one answer per attempt; `exchange_live` has two
candidates and two answers each, and a code that is no failure of the backend.
`health`: five probes with Rise 2 and Fall 3 let a backend come up and then go
down, or the reverse. `rate_limit`:
two overlapping calls against a global burst of one, and enough time for an idle entry to
be swept and recreated; a client's burst refills within the TTL, without which
idle eviction itself would give tokens away. `hash_ring`: three members with one
or two points on a space of three hashes, so most points collide. `balancer`:
three backends, limits below, at and above that number, two changes per
behaviour, two calls. `chain`: three requests and three methods on tables of one
entry, so the cap is overshot by two and a method is met before, during and after
the table fills up; requests and methods are interchangeable. `process`: two RPCs,
one or two backends, and inputs that combine any two of file, environment and
flags. `loadgen`: two workers, a schedule of four slots against a channel of two
or four, an SLO of half a microsecond (which the rounding blurs), and two calls per worker in closed mode.

Fairness. `Breaker`: a goroutine inside a method returns, callers settle what
they reserved (the contract of `Admit`, which `SettledOnce` of `Exchange` checks
for the proxy), the clock advances and somebody keeps polling (`Pick` asks every
candidate). `Exchange`: goroutines run and contexts propagate; nothing is asked
of clients or backends, which may hang. `Health`: goroutines run and a probe
returns (it has a timeout). `RateLimit`: the janitor runs. In both the exit from
a `select` is strongly fair, because Go chooses at random among ready cases.
`Process`: nobody has to start the program; once it is started goroutines run
(those of `Serve` at some time, however late), the deadline comes, and a handler returns once `Stop`
has cancelled it; handlers that are not cancelled, admin requests and signals are
not fair. `LoadGen`: goroutines run, time passes and a call ends, because it has a
timeout (`requestTimeout`).

## Proofs

TLAPS proves the theorems below for every value of the constants that satisfies
the named assumptions; the runs check the same definitions on small instances.
Each inductive invariant (`IInv`; `PickInv` for `Balancer`, `GenInv` for `LoadGen`)
was itself checked by TLC on the instance of its run (`Balancer` with a single Pick).
Every proof has one lemma per action (`...Keeps`), one that collects them and one
that makes the temporal step.

| module | theorems | for every |
|---|---|---|
| `BreakerProofs` | `TypeOK`, `MirrorAgrees`, `ProbeAccounting`, `OneTransitionPerSection`, `OnlyOwnProbesJudge`, `RecoveryEarned` | `Settings` with a positive denominator, finite set of requests, pollers, horizon |
| `ExchangeProofs` (with `ExchangeSteps`) | `NothingLost`, `NoTruncation`, `AtMostOnce`, `OneVoice`, `SettledOnce` | number of candidates, messages and answers, set of policies and statuses |
| `PoolProofs` | `Damped`, `QuietAfterStop` | finite sets of backends and callers of Stop, Rise, Fall, number of probes |
| `PoolProofs` | `ExactWhenCalm`, `OwnerFirst`, `NoSickCandidate` | pool of distinct backends, number of attempts, changes of health and breakers |
| `ChainProofs` (with `RegistryProofs`) | `Isolation`, `Capped`, `ProbesSettled`, `Accounting` | finite sets of requests and methods, cap |
| `RateLimitProofs` | `GlobalLimit`, `ClientLimitUnlessTorn` | rates, bursts, TTL of two ticks or more, keys, shards, requests |
| `CommandProofs` | `NothingLeaks`, `SteadyWhileDraining`, `AcceptedIsUsable`, the safety part of `Drains` | set of RPCs, set of inputs |
| `CommandProofs` | `EverySlotOnce` at the end of an undisturbed open run | number of slots and workers, delays, horizon |
| `CommandProofs` | `PercentileRank` | number of samples and percentile |

Breaker. `IInv` adds two facts to the checked properties: no
request holds a probe of a future episode, and a request that has not been let
in holds none. The first makes a fresh episode start with nobody in it, which is
why zeroing the counters on a transition is sound; the second makes the
resolution of a probe remove exactly one member of `Outstanding`. Each operator
of `Circuit` has a lemma that says which control fields it moves (`SameControl`,
`Moved`, `Returned`), so the proof never looks inside the window there. A second
group of lemmas (`WindowOK`) keeps the ring and the clocks in range, and
`NoOwnFailure` (in half-open no probe of the episode has failed) carries the
recovery theorem.

Exchange. The five properties need one another, so they have one invariant, in
six parts besides the types. `Walk` ties the two counters to the candidate and the
place of the handler. `Settled` says that reservations behind the handler are
settled and those ahead not taken. `Streams` says that nothing is on a stream that
the pump was never pointed at. `Target` is the protocol of the mutex: the pump's
target is the current attempt or an ended one, `committed` and `halfClosed` are set
only with a target, and the pump sends to the installed stream. `Handed` is the
heart: all that was read off the client's stream, but for the message in the
pump's hand, is on the target, unless the target has ended and the pump given up;
and before `committed` that is the buffered first message at most, so replaying it
is the whole replay. `Voice` says that nothing is shown to the client before an
attempt is relayed, and that no other attempt follows once something is. A backend
moves only open streams and never what they were handed (`Evolves`), so its three
actions share a proof.

Health. For `Damped` the invariant `Remembers` says that each counter, up to its
threshold, is the length of the run of equal results that ends the history, and
`LastRunAppend` how one more result moves the last run of a length. That is why two
saturating counters decide what the whole history says. `QuietAfterStop` needs
only that a caller of Stop past its first step has closed the channel, and that an
unstarted checker has no goroutines.

Balancer. The history variable `seen` records who stayed available since Pick
began, who was seen healthy or ready, and whether anything changed. `Sure` is the set
a scan of the current rung cannot pass over: those who stayed available, or the
healthy ones of a calm Pick, or everybody. The invariant `Scan` says that a sure
backend behind the scan is a candidate (`Passed`), that a rung is left only when
nobody was sure on it (`Listed`), that the owner of the key is met before anybody
else (`Owner`), and that in a calm Pick the candidates are sure, in preference
order, and have no sure one missing before them (`Exact`). `SkipKeeps` and
`AdmitKeeps` are the two ways past a backend, shared by the two reads; the widening
of a keyed scan keeps `Exact` because the candidates found so far are those of a
beginning of the order. `RotationPermutes` makes the order of a keyless Pick a
permutation. `BalancerAssumption` says that the configured backends are distinct and
there is one.

Chain. `RegistryProofs` proves that the steps of one bounded table keep `Inv`: a
goroutine that stored or found an entry holds the entry of its name, a name found
at the start stays found, and the counter is the size of the table less the calls
about to count theirs and never goes back. It is instantiated twice, for labels and
for breakers; `StepAlone` says that a step of one request leaves the calls of the
others alone. `Flow` is the rest: how far a request is in its lookups (`Lookups`),
what it has told its breaker (`Telling`), and each gauge and counter as the
cardinality of a set of requests (`Counts`). `CountChange` moves one request into
or out of such a set.

RateLimit. Both limits rest on `Backed`: for each past admission, the tokens still
in the bucket together with the admissions since are no more than the burst and
what the rate added since. `TakenBacked` keeps it when a token is asked for, granted
or not. For clients `Faded` says the same without a bucket: the rate alone has made
good all admissions, so a fresh bucket may take over (`FreshBacked`). A swept
entry that nobody used since the cutoff fades (`BackedFades`), because it refills
within the TTL (`RefillsWithinTTL`, a hypothesis of the property; without it idle
eviction gives tokens away). `Single` says that as long as a key is not torn all
its requests use the entry of the table, which is what the second look under the
write lock is for. Products of rates and times are kept out of the steps by
arithmetic lemmas (`Stretch`, `Longer`, `OneMore`).

Process. `IInv` places the checker, the listeners, the connections and the
goroutines of `GracefulStop` and `Serve` in the phases of `main`: nothing is served
before the select, a listener is open past the shutdown of its server only if its
`Serve` has not run (`Lent`), the drain begins only after the checker is off, the connections are closed
only after `GracefulStop` has returned, and it returns only when the last handler
has. `DrainTheorem` maps each step to a step of `Drain` or a stutter from the same
invariant. `UsableTheorem` follows the configuration through its layers: what
`resolveConfig` accepts has passed `Validate` in its final form, with the derived
bursts filled in after the environment and before the flags, which set no rate. `InputsAssumption` is what it asks of the inputs: flags
and environment set only the settings the code reads from them, and the rates are
numbers of the model.

LoadGen. A slot not yet sent is counted by `next`; one in the channel is among the
last sent (`Channel`); all before (`Handed`) are with exactly one worker, as a sample
or as the call in flight (`Known`, `Found`, `Once`). Completing a call moves nothing
in that account: the call in flight becomes the last sample. A worker leaves only
when the channel is closed and empty, which without an interrupt is the end of the
schedule. `NothingOmitted` has `EverySlotOnce` as a conjunct; its other conjuncts
count in the merged report and are model-checked.

Report. `PercentileRank`: for every number of samples and every
percentile in millionths the index lies within the sorted samples, its rank covers
the asked share and the rank before does not. `PercentileExact` checks the same of
whole reports on small runs. The proof goes through the two inequalities of the
rounded-up quotient (`CeilMillion`) and keeps the clamps apart (`RankInRange`).

Only model-checked: the liveness properties, and the fairness in the refinement of
`Drain` (temporal reasoning under fairness and ENABLED are out of the prover's
reach); `WindowExact` and `TripJustified` (sums over buckets and histories),
`CompleteOrder`, `NearestPoint` and `MinimalDisruption` (a fold over a sorted
sequence of points), `NothingOmitted` (but for `EverySlotOnce`), `VerdictHonest` and `PercentileExact` (sorting,
filtering and concatenating sequences): these are what recursive functions compute
for every input, which needs an induction over data that the provers cannot
instantiate.

## Not modelled

* The demo backend (`cmd/backend`): stateless echo handlers for demonstrations; its
  life cycle is the balancer's without components and without a deadline.
* The passthrough codec's reference counts of buffers, the registration of the
  metrics, and generated protobuf code.
* The interceptors `Context` and `Logging`, the admin pages, the report's table and
  JSON, service times and per-key statistics: formatting of what the modules have.
* A panic inside `exchange.run` between `Reserve` and `record`: the code makes no
  call there that panics by itself.
* Visualisations under `docs/viz`.
