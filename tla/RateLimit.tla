----------------------------- MODULE RateLimit -----------------------------
(***************************************************************************)
(* The rate limiter (ratelimit.go): a global token bucket, per-client      *)
(* buckets in a sharded table, and the janitor that sweeps idle ones, all  *)
(* used by concurrent requests.  rate.Limiter is external: a bucket that   *)
(* starts full, refills with time and is taken from atomically.            *)
(***************************************************************************)
EXTENDS Integers, Sequences, FiniteSets

CONSTANTS
    Requests,         \* goroutines calling Allow
    Keys,             \* client keys
    Closers,          \* callers of Close
    shardCount, ShardOf,  \* the number of shards, and the shard of each key
    Global, Client,   \* [rps |-> [num, den], burst]: the two configured limits, per tick
    TTL,              \* ttl, in ticks
    MaxCalls, MaxTime \* bounds on the calls of Allow and on the clock

Settings(c) == c.rps.num \in Int /\ c.rps.den \in Nat \ {0} /\ c.burst \in Int

ASSUME RateLimitAssumption ==
    /\ Keys # {} /\ shardCount \in Nat \ {0} /\ ShardOf \in [Keys -> 1..shardCount]
    /\ Settings(Global) /\ Settings(Client)
    /\ TTL \in Nat \ {0, 1} /\ MaxCalls \in Nat /\ MaxTime \in Nat

VARIABLES
    mode,      \* the configuration: disabled, global only, or per client too
    now,       \* l.now()
    global,    \* the global bucket
    entries,   \* every entry ever made: its key, last access and bucket
    table,     \* the maps of all shards: the entry of each key, or None
    pc,        \* where each request is
    req,       \* its key and the entry it holds
    calls,     \* number of calls of Allow
    janitor,   \* [pc, due, cutoff, shard]
    stop,      \* the stop channel is closed
    closer,    \* where each caller of Close is
    passed,    \* history: when the global bucket let a request through, in order
    admitted,  \* history: when each client's buckets did
    torn       \* history: keys of entries swept while in use

requests == <<pc, req, calls>>
histories == <<passed, admitted, torn>>
vars == <<mode, now, global, entries, table, requests, janitor, stop, closer, histories>>

None == 0

Ceil(r) == -((-r.num) \div r.den)

\* bucketParams: no rate means no limit, no burst means the rate rounded up.
Unlimited(c) == c.rps.num <= 0
Burst(c) ==
    IF c.burst > 0 THEN c.burst ELSE IF Ceil(c.rps) < 1 THEN 1 ELSE Ceil(c.rps)

-----------------------------------------------------------------------------
(* rate.Limiter.  Tokens are counted in units of 1/den.                    *)

NewLimiter(c, t) == [tokens |-> Burst(c) * c.rps.den, at |-> t]

Refilled(c, bucket, t) ==
    LET full == Burst(c) * c.rps.den
        sum == bucket.tokens + (t - bucket.at) * c.rps.num
    IN IF sum > full THEN full ELSE sum

HasToken(c, bucket, t) == Unlimited(c) \/ Refilled(c, bucket, t) >= c.rps.den

Taken(c, bucket, t) ==
    IF Unlimited(c) THEN bucket
    ELSE LET have == Refilled(c, bucket, t)
         IN [tokens |-> IF have >= c.rps.den THEN have - c.rps.den ELSE have, at |-> t]

\* The epoch is long past: every cutoff is after the zero value of entry.last.
StartTime == TTL + 1

Init ==
    /\ mode \in {"disabled", "global", "perClient"}
    /\ now = StartTime
    /\ global = NewLimiter(Global, now)
    /\ entries = <<>>
    /\ table = [k \in Keys |-> None]
    /\ pc = [r \in Requests |-> "idle"]
    /\ req = [r \in Requests |-> [key |-> CHOOSE k \in Keys : TRUE, entry |-> None]]
    /\ calls = 0
    /\ janitor = [pc |-> IF mode = "perClient" THEN "waiting" ELSE "off",
                  due |-> now + TTL \div 2, cutoff |-> 0, shard |-> 1]
    /\ stop = FALSE
    /\ closer = [c \in Closers |-> "idle"]
    /\ passed = <<>> /\ admitted = [k \in Keys |-> <<>>] /\ torn = {}

Tick ==
    /\ now < StartTime + MaxTime
    /\ now' = now + 1
    /\ UNCHANGED <<mode, global, entries, table, requests, janitor, stop, closer, histories>>

-----------------------------------------------------------------------------
(* Allow.                                                                  *)

Goto(r, to) == pc' = [pc EXCEPT ![r] = to]

\* Mutant: with per-client limits the global bucket's answer is not used.
Allow_ClientOnly(r, k) ==
    /\ pc[r] \in {"idle", "allowed", "rejected"}
    /\ calls < MaxCalls
    /\ calls' = calls + 1
    /\ req' = [req EXCEPT ![r] = [key |-> k, entry |-> None]]
    /\ \/ /\ mode = "disabled"
          /\ Goto(r, "allowed")
          /\ UNCHANGED <<global, passed>>
       \/ /\ mode # "disabled"
          /\ global' = Taken(Global, global, now)
          /\ \/ /\ mode = "global" /\ ~HasToken(Global, global, now)
                /\ Goto(r, "rejected")
                /\ UNCHANGED passed
             \/ /\ mode = "perClient" \/ HasToken(Global, global, now)
                /\ passed' = Append(passed, now)
                /\ Goto(r, IF mode = "global" THEN "allowed" ELSE "lookup")
    /\ UNCHANGED <<mode, now, entries, table, janitor, stop, closer, admitted, torn>>

Allow(r, k) ==
    /\ pc[r] \in {"idle", "allowed", "rejected"}
    /\ calls < MaxCalls
    /\ calls' = calls + 1
    /\ req' = [req EXCEPT ![r] = [key |-> k, entry |-> None]]
    /\ \/ /\ mode = "disabled"
          /\ Goto(r, "allowed")
          /\ UNCHANGED <<global, passed>>
       \/ /\ mode # "disabled"
          /\ global' = Taken(Global, global, now)
          /\ \/ /\ ~HasToken(Global, global, now)
                /\ Goto(r, "rejected")
                /\ UNCHANGED passed
             \/ /\ HasToken(Global, global, now)
                /\ passed' = Append(passed, now)
                /\ Goto(r, IF mode = "global" THEN "allowed" ELSE "lookup")
    /\ UNCHANGED <<mode, now, entries, table, janitor, stop, closer, admitted, torn>>

Lookup(r) ==
    /\ pc[r] = "lookup"
    /\ LET e == table[req[r].key]
       IN /\ req' = [req EXCEPT ![r].entry = e]
          /\ Goto(r, IF e = None THEN "create" ELSE "touch")
    /\ UNCHANGED <<mode, now, global, entries, table, calls, janitor, stop, closer, histories>>

\* A new entry for r's key enters the table.
Insert(r) ==
    /\ entries' = Append(entries, [key |-> req[r].key, last |-> 0,
                                   bucket |-> NewLimiter(Client, now)])
    /\ table' = [table EXCEPT ![req[r].key] = Len(entries) + 1]
    /\ req' = [req EXCEPT ![r].entry = Len(entries) + 1]

\* Mutant: no second look under the write lock.
Create_NoRecheck(r) ==
    /\ pc[r] = "create"
    /\ Insert(r)
    /\ Goto(r, "touch")
    /\ UNCHANGED <<mode, now, global, calls, janitor, stop, closer, histories>>

Create(r) ==
    /\ pc[r] = "create"
    /\ LET e == table[req[r].key]
       IN \/ /\ e # None
             /\ req' = [req EXCEPT ![r].entry = e]
             /\ UNCHANGED <<entries, table>>
          \/ e = None /\ Insert(r)
    /\ Goto(r, "touch")
    /\ UNCHANGED <<mode, now, global, calls, janitor, stop, closer, histories>>

Touch(r) ==
    /\ pc[r] = "touch"
    /\ entries' = [entries EXCEPT ![req[r].entry].last = now]
    /\ Goto(r, "take")
    /\ UNCHANGED <<mode, now, global, table, req, calls, janitor, stop, closer, histories>>

Take(r) ==
    /\ pc[r] = "take"
    /\ LET e == req[r].entry
           ok == HasToken(Client, entries[e].bucket, now)
       IN /\ entries' = [entries EXCEPT ![e].bucket = Taken(Client, @, now)]
          /\ Goto(r, IF ok THEN "allowed" ELSE "rejected")
          /\ req' = [req EXCEPT ![r].entry = None]
          /\ admitted' = IF ok THEN [admitted EXCEPT ![req[r].key] = Append(@, now)]
                               ELSE admitted
    /\ UNCHANGED <<mode, now, global, table, calls, janitor, stop, closer, passed, torn>>

-----------------------------------------------------------------------------
(* The janitor and Close.                                                  *)

SweepBegins ==
    /\ janitor.pc = "waiting"
    /\ now >= janitor.due
    /\ janitor' = [pc |-> "sweeping", due |-> now + TTL \div 2, cutoff |-> now - TTL, shard |-> 1]
    /\ UNCHANGED <<mode, now, global, entries, table, requests, stop, closer, histories>>

\* The entry of k is held by a request, or was taken from since the cutoff by
\* one that stalled after its Touch.
InUse(k) ==
    \/ \E r \in Requests : pc[r] \in {"touch", "take"} /\ req[r].entry = table[k]
    \/ entries[table[k]].bucket.at >= janitor.cutoff

Idle(k) ==
    table[k] # None /\ ShardOf[k] = janitor.shard /\ entries[table[k]].last < janitor.cutoff

\* One shard, under its lock.
SweepShard ==
    /\ janitor.pc = "sweeping"
    /\ table' = [k \in Keys |-> IF Idle(k) THEN None ELSE table[k]]
    /\ torn' = torn \cup {k \in Keys : Idle(k) /\ InUse(k)}
    /\ janitor' = IF janitor.shard < shardCount
                  THEN [janitor EXCEPT !.shard = @ + 1]
                  ELSE [janitor EXCEPT !.pc = "waiting"]
    /\ UNCHANGED <<mode, now, global, entries, requests, stop, closer, passed, admitted>>

JanitorExits ==
    /\ janitor.pc = "waiting"
    /\ stop
    /\ janitor' = [janitor EXCEPT !.pc = "exited"]
    /\ UNCHANGED <<mode, now, global, entries, table, requests, stop, closer, histories>>

Close(c) ==
    /\ closer[c] = "idle"
    /\ stop' = TRUE
    /\ closer' = [closer EXCEPT ![c] = "waiting"]
    /\ UNCHANGED <<mode, now, global, entries, table, requests, janitor, histories>>

\* Mutant: a limiter whose janitor was never started is waited for as well.
CloseReturns_NeedsJanitor(c) ==
    /\ closer[c] = "waiting"
    /\ janitor.pc = "exited"
    /\ closer' = [closer EXCEPT ![c] = "returned"]
    /\ UNCHANGED <<mode, now, global, entries, table, requests, janitor, stop, histories>>

\* Later callers block in closeOnce until the first is done.
CloseReturns(c) ==
    /\ closer[c] = "waiting"
    /\ janitor.pc \in {"off", "exited"}
    /\ closer' = [closer EXCEPT ![c] = "returned"]
    /\ UNCHANGED <<mode, now, global, entries, table, requests, janitor, stop, histories>>

-----------------------------------------------------------------------------
Next ==
    \/ Tick \/ SweepBegins \/ SweepShard \/ JanitorExits
    \/ \E r \in Requests :
         \/ \E k \in Keys : Allow(r, k)
         \/ Lookup(r) \/ Create(r) \/ Touch(r) \/ Take(r)
    \/ \E c \in Closers : Close(c) \/ CloseReturns(c)

\* The janitor runs; select chooses at random between a tick and the stop
\* channel, so it cannot pass the stop channel over for ever.
Fairness ==
    /\ WF_vars(SweepShard) /\ SF_vars(JanitorExits)
    /\ \A c \in Closers : WF_vars(CloseReturns(c))

Spec == Init /\ [][Next]_vars /\ Fairness

-----------------------------------------------------------------------------
(* Properties.                                                             *)

\* Every stretch of the log, from its i-th to its j-th entry, fits the limit c.
Conforms(c, log) ==
    Unlimited(c) \/ \A j \in DOMAIN log : \A i \in 1..j :
        (j - i + 1) * c.rps.den <= Burst(c) * c.rps.den + (log[j] - log[i]) * c.rps.num

\* Over every stretch of time the global bucket lets through no more than its
\* burst and what the rate adds, whatever the clients' buckets then do.
GlobalLimit == Conforms(Global, passed)

\* An idle bucket has refilled by the time it may be swept.
RefillsWithinTTL == Burst(Client) * Client.rps.den <= TTL * Client.rps.num

\* A client gets no more than its limit over any stretch of time, concurrent
\* first requests and idle evictions included, as long as the janitor did not
\* sweep an entry in use.
ClientLimitUnlessTorn ==
    RefillsWithinTTL => \A k \in Keys \ torn : Conforms(Client, admitted[k])

\* The same without the exception: two buckets for one key never double the
\* limit, which is why client() looks again under the write lock.
ClientLimit == RefillsWithinTTL => \A k \in Keys : Conforms(Client, admitted[k])

\* Close returns, in every configuration and from every caller, also when a
\* sweep is under way.
CloseTerminates == \A c \in Closers : closer[c] = "waiting" ~> closer[c] = "returned"
=============================================================================
