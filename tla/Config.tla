------------------------------- MODULE Config -------------------------------
(***************************************************************************)
(* How the configuration is resolved (internal/config, and resolveConfig   *)
(* of cmd/lb): defaults, file, environment and flags, each layer replacing *)
(* whole values of the one below.  A configuration is a function from the  *)
(* names of the settings to values and a layer a partial one.              *)
(*                                                                         *)
(* Rates are counted in quarters of a request per second, ratios in per    *)
(* cent, durations in some unit.  " a" is a with blanks around it.         *)
(***************************************************************************)
EXTENDS Integers, Sequences, FiniteSets

CONSTANTS
    DefaultWeight,   \* weight of a backend that gives none
    MaxBurst,        \* stands for math.MaxInt32, where burstFor is clamped
    Unparsed,        \* stands for text that is no number or no duration
    NaN              \* stands for the rate "NaN", which does parse

ASSUME ConfigAssumption ==
    /\ DefaultWeight \in Nat \ {0} /\ MaxBurst \in Nat \ {0}
    /\ Unparsed \in Int \ Nat /\ NaN \in Int \ Nat

Durations == {"interval", "timeout", "window", "open_timeout", "shutdown_grace"}

\* The numbers that must be positive whatever else is set.
Positive == Durations \cup
    {"virtual_nodes", "max_attempts", "rise", "fall", "buckets", "min_requests",
     "half_open_max", "max_recv_msg_size", "max_send_msg_size"}

Switches == {"rate_limit", "per_client", "circuit_breaker"}

\* A layer over a configuration: what it sets replaces what was there.
Over(layer, c) ==
    [k \in DOMAIN layer \cup DOMAIN c |-> IF k \in DOMAIN layer THEN layer[k] ELSE c[k]]

Default ==
    Over([listen |-> "8080", admin_listen |-> "9090", backends |-> <<>>,
          hash_header |-> "x-session-id", retry_policy |-> "connect-failure",
          rps |-> 20, burst |-> 10, per_client_rps |-> 8, per_client_burst |-> 4,
          failure_ratio |-> 50, level |-> "info", format |-> "json", sample_rate |-> 100],
         [k \in Positive \cup Switches |-> IF k \in Switches THEN FALSE ELSE 2])

Settings == DOMAIN Default

\* strings.TrimSpace and strings.ToLower on the words of the model.
TrimSpace(s) == CASE s = " " -> "" [] s = " a" -> "a" [] OTHER -> s
ToLower(s) == IF s = "WARN" THEN "warn" ELSE s

-----------------------------------------------------------------------------
(* The layers.                                                             *)

\* The file's keys over the defaults.  The bursts start at zero, which stands
\* for "not given".
newRawConfig(file) == Over(file, Over([burst |-> 0, per_client_burst |-> 0], Default))

\* The decoder refuses unknown keys, rawConfig.config what is no duration.
FileError(file) ==
    \/ ~(DOMAIN file \subseteq Settings)
    \/ \E k \in Durations \cap DOMAIN file : file[k] = Unparsed

\* One entry of LB_BACKENDS, at position i: "id=addr", or an address alone (its
\* id is "-" here), which is named after its position.
Positional == <<"backend-1", "backend-2">>

Entry(e, i) == [id |-> IF e.id = "-" THEN Positional[i] ELSE TrimSpace(e.id),
                addr |-> TrimSpace(e.addr), weight |-> DefaultWeight]

BlankEntry(e) == e.id = "-" /\ TrimSpace(e.addr) = ""

EntryError(e) == ~BlankEntry(e) /\ (TrimSpace(e.id) = "" \/ TrimSpace(e.addr) = "")

\* Blank entries are passed over but keep their number.
ParseBackends(fields) ==
    LET kept == SelectSeq([i \in DOMAIN fields |-> <<fields[i], i>>], LAMBDA f : ~BlankEntry(f[1]))
    IN [j \in DOMAIN kept |-> Entry(kept[j][1], kept[j][2])]

\* A blank variable is as good as none; LB_BACKENDS is one if it has no comma and
\* a blank entry.
envValue(env) ==
    [k \in {j \in DOMAIN env : IF j = "backends" THEN Len(env[j]) > 1 \/ ~BlankEntry(env[j][1])
                               ELSE j \in {"rps", "max_attempts"} \/ TrimSpace(env[j]) # ""} |->
        CASE k = "backends" -> ParseBackends(env[k])
          [] k \in {"rps", "max_attempts"} -> env[k]
          [] k = "level" -> ToLower(TrimSpace(env[k]))
          [] OTHER -> TrimSpace(env[k])]

EnvError(env) ==
    \/ "backends" \in DOMAIN env /\ \E i \in DOMAIN env.backends : EntryError(env.backends[i])
    \/ \E k \in {"rps", "max_attempts"} \cap DOMAIN env : env[k] = Unparsed

ApplyEnv(c, env) == Over(envValue(env), c)

\* Two seconds of headroom, at least one and clamped.
burstFor(rps) ==
    LET v == (rps + 1) \div 2
    IN IF rps = NaN \/ v < 1 THEN 1 ELSE IF v > MaxBurst THEN MaxBurst ELSE v

Tidy(b) == [id |-> TrimSpace(b.id), addr |-> TrimSpace(b.addr),
            weight |-> IF b.weight = 0 THEN DefaultWeight ELSE b.weight]

applyDerivedDefaults(c) ==
    [c EXCEPT !.backends = [i \in DOMAIN @ |-> Tidy(@[i])],
              !.burst = IF @ = 0 THEN burstFor(c.rps) ELSE @,
              !.per_client_burst = IF @ = 0 THEN burstFor(c.per_client_rps) ELSE @]

-----------------------------------------------------------------------------
(* Validate, and the whole.                                                *)

\* Field k of backend i is empty or was used by an earlier one.
Unusable(bs, i, k) == bs[i][k] = "" \/ \E j \in 1 .. i-1 : bs[j][k] = bs[i][k]

BackendsOK(bs) ==
    /\ bs # <<>>
    /\ \A i \in DOMAIN bs : ~Unusable(bs, i, "id") /\ ~Unusable(bs, i, "addr") /\ bs[i].weight > 0

LimiterProblems(c) ==
    {k \in {"rps", "burst"} : c.rate_limit /\ c[k] <= 0}
    \cup {k \in {"per_client_rps", "per_client_burst"} :
            c.rate_limit /\ c.per_client /\ c[k] <= 0}

\* The settings Validate complains about, all at once.
Validate(c) ==
    {k \in {"listen", "admin_listen"} : TrimSpace(c[k]) = ""}
    \cup {k \in {"backends"} : ~BackendsOK(c.backends)}
    \cup {k \in {"retry_policy"} : c[k] \notin {"connect-failure", "unavailable", "none"}}
    \cup {k \in Positive : c[k] <= 0}
    \cup LimiterProblems(c)
    \cup {k \in {"failure_ratio"} : ~(c[k] > 0 /\ c[k] <= 100)}
    \cup {k \in {"level"} : ToLower(c[k]) \notin {"debug", "info", "warn", "error"}}
    \cup {k \in {"format"} : ToLower(c[k]) \notin {"json", "text"}}
    \cup {k \in {"sample_rate"} : c[k] # NaN /\ (c[k] < 0 \/ c[k] > 100)}

Rejected == [ok |-> FALSE, cfg |-> Default]
Accepted(c) == [ok |-> TRUE, cfg |-> c]

\* Mutant: the derived values are filled in before the environment is applied.
Load_DerivesEarly(file, env) ==
    LET c == ApplyEnv(applyDerivedDefaults(newRawConfig(file)), env)
    IN IF FileError(file) \/ EnvError(env) \/ Validate(c) # {} THEN Rejected ELSE Accepted(c)

Load(file, env) ==
    LET c == applyDerivedDefaults(ApplyEnv(newRawConfig(file), env))
    IN IF FileError(file) \/ EnvError(env) \/ Validate(c) # {} THEN Rejected ELSE Accepted(c)

\* Without a file the environment goes straight over the defaults.
Base(in) ==
    IF in.path THEN Load(in.file, in.env)
    ELSE IF EnvError(in.env) THEN Rejected ELSE Accepted(ApplyEnv(Default, in.env))

Flagged(c, flags) ==
    Over([k \in DOMAIN flags |-> IF k = "level" THEN ToLower(TrimSpace(flags[k])) ELSE flags[k]], c)

resolveConfig(in) ==
    LET base == Base(in)
        c == Flagged(base.cfg, in.flags)
    IN IF ~base.ok \/ Validate(c) # {} THEN Rejected ELSE Accepted(c)
=============================================================================
