------------------------------- MODULE Chain -------------------------------
(***************************************************************************)
(* The interceptors a request passes through, outermost first, as runWith  *)
(* chains them: Recovery, Context, Logging, Metrics, RateLimit,            *)
(* CircuitBreak, and the handler (Exchange).  Concurrent requests meet in  *)
(* the tables of labels and of method breakers, in the gauges and in the   *)
(* breakers themselves.  Context and Logging share nothing and are left    *)
(* out.  A breaker appears by its answers (Breaker says which it gives and *)
(* when) and by the outcomes it is owed.                                   *)
(***************************************************************************)
EXTENDS Integers, FiniteSets, TLC

CONSTANTS
    Requests,     \* the requests of the run, one goroutine each
    Methods,      \* the methods they call
    MaxEntries,   \* cap of both tables
    Shared        \* the overflow breaker, and the label "other"

ASSUME ChainAssumption ==
    /\ IsFiniteSet(Requests) /\ IsFiniteSet(Methods)
    /\ MaxEntries \in Nat \ {0}
    /\ Shared \notin Requests /\ Shared \notin Methods

VARIABLES
    labels, nLabels, labelling,       \* boundedLabels
    breakers, nBreakers, choosing,    \* circuit.Registry
    pc,        \* where each request is
    code,      \* what its handler returned, "panic" while it unwinds
    inflight,  \* lb_inflight: label -> value of the gauge
    observed,  \* lb_requests_total, summed over the codes: label -> count
    panics,    \* lb_panics_total
    owed,      \* breaker -> outcomes Admit was promised and has not been told
    told       \* what each request has told its breaker

lvars == <<labels, nLabels, labelling>>
bvars == <<breakers, nBreakers, choosing>>
vars == <<lvars, bvars, pc, code, inflight, observed, panics, owed, told>>

Labels == INSTANCE Registry WITH
    Goroutines <- Requests, Overflow <- Shared,
    table <- labels, n <- nLabels, call <- labelling

Breakers == INSTANCE Registry WITH
    Goroutines <- Requests, Overflow <- Shared,
    table <- breakers, n <- nBreakers, call <- choosing

\* label returns the name itself, whoever stored it.
Label(r) == IF labelling[r].got = Shared THEN Shared ELSE labelling[r].name
BreakerOf(r) == choosing[r].got

\* How handlers end; NotFound stands for the faults of the caller.
Codes == {"OK", "NotFound", "Unavailable", "panic"}

IsFailure(c) ==
    c \in {"Unavailable", "DeadlineExceeded", "Internal", "ResourceExhausted", "Unknown"}

Init ==
    /\ Labels!Init /\ Breakers!Init
    /\ pc = [r \in Requests |-> "idle"]
    /\ code = [r \in Requests |-> "none"]
    /\ inflight = [l \in Methods \cup {Shared} |-> 0]
    /\ observed = [l \in Methods \cup {Shared} |-> 0]
    /\ panics = 0
    /\ owed = [b \in Requests \cup {Shared} |-> 0]
    /\ told = [r \in Requests |-> "nothing"]

Goto(r, to) == pc' = [pc EXCEPT ![r] = to]
Leave(r, c) == Goto(r, "observe") /\ code' = [code EXCEPT ![r] = c]

-----------------------------------------------------------------------------
(* On the way in.                                                          *)

\* Metrics asks for the label.
Begin(r, m) ==
    /\ pc[r] = "idle"
    /\ Goto(r, "label")
    /\ Labels!Get(r, m)
    /\ UNCHANGED <<bvars, code, inflight, observed, panics, owed, told>>

LabelStep(r) ==
    /\ Labels!Step(r)
    /\ UNCHANGED <<bvars, pc, code, inflight, observed, panics, owed, told>>

IncInflight(r) ==
    /\ pc[r] = "label" /\ Labels!Returned(r)
    /\ inflight' = [inflight EXCEPT ![Label(r)] = @ + 1]
    /\ Goto(r, "limit")
    /\ UNCHANGED <<lvars, bvars, code, observed, panics, owed, told>>

\* RateLimit; what it lets through asks for the breaker of its method.
RateLimit(r) ==
    /\ pc[r] = "limit"
    /\ \/ Leave(r, "ResourceExhausted") /\ UNCHANGED bvars
       \/ Goto(r, "admit") /\ Breakers!Get(r, labelling[r].name) /\ UNCHANGED code
    /\ UNCHANGED <<lvars, inflight, observed, panics, owed, told>>

BreakerStep(r) ==
    /\ Breakers!Step(r)
    /\ UNCHANGED <<lvars, pc, code, inflight, observed, panics, owed, told>>

Admit(r) ==
    /\ pc[r] = "admit" /\ Breakers!Returned(r)
    /\ \/ Leave(r, "Unavailable") /\ UNCHANGED owed
       \/ /\ Goto(r, "handler")
          /\ owed' = [owed EXCEPT ![BreakerOf(r)] = @ + 1]
          /\ UNCHANGED code
    /\ UNCHANGED <<lvars, bvars, inflight, observed, panics, told>>

-----------------------------------------------------------------------------
(* On the way out.                                                         *)

\* Mutant: no recover, a panic passes by the breaker.
Handler_PanicEscapes(r) ==
    /\ pc[r] = "handler"
    /\ \E c \in Codes :
         /\ Leave(r, c)
         /\ \/ c = "panic" /\ UNCHANGED <<owed, told>>
            \/ /\ c # "panic"
               /\ owed' = [owed EXCEPT ![BreakerOf(r)] = @ - 1]
               /\ told' = [told EXCEPT ![r] = IF IsFailure(c) THEN "failure" ELSE "success"]
    /\ UNCHANGED <<lvars, bvars, inflight, observed, panics>>

\* The handler ends and CircuitBreak's deferred function settles its probe; a
\* panic is told as a failure and goes on.
Handler(r) ==
    /\ pc[r] = "handler"
    /\ \E c \in Codes :
         /\ Leave(r, c)
         /\ told' = [told EXCEPT ![r] = IF c = "panic" \/ IsFailure(c) THEN "failure" ELSE "success"]
    /\ owed' = [owed EXCEPT ![BreakerOf(r)] = @ - 1]
    /\ UNCHANGED <<lvars, bvars, inflight, observed, panics>>

\* ObserveRequest, which a panic passes by.
Observe(r) ==
    /\ pc[r] = "observe"
    /\ observed' = IF code[r] = "panic" THEN observed ELSE [observed EXCEPT ![Label(r)] = @ + 1]
    /\ Goto(r, "dec")
    /\ UNCHANGED <<lvars, bvars, code, inflight, panics, owed, told>>

\* Mutant: the label is looked up again when the request ends.
DecInflight_LooksUp(r) ==
    /\ pc[r] = "dec"
    /\ LET l == IF labelling[r].name \in DOMAIN labels THEN labelling[r].name ELSE Shared
       IN inflight' = [inflight EXCEPT ![l] = @ - 1]
    /\ Goto(r, "recover")
    /\ UNCHANGED <<lvars, bvars, code, observed, panics, owed, told>>

\* Deferred, with the label that was counted up.
DecInflight(r) ==
    /\ pc[r] = "dec"
    /\ inflight' = [inflight EXCEPT ![Label(r)] = @ - 1]
    /\ Goto(r, "recover")
    /\ UNCHANGED <<lvars, bvars, code, observed, panics, owed, told>>

Recover(r) ==
    /\ pc[r] = "recover"
    /\ \/ code[r] = "panic" /\ panics' = panics + 1 /\ code' = [code EXCEPT ![r] = "Internal"]
       \/ code[r] # "panic" /\ UNCHANGED <<panics, code>>
    /\ Goto(r, "returned")
    /\ UNCHANGED <<lvars, bvars, inflight, observed, owed, told>>

Next == \E r \in Requests :
    \/ \E m \in Methods : Begin(r, m)
    \/ LabelStep(r) \/ IncInflight(r) \/ RateLimit(r) \/ BreakerStep(r) \/ Admit(r)
    \/ Handler(r) \/ Observe(r) \/ DecInflight(r) \/ Recover(r)

Spec == Init /\ [][Next]_vars

Sym == Permutations(Requests) \cup Permutations(Methods)

-----------------------------------------------------------------------------
(* Properties.                                                             *)

At(S) == {r \in Requests : pc[r] \in S}

\* Concurrent first requests for a method never get two breakers of its own, and a
\* request that finds its method in the table is never thrown in with the rest,
\* however full the table is (Get: "concurrent creates collapse to a single
\* instance").  One that found it missing may see the cap reached and take the
\* overflow entry while another stores the name.
Isolation == Breakers!Isolated /\ Labels!Isolated

\* Once a table is full no later request adds to it, whatever names arrive, so
\* only requests that raced for the last places exceed the cap (boundedLabels:
\* "approximate under concurrent first-sightings").
Capped == Breakers!Bounded /\ Labels!Bounded

\* A breaker is owed outcomes by exactly the requests between its Admit and
\* their end, and is told once what the client is told, panics included: a slot
\* that nobody gave back would reject its method for ever (CircuitBreak).
ProbesSettled ==
    /\ \A b \in DOMAIN owed : owed[b] = Cardinality({r \in At({"handler"}) : BreakerOf(r) = b})
    /\ \A r \in At({"returned"}) : told[r] # "nothing" => (told[r] = "failure" <=> IsFailure(code[r]))
    /\ \A r \in Requests : told[r] = "nothing" \/ Breakers!Returned(r)

\* The gauge of a label counts the requests inside that were given it, and every
\* request that has ended is in lb_requests_total under its label or in
\* lb_panics_total, never in both; Internal is what Recovery makes of a panic.
Accounting ==
    /\ \A l \in DOMAIN inflight : inflight[l] =
         Cardinality({r \in At({"limit", "admit", "handler", "observe", "dec"}) : Label(r) = l})
    /\ \A l \in DOMAIN observed : observed[l] =
         Cardinality({r \in At({"dec", "recover", "returned"}) :
                        Label(r) = l /\ code[r] \notin {"panic", "Internal"}})
    /\ panics = Cardinality({r \in At({"returned"}) : code[r] = "Internal"})
=============================================================================
