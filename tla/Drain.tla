------------------------------- MODULE Drain -------------------------------
(***************************************************************************)
(* What the load balancer promises about its own end, whatever goroutines, *)
(* deadlines and partial failures bring it about: requests are accepted    *)
(* only while it is up, the connections they use are closed only when none *)
(* is left, and once it is asked to stop both do happen.  It keeps no port *)
(* when it gives up, and none for ever after it has closed.                *)
(***************************************************************************)
CONSTANTS RPCs, Ports

VARIABLES
    phase,   \* "down" (not serving yet), "up", "draining" or "closed"
    asked,   \* it has been told to stop, or one of its servers has failed
    active,  \* the requests being served
    held     \* the ports it has open, or a goroutine for

vars == <<phase, asked, active, held>>

Init == phase = "down" /\ asked \in BOOLEAN /\ active = {} /\ held = {}

Ask == ~asked /\ asked' = TRUE /\ UNCHANGED <<phase, active, held>>

Bind ==
    /\ phase = "down"
    /\ held' \in SUBSET Ports
    /\ UNCHANGED <<phase, asked, active>>

Open == phase = "down" /\ phase' = "up" /\ held' = Ports /\ UNCHANGED <<asked, active>>

GiveUp == phase = "down" /\ phase' = "closed" /\ held' = {} /\ UNCHANGED <<asked, active>>

Accept(r) ==
    /\ phase = "up" /\ r \notin active
    /\ active' = active \cup {r}
    /\ UNCHANGED <<phase, asked, held>>

Finish(r) ==
    /\ r \in active
    /\ active' = active \ {r}
    /\ UNCHANGED <<phase, asked, held>>

BeginDrain ==
    /\ phase = "up" /\ asked
    /\ phase' = "draining"
    /\ UNCHANGED <<asked, active, held>>

Close ==
    /\ phase = "draining" /\ active = {}
    /\ phase' = "closed"
    /\ UNCHANGED <<asked, active, held>>

\* A port is given back, by a server that fails or by one that is stopped; either
\* way the balancer is on its way down.
Release(l) ==
    /\ phase # "down" /\ l \in held
    /\ held' = held \ {l}
    /\ asked' = TRUE
    /\ UNCHANGED <<phase, active>>

Next ==
    \/ Ask \/ Bind \/ Open \/ GiveUp \/ BeginDrain \/ Close
    \/ \E l \in Ports : Release(l)
    \/ \E r \in RPCs : Accept(r) \/ Finish(r)

\* Nothing makes a request end while the balancer is up; draining it must.
Spec ==
    /\ Init /\ [][Next]_vars
    /\ WF_vars(BeginDrain) /\ WF_vars(Close)
    /\ \A r \in RPCs : WF_vars(phase = "draining" /\ Finish(r))
    /\ \A l \in Ports : WF_vars(phase = "closed" /\ Release(l))
=============================================================================
