------------------------------ MODULE Registry ------------------------------
(***************************************************************************)
(* A capped table filled by concurrent goroutines that each look one name  *)
(* up: the named breakers (circuit.Registry) and the metric labels         *)
(* (middleware.boundedLabels) run the same four steps.  An entry is known  *)
(* by the goroutine that created it.                                       *)
(***************************************************************************)
EXTENDS Integers, FiniteSets

CONSTANTS
    Goroutines,   \* callers of Get
    MaxEntries,   \* Settings.MaxEntries, maxMethodLabels
    Overflow      \* what is shared past the cap

VARIABLES
    table,   \* the sync.Map: a function from the names stored to entries
    n,       \* the atomic counter
    call     \* each goroutine's Get; had and full remember, while it matters, that
             \* the name was stored and the counter at the cap when it began

vars == <<table, n, call>>

Stored == DOMAIN table
Own(g) == call[g].name
Returned(g) == call[g].pc = "done"

Init ==
    /\ table = [x \in {} |-> Overflow]
    /\ n = 0
    /\ call = [g \in Goroutines |-> [pc |-> "idle", name |-> Overflow, got |-> Overflow,
                                 had |-> FALSE, full |-> FALSE]]

Get(g, x) ==
    /\ call[g].pc = "idle"
    /\ call' = [call EXCEPT ![g] = [pc |-> "load", name |-> x, got |-> Overflow,
                                    had |-> x \in Stored, full |-> n >= MaxEntries]]
    /\ UNCHANGED <<table, n>>

Goto(g, pc) == call' = [call EXCEPT ![g].pc = pc]
Return(g, entry) ==
    call' = [call EXCEPT ![g].pc = "done", ![g].got = entry,
                         ![g].had = @ /\ entry = Overflow, ![g].full = FALSE]

\* Mutant: the cap is checked before the lookup.
Load_CapFirst(g) ==
    /\ call[g].pc = "load"
    /\ \/ n >= MaxEntries /\ Return(g, Overflow)
       \/ n < MaxEntries /\ Own(g) \in Stored /\ Return(g, table[Own(g)])
       \/ n < MaxEntries /\ Own(g) \notin Stored /\ Goto(g, "cap")
    /\ UNCHANGED <<table, n>>

Load(g) ==
    /\ call[g].pc = "load"
    /\ \/ Own(g) \in Stored /\ Return(g, table[Own(g)])
       \/ Own(g) \notin Stored /\ Goto(g, "cap")
    /\ UNCHANGED <<table, n>>

\* Mutant: one entry too many.
CheckCap_OffByOne(g) ==
    /\ call[g].pc = "cap"
    /\ \/ n > MaxEntries /\ Return(g, Overflow)
       \/ n <= MaxEntries /\ Goto(g, "store")
    /\ UNCHANGED <<table, n>>

CheckCap(g) ==
    /\ call[g].pc = "cap"
    /\ \/ n >= MaxEntries /\ Return(g, Overflow)
       \/ n < MaxEntries /\ Goto(g, "store")
    /\ UNCHANGED <<table, n>>

\* The loser of a race is given the winner's entry and does not count.
LoadOrStore(g) ==
    /\ call[g].pc = "store"
    /\ \/ /\ Own(g) \in Stored
          /\ Return(g, table[Own(g)])
          /\ UNCHANGED table
       \/ /\ Own(g) \notin Stored
          /\ table' = [x \in Stored \cup {Own(g)} |-> IF x = Own(g) THEN g ELSE table[x]]
          /\ call' = [call EXCEPT ![g].pc = "add", ![g].got = g]
    /\ UNCHANGED n

Add(g) ==
    /\ call[g].pc = "add"
    /\ n' = n + 1
    /\ Return(g, g)
    /\ UNCHANGED table

Step(g) == Load(g) \/ CheckCap(g) \/ LoadOrStore(g) \/ Add(g)

-----------------------------------------------------------------------------
(* What callers may rely on.                                               *)

\* Calls for one name that were both given an entry of its own were given the
\* same, and a name that had one when the call began is not sent to the overflow.
Isolated ==
    \A g, h \in Goroutines : Returned(g) /\ Returned(h) =>
        /\ Own(g) = Own(h) /\ Overflow \notin {call[g].got, call[h].got}
             => call[g].got = call[h].got
        /\ ~call[g].had

\* The counter lags behind the table by the calls about to count theirs, and a
\* call that begins when it stands at the cap adds nothing: only calls that were
\* under way by then exceed it.
Bounded ==
    /\ n = Cardinality(Stored) - Cardinality({g \in Goroutines : call[g].pc = "add"})
    /\ \A g \in Goroutines : call[g].full => call[g].pc \in {"load", "cap"}
=============================================================================
