---------------------------- MODULE ChainProofs ----------------------------
(***************************************************************************)
(* Proofs about Chain for every finite set of requests and of methods and  *)
(* every cap of the tables.                                                *)
(***************************************************************************)
EXTENDS Chain, FiniteSetTheorems, TLAPS

-----------------------------------------------------------------------------
(* The requests' part of the inductive invariant.                          *)

Ways == {"idle", "label", "limit", "admit", "handler", "observe", "dec", "recover", "returned"}
Done == {"observe", "dec", "recover", "returned"}
Results == Codes \cup {"none", "ResourceExhausted", "Internal"}

Types ==
    /\ pc \in [Requests -> Ways]
    /\ code \in [Requests -> Results]
    /\ told \in [Requests -> {"nothing", "failure", "success"}]
    /\ inflight \in [Methods \cup {Shared} -> Int]
    /\ observed \in [Methods \cup {Shared} -> Int]
    /\ panics \in Int
    /\ owed \in [Requests \cup {Shared} -> Int]

\* How far a request is in its two lookups.
Lookups ==
    \A r \in Requests :
        /\ pc[r] = "idle" => labelling[r].pc = "idle"
        /\ pc[r] \notin {"idle", "label"} => labelling[r].pc = "done"
        /\ labelling[r].pc # "idle" => labelling[r].name \in Methods
        /\ pc[r] \in {"idle", "label", "limit"} => choosing[r].pc = "idle"
        /\ pc[r] = "handler" => choosing[r].pc = "done"

\* What a request has told its breaker, and what its client will be told.
Telling ==
    \A r \in Requests :
        /\ pc[r] \in {"observe", "dec", "recover"} => code[r] # "Internal"
        /\ pc[r] = "returned" => code[r] # "panic"
        /\ told[r] # "nothing" => pc[r] \in Done /\ choosing[r].pc = "done"
        /\ told[r] # "nothing" => (told[r] = "failure" <=> code[r] = "panic" \/ IsFailure(code[r]))

\* The requests behind each number.
Inside(l) == {r \in At({"limit", "admit", "handler", "observe", "dec"}) : Label(r) = l}
Ended(l) == {r \in At({"dec", "recover", "returned"}) :
               Label(r) = l /\ code[r] \notin {"panic", "Internal"}}
Panicked == {r \in At({"returned"}) : code[r] = "Internal"}
Owing(b) == {r \in At({"handler"}) : BreakerOf(r) = b}

Counts ==
    /\ \A l \in Methods \cup {Shared} : inflight[l] = Cardinality(Inside(l))
    /\ \A l \in Methods \cup {Shared} : observed[l] = Cardinality(Ended(l))
    /\ panics = Cardinality(Panicked)
    /\ \A b \in Requests \cup {Shared} : owed[b] = Cardinality(Owing(b))

Flow == Types /\ Lookups /\ Telling /\ Counts

-----------------------------------------------------------------------------
(* Counting.                                                               *)

One(P) == IF P THEN 1 ELSE 0

LEMMA CountChange ==
  ASSUME NEW S \in SUBSET Requests, NEW T \in SUBSET Requests, NEW r \in Requests,
         \A s \in Requests \ {r} : s \in S <=> s \in T
  PROVE  Cardinality(T) = Cardinality(S) + One(r \in T) - One(r \in S)
<1>1. IsFiniteSet(S) /\ IsFiniteSet(T)
  BY ChainAssumption, FS_Subset
<1>2. Cardinality(S) \in Int /\ Cardinality(T) \in Int
  BY <1>1, FS_CardinalityType
<1>3. CASE r \in S /\ r \notin T
  <2>1. T = S \ {r}
    BY <1>3
  <2> QED BY <1>1, <1>2, <1>3, <2>1, FS_RemoveElement DEF One
<1>4. CASE r \notin S /\ r \in T
  <2>1. T = S \cup {r}
    BY <1>4
  <2> QED BY <1>1, <1>2, <1>4, <2>1, FS_AddElement DEF One
<1>5. CASE r \in S <=> r \in T
  <2>1. T = S
    BY <1>5
  <2> QED BY <1>2, <1>5, <2>1 DEF One
<1> QED BY <1>3, <1>4, <1>5

\* A step of r leaves the other requests where they are.
Alone(r) ==
    \A s \in Requests \ {r} :
        /\ pc'[s] = pc[s] /\ code'[s] = code[s] /\ told'[s] = told[s]
        /\ labelling'[s] = labelling[s] /\ choosing'[s] = choosing[s]

\* Each number moves with r.
Moves(r) ==
    /\ \A l \in Methods \cup {Shared} :
         /\ inflight'[l] = inflight[l] + One(r \in Inside(l)') - One(r \in Inside(l))
         /\ observed'[l] = observed[l] + One(r \in Ended(l)') - One(r \in Ended(l))
    /\ panics' = panics + One(r \in Panicked') - One(r \in Panicked)
    /\ \A b \in Requests \cup {Shared} :
         owed'[b] = owed[b] + One(r \in Owing(b)') - One(r \in Owing(b))

LEMMA CountsKept ==
  ASSUME NEW r \in Requests, Counts, Alone(r), Moves(r)
  PROVE  Counts'
<1>1. \A s \in Requests \ {r} : Label(s)' = Label(s) /\ BreakerOf(s)' = BreakerOf(s)
  BY DEF Alone, Label, BreakerOf
<1>2. ASSUME NEW l \in Methods \cup {Shared} PROVE (inflight[l] = Cardinality(Inside(l)))'
  <2>1. /\ Inside(l) \in SUBSET Requests /\ Inside(l)' \in SUBSET Requests
        /\ \A s \in Requests \ {r} : s \in Inside(l) <=> s \in Inside(l)'
    BY <1>1 DEF Inside, At, Alone
  <2> QED BY <2>1, CountChange DEF Moves, Counts
<1>3. ASSUME NEW l \in Methods \cup {Shared} PROVE (observed[l] = Cardinality(Ended(l)))'
  <2>1. /\ Ended(l) \in SUBSET Requests /\ Ended(l)' \in SUBSET Requests
        /\ \A s \in Requests \ {r} : s \in Ended(l) <=> s \in Ended(l)'
    BY <1>1 DEF Ended, At, Alone
  <2> QED BY <2>1, CountChange DEF Moves, Counts
<1>4. (panics = Cardinality(Panicked))'
  <2>1. /\ Panicked \in SUBSET Requests /\ Panicked' \in SUBSET Requests
        /\ \A s \in Requests \ {r} : s \in Panicked <=> s \in Panicked'
    BY DEF Panicked, At, Alone
  <2> QED BY <2>1, CountChange DEF Moves, Counts
<1>5. ASSUME NEW b \in Requests \cup {Shared} PROVE (owed[b] = Cardinality(Owing(b)))'
  <2>1. /\ Owing(b) \in SUBSET Requests /\ Owing(b)' \in SUBSET Requests
        /\ \A s \in Requests \ {r} : s \in Owing(b) <=> s \in Owing(b)'
    BY <1>1 DEF Owing, At, Alone
  <2> QED BY <2>1, CountChange DEF Moves, Counts
<1> QED BY <1>2, <1>3, <1>4, <1>5 DEF Counts

-----------------------------------------------------------------------------
(* Every step keeps it.                                                    *)

\* Of the two lookups, a step of r moves on its own alone.
OnlyLabels(r) == \A s \in Requests \ {r} : labelling'[s] = labelling[s]
OnlyChooses(r) == \A s \in Requests \ {r} : choosing'[s] = choosing[s]

LEMMA Names ==
  ASSUME Lookups, NEW r \in Requests, labelling[r].pc # "idle"
  PROVE  Label(r) \in Methods \cup {Shared}
  BY DEF Lookups, Label

LEMMA BeginKeeps ==
  ASSUME Flow, NEW r \in Requests, NEW m \in Methods, Begin(r, m),
         OnlyLabels(r), labelling'[r].pc = "load", labelling'[r].name = m
  PROVE  Flow'
<1> USE DEF Begin, Goto
<1>1. Types'
  BY DEF Flow, Types, Ways
<1>2. Alone(r)
  BY DEF Flow, Types, bvars, Alone, OnlyLabels
<1>3. Lookups'
  BY <1>2 DEF Flow, Types, Lookups, Alone, bvars
<1>4. Telling'
  BY <1>2 DEF Flow, Types, Telling, Alone, Done, bvars
<1>5. Moves(r)
  BY DEF Flow, Types, Moves, One, Inside, Ended, Panicked, Owing, At
<1> QED BY <1>1, <1>2, <1>3, <1>4, <1>5, CountsKept DEF Flow

LEMMA LabelStepKeeps ==
  ASSUME Flow, NEW r \in Requests, LabelStep(r),
         OnlyLabels(r), labelling'[r].name = labelling[r].name,
         labelling[r].pc \in {"load", "cap", "store", "add"}, labelling'[r].pc # "idle"
  PROVE  Flow'
<1> USE DEF LabelStep
<1>1. Types'
  BY DEF Flow, Types
<1>2. Alone(r)
  BY DEF bvars, Alone, OnlyLabels
<1>3. pc[r] = "label"
  BY DEF Flow, Lookups
<1>4. Lookups'
  BY <1>2, <1>3 DEF Flow, Lookups, Alone, bvars
<1>5. Telling'
  BY DEF Flow, Telling, bvars
<1>6. Moves(r)
  BY <1>3 DEF Flow, Types, Moves, One, Inside, Ended, Panicked, Owing, At
<1> QED BY <1>1, <1>2, <1>4, <1>5, <1>6, CountsKept DEF Flow

LEMMA IncInflightKeeps ==
  ASSUME Flow, NEW r \in Requests, IncInflight(r)
  PROVE  Flow'
<1> USE DEF IncInflight, Goto
<1>1. labelling[r].pc = "done" /\ Label(r) \in Methods \cup {Shared}
  BY Names DEF Flow, Labels!Returned
<1>2. Types'
  BY <1>1 DEF Flow, Types, Ways
<1>3. Alone(r)
  BY DEF Flow, Types, bvars, lvars, Alone
<1>4. Lookups'
  BY <1>1, <1>3 DEF Flow, Types, Lookups, Alone, bvars, lvars
<1>5. Telling'
  BY <1>3 DEF Flow, Types, Telling, Alone, Done, bvars
<1>6. Label(r)' = Label(r)
  BY DEF Label, lvars
<1>7. Moves(r)
  BY <1>1, <1>6 DEF Flow, Types, Moves, One, Inside, Ended, Panicked, Owing, At
<1> QED BY <1>2, <1>3, <1>4, <1>5, <1>7, CountsKept DEF Flow

LEMMA RateLimitKeeps ==
  ASSUME Flow, NEW r \in Requests, RateLimit(r), OnlyChooses(r)
  PROVE  Flow'
<1> USE DEF RateLimit, Goto, Leave
<1>1. told[r] = "nothing" /\ labelling[r].pc = "done"
  BY DEF Flow, Types, Telling, Lookups, Done
<1>2. Label(r)' = Label(r)
  BY DEF Label, lvars
<1>3. Types'
  BY DEF Flow, Types, Ways, Results
<1>4. Alone(r)
  BY DEF Flow, Types, lvars, Alone, OnlyChooses
<1>5. Lookups'
  BY <1>1, <1>4 DEF Flow, Types, Lookups, Alone, lvars
<1>6. Telling'
  BY <1>1, <1>4 DEF Flow, Types, Telling, Alone
<1>7. Moves(r)
  BY <1>2 DEF Flow, Types, Moves, One, Inside, Ended, Panicked, Owing, At
<1> QED BY <1>3, <1>4, <1>5, <1>6, <1>7, CountsKept DEF Flow

LEMMA BreakerStepKeeps ==
  ASSUME Flow, NEW r \in Requests, BreakerStep(r),
         OnlyChooses(r), choosing[r].pc \in {"load", "cap", "store", "add"}
  PROVE  Flow'
<1> USE DEF BreakerStep
<1>1. Types'
  BY DEF Flow, Types
<1>2. Alone(r)
  BY DEF lvars, Alone, OnlyChooses
<1>3. pc[r] \notin {"idle", "label", "limit", "handler"} /\ told[r] = "nothing"
  BY DEF Flow, Types, Lookups, Telling
<1>4. Lookups'
  BY <1>2, <1>3 DEF Flow, Lookups, Alone, lvars
<1>5. Telling'
  BY <1>2, <1>3 DEF Flow, Telling, Alone
<1>6. Label(r)' = Label(r)
  BY DEF Label, lvars
<1>7. Moves(r)
  BY <1>3, <1>6 DEF Flow, Types, Moves, One, Inside, Ended, Panicked, Owing, At
<1> QED BY <1>1, <1>2, <1>4, <1>5, <1>7, CountsKept DEF Flow

LEMMA AdmitKeeps ==
  ASSUME Flow, NEW r \in Requests, Admit(r), BreakerOf(r) \in Requests \cup {Shared}
  PROVE  Flow'
<1> USE DEF Admit, Goto, Leave
<1>1. told[r] = "nothing" /\ labelling[r].pc = "done" /\ choosing[r].pc = "done"
  BY DEF Flow, Types, Telling, Lookups, Done, Breakers!Returned
<1>2. Label(r)' = Label(r) /\ BreakerOf(r)' = BreakerOf(r)
  BY DEF Label, BreakerOf, lvars, bvars
<1>3. Types'
  BY <1>1 DEF Flow, Types, Ways, Results, Codes
<1>4. Alone(r)
  BY DEF Flow, Types, bvars, lvars, Alone
<1>5. Lookups'
  BY <1>1, <1>4 DEF Flow, Types, Lookups, Alone, bvars, lvars
<1>6. Telling'
  BY <1>1, <1>4 DEF Flow, Types, Telling, Alone, bvars
<1>7. Moves(r)
  BY <1>1, <1>2 DEF Flow, Types, Moves, One, Inside, Ended, Panicked, Owing, At
<1> QED BY <1>3, <1>4, <1>5, <1>6, <1>7, CountsKept DEF Flow

LEMMA HandlerKeeps ==
  ASSUME Flow, NEW r \in Requests, Handler(r), BreakerOf(r) \in Requests \cup {Shared}
  PROVE  Flow'
<1> USE DEF Goto, Leave
<1>1. PICK c \in Codes :
        /\ Leave(r, c)
        /\ told' = [told EXCEPT ![r] = IF c = "panic" \/ IsFailure(c) THEN "failure" ELSE "success"]
  BY Zenon DEF Handler
<1>2. /\ pc[r] = "handler"
      /\ owed' = [owed EXCEPT ![BreakerOf(r)] = @ - 1]
      /\ UNCHANGED <<lvars, bvars, inflight, observed, panics>>
  BY DEF Handler
<1>3. labelling[r].pc = "done" /\ choosing[r].pc = "done"
  BY <1>2 DEF Flow, Lookups
<1>4. Label(r)' = Label(r) /\ BreakerOf(r)' = BreakerOf(r)
  BY <1>2 DEF Label, BreakerOf, lvars, bvars
<1>5. Types'
  BY <1>1, <1>2, <1>3 DEF Flow, Types, Ways, Results
<1>6. Alone(r)
  BY <1>1, <1>2 DEF Flow, Types, bvars, lvars, Alone
<1>7. Lookups'
  BY <1>1, <1>2, <1>3, <1>6 DEF Flow, Types, Lookups, Alone, bvars, lvars
<1>8. Telling'
  BY <1>1, <1>2, <1>3, <1>6 DEF Flow, Types, Telling, Alone, bvars, Done, Codes
<1>9. Moves(r)
  BY <1>1, <1>2, <1>3, <1>4 DEF Flow, Types, Moves, One, Inside, Ended, Panicked, Owing, At
<1> QED BY <1>5, <1>6, <1>7, <1>8, <1>9, CountsKept DEF Flow

LEMMA ObserveKeeps ==
  ASSUME Flow, NEW r \in Requests, Observe(r)
  PROVE  Flow'
<1> USE DEF Observe, Goto
<1>1. /\ labelling[r].pc = "done" /\ code[r] # "Internal"
      /\ Label(r) \in Methods \cup {Shared}
  BY Names DEF Flow, Lookups, Telling
<1>2. Label(r)' = Label(r)
  BY DEF Label, lvars
<1>3. Types'
  BY <1>1 DEF Flow, Types, Ways
<1>4. Alone(r)
  BY DEF Flow, Types, bvars, lvars, Alone
<1>5. Lookups'
  BY <1>1, <1>4 DEF Flow, Types, Lookups, Alone, bvars, lvars
<1>6. Telling'
  BY <1>4 DEF Flow, Types, Telling, Alone, bvars, Done
<1>7. Moves(r)
  BY <1>1, <1>2 DEF Flow, Types, Moves, One, Inside, Ended, Panicked, Owing, At
<1> QED BY <1>3, <1>4, <1>5, <1>6, <1>7, CountsKept DEF Flow

LEMMA DecInflightKeeps ==
  ASSUME Flow, NEW r \in Requests, DecInflight(r)
  PROVE  Flow'
<1> USE DEF DecInflight, Goto
<1>1. labelling[r].pc = "done" /\ Label(r) \in Methods \cup {Shared}
  BY Names DEF Flow, Lookups
<1>2. Label(r)' = Label(r)
  BY DEF Label, lvars
<1>3. Types'
  BY <1>1 DEF Flow, Types, Ways
<1>4. Alone(r)
  BY DEF Flow, Types, bvars, lvars, Alone
<1>5. Lookups'
  BY <1>1, <1>4 DEF Flow, Types, Lookups, Alone, bvars, lvars
<1>6. Telling'
  BY <1>4 DEF Flow, Types, Telling, Alone, bvars, Done
<1>7. Moves(r)
  BY <1>1, <1>2 DEF Flow, Types, Moves, One, Inside, Ended, Panicked, Owing, At
<1> QED BY <1>3, <1>4, <1>5, <1>6, <1>7, CountsKept DEF Flow

LEMMA RecoverKeeps ==
  ASSUME Flow, NEW r \in Requests, Recover(r)
  PROVE  Flow'
<1> USE DEF Recover, Goto
<1>1. labelling[r].pc = "done" /\ code[r] # "Internal"
  BY DEF Flow, Lookups, Telling
<1>2. Label(r)' = Label(r)
  BY DEF Label, lvars
<1>3. Types'
  BY DEF Flow, Types, Ways, Results
<1>4. Alone(r)
  BY DEF Flow, Types, bvars, lvars, Alone
<1>5. Lookups'
  BY <1>1, <1>4 DEF Flow, Types, Lookups, Alone, bvars, lvars
<1>6. Telling'
  BY <1>4 DEF Flow, Types, Telling, Alone, bvars, Done, IsFailure
<1>7. Moves(r)
  BY <1>1, <1>2 DEF Flow, Types, Moves, One, Inside, Ended, Panicked, Owing, At
<1> QED BY <1>3, <1>4, <1>5, <1>6, <1>7, CountsKept DEF Flow

LEMMA StutterKeeps ==
  ASSUME Flow, UNCHANGED vars
  PROVE  Flow'
<1> USE DEF vars, lvars, bvars
<1>1. Types' /\ Lookups' /\ Telling'
  BY DEF Flow, Types, Lookups, Telling
<1>2. /\ \A l : Inside(l)' = Inside(l) /\ Ended(l)' = Ended(l)
      /\ Panicked' = Panicked /\ \A b : Owing(b)' = Owing(b)
  BY DEF Inside, Ended, Panicked, Owing, At, Label, BreakerOf
<1>3. Counts'
  BY <1>2 DEF Flow, Counts
<1> QED BY <1>1, <1>3 DEF Flow

LEMMA InitFlow ==
  ASSUME Init
  PROVE  Flow
<1>1. Types
  BY DEF Init, Types, Ways, Results
<1>2. Lookups
  BY DEF Init, Lookups, Labels!Init, Breakers!Init
<1>3. Telling
  BY DEF Init, Telling
<1>4. Counts
  <2>1. /\ \A l \in Methods \cup {Shared} : Inside(l) = {} /\ Ended(l) = {}
        /\ Panicked = {} /\ \A b \in Requests \cup {Shared} : Owing(b) = {}
    BY DEF Init, Inside, Ended, Panicked, Owing, At
  <2> QED BY <2>1, FS_EmptySet, Zenon DEF Init, Counts
<1> QED BY <1>1, <1>2, <1>3, <1>4 DEF Flow

-----------------------------------------------------------------------------
(* The tables' part.                                                       *)

\* The lemmas about Registry, for the labels and for the breakers.
OfLabels == INSTANCE RegistryProofs WITH
    Goroutines <- Requests, Overflow <- Shared,
    table <- labels, n <- nLabels, call <- labelling

OfBreakers == INSTANCE RegistryProofs WITH
    Goroutines <- Requests, Overflow <- Shared,
    table <- breakers, n <- nBreakers, call <- choosing

LEMMA SameCardinality ==
  ASSUME NEW S
  PROVE  /\ OfLabels!Cardinality(S) = Labels!Cardinality(S)
         /\ OfBreakers!Cardinality(S) = Breakers!Cardinality(S)
  BY Zenon DEF OfLabels!Cardinality, OfLabels!IsFiniteSet, Labels!Cardinality, Labels!IsFiniteSet,
               OfBreakers!Cardinality, OfBreakers!IsFiniteSet, Breakers!Cardinality,
               Breakers!IsFiniteSet

LEMMA RegistryConstants == OfLabels!Constants /\ OfBreakers!Constants
<1>1. \A S : IsFiniteSet(S) => OfLabels!IsFiniteSet(S) /\ OfBreakers!IsFiniteSet(S)
  BY Zenon DEF IsFiniteSet, OfLabels!IsFiniteSet, OfBreakers!IsFiniteSet
<1> QED BY <1>1, ChainAssumption DEF OfLabels!Constants, OfBreakers!Constants

LEMMA LabelsAgree ==
  /\ Labels!Init => OfLabels!Init
  /\ \A r \in Requests : Labels!Step(r) => OfLabels!Step(r)
  /\ \A r \in Requests : \A m : Labels!Get(r, m) => OfLabels!Get(r, m)
  /\ OfLabels!Isolated => Labels!Isolated
  /\ OfLabels!Bounded => Labels!Bounded
<1>1. Labels!Init => OfLabels!Init
  BY DEF Labels!Init, OfLabels!Init
<1>2. ASSUME NEW r \in Requests, Labels!Step(r) PROVE OfLabels!Step(r)
  BY <1>2, Zenon
     DEF Labels!Step, Labels!Load, Labels!CheckCap, Labels!LoadOrStore, Labels!Add,
         Labels!Goto, Labels!Return, Labels!Own, Labels!Stored,
         OfLabels!Step, OfLabels!Load, OfLabels!CheckCap, OfLabels!LoadOrStore, OfLabels!Add,
         OfLabels!Goto, OfLabels!Return, OfLabels!Own, OfLabels!Stored
<1>3. ASSUME NEW r \in Requests, NEW m, Labels!Get(r, m) PROVE OfLabels!Get(r, m)
  BY <1>3 DEF Labels!Get, Labels!Stored, OfLabels!Get, OfLabels!Stored
<1>4. OfLabels!Isolated => Labels!Isolated
  BY DEF Labels!Isolated, Labels!Returned, Labels!Own,
         OfLabels!Isolated, OfLabels!Returned, OfLabels!Own
<1>5. OfLabels!Bounded => Labels!Bounded
  BY SameCardinality DEF Labels!Bounded, Labels!Stored, OfLabels!Bounded, OfLabels!Stored
<1> QED BY <1>1, <1>2, <1>3, <1>4, <1>5

LEMMA BreakersAgree ==
  /\ Breakers!Init => OfBreakers!Init
  /\ \A r \in Requests : Breakers!Step(r) => OfBreakers!Step(r)
  /\ \A r \in Requests : \A m : Breakers!Get(r, m) => OfBreakers!Get(r, m)
  /\ OfBreakers!Isolated => Breakers!Isolated
  /\ OfBreakers!Bounded => Breakers!Bounded
<1>1. Breakers!Init => OfBreakers!Init
  BY DEF Breakers!Init, OfBreakers!Init
<1>2. ASSUME NEW r \in Requests, Breakers!Step(r) PROVE OfBreakers!Step(r)
  BY <1>2, Zenon
     DEF Breakers!Step, Breakers!Load, Breakers!CheckCap, Breakers!LoadOrStore, Breakers!Add,
         Breakers!Goto, Breakers!Return, Breakers!Own, Breakers!Stored,
         OfBreakers!Step, OfBreakers!Load, OfBreakers!CheckCap, OfBreakers!LoadOrStore, OfBreakers!Add,
         OfBreakers!Goto, OfBreakers!Return, OfBreakers!Own, OfBreakers!Stored
<1>3. ASSUME NEW r \in Requests, NEW m, Breakers!Get(r, m) PROVE OfBreakers!Get(r, m)
  BY <1>3 DEF Breakers!Get, Breakers!Stored, OfBreakers!Get, OfBreakers!Stored
<1>4. OfBreakers!Isolated => Breakers!Isolated
  BY DEF Breakers!Isolated, Breakers!Returned, Breakers!Own,
         OfBreakers!Isolated, OfBreakers!Returned, OfBreakers!Own
<1>5. OfBreakers!Bounded => Breakers!Bounded
  BY SameCardinality DEF Breakers!Bounded, Breakers!Stored, OfBreakers!Bounded, OfBreakers!Stored
<1> QED BY <1>1, <1>2, <1>3, <1>4, <1>5

Tables == OfLabels!Inv /\ OfBreakers!Inv

IInv == Tables /\ Flow

LEMMA LabelsKept ==
  ASSUME Tables, UNCHANGED lvars
  PROVE  OfLabels!Inv'
  BY OfLabels!StutterInv DEF Tables, lvars, OfLabels!vars

LEMMA BreakersKept ==
  ASSUME Tables, UNCHANGED bvars
  PROVE  OfBreakers!Inv'
  BY OfBreakers!StutterInv DEF Tables, bvars, OfBreakers!vars

LEMMA Owners ==
  ASSUME Tables, NEW r \in Requests
  PROVE  BreakerOf(r) \in Requests \cup {Shared}
  BY DEF Tables, OfBreakers!Inv, OfBreakers!Types, BreakerOf

LEMMA TablesKept ==
  ASSUME IInv, NEW r \in Requests,
         \/ IncInflight(r) \/ Admit(r) \/ Handler(r)
         \/ Observe(r) \/ DecInflight(r) \/ Recover(r)
  PROVE  Tables'
<1>1. UNCHANGED lvars /\ UNCHANGED bvars
  BY DEF IncInflight, Admit, Handler, Observe, DecInflight, Recover
<1> QED BY <1>1, LabelsKept, BreakersKept DEF IInv, Tables

LEMMA InitIInv == Init => IInv
<1> SUFFICES ASSUME Init PROVE IInv
  OBVIOUS
<1>1. Tables
  BY LabelsAgree, BreakersAgree, OfLabels!InitInv, OfBreakers!InitInv DEF Init, Tables
<1> QED BY <1>1, InitFlow DEF IInv

LEMMA NextKeeps == IInv /\ [Next]_vars => IInv'
<1> SUFFICES ASSUME IInv, [Next]_vars PROVE IInv'
  OBVIOUS
<1> USE RegistryConstants
<1>1. ASSUME NEW r \in Requests, NEW m \in Methods, Begin(r, m) PROVE IInv'
  <2>1. OfLabels!Get(r, m) /\ UNCHANGED bvars
    BY <1>1, LabelsAgree DEF Begin
  <2>2. /\ OfLabels!Inv' /\ OfLabels!Alone(r)
        /\ labelling'[r].pc = "load" /\ labelling'[r].name = m
    BY <2>1, OfLabels!GetInv DEF IInv, Tables
  <2> QED BY <1>1, <2>1, <2>2, BreakersKept, BeginKeeps
          DEF IInv, Tables, OfLabels!Alone, OnlyLabels
<1>2. ASSUME NEW r \in Requests, LabelStep(r) PROVE IInv'
  <2>1. OfLabels!Step(r) /\ UNCHANGED bvars
    BY <1>2, LabelsAgree DEF LabelStep
  <2>2. /\ OfLabels!Inv' /\ OfLabels!Alone(r)
        /\ labelling'[r].name = labelling[r].name
        /\ labelling[r].pc \in {"load", "cap", "store", "add"} /\ labelling'[r].pc # "idle"
    BY <2>1, OfLabels!StepInv, OfLabels!StepAlone DEF IInv, Tables
  <2> QED BY <1>2, <2>1, <2>2, BreakersKept, LabelStepKeeps
          DEF IInv, Tables, OfLabels!Alone, OnlyLabels
<1>3. ASSUME NEW r \in Requests, RateLimit(r) PROVE IInv'
  <2>1. UNCHANGED lvars /\ (UNCHANGED bvars \/ OfBreakers!Get(r, labelling[r].name))
    BY <1>3, BreakersAgree DEF RateLimit
  <2>2. OfBreakers!Inv' /\ OnlyChooses(r)
    <3>1. CASE UNCHANGED bvars
      BY <3>1, BreakersKept DEF IInv, bvars, OnlyChooses
    <3>2. CASE OfBreakers!Get(r, labelling[r].name)
      <4>1. OfBreakers!Inv' /\ OfBreakers!Alone(r)
        BY <3>2, OfBreakers!GetInv DEF IInv, Tables
      <4> QED BY <4>1 DEF OfBreakers!Alone, OnlyChooses
    <3> QED BY <2>1, <3>1, <3>2
  <2> QED BY <1>3, <2>1, <2>2, LabelsKept, RateLimitKeeps DEF IInv, Tables
<1>4. ASSUME NEW r \in Requests, BreakerStep(r) PROVE IInv'
  <2>1. OfBreakers!Step(r) /\ UNCHANGED lvars
    BY <1>4, BreakersAgree DEF BreakerStep
  <2>2. /\ OfBreakers!Inv' /\ OfBreakers!Alone(r)
        /\ choosing[r].pc \in {"load", "cap", "store", "add"}
    BY <2>1, OfBreakers!StepInv, OfBreakers!StepAlone DEF IInv, Tables
  <2> QED BY <1>4, <2>1, <2>2, LabelsKept, BreakerStepKeeps
          DEF IInv, Tables, OfBreakers!Alone, OnlyChooses
<1>5. ASSUME NEW r \in Requests,
             IncInflight(r) \/ Observe(r) \/ DecInflight(r) \/ Recover(r)
      PROVE  IInv'
  BY <1>5, TablesKept, IncInflightKeeps, ObserveKeeps, DecInflightKeeps, RecoverKeeps DEF IInv
<1>6. ASSUME NEW r \in Requests, Admit(r) \/ Handler(r) PROVE IInv'
  BY <1>6, TablesKept, Owners, AdmitKeeps, HandlerKeeps DEF IInv
<1>7. CASE UNCHANGED vars
  BY <1>7, LabelsKept, BreakersKept, StutterKeeps DEF IInv, Tables, vars
<1> QED BY <1>1, <1>2, <1>3, <1>4, <1>5, <1>6, <1>7 DEF Next

LEMMA SpecIInv == Spec => []IInv
  BY InitIInv, NextKeeps, PTL DEF Spec

-----------------------------------------------------------------------------
(* The theorems.                                                           *)

\* Requests for one method that were given a breaker of its own were given the
\* same, and none that had one is sent to the overflow (Registry.Get, label).
THEOREM IsolationTheorem == Spec => []Isolation
<1>1. IInv => Isolation
  BY LabelsAgree, BreakersAgree, OfLabels!InvIsolates, OfBreakers!InvIsolates
     DEF IInv, Tables, Isolation
<1> QED BY <1>1, SpecIInv, PTL

\* Neither table grows on behalf of a request that began with it full, however many
\* requests race for the last places (Registry.Get, boundedLabels.label).
THEOREM CappedTheorem == Spec => []Capped
<1>1. IInv => Capped
  BY LabelsAgree, BreakersAgree, OfLabels!InvBounds, OfBreakers!InvBounds
     DEF IInv, Tables, Capped
<1> QED BY <1>1, SpecIInv, PTL

\* Each breaker is owed the outcomes of the requests in their handlers and no
\* others, and is told what the client is told (CircuitBreak).
THEOREM ProbesTheorem == Spec => []ProbesSettled
<1>1. IInv => ProbesSettled
  <2> SUFFICES ASSUME IInv PROVE ProbesSettled
    OBVIOUS
  <2>1. \A b \in DOMAIN owed :
          owed[b] = Cardinality({r \in At({"handler"}) : BreakerOf(r) = b})
    BY DEF IInv, Flow, Types, Counts, Owing
  <2>2. \A r \in At({"returned"}) :
          told[r] # "nothing" => (told[r] = "failure" <=> IsFailure(code[r]))
    BY DEF IInv, Flow, Telling, At
  <2>3. \A r \in Requests : told[r] = "nothing" \/ Breakers!Returned(r)
    BY DEF IInv, Flow, Telling, Breakers!Returned
  <2> QED BY <2>1, <2>2, <2>3 DEF ProbesSettled
<1> QED BY <1>1, SpecIInv, PTL

\* lb_inflight counts the requests inside, under the label each was given, and
\* lb_requests_total and lb_panics_total share out those that ended (Metrics).
THEOREM AccountingTheorem == Spec => []Accounting
<1>1. IInv => Accounting
  BY Zenon DEF IInv, Flow, Types, Counts, Accounting, Inside, Ended, Panicked
<1> QED BY <1>1, SpecIInv, PTL
=============================================================================
