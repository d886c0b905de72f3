--------------------------- MODULE RegistryProofs ---------------------------
(***************************************************************************)
(* The steps of Registry keep its table and its counter in order, for any  *)
(* finite set of goroutines, any names and any cap.  Registry has no       *)
(* behaviour of its own: Chain takes its steps, twice over.                *)
(***************************************************************************)
EXTENDS Registry, FiniteSetTheorems, TLAPS

Fields == {"pc", "name", "got", "had", "full"}
Places == {"idle", "load", "cap", "store", "add", "done"}
Adding == {g \in Goroutines : call[g].pc = "add"}

Types ==
    /\ call = [g \in Goroutines |-> call[g]]
    /\ \A g \in Goroutines :
         /\ DOMAIN call[g] = Fields
         /\ call[g].pc \in Places /\ call[g].got \in Goroutines \cup {Overflow}
    /\ IsFiniteSet(Stored)
    /\ table = [x \in Stored |-> table[x]]
    /\ \A x \in Stored : table[x] \in Goroutines
    /\ n \in Int

\* A goroutine holds the entry of its own name, and one whose name was stored when
\* it began never gets past its first look.
Holding ==
    \A g \in Goroutines :
        /\ call[g].pc = "add" \/ (Returned(g) /\ call[g].got # Overflow)
             => Own(g) \in Stored /\ table[Own(g)] = call[g].got
        /\ call[g].pc = "add" => call[g].got = g
        /\ call[g].had => call[g].pc = "load" /\ Own(g) \in Stored

\* The counter never goes back, so one that began at the cap finds it there.
Counting ==
    /\ n = Cardinality(Stored) - Cardinality(Adding)
    /\ \A g \in Goroutines : call[g].full => call[g].pc \in {"load", "cap"} /\ n >= MaxEntries

Inv == Types /\ Holding /\ Counting

\* What the proofs need to know of the constants.
Constants ==
    IsFiniteSet(Goroutines) /\ Overflow \notin Goroutines /\ MaxEntries \in Int

LEMMA InitInv ==
  ASSUME Init
  PROVE  Inv
<1>1. Stored = {} /\ Adding = {}
  BY DEF Init, Stored, Adding
<1>2. Types
  <2>1. \A g \in Goroutines :
          /\ DOMAIN call[g] = Fields
          /\ call[g].pc \in Places /\ call[g].got \in Goroutines \cup {Overflow}
     BY DEF Init, Fields, Places
  <2>2. call = [g \in Goroutines |-> call[g]] /\ n \in Int
    BY DEF Init
  <2>3. table = [x \in Stored |-> table[x]]
    BY <1>1 DEF Init, Stored
  <2> QED BY <1>1, <2>1, <2>2, <2>3, FS_EmptySet DEF Types
<1>3. Holding
  BY DEF Init, Holding, Returned
<1>4. Counting
  BY <1>1, FS_EmptySet DEF Init, Counting
<1> QED BY <1>2, <1>3, <1>4 DEF Inv

LEMMA InvIsolates ==
  ASSUME Inv
  PROVE  Isolated
  BY DEF Inv, Types, Holding, Isolated, Returned

LEMMA InvBounds ==
  ASSUME Inv
  PROVE  Bounded
  BY DEF Inv, Counting, Bounded, Adding

\* A goroutine's step leaves the calls of the others alone.
Alone(g) ==
    /\ call' = [h \in Goroutines |-> call'[h]]
    /\ DOMAIN call'[g] = Fields
    /\ \A h \in Goroutines \ {g} : call'[h] = call[h]

LEMMA AddingFinite ==
  ASSUME Constants
  PROVE  IsFiniteSet(Adding)
  BY FS_Subset DEF Constants, Adding

\* Nobody starts or ends counting.
LEMMA AddingSame ==
  ASSUME NEW g \in Goroutines, Alone(g), call[g].pc # "add", call'[g].pc # "add"
  PROVE  Adding' = Adding
  BY DEF Adding, Alone

LEMMA GetInv ==
  ASSUME Constants, Inv, NEW g \in Goroutines, NEW x, Get(g, x)
  PROVE  Inv' /\ Alone(g) /\ call'[g].pc = "load" /\ call'[g].name = x
<1> DEFINE new == [pc |-> "load", name |-> x, got |-> Overflow,
                   had |-> x \in Stored, full |-> n >= MaxEntries]
<1>1. /\ call[g].pc = "idle" /\ UNCHANGED <<table, n>>
      /\ call' = [call EXCEPT ![g] = new]
  BY DEF Get
<1>2. Alone(g) /\ call'[g] = new
  <2>1. DOMAIN new = Fields
    BY DEF Fields
  <2> HIDE DEF new
  <2> QED BY <1>1, <2>1 DEF Inv, Types, Alone
<1>7. /\ call'[g].pc = "load" /\ call'[g].name = x /\ call'[g].got = Overflow
      /\ (call'[g].had => x \in Stored)
      /\ (call'[g].full => n >= MaxEntries)
  <2>1. new.pc = "load" /\ new.name = x /\ new.got = Overflow
    OBVIOUS
  <2>2. (new.had => x \in Stored)
    BY Zenon
  <2>3. (new.full => n >= MaxEntries)
    BY Zenon
  <2> HIDE DEF new
  <2> QED BY <1>2, <2>1, <2>2, <2>3
<1> HIDE DEF new
<1>3. Stored' = Stored /\ Adding' = Adding
  BY <1>1, <1>2, <1>7, AddingSame DEF Stored
<1>4. Types'
  BY <1>1, <1>2, <1>7, <1>3 DEF Inv, Types, Alone, Places
<1>5. Holding'
  BY <1>1, <1>2, <1>7, <1>3 DEF Inv, Holding, Alone, Own, Returned
<1>6. Counting'
  BY <1>1, <1>2, <1>7, <1>3 DEF Inv, Counting, Alone
<1> QED BY <1>2, <1>7, <1>4, <1>5, <1>6 DEF Inv

LEMMA GotoEffect ==
  ASSUME Types, NEW g \in Goroutines, NEW to, Goto(g, to)
  PROVE  /\ Alone(g) /\ call'[g].pc = to /\ call'[g].name = call[g].name
         /\ call'[g].got = call[g].got
         /\ call'[g].had = call[g].had /\ call'[g].full = call[g].full
  BY DEF Types, Goto, Alone, Fields

LEMMA ReturnEffect ==
  ASSUME Types, NEW g \in Goroutines, NEW entry, Return(g, entry)
  PROVE  /\ Alone(g) /\ call'[g].pc = "done" /\ call'[g].name = call[g].name
         /\ call'[g].got = entry /\ call'[g].full = FALSE
         /\ call'[g].had => call[g].had /\ entry = Overflow
<1> DEFINE f1 == [call EXCEPT ![g].pc = "done"]
           f2 == [f1 EXCEPT ![g].got = entry]
           f3 == [f2 EXCEPT ![g].had = @ /\ entry = Overflow]
           f4 == [f3 EXCEPT ![g].full = FALSE]
           Others(f) == f = [h \in Goroutines |-> f[h]]
                        /\ DOMAIN f[g] = Fields /\ \A h \in Goroutines \ {g} : f[h] = call[h]
<1>1. call' = f4
  BY ZenonT(60) DEF Return
<1>2. Others(f2) /\ f2[g].pc = "done" /\ f2[g].got = entry /\ f2[g].name = call[g].name
      /\ f2[g].had = call[g].had
  BY Zenon DEF Types, Fields
<1> HIDE DEF f2
<1>3. Others(f3) /\ f3[g].pc = "done" /\ f3[g].got = entry /\ f3[g].name = call[g].name
      /\ (f3[g].had => call[g].had /\ entry = Overflow)
  BY <1>2, Zenon DEF Fields
<1> HIDE DEF f3
<1>4. Others(f4) /\ f4[g].pc = "done" /\ f4[g].got = entry /\ f4[g].name = call[g].name
      /\ f4[g].had = f3[g].had /\ f4[g].full = FALSE
  BY <1>3, Zenon DEF Fields
<1> HIDE DEF f4
<1> QED BY <1>1, <1>3, <1>4 DEF Alone

\* A goroutine that returns an entry of the table, or the overflow, without
\* having stored anything.
LEMMA ReturnInv ==
  ASSUME Inv, NEW g \in Goroutines, NEW entry, Return(g, entry), UNCHANGED <<table, n>>,
         call[g].pc # "add",
         \/ entry = Overflow /\ ~call[g].had
         \/ Own(g) \in Stored /\ entry = table[Own(g)] /\ entry # Overflow
  PROVE  Inv'
<1>1. /\ Alone(g) /\ call'[g].pc = "done" /\ call'[g].name = call[g].name
      /\ call'[g].got = entry /\ call'[g].full = FALSE /\ ~call'[g].had
  BY ReturnEffect, Zenon DEF Inv
<1>2. Stored' = Stored /\ Adding' = Adding
  BY <1>1, AddingSame DEF Stored
<1>3. Types'
  BY <1>1, <1>2 DEF Inv, Types, Alone, Places
<1>4. Holding'
  BY <1>1, <1>2 DEF Inv, Holding, Alone, Own, Returned
<1>5. Counting'
  BY <1>1, <1>2 DEF Inv, Counting, Alone
<1> QED BY <1>3, <1>4, <1>5 DEF Inv

\* A goroutine that only moves on.
LEMMA GotoInv ==
  ASSUME Inv, NEW g \in Goroutines, NEW to \in {"cap", "store"}, Goto(g, to),
         UNCHANGED <<table, n>>, call[g].pc \in {"load", "cap"}, ~call[g].had,
         to = "store" => ~call[g].full
  PROVE  Inv'
<1>1. /\ Alone(g) /\ call'[g].pc = to /\ call'[g].name = call[g].name
      /\ call'[g].got = call[g].got
      /\ call'[g].had = call[g].had /\ call'[g].full = call[g].full
  BY GotoEffect DEF Inv
<1>2. Stored' = Stored /\ Adding' = Adding
  BY <1>1, AddingSame DEF Stored
<1>3. Types'
  BY <1>1, <1>2 DEF Inv, Types, Alone, Places
<1>4. Holding'
  BY <1>1, <1>2 DEF Inv, Holding, Alone, Own, Returned
<1>5. Counting'
  BY <1>1, <1>2 DEF Inv, Counting, Alone
<1> QED BY <1>3, <1>4, <1>5 DEF Inv

LEMMA LoadInv ==
  ASSUME Constants, Inv, NEW g \in Goroutines, Load(g)
  PROVE  Inv'
<1>1. CASE Own(g) \in Stored /\ Return(g, table[Own(g)])
  <2>1. table[Own(g)] # Overflow
    BY <1>1 DEF Inv, Types, Constants
  <2> QED BY <1>1, <2>1, ReturnInv DEF Load
<1>2. CASE Own(g) \notin Stored /\ Goto(g, "cap")
  BY <1>2, GotoInv DEF Load, Inv, Holding
<1> QED BY <1>1, <1>2 DEF Load

LEMMA CheckCapInv ==
  ASSUME Constants, Inv, NEW g \in Goroutines, CheckCap(g)
  PROVE  Inv'
<1>1. ~call[g].had
  BY DEF CheckCap, Inv, Holding
<1>2. CASE n >= MaxEntries /\ Return(g, Overflow)
  BY <1>1, <1>2, ReturnInv DEF CheckCap
<1>3. CASE n < MaxEntries /\ Goto(g, "store")
  <2>1. ~call[g].full
    BY <1>3 DEF Inv, Types, Counting, Constants
  <2> QED BY <1>1, <1>3, <2>1, GotoInv DEF CheckCap
<1> QED BY <1>2, <1>3 DEF CheckCap

\* The winner of a race stores its entry and has still to count it.
Stores(g) ==
    /\ call[g].pc = "store" /\ Own(g) \notin Stored
    /\ table' = [x \in Stored \cup {Own(g)} |-> IF x = Own(g) THEN g ELSE table[x]]
    /\ call' = [call EXCEPT ![g].pc = "add", ![g].got = g]
    /\ UNCHANGED n

LEMMA StoreEffect ==
  ASSUME Types, NEW g \in Goroutines, Stores(g)
  PROVE  /\ Alone(g) /\ call'[g].pc = "add" /\ call'[g].name = call[g].name
         /\ call'[g].got = g
         /\ call'[g].had = call[g].had /\ call'[g].full = call[g].full
  BY Zenon DEF Stores, Types, Alone, Fields

LEMMA StoreInv ==
  ASSUME Constants, Inv, NEW g \in Goroutines, Stores(g)
  PROVE  Inv'
<1>0. call[g].pc = "store" /\ Own(g) \notin Stored /\ n' = n /\ ~call[g].had /\ ~call[g].full
  BY DEF Stores, Inv, Holding, Counting
<1>1. /\ Alone(g) /\ call'[g].pc = "add" /\ call'[g].name = call[g].name
      /\ call'[g].got = g /\ ~call'[g].had /\ ~call'[g].full
  BY <1>0, StoreEffect DEF Inv
<1>2. /\ Stored' = Stored \cup {Own(g)} /\ IsFiniteSet(Stored)
      /\ table' = [x \in Stored' |-> table'[x]]
      /\ table'[Own(g)] = g /\ \A x \in Stored : table'[x] = table[x]
  BY DEF Stores, Stored, Inv, Types
<1>3. IsFiniteSet(Stored') /\ Cardinality(Stored') = Cardinality(Stored) + 1
  BY <1>0, <1>2, FS_AddElement
<1>4. Adding' = Adding \cup {g} /\ g \notin Adding
  BY <1>0, <1>1 DEF Adding, Alone
<1>5. Cardinality(Adding') = Cardinality(Adding) + 1
  BY <1>4, AddingFinite, FS_AddElement, Zenon
<1>6. Types'
  <2>1. \A x \in Stored' : table'[x] \in Goroutines
    BY <1>2 DEF Inv, Types
  <2> QED BY <1>0, <1>1, <1>2, <1>3, <2>1 DEF Inv, Types, Alone, Places
<1>7. Holding'
  <2>1. Own(g)' = Own(g) /\ \A h \in Goroutines \ {g} : Own(h)' = Own(h)
    BY <1>1 DEF Own, Alone
  <2>2. \A h \in Goroutines \ {g} : Returned(h)' = Returned(h)
    BY <1>1 DEF Returned, Alone
  <2> QED BY <1>1, <1>2, <2>1, <2>2 DEF Inv, Holding, Alone
<1>8. Counting'
  <2>1. Cardinality(Stored) \in Nat /\ Cardinality(Adding) \in Nat
    BY <1>2, AddingFinite, FS_CardinalityType
  <2> QED BY <1>0, <1>1, <1>3, <1>5, <2>1 DEF Inv, Counting, Alone
<1> QED BY <1>6, <1>7, <1>8 DEF Inv

LEMMA LoadOrStoreInv ==
  ASSUME Constants, Inv, NEW g \in Goroutines, LoadOrStore(g)
  PROVE  Inv'
<1>1. CASE Own(g) \in Stored /\ Return(g, table[Own(g)]) /\ UNCHANGED table
  <2>1. table[Own(g)] # Overflow
    BY <1>1 DEF Inv, Types, Constants
  <2> QED BY <1>1, <2>1, ReturnInv DEF LoadOrStore
<1>2. CASE Own(g) \notin Stored
  BY <1>2, StoreInv DEF LoadOrStore, Stores
<1> QED BY <1>1, <1>2 DEF LoadOrStore

LEMMA AddInv ==
  ASSUME Constants, Inv, NEW g \in Goroutines, Add(g)
  PROVE  Inv'
<1>1. call[g].pc = "add" /\ n' = n + 1 /\ Return(g, g) /\ table' = table
  BY DEF Add
<1>2. /\ Alone(g) /\ call'[g].pc = "done" /\ call'[g].name = call[g].name
      /\ call'[g].got = g /\ call'[g].full = FALSE /\ ~call'[g].had
  BY <1>1, ReturnEffect, Zenon DEF Inv, Constants
<1>3. Own(g) \in Stored /\ table[Own(g)] = g
  BY <1>1 DEF Inv, Holding
<1>4. Stored' = Stored /\ Adding' = Adding \ {g} /\ g \in Adding
  BY <1>1, <1>2 DEF Stored, Adding, Alone
<1>5. Cardinality(Adding') = Cardinality(Adding) - 1
  BY <1>4, AddingFinite, FS_RemoveElement, Zenon
<1>6. Types'
  BY <1>1, <1>2, <1>4 DEF Inv, Types, Alone, Places
<1>7. Holding'
  BY <1>1, <1>2, <1>3, <1>4 DEF Inv, Holding, Alone, Own, Returned
<1>8. Counting'
  <2>1. Cardinality(Stored) \in Int /\ Cardinality(Adding) \in Int
    BY AddingFinite, FS_CardinalityType DEF Inv, Types
  <2> QED BY <1>1, <1>2, <1>4, <1>5, <2>1 DEF Inv, Types, Counting, Alone, Constants
<1> QED BY <1>6, <1>7, <1>8 DEF Inv

\* What the callers of Get see of a step of theirs.
LEMMA StepAlone ==
  ASSUME Inv, NEW g \in Goroutines, Step(g)
  PROVE  /\ Alone(g) /\ call'[g].name = call[g].name
         /\ call[g].pc \in {"load", "cap", "store", "add"} /\ call'[g].pc # "idle"
<1>1. ASSUME NEW to \in {"cap", "store"}, Goto(g, to)
      PROVE  Alone(g) /\ call'[g].name = call[g].name /\ call'[g].pc # "idle"
  BY <1>1, GotoEffect DEF Inv
<1>2. ASSUME NEW entry, Return(g, entry)
      PROVE  Alone(g) /\ call'[g].name = call[g].name /\ call'[g].pc # "idle"
  BY <1>2, ReturnEffect, Zenon DEF Inv
<1>3. ASSUME Stores(g)
      PROVE  Alone(g) /\ call'[g].name = call[g].name /\ call'[g].pc # "idle"
  BY <1>3, StoreEffect DEF Inv
<1>4. CASE Load(g) \/ CheckCap(g)
  BY <1>1, <1>2, <1>4, Zenon DEF Load, CheckCap
<1>5. CASE LoadOrStore(g)
  BY <1>2, <1>3, <1>5, Zenon DEF LoadOrStore, Stores
<1>6. CASE Add(g)
  BY <1>2, <1>6, Zenon DEF Add
<1> QED BY <1>4, <1>5, <1>6 DEF Step

LEMMA StepInv ==
  ASSUME Constants, Inv, NEW g \in Goroutines, Step(g)
  PROVE  Inv'
  BY LoadInv, CheckCapInv, LoadOrStoreInv, AddInv DEF Step

LEMMA StutterInv ==
  ASSUME Inv, UNCHANGED vars
  PROVE  Inv'
  BY DEF vars, Inv, Types, Holding, Counting, Adding, Stored, Own, Returned
=============================================================================
