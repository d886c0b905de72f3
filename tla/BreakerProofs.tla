--------------------------- MODULE BreakerProofs ---------------------------
(***************************************************************************)
(* Proofs about Breaker for every Settings, every finite set of requests,  *)
(* any set of pollers and any horizon of the clock.                        *)
(***************************************************************************)
EXTENDS Breaker, FiniteSetTheorems, TLAPS

\* The fields a window operation leaves alone.
SameControl(x, y) ==
    /\ DOMAIN y = Fields
    /\ y.state = x.state /\ y.fastState = x.fastState
    /\ y.probes = x.probes /\ y.successes = x.successes
    /\ y.gen = x.gen /\ y.trs = x.trs

-----------------------------------------------------------------------------
(* Lemmas about the operators of Circuit.                                  *)

\* normalize makes HalfOpenMax at least one, whatever it is given.
LEMMA HalfOpenMaxPositive == set.HalfOpenMax \in Nat /\ set.HalfOpenMax >= 1
  BY SettingsAssumption DEF set, Normalize, AtLeastOne

LEMMA ClearSame ==
  ASSUME NEW x, NEW t, DOMAIN x = Fields
  PROVE  SameControl(x, clearLocked(x, t))
  BY DEF clearLocked, SameControl, Fields

LEMMA AdvanceSame ==
  ASSUME NEW x, NEW t, DOMAIN x = Fields
  PROVE  SameControl(x, advanceLocked(x, t))
<1> DEFINE n == (t - x.start) \div BucketDur
<1>1. CASE n < 1
  BY <1>1 DEF advanceLocked, SameControl
<1>2. CASE ~(n < 1) /\ n >= set.Buckets
  BY <1>2, ClearSame DEF advanceLocked
<1>3. CASE ~(n < 1) /\ ~(n >= set.Buckets)
  BY <1>3 DEF advanceLocked, SameControl, Fields
<1> QED BY <1>1, <1>2, <1>3

LEMMA CountSame ==
  ASSUME NEW x, NEW f, DOMAIN x = Fields
  PROVE  SameControl(x, countLocked(x, f))
  BY DEF countLocked, SameControl, Fields

\* y is x moved to another state: mirror stored, counters zeroed, one
\* transition appended, a new episode exactly when half-open is entered.
Moved(x, y, to) ==
    /\ x.state # to
    /\ DOMAIN y = Fields
    /\ y.state = to /\ y.fastState = to
    /\ y.probes = 0 /\ y.successes = 0
    /\ y.gen = (IF to = StateHalfOpen THEN x.gen + 1 ELSE x.gen)
    /\ y.trs = Append(x.trs, [from |-> x.state, to |-> to])

LEMMA SetStateMoves ==
  ASSUME NEW x, NEW t, NEW to \in States, DOMAIN x = Fields, x.state # to
  PROVE  Moved(x, setStateLocked(x, to, t), to)
<1> DEFINE a == [x EXCEPT !.state = to, !.fastState = to,
                          !.probes = 0, !.successes = 0,
                          !.trs = Append(@, [from |-> x.state, to |-> to])]
<1>1. setStateLocked(x, to, t) = EnterState(a, to, t)
  BY DEF setStateLocked
<1>2. /\ DOMAIN a = Fields /\ a.state = to /\ a.fastState = to /\ a.probes = 0
      /\ a.successes = 0 /\ a.gen = x.gen
      /\ a.trs = Append(x.trs, [from |-> x.state, to |-> to])
  BY DEF Fields
<1> HIDE DEF a
<1>3. CASE to = StateHalfOpen
  <2>1. EnterState(a, to, t) = [a EXCEPT !.gen = @ + 1]
    BY <1>3 DEF EnterState, StateHalfOpen, StateOpen, StateClosed
  <2> QED BY <1>1, <1>2, <1>3, <2>1 DEF Moved, Fields
<1>4. CASE to = StateOpen
  <2>1. EnterState(a, to, t) = [a EXCEPT !.openedAt = t]
    BY <1>4 DEF EnterState, StateHalfOpen, StateOpen, StateClosed
  <2> QED BY <1>1, <1>2, <1>4, <2>1 DEF Moved, Fields, StateHalfOpen, StateOpen
<1>5. CASE to = StateClosed
  <2>1. EnterState(a, to, t) = clearLocked(a, t)
    BY <1>5 DEF EnterState, StateHalfOpen, StateOpen, StateClosed
  <2> QED BY <1>1, <1>2, <1>5, <2>1, ClearSame
          DEF Moved, SameControl, StateHalfOpen, StateClosed
<1> QED BY <1>3, <1>4, <1>5 DEF States

\* refreshLocked leaves the control state alone or starts an episode.
LEMMA RefreshMoves ==
  ASSUME NEW x, NEW t, DOMAIN x = Fields
  PROVE  LET y == refreshLocked(x, t)
         IN  SameControl(x, y) \/ (x.state = StateOpen /\ Moved(x, y, StateHalfOpen))
<1> DEFINE a == advanceLocked(x, t)
           y == refreshLocked(x, t)
<1>1. SameControl(x, a)
  BY AdvanceSame
<1> HIDE DEF a
<1>2. y = a \/ (a.state = StateOpen /\ y = setStateLocked(a, StateHalfOpen, t))
  BY DEF refreshLocked, a
<1>3. CASE a.state = StateOpen /\ y = setStateLocked(a, StateHalfOpen, t)
  <2>1. Moved(a, y, StateHalfOpen)
    BY <1>1, <1>3, SetStateMoves DEF SameControl, States, StateOpen, StateHalfOpen
  <2> QED BY <1>1, <1>3, <2>1 DEF Moved, SameControl
<1> QED BY <1>1, <1>2, <1>3

Dec(n) == IF n > 0 THEN n - 1 ELSE n

\* y is x with one slot given back and `won` successes.
Returned(x, y, won) ==
    /\ DOMAIN y = Fields
    /\ y.state = x.state /\ y.fastState = x.fastState /\ y.gen = x.gen
    /\ y.trs = x.trs
    /\ y.probes = Dec(x.probes) /\ y.successes = won

LEMMA ResolveCases ==
  ASSUME NEW x, NEW t, NEW f \in BOOLEAN, DOMAIN x = Fields,
         x.state = StateHalfOpen
  PROVE  LET y == ResolveProbe(x, f, t)
         IN  \/ f /\ Moved(x, y, StateOpen)
             \/ /\ ~f /\ x.successes + 1 >= set.HalfOpenMax
                /\ Moved(x, y, StateClosed)
             \/ /\ ~f /\ ~(x.successes + 1 >= set.HalfOpenMax)
                /\ Returned(x, y, x.successes + 1)
<1> DEFINE r == [x EXCEPT !.probes = IF @ > 0 THEN @ - 1 ELSE @]
           s == [r EXCEPT !.successes = @ + 1]
           y == ResolveProbe(x, f, t)
<1>1. Returned(x, r, x.successes) /\ Returned(x, s, x.successes + 1)
  BY DEF Returned, Fields, Dec
<1>2. y = IF f THEN setStateLocked(r, StateOpen, t)
          ELSE IF s.successes >= set.HalfOpenMax THEN setStateLocked(s, StateClosed, t)
          ELSE s
  BY DEF ResolveProbe
<1> HIDE DEF r, s, y
<1>3. CASE f
  <2>1. Moved(r, y, StateOpen)
    BY <1>1, <1>2, <1>3, SetStateMoves
       DEF Returned, States, StateOpen, StateHalfOpen, StateClosed
  <2> QED BY <1>1, <1>3, <2>1, ZenonT(30) DEF Moved, Returned, y
<1>4. CASE ~f /\ x.successes + 1 >= set.HalfOpenMax
  <2>1. Moved(s, y, StateClosed)
    BY <1>1, <1>2, <1>4, SetStateMoves
       DEF Returned, States, StateOpen, StateHalfOpen, StateClosed
  <2> QED BY <1>1, <1>4, <2>1 DEF Moved, Returned, y
<1>5. CASE ~f /\ ~(x.successes + 1 >= set.HalfOpenMax)
  BY <1>1, <1>2, <1>5 DEF Returned, y
<1> QED BY <1>3, <1>4, <1>5

\* What one outcome does to the control state, for a probe that is not from
\* a later episode than the breaker is in.
LEMMA RecordCases ==
  ASSUME NEW x, NEW t, NEW f \in BOOLEAN, NEW p, DOMAIN x = Fields,
         x.gen \in Nat, p.gen \in Nat, p.gen <= x.gen
  PROVE  LET y == record(x, f, p, t)
         IN  \/ ~Current(x, p) /\ SameControl(x, y)
             \/ x.state = StateOpen /\ Moved(x, y, StateHalfOpen)
             \/ x.state = StateClosed /\ Moved(x, y, StateOpen)
             \/ Current(x, p) /\ f /\ Moved(x, y, StateOpen)
             \/ /\ Current(x, p) /\ ~f /\ x.successes + 1 >= set.HalfOpenMax
                /\ Moved(x, y, StateClosed)
             \/ /\ Current(x, p) /\ ~f /\ ~(x.successes + 1 >= set.HalfOpenMax)
                /\ Returned(x, y, x.successes + 1)
<1> DEFINE a == refreshLocked(x, t)
           c == countLocked(a, f)
           y == record(x, f, p, t)
<1>1. SameControl(x, a) \/ (x.state = StateOpen /\ Moved(x, a, StateHalfOpen))
  BY RefreshMoves
<1>2. DOMAIN a = Fields
  BY <1>1 DEF SameControl, Moved
<1>3. SameControl(a, c)
  BY <1>2, CountSame
<1>4. y = IF c.state = StateClosed /\ ShouldTrip(c) THEN setStateLocked(c, StateOpen, t)
          ELSE IF Current(c, p) THEN ResolveProbe(c, f, t) ELSE c
  BY DEF record
<1> HIDE DEF a, c, y
<1>5. CASE x.state = StateOpen /\ Moved(x, a, StateHalfOpen)
  <2>1. Moved(x, c, StateHalfOpen)
    BY <1>3, <1>5 DEF Moved, SameControl
  <2>2. c.state # StateClosed /\ ~Current(c, p)
    BY <2>1 DEF Moved, Current, StateClosed, StateHalfOpen
  <2> QED BY <1>4, <1>5, <2>1, <2>2 DEF y
<1>6. CASE SameControl(x, a)
  <2>1. SameControl(x, c)
    BY <1>3, <1>6 DEF SameControl
  <2>2. Current(c, p) <=> Current(x, p)
    BY <2>1 DEF SameControl, Current
  <2>3. CASE c.state = StateClosed /\ ShouldTrip(c)
    <3>1. Moved(c, y, StateOpen)
      BY <1>4, <2>1, <2>3, SetStateMoves, SMTT(30) DEF SameControl, States, StateClosed, StateOpen
    <3> QED BY <2>1, <2>3, <3>1 DEF Moved, SameControl, y
  <2>4. CASE ~(c.state = StateClosed /\ ShouldTrip(c)) /\ Current(c, p)
    <3>1. y = ResolveProbe(c, f, t) /\ DOMAIN c = Fields /\ c.state = StateHalfOpen
      BY <1>4, <2>1, <2>4 DEF SameControl, Current
    <3>2. \/ f /\ Moved(c, y, StateOpen)
          \/ ~f /\ c.successes + 1 >= set.HalfOpenMax /\ Moved(c, y, StateClosed)
          \/ ~f /\ ~(c.successes + 1 >= set.HalfOpenMax) /\ Returned(c, y, c.successes + 1)
      BY <3>1, ResolveCases
    <3> QED BY <2>1, <2>2, <2>4, <3>2 DEF Moved, Returned, SameControl, y
  <2>5. CASE ~(c.state = StateClosed /\ ShouldTrip(c)) /\ ~Current(c, p)
    BY <1>4, <2>1, <2>2, <2>5 DEF y
  <2> QED BY <2>3, <2>4, <2>5
<1> QED BY <1>1, <1>5, <1>6

LEMMA ResetCases ==
  ASSUME NEW x, NEW t, DOMAIN x = Fields
  PROVE  LET y == Reset(x, t)
         IN  \/ Moved(x, y, StateClosed)
             \/ /\ x.state = StateClosed /\ DOMAIN y = Fields
                /\ y.state = x.state /\ y.fastState = x.fastState
                /\ y.gen = x.gen /\ y.trs = x.trs /\ y.probes = 0 /\ y.successes = 0
<1> DEFINE a == setStateLocked(x, StateClosed, t)
           c == clearLocked(a, t)
           y == Reset(x, t)
<1>1. CASE x.state = StateClosed
  <2>1. a = x
    BY <1>1 DEF setStateLocked
  <2>2. SameControl(x, c)
    BY <2>1, ClearSame
  <2> HIDE DEF c
  <2>3. y = [c EXCEPT !.probes = 0, !.successes = 0]
    BY DEF Reset, c
  <2> QED BY <1>1, <2>2, <2>3 DEF SameControl, Fields
<1>2. CASE x.state # StateClosed
  <2>1. Moved(x, a, StateClosed)
    BY <1>2, SetStateMoves DEF States
  <2>2. SameControl(a, c)
    BY <2>1, ClearSame DEF Moved
  <2> HIDE DEF a, c
  <2>3. y = [c EXCEPT !.probes = 0, !.successes = 0]
    BY DEF Reset, a, c
  <2> QED BY <2>1, <2>2, <2>3 DEF SameControl, Moved, Fields
<1> QED BY <1>1, <1>2

-----------------------------------------------------------------------------
(* The inductive invariant.                                                *)

ProbeType == [probe : BOOLEAN, gen : Nat]

LEMMA CurrentIsOwn ==
  ASSUME NEW x, NEW p \in ProbeType
  PROVE  Current(x, p) <=> (p = ProbeOf(x) /\ x.state = StateHalfOpen)
  BY DEF Current, ProbeOf, ProbeType

LEMMA OneElement ==
  ASSUME NEW t
  PROVE  /\ Append(<<>>, t) = <<t>> /\ Tail(<<t>>) = <<>>
         /\ Len(<<>>) = 0 /\ Len(<<t>>) = 1
  OBVIOUS

LEMMA CountsFinite ==
  /\ IsFiniteSet(Outstanding) /\ Cardinality(Outstanding) \in Nat
  /\ IsFiniteSet(Won) /\ Cardinality(Won) \in Nat
<1>1. Outstanding \in SUBSET Requests /\ Won \in SUBSET Requests
  BY DEF Outstanding, Won
<1> QED BY <1>1, BreakerAssumption, FS_Subset, FS_CardinalityType

LEMMA InitInv == Init => IInv
<1> SUFFICES ASSUME Init PROVE IInv
  OBVIOUS
<1>1. DOMAIN b = Fields
  BY DEF Init, NewBreaker, Fields
<1>2. ControlTypeOK
  BY BreakerAssumption DEF Init, NewBreaker, ControlTypeOK, States, NoProbe
<1>3. trs \in [Goroutines -> {<<>>} \cup {<<t>> : t \in TransitionRecord}]
  BY DEF Init
<1>4. MirrorAgrees /\ ProbeAccounting
  BY DEF Init, NewBreaker, MirrorAgrees, ProbeAccounting, StateClosed, StateHalfOpen
<1>5. \A r \in Requests : probe[r].gen <= b.gen /\ ~probe[r].probe
  BY DEF Init, NewBreaker, NoProbe
<1> QED BY <1>1, <1>2, <1>3, <1>4, <1>5 DEF IInv

Owed == {<<>>} \cup {<<t>> : t \in TransitionRecord}

\* What a critical section must leave behind for everything but the
\* accounting of the slots to hold after it.
WellFormed(y) ==
    /\ DOMAIN y = Fields
    /\ y.state \in States /\ y.fastState = y.state
    /\ y.probes \in Nat /\ y.successes \in Nat
    /\ y.gen \in Nat /\ y.gen >= b.gen
    /\ y.trs \in Owed

LEMMA SectionWellFormed ==
  ASSUME IInv, NEW y
  PROVE  /\ SameControl(b, y) => WellFormed(y)
         /\ \A to \in States : Moved(b, y, to) => WellFormed(y)
         /\ \A won \in Nat : Returned(b, y, won) => WellFormed(y)
<1>1. SameControl(b, y) => WellFormed(y)
  BY DEF IInv, ControlTypeOK, MirrorAgrees, SameControl, WellFormed, Owed
<1>2. ASSUME NEW to \in States, Moved(b, y, to)
      PROVE  WellFormed(y)
  <2>1. [from |-> b.state, to |-> to] \in TransitionRecord
    BY DEF IInv, ControlTypeOK, TransitionRecord
  <2>2. b.trs = <<>>
    BY DEF IInv, ControlTypeOK
  <2>3. y.trs = <<[from |-> b.state, to |-> to]>>
    BY <1>2, <2>2, OneElement DEF Moved
  <2>4. y.trs \in Owed
    BY <2>1, <2>3 DEF Owed
  <2> QED BY <1>2, <2>4 DEF IInv, ControlTypeOK, Moved, WellFormed
<1>3. ASSUME NEW won \in Nat, Returned(b, y, won)
      PROVE  WellFormed(y)
  BY <1>3 DEF IInv, ControlTypeOK, MirrorAgrees, Returned, Dec, WellFormed, Owed
<1> QED BY <1>1, <1>2, <1>3

LEMMA UnlockWellFormed ==
  ASSUME IInv, NEW y, WellFormed(y), NEW g \in Goroutines, Unlock(g, y)
  PROVE  /\ DOMAIN b' = Fields
         /\ b'.state = y.state /\ b'.fastState = y.state /\ b'.state \in States
         /\ b'.probes = y.probes /\ b'.successes = y.successes
         /\ b'.probes \in Nat /\ b'.successes \in Nat
         /\ b'.gen = y.gen /\ b'.gen \in Nat /\ b'.gen >= b.gen
         /\ b'.trs = <<>>
         /\ trs' \in [Goroutines -> Owed]
<1>1. b' = [y EXCEPT !.trs = <<>>] /\ trs' = [trs EXCEPT ![g] = y.trs]
  BY DEF Unlock, Unlocked
<1>2. trs' \in [Goroutines -> Owed]
  BY <1>1 DEF IInv, WellFormed, Owed
<1> QED BY <1>1, <1>2 DEF WellFormed, Fields

\* The three ways the accounting survives a step that admits nobody and
\* resolves nobody of the running episode.
LEMMA AccountSame ==
  ASSUME IInv, b'.state = b.state, b'.probes = b.probes, b'.successes = b.successes,
         Outstanding' = Outstanding, Won' = Won
  PROVE  ProbeAccounting'
  BY DEF IInv, ProbeAccounting

LEMMA AccountLeft ==
  ASSUME b'.state # StateHalfOpen, b'.probes = 0, b'.successes = 0
  PROVE  ProbeAccounting'
  BY DEF ProbeAccounting

LEMMA AccountEntered ==
  ASSUME IInv, b'.probes = 0, b'.successes = 0, b'.gen = b.gen + 1, probe' = probe
  PROVE  ProbeAccounting'
<1>1. \A r \in Requests : probe[r] # ProbeOf(b)'
  BY DEF IInv, ControlTypeOK, ProbeOf
<1>2. Outstanding' = {} /\ Won' = {}
  BY <1>1 DEF Outstanding, Won
<1>3. Cardinality({}) = 0
  BY FS_EmptySet
<1> QED BY <1>2, <1>3, HalfOpenMaxPositive DEF ProbeAccounting

-----------------------------------------------------------------------------
(* Every action preserves the invariant.                                   *)

\* The points a goroutine moves between without holding or having held a slot.
LEMMA MoveOutsideEpisode ==
  ASSUME IInv, NEW r \in Requests, pc[r] \in {"idle", "locking", "refused"},
         NEW to, to \in {"locking", "running", "abandoned"}, Goto(r, to),
         UNCHANGED <<b, now, probe, trs>>
  PROVE  IInv'
<1>1. ControlTypeOK'
  BY DEF IInv, ControlTypeOK, Goto, Goroutines, Unresolved, Resolved
<1>2. probe[r] # ProbeOf(b)
  BY DEF IInv, ProbeOf
<1>3. pc'[r] = to /\ \A q \in Requests \ {r} : pc'[q] = pc[q]
  BY DEF IInv, ControlTypeOK, Goto, Goroutines
<1>4. Outstanding' = Outstanding /\ Won' = Won
  BY <1>2, <1>3 DEF Outstanding, Won, ProbeOf
<1>5. ProbeAccounting'
  BY <1>4, AccountSame
<1> QED BY <1>1, <1>3, <1>5 DEF IInv, MirrorAgrees

LEMMA AdmitKeeps ==
  ASSUME IInv, NEW r \in Requests, Admit(r)
  PROVE  IInv'
<1> DEFINE x == refreshLocked(b, now)
           a == AdmitLocked(b, now)
<1>1. SameControl(b, x) \/ (b.state = StateOpen /\ Moved(b, x, StateHalfOpen))
  BY RefreshMoves DEF IInv
<1>2. WellFormed(x)
  BY <1>1, SectionWellFormed DEF States
<1>3. /\ a.allowed = Ready(x)
      /\ a.probe = IF HasSlot(x) THEN ProbeOf(x) ELSE NoProbe
      /\ a.breaker = IF HasSlot(x) THEN [x EXCEPT !.probes = @ + 1] ELSE x
  BY DEF AdmitLocked
<1>4. /\ pc[r] = "locking" /\ Unlock(r, a.breaker)
      /\ probe' = [probe EXCEPT ![r] = a.probe]
      /\ Goto(r, IF a.allowed THEN "running" ELSE "refused")
      /\ now' = now
  BY DEF Admit, At
<1> HIDE DEF x, a
<1>5. r \in Goroutines /\ now' \in 0 .. MaxTime
  BY <1>4 DEF Goroutines, IInv, ControlTypeOK
<1>6. pc' \in [Goroutines -> {"idle", "locking"} \cup Unresolved \cup Resolved]
  BY <1>4, ZenonT(30) DEF IInv, ControlTypeOK, Goto, Unresolved
<1>7. /\ \A q \in Requests \ {r} : pc'[q] = pc[q] /\ probe'[q] = probe[q]
      /\ probe'[r] = a.probe
      /\ pc'[r] = IF a.allowed THEN "running" ELSE "refused"
  BY <1>4, <1>5 DEF IInv, ControlTypeOK, Goto, Goroutines
<1>8. CASE HasSlot(x)
  <2>1. a.breaker = [x EXCEPT !.probes = @ + 1] /\ a.probe = ProbeOf(x) /\ a.allowed
    BY <1>3, <1>8, ZenonT(30) DEF Ready
  <2>2. WellFormed(a.breaker)
    BY <1>2, <2>1 DEF WellFormed, Fields
  <2>3. /\ DOMAIN b' = Fields /\ b'.state = x.state /\ b'.fastState = x.state
        /\ b'.probes = x.probes + 1 /\ b'.successes = x.successes
        /\ b'.gen = x.gen /\ b'.gen \in Nat /\ b'.gen >= b.gen /\ b'.trs = <<>>
        /\ b'.probes \in Nat /\ b'.successes \in Nat /\ b'.state \in States
        /\ trs' \in [Goroutines -> Owed]
    BY <1>2, <1>4, <1>5, <2>1, <2>2, UnlockWellFormed DEF WellFormed, Fields
  <2>4. probe' \in [Requests -> ProbeType] /\ probe'[r].gen <= b'.gen
    BY <1>2, <1>4, <1>7, <2>1, <2>3 DEF IInv, ControlTypeOK, ProbeType, ProbeOf, WellFormed
  <2>5. ControlTypeOK'
    BY <1>5, <1>6, <2>3, <2>4 DEF ControlTypeOK, ProbeType
  <2>6. \A q \in Requests : probe'[q].gen <= b'.gen
    BY <1>7, <2>3, <2>4, SMTT(30) DEF IInv, ControlTypeOK
  <2>7. \A q \in Requests : pc'[q] \in {"idle", "locking", "refused"} => ~probe'[q].probe
    BY <1>7, <2>1 DEF IInv
  <2>8. x.state = StateHalfOpen /\ x.probes < set.HalfOpenMax
    BY <1>8 DEF HasSlot
  <2>9. ProbeAccounting'
    <3>1. ProbeOf(b)' = ProbeOf(x)
      BY <2>3 DEF ProbeOf
    <3>2. CASE SameControl(b, x)
      <4>1. ProbeOf(b) = ProbeOf(x) /\ b.state = StateHalfOpen
        BY <2>8, <3>2 DEF SameControl, ProbeOf
      <4>2. Outstanding' = Outstanding \cup {r} /\ r \notin Outstanding /\ Won' = Won
        BY <1>4, <1>7, <2>1, <3>1, <4>1 DEF Outstanding, Won
      <4>3. Cardinality(Outstanding') = Cardinality(Outstanding) + 1
        BY <4>2, CountsFinite, FS_AddElement, ZenonT(30)
      <4> QED BY <2>3, <2>8, <3>2, <4>1, <4>2, <4>3, CountsFinite, HalfOpenMaxPositive, SMTT(60)
              DEF IInv, ProbeAccounting, ControlTypeOK, SameControl
    <3>3. CASE b.state = StateOpen /\ Moved(b, x, StateHalfOpen)
      <4>1. \A q \in Requests : probe[q] # ProbeOf(x)
        BY <3>3 DEF IInv, ControlTypeOK, Moved, ProbeOf
      <4>2. Outstanding' = {r} /\ Won' = {}
        BY <1>7, <2>1, <3>1, <4>1 DEF Outstanding, Won
      <4>3. Cardinality({r}) = 1 /\ Cardinality({}) = 0
        BY FS_Singleton, FS_EmptySet, ZenonT(30)
      <4> QED BY <2>3, <3>3, <4>2, <4>3, HalfOpenMaxPositive DEF ProbeAccounting, Moved
    <3> QED BY <1>1, <3>2, <3>3
  <2> QED BY <2>3, <2>5, <2>6, <2>7, <2>9 DEF IInv, MirrorAgrees, Owed
<1>9. CASE ~HasSlot(x)
  <2>1. a.breaker = x /\ a.probe = NoProbe
    BY <1>3, <1>9
  <2>2. /\ DOMAIN b' = Fields /\ b'.state = x.state /\ b'.fastState = x.state
        /\ b'.probes = x.probes /\ b'.successes = x.successes
        /\ b'.gen = x.gen /\ b'.gen \in Nat /\ b'.gen >= b.gen /\ b'.trs = <<>>
        /\ b'.probes \in Nat /\ b'.successes \in Nat /\ b'.state \in States
        /\ trs' \in [Goroutines -> Owed]
    BY <1>2, <1>4, <1>5, <2>1, UnlockWellFormed
  <2>3. probe' \in [Requests -> ProbeType] /\ probe'[r].gen <= b'.gen /\ ~probe'[r].probe
    BY <1>4, <1>7, <2>1, <2>2 DEF IInv, ControlTypeOK, ProbeType, NoProbe
  <2>4. ControlTypeOK'
    BY <1>5, <1>6, <2>2, <2>3 DEF ControlTypeOK, ProbeType
  <2>5. \A q \in Requests : probe'[q].gen <= b'.gen
    BY <1>7, <2>2, <2>3, SMTT(30) DEF IInv, ControlTypeOK
  <2>6. \A q \in Requests : pc'[q] \in {"idle", "locking", "refused"} => ~probe'[q].probe
    BY <1>7, <2>3 DEF IInv
  <2>7. SameControl(b, x)
    BY <1>1, <1>9, HalfOpenMaxPositive DEF Moved, HasSlot
  <2>8. probe[r] # ProbeOf(b) /\ probe'[r] # ProbeOf(b)
    BY <1>4, <2>3 DEF IInv, ProbeOf
  <2>9. ProbeOf(b)' = ProbeOf(b)
    BY <2>2, <2>7 DEF SameControl, ProbeOf
  <2>10. Outstanding' = Outstanding /\ Won' = Won
    BY <1>7, <2>8, <2>9 DEF Outstanding, Won
  <2>11. ProbeAccounting'
    BY <2>2, <2>7, <2>10, AccountSame DEF SameControl
  <2> QED BY <2>2, <2>4, <2>5, <2>6, <2>11 DEF IInv, MirrorAgrees, Owed
<1> QED BY <1>8, <1>9

LEMMA ResolveKeeps ==
  ASSUME IInv, NEW r \in Requests, NEW f \in BOOLEAN, Resolve(r, f)
  PROVE  IInv'
<1> DEFINE y == record(b, f, probe[r], now)
           end == IF f THEN "failed" ELSE "succeeded"
<1>1. /\ pc[r] \in Unresolved /\ Unlock(r, y) /\ Goto(r, end)
      /\ probe' = probe /\ now' = now
  BY DEF Resolve
<1>2. probe[r] \in ProbeType /\ probe[r].gen \in Nat /\ probe[r].gen <= b.gen
      /\ b.gen \in Nat /\ DOMAIN b = Fields
  BY DEF IInv, ControlTypeOK, ProbeType
<1>3. \/ ~Current(b, probe[r]) /\ SameControl(b, y)
      \/ b.state = StateOpen /\ Moved(b, y, StateHalfOpen)
      \/ b.state = StateClosed /\ Moved(b, y, StateOpen)
      \/ Current(b, probe[r]) /\ f /\ Moved(b, y, StateOpen)
      \/ /\ Current(b, probe[r]) /\ ~f /\ b.successes + 1 >= set.HalfOpenMax
         /\ Moved(b, y, StateClosed)
      \/ /\ Current(b, probe[r]) /\ ~f /\ ~(b.successes + 1 >= set.HalfOpenMax)
         /\ Returned(b, y, b.successes + 1)
  BY <1>2, RecordCases
<1> HIDE DEF y
<1>4. WellFormed(y)
  <2>1. b.successes + 1 \in Nat
    BY SMTT(60) DEF IInv, ControlTypeOK
  <2> QED BY <1>3, <2>1, SectionWellFormed DEF States
<1>5. r \in Goroutines /\ now' \in 0 .. MaxTime
  BY <1>1 DEF Goroutines, IInv, ControlTypeOK
<1>6. /\ DOMAIN b' = Fields /\ b'.state = y.state /\ b'.fastState = y.state
      /\ b'.state \in States
      /\ b'.probes = y.probes /\ b'.successes = y.successes
      /\ b'.probes \in Nat /\ b'.successes \in Nat
      /\ b'.gen = y.gen /\ b'.gen \in Nat /\ b'.gen >= b.gen /\ b'.trs = <<>>
      /\ trs' \in [Goroutines -> Owed]
  BY <1>1, <1>4, <1>5, UnlockWellFormed
<1>7. /\ pc' \in [Goroutines -> {"idle", "locking"} \cup Unresolved \cup Resolved]
      /\ pc'[r] = end /\ \A q \in Requests \ {r} : pc'[q] = pc[q]
  BY <1>1, <1>5 DEF IInv, ControlTypeOK, Goto, Goroutines, Resolved
<1>8. ControlTypeOK'
  BY <1>1, <1>5, <1>6, <1>7 DEF IInv, ControlTypeOK
<1>9. \A q \in Requests : probe'[q].gen <= b'.gen
  BY <1>1, <1>6 DEF IInv, ControlTypeOK
<1>10. \A q \in Requests : pc'[q] \in {"idle", "locking", "refused"} => ~probe'[q].probe
  BY <1>1, <1>7 DEF IInv
<1>11. ProbeAccounting'
  <2>1. CASE ~Current(b, probe[r]) /\ SameControl(b, y)
    <3>1. CASE b.state = StateHalfOpen
      <4>1. probe[r] # ProbeOf(b) /\ ProbeOf(b)' = ProbeOf(b)
        BY <1>2, <1>6, <2>1, <3>1, CurrentIsOwn DEF SameControl, ProbeOf
      <4>2. Outstanding' = Outstanding /\ Won' = Won
        BY <1>1, <1>7, <4>1 DEF Outstanding, Won
      <4> QED BY <1>6, <2>1, <4>2, AccountSame DEF SameControl
    <3>2. CASE b.state # StateHalfOpen
      BY <1>6, <2>1, <3>2, AccountLeft DEF IInv, ProbeAccounting, SameControl
    <3> QED BY <3>1, <3>2
  <2>2. CASE b.state = StateOpen /\ Moved(b, y, StateHalfOpen)
    BY <1>1, <1>6, <2>2, AccountEntered DEF Moved
  <2>3. CASE Moved(b, y, StateOpen) \/ Moved(b, y, StateClosed)
    BY <1>6, <2>3, AccountLeft, SMTT(30) DEF Moved, StateOpen, StateClosed, StateHalfOpen
  <2>4. CASE /\ Current(b, probe[r]) /\ ~f /\ ~(b.successes + 1 >= set.HalfOpenMax)
             /\ Returned(b, y, b.successes + 1)
    <3>1. probe[r] = ProbeOf(b) /\ b.state = StateHalfOpen
      BY <1>2, <2>4, CurrentIsOwn, SMTT(30)
    <3>2. pc[r] = "running"
      BY <1>1, <3>1, SMTT(60) DEF IInv, Unresolved, ProbeOf
    <3>3. ProbeOf(b)' = ProbeOf(b)
      BY <1>6, <2>4 DEF Returned, ProbeOf
    <3>4. /\ Outstanding' = Outstanding \ {r} /\ r \in Outstanding
          /\ Won' = Won \cup {r} /\ r \notin Won
      BY <1>1, <1>7, <2>4, <3>1, <3>2, <3>3 DEF Outstanding, Won
    <3>5. /\ Cardinality(Outstanding') = Cardinality(Outstanding) - 1
          /\ Cardinality(Won') = Cardinality(Won) + 1
      BY <3>4, CountsFinite, FS_AddElement, FS_RemoveElement, ZenonT(30)
    <3>6. Cardinality(Outstanding) # 0
      BY <3>4, CountsFinite, FS_EmptySet
    <3> QED BY <1>6, <2>4, <3>1, <3>5, <3>6, CountsFinite, HalfOpenMaxPositive, SMTT(60)
            DEF IInv, ProbeAccounting, Returned, Dec
  <2> QED BY <1>3, <2>1, <2>2, <2>3, <2>4
<1> QED BY <1>6, <1>8, <1>9, <1>10, <1>11 DEF IInv, MirrorAgrees, Owed

LEMMA ReleaseKeeps ==
  ASSUME IInv, NEW r \in Requests, Release(r)
  PROVE  IInv'
<1>1. /\ pc[r] \in Unresolved /\ b' = release(b, probe[r]) /\ Goto(r, "released")
      /\ probe' = probe /\ now' = now /\ trs' = trs
  BY DEF Release
<1>2. probe[r] \in ProbeType /\ DOMAIN b = Fields /\ r \in Goroutines
  BY DEF IInv, ControlTypeOK, ProbeType, Goroutines
<1>3. /\ pc' \in [Goroutines -> {"idle", "locking"} \cup Unresolved \cup Resolved]
      /\ pc'[r] = "released" /\ \A q \in Requests \ {r} : pc'[q] = pc[q]
  BY <1>1, <1>2 DEF IInv, ControlTypeOK, Goto, Goroutines, Resolved
<1>4. CASE Current(b, probe[r]) /\ b.probes > 0
  <2>1. Returned(b, b', b.successes)
    BY <1>1, <1>2, <1>4 DEF release, Returned, Dec, Fields
  <2>2. probe[r] = ProbeOf(b) /\ b.state = StateHalfOpen
    BY <1>2, <1>4, CurrentIsOwn
  <2>3. pc[r] = "running"
    BY <1>1, <2>2, SMTT(60) DEF IInv, Unresolved, ProbeOf
  <2>4. ProbeOf(b)' = ProbeOf(b)
    BY <2>1 DEF Returned, ProbeOf
  <2>5. Outstanding' = Outstanding \ {r} /\ r \in Outstanding /\ Won' = Won
    BY <1>1, <1>3, <2>2, <2>3, <2>4 DEF Outstanding, Won
  <2>6. Cardinality(Outstanding') = Cardinality(Outstanding) - 1
    BY <2>5, CountsFinite, FS_RemoveElement, ZenonT(30)
  <2>7. ProbeAccounting'
    BY <1>4, <2>1, <2>2, <2>5, <2>6, CountsFinite, HalfOpenMaxPositive, SMTT(60)
       DEF IInv, ProbeAccounting, Returned, Dec
  <2> QED BY <1>1, <1>3, <1>4, <2>1, <2>7
          DEF IInv, ControlTypeOK, MirrorAgrees, Returned, Dec
<1>5. CASE ~(Current(b, probe[r]) /\ b.probes > 0)
  <2>1. b' = b
    BY <1>1, <1>5 DEF release
  <2>2. ProbeAccounting'
    <3>1. CASE b.state = StateHalfOpen /\ probe[r] = ProbeOf(b) /\ pc[r] = "running"
      <4>1. r \in Outstanding
        BY <3>1 DEF Outstanding
      <4>2. Cardinality(Outstanding) # 0
        BY <4>1, CountsFinite, FS_EmptySet
      <4>3. b.probes > 0
        BY <3>1, <4>2, CountsFinite DEF IInv, ProbeAccounting
      <4> QED BY <1>2, <1>5, <3>1, <4>3, CurrentIsOwn
    <3>2. CASE b.state # StateHalfOpen
      BY <2>1, <3>2, AccountLeft DEF IInv, ProbeAccounting
    <3>3. CASE b.state = StateHalfOpen /\ ~(probe[r] = ProbeOf(b) /\ pc[r] = "running")
      <4>1. Outstanding' = Outstanding /\ Won' = Won
        BY <1>1, <1>3, <2>1, <3>3 DEF Outstanding, Won, Unresolved
      <4> QED BY <2>1, <4>1, AccountSame
    <3> QED BY <3>1, <3>2, <3>3
  <2> QED BY <1>1, <1>3, <2>1, <2>2 DEF IInv, ControlTypeOK, MirrorAgrees
<1> QED BY <1>4, <1>5

\* A poller's critical section never touches a request, so what it does to
\* the control state decides.
LEMMA PollerSectionKeeps ==
  ASSUME IInv, NEW p \in Pollers, NEW y, WellFormed(y), Unlock(p, y),
         \/ SameControl(b, y)
         \/ Moved(b, y, StateHalfOpen)
         \/ y.state = StateClosed /\ y.probes = 0 /\ y.successes = 0,
         pc' \in [Goroutines -> {"idle", "locking"} \cup Unresolved \cup Resolved],
         \A q \in Requests : pc'[q] = pc[q],
         probe' = probe, now' = now
  PROVE  IInv'
<1>1. p \in Goroutines /\ now' \in 0 .. MaxTime
  BY DEF Goroutines, IInv, ControlTypeOK
<1>2. /\ DOMAIN b' = Fields /\ b'.state = y.state /\ b'.fastState = y.state
      /\ b'.state \in States
      /\ b'.probes = y.probes /\ b'.successes = y.successes
      /\ b'.probes \in Nat /\ b'.successes \in Nat
      /\ b'.gen = y.gen /\ b'.gen \in Nat /\ b'.gen >= b.gen /\ b'.trs = <<>>
      /\ trs' \in [Goroutines -> Owed]
  BY <1>1, UnlockWellFormed
<1>3. ControlTypeOK'
  BY <1>1, <1>2 DEF IInv, ControlTypeOK
<1>4. \A q \in Requests : probe'[q].gen <= b'.gen
  BY <1>2, SMTT(60) DEF IInv, ControlTypeOK
<1>5. ProbeAccounting'
  <2>1. CASE SameControl(b, y)
    <3>1. ProbeOf(b)' = ProbeOf(b)
      BY <1>2, <2>1 DEF SameControl, ProbeOf
    <3>2. Outstanding' = Outstanding /\ Won' = Won
      BY <3>1 DEF Outstanding, Won
    <3> QED BY <1>2, <2>1, <3>2, AccountSame DEF SameControl
  <2>2. CASE Moved(b, y, StateHalfOpen)
    BY <1>2, <2>2, AccountEntered DEF Moved
  <2>3. CASE y.state = StateClosed /\ y.probes = 0 /\ y.successes = 0
    BY <1>2, <2>3, AccountLeft DEF StateClosed, StateHalfOpen
  <2> QED BY <2>1, <2>2, <2>3, SMTT(30)
<1> QED BY <1>2, <1>3, <1>4, <1>5 DEF IInv, MirrorAgrees, Owed

LEMMA PollerKeeps ==
  ASSUME IInv, NEW p \in Pollers, PollStep(p)
  PROVE  IInv'
<1>1. p \in Goroutines /\ \A q \in Requests : q # p /\ q \in Goroutines
  BY BreakerAssumption DEF Goroutines
<1>2. /\ DOMAIN b = Fields
      /\ pc \in [Goroutines -> {"idle", "locking"} \cup Unresolved \cup Resolved]
  BY DEF IInv, ControlTypeOK
<1>3. CASE PollSlow(p)
  <2>1. /\ UNCHANGED <<b, now, probe, trs>>
        /\ pc' \in [Goroutines -> {"idle", "locking"} \cup Unresolved \cup Resolved]
        /\ \A q \in Requests : pc'[q] = pc[q]
    BY <1>1, <1>2, <1>3 DEF PollSlow, Goto
  <2>2. Outstanding' = Outstanding /\ Won' = Won
    BY <2>1 DEF Outstanding, Won, ProbeOf
  <2>3. ProbeAccounting'
    BY <2>1, <2>2, AccountSame
  <2> QED BY <2>1, <2>3 DEF IInv, ControlTypeOK, MirrorAgrees
<1>4. CASE Poll(p)
  <2> DEFINE y == refreshLocked(b, now)
  <2>1. SameControl(b, y) \/ (b.state = StateOpen /\ Moved(b, y, StateHalfOpen))
    BY <1>2, RefreshMoves
  <2>2. WellFormed(y)
    BY <2>1, SectionWellFormed DEF States
  <2>3. /\ Unlock(p, y) /\ probe' = probe /\ now' = now
        /\ pc' \in [Goroutines -> {"idle", "locking"} \cup Unresolved \cup Resolved]
        /\ \A q \in Requests : pc'[q] = pc[q]
    BY <1>1, <1>2, <1>4 DEF Poll, Goto
  <2> HIDE DEF y
  <2> QED BY <2>1, <2>2, <2>3, PollerSectionKeeps
<1>5. CASE PollCounts(p)
  <2>1. SameControl(b, b') /\ UNCHANGED <<now, pc, probe, trs>>
    BY <1>2, <1>5, AdvanceSame DEF PollCounts, Counts
  <2>2. Outstanding' = Outstanding /\ Won' = Won
    BY <2>1 DEF SameControl, Outstanding, Won, ProbeOf
  <2>3. ProbeAccounting'
    BY <2>1, <2>2, AccountSame DEF SameControl
  <2> QED BY <2>1, <2>3 DEF IInv, ControlTypeOK, MirrorAgrees, SameControl
<1>6. CASE PollReset(p)
  <2> DEFINE y == Reset(b, now)
  <2>1. \/ Moved(b, y, StateClosed)
        \/ /\ b.state = StateClosed /\ DOMAIN y = Fields
           /\ y.state = b.state /\ y.fastState = b.fastState
           /\ y.gen = b.gen /\ y.trs = b.trs /\ y.probes = 0 /\ y.successes = 0
    BY <1>2, ResetCases
  <2>2. Unlock(p, y) /\ UNCHANGED <<now, pc, probe>>
    BY <1>6 DEF PollReset
  <2> HIDE DEF y
  <2>3. WellFormed(y)
    <3>1. CASE Moved(b, y, StateClosed)
      BY <3>1, SectionWellFormed DEF States
    <3>2. CASE ~Moved(b, y, StateClosed)
      BY <2>1, <3>2 DEF IInv, ControlTypeOK, MirrorAgrees, WellFormed, Owed
    <3> QED BY <3>1, <3>2
  <2>4. y.state = StateClosed /\ y.probes = 0 /\ y.successes = 0
    BY <2>1 DEF Moved
  <2> QED BY <1>2, <2>2, <2>3, <2>4, PollerSectionKeeps
<1> QED BY <1>3, <1>4, <1>5, <1>6 DEF PollStep

LEMMA RequestKeeps ==
  ASSUME IInv, NEW r \in Requests, Step(r)
  PROVE  IInv'
<1>1. CASE AdmitFast(r) \/ AdmitSlow(r) \/ Unattributed(r) \/ Abandon(r)
  <2>1. /\ pc[r] \in {"idle", "locking", "refused"} /\ UNCHANGED <<b, now, probe, trs>>
        /\ \E to \in {"locking", "running", "abandoned"} : Goto(r, to)
    BY <1>1 DEF AdmitFast, AdmitSlow, Unattributed, Abandon, At
  <2> QED BY <2>1, MoveOutsideEpisode
<1>2. CASE Admit(r)
  BY <1>2, AdmitKeeps
<1>3. CASE Success(r) \/ Failure(r)
  BY <1>3, ResolveKeeps, ZenonT(30) DEF Success, Failure
<1>4. CASE Release(r)
  BY <1>4, ReleaseKeeps
<1> QED BY <1>1, <1>2, <1>3, <1>4 DEF Step

LEMMA QuietKeeps ==
  ASSUME IInv, Tick \/ (\E g \in Goroutines : Fire(g)) \/ UNCHANGED vars
  PROVE  IInv'
<1>1. /\ UNCHANGED <<b, pc, probe>> /\ now' \in 0 .. MaxTime
      /\ trs' \in [Goroutines -> {<<>>} \cup {<<t>> : t \in TransitionRecord}]
  <2>1. CASE Tick
    BY <2>1, BreakerAssumption DEF Tick, IInv, ControlTypeOK
  <2>2. ASSUME NEW g \in Goroutines, Fire(g)
        PROVE  /\ UNCHANGED <<b, pc, probe>> /\ now' \in 0 .. MaxTime
               /\ trs' \in [Goroutines -> {<<>>} \cup {<<t>> : t \in TransitionRecord}]
    <3>1. PICK t \in TransitionRecord : trs[g] = <<t>>
      BY <2>2 DEF Fire, IInv
    <3>2. Tail(trs[g]) = <<>>
      BY <3>1, OneElement
    <3> QED BY <2>2, <3>2 DEF Fire, IInv, ControlTypeOK
  <2>3. CASE UNCHANGED vars
    BY <2>3 DEF vars, IInv, ControlTypeOK
  <2> QED BY <2>1, <2>2, <2>3
<1>2. Outstanding' = Outstanding /\ Won' = Won
  BY <1>1 DEF Outstanding, Won, ProbeOf
<1>3. ProbeAccounting'
  BY <1>1, <1>2, AccountSame
<1> QED BY <1>1, <1>3 DEF IInv, ControlTypeOK, MirrorAgrees

LEMMA NextInv == IInv /\ [Next]_vars => IInv'
  BY RequestKeeps, PollerKeeps, QuietKeeps DEF Next

LEMMA Inductive == Spec => []IInv
  BY InitInv, NextInv, PTL DEF Spec

-----------------------------------------------------------------------------
(* The theorems about slots.                                               *)

\* The mirror that the fast path reads always equals the state.
THEOREM MirrorTheorem == Spec => []MirrorAgrees
  BY Inductive, PTL DEF IInv

\* The slots in use are exactly the unresolved probes of this episode, and at
\* most HalfOpenMax; the successes are exactly this episode's.
THEOREM AccountingTheorem == Spec => []ProbeAccounting
  BY Inductive, PTL DEF IInv

\* No critical section makes two transitions.
THEOREM OneTransitionTheorem == Spec => []OneTransitionPerSection
<1>1. IInv => OneTransitionPerSection
  <2> SUFFICES ASSUME IInv, NEW g \in Goroutines PROVE Len(trs[g]) <= 1
    BY DEF OneTransitionPerSection
  <2>1. trs[g] = <<>> \/ \E t \in TransitionRecord : trs[g] = <<t>>
    BY DEF IInv
  <2>2. Len(<<>>) = 0 /\ \A t \in TransitionRecord : Len(<<t>>) = 1
    BY OneElement
  <2>3. Len(trs[g]) = 0 \/ Len(trs[g]) = 1
    BY <2>1, <2>2, Zenon
  <2>4. 0 <= 1 /\ 1 <= 1
    BY SMTT(30)
  <2> QED BY <2>3, <2>4, Zenon
<1> QED BY <1>1, Inductive, PTL

\* What an outcome does to state and episode.
LEMMA ResolveJudges ==
  ASSUME IInv, NEW r \in Requests, NEW f \in BOOLEAN, Resolve(r, f)
  PROVE  /\ probe' = probe
         /\ pc' = [pc EXCEPT ![r] = IF f THEN "failed" ELSE "succeeded"]
         /\ \/ /\ b'.state = b.state /\ b'.gen = b.gen
               /\ f => ~Current(b, probe[r])
            \/ b.state = StateOpen /\ b'.state = StateHalfOpen /\ b'.gen = b.gen + 1
            \/ b.state = StateClosed /\ b'.state = StateOpen
            \/ Current(b, probe[r]) /\ f /\ b'.state = StateOpen
            \/ /\ Current(b, probe[r]) /\ ~f /\ b.successes + 1 >= set.HalfOpenMax
               /\ b'.state = StateClosed
<1> DEFINE y == record(b, f, probe[r], now)
<1>1. probe[r].gen \in Nat /\ probe[r].gen <= b.gen /\ b.gen \in Nat /\ DOMAIN b = Fields
  BY SMTT(60) DEF IInv, ControlTypeOK
<1>2. \/ ~Current(b, probe[r]) /\ SameControl(b, y)
      \/ b.state = StateOpen /\ Moved(b, y, StateHalfOpen)
      \/ b.state = StateClosed /\ Moved(b, y, StateOpen)
      \/ Current(b, probe[r]) /\ f /\ Moved(b, y, StateOpen)
      \/ /\ Current(b, probe[r]) /\ ~f /\ b.successes + 1 >= set.HalfOpenMax
         /\ Moved(b, y, StateClosed)
      \/ /\ Current(b, probe[r]) /\ ~f /\ ~(b.successes + 1 >= set.HalfOpenMax)
         /\ Returned(b, y, b.successes + 1)
  BY <1>1, RecordCases, ZenonT(60)
<1> HIDE DEF y
<1>3. DOMAIN y = Fields
  BY <1>2 DEF SameControl, Moved, Returned
<1>4. b'.state = y.state /\ b'.gen = y.gen
  BY <1>3 DEF Resolve, Unlock, Unlocked, Fields, y
<1> QED BY <1>2, <1>4 DEF SameControl, Moved, Returned, Resolve, Goto

\* What every other step does to state and episode.
LEMMA OthersDoNotJudge ==
  ASSUME IInv, [Next]_vars, ~(\E r \in Requests, f \in BOOLEAN : Resolve(r, f))
  PROVE  \/ b'.state = b.state /\ b'.gen = b.gen
         \/ b.state = StateOpen /\ b'.state = StateHalfOpen /\ b'.gen = b.gen + 1
         \/ b'.state = StateClosed /\ pc' = pc
<1> DEFINE Goal == \/ b'.state = b.state /\ b'.gen = b.gen
                   \/ b.state = StateOpen /\ b'.state = StateHalfOpen /\ b'.gen = b.gen + 1
                   \/ b'.state = StateClosed /\ pc' = pc
<1>1. DOMAIN b = Fields
  BY DEF IInv
<1>2. CASE UNCHANGED b
  BY <1>2
<1>3. ASSUME NEW g, NEW y, Unlock(g, y), DOMAIN y = Fields
      PROVE  b'.state = y.state /\ b'.gen = y.gen
  BY <1>3 DEF Unlock, Unlocked, Fields
<1>4. ASSUME NEW r \in Requests, Admit(r) PROVE Goal
  <2> DEFINE x == refreshLocked(b, now)
             y == AdmitLocked(b, now).breaker
  <2>1. SameControl(b, x) \/ (b.state = StateOpen /\ Moved(b, x, StateHalfOpen))
    BY <1>1, RefreshMoves
  <2>2. y = (IF HasSlot(x) THEN [x EXCEPT !.probes = @ + 1] ELSE x) /\ Unlock(r, y)
    BY <1>4 DEF Admit, AdmitLocked
  <2> HIDE DEF x, y
  <2>3. DOMAIN y = Fields /\ y.state = x.state /\ y.gen = x.gen
    BY <2>1, <2>2 DEF SameControl, Moved, Fields
  <2> QED BY <1>3, <2>1, <2>2, <2>3, ZenonT(30) DEF SameControl, Moved
<1>5. ASSUME NEW r \in Requests, Release(r) PROVE Goal
  BY <1>1, <1>5 DEF Release, release, Fields
<1>6. ASSUME NEW p \in Pollers, Poll(p) PROVE Goal
  <2> DEFINE x == refreshLocked(b, now)
  <2>1. SameControl(b, x) \/ (b.state = StateOpen /\ Moved(b, x, StateHalfOpen))
    BY <1>1, RefreshMoves
  <2>2. Unlock(p, x)
    BY <1>6 DEF Poll
  <2> HIDE DEF x
  <2> QED BY <1>3, <2>1, <2>2 DEF SameControl, Moved
<1>7. ASSUME NEW p \in Pollers, PollCounts(p) PROVE Goal
  BY <1>1, <1>7, AdvanceSame DEF PollCounts, Counts, SameControl
<1>8. ASSUME NEW p \in Pollers, PollReset(p) PROVE Goal
  <2> DEFINE x == Reset(b, now)
  <2>1. DOMAIN x = Fields /\ x.state = StateClosed
    BY <1>1, ResetCases, ZenonT(30) DEF Moved
  <2>2. Unlock(p, x) /\ pc' = pc
    BY <1>8 DEF PollReset
  <2> HIDE DEF x
  <2> QED BY <1>3, <2>1, <2>2
<1>9. CASE Next
  <2>1. CASE Tick \/ \E g \in Goroutines : Fire(g)
    BY <1>2, <2>1 DEF Tick, Fire
  <2>2. ASSUME NEW r \in Requests, Step(r) PROVE Goal
    BY <1>2, <1>4, <1>5, <2>2, ZenonT(30)
       DEF Step, AdmitFast, AdmitSlow, Unattributed, Abandon, Success, Failure
  <2>3. ASSUME NEW p \in Pollers, PollStep(p) PROVE Goal
    BY <1>2, <1>6, <1>7, <1>8, <2>3 DEF PollStep, PollSlow
  <2> QED BY <1>9, <2>1, <2>2, <2>3 DEF Next
<1> QED BY <1>2, <1>9 DEF vars

\* Only an outcome of the episode's own probes, or Reset, ends an episode.
THEOREM AttributionTheorem == Spec => OnlyOwnProbesJudge
<1> DEFINE A == b.state = StateHalfOpen /\ b'.state # StateHalfOpen
                => \/ \E r \in Outstanding : pc'[r] \in {"succeeded", "failed"}
                   \/ pc' = pc /\ b'.state = StateClosed
<1>1. IInv /\ [Next]_vars => A
  <2> SUFFICES ASSUME IInv, [Next]_vars, b.state = StateHalfOpen, b'.state # StateHalfOpen
               PROVE  \/ \E r \in Outstanding : pc'[r] \in {"succeeded", "failed"}
                      \/ pc' = pc /\ b'.state = StateClosed
    OBVIOUS
  <2>1. CASE \E r \in Requests, f \in BOOLEAN : Resolve(r, f)
    <3>1. PICK r \in Requests, f \in BOOLEAN : Resolve(r, f)
      BY <2>1, SMTT(30)
    <3>2. Current(b, probe[r]) /\ pc'[r] \in {"succeeded", "failed"}
      BY <3>1, ResolveJudges, SMTT(60)
         DEF IInv, ControlTypeOK, Goroutines, StateHalfOpen, StateOpen, StateClosed
    <3>3. probe[r] = ProbeOf(b)
      BY <3>2, CurrentIsOwn DEF IInv, ControlTypeOK, ProbeType
    <3>4. pc[r] = "running"
      BY <3>1, <3>3, SMTT(60) DEF Resolve, IInv, Unresolved, ProbeOf
    <3> QED BY <3>2, <3>3, <3>4 DEF Outstanding
  <2>2. CASE ~(\E r \in Requests, f \in BOOLEAN : Resolve(r, f))
    BY <2>2, OthersDoNotJudge DEF StateHalfOpen, StateOpen, StateClosed
  <2> QED BY <2>1, <2>2
<1>2. IInv /\ [Next]_vars => [A]_vars
  BY <1>1
<1>3. [][Next]_vars /\ []IInv => [][A]_vars
  BY <1>2, PTL
<1> QED BY <1>3, Inductive, PTL DEF Spec, OnlyOwnProbesJudge

\* In half-open, no probe of the running episode has failed.
NoOwnFailure ==
    b.state = StateHalfOpen =>
        \A r \in Requests : ~(pc[r] = "failed" /\ probe[r] = ProbeOf(b))

\* A request becomes "failed" only through Resolve, and its probe is fixed
\* once it is let in.
LEMMA FailedOnlyByResolve ==
  ASSUME IInv, [Next]_vars, NEW r \in Requests, pc'[r] = "failed",
         ~(\E f \in BOOLEAN : Resolve(r, f))
  PROVE  pc[r] = "failed" /\ probe'[r] = probe[r]
<1> DEFINE Goal == pc[r] = "failed" /\ probe'[r] = probe[r]
<1>1. /\ pc \in [Goroutines -> {"idle", "locking"} \cup Unresolved \cup Resolved]
      /\ probe \in [Requests -> [probe : BOOLEAN, gen : Nat]]
      /\ \A q \in Requests : q \in Goroutines /\ q \notin Pollers
  BY BreakerAssumption DEF IInv, ControlTypeOK, Goroutines
<1>2. CASE UNCHANGED <<pc, probe>>
  BY <1>2
<1>3. ASSUME NEW q \in Requests, Step(q) PROVE Goal
  <2>1. CASE Admit(q)
    BY <1>1, <2>1 DEF Admit, Goto
  <2>2. CASE Success(q) \/ Failure(q)
    <3>1. \E f \in BOOLEAN : Resolve(q, f)
      BY <2>2, ZenonT(30) DEF Success, Failure
    <3>2. q # r /\ probe' = probe /\ \E to : Goto(q, to)
      BY <3>1 DEF Resolve
    <3> QED BY <1>1, <3>2 DEF Goto
  <2>3. CASE AdmitFast(q) \/ AdmitSlow(q) \/ Unattributed(q) \/ Abandon(q) \/ Release(q)
    BY <1>1, <2>3 DEF AdmitFast, AdmitSlow, Unattributed, Abandon, Release, Goto
  <2> QED BY <1>3, <2>1, <2>2, <2>3 DEF Step
<1>4. ASSUME NEW p \in Pollers, PollStep(p) PROVE Goal
  BY <1>1, <1>4 DEF PollStep, PollSlow, Poll, PollCounts, PollReset, Goto
<1>5. CASE Tick \/ \E g \in Goroutines : Fire(g)
  BY <1>2, <1>5 DEF Tick, Fire
<1> QED BY <1>2, <1>3, <1>4, <1>5 DEF Next, vars

LEMMA NoOwnFailureInductive == Spec => []NoOwnFailure
<1>1. Init => NoOwnFailure
  BY DEF Init, NoOwnFailure, Goroutines
<1>2. IInv /\ NoOwnFailure /\ [Next]_vars => NoOwnFailure'
  <2> SUFFICES ASSUME IInv, NoOwnFailure, [Next]_vars, b'.state = StateHalfOpen,
                      NEW r \in Requests, pc'[r] = "failed", probe'[r] = ProbeOf(b)'
               PROVE  FALSE
    BY DEF NoOwnFailure
  <2>1. probe[r] \in ProbeType /\ b.gen \in Nat /\ probe[r].gen <= b.gen
    BY DEF IInv, ControlTypeOK, ProbeType
  <2>2. \A g : g = b.gen + 1 => probe[r] # [probe |-> TRUE, gen |-> g]
    BY <2>1 DEF ProbeType
  <2>3. CASE \E f \in BOOLEAN : Resolve(r, f)
    <3>1. PICK f \in BOOLEAN : Resolve(r, f)
      BY <2>3, SMTT(30)
    <3>2. f
      BY <3>1, ResolveJudges DEF IInv, ControlTypeOK, Goroutines
    <3>3. probe[r] = ProbeOf(b)'
      BY <3>1, ResolveJudges
    <3>4. b'.gen # b.gen + 1
      BY <2>2, <3>3 DEF ProbeOf
    <3>5. b'.state = b.state /\ b'.gen = b.gen /\ ~Current(b, probe[r])
      BY <3>1, <3>2, <3>4, ResolveJudges, ZenonT(30) DEF StateHalfOpen, StateOpen, StateClosed
    <3> QED BY <2>1, <3>3, <3>5, CurrentIsOwn DEF ProbeOf
  <2>4. CASE ~(\E f \in BOOLEAN : Resolve(r, f))
    <3>1. pc[r] = "failed" /\ probe'[r] = probe[r]
      BY <2>4, FailedOnlyByResolve
    <3>2. b'.gen # b.gen + 1
      BY <2>2, <3>1 DEF ProbeOf
    <3>3. b'.state = b.state /\ b'.gen = b.gen
      BY <3>2, ResolveJudges, OthersDoNotJudge DEF StateHalfOpen, StateOpen, StateClosed
    <3> QED BY <3>1, <3>3 DEF NoOwnFailure, ProbeOf
  <2> QED BY <2>3, <2>4
<1> QED BY <1>1, <1>2, Inductive, PTL DEF Spec

\* A recovery is earned by HalfOpenMax successes of its own episode, unopposed.
THEOREM RecoveryTheorem == Spec => RecoveryEarned
<1> DEFINE A == b.state = StateHalfOpen /\ b'.state = StateClosed /\ pc' # pc
                => LET Mine(end) == {r \in Requests : pc'[r] = end /\ probe[r] = ProbeOf(b)}
                   IN  Cardinality(Mine("succeeded")) = set.HalfOpenMax /\ Mine("failed") = {}
<1>1. IInv /\ NoOwnFailure /\ [Next]_vars => A
  <2> SUFFICES ASSUME IInv, NoOwnFailure, [Next]_vars, b.state = StateHalfOpen,
                      b'.state = StateClosed, pc' # pc
               PROVE  LET Mine(end) == {r \in Requests : pc'[r] = end /\ probe[r] = ProbeOf(b)}
                      IN  Cardinality(Mine("succeeded")) = set.HalfOpenMax /\ Mine("failed") = {}
    OBVIOUS
  <2>1. PICK r \in Requests, f \in BOOLEAN : Resolve(r, f)
    BY OthersDoNotJudge DEF StateHalfOpen, StateOpen, StateClosed
  <2>2. /\ Current(b, probe[r]) /\ ~f /\ b.successes + 1 >= set.HalfOpenMax
        /\ pc' = [pc EXCEPT ![r] = "succeeded"]
    BY <2>1, ResolveJudges DEF StateHalfOpen, StateOpen, StateClosed
  <2>3. probe[r] = ProbeOf(b)
    BY <2>2, CurrentIsOwn, SMTT(30) DEF IInv, ControlTypeOK, ProbeType
  <2>4. pc[r] = "running"
    BY <2>1, <2>3, SMTT(60) DEF Resolve, IInv, Unresolved, ProbeOf
  <2>5. pc'[r] = "succeeded" /\ \A q \in Requests \ {r} : pc'[q] = pc[q]
    BY <2>2 DEF IInv, ControlTypeOK, Goroutines
  <2>6. {q \in Requests : pc'[q] = "succeeded" /\ probe[q] = ProbeOf(b)} = Won \cup {r}
        /\ r \notin Won
    BY <2>3, <2>4, <2>5 DEF Won
  <2>7. {q \in Requests : pc'[q] = "failed" /\ probe[q] = ProbeOf(b)} = {}
    BY <2>5, SMTT(30) DEF NoOwnFailure
  <2>8. Cardinality(Won \cup {r}) = Cardinality(Won) + 1
    BY <2>6, CountsFinite, FS_AddElement, ZenonT(30)
  <2>9. b.successes = Cardinality(Won) /\ b.successes < set.HalfOpenMax
    BY DEF IInv, ProbeAccounting
  <2>10. Cardinality(Won \cup {r}) = set.HalfOpenMax
    BY <2>2, <2>8, <2>9, CountsFinite, HalfOpenMaxPositive
  <2> QED BY <2>6, <2>7, <2>10
<1>2. IInv /\ NoOwnFailure /\ [Next]_vars => [A]_vars
  BY <1>1
<1>3. [][Next]_vars /\ []IInv /\ []NoOwnFailure => [][A]_vars
  BY <1>2, PTL
<1> QED BY <1>3, Inductive, NoOwnFailureInductive, PTL DEF Spec, RecoveryEarned

-----------------------------------------------------------------------------
(* Types of the window and the clocks.                                     *)

Count == [requests : Nat, failures : Nat]

\* The window and the instants of x are in range at instant t.
WindowOK(x, t) ==
    /\ x.buckets \in [Slots -> Count]
    /\ x.idx \in Slots
    /\ x.start \in 0 .. t
    /\ x.openedAt \in 0 .. t

LEMMA BucketsPositive ==
  /\ set.Buckets \in Nat /\ set.Buckets >= 1
  /\ BucketDur \in Nat /\ BucketDur >= 1
<1>1. set.Buckets \in Nat /\ set.Buckets >= 1 /\ set.Window \in Int
  BY SettingsAssumption DEF set, Normalize, AtLeastOne, DefaultWindow
<1>2. set.Window \div set.Buckets \in Int
  BY <1>1
<1> QED BY <1>1, <1>2 DEF BucketDur, AtLeastOne

LEMMA ClearWindow ==
  ASSUME NEW t \in Nat, NEW x, DOMAIN x = Fields, WindowOK(x, t)
  PROVE  WindowOK(clearLocked(x, t), t)
<1>1. 0 \in Slots /\ Zero \in Count
  BY BucketsPositive DEF Slots, Zero, Count
<1> QED BY <1>1 DEF WindowOK, clearLocked, Fields

\* e whole buckets of length d fit into the time they are counted from.
LEMMA DivFits ==
  ASSUME NEW e \in Nat, NEW d \in Nat, d >= 1
  PROVE  e \div d \in Nat /\ (e \div d) * d <= e /\ (e \div d) * d \in Nat
  OBVIOUS

LEMMA ModFits ==
  ASSUME NEW e \in Nat, NEW d \in Nat, d >= 1
  PROVE  e % d \in 0 .. d - 1
  OBVIOUS

LEMMA AdvanceWindow ==
  ASSUME NEW t \in Nat, NEW x, DOMAIN x = Fields, WindowOK(x, t)
  PROVE  WindowOK(advanceLocked(x, t), t)
<1> DEFINE e == t - x.start
           n == e \div BucketDur
           S == Retired(x, n)
           kept == [i \in Slots |-> IF i \in S THEN Zero ELSE x.buckets[i]]
<1>1. e \in Nat /\ x.start \in Nat /\ x.idx \in Nat
  BY DEF WindowOK, Slots
<1>2. n \in Nat /\ n * BucketDur <= e /\ n * BucketDur \in Nat
  BY <1>1, BucketsPositive, DivFits
<1>3. (x.idx + n) % set.Buckets \in Slots
  <2>1. x.idx + n \in Nat
    BY <1>1, <1>2
  <2> HIDE DEF n
  <2> QED BY <2>1, BucketsPositive, ModFits, ZenonT(30) DEF Slots
<1>4. x.start + n * BucketDur \in 0 .. t
  <2> DEFINE d == n * BucketDur
  <2>1. d \in Nat /\ d <= t - x.start
    BY <1>2
  <2> HIDE DEF d
  <2>2. x.start + d \in 0 .. t
    BY <1>1, <2>1
  <2> QED BY <2>2 DEF d
<1>5. kept \in [Slots -> Count]
  BY DEF WindowOK, Zero, Count
<1>6. CASE n < 1
  BY <1>6 DEF advanceLocked
<1>7. CASE ~(n < 1) /\ n >= set.Buckets
  BY <1>7, ClearWindow DEF advanceLocked
<1>8. CASE ~(n < 1) /\ ~(n >= set.Buckets)
  <2>1. advanceLocked(x, t)
          = [x EXCEPT !.idx = (@ + n) % set.Buckets,
                      !.total = Minus(@, x.buckets, S),
                      !.buckets = [i \in Slots |-> IF i \in S THEN Zero ELSE @[i]],
                      !.start = @ + n * BucketDur]
    BY <1>8 DEF advanceLocked
  <2> DEFINE y == advanceLocked(x, t)
  <2>2. /\ y.idx = (x.idx + n) % set.Buckets /\ y.buckets = kept
        /\ y.start = x.start + n * BucketDur /\ y.openedAt = x.openedAt
    <3> HIDE DEF n, S
    <3> QED BY <2>1 DEF Fields
  <2> HIDE DEF y, n, kept
  <2>3. WindowOK(y, t)
    BY <1>3, <1>4, <1>5, <2>2 DEF WindowOK
  <2> QED BY <2>3 DEF y
<1> QED BY <1>6, <1>7, <1>8

LEMMA CountWindow ==
  ASSUME NEW t \in Nat, NEW x, NEW f \in BOOLEAN, DOMAIN x = Fields, WindowOK(x, t)
  PROVE  WindowOK(countLocked(x, f), t)
<1> DEFINE one == IF f THEN 1 ELSE 0
           Plus(c) == [requests |-> c.requests + 1, failures |-> c.failures + one]
           y == countLocked(x, f)
<1>1. \A c \in Count : Plus(c) \in Count
  BY DEF Count
<1>2. /\ y.buckets = [x.buckets EXCEPT ![x.idx] = Plus(@)] /\ y.idx = x.idx
      /\ y.start = x.start /\ y.openedAt = x.openedAt
  BY DEF countLocked, Fields
<1> HIDE DEF Plus, y
<1>3. WindowOK(y, t)
  BY <1>1, <1>2 DEF WindowOK
<1> QED BY <1>3 DEF y

LEMMA SetStateWindow ==
  ASSUME NEW t \in Nat, NEW x, NEW to \in States, DOMAIN x = Fields, WindowOK(x, t)
  PROVE  WindowOK(setStateLocked(x, to, t), t)
<1> DEFINE a == [x EXCEPT !.state = to, !.fastState = to,
                          !.probes = 0, !.successes = 0,
                          !.trs = Append(@, [from |-> x.state, to |-> to])]
<1>1. setStateLocked(x, to, t) = IF x.state = to THEN x ELSE EnterState(a, to, t)
  BY DEF setStateLocked
<1>2. DOMAIN a = Fields /\ WindowOK(a, t)
  BY DEF Fields, WindowOK
<1> HIDE DEF a
<1>3. CASE to = StateHalfOpen
  <2>1. EnterState(a, to, t) = [a EXCEPT !.gen = @ + 1]
    BY <1>3 DEF EnterState, StateHalfOpen, StateOpen, StateClosed
  <2> QED BY <1>1, <1>2, <2>1 DEF WindowOK, Fields
<1>4. CASE to = StateOpen
  <2>1. EnterState(a, to, t) = [a EXCEPT !.openedAt = t]
    BY <1>4 DEF EnterState, StateHalfOpen, StateOpen, StateClosed
  <2> QED BY <1>1, <1>2, <2>1 DEF WindowOK, Fields
<1>5. CASE to = StateClosed
  <2>1. EnterState(a, to, t) = clearLocked(a, t)
    BY <1>5 DEF EnterState, StateHalfOpen, StateOpen, StateClosed
  <2> QED BY <1>1, <1>2, <2>1, ClearWindow
<1> QED BY <1>3, <1>4, <1>5 DEF States

\* Every section keeps the window in range and the fields in place.
Ranged(y, t) == DOMAIN y = Fields /\ WindowOK(y, t)

LEMMA SetStateRanged ==
  ASSUME NEW t \in Nat, NEW x, NEW to \in States, Ranged(x, t)
  PROVE  Ranged(setStateLocked(x, to, t), t)
<1>1. CASE x.state = to
  BY <1>1 DEF setStateLocked
<1>2. CASE x.state # to
  BY <1>2, SetStateMoves, SetStateWindow, ZenonT(30) DEF Ranged, Moved
<1> QED BY <1>1, <1>2

LEMMA RefreshRanged ==
  ASSUME NEW t \in Nat, NEW x, Ranged(x, t)
  PROVE  Ranged(refreshLocked(x, t), t)
<1> DEFINE a == advanceLocked(x, t)
<1>1. Ranged(a, t)
  BY AdvanceSame, AdvanceWindow DEF Ranged, SameControl
<1>2. refreshLocked(x, t) = a \/ refreshLocked(x, t) = setStateLocked(a, StateHalfOpen, t)
  BY DEF refreshLocked
<1> HIDE DEF a
<1> QED BY <1>1, <1>2, SetStateRanged DEF States

LEMMA RecordRanged ==
  ASSUME NEW t \in Nat, NEW x, NEW f \in BOOLEAN, NEW p, Ranged(x, t)
  PROVE  Ranged(record(x, f, p, t), t)
<1> DEFINE a == refreshLocked(x, t)
           c == countLocked(a, f)
           r == [c EXCEPT !.probes = IF @ > 0 THEN @ - 1 ELSE @]
           s == [r EXCEPT !.successes = @ + 1]
           y == record(x, f, p, t)
<1>1. Ranged(a, t)
  BY RefreshRanged
<1>2. Ranged(c, t)
  <2> HIDE DEF a
  <2> QED BY <1>1, CountSame, CountWindow DEF Ranged, SameControl
<1>3. y = c \/ y = setStateLocked(c, StateOpen, t) \/ y = ResolveProbe(c, f, t)
  BY DEF record
<1> HIDE DEF c, y
<1>4. Ranged(r, t) /\ Ranged(s, t)
  BY <1>2 DEF Ranged, WindowOK, Fields
<1>5. \/ ResolveProbe(c, f, t) = setStateLocked(r, StateOpen, t)
      \/ ResolveProbe(c, f, t) = setStateLocked(s, StateClosed, t)
      \/ ResolveProbe(c, f, t) = s
  BY DEF ResolveProbe
<1> HIDE DEF r, s
<1>6. Ranged(y, t)
  BY <1>2, <1>3, <1>4, <1>5, SetStateRanged DEF States
<1> QED BY <1>6 DEF y

LEMMA AdmitRanged ==
  ASSUME NEW t \in Nat, NEW x, Ranged(x, t)
  PROVE  Ranged(AdmitLocked(x, t).breaker, t)
<1> DEFINE r == refreshLocked(x, t)
           up == [r EXCEPT !.probes = @ + 1]
<1>1. Ranged(r, t)
  BY RefreshRanged
<1>2. AdmitLocked(x, t).breaker = r \/ AdmitLocked(x, t).breaker = up
  BY DEF AdmitLocked
<1>3. Ranged(up, t)
  <2> HIDE DEF r
  <2> QED BY <1>1 DEF Ranged, WindowOK, Fields
<1> HIDE DEF r, up
<1> QED BY <1>1, <1>2, <1>3

LEMMA ReleaseRanged ==
  ASSUME NEW t \in Nat, NEW x, NEW p, Ranged(x, t)
  PROVE  Ranged(release(x, p), t)
<1> DEFINE down == [x EXCEPT !.probes = @ - 1]
<1>1. Ranged(down, t)
  BY DEF Ranged, WindowOK, Fields
<1>2. release(x, p) = x \/ release(x, p) = down
  BY DEF release
<1> HIDE DEF down
<1> QED BY <1>1, <1>2

LEMMA ResetRanged ==
  ASSUME NEW t \in Nat, NEW x, Ranged(x, t)
  PROVE  Ranged(Reset(x, t), t)
<1> DEFINE a == setStateLocked(x, StateClosed, t)
           c == clearLocked(a, t)
<1>1. Ranged(a, t)
  BY SetStateRanged DEF States
<1>2. Ranged(c, t)
  <2> HIDE DEF a
  <2> QED BY <1>1, ClearSame, ClearWindow DEF Ranged, SameControl
<1>3. Reset(x, t) = [c EXCEPT !.probes = 0, !.successes = 0]
  BY DEF Reset
<1> HIDE DEF c
<1> QED BY <1>2, <1>3 DEF Ranged, WindowOK, Fields

LEMMA UnlockRanged ==
  ASSUME NEW y, NEW t, Ranged(y, t)
  PROVE  Ranged(Unlocked(y), t)
  BY DEF Ranged, WindowOK, Unlocked, Fields

LEMMA NextRanged ==
  ASSUME IInv, WindowOK(b, now), gauge \in States, [Next]_vars
  PROVE  WindowOK(b', now') /\ gauge' \in States
<1> DEFINE Goal == WindowOK(b', now') /\ gauge' \in States
<1>1. Ranged(b, now) /\ now \in Nat
  BY DEF Ranged, IInv, ControlTypeOK
<1>2. \A y : Ranged(y, now) /\ b' = Unlocked(y) /\ UNCHANGED <<now, gauge>> => Goal
  BY UnlockRanged DEF Ranged
<1>3. ASSUME NEW r \in Requests, Step(r) PROVE Goal
  <2>1. CASE AdmitFast(r) \/ AdmitSlow(r) \/ Unattributed(r) \/ Abandon(r)
    BY <2>1 DEF AdmitFast, AdmitSlow, Unattributed, Abandon
  <2>2. CASE Admit(r)
    BY <1>1, <1>2, <2>2, AdmitRanged, SMTT(30) DEF Admit, Unlock
  <2>3. CASE Success(r) \/ Failure(r)
    <3>1. PICK f \in BOOLEAN : Resolve(r, f)
      BY <2>3, ZenonT(30) DEF Success, Failure
    <3> QED BY <1>1, <1>2, <3>1, RecordRanged DEF Resolve, Unlock
  <2>4. CASE Release(r)
    BY <1>1, <2>4, ReleaseRanged DEF Release, Ranged
  <2> QED BY <1>3, <2>1, <2>2, <2>3, <2>4 DEF Step
<1>4. ASSUME NEW p \in Pollers, PollStep(p) PROVE Goal
  <2>1. CASE PollSlow(p)
    BY <2>1 DEF PollSlow
  <2>2. CASE Poll(p)
    BY <1>1, <1>2, <2>2, RefreshRanged DEF Poll, Unlock
  <2>3. CASE PollCounts(p)
    BY <1>1, <2>3, AdvanceWindow DEF PollCounts, Counts, Ranged
  <2>4. CASE PollReset(p)
    BY <1>1, <1>2, <2>4, ResetRanged DEF PollReset, Unlock
  <2> QED BY <1>4, <2>1, <2>2, <2>3, <2>4 DEF PollStep
<1>5. CASE Tick
  BY <1>1, <1>5, SMTT(60) DEF Tick, WindowOK
<1>6. ASSUME NEW g \in Goroutines, Fire(g) PROVE Goal
  <2>1. PICK tr \in TransitionRecord : trs[g] = <<tr>>
    BY <1>6 DEF Fire, IInv
  <2>2. Head(trs[g]) = tr
    BY <2>1
  <2> QED BY <1>6, <2>2 DEF Fire, TransitionRecord
<1>7. CASE UNCHANGED vars
  BY <1>7 DEF vars
<1> QED BY <1>3, <1>4, <1>5, <1>6, <1>7 DEF Next

\* Every field of the breaker, every goroutine and the gauge stay in range.
THEOREM TypesTheorem == Spec => []TypeOK
<1> DEFINE Window == WindowOK(b, now) /\ gauge \in States
<1>1. Init => Window
  BY BucketsPositive, SMTT(60)
     DEF Init, NewBreaker, WindowOK, Slots, Zero, Count, States
<1>2. IInv /\ Window /\ [Next]_vars => Window'
  BY NextRanged, SMTT(30)
<1>3. IInv /\ Window => TypeOK
  BY DEF IInv, WindowOK, Count, TypeOK
<1> HIDE DEF Window
<1> QED BY <1>1, <1>2, <1>3, Inductive, PTL DEF Spec
=============================================================================
