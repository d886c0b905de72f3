----------------------------- MODULE PoolProofs -----------------------------
(***************************************************************************)
(* Proofs about the two that work on the pool's backends: the checker that *)
(* decides their health, and the balancer that chooses among them.         *)
(***************************************************************************)
EXTENDS Health, Balancer, TLAPS

-----------------------------------------------------------------------------
(* The balancer, for every pool, every number of attempts asked for, and   *)
(* any changes of health and breakers at any moment of a Pick.             *)

\* b is among the candidates so far.
In(b) == \E k \in 1..Len(p.out) : p.out[k] = b

\* Those that the running scan cannot pass over.
Sure ==
    IF p.rung = "any" THEN Pool
    ELSE IF p.rung = "available" THEN seen.ok
    ELSE IF seen.calm THEN healthy ELSE {}

Fields == {"pc", "keyed", "max", "order", "ids", "i", "rung", "out"}

PickTypes ==
    /\ breakerEnabled \in BOOLEAN /\ rr \in Nat /\ N \in Nat \ {0}
    /\ healthy \subseteq Pool /\ ready \subseteq Pool
    /\ DOMAIN p = Fields
    /\ p.pc \in {"idle", "look", "ready", "done"} /\ p.keyed \in BOOLEAN
    /\ p.rung \in {"available", "healthy", "any"} /\ p.max \in 1..N /\ p.i \in Nat \ {0}
    /\ p.order \in [1..N -> Pool] /\ p.ids \in Seq(Pool) /\ p.out \in Seq(Pool)
    /\ seen \in [ok : SUBSET Pool, well : SUBSET Pool, willing : SUBSET Pool, calm : BOOLEAN]

\* The preference order names everyone once.
Permuted ==
    /\ \A a, c \in 1..N : p.order[a] = p.order[c] => a = c
    /\ \A b \in Pool : \E a \in 1..N : p.order[a] = b

Watching ==
    /\ seen.ok \subseteq AvailableNow(healthy, ready)
    /\ healthy \subseteq seen.well /\ ready \subseteq seen.willing
    /\ seen.calm => seen.ok = AvailableNow(healthy, ready) /\ seen.well = healthy

\* The list scanned is the order or a beginning of it, and the ladder was left only
\* for want of anyone.
Listed ==
    /\ Len(p.ids) \in 1..N /\ \A k \in 1..Len(p.ids) : p.ids[k] = p.order[k]
    /\ Len(p.ids) < N => p.keyed /\ p.rung = "available"
    /\ p.rung # "available" => seen.ok = {}
    /\ p.rung = "any" /\ seen.calm => healthy = {}

\* A sure one that was looked at is a candidate.
Passed == \A k \in 1..Len(p.ids) : k < p.i /\ p.ids[k] \in Sure => In(p.ids[k])

Fit ==
    /\ Len(p.out) <= p.max
    /\ \A j, l \in 1..Len(p.out) : p.out[j] = p.out[l] => j = l
    /\ p.rung = "available" =>
         \A b \in Pool : In(b) => b \in seen.well /\ (breakerEnabled => b \in seen.willing)

Owner ==
    p.rung = "available" /\ p.order[1] \in seen.ok =>
        (p.i = 1 /\ p.out = <<>>) \/ (p.out # <<>> /\ p.out[1] = p.order[1])

\* In a calm Pick the candidates are sure, closed under preference, and in order.
Exact ==
    seen.calm =>
        /\ \A b \in Pool : In(b) => b \in Sure
        /\ \A a, k \in 1..N : k <= a /\ In(p.order[a]) /\ p.order[k] \in Sure => In(p.order[k])
        /\ \A j, l \in 1..Len(p.out) : j < l =>
             \A a, c \in 1..N : p.order[a] = p.out[j] /\ p.order[c] = p.out[l] => a < c

Places ==
    /\ p.pc = "ready" =>
         /\ p.rung = "available" /\ breakerEnabled /\ p.i <= Len(p.ids) /\ Len(p.out) < p.max
         /\ ~In(p.ids[p.i]) /\ p.ids[p.i] \in seen.well
    /\ p.pc = "done" => p.out # <<>> /\ (Len(p.out) = p.max \/ (Len(p.ids) = N /\ p.i > N))

Scan == Listed /\ Passed /\ Fit /\ Owner /\ Exact
PickInv == PickTypes /\ Permuted /\ Watching /\ (p.pc # "idle" => Scan /\ Places)

LEMMA PoolSize ==
  /\ N \in Nat \ {0} /\ backends \in [1..N -> Pool]
  /\ \A a, c \in 1..N : backends[a] = backends[c] => a = c
  /\ \A b \in Pool : \E a \in 1..N : backends[a] = b
  /\ Attempts \subseteq Int
  BY BalancerAssumption DEF Pool, N, Members, Distinct

LEMMA Candidates ==
  ASSUME p.out \in Seq(Pool)
  PROVE  \A b : b \in Members(p.out) <=> In(b)
<1>1. DOMAIN p.out = 1..Len(p.out)
  OBVIOUS
<1> QED BY <1>1 DEF Members, In

LEMMA ModOnce ==
  ASSUME NEW m \in Nat \ {0}, NEW y \in Nat, y < m + m
  PROVE  y % m = IF y < m THEN y ELSE y - m
  BY SMT

\* A keyless Pick's order is a permutation of the pool.
LEMMA RotationPermutes ==
  ASSUME NEW r \in Nat
  PROVE  LET f == Rotation(r % N)
         IN  /\ f \in [1..N -> Pool]
             /\ \A a, c \in 1..N : f[a] = f[c] => a = c
             /\ \A b \in Pool : \E a \in 1..N : f[a] = b
<1> DEFINE s == r % N
           f == Rotation(s)
           At(i) == IF s + i - 1 < N THEN s + i ELSE s + i - N
<1>1. N \in Nat \ {0} /\ s \in 0 .. N - 1
  BY PoolSize
<1> HIDE DEF s
<1>2. \A i \in 1..N : ((s + i - 1) % N) + 1 = At(i) /\ At(i) \in 1..N
  <2> TAKE i \in 1..N
  <2> DEFINE y == s + i - 1
  <2>1. y \in Nat /\ y < N + N
    BY <1>1
  <2> HIDE DEF y
  <2>2. y % N = IF y < N THEN y ELSE y - N
    BY <1>1, <2>1, ModOnce, Zenon
  <2>3. (y % N) + 1 = (IF y < N THEN y + 1 ELSE y + 1 - N) /\ y = s + i - 1
    BY <1>1, <2>1, <2>2 DEF y
  <2> QED BY <1>1, <2>3
<1>3. f = [i \in 1..N |-> backends[At(i)]]
  BY <1>2 DEF Rotation
<1>4. \A a, c \in 1..N : At(a) = At(c) => a = c
  BY <1>1
<1>5. \A t \in 1..N : \E i \in 1..N : At(i) = t
  <2> TAKE t \in 1..N
  <2>1. CASE t > s
    <3>1. t - s \in 1..N /\ At(t - s) = t
      BY <1>1, <2>1
    <3> QED BY <3>1
  <2>2. CASE t <= s
    <3>1. t + N - s \in 1..N /\ At(t + N - s) = t
      BY <1>1, <2>2
    <3> QED BY <3>1
  <2> QED BY <1>1, <2>1, <2>2
<1> HIDE DEF At, f
<1>6. /\ f \in [1..N -> Pool]
      /\ \A a, c \in 1..N : f[a] = f[c] => a = c
      /\ \A b \in Pool : \E a \in 1..N : f[a] = b
  <2>1. f \in [1..N -> Pool] /\ \A a \in 1..N : f[a] = backends[At(a)]
    BY <1>2, <1>3, PoolSize, Zenon
  <2>2. ASSUME NEW a \in 1..N, NEW c \in 1..N, f[a] = f[c] PROVE a = c
    <3>1. backends[At(a)] = backends[At(c)] /\ At(a) \in 1..N /\ At(c) \in 1..N
      BY <1>2, <2>1, <2>2, Zenon
    <3>2. At(a) = At(c)
      BY <3>1, PoolSize, Zenon
    <3> QED BY <1>4, <3>2
  <2>3. ASSUME NEW b \in Pool PROVE \E a \in 1..N : f[a] = b
    <3>1. PICK t \in 1..N : backends[t] = b
      BY PoolSize
    <3>2. PICK a \in 1..N : At(a) = t
      BY <1>5
    <3> QED BY <2>1, <3>1, <3>2
  <2> QED BY <2>1, <2>2, <2>3
<1> QED BY <1>6 DEF s, f

\* A change of health or breakers: whoever is sure afterwards was so before.
LEMMA ChangeKeeps ==
  ASSUME PickInv, NEW hs \in SUBSET Pool, NEW rs \in SUBSET Pool, Change(hs, rs)
  PROVE  PickInv'
<1>1. /\ healthy' = hs /\ ready' = rs /\ p' = p /\ rr' = rr /\ breakerEnabled' = breakerEnabled
      /\ seen' \in [ok : SUBSET Pool, well : SUBSET Pool, willing : SUBSET Pool, calm : BOOLEAN]
      /\ seen'.ok = seen.ok \cap AvailableNow(hs, rs) /\ ~seen'.calm
      /\ seen'.well = seen.well \cup hs /\ seen'.willing = seen.willing \cup rs
  BY DEF Change, PickInv, PickTypes, Fields
<1>2. AvailableNow(healthy, ready)' = AvailableNow(hs, rs)
  BY <1>1 DEF AvailableNow
<1>3. Pool' = Pool /\ N' = N
  BY DEF Pool, N
<1>4. PickTypes' /\ Permuted'
  BY <1>1, <1>3 DEF PickInv, PickTypes, Permuted
<1>5. Watching'
  BY <1>1, <1>2 DEF Watching
<1>6. Sure' \subseteq Sure /\ \A b : In(b)' <=> In(b)
  BY <1>1, <1>3 DEF Sure, In
<1>7. ASSUME p.pc # "idle" PROVE (Scan /\ Places)'
  <2>1. Listed'
    BY <1>1, <1>3, <1>7 DEF PickInv, Scan, Listed
  <2>2. Passed'
    BY <1>1, <1>6, <1>7 DEF PickInv, Scan, Passed
  <2>3. Fit'
    BY <1>1, <1>3, <1>6, <1>7 DEF PickInv, Scan, Fit
  <2>4. Owner' /\ Exact'
    BY <1>1, <1>7 DEF PickInv, Scan, Owner, Exact
  <2>5. Places'
    BY <1>1, <1>3, <1>6, <1>7 DEF PickInv, Places
  <2> QED BY <2>1, <2>2, <2>3, <2>4, <2>5 DEF Scan
<1> QED BY <1>1, <1>4, <1>5, <1>7 DEF PickInv

\* What stays while the scan goes on.
Kept == UNCHANGED <<breakerEnabled, healthy, ready, rr, seen>>

LEMMA KeptSame ==
  ASSUME Kept
  PROVE  /\ Pool' = Pool /\ N' = N
         /\ AvailableNow(healthy, ready)' = AvailableNow(healthy, ready)
         /\ Watching => Watching'
  BY DEF Kept, Pool, N, AvailableNow, Watching

LEMMA ExactSame ==
  ASSUME Exact, Kept, p'.out = p.out, p'.order = p.order, Sure' = Sure
  PROVE  Exact'
<1>1. Pool' = Pool /\ N' = N /\ seen' = seen
  BY KeptSame DEF Kept
<1> QED BY <1>1 DEF Exact, In

\* Whoever is passed over is not sure, or a candidate already.
LEMMA SkipKeeps ==
  ASSUME PickInv, p.pc \in {"look", "ready"}, Kept, p' = Skip(p), p.i <= Len(p.ids),
         p.ids[p.i] \in Sure => In(p.ids[p.i])
  PROVE  PickInv'
<1>1. /\ p'.pc = "look" /\ p'.i = p.i + 1 /\ p'.keyed = p.keyed /\ p'.max = p.max
      /\ p'.order = p.order /\ p'.ids = p.ids /\ p'.rung = p.rung /\ p'.out = p.out
  BY DEF Skip, PickInv, PickTypes, Fields
<1>2. PickTypes' /\ Permuted'
  <2>1. DOMAIN p' = Fields
    BY DEF Skip, PickInv, PickTypes
  <2>2. PickTypes'
    BY <1>1, <2>1, KeptSame DEF PickInv, PickTypes, Kept
  <2>3. Permuted'
    BY <1>1, KeptSame DEF PickInv, Permuted
  <2> QED BY <2>2, <2>3
<1>3. Sure' = Sure /\ \A b : In(b)' <=> In(b)
  BY <1>1, KeptSame DEF Sure, In, Kept
<1>4. p.i \in Nat \ {0} /\ Len(p.ids) \in Nat
  BY DEF PickInv, PickTypes, Fields
<1>5. Listed'
  BY <1>1, KeptSame DEF PickInv, Scan, Listed, Kept
<1>6. Passed'
  BY <1>1, <1>3, <1>4 DEF PickInv, Scan, Passed
<1>7. Fit' /\ Exact'
  BY <1>1, <1>3, KeptSame DEF PickInv, Scan, Fit, Exact, Kept
<1>8. Owner'
  <2>1. p.i = 1 /\ p.out = <<>> => p.ids[1] \notin Sure /\ p.ids[1] = p.order[1]
    BY <1>4 DEF In, PickInv, Scan, Listed
  <2> QED BY <1>1, <2>1 DEF PickInv, Scan, Owner, Kept, Sure
<1>9. Places'
  BY <1>1 DEF Places
<1> QED BY <1>2, <1>5, <1>6, <1>7, <1>8, <1>9, KeptSame DEF PickInv, Scan

\* Whoever is admitted was not a candidate, was seen well, and in a calm Pick is sure.
LEMMA AdmitKeeps ==
  ASSUME PickInv, p.pc \in {"look", "ready"}, Kept, p' = Admit(p),
         p.i <= Len(p.ids), Len(p.out) < p.max, ~In(p.ids[p.i]),
         p.rung = "available" => /\ p.ids[p.i] \in seen.well
                                 /\ breakerEnabled => p.ids[p.i] \in seen.willing,
         seen.calm => p.ids[p.i] \in Sure
  PROVE  PickInv'
<1> DEFINE b == p.ids[p.i]
           m == Len(p.out)
<1>1. /\ p'.pc = "look" /\ p'.i = p.i + 1 /\ p'.keyed = p.keyed /\ p'.max = p.max
      /\ p'.order = p.order /\ p'.ids = p.ids /\ p'.rung = p.rung
      /\ p'.out = Append(p.out, b) /\ DOMAIN p' = Fields
  BY DEF Admit, PickInv, PickTypes, Fields
<1>2. /\ p.i \in Nat /\ m \in Nat /\ p.max \in Nat /\ N \in Nat
      /\ p.i \in 1..N /\ b = p.order[p.i] /\ b \in Pool
  <2>1. /\ p.i \in Nat \ {0} /\ p.max \in Nat /\ N \in Nat /\ p.order \in [1..N -> Pool]
        /\ p.ids \in Seq(Pool) /\ p.out \in Seq(Pool)
    BY DEF PickInv, PickTypes
  <2>2. Len(p.ids) \in 1..N /\ \A k \in 1..Len(p.ids) : p.ids[k] = p.order[k]
    BY DEF PickInv, Scan, Listed
  <2>3. p.i \in 1..N /\ p.i \in 1..Len(p.ids)
    BY <2>1, <2>2
  <2> QED BY <2>1, <2>2, <2>3
<1>3. /\ p'.out \in Seq(Pool) /\ Len(p'.out) = m + 1 /\ p'.out[m + 1] = b
      /\ \A k \in 1..m : p'.out[k] = p.out[k]
  <2>1. p.out \in Seq(Pool)
    BY DEF PickInv, PickTypes
  <2> QED BY <1>1, <1>2, <2>1
<1> HIDE DEF b, m
<1>4. \A c : In(c)' <=> In(c) \/ c = b
  <2>1. 1..Len(p'.out) = 1..m \cup {m + 1}
    BY <1>2, <1>3
  <2> QED BY <1>3, <2>1 DEF In, m
<1>5. Sure' = Sure
  BY <1>1, KeptSame DEF Sure, Kept
<1>6. PickTypes' /\ Permuted'
  <2>1. PickTypes'
    <3>1. PickTypes /\ Pool' = Pool /\ N' = N
      BY KeptSame DEF PickInv
    <3>2. p'.pc \in {"idle", "look", "ready", "done"} /\ p'.i \in Nat \ {0} /\ p'.out \in Seq(Pool)
      BY <1>1, <1>2, <1>3
    <3>3. /\ p'.keyed = p.keyed /\ p'.max = p.max /\ p'.order = p.order /\ p'.ids = p.ids
          /\ p'.rung = p.rung /\ DOMAIN p' = Fields
      BY <1>1, Zenon
    <3> QED BY <3>1, <3>2, <3>3, Zenon DEF PickTypes, Kept
  <2>2. Permuted'
    BY <1>1, KeptSame DEF PickInv, Permuted
  <2> QED BY <2>1, <2>2
<1>7. Listed'
  BY <1>1, KeptSame DEF PickInv, Scan, Listed, Kept
<1>8. Passed'
  BY <1>1, <1>2, <1>4, <1>5 DEF PickInv, Scan, Passed, b
<1>9. Fit'
  <2>1. Len(p'.out) <= p'.max
    BY <1>1, <1>2, <1>3 DEF m
  <2>2. \A j \in 1..m : p.out[j] # b
    BY DEF In, b, m
  <2>3. \A j, l \in 1..m+1 : p'.out[j] = p'.out[l] => j = l
    <3>1. \A j, l \in 1..m : p.out[j] = p.out[l] => j = l
      BY DEF PickInv, Scan, Fit, m
    <3> QED BY <1>2, <1>3, <2>2, <3>1
  <2>4. p.rung = "available" =>
          \A c \in Pool : In(c)' => c \in seen.well /\ (breakerEnabled => c \in seen.willing)
    BY <1>4 DEF PickInv, Scan, Fit, b
  <2> QED BY <1>1, <1>3, <2>1, <2>3, <2>4, KeptSame DEF Fit, Kept
<1>10. Owner'
  <2>1. p'.out # <<>>
    BY <1>2, <1>3
  <2>2. p.out = <<>> => m = 0
    BY DEF m
  <2>3. p.i = 1 /\ p.out = <<>> => p'.out[1] = p.order[1]
    BY <1>2, <1>3, <2>2 DEF b
  <2>4. p.out # <<>> => p'.out[1] = p.out[1]
    <3>1. p.out # <<>> => m # 0
      BY DEF m, PickInv, PickTypes
    <3> QED BY <1>2, <1>3, <3>1
  <2> QED BY <1>1, <2>1, <2>3, <2>4 DEF PickInv, Scan, Owner, Kept
<1>11. Exact'
  <2> SUFFICES ASSUME seen.calm PROVE Exact'
    BY DEF Exact, Kept
  <2>1. b \in Sure
    BY DEF b
  <2>2. \A c \in Pool : In(c)' => c \in Sure
    BY <1>4, <2>1 DEF PickInv, Scan, Exact
  <2>3. \A k \in 1..N : k < p.i /\ p.order[k] \in Sure => In(p.order[k])
    BY <1>2 DEF PickInv, Scan, Passed, Listed
  <2>4. \A a \in 1..N : In(p.order[a]) => a < p.i
    BY <1>2, <2>1 DEF PickInv, Scan, Exact, b
  <2>5. ASSUME NEW a \in 1..N, NEW k \in 1..N, k <= a, NEW d, NEW e,
               d = p.order[a], e = p.order[k], In(d)', e \in Sure
        PROVE  In(e)'
    <3>1. CASE In(d)
      <4>1. In(e)
        BY <2>5, <3>1 DEF PickInv, Scan, Exact
      <4> QED BY <1>4, <4>1
    <3>2. CASE d = b
      <4>1. a = p.i
        BY <1>2, <2>5, <3>2, Zenon DEF PickInv, Permuted
      <4>2. k < p.i \/ k = p.i
        BY <1>2, <2>5, <4>1
      <4>3. CASE k < p.i
        <5>1. In(e)
          BY <2>3, <2>5, <4>3, Zenon
        <5> QED BY <1>4, <5>1, Zenon
      <4>4. CASE k = p.i
        <5>1. e = b
          BY <1>2, <2>5, <4>4, Zenon
        <5> QED BY <1>4, <5>1, Zenon
      <4> QED BY <4>2, <4>3, <4>4, Zenon
    <3> QED BY <1>4, <2>5, <3>1, <3>2
  <2>6. ASSUME NEW j \in 1..m+1, NEW l \in 1..m+1, j < l, NEW a \in 1..N, NEW c \in 1..N,
               p.order[a] = p'.out[j], p.order[c] = p'.out[l]
        PROVE  a < c
    <3>1. j \in 1..m /\ p'.out[j] = p.out[j]
      BY <1>2, <1>3, <2>6
    <3>2. CASE l \in 1..m
      BY <1>3, <2>6, <3>1, <3>2 DEF PickInv, Scan, Exact, m
    <3>3. CASE l = m + 1
      <4>1. c = p.i
        BY <1>2, <1>3, <2>6, <3>3 DEF PickInv, Permuted
      <4>2. In(p.order[a])
        BY <2>6, <3>1 DEF In, m
      <4> QED BY <2>4, <4>1, <4>2
    <3> QED BY <1>2, <2>6, <3>2, <3>3
  <2>7. ASSUME NEW a \in 1..N, NEW k \in 1..N, k <= a, In(p.order[a])', p.order[k] \in Sure
        PROVE  In(p.order[k])'
    <3>1. PICK d, e : d = p.order[a] /\ e = p.order[k]
      BY Zenon
    <3>2. In(d)'
      BY <1>1, <2>7, <3>1 DEF In
    <3>3. In(e)'
      BY <2>5, <2>7, <3>1, <3>2
    <3> QED BY <1>1, <3>1, <3>3 DEF In
  <2>8. \A c \in Pool' : In(c)' => c \in Sure'
    BY <1>5, <2>2, KeptSame, Zenon
  <2>9. \A a, k \in 1..N' : k <= a /\ In(p.order[a])' /\ p'.order[k] \in Sure' => In(p.order[k])'
    BY <1>1, <1>5, <2>7, KeptSame, Zenon
  <2>10. \A j, l \in 1..Len(p'.out) : j < l =>
           \A a, c \in 1..N' : p'.order[a] = p'.out[j] /\ p'.order[c] = p'.out[l] => a < c
    <3> SUFFICES ASSUME NEW j \in 1..Len(p'.out), NEW l \in 1..Len(p'.out), j < l,
                        NEW a \in 1..N', NEW c \in 1..N',
                        p'.order[a] = p'.out[j], p'.order[c] = p'.out[l]
                 PROVE  a < c
      OBVIOUS
    <3>1. j \in 1..m+1 /\ l \in 1..m+1
      BY <1>3
    <3>2. a \in 1..N /\ c \in 1..N
      BY KeptSame
    <3>3. p.order[a] = p'.out[j] /\ p.order[c] = p'.out[l]
      BY <1>1
    <3> QED BY <2>6, <3>1, <3>2, <3>3, Zenon
  <2> QED BY <2>8, <2>9, <2>10, Zenon DEF Exact
<1>12. Places'
  BY <1>1 DEF Places
<1> QED BY <1>6, <1>7, <1>8, <1>9, <1>10, <1>11, <1>12, KeptSame DEF PickInv, Scan

LEMMA LookKeeps ==
  ASSUME PickInv, Look
  PROVE  PickInv'
<1> DEFINE b == p.ids[p.i]
<1>1. p.pc = "look" /\ Kept /\ Len(p.out) # p.max /\ ~(p.i > Len(p.ids))
  BY DEF Look, ScanOver, Kept
<1>2. p.i <= Len(p.ids) /\ Len(p.out) < p.max /\ p.i \in 1..Len(p.ids)
  <2>1. /\ p.i \in Nat \ {0} /\ p.max \in Nat
        /\ Len(p.ids) \in Nat /\ Len(p.out) \in Nat
    BY DEF PickInv, PickTypes
  <2>2. Len(p.out) <= p.max
    BY <1>1 DEF PickInv, Scan, Fit
  <2> QED BY <1>1, <2>1, <2>2
<1>3. b \in Pool
  BY <1>2 DEF PickInv, PickTypes
<1>4. b \in Members(p.out) <=> In(b)
  BY Candidates DEF PickInv, PickTypes
<1>5. p' = IF In(b) THEN Skip(p)
           ELSE IF p.rung = "any" THEN Admit(p)
           ELSE IF b \notin healthy THEN Skip(p)
           ELSE IF p.rung = "available" /\ breakerEnabled THEN [p EXCEPT !.pc = "ready"]
           ELSE Admit(p)
  BY <1>4, Zenon DEF Look
<1> HIDE DEF b
<1>6. Sure \subseteq IF p.rung = "any" THEN Pool ELSE healthy
  BY DEF PickInv, Watching, Sure, AvailableNow
<1>7. p.rung \in {"available", "healthy", "any"} /\ breakerEnabled \in BOOLEAN
  BY DEF PickInv, PickTypes
<1>8. CASE In(b) \/ (p.rung # "any" /\ b \notin healthy)
  <2>1. p' = Skip(p)
    BY <1>5, <1>8
  <2>2. b \in Sure => In(b)
    BY <1>6, <1>8
  <2> QED BY <1>1, <1>2, <2>1, <2>2, SkipKeeps DEF b
<1>9. CASE ~In(b) /\ (p.rung = "any" \/ b \in healthy) /\ ~(p.rung = "available" /\ breakerEnabled)
  <2>1. p' = Admit(p)
    BY <1>5, <1>9
  <2>2. p.rung = "available" => b \in seen.well /\ (breakerEnabled => b \in seen.willing)
    BY <1>9 DEF PickInv, Watching
  <2>3. seen.calm => b \in Sure
    BY <1>3, <1>7, <1>9 DEF PickInv, Watching, Sure, AvailableNow
  <2> QED BY <1>1, <1>2, <1>9, <2>1, <2>2, <2>3, AdmitKeeps DEF b
<1>10. CASE ~In(b) /\ b \in healthy /\ p.rung = "available" /\ breakerEnabled
  <2>1. p' = [p EXCEPT !.pc = "ready"]
    BY <1>5, <1>10
  <2>2. /\ p'.pc = "ready" /\ p'.i = p.i /\ p'.keyed = p.keyed /\ p'.max = p.max
        /\ p'.order = p.order /\ p'.ids = p.ids /\ p'.rung = p.rung /\ p'.out = p.out
        /\ DOMAIN p' = Fields
    BY <2>1 DEF PickInv, PickTypes, Fields
  <2>3. Sure' = Sure /\ \A c : In(c)' <=> In(c)
    BY <1>1, <2>2, KeptSame DEF Sure, In, Kept
  <2>4. PickTypes'
    BY <1>1, <2>2, KeptSame DEF PickInv, PickTypes, Kept
  <2>5. Permuted' /\ Watching'
    BY <1>1, <2>2, KeptSame DEF PickInv, Permuted
  <2>6. Listed' /\ Passed' /\ Fit' /\ Owner'
    <3>1. Listed' /\ Owner'
      BY <1>1, <2>2, KeptSame DEF PickInv, Scan, Listed, Owner, Kept
    <3>2. Passed' /\ Fit'
      BY <1>1, <2>2, <2>3, KeptSame DEF PickInv, Scan, Passed, Fit, Kept
    <3> QED BY <3>1, <3>2
  <2>7. Exact'
    BY <1>1, <2>2, <2>3, ExactSame DEF PickInv, Scan
  <2>8. Places'
    <3>1. b \in seen.well
      BY <1>10 DEF PickInv, Watching
    <3>2. ~In(p.ids[p.i])'
      BY <1>10, <2>2 DEF In, b
    <3> QED BY <1>1, <1>2, <1>10, <2>2, <3>1, <3>2 DEF Places, Kept, b
  <2> QED BY <2>4, <2>5, <2>6, <2>7, <2>8 DEF PickInv, Scan
<1> QED BY <1>7, <1>8, <1>9, <1>10

LEMMA AskBreakerKeeps ==
  ASSUME PickInv, AskBreaker
  PROVE  PickInv'
<1> DEFINE b == p.ids[p.i]
<1>1. p.pc = "ready" /\ Kept /\ p' = IF b \in ready THEN Admit(p) ELSE Skip(p)
  BY DEF AskBreaker, Kept
<1>2. /\ p.rung = "available" /\ breakerEnabled /\ p.i <= Len(p.ids) /\ Len(p.out) < p.max
      /\ ~In(b) /\ b \in seen.well
  BY <1>1 DEF PickInv, Places
<1> HIDE DEF b
<1>3. CASE b \in ready
  <2>1. b \in seen.willing
    BY <1>3 DEF PickInv, Watching
  <2>2. seen.calm => b \in Sure
    BY <1>2, <1>3 DEF PickInv, Watching, Sure, AvailableNow
  <2> QED BY <1>1, <1>2, <1>3, <2>1, <2>2, AdmitKeeps DEF b
<1>4. CASE b \notin ready
  <2>1. b \notin Sure
    BY <1>2, <1>4 DEF PickInv, Watching, Sure, AvailableNow
  <2> QED BY <1>1, <1>2, <1>4, <2>1, SkipKeeps DEF b
<1> QED BY <1>3, <1>4

\* A scan that ended with no candidate passed over everyone: nobody was sure.
LEMMA NobodySure ==
  ASSUME PickInv, p.pc = "look", p.i > Len(p.ids), Len(p.ids) = N, p.out = <<>>
  PROVE  Sure = {}
<1>1. p.i \in Nat /\ N \in Nat
  BY DEF PickInv, PickTypes
<1>2. \A k \in 1..N : p.order[k] \notin Sure
  BY <1>1 DEF PickInv, Scan, Listed, Passed, In
<1>3. Sure \subseteq Pool
  BY DEF PickInv, PickTypes, Sure
<1> QED BY <1>2, <1>3 DEF PickInv, Permuted

LEMMA EndScanKeeps ==
  ASSUME PickInv, EndScan
  PROVE  PickInv'
<1>1. p.pc = "look" /\ Kept /\ (Len(p.out) = p.max \/ p.i > Len(p.ids))
  BY DEF EndScan, ScanOver, Kept
<1>2. /\ p.i \in Nat \ {0} /\ N \in Nat \ {0} /\ p.max \in 1..N /\ DOMAIN p = Fields
      /\ p.order \in [1..N -> Pool] /\ p.ids \in Seq(Pool) /\ p.out \in Seq(Pool)
      /\ p.rung \in {"available", "healthy", "any"}
  BY DEF PickInv, PickTypes
<1>3. Len(p.ids) \in 1..N /\ Len(p.out) <= p.max
  BY <1>1 DEF PickInv, Scan, Listed, Fit
<1>4. Len(p.out) # p.max /\ ~Widens(p) => Len(p.ids) = N
  BY <1>1, <1>2, <1>3 DEF PickInv, Scan, Listed, Widens
<1>5. p.out = <<>> => Len(p.out) # p.max
  BY <1>2
<1>6. CASE Widens(p)
  <2>1. p' = [p EXCEPT !.ids = p.order, !.i = 1]
    BY <1>6 DEF EndScan
  <2>2. /\ p'.pc = p.pc /\ p'.i = 1 /\ p'.keyed = p.keyed /\ p'.max = p.max
        /\ p'.order = p.order /\ p'.ids = p.order /\ p'.rung = p.rung /\ p'.out = p.out
        /\ DOMAIN p' = Fields
    BY <1>2, <2>1 DEF Fields
  <2>3. p.order \in Seq(Pool) /\ Len(p.order) = N
    BY <1>2
  <2>4. Sure' = Sure /\ \A c : In(c)' <=> In(c)
    BY <1>1, <2>2, KeptSame DEF Sure, In, Kept
  <2>5. PickTypes'
    BY <1>1, <2>2, <2>3, KeptSame DEF PickInv, PickTypes, Kept
  <2>6. Permuted' /\ Watching'
    BY <1>1, <2>2, KeptSame DEF PickInv, Permuted
  <2>7. Listed' /\ Passed'
    BY <1>1, <1>2, <2>2, <2>3, KeptSame DEF PickInv, Scan, Listed, Passed, Kept
  <2>8. Fit' /\ Owner'
    BY <1>1, <2>2, <2>4, KeptSame DEF PickInv, Scan, Fit, Owner, Kept
  <2>9. Exact'
    BY <1>1, <2>2, <2>4, ExactSame DEF PickInv, Scan
  <2>10. Places'
    BY <1>1, <2>2 DEF Places
  <2> QED BY <2>5, <2>6, <2>7, <2>8, <2>9, <2>10 DEF PickInv, Scan
<1>7. CASE ~Widens(p) /\ p.out = <<>> /\ NextRung(p.rung) # "none"
  <2> DEFINE r == NextRung(p.rung)
  <2>1. p' = [p EXCEPT !.rung = r, !.i = 1]
    BY <1>7 DEF EndScan
  <2>2. \/ p.rung = "available" /\ r = "healthy"
        \/ p.rung = "healthy" /\ r = "any"
    BY <1>2, <1>7 DEF NextRung
  <2> HIDE DEF r
  <2>3. /\ p'.pc = p.pc /\ p'.i = 1 /\ p'.keyed = p.keyed /\ p'.max = p.max
        /\ p'.order = p.order /\ p'.ids = p.ids /\ p'.rung = r /\ p'.out = <<>>
        /\ DOMAIN p' = Fields
    BY <1>2, <1>7, <2>1 DEF Fields
  <2>4. Len(p.ids) = N /\ Sure = {}
    BY <1>1, <1>4, <1>5, <1>7, NobodySure
  <2>5. \A c : ~In(c)'
    BY <2>3 DEF In
  <2>6. PickTypes'
    BY <1>1, <2>2, <2>3, KeptSame DEF PickInv, PickTypes, Kept
  <2>7. Permuted' /\ Watching'
    BY <1>1, <2>3, KeptSame DEF PickInv, Permuted
  <2>8. seen.ok = {} /\ (r = "any" /\ seen.calm => healthy = {})
    BY <1>1, <2>2, <2>4 DEF PickInv, Scan, Listed, Sure
  <2>9. Listed'
    BY <1>1, <1>2, <2>2, <2>3, <2>4, <2>8, KeptSame DEF PickInv, Scan, Listed, Kept
  <2>10. Passed'
    BY <1>2, <2>3 DEF Passed
  <2>11. Fit' /\ Owner' /\ Exact'
    BY <1>2, <2>2, <2>3, <2>5 DEF Fit, Owner, Exact, In
  <2>12. Places'
    BY <1>1, <2>3 DEF Places
  <2> QED BY <2>6, <2>7, <2>9, <2>10, <2>11, <2>12 DEF PickInv, Scan
<1>8. CASE ~Widens(p) /\ ~(p.out = <<>> /\ NextRung(p.rung) # "none")
  <2>1. p' = [p EXCEPT !.pc = "done"]
    BY <1>8 DEF EndScan
  <2>2. /\ p'.pc = "done" /\ p'.i = p.i /\ p'.keyed = p.keyed /\ p'.max = p.max
        /\ p'.order = p.order /\ p'.ids = p.ids /\ p'.rung = p.rung /\ p'.out = p.out
        /\ DOMAIN p' = Fields
    BY <1>2, <2>1 DEF Fields
  <2>3. Sure' = Sure /\ \A c : In(c)' <=> In(c)
    BY <1>1, <2>2, KeptSame DEF Sure, In, Kept
  <2>4. PickTypes'
    BY <1>1, <2>2, KeptSame DEF PickInv, PickTypes, Kept
  <2>5. Permuted' /\ Watching'
    BY <1>1, <2>2, KeptSame DEF PickInv, Permuted
  <2>6. Listed' /\ Passed' /\ Fit' /\ Owner'
    <3>1. Listed' /\ Owner'
      BY <1>1, <2>2, KeptSame DEF PickInv, Scan, Listed, Owner, Kept
    <3>2. Passed' /\ Fit'
      BY <1>1, <2>2, <2>3, KeptSame DEF PickInv, Scan, Passed, Fit, Kept
    <3> QED BY <3>1, <3>2
  <2>7. Exact'
    BY <1>1, <2>2, <2>3, ExactSame DEF PickInv, Scan
  <2>8. p.out # <<>>
    <3> SUFFICES ASSUME p.out = <<>> PROVE FALSE
      OBVIOUS
    <3>1. p.rung = "any"
      BY <1>2, <1>8 DEF NextRung
    <3>2. Sure = {} /\ Sure = Pool
      BY <1>1, <1>4, <1>5, <1>8, <3>1, NobodySure DEF Sure
    <3> QED BY <1>2, <3>2
  <2>9. Places'
    BY <1>1, <1>4, <1>8, <2>2, <2>8, KeptSame, Zenon DEF Places
  <2> QED BY <2>4, <2>5, <2>6, <2>7, <2>9 DEF PickInv, Scan
<1> QED BY <1>6, <1>7, <1>8

LEMMA ReturnKeeps ==
  ASSUME PickInv, Return
  PROVE  PickInv'
<1>1. Kept
  BY DEF Return, Kept
<1>2. /\ p'.pc = "idle" /\ p'.i = 1 /\ p'.keyed \in BOOLEAN /\ p'.max = 1
      /\ p'.order = backends /\ p'.ids = <<>> /\ p'.rung = "available" /\ p'.out = <<>>
      /\ DOMAIN p' = Fields
  BY DEF Return, PickInv, PickTypes, Fields
<1>3. PickTypes'
  <2>1. 1 \in 1..N /\ backends \in [1..N -> Pool] /\ <<>> \in Seq(Pool)
    BY PoolSize
  <2> QED BY <1>1, <1>2, <2>1, KeptSame DEF PickInv, PickTypes, Kept
<1>4. Permuted' /\ Watching'
  BY <1>1, <1>2, PoolSize, KeptSame DEF PickInv, Permuted
<1> QED BY <1>2, <1>3, <1>4 DEF PickInv

\* A Pick starts with nothing looked at and its watch freshly set.
LEMMA BeginKeeps ==
  ASSUME PickInv, NEW order \in [1..N -> Pool], NEW keyed \in BOOLEAN, NEW max \in Int,
         \A a, c \in 1..N : order[a] = order[c] => a = c,
         \A b \in Pool : \E a \in 1..N : order[a] = b,
         Begin(order, keyed, max), rr' \in Nat
  PROVE  PickInv'
<1> DEFINE lim == Limit(max)
<1>1. /\ p'.pc = "look" /\ p'.i = 1 /\ p'.keyed = keyed /\ p'.max = lim
      /\ p'.order = order /\ p'.ids = (IF keyed THEN SubSeq(order, 1, lim) ELSE order)
      /\ p'.rung = "available" /\ p'.out = <<>> /\ DOMAIN p' = Fields
  BY DEF Begin, Fields
<1>2. /\ healthy' = healthy /\ ready' = ready /\ breakerEnabled' = breakerEnabled
      /\ seen' = Watched(healthy, ready)
  BY DEF Begin
<1>3. N \in Nat \ {0} /\ lim \in 1..N
  BY DEF PickInv, PickTypes, Limit
<1> HIDE DEF lim
<1>4. Pool' = Pool /\ N' = N
  BY DEF Pool, N
<1>5. AvailableNow(healthy, ready)' = AvailableNow(healthy, ready)
  BY <1>2 DEF AvailableNow
<1>6. AvailableNow(healthy, ready) \subseteq Pool /\ healthy \subseteq Pool /\ ready \subseteq Pool
  BY Zenon DEF AvailableNow, PickInv, PickTypes
<1>7. /\ p'.ids \in Seq(Pool) /\ Len(p'.ids) \in 1..N /\ (Len(p'.ids) < N => keyed)
      /\ \A k \in 1..Len(p'.ids) : p'.ids[k] = order[k]
  <2>1. order \in Seq(Pool) /\ Len(order) = N
    BY <1>3
  <2> QED BY <1>1, <1>3, <2>1
<1>8. \A c : ~In(c)'
  BY <1>1 DEF In
<1>9. PickTypes'
  <2>1. seen' \in [ok : SUBSET Pool, well : SUBSET Pool, willing : SUBSET Pool, calm : BOOLEAN]
    BY <1>2, <1>6 DEF Watched
  <2>2. p'.out \in Seq(Pool)
    BY <1>1
  <2>3. p'.i \in Nat \ {0} /\ p'.max \in 1..N /\ p'.order \in [1..N -> Pool] /\ p'.ids \in Seq(Pool)
    BY <1>1, <1>3, <1>7
  <2>4. /\ p'.pc \in {"idle", "look", "ready", "done"} /\ p'.keyed \in BOOLEAN
        /\ p'.rung \in {"available", "healthy", "any"} /\ DOMAIN p' = Fields
    BY <1>1
  <2> QED BY <1>2, <1>3, <1>4, <1>6, <2>1, <2>2, <2>3, <2>4, Zenon DEF PickInv, PickTypes
<1>10. Permuted'
  BY <1>1, <1>4 DEF Permuted
<1>11. Watching'
  BY <1>2, <1>5 DEF Watching, Watched
<1>12. Listed'
  BY <1>1, <1>4, <1>7 DEF Listed
<1>13. Passed'
  BY <1>1, <1>3, <1>7 DEF Passed
<1>14. Fit' /\ Owner' /\ Exact' /\ Places'
  BY <1>1, <1>3, <1>8 DEF Fit, Owner, Exact, Places, In
<1> QED BY <1>9, <1>10, <1>11, <1>12, <1>13, <1>14 DEF PickInv, Scan

LEMMA InitPicks ==
  ASSUME PickInit
  PROVE  PickInv
<1>1. /\ p.pc = "idle" /\ p.i = 1 /\ p.keyed \in BOOLEAN /\ p.max = 1
      /\ p.order = backends /\ p.ids = <<>> /\ p.rung = "available" /\ p.out = <<>>
      /\ DOMAIN p = Fields
  BY DEF PickInit, Fields
<1>2. /\ breakerEnabled \in BOOLEAN /\ rr = 0 /\ healthy \subseteq Pool /\ ready \subseteq Pool
      /\ seen = Watched(healthy, ready)
  BY DEF PickInit
<1>3. PickTypes
  <2>1. seen \in [ok : SUBSET Pool, well : SUBSET Pool, willing : SUBSET Pool, calm : BOOLEAN]
    BY <1>2 DEF Watched, AvailableNow
  <2>2. 1 \in 1..N /\ N \in Nat \ {0} /\ backends \in [1..N -> Pool] /\ <<>> \in Seq(Pool)
    BY PoolSize
  <2> QED BY <1>1, <1>2, <2>1, <2>2 DEF PickTypes
<1>4. Permuted
  BY <1>1, PoolSize DEF Permuted
<1>5. Watching
  BY <1>2 DEF Watching, Watched
<1> QED BY <1>1, <1>3, <1>4, <1>5 DEF PickInv

LEMMA StepPicks ==
  ASSUME PickInv, [PickNext]_pickVars
  PROVE  PickInv'
<1>1. rr \in Nat /\ healthy \subseteq Pool /\ ready \subseteq Pool
  BY DEF PickInv, PickTypes
<1>2. ASSUME NEW b \in Pool, FlipHealth(b) \/ FlipReady(b) PROVE PickInv'
  <2>1. Toggle(healthy, b) \in SUBSET Pool /\ Toggle(ready, b) \in SUBSET Pool
    BY <1>1 DEF Toggle
  <2> QED BY <1>1, <1>2, <2>1, ChangeKeeps DEF FlipHealth, FlipReady
<1>3. ASSUME NEW max \in Attempts, PickKeyless(max) PROVE PickInv'
  <2> DEFINE f == Rotation(rr % N)
  <2>1. Begin(f, FALSE, max) /\ rr' = rr + 1
    BY <1>3, Zenon DEF PickKeyless
  <2>2. /\ f \in [1..N -> Pool]
        /\ \A a, c \in 1..N : f[a] = f[c] => a = c
        /\ \A b \in Pool : \E a \in 1..N : f[a] = b
    BY <1>1, RotationPermutes
  <2> HIDE DEF f
  <2>3. rr' \in Nat /\ max \in Int
    BY <1>1, <2>1, PoolSize
  <2> QED BY <2>1, <2>2, <2>3, BeginKeeps, Zenon
<1>4. ASSUME NEW max \in Attempts, NEW order \in Orders,
             PickKeyed(order, max)
      PROVE  PickInv'
  <2>1. Begin(order, TRUE, max) /\ rr' \in Nat
    BY <1>1, <1>4, Zenon DEF PickKeyed
  <2>2. /\ order \in [1..N -> Pool]
        /\ \A a, c \in 1..N : order[a] = order[c] => a = c
        /\ \A b \in Pool : \E a \in 1..N : order[a] = b
    BY DEF Orders, Distinct, Members
  <2> QED BY <1>4, <2>1, <2>2, PoolSize, BeginKeeps, Zenon
<1>5. CASE UNCHANGED pickVars
  <2>1. Kept /\ p' = p
    BY <1>5 DEF pickVars, Kept
  <2>2. PickTypes' /\ Permuted' /\ Watching'
    BY <2>1, KeptSame, Zenon DEF PickInv, PickTypes, Permuted, Kept
  <2>3. Sure' = Sure /\ \A c : In(c)' <=> In(c)
    BY <2>1, KeptSame DEF Sure, In, Kept
  <2>4. ASSUME p.pc # "idle" PROVE (Scan /\ Places)'
    <3>1. Listed' /\ Owner'
      BY <2>1, <2>4, KeptSame DEF PickInv, Scan, Listed, Owner, Kept
    <3>2. Passed' /\ Fit'
      BY <2>1, <2>3, <2>4, KeptSame DEF PickInv, Scan, Passed, Fit, Kept
    <3>3. Exact'
      BY <2>1, <2>3, <2>4, ExactSame DEF PickInv, Scan
    <3>4. Places'
      BY <2>1, <2>4, KeptSame, Zenon DEF PickInv, Places, Kept, In
    <3> QED BY <3>1, <3>2, <3>3, <3>4 DEF Scan
  <2> QED BY <2>1, <2>2, <2>4 DEF PickInv
<1> QED
  BY <1>2, <1>3, <1>4, <1>5, LookKeeps, AskBreakerKeeps, EndScanKeeps, ReturnKeeps
     DEF PickNext

LEMMA PickAlways == PickSpec => []PickInv
<1>1. PickInit => PickInv
  BY InitPicks
<1>2. PickInv /\ [PickNext]_pickVars => PickInv'
  BY StepPicks
<1> QED BY <1>1, <1>2, PTL DEF PickSpec

\* A backend that stays available while Pick scans and is first in the order is the
\* first candidate, whatever the health checker and the breakers do to the others:
\* collectRing's short list, its widening and the ladder never lose the owner of a key.
THEOREM OwnerFirstHolds == PickSpec => []OwnerFirst
<1>1. PickInv => OwnerFirst
  <2> SUFFICES ASSUME PickInv, p.pc = "done", Head(p.order) \in seen.ok
               PROVE  Head(p.out) = Head(p.order)
    BY DEF OwnerFirst, Answered
  <2>1. N \in Nat \ {0} /\ p.order \in [1..N -> Pool] /\ p.out \in Seq(Pool)
    BY DEF PickInv, PickTypes
  <2>2. Head(p.order) = p.order[1] /\ (p.out # <<>> => Head(p.out) = p.out[1])
    BY <2>1
  <2>3. p.rung = "available" /\ p.out # <<>>
    BY DEF PickInv, Scan, Listed, Places
  <2> QED BY <2>2, <2>3 DEF PickInv, Scan, Owner
<1> QED BY <1>1, PickAlways, PTL

\* Whatever changes while it scans, Pick answers with at least one backend, at most as
\* many as asked for and none twice; and while somebody stays available the ladder is
\* not left, so every candidate was seen healthy and its breaker ready.
THEOREM NoSickCandidateHolds == PickSpec => []NoSickCandidate
<1>1. PickInv => NoSickCandidate
  <2> SUFFICES ASSUME PickInv, p.pc = "done" PROVE NoSickCandidate
    BY DEF NoSickCandidate, Answered
  <2>1. p.out \in Seq(Pool) /\ p.max \in Nat
    BY DEF PickInv, PickTypes
  <2>2. p.out # <<>> /\ Fit /\ Listed
    BY DEF PickInv, Scan, Places
  <2>3. Len(p.out) \in 1 .. p.max
    BY <2>1, <2>2 DEF Fit
  <2>4. Distinct(p.out)
    BY <2>1, <2>2 DEF Fit, Distinct
  <2>5. \A b \in Members(p.out) : In(b) /\ b \in Pool
    BY <2>1, Candidates DEF In
  <2>6. ASSUME seen.ok # {}, NEW b \in Members(p.out)
        PROVE  b \in seen.well /\ (breakerEnabled => b \in seen.willing)
    BY <2>2, <2>5, <2>6 DEF Fit, Listed
  <2> QED BY <2>3, <2>4, <2>6 DEF NoSickCandidate
<1> QED BY <1>1, PickAlways, PTL

\* When nothing changes during Pick, the short list of the ring, the widening and the
\* three rungs together return the first members of the best rung that holds anyone,
\* as many as asked for or as there are, in preference order.
THEOREM ExactWhenCalmHolds == PickSpec => []ExactWhenCalm
<1>1. PickInv => ExactWhenCalm
  <2> SUFFICES ASSUME PickInv, p.pc = "done", seen.calm PROVE ExactWhenCalm
    BY DEF ExactWhenCalm, Answered
  <2>1. /\ p.out \in Seq(Pool) /\ p.max \in Nat /\ p.i \in Nat /\ N \in Nat
        /\ p.rung \in {"available", "healthy", "any"}
    BY DEF PickInv, PickTypes
  <2>2. p.out # <<>> /\ (Len(p.out) = p.max \/ (Len(p.ids) = N /\ p.i > N))
    BY DEF PickInv, Places
  <2>3. Listed /\ Passed /\ Fit /\ Exact
    BY DEF PickInv, Scan
  <2>4. \A b : b \in Members(p.out) <=> In(b)
    BY <2>1, Candidates
  <2>5. ASSUME NEW b, In(b) PROVE b \in Sure /\ \E a \in 1..N : p.order[a] = b
    <3>1. b \in Pool
      BY <2>1, <2>5 DEF In
    <3> QED BY <2>3, <2>5, <3>1 DEF Exact, PickInv, Permuted
  <2>6. Best = Sure
    <3>1. Sure # {}
      <4>1. In(p.out[1])
        BY <2>1, <2>2 DEF In
      <4> QED BY <2>5, <4>1
    <3>2. seen.ok = AvailableNow(healthy, ready)
      BY DEF PickInv, Watching
    <3> QED BY <2>1, <2>3, <3>1, <3>2 DEF Best, Sure, Listed
  <2>7. ASSUME NEW j \in DOMAIN p.out, NEW l \in DOMAIN p.out, j < l
        PROVE  Before(p.out[j], p.out[l])
    <3>1. j \in 1..Len(p.out) /\ l \in 1..Len(p.out) /\ In(p.out[j]) /\ In(p.out[l])
      BY <2>1, <2>7 DEF In
    <3>2. PICK a \in 1..N, c \in 1..N : p.order[a] = p.out[j] /\ p.order[c] = p.out[l]
      BY <2>5, <3>1
    <3>3. a < c
      BY <2>3, <2>7, <3>1, <3>2 DEF Exact
    <3> QED BY <3>2, <3>3 DEF Before
  <2>8. ASSUME NEW b \in Sure, ~In(b)
        PROVE  Len(p.out) = p.max /\ \A c : In(c) => Before(c, b)
    <3>1. PICK k \in 1..N : p.order[k] = b
      BY <2>8 DEF PickInv, PickTypes, Permuted, Sure
    <3>2. Len(p.out) = p.max
      <4>1. Len(p.ids) = N /\ p.i > N => In(b)
        BY <2>1, <2>3, <2>8, <3>1 DEF Listed, Passed
      <4> QED BY <2>2, <2>8, <4>1
    <3>3. ASSUME NEW c, In(c) PROVE Before(c, b)
      <4>1. PICK a \in 1..N : p.order[a] = c
        BY <2>5, <3>3
      <4>2. ~(k <= a)
        BY <2>3, <2>8, <3>1, <3>3, <4>1 DEF Exact
      <4>3. a < k
        BY <4>2
      <4> QED BY <3>1, <4>1, <4>3 DEF Before
    <3> QED BY <3>2, <3>3
  <2>9. Len(p.out) <= p.max
    BY <2>3 DEF Fit
  <2> QED BY <2>4, <2>5, <2>6, <2>7, <2>8, <2>9, Zenon DEF ExactWhenCalm
<1> QED BY <1>1, PickAlways, PTL

-----------------------------------------------------------------------------
(* The checker, for every set of backends and of callers of Stop, every    *)
(* configured Rise and Fall, and any number of probes.                     *)

\* New raises the thresholds to one, whatever was configured.
LEMMA Thresholds == rise \in Nat \ {0} /\ fall \in Nat \ {0}
  BY HealthAssumption DEF rise, fall

Results == {"healthy", "unhealthy"}

-----------------------------------------------------------------------------
(* Stop.                                                                   *)

\* A caller past the closing of the stop channel, and what is not spawned yet.
StopInv ==
    /\ \A c \in Stoppers : caller[c] # "idle" => stop
    /\ ~started => Live = {} /\ ~WatcherLive
    /\ QuietAfterStop

LEMMA StopInductive ==
  ASSUME TypeOK, StopInv, [Next]_vars
  PROVE  StopInv'
<1> USE DEF StopInv, QuietAfterStop, Live, WatcherLive, signals, TypeOK
<1>1. CASE Start
  BY <1>1 DEF Start
<1>2. CASE ParentEnds \/ WatcherExits
  BY <1>2 DEF ParentEnds, WatcherExits
<1>3. ASSUME NEW c \in Stoppers, Stop(c) PROVE StopInv'
  BY <1>3 DEF Stop
<1>4. ASSUME NEW c \in Stoppers, StopReturns(c) PROVE StopInv'
  BY <1>4 DEF StopReturns
<1>5. ASSUME NEW b \in Backends, Probe(b) \/ Publish(b) \/ Wake(b) \/ Exit(b) PROVE StopInv'
  <2>1. b \in Live /\ UNCHANGED <<watcher, signals, caller>>
    BY <1>5 DEF Probe, Publish, Wake, Exit
  <2> QED BY <2>1
<1>6. CASE UNCHANGED vars
  BY <1>6 DEF vars
<1> QED BY <1>1, <1>2, <1>3, <1>4, <1>5, <1>6, Zenon DEF Next

-----------------------------------------------------------------------------
(* The history of probes, and what the counters remember of it.            *)

\* The last m results of h, or the m of them that end at e.
Streak(h, s, e, m) == \A j \in e-m+1 .. e : h[j] = s

\* A counter that stands at m, and stops at limit, counts the run of s that ends h.
Remembers(h, s, m, limit) ==
    /\ m \in 0..limit /\ m <= Len(h)
    /\ Streak(h, s, Len(h), m)
    /\ m < limit /\ m < Len(h) => h[Len(h) - m] # s

LEMMA LastRunAppend ==
  ASSUME NEW h \in Seq(Results), NEW r \in Results, NEW s \in Results, NEW n \in Nat \ {0},
         LastRun(h, s, n) \in 0..Len(h)
  PROVE  LET g == Append(h, r)
         IN  LastRun(g, s, n) = IF n <= Len(g) /\ Streak(g, s, Len(g), n) THEN Len(g)
                                ELSE LastRun(h, s, n)
<1> DEFINE g == Append(h, r)
           old == {i \in n..Len(h) : \A j \in i-n+1..i : h[j] = s}
           new == {i \in n..Len(g) : \A j \in i-n+1..i : g[j] = s}
<1>1. Len(g) = Len(h) + 1 /\ Len(h) \in Nat /\ \A j \in 1..Len(h) : g[j] = h[j]
  OBVIOUS
<1> HIDE DEF g
<1>2. ASSUME NEW i \in n..Len(h), NEW j \in i-n+1..i PROVE j \in 1..Len(h)
  BY <1>1
<1>3. ASSUME NEW i \in n..Len(h) PROVE i \in old <=> i \in new
  <2>1. i \in n..Len(g)
    BY <1>1
  <2>2. \A j \in i-n+1..i : g[j] = h[j]
    BY <1>1, <1>2
  <2> QED BY <2>1, <2>2
<1>4. CASE n <= Len(g) /\ Streak(g, s, Len(g), n)
  <2>1. Len(g) \in new /\ \A i \in new : i <= Len(g) /\ i \in Int
    BY <1>1, <1>4 DEF Streak
  <2>2. LastRun(g, s, n) = CHOOSE i \in new : \A j \in new : j <= i
    BY <2>1, Zenon DEF LastRun
  <2> HIDE DEF new
  <2>3. \A i \in new : (\A j \in new : j <= i) => i = Len(g)
    BY <1>1, <2>1
  <2>4. LastRun(g, s, n) = Len(g)
    BY <2>1, <2>2, <2>3
  <2> QED BY <1>4, <2>4 DEF g
<1>5. CASE ~(n <= Len(g) /\ Streak(g, s, Len(g), n))
  <2>1. Len(g) \notin new
    BY <1>1, <1>5 DEF Streak
  <2>2. new = old
    <3>1. \A i \in new : i \in n..Len(h)
      BY <1>1, <2>1
    <3>2. \A i \in old : i \in n..Len(h)
      OBVIOUS
    <3> QED BY <1>3, <3>1, <3>2, Zenon
  <2>3. /\ LastRun(g, s, n) = IF new = {} THEN 0 ELSE CHOOSE i \in new : \A j \in new : j <= i
        /\ LastRun(h, s, n) = IF old = {} THEN 0 ELSE CHOOSE i \in old : \A j \in old : j <= i
    BY DEF LastRun
  <2> HIDE DEF new, old
  <2>4. LastRun(g, s, n) = LastRun(h, s, n)
    BY <2>2, <2>3
  <2> QED BY <1>5, <2>4 DEF g
<1> QED BY <1>4, <1>5

\* A result that continues the run counts it up to the limit ...
LEMMA RemembersMore ==
  ASSUME NEW h \in Seq(Results), NEW s \in Results, NEW limit \in Nat \ {0}, NEW m,
         Remembers(h, s, m, limit)
  PROVE  LET g == Append(h, s)
         IN  /\ Remembers(g, s, Clamped(m, limit), limit)
             /\ Clamped(m, limit) >= limit <=> limit <= Len(g) /\ Streak(g, s, Len(g), limit)
<1> DEFINE g == Append(h, s)
<1>1. /\ Len(g) = Len(h) + 1 /\ Len(h) \in Nat /\ \A j \in 1..Len(h) : g[j] = h[j]
      /\ g[Len(g)] = s
  OBVIOUS
<1> HIDE DEF g
<1>2. m \in Nat /\ m <= limit /\ m <= Len(h) /\ Clamped(m, limit) \in m..m+1
  BY DEF Remembers, Clamped
<1>3. Streak(g, s, Len(g), m + 1)
  BY <1>1, <1>2 DEF Remembers, Streak
<1>4. Streak(g, s, Len(g), Clamped(m, limit))
  BY <1>1, <1>2, <1>3 DEF Streak
<1>5. Clamped(m, limit) < limit => Clamped(m, limit) = m + 1
  BY <1>2 DEF Clamped
<1>6. m + 1 < limit /\ m < Len(h) => g[Len(g) - (m + 1)] # s
  BY <1>1, <1>2 DEF Remembers
<1>7. Remembers(g, s, Clamped(m, limit), limit)
  BY <1>1, <1>2, <1>4, <1>5, <1>6 DEF Remembers, Clamped
<1>8. m + 1 < limit => ~(limit <= Len(g) /\ Streak(g, s, Len(g), limit))
  <2> SUFFICES ASSUME m + 1 < limit, limit <= Len(g), Streak(g, s, Len(g), limit) PROVE FALSE
    OBVIOUS
  <2>1. m < Len(h) /\ Len(g) - (m + 1) \in Len(g) - limit + 1 .. Len(g)
    BY <1>1, <1>2
  <2> QED BY <1>6, <2>1 DEF Streak
<1>9. m + 1 >= limit => /\ Clamped(m, limit) >= limit
                        /\ limit <= Len(g) /\ Streak(g, s, Len(g), limit)
  <2> SUFFICES ASSUME m + 1 >= limit
               PROVE  /\ Clamped(m, limit) >= limit
                      /\ limit <= Len(g) /\ Streak(g, s, Len(g), limit)
    OBVIOUS
  <2>1. Clamped(m, limit) >= limit /\ limit <= Len(g)
    BY <1>1, <1>2 DEF Clamped
  <2>2. Streak(g, s, Len(g), limit)
    BY <1>1, <1>2, <1>3 DEF Streak
  <2> QED BY <2>1, <2>2
<1>10. Clamped(m, limit) >= limit => m + 1 >= limit
  BY <1>2 DEF Clamped
<1>11. Clamped(m, limit) >= limit <=> limit <= Len(g) /\ Streak(g, s, Len(g), limit)
  BY <1>2, <1>8, <1>9, <1>10
<1> QED BY <1>7, <1>11 DEF g

\* ... and one that breaks it starts over.
LEMMA RemembersNone ==
  ASSUME NEW h \in Seq(Results), NEW s \in Results, NEW r \in Results, r # s,
         NEW limit \in Nat \ {0}
  PROVE  LET g == Append(h, r)
         IN  Remembers(g, s, 0, limit) /\ ~Streak(g, s, Len(g), limit)
<1> DEFINE g == Append(h, r)
<1>1. Len(g) = Len(h) + 1 /\ Len(h) \in Nat /\ g[Len(g)] = r
  OBVIOUS
<1> HIDE DEF g
<1>2. Remembers(g, s, 0, limit) /\ ~Streak(g, s, Len(g), limit)
  BY <1>1 DEF Remembers, Streak
<1> QED BY <1>2 DEF g

-----------------------------------------------------------------------------
(* record.                                                                 *)

Verdict(up, down) ==
    CASE up > down -> "healthy"
      [] down > up -> "unhealthy"
      [] OTHER -> "unknown"

\* State s and counters c are what record makes of the history h.
Follows(h, c, s) ==
    /\ c = [success |-> c.success, failure |-> c.failure]
    /\ Remembers(h, "healthy", c.success, rise)
    /\ Remembers(h, "unhealthy", c.failure, fall)
    /\ LastRun(h, "healthy", rise) \in 0..Len(h)
    /\ LastRun(h, "unhealthy", fall) \in 0..Len(h)
    /\ s = Verdict(LastRun(h, "healthy", rise), LastRun(h, "unhealthy", fall))

LEMMA EmptyFollows == Follows(<<>>, [success |-> 0, failure |-> 0], "unknown")
<1>1. ASSUME NEW s \in Results, NEW n \in Nat \ {0}
      PROVE  Remembers(<<>>, s, 0, n) /\ LastRun(<<>>, s, n) = 0
  <2>1. {i \in n..Len(<<>>) : \A j \in i-n+1..i : <<>>[j] = s} = {}
    OBVIOUS
  <2> QED BY <2>1 DEF Remembers, Streak, LastRun
<1> QED BY <1>1, Thresholds DEF Follows, Verdict, Results

\* One result moves the state exactly as it moves the last runs of the history.
LEMMA RecordFollows ==
  ASSUME NEW h \in Seq(Results), NEW c, NEW old, NEW s \in Results, Follows(h, c, old)
  PROVE  Follows(Append(h, s), Counted(c, s), Target(old, Counted(c, s), s))
<1> DEFINE g == Append(h, s)
           st == Counted(c, s)
           up == LastRun(h, "healthy", rise)
           down == LastRun(h, "unhealthy", fall)
           longUp == rise <= Len(g) /\ Streak(g, "healthy", Len(g), rise)
           longDown == fall <= Len(g) /\ Streak(g, "unhealthy", Len(g), fall)
<1>1. /\ Len(g) = Len(h) + 1 /\ Len(h) \in Nat
      /\ up \in 0..Len(h) /\ down \in 0..Len(h) /\ old = Verdict(up, down)
      /\ Remembers(h, "healthy", c.success, rise) /\ Remembers(h, "unhealthy", c.failure, fall)
  BY DEF Follows
<1>2. LastRun(g, "healthy", rise) = IF longUp THEN Len(g) ELSE up
  BY <1>1, Thresholds, LastRunAppend DEF Results
<1>3. LastRun(g, "unhealthy", fall) = IF longDown THEN Len(g) ELSE down
  BY <1>1, Thresholds, LastRunAppend DEF Results
<1>4. CASE s = "healthy"
  <2>1. /\ Remembers(g, "healthy", Clamped(c.success, rise), rise)
        /\ Clamped(c.success, rise) >= rise <=> longUp
    BY <1>1, <1>4, Thresholds, RemembersMore DEF Results
  <2>2. Remembers(g, "unhealthy", 0, fall) /\ ~longDown
    BY <1>4, Thresholds, RemembersNone DEF Results
  <2>3. st = [success |-> Clamped(c.success, rise), failure |-> 0]
    BY <1>4 DEF Counted
  <2> HIDE DEF g, st, up, down, longUp, longDown
  <2>4. Target(old, st, s) = IF longUp THEN "healthy" ELSE old
    BY <1>4, <2>1, <2>3 DEF Target
  <2>5. Verdict(IF longUp THEN Len(g) ELSE up, down) = IF longUp THEN "healthy" ELSE old
    BY <1>1 DEF Verdict
  <2>6. Follows(g, st, Target(old, st, s))
    BY <1>1, <1>2, <1>3, <2>1, <2>2, <2>3, <2>4, <2>5 DEF Follows
  <2> QED BY <2>6 DEF g, st
<1>5. CASE s = "unhealthy"
  <2>1. /\ Remembers(g, "unhealthy", Clamped(c.failure, fall), fall)
        /\ Clamped(c.failure, fall) >= fall <=> longDown
    BY <1>1, <1>5, Thresholds, RemembersMore DEF Results
  <2>2. Remembers(g, "healthy", 0, rise) /\ ~longUp
    BY <1>5, Thresholds, RemembersNone DEF Results
  <2>3. st = [success |-> 0, failure |-> Clamped(c.failure, fall)]
    BY <1>5 DEF Counted
  <2> HIDE DEF g, st, up, down, longUp, longDown
  <2>4. Target(old, st, s) = IF longDown THEN "unhealthy" ELSE old
    BY <1>5, <2>1, <2>3 DEF Target
  <2>5. Verdict(up, IF longDown THEN Len(g) ELSE down) = IF longDown THEN "unhealthy" ELSE old
    BY <1>1 DEF Verdict
  <2>6. Follows(g, st, Target(old, st, s))
    BY <1>1, <1>2, <1>3, <2>1, <2>2, <2>3, <2>4, <2>5 DEF Follows
  <2> QED BY <2>6 DEF g, st
<1> QED BY <1>4, <1>5 DEF Results

-----------------------------------------------------------------------------
(* The inductive invariant.                                                *)

IInv ==
    /\ TypeOK
    /\ StopInv
    /\ \A b \in Backends : Follows(hist[b], counters[b], state[b])
    /\ \A b \in Backends : loop[b] # "publishing" => gauge[b] = (state[b] = "healthy")

LEMMA ProbeKeeps ==
  ASSUME IInv, NEW b \in Backends, Probe(b)
  PROVE  IInv'
<1>1. PICK answer \in Answers :
        LET s == CheckOnce(answer)
            st == Counted(counters[b], s)
            target == Target(state[b], st, s)
        IN /\ counters' = [counters EXCEPT ![b] = st]
           /\ state' = [state EXCEPT ![b] = target]
           /\ loop' = [loop EXCEPT ![b] = IF target # state[b] THEN "publishing" ELSE "waiting"]
           /\ hist' = [hist EXCEPT ![b] = Append(@, s)]
  BY Zenon DEF Probe
<1> DEFINE s == CheckOnce(answer)
           st == Counted(counters[b], s)
           target == Target(state[b], st, s)
<1>2. s \in Results
  BY DEF CheckOnce, Results
<1>3. /\ loop[b] = "probing" /\ UNCHANGED <<gauge, watcher, signals, caller>>
  BY DEF Probe
<1>4. Follows(Append(hist[b], s), st, target)
  BY <1>2, RecordFollows DEF IInv, TypeOK, Results
<1> HIDE DEF s
<1>5. st \in [success : 0..rise, failure : 0..fall] /\ target \in States
  <2>1. st.success \in 0..rise /\ st.failure \in 0..fall
    BY <1>4 DEF Follows, Remembers
  <2>2. st = [success |-> st.success, failure |-> st.failure]
    BY <1>4 DEF Follows
  <2>3. target \in States
    BY DEF Target, States, IInv, TypeOK
  <2> QED BY <2>1, <2>2, <2>3
<1> HIDE DEF st, target
<1>6. /\ counters' = [counters EXCEPT ![b] = st]
      /\ state' = [state EXCEPT ![b] = target]
      /\ loop' = [loop EXCEPT ![b] = IF target # state[b] THEN "publishing" ELSE "waiting"]
      /\ hist' = [hist EXCEPT ![b] = Append(hist[b], s)]
  BY <1>1 DEF s, st, target
<1>7. TypeOK'
  BY <1>2, <1>3, <1>5, <1>6 DEF IInv, TypeOK, signals, Results
<1>8. StopInv'
  BY StopInductive DEF IInv, Next
<1>9. \A a \in Backends : Follows(hist[a], counters[a], state[a])'
  BY <1>4, <1>6 DEF IInv, TypeOK
<1>10. \A a \in Backends : (loop[a] # "publishing" => gauge[a] = (state[a] = "healthy"))'
  BY <1>3, <1>6 DEF IInv, TypeOK
<1> QED BY <1>7, <1>8, <1>9, <1>10, Zenon DEF IInv

LEMMA OthersKeep ==
  ASSUME IInv,
         \/ Start \/ ParentEnds \/ WatcherExits
         \/ \E c \in Stoppers : Stop(c) \/ StopReturns(c)
         \/ \E b \in Backends : Publish(b) \/ Wake(b) \/ Exit(b)
         \/ UNCHANGED vars
  PROVE  IInv'
<1>1. UNCHANGED <<state, counters, hist>>
  BY Zenon DEF Start, ParentEnds, WatcherExits, Stop, StopReturns, Publish, Wake, Exit, vars
<1>2. TypeOK'
  <2> USE <1>1 DEF IInv, TypeOK, signals
  <2>1. CASE Start \/ ParentEnds \/ WatcherExits
    BY <2>1, Zenon DEF Start, ParentEnds, WatcherExits
  <2>2. CASE \E c \in Stoppers : Stop(c) \/ StopReturns(c)
    BY <2>2, Zenon DEF Stop, StopReturns
  <2>3. CASE \E b \in Backends : Publish(b) \/ Wake(b) \/ Exit(b)
    BY <2>3, Zenon DEF Publish, Wake, Exit
  <2>4. CASE UNCHANGED vars
    BY <2>4, Zenon DEF vars
  <2> QED BY <2>1, <2>2, <2>3, <2>4, Zenon
<1>3. StopInv'
  BY StopInductive, Zenon DEF IInv, Next
<1>4. \A b \in Backends : (loop[b] # "publishing" => gauge[b] = (state[b] = "healthy"))'
  <2>1. CASE Start
    BY <1>1, <2>1, Zenon DEF Start, IInv, TypeOK, StopInv, Live
  <2>2. CASE \/ ParentEnds \/ WatcherExits \/ UNCHANGED vars
             \/ \E c \in Stoppers : Stop(c) \/ StopReturns(c)
    <3>1. loop' = loop /\ gauge' = gauge
      BY <2>2, Zenon DEF ParentEnds, WatcherExits, Stop, StopReturns, vars
    <3> QED BY <1>1, <3>1, Zenon DEF IInv
  <2>3. CASE \E b \in Backends : Publish(b) \/ Wake(b) \/ Exit(b)
    BY <1>1, <2>3 DEF Publish, Wake, Exit, IInv, TypeOK
  <2> QED BY <2>1, <2>2, <2>3, Zenon
<1> QED BY <1>1, <1>2, <1>3, <1>4, Zenon DEF IInv

LEMMA Inductive == Spec => []IInv
<1>1. Init => IInv
  <2> SUFFICES ASSUME Init PROVE IInv
    OBVIOUS
  <2>1. TypeOK
    <3>1. [success |-> 0, failure |-> 0] \in [success : 0..rise, failure : 0..fall]
      BY Thresholds
    <3>2. <<>> \in Seq({"healthy", "unhealthy"})
      OBVIOUS
    <3> QED BY <3>1, <3>2, Zenon DEF Init, TypeOK, States
  <2>2. StopInv
    BY DEF Init, StopInv, QuietAfterStop, Live, WatcherLive
  <2>3. \A b \in Backends : Follows(hist[b], counters[b], state[b])
    BY EmptyFollows DEF Init
  <2>4. \A b \in Backends : loop[b] # "publishing" => gauge[b] = (state[b] = "healthy")
    BY Zenon DEF Init
  <2> QED BY <2>1, <2>2, <2>3, <2>4 DEF IInv
<1>2. IInv /\ [Next]_vars => IInv'
  BY ProbeKeeps, OthersKeep DEF Next
<1> QED BY <1>1, <1>2, PTL DEF Spec

\* Once a Stop has returned no goroutine of the checker is left or started again,
\* however many callers stop it and whenever Start runs (Start, Stop, probeLoop).
THEOREM QuietTheorem == Spec => []QuietAfterStop
<1>1. IInv => QuietAfterStop
  BY DEF IInv, StopInv
<1> QED BY <1>1, Inductive, PTL

\* The two clamped counters of record decide the state as the whole history of the
\* probes would, for all thresholds, and the gauge follows it (record, probe).
THEOREM DampedTheorem == Spec => []Damped
<1>1. IInv => Damped
  BY Zenon DEF IInv, Damped, Follows, Verdict
<1> QED BY <1>1, Inductive, PTL
=============================================================================
