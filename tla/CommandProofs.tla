---------------------------- MODULE CommandProofs ---------------------------
(***************************************************************************)
(* Proofs about the two programs.                                          *)
(*                                                                         *)
(* cmd/loadgen is LoadGen, under the name Gen below.  cmd/lb is Process,   *)
(* for every set of requests and every set of inputs: nothing is left      *)
(* behind when runWith returns but what ends by itself, nothing flips      *)
(* while it drains, its steps are steps of Drain, and what resolveConfig   *)
(* accepts can be built.                                                   *)
(***************************************************************************)
EXTENDS Process, TLAPS

-----------------------------------------------------------------------------
(* The load generator, for any number of slots and of workers, and any     *)
(* delays.  A slot goes from the scheduler through the channel to a worker *)
(* and ends as a sample; nobody else has it meanwhile.                     *)

CONSTANTS Planned, Budgets, MaxWorkers, SLO, Duration, MaxCalls, MaxTime
VARIABLES opts, stage, now, ctxDone, sched, next, slots, closed, worker, perWorker, interrupted

Gen == INSTANCE LoadGen WITH main <- stage, Rates <- Planned

\* What worker w was handed: its samples, then the call in flight.
Calls(w) == Len(perWorker[w]) + (IF worker[w].pc = "calling" THEN 1 ELSE 0)
SlotOf(w, k) ==
    IF k <= Len(perWorker[w]) THEN perWorker[w][k].scheduledAt ELSE worker[w].scheduledAt

\* The slots handed over are those below this one.
Handed == next - Len(slots)

Sample == [scheduledAt : Nat, completedAt : Nat, code : {"OK", "Unavailable"}]

GenTypes ==
    /\ opts.n \in Nat /\ opts.workers \in Nat \ {0} /\ ctxDone \in BOOLEAN
    /\ now \in Nat /\ next \in Nat /\ slots \in Seq(Nat) /\ closed \in BOOLEAN
    /\ worker \in [Gen!Workers -> [pc : {"recv", "calling", "done"}, scheduledAt : Nat]]
    /\ perWorker \in [Gen!Workers -> Seq(Sample)]

\* The channel holds the slots last sent, in order; it is closed at the end of the
\* schedule, and a worker leaves only then.
Channel ==
    /\ next <= opts.n /\ Len(slots) <= next
    /\ \A k \in 1..Len(slots) : slots[k] = Handed + k - 1
    /\ sched = "send" => next < opts.n
    /\ closed => next = opts.n
    /\ \A w \in Gen!Workers : worker[w].pc = "done" => slots = <<>> /\ closed

Known == \A w \in Gen!Workers : \A k \in 1..Calls(w) : SlotOf(w, k) \in 0..Handed-1
Found == \A i \in 0..Handed-1 : \E w \in Gen!Workers : \E k \in 1..Calls(w) : SlotOf(w, k) = i
Once ==
    \A v, w \in Gen!Workers : \A k \in 1..Calls(v), l \in 1..Calls(w) :
        SlotOf(v, k) = SlotOf(w, l) => v = w /\ k = l

GenInv ==
    /\ GenTypes
    /\ stage = "done" => \A w \in Gen!Workers : worker[w].pc = "done"
    /\ opts.mode = "open" /\ ~ctxDone => Channel /\ Known /\ Found /\ Once

LEMMA GenInit ==
  ASSUME Gen!LoadGenAssumption, Gen!Init
  PROVE  GenInv
<1>1. opts.n \in Nat /\ opts.workers \in Nat \ {0}
  <2>1. Planned \subseteq Nat /\ MaxWorkers \in Nat \ {0}
    BY Zenon DEF Gen!LoadGenAssumption
  <2>2. opts \in [mode : {"open", "closed"}, n : Planned, workers : 1 .. MaxWorkers]
    BY Zenon DEF Gen!Init
  <2>3. opts.n \in Planned /\ opts.workers \in 1 .. MaxWorkers
    BY <2>2
  <2>4. opts.n \in Nat
    BY <2>1, <2>3, Zenon
  <2>5. \A k \in 1 .. MaxWorkers : k \in Nat \ {0}
    BY <2>1
  <2> QED BY <2>3, <2>4, <2>5, Zenon
<1>2. /\ stage = "connect" /\ now = 0 /\ sched = "wait" /\ next = 0 /\ slots = <<>>
      /\ ctxDone \in BOOLEAN /\ closed \in BOOLEAN /\ ~closed
  BY Zenon DEF Gen!Init
<1>3. /\ \A w \in Gen!Workers : perWorker[w] = <<>> /\ worker[w].pc = "recv"
      /\ worker \in [Gen!Workers -> [pc : {"recv", "calling", "done"}, scheduledAt : Nat]]
      /\ perWorker \in [Gen!Workers -> Seq(Sample)]
  BY DEF Gen!Init, Gen!Idle
<1>4. GenTypes
  BY <1>1, <1>2, <1>3 DEF GenTypes
<1>5. Channel
  BY <1>1, <1>2, <1>3 DEF Channel
<1>6. Handed = 0 /\ \A w \in Gen!Workers : Calls(w) = 0
  <2>1. Len(<<>>) = 0 /\ 0 - 0 = 0 /\ 0 + 0 = 0
    OBVIOUS
  <2> QED BY <1>2, <1>3, <2>1, Zenon DEF Handed, Calls
<1>7. Known /\ Found /\ Once
  BY <1>6 DEF Known, Found, Once
<1> QED BY <1>2, <1>4, <1>5, <1>7 DEF GenInv

\* Steps that hand nothing over.
LEMMA BookKept ==
  ASSUME GenInv, UNCHANGED <<opts, worker, perWorker>>, Handed' = Handed
  PROVE  Known /\ Found /\ Once => (Known /\ Found /\ Once)'
<1>1. Gen!Workers' = Gen!Workers
  BY DEF Gen!Workers
<1>2. \A w : Calls(w)' = Calls(w)
  BY DEF Calls
<1>3. \A w, k : SlotOf(w, k)' = SlotOf(w, k)
  BY DEF SlotOf
<1> QED BY <1>1, <1>2, <1>3 DEF Known, Found, Once

LEMMA TickKeeps ==
  ASSUME GenInv, Gen!Tick \/ Gen!Connect \/ Gen!Warmup \/ Gen!Finish \/ UNCHANGED Gen!vars
  PROVE  GenInv'
<1>1. /\ UNCHANGED <<opts, worker, perWorker, ctxDone, sched, next, slots, closed>>
      /\ now' \in Nat
      /\ stage' = "done" => \A w \in Gen!Workers : worker[w].pc = "done"
  <2>1. UNCHANGED <<opts, worker, perWorker, ctxDone, sched, next, slots, closed>>
    BY Zenon DEF Gen!Tick, Gen!Connect, Gen!Warmup, Gen!Finish, Gen!vars, Gen!clock, Gen!svars
  <2>2. now' \in {now, now + 1}
    BY DEF Gen!Tick, Gen!Connect, Gen!Warmup, Gen!Finish, Gen!vars, Gen!clock
  <2>3. stage' = "done" => \A w \in Gen!Workers : worker[w].pc = "done"
    BY DEF Gen!Tick, Gen!Connect, Gen!Warmup, Gen!Finish, Gen!vars, GenInv
  <2> QED BY <2>1, <2>2, <2>3 DEF GenInv, GenTypes
<1>2. Gen!Workers' = Gen!Workers /\ Handed' = Handed
  BY <1>1 DEF Gen!Workers, Handed
<1>3. GenTypes'
  BY <1>1, <1>2 DEF GenInv, GenTypes
<1>4. Channel => Channel'
  BY <1>1, <1>2 DEF Channel
<1> QED BY <1>1, <1>2, <1>3, <1>4, BookKept DEF GenInv

LEMMA InterruptKeeps ==
  ASSUME GenInv, Gen!Interrupt
  PROVE  GenInv'
<1>1. ctxDone' = TRUE /\ UNCHANGED <<opts, stage, now, next, slots, closed, worker, perWorker>>
  BY Zenon DEF Gen!Interrupt, Gen!svars
<1>2. Gen!Workers' = Gen!Workers
  BY <1>1 DEF Gen!Workers
<1>3. ctxDone' \in BOOLEAN /\ ctxDone'
  BY <1>1
<1> QED BY <1>1, <1>2, <1>3 DEF GenInv, GenTypes

LEMMA SchedulerKeeps ==
  ASSUME GenInv, Gen!Scheduler
  PROVE  GenInv'
<1>1. /\ UNCHANGED <<opts, stage, now, ctxDone, worker, perWorker>>
      /\ opts.mode = "open" /\ stage = "run"
  BY Zenon DEF Gen!Scheduler, Gen!SchedWait, Gen!SchedSend, Gen!clock, Gen!Open
<1>2. Gen!Workers' = Gen!Workers
  BY <1>1 DEF Gen!Workers
<1>3. opts.n \in Nat /\ next \in Nat /\ slots \in Seq(Nat) /\ Len(slots) \in Nat /\ closed \in BOOLEAN
  BY DEF GenInv, GenTypes
<1>4. CASE sched = "send" /\ slots' = Append(slots, next) /\ next' = next + 1
             /\ sched' = "wait" /\ UNCHANGED closed
  <2>1. /\ slots' \in Seq(Nat) /\ Len(slots') = Len(slots) + 1
        /\ slots'[Len(slots) + 1] = next /\ \A k \in 1..Len(slots) : slots'[k] = slots[k]
    BY <1>3, <1>4
  <2>2. Handed' = Handed /\ Handed \in Int
    BY <1>3, <1>4, <2>1 DEF Handed
  <2>3. GenTypes'
    BY <1>1, <1>2, <1>3, <1>4, <2>1 DEF GenInv, GenTypes
  <2>4. ASSUME Channel PROVE Channel'
    <3>1. next < opts.n /\ ~closed /\ Len(slots) <= next
      BY <1>3, <1>4, <2>4 DEF Channel
    <3>2. next' <= opts.n /\ Len(slots') <= next'
      BY <1>3, <1>4, <2>1, <3>1
    <3>3. \A k \in 1..Len(slots') : slots'[k] = Handed + k - 1
      <4>1. \A k \in 1..Len(slots) : slots[k] = Handed + k - 1
        BY <2>4 DEF Channel
      <4>2. next = Handed + (Len(slots) + 1) - 1
        BY <1>3 DEF Handed
      <4>3. \A k \in 1..Len(slots') : k \in 1..Len(slots) \/ k = Len(slots) + 1
        BY <1>3, <2>1
      <4> QED BY <2>1, <4>1, <4>2, <4>3
    <3>4. \A w \in Gen!Workers : worker[w].pc # "done"
      BY <2>4, <3>1 DEF Channel
    <3> QED BY <1>1, <1>2, <1>4, <2>2, <3>1, <3>2, <3>3, <3>4 DEF Channel
  <2> QED BY <1>1, <1>2, <2>2, <2>3, <2>4, BookKept DEF GenInv
<1>5. CASE /\ UNCHANGED <<next, slots>> /\ closed' \in BOOLEAN
           /\ sched' = "send" => next < opts.n
           /\ ~ctxDone /\ closed' => closed \/ next = opts.n
           /\ closed => closed'
  <2>1. Handed' = Handed
    BY <1>5 DEF Handed
  <2>2. GenTypes'
    BY <1>1, <1>2, <1>5 DEF GenInv, GenTypes
  <2>3. ASSUME Channel, ~ctxDone PROVE Channel'
    BY <1>1, <1>2, <1>5, <2>1, <2>3 DEF Channel
  <2> QED BY <1>1, <1>2, <2>1, <2>2, <2>3, BookKept DEF GenInv
<1>6. CASE Gen!SchedWait
  <2>1. UNCHANGED slots
    BY <1>6 DEF Gen!SchedWait
  <2>2. CASE next = opts.n /\ Gen!SchedReturn
    BY <1>5, <2>1, <2>2 DEF Gen!SchedReturn
  <2>3. CASE next < opts.n /\ sched' = "send" /\ UNCHANGED <<next, closed>>
    BY <1>3, <1>5, <2>1, <2>3
  <2>4. CASE ctxDone /\ Gen!SchedReturn
    BY <1>5, <2>1, <2>4 DEF Gen!SchedReturn
  <2> QED BY <1>6, <2>2, <2>3, <2>4, Zenon DEF Gen!SchedWait
<1>7. CASE Gen!SchedSend
  <2>1. CASE ctxDone /\ Gen!SchedReturn /\ UNCHANGED slots
    BY <1>5, <2>1 DEF Gen!SchedReturn
  <2> QED BY <1>4, <1>7, <2>1, Zenon DEF Gen!SchedSend
<1> QED BY <1>6, <1>7 DEF Gen!Scheduler

\* A worker takes the next slot, leaves, or turns its call into a sample.
LEMMA TakeKeeps ==
  ASSUME GenInv, NEW w \in Gen!Workers, Gen!Open, worker[w].pc = "recv", slots # <<>>, ~ctxDone,
         Gen!Call(w, Gen!At(Head(slots))), slots' = Tail(slots),
         UNCHANGED <<opts, stage, now, ctxDone, sched, next, closed, perWorker>>
  PROVE  GenInv'
<1>1. /\ next \in Nat /\ slots \in Seq(Nat) /\ Len(slots) \in Nat \ {0} /\ Head(slots) = slots[1]
      /\ worker \in [Gen!Workers -> [pc : {"recv", "calling", "done"}, scheduledAt : Nat]]
      /\ perWorker \in [Gen!Workers -> Seq(Sample)]
  <2>1. /\ next \in Nat /\ slots \in Seq(Nat)
        /\ worker \in [Gen!Workers -> [pc : {"recv", "calling", "done"}, scheduledAt : Nat]]
        /\ perWorker \in [Gen!Workers -> Seq(Sample)]
    BY DEF GenInv, GenTypes
  <2> QED BY <2>1
<1>2. Gen!Workers' = Gen!Workers
  BY DEF Gen!Workers
<1>3. Channel /\ Known /\ Found /\ Once
  BY DEF GenInv, Gen!Open
<1>4. /\ slots' \in Seq(Nat) /\ Len(slots') = Len(slots) - 1
      /\ \A k \in 1..Len(slots') : slots'[k] = slots[k + 1] /\ k + 1 \in 1..Len(slots)
  BY <1>1
<1>5. Handed \in Nat /\ Handed' = Handed + 1 /\ Head(slots) = Handed
  BY <1>1, <1>3, <1>4 DEF Handed, Channel
<1>6. worker' = [worker EXCEPT ![w] = [pc |-> "calling", scheduledAt |-> Handed]]
  BY <1>5, Zenon DEF Gen!Call, Gen!At
<1>7. GenTypes'
  BY <1>1, <1>2, <1>4, <1>5, <1>6 DEF GenInv, GenTypes
<1>8. Channel'
  <2>1. \A k \in 1..Len(slots') : slots'[k] = Handed' + k - 1
    BY <1>1, <1>3, <1>4, <1>5 DEF Channel
  <2>2. \A v \in Gen!Workers : worker'[v].pc # "done"
    BY <1>1, <1>3, <1>6 DEF Channel
  <2>3. Len(slots') <= next
    BY <1>1, <1>3, <1>4 DEF Channel
  <2> QED BY <1>2, <1>3, <2>1, <2>2, <2>3 DEF Channel
<1>len. \A v \in Gen!Workers : Len(perWorker[v]) \in Nat
  BY <1>1
<1>9. PICK m \in Nat \ {0} : m = Len(perWorker[w]) + 1
  BY <1>len
<1>10. /\ Calls(w) = m - 1 /\ Calls(w)' = m
       /\ \A v \in Gen!Workers : v # w => Calls(v)' = Calls(v)
  BY <1>len, <1>1, <1>6, <1>9 DEF Calls
<1>11. /\ SlotOf(w, m)' = Handed
       /\ \A k \in 1..m-1 : SlotOf(w, k)' = SlotOf(w, k)
       /\ \A v \in Gen!Workers : v # w => \A k : SlotOf(v, k)' = SlotOf(v, k)
  BY <1>len, <1>1, <1>6, <1>9 DEF SlotOf
<1>12. 1..m = 1..m-1 \cup {m} /\ 0..Handed'-1 = 0..Handed-1 \cup {Handed} /\ Handed \notin 0..Handed-1
       /\ m \notin 1..m-1
  BY <1>5, <1>9
<1>13. ASSUME NEW v \in Gen!Workers, NEW k \in 1..Calls(v)'
       PROVE  \/ v = w /\ k = m /\ SlotOf(v, k)' = Handed
              \/ k \in 1..Calls(v) /\ SlotOf(v, k)' = SlotOf(v, k) /\ ~(v = w /\ k = m)
  <2>1. CASE v = w
    <3>1. k \in 1..m
      BY <1>10, <1>13, <2>1
    <3>2. CASE k = m
      BY <1>11, <2>1, <3>2
    <3>3. CASE k \in 1..m-1
      BY <1>10, <1>11, <1>12, <2>1, <3>3
    <3> QED BY <1>12, <3>1, <3>2, <3>3
  <2>2. CASE v # w
    BY <1>10, <1>11, <1>13, <2>2
  <2> QED BY <2>1, <2>2
<1>14. Known'
  <2>1. ASSUME NEW v \in Gen!Workers, NEW k \in 1..Calls(v)'
        PROVE  SlotOf(v, k)' \in 0..Handed'-1
    <3>1. SlotOf(v, k)' = Handed \/ SlotOf(v, k)' \in 0..Handed-1
      BY <1>3, <1>13, <2>1 DEF Known
    <3> QED BY <1>12, <3>1
  <2> QED BY <1>2, <2>1, Zenon DEF Known
<1>15. Found'
  <2>1. ASSUME NEW i \in 0..Handed'-1
        PROVE  \E v \in Gen!Workers : \E k \in 1..Calls(v)' : SlotOf(v, k)' = i
    <3>1. CASE i = Handed
      <4>1. m \in 1..Calls(w)'
        BY <1>9, <1>10
      <4> QED BY <1>11, <3>1, <4>1, Zenon
    <3>2. CASE i \in 0..Handed-1
      <4>who. PICK v \in Gen!Workers : \E k \in 1..Calls(v) : SlotOf(v, k) = i
        BY <1>3, <3>2, Zenon DEF Found
      <4>1. PICK k \in 1..Calls(v) : SlotOf(v, k) = i
        BY <4>who
      <4>2. k \in 1..Calls(v)' /\ SlotOf(v, k)' = SlotOf(v, k)
        <5>1. CASE v = w
          BY <1>10, <1>11, <1>12, <4>1, <5>1
        <5>2. CASE v # w
          BY <1>10, <1>11, <4>1, <5>2
        <5> QED BY <5>1, <5>2
      <4> QED BY <4>1, <4>2, Zenon
    <3> QED BY <1>12, <2>1, <3>1, <3>2
  <2> QED BY <1>2, <2>1, Zenon DEF Found
<1>16. Once'
  <2>1. ASSUME NEW u \in Gen!Workers, NEW v \in Gen!Workers,
               NEW k \in 1..Calls(u)', NEW l \in 1..Calls(v)', SlotOf(u, k)' = SlotOf(v, l)'
        PROVE  u = v /\ k = l
    <3>1. \A x \in Gen!Workers : \A j \in 1..Calls(x) : SlotOf(x, j) # Handed
      BY <1>3, <1>12, Zenon DEF Known
    <3>2. CASE u = w /\ k = m
      BY <1>13, <2>1, <3>1, <3>2, Zenon
    <3>3. CASE v = w /\ l = m
      BY <1>13, <2>1, <3>1, <3>3, Zenon
    <3>4. CASE ~(u = w /\ k = m) /\ ~(v = w /\ l = m)
      <4>1. k \in 1..Calls(u) /\ l \in 1..Calls(v) /\ SlotOf(u, k) = SlotOf(v, l)
        BY <1>13, <2>1, <3>4, Zenon
      <4> QED BY <1>3, <4>1 DEF Once
    <3> QED BY <3>2, <3>3, <3>4
  <2> QED BY <1>2, <2>1, Zenon DEF Once
<1> QED BY <1>2, <1>7, <1>8, <1>14, <1>15, <1>16 DEF GenInv, Gen!Open

LEMMA LeaveKeeps ==
  ASSUME GenInv, NEW w \in Gen!Workers, Gen!Exit(w), worker[w].pc = "recv",
         slots' \in Seq(Nat), ctxDone \/ opts.mode = "closed" \/ (slots = <<>> /\ slots' = slots /\ closed),
         UNCHANGED <<opts, stage, now, ctxDone, sched, next, closed, perWorker>>
  PROVE  GenInv'
<1>1. /\ worker' = [worker EXCEPT ![w] = [pc |-> "done", scheduledAt |-> 0]]
      /\ worker \in [Gen!Workers -> [pc : {"recv", "calling", "done"}, scheduledAt : Nat]]
      /\ perWorker \in [Gen!Workers -> Seq(Sample)]
  <2>1. [Gen!Idle EXCEPT !.pc = "done"] = [pc |-> "done", scheduledAt |-> 0]
    BY DEF Gen!Idle
  <2> QED BY <2>1, Zenon DEF Gen!Exit, GenInv, GenTypes
<1>2. Gen!Workers' = Gen!Workers
  BY DEF Gen!Workers
<1>3. GenTypes'
  BY <1>1, <1>2 DEF GenInv, GenTypes
<1>4. ASSUME opts.mode = "open", ~ctxDone PROVE (Channel /\ Known /\ Found /\ Once)'
  <2>1. Handed' = Handed /\ slots' = slots /\ slots = <<>> /\ closed /\ Channel
    BY <1>4 DEF Handed, GenInv
  <2>2. Channel'
    BY <1>1, <1>2, <2>1 DEF Channel
  <2>3. \A v \in Gen!Workers : Calls(v)' = Calls(v)
    BY <1>1 DEF Calls
  <2>4. \A v \in Gen!Workers : \A k \in 1..Calls(v) : SlotOf(v, k)' = SlotOf(v, k)
    <3>1. \A v \in Gen!Workers : v # w => \A k : SlotOf(v, k)' = SlotOf(v, k)
      BY <1>1 DEF SlotOf
    <3>2. \A k \in 1..Calls(w) : k <= Len(perWorker[w])
      BY <1>1 DEF Calls
    <3>3. \A k \in 1..Calls(w) : SlotOf(w, k)' = SlotOf(w, k)
      BY <3>2 DEF SlotOf
    <3> QED BY <3>1, <3>3
  <2>5. (Known /\ Found /\ Once)'
    BY <1>2, <1>4, <2>1, <2>3, <2>4 DEF GenInv, Known, Found, Once
  <2> QED BY <2>2, <2>5
<1> QED BY <1>1, <1>2, <1>3, <1>4 DEF GenInv

\* The call in flight becomes the last sample: w holds what it held.
LEMMA CompleteKeeps ==
  ASSUME GenInv, NEW w \in Gen!Workers, Gen!Complete(w)
  PROVE  GenInv'
<1>1. /\ worker[w].pc = "calling" /\ worker' = [worker EXCEPT ![w] = Gen!Idle]
      /\ UNCHANGED <<opts, stage, now, ctxDone, sched, next, closed, slots>>
  BY Zenon DEF Gen!Complete, Gen!clock, Gen!svars
<1>2. PICK code \in {"OK", "Unavailable"} : perWorker' = [perWorker EXCEPT ![w] =
         Append(@, [scheduledAt |-> worker[w].scheduledAt, completedAt |-> now, code |-> code])]
  BY Zenon DEF Gen!Complete
<1>3. PICK s : s = [scheduledAt |-> worker[w].scheduledAt, completedAt |-> now, code |-> code]
  BY Zenon
<1>4. /\ worker \in [Gen!Workers -> [pc : {"recv", "calling", "done"}, scheduledAt : Nat]]
      /\ perWorker \in [Gen!Workers -> Seq(Sample)] /\ now \in Nat
  BY DEF GenInv, GenTypes
<1>5. s \in Sample /\ s.scheduledAt = worker[w].scheduledAt
  BY <1>3, <1>4 DEF Sample
<1>6. perWorker' = [perWorker EXCEPT ![w] = Append(perWorker[w], s)]
  BY <1>2, <1>3
<1>7. Gen!Idle = [pc |-> "recv", scheduledAt |-> 0]
  BY DEF Gen!Idle
<1>8. Gen!Workers' = Gen!Workers /\ Handed' = Handed
  BY <1>1 DEF Gen!Workers, Handed
<1>9. /\ perWorker' \in [Gen!Workers -> Seq(Sample)]
      /\ worker' \in [Gen!Workers -> [pc : {"recv", "calling", "done"}, scheduledAt : Nat]]
      /\ worker'[w].pc = "recv" /\ \A v \in Gen!Workers : v # w => worker'[v] = worker[v]
  BY <1>1, <1>4, <1>5, <1>6, <1>7
<1>10. GenTypes'
  BY <1>1, <1>8, <1>9 DEF GenInv, GenTypes
<1>11. stage # "done"
  BY <1>1 DEF GenInv
<1>12. Channel => Channel'
  BY <1>1, <1>8, <1>9 DEF Channel
<1>13. PICK m \in Nat : m = Len(perWorker[w])
  BY <1>4
<1>14. /\ perWorker'[w] = Append(perWorker[w], s) /\ Len(perWorker'[w]) = m + 1
       /\ perWorker'[w][m + 1] = s /\ \A k \in 1..m : perWorker'[w][k] = perWorker[w][k]
       /\ \A v \in Gen!Workers : v # w => perWorker'[v] = perWorker[v]
  BY <1>4, <1>5, <1>6, <1>13
<1>15. \A v \in Gen!Workers : Calls(v)' = Calls(v)
  <2>1. Calls(w)' = (m + 1) + 0
    BY <1>9, <1>14 DEF Calls
  <2>2. Calls(w) = m + 1
    BY <1>1, <1>13, Zenon DEF Calls
  <2>3. \A v \in Gen!Workers : v # w => Calls(v)' = Calls(v)
    BY <1>9, <1>14, Zenon DEF Calls
  <2> QED BY <2>1, <2>2, <2>3
<1>16. ASSUME NEW v \in Gen!Workers, NEW k \in 1..Calls(v) PROVE SlotOf(v, k)' = SlotOf(v, k)
  <2>1. CASE v # w
    BY <1>9, <1>14, <2>1 DEF SlotOf
  <2>2. CASE v = w
    <3>1. Calls(v) = m + 1
      BY <1>1, <1>13, <2>2, Zenon DEF Calls
    <3>2. k \in 1..m \/ k = m + 1
      BY <1>13, <1>16, <3>1
    <3>3. CASE k \in 1..m
      BY <1>13, <1>14, <2>2, <3>3 DEF SlotOf
    <3>4. CASE k = m + 1
      BY <1>5, <1>13, <1>14, <2>2, <3>4 DEF SlotOf
    <3> QED BY <3>2, <3>3, <3>4, Zenon
  <2> QED BY <2>1, <2>2
<1>17. Known /\ Found /\ Once => (Known /\ Found /\ Once)'
  BY <1>8, <1>15, <1>16 DEF Known, Found, Once
<1> QED BY <1>1, <1>10, <1>11, <1>12, <1>17 DEF GenInv

LEMMA WorkerKeeps ==
  ASSUME GenInv, NEW w \in Gen!Workers, Gen!WorkerStep(w)
  PROVE  GenInv'
<1>1. slots \in Seq(Nat)
  BY DEF GenInv, GenTypes
<1>2. slots # <<>> => Tail(slots) \in Seq(Nat)
  BY <1>1
<1>3. CASE Gen!RecvOpen(w)
  <2>1. /\ Gen!Open /\ worker[w].pc = "recv"
        /\ UNCHANGED <<opts, stage, now, ctxDone, sched, next, closed, perWorker>>
    BY <1>3, Zenon DEF Gen!RecvOpen, Gen!clock, Gen!svars
  <2>2. CASE slots # <<>> /\ ~ctxDone /\ Gen!Call(w, Gen!At(Head(slots))) /\ slots' = Tail(slots)
    BY <2>1, <2>2, TakeKeeps
  <2>3. CASE slots # <<>> /\ ctxDone /\ Gen!Exit(w) /\ slots' = Tail(slots)
    BY <1>2, <2>1, <2>3, LeaveKeeps
  <2>4. CASE slots = <<>> /\ closed /\ Gen!Exit(w) /\ UNCHANGED slots
    BY <1>1, <2>1, <2>4, LeaveKeeps
  <2> QED BY <1>3, <2>2, <2>3, <2>4, Zenon DEF Gen!RecvOpen
<1>4. CASE Gen!NextClosed(w)
  <2>1. /\ opts.mode = "closed" /\ stage = "run" /\ worker[w].pc = "recv"
        /\ UNCHANGED <<opts, stage, now, ctxDone, sched, next, closed, slots, perWorker>>
    BY <1>4, Zenon DEF Gen!NextClosed, Gen!clock, Gen!svars
  <2>2. CASE Gen!Exit(w)
    BY <1>1, <2>1, <2>2, LeaveKeeps
  <2>3. CASE Gen!Call(w, now)
    <3>1. worker' \in [Gen!Workers -> [pc : {"recv", "calling", "done"}, scheduledAt : Nat]]
      BY <2>3 DEF Gen!Call, GenInv, GenTypes
    <3>2. Gen!Workers' = Gen!Workers
      BY <2>1 DEF Gen!Workers
    <3> QED BY <2>1, <3>1, <3>2 DEF GenInv, GenTypes
  <2> QED BY <1>4, <2>2, <2>3, Zenon DEF Gen!NextClosed
<1> QED BY <1>3, <1>4, CompleteKeeps DEF Gen!WorkerStep

LEMMA GenNext ==
  ASSUME GenInv, [Gen!Next]_(Gen!vars)
  PROVE  GenInv'
  BY TickKeeps, InterruptKeeps, SchedulerKeeps, WorkerKeeps, Zenon DEF Gen!Next

\* However late the target answers and however the scheduler and the workers are
\* interleaved, an open-loop run that nobody interrupts ends with exactly one sample
\* for each slot, timed from the slot's place in the schedule (runOpen).
THEOREM SlotOnceTheorem ==
  ASSUME Gen!LoadGenAssumption
  PROVE  Gen!Spec => [](Gen!Reported /\ opts.mode = "open" /\ ~ctxDone => Gen!EverySlotOnce)
<1>1. GenInv => (Gen!Reported /\ opts.mode = "open" /\ ~ctxDone => Gen!EverySlotOnce)
  <2> SUFFICES ASSUME GenInv, stage = "done", opts.mode = "open", ~ctxDone
               PROVE  Gen!EverySlotOnce
    BY DEF Gen!Reported
  <2>1. /\ opts.n \in Nat /\ opts.workers \in Nat \ {0} /\ next \in Nat
        /\ perWorker \in [Gen!Workers -> Seq(Sample)]
    BY DEF GenInv, GenTypes
  <2>2. \A w \in Gen!Workers : worker[w].pc = "done"
    BY DEF GenInv
  <2>3. Channel /\ Known /\ Found /\ Once
    BY DEF GenInv
  <2>4. 1 \in Gen!Workers
    BY <2>1 DEF Gen!Workers
  <2>5. Handed = opts.n
    <3>1. slots = <<>> /\ next = opts.n
      BY <2>2, <2>3, <2>4 DEF Channel
    <3> QED BY <2>1, <3>1 DEF Handed
  <2>6. \A w \in Gen!Workers : Calls(w) = Len(perWorker[w]) /\ DOMAIN perWorker[w] = 1..Calls(w)
    BY <2>1, <2>2 DEF Calls
  <2>7. \A w \in Gen!Workers : \A k \in 1..Calls(w) : perWorker[w][k].scheduledAt = SlotOf(w, k)
    BY <2>1, <2>6 DEF SlotOf
  <2>8. \A w \in Gen!Workers : \A k \in DOMAIN perWorker[w] :
          \E i \in 0 .. opts.n - 1 : perWorker[w][k].scheduledAt = Gen!At(i)
    BY <2>3, <2>5, <2>6, <2>7 DEF Known, Gen!At
  <2>9. ASSUME NEW i \in 0 .. opts.n - 1
        PROVE  \E w \in Gen!Workers : \E k \in DOMAIN perWorker[w] :
                 /\ perWorker[w][k].scheduledAt = Gen!At(i)
                 /\ \A v \in Gen!Workers : \A l \in DOMAIN perWorker[v] :
                      perWorker[v][l].scheduledAt = Gen!At(i) => v = w /\ l = k
    <3>1. PICK w \in Gen!Workers : \E k \in 1..Calls(w) : SlotOf(w, k) = i
      BY <2>3, <2>5 DEF Found
    <3>2. PICK k \in 1..Calls(w) : SlotOf(w, k) = i
      BY <3>1
    <3>3. k \in DOMAIN perWorker[w] /\ perWorker[w][k].scheduledAt = i
      BY <2>6, <2>7, <3>2
    <3>4. ASSUME NEW v \in Gen!Workers, NEW l \in DOMAIN perWorker[v],
                 perWorker[v][l].scheduledAt = i
          PROVE  v = w /\ l = k
      <4>1. l \in 1..Calls(v) /\ SlotOf(v, l) = i
        BY <2>6, <2>7, <3>4
      <4> QED BY <2>3, <3>2, <4>1 DEF Once
    <3> QED BY <3>3, <3>4, Zenon DEF Gen!At
  <2> QED BY <2>8, <2>9, Zenon DEF Gen!EverySlotOnce
<1>2. Gen!Init => GenInv
  BY GenInit
<1>3. GenInv /\ [Gen!Next]_(Gen!vars) => GenInv'
  BY GenNext
<1> QED BY <1>1, <1>2, <1>3, PTL DEF Gen!Spec

-----------------------------------------------------------------------------
(* The rank of a reported percentile.                                      *)

\* Rounding up a division by a million: the least k with a million k >= m.
LEMMA CeilMillion ==
    ASSUME NEW m \in Nat
    PROVE  LET k == (m + 999999) \div 1000000
           IN k \in Nat /\ 1000000 * k >= m /\ 1000000 * (k - 1) < m
<1> DEFINE k == (m + 999999) \div 1000000
<1>1. k \in Int /\ m + 999999 = 1000000 * k + ((m + 999999) % 1000000)
  BY SMT
<1>2. (m + 999999) % 1000000 \in Nat /\ (m + 999999) % 1000000 < 1000000
  BY SMT
<1>3. k \in Nat /\ 1000000 * k >= m /\ 1000000 * (k - 1) < m
  BY <1>1, <1>2, SMT
<1> QED
  BY <1>3

\* A share of less than the whole of the samples has its rank among them.
LEMMA RankInRange ==
    ASSUME NEW m \in Nat, NEW samples \in Nat, NEW r \in Nat,
           m >= 1, m < 1000000 * samples, 1000000 * r >= m, 1000000 * (r - 1) < m
    PROVE  r \in 1 .. samples
  BY SMT

\* A product of what is positive, and smaller in one factor.
LEMMA Share ==
    ASSUME NEW samples \in Nat, NEW pm \in Nat, samples >= 1, pm >= 1, pm < 1000000
    PROVE  pm * samples \in Nat /\ pm * samples >= 1 /\ pm * samples < 1000000 * samples
  BY SMTT(30)

\* percentileIndex is the nearest rank whatever the number of samples: it is a
\* valid index, the samples up to it are pm millionths of all or more, and those
\* before it are fewer ("The rank is computed in integer arithmetic").
THEOREM PercentileRank ==
    ASSUME NEW samples \in Nat \ {0}, NEW pm \in Nat \ {0}, pm < Gen!Million
    PROVE  LET k == Gen!percentileIndex(samples, pm) + 1
           IN /\ k \in 1 .. samples
              /\ Gen!Million * k >= pm * samples
              /\ Gen!Million * (k - 1) < pm * samples
<1> USE DEF Gen!Million
<1>1. samples \in Nat /\ samples >= 1 /\ pm \in Nat /\ pm >= 1 /\ pm < 1000000
  BY SMT
<1> DEFINE m == pm * samples
           r == (m + 999999) \div 1000000
<1>2. Gen!percentileIndex(samples, pm) =
        IF r - 1 < 0 THEN 0 ELSE IF r - 1 > samples - 1 THEN samples - 1 ELSE r - 1
  BY <1>1, SMT DEF Gen!percentileIndex
<1>3. m \in Nat /\ m >= 1 /\ m < 1000000 * samples
  BY <1>1, Share, SMT
<1> HIDE DEF m
<1>4. r \in Nat /\ 1000000 * r >= m /\ 1000000 * (r - 1) < m
  BY <1>3, CeilMillion, SMT
<1> HIDE DEF r
<1>5. r \in 1 .. samples
  BY <1>1, <1>3, <1>4, RankInRange, SMT
<1>6. Gen!percentileIndex(samples, pm) + 1 = r
  BY <1>1, <1>2, <1>5, SMT
<1> QED
  BY <1>4, <1>5, <1>6, SMT DEF m

-----------------------------------------------------------------------------
(* What resolveConfig accepts.                                             *)

LEMMA AcceptedIsValid ==
  ASSUME NEW i, resolveConfig(i).ok
  PROVE  /\ Base(i).ok
         /\ resolveConfig(i).cfg = Flagged(Base(i).cfg, i.flags)
         /\ Validate(resolveConfig(i).cfg) = {}
  BY Zenon DEF resolveConfig, Rejected, Accepted

LEMMA ValidMeans ==
  ASSUME NEW c, Validate(c) = {}
  PROVE  BackendsOK(c.backends) /\ LimiterProblems(c) = {}
  BY Zenon DEF Validate

\* The pool asks less of a backend than Validate does.
LEMMA ValidBackends ==
  ASSUME NEW bs, BackendsOK(bs), NEW i \in DOMAIN bs
  PROVE  ~Unusable(bs, i, "id") /\ bs[i].addr # ""
  BY Zenon DEF BackendsOK, Unusable

LEMMA OverValue ==
  ASSUME NEW layer, NEW c, NEW k \in DOMAIN c
  PROVE  /\ k \in DOMAIN Over(layer, c)
         /\ Over(layer, c)[k] = IF k \in DOMAIN layer THEN layer[k] ELSE c[k]
  BY Zenon DEF Over

LEMMA DefaultRates ==
  ASSUME NEW k \in Rates
  PROVE  k \in DOMAIN Default /\ Default[k] \in Int
<1> DEFINE given == [listen |-> "8080", admin_listen |-> "9090", backends |-> <<>>,
                     hash_header |-> "x-session-id", retry_policy |-> "connect-failure",
                     rps |-> 20, burst |-> 10, per_client_rps |-> 8, per_client_burst |-> 4,
                     failure_ratio |-> 50, level |-> "info", format |-> "json",
                     sample_rate |-> 100]
           rest == [j \in Positive \cup Switches |-> IF j \in Switches THEN FALSE ELSE 2]
<1>1. k \in DOMAIN given /\ given[k] \in Int
  BY DEF Rates
<1>2. Default = Over(given, rest)
  BY Zenon DEF Default
<1> HIDE DEF given, rest
<1> QED BY <1>1, <1>2, Zenon DEF Over

\* newRawConfig starts from the defaults without their bursts.
LEMMA RawRates ==
  ASSUME NEW k \in Rates
  PROVE  LET raw == Over([burst |-> 0, per_client_burst |-> 0], Default)
         IN  /\ k \in DOMAIN raw /\ raw[k] \in Int
             /\ k = "burst" => raw[k] = 0
<1> DEFINE none == [burst |-> 0, per_client_burst |-> 0]
<1>1. DOMAIN none = {"burst", "per_client_burst"} /\ \A j \in DOMAIN none : none[j] = 0
  OBVIOUS
<1> HIDE DEF none
<1>2. LET raw == Over(none, Default)
      IN  /\ k \in DOMAIN raw /\ raw[k] \in Int
          /\ k = "burst" => raw[k] = 0
  BY <1>1, DefaultRates, OverValue
<1> QED BY <1>2, Zenon DEF none

\* The layers a rate may come from.
LEMMA EnvRates ==
  ASSUME NEW i \in Inputs, NEW k \in Rates
  PROVE  /\ k \in DOMAIN envValue(i.env) => k = "rps" /\ envValue(i.env)[k] \in Int
         /\ k \notin DOMAIN i.flags
  BY InputsAssumption, Zenon DEF envValue, Rates

LEMMA BurstIsInt ==
  ASSUME NEW r \in Int
  PROVE  burstFor(r) \in Int
  BY ConfigAssumption DEF burstFor

LEMMA DerivedRates ==
  ASSUME NEW c, \A k \in Rates : k \in DOMAIN c /\ c[k] \in Int
  PROVE  /\ \A k \in Rates : k \in DOMAIN applyDerivedDefaults(c)
                             /\ applyDerivedDefaults(c)[k] \in Int
         /\ applyDerivedDefaults(c).rps = c.rps
         /\ c.burst = 0 => applyDerivedDefaults(c).burst = burstFor(c.rps)
<1>1. burstFor(c.rps) \in Int /\ burstFor(c.per_client_rps) \in Int
  BY BurstIsInt, Zenon DEF Rates
<1> QED BY <1>1, Zenon DEF applyDerivedDefaults, Rates

LEMMA BaseRates ==
  ASSUME NEW i \in Inputs, Base(i).ok
  PROVE  /\ \A k \in Rates : k \in DOMAIN Base(i).cfg /\ Base(i).cfg[k] \in Int
         /\ i.path /\ "burst" \notin DOMAIN i.file => Base(i).cfg.burst = burstFor(Base(i).cfg.rps)
<1>1. CASE i.path
  <2> DEFINE raw == newRawConfig(i.file)
             c == ApplyEnv(raw, i.env)
  <2>1. Base(i).cfg = applyDerivedDefaults(c)
    BY <1>1, Zenon DEF Base, Load, Rejected, Accepted
  <2>2. /\ \A k \in Rates : k \in DOMAIN raw /\ raw[k] \in Int
        /\ "burst" \notin DOMAIN i.file => raw.burst = 0
    <3> DEFINE fresh == Over([burst |-> 0, per_client_burst |-> 0], Default)
    <3>1. \A k \in Rates : /\ k \in DOMAIN fresh /\ fresh[k] \in Int
                           /\ k = "burst" => fresh[k] = 0
      BY RawRates
    <3>2. raw = Over(i.file, fresh)
      BY Zenon DEF newRawConfig
    <3> HIDE DEF fresh, raw
    <3>3. \A k \in Rates : k \in DOMAIN raw /\ raw[k] \in Int
      BY <3>1, <3>2, OverValue, InputsAssumption
    <3>4. "burst" \notin DOMAIN i.file => raw.burst = 0
      BY <3>1, <3>2, OverValue DEF Rates
    <3> QED BY <3>3, <3>4, Zenon
  <2> HIDE DEF raw
  <2>4. \A k \in Rates : k \in DOMAIN c /\ c[k] \in Int
    BY <2>2, OverValue, EnvRates DEF ApplyEnv
  <2>5. c.burst = raw.burst
    BY <2>2, OverValue, EnvRates, Zenon DEF ApplyEnv, Rates
  <2> HIDE DEF c
  <2> QED BY <2>1, <2>2, <2>4, <2>5, DerivedRates
<1>2. CASE ~i.path
  <2>1. Base(i).cfg = ApplyEnv(Default, i.env)
    BY <1>2, Zenon DEF Base, Rejected, Accepted
  <2> QED BY <1>2, <2>1, OverValue, DefaultRates, EnvRates DEF ApplyEnv
<1> QED BY <1>1, <1>2

LEMMA ResolvedRates ==
  ASSUME NEW i \in Inputs, resolveConfig(i).ok
  PROVE  LET c == resolveConfig(i).cfg
         IN  /\ \A k \in Rates : c[k] \in Int
             /\ i.path /\ "burst" \notin DOMAIN i.file => c.burst = burstFor(c.rps)
<1> DEFINE base == Base(i).cfg
           flags == [k \in DOMAIN i.flags |->
                       IF k = "level" THEN ToLower(TrimSpace(i.flags[k])) ELSE i.flags[k]]
           c == resolveConfig(i).cfg
<1>1. c = Over(flags, base) /\ Base(i).ok
  BY AcceptedIsValid, Zenon DEF Flagged
<1>2. \A k \in Rates : k \notin DOMAIN flags
  BY EnvRates, Zenon
<1> HIDE DEF flags, c
<1>3. \A k \in Rates : c[k] = base[k] /\ base[k] \in Int
  BY <1>1, <1>2, BaseRates, OverValue
<1>4. c.rps = base.rps /\ c.burst = base.burst
  BY <1>3, Zenon DEF Rates
<1>5. i.path /\ "burst" \notin DOMAIN i.file => c.burst = burstFor(c.rps)
  BY <1>1, <1>4, BaseRates, Zenon
<1> QED BY <1>3, <1>5, Zenon DEF c

\* While the pool is built, the configuration is one resolveConfig accepted.
Resolved ==
    /\ why # "backend"
    /\ main = "pool" => in \in Inputs /\ resolveConfig(in).ok /\ cfg = resolveConfig(in).cfg

LEMMA NextResolved ==
  ASSUME Resolved, [Next]_vars
  PROVE  Resolved'
<1>1. CASE Resolve
  <2>1. PICK i \in Inputs :
          IF resolveConfig(i).ok
          THEN main' = "pool" /\ in' = i /\ cfg' = resolveConfig(i).cfg /\ UNCHANGED why
          ELSE main' = "returned" /\ why' = "config" /\ UNCHANGED <<in, cfg>>
    BY <1>1, Zenon DEF Resolve
  <2> QED BY <2>1 DEF Resolved
<1>2. CASE PoolFails
  <2>1. PICK k \in DOMAIN cfg.backends :
          why' = IF Unusable(cfg.backends, k, "id") \/ cfg.backends[k].addr = ""
                 THEN "backend" ELSE "dial"
    BY <1>2, Zenon DEF PoolFails
  <2>2. BackendsOK(cfg.backends)
    BY <1>2, AcceptedIsValid, ValidMeans, Zenon DEF Resolved, PoolFails
  <2>3. why' = "dial"
    BY <2>1, <2>2, ValidBackends, Zenon
  <2>4. main' = "returned"
    BY <1>2, Zenon DEF PoolFails
  <2> QED BY <2>3, <2>4, Zenon DEF Resolved
<1>3. CASE NewBackend
  <2>1. UNCHANGED <<main, startup>>
    BY <1>3, Zenon DEF NewBackend
  <2> QED BY <2>1, Zenon DEF startup, Resolved
<1>4. CASE StartParts \/ ListenFails \/ \E l \in Ports : Listen(l)
  BY <1>4, Zenon DEF StartParts, ListenFails, Listen, Resolved, startup
<1>5. CASE \/ Wake \/ CheckerStopped \/ Drained \/ ForceStop
           \/ AdminShutdown \/ AdminStopped \/ ClosePool \/ CloseLimiter \/ Cleanup
  BY <1>5, Zenon DEF Wake, CheckerStopped, Drained, ForceStop, AdminShutdown, AdminStopped, ClosePool,
              CloseLimiter, Cleanup, Resolved, startup, servers
<1>6. CASE \/ Signal \/ Flip \/ Scrape \/ GracefulStop \/ Expire \/ Rest
           \/ \E l \in Ports : ServeStarts(l) \/ ServeFails(l) \/ ServeReturns(l) \/ ServeSends(l)
           \/ \E r \in RPCs : Accept(r) \/ HandlerReturns(r)
  BY <1>6, Zenon DEF Signal, Flip, Scrape, GracefulStop, Expire, Rest, ServeStarts, ServeFails,
              ServeReturns, ServeSends, Accept, HandlerReturns, Resolved, startup, vars
<1>7. CASE UNCHANGED vars
  BY <1>7, Zenon DEF vars, startup, Resolved
<1> QED BY <1>1, <1>2, <1>3, <1>4, <1>5, <1>6, <1>7, Zenon DEF Next, Main

\* Whatever file, environment and flags say, the pool never refuses a backend that
\* Validate let pass, no limit that is on is zero, and a burst the file leaves out
\* follows the rate that won (resolveConfig, Load, newBackend).
THEOREM UsableTheorem == Spec => []AcceptedIsUsable
<1>1. Init => Resolved
  BY Zenon DEF Init, Resolved
<1>2. Resolved => AcceptedIsUsable
  <2> SUFFICES ASSUME Resolved, main = "pool"
               PROVE  /\ cfg.rate_limit => cfg.rps > 0 /\ cfg.burst > 0
                      /\ cfg.rate_limit /\ cfg.per_client
                           => cfg.per_client_rps > 0 /\ cfg.per_client_burst > 0
                      /\ in.path /\ "burst" \notin DOMAIN in.file
                           => cfg.burst = burstFor(cfg.rps)
    BY Zenon DEF Resolved, AcceptedIsUsable
  <2>1. LimiterProblems(cfg) = {}
    BY AcceptedIsValid, ValidMeans, Zenon DEF Resolved
  <2>2. /\ \A k \in Rates : cfg[k] \in Int
        /\ in.path /\ "burst" \notin DOMAIN in.file => cfg.burst = burstFor(cfg.rps)
    BY ResolvedRates, Zenon DEF Resolved
  <2> QED BY <2>1, <2>2 DEF LimiterProblems, Rates
<1> QED BY <1>1, <1>2, NextResolved, PTL DEF Spec

-----------------------------------------------------------------------------
(* The load balancer: its inductive invariant.                             *)

BeforeServing == {"resolve", "pool", "listen"}
Stopping == {"drain", "await", "admin", "adminWait", "close"}
Ending == {"cleanup", "returned"}

Types ==
    /\ main \in BeforeServing \cup {"select", "stopChecker"} \cup Stopping \cup Ending
    /\ checker \in {"off", "running", "stopping"} /\ janitor \in BOOLEAN
    /\ lns \subseteq Ports
    /\ serve \in [Ports -> {"off", "spawned", "serving", "returned", "ended"}]
    /\ failed \in BOOLEAN /\ signal \in BOOLEAN /\ expired \in BOOLEAN
    /\ cancelled \in BOOLEAN /\ scrape \in BOOLEAN
    /\ stopper \in {"off", "spawned", "draining", "stopped"}
    /\ rpc \in [RPCs -> {"idle", "running", "done"}]

\* The checker runs exactly between Start and the end of Stop, and cleanup after
\* a failed Listen is the only other place that has to stop it.
CheckerPhase ==
    /\ main \in {"resolve", "pool", "returned"} \cup Stopping => checker = "off"
    /\ stopper # "off" => checker = "off"
    /\ main \in {"resolve", "pool", "returned"} => ~janitor

\* Nobody is served, no listener open and no Serve spawned before the select is
\* reached, and cleanup after a failed start finds none.
NotYet ==
    /\ main \in BeforeServing \cup {"select", "stopChecker"} => stopper = "off"
    /\ stopper = "off" => ~cancelled
    /\ main \in BeforeServing \cup Ending /\ stopper = "off" =>
         Running = {} /\ ~scrape /\ \A l \in Ports : serve[l] = "off"
    /\ main \in {"resolve", "pool"} => lns = {}
    /\ main \in Ending /\ stopper = "off" => lns = {}

\* A listener is open from Listen to the end of its Serve, and past the shutdown of
\* its server only if that Serve has not run yet.
Lent ==
    /\ main \in {"select", "stopChecker"} \/ stopper # "off" =>
         \A l \in Ports : serve[l] # "off"
    /\ \A l \in lns : serve[l] \notin {"returned", "ended"}
    /\ \A l \in lns : ShutDown(l) => serve[l] = "spawned"

\* shutdown passes the drain only when GracefulStop has returned, which it does
\* when the last handler is gone.
Handover ==
    /\ main \in Stopping => stopper # "off"
    /\ main \in {"admin", "adminWait", "close"} => stopper = "stopped"
    /\ main \in Ending => stopper \in {"off", "stopped"}
    /\ stopper = "stopped" => Running = {}

\* What has ended by the time it must have.
Closed ==
    /\ main \in {"close"} \cup Ending => (scrape => expired)
    /\ main \in {"resolve", "returned"} => conns = {}
    /\ main \in Ending /\ stopper # "off" => conns = {}

\* Nobody drains without a reason to.
Asked == main = "stopChecker" \/ stopper # "off" => signal \/ failed

IInv == Types /\ CheckerPhase /\ NotYet /\ Lent /\ Handover /\ Closed /\ Asked
-----------------------------------------------------------------------------
(* Each step keeps it.                                                     *)

LEMMA StartUpSteps ==
  ASSUME IInv, Resolve \/ NewBackend \/ PoolFails \/ StartParts
  PROVE  IInv'
<1> USE DEF IInv, Types, CheckerPhase, NotYet, Lent, Handover, Closed, Asked, Running,
            BeforeServing, Stopping, Ending, startup, servers, ShutDown
<1>1. CASE Resolve
  <2>1. PICK i \in Inputs :
          \/ main' = "pool" /\ UNCHANGED why
          \/ main' = "returned" /\ why' = "config"
    BY <1>1, Zenon DEF Resolve
  <2> QED BY <1>1, <2>1, Zenon DEF Resolve
<1>2. CASE NewBackend
  BY <1>2, Zenon DEF NewBackend
<1>3. CASE PoolFails
  BY <1>3, Zenon DEF PoolFails
<1>4. CASE StartParts
  BY <1>4, Zenon DEF StartParts
<1> QED BY <1>1, <1>2, <1>3, <1>4, Zenon

LEMMA ListenSteps ==
  ASSUME IInv, ListenFails \/ \E l \in Ports : Listen(l)
  PROVE  IInv'
<1> USE DEF IInv, Types, CheckerPhase, NotYet, Lent, Handover, Closed, Asked, Running,
            BeforeServing, Stopping, Ending, startup, ShutDown, Ports
<1>1. CASE ListenFails
  BY <1>1, Zenon DEF ListenFails
<1>2. ASSUME NEW l \in Ports, Listen(l) PROVE IInv'
  BY <1>2 DEF Listen
<1> QED BY <1>1, <1>2, Zenon

\* Serve's goroutine moves on its own: it closes its listener when it returns, and
\* hands it over only to a server that goes on.
LEMMA ServeSteps ==
  ASSUME IInv, NEW l \in Ports,
         ServeStarts(l) \/ ServeFails(l) \/ ServeReturns(l) \/ ServeSends(l)
  PROVE  IInv'
<1> USE DEF IInv
<1>1. PICK s \in {"serving", "returned", "ended"} :
        /\ serve' = [serve EXCEPT ![l] = s] /\ lns' \in {lns, lns \ {l}}
        /\ serve[l] # "off"
        /\ s \in {"returned", "ended"} => l \notin lns'
        /\ s = "serving" => ~ShutDown(l)
  BY Zenon DEF ServeStarts, ServeFails, ServeReturns, ServeSends, Lent
<1>2. /\ UNCHANGED <<main, checker, janitor, conns, signal, stopper, expired, cancelled>>
      /\ UNCHANGED <<rpc, scrape>> /\ (UNCHANGED failed \/ failed' = TRUE)
  BY Zenon DEF ServeStarts, ServeFails, ServeReturns, ServeSends, startup
<1>3. Types'
  <2>1. /\ lns' \subseteq Ports
        /\ serve' \in [Ports -> {"off", "spawned", "serving", "returned", "ended"}]
    BY <1>1, Zenon DEF Types
  <2>2. failed' \in BOOLEAN
    BY <1>2, Zenon DEF Types
  <2> QED BY <1>2, <2>1, <2>2, Zenon DEF Types
<1>4. CheckerPhase' /\ Handover' /\ Closed'
  BY <1>2, Zenon DEF CheckerPhase, Handover, Closed, Running
<1>5. Asked'
  BY <1>2, Zenon DEF Asked
<1>6. NotYet'
  <2>1. main \in BeforeServing \cup Ending => stopper # "off"
    BY <1>1, Zenon DEF NotYet
  <2> QED BY <1>2, <2>1, Zenon DEF NotYet, BeforeServing
<1>7. Lent'
  <2>1. \A p \in Ports : serve'[p] = IF p = l THEN s ELSE serve[p]
    BY <1>1, Zenon DEF Types
  <2>2. \A p \in Ports : ShutDown(p)' <=> ShutDown(p)
    BY <1>2, Zenon DEF ShutDown
  <2>3. \A p \in lns' : p \in Ports /\ p \in lns
    BY <1>1, Zenon DEF Types
  <2> QED BY <1>1, <1>2, <2>1, <2>2, <2>3, Zenon DEF Lent
<1> QED BY <1>3, <1>4, <1>5, <1>6, <1>7

\* What requests, signals, probes and time may do beside the goroutines that start and
\* stop things.
Beside ==
    /\ UNCHANGED <<main, checker, janitor, lns, serve, stopper, cancelled, conns>>
    /\ signal' \in BOOLEAN /\ (signal => signal') /\ UNCHANGED failed
    /\ expired' \in BOOLEAN /\ (expired => expired')
    /\ rpc' \in [RPCs -> {"idle", "running", "done"}]
    /\ Running' \subseteq Running \/ (Serving /\ stopper \notin {"draining", "stopped"})
    /\ scrape' \in BOOLEAN
    /\ scrape' => scrape \/ (Serving /\ ~ShutDown("admin"))

LEMMA BesideKeeps ==
  ASSUME IInv, Beside
  PROVE  IInv'
<1>1. UNCHANGED <<main, checker, janitor, lns, serve, stopper, cancelled, conns, failed>>
  BY Zenon DEF Beside
<1>2. Types'
  BY <1>1, Zenon DEF Beside, IInv, Types
<1>3. CheckerPhase' /\ Lent'
  BY <1>1, Zenon DEF IInv, CheckerPhase, Lent, ShutDown
<1>4. main \in BeforeServing \cup Ending => ~Serving
  BY Zenon DEF BeforeServing, Ending, Serving
<1>5. main \in BeforeServing \cup Ending /\ stopper = "off" => Running' = {} /\ ~scrape'
  BY <1>4, Zenon DEF Beside, IInv, NotYet
<1>6. NotYet'
  BY <1>1, <1>5, Zenon DEF IInv, NotYet
<1>7. stopper = "stopped" => Running' = {}
  BY Zenon DEF Beside, IInv, Handover
<1>8. Handover'
  BY <1>1, <1>7, Zenon DEF IInv, Handover
<1>9. main \in {"close"} \cup Ending => (scrape' => expired')
  BY Zenon DEF Beside, IInv, Closed, ShutDown, Ending
<1>10. Closed'
  BY <1>1, <1>9, Zenon DEF IInv, Closed
<1>11. Asked'
  <2>1. signal => signal'
    BY Zenon DEF Beside
  <2>2. main = "stopChecker" \/ stopper # "off" => signal \/ failed
    BY Zenon DEF IInv, Asked
  <2>3. main = "stopChecker" \/ stopper # "off" => signal' \/ failed'
    BY <1>1, <2>1, <2>2
  <2> QED BY <1>1, <2>3, Zenon DEF Asked
<1> QED BY <1>2, <1>3, <1>6, <1>8, <1>10, <1>11, Zenon DEF IInv

LEMMA BesideSteps ==
  ASSUME IInv,
         \/ Signal \/ Flip \/ Scrape \/ GracefulStop \/ Expire \/ Rest
         \/ \E l \in Ports : ServeStarts(l) \/ ServeFails(l) \/ ServeReturns(l) \/ ServeSends(l)
         \/ \E r \in RPCs : Accept(r) \/ HandlerReturns(r)
  PROVE  IInv'
<1>1. CASE Signal
  <2>1. Beside
    BY <1>1, Zenon DEF Signal, Beside, Running, servers, IInv, Types
  <2> QED BY <2>1, BesideKeeps, Zenon
<1>2. CASE Flip
  <2>1. Beside
    BY <1>2, Zenon DEF Flip, Beside, Running, servers, IInv, Types
  <2> QED BY <2>1, BesideKeeps, Zenon
<1>3. CASE Scrape
  <2>1. Beside
    BY <1>3, Zenon DEF Scrape, Beside, Running, IInv, Types
  <2> QED BY <2>1, BesideKeeps, Zenon
<1>4. CASE GracefulStop
  BY <1>4, Zenon DEF GracefulStop, Unserved, IInv, Types, CheckerPhase, NotYet, Lent, Handover,
                     Closed, Asked, Running, BeforeServing, Stopping, Ending, startup, ShutDown
<1>5. CASE Expire
  <2>1. Beside
    BY <1>5, Zenon DEF Expire, Beside, Running, IInv, Types
  <2> QED BY <2>1, BesideKeeps, Zenon
<1>6. CASE Rest
  <2>1. Beside
    BY <1>6, Zenon DEF Rest, vars, servers, Beside, Running, IInv, Types
  <2> QED BY <2>1, BesideKeeps, Zenon
<1>7. ASSUME NEW l \in Ports,
             ServeStarts(l) \/ ServeFails(l) \/ ServeReturns(l) \/ ServeSends(l)
      PROVE  IInv'
  BY <1>7, ServeSteps, Zenon
<1>8. ASSUME NEW r \in RPCs, Accept(r) PROVE IInv'
  <2>1. rpc' \in [RPCs -> {"idle", "running", "done"}]
    BY <1>8 DEF Accept, IInv, Types
  <2>2. Beside
    BY <1>8, <2>1, Zenon DEF Accept, ShutDown, Beside, IInv, Types
  <2> QED BY <2>2, BesideKeeps, Zenon
<1>9. ASSUME NEW r \in RPCs, HandlerReturns(r) PROVE IInv'
  <2>1. rpc' \in [RPCs -> {"idle", "running", "done"}] /\ Running' \subseteq Running
    BY <1>9 DEF HandlerReturns, IInv, Types, Running
  <2>2. Beside
    BY <1>9, <2>1, Zenon DEF HandlerReturns, Beside, IInv, Types
  <2> QED BY <2>2, BesideKeeps, Zenon
<1> QED BY <1>1, <1>2, <1>3, <1>4, <1>5, <1>6, <1>7, <1>8, <1>9, Zenon

LEMMA ShutdownSteps ==
  ASSUME IInv,
         \/ Wake \/ CheckerStopped \/ Drained \/ ForceStop
         \/ AdminShutdown \/ AdminStopped \/ ClosePool \/ CloseLimiter \/ Cleanup
  PROVE  IInv'
<1> USE DEF IInv, Types, CheckerPhase, NotYet, Lent, Handover, Closed, Asked, Running,
            BeforeServing, Stopping, Ending, startup, servers, ShutDown
<1>1. CASE Wake
  BY <1>1, Zenon DEF Wake
<1>2. CASE CheckerStopped
  BY <1>2, Zenon DEF CheckerStopped
<1>3. CASE Drained
  BY <1>3, Zenon DEF Drained
<1>4. CASE ForceStop
  BY <1>4, Zenon DEF ForceStop, Unserved
<1>5. CASE AdminShutdown
  BY <1>5, Zenon DEF AdminShutdown, Unserved, Ports
<1>9. CASE AdminStopped
  BY <1>9, Zenon DEF AdminStopped
<1>6. CASE ClosePool
  BY <1>6, Zenon DEF ClosePool
<1>7. CASE CloseLimiter
  BY <1>7, Zenon DEF CloseLimiter
<1>8. CASE Cleanup
  <2>1. /\ main = "cleanup" /\ main' \in {"cleanup", "returned"}
        /\ janitor' = FALSE /\ UNCHANGED <<lns, serve, failed, stopper, expired>>
        /\ UNCHANGED <<cancelled, rpc, scrape, signal>>
    BY <1>8, Zenon DEF Cleanup
  <2>2. /\ checker' \in {"off", "running", "stopping"} /\ (checker = "off" => checker' = "off")
        /\ main' = "returned" => checker' = "off" /\ conns' = {}
        /\ conns = {} => conns' = {}
    BY <1>8, Zenon DEF Cleanup
  <2>3. Types' /\ Handover' /\ Asked'
    BY <2>1, <2>2, Zenon
  <2>5. CheckerPhase' /\ Closed'
    BY <2>1, <2>2
  <2>4. NotYet' /\ Lent'
    BY <2>1
  <2> QED BY <2>3, <2>4, <2>5
<1> QED BY <1>1, <1>2, <1>3, <1>4, <1>5, <1>6, <1>7, <1>8, <1>9, Zenon

LEMMA Inductive == Spec => []IInv
<1>1. Init => IInv
  BY Zenon DEF Init, IInv, Types, CheckerPhase, NotYet, Lent, Handover, Closed, Asked, Running,
         BeforeServing, Stopping, Ending, ShutDown
<1>2. IInv /\ [Next]_vars => IInv'
  <2> SUFFICES ASSUME IInv, [Next]_vars PROVE IInv'
    OBVIOUS
  <2>1. CASE Main
    <3>1. CASE Resolve \/ NewBackend \/ PoolFails \/ StartParts
      BY <3>1, StartUpSteps, Zenon
    <3>2. CASE ListenFails \/ \E l \in Ports : Listen(l)
      BY <3>2, ListenSteps, Zenon
    <3>3. CASE \/ Wake \/ CheckerStopped \/ Drained \/ ForceStop
               \/ AdminShutdown \/ AdminStopped \/ ClosePool \/ CloseLimiter \/ Cleanup
      BY <3>3, ShutdownSteps, Zenon
    <3> QED BY <2>1, <3>1, <3>2, <3>3, Zenon DEF Main
  <2>2. CASE UNCHANGED vars
    BY <2>2 DEF vars, startup, servers, IInv, Types, CheckerPhase, NotYet, Lent, Handover,
                Closed, Asked, Running, ShutDown
  <2> QED BY <2>1, <2>2, BesideSteps, Zenon DEF Next
<1> QED BY <1>1, <1>2, PTL DEF Spec

-----------------------------------------------------------------------------
(* What follows from it.                                                   *)

\* From whichever point of start-up or shutdown runWith returns, its deferred
\* cleanups and shutdown leave no connection, no goroutine of the checker or the
\* limiter and no RPC.  A listener that is still open has a Serve that is yet to run
\* (and then closes it), and an admin handler that still runs has outlasted the
\* grace.
THEOREM NothingLeaksTheorem == Spec => []NothingLeaks
<1>1. IInv => NothingLeaks
  <2> SUFFICES ASSUME IInv, main = "returned" PROVE NothingLeaks
    BY Zenon DEF NothingLeaks
  <2>1. \A l \in lns : ShutDown(l)
    BY Zenon DEF IInv, Types, NotYet, Handover, ShutDown, Ports, Ending
  <2> QED BY <2>1, Zenon DEF IInv, CheckerPhase, NotYet, Lent, Handover, Closed, NothingLeaks, Ending
<1> QED BY <1>1, Inductive, PTL

\* No backend flips from the moment GracefulStop is spawned, and no connection is
\* closed while a probe may be using it (shutdown, newPool, and the cleanups).
THEOREM SteadyTheorem == Spec => SteadyWhileDraining
<1> DEFINE Steady == /\ stopper # "off" => up' = up
                     /\ checker # "off" => conns \subseteq conns'
<1>1. IInv /\ [Next]_vars => [Steady]_vars
  <2> SUFFICES ASSUME IInv, Next PROVE Steady
    BY Zenon
  <2> USE DEF IInv, CheckerPhase, Handover, NotYet, BeforeServing, Stopping, startup, servers
  <2>1. CASE Resolve \/ StartParts \/ ListenFails \/ \E l \in Ports : Listen(l)
    BY <2>1, Zenon DEF Resolve, StartParts, ListenFails, Listen
  <2>2. CASE NewBackend \/ PoolFails
    BY <2>2, Zenon DEF NewBackend, PoolFails
  <2>3. CASE Wake \/ CheckerStopped \/ Drained \/ ForceStop \/ AdminShutdown \/ AdminStopped
    BY <2>3, Zenon DEF Wake, CheckerStopped, Drained, ForceStop, AdminShutdown, AdminStopped
  <2>4. CASE ClosePool \/ CloseLimiter \/ Cleanup
    BY <2>4, Zenon DEF ClosePool, CloseLimiter, Cleanup
  <2>5. CASE Signal \/ Flip \/ Scrape \/ GracefulStop \/ Expire \/ Rest
    BY <2>5, Zenon DEF Signal, Flip, Scrape, GracefulStop, Expire, Rest, vars
  <2>6. CASE \/ \E l \in Ports :
                    ServeStarts(l) \/ ServeFails(l) \/ ServeReturns(l) \/ ServeSends(l)
             \/ \E r \in RPCs : Accept(r) \/ HandlerReturns(r)
    BY <2>6, Zenon DEF ServeStarts, ServeFails, ServeReturns, ServeSends, Accept, HandlerReturns
  <2> QED BY <2>1, <2>2, <2>3, <2>4, <2>5, <2>6, Zenon DEF Next, Main
<1> QED BY <1>1, Inductive, PTL DEF Spec, SteadyWhileDraining

-----------------------------------------------------------------------------
(* Process implements Drain, step by step.                                 *)

\* A step that shows nothing to whoever watches the process from outside.
Quiet == UNCHANGED <<Phase, signal, failed, Running, Held>>

LEMMA QuietIsStutter ==
  ASSUME Quiet
  PROVE  UNCHANGED Promise!vars
  BY Zenon DEF Quiet, Promise!vars

\* What the phase, the requests and the ports are made of.
LEMMA SameView ==
  /\ UNCHANGED <<main, conns, stopper, cancelled>> => UNCHANGED Phase
  /\ UNCHANGED rpc => UNCHANGED Running
  /\ UNCHANGED <<lns, serve>> => UNCHANGED Held
  BY DEF Phase, Serving, ShutDown, Running, Held

\* A server that closes the listener it was lent has a goroutine to end.
LEMMA ClosingHolds ==
  ASSUME IInv, stopper # "off", NEW l \in Ports, lns' = Unserved(l), UNCHANGED serve
  PROVE  UNCHANGED Held
<1>1. \A p \in Ports : serve[p] # "off" /\ (p \in lns => serve[p] \notin {"returned", "ended"})
  BY Zenon DEF IInv, Lent
<1>2. \A p \in Ports : p \in lns' => p \in lns
  BY Zenon DEF Unserved
<1> QED BY <1>1, <1>2, Zenon DEF IInv, Types, Held

LEMMA StartUpRefines ==
  ASSUME IInv,
         \/ Resolve \/ NewBackend \/ PoolFails \/ StartParts
         \/ ListenFails \/ \E l \in Ports : Listen(l)
  PROVE  [Promise!Next]_(Promise!vars)
<1>1. /\ Phase = "down" /\ Phase' \in {"down", "up", "closed"}
      /\ UNCHANGED <<signal, failed, rpc>>
      /\ Phase' = "up" => serve' = [l \in Ports |-> "spawned"]
      /\ Phase' = "closed" => lns' = {} /\ \A l \in Ports : serve'[l] = "off"
  <2>1. main \in {"resolve", "pool", "listen"}
    BY Zenon DEF Resolve, NewBackend, PoolFails, StartParts, ListenFails, Listen
  <2>2. /\ stopper = "off" /\ ~cancelled /\ \A l \in Ports : serve[l] = "off"
        /\ main # "listen" => lns = {}
    BY <2>1, Zenon DEF IInv, NotYet, BeforeServing
  <2>3. UNCHANGED <<signal, failed, rpc, stopper, cancelled>>
    BY Zenon DEF Resolve, NewBackend, PoolFails, StartParts, ListenFails, Listen, servers
  <2>4. /\ Phase = "down"
        /\ ~ShutDown("grpc") /\ ~ShutDown("grpc")'
    BY <2>1, <2>2, <2>3, Zenon DEF Phase, Serving, ShutDown
  <2>5. CASE Resolve \/ NewBackend \/ PoolFails \/ StartParts
    <3>1. main' \in {"pool", "listen", "returned"} /\ UNCHANGED <<lns, serve>> /\ main # "listen"
      BY <2>5, Zenon DEF Resolve, NewBackend, PoolFails, StartParts, servers
    <3>2. Phase' \in {"down", "closed"}
      BY <2>4, <3>1, Zenon DEF Phase, Serving
    <3> QED BY <2>2, <2>3, <2>4, <3>1, <3>2, Zenon
  <2>6. CASE ListenFails
    <3>1. main' = "cleanup" /\ lns' = {} /\ UNCHANGED serve
      BY <2>6, Zenon DEF ListenFails
    <3>2. Phase' \in {"down", "closed"}
      BY <2>4, <3>1, Zenon DEF Phase, Serving
    <3> QED BY <2>2, <2>3, <2>4, <3>1, <3>2, Zenon
  <2>7. CASE \E l \in Ports : Listen(l)
    <3>1. \/ main' = "listen"
          \/ main' = "select" /\ serve' = [l \in Ports |-> "spawned"]
      BY <2>7, Zenon DEF Listen
    <3>2. /\ Phase' \in {"down", "up"}
          /\ Phase' = "up" => serve' = [l \in Ports |-> "spawned"]
      BY <2>4, <3>1, Zenon DEF Phase, Serving
    <3> QED BY <2>3, <2>4, <3>2, Zenon
  <2> QED BY <2>5, <2>6, <2>7, Zenon
<1>2. UNCHANGED Running
  BY <1>1, Zenon DEF Running
<1>3. /\ Held' \in SUBSET Ports
      /\ Phase' = "up" => Held' = Ports
      /\ Phase' = "closed" => Held' = {}
  BY <1>1, Zenon DEF Held
<1> QED BY <1>1, <1>2, <1>3, Zenon DEF Promise!Next, Promise!Bind, Promise!Open, Promise!GiveUp

LEMMA ShutdownRefines ==
  ASSUME IInv,
         \/ Wake \/ CheckerStopped \/ Drained \/ ForceStop
         \/ AdminShutdown \/ AdminStopped \/ ClosePool \/ CloseLimiter \/ Cleanup
  PROVE  [Promise!Next]_(Promise!vars)
<1> USE DEF IInv, Types, NotYet, Handover, Closed, BeforeServing, Stopping, Ending,
            startup, servers
<1>1. CASE Wake \/ CheckerStopped \/ Drained \/ CloseLimiter
  <2>1. UNCHANGED <<signal, failed, rpc, lns, serve, conns, cancelled>>
    BY <1>1, Zenon DEF Wake, CheckerStopped, Drained, CloseLimiter
  <2>2. \/ Serving /\ Serving' /\ main # "close" /\ main' # "close"
        \/ main = "close" /\ main' = "cleanup" /\ conns = {}
    BY <1>1, Zenon DEF Wake, CheckerStopped, Drained, CloseLimiter, Serving
  <2>3. UNCHANGED ShutDown("grpc")
    BY <1>1, <2>1, Zenon DEF Wake, CheckerStopped, Drained, CloseLimiter, ShutDown
  <2>4. UNCHANGED Phase
    BY <2>1, <2>2, <2>3 DEF Phase, Serving
  <2> QED BY <2>1, <2>4, SameView, QuietIsStutter, Zenon DEF Quiet
<1>2. CASE ForceStop
  <2>1. UNCHANGED <<signal, failed, rpc>>
    BY <1>2, Zenon DEF ForceStop
  <2>2. Phase \in {"up", "draining"} /\ Phase' = "draining" /\ (signal \/ failed)
    BY <1>2, Zenon DEF ForceStop, Phase, Serving, ShutDown, Asked
  <2>3. UNCHANGED Held
    BY <1>2, ClosingHolds, Zenon DEF ForceStop, Ports
  <2> QED BY <2>1, <2>2, <2>3, SameView, Zenon DEF Promise!Next, Promise!vars, Promise!BeginDrain
<1>3. CASE AdminShutdown \/ AdminStopped \/ ClosePool
  <2>1. /\ UNCHANGED <<signal, failed, rpc>> /\ Running = {}
        /\ Phase = "draining" /\ Phase' \in {"draining", "closed"}
    BY <1>3, Zenon DEF AdminShutdown, AdminStopped, ClosePool, Phase, ShutDown
  <2>2. UNCHANGED Held
    BY <1>3, ClosingHolds, SameView, Zenon DEF AdminShutdown, AdminStopped, ClosePool, Ports
  <2> QED BY <2>1, <2>2, SameView, Zenon DEF Promise!Next, Promise!vars, Promise!Close
<1>4. CASE Cleanup
  <2>1. /\ UNCHANGED <<signal, failed, rpc, lns, serve>>
        /\ UNCHANGED Phase \/ (Phase = "down" /\ Phase' = "closed")
        /\ Phase = "down" => lns = {} /\ \A l \in Ports : serve[l] = "off"
    BY <1>4, Zenon DEF Cleanup, Phase, Serving, ShutDown
  <2>2. Phase = "down" => Held = {}
    BY <2>1, Zenon DEF Held
  <2> QED BY <2>1, <2>2, SameView, Zenon DEF Promise!Next, Promise!vars, Promise!GiveUp
<1> QED BY <1>1, <1>2, <1>3, <1>4

LEMMA BesideRefines ==
  ASSUME IInv,
         \/ Signal \/ Flip \/ Scrape \/ GracefulStop \/ Expire \/ Rest
         \/ \E l \in Ports : ServeStarts(l) \/ ServeFails(l) \/ ServeReturns(l) \/ ServeSends(l)
         \/ \E r \in RPCs : Accept(r) \/ HandlerReturns(r)
  PROVE  [Promise!Next]_(Promise!vars)
<1> USE DEF IInv, Types, NotYet, Handover, Closed, Asked, BeforeServing, Stopping, Ending,
            startup, servers
<1>1. CASE Flip \/ Scrape \/ Expire \/ Rest
  <2>1. UNCHANGED <<signal, failed, rpc, main, conns, stopper, cancelled, lns, serve>>
    BY <1>1, Zenon DEF Flip, Scrape, Expire, Rest, vars
  <2> QED BY <2>1, SameView, QuietIsStutter, Zenon DEF Quiet
<1>2. CASE Signal
  <2>1. /\ UNCHANGED <<rpc, main, conns, stopper, cancelled, lns, serve>> /\ (signal \/ failed)'
    BY <1>2, Zenon DEF Signal
  <2>2. (signal \/ failed) => UNCHANGED (signal \/ failed)
    BY <2>1, Zenon
  <2> QED BY <2>1, <2>2, SameView, Zenon DEF Promise!Next, Promise!vars, Promise!Ask
<1>3. CASE GracefulStop
  <2>1. UNCHANGED <<signal, failed, rpc>>
    BY <1>3, Zenon DEF GracefulStop
  <2>2. UNCHANGED Phase \/ (Phase = "up" /\ Phase' = "draining" /\ (signal \/ failed))
    BY <1>3, Zenon DEF GracefulStop, Phase, Serving, ShutDown
  <2>3. UNCHANGED Held
    BY <1>3, ClosingHolds, SameView, Zenon DEF GracefulStop, Ports
  <2> QED BY <2>1, <2>2, <2>3, SameView, Zenon DEF Promise!Next, Promise!vars, Promise!BeginDrain
<1>4. ASSUME NEW r \in RPCs, Accept(r) PROVE Promise!Accept(r)
  <2>1. UNCHANGED <<signal, failed, main, conns, stopper, cancelled, lns, serve>>
    BY <1>4, Zenon DEF Accept
  <2>2. Phase = "up"
    BY <1>4, Zenon DEF Accept, Phase, Serving, ShutDown
  <2>3. r \notin Running /\ Running' = Running \cup {r}
    BY <1>4, Zenon DEF Accept, Running
  <2> QED BY <2>1, <2>2, <2>3, SameView, Zenon DEF Promise!Accept
<1>5. ASSUME NEW r \in RPCs, HandlerReturns(r) PROVE Promise!Finish(r)
  <2>1. UNCHANGED <<signal, failed, main, conns, stopper, cancelled, lns, serve>>
    BY <1>5, Zenon DEF HandlerReturns
  <2>2. r \in Running /\ Running' = Running \ {r}
    BY <1>5, Zenon DEF HandlerReturns, Running
  <2> QED BY <2>1, <2>2, SameView, Zenon DEF Promise!Finish
<1>6. ASSUME NEW l \in Ports, ServeStarts(l) \/ ServeFails(l) \/ ServeReturns(l)
      PROVE  UNCHANGED Promise!vars
  <2>1. /\ UNCHANGED <<signal, failed, rpc, main, conns, stopper, cancelled>>
        /\ serve[l] \in {"spawned", "serving"}
        /\ \E s \in {"serving", "returned"} : serve' = [serve EXCEPT ![l] = s]
        /\ lns' \in {lns, lns \ {l}}
    BY <1>6, Zenon DEF ServeStarts, ServeFails, ServeReturns
  <2>2. UNCHANGED Held
    BY <2>1, Zenon DEF Held
  <2> QED BY <2>1, <2>2, SameView, QuietIsStutter, Zenon DEF Quiet
<1>7. ASSUME NEW l \in Ports, ServeSends(l) PROVE Promise!Release(l)
  <2>1. /\ UNCHANGED <<rpc, main, conns, stopper, cancelled, lns>> /\ (signal \/ failed)'
        /\ serve[l] = "returned" /\ serve' = [serve EXCEPT ![l] = "ended"]
    BY <1>7, Zenon DEF ServeSends
  <2>2. Phase # "down"
    BY <2>1, Zenon DEF Phase, Serving
  <2>3. l \in Held /\ Held' = Held \ {l}
    BY <2>1, Zenon DEF Held, Lent
  <2>4. (signal \/ failed)' = TRUE
    BY <2>1, Zenon
  <2> QED BY <2>1, <2>2, <2>3, <2>4, SameView, Zenon DEF Promise!Release
<1> QED BY <1>1, <1>2, <1>3, <1>4, <1>5, <1>6, <1>7, Zenon DEF Promise!Next

\* The safety half of Drains: runWith and shutdown start as Drain starts, and
\* every step they, the servers and the handlers take is one of Drain's or shows
\* nothing.  Connections are so closed after the last handler has returned, nothing
\* is accepted once it drains, and a start that fails has closed its ports.
THEOREM DrainTheorem == Spec => Promise!Init /\ [][Promise!Next]_(Promise!vars)
<1>1. Init => Promise!Init
  BY Zenon DEF Init, Promise!Init, Phase, Running, Serving, ShutDown, Held
<1>2. IInv /\ [Next]_vars => [Promise!Next]_(Promise!vars)
  <2> SUFFICES ASSUME IInv, [Next]_vars PROVE [Promise!Next]_(Promise!vars)
    OBVIOUS
  <2>1. CASE Main
    BY <2>1, StartUpRefines, ShutdownRefines, Zenon DEF Main
  <2>2. CASE UNCHANGED vars
    BY <2>2, SameView, QuietIsStutter, Zenon DEF vars, startup, servers, Quiet
  <2> QED BY <2>1, <2>2, BesideRefines, Zenon DEF Next
<1> QED BY <1>1, <1>2, Inductive, PTL DEF Spec
=============================================================================
