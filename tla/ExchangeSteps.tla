--------------------------- MODULE ExchangeSteps ----------------------------
(***************************************************************************)
(* The inductive invariant of Exchange, for every number of candidates, of *)
(* messages and of answers and every set of policies and of statuses, and  *)
(* the steps that keep it up to the opening of a stream: those of the      *)
(* backends, of the client, of the pump, and the first ones of the handler.*)
(***************************************************************************)
EXTENDS Exchange, TLAPS

-----------------------------------------------------------------------------
(* The inductive invariant.                                                *)

R == client.read - InHand
First == IF x.haveFirst THEN 1 ELSE 0
Contacting == {"install", "sendFirst", "relay"}

\* The handler: which candidate it is at, and what it has counted.
Walk ==
    /\ h.i <= h.n \/ (h.n = 0 /\ h.i = 1 /\ h.pc \in {"pick", "done"})
    /\ h.pc \in {"pick", "first"} => h.i = 1 /\ count.attempts = 0
    /\ count.failovers < h.i /\ count.attempts <= h.i
    /\ h.pc \in {"pick", "first", "reserve"} =>
         count.attempts = count.failovers /\ count.attempts < h.i
    /\ h.pc \in Contacting \cup {"judge"} => count.attempts = count.failovers + 1
    /\ h.pc = "done" => count.attempts \in {0, count.failovers + 1}

\* The reservations: those behind are settled, those ahead are not taken.
Settled ==
    \A k \in Attempts :
        /\ k > h.i => probe[k] = "none"
        /\ k = h.i => /\ h.pc \in {"pick", "first", "reserve"} => probe[k] = "none"
                      /\ h.pc \in Contacting => probe[k] = "held"
                      /\ h.pc = "judge" => probe[k] \in {"success", "failure"}
        /\ (k < h.i \/ (k = h.i /\ h.pc = "done")) => probe[k] \notin {"held", "twice"}
        /\ up[k].opened /\ (k < h.i \/ (k = h.i /\ h.pc = "done")) => probe[k] \in {"success", "failure"}

\* The streams: not open before their time, nothing on them before they are installed.
Ready(k) ==
    /\ up[k].opened => k < h.i \/ (k = h.i /\ h.pc \notin {"pick", "first", "reserve", "install"})
    /\ k = h.i /\ h.pc \in {"sendFirst", "relay"} => up[k].opened
    /\ ~up[k].opened => up[k].status = Live /\ up[k].out = 0
Unused(k) == up[k].in = <<>> /\ ~up[k].eof /\ up[k].taken = 0
Streams ==
    \A k \in Attempts : Ready(k) /\ up[k].taken <= up[k].out /\ (k > x.cs => Unused(k))

\* The pump and its target.
Target ==
    /\ x.cs <= h.i
    /\ x.cs # None => up[x.cs].opened
    /\ h.pc \in {"pick", "first"} => p.pc = "none" /\ x.cs = None /\ ~x.haveFirst /\ ~x.halfClosed
    /\ h.pc \in {"reserve", "install", "sendFirst"} => x.cs < h.i
    /\ h.pc = "relay" => x.cs = h.i
    /\ h.pc = "judge" => IF h.setup THEN x.cs < h.i
                         ELSE x.cs = h.i /\ (~Open(h.i) \/ client.ctx # Live)
    /\ x.cs # None /\ x.cs < h.i => ~Open(x.cs)
    /\ p.pc # "none" => x.cs # None /\ x.pumping
    /\ x.pumping => p.pc # "none"
    /\ x.committed => x.cs # None /\ h.pc # "sendFirst" /\ p.pc # "none"
    /\ p.pc = "send" => x.committed /\ p.cs = x.cs
    /\ p.pc = "closing" => x.halfClosed /\ p.cs \in 1 .. x.cs /\ up[p.cs].opened
    /\ p.pc = "eof" => client.closed /\ client.read = client.sent
    /\ x.halfClosed => client.closed /\ client.read = client.sent /\ p.pc \in {"none", "closing", "done"}

\* What has been read off the client's stream, and where it went.
Handed ==
    /\ R >= 0
    /\ ~x.committed => R = First
    /\ x.haveFirst => R >= 1
    /\ x.cs # None =>
         \/ up[x.cs].in = [j \in 1 .. R |-> j]
         \/ p.pc = "done" /\ x.committed /\ ~x.halfClosed /\ ~Open(x.cs)
    /\ p.pc = "closing" => Len(up[p.cs].in) = client.sent
    /\ \A k \in Attempts : up[k].eof => x.halfClosed /\ Len(up[k].in) = client.sent
    /\ \A k \in Attempts : k < h.i => Len(up[k].in) <= IF x.policy = "unavailable" THEN 1 ELSE 0

\* OK is the whole answer of one attempt.
Delivered ==
    /\ up[h.i].status = "OK" /\ Len(seen.msgs) = up[h.i].out
    /\ up[h.i].md => seen.header = h.i \/ client.ctx # Live

Voice ==
    /\ seen.header = IF x.sentHeader THEN h.i ELSE None
    /\ \A j \in DOMAIN seen.msgs : seen.msgs[j] = <<h.i, j>>
    /\ ~x.sentMsg => seen.msgs = <<>>
    /\ h.pc \in {"pick", "first", "reserve", "install", "sendFirst"} => ~x.sentHeader /\ ~x.sentMsg
    /\ h.pc = "relay" => Len(seen.msgs) = up[h.i].taken
    /\ h.pc # "done" => seen.trailer = None /\ seen.result = Live
    /\ h.pc = "judge" /\ h.err = "OK" => ~h.setup /\ x.upstreamDone /\ Delivered
    /\ seen.trailer \in {None, h.i}
    /\ seen.result = "OK" => Delivered /\ seen.trailer = h.i

IInv == TypeOK /\ Walk /\ Settled /\ Streams /\ Target /\ Handed /\ Voice

-----------------------------------------------------------------------------
(* The backends' moves.                                                    *)

\* An open stream may get answers and may end; what it was handed stays.
Evolves(k) ==
    /\ Open(k)
    /\ up' \in [Attempts -> Stream]
    /\ \A j \in Attempts \ {k} : up'[j] = up[j]
    /\ up'[k].opened /\ up'[k].in = up[k].in /\ up'[k].eof = up[k].eof
    /\ up'[k].taken = up[k].taken /\ up'[k].out >= up[k].out

\* A stream is replaced by q.
LEMMA Replaced ==
  ASSUME TypeOK, NEW k \in Attempts, Open(k), NEW q \in Stream, up' = [up EXCEPT ![k] = q],
         q.opened, q.in = up[k].in, q.eof = up[k].eof, q.taken = up[k].taken, q.out >= up[k].out
  PROVE  Evolves(k)
  BY DEF TypeOK, Evolves

LEMMA StatusEvolves ==
  ASSUME TypeOK, NEW k \in Attempts, Open(k), NEW c \in Codes, up' = [up EXCEPT ![k].status = c]
  PROVE  Evolves(k)
<1>1. up[k] \in Stream /\ up \in [Attempts -> Stream]
  BY DEF TypeOK
<1>2. up[k].out \in Int
  BY <1>1, ExchangeAssumption DEF Stream
<1> DEFINE q == [up[k] EXCEPT !.status = c]
<1>3. up' = [up EXCEPT ![k] = q]
  OBVIOUS
<1>4. q \in Stream
  BY <1>1, Zenon DEF Stream
<1>5. /\ q.opened /\ q.in = up[k].in /\ q.eof = up[k].eof
      /\ q.taken = up[k].taken /\ q.out = up[k].out
  BY <1>1 DEF Stream, Open
<1> HIDE DEF q
<1>6. q.out >= up[k].out
  BY <1>2, <1>5
<1> QED BY <1>3, <1>4, <1>5, <1>6, Replaced, Zenon

LEMMA BackendEvolves ==
  ASSUME TypeOK, NEW k \in Attempts,
         ServerAnswer(k) \/ ServerEnd(k) \/ Break(k) \/ Canceled(k)
  PROVE  Evolves(k)
<1>1. up[k] \in Stream /\ up \in [Attempts -> Stream]
  BY DEF TypeOK
<1>2. up[k].out \in Int /\ up[k].out >= 0
  BY <1>1, ExchangeAssumption DEF Stream
<1>3. ASSUME ServerAnswer(k) PROVE Evolves(k)
  <2>1. PICK md \in BOOLEAN :
          up' = [up EXCEPT ![k].out = @ + 1, ![k].answered = TRUE, ![k].md = md]
    BY <1>1, <1>3, Zenon DEF ServerAnswer, Stream
  <2> DEFINE q == [up[k] EXCEPT !.out = @ + 1, !.answered = TRUE, !.md = md]
  <2>2. up' = [up EXCEPT ![k] = q]
    BY <2>1, Zenon
  <2>3. q \in Stream
    <3>1. up[k].out + 1 \in 0 .. MaxAnswers
      BY <1>2, <1>3, ExchangeAssumption DEF ServerAnswer
    <3> QED BY <1>1, <3>1, Zenon DEF Stream
  <2>4. /\ q.opened /\ q.in = up[k].in /\ q.eof = up[k].eof
        /\ q.taken = up[k].taken /\ q.out = up[k].out + 1
    BY <1>1, <1>3, Zenon DEF ServerAnswer, Stream, Open
  <2> HIDE DEF q
  <2>5. q.out >= up[k].out /\ Open(k)
    BY <1>2, <1>3, <2>4 DEF ServerAnswer
  <2> QED BY <2>2, <2>3, <2>4, <2>5, Replaced, Zenon
<1>4. ASSUME NEW c \in Codes, NEW a \in BOOLEAN, NEW md \in BOOLEAN, Open(k),
             up' = [up EXCEPT ![k].status = c, ![k].answered = a, ![k].md = md]
      PROVE  Evolves(k)
  <2> DEFINE q == [up[k] EXCEPT !.status = c, !.answered = a, !.md = md]
  <2>1. up' = [up EXCEPT ![k] = q]
    BY <1>4, Zenon
  <2>2. q \in Stream
    BY <1>1, Zenon DEF Stream
  <2>3. /\ q.opened /\ q.in = up[k].in /\ q.eof = up[k].eof
        /\ q.taken = up[k].taken /\ q.out = up[k].out
    BY <1>1, <1>4 DEF Stream, Open
  <2> HIDE DEF q
  <2>4. q.out >= up[k].out
    BY <1>2, <2>3
  <2> QED BY <1>4, <2>1, <2>2, <2>3, <2>4, Replaced, Zenon
<1>5. ASSUME ServerEnd(k) PROVE Evolves(k)
  <2>1. PICK c \in Codes, md \in BOOLEAN :
          up' = [up EXCEPT ![k].status = c, ![k].answered = TRUE, ![k].md = md]
    BY <1>1, <1>5, ExchangeAssumption, Zenon DEF ServerEnd, Stream, Codes
  <2> QED BY <1>4, <1>5, <2>1, Zenon DEF ServerEnd
<1>6. ASSUME NEW c \in Codes, Open(k), up' = [up EXCEPT ![k].status = c]
      PROVE  Evolves(k)
  BY <1>6, StatusEvolves, Zenon
<1>7. ASSUME Break(k) PROVE Evolves(k)
  BY <1>6, <1>7 DEF Break, Codes
<1>8. ASSUME Canceled(k) PROVE Evolves(k)
  BY <1>6, <1>8, Zenon DEF Canceled, Codes, TypeOK
<1> QED BY <1>3, <1>5, <1>7, <1>8

\* The numbers of a well-typed state.
Numbers ==
    /\ client.read \in Nat /\ client.sent \in Nat
    /\ h.i \in Nat /\ h.i \in Attempts /\ h.n \in Nat /\ h.n <= MaxCandidates
    /\ x.cs \in Nat /\ x.cs \in Attempts \cup {None}
    /\ p.cs \in Nat /\ p.cs \in Attempts \cup {None}
    /\ count.attempts \in Nat /\ count.failovers \in Nat
    /\ \A k \in Attempts : k \in Nat /\ up[k].out \in Nat /\ up[k].taken \in Nat

LEMMA StreamNumbers ==
  ASSUME NEW q \in Stream
  PROVE  q.out \in Nat /\ q.taken \in Nat
  BY ExchangeAssumption DEF Stream

LEMMA TypedNumbers ==
  ASSUME TypeOK
  PROVE  Numbers
<1>1. \A k \in Attempts : k \in Nat /\ up[k].out \in Nat /\ up[k].taken \in Nat
  BY StreamNumbers, ExchangeAssumption DEF TypeOK, Attempts
<1>2. client.read \in Nat /\ client.sent \in Nat /\ h.n \in Nat /\ h.n <= MaxCandidates
  BY ExchangeAssumption DEF TypeOK
<1>3. h.i \in Attempts /\ x.cs \in Attempts \cup {None} /\ p.cs \in Attempts \cup {None}
  BY DEF TypeOK
<1>4. h.i \in Nat /\ x.cs \in Nat /\ p.cs \in Nat
  BY <1>3, ExchangeAssumption DEF Attempts, None
<1>5. count.attempts \in Nat /\ count.failovers \in Nat
  <2>1. count \in [attempts : 0 .. MaxCandidates, failovers : 0 .. MaxCandidates]
    BY DEF TypeOK
  <2> QED BY <2>1, ExchangeAssumption
<1> QED BY <1>1, <1>2, <1>3, <1>4, <1>5 DEF Numbers

\* What is left alone when an open stream evolves.
Evolved ==
    \A j \in Attempts :
        /\ up'[j].opened <=> up[j].opened
        /\ up'[j].in = up[j].in /\ up'[j].eof = up[j].eof /\ up'[j].taken = up[j].taken
        /\ up'[j].out >= up[j].out /\ up'[j].out \in Nat
        /\ ~Open(j) => up'[j] = up[j] /\ ~Open(j)'
        /\ ~up[j].opened => up'[j] = up[j]

LEMMA EvolvesEvolved ==
  ASSUME Numbers, NEW k \in Attempts, Evolves(k)
  PROVE  Evolved
  BY StreamNumbers DEF Evolves, Evolved, Open, Numbers

LEMMA EvolvedStreams ==
  ASSUME Numbers, Streams, Evolved, UNCHANGED <<h, x>>
  PROVE  Streams'
<1>1. ASSUME NEW j \in Attempts PROVE Ready(j)'
  BY DEF Evolved, Streams, Ready
<1>2. ASSUME NEW j \in Attempts PROVE (up[j].taken <= up[j].out)'
  BY DEF Evolved, Streams, Numbers
<1>3. ASSUME NEW j \in Attempts PROVE (j > x.cs => Unused(j))'
  BY DEF Evolved, Streams, Unused
<1> QED BY <1>1, <1>2, <1>3 DEF Streams

LEMMA EvolvedVoice ==
  ASSUME Numbers, Voice, Evolved, UNCHANGED <<client, h, x, seen>>
  PROVE  Voice'
<1>1. Delivered => Delivered'
  BY DEF Delivered, Evolved, Numbers, Open, Live
<1>2. up[h.i].taken' = up[h.i].taken
  BY DEF Evolved, Numbers
<1> QED BY <1>1, <1>2 DEF Voice

LEMMA EvolvesKeeps ==
  ASSUME IInv, NEW k \in Attempts, Evolves(k), UNCHANGED <<client, x, h, p, probe, count, seen>>
  PROVE  IInv'
<1>1. Numbers
  BY TypedNumbers DEF IInv
<1>2. Evolved
  BY <1>1, EvolvesEvolved
<1>3. TypeOK'
  BY DEF IInv, TypeOK, Evolves
<1>4. Walk'
  BY DEF IInv, Walk
<1>5. Settled'
  BY <1>2 DEF Evolved, IInv, Settled
<1>6. Streams'
  BY <1>1, <1>2, EvolvedStreams DEF IInv
<1>7. Target'
  <2> USE DEF IInv, Target
  <2>1. (x.cs # None => up[x.cs].opened)'
    BY <1>1, <1>2 DEF Evolved, Numbers
  <2>2. (x.cs # None /\ x.cs < h.i => ~Open(x.cs))'
    BY <1>1, <1>2 DEF Evolved, Numbers
  <2>3. (h.pc = "judge" => IF h.setup THEN x.cs < h.i
                         ELSE x.cs = h.i /\ (~Open(h.i) \/ client.ctx # Live))'
    BY <1>1, <1>2 DEF Evolved, Numbers
  <2>4. (p.pc = "closing" => x.halfClosed /\ p.cs \in 1 .. x.cs /\ up[p.cs].opened)'
    BY <1>1, <1>2 DEF Evolved, Numbers, None, Attempts
  <2> QED BY <2>1, <2>2, <2>3, <2>4
<1>8. Handed'
  <2> USE DEF IInv, Handed
  <2>0. R' = R /\ First' = First
    BY DEF R, First, InHand
  <2>1. (x.cs # None =>
         \/ up[x.cs].in = [j \in 1 .. R |-> j]
         \/ p.pc = "done" /\ x.committed /\ ~x.halfClosed /\ ~Open(x.cs))'
    BY <2>0, <1>1, <1>2 DEF Evolved, Numbers
  <2>2. (p.pc = "closing" => Len(up[p.cs].in) = client.sent)'
    BY <1>1, <1>2 DEF Evolved, Numbers, Target, None, Attempts
  <2>3. (\A j \in Attempts : up[j].eof => x.halfClosed /\ Len(up[j].in) = client.sent)'
    BY <1>1, <1>2, SMTT(60) DEF Evolved, Numbers
  <2>4. (\A j \in Attempts : j < h.i => Len(up[j].in) <= IF x.policy = "unavailable" THEN 1 ELSE 0)'
    BY <1>1, <1>2 DEF Evolved, Numbers
  <2> QED BY <2>0, <2>1, <2>2, <2>3, <2>4
<1>9. Voice'
  BY <1>1, <1>2, EvolvedVoice DEF IInv
<1> QED BY <1>3, <1>4, <1>5, <1>6, <1>7, <1>8, <1>9 DEF IInv

-----------------------------------------------------------------------------
(* The client's moves.                                                     *)

LEMMA ClientKeeps ==
  ASSUME IInv, Client
  PROVE  IInv'
<1>1. Numbers
  BY TypedNumbers DEF IInv
<1>2. UNCHANGED <<x, h, p, up, probe, count, seen>>
  BY DEF Client
<1> DEFINE T == [sent : 0 .. MaxMsgs, read : 0 .. MaxMsgs, closed : BOOLEAN,
                 ctx : {Live, "Canceled", "DeadlineExceeded"}]
<1>3. client \in T /\ client.read <= client.sent
  BY DEF IInv, TypeOK
<1>4. /\ client' \in T /\ client'.read <= client'.sent
      /\ client'.read = client.read
      /\ client.closed => client'.closed /\ client'.sent = client.sent
      /\ client.ctx # Live => client'.ctx # Live
  <2>1. CASE ClientSend
    BY <1>1, <1>3, <2>1, ExchangeAssumption DEF ClientSend, Numbers
  <2>2. CASE ClientClose
    BY <1>3, <2>2, Zenon DEF ClientClose
  <2>3. CASE ClientGone
    BY <1>3, <2>3 DEF ClientGone, Live
  <2> QED BY <2>1, <2>2, <2>3 DEF Client
<1>5. TypeOK'
  BY <1>2, <1>4 DEF IInv, TypeOK
<1> HIDE DEF T
<1>6. Walk' /\ Settled' /\ Streams'
  BY <1>2 DEF IInv, Walk, Settled, Streams, Ready, Unused
<1>7. Target'
  BY <1>2, <1>4 DEF IInv, Target, Open
<1>8. Handed'
  <2>1. R' = R /\ First' = First
    BY <1>2, <1>4 DEF R, First, InHand
  <2>2. p.pc = "closing" => x.halfClosed /\ client.closed
    BY DEF IInv, Target
  <2>3. x.halfClosed => client.closed
    BY DEF IInv, Target
  <2> QED BY <1>2, <1>4, <2>1, <2>2, <2>3 DEF IInv, Handed, Open
<1>9. Voice'
  BY <1>2, <1>4 DEF IInv, Voice, Delivered
<1> QED BY <1>5, <1>6, <1>7, <1>8, <1>9 DEF IInv

-----------------------------------------------------------------------------
(* The pump's moves.                                                       *)

XType == [policy : Policies, haveFirst : BOOLEAN, sentHeader : BOOLEAN, sentMsg : BOOLEAN,
          upstreamDone : BOOLEAN, cs : Attempts \cup {None}, pumping : BOOLEAN,
          committed : BOOLEAN, halfClosed : BOOLEAN]
PType == [pc : {"none", "recv", "commit", "send", "eof", "closing", "error", "done"},
          cs : Attempts \cup {None}]

\* The pump touches two of the exchange's fields.
XKept ==
    /\ x' \in XType
    /\ x'.cs = x.cs /\ x'.policy = x.policy /\ x'.haveFirst = x.haveFirst
    /\ x'.sentHeader = x.sentHeader /\ x'.sentMsg = x.sentMsg
    /\ x'.upstreamDone = x.upstreamDone /\ x'.pumping = x.pumping

LEMMA PumpFramed ==
  ASSUME IInv, PumpFrame, XKept, up' = up, client'.ctx = client.ctx
  PROVE  Walk' /\ Settled' /\ Streams' /\ Voice'
<1>1. Walk' /\ Settled' /\ Streams'
  BY DEF IInv, PumpFrame, XKept, Walk, Settled, Streams, Ready, Unused
<1>2. Voice'
  BY DEF IInv, PumpFrame, XKept, Voice, Delivered
<1> QED BY <1>1, <1>2

LEMMA PumpTypes ==
  ASSUME IInv, PumpFrame, x' \in XType, p' \in PType, up' \in [Attempts -> Stream],
         client' = client
  PROVE  TypeOK'
  BY DEF IInv, PumpFrame, TypeOK, XType, PType

LEMMA PumpCommitKeeps ==
  ASSUME IInv, PumpCommit, PumpFrame
  PROVE  IInv'
<1>1. Numbers
  BY TypedNumbers DEF IInv
<1>2. XKept /\ x'.committed /\ x'.halfClosed = x.halfClosed
  BY Zenon DEF IInv, TypeOK, PumpCommit, XKept, XType
<1>3. p' \in PType /\ p.pc = "commit" /\ p'.pc = "send" /\ p'.cs = x.cs
  BY <1>1 DEF PumpCommit, PType, Numbers
<1>4. UNCHANGED <<h, client, up>> /\ h.pc # "sendFirst"
  BY DEF PumpCommit, PumpFrame, MuFree
<1>5. TypeOK'
  <2>1. up \in [Attempts -> Stream]
    BY DEF IInv, TypeOK
  <2> QED BY <1>2, <1>3, <1>4, <2>1, PumpTypes DEF XKept
<1>6. Target'
  BY <1>2, <1>3, <1>4 DEF IInv, Target, XKept, Open
<1>7. Handed'
  <2>1. R' = R /\ First' = First
    BY <1>2, <1>3, <1>4 DEF R, First, InHand, XKept
  <2> QED BY <1>2, <1>3, <1>4, <2>1 DEF IInv, Handed, XKept, Open
<1> QED BY <1>2, <1>4, <1>5, <1>6, <1>7, PumpFramed DEF IInv

LEMMA PumpErrorKeeps ==
  ASSUME IInv, PumpError, PumpFrame
  PROVE  IInv'
<1>1. Numbers
  BY TypedNumbers DEF IInv
<1>2. XKept /\ x'.committed /\ x'.halfClosed = x.halfClosed
  BY Zenon DEF IInv, TypeOK, PumpError, XKept, XType
<1>3. p' \in PType /\ p.pc = "error" /\ p'.pc = "done" /\ p'.cs = p.cs
  BY DEF IInv, TypeOK, PumpError, PumpGoto, PType
<1>4. UNCHANGED <<h, client, up>> /\ h.pc # "sendFirst"
  BY DEF PumpError, PumpFrame, MuFree
<1>5. TypeOK'
  <2>1. up \in [Attempts -> Stream]
    BY DEF IInv, TypeOK
  <2> QED BY <1>2, <1>3, <1>4, <2>1, PumpTypes DEF XKept
<1>6. Target'
  BY <1>2, <1>3, <1>4 DEF IInv, Target, XKept, Open
<1>7. Handed'
  <2>1. R' = R /\ First' = First
    BY <1>2, <1>3, <1>4 DEF R, First, InHand, XKept
  <2> QED BY <1>2, <1>3, <1>4, <2>1 DEF IInv, Handed, XKept, Open
<1> QED BY <1>2, <1>4, <1>5, <1>6, <1>7, PumpFramed DEF IInv

LEMMA PumpHalfCloseKeeps ==
  ASSUME IInv, PumpHalfClose, PumpFrame
  PROVE  IInv'
<1>1. Numbers
  BY TypedNumbers DEF IInv
<1>2. XKept /\ x'.committed = x.committed /\ x'.halfClosed
  BY Zenon DEF IInv, TypeOK, PumpHalfClose, XKept, XType
<1>3. p' \in PType /\ p.pc = "eof" /\ p'.pc = "closing" /\ p'.cs = x.cs
  BY <1>1 DEF PumpHalfClose, PType, Numbers
<1>4. UNCHANGED <<h, client, up>> /\ h.pc # "sendFirst"
  BY DEF PumpHalfClose, PumpFrame, MuFree
<1>5. TypeOK'
  <2>1. up \in [Attempts -> Stream]
    BY DEF IInv, TypeOK
  <2> QED BY <1>2, <1>3, <1>4, <2>1, PumpTypes DEF XKept
<1>6. x.cs # None /\ x.cs \in 1 .. x.cs /\ client.closed /\ client.read = client.sent
  BY <1>1, <1>3 DEF IInv, Target, Numbers, None
<1>7. Target'
  BY <1>2, <1>3, <1>4, <1>6 DEF IInv, Target, XKept, Open
<1>8. Handed'
  <2>1. R' = R /\ First' = First /\ R = client.sent
    BY <1>1, <1>2, <1>3, <1>4, <1>6 DEF R, First, InHand, XKept, Numbers
  <2>2. up[x.cs].in = [j \in 1 .. R |-> j]
    BY <1>3, <1>6 DEF IInv, Handed
  <2>3. Len(up[x.cs].in) = client.sent
    BY <1>1, <2>1, <2>2 DEF Numbers
  <2> QED BY <1>2, <1>3, <1>4, <1>6, <2>1, <2>2, <2>3, Zenon DEF IInv, Handed, XKept, Open
<1> QED BY <1>2, <1>4, <1>5, <1>7, <1>8, PumpFramed DEF IInv

LEMMA PumpRecvKeeps ==
  ASSUME IInv, PumpRecv, PumpFrame
  PROVE  IInv'
<1>1. Numbers
  BY TypedNumbers DEF IInv
<1>2. UNCHANGED <<h, x, up>> /\ p.pc = "recv" /\ p.cs = p'.cs /\ p' \in PType
  BY DEF IInv, TypeOK, PumpRecv, PumpFrame, PumpGoto, PType
<1>3. XKept
  BY <1>2 DEF IInv, TypeOK, XKept, XType
<1>4. x.cs # None /\ x.pumping /\ ~x.halfClosed
  BY <1>2 DEF IInv, Target
<1> DEFINE T == [sent : 0 .. MaxMsgs, read : 0 .. MaxMsgs, closed : BOOLEAN,
                 ctx : {Live, "Canceled", "DeadlineExceeded"}]
<1>5. client \in T /\ client.read <= client.sent
  BY DEF IInv, TypeOK
<1>6. /\ client' \in T /\ client'.read <= client'.sent
      /\ client'.ctx = client.ctx /\ client'.sent = client.sent /\ client'.closed = client.closed
      /\ p'.pc \in {"commit", "eof", "error"}
      /\ p'.pc = "commit" => client'.read = client.read + 1
      /\ p'.pc # "commit" => client'.read = client.read
      /\ p'.pc = "eof" => client.closed /\ client.read = client.sent
  <2>1. CASE HasMsg /\ TakeMsg /\ PumpGoto("commit")
    <3>1. client.read + 1 \in 0 .. MaxMsgs /\ client.read + 1 <= client.sent
      BY <1>1, <1>5, <2>1, ExchangeAssumption DEF HasMsg, Numbers
    <3> QED BY <1>2, <1>5, <2>1, <3>1, Zenon DEF IInv, TypeOK, TakeMsg, PumpGoto, PType
  <2>2. CASE AtEOF /\ PumpGoto("eof") /\ UNCHANGED client
    BY <1>2, <1>5, <2>2, Zenon DEF IInv, TypeOK, AtEOF, PumpGoto
  <2>3. CASE InboundErr /\ PumpGoto("error") /\ UNCHANGED client
    BY <1>2, <1>5, <2>3 DEF IInv, TypeOK, PumpGoto
  <2> QED BY <2>1, <2>2, <2>3 DEF PumpRecv
<1>7. TypeOK'
  BY <1>2, <1>6 DEF IInv, PumpFrame, TypeOK, PType
<1> HIDE DEF T
<1>8. Target'
  BY <1>2, <1>4, <1>6 DEF IInv, Target, Open
<1>9. Handed'
  <2>1. R' = R /\ First' = First
    BY <1>1, <1>2, <1>6 DEF R, First, InHand, Numbers
  <2> QED BY <1>2, <1>4, <1>6, <2>1 DEF IInv, Handed, Open
<1> QED BY <1>2, <1>3, <1>6, <1>7, <1>8, <1>9, PumpFramed DEF IInv

LEMMA PumpSendFailsKeeps ==
  ASSUME IInv, PumpSendFails, PumpFrame
  PROVE  IInv'
<1>1. Numbers
  BY TypedNumbers DEF IInv
<1>2. /\ UNCHANGED <<h, client, x, up>> /\ p.pc = "send" /\ ~Open(p.cs)
      /\ p' \in PType /\ p'.pc = "done"
  BY Zenon DEF IInv, TypeOK, PumpSendFails, PumpFrame, PumpGoto, PType
<1>3. XKept
  BY <1>2 DEF IInv, TypeOK, XKept, XType
<1>4. x.cs # None /\ x.pumping /\ ~x.halfClosed /\ x.committed /\ p.cs = x.cs
  BY <1>2 DEF IInv, Target
<1>5. TypeOK'
  BY <1>2 DEF IInv, PumpFrame, TypeOK, PType
<1>6. Target'
  BY <1>2, <1>4 DEF IInv, Target, Open
<1>7. Handed'
  <2>1. R' = R + 1 /\ First' = First /\ R \in Int
    BY <1>1, <1>2 DEF R, First, InHand, Numbers
  <2> QED BY <1>2, <1>4, <2>1, SMTT(60) DEF IInv, Handed, Open
<1> QED BY <1>2, <1>3, <1>5, <1>6, <1>7, PumpFramed DEF IInv

LEMMA PumpSendRejectedKeeps ==
  ASSUME IInv, PumpSendRejected, PumpFrame
  PROVE  IInv'
<1>1. Numbers
  BY TypedNumbers DEF IInv
<1>2. /\ UNCHANGED <<h, client, x, probe, count, seen>> /\ p.pc = "send"
      /\ p' \in PType /\ p'.pc = "done"
  BY DEF IInv, TypeOK, PumpSendRejected, PumpFrame, PumpGoto, PType
<1>3. /\ x.cs # None /\ x.pumping /\ ~x.halfClosed /\ x.committed /\ p.cs = x.cs
      /\ h.pc # "sendFirst" /\ x.cs \in Attempts
  BY <1>1, <1>2 DEF IInv, Target, Numbers
<1>4. Evolves(x.cs) /\ ~Open(x.cs)'
  <2>1. up' = [up EXCEPT ![x.cs].status = "ResourceExhausted"] /\ Open(x.cs)
    BY <1>3 DEF PumpSendRejected
  <2>2. Evolves(x.cs)
    BY <1>3, <2>1, StatusEvolves, Zenon DEF IInv, Codes
  <2>3. up'[x.cs].status = "ResourceExhausted"
    BY <1>3, <2>1 DEF IInv, TypeOK, Stream
  <2> QED BY <1>2, <2>2, <2>3 DEF Open, Live
<1>5. Evolved
  BY <1>1, <1>3, <1>4, EvolvesEvolved
<1>6. TypeOK'
  BY <1>2, <1>4, SMTT(60) DEF IInv, TypeOK, PType, Evolves
<1>7. Walk' /\ Settled'
  BY <1>2, <1>5 DEF IInv, Walk, Settled, Evolved
<1>8. Streams'
  BY <1>1, <1>2, <1>5, EvolvedStreams DEF IInv
<1>9. Target'
  BY <1>1, <1>2, <1>3, <1>4, <1>5 DEF IInv, Target, Evolved, Numbers
<1>10. Handed'
  <2>1. R' = R + 1 /\ First' = First /\ R \in Int
    BY <1>1, <1>2 DEF R, First, InHand, Numbers
  <2>2. \A k \in Attempts : up'[k].in = up[k].in /\ up'[k].eof = up[k].eof
    BY <1>5 DEF Evolved
  <2> QED BY <1>2, <1>3, <1>4, <2>1, <2>2, SMTT(60) DEF IInv, Handed
<1>11. Voice'
  BY <1>1, <1>2, <1>5, EvolvedVoice DEF IInv
<1> QED BY <1>6, <1>7, <1>8, <1>9, <1>10, <1>11 DEF IInv

LEMMA PumpSendKeeps ==
  ASSUME IInv, PumpSend, PumpFrame
  PROVE  IInv'
<1>1. Numbers
  BY TypedNumbers DEF IInv
<1>2. /\ UNCHANGED <<h, client, x, probe, count, seen>> /\ p.pc = "send"
      /\ p' \in PType /\ p'.pc = "recv"
  BY DEF IInv, TypeOK, PumpSend, PumpFrame, PumpGoto, PType
<1>3. /\ x.cs # None /\ x.pumping /\ ~x.halfClosed /\ x.committed /\ p.cs = x.cs
      /\ h.pc # "sendFirst" /\ x.cs \in Attempts /\ x.cs = h.i /\ Open(x.cs)
  BY <1>1, <1>2 DEF IInv, Target, Numbers, PumpSend
<1>4. R' = R + 1 /\ First' = First /\ R \in Nat /\ client.read = R + 1
  BY <1>1, <1>2, SMTT(60) DEF R, First, InHand, Numbers, IInv, Handed
<1>5. up[x.cs].in = [j \in 1 .. R |-> j]
  BY <1>2, <1>3 DEF IInv, Handed
<1> DEFINE q == [up[x.cs] EXCEPT !.in = Append(@, client.read)]
<1>6. up' = [up EXCEPT ![x.cs] = q]
  BY <1>3 DEF PumpSend
<1>7. /\ q.in = [j \in 1 .. R + 1 |-> j] /\ q.eof = up[x.cs].eof /\ q.taken = up[x.cs].taken
      /\ q.opened = up[x.cs].opened /\ q.status = up[x.cs].status
      /\ q.out = up[x.cs].out /\ q.md = up[x.cs].md
  <2>1. up[x.cs] \in Stream
    BY <1>3 DEF IInv, TypeOK
  <2>2. q.in = Append(up[x.cs].in, R + 1)
    BY <1>4, <2>1 DEF Stream
  <2>3. Append(up[x.cs].in, R + 1) = [j \in 1 .. R + 1 |-> j]
    BY <1>4, <1>5
  <2> QED BY <2>1, <2>2, <2>3, Zenon DEF Stream
<1>8. q \in Stream
  <2>1. up[x.cs] \in Stream /\ client.read \in 1 .. MaxMsgs
    BY <1>1, <1>3, <1>4, ExchangeAssumption DEF IInv, TypeOK, Numbers
  <2>2. up[x.cs].in \in Seq(1 .. MaxMsgs)
    BY <2>1 DEF Stream
  <2>3. Append(up[x.cs].in, client.read) \in Seq(1 .. MaxMsgs)
    BY <2>1, <2>2
  <2> QED BY <2>1, <2>3, Zenon DEF Stream
<1> HIDE DEF q
<1>9. /\ up' \in [Attempts -> Stream] /\ up'[x.cs] = q
      /\ \A k \in Attempts \ {x.cs} : up'[k] = up[k]
  BY <1>3, <1>6, <1>8 DEF IInv, TypeOK
<1>10. TypeOK'
  BY <1>2, <1>9 DEF IInv, TypeOK, PType
<1>11. \A k \in Attempts :
        /\ up'[k].opened = up[k].opened /\ up'[k].status = up[k].status
        /\ up'[k].eof = up[k].eof /\ up'[k].taken = up[k].taken
        /\ up'[k].out = up[k].out /\ up'[k].md = up[k].md
  BY <1>7, <1>9
<1>12. Walk' /\ Settled'
  BY <1>2, <1>11 DEF IInv, Walk, Settled
<1>13. Streams'
  BY <1>1, <1>2, <1>3, <1>9, <1>11, SMTT(60) DEF IInv, Streams, Ready, Unused, Numbers
<1>14. Target'
  BY <1>1, <1>2, <1>3, <1>11 DEF IInv, Target, Open, Numbers
<1>15. Handed'
  <2>1. \A k \in Attempts : ~up'[k].eof
    BY <1>3, <1>11 DEF IInv, Handed
  <2>2. \A k \in Attempts : k < h.i => up'[k] = up[k]
    BY <1>1, <1>3, <1>9 DEF Numbers
  <2>3. up'[x.cs].in = [j \in 1 .. R' |-> j]
    BY <1>4, <1>7, <1>9
  <2> QED BY <1>2, <1>3, <1>4, <2>1, <2>2, <2>3, SMTT(60) DEF IInv, Handed
<1>16. Voice'
  BY <1>1, <1>2, <1>11 DEF IInv, Voice, Delivered, Numbers
<1> QED BY <1>10, <1>12, <1>13, <1>14, <1>15, <1>16 DEF IInv

LEMMA PumpCloseSendKeeps ==
  ASSUME IInv, PumpCloseSend, PumpFrame
  PROVE  IInv'
<1>1. Numbers
  BY TypedNumbers DEF IInv
<1>2. /\ UNCHANGED <<h, client, x, probe, count, seen>> /\ p.pc = "closing"
      /\ p' \in PType /\ p'.pc = "done"
  BY DEF IInv, TypeOK, PumpCloseSend, PumpFrame, PumpGoto, PType
<1>3. x.halfClosed /\ p.cs \in Attempts /\ p.cs <= x.cs /\ x.cs # None /\ x.pumping
  BY <1>1, <1>2, SMTT(60) DEF IInv, Target, Numbers, None, Attempts
<1> DEFINE q == [up[p.cs] EXCEPT !.eof = TRUE]
<1>4. up' = [up EXCEPT ![p.cs] = q]
  BY DEF PumpCloseSend
<1>5. /\ q \in Stream /\ q.in = up[p.cs].in /\ q.taken = up[p.cs].taken
      /\ q.opened = up[p.cs].opened /\ q.status = up[p.cs].status
      /\ q.out = up[p.cs].out /\ q.md = up[p.cs].md
  <2>1. up[p.cs] \in Stream
    BY <1>3 DEF IInv, TypeOK
  <2> QED BY <2>1, Zenon DEF Stream
<1> HIDE DEF q
<1>6. /\ up' \in [Attempts -> Stream] /\ up'[p.cs] = q
      /\ \A k \in Attempts \ {p.cs} : up'[k] = up[k]
  BY <1>3, <1>4, <1>5 DEF IInv, TypeOK
<1>7. TypeOK'
  BY <1>2, <1>6 DEF IInv, TypeOK, PType
<1>8. \A k \in Attempts :
        /\ up'[k].opened = up[k].opened /\ up'[k].status = up[k].status
        /\ up'[k].in = up[k].in /\ up'[k].taken = up[k].taken
        /\ up'[k].out = up[k].out /\ up'[k].md = up[k].md
  BY <1>5, <1>6
<1>9. Walk' /\ Settled'
  BY <1>2, <1>8 DEF IInv, Walk, Settled
<1>10. Streams'
  <2>1. \A k \in Attempts : k > x.cs => up'[k] = up[k]
    BY <1>1, <1>3, <1>6 DEF Numbers
  <2> QED BY <1>2, <1>8, <2>1, SMTT(60) DEF IInv, Streams, Ready, Unused
<1>11. Target'
  BY <1>1, <1>2, <1>3, <1>8 DEF IInv, Target, Open, Numbers
<1>12. Handed'
  <2>1. R' = R /\ First' = First
    BY <1>2 DEF R, First, InHand
  <2>2. Len(up[p.cs].in) = client.sent
    BY <1>2 DEF IInv, Handed
  <2> QED BY <1>1, <1>2, <1>3, <1>6, <1>8, <2>1, <2>2, SMTT(60) DEF IInv, Handed, Numbers, Open
<1>13. Voice'
  BY <1>1, <1>2, <1>8 DEF IInv, Voice, Delivered, Numbers
<1> QED BY <1>7, <1>9, <1>10, <1>11, <1>12, <1>13 DEF IInv

-----------------------------------------------------------------------------
(* The handler's moves.                                                    *)

HType == [pc : {"pick", "first", "reserve", "install", "sendFirst", "relay", "judge", "done"},
          i : Attempts, n : 0 .. MaxCandidates, err : Codes, lastErr : Codes, setup : BOOLEAN]
SType == [header : Attempts \cup {None}, msgs : Seq(Attempts \X (1 .. MaxAnswers)),
          trailer : Attempts \cup {None}, result : Codes \cup {Live}]

\* The handler stays with its candidate.
HGoes(to) ==
    /\ h' \in HType /\ h'.pc = to
    /\ h'.i = h.i /\ h'.n = h.n

\* The client hears nothing but the final status.
Silent(code) ==
    /\ seen' \in SType /\ seen'.result = code
    /\ seen'.header = seen.header /\ seen'.msgs = seen.msgs /\ seen'.trailer = seen.trailer

LEMMA Returns ==
  ASSUME IInv, NEW code \in Codes, Return(code)
  PROVE  Silent(code)
  BY DEF IInv, TypeOK, Return, Silent, SType

LEMMA PickKeeps ==
  ASSUME IInv, Pick
  PROVE  IInv'
<1>1. Numbers
  BY TypedNumbers DEF IInv
<1>2. h.pc = "pick" /\ UNCHANGED <<client, x, p, up, probe, count>>
  BY DEF Pick
<1>3. \/ h.n = 0 /\ HGoes("done") /\ Silent("Unavailable")
      \/ h.n # 0 /\ HGoes("first") /\ seen' = seen
  <2>1. h' \in HType /\ h'.i = h.i /\ h'.n = h.n /\ h'.pc = IF h.n = 0 THEN "done" ELSE "first"
    BY Zenon DEF IInv, TypeOK, Pick, HType
  <2> QED BY <2>1, Returns DEF Pick, HGoes, Codes
<1>4. TypeOK'
  BY <1>2, <1>3, SMTT(60) DEF IInv, TypeOK, HGoes, HType, Silent, SType
<1>5. Walk'
  BY <1>1, <1>2, <1>3 DEF IInv, Walk, HGoes, Contacting, Numbers
<1>6. Settled'
  BY <1>2, <1>3 DEF IInv, Settled, Streams, Ready, HGoes, Contacting
<1>7. Streams'
  BY <1>2, <1>3 DEF IInv, Streams, Ready, Unused, HGoes
<1>8. Target'
  BY <1>2, <1>3 DEF IInv, Target, HGoes, Open
<1>9. Handed'
  BY <1>2, <1>3 DEF IInv, Handed, R, First, InHand, HGoes, Open
<1>10. Voice'
  BY <1>2, <1>3 DEF IInv, Voice, Delivered, HGoes, Silent
<1> QED BY <1>4, <1>5, <1>6, <1>7, <1>8, <1>9, <1>10 DEF IInv

LEMMA RecvFirstKeeps ==
  ASSUME IInv, RecvFirst
  PROVE  IInv'
<1>1. Numbers
  BY TypedNumbers DEF IInv
<1>2. h.pc = "first" /\ UNCHANGED <<p, up, probe, count>>
  BY DEF RecvFirst
<1>3. /\ p.pc = "none" /\ x.cs = None /\ ~x.haveFirst /\ ~x.halfClosed /\ ~x.committed
      /\ client.read = 0 /\ h.i = 1 /\ h.i <= h.n
  BY <1>1, <1>2, SMTT(60) DEF IInv, Target, Walk, Handed, R, First, InHand, Numbers
<1>4. CASE HasMsg /\ TakeMsg /\ x' = [x EXCEPT !.haveFirst = TRUE]
           /\ h' = [h EXCEPT !.pc = "reserve"] /\ UNCHANGED seen
  <2>1. HGoes("reserve")
    BY <1>4, Zenon DEF IInv, TypeOK, HGoes, HType
  <2>2. /\ x' \in XType /\ x'.cs = None /\ x'.haveFirst /\ ~x'.halfClosed /\ ~x'.committed
        /\ x'.sentHeader = x.sentHeader /\ x'.sentMsg = x.sentMsg /\ x'.pumping = x.pumping
        /\ x'.policy = x.policy
    BY <1>3, <1>4, Zenon DEF IInv, TypeOK, XType
  <2>3. /\ client' \in [sent : 0 .. MaxMsgs, read : 0 .. MaxMsgs, closed : BOOLEAN,
                        ctx : {Live, "Canceled", "DeadlineExceeded"}]
        /\ client'.read <= client'.sent /\ client'.read = 1
        /\ client'.ctx = client.ctx /\ client'.closed = client.closed /\ client'.sent = client.sent
    <3>1. client.sent \in 1 .. MaxMsgs
      BY <1>1, <1>3, <1>4, ExchangeAssumption DEF HasMsg, Numbers, IInv, TypeOK
    <3>2. client \in [sent : 0 .. MaxMsgs, read : 0 .. MaxMsgs, closed : BOOLEAN,
                      ctx : {Live, "Canceled", "DeadlineExceeded"}]
      BY DEF IInv, TypeOK
    <3>3. client.read + 1 = 1 /\ 1 \in 0 .. MaxMsgs /\ 1 <= client.sent
      BY <1>3, <3>1, ExchangeAssumption
    <3> QED BY <1>4, <3>2, <3>3 DEF TakeMsg
  <2>4. TypeOK'
    BY <1>2, <1>4, <2>1, <2>2, <2>3 DEF IInv, TypeOK, HGoes, HType, XType
  <2>5. Walk'
    BY <1>1, <1>2, <1>3, <2>1 DEF IInv, Walk, HGoes, Contacting, Numbers
  <2>6. Settled' /\ Streams'
    BY <1>2, <1>3, <2>1, <2>2, SMTT(60) DEF IInv, Settled, Streams, Ready, Unused, HGoes, Contacting
  <2>7. Target'
    BY <1>2, <1>3, <2>1, <2>2, SMTT(60) DEF IInv, Target, HGoes, Open, None
  <2>8. Handed'
    <3>1. R' = 1 /\ First' = 1
      BY <1>2, <1>3, <2>2, <2>3 DEF R, First, InHand
    <3> QED BY <1>2, <1>3, <2>1, <2>2, <3>1, SMTT(60) DEF IInv, Handed, HGoes, Open
  <2>9. Voice'
    BY <1>2, <1>4, <2>1, <2>2 DEF IInv, Voice, HGoes, Live
  <2> QED BY <2>4, <2>5, <2>6, <2>7, <2>8, <2>9 DEF IInv
<1>5. CASE AtEOF /\ x' = [x EXCEPT !.halfClosed = TRUE]
           /\ h' = [h EXCEPT !.pc = "reserve"] /\ UNCHANGED <<client, seen>>
  <2>1. HGoes("reserve")
    BY <1>5 DEF IInv, TypeOK, HGoes, HType
  <2>2. /\ x' \in XType /\ x'.cs = None /\ ~x'.haveFirst /\ x'.halfClosed /\ ~x'.committed
        /\ x'.sentHeader = x.sentHeader /\ x'.sentMsg = x.sentMsg /\ x'.pumping = x.pumping
        /\ x'.policy = x.policy
    BY <1>3, <1>5, Zenon DEF IInv, TypeOK, XType
  <2>3. client.closed /\ client.read = client.sent
    BY <1>5 DEF AtEOF
  <2>4. TypeOK'
    BY <1>2, <1>5, <2>1, <2>2 DEF IInv, TypeOK, HGoes, HType, XType
  <2>5. Walk'
    BY <1>1, <1>2, <1>3, <2>1 DEF IInv, Walk, HGoes, Contacting, Numbers
  <2>6. Settled' /\ Streams'
    BY <1>2, <1>3, <2>1, <2>2, SMTT(60) DEF IInv, Settled, Streams, Ready, Unused, HGoes, Contacting
  <2>7. Target'
    BY <1>2, <1>3, <1>5, <2>1, <2>2, <2>3 DEF IInv, Target, HGoes, Open, None
  <2>8. Handed'
    <3>1. R' = R /\ First' = First
      BY <1>2, <1>3, <1>5, <2>2 DEF R, First, InHand
    <3> QED BY <1>2, <1>3, <1>5, <2>1, <2>2, <3>1 DEF IInv, Handed, HGoes, Open
  <2>9. Voice'
    BY <1>2, <1>5, <2>1, <2>2 DEF IInv, Voice, HGoes, Live
  <2> QED BY <2>4, <2>5, <2>6, <2>7, <2>8, <2>9 DEF IInv
<1>6. CASE InboundErr /\ Return(client.ctx) /\ h' = [h EXCEPT !.pc = "done"]
           /\ UNCHANGED <<client, x>>
  <2>1. HGoes("done")
    BY <1>6 DEF IInv, TypeOK, HGoes, HType
  <2>2. client.ctx \in {"Canceled", "DeadlineExceeded"}
    BY <1>2, <1>6 DEF InboundErr, IInv, TypeOK
  <2>3. Silent(client.ctx)
    BY <1>6, <2>2, Returns DEF Codes
  <2>4. TypeOK'
    BY <1>2, <1>6, <2>1, <2>3 DEF IInv, TypeOK, HGoes, HType, Silent, SType
  <2>5. Walk'
    BY <1>1, <1>2, <1>3, <2>1 DEF IInv, Walk, HGoes, Contacting, Numbers
  <2>6. Settled' /\ Streams'
    BY <1>2, <1>3, <1>6, <2>1 DEF IInv, Settled, Streams, Ready, Unused, HGoes, Contacting
  <2>7. Target'
    BY <1>2, <1>3, <1>6, <2>1 DEF IInv, Target, HGoes, Open, None
  <2>8. Handed'
    BY <1>2, <1>6, <2>1 DEF IInv, Handed, R, First, InHand, HGoes, Open
  <2>9. Voice'
    BY <1>2, <1>6, <2>1, <2>2, <2>3 DEF IInv, Voice, HGoes, Silent
  <2> QED BY <2>4, <2>5, <2>6, <2>7, <2>8, <2>9 DEF IInv
<1> QED BY <1>4, <1>5, <1>6 DEF RecvFirst

PrType == [Attempts -> {"none", "held", "success", "failure", "released", "twice"}]

LEMMA ReserveKeeps ==
  ASSUME IInv, Reserve
  PROVE  IInv'
<1>1. Numbers
  BY TypedNumbers DEF IInv
<1>2. h.pc = "reserve" /\ UNCHANGED <<client, x, p, up, seen>>
  BY DEF Reserve
<1>3. /\ x.cs < h.i /\ h.i <= h.n /\ count.attempts = count.failovers /\ count.attempts < h.i
      /\ ~x.sentHeader /\ ~x.sentMsg /\ seen.header = None /\ seen.msgs = <<>>
      /\ seen.trailer = None /\ seen.result = Live
  BY <1>2 DEF IInv, Target, Walk, Voice
<1>4. CASE h.i < h.n /\ h' = [h EXCEPT !.i = @ + 1] /\ UNCHANGED <<probe, count>>
  <2>1. h.i + 1 \in Attempts
    BY <1>1, <1>4, ExchangeAssumption DEF Attempts, Numbers
  <2>2. h' \in HType /\ h'.pc = "reserve" /\ h'.i = h.i + 1 /\ h'.n = h.n
    BY <1>2, <1>4, <2>1, Zenon DEF IInv, TypeOK, HType
  <2>3. TypeOK'
    BY <1>2, <1>4, <2>2 DEF IInv, TypeOK, HType
  <2>4. Walk'
    BY <1>1, <1>2, <1>3, <1>4, <2>2 DEF IInv, Walk, Contacting, Numbers
  <2>5. Settled'
    BY <1>1, <1>2, <1>4, <2>2 DEF IInv, Settled, Streams, Ready, Contacting, Numbers
  <2>6. Streams'
    BY <1>1, <1>2, <2>2, SMTT(60) DEF IInv, Streams, Ready, Unused, Numbers
  <2>7. Target'
    BY <1>1, <1>2, <1>3, <2>2, SMTT(60) DEF IInv, Target, Open, Numbers
  <2>8. Handed'
    <3>1. up[h.i].in = <<>>
      BY <1>1, <1>3 DEF IInv, Streams, Unused, Numbers
    <3>2. \A k \in Attempts : k < h'.i => k < h.i \/ k = h.i
      BY <1>1, <2>2 DEF Numbers
    <3> QED BY <1>2, <2>2, <3>1, <3>2, SMTT(60) DEF IInv, Handed, R, First, InHand, Open
  <2>9. Voice'
    BY <1>2, <1>3, <2>2 DEF Voice, Live, None
  <2> QED BY <2>3, <2>4, <2>5, <2>6, <2>7, <2>8, <2>9 DEF IInv
<1>5. CASE /\ h' = [h EXCEPT !.pc = "install"] /\ probe' = [probe EXCEPT ![h.i] = "held"]
           /\ count' = [count EXCEPT !.attempts = @ + 1]
  <2>1. HGoes("install")
    BY <1>5, Zenon DEF IInv, TypeOK, HGoes, HType
  <2>2. probe' \in PrType /\ probe'[h.i] = "held" /\ \A k \in Attempts \ {h.i} : probe'[k] = probe[k]
    BY <1>1, <1>5 DEF IInv, TypeOK, PrType, Numbers
  <2>3. /\ count' \in [attempts : 0 .. MaxCandidates, failovers : 0 .. MaxCandidates]
        /\ count'.attempts = count.attempts + 1 /\ count'.failovers = count.failovers
    <3>1. count \in [attempts : 0 .. MaxCandidates, failovers : 0 .. MaxCandidates]
      BY DEF IInv, TypeOK
    <3>2. count.attempts + 1 \in 0 .. MaxCandidates
      BY <1>1, <1>3, ExchangeAssumption DEF Numbers, Attempts
    <3> QED BY <1>5, <3>1, <3>2
  <2>4. TypeOK'
    BY <1>2, <2>1, <2>2, <2>3, SMTT(60) DEF IInv, TypeOK, HGoes, HType, PrType
  <2>5. Walk'
    BY <1>1, <1>2, <1>3, <2>1, <2>3 DEF IInv, Walk, HGoes, Contacting, Numbers
  <2>6. Settled'
    BY <1>1, <1>2, <2>1, <2>2, SMTT(60) DEF IInv, Settled, HGoes, Contacting, Numbers
  <2>7. Streams'
    BY <1>2, <2>1 DEF IInv, Streams, Ready, Unused, HGoes
  <2>8. Target'
    BY <1>2, <1>3, <2>1 DEF IInv, Target, HGoes, Open
  <2>9. Handed'
    BY <1>2, <2>1 DEF IInv, Handed, R, First, InHand, HGoes, Open
  <2>10. Voice'
    BY <1>2, <1>3, <2>1 DEF Voice, HGoes, Live, None
  <2> QED BY <2>4, <2>5, <2>6, <2>7, <2>8, <2>9, <2>10 DEF IInv
<1> QED BY <1>4, <1>5 DEF Reserve

LEMMA InstallRefusedKeeps ==
  ASSUME IInv, InstallRefused
  PROVE  IInv'
<1>1. Numbers
  BY TypedNumbers DEF IInv
<1>2. h.pc = "install" /\ x.committed /\ UNCHANGED <<client, x, p, up, count>>
  BY DEF InstallRefused
<1>3. HGoes("done")
  BY Zenon DEF InstallRefused, IInv, TypeOK, HGoes, HType
<1>4. PICK code \in Codes : code # "OK" /\ Silent(code)
  <2>1. h.lastErr \in Codes
    BY DEF IInv, TypeOK
  <2>2. (IF h.lastErr = "OK" THEN "Unavailable" ELSE h.lastErr) \in Codes \ {"OK"}
    BY <2>1 DEF Codes
  <2> QED BY <2>2, Returns DEF InstallRefused
<1>5. probe' \in PrType /\ probe'[h.i] = "released" /\ \A k \in Attempts \ {h.i} : probe'[k] = probe[k]
  <2>1. probe[h.i] = "held"
    BY <1>1, <1>2 DEF IInv, Settled, Contacting, Numbers
  <2> QED BY <1>1, <2>1 DEF InstallRefused, Settle, IInv, TypeOK, PrType, Numbers
<1>6. TypeOK'
  BY <1>2, <1>3, <1>4, <1>5, SMTT(60) DEF IInv, TypeOK, HGoes, HType, PrType, Silent, SType
<1>7. Walk'
  BY <1>1, <1>2, <1>3 DEF IInv, Walk, HGoes, Contacting, Numbers
<1>8. Settled'
  <2>1. ~up[h.i].opened
    BY <1>1, <1>2, SMTT(60) DEF IInv, Streams, Ready, Numbers
  <2> QED BY <1>1, <1>2, <1>3, <1>5, <2>1 DEF IInv, Settled, HGoes, Contacting, Numbers
<1>9. Streams'
  BY <1>2, <1>3 DEF IInv, Streams, Ready, Unused, HGoes
<1>10. Target'
  BY <1>2, <1>3 DEF IInv, Target, HGoes, Open
<1>11. Handed'
  BY <1>2, <1>3 DEF IInv, Handed, R, First, InHand, HGoes, Open
<1>12. Voice'
  BY <1>2, <1>3, <1>4 DEF IInv, Voice, HGoes, Silent
<1> QED BY <1>6, <1>7, <1>8, <1>9, <1>10, <1>11, <1>12 DEF IInv

LEMMA InstallOpenKeeps ==
  ASSUME IInv, InstallOpen
  PROVE  IInv'
<1>1. Numbers
  BY TypedNumbers DEF IInv
<1>2. h.pc = "install" /\ ~x.committed /\ UNCHANGED <<client, x, p, probe, count, seen>>
  BY DEF InstallOpen
<1>3. HGoes("sendFirst")
  BY DEF InstallOpen, IInv, TypeOK, HGoes, HType
<1>4. x.cs < h.i /\ ~up[h.i].opened /\ h.i \in Attempts
  BY <1>1, <1>2, SMTT(60) DEF IInv, Target, Streams, Ready, Numbers
<1> DEFINE q == [up[h.i] EXCEPT !.opened = TRUE]
<1>5. up' = [up EXCEPT ![h.i] = q]
  BY DEF InstallOpen
<1>6. /\ q \in Stream /\ q.opened /\ q.in = up[h.i].in /\ q.taken = up[h.i].taken
      /\ q.eof = up[h.i].eof /\ q.status = up[h.i].status
      /\ q.out = up[h.i].out /\ q.md = up[h.i].md
  <2>1. up[h.i] \in Stream
    BY <1>4 DEF IInv, TypeOK
  <2> QED BY <2>1, Zenon DEF Stream
<1> HIDE DEF q
<1>7. /\ up' \in [Attempts -> Stream] /\ up'[h.i] = q
      /\ \A k \in Attempts \ {h.i} : up'[k] = up[k]
  BY <1>4, <1>5, <1>6 DEF IInv, TypeOK
<1>8. TypeOK'
  BY <1>2, <1>3, <1>7, SMTT(60) DEF IInv, TypeOK, HGoes, HType
<1>9. Walk'
  BY <1>2, <1>3 DEF IInv, Walk, HGoes, Contacting
<1>10. Settled'
  BY <1>1, <1>2, <1>3, <1>7 DEF IInv, Settled, HGoes, Contacting, Numbers
<1>11. Streams'
  BY <1>1, <1>2, <1>3, <1>4, <1>6, <1>7, SMTT(60) DEF IInv, Streams, Ready, Unused, HGoes, Numbers
<1>12. \A k \in Attempts : k <= x.cs => up'[k] = up[k]
  BY <1>1, <1>4, <1>7 DEF Numbers
<1>13. Target'
  <2>1. x.cs # None => up'[x.cs] = up[x.cs]
    BY <1>1, <1>12 DEF Numbers
  <2>2. p.pc = "closing" => p.cs \in Attempts /\ p.cs <= x.cs
    BY <1>1, SMTT(60) DEF IInv, Target, Numbers, None, Attempts
  <2>3. p.pc = "closing" => up'[p.cs] = up[p.cs]
    BY <1>12, <2>2
  <2> QED BY <1>2, <1>3, <1>4, <2>1, <2>3 DEF IInv, Target, HGoes, Open
<1>14. Handed'
  <2>1. R' = R /\ First' = First
    BY <1>2 DEF R, First, InHand
  <2>2. \A k \in Attempts : up'[k].in = up[k].in /\ up'[k].eof = up[k].eof
    BY <1>6, <1>7
  <2>3. p.pc = "closing" => p.cs \in Attempts
    BY <1>1 DEF IInv, Target, Numbers, None, Attempts
  <2> QED BY <1>1, <1>2, <1>3, <2>1, <2>2, <2>3, Zenon DEF IInv, Handed, HGoes, Numbers
<1>15. Voice'
  BY <1>2, <1>3 DEF IInv, Voice, HGoes, Live
<1> QED BY <1>8, <1>9, <1>10, <1>11, <1>13, <1>14, <1>15 DEF IInv
=============================================================================
