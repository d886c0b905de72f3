--------------------------- MODULE ExchangeProofs ---------------------------
(***************************************************************************)
(* The theorems about Exchange, from the invariant of ExchangeSteps and    *)
(* the rest of the handler: the sends, the relay, the retry and the end.   *)
(***************************************************************************)
EXTENDS ExchangeSteps

-----------------------------------------------------------------------------
(* The handler, from the end of an attempt on.                             *)

\* The end of an attempt, whatever ended it.
LEMMA Judged ==
  ASSUME IInv, NEW code \in Codes, NEW setup \in BOOLEAN, AttemptEnds(code, setup),
         h.pc \in Contacting, count' = count,
         \A k \in Attempts : up'[k].opened <=> up[k].opened
  PROVE  /\ HGoes("judge") /\ h'.err = code /\ h'.setup = setup /\ probe' \in PrType
         /\ Walk' /\ Settled'
<1>1. Numbers
  BY TypedNumbers DEF IInv
<1>2. HGoes("judge") /\ h'.err = code /\ h'.setup = setup
  BY Zenon DEF AttemptEnds, IInv, TypeOK, HGoes, HType
<1>3. /\ probe' \in PrType /\ probe'[h.i] \in {"success", "failure"}
      /\ \A k \in Attempts \ {h.i} : probe'[k] = probe[k]
  <2>1. probe[h.i] = "held"
    BY <1>1 DEF IInv, Settled, Contacting, Numbers
  <2> QED BY <1>1, <2>1 DEF AttemptEnds, record, Settle, IInv, TypeOK, PrType, Numbers
<1>4. Walk'
  BY <1>1, <1>2 DEF IInv, Walk, HGoes, Contacting, Numbers
<1>5. Settled'
  BY <1>1, <1>2, <1>3 DEF IInv, Settled, HGoes, Contacting, Numbers
<1> QED BY <1>2, <1>3, <1>4, <1>5

LEMMA SetupFailed ==
  ASSUME IInv, NEW code \in Codes \ {"OK"}, AttemptEnds(code, TRUE),
         h.pc \in {"install", "sendFirst"}, up' = up, UNCHANGED <<client, x, p, count, seen>>
  PROVE  IInv'
<1>1. Numbers
  BY TypedNumbers DEF IInv
<1>2. /\ HGoes("judge") /\ h'.err = code /\ h'.setup /\ probe' \in PrType
      /\ Walk' /\ Settled'
  BY Judged, Zenon DEF Contacting
<1>3. TypeOK'
  BY <1>2, SMTT(60) DEF IInv, TypeOK, HGoes, HType, PrType
<1>4. Streams'
  BY <1>2 DEF IInv, Streams, Ready, Unused, HGoes
<1>5. Target'
  BY <1>2 DEF IInv, Target, HGoes, Open
<1>6. Handed'
  BY <1>2 DEF IInv, Handed, R, First, InHand, HGoes, Open
<1>7. Voice'
  BY <1>2 DEF IInv, Voice, HGoes, Live
<1> QED BY <1>2, <1>3, <1>4, <1>5, <1>6, <1>7 DEF IInv

LEMMA InstallFailsKeeps ==
  ASSUME IInv, InstallFails
  PROVE  IInv'
<1>1. PICK code \in {"Unavailable", "Internal"} \cup ({client.ctx} \ {Live}) :
        AttemptEnds(code, TRUE)
  BY Zenon DEF InstallFails
<1>2. code \in Codes \ {"OK"}
  BY <1>1 DEF IInv, TypeOK, Codes
<1> QED BY <1>1, <1>2, SetupFailed, Zenon DEF InstallFails

LEMMA FirstSendErrorKeeps ==
  ASSUME IInv, FirstSendError
  PROVE  IInv'
<1>1. Numbers
  BY TypedNumbers DEF IInv
<1> DEFINE code == IF up[h.i].out > 0 \/ up[h.i].status = "OK" THEN "Unknown"
                   ELSE up[h.i].status
<1>2. AttemptEnds(code, TRUE) /\ h.pc = "sendFirst" /\ ~Open(h.i)
      /\ UNCHANGED <<client, x, p, up, count, seen>>
  BY Zenon DEF FirstSendError
<1>3. up[h.i].status \in Codes
  <2>1. up[h.i] \in Stream /\ up[h.i].opened
    BY <1>1, <1>2 DEF IInv, TypeOK, Streams, Ready, Numbers
  <2> QED BY <1>2, <2>1 DEF Open, Stream
<1>4. code \in Codes \ {"OK"}
  BY <1>3 DEF Codes
<1> HIDE DEF code
<1> QED BY <1>2, <1>4, SetupFailed, Zenon

LEMMA FirstSendRejectedKeeps ==
  ASSUME IInv, FirstSendRejected
  PROVE  IInv'
<1>1. Numbers
  BY TypedNumbers DEF IInv
<1>2. h.pc = "sendFirst" /\ Open(h.i) /\ UNCHANGED <<client, x, p, count, seen>>
  BY DEF FirstSendRejected
<1>3. Evolves(h.i) /\ Evolved
  <2>1. Evolves(h.i)
    BY <1>1, StatusEvolves, Zenon DEF FirstSendRejected, IInv, Codes, Numbers
  <2> QED BY <1>1, <2>1, EvolvesEvolved DEF Numbers
<1>4. /\ HGoes("judge") /\ h'.err = "ResourceExhausted" /\ h'.setup /\ probe' \in PrType
      /\ Walk' /\ Settled'
  BY <1>2, <1>3, Judged, Zenon DEF FirstSendRejected, Contacting, Codes, Evolved
<1>5. TypeOK'
  BY <1>2, <1>3, <1>4, SMTT(60) DEF IInv, TypeOK, HGoes, HType, PrType, Evolves
<1>6. Streams'
  <2>1. ASSUME NEW j \in Attempts PROVE Ready(j)'
    BY <1>2, <1>3, <1>4, SMTT(60) DEF IInv, Evolved, Streams, Ready, HGoes
  <2>2. ASSUME NEW j \in Attempts PROVE (up[j].taken <= up[j].out)'
    BY <1>1, <1>3, SMTT(60) DEF IInv, Evolved, Streams, Numbers
  <2>3. ASSUME NEW j \in Attempts PROVE (j > x.cs => Unused(j))'
    BY <1>2, <1>3 DEF IInv, Evolved, Streams, Unused
  <2> QED BY <2>1, <2>2, <2>3 DEF Streams
<1>7. Target'
  <2>1. x.cs # None => (up'[x.cs].opened <=> up[x.cs].opened) /\ (~Open(x.cs) => ~Open(x.cs)')
    BY <1>1, <1>2, <1>3 DEF Numbers, Evolved
  <2>2. p.pc = "closing" => up'[p.cs].opened
    BY <1>1, <1>3, SMTT(60) DEF Evolved, Numbers, IInv, Target, None, Attempts
  <2> QED BY <1>2, <1>4, <2>1, <2>2 DEF IInv, Target, HGoes
<1>8. Handed'
  <2>1. R' = R /\ First' = First
    BY <1>2 DEF R, First, InHand
  <2>2. \A k \in Attempts : up'[k].in = up[k].in /\ up'[k].eof = up[k].eof
    BY <1>3 DEF Evolved
  <2>3. p.pc = "closing" => p.cs \in Attempts
    BY <1>1 DEF IInv, Target, Numbers, None, Attempts
  <2>4. ~x.committed
    BY <1>2 DEF IInv, Target
  <2> QED BY <1>1, <1>2, <1>4, <2>1, <2>2, <2>3, <2>4, Zenon DEF IInv, Handed, HGoes, Numbers
<1>9. Voice'
  BY <1>2, <1>4 DEF IInv, Voice, HGoes, Live
<1> QED BY <1>4, <1>5, <1>6, <1>7, <1>8, <1>9 DEF IInv

LEMMA SendFirstKeeps ==
  ASSUME IInv, SendFirst
  PROVE  IInv'
<1>1. Numbers
  BY TypedNumbers DEF IInv
<1>2. /\ h.pc = "sendFirst" /\ UNCHANGED <<client, probe, count, seen>> /\ h.i \in Attempts
      /\ x.cs < h.i /\ ~x.committed /\ up[h.i].opened /\ Unused(h.i)
  BY <1>1 DEF SendFirst, IInv, Target, Streams, Ready, Numbers
<1>3. HGoes("relay")
  BY Zenon DEF SendFirst, StreamInstalled, IInv, TypeOK, HGoes, HType
<1>4. /\ x' \in XType /\ x'.cs = h.i /\ x'.policy = x.policy /\ x'.haveFirst = x.haveFirst
      /\ x'.sentHeader = x.sentHeader /\ x'.sentMsg = x.sentMsg
      /\ x'.committed = x.committed /\ x'.halfClosed = x.halfClosed
      /\ x'.pumping <=> x.pumping \/ ~x.halfClosed
  <2>1. x \in XType /\ (x.pumping \/ ~x.halfClosed) \in BOOLEAN
    BY DEF IInv, TypeOK, XType
  <2>2. x' = [x EXCEPT !.cs = h.i, !.pumping = x.pumping \/ ~x.halfClosed, !.upstreamDone = FALSE]
    BY DEF SendFirst, StreamInstalled
  <2> QED BY <1>2, <2>1, <2>2, Zenon DEF XType
<1>5. /\ p' \in PType /\ p'.cs = p.cs
      /\ p'.pc = IF x.pumping \/ x.halfClosed THEN p.pc ELSE "recv"
  BY Zenon DEF SendFirst, StreamInstalled, IInv, TypeOK, PType
<1> DEFINE in == IF x.haveFirst THEN <<1>> ELSE <<>>
           q == [up[h.i] EXCEPT !.in = in, !.eof = x.halfClosed]
<1>6. up' = [up EXCEPT ![h.i] = q]
  BY Zenon DEF SendFirst, StreamInstalled
<1>7. x.haveFirst => client.read >= 1
  BY <1>1, SMTT(60) DEF IInv, Handed, R, InHand, Numbers
<1>8. in \in Seq(1 .. MaxMsgs) /\ in = [j \in 1 .. First |-> j] /\ Len(in) = First
  <2>1. CASE x.haveFirst
    <3>1. 1 \in 1 .. MaxMsgs
      BY <1>1, <1>7, <2>1, ExchangeAssumption DEF IInv, TypeOK, Numbers
    <3> QED BY <2>1, <3>1 DEF First
  <2>2. CASE ~x.haveFirst
    BY <2>2 DEF First
  <2> QED BY <2>1, <2>2
<1> HIDE DEF in
<1>9. /\ q \in Stream /\ q.opened /\ q.in = in /\ q.taken = up[h.i].taken
      /\ q.eof = x.halfClosed /\ q.status = up[h.i].status
      /\ q.out = up[h.i].out /\ q.md = up[h.i].md
  <2>1. up[h.i] \in Stream /\ x.halfClosed \in BOOLEAN
    BY <1>2 DEF IInv, TypeOK
  <2> QED BY <1>2, <1>8, <2>1, Zenon DEF Stream
<1> HIDE DEF q
<1>10. /\ up' \in [Attempts -> Stream] /\ up'[h.i] = q
       /\ \A k \in Attempts \ {h.i} : up'[k] = up[k]
  BY <1>2, <1>6, <1>9 DEF IInv, TypeOK
<1>11. TypeOK'
  BY <1>2, <1>3, <1>4, <1>5, <1>10 DEF IInv, TypeOK, HGoes, HType, XType, PType
<1>12. Walk'
  BY <1>2, <1>3 DEF IInv, Walk, HGoes, Contacting
<1>13. Settled'
  BY <1>1, <1>2, <1>3, <1>9, <1>10, SMTT(60) DEF IInv, Settled, HGoes, Contacting, Numbers
<1>14. Streams'
  <2>1. ASSUME NEW j \in Attempts PROVE Ready(j)'
    BY <1>2, <1>3, <1>9, <1>10, SMTT(60) DEF IInv, Streams, Ready, HGoes
  <2>2. ASSUME NEW j \in Attempts PROVE (up[j].taken <= up[j].out)'
    BY <1>2, <1>9, <1>10 DEF IInv, Streams
  <2>3. ASSUME NEW j \in Attempts PROVE (j > x.cs => Unused(j))'
    BY <1>1, <1>2, <1>4, <1>10, SMTT(60) DEF IInv, Streams, Unused, Numbers
  <2> QED BY <2>1, <2>2, <2>3 DEF Streams
<1>15. p.pc = "closing" => p.cs \in Attempts /\ p.cs < h.i /\ p.cs \in 1 .. h.i /\ up'[p.cs] = up[p.cs]
  BY <1>1, <1>2, <1>10, SMTT(60) DEF IInv, Target, Numbers, None, Attempts
<1>16. Target'
  <2>1. h.i # None
    BY <1>2 DEF None, Attempts
  <2>2. p.pc # "send"
    BY <1>2 DEF IInv, Target
  <2> QED BY <1>1, <1>2, <1>3, <1>4, <1>5, <1>9, <1>10, <1>15, <2>1, <2>2, SMTT(60)
          DEF IInv, Target, HGoes, Numbers
<1>17. Handed'
  <2>1. R' = R /\ First' = First /\ R = First
    <3>1. p'.pc = p.pc \/ (p.pc = "none" /\ p'.pc = "recv")
      BY <1>5 DEF IInv, Target
    <3> QED BY <1>2, <1>4, <3>1 DEF R, First, InHand, IInv, Handed
  <2>2. x.halfClosed => First = client.sent
    BY <1>1, <2>1, SMTT(60) DEF IInv, Target, R, InHand, Numbers
  <2>3. \A k \in Attempts : k < h.i => up'[k] = up[k]
    BY <1>1, <1>10 DEF Numbers
  <2>4. up'[h.i].in = [j \in 1 .. R' |-> j] /\ Len(up'[h.i].in) = First
    BY <1>8, <1>9, <1>10, <2>1, Zenon
  <2>5. (\A k \in Attempts : up[k].eof => x.halfClosed /\ Len(up[k].in) = client.sent)'
    BY <1>2, <1>4, <1>9, <1>10, <2>2, <2>4, SMTT(60) DEF IInv, Handed
  <2>6. (p.pc = "closing" => Len(up[p.cs].in) = client.sent)'
    BY <1>2, <1>5, <1>15 DEF IInv, Handed
  <2> QED BY <1>2, <1>3, <1>4, <2>1, <2>3, <2>4, <2>5, <2>6 DEF IInv, Handed, HGoes
<1>18. Voice'
  <2>1. seen.msgs = <<>> /\ up'[h.i].taken = 0
    BY <1>2, <1>9, <1>10 DEF IInv, Voice, Unused
  <2> QED BY <1>2, <1>3, <1>4, <2>1 DEF IInv, Voice, HGoes, Live
<1> QED BY <1>11, <1>12, <1>13, <1>14, <1>16, <1>17, <1>18 DEF IInv

\* Of the exchange's fields relay touches those about the client and upstreamDone.
RelayKept ==
    /\ x' \in XType
    /\ x'.cs = x.cs /\ x'.policy = x.policy /\ x'.haveFirst = x.haveFirst
    /\ x'.pumping = x.pumping /\ x'.committed = x.committed /\ x'.halfClosed = x.halfClosed

\* Of the streams it at most reads the current one.
Reads ==
    /\ up' \in [Attempts -> Stream]
    /\ \A k \in Attempts :
         /\ up'[k].opened = up[k].opened /\ up'[k].status = up[k].status
         /\ up'[k].in = up[k].in /\ up'[k].eof = up[k].eof
         /\ up'[k].out = up[k].out /\ up'[k].md = up[k].md
         /\ up'[k].taken <= up[k].out
         /\ k # h.i => up'[k] = up[k]

LEMMA Taken ==
  ASSUME IInv, Current.taken < Current.out, up' = [up EXCEPT ![h.i].taken = @ + 1]
  PROVE  Reads /\ up'[h.i].taken = up[h.i].taken + 1
<1>1. Numbers
  BY TypedNumbers DEF IInv
<1>2. up[h.i] \in Stream /\ h.i \in Attempts
  BY <1>1 DEF IInv, TypeOK, Numbers
<1> DEFINE q == [up[h.i] EXCEPT !.taken = @ + 1]
<1>3. up' = [up EXCEPT ![h.i] = q]
  OBVIOUS
<1>4. /\ q.taken = up[h.i].taken + 1 /\ up[h.i].taken + 1 <= up[h.i].out
      /\ up[h.i].taken + 1 \in 0 .. MaxAnswers
  <2>1. up[h.i].out \in 0 .. MaxAnswers
    BY <1>2 DEF Stream
  <2>2. q.taken = up[h.i].taken + 1
    BY <1>2 DEF Stream
  <2>3. up[h.i].taken \in Nat /\ up[h.i].taken < up[h.i].out
    BY <1>1, <1>2 DEF Current, Numbers
  <2> HIDE DEF q
  <2> QED BY <2>1, <2>2, <2>3, ExchangeAssumption
<1>5. /\ q \in Stream /\ q.opened = up[h.i].opened /\ q.in = up[h.i].in
      /\ q.eof = up[h.i].eof /\ q.status = up[h.i].status
      /\ q.out = up[h.i].out /\ q.md = up[h.i].md
  BY <1>2, <1>4 DEF Stream
<1> HIDE DEF q
<1>6. /\ up' \in [Attempts -> Stream] /\ up'[h.i] = q
      /\ \A k \in Attempts \ {h.i} : up'[k] = up[k]
  BY <1>2, <1>3, <1>5 DEF IInv, TypeOK
<1>7. \A k \in Attempts : up[k].taken <= up[k].out
  BY DEF IInv, Streams
<1> QED BY <1>2, <1>4, <1>5, <1>6, <1>7 DEF Reads

LEMMA RelayKeeps ==
  ASSUME IInv, Relay
  PROVE  IInv'
<1>1. Numbers
  BY TypedNumbers DEF IInv
<1>2. h.pc = "relay" /\ UNCHANGED <<client, h, p, probe, count>>
  BY DEF Relay
<1>3. Reads /\ up'[h.i].taken = up[h.i].taken + 1
  BY Taken DEF Relay
<1>4. RelayKept /\ x'.sentHeader /\ x'.sentMsg
  BY Zenon DEF Relay, IInv, TypeOK, RelayKept, XType
<1>5. /\ seen' \in SType /\ seen'.header = h.i
      /\ seen'.msgs = Append(seen.msgs, <<h.i, up[h.i].taken + 1>>)
      /\ seen'.trailer = seen.trailer /\ seen'.result = seen.result
  <2>1. seen \in SType /\ h.i \in Attempts
    BY <1>1 DEF IInv, TypeOK, SType, Numbers
  <2>2. up[h.i].taken + 1 \in 1 .. MaxAnswers
    <3>1. up[h.i].out \in 0 .. MaxAnswers
      BY <2>1 DEF IInv, TypeOK, Stream
    <3> QED BY <1>1, <2>1, <3>1, ExchangeAssumption DEF Relay, Current, Numbers
  <2>3. Append(seen.msgs, <<h.i, up[h.i].taken + 1>>) \in Seq(Attempts \X (1 .. MaxAnswers))
    <3>1. <<h.i, up[h.i].taken + 1>> \in Attempts \X (1 .. MaxAnswers)
      BY <2>1, <2>2
    <3>2. seen.msgs \in Seq(Attempts \X (1 .. MaxAnswers))
      BY <2>1 DEF SType
    <3> QED BY <3>1, <3>2
  <2>4. x.sentHeader => seen.header = h.i
    BY DEF IInv, Voice
  <2> QED BY <2>1, <2>3, <2>4, Zenon DEF Relay, Current, SType
<1>6. TypeOK'
  BY <1>2, <1>3, <1>4, <1>5 DEF IInv, TypeOK, RelayKept, XType, Reads, SType
<1>7. Walk' /\ Settled'
  BY <1>2, <1>3 DEF IInv, Walk, Settled, Reads
<1>8. Streams'
  BY <1>1, <1>2, <1>3, <1>4, SMTT(60) DEF IInv, Streams, Ready, Unused, Reads, RelayKept, Target, Numbers
<1>9. Target'
  <2>1. p.pc = "closing" => p.cs \in Attempts
    BY <1>1 DEF IInv, Target, Numbers, None, Attempts
  <2> QED BY <1>1, <1>2, <1>3, <1>4, <2>1, ZenonT(60) DEF IInv, Target, Open, Reads, RelayKept, Numbers
<1>10. Handed'
  <2>1. R' = R /\ First' = First
    BY <1>2, <1>4 DEF R, First, InHand, RelayKept
  <2>2. p.pc = "closing" => p.cs \in Attempts
    BY <1>1 DEF IInv, Target, Numbers, None, Attempts
  <2>3. \A k \in Attempts :
          up'[k].in = up[k].in /\ up'[k].eof = up[k].eof /\ (Open(k)' <=> Open(k))
    BY <1>3 DEF Reads, Open
  <2>4. x.cs # None => x.cs \in Attempts
    BY <1>1 DEF Numbers
  <2> QED BY <1>2, <1>4, <2>1, <2>2, <2>3, <2>4, ZenonT(60) DEF IInv, Handed, RelayKept
<1>11. Voice'
  <2>1. seen.msgs \in Seq(Attempts \X (1 .. MaxAnswers)) /\ Len(seen.msgs) = up[h.i].taken
    BY <1>2 DEF IInv, TypeOK, Voice
  <2>2. Len(seen'.msgs) = up'[h.i].taken
    BY <1>3, <1>5, <2>1
  <2>3. \A j \in DOMAIN seen'.msgs : seen'.msgs[j] = <<h.i, j>>
    BY <1>5, <2>1, SMTT(60) DEF IInv, Voice
  <2> QED BY <1>2, <1>4, <1>5, <2>2, <2>3 DEF IInv, Voice, Live
<1> QED BY <1>6, <1>7, <1>8, <1>9, <1>10, <1>11 DEF IInv

\* What relay's end keeps, whatever it was.
LEMMA RelayOver ==
  ASSUME IInv, h.pc = "relay", NEW code \in Codes, AttemptEnds(code, FALSE),
         UNCHANGED <<client, p, count>>, RelayKept, Reads, seen' \in SType,
         ~Open(h.i) \/ client.ctx # Live
  PROVE  /\ TypeOK' /\ Walk' /\ Settled' /\ Streams' /\ Target' /\ Handed'
         /\ HGoes("judge") /\ h'.err = code /\ ~h'.setup
<1>1. Numbers
  BY TypedNumbers DEF IInv
<1>2. /\ HGoes("judge") /\ h'.err = code /\ ~h'.setup /\ probe' \in PrType
      /\ Walk' /\ Settled'
  <2>1. \A k \in Attempts : up'[k].opened <=> up[k].opened
    BY DEF Reads
  <2> QED BY <2>1, Judged, Zenon DEF Contacting
<1>3. TypeOK'
  BY <1>2 DEF IInv, TypeOK, HGoes, HType, RelayKept, XType, Reads, SType, PrType
<1>4. Streams'
  <2>1. x.cs = h.i /\ h.i \in Nat /\ (\A k \in Attempts : k \in Nat)
    BY <1>1 DEF IInv, Target, Numbers
  <2> SUFFICES ASSUME NEW k \in Attempts
               PROVE  (Ready(k) /\ up[k].taken <= up[k].out /\ (k > x.cs => Unused(k)))'
    BY DEF Streams
  <2>2. Ready(k) /\ (k > x.cs => Unused(k))
    BY DEF IInv, Streams
  <2>3. Ready(k)'
    BY <1>2, <2>1, <2>2 DEF Ready, Reads, HGoes
  <2>4. k > x.cs => Unused(k)'
    BY <2>1, <2>2 DEF Unused, Reads
  <2> QED BY <2>3, <2>4 DEF Reads, RelayKept
<1>5. p.pc = "closing" => p.cs \in Attempts
  BY <1>1, SMTT(60) DEF IInv, Target, Numbers, None, Attempts
<1>6. \A k \in Attempts : /\ up'[k].opened = up[k].opened /\ (Open(k)' <=> Open(k))
                          /\ up'[k].in = up[k].in /\ up'[k].eof = up[k].eof
  BY DEF Reads, Open
<1>7. x.cs # None => x.cs \in Attempts
  BY <1>1 DEF Numbers
<1>8. Target'
  <2>1. x.cs # None => (Open(x.cs)' <=> Open(x.cs))
    BY <1>6, <1>7 DEF RelayKept, Open
  <2>2. Open(h.i)' <=> Open(h.i)
    BY <1>1, <1>2, <1>6 DEF HGoes, Numbers, Open
  <2> QED BY <1>2, <1>5, <1>6, <1>7, <2>1, <2>2 DEF IInv, Target, RelayKept, HGoes
<1>9. Handed'
  <2>1. R' = R /\ First' = First
    BY DEF R, First, InHand, RelayKept
  <2>2. x.cs # None => (Open(x.cs)' <=> Open(x.cs))
    BY <1>6, <1>7 DEF RelayKept, Open
  <2> QED BY <1>2, <1>5, <1>6, <1>7, <2>1, <2>2, ZenonT(60) DEF IInv, Handed, RelayKept, HGoes
<1> QED BY <1>2, <1>3, <1>4, <1>8, <1>9

LEMMA RelayFailsKeeps ==
  ASSUME IInv, RelayFails
  PROVE  IInv'
<1>1. Numbers
  BY TypedNumbers DEF IInv
<1>2. h.pc = "relay" /\ UNCHANGED <<client, p, count>> /\ Reads
  BY Taken DEF RelayFails
<1>3. seen \in SType /\ x \in XType /\ h.i \in Attempts
  BY <1>1 DEF IInv, TypeOK, SType, XType, Numbers
<1>4. /\ RelayKept /\ x'.sentMsg = x.sentMsg
      /\ seen' \in SType /\ seen'.msgs = seen.msgs
      /\ seen'.trailer = seen.trailer /\ seen'.result = seen.result
      /\ seen'.header = IF x'.sentHeader THEN h.i ELSE None
  <2>1. seen.header = IF x.sentHeader THEN h.i ELSE None
    BY DEF IInv, Voice
  <2>2. \/ seen' = seen /\ (x' = [x EXCEPT !.upstreamDone = TRUE] \/ x' = x)
        \/ /\ x' = [x EXCEPT !.sentHeader = TRUE]
           /\ seen' = [seen EXCEPT !.header = IF x.sentHeader THEN @ ELSE h.i]
    BY Zenon DEF RelayFails
  <2>3. CASE seen' = seen /\ (x' = [x EXCEPT !.upstreamDone = TRUE] \/ x' = x)
    BY <1>3, <2>1, <2>3, Zenon DEF RelayKept, XType
  <2>4. CASE /\ x' = [x EXCEPT !.sentHeader = TRUE]
             /\ seen' = [seen EXCEPT !.header = IF x.sentHeader THEN @ ELSE h.i]
    BY <1>3, <2>1, <2>4, Zenon DEF RelayKept, XType, SType
  <2> QED BY <2>2, <2>3, <2>4
<1>5. PICK code \in Codes \ {"OK"} :
        AttemptEnds(code, FALSE) /\ (~Open(h.i) \/ client.ctx # Live)
  <2>1. client.ctx # Live => client.ctx \in Codes \ {"OK"}
    BY DEF IInv, TypeOK, Codes
  <2>2. up[h.i].status # Live /\ up[h.i].status # "OK" =>
          up[h.i].status \in Codes \ {"OK"} /\ ~Open(h.i)
    BY <1>3, Zenon DEF IInv, TypeOK, Stream, Open
  <2>3. "Unavailable" \in Codes \ {"OK"}
    BY DEF Codes
  <2> QED BY <2>1, <2>2, <2>3, Zenon DEF RelayFails, Current
<1>6. /\ TypeOK' /\ Walk' /\ Settled' /\ Streams' /\ Target' /\ Handed'
      /\ HGoes("judge") /\ h'.err = code
  BY <1>2, <1>4, <1>5, RelayOver, Zenon
<1>7. Voice'
  BY <1>2, <1>4, <1>5, <1>6 DEF IInv, Voice, HGoes, Live
<1> QED BY <1>6, <1>7 DEF IInv

LEMMA RelayEndsKeeps ==
  ASSUME IInv, RelayEnds
  PROVE  IInv'
<1>1. Numbers
  BY TypedNumbers DEF IInv
<1>2. PICK sent \in BOOLEAN :
        /\ IF Current.status = "OK" THEN ForwardsHeader(sent) ELSE ~sent
        /\ x' = [x EXCEPT !.upstreamDone = TRUE, !.sentHeader = @ \/ sent]
        /\ seen' = IF sent THEN [seen EXCEPT !.header = h.i] ELSE seen
  BY Zenon DEF RelayEnds
<1>3. /\ h.pc = "relay" /\ up[h.i].taken = up[h.i].out /\ up[h.i].status # Live
      /\ AttemptEnds(up[h.i].status, FALSE) /\ UNCHANGED <<client, p, up, count>>
  BY Zenon DEF RelayEnds, Current
<1>4. seen \in SType /\ x \in XType /\ h.i \in Attempts /\ up[h.i] \in Stream
  BY <1>1 DEF IInv, TypeOK, SType, XType, Numbers
<1>5. up[h.i].status \in Codes /\ ~Open(h.i)
  BY <1>3, <1>4 DEF Stream, Open
<1>6. Reads
  BY <1>3 DEF IInv, TypeOK, Streams, Reads
<1>7. /\ RelayKept /\ x'.sentMsg = x.sentMsg /\ x'.upstreamDone
      /\ x'.sentHeader <=> x.sentHeader \/ sent
  <2>1. (x.sentHeader \/ sent) \in BOOLEAN
    OBVIOUS
  <2> QED BY <1>2, <1>4, <2>1, Zenon DEF RelayKept, XType
<1>8. /\ seen' \in SType /\ seen'.msgs = seen.msgs
      /\ seen'.trailer = seen.trailer /\ seen'.result = seen.result
      /\ seen'.header = IF x'.sentHeader THEN h.i ELSE None
  <2>1. seen.header = IF x.sentHeader THEN h.i ELSE None
    BY DEF IInv, Voice
  <2> QED BY <1>2, <1>4, <1>7, <2>1 DEF SType
<1>9. /\ TypeOK' /\ Walk' /\ Settled' /\ Streams' /\ Target' /\ Handed'
      /\ HGoes("judge") /\ h'.err = up[h.i].status /\ ~h'.setup
  BY <1>3, <1>5, <1>6, <1>7, <1>8, RelayOver, Zenon
<1>10. up[h.i].status = "OK" => Delivered'
  <2>1. Len(seen.msgs) = up[h.i].out
    BY <1>3 DEF IInv, Voice
  <2>2. up[h.i].status = "OK" /\ up[h.i].md => x'.sentHeader \/ client.ctx # Live
    BY <1>2, <1>7 DEF ForwardsHeader, Current
  <2> QED BY <1>3, <1>8, <1>9, <2>1, <2>2 DEF Delivered, HGoes
<1>11. Voice'
  BY <1>3, <1>7, <1>8, <1>9, <1>10 DEF IInv, Voice, HGoes, Live
<1> QED BY <1>9, <1>11 DEF IInv

LEMMA RetryKeeps ==
  ASSUME IInv, NEW budget \in BOOLEAN, Retry(budget)
  PROVE  IInv'
<1>1. Numbers
  BY TypedNumbers DEF IInv
<1>2. /\ h.pc = "judge" /\ canRetry(budget) /\ UNCHANGED <<client, x, p, up, probe, seen>>
      /\ h.i < h.n /\ ~x.sentHeader /\ ~x.sentMsg /\ client.ctx = Live /\ ~x.committed
  BY DEF Retry, canRetry
<1>3. h.i + 1 \in Attempts /\ count.failovers + 1 \in 0 .. MaxCandidates
      /\ count.failovers < h.i /\ count.attempts = count.failovers + 1
  BY <1>1, <1>2, ExchangeAssumption, SMTT(60) DEF Attempts, Numbers, IInv, Walk
<1>4. h' \in HType /\ h'.pc = "reserve" /\ h'.i = h.i + 1 /\ h'.n = h.n
  <2>1. h \in HType /\ h.err \in Codes
    BY DEF IInv, TypeOK, HType
  <2> QED BY <1>2, <1>3, <2>1, Zenon DEF Retry, HType
<1>5. /\ count' \in [attempts : 0 .. MaxCandidates, failovers : 0 .. MaxCandidates]
      /\ count'.attempts = count.attempts /\ count'.failovers = count.failovers + 1
  <2>1. count \in [attempts : 0 .. MaxCandidates, failovers : 0 .. MaxCandidates]
    BY DEF IInv, TypeOK
  <2> QED BY <1>3, <2>1 DEF Retry
<1>6. TypeOK'
  BY <1>2, <1>4, <1>5, SMTT(60) DEF IInv, TypeOK, HType
<1>7. Walk'
  BY <1>1, <1>2, <1>3, <1>4, <1>5, SMTT(60) DEF IInv, Walk, Contacting, Numbers
<1>8. \A k \in Attempts : /\ k < h'.i <=> k < h.i \/ k = h.i
                          /\ k >= h'.i <=> k > h.i
  BY <1>1, <1>4 DEF Numbers
<1>9. Settled'
  BY <1>1, <1>2, <1>4, <1>8, SMTT(60) DEF IInv, Settled, Streams, Ready, Contacting, Numbers
<1>10. Streams'
  BY <1>1, <1>2, <1>4, <1>8 DEF IInv, Streams, Ready, Unused, Numbers
<1>11. Target'
  <2>1. x.cs < h'.i /\ (x.cs # None => ~Open(x.cs))
    BY <1>1, <1>2, <1>4, SMTT(60) DEF IInv, Target, Numbers
  <2> QED BY <1>1, <1>2, <1>4, <2>1, SMTT(60) DEF IInv, Target, Open, Numbers
<1>12. Len(up[h.i].in) <= IF x.policy = "unavailable" THEN 1 ELSE 0
  <2>1. CASE h.setup
    <3>1. up[h.i].in = <<>>
      BY <1>1, <1>2, <2>1 DEF IInv, Target, Streams, Unused, Numbers
    <3> QED BY <3>1
  <2>2. CASE ~h.setup
    <3>1. x.policy = "unavailable" /\ x.cs = h.i /\ x.cs # None
      BY <1>1, <1>2, <2>2, SMTT(60) DEF canRetry, IInv, Target, Numbers, Attempts, None
    <3>2. up[h.i].in = [j \in 1 .. R |-> j] /\ R \in {0, 1}
      BY <1>2, <3>1 DEF IInv, Handed, First
    <3>3. Len(up[h.i].in) = R
      BY <3>2
    <3> QED BY <3>1, <3>2, <3>3
  <2> QED BY <2>1, <2>2
<1>13. Handed'
  BY <1>2, <1>4, <1>8, <1>12 DEF IInv, Handed, R, First, InHand, Open
<1>14. Voice'
  BY <1>2, <1>4, SMTT(60) DEF IInv, Voice, Live, None
<1> QED BY <1>6, <1>7, <1>9, <1>10, <1>11, <1>13, <1>14 DEF IInv

LEMMA FinishKeeps ==
  ASSUME IInv, NEW budget \in BOOLEAN, Finish(budget)
  PROVE  IInv'
<1>1. Numbers
  BY TypedNumbers DEF IInv
<1>2. h.pc = "judge" /\ UNCHANGED <<client, p, up, probe, count>>
  BY DEF Finish
<1>3. HGoes("done")
  BY Zenon DEF Finish, IInv, TypeOK, HGoes, HType
<1>4. PICK sent \in BOOLEAN :
        /\ x' = [x EXCEPT !.sentHeader = @ \/ sent]
        /\ seen' = [seen EXCEPT
                      !.header = IF sent THEN h.i ELSE @,
                      !.trailer = IF ~h.setup /\ x.upstreamDone THEN h.i ELSE @,
                      !.result = h.err]
  BY Zenon DEF Finish
<1>5. seen \in SType /\ x \in XType /\ h.i \in Attempts /\ h.err \in Codes
  BY <1>1 DEF IInv, TypeOK, SType, XType, Numbers
<1>6. /\ RelayKept /\ x'.sentMsg = x.sentMsg
      /\ x'.sentHeader <=> x.sentHeader \/ sent
  <2>1. (x.sentHeader \/ sent) \in BOOLEAN
    OBVIOUS
  <2> QED BY <1>4, <1>5, <2>1 DEF RelayKept, XType
<1>7. /\ seen' \in SType /\ seen'.msgs = seen.msgs
      /\ seen'.trailer = IF ~h.setup /\ x.upstreamDone THEN h.i ELSE seen.trailer
      /\ seen'.result = h.err
      /\ seen'.header = IF sent THEN h.i ELSE seen.header
  BY <1>4, <1>5, Zenon DEF SType
<1>8. TypeOK'
  BY <1>2, <1>3, <1>6, <1>7 DEF IInv, TypeOK, HGoes, HType, RelayKept, XType, SType
<1>9. Walk'
  BY <1>1, <1>2, <1>3 DEF IInv, Walk, HGoes, Contacting, Numbers
<1>10. Settled'
  BY <1>1, <1>2, <1>3 DEF IInv, Settled, HGoes, Contacting, Numbers
<1>11. Streams'
  BY <1>2, <1>3, <1>6 DEF IInv, Streams, Ready, Unused, HGoes, RelayKept
<1>12. Target'
  BY <1>2, <1>3, <1>6 DEF IInv, Target, HGoes, Open, RelayKept
<1>13. Handed'
  BY <1>2, <1>3, <1>6 DEF IInv, Handed, R, First, InHand, HGoes, Open, RelayKept
<1>14. Voice'
  <2>1. seen.header = IF x.sentHeader THEN h.i ELSE None
    BY DEF IInv, Voice
  <2>2. seen'.header = IF x'.sentHeader THEN h.i ELSE None
    BY <1>6, <1>7, <2>1
  <2>3. seen'.result = "OK" => Delivered' /\ seen'.trailer = h.i
    BY <1>2, <1>3, <1>7 DEF IInv, Voice, Delivered, HGoes
  <2>4. seen'.trailer \in {None, h.i}
    BY <1>2, <1>7 DEF IInv, Voice
  <2> QED BY <1>2, <1>3, <1>6, <1>7, <2>2, <2>3, <2>4 DEF IInv, Voice, HGoes
<1> QED BY <1>8, <1>9, <1>10, <1>11, <1>12, <1>13, <1>14 DEF IInv

-----------------------------------------------------------------------------
(* The invariant holds.                                                    *)

LEMMA InitIInv == Init => IInv
<1> SUFFICES ASSUME Init PROVE IInv
  OBVIOUS
<1>1. /\ client = [sent |-> 0, read |-> 0, closed |-> FALSE, ctx |-> Live]
      /\ p = [pc |-> "none", cs |-> None]
      /\ up = [k \in Attempts |-> NewStream]
      /\ probe = [k \in Attempts |-> "none"]
      /\ count = [attempts |-> 0, failovers |-> 0]
      /\ seen = [header |-> None, msgs |-> <<>>, trailer |-> None, result |-> Live]
  BY DEF Init
<1>2. PICK policy \in Policies :
        x = [policy |-> policy, haveFirst |-> FALSE, sentHeader |-> FALSE, sentMsg |-> FALSE,
             upstreamDone |-> FALSE, cs |-> None, pumping |-> FALSE,
             committed |-> FALSE, halfClosed |-> FALSE]
  BY Zenon DEF Init
<1>3. PICK n \in 0 .. MaxCandidates :
        h = [pc |-> "pick", i |-> 1, n |-> n, err |-> "OK", lastErr |-> "OK", setup |-> FALSE]
  BY Zenon DEF Init
<1>4. 1 \in Attempts /\ 0 \in 0 .. MaxCandidates /\ 0 \in 0 .. MaxMsgs /\ 0 \in 0 .. MaxAnswers
  BY ExchangeAssumption DEF Attempts
<1>5. NewStream \in Stream
  BY <1>4, SMTT(60) DEF NewStream, Stream
<1>6. TypeOK
  BY <1>1, <1>2, <1>3, <1>4, <1>5, SMTT(60) DEF TypeOK, Codes
<1>7. Walk
  BY <1>1, <1>3, ExchangeAssumption, SMTT(60) DEF Walk, Contacting
<1>8. Settled /\ Streams
  BY <1>1, <1>2, <1>3, SMTT(60) DEF Settled, Streams, Ready, Unused, NewStream, Contacting
<1>9. Target
  BY <1>1, <1>2, <1>3, SMTT(60) DEF Target, None
<1>10. Handed
  <2>1. R = 0 /\ First = 0
    BY <1>1, <1>2, SMTT(60) DEF R, First, InHand
  <2> QED BY <1>1, <1>2, <1>3, <2>1, ExchangeAssumption, SMTT(60) DEF Handed, NewStream, Attempts
<1>11. Voice
  BY <1>1, <1>2, <1>3, SMTT(60) DEF Voice, Live
<1> QED BY <1>6, <1>7, <1>8, <1>9, <1>10, <1>11 DEF IInv

LEMMA StutterKeeps ==
  ASSUME IInv, UNCHANGED vars
  PROVE  IInv'
<1> USE DEF vars
<1>1. TypeOK'
  BY SMTT(60) DEF IInv, TypeOK
<1>2. Walk' /\ Settled' /\ Streams'
  BY DEF IInv, Walk, Settled, Streams, Ready, Unused
<1>3. Target'
  BY DEF IInv, Target, Open
<1>4. Handed'
  BY DEF IInv, Handed, R, First, InHand, Open
<1>5. Voice'
  BY DEF IInv, Voice, Delivered
<1> QED BY <1>1, <1>2, <1>3, <1>4, <1>5 DEF IInv

LEMMA NextKeeps == IInv /\ [Next]_vars => IInv'
<1> SUFFICES ASSUME IInv, [Next]_vars PROVE IInv'
  OBVIOUS
<1>1. CASE Client
  BY <1>1, ClientKeeps
<1>2. ASSUME NEW k \in Attempts, Backend(k) \/ Canceled(k) PROVE IInv'
  <2>1. Evolves(k)
    BY <1>2, BackendEvolves DEF Backend, IInv
  <2> QED BY <1>2, <2>1, EvolvesKeeps DEF Backend, Canceled
<1>3. CASE Handler
  BY <1>3, PickKeeps, RecvFirstKeeps, ReserveKeeps, InstallRefusedKeeps, InstallOpenKeeps,
     InstallFailsKeeps, SendFirstKeeps, FirstSendErrorKeeps, FirstSendRejectedKeeps,
     RelayKeeps, RelayFailsKeeps, RelayEndsKeeps, RetryKeeps, FinishKeeps DEF Handler
<1>4. CASE Pump
  BY <1>4, PumpRecvKeeps, PumpCommitKeeps, PumpSendFailsKeeps, PumpHalfCloseKeeps,
     PumpCloseSendKeeps, PumpErrorKeeps, PumpSendKeeps, PumpSendRejectedKeeps
     DEF Pump, PumpMoves
<1>5. CASE Rest \/ UNCHANGED vars
  BY <1>5, StutterKeeps DEF Rest
<1> QED BY <1>1, <1>2, <1>3, <1>4, <1>5 DEF Next

LEMMA SpecIInv == Spec => []IInv
  BY InitIInv, NextKeeps, PTL DEF Spec

-----------------------------------------------------------------------------
(* The theorems.                                                           *)

\* Whatever was retried, committed and replayed before, the live upstream being
\* relayed has all that was read off the client's stream, in order and once, but for
\* the message the pump holds (install, pump, canRetry).
THEOREM NothingLostTheorem == Spec => []NothingLost
<1>1. IInv => NothingLost
  <2> SUFFICES ASSUME IInv, h.pc = "relay", Open(h.i)
               PROVE  up[h.i].in = [j \in 1 .. client.read - InHand |-> j]
    BY DEF NothingLost
  <2>1. x.cs = h.i /\ x.cs # None
    BY TypedNumbers, SMTT(60) DEF IInv, Target, Numbers, Attempts, None
  <2> QED BY <2>1 DEF IInv, Handed, R
<1> QED BY <1>1, SpecIInv, PTL

\* A half-close is passed on only behind the last of the client's messages
\* (pump's CloseSend, and install's for a client that had half-closed).
THEOREM NoTruncationTheorem == Spec => []NoTruncation
<1>1. IInv => NoTruncation
  BY DEF IInv, Handed, Target, NoTruncation
<1> QED BY <1>1, SpecIInv, PTL

\* No backend that was handed more than the policy allows is followed by another
\* (canRetry, and install under mu).
THEOREM AtMostOnceTheorem == Spec => []AtMostOnce
<1>1. IInv => AtMostOnce
  <2> SUFFICES ASSUME IInv, NEW k \in Attempts, NEW l \in Attempts, k < l, up[l].opened
               PROVE  Len(up[k].in) <= IF x.policy = "unavailable" THEN 1 ELSE 0
    BY DEF AtMostOnce
  <2>1. l <= h.i
    BY TypedNumbers, SMTT(60) DEF IInv, Streams, Ready, Numbers
  <2>2. k < h.i
    BY <2>1, TypedNumbers DEF IInv, Numbers
  <2> QED BY <2>2 DEF IInv, Handed
<1> QED BY <1>1, SpecIInv, PTL

\* The client hears one attempt, without a gap, and OK means all of it (relay,
\* forwardHeader, run).
THEOREM OneVoiceTheorem == Spec => []OneVoice
<1>1. IInv => OneVoice
  BY DEF IInv, Voice, Delivered, OneVoice
<1> QED BY <1>1, SpecIInv, PTL

\* Each reservation is settled once, before the RPC moves on, and each attempt but
\* the first is a counted failover (run, record, AddAttempt, IncFailover).
THEOREM SettledOnceTheorem == Spec => []SettledOnce
<1>1. IInv => SettledOnce
  <2> SUFFICES ASSUME IInv PROVE SettledOnce
    OBVIOUS
  <2>1. Numbers
    BY TypedNumbers DEF IInv
  <2>2. ASSUME NEW k \in Attempts
        PROVE  /\ probe[k] # "twice"
               /\ probe[k] = "held" => k = h.i /\ h.pc \in {"install", "sendFirst", "relay"}
               /\ up[k].opened => probe[k] \in {"held", "success", "failure"}
    <3>1. h.pc \in {"pick", "first", "reserve", "install", "sendFirst", "relay", "judge", "done"}
      BY DEF IInv, TypeOK
    <3> QED BY <2>1, <3>1, SMTT(60) DEF IInv, Settled, Streams, Ready, Contacting, Numbers
  <2>3. h.pc = "done" /\ count.attempts > 0 => count.attempts = count.failovers + 1
    BY <2>1 DEF IInv, Walk, Numbers
  <2> QED BY <2>2, <2>3 DEF IInv, SettledOnce
<1> QED BY <1>1, SpecIInv, PTL
=============================================================================
