------------------------------ MODULE Exchange ------------------------------
(***************************************************************************)
(* One proxied RPC (internal/proxy/proxy.go).  Two goroutines share the    *)
(* exchange: the handler, which tries the candidates in turn, relays the   *)
(* answer and decides every retry, and the pump, which forwards the        *)
(* client's messages.  Around them are the client, which sends, half-      *)
(* closes or goes away, and one upstream stream per attempt, which the     *)
(* backend may answer, or the transport break, at any moment.              *)
(*                                                                         *)
(* The client's messages are the numbers 1, 2, ... in the order sent, and  *)
(* so are the answers of an attempt.                                       *)
(***************************************************************************)
EXTENDS Integers, Sequences, FiniteSets

CONSTANTS
    MaxCandidates,   \* the most candidates Pick returns (MaxAttempts)
    MaxMsgs,         \* bound on the client's messages
    MaxAnswers,      \* bound on the answers of one attempt
    Policies,        \* the RetryPolicy settings tried
    ServerCodes      \* the statuses a backend may end a stream with

ASSUME ExchangeAssumption ==
    /\ MaxCandidates \in Nat \ {0} /\ MaxMsgs \in Nat /\ MaxAnswers \in Nat
    /\ Policies \subseteq {"connect-failure", "unavailable", "none"}
    /\ ServerCodes \subseteq {"OK", "Unavailable", "ResourceExhausted", "DeadlineExceeded",
                              "Internal", "Unknown", "Canceled", "InvalidArgument"}

VARIABLES
    client,      \* messages sent and read, closed (half-closed), ctx: the inbound stream
    x,           \* the fields of exchange, and the retry policy
    h,           \* the handler: pc, candidate i of n, err, lastErr, setup (fromSetup)
    p,           \* the pump: pc and its local cs
    up,          \* the upstream stream of each attempt
    probe,       \* what became of the reservation of each attempt
    count,       \* info's attempts and lb_failovers_total
    seen         \* what the client has been given: header, msgs, trailer, result

vars == <<client, x, h, p, up, probe, count, seen>>

Attempts == 1 .. MaxCandidates
Live == "live"   \* a context or a stream that has not ended
None == 0        \* no attempt

\* middleware.IsFailure
IsFailure(code) ==
    code \in {"Unavailable", "DeadlineExceeded", "Internal", "ResourceExhausted", "Unknown"}

NewStream == [opened |-> FALSE, status |-> Live, answered |-> FALSE, md |-> FALSE,
              in |-> <<>>, eof |-> FALSE, out |-> 0, taken |-> 0]

Init ==
    /\ client = [sent |-> 0, read |-> 0, closed |-> FALSE, ctx |-> Live]
    /\ \E policy \in Policies :
         x = [policy |-> policy, haveFirst |-> FALSE, sentHeader |-> FALSE, sentMsg |-> FALSE,
              upstreamDone |-> FALSE, cs |-> None, pumping |-> FALSE,
              committed |-> FALSE, halfClosed |-> FALSE]
    /\ \E n \in 0 .. MaxCandidates :
         h = [pc |-> "pick", i |-> 1, n |-> n, err |-> "OK", lastErr |-> "OK",
              setup |-> FALSE]
    /\ p = [pc |-> "none", cs |-> None]
    /\ up = [k \in Attempts |-> NewStream]
    /\ probe = [k \in Attempts |-> "none"]
    /\ count = [attempts |-> 0, failovers |-> 0]
    /\ seen = [header |-> None, msgs |-> <<>>, trailer |-> None, result |-> Live]

-----------------------------------------------------------------------------
(* The client and the backends.                                            *)

ClientSend ==
    /\ client.ctx = Live /\ ~client.closed /\ client.sent < MaxMsgs
    /\ client' = [client EXCEPT !.sent = @ + 1]

ClientClose ==
    /\ client.ctx = Live /\ ~client.closed
    /\ client' = [client EXCEPT !.closed = TRUE]

\* The caller cancels, or its deadline passes.
ClientGone ==
    /\ client.ctx = Live /\ h.pc # "done"
    /\ \E code \in {"Canceled", "DeadlineExceeded"} : client' = [client EXCEPT !.ctx = code]

Open(k) == up[k].opened /\ up[k].status = Live

\* The first answer carries the header, with or without metadata.
ServerAnswer(k) ==
    /\ Open(k) /\ up[k].out < MaxAnswers
    /\ \E md \in IF up[k].out = 0 THEN BOOLEAN ELSE {up[k].md} :
         up' = [up EXCEPT ![k].out = @ + 1, ![k].answered = TRUE, ![k].md = md]

ServerEnd(k) ==
    /\ Open(k)
    /\ \E code \in ServerCodes, md \in IF up[k].out = 0 THEN BOOLEAN ELSE {up[k].md} :
         up' = [up EXCEPT ![k].status = code, ![k].answered = TRUE, ![k].md = md]

\* The transport breaks; what had arrived before stays readable.
Break(k) ==
    /\ Open(k)
    /\ up' = [up EXCEPT ![k].status = "Unavailable"]

\* The attempt's context ends: with the inbound one, by attemptCancel when the
\* RPC moves on, or by handle's deferred cancel.
Canceled(k) ==
    /\ Open(k)
    /\ client.ctx # Live \/ h.pc = "done" \/ k < h.i
    /\ up' = [up EXCEPT ![k].status = IF client.ctx # Live THEN client.ctx ELSE "Canceled"]
    /\ UNCHANGED <<client, x, h, p, probe, count, seen>>

-----------------------------------------------------------------------------
(* The handler: handle and run.                                            *)

\* What RecvMsg on the inbound stream may return.  An ended context may win
\* over a message that has arrived.
HasMsg == client.read < client.sent
AtEOF == client.closed /\ client.read = client.sent
InboundErr == client.ctx # Live \/ h.pc = "done"
TakeMsg == client' = [client EXCEPT !.read = @ + 1]

Return(code) == seen' = [seen EXCEPT !.result = code]

Pick ==
    /\ h.pc = "pick"
    /\ h' = [h EXCEPT !.pc = IF h.n = 0 THEN "done" ELSE "first"]
    /\ IF h.n = 0 THEN Return("Unavailable") ELSE UNCHANGED seen
    /\ UNCHANGED <<client, x, p, up, probe, count>>

RecvFirst ==
    /\ h.pc = "first"
    /\ \/ /\ HasMsg
          /\ TakeMsg
          /\ x' = [x EXCEPT !.haveFirst = TRUE]
          /\ h' = [h EXCEPT !.pc = "reserve"]
          /\ UNCHANGED seen
       \/ /\ AtEOF
          /\ x' = [x EXCEPT !.halfClosed = TRUE]
          /\ h' = [h EXCEPT !.pc = "reserve"]
          /\ UNCHANGED <<client, seen>>
       \/ /\ InboundErr
          /\ Return(client.ctx)
          /\ h' = [h EXCEPT !.pc = "done"]
          /\ UNCHANGED <<client, x>>
    /\ UNCHANGED <<p, up, probe, count>>

\* The last candidate is tried even when its breaker or health refuses it.
Reserve ==
    /\ h.pc = "reserve"
    /\ \E admitted \in BOOLEAN :
         IF ~admitted /\ h.i < h.n
         THEN /\ h' = [h EXCEPT !.i = @ + 1]
              /\ UNCHANGED <<probe, count>>
         ELSE /\ h' = [h EXCEPT !.pc = "install"]
              /\ probe' = [probe EXCEPT ![h.i] = "held"]
              /\ count' = [count EXCEPT !.attempts = @ + 1]
    /\ UNCHANGED <<client, x, p, up, seen>>

\* The reservation of the attempt is settled, once or (never) again.
Settle(how) == probe' = [probe EXCEPT ![h.i] = IF @ = "held" THEN how ELSE "twice"]

record(code) == Settle(IF IsFailure(code) THEN "failure" ELSE "success")

\* The attempt ended with err, in install or in relay.
AttemptEnds(code, setup) ==
    /\ h' = [h EXCEPT !.pc = "judge", !.err = code, !.setup = setup]
    /\ record(code)

-----------------------------------------------------------------------------
(* install, which holds mu from its first line to its last.                *)

MuFree == h.pc # "sendFirst"

\* Mutant: the refused reservation is dropped.
InstallRefused_NoRelease ==
    /\ h.pc = "install" /\ x.committed
    /\ Return(IF h.lastErr = "OK" THEN "Unavailable" ELSE h.lastErr)
    /\ h' = [h EXCEPT !.pc = "done"]
    /\ UNCHANGED <<client, x, p, up, probe, count>>

\* errNotReplayable: the backend was never contacted, so nobody is blamed.
InstallRefused ==
    /\ h.pc = "install" /\ x.committed
    /\ Settle("released")
    /\ Return(IF h.lastErr = "OK" THEN "Unavailable" ELSE h.lastErr)
    /\ h' = [h EXCEPT !.pc = "done"]
    /\ UNCHANGED <<client, x, p, up, count>>

\* Mutant: install does not look at committed.
InstallOpen_Always ==
    /\ h.pc = "install"
    /\ up' = [up EXCEPT ![h.i].opened = TRUE]
    /\ h' = [h EXCEPT !.pc = "sendFirst"]
    /\ UNCHANGED <<client, x, p, probe, count, seen>>

\* NewClientStream succeeds.
InstallOpen ==
    /\ h.pc = "install" /\ ~x.committed
    /\ up' = [up EXCEPT ![h.i].opened = TRUE]
    /\ h' = [h EXCEPT !.pc = "sendFirst"]
    /\ UNCHANGED <<client, x, p, probe, count, seen>>

\* NewClientStream fails: no connection, or the context has ended.
InstallFails ==
    /\ h.pc = "install" /\ ~x.committed
    /\ \E code \in {"Unavailable", "Internal"} \cup ({client.ctx} \ {Live}) : AttemptEnds(code, TRUE)
    /\ UNCHANGED <<client, x, p, up, count, seen>>

\* Mutant: a stream installed after the half-close is left open.
StreamInstalled_NoClose(in) ==
    /\ up' = [up EXCEPT ![h.i].in = in]
    /\ x' = [x EXCEPT !.cs = h.i, !.pumping = @ \/ ~x.halfClosed, !.upstreamDone = FALSE]
    /\ p' = IF x.pumping \/ x.halfClosed THEN p ELSE [p EXCEPT !.pc = "recv"]
    /\ h' = [h EXCEPT !.pc = "relay"]

\* The new stream becomes the pump's target; the pump is started once, and a
\* client that has half-closed is not forgotten.
StreamInstalled(in) ==
    /\ up' = [up EXCEPT ![h.i].in = in, ![h.i].eof = x.halfClosed]
    /\ x' = [x EXCEPT !.cs = h.i, !.pumping = @ \/ ~x.halfClosed, !.upstreamDone = FALSE]
    /\ p' = IF x.pumping \/ x.halfClosed THEN p ELSE [p EXCEPT !.pc = "recv"]
    /\ h' = [h EXCEPT !.pc = "relay"]

\* The buffered first message, if there is one, is replayed.
SendFirst ==
    /\ h.pc = "sendFirst"
    /\ x.haveFirst => Open(h.i)
    /\ StreamInstalled(IF x.haveFirst THEN <<1>> ELSE <<>>)
    /\ UNCHANGED <<client, probe, count, seen>>

\* SendMsg reports a broken stream as io.EOF, and firstSendError reads the real
\* status; an answer, or a stream that ended OK, leaves the io.EOF (Unknown).
FirstSendError ==
    /\ h.pc = "sendFirst" /\ x.haveFirst /\ ~Open(h.i)
    /\ AttemptEnds(IF up[h.i].out > 0 \/ up[h.i].status = "OK" THEN "Unknown"
                   ELSE up[h.i].status, TRUE)
    /\ UNCHANGED <<client, x, p, up, count, seen>>

\* SendMsg itself rejects the message (its size), which also ends the stream.
FirstSendRejected ==
    /\ h.pc = "sendFirst" /\ x.haveFirst /\ Open(h.i)
    /\ up' = [up EXCEPT ![h.i].status = "ResourceExhausted"]
    /\ AttemptEnds("ResourceExhausted", TRUE)
    /\ UNCHANGED <<client, x, p, count, seen>>

-----------------------------------------------------------------------------
(* relay.                                                                  *)

Current == up[h.i]

\* An answer reaches the client, after the header if that was not yet sent.
\* With a live client nothing on the way can fail; RelayFails is the rest.
Relay ==
    /\ h.pc = "relay" /\ Current.taken < Current.out
    /\ up' = [up EXCEPT ![h.i].taken = @ + 1]
    /\ x' = [x EXCEPT !.sentHeader = TRUE, !.sentMsg = TRUE]
    /\ seen' = [seen EXCEPT !.header = IF x.sentHeader THEN @ ELSE h.i,
                            !.msgs = Append(@, <<h.i, Current.taken + 1>>)]
    /\ UNCHANGED <<client, h, p, probe, count>>

\* An answer is read and dropped: Header reports the error that ended the
\* stream, or SendHeader or SendMsg fails because the client is gone.
RelayFails ==
    /\ h.pc = "relay" /\ Current.taken < Current.out
    /\ up' = [up EXCEPT ![h.i].taken = @ + 1]
    /\ \/ /\ ~x.sentHeader /\ Current.status \notin {Live, "OK"}
          /\ x' = [x EXCEPT !.upstreamDone = TRUE]
          /\ AttemptEnds(Current.status, FALSE)
          /\ UNCHANGED seen
       \/ /\ ~x.sentHeader /\ client.ctx # Live
          /\ \E code \in {client.ctx, "Unavailable"} : AttemptEnds(code, FALSE)
          /\ UNCHANGED <<x, seen>>
       \/ /\ client.ctx # Live
          /\ x' = [x EXCEPT !.sentHeader = TRUE]
          /\ seen' = [seen EXCEPT !.header = IF x.sentHeader THEN @ ELSE h.i]
          /\ \E code \in {client.ctx, "Unavailable"} : AttemptEnds(code, FALSE)
    /\ UNCHANGED <<client, p, count>>

\* forwardHeader: metadata nobody has sent yet; SendHeader may fail only when
\* the client is gone.  sent tells whether it reached the client.
ForwardsHeader(sent) ==
    IF x.sentHeader \/ ~Current.md THEN ~sent
    ELSE sent \/ client.ctx # Live

\* The upstream's final status.  A call that ends well forwards its header.
RelayEnds ==
    /\ h.pc = "relay" /\ Current.taken = Current.out /\ Current.status # Live
    /\ \E sent \in BOOLEAN :
         /\ IF Current.status = "OK" THEN ForwardsHeader(sent) ELSE ~sent
         /\ x' = [x EXCEPT !.upstreamDone = TRUE, !.sentHeader = @ \/ sent]
         /\ seen' = IF sent THEN [seen EXCEPT !.header = h.i] ELSE seen
    /\ AttemptEnds(Current.status, FALSE)
    /\ UNCHANGED <<client, p, up, count>>

-----------------------------------------------------------------------------
(* canRetry and what follows it.                                           *)

\* Mutant: what the client has been shown does not matter.
canRetry_Visible(budget) ==
    /\ h.i < h.n
    /\ client.ctx = Live
    /\ ~x.committed
    /\ x.policy # "none"
    /\ IF h.setup THEN h.err = "Unavailable"
       ELSE x.policy = "unavailable" /\ h.err \in {"Unavailable", "ResourceExhausted"}

\* Mutant: the default policy also replays what was sent.
canRetry_AnyPolicy(budget) ==
    /\ h.i < h.n
    /\ ~x.sentHeader /\ ~x.sentMsg
    /\ client.ctx = Live
    /\ ~x.committed
    /\ x.policy # "none"
    /\ h.err = "Unavailable"

\* budget: whether the caller's deadline, if any, is still ahead.
canRetry(budget) ==
    /\ h.i < h.n
    /\ ~x.sentHeader /\ ~x.sentMsg
    /\ client.ctx = Live
    /\ ~x.committed
    /\ x.policy # "none"
    /\ IF h.setup THEN h.err = "Unavailable"
       ELSE /\ x.policy = "unavailable"
            /\ \/ h.err \in {"Unavailable", "ResourceExhausted"}
               \/ h.err = "DeadlineExceeded" /\ budget

Retry(budget) ==
    /\ h.pc = "judge" /\ canRetry(budget)
    /\ h' = [h EXCEPT !.pc = "reserve", !.i = @ + 1, !.lastErr = h.err]
    /\ count' = [count EXCEPT !.failovers = @ + 1]
    /\ UNCHANGED <<client, x, p, up, probe, seen>>

\* The attempt's status is the RPC's.  Header and trailer follow when relay
\* saw the stream end.
Finish(budget) ==
    /\ h.pc = "judge" /\ ~canRetry(budget)
    /\ h' = [h EXCEPT !.pc = "done"]
    /\ \E sent \in BOOLEAN :
         /\ IF ~h.setup /\ x.upstreamDone THEN ForwardsHeader(sent) ELSE ~sent
         /\ x' = [x EXCEPT !.sentHeader = @ \/ sent]
         /\ seen' = [seen EXCEPT
                       !.header = IF sent THEN h.i ELSE @,
                       !.trailer = IF ~h.setup /\ x.upstreamDone THEN h.i ELSE @,
                       !.result = h.err]
    /\ UNCHANGED <<client, p, up, probe, count>>

-----------------------------------------------------------------------------
(* pump.                                                                   *)

\* The frame of every pump step is stated once, in PumpFrame.
PumpGoto(to) == p' = [p EXCEPT !.pc = to]

\* Mutant: an error on the inbound stream does not end the pump.
PumpRecv_KeepsGoing ==
    /\ p.pc = "recv"
    /\ \/ HasMsg /\ TakeMsg /\ PumpGoto("commit")
       \/ AtEOF /\ PumpGoto("eof") /\ UNCHANGED client
    /\ UNCHANGED <<x, up>>

\* Mutant: any error is taken for the half-close.
PumpRecv_ErrorIsEOF ==
    /\ p.pc = "recv"
    /\ \/ HasMsg /\ TakeMsg /\ PumpGoto("commit")
       \/ (AtEOF \/ InboundErr) /\ PumpGoto("eof") /\ UNCHANGED client
    /\ UNCHANGED <<x, up>>

PumpRecv ==
    /\ p.pc = "recv"
    /\ \/ HasMsg /\ TakeMsg /\ PumpGoto("commit")
       \/ AtEOF /\ PumpGoto("eof") /\ UNCHANGED client
       \/ InboundErr /\ PumpGoto("error") /\ UNCHANGED client
    /\ UNCHANGED <<x, up>>

PumpCommit ==
    /\ p.pc = "commit" /\ MuFree
    /\ x' = [x EXCEPT !.committed = TRUE]
    /\ p' = [pc |-> "send", cs |-> x.cs]
    /\ UNCHANGED <<client, up>>

PumpSend ==
    /\ p.pc = "send" /\ Open(p.cs)
    /\ up' = [up EXCEPT ![p.cs].in = Append(@, client.read)]
    /\ PumpGoto("recv")
    /\ UNCHANGED <<client, x>>

\* SendMsg fails: on a stream that has ended, or by rejecting the message,
\* which ends the stream.
PumpSendFails ==
    /\ p.pc = "send" /\ ~Open(p.cs)
    /\ PumpGoto("done")
    /\ UNCHANGED <<client, x, up>>

PumpSendRejected ==
    /\ p.pc = "send" /\ Open(p.cs)
    /\ up' = [up EXCEPT ![p.cs].status = "ResourceExhausted"]
    /\ PumpGoto("done")
    /\ UNCHANGED <<client, x>>

PumpHalfClose ==
    /\ p.pc = "eof" /\ MuFree
    /\ x' = [x EXCEPT !.halfClosed = TRUE]
    /\ p' = [pc |-> "closing", cs |-> x.cs]
    /\ UNCHANGED <<client, up>>

PumpCloseSend ==
    /\ p.pc = "closing"
    /\ up' = [up EXCEPT ![p.cs].eof = TRUE]
    /\ PumpGoto("done")
    /\ UNCHANGED <<client, x>>

PumpError ==
    /\ p.pc = "error" /\ MuFree
    /\ x' = [x EXCEPT !.committed = TRUE]
    /\ PumpGoto("done")
    /\ UNCHANGED <<client, up>>

-----------------------------------------------------------------------------
Client ==
    /\ ClientSend \/ ClientClose \/ ClientGone
    /\ UNCHANGED <<x, h, p, up, probe, count, seen>>

Backend(k) ==
    /\ ServerAnswer(k) \/ ServerEnd(k) \/ Break(k)
    /\ UNCHANGED <<client, x, h, p, probe, count, seen>>

Handler ==
    \/ Pick \/ RecvFirst \/ Reserve
    \/ InstallRefused \/ InstallOpen \/ InstallFails
    \/ SendFirst \/ FirstSendError \/ FirstSendRejected
    \/ Relay \/ RelayFails \/ RelayEnds
    \/ \E budget \in BOOLEAN : Retry(budget) \/ Finish(budget)

\* The pump but for the SendMsg that waits for the backend to make room.
PumpFrame == UNCHANGED <<h, probe, count, seen>>
PumpMoves ==
    /\ PumpRecv \/ PumpCommit \/ PumpSendFails \/ PumpHalfClose \/ PumpCloseSend \/ PumpError
    /\ PumpFrame

Pump == PumpMoves \/ ((PumpSend \/ PumpSendRejected) /\ PumpFrame)

Over == h.pc = "done" /\ p.pc \in {"none", "done"}

\* The RPC is over: nothing is left to happen.
Rest == Over /\ UNCHANGED vars

Next ==
    \/ Client
    \/ \E k \in Attempts : Backend(k) \/ Canceled(k)
    \/ Handler
    \/ Pump
    \/ Rest

Spec == Init /\ [][Next]_vars

\* Goroutines run and contexts propagate; nothing is asked of the client, and
\* a backend need neither answer nor take messages.
FairSpec ==
    /\ Spec
    /\ WF_vars(Handler)
    /\ WF_vars(PumpMoves)
    /\ \A k \in Attempts : WF_vars(Canceled(k))

-----------------------------------------------------------------------------
(* Properties.                                                             *)

Codes == {"OK", "Unavailable", "ResourceExhausted", "DeadlineExceeded",
          "Internal", "Unknown", "Canceled", "InvalidArgument"}

Stream == [opened : BOOLEAN, status : Codes \cup {Live}, answered : BOOLEAN,
           md : BOOLEAN, in : Seq(1 .. MaxMsgs), eof : BOOLEAN,
           out : 0 .. MaxAnswers, taken : 0 .. MaxAnswers]

\* Types: every goroutine is at one of its points and every field in range.
TypeOK ==
    /\ client \in [sent : 0 .. MaxMsgs, read : 0 .. MaxMsgs, closed : BOOLEAN,
                   ctx : {Live, "Canceled", "DeadlineExceeded"}]
    /\ client.read <= client.sent
    /\ x \in [policy : Policies, haveFirst : BOOLEAN, sentHeader : BOOLEAN, sentMsg : BOOLEAN,
              upstreamDone : BOOLEAN, cs : Attempts \cup {None}, pumping : BOOLEAN,
              committed : BOOLEAN, halfClosed : BOOLEAN]
    /\ h \in [pc : {"pick", "first", "reserve", "install", "sendFirst", "relay", "judge", "done"},
              i : Attempts, n : 0 .. MaxCandidates, err : Codes, lastErr : Codes, setup : BOOLEAN]
    /\ p \in [pc : {"none", "recv", "commit", "send", "eof", "closing", "error", "done"},
              cs : Attempts \cup {None}]
    /\ up \in [Attempts -> Stream]
    /\ probe \in [Attempts -> {"none", "held", "success", "failure", "released", "twice"}]
    /\ count \in [attempts : 0 .. MaxCandidates, failovers : 0 .. MaxCandidates]
    /\ seen \in [header : Attempts \cup {None}, msgs : Seq(Attempts \X (1 .. MaxAnswers)),
                 trailer : Attempts \cup {None}, result : Codes \cup {Live}]

InHand == IF p.pc \in {"commit", "send"} THEN 1 ELSE 0

\* While the upstream that is being relayed is alive, it has been handed every
\* message taken off the client's stream, in order and once, but for the one
\* the pump holds; whatever retries, commits and replays came before (proxy.go,
\* mu: "makes retries honest").
NothingLost ==
    h.pc = "relay" /\ Open(h.i) => up[h.i].in = [j \in 1 .. client.read - InHand |-> j]

\* A backend told that the client has half-closed has been handed all of the
\* client's messages: a broken stream is never passed on as a complete one.
NoTruncation == \A k \in Attempts : up[k].eof => client.closed /\ Len(up[k].in) = client.sent

\* A backend is followed by another only if it was handed nothing (config.go:
\* "the request provably never reached a backend"), or, under the policy
\* "unavailable", nothing past the buffered first message (committed, checked by
\* canRetry and again by install).
AtMostOnce ==
    \A k, l \in Attempts : k < l /\ up[l].opened =>
        Len(up[k].in) <= IF x.policy = "unavailable" THEN 1 ELSE 0

\* The client hears one attempt only: its header, its answers in order and
\* without a gap, its trailer; and OK means that all of it was delivered.
OneVoice ==
    /\ \A j \in DOMAIN seen.msgs : seen.msgs[j] = <<h.i, j>>
    /\ {seen.header, seen.trailer} \subseteq {None, h.i}
    /\ seen.result = "OK" =>
         /\ up[h.i].status = "OK" /\ Len(seen.msgs) = up[h.i].out
         /\ seen.trailer = h.i
         /\ up[h.i].md => seen.header = h.i \/ client.ctx # Live

\* Every reservation is settled exactly once, before the RPC moves on: by its
\* outcome when the backend was contacted, by Release only when it was not.  Each
\* attempt but the first is one counted failover, although candidates are skipped
\* and installs refused in between (CONTRACT.md: "Every retry calls m.IncFailover
\* and info.AddAttempt()").
SettledOnce ==
    /\ TypeOK
    /\ \A k \in Attempts :
         /\ probe[k] # "twice"
         /\ probe[k] = "held" => k = h.i /\ h.pc \in {"install", "sendFirst", "relay"}
         /\ up[k].opened => probe[k] \in {"held", "success", "failure"}
    /\ h.pc = "done" /\ count.attempts > 0 => count.attempts = count.failovers + 1

\* A client that goes away, or a handler that returns, ends both goroutines of the
\* RPC wherever they wait, even while a backend takes no messages (sendDone is
\* buffered, and handle's deferred cancel ends the stream).
RPCEnds == (client.ctx # Live \/ h.pc = "done") ~> Over

\* A half-close reaches the backend being relayed, unless the RPC ends or the
\* pump waits for a backend to take a message.
HalfCloseArrives ==
    client.closed ~> (h.pc = "done" \/ (h.pc = "relay" /\ up[h.i].eof) \/ p.pc = "send")

\* Under connect-failure a backend that answered is never followed by another
\* (canRetry: "a server that answered has already seen the request").
AnsweredNotReplayed ==
    x.policy = "connect-failure" =>
        \A k, l \in Attempts : k < l /\ up[k].answered => ~up[l].opened

\* A status that a backend sent reaches the client with its trailer (run: "both
\* are forwarded on the success and the failure path alike").
TrailerForwarded ==
    h.pc = "done" /\ count.attempts > 0 /\ up[h.i].answered /\ seen.result = "InvalidArgument"
        => seen.trailer = h.i
=============================================================================
