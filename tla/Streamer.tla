------------------------------ MODULE Streamer ------------------------------
(***************************************************************************)
(* The Streamer of stream.go: any number of subscriptions, each a          *)
(* goroutine that dials a websocket of its own, subscribes and hands every *)
(* bar to a callback, dials again when the stream breaks, and ends when    *)
(* Close cancels the context and waits for it.  The dial of conn.go, with  *)
(* its attempts and its handshake, is part of it.                          *)
(*                                                                         *)
(* A message of the server is a batch: with a heartbeat in it or not, and  *)
(* with the next few bars.  Bars are numbered as the server sends them on  *)
(* one connection.  A message without either stands for every frame that   *)
(* stream skips, the errors of the session among them.                     *)
(***************************************************************************)
EXTENDS Integers, SequencesExt

CONSTANTS Subs,      \* the calls of Subscribe
          MaxBars,   \* bound of the bars sent on one connection
          MaxInbox   \* bound of the messages in flight on one connection

ASSUME StreamerAssumption == MaxBars \in Nat /\ MaxInbox \in Nat

VARIABLES
    canceled,  \* s.ctx is done
    wg,        \* the counter of s.wg
    closer,    \* where the one call of Close is
    pc,        \* where a subscription is in Subscribe, stream and dial
    attempt,   \* attempts of its dial that failed
    socks,     \* websockets it has open
    up,        \* its link still carries messages
    inbox,     \* messages in flight to it
    said,      \* bars the server sent on its connection
    pending,   \* bars of the message at hand that are still to be delivered
    got        \* history: the bars delivered from this connection

connVars  == <<up, inbox, said, pending, got>>
closeVars == <<canceled, wg, closer>>
vars == <<closeVars, pc, attempt, socks, connVars>>

dialMaxAttempts == 3

Messages == [beat : BOOLEAN, bars : Seq(1 .. MaxBars)]

Init ==
    /\ canceled = FALSE
    /\ wg = 0
    /\ closer = "no"
    /\ pc = [s \in Subs |-> "none"]
    /\ attempt = [s \in Subs |-> 0]
    /\ socks = [s \in Subs |-> 0]
    /\ up = [s \in Subs |-> FALSE]
    /\ inbox = [s \in Subs |-> <<>>]
    /\ said = [s \in Subs |-> 0]
    /\ pending = [s \in Subs |-> <<>>]
    /\ got = [s \in Subs |-> <<>>]

GoTo(s, to) == pc' = [pc EXCEPT ![s] = to]

\* A step that only moves on.
Moves(s, from, to) ==
    /\ pc[s] = from
    /\ GoTo(s, to)
    /\ UNCHANGED <<closeVars, attempt, socks, connVars>>

-----------------------------------------------------------------------------
(* Subscribe, and the loop of its goroutine *)

\* An empty symbol, or an unknown resolution.
SubscribeRefused(s) == Moves(s, "none", "refused")

SubscribeOk(s) ==
    /\ pc[s] = "none"
    /\ wg' = wg + 1
    /\ GoTo(s, "loop")
    /\ UNCHANGED <<canceled, closer, attempt, socks, connVars>>

Subscribe(s) == SubscribeRefused(s) \/ SubscribeOk(s)

LoopStreams(s) ==
    /\ ~canceled
    /\ Moves(s, "loop", "dial")

\* wg.Done; the last one wakes up Close.
LoopEnds(s) ==
    /\ pc[s] = "loop"
    /\ canceled
    /\ wg' = wg - 1
    /\ closer' = IF closer = "asleep" /\ wg = 1 THEN "woken" ELSE closer
    /\ GoTo(s, "done")
    /\ UNCHANGED <<canceled, attempt, socks, connVars>>

\* Mutant of StreamFailed: the subscription ends with its stream.
StreamFailed_GivesUp(s) ==
    /\ pc[s] = "failed"
    /\ wg' = wg - 1
    /\ closer' = IF closer = "asleep" /\ wg = 1 THEN "woken" ELSE closer
    /\ GoTo(s, "done")
    /\ UNCHANGED <<canceled, attempt, socks, connVars>>

\* stream has returned: always with an error.
StreamFailed(s) == Moves(s, "failed", IF canceled THEN "loop" ELSE "backoff")

\* After 3 s, or when ctx is done.
BackoffOver(s) == Moves(s, "backoff", "loop")

-----------------------------------------------------------------------------
(* dial, dialOnce and authenticate *)

DialOk(s) ==
    /\ pc[s] = "dial"
    /\ ~canceled
    /\ GoTo(s, "hello")
    /\ socks' = [socks EXCEPT ![s] = @ + 1]
    /\ up' = [up EXCEPT ![s] = TRUE]
    /\ UNCHANGED <<closeVars, attempt, inbox, said, pending, got>>

\* Mutant of AttemptFailed: for attempt := 0; attempt <= dialMaxAttempts.
AttemptFailed_OneMore(s) ==
    IF attempt[s] < dialMaxAttempts
    THEN /\ attempt' = [attempt EXCEPT ![s] = @ + 1]
         /\ GoTo(s, "delay")
    ELSE /\ attempt' = [attempt EXCEPT ![s] = 0]
         /\ GoTo(s, "failed")

\* dialOnce failed, for the last time or not.
AttemptFailed(s) ==
    IF attempt[s] + 1 < dialMaxAttempts
    THEN /\ attempt' = [attempt EXCEPT ![s] = @ + 1]
         /\ GoTo(s, "delay")
    ELSE /\ attempt' = [attempt EXCEPT ![s] = 0]
         /\ GoTo(s, "failed")

DialFails(s) ==
    /\ pc[s] = "dial"
    /\ AttemptFailed(s)
    /\ UNCHANGED <<closeVars, socks, connVars>>

HelloOk(s) == Moves(s, "hello", "auth")

AuthOk(s) ==
    /\ pc[s] = "auth"
    /\ attempt' = [attempt EXCEPT ![s] = 0]
    /\ GoTo(s, "create")
    /\ UNCHANGED <<closeVars, socks, connVars>>

\* Mutant of HandshakeFails: without the ws.Close of dialOnce.
HandshakeFails_Open(s) ==
    /\ pc[s] = "hello" \/ (pc[s] = "auth" /\ ~up[s])
    /\ up' = [up EXCEPT ![s] = FALSE]
    /\ AttemptFailed(s)
    /\ UNCHANGED <<closeVars, socks, inbox, said, pending, got>>

\* No hello within HandshakeTimeout, something else in its place, or a link
\* that breaks.
HandshakeFails(s) ==
    /\ pc[s] = "hello" \/ (pc[s] = "auth" /\ ~up[s])
    /\ socks' = [socks EXCEPT ![s] = @ - 1]
    /\ up' = [up EXCEPT ![s] = FALSE]
    /\ AttemptFailed(s)
    /\ UNCHANGED <<closeVars, inbox, said, pending, got>>

DelayOver(s) == Moves(s, "delay", "dial")

DelayCanceled(s) ==
    /\ pc[s] = "delay"
    /\ canceled
    /\ attempt' = [attempt EXCEPT ![s] = 0]
    /\ GoTo(s, "failed")
    /\ UNCHANGED <<closeVars, socks, connVars>>

Dial(s) ==
    \/ DialOk(s) \/ DialFails(s)
    \/ HelloOk(s) \/ AuthOk(s) \/ HandshakeFails(s)
    \/ DelayOver(s) \/ DelayCanceled(s)

-----------------------------------------------------------------------------
(* stream, with a conn *)

SendCreate(s)  == Moves(s, "create", "resolve")
SendResolve(s) == Moves(s, "resolve", "series")
SendSeries(s)  == Moves(s, "series", "top")

\* Of one of the three requests, or of a pong.
SendFails(s) ==
    /\ ~up[s]
    /\ \E from \in {"create", "resolve", "series", "pong"} :
          Moves(s, from, "close")

\* Mutant of TopStops: for { ... } in place of for ctx.Err() == nil.
TopStops_Never(s) == canceled /\ Moves(s, "top", "read")

TopStops(s) == canceled /\ Moves(s, "top", "close")
TopReads(s) == ~canceled /\ Moves(s, "top", "read")

Reads(s) ==
    /\ pc[s] = "read"
    /\ inbox[s] # <<>>
    /\ inbox' = [inbox EXCEPT ![s] = Tail(@)]
    /\ UNCHANGED <<closeVars, attempt, socks, up, said, got>>

\* The rest of a batch with a heartbeat in it is not decoded.
ReadBeat(s) ==
    /\ Reads(s)
    /\ Head(inbox[s]).beat
    /\ GoTo(s, "pong")
    /\ UNCHANGED pending

ReadFrames(s) ==
    /\ Reads(s)
    /\ ~Head(inbox[s]).beat
    /\ pending' = [pending EXCEPT ![s] = Head(inbox[s]).bars]
    /\ GoTo(s, "deliver")

\* 60 s without a message, or the link.  Close does not interrupt a read.
ReadFails(s) ==
    /\ inbox[s] = <<>> \/ ~up[s]
    /\ Moves(s, "read", "close")

PongOk(s) == Moves(s, "pong", "top")

\* Mutant of Deliver: go onCandle(candle).
Deliver_Concurrently(s) ==
    /\ pc[s] = "deliver"
    /\ \E i \in DOMAIN pending[s] :
          /\ got' = [got EXCEPT ![s] = Append(@, pending[s][i])]
          /\ pending' = [pending EXCEPT ![s] = RemoveAt(@, i)]
    /\ UNCHANGED <<closeVars, pc, attempt, socks, up, inbox, said>>

\* One call of onCandle: ctx is not looked at between the bars of a message.
Deliver(s) ==
    /\ pc[s] = "deliver"
    /\ pending[s] # <<>>
    /\ got' = [got EXCEPT ![s] = Append(@, Head(pending[s]))]
    /\ pending' = [pending EXCEPT ![s] = Tail(@)]
    /\ UNCHANGED <<closeVars, pc, attempt, socks, up, inbox, said>>

Delivered(s) == pending[s] = <<>> /\ Moves(s, "deliver", "top")

\* The deferred c.close().
CloseConn(s) ==
    /\ pc[s] = "close"
    /\ socks' = [socks EXCEPT ![s] = @ - 1]
    /\ up' = [up EXCEPT ![s] = FALSE]
    /\ inbox' = [inbox EXCEPT ![s] = <<>>]
    /\ said' = [said EXCEPT ![s] = 0]
    /\ got' = [got EXCEPT ![s] = <<>>]
    /\ GoTo(s, "failed")
    /\ UNCHANGED <<closeVars, attempt, pending>>

Stream(s) ==
    \/ Dial(s)
    \/ SendCreate(s) \/ SendResolve(s) \/ SendSeries(s) \/ SendFails(s)
    \/ TopStops(s) \/ TopReads(s)
    \/ ReadBeat(s) \/ ReadFrames(s) \/ ReadFails(s)
    \/ PongOk(s) \/ Deliver(s) \/ Delivered(s)
    \/ CloseConn(s)

Goroutine(s) ==
    \/ LoopStreams(s) \/ LoopEnds(s)
    \/ Stream(s)
    \/ StreamFailed(s) \/ BackoffOver(s)

-----------------------------------------------------------------------------
(* Close: cancel, then the Wait of a sync.WaitGroup *)

CloserTo(to) ==
    /\ closer' = to
    /\ UNCHANGED <<wg, pc, attempt, socks, connVars>>

CloseCancels ==
    /\ closer = "no"
    /\ canceled' = TRUE
    /\ CloserTo("waiting")

\* Mutant of CloseWaits: without wg.Wait.
CloseWaits_Not ==
    /\ closer = "waiting"
    /\ CloserTo("returned")
    /\ UNCHANGED canceled

CloseWaits ==
    /\ closer = "waiting"
    /\ CloserTo(IF wg = 0 THEN "returned" ELSE "asleep")
    /\ UNCHANGED canceled

\* A WaitGroup that is used again before its Wait has returned panics, and a
\* Subscribe may do that.  The caller of Close may recover.
CloseWoken ==
    /\ closer = "woken"
    /\ CloserTo(IF wg = 0 THEN "returned" ELSE "panicked")
    /\ UNCHANGED canceled

Close == CloseCancels \/ CloseWaits \/ CloseWoken

-----------------------------------------------------------------------------
(* The link and the server *)

Break(s) ==
    /\ up[s]
    /\ up' = [up EXCEPT ![s] = FALSE]
    /\ UNCHANGED <<closeVars, pc, attempt, socks, inbox, said, pending, got>>

\* The server answers create_series: heartbeats without end, and the next bars.
Push(s) ==
    /\ up[s]
    /\ pc[s] \in {"top", "read", "pong", "deliver"}
    /\ Len(inbox[s]) < MaxInbox
    /\ \E b \in BOOLEAN, n \in said[s] .. MaxBars :
          /\ inbox' = [inbox EXCEPT ![s] = Append(@,
                [beat |-> b, bars |-> [i \in 1 .. n - said[s] |-> said[s] + i]])]
          /\ said' = [said EXCEPT ![s] = n]
    /\ UNCHANGED <<closeVars, pc, attempt, socks, up, pending, got>>

-----------------------------------------------------------------------------

Next ==
    \/ \E s \in Subs : Subscribe(s) \/ Goroutine(s) \/ Break(s) \/ Push(s)
    \/ Close

Spec == Init /\ [][Next]_vars

\* The goroutines and the call of Close run, onCandle returns, and every read,
\* dial and wait has its timeout.
Fairness ==
    /\ \A s \in Subs : WF_vars(Goroutine(s))
    /\ WF_vars(CloseWaits \/ CloseWoken)

FairSpec == Spec /\ Fairness

-----------------------------------------------------------------------------
(* Properties *)

TypeOK ==
    /\ canceled \in BOOLEAN
    /\ wg \in Nat
    /\ closer \in {"no", "waiting", "asleep", "woken", "returned", "panicked"}
    /\ pc \in [Subs -> {"none", "refused", "loop", "dial", "hello", "auth", "delay",
                        "create", "resolve", "series", "top", "read", "pong",
                        "deliver", "close", "failed", "backoff", "done"}]
    /\ attempt \in [Subs -> 0 .. dialMaxAttempts - 1]
    /\ socks \in [Subs -> Nat]
    /\ up \in [Subs -> BOOLEAN]
    /\ inbox \in [Subs -> Seq(Messages)]
    /\ said \in [Subs -> 0 .. MaxBars]
    /\ pending \in [Subs -> Seq(1 .. MaxBars)]
    /\ got \in [Subs -> Seq(1 .. MaxBars)]

\* dialOnce and stream close what they opened on every path: a subscription
\* never has two websockets, and has none while it waits to dial again, once it
\* has ended, and once Close has returned.
NoSocketLeft ==
    \A s \in Subs :
        /\ socks[s] <= 1
        /\ pc[s] \in {"loop", "dial", "delay", "failed", "backoff", "done"}
              => socks[s] = 0
        /\ closer = "returned" => socks[s] = 0

Increasing(q) == \A i, j \in DOMAIN q : i < j => q[i] < q[j]

Precedes(p, q) == \A i \in DOMAIN p, j \in DOMAIN q : p[i] < q[j]

\* stream.go:113-119: whatever batches the bars of a connection come in, and
\* whatever is lost with a heartbeat, onCandle gets them in the server's order
\* and none of them twice: what was delivered, what is left of the message at
\* hand and the messages in flight, put together, go up.
DeliveredInOrder ==
    \A s \in Subs :
        /\ Increasing(got[s]) /\ Increasing(pending[s])
        /\ Precedes(got[s], pending[s])
        /\ \A k \in DOMAIN inbox[s] :
              /\ Increasing(inbox[s][k].bars)
              /\ Precedes(got[s], inbox[s][k].bars)
              /\ Precedes(pending[s], inbox[s][k].bars)
              /\ \A l \in DOMAIN inbox[s] :
                    k < l => Precedes(inbox[s][k].bars, inbox[s][l].bars)

\* stream.go:54-57: once Close has returned, onCandle is not called and no
\* websocket is opened, even for a Subscribe that comes later.
CloseIsFinal ==
    [][closer = "returned" => UNCHANGED <<got, socks>>]_vars

\* Close returns, whatever the subscriptions are doing, unless the WaitGroup
\* panics.
CloseReturns == closer = "waiting" ~> closer \in {"returned", "panicked"}

\* stream.go:42-50: a stream that failed is dialed again, as long as the
\* Streamer is not closed.
KeepsStreaming ==
    \A s \in Subs : pc[s] = "failed" ~> pc[s] = "dial" \/ canceled
=============================================================================
