--------------------------- MODULE Streamer_proofs ---------------------------
(***************************************************************************)
(* Proofs about Streamer, for any set of subscriptions, finite or not, and *)
(* any number of bars and messages in flight.                              *)
(***************************************************************************)
EXTENDS Streamer, SequenceTheorems, FiniteSetTheorems, TLAPS

States == {"none", "refused", "loop", "dial", "hello", "auth", "delay",
           "create", "resolve", "series", "top", "read", "pong", "deliver",
           "close", "failed", "backoff", "done"}

\* Where a subscription has no goroutine, where its goroutine has a websocket,
\* and where it may be when the streamer is closed.
Ended     == {"none", "refused", "done"}
Connected == {"hello", "auth", "create", "resolve", "series", "top", "read",
              "pong", "deliver", "close"}
Quiet     == {"none", "refused", "loop", "done"}

Types ==
    /\ canceled \in BOOLEAN
    /\ closer \in {"no", "waiting", "asleep", "woken", "returned", "panicked"}
    /\ pc \in [Subs -> States]
    /\ attempt \in [Subs -> 0 .. dialMaxAttempts - 1]
    /\ up \in [Subs -> BOOLEAN]
    /\ inbox \in [Subs -> Seq(Messages)]
    /\ said \in [Subs -> 0 .. MaxBars]
    /\ pending \in [Subs -> Seq(1 .. MaxBars)]
    /\ got \in [Subs -> Seq(1 .. MaxBars)]

(***************************************************************************)
(* The WaitGroup counts the goroutines.                                    *)
(***************************************************************************)
Running == {s \in Subs : pc[s] \notin Ended}

CountInv == IsFiniteSet(Running) /\ wg = Cardinality(Running)

(***************************************************************************)
(* A goroutine has its one websocket from the upgrade to the close.        *)
(***************************************************************************)
SocketInv == socks = [s \in Subs |-> IF pc[s] \in Connected THEN 1 ELSE 0]

(***************************************************************************)
(* Once Wait has been let go, no goroutine is past the top of its loop.    *)
(***************************************************************************)
CloseInv ==
    /\ closer # "no" => canceled
    /\ closer \in {"woken", "returned", "panicked"}
          => \A s \in Subs : pc[s] \in Quiet

(***************************************************************************)
(* All the bars around are in order, and the server has said them: those   *)
(* it says next come after them.  No bar outlives its connection.          *)
(***************************************************************************)
UpTo(q, n) == \A i \in DOMAIN q : q[i] <= n

Ordered(delivered, left, coming, n) ==
    /\ Increasing(delivered) /\ Increasing(left)
    /\ Precedes(delivered, left)
    /\ UpTo(delivered, n) /\ UpTo(left, n)
    /\ \A k \in DOMAIN coming :
          /\ Increasing(coming[k].bars)
          /\ Precedes(delivered, coming[k].bars)
          /\ Precedes(left, coming[k].bars)
          /\ UpTo(coming[k].bars, n)
          /\ \A l \in DOMAIN coming :
                k < l => Precedes(coming[k].bars, coming[l].bars)

OrderInv ==
    \A s \in Subs :
        /\ Ordered(got[s], pending[s], inbox[s], said[s])
        /\ pc[s] # "deliver" => pending[s] = <<>>
-----------------------------------------------------------------------------
(* Steps *)

\* An action that does nothing but move a goroutine on, and how far.
MovesOn(s) ==
    \E from, to \in States :
        /\ Moves(s, from, to)
        /\ from \in Ended <=> to \in Ended
        /\ from \in Connected <=> to \in Connected
        /\ canceled /\ from \in Quiet => to \in Quiet
        /\ to # "deliver" /\ (from = "deliver" => pending[s] = <<>>)

Step(s) ==
    \/ MovesOn(s) \/ SubscribeOk(s) \/ LoopEnds(s) \/ DialOk(s)
    \/ DialFails(s) \/ AuthOk(s) \/ HandshakeFails(s) \/ DelayCanceled(s)
    \/ ReadBeat(s) \/ ReadFrames(s) \/ Deliver(s) \/ CloseConn(s)
    \/ Break(s) \/ Push(s)

\* Actions that only move on keep to one side of every line that the
\* invariants draw.
LEMMA MovesOnly ==
    ASSUME NEW s \in Subs,
           \/ SubscribeRefused(s) \/ LoopStreams(s)
           \/ StreamFailed(s) \/ BackoffOver(s) \/ HelloOk(s)
           \/ DelayOver(s) \/ SendCreate(s) \/ SendResolve(s)
           \/ SendSeries(s) \/ SendFails(s) \/ TopStops(s)
           \/ TopReads(s) \/ ReadFails(s) \/ PongOk(s)
           \/ Delivered(s)
    PROVE  MovesOn(s)
<1> USE DEF MovesOn, States, Ended, Connected, Quiet
<1>1. CASE SubscribeRefused(s)
  BY <1>1 DEF SubscribeRefused
<1>2. CASE LoopStreams(s)
  BY <1>2 DEF LoopStreams
<1>3. CASE StreamFailed(s)
  BY <1>3 DEF StreamFailed
<1>4. CASE BackoffOver(s)
  BY <1>4 DEF BackoffOver
<1>5. CASE HelloOk(s)
  BY <1>5 DEF HelloOk
<1>6. CASE DelayOver(s)
  BY <1>6 DEF DelayOver
<1>7. CASE SendCreate(s)
  BY <1>7 DEF SendCreate
<1>8. CASE SendResolve(s)
  BY <1>8 DEF SendResolve
<1>9. CASE SendSeries(s)
  BY <1>9 DEF SendSeries
<1>10. CASE SendFails(s)
  BY <1>10 DEF SendFails
<1>11. CASE TopStops(s)
  BY <1>11 DEF TopStops
<1>12. CASE TopReads(s)
  BY <1>12 DEF TopReads
<1>13. CASE ReadFails(s)
  BY <1>13 DEF ReadFails
<1>14. CASE PongOk(s)
  BY <1>14 DEF PongOk
<1>15. CASE Delivered(s)
  BY <1>15 DEF Delivered
<1> QED
  BY <1>1, <1>2, <1>3, <1>4, <1>5, <1>6, <1>7, <1>8, <1>9, <1>10, <1>11,
     <1>12, <1>13, <1>14, <1>15

\* Whatever happens.
LEMMA Steps ==
    ASSUME [Next]_vars
    PROVE  \/ \E s \in Subs : Step(s)
           \/ Close
           \/ UNCHANGED vars
  BY MovesOnly
     DEF Next, Subscribe, Goroutine, Stream, Dial, Step

-----------------------------------------------------------------------------
(* Types *)

\* What the server says next is a message.
Said(n, m) == [i \in 1 .. m - n |-> n + i]

\* It is a message, and its bars are the next ones.
LEMMA SaidTypes ==
    ASSUME NEW n \in 0 .. MaxBars, NEW m \in n .. MaxBars, NEW b \in BOOLEAN
    PROVE  /\ Said(n, m) \in Seq(1 .. MaxBars)
           /\ [beat |-> b, bars |-> Said(n, m)] \in Messages
           /\ \A i \in DOMAIN Said(n, m) : Said(n, m)[i] = n + i /\ i \in 1 .. m - n
<1>1. m - n \in Nat
  BY StreamerAssumption DEF StreamerAssumption
<1>2. Said(n, m) \in Seq(1 .. MaxBars)
  BY <1>1, StreamerAssumption DEF Said, StreamerAssumption
<1> QED
  BY <1>2 DEF Said, Messages

\* A failed attempt is counted, up to the last one.
LEMMA AttemptTypes ==
    ASSUME Types, NEW s \in Subs, AttemptFailed(s)
    PROVE  /\ attempt' \in [Subs -> 0 .. dialMaxAttempts - 1]
           /\ pc' \in [Subs -> States]
<1>1. attempt[s] \in 0 .. 2 /\ attempt \in [Subs -> 0 .. 2] /\ dialMaxAttempts = 3
  BY DEF Types, dialMaxAttempts
<1>2. PICK to \in {"delay", "failed"} : pc' = [pc EXCEPT ![s] = to]
  BY DEF AttemptFailed, GoTo
<1>3. PICK n \in 0 .. 2 : attempt' = [attempt EXCEPT ![s] = n]
  BY <1>1 DEF AttemptFailed
<1>4. attempt' \in [Subs -> 0 .. 2]
  BY <1>1, <1>3
<1>5. pc' \in [Subs -> States]
  BY <1>2 DEF Types, States
<1> QED
  BY <1>1, <1>4, <1>5

\* Every step keeps the types.
LEMMA TypeNext == Types /\ [Next]_vars => Types'
<1> SUFFICES ASSUME Types, [Next]_vars
             PROVE  Types'
  OBVIOUS
<1> USE StreamerAssumption DEF Types, StreamerAssumption, connVars, closeVars
<1>1. ASSUME NEW s \in Subs, Step(s)
      PROVE  Types'
  <2>1. CASE MovesOn(s)
    BY <2>1 DEF MovesOn, Moves, GoTo, States
  <2>2. CASE SubscribeOk(s)
    BY <2>2 DEF SubscribeOk, GoTo, States
  <2>3. CASE LoopEnds(s)
    BY <2>3 DEF LoopEnds, GoTo, States
  <2>4. CASE DialOk(s)
    BY <2>4 DEF DialOk, GoTo, States
  <2>5. CASE DialFails(s)
    <3>1. AttemptFailed(s)
      BY <2>5 DEF DialFails
    <3>2. attempt' \in [Subs -> 0 .. dialMaxAttempts - 1] /\ pc' \in [Subs -> States]
      BY <3>1, AttemptTypes
    <3> QED
      BY <2>5, <3>2 DEF DialFails
  <2>6. CASE AuthOk(s)
    BY <2>6 DEF AuthOk, GoTo, dialMaxAttempts, States
  <2>7. CASE HandshakeFails(s)
    <3>1. AttemptFailed(s)
      BY <2>7 DEF HandshakeFails
    <3>2. attempt' \in [Subs -> 0 .. dialMaxAttempts - 1] /\ pc' \in [Subs -> States]
      BY <3>1, AttemptTypes
    <3> QED
      BY <2>7, <3>2 DEF HandshakeFails
  <2>8. CASE DelayCanceled(s)
    BY <2>8 DEF DelayCanceled, GoTo, dialMaxAttempts, States
  <2>9. CASE ReadBeat(s)
    <3>1. Tail(inbox[s]) \in Seq(Messages)
      BY <2>9, HeadTailProperties DEF ReadBeat, Reads
    <3> QED
      BY <2>9, <3>1 DEF ReadBeat, Reads, GoTo, States
  <2>10. CASE ReadFrames(s)
    <3>1. Head(inbox[s]) \in Messages /\ Tail(inbox[s]) \in Seq(Messages)
      BY <2>10, HeadTailProperties DEF ReadFrames, Reads
    <3>2. Head(inbox[s]).bars \in Seq(1 .. MaxBars)
      BY <3>1 DEF Messages
    <3> QED
      BY <2>10, <3>1, <3>2 DEF ReadFrames, Reads, GoTo, States
  <2>11. CASE Deliver(s)
    <3>1. /\ Append(got[s], Head(pending[s])) \in Seq(1 .. MaxBars)
          /\ Tail(pending[s]) \in Seq(1 .. MaxBars)
      BY <2>11, HeadTailProperties, AppendProperties DEF Deliver
    <3> QED
      BY <2>11, <3>1 DEF Deliver
  <2>12. CASE CloseConn(s)
    <3>1. <<>> \in Seq(Messages) /\ <<>> \in Seq(1 .. MaxBars)
      OBVIOUS
    <3> QED
      BY <2>12, <3>1 DEF CloseConn, GoTo, States
  <2>13. CASE Break(s)
    BY <2>13 DEF Break
  <2>14. CASE Push(s)
    <3>1. PICK b \in BOOLEAN, n \in said[s] .. MaxBars :
             /\ inbox' = [inbox EXCEPT ![s] =
                             Append(inbox[s], [beat |-> b, bars |-> Said(said[s], n)])]
             /\ said' = [said EXCEPT ![s] = n]
      BY <2>14 DEF Push, Said
    <3>2. [beat |-> b, bars |-> Said(said[s], n)] \in Messages
      BY SaidTypes
    <3>3. Append(inbox[s], [beat |-> b, bars |-> Said(said[s], n)]) \in Seq(Messages)
      BY <3>2, AppendProperties
    <3>4. inbox' \in [Subs -> Seq(Messages)]
      <4> DEFINE line == Append(inbox[s], [beat |-> b, bars |-> Said(said[s], n)])
      <4>1. inbox' = [inbox EXCEPT ![s] = line]
        BY <3>1
      <4> HIDE DEF line
      <4> QED
        BY <3>3, <4>1 DEF line
    <3>5. said' \in [Subs -> 0 .. MaxBars]
      BY <3>1
    <3>6. UNCHANGED <<canceled, closer, pc, attempt, up, pending, got>>
      BY <2>14 DEF Push
    <3> QED
      BY <3>4, <3>5, <3>6
  <2> QED
    BY <1>1, <2>1, <2>2, <2>3, <2>4, <2>5, <2>6, <2>7, <2>8, <2>9, <2>10,
       <2>11, <2>12, <2>13, <2>14 DEF Step
<1>2. CASE CloseCancels
  BY <1>2 DEF CloseCancels, CloserTo
<1>3. CASE CloseWaits
  BY <1>3 DEF CloseWaits, CloserTo
<1>4. CASE CloseWoken
  BY <1>4 DEF CloseWoken, CloserTo
<1>5. CASE UNCHANGED vars
  BY <1>5 DEF vars
<1> QED
  BY <1>1, <1>2, <1>3, <1>4, <1>5, Steps DEF Close

-----------------------------------------------------------------------------
(* The WaitGroup *)

\* A goroutine that goes on is counted as before.
LEMMA RunningKept ==
    ASSUME Types, NEW s \in Subs, NEW to, pc' = [pc EXCEPT ![s] = to],
           pc[s] \in Ended <=> to \in Ended
    PROVE  Running' = Running
  BY DEF Types, Running

\* Every step keeps the WaitGroup's count.
LEMMA CountNext == Types /\ CountInv /\ [Next]_vars => CountInv'
<1> SUFFICES ASSUME Types, CountInv, [Next]_vars
             PROVE  CountInv'
  OBVIOUS
<1> USE DEF CountInv, closeVars
<1>1. ASSUME NEW s \in Subs, Step(s)
      PROVE  CountInv'
  <2>1. CASE MovesOn(s)
    <3>1. PICK from, to \in States :
             /\ Moves(s, from, to)
             /\ from \in Ended <=> to \in Ended
      BY <2>1 DEF MovesOn
    <3> QED
      BY <3>1, RunningKept DEF Moves, GoTo
  <2>2. CASE SubscribeOk(s)
    <3>1. s \notin Running /\ Running' = Running \cup {s}
      BY <2>2 DEF SubscribeOk, GoTo, Running, Types, Ended
    <3> QED
      BY <2>2, <3>1, FS_AddElement DEF SubscribeOk
  <2>3. CASE LoopEnds(s)
    <3>1. s \in Running /\ Running' = Running \ {s}
      BY <2>3 DEF LoopEnds, GoTo, Running, Types, Ended
    <3> QED
      BY <2>3, <3>1, FS_RemoveElement DEF LoopEnds
  <2>4. CASE DialOk(s)
    <3>1. pc[s] \notin Ended /\ pc' = [pc EXCEPT ![s] = "hello"]
      BY <2>4 DEF DialOk, GoTo, Ended
    <3> QED
      BY <2>4, <3>1, RunningKept DEF DialOk, Ended
  <2>5. CASE DialFails(s)
    <3>1. pc[s] \notin Ended /\ AttemptFailed(s)
      BY <2>5 DEF DialFails, Ended
    <3>2. PICK to \in {"delay", "failed"} : pc' = [pc EXCEPT ![s] = to]
      BY <3>1 DEF AttemptFailed, GoTo
    <3> QED
      BY <2>5, <3>1, <3>2, RunningKept DEF DialFails, Ended
  <2>6. CASE AuthOk(s)
    <3>1. pc[s] \notin Ended /\ pc' = [pc EXCEPT ![s] = "create"]
      BY <2>6 DEF AuthOk, GoTo, Ended
    <3> QED
      BY <2>6, <3>1, RunningKept DEF AuthOk, Ended
  <2>7. CASE HandshakeFails(s)
    <3>1. pc[s] \notin Ended /\ AttemptFailed(s)
      BY <2>7 DEF HandshakeFails, Ended
    <3>2. PICK to \in {"delay", "failed"} : pc' = [pc EXCEPT ![s] = to]
      BY <3>1 DEF AttemptFailed, GoTo
    <3> QED
      BY <2>7, <3>1, <3>2, RunningKept DEF HandshakeFails, Ended
  <2>8. CASE DelayCanceled(s)
    <3>1. pc[s] \notin Ended /\ pc' = [pc EXCEPT ![s] = "failed"]
      BY <2>8 DEF DelayCanceled, GoTo, Ended
    <3> QED
      BY <2>8, <3>1, RunningKept DEF DelayCanceled, Ended
  <2>9. CASE ReadBeat(s)
    <3>1. pc[s] \notin Ended /\ pc' = [pc EXCEPT ![s] = "pong"]
      BY <2>9 DEF ReadBeat, GoTo, Reads, Ended
    <3> QED
      BY <2>9, <3>1, RunningKept DEF ReadBeat, Reads, Ended
  <2>10. CASE ReadFrames(s)
    <3>1. pc[s] \notin Ended /\ pc' = [pc EXCEPT ![s] = "deliver"]
      BY <2>10 DEF ReadFrames, GoTo, Reads, Ended
    <3> QED
      BY <2>10, <3>1, RunningKept DEF ReadFrames, Reads, Ended
  <2>11. CASE Deliver(s)
    BY <2>11 DEF Deliver, Running
  <2>12. CASE CloseConn(s)
    <3>1. pc[s] \notin Ended /\ pc' = [pc EXCEPT ![s] = "failed"]
      BY <2>12 DEF CloseConn, GoTo, Ended
    <3> QED
      BY <2>12, <3>1, RunningKept DEF CloseConn, Ended
  <2>13. CASE Break(s)
    BY <2>13 DEF Break, Running
  <2>14. CASE Push(s)
    BY <2>14 DEF Push, Running
  <2> QED
    BY <1>1, <2>1, <2>2, <2>3, <2>4, <2>5, <2>6, <2>7, <2>8, <2>9, <2>10,
       <2>11, <2>12, <2>13, <2>14 DEF Step
<1>2. CASE CloseCancels
  BY <1>2 DEF CloseCancels, CloserTo, Running
<1>3. CASE CloseWaits
  BY <1>3 DEF CloseWaits, CloserTo, Running
<1>4. CASE CloseWoken
  BY <1>4 DEF CloseWoken, CloserTo, Running
<1>5. CASE UNCHANGED vars
  BY <1>5 DEF vars, Running
<1> QED
  BY <1>1, <1>2, <1>3, <1>4, <1>5, Steps DEF Close

-----------------------------------------------------------------------------
(* Websockets *)

\* One is opened, or closed.
LEMMA SocketSet ==
    ASSUME Types, SocketInv, NEW s \in Subs, NEW to, NEW n,
           pc' = [pc EXCEPT ![s] = to], socks' = [socks EXCEPT ![s] = n],
           n = IF to \in Connected THEN 1 ELSE 0
    PROVE  SocketInv'
  BY DEF Types, SocketInv

\* Every step opens a websocket with its connection, or closes it.
LEMMA SocketNext == Types /\ SocketInv /\ [Next]_vars => SocketInv'
<1> SUFFICES ASSUME Types, SocketInv, [Next]_vars
             PROVE  SocketInv'
  OBVIOUS
<1> USE DEF Types, SocketInv
<1>1. ASSUME NEW s \in Subs, Step(s)
      PROVE  SocketInv'
  <2>1. CASE MovesOn(s)
    <3>1. PICK from, to \in States :
             /\ Moves(s, from, to)
             /\ from \in Connected <=> to \in Connected
      BY <2>1 DEF MovesOn
    <3> QED
      BY <3>1 DEF Moves, GoTo
  <2>2. CASE SubscribeOk(s)
    BY <2>2 DEF SubscribeOk, GoTo, Connected
  <2>3. CASE LoopEnds(s)
    BY <2>3 DEF LoopEnds, GoTo, Connected
  <2>4. CASE DialOk(s)
    <3>1. socks[s] = 0 /\ pc' = [pc EXCEPT ![s] = "hello"]
      BY <2>4 DEF DialOk, GoTo, Connected
    <3>2. /\ socks' = [socks EXCEPT ![s] = socks[s] + 1]
          /\ socks[s] + 1 = 1
      BY <2>4, <3>1 DEF DialOk
    <3> QED
      BY <3>1, <3>2, SocketSet DEF Connected
  <2>5. CASE DialFails(s)
    <3>1. PICK to \in {"delay", "failed"} : pc' = [pc EXCEPT ![s] = to]
      BY <2>5 DEF DialFails, AttemptFailed, GoTo
    <3> QED
      BY <2>5, <3>1 DEF DialFails, Connected
  <2>6. CASE AuthOk(s)
    BY <2>6 DEF AuthOk, GoTo, Connected
  <2>7. CASE HandshakeFails(s)
    <3>1. PICK to \in {"delay", "failed"} : pc' = [pc EXCEPT ![s] = to]
      BY <2>7 DEF HandshakeFails, AttemptFailed, GoTo
    <3>2. socks[s] = 1
      BY <2>7 DEF HandshakeFails, Connected
    <3>3. socks' = [socks EXCEPT ![s] = socks[s] - 1] /\ socks[s] - 1 = 0
      BY <2>7, <3>2 DEF HandshakeFails
    <3> QED
      BY <3>1, <3>3, SocketSet DEF Connected
  <2>8. CASE DelayCanceled(s)
    BY <2>8 DEF DelayCanceled, GoTo, Connected
  <2>9. CASE ReadBeat(s)
    BY <2>9 DEF ReadBeat, GoTo, Reads, Connected
  <2>10. CASE ReadFrames(s)
    BY <2>10 DEF ReadFrames, GoTo, Reads, Connected
  <2>11. CASE Deliver(s)
    BY <2>11 DEF Deliver
  <2>12. CASE CloseConn(s)
    <3>1. socks[s] = 1 /\ pc' = [pc EXCEPT ![s] = "failed"]
      BY <2>12 DEF CloseConn, GoTo, Connected
    <3>2. /\ socks' = [socks EXCEPT ![s] = socks[s] - 1]
          /\ socks[s] - 1 = 0
      BY <2>12, <3>1 DEF CloseConn
    <3> QED
      BY <3>1, <3>2, SocketSet DEF Connected
  <2>13. CASE Break(s)
    BY <2>13 DEF Break
  <2>14. CASE Push(s)
    BY <2>14 DEF Push
  <2> QED
    BY <1>1, <2>1, <2>2, <2>3, <2>4, <2>5, <2>6, <2>7, <2>8, <2>9, <2>10,
       <2>11, <2>12, <2>13, <2>14 DEF Step
<1>2. CASE CloseCancels
  BY <1>2 DEF CloseCancels, CloserTo
<1>3. CASE CloseWaits
  BY <1>3 DEF CloseWaits, CloserTo
<1>4. CASE CloseWoken
  BY <1>4 DEF CloseWoken, CloserTo
<1>5. CASE UNCHANGED vars
  BY <1>5 DEF vars
<1> QED
  BY <1>1, <1>2, <1>3, <1>4, <1>5, Steps DEF Close

-----------------------------------------------------------------------------
(* Close *)

\* The last goroutine leaves none behind.
LEMMA LastOne ==
    ASSUME CountInv, NEW s \in Running, wg = 1
    PROVE  Running = {s}
<1>1. IsFiniteSet(Running) /\ Cardinality(Running) = 1
  BY DEF CountInv
<1>2. /\ IsFiniteSet(Running \ {s})
      /\ Cardinality(Running \ {s}) = Cardinality(Running) - 1
  BY <1>1, FS_RemoveElement
<1>3. Running \ {s} = {}
  BY <1>1, <1>2, FS_EmptySet
<1> QED
  BY <1>3

\* A goroutine that is past the top of its loop shows that Close still waits.
LEMMA Unreleased ==
    ASSUME CloseInv, NEW s \in Subs, pc[s] \notin Quiet, closer' = closer,
           canceled' = canceled
    PROVE  CloseInv'
  BY DEF CloseInv

\* Every step keeps what Close has waited for.
LEMMA CloseNext == Types /\ CountInv /\ CloseInv /\ [Next]_vars => CloseInv'
<1> SUFFICES ASSUME Types, CountInv, CloseInv, [Next]_vars
             PROVE  CloseInv'
  OBVIOUS
<1> USE DEF closeVars
<1>1. ASSUME NEW s \in Subs, Step(s)
      PROVE  CloseInv'
  <2>1. CASE MovesOn(s)
    <3>1. PICK from, to \in States :
             /\ Moves(s, from, to)
             /\ canceled /\ from \in Quiet => to \in Quiet
      BY <2>1 DEF MovesOn
    <3> QED
      BY <3>1 DEF Moves, GoTo, CloseInv, Types
  <2>2. CASE SubscribeOk(s)
    BY <2>2 DEF SubscribeOk, GoTo, CloseInv, Types, Quiet
  <2>3. CASE LoopEnds(s)
    <3>1. /\ pc' = [pc EXCEPT ![s] = "done"]
          /\ canceled /\ canceled' = canceled
          /\ s \in Running
      BY <2>3 DEF LoopEnds, GoTo, Running, Ended
    <3>2. CASE closer = "asleep" /\ wg = 1
      <4>1. Running = {s}
        BY <3>1, <3>2, LastOne
      <4>2. \A r \in Subs : pc[r] \in Quiet
        BY <3>1, <4>1, <2>3 DEF Running, Ended, Quiet, LoopEnds
      <4> QED
        BY <3>1, <4>2 DEF CloseInv, Types, Quiet
    <3>3. CASE ~(closer = "asleep" /\ wg = 1)
      BY <2>3, <3>1, <3>3 DEF LoopEnds, CloseInv, Types, Quiet
    <3> QED
      BY <3>2, <3>3
  <2>4. CASE DialOk(s)
    BY <2>4, Unreleased DEF DialOk, Quiet
  <2>5. CASE DialFails(s)
    BY <2>5, Unreleased DEF DialFails, Quiet
  <2>6. CASE AuthOk(s)
    BY <2>6, Unreleased DEF AuthOk, Quiet
  <2>7. CASE HandshakeFails(s)
    BY <2>7, Unreleased DEF HandshakeFails, Quiet
  <2>8. CASE DelayCanceled(s)
    BY <2>8, Unreleased DEF DelayCanceled, Quiet
  <2>9. CASE ReadBeat(s)
    BY <2>9, Unreleased DEF ReadBeat, Quiet, Reads
  <2>10. CASE ReadFrames(s)
    BY <2>10, Unreleased DEF ReadFrames, Quiet, Reads
  <2>11. CASE Deliver(s)
    BY <2>11, Unreleased DEF Deliver, Quiet
  <2>12. CASE CloseConn(s)
    BY <2>12, Unreleased DEF CloseConn, Quiet
  <2>13. CASE Break(s)
    BY <2>13 DEF Break, CloseInv
  <2>14. CASE Push(s)
    BY <2>14 DEF Push, CloseInv
  <2> QED
    BY <1>1, <2>1, <2>2, <2>3, <2>4, <2>5, <2>6, <2>7, <2>8, <2>9, <2>10,
       <2>11, <2>12, <2>13, <2>14 DEF Step
<1>2. CASE CloseCancels
  BY <1>2 DEF CloseCancels, CloserTo, CloseInv
<1>3. CASE CloseWaits
  <2>1. wg = 0 => Running = {}
    BY FS_EmptySet DEF CountInv
  <2>2. wg = 0 => \A s \in Subs : pc[s] \in Quiet
    BY <2>1 DEF Running, Ended, Quiet
  <2> QED
    BY <1>3, <2>2 DEF CloseWaits, CloserTo, CloseInv
<1>4. CASE CloseWoken
  BY <1>4 DEF CloseWoken, CloserTo, CloseInv
<1>5. CASE UNCHANGED vars
  BY <1>5 DEF vars, CloseInv
<1> QED
  BY <1>1, <1>2, <1>3, <1>4, <1>5, Steps DEF Close

-----------------------------------------------------------------------------
(* The order of the bars *)

\* What Append leaves where.
LEMMA AppendElements ==
    ASSUME NEW S, NEW s \in Seq(S), NEW x \in S
    PROVE  /\ Append(s, x) \in Seq(S)
           /\ Len(Append(s, x)) = Len(s) + 1
           /\ \A i \in DOMAIN Append(s, x) :
                 \/ i \in DOMAIN s /\ Append(s, x)[i] = s[i]
                 \/ i = Len(s) + 1 /\ Append(s, x)[i] = x
<1>1. /\ Append(s, x) \in Seq(S)
      /\ Len(Append(s, x)) = Len(s) + 1
      /\ \A i \in 1 .. Len(s) : Append(s, x)[i] = s[i]
      /\ Append(s, x)[Len(s) + 1] = x
  BY AppendProperties
<1>2. /\ Len(s) \in Nat
      /\ DOMAIN s = 1 .. Len(s)
      /\ DOMAIN Append(s, x) = 1 .. Len(s) + 1
  BY <1>1, LenProperties
<1> QED
  BY <1>1, <1>2

\* What Tail takes off, and leaves where.
LEMMA TailElements ==
    ASSUME NEW S, NEW s \in Seq(S), s # <<>>
    PROVE  /\ 1 \in DOMAIN s /\ Head(s) = s[1] /\ Head(s) \in S
           /\ Tail(s) \in Seq(S)
           /\ Len(Tail(s)) = Len(s) - 1
           /\ \A i \in DOMAIN Tail(s) : i + 1 \in DOMAIN s /\ Tail(s)[i] = s[i + 1]
<1>1. /\ Head(s) = s[1] /\ Head(s) \in S
      /\ Tail(s) \in Seq(S)
      /\ Len(Tail(s)) = Len(s) - 1
      /\ \A i \in 1 .. Len(Tail(s)) : Tail(s)[i] = s[i + 1]
  BY HeadTailProperties, LenProperties, EmptySeq
<1>2. /\ Len(s) \in Nat \ {0}
      /\ DOMAIN s = 1 .. Len(s)
      /\ DOMAIN Tail(s) = 1 .. Len(s) - 1
  BY <1>1, LenProperties, EmptySeq
<1> QED
  BY <1>1, <1>2

Bars == Seq(1 .. MaxBars)

\* A new connection.
LEMMA OrderedNew == Ordered(<<>>, <<>>, <<>>, 0)
  BY DEF Ordered, Increasing, Precedes, UpTo

\* The first message is taken off, and lost.
LEMMA OrderedTail ==
    ASSUME NEW g \in Bars, NEW p \in Bars, NEW q \in Seq(Messages), NEW n \in Nat,
           q # <<>>, Ordered(g, p, q, n)
    PROVE  Ordered(g, p, Tail(q), n)
<1>1. \A k \in DOMAIN Tail(q) : k + 1 \in DOMAIN q /\ Tail(q)[k] = q[k + 1]
  BY TailElements
<1>2. \A k \in DOMAIN Tail(q) : k \in Nat
  BY TailElements, LenProperties
<1>3. \A k, l \in DOMAIN Tail(q) : k < l => k + 1 < l + 1
  BY <1>2
<1> QED
  BY <1>1, <1>3 DEF Ordered

\* The first message is taken off, and its bars are what is left to deliver.
LEMMA OrderedRead ==
    ASSUME NEW g \in Bars, NEW p \in Bars, NEW q \in Seq(Messages), NEW n \in Nat,
           q # <<>>, Ordered(g, p, q, n)
    PROVE  Ordered(g, Head(q).bars, Tail(q), n)
<1>1. Ordered(g, p, Tail(q), n)
  BY OrderedTail
<1>2. 1 \in DOMAIN q /\ Head(q) = q[1]
  BY TailElements
<1>3. \A k \in DOMAIN Tail(q) :
         k + 1 \in DOMAIN q /\ 1 < k + 1 /\ Tail(q)[k] = q[k + 1]
  BY TailElements, LenProperties
<1>4. \A k \in DOMAIN Tail(q) : Precedes(Head(q).bars, Tail(q)[k].bars)
  BY <1>2, <1>3 DEF Ordered
<1>5. /\ Increasing(Head(q).bars) /\ Precedes(g, Head(q).bars)
      /\ UpTo(Head(q).bars, n)
  BY <1>2 DEF Ordered
<1> QED
  BY <1>1, <1>4, <1>5 DEF Ordered

\* The first bar that is left is delivered.
LEMMA OrderedDeliver ==
    ASSUME NEW g \in Bars, NEW p \in Bars, NEW q \in Seq(Messages), NEW n \in Nat,
           p # <<>>, Ordered(g, p, q, n)
    PROVE  Ordered(Append(g, Head(p)), Tail(p), q, n)
<1> DEFINE h == Append(g, Head(p))
           t == Tail(p)
<1>1. /\ 1 \in DOMAIN p /\ Head(p) = p[1] /\ Head(p) \in 1 .. MaxBars
      /\ \A i \in DOMAIN t : i \in Nat /\ 1 <= i /\ i + 1 \in DOMAIN p /\ t[i] = p[i + 1]
  <2>1. p \in Seq(1 .. MaxBars)
    BY DEF Bars
  <2>2. /\ 1 \in DOMAIN p /\ Head(p) = p[1] /\ Head(p) \in 1 .. MaxBars
        /\ t \in Seq(1 .. MaxBars)
        /\ \A i \in DOMAIN t : i + 1 \in DOMAIN p /\ t[i] = p[i + 1]
    BY <2>1, TailElements
  <2>3. \A i \in DOMAIN t : i \in Nat /\ 1 <= i
    BY <2>2, LenProperties
  <2> QED
    BY <2>2, <2>3
<1>2. \A i \in DOMAIN h :
         \/ i \in DOMAIN g /\ h[i] = g[i]
         \/ i = Len(g) + 1 /\ h[i] = p[1]
  BY <1>1, AppendElements DEF Bars
<1>3. \A i \in DOMAIN g : i \in Nat /\ i <= Len(g)
  BY LenProperties DEF Bars
<1>4. Len(g) \in Nat
  BY LenProperties DEF Bars
<1> HIDE DEF h, t
<1>5. Increasing(h)
  BY <1>1, <1>2, <1>3, <1>4 DEF Ordered, Increasing, Precedes
<1>6. Increasing(t)
  BY <1>1 DEF Ordered, Increasing
<1>7. Precedes(h, t)
  BY <1>1, <1>2 DEF Ordered, Increasing, Precedes
<1>8. UpTo(h, n) /\ UpTo(t, n)
  BY <1>1, <1>2 DEF Ordered, UpTo
<1>9. \A k \in DOMAIN q : Precedes(h, q[k].bars) /\ Precedes(t, q[k].bars)
  BY <1>1, <1>2 DEF Ordered, Precedes
<1>10. Ordered(h, t, q, n)
  BY <1>5, <1>6, <1>7, <1>8, <1>9 DEF Ordered
<1> QED
  BY <1>10 DEF h, t

\* The server says the bars after the n-th, up to the m-th.
LEMMA OrderedPush ==
    ASSUME NEW g \in Bars, NEW p \in Bars, NEW q \in Seq(Messages),
           NEW n \in 0 .. MaxBars, NEW m \in n .. MaxBars, NEW b \in BOOLEAN,
           Ordered(g, p, q, n)
    PROVE  Ordered(g, p, Append(q, [beat |-> b, bars |-> Said(n, m)]), m)
<1> DEFINE x == [beat |-> b, bars |-> Said(n, m)]
           r == Append(q, x)
           s == Said(n, m)
<1>1. x \in Messages /\ x.bars = s
  BY SaidTypes
<1>2. \A k \in DOMAIN r :
         \/ k \in DOMAIN q /\ r[k] = q[k]
         \/ k = Len(q) + 1 /\ r[k] = x
  BY <1>1, AppendElements
<1>3. /\ Len(q) \in Nat
      /\ \A k \in DOMAIN q : k \in Nat /\ k <= Len(q)
  BY LenProperties
<1>4. \A i \in DOMAIN s : s[i] = n + i /\ i \in 1 .. m - n
  BY SaidTypes
<1>5. n \in Nat /\ m \in Nat /\ n <= m
  BY StreamerAssumption DEF StreamerAssumption
<1> HIDE DEF s
<1>6. Increasing(s) /\ UpTo(s, m)
  BY <1>4, <1>5 DEF Increasing, UpTo
<1>7. ASSUME NEW u, UpTo(u, n), \A i \in DOMAIN u : u[i] \in Int
      PROVE  Precedes(u, s) /\ UpTo(u, m)
  BY <1>4, <1>5, <1>7 DEF Precedes, UpTo
<1>8. /\ \A i \in DOMAIN g : g[i] \in Int
      /\ \A i \in DOMAIN p : p[i] \in Int
      /\ \A k \in DOMAIN q : \A i \in DOMAIN q[k].bars : q[k].bars[i] \in Int
  <2>1. \A k \in DOMAIN q : q[k] \in Messages
    OBVIOUS
  <2>2. \A k \in DOMAIN q : q[k].bars \in Bars
    BY <2>1 DEF Messages, Bars
  <2> QED
    BY <2>2, StreamerAssumption DEF Bars, StreamerAssumption
<1>9. /\ Precedes(g, s) /\ UpTo(g, m)
      /\ Precedes(p, s) /\ UpTo(p, m)
      /\ \A k \in DOMAIN q : Precedes(q[k].bars, s) /\ UpTo(q[k].bars, m)
  BY <1>7, <1>8 DEF Ordered
<1> HIDE DEF x, r
<1>10. \A k, l \in DOMAIN r : k < l => k \in DOMAIN q /\ r[k] = q[k]
  BY <1>2, <1>3
<1>11. \A k, l \in DOMAIN r : k < l => Precedes(r[k].bars, r[l].bars)
  BY <1>1, <1>2, <1>9, <1>10 DEF Ordered
<1>12. \A k \in DOMAIN r :
          /\ Increasing(r[k].bars) /\ UpTo(r[k].bars, m)
          /\ Precedes(g, r[k].bars) /\ Precedes(p, r[k].bars)
  BY <1>1, <1>2, <1>6, <1>9 DEF Ordered
<1>13. Ordered(g, p, r, m)
  BY <1>9, <1>11, <1>12 DEF Ordered
<1> QED
  BY <1>13 DEF r, x

\* Where nothing happens to the bars, and no message is at hand.
LEMMA BarsKept ==
    ASSUME Types, OrderInv, got' = got, pending' = pending, inbox' = inbox,
           said' = said,
           \A t \in Subs : pc'[t] # "deliver" => pending[t] = <<>>
    PROVE  OrderInv'
  BY DEF OrderInv

\* Where something happens to the bars of one subscription.
LEMMA BarsOf ==
    ASSUME Types, OrderInv, NEW s \in Subs,
           NEW g, NEW p, NEW q, NEW n, NEW to,
           got' = [got EXCEPT ![s] = g], pending' = [pending EXCEPT ![s] = p],
           inbox' = [inbox EXCEPT ![s] = q], said' = [said EXCEPT ![s] = n],
           pc' = [pc EXCEPT ![s] = to], to # "deliver" => p = <<>>,
           Ordered(g, p, q, n)
    PROVE  OrderInv'
<1> SUFFICES ASSUME NEW t \in Subs
             PROVE  /\ Ordered(got'[t], pending'[t], inbox'[t], said'[t])
                    /\ pc'[t] # "deliver" => pending'[t] = <<>>
  BY DEF OrderInv
<1>1. CASE t = s
  BY <1>1 DEF Types
<1>2. CASE t # s
  BY <1>2 DEF Types, OrderInv
<1> QED
  BY <1>1, <1>2

\* What a subscription has is of the types of the lemmas above.
LEMMA BarsTypes ==
    ASSUME Types, NEW s \in Subs
    PROVE  /\ got[s] \in Bars /\ pending[s] \in Bars
           /\ inbox[s] \in Seq(Messages)
           /\ said[s] \in 0 .. MaxBars /\ said[s] \in Nat
           /\ got = [got EXCEPT ![s] = got[s]]
           /\ pending = [pending EXCEPT ![s] = pending[s]]
           /\ inbox = [inbox EXCEPT ![s] = inbox[s]]
           /\ said = [said EXCEPT ![s] = said[s]]
           /\ pc = [pc EXCEPT ![s] = pc[s]]
  BY StreamerAssumption DEF Types, Bars, StreamerAssumption

\* Every step keeps the order.
LEMMA OrderNext == Types /\ OrderInv /\ [Next]_vars => OrderInv'
<1> SUFFICES ASSUME Types, OrderInv, [Next]_vars
             PROVE  OrderInv'
  OBVIOUS
<1> USE DEF connVars
<1>1. ASSUME NEW s \in Subs, Step(s)
      PROVE  OrderInv'
  <2>1. CASE MovesOn(s)
    <3>1. PICK from, to \in States :
             /\ Moves(s, from, to)
             /\ to # "deliver" /\ (from = "deliver" => pending[s] = <<>>)
      BY <2>1 DEF MovesOn
    <3>2. \A t \in Subs : pc'[t] # "deliver" => pending[t] = <<>>
      BY <3>1 DEF Moves, GoTo, Types, OrderInv
    <3> QED
      BY <3>1, <3>2, BarsKept DEF Moves
  <2>2. CASE SubscribeOk(s)
    <3>1. \A t \in Subs : pc'[t] # "deliver" => pending[t] = <<>>
      BY <2>2 DEF SubscribeOk, GoTo, Types, OrderInv
    <3> QED
      BY <2>2, <3>1, BarsKept DEF SubscribeOk
  <2>3. CASE LoopEnds(s)
    <3>1. \A t \in Subs : pc'[t] # "deliver" => pending[t] = <<>>
      BY <2>3 DEF LoopEnds, GoTo, Types, OrderInv
    <3> QED
      BY <2>3, <3>1, BarsKept DEF LoopEnds
  <2>4. CASE DialOk(s)
    <3>1. \A t \in Subs : pc'[t] # "deliver" => pending[t] = <<>>
      BY <2>4 DEF DialOk, GoTo, Types, OrderInv
    <3> QED
      BY <2>4, <3>1, BarsKept DEF DialOk
  <2>5. CASE DialFails(s)
    <3>1. PICK to \in {"delay", "failed"} : pc' = [pc EXCEPT ![s] = to]
      BY <2>5 DEF DialFails, AttemptFailed, GoTo
    <3>2. \A t \in Subs : pc'[t] # "deliver" => pending[t] = <<>>
      BY <2>5, <3>1 DEF DialFails, Types, OrderInv
    <3> QED
      BY <2>5, <3>2, BarsKept DEF DialFails
  <2>6. CASE AuthOk(s)
    <3>1. \A t \in Subs : pc'[t] # "deliver" => pending[t] = <<>>
      BY <2>6 DEF AuthOk, GoTo, Types, OrderInv
    <3> QED
      BY <2>6, <3>1, BarsKept DEF AuthOk
  <2>7. CASE HandshakeFails(s)
    <3>1. PICK to \in {"delay", "failed"} : pc' = [pc EXCEPT ![s] = to]
      BY <2>7 DEF HandshakeFails, AttemptFailed, GoTo
    <3>2. \A t \in Subs : pc'[t] # "deliver" => pending[t] = <<>>
      BY <2>7, <3>1 DEF HandshakeFails, Types, OrderInv
    <3> QED
      BY <2>7, <3>2, BarsKept DEF HandshakeFails
  <2>8. CASE DelayCanceled(s)
    <3>1. \A t \in Subs : pc'[t] # "deliver" => pending[t] = <<>>
      BY <2>8 DEF DelayCanceled, GoTo, Types, OrderInv
    <3> QED
      BY <2>8, <3>1, BarsKept DEF DelayCanceled
  <2>9. CASE ReadBeat(s)
    <3>1. /\ Ordered(got[s], pending[s], inbox[s], said[s])
          /\ pc[s] # "deliver" => pending[s] = <<>>
      BY DEF OrderInv
    <3>2. Ordered(got[s], pending[s], Tail(inbox[s]), said[s])
      BY <2>9, <3>1, BarsTypes, OrderedTail DEF ReadBeat, Reads
    <3>3. pending[s] = <<>>
      BY <2>9, <3>1 DEF ReadBeat, Reads
    <3>4. /\ got' = [got EXCEPT ![s] = got[s]]
          /\ pending' = [pending EXCEPT ![s] = pending[s]]
          /\ inbox' = [inbox EXCEPT ![s] = Tail(inbox[s])]
          /\ said' = [said EXCEPT ![s] = said[s]]
          /\ pc' = [pc EXCEPT ![s] = "pong"]
      BY <2>9, BarsTypes DEF ReadBeat, Reads, GoTo
    <3> QED
      BY <3>2, <3>3, <3>4, BarsOf
  <2>10. CASE ReadFrames(s)
    <3>1. /\ Ordered(got[s], pending[s], inbox[s], said[s])
          /\ pc[s] # "deliver" => pending[s] = <<>>
      BY DEF OrderInv
    <3>2. Ordered(got[s], Head(inbox[s]).bars, Tail(inbox[s]), said[s])
      BY <2>10, <3>1, BarsTypes, OrderedRead DEF ReadFrames, Reads
    <3>3. /\ got' = [got EXCEPT ![s] = got[s]]
          /\ pending' = [pending EXCEPT ![s] = Head(inbox[s]).bars]
          /\ inbox' = [inbox EXCEPT ![s] = Tail(inbox[s])]
          /\ said' = [said EXCEPT ![s] = said[s]]
          /\ pc' = [pc EXCEPT ![s] = "deliver"]
      BY <2>10, BarsTypes DEF ReadFrames, Reads, GoTo
    <3> QED
      BY <3>2, <3>3, BarsOf
  <2>11. CASE Deliver(s)
    <3>1. /\ Ordered(got[s], pending[s], inbox[s], said[s])
          /\ pc[s] # "deliver" => pending[s] = <<>>
      BY DEF OrderInv
    <3>2. Ordered(Append(got[s], Head(pending[s])), Tail(pending[s]), inbox[s], said[s])
      BY <2>11, <3>1, BarsTypes, OrderedDeliver DEF Deliver
    <3>3. /\ got' = [got EXCEPT ![s] = Append(got[s], Head(pending[s]))]
          /\ pending' = [pending EXCEPT ![s] = Tail(pending[s])]
          /\ inbox' = [inbox EXCEPT ![s] = inbox[s]]
          /\ said' = [said EXCEPT ![s] = said[s]]
          /\ pc' = [pc EXCEPT ![s] = "deliver"]
      BY <2>11, BarsTypes DEF Deliver
    <3> QED
      BY <3>2, <3>3, BarsOf
  <2>12. CASE CloseConn(s)
    <3>1. pending[s] = <<>>
      BY <2>12 DEF CloseConn, OrderInv
    <3> QED
      BY <2>12, <3>1, OrderedNew, BarsTypes, BarsOf DEF CloseConn, GoTo
  <2>13. CASE Break(s)
    BY <2>13, BarsKept DEF Break, OrderInv
  <2>14. CASE Push(s)
    <3>1. /\ Ordered(got[s], pending[s], inbox[s], said[s])
          /\ pc[s] # "deliver" => pending[s] = <<>>
      BY DEF OrderInv
    <3>2. PICK b \in BOOLEAN, n \in said[s] .. MaxBars :
             /\ inbox' = [inbox EXCEPT ![s] =
                             Append(inbox[s], [beat |-> b, bars |-> Said(said[s], n)])]
             /\ said' = [said EXCEPT ![s] = n]
      BY <2>14 DEF Push, Said
    <3>3. Ordered(got[s], pending[s],
                  Append(inbox[s], [beat |-> b, bars |-> Said(said[s], n)]), n)
      BY <3>1, BarsTypes, OrderedPush
    <3>4. /\ got' = [got EXCEPT ![s] = got[s]]
          /\ pending' = [pending EXCEPT ![s] = pending[s]]
          /\ inbox' = [inbox EXCEPT ![s] = 
                         Append(inbox[s], [beat |-> b, bars |-> Said(said[s], n)])]
          /\ said' = [said EXCEPT ![s] = n]
          /\ pc' = [pc EXCEPT ![s] = pc[s]]
      BY <2>14, <3>2, BarsTypes DEF Push
    <3> QED
      BY <3>1, <3>3, <3>4, BarsOf
  <2> QED
    BY <1>1, <2>1, <2>2, <2>3, <2>4, <2>5, <2>6, <2>7, <2>8, <2>9, <2>10,
       <2>11, <2>12, <2>13, <2>14 DEF Step
<1>2. CASE CloseCancels
  BY <1>2, BarsKept DEF CloseCancels, CloserTo, OrderInv
<1>3. CASE CloseWaits
  BY <1>3, BarsKept DEF CloseWaits, CloserTo, OrderInv
<1>4. CASE CloseWoken
  BY <1>4, BarsKept DEF CloseWoken, CloserTo, OrderInv
<1>5. CASE UNCHANGED vars
  BY <1>5, BarsKept DEF vars, OrderInv
<1> QED
  BY <1>1, <1>2, <1>3, <1>4, <1>5, Steps DEF Close

-----------------------------------------------------------------------------
(* Theorems *)

Inv == Types /\ CountInv /\ SocketInv /\ CloseInv /\ OrderInv

\* A new streamer.
LEMMA InitInv == Init => Inv
<1> SUFFICES ASSUME Init
             PROVE  Inv
  OBVIOUS
<1> USE StreamerAssumption DEF StreamerAssumption, Init
<1>1. Types
  <2>1. <<>> \in Seq(Messages) /\ <<>> \in Seq(1 .. MaxBars)
    OBVIOUS
  <2>2. 0 \in 0 .. dialMaxAttempts - 1 /\ 0 \in 0 .. MaxBars
    BY DEF dialMaxAttempts
  <2> QED
    BY <2>1, <2>2 DEF Types, States
<1>2. CountInv
  <2>1. Running = {}
    BY DEF Running, Ended
  <2> QED
    BY <2>1, FS_EmptySet DEF CountInv
<1>3. SocketInv
  BY DEF SocketInv, Connected
<1>4. CloseInv
  BY DEF CloseInv
<1>5. OrderInv
  BY OrderedNew DEF OrderInv
<1> QED
  BY <1>1, <1>2, <1>3, <1>4, <1>5 DEF Inv

\* The parts of Inv, together, are inductive.
LEMMA Invariant == Spec => []Inv
<1>1. Inv /\ [Next]_vars => Inv'
  BY TypeNext, CountNext, SocketNext, CloseNext, OrderNext DEF Inv
<1> QED
  BY InitInv, <1>1, PTL DEF Spec

\* Every variable has its type; in particular no goroutine is taken off the
\* WaitGroup that was not added to it, and no dial goes on to a fourth attempt.
THEOREM StreamerTypeCorrect == Spec => []TypeOK
<1>1. Inv => TypeOK
  <2> SUFFICES ASSUME Inv
               PROVE  TypeOK
    OBVIOUS
  <2>1. wg \in Nat
    BY FS_CardinalityType DEF Inv, CountInv
  <2>2. socks \in [Subs -> Nat]
    BY DEF Inv, SocketInv
  <2> QED
    BY <2>1, <2>2 DEF Inv, Types, TypeOK, States
<1> QED
  BY <1>1, Invariant, PTL

\* dialOnce and stream: whatever fails, a subscription never has two
\* websockets, and none is left when it waits, ends, or Close has returned.
THEOREM SocketsAreClosed == Spec => []NoSocketLeft
<1>1. Inv => NoSocketLeft
  <2> SUFFICES ASSUME Inv, NEW s \in Subs
               PROVE  /\ socks[s] <= 1
                      /\ pc[s] \in {"loop", "dial", "delay", "failed", "backoff", "done"}
                            => socks[s] = 0
                      /\ closer = "returned" => socks[s] = 0
    BY DEF NoSocketLeft
  <2>1. socks[s] = IF pc[s] \in Connected THEN 1 ELSE 0
    BY DEF Inv, SocketInv
  <2>2. closer = "returned" => pc[s] \in Quiet
    BY DEF Inv, CloseInv
  <2> QED
    BY <2>1, <2>2 DEF Connected, Quiet
<1> QED
  BY <1>1, Invariant, PTL

\* stream: onCandle gets the bars of a connection in the server's order, and
\* none of them twice.
THEOREM BarsInOrder == Spec => []DeliveredInOrder
<1>1. Inv => DeliveredInOrder
  BY DEF Inv, OrderInv, Ordered, DeliveredInOrder
<1> QED
  BY <1>1, Invariant, PTL

\* Streamer.Close: once it has returned, no bar is delivered and no websocket
\* is opened, for whatever subscriptions came before or come after it.
THEOREM CloseEndsAll == Spec => CloseIsFinal
<1>1. Inv /\ [Next]_vars => (closer = "returned" => UNCHANGED <<got, socks>>)
  <2> SUFFICES ASSUME Inv, [Next]_vars, closer = "returned"
               PROVE  UNCHANGED <<got, socks>>
    OBVIOUS
  <2>1. \A s \in Subs : pc[s] \in Quiet
    BY DEF Inv, CloseInv
  <2>2. ASSUME NEW s \in Subs, Step(s)
        PROVE  UNCHANGED <<got, socks>>
    <3>1. MovesOn(s) => UNCHANGED <<got, socks>>
      BY DEF MovesOn, Moves, connVars
    <3>2. SubscribeOk(s) \/ LoopEnds(s) \/ Break(s) \/ Push(s)
             => UNCHANGED <<got, socks>>
      BY DEF SubscribeOk, LoopEnds, Break, Push, connVars
    <3>3. ~DialOk(s) /\ ~DialFails(s) /\ ~AuthOk(s) /\ ~HandshakeFails(s)
      BY <2>1 DEF DialOk, DialFails, AuthOk, HandshakeFails, Quiet
    <3>4. ~DelayCanceled(s) /\ ~ReadBeat(s) /\ ~ReadFrames(s)
      BY <2>1 DEF DelayCanceled, ReadBeat, ReadFrames, Reads, Quiet
    <3>5. ~Deliver(s) /\ ~CloseConn(s)
      BY <2>1 DEF Deliver, CloseConn, Quiet
    <3> QED
      BY <2>2, <3>1, <3>2, <3>3, <3>4, <3>5 DEF Step
  <2>3. Close => UNCHANGED <<got, socks>>
    BY DEF Close, CloseCancels, CloseWaits, CloseWoken, CloserTo, connVars
  <2>4. UNCHANGED vars => UNCHANGED <<got, socks>>
    BY DEF vars, connVars
  <2> QED
    BY <2>2, <2>3, <2>4, Steps
<1> QED
  BY <1>1, Invariant, PTL DEF Spec, CloseIsFinal
=============================================================================
