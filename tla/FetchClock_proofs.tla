-------------------------- MODULE FetchClock_proofs --------------------------
(***************************************************************************)
(* Proofs about FetchClock, for every length of the timeouts and delays    *)
(* and every set of deadlines: the bounds that the run checks on one       *)
(* choice of numbers.                                                      *)
(*                                                                         *)
(* The properties bound the clock; what is inductive bounds the limit of   *)
(* the wait a fetch is in, by the limits of all the waits before it.       *)
(***************************************************************************)
EXTENDS FetchClock, TLAPS

Dialing == {"dial", "hello", "auth", "delay"}
Reading == {"loop", "read", "pong"}

(***************************************************************************)
(* Types.  TypeOK says that no wait is past its limit; for the hello, that *)
(* is so because an upgrade ends before the context's deadline, or was     *)
(* never begun.                                                            *)
(***************************************************************************)
TypeInv ==
    /\ TypeOK
    /\ pc \in Dialing => attempt < dialMaxAttempts
    /\ pc = "delay" => attempt > 0
    /\ pc = "acquire" => attempt = 0 /\ ~pooled /\ began = Never
    /\ pc \in Dialing => ~pooled
    /\ pc = "dial" => until <= deadline \/ until <= now
    /\ pc = "read" => until = readBy

(***************************************************************************)
(* The account of one fetch without a deadline: what the attempts before   *)
(* this one, and their delays, may have used up.                           *)
(***************************************************************************)
Used ==
    CASE attempt = 0 -> 0
      [] attempt = 1 -> 2 * HandshakeTimeout + MaxDelay
      [] OTHER       -> 4 * HandshakeTimeout + 3 * MaxDelay

BeforeFetch == IF pooled THEN 0 ELSE DialTime

TimeInv ==
    ~HasDeadline /\ began # Never =>
        /\ pc = "dial"    => until - began - stalled <= Used + HandshakeTimeout
        /\ pc = "hello"   => until - began - stalled <= Used + 2 * HandshakeTimeout
        /\ pc = "auth"    => now - began - stalled <= Used + 2 * HandshakeTimeout
        /\ pc = "delay"   => until - began - stalled <= Used
        /\ pc = "request" => now - began - stalled <= BeforeFetch
        /\ pc \in Reading => readBy - began - stalled <= BeforeFetch + FetchTimeout
        /\ now - began - stalled <= BeforeFetch + FetchTimeout

(***************************************************************************)
(* The account against the caller's deadline.                              *)
(***************************************************************************)
DeadlineInv ==
    /\ HasDeadline /\ pc \in {"dial", "hello"} => until <= deadline + stalled
    /\ pc \in Reading => readBy <= deadline
    /\ now <= deadline + stalled

(***************************************************************************)
(* The account of a cancellation.  In the delay it is noticed at once, if  *)
(* it does not come when the delay is over.                                *)
(***************************************************************************)
CancelInv ==
    ~HasDeadline =>
        /\ pc \in {"dial", "hello"} => until <= now + HandshakeTimeout
        /\ pc \in Reading => readBy <= now + FetchTimeout
        /\ canceledAt # Never =>
              LET late(t) == t - canceledAt - stalled IN
              /\ pc = "acquire" => late(now) <= 0
              /\ pc = "dial"    => late(until) <= HandshakeTimeout
              /\ pc = "hello"   => late(until) <= 2 * HandshakeTimeout
              /\ pc = "delay"   => now < until \/ late(now) <= 0
              /\ pc = "read"    => late(until) <= FetchTimeout
              /\ late(now) <= Later(2 * HandshakeTimeout, FetchTimeout)

-----------------------------------------------------------------------------
\* Every step of a fetch, of its caller and of the clock keeps TypeInv.
LEMMA TypeNext == TypeInv /\ [Next]_vars => TypeInv'
<1> SUFFICES ASSUME TypeInv, [Next]_vars
             PROVE  TypeInv'
  OBVIOUS
<1> USE ClockAssumption DEF ClockAssumption, contextVars, clockVars, Goes,
        TypeInv, TypeOK, Dialing, Waiting, Writing, Never, HasDeadline,
        CtxDone, Expired, dialMaxAttempts
<1>1. CASE AcquirePooled
  BY <1>1 DEF AcquirePooled
<1>2. CASE AcquireDials
  BY <1>2 DEF AcquireDials, Waits, DialUntil, Earlier
<1>3. CASE AcquireCanceled
  BY <1>3 DEF AcquireCanceled
<1>4. CASE AcquireRefused
  BY <1>4 DEF AcquireRefused
<1>5. CASE DialOk
  BY <1>5 DEF DialOk, Waits
<1>6. CASE HelloOk
  BY <1>6 DEF HelloOk
<1>7. CASE AuthOk
  BY <1>7 DEF AuthOk
<1>8. CASE AttemptFails
  BY <1>8 DEF AttemptFails, Waits
<1>9. CASE DelayOver
  BY <1>9 DEF DelayOver, Waits, DialUntil, Earlier
<1>10. CASE DelayCanceled
  BY <1>10 DEF DelayCanceled
<1>11. CASE Requested
  BY <1>11 DEF Requested, Earlier
<1>12. CASE CreateFails
  BY <1>12 DEF CreateFails
<1>13. CASE RequestFails
  BY <1>13 DEF RequestFails
<1>14. CASE LoopEnds
  BY <1>14 DEF LoopEnds
<1>15. CASE LoopReads
  BY <1>15 DEF LoopReads, Waits
<1>16. CASE ReadOther
  BY <1>16 DEF ReadOther
<1>17. CASE ReadHeartbeat
  BY <1>17 DEF ReadHeartbeat
<1>18. CASE PongOk
  BY <1>18 DEF PongOk
<1>19. CASE PongFails
  BY <1>19 DEF PongFails
<1>20. CASE ReadEnds
  BY <1>20 DEF ReadEnds
<1>21. CASE Deleted
  BY <1>21 DEF Deleted
<1>22. CASE Cancel
  BY <1>22 DEF Cancel
<1>23. CASE TickWait
  BY <1>23 DEF TickWait, Passes
<1>24. CASE TickQueue
  BY <1>24 DEF TickQueue, Passes
<1>25. CASE TickWrite
  BY <1>25 DEF TickWrite, Passes
<1>26. CASE Returned \/ UNCHANGED vars
  BY <1>26 DEF Returned, vars
<1> QED
  BY <1>1, <1>2, <1>3, <1>4, <1>5, <1>6, <1>7, <1>8, <1>9, <1>10, <1>11,
     <1>12, <1>13, <1>14, <1>15, <1>16, <1>17, <1>18, <1>19, <1>20, <1>21,
     <1>22, <1>23, <1>24, <1>25, <1>26 DEF Next

\* The initial states satisfy TypeInv.
LEMMA TypeInit == Init => TypeInv
<1> SUFFICES ASSUME Init
             PROVE  TypeInv
  OBVIOUS
<1>1. deadline \in 0 .. Never
  BY ClockAssumption DEF ClockAssumption, Init, Never
<1>2. pooled \in BOOLEAN /\ ~pooled
  BY DEF Init
<1>3. pc = "acquire" /\ attempt = 0 /\ began = Never
  BY DEF Init
<1>4. now \in 0 .. MaxTime /\ canceledAt \in 0 .. Never /\ began \in 0 .. Never
      /\ until \in Nat /\ readBy \in Nat
      /\ queued \in 0 .. MaxStall /\ stalled \in 0 .. MaxStall
  BY ClockAssumption DEF ClockAssumption, Init, Never
<1>5. TypeOK
  BY <1>1, <1>2, <1>3, <1>4 DEF TypeOK, Waiting, dialMaxAttempts
<1> QED
  BY <1>2, <1>3, <1>5 DEF TypeInv, Dialing

\* Every step keeps the account of a fetch without a deadline.
LEMMA TimeNext == TypeInv /\ TimeInv /\ [Next]_vars => TimeInv'
<1> SUFFICES ASSUME TypeInv, TimeInv, [Next]_vars
             PROVE  TimeInv'
  OBVIOUS
<1> USE ClockAssumption DEF ClockAssumption, contextVars, clockVars, Goes,
        TypeInv, TypeOK, Dialing, Waiting, Writing, Never, HasDeadline,
        CtxDone, Expired, dialMaxAttempts, TimeInv, Used, BeforeFetch,
        DialTime, Reading
<1>1. CASE AcquirePooled
  BY <1>1 DEF AcquirePooled
<1>2. CASE AcquireDials
  BY <1>2 DEF AcquireDials, Waits, DialUntil, Earlier
<1>3. CASE AcquireCanceled
  BY <1>3 DEF AcquireCanceled
<1>4. CASE AcquireRefused
  BY <1>4 DEF AcquireRefused
<1>5. CASE DialOk
  BY <1>5 DEF DialOk, Waits
<1>6. CASE HelloOk
  BY <1>6 DEF HelloOk
<1>7. CASE AuthOk
  BY <1>7 DEF AuthOk
<1>8. CASE AttemptFails
  BY <1>8 DEF AttemptFails, Waits
<1>9. CASE DelayOver
  BY <1>9 DEF DelayOver, Waits, DialUntil, Earlier
<1>10. CASE DelayCanceled
  BY <1>10 DEF DelayCanceled
<1>11. CASE Requested
  BY <1>11 DEF Requested, Earlier
<1>12. CASE CreateFails
  BY <1>12 DEF CreateFails
<1>13. CASE RequestFails
  BY <1>13 DEF RequestFails
<1>14. CASE LoopEnds
  BY <1>14 DEF LoopEnds
<1>15. CASE LoopReads
  BY <1>15 DEF LoopReads, Waits
<1>16. CASE ReadOther
  BY <1>16 DEF ReadOther
<1>17. CASE ReadHeartbeat
  BY <1>17 DEF ReadHeartbeat
<1>18. CASE PongOk
  BY <1>18 DEF PongOk
<1>19. CASE PongFails
  BY <1>19 DEF PongFails
<1>20. CASE ReadEnds
  BY <1>20 DEF ReadEnds
<1>21. CASE Deleted
  BY <1>21 DEF Deleted
<1>22. CASE Cancel
  BY <1>22 DEF Cancel
<1>23. CASE TickWait
  BY <1>23 DEF TickWait, Passes
<1>24. CASE TickQueue
  BY <1>24 DEF TickQueue, Passes
<1>25. CASE TickWrite
  BY <1>25 DEF TickWrite, Passes
<1>26. CASE Returned \/ UNCHANGED vars
  BY <1>26 DEF Returned, vars
<1> QED
  BY <1>1, <1>2, <1>3, <1>4, <1>5, <1>6, <1>7, <1>8, <1>9, <1>10, <1>11,
     <1>12, <1>13, <1>14, <1>15, <1>16, <1>17, <1>18, <1>19, <1>20, <1>21,
     <1>22, <1>23, <1>24, <1>25, <1>26 DEF Next

\* Every step keeps the account against the deadline.
LEMMA DeadlineNext == TypeInv /\ DeadlineInv /\ [Next]_vars => DeadlineInv'
<1> SUFFICES ASSUME TypeInv, DeadlineInv, [Next]_vars
             PROVE  DeadlineInv'
  OBVIOUS
<1> USE ClockAssumption DEF ClockAssumption, contextVars, clockVars, Goes,
        TypeInv, TypeOK, Dialing, Waiting, Writing, Never, HasDeadline,
        CtxDone, Expired, dialMaxAttempts, DeadlineInv, Reading
<1>1. CASE AcquirePooled
  BY <1>1 DEF AcquirePooled
<1>2. CASE AcquireDials
  BY <1>2 DEF AcquireDials, Waits, DialUntil, Earlier
<1>3. CASE AcquireCanceled
  BY <1>3 DEF AcquireCanceled
<1>4. CASE AcquireRefused
  BY <1>4 DEF AcquireRefused
<1>5. CASE DialOk
  BY <1>5 DEF DialOk, Waits
<1>6. CASE HelloOk
  BY <1>6 DEF HelloOk
<1>7. CASE AuthOk
  BY <1>7 DEF AuthOk
<1>8. CASE AttemptFails
  BY <1>8 DEF AttemptFails, Waits
<1>9. CASE DelayOver
  BY <1>9 DEF DelayOver, Waits, DialUntil, Earlier
<1>10. CASE DelayCanceled
  BY <1>10 DEF DelayCanceled
<1>11. CASE Requested
  BY <1>11 DEF Requested, Earlier
<1>12. CASE CreateFails
  BY <1>12 DEF CreateFails
<1>13. CASE RequestFails
  BY <1>13 DEF RequestFails
<1>14. CASE LoopEnds
  BY <1>14 DEF LoopEnds
<1>15. CASE LoopReads
  BY <1>15 DEF LoopReads, Waits
<1>16. CASE ReadOther
  BY <1>16 DEF ReadOther
<1>17. CASE ReadHeartbeat
  BY <1>17 DEF ReadHeartbeat
<1>18. CASE PongOk
  BY <1>18 DEF PongOk
<1>19. CASE PongFails
  BY <1>19 DEF PongFails
<1>20. CASE ReadEnds
  BY <1>20 DEF ReadEnds
<1>21. CASE Deleted
  BY <1>21 DEF Deleted
<1>22. CASE Cancel
  BY <1>22 DEF Cancel
<1>23. CASE TickWait
  BY <1>23 DEF TickWait, Passes
<1>24. CASE TickQueue
  BY <1>24 DEF TickQueue, Passes
<1>25. CASE TickWrite
  BY <1>25 DEF TickWrite, Passes
<1>26. CASE Returned \/ UNCHANGED vars
  BY <1>26 DEF Returned, vars
<1> QED
  BY <1>1, <1>2, <1>3, <1>4, <1>5, <1>6, <1>7, <1>8, <1>9, <1>10, <1>11,
     <1>12, <1>13, <1>14, <1>15, <1>16, <1>17, <1>18, <1>19, <1>20, <1>21,
     <1>22, <1>23, <1>24, <1>25, <1>26 DEF Next

\* Every step keeps the account of a cancellation.
LEMMA CancelNext == TypeInv /\ CancelInv /\ [Next]_vars => CancelInv'
<1> SUFFICES ASSUME TypeInv, CancelInv, [Next]_vars
             PROVE  CancelInv'
  OBVIOUS
<1> USE ClockAssumption DEF ClockAssumption, contextVars, clockVars, Goes,
        TypeInv, TypeOK, Dialing, Waiting, Writing, Never, HasDeadline,
        CtxDone, Expired, dialMaxAttempts, CancelInv, Later, Reading
<1>1. CASE AcquirePooled
  BY <1>1 DEF AcquirePooled
<1>2. CASE AcquireDials
  BY <1>2 DEF AcquireDials, Waits, DialUntil, Earlier
<1>3. CASE AcquireCanceled
  BY <1>3 DEF AcquireCanceled
<1>4. CASE AcquireRefused
  BY <1>4 DEF AcquireRefused
<1>5. CASE DialOk
  BY <1>5 DEF DialOk, Waits
<1>6. CASE HelloOk
  BY <1>6 DEF HelloOk
<1>7. CASE AuthOk
  BY <1>7 DEF AuthOk
<1>8. CASE AttemptFails
  BY <1>8 DEF AttemptFails, Waits
<1>9. CASE DelayOver
  BY <1>9 DEF DelayOver, Waits, DialUntil, Earlier
<1>10. CASE DelayCanceled
  BY <1>10 DEF DelayCanceled
<1>11. CASE Requested
  BY <1>11 DEF Requested, Earlier
<1>12. CASE CreateFails
  BY <1>12 DEF CreateFails
<1>13. CASE RequestFails
  BY <1>13 DEF RequestFails
<1>14. CASE LoopEnds
  BY <1>14 DEF LoopEnds
<1>15. CASE LoopReads
  BY <1>15 DEF LoopReads, Waits
<1>16. CASE ReadOther
  BY <1>16 DEF ReadOther
<1>17. CASE ReadHeartbeat
  BY <1>17 DEF ReadHeartbeat
<1>18. CASE PongOk
  BY <1>18 DEF PongOk
<1>19. CASE PongFails
  BY <1>19 DEF PongFails
<1>20. CASE ReadEnds
  BY <1>20 DEF ReadEnds
<1>21. CASE Deleted
  BY <1>21 DEF Deleted
<1>22. CASE Cancel
  BY <1>22 DEF Cancel
<1>23. CASE TickWait
  BY <1>23 DEF TickWait, Passes
<1>24. CASE TickQueue
  BY <1>24 DEF TickQueue, Passes
<1>25. CASE TickWrite
  BY <1>25 DEF TickWrite, Passes
<1>26. CASE Returned \/ UNCHANGED vars
  BY <1>26 DEF Returned, vars
<1> QED
  BY <1>1, <1>2, <1>3, <1>4, <1>5, <1>6, <1>7, <1>8, <1>9, <1>10, <1>11,
     <1>12, <1>13, <1>14, <1>15, <1>16, <1>17, <1>18, <1>19, <1>20, <1>21,
     <1>22, <1>23, <1>24, <1>25, <1>26 DEF Next

-----------------------------------------------------------------------------
\* Types and waits are as TypeInv says in every state.
LEMMA TypeSafe == Spec => []TypeInv
  BY TypeInit, TypeNext, PTL DEF Spec

\* Type correctness: dial makes at most three attempts, and no wait of a fetch
\* outlives its own limit, so that time never has to stop.
THEOREM ClockTypeCorrect == Spec => []TypeOK
<1>1. TypeInv => TypeOK
  BY DEF TypeInv
<1> QED
  BY <1>1, TypeSafe, PTL

\* conn.go:37-57, 89-93, 144: however the attempts of dial fail and whatever the
\* server sends, a fetch without a deadline is over in the time of its limits.
THEOREM FetchEndsInTime == Spec => []EndsInTime
<1>1. Init => TimeInv
  BY TypeInit DEF Init, TimeInv
<1>2. TypeInv /\ TimeInv => EndsInTime
  BY ClockAssumption
     DEF ClockAssumption, TypeInv, TypeOK, TimeInv, EndsInTime, BeforeFetch,
         DialTime, dialMaxAttempts, Never
<1> QED
  BY <1>1, <1>2, TimeNext, TypeSafe, PTL DEF Spec

\* conn.go:46-48, 89-90, 145-147: no handshake, hello, delay or read goes on
\* after the deadline of the caller's context, be it past from the start.
THEOREM DeadlineIsKept == Spec => []ByDeadline
<1>1. Init => DeadlineInv
  BY TypeInit DEF Init, DeadlineInv, TypeInv, TypeOK, HasDeadline, Reading
<1>2. TypeInv /\ DeadlineInv => ByDeadline
  BY DEF DeadlineInv, ByDeadline
<1> QED
  BY <1>1, <1>2, DeadlineNext, TypeSafe, PTL DEF Spec

\* conn.go:46-48, 150-154: after a cancellation a fetch goes on for one handshake
\* and its hello or one read at most, and never starts another.
THEOREM CancellationIsNoticed == Spec => []CancelNoticed
<1>1. Init => CancelInv
  BY TypeInit DEF Init, CancelInv, Reading
<1>2. TypeInv /\ CancelInv => CancelNoticed
  BY DEF CancelInv, CancelNoticed
<1> QED
  BY <1>1, <1>2, CancelNext, TypeSafe, PTL DEF Spec
=============================================================================
