----------------------------- MODULE FetchClock -----------------------------
(***************************************************************************)
(* One fetchOnce with a clock: client.go:115-127 with pool.acquire, dial,  *)
(* authenticate and fetchSeries.  What ends each wait, and how long the    *)
(* call can take.                                                          *)
(*                                                                         *)
(* Time passes only in a wait, and only as far as the wait's own limit     *)
(* lets it (`until').  Two kinds of wait have no limit: the queue for a    *)
(* permit, which is the other fetches' time, and a write to a peer that    *)
(* does not read, for writes have no deadline.  Both are clocked apart.    *)
(***************************************************************************)
EXTENDS Integers

CONSTANTS HandshakeTimeout, FetchTimeout,   \* of Config
          MinDelay, MaxDelay,                 \* of 50 + rand.Intn(200)
          Deadlines,  \* deadlines the caller's context may have
          MaxStall,   \* bound of the time spent in writes, and in the queue
          MaxTime     \* bound of the clock

ASSUME ClockAssumption ==
    /\ HandshakeTimeout \in Nat \ {0}
    /\ FetchTimeout \in Nat \ {0}
    /\ MinDelay \in Nat \ {0} /\ MaxDelay \in Nat \ {0}
    /\ MinDelay <= MaxDelay
    /\ Deadlines \subseteq 0 .. MaxTime
    /\ MaxStall \in Nat /\ MaxTime \in Nat

dialMaxAttempts == 3

\* No time of the model is as late as this.
Never == MaxTime + 1

VARIABLES
    pc,
    now,
    deadline,    \* ctx.Deadline(), or Never
    canceledAt,  \* when the context was canceled, or Never
    began,       \* when the permit was there
    pooled,      \* acquire found a free conn
    attempt,     \* of dial, from 0
    until,       \* when the present wait is over at the latest
    readBy,      \* fetchSeries' own deadline
    queued,      \* time spent in the queue for a permit
    stalled      \* time spent in writes

contextVars == <<deadline, canceledAt>>
clockVars   == <<now, queued, stalled>>
vars == <<pc, contextVars, clockVars, began, pooled, attempt, until, readBy>>

Init ==
    /\ pc = "acquire"
    /\ now = 0
    /\ deadline \in Deadlines \cup {Never}
    /\ canceledAt = Never
    /\ began = Never
    /\ pooled = FALSE
    /\ attempt = 0
    /\ until = Never
    /\ readBy = Never
    /\ queued = 0
    /\ stalled = 0

HasDeadline == deadline # Never
Expired == now >= deadline
CtxDone == Expired \/ canceledAt # Never

Earlier(a, b) == IF a < b THEN a ELSE b
Later(a, b)   == IF a < b THEN b ELSE a

Goes(from, to) ==
    /\ pc = from
    /\ pc' = to
    /\ UNCHANGED <<contextVars, clockVars>>

\* A wait of t ticks at most from here.
Waits(t) == until' = t

-----------------------------------------------------------------------------
(* pool.acquire and dial *)

\* DialContext fails at once under a context that is done.  A cancellation
\* during the upgrade need not be noticed.
DialUntil == IF CtxDone THEN now ELSE Earlier(now + HandshakeTimeout, deadline)

AcquirePooled ==
    /\ Goes("acquire", "request")
    /\ began' = now
    /\ pooled' = TRUE
    /\ UNCHANGED <<attempt, until, readBy>>

AcquireDials ==
    /\ Goes("acquire", "dial")
    /\ began' = now
    /\ Waits(DialUntil)
    /\ UNCHANGED <<pooled, attempt, readBy>>

AcquireCanceled ==
    /\ CtxDone
    /\ Goes("acquire", "done")
    /\ UNCHANGED <<began, pooled, attempt, until, readBy>>

\* The pool has been closed.
AcquireRefused ==
    /\ Goes("acquire", "done")
    /\ UNCHANGED <<began, pooled, attempt, until, readBy>>

\* Mutant of DialOk: the hello is waited for without a deadline.
DialOk_NoDeadline ==
    /\ now < until
    /\ Goes("dial", "hello")
    /\ Waits(Never)
    /\ UNCHANGED <<began, pooled, attempt, readBy>>

\* The upgrade has until `until'; the hello then gets the context's deadline,
\* however far, and HandshakeTimeout once more only if there is none.
DialOk ==
    /\ now < until
    /\ Goes("dial", "hello")
    /\ Waits(IF HasDeadline THEN deadline ELSE now + HandshakeTimeout)
    /\ UNCHANGED <<began, pooled, attempt, readBy>>

HelloOk ==
    /\ now < until
    /\ Goes("hello", "auth")
    /\ UNCHANGED <<began, pooled, attempt, until, readBy>>

AuthOk ==
    /\ Goes("auth", "request")
    /\ UNCHANGED <<began, pooled, attempt, until, readBy>>

\* Mutant of AttemptFails: attempt <= dialMaxAttempts.
AttemptFails_OneMore ==
    \E from \in {"dial", "hello", "auth"} :
        /\ attempt' = attempt + 1
        /\ IF attempt' <= dialMaxAttempts
             THEN /\ Goes(from, "delay")
                  /\ \E d \in MinDelay .. MaxDelay : Waits(now + d * attempt')
             ELSE Goes(from, "done") /\ UNCHANGED until
        /\ UNCHANGED <<began, pooled, readBy>>

\* dialOnce returns an error, from any of its three waits.
AttemptFails ==
    \E from \in {"dial", "hello", "auth"} :
        /\ attempt' = attempt + 1
        /\ IF attempt' < dialMaxAttempts
             THEN /\ Goes(from, "delay")
                  /\ \E d \in MinDelay .. MaxDelay : Waits(now + d * attempt')
             ELSE Goes(from, "done") /\ UNCHANGED until
        /\ UNCHANGED <<began, pooled, readBy>>

\* When both arms of the select are ready, either may be taken.
DelayOver ==
    /\ now >= until
    /\ Goes("delay", "dial")
    /\ Waits(DialUntil)
    /\ UNCHANGED <<began, pooled, attempt, readBy>>

DelayCanceled ==
    /\ CtxDone
    /\ Goes("delay", "done")
    /\ UNCHANGED <<began, pooled, attempt, until, readBy>>

-----------------------------------------------------------------------------
(* fetchSeries.  Whatever it returns, a conn it could write on is sent       *)
(* chart_delete_session.                                                     *)

\* Mutant of Requested: the context's deadline is not looked at.
Requested_OwnDeadline ==
    /\ Goes("request", "loop")
    /\ readBy' = now + FetchTimeout
    /\ UNCHANGED <<began, pooled, attempt, until>>

\* The three requests are written; only now does FetchTimeout start.
Requested ==
    /\ Goes("request", "loop")
    /\ readBy' = Earlier(now + FetchTimeout, deadline)
    /\ UNCHANGED <<began, pooled, attempt, until>>

\* chart_create_session was not written: there is nothing to delete.
CreateFails ==
    /\ Goes("request", "done")
    /\ UNCHANGED <<began, pooled, attempt, until, readBy>>

RequestFails ==
    /\ Goes("request", "delete")
    /\ UNCHANGED <<began, pooled, attempt, until, readBy>>

LoopEnds ==
    /\ now >= readBy \/ CtxDone
    /\ Goes("loop", "delete")
    /\ UNCHANGED <<began, pooled, attempt, until, readBy>>

LoopReads ==
    /\ now < readBy /\ ~CtxDone
    /\ Goes("loop", "read")
    /\ Waits(readBy)
    /\ UNCHANGED <<began, pooled, attempt, readBy>>

\* Frames that carry no bars.
ReadOther ==
    /\ now < until
    /\ Goes("read", "loop")
    /\ UNCHANGED <<began, pooled, attempt, until, readBy>>

ReadHeartbeat ==
    /\ now < until
    /\ Goes("read", "pong")
    /\ UNCHANGED <<began, pooled, attempt, until, readBy>>

PongOk ==
    /\ Goes("pong", "loop")
    /\ UNCHANGED <<began, pooled, attempt, until, readBy>>

PongFails ==
    /\ Goes("pong", "delete")
    /\ UNCHANGED <<began, pooled, attempt, until, readBy>>

\* Bars, an error of the symbol or of the link, or the read deadline.
ReadEnds ==
    /\ Goes("read", "delete")
    /\ UNCHANGED <<began, pooled, attempt, until, readBy>>

Deleted ==
    /\ Goes("delete", "done")
    /\ UNCHANGED <<began, pooled, attempt, until, readBy>>

\* fetchOnce has returned.
Returned == pc = "done" /\ UNCHANGED vars

-----------------------------------------------------------------------------
(* The caller's context and the clock *)

\* A lapsed context is canceled already.
Cancel ==
    /\ ~CtxDone
    /\ pc # "done"
    /\ canceledAt' = now
    /\ UNCHANGED <<pc, deadline, clockVars, began, pooled, attempt, until, readBy>>

Waiting == pc \in {"dial", "hello", "delay", "read"}
Writing == {"auth", "request", "pong", "delete"}

Passes ==
    /\ now < MaxTime
    /\ now' = now + 1
    /\ UNCHANGED <<pc, contextVars, began, pooled, attempt, until, readBy>>

\* Mutant of TickWait: time.Sleep(delay).
TickWait_Sleeps ==
    /\ Waiting
    /\ now < until
    /\ Passes
    /\ UNCHANGED <<queued, stalled>>

\* A handshake, the delay or a read may take all the time it has.  The delay's
\* select wakes as soon as the context is done.
TickWait ==
    /\ Waiting
    /\ now < until
    /\ pc = "delay" => ~CtxDone
    /\ Passes
    /\ UNCHANGED <<queued, stalled>>

TickQueue ==
    /\ pc = "acquire"
    /\ ~CtxDone
    /\ queued < MaxStall
    /\ Passes
    /\ queued' = queued + 1
    /\ UNCHANGED stalled

TickWrite ==
    /\ pc \in Writing
    /\ stalled < MaxStall
    /\ Passes
    /\ stalled' = stalled + 1
    /\ UNCHANGED queued

Next ==
    \/ AcquirePooled \/ AcquireDials \/ AcquireCanceled \/ AcquireRefused
    \/ DialOk \/ HelloOk \/ AuthOk \/ AttemptFails \/ DelayOver \/ DelayCanceled
    \/ Requested \/ CreateFails \/ RequestFails
    \/ LoopEnds \/ LoopReads \/ ReadOther \/ ReadHeartbeat \/ PongOk \/ PongFails
    \/ ReadEnds \/ Deleted \/ Returned
    \/ Cancel \/ TickWait \/ TickQueue \/ TickWrite

Spec == Init /\ [][Next]_vars

-----------------------------------------------------------------------------
(* Properties *)

\* A wait is never past its limit, so that time never has to stop in one.
TypeOK ==
    /\ pc \in {"acquire", "dial", "hello", "delay", "loop", "read", "done"} \cup Writing
    /\ now \in 0 .. MaxTime
    /\ deadline \in 0 .. Never /\ canceledAt \in 0 .. Never
    /\ began \in 0 .. Never
    /\ pooled \in BOOLEAN
    /\ attempt \in 0 .. dialMaxAttempts
    /\ until \in Nat /\ readBy \in Nat
    /\ Waiting => now <= until
    /\ queued \in 0 .. MaxStall /\ stalled \in 0 .. MaxStall

\* Two timeouts an attempt, and two delays.
DialTime == dialMaxAttempts * 2 * HandshakeTimeout + (1 + 2) * MaxDelay

\* conn.go:37-57, 89-93, 144: with no deadline on the context, a fetch is over
\* after FetchTimeout on a pooled conn, and after the time of a dial and
\* FetchTimeout on a new one; time lost in writes comes on top.
EndsInTime ==
    began # Never /\ ~HasDeadline =>
        now - began - stalled <= FetchTimeout + (IF pooled THEN 0 ELSE DialTime)

\* conn.go:46-48, 89-90, 145-147, pool.go:50: no wait of a fetch outlives the
\* context's deadline, in whichever state it comes.
ByDeadline == now <= deadline + stalled

\* conn.go:46-48, 150-154: after a cancellation, which no blocked read notices,
\* a fetch goes on for one handshake and its hello or for one read.
CancelNoticed ==
    canceledAt # Never /\ ~HasDeadline =>
        now - canceledAt - stalled <= Later(2 * HandshakeTimeout, FetchTimeout)

\* config.go:25: "FetchTimeout caps a single Fetch (handshake + subscribe +
\* read)."
DocFetchTimeoutCaps == began # Never => now - began - stalled <= FetchTimeout
=============================================================================
