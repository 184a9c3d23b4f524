------------------------------ MODULE ConnPool ------------------------------
(***************************************************************************)
(* The connection pool of pool.go: connPool.acquire, release, reapLoop,    *)
(* reapIdle and close, run by any number of goroutines.                    *)
(*                                                                         *)
(* Each goroutine is a process whose pc names the point between two of its *)
(* atomic sections: a section under p.mu, one call of the weighted         *)
(* semaphore, one dial, one conn.close().  What a fetch does with its conn *)
(* is here only its outcome, `healthy`, as Client.fetchOnce passes it to   *)
(* release.                                                                *)
(***************************************************************************)
EXTENDS Integers, FiniteSets, SequencesExt

CONSTANTS Fetchers,     \* goroutines inside Client.fetchOnce
          Closers,      \* goroutines that call connPool.close
          Conns,        \* identities of websocket conns; a closed one is reused
          NoConn,       \* the nil *conn
          PoolSize,     \* Config.PoolSize
          IdleTimeout,  \* Config.IdleConnTimeout, in reaper intervals
          MaxTime       \* bound of the clock, in reaper intervals

ASSUME PoolAssumption ==
    /\ PoolSize \in Nat \ {0}      \* Config.withDefaults replaces 0 and less
    /\ IdleTimeout \in Nat
    /\ MaxTime \in Nat
    /\ NoConn \notin Conns
    /\ IsFiniteSet(Fetchers)

VARIABLES
    pc,       \* pc[f]: where fetcher f is in acquire .. release
    lease,    \* lease[f]: the conn f holds, or NoConn
    cur,      \* permits of p.sem that are out
    waiters,  \* the FIFO of goroutines blocked in p.sem.Acquire
    free,     \* p.free, a stack of pooledConn
    closed,   \* p.closed
    stops,    \* how often close(p.stop) has run; Go panics at the second
    open,     \* conns whose socket this process has open
    rpc,      \* where the reaper goroutine is
    cutoff,   \* reapIdle's local cutoff; 0 outside a pass
    drop,     \* reapIdle's local drop: removed from free, still to be closed
    ticked,   \* the ticker's one-element channel t.C holds a tick
    cpc,      \* cpc[k]: where closer k is in close
    pending,  \* pending[k]: what close still has to close of its local free
    now       \* the clock, in reaper intervals

semVars    == <<cur, waiters>>
reaperVars == <<rpc, cutoff, drop>>
closerVars == <<cpc, pending>>
poolVars   == <<free, closed>>
vars == <<pc, lease, semVars, poolVars, stops, open, reaperVars, ticked,
          closerVars, now>>

PooledConn == [c : Conns, idleSince : Nat]

FetcherPc == {"idle", "waiting", "ready", "granted", "dialing", "leased",
              "closing", "unslot"}

\* The conns of a sequence of pooledConn, and of the pool's stack.
ConnsOf(s) == {s[i].c : i \in DOMAIN s}
FreeConns == ConnsOf(free)

LeasedConns == {lease[f] : f \in Fetchers} \ {NoConn}
PendingConns == UNION {pending[k] : k \in Closers}

Init ==
    /\ pc = [f \in Fetchers |-> "idle"]
    /\ lease = [f \in Fetchers |-> NoConn]
    /\ cur = 0
    /\ waiters = <<>>
    /\ free = <<>>
    /\ closed = FALSE
    /\ stops = 0
    /\ open = {}
    /\ rpc = "select"
    /\ cutoff = 0
    /\ drop = {}
    /\ ticked = FALSE
    /\ cpc = [k \in Closers |-> "idle"]
    /\ pending = [k \in Closers |-> {}]
    /\ now = 0

-----------------------------------------------------------------------------
(***************************************************************************)
(* golang.org/x/sync/semaphore.Weighted, as pool.go uses it: weight 1,     *)
(* waiters served in arrival order.                                        *)
(***************************************************************************)

\* sem.Acquire when a permit is out at once: nobody may overtake a waiter.
SemTake(f) ==
    /\ pc[f] = "idle"
    /\ cur < PoolSize
    /\ waiters = <<>>
    /\ cur' = cur + 1
    /\ pc' = [pc EXCEPT ![f] = "granted"]
    /\ UNCHANGED <<waiters, lease, poolVars, stops, open, reaperVars, ticked,
                   closerVars, now>>

SemQueue(f) ==
    /\ pc[f] = "idle"
    /\ cur = PoolSize \/ waiters # <<>>
    /\ waiters' = Append(waiters, f)
    /\ pc' = [pc EXCEPT ![f] = "waiting"]
    /\ UNCHANGED <<cur, lease, poolVars, stops, open, reaperVars, ticked,
                   closerVars, now>>

\* f gives its permit back and goes idle.  The permit passes straight to the
\* first waiter, who learns of it when it is scheduled again.
PutBack(f) ==
    \/ /\ waiters = <<>>
       /\ cur' = cur - 1
       /\ pc' = [pc EXCEPT ![f] = "idle"]
       /\ UNCHANGED waiters
    \/ /\ waiters # <<>>
       /\ waiters' = Tail(waiters)
       /\ pc' = [pc EXCEPT ![f] = "idle", ![Head(waiters)] = "ready"]
       /\ UNCHANGED cur

\* ctx is done while f waits: it leaves the queue.
SemCancel(f) ==
    /\ pc[f] = "waiting"
    /\ \E i \in DOMAIN waiters :
          /\ waiters[i] = f
          /\ waiters' = RemoveAt(waiters, i)
    /\ pc' = [pc EXCEPT ![f] = "idle"]
    /\ UNCHANGED <<cur, lease, poolVars, stops, open, reaperVars, ticked,
                   closerVars, now>>

SemWake(f) ==
    /\ pc[f] = "ready"
    /\ pc' = [pc EXCEPT ![f] = "granted"]
    /\ UNCHANGED <<semVars, lease, poolVars, stops, open, reaperVars, ticked,
                   closerVars, now>>

\* The permit arrived, but ctx was done by then: the permit goes back.
SemWakeCanceled(f) ==
    /\ pc[f] = "ready"
    /\ PutBack(f)
    /\ UNCHANGED <<lease, poolVars, stops, open, reaperVars, ticked,
                   closerVars, now>>

-----------------------------------------------------------------------------
(* acquire, after the semaphore *)

\* Mutant of AcquireClosed: returns ErrClosed without sem.Release.
AcquireClosed_KeepsPermit(f) ==
    /\ pc[f] = "granted"
    /\ closed
    /\ pc' = [pc EXCEPT ![f] = "idle"]
    /\ UNCHANGED <<semVars, lease, poolVars, stops, open, reaperVars, ticked,
                   closerVars, now>>

\* The closed pool refuses: unlock, then give the permit back.
AcquireClosed(f) ==
    /\ pc[f] = "granted"
    /\ closed
    /\ pc' = [pc EXCEPT ![f] = "unslot"]
    /\ UNCHANGED <<semVars, lease, poolVars, stops, open, reaperVars, ticked,
                   closerVars, now>>

\* Mutant of AcquireFree: the stack is read but not popped.
AcquireFree_NoPop(f) ==
    /\ pc[f] = "granted"
    /\ ~closed
    /\ free # <<>>
    /\ lease' = [lease EXCEPT ![f] = Last(free).c]
    /\ pc' = [pc EXCEPT ![f] = "leased"]
    /\ UNCHANGED <<semVars, poolVars, stops, open, reaperVars, ticked,
                   closerVars, now>>

\* The conn released last is reused first.
AcquireFree(f) ==
    /\ pc[f] = "granted"
    /\ ~closed
    /\ free # <<>>
    /\ lease' = [lease EXCEPT ![f] = Last(free).c]
    /\ free' = Front(free)
    /\ pc' = [pc EXCEPT ![f] = "leased"]
    /\ UNCHANGED <<semVars, closed, stops, open, reaperVars, ticked,
                   closerVars, now>>

\* Mutant of AcquireDial: dials although a conn is free.
AcquireDial_Always(f) ==
    /\ pc[f] = "granted"
    /\ ~closed
    /\ pc' = [pc EXCEPT ![f] = "dialing"]
    /\ UNCHANGED <<semVars, lease, poolVars, stops, open, reaperVars, ticked,
                   closerVars, now>>

AcquireDial(f) ==
    /\ pc[f] = "granted"
    /\ ~closed
    /\ free = <<>>
    /\ pc' = [pc EXCEPT ![f] = "dialing"]
    /\ UNCHANGED <<semVars, lease, poolVars, stops, open, reaperVars, ticked,
                   closerVars, now>>

\* dial runs without p.mu: the pool may be closed meanwhile, and a conn
\* dialed too late is still handed to the fetch.
DialOk(f, c) ==
    /\ pc[f] = "dialing"
    /\ c \notin open
    /\ open' = open \cup {c}
    /\ lease' = [lease EXCEPT ![f] = c]
    /\ pc' = [pc EXCEPT ![f] = "leased"]
    /\ UNCHANGED <<semVars, poolVars, stops, reaperVars, ticked, closerVars,
                   now>>

\* Mutant of DialFail: the error path forgets sem.Release.
DialFail_KeepsPermit(f) ==
    /\ pc[f] = "dialing"
    /\ pc' = [pc EXCEPT ![f] = "idle"]
    /\ UNCHANGED <<semVars, lease, poolVars, stops, open, reaperVars, ticked,
                   closerVars, now>>

DialFail(f) ==
    /\ pc[f] = "dialing"
    /\ pc' = [pc EXCEPT ![f] = "unslot"]
    /\ UNCHANGED <<semVars, lease, poolVars, stops, open, reaperVars, ticked,
                   closerVars, now>>

-----------------------------------------------------------------------------
(* release *)

\* Mutant of ReleaseFree: p.closed is not looked at.
ReleaseFree_IgnoresClosed(f) ==
    /\ pc[f] = "leased"
    /\ free' = Append(free, [c |-> lease[f], idleSince |-> now])
    /\ lease' = [lease EXCEPT ![f] = NoConn]
    /\ pc' = [pc EXCEPT ![f] = "unslot"]
    /\ UNCHANGED <<semVars, closed, stops, open, reaperVars, ticked,
                   closerVars, now>>

\* release(c, true): back on the stack, stamped under the lock.
ReleaseFree(f) ==
    /\ pc[f] = "leased"
    /\ ~closed
    /\ free' = Append(free, [c |-> lease[f], idleSince |-> now])
    /\ lease' = [lease EXCEPT ![f] = NoConn]
    /\ pc' = [pc EXCEPT ![f] = "unslot"]
    /\ UNCHANGED <<semVars, closed, stops, open, reaperVars, ticked,
                   closerVars, now>>

\* Mutant of ReleaseClosing: an unhealthy conn is forgotten, not closed.
ReleaseClosing_Forgets(f) ==
    /\ pc[f] = "leased"
    /\ lease' = [lease EXCEPT ![f] = NoConn]
    /\ pc' = [pc EXCEPT ![f] = "unslot"]
    /\ UNCHANGED <<semVars, poolVars, stops, open, reaperVars, ticked,
                   closerVars, now>>

\* release(c, FALSE) in any pool, release(c, TRUE) in a closed one: `closing`.
\* A failed fetch may happen in every state, so there is no guard on closed.
ReleaseClosing(f) ==
    /\ pc[f] = "leased"
    /\ pc' = [pc EXCEPT ![f] = "closing"]
    /\ UNCHANGED <<semVars, lease, poolVars, stops, open, reaperVars, ticked,
                   closerVars, now>>

\* c.close(), after the lock is gone.
ReleaseClose(f) ==
    /\ pc[f] = "closing"
    /\ open' = open \ {lease[f]}
    /\ lease' = [lease EXCEPT ![f] = NoConn]
    /\ pc' = [pc EXCEPT ![f] = "unslot"]
    /\ UNCHANGED <<semVars, poolVars, stops, reaperVars, ticked, closerVars,
                   now>>

\* Mutant of SemRelease: a deferred release on top of the explicit one.
SemRelease_Twice(f) ==
    /\ pc[f] = "unslot"
    /\ pc' = [pc EXCEPT ![f] = "idle"]
    /\ cur' = cur - 2
    /\ UNCHANGED <<waiters, lease, poolVars, stops, open, reaperVars, ticked,
                   closerVars, now>>

\* The p.sem.Release(1) that ends release and the refusals of acquire.
SemRelease(f) ==
    /\ pc[f] = "unslot"
    /\ PutBack(f)
    /\ UNCHANGED <<lease, poolVars, stops, open, reaperVars, ticked,
                   closerVars, now>>

-----------------------------------------------------------------------------
(* reapLoop and reapIdle *)

\* One reaper interval passes, and the ticker fires; a tick that finds the
\* ticker's channel full is lost.
Tick ==
    /\ now < MaxTime
    /\ now' = now + 1
    /\ ticked' = TRUE
    /\ UNCHANGED <<pc, lease, semVars, poolVars, stops, open, reaperVars,
                   closerVars>>

\* Mutant of ReapTick: the cutoff is the present.
ReapTick_CutoffNow ==
    /\ rpc = "select"
    /\ ticked
    /\ ticked' = FALSE
    /\ cutoff' = now
    /\ rpc' = "filter"
    /\ UNCHANGED <<pc, lease, semVars, poolVars, stops, open, drop, closerVars,
                   now>>

\* The select takes the tick, even when p.stop is closed too, and reapIdle
\* reads the clock before it has the lock.
ReapTick ==
    /\ rpc = "select"
    /\ ticked
    /\ ticked' = FALSE
    /\ cutoff' = now - IdleTimeout
    /\ rpc' = "filter"
    /\ UNCHANGED <<pc, lease, semVars, poolVars, stops, open, drop, closerVars,
                   now>>

\* Mutant of Expired: After instead of Before.
Expired_After(p) == p.idleSince > cutoff

\* idleSince.Before(cutoff)
Expired(p) == p.idleSince < cutoff

KeptPositions == {i \in DOMAIN free : ~Expired(free[i])}

\* The listing of a set I of positions from the lowest to the highest.
Listings(I) ==
    {at \in [1 .. Cardinality(I) -> I] :
        /\ \A i, j \in DOMAIN at : i < j => at[i] < at[j]
        /\ \A i \in I : \E j \in DOMAIN at : at[j] = i}

\* Mutant of ReapFilter: p.free = keep is missing.
ReapFilter_KeepsAll ==
    /\ rpc = "filter"
    /\ drop' = {free[i].c : i \in DOMAIN free \ KeptPositions}
    /\ rpc' = "close"
    /\ UNCHANGED <<pc, lease, semVars, poolVars, stops, open, cutoff, ticked,
                   closerVars, now>>

\* Under the lock: the kept entries stay in their order, the rest go to drop.
ReapFilter ==
    /\ rpc = "filter"
    /\ \E at \in Listings(KeptPositions) :
          free' = [i \in DOMAIN at |-> free[at[i]]]
    /\ drop' = {free[i].c : i \in DOMAIN free \ KeptPositions}
    /\ rpc' = "close"
    /\ UNCHANGED <<pc, lease, semVars, closed, stops, open, cutoff, ticked,
                   closerVars, now>>

\* One conn.close() of the loop over drop; the order is not observable.
ReapClose(c) ==
    /\ rpc = "close"
    /\ c \in drop
    /\ open' = open \ {c}
    /\ drop' = drop \ {c}
    /\ UNCHANGED <<pc, lease, semVars, poolVars, stops, rpc, cutoff, ticked,
                   closerVars, now>>

ReapDone ==
    /\ rpc = "close"
    /\ drop = {}
    /\ rpc' = "select"
    /\ cutoff' = 0
    /\ UNCHANGED <<pc, lease, semVars, poolVars, stops, open, drop, ticked,
                   closerVars, now>>

\* <-p.stop: receiving from a closed channel.
ReapStop ==
    /\ rpc = "select"
    /\ stops > 0
    /\ rpc' = "exited"
    /\ UNCHANGED <<pc, lease, semVars, poolVars, stops, open, cutoff, drop,
                   ticked, closerVars, now>>

-----------------------------------------------------------------------------
(* close *)

\* Under the lock: the first caller takes the whole stack.
CloseFirst(k) ==
    /\ cpc[k] = "idle"
    /\ ~closed
    /\ closed' = TRUE
    /\ pending' = [pending EXCEPT ![k] = FreeConns]
    /\ free' = <<>>
    /\ cpc' = [cpc EXCEPT ![k] = "stop"]
    /\ UNCHANGED <<pc, lease, semVars, stops, open, reaperVars, ticked, now>>

\* Every later caller returns at once, also while the first still closes.
CloseAgain(k) ==
    /\ cpc[k] = "idle"
    /\ closed
    /\ cpc' = [cpc EXCEPT ![k] = "done"]
    /\ UNCHANGED <<pc, lease, semVars, poolVars, stops, open, reaperVars,
                   ticked, pending, now>>

\* Mutant of CloseStop: close(p.stop) is missing.
CloseStop_Missing(k) ==
    /\ cpc[k] = "stop"
    /\ cpc' = [cpc EXCEPT ![k] = "close"]
    /\ UNCHANGED <<pc, lease, semVars, poolVars, stops, open, reaperVars,
                   ticked, pending, now>>

CloseStop(k) ==
    /\ cpc[k] = "stop"
    /\ stops' = stops + 1
    /\ cpc' = [cpc EXCEPT ![k] = "close"]
    /\ UNCHANGED <<pc, lease, semVars, poolVars, open, reaperVars, ticked,
                   pending, now>>

CloseConn(k, c) ==
    /\ cpc[k] = "close"
    /\ c \in pending[k]
    /\ open' = open \ {c}
    /\ pending' = [pending EXCEPT ![k] = @ \ {c}]
    /\ UNCHANGED <<pc, lease, semVars, poolVars, stops, reaperVars, ticked, cpc,
                   now>>

CloseDone(k) ==
    /\ cpc[k] = "close"
    /\ pending[k] = {}
    /\ cpc' = [cpc EXCEPT ![k] = "done"]
    /\ UNCHANGED <<pc, lease, semVars, poolVars, stops, open, reaperVars,
                   ticked, pending, now>>

-----------------------------------------------------------------------------

\* What f does on its own once it has called acquire.
Acquiring(f) ==
    \/ SemWake(f) \/ SemWakeCanceled(f)
    \/ AcquireClosed(f) \/ AcquireFree(f) \/ AcquireDial(f)
    \/ DialFail(f) \/ \E c \in Conns : DialOk(f, c)

Releasing(f) ==
    \/ ReleaseFree(f) \/ ReleaseClosing(f) \/ ReleaseClose(f)
    \/ SemRelease(f)

Fetcher(f) ==
    \/ SemTake(f) \/ SemQueue(f) \/ SemCancel(f)
    \/ Acquiring(f) \/ Releasing(f)

Reaper ==
    \/ ReapTick \/ ReapFilter \/ ReapDone \/ ReapStop
    \/ \E c \in Conns : ReapClose(c)

Closer(k) ==
    \/ CloseFirst(k) \/ CloseAgain(k) \/ CloseStop(k) \/ CloseDone(k)
    \/ \E c \in Conns : CloseConn(k, c)

Next ==
    \/ \E f \in Fetchers : Fetcher(f)
    \/ \E k \in Closers : Closer(k)
    \/ Reaper
    \/ Tick

Spec == Init /\ [][Next]_vars

\* Every goroutine that can run does: the select of the reaper sees a closed
\* p.stop whenever no tick is left, a dial ends by its handshake timeout, and
\* a fetch ends by its read deadline.  Nothing makes anybody call acquire or
\* close, cancel a context, or let time pass.
Fairness ==
    /\ \A f \in Fetchers : WF_vars(Acquiring(f) \/ Releasing(f))
    /\ \A k \in Closers : WF_vars(cpc[k] # "idle" /\ Closer(k))
    /\ WF_vars(Reaper)

FairSpec == Spec /\ Fairness

-----------------------------------------------------------------------------
(* Properties *)

\* stops: a second close(p.stop) would panic.
TypeOK ==
    /\ pc \in [Fetchers -> FetcherPc]
    /\ lease \in [Fetchers -> Conns \cup {NoConn}]
    /\ cur \in 0 .. PoolSize
    /\ waiters \in Seq(Fetchers)
    /\ free \in Seq(PooledConn)
    /\ closed \in BOOLEAN
    /\ stops \in {0, 1}
    /\ open \in SUBSET Conns
    /\ rpc \in {"select", "filter", "close", "exited"}
    /\ cutoff \in Int
    /\ drop \in SUBSET Conns
    /\ ticked \in BOOLEAN
    /\ cpc \in [Closers -> {"idle", "stop", "close", "done"}]
    /\ pending \in [Closers -> SUBSET Conns]
    /\ now \in 0 .. MaxTime

\* pool.go:12, conn.go:21: a conn belongs to one fetch at a time.  No two
\* fetches hold the same conn, none holds one that the pool could hand out
\* again, and none holds one that the reaper or close is about to close.
ExclusiveLease ==
    /\ \A f, g \in Fetchers : lease[f] = lease[g] => f = g \/ lease[f] = NoConn
    /\ \A i, j \in DOMAIN free : free[i].c = free[j].c => i = j
    /\ LeasedConns \cap (FreeConns \cup drop \cup PendingConns) = {}

\* No socket is lost: whatever is open can be reached by the fetch that holds
\* it, by the pool, or by a goroutine about to close it; and none of these
\* holds a socket that is closed already (acquire would hand out a dead conn).
NoConnLeak == open = LeasedConns \cup FreeConns \cup drop \cup PendingConns

PermitHolders ==
    {f \in Fetchers : pc[f] \notin {"idle", "waiting"}}

\* Every path of acquire and release gives back exactly the permit it took,
\* and a goroutine waits only while all permits are out.
PermitAccounting ==
    /\ cur = Cardinality(PermitHolders)
    /\ waiters # <<>> => cur = PoolSize
    /\ Range(waiters) = {f \in Fetchers : pc[f] = "waiting"}

\* Conns in use or about to be, and conns the pool keeps for reuse.
Active == {f \in Fetchers : pc[f] \in {"dialing", "leased", "closing"}}

\* pool.go:15: the semaphore bounds what is in use together with what is kept,
\* although the stack is read and the dial is run in different sections.  The
\* sockets that are open at once are at most twice as many: a full load of the
\* reaper's drop, still being closed, beside a full load in use.
OpenBound ==
    /\ Cardinality(Active) + Len(free) <= PoolSize
    /\ Cardinality(open) <= 2 * PoolSize

\* README.md, config table: "Max concurrent WebSocket connections".
DocOpenBound == Cardinality(open) <= PoolSize

\* pool.go:132-134 against 84: after close nothing is put back on the stack,
\* by whatever release was under way.
ClosedPoolIsEmpty == closed => free = <<>>

\* The reaper closes only conns that went unused for longer than IdleTimeout
\* by the time it removes them: not one that was leased and released again
\* between the reading of the clock and the lock.
NeverReapsFresh ==
    [][\A i \in DOMAIN free :
          free[i].c \in drop' \ drop => now - free[i].idleSince > IdleTimeout]_vars

\* The conns of fetches that are about to close them.
ClosingConns == {lease[f] : f \in {g \in Fetchers : pc[g] = "closing"}}

HolderOf == [f \in Fetchers |-> IF pc[f] = "leased" THEN lease[f] ELSE NoConn]

RetiredConns == drop \cup PendingConns \cup ClosingConns

Lease == INSTANCE ConnLease WITH
    holder  <- HolderOf,
    idle    <- FreeConns,
    retired <- RetiredConns,
    shut    <- closed

\* The pool implements the exclusive lease of ConnLease.
ImplementsLease == Lease!Spec

\* A goroutine that calls acquire gets its conn or an error, and is through
\* with release in the end: no permit is lost and no waiter is passed over.
AcquireReturns == \A f \in Fetchers : pc[f] # "idle" ~> pc[f] = "idle"

\* client.go:49: Close releases all pooled conns, those leased at the time and
\* those dialed too late for it as well, and the reaper goroutine goes.
CloseReleasesAll == closed ~> [](open = {} /\ rpc = "exited")

\* The stack holds a conn that was released at time s and has expired.
IdleTooLong(s) ==
    /\ now - s > IdleTimeout
    /\ \E i \in DOMAIN free : free[i].idleSince = s

\* pool.go:13: idle conns are reaped after Config.IdleConnTimeout, whatever
\* the time of their release.
IdleEventuallyReaped ==
    \A s \in 0 .. MaxTime - IdleTimeout - 1 :
       IdleTooLong(s) ~> ~IdleTooLong(s)
=============================================================================
