------------------------------- MODULE Client -------------------------------
(***************************************************************************)
(* client.go: Fetch, FetchMulti and Close of one Client, called by any      *)
(* number of goroutines.                                                   *)
(*                                                                         *)
(* The cache appears as TTLMap, which LRUCache implements, and the pool as *)
(* PoolSize permits and a flag, which is what ConnPool comes to for a      *)
(* caller: a permit is held from acquire to release, and a shut pool       *)
(* refuses.  A fetch over the conn ends with bars or with an error, as     *)
(* ChartSession shows.  What callers see of it is FetchPromise.            *)
(*                                                                         *)
(* A request is what a caller asks for, as a (symbol, resolution, bars) in *)
(* its own spelling; KeyOf gives the cache key of its normal form.         *)
(***************************************************************************)
EXTENDS Integers, FiniteSets, Sequences, Functions

CONSTANTS Requests,   \* requests in the callers' spelling
          Keys,       \* normalized requests
          KeyOf,      \* KeyOf[r]; Nothing: r fails the validation
          TTL,        \* TTL[k]: Config.CacheTTLs; 0: not listed, or no cache
          Solo,       \* goroutines that call Fetch
          Asks,       \* Asks[f]: the request of f \in Solo
          Batches,    \* what FetchMulti may be asked for: requests in a row
          Closers,    \* goroutines that call Close
          PoolSize,   \* Config.PoolSize
          Nothing,
          MaxTime     \* bound of the clock

\* The goroutines that FetchMulti's errgroup may have.
Slots == UNION {DOMAIN b : b \in Batches}
Fetches == Solo \cup Slots

ASSUME ClientAssumption ==
    /\ KeyOf \in [Requests -> Keys \cup {Nothing}]
    /\ Nothing \notin Keys
    /\ TTL \in [Keys -> Int]
    /\ Asks \in [Solo -> Requests]
    /\ Batches \subseteq Seq(Requests)
    /\ PoolSize \in Nat \ {0}
    /\ Solo \cap Slots = {}
    /\ MaxTime \in Nat

VARIABLES
    closed,    \* c.closed
    shut,      \* the pool's closed
    cpc,       \* cpc[k]: where closer k is in Close
    pc,        \* pc[f]: where f is in Fetch
    result,    \* result[f]: what Fetch returns, or Nothing
    late,      \* history: calls that began after a Close had returned
    mpc,       \* where FetchMulti is
    spawned,   \* the errgroup has started slots 1 .. spawned
    slabs,     \* out.Slabs, by normalized request
    errors,    \* the keys of out.Errors
    aborted,   \* the errgroup has canceled gctx
    wanted,    \* the resolutions of the one FetchMulti, as requests
    canceled,  \* the context of FetchMulti's caller is done
    now, promise   \* the cache

closeVars == <<closed, shut, cpc>>
multiVars == <<mpc, spawned, slabs, errors, aborted>>
callerVars == <<wanted, canceled>>
cacheVars == <<now, promise>>
callVars  == <<pc, result>>
vars == <<closeVars, callVars, late, multiVars, callerVars, cacheVars>>

\* A chart is the key it was fetched for and the time it was fetched at.
Charts == [key : Keys, at : 0 .. MaxTime]

\* What a get returns goes to its caller only, so there is no last answer.
Cache == INSTANCE TTLMap WITH Data <- Charts, answer <- Nothing

Outcomes == [code : {"ok", "hit"}, chart : Charts]
            \cup [code : {"closed", "invalid", "canceled", "failed"}]

ASSUME NothingAssumption == Nothing \notin Outcomes

Succeeded(f) == result[f].code \in {"ok", "hit"}

Init ==
    /\ closed = FALSE
    /\ shut = FALSE
    /\ cpc = [k \in Closers |-> "idle"]
    /\ pc = [f \in Fetches |-> "idle"]
    /\ result = [f \in Fetches |-> Nothing]
    /\ late = {}
    /\ mpc = "idle"
    /\ spawned = 0
    /\ slabs = <<>>
    /\ errors = {}
    /\ aborted = FALSE
    /\ wanted \in Batches
    /\ canceled = FALSE
    /\ Cache!Init

Asked(f) == IF f \in Slots THEN wanted[f] ELSE Asks[f]

CloseReturned == \E k \in Closers : cpc[k] = "done"

\* The context of a lone Fetch may be done whenever it is looked at.
CtxDone(f) == f \in Slots => canceled \/ aborted

\* The call of f is over: a slot still has to record what it returned.
Returns(f, r) ==
    /\ result' = [result EXCEPT ![f] = r]
    /\ pc' = [pc EXCEPT ![f] = IF f \in Slots THEN "record" ELSE "done"]

Goes(f, to) ==
    /\ pc' = [pc EXCEPT ![f] = to]
    /\ UNCHANGED result

-----------------------------------------------------------------------------
(* Fetch *)

Call(f) ==
    /\ f \in Solo
    /\ pc[f] = "idle"
    /\ Goes(f, "check")
    /\ late' = IF CloseReturned THEN late \cup {f} ELSE late
    /\ UNCHANGED <<closeVars, multiVars, callerVars, cacheVars>>

CheckClosed(f) ==
    /\ pc[f] = "check"
    /\ closed
    /\ Returns(f, [code |-> "closed"])
    /\ UNCHANGED <<closeVars, late, multiVars, callerVars, cacheVars>>

CheckInvalid(f) ==
    /\ pc[f] = "check"
    /\ ~closed
    /\ KeyOf[Asked(f)] = Nothing
    /\ Returns(f, [code |-> "invalid"])
    /\ UNCHANGED <<closeVars, late, multiVars, callerVars, cacheVars>>

\* Mutant of CheckOk: only the pool knows that it is closed.
CheckOk_WhenClosed(f) ==
    /\ pc[f] = "check"
    /\ KeyOf[Asked(f)] # Nothing
    /\ Goes(f, "lookup")
    /\ UNCHANGED <<closeVars, late, multiVars, callerVars, cacheVars>>

CheckOk(f) ==
    /\ pc[f] = "check"
    /\ ~closed
    /\ KeyOf[Asked(f)] # Nothing
    /\ Goes(f, "lookup")
    /\ UNCHANGED <<closeVars, late, multiVars, callerVars, cacheVars>>

LookupHit(f) ==
    /\ pc[f] = "lookup"
    /\ Cache!Unexpired(KeyOf[Asked(f)])
    /\ Returns(f, [code |-> "hit", chart |-> promise[KeyOf[Asked(f)]].data])
    /\ UNCHANGED <<closeVars, late, multiVars, callerVars, cacheVars>>

\* No entry, an expired one, or one that was evicted.
LookupMiss(f) ==
    /\ pc[f] = "lookup"
    /\ Goes(f, "acquire")
    /\ UNCHANGED <<closeVars, late, multiVars, callerVars, cacheVars>>

Holding == {f \in Fetches : pc[f] \in {"acquired", "fetching"}}

Acquire(f) ==
    /\ pc[f] = "acquire"
    /\ Cardinality(Holding) < PoolSize
    /\ Goes(f, "acquired")
    /\ UNCHANGED <<closeVars, late, multiVars, callerVars, cacheVars>>

AcquireCanceled(f) ==
    /\ pc[f] = "acquire"
    /\ CtxDone(f)
    /\ Returns(f, [code |-> "canceled"])
    /\ UNCHANGED <<closeVars, late, multiVars, callerVars, cacheVars>>

\* Mutant of AcquireRefused: the refused call waits for the pool to reopen.
AcquireRefused_Waits(f) ==
    /\ pc[f] = "acquired"
    /\ shut
    /\ Goes(f, "acquired")
    /\ UNCHANGED <<closeVars, late, multiVars, callerVars, cacheVars>>

AcquireRefused(f) ==
    /\ pc[f] = "acquired"
    /\ shut
    /\ Returns(f, [code |-> "closed"])
    /\ UNCHANGED <<closeVars, late, multiVars, callerVars, cacheVars>>

AcquireConn(f) ==
    /\ pc[f] = "acquired"
    /\ ~shut
    /\ Goes(f, "fetching")
    /\ UNCHANGED <<closeVars, late, multiVars, callerVars, cacheVars>>

\* Dial and fetchSeries succeed, and the conn goes back.
FetchOk(f) ==
    /\ pc[f] = "fetching"
    /\ result' = [result EXCEPT ![f] =
                     [code |-> "ok", chart |-> [key |-> KeyOf[Asked(f)], at |-> now]]]
    /\ pc' = [pc EXCEPT ![f] = "store"]
    /\ UNCHANGED <<closeVars, late, multiVars, callerVars, cacheVars>>

FetchFails(f) ==
    /\ pc[f] = "fetching"
    /\ \E code \in {"failed", "canceled"} :
          /\ code = "canceled" => CtxDone(f)
          /\ Returns(f, [code |-> code])
    /\ UNCHANGED <<closeVars, late, multiVars, callerVars, cacheVars>>

\* Mutant of Store: the key is that of the request of another slot, as when
\* goroutines share the loop variable.
Store_SharedKey(f) ==
    /\ pc[f] = "store"
    /\ \E k \in Keys : Cache!Promised(k, result[f].chart)
    /\ pc' = [pc EXCEPT ![f] = IF f \in Slots THEN "record" ELSE "done"]
    /\ UNCHANGED <<result, closeVars, late, multiVars, callerVars, now>>

\* A resolution that CacheTTLs does not list is not stored.  Between the fetch
\* and the put another fetch of the key may have stored newer bars.
Store(f) ==
    /\ pc[f] = "store"
    /\ LET k == KeyOf[Asked(f)] IN
          IF TTL[k] > 0 THEN Cache!Promised(k, result[f].chart)
                        ELSE UNCHANGED promise
    /\ pc' = [pc EXCEPT ![f] = IF f \in Slots THEN "record" ELSE "done"]
    /\ UNCHANGED <<result, closeVars, late, multiVars, callerVars, now>>

-----------------------------------------------------------------------------
(* FetchMulti *)

MultiClosed ==
    /\ mpc = "idle"
    /\ closed
    /\ mpc' = "refused"
    /\ UNCHANGED <<closeVars, callVars, late, spawned, slabs, errors,
                   aborted, callerVars, cacheVars>>

\* "no resolutions provided"
MultiEmpty ==
    /\ mpc = "idle"
    /\ ~closed
    /\ wanted = <<>>
    /\ mpc' = "invalid"
    /\ UNCHANGED <<closeVars, callVars, late, spawned, slabs, errors,
                   aborted, callerVars, cacheVars>>

MultiStart ==
    /\ mpc = "idle"
    /\ ~closed
    /\ wanted # <<>>
    /\ mpc' = "spawn"
    /\ UNCHANGED <<closeVars, callVars, late, spawned, slabs, errors,
                   aborted, callerVars, cacheVars>>

Running == {i \in 1 .. spawned : pc[i] # "done"}

\* g.Go, which blocks while PoolSize goroutines of the group run.
Spawn ==
    /\ mpc = "spawn"
    /\ spawned < Len(wanted)
    /\ Cardinality(Running) < PoolSize
    /\ spawned' = spawned + 1
    /\ Goes(spawned + 1, "check")
    /\ UNCHANGED <<closeVars, late, mpc, slabs, errors, aborted,
                   callerVars, cacheVars>>

\* Mutant of RecordSlab: out.Slabs[r] = data, under the caller's spelling.
RecordSlab_CallersName(i) ==
    /\ pc[i] = "record"
    /\ Succeeded(i)
    /\ slabs' = [x \in DOMAIN slabs \cup {Asked(i)} |->
                    IF x = Asked(i) THEN result[i].chart ELSE slabs[x]]
    /\ Goes(i, "done")
    /\ UNCHANGED <<closeVars, late, mpc, spawned, errors, aborted,
                   callerVars, cacheVars>>

\* The slab goes under its normalized resolution: two spellings share one.
RecordSlab(i) ==
    /\ pc[i] = "record"
    /\ Succeeded(i)
    /\ LET k == result[i].chart.key IN
          slabs' = [x \in DOMAIN slabs \cup {k} |->
                       IF x = k THEN result[i].chart ELSE slabs[x]]
    /\ Goes(i, "done")
    /\ UNCHANGED <<closeVars, late, mpc, spawned, errors, aborted,
                   callerVars, cacheVars>>

\* Mutant of RecordError: return err, so that the errgroup cancels gctx.
RecordError_Returns(i) ==
    /\ pc[i] = "record"
    /\ ~Succeeded(i)
    /\ errors' = errors \cup {Asked(i)}
    /\ aborted' = TRUE
    /\ Goes(i, "done")
    /\ UNCHANGED <<closeVars, late, mpc, spawned, slabs, callerVars,
                   cacheVars>>

RecordError(i) ==
    /\ pc[i] = "record"
    /\ ~Succeeded(i)
    /\ errors' = errors \cup {Asked(i)}
    /\ Goes(i, "done")
    /\ UNCHANGED <<closeVars, late, mpc, spawned, slabs, aborted,
                   callerVars, cacheVars>>

\* Mutant of MultiWait: g.Wait waits for the slot spawned last only.
MultiWait_LastOnly ==
    /\ mpc = "spawn"
    /\ spawned = Len(wanted)
    /\ pc[spawned] = "done"
    /\ mpc' = "done"
    /\ aborted' = TRUE
    /\ UNCHANGED <<closeVars, callVars, late, spawned, slabs, errors,
                   callerVars, cacheVars>>

\* g.Wait returns when the last goroutine has, and cancels gctx.
MultiWait ==
    /\ mpc = "spawn"
    /\ spawned = Len(wanted)
    /\ Running = {}
    /\ mpc' = "done"
    /\ aborted' = TRUE
    /\ UNCHANGED <<closeVars, callVars, late, spawned, slabs, errors,
                   callerVars, cacheVars>>

-----------------------------------------------------------------------------
(* Close, contexts and the clock *)

CloseFirst(k) ==
    /\ cpc[k] = "idle"
    /\ ~closed
    /\ closed' = TRUE
    /\ cpc' = [cpc EXCEPT ![k] = "pool"]
    /\ UNCHANGED <<shut, callVars, late, multiVars, callerVars, cacheVars>>

\* Also while the first Close has not shut the pool yet.
CloseAgain(k) ==
    /\ cpc[k] = "idle"
    /\ closed
    /\ cpc' = [cpc EXCEPT ![k] = "done"]
    /\ UNCHANGED <<closed, shut, callVars, late, multiVars, callerVars,
                   cacheVars>>

ClosePool(k) ==
    /\ cpc[k] = "pool"
    /\ shut' = TRUE
    /\ cpc' = [cpc EXCEPT ![k] = "done"]
    /\ UNCHANGED <<closed, callVars, late, multiVars, callerVars, cacheVars>>

Cancel ==
    /\ ~canceled
    /\ canceled' = TRUE
    /\ UNCHANGED <<closeVars, callVars, late, multiVars, wanted, cacheVars>>

Tick ==
    /\ now < MaxTime
    /\ now' = now + 1
    /\ UNCHANGED <<closeVars, callVars, late, multiVars, callerVars,
                   promise>>

-----------------------------------------------------------------------------

Fetch(f) ==
    \/ CheckClosed(f) \/ CheckInvalid(f) \/ CheckOk(f)
    \/ LookupHit(f) \/ LookupMiss(f)
    \/ Acquire(f) \/ AcquireCanceled(f) \/ AcquireRefused(f) \/ AcquireConn(f)
    \/ FetchOk(f) \/ FetchFails(f) \/ Store(f)

Record(i) == RecordSlab(i) \/ RecordError(i)

FetchMulti == MultiClosed \/ MultiEmpty \/ MultiStart \/ Spawn \/ MultiWait

Close(k) == CloseFirst(k) \/ CloseAgain(k) \/ ClosePool(k)

Next ==
    \/ \E f \in Fetches : Call(f) \/ Fetch(f)
    \/ \E i \in Slots : Record(i)
    \/ FetchMulti
    \/ \E k \in Closers : Close(k)
    \/ Cancel
    \/ Tick

Spec == Init /\ [][Next]_vars

\* Goroutines run, and a fetch over a conn ends.  Nothing is assumed of the
\* semaphore: whoever overtakes a waiter does so once.
Fairness ==
    /\ \A f \in Fetches : WF_vars(Fetch(f))
    /\ \A i \in Slots : WF_vars(Record(i))
    /\ WF_vars(mpc # "idle" /\ FetchMulti)

FairSpec == Spec /\ Fairness

-----------------------------------------------------------------------------
(* Properties *)

TypeOK ==
    /\ {closed, shut, aborted, canceled} \subseteq BOOLEAN
    /\ cpc \in [Closers -> {"idle", "pool", "done"}]
    /\ pc \in [Fetches -> {"idle", "check", "lookup", "acquire", "acquired",
                           "fetching", "store", "record", "done"}]
    /\ result \in [Fetches -> Outcomes \cup {Nothing}]
    /\ late \subseteq Solo
    /\ wanted \in Batches
    /\ mpc \in {"idle", "spawn", "done", "refused", "invalid"}
    /\ spawned \in 0 .. Len(wanted)
    /\ DOMAIN slabs \subseteq Keys /\ Range(slabs) \subseteq Charts
    /\ errors \subseteq Requests

\* client.go:49-50: a Fetch that begins after some Close has returned returns
\* ErrClosed, also one whose answer is still in the cache, and also when that
\* Close returned early because another one was still at work.
LateFetchRefused ==
    \A f \in Solo \cap late : result[f] \in {Nothing, [code |-> "closed"]}

\* cache.go:10-12: whoever fetched and stored it, a chart that a call returns
\* was fetched for the symbol, resolution and bars it asked for.  (Whether the
\* bars in it are the right ones is ChartSession's matter.)
OwnKey ==
    \A f \in Fetches : result[f] # Nothing /\ Succeeded(f) =>
        result[f].chart.key = KeyOf[Asked(f)]

\* client.go:129-132, types.go:28-30: when FetchMulti returns, every resolution
\* asked for has its slab, or an error under the name the caller gave it.
MultiAccountsForAll ==
    mpc = "done" => \A i \in DOMAIN wanted :
        Asked(i) \in errors \/ KeyOf[Asked(i)] \in DOMAIN slabs

\* client.go:131: "A failure on one resolution does not abort the others".
NoSiblingAbort ==
    \A i \in Slots : result[i] = [code |-> "canceled"] => canceled

\* What FetchPromise sees of a call.
Stage(f) == IF pc[f] = "idle" THEN "idle" ELSE IF f \in late THEN "late" ELSE "open"

Promise == INSTANCE FetchPromise WITH
    stage  <- [f \in Fetches |-> Stage(f)],
    answer <- result,
    multi  <- IF mpc = "spawn" THEN "running" ELSE mpc,
    report <- IF mpc = "done" THEN [slabs |-> slabs, errors |-> errors] ELSE Nothing,
    over   <- CloseReturned

\* client.go:49, 62-67, 129-132: the client implements FetchPromise.  A call is
\* answered once and for good, with a chart of its own key that was fetched for
\* it or for another call of that key, or with an error that has its reason;
\* FetchMulti returns what its slots were answered, each chart under its key and
\* each error under the caller's name.
ImplementsPromise == Promise!Spec

\* No call hangs: not behind FetchMulti's own limit on top of the pool's, and
\* not in a pool that is shut.
CallsReturn ==
    /\ \A f \in Solo : pc[f] # "idle" ~> pc[f] = "done"
    /\ mpc = "spawn" ~> mpc = "done"
=============================================================================
