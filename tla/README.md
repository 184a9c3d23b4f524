# tradingview-go, specified

A TLA+ development of `tradingview-go`, a Go SDK that fetches market data over
TradingView's websocket. The concurrent core (pool, chart sessions, client,
cache and streamer), the time limits of a fetch, the wire format and the volume
profile are modelled and model-checked. Every safety property that a passing run
checks is also proved, for all values of the constants: any number of goroutines, any
sizes, timeouts and bounds. Line numbers below refer to the files under `src/`.

## The system

| Component | State | Operations | Talks to |
|---|---|---|---|
| client facade, `client.go` | `closed`; the pool and the cache it owns | `Fetch`, `FetchMulti`, `Close` | cache (`get`, `put`), pool (`acquire`, `release`), conn (`fetchSeries`) |
| connection pool, `pool.go` | a weighted semaphore, the stack `free`, `closed`, `stop`, one reaper goroutine | `acquire`, `release`, `reapLoop`/`reapIdle`, `close` | `dial`, `conn.close` |
| connection, `conn.go` | a websocket and its write mutex | `dial` (three attempts, handshake), `fetchSeries`, `send`, `close` | TradingView's server |
| cache, `cache.go` | a list in order of use, an index by key, an expiry per entry | `get`, `put` | the clock |
| streamer, `stream.go` | a context, a WaitGroup, one goroutine and websocket per subscription | `Subscribe`, `Close` | `dial`, the server, the callback |
| wire format, `protocol.go` | the counter of session ids | `encodeFrame`, `decodeFrames`, `heartbeatPong`, `parseCandles`, `NormalizeResolution`, `NormalizeSymbol` | pure |
| symbol search, `search.go` | none | `SearchSymbols` | REST endpoint |
| analysis, `ta/ta.go` | none | enrichers, volume profile | pure |
| MCP adapter and commands, `mcp/`, `cmd/` | none | tools, flags, JSON | one client |

A fetch goes through four of them: `Fetch` checks `closed`, validates, asks the
cache, acquires a conn (a permit of the semaphore, then a pooled conn or a dial),
runs `fetchSeries` over it and releases it, healthy or not, and puts the chart
in the cache. `FetchMulti` runs one `Fetch` per resolution in an errgroup whose
limit is the pool's size. `Close` may come at any point of all of it.

What is hard about it, and where correctness lies:

* **Pool.** Locks are dropped around dials and around closing sockets, so the
  decision to dial, the dial, the reaper's pass and `close` interleave. A conn
  must never be with two goroutines, no permit and no socket may be lost on any
  error path, nothing fresh may be reaped, nothing may stay open after `close`.
* **Conn.** Conns are reused, and messages of one chart session are still in
  flight when the next begins. A conn on which something failed must not be used
  again; sessions must be torn down; every fetch must end, and in time: four
  limits (handshake, hello, fetch, the caller's context) bound its waits one after
  the other.
* **Wire format.** Lengths count bytes, and the server may count otherwise:
  `decodeFrames` has to find its way back. The ping is searched for in the whole
  message, other frames included.
* **Cache.** List, index and expiry change by separate statements on four
  paths. They must agree, evict the least recently used, and never serve stale
  data.
* **Client.** Results of parallel fetches are collected under two kinds of
  keys; one failure must not abort the others; a closed client must refuse.
* **Streamer.** Reconnects race with `Close`, which must return, and after which
  nothing may be delivered. A dial that fails half-way must not leak.

## The modules

| Module | Models | Depends on |
|---|---|---|
| `ConnPool` | `pool.go` | refines `ConnLease` |
| `ConnLease` | the promise of the pool: an exclusive lease of conns | |
| `ChartSession` | `fetchSeries`, `send`, `close` and the release that follows, one slot of the pool | |
| `Client` | `client.go`, with the pool as permits and the cache as `TTLMap` | `TTLMap`, refines `FetchPromise` |
| `FetchPromise` | the promise of the client: one answer per call, a report per `FetchMulti` | |
| `LRUCache` | `cache.go` | refines `TTLMap` |
| `TTLMap` | the promise of the cache: a hit is the last put, within its TTL | |
| `Streamer` | `stream.go` and the dial of `conn.go` | |
| `FetchClock` | one fetch with a clock: `fetchOnce`, `acquire`, `dial`, `fetchSeries` | |
| `Frames` | `decodeFrames`, `heartbeatPong` and the form of `encodeFrame`, on one message | |
| `Resolutions` | the two tables of `protocol.go` and `NormalizeResolution` | |
| `VolumeProfile` | `VolumeProfileEnricher.compute` of `ta/ta.go` | |
| `MCConnPool`, `MCClient`, `MCLRUCache`, `MCFrames` | values for TLC; `MCClient` takes its keys from `Resolutions` | |
| `ConnPool_proofs`, `ChartSession_proofs`, `Client_proofs`, `LRUCache_proofs`, `Streamer_proofs`, `FetchClock_proofs`, `VolumeProfile_proofs`, `Frames_proofs` | theorems about the module they are named after, and the lemmas on sequences they need | the module |

`Client` composes the others by their contracts: the cache by the specification
`LRUCache` is proved to implement, the pool by what `PermitAccounting` and
`AcquireReturns` say of it (a permit is held from acquire to release, a shut
pool refuses, acquire returns), a fetch by what `ChartSession` shows (it ends,
with bars or an error).

### ConnPool

A process per goroutine: fetchers go through `acquire`, the fetch, `release`;
closers through `close`; one reaper through `reapLoop` and `reapIdle`. A step is
one atomic section: one call of the semaphore, one section under `p.mu`, one
dial, one `conn.close()`. `cur` and `waiters` are the semaphore of
`golang.org/x/sync`: a release hands the permit to the first waiter, and a
waiter whose context ends may find that it was granted in the meantime. `lease`,
`drop` and `pending` are the local variables that keep a conn alive outside the
lock. The clock `now` ticks in reaper intervals, and the ticker's channel holds
one tick.

### ChartSession

One slot of the pool runs fetches one after the other. `pc` follows
`fetchSeries` statement by statement; `wdead` and `rdead` are the sticky errors
of the websocket, `c2s` and `s2c` the two directions of the link, `chart` the
server's view of the sessions. A message is a batch of frames, and a frame is a
heartbeat, bars or an error of some session, or anything else; each goes the way
the code sends it, the batch with a heartbeat included. The link may break at any
time, between two fetches too. A success leaves the socket and everything unread on it
to the next fetch, whether or not the deferred delete could be written; a failure
redials.

### Client

`pc[f]` is where a `Fetch` is; the slots of the errgroup run the same `Fetch`
and then record a slab under the normalized key or an error under the caller's
own spelling (`RecordSlab`, `RecordError`). `wanted` is what this `FetchMulti` was
asked for, any of `Batches`; a list of none is refused (`MultiEmpty`). `CloseFirst` sets `closed` and `ClosePool` shuts the
pool, in two steps; a second `Close` returns at once. The variable `late` remembers
the calls that began after some `Close` had returned.

`FetchPromise` is what a caller may rely on, without pool, cache, clock and errgroup: a
call that has begun is answered once, with a chart of its own key or with an error, and
each answer has its condition. A chart comes from the server, or was fetched by
another call of that key (only if `CacheTTLs` lists it); `"closed"` needs a `Close` that
has begun, and is the only answer to a call that began after one had returned; a
resolution of `FetchMulti` is `"canceled"` only if the caller's context is. `Report` says
what `FetchMulti` returns: under each key the chart of one of the resolutions that have
it, and an error for every resolution that failed; a list of none gets no report but an
error (`RejectEmpty`). `Client` maps to it what a caller
sees: `result`, `closed`, whether some `Close` has returned, and `slabs` and `errors` once
`FetchMulti` is done.

In the run the requests are real spellings (`"1h"`, `"60"`, `"45M"`, `"2x"`), and
`KeyOf` is `NormalizeResolution` of `Resolutions`: that `"1h"` and `"60"` share a
cache key and a slab comes out of the tables.

### Resolutions

The tables are functions, `NormalizeResolution` looks at them in the code's
order. Two assumptions state what the tables come to, and TLC evaluates them with
the client run: `WireFormsAreStable` (what comes out is a wire form, and normalizing
it again changes nothing) and `OneMonthIsAMinute` (the only wire form that does not
keep its meaning).

### LRUCache

`ll` is the list, front first, `idx` the index with the entries. The mutex
makes a `get` and a `put` one step each. `GetExpired` removes, `PutAgain`
restarts the TTL, `PutNew` cuts the list from the back. `latest` and `recent`
are histories: the last put under each key, and the keys by last use.

### Streamer

A process per call of `Subscribe`: the loop with its back-off, the dial with its
attempts and handshake, the stream, the callback. `socks` counts the websockets a
subscription has open. `closer` follows `Close` through `cancel` and the
WaitGroup's `Wait`. The WaitGroup panics when `Subscribe` uses it again between
the last `Done` and the return of `Wait`; the model has that outcome.

### FetchClock

One `fetchOnce` from the semaphore's queue to the end of the deferred delete.
`until` is the limit of the wait it is in: the upgrade (`HandshakeTimeout` or the
context's deadline), the hello, the delay between attempts, a read. Time passes in
a wait only up to its limit (`TickWait`), so what the limits fail to bound shows as
a clock that runs on. The time of other goroutines in the queue, and of a peer that
does not read in a write (writes have no deadline, `conn.go:206`), is unbounded in
the code; it is counted in `queued` and `stalled`, and the properties are about the
rest: of how long a blocked write may hold a fetch and its permit they say nothing.

### Frames

A message is put together from frames that declare a length of their own
(`Len(body) + off`). Strings are sequences of characters, and each way a round of
the loop in `decodeFrames` can go is an action: `Take`, `Resync` (the declared
length ends in the next marker's tilde), `Short` (less is left than declared),
`NoMarker`, `NoLength`, `NotANumber`, and `Panic` for a negative length, with which
the slice expression of line 57 panics. `Ping` is `heartbeatPong`, called first.

### VolumeProfile

`window` is any window of bars; the loop over the bars is one step a bar
(`Count`), and so is the loop that grows the value area (`GrowHigh`, `GrowLow`,
`GrowStuck`). The third branch of its `if` needs a negative volume and is part of
`GrowHigh`. Prices and volumes are integers whose shares are whole, so the model
says nothing about rounding: a float sum that misses its 70%, or a price that
falls into the next bin.

## The runs

| Run | What it checks | Instance |
|---|---|---|
| `pool` | `TypeOK`, `ExclusiveLease`, `NoConnLeak`, `PermitAccounting`, `OpenBound`, `ClosedPoolIsEmpty`, `NeverReapsFresh`, `ImplementsLease`, `AcquireReturns`, `CloseReleasesAll`, `IdleEventuallyReaped` | three fetchers, two closers, three conns, two permits |
| `pool_open_bound` | violated: `DocOpenBound` | one permit, three fetchers, one closer |
| `chart` | `TypeOK`, `ServerNeverSurprised`, `FailedNeverAnswers`, `FetchEnds`, `SessionsTornDown` | three fetches on one slot, two frames in flight |
| `chart_own_bars`, `chart_batch` | violated: `DocOwnBars`, `DocBatchDecides` | as `chart` |
| `cache` | `TypeOK`, `IndexMatchesList`, `EvictsOnlyOldest`, `ImplementsTTLMap` | four keys, two entries, five instants |
| `client` | `TypeOK`, `LateFetchRefused`, `MultiAccountsForAll`, `NoSiblingAbort`, `ImplementsPromise`, `CallsReturn` | one `FetchMulti` of three, of two or of none, one `Fetch`, two closers, two permits |
| `streamer` | `TypeOK`, `NoSocketLeft`, `DeliveredInOrder`, `CloseIsFinal`, `CloseReturns`, `KeepsStreaming` | two subscriptions, two bars per connection |
| `fetch_clock` | `TypeOK`, `EndsInTime`, `ByDeadline`, `CancelNoticed` | `HandshakeTimeout` 2, `FetchTimeout` 3, delays of 1 or 2, five deadlines or none |
| `fetch_timeout_cap` | violated: `DocFetchTimeoutCaps` | as `fetch_clock` |
| `frames` | `WrongLengthIsContained`, `PongEchoesFirst`, and that the loop ends | every message of up to three frames, five bodies, lengths off by -2 to 3 |
| `volume_profile` | `EveryBarCounted`, `AreaHoldsTarget`, and that growth ends | every window of three bars over six prices, four bins |

### What the violations show

* `pool_open_bound`: README.md says `PoolSize` is the maximum of concurrent
  websockets. The reaper closes outside the lock what it took off the stack
  inside it, and an `acquire` in between dials. `2 * PoolSize` is the bound that
  holds (`OpenBound`, proved).
* `chart_own_bars`: `conn.go:17` says that sessions of one conn never collide.
  `fetchSeries` takes the first update it reads, whichever session it is of: what
  is left of the previous fetch on a reused conn answers the next one.
* `chart_batch`: `protocol.go:27` says a raw message is split into its JSON and
  heartbeat parts. A heartbeat anywhere in it makes `fetchSeries` skip the rest.
* `fetch_timeout_cap`: `config.go:25` says that `FetchTimeout` caps handshake,
  subscribe and read. It starts after the handshake; what does hold is
  `EndsInTime`: `FetchTimeout` on a pooled conn, and on a new one up to six
  `HandshakeTimeout`s (upgrade and hello, three attempts) and two delays more.

More that a passing run has in it: `conn.go:121` says that the pool drops a broken
conn on the next acquire, while `acquire` looks at nothing: a conn on which the deferred
delete failed is released as healthy and handed to the next fetch, which fails at its
first request (`chart`: `SendDelete` on a broken link, then `ReleaseHealthy`, `Begin` and
`SendCreate`; that it gets no further is part of `FailedNeverAnswers`); a bar
whose low is its window's maximum is counted in no bin of the volume profile
(`volume_profile`: the exception in `EveryBarCounted`); `1M` is listed as a wire form
(`protocol.go:137`) and normalized to `1`, a minute (`client`: `OneMonthIsAMinute`); a
length that is too large by two or more loses the rest of its message, and a
negative one panics (`frames`: what `Harmless` leaves out). And one outside the models:
`client.go:49` says that calls after `Close` return `ErrClosed`, and `SearchSymbols`
does not look.

### Bounds, and why they are enough

* *Pool.* Conns are interchangeable, and a closed one is reused as the identity
  of a later dial, so `Conns` bounds conns alive at once, not dials: three are two
  in use beside one that the reaper still has to close. With three fetchers on two
  permits one waits while two are anywhere between acquire and release, next to
  the reaper and two closers, and the stack can hold an expired conn beside a
  fresh one. Liveness is checked in the same run, so there is no symmetry. The
  first part of `OpenBound` is tight here; its second, `2 * PoolSize` sockets, needs
  more conns and is proved. The proofs lift the safety properties to any size.
* *Chart.* Three fetches: one may leave something for the next, which may fail,
  and a third runs on the new conn. Two frames in flight make one batch of two,
  or two messages.
* *Cache.* `CacheSize` 2 with four keys gives evictions in every order of two
  kept entries, one key that cannot be cached and one that expires before the
  others. Proofs lift all four properties to any size.
* *Client.* One batch has an invalid request, one whose key has no TTL and one
  that `Solo` asks for too; another has two spellings of one key; the third is empty:
  the cases `Fetch` and `FetchMulti` treat differently. The first is longer than the pool, so
  that the errgroup's limit and the permits both bind. `MaxTime` 1 is long enough
  for one entry to be served; expiry is `LRUCache`'s matter.
* *Streamer.* Two subscriptions make the WaitGroup's counter reach zero after
  one of them, or again. Two bars can be reordered; the number of connections,
  heartbeats and failed dials is not bounded.
* *Fetch clock.* The limits differ from one another and from their sums, so that
  one taken for the other shows. Deadlines: past at the start, during the first
  handshake, between attempts, late in a dial, and none. `MaxTime` 26 is beyond the
  longest fetch: three attempts of two times 2, delays of 2 and 4, `FetchTimeout` 3,
  and 2 in the queue and in writes.
* *Frames.* The bodies: empty, an object, one with a marker in a string, two
  heartbeats with different numbers. Offsets -2 to 3 declare too little, one too
  many (the tilde), two or three too many (into the marker), and a negative length;
  three frames give each a frame before and after it.
* *Volume profile.* Six prices in four bins put a bar in one bin, in several, on
  a boundary, and at either end of the range; volumes of 0, 12 and 36 give empty
  bins, equal neighbours, and areas short of and past the target. 12 is
  divisible by every number of bins a bar may span.

### Fairness

* *Pool*: every goroutine inside a call proceeds; dials and fetches end because
  of their timeouts; nobody has to call anything, and time need not pass.
* *Chart*: the goroutine of the fetch proceeds, its deadline passes, and the
  server takes requests off an unbroken link. The server owes no answer.
* *Client*: the goroutine of every call proceeds; a fetch ends. Weak fairness is
  enough for the semaphore, too: nobody calls again, so a permit that is given back
  stays until somebody has taken it.
* *Streamer*: the goroutines and `Close` proceed and callbacks return. A read ends
  because of its 60 s deadline, a handshake because of `HandshakeTimeout`.

`CHECK_DEADLOCK FALSE` stands where the system really may stop: all calls have
returned and the bounded clock or the bounded number of fetches is used up, or
(streamer) every subscription has ended.

## The proofs

`ConnPool_proofs` proves, for any finite set of fetchers, any closers and conns
and any `PoolSize` and `IdleTimeout` that satisfy `PoolAssumption`:

| Theorem | Says |
|---|---|
| `TypeCorrect` | `Spec => []TypeOK`; `close(p.stop)` at most once included, which the flags of the pool and of the client both see to |
| `PermitsAccounted` | `Spec => []PermitAccounting` |
| `LeaseIsExclusive` | `Spec => []ExclusiveLease` |
| `NothingLeaks` | `Spec => []NoConnLeak` |
| `ClosedStaysEmpty` | `Spec => []ClosedPoolIsEmpty` |
| `FreshIsNotReaped` | `Spec => NeverReapsFresh` |
| `OpenIsBounded` | `Spec => []OpenBound` |
| `PoolImplementsLease` | `Spec => ImplementsLease` |

The inductive invariant is built in layers, each inductive relative to the ones
before it:

1. `BaseInv`: the types, without the bounds on `cur`; a fetcher holds a conn
   exactly when its `pc` says so (`LeaseByPc`); the queue holds each waiting
   fetcher once (`QueueInv`). Without the last, a served waiter could be served
   again.
2. `PermitInv`: `cur` is the number of fetchers between `Acquire` and `Release`,
   and nobody waits while a permit is free. It gives the upper end of `cur` in
   `TypeOK`.
3. `OwnerInv`: the open conns are exactly the leased, free, dropped and pending
   ones; these four sets are disjoint, each conn has one owner within its set,
   and who has nothing to close holds nothing to close. None of exclusive lease,
   no leak and the empty closed pool is inductive alone: that `AcquireFree`
   leases a conn nobody holds needs all four sets.
4. `StopInv`: only the closer that found the pool open gets to `close(p.stop)`,
   and `stops` is still 0 when it does. It gives the bound on `stops` in `TypeOK`.
5. `CutoffInv`: when the reaper filters, its cutoff is at least `IdleTimeout`
   back; the clock may only have moved on since it was read.
6. `SizeInv`: conns in use, kept and pending at a closer are together at most
   `PoolSize`, and so are the dropped ones. A dial starts only when nothing is
   kept, and its permit is not spent on another conn; `OpenBound` adds the two
   bounds up.

`ChartSession_proofs` is about any number of fetches on a slot and of frames in flight:

| Theorem | Says |
|---|---|
| `Typed` | `Spec => []TypeOK` |
| `FailedAnswersNobody` | `Spec => []FailedNeverAnswers` |
| `ServerGetsWhatItExpects` | `Spec => []ServerNeverSurprised` |

`ConnInv` says whom the messages are about: all that is live on the server, on its
way in either direction, or returned is of a session of this conn, `first .. session`,
and the failed fetches came before `first`; a fetch on a websocket that has failed is at
its first request or at its end. `ServerInv` is about what the server is
asked. While the link is up the requests in flight, and the one to be written next
(`Upcoming`), are consecutive in the one sequence create, resolve, series, delete,
create of the next session, and so on (`Line`, `Follows`), and the server has done all
that comes before the first of them and nothing after (`Ready`). That the server is
never surprised is about one message alone and not inductive: the next one is expected
only because all before it were, in this order.

`Client_proofs`, for any callers, closers, requests, batches, pool sizes and TTLs that
satisfy `ClientAssumption` and `NothingAssumption` (the marker of no result is not a
result):

| Theorem | Says |
|---|---|
| `ClientTypeCorrect` | `Spec => []TypeOK` |
| `LateFetchGetsErrClosed` | `Spec => []LateFetchRefused` |
| `ChartsAreOwn` | `Spec => []OwnKey`: a chart that a call returns is of its own key |
| `EverySlotAccounted` | `Spec => []MultiAccountsForAll` |
| `SiblingsGoOn` | `Spec => []NoSiblingAbort` |
| `ClientKeepsPromise` | `Spec => ImplementsPromise` |

`GroupInv` is the errgroup: only the slots it has started run, and when `g.Wait` has
returned, all of them have ended; only then is its context canceled. `AnswerInv` says
that a chart is of the key it is held for wherever it is held (cache, result, slab), and
that a slot that is done is in `errors` or in `slabs`. `CloseInv` says that a closer past
its first step has set `closed`, and that a call that began after it is at its check or
over. The first two need each other: `mpc = "done"` gives nothing about the results
unless done slots are accounted for, and a slot counts only if the group started it.

The refinement needs two more. `OnceInv` says that a call has its answer when it has
stopped working and not before, so that none is answered twice; that what is in the
cache some call got from the server, under a key with a TTL; and that only a closed
client has a pool that is shut, so that a refusal has its reason. `ReportInv` keeps the
account of `FetchMulti` exactly: the errors are those of the failed slots, the slabs are
under the keys of the others, and each is the chart of a slot with that key, though the
slots write them in any order. `FetchSeen`, `RecordSeen` and `ReportSeen` then map each
step of the client to one of the promise or to none: recording is not seen, and
`g.Wait` returns the whole report at once.

`LRUCache_proofs`, for every `CacheSize`, `TTL` and order of calls:

| Theorem | Says |
|---|---|
| `CacheTypeCorrect` | `Spec => []TypeOK`; it says also that an entry expires at most one TTL from now, whatever was put over it |
| `IndexAgrees` | `Spec => []IndexMatchesList` |
| `OldestIsEvicted` | `Spec => EvictsOnlyOldest` |
| `CacheImplementsTTLMap` | `Spec => ImplementsTTLMap` |

`CacheInv` adds to the types that the list holds each key once, exactly the indexed
keys, at most `CacheSize` of them, and that an indexed entry is the last one put under
its key: the link by which a hit of the list is a hit of the map. `UseOrder` says that
the list is the history of use without the keys that have left, so that its back is
what was used longest ago.

`Streamer_proofs`, for any set of subscriptions, number of bars and messages in flight:

| Theorem | Says |
|---|---|
| `StreamerTypeCorrect` | `Spec => []TypeOK` |
| `SocketsAreClosed` | `Spec => []NoSocketLeft` |
| `BarsInOrder` | `Spec => []DeliveredInOrder` |
| `CloseEndsAll` | `Spec => CloseIsFinal` |

`CountInv` says that the WaitGroup's counter is the number of goroutines that have
started and not ended, `SocketInv` that a goroutine has one websocket between the
upgrade and the close and none elsewhere. `CloseInv` rests on the first: `Wait` is
let go at zero, so no goroutine is past the top of its loop, and with the context
canceled none gets past it again. `OrderInv` carries the order of the bars from the
server to the callback: delivered, read but not delivered, and in flight, each part is
increasing and comes before the next.

`FetchClock_proofs` proves all that the `fetch_clock` run checks, for all timeouts and
delays, every set of deadlines and every bound of the clock (`ClockAssumption`):
`ClockTypeCorrect`, `FetchEndsInTime`, `DeadlineIsKept` and `CancellationIsNoticed`. A
bound on the clock is not inductive; what is bounds the limit of the wait the fetch
is in by the limits of all the waits before it. `TypeInv` says no wait is past its
limit (an upgrade ends before the deadline that the hello then gets, or was never
begun); `TimeInv` keeps the account attempt by attempt (`Used`), `DeadlineInv` the one
against the deadline, `CancelInv` the one of a cancellation. Each is inductive
relative to `TypeInv`.

`VolumeProfile_proofs`, for any number of bins, length of the window, prices and volumes
that satisfy `ProfileAssumption` (shares are whole):

| Theorem | Says |
|---|---|
| `NoBarIsLost` | `Spec => []EveryBarCounted` |
| `AreaIsAroundBusiest` | `Spec => []AreaHoldsTarget` |
| `NoIdleRound` | `Spec => []GrowthGoesOn`: a round of the growing loop stops or grows |

`ProfileInv` adds to the two properties the types, that the bins are empty before the
first bar is counted, and that they stay so in a window without a range: without that a
flat window could end below its target. The rest is arithmetic. A price of the window
has a bin in `0 .. Bins`, `Bins` only at the very top, and bins are monotonic in prices
(`BinFacts`); so a bar's `start` is past its `end` exactly when its low is the window's
high. What the bins hold is a sum, and a sum is defined by recursion: `PartialSumsDef`
shows that the recursive function exists, `RaisedSum` what a bar adds to it. The
induction is over a set of numbers (`InductionTo`), from the fact that a set of natural
numbers that is not empty has a least element.

`Frames_proofs`, for messages of any number of frames, any lengths of one digit, and
every set of bodies that satisfies `BodiesAssumption`:

| Theorem | Says |
|---|---|
| `FramesInvariant` | `Spec => []FramesInv` |
| `WrongLengthContained` | `Spec => []WrongLengthIsContained` |
| `PongIsTheFirst` | `Spec => []PongEchoesFirst` |

`FramesInv` says where in the message the loop is. As long as nothing has gone wrong,
what is left is `Rest(batch, k)`, the message without its first `k` frames, with a piece
of the last body before it that no search stops at (`InStep`), and what has come out
are the first `k` bodies (`KeptSoFar`). That a length was wrong can be seen in `raw`
only by the piece it leaves: none (right, or one too many, where the tilde goes
back), or a rest of the body without a marker; `FirstAt` shows that the next header is
then still the first thing found. After the first harmful length nothing is said of
what is left, only that the frames before it have come out (`PastHarm`); but then
`MinusInMessage` is needed, for the claim about panics: wherever in the message the
loop looks, the text of a negative length is there only if a frame declares one. For the
pong, `Answer` shows, from the last frame backwards, that the first tag of `Rest(batch, k)`
is that of the first heartbeat after `k`.

`BodiesAssumption` asks of every body what these searches of raw text rely on
(`Separable`). Each part excludes bodies with which one of the properties fails, as
TLC shows when such a body is put into the run:

* a tag only where a heartbeat begins, and no tilde after it (`~h~7`): another tag is
  answered as if it were a heartbeat, or a tilde ends the number too early
  (`PongEchoesFirst`);
* nothing that looks like the header of a negative length: `~m~-1~m~` inside the body
  of a frame that declares too little is parsed as a header and panics, with no negative
  length declared (the first part of `WrongLengthIsContained`);
* no `~m` at the end: with the tilde of the next header it is a marker, and the frame
  after it is lost (the second part).

A marker within a body is allowed. Nothing in `protocol.go` guarantees the assumption;
it holds of what the server is known to send, JSON objects, which end in a brace, and
heartbeats of a number, unless a string in the JSON holds a tag or a negative header.

Only model-checked:

* liveness (`AcquireReturns`, `CloseReleasesAll`, `IdleEventuallyReaped`, `FetchEnds`,
  `SessionsTornDown`, `CallsReturn`, `CloseReturns`, `KeepsStreaming`), and the absence of
  deadlock: the prover has no rules for fairness and `ENABLED`.

## Not modelled

* `parseCandles` and `asFloat`, which pick numbers out of decoded JSON: `ChartSession`
  and `Streamer` have frames that carry bars and frames that do not. Bodies in `Frames`
  are a few characters, and encoded JSON is valid when its braces match. Wording of
  messages, logging, JSON shapes and URLs carry no property here.
* Durations outside `FetchClock`: the other models have waits that end, or a clock of
  reaper intervals or cache ticks.
* Writes that block: `FetchClock` has them, in the other models they return.
* In `Frames` a length has one digit: past the first harmful length, a body that itself
  holds a header such as `~m~12~m~` ends the model's loop, where the code would read 12.
  No property speaks of what comes out there. In `Resolutions`, lower-case spellings
  other than the listed ones stay as they are; the client run has one, `"2x"`, which is
  unknown either way.
* An `onCandle` that calls `Close`, which then waits for its own goroutine
  (`stream.go:118`), and a subscription to an unknown symbol, which stays connected
  without bars (`stream.go:107`): the code promises nothing about either.
* The floats of `ta/ta.go`, its other enrichers, and the indicator library it
  calls.
* `mcp/` and `cmd/`: stateless wrappers of one client. `search.go` has no state
  either: one request, deduplication and a limit.
* `withDefaults` of `config.go`: that its numbers are positive is the named
  assumption of each module.

## Plan

Done, in this order: `ConnPool` with `ConnLease` and its proofs, `ChartSession`,
`LRUCache` with `TTLMap` and its proofs, `Client`, `Streamer`, `VolumeProfile`,
`Resolutions`, `FetchClock` and its proofs, `Frames`; then the proofs of `ChartSession`,
`Streamer`, `Client`, of eviction, of `VolumeProfile` and of `Frames`;
`FetchPromise` and the refinement of `Client`.

What would come next: a bound on the age of a chart that the cache serves (today it is
the TTL from the put, and nothing bounds the time from fetch to put), and the floats of
`ta/ta.go`, for which the integers of `VolumeProfile` say nothing.
