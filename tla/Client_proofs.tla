---------------------------- MODULE Client_proofs ----------------------------
(***************************************************************************)
(* Proofs about Client, for any sets of callers, closers, requests and     *)
(* batches, any pool size and any TTLs.                                    *)
(***************************************************************************)
EXTENDS Client, SequenceTheorems, TLAPS

Phases == {"idle", "check", "lookup", "acquire", "acquired", "fetching",
           "store", "record", "done"}

\* Where a call is that has no result yet, and where it has passed validation.
Working == {"check", "lookup", "acquire", "acquired", "fetching"}
Valid   == {"lookup", "acquire", "acquired", "fetching", "store"}

Entries == [data : Charts, expiresAt : Int]

Types ==
    /\ closed \in BOOLEAN /\ shut \in BOOLEAN
    /\ aborted \in BOOLEAN /\ canceled \in BOOLEAN
    /\ cpc \in [Closers -> {"idle", "pool", "done"}]
    /\ pc \in [Fetches -> Phases]
    /\ result \in [Fetches -> Outcomes \cup {Nothing}]
    /\ late \subseteq Solo
    /\ wanted \in Batches
    /\ mpc \in {"idle", "spawn", "done", "refused", "invalid"}
    /\ spawned \in 0 .. Len(wanted)
    /\ DOMAIN slabs \subseteq Keys /\ Range(slabs) \subseteq Charts
    /\ errors \subseteq Requests
    /\ now \in 0 .. MaxTime
    /\ promise \in [Keys -> Entries \cup {Nothing}]

(***************************************************************************)
(* The errgroup: its goroutines are those of the slots it has started, and *)
(* when g.Wait has returned, all of them have ended.  Only then is gctx    *)
(* canceled.                                                               *)
(***************************************************************************)
GroupInv ==
    /\ \A i \in Slots : pc[i] # "idle" => i \in 1 .. spawned
    /\ \A f \in Solo : pc[f] # "record"
    /\ mpc = "done" =>
          spawned = Len(wanted) /\ \A i \in 1 .. spawned : pc[i] = "done"
    /\ aborted => mpc = "done"

(***************************************************************************)
(* What calls and the cache hold: every chart is of the key it is held     *)
(* for, and what a slot has returned is accounted for when it is done.     *)
(***************************************************************************)
Accounted(i) == Asked(i) \in errors \/ KeyOf[Asked(i)] \in DOMAIN slabs

AnswerInv ==
    /\ \A f \in Fetches :
          /\ pc[f] \in Valid => KeyOf[Asked(f)] \in Keys
          /\ pc[f] = "idle" => result[f] = Nothing
          /\ pc[f] = "store" => result[f] # Nothing /\ Succeeded(f)
          /\ pc[f] = "record" => result[f] # Nothing
    /\ \A k \in Keys : promise[k] # Nothing => promise[k].data.key = k
    /\ \A i \in Slots : pc[i] = "done" => Accounted(i)
    /\ OwnKey
    /\ NoSiblingAbort

(***************************************************************************)
(* A Close that has returned, or is past its flag, has set the flag; a     *)
(* call that began after it gets no further than the check.                *)
(***************************************************************************)
CloseInv ==
    /\ \A k \in Closers : cpc[k] # "idle" => closed
    /\ \A f \in late :
          /\ closed
          /\ pc[f] \in {"check", "done"}
          /\ result[f] \in {Nothing, [code |-> "closed"]}
-----------------------------------------------------------------------------
(* Steps *)

\* A call goes on.
Going(f) ==
    \E to \in {"lookup", "acquire", "acquired", "fetching"} :
        /\ Goes(f, to)
        /\ pc[f] \in {"check", "lookup", "acquire", "acquired"}
        /\ pc[f] = "check" => ~closed /\ KeyOf[Asked(f)] # Nothing
        /\ UNCHANGED <<closeVars, late, multiVars, callerVars, cacheVars>>

\* A call is over, but for what a slot has to record.
Ending(f) ==
    \E r \in Outcomes :
        /\ Returns(f, r)
        /\ pc[f] \in Working
        /\ pc[f] = "check" /\ closed => r = [code |-> "closed"]
        /\ r = [code |-> "canceled"] => CtxDone(f)
        /\ r.code \in {"ok", "hit"} =>
              /\ KeyOf[Asked(f)] \in Keys
              /\ promise[KeyOf[Asked(f)]] # Nothing
              /\ r.chart = promise[KeyOf[Asked(f)]].data
        /\ UNCHANGED <<closeVars, late, multiVars, callerVars, cacheVars>>

\* Four actions of Fetch.
LEMMA GoingOnly ==
    ASSUME NEW f \in Fetches,
           CheckOk(f) \/ LookupMiss(f) \/ Acquire(f) \/ AcquireConn(f)
    PROVE  Going(f)
<1>1. CASE CheckOk(f)
  BY <1>1 DEF CheckOk, Going
<1>2. CASE LookupMiss(f)
  BY <1>2 DEF LookupMiss, Going
<1>3. CASE Acquire(f)
  BY <1>3 DEF Acquire, Going
<1>4. CASE AcquireConn(f)
  BY <1>4 DEF AcquireConn, Going
<1> QED
  BY <1>1, <1>2, <1>3, <1>4

\* What a call can end with is one of the outcomes.
LEMMA OutcomeTypes ==
    /\ \A c \in {"closed", "invalid", "canceled", "failed"} :
          [code |-> c] \in Outcomes
    /\ \A c \in {"ok", "hit"}, d \in Charts :
          [code |-> c, chart |-> d] \in Outcomes
    /\ \A r \in Outcomes : r.code \in {"ok", "hit"} => r.chart \in Charts
    /\ \A r \in Outcomes : r.code \notin {"ok", "hit"} => r = [code |-> r.code]
  BY DEF Outcomes

\* An entry of the cache that has not expired holds a chart.
LEMMA EntryTypes ==
    ASSUME Types, NEW k \in Keys, promise[k] # Nothing
    PROVE  /\ promise[k].data \in Charts
           /\ promise[k] \in Entries
  BY DEF Types, Entries

\* A hit, a refusal and a failure end a call.
LEMMA EndingOnly ==
    ASSUME Types, AnswerInv, NEW f \in Fetches,
           \/ CheckClosed(f) \/ CheckInvalid(f) \/ LookupHit(f)
           \/ AcquireCanceled(f) \/ AcquireRefused(f) \/ FetchFails(f)
    PROVE  Ending(f)
<1>1. CASE CheckClosed(f)
  BY <1>1, OutcomeTypes DEF CheckClosed, Ending, Working
<1>2. CASE CheckInvalid(f)
  BY <1>2, OutcomeTypes DEF CheckInvalid, Ending, Working
<1>3. CASE LookupHit(f)
  <2> DEFINE k == KeyOf[Asked(f)]
             r == [code |-> "hit", chart |-> promise[k].data]
  <2>1. k \in Keys /\ promise[k] # Nothing
    BY <1>3 DEF LookupHit, AnswerInv, Valid, Cache!Unexpired
  <2>2. r \in Outcomes
    BY <2>1, EntryTypes, OutcomeTypes
  <2> QED
    BY <1>3, <2>1, <2>2 DEF LookupHit, Ending, Working
<1>4. CASE AcquireCanceled(f)
  BY <1>4, OutcomeTypes DEF AcquireCanceled, Ending, Working
<1>5. CASE AcquireRefused(f)
  BY <1>5, OutcomeTypes DEF AcquireRefused, Ending, Working
<1>6. CASE FetchFails(f)
  <2>1. PICK c \in {"failed", "canceled"} :
           (c = "canceled" => CtxDone(f)) /\ Returns(f, [code |-> c])
    BY <1>6 DEF FetchFails
  <2>2. [code |-> c] = [code |-> "canceled"] => c = "canceled"
    OBVIOUS
  <2> QED
    BY <1>6, <2>1, <2>2, OutcomeTypes DEF FetchFails, Ending, Working
<1> QED
  BY <1>1, <1>2, <1>3, <1>4, <1>5, <1>6

\* Whatever happens.
LEMMA Steps ==
    ASSUME Types, AnswerInv, [Next]_vars
    PROVE  \/ \E f \in Fetches :
                 Call(f) \/ Going(f) \/ Ending(f) \/ FetchOk(f) \/ Store(f)
           \/ \E i \in Slots : RecordSlab(i) \/ RecordError(i)
           \/ MultiClosed \/ MultiEmpty \/ MultiStart \/ Spawn \/ MultiWait
           \/ \E k \in Closers : CloseFirst(k) \/ CloseAgain(k) \/ ClosePool(k)
           \/ Cancel \/ Tick \/ UNCHANGED vars
  BY GoingOnly, EndingOnly DEF Next, Fetch, Record, FetchMulti, Close

\* A call, once begun, is for a request.
LEMMA AskedTypes ==
    ASSUME Types, NEW f \in Fetches, f \in Slots => f \in 1 .. spawned
    PROVE  Asked(f) \in Requests /\ KeyOf[Asked(f)] \in Keys \cup {Nothing}
<1>1. CASE f \in Slots
  <2>1. wanted \in Seq(Requests) /\ f \in 1 .. Len(wanted)
    BY <1>1, ClientAssumption DEF Types, ClientAssumption
  <2>2. wanted[f] \in Requests
    BY <2>1, ElementOfSeq
  <2> QED
    BY <1>1, <2>2, ClientAssumption DEF Asked, ClientAssumption
<1>2. CASE f \notin Slots
  BY <1>2, ClientAssumption DEF Asked, Fetches, ClientAssumption
<1> QED
  BY <1>1, <1>2

\* The errgroup starts slots of the batch.
LEMMA SpawnTypes ==
    ASSUME Types, spawned < Len(wanted)
    PROVE  /\ spawned + 1 \in 1 .. Len(wanted)
           /\ spawned + 1 \in Slots /\ spawned + 1 \in Fetches
           /\ spawned + 1 \notin Solo
<1>1. wanted \in Seq(Requests)
  BY ClientAssumption DEF Types, ClientAssumption
<1>2. spawned + 1 \in DOMAIN wanted
  BY <1>1, LenProperties DEF Types
<1>3. spawned + 1 \in Slots
  BY <1>2 DEF Types, Slots
<1> QED
  BY <1>1, <1>2, <1>3, LenProperties, ClientAssumption DEF Fetches, ClientAssumption

-----------------------------------------------------------------------------
(* Types *)

\* A result with bars has a chart.
LEMMA SucceededTypes ==
    ASSUME Types, NEW f \in Fetches, result[f] # Nothing, Succeeded(f)
    PROVE  /\ result[f] \in Outcomes /\ result[f].code \in {"ok", "hit"}
           /\ result[f].chart \in Charts /\ result[f].chart.key \in Keys
<1>1. result[f] \in Outcomes /\ result[f].code \in {"ok", "hit"}
  BY DEF Types, Succeeded
<1>2. result[f].chart \in Charts
  BY <1>1, OutcomeTypes
<1> QED
  BY <1>1, <1>2 DEF Charts

\* A new slab joins the others.
LEMMA SlabTypes ==
    ASSUME Types, NEW c \in Charts,
           slabs' = [x \in DOMAIN slabs \cup {c.key} |->
                        IF x = c.key THEN c ELSE slabs[x]]
    PROVE  /\ DOMAIN slabs' = DOMAIN slabs \cup {c.key}
           /\ DOMAIN slabs' \subseteq Keys /\ Range(slabs') \subseteq Charts
<1>1. DOMAIN slabs' = DOMAIN slabs \cup {c.key}
  OBVIOUS
<1>2. c.key \in Keys
  BY DEF Charts
<1>3. \A x \in DOMAIN slabs : slabs[x] \in Charts
  BY DEF Types, Range
<1>4. \A x \in DOMAIN slabs' : slabs'[x] \in Charts
  BY <1>1, <1>3
<1>5. Range(slabs') \subseteq Charts
  BY <1>4 DEF Range
<1> QED
  BY <1>1, <1>2, <1>5 DEF Types

\* Every step keeps the types.
LEMMA TypeNext == Types /\ GroupInv /\ AnswerInv /\ [Next]_vars => Types'
<1> SUFFICES ASSUME Types, GroupInv, AnswerInv, [Next]_vars
             PROVE  Types'
  OBVIOUS
<1> USE DEF Types, closeVars, callVars, multiVars, callerVars, cacheVars
<1>1. ASSUME NEW f \in Fetches, Call(f)
      PROVE  Types'
  <2>1. pc' \in [Fetches -> Phases]
    BY <1>1 DEF Call, Goes, Phases
  <2> QED
    BY <1>1, <2>1 DEF Call, Goes
<1>2. ASSUME NEW f \in Fetches, Going(f)
      PROVE  Types'
  <2>1. PICK to \in Phases : pc' = [pc EXCEPT ![f] = to]
    BY <1>2 DEF Going, Goes, Phases
  <2> QED
    BY <1>2, <2>1 DEF Going, Goes
<1>3. ASSUME NEW f \in Fetches, Ending(f)
      PROVE  Types'
  <2>1. PICK r \in Outcomes : Returns(f, r)
    BY <1>3 DEF Ending
  <2>2. pc' \in [Fetches -> Phases]
    BY <2>1 DEF Returns, Phases
  <2>3. result' \in [Fetches -> Outcomes \cup {Nothing}]
    BY <2>1 DEF Returns
  <2> QED
    BY <1>3, <2>2, <2>3 DEF Ending
<1>4. ASSUME NEW f \in Fetches, FetchOk(f)
      PROVE  Types'
  <2>1. KeyOf[Asked(f)] \in Keys
    BY <1>4 DEF FetchOk, AnswerInv, Valid
  <2>2. [key |-> KeyOf[Asked(f)], at |-> now] \in Charts
    BY <2>1 DEF Charts
  <2>3. [code |-> "ok", chart |-> [key |-> KeyOf[Asked(f)], at |-> now]] \in Outcomes
    BY <2>2, OutcomeTypes
  <2>4. pc' \in [Fetches -> Phases]
    BY <1>4 DEF FetchOk, Phases
  <2> QED
    BY <1>4, <2>3, <2>4 DEF FetchOk
<1>5. ASSUME NEW f \in Fetches, Store(f)
      PROVE  Types'
  <2> DEFINE k == KeyOf[Asked(f)]
  <2>1. /\ k \in Keys
        /\ result[f] # Nothing /\ Succeeded(f)
    BY <1>5 DEF Store, AnswerInv, Valid
  <2>2. result[f].chart \in Charts
    BY <2>1, SucceededTypes
  <2>3. now + TTL[k] \in Int
    BY <2>1, ClientAssumption DEF ClientAssumption
  <2>4. [data |-> result[f].chart, expiresAt |-> now + TTL[k]] \in Entries
    BY <2>2, <2>3 DEF Entries
  <2>5. promise' \in [Keys -> Entries \cup {Nothing}]
    BY <1>5, <2>1, <2>4 DEF Store, Cache!Promised
  <2>6. pc' \in [Fetches -> Phases]
    BY <1>5 DEF Store, Phases
  <2> QED
    BY <1>5, <2>5, <2>6 DEF Store
<1>6. ASSUME NEW i \in Slots, RecordSlab(i)
      PROVE  Types'
  <2>1. result[i] # Nothing /\ Succeeded(i) /\ i \in Fetches
    BY <1>6 DEF RecordSlab, AnswerInv, Fetches
  <2>2. result[i].chart \in Charts
    BY <2>1, SucceededTypes
  <2>3. DOMAIN slabs' \subseteq Keys /\ Range(slabs') \subseteq Charts
    BY <1>6, <2>2, SlabTypes DEF RecordSlab
  <2>4. pc' \in [Fetches -> Phases]
    BY <1>6 DEF RecordSlab, Goes, Phases
  <2> QED
    BY <1>6, <2>3, <2>4 DEF RecordSlab, Goes
<1>7. ASSUME NEW i \in Slots, RecordError(i)
      PROVE  Types'
  <2>1. i \in Fetches /\ i \in 1 .. spawned
    BY <1>7 DEF RecordError, GroupInv, Fetches
  <2>2. Asked(i) \in Requests
    BY <2>1, AskedTypes
  <2>3. pc' \in [Fetches -> Phases]
    BY <1>7 DEF RecordError, Goes, Phases
  <2> QED
    BY <1>7, <2>2, <2>3 DEF RecordError, Goes
<1>8. CASE MultiClosed
  BY <1>8 DEF MultiClosed
<1>9. CASE MultiEmpty \/ MultiStart
  BY <1>9 DEF MultiEmpty, MultiStart
<1>10. CASE Spawn
  <2>1. pc' \in [Fetches -> Phases]
    BY <1>10 DEF Spawn, Goes, Phases
  <2>2. spawned' \in 0 .. Len(wanted)
    BY <1>10, SpawnTypes DEF Spawn
  <2> QED
    BY <1>10, <2>1, <2>2 DEF Spawn, Goes
<1>11. CASE MultiWait
  BY <1>11 DEF MultiWait
<1>12. ASSUME NEW k \in Closers, CloseFirst(k)
      PROVE  Types'
  BY <1>12 DEF CloseFirst
<1>13. ASSUME NEW k \in Closers, CloseAgain(k)
      PROVE  Types'
  BY <1>13 DEF CloseAgain
<1>14. ASSUME NEW k \in Closers, ClosePool(k)
      PROVE  Types'
  BY <1>14 DEF ClosePool
<1>15. CASE Cancel
  BY <1>15 DEF Cancel
<1>16. CASE Tick
  BY <1>16, ClientAssumption DEF Tick, ClientAssumption
<1>17. CASE UNCHANGED vars
  BY <1>17 DEF vars
<1> QED
  BY <1>1, <1>2, <1>3, <1>4, <1>5, <1>6, <1>7, <1>8, <1>9, <1>10, <1>11,
     <1>12, <1>13, <1>14, <1>15, <1>16, <1>17, Steps

-----------------------------------------------------------------------------
(* The errgroup *)

\* The started slots are slots, and no solo call is one.
LEMMA SlotTypes ==
    ASSUME Types
    PROVE  /\ 1 .. spawned \subseteq Slots
           /\ \A f \in Solo : f \notin 1 .. spawned /\ f \notin Slots
<1>1. wanted \in Seq(Requests) /\ DOMAIN wanted \subseteq Slots
  BY ClientAssumption DEF Types, ClientAssumption, Slots
<1>2. 1 .. spawned \subseteq DOMAIN wanted
  BY <1>1, LenProperties DEF Types
<1> QED
  BY <1>1, <1>2, ClientAssumption DEF ClientAssumption

\* A call that goes on, or ends, is one that was under way.
LEMMA GroupKept ==
    ASSUME Types, GroupInv, NEW f \in Fetches, NEW to,
           pc' = [pc EXCEPT ![f] = to],
           pc[f] \notin {"idle", "done"} \/ f \in Solo,
           to # "idle", to = "record" => f \in Slots,
           UNCHANGED <<mpc, spawned, wanted, aborted>>
    PROVE  GroupInv'
<1>1. \A i \in Slots : pc'[i] # "idle" => i \in 1 .. spawned
  BY SlotTypes DEF Types, GroupInv
<1>2. \A g \in Solo : pc'[g] # "record"
  BY SlotTypes DEF Types, GroupInv
<1>3. mpc = "done" => \A i \in 1 .. spawned : pc'[i] = "done"
  BY SlotTypes DEF Types, GroupInv
<1> QED
  BY <1>1, <1>2, <1>3 DEF GroupInv

\* Every step keeps the errgroup in order.
LEMMA GroupNext == Types /\ GroupInv /\ AnswerInv /\ [Next]_vars => GroupInv'
<1> SUFFICES ASSUME Types, GroupInv, AnswerInv, [Next]_vars
             PROVE  GroupInv'
  OBVIOUS
<1> USE DEF closeVars, callVars, multiVars, callerVars, cacheVars
<1>1. ASSUME NEW f \in Fetches, Call(f)
      PROVE  GroupInv'
  BY <1>1, GroupKept DEF Call, Goes
<1>2. ASSUME NEW f \in Fetches, Going(f)
      PROVE  GroupInv'
  <2>1. PICK to \in {"lookup", "acquire", "acquired", "fetching"} :
           pc' = [pc EXCEPT ![f] = to]
    BY <1>2 DEF Going, Goes
  <2>2. pc[f] \notin {"idle", "done"}
    BY <1>2 DEF Going
  <2> QED
    BY <1>2, <2>1, <2>2, GroupKept DEF Going
<1>3. ASSUME NEW f \in Fetches, Ending(f)
      PROVE  GroupInv'
  <2>1. PICK to \in {"record", "done"} :
           pc' = [pc EXCEPT ![f] = to] /\ (to = "record" => f \in Slots)
    BY <1>3 DEF Ending, Returns
  <2>2. pc[f] \notin {"idle", "done"}
    BY <1>3 DEF Ending, Working
  <2> QED
    BY <1>3, <2>1, <2>2, GroupKept DEF Ending
<1>4. ASSUME NEW f \in Fetches, FetchOk(f)
      PROVE  GroupInv'
  BY <1>4, GroupKept DEF FetchOk
<1>5. ASSUME NEW f \in Fetches, Store(f)
      PROVE  GroupInv'
  <2>1. PICK to \in {"record", "done"} :
           pc' = [pc EXCEPT ![f] = to] /\ (to = "record" => f \in Slots)
    BY <1>5 DEF Store
  <2>2. pc[f] \notin {"idle", "done"}
    BY <1>5 DEF Store
  <2> QED
    BY <1>5, <2>1, <2>2, GroupKept DEF Store
<1>6. ASSUME NEW i \in Slots, RecordSlab(i)
      PROVE  GroupInv'
  <2>1. i \in Fetches
    BY DEF Fetches
  <2> QED
    BY <1>6, <2>1, GroupKept DEF RecordSlab, Goes
<1>7. ASSUME NEW i \in Slots, RecordError(i)
      PROVE  GroupInv'
  <2>1. i \in Fetches
    BY DEF Fetches
  <2> QED
    BY <1>7, <2>1, GroupKept DEF RecordError, Goes
<1>8. CASE MultiClosed
  BY <1>8 DEF MultiClosed, GroupInv
<1>9. CASE MultiEmpty \/ MultiStart
  BY <1>9 DEF MultiEmpty, MultiStart, GroupInv
<1>10. CASE Spawn
  <2>1. /\ spawned + 1 \in Slots /\ spawned + 1 \notin Solo
        /\ spawned + 1 \in 1 .. spawned + 1 /\ 1 .. spawned \subseteq 1 .. spawned + 1
    BY <1>10, SpawnTypes DEF Spawn, Types
  <2>2. pc' = [pc EXCEPT ![spawned + 1] = "check"]
    BY <1>10 DEF Spawn, Goes
  <2>3. \A i \in Slots : pc'[i] # "idle" => i \in 1 .. spawned + 1
    BY <2>1, <2>2 DEF GroupInv, Types
  <2>4. \A f \in Solo : pc'[f] # "record"
    BY <2>1, <2>2 DEF GroupInv, Types
  <2> QED
    BY <1>10, <2>3, <2>4 DEF Spawn, GroupInv
<1>11. CASE MultiWait
  <2>1. \A i \in 1 .. spawned : pc[i] = "done"
    BY <1>11 DEF MultiWait, Running
  <2> QED
    BY <1>11, <2>1 DEF MultiWait, GroupInv
<1>12. ASSUME NEW k \in Closers, CloseFirst(k)
      PROVE  GroupInv'
  BY <1>12 DEF CloseFirst, GroupInv
<1>13. ASSUME NEW k \in Closers, CloseAgain(k)
      PROVE  GroupInv'
  BY <1>13 DEF CloseAgain, GroupInv
<1>14. ASSUME NEW k \in Closers, ClosePool(k)
      PROVE  GroupInv'
  BY <1>14 DEF ClosePool, GroupInv
<1>15. CASE Cancel
  BY <1>15 DEF Cancel, GroupInv
<1>16. CASE Tick
  BY <1>16 DEF Tick, GroupInv
<1>17. CASE UNCHANGED vars
  BY <1>17 DEF vars, GroupInv
<1> QED
  BY <1>1, <1>2, <1>3, <1>4, <1>5, <1>6, <1>7, <1>8, <1>9, <1>10, <1>11,
     <1>12, <1>13, <1>14, <1>15, <1>16, <1>17, Steps

-----------------------------------------------------------------------------
(* Close *)

\* Every step keeps late calls from going on.
LEMMA CloseNext == Types /\ AnswerInv /\ CloseInv /\ [Next]_vars => CloseInv'
<1> SUFFICES ASSUME Types, AnswerInv, CloseInv, [Next]_vars
             PROVE  CloseInv'
  OBVIOUS
<1> USE DEF closeVars, callVars, multiVars, callerVars, cacheVars
<1>1. ASSUME NEW f \in Fetches, Call(f)
      PROVE  CloseInv'
  <2>1. result[f] = Nothing
    BY <1>1 DEF Call, AnswerInv
  <2>2. CloseReturned => closed
    BY DEF CloseReturned, CloseInv
  <2>3. \A g \in late : g # f => pc'[g] = pc[g]
    BY <1>1 DEF Call, Goes, Types, Fetches
  <2>4. pc'[f] = "check"
    BY <1>1 DEF Call, Goes, Types
  <2>5. late' = IF CloseReturned THEN late \cup {f} ELSE late
    BY <1>1 DEF Call
  <2> QED
    BY <1>1, <2>1, <2>2, <2>3, <2>4, <2>5 DEF Call, Goes, CloseInv
<1>2. ASSUME NEW f \in Fetches, Going(f)
      PROVE  CloseInv'
  <2>1. f \notin late
    BY <1>2 DEF Going, CloseInv
  <2>2. \A g \in late : pc'[g] = pc[g] /\ result'[g] = result[g]
    BY <1>2, <2>1 DEF Going, Goes, Types, Fetches
  <2> QED
    BY <1>2, <2>2 DEF Going, CloseInv
<1>3. ASSUME NEW f \in Fetches, Ending(f)
      PROVE  CloseInv'
  <2>1. PICK r \in Outcomes :
           Returns(f, r) /\ (pc[f] = "check" /\ closed => r = [code |-> "closed"])
    BY <1>3 DEF Ending
  <2>2. \A g \in late : g \in Solo /\ g \in Fetches /\ g \notin Slots
    BY SlotTypes DEF Types, Fetches
  <2>3. ASSUME NEW g \in late
        PROVE  pc'[g] \in {"check", "done"} /\ result'[g] \in {Nothing, [code |-> "closed"]}
    <3>1. CASE g = f
      <4>1. pc[f] = "check" /\ closed
        BY <1>3, <2>3, <3>1 DEF Ending, Working, CloseInv
      <4> QED
        BY <2>1, <2>2, <2>3, <3>1, <4>1 DEF Returns, Types
    <3>2. CASE g # f
      BY <2>1, <2>2, <2>3, <3>2 DEF Returns, Types, CloseInv
    <3> QED
      BY <3>1, <3>2
  <2> QED
    BY <1>3, <2>3 DEF Ending, CloseInv
<1>4. ASSUME NEW f \in Fetches, FetchOk(f)
      PROVE  CloseInv'
  <2>1. f \notin late
    BY <1>4 DEF FetchOk, CloseInv
  <2>2. \A g \in late : pc'[g] = pc[g] /\ result'[g] = result[g]
    BY <1>4, <2>1 DEF FetchOk, Types, Fetches
  <2> QED
    BY <1>4, <2>2 DEF FetchOk, CloseInv
<1>5. ASSUME NEW f \in Fetches, Store(f)
      PROVE  CloseInv'
  <2>1. f \notin late
    BY <1>5 DEF Store, CloseInv
  <2>2. \A g \in late : pc'[g] = pc[g] /\ result'[g] = result[g]
    BY <1>5, <2>1 DEF Store, Types, Fetches
  <2> QED
    BY <1>5, <2>2 DEF Store, CloseInv
<1>6. ASSUME NEW i \in Slots, RecordSlab(i)
      PROVE  CloseInv'
  <2>1. i \notin late
    BY <1>6 DEF RecordSlab, CloseInv
  <2>2. \A g \in late : pc'[g] = pc[g] /\ result'[g] = result[g]
    BY <1>6, <2>1 DEF RecordSlab, Goes, Types, Fetches
  <2> QED
    BY <1>6, <2>2 DEF RecordSlab, CloseInv
<1>7. ASSUME NEW i \in Slots, RecordError(i)
      PROVE  CloseInv'
  <2>1. i \notin late
    BY <1>7 DEF RecordError, CloseInv
  <2>2. \A g \in late : pc'[g] = pc[g] /\ result'[g] = result[g]
    BY <1>7, <2>1 DEF RecordError, Goes, Types, Fetches
  <2> QED
    BY <1>7, <2>2 DEF RecordError, CloseInv
<1>8. CASE MultiClosed
  BY <1>8 DEF MultiClosed, CloseInv
<1>9. CASE MultiEmpty \/ MultiStart
  BY <1>9 DEF MultiEmpty, MultiStart, CloseInv
<1>10. CASE Spawn
  <2>1. \A f \in late : f # spawned + 1
    BY <1>10, SpawnTypes DEF Spawn, Types
  <2>2. \A f \in late : pc'[f] = pc[f]
    BY <1>10, <2>1 DEF Spawn, Goes, Types, Fetches
  <2> QED
    BY <1>10, <2>2 DEF Spawn, Goes, CloseInv
<1>11. CASE MultiWait
  BY <1>11 DEF MultiWait, CloseInv
<1>12. ASSUME NEW k \in Closers, CloseFirst(k)
      PROVE  CloseInv'
  BY <1>12 DEF CloseFirst, CloseInv, Types
<1>13. ASSUME NEW k \in Closers, CloseAgain(k)
      PROVE  CloseInv'
  BY <1>13 DEF CloseAgain, CloseInv, Types
<1>14. ASSUME NEW k \in Closers, ClosePool(k)
      PROVE  CloseInv'
  BY <1>14 DEF ClosePool, CloseInv, Types
<1>15. CASE Cancel
  BY <1>15 DEF Cancel, CloseInv
<1>16. CASE Tick
  BY <1>16 DEF Tick, CloseInv
<1>17. CASE UNCHANGED vars
  BY <1>17 DEF vars, CloseInv
<1> QED
  BY <1>1, <1>2, <1>3, <1>4, <1>5, <1>6, <1>7, <1>8, <1>9, <1>10, <1>11,
     <1>12, <1>13, <1>14, <1>15, <1>16, <1>17, Steps

-----------------------------------------------------------------------------
(* Answers *)

\* Where nothing happens to calls, answers and the cache.
LEMMA AnswersKept ==
    ASSUME AnswerInv, canceled => canceled',
           UNCHANGED <<pc, result, promise, wanted, errors, slabs>>
    PROVE  AnswerInv'
<1>1. \A f : Asked(f)' = Asked(f) /\ Succeeded(f)' = Succeeded(f)
  BY DEF Asked, Succeeded
<1>2. OwnKey' /\ NoSiblingAbort'
  BY <1>1 DEF AnswerInv, OwnKey, NoSiblingAbort
<1> QED
  BY <1>1, <1>2 DEF AnswerInv, Accounted

\* Where one call moves to some phase, with some result.
LEMMA CallMoves ==
    ASSUME Types, AnswerInv, NEW f \in Fetches, NEW to, NEW r,
           pc' = [pc EXCEPT ![f] = to], result' = [result EXCEPT ![f] = r],
           UNCHANGED <<wanted, canceled>>,
           to # "idle",
           to \in Valid => KeyOf[Asked(f)] \in Keys,
           to = "store" => r # Nothing /\ r.code \in {"ok", "hit"},
           to = "record" => r # Nothing,
           r # Nothing /\ r.code \in {"ok", "hit"}
              => r.chart.key = KeyOf[Asked(f)],
           f \in Slots /\ r = [code |-> "canceled"] => canceled,
           f \in Slots /\ to = "done" => Accounted(f)',
           \A i \in Slots : Accounted(i) => Accounted(i)',
           \A k \in Keys : promise'[k] # Nothing => promise'[k].data.key = k
    PROVE  AnswerInv'
<1>1. \A g : Asked(g)' = Asked(g)
  BY DEF Asked
<1>2. \A g \in Fetches :
         /\ pc'[g] = IF g = f THEN to ELSE pc[g]
         /\ result'[g] = IF g = f THEN r ELSE result[g]
  BY DEF Types
<1>3. \A g \in Fetches :
         /\ pc'[g] \in Valid => KeyOf[Asked(g)'] \in Keys
         /\ pc'[g] = "idle" => result'[g] = Nothing
         /\ pc'[g] = "store" => result'[g] # Nothing /\ Succeeded(g)'
         /\ pc'[g] = "record" => result'[g] # Nothing
  BY <1>1, <1>2 DEF AnswerInv, Succeeded
<1>4. \A i \in Slots : pc'[i] = "done" => Accounted(i)'
  BY <1>2 DEF AnswerInv, Fetches
<1>5. OwnKey'
  BY <1>1, <1>2 DEF AnswerInv, OwnKey, Succeeded
<1>6. NoSiblingAbort'
  BY <1>2 DEF AnswerInv, NoSiblingAbort, Fetches
<1> QED
  BY <1>3, <1>4, <1>5, <1>6 DEF AnswerInv

\* What a call has so far is what CallMoves asks for.
LEMMA ResultKept ==
    ASSUME Types, AnswerInv, NEW f \in Fetches
    PROVE  /\ result = [result EXCEPT ![f] = result[f]]
           /\ result[f] # Nothing /\ result[f].code \in {"ok", "hit"}
                 => result[f].chart.key = KeyOf[Asked(f)]
           /\ f \in Slots /\ result[f] = [code |-> "canceled"] => canceled
           /\ \A k \in Keys : promise[k] # Nothing => promise[k].data.key = k
  BY DEF Types, AnswerInv, OwnKey, NoSiblingAbort, Succeeded

\* Every step keeps every chart under its own key.
LEMMA AnswerNext == Types /\ GroupInv /\ AnswerInv /\ [Next]_vars => AnswerInv'
<1> SUFFICES ASSUME Types, GroupInv, AnswerInv, [Next]_vars
             PROVE  AnswerInv'
  OBVIOUS
<1> USE DEF closeVars, callVars, multiVars, callerVars, cacheVars
<1>1. ASSUME NEW f \in Fetches, Call(f)
      PROVE  AnswerInv'
  <2>1. \A i \in Slots : Accounted(i) => Accounted(i)'
    BY <1>1 DEF Call, Accounted, Asked
  <2>2. pc' = [pc EXCEPT ![f] = "check"] /\ result' = [result EXCEPT ![f] = result[f]]
    BY <1>1, ResultKept DEF Call, Goes
  <2> QED
    BY <1>1, <2>1, <2>2, ResultKept, CallMoves DEF Call, Valid
<1>2. ASSUME NEW f \in Fetches, Going(f)
      PROVE  AnswerInv'
  <2>1. PICK to \in {"lookup", "acquire", "acquired", "fetching"} :
           pc' = [pc EXCEPT ![f] = to]
    BY <1>2 DEF Going, Goes
  <2>2. /\ result' = [result EXCEPT ![f] = result[f]]
        /\ UNCHANGED <<wanted, canceled, promise>>
    BY <1>2, ResultKept DEF Going, Goes
  <2>3. KeyOf[Asked(f)] \in Keys
    <3>1. f \in Slots => f \in 1 .. spawned
      BY <1>2 DEF Going, GroupInv
    <3> QED
      BY <1>2, <3>1, AskedTypes DEF Going, AnswerInv, Valid
  <2>4. \A i \in Slots : Accounted(i) => Accounted(i)'
    BY <1>2 DEF Going, Accounted, Asked
  <2> QED
    BY <2>1, <2>2, <2>3, <2>4, ResultKept, CallMoves
<1>3. ASSUME NEW f \in Fetches, Ending(f)
      PROVE  AnswerInv'
  <2>1. PICK r \in Outcomes :
           /\ Returns(f, r)
           /\ r = [code |-> "canceled"] => CtxDone(f)
           /\ r.code \in {"ok", "hit"} =>
                 /\ KeyOf[Asked(f)] \in Keys
                 /\ promise[KeyOf[Asked(f)]] # Nothing
                 /\ r.chart = promise[KeyOf[Asked(f)]].data
    BY <1>3 DEF Ending
  <2>2. PICK to \in {"record", "done"} :
           pc' = [pc EXCEPT ![f] = to] /\ (f \in Slots => to = "record")
    BY <2>1 DEF Returns
  <2>3. result' = [result EXCEPT ![f] = r] /\ r # Nothing
    BY <2>1, NothingAssumption DEF Returns, NothingAssumption
  <2>4. r.code \in {"ok", "hit"} => r.chart.key = KeyOf[Asked(f)]
    BY <2>1 DEF AnswerInv
  <2>5. f \in Slots /\ r = [code |-> "canceled"] => canceled
    <3>1. f \in Slots => ~aborted
      BY <1>3 DEF Ending, Working, GroupInv
    <3> QED
      BY <2>1, <3>1 DEF CtxDone
  <2>6. \A i \in Slots : Accounted(i) => Accounted(i)'
    BY <1>3 DEF Ending, Accounted, Asked
  <2>7. UNCHANGED <<wanted, canceled, promise>>
    BY <1>3 DEF Ending
  <2> QED
    BY <2>2, <2>3, <2>4, <2>5, <2>6, <2>7, ResultKept, CallMoves DEF Valid
<1>4. ASSUME NEW f \in Fetches, FetchOk(f)
      PROVE  AnswerInv'
  <2> DEFINE r == [code |-> "ok", chart |-> [key |-> KeyOf[Asked(f)], at |-> now]]
  <2>1. KeyOf[Asked(f)] \in Keys
    BY <1>4 DEF FetchOk, AnswerInv, Valid
  <2>2. [key |-> KeyOf[Asked(f)], at |-> now] \in Charts
    BY <2>1 DEF Charts, Types
  <2>3. r \in Outcomes /\ r # Nothing
    BY <2>2, OutcomeTypes, NothingAssumption DEF NothingAssumption
  <2>4. /\ r.code = "ok" /\ r.chart.key = KeyOf[Asked(f)]
        /\ r # [code |-> "canceled"]
    OBVIOUS
  <2>5. /\ pc' = [pc EXCEPT ![f] = "store"] /\ result' = [result EXCEPT ![f] = r]
        /\ UNCHANGED <<wanted, canceled, promise>>
    BY <1>4 DEF FetchOk
  <2>6. \A i \in Slots : Accounted(i) => Accounted(i)'
    BY <1>4 DEF FetchOk, Accounted, Asked
  <2> HIDE DEF r
  <2> QED
    BY <2>1, <2>3, <2>4, <2>5, <2>6, ResultKept, CallMoves
<1>5. ASSUME NEW f \in Fetches, Store(f)
      PROVE  AnswerInv'
  <2> DEFINE k == KeyOf[Asked(f)]
  <2>1. /\ k \in Keys
        /\ result[f] # Nothing /\ result[f].code \in {"ok", "hit"}
    BY <1>5 DEF Store, AnswerInv, Valid, Succeeded
  <2>2. result[f].chart.key = k
    BY <2>1, ResultKept
  <2>3. PICK to \in {"record", "done"} :
           pc' = [pc EXCEPT ![f] = to] /\ (f \in Slots => to = "record")
    BY <1>5 DEF Store
  <2>4. /\ result' = [result EXCEPT ![f] = result[f]]
        /\ UNCHANGED <<wanted, canceled>>
    BY <1>5, ResultKept DEF Store
  <2>5. \/ promise' = [promise EXCEPT ![k] =
                          [data |-> result[f].chart, expiresAt |-> now + TTL[k]]]
        \/ promise' = promise
    BY <1>5 DEF Store, Cache!Promised
  <2>6. \A x \in Keys : promise'[x] # Nothing => promise'[x].data.key = x
    BY <2>1, <2>2, <2>5 DEF AnswerInv, Types
  <2>7. \A i \in Slots : Accounted(i) => Accounted(i)'
    BY <1>5 DEF Store, Accounted, Asked
  <2> QED
    BY <2>1, <2>3, <2>4, <2>6, <2>7, ResultKept, CallMoves DEF Valid
<1>6. ASSUME NEW i \in Slots, RecordSlab(i)
      PROVE  AnswerInv'
  <2>1. /\ i \in Fetches
        /\ result[i] # Nothing
    BY <1>6 DEF RecordSlab, AnswerInv, Fetches
  <2>2. /\ pc' = [pc EXCEPT ![i] = "done"]
        /\ result' = [result EXCEPT ![i] = result[i]]
        /\ UNCHANGED <<wanted, canceled, promise>>
    BY <1>6, <2>1, ResultKept DEF RecordSlab, Goes
  <2>3. \A j \in Slots : Accounted(j) => Accounted(j)'
    BY <1>6 DEF RecordSlab, Accounted, Asked
  <2>4. Accounted(i)'
    <3>1. result[i].chart.key = KeyOf[Asked(i)]
      BY <1>6, <2>1, ResultKept DEF RecordSlab, Succeeded
    <3>2. result[i].chart.key \in DOMAIN slabs'
      BY <1>6 DEF RecordSlab
    <3> QED
      BY <1>6, <3>1, <3>2 DEF RecordSlab, Accounted, Asked
  <2> QED
    BY <2>1, <2>2, <2>3, <2>4, ResultKept, CallMoves DEF Valid
<1>7. ASSUME NEW i \in Slots, RecordError(i)
      PROVE  AnswerInv'
  <2>1. /\ i \in Fetches
        /\ result[i] # Nothing
    BY <1>7 DEF RecordError, AnswerInv, Fetches
  <2>2. /\ pc' = [pc EXCEPT ![i] = "done"]
        /\ result' = [result EXCEPT ![i] = result[i]]
        /\ UNCHANGED <<wanted, canceled, promise>>
    BY <1>7, <2>1, ResultKept DEF RecordError, Goes
  <2>3. \A j \in Slots : Accounted(j) => Accounted(j)'
    BY <1>7 DEF RecordError, Accounted, Asked
  <2>4. Accounted(i)'
    BY <1>7 DEF RecordError, Accounted, Asked
  <2> QED
    BY <2>1, <2>2, <2>3, <2>4, ResultKept, CallMoves DEF Valid
<1>8. CASE MultiClosed
  BY <1>8, AnswersKept DEF MultiClosed
<1>9. CASE MultiEmpty \/ MultiStart
  BY <1>9, AnswersKept DEF MultiEmpty, MultiStart
<1>10. CASE Spawn
  <2>1. PICK f \in Fetches : f = spawned + 1
    BY <1>10, SpawnTypes DEF Spawn
  <2>2. /\ pc' = [pc EXCEPT ![f] = "check"]
        /\ result' = [result EXCEPT ![f] = result[f]]
        /\ UNCHANGED <<wanted, canceled, promise>>
    BY <1>10, <2>1, ResultKept DEF Spawn, Goes
  <2>3. \A i \in Slots : Accounted(i) => Accounted(i)'
    BY <1>10 DEF Spawn, Accounted, Asked
  <2> QED
    BY <2>2, <2>3, ResultKept, CallMoves DEF Valid
<1>11. CASE MultiWait
  BY <1>11, AnswersKept DEF MultiWait
<1>12. ASSUME NEW k \in Closers, CloseFirst(k)
      PROVE  AnswerInv'
  BY <1>12, AnswersKept DEF CloseFirst
<1>13. ASSUME NEW k \in Closers, CloseAgain(k)
      PROVE  AnswerInv'
  BY <1>13, AnswersKept DEF CloseAgain
<1>14. ASSUME NEW k \in Closers, ClosePool(k)
      PROVE  AnswerInv'
  BY <1>14, AnswersKept DEF ClosePool
<1>15. CASE Cancel
  BY <1>15, AnswersKept DEF Cancel
<1>16. CASE Tick
  BY <1>16, AnswersKept DEF Tick
<1>17. CASE UNCHANGED vars
  BY <1>17, AnswersKept DEF vars
<1> QED
  BY <1>1, <1>2, <1>3, <1>4, <1>5, <1>6, <1>7, <1>8, <1>9, <1>10, <1>11,
     <1>12, <1>13, <1>14, <1>15, <1>16, <1>17, Steps

-----------------------------------------------------------------------------
(* One answer *)

\* A chart that some call got from the server.
Delivered(c) ==
    \E f \in Fetches :
        result[f] # Nothing /\ result[f].code = "ok" /\ result[f].chart = c

(***************************************************************************)
(* A call has an answer when it has stopped working and not before; what   *)
(* it stores it has fetched itself, so that all in the cache was fetched   *)
(* by some call, under a key that has a TTL.  Only Close shuts the pool.   *)
(***************************************************************************)
OnceInv ==
    /\ \A f \in Fetches :
          /\ pc[f] \in Working \cup {"idle"} <=> result[f] = Nothing
          /\ pc[f] = "store" => result[f].code = "ok"
    /\ \A k \in Keys : promise[k] # Nothing => TTL[k] > 0 /\ Delivered(promise[k].data)
    /\ shut => closed

\* Where no call goes on and the cache stays as it is.
LEMMA OnceKept ==
    ASSUME OnceInv, UNCHANGED <<pc, result, promise>>, shut' => closed'
    PROVE  OnceInv'
  BY DEF OnceInv, Delivered

\* Where one call goes on: it keeps the answer that it has.
LEMMA OnceMoves ==
    ASSUME Types, OnceInv, NEW f \in Fetches, NEW to, NEW r,
           pc' = [pc EXCEPT ![f] = to], result' = [result EXCEPT ![f] = r],
           result[f] # Nothing => r = result[f],
           to \in Working \cup {"idle"} <=> r = Nothing,
           to = "store" => r.code = "ok",
           \A k \in Keys :
              promise'[k] # Nothing => TTL[k] > 0 /\ Delivered(promise'[k].data),
           UNCHANGED <<shut, closed>>
    PROVE  OnceInv'
<1>1. \A g \in Fetches :
         /\ pc'[g] = IF g = f THEN to ELSE pc[g]
         /\ result'[g] = IF g = f THEN r ELSE result[g]
  BY DEF Types
<1>2. \A g \in Fetches : result[g] # Nothing => result'[g] = result[g]
  BY <1>1
<1>3. \A k \in Keys : promise'[k] # Nothing => Delivered(promise[k].data)'
  BY <1>2 DEF Delivered
<1> QED
  BY <1>1, <1>3 DEF OnceInv

\* Every step leaves the answers that there are.
LEMMA OnceNext ==
    Types /\ GroupInv /\ AnswerInv /\ OnceInv /\ CloseInv /\ [Next]_vars => OnceInv'
<1> SUFFICES ASSUME Types, GroupInv, AnswerInv, OnceInv, CloseInv, [Next]_vars
             PROVE  OnceInv'
  OBVIOUS
<1> USE DEF closeVars, callVars, multiVars, callerVars, cacheVars
<1>a. \A k \in Keys : promise[k] # Nothing => TTL[k] > 0 /\ Delivered(promise[k].data)
  BY DEF OnceInv
<1>b. \A f \in Fetches : result = [result EXCEPT ![f] = result[f]]
  BY DEF Types
<1>1. ASSUME NEW f \in Fetches, Call(f)
      PROVE  OnceInv'
  <2>1. result[f] = Nothing
    BY <1>1 DEF Call, OnceInv
  <2> QED
    BY <1>1, <1>a, <1>b, <2>1, OnceMoves DEF Call, Goes, Working
<1>2. ASSUME NEW f \in Fetches, Going(f)
      PROVE  OnceInv'
  <2>1. PICK to \in {"lookup", "acquire", "acquired", "fetching"} :
           pc' = [pc EXCEPT ![f] = to]
    BY <1>2 DEF Going, Goes
  <2>2. result[f] = Nothing /\ to \in Working /\ to # "store"
    BY <1>2, <2>1 DEF Going, OnceInv, Working
  <2>3. result' = result /\ UNCHANGED <<shut, closed, promise>>
    BY <1>2 DEF Going, Goes
  <2> QED
    BY <1>a, <1>b, <2>1, <2>2, <2>3, OnceMoves
<1>3. ASSUME NEW f \in Fetches, Ending(f)
      PROVE  OnceInv'
  <2>1. PICK r \in Outcomes : Returns(f, r)
    BY <1>3 DEF Ending
  <2>2. PICK to \in {"record", "done"} : pc' = [pc EXCEPT ![f] = to]
    BY <2>1 DEF Returns
  <2>3. result' = [result EXCEPT ![f] = r] /\ r # Nothing
    BY <2>1, NothingAssumption DEF Returns, NothingAssumption
  <2>4. result[f] = Nothing
    BY <1>3 DEF Ending, OnceInv
  <2>5. to \notin Working \cup {"idle"} /\ to # "store"
    BY DEF Working
  <2>6. UNCHANGED <<shut, closed, promise>>
    BY <1>3 DEF Ending
  <2> QED
    BY <1>a, <2>2, <2>3, <2>4, <2>5, <2>6, OnceMoves
<1>4. ASSUME NEW f \in Fetches, FetchOk(f)
      PROVE  OnceInv'
  <2> DEFINE r == [code |-> "ok", chart |-> [key |-> KeyOf[Asked(f)], at |-> now]]
  <2>1. KeyOf[Asked(f)] \in Keys
    BY <1>4 DEF FetchOk, AnswerInv, Valid
  <2>2. [key |-> KeyOf[Asked(f)], at |-> now] \in Charts
    BY <2>1 DEF Charts, Types
  <2>3. r # Nothing /\ r.code = "ok"
    BY <2>2, OutcomeTypes, NothingAssumption DEF NothingAssumption
  <2>4. result[f] = Nothing
    BY <1>4 DEF FetchOk, OnceInv, Working
  <2>5. /\ pc' = [pc EXCEPT ![f] = "store"] /\ result' = [result EXCEPT ![f] = r]
        /\ UNCHANGED <<shut, closed, promise>>
    BY <1>4 DEF FetchOk
  <2>6. "store" \notin Working \cup {"idle"}
    BY DEF Working
  <2> HIDE DEF r
  <2> QED
    BY <1>a, <2>3, <2>4, <2>5, <2>6, OnceMoves
<1>5. ASSUME NEW f \in Fetches, Store(f)
      PROVE  OnceInv'
  <2> DEFINE k == KeyOf[Asked(f)]
  <2>1. result[f] # Nothing /\ result[f].code = "ok" /\ k \in Keys
    BY <1>5 DEF Store, OnceInv, AnswerInv, Valid
  <2>2. PICK to \in {"record", "done"} : pc' = [pc EXCEPT ![f] = to]
    BY <1>5 DEF Store
  <2>3. Delivered(result[f].chart)
    BY <2>1 DEF Delivered
  <2>4. \/ /\ TTL[k] > 0
           /\ promise' = [promise EXCEPT ![k] =
                            [data |-> result[f].chart, expiresAt |-> now + TTL[k]]]
        \/ promise' = promise
    BY <1>5 DEF Store, Cache!Promised
  <2>5. \A x \in Keys :
           promise'[x] # Nothing => TTL[x] > 0 /\ Delivered(promise'[x].data)
    BY <1>a, <2>1, <2>3, <2>4 DEF Types
  <2>6. to \notin Working \cup {"idle"} /\ to # "store"
    BY DEF Working
  <2>7. result' = result /\ UNCHANGED <<shut, closed>>
    BY <1>5 DEF Store
  <2> QED
    BY <1>b, <2>1, <2>2, <2>5, <2>6, <2>7, OnceMoves
<1>6. ASSUME NEW i \in Slots, RecordSlab(i) \/ RecordError(i)
      PROVE  OnceInv'
  <2>1. i \in Fetches /\ result[i] # Nothing
    BY <1>6 DEF RecordSlab, RecordError, AnswerInv, Fetches
  <2>2. /\ pc' = [pc EXCEPT ![i] = "done"] /\ result' = result
        /\ UNCHANGED <<shut, closed, promise>>
    BY <1>6 DEF RecordSlab, RecordError, Goes
  <2>3. "done" \notin Working \cup {"idle"}
    BY DEF Working
  <2> QED
    BY <1>a, <1>b, <2>1, <2>2, <2>3, OnceMoves
<1>7. CASE Spawn
  <2>1. PICK f \in Fetches : f = spawned + 1 /\ f \in Slots
    BY <1>7, SpawnTypes DEF Spawn
  <2>2. result[f] = Nothing
    BY <2>1 DEF GroupInv, OnceInv, Types
  <2>3. /\ pc' = [pc EXCEPT ![f] = "check"] /\ result' = result
        /\ UNCHANGED <<shut, closed, promise>>
    BY <1>7, <2>1 DEF Spawn, Goes
  <2>4. "check" \in Working
    BY DEF Working
  <2> QED
    BY <1>a, <1>b, <2>2, <2>3, <2>4, OnceMoves
<1>8. CASE MultiClosed \/ MultiEmpty \/ MultiStart \/ MultiWait \/ Cancel \/ Tick
  BY <1>8, OnceKept DEF MultiClosed, MultiEmpty, MultiStart, MultiWait, Cancel, Tick, OnceInv
<1>9. ASSUME NEW k \in Closers, CloseFirst(k) \/ CloseAgain(k) \/ ClosePool(k)
      PROVE  OnceInv'
  BY <1>9, OnceKept DEF CloseFirst, CloseAgain, ClosePool, OnceInv, CloseInv
<1>10. CASE UNCHANGED vars
  BY <1>10, OnceKept DEF vars, OnceInv
<1> QED
  BY <1>1, <1>2, <1>3, <1>4, <1>5, <1>6, <1>7, <1>8, <1>9, <1>10, Steps

-----------------------------------------------------------------------------
(* What FetchMulti returns *)

\* The slots that have recorded a slab, and those that have recorded an error.
Good == {i \in Slots : pc[i] = "done" /\ Succeeded(i)}
Bad  == {i \in Slots : pc[i] = "done" /\ ~Succeeded(i)}

(***************************************************************************)
(* There is an error for each failed slot and no other, a slab under the   *)
(* keys of the others and no more, and each is the chart of a slot that    *)
(* asked for it.                                                           *)
(***************************************************************************)
ReportInv ==
    /\ slabs = [k \in DOMAIN slabs |-> slabs[k]]
    /\ errors = {Asked(i) : i \in Bad}
    /\ DOMAIN slabs = {KeyOf[Asked(i)] : i \in Good}
    /\ \A k \in DOMAIN slabs : \E i \in Good :
          KeyOf[Asked(i)] = k /\ slabs[k] = result[i].chart

\* Where no slot gets done.
LEMMA ReportKept ==
    ASSUME ReportInv, UNCHANGED <<wanted, errors, slabs>>,
           \A i \in Slots :
              /\ pc'[i] = "done" <=> pc[i] = "done"
              /\ pc[i] = "done" => result'[i] = result[i]
    PROVE  ReportInv'
<1>1. \A i : Asked(i)' = Asked(i)
  BY DEF Asked
<1>2. Good' = Good /\ Bad' = Bad /\ \A i \in Good : result'[i] = result[i]
  BY DEF Good, Bad, Succeeded
<1>3. errors' = {Asked(i)' : i \in Bad'}
  BY <1>1, <1>2 DEF ReportInv
<1>4. DOMAIN slabs' = {KeyOf[Asked(i)'] : i \in Good'}
  BY <1>1, <1>2 DEF ReportInv
<1>5. \A k \in DOMAIN slabs' : \E i \in Good' :
         KeyOf[Asked(i)'] = k /\ slabs'[k] = result'[i].chart
  BY <1>1, <1>2 DEF ReportInv
<1> QED
  BY <1>3, <1>4, <1>5 DEF ReportInv

\* Where one call goes on, and is not done after it if it is a slot.
LEMMA ReportMoves ==
    ASSUME Types, ReportInv, NEW f \in Fetches, NEW to, NEW r,
           pc' = [pc EXCEPT ![f] = to], result' = [result EXCEPT ![f] = r],
           f \in Slots => pc[f] # "done" /\ to # "done",
           UNCHANGED <<wanted, errors, slabs>>
    PROVE  ReportInv'
<1>1. \A i \in Slots :
         /\ pc'[i] = "done" <=> pc[i] = "done"
         /\ pc[i] = "done" => result'[i] = result[i]
  BY DEF Types, Fetches
<1> QED
  BY <1>1, ReportKept

\* The chart of one more slot.
LEMMA ReportSlab ==
    ASSUME Types, AnswerInv, ReportInv, NEW i \in Slots, RecordSlab(i)
    PROVE  ReportInv'
<1> USE DEF closeVars, callVars, multiVars, callerVars, cacheVars
<1> DEFINE c == result[i].chart
<1>1. /\ result[i] # Nothing /\ Succeeded(i) /\ i \in Fetches
      /\ c.key = KeyOf[Asked(i)]
  BY DEF RecordSlab, AnswerInv, OwnKey, Fetches
<1>2. \A j : Asked(j)' = Asked(j) /\ Succeeded(j)' = Succeeded(j)
  BY DEF RecordSlab, Goes, Asked, Succeeded
<1>3. \A j \in Slots : pc'[j] = "done" <=> j = i \/ pc[j] = "done"
  BY DEF RecordSlab, Goes, Types, Fetches
<1>4. Good' = Good \cup {i} /\ Bad' = Bad
  BY <1>1, <1>2, <1>3 DEF Good, Bad, RecordSlab
<1>5. errors' = {Asked(j)' : j \in Bad'}
  BY <1>2, <1>4 DEF ReportInv, RecordSlab
<1>6. slabs' = [x \in DOMAIN slabs \cup {c.key} |-> IF x = c.key THEN c ELSE slabs[x]]
  BY DEF RecordSlab
<1>7. DOMAIN slabs' = {KeyOf[Asked(j)'] : j \in Good'}
  <2>1. DOMAIN slabs' = DOMAIN slabs \cup {c.key}
    BY <1>6
  <2>2. DOMAIN slabs = {KeyOf[Asked(j)] : j \in Good}
    BY DEF ReportInv
  <2> QED
    BY <1>1, <1>2, <1>4, <2>1, <2>2
<1>8. \A k \in DOMAIN slabs' : \E j \in Good' :
         KeyOf[Asked(j)'] = k /\ slabs'[k] = result'[j].chart
  <2> SUFFICES ASSUME NEW k \in DOMAIN slabs'
               PROVE  \E j \in Good' : KeyOf[Asked(j)] = k /\ slabs'[k] = result[j].chart
    <3>1. \A j : Asked(j)' = Asked(j)
      BY <1>2
    <3>2. result' = result
      BY DEF RecordSlab, Goes
    <3> QED
      BY <3>1, <3>2
  <2>1. CASE k = c.key
    <3>1. slabs'[k] = c /\ i \in Good'
      BY <1>4, <1>6, <2>1
    <3> QED
      BY <1>1, <2>1, <3>1
  <2>2. CASE k # c.key
    <3>1. k \in DOMAIN slabs /\ slabs'[k] = slabs[k]
      BY <1>6, <2>2
    <3>2. PICK j \in Good : KeyOf[Asked(j)] = k /\ slabs[k] = result[j].chart
      BY <3>1 DEF ReportInv
    <3> QED
      BY <1>4, <3>1, <3>2
  <2> QED
    BY <2>1, <2>2
<1>9. slabs' = [k \in DOMAIN slabs' |-> slabs'[k]]
  BY <1>6
<1> QED
  BY <1>5, <1>7, <1>8, <1>9 DEF ReportInv

\* The error of one more slot.
LEMMA ReportError ==
    ASSUME Types, ReportInv, NEW i \in Slots, RecordError(i)
    PROVE  ReportInv'
<1> USE DEF closeVars, callVars, multiVars, callerVars, cacheVars
<1>1. \A j : Asked(j)' = Asked(j) /\ Succeeded(j)' = Succeeded(j)
  BY DEF RecordError, Goes, Asked, Succeeded
<1>2. \A j \in Slots : pc'[j] = "done" <=> j = i \/ pc[j] = "done"
  BY DEF RecordError, Goes, Types, Fetches
<1>3. Good' = Good /\ Bad' = Bad \cup {i}
  BY <1>1, <1>2 DEF Good, Bad, RecordError
<1>4. errors' = {Asked(j)' : j \in Bad'}
  <2>1. errors' = {Asked(j) : j \in Bad} \cup {Asked(i)}
    BY DEF ReportInv, RecordError
  <2> QED
    BY <1>1, <1>3, <2>1
<1>5. DOMAIN slabs' = {KeyOf[Asked(j)'] : j \in Good'}
  BY <1>1, <1>3 DEF ReportInv, RecordError
<1>6. \A k \in DOMAIN slabs' : \E j \in Good' :
         KeyOf[Asked(j)'] = k /\ slabs'[k] = result'[j].chart
  BY <1>1, <1>3 DEF ReportInv, RecordError, Goes
<1>7. slabs' = [k \in DOMAIN slabs' |-> slabs'[k]]
  BY DEF ReportInv, RecordError
<1> QED
  BY <1>4, <1>5, <1>6, <1>7 DEF ReportInv

\* Every step keeps the account.
LEMMA ReportNext ==
    Types /\ GroupInv /\ AnswerInv /\ ReportInv /\ [Next]_vars => ReportInv'
<1> SUFFICES ASSUME Types, GroupInv, AnswerInv, ReportInv, [Next]_vars
             PROVE  ReportInv'
  OBVIOUS
<1> USE DEF closeVars, callVars, multiVars, callerVars, cacheVars
<1>a. \A f \in Fetches : result = [result EXCEPT ![f] = result[f]]
  BY DEF Types
<1>1. ASSUME NEW f \in Fetches, Call(f)
      PROVE  ReportInv'
  BY <1>1, <1>a, SlotTypes, ReportMoves DEF Call, Goes
<1>2. ASSUME NEW f \in Fetches, Going(f)
      PROVE  ReportInv'
  <2>1. PICK to \in {"lookup", "acquire", "acquired", "fetching"} :
           pc' = [pc EXCEPT ![f] = to]
    BY <1>2 DEF Going, Goes
  <2>2. result' = result /\ pc[f] # "done" /\ UNCHANGED <<wanted, errors, slabs>>
    BY <1>2 DEF Going, Goes
  <2> QED
    BY <1>a, <2>1, <2>2, ReportMoves
<1>3. ASSUME NEW f \in Fetches, Ending(f)
      PROVE  ReportInv'
  <2>1. PICK r \in Outcomes : Returns(f, r)
    BY <1>3 DEF Ending
  <2>2. PICK to : pc' = [pc EXCEPT ![f] = to] /\ (f \in Slots => to = "record")
    BY <2>1 DEF Returns
  <2>3. result' = [result EXCEPT ![f] = r]
    BY <2>1 DEF Returns
  <2>4. pc[f] # "done" /\ UNCHANGED <<wanted, errors, slabs>>
    BY <1>3 DEF Ending, Working
  <2> QED
    BY <2>2, <2>3, <2>4, ReportMoves
<1>4. ASSUME NEW f \in Fetches, FetchOk(f)
      PROVE  ReportInv'
  <2>1. PICK r : result' = [result EXCEPT ![f] = r]
    BY <1>4 DEF FetchOk
  <2> QED
    BY <1>4, <2>1, ReportMoves DEF FetchOk
<1>5. ASSUME NEW f \in Fetches, Store(f)
      PROVE  ReportInv'
  <2>1. PICK to : pc' = [pc EXCEPT ![f] = to] /\ (f \in Slots => to = "record")
    BY <1>5 DEF Store
  <2>2. result' = result /\ pc[f] # "done" /\ UNCHANGED <<wanted, errors, slabs>>
    BY <1>5 DEF Store
  <2> QED
    BY <1>a, <2>1, <2>2, ReportMoves
<1>6. ASSUME NEW i \in Slots, RecordSlab(i) \/ RecordError(i)
      PROVE  ReportInv'
  BY <1>6, ReportSlab, ReportError
<1>7. CASE Spawn
  <2>1. PICK f \in Fetches : f = spawned + 1 /\ f \in Slots
    BY <1>7, SpawnTypes DEF Spawn
  <2>2. pc[f] = "idle"
    BY <2>1 DEF GroupInv, Types
  <2>3. /\ pc' = [pc EXCEPT ![f] = "check"] /\ result' = result
        /\ UNCHANGED <<wanted, errors, slabs>>
    BY <1>7, <2>1 DEF Spawn, Goes
  <2> QED
    BY <1>a, <2>2, <2>3, ReportMoves
<1>8. CASE MultiClosed \/ MultiEmpty \/ MultiStart \/ MultiWait \/ Cancel \/ Tick
  BY <1>8, ReportKept DEF MultiClosed, MultiEmpty, MultiStart, MultiWait, Cancel, Tick
<1>9. ASSUME NEW k \in Closers, CloseFirst(k) \/ CloseAgain(k) \/ ClosePool(k)
      PROVE  ReportInv'
  BY <1>9, ReportKept DEF CloseFirst, CloseAgain, ClosePool
<1>10. CASE UNCHANGED vars
  BY <1>10, ReportKept DEF vars
<1> QED
  BY <1>1, <1>2, <1>3, <1>4, <1>5, <1>6, <1>7, <1>8, <1>9, <1>10, Steps

-----------------------------------------------------------------------------
(* Theorems *)

Inv ==
    Types /\ GroupInv /\ AnswerInv /\ CloseInv /\ OnceInv /\ ReportInv

\* A new client.
LEMMA InitInv == Init => Inv
<1> SUFFICES ASSUME Init
             PROVE  Inv
  OBVIOUS
<1> USE ClientAssumption DEF ClientAssumption, Init
<1>1. Types
  <2>1. DOMAIN slabs = {} /\ Range(slabs) = {}
    BY DEF Range
  <2>2. wanted \in Seq(Requests)
    OBVIOUS
  <2>3. spawned \in 0 .. Len(wanted)
    BY <2>2, LenProperties
  <2>4. now \in 0 .. MaxTime /\ promise \in [Keys -> Entries \cup {Nothing}]
    BY DEF Cache!Init
  <2>5. pc \in [Fetches -> Phases]
    BY DEF Phases
  <2> QED
    BY <2>1, <2>3, <2>4, <2>5 DEF Types
<1>2. GroupInv
  BY DEF GroupInv, Fetches
<1>3. AnswerInv
  <2>1. \A f \in Fetches : pc[f] = "idle" /\ result[f] = Nothing
    OBVIOUS
  <2>2. OwnKey
    BY <2>1 DEF OwnKey
  <2>3. NoSiblingAbort
    BY <2>1, NothingAssumption, OutcomeTypes
       DEF NoSiblingAbort, Fetches, NothingAssumption
  <2>4. \A k \in Keys : promise[k] = Nothing
    BY DEF Cache!Init
  <2> QED
    BY <2>1, <2>2, <2>3, <2>4 DEF AnswerInv, Valid, Fetches
<1>4. CloseInv
  BY DEF CloseInv
<1>5. OnceInv
  <2>1. \A f \in Fetches : pc[f] = "idle" /\ result[f] = Nothing
    OBVIOUS
  <2>2. \A k \in Keys : promise[k] = Nothing
    BY DEF Cache!Init
  <2> QED
    BY <2>1, <2>2 DEF OnceInv
<1>6. ReportInv
  <2>1. Good = {} /\ Bad = {}
    BY DEF Good, Bad, Fetches
  <2>2. DOMAIN slabs = {} /\ slabs = [k \in DOMAIN slabs |-> slabs[k]]
    OBVIOUS
  <2> QED
    BY <2>1, <2>2 DEF ReportInv
<1> QED
  BY <1>1, <1>2, <1>3, <1>4, <1>5, <1>6 DEF Inv

\* The parts of Inv, together, are inductive.
LEMMA Invariant == Spec => []Inv
<1>1. Inv /\ [Next]_vars => Inv'
  BY TypeNext, GroupNext, AnswerNext, CloseNext, OnceNext, ReportNext DEF Inv
<1> QED
  BY InitInv, <1>1, PTL DEF Spec

\* Every variable has its type; in particular the errgroup never starts more
\* goroutines than there are resolutions, and a slab is a chart under a
\* normalized request.
THEOREM ClientTypeCorrect == Spec => []TypeOK
<1>1. Inv => TypeOK
  BY DEF Inv, Types, TypeOK, Phases
<1> QED
  BY <1>1, Invariant, PTL

\* Client.Close, Client.Fetch: a Fetch that begins after any Close has
\* returned gets nothing but ErrClosed.
THEOREM LateFetchGetsErrClosed == Spec => []LateFetchRefused
<1>1. Inv => LateFetchRefused
  BY DEF Inv, CloseInv, LateFetchRefused
<1> QED
  BY <1>1, Invariant, PTL

\* Client.Fetch, lruCache: however fetches and FetchMultis overlap and whoever
\* stored it, a chart that a call returns was fetched for what it asked for.
THEOREM ChartsAreOwn == Spec => []OwnKey
<1>1. Inv => OwnKey
  BY DEF Inv, AnswerInv
<1> QED
  BY <1>1, Invariant, PTL

\* Client.FetchMulti: when it returns, every resolution asked for has a slab
\* or an error.
THEOREM EverySlotAccounted == Spec => []MultiAccountsForAll
<1>1. Inv => MultiAccountsForAll
  <2> SUFFICES ASSUME Inv, mpc = "done", NEW i \in DOMAIN wanted
               PROVE  Asked(i) \in errors \/ KeyOf[Asked(i)] \in DOMAIN slabs
    BY DEF MultiAccountsForAll
  <2>1. wanted \in Seq(Requests) /\ i \in Slots
    BY ClientAssumption DEF Inv, Types, Slots, ClientAssumption
  <2>2. i \in 1 .. Len(wanted)
    BY <2>1, LenProperties
  <2>3. pc[i] = "done"
    BY <2>2 DEF Inv, GroupInv
  <2> QED
    BY <2>1, <2>3 DEF Inv, AnswerInv, Accounted
<1> QED
  BY <1>1, Invariant, PTL

\* Client.FetchMulti: a resolution is canceled only by the caller, never by
\* the failure of another one.
THEOREM SiblingsGoOn == Spec => []NoSiblingAbort
<1>1. Inv => NoSiblingAbort
  BY DEF Inv, AnswerInv
<1> QED
  BY <1>1, Invariant, PTL

-----------------------------------------------------------------------------
(* The promise *)

\* What the promise sees of a call stays, unless the call begins.
LEMMA StageKept ==
    ASSUME late' = late, \A f \in Fetches : pc'[f] = "idle" <=> pc[f] = "idle"
    PROVE  [f \in Fetches |-> Stage(f)]' = [f \in Fetches |-> Stage(f)]
<1>1. \A f \in Fetches : Stage(f)' = Stage(f)
  BY DEF Stage
<1> QED
  BY <1>1

\* A step that the promise does not see.
LEMMA Unseen ==
    ASSUME UNCHANGED <<wanted, late, result, mpc, closed, cpc, canceled>>,
           mpc = "done" => UNCHANGED <<slabs, errors>>,
           \A f \in Fetches : pc'[f] = "idle" <=> pc[f] = "idle"
    PROVE  UNCHANGED Promise!promiseVars
<1>1. CloseReturned' = CloseReturned
  BY DEF CloseReturned
<1> QED
  BY <1>1, StageKept DEF Promise!promiseVars

\* The calls of the promise, and what it knows of them.
LEMMA Calls ==
    /\ Promise!Calls = Fetches
    /\ \A f : Promise!Asked(f) = Asked(f) /\ Promise!Key(f) = KeyOf[Asked(f)]
    /\ \A f : Promise!Served(f) <=> result[f] # Nothing /\ Succeeded(f)
    /\ \A c : Delivered(c) => c \in Promise!Fetched
<1>1. Promise!Calls = Fetches
  BY DEF Promise!Calls, Fetches
<1>2. \A f : Promise!Asked(f) = Asked(f)
  BY DEF Promise!Asked, Asked
<1>3. \A f : Promise!Served(f) <=> result[f] # Nothing /\ Succeeded(f)
  BY DEF Promise!Served, Succeeded
<1>4. \A c : Delivered(c) => c \in Promise!Fetched
  BY <1>1, <1>3 DEF Promise!Fetched, Delivered, Succeeded
<1> QED
  BY <1>1, <1>2, <1>3, <1>4 DEF Promise!Key

\* A call begins.
LEMMA BeginSeen ==
    ASSUME Inv, NEW f \in Fetches, pc[f] = "idle",
           pc' = [pc EXCEPT ![f] = "check"],
           late' = IF f \in Solo /\ CloseReturned THEN late \cup {f} ELSE late,
           f \in Slots => f \in DOMAIN wanted /\ mpc = "spawn",
           UNCHANGED <<wanted, result, mpc, slabs, errors, closed, cpc, canceled>>
    PROVE  Promise!Begin(f)
<1>1. f \notin late
  BY DEF Inv, CloseInv
<1>2. \A g \in Fetches : Stage(g)' =
         IF g = f THEN IF f \in Solo /\ CloseReturned THEN "late" ELSE "open"
                  ELSE Stage(g)
  BY <1>1 DEF Stage, Inv, Types
<1>3. [g \in Fetches |-> Stage(g)]' =
         [[g \in Fetches |-> Stage(g)] EXCEPT
            ![f] = IF f \in Solo /\ CloseReturned THEN "late" ELSE "open"]
  BY <1>2
<1>4. CloseReturned' = CloseReturned
  BY DEF CloseReturned
<1>5. [g \in Fetches |-> Stage(g)][f] = "idle"
  BY DEF Stage
<1> QED
  BY <1>3, <1>4, <1>5 DEF Promise!Begin

\* A call gets its answer.
LEMMA AnswerSeen ==
    ASSUME Types, OnceInv, NEW f \in Fetches, NEW a, pc[f] \in Working, NEW to,
           to # "idle", pc' = [pc EXCEPT ![f] = to],
           result' = [result EXCEPT ![f] = a],
           UNCHANGED <<late, wanted, mpc, slabs, errors, closed, cpc, canceled>>
    PROVE  Promise!Pending(f) /\ Promise!Answer(f, a)
<1>1. pc[f] # "idle" /\ result[f] = Nothing
  BY DEF OnceInv, Working
<1>2. [g \in Fetches |-> Stage(g)]' = [g \in Fetches |-> Stage(g)]
  BY <1>1, StageKept DEF Types
<1>3. CloseReturned' = CloseReturned
  BY DEF CloseReturned
<1>4. [g \in Fetches |-> Stage(g)][f] # "idle"
  BY <1>1 DEF Stage
<1> QED
  BY <1>1, <1>2, <1>3, <1>4 DEF Promise!Pending, Promise!Answer

\* Only late calls, and those that find the client closed, are refused.
LEMMA InTimeSeen ==
    ASSUME CloseInv, NEW f \in Fetches, pc[f] \in Working, Promise!Pending(f),
           pc[f] = "check" => ~closed
    PROVE  Promise!InTime(f)
<1>1. f \notin late /\ pc[f] # "idle"
  BY DEF CloseInv, Working
<1>2. [g \in Fetches |-> Stage(g)][f] = "open"
  BY <1>1 DEF Stage
<1> QED
  BY <1>2 DEF Promise!InTime

\* An answer of the promise for every way a Fetch can end.
LEMMA FetchSeen ==
    ASSUME Inv, NEW f \in Fetches, Fetch(f)
    PROVE  Promise!Next \/ UNCHANGED Promise!promiseVars
<1> USE DEF closeVars, callVars, multiVars, callerVars, cacheVars
<1> DEFINE k == KeyOf[Asked(f)]
           Seen == \/ Promise!Refuse(f) \/ Promise!Reject(f) \/ Promise!Fail(f)
                   \/ Promise!Fresh(f) \/ Promise!Cached(f)
<1>a. Types /\ AnswerInv /\ CloseInv /\ OnceInv
  BY DEF Inv
<1>b. Promise!Key(f) = k
  BY Calls
<1>1. CASE CheckClosed(f)
  <2>1. Returns(f, [code |-> "closed"]) /\ pc[f] \in Working
    BY <1>1 DEF CheckClosed, Working
  <2>2. Promise!Pending(f) /\ Promise!Answer(f, [code |-> "closed"])
    BY <1>1, <1>a, <2>1, AnswerSeen DEF CheckClosed, Returns
  <2>3. Seen
    BY <1>1, <2>2 DEF CheckClosed, Promise!Refuse
  <2> QED
    BY <2>3, Calls DEF Promise!Next
<1>2. CASE CheckInvalid(f)
  <2>1. Returns(f, [code |-> "invalid"]) /\ pc[f] \in Working
    BY <1>2 DEF CheckInvalid, Working
  <2>2. Promise!Pending(f) /\ Promise!Answer(f, [code |-> "invalid"])
    BY <1>2, <1>a, <2>1, AnswerSeen DEF CheckInvalid, Returns
  <2>3. Promise!InTime(f)
    BY <1>2, <1>a, <2>1, <2>2, InTimeSeen DEF CheckInvalid
  <2>4. Seen
    BY <1>2, <1>b, <2>2, <2>3 DEF CheckInvalid, Promise!Reject
  <2> QED
    BY <2>4, Calls DEF Promise!Next
<1>3. CASE LookupHit(f)
  <2> DEFINE c == promise[k].data
  <2>1. /\ Returns(f, [code |-> "hit", chart |-> c]) /\ pc[f] \in Working
        /\ pc[f] # "check"
    BY <1>3 DEF LookupHit, Working
  <2>2. Promise!Pending(f) /\ Promise!Answer(f, [code |-> "hit", chart |-> c])
    BY <1>3, <1>a, <2>1, AnswerSeen DEF LookupHit, Returns
  <2>3. Promise!InTime(f)
    BY <1>a, <2>1, <2>2, InTimeSeen
  <2>4. k \in Keys /\ promise[k] # Nothing
    BY <1>3, <1>a DEF LookupHit, AnswerInv, Valid, Cache!Unexpired
  <2>5. c.key = k /\ TTL[k] > 0 /\ Delivered(c)
    BY <1>a, <2>4 DEF AnswerInv, OnceInv
  <2>6. c \in Promise!Fetched
    BY <2>5, Calls
  <2> HIDE DEF c
  <2>7. Seen
    BY <1>b, <2>2, <2>3, <2>5, <2>6 DEF Promise!Cached
  <2> QED
    BY <2>7, Calls DEF Promise!Next
<1>4. CASE AcquireRefused(f)
  <2>1. /\ Returns(f, [code |-> "closed"]) /\ pc[f] \in Working /\ closed
    BY <1>4, <1>a DEF AcquireRefused, Working, OnceInv
  <2>2. Promise!Pending(f) /\ Promise!Answer(f, [code |-> "closed"])
    BY <1>4, <1>a, <2>1, AnswerSeen DEF AcquireRefused, Returns
  <2>3. Seen
    BY <2>1, <2>2 DEF Promise!Refuse
  <2> QED
    BY <2>3, Calls DEF Promise!Next
<1>5. CASE AcquireCanceled(f) \/ FetchFails(f)
  <2>1. PICK code \in {"failed", "canceled"} :
           Returns(f, [code |-> code]) /\ (code = "canceled" => CtxDone(f))
    BY <1>5 DEF AcquireCanceled, FetchFails
  <2>2. /\ pc[f] \in Working /\ pc[f] \notin {"check", "done"} /\ k \in Keys
        /\ UNCHANGED <<closeVars, late, multiVars, callerVars, cacheVars>>
    BY <1>5, <1>a DEF AcquireCanceled, FetchFails, Working, AnswerInv, Valid
  <2>3. Promise!Pending(f) /\ Promise!Answer(f, [code |-> code])
    BY <1>a, <2>1, <2>2, AnswerSeen DEF Returns
  <2>4. Promise!InTime(f)
    BY <1>a, <2>2, <2>3, InTimeSeen
  <2>5. f \in Slots /\ code = "canceled" => canceled
    BY <2>1, <2>2 DEF CtxDone, Inv, GroupInv, Working
  <2>6. Seen
    BY <1>b, <2>2, <2>3, <2>4, <2>5 DEF Promise!Fail
  <2> QED
    BY <2>6, Calls DEF Promise!Next
<1>6. CASE FetchOk(f)
  <2> DEFINE c == [key |-> k, at |-> now]
  <2>1. pc[f] \in Working /\ pc[f] # "check" /\ k \in Keys
    BY <1>6, <1>a DEF FetchOk, Working, AnswerInv, Valid
  <2>2. Promise!Pending(f) /\ Promise!Answer(f, [code |-> "ok", chart |-> c])
    BY <1>6, <1>a, <2>1, AnswerSeen DEF FetchOk
  <2>3. Promise!InTime(f)
    BY <1>a, <2>1, <2>2, InTimeSeen
  <2>4. c \in Charts /\ c.key = k
    BY <1>a, <2>1 DEF Charts, Types
  <2> HIDE DEF c
  <2>5. Seen
    BY <1>b, <2>2, <2>3, <2>4 DEF Promise!Fresh
  <2> QED
    BY <2>5, Calls DEF Promise!Next
<1>7. CASE CheckOk(f) \/ LookupMiss(f) \/ Acquire(f) \/ AcquireConn(f)
  <2>1. Going(f)
    BY <1>7, GoingOnly
  <2>2. PICK to \in {"lookup", "acquire", "acquired", "fetching"} :
           pc' = [pc EXCEPT ![f] = to]
    BY <2>1 DEF Going, Goes
  <2>3. pc[f] # "idle"
    BY <2>1 DEF Going
  <2> QED
    BY <1>a, <2>1, <2>2, <2>3, Unseen DEF Going, Goes, Types
<1>8. CASE Store(f)
  <2>1. PICK to \in {"record", "done"} : pc' = [pc EXCEPT ![f] = to]
    BY <1>8 DEF Store
  <2> QED
    BY <1>8, <1>a, <2>1, Unseen DEF Store, Types
<1> QED
  BY <1>1, <1>2, <1>3, <1>4, <1>5, <1>6, <1>7, <1>8 DEF Fetch

\* A slab or an error is recorded before FetchMulti returns, out of sight.
LEMMA RecordSeen ==
    ASSUME Inv, NEW i \in Slots, Record(i)
    PROVE  UNCHANGED Promise!promiseVars
<1> USE DEF closeVars, callVars, multiVars, callerVars, cacheVars
<1>1. pc[i] = "record" /\ mpc # "done"
  BY DEF Record, RecordSlab, RecordError, Inv, GroupInv
<1>2. /\ pc' = [pc EXCEPT ![i] = "done"]
      /\ UNCHANGED <<wanted, late, result, mpc, closed, cpc, canceled>>
  BY DEF Record, RecordSlab, RecordError, Goes
<1> QED
  BY <1>1, <1>2, Unseen DEF Inv, Types

\* When all slots are done, FetchMulti returns what they were answered.
LEMMA ReportSeen ==
    ASSUME Inv, MultiWait
    PROVE  Promise!Report
<1> USE DEF closeVars, callVars, multiVars, callerVars, cacheVars
<1> DEFINE part == [k \in DOMAIN slabs |->
                      CHOOSE i \in Good : KeyOf[Asked(i)] = k /\ slabs[k] = result[i].chart]
           good == {i \in DOMAIN wanted : Promise!Served(i)}
<1>1. mpc = "spawn" /\ mpc' = "done" /\ UNCHANGED <<slabs, errors>>
  BY DEF MultiWait
<1>2. DOMAIN wanted = 1 .. spawned /\ DOMAIN wanted \subseteq Slots
  <2>1. wanted \in Seq(Requests)
    BY ClientAssumption DEF Inv, Types, ClientAssumption
  <2> QED
    BY <2>1, LenProperties DEF MultiWait, Inv, Types, Slots
<1>3. \A i \in DOMAIN wanted : pc[i] = "done" /\ result[i] # Nothing
  <2>1. \A i \in 1 .. spawned : pc[i] = "done"
    BY DEF MultiWait, Running
  <2> QED
    BY <1>2, <2>1 DEF Inv, OnceInv, Working, Fetches
<1>4. \A i \in Slots : pc[i] = "done" => i \in DOMAIN wanted
  BY <1>2 DEF Inv, GroupInv
<1>5. good = Good /\ DOMAIN wanted \ good = Bad
  BY <1>2, <1>3, <1>4, Calls DEF Good, Bad
<1>6. {Promise!Key(i) : i \in good} = DOMAIN slabs
  BY <1>5, Calls DEF Inv, ReportInv
<1>7. \A k \in DOMAIN slabs :
         part[k] \in Good /\ KeyOf[Asked(part[k])] = k /\ slabs[k] = result[part[k]].chart
  BY DEF Inv, ReportInv
<1>8. part \in [{Promise!Key(i) : i \in good} -> good] /\ DOMAIN part = DOMAIN slabs
  BY <1>5, <1>6, <1>7
<1>9. \A k \in DOMAIN part : Promise!Key(part[k]) = k
  BY <1>7, <1>8, Calls
<1>10. slabs = [k \in DOMAIN part |-> result[part[k]].chart]
  BY <1>7, <1>8 DEF Inv, ReportInv
<1>11. errors = {Promise!Asked(i) : i \in DOMAIN wanted \ good}
  BY <1>5, Calls DEF Inv, ReportInv
<1>12. UNCHANGED <<wanted, [f \in Fetches |-> Stage(f)], result, closed, CloseReturned,
                   canceled>>
  BY DEF MultiWait, CloseReturned, Stage
<1> HIDE DEF part, good
<1>13. (IF mpc = "done" THEN [slabs |-> slabs, errors |-> errors] ELSE Nothing)' =
          [slabs  |-> [k \in DOMAIN part |-> result[part[k]].chart],
           errors |-> {Promise!Asked(i) : i \in DOMAIN wanted \ good}]
  BY <1>1, <1>10, <1>11
<1> QED
  BY <1>1, <1>3, <1>8, <1>9, <1>12, <1>13 DEF Promise!Report, good

\* Every step is one of the promise, or not seen by it.
LEMMA StepSeen == Inv /\ [Next]_vars => [Promise!Next]_Promise!promiseVars
<1> SUFFICES ASSUME Inv, [Next]_vars
             PROVE  Promise!Next \/ UNCHANGED Promise!promiseVars
  OBVIOUS
<1> USE DEF closeVars, callVars, multiVars, callerVars, cacheVars
<1>a. Types /\ CloseInv
  BY DEF Inv
<1>b. CloseReturned => closed
  BY <1>a DEF CloseReturned, CloseInv
<1>1. ASSUME NEW f \in Fetches, Call(f)
      PROVE  Promise!Next
  <2>1. f \in Solo /\ f \notin Slots
    BY <1>1, <1>a, SlotTypes DEF Call
  <2>2. Promise!Begin(f)
    BY <1>1, <1>a, <2>1, BeginSeen DEF Call, Goes
  <2> QED
    BY <2>2, Calls DEF Promise!Next
<1>2. ASSUME NEW f \in Fetches, Fetch(f)
      PROVE  Promise!Next \/ UNCHANGED Promise!promiseVars
  BY <1>2, FetchSeen
<1>3. ASSUME NEW i \in Slots, Record(i)
      PROVE  UNCHANGED Promise!promiseVars
  BY <1>3, RecordSeen
<1>4. CASE MultiClosed
  <2>1. UNCHANGED <<wanted, [f \in Fetches |-> Stage(f)], result, closed, CloseReturned,
                    canceled>>
    BY <1>4 DEF MultiClosed, CloseReturned, Stage
  <2>2. Promise!Decline
    BY <1>4, <2>1 DEF MultiClosed, Promise!Decline
  <2> QED
    BY <2>2 DEF Promise!Next
<1>5. CASE MultiEmpty \/ MultiStart
  <2>1. UNCHANGED <<wanted, [f \in Fetches |-> Stage(f)], result, closed, CloseReturned,
                    canceled>>
    BY <1>5 DEF MultiEmpty, MultiStart, CloseReturned, Stage
  <2>2. CASE MultiEmpty
    <3>1. Promise!RejectEmpty
      BY <1>b, <2>1, <2>2 DEF MultiEmpty, Promise!RejectEmpty
    <3> QED
      BY <3>1 DEF Promise!Next
  <2>3. CASE MultiStart
    <3>1. Promise!Start
      BY <1>b, <2>1, <2>3 DEF MultiStart, Promise!Start
    <3> QED
      BY <3>1 DEF Promise!Next
  <2> QED
    BY <1>5, <2>2, <2>3
<1>6. CASE Spawn
  <2>1. PICK f \in Fetches : f = spawned + 1 /\ f \in Slots /\ f \notin Solo
    BY <1>6, <1>a, SpawnTypes DEF Spawn
  <2>2. wanted \in Seq(Requests) /\ f \in 1 .. Len(wanted)
    BY <1>6, <1>a, <2>1, SpawnTypes, ClientAssumption DEF Spawn, Types, ClientAssumption
  <2>3. f \in DOMAIN wanted
    BY <2>2, LenProperties
  <2>4. pc[f] = "idle"
    BY <1>a, <2>1 DEF Inv, GroupInv, Types
  <2>5. Promise!Begin(f)
    BY <1>6, <1>a, <2>1, <2>3, <2>4, BeginSeen DEF Spawn, Goes
  <2> QED
    BY <2>5, Calls DEF Promise!Next
<1>7. CASE MultiWait
  BY <1>7, ReportSeen DEF Promise!Next
<1>8. ASSUME NEW k \in Closers, CloseFirst(k)
      PROVE  Promise!Next
  <2>1. CloseReturned' = CloseReturned
    <3>1. \A x \in Closers : cpc'[x] = "done" <=> cpc[x] = "done"
      BY <1>8, <1>a DEF CloseFirst, Types
    <3> QED
      BY <3>1 DEF CloseReturned
  <2>2. UNCHANGED <<wanted, [f \in Fetches |-> Stage(f)], result, mpc, slabs, errors,
                    canceled>>
    BY <1>8 DEF CloseFirst, Stage
  <2>3. Promise!CloseBegins
    BY <1>8, <2>1, <2>2 DEF CloseFirst, Promise!CloseBegins
  <2> QED
    BY <2>3 DEF Promise!Next
<1>9. ASSUME NEW k \in Closers, CloseAgain(k) \/ ClosePool(k)
      PROVE  Promise!Next
  <2>1. CloseReturned'
    BY <1>9, <1>a DEF CloseAgain, ClosePool, CloseReturned, Types
  <2>2. UNCHANGED <<wanted, [f \in Fetches |-> Stage(f)], result, mpc, slabs, errors,
                    closed, canceled>>
    BY <1>9 DEF CloseAgain, ClosePool, Stage
  <2>3. closed
    BY <1>9, <1>a DEF CloseAgain, ClosePool, CloseInv
  <2>4. Promise!CloseReturns
    BY <2>1, <2>2, <2>3 DEF Promise!CloseReturns
  <2> QED
    BY <2>4 DEF Promise!Next
<1>10. CASE Cancel
  <2>1. UNCHANGED <<wanted, [f \in Fetches |-> Stage(f)], result, mpc, slabs, errors,
                    closed, CloseReturned>>
    BY <1>10 DEF Cancel, CloseReturned, Stage
  <2>2. Promise!Cancel
    BY <1>10, <2>1 DEF Cancel, Promise!Cancel
  <2> QED
    BY <2>2 DEF Promise!Next
<1>11. CASE Tick \/ UNCHANGED vars
  BY <1>11, Unseen DEF Tick, vars
<1> QED
  BY <1>1, <1>2, <1>3, <1>4, <1>5, <1>6, <1>7, <1>8, <1>9, <1>10, <1>11
     DEF Next, FetchMulti, Close

\* Client.Fetch, Client.FetchMulti, Client.Close: the client, with its pool, its
\* cache and its errgroup, does for its callers what FetchPromise says, and
\* nothing else.
THEOREM ClientKeepsPromise == Spec => ImplementsPromise
<1>1. Init => Promise!Init
  <2> SUFFICES ASSUME Init
               PROVE  Promise!Init
    OBVIOUS
  <2>1. [f \in Fetches |-> Stage(f)] = [f \in Promise!Calls |-> "idle"]
    BY Calls DEF Init, Stage
  <2>2. CloseReturned = FALSE
    BY DEF Init, CloseReturned
  <2> QED
    BY <2>1, <2>2, Calls DEF Init, Promise!Init
<1> QED
  BY <1>1, Invariant, StepSeen, PTL DEF Spec, Promise!Spec, ImplementsPromise
=============================================================================
