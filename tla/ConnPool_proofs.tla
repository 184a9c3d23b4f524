--------------------------- MODULE ConnPool_proofs ---------------------------
(***************************************************************************)
(* Proofs about ConnPool, for any number of fetchers, closers and conns    *)
(* and every PoolSize.                                                     *)
(***************************************************************************)
EXTENDS ConnPool, SequenceTheorems, FiniteSetTheorems, TLAPS

(***************************************************************************)
(* Types.  TypeOK is not inductive: that cur stays in 0 .. PoolSize needs  *)
(* the account of the permits, and that only conns get onto the stack      *)
(* needs to know who holds one.  BaseInv is inductive by itself.           *)
(***************************************************************************)
BaseTypes ==
    /\ pc \in [Fetchers -> FetcherPc]
    /\ lease \in [Fetchers -> Conns \cup {NoConn}]
    /\ cur \in Int
    /\ waiters \in Seq(Fetchers)
    /\ free \in Seq(PooledConn)
    /\ closed \in BOOLEAN
    /\ stops \in Nat
    /\ open \in SUBSET Conns
    /\ rpc \in {"select", "filter", "close", "exited"}
    /\ cutoff \in Int
    /\ drop \in SUBSET Conns
    /\ ticked \in BOOLEAN
    /\ cpc \in [Closers -> {"idle", "stop", "close", "done"}]
    /\ pending \in [Closers -> SUBSET Conns]
    /\ now \in 0 .. MaxTime

\* Exactly the fetchers between getting a conn and giving it up hold one.
LeaseByPc ==
    \A f \in Fetchers : lease[f] # NoConn <=> pc[f] \in {"leased", "closing"}

\* The queue of the semaphore: everybody in it waits, and is in it once.
Waiting == {f \in Fetchers : pc[f] = "waiting"}

QueueInv == IsInjective(waiters) /\ Range(waiters) = Waiting

BaseInv == BaseTypes /\ LeaseByPc /\ QueueInv

LEMMA BaseInit == Init => BaseInv
<1> SUFFICES ASSUME Init PROVE BaseInv
  OBVIOUS
<1>1. IsInjective(waiters) /\ Range(waiters) = Waiting
  BY DEF Init, IsInjective, Range, Waiting
<1>2. waiters \in Seq(Fetchers) /\ free \in Seq(PooledConn)
  BY EmptySeq DEF Init
<1>3. now \in 0 .. MaxTime
  BY PoolAssumption DEF PoolAssumption, Init
<1>4. /\ pc \in [Fetchers -> FetcherPc]
      /\ lease \in [Fetchers -> Conns \cup {NoConn}]
  BY DEF Init, FetcherPc
<1>5. /\ cpc \in [Closers -> {"idle", "stop", "close", "done"}]
      /\ pending \in [Closers -> SUBSET Conns]
  BY DEF Init
<1>6. cur \in Int /\ cutoff \in Int /\ stops \in Nat
  BY DEF Init
<1>7. /\ closed \in BOOLEAN /\ ticked \in BOOLEAN
      /\ rpc \in {"select", "filter", "close", "exited"}
      /\ open \in SUBSET Conns /\ drop \in SUBSET Conns
  BY Zenon DEF Init
<1>8. LeaseByPc
  BY DEF Init, LeaseByPc
<1> QED
  BY <1>1, <1>2, <1>3, <1>4, <1>5, <1>6, <1>7, <1>8
     DEF BaseInv, BaseTypes, QueueInv

\* A new element at the end keeps a sequence free of repetition.
LEMMA AppendDistinct ==
    ASSUME NEW S, NEW s \in Seq(S), NEW x \in S, IsInjective(s), x \notin Range(s)
    PROVE  /\ Append(s, x) \in Seq(S)
           /\ IsInjective(Append(s, x))
           /\ Range(Append(s, x)) = Range(s) \cup {x}
           /\ Append(s, x) # <<>>
<1> DEFINE t == Append(s, x)
<1>1. /\ t \in Seq(S)
      /\ t # <<>>
      /\ DOMAIN s = 1 .. Len(s)
      /\ Len(s) \in Nat
      /\ DOMAIN t = 1 .. Len(s) + 1
      /\ t[Len(s) + 1] = x
      /\ \A i \in 1 .. Len(s) : t[i] = s[i]
  BY AppendProperties, LenProperties
<1>2. \A i \in DOMAIN s : s[i] # x
  BY DEF Range
<1> HIDE DEF t
<1>3. IsInjective(t)
  BY <1>1, <1>2 DEF IsInjective
<1>4. Range(t) = Range(s) \cup {x}
  BY <1>1 DEF Range
<1> QED
  BY <1>1, <1>3, <1>4 DEF t

\* RemoveAt, spelled out: s without its i-th element, the others in their order.
Without(s, i) ==
    [j \in 1 .. Len(s) - 1 |-> IF j < i THEN s[j] ELSE s[j + 1]]

LEMMA RemoveAtIsWithout ==
    ASSUME NEW S, NEW s \in Seq(S), NEW i \in DOMAIN s
    PROVE  RemoveAt(s, i) = Without(s, i)
<1>1. Len(s) \in Nat /\ DOMAIN s = 1 .. Len(s) /\ Len(s) - 1 \in Nat
  BY LenProperties
<1>2. \A j \in 1 .. Len(s) : s[j] \in S
  BY ElementOfSeq
<1> DEFINE a == SubSeq(s, 1, i - 1)
           b == SubSeq(s, i + 1, Len(s))
           w == Without(s, i)
<1>3. /\ a \in Seq(S) /\ Len(a) = i - 1
      /\ \A j \in 1 .. i - 1 : a[j] = s[j]
  <2>1. \A j \in 1 .. i - 1 : s[j] \in S
    BY <1>1, <1>2
  <2>2. i - 1 \in Int /\ 1 <= i - 1 + 1
    BY <1>1
  <2>3. /\ a \in Seq(S)
        /\ Len(a) = IF 1 <= i - 1 THEN i - 1 - 1 + 1 ELSE 0
        /\ \A j \in 1 .. i - 1 - 1 + 1 : a[j] = s[1 + j - 1]
    BY <2>1, <2>2, SubSeqProperties
  <2> HIDE DEF a
  <2> QED
    BY <1>1, <2>3
<1>4. /\ b \in Seq(S) /\ Len(b) = Len(s) - i
      /\ \A j \in 1 .. Len(s) - i : b[j] = s[i + j]
  <2>1. \A j \in i + 1 .. Len(s) : s[j] \in S
    BY <1>1, <1>2
  <2> DEFINE m == i + 1
             n == Len(s)
  <2>2. m \in Int /\ n \in Int /\ m <= n + 1
    BY <1>1
  <2>3. b = SubSeq(s, m, n) /\ \A j \in m .. n : s[j] \in S
    BY <2>1
  <2>4. n - m + 1 = Len(s) - i /\ \A j \in Int : m + j - 1 = i + j
    BY <1>1
  <2> HIDE DEF b, m, n
  <2>5. /\ SubSeq(s, m, n) \in Seq(S)
        /\ Len(SubSeq(s, m, n)) = IF m <= n THEN n - m + 1 ELSE 0
        /\ \A j \in 1 .. n - m + 1 : SubSeq(s, m, n)[j] = s[m + j - 1]
    BY <2>2, <2>3, SubSeqProperties
  <2>6. Len(b) = n - m + 1
    BY <2>2, <2>3, <2>5
  <2>7. ASSUME NEW j \in 1 .. Len(s) - i
        PROVE  b[j] = s[i + j]
    <3>1. j \in 1 .. n - m + 1 /\ m + j - 1 = i + j
      BY <2>4
    <3>2. b[j] = s[m + j - 1]
      BY <2>3, <2>5, <3>1
    <3> QED
      BY <3>1, <3>2
  <2> QED
    BY <2>3, <2>4, <2>5, <2>6, <2>7
<1>5. /\ w \in Seq(S) /\ Len(w) = Len(s) - 1
      /\ \A j \in 1 .. Len(s) - 1 : w[j] = IF j < i THEN s[j] ELSE s[j + 1]
  <2>1. w \in [1 .. Len(s) - 1 -> S]
    BY <1>1, <1>2 DEF Without
  <2>2. w \in Seq(S)
    BY <1>1, <2>1, SeqDef
  <2> QED
    BY <1>1, <2>1, <2>2, LenProperties DEF Without
<1> HIDE DEF a, b, w
<1> DEFINE c == a \o b
<1>6. /\ c \in Seq(S)
      /\ Len(c) = Len(a) + Len(b)
      /\ \A j \in 1 .. Len(a) + Len(b) :
            c[j] = IF j <= Len(a) THEN a[j] ELSE b[j - Len(a)]
  BY <1>3, <1>4, ConcatProperties
<1> HIDE DEF c
<1>7. Len(c) = Len(s) - 1
  <2>1. Len(a) = i - 1 /\ Len(b) = Len(s) - i /\ Len(c) = Len(a) + Len(b)
    BY <1>3, <1>4, <1>6
  <2> QED
    BY <1>1, <2>1
<1>8. \A j \in 1 .. Len(s) - 1 : c[j] = IF j < i THEN s[j] ELSE s[j + 1]
  <2> SUFFICES ASSUME NEW j \in 1 .. Len(s) - 1
               PROVE  c[j] = IF j < i THEN s[j] ELSE s[j + 1]
    OBVIOUS
  <2>1. CASE j < i
    <3>1. j \in 1 .. i - 1 /\ j <= Len(a)
      BY <1>1, <1>3, <2>1
    <3>2. c[j] = a[j]
      BY <1>6, <1>7, <3>1
    <3>3. a[j] = s[j]
      BY <1>3, <3>1
    <3> QED
      BY <2>1, <3>2, <3>3
  <2>2. CASE ~(j < i)
    <3>1. j - Len(a) \in 1 .. Len(s) - i /\ ~(j <= Len(a))
      BY <1>1, <1>3, <2>2
    <3>2. b[j - Len(a)] = s[i + (j - Len(a))] /\ i + (j - Len(a)) = j + 1
      <4>1. i + (j - Len(a)) = j + 1
        BY <1>1, <1>3
      <4> DEFINE k == j - Len(a)
      <4>2. k \in 1 .. Len(s) - i
        BY <3>1
      <4> HIDE DEF k
      <4>3. b[k] = s[i + k]
        BY <1>4, <4>2
      <4> QED
        BY <4>1, <4>3 DEF k
    <3>3. c[j] = b[j - Len(a)]
      BY <1>6, <1>7, <3>1
    <3> QED
      BY <2>2, <3>2, <3>3
  <2> QED
    BY <2>1, <2>2
<1>9. c = w
  BY <1>5, <1>6, <1>7, <1>8, SeqEqual
<1> QED
  BY <1>9 DEF RemoveAt, a, b, c, w

\* Taking out one element.
LEMMA WithoutDistinct ==
    ASSUME NEW S, NEW s \in Seq(S), NEW i \in DOMAIN s, IsInjective(s)
    PROVE  /\ Without(s, i) \in Seq(S)
           /\ IsInjective(Without(s, i))
           /\ Range(Without(s, i)) = Range(s) \ {s[i]}
<1> DEFINE t == Without(s, i)
<1>1. Len(s) \in Nat /\ DOMAIN s = 1 .. Len(s) /\ Len(s) - 1 \in Nat
  BY LenProperties
<1>2. /\ DOMAIN t = 1 .. Len(s) - 1
      /\ \A j \in 1 .. Len(s) - 1 : t[j] = IF j < i THEN s[j] ELSE s[j + 1]
  BY DEF Without
<1>3. \A j \in 1 .. Len(s) : s[j] \in S
  BY ElementOfSeq
<1>4. t \in Seq(S)
  <2>1. t \in [1 .. Len(s) - 1 -> S]
    BY <1>1, <1>2, <1>3 DEF Without
  <2> QED
    BY <1>1, <2>1, SeqDef
<1> HIDE DEF t
<1>5. IsInjective(t)
  <2> SUFFICES ASSUME NEW a \in DOMAIN t, NEW b \in DOMAIN t, t[a] = t[b]
               PROVE  a = b
    BY DEF IsInjective
  <2> DEFINE up(k) == IF k < i THEN k ELSE k + 1
  <2>1. a \in 1 .. Len(s) - 1 /\ b \in 1 .. Len(s) - 1
    BY <1>2
  <2>2. /\ up(a) \in DOMAIN s /\ t[a] = s[up(a)]
        /\ up(b) \in DOMAIN s /\ t[b] = s[up(b)]
    BY <1>1, <1>2, <2>1
  <2>3. up(a) = up(b)
    BY <2>2 DEF IsInjective
  <2> QED
    BY <1>1, <2>1, <2>3
<1>6. Range(t) \subseteq Range(s) \ {s[i]}
  <2> SUFFICES ASSUME NEW j \in 1 .. Len(s) - 1
               PROVE  t[j] \in Range(s) /\ t[j] # s[i]
    BY <1>2 DEF Range
  <2> DEFINE k == IF j < i THEN j ELSE j + 1
  <2>1. k \in DOMAIN s /\ k # i /\ t[j] = s[k]
    BY <1>1, <1>2
  <2> HIDE DEF k
  <2>2. s[k] # s[i]
    BY <2>1 DEF IsInjective
  <2> QED
    BY <2>1, <2>2 DEF Range
<1>7. Range(s) \ {s[i]} \subseteq Range(t)
  <2> SUFFICES ASSUME NEW k \in DOMAIN s, k # i
               PROVE  \E j \in DOMAIN t : t[j] = s[k]
    BY DEF Range
  <2>1. CASE k < i
    <3>1. k \in DOMAIN t /\ t[k] = s[k]
      BY <1>1, <1>2, <2>1
    <3> QED
      BY <3>1
  <2>2. CASE k > i
    <3>1. k - 1 \in DOMAIN t /\ t[k - 1] = s[k]
      BY <1>1, <1>2, <2>2
    <3> QED
      BY <3>1
  <2> QED
    BY <1>1, <2>1, <2>2
<1> QED
  BY <1>4, <1>5, <1>6, <1>7 DEF t

\* Taking out the first one.
LEMMA TailIsWithout ==
    ASSUME NEW S, NEW s \in Seq(S), s # <<>>
    PROVE  1 \in DOMAIN s /\ Head(s) = s[1] /\ Tail(s) = Without(s, 1)
<1>1. /\ Len(s) \in Nat \ {0}
      /\ DOMAIN s = 1 .. Len(s)
      /\ Head(s) = s[1]
  BY EmptySeq, LenProperties
<1>2. Without(s, 1) = [j \in 1 .. Len(s) - 1 |-> s[j + 1]]
  BY <1>1 DEF Without
<1>3. /\ Without(s, 1) \in [1 .. Len(s) - 1 -> S]
      /\ Len(s) - 1 \in Nat
  BY <1>1, <1>2, ElementOfSeq
<1>4. /\ Without(s, 1) \in Seq(S)
      /\ Len(Without(s, 1)) = Len(s) - 1
  BY <1>3, SeqDef, LenProperties
<1>5. Tail(s) = Without(s, 1)
  BY <1>1, <1>2, <1>4, HeadTailProperties, SeqEqual
<1> QED
  BY <1>1, <1>5

\* The queue when f comes, when f leaves it, and when its head is served.
LEMMA QueueComes ==
    ASSUME BaseInv, NEW f \in Fetchers, pc[f] = "idle",
           waiters' = Append(waiters, f), pc' = [pc EXCEPT ![f] = "waiting"]
    PROVE  waiters' \in Seq(Fetchers) /\ waiters' # <<>> /\ QueueInv'
<1>1. f \notin Range(waiters)
  BY DEF BaseInv, QueueInv, Waiting
<1>2. /\ waiters' \in Seq(Fetchers) /\ waiters' # <<>> /\ IsInjective(waiters')
      /\ Range(waiters') = Range(waiters) \cup {f}
  BY <1>1, AppendDistinct DEF BaseInv, BaseTypes, QueueInv
<1>3. Waiting' = Waiting \cup {f}
  BY DEF BaseInv, BaseTypes, Waiting
<1> QED
  BY <1>2, <1>3 DEF BaseInv, QueueInv

LEMMA QueueLeaves ==
    ASSUME BaseInv, NEW i \in DOMAIN waiters, waiters' = RemoveAt(waiters, i),
           NEW p \in FetcherPc \ {"waiting"},
           pc' = [pc EXCEPT ![waiters[i]] = p]
    PROVE  waiters' \in Seq(Fetchers) /\ QueueInv'
<1>1. /\ waiters' \in Seq(Fetchers) /\ IsInjective(waiters')
      /\ Range(waiters') = Range(waiters) \ {waiters[i]}
  BY WithoutDistinct, RemoveAtIsWithout DEF BaseInv, BaseTypes, QueueInv
<1>2. waiters[i] \in Waiting
  BY DEF BaseInv, QueueInv, Range
<1>3. Waiting' = Waiting \ {waiters[i]}
  BY <1>2 DEF BaseInv, BaseTypes, Waiting
<1> QED
  BY <1>1, <1>3 DEF BaseInv, QueueInv

LEMMA QueueServed ==
    ASSUME BaseInv, waiters # <<>>
    PROVE  /\ Head(waiters) \in Waiting
           /\ Tail(waiters) \in Seq(Fetchers)
           /\ IsInjective(Tail(waiters))
           /\ Range(Tail(waiters)) = Waiting \ {Head(waiters)}
<1>1. /\ 1 \in DOMAIN waiters
      /\ Head(waiters) = waiters[1]
      /\ Tail(waiters) = Without(waiters, 1)
  BY TailIsWithout DEF BaseInv, BaseTypes
<1>2. Head(waiters) \in Waiting
  BY <1>1 DEF BaseInv, QueueInv, Range
<1>3. /\ Without(waiters, 1) \in Seq(Fetchers)
      /\ IsInjective(Without(waiters, 1))
      /\ Range(Without(waiters, 1)) = Range(waiters) \ {waiters[1]}
  BY <1>1, WithoutDistinct DEF BaseInv, BaseTypes, QueueInv
<1> QED
  BY <1>1, <1>2, <1>3 DEF BaseInv, QueueInv

\* The queue does not notice a step of a goroutine outside of it.
LEMMA QueueElsewhere ==
    ASSUME BaseInv, NEW f \in Fetchers \ Waiting, UNCHANGED waiters,
           NEW p \in FetcherPc \ {"waiting"}, pc' = [pc EXCEPT ![f] = p]
    PROVE  QueueInv'
<1>1. Waiting' = Waiting
  BY DEF BaseInv, BaseTypes, Waiting
<1> QED
  BY <1>1 DEF BaseInv, QueueInv

\* The pool's stack when its last entry is popped, when one is pushed, and
\* when only some positions are kept.
DistinctConns(s) == \A i, j \in DOMAIN s : s[i].c = s[j].c => i = j

LEMMA PooledConnType ==
    ASSUME NEW s \in Seq(PooledConn), NEW i \in DOMAIN s
    PROVE  s[i] \in PooledConn /\ s[i].c \in Conns /\ s[i].idleSince \in Nat
<1>1. s[i] \in PooledConn
  BY LenProperties, ElementOfSeq
<1> QED
  BY <1>1 DEF PooledConn

LEMMA PopType ==
    ASSUME NEW s \in Seq(PooledConn), s # <<>>
    PROVE  Last(s) \in PooledConn /\ Front(s) \in Seq(PooledConn)
<1>1. Len(s) \in Nat \ {0} /\ DOMAIN s = 1 .. Len(s)
  BY EmptySeq, LenProperties
<1>2. Last(s) \in PooledConn
  BY <1>1, ElementOfSeq DEF Last
<1>3. Front(s) \in Seq(PooledConn)
  <2>1. \A i \in 1 .. Len(s) - 1 : s[i] \in PooledConn
    BY <1>1, ElementOfSeq
  <2> QED
    BY <1>1, <2>1, SubSeqProperties DEF Front
<1> QED
  BY <1>2, <1>3

LEMMA PopFree ==
    ASSUME NEW s \in Seq(PooledConn), s # <<>>, DistinctConns(s)
    PROVE  /\ Last(s).c \in ConnsOf(s)
           /\ ConnsOf(Front(s)) = ConnsOf(s) \ {Last(s).c}
           /\ DistinctConns(Front(s))
           /\ Len(Front(s)) = Len(s) - 1
<1>1. /\ Len(s) \in Nat \ {0}
      /\ DOMAIN s = 1 .. Len(s)
      /\ Last(s) = s[Len(s)]
  BY EmptySeq, LenProperties DEF Last
<1>2. /\ Front(s) \in Seq(PooledConn)
      /\ Len(Front(s)) = Len(s) - 1
      /\ \A i \in 1 .. Len(s) - 1 : Front(s)[i] = s[i]
  <2> DEFINE n == Len(s) - 1
  <2>1. \A i \in 1 .. n : s[i] \in PooledConn
    BY <1>1, ElementOfSeq
  <2>2. n \in Nat /\ Front(s) = SubSeq(s, 1, n)
    BY <1>1 DEF Front
  <2> HIDE DEF n
  <2>3. 1 \in Int /\ n \in Int /\ 1 <= n + 1
    BY <2>2
  <2>4. /\ Front(s) \in Seq(PooledConn)
        /\ Len(Front(s)) = IF 1 <= n THEN n - 1 + 1 ELSE 0
        /\ \A i \in 1 .. n - 1 + 1 : Front(s)[i] = s[1 + i - 1]
    BY <2>1, <2>2, <2>3, SubSeqProperties
  <2>5. Len(Front(s)) = n /\ \A i \in 1 .. n : Front(s)[i] = s[i]
    BY <2>2, <2>4
  <2> QED
    BY <2>4, <2>5 DEF n
<1>3. DOMAIN Front(s) = 1 .. Len(s) - 1
  BY <1>1, <1>2, LenProperties
<1>4. DistinctConns(Front(s))
  BY <1>1, <1>2, <1>3 DEF DistinctConns
<1>5. ConnsOf(Front(s)) = ConnsOf(s) \ {Last(s).c}
  BY <1>1, <1>2, <1>3 DEF ConnsOf, DistinctConns
<1>6. Last(s).c \in ConnsOf(s)
  BY <1>1 DEF ConnsOf
<1> QED
  BY <1>2, <1>4, <1>5, <1>6

LEMMA PushFree ==
    ASSUME NEW s \in Seq(PooledConn), NEW x \in PooledConn,
           DistinctConns(s), x.c \notin ConnsOf(s)
    PROVE  /\ ConnsOf(Append(s, x)) = ConnsOf(s) \cup {x.c}
           /\ DistinctConns(Append(s, x))
           /\ Len(Append(s, x)) = Len(s) + 1
<1> DEFINE t == Append(s, x)
<1>1. /\ Len(s) \in Nat
      /\ DOMAIN s = 1 .. Len(s)
      /\ DOMAIN t = 1 .. Len(s) + 1
      /\ Len(t) = Len(s) + 1
      /\ t[Len(s) + 1] = x
      /\ \A i \in 1 .. Len(s) : t[i] = s[i]
  BY AppendProperties, LenProperties
<1>2. \A i \in DOMAIN s : s[i].c # x.c
  BY DEF ConnsOf
<1> HIDE DEF t
<1>3. ConnsOf(t) = ConnsOf(s) \cup {x.c}
  BY <1>1 DEF ConnsOf
<1>4. DistinctConns(t)
  BY <1>1, <1>2 DEF DistinctConns
<1> QED
  BY <1>1, <1>3, <1>4 DEF t

LEMMA KeepFree ==
    ASSUME NEW s \in Seq(PooledConn), NEW I \in SUBSET DOMAIN s,
           NEW at \in Listings(I)
    PROVE  LET t == [i \in DOMAIN at |-> s[at[i]]]
           IN  /\ t \in Seq(PooledConn)
               /\ Len(t) = Cardinality(I)
               /\ ConnsOf(t) = {s[i].c : i \in I}
               /\ DistinctConns(s) => DistinctConns(t)
<1> DEFINE n == Cardinality(I)
           t == [i \in DOMAIN at |-> s[at[i]]]
<1>1. Len(s) \in Nat /\ DOMAIN s = 1 .. Len(s)
  BY LenProperties
<1>2. n \in Nat
  <2>1. IsFiniteSet(1 .. Len(s))
    BY <1>1, FS_Interval
  <2> QED
    BY <1>1, <2>1, FS_Subset, FS_CardinalityType
<1> HIDE DEF n
<1>3. /\ at \in [1 .. n -> I]
      /\ \A i, j \in 1 .. n : i < j => at[i] < at[j]
      /\ \A i \in I : \E j \in 1 .. n : at[j] = i
  BY DEF Listings, n
<1>4. \A i \in 1 .. n : at[i] \in I /\ at[i] \in DOMAIN s /\ s[at[i]] \in PooledConn
  BY <1>1, <1>3, ElementOfSeq
<1>5. t = [i \in 1 .. n |-> s[at[i]]]
  BY <1>3
<1>6. t \in [1 .. n -> PooledConn]
  BY <1>4, <1>5
<1>7. t \in Seq(PooledConn) /\ Len(t) = n
  BY <1>2, <1>6, SeqDef, LenProperties
<1>8. ConnsOf(t) = {s[i].c : i \in I}
  BY <1>3, <1>4, <1>5 DEF ConnsOf
<1>9. ASSUME DistinctConns(s) PROVE DistinctConns(t)
  <2> SUFFICES ASSUME NEW i \in 1 .. n, NEW j \in 1 .. n, t[i].c = t[j].c
               PROVE  i = j
    BY <1>5 DEF DistinctConns
  <2>1. at[i] = at[j]
    BY <1>4, <1>5, <1>9 DEF DistinctConns
  <2>2. at[i] \in Int
    BY <1>1, <1>4
  <2> QED
    BY <1>2, <1>3, <2>1, <2>2
<1> QED
  BY <1>7, <1>8, <1>9 DEF n

LEMMA SemStepBase ==
    ASSUME BaseInv, NEW f \in Fetchers,
           \/ SemTake(f) \/ SemQueue(f) \/ SemCancel(f) \/ SemWake(f)
           \/ SemWakeCanceled(f) \/ SemRelease(f)
    PROVE  BaseInv'
<1> USE DEF FetcherPc, poolVars, reaperVars, closerVars, semVars
<1>1. CASE SemTake(f)
  <2>1. QueueInv'
    BY <1>1, QueueElsewhere DEF SemTake, Waiting
  <2> QED
    BY <1>1, <2>1 DEF SemTake, BaseInv, BaseTypes, LeaseByPc
<1>2. CASE SemQueue(f)
  <2>1. QueueInv' /\ waiters' \in Seq(Fetchers)
    BY <1>2, QueueComes DEF SemQueue
  <2> QED
    BY <1>2, <2>1 DEF SemQueue, BaseInv, BaseTypes, LeaseByPc
<1>3. CASE SemCancel(f)
  <2>1. QueueInv' /\ waiters' \in Seq(Fetchers)
    BY <1>3, QueueLeaves DEF SemCancel
  <2> QED
    BY <1>3, <2>1 DEF SemCancel, BaseInv, BaseTypes, LeaseByPc
<1>4. CASE SemWake(f)
  <2>1. QueueInv'
    BY <1>4, QueueElsewhere DEF SemWake, Waiting
  <2> QED
    BY <1>4, <2>1 DEF SemWake, BaseInv, BaseTypes, LeaseByPc
<1>5. ASSUME PutBack(f), pc[f] \in {"ready", "unslot"},
             UNCHANGED <<lease, poolVars, stops, open, reaperVars, ticked,
                         closerVars, now>>
      PROVE  BaseInv'
  <2>1. CASE waiters = <<>>
    <3>1. pc' = [pc EXCEPT ![f] = "idle"] /\ cur' = cur - 1 /\ UNCHANGED waiters
      BY <1>5, <2>1 DEF PutBack
    <3>2. QueueInv'
      BY <1>5, <3>1, QueueElsewhere DEF Waiting
    <3> QED
      BY <1>5, <3>1, <3>2 DEF BaseInv, BaseTypes, LeaseByPc
  <2>2. CASE waiters # <<>>
    <3>1. /\ pc' = [pc EXCEPT ![f] = "idle", ![Head(waiters)] = "ready"]
          /\ waiters' = Tail(waiters)
          /\ UNCHANGED cur
      BY <1>5, <2>2 DEF PutBack
    <3>2. Head(waiters) \in Waiting
      BY <2>2, QueueServed
    <3>3. Waiting' = Waiting \ {Head(waiters)}
      BY <1>5, <3>1, <3>2 DEF Waiting, BaseInv, BaseTypes
    <3>4. QueueInv' /\ waiters' \in Seq(Fetchers)
      BY <2>2, <3>1, <3>3, QueueServed DEF QueueInv
    <3> QED
      BY <1>5, <3>1, <3>2, <3>4 DEF BaseInv, BaseTypes, LeaseByPc, Waiting
  <2> QED
    BY <2>1, <2>2
<1>6. CASE SemWakeCanceled(f)
  BY <1>5, <1>6 DEF SemWakeCanceled
<1>7. CASE SemRelease(f)
  BY <1>5, <1>7 DEF SemRelease
<1> QED
  BY <1>1, <1>2, <1>3, <1>4, <1>6, <1>7

\* The rest of acquire and release leaves the queue alone.
LEMMA PoolStepBase ==
    ASSUME BaseInv, NEW f \in Fetchers,
           \/ AcquireClosed(f) \/ AcquireFree(f) \/ AcquireDial(f)
           \/ DialFail(f) \/ \E c \in Conns : DialOk(f, c)
           \/ ReleaseFree(f) \/ ReleaseClosing(f) \/ ReleaseClose(f)
    PROVE  BaseInv'
<1> USE DEF FetcherPc, poolVars, reaperVars, closerVars, semVars
<1>1. CASE AcquireClosed(f)
  <2>1. QueueInv'
    BY <1>1, QueueElsewhere DEF AcquireClosed, Waiting
  <2> QED
    BY <1>1, <2>1 DEF AcquireClosed, BaseInv, BaseTypes, LeaseByPc
<1>2. CASE AcquireFree(f)
  <2>1. QueueInv'
    BY <1>2, QueueElsewhere DEF AcquireFree, Waiting
  <2>2. Last(free) \in PooledConn /\ free' \in Seq(PooledConn)
    BY <1>2, PopType DEF AcquireFree, BaseInv, BaseTypes
  <2>3. lease'[f] \in Conns
    BY <1>2, <2>2 DEF AcquireFree, BaseInv, BaseTypes, PooledConn
  <2>4. LeaseByPc'
    BY <1>2, <2>3, PoolAssumption
       DEF PoolAssumption, AcquireFree, BaseInv, BaseTypes, LeaseByPc
  <2> QED
    BY <1>2, <2>1, <2>2, <2>3, <2>4 DEF AcquireFree, BaseInv, BaseTypes
<1>3. CASE AcquireDial(f)
  <2>1. QueueInv'
    BY <1>3, QueueElsewhere DEF AcquireDial, Waiting
  <2> QED
    BY <1>3, <2>1 DEF AcquireDial, BaseInv, BaseTypes, LeaseByPc
<1>4. CASE DialFail(f)
  <2>1. QueueInv'
    BY <1>4, QueueElsewhere DEF DialFail, Waiting
  <2> QED
    BY <1>4, <2>1 DEF DialFail, BaseInv, BaseTypes, LeaseByPc
<1>5. ASSUME NEW c \in Conns, DialOk(f, c)
      PROVE  BaseInv'
  <2>1. QueueInv'
    BY <1>5, QueueElsewhere DEF DialOk, Waiting
  <2> QED
    BY <1>5, <2>1, PoolAssumption
       DEF PoolAssumption, DialOk, BaseInv, BaseTypes, LeaseByPc
<1>6. CASE ReleaseFree(f)
  <2>1. QueueInv'
    BY <1>6, QueueElsewhere DEF ReleaseFree, Waiting
  <2>2. [c |-> lease[f], idleSince |-> now] \in PooledConn
    BY <1>6, PoolAssumption DEF PoolAssumption, ReleaseFree, BaseInv, BaseTypes,
       LeaseByPc, PooledConn
  <2>3. free' \in Seq(PooledConn)
    BY <1>6, <2>2, AppendProperties DEF ReleaseFree, BaseInv, BaseTypes
  <2> QED
    BY <1>6, <2>1, <2>3 DEF ReleaseFree, BaseInv, BaseTypes, LeaseByPc
<1>7. CASE ReleaseClosing(f)
  <2>1. QueueInv'
    BY <1>7, QueueElsewhere DEF ReleaseClosing, Waiting
  <2> QED
    BY <1>7, <2>1 DEF ReleaseClosing, BaseInv, BaseTypes, LeaseByPc
<1>8. CASE ReleaseClose(f)
  <2>1. QueueInv'
    BY <1>8, QueueElsewhere DEF ReleaseClose, Waiting
  <2> QED
    BY <1>8, <2>1 DEF ReleaseClose, BaseInv, BaseTypes, LeaseByPc
<1> QED
  BY <1>1, <1>2, <1>3, <1>4, <1>5, <1>6, <1>7, <1>8

LEMMA ReaperStepBase ==
    ASSUME BaseInv, Reaper
    PROVE  BaseInv'
<1> USE DEF poolVars, reaperVars, closerVars, semVars
<1>1. pc' = pc /\ lease' = lease /\ waiters' = waiters
  BY DEF Reaper, ReapTick, ReapFilter, ReapClose, ReapDone, ReapStop
<1>2. LeaseByPc' /\ QueueInv'
  BY <1>1 DEF BaseInv, LeaseByPc, QueueInv, Waiting
<1>3. CASE ReapFilter
  <2>1. PICK at \in Listings(KeptPositions) :
            free' = [i \in DOMAIN at |-> free[at[i]]]
    BY <1>3 DEF ReapFilter
  <2>2. free' \in Seq(PooledConn)
    BY <2>1, KeepFree DEF KeptPositions, BaseInv, BaseTypes
  <2>3. drop' \in SUBSET Conns
    BY <1>3, PooledConnType DEF ReapFilter, BaseInv, BaseTypes
  <2> QED
    BY <1>2, <1>3, <2>2, <2>3 DEF ReapFilter, BaseInv, BaseTypes
<1>4. CASE ReapTick
  <2>1. cutoff' \in Int
    BY <1>4, PoolAssumption DEF PoolAssumption, ReapTick, BaseInv, BaseTypes
  <2> QED
    BY <1>2, <1>4, <2>1 DEF ReapTick, BaseInv, BaseTypes
<1>5. CASE ReapDone \/ ReapStop
  BY <1>2, <1>5 DEF ReapDone, ReapStop, BaseInv, BaseTypes
<1>6. ASSUME NEW c \in Conns, ReapClose(c)
      PROVE  BaseInv'
  BY <1>2, <1>6 DEF ReapClose, BaseInv, BaseTypes
<1> QED
  BY <1>3, <1>4, <1>5, <1>6 DEF Reaper

LEMMA CloserStepBase ==
    ASSUME BaseInv, NEW k \in Closers, Closer(k)
    PROVE  BaseInv'
<1> USE DEF poolVars, reaperVars, closerVars, semVars
<1>1. pc' = pc /\ lease' = lease /\ waiters' = waiters
  BY DEF Closer, CloseFirst, CloseAgain, CloseStop, CloseDone, CloseConn
<1>2. LeaseByPc' /\ QueueInv'
  BY <1>1 DEF BaseInv, LeaseByPc, QueueInv, Waiting
<1>3. CASE CloseFirst(k)
  <2>1. FreeConns \in SUBSET Conns
    BY PooledConnType DEF FreeConns, ConnsOf, BaseInv, BaseTypes
  <2>2. free' \in Seq(PooledConn)
    BY <1>3, EmptySeq DEF CloseFirst
  <2> QED
    BY <1>2, <1>3, <2>1, <2>2 DEF CloseFirst, BaseInv, BaseTypes
<1>4. CASE CloseAgain(k) \/ CloseStop(k) \/ CloseDone(k)
  BY <1>2, <1>4 DEF CloseAgain, CloseStop, CloseDone, BaseInv, BaseTypes
<1>5. ASSUME NEW c \in Conns, CloseConn(k, c)
      PROVE  BaseInv'
  BY <1>2, <1>5 DEF CloseConn, BaseInv, BaseTypes
<1> QED
  BY <1>3, <1>4, <1>5 DEF Closer

LEMMA BaseNext == BaseInv /\ [Next]_vars => BaseInv'
<1> SUFFICES ASSUME BaseInv, [Next]_vars
             PROVE  BaseInv'
  OBVIOUS
<1>1. ASSUME NEW f \in Fetchers, Fetcher(f)
      PROVE  BaseInv'
  BY <1>1, SemStepBase, PoolStepBase DEF Fetcher, Acquiring, Releasing
<1>2. CASE Tick
  <2>1. LeaseByPc' /\ QueueInv'
    BY <1>2 DEF Tick, semVars, BaseInv, LeaseByPc, QueueInv, Waiting
  <2> QED
    BY <1>2, <2>1, PoolAssumption DEF PoolAssumption, Tick, semVars, poolVars,
       reaperVars, closerVars, BaseInv, BaseTypes
<1>3. CASE UNCHANGED vars
  BY <1>3 DEF vars, semVars, poolVars, reaperVars, closerVars, BaseInv, BaseTypes,
     LeaseByPc, QueueInv, Waiting
<1> QED
  BY <1>1, <1>2, <1>3, ReaperStepBase, CloserStepBase DEF Next

THEOREM BaseSafe == Spec => []BaseInv
BY BaseInit, BaseNext, PTL DEF Spec

-----------------------------------------------------------------------------
(***************************************************************************)
(* The permits.  PermitInv is inductive relative to BaseInv.               *)
(***************************************************************************)
PermitInv ==
    /\ cur = Cardinality(PermitHolders)
    /\ cur <= PoolSize
    /\ waiters # <<>> => cur = PoolSize

LEMMA HoldersFinite ==
    IsFiniteSet(PermitHolders) /\ Cardinality(PermitHolders) \in Nat
BY PoolAssumption, FS_Subset, FS_CardinalityType DEF PoolAssumption, PermitHolders

LEMMA PermitInit == Init => PermitInv
<1> SUFFICES ASSUME Init PROVE PermitInv
  OBVIOUS
<1>1. PermitHolders = {}
  BY DEF Init, PermitHolders
<1> QED
  BY <1>1, FS_EmptySet, PoolAssumption DEF PoolAssumption, Init, PermitInv

\* A step of f between two states in which it holds its permit.
LEMMA PermitKept ==
    ASSUME BaseInv, PermitInv, NEW f \in PermitHolders,
           UNCHANGED semVars, NEW p \in FetcherPc \ {"idle", "waiting"},
           pc' = [pc EXCEPT ![f] = p]
    PROVE  PermitInv'
<1>1. PermitHolders' = PermitHolders
  BY DEF PermitHolders, BaseInv, BaseTypes
<1> QED
  BY <1>1 DEF PermitInv, semVars

LEMMA PermitPutBack ==
    ASSUME BaseInv, PermitInv, NEW f \in PermitHolders, PutBack(f)
    PROVE  PermitInv'
<1>1. CASE waiters = <<>>
  <2>1. PermitHolders' = PermitHolders \ {f}
    BY <1>1 DEF PutBack, PermitHolders, BaseInv, BaseTypes
  <2>2. Cardinality(PermitHolders') = Cardinality(PermitHolders) - 1
    BY <2>1, HoldersFinite, FS_RemoveElement
  <2>3. waiters' = <<>> /\ cur' = cur - 1
    BY <1>1 DEF PutBack
  <2> QED
    BY <2>2, <2>3, HoldersFinite, PoolAssumption DEF PoolAssumption, PermitInv
<1>2. CASE waiters # <<>>
  <2>1. Head(waiters) \in Fetchers /\ pc[Head(waiters)] = "waiting"
    BY <1>2, QueueServed DEF Waiting
  <2>2. PermitHolders' = (PermitHolders \ {f}) \cup {Head(waiters)}
    BY <1>2, <2>1 DEF PutBack, PermitHolders, BaseInv, BaseTypes
  <2>3. Head(waiters) \notin PermitHolders
    BY <2>1 DEF PermitHolders
  <2>4. /\ IsFiniteSet(PermitHolders \ {f})
        /\ Cardinality(PermitHolders \ {f}) = Cardinality(PermitHolders) - 1
    BY HoldersFinite, FS_RemoveElement
  <2>5. Cardinality(PermitHolders') = Cardinality(PermitHolders)
    <3>1. Head(waiters) \notin PermitHolders \ {f}
      BY <2>3
    <3>2. Cardinality((PermitHolders \ {f}) \cup {Head(waiters)})
            = Cardinality(PermitHolders \ {f}) + 1
      BY <2>4, <3>1, FS_AddElement
    <3> QED
      BY <2>2, <2>4, <3>2, HoldersFinite
  <2>6. cur' = cur
    BY <1>2 DEF PutBack
  <2> QED
    BY <1>2, <2>5, <2>6 DEF PermitInv
<1> QED
  BY <1>1, <1>2

LEMMA PermitFetcher ==
    ASSUME BaseInv, PermitInv, NEW f \in Fetchers, Fetcher(f)
    PROVE  PermitInv'
<1>1. CASE SemTake(f)
  <2>1. PermitHolders' = PermitHolders \cup {f} /\ f \notin PermitHolders
    BY <1>1 DEF SemTake, PermitHolders, BaseInv, BaseTypes
  <2>2. Cardinality(PermitHolders') = Cardinality(PermitHolders) + 1
    BY <2>1, HoldersFinite, FS_AddElement
  <2> QED
    BY <1>1, <2>2, HoldersFinite, PoolAssumption
       DEF PoolAssumption, SemTake, PermitInv
<1>2. CASE SemQueue(f)
  <2>1. PermitHolders' = PermitHolders
    BY <1>2 DEF SemQueue, PermitHolders, BaseInv, BaseTypes
  <2> QED
    BY <1>2, <2>1 DEF SemQueue, PermitInv
<1>3. CASE SemCancel(f)
  <2>1. PermitHolders' = PermitHolders
    BY <1>3 DEF SemCancel, PermitHolders, BaseInv, BaseTypes
  <2>2. waiters # <<>> /\ cur' = cur
    BY <1>3 DEF SemCancel
  <2> QED
    BY <2>1, <2>2 DEF PermitInv
<1>4. CASE SemWake(f)
  BY <1>4, PermitKept DEF SemWake, FetcherPc, PermitHolders
<1>5. CASE SemWakeCanceled(f)
  BY <1>5, PermitPutBack DEF SemWakeCanceled, PermitHolders
<1>6. CASE SemRelease(f)
  BY <1>6, PermitPutBack DEF SemRelease, PermitHolders
<1>7. CASE AcquireClosed(f) \/ AcquireFree(f) \/ AcquireDial(f) \/ DialFail(f)
  BY <1>7, PermitKept DEF AcquireClosed, AcquireFree, AcquireDial, DialFail,
     FetcherPc, PermitHolders
<1>8. CASE \E c \in Conns : DialOk(f, c)
  BY <1>8, PermitKept DEF DialOk, FetcherPc, PermitHolders
<1>9. CASE ReleaseFree(f) \/ ReleaseClosing(f) \/ ReleaseClose(f)
  BY <1>9, PermitKept DEF ReleaseFree, ReleaseClosing, ReleaseClose, FetcherPc,
     PermitHolders
<1> QED
  BY <1>1, <1>2, <1>3, <1>4, <1>5, <1>6, <1>7, <1>8, <1>9
     DEF Fetcher, Acquiring, Releasing

\* The reaper, close and the clock have nothing to do with permits.
LEMMA OthersKeepPermits ==
    ASSUME \/ Reaper \/ Tick \/ UNCHANGED vars
           \/ \E k \in Closers : Closer(k)
    PROVE  UNCHANGED <<pc, lease, cur, waiters>>
BY DEF Reaper, ReapTick, ReapFilter, ReapClose, ReapDone, ReapStop, Closer,
   CloseFirst, CloseAgain, CloseStop, CloseDone, CloseConn, Tick, vars, semVars

LEMMA PermitNext == BaseInv /\ PermitInv /\ [Next]_vars => PermitInv'
<1> SUFFICES ASSUME BaseInv, PermitInv, [Next]_vars
             PROVE  PermitInv'
  OBVIOUS
<1>1. CASE \E f \in Fetchers : Fetcher(f)
  BY <1>1, PermitFetcher
<1>2. CASE Reaper \/ Tick \/ UNCHANGED vars \/ \E k \in Closers : Closer(k)
  BY <1>2, OthersKeepPermits DEF PermitInv, PermitHolders
<1> QED
  BY <1>1, <1>2 DEF Next

THEOREM PermitSafe == Spec => []PermitInv
BY PermitInit, PermitNext, BaseSafe, PTL DEF Spec

\* Every path of acquire and release gives back the permit it took, exactly
\* once, and nobody waits while a permit is to be had.
THEOREM PermitsAccounted == Spec => []PermitAccounting
<1>1. BaseInv /\ PermitInv => PermitAccounting
  BY DEF BaseInv, QueueInv, Waiting, PermitInv, PermitAccounting
<1> QED
  BY <1>1, BaseSafe, PermitSafe, PTL

-----------------------------------------------------------------------------
(***************************************************************************)
(* Who owns a conn.  Every open conn is in exactly one place: with the     *)
(* fetch that leased it, on the stack, or with the goroutine about to      *)
(* close it.                                                               *)
(***************************************************************************)
OnePlace ==
    /\ LeasedConns \cap FreeConns = {}
    /\ LeasedConns \cap drop = {}
    /\ LeasedConns \cap PendingConns = {}
    /\ FreeConns \cap drop = {}
    /\ FreeConns \cap PendingConns = {}
    /\ drop \cap PendingConns = {}

OneHolder ==
    \A f, g \in Fetchers : lease[f] = lease[g] => f = g \/ lease[f] = NoConn

\* A goroutine has something left to close only while it is at it, and close
\* takes the stack once.
ClosingInv ==
    /\ rpc # "close" => drop = {}
    /\ \A k \in Closers : pending[k] # {} => closed /\ cpc[k] # "idle"
    /\ \A k, l \in Closers : k # l => pending[k] \cap pending[l] = {}

OwnerInv ==
    /\ OnePlace
    /\ OneHolder
    /\ DistinctConns(free)
    /\ NoConnLeak
    /\ ClosedPoolIsEmpty
    /\ ClosingInv

LEMMA OwnerInit == Init => OwnerInv
<1> SUFFICES ASSUME Init PROVE OwnerInv
  OBVIOUS
<1>1. LeasedConns = {} /\ FreeConns = {} /\ PendingConns = {} /\ drop = {}
  BY DEF Init, LeasedConns, FreeConns, ConnsOf, PendingConns
<1>2. OneHolder /\ DistinctConns(free) /\ ClosedPoolIsEmpty /\ ClosingInv
  BY DEF Init, OneHolder, DistinctConns, ClosedPoolIsEmpty, ClosingInv
<1> QED
  BY <1>1, <1>2 DEF Init, OwnerInv, OnePlace, NoConnLeak

\* What a lease taken, and one given up, does to the leased conns.
LEMMA LeaseTaken ==
    ASSUME BaseInv, OneHolder, NEW f \in Fetchers, lease[f] = NoConn,
           NEW c \in Conns \ LeasedConns, lease' = [lease EXCEPT ![f] = c]
    PROVE  OneHolder' /\ LeasedConns' = LeasedConns \cup {c}
<1>1. c # NoConn
  BY PoolAssumption DEF PoolAssumption
<1>2. \A g \in Fetchers : lease[g] # c
  BY <1>1 DEF LeasedConns
<1>3. \A g \in Fetchers : lease'[g] = IF g = f THEN c ELSE lease[g]
  BY DEF BaseInv, BaseTypes
<1>4. OneHolder'
  BY <1>2, <1>3 DEF OneHolder
<1>5. LeasedConns' = LeasedConns \cup {c}
  BY <1>1, <1>3 DEF LeasedConns
<1> QED
  BY <1>4, <1>5

LEMMA LeaseGiven ==
    ASSUME BaseInv, OneHolder, NEW f \in Fetchers, lease[f] # NoConn,
           lease' = [lease EXCEPT ![f] = NoConn]
    PROVE  /\ OneHolder'
           /\ lease[f] \in LeasedConns
           /\ LeasedConns' = LeasedConns \ {lease[f]}
<1>1. \A g \in Fetchers : lease'[g] = IF g = f THEN NoConn ELSE lease[g]
  BY DEF BaseInv, BaseTypes
<1>2. OneHolder'
  BY <1>1 DEF OneHolder
<1>3. LeasedConns' = LeasedConns \ {lease[f]}
  BY <1>1 DEF LeasedConns, OneHolder
<1> QED
  BY <1>2, <1>3 DEF LeasedConns

\* Steps that leave all conns where they are.
LEMMA OwnerSame ==
    ASSUME OwnerInv, UNCHANGED <<lease, poolVars, open, drop, pending>>,
           rpc' = rpc \/ drop = {},
           \A k \in Closers : cpc'[k] = "idle" => cpc[k] = "idle"
    PROVE  OwnerInv'
<1>1. /\ LeasedConns' = LeasedConns
      /\ FreeConns' = FreeConns
      /\ PendingConns' = PendingConns
  BY DEF LeasedConns, FreeConns, PendingConns, poolVars
<1> QED
  BY <1>1 DEF OwnerInv, OnePlace, OneHolder, DistinctConns, NoConnLeak,
     ClosedPoolIsEmpty, ClosingInv, poolVars

LEMMA OwnerFetcher ==
    ASSUME BaseInv, OwnerInv, NEW f \in Fetchers, Fetcher(f)
    PROVE  OwnerInv'
<1>1. CASE AcquireFree(f)
  <2> DEFINE c == Last(free).c
  <2>1. /\ lease[f] = NoConn
        /\ ~closed
        /\ lease' = [lease EXCEPT ![f] = c]
        /\ free' = Front(free)
        /\ free # <<>>
        /\ UNCHANGED <<closed, open, rpc, drop, cpc, pending>>
    BY <1>1 DEF AcquireFree, BaseInv, LeaseByPc, reaperVars, closerVars
  <2>2. /\ c \in FreeConns
        /\ FreeConns' = FreeConns \ {c}
        /\ DistinctConns(free')
    BY <2>1, PopFree DEF OwnerInv, BaseInv, BaseTypes, FreeConns
  <2>3. c \in Conns \ LeasedConns
    BY <2>1, <2>2, PopType DEF OwnerInv, OnePlace, BaseInv, BaseTypes, PooledConn
  <2> HIDE DEF c
  <2>4. OneHolder' /\ LeasedConns' = LeasedConns \cup {c}
    BY <2>1, <2>3, LeaseTaken DEF OwnerInv
  <2>5. PendingConns' = PendingConns
    BY <2>1 DEF PendingConns
  <2>6. ClosingInv' /\ ClosedPoolIsEmpty'
    BY <2>1 DEF OwnerInv, ClosingInv, ClosedPoolIsEmpty
  <2>7. OnePlace' /\ NoConnLeak'
    BY <2>1, <2>2, <2>4, <2>5 DEF OwnerInv, OnePlace, NoConnLeak
  <2> QED
    BY <2>2, <2>4, <2>6, <2>7 DEF OwnerInv, DistinctConns
<1>2. ASSUME NEW c \in Conns, DialOk(f, c)
      PROVE  OwnerInv'
  <2>1. /\ lease[f] = NoConn
        /\ c \notin open
        /\ lease' = [lease EXCEPT ![f] = c]
        /\ open' = open \cup {c}
        /\ UNCHANGED <<closed, free, rpc, drop, cpc, pending>>
    BY <1>2 DEF DialOk, BaseInv, LeaseByPc, reaperVars, closerVars, poolVars
  <2>2. c \in Conns \ LeasedConns
    BY <2>1 DEF OwnerInv, NoConnLeak
  <2>3. OneHolder' /\ LeasedConns' = LeasedConns \cup {c}
    BY <2>1, <2>2, LeaseTaken DEF OwnerInv
  <2>4. PendingConns' = PendingConns /\ FreeConns' = FreeConns
    BY <2>1 DEF PendingConns, FreeConns
  <2>5. ClosingInv' /\ ClosedPoolIsEmpty' /\ DistinctConns(free)'
    BY <2>1 DEF OwnerInv, ClosingInv, ClosedPoolIsEmpty, DistinctConns
  <2>6. OnePlace' /\ NoConnLeak'
    BY <2>1, <2>3, <2>4 DEF OwnerInv, OnePlace, NoConnLeak
  <2> QED
    BY <2>3, <2>5, <2>6 DEF OwnerInv
<1>3. CASE ReleaseFree(f)
  <2> DEFINE x == [c |-> lease[f], idleSince |-> now]
  <2>1. /\ lease[f] # NoConn
        /\ ~closed
        /\ lease' = [lease EXCEPT ![f] = NoConn]
        /\ free' = Append(free, x)
        /\ UNCHANGED <<closed, open, rpc, drop, cpc, pending>>
    BY <1>3 DEF ReleaseFree, BaseInv, LeaseByPc, reaperVars, closerVars
  <2>2. /\ OneHolder'
        /\ lease[f] \in LeasedConns
        /\ LeasedConns' = LeasedConns \ {lease[f]}
    BY <2>1, LeaseGiven DEF OwnerInv
  <2>3. x \in PooledConn /\ x.c = lease[f]
    BY <2>1, PoolAssumption DEF PoolAssumption, BaseInv, BaseTypes, PooledConn
  <2>4. x.c \notin FreeConns
    BY <2>2, <2>3 DEF OwnerInv, OnePlace
  <2> HIDE DEF x
  <2>5. FreeConns' = FreeConns \cup {lease[f]} /\ DistinctConns(free')
    BY <2>1, <2>3, <2>4, PushFree DEF OwnerInv, BaseInv, BaseTypes, FreeConns
  <2>6. PendingConns' = PendingConns
    BY <2>1 DEF PendingConns
  <2>7. ClosingInv' /\ ClosedPoolIsEmpty'
    BY <2>1 DEF OwnerInv, ClosingInv, ClosedPoolIsEmpty
  <2>8. OnePlace' /\ NoConnLeak'
    BY <2>1, <2>2, <2>5, <2>6 DEF OwnerInv, OnePlace, NoConnLeak
  <2> QED
    BY <2>2, <2>5, <2>7, <2>8 DEF OwnerInv, DistinctConns
<1>4. CASE ReleaseClose(f)
  <2>1. /\ lease[f] # NoConn
        /\ lease' = [lease EXCEPT ![f] = NoConn]
        /\ open' = open \ {lease[f]}
        /\ UNCHANGED <<closed, free, rpc, drop, cpc, pending>>
    BY <1>4 DEF ReleaseClose, BaseInv, LeaseByPc, reaperVars, closerVars, poolVars
  <2>2. /\ OneHolder'
        /\ lease[f] \in LeasedConns
        /\ LeasedConns' = LeasedConns \ {lease[f]}
    BY <2>1, LeaseGiven DEF OwnerInv
  <2>3. PendingConns' = PendingConns /\ FreeConns' = FreeConns
    BY <2>1 DEF PendingConns, FreeConns
  <2>4. ClosingInv' /\ ClosedPoolIsEmpty' /\ DistinctConns(free)'
    BY <2>1 DEF OwnerInv, ClosingInv, ClosedPoolIsEmpty, DistinctConns
  <2>5. OnePlace' /\ NoConnLeak'
    BY <2>1, <2>2, <2>3 DEF OwnerInv, OnePlace, NoConnLeak
  <2> QED
    BY <2>2, <2>4, <2>5 DEF OwnerInv
<1>5. CASE \/ SemTake(f) \/ SemQueue(f) \/ SemCancel(f) \/ SemWake(f)
           \/ SemWakeCanceled(f) \/ SemRelease(f)
  BY <1>5, OwnerSame DEF SemTake, SemQueue, SemCancel, SemWake, SemWakeCanceled,
     SemRelease, reaperVars, closerVars
<1>6. CASE \/ AcquireClosed(f) \/ AcquireDial(f) \/ DialFail(f)
           \/ ReleaseClosing(f)
  BY <1>6, OwnerSame DEF AcquireClosed, AcquireDial, DialFail, ReleaseClosing,
     reaperVars, closerVars
<1> QED
  BY <1>1, <1>2, <1>3, <1>4, <1>5, <1>6 DEF Fetcher, Acquiring, Releasing

LEMMA OwnerReaper ==
    ASSUME BaseInv, OwnerInv, Reaper
    PROVE  OwnerInv'
<1>1. CASE ReapFilter
  <2>1. PICK at \in Listings(KeptPositions) :
            free' = [i \in DOMAIN at |-> free[at[i]]]
    BY <1>1 DEF ReapFilter
  <2>2. /\ Len(free') = Cardinality(KeptPositions)
        /\ free' \in Seq(PooledConn)
        /\ FreeConns' = {free[i].c : i \in KeptPositions}
        /\ DistinctConns(free')
    BY <2>1, KeepFree DEF KeptPositions, BaseInv, BaseTypes, OwnerInv, FreeConns
  <2>3. /\ rpc = "filter"
        /\ rpc' = "close"
        /\ drop' = {free[i].c : i \in DOMAIN free \ KeptPositions}
        /\ UNCHANGED <<lease, closed, open, cpc, pending>>
    BY <1>1 DEF ReapFilter, closerVars
  <2>4. FreeConns = FreeConns' \cup drop' /\ FreeConns' \cap drop' = {}
    <3>1. KeptPositions \subseteq DOMAIN free
      BY DEF KeptPositions
    <3>2. FreeConns = {free[i].c : i \in DOMAIN free}
      BY DEF FreeConns, ConnsOf
    <3>3. \A i, j \in DOMAIN free : free[i].c = free[j].c => i = j
      BY DEF OwnerInv, DistinctConns
    <3>4. FreeConns = FreeConns' \cup drop'
      BY <2>2, <2>3, <3>1, <3>2
    <3>5. FreeConns' \cap drop' = {}
      BY <2>2, <2>3, <3>1, <3>3
    <3> QED
      BY <3>4, <3>5
  <2>5. drop = {}
    BY <2>3 DEF OwnerInv, ClosingInv
  <2>6. LeasedConns' = LeasedConns /\ PendingConns' = PendingConns
    BY <2>3 DEF LeasedConns, PendingConns
  <2>7. ASSUME closed' PROVE free' = <<>>
    <3>1. free = <<>>
      BY <2>3, <2>7 DEF OwnerInv, ClosedPoolIsEmpty
    <3>2. KeptPositions = {}
      BY <3>1 DEF KeptPositions
    <3> QED
      BY <2>2, <3>2, FS_EmptySet, EmptySeq
  <2>8. OneHolder' /\ ClosingInv' /\ ClosedPoolIsEmpty'
    BY <2>3, <2>7 DEF OwnerInv, OneHolder, ClosingInv, ClosedPoolIsEmpty
  <2>9. OnePlace' /\ NoConnLeak'
    BY <2>3, <2>4, <2>5, <2>6 DEF OwnerInv, OnePlace, NoConnLeak
  <2> QED
    BY <2>2, <2>8, <2>9 DEF OwnerInv, DistinctConns
<1>2. ASSUME NEW c \in Conns, ReapClose(c)
      PROVE  OwnerInv'
  <2>1. /\ c \in drop
        /\ drop' = drop \ {c}
        /\ open' = open \ {c}
        /\ UNCHANGED <<lease, free, closed, rpc, cpc, pending>>
    BY <1>2 DEF ReapClose, closerVars, poolVars
  <2>2. /\ LeasedConns' = LeasedConns
        /\ FreeConns' = FreeConns
        /\ PendingConns' = PendingConns
    BY <2>1 DEF LeasedConns, FreeConns, PendingConns
  <2>3. /\ OneHolder' /\ ClosingInv' /\ ClosedPoolIsEmpty'
        /\ DistinctConns(free)'
    BY <2>1 DEF OwnerInv, OneHolder, ClosingInv, ClosedPoolIsEmpty, DistinctConns
  <2>4. OnePlace' /\ NoConnLeak'
    BY <2>1, <2>2 DEF OwnerInv, OnePlace, NoConnLeak
  <2> QED
    BY <2>3, <2>4 DEF OwnerInv
<1>3. CASE ReapTick \/ ReapDone \/ ReapStop
  <2>1. UNCHANGED <<lease, poolVars, open, drop, pending, cpc>> /\ drop = {}
    BY <1>3 DEF ReapTick, ReapDone, ReapStop, closerVars, OwnerInv, ClosingInv
  <2> QED
    BY <2>1, OwnerSame
<1> QED
  BY <1>1, <1>2, <1>3 DEF Reaper

LEMMA OwnerCloser ==
    ASSUME BaseInv, OwnerInv, NEW k \in Closers, Closer(k)
    PROVE  OwnerInv'
<1>1. CASE CloseFirst(k)
  <2>1. /\ cpc[k] = "idle"
        /\ closed'
        /\ pending' = [pending EXCEPT ![k] = FreeConns]
        /\ free' = <<>>
        /\ cpc' = [cpc EXCEPT ![k] = "stop"]
        /\ UNCHANGED <<lease, open, rpc, drop>>
    BY <1>1 DEF CloseFirst, reaperVars
  <2>2. pending[k] = {}
    BY <2>1 DEF OwnerInv, ClosingInv
  <2>3. \A l \in Closers :
            /\ pending'[l] = IF l = k THEN FreeConns ELSE pending[l]
            /\ cpc'[l] = IF l = k THEN "stop" ELSE cpc[l]
    BY <2>1 DEF BaseInv, BaseTypes
  <2>4. PendingConns' = PendingConns \cup FreeConns
    BY <2>2, <2>3 DEF PendingConns
  <2>5. \A l \in Closers : pending[l] \cap FreeConns = {}
    BY DEF OwnerInv, OnePlace, PendingConns
  <2>6. FreeConns' = {} /\ DistinctConns(free')
    BY <2>1 DEF FreeConns, ConnsOf, DistinctConns
  <2>7. LeasedConns' = LeasedConns /\ OneHolder' /\ ClosedPoolIsEmpty'
    BY <2>1 DEF LeasedConns, OwnerInv, OneHolder, ClosedPoolIsEmpty
  <2>8. ClosingInv'
    BY <2>1, <2>3, <2>5 DEF OwnerInv, ClosingInv
  <2>9. OnePlace' /\ NoConnLeak'
    BY <2>1, <2>4, <2>6, <2>7 DEF OwnerInv, OnePlace, NoConnLeak
  <2> QED
    BY <2>6, <2>7, <2>8, <2>9 DEF OwnerInv, DistinctConns
<1>2. ASSUME NEW c \in Conns, CloseConn(k, c)
      PROVE  OwnerInv'
  <2>1. /\ c \in pending[k]
        /\ pending' = [pending EXCEPT ![k] = @ \ {c}]
        /\ open' = open \ {c}
        /\ UNCHANGED <<lease, free, closed, rpc, drop, cpc>>
    BY <1>2 DEF CloseConn, reaperVars, poolVars
  <2>2. \A l \in Closers :
            pending'[l] = IF l = k THEN pending[k] \ {c} ELSE pending[l]
    BY <2>1 DEF BaseInv, BaseTypes
  <2>3. \A l \in Closers : l # k => c \notin pending[l]
    BY <2>1 DEF OwnerInv, ClosingInv
  <2>4. PendingConns' = PendingConns \ {c} /\ c \in PendingConns
    BY <2>1, <2>2, <2>3 DEF PendingConns
  <2>5. LeasedConns' = LeasedConns /\ FreeConns' = FreeConns
    BY <2>1 DEF LeasedConns, FreeConns
  <2>6. OneHolder' /\ ClosedPoolIsEmpty' /\ DistinctConns(free)'
    BY <2>1 DEF OwnerInv, OneHolder, ClosedPoolIsEmpty, DistinctConns
  <2>7. ClosingInv'
    BY <2>1, <2>2 DEF OwnerInv, ClosingInv
  <2>8. OnePlace' /\ NoConnLeak'
    BY <2>1, <2>4, <2>5 DEF OwnerInv, OnePlace, NoConnLeak
  <2> QED
    BY <2>6, <2>7, <2>8 DEF OwnerInv
<1>3. CASE CloseAgain(k) \/ CloseStop(k) \/ CloseDone(k)
  <2>1. UNCHANGED <<lease, poolVars, open, drop, pending, rpc>>
    BY <1>3 DEF CloseAgain, CloseStop, CloseDone, reaperVars
  <2>2. \A l \in Closers : cpc'[l] = "idle" => cpc[l] = "idle"
    BY <1>3 DEF CloseAgain, CloseStop, CloseDone, BaseInv, BaseTypes
  <2> QED
    BY <2>1, <2>2, OwnerSame
<1> QED
  BY <1>1, <1>2, <1>3 DEF Closer

LEMMA OwnerNext == BaseInv /\ OwnerInv /\ [Next]_vars => OwnerInv'
<1> SUFFICES ASSUME BaseInv, OwnerInv, [Next]_vars
             PROVE  OwnerInv'
  OBVIOUS
<1>1. CASE Tick \/ UNCHANGED vars
  BY <1>1, OwnerSame DEF Tick, vars, reaperVars, closerVars
<1> QED
  BY <1>1, OwnerFetcher, OwnerReaper, OwnerCloser DEF Next

THEOREM OwnerSafe == Spec => []OwnerInv
BY OwnerInit, OwnerNext, BaseSafe, PTL DEF Spec

\* No conn is ever leased to two fetches, leased while the pool could hand it
\* out again, or leased while a goroutine is about to close it.
THEOREM LeaseIsExclusive == Spec => []ExclusiveLease
<1>1. OwnerInv => ExclusiveLease
  BY DEF OwnerInv, OnePlace, OneHolder, DistinctConns, ExclusiveLease
<1> QED
  BY <1>1, OwnerSafe, PTL

\* Every open socket has an owner that will use or close it.
THEOREM NothingLeaks == Spec => []NoConnLeak
<1>1. OwnerInv => NoConnLeak
  BY DEF OwnerInv
<1> QED
  BY <1>1, OwnerSafe, PTL

\* Nothing gets onto the stack of a closed pool.
THEOREM ClosedStaysEmpty == Spec => []ClosedPoolIsEmpty
<1>1. OwnerInv => ClosedPoolIsEmpty
  BY DEF OwnerInv
<1> QED
  BY <1>1, OwnerSafe, PTL

-----------------------------------------------------------------------------
(***************************************************************************)
(* The stop channel: only the closer that found the pool open gets to      *)
(* close(p.stop), and it gets there once.                                  *)
(***************************************************************************)
StopInv ==
    /\ ~closed => stops = 0 /\ \A k \in Closers : cpc[k] = "idle"
    /\ \A k \in Closers : cpc[k] = "stop" => stops = 0
    /\ \A k, l \in Closers : cpc[k] = "stop" /\ cpc[l] = "stop" => k = l
    /\ stops <= 1

LEMMA StopNext == BaseInv /\ StopInv /\ [Next]_vars => StopInv'
<1> SUFFICES ASSUME BaseInv, StopInv, [Next]_vars
             PROVE  StopInv'
  OBVIOUS
<1>1. ASSUME UNCHANGED <<closed, stops, cpc>>
      PROVE  StopInv'
  BY <1>1 DEF StopInv
<1>2. CASE \E f \in Fetchers : Fetcher(f)
  BY <1>1, <1>2 DEF Fetcher, Acquiring, Releasing, SemTake, SemQueue, SemCancel,
     SemWake, SemWakeCanceled, SemRelease, AcquireClosed, AcquireFree, AcquireDial,
     DialFail, DialOk, ReleaseFree, ReleaseClosing, ReleaseClose, poolVars,
     closerVars
<1>3. CASE Reaper \/ Tick \/ UNCHANGED vars
  BY <1>1, <1>3 DEF Reaper, ReapTick, ReapFilter, ReapClose, ReapDone, ReapStop,
     Tick, vars, poolVars, closerVars
<1>4. ASSUME NEW k \in Closers, CloseFirst(k)
      PROVE  StopInv'
  BY <1>4 DEF CloseFirst, StopInv, BaseInv, BaseTypes
<1>5. ASSUME NEW k \in Closers, CloseAgain(k)
      PROVE  StopInv'
  BY <1>5 DEF CloseAgain, StopInv, BaseInv, BaseTypes, poolVars
<1>6. ASSUME NEW k \in Closers, CloseStop(k)
      PROVE  StopInv'
  BY <1>6 DEF CloseStop, StopInv, BaseInv, BaseTypes, poolVars
<1>7. ASSUME NEW k \in Closers, CloseDone(k)
      PROVE  StopInv'
  BY <1>7 DEF CloseDone, StopInv, BaseInv, BaseTypes, poolVars
<1>8. ASSUME NEW k \in Closers, NEW c \in Conns, CloseConn(k, c)
      PROVE  StopInv'
  BY <1>1, <1>8 DEF CloseConn, poolVars
<1> QED
  BY <1>2, <1>3, <1>4, <1>5, <1>6, <1>7, <1>8 DEF Next, Closer

LEMMA StopSafe == Spec => []StopInv
<1>1. Init => StopInv
  BY DEF Init, StopInv
<1> QED
  BY <1>1, StopNext, BaseSafe, PTL DEF Spec

\* Type correctness: the state of pool.go keeps its types, p.sem never has
\* fewer than none or more than PoolSize permits out (Release would panic), and
\* p.stop is closed at most once however many goroutines close the pool.
THEOREM TypeCorrect == Spec => []TypeOK
<1>1. BaseInv /\ PermitInv => cur \in 0 .. PoolSize
  BY HoldersFinite, PoolAssumption
     DEF PoolAssumption, BaseInv, BaseTypes, PermitInv
<1>2. BaseInv /\ StopInv => stops \in {0, 1}
  BY DEF BaseInv, BaseTypes, StopInv
<1>3. BaseInv /\ PermitInv /\ StopInv => TypeOK
  BY <1>1, <1>2 DEF BaseInv, BaseTypes, TypeOK
<1> QED
  BY <1>3, BaseSafe, PermitSafe, StopSafe, PTL

-----------------------------------------------------------------------------
(***************************************************************************)
(* The reaper's cutoff is read before the lock is taken and may be late,   *)
(* never early.                                                            *)
(***************************************************************************)
CutoffInv == rpc = "filter" => cutoff <= now - IdleTimeout

LEMMA CutoffNext == BaseInv /\ CutoffInv /\ [Next]_vars => CutoffInv'
<1> SUFFICES ASSUME BaseInv, CutoffInv, [Next]_vars
             PROVE  CutoffInv'
  OBVIOUS
<1>1. cutoff \in Int /\ now \in Int /\ IdleTimeout \in Int
  BY PoolAssumption DEF PoolAssumption, BaseInv, BaseTypes
<1>2. ASSUME UNCHANGED <<rpc, cutoff, now>>
      PROVE  CutoffInv'
  BY <1>2 DEF CutoffInv
<1>3. CASE \E f \in Fetchers : Fetcher(f)
  BY <1>2, <1>3 DEF Fetcher, Acquiring, Releasing, SemTake, SemQueue, SemCancel,
     SemWake, SemWakeCanceled, SemRelease, AcquireClosed, AcquireFree, AcquireDial,
     DialFail, DialOk, ReleaseFree, ReleaseClosing, ReleaseClose, reaperVars
<1>4. CASE \E k \in Closers : Closer(k)
  BY <1>2, <1>4 DEF Closer, CloseFirst, CloseAgain, CloseStop, CloseDone, CloseConn,
     reaperVars
<1>5. CASE UNCHANGED vars
  BY <1>2, <1>5 DEF vars, reaperVars
<1>6. CASE Tick
  BY <1>1, <1>6 DEF Tick, CutoffInv, reaperVars
<1>7. CASE ReapTick
  BY <1>1, <1>7 DEF ReapTick, CutoffInv
<1>8. CASE ReapFilter \/ ReapDone \/ ReapStop \/ \E c \in Conns : ReapClose(c)
  BY <1>8 DEF ReapFilter, ReapDone, ReapStop, ReapClose, CutoffInv
<1> QED
  BY <1>3, <1>4, <1>5, <1>6, <1>7, <1>8 DEF Next, Reaper

\* The reaper removes only conns that have been idle for longer than
\* IdleTimeout at the moment it removes them.
THEOREM FreshIsNotReaped == Spec => NeverReapsFresh
<1> DEFINE A == \A i \in DOMAIN free :
                   free[i].c \in drop' \ drop => now - free[i].idleSince > IdleTimeout
<1>1. Init => CutoffInv
  BY DEF Init, CutoffInv
<1>2. BaseInv /\ OwnerInv /\ CutoffInv /\ [Next]_vars => [A]_vars
  <2> SUFFICES ASSUME BaseInv, OwnerInv, CutoffInv, [Next]_vars
               PROVE  A
    OBVIOUS
  <2>1. ASSUME drop' \subseteq drop
        PROVE  A
    BY <2>1
  <2>2. CASE \E f \in Fetchers : Fetcher(f)
    BY <2>1, <2>2 DEF Fetcher, Acquiring, Releasing, SemTake, SemQueue, SemCancel,
       SemWake, SemWakeCanceled, SemRelease, AcquireClosed, AcquireFree,
       AcquireDial, DialFail, DialOk, ReleaseFree, ReleaseClosing, ReleaseClose,
       reaperVars
  <2>3. CASE Tick \/ UNCHANGED vars \/ \E k \in Closers : Closer(k)
    BY <2>1, <2>3 DEF Closer, CloseFirst, CloseAgain, CloseStop, CloseDone,
       CloseConn, Tick, vars, reaperVars
  <2>4. CASE ReapTick \/ ReapDone \/ ReapStop \/ \E c \in Conns : ReapClose(c)
    BY <2>1, <2>4 DEF ReapTick, ReapDone, ReapStop, ReapClose
  <2>5. CASE ReapFilter
    <3> SUFFICES ASSUME NEW i \in DOMAIN free, free[i].c \in drop'
                 PROVE  now - free[i].idleSince > IdleTimeout
      OBVIOUS
    <3>1. i \notin KeptPositions
      BY <2>5 DEF ReapFilter, OwnerInv, DistinctConns
    <3>2. free[i].idleSince < cutoff
      BY <3>1 DEF KeptPositions, Expired
    <3>3. cutoff <= now - IdleTimeout
      BY <2>5 DEF ReapFilter, CutoffInv
    <3>4. free[i].idleSince \in Int /\ cutoff \in Int /\ now \in Int
      BY PooledConnType DEF BaseInv, BaseTypes
    <3> QED
      BY <3>2, <3>3, <3>4, PoolAssumption DEF PoolAssumption
  <2> QED
    BY <2>2, <2>3, <2>4, <2>5 DEF Next, Reaper
<1> QED
  BY <1>1, <1>2, CutoffNext, BaseSafe, OwnerSafe, PTL DEF Spec, NeverReapsFresh

-----------------------------------------------------------------------------
(***************************************************************************)
(* How many sockets are open.  In use and kept together there are at most  *)
(* PoolSize: a dial starts only when nothing is kept, and then the permit  *)
(* of the dialing goroutine was not spent on a conn yet.                   *)
(***************************************************************************)
SizeInv ==
    /\ IsFiniteSet(PendingConns)
    /\ IsFiniteSet(drop)
    /\ Cardinality(Active) + Len(free) + Cardinality(PendingConns) <= PoolSize
    /\ Cardinality(drop) <= PoolSize

LEMMA ConnsOfSize ==
    ASSUME NEW s \in Seq(PooledConn)
    PROVE  IsFiniteSet(ConnsOf(s)) /\ Cardinality(ConnsOf(s)) <= Len(s)
<1> DEFINE at == [i \in 1 .. Len(s) |-> s[i].c]
<1>1. Len(s) \in Nat /\ DOMAIN s = 1 .. Len(s)
  BY LenProperties
<1>2. at \in Surjection(1 .. Len(s), ConnsOf(s))
  BY <1>1 DEF Surjection, ConnsOf
<1> DEFINE D == 1 .. Len(s)
           n == Len(s)
<1>3. IsFiniteSet(D) /\ Cardinality(D) = n
  <2>1. 1 \in Int /\ n \in Int /\ n - 1 + 1 = n
    BY <1>1
  <2>2. 1 > n => n = 0
    BY <1>1
  <2> HIDE DEF n
  <2>3. IsFiniteSet(1 .. n) /\ Cardinality(1 .. n) = IF 1 > n THEN 0 ELSE n - 1 + 1
    BY <2>1, FS_Interval
  <2> QED
    BY <2>1, <2>2, <2>3 DEF n
<1>4. at \in Surjection(D, ConnsOf(s))
  BY <1>2
<1> HIDE DEF at, D, n
<1>5. IsFiniteSet(ConnsOf(s)) /\ Cardinality(ConnsOf(s)) <= Cardinality(D)
  BY <1>3, <1>4, FS_Surjection
<1> QED
  BY <1>3, <1>5 DEF n

LEMMA UnionSize ==
    ASSUME NEW S, NEW T, IsFiniteSet(S), IsFiniteSet(T)
    PROVE  /\ IsFiniteSet(S \cup T)
           /\ Cardinality(S \cup T) <= Cardinality(S) + Cardinality(T)
           /\ Cardinality(S \cup T) \in Nat
<1>1. Cardinality(S \cap T) \in Nat
  BY FS_Intersection, FS_CardinalityType
<1>2. Cardinality(S) \in Nat /\ Cardinality(T) \in Nat
  BY FS_CardinalityType
<1>3. /\ IsFiniteSet(S \cup T)
      /\ Cardinality(S \cup T)
           = Cardinality(S) + Cardinality(T) - Cardinality(S \cap T)
  BY FS_Union
<1>4. Cardinality(S \cup T) \in Nat
  BY <1>3, FS_CardinalityType
<1> QED
  BY <1>1, <1>2, <1>3, <1>4

LEMMA ActiveSize ==
    ASSUME BaseInv, PermitInv
    PROVE  /\ IsFiniteSet(Active)
           /\ Cardinality(Active) \in Nat
           /\ Cardinality(Active) <= PoolSize
           /\ IsFiniteSet(LeasedConns)
           /\ Cardinality(LeasedConns) <= Cardinality(Active)
<1> DEFINE H == {f \in Fetchers : lease[f] # NoConn}
<1>1. H \subseteq Active /\ Active \subseteq PermitHolders
  BY DEF Active, PermitHolders, BaseInv, LeaseByPc
<1>2. /\ IsFiniteSet(Active) /\ Cardinality(Active) \in Nat
      /\ Cardinality(Active) <= Cardinality(PermitHolders)
  BY <1>1, HoldersFinite, FS_Subset, FS_CardinalityType
<1>3. IsFiniteSet(H) /\ Cardinality(H) <= Cardinality(Active)
  BY <1>1, <1>2, FS_Subset
<1>4. [f \in H |-> lease[f]] \in Surjection(H, LeasedConns)
  BY DEF Surjection, LeasedConns
<1>5. IsFiniteSet(LeasedConns) /\ Cardinality(LeasedConns) <= Cardinality(H)
  BY <1>3, <1>4, FS_Surjection
<1>6. /\ Cardinality(LeasedConns) \in Nat
      /\ Cardinality(H) \in Nat
  BY <1>3, <1>5, FS_CardinalityType
<1> QED
  BY <1>2, <1>3, <1>5, <1>6, HoldersFinite, PoolAssumption
     DEF PoolAssumption, PermitInv

\* When a permit holder that has no conn yet starts to dial, or to use one.
LEMMA ActiveJoined ==
    ASSUME BaseInv, PermitInv, NEW f \in PermitHolders \ Active,
           NEW p \in {"dialing", "leased"}, pc' = [pc EXCEPT ![f] = p]
    PROVE  /\ Cardinality(Active') = Cardinality(Active) + 1
           /\ Cardinality(Active) + 1 <= PoolSize
<1>1. Active' = Active \cup {f}
  BY DEF Active, PermitHolders, BaseInv, BaseTypes
<1>2. Cardinality(Active') = Cardinality(Active) + 1
  BY <1>1, ActiveSize, FS_AddElement
<1>3. Active \cup {f} \subseteq PermitHolders
  BY DEF Active, PermitHolders
<1>4. Cardinality(Active \cup {f}) <= Cardinality(PermitHolders)
  BY <1>3, HoldersFinite, FS_Subset
<1> QED
  BY <1>1, <1>2, <1>4, ActiveSize, HoldersFinite, PoolAssumption
     DEF PoolAssumption, PermitInv

LEMMA ActiveLeft ==
    ASSUME BaseInv, PermitInv, NEW f \in Active, pc' = [pc EXCEPT ![f] = "unslot"]
    PROVE  Cardinality(Active') = Cardinality(Active) - 1
<1>1. Active' = Active \ {f}
  BY DEF Active, BaseInv, BaseTypes
<1> QED
  BY <1>1, ActiveSize, FS_RemoveElement

\* Steps that put no conn anywhere and start no dial.
LEMMA SizeSame ==
    ASSUME SizeInv, Active' = Active, UNCHANGED <<free, drop, pending>>
    PROVE  SizeInv'
BY DEF SizeInv, PendingConns

LEMMA SizeFetcher ==
    ASSUME BaseInv, PermitInv, OwnerInv, SizeInv, NEW f \in Fetchers, Fetcher(f)
    PROVE  SizeInv'
<1> DEFINE n == Cardinality(Active)
           m == Cardinality(PendingConns)
<1>1. n \in Nat /\ m \in Nat /\ Len(free) \in Nat
  BY ActiveSize, FS_CardinalityType, LenProperties DEF SizeInv, BaseInv, BaseTypes
<1>2. PoolSize \in Nat
  BY PoolAssumption DEF PoolAssumption
<1>3. UNCHANGED <<drop, pending>> /\ PendingConns' = PendingConns
  BY DEF Fetcher, Acquiring, Releasing, SemTake, SemQueue, SemCancel, SemWake,
     SemWakeCanceled, SemRelease, AcquireClosed, AcquireFree, AcquireDial, DialFail,
     DialOk, ReleaseFree, ReleaseClosing, ReleaseClose, reaperVars, closerVars,
     PendingConns
<1>4. CASE AcquireDial(f)
  <2>1. /\ f \in PermitHolders \ Active
        /\ pc' = [pc EXCEPT ![f] = "dialing"]
        /\ free = <<>> /\ free' = free /\ ~closed
    BY <1>4 DEF AcquireDial, PermitHolders, Active, poolVars
  <2>2. Cardinality(Active') = n + 1 /\ n + 1 <= PoolSize
    BY <2>1, ActiveJoined
  <2>3. PendingConns = {}
    BY <2>1 DEF OwnerInv, ClosingInv, PendingConns
  <2>4. m = 0 /\ Len(free) = 0
    BY <2>1, <2>3, FS_EmptySet
  <2> QED
    BY <1>1, <1>2, <1>3, <2>1, <2>2, <2>4 DEF SizeInv
<1>5. CASE AcquireFree(f)
  <2>1. /\ f \in PermitHolders \ Active
        /\ pc' = [pc EXCEPT ![f] = "leased"]
        /\ free # <<>> /\ free' = Front(free)
    BY <1>5 DEF AcquireFree, PermitHolders, Active
  <2>2. Cardinality(Active') = n + 1
    BY <2>1, ActiveJoined
  <2>3. Len(free') = Len(free) - 1
    BY <2>1, PopFree DEF OwnerInv, BaseInv, BaseTypes
  <2> QED
    BY <1>1, <1>2, <1>3, <2>2, <2>3 DEF SizeInv
<1>6. CASE ReleaseFree(f)
  <2>1. /\ f \in Active
        /\ pc' = [pc EXCEPT ![f] = "unslot"]
        /\ free' = Append(free, [c |-> lease[f], idleSince |-> now])
        /\ [c |-> lease[f], idleSince |-> now] \in PooledConn
    BY <1>6, PoolAssumption DEF PoolAssumption, ReleaseFree, Active, BaseInv,
       BaseTypes, LeaseByPc, PooledConn
  <2>2. Cardinality(Active') = n - 1
    BY <2>1, ActiveLeft
  <2>3. Len(free') = Len(free) + 1
    BY <2>1, AppendProperties DEF BaseInv, BaseTypes
  <2> QED
    BY <1>1, <1>2, <1>3, <2>2, <2>3 DEF SizeInv
<1>7. CASE DialFail(f) \/ ReleaseClose(f)
  <2>1. /\ f \in Active
        /\ pc' = [pc EXCEPT ![f] = "unslot"]
        /\ free' = free
    BY <1>7 DEF DialFail, ReleaseClose, Active, poolVars
  <2>2. Cardinality(Active') = n - 1
    BY <2>1, ActiveLeft
  <2> QED
    BY <1>1, <1>2, <1>3, <2>1, <2>2 DEF SizeInv
<1>8. CASE \/ SemTake(f) \/ SemQueue(f) \/ SemCancel(f) \/ SemWake(f)
           \/ AcquireClosed(f) \/ ReleaseClosing(f) \/ \E c \in Conns : DialOk(f, c)
  <2>1. Active' = Active /\ free' = free
    BY <1>8 DEF SemTake, SemQueue, SemCancel, SemWake, AcquireClosed,
       ReleaseClosing, DialOk, Active, poolVars, BaseInv, BaseTypes
  <2> QED
    BY <1>3, <2>1, SizeSame
<1>9. CASE SemWakeCanceled(f) \/ SemRelease(f)
  <2>1. PutBack(f) /\ pc[f] \in {"ready", "unslot"} /\ free' = free
    BY <1>9 DEF SemWakeCanceled, SemRelease, poolVars
  <2>2. CASE waiters = <<>>
    <3>1. Active' = Active
      BY <2>1, <2>2 DEF PutBack, Active, BaseInv, BaseTypes
    <3> QED
      BY <1>3, <2>1, <3>1, SizeSame
  <2>3. CASE waiters # <<>>
    <3>1. Head(waiters) \in Fetchers /\ pc[Head(waiters)] = "waiting"
      BY <2>3, QueueServed DEF Waiting
    <3>2. Active' = Active
      BY <2>1, <2>3, <3>1 DEF PutBack, Active, BaseInv, BaseTypes
    <3> QED
      BY <1>3, <2>1, <3>2, SizeSame
  <2> QED
    BY <2>2, <2>3
<1> QED
  BY <1>4, <1>5, <1>6, <1>7, <1>8, <1>9 DEF Fetcher, Acquiring, Releasing

LEMMA SizeReaper ==
    ASSUME BaseInv, PermitInv, SizeInv, Reaper
    PROVE  SizeInv'
<1>1. /\ Active' = Active /\ PendingConns' = PendingConns
      /\ UNCHANGED pending
  BY DEF Reaper, ReapTick, ReapFilter, ReapClose, ReapDone, ReapStop, Active,
     PendingConns, closerVars
<1>2. /\ Cardinality(Active) \in Nat
      /\ Cardinality(PendingConns) \in Nat
      /\ Cardinality(drop) \in Nat
      /\ Len(free) \in Nat
      /\ PoolSize \in Nat
  BY ActiveSize, FS_CardinalityType, LenProperties, PoolAssumption
     DEF PoolAssumption, SizeInv, BaseInv, BaseTypes
<1>3. CASE ReapFilter
  <2>1. PICK at \in Listings(KeptPositions) :
            free' = [i \in DOMAIN at |-> free[at[i]]]
    BY <1>3 DEF ReapFilter
  <2>2. Len(free') = Cardinality(KeptPositions)
    BY <2>1, KeepFree DEF KeptPositions, BaseInv, BaseTypes
  <2>3. /\ KeptPositions \in SUBSET (1 .. Len(free))
        /\ IsFiniteSet(1 .. Len(free))
        /\ Cardinality(1 .. Len(free)) = Len(free)
    <3>1. DOMAIN free = 1 .. Len(free)
      BY LenProperties DEF BaseInv, BaseTypes
    <3>2. KeptPositions \in SUBSET (1 .. Len(free))
      BY <3>1 DEF KeptPositions
    <3>3. Len(free) \in Nat
      BY <1>2
    <3>4. IsFiniteSet(1 .. Len(free)) /\ Cardinality(1 .. Len(free)) = Len(free)
      <4> DEFINE l == Len(free)
      <4>1. l \in Nat
        BY <3>3
      <4> HIDE DEF l
      <4>2. /\ IsFiniteSet(1 .. l)
            /\ Cardinality(1 .. l) = IF 1 > l THEN 0 ELSE l - 1 + 1
        BY <4>1, FS_Interval
      <4>3. Cardinality(1 .. l) = l
        BY <4>1, <4>2
      <4> QED
        BY <4>2, <4>3 DEF l
    <3> QED
      BY <3>2, <3>4
  <2>4. /\ Cardinality(KeptPositions) <= Len(free)
        /\ Cardinality(KeptPositions) \in Nat
    BY <2>3, FS_Subset, FS_CardinalityType
  <2>5. drop' \in SUBSET FreeConns
    BY <1>3 DEF ReapFilter, FreeConns, ConnsOf
  <2>6. IsFiniteSet(FreeConns) /\ Cardinality(FreeConns) <= Len(free)
        /\ Cardinality(FreeConns) \in Nat
    BY ConnsOfSize, FS_CardinalityType DEF FreeConns, BaseInv, BaseTypes
  <2>7. /\ IsFiniteSet(drop') /\ Cardinality(drop') <= Len(free)
        /\ Cardinality(drop') \in Nat
    BY <1>2, <2>5, <2>6, FS_Subset, FS_CardinalityType
  <2> QED
    BY <1>1, <1>2, <2>2, <2>4, <2>7 DEF SizeInv
<1>4. ASSUME NEW c \in Conns, ReapClose(c)
      PROVE  SizeInv'
  <2>1. drop' = drop \ {c} /\ free' = free /\ c \in drop
    BY <1>4 DEF ReapClose, poolVars
  <2>2. IsFiniteSet(drop') /\ Cardinality(drop') = Cardinality(drop) - 1
    BY <2>1, FS_RemoveElement DEF SizeInv
  <2> QED
    BY <1>1, <1>2, <2>1, <2>2 DEF SizeInv
<1>5. CASE ReapTick \/ ReapDone \/ ReapStop
  BY <1>1, <1>5, SizeSame DEF ReapTick, ReapDone, ReapStop, poolVars
<1> QED
  BY <1>3, <1>4, <1>5 DEF Reaper

LEMMA SizeCloser ==
    ASSUME BaseInv, PermitInv, OwnerInv, SizeInv, NEW k \in Closers, Closer(k)
    PROVE  SizeInv'
<1>1. Active' = Active /\ drop' = drop
  BY DEF Closer, CloseFirst, CloseAgain, CloseStop, CloseDone, CloseConn, Active,
     reaperVars
<1>2. /\ Cardinality(Active) \in Nat
      /\ Cardinality(PendingConns) \in Nat
      /\ Len(free) \in Nat
      /\ PoolSize \in Nat
  BY ActiveSize, FS_CardinalityType, LenProperties, PoolAssumption
     DEF PoolAssumption, SizeInv, BaseInv, BaseTypes
<1>3. CASE CloseFirst(k)
  <2>1. /\ pending' = [pending EXCEPT ![k] = FreeConns]
        /\ free' = <<>>
        /\ pending[k] = {}
    BY <1>3 DEF CloseFirst, OwnerInv, ClosingInv
  <2>2. PendingConns' = PendingConns \cup FreeConns
    <3>1. \A l \in Closers :
              pending'[l] = IF l = k THEN FreeConns ELSE pending[l]
      BY <2>1 DEF BaseInv, BaseTypes
    <3> QED
      BY <2>1, <3>1 DEF PendingConns
  <2>3. IsFiniteSet(FreeConns) /\ Cardinality(FreeConns) <= Len(free)
        /\ Cardinality(FreeConns) \in Nat
    BY ConnsOfSize, FS_CardinalityType DEF FreeConns, BaseInv, BaseTypes
  <2>4. PendingConns \cap FreeConns = {}
    BY DEF OwnerInv, OnePlace
  <2>5. Cardinality(PendingConns \cap FreeConns) = 0
    BY <2>4, FS_EmptySet
  <2>6. /\ IsFiniteSet(PendingConns')
        /\ Cardinality(PendingConns') = Cardinality(PendingConns)
                                          + Cardinality(FreeConns)
    <3>1. /\ IsFiniteSet(PendingConns \cup FreeConns)
          /\ Cardinality(PendingConns \cup FreeConns)
               = Cardinality(PendingConns) + Cardinality(FreeConns)
                   - Cardinality(PendingConns \cap FreeConns)
      BY <2>3, FS_Union DEF SizeInv
    <3> QED
      BY <1>2, <2>2, <2>3, <2>5, <3>1
  <2>7. Len(free') = 0
    BY <2>1
  <2> QED
    BY <1>1, <1>2, <2>3, <2>6, <2>7 DEF SizeInv
<1>4. ASSUME NEW c \in Conns, CloseConn(k, c)
      PROVE  SizeInv'
  <2>1. /\ pending' = [pending EXCEPT ![k] = @ \ {c}]
        /\ free' = free
    BY <1>4 DEF CloseConn, poolVars
  <2>2. \A l \in Closers :
            pending'[l] = IF l = k THEN pending[k] \ {c} ELSE pending[l]
    BY <2>1 DEF BaseInv, BaseTypes
  <2>3. PendingConns' \in SUBSET PendingConns
    BY <2>2 DEF PendingConns
  <2>4. /\ IsFiniteSet(PendingConns')
        /\ Cardinality(PendingConns') <= Cardinality(PendingConns)
        /\ Cardinality(PendingConns') \in Nat
    BY <2>3, FS_Subset, FS_CardinalityType DEF SizeInv
  <2> QED
    BY <1>1, <1>2, <2>1, <2>4 DEF SizeInv
<1>5. CASE CloseAgain(k) \/ CloseStop(k) \/ CloseDone(k)
  BY <1>1, <1>5, SizeSame DEF CloseAgain, CloseStop, CloseDone, poolVars
<1> QED
  BY <1>3, <1>4, <1>5 DEF Closer

LEMMA SizeNext ==
    BaseInv /\ PermitInv /\ OwnerInv /\ SizeInv /\ [Next]_vars => SizeInv'
<1> SUFFICES ASSUME BaseInv, PermitInv, OwnerInv, SizeInv, [Next]_vars
             PROVE  SizeInv'
  OBVIOUS
<1>1. CASE Tick \/ UNCHANGED vars
  BY <1>1, SizeSame DEF Tick, vars, poolVars, reaperVars, closerVars, Active
<1> QED
  BY <1>1, SizeFetcher, SizeReaper, SizeCloser DEF Next

LEMMA SizeInit == Init => SizeInv
<1> SUFFICES ASSUME Init PROVE SizeInv
  OBVIOUS
<1>1. Active = {} /\ PendingConns = {} /\ drop = {} /\ Len(free) = 0
  BY DEF Init, Active, PendingConns
<1> QED
  BY <1>1, FS_EmptySet, PoolAssumption DEF PoolAssumption, SizeInv

\* Conns in use and kept never exceed PoolSize, and open sockets never exceed
\* twice that.
THEOREM OpenIsBounded == Spec => []OpenBound
<1>1. BaseInv /\ PermitInv /\ OwnerInv /\ SizeInv => OpenBound
  <2> SUFFICES ASSUME BaseInv, PermitInv, OwnerInv, SizeInv
               PROVE  OpenBound
    OBVIOUS
  <2> DEFINE L == LeasedConns
             F == FreeConns
             P == PendingConns
  <2>1. IsFiniteSet(L) /\ IsFiniteSet(F) /\ IsFiniteSet(P) /\ IsFiniteSet(drop)
    BY ActiveSize, ConnsOfSize DEF SizeInv, FreeConns, BaseInv, BaseTypes
  <2>2. /\ Cardinality(L) <= Cardinality(Active)
        /\ Cardinality(F) <= Len(free)
        /\ Cardinality(drop) <= PoolSize
        /\ Cardinality(Active) + Len(free) + Cardinality(P) <= PoolSize
    BY ActiveSize, ConnsOfSize DEF SizeInv, FreeConns, BaseInv, BaseTypes
  <2>3. /\ Cardinality(L) \in Nat /\ Cardinality(F) \in Nat
        /\ Cardinality(P) \in Nat /\ Cardinality(drop) \in Nat
        /\ Cardinality(Active) \in Nat /\ Len(free) \in Nat /\ PoolSize \in Nat
    BY <2>1, ActiveSize, FS_CardinalityType, LenProperties, PoolAssumption
       DEF PoolAssumption, BaseInv, BaseTypes
  <2>4. open = ((L \cup F) \cup drop) \cup P
    BY DEF OwnerInv, NoConnLeak
  <2> HIDE DEF L, F, P
  <2>5. /\ IsFiniteSet(L \cup F)
        /\ Cardinality(L \cup F) <= Cardinality(L) + Cardinality(F)
        /\ Cardinality(L \cup F) \in Nat
    BY <2>1, <2>3, UnionSize
  <2>6. /\ IsFiniteSet((L \cup F) \cup drop)
        /\ Cardinality((L \cup F) \cup drop)
             <= Cardinality(L \cup F) + Cardinality(drop)
        /\ Cardinality((L \cup F) \cup drop) \in Nat
    BY <2>1, <2>5, UnionSize
  <2>7. /\ Cardinality(open) <= Cardinality((L \cup F) \cup drop) + Cardinality(P)
        /\ Cardinality(open) \in Nat
    BY <2>1, <2>4, <2>6, UnionSize
  <2> QED
    BY <2>2, <2>3, <2>5, <2>6, <2>7 DEF OpenBound
<1> QED
  BY <1>1, SizeInit, SizeNext, BaseSafe, PermitSafe, OwnerSafe, PTL DEF Spec

-----------------------------------------------------------------------------
(***************************************************************************)
(* The pool implements ConnLease: every step of a goroutine is a step of   *)
(* the lease, or none.                                                     *)
(***************************************************************************)

\* Steps the lease does not see.
LEMMA LeaseStutter ==
    ASSUME UNCHANGED <<lease, free, closed, drop, pending>>,
           \A f \in Fetchers :
              /\ pc'[f] = "leased" <=> pc[f] = "leased"
              /\ pc'[f] = "closing" <=> pc[f] = "closing"
    PROVE  UNCHANGED Lease!leaseVars
<1>1. HolderOf' = HolderOf
  BY DEF HolderOf
<1>2. RetiredConns' = RetiredConns
  BY DEF RetiredConns, PendingConns, ClosingConns
<1> QED
  BY <1>1, <1>2 DEF Lease!leaseVars, FreeConns

LEMMA LeaseInit == Init => Lease!Init
<1> SUFFICES ASSUME Init PROVE Lease!Init
  OBVIOUS
<1>1. HolderOf = [f \in Fetchers |-> NoConn]
  BY DEF Init, HolderOf
<1>2. RetiredConns = {} /\ FreeConns = {}
  BY DEF Init, RetiredConns, PendingConns, ClosingConns, FreeConns, ConnsOf
<1> QED
  BY <1>1, <1>2 DEF Init, Lease!Init

\* What the lease knows of a fetch and of a conn.
LEMMA LeaseView ==
    ASSUME BaseInv, OwnerInv
    PROVE  /\ \A f \in Fetchers :
                 HolderOf[f] = IF pc[f] = "leased" THEN lease[f] ELSE NoConn
           /\ \A f \in Fetchers : HolderOf[f] # NoConn <=> pc[f] = "leased"
           /\ Lease!Held \cup ClosingConns = LeasedConns
           /\ Lease!Held \cap ClosingConns = {}
<1>1. \A f \in Fetchers :
         /\ HolderOf[f] = IF pc[f] = "leased" THEN lease[f] ELSE NoConn
         /\ HolderOf[f] # NoConn <=> pc[f] = "leased"
  BY DEF HolderOf, BaseInv, LeaseByPc
<1>2. Lease!Held = {lease[f] : f \in {g \in Fetchers : pc[g] = "leased"}}
  BY <1>1 DEF Lease!Held, BaseInv, LeaseByPc
<1>3. LeasedConns = {lease[f] : f \in {g \in Fetchers :
                                       pc[g] \in {"leased", "closing"}}}
  BY DEF LeasedConns, BaseInv, LeaseByPc
<1>4. Lease!Held \cap ClosingConns = {}
  BY <1>2 DEF ClosingConns, OwnerInv, OneHolder, BaseInv, LeaseByPc
<1> QED
  BY <1>1, <1>2, <1>3, <1>4 DEF ClosingConns

LEMMA LeaseFetcher ==
    ASSUME BaseInv, OwnerInv, NEW f \in Fetchers, Fetcher(f)
    PROVE  [Lease!Next]_Lease!leaseVars
<1> USE DEF poolVars, reaperVars, closerVars
<1>1. CASE AcquireFree(f)
  <2> DEFINE c == Last(free).c
  <2>1. /\ ~closed /\ pc[f] = "granted" /\ free # <<>>
        /\ lease' = [lease EXCEPT ![f] = c]
        /\ pc' = [pc EXCEPT ![f] = "leased"]
        /\ free' = Front(free)
        /\ UNCHANGED <<closed, drop, pending>>
    BY <1>1 DEF AcquireFree
  <2>2. c \in FreeConns /\ FreeConns' = FreeConns \ {c}
    BY <2>1, PopFree DEF OwnerInv, BaseInv, BaseTypes, FreeConns
  <2>3. c \in Conns
    BY <2>1, PopType DEF BaseInv, BaseTypes, PooledConn
  <2> HIDE DEF c
  <2>4. HolderOf' = [HolderOf EXCEPT ![f] = c]
    BY <2>1 DEF HolderOf, BaseInv, BaseTypes
  <2>5. RetiredConns' = RetiredConns
    BY <2>1 DEF RetiredConns, PendingConns, ClosingConns, BaseInv, BaseTypes
  <2>6. HolderOf[f] = NoConn
    BY <2>1 DEF HolderOf
  <2>7. Lease!Reuse(f, c)
    BY <2>1, <2>2, <2>4, <2>5, <2>6 DEF Lease!Reuse
  <2> QED
    BY <2>3, <2>7 DEF Lease!Next
<1>2. ASSUME NEW c \in Conns, DialOk(f, c)
      PROVE  [Lease!Next]_Lease!leaseVars
  <2>1. /\ pc[f] = "dialing" /\ c \notin open
        /\ lease' = [lease EXCEPT ![f] = c]
        /\ pc' = [pc EXCEPT ![f] = "leased"]
        /\ UNCHANGED <<free, closed, drop, pending>>
    BY <1>2 DEF DialOk
  <2>2. c \notin Lease!Held \cup FreeConns \cup RetiredConns
    BY <2>1, LeaseView DEF OwnerInv, NoConnLeak, RetiredConns
  <2>3. HolderOf' = [HolderOf EXCEPT ![f] = c]
    BY <2>1 DEF HolderOf, BaseInv, BaseTypes
  <2>4. RetiredConns' = RetiredConns
    BY <2>1 DEF RetiredConns, PendingConns, ClosingConns, BaseInv, BaseTypes
  <2>5. HolderOf[f] = NoConn
    BY <2>1 DEF HolderOf
  <2>6. FreeConns' = FreeConns
    BY <2>1 DEF FreeConns
  <2>7. Lease!Fresh(f, c)
    BY <2>1, <2>2, <2>3, <2>4, <2>5, <2>6 DEF Lease!Fresh
  <2> QED
    BY <2>7 DEF Lease!Next
<1>3. CASE ReleaseFree(f)
  <2> DEFINE x == [c |-> lease[f], idleSince |-> now]
  <2>1. /\ pc[f] = "leased" /\ ~closed
        /\ lease' = [lease EXCEPT ![f] = NoConn]
        /\ pc' = [pc EXCEPT ![f] = "unslot"]
        /\ free' = Append(free, x)
        /\ UNCHANGED <<closed, drop, pending>>
    BY <1>3 DEF ReleaseFree
  <2>2. x \in PooledConn /\ x.c = lease[f] /\ lease[f] \in LeasedConns
    BY <2>1, PoolAssumption
       DEF PoolAssumption, BaseInv, BaseTypes, LeaseByPc, PooledConn, LeasedConns
  <2>3. x.c \notin FreeConns
    BY <2>2 DEF OwnerInv, OnePlace
  <2> HIDE DEF x
  <2>4. FreeConns' = FreeConns \cup {lease[f]}
    BY <2>1, <2>2, <2>3, PushFree DEF OwnerInv, BaseInv, BaseTypes, FreeConns
  <2>5. HolderOf' = [HolderOf EXCEPT ![f] = NoConn]
    BY <2>1 DEF HolderOf, BaseInv, BaseTypes
  <2>6. RetiredConns' = RetiredConns
    BY <2>1 DEF RetiredConns, PendingConns, ClosingConns, BaseInv, BaseTypes
  <2>7. HolderOf[f] = lease[f] /\ HolderOf[f] # NoConn
    BY <2>1, LeaseView
  <2>8. Lease!GiveBack(f)
    BY <2>1, <2>4, <2>5, <2>6, <2>7 DEF Lease!GiveBack
  <2> QED
    BY <2>8 DEF Lease!Next
<1>4. CASE ReleaseClosing(f)
  <2>1. /\ pc[f] = "leased"
        /\ pc' = [pc EXCEPT ![f] = "closing"]
        /\ UNCHANGED <<lease, free, closed, drop, pending>>
    BY <1>4 DEF ReleaseClosing
  <2>2. HolderOf' = [HolderOf EXCEPT ![f] = NoConn]
    BY <2>1 DEF HolderOf, BaseInv, BaseTypes
  <2>3. ClosingConns' = ClosingConns \cup {lease[f]}
    BY <2>1 DEF ClosingConns, BaseInv, BaseTypes
  <2>4. RetiredConns' = RetiredConns \cup {lease[f]} /\ FreeConns' = FreeConns
    BY <2>1, <2>3 DEF RetiredConns, PendingConns, FreeConns
  <2>5. HolderOf[f] = lease[f] /\ HolderOf[f] # NoConn
    BY <2>1, LeaseView
  <2>6. Lease!Retire(f)
    BY <2>1, <2>2, <2>4, <2>5 DEF Lease!Retire
  <2> QED
    BY <2>6 DEF Lease!Next
<1>5. CASE ReleaseClose(f)
  <2>1. /\ pc[f] = "closing"
        /\ lease' = [lease EXCEPT ![f] = NoConn]
        /\ pc' = [pc EXCEPT ![f] = "unslot"]
        /\ UNCHANGED <<free, closed, drop, pending>>
    BY <1>5 DEF ReleaseClose
  <2>2. lease[f] \in Conns /\ lease[f] \in LeasedConns
    BY <2>1 DEF BaseInv, BaseTypes, LeaseByPc, LeasedConns
  <2>3. HolderOf' = HolderOf
    BY <2>1 DEF HolderOf, BaseInv, BaseTypes
  <2>4. ClosingConns' = ClosingConns \ {lease[f]} /\ lease[f] \in ClosingConns
    BY <2>1, <2>2 DEF ClosingConns, OwnerInv, OneHolder, LeasedConns, BaseInv,
       BaseTypes
  <2>5. RetiredConns' = RetiredConns \ {lease[f]} /\ FreeConns' = FreeConns
    BY <2>1, <2>2, <2>4
       DEF RetiredConns, PendingConns, FreeConns, OwnerInv, OnePlace
  <2>6. Lease!Discard(lease[f])
    BY <2>1, <2>3, <2>4, <2>5 DEF Lease!Discard, RetiredConns
  <2> QED
    BY <2>2, <2>6 DEF Lease!Next
<1>6. CASE \/ SemTake(f) \/ SemQueue(f) \/ SemCancel(f) \/ SemWake(f)
           \/ AcquireClosed(f) \/ AcquireDial(f) \/ DialFail(f)
  <2>1. UNCHANGED Lease!leaseVars
    BY <1>6, LeaseStutter DEF SemTake, SemQueue, SemCancel, SemWake, AcquireClosed,
       AcquireDial, DialFail, BaseInv, BaseTypes
  <2> QED
    BY <2>1
<1>7. CASE SemWakeCanceled(f) \/ SemRelease(f)
  <2>1. /\ PutBack(f) /\ pc[f] \in {"ready", "unslot"}
        /\ UNCHANGED <<lease, free, closed, drop, pending>>
    BY <1>7 DEF SemWakeCanceled, SemRelease
  <2>2. \A g \in Fetchers : pc'[g] # pc[g] =>
           pc[g] \in {"ready", "unslot", "waiting"} /\ pc'[g] \in {"idle", "ready"}
    <3>1. CASE waiters = <<>>
      BY <2>1, <3>1 DEF PutBack, BaseInv, BaseTypes
    <3>2. CASE waiters # <<>>
      <4>1. pc[Head(waiters)] = "waiting"
        BY <3>2, QueueServed DEF Waiting
      <4> QED
        BY <2>1, <3>2, <4>1 DEF PutBack, BaseInv, BaseTypes
    <3> QED
      BY <3>1, <3>2
  <2>3. UNCHANGED Lease!leaseVars
    BY <2>1, <2>2, LeaseStutter
  <2> QED
    BY <2>3
<1> QED
  BY <1>1, <1>2, <1>3, <1>4, <1>5, <1>6, <1>7 DEF Fetcher, Acquiring, Releasing

LEMMA LeaseReaper ==
    ASSUME BaseInv, OwnerInv, Reaper
    PROVE  [Lease!Next]_Lease!leaseVars
<1> USE DEF poolVars, reaperVars, closerVars
<1>1. HolderOf' = HolderOf /\ PendingConns' = PendingConns
      /\ ClosingConns' = ClosingConns /\ closed' = closed
  BY DEF Reaper, ReapTick, ReapFilter, ReapClose, ReapDone, ReapStop, HolderOf,
     PendingConns, ClosingConns
<1>2. CASE ReapFilter
  <2>1. PICK at \in Listings(KeptPositions) :
            free' = [i \in DOMAIN at |-> free[at[i]]]
    BY <1>2 DEF ReapFilter
  <2>2. FreeConns' = {free[i].c : i \in KeptPositions}
    BY <2>1, KeepFree DEF KeptPositions, BaseInv, BaseTypes, FreeConns
  <2>3. drop = {} /\ drop' = {free[i].c : i \in DOMAIN free \ KeptPositions}
    BY <1>2 DEF ReapFilter, OwnerInv, ClosingInv
  <2>4. drop' \in SUBSET FreeConns /\ FreeConns' = FreeConns \ drop'
    <3>1. KeptPositions \subseteq DOMAIN free
      BY DEF KeptPositions
    <3>2. FreeConns = {free[i].c : i \in DOMAIN free}
      BY DEF FreeConns, ConnsOf
    <3>3. \A i, j \in DOMAIN free : free[i].c = free[j].c => i = j
      BY DEF OwnerInv, DistinctConns
    <3>4. FreeConns = FreeConns' \cup drop'
      BY <2>2, <2>3, <3>1, <3>2
    <3>5. FreeConns' \cap drop' = {}
      BY <2>2, <2>3, <3>1, <3>3
    <3> QED
      BY <3>4, <3>5
  <2>5. RetiredConns' = RetiredConns \cup drop'
    BY <1>1, <2>3 DEF RetiredConns
  <2>6. Lease!Expire(drop')
    BY <1>1, <2>4, <2>5 DEF Lease!Expire
  <2> QED
    BY <2>4, <2>6 DEF Lease!Next
<1>3. ASSUME NEW c \in Conns, ReapClose(c)
      PROVE  [Lease!Next]_Lease!leaseVars
  <2>1. c \in drop /\ drop' = drop \ {c} /\ free' = free
    BY <1>3 DEF ReapClose
  <2>2. c \notin PendingConns /\ c \notin ClosingConns
    BY <2>1, LeaseView DEF OwnerInv, OnePlace
  <2>3. RetiredConns' = RetiredConns \ {c} /\ FreeConns' = FreeConns
    BY <1>1, <2>1, <2>2 DEF RetiredConns, FreeConns
  <2>4. Lease!Discard(c)
    BY <1>1, <2>1, <2>3 DEF Lease!Discard, RetiredConns
  <2> QED
    BY <2>4 DEF Lease!Next
<1>4. CASE ReapTick \/ ReapDone \/ ReapStop
  <2>1. UNCHANGED Lease!leaseVars
    BY <1>4, LeaseStutter DEF ReapTick, ReapDone, ReapStop
  <2> QED
    BY <2>1
<1> QED
  BY <1>2, <1>3, <1>4 DEF Reaper

LEMMA LeaseCloser ==
    ASSUME BaseInv, OwnerInv, NEW k \in Closers, Closer(k)
    PROVE  [Lease!Next]_Lease!leaseVars
<1> USE DEF poolVars, reaperVars
<1>1. HolderOf' = HolderOf /\ ClosingConns' = ClosingConns /\ drop' = drop
  BY DEF Closer, CloseFirst, CloseAgain, CloseStop, CloseDone, CloseConn, HolderOf,
     ClosingConns
<1>2. CASE CloseFirst(k)
  <2>1. /\ ~closed /\ closed' /\ free' = <<>>
        /\ pending' = [pending EXCEPT ![k] = FreeConns]
        /\ pending[k] = {}
    BY <1>2 DEF CloseFirst, OwnerInv, ClosingInv
  <2>2. PendingConns' = PendingConns \cup FreeConns
    <3>1. \A l \in Closers :
              pending'[l] = IF l = k THEN FreeConns ELSE pending[l]
      BY <2>1 DEF BaseInv, BaseTypes
    <3> QED
      BY <2>1, <3>1 DEF PendingConns
  <2>3. RetiredConns' = RetiredConns \cup FreeConns /\ FreeConns' = {}
    BY <1>1, <2>1, <2>2 DEF RetiredConns, FreeConns, ConnsOf
  <2>4. closed' = TRUE
    BY <1>2 DEF CloseFirst
  <2>5. Lease!Shut
    BY <1>1, <2>1, <2>3, <2>4 DEF Lease!Shut
  <2> QED
    BY <2>5 DEF Lease!Next
<1>3. ASSUME NEW c \in Conns, CloseConn(k, c)
      PROVE  [Lease!Next]_Lease!leaseVars
  <2>1. /\ c \in pending[k]
        /\ pending' = [pending EXCEPT ![k] = @ \ {c}]
        /\ UNCHANGED <<free, closed>>
    BY <1>3 DEF CloseConn
  <2>2. PendingConns' = PendingConns \ {c} /\ c \in PendingConns
    <3>1. \A l \in Closers :
              pending'[l] = IF l = k THEN pending[k] \ {c} ELSE pending[l]
      BY <2>1 DEF BaseInv, BaseTypes
    <3>2. \A l \in Closers : l # k => c \notin pending[l]
      BY <2>1 DEF OwnerInv, ClosingInv
    <3> QED
      BY <2>1, <3>1, <3>2 DEF PendingConns
  <2>3. c \notin drop /\ c \notin ClosingConns
    BY <2>2, LeaseView DEF OwnerInv, OnePlace
  <2>4. RetiredConns' = RetiredConns \ {c} /\ FreeConns' = FreeConns
    BY <1>1, <2>1, <2>2, <2>3 DEF RetiredConns, FreeConns
  <2>5. Lease!Discard(c)
    BY <1>1, <2>1, <2>2, <2>4 DEF Lease!Discard, RetiredConns
  <2> QED
    BY <2>5 DEF Lease!Next
<1>4. CASE CloseAgain(k) \/ CloseStop(k) \/ CloseDone(k)
  <2>1. UNCHANGED Lease!leaseVars
    BY <1>4, LeaseStutter DEF CloseAgain, CloseStop, CloseDone
  <2> QED
    BY <2>1
<1> QED
  BY <1>2, <1>3, <1>4 DEF Closer

\* The pool, with its semaphore, its two lock sections per fetch, its reaper
\* and its close, behaves as the exclusive lease of ConnLease.
THEOREM PoolImplementsLease == Spec => ImplementsLease
<1>1. BaseInv /\ OwnerInv /\ [Next]_vars => [Lease!Next]_Lease!leaseVars
  <2> SUFFICES ASSUME BaseInv, OwnerInv, [Next]_vars
               PROVE  [Lease!Next]_Lease!leaseVars
    OBVIOUS
  <2>1. CASE Tick \/ UNCHANGED vars
    <3>1. UNCHANGED Lease!leaseVars
      BY <2>1, LeaseStutter DEF Tick, vars, poolVars, reaperVars, closerVars
    <3> QED
      BY <3>1
  <2> QED
    BY <2>1, LeaseFetcher, LeaseReaper, LeaseCloser DEF Next
<1> QED
  BY <1>1, LeaseInit, BaseSafe, OwnerSafe, PTL DEF Spec, Lease!Spec, ImplementsLease
=============================================================================
