--------------------------- MODULE LRUCache_proofs ---------------------------
(***************************************************************************)
(* Proofs about LRUCache: its types, the agreement of list and index, that *)
(* it evicts what was used longest ago, and that it implements TTLMap.     *)
(***************************************************************************)
EXTENDS LRUCache, SequenceTheorems, TLAPS

-----------------------------------------------------------------------------
(* Lists without repetition *)

\* RemoveAt, spelled out: s without its i-th element, the others in their order.
Without(s, i) ==
    [j \in 1 .. Len(s) - 1 |-> IF j < i THEN s[j] ELSE s[j + 1]]

LEMMA RemoveAtIsWithout ==
    ASSUME NEW S, NEW s \in Seq(S), NEW i \in DOMAIN s
    PROVE  RemoveAt(s, i) = Without(s, i)
<1>1. Len(s) \in Nat /\ DOMAIN s = 1 .. Len(s) /\ Len(s) - 1 \in Nat
  BY LenProperties
<1>2. \A j \in 1 .. Len(s) : s[j] \in S
  BY ElementOfSeq
<1> DEFINE a == SubSeq(s, 1, i - 1)
           b == SubSeq(s, i + 1, Len(s))
           w == Without(s, i)
<1>3. /\ a \in Seq(S) /\ Len(a) = i - 1
      /\ \A j \in 1 .. i - 1 : a[j] = s[j]
  <2>1. \A j \in 1 .. i - 1 : s[j] \in S
    BY <1>1, <1>2
  <2>2. i - 1 \in Int /\ 1 <= i - 1 + 1
    BY <1>1
  <2>3. /\ a \in Seq(S)
        /\ Len(a) = IF 1 <= i - 1 THEN i - 1 - 1 + 1 ELSE 0
        /\ \A j \in 1 .. i - 1 - 1 + 1 : a[j] = s[1 + j - 1]
    BY <2>1, <2>2, SubSeqProperties
  <2> HIDE DEF a
  <2> QED
    BY <1>1, <2>3
<1>4. /\ b \in Seq(S) /\ Len(b) = Len(s) - i
      /\ \A j \in 1 .. Len(s) - i : b[j] = s[i + j]
  <2>1. \A j \in i + 1 .. Len(s) : s[j] \in S
    BY <1>1, <1>2
  <2> DEFINE m == i + 1
             n == Len(s)
  <2>2. m \in Int /\ n \in Int /\ m <= n + 1
    BY <1>1
  <2>3. b = SubSeq(s, m, n) /\ \A j \in m .. n : s[j] \in S
    BY <2>1
  <2>4. n - m + 1 = Len(s) - i /\ \A j \in Int : m + j - 1 = i + j
    BY <1>1
  <2> HIDE DEF b, m, n
  <2>5. /\ SubSeq(s, m, n) \in Seq(S)
        /\ Len(SubSeq(s, m, n)) = IF m <= n THEN n - m + 1 ELSE 0
        /\ \A j \in 1 .. n - m + 1 : SubSeq(s, m, n)[j] = s[m + j - 1]
    BY <2>2, <2>3, SubSeqProperties
  <2>6. Len(b) = n - m + 1
    BY <2>2, <2>3, <2>5
  <2>7. ASSUME NEW j \in 1 .. Len(s) - i
        PROVE  b[j] = s[i + j]
    <3>1. j \in 1 .. n - m + 1 /\ m + j - 1 = i + j
      BY <2>4
    <3>2. b[j] = s[m + j - 1]
      BY <2>3, <2>5, <3>1
    <3> QED
      BY <3>1, <3>2
  <2> QED
    BY <2>3, <2>4, <2>5, <2>6, <2>7
<1>5. /\ w \in Seq(S) /\ Len(w) = Len(s) - 1
      /\ \A j \in 1 .. Len(s) - 1 : w[j] = IF j < i THEN s[j] ELSE s[j + 1]
  <2>1. w \in [1 .. Len(s) - 1 -> S]
    BY <1>1, <1>2 DEF Without
  <2>2. w \in Seq(S)
    BY <1>1, <2>1, SeqDef
  <2> QED
    BY <1>1, <2>1, <2>2, LenProperties DEF Without
<1> HIDE DEF a, b, w
<1> DEFINE c == a \o b
<1>6. /\ c \in Seq(S)
      /\ Len(c) = Len(a) + Len(b)
      /\ \A j \in 1 .. Len(a) + Len(b) :
            c[j] = IF j <= Len(a) THEN a[j] ELSE b[j - Len(a)]
  BY <1>3, <1>4, ConcatProperties
<1> HIDE DEF c
<1>7. Len(c) = Len(s) - 1
  <2>1. Len(a) = i - 1 /\ Len(b) = Len(s) - i /\ Len(c) = Len(a) + Len(b)
    BY <1>3, <1>4, <1>6
  <2> QED
    BY <1>1, <2>1
<1>8. \A j \in 1 .. Len(s) - 1 : c[j] = IF j < i THEN s[j] ELSE s[j + 1]
  <2> SUFFICES ASSUME NEW j \in 1 .. Len(s) - 1
               PROVE  c[j] = IF j < i THEN s[j] ELSE s[j + 1]
    OBVIOUS
  <2>1. CASE j < i
    <3>1. j \in 1 .. i - 1 /\ j <= Len(a)
      BY <1>1, <1>3, <2>1
    <3>2. c[j] = a[j]
      BY <1>6, <1>7, <3>1
    <3>3. a[j] = s[j]
      BY <1>3, <3>1
    <3> QED
      BY <2>1, <3>2, <3>3
  <2>2. CASE ~(j < i)
    <3>1. j - Len(a) \in 1 .. Len(s) - i /\ ~(j <= Len(a))
      BY <1>1, <1>3, <2>2
    <3>2. b[j - Len(a)] = s[i + (j - Len(a))] /\ i + (j - Len(a)) = j + 1
      <4>1. i + (j - Len(a)) = j + 1
        BY <1>1, <1>3
      <4> DEFINE k == j - Len(a)
      <4>2. k \in 1 .. Len(s) - i
        BY <3>1
      <4> HIDE DEF k
      <4>3. b[k] = s[i + k]
        BY <1>4, <4>2
      <4> QED
        BY <4>1, <4>3 DEF k
    <3>3. c[j] = b[j - Len(a)]
      BY <1>6, <1>7, <3>1
    <3> QED
      BY <2>2, <3>2, <3>3
  <2> QED
    BY <2>1, <2>2
<1>9. c = w
  BY <1>5, <1>6, <1>7, <1>8, SeqEqual
<1> QED
  BY <1>9 DEF RemoveAt, a, b, c, w

\* Taking out one element.
LEMMA WithoutDistinct ==
    ASSUME NEW S, NEW s \in Seq(S), NEW i \in DOMAIN s, IsInjective(s)
    PROVE  /\ Without(s, i) \in Seq(S)
           /\ IsInjective(Without(s, i))
           /\ Range(Without(s, i)) = Range(s) \ {s[i]}
<1> DEFINE t == Without(s, i)
<1>1. Len(s) \in Nat /\ DOMAIN s = 1 .. Len(s) /\ Len(s) - 1 \in Nat
  BY LenProperties
<1>2. /\ DOMAIN t = 1 .. Len(s) - 1
      /\ \A j \in 1 .. Len(s) - 1 : t[j] = IF j < i THEN s[j] ELSE s[j + 1]
  BY DEF Without
<1>3. \A j \in 1 .. Len(s) : s[j] \in S
  BY ElementOfSeq
<1>4. t \in Seq(S)
  <2>1. t \in [1 .. Len(s) - 1 -> S]
    BY <1>1, <1>2, <1>3 DEF Without
  <2> QED
    BY <1>1, <2>1, SeqDef
<1> HIDE DEF t
<1>5. IsInjective(t)
  <2> SUFFICES ASSUME NEW a \in DOMAIN t, NEW b \in DOMAIN t, t[a] = t[b]
               PROVE  a = b
    BY DEF IsInjective
  <2> DEFINE up(k) == IF k < i THEN k ELSE k + 1
  <2>1. a \in 1 .. Len(s) - 1 /\ b \in 1 .. Len(s) - 1
    BY <1>2
  <2>2. /\ up(a) \in DOMAIN s /\ t[a] = s[up(a)]
        /\ up(b) \in DOMAIN s /\ t[b] = s[up(b)]
    BY <1>1, <1>2, <2>1
  <2>3. up(a) = up(b)
    BY <2>2 DEF IsInjective
  <2> QED
    BY <1>1, <2>1, <2>3
<1>6. Range(t) \subseteq Range(s) \ {s[i]}
  <2> SUFFICES ASSUME NEW j \in 1 .. Len(s) - 1
               PROVE  t[j] \in Range(s) /\ t[j] # s[i]
    BY <1>2 DEF Range
  <2> DEFINE k == IF j < i THEN j ELSE j + 1
  <2>1. k \in DOMAIN s /\ k # i /\ t[j] = s[k]
    BY <1>1, <1>2
  <2> HIDE DEF k
  <2>2. s[k] # s[i]
    BY <2>1 DEF IsInjective
  <2> QED
    BY <2>1, <2>2 DEF Range
<1>7. Range(s) \ {s[i]} \subseteq Range(t)
  <2> SUFFICES ASSUME NEW k \in DOMAIN s, k # i
               PROVE  \E j \in DOMAIN t : t[j] = s[k]
    BY DEF Range
  <2>1. CASE k < i
    <3>1. k \in DOMAIN t /\ t[k] = s[k]
      BY <1>1, <1>2, <2>1
    <3> QED
      BY <3>1
  <2>2. CASE k > i
    <3>1. k - 1 \in DOMAIN t /\ t[k - 1] = s[k]
      BY <1>1, <1>2, <2>2
    <3> QED
      BY <3>1
  <2> QED
    BY <1>1, <2>1, <2>2
<1> QED
  BY <1>4, <1>5, <1>6, <1>7 DEF t

\* A new element in front, as AppendDistinct.
LEMMA PushDistinct ==
    ASSUME NEW S, NEW s \in Seq(S), NEW x \in S, IsInjective(s), x \notin Range(s)
    PROVE  /\ <<x>> \o s \in Seq(S)
           /\ Len(<<x>> \o s) = Len(s) + 1
           /\ IsInjective(<<x>> \o s)
           /\ Range(<<x>> \o s) = Range(s) \cup {x}
<1> DEFINE h == <<x>>
           t == h \o s
<1>1. Len(s) \in Nat /\ DOMAIN s = 1 .. Len(s)
  BY LenProperties
<1>2. h \in Seq(S) /\ Len(h) = 1 /\ h[1] = x
  OBVIOUS
<1>3. /\ t \in Seq(S)
      /\ Len(t) = Len(h) + Len(s)
      /\ \A i \in 1 .. Len(h) + Len(s) :
            t[i] = IF i <= Len(h) THEN h[i] ELSE s[i - Len(h)]
  BY <1>2, ConcatProperties
<1>4. /\ DOMAIN t = 1 .. Len(s) + 1
      /\ t[1] = x
      /\ \A i \in 2 .. Len(s) + 1 : t[i] = s[i - 1]
  <2>1. DOMAIN t = 1 .. Len(t)
    BY <1>3, LenProperties
  <2> HIDE DEF t, h
  <2> QED
    BY <1>1, <1>2, <1>3, <2>1
<1> HIDE DEF t, h
<1>5. \A i \in DOMAIN s : s[i] # x
  BY DEF Range
<1>6. IsInjective(t)
  <2> SUFFICES ASSUME NEW a \in 1 .. Len(s) + 1, NEW b \in 1 .. Len(s) + 1,
                      t[a] = t[b]
               PROVE  a = b
    BY <1>4 DEF IsInjective
  <2>1. CASE a = 1
    BY <1>1, <1>4, <1>5, <2>1
  <2>2. CASE b = 1
    BY <1>1, <1>4, <1>5, <2>2
  <2>3. CASE a # 1 /\ b # 1
    <3>1. /\ a - 1 \in DOMAIN s /\ t[a] = s[a - 1]
          /\ b - 1 \in DOMAIN s /\ t[b] = s[b - 1]
      BY <1>1, <1>4, <2>3
    <3>2. a - 1 = b - 1
      BY <3>1 DEF IsInjective
    <3> QED
      BY <3>2
  <2> QED
    BY <2>1, <2>2, <2>3
<1>7. Range(t) \subseteq Range(s) \cup {x}
  <2> SUFFICES ASSUME NEW i \in 1 .. Len(s) + 1
               PROVE  t[i] = x \/ \E j \in DOMAIN s : t[i] = s[j]
    BY <1>4 DEF Range
  <2>1. i = 1 \/ (i - 1 \in DOMAIN s /\ t[i] = s[i - 1])
    BY <1>1, <1>4
  <2> QED
    BY <1>4, <2>1
<1>8. Range(s) \cup {x} \subseteq Range(t)
  <2>1. 1 \in DOMAIN t /\ t[1] = x
    BY <1>1, <1>4
  <2>2. ASSUME NEW j \in DOMAIN s
        PROVE  j + 1 \in DOMAIN t /\ t[j + 1] = s[j]
    BY <1>1, <1>4
  <2> QED
    BY <2>1, <2>2 DEF Range
<1> QED
  BY <1>1, <1>2, <1>3, <1>6, <1>7, <1>8 DEF t, h

\* The first n elements.
LEMMA PrefixDistinct ==
    ASSUME NEW S, NEW s \in Seq(S), NEW n \in Nat, n <= Len(s), IsInjective(s)
    PROVE  /\ SubSeq(s, 1, n) \in Seq(S)
           /\ Len(SubSeq(s, 1, n)) = n
           /\ IsInjective(SubSeq(s, 1, n))
           /\ Range(SubSeq(s, 1, n)) \subseteq Range(s)
           /\ n >= 1 => s[1] \in Range(SubSeq(s, 1, n))
<1> DEFINE t == SubSeq(s, 1, n)
<1>1. Len(s) \in Nat /\ DOMAIN s = 1 .. Len(s)
  BY LenProperties
<1>2. /\ t \in Seq(S) /\ Len(t) = n
      /\ \A i \in 1 .. n : t[i] = s[i]
  <2>1. \A i \in 1 .. n : s[i] \in S
    BY <1>1, ElementOfSeq
  <2> QED
    BY <1>1, <2>1, SubSeqProperties
<1>3. DOMAIN t = 1 .. n
  BY <1>2, LenProperties
<1> HIDE DEF t
<1>4. \A i \in DOMAIN t : i \in DOMAIN s /\ t[i] = s[i]
  BY <1>1, <1>2, <1>3
<1>5. IsInjective(t)
  BY <1>4 DEF IsInjective
<1>6. Range(t) \subseteq Range(s)
  BY <1>4 DEF Range
<1>7. n >= 1 => s[1] \in Range(t)
  BY <1>2, <1>3 DEF Range
<1> QED
  BY <1>2, <1>5, <1>6, <1>7 DEF t

-----------------------------------------------------------------------------
(* The list operations *)

LEMMA RemovedFacts ==
    ASSUME NEW S, NEW s \in Seq(S), NEW k, IsInjective(s)
    PROVE  /\ Removed(s, k) \in Seq(S)
           /\ IsInjective(Removed(s, k))
           /\ Range(Removed(s, k)) = Range(s) \ {k}
           /\ Len(Removed(s, k)) = Len(s) - (IF k \in Range(s) THEN 1 ELSE 0)
<1>1. CASE k \notin Range(s)
  <2>1. Len(s) \in Nat
    BY LenProperties
  <2> QED
    BY <1>1, <2>1 DEF Removed
<1>2. CASE k \in Range(s)
  <2> DEFINE i == CHOOSE j \in DOMAIN s : s[j] = k
  <2>1. i \in DOMAIN s /\ s[i] = k
    BY <1>2 DEF Range
  <2>2. Removed(s, k) = RemoveAt(s, i)
    BY <1>2 DEF Removed
  <2> HIDE DEF i
  <2>3. Removed(s, k) = Without(s, i)
    BY <2>1, <2>2, RemoveAtIsWithout
  <2>4. /\ Removed(s, k) \in Seq(S)
        /\ IsInjective(Removed(s, k))
        /\ Range(Removed(s, k)) = Range(s) \ {k}
    BY <2>1, <2>3, WithoutDistinct
  <2>5. Len(s) \in Nat /\ Len(s) >= 1
    BY <2>1, LenProperties
  <2>6. Len(Removed(s, k)) = Len(s) - 1
    <3>1. DOMAIN Removed(s, k) = 1 .. Len(s) - 1
      BY <2>3 DEF Without
    <3>2. /\ Len(Removed(s, k)) \in Nat
          /\ DOMAIN Removed(s, k) = 1 .. Len(Removed(s, k))
      BY <2>4, LenProperties
    <3> HIDE DEF Removed
    <3> QED
      BY <2>5, <3>1, <3>2
  <2> QED
    BY <1>2, <2>4, <2>6
<1> QED
  BY <1>1, <1>2

LEMMA FrontedFacts ==
    ASSUME NEW S, NEW s \in Seq(S), NEW k \in S, IsInjective(s)
    PROVE  /\ Fronted(s, k) \in Seq(S)
           /\ IsInjective(Fronted(s, k))
           /\ Range(Fronted(s, k)) = Range(s) \cup {k}
           /\ k \in Range(s) => Len(Fronted(s, k)) = Len(s)
<1> DEFINE t == Removed(s, k)
<1>1. /\ t \in Seq(S)
      /\ IsInjective(t)
      /\ Range(t) = Range(s) \ {k}
      /\ k \in Range(s) => Len(t) = Len(s) - 1
  BY RemovedFacts
<1>2. Len(s) \in Nat
  BY LenProperties
<1> HIDE DEF t
<1>3. /\ <<k>> \o t \in Seq(S)
      /\ Len(<<k>> \o t) = Len(t) + 1
      /\ IsInjective(<<k>> \o t)
      /\ Range(<<k>> \o t) = Range(t) \cup {k}
  BY <1>1, PushDistinct
<1>4. Fronted(s, k) = <<k>> \o t
  BY DEF Fronted, t
<1> QED
  BY <1>1, <1>2, <1>3, <1>4

-----------------------------------------------------------------------------
(* The inductive invariant *)

\* What is indexed is what was put last: the refinement needs it.
IndexIsLatest == \A k \in Keys : idx[k] # Nothing => idx[k] = latest[k]

CacheInv ==
    /\ TypeOK
    /\ IsInjective(recent)
    /\ IndexMatchesList
    /\ IndexIsLatest

LEMMA InitInv == Init => CacheInv
<1> SUFFICES ASSUME Init
             PROVE  CacheInv
  OBVIOUS
<1> USE CacheAssumption DEF Init
<1>1. TypeOK
  BY DEF TypeOK
<1>2. IsInjective(ll) /\ IsInjective(recent) /\ Range(ll) = {}
  BY DEF IsInjective, Range
<1>3. Len(ll) <= CacheSize
  OBVIOUS
<1>4. IndexMatchesList
  BY <1>2, <1>3 DEF IndexMatchesList, Present
<1>5. IndexIsLatest
  BY DEF IndexIsLatest
<1> QED
  BY <1>1, <1>2, <1>4, <1>5 DEF CacheInv

\* What a step that moves or leaves the elements of the list preserves.
LEMMA UsedKey ==
    ASSUME CacheInv, NEW k \in Keys
    PROVE  /\ Fronted(recent, k) \in Seq(Keys)
           /\ IsInjective(Fronted(recent, k))
           /\ idx[k] # Nothing =>
                 /\ k \in Present
                 /\ MovedToFront(k) \in Seq(Keys)
                 /\ IsInjective(MovedToFront(k))
                 /\ Range(MovedToFront(k)) = Present
                 /\ Len(MovedToFront(k)) = Len(ll)
<1> USE DEF CacheInv, TypeOK, IndexMatchesList
<1>1. Fronted(recent, k) \in Seq(Keys) /\ IsInjective(Fronted(recent, k))
  BY FrontedFacts
<1>2. ASSUME idx[k] # Nothing
      PROVE  /\ k \in Present
             /\ MovedToFront(k) \in Seq(Keys)
             /\ IsInjective(MovedToFront(k))
             /\ Range(MovedToFront(k)) = Present
             /\ Len(MovedToFront(k)) = Len(ll)
  <2>1. k \in Range(ll)
    BY <1>2 DEF Present
  <2>2. MovedToFront(k) = Fronted(ll, k)
    BY <2>1 DEF MovedToFront, Present
  <2>3. /\ Fronted(ll, k) \in Seq(Keys)
        /\ IsInjective(Fronted(ll, k))
        /\ Range(Fronted(ll, k)) = Range(ll) \cup {k}
        /\ Len(Fronted(ll, k)) = Len(ll)
    BY <2>1, FrontedFacts
  <2> QED
    BY <2>1, <2>2, <2>3 DEF Present
<1> QED
  BY <1>1, <1>2

LEMMA StampedIsEntry ==
    ASSUME CacheInv, NEW k \in Keys, NEW d \in Data
    PROVE  Stamped(k, d) \in Entry /\ Stamped(k, d) # Nothing
<1>1. now + TTL[k] \in Int
  BY CacheAssumption DEF CacheInv, TypeOK
<1> QED
  BY <1>1, CacheAssumption DEF Stamped, Entry

\* The steps of get.
LEMMA GetKeeps ==
    ASSUME CacheInv, NEW k \in Keys, Get(k)
    PROVE  CacheInv'
<1> USE DEF CacheInv
<1>1. CASE GetMiss(k)
  BY <1>1 DEF GetMiss, TypeOK, IndexMatchesList, IndexIsLatest, Present, historyVars
<1>2. CASE GetExpired(k)
  <2> USE <1>2 DEF GetExpired, historyVars
  <2>1. /\ ll' \in Seq(Keys)
        /\ IsInjective(ll')
        /\ Range(ll') = Range(ll) \ {k}
        /\ Len(ll') <= Len(ll)
    <3>1. Len(ll) \in Nat
      BY LenProperties DEF TypeOK
    <3> QED
      BY <3>1, RemovedFacts DEF TypeOK, IndexMatchesList
  <2>2. TypeOK'
    BY <2>1 DEF TypeOK
  <2>3. Len(ll') <= CacheSize
    <3>1. Len(ll) \in Nat /\ Len(ll') \in Nat
      BY <2>1, LenProperties DEF TypeOK
    <3> QED
      BY <2>1, <3>1, CacheAssumption DEF IndexMatchesList
  <2>4. IndexMatchesList'
    BY <2>1, <2>3 DEF IndexMatchesList, Present, TypeOK
  <2>5. IndexIsLatest'
    BY DEF IndexIsLatest, TypeOK
  <2> QED
    BY <2>2, <2>4, <2>5
<1>3. CASE GetHit(k)
  <2> USE <1>3 DEF GetHit
  <2>1. /\ ll' \in Seq(Keys) /\ IsInjective(ll')
        /\ Range(ll') = Present /\ Len(ll') = Len(ll)
        /\ recent' \in Seq(Keys) /\ IsInjective(recent')
    BY UsedKey
  <2>2. idx[k].data \in Data
    BY DEF TypeOK, Entry
  <2>3. TypeOK'
    BY <2>1, <2>2 DEF TypeOK
  <2>4. IndexMatchesList'
    BY <2>1 DEF IndexMatchesList, Present
  <2>5. IndexIsLatest'
    BY DEF IndexIsLatest
  <2> QED
    BY <2>1, <2>3, <2>4, <2>5
<1> QED
  BY <1>1, <1>2, <1>3 DEF Get

\* The steps of put.
LEMMA PutKeeps ==
    ASSUME CacheInv, NEW k \in Keys, NEW d \in Data, Put(k, d)
    PROVE  CacheInv'
<1> USE DEF CacheInv
<1>1. Stamped(k, d) \in Entry /\ Stamped(k, d) # Nothing
  BY StampedIsEntry
<1>2. /\ recent' \in Seq(Keys) /\ IsInjective(recent')
      /\ latest' = [latest EXCEPT ![k] = Stamped(k, d)]
      /\ UNCHANGED <<now, answer>>
  BY UsedKey DEF Put, PutAgain, PutNew, Puts
<1>4. Stamped(k, d).expiresAt <= now + TTL[k]
  BY CacheAssumption DEF Stamped, TypeOK
<1>5. CASE PutAgain(k, d)
  <2> USE <1>5 DEF PutAgain
  <2>1. /\ ll' \in Seq(Keys) /\ IsInjective(ll')
        /\ Range(ll') = Present /\ Len(ll') = Len(ll)
    BY UsedKey
  <2>2. TypeOK'
    <3>1. idx' \in [Keys -> Entry \cup {Nothing}]
      BY <1>1 DEF TypeOK
    <3>2. \A x \in Keys : idx'[x] # Nothing => idx'[x].expiresAt <= now + TTL[x]
      BY <1>4 DEF TypeOK
    <3> QED
      BY <1>1, <1>2, <2>1, <3>1, <3>2 DEF TypeOK
  <2>3. IndexMatchesList'
    BY <1>1, <2>1 DEF IndexMatchesList, Present, TypeOK
  <2>4. IndexIsLatest'
    BY <1>2 DEF IndexIsLatest, TypeOK
  <2> QED
    BY <1>2, <2>2, <2>3, <2>4
<1>6. CASE PutNew(k, d)
  <2> DEFINE pushed == <<k>> \o ll
             kept == IF Len(pushed) > CacheSize THEN SubSeq(pushed, 1, CacheSize)
                     ELSE pushed
  <2>1. /\ idx[k] = Nothing
        /\ ll' = kept
        /\ idx' = [x \in Keys |-> IF x = k THEN Stamped(k, d)
                                  ELSE IF x \in Present \ Range(kept)
                                  THEN Nothing ELSE idx[x]]
    BY <1>6 DEF PutNew
  <2>2. k \notin Range(ll)
    BY <2>1 DEF IndexMatchesList, Present
  <2>3. /\ pushed \in Seq(Keys) /\ IsInjective(pushed)
        /\ Len(pushed) = Len(ll) + 1
        /\ Range(pushed) = Present \cup {k}
    BY <2>2, PushDistinct DEF TypeOK, IndexMatchesList, Present
  <2>4. pushed[1] = k /\ 1 \in DOMAIN pushed
    <3>1. Len(<<k>>) = 1 /\ <<k>>[1] = k /\ <<k>> \in Seq(Keys) /\ Len(ll) \in Nat
      BY LenProperties DEF TypeOK
    <3> QED
      BY <3>1, <2>3, ConcatProperties, LenProperties DEF TypeOK
  <2> HIDE DEF pushed
  <2>5. /\ kept \in Seq(Keys) /\ IsInjective(kept) /\ Len(kept) <= CacheSize
        /\ Range(kept) \subseteq Present \cup {k}
        /\ k \in Range(kept)
    <3>1. CASE Len(pushed) > CacheSize
      <4>1. CacheSize \in Nat /\ CacheSize >= 1 /\ CacheSize <= Len(pushed)
        <5>1. Len(pushed) \in Nat
          BY <2>3, LenProperties
        <5> QED
          BY <3>1, <5>1, CacheAssumption
      <4> QED
        BY <2>3, <2>4, <3>1, <4>1, PrefixDistinct
    <3>2. CASE ~(Len(pushed) > CacheSize)
      <4>1. Len(pushed) \in Nat
        BY <2>3, LenProperties
      <4>2. k \in Range(pushed)
        BY <2>4 DEF Range
      <4> QED
        BY <2>3, <3>2, <4>1, <4>2, CacheAssumption
    <3> QED
      BY <3>1, <3>2
  <2> HIDE DEF kept
  <2>6. TypeOK'
    <3>1. idx' \in [Keys -> Entry \cup {Nothing}]
      BY <1>1, <2>1 DEF TypeOK
    <3>2. \A x \in Keys : idx'[x] # Nothing => idx'[x].expiresAt <= now + TTL[x]
      BY <1>4, <2>1 DEF TypeOK
    <3> QED
      BY <1>1, <1>2, <2>1, <2>5, <3>1, <3>2 DEF TypeOK
  <2>7. Present' = {x \in Keys : idx'[x] # Nothing}
    <3>1. Present' = Range(kept)
      BY <2>1 DEF Present
    <3>2. Range(kept) \subseteq Keys
      BY <2>5 DEF Range
    <3>3. ASSUME NEW x \in Keys
          PROVE  x \in Range(kept) <=> idx'[x] # Nothing
      BY <1>1, <2>1, <2>5 DEF IndexMatchesList
    <3> QED
      BY <3>1, <3>2, <3>3
  <2>8. IndexMatchesList'
    BY <2>1, <2>5, <2>7 DEF IndexMatchesList
  <2>9. IndexIsLatest'
    BY <1>2, <2>1 DEF IndexIsLatest, TypeOK
  <2> QED
    BY <1>2, <2>6, <2>8, <2>9
<1> QED
  BY <1>5, <1>6 DEF Put

LEMMA NextInv == CacheInv /\ [Next]_vars => CacheInv'
<1> SUFFICES ASSUME CacheInv, [Next]_vars
             PROVE  CacheInv'
  OBVIOUS
<1>1. ASSUME NEW k \in Keys, Get(k)
      PROVE  CacheInv'
  BY <1>1, GetKeeps
<1>2. ASSUME NEW k \in Keys, NEW d \in Data, Put(k, d)
      PROVE  CacheInv'
  BY <1>2, PutKeeps
<1>3. CASE Tick
  <2>1. TypeOK'
    <3>1. \A k \in Keys : idx[k] # Nothing => idx[k].expiresAt <= now + 1 + TTL[k]
      <4> TAKE k \in Keys
      <4> HAVE idx[k] # Nothing
      <4>1. idx[k].expiresAt <= now + TTL[k] /\ idx[k].expiresAt \in Int
        BY DEF CacheInv, TypeOK, Entry
      <4>2. now \in Int /\ TTL[k] \in Int
        BY CacheAssumption DEF CacheInv, TypeOK
      <4> QED
        BY <4>1, <4>2
    <3>2. now + 1 \in 0 .. MaxTime
      BY <1>3, CacheAssumption DEF Tick, CacheInv, TypeOK
    <3> QED
      BY <1>3, <3>1, <3>2 DEF Tick, CacheInv, TypeOK, historyVars
  <2> QED
    BY <1>3, <2>1 DEF Tick, CacheInv, IndexMatchesList, IndexIsLatest, Present,
                      historyVars
<1>4. CASE UNCHANGED vars
  BY <1>4 DEF CacheInv, TypeOK, IndexMatchesList, IndexIsLatest, Present, vars,
              historyVars
<1> QED
  BY <1>1, <1>2, <1>3, <1>4 DEF Next

THEOREM CacheSafe == Spec => []CacheInv
BY InitInv, NextInv, PTL DEF Spec

\* cache.go:29-32: list and index are well typed, whatever is put and asked for.
THEOREM CacheTypeCorrect == Spec => []TypeOK
<1>1. CacheInv => TypeOK
  BY DEF CacheInv
<1> QED
  BY <1>1, CacheSafe, PTL

\* get, put and the eviction keep list and index in step, and the cache within
\* Config.CacheSize.
THEOREM IndexAgrees == Spec => []IndexMatchesList
<1>1. CacheInv => IndexMatchesList
  BY DEF CacheInv
<1> QED
  BY <1>1, CacheSafe, PTL

-----------------------------------------------------------------------------
(* The order of use: the list against the history of all keys ever used *)

\* x is in s before y is.
InOrder(s, x, y) == \E i, j \in DOMAIN s : i < j /\ s[i] = x /\ s[j] = y

LEMMA RemovedOrder ==
    ASSUME NEW S, NEW s \in Seq(S), NEW k, IsInjective(s), NEW x, NEW y
    PROVE  InOrder(Removed(s, k), x, y) <=> x # k /\ y # k /\ InOrder(s, x, y)
<1>1. CASE k \notin Range(s)
  BY <1>1 DEF Removed, InOrder, Range
<1>2. CASE k \in Range(s)
  <2> DEFINE p == CHOOSE j \in DOMAIN s : s[j] = k
             t == Removed(s, k)
             up(i) == IF i < p THEN i ELSE i + 1
             down(i) == IF i < p THEN i ELSE i - 1
  <2>1. p \in DOMAIN s /\ s[p] = k
    BY <1>2 DEF Range
  <2>2. t = RemoveAt(s, p)
    BY <1>2 DEF Removed
  <2> HIDE DEF p
  <2>3. t = Without(s, p)
    BY <2>1, <2>2, RemoveAtIsWithout
  <2>4. Len(s) \in Nat /\ DOMAIN s = 1 .. Len(s)
    BY LenProperties
  <2>5. /\ DOMAIN t = 1 .. Len(s) - 1
        /\ \A i \in 1 .. Len(s) - 1 : t[i] = IF i < p THEN s[i] ELSE s[i + 1]
    BY <2>3 DEF Without
  <2> HIDE DEF t
  <2>6. ASSUME NEW i \in DOMAIN t
        PROVE  up(i) \in DOMAIN s /\ up(i) # p /\ t[i] = s[up(i)]
    BY <2>1, <2>4, <2>5
  <2>7. ASSUME NEW i \in DOMAIN s, i # p
        PROVE  down(i) \in DOMAIN t /\ t[down(i)] = s[i]
    BY <2>1, <2>4, <2>5, <2>7
  <2>8. \A i \in DOMAIN s : s[i] = k <=> i = p
    BY <2>1 DEF IsInjective
  <2>9. ASSUME NEW i \in DOMAIN t, NEW j \in DOMAIN t, i < j
        PROVE  up(i) < up(j)
    BY <2>1, <2>4, <2>5, <2>9
  <2>10. ASSUME NEW i \in DOMAIN s, NEW j \in DOMAIN s, i < j, i # p, j # p
         PROVE  down(i) < down(j)
    BY <2>1, <2>4, <2>10
  <2> HIDE DEF up, down
  <2>11. ASSUME InOrder(t, x, y)
         PROVE  x # k /\ y # k /\ InOrder(s, x, y)
    <3>1. PICK i \in DOMAIN t, j \in DOMAIN t : i < j /\ t[i] = x /\ t[j] = y
      BY <2>11 DEF InOrder
    <3> QED
      BY <2>6, <2>8, <2>9, <3>1 DEF InOrder
  <2>12. ASSUME x # k, y # k, InOrder(s, x, y)
         PROVE  InOrder(t, x, y)
    <3>1. PICK i \in DOMAIN s, j \in DOMAIN s : i < j /\ s[i] = x /\ s[j] = y
      BY <2>12 DEF InOrder
    <3>2. i # p /\ j # p
      BY <2>8, <2>12, <3>1
    <3> QED
      BY <2>7, <2>10, <3>1, <3>2 DEF InOrder
  <2> QED
    BY <2>11, <2>12 DEF t
<1> QED
  BY <1>1, <1>2

LEMMA PushOrder ==
    ASSUME NEW S, NEW s \in Seq(S), NEW k \in S, NEW x, NEW y
    PROVE  InOrder(<<k>> \o s, x, y) <=>
               \/ x = k /\ y \in Range(s)
               \/ InOrder(s, x, y)
<1> DEFINE t == <<k>> \o s
<1>1. Len(s) \in Nat /\ DOMAIN s = 1 .. Len(s)
  BY LenProperties
<1>2. /\ DOMAIN t = 1 .. Len(s) + 1
      /\ t[1] = k
      /\ \A i \in DOMAIN s : i + 1 \in DOMAIN t /\ t[i + 1] = s[i]
  <2> DEFINE h == <<k>>
  <2>1. h \in Seq(S) /\ Len(h) = 1 /\ h[1] = k
    OBVIOUS
  <2> HIDE DEF h
  <2>2. /\ h \o s \in Seq(S)
        /\ Len(h \o s) = Len(h) + Len(s)
        /\ \A i \in 1 .. Len(h) + Len(s) :
              (h \o s)[i] = IF i <= Len(h) THEN h[i] ELSE s[i - Len(h)]
    BY <2>1, ConcatProperties
  <2>3. DOMAIN (h \o s) = 1 .. Len(h \o s)
    BY <2>2, LenProperties
  <2>4. t = h \o s
    BY DEF h
  <2> HIDE DEF t
  <2> QED
    BY <1>1, <2>1, <2>2, <2>3, <2>4
<1> HIDE DEF t
<1>3. ASSUME InOrder(t, x, y)
      PROVE  (x = k /\ y \in Range(s)) \/ InOrder(s, x, y)
  <2>1. PICK i \in DOMAIN t, j \in DOMAIN t : i < j /\ t[i] = x /\ t[j] = y
    BY <1>3 DEF InOrder
  <2>2. j - 1 \in DOMAIN s /\ s[j - 1] = y
    <3>1. j - 1 \in DOMAIN s /\ (j - 1) + 1 = j
      BY <1>1, <1>2, <2>1
    <3> QED
      BY <1>2, <2>1, <3>1
  <2>3. CASE i = 1
    BY <1>2, <2>1, <2>2, <2>3 DEF Range
  <2>4. CASE i # 1
    <3>1. i - 1 \in DOMAIN s /\ (i - 1) + 1 = i /\ i - 1 < j - 1
      BY <1>1, <1>2, <2>1, <2>4
    <3>2. s[i - 1] = x
      BY <1>2, <2>1, <3>1
    <3> QED
      BY <2>2, <3>1, <3>2 DEF InOrder
  <2> QED
    BY <2>3, <2>4
<1>4. ASSUME x = k, y \in Range(s)
      PROVE  InOrder(t, x, y)
  <2>1. PICK j \in DOMAIN s : s[j] = y
    BY <1>4 DEF Range
  <2>2. 1 \in DOMAIN t /\ 1 < j + 1
    BY <1>1, <1>2
  <2> QED
    BY <1>2, <1>4, <2>1, <2>2 DEF InOrder
<1>5. ASSUME InOrder(s, x, y)
      PROVE  InOrder(t, x, y)
  <2>1. PICK i \in DOMAIN s, j \in DOMAIN s : i < j /\ s[i] = x /\ s[j] = y
    BY <1>5 DEF InOrder
  <2>2. i + 1 < j + 1
    BY <1>1, <2>1
  <2> QED
    BY <1>2, <2>1, <2>2 DEF InOrder
<1> QED
  BY <1>3, <1>4, <1>5 DEF t

LEMMA FrontedOrder ==
    ASSUME NEW S, NEW s \in Seq(S), NEW k \in S, IsInjective(s), NEW x, NEW y
    PROVE  InOrder(Fronted(s, k), x, y) <=>
               \/ x = k /\ y \in Range(s) \ {k}
               \/ x # k /\ y # k /\ InOrder(s, x, y)
<1> DEFINE t == Removed(s, k)
<1>1. t \in Seq(S) /\ Range(t) = Range(s) \ {k}
  BY RemovedFacts
<1>2. InOrder(t, x, y) <=> x # k /\ y # k /\ InOrder(s, x, y)
  BY RemovedOrder
<1> HIDE DEF t
<1>3. InOrder(<<k>> \o t, x, y) <=>
          \/ x = k /\ y \in Range(t)
          \/ InOrder(t, x, y)
  BY <1>1, PushOrder
<1>4. Fronted(s, k) = <<k>> \o t
  BY DEF Fronted, t
<1> QED
  BY <1>1, <1>2, <1>3, <1>4

\* What the cut to n leaves is in order, and before what it takes.
LEMMA PrefixOrder ==
    ASSUME NEW S, NEW s \in Seq(S), NEW n \in Nat, n <= Len(s), NEW x, NEW y
    PROVE  /\ InOrder(SubSeq(s, 1, n), x, y) => InOrder(s, x, y)
           /\ x \in Range(SubSeq(s, 1, n)) /\ y \in Range(s) \ Range(SubSeq(s, 1, n))
                 => InOrder(s, x, y)
<1> DEFINE t == SubSeq(s, 1, n)
<1>1. Len(s) \in Nat /\ DOMAIN s = 1 .. Len(s)
  BY LenProperties
<1>2. DOMAIN t = 1 .. n /\ \A i \in 1 .. n : t[i] = s[i]
  <2>1. \A i \in 1 .. n : s[i] \in S
    BY <1>1, ElementOfSeq
  <2>2. /\ t \in Seq(S) /\ Len(t) = n
        /\ \A i \in 1 .. n : t[i] = s[i]
    BY <1>1, <2>1, SubSeqProperties
  <2> HIDE DEF t
  <2> QED
    BY <2>2, LenProperties
<1> HIDE DEF t
<1>3. InOrder(t, x, y) => InOrder(s, x, y)
  <2>1. \A i \in DOMAIN t : i \in DOMAIN s /\ t[i] = s[i]
    BY <1>1, <1>2
  <2> QED
    BY <2>1 DEF InOrder
<1>4. ASSUME x \in Range(t), y \in Range(s) \ Range(t)
      PROVE  InOrder(s, x, y)
  <2>1. PICK i \in DOMAIN t : t[i] = x
    BY <1>4 DEF Range
  <2>2. PICK j \in DOMAIN s : s[j] = y
    BY <1>4 DEF Range
  <2>3. j \notin DOMAIN t
    BY <1>2, <1>4, <2>2 DEF Range
  <2>4. i \in DOMAIN s /\ s[i] = x /\ i < j
    BY <1>1, <1>2, <2>1, <2>2, <2>3
  <2> QED
    BY <2>2, <2>4 DEF InOrder
<1> QED
  BY <1>3, <1>4 DEF t

\* The list is the history without the keys that have left.
UseOrder ==
    /\ Present \subseteq Range(recent)
    /\ \A x, y \in Keys : InOrder(ll, x, y) => InOrder(recent, x, y)

LEMMA InitOrder == Init => UseOrder
BY DEF Init, UseOrder, Present, InOrder, Range

\* The list and the history after a hit or a put of k have k in front.
LEMMA UseKeepsOrder ==
    ASSUME CacheInv, UseOrder, NEW k \in Keys, recent' = Fronted(recent, k),
           \A x, y \in Keys : InOrder(ll', x, y) => InOrder(Fronted(ll, k), x, y),
           Present' \subseteq Present \cup {k}
    PROVE  UseOrder'
<1> USE DEF CacheInv, TypeOK, IndexMatchesList
<1>1. Range(recent') = Range(recent) \cup {k}
  BY FrontedFacts
<1>2. ASSUME NEW x \in Keys, NEW y \in Keys, InOrder(ll', x, y)
      PROVE  InOrder(recent', x, y)
  <2>1. \/ x = k /\ y \in Present \ {k}
        \/ x # k /\ y # k /\ InOrder(ll, x, y)
    BY <1>2, FrontedOrder DEF Present
  <2>2. \/ x = k /\ y \in Range(recent) \ {k}
        \/ x # k /\ y # k /\ InOrder(recent, x, y)
    BY <2>1 DEF UseOrder
  <2> QED
    BY <2>2, FrontedOrder
<1> QED
  BY <1>1, <1>2 DEF UseOrder

LEMMA MoveIsFronted ==
    ASSUME CacheInv, NEW k \in Keys, idx[k] # Nothing
    PROVE  MovedToFront(k) = Fronted(ll, k)
BY DEF CacheInv, IndexMatchesList, MovedToFront

\* A push of a new key, and the cut after it.
LEMMA PushAndCut ==
    ASSUME CacheInv, NEW k \in Keys, NEW d \in Data, PutNew(k, d)
    PROVE  /\ Range(ll') \subseteq Present \cup {k}
           /\ \A x, y \in Keys : InOrder(ll', x, y) => InOrder(Fronted(ll, k), x, y)
           /\ \A x \in Range(ll'), y \in Present \ Range(ll') :
                 Len(ll) = CacheSize /\ InOrder(Fronted(ll, k), x, y)
<1> DEFINE pushed == <<k>> \o ll
<1>1. /\ idx[k] = Nothing
      /\ ll' = IF Len(pushed) > CacheSize THEN SubSeq(pushed, 1, CacheSize)
               ELSE pushed
  BY DEF PutNew
<1>2. ll \in Seq(Keys) /\ IsInjective(ll) /\ Len(ll) \in Nat /\ Len(ll) <= CacheSize
  BY LenProperties DEF CacheInv, TypeOK, IndexMatchesList
<1>3. k \notin Range(ll)
  BY <1>1 DEF CacheInv, IndexMatchesList, Present
<1>4. /\ pushed \in Seq(Keys)
      /\ Len(pushed) = Len(ll) + 1
      /\ Range(pushed) = Present \cup {k}
  BY <1>2, <1>3, PushDistinct DEF Present
<1>5. pushed = Fronted(ll, k)
  BY <1>3 DEF Fronted, Removed
<1> HIDE DEF pushed
<1>6. CASE Len(pushed) > CacheSize
  <2>1. CacheSize \in Nat /\ CacheSize <= Len(pushed) /\ Len(ll) = CacheSize
    BY <1>2, <1>4, <1>6, CacheAssumption
  <2>2. ll' = SubSeq(pushed, 1, CacheSize)
    BY <1>1, <1>6
  <2>3. Range(ll') \subseteq Range(pushed)
    <3>1. IsInjective(pushed)
      BY <1>2, <1>5, FrontedFacts
    <3> QED
      BY <1>4, <2>1, <2>2, <3>1, PrefixDistinct
  <2>4. \A x, y : InOrder(ll', x, y) => InOrder(pushed, x, y)
    BY <1>4, <2>1, <2>2, PrefixOrder
  <2>5. \A x, y : x \in Range(ll') /\ y \in Range(pushed) \ Range(ll')
                     => InOrder(pushed, x, y)
    BY <1>4, <2>1, <2>2, PrefixOrder
  <2> QED
    BY <1>4, <1>5, <2>1, <2>3, <2>4, <2>5
<1>7. CASE ~(Len(pushed) > CacheSize)
  BY <1>1, <1>4, <1>5, <1>7
<1> QED
  BY <1>6, <1>7

LEMMA NextOrder == CacheInv /\ UseOrder /\ [Next]_vars => UseOrder'
<1> SUFFICES ASSUME CacheInv, UseOrder, [Next]_vars
             PROVE  UseOrder'
  OBVIOUS
<1>1. ASSUME NEW k \in Keys, GetMiss(k)
      PROVE  UseOrder'
  BY <1>1 DEF GetMiss, UseOrder, Present, historyVars
<1>2. ASSUME NEW k \in Keys, GetExpired(k)
      PROVE  UseOrder'
  <2>1. ll' = Removed(ll, k) /\ recent' = recent
    BY <1>2 DEF GetExpired, historyVars
  <2>2. Range(ll') \subseteq Range(ll)
    BY <2>1, RemovedFacts DEF CacheInv, TypeOK, IndexMatchesList
  <2>3. \A x, y \in Keys : InOrder(ll', x, y) => InOrder(ll, x, y)
    BY <2>1, RemovedOrder DEF CacheInv, TypeOK, IndexMatchesList
  <2> QED
    BY <2>1, <2>2, <2>3 DEF UseOrder, Present
<1>3. ASSUME NEW k \in Keys, idx[k] # Nothing, ll' = MovedToFront(k),
             recent' = Fronted(recent, k)
      PROVE  UseOrder'
  <2>1. ll' = Fronted(ll, k)
    BY <1>3, MoveIsFronted
  <2>2. Present' = Present
    BY <1>3, UsedKey DEF Present
  <2> QED
    BY <1>3, <2>1, <2>2, UseKeepsOrder
<1>4. ASSUME NEW k \in Keys, GetHit(k)
      PROVE  UseOrder'
  BY <1>3, <1>4 DEF GetHit
<1>5. ASSUME NEW k \in Keys, NEW d \in Data, PutAgain(k, d)
      PROVE  UseOrder'
  BY <1>3, <1>5 DEF PutAgain, Puts
<1>6. ASSUME NEW k \in Keys, NEW d \in Data, PutNew(k, d)
      PROVE  UseOrder'
  <2>1. recent' = Fronted(recent, k)
    BY <1>6 DEF PutNew, Puts
  <2>2. Present' \subseteq Present \cup {k}
    BY <1>6, PushAndCut DEF Present
  <2>3. \A x, y \in Keys : InOrder(ll', x, y) => InOrder(Fronted(ll, k), x, y)
    BY <1>6, PushAndCut
  <2> QED
    BY <2>1, <2>2, <2>3, UseKeepsOrder
<1>7. CASE Tick \/ UNCHANGED vars
  BY <1>7 DEF Tick, UseOrder, Present, vars, historyVars
<1> QED
  BY <1>1, <1>2, <1>4, <1>5, <1>6, <1>7 DEF Next, Get, Put

\* One step of EvictsOnlyOldest: only a put of a new key takes a key that has
\* not expired off the list, and that one is behind all others.
LEMMA StepEvicts ==
    ASSUME CacheInv, UseOrder, [Next]_vars,
           NEW k \in Present \ Range(ll'), ~Expired(k)
    PROVE  /\ Len(ll) = CacheSize
           /\ \A x \in Range(ll') : InOrder(recent', x, k)
<1>1. k \in Range(ll) /\ k \notin Range(ll')
  BY DEF Present
<1>2. ASSUME NEW h \in Keys, GetMiss(h)
      PROVE  FALSE
  BY <1>1, <1>2 DEF GetMiss
<1>3. ASSUME NEW h \in Keys, GetExpired(h)
      PROVE  FALSE
  <2>1. Range(ll') = Range(ll) \ {h}
    BY <1>3, RemovedFacts DEF GetExpired, CacheInv, TypeOK, IndexMatchesList
  <2>2. k = h
    BY <1>1, <2>1
  <2> QED
    BY <1>3, <2>2 DEF GetExpired
<1>4. ASSUME NEW h \in Keys, idx[h] # Nothing, ll' = MovedToFront(h)
      PROVE  FALSE
  BY <1>1, <1>4, UsedKey DEF Present
<1>5. ASSUME NEW h \in Keys, GetHit(h)
      PROVE  FALSE
  BY <1>4, <1>5 DEF GetHit
<1>6. ASSUME NEW h \in Keys, NEW d \in Data, PutAgain(h, d)
      PROVE  FALSE
  BY <1>4, <1>6 DEF PutAgain
<1>7. ASSUME NEW h \in Keys, NEW d \in Data, PutNew(h, d)
      PROVE  /\ Len(ll) = CacheSize
             /\ \A x \in Range(ll') : InOrder(recent', x, k)
  <2>1. h \in Range(ll')
    <3>1. CacheInv'
      BY <1>7, PutKeeps DEF Put
    <3>2. idx'[h] # Nothing
      BY <1>7, StampedIsEntry DEF PutNew
    <3> QED
      BY <3>1, <3>2 DEF CacheInv, IndexMatchesList, Present
  <2>2. Len(ll) = CacheSize
    BY <1>1, <1>7, <2>1, PushAndCut
  <2>3. ASSUME NEW x \in Range(ll')
        PROVE  InOrder(recent', x, k)
    <3>1. InOrder(Fronted(ll, h), x, k)
      BY <1>1, <1>7, PushAndCut
    <3>2. ll \in Seq(Keys) /\ IsInjective(ll) /\ recent \in Seq(Keys) /\ IsInjective(recent)
      BY DEF CacheInv, TypeOK, IndexMatchesList
    <3>3. \/ x = h /\ k \in Range(ll) \ {h}
          \/ x # h /\ k # h /\ InOrder(ll, x, k)
      BY <3>1, <3>2, FrontedOrder
    <3>4. x \in Keys /\ k \in Keys
      <4>1. Range(ll) \subseteq Keys
        BY <3>2, ElementOfSeq, LenProperties DEF Range
      <4>2. x \in Present \cup {h}
        BY <1>7, PushAndCut
      <4> QED
        BY <1>1, <4>1, <4>2 DEF Present
    <3>5. \/ x = h /\ k \in Range(recent) \ {h}
          \/ x # h /\ k # h /\ InOrder(recent, x, k)
      <4>1. k \in Range(recent)
        BY <1>1 DEF UseOrder
      <4>2. InOrder(ll, x, k) => InOrder(recent, x, k)
        BY <3>4 DEF UseOrder
      <4> QED
        BY <3>3, <4>1, <4>2
    <3>6. recent' = Fronted(recent, h)
      BY <1>7 DEF PutNew, Puts
    <3> QED
      BY <3>2, <3>5, <3>6, FrontedOrder
  <2> QED
    BY <2>2, <2>3
<1>8. CASE Tick \/ UNCHANGED vars
  BY <1>1, <1>8 DEF Tick, vars
<1> QED
  BY <1>2, <1>3, <1>5, <1>6, <1>7, <1>8 DEF Next, Get, Put

\* cache.go:73-79: a key that has not expired leaves only when the cache is
\* full, and then it is the one used longest ago; the back of the list has it
\* because the list is the history without the keys that have left.
THEOREM OldestIsEvicted == Spec => EvictsOnlyOldest
<1>1. CacheInv /\ UseOrder /\ [Next]_vars =>
          [\A k \in Present \ Range(ll') :
             ~Expired(k) => /\ Len(ll) = CacheSize
                            /\ \A x \in Range(ll') :
                                  \E i, j \in DOMAIN recent' :
                                     i < j /\ recent'[i] = x /\ recent'[j] = k]_vars
  BY StepEvicts DEF InOrder
<1> QED
  BY <1>1, InitOrder, NextOrder, CacheSafe, PTL DEF Spec, EvictsOnlyOldest

-----------------------------------------------------------------------------
(* The refinement *)

LEMMA StepRefines == CacheInv /\ [Next]_vars => [Map!Next]_<<now, latest, answer>>
<1> SUFFICES ASSUME CacheInv, [Next]_vars
             PROVE  Map!Next \/ UNCHANGED <<now, latest, answer>>
  OBVIOUS
<1>1. ASSUME NEW k \in Keys, GetMiss(k) \/ GetExpired(k)
      PROVE  Map!Miss
  BY <1>1 DEF GetMiss, GetExpired, Map!Miss, historyVars
<1>2. ASSUME NEW k \in Keys, GetHit(k)
      PROVE  Map!Hit(k)
  <2>1. idx[k] # Nothing /\ idx[k] = latest[k]
    BY <1>2 DEF GetHit, CacheInv, IndexIsLatest
  <2>2. now \in Int /\ idx[k].expiresAt \in Int
    BY <2>1 DEF CacheInv, TypeOK, Entry
  <2>3. now <= latest[k].expiresAt
    BY <1>2, <2>1, <2>2 DEF GetHit, Expired
  <2> QED
    BY <1>2, <2>1, <2>3 DEF GetHit, Map!Hit, Map!Unexpired
<1>3. ASSUME NEW k \in Keys, NEW d \in Data, Put(k, d)
      PROVE  Map!Put(k, d)
  BY <1>3 DEF Put, PutAgain, PutNew, Puts, Stamped, Map!Put, Map!Promised
<1>4. Tick => Map!Tick
  BY DEF Tick, Map!Tick, historyVars
<1>5. CASE UNCHANGED vars
  BY <1>5 DEF vars, historyVars
<1>6. ASSUME NEW k \in Keys, Get(k)
      PROVE  Map!Next
  <2>1. CASE GetMiss(k) \/ GetExpired(k)
    BY <1>1, <2>1 DEF Map!Next
  <2>2. CASE GetHit(k)
    BY <1>2, <2>2 DEF Map!Next
  <2> QED
    BY <1>6, <2>1, <2>2 DEF Get
<1>7. ASSUME NEW k \in Keys, NEW d \in Data, Put(k, d)
      PROVE  Map!Next
  BY <1>3, <1>7 DEF Map!Next
<1>8. Tick => Map!Next
  BY <1>4 DEF Map!Next
<1> QED
  BY <1>5, <1>6, <1>7, <1>8 DEF Next

\* A hit returns what was put last under its key, no later than its TTL after
\* it: cache.go:43-54, for every CacheSize, TTL and order of calls.
THEOREM CacheImplementsTTLMap == Spec => ImplementsTTLMap
<1>1. Init => Map!Init
  BY DEF Init, Map!Init
<1> QED
  BY <1>1, StepRefines, CacheSafe, PTL DEF Spec, ImplementsTTLMap, Map!Spec
=============================================================================
