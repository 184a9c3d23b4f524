------------------------- MODULE VolumeProfile_proofs -------------------------
(***************************************************************************)
(* Proofs about VolumeProfile: the bins hold the volume of every bar, and  *)
(* the value area is a run of bins around a busiest one.                   *)
(*                                                                         *)
(* Induction is over a set: what holds the numbers of which the claim is   *)
(* true has 0, and with a number the next, up to n (InductionTo).          *)
(***************************************************************************)
EXTENDS VolumeProfile, FiniteSetTheorems, WellFoundedInduction, TLAPS

-----------------------------------------------------------------------------
(* Numbers *)

LEMMA LeastElement ==
    ASSUME NEW T, T \subseteq Nat, T # {}
    PROVE  \E m \in T : \A n \in T : m <= n
<1> DEFINE R == OpToRel(<, Nat)
<1>1. IsWellFoundedOn(R, Nat)
  BY NatLessThanWellFounded
<1>2. \A m, n \in Nat : n < m => <<n, m>> \in R
  BY DEF OpToRel
<1> HIDE DEF R
<1>3. PICK m \in T : \A n \in T : ~ (<<n, m>> \in R)
  BY <1>1, WFMin
<1>4. ASSUME NEW n \in T
      PROVE  m <= n
  <2>1. m \in Nat /\ n \in Nat
    OBVIOUS
  <2>2. ~ (n < m)
    BY <1>2, <1>3, <2>1
  <2> QED
    BY <2>1, <2>2
<1> QED
  BY <1>4

\* Induction from 0 up to n, over the set of what has been reached.
LEMMA InductionTo ==
    ASSUME NEW n \in Nat, NEW S, 0 \in S,
           \A m \in 0 .. n - 1 : m \in S => m + 1 \in S
    PROVE  \A m \in 0 .. n : m \in S
<1> SUFFICES ASSUME NEW k \in 0 .. n, k \notin S
             PROVE  FALSE
  OBVIOUS
<1> DEFINE T == {m \in 0 .. n : m \notin S}
<1>1. k \in T /\ T \subseteq Nat
  OBVIOUS
<1>2. PICK m \in T : \A i \in T : m <= i
  <2> HIDE DEF T
  <2> QED
    BY <1>1, LeastElement
<1>3. m \in 0 .. n /\ m \notin S /\ m # 0
  OBVIOUS
<1>4. m - 1 \in 0 .. n - 1 /\ m - 1 \in 0 .. n /\ ~ (m <= m - 1) /\ (m - 1) + 1 = m
  BY <1>3
<1>5. m - 1 \in S
  BY <1>2, <1>4
<1> QED
  BY <1>3, <1>4, <1>5

LEMMA MinOfSet ==
    ASSUME NEW T, T \subseteq Nat, T # {}
    PROVE  Min(T) \in T /\ \A x \in T : Min(T) <= x
<1>1. \E m \in T : \A x \in T : m <= x
  BY LeastElement
<1> QED
  BY <1>1 DEF Min

LEMMA MaxOfSet ==
    ASSUME NEW T, T \subseteq Nat, T # {}, NEW u \in Nat, \A x \in T : x <= u
    PROVE  Max(T) \in T /\ \A x \in T : x <= Max(T)
<1> DEFINE U == {v \in Nat : \A x \in T : x <= v}
<1>1. PICK m \in U : \A v \in U : m <= v
  <2>1. U \subseteq Nat /\ u \in U
    OBVIOUS
  <2> HIDE DEF U
  <2> QED
    BY <2>1, LeastElement
<1>2. m \in T
  <2> SUFFICES ASSUME m \notin T
               PROVE  FALSE
    OBVIOUS
  <2>1. m \in Nat /\ \A x \in T : x \in Nat /\ x <= m /\ x # m
    OBVIOUS
  <2>2. PICK y \in T : TRUE
    OBVIOUS
  <2>3. m # 0
    BY <2>1, <2>2
  <2>4. m - 1 \in Nat /\ \A x \in T : x <= m - 1
    BY <2>1, <2>3
  <2>5. m - 1 \in U
    BY <2>4
  <2>6. ~ (m <= m - 1)
    BY <2>1
  <2> QED
    BY <1>1, <2>5, <2>6
<1>3. m \in T /\ \A x \in T : m >= x
  BY <1>2
<1>4. Max(T) \in T /\ \A x \in T : Max(T) >= x
  BY <1>3, Zenon DEF Max
<1>5. \A x \in T : x \in Nat /\ Max(T) \in Nat
  BY <1>4
<1> QED
  BY <1>4, <1>5

\* The values of a function on an interval have a bound.
LEMMA BoundOfValues ==
    ASSUME NEW n \in Nat, NEW f \in [1 .. n -> Nat]
    PROVE  \E u \in Nat : \A i \in 1 .. n : f[i] <= u
<1> DEFINE Bounded(m) == \E u \in Nat : \A i \in 1 .. m : f[i] <= u
           S == {m \in 0 .. n : Bounded(m)}
<1>1. 0 \in S
  OBVIOUS
<1>2. ASSUME NEW m \in 0 .. n - 1, m \in S
      PROVE  m + 1 \in S
  <2>1. PICK u \in Nat : \A i \in 1 .. m : f[i] <= u
    BY <1>2
  <2>2. m + 1 \in 1 .. n
    OBVIOUS
  <2> DEFINE w == f[m + 1]
  <2>3. w \in Nat
    BY <2>2
  <2>4. ASSUME NEW i \in 1 .. m + 1
        PROVE  f[i] <= u + w
    <3>1. i \in 1 .. n
      BY <2>2
    <3>2. f[i] \in Nat
      BY <3>1
    <3>3. i = m + 1 => f[i] = w
      OBVIOUS
    <3>4. i # m + 1 => f[i] <= u
      BY <2>1
    <3> HIDE DEF w
    <3> QED
      BY <2>3, <3>2, <3>3, <3>4
  <2>5. Bounded(m + 1)
    <3> HIDE DEF w
    <3>1. u + w \in Nat
      BY <2>3
    <3> DEFINE v == u + w
    <3>2. v \in Nat /\ \A i \in 1 .. m + 1 : f[i] <= v
      BY <2>4, <3>1
    <3> HIDE DEF v
    <3> QED
      BY <3>2, Zenon
  <2>6. m + 1 \in 0 .. n
    OBVIOUS
  <2> HIDE DEF Bounded
  <2> QED
    BY <2>5, <2>6
<1>3. \A m \in 0 .. n : m \in S
  <2> HIDE DEF S
  <2> QED
    BY <1>1, <1>2, InductionTo
<1>4. n \in S
  <2> HIDE DEF S
  <2> QED
    BY <1>3
<1> QED
  BY <1>4

-----------------------------------------------------------------------------
(* Partial sums *)

\* The function that PartialSums defines by recursion exists.
LEMMA PartialSumsDef ==
    ASSUME NEW n \in Nat, NEW f \in [0 .. n - 1 -> Nat]
    PROVE  /\ PartialSums(f, n) \in [0 .. n -> Nat]
           /\ PartialSums(f, n)[0] = 0
           /\ \A i \in 0 .. n - 1 : PartialSums(f, n)[i + 1] = PartialSums(f, n)[i] + f[i]
<1> DEFINE Sums(m, s) ==
              /\ s \in [0 .. m -> Nat]
              /\ s[0] = 0
              /\ \A i \in 0 .. m - 1 : s[i + 1] = s[i] + f[i]
           S == {m \in 0 .. n : \E s : Sums(m, s)}
<1>1. 0 \in S
  <2> DEFINE z == [i \in 0 .. 0 |-> 0]
  <2>1. Sums(0, z)
    OBVIOUS
  <2>2. 0 \in 0 .. n
    OBVIOUS
  <2> HIDE DEF z, Sums
  <2> QED
    BY <2>1, <2>2
<1>2. ASSUME NEW m \in 0 .. n - 1, m \in S
      PROVE  m + 1 \in S
  <2>1. PICK s : Sums(m, s)
    BY <1>2
  <2> DEFINE t == [i \in 0 .. m + 1 |-> IF i = m + 1 THEN s[m] + f[m] ELSE s[i]]
  <2>2. f[m] \in Nat /\ s[m] \in Nat
    BY <2>1
  <2>3. t \in [0 .. m + 1 -> Nat]
    BY <2>1, <2>2
  <2>4. t[0] = 0
    BY <2>1
  <2>5. ASSUME NEW i \in 0 .. m
        PROVE  t[i + 1] = t[i] + f[i]
    <3>1. CASE i = m
      BY <3>1
    <3>2. CASE i # m
      BY <2>1, <3>2
    <3> QED
      BY <3>1, <3>2
  <2>6. Sums(m + 1, t)
    <3>1. (m + 1) - 1 = m
      OBVIOUS
    <3> QED
      BY <2>3, <2>4, <2>5, <3>1
  <2>7. m + 1 \in 0 .. n
    OBVIOUS
  <2> QED
    BY <2>6, <2>7
<1>3. PICK s : Sums(n, s)
  <2>1. n \in S
    <3> HIDE DEF S
    <3>1. \A m \in 0 .. n : m \in S
      BY <1>1, <1>2, InductionTo
    <3> QED
      BY <3>1
  <2> HIDE DEF Sums
  <2> QED
    BY <2>1
<1> DEFINE Eqn(r) == r = [i \in 0 .. n |-> IF i = 0 THEN 0 ELSE r[i - 1] + f[i - 1]]
<1>4. Eqn(s)
  <2>1. ASSUME NEW i \in 0 .. n
        PROVE  s[i] = IF i = 0 THEN 0 ELSE s[i - 1] + f[i - 1]
    <3>1. CASE i = 0
      BY <1>3, <3>1
    <3>2. CASE i # 0
      <4>1. i - 1 \in 0 .. n - 1 /\ (i - 1) + 1 = i
        BY <3>2
      <4> QED
        BY <1>3, <3>2, <4>1
    <3> QED
      BY <3>1, <3>2
  <2> QED
    BY <1>3, <2>1
<1> DEFINE p == PartialSums(f, n)
<1>5. Eqn(p)
  <2>1. p = CHOOSE r : Eqn(r)
    BY DEF PartialSums
  <2> QED
    BY <1>4, <2>1
<1>6. /\ DOMAIN p = 0 .. n /\ p = [i \in 0 .. n |-> p[i]]
      /\ p[0] = 0
      /\ \A i \in 0 .. n - 1 : p[i + 1] = p[i] + f[i]
  <2> HIDE DEF p
  <2>1. p = [i \in 0 .. n |-> IF i = 0 THEN 0 ELSE p[i - 1] + f[i - 1]]
    BY <1>5 DEF p
  <2>2. DOMAIN p = 0 .. n
    BY <2>1
  <2>3. \A i \in 0 .. n : p[i] = IF i = 0 THEN 0 ELSE p[i - 1] + f[i - 1]
    BY <2>1
  <2>4. p = [i \in 0 .. n |-> p[i]]
    BY <2>1, <2>2
  <2>5. ASSUME NEW i \in 0 .. n - 1
        PROVE  p[i + 1] = p[i] + f[i]
    <3>1. i + 1 \in 0 .. n /\ i + 1 # 0 /\ (i + 1) - 1 = i
      OBVIOUS
    <3> QED
      BY <2>3, <3>1
  <2>6. p[0] = 0
    <3>1. 0 \in 0 .. n
      OBVIOUS
    <3> QED
      BY <2>3, <3>1
  <2> QED
    BY <2>2, <2>4, <2>5, <2>6
<1> HIDE DEF p
<1>7. \A i \in 0 .. n : p[i] \in Nat
  <2> DEFINE V == {i \in 0 .. n : p[i] \in Nat}
  <2>1. 0 \in V
    BY <1>6
  <2>2. ASSUME NEW i \in 0 .. n - 1, i \in V
        PROVE  i + 1 \in V
    <3>1. p[i + 1] = p[i] + f[i]
      BY <1>6
    <3>2. f[i] \in Nat /\ p[i] \in Nat
      BY <2>2
    <3>3. i + 1 \in 0 .. n
      OBVIOUS
    <3> QED
      BY <3>1, <3>2, <3>3
  <2>3. \A i \in 0 .. n : i \in V
    <3> HIDE DEF V
    <3> QED
      BY <2>1, <2>2, InductionTo
  <2> QED
    BY <2>3
<1> QED
  BY <1>6, <1>7 DEF p

LEMMA ZeroSums ==
    ASSUME NEW n \in Nat, NEW f \in [0 .. n - 1 -> Nat],
           \A i \in 0 .. n - 1 : f[i] = 0
    PROVE  PartialSums(f, n)[n] = 0
<1> DEFINE F == PartialSums(f, n)
           S == {i \in 0 .. n : F[i] = 0}
<1>1. /\ F[0] = 0
      /\ \A i \in 0 .. n - 1 : F[i + 1] = F[i] + f[i]
  BY PartialSumsDef
<1> HIDE DEF F
<1>2. 0 \in S
  BY <1>1
<1>3. ASSUME NEW i \in 0 .. n - 1, i \in S
      PROVE  i + 1 \in S
  <2>1. F[i + 1] = F[i] + f[i] /\ f[i] = 0 /\ F[i] = 0
    BY <1>1, <1>3
  <2>2. i + 1 \in 0 .. n
    OBVIOUS
  <2> QED
    BY <2>1, <2>2
<1>4. \A i \in 0 .. n : i \in S
  <2> HIDE DEF S
  <2> QED
    BY <1>2, <1>3, InductionTo
<1>5. n \in S
  <2> HIDE DEF S
  <2> QED
    BY <1>4
<1> QED
  BY <1>5 DEF F

\* g is f with a share more for each of the bins from start to end.
Raised(g, f, n, start, end, share) ==
    /\ n \in Nat /\ share \in Nat
    /\ f \in [0 .. n - 1 -> Nat] /\ g \in [0 .. n - 1 -> Nat]
    /\ start \in 0 .. n - 1 /\ end \in start .. n - 1
    /\ \A b \in 0 .. n - 1 :
          g[b] = IF b \in start .. end THEN f[b] + share ELSE f[b]

LEMMA RaisedSum ==
    ASSUME NEW n, NEW f, NEW g, NEW share, NEW start, NEW end,
           Raised(g, f, n, start, end, share)
    PROVE  PartialSums(g, n)[n] = PartialSums(f, n)[n] + share * (end - start + 1)
<1> DEFINE F == PartialSums(f, n)
           G == PartialSums(g, n)
           covered(i) == IF i <= start THEN 0
                         ELSE IF i <= end THEN i - start ELSE end - start + 1
           S == {i \in 0 .. n : G[i] = F[i] + share * covered(i)}
<1> USE DEF Raised
<1>1. /\ F \in [0 .. n -> Nat] /\ F[0] = 0
      /\ \A i \in 0 .. n - 1 : F[i + 1] = F[i] + f[i]
  BY PartialSumsDef
<1>2. /\ G \in [0 .. n -> Nat] /\ G[0] = 0
      /\ \A i \in 0 .. n - 1 : G[i + 1] = G[i] + g[i]
  BY PartialSumsDef
<1> HIDE DEF F, G
<1>3. 0 \in S
  BY <1>1, <1>2
<1>4. ASSUME NEW b \in 0 .. n - 1, b \in S
      PROVE  b + 1 \in S
  <2>1. /\ F[b + 1] = F[b] + f[b] /\ G[b + 1] = G[b] + g[b]
        /\ F[b] \in Nat /\ f[b] \in Nat
        /\ G[b] = F[b] + share * covered(b)
        /\ b + 1 \in 0 .. n
    <3>1. b \in 0 .. n /\ b + 1 \in 0 .. n
      OBVIOUS
    <3>2. G[b] = F[b] + share * covered(b)
      BY <1>4
    <3> HIDE DEF covered
    <3> QED
      BY <1>1, <1>2, <3>1, <3>2
  <2>2. CASE b \in start .. end
    <3>1. g[b] = f[b] + share
      BY <2>2
    <3> DEFINE c == b - start
    <3>2. covered(b) = c /\ covered(b + 1) = c + 1 /\ c \in Nat
      BY <2>2
    <3> HIDE DEF c, covered
    <3>3. share * (c + 1) = share * c + share /\ share * c \in Nat
      BY <3>2
    <3>4. G[b + 1] = F[b + 1] + share * covered(b + 1)
      BY <2>1, <3>1, <3>2, <3>3
    <3> QED
      BY <2>1, <3>4
  <2>3. CASE b \notin start .. end
    <3>1. g[b] = f[b]
      BY <2>3
    <3>2. covered(b + 1) = covered(b) /\ covered(b) \in Nat
      BY <2>3
    <3> HIDE DEF covered
    <3>3. share * covered(b) \in Nat
      BY <3>2
    <3>4. G[b + 1] = F[b + 1] + share * covered(b + 1)
      BY <2>1, <3>1, <3>2, <3>3
    <3> QED
      BY <2>1, <3>4
  <2> QED
    BY <2>2, <2>3
<1>5. \A i \in 0 .. n : i \in S
  <2> HIDE DEF S
  <2> QED
    BY <1>3, <1>4, InductionTo
<1>6. n \in 0 .. n /\ covered(n) = end - start + 1
  OBVIOUS
<1> QED
  BY <1>5, <1>6 DEF F, G

-----------------------------------------------------------------------------
(* Division *)

LEMMA Quotient ==
    ASSUME NEW a \in Nat, NEW d \in Nat \ {0}
    PROVE  /\ a \div d \in Nat
           /\ d * (a \div d) <= a
           /\ a < d * (a \div d) + d
OBVIOUS

LEMMA ProductsKeepOrder ==
    ASSUME NEW d \in Nat, NEW x \in Nat, NEW y \in Nat, x <= y
    PROVE  d * x <= d * y /\ d * x \in Nat /\ d * y \in Nat
<1>1. y - x \in Nat
  OBVIOUS
<1>2. d * (y - x) \in Nat
  BY <1>1
<1>3. d * y = d * x + d * (y - x)
  OBVIOUS
<1>4. d * x \in Nat /\ d * y \in Nat
  OBVIOUS
<1> QED
  BY <1>2, <1>3, <1>4

LEMMA QuotientIsMonotonic ==
    ASSUME NEW d \in Nat \ {0}, NEW a \in Nat, NEW b \in Nat, a <= b
    PROVE  a \div d <= b \div d
<1> DEFINE q == a \div d
           r == b \div d
<1>1. q \in Nat /\ d * q <= a /\ a < d * q + d
  BY Quotient
<1>2. r \in Nat /\ d * r <= b /\ b < d * r + d
  BY Quotient
<1> HIDE DEF q, r
<1>3. SUFFICES ASSUME r + 1 <= q
               PROVE  FALSE
  BY <1>1, <1>2 DEF q, r
<1>4. d * (r + 1) <= d * q /\ d * q \in Nat
  BY <1>1, <1>2, <1>3, ProductsKeepOrder
<1>5. d * (r + 1) = d * r + d /\ d * r \in Nat
  BY <1>2
<1> QED
  BY <1>1, <1>2, <1>4, <1>5

LEMMA QuotientBelow ==
    ASSUME NEW d \in Nat \ {0}, NEW a \in Nat, NEW k \in Nat, a < d * k
    PROVE  a \div d < k
<1> DEFINE q == a \div d
<1>1. q \in Nat /\ d * q <= a /\ a < d * q + d
  BY Quotient
<1> HIDE DEF q
<1>2. SUFFICES ASSUME k <= q
               PROVE  FALSE
  BY <1>1 DEF q
<1>3. d * k <= d * q /\ d * k \in Nat /\ d * q \in Nat
  BY <1>1, <1>2, ProductsKeepOrder
<1> QED
  BY <1>1, <1>3

LEMMA QuotientOfProduct ==
    ASSUME NEW d \in Nat \ {0}, NEW k \in Nat
    PROVE  (d * k) \div d = k
<1> DEFINE a == d * k
           q == a \div d
<1>1. a \in Nat
  OBVIOUS
<1>2. q \in Nat /\ d * q <= a /\ a < d * q + d
  <2> HIDE DEF a
  <2> QED
    BY <1>1, Quotient
<1> HIDE DEF q
<1>3. ASSUME k + 1 <= q
      PROVE  FALSE
  <2>1. d * (k + 1) <= d * q /\ d * (k + 1) \in Nat /\ d * q \in Nat
    BY <1>2, <1>3, ProductsKeepOrder
  <2>2. d * (k + 1) = d * k + d
    OBVIOUS
  <2> QED
    BY <1>1, <1>2, <2>1, <2>2
<1>4. ASSUME q + 1 <= k
      PROVE  FALSE
  <2>1. d * (q + 1) <= d * k /\ d * (q + 1) \in Nat /\ d * k \in Nat
    BY <1>2, <1>4, ProductsKeepOrder
  <2>2. d * (q + 1) = d * q + d
    BY <1>2
  <2> QED
    BY <1>1, <1>2, <2>1, <2>2
<1>5. q = k
  BY <1>2, <1>3, <1>4
<1> QED
  BY <1>5 DEF q, a

\* The n shares of a volume that n divides.
LEMMA SharesAddUp ==
    ASSUME NEW v \in Nat, NEW n \in Nat \ {0}, v % n = 0
    PROVE  v \div n \in Nat /\ (v \div n) * n = v
<1>1. v \div n \in Nat
  BY Quotient
<1>2. v = n * (v \div n) + (v % n)
  OBVIOUS
<1> QED
  BY <1>1, <1>2

-----------------------------------------------------------------------------
(* The window and its bins *)

IsWindow == window \in [1 .. Lookback -> Bars]

LEMMA PriceRange ==
    ASSUME IsWindow
    PROVE  /\ minPrice \in Nat /\ maxPrice \in Nat /\ minPrice <= maxPrice
           /\ \A i \in 1 .. Lookback :
                 /\ window[i].low \in Nat /\ window[i].high \in Nat
                 /\ window[i].volume \in Volumes
                 /\ minPrice <= window[i].low
                 /\ window[i].low <= window[i].high
                 /\ window[i].high <= maxPrice
<1>1. /\ DOMAIN window = 1 .. Lookback
      /\ \A i \in 1 .. Lookback :
            /\ window[i].low \in Nat /\ window[i].high \in Nat
            /\ window[i].volume \in Volumes
            /\ window[i].low <= window[i].high
  BY ProfileAssumption DEF IsWindow, Bars
<1>2. 1 \in 1 .. Lookback
  BY ProfileAssumption
<1> DEFINE Lows == {window[i].low : i \in DOMAIN window}
           Highs == {window[i].high : i \in DOMAIN window}
           high == [i \in 1 .. Lookback |-> window[i].high]
<1>3. minPrice \in Lows /\ \A x \in Lows : minPrice <= x
  <2>1. Lows \subseteq Nat /\ Lows # {}
    BY <1>1, <1>2
  <2> HIDE DEF Lows
  <2>2. Min(Lows) \in Lows /\ \A x \in Lows : Min(Lows) <= x
    BY <2>1, MinOfSet
  <2> QED
    BY <2>2 DEF minPrice, Lows
<1>4. maxPrice \in Highs /\ \A x \in Highs : x <= maxPrice
  <2>1. Highs \subseteq Nat /\ Highs # {}
    BY <1>1, <1>2
  <2>2. high \in [1 .. Lookback -> Nat]
    BY <1>1
  <2>3. PICK u \in Nat : \A i \in 1 .. Lookback : high[i] <= u
    <3> HIDE DEF high
    <3> QED
      BY <2>2, BoundOfValues, ProfileAssumption
  <2>4. \A x \in Highs : x <= u
    BY <1>1, <2>3
  <2> HIDE DEF Highs
  <2>5. Max(Highs) \in Highs /\ \A x \in Highs : x <= Max(Highs)
    BY <2>1, <2>4, MaxOfSet
  <2> QED
    BY <2>5 DEF maxPrice, Highs
<1>5. minPrice \in Nat /\ maxPrice \in Nat
  BY <1>1, <1>3, <1>4
<1>6. ASSUME NEW i \in 1 .. Lookback
      PROVE  minPrice <= window[i].low /\ window[i].high <= maxPrice
  BY <1>1, <1>3, <1>4
<1>7. minPrice <= maxPrice
  BY <1>1, <1>2, <1>5, <1>6
<1> QED
  BY <1>1, <1>5, <1>6, <1>7

LEMMA BinFacts ==
    ASSUME IsWindow, maxPrice # minPrice, NEW p \in minPrice .. maxPrice
    PROVE  /\ BinOf(p) \in 0 .. Bins
           /\ p < maxPrice => BinOf(p) < Bins
           /\ p = maxPrice => BinOf(p) = Bins
           /\ \A q \in p .. maxPrice : BinOf(p) <= BinOf(q)
<1> DEFINE d == maxPrice - minPrice
<1>1. /\ minPrice \in Nat /\ maxPrice \in Nat /\ d \in Nat \ {0}
      /\ Bins \in Nat \ {0}
  BY PriceRange, ProfileAssumption
<1>2. ASSUME NEW q \in minPrice .. maxPrice
      PROVE  (q - minPrice) * Bins \in Nat /\ BinOf(q) = ((q - minPrice) * Bins) \div d
  <2>1. q - minPrice \in Nat
    BY <1>1
  <2> QED
    BY <1>1, <2>1 DEF BinOf
<1>3. p = maxPrice => BinOf(p) = Bins
  BY <1>1, <1>2, QuotientOfProduct
<1>4. p < maxPrice => BinOf(p) < Bins
  <2> SUFFICES ASSUME p < maxPrice
               PROVE  BinOf(p) < Bins
    OBVIOUS
  <2> DEFINE c == p - minPrice
  <2>1. c \in Nat /\ d - c \in Nat \ {0}
    BY <1>1
  <2> HIDE DEF c, d
  <2>2. (d - c) * Bins \in Nat \ {0}
    BY <1>1, <2>1
  <2>3. d * Bins = c * Bins + (d - c) * Bins /\ c * Bins \in Nat
    BY <1>1, <2>1
  <2>4. c * Bins < d * Bins
    BY <2>2, <2>3
  <2>5. (c * Bins) \div d < Bins
    BY <1>1, <2>3, <2>4, QuotientBelow
  <2> QED
    BY <1>2, <2>5 DEF c
<1>5. BinOf(p) \in Nat
  <2> HIDE DEF d
  <2> QED
    BY <1>1, <1>2, Quotient
<1>6. ASSUME NEW q \in p .. maxPrice
      PROVE  BinOf(p) <= BinOf(q)
  <2>1. q \in minPrice .. maxPrice
    BY <1>1
  <2> DEFINE x == p - minPrice
             y == q - minPrice
  <2>2. x \in Nat /\ y \in Nat /\ x <= y
    BY <1>1, <2>1
  <2> HIDE DEF x, y, d
  <2>3. Bins * x <= Bins * y /\ Bins * x \in Nat /\ Bins * y \in Nat
    BY <1>1, <2>2, ProductsKeepOrder
  <2>4. x * Bins = Bins * x /\ y * Bins = Bins * y
    BY <1>1, <2>2
  <2>5. (x * Bins) \div d <= (y * Bins) \div d
    BY <1>1, <2>3, <2>4, QuotientIsMonotonic
  <2> QED
    BY <1>2, <2>1, <2>5 DEF x, y
<1>7. BinOf(p) \in 0 .. Bins
  BY <1>1, <1>3, <1>4, <1>5
<1> QED
  BY <1>3, <1>4, <1>6, <1>7

-----------------------------------------------------------------------------
(* What the two sums of the model are *)

LEMMA VolumeInBins ==
    ASSUME volAt \in [BinSet -> Nat]
    PROVE  /\ VolumeIn(0, Bins - 1) = PartialSums(volAt, Bins)[Bins]
           /\ \A b \in BinSet : VolumeIn(b, b) = volAt[b]
           /\ \A low, high \in BinSet :
                 /\ high + 1 \in BinSet =>
                       VolumeIn(low, high + 1) = VolumeIn(low, high) + volAt[high + 1]
                 /\ low - 1 \in BinSet =>
                       VolumeIn(low - 1, high) = VolumeIn(low, high) + volAt[low - 1]
<1> DEFINE P == PartialSums(volAt, Bins)
<1>1. Bins \in Nat \ {0}
  BY ProfileAssumption
<1>2. /\ P \in [0 .. Bins -> Nat] /\ P[0] = 0
      /\ \A b \in BinSet : P[b + 1] = P[b] + volAt[b]
  BY <1>1, PartialSumsDef DEF BinSet
<1>3. \A low, high : VolumeIn(low, high) = P[high + 1] - P[low]
  BY DEF VolumeIn
<1> HIDE DEF P
<1>4. \A b \in BinSet : b \in 0 .. Bins /\ b + 1 \in 0 .. Bins /\ volAt[b] \in Nat
  BY <1>1 DEF BinSet
<1>5. \A i \in 0 .. Bins : P[i] \in Nat
  BY <1>2
<1>6. VolumeIn(0, Bins - 1) = P[Bins]
  <2>1. (Bins - 1) + 1 = Bins /\ P[Bins] \in Nat
    BY <1>1, <1>5
  <2> QED
    BY <1>2, <1>3, <2>1
<1>7. ASSUME NEW b \in BinSet
      PROVE  VolumeIn(b, b) = volAt[b]
  BY <1>2, <1>3, <1>4, <1>5
<1>8. ASSUME NEW low \in BinSet, NEW high \in BinSet, high + 1 \in BinSet
      PROVE  VolumeIn(low, high + 1) = VolumeIn(low, high) + volAt[high + 1]
  <2>1. P[(high + 1) + 1] = P[high + 1] + volAt[high + 1]
    BY <1>2, <1>8
  <2>2. P[high + 1] \in Nat /\ P[low] \in Nat /\ volAt[high + 1] \in Nat
    BY <1>4, <1>5, <1>8
  <2> QED
    BY <1>3, <2>1, <2>2
<1>9. ASSUME NEW low \in BinSet, NEW high \in BinSet, low - 1 \in BinSet
      PROVE  VolumeIn(low - 1, high) = VolumeIn(low, high) + volAt[low - 1]
  <2>1. (low - 1) + 1 = low
    BY DEF BinSet
  <2>2. P[low] = P[low - 1] + volAt[low - 1]
    BY <1>2, <1>9, <2>1
  <2>3. P[high + 1] \in Nat /\ P[low - 1] \in Nat /\ volAt[low - 1] \in Nat
    BY <1>4, <1>5, <1>9
  <2> QED
    BY <1>3, <2>2, <2>3
<1> QED
  BY <1>6, <1>7, <1>8, <1>9 DEF P

LEMMA VolumeOfOneMore ==
    ASSUME IsWindow
    PROVE  /\ VolumeOfBars(0) = 0
           /\ \A i \in 1 .. Lookback :
                 VolumeOfBars(i) =
                     VolumeOfBars(i - 1) +
                     (IF window[i].low < maxPrice THEN window[i].volume ELSE 0)
<1> DEFINE counted == [i \in 0 .. Lookback - 1 |->
                          IF window[i + 1].low < maxPrice THEN window[i + 1].volume
                                                          ELSE 0]
           P == PartialSums(counted, Lookback)
<1>1. Lookback \in Nat /\ Volumes \subseteq Nat
  BY ProfileAssumption
<1>2. counted \in [0 .. Lookback - 1 -> Nat]
  <2>1. ASSUME NEW i \in 0 .. Lookback - 1
        PROVE  window[i + 1].volume \in Nat
    <3>1. i + 1 \in 1 .. Lookback
      BY <1>1
    <3> QED
      BY <1>1, <3>1, PriceRange
  <2> QED
    BY <2>1
<1>3. \A n : VolumeOfBars(n) = P[n]
  BY DEF VolumeOfBars
<1>4. \A i \in 1 .. Lookback :
          counted[i - 1] = IF window[i].low < maxPrice THEN window[i].volume ELSE 0
  <2> SUFFICES ASSUME NEW i \in 1 .. Lookback
               PROVE  counted[i - 1] = IF window[i].low < maxPrice
                                       THEN window[i].volume ELSE 0
    OBVIOUS
  <2>1. i - 1 \in 0 .. Lookback - 1 /\ (i - 1) + 1 = i
    BY <1>1
  <2> QED
    BY <2>1
<1> HIDE DEF counted
<1>5. /\ P[0] = 0
      /\ \A i \in 0 .. Lookback - 1 : P[i + 1] = P[i] + counted[i]
  BY <1>1, <1>2, PartialSumsDef
<1> HIDE DEF P
<1>6. ASSUME NEW i \in 1 .. Lookback
      PROVE  P[i] = P[i - 1] + counted[i - 1]
  <2>1. i - 1 \in 0 .. Lookback - 1 /\ (i - 1) + 1 = i
    BY <1>1
  <2> QED
    BY <1>5, <2>1
<1> QED
  BY <1>3, <1>4, <1>5, <1>6

\* The bins have a busiest one.
LEMMA BusiestExists ==
    ASSUME volAt \in [BinSet -> Nat]
    PROVE  Min(Busiest) \in Busiest /\ Min(Busiest) \in BinSet
<1> DEFINE shifted == [i \in 1 .. Bins |-> volAt[i - 1]]
           Values == {volAt[b] : b \in BinSet}
<1>1. Bins \in Nat \ {0}
  BY ProfileAssumption
<1>2. shifted \in [1 .. Bins -> Nat]
  BY <1>1 DEF BinSet
<1>3. PICK u \in Nat : \A i \in 1 .. Bins : shifted[i] <= u
  <2> HIDE DEF shifted
  <2> QED
    BY <1>1, <1>2, BoundOfValues
<1>4. \A b \in BinSet : volAt[b] <= u
  <2> SUFFICES ASSUME NEW b \in BinSet
               PROVE  volAt[b] <= u
    OBVIOUS
  <2>1. b + 1 \in 1 .. Bins /\ (b + 1) - 1 = b
    BY <1>1 DEF BinSet
  <2> QED
    BY <1>3, <2>1
<1>5. Values \subseteq Nat /\ Values # {} /\ \A x \in Values : x <= u
  <2>1. 0 \in BinSet
    BY <1>1 DEF BinSet
  <2> QED
    BY <1>4, <2>1
<1>6. PICK b \in BinSet : volAt[b] = Max(Values)
  <2>1. Max(Values) \in Values
    <3> HIDE DEF Values
    <3> QED
      BY <1>5, MaxOfSet
  <2> QED
    BY <2>1
<1>7. \A x \in Values : x <= Max(Values)
  <2> HIDE DEF Values
  <2> QED
    BY <1>5, MaxOfSet
<1>8. b \in Busiest
  BY <1>6, <1>7 DEF Busiest
<1>9. Busiest \subseteq Nat /\ Busiest \subseteq BinSet
  BY DEF Busiest, BinSet
<1> QED
  BY <1>8, <1>9, MinOfSet

-----------------------------------------------------------------------------
(* The inductive invariant *)

Types ==
    /\ IsWindow
    /\ pc \in {"range", "count", "grow", "done"}
    /\ next \in 1 .. Lookback + 1
    /\ volAt \in [BinSet -> Nat]
    /\ total \in Nat
    /\ acc \in Nat
    /\ pocBin \in BinSet /\ lowBin \in BinSet /\ highBin \in BinSet

\* Before the bars are counted, and for ever in a window without a range, there
\* is nothing in the bins.
EmptyBins ==
    /\ pc = "range" => next = 1 /\ \A b \in BinSet : volAt[b] = 0
    /\ pc = "range" \/ (pc = "done" /\ maxPrice = minPrice) => total = 0 /\ acc = 0
    /\ pc \in {"count", "grow"} => maxPrice # minPrice

ProfileInv == Types /\ EmptyBins /\ EveryBarCounted /\ AreaHoldsTarget

\* One bar goes into the bins from start to end, all of it or not at all.
LEMMA SpreadKeeps ==
    ASSUME Types, NEW start \in 0 .. Bins, NEW end \in BinSet, NEW v \in Volumes,
           Spread(v, start, end)
    PROVE  /\ volAt' \in [BinSet -> Nat]
           /\ total' = total + (IF start <= end THEN v ELSE 0)
           /\ VolumeIn(0, Bins - 1)' =
                  VolumeIn(0, Bins - 1) + (IF start <= end THEN v ELSE 0)
<1> DEFINE n == end - start + 1
           per == IF n > 0 THEN v \div n ELSE 0
<1>1. /\ Bins \in Nat \ {0} /\ v \in Nat
      /\ volAt \in [BinSet -> Nat] /\ total \in Nat
      /\ start \in Nat /\ end \in Nat /\ end < Bins /\ n \in Int
  BY ProfileAssumption DEF Types, BinSet
<1>2. /\ volAt' = [b \in BinSet |-> IF b \in start .. end THEN volAt[b] + per
                                                          ELSE volAt[b]]
      /\ total' = total + per * Cardinality(start .. end)
  BY DEF Spread
<1>3. Cardinality(start .. end) = IF start > end THEN 0 ELSE n
  BY <1>1, FS_Interval
<1>4. CASE start <= end
  <2>1. n \in 1 .. Bins /\ n \in Nat \ {0} /\ ~ (start > end) /\ n > 0
    BY <1>1, <1>4
  <2>2. v % n = 0
    BY <2>1, ProfileAssumption
  <2> HIDE DEF n
  <2>3. per \in Nat /\ per * n = v
    BY <1>1, <2>1, <2>2, SharesAddUp
  <2> HIDE DEF per
  <2>4. volAt' \in [BinSet -> Nat]
    BY <1>1, <1>2, <2>3
  <2>5. total' = total + v
    BY <1>2, <1>3, <2>1, <2>3
  <2>6. PartialSums(volAt', Bins)[Bins] = PartialSums(volAt, Bins)[Bins] + per * n
    <3>1. start \in 0 .. Bins - 1 /\ end \in start .. Bins - 1
      BY <1>1, <1>4
    <3>2. \A b \in 0 .. Bins - 1 :
              volAt'[b] = IF b \in start .. end THEN volAt[b] + per ELSE volAt[b]
      BY <1>2 DEF BinSet
    <3>3. /\ volAt \in [0 .. Bins - 1 -> Nat] /\ volAt' \in [0 .. Bins - 1 -> Nat]
          /\ Bins \in Nat /\ per \in Nat
      BY <1>1, <2>3, <2>4 DEF BinSet
    <3>4. Raised(volAt', volAt, Bins, start, end, per)
      BY <3>1, <3>2, <3>3 DEF Raised
    <3>5. PartialSums(volAt', Bins)[Bins] =
              PartialSums(volAt, Bins)[Bins] + per * (end - start + 1)
      BY <3>4, RaisedSum
    <3> QED
      BY <3>5 DEF n
  <2>7. VolumeIn(0, Bins - 1) = PartialSums(volAt, Bins)[Bins]
    BY <1>1, VolumeInBins
  <2>8. VolumeIn(0, Bins - 1)' = PartialSums(volAt', Bins)[Bins]
    <3>1. VolumeIn(0, Bins - 1)' =
              PartialSums(volAt', Bins)[(Bins - 1) + 1] - PartialSums(volAt', Bins)[0]
      BY DEF VolumeIn
    <3>2. /\ PartialSums(volAt', Bins)[0] = 0
          /\ PartialSums(volAt', Bins) \in [0 .. Bins -> Nat]
      BY <1>1, <2>4, PartialSumsDef DEF BinSet
    <3>3. (Bins - 1) + 1 = Bins /\ PartialSums(volAt', Bins)[Bins] \in Nat
      BY <1>1, <3>2
    <3> QED
      BY <3>1, <3>2, <3>3
  <2> QED
    BY <1>4, <2>3, <2>4, <2>5, <2>6, <2>7, <2>8
<1>5. CASE ~ (start <= end)
  <2>1. ~ (n > 0) /\ start > end /\ start .. end = {}
    BY <1>1, <1>5
  <2>2. volAt' = volAt
    BY <1>1, <1>2, <2>1
  <2>3. per = 0
    BY <2>1
  <2>4. total' = total
    BY <1>1, <1>2, <1>3, <2>1, <2>3
  <2>5. VolumeIn(0, Bins - 1)' = VolumeIn(0, Bins - 1)
    BY <2>2 DEF VolumeIn
  <2>6. VolumeIn(0, Bins - 1) \in Nat
    <3>1. PartialSums(volAt, Bins) \in [0 .. Bins -> Nat]
      BY <1>1, PartialSumsDef DEF BinSet
    <3>2. PartialSums(volAt, Bins)[Bins] \in Nat
      BY <1>1, <3>1
    <3> QED
      BY <1>1, <3>2, VolumeInBins
  <2> QED
    BY <1>1, <1>5, <2>2, <2>4, <2>5, <2>6
<1> QED
  BY <1>4, <1>5

LEMMA InitInv == Init => ProfileInv
<1> SUFFICES ASSUME Init
             PROVE  ProfileInv
  OBVIOUS
<1>1. Types
  BY ProfileAssumption DEF Init, Types, IsWindow, BinSet
<1>2. EmptyBins
  BY DEF Init, EmptyBins
<1>3. EveryBarCounted /\ AreaHoldsTarget
  <2>1. pc = "range"
    BY DEF Init
  <2> QED
    BY <2>1 DEF EveryBarCounted, AreaHoldsTarget
<1> QED
  BY <1>1, <1>2, <1>3 DEF ProfileInv

\* The window, and so its range, stays.
LEMMA WindowStays ==
    ASSUME window' = window
    PROVE  /\ minPrice' = minPrice /\ maxPrice' = maxPrice
           /\ IsWindow' <=> IsWindow
           /\ \A n : VolumeOfBars(n)' = VolumeOfBars(n)
           /\ volAt' = volAt =>
                 /\ Busiest' = Busiest
                 /\ \A low, high : VolumeIn(low, high)' = VolumeIn(low, high)
BY DEF minPrice, maxPrice, IsWindow, VolumeOfBars, VolumeIn, Busiest

LEMMA CountKeeps == ProfileInv /\ Count => ProfileInv'
<1> SUFFICES ASSUME ProfileInv, Count
             PROVE  ProfileInv'
  OBVIOUS
<1> DEFINE low == window[next].low
           high == window[next].high
           v == window[next].volume
           start == BinOf(low)
           top == BinOf(high)
           end == IF top >= Bins THEN Bins - 1 ELSE top
           added == IF start <= end THEN v ELSE 0
<1>1. /\ pc = "count" /\ pc' = "count"
      /\ next' = next + 1
      /\ UNCHANGED <<window, pocBin, lowBin, highBin, acc>>
      /\ Spread(v, start, end)
  BY DEF Count, area
<1>2. /\ Types /\ maxPrice # minPrice
      /\ next \in 1 .. Lookback
      /\ VolumeIn(0, Bins - 1) = total
      /\ total = VolumeOfBars(next - 1)
  <2>1. next <= Lookback /\ next \in 1 .. Lookback + 1 /\ Lookback \in Nat
    BY ProfileAssumption DEF Count, ProfileInv, Types
  <2>2. next \in 1 .. Lookback
    BY <2>1
  <2> QED
    BY <1>1, <2>2 DEF ProfileInv, EmptyBins, EveryBarCounted
<1>3. /\ minPrice \in Nat /\ maxPrice \in Nat /\ low \in Nat /\ high \in Nat
      /\ v \in Volumes
      /\ minPrice <= low /\ low <= high /\ high <= maxPrice
  BY <1>2, PriceRange DEF Types
<1> HIDE DEF low, high, v
<1>4. /\ start \in 0 .. Bins /\ top \in 0 .. Bins /\ start <= top
      /\ low < maxPrice => start < Bins
      /\ low = maxPrice => start = Bins
  <2>1. low \in minPrice .. maxPrice /\ high \in minPrice .. maxPrice /\ high \in low .. maxPrice
    BY <1>3
  <2> QED
    BY <1>2, <2>1, BinFacts DEF Types
<1> HIDE DEF start, top
<1>5. end \in BinSet /\ (start <= end <=> low < maxPrice)
  BY <1>3, <1>4, ProfileAssumption DEF BinSet
<1> HIDE DEF end
<1>6. /\ volAt' \in [BinSet -> Nat]
      /\ total' = total + added
      /\ VolumeIn(0, Bins - 1)' = VolumeIn(0, Bins - 1) + added
  BY <1>1, <1>2, <1>3, <1>4, <1>5, SpreadKeeps
<1>7. Types'
  <2>1. total' \in Nat
    BY <1>2, <1>3, <1>6, ProfileAssumption DEF Types
  <2>2. next' \in 1 .. Lookback + 1
    BY <1>1, <1>2, ProfileAssumption
  <2>3. IsWindow'
    BY <1>1, <1>2, WindowStays DEF Types
  <2> QED
    BY <1>1, <1>2, <1>6, <2>1, <2>2, <2>3 DEF Types
<1>8. EmptyBins'
  BY <1>1, <1>2, WindowStays DEF EmptyBins
<1>9. EveryBarCounted'
  <2>1. VolumeOfBars(next) = VolumeOfBars(next - 1) + added
    BY <1>2, <1>5, VolumeOfOneMore DEF Types, low, v
  <2>2. next' - 1 = next
    BY <1>1, <1>2
  <2>3. VolumeOfBars(next - 1)' = VolumeOfBars(next)
    BY <1>1, <2>2 DEF VolumeOfBars, maxPrice
  <2> HIDE DEF added
  <2>4. VolumeIn(0, Bins - 1)' = total'
    BY <1>2, <1>6
  <2>5. total' = VolumeOfBars(next - 1)'
    BY <1>2, <1>6, <2>1, <2>3
  <2> QED
    BY <2>4, <2>5 DEF EveryBarCounted
<1>10. AreaHoldsTarget'
  BY <1>1 DEF AreaHoldsTarget
<1> QED
  BY <1>7, <1>8, <1>9, <1>10 DEF ProfileInv

LEMMA RangeKeeps == ProfileInv /\ (Flat \/ Ranged) => ProfileInv'
<1> SUFFICES ASSUME ProfileInv, Flat \/ Ranged
             PROVE  ProfileInv'
  OBVIOUS
<1>1. /\ pc = "range" /\ pc' \in {"count", "done"}
      /\ pc' = "done" <=> maxPrice = minPrice
      /\ UNCHANGED <<window, next, volAt, total, pocBin, lowBin, highBin, acc>>
  BY DEF Flat, Ranged, area
<1>2. /\ Types
      /\ next = 1 /\ total = 0 /\ acc = 0
      /\ \A b \in BinSet : volAt[b] = 0
  BY <1>1 DEF ProfileInv, EmptyBins
<1>3. /\ minPrice' = minPrice /\ maxPrice' = maxPrice
      /\ IsWindow'
      /\ \A n : VolumeOfBars(n)' = VolumeOfBars(n)
  BY <1>1, <1>2, WindowStays DEF Types
<1>4. Types'
  BY <1>1, <1>2, <1>3 DEF Types
<1>5. EmptyBins'
  BY <1>1, <1>2, <1>3 DEF EmptyBins
<1>6. EveryBarCounted'
  <2>1. VolumeIn(0, Bins - 1) = 0
    <3>1. PartialSums(volAt, Bins)[Bins] = 0
      BY <1>2, ZeroSums, ProfileAssumption DEF Types, BinSet
    <3> QED
      BY <1>2, <3>1, VolumeInBins DEF Types
  <2>2. VolumeOfBars(0) = 0
    BY <1>2, VolumeOfOneMore DEF Types
  <2>3. VolumeIn(0, Bins - 1)' = 0
    BY <1>1, <2>1, WindowStays
  <2>4. VolumeOfBars(next - 1)' = 0
    <3>1. next' - 1 = 0
      BY <1>1, <1>2
    <3>2. VolumeOfBars(next - 1)' = VolumeOfBars(0)
      BY <1>1, <3>1 DEF VolumeOfBars, maxPrice
    <3> QED
      BY <2>2, <3>2
  <2> QED
    BY <1>1, <1>2, <2>3, <2>4 DEF EveryBarCounted
<1>7. AreaHoldsTarget'
  BY <1>1, <1>2, <1>3 DEF AreaHoldsTarget, HoldsTarget
<1> QED
  BY <1>4, <1>5, <1>6, <1>7 DEF ProfileInv

\* A step that leaves window, bars and bins alone.
LEMMA CountsStay ==
    ASSUME EveryBarCounted, pc \in {"count", "grow"},
           UNCHANGED <<window, next, volAt, total>>
    PROVE  EveryBarCounted'
BY DEF EveryBarCounted, VolumeIn, VolumeOfBars, maxPrice

LEMMA PointOfControlKeeps == ProfileInv /\ PointOfControl => ProfileInv'
<1> SUFFICES ASSUME ProfileInv, PointOfControl
             PROVE  ProfileInv'
  OBVIOUS
<1>1. /\ pc = "count" /\ pc' = "grow"
      /\ pocBin' = Min(Busiest) /\ lowBin' = pocBin' /\ highBin' = pocBin'
      /\ acc' = volAt[pocBin']
      /\ UNCHANGED <<window, next, volAt, total>>
  BY DEF PointOfControl
<1>2. Types /\ maxPrice # minPrice
  BY <1>1 DEF ProfileInv, EmptyBins
<1>3. pocBin' \in Busiest /\ pocBin' \in BinSet
  BY <1>1, <1>2, BusiestExists DEF Types
<1>4. /\ minPrice' = minPrice /\ maxPrice' = maxPrice
      /\ IsWindow'
      /\ Busiest' = Busiest
  BY <1>1, <1>2, WindowStays DEF Types
<1>5. Types'
  BY <1>1, <1>2, <1>3, <1>4 DEF Types
<1>6. EmptyBins'
  BY <1>1, <1>2, <1>4 DEF EmptyBins
<1>7. EveryBarCounted'
  BY <1>1, CountsStay DEF ProfileInv
<1>8. AreaHoldsTarget'
  <2>1. VolumeIn(lowBin, highBin)' = VolumeIn(pocBin', pocBin')
    BY <1>1 DEF VolumeIn
  <2>2. VolumeIn(pocBin', pocBin') = volAt[pocBin']
    BY <1>2, <1>3, VolumeInBins DEF Types
  <2>3. pocBin' \in lowBin' .. highBin' /\ lowBin' .. highBin' \subseteq BinSet
    BY <1>1, <1>3 DEF BinSet
  <2> QED
    BY <1>1, <1>3, <1>4, <2>1, <2>2, <2>3 DEF AreaHoldsTarget
<1> QED
  BY <1>5, <1>6, <1>7, <1>8 DEF ProfileInv

LEMMA StopKeeps == ProfileInv /\ (GrowDone \/ GrowStuck) => ProfileInv'
<1> SUFFICES ASSUME ProfileInv, GrowDone \/ GrowStuck
             PROVE  ProfileInv'
  OBVIOUS
<1>1. /\ pc = "grow" /\ pc' = "done"
      /\ UNCHANGED <<window, next, volAt, total, pocBin, lowBin, highBin, acc>>
      /\ HoldsTarget \/ (lowVol = 0 /\ highVol = 0)
  BY DEF GrowDone, GrowStuck, Growing, Stops, area
<1>2. /\ minPrice' = minPrice /\ maxPrice' = maxPrice
      /\ IsWindow' <=> IsWindow
      /\ Busiest' = Busiest
      /\ VolumeIn(lowBin, highBin)' = VolumeIn(lowBin, highBin)
      /\ HoldsTarget' <=> HoldsTarget
      /\ lowVol' = lowVol /\ highVol' = highVol
  BY <1>1, WindowStays DEF VolumeIn, HoldsTarget, lowVol, highVol, VolumeOf
<1>3. Types'
  BY <1>1, <1>2 DEF ProfileInv, Types
<1>4. EmptyBins'
  BY <1>1, <1>2 DEF ProfileInv, EmptyBins
<1>5. EveryBarCounted'
  BY <1>1 DEF EveryBarCounted
<1>6. AreaHoldsTarget'
  <2>1. /\ pocBin \in Busiest /\ pocBin \in lowBin .. highBin
        /\ lowBin .. highBin \subseteq BinSet
        /\ acc = VolumeIn(lowBin, highBin)
    BY <1>1 DEF ProfileInv, AreaHoldsTarget
  <2> QED
    BY <1>1, <1>2, <2>1 DEF AreaHoldsTarget
<1> QED
  BY <1>3, <1>4, <1>5, <1>6 DEF ProfileInv

LEMMA GrowKeeps == ProfileInv /\ (GrowHigh \/ GrowLow) => ProfileInv'
<1> SUFFICES ASSUME ProfileInv, GrowHigh \/ GrowLow
             PROVE  ProfileInv'
  OBVIOUS
<1>1. /\ pc = "grow" /\ pc' = "grow"
      /\ UNCHANGED <<window, next, volAt, total, pocBin>>
  BY DEF GrowHigh, GrowLow, Growing
<1>2. /\ Types /\ maxPrice # minPrice
      /\ volAt \in [BinSet -> Nat]
      /\ pocBin \in Busiest /\ pocBin \in lowBin .. highBin
      /\ acc = VolumeIn(lowBin, highBin)
  BY <1>1 DEF ProfileInv, EmptyBins, AreaHoldsTarget, Types
<1>3. Bins \in Nat /\ acc \in Nat /\ lowBin \in BinSet /\ highBin \in BinSet /\ pocBin \in BinSet
  BY <1>2, ProfileAssumption DEF Types
<1>4. /\ minPrice' = minPrice /\ maxPrice' = maxPrice
      /\ IsWindow' <=> IsWindow
      /\ Busiest' = Busiest
      /\ \A low, high : VolumeIn(low, high)' = VolumeIn(low, high)
  BY <1>1, WindowStays
<1>5. /\ lowBin' \in BinSet /\ highBin' \in BinSet
      /\ pocBin \in lowBin' .. highBin'
      /\ acc' \in Nat /\ acc' = VolumeIn(lowBin', highBin')
  <2>1. CASE GrowHigh
    <3>1. /\ highBin' = highBin + 1 /\ lowBin' = lowBin
          /\ highBin + 1 < Bins
          /\ acc' = acc + highVol
      BY <2>1 DEF GrowHigh
    <3>2. highBin + 1 \in BinSet
      BY <1>3, <3>1 DEF BinSet
    <3>3. highVol = volAt[highBin + 1] /\ highVol \in Nat
      BY <1>2, <3>2 DEF highVol, VolumeOf
    <3>4. VolumeIn(lowBin, highBin + 1) = VolumeIn(lowBin, highBin) + volAt[highBin + 1]
      BY <1>2, <1>3, <3>2, VolumeInBins
    <3>5. pocBin \in lowBin .. highBin + 1
      BY <1>2, <1>3 DEF BinSet
    <3> QED
      BY <1>2, <1>3, <3>1, <3>2, <3>3, <3>4, <3>5
  <2>2. CASE GrowLow
    <3>1. /\ lowBin' = lowBin - 1 /\ highBin' = highBin
          /\ lowBin > 0
          /\ acc' = acc + lowVol
      BY <2>2 DEF GrowLow
    <3>2. lowBin - 1 \in BinSet
      BY <1>3, <3>1 DEF BinSet
    <3>3. lowVol = volAt[lowBin - 1] /\ lowVol \in Nat
      BY <1>2, <3>2 DEF lowVol, VolumeOf
    <3>4. VolumeIn(lowBin - 1, highBin) = VolumeIn(lowBin, highBin) + volAt[lowBin - 1]
      BY <1>2, <1>3, <3>2, VolumeInBins
    <3>5. pocBin \in lowBin - 1 .. highBin
      BY <1>2, <1>3 DEF BinSet
    <3> QED
      BY <1>2, <1>3, <3>1, <3>2, <3>3, <3>4, <3>5
  <2> QED
    BY <2>1, <2>2
<1>6. Types'
  BY <1>1, <1>2, <1>4, <1>5 DEF Types
<1>7. EmptyBins'
  BY <1>1, <1>2, <1>4 DEF EmptyBins
<1>8. EveryBarCounted'
  BY <1>1, CountsStay DEF ProfileInv
<1>9. AreaHoldsTarget'
  <2>1. VolumeIn(lowBin, highBin)' = VolumeIn(lowBin', highBin')
    BY <1>1 DEF VolumeIn
  <2>2. lowBin' .. highBin' \subseteq BinSet
    BY <1>3, <1>5 DEF BinSet
  <2> QED
    BY <1>1, <1>2, <1>4, <1>5, <2>1, <2>2 DEF AreaHoldsTarget
<1> QED
  BY <1>6, <1>7, <1>8, <1>9 DEF ProfileInv

LEMMA NextInv == ProfileInv /\ [Next]_vars => ProfileInv'
<1> SUFFICES ASSUME ProfileInv, [Next]_vars
             PROVE  ProfileInv'
  OBVIOUS
<1>1. CASE UNCHANGED vars
  BY <1>1 DEF ProfileInv, Types, EmptyBins, EveryBarCounted, AreaHoldsTarget, IsWindow,
              minPrice, maxPrice, Busiest, VolumeIn, VolumeOfBars, VolumeOf, lowVol,
              highVol, HoldsTarget, vars, area
<1> QED
  BY <1>1, RangeKeeps, CountKeeps, PointOfControlKeeps, StopKeeps, GrowKeeps
  DEF Next, Returned

THEOREM ProfileSafe == Spec => []ProfileInv
BY InitInv, NextInv, PTL DEF Spec

\* ta.go:634-648, for every number of bins, length of the window, and volumes
\* that can be divided: what is in the bins is the volume of the bars counted
\* so far, except of those whose low is the window's high.
THEOREM NoBarIsLost == Spec => []EveryBarCounted
<1>1. ProfileInv => EveryBarCounted
  BY DEF ProfileInv
<1> QED
  BY <1>1, ProfileSafe, PTL

\* ta.go:649-681: the value area is a run of bins that exist, around a busiest
\* one, and acc is what they hold; it ends below its target only where it
\* cannot gain.
THEOREM AreaIsAroundBusiest == Spec => []AreaHoldsTarget
<1>1. ProfileInv => AreaHoldsTarget
  BY DEF ProfileInv
<1> QED
  BY <1>1, ProfileSafe, PTL

\* What one more round of the loop of ta.go:659-681 can do: it stops or it grows,
\* for the guards of the four leave no case out.
GrowthGoesOn ==
    pc = "grow" =>
        \/ HoldsTarget
        \/ lowVol = 0 /\ highVol = 0
        \/ highBin + 1 < Bins /\ (highVol >= lowVol \/ lowBin = 0)
        \/ lowBin > 0 /\ (highVol < lowVol \/ highBin + 1 = Bins)

\* The loop never goes round without growing, which would be for ever.
THEOREM NoIdleRound == Spec => []GrowthGoesOn
<1>1. ProfileInv => GrowthGoesOn
  <2> SUFFICES ASSUME ProfileInv, lowVol # 0 \/ highVol # 0
               PROVE  \/ highBin + 1 < Bins /\ (highVol >= lowVol \/ lowBin = 0)
                      \/ lowBin > 0 /\ (highVol < lowVol \/ highBin + 1 = Bins)
    BY DEF GrowthGoesOn
  <2>1. /\ Bins \in Nat /\ lowBin \in 0 .. Bins - 1 /\ highBin \in 0 .. Bins - 1
        /\ volAt \in [BinSet -> Nat]
    BY ProfileAssumption DEF ProfileInv, Types, BinSet
  <2>2. /\ lowVol \in Nat /\ highVol \in Nat
        /\ lowBin = 0 => lowVol = 0
        /\ highBin + 1 = Bins => highVol = 0
    BY <2>1 DEF lowVol, highVol, VolumeOf, BinSet
  <2> QED
    BY <2>1, <2>2
<1> QED
  BY <1>1, ProfileSafe, PTL
===============================================================================
