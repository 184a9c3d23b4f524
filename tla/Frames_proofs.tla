---------------------------- MODULE Frames_proofs ----------------------------
(***************************************************************************)
(* Proofs about Frames, for every set of separable bodies, all declared    *)
(* lengths and batches of any size: what decodeFrames returns, when it     *)
(* panics, and what is sent back to a heartbeat.                           *)
(***************************************************************************)
EXTENDS Frames, SequenceTheorems, WellFoundedInduction, TLAPS

Chars == {"~", "m", "h", "-"} \cup Range(Digits) \cup UNION {Range(b) : b \in Bodies}
Text  == Seq(Chars)

-----------------------------------------------------------------------------
(* Numbers *)

LEMMA LeastElement ==
    ASSUME NEW T, T \subseteq Nat, T # {}
    PROVE  Min(T) \in T /\ \A x \in T : Min(T) <= x
<1> DEFINE R == OpToRel(<, Nat)
<1>1. IsWellFoundedOn(R, Nat)
  BY NatLessThanWellFounded
<1>2. \A m, k \in Nat : k < m => <<k, m>> \in R
  BY DEF OpToRel
<1> HIDE DEF R
<1>3. PICK m \in T : \A k \in T : ~ (<<k, m>> \in R)
  BY <1>1, WFMin
<1>4. ASSUME NEW k \in T
      PROVE  m <= k
  <2>1. m \in Nat /\ k \in Nat
    OBVIOUS
  <2>2. ~ (k < m)
    BY <1>2, <1>3, <2>1
  <2> QED
    BY <2>1, <2>2
<1> QED
  BY <1>4 DEF Min

\* Induction from 1 up to m, over the set of what has been reached.
LEMMA InductionTo ==
    ASSUME NEW m \in Nat, NEW T, m >= 1 => 1 \in T,
           \A i \in 1 .. m - 1 : i \in T => i + 1 \in T
    PROVE  \A i \in 1 .. m : i \in T
<1> SUFFICES ASSUME NEW j \in 1 .. m, j \notin T
             PROVE  FALSE
  OBVIOUS
<1> DEFINE U == {i \in 1 .. m : i \notin T}
           u == Min(U)
<1>1. u \in U /\ \A i \in U : u <= i
  <2>1. U \subseteq Nat /\ j \in U
    OBVIOUS
  <2> HIDE DEF U
  <2> QED
    BY <2>1, LeastElement
<1> HIDE DEF u
<1>2. u \in 1 .. m /\ u \notin T /\ u # 1
  BY <1>1
<1>3. u - 1 \in 1 .. m - 1 /\ u - 1 \in 1 .. m /\ ~ (u <= u - 1) /\ (u - 1) + 1 = u
  BY <1>2
<1>4. u - 1 \in T
  BY <1>1, <1>3
<1> QED
  BY <1>2, <1>3, <1>4

-----------------------------------------------------------------------------
(* Characters *)

LEMMA Literals ==
    /\ Marker \in Text /\ Len(Marker) = 3
    /\ Marker[1] = "~" /\ Marker[2] = "m" /\ Marker[3] = "~"
    /\ Tag \in Text /\ Len(Tag) = 3
    /\ Tag[1] = "~" /\ Tag[2] = "h" /\ Tag[3] = "~"
BY DEF Marker, Tag, Text, Chars

LEMMA DigitFacts ==
    \A i \in 1 .. 10 : /\ Digits[i] \in Chars
                       /\ Digits[i] \notin {"~", "m", "h", "-"}
                       /\ \A j \in 1 .. 10 : Digits[i] = Digits[j] => i = j
<1>1. \A i \in 1 .. 10 : Digits[i] \in Chars
  <2>1. DOMAIN Digits = 1 .. 10
    BY DEF Digits
  <2> QED
    BY <2>1 DEF Chars, Range
<1>2. \A i \in 1 .. 10 : Digits[i] \notin {"~", "m", "h", "-"}
  BY DEF Digits
<1>3. \A i, j \in 1 .. 10 : Digits[i] = Digits[j] => i = j
  BY DEF Digits
<1> QED
  BY <1>1, <1>2, <1>3

\* A length is written without any character of a marker, and with a sign
\* exactly if it is negative; no two lengths are written alike.
LEMMA DecimalFacts ==
    ASSUME NEW k \in -9 .. 9
    PROVE  /\ Decimal(k) \in Text
           /\ Len(Decimal(k)) \in 1 .. 2
           /\ \A i \in 1 .. Len(Decimal(k)) : Decimal(k)[i] \notin {"~", "m", "h"}
           /\ k < 0 <=> Decimal(k)[1] = "-"
           /\ \A i \in 2 .. Len(Decimal(k)) : Decimal(k)[i] # "-"
<1>1. CASE k < 0
  <2>1. Decimal(k) = <<"-", Digits[1 - k]>> /\ 1 - k \in 1 .. 10
    BY <1>1 DEF Decimal
  <2>2. PICK d \in Chars \ {"~", "m", "h", "-"} : Decimal(k) = <<"-", d>>
    BY <2>1, DigitFacts
  <2> QED
    BY <1>1, <2>2 DEF Text, Chars
<1>2. CASE k >= 0
  <2>1. Decimal(k) = <<Digits[k + 1]>> /\ k + 1 \in 1 .. 10
    BY <1>2 DEF Decimal
  <2>2. PICK d \in Chars \ {"~", "m", "h", "-"} : Decimal(k) = <<d>>
    BY <2>1, DigitFacts
  <2> QED
    BY <1>2, <2>2 DEF Text
<1> QED
  BY <1>1, <1>2

LEMMA SameTuple ==
    \A a, b, c, d : (<<a>> = <<b>> => a = b) /\ (<<a, b>> = <<c, d>> => b = d)
OBVIOUS

LEMMA DecimalInjective ==
    ASSUME NEW k \in -9 .. 9, NEW j \in -9 .. 9, Decimal(k) = Decimal(j)
    PROVE  k = j
<1>1. k < 0 <=> j < 0
  BY DecimalFacts
<1>2. CASE k < 0
  <2>1. /\ Decimal(k) = <<"-", Digits[1 - k]>> /\ 1 - k \in 1 .. 10
        /\ Decimal(j) = <<"-", Digits[1 - j]>> /\ 1 - j \in 1 .. 10
    BY <1>1, <1>2 DEF Decimal
  <2>2. Digits[1 - k] = Digits[1 - j]
    <3>1. <<"-", Digits[1 - k]>> = <<"-", Digits[1 - j]>>
      BY <2>1
    <3> QED
      BY <3>1, SameTuple, Zenon
  <2>3. 1 - k = 1 - j
    BY <2>1, <2>2, DigitFacts
  <2> QED
    BY <2>3
<1>3. CASE k >= 0
  <2>1. /\ Decimal(k) = <<Digits[k + 1]>> /\ k + 1 \in 1 .. 10
        /\ Decimal(j) = <<Digits[j + 1]>> /\ j + 1 \in 1 .. 10
    BY <1>1, <1>3 DEF Decimal
  <2>2. Digits[k + 1] = Digits[j + 1]
    BY <2>1, SameTuple
  <2>3. k + 1 = j + 1
    BY <2>1, <2>2, DigitFacts
  <2> QED
    BY <2>3
<1> QED
  BY <1>2, <1>3

-----------------------------------------------------------------------------
(* Where a string occurs *)

LEMMA OccurrenceIs ==
    ASSUME NEW s \in Text, NEW t \in Text, s # <<>>, NEW i \in Int
    PROVE  i \in Occurrences(s, t) <=>
              /\ i \in 1 .. Len(t) - Len(s) + 1
              /\ \A j \in 1 .. Len(s) : t[i + j - 1] = s[j]
<1>1. Len(s) \in Nat \ {0} /\ Len(t) \in Nat
  BY LenProperties, EmptySeq DEF Text
<1>2. SUFFICES ASSUME i \in 1 .. Len(t) - Len(s) + 1
               PROVE  SubSeq(t, i, i + Len(s) - 1) = s
                         <=> \A j \in 1 .. Len(s) : t[i + j - 1] = s[j]
  BY <1>1 DEF Occurrences
<1> DEFINE l == i + Len(s) - 1
           u == SubSeq(t, i, l)
<1>3. \A j \in i .. l : t[j] \in Chars
  <2>1. \A j \in i .. l : j \in 1 .. Len(t)
    BY <1>1, <1>2
  <2> QED
    BY <2>1, ElementOfSeq DEF Text
<1>4. /\ u \in Text /\ Len(u) = Len(s)
      /\ \A j \in 1 .. Len(s) : u[j] = t[i + j - 1]
  <2>1. l \in Int /\ i <= l /\ l - i + 1 = Len(s)
    BY <1>1
  <2> HIDE DEF l
  <2> QED
    BY <1>3, <2>1, SubSeqProperties DEF Text
<1> HIDE DEF u
<1> QED
  BY <1>4, SeqEqual DEF Text, u

LEMMA LeastOccurrence ==
    ASSUME NEW s \in Text, NEW t \in Text, NEW i \in Occurrences(s, t),
           \A j \in Occurrences(s, t) : i <= j
    PROVE  Min(Occurrences(s, t)) = i
<1>1. Occurrences(s, t) \subseteq Int
  BY DEF Occurrences
<1> DEFINE O == Occurrences(s, t)
           m == Min(O)
<1>2. m \in O /\ \A j \in O : m <= j
  <2>1. \E l \in O : \A j \in O : l <= j
    OBVIOUS
  <2> HIDE DEF O
  <2> QED
    BY <2>1 DEF Min
<1> HIDE DEF m
<1>3. m \in Int /\ i \in Int /\ i <= m /\ m <= i
  BY <1>1, <1>2
<1> QED
  BY <1>3 DEF m

\* A text cut in two.
LEMMA CutText ==
    ASSUME NEW t \in Text, NEW k \in 0 .. Len(t)
    PROVE  /\ SubSeq(t, 1, k) \in Text
           /\ Len(SubSeq(t, 1, k)) = k
           /\ \A i \in 1 .. k : SubSeq(t, 1, k)[i] = t[i]
           /\ From(t, k + 1) \in Text
           /\ Len(From(t, k + 1)) = Len(t) - k
           /\ \A i \in 1 .. Len(t) - k : From(t, k + 1)[i] = t[k + i]
<1>1. Len(t) \in Nat /\ \A i \in 1 .. Len(t) : t[i] \in Chars
  BY LenProperties, ElementOfSeq DEF Text
<1>2. \A i \in 1 .. k : t[i] \in Chars
  BY <1>1
<1>3. \A i \in k + 1 .. Len(t) : t[i] \in Chars
  BY <1>1
<1>4. /\ SubSeq(t, 1, k) \in Text
      /\ Len(SubSeq(t, 1, k)) = k
      /\ \A i \in 1 .. k : SubSeq(t, 1, k)[i] = t[i]
  BY <1>1, <1>2, SubSeqProperties DEF Text
<1>5. /\ From(t, k + 1) \in Text
      /\ Len(From(t, k + 1)) = Len(t) - k
      /\ \A i \in 1 .. Len(t) - (k + 1) + 1 : From(t, k + 1)[i] = t[(k + 1) + i - 1]
  BY <1>1, <1>3, SubSeqProperties DEF From, Text
<1>6. ASSUME NEW i \in 1 .. Len(t) - k
      PROVE  From(t, k + 1)[i] = t[k + i]
  <2>1. i \in 1 .. Len(t) - (k + 1) + 1 /\ (k + 1) + i - 1 = k + i
    BY <1>1
  <2> QED
    BY <1>5, <2>1
<1> QED
  BY <1>4, <1>5, <1>6

LEMMA JoinText ==
    ASSUME NEW x \in Text, NEW y \in Text
    PROVE  /\ x \o y \in Text
           /\ Len(x) \in Nat /\ Len(y) \in Nat
           /\ Len(x \o y) = Len(x) + Len(y)
           /\ \A i \in 1 .. Len(x) : (x \o y)[i] = x[i]
           /\ \A i \in 1 .. Len(y) : (x \o y)[Len(x) + i] = y[i]
<1>1. Len(x) \in Nat /\ Len(y) \in Nat
  BY LenProperties DEF Text
<1>2. /\ x \o y \in Text
      /\ Len(x \o y) = Len(x) + Len(y)
      /\ \A i \in 1 .. Len(x) + Len(y) : (x \o y)[i] =
            IF i <= Len(x) THEN x[i] ELSE y[i - Len(x)]
  BY ConcatProperties DEF Text
<1> DEFINE z == x \o y
<1> HIDE DEF z
<1>3. /\ Len(z) = Len(x) + Len(y)
      /\ \A i \in 1 .. Len(x) + Len(y) : z[i] =
            IF i <= Len(x) THEN x[i] ELSE y[i - Len(x)]
  BY <1>2 DEF z
<1>4. \A i \in 1 .. Len(x) : z[i] = x[i]
  BY <1>1, <1>3
<1>5. ASSUME NEW i \in 1 .. Len(y)
      PROVE  z[Len(x) + i] = y[i]
  <2>1. /\ Len(x) + i \in 1 .. Len(x) + Len(y)
        /\ ~ (Len(x) + i <= Len(x))
        /\ (Len(x) + i) - Len(x) = i
    BY <1>1
  <2> QED
    BY <1>3, <2>1
<1> QED
  BY <1>1, <1>2, <1>4, <1>5 DEF z

LEMMA Regroup ==
    \A one, two, three \in Text : (one \o two) \o three = one \o (two \o three)
BY ConcatAssociative DEF Text

LEMMA Unjoin ==
    ASSUME NEW x \in Text, NEW y \in Text
    PROVE  SubSeq(x \o y, 1, Len(x)) = x /\ From(x \o y, Len(x) + 1) = y
<1> DEFINE z == x \o y
<1>1. /\ z \in Text /\ Len(x) \in 0 .. Len(z) /\ Len(z) - Len(x) = Len(y)
      /\ Len(x) \in Nat /\ Len(y) \in Nat
      /\ \A i \in 1 .. Len(x) : z[i] = x[i]
      /\ \A i \in 1 .. Len(y) : z[Len(x) + i] = y[i]
  BY JoinText
<1> HIDE DEF z
<1>2. /\ SubSeq(z, 1, Len(x)) \in Text
      /\ Len(SubSeq(z, 1, Len(x))) = Len(x)
      /\ \A i \in 1 .. Len(x) : SubSeq(z, 1, Len(x))[i] = x[i]
      /\ From(z, Len(x) + 1) \in Text
      /\ Len(From(z, Len(x) + 1)) = Len(y)
      /\ \A i \in 1 .. Len(y) : From(z, Len(x) + 1)[i] = y[i]
  <2> DEFINE k == Len(x)
  <2>1. z \in Text /\ k \in 0 .. Len(z)
    BY <1>1
  <2>2. /\ k = Len(x) /\ Len(z) - k = Len(y)
        /\ \A i \in 1 .. k : z[i] = x[i]
        /\ \A i \in 1 .. Len(y) : z[k + i] = y[i]
    BY <1>1
  <2> HIDE DEF k
  <2>3. /\ SubSeq(z, 1, k) \in Text /\ Len(SubSeq(z, 1, k)) = k
        /\ \A i \in 1 .. k : SubSeq(z, 1, k)[i] = z[i]
    BY <2>1, CutText
  <2>4. /\ From(z, k + 1) \in Text /\ Len(From(z, k + 1)) = Len(z) - k
        /\ \A i \in 1 .. Len(z) - k : From(z, k + 1)[i] = z[k + i]
    BY <2>1, CutText
  <2>5. \A i \in 1 .. Len(y) : From(z, k + 1)[i] = y[i]
    BY <2>2, <2>4
  <2>6. \A i \in 1 .. k : SubSeq(z, 1, k)[i] = x[i]
    BY <2>2, <2>3
  <2> QED
    BY <2>2, <2>3, <2>4, <2>5, <2>6
<1>3. SubSeq(z, 1, Len(x)) = x
  BY <1>2, SeqEqual DEF Text
<1>4. From(z, Len(x) + 1) = y
  BY <1>2, SeqEqual DEF Text
<1> QED
  BY <1>3, <1>4 DEF z

\* A search stops at s if s begins nowhere in the text before it.
LEMMA FirstAt ==
    ASSUME NEW x \in Text, NEW s \in Text, s # <<>>, NEW y \in Text,
           \A i \in Occurrences(s, x \o (s \o y)) : i > Len(x)
    PROVE  /\ Occurs(s, x \o (s \o y))
           /\ Before(s, x \o (s \o y)) = x
           /\ After(s, x \o (s \o y)) = y
<1> DEFINE u == s \o y
           t == x \o u
<1>1. /\ u \in Text /\ Len(s) \in Nat \ {0} /\ Len(y) \in Nat
      /\ Len(u) = Len(s) + Len(y)
      /\ \A i \in 1 .. Len(s) : u[i] = s[i]
  BY JoinText, EmptySeq DEF Text
<1>2. From(u, Len(s) + 1) = y
  BY Unjoin
<1> HIDE DEF u
<1>3. /\ t \in Text /\ Len(x) \in Nat
      /\ Len(t) = Len(x) + Len(u)
      /\ \A i \in 1 .. Len(u) : t[Len(x) + i] = u[i]
  BY <1>1, JoinText
<1>4. SubSeq(t, 1, Len(x)) = x /\ From(t, Len(x) + 1) = u
  BY <1>1, Unjoin
<1>5. \A i \in Occurrences(s, t) : i > Len(x)
  BY DEF u
<1> HIDE DEF t
<1>6. Len(x) + 1 \in Occurrences(s, t)
  <2>1. Len(x) + 1 \in 1 .. Len(t) - Len(s) + 1
    BY <1>1, <1>3
  <2>2. ASSUME NEW j \in 1 .. Len(s)
        PROVE  t[(Len(x) + 1) + j - 1] = s[j]
    <3>1. (Len(x) + 1) + j - 1 = Len(x) + j /\ j \in 1 .. Len(u)
      BY <1>1, <1>3
    <3> QED
      BY <1>1, <1>3, <3>1
  <2> QED
    <3> DEFINE i == Len(x) + 1
    <3>1. /\ i \in 1 .. Len(t) - Len(s) + 1
          /\ \A j \in 1 .. Len(s) : t[i + j - 1] = s[j]
      BY <2>1, <2>2
    <3>2. i \in Int
      BY <1>3
    <3> HIDE DEF i
    <3>3. t \in Text
      BY <1>3
    <3>4. i \in Occurrences(s, t)
      BY <3>1, <3>2, <3>3, OccurrenceIs
    <3> QED
      BY <3>4 DEF i
<1>7. Min(Occurrences(s, t)) = Len(x) + 1
  <2>1. ASSUME NEW i \in Occurrences(s, t)
        PROVE  Len(x) + 1 <= i
    <3>1. i \in Int
      BY DEF Occurrences
    <3> QED
      BY <1>3, <1>5, <3>1
  <2> QED
    BY <1>3, <1>6, <2>1, LeastOccurrence
<1>8. Before(s, t) = x
  <2>1. (Len(x) + 1) - 1 = Len(x)
    BY <1>3
  <2> QED
    BY <1>4, <1>7, <2>1 DEF Before
<1>9. After(s, t) = y
  <2> DEFINE k == Len(x) + Len(s)
  <2>1. /\ From(t, k + 1) \in Text
        /\ Len(From(t, k + 1)) = Len(y)
        /\ \A i \in 1 .. Len(y) : From(t, k + 1)[i] = t[k + i]
    <3>1. k \in 0 .. Len(t) /\ Len(t) - k = Len(y)
      BY <1>1, <1>3
    <3> HIDE DEF k
    <3>2. /\ From(t, k + 1) \in Text
          /\ Len(From(t, k + 1)) = Len(t) - k
          /\ \A i \in 1 .. Len(t) - k : From(t, k + 1)[i] = t[k + i]
      BY <1>3, <3>1, CutText
    <3> QED
      BY <3>1, <3>2
  <2>2. ASSUME NEW i \in 1 .. Len(y)
        PROVE  t[k + i] = y[i]
    <3>1. k + i = Len(x) + (Len(s) + i) /\ Len(s) + i \in 1 .. Len(u)
      BY <1>1, <1>3
    <3>2. u[Len(s) + i] = y[i]
      BY JoinText DEF u
    <3> QED
      BY <1>3, <3>1, <3>2
  <2>3. From(t, k + 1) = y
    BY <2>1, <2>2, SeqEqual DEF Text
  <2>4. (Len(x) + 1) + Len(s) = k + 1
    BY <1>1, <1>3
  <2> QED
    BY <1>7, <2>3, <2>4 DEF After
<1> QED
  BY <1>6, <1>8, <1>9 DEF Occurs, t, u

-----------------------------------------------------------------------------
(* Texts in a row *)

\* The function that FlattenSeq defines by recursion exists.
LEMMA FlattenIs ==
    ASSUME NEW s \in Seq(Text), s # <<>>
    PROVE  \E f \in [1 .. Len(s) -> Text] :
              /\ f[1] = s[1]
              /\ \A i \in 1 .. Len(s) - 1 : f[i + 1] = f[i] \o s[i + 1]
              /\ FlattenSeq(s) = f[Len(s)]
<1> DEFINE l == Len(s)
           Joins(m, f) ==
              /\ f \in [1 .. m -> Text]
              /\ f[1] = s[1]
              /\ \A i \in 1 .. m - 1 : f[i + 1] = f[i] \o s[i + 1]
           T == {m \in 1 .. l : \E f : Joins(m, f)}
<1>1. l \in Nat \ {0} /\ \A i \in 1 .. l : s[i] \in Text
  BY LenProperties, EmptySeq, ElementOfSeq
<1> HIDE DEF l
<1>2. 1 \in T
  <2> DEFINE f == [i \in 1 .. 1 |-> s[1]]
  <2>1. Joins(1, f) /\ 1 \in 1 .. l
    BY <1>1
  <2> HIDE DEF f, Joins
  <2> QED
    BY <2>1
<1>3. ASSUME NEW m \in 1 .. l - 1, m \in T
      PROVE  m + 1 \in T
  <2>1. PICK f : Joins(m, f)
    BY <1>3
  <2> DEFINE g == [i \in 1 .. m + 1 |-> IF i = m + 1 THEN f[m] \o s[m + 1] ELSE f[i]]
  <2>2. f[m] \o s[m + 1] \in Text
    <3>1. f[m] \in Text /\ s[m + 1] \in Text
      BY <1>1, <2>1
    <3> QED
      BY <3>1, JoinText
  <2>3. g \in [1 .. m + 1 -> Text]
    <3>1. \A i \in 1 .. m + 1 : i # m + 1 => i \in 1 .. m
      OBVIOUS
    <3> QED
      BY <2>1, <2>2, <3>1
  <2>4. g[1] = s[1]
    BY <2>1
  <2>5. ASSUME NEW i \in 1 .. m
        PROVE  g[i + 1] = g[i] \o s[i + 1]
    <3>1. CASE i = m
      <4>1. m \in 1 .. m + 1 /\ m + 1 \in 1 .. m + 1 /\ m # m + 1
        OBVIOUS
      <4>2. g[m] = f[m] /\ g[m + 1] = f[m] \o s[m + 1]
        BY <4>1
      <4> QED
        BY <3>1, <4>2
    <3>2. CASE i # m
      <4>1. i \in 1 .. m - 1 /\ i + 1 \in 1 .. m + 1 /\ i + 1 # m + 1
        BY <3>2
      <4>2. g[i] = f[i] /\ g[i + 1] = f[i + 1]
        BY <4>1
      <4> QED
        BY <2>1, <4>1, <4>2
    <3> QED
      BY <3>1, <3>2
  <2>6. Joins(m + 1, g)
    <3>1. (m + 1) - 1 = m
      OBVIOUS
    <3> HIDE DEF g
    <3> QED
      BY <2>3, <2>4, <2>5, <3>1
  <2>7. m + 1 \in 1 .. l
    BY <1>1
  <2> HIDE DEF Joins, g
  <2> QED
    BY <2>6, <2>7
<1>4. PICK f : Joins(l, f)
  <2>1. l \in T
    <3> HIDE DEF T
    <3>1. \A m \in 1 .. l : m \in T
      BY <1>1, <1>2, <1>3, InductionTo
    <3> QED
      BY <1>1, <3>1
  <2> HIDE DEF Joins
  <2> QED
    BY <2>1
<1> DEFINE Eqn(r) == r = [i \in 1 .. l |-> IF i = 1 THEN s[i] ELSE r[i - 1] \o s[i]]
<1>5. Eqn(f)
  <2>1. ASSUME NEW i \in 1 .. l
        PROVE  f[i] = IF i = 1 THEN s[i] ELSE f[i - 1] \o s[i]
    <3>1. CASE i = 1
      BY <1>4, <3>1
    <3>2. CASE i # 1
      <4>1. i - 1 \in 1 .. l - 1 /\ (i - 1) + 1 = i
        BY <1>1, <3>2
      <4> QED
        BY <1>4, <3>2, <4>1
    <3> QED
      BY <3>1, <3>2
  <2> QED
    BY <1>4, <2>1
<1> DEFINE p == CHOOSE r : Eqn(r)
<1>6. Eqn(p)
  BY <1>5
<1>7. FlattenSeq(s) = p[l]
  BY <1>1 DEF FlattenSeq, l
<1> HIDE DEF p
<1>8. /\ DOMAIN p = 1 .. l
      /\ p[1] = s[1]
      /\ \A i \in 1 .. l - 1 : p[i + 1] = p[i] \o s[i + 1]
  <2>1. 1 \in 1 .. l
    BY <1>1
  <2>2. ASSUME NEW i \in 1 .. l - 1
        PROVE  p[i + 1] = p[i] \o s[i + 1]
    <3>1. i + 1 \in 1 .. l /\ i + 1 # 1 /\ (i + 1) - 1 = i
      BY <1>1
    <3> QED
      BY <1>6, <3>1
  <2> QED
    BY <1>6, <2>1, <2>2
<1>9. \A i \in 1 .. l : p[i] \in Text
  <2> DEFINE U == {i \in 1 .. l : p[i] \in Text}
  <2>1. 1 \in U
    BY <1>1, <1>8
  <2>2. ASSUME NEW i \in 1 .. l - 1, i \in U
        PROVE  i + 1 \in U
    <3>1. i + 1 \in 1 .. l /\ s[i + 1] \in Text
      BY <1>1
    <3> QED
      BY <1>8, <2>2, <3>1, JoinText
  <2>3. \A i \in 1 .. l : i \in U
    <3> HIDE DEF U
    <3> QED
      BY <1>1, <2>1, <2>2, InductionTo
  <2> QED
    BY <2>3
<1>10. p \in [1 .. l -> Text]
  <2>1. p = [i \in 1 .. l |-> p[i]]
    BY <1>6, <1>8
  <2> QED
    BY <1>9, <2>1
<1> QED
  BY <1>7, <1>8, <1>10 DEF l

\* A row of texts joined: its first one, then the others joined.
LEMMA FlattenTail ==
    ASSUME NEW s \in Seq(Text), s # <<>>
    PROVE  /\ FlattenSeq(Tail(s)) \in Text
           /\ FlattenSeq(s) = s[1] \o FlattenSeq(Tail(s))
<1> DEFINE r == Tail(s)
           l == Len(s)
<1>1. /\ l \in Nat \ {0} /\ \A i \in 1 .. l : s[i] \in Text
      /\ r \in Seq(Text) /\ Len(r) = l - 1
      /\ \A i \in 1 .. l - 1 : r[i] = s[i + 1]
  BY LenProperties, EmptySeq, ElementOfSeq, HeadTailProperties
<1>2. PICK f \in [1 .. l -> Text] :
         /\ f[1] = s[1]
         /\ \A i \in 1 .. l - 1 : f[i + 1] = f[i] \o s[i + 1]
         /\ FlattenSeq(s) = f[l]
  BY FlattenIs
<1> HIDE DEF r, l
<1>3. CASE l = 1
  <2>1. r = <<>>
    BY <1>1, <1>3, EmptySeq
  <2>2. FlattenSeq(r) = <<>> /\ <<>> \in Text
    BY <2>1 DEF FlattenSeq, Text
  <2>3. s[1] \o <<>> = s[1]
    BY <1>1, ConcatEmptySeq DEF Text
  <2> QED
    BY <1>2, <1>3, <2>2, <2>3 DEF r
<1>4. CASE l # 1
  <2>1. r # <<>> /\ l - 1 \in Nat /\ l - 1 >= 1
    BY <1>1, <1>4, EmptySeq
  <2>2. PICK g \in [1 .. l - 1 -> Text] :
           /\ g[1] = r[1]
           /\ \A i \in 1 .. (l - 1) - 1 : g[i + 1] = g[i] \o r[i + 1]
           /\ FlattenSeq(r) = g[l - 1]
    BY <1>1, <2>1, FlattenIs
  <2> DEFINE T == {i \in 1 .. l - 1 : f[i + 1] = s[1] \o g[i]}
  <2>3. 1 \in T
    <3>1. 1 \in 1 .. l - 1 /\ 1 + 1 = 2
      BY <2>1
    <3>2. f[2] = f[1] \o s[2] /\ r[1] = s[2]
      BY <1>1, <1>2, <3>1
    <3> QED
      BY <1>2, <2>2, <3>1, <3>2
  <2>4. ASSUME NEW i \in 1 .. (l - 1) - 1, i \in T
        PROVE  i + 1 \in T
    <3>1. /\ i + 1 \in 1 .. l - 1 /\ i \in 1 .. l - 1 /\ 1 \in 1 .. l
          /\ (i + 1) + 1 \in 1 .. l
      BY <1>1, <2>1
    <3>2. f[(i + 1) + 1] = f[i + 1] \o s[(i + 1) + 1]
      BY <1>2, <3>1
    <3>3. f[i + 1] = s[1] \o g[i]
      BY <2>4
    <3>4. s[1] \in Text /\ g[i] \in Text /\ s[(i + 1) + 1] \in Text
      BY <1>1, <3>1
    <3>5. (s[1] \o g[i]) \o s[(i + 1) + 1] = s[1] \o (g[i] \o s[(i + 1) + 1])
      BY <3>4, Regroup
    <3>6. g[i + 1] = g[i] \o s[(i + 1) + 1]
      BY <1>1, <2>2, <3>1
    <3> QED
      BY <3>1, <3>2, <3>3, <3>5, <3>6
  <2>5. l - 1 \in T
    <3> HIDE DEF T
    <3>1. \A i \in 1 .. l - 1 : i \in T
      BY <2>1, <2>3, <2>4, InductionTo
    <3> QED
      BY <2>1, <3>1
  <2>6. (l - 1) + 1 = l /\ l - 1 \in 1 .. l - 1
    BY <1>1, <2>1
  <2> QED
    BY <1>2, <2>2, <2>5, <2>6 DEF r
<1> QED
  BY <1>3, <1>4

LEMMA FlattenType ==
    ASSUME NEW s \in Seq(Text)
    PROVE  FlattenSeq(s) \in Text
<1>1. CASE s = <<>>
  BY <1>1 DEF FlattenSeq, Text
<1>2. CASE s # <<>>
  <2>1. Len(s) \in Nat \ {0} /\ Len(s) \in 1 .. Len(s)
    BY <1>2, EmptySeq
  <2> QED
    BY <1>2, <2>1, FlattenIs
<1> QED
  BY <1>1, <1>2

-----------------------------------------------------------------------------
(* A message, frame by frame *)

Batches == UNION {[1 .. k -> FramesSet] : k \in 1 .. MaxFrames}

Piece(f) == Framed(Declared(f), f.body)

\* What the message holds after its first k frames.
Rest(b, k) == FlattenSeq(SubSeq([i \in DOMAIN b |-> Piece(b[i])], k + 1, Len(b)))

LEMMA FrameFacts ==
    ASSUME NEW f \in FramesSet
    PROVE  /\ f.body \in Text /\ Len(f.body) \in Nat
           /\ f.off \in Int
           /\ Declared(f) = Len(f.body) + f.off
           /\ Declared(f) \in -9 .. 9
           /\ Separable(f.body)
<1>1. f.body \in Bodies /\ f.off \in Offs
  BY DEF FramesSet
<1>2. f.body \in Seq(Range(f.body)) /\ Separable(f.body)
  BY <1>1, BodiesAssumption
<1>3. Range(f.body) \subseteq Chars
  BY <1>1 DEF Chars
<1>4. f.body \in Text /\ Len(f.body) \in Nat
  BY <1>2, <1>3, SeqMonotonic, LenProperties DEF Text
<1> QED
  BY <1>1, <1>2, <1>4, FramesAssumption DEF Declared

LEMMA MarkerThen ==
    ASSUME NEW w \in Text
    PROVE  /\ Marker \o w \in Text
           /\ Len(w) \in Nat
           /\ Len(Marker \o w) = 3 + Len(w)
           /\ (Marker \o w)[1] = "~" /\ (Marker \o w)[2] = "m" /\ (Marker \o w)[3] = "~"
           /\ \A i \in 1 .. Len(w) : (Marker \o w)[3 + i] = w[i]
<1>1. /\ Marker \o w \in Text
      /\ Len(w) \in Nat
      /\ Len(Marker \o w) = Len(Marker) + Len(w)
      /\ \A i \in 1 .. Len(Marker) : (Marker \o w)[i] = Marker[i]
      /\ \A i \in 1 .. Len(w) : (Marker \o w)[Len(Marker) + i] = w[i]
  BY Literals, JoinText
<1>2. 1 \in 1 .. 3 /\ 2 \in 1 .. 3 /\ 3 \in 1 .. 3
  OBVIOUS
<1> DEFINE z == Marker \o w
<1> HIDE DEF z
<1>3. /\ Len(z) = 3 + Len(w)
      /\ z[1] = Marker[1] /\ z[2] = Marker[2] /\ z[3] = Marker[3]
      /\ \A i \in 1 .. Len(w) : z[3 + i] = w[i]
  BY <1>1, <1>2, Literals DEF z
<1> QED
  BY <1>1, <1>3, Literals DEF z

LEMMA RegroupThree ==
    ASSUME NEW m \in Text, NEW d \in Text, NEW u \in Text
    PROVE  /\ m \o d \o m \in Text
           /\ (m \o d \o m) \o u = m \o (d \o (m \o u))
<1>1. m \o d \in Text /\ m \o u \in Text
  BY JoinText
<1>2. (m \o d \o m) \o u = (m \o d) \o (m \o u)
  <2> DEFINE e == m \o d
  <2>1. e \in Text
    BY <1>1
  <2> HIDE DEF e
  <2>2. (e \o m) \o u = e \o (m \o u)
    BY <2>1, Regroup
  <2> QED
    BY <2>2 DEF e
<1>3. (m \o d) \o (m \o u) = m \o (d \o (m \o u))
  <2> DEFINE v == m \o u
  <2>1. v \in Text
    BY <1>1
  <2> HIDE DEF v
  <2>2. (m \o d) \o v = m \o (d \o v)
    BY <2>1, Regroup
  <2> QED
    BY <2>2 DEF v
<1> QED
  BY <1>1, <1>2, <1>3, JoinText

LEMMA PieceThen ==
    ASSUME NEW f \in FramesSet, NEW r \in Text
    PROVE  /\ Piece(f) \in Text
           /\ Piece(f) \o r =
                 Marker \o (Decimal(Declared(f)) \o (Marker \o (f.body \o r)))
<1> DEFINE h == Marker \o Decimal(Declared(f)) \o Marker
<1>1. /\ h \in Text
      /\ \A u \in Text : h \o u = Marker \o (Decimal(Declared(f)) \o (Marker \o u))
  <2>1. Decimal(Declared(f)) \in Text /\ Marker \in Text
    BY FrameFacts, DecimalFacts, Literals
  <2> QED
    BY <2>1, RegroupThree
<1>2. Piece(f) = h \o f.body
  BY DEF Piece, Framed
<1>3. f.body \in Text /\ f.body \o r \in Text
  BY FrameFacts, JoinText
<1> HIDE DEF h
<1>4. h \o f.body \in Text
  BY <1>1, <1>3, JoinText
<1>5. (h \o f.body) \o r = h \o (f.body \o r)
  BY <1>1, <1>3, Regroup
<1> QED
  BY <1>1, <1>2, <1>3, <1>4, <1>5

LEMMA BatchFacts ==
    ASSUME NEW b \in Batches
    PROVE  /\ b \in Seq(FramesSet)
           /\ Len(b) \in Nat \ {0} /\ DOMAIN b = 1 .. Len(b)
           /\ \A i \in 1 .. Len(b) : b[i] \in FramesSet
<1>1. PICK k \in 1 .. MaxFrames : b \in [1 .. k -> FramesSet]
  BY DEF Batches
<1>2. k \in Nat \ {0}
  BY FramesAssumption
<1>3. b \in Seq(FramesSet)
  BY <1>1, <1>2, SeqDef
<1>4. Len(b) = k
  BY <1>1, <1>2, <1>3, LenProperties
<1> QED
  BY <1>1, <1>2, <1>3, <1>4

LEMMA RestFacts ==
    ASSUME NEW b \in Batches, NEW k \in 0 .. Len(b)
    PROVE  /\ Rest(b, k) \in Text
           /\ Rest(b, 0) = Wire(b)
           /\ k = Len(b) => Rest(b, k) = <<>>
           /\ k < Len(b) =>
                 /\ Rest(b, k + 1) \in Text
                 /\ Rest(b, k) = Piece(b[k + 1]) \o Rest(b, k + 1)
<1> DEFINE w == [i \in DOMAIN b |-> Piece(b[i])]
           l == Len(b)
           r(j) == SubSeq(w, j + 1, l)
<1>1. /\ l \in Nat \ {0} /\ DOMAIN b = 1 .. l
      /\ \A i \in 1 .. l : b[i] \in FramesSet
  BY BatchFacts
<1>2. /\ w \in Seq(Text) /\ Len(w) = l
      /\ \A i \in 1 .. l : w[i] = Piece(b[i]) /\ w[i] \in Text
  <2>1. \A i \in 1 .. l : Piece(b[i]) \in Text
    <3>1. <<>> \in Text
      BY DEF Text
    <3> QED
      BY <1>1, <3>1, PieceThen
  <2>2. w \in [1 .. l -> Text]
    BY <1>1, <2>1
  <2>3. w \in Seq(Text)
    BY <1>1, <2>2, SeqDef
  <2>4. Len(w) = l
    BY <1>1, <2>2, <2>3, LenProperties
  <2> QED
    BY <1>1, <2>1, <2>3, <2>4
<1>3. Wire(b) = FlattenSeq(w)
  BY DEF Wire, Piece
<1>4. \A j \in 0 .. l : Rest(b, j) = FlattenSeq(r(j))
  BY DEF Rest
<1> HIDE DEF w, l
<1>5. \A j \in 0 .. l : r(j) \in Seq(Text)
  <2> TAKE j \in 0 .. l
  <2>1. \A i \in j + 1 .. l : w[i] \in Text
    BY <1>2
  <2> QED
    BY <1>1, <2>1, SubSeqProperties
<1>6. \A j \in 0 .. l : Rest(b, j) \in Text
  BY <1>4, <1>5, FlattenType
<1>7. Rest(b, 0) = Wire(b)
  <2>1. r(0) = w /\ 0 \in 0 .. l
    BY <1>1, <1>2, SubSeqFull
  <2> QED
    BY <1>3, <1>4, <2>1
<1>8. ASSUME k = l
      PROVE  Rest(b, k) = <<>>
  <2>1. r(l) = <<>> /\ l \in 0 .. l
    BY <1>1, SubSeqEmpty
  <2> QED
    BY <1>4, <1>8, <2>1 DEF FlattenSeq
<1>9. ASSUME k < l
      PROVE  /\ Rest(b, k + 1) \in Text
             /\ Rest(b, k) = Piece(b[k + 1]) \o Rest(b, k + 1)
  <2>1. k + 1 \in 0 .. l /\ k + 1 \in 1 .. l /\ l \in k + 1 .. l /\ k \in 0 .. l
    BY <1>1, <1>9 DEF l
  <2>2. /\ Head(r(k)) = w[k + 1]
        /\ Tail(r(k)) = r(k + 1)
    BY <1>2, <2>1, HeadTailOfSubSeq
  <2>3. r(k) # <<>> /\ r(k)[1] = w[k + 1]
    <3>1. \A i \in k + 1 .. l : w[i] \in Text
      BY <1>2, <2>1
    <3>2. /\ Len(r(k)) = l - (k + 1) + 1
          /\ \A i \in 1 .. l - (k + 1) + 1 : r(k)[i] = w[(k + 1) + i - 1]
      BY <1>1, <2>1, <3>1, SubSeqProperties
    <3>3. 1 \in 1 .. l - (k + 1) + 1 /\ (k + 1) + 1 - 1 = k + 1 /\ l - (k + 1) + 1 # 0
      BY <1>1, <1>9, <2>1
    <3>4. r(k)[1] = w[k + 1]
      BY <3>2, <3>3
    <3> QED
      BY <3>2, <3>3, <3>4, EmptySeq
  <2>4. FlattenSeq(r(k)) = w[k + 1] \o FlattenSeq(r(k + 1))
    BY <1>5, <2>1, <2>2, <2>3, FlattenTail
  <2> QED
    BY <1>2, <1>4, <1>6, <2>1, <2>4
<1> QED
  BY <1>6, <1>7, <1>8, <1>9 DEF l

\* A text that a frame may follow, or nothing may: empty, or with a marker first.
Follows(r) ==
    /\ r \in Text
    /\ r # <<>> => Len(r) >= 3 /\ r[1] = "~" /\ r[2] = "m" /\ r[3] = "~"

\* The characters of a frame and of what follows it; its body begins after c.
FrameChars(f, r, t, c) ==
    /\ t \in Text
    /\ c \in {7, 8}
    /\ Len(t) = c + Len(f.body) + Len(r)
    /\ t[c - 2] = "~" /\ t[c - 1] = "m" /\ t[c] = "~"
    /\ \A i \in 1 .. c : t[i] # "h" /\ (t[i] = "-" => i = 4 /\ Declared(f) < 0)
    /\ \A i \in 1 .. Len(f.body) : t[c + i] = f.body[i]
    /\ \A i \in 1 .. Len(r) : t[c + Len(f.body) + i] = r[i]

LEMMA FrameByChar ==
    ASSUME NEW f \in FramesSet, NEW r \in Text
    PROVE  FrameChars(f, r, Piece(f) \o r, Len(Piece(f)) - Len(f.body))
<1> DEFINE d == Decimal(Declared(f))
           b == f.body
           v == Marker \o (b \o r)
           u == d \o v
           t == Piece(f) \o r
<1>1. /\ d \in Text /\ Len(d) \in 1 .. 2
      /\ \A i \in 1 .. Len(d) : d[i] # "h" /\ (d[i] = "-" => i = 1 /\ Declared(f) < 0)
  <2>1. /\ d \in Text
        /\ Len(d) \in 1 .. 2
        /\ \A i \in 1 .. Len(d) : d[i] \notin {"~", "m", "h"}
        /\ Declared(f) < 0 <=> d[1] = "-"
        /\ \A i \in 2 .. Len(d) : d[i] # "-"
    BY FrameFacts, DecimalFacts
  <2> HIDE DEF d
  <2>2. \A i \in 1 .. Len(d) : i = 1 \/ i \in 2 .. Len(d)
    BY <2>1
  <2> QED
    BY <2>1, <2>2
<1>2. /\ b \in Text /\ Len(b) \in Nat /\ Len(r) \in Nat
      /\ b \o r \in Text
      /\ Len(b \o r) = Len(b) + Len(r)
      /\ \A i \in 1 .. Len(b) : (b \o r)[i] = b[i]
      /\ \A i \in 1 .. Len(r) : (b \o r)[Len(b) + i] = r[i]
  BY FrameFacts, JoinText
<1>3. t = Marker \o u
  BY PieceThen
<1>4. t \in Text /\ Len(t) = Len(Piece(f)) + Len(r) /\ Len(Piece(f)) \in Nat
  BY PieceThen, JoinText
<1> HIDE DEF d, b, t
<1>5. /\ v \in Text
      /\ Len(v) = 3 + Len(b) + Len(r)
      /\ v[1] = "~" /\ v[2] = "m" /\ v[3] = "~"
      /\ \A i \in 1 .. Len(b) : v[3 + i] = b[i]
      /\ \A i \in 1 .. Len(r) : v[3 + Len(b) + i] = r[i]
  <2> DEFINE w == b \o r
  <2> HIDE DEF w
  <2>1. /\ w \in Text /\ Len(w) = Len(b) + Len(r)
        /\ \A i \in 1 .. Len(b) : w[i] = b[i]
        /\ \A i \in 1 .. Len(r) : w[Len(b) + i] = r[i]
    BY <1>2 DEF w
  <2>2. v = Marker \o w
    BY DEF w
  <2>3. /\ v \in Text
        /\ Len(v) = 3 + Len(w)
        /\ v[1] = "~" /\ v[2] = "m" /\ v[3] = "~"
        /\ \A i \in 1 .. Len(w) : v[3 + i] = w[i]
    <3> HIDE DEF v
    <3> QED
      BY <2>1, <2>2, MarkerThen
  <2>4. \A i \in 1 .. Len(b) : i \in 1 .. Len(w)
    BY <1>2, <2>1
  <2>5. \A i \in 1 .. Len(r) : Len(b) + i \in 1 .. Len(w) /\ 3 + (Len(b) + i) = 3 + Len(b) + i
    BY <1>2, <2>1
  <2> HIDE DEF v
  <2> QED
    BY <1>2, <2>1, <2>3, <2>4, <2>5
<1> HIDE DEF v
<1>6. /\ u \in Text
      /\ Len(u) = Len(d) + Len(v)
      /\ \A i \in 1 .. Len(d) : u[i] = d[i]
      /\ \A i \in 1 .. Len(v) : u[Len(d) + i] = v[i]
  BY <1>1, <1>5, JoinText
<1> HIDE DEF u
<1>7. /\ Len(t) = 3 + Len(u) /\ Len(u) \in Nat
      /\ t[1] = "~" /\ t[2] = "m" /\ t[3] = "~"
      /\ \A i \in 1 .. Len(u) : t[3 + i] = u[i]
  BY <1>3, <1>6, MarkerThen
<1> DEFINE c == Len(d) + 6
<1>8. c \in {7, 8} /\ Len(t) = c + Len(b) + Len(r)
  <2>1. c \in {7, 8}
    BY <1>1
  <2>2. Len(t) = 3 + (Len(d) + (3 + Len(b) + Len(r)))
    BY <1>5, <1>6, <1>7
  <2> QED
    BY <1>1, <1>2, <2>1, <2>2
<1>9. \A i \in 1 .. Len(v) : t[3 + Len(d) + i] = v[i]
  <2> TAKE i \in 1 .. Len(v)
  <2>1. Len(d) + i \in 1 .. Len(u) /\ 3 + (Len(d) + i) = 3 + Len(d) + i
    BY <1>1, <1>2, <1>5, <1>6
  <2> QED
    BY <1>6, <1>7, <2>1
<1>10. t[c - 2] = "~" /\ t[c - 1] = "m" /\ t[c] = "~"
  <2>1. /\ 1 \in 1 .. Len(v) /\ 2 \in 1 .. Len(v) /\ 3 \in 1 .. Len(v)
        /\ 3 + Len(d) + 1 = c - 2 /\ 3 + Len(d) + 2 = c - 1 /\ 3 + Len(d) + 3 = c
    BY <1>1, <1>2, <1>5
  <2> QED
    BY <1>5, <1>9, <2>1
<1>11. \A i \in 1 .. Len(b) : t[c + i] = b[i]
  <2> TAKE i \in 1 .. Len(b)
  <2>1. 3 + i \in 1 .. Len(v) /\ 3 + Len(d) + (3 + i) = c + i
    BY <1>1, <1>2, <1>5
  <2> QED
    BY <1>5, <1>9, <2>1
<1>12. \A i \in 1 .. Len(r) : t[c + Len(b) + i] = r[i]
  <2> TAKE i \in 1 .. Len(r)
  <2>1. 3 + Len(b) + i \in 1 .. Len(v) /\ 3 + Len(d) + (3 + Len(b) + i) = c + Len(b) + i
    BY <1>1, <1>2, <1>5
  <2> QED
    BY <1>5, <1>9, <2>1
<1>13. \A i \in 1 .. c : t[i] # "h" /\ (t[i] = "-" => i = 4 /\ Declared(f) < 0)
  <2> TAKE i \in 1 .. c
  <2>1. CASE i <= 3
    <3>1. i = 1 \/ i = 2 \/ i = 3
      BY <2>1
    <3> QED
      BY <1>7, <3>1
  <2>2. CASE i > 3 /\ i <= 3 + Len(d)
    <3>1. i - 3 \in 1 .. Len(d) /\ i - 3 \in 1 .. Len(u) /\ 3 + (i - 3) = i
      BY <1>1, <1>2, <1>5, <1>6, <2>2
    <3>2. t[i] = d[i - 3]
      BY <1>6, <1>7, <3>1
    <3> QED
      BY <1>1, <3>1, <3>2
  <2>3. CASE i > 3 + Len(d)
    <3>1. i \in {c - 2, c - 1, c}
      BY <1>1, <2>3
    <3> QED
      BY <1>10, <3>1
  <2> QED
    BY <1>1, <2>1, <2>2, <2>3
<1>14. Len(Piece(f)) - Len(b) = c
  BY <1>2, <1>4, <1>8
<1> HIDE DEF c
<1> QED
  BY <1>4, <1>8, <1>10, <1>11, <1>12, <1>13, <1>14 DEF FrameChars, b, t

LEMMA RestFollows ==
    ASSUME NEW b \in Batches, NEW k \in 0 .. Len(b)
    PROVE  Follows(Rest(b, k))
<1>1. Rest(b, k) \in Text
  BY RestFacts
<1>2. CASE k = Len(b)
  BY <1>1, <1>2, RestFacts DEF Follows
<1>3. CASE k # Len(b)
  <2>1. k + 1 \in 1 .. Len(b) /\ k < Len(b)
    BY <1>3, BatchFacts
  <2> DEFINE f == b[k + 1]
             r == Rest(b, k + 1)
             v == Decimal(Declared(f)) \o (Marker \o (f.body \o r))
  <2>2. f \in FramesSet /\ r \in Text /\ Rest(b, k) = Piece(f) \o r
    BY <2>1, BatchFacts, RestFacts
  <2> HIDE DEF f, r
  <2>3. Rest(b, k) = Marker \o v
    BY <2>2, PieceThen
  <2>4. v \in Text
    <3>1. f.body \o r \in Text
      BY <2>2, FrameFacts, JoinText
    <3>2. Marker \o (f.body \o r) \in Text
      BY <3>1, Literals, JoinText
    <3> QED
      BY <2>2, <3>2, FrameFacts, DecimalFacts, JoinText
  <2> HIDE DEF v
  <2>5. /\ Len(Rest(b, k)) = 3 + Len(v) /\ Len(v) \in Nat
        /\ Rest(b, k)[1] = "~" /\ Rest(b, k)[2] = "m" /\ Rest(b, k)[3] = "~"
    BY <2>3, <2>4, MarkerThen
  <2> QED
    BY <1>1, <2>5 DEF Follows
<1> QED
  BY <1>2, <1>3

-----------------------------------------------------------------------------
(* What occurs in a message *)

LEMMA TagIs ==
    ASSUME NEW t \in Text, NEW i \in Int
    PROVE  i \in Occurrences(Tag, t) <=>
              /\ i \in 1 .. Len(t) - 2
              /\ t[i] = "~" /\ t[i + 1] = "h" /\ t[i + 2] = "~"
<1>1. Len(t) \in Nat
  BY LenProperties DEF Text
<1>2. i \in Occurrences(Tag, t) <=>
         /\ i \in 1 .. Len(t) - 3 + 1
         /\ \A j \in 1 .. 3 : t[i + j - 1] = Tag[j]
  BY Literals, OccurrenceIs DEF Tag
<1>3. (\A j \in 1 .. 3 : t[i + j - 1] = Tag[j]) <=>
         t[i + 1 - 1] = Tag[1] /\ t[i + 2 - 1] = Tag[2] /\ t[i + 3 - 1] = Tag[3]
  OBVIOUS
<1>4. i + 1 - 1 = i /\ i + 2 - 1 = i + 1 /\ i + 3 - 1 = i + 2
  OBVIOUS
<1> QED
  BY <1>1, <1>2, <1>3, <1>4, Literals

LEMMA MarkerIs ==
    ASSUME NEW t \in Text, NEW i \in Int
    PROVE  i \in Occurrences(Marker, t) <=>
              /\ i \in 1 .. Len(t) - 2
              /\ t[i] = "~" /\ t[i + 1] = "m" /\ t[i + 2] = "~"
<1>1. Len(t) \in Nat
  BY LenProperties DEF Text
<1>2. i \in Occurrences(Marker, t) <=>
         /\ i \in 1 .. Len(t) - 3 + 1
         /\ \A j \in 1 .. 3 : t[i + j - 1] = Marker[j]
  BY Literals, OccurrenceIs DEF Marker
<1>3. (\A j \in 1 .. 3 : t[i + j - 1] = Marker[j]) <=>
         t[i + 1 - 1] = Marker[1] /\ t[i + 2 - 1] = Marker[2] /\ t[i + 3 - 1] = Marker[3]
  OBVIOUS
<1>4. i + 1 - 1 = i /\ i + 2 - 1 = i + 1 /\ i + 3 - 1 = i + 2
  OBVIOUS
<1> QED
  BY <1>1, <1>2, <1>3, <1>4, Literals

\* How the header of a negative length begins.
Minus == Append(Marker, "-")

LEMMA MinusIs ==
    ASSUME NEW t \in Text, NEW i \in Int
    PROVE  i \in Occurrences(Minus, t) <=>
              /\ i \in 1 .. Len(t) - 3
              /\ t[i] = "~" /\ t[i + 1] = "m" /\ t[i + 2] = "~" /\ t[i + 3] = "-"
<1>1. Len(t) \in Nat
  BY LenProperties DEF Text
<1>2. /\ Minus \in Text /\ Minus # <<>> /\ Len(Minus) = 4
      /\ Minus[1] = "~" /\ Minus[2] = "m" /\ Minus[3] = "~" /\ Minus[4] = "-"
  <2>1. "-" \in Chars /\ Marker \in Seq(Chars)
    BY Literals DEF Chars, Text
  <2>2. /\ Minus \in Seq(Chars) /\ Minus # <<>>
        /\ Len(Minus) = Len(Marker) + 1
        /\ \A j \in 1 .. Len(Marker) : Minus[j] = Marker[j]
        /\ Minus[Len(Marker) + 1] = "-"
    <3> HIDE DEF Chars
    <3> QED
      BY <2>1, AppendProperties DEF Minus
  <2>3. 1 \in 1 .. 3 /\ 2 \in 1 .. 3 /\ 3 \in 1 .. 3 /\ 3 + 1 = 4
    OBVIOUS
  <2> QED
    BY <2>2, <2>3, Literals DEF Text
<1>3. i \in Occurrences(Minus, t) <=>
         /\ i \in 1 .. Len(t) - 4 + 1
         /\ \A j \in 1 .. 4 : t[i + j - 1] = Minus[j]
  <2>1. Minus \in Text /\ Minus # <<>>
    BY <1>2
  <2>2. i \in Occurrences(Minus, t) <=>
           /\ i \in 1 .. Len(t) - Len(Minus) + 1
           /\ \A j \in 1 .. Len(Minus) : t[i + j - 1] = Minus[j]
    BY <2>1, OccurrenceIs
  <2>3. Len(Minus) = 4
    BY <1>2
  <2> QED
    BY <2>2, <2>3
<1>4. (\A j \in 1 .. 4 : t[i + j - 1] = Minus[j]) <=>
         /\ t[i + 1 - 1] = Minus[1] /\ t[i + 2 - 1] = Minus[2]
         /\ t[i + 3 - 1] = Minus[3] /\ t[i + 4 - 1] = Minus[4]
  OBVIOUS
<1>5. i + 1 - 1 = i /\ i + 2 - 1 = i + 1 /\ i + 3 - 1 = i + 2 /\ i + 4 - 1 = i + 3
  OBVIOUS
<1> QED
  BY <1>1, <1>2, <1>3, <1>4, <1>5

LEMMA TagFirst ==
    ASSUME NEW b \in Text
    PROVE  IsPrefix(Tag, b) <=>
              Len(b) >= 3 /\ b[1] = "~" /\ b[2] = "h" /\ b[3] = "~"
<1>1. Len(b) \in Nat
  BY LenProperties DEF Text
<1>2. 1 \in Int /\ (1 \in Occurrences(Tag, b) <=>
         /\ 1 \in 1 .. Len(b) - 2
         /\ b[1] = "~" /\ b[1 + 1] = "h" /\ b[1 + 2] = "~")
  BY TagIs
<1>3. 1 \in Occurrences(Tag, b) <=> Len(b) >= 3 /\ SubSeq(b, 1, 3) = Tag
  <2>1. 1 + 3 - 1 = 3 /\ (1 \in 1 .. Len(b) - 3 + 1 <=> Len(b) >= 3)
    BY <1>1
  <2> QED
    BY <2>1, Literals DEF Occurrences
<1>4. SubSeq(Tag, 1, 3) = Tag
  BY Literals, SubSeqFull DEF Text
<1>5. IsPrefix(Tag, b) <=> 3 <= Len(b) /\ Tag = SubSeq(b, 1, 3)
  BY <1>4, Literals DEF IsPrefix
<1>6. Len(b) >= 3 <=> 1 \in 1 .. Len(b) - 2
  BY <1>1
<1> QED
  BY <1>1, <1>2, <1>3, <1>5, <1>6

\* A body between two markers.
LEMMA BetweenByChar ==
    ASSUME NEW b \in Text
    PROVE  LET w == Marker \o b \o Marker IN
           /\ w \in Text /\ Len(b) \in Nat /\ Len(w) = Len(b) + 6
           /\ w[1] = "~" /\ w[2] = "m" /\ w[3] = "~"
           /\ \A i \in 1 .. Len(b) : w[3 + i] = b[i]
           /\ w[Len(b) + 4] = "~" /\ w[Len(b) + 5] = "m" /\ w[Len(b) + 6] = "~"
<1> DEFINE u == b \o Marker
           w == Marker \o u
<1>1. /\ u \in Text /\ Len(b) \in Nat /\ Len(u) = Len(b) + 3
      /\ \A i \in 1 .. Len(b) : u[i] = b[i]
      /\ u[Len(b) + 1] = "~" /\ u[Len(b) + 2] = "m" /\ u[Len(b) + 3] = "~"
  <2>1. /\ u \in Text /\ Len(b) \in Nat /\ Len(u) = Len(b) + Len(Marker)
        /\ \A i \in 1 .. Len(b) : u[i] = b[i]
        /\ \A i \in 1 .. Len(Marker) : u[Len(b) + i] = Marker[i]
    BY Literals, JoinText
  <2>2. 1 \in 1 .. 3 /\ 2 \in 1 .. 3 /\ 3 \in 1 .. 3
    OBVIOUS
  <2> HIDE DEF u
  <2> QED
    BY <2>1, <2>2, Literals
<1>2. Marker \o b \o Marker = w
  BY Literals, Regroup
<1> HIDE DEF u
<1>3. /\ w \in Text /\ Len(w) = 3 + Len(u)
      /\ w[1] = "~" /\ w[2] = "m" /\ w[3] = "~"
      /\ \A i \in 1 .. Len(u) : w[3 + i] = u[i]
  BY <1>1, MarkerThen
<1> HIDE DEF w
<1>4. \A i \in 1 .. Len(b) : w[3 + i] = b[i]
  BY <1>1, <1>3
<1>5. w[Len(b) + 4] = "~" /\ w[Len(b) + 5] = "m" /\ w[Len(b) + 6] = "~"
  <2>1. /\ Len(b) + 1 \in 1 .. Len(u) /\ 3 + (Len(b) + 1) = Len(b) + 4
        /\ Len(b) + 2 \in 1 .. Len(u) /\ 3 + (Len(b) + 2) = Len(b) + 5
        /\ Len(b) + 3 \in 1 .. Len(u) /\ 3 + (Len(b) + 3) = Len(b) + 6
    BY <1>1
  <2> QED
    BY <1>1, <1>3, <2>1
<1> QED
  BY <1>1, <1>2, <1>3, <1>4, <1>5

\* As far as t goes, it holds body between two markers after c - 3.
Window(body, t, c) ==
    \A j \in 1 .. Len(body) + 6 : (c - 3) + j <= Len(t) =>
        t[(c - 3) + j] = (Marker \o body \o Marker)[j]

LEMMA FrameWindow ==
    ASSUME NEW f \in FramesSet, NEW r, Follows(r), NEW t, NEW c, FrameChars(f, r, t, c)
    PROVE  Window(f.body, t, c)
<1> DEFINE b == f.body
           w == Marker \o b \o Marker
<1> SUFFICES ASSUME NEW j \in 1 .. Len(b) + 6, (c - 3) + j <= Len(t)
             PROVE  t[(c - 3) + j] = w[j]
  BY DEF Window
<1>1. /\ Len(b) \in Nat
      /\ w[1] = "~" /\ w[2] = "m" /\ w[3] = "~"
      /\ \A i \in 1 .. Len(b) : w[3 + i] = b[i]
      /\ w[Len(b) + 4] = "~" /\ w[Len(b) + 5] = "m" /\ w[Len(b) + 6] = "~"
  BY FrameFacts, BetweenByChar
<1>2. /\ c \in {7, 8} /\ Len(t) = c + Len(b) + Len(r)
      /\ t[c - 2] = "~" /\ t[c - 1] = "m" /\ t[c] = "~"
      /\ \A i \in 1 .. Len(b) : t[c + i] = b[i]
      /\ \A i \in 1 .. Len(r) : t[c + Len(b) + i] = r[i]
  BY DEF FrameChars
<1>3. /\ Len(r) \in Nat
      /\ Len(r) > 0 => Len(r) >= 3 /\ r[1] = "~" /\ r[2] = "m" /\ r[3] = "~"
  <2>1. r \in Seq(Chars)
    BY DEF Follows, Text
  <2>2. Len(r) \in Nat /\ (r = <<>> => Len(r) = 0)
    BY <2>1, LenProperties
  <2> QED
    BY <2>2 DEF Follows
<1>4. j \in 1 .. Len(b) + 6 /\ (c - 3) + j <= Len(t)
  OBVIOUS
<1> HIDE DEF b, w
<1>5. CASE j <= 3
  <2>1. j = 1 \/ j = 2 \/ j = 3
    BY <1>1, <1>4, <1>5
  <2>2. (c - 3) + 1 = c - 2 /\ (c - 3) + 2 = c - 1 /\ (c - 3) + 3 = c
    BY <1>2
  <2> QED
    BY <1>1, <1>2, <2>1, <2>2
<1>6. CASE j > 3 /\ j <= Len(b) + 3
  <2>1. j - 3 \in 1 .. Len(b) /\ 3 + (j - 3) = j /\ (c - 3) + j = c + (j - 3)
    BY <1>1, <1>2, <1>4, <1>6
  <2>2. w[3 + (j - 3)] = b[j - 3] /\ t[c + (j - 3)] = b[j - 3]
    BY <1>1, <1>2, <2>1
  <2> QED
    BY <2>1, <2>2
<1>7. CASE j > Len(b) + 3
  <2> DEFINE k == j - (Len(b) + 3)
  <2>1. k \in 1 .. 3 /\ j = Len(b) + (3 + k) /\ (c - 3) + j = c + Len(b) + k /\ k <= Len(r)
    <3>1. /\ c \in Int /\ Len(b) \in Nat /\ Len(r) \in Nat /\ j \in Int
          /\ j <= Len(b) + 6 /\ j > Len(b) + 3
          /\ (c - 3) + j <= c + Len(b) + Len(r)
      BY <1>1, <1>2, <1>3, <1>4, <1>7
    <3> QED
      BY <3>1
  <2> HIDE DEF k
  <2>2. k \in 1 .. Len(r) /\ (k = 1 \/ k = 2 \/ k = 3) /\ Len(r) > 0
    BY <1>3, <2>1
  <2>3. t[c + Len(b) + k] = r[k]
    BY <1>2, <2>2
  <2>4. w[Len(b) + (3 + k)] = r[k]
    <3>1. 3 + 1 = 4 /\ 3 + 2 = 5 /\ 3 + 3 = 6
      OBVIOUS
    <3> QED
      BY <1>1, <1>3, <2>2, <3>1
  <2>5. t[(c - 3) + j] = w[j]
    BY <2>1, <2>3, <2>4
  <2> QED
    BY <2>5
<1>8. j <= 3 \/ (j > 3 /\ j <= Len(b) + 3) \/ j > Len(b) + 3
  BY <1>1, <1>4
<1> QED
  BY <1>5, <1>6, <1>7, <1>8

\* Where the tag occurs in a frame and what follows it.
LEMMA TagInFrame ==
    ASSUME NEW f \in FramesSet, NEW r, Follows(r), NEW t, NEW c, FrameChars(f, r, t, c),
           NEW i \in Occurrences(Tag, t)
    PROVE  \/ i = c + 1 /\ IsPrefix(Tag, f.body)
           \/ i - (c + Len(f.body)) \in Occurrences(Tag, r)
<1> DEFINE b == f.body
           w == Marker \o b \o Marker
           l == c + Len(b)
<1>1. /\ b \in Text /\ Len(b) \in Nat
      /\ Occurrences(Tag, w) = {j \in {4} : IsPrefix(Tag, b)}
  <2>1. 3 + 1 = 4
    OBVIOUS
  <2> QED
    BY <2>1, FrameFacts, Literals DEF Separable
<1>2. w \in Text /\ Len(w) = Len(b) + 6
  BY FrameFacts, BetweenByChar
<1>3. /\ t \in Text /\ c \in {7, 8} /\ Len(t) = l + Len(r)
      /\ \A j \in 1 .. c : t[j] # "h"
      /\ \A j \in 1 .. Len(r) : t[l + j] = r[j]
  BY DEF FrameChars
<1>4. r \in Text /\ Len(r) \in Nat
  BY LenProperties DEF Follows, Text
<1>5. i \in Int
  BY DEF Occurrences
<1>6. /\ i \in 1 .. Len(t) - 2
      /\ t[i] = "~" /\ t[i + 1] = "h" /\ t[i + 2] = "~"
  BY <1>3, <1>5, TagIs
<1>7. \A j \in 1 .. Len(b) + 6 : (c - 3) + j <= Len(t) => t[(c - 3) + j] = w[j]
  <2>1. Window(b, t, c)
    BY FrameWindow
  <2> QED
    BY <2>1 DEF Window
<1> HIDE DEF b, w
<1>8. i >= c
  <2>1. i + 1 \in 1 .. c => FALSE
    BY <1>3, <1>6
  <2> QED
    BY <1>3, <1>6, <2>1
<1>9. CASE i > l
  <2> DEFINE k == i - l
  <2>1. /\ k \in 1 .. Len(r) - 2 /\ k \in 1 .. Len(r) /\ k + 1 \in 1 .. Len(r) /\ k + 2 \in 1 .. Len(r)
        /\ l + k = i /\ l + (k + 1) = i + 1 /\ l + (k + 2) = i + 2
    BY <1>1, <1>3, <1>4, <1>6, <1>9
  <2> HIDE DEF k, l
  <2>2. r[k] = "~" /\ r[k + 1] = "h" /\ r[k + 2] = "~"
    BY <1>3, <1>6, <2>1
  <2>3. k \in Occurrences(Tag, r)
    BY <1>4, <2>1, <2>2, TagIs
  <2> QED
    BY <2>3 DEF k, l, b
<1>10. CASE i <= l
  <2> DEFINE j == i - (c - 3)
  <2>1. /\ j \in 1 .. Len(b) + 6 /\ j + 1 \in 1 .. Len(b) + 6 /\ j + 2 \in 1 .. Len(b) + 6
        /\ (c - 3) + j = i /\ (c - 3) + (j + 1) = i + 1 /\ (c - 3) + (j + 2) = i + 2
        /\ i <= Len(t) /\ i + 1 <= Len(t) /\ i + 2 <= Len(t)
        /\ j \in 1 .. (Len(b) + 6) - 2
    <3>1. i <= Len(t) /\ i + 1 <= Len(t) /\ i + 2 <= Len(t)
      BY <1>3, <1>4, <1>6, <1>10
    <3>2. /\ (c - 3) + j = i /\ (c - 3) + (j + 1) = i + 1 /\ (c - 3) + (j + 2) = i + 2
          /\ j \in 1 .. (Len(b) + 6) - 2
      BY <1>1, <1>3, <1>6, <1>8, <1>10
    <3>3. j \in 1 .. Len(b) + 6 /\ j + 1 \in 1 .. Len(b) + 6 /\ j + 2 \in 1 .. Len(b) + 6
      BY <1>1, <3>2
    <3> QED
      BY <3>1, <3>2, <3>3
  <2> HIDE DEF j, l
  <2>2. w[j] = "~" /\ w[j + 1] = "h" /\ w[j + 2] = "~"
    BY <1>6, <1>7, <2>1
  <2>3. j \in Occurrences(Tag, w)
    BY <1>2, <2>1, <2>2, TagIs
  <2>4. j = 4 /\ IsPrefix(Tag, b)
    BY <1>1, <2>3
  <2>5. i = c + 1
    BY <1>3, <2>4, <2>1
  <2> QED
    BY <2>4, <2>5 DEF b
<1>11. i > l \/ i <= l
  BY <1>1, <1>3, <1>5
<1> QED
  BY <1>9, <1>10, <1>11 DEF b

LEMMA TagAfterFrame ==
    ASSUME NEW f \in FramesSet, NEW r, Follows(r), NEW t, NEW c, FrameChars(f, r, t, c),
           NEW i \in Occurrences(Tag, r)
    PROVE  (c + Len(f.body)) + i \in Occurrences(Tag, t)
<1> DEFINE l == c + Len(f.body)
<1>1. /\ t \in Text /\ l \in Nat /\ Len(t) = l + Len(r)
      /\ \A j \in 1 .. Len(r) : t[l + j] = r[j]
  BY FrameFacts DEF FrameChars
<1>2. r \in Text /\ Len(r) \in Nat /\ i \in Int
  BY LenProperties DEF Follows, Text, Occurrences
<1>3. i \in 1 .. Len(r) - 2 /\ r[i] = "~" /\ r[i + 1] = "h" /\ r[i + 2] = "~"
  BY <1>2, TagIs
<1> HIDE DEF l
<1>4. /\ l + i \in 1 .. Len(t) - 2
      /\ i \in 1 .. Len(r) /\ i + 1 \in 1 .. Len(r) /\ i + 2 \in 1 .. Len(r)
      /\ l + (i + 1) = (l + i) + 1 /\ l + (i + 2) = (l + i) + 2
  BY <1>1, <1>2, <1>3
<1>5. t[l + i] = "~" /\ t[(l + i) + 1] = "h" /\ t[(l + i) + 2] = "~"
  BY <1>1, <1>3, <1>4
<1>6. l + i \in Occurrences(Tag, t)
  BY <1>1, <1>4, <1>5, TagIs
<1> QED
  BY <1>6 DEF l

\* The header of a negative length is what it looks like.
LEMMA MinusInFrame ==
    ASSUME NEW f \in FramesSet, NEW r, Follows(r), NEW t, NEW c, FrameChars(f, r, t, c),
           NEW i \in Occurrences(Minus, t)
    PROVE  Declared(f) < 0 \/ i - (c + Len(f.body)) \in Occurrences(Minus, r)
<1> DEFINE b == f.body
           w == Marker \o b \o Marker
           l == c + Len(b)
<1>1. b \in Text /\ Len(b) \in Nat /\ Occurrences(Minus, w) = {}
  BY FrameFacts DEF Separable, Occurs, Minus
<1>2. w \in Text /\ Len(w) = Len(b) + 6
  BY FrameFacts, BetweenByChar
<1>3. /\ t \in Text /\ c \in {7, 8} /\ Len(t) = l + Len(r)
      /\ \A j \in 1 .. c : t[j] = "-" => j = 4 /\ Declared(f) < 0
      /\ \A j \in 1 .. Len(r) : t[l + j] = r[j]
  BY DEF FrameChars
<1>4. /\ r \in Text /\ Len(r) \in Nat
      /\ Len(r) > 0 => Len(r) >= 3 /\ r[1] = "~" /\ r[2] = "m" /\ r[3] = "~"
  <2>1. r \in Seq(Chars)
    BY DEF Follows, Text
  <2>2. Len(r) \in Nat /\ (r = <<>> => Len(r) = 0)
    BY <2>1, LenProperties
  <2> QED
    BY <2>1, <2>2 DEF Follows, Text
<1>5. i \in Int
  BY DEF Occurrences
<1>6. /\ i \in 1 .. Len(t) - 3
      /\ t[i] = "~" /\ t[i + 1] = "m" /\ t[i + 2] = "~" /\ t[i + 3] = "-"
  BY <1>3, <1>5, MinusIs
<1>7. \A j \in 1 .. Len(b) + 6 : (c - 3) + j <= Len(t) => t[(c - 3) + j] = w[j]
  <2>1. Window(b, t, c)
    BY FrameWindow
  <2> QED
    BY <2>1 DEF Window
<1> HIDE DEF b, w
<1>8. CASE i + 3 <= c
  <2>1. i + 3 \in 1 .. c
    BY <1>3, <1>6, <1>8
  <2> QED
    BY <1>3, <1>6, <2>1
<1>9. CASE i + 3 > c /\ i <= l
  <2> DEFINE j == i - (c - 3)
  <2>1. /\ j \in 1 .. Len(b) + 6 /\ j + 1 \in 1 .. Len(b) + 6 /\ j + 2 \in 1 .. Len(b) + 6
        /\ j + 3 \in 1 .. Len(b) + 6
        /\ (c - 3) + j = i /\ (c - 3) + (j + 1) = i + 1 /\ (c - 3) + (j + 2) = i + 2
        /\ (c - 3) + (j + 3) = i + 3
        /\ i <= Len(t) /\ i + 1 <= Len(t) /\ i + 2 <= Len(t) /\ i + 3 <= Len(t)
        /\ j \in 1 .. (Len(b) + 6) - 3
    BY <1>1, <1>3, <1>4, <1>6, <1>9
  <2> HIDE DEF j, l
  <2>2. w[j] = "~" /\ w[j + 1] = "m" /\ w[j + 2] = "~" /\ w[j + 3] = "-"
    BY <1>6, <1>7, <2>1
  <2>3. j \in Occurrences(Minus, w)
    BY <1>2, <2>1, <2>2, MinusIs
  <2> QED
    BY <1>1, <2>3
<1>10. CASE i > l
  <2> DEFINE k == i - l
  <2>1. /\ k \in 1 .. Len(r) - 3 /\ k \in 1 .. Len(r) /\ k + 1 \in 1 .. Len(r)
        /\ k + 2 \in 1 .. Len(r) /\ k + 3 \in 1 .. Len(r)
        /\ l + k = i /\ l + (k + 1) = i + 1 /\ l + (k + 2) = i + 2 /\ l + (k + 3) = i + 3
    BY <1>1, <1>3, <1>4, <1>6, <1>10
  <2> HIDE DEF k, l
  <2>2. r[k] = "~" /\ r[k + 1] = "m" /\ r[k + 2] = "~" /\ r[k + 3] = "-"
    BY <1>3, <1>6, <2>1
  <2>3. k \in Occurrences(Minus, r)
    BY <1>4, <2>1, <2>2, MinusIs
  <2> QED
    BY <2>3 DEF k, l, b
<1>11. i + 3 <= c \/ (i + 3 > c /\ i <= l) \/ i > l
  BY <1>1, <1>3, <1>5
<1> QED
  BY <1>8, <1>9, <1>10, <1>11 DEF b

\* The message after k frames, one more frame taken off.
LEMMA RestIsFrame ==
    ASSUME NEW b \in Batches, NEW k \in 0 .. Len(b), k # Len(b)
    PROVE  /\ k + 1 \in 1 .. Len(b) /\ k + 1 \in 0 .. Len(b)
           /\ b[k + 1] \in FramesSet
           /\ Follows(Rest(b, k + 1))
           /\ Rest(b, k) = Piece(b[k + 1]) \o Rest(b, k + 1)
           /\ FrameChars(b[k + 1], Rest(b, k + 1), Rest(b, k),
                         Len(Piece(b[k + 1])) - Len(b[k + 1].body))
<1>1. k + 1 \in 1 .. Len(b) /\ k + 1 \in 0 .. Len(b) /\ k < Len(b)
  BY BatchFacts
<1>2. b[k + 1] \in FramesSet
  BY <1>1, BatchFacts
<1>3. /\ Rest(b, k + 1) \in Text
      /\ Rest(b, k) = Piece(b[k + 1]) \o Rest(b, k + 1)
  BY <1>1, RestFacts
<1> QED
  BY <1>1, <1>2, <1>3, RestFollows, FrameByChar

LEMMA MinusInMessage ==
    ASSUME NEW b \in Batches, Occurs(Minus, Wire(b))
    PROVE  \E f \in Range(b) : Declared(f) < 0
<1> SUFFICES ASSUME \A f \in Range(b) : ~ (Declared(f) < 0)
             PROVE  FALSE
  OBVIOUS
<1> DEFINE l == Len(b)
           T == {i \in 1 .. l + 1 : Occurrences(Minus, Rest(b, (l + 1) - i)) = {}}
<1>1. l \in Nat /\ DOMAIN b = 1 .. l
  BY BatchFacts
<1> HIDE DEF l
<1>2. 1 \in T
  <2>1. 1 \in 1 .. l + 1 /\ (l + 1) - 1 = l /\ l \in 0 .. l
    BY <1>1
  <2>2. Rest(b, l) = <<>>
    BY <2>1, RestFacts DEF l
  <2>3. Occurrences(Minus, <<>>) = {}
    <3>1. <<>> \in Text /\ Len(<<>>) = 0
      BY DEF Text
    <3>2. \A i \in Occurrences(Minus, <<>>) : i \in Int
      BY DEF Occurrences
    <3>3. \A i \in Int : i \notin 1 .. Len(<<>>) - 3
      BY <3>1
    <3> QED
      BY <3>1, <3>2, <3>3, MinusIs
  <2> QED
    BY <2>1, <2>2, <2>3
<1>3. ASSUME NEW i \in 1 .. (l + 1) - 1, i \in T
      PROVE  i + 1 \in T
  <2> DEFINE k == (l + 1) - (i + 1)
  <2>1. k \in 0 .. l /\ k # l /\ (l + 1) - i = k + 1 /\ i + 1 \in 1 .. l + 1
    BY <1>1
  <2> HIDE DEF k
  <2>2. /\ k + 1 \in 1 .. l /\ b[k + 1] \in FramesSet /\ Follows(Rest(b, k + 1))
        /\ FrameChars(b[k + 1], Rest(b, k + 1), Rest(b, k),
                      Len(Piece(b[k + 1])) - Len(b[k + 1].body))
    BY <2>1, RestIsFrame DEF l
  <2>3. ~ (Declared(b[k + 1]) < 0)
    BY <1>1, <2>2 DEF Range
  <2>4. Occurrences(Minus, Rest(b, k + 1)) = {}
    BY <1>3, <2>1
  <2>5. Occurrences(Minus, Rest(b, k)) = {}
    BY <2>2, <2>3, <2>4, MinusInFrame
  <2> QED
    BY <2>1, <2>5 DEF k
<1>4. l + 1 \in T
  <2>1. \A i \in 1 .. l + 1 : i \in T
    <3>1. l + 1 \in Nat
      BY <1>1
    <3> HIDE DEF T
    <3> QED
      BY <1>2, <1>3, <3>1, InductionTo
  <2>2. l + 1 \in 1 .. l + 1
    BY <1>1
  <2> HIDE DEF T
  <2> QED
    BY <2>1, <2>2
<1>5. Occurrences(Minus, Wire(b)) = {}
  <2>1. (l + 1) - (l + 1) = 0 /\ 0 \in 0 .. l
    BY <1>1
  <2>2. Rest(b, 0) = Wire(b)
    BY <2>1, RestFacts DEF l
  <2> QED
    BY <1>4, <2>1, <2>2
<1> QED
  BY <1>5 DEF Occurs

-----------------------------------------------------------------------------
(* The heartbeat of a message *)

LEMMA Rejoin ==
    ASSUME NEW t \in Text, NEW k \in 0 .. Len(t)
    PROVE  t = SubSeq(t, 1, k) \o From(t, k + 1)
<1> DEFINE x == SubSeq(t, 1, k)
           y == From(t, k + 1)
<1>1. Len(t) \in Nat
  BY LenProperties DEF Text
<1>2. /\ x \in Text /\ Len(x) = k /\ \A i \in 1 .. k : x[i] = t[i]
      /\ y \in Text /\ Len(y) = Len(t) - k
      /\ \A i \in 1 .. Len(t) - k : y[i] = t[k + i]
  BY CutText
<1> HIDE DEF x, y
<1> DEFINE z == x \o y
<1>3. /\ z \in Text /\ Len(z) = k + (Len(t) - k)
      /\ \A i \in 1 .. k : z[i] = x[i]
      /\ \A i \in 1 .. Len(t) - k : z[k + i] = y[i]
  <2>1. /\ z \in Text /\ Len(z) = Len(x) + Len(y)
        /\ \A i \in 1 .. Len(x) : z[i] = x[i]
        /\ \A i \in 1 .. Len(y) : z[Len(x) + i] = y[i]
    BY <1>2, JoinText
  <2> HIDE DEF z
  <2> QED
    BY <1>2, <2>1
<1> HIDE DEF z
<1>4. Len(z) = Len(t)
  BY <1>1, <1>3
<1>5. ASSUME NEW i \in 1 .. Len(t)
      PROVE  z[i] = t[i]
  <2>1. CASE i <= k
    <3>1. i \in 1 .. k
      BY <2>1
    <3> QED
      BY <1>2, <1>3, <3>1
  <2>2. CASE i > k
    <3> DEFINE j == i - k
    <3>1. j \in 1 .. Len(t) - k /\ k + j = i
      BY <1>1, <2>2
    <3> HIDE DEF j
    <3>2. z[k + j] = y[j] /\ y[j] = t[k + j]
      BY <1>2, <1>3, <3>1
    <3> QED
      BY <3>1, <3>2
  <2> QED
    BY <2>1, <2>2
<1> QED
  BY <1>3, <1>4, <1>5, SeqEqual DEF Text, x, y, z

LEMMA FromJoined ==
    ASSUME NEW x \in Text, NEW r \in Text, NEW k \in 0 .. Len(r)
    PROVE  From(x \o r, (Len(x) + k) + 1) = From(r, k + 1)
<1> DEFINE t == x \o r
           l == Len(x) + k
<1>1. /\ t \in Text /\ Len(x) \in Nat /\ Len(r) \in Nat /\ Len(t) = Len(x) + Len(r)
      /\ \A i \in 1 .. Len(r) : t[Len(x) + i] = r[i]
  BY JoinText
<1> HIDE DEF t
<1>2. l \in 0 .. Len(t) /\ Len(t) - l = Len(r) - k
  BY <1>1
<1>3. \A i \in 1 .. Len(r) - k : l + i = Len(x) + (k + i) /\ k + i \in 1 .. Len(r)
  BY <1>1
<1> HIDE DEF l
<1>4. /\ From(t, l + 1) \in Text /\ Len(From(t, l + 1)) = Len(r) - k
      /\ \A i \in 1 .. Len(r) - k : From(t, l + 1)[i] = t[l + i]
  <2>1. t \in Text /\ l \in 0 .. Len(t)
    BY <1>1, <1>2
  <2>2. /\ From(t, l + 1) \in Text /\ Len(From(t, l + 1)) = Len(t) - l
        /\ \A i \in 1 .. Len(t) - l : From(t, l + 1)[i] = t[l + i]
    BY <2>1, CutText
  <2>3. Len(t) - l = Len(r) - k
    BY <1>2
  <2> QED
    BY <2>2, <2>3
<1>5. /\ From(r, k + 1) \in Text /\ Len(From(r, k + 1)) = Len(r) - k
      /\ \A i \in 1 .. Len(r) - k : From(r, k + 1)[i] = r[k + i]
  BY CutText
<1>6. ASSUME NEW i \in 1 .. Len(r) - k
      PROVE  From(t, l + 1)[i] = From(r, k + 1)[i]
  <2>1. From(t, l + 1)[i] = t[l + i] /\ From(r, k + 1)[i] = r[k + i]
    BY <1>4, <1>5
  <2> DEFINE j == k + i
  <2>2. l + i = Len(x) + j /\ j \in 1 .. Len(r)
    BY <1>3
  <2> HIDE DEF j
  <2>3. t[l + i] = r[j]
    BY <1>1, <2>2
  <2> QED
    BY <2>1, <2>3 DEF j
<1> QED
  BY <1>4, <1>5, <1>6, SeqEqual DEF Text, t, l

LEMMA TildeIs ==
    ASSUME NEW t \in Text, NEW i \in Int
    PROVE  i \in Occurrences(<<"~">>, t) <=> i \in 1 .. Len(t) /\ t[i] = "~"
<1>1. Len(t) \in Nat
  BY LenProperties DEF Text
<1>2. <<"~">> \in Text /\ Len(<<"~">>) = 1 /\ <<"~">>[1] = "~" /\ <<"~">> # <<>>
  BY DEF Text, Chars
<1>3. i \in Occurrences(<<"~">>, t) <=>
         /\ i \in 1 .. Len(t) - 1 + 1
         /\ \A j \in 1 .. 1 : t[i + j - 1] = <<"~">>[j]
  BY <1>2, OccurrenceIs
<1>4. (\A j \in 1 .. 1 : t[i + j - 1] = <<"~">>[j]) <=> t[i + 1 - 1] = <<"~">>[1]
  OBVIOUS
<1>5. i + 1 - 1 = i
  OBVIOUS
<1> QED
  BY <1>1, <1>2, <1>3, <1>4, <1>5

\* A frame without the tag in front does not change what follows the first tag.
LEMMA TagIsLater ==
    ASSUME NEW x \in Text, NEW r \in Text, Occurs(Tag, r),
           \A i \in Occurrences(Tag, x \o r) : i - Len(x) \in Occurrences(Tag, r),
           \A i \in Occurrences(Tag, r) : Len(x) + i \in Occurrences(Tag, x \o r)
    PROVE  After(Tag, x \o r) = After(Tag, r)
<1> DEFINE t == x \o r
           m == Min(Occurrences(Tag, r))
<1>1. t \in Text /\ Len(x) \in Nat /\ Len(r) \in Nat
  BY JoinText
<1>2. Occurrences(Tag, r) \subseteq 1 .. Len(r) - 2 /\ Occurrences(Tag, r) # {}
  <2>1. \A i \in Occurrences(Tag, r) : i \in Int
    BY DEF Occurrences
  <2> QED
    BY <2>1, TagIs DEF Occurs
<1>3. m \in Occurrences(Tag, r) /\ \A i \in Occurrences(Tag, r) : m <= i
  <2>1. Occurrences(Tag, r) \subseteq Nat
    BY <1>1, <1>2
  <2> QED
    BY <1>2, <2>1, LeastElement
<1>4. \A i \in Occurrences(Tag, t) : i \in Int
  BY DEF Occurrences
<1>5. /\ \A i \in Occurrences(Tag, t) : i - Len(x) \in Occurrences(Tag, r)
      /\ \A i \in Occurrences(Tag, r) : Len(x) + i \in Occurrences(Tag, t)
  OBVIOUS
<1> HIDE DEF m, t
<1>6. m \in 1 .. Len(r) - 2
  BY <1>2, <1>3
<1>7. Min(Occurrences(Tag, t)) = Len(x) + m
  <2>1. ASSUME NEW i \in Occurrences(Tag, t)
        PROVE  Len(x) + m <= i
    <3>1. m <= i - Len(x) /\ i \in Int
      BY <1>3, <1>4, <1>5
    <3> QED
      BY <1>1, <1>6, <3>1
  <2>2. Len(x) + m \in Occurrences(Tag, t)
    BY <1>3, <1>5
  <2> QED
    BY <1>1, <2>1, <2>2, Literals, LeastOccurrence
<1>8. After(Tag, t) = From(t, (Len(x) + m) + 3)
  BY <1>7, Literals DEF After
<1>9. After(Tag, r) = From(r, m + 3)
  BY Literals DEF After, m
<1>10. /\ m + 2 \in 0 .. Len(r) /\ (m + 2) + 1 = m + 3
       /\ (Len(x) + (m + 2)) + 1 = (Len(x) + m) + 3
  BY <1>1, <1>6
<1>11. From(t, (Len(x) + (m + 2)) + 1) = From(r, (m + 2) + 1)
  BY <1>10, FromJoined DEF t
<1> QED
  BY <1>8, <1>9, <1>10, <1>11 DEF t

LEMMA PieceIs ==
    ASSUME NEW f \in FramesSet
    PROVE  \E h \in Text : /\ Piece(f) = h \o f.body
                           /\ Piece(f) \in Text
                           /\ Len(h) = Len(Piece(f)) - Len(f.body)
<1> DEFINE h == Marker \o Decimal(Declared(f)) \o Marker
           b == f.body
<1>1. h \in Text
  <2>1. Decimal(Declared(f)) \in Text /\ Marker \in Text
    BY FrameFacts, DecimalFacts, Literals
  <2> QED
    BY <2>1, RegroupThree
<1>2. Piece(f) = h \o b /\ b \in Text
  BY FrameFacts DEF Piece, Framed
<1> HIDE DEF h, b
<1>3. h \o b \in Text /\ Len(h) \in Nat /\ Len(b) \in Nat /\ Len(h \o b) = Len(h) + Len(b)
  BY <1>1, <1>2, JoinText
<1>4. Len(h) = Len(Piece(f)) - Len(b)
  BY <1>2, <1>3
<1> QED
  BY <1>1, <1>2, <1>3, <1>4 DEF b

\* A heartbeat, a tag and what is left of it.
LEMMA BeatIs ==
    ASSUME NEW f \in FramesSet, IsPrefix(Tag, f.body)
    PROVE  /\ From(f.body, 4) \in Text
           /\ f.body = Tag \o From(f.body, 4)
           /\ ~Occurs(<<"~">>, From(f.body, 4))
<1> DEFINE b == f.body
<1>1. b \in Text /\ Len(b) \in Nat /\ Separable(b)
  BY FrameFacts
<1>2. IsPrefix(Tag, b)
  OBVIOUS
<1>3. ~Occurs(<<"~">>, From(b, Len(Tag) + 1))
  BY <1>1, <1>2 DEF Separable
<1> HIDE DEF b
<1>4. Len(b) >= 3
  BY <1>1, <1>2, TagFirst
<1>5. SubSeq(b, 1, 3) = Tag
  <2>1. Tag = SubSeq(b, 1, Len(Tag)) \/ SubSeq(Tag, 1, Len(Tag)) = SubSeq(b, 1, Len(Tag))
    BY <1>2 DEF IsPrefix
  <2>2. SubSeq(Tag, 1, 3) = Tag
    BY Literals, SubSeqFull DEF Text
  <2> QED
    BY <2>1, <2>2, Literals
<1>6. 3 \in 0 .. Len(b) /\ 3 + 1 = 4
  BY <1>1, <1>4
<1>7. b = Tag \o From(b, 4) /\ From(b, 4) \in Text
  <2>1. b \in Text /\ 3 \in 0 .. Len(b)
    BY <1>1, <1>6
  <2>2. b = SubSeq(b, 1, 3) \o From(b, 3 + 1)
    BY <2>1, Rejoin
  <2>3. From(b, 3 + 1) \in Text
    BY <2>1, CutText
  <2>4. 3 + 1 = 4
    OBVIOUS
  <2> QED
    BY <1>5, <2>2, <2>3, <2>4
<1> QED
  BY <1>3, <1>6, <1>7, Literals DEF b

\* Up to the next frame there is no tilde after the tag of a heartbeat.
LEMMA NumberBefore ==
    ASSUME NEW p \in Text, NEW r, Follows(r), ~Occurs(<<"~">>, p)
    PROVE  (IF Occurs(<<"~">>, p \o r) THEN Before(<<"~">>, p \o r) ELSE p \o r) = p
<1> DEFINE s == <<"~">>
<1>1. s \in Text /\ s # <<>> /\ Len(s) = 1
  BY DEF Text, Chars
<1>2. r \in Text /\ Len(r) \in Nat
  BY LenProperties DEF Follows, Text
<1>3. ~Occurs(s, p)
  OBVIOUS
<1> HIDE DEF s
<1>4. CASE r = <<>>
  <2>1. p \o r = p
    BY <1>4, ConcatEmptySeq DEF Text
  <2> QED
    BY <1>3, <2>1 DEF s
<1>5. CASE r # <<>>
  <2> DEFINE y == From(r, 2)
  <2>1. Len(r) >= 3 /\ r[1] = "~"
    BY <1>5 DEF Follows
  <2>2. 1 \in 0 .. Len(r) /\ 1 + 1 = 2
    BY <1>2, <2>1
  <2>3. r = SubSeq(r, 1, 1) \o y /\ y \in Text
    BY <1>2, <2>2, Rejoin, CutText
  <2>4. SubSeq(r, 1, 1) = s
    <3>1. /\ SubSeq(r, 1, 1) \in Text /\ Len(SubSeq(r, 1, 1)) = 1
          /\ \A i \in 1 .. 1 : SubSeq(r, 1, 1)[i] = r[i]
      BY <1>2, <2>2, CutText
    <3>2. \A i \in 1 .. 1 : SubSeq(r, 1, 1)[i] = s[i]
      BY <2>1, <3>1 DEF s
    <3> QED
      BY <1>1, <3>1, <3>2, SeqEqual DEF Text
  <2> HIDE DEF y
  <2> DEFINE t == p \o r
  <2>5. /\ t \in Text /\ Len(p) \in Nat
        /\ \A i \in 1 .. Len(p) : t[i] = p[i]
    BY <1>2, JoinText
  <2>6. ASSUME NEW i \in Occurrences(s, t)
        PROVE  i > Len(p)
    <3> HIDE DEF t
    <3>1. i \in Int
      BY DEF Occurrences
    <3>2. i \in 1 .. Len(t) /\ t[i] = "~"
      BY <2>5, <3>1, TildeIs DEF s
    <3>3. CASE i <= Len(p)
      <4>1. i \in 1 .. Len(p)
        BY <3>2, <3>3
      <4>2. p[i] = "~"
        BY <2>5, <3>2, <4>1
      <4>3. i \in Occurrences(s, p)
        BY <3>1, <4>1, <4>2, TildeIs DEF s
      <4> QED
        BY <1>3, <4>3 DEF Occurs
    <3> QED
      BY <2>5, <3>1, <3>3
  <2>7. r = s \o y
    BY <2>3, <2>4
  <2>8. Occurs(s, p \o (s \o y)) /\ Before(s, p \o (s \o y)) = p
    <3>1. \A i \in Occurrences(s, p \o (s \o y)) : i > Len(p)
      BY <2>6, <2>7
    <3> QED
      BY <1>1, <2>3, <3>1, FirstAt
  <2> QED
    BY <2>7, <2>8 DEF s
<1> QED
  BY <1>4, <1>5

\* What is sent back if the first frame is a heartbeat.
LEMMA FirstBeat ==
    ASSUME NEW f \in FramesSet, NEW r, Follows(r), IsPrefix(Tag, f.body)
    PROVE  LET t == Piece(f) \o r IN Occurs(Tag, t) /\ Tag \o Number(t) = f.body
<1> DEFINE b == f.body
           p == From(b, 4)
           t == Piece(f) \o r
<1>1. p \in Text /\ b = Tag \o p /\ ~Occurs(<<"~">>, p)
  BY BeatIs
<1>2. r \in Text /\ Len(r) \in Nat
  BY LenProperties DEF Follows, Text
<1>3. PICK h \in Text : Piece(f) = h \o b /\ Len(h) = Len(Piece(f)) - Len(b)
  BY PieceIs
<1>4. FrameChars(f, r, t, Len(h))
  BY <1>2, <1>3, FrameByChar
<1>5. b \in Text /\ Len(b) \in Nat /\ Len(h) \in Nat
  BY FrameFacts, LenProperties DEF Text
<1>6. \A i \in Occurrences(Tag, t) : i > Len(h)
  <2> TAKE i \in Occurrences(Tag, t)
  <2>1. i = Len(h) + 1 \/ i - (Len(h) + Len(b)) \in Occurrences(Tag, r)
    BY <1>4, TagInFrame
  <2>2. i \in Int
    BY DEF Occurrences
  <2>3. i - (Len(h) + Len(b)) \in Occurrences(Tag, r) => i - (Len(h) + Len(b)) \in 1 .. Len(r) - 2
    <3>1. \A j \in Int : j \in Occurrences(Tag, r) => j \in 1 .. Len(r) - 2
      BY <1>2, TagIs
    <3>2. i - (Len(h) + Len(b)) \in Int
      BY <1>5, <2>2
    <3> HIDE DEF t, b
    <3> QED
      BY <3>1, <3>2
  <2> HIDE DEF t, b
  <2> QED
    BY <1>2, <1>5, <2>1, <2>2, <2>3
<1> HIDE DEF p, b
<1>7. t = h \o (Tag \o (p \o r)) /\ p \o r \in Text
  <2>1. t = h \o (b \o r)
    BY <1>2, <1>3, <1>5, Regroup
  <2>2. b \o r = Tag \o (p \o r)
    <3>1. Tag \in Text /\ p \in Text
      BY <1>1, Literals
    <3>2. (Tag \o p) \o r = Tag \o (p \o r)
      <4> HIDE DEF p, t
      <4> QED
        BY <1>2, <3>1, Regroup
    <3> QED
      BY <1>1, <3>2
  <2>3. p \o r \in Text
    BY <1>1, <1>2, JoinText
  <2> QED
    BY <2>1, <2>2, <2>3
<1> HIDE DEF t
<1>8. Occurs(Tag, t) /\ After(Tag, t) = p \o r
  <2>1. \A i \in Occurrences(Tag, h \o (Tag \o (p \o r))) : i > Len(h)
    BY <1>6, <1>7
  <2>2. Tag \in Text /\ Tag # <<>>
    BY Literals
  <2> QED
    BY <1>7, <2>1, <2>2, FirstAt
<1>9. Number(t) = p
  BY <1>1, <1>8, NumberBefore DEF Number
<1> QED
  BY <1>1, <1>8, <1>9 DEF t, b

\* A frame that is no heartbeat changes nothing about what is sent back.
LEMMA LaterBeat ==
    ASSUME NEW f \in FramesSet, NEW r, Follows(r), ~IsPrefix(Tag, f.body)
    PROVE  LET t == Piece(f) \o r IN
           /\ Occurs(Tag, t) <=> Occurs(Tag, r)
           /\ Occurs(Tag, r) => Number(t) = Number(r)
<1> DEFINE t == Piece(f) \o r
<1>1. r \in Text /\ f.body \in Text
  BY FrameFacts DEF Follows
<1>2. PICK h \in Text : /\ Piece(f) = h \o f.body
                        /\ Piece(f) \in Text
                        /\ Len(h) = Len(Piece(f)) - Len(f.body)
  BY PieceIs
<1>3. FrameChars(f, r, t, Len(h))
  BY <1>1, <1>2, FrameByChar
<1>4. Len(h) + Len(f.body) = Len(Piece(f))
  <2>1. Len(f.body) \in Nat /\ Len(Piece(f)) \in Nat
    BY <1>1, <1>2, LenProperties DEF Text
  <2> QED
    BY <1>2, <2>1
<1>5. \A i \in Occurrences(Tag, t) : i - Len(Piece(f)) \in Occurrences(Tag, r)
  BY <1>3, <1>4, TagInFrame
<1>6. \A i \in Occurrences(Tag, r) : Len(Piece(f)) + i \in Occurrences(Tag, t)
  BY <1>3, <1>4, TagAfterFrame
<1>7. Occurs(Tag, t) <=> Occurs(Tag, r)
  BY <1>5, <1>6 DEF Occurs
<1>8. ASSUME Occurs(Tag, r)
      PROVE  Number(t) = Number(r)
  <2>1. After(Tag, t) = After(Tag, r)
    BY <1>1, <1>2, <1>5, <1>6, <1>8, TagIsLater
  <2> HIDE DEF t
  <2> QED
    BY <2>1 DEF Number
<1> QED
  BY <1>7, <1>8

\* What is sent back for the message after k frames.
Answer(b, k) ==
    /\ (\A i \in k + 1 .. Len(b) : ~IsPrefix(Tag, b[i].body)) => ~Occurs(Tag, Rest(b, k))
    /\ \A j \in k + 1 .. Len(b) :
          IsPrefix(Tag, b[j].body) /\ (\A i \in k + 1 .. j - 1 : ~IsPrefix(Tag, b[i].body))
             => Occurs(Tag, Rest(b, k)) /\ Tag \o Number(Rest(b, k)) = b[j].body

LEMMA AnswerEnd ==
    ASSUME NEW b \in Batches
    PROVE  Answer(b, Len(b))
<1>1. Len(b) \in Nat
  BY BatchFacts
<1>2. Len(b) \in 0 .. Len(b) /\ Len(b) + 1 .. Len(b) = {}
  BY <1>1
<1>3. Rest(b, Len(b)) = <<>>
  BY <1>2, RestFacts
<1>4. ~Occurs(Tag, <<>>)
  <2>1. <<>> \in Text /\ Len(<<>>) = 0
    BY DEF Text
  <2>2. \A i \in Occurrences(Tag, <<>>) : i \in Int
    BY DEF Occurrences
  <2>3. \A i \in Int : i \notin 1 .. Len(<<>>) - 2
    BY <2>1
  <2> QED
    BY <2>1, <2>2, <2>3, TagIs DEF Occurs
<1> QED
  BY <1>2, <1>3, <1>4 DEF Answer

LEMMA AnswerStep ==
    ASSUME NEW b \in Batches, NEW k \in 0 .. Len(b), k # Len(b), Answer(b, k + 1)
    PROVE  Answer(b, k)
<1> DEFINE l == Len(b)
           f == b[k + 1]
           r == Rest(b, k + 1)
           t == Rest(b, k)
<1>1. l \in Nat /\ k + 1 \in 1 .. l
  BY BatchFacts
<1>2. f \in FramesSet /\ Follows(r) /\ t = Piece(f) \o r
  BY RestIsFrame
<1>3. /\ (\A i \in (k + 1) + 1 .. l : ~IsPrefix(Tag, b[i].body)) => ~Occurs(Tag, r)
      /\ \A j \in (k + 1) + 1 .. l :
            IsPrefix(Tag, b[j].body) /\ (\A i \in (k + 1) + 1 .. j - 1 : ~IsPrefix(Tag, b[i].body))
               => Occurs(Tag, r) /\ Tag \o Number(r) = b[j].body
  BY DEF Answer
<1>4. \A i \in k + 1 .. l : i = k + 1 \/ i \in (k + 1) + 1 .. l
  BY <1>1
<1>5. \A j \in (k + 1) + 1 .. l : k + 1 \in k + 1 .. j - 1
  BY <1>1
<1>6. \A j \in (k + 1) + 1 .. l : (k + 1) + 1 .. j - 1 \subseteq k + 1 .. j - 1
  BY <1>1
<1>7. (k + 1) + 1 .. l \subseteq k + 1 .. l /\ k + 1 \in k + 1 .. l
  BY <1>1
<1> HIDE DEF r, t, l
<1>8. CASE IsPrefix(Tag, f.body)
  <2>1. Occurs(Tag, t) /\ Tag \o Number(t) = f.body
    BY <1>2, <1>8, FirstBeat
  <2> QED
    BY <1>4, <1>5, <1>7, <1>8, <2>1 DEF Answer, t, l
<1>9. CASE ~IsPrefix(Tag, f.body)
  <2>1. /\ Occurs(Tag, t) <=> Occurs(Tag, r)
        /\ Occurs(Tag, r) => Number(t) = Number(r)
    BY <1>2, <1>9, LaterBeat
  <2>2. (\A i \in k + 1 .. l : ~IsPrefix(Tag, b[i].body)) => ~Occurs(Tag, t)
    BY <1>3, <1>7, <2>1
  <2>3. ASSUME NEW j \in k + 1 .. l, IsPrefix(Tag, b[j].body),
               \A i \in k + 1 .. j - 1 : ~IsPrefix(Tag, b[i].body)
        PROVE  Occurs(Tag, t) /\ Tag \o Number(t) = b[j].body
    <3>1. j \in (k + 1) + 1 .. l
      BY <1>4, <1>9, <2>3
    <3>2. Occurs(Tag, r) /\ Tag \o Number(r) = b[j].body
      BY <1>3, <1>6, <2>3, <3>1
    <3> QED
      BY <2>1, <3>2
  <2> QED
    BY <2>2, <2>3 DEF Answer, t, l
<1> QED
  BY <1>8, <1>9

LEMMA AnswerToMessage ==
    ASSUME NEW b \in Batches
    PROVE  Answer(b, 0)
<1> DEFINE l == Len(b)
           T == {i \in 1 .. l + 1 : Answer(b, (l + 1) - i)}
<1>1. l \in Nat
  BY BatchFacts
<1>2. 1 \in T
  <2>1. 1 \in 1 .. l + 1 /\ (l + 1) - 1 = l
    BY <1>1
  <2> QED
    BY <2>1, AnswerEnd
<1>3. ASSUME NEW i \in 1 .. (l + 1) - 1, i \in T
      PROVE  i + 1 \in T
  <2> DEFINE k == (l + 1) - (i + 1)
  <2>1. k \in 0 .. l /\ k # l /\ (l + 1) - i = k + 1 /\ i + 1 \in 1 .. l + 1
    BY <1>1
  <2> HIDE DEF k
  <2>2. Answer(b, k + 1)
    BY <1>3, <2>1
  <2>3. Answer(b, k)
    BY <2>1, <2>2, AnswerStep
  <2> QED
    BY <2>1, <2>3 DEF k
<1> HIDE DEF l
<1>4. \A i \in 1 .. l + 1 : i \in T
  <2>1. l + 1 \in Nat
    BY <1>1
  <2> HIDE DEF T
  <2> QED
    BY <1>2, <1>3, <2>1, InductionTo
<1>5. l + 1 \in T
  <2>1. l + 1 \in 1 .. l + 1
    BY <1>1
  <2> HIDE DEF T
  <2> QED
    BY <1>4, <2>1
<1>6. (l + 1) - (l + 1) = 0
  BY <1>1
<1> QED
  BY <1>5, <1>6

-----------------------------------------------------------------------------
(* A header, after what an earlier length has left over *)

\* What does not look like a marker, whatever frame follows it.
Plain(x) ==
    /\ x \in Text
    /\ ~Occurs(Marker, x)
    /\ Len(x) >= 2 => ~ (x[Len(x) - 1] = "~" /\ x[Len(x)] = "m")

LEMMA MarkerPastPlain ==
    ASSUME NEW x, Plain(x), NEW v, Follows(v), NEW i \in Occurrences(Marker, x \o v)
    PROVE  i > Len(x)
<1> DEFINE t == x \o v
<1>1. /\ v \in Text /\ Len(v) \in Nat
      /\ Len(v) >= 1 => v[1] = "~"
  <2>1. v \in Text /\ Len(v) \in Nat
    BY LenProperties DEF Follows, Text
  <2>2. v = <<>> => Len(v) = 0
    OBVIOUS
  <2> QED
    BY <2>1, <2>2 DEF Follows
<1>2. /\ x \in Text /\ ~Occurs(Marker, x)
      /\ Len(x) >= 2 => ~ (x[Len(x) - 1] = "~" /\ x[Len(x)] = "m")
  BY DEF Plain
<1>3. /\ t \in Text /\ Len(x) \in Nat /\ Len(t) = Len(x) + Len(v)
      /\ \A j \in 1 .. Len(x) : t[j] = x[j]
      /\ \A j \in 1 .. Len(v) : t[Len(x) + j] = v[j]
  BY <1>1, <1>2, JoinText
<1>4. i \in Occurrences(Marker, t)
  OBVIOUS
<1> HIDE DEF t
<1>5. i \in Int
  BY <1>4 DEF Occurrences
<1>6. i \in 1 .. Len(t) - 2 /\ t[i] = "~" /\ t[i + 1] = "m" /\ t[i + 2] = "~"
  BY <1>3, <1>4, <1>5, MarkerIs
<1>7. CASE i + 2 <= Len(x)
  <2>1. /\ i \in 1 .. Len(x) /\ i + 1 \in 1 .. Len(x) /\ i + 2 \in 1 .. Len(x)
        /\ i \in 1 .. Len(x) - 2
    BY <1>3, <1>6, <1>7
  <2>2. x[i] = "~" /\ x[i + 1] = "m" /\ x[i + 2] = "~"
    BY <1>3, <1>6, <2>1
  <2>3. i \in Occurrences(Marker, x)
    BY <1>2, <1>5, <2>1, <2>2, MarkerIs
  <2> QED
    BY <1>2, <2>3 DEF Occurs
<1>8. CASE i + 1 = Len(x)
  <2>1. i \in 1 .. Len(x) /\ i + 1 \in 1 .. Len(x) /\ i = Len(x) - 1 /\ Len(x) >= 2
    BY <1>3, <1>6, <1>8
  <2>2. x[i] = "~" /\ x[i + 1] = "m"
    BY <1>3, <1>6, <2>1
  <2> QED
    BY <1>2, <1>8, <2>1, <2>2
<1>9. CASE i = Len(x)
  <2>1. 1 \in 1 .. Len(v)
    BY <1>1, <1>3, <1>6, <1>9
  <2>2. t[Len(x) + 1] = v[1] /\ Len(v) >= 1
    BY <1>3, <2>1
  <2> QED
    BY <1>1, <1>6, <1>9, <2>2
<1>10. i + 2 <= Len(x) \/ i + 1 = Len(x) \/ i = Len(x) \/ i > Len(x)
  BY <1>3, <1>5
<1> QED
  BY <1>7, <1>8, <1>9, <1>10

LEMMA PlainThen ==
    ASSUME NEW x, Plain(x), NEW u \in Text
    PROVE  /\ Occurs(Marker, x \o (Marker \o u))
           /\ After(Marker, x \o (Marker \o u)) = u
<1>1. Follows(Marker \o u)
  BY MarkerThen DEF Follows
<1>2. \A i \in Occurrences(Marker, x \o (Marker \o u)) : i > Len(x)
  BY <1>1, MarkerPastPlain
<1>3. Marker # <<>> /\ x \in Text
  BY Literals DEF Plain
<1> QED
  BY <1>2, <1>3, Literals, FirstAt

LEMMA HeaderIs ==
    ASSUME NEW k \in -9 .. 9, NEW y \in Text
    PROVE  LET u == Decimal(k) \o (Marker \o y) IN
           /\ u \in Text
           /\ Occurs(Marker, u)
           /\ Before(Marker, u) = Decimal(k)
           /\ After(Marker, u) = y
<1> DEFINE d == Decimal(k)
           v == Marker \o y
           u == d \o v
<1>1. /\ d \in Text
      /\ \A i \in 1 .. Len(d) : d[i] # "~"
  BY DecimalFacts
<1>2. v \in Text
  BY MarkerThen
<1> HIDE DEF d, v
<1>3. /\ u \in Text /\ Len(d) \in Nat
      /\ \A i \in 1 .. Len(d) : u[i] = d[i]
  BY <1>1, <1>2, JoinText
<1>4. ASSUME NEW i \in Occurrences(Marker, u)
      PROVE  i > Len(d)
  <2> HIDE DEF u
  <2>1. i \in Int
    BY DEF Occurrences
  <2>2. i >= 1 /\ u[i] = "~"
    BY <1>3, <2>1, MarkerIs
  <2>3. i \in 1 .. Len(d) \/ i > Len(d)
    BY <1>3, <2>1, <2>2
  <2> QED
    BY <1>1, <1>3, <2>2, <2>3
<1>5. \A i \in Occurrences(Marker, d \o (Marker \o y)) : i > Len(d)
  BY <1>4 DEF v
<1>6. /\ Occurs(Marker, d \o (Marker \o y))
      /\ Before(Marker, d \o (Marker \o y)) = d
      /\ After(Marker, d \o (Marker \o y)) = y
  <2>1. Marker # <<>>
    BY Literals
  <2> QED
    BY <1>1, <1>5, <2>1, Literals, FirstAt
<1> QED
  BY <1>3, <1>6 DEF d, v

LEMMA EmptyIsPlain == Plain(<<>>)
<1>1. <<>> \in Text /\ Len(<<>>) = 0
  BY DEF Text
<1>2. \A i \in Occurrences(Marker, <<>>) : i \in Int
  BY DEF Occurrences
<1>3. \A i \in Int : i \notin 1 .. Len(<<>>) - 2
  BY <1>1
<1> QED
  BY <1>1, <1>2, <1>3, MarkerIs DEF Plain, Occurs

\* The end of a body does not look like the beginning of a marker.
LEMMA BodyEnd ==
    ASSUME NEW f \in FramesSet, Len(f.body) >= 2
    PROVE  ~ (f.body[Len(f.body) - 1] = "~" /\ f.body[Len(f.body)] = "m")
<1> DEFINE b == f.body
           s == <<"~", "m">>
<1>1. b \in Text /\ Len(b) \in Nat /\ ~IsSuffix(s, b)
  BY FrameFacts DEF Separable
<1>2. Len(b) >= 2
  OBVIOUS
<1> HIDE DEF b
<1> SUFFICES ASSUME b[Len(b) - 1] = "~", b[Len(b)] = "m"
             PROVE  FALSE
  BY DEF b
<1>3. /\ s \in Text /\ Len(s) = 2 /\ s[1] = "~" /\ s[2] = "m"
  BY DEF Text, Chars
<1> HIDE DEF s
<1>4. /\ Reverse(b) \in Text /\ Len(Reverse(b)) = Len(b)
      /\ \A i \in 1 .. Len(b) : Reverse(b)[i] = b[(Len(b) - i) + 1]
  <2>1. \A i \in 1 .. Len(b) : b[(Len(b) - i) + 1] \in Chars
    <3> TAKE i \in 1 .. Len(b)
    <3>1. (Len(b) - i) + 1 \in 1 .. Len(b)
      BY <1>1
    <3> QED
      BY <1>1, <3>1, ElementOfSeq DEF Text
  <2>2. Reverse(b) \in [1 .. Len(b) -> Chars]
    BY <2>1 DEF Reverse
  <2>3. Reverse(b) \in Text
    BY <1>1, <2>2, SeqDef DEF Text
  <2>4. Len(Reverse(b)) = Len(b)
    BY <1>1, <2>2, <2>3, LenProperties DEF Text
  <2> QED
    BY <2>3, <2>4 DEF Reverse
<1>5. /\ Reverse(s) \in Text /\ Len(Reverse(s)) = 2
      /\ Reverse(s)[1] = "m" /\ Reverse(s)[2] = "~"
  <2>1. Reverse(s) = [i \in 1 .. 2 |-> s[(2 - i) + 1]]
    BY <1>3 DEF Reverse
  <2>2. Reverse(s)[1] = s[(2 - 1) + 1] /\ Reverse(s)[2] = s[(2 - 2) + 1]
    BY <2>1
  <2>3. (2 - 1) + 1 = 2 /\ (2 - 2) + 1 = 1
    OBVIOUS
  <2>4. \A i \in 1 .. 2 : s[(2 - i) + 1] \in Chars
    <3>1. \A i \in 1 .. 2 : (2 - i) + 1 = 1 \/ (2 - i) + 1 = 2
      OBVIOUS
    <3> QED
      BY <1>3, <3>1 DEF Chars
  <2>5. Reverse(s) \in [1 .. 2 -> Chars] /\ 2 \in Nat
    BY <2>1, <2>4
  <2>6. Reverse(s) \in Text
    BY <2>5, SeqDef DEF Text
  <2>7. Len(Reverse(s)) = 2
    BY <2>5, <2>6, LenProperties DEF Text
  <2> QED
    BY <1>3, <2>2, <2>3, <2>6, <2>7
<1> DEFINE y == Reverse(b)
           x == Reverse(s)
<1>6. ~IsPrefix(x, y)
  BY <1>1 DEF IsSuffix
<1>7. /\ y[1] = "m" /\ y[2] = "~"
  <2>1. 1 \in 1 .. Len(b) /\ 2 \in 1 .. Len(b) /\ (Len(b) - 1) + 1 = Len(b) /\ (Len(b) - 2) + 1 = Len(b) - 1
    BY <1>1, <1>2
  <2> QED
    BY <1>4, <2>1
<1> HIDE DEF x, y
<1>8. SubSeq(x, 1, 2) = x /\ SubSeq(y, 1, 2) = x
  <2>1. /\ x \in Text /\ y \in Text /\ Len(x) = 2 /\ Len(y) = Len(b)
        /\ x[1] = "m" /\ x[2] = "~"
    BY <1>4, <1>5 DEF x, y
  <2>2. SubSeq(x, 1, 2) = x
    BY <2>1, SubSeqFull DEF Text
  <2>3. 2 \in 0 .. Len(y)
    BY <1>1, <1>2, <2>1
  <2>4. /\ SubSeq(y, 1, 2) \in Text /\ Len(SubSeq(y, 1, 2)) = 2
        /\ \A i \in 1 .. 2 : SubSeq(y, 1, 2)[i] = y[i]
    BY <2>1, <2>3, CutText
  <2>5. \A i \in 1 .. 2 : SubSeq(y, 1, 2)[i] = x[i]
    <3>1. \A i \in 1 .. 2 : i = 1 \/ i = 2
      OBVIOUS
    <3> QED
      BY <1>7, <2>1, <2>4, <3>1
  <2> QED
    BY <2>1, <2>2, <2>4, <2>5, SeqEqual DEF Text
<1> QED
  BY <1>1, <1>2, <1>4, <1>5, <1>6, <1>8 DEF IsPrefix, x, y

-----------------------------------------------------------------------------
(* A body, cut at its declared length *)

\* The first k characters of y end with the first one of a marker.
Into(k, y) == k > 0 /\ y[k] = "~" /\ IsPrefix(<<"m", "~">>, From(y, k + 1))

LEMMA IntoIs ==
    ASSUME NEW y \in Text, NEW k \in 0 .. Len(y)
    PROVE  Into(k, y) <=> k \in Occurrences(Marker, y)
<1> DEFINE z == From(y, k + 1)
           s == <<"m", "~">>
<1>1. Len(y) \in Nat
  BY LenProperties DEF Text
<1>2. /\ z \in Text /\ Len(z) = Len(y) - k
      /\ \A i \in 1 .. Len(y) - k : z[i] = y[k + i]
  BY CutText
<1>3. s \in Text /\ Len(s) = 2 /\ s[1] = "m" /\ s[2] = "~" /\ SubSeq(s, 1, 2) = s
  <2>1. s \in Text /\ Len(s) = 2 /\ s[1] = "m" /\ s[2] = "~"
    BY DEF Text, Chars
  <2> HIDE DEF s
  <2>2. SubSeq(s, 1, 2) = s
    BY <2>1, SubSeqFull DEF Text
  <2> QED
    BY <2>1, <2>2
<1> HIDE DEF z, s
<1>4. IsPrefix(s, z) <=> 2 <= Len(z) /\ SubSeq(z, 1, 2) = s
  BY <1>3 DEF IsPrefix
<1>5. 2 <= Len(z) => (SubSeq(z, 1, 2) = s <=> z[1] = "m" /\ z[2] = "~")
  <2> SUFFICES ASSUME 2 <= Len(z)
               PROVE  SubSeq(z, 1, 2) = s <=> z[1] = "m" /\ z[2] = "~"
    OBVIOUS
  <2>1. 2 \in 0 .. Len(z)
    BY <1>1, <1>2
  <2>2. /\ SubSeq(z, 1, 2) \in Text /\ Len(SubSeq(z, 1, 2)) = 2
        /\ \A i \in 1 .. 2 : SubSeq(z, 1, 2)[i] = z[i]
    BY <1>2, <2>1, CutText
  <2>3. SubSeq(z, 1, 2) = s <=> \A i \in 1 .. 2 : z[i] = s[i]
    BY <1>3, <2>2, SeqEqual DEF Text
  <2>4. (\A i \in 1 .. 2 : z[i] = s[i]) <=> z[1] = s[1] /\ z[2] = s[2]
    OBVIOUS
  <2> QED
    BY <1>3, <2>3, <2>4
<1>6. IsPrefix(s, z) <=> k + 2 <= Len(y) /\ y[k + 1] = "m" /\ y[k + 2] = "~"
  <2>1. 2 <= Len(z) <=> k + 2 <= Len(y)
    BY <1>1, <1>2
  <2>2. 2 <= Len(z) => 1 \in 1 .. Len(y) - k /\ 2 \in 1 .. Len(y) - k
    BY <1>1, <1>2
  <2> QED
    BY <1>2, <1>4, <1>5, <2>1, <2>2
<1>7. k \in Int /\ (k \in 1 .. Len(y) - 2 <=> k > 0 /\ k + 2 <= Len(y))
  BY <1>1
<1> QED
  BY <1>6, <1>7, MarkerIs DEF Into, z, s

\* What a declared length leaves over of the body.
Unused(f) == IF f.off < 0 THEN From(f.body, Declared(f) + 1) ELSE <<>>

\* A length that is right, or too small without a marker in the body.
RightOrShort(f) ==
    f.off = 0 \/ (f.off < 0 /\ Declared(f) >= 0 /\ ~Occurs(Marker, f.body))

LEMMA UnusedIsPlain ==
    ASSUME NEW f \in FramesSet, f.off < 0 => RightOrShort(f)
    PROVE  Plain(Unused(f))
<1>1. CASE ~ (f.off < 0)
  BY <1>1, EmptyIsPlain DEF Unused
<1>2. CASE f.off < 0
  <2> DEFINE b == f.body
             k == Declared(f)
             x == From(b, k + 1)
  <2>1. /\ b \in Text /\ Len(b) \in Nat /\ k \in 0 .. Len(b) /\ ~Occurs(Marker, b)
    <3>1. /\ b \in Text /\ Len(b) \in Nat /\ f.off \in Int /\ k = Len(b) + f.off
      BY FrameFacts
    <3>2. k >= 0 /\ ~Occurs(Marker, b)
      BY <1>2, <3>1 DEF RightOrShort
    <3> HIDE DEF b, k
    <3> QED
      BY <1>2, <3>1, <3>2
  <2>2. Len(b) >= 2 => ~ (b[Len(b) - 1] = "~" /\ b[Len(b)] = "m")
    BY BodyEnd
  <2>3. Unused(f) = x
    BY <1>2 DEF Unused
  <2> HIDE DEF b, k
  <2>4. /\ x \in Text /\ Len(x) = Len(b) - k
        /\ \A i \in 1 .. Len(b) - k : x[i] = b[k + i]
    BY <2>1, CutText
  <2> HIDE DEF x
  <2>5. ASSUME NEW i \in Occurrences(Marker, x)
        PROVE  FALSE
    <3>1. i \in Int
      BY DEF Occurrences
    <3>2. i \in 1 .. Len(x) - 2 /\ x[i] = "~" /\ x[i + 1] = "m" /\ x[i + 2] = "~"
      BY <2>4, <3>1, MarkerIs
    <3>3. /\ i \in 1 .. Len(b) - k /\ i + 1 \in 1 .. Len(b) - k /\ i + 2 \in 1 .. Len(b) - k
          /\ k + (i + 1) = (k + i) + 1 /\ k + (i + 2) = (k + i) + 2
          /\ k + i \in 1 .. Len(b) - 2 /\ k + i \in Int
      BY <2>1, <2>4, <3>1, <3>2
    <3>4. k + i \in Occurrences(Marker, b)
      <4> DEFINE j == k + i
      <4>1. b[j] = "~" /\ b[j + 1] = "m" /\ b[j + 2] = "~"
        BY <2>4, <3>2, <3>3
      <4>2. j \in Int /\ j \in 1 .. Len(b) - 2
        BY <3>3
      <4> HIDE DEF j
      <4>3. j \in Occurrences(Marker, b)
        BY <2>1, <4>1, <4>2, MarkerIs
      <4> QED
        BY <4>3 DEF j
    <3> QED
      BY <2>1, <3>4 DEF Occurs
  <2>6. ASSUME Len(x) >= 2, x[Len(x) - 1] = "~", x[Len(x)] = "m"
        PROVE  FALSE
    <3>1. /\ Len(x) - 1 \in 1 .. Len(b) - k /\ Len(x) \in 1 .. Len(b) - k
          /\ k + (Len(x) - 1) = Len(b) - 1 /\ k + Len(x) = Len(b) /\ Len(b) >= 2
      BY <2>1, <2>4, <2>6
    <3> QED
      BY <2>2, <2>4, <2>6, <3>1
  <2> QED
    BY <2>3, <2>4, <2>5, <2>6 DEF Plain, Occurs
<1> QED
  BY <1>1, <1>2

LEMMA CutRightOrShort ==
    ASSUME NEW f \in FramesSet, NEW r, Follows(r), RightOrShort(f)
    PROVE  LET y == f.body \o r
               k == Declared(f)
           IN  /\ y \in Text /\ k \in 0 .. Len(y)
               /\ ~Into(k, y)
               /\ SubSeq(y, 1, k) = Kept(f)
               /\ From(y, k + 1) = Unused(f) \o r
<1> DEFINE b == f.body
           k == Declared(f)
           y == b \o r
<1>1. b \in Text /\ Len(b) \in Nat /\ f.off \in Int /\ k = Len(b) + f.off
  BY FrameFacts
<1>2. r \in Text /\ Len(r) \in Nat /\ (Len(r) >= 1 => r[1] = "~")
  <2>1. r \in Text /\ Len(r) \in Nat
    BY LenProperties DEF Follows, Text
  <2>2. r = <<>> => Len(r) = 0
    OBVIOUS
  <2> QED
    BY <2>1, <2>2 DEF Follows
<1>3. /\ y \in Text /\ Len(y) = Len(b) + Len(r)
      /\ \A i \in 1 .. Len(b) : y[i] = b[i]
      /\ \A i \in 1 .. Len(r) : y[Len(b) + i] = r[i]
  BY <1>1, <1>2, JoinText
<1>4. SubSeq(y, 1, Len(b)) = b /\ From(y, Len(b) + 1) = r
  BY <1>1, <1>2, Unjoin
<1>5. CASE f.off = 0
  <2>1. k = Len(b) /\ Kept(f) = b /\ Unused(f) = <<>>
    BY <1>1, <1>5 DEF Kept, Unused
  <2> HIDE DEF b, k, y
  <2>2. k \in 0 .. Len(y)
    BY <1>1, <1>2, <1>3, <2>1
  <2>3. k \notin Occurrences(Marker, y)
    <3>1. SUFFICES ASSUME k \in Occurrences(Marker, y)
                   PROVE  FALSE
      OBVIOUS
    <3>2. k \in 1 .. Len(y) - 2 /\ y[k + 1] = "m"
      BY <1>3, <2>2, <3>1, MarkerIs
    <3>3. 1 \in 1 .. Len(r) /\ Len(r) >= 1
      BY <1>1, <1>2, <1>3, <2>1, <3>2
    <3> QED
      BY <1>2, <1>3, <2>1, <3>2, <3>3
  <2>4. ~Into(k, y)
    BY <1>3, <2>2, <2>3, IntoIs
  <2>5. <<>> \o r = r
    BY <1>2, ConcatEmptySeq DEF Text
  <2> QED
    BY <1>3, <1>4, <2>1, <2>2, <2>4, <2>5 DEF b, k, y
<1>6. CASE f.off < 0
  <2>1. k >= 0 /\ ~Occurs(Marker, b)
    BY <1>1, <1>6 DEF RightOrShort
  <2>2. Plain(b)
    BY <1>1, <2>1, BodyEnd DEF Plain
  <2>3. Kept(f) = SubSeq(b, 1, k) /\ Unused(f) = From(b, k + 1)
    BY <1>6 DEF Kept, Unused
  <2>4. \A i \in Occurrences(Marker, y) : i > Len(b)
    BY <2>2, MarkerPastPlain
  <2> HIDE DEF b, k, y
  <2>5. k \in 0 .. Len(b) /\ k \in 0 .. Len(y) /\ ~ (k > Len(b))
    BY <1>1, <1>2, <1>3, <1>6, <2>1
  <2>6. ~Into(k, y)
    BY <1>3, <2>4, <2>5, IntoIs
  <2> DEFINE p == SubSeq(b, 1, k)
             q == From(b, k + 1)
  <2>7. p \in Text /\ q \in Text /\ Len(p) = k /\ b = p \o q
    BY <1>1, <2>5, CutText, Rejoin
  <2> HIDE DEF p, q
  <2>8. y = p \o (q \o r) /\ q \o r \in Text
    <3>1. r \in Text
      BY <1>2
    <3>2. q \o r \in Text
      BY <2>7, <3>1, JoinText
    <3>3. (p \o q) \o r = p \o (q \o r)
      BY <2>7, <3>1, Regroup
    <3>4. y = (p \o q) \o r
      BY <2>7 DEF y
    <3> QED
      BY <3>2, <3>3, <3>4
  <2>9. SubSeq(y, 1, k) = p /\ From(y, k + 1) = q \o r
    BY <2>7, <2>8, Unjoin
  <2> QED
    BY <1>3, <2>3, <2>5, <2>6, <2>9 DEF b, k, y, p, q
<1> QED
  BY <1>5, <1>6 DEF RightOrShort

LEMMA CutOneTooMany ==
    ASSUME NEW f \in FramesSet, NEW r, Follows(r), r # <<>>, f.off = 1
    PROVE  LET y == f.body \o r
               k == Declared(f)
           IN  /\ y \in Text /\ k \in 0 .. Len(y)
               /\ Into(k, y)
               /\ SubSeq(y, 1, k - 1) = Kept(f)
               /\ From(y, k) = Unused(f) \o r
<1> DEFINE b == f.body
           k == Declared(f)
           y == b \o r
<1>1. b \in Text /\ Len(b) \in Nat /\ k = Len(b) + 1
  BY FrameFacts
<1>2. r \in Text /\ Len(r) \in Nat /\ Len(r) >= 3 /\ r[1] = "~" /\ r[2] = "m" /\ r[3] = "~"
  BY LenProperties DEF Follows, Text
<1>3. /\ y \in Text /\ Len(y) = Len(b) + Len(r)
      /\ \A i \in 1 .. Len(r) : y[Len(b) + i] = r[i]
  BY <1>1, <1>2, JoinText
<1>4. SubSeq(y, 1, Len(b)) = b /\ From(y, Len(b) + 1) = r
  BY <1>1, <1>2, Unjoin
<1>5. Kept(f) = b /\ Unused(f) = <<>>
  BY DEF Kept, Unused
<1> HIDE DEF b, k, y
<1>6. k \in 0 .. Len(y) /\ k \in 1 .. Len(y) - 2 /\ k - 1 = Len(b)
  BY <1>1, <1>2, <1>3
<1>7. k \in Occurrences(Marker, y)
  <2>1. /\ 1 \in 1 .. Len(r) /\ 2 \in 1 .. Len(r) /\ 3 \in 1 .. Len(r)
        /\ Len(b) + 2 = k + 1 /\ Len(b) + 3 = k + 2 /\ k \in Int
    BY <1>1, <1>2
  <2>2. y[k] = "~" /\ y[k + 1] = "m" /\ y[k + 2] = "~"
    BY <1>1, <1>2, <1>3, <2>1
  <2> QED
    BY <1>3, <1>6, <2>1, <2>2, MarkerIs
<1>8. Into(k, y)
  BY <1>3, <1>6, <1>7, IntoIs
<1>9. <<>> \o r = r
  BY <1>2, ConcatEmptySeq DEF Text
<1> QED
  BY <1>1, <1>3, <1>4, <1>5, <1>6, <1>8, <1>9 DEF b, k, y

-----------------------------------------------------------------------------
(* What is left of a message *)

LEMMA FoundAt ==
    ASSUME NEW t \in Text, Occurs(Marker, t)
    PROVE  \E k \in 3 .. Len(t) :
              /\ After(Marker, t) = From(t, k + 1)
              /\ Before(Marker, t) = SubSeq(t, 1, k - 3)
              /\ t[k - 2] = "~" /\ t[k - 1] = "m" /\ t[k] = "~"
<1> DEFINE m == Min(Occurrences(Marker, t))
<1>1. Len(t) \in Nat
  BY LenProperties DEF Text
<1>2. Occurrences(Marker, t) # {} /\ Occurrences(Marker, t) \subseteq 1 .. Len(t) - 2
  <2>1. \A i \in Occurrences(Marker, t) : i \in Int
    BY DEF Occurrences
  <2> QED
    BY <2>1, MarkerIs DEF Occurs
<1>3. m \in Occurrences(Marker, t)
  <2>1. Occurrences(Marker, t) \subseteq Nat
    BY <1>1, <1>2
  <2> QED
    BY <1>2, <2>1, LeastElement
<1>4. After(Marker, t) = From(t, m + 3) /\ Before(Marker, t) = SubSeq(t, 1, m - 1)
  BY Literals DEF After, Before
<1> HIDE DEF m
<1>5. m \in Int /\ m \in 1 .. Len(t) - 2 /\ t[m] = "~" /\ t[m + 1] = "m" /\ t[m + 2] = "~"
  BY <1>2, <1>3, MarkerIs
<1>6. /\ m + 2 \in 3 .. Len(t) /\ (m + 2) + 1 = m + 3 /\ (m + 2) - 3 = m - 1
      /\ (m + 2) - 2 = m /\ (m + 2) - 1 = m + 1
  BY <1>1, <1>5
<1> DEFINE k == m + 2
<1>7. /\ k \in 3 .. Len(t) /\ k + 1 = m + 3 /\ k - 3 = m - 1
      /\ t[k - 2] = "~" /\ t[k - 1] = "m" /\ t[k] = "~"
  BY <1>5, <1>6
<1> HIDE DEF k
<1>8. After(Marker, t) = From(t, k + 1) /\ Before(Marker, t) = SubSeq(t, 1, k - 3)
  BY <1>4, <1>7
<1> QED
  BY <1>7, <1>8

LEMMA MinusLater ==
    ASSUME NEW t \in Text, NEW k \in 0 .. Len(t), Occurs(Minus, From(t, k + 1))
    PROVE  Occurs(Minus, t)
<1> DEFINE x == From(t, k + 1)
<1>1. Len(t) \in Nat
  BY LenProperties DEF Text
<1>2. PICK i \in Occurrences(Minus, x) : TRUE
  BY DEF Occurs
<1>3. /\ x \in Text /\ Len(x) = Len(t) - k
      /\ \A j \in 1 .. Len(t) - k : x[j] = t[k + j]
  BY CutText
<1> HIDE DEF x
<1>4. i \in Int
  BY DEF Occurrences
<1>5. i \in 1 .. Len(x) - 3 /\ x[i] = "~" /\ x[i + 1] = "m" /\ x[i + 2] = "~" /\ x[i + 3] = "-"
  BY <1>2, <1>3, <1>4, MinusIs
<1>6. /\ i \in 1 .. Len(t) - k /\ i + 1 \in 1 .. Len(t) - k
      /\ i + 2 \in 1 .. Len(t) - k /\ i + 3 \in 1 .. Len(t) - k
      /\ k + (i + 1) = (k + i) + 1 /\ k + (i + 2) = (k + i) + 2 /\ k + (i + 3) = (k + i) + 3
      /\ k + i \in 1 .. Len(t) - 3 /\ k + i \in Int
  BY <1>1, <1>3, <1>4, <1>5
<1>7. k + i \in Occurrences(Minus, t)
  <2> DEFINE m == k + i
  <2>1. m \in 1 .. Len(t) - 3 /\ m \in Int
    BY <1>6
  <2>2. /\ x[i] = t[m] /\ x[i + 1] = t[k + (i + 1)]
        /\ x[i + 2] = t[k + (i + 2)] /\ x[i + 3] = t[k + (i + 3)]
    BY <1>3, <1>6
  <2>3. k + (i + 1) = m + 1 /\ k + (i + 2) = m + 2 /\ k + (i + 3) = m + 3
    BY <1>6
  <2> HIDE DEF m
  <2>4. t[m] = "~" /\ t[m + 1] = "m" /\ t[m + 2] = "~" /\ t[m + 3] = "-"
    BY <1>5, <2>2, <2>3
  <2>5. m \in Occurrences(Minus, t)
    BY <2>1, <2>4, MinusIs
  <2> QED
    BY <2>5 DEF m
<1> QED
  BY <1>7 DEF Occurs

\* A negative length is read from nothing but a minus after a marker.
LEMMA MinusAhead ==
    ASSUME NEW t \in Text, Occurs(Marker, t), NEW u, u = After(Marker, t),
           Occurs(Marker, u), NEW j \in -9 .. 9, j < 0, Before(Marker, u) = Decimal(j)
    PROVE  Occurs(Minus, t)
<1>1. PICK k \in 3 .. Len(t) :
         /\ u = From(t, k + 1)
         /\ t[k - 2] = "~" /\ t[k - 1] = "m" /\ t[k] = "~"
  BY FoundAt
<1>2. Len(t) \in Nat
  BY LenProperties DEF Text
<1>3. /\ u \in Text /\ Len(u) = Len(t) - k
      /\ \A i \in 1 .. Len(t) - k : u[i] = t[k + i]
  <2>1. k \in 0 .. Len(t) /\ u = From(t, k + 1)
    BY <1>1
  <2>2. /\ From(t, k + 1) \in Text /\ Len(From(t, k + 1)) = Len(t) - k
        /\ \A i \in 1 .. Len(t) - k : From(t, k + 1)[i] = t[k + i]
    BY <2>1, CutText
  <2> QED
    BY <2>1, <2>2
<1>4. PICK l \in 3 .. Len(u) : Before(Marker, u) = SubSeq(u, 1, l - 3)
  BY <1>3, FoundAt
<1>5. /\ Len(Decimal(j)) = l - 3
      /\ \A i \in 1 .. l - 3 : Decimal(j)[i] = u[i]
  <2> DEFINE i == l - 3
  <2>1. i \in 0 .. Len(u)
    BY <1>2, <1>3, <1>4
  <2> HIDE DEF i
  <2>2. Len(SubSeq(u, 1, i)) = i /\ \A q \in 1 .. i : SubSeq(u, 1, i)[q] = u[q]
    BY <1>3, <2>1, CutText
  <2>3. Decimal(j) = SubSeq(u, 1, i)
    BY <1>4 DEF i
  <2>4. Len(Decimal(j)) = i /\ \A q \in 1 .. i : Decimal(j)[q] = u[q]
    BY <2>2, <2>3
  <2> QED
    BY <2>4 DEF i
<1>6. Len(Decimal(j)) >= 1 /\ Decimal(j)[1] = "-"
  <2>1. Len(Decimal(j)) \in 1 .. 2 /\ (j < 0 <=> Decimal(j)[1] = "-")
    BY DecimalFacts
  <2> QED
    BY <2>1
<1>7. u[1] = "-" /\ 1 \in 1 .. Len(t) - k
  <2>1. 1 \in 1 .. l - 3 /\ 1 \in 1 .. Len(t) - k
    BY <1>2, <1>3, <1>4, <1>5, <1>6
  <2> QED
    BY <1>5, <1>6, <2>1
<1>8. /\ k - 2 \in 1 .. Len(t) - 3 /\ k - 2 \in Int
      /\ (k - 2) + 1 = k - 1 /\ (k - 2) + 2 = k /\ (k - 2) + 3 = k + 1
  BY <1>1, <1>2, <1>7
<1>9. t[k + 1] = "-"
  BY <1>3, <1>7
<1>10. k - 2 \in Occurrences(Minus, t)
  BY <1>1, <1>8, <1>9, MinusIs
<1> QED
  BY <1>10 DEF Occurs

-----------------------------------------------------------------------------
(* The loop *)

Harmful == {i \in DOMAIN batch : ~Harmless(i)}
Intact  == IF Harmful = {} THEN Len(batch) ELSE Min(Harmful) - 1

Negative == \E f \in Range(batch) : Declared(f) < 0

\* What the length of frame k has left over.
Leftover(k) == IF k = 0 THEN <<>> ELSE Unused(batch[k])

\* Every round has taken one frame off so far, and no length was harmful.
InStep == \E k \in 0 .. Intact : Len(out) = k /\ raw = Leftover(k) \o Rest(batch, k)

\* The first harmful length has been reached.
PastHarm == Len(out) >= Intact /\ Harmful # {}

KeptSoFar == \A i \in 1 .. Len(out) : i <= Intact => out[i] = Kept(batch[i])

FramesInv ==
    /\ batch \in Batches
    /\ pc \in {"received", "loop", "done", "panicked"}
    /\ raw \in Text
    /\ out \in Seq(Text)
    /\ pc = "received" => raw = Wire(batch) /\ out = <<>> /\ pong = <<>>
    /\ pc = "loop" => Beats = {} /\ pong = <<>> /\ (InStep \/ PastHarm)
    /\ KeptSoFar
    /\ Occurs(Minus, raw) => Negative
    /\ WrongLengthIsContained
    /\ PongEchoesFirst

LEMMA IntactIs ==
    ASSUME batch \in Batches
    PROVE  /\ Len(batch) \in Nat /\ DOMAIN batch = 1 .. Len(batch)
           /\ Intact \in 0 .. Len(batch)
           /\ \A i \in 1 .. Intact : Harmless(i)
           /\ Harmful = {} <=> Intact = Len(batch)
<1>1. Len(batch) \in Nat /\ DOMAIN batch = 1 .. Len(batch)
  BY BatchFacts
<1>2. CASE Harmful = {}
  <2>1. Intact = Len(batch)
    BY <1>2 DEF Intact
  <2>2. \A i \in 1 .. Len(batch) : Harmless(i)
    BY <1>1, <1>2 DEF Harmful
  <2> QED
    BY <1>1, <1>2, <2>1, <2>2
<1>3. CASE Harmful # {}
  <2>1. Harmful \subseteq 1 .. Len(batch)
    BY <1>1 DEF Harmful
  <2>2. Min(Harmful) \in Harmful /\ \A i \in Harmful : Min(Harmful) <= i
    <3>1. Harmful \subseteq Nat
      BY <1>1, <2>1
    <3> QED
      BY <1>3, <3>1, LeastElement
  <2>3. Intact = Min(Harmful) - 1 /\ Min(Harmful) \in 1 .. Len(batch)
    BY <1>3, <2>1, <2>2 DEF Intact
  <2>4. ASSUME NEW i \in 1 .. Intact
        PROVE  Harmless(i)
    <3>1. i \in 1 .. Len(batch) /\ ~ (Min(Harmful) <= i)
      BY <1>1, <2>3
    <3>2. i \notin Harmful
      BY <2>2, <3>1
    <3> QED
      BY <1>1, <3>1, <3>2 DEF Harmful
  <2>5. Intact \in 0 .. Len(batch) /\ Intact # Len(batch)
    BY <1>1, <2>3
  <2> QED
    BY <1>1, <1>3, <2>4, <2>5
<1> QED
  BY <1>2, <1>3

LEMMA LeftoverIsPlain ==
    ASSUME batch \in Batches, NEW k \in 0 .. Intact
    PROVE  Plain(Leftover(k))
<1>1. CASE k = 0
  BY <1>1, EmptyIsPlain DEF Leftover
<1>2. CASE k # 0
  <2>1. /\ Len(batch) \in Nat /\ Intact \in 0 .. Len(batch)
        /\ \A i \in 1 .. Intact : Harmless(i)
    BY IntactIs
  <2>2. k \in 1 .. Intact /\ k \in 1 .. Len(batch)
    BY <1>2, <2>1
  <2>3. Harmless(k) /\ batch[k] \in FramesSet
    BY <2>1, <2>2, BatchFacts
  <2>4. batch[k].off \in Int
    BY <2>3, FrameFacts
  <2>5. batch[k].off < 0 => RightOrShort(batch[k])
    BY <2>3, <2>4 DEF Harmless, RightOrShort
  <2> QED
    BY <1>2, <2>3, <2>5, UnusedIsPlain DEF Leftover
<1> QED
  BY <1>1, <1>2

\* The round that reads frame k + 1.
Reads(k) ==
    /\ Occurs(Marker, raw)
    /\ Occurs(Marker, Length)
    /\ Before(Marker, Length) \in Numerals
    /\ n = Declared(batch[k + 1])
    /\ tail = batch[k + 1].body \o Rest(batch, k + 1)

LEMMA FrameIsRead ==
    ASSUME batch \in Batches, NEW k \in 0 .. Intact, k # Len(batch),
           raw = Leftover(k) \o Rest(batch, k)
    PROVE  Reads(k)
<1> DEFINE f == batch[k + 1]
           r == Rest(batch, k + 1)
           d == Declared(f)
           y == f.body \o r
           u == Decimal(d) \o (Marker \o y)
<1>1. k \in 0 .. Len(batch)
  <2>1. Len(batch) \in Nat /\ Intact \in 0 .. Len(batch)
    BY IntactIs
  <2> QED
    BY <2>1
<1>2. f \in FramesSet /\ Follows(r) /\ Rest(batch, k) = Piece(f) \o r
  BY <1>1, RestIsFrame
<1>3. r \in Text /\ d \in -9 .. 9 /\ f.body \in Text
  BY <1>2, FrameFacts DEF Follows
<1>4. Rest(batch, k) = Marker \o u /\ y \in Text
  BY <1>2, <1>3, PieceThen, JoinText
<1> HIDE DEF f, d, y
<1>5. /\ u \in Text
      /\ Occurs(Marker, u)
      /\ Before(Marker, u) = Decimal(d)
      /\ After(Marker, u) = y
  BY <1>3, <1>4, HeaderIs
<1> HIDE DEF u
<1>6. Occurs(Marker, raw) /\ Length = u
  <2>1. Plain(Leftover(k))
    BY LeftoverIsPlain
  <2>2. raw = Leftover(k) \o (Marker \o u)
    BY <1>4
  <2> QED
    BY <1>5, <2>1, <2>2, PlainThen DEF Length
<1>7. n = d
  <2>1. \A j \in -9 .. 9 : Decimal(j) = Decimal(d) => j = d
    BY <1>3, DecimalInjective
  <2>2. n = CHOOSE j \in -9 .. 9 : Decimal(j) = Decimal(d)
    BY <1>5, <1>6 DEF n
  <2> QED
    BY <1>3, <2>1, <2>2
<1>8. Before(Marker, Length) \in Numerals
  BY <1>3, <1>5, <1>6 DEF Numerals
<1>9. tail = y
  BY <1>5, <1>6 DEF tail
<1> QED
  BY <1>5, <1>6, <1>7, <1>8, <1>9 DEF Reads, f, d, y

\* Without a marker nothing is left but the end of the last frame.
LEMMA NothingLeft ==
    ASSUME batch \in Batches, InStep \/ PastHarm, ~Occurs(Marker, raw)
    PROVE  Len(out) >= Intact /\ (Harmful = {} => Len(out) = Intact)
<1>1. /\ Len(batch) \in Nat /\ Intact \in 0 .. Len(batch)
      /\ Harmful = {} <=> Intact = Len(batch)
  BY IntactIs
<1>2. CASE PastHarm
  BY <1>2 DEF PastHarm
<1>3. CASE InStep
  <2>1. PICK k \in 0 .. Intact : Len(out) = k /\ raw = Leftover(k) \o Rest(batch, k)
    BY <1>3 DEF InStep
  <2>2. k = Len(batch)
    <3>1. k # Len(batch) => Reads(k)
      BY <2>1, FrameIsRead
    <3> QED
      BY <3>1 DEF Reads
  <2> QED
    BY <1>1, <2>1, <2>2
<1> QED
  BY <1>2, <1>3

\* A round finds the next frame, harmless or the first harmful one, or it comes
\* after that.
LEMMA MarkerLeft ==
    ASSUME batch \in Batches, InStep \/ PastHarm, Occurs(Marker, raw)
    PROVE  \/ PastHarm
           \/ \E k \in 0 .. Intact : Len(out) = k /\ k + 1 <= Intact /\ Reads(k)
<1>1. /\ Len(batch) \in Nat /\ Intact \in 0 .. Len(batch)
      /\ Harmful = {} <=> Intact = Len(batch)
  BY IntactIs
<1> SUFFICES ASSUME InStep
             PROVE  \/ PastHarm
                    \/ \E k \in 0 .. Intact : Len(out) = k /\ k + 1 <= Intact /\ Reads(k)
  OBVIOUS
<1>2. PICK k \in 0 .. Intact : Len(out) = k /\ raw = Leftover(k) \o Rest(batch, k)
  BY DEF InStep
<1>3. k # Len(batch)
  <2> SUFFICES ASSUME k = Len(batch)
               PROVE  FALSE
    OBVIOUS
  <2>1. k \in 0 .. Len(batch)
    BY <1>1, <1>2
  <2>2. Rest(batch, k) = <<>>
    BY <2>1, RestFacts
  <2>3. Plain(Leftover(k))
    BY LeftoverIsPlain
  <2>4. raw = Leftover(k)
    BY <1>2, <2>2, <2>3, ConcatEmptySeq DEF Plain, Text
  <2> QED
    BY <2>3, <2>4 DEF Plain
<1>4. Reads(k)
  BY <1>2, <1>3, FrameIsRead
<1>5. CASE k + 1 <= Intact
  BY <1>2, <1>4, <1>5
<1>6. CASE ~ (k + 1 <= Intact)
  <2>1. k = Intact /\ Harmful # {}
    BY <1>1, <1>3, <1>6
  <2> QED
    BY <1>2, <2>1 DEF PastHarm
<1> QED
  BY <1>5, <1>6

\* The three ways a length may be harmless.
LEMMA HarmlessRound ==
    ASSUME batch \in Batches, NEW k \in 0 .. Intact, k + 1 <= Intact, Reads(k)
    PROVE  /\ tail \in Text /\ n \in Int
           /\ \/ /\ n \in 0 .. Len(tail) /\ ~Into(n, tail)
                 /\ SubSeq(tail, 1, n) = Kept(batch[k + 1])
                 /\ From(tail, n + 1) = Leftover(k + 1) \o Rest(batch, k + 1)
              \/ /\ n \in 0 .. Len(tail) /\ Into(n, tail)
                 /\ SubSeq(tail, 1, n - 1) = Kept(batch[k + 1])
                 /\ From(tail, n) = Leftover(k + 1) \o Rest(batch, k + 1)
              \/ /\ k + 1 = Len(batch) /\ Len(tail) < n
                 /\ tail = Kept(batch[k + 1]) /\ Valid(tail)
<1> DEFINE f == batch[k + 1]
           r == Rest(batch, k + 1)
<1>1. /\ Len(batch) \in Nat /\ Intact \in 0 .. Len(batch)
      /\ \A i \in 1 .. Intact : Harmless(i)
  BY IntactIs
<1>2. /\ k + 1 \in 1 .. Intact /\ k + 1 \in 0 .. Len(batch) /\ k + 1 # 0
      /\ k \in 0 .. Len(batch) /\ k # Len(batch)
  BY <1>1
<1>3. f \in FramesSet /\ Follows(r)
  BY <1>2, RestIsFrame
<1>4. n = Declared(f) /\ tail = f.body \o r
  BY DEF Reads
<1>5. /\ f.off \in Int /\ Declared(f) \in Int /\ Declared(f) = Len(f.body) + f.off
      /\ f.body \in Text /\ Len(f.body) \in Nat
  BY <1>3, FrameFacts
<1>6. tail \in Text
  BY <1>3, <1>4, <1>5, JoinText DEF Follows
<1>7. Leftover(k + 1) = Unused(f)
  BY <1>2 DEF Leftover
<1>8. Harmless(k + 1)
  BY <1>1, <1>2
<1>9. CASE RightOrShort(f)
  <2>1. /\ n \in 0 .. Len(tail) /\ ~Into(n, tail)
        /\ SubSeq(tail, 1, n) = Kept(f)
        /\ From(tail, n + 1) = Unused(f) \o r
    BY <1>3, <1>4, <1>9, CutRightOrShort
  <2> QED
    BY <1>4, <1>5, <1>6, <1>7, <2>1
<1>10. CASE f.off = 1 /\ k + 1 # Len(batch)
  <2>1. r # <<>>
    <3>1. Rest(batch, k + 1) = Piece(batch[(k + 1) + 1]) \o Rest(batch, (k + 1) + 1)
              /\ batch[(k + 1) + 1] \in FramesSet /\ Follows(Rest(batch, (k + 1) + 1))
      BY <1>2, <1>10, RestIsFrame
    <3> DEFINE g == batch[(k + 1) + 1]
               q == Rest(batch, (k + 1) + 1)
               v == Decimal(Declared(g)) \o (Marker \o (g.body \o q))
    <3>2. g \in FramesSet /\ q \in Text /\ r = Piece(g) \o q
      BY <3>1 DEF Follows
    <3> HIDE DEF g, q, r
    <3>3. r = Marker \o v /\ v \in Text
      <4>1. g.body \o q \in Text /\ Declared(g) \in -9 .. 9
        BY <3>2, FrameFacts, JoinText
      <4> QED
        BY <3>2, <4>1, PieceThen, HeaderIs
    <3> HIDE DEF v
    <3>4. Len(r) = 3 + Len(v) /\ Len(v) \in Nat
      BY <3>3, MarkerThen
    <3>5. Len(<<>>) = 0
      OBVIOUS
    <3> QED
      BY <3>4, <3>5
  <2>2. /\ n \in 0 .. Len(tail) /\ Into(n, tail)
        /\ SubSeq(tail, 1, n - 1) = Kept(f)
        /\ From(tail, n) = Unused(f) \o r
    BY <1>3, <1>4, <1>10, <2>1, CutOneTooMany
  <2> QED
    BY <1>4, <1>5, <1>6, <1>7, <2>2
<1>11. CASE f.off > 0 /\ k + 1 = Len(batch) /\ Valid(f.body)
  <2>1. r = <<>>
    BY <1>2, <1>11, RestFacts
  <2>2. tail = f.body
    BY <1>4, <1>5, <2>1, ConcatEmptySeq DEF Text
  <2>3. Kept(f) = f.body
    BY <1>5, <1>11 DEF Kept
  <2>4. Len(tail) < n
    <3>1. Len(tail) = Len(f.body) /\ n = Len(f.body) + f.off
      BY <1>4, <1>5, <2>2
    <3> HIDE DEF f
    <3> QED
      BY <1>5, <1>11, <3>1
  <2> QED
    BY <1>4, <1>5, <1>6, <1>11, <2>2, <2>3, <2>4
<1>12. RightOrShort(f) \/ (f.off = 1 /\ k + 1 # Len(batch))
          \/ (f.off > 0 /\ k + 1 = Len(batch) /\ Valid(f.body))
  BY <1>1, <1>2, <1>5, <1>8 DEF Harmless, RightOrShort
<1> QED
  BY <1>9, <1>10, <1>11, <1>12

\* Whatever header a round has found.
LEMMA HeadedFacts ==
    ASSUME raw \in Text, Occurs(Marker, raw), Occurs(Marker, Length),
           Before(Marker, Length) \in Numerals
    PROVE  /\ tail \in Text /\ n \in -9 .. 9
           /\ n < 0 => Occurs(Minus, raw)
           /\ \A j \in 0 .. Len(tail) : Occurs(Minus, From(tail, j + 1)) => Occurs(Minus, raw)
<1>1. PICK k \in 3 .. Len(raw) : Length = From(raw, k + 1)
  BY FoundAt DEF Length
<1>2. k \in 0 .. Len(raw)
  BY <1>1
<1>3. Length \in Text
  BY <1>1, <1>2, CutText
<1>4. PICK l \in 3 .. Len(Length) : tail = From(Length, l + 1)
  BY <1>3, FoundAt DEF tail
<1>5. l \in 0 .. Len(Length)
  BY <1>4
<1>6. tail \in Text
  BY <1>3, <1>4, <1>5, CutText
<1>7. n \in -9 .. 9 /\ Decimal(n) = Before(Marker, Length)
  <2>1. \E j \in -9 .. 9 : Decimal(j) = Before(Marker, Length)
    BY DEF Numerals
  <2> QED
    BY <2>1 DEF n
<1>8. n < 0 => Occurs(Minus, raw)
  BY <1>7, MinusAhead DEF Length
<1>9. ASSUME NEW j \in 0 .. Len(tail), Occurs(Minus, From(tail, j + 1))
      PROVE  Occurs(Minus, raw)
  <2>1. Occurs(Minus, tail)
    BY <1>6, <1>9, MinusLater
  <2>2. Occurs(Minus, Length)
    BY <1>3, <1>4, <1>5, <2>1, MinusLater
  <2> QED
    BY <1>1, <1>2, <2>2, MinusLater
<1> QED
  BY <1>6, <1>7, <1>8, <1>9

\* A part is added at the end, the kept one of its frame if it is intact.
LEMMA AppendKept ==
    ASSUME batch \in Batches, out \in Seq(Text), KeptSoFar, NEW e \in Text,
           Len(out) + 1 <= Intact => e = Kept(batch[Len(out) + 1])
    PROVE  /\ Append(out, e) \in Seq(Text)
           /\ Len(out) \in Nat /\ Len(Append(out, e)) = Len(out) + 1
           /\ \A i \in 1 .. Len(Append(out, e)) :
                 i <= Intact => Append(out, e)[i] = Kept(batch[i])
<1> DEFINE s == Append(out, e)
<1>1. /\ s \in Seq(Text) /\ Len(out) \in Nat /\ Len(s) = Len(out) + 1
      /\ \A i \in 1 .. Len(out) : s[i] = out[i]
      /\ s[Len(out) + 1] = e
  BY AppendProperties, LenProperties
<1> HIDE DEF s
<1>2. \A i \in 1 .. Len(s) : i \in 1 .. Len(out) \/ i = Len(out) + 1
  BY <1>1
<1>3. \A i \in 1 .. Len(s) : i <= Intact => s[i] = Kept(batch[i])
  BY <1>1, <1>2 DEF KeptSoFar
<1> QED
  BY <1>1, <1>3 DEF s

LEMMA SameBatch ==
    ASSUME batch' = batch
    PROVE  /\ Harmful' = Harmful /\ Intact' = Intact /\ Beats' = Beats
           /\ Negative' = Negative
<1>1. \A i : Harmless(i)' = Harmless(i)
  BY DEF Harmless
<1>2. Harmful' = Harmful
  BY <1>1 DEF Harmful
<1> QED
  BY <1>2 DEF Intact, Beats, Negative

\* When the loop is left the intact frames have come out, and no more than those
\* if no length was harmful.
LEMMA ContainedAtEnd ==
    ASSUME batch \in Batches, batch' = batch, KeptSoFar', Len(out') \in Nat,
           Len(out') >= Intact, Harmful = {} => Len(out') = Intact, pc' # "panicked"
    PROVE  WrongLengthIsContained'
<1>1. Intact \in Nat
  BY IntactIs
<1>2. \A i \in 1 .. Intact : out'[i] = Kept(batch[i])
  <2> TAKE i \in 1 .. Intact
  <2>1. i \in 1 .. Len(out') /\ i <= Intact
    BY <1>1
  <2> QED
    BY <2>1, SameBatch DEF KeptSoFar
<1>3. Harmful' = Harmful /\ Intact' = Intact
  BY SameBatch
<1>4. WrongLengthIsContained' <=>
         /\ pc' = "panicked" => (\E f \in Range(batch) : Declared(f) < 0)'
         /\ pc' = "done" /\ pong' = <<>> =>
               /\ Len(out') >= Intact'
               /\ \A i \in 1 .. Intact' : out'[i] = Kept(batch'[i])
               /\ Harmful' = {} => Len(out') = Intact'
  BY DEF WrongLengthIsContained, Harmful, Intact
<1> QED
  BY <1>2, <1>3, <1>4

LEMMA FramesStart == Init => FramesInv
<1> SUFFICES ASSUME Init
             PROVE  FramesInv
  OBVIOUS
<1>1. batch \in Batches
  BY DEF Init, Batches
<1>2. raw = Wire(batch) /\ raw \in Text
  <2>1. 0 \in 0 .. Len(batch)
    BY <1>1, BatchFacts
  <2> QED
    BY <1>1, <2>1, RestFacts DEF Init
<1>3. Occurs(Minus, raw) => Negative
  BY <1>1, <1>2, MinusInMessage DEF Negative
<1>4. KeptSoFar
  BY DEF Init, KeptSoFar
<1>5. WrongLengthIsContained /\ PongEchoesFirst
  BY DEF Init, WrongLengthIsContained, PongEchoesFirst
<1> QED
  BY <1>1, <1>2, <1>3, <1>4, <1>5 DEF Init, FramesInv

\* The answer to a message with a heartbeat.
LEMMA PongIsFirst ==
    ASSUME batch \in Batches, raw = Wire(batch)
    PROVE  /\ Occurs(Tag, raw) <=> Beats # {}
           /\ Beats # {} => Tag \o Number(raw) = batch[Min(Beats)].body
<1> DEFINE l == Len(batch)
<1>1. l \in Nat /\ DOMAIN batch = 1 .. l
  BY BatchFacts
<1>2. Rest(batch, 0) = raw
  <2>1. 0 \in 0 .. l
    BY <1>1
  <2> QED
    BY <2>1, RestFacts
<1>3. /\ (\A i \in 0 + 1 .. l : ~IsPrefix(Tag, batch[i].body)) => ~Occurs(Tag, raw)
      /\ \A j \in 0 + 1 .. l :
            IsPrefix(Tag, batch[j].body) /\ (\A i \in 0 + 1 .. j - 1 : ~IsPrefix(Tag, batch[i].body))
               => Occurs(Tag, raw) /\ Tag \o Number(raw) = batch[j].body
  BY <1>2, AnswerToMessage DEF Answer
<1>4. Beats = {i \in 1 .. l : IsPrefix(Tag, batch[i].body)}
  BY <1>1 DEF Beats
<1> HIDE DEF l
<1>5. CASE Beats = {}
  <2>1. \A i \in 0 + 1 .. l : ~IsPrefix(Tag, batch[i].body)
    BY <1>4, <1>5
  <2> QED
    BY <1>3, <1>5, <2>1
<1>6. CASE Beats # {}
  <2>1. Min(Beats) \in Beats /\ \A i \in Beats : Min(Beats) <= i
    <3>1. Beats \subseteq Nat
      BY <1>1, <1>4
    <3> QED
      BY <1>6, <3>1, LeastElement
  <2>2. Min(Beats) \in 0 + 1 .. l /\ IsPrefix(Tag, batch[Min(Beats)].body)
    BY <1>4, <2>1
  <2>3. ASSUME NEW i \in 0 + 1 .. Min(Beats) - 1
        PROVE  ~IsPrefix(Tag, batch[i].body)
    <3>1. i \in 1 .. l /\ ~ (Min(Beats) <= i)
      BY <1>1, <2>2
    <3> QED
      BY <1>4, <2>1, <3>1
  <2> QED
    BY <1>3, <1>6, <2>2, <2>3
<1> QED
  BY <1>5, <1>6

LEMMA FramedIsNotEmpty ==
    ASSUME NEW b \in Bodies
    PROVE  Framed(Len(b), b) # <<>>
<1>1. b \in Text /\ Len(b) \in 0 .. 9
  <2>1. b \in Seq(Range(b)) /\ Range(b) \subseteq Chars
    BY BodiesAssumption DEF Chars
  <2> QED
    BY <2>1, SeqMonotonic, FramesAssumption DEF Text
<1> DEFINE d == Decimal(Len(b))
<1>2. d \in Text
  <2>1. Len(b) \in -9 .. 9
    BY <1>1
  <2> QED
    BY <2>1, DecimalFacts
<1>3. Framed(Len(b), b) = (Marker \o d \o Marker) \o b
  BY DEF Framed
<1> HIDE DEF d
<1>4. (Marker \o d \o Marker) \o b = Marker \o (d \o (Marker \o b))
  <2>1. Marker \in Text
    BY Literals
  <2> HIDE DEF Marker
  <2> QED
    BY <1>1, <1>2, <2>1, RegroupThree
<1>5. d \o (Marker \o b) \in Text
  BY <1>1, <1>2, Literals, JoinText
<1>6. Len(Framed(Len(b), b)) = 3 + Len(d \o (Marker \o b)) /\ Len(d \o (Marker \o b)) \in Nat
  <2> DEFINE v == d \o (Marker \o b)
  <2>1. v \in Text /\ Framed(Len(b), b) = Marker \o v
    BY <1>3, <1>4, <1>5
  <2> HIDE DEF v
  <2>2. Len(Marker \o v) = 3 + Len(v) /\ Len(v) \in Nat
    BY <2>1, MarkerThen
  <2> QED
    BY <2>1, <2>2 DEF v
<1>7. Len(<<>>) = 0
  OBVIOUS
<1> QED
  BY <1>6, <1>7

\* What no action of the loop touches.
LEMMA LoopKeeps ==
    ASSUME FramesInv, pc = "loop", batch' = batch, raw' \in Text, out' \in Seq(Text),
           pong' = pong, pc' \in {"loop", "done", "panicked"}, KeptSoFar',
           Occurs(Minus, raw') => Occurs(Minus, raw),
           pc' = "loop" => InStep' \/ PastHarm',
           WrongLengthIsContained'
    PROVE  FramesInv'
<1>1. Beats' = {} /\ pong' = <<>> /\ Negative' = Negative /\ batch' \in Batches
  BY SameBatch DEF FramesInv
<1>2. PongEchoesFirst'
  BY <1>1 DEF PongEchoesFirst
<1>3. Occurs(Minus, raw') => Negative'
  BY <1>1 DEF FramesInv
<1> QED
  BY <1>1, <1>2, <1>3 DEF FramesInv

\* A part goes out, the loop goes on: in step after an intact frame, past the
\* first harmful length otherwise.
LEMMA LoopGoesOn ==
    ASSUME FramesInv, pc = "loop", batch' = batch, pong' = pong, pc' = pc,
           NEW e \in Text, out' = Append(out, e),
           raw' \in Text, Occurs(Minus, raw') => Occurs(Minus, raw),
           \/ PastHarm
           \/ \E k \in 0 .. Intact : /\ Len(out) = k /\ k + 1 <= Intact
                                     /\ e = Kept(batch[k + 1])
                                     /\ raw' = Leftover(k + 1) \o Rest(batch, k + 1)
    PROVE  FramesInv'
<1>1. batch \in Batches /\ out \in Seq(Text) /\ KeptSoFar
  BY DEF FramesInv
<1>2. Len(out) \in Nat /\ Intact \in Nat /\ Intact' = Intact /\ Harmful' = Harmful
  BY <1>1, LenProperties, IntactIs, SameBatch
<1>3. Len(out) + 1 <= Intact => e = Kept(batch[Len(out) + 1])
  BY <1>2 DEF PastHarm
<1>4. /\ out' \in Seq(Text) /\ Len(out') = Len(out) + 1
      /\ \A i \in 1 .. Len(out') : i <= Intact => out'[i] = Kept(batch[i])
  BY <1>1, <1>3, AppendKept
<1>5. KeptSoFar'
  BY <1>2, <1>4 DEF KeptSoFar
<1>6. InStep' \/ PastHarm'
  <2>1. CASE PastHarm
    BY <1>2, <1>4, <2>1 DEF PastHarm
  <2>2. CASE ~PastHarm
    <3>1. PICK k \in 0 .. Intact : /\ Len(out) = k /\ k + 1 <= Intact
                                   /\ raw' = Leftover(k + 1) \o Rest(batch, k + 1)
      BY <2>2
    <3>2. k + 1 \in 0 .. Intact /\ Len(out') = k + 1
      BY <1>2, <1>4, <3>1
    <3>3. raw' = Leftover(k + 1)' \o Rest(batch', k + 1)
      BY <3>1 DEF Leftover
    <3> DEFINE j == k + 1
    <3>4. j \in 0 .. Intact' /\ Len(out') = j /\ raw' = Leftover(j)' \o Rest(batch', j)
      BY <1>2, <3>2, <3>3
    <3> HIDE DEF j
    <3> QED
      BY <3>4 DEF InStep
  <2> QED
    BY <2>1, <2>2
<1>7. WrongLengthIsContained'
  BY DEF WrongLengthIsContained
<1> QED
  BY <1>4, <1>5, <1>6, <1>7, LoopKeeps

LEMMA LoopLeft ==
    ASSUME FramesInv, pc = "loop", Breaks,
           Len(out) >= Intact, Harmful = {} => Len(out) = Intact
    PROVE  FramesInv'
<1>1. /\ batch \in Batches /\ out \in Seq(Text) /\ raw \in Text /\ KeptSoFar
      /\ Len(out) \in Nat
  BY LenProperties DEF FramesInv
<1>2. batch' = batch /\ raw' = raw /\ out' = out /\ pong' = pong /\ pc' = "done"
  BY DEF Breaks
<1>3. KeptSoFar'
  BY <1>1, <1>2, SameBatch DEF KeptSoFar
<1>4. WrongLengthIsContained'
  BY <1>1, <1>2, <1>3, ContainedAtEnd
<1> QED
  BY <1>1, <1>2, <1>3, <1>4, LoopKeeps

LEMMA FramesPing ==
    ASSUME FramesInv, Ping
    PROVE  FramesInv'
<1> USE DEF FramesInv
<1>1. /\ batch \in Batches /\ raw = Wire(batch) /\ out = <<>> /\ Occurs(Tag, raw)
      /\ batch' = batch /\ raw' = raw /\ out' = out /\ pc' = "done"
      /\ pong' = Framed(Len(Tag \o Number(raw)), Tag \o Number(raw))
  BY DEF Ping
<1>2. Beats # {} /\ Tag \o Number(raw) = batch[Min(Beats)].body
  BY <1>1, PongIsFirst
<1> DEFINE b == batch[Min(Beats)].body
<1>3. b \in Bodies
  <2>1. Beats \subseteq 1 .. Len(batch) /\ Len(batch) \in Nat
    BY <1>1, BatchFacts DEF Beats
  <2>2. Min(Beats) \in Beats
    <3>1. Beats \subseteq Nat
      BY <2>1
    <3> QED
      BY <1>2, <3>1, LeastElement
  <2>3. batch[Min(Beats)] \in FramesSet
    BY <1>1, <2>1, <2>2, BatchFacts
  <2> QED
    BY <2>3 DEF FramesSet
<1>4. pong' = Framed(Len(b), b) /\ pong' # <<>>
  BY <1>1, <1>2, <1>3, FramedIsNotEmpty
<1> HIDE DEF b
<1>5. PongEchoesFirst'
  BY <1>1, <1>2, <1>4, SameBatch DEF PongEchoesFirst, b
<1>6. WrongLengthIsContained'
  BY <1>1, <1>4 DEF WrongLengthIsContained
<1>7. KeptSoFar'
  BY <1>1, SameBatch DEF KeptSoFar
<1> QED
  BY <1>1, <1>5, <1>6, <1>7, SameBatch

LEMMA FramesDecode ==
    ASSUME FramesInv, Decode
    PROVE  FramesInv'
<1> USE DEF FramesInv
<1>1. /\ batch \in Batches /\ raw = Wire(batch) /\ out = <<>> /\ pong = <<>>
      /\ ~Occurs(Tag, raw)
      /\ batch' = batch /\ raw' = raw /\ out' = out /\ pong' = pong /\ pc' = "loop"
  BY DEF Decode
<1>2. Beats' = {}
  BY <1>1, PongIsFirst, SameBatch
<1>3. InStep'
  <2>1. Intact' \in Nat
    BY <1>1, IntactIs, SameBatch
  <2>2. raw' = Leftover(0)' \o Rest(batch', 0)
    <3>1. 0 \in 0 .. Len(batch)
      BY <1>1, BatchFacts
    <3>2. Rest(batch, 0) = Wire(batch) /\ Rest(batch, 0) \in Text
      BY <1>1, <3>1, RestFacts
    <3>3. Leftover(0)' = <<>>
      BY DEF Leftover
    <3>4. <<>> \o Rest(batch, 0) = Rest(batch, 0)
      BY <3>2, ConcatEmptySeq DEF Text
    <3> QED
      BY <1>1, <3>2, <3>3, <3>4
  <2>3. Len(out') = 0 /\ 0 \in 0 .. Intact'
    BY <1>1, <2>1
  <2> QED
    BY <2>2, <2>3 DEF InStep
<1>4. WrongLengthIsContained' /\ PongEchoesFirst'
  BY <1>1 DEF WrongLengthIsContained, PongEchoesFirst
<1>5. KeptSoFar'
  BY <1>1, SameBatch DEF KeptSoFar
<1> QED
  BY <1>1, <1>2, <1>3, <1>4, <1>5, SameBatch

\* The loop is left without a frame to read, or past a harmful length.
LEMMA FramesBreak ==
    ASSUME FramesInv, NoMarker \/ NoLength \/ NotANumber
    PROVE  FramesInv'
<1>1. pc = "loop" /\ Breaks /\ batch \in Batches /\ (InStep \/ PastHarm)
  BY DEF FramesInv, NoMarker, NoLength, NotANumber, Opened
<1>2. Len(out) >= Intact /\ (Harmful = {} => Len(out) = Intact)
  <2>1. CASE ~Occurs(Marker, raw)
    BY <1>1, <2>1, NothingLeft
  <2>2. CASE Occurs(Marker, raw)
    <3>1. \A k : ~Reads(k)
      BY <2>2 DEF NoMarker, NoLength, NotANumber, Reads
    <3>2. PastHarm
      BY <1>1, <2>2, <3>1, MarkerLeft
    <3> QED
      BY <3>2 DEF PastHarm
  <2> QED
    BY <2>1, <2>2
<1> QED
  BY <1>1, <1>2, LoopLeft

LEMMA FramesShort ==
    ASSUME FramesInv, Short
    PROVE  FramesInv'
<1>1. /\ batch \in Batches /\ raw \in Text /\ out \in Seq(Text) /\ KeptSoFar
      /\ Len(out) \in Nat /\ (InStep \/ PastHarm) /\ pc = "loop"
      /\ Occurs(Marker, raw) /\ Occurs(Marker, Length) /\ Before(Marker, Length) \in Numerals
      /\ Len(tail) < n
      /\ batch' = batch /\ raw' = raw /\ pong' = pong /\ pc' = "done"
      /\ out' = IF Valid(tail) THEN Append(out, tail) ELSE out
  BY LenProperties DEF FramesInv, Short, Headed, Opened
<1>2. tail \in Text /\ n \in -9 .. 9
  BY <1>1, HeadedFacts
<1>3. Intact \in 0 .. Len(batch) /\ Len(batch) \in Nat
      /\ (Harmful = {} <=> Intact = Len(batch))
  BY <1>1, IntactIs
<1>4. CASE PastHarm
  <2>1. /\ out' \in Seq(Text) /\ Len(out') \in Nat /\ Len(out') >= Intact
        /\ \A i \in 1 .. Len(out') : i <= Intact => out'[i] = Kept(batch[i])
    <3>1. Len(out) + 1 <= Intact => tail = Kept(batch[Len(out) + 1])
      BY <1>1, <1>3, <1>4 DEF PastHarm
    <3>2. /\ Append(out, tail) \in Seq(Text)
          /\ Len(Append(out, tail)) = Len(out) + 1
          /\ \A i \in 1 .. Len(Append(out, tail)) :
                i <= Intact => Append(out, tail)[i] = Kept(batch[i])
      BY <1>1, <1>2, <3>1, AppendKept
    <3> QED
      BY <1>1, <1>3, <1>4, <3>2 DEF PastHarm, KeptSoFar
  <2>2. KeptSoFar'
    BY <1>1, <2>1, SameBatch DEF KeptSoFar
  <2>3. WrongLengthIsContained'
    BY <1>1, <1>4, <2>1, <2>2, ContainedAtEnd DEF PastHarm
  <2> QED
    BY <1>1, <2>1, <2>2, <2>3, LoopKeeps
<1>5. CASE ~PastHarm
  <2>1. PICK k \in 0 .. Intact : Len(out) = k /\ k + 1 <= Intact /\ Reads(k)
    BY <1>1, <1>5, MarkerLeft
  <2>2. k + 1 = Len(batch) /\ tail = Kept(batch[k + 1]) /\ Valid(tail)
    <3>1. \/ n \in 0 .. Len(tail)
          \/ k + 1 = Len(batch) /\ tail = Kept(batch[k + 1]) /\ Valid(tail)
      BY <1>1, <2>1, HarmlessRound
    <3>2. n \notin 0 .. Len(tail)
      <4>1. Len(tail) \in Nat
        BY <1>2, LenProperties DEF Text
      <4> QED
        BY <1>1, <1>2, <4>1
    <3> QED
      BY <3>1, <3>2
  <2>3. /\ out' \in Seq(Text) /\ Len(out') = k + 1
        /\ \A i \in 1 .. Len(out') : i <= Intact => out'[i] = Kept(batch[i])
    <3>1. Len(out) + 1 <= Intact => tail = Kept(batch[Len(out) + 1])
      BY <2>1, <2>2
    <3>2. out' = Append(out, tail)
      BY <1>1, <2>2
    <3> QED
      BY <1>1, <1>2, <2>1, <3>1, <3>2, AppendKept
  <2>4. KeptSoFar'
    BY <1>1, <2>3, SameBatch DEF KeptSoFar
  <2>5. Len(out') = Intact /\ Len(out') \in Nat
    BY <1>3, <2>1, <2>2, <2>3
  <2>6. WrongLengthIsContained'
    <3>1. Len(out') >= Intact
      BY <1>3, <2>5
    <3> QED
      BY <1>1, <2>4, <2>5, <3>1, ContainedAtEnd
  <2> QED
    BY <1>1, <2>3, <2>4, <2>6, LoopKeeps
<1> QED
  BY <1>4, <1>5

LEMMA FramesPanic ==
    ASSUME FramesInv, Panic
    PROVE  FramesInv'
<1>1. /\ batch \in Batches /\ raw \in Text /\ out \in Seq(Text) /\ KeptSoFar
      /\ pc = "loop"
      /\ Occurs(Marker, raw) /\ Occurs(Marker, Length) /\ Before(Marker, Length) \in Numerals
      /\ n < 0
      /\ batch' = batch /\ raw' = raw /\ pong' = pong /\ out' = out /\ pc' = "panicked"
  BY DEF FramesInv, Panic, Headed, Opened
<1>2. Negative
  BY <1>1, HeadedFacts DEF FramesInv
<1>3. WrongLengthIsContained'
  BY <1>1, <1>2 DEF WrongLengthIsContained, Negative
<1>4. KeptSoFar'
  BY <1>1, SameBatch DEF KeptSoFar
<1> QED
  BY <1>1, <1>3, <1>4, LoopKeeps

LEMMA FramesTake ==
    ASSUME FramesInv, Take
    PROVE  FramesInv'
<1>1. /\ batch \in Batches /\ raw \in Text /\ (InStep \/ PastHarm) /\ pc = "loop"
      /\ Occurs(Marker, raw) /\ Occurs(Marker, Length) /\ Before(Marker, Length) \in Numerals
      /\ n \in 0 .. Len(tail) /\ ~Into(n, tail)
      /\ batch' = batch /\ pong' = pong /\ pc' = pc
      /\ out' = Append(out, SubSeq(tail, 1, n))
      /\ raw' = From(tail, n + 1)
  BY DEF FramesInv, Take, Headed, Opened, IntoMarker, Into
<1>2. /\ tail \in Text
      /\ \A j \in 0 .. Len(tail) : Occurs(Minus, From(tail, j + 1)) => Occurs(Minus, raw)
  BY <1>1, HeadedFacts
<1>3. SubSeq(tail, 1, n) \in Text /\ raw' \in Text
  BY <1>1, <1>2, CutText
<1>4. Occurs(Minus, raw') => Occurs(Minus, raw)
  BY <1>1, <1>2
<1>5. ASSUME ~PastHarm
      PROVE  \E k \in 0 .. Intact : /\ Len(out) = k /\ k + 1 <= Intact
                                    /\ SubSeq(tail, 1, n) = Kept(batch[k + 1])
                                    /\ raw' = Leftover(k + 1) \o Rest(batch, k + 1)
  <2>1. PICK k \in 0 .. Intact : Len(out) = k /\ k + 1 <= Intact /\ Reads(k)
    BY <1>1, <1>5, MarkerLeft
  <2>2. ~ (Len(tail) < n)
    BY <1>1, <1>2, LenProperties DEF Text
  <2>3. /\ SubSeq(tail, 1, n) = Kept(batch[k + 1])
        /\ From(tail, n + 1) = Leftover(k + 1) \o Rest(batch, k + 1)
    BY <1>1, <2>1, <2>2, HarmlessRound
  <2> QED
    BY <1>1, <2>1, <2>3
<1> QED
  BY <1>1, <1>3, <1>4, <1>5, LoopGoesOn

LEMMA FramesResync ==
    ASSUME FramesInv, Resync
    PROVE  FramesInv'
<1>1. /\ batch \in Batches /\ raw \in Text /\ (InStep \/ PastHarm) /\ pc = "loop"
      /\ Occurs(Marker, raw) /\ Occurs(Marker, Length) /\ Before(Marker, Length) \in Numerals
      /\ n <= Len(tail) /\ n > 0 /\ Into(n, tail)
      /\ batch' = batch /\ pong' = pong /\ pc' = pc
      /\ out' = Append(out, SubSeq(tail, 1, n - 1))
      /\ raw' = From(tail, n)
  BY DEF FramesInv, Resync, Headed, Opened, IntoMarker, Into
<1>2. /\ tail \in Text /\ n \in -9 .. 9
      /\ \A j \in 0 .. Len(tail) : Occurs(Minus, From(tail, j + 1)) => Occurs(Minus, raw)
  BY <1>1, HeadedFacts
<1>3. Len(tail) \in Nat
  BY <1>2, LenProperties DEF Text
<1> DEFINE j == n - 1
<1>4. j \in 0 .. Len(tail) /\ j + 1 = n
  BY <1>1, <1>2, <1>3
<1> HIDE DEF j
<1>5. SubSeq(tail, 1, j) \in Text /\ raw' \in Text
  BY <1>1, <1>2, <1>4, CutText
<1>6. Occurs(Minus, raw') => Occurs(Minus, raw)
  BY <1>1, <1>2, <1>4
<1>7. ASSUME ~PastHarm
      PROVE  \E k \in 0 .. Intact : /\ Len(out) = k /\ k + 1 <= Intact
                                    /\ SubSeq(tail, 1, j) = Kept(batch[k + 1])
                                    /\ raw' = Leftover(k + 1) \o Rest(batch, k + 1)
  <2>1. PICK k \in 0 .. Intact : Len(out) = k /\ k + 1 <= Intact /\ Reads(k)
    BY <1>1, <1>7, MarkerLeft
  <2>2. ~ (Len(tail) < n)
    BY <1>1, <1>2, <1>3
  <2>3. /\ SubSeq(tail, 1, n - 1) = Kept(batch[k + 1])
        /\ From(tail, n) = Leftover(k + 1) \o Rest(batch, k + 1)
    BY <1>1, <2>1, <2>2, HarmlessRound
  <2> QED
    BY <1>1, <2>1, <2>3 DEF j
<1>8. out' = Append(out, SubSeq(tail, 1, j))
  BY <1>1 DEF j
<1> QED
  BY <1>1, <1>5, <1>6, <1>7, <1>8, LoopGoesOn

LEMMA FramesStep == FramesInv /\ [Next]_vars => FramesInv'
<1> SUFFICES ASSUME FramesInv, [Next]_vars
             PROVE  FramesInv'
  OBVIOUS
<1>1. CASE Ping
  BY <1>1, FramesPing
<1>2. CASE Decode
  BY <1>2, FramesDecode
<1>3. CASE NoMarker \/ NoLength \/ NotANumber
  BY <1>3, FramesBreak
<1>4. CASE Short
  BY <1>4, FramesShort
<1>5. CASE Panic
  BY <1>5, FramesPanic
<1>6. CASE Resync
  BY <1>6, FramesResync
<1>7. CASE Take
  BY <1>7, FramesTake
<1>8. CASE UNCHANGED vars
  <2>1. /\ batch' = batch /\ pc' = pc /\ raw' = raw /\ out' = out /\ pong' = pong
    BY <1>8 DEF vars
  <2>2. Harmful' = Harmful /\ Intact' = Intact /\ Beats' = Beats /\ Negative' = Negative
    BY <2>1, SameBatch
  <2>3. InStep' = InStep /\ PastHarm' = PastHarm /\ KeptSoFar' = KeptSoFar
    BY <2>1, <2>2 DEF InStep, PastHarm, KeptSoFar, Leftover
  <2>4. WrongLengthIsContained' = WrongLengthIsContained
    BY <2>1 DEF WrongLengthIsContained, Harmless
  <2>5. PongEchoesFirst' = PongEchoesFirst
    BY <2>1, <2>2 DEF PongEchoesFirst
  <2> QED
    BY <2>1, <2>2, <2>3, <2>4, <2>5 DEF FramesInv
<1> QED
  BY <1>1, <1>2, <1>3, <1>4, <1>5, <1>6, <1>7, <1>8 DEF Next, Returned

\* The inductive invariant: the loop is in step with the batch until it reaches
\* the first harmful length, and what it has put out by then stays.
THEOREM FramesInvariant == Spec => []FramesInv
<1>1. Init => FramesInv
  BY FramesStart
<1>2. FramesInv /\ [Next]_vars => FramesInv'
  BY FramesStep
<1> QED
  BY <1>1, <1>2, PTL DEF Spec

\* decodeFrames, protocol.go:27-60: whatever the declared lengths, every frame
\* before the first harmful length comes out at its place, and only a negative
\* length makes it panic.
THEOREM WrongLengthContained == Spec => []WrongLengthIsContained
<1>1. FramesInv => WrongLengthIsContained
  BY DEF FramesInv
<1> QED
  BY <1>1, FramesInvariant, PTL

\* heartbeatPong, protocol.go:63-82: what is sent back is the first heartbeat of
\* the message, whatever the lengths; nothing is sent back without one.
THEOREM PongIsTheFirst == Spec => []PongEchoesFirst
<1>1. FramesInv => PongEchoesFirst
  BY DEF FramesInv
<1> QED
  BY <1>1, FramesInvariant, PTL
=============================================================================
