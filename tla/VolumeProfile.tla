--------------------------- MODULE VolumeProfile ---------------------------
(***************************************************************************)
(* VolumeProfileEnricher.compute of ta/ta.go: the volume of a window of    *)
(* bars is spread over bins of price; the value area grows from the        *)
(* busiest bin (the point of control) to the busier neighbour, until it    *)
(* holds 70% of the volume.                                                *)
(*                                                                         *)
(* Prices and volumes are integers, and every share of a volume is whole:  *)
(* the arithmetic is that of the code without its rounding.                *)
(***************************************************************************)
EXTENDS Integers, FiniteSetsExt

CONSTANTS Bins,      \* e.Bins
          Lookback,  \* e.Lookback, the length of the window
          Prices, Volumes

ASSUME ProfileAssumption ==
    /\ Bins \in Nat \ {0} /\ Lookback \in Nat \ {0}
    /\ Prices \subseteq Nat
    /\ Volumes \subseteq Nat
    /\ \A v \in Volumes, n \in 1 .. Bins : v % n = 0

VARIABLES
    window,     \* the bars
    pc,
    next,       \* the next bar to be counted
    volAt,      \* volume by bin
    total,
    pocBin, lowBin, highBin,
    acc         \* volume of the value area

area == <<pocBin, lowBin, highBin, acc>>
vars == <<window, pc, next, volAt, total, area>>

BinSet == 0 .. Bins - 1

Bars == {b \in [low : Prices, high : Prices, volume : Volumes] : b.low <= b.high}

Init ==
    /\ window \in [1 .. Lookback -> Bars]
    /\ pc = "range"
    /\ next = 1
    /\ volAt = [b \in BinSet |-> 0]
    /\ total = 0
    /\ pocBin = 0
    /\ lowBin = 0
    /\ highBin = 0
    /\ acc = 0

minPrice == Min({window[i].low : i \in DOMAIN window})
maxPrice == Max({window[i].high : i \in DOMAIN window})

\* int((price - minPrice) / binSize)
BinOf(price) == ((price - minPrice) * Bins) \div (maxPrice - minPrice)

\* A window without a range is not binned.
Flat ==
    /\ pc = "range"
    /\ maxPrice = minPrice
    /\ pc' = "done"
    /\ UNCHANGED <<window, next, volAt, total, area>>

Ranged ==
    /\ pc = "range"
    /\ maxPrice # minPrice
    /\ pc' = "count"
    /\ UNCHANGED <<window, next, volAt, total, area>>

\* A bar of volume v over the bins from start to end.
Spread(v, start, end) ==
    LET n   == end - start + 1
        per == IF n > 0 THEN v \div n ELSE 0 IN
      /\ volAt' = [b \in BinSet |-> IF b \in start .. end THEN volAt[b] + per
                                                          ELSE volAt[b]]
      /\ total' = total + per * Cardinality(start .. end)

\* Mutant of Count: endBin is not clamped.
Count_Unclamped ==
    /\ pc = "count"
    /\ next <= Lookback
    /\ Spread(window[next].volume, BinOf(window[next].low), BinOf(window[next].high))
    /\ next' = next + 1
    /\ UNCHANGED <<window, pc, area>>

\* endBin is clamped and startBin, on this side, is not: a bar that lies at
\* the top of the range with its low starts above its end.
Count ==
    /\ pc = "count"
    /\ next <= Lookback
    /\ LET end == BinOf(window[next].high) IN
          Spread(window[next].volume, BinOf(window[next].low),
                 IF end >= Bins THEN Bins - 1 ELSE end)
    /\ next' = next + 1
    /\ UNCHANGED <<window, pc, area>>

Busiest == {b \in BinSet : \A x \in BinSet : volAt[x] <= volAt[b]}

\* The first of the busiest bins.
PointOfControl ==
    /\ pc = "count"
    /\ next > Lookback
    /\ pocBin' = Min(Busiest)
    /\ lowBin' = pocBin'
    /\ highBin' = pocBin'
    /\ acc' = volAt[pocBin']
    /\ pc' = "grow"
    /\ UNCHANGED <<window, next, volAt, total>>

-----------------------------------------------------------------------------
(* The growth of the value area *)

VolumeOf(b) == IF b \in BinSet THEN volAt[b] ELSE 0
lowVol  == VolumeOf(lowBin - 1)
highVol == VolumeOf(highBin + 1)

HoldsTarget == 10 * acc >= 7 * total

Growing == pc = "grow" /\ ~HoldsTarget

Stops ==
    /\ pc' = "done"
    /\ UNCHANGED <<window, next, volAt, total, area>>

GrowDone == pc = "grow" /\ HoldsTarget /\ Stops

\* Mutant of GrowStuck: || in place of &&.
GrowStuck_EitherEmpty == Growing /\ (lowVol = 0 \/ highVol = 0) /\ Stops

\* Edges and empty neighbours look alike.
GrowStuck == Growing /\ lowVol = 0 /\ highVol = 0 /\ Stops

GrowHigh ==
    /\ Growing
    /\ lowVol # 0 \/ highVol # 0
    /\ highBin + 1 < Bins
    /\ highVol >= lowVol \/ lowBin = 0
    /\ highBin' = highBin + 1
    /\ acc' = acc + highVol
    /\ UNCHANGED <<window, pc, next, volAt, total, pocBin, lowBin>>

GrowLow ==
    /\ Growing
    /\ lowVol # 0 \/ highVol # 0
    /\ highVol < lowVol \/ highBin + 1 = Bins
    /\ lowBin > 0
    /\ lowBin' = lowBin - 1
    /\ acc' = acc + lowVol
    /\ UNCHANGED <<window, pc, next, volAt, total, pocBin, highBin>>

\* compute has returned.
Returned == pc = "done" /\ UNCHANGED vars

Next ==
    \/ Flat \/ Ranged \/ Count \/ PointOfControl
    \/ GrowDone \/ GrowStuck \/ GrowHigh \/ GrowLow
    \/ Returned

Spec == Init /\ [][Next]_vars

-----------------------------------------------------------------------------
(* Properties.  That the growth never goes round without growing is the    *)
(* absence of deadlock.                                                    *)

\* What the first 0, 1, .. n values of f add up to, f being indexed from 0.
PartialSums(f, n) ==
    LET s[i \in 0 .. n] == IF i = 0 THEN 0 ELSE s[i - 1] + f[i - 1] IN s

VolumeIn(low, high) ==
    PartialSums(volAt, Bins)[high + 1] - PartialSums(volAt, Bins)[low]

\* The volume of the first n bars, without those whose low is the window's high.
VolumeOfBars(n) ==
    LET volume == [i \in 0 .. Lookback - 1 |->
                      IF window[i + 1].low < maxPrice THEN window[i + 1].volume
                                                      ELSE 0]
    IN  PartialSums(volume, Lookback)[n]

\* ta.go:634-648: the bins hold the volume of every bar that was counted, in
\* full, whatever it is clamped to; except of the bars whose low is the
\* window's high, which are in no bin.
EveryBarCounted ==
    pc \in {"count", "grow"} =>
        /\ VolumeIn(0, Bins - 1) = total
        /\ total = VolumeOfBars(next - 1)

\* ta.go:655-681: the value area is a run of bins that exist around a busiest
\* one and acc is its volume; it ends below 70% of the total only between bins
\* without volume, or the edges.
AreaHoldsTarget ==
    /\ pc = "grow" \/ (pc = "done" /\ maxPrice # minPrice) =>
        /\ pocBin \in Busiest /\ pocBin \in lowBin .. highBin
        /\ lowBin .. highBin \subseteq BinSet
        /\ acc = VolumeIn(lowBin, highBin)
    /\ pc = "done" /\ ~HoldsTarget => lowVol = 0 /\ highVol = 0
=============================================================================
