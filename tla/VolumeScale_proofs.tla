------------------------- MODULE VolumeScale_proofs -------------------------
(***************************************************************************)
(* What the arithmetic of VolumeScale gives for every scale, range and     *)
(* value.                                                                  *)
(***************************************************************************)
EXTENDS VolumeScale, TLAPS

\* Clamping ends in the range and leaves what is in it alone.
LEMMA ClampInRange ==
    ASSUME NEW n \in Int, NEW lo \in Int, NEW hi \in Int, lo <= hi
    PROVE  /\ Clamp(n, lo, hi) \in lo..hi
           /\ n \in lo..hi => Clamp(n, lo, hi) = n
BY DEF Clamp

\* Half a step up at most, and less than half a step down.
LEMMA HalfNearest ==
    ASSUME NEW a \in Nat, NEW b \in Int, b > 0
    PROVE  /\ Half(a, b) \in Nat
           /\ 2 * (Half(a, b) * b) <= 2 * a + b
           /\ 2 * a + b < 2 * (Half(a, b) * b) + 2 * b
BY DEF Half

\* A multiple of the step is left as it is, zero and above.
LEMMA HalfExact ==
    ASSUME NEW n \in Nat, NEW b \in Int, b > 0
    PROVE  Half(b * n, b) = n
BY DEF Half

\* A step is a whole number.
LEMMA RoundIsInt ==
    ASSUME NEW a \in Int, NEW b \in Int, b > 0
    PROVE  Round(a, b) \in Int
<1>1. CASE a >= 0
  BY <1>1, HalfNearest DEF Round
<1>2. CASE a < 0
  <2>1. -a \in Nat
    BY <1>2
  <2> QED
    BY <1>2, <2>1, HalfNearest DEF Round
<1> QED
  BY <1>1, <1>2

\* A multiple of the step rounds to itself.
LEMMA RoundExact ==
    ASSUME NEW n \in Int, NEW b \in Int, b > 0
    PROVE  Round(b * n, b) = n
<1>1. CASE n >= 0
  <2>1. b * n >= 0
    BY <1>1
  <2> QED
    BY <1>1, <2>1, HalfExact DEF Round
<1>2. CASE n < 0
  <2>1. b * n < 0 /\ -(b * n) = b * (-n) /\ -n \in Nat
    BY <1>2
  <2>2. Half(-(b * n), b) = -n
    BY <2>1, HalfExact
  <2> QED
    BY <2>1, <2>2 DEF Round
<1> QED
  BY <1>1, <1>2

\* Rounding is to the nearest multiple: at most half a step away
\* (formatStepped, VolumeDBToInt).
THEOREM RoundNearest ==
    ASSUME NEW a \in Int, NEW b \in Int, b > 0
    PROVE  /\ 2 * (Round(a, b) * b) - 2 * a <= b
           /\ 2 * a - 2 * (Round(a, b) * b) <= b
<1>1. CASE a >= 0
  <2>1. /\ Half(a, b) \in Nat
        /\ 2 * (Half(a, b) * b) <= 2 * a + b
        /\ 2 * a + b < 2 * (Half(a, b) * b) + 2 * b
    BY <1>1, HalfNearest
  <2>2. Round(a, b) = Half(a, b)
    BY <1>1 DEF Round
  <2>3. Half(a, b) * b \in Int
    BY <2>1
  <2> QED
    BY <2>1, <2>2, <2>3
<1>2. CASE a < 0
  <2>1. -a \in Nat
    BY <1>2
  <2>2. /\ Half(-a, b) \in Nat
        /\ 2 * (Half(-a, b) * b) <= 2 * (-a) + b
        /\ 2 * (-a) + b < 2 * (Half(-a, b) * b) + 2 * b
    BY <2>1, HalfNearest
  <2>3. Round(a, b) * b = -(Half(-a, b) * b)
    BY <1>2, <2>2 DEF Round
  <2> QED
    BY <2>2, <2>3
<1> QED
  BY <1>1, <1>2

\* A larger value never rounds to a smaller step.
LEMMA RoundMonotone ==
    ASSUME NEW a \in Int, NEW c \in Int, NEW b \in Int, b > 0, a <= c
    PROVE  Round(a, b) <= Round(c, b)
<1> DEFINE m == Round(a, b)
           n == Round(c, b)
<1>1. m \in Int /\ n \in Int
  BY RoundIsInt
<1>2. CASE a >= 0
  <2>1. m = Half(a, b) /\ n = Half(c, b) /\ c >= 0
    BY <1>2 DEF Round
  <2> QED
    BY <2>1, <1>2 DEF Half
<1>3. CASE a < 0 /\ c < 0
  <2>1. m = -Half(-a, b) /\ n = -Half(-c, b)
    BY <1>3 DEF Round
  <2>2. Half(-c, b) <= Half(-a, b)
    BY <1>3 DEF Half
  <2>3. Half(-a, b) \in Int /\ Half(-c, b) \in Int
    BY <1>3, HalfNearest
  <2> QED
    BY <2>1, <2>2, <2>3
<1>4. CASE a < 0 /\ c >= 0
  <2>1. -a \in Nat /\ c \in Nat
    BY <1>4
  <2>2. Half(-a, b) \in Nat /\ Half(c, b) \in Nat
    BY <2>1, HalfNearest
  <2>3. m = -Half(-a, b) /\ n = Half(c, b)
    BY <1>4 DEF Round
  <2> QED
    BY <2>2, <2>3
<1> QED
  BY <1>2, <1>3, <1>4

\* The scales there is a step to divide by in.
Scales == [baseline : Int, step : {s \in Int : s > 0}]

\* The scale `volume --db` and `status` use has a step to divide by.
THEOREM ScaleHasStep ==
    ASSUME NEW reported \in [baseline : Int, step : Int], NEW fallback \in Scales
    PROVE  VolumeDBScale(reported, fallback) \in Scales
BY DEF VolumeDBScale, Scales

\* The dB `status` prints for a volume convert back to that volume.
THEOREM RoundTrip ==
    ASSUME NEW scale \in Scales, NEW n \in Int
    PROVE  VolumeDBToInt(scale, VolumeIntToDB(scale, n)) = n
<1>1. scale.step \in Int /\ scale.step > 0 /\ scale.baseline \in Int
  BY DEF Scales
<1>2. VolumeIntToDB(scale, n) - scale.baseline = scale.step * n
  BY <1>1 DEF VolumeIntToDB
<1> QED
  BY <1>1, <1>2, RoundExact DEF VolumeDBToInt

\* `volume --db` sends a step of the receiver's range, whatever was asked.
THEOREM FromDBInRange ==
    ASSUME NEW scale \in Scales, NEW db \in Int, NEW lo \in Int, NEW hi \in Int, lo <= hi
    PROVE  FromDB(scale, db, lo, hi) \in lo..hi
<1> DEFINE bottom == VolumeIntToDB(scale, lo)
           top == VolumeIntToDB(scale, hi)
<1>1. scale.step \in Int /\ scale.step > 0 /\ scale.baseline \in Int
  BY DEF Scales
<1>2. bottom \in Int /\ top \in Int
  BY <1>1 DEF VolumeIntToDB
<1>3. Clamp(db, bottom, top) - scale.baseline \in Int
  BY <1>1, <1>2 DEF Clamp
<1>4. VolumeDBToInt(scale, Clamp(db, bottom, top)) \in Int
  BY <1>1, <1>3, RoundIsInt DEF VolumeDBToInt
<1> QED
  BY <1>4, ClampInRange DEF FromDB

\* `volume --db` of the dB `status` prints for a volume leaves it as it is.
THEOREM FromDBKeeps ==
    ASSUME NEW scale \in Scales, NEW lo \in Int, NEW hi \in Int, NEW n \in lo..hi
    PROVE  FromDB(scale, VolumeIntToDB(scale, n), lo, hi) = n
<1>1. scale.step \in Int /\ scale.step > 0 /\ scale.baseline \in Int
  BY DEF Scales
<1>2. scale.step * lo <= scale.step * n /\ scale.step * n <= scale.step * hi
  BY <1>1
<1>3. VolumeIntToDB(scale, n) \in VolumeIntToDB(scale, lo)..VolumeIntToDB(scale, hi)
  BY <1>1, <1>2 DEF VolumeIntToDB
<1>4. VolumeIntToDB(scale, lo) \in Int /\ VolumeIntToDB(scale, hi) \in Int
  BY <1>1 DEF VolumeIntToDB
<1>5. Clamp(VolumeIntToDB(scale, n), VolumeIntToDB(scale, lo), VolumeIntToDB(scale, hi))
        = VolumeIntToDB(scale, n)
  BY <1>3, <1>4 DEF Clamp
<1> QED
  BY <1>5, RoundTrip, ClampInRange DEF FromDB

\* A percentage is a step of the range, the ends of the scale are the ends of
\* the range, and more percent is never less volume.
THEOREM FromPercentRight ==
    ASSUME NEW whole \in Int, whole > 0, NEW lo \in Int, NEW hi \in Int, lo <= hi,
           NEW p \in 0..whole, NEW q \in p..whole
    PROVE  /\ FromPercent(p, whole, lo, hi) \in lo..hi
           /\ FromPercent(0, whole, lo, hi) = lo
           /\ FromPercent(whole, whole, lo, hi) = hi
           /\ FromPercent(p, whole, lo, hi) <= FromPercent(q, whole, lo, hi)
<1>1. /\ p * (hi - lo) \in Int /\ q * (hi - lo) \in Int
      /\ p * (hi - lo) <= q * (hi - lo)
  OBVIOUS
<1>2. /\ Round(p * (hi - lo), whole) \in Int /\ Round(q * (hi - lo), whole) \in Int
      /\ Round(p * (hi - lo), whole) <= Round(q * (hi - lo), whole)
  BY <1>1, RoundIsInt, RoundMonotone
<1>3. Round(0 * (hi - lo), whole) = 0
  <2>1. 0 * (hi - lo) = whole * 0
    OBVIOUS
  <2> QED
    BY <2>1, RoundExact
<1>4. Round(whole * (hi - lo), whole) = hi - lo
  BY RoundExact
<1>5. FromPercent(p, whole, lo, hi) \in lo..hi
  <2>1. lo + Round(p * (hi - lo), whole) \in Int
    BY <1>2
  <2> QED
    BY <2>1, ClampInRange DEF FromPercent
<1>6. FromPercent(0, whole, lo, hi) = lo
  BY <1>3, ClampInRange DEF FromPercent
<1>7. FromPercent(whole, whole, lo, hi) = hi
  BY <1>4 DEF FromPercent, Clamp
<1>8. FromPercent(p, whole, lo, hi) <= FromPercent(q, whole, lo, hi)
  BY <1>2 DEF FromPercent, Clamp
<1> QED
  BY <1>5, <1>6, <1>7, <1>8

=============================================================================
