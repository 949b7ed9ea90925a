---------------------------- MODULE DemandProofs ----------------------------
(***************************************************************************)
(* Theorems about the conversions, the curves and the decisions on         *)
(* temperatures, for every list of configurations.                         *)
(***************************************************************************)
EXTENDS Demand, WellFoundedInduction, TLAPS

-----------------------------------------------------------------------------
(* Conversions.                                                            *)

\* A fan level survives the way through percent and pwm (hp_level_to_pwm,
\* pwm_to_hp_level).
THEOREM LevelRoundTrip == \A level \in 0..HpFanLevelMax : PwmToLevel(LevelToPwm(level)) = level
BY Z3 DEF HpFanLevelMax, PwmToLevel, LevelToPwm, LevelPercent, PercentToPwm, Clamp, PwmMax,
   FullPercent, Percent

\* A duty keeps the GPU fan within the 58 of the firmware's table exactly up to
\* the single-channel ceiling and the two duties above it that round to the same
\* level (manual_pwm_max).
THEOREM CeilingIsTight ==
  \A pwm \in 0..PwmMax : GpuRequest(pwm, FALSE) <= 58 <=> pwm <= Ceiling(FALSE) + 2
BY Z3 DEF GpuRequest, Ceiling, ManualMaxLevel, PwmToLevel, LevelToPwm, LevelPercent,
   PercentToPwm, Clamp, PwmMax, FullPercent, Percent, SinglePwmMaxLevel

\* A higher percentage is never a lower duty, nor a higher duty a lower level.
THEOREM ConversionsAreMonotone ==
  /\ \A q \in Int, p \in Int : q <= p => PercentToPwm(q) <= PercentToPwm(p)
  /\ \A a \in Int, b \in Int : a <= b => PwmToLevel(a) <= PwmToLevel(b)
BY Z3 DEF PwmToLevel, PercentToPwm, Clamp, PwmMax, FullPercent, Percent

-----------------------------------------------------------------------------
(* Curves.                                                                 *)

\* A whole percentage.
LEMMA PercentIsWhole ==
  ASSUME NEW q, q \in 0..FullPercent
  PROVE  q \in Int /\ 0 <= q /\ q <= FullPercent
BY DEF FullPercent, Percent

\* A part of a range.
LEMMA WithinRange ==
  ASSUME NEW a \in Int, NEW b \in Int, NEW lo \in Int, NEW hi \in Int, lo <= a, b <= hi,
         NEW x \in a..b
  PROVE  x \in lo..hi
OBVIOUS

\* A set of numbers has a least one.
LEMMA Least ==
  ASSUME NEW S, S \subseteq Nat, S # {}
  PROVE  \E x \in S : \A y \in S : x <= y
<1> DEFINE R == {ss \in Nat \X Nat : ss[1] < ss[2]}
<1>1. IsWellFoundedOn(R, Nat)
  BY NatLessThanWellFounded DEF OpToRel
<1>2. PICK x \in S : \A y \in S : ~ (<<y, x>> \in R)
  BY <1>1, WFMin
<1>3. ASSUME NEW y \in S
      PROVE  x <= y
  <2>1. <<y, x>> \in Nat \X Nat /\ <<y, x>>[1] = y /\ <<y, x>>[2] = x
    OBVIOUS
  <2>2. ~(y < x)
    BY <1>2, <2>1
  <2> QED BY <2>1, <2>2
<1> QED BY <1>3

\* A set of bounded numbers has a greatest one.
LEMMA Greatest ==
  ASSUME NEW n \in Int, NEW S, S \subseteq Int, S # {}, \A x \in S : x <= n
  PROVE  \E x \in S : \A y \in S : y <= x
<1> DEFINE T == { n - x : x \in S }
<1>1. T \subseteq Nat /\ T # {}
  <2>1. \A x \in S : n - x \in Nat
    OBVIOUS
  <2> QED BY <2>1
<1>2. PICK d \in T : \A e \in T : d <= e
  BY <1>1, Least
<1>3. PICK x \in S : d = n - x
  OBVIOUS
<1>4. ASSUME NEW y \in S
      PROVE  y <= x
  <2>1. n - y \in T
    OBVIOUS
  <2>2. n - x <= n - y
    BY <1>2, <1>3, <2>1
  <2> QED BY <2>2
<1> QED BY <1>4

\* What every two neighbours have, every two members have: strictly rising.
LEMMA RisingEverywhere ==
  ASSUME NEW f, NEW n \in Nat, \A k \in 1..n : f[k] \in Int,
         \A k \in 1..n - 1 : f[k] < f[k + 1]
  PROVE  \A i \in 1..n : \A j \in 1..n : i < j => f[i] < f[j]
<1> SUFFICES ASSUME NEW i \in 1..n, NEW m \in 1..n, i < m, ~(f[i] < f[m])
             PROVE  FALSE
  OBVIOUS
<1> DEFINE bad == { j \in 1..n : i < j /\ ~(f[i] < f[j]) }
<1>1. PICK j \in bad : \A l \in bad : j <= l
  <2>1. bad \subseteq Nat /\ m \in bad
    OBVIOUS
  <2> QED BY <2>1, Least
<1>2. j - 1 \in 1..n - 1 /\ j - 1 \in 1..n /\ (j - 1) + 1 = j
  BY <1>1
<1>3. f[j - 1] < f[j] /\ f[j - 1] \in Int /\ f[j] \in Int /\ f[i] \in Int
  BY <1>1, <1>2
<1>4. CASE i = j - 1
  BY <1>1, <1>3, <1>4
<1>5. CASE i # j - 1
  <2>1. i < j - 1 /\ ~(j - 1 \in bad)
    BY <1>1, <1>2, <1>5
  <2>2. f[i] < f[j - 1]
    BY <2>1, <1>2
  <2> QED BY <2>2, <1>1, <1>3
<1> QED BY <1>4, <1>5

\* The same, not falling.
LEMMA NeverFalling ==
  ASSUME NEW f, NEW n \in Nat, \A k \in 1..n : f[k] \in Int,
         \A k \in 1..n - 1 : f[k] <= f[k + 1]
  PROVE  \A i \in 1..n : \A j \in 1..n : i <= j => f[i] <= f[j]
<1> SUFFICES ASSUME NEW i \in 1..n, NEW m \in 1..n, i <= m, ~(f[i] <= f[m])
             PROVE  FALSE
  OBVIOUS
<1> DEFINE bad == { j \in 1..n : i <= j /\ ~(f[i] <= f[j]) }
<1>1. PICK j \in bad : \A l \in bad : j <= l
  <2>1. bad \subseteq Nat /\ m \in bad
    OBVIOUS
  <2> QED BY <2>1, Least
<1>2. i < j
  BY <1>1
<1>3. j - 1 \in 1..n - 1 /\ j - 1 \in 1..n /\ (j - 1) + 1 = j
  BY <1>1, <1>2
<1>4. f[j - 1] <= f[j] /\ f[j - 1] \in Int /\ f[j] \in Int /\ f[i] \in Int
  BY <1>1, <1>3
<1>5. i <= j - 1 /\ ~(j - 1 \in bad)
  BY <1>1, <1>2, <1>3
<1>6. f[i] <= f[j - 1]
  BY <1>5, <1>3
<1> QED BY <1>6, <1>1, <1>4

-----------------------------------------------------------------------------
(* Accepted curves.                                                        *)

\* A curve that was accepted.
SoundCurve(c) == c.rise \in Seq(Int) /\ c.fall \in Seq(Int) /\ ValidCurve(c)

\* The points of a curve are numbers and in order.
LEMMA CurvePoints ==
  ASSUME NEW c, SoundCurve(c)
  PROVE  /\ Len(c.rise) \in Nat /\ Len(c.rise) >= 2 /\ Len(c.pct) = Len(c.rise)
         /\ \A k \in 1..Len(c.rise) : c.rise[k] \in Int /\ c.pct[k] \in Int
         /\ \A k \in 1..Len(c.rise) : c.pct[k] \in 0..FullPercent
         /\ \A i \in 1..Len(c.rise) : \A j \in 1..Len(c.rise) :
              (i < j => c.rise[i] < c.rise[j]) /\ (i <= j => c.pct[i] <= c.pct[j])
<1> DEFINE n == Len(c.rise)
<1>1. n \in Nat /\ n >= 2 /\ Len(c.pct) = n /\ \A k \in 1..n : c.rise[k] \in Int
  BY DEF SoundCurve, ValidCurve
<1>2. \A k \in 1..n : c.pct[k] \in 0..FullPercent
  BY <1>1 DEF SoundCurve, ValidCurve
<1>3. ASSUME NEW k \in 1..n
      PROVE  c.pct[k] \in Int
  <2>1. c.pct[k] \in 0..FullPercent
    BY <1>2
  <2> QED BY <2>1, PercentIsWhole
<1>4. \A k \in 1..n - 1 : c.rise[k] < c.rise[k + 1] /\ c.pct[k] <= c.pct[k + 1]
  BY <1>1 DEF SoundCurve, ValidCurve, Increasing, NonDecreasing
<1> HIDE DEF n
<1>5. \A i \in 1..n : \A j \in 1..n : i < j => c.rise[i] < c.rise[j]
  BY <1>1, <1>4, RisingEverywhere
<1>6. \A i \in 1..n : \A j \in 1..n : i <= j => c.pct[i] <= c.pct[j]
  BY <1>1, <1>3, <1>4, NeverFalling
<1> QED BY <1>1, <1>2, <1>3, <1>5, <1>6 DEF n

\* So are its falling temperatures, if it has them.
LEMMA FallPoints ==
  ASSUME NEW c, SoundCurve(c), HasFalls(c)
  PROVE  /\ c.stepped
         /\ \A k \in 1..Len(c.rise) : c.fall[k] \in Int /\ c.fall[k] < c.rise[k]
         /\ \A i \in 1..Len(c.rise) : \A j \in 1..Len(c.rise) :
              i < j => c.fall[i] < c.fall[j] /\ c.pct[i] < c.pct[j]
<1> DEFINE n == Len(c.rise)
<1>1. /\ n \in Nat /\ Len(c.pct) = n /\ Len(c.fall) = n /\ c.stepped
      /\ \A k \in 1..n : c.fall[k] \in Int /\ c.fall[k] < c.rise[k]
  BY DEF SoundCurve, ValidCurve, ValidFalls
<1>2. \A k \in 1..n : c.pct[k] \in Int
  BY <1>1, CurvePoints
<1>3. \A k \in 1..n - 1 : c.fall[k] < c.fall[k + 1] /\ c.pct[k] < c.pct[k + 1]
  BY <1>1 DEF SoundCurve, ValidCurve, ValidFalls, Increasing
<1> HIDE DEF n
<1>4. \A i \in 1..n : \A j \in 1..n : i < j => c.fall[i] < c.fall[j]
  BY <1>1, <1>3, RisingEverywhere
<1>5. \A i \in 1..n : \A j \in 1..n : i < j => c.pct[i] < c.pct[j]
  BY <1>1, <1>2, <1>3, RisingEverywhere
<1> QED BY <1>1, <1>4, <1>5 DEF n

\* The step that a temperature has reached.
LEMMA StepReached ==
  ASSUME NEW c, SoundCurve(c), NEW t \in Int
  PROVE  /\ StepAt(c, t) \in 1..Len(c.rise)
         /\ StepAt(c, t) = 1 \/ t >= c.rise[StepAt(c, t)]
         /\ \A j \in StepAt(c, t) + 1..Len(c.rise) : t < c.rise[j]
<1> DEFINE n == Len(c.rise)
           reached == { k \in 1..n : k = 1 \/ t >= c.rise[k] }
<1>1. n \in Nat /\ n >= 2 /\ \A k \in 1..n : c.rise[k] \in Int
  BY CurvePoints
<1>2. PICK k \in reached : \A j \in reached : j <= k
  <2>1. reached \subseteq Int /\ 1 \in reached /\ \A x \in reached : x <= n
    BY <1>1
  <2>2. n \in Int
    BY <1>1
  <2> HIDE DEF reached, n
  <2> QED BY <2>1, <2>2, Greatest
<1>3. ASSUME NEW j \in k + 1..n
      PROVE  t < c.rise[j]
  <2>1. j \in 1..n /\ ~(j <= k) /\ ~(j \in reached)
    BY <1>1, <1>2
  <2> QED BY <1>1, <2>1
<1>4. \E m \in 1..n : /\ m = 1 \/ t >= c.rise[m]
                      /\ \A j \in m + 1..n : t < c.rise[j]
  BY <1>2, <1>3
<1> QED BY <1>4 DEF StepAt

\* Where the search downwards from a step ends.
LEMMA StepGivenUp ==
  ASSUME NEW c, SoundCurve(c), HasFalls(c), NEW t \in Int, NEW k \in 1..Len(c.rise)
  PROVE  /\ StepDown(c, t, k) \in 1..k
         /\ StepDown(c, t, k) = 1 \/ t >= c.fall[StepDown(c, t, k)]
         /\ \A i \in StepDown(c, t, k) + 1..k : t < c.fall[i]
<1> DEFINE n == Len(c.rise)
           kept == { j \in 1..k : j = 1 \/ t >= c.fall[j] }
<1>1. n \in Nat /\ \A j \in 1..n : c.fall[j] \in Int
  BY CurvePoints, FallPoints
<1>2. PICK m \in kept : \A j \in kept : j <= m
  <2>1. kept \subseteq Int /\ 1 \in kept /\ k \in Int /\ \A x \in kept : x <= k
    BY <1>1
  <2> HIDE DEF kept
  <2> QED BY <2>1, Greatest
<1>3. ASSUME NEW i \in m + 1..k
      PROVE  t < c.fall[i]
  <2>1. i \in 1..k /\ i \in 1..n /\ ~(i <= m) /\ ~(i \in kept)
    BY <1>1, <1>2
  <2> QED BY <1>1, <2>1
<1>4. \E j \in 1..k : /\ j = 1 \/ t >= c.fall[j]
                      /\ \A i \in j + 1..k : t < c.fall[i]
  BY <1>2, <1>3
<1> QED BY <1>4 DEF StepDown

\* The step of a level that the curve has.
LEMMA StepOfLevel ==
  ASSUME NEW c, SoundCurve(c), HasFalls(c), NEW k \in 1..Len(c.rise)
  PROVE  StepOf(c, c.pct[k]) = k
<1>1. /\ Len(c.pct) = Len(c.rise) /\ Len(c.rise) \in Nat
      /\ \A i \in 1..Len(c.rise) : c.pct[i] \in Int
  BY CurvePoints
<1>2. \A i \in 1..Len(c.rise) : c.pct[i] = c.pct[k] => i = k
  <2> SUFFICES ASSUME NEW i \in 1..Len(c.rise), i # k
               PROVE  c.pct[i] # c.pct[k]
    OBVIOUS
  <2>1. i < k \/ k < i
    BY <1>1
  <2>2. c.pct[i] < c.pct[k] \/ c.pct[k] < c.pct[i]
    BY <2>1, FallPoints
  <2> QED BY <1>1, <2>2
<1> QED BY <1>1, <1>2 DEF StepOf

-----------------------------------------------------------------------------
(* Lines.                                                                  *)

\* A part of a rise is not more than the rise.
LEMMA PartOfRise ==
  ASSUME NEW a \in Nat, NEW b \in Nat, NEW d \in Nat, d > 0, a <= d
  PROVE  (a * b) \div d \in 0..b
<1>1. a * b \in Nat /\ a * b <= d * b
  BY Z3
<1> DEFINE x == a * b
<1>2. ASSUME NEW y \in Nat, y <= d * b
      PROVE  y \div d \in 0..b
  <2> DEFINE q == y \div d
  <2>1. q \in Int /\ d * q <= y /\ y < d * q + d
    BY Z3
  <2>2. q >= 0
    BY <2>1, Z3
  <2>3. q <= b
    BY <2>1, <1>2, Z3
  <2> QED BY <2>1, <2>2, <2>3
<1> QED BY <1>1, <1>2

\* A larger part is not less.
LEMMA LargerPart ==
  ASSUME NEW a \in Nat, NEW e \in Nat, NEW b \in Nat, NEW d \in Nat, d > 0, a <= e
  PROVE  (a * b) \div d <= (e * b) \div d
<1>1. a * b \in Nat /\ e * b \in Nat /\ a * b <= e * b
  BY Z3
<1>2. ASSUME NEW x \in Nat, NEW y \in Nat, x <= y
      PROVE  x \div d <= y \div d
  <2>1. /\ x \div d \in Int /\ d * (x \div d) <= x
        /\ y \div d \in Int /\ y < d * (y \div d) + d
    BY Z3
  <2>2. ASSUME NEW p \in Int, NEW q \in Int, d * p <= x, y < d * q + d
        PROVE  p <= q
    BY <1>2, <2>2, Z3
  <2> QED BY <2>1, <2>2
<1> QED BY <1>1, <1>2

\* The segment of a line that a temperature between its ends lies on.
SegmentOf(c, t) ==
  CHOOSE k \in 1..Len(c.rise) - 1 : c.rise[k] <= t /\ t <= c.rise[k + 1]

OnSegment(c, t, k) ==
  c.pct[k] + ((t - c.rise[k]) * (c.pct[k + 1] - c.pct[k])) \div (c.rise[k + 1] - c.rise[k])

\* There is one.
LEMMA SegmentFound ==
  ASSUME NEW c, SoundCurve(c), NEW t \in Int, c.rise[1] < t, t < c.rise[Len(c.rise)]
  PROVE  /\ SegmentOf(c, t) \in 1..Len(c.rise) - 1
         /\ c.rise[SegmentOf(c, t)] <= t /\ t <= c.rise[SegmentOf(c, t) + 1]
<1> DEFINE n == Len(c.rise)
           above == { k \in 1..n - 1 : t <= c.rise[k + 1] }
<1>1. n \in Nat /\ n >= 2 /\ \A k \in 1..n : c.rise[k] \in Int
  BY CurvePoints
<1>2. above \subseteq Nat /\ n - 1 \in above
  BY <1>1
<1>3. PICK k \in above : \A j \in above : k <= j
  <2> HIDE DEF above
  <2> QED BY <1>2, Least
<1>4. k \in 1..n - 1 /\ t <= c.rise[k + 1]
  BY <1>3
<1>5. c.rise[k] <= t
  <2>1. CASE k = 1
    BY <1>1, <2>1
  <2>2. CASE k # 1
    <3>1. k - 1 \in 1..n - 1 /\ (k - 1) + 1 = k /\ k \in 1..n /\ ~(k <= k - 1)
      BY <1>1, <1>4, <2>2
    <3>2. ~(k - 1 \in above)
      BY <1>3, <3>1
    <3> QED BY <1>1, <3>1, <3>2
  <2> QED BY <2>1, <2>2
<1> QED BY <1>4, <1>5 DEF SegmentOf

\* The line stays between the ends of a segment and never falls on it.
LEMMA SegmentRises ==
  ASSUME NEW c, SoundCurve(c), NEW k \in 1..Len(c.rise) - 1,
         NEW t \in Int, c.rise[k] <= t, t <= c.rise[k + 1]
  PROVE  /\ OnSegment(c, t, k) \in c.pct[k]..c.pct[k + 1]
         /\ \A u \in Int : t <= u => OnSegment(c, t, k) <= OnSegment(c, u, k)
<1>1. /\ c.rise[k] \in Int /\ c.rise[k + 1] \in Int /\ c.rise[k] < c.rise[k + 1]
      /\ c.pct[k] \in Int /\ c.pct[k + 1] \in Int /\ c.pct[k] <= c.pct[k + 1]
  <2>1. k \in 1..Len(c.rise) /\ k + 1 \in 1..Len(c.rise) /\ k < k + 1
    BY CurvePoints
  <2> QED BY <2>1, CurvePoints
<1> DEFINE a == t - c.rise[k]
           b == c.pct[k + 1] - c.pct[k]
           d == c.rise[k + 1] - c.rise[k]
<1>2. a \in Nat /\ b \in Nat /\ d \in Nat /\ d > 0 /\ a <= d
  <2>1. a \in Nat /\ a <= d
    BY <1>1
  <2>2. \A x \in Int : \A y \in Int : x <= y => y - x \in Nat
    OBVIOUS
  <2>3. b \in Nat
    BY <1>1, <2>2
  <2>4. d \in Nat /\ d > 0
    BY <1>1
  <2> QED BY <2>1, <2>3, <2>4
<1>3. OnSegment(c, t, k) = c.pct[k] + (a * b) \div d
  BY DEF OnSegment
<1>4. (a * b) \div d \in 0..b
  <2> HIDE DEF a, b, d
  <2> QED BY <1>2, PartOfRise
<1>5. OnSegment(c, t, k) \in c.pct[k]..c.pct[k + 1]
  <2>1. \A low \in Int : \A high \in Int : \A x \in 0..(high - low) : low + x \in low..high
    OBVIOUS
  <2>2. \A x \in 0..b : c.pct[k] + x \in c.pct[k]..c.pct[k + 1]
    BY <1>1, <2>1
  <2> HIDE DEF a, b, d
  <2> QED BY <1>3, <1>4, <2>2
<1>6. ASSUME NEW u \in Int, t <= u
      PROVE  OnSegment(c, t, k) <= OnSegment(c, u, k)
  <2> DEFINE e == u - c.rise[k]
  <2>1. e \in Nat /\ a <= e
    BY <1>1, <1>6
  <2>2. OnSegment(c, u, k) = c.pct[k] + (e * b) \div d
    BY DEF OnSegment
  <2> HIDE DEF a, b, d, e
  <2>3. (a * b) \div d <= (e * b) \div d
    BY <1>2, <2>1, LargerPart
  <2>4. (a * b) \div d \in Int /\ (e * b) \div d \in Int
    BY <1>2, <2>1
  <2> QED BY <1>1, <1>3, <2>2, <2>3, <2>4
<1> QED BY <1>5, <1>6

\* OnLine in terms of segments.
LEMMA LineBySegments ==
  ASSUME NEW c, NEW t
  PROVE  OnLine(c, t) = IF t <= c.rise[1] THEN c.pct[1]
                        ELSE IF t >= c.rise[Len(c.rise)] THEN c.pct[Len(c.rise)]
                        ELSE OnSegment(c, t, SegmentOf(c, t))
BY DEF OnLine, OnSegment, SegmentOf

\* A line stays within its ends.
LEMMA LineRange ==
  ASSUME NEW c, SoundCurve(c), NEW t \in Int
  PROVE  OnLine(c, t) \in c.pct[1]..c.pct[Len(c.rise)]
<1> DEFINE n == Len(c.rise)
           m == SegmentOf(c, t)
<1>1. /\ n \in Nat /\ n >= 2 /\ c.rise[1] \in Int /\ c.rise[n] \in Int
      /\ c.pct[1] \in Int /\ c.pct[n] \in Int /\ c.pct[1] <= c.pct[n]
  <2>1. n \in Nat /\ n >= 2
    BY CurvePoints
  <2>2. 1 \in 1..n /\ n \in 1..n /\ 1 <= n
    BY <2>1
  <2> QED BY <2>1, <2>2, CurvePoints
<1>2. CASE t <= c.rise[1] \/ t >= c.rise[n]
  BY <1>1, <1>2, LineBySegments
<1>3. CASE ~(t <= c.rise[1]) /\ ~(t >= c.rise[n])
  <2>1. /\ m \in 1..n - 1 /\ c.rise[m] <= t /\ t <= c.rise[m + 1]
    BY <1>1, <1>3, SegmentFound
  <2>2. OnSegment(c, t, m) \in c.pct[m]..c.pct[m + 1]
    BY <2>1, SegmentRises
  <2>3. /\ c.pct[1] <= c.pct[m] /\ c.pct[m + 1] <= c.pct[n]
        /\ c.pct[m] \in Int /\ c.pct[m + 1] \in Int
    <3>1. 1 <= m /\ m \in 1..n /\ m + 1 \in 1..n /\ m + 1 <= n /\ 1 \in 1..n /\ n \in 1..n
      BY <1>1, <2>1
    <3> QED BY <3>1, CurvePoints
  <2>4. OnLine(c, t) = OnSegment(c, t, m)
    BY <1>3, LineBySegments
  <2> HIDE DEF m, n
  <2>5. OnSegment(c, t, m) \in c.pct[1]..c.pct[n]
    BY <1>1, <2>2, <2>3, WithinRange
  <2> QED BY <2>4, <2>5 DEF n
<1> QED BY <1>2, <1>3

\* A line never falls.
LEMMA LineRises ==
  ASSUME NEW c, SoundCurve(c), NEW t \in Int, NEW u \in Int, t <= u
  PROVE  OnLine(c, t) <= OnLine(c, u)
<1> DEFINE n == Len(c.rise)
           m == SegmentOf(c, t)
           o == SegmentOf(c, u)
<1>1. /\ n \in Nat /\ n >= 2 /\ c.rise[1] \in Int /\ c.rise[n] \in Int
      /\ c.pct[1] \in Int /\ c.pct[n] \in Int /\ c.pct[1] <= c.pct[n]
  <2>1. n \in Nat /\ n >= 2
    BY CurvePoints
  <2>2. 1 \in 1..n /\ n \in 1..n /\ 1 <= n
    BY <2>1
  <2> QED BY <2>1, <2>2, CurvePoints
<1>2. OnLine(c, t) \in c.pct[1]..c.pct[n] /\ OnLine(c, u) \in c.pct[1]..c.pct[n]
  BY LineRange
<1>3. CASE t <= c.rise[1]
  BY <1>1, <1>2, <1>3, LineBySegments
<1>4. CASE u >= c.rise[n] /\ ~(u <= c.rise[1])
  BY <1>1, <1>2, <1>4, LineBySegments
<1>5. CASE ~(t <= c.rise[1]) /\ ~(u >= c.rise[n])
  <2>1. /\ m \in 1..n - 1 /\ c.rise[m] <= t /\ t <= c.rise[m + 1]
        /\ o \in 1..n - 1 /\ c.rise[o] <= u /\ u <= c.rise[o + 1]
    <3>1. c.rise[1] < t /\ t < c.rise[n] /\ c.rise[1] < u /\ u < c.rise[n]
      BY <1>1, <1>5
    <3> QED BY <3>1, SegmentFound
  <2>2. OnLine(c, t) = OnSegment(c, t, m) /\ OnLine(c, u) = OnSegment(c, u, o)
    BY <1>1, <1>5, LineBySegments
  <2>3. /\ OnSegment(c, t, m) \in c.pct[m]..c.pct[m + 1]
        /\ OnSegment(c, u, o) \in c.pct[o]..c.pct[o + 1]
        /\ m = o => OnSegment(c, t, m) <= OnSegment(c, u, o)
    BY <2>1, SegmentRises
  <2>4. /\ m \in 1..n /\ m + 1 \in 1..n /\ o \in 1..n /\ o + 1 \in 1..n
        /\ m \in Int /\ o \in Int
    <3>1. \A k \in 1..n - 1 : k \in 1..n /\ k + 1 \in 1..n /\ k \in Int
      BY <1>1
    <3> QED BY <2>1, <3>1
  <2>5. /\ c.pct[m] \in Int /\ c.pct[m + 1] \in Int /\ c.pct[o] \in Int /\ c.pct[o + 1] \in Int
        /\ c.rise[m] \in Int /\ c.rise[o + 1] \in Int
    BY <2>4, CurvePoints
  <2>6. CASE m < o
    <3>1. c.pct[m + 1] <= c.pct[o]
      BY <2>4, <2>6, CurvePoints
    <3> HIDE DEF m, o, n
    <3> QED BY <2>2, <2>3, <2>5, <3>1
  <2>7. CASE m = o
    BY <2>2, <2>3, <2>7
  <2>8. CASE o < m
    <3>1. c.rise[o + 1] <= c.rise[m]
      <4>1. o + 1 < m \/ o + 1 = m
        BY <2>4, <2>8
      <4>2. CASE o + 1 < m
        <5>1. c.rise[o + 1] < c.rise[m]
          BY <2>4, <4>2, CurvePoints
        <5> QED BY <2>5, <5>1
      <4>3. CASE o + 1 = m
        BY <2>5, <4>3
      <4> QED BY <4>1, <4>2, <4>3
    <3>2. u = t
      BY <2>1, <2>5, <3>1
    <3> QED BY <1>2, <3>2
  <2> QED BY <2>4, <2>6, <2>7, <2>8
<1> QED BY <1>1, <1>3, <1>4, <1>5

-----------------------------------------------------------------------------
(* The values of curves.                                                   *)

\* A curve's value is a percentage of its own, and of its steps if it has steps.
LEMMA EvaluateRange ==
  ASSUME NEW c, SoundCurve(c), NEW t \in Int
  PROVE  /\ Evaluate(c, t) \in Int /\ Top(c) \in Int
         /\ 0 <= Evaluate(c, t) /\ Evaluate(c, t) <= Top(c) /\ Top(c) <= FullPercent
<1> DEFINE n == Len(c.rise)
<1>1. n \in Nat /\ n >= 2 /\ Len(c.pct) = n
  BY CurvePoints
<1>2. 1 \in 1..n /\ n \in 1..n /\ 1 <= n
  BY <1>1
<1>3. Top(c) = c.pct[n]
  BY <1>1 DEF Top
<1>4. /\ c.pct[1] \in Int /\ c.pct[n] \in Int /\ c.pct[1] <= c.pct[n]
      /\ 0 <= c.pct[1] /\ c.pct[n] <= FullPercent
  <2>1. c.pct[1] \in 0..FullPercent /\ c.pct[n] \in 0..FullPercent /\ c.pct[1] <= c.pct[n]
    BY <1>2, CurvePoints
  <2> QED BY <2>1, PercentIsWhole
<1>5. CASE c.stepped
  <2> DEFINE k == StepAt(c, t)
  <2>1. k \in 1..n
    BY StepReached
  <2>2. 1 <= k /\ k <= n
    BY <1>1, <2>1
  <2>3. c.pct[k] \in Int /\ c.pct[1] <= c.pct[k] /\ c.pct[k] <= c.pct[n]
    BY <1>2, <2>1, <2>2, CurvePoints
  <2>4. Evaluate(c, t) = c.pct[k]
    BY <1>5 DEF Evaluate
  <2> HIDE DEF n, k
  <2> QED BY <1>3, <1>4, <2>3, <2>4
<1>6. CASE ~c.stepped
  <2>1. Evaluate(c, t) \in c.pct[1]..c.pct[n]
    BY <1>6, LineRange DEF Evaluate
  <2> HIDE DEF n
  <2> QED BY <1>3, <1>4, <2>1
<1> QED BY <1>5, <1>6

\* A curve never falls.
LEMMA EvaluateRises ==
  ASSUME NEW c, SoundCurve(c), NEW t \in Int, NEW u \in Int, t <= u
  PROVE  Evaluate(c, t) <= Evaluate(c, u)
<1> DEFINE n == Len(c.rise)
           k == StepAt(c, t)
           m == StepAt(c, u)
<1>1. CASE c.stepped
  <2>1. /\ k \in 1..n /\ m \in 1..n /\ n \in Nat /\ (k = 1 \/ t >= c.rise[k])
        /\ \A j \in m + 1..n : u < c.rise[j]
    BY StepReached, CurvePoints
  <2>2. c.rise[k] \in Int
    BY <2>1, CurvePoints
  <2>3. k <= m
    <3> SUFFICES ASSUME m < k
                 PROVE  FALSE
      BY <2>1
    <3>1. k \in m + 1..n /\ k # 1
      BY <2>1
    <3>2. u < c.rise[k] /\ t >= c.rise[k]
      BY <2>1, <3>1
    <3> QED BY <2>2, <3>2
  <2>4. c.pct[k] <= c.pct[m]
    BY <2>1, <2>3, CurvePoints
  <2>5. Evaluate(c, t) = c.pct[k] /\ Evaluate(c, u) = c.pct[m]
    BY <1>1 DEF Evaluate
  <2> QED BY <2>4, <2>5
<1>2. CASE ~c.stepped
  BY <1>2, LineRises DEF Evaluate
<1> QED BY <1>1, <1>2

\* Beyond its last point a curve has its top value.
LEMMA EvaluateTop ==
  ASSUME NEW c, SoundCurve(c), NEW t \in Int, t >= c.rise[Len(c.rise)]
  PROVE  Evaluate(c, t) = Top(c)
<1> DEFINE n == Len(c.rise)
           k == StepAt(c, t)
<1>1. n \in Nat /\ n >= 2 /\ Len(c.pct) = n /\ Top(c) = c.pct[n]
  BY CurvePoints DEF Top
<1>2. 1 \in 1..n /\ n \in 1..n /\ 1 < n
  BY <1>1
<1>3. c.rise[1] \in Int /\ c.rise[n] \in Int /\ c.rise[1] < c.rise[n]
  BY <1>2, CurvePoints
<1>4. CASE c.stepped
  <2>1. k \in 1..n /\ \A j \in k + 1..n : t < c.rise[j]
    BY StepReached
  <2>2. k = n
    <3> SUFFICES ASSUME k < n
                 PROVE  FALSE
      BY <1>1, <2>1
    <3>1. n \in k + 1..n
      BY <1>1, <2>1
    <3> QED BY <1>3, <2>1, <3>1
  <2> QED BY <1>1, <1>4, <2>2 DEF Evaluate
<1>5. CASE ~c.stepped
  <2>1. ~(t <= c.rise[1])
    BY <1>3
  <2> QED BY <1>1, <1>5, <2>1, LineBySegments DEF Evaluate
<1> QED BY <1>4, <1>5

-----------------------------------------------------------------------------
(* Targets are steps, and hysteresis holds them.                           *)

\* A level the curve has, where that matters.
LevelOf(c, q) == HasFalls(c) => \E k \in 1..Len(c.rise) : c.pct[k] = q

\* A value of the curve is one.
LEMMA EvaluateIsLevel ==
  ASSUME NEW c, SoundCurve(c), NEW t \in Int
  PROVE  LevelOf(c, Evaluate(c, t))
<1> SUFFICES ASSUME HasFalls(c)
             PROVE  \E k \in 1..Len(c.rise) : c.pct[k] = Evaluate(c, t)
  BY DEF LevelOf
<1>1. c.stepped /\ StepAt(c, t) \in 1..Len(c.rise)
  BY FallPoints, StepReached
<1> QED BY <1>1 DEF Evaluate

\* Where a target on a curve with falling thresholds comes from: from above, it
\* goes down to the step that the temperature still holds.
LEMMA HeldBySteps ==
  ASSUME NEW c, SoundCurve(c), HasFalls(c), NEW t \in Int, NEW K \in 1..Len(c.rise),
         NEW h, Evaluate(c, t) < c.pct[K]
  PROVE  \E j \in 1..K :
           /\ HeldTarget(c, t, c.pct[K], h) = c.pct[j]
           /\ StepAt(c, t) <= j
           /\ j = 1 \/ t >= c.fall[j]
           /\ \A i \in j + 1..K : t < c.fall[i]
<1> DEFINE n == Len(c.rise)
           m == StepAt(c, t)
           j == StepDown(c, t, K)
<1>1. n \in Nat /\ m \in 1..n /\ (m = 1 \/ t >= c.rise[m])
  BY StepReached, CurvePoints
<1>2. j \in 1..K /\ (j = 1 \/ t >= c.fall[j]) /\ \A i \in j + 1..K : t < c.fall[i]
  BY StepGivenUp
<1>3. c.pct[K] \in Int /\ 0 <= c.pct[K]
  <2>1. c.pct[K] \in 0..FullPercent
    BY CurvePoints
  <2> QED BY <2>1, PercentIsWhole
<1>4. HeldTarget(c, t, c.pct[K], h) = c.pct[j]
  <2>1. c.pct[K] # NoTarget /\ ~(Evaluate(c, t) >= c.pct[K])
    <3>1. Evaluate(c, t) \in Int
      BY EvaluateRange
    <3> QED BY <1>3, <3>1 DEF NoTarget
  <2>2. StepOf(c, c.pct[K]) = K
    BY StepOfLevel
  <2> QED BY <2>1, <2>2 DEF HeldTarget, CurveTarget
<1>5. m <= K
  <2> SUFFICES ASSUME K < m
               PROVE  FALSE
    BY <1>1
  <2>1. c.pct[K] <= c.pct[m] /\ c.pct[m] \in Int
    BY <1>1, CurvePoints
  <2>2. Evaluate(c, t) = c.pct[m]
    BY FallPoints DEF Evaluate
  <2> QED BY <1>3, <2>1, <2>2
<1>6. m <= j
  <2> SUFFICES ASSUME j < m
               PROVE  FALSE
    BY <1>1, <1>2
  <2>1. m \in j + 1..K /\ m # 1
    BY <1>1, <1>2, <1>5
  <2>2. t < c.fall[m] /\ t >= c.rise[m]
    BY <1>1, <1>2, <2>1
  <2>3. c.fall[m] \in Int /\ c.rise[m] \in Int /\ c.fall[m] < c.rise[m]
    BY <1>1, FallPoints, CurvePoints
  <2> QED BY <2>2, <2>3
<1> QED BY <1>2, <1>4, <1>6

\* Where a target on a curve without falling thresholds comes from.
LEMMA HeldByHysteresis ==
  ASSUME NEW c, SoundCurve(c), ~HasFalls(c), NEW t \in Int, NEW previous \in Int, NEW h
  PROVE  HeldTarget(c, t, previous, h) =
           IF previous # NoTarget /\ Evaluate(c, t) < previous
           THEN IF Evaluate(c, t + h) < previous THEN Evaluate(c, t + h) ELSE previous
           ELSE Evaluate(c, t)
BY DEF HeldTarget, CurveTarget

\* A target that does not go down is the value of the curve.
LEMMA HeldRise ==
  ASSUME NEW c, SoundCurve(c), NEW t \in Int, NEW previous \in Int, NEW h,
         previous = NoTarget \/ Evaluate(c, t) >= previous
  PROVE  HeldTarget(c, t, previous, h) = Evaluate(c, t)
<1>1. Evaluate(c, t) \in Int
  BY EvaluateRange
<1>2. CurveTarget(c, t, previous) = Evaluate(c, t)
  BY DEF CurveTarget
<1>3. ~(previous # NoTarget /\ Evaluate(c, t) < previous)
  BY <1>1
<1> QED BY <1>2, <1>3 DEF HeldTarget

\* What every target is: a percentage of the curve, not below the curve's own
\* value, and above the last target only as that value.
LEMMA HeldRange ==
  ASSUME NEW c, SoundCurve(c), NEW t \in Int, NEW previous \in Int, NEW h \in Nat,
         previous # NoTarget => LevelOf(c, previous) /\ 0 <= previous /\ previous <= Top(c)
  PROVE  LET q == HeldTarget(c, t, previous, h)
         IN  /\ LevelOf(c, q) /\ q \in Int /\ Evaluate(c, t) <= q /\ q <= Top(c)
             /\ previous # NoTarget /\ q > previous => q = Evaluate(c, t)
<1> DEFINE q == HeldTarget(c, t, previous, h)
           e == Evaluate(c, t)
<1>1. e \in Int /\ Top(c) \in Int /\ 0 <= e /\ e <= Top(c) /\ LevelOf(c, e)
  BY EvaluateRange, EvaluateIsLevel
<1>2. CASE previous = NoTarget \/ e >= previous
  BY <1>1, <1>2, HeldRise
<1>3. CASE previous # NoTarget /\ e < previous /\ HasFalls(c)
  <2>1. PICK K \in 1..Len(c.rise) : c.pct[K] = previous
    BY <1>3 DEF LevelOf
  <2>2. PICK j \in 1..K : q = c.pct[j] /\ StepAt(c, t) <= j
    BY <1>3, <2>1, HeldBySteps
  <2>3. Len(c.rise) \in Nat /\ j \in 1..Len(c.rise) /\ j <= K
    BY <2>2, CurvePoints
  <2>4. c.pct[j] \in Int /\ c.pct[j] <= c.pct[K]
    BY <2>3, CurvePoints
  <2>5. e = c.pct[StepAt(c, t)] /\ StepAt(c, t) \in 1..Len(c.rise)
    BY <1>3, FallPoints, StepReached DEF Evaluate
  <2>6. e <= c.pct[j]
    BY <2>2, <2>3, <2>5, CurvePoints
  <2>7. LevelOf(c, q)
    BY <2>2, <2>3 DEF LevelOf
  <2>8. q \in Int /\ e <= q /\ q <= Top(c) /\ ~(q > previous)
    <3>1. /\ c.pct[K] \in Int /\ e \in Int /\ Top(c) \in Int
          /\ q = c.pct[j] /\ c.pct[K] = previous
      BY <1>1, <2>1, <2>2
    <3>2. previous <= Top(c)
      BY <1>3
    <3> HIDE DEF q, e
    <3> QED BY <2>4, <2>6, <3>1, <3>2
  <2> QED BY <2>7, <2>8
<1>4. CASE previous # NoTarget /\ e < previous /\ ~HasFalls(c)
  <2> DEFINE w == Evaluate(c, t + h)
  <2>1. w \in Int /\ w <= Top(c)
    BY EvaluateRange
  <2>2. e <= w
    BY EvaluateRises
  <2>3. q = IF w < previous THEN w ELSE previous
    BY <1>4, HeldByHysteresis
  <2>4. LevelOf(c, q)
    BY <1>4 DEF LevelOf
  <2>5. q \in Int /\ e <= q /\ q <= Top(c) /\ ~(q > previous)
    <3> HIDE DEF q, e, w
    <3> QED BY <1>1, <1>4, <2>1, <2>2, <2>3
  <2> QED BY <2>4, <2>5
<1> QED BY <1>1, <1>2, <1>3, <1>4

-----------------------------------------------------------------------------
(* Temperatures well below a target.                                       *)

\* The temperature is so low that a target above q needs a rise by more than
\* the hysteresis.
Dipped(c, t, q, h) ==
  IF HasFalls(c)
  THEN \E j \in 1..Len(c.rise) - 1 : c.pct[j] = q /\ t < c.fall[j + 1]
  ELSE Evaluate(c, t + h) <= q

\* It is when a target has gone down.
LEMMA FallDips ==
  ASSUME NEW c, SoundCurve(c), NEW t \in Int, NEW previous \in Int, NEW h \in Nat,
         previous # NoTarget, LevelOf(c, previous), 0 <= previous, previous <= Top(c),
         HeldTarget(c, t, previous, h) < previous
  PROVE  Dipped(c, t, HeldTarget(c, t, previous, h), h)
<1> DEFINE q == HeldTarget(c, t, previous, h)
           e == Evaluate(c, t)
<1>1. e \in Int /\ q \in Int /\ e <= q
  BY EvaluateRange, HeldRange
<1>2. e < previous
  BY <1>1
<1>3. CASE HasFalls(c)
  <2>1. PICK K \in 1..Len(c.rise) : c.pct[K] = previous
    BY <1>3 DEF LevelOf
  <2>2. PICK j \in 1..K : q = c.pct[j] /\ \A i \in j + 1..K : t < c.fall[i]
    BY <1>2, <1>3, <2>1, HeldBySteps
  <2>3. j # K
    BY <1>1, <2>1, <2>2
  <2>4. j \in 1..Len(c.rise) - 1 /\ j + 1 \in j + 1..K
    BY <2>2, <2>3, CurvePoints
  <2> QED BY <1>3, <2>2, <2>4 DEF Dipped
<1>4. CASE ~HasFalls(c)
  <2>1. q = IF Evaluate(c, t + h) < previous THEN Evaluate(c, t + h) ELSE previous
    BY <1>2, <1>4, HeldByHysteresis
  <2>2. Evaluate(c, t + h) \in Int
    BY EvaluateRange
  <2>3. Evaluate(c, t + h) <= q
    BY <1>1, <2>1, <2>2
  <2> QED BY <1>4, <2>3 DEF Dipped
<1> QED BY <1>3, <1>4

\* A lower temperature is as low.
LEMMA LowerDips ==
  ASSUME NEW c, SoundCurve(c), NEW t \in Int, NEW u \in Int, NEW q \in Int, NEW h \in Nat,
         Dipped(c, t, q, h), u <= t
  PROVE  Dipped(c, u, q, h)
<1>1. CASE HasFalls(c)
  <2>1. PICK j \in 1..Len(c.rise) - 1 : c.pct[j] = q /\ t < c.fall[j + 1]
    BY <1>1 DEF Dipped
  <2>2. c.fall[j + 1] \in Int
    <3>1. j + 1 \in 1..Len(c.rise)
      BY <2>1, CurvePoints
    <3> QED BY <1>1, <3>1, FallPoints
  <2>3. u < c.fall[j + 1]
    BY <2>1, <2>2
  <2> QED BY <1>1, <2>1, <2>3 DEF Dipped
<1>2. CASE ~HasFalls(c)
  <2>1. Evaluate(c, u + h) <= Evaluate(c, t + h)
    BY EvaluateRises
  <2>2. Evaluate(c, u + h) \in Int /\ Evaluate(c, t + h) \in Int
    BY EvaluateRange
  <2>3. Evaluate(c, t + h) <= q
    BY <1>2 DEF Dipped
  <2>4. Evaluate(c, u + h) <= q
    BY <2>1, <2>2, <2>3
  <2> QED BY <1>2, <2>4 DEF Dipped
<1> QED BY <1>1, <1>2

\* And a higher value of the curve is more than the hysteresis away.
LEMMA DipIsWide ==
  ASSUME NEW c, SoundCurve(c), NEW t \in Int, NEW u \in Int, NEW q \in Int, NEW h \in Nat,
         Dipped(c, t, q, h), q < Evaluate(c, u)
  PROVE  /\ HasFalls(c) => \E k \in 2..Len(c.rise) : u - t > c.rise[k] - c.fall[k]
         /\ ~HasFalls(c) => u - t > h
<1>1. CASE HasFalls(c)
  <2> DEFINE m == StepAt(c, u)
  <2>1. PICK j \in 1..Len(c.rise) - 1 : c.pct[j] = q /\ t < c.fall[j + 1]
    BY <1>1 DEF Dipped
  <2>2. /\ m \in 1..Len(c.rise) /\ Len(c.rise) \in Nat /\ Evaluate(c, u) = c.pct[m]
        /\ (m = 1 \/ u >= c.rise[m])
    BY <1>1, FallPoints, StepReached, CurvePoints DEF Evaluate
  <2>3. j \in 1..Len(c.rise) /\ j + 1 \in 1..Len(c.rise) /\ j + 1 \in 2..Len(c.rise)
    BY <2>1, <2>2
  <2>4. j < m
    <3> SUFFICES ASSUME m <= j
                 PROVE  FALSE
      BY <2>2, <2>3
    <3>1. c.pct[m] <= c.pct[j] /\ c.pct[m] \in Int
      BY <2>2, <2>3, CurvePoints
    <3> QED BY <2>1, <2>2, <3>1
  <2>5. u >= c.rise[m]
    BY <2>2, <2>3, <2>4
  <2>6. /\ c.rise[j + 1] \in Int /\ c.rise[m] \in Int /\ c.rise[j + 1] <= c.rise[m]
        /\ c.fall[j + 1] \in Int
    <3>1. c.rise[j + 1] \in Int /\ c.rise[m] \in Int /\ c.fall[j + 1] \in Int
      BY <1>1, <2>2, <2>3, CurvePoints, FallPoints
    <3>2. CASE j + 1 = m
      BY <3>1, <3>2
    <3>3. CASE j + 1 < m
      <4>1. c.rise[j + 1] < c.rise[m]
        BY <2>2, <2>3, <3>3, CurvePoints
      <4> QED BY <3>1, <4>1
    <3> QED BY <2>2, <2>3, <2>4, <3>1, <3>2, <3>3
  <2>7. u - t > c.rise[j + 1] - c.fall[j + 1]
    BY <2>1, <2>5, <2>6
  <2> QED BY <1>1, <2>3, <2>7
<1>2. CASE ~HasFalls(c)
  <2>1. Evaluate(c, t + h) < Evaluate(c, u)
    <3>1. Evaluate(c, t + h) <= q /\ Evaluate(c, t + h) \in Int /\ Evaluate(c, u) \in Int
      BY <1>2, EvaluateRange DEF Dipped
    <3> QED BY <3>1
  <2>2. ~(u <= t + h)
    <3> SUFFICES ASSUME u <= t + h
                 PROVE  FALSE
      OBVIOUS
    <3>1. Evaluate(c, u) <= Evaluate(c, t + h)
      BY EvaluateRises
    <3>2. Evaluate(c, u) \in Int /\ Evaluate(c, t + h) \in Int
      BY EvaluateRange
    <3> QED BY <2>1, <3>1, <3>2
  <2>3. u - t > h
    BY <2>2
  <2> QED BY <1>2, <2>3
<1> QED BY <1>1, <1>2

-----------------------------------------------------------------------------
(* An accepted configuration.                                              *)

\* A percentage is a duty; the ceilings are duties.
LEMMA DutyRange ==
  /\ \A q \in Int : PercentToPwm(q) \in 0..PwmMax
  /\ Ceiling(TRUE) = PwmMax /\ Ceiling(FALSE) = 238 /\ PwmMax = 255
  /\ PercentToPwm(FullPercent) = PwmMax
<1>1. \A q \in Int : PercentToPwm(q) \in 0..PwmMax
  BY Z3 DEF PercentToPwm, Clamp, PwmMax, FullPercent, Percent
<1>2. Ceiling(TRUE) = PwmMax /\ Ceiling(FALSE) = 238 /\ PwmMax = 255
  BY Z3 DEF Ceiling, ManualMaxLevel, LevelToPwm, LevelPercent, PercentToPwm, Clamp, PwmMax,
     FullPercent, Percent, HpFanLevelMax, SinglePwmMaxLevel
<1>3. PercentToPwm(FullPercent) = PwmMax
  BY Z3 DEF PercentToPwm, Clamp, PwmMax, FullPercent, Percent
<1> QED BY <1>1, <1>2, <1>3

\* Either interface has a ceiling.
LEMMA CeilingRange ==
  ASSUME dual \in BOOLEAN
  PROVE  Ceiling(dual) \in Int /\ 238 <= Ceiling(dual) /\ Ceiling(dual) <= PwmMax
<1>1. dual = TRUE \/ dual = FALSE
  OBVIOUS
<1>2. Ceiling(dual) = Ceiling(TRUE) \/ Ceiling(dual) = Ceiling(FALSE)
  BY <1>1, Zenon
<1>3. Ceiling(dual) = PwmMax \/ Ceiling(dual) = 238
  BY <1>2, DutyRange, Zenon
<1>4. PwmMax = 255
  BY DutyRange
<1> QED BY <1>3, <1>4

\* Every input of an accepted configuration has a curve.
LEMMA CurvesAreSound ==
  ASSUME config \in DOMAIN Offered, Validate(settings), NEW s
  PROVE  SoundCurve(CurveFor(settings, s))
<1>1. settings = Offered[config]
  BY DEF settings, Configurations
<1>2. /\ settings.shared.rise \in Seq(Int) /\ settings.shared.fall \in Seq(Int)
      /\ ValidCurve(settings.shared)
  BY <1>1, DemandAssumption DEF Validate
<1>3. ASSUME NEW n \in DOMAIN settings.named
      PROVE  /\ settings.named[n].rise \in Seq(Int) /\ settings.named[n].fall \in Seq(Int)
             /\ ValidCurve(settings.named[n])
  BY <1>1, DemandAssumption DEF Validate
<1> QED BY <1>2, <1>3 DEF CurveFor, SoundCurve

\* Its numbers are numbers.
LEMMA SettingsAreSound ==
  ASSUME config \in DOMAIN Offered, Validate(settings)
  PROVE  /\ settings.interval \in Nat /\ settings.interval >= 1
         /\ settings.hysteresis \in Nat
         /\ FloorDuty \in 0..PwmMax /\ RiseStep \in 0..PwmMax /\ FallStep \in 0..PwmMax
         /\ "cpu" \in Active(settings) /\ Active(settings) \subseteq Inputs
         /\ settings.crit \in Int
<1>1. settings = Offered[config]
  BY DEF settings, Configurations
<1>2. settings.interval \in Int /\ settings.interval >= 1
  BY <1>1, DemandAssumption DEF Validate
<1>3. settings.hysteresis \in Nat
  BY DEF Validate
<1>4. settings.floor \in Int /\ settings.rise \in Int /\ settings.fall \in Int
  <2>1. \A q \in 1..FullPercent : q \in Int
    BY DEF FullPercent, Percent
  <2> QED BY <2>1 DEF Validate
<1>5. "cpu" \in Active(settings) /\ Active(settings) \subseteq Inputs
  BY <1>1, DemandAssumption DEF Active, ControlSensors, Inputs
<1>6. settings.crit \in Int
  BY DEF Validate, Disabled, Sensible
<1> QED BY <1>2, <1>3, <1>4, <1>5, <1>6, DutyRange DEF FloorDuty, RiseStep, FallStep

\* Enough steps make the way from the lowest duty to the highest.
LEMMA StepsToFull ==
  ASSUME NEW R \in 1..255
  PROVE  LET n == (255 + R - 1) \div R IN n \in Nat /\ n * R >= 255
<1> DEFINE n == (255 + R - 1) \div R
<1>1. n \in Int /\ R * n <= 255 + R - 1 /\ 255 + R - 1 < R * n + R
  BY Z3
<1>2. n >= 0
  BY <1>1, Z3
<1>3. n * R >= 255
  BY <1>1, Z3
<1> QED BY <1>1, <1>2, <1>3

\* Their number.
LEMMA RisesAreFinite ==
  ASSUME config \in DOMAIN Offered, Validate(settings)
  PROVE  RisesToFull \in Nat /\ (RiseStep > 0 => RisesToFull * RiseStep >= PwmMax)
<1>1. RiseStep \in 0..255 /\ PwmMax = 255
  BY SettingsAreSound, DutyRange
<1>2. CASE RiseStep = 0
  BY <1>2 DEF RisesToFull
<1>3. CASE RiseStep # 0
  <2>1. RiseStep \in 1..255
    BY <1>1, <1>3
  <2>2. RisesToFull = (255 + RiseStep - 1) \div RiseStep
    BY <1>1, <1>3 DEF RisesToFull
  <2>3. RisesToFull \in Nat /\ RisesToFull * RiseStep >= 255
    BY <2>1, <2>2, StepsToFull
  <2> QED BY <1>1, <2>3
<1> QED BY <1>2, <1>3

-----------------------------------------------------------------------------
(* Samples.                                                                *)

\* A sample is a temperature or none for each input.
LEMMA ReadingsAreValues ==
  ASSUME config \in DOMAIN Offered, NEW r \in Readings
  PROVE  r \in Values /\ \A s \in Inputs : r[s] # Gone => r[s] >= 0
<1>1. settings = Offered[config]
  BY DEF settings, Configurations
<1>2. DOMAIN r = Inputs /\ r = [s \in Inputs |-> r[s]]
  BY DEF Readings
<1>3. ASSUME NEW s \in Inputs
      PROVE  r[s] \in Gone..125 /\ (r[s] # Gone => r[s] >= 0)
  <2>1. r[s] \in settings.reads[s] \/ r[s] = Gone
    BY DEF Readings
  <2>2. settings.reads[s] \subseteq 0..125
    BY <1>1, DemandAssumption DEF Inputs
  <2> QED BY <2>1, <2>2 DEF Gone
<1> QED BY <1>2, <1>3 DEF Values

\* So is a smoothed one, of the same inputs.
LEMMA SmoothedAreValues ==
  ASSUME config \in DOMAIN Offered, NEW r \in Readings, NEW f \in Smoothed(r)
  PROVE  f \in Values /\ \A s \in Inputs : f[s] = Gone <=> r[s] = Gone
<1>1. settings = Offered[config]
  BY DEF settings, Configurations
<1>2. DOMAIN f = Inputs /\ f = [s \in Inputs |-> f[s]]
  BY DEF Smoothed
<1>3. ASSUME NEW s \in Inputs
      PROVE  f[s] \in Gone..125 /\ (f[s] = Gone <=> r[s] = Gone)
  <2>1. f[s] = r[s] \/ (r[s] # Gone /\ f[s] \in settings.reads[s])
    BY DEF Smoothed
  <2>2. settings.reads[s] \subseteq 0..125
    BY <1>1, DemandAssumption DEF Inputs
  <2>3. r[s] \in Gone..125
    BY ReadingsAreValues DEF Values
  <2> QED BY <2>1, <2>2, <2>3 DEF Gone
<1> QED BY <1>2, <1>3 DEF Values

\* And the one a sample is evaluated at, which is not cooler than what was read.
LEMMA EvaluatedAreValues ==
  ASSUME config \in DOMAIN Offered, NEW r \in Readings, NEW f \in Smoothed(r)
  PROVE  /\ Evaluated(f, r) \in Values
         /\ \A s \in Inputs : /\ Evaluated(f, r)[s] = Gone <=> r[s] = Gone
                              /\ r[s] <= Evaluated(f, r)[s]
<1>1. ASSUME NEW s \in Inputs
      PROVE  /\ Evaluated(f, r)[s] \in Gone..125 /\ r[s] <= Evaluated(f, r)[s]
             /\ Evaluated(f, r)[s] = Gone <=> r[s] = Gone
  <2>1. f[s] \in Gone..125 /\ r[s] \in Gone..125 /\ (f[s] = Gone <=> r[s] = Gone)
    BY ReadingsAreValues, SmoothedAreValues DEF Values
  <2>2. Evaluated(f, r)[s] = IF f[s] >= r[s] THEN f[s] ELSE r[s]
    BY DEF Evaluated, Greater
  <2> QED BY <2>1, <2>2 DEF Gone
<1>2. Evaluated(f, r) = [s \in Inputs |-> Evaluated(f, r)[s]]
  BY DEF Evaluated
<1> QED BY <1>1, <1>2 DEF Values

-----------------------------------------------------------------------------
(* Targets and duties.                                                     *)

\* The winning target is the highest of the driving ones.
LEMMA WinningIsHighest ==
  ASSUME config \in DOMAIN Offered, Validate(settings), NEW targets,
         \A s \in Active(settings) : targets[s] \in Int /\ targets[s] <= FullPercent
  PROVE  /\ Winning(targets) \in Int
         /\ \E s \in Active(settings) : Winning(targets) = targets[s]
         /\ \A s \in Active(settings) : targets[s] <= Winning(targets)
<1> DEFINE driving == { targets[s] : s \in Active(settings) }
<1>1. driving \subseteq Int /\ targets["cpu"] \in driving /\ \A p \in driving : p <= FullPercent
  BY SettingsAreSound
<1>2. FullPercent \in Int
  BY DEF FullPercent, Percent
<1>3. \E q \in driving : \A p \in driving : p <= q
  <2> HIDE DEF driving
  <2> QED BY <1>1, <1>2, Greatest
<1>4. Winning(targets) \in driving /\ \A p \in driving : p <= Winning(targets)
  BY <1>3 DEF Winning
<1> QED BY <1>1, <1>4

\* The duty before the rate limit.
Called(targets) == Greater(PercentToPwm(Winning(targets)), FloorDuty)

\* It is one.
LEMMA CalledRange ==
  ASSUME config \in DOMAIN Offered, Validate(settings), NEW targets,
         \A s \in Active(settings) : targets[s] \in Int /\ targets[s] <= FullPercent
  PROVE  Called(targets) \in 0..PwmMax
<1>1. PercentToPwm(Winning(targets)) \in 0..PwmMax /\ FloorDuty \in 0..PwmMax
  BY WinningIsHighest, DutyRange, SettingsAreSound
<1> QED BY <1>1 DEF Called, Greater

\* Desired in terms of it.
LEMMA DesiredIs ==
  ASSUME NEW targets, NEW last
  PROVE  Desired(targets, last) = Clamp(RateLimited(Called(targets), last), 1, PwmMax)
BY DEF Desired, Called

\* A desired duty is one.
LEMMA DesiredRange ==
  ASSUME config \in DOMAIN Offered, Validate(settings), NEW targets,
         \A s \in Active(settings) : targets[s] \in Int /\ targets[s] <= FullPercent,
         NEW last \in {NoDuty} \cup 1..PwmMax
  PROVE  /\ Desired(targets, last) \in 1..PwmMax
         /\ last = NoDuty => Called(targets) <= Desired(targets, last)
         /\ last = NoDuty => Desired(targets, last) <= Greater(1, Called(targets))
         /\ last # NoDuty => /\ last - FallStep <= Desired(targets, last)
                             /\ Lesser(last + RiseStep, Called(targets)) <= Desired(targets, last)
                             /\ Desired(targets, last) <= Greater(1, Greater(Called(targets), last))
<1> DEFINE d == Called(targets)
<1>1. d \in 0..255 /\ PwmMax = 255 /\ RiseStep \in 0..255 /\ FallStep \in 0..255
  BY CalledRange, DutyRange, SettingsAreSound
<1>2. CASE last = NoDuty
  <2>1. Desired(targets, last) = Clamp(d, 1, 255)
    BY <1>1, <1>2, DesiredIs DEF RateLimited
  <2> HIDE DEF d
  <2>2. Clamp(d, 1, 255) \in 1..255 /\ d <= Clamp(d, 1, 255) /\ Clamp(d, 1, 255) <= Greater(1, d)
    BY <1>1 DEF Clamp, Greater
  <2> QED BY <1>1, <1>2, <2>1, <2>2 DEF d
<1>3. CASE last # NoDuty
  <2>1. last \in 1..255
    BY <1>1, <1>3
  <2>2. Desired(targets, last) = Clamp(Greater(Lesser(d, last + RiseStep), last - FallStep), 1, 255)
    BY <1>1, <1>3, DesiredIs DEF RateLimited
  <2> DEFINE duty == Desired(targets, last)
  <2> HIDE DEF d, duty
  <2>3. /\ duty \in 1..255 /\ last - FallStep <= duty
        /\ Lesser(last + RiseStep, d) <= duty
        /\ duty <= Greater(1, Greater(d, last))
    <3>1. duty = Clamp(Greater(Lesser(d, last + RiseStep), last - FallStep), 1, 255)
      BY <2>2 DEF duty
    <3>2. d \in 0..255 /\ RiseStep \in 0..255 /\ FallStep \in 0..255
      BY <1>1
    <3> QED BY <2>1, <3>1, <3>2 DEF Greater, Lesser, Clamp
  <2> QED BY <1>1, <1>3, <2>3 DEF d, duty
<1> QED BY <1>2, <1>3

\* A duty taken is within the ceiling and not below the desired one.
LEMMA TakenRange ==
  ASSUME dual \in BOOLEAN, NEW d \in 1..PwmMax, NEW duty \in Taken(d)
  PROVE  duty \in 1..PwmMax /\ duty <= Ceiling(dual) /\ Lesser(d, Ceiling(dual)) <= duty
<1>1. PICK running \in FirmwareDuties : duty = Lesser(Greater(d, running), Ceiling(dual))
  BY DEF Taken
<1>2. running \in 0..255 /\ PwmMax = 255 /\ d \in 1..255
  BY DemandAssumption, DutyRange
<1>3. Ceiling(dual) \in Int /\ 238 <= Ceiling(dual) /\ Ceiling(dual) <= 255
  BY CeilingRange, DutyRange
<1> DEFINE ceiling == Ceiling(dual)
<1> HIDE DEF ceiling
<1>4. /\ ceiling \in Int /\ 238 <= ceiling /\ ceiling <= 255
      /\ duty = Lesser(Greater(d, running), ceiling)
  BY <1>1, <1>3 DEF ceiling
<1>5. duty \in 1..255 /\ duty <= ceiling /\ Lesser(d, ceiling) <= duty
  BY <1>2, <1>4 DEF Lesser, Greater
<1> QED BY <1>2, <1>5 DEF ceiling

-----------------------------------------------------------------------------
\* A target that an input's curve can have.
TargetKnown(targets, s) ==
  targets[s] # NoTarget => /\ LevelOf(CurveFor(settings, s), targets[s])
                           /\ 0 <= targets[s] /\ targets[s] <= Top(CurveFor(settings, s))

\* A dip that its target came with.
DipKnown(dips, targets, s) ==
  dips[s] # Gone
    => /\ targets[s] # NoTarget
       /\ Dipped(CurveFor(settings, s), dips[s], targets[s], settings.hysteresis)

\* The temperatures of a sample give each input a target of its curve, none only
\* without a temperature, not below the curve's value, and above the last one only
\* as that value.
LEMMA NewTargets ==
  ASSUME config \in DOMAIN Offered, Validate(settings), NEW h \in Values,
         NEW previous \in [Inputs -> Int], \A s \in Inputs : TargetKnown(previous, s)
  PROVE  /\ Targets(h, previous) \in [Inputs -> Int]
         /\ \A s \in Inputs :
              LET q == Targets(h, previous)[s]
                  c == CurveFor(settings, s)
              IN  /\ q \in {NoTarget} \cup 0..FullPercent
                  /\ TargetKnown(Targets(h, previous), s)
                  /\ h[s] = Gone => q = NoTarget
                  /\ h[s] # Gone => /\ q # NoTarget /\ Evaluate(c, h[s]) <= q
                                    /\ previous[s] # NoTarget /\ q > previous[s]
                                         => q = Evaluate(c, h[s])
<1> DEFINE new == Targets(h, previous)
<1>1. ASSUME NEW s \in Inputs
      PROVE  LET q == new[s]
                 c == CurveFor(settings, s)
             IN  /\ q \in Int /\ q \in {NoTarget} \cup 0..FullPercent
                 /\ TargetKnown(new, s)
                 /\ h[s] = Gone => q = NoTarget
                 /\ h[s] # Gone => /\ q # NoTarget /\ Evaluate(c, h[s]) <= q
                                   /\ previous[s] # NoTarget /\ q > previous[s]
                                        => q = Evaluate(c, h[s])
  <2> DEFINE c == CurveFor(settings, s)
             q == new[s]
  <2>1. h[s] \in Int /\ previous[s] \in Int
    BY DEF Values, Gone
  <2>2. SoundCurve(c) /\ settings.hysteresis \in Nat
    BY CurvesAreSound, SettingsAreSound
  <2>3. CASE h[s] = Gone
    <3>1. q = NoTarget /\ NoTarget \in Int
      BY <2>3 DEF Targets, NoTarget
    <3> QED BY <2>3, <3>1 DEF TargetKnown
  <2>4. CASE h[s] # Gone
    <3>1. q = HeldTarget(c, h[s], previous[s], settings.hysteresis)
      BY <2>4 DEF Targets
    <3>2. previous[s] # NoTarget => /\ LevelOf(c, previous[s])
                                    /\ 0 <= previous[s] /\ previous[s] <= Top(c)
      BY DEF TargetKnown
    <3> HIDE DEF q, c
    <3>3. /\ LevelOf(c, q) /\ q \in Int /\ Evaluate(c, h[s]) <= q /\ q <= Top(c)
          /\ previous[s] # NoTarget /\ q > previous[s] => q = Evaluate(c, h[s])
      BY <2>1, <2>2, <3>1, <3>2, HeldRange
    <3>4. /\ 0 <= Evaluate(c, h[s]) /\ Evaluate(c, h[s]) \in Int /\ Top(c) <= FullPercent
          /\ Top(c) \in Int
      BY <2>1, <2>2, EvaluateRange
    <3>5. 0 <= q /\ q # NoTarget /\ q \in 0..FullPercent
      <4>1. FullPercent \in Int
        BY DEF FullPercent, Percent
      <4> QED BY <3>3, <3>4, <4>1 DEF NoTarget
    <3>6. TargetKnown(new, s)
      BY <3>3, <3>5 DEF TargetKnown, q, c
    <3> QED BY <2>4, <3>3, <3>5, <3>6 DEF q, c
  <2> QED BY <2>3, <2>4
<1>2. new = [s \in Inputs |-> new[s]]
  BY DEF Targets
<1>3. new \in [Inputs -> Int]
  <2> HIDE DEF new
  <2> QED BY <1>1, <1>2
<1> QED BY <1>1, <1>3

\* The first targets after a reset.
LEMMA NoTargetsKnown ==
  NoTargets \in [Inputs -> Int] /\ \A s \in Inputs : TargetKnown(NoTargets, s)
BY DEF NoTargets, NoTarget, TargetKnown

\* Dips stay with the targets.
LEMMA NewDips ==
  ASSUME config \in DOMAIN Offered, Validate(settings), NEW h \in Values,
         target \in [Inputs -> Int], \A s \in Inputs : TargetKnown(target, s),
         dip \in Values, \A s \in Inputs : DipKnown(dip, target, s)
  PROVE  LET new == Targets(h, target)
         IN  /\ Dips(h, new) \in Values
             /\ \A s \in Inputs : DipKnown(Dips(h, new), new, s)
<1> DEFINE new == Targets(h, target)
           after == Dips(h, new)
<1>1. ASSUME NEW s \in Inputs
      PROVE  after[s] \in Gone..125 /\ DipKnown(after, new, s)
  <2> DEFINE c == CurveFor(settings, s)
             q == new[s]
             d == after[s]
             y == settings.hysteresis
  <2>1. h[s] \in Gone..125 /\ dip[s] \in Gone..125 /\ target[s] \in Int /\ Gone \in Int
    BY DEF Values, Gone
  <2>2. SoundCurve(c) /\ y \in Nat
    BY CurvesAreSound, SettingsAreSound
  <2>3. q \in Int /\ (h[s] = Gone => q = NoTarget)
    BY NewTargets
  <2>4. d = IF q = NoTarget \/ target[s] = NoTarget \/ q > target[s] THEN Gone
            ELSE IF q < target[s] THEN h[s]
            ELSE IF dip[s] = Gone THEN Gone ELSE Lesser(dip[s], h[s])
    BY DEF Dips
  <2>5. DipKnown(after, new, s) <=> (d # Gone => q # NoTarget /\ Dipped(c, d, q, y))
    BY DEF DipKnown
  <2>6. dip[s] # Gone => Dipped(c, dip[s], target[s], y)
    BY DEF DipKnown
  <2>7. target[s] # NoTarget => /\ LevelOf(c, target[s])
                                /\ 0 <= target[s] /\ target[s] <= Top(c)
    BY DEF TargetKnown
  <2>8. q # NoTarget => q = HeldTarget(c, h[s], target[s], y)
    BY DEF Targets
  <2> HIDE DEF c, q, d, y, new, after
  <2>9. CASE q = NoTarget \/ target[s] = NoTarget \/ q > target[s]
    BY <2>1, <2>4, <2>5, <2>9 DEF d, Gone
  <2>10. CASE q # NoTarget /\ target[s] # NoTarget /\ q < target[s]
    <3>1. d = h[s]
      BY <2>3, <2>4, <2>1, <2>10
    <3>2. Dipped(c, h[s], q, y)
      BY <2>1, <2>2, <2>7, <2>8, <2>10, FallDips
    <3> QED BY <2>1, <2>5, <2>10, <3>1, <3>2 DEF d
  <2>11. CASE q # NoTarget /\ target[s] # NoTarget /\ q = target[s]
    <3>1. CASE dip[s] = Gone
      <4>1. d = Gone
        BY <2>3, <2>4, <2>1, <2>11, <3>1
      <4> QED BY <2>5, <4>1 DEF d, Gone
    <3>2. CASE dip[s] # Gone
      <4>1. d = Lesser(dip[s], h[s])
        BY <2>3, <2>4, <2>1, <2>11, <3>2
      <4>2. d \in Gone..125 /\ d <= dip[s] /\ d \in Int /\ dip[s] \in Int
        <5>1. \A u \in -1..125 : \A v \in -1..125 :
                Lesser(u, v) \in -1..125 /\ Lesser(u, v) <= u
          BY DEF Lesser
        <5>2. Lesser(dip[s], h[s]) \in -1..125 /\ Lesser(dip[s], h[s]) <= dip[s]
          BY <2>1, <5>1 DEF Gone
        <5>3. d \in -1..125 /\ d <= dip[s]
          BY <4>1, <5>2
        <5> QED BY <2>1, <5>3 DEF Gone
      <4>3. Dipped(c, d, q, y)
        BY <2>2, <2>3, <2>6, <2>11, <3>2, <4>2, LowerDips
      <4> QED BY <2>5, <2>11, <4>2, <4>3 DEF d
    <3> QED BY <3>1, <3>2
  <2> QED BY <2>1, <2>3, <2>9, <2>10, <2>11
<1>2. after = [s \in Inputs |-> after[s]]
  BY DEF Dips
<1> HIDE DEF after
<1>3. after \in Values
  BY <1>1, <1>2 DEF Values
<1> QED BY <1>1, <1>3 DEF after

-----------------------------------------------------------------------------
(* Duties follow percentages.                                              *)

\* A higher percentage calls for as much.
LEMMA HigherCalls ==
  ASSUME config \in DOMAIN Offered, Validate(settings), NEW lower, NEW higher,
         \A s \in Active(settings) :
           /\ lower[s] \in Int /\ lower[s] <= FullPercent
           /\ higher[s] \in Int /\ higher[s] <= FullPercent
           /\ lower[s] <= higher[s]
  PROVE  Called(lower) <= Called(higher)
<1>1. /\ Winning(lower) \in Int /\ Winning(higher) \in Int
      /\ \E s \in Active(settings) : Winning(lower) = lower[s]
      /\ \A s \in Active(settings) : higher[s] <= Winning(higher)
  BY WinningIsHighest
<1>2. Winning(lower) <= Winning(higher)
  BY <1>1
<1> DEFINE a == PercentToPwm(Winning(lower))
           b == PercentToPwm(Winning(higher))
<1>3. a <= b
  BY <1>1, <1>2, Z3 DEF PercentToPwm, Clamp, FullPercent, Percent
<1>4. a \in 0..255 /\ b \in 0..255 /\ FloorDuty \in 0..255
  BY <1>1, DutyRange, SettingsAreSound
<1>5. Called(lower) = Greater(a, FloorDuty) /\ Called(higher) = Greater(b, FloorDuty)
  BY DEF Called
<1> HIDE DEF a, b
<1> QED BY <1>3, <1>4, <1>5 DEF Greater

\* The values of the curves for a sample alone.
RawTargets(r) ==
  [s \in Inputs |-> IF r[s] = Gone THEN NoTarget ELSE Evaluate(CurveFor(settings, s), r[s])]

\* Each is a percentage or none.
LEMMA RawTargetsRange ==
  ASSUME config \in DOMAIN Offered, Validate(settings), NEW r \in Values
  PROVE  \A s \in Inputs : /\ RawTargets(r)[s] \in Int
                           /\ RawTargets(r)[s] <= Top(CurveFor(settings, s))
                           /\ RawTargets(r)[s] <= FullPercent
<1> SUFFICES ASSUME NEW s \in Inputs
             PROVE  /\ RawTargets(r)[s] \in Int
                    /\ RawTargets(r)[s] <= Top(CurveFor(settings, s))
                    /\ RawTargets(r)[s] <= FullPercent
  OBVIOUS
<1> DEFINE c == CurveFor(settings, s)
           e == Evaluate(c, r[s])
<1>1. r[s] \in Int
  BY DEF Values, Gone
<1>2. /\ e \in Int /\ Top(c) \in Int /\ 0 <= e /\ e <= Top(c) /\ Top(c) <= FullPercent
  BY <1>1, CurvesAreSound, EvaluateRange
<1>3. RawTargets(r)[s] = IF r[s] = Gone THEN -1 ELSE e
  BY DEF RawTargets, NoTarget
<1>4. FullPercent \in Int
  BY DEF FullPercent, Percent
<1> HIDE DEF c, e
<1> QED BY <1>2, <1>3, <1>4 DEF c

\* The duty that a sample calls for without memory.
LEMMA DutyForIs ==
  ASSUME config \in DOMAIN Offered, Validate(settings), NEW r \in Values
  PROVE  DutyFor(r) = Called(RawTargets(r)) /\ DutyFor(r) \in 0..PwmMax
<1>1. Called(RawTargets(r)) \in 0..PwmMax
  BY RawTargetsRange, CalledRange, SettingsAreSound
<1>2. /\ PercentToPwm(Winning(RawTargets(r))) \in 0..PwmMax /\ FloorDuty \in 0..PwmMax
  BY RawTargetsRange, WinningIsHighest, DutyRange, SettingsAreSound
<1>3. DutyFor(r) = Greater(FloorDuty, PercentToPwm(Winning(RawTargets(r))))
  BY DEF DutyFor, RawTargets
<1>4. Called(RawTargets(r)) = Greater(PercentToPwm(Winning(RawTargets(r))), FloorDuty)
  BY DEF Called
<1>5. \A x \in 0..PwmMax : \A y \in 0..PwmMax : Greater(x, y) = Greater(y, x)
  BY DutyRange DEF Greater
<1>6. DutyFor(r) = Called(RawTargets(r))
  BY <1>2, <1>3, <1>4, <1>5
<1> QED BY <1>1, <1>6

\* Smoothing and hysteresis never make it less.
LEMMA MemoryOnlyAdds ==
  ASSUME config \in DOMAIN Offered, Validate(settings), NEW r \in Readings, NEW f \in Smoothed(r),
         NEW previous \in [Inputs -> Int], \A s \in Inputs : TargetKnown(previous, s)
  PROVE  DutyFor(r) <= Called(Targets(Evaluated(f, r), previous))
<1> DEFINE h == Evaluated(f, r)
           new == Targets(h, previous)
<1>1. r \in Values /\ h \in Values
  BY ReadingsAreValues, EvaluatedAreValues
<1>2. ASSUME NEW s \in Inputs
      PROVE  /\ new[s] \in Int /\ new[s] <= FullPercent
             /\ RawTargets(r)[s] \in Int /\ RawTargets(r)[s] <= FullPercent
             /\ RawTargets(r)[s] <= new[s]
  <2> DEFINE c == CurveFor(settings, s)
             q == new[s]
  <2>1. r[s] \in Int /\ h[s] \in Int /\ (h[s] = Gone <=> r[s] = Gone) /\ r[s] <= h[s]
    BY <1>1, EvaluatedAreValues DEF Values, Gone
  <2>2. /\ q \in {NoTarget} \cup 0..FullPercent
        /\ h[s] = Gone => q = NoTarget
        /\ h[s] # Gone => Evaluate(c, h[s]) <= q
    BY <1>1, NewTargets
  <2>3. q \in Int /\ q <= FullPercent
    <3> HIDE DEF q
    <3>1. CASE q = NoTarget
      BY <3>1 DEF NoTarget, FullPercent, Percent
    <3>2. CASE q \in 0..FullPercent
      BY <3>2, PercentIsWhole
    <3> QED BY <2>2, <3>1, <3>2
  <2>4. RawTargets(r)[s] \in Int /\ RawTargets(r)[s] <= FullPercent
    BY <1>1, RawTargetsRange
  <2>5. RawTargets(r)[s] <= q
    <3>1. CASE r[s] = Gone
      <4>1. RawTargets(r)[s] = NoTarget /\ q = NoTarget
        BY <2>1, <2>2, <3>1 DEF RawTargets
      <4> QED BY <2>3, <4>1
    <3>2. CASE r[s] # Gone
      <4>1. RawTargets(r)[s] = Evaluate(c, r[s])
        BY <3>2 DEF RawTargets
      <4>2. Evaluate(c, h[s]) <= q /\ Evaluate(c, h[s]) \in Int /\ Evaluate(c, r[s]) \in Int
        BY <2>1, <2>2, <3>2, CurvesAreSound, EvaluateRange
      <4>3. Evaluate(c, r[s]) <= Evaluate(c, h[s])
        BY <2>1, CurvesAreSound, EvaluateRises
      <4> HIDE DEF c, q, h
      <4> QED BY <2>3, <4>1, <4>2, <4>3
    <3> QED BY <3>1, <3>2
  <2> QED BY <2>3, <2>4, <2>5
<1> HIDE DEF new
<1>3. Called(RawTargets(r)) <= Called(new)
  BY <1>2, HigherCalls, SettingsAreSound
<1> QED BY <1>1, <1>3, DutyForIs DEF new

-----------------------------------------------------------------------------
(* Auto and Manual do not alternate.                                       *)

Loaded == {"auto", "manual", "emergency"}

DemandInv ==
  /\ config \in DOMAIN Offered
  /\ mode \in {"loading", "refused"} \cup Loaded
  /\ mode = "loading" => calling = {}
  /\ mode \in Loaded => Validate(settings)
  /\ AutoMeansNoDemand

\* The IR's threshold is a temperature.
LEMMA ActivationIsWhole ==
  ASSUME config \in DOMAIN Offered, Validate(settings)
  PROVE  \A s \in Active(settings) : Activation(s) \in Int
<1> SUFFICES ASSUME NEW s \in Active(settings)
             PROVE  Activation(s) \in Int
  OBVIOUS
<1> DEFINE c == CurveFor(settings, s)
           above == StepsAbove(c)
<1>1. c.rise \in Seq(Int)
  BY DemandAssumption DEF CurveFor, settings, Configurations
<1>2. CASE s # "ir"
  BY <1>2 DEF Activation, Validate, Sensible
<1>3. CASE s = "ir" /\ above = {}
  BY <1>3 DEF Activation, Never
<1>4. CASE s = "ir" /\ above # {}
  <2>1. above \subseteq 1..Len(c.rise) /\ Len(c.rise) \in Nat
    BY <1>1 DEF StepsAbove
  <2>2. \E k \in above : \A j \in above : k <= j
    BY <1>4, <2>1, Least
  <2> DEFINE first == CHOOSE k \in above : \A j \in above : k <= j
  <2>3. first \in above
    BY <2>2
  <2>4. Activation(s) = c.rise[first]
    BY <1>4 DEF Activation
  <2> QED BY <1>1, <2>1, <2>3, <2>4
<1> QED BY <1>2, <1>3, <1>4

\* A sample on which the fans may be handed back has no sensor that would take
\* them again.
LEMMA CoolMeansNoDemand ==
  ASSUME config \in DOMAIN Offered, Validate(settings), NEW r \in Readings,
         NEW sources \in ObservedActivations(r), CoolEnough(sources, r)
  PROVE  ActivationSources(r) = {}
<1> SUFFICES ASSUME NEW s \in ActivationSources(r)
             PROVE  FALSE
  OBVIOUS
<1>1. s \in Active(settings) /\ s \in Present(r) /\ r[s] >= Activation(s)
  BY DEF ActivationSources, Present
<1>2. s \in sources
  BY <1>1 DEF ObservedActivations
<1>3. r[s] <= Release(s)
  BY <1>1, <1>2 DEF CoolEnough
<1>4. r[s] \in Int
  <2>1. s \in Inputs /\ (r[s] \in settings.reads[s] \/ r[s] = Gone)
    BY <1>1 DEF Readings, Active, Inputs
  <2>2. settings.reads[s] \subseteq 0..125
    BY <2>1, DemandAssumption DEF settings, Configurations, Inputs
  <2> QED BY <2>1, <2>2 DEF Gone
<1>5. Activation(s) \in Int /\ settings.irHysteresis \in Int /\ settings.irHysteresis > 0
  BY <1>1, ActivationIsWhole, DemandAssumption DEF Validate, settings, Configurations
<1>6. /\ settings.rel \in Int /\ settings.fanStop \in Int /\ settings.act \in Int
      /\ settings.rel < settings.act /\ settings.fanStop < settings.act
  BY DEF Validate, Sensible
<1>7. Release(s) < Activation(s)
  <2>1. CASE s = "ir"
    BY <1>5, <1>6, <2>1 DEF Release, Lesser
  <2>2. CASE s # "ir"
    BY <1>6, <2>2 DEF Release, Activation, Lesser
  <2> QED BY <2>1, <2>2
<1>8. Release(s) \in Int
  BY <1>5, <1>6 DEF Release, Lesser
<1> QED BY <1>1, <1>3, <1>4, <1>5, <1>7, <1>8

\* No cycle has begun.
LEMMA DemandInit == Init => DemandInv
BY DEF Init, DemandInv, AutoMeansNoDemand, Loaded

\* Every cycle keeps it.
LEMMA DemandStep == DemandInv /\ [Next]_vars => DemandInv'
<1> SUFFICES ASSUME DemandInv, [Next]_vars
             PROVE  DemandInv'
  OBVIOUS
<1> USE DEF DemandInv, AutoMeansNoDemand, Loaded
<1>0. config' = config
  BY DEF Next, Load, Tick, ReadFails, Sample, vars, chosen
<1>1. settings' = settings
  BY <1>0 DEF settings, Configurations
<1>2. Validate(settings)' <=> Validate(settings)
  BY <1>1
<1>3. CASE Load
  BY <1>0, <1>2, <1>3 DEF Load
<1>4. CASE Tick \/ UNCHANGED vars
  BY <1>0, <1>2, <1>4 DEF Tick, vars
<1>5. CASE ReadFails
  BY <1>0, <1>2, <1>5 DEF ReadFails, Maximum
<1>6. CASE Sample
  <2> PICK r \in Readings :
        \E f \in Smoothed(r) :
          /\ calling' = ActivationSources(r)
          /\ \/ SelectMaximum(r) \/ LeaveEmergency(r, f) \/ StayAuto(r)
             \/ RestoreAuto(r) \/ Control(r, f)
    BY <1>6 DEF Sample
  <2> PICK f : /\ calling' = ActivationSources(r)
               /\ \/ SelectMaximum(r) \/ LeaveEmergency(r, f) \/ StayAuto(r)
                  \/ RestoreAuto(r) \/ Control(r, f)
    OBVIOUS
  <2>0. mode \in Loaded
    BY <1>6 DEF Sample
  <2>1. mode' \in Loaded /\ (mode' = "auto" => calling' = {})
    <3>1. CASE SelectMaximum(r)
      BY <3>1 DEF SelectMaximum, Maximum
    <3>2. CASE LeaveEmergency(r, f) \/ Control(r, f)
      BY <3>2 DEF LeaveEmergency, Control
    <3>3. CASE StayAuto(r)
      BY <3>3 DEF StayAuto
    <3>4. CASE RestoreAuto(r)
      BY <2>0, <3>4, CoolMeansNoDemand DEF RestoreAuto
    <3> QED BY <3>1, <3>2, <3>3, <3>4
  <2> QED BY <1>0, <1>2, <2>0, <2>1
<1> QED BY <1>3, <1>4, <1>5, <1>6 DEF Next

\* For every accepted configuration, whatever its thresholds, hystereses and
\* curves: firmware Auto is never entered or kept on a sample that calls for
\* control.
THEOREM AutoIsQuiet == Spec => []AutoMeansNoDemand
<1>1. DemandInv => AutoMeansNoDemand
  BY DEF DemandInv
<1> QED BY DemandInit, DemandStep, <1>1, PTL DEF Spec

-----------------------------------------------------------------------------
(* The invariant of the cycle.                                             *)

\* A duty is commanded in Manual and for the maximum only, within the ceiling of
\* the interface in Manual.
DutiesKept ==
  /\ commanded \in {NoDuty} \cup 1..PwmMax
  /\ mode \in {"loading", "refused", "auto"} => commanded = NoDuty
  /\ mode \in {"manual", "emergency"} => commanded # NoDuty
  /\ mode = "manual" => commanded <= Ceiling(dual)

\* Targets and dips are those of the curves.
TargetsKept ==
  /\ target \in [Inputs -> Int] /\ dip \in Values
  /\ mode \in {"loading", "refused"} => target = NoTargets /\ dip = Nothing
  /\ mode \in Loaded => \A s \in Inputs : TargetKnown(target, s) /\ DipKnown(dip, target, s)

\* Once the control interval is over, so is the one since the last reduction.
PaceKept ==
  /\ mode \in {"loading", "refused"} => pace = 0
  /\ mode = "loading" => sinceCut = settings.interval
  /\ mode \in Loaded => /\ pace \in 0..settings.interval /\ sinceCut \in 0..settings.interval
                        /\ pace + sinceCut >= settings.interval

\* Lasting heat has raised the duty by as many steps as it has lasted samples.
HeatKept ==
  /\ mode # "manual" => hotFor = 0
  /\ mode = "manual" => hotFor \in 0..RisesToFull
  /\ mode = "manual" /\ settings.crit = Disabled
       => commanded >= Lesser(PwmMax, hotFor * RiseStep)

\* Only an accepted configuration runs.
ChoiceKept ==
  /\ config \in DOMAIN Offered /\ dual \in BOOLEAN
  /\ mode \in {"loading", "refused"} \cup Loaded
  /\ mode \in Loaded => Validate(settings) /\ InterfaceAllows(settings, dual)

\* What is remembered of samples is of the inputs.
SamplesKept ==
  /\ filtered \in Values /\ heat \in Values
  /\ activated \subseteq Active(settings) /\ calling \subseteq Active(settings)
  /\ asked \in {NoDuty} \cup 0..PwmMax

\* The configuration is read once.
LEMMA ChoiceStays ==
  ASSUME chosen' = chosen
  PROVE  /\ settings' = settings /\ Inputs' = Inputs /\ Values' = Values
         /\ Ceiling(dual)' = Ceiling(dual)
         /\ NoTargets' = NoTargets /\ Nothing' = Nothing
         /\ RiseStep' = RiseStep /\ RisesToFull' = RisesToFull
         /\ \A s \in Inputs : /\ TargetKnown(target, s)' <=> TargetKnown(target', s)
                              /\ DipKnown(dip, target, s)' <=> DipKnown(dip', target', s)
<1>1. config' = config /\ dual' = dual
  BY DEF chosen
<1>2. settings' = settings
  BY <1>1 DEF settings, Configurations
<1>3. Inputs' = Inputs /\ Ceiling(dual)' = Ceiling(dual) /\ RiseStep' = RiseStep
  BY <1>1, <1>2 DEF Inputs, RiseStep
<1>4. Values' = Values /\ NoTargets' = NoTargets /\ Nothing' = Nothing
  BY <1>3 DEF Values, NoTargets, Nothing
<1>5. RisesToFull' = RisesToFull
  BY <1>3 DEF RisesToFull
<1>6. ASSUME NEW s \in Inputs
      PROVE  /\ TargetKnown(target, s)' <=> TargetKnown(target', s)
             /\ DipKnown(dip, target, s)' <=> DipKnown(dip', target', s)
  BY <1>2 DEF TargetKnown, DipKnown
<1> QED BY <1>2, <1>3, <1>4, <1>5, <1>6

\* Every step leaves it alone.
LEMMA NeverChosenAgain == [Next]_vars => chosen' = chosen
BY DEF Next, Load, Tick, ReadFails, Sample, vars, chosen

-----------------------------------------------------------------------------
(* Steps of the invariant.                                                 *)

\* A sample in Manual, or one that takes Manual: the targets are the curves', the
\* duty is within the ceiling and follows them, and only the interval reduces it.
LEMMA ControlDuty ==
  ASSUME config \in DOMAIN Offered, dual \in BOOLEAN, Validate(settings), DutiesKept,
         target \in [Inputs -> Int], \A s \in Inputs : TargetKnown(target, s),
         NEW r \in Readings, NEW f \in Smoothed(r), Control(r, f)
  PROVE  /\ DutyFor(r) <= Called(target') /\ Called(target') \in 0..PwmMax
         /\ commanded' \in 1..PwmMax /\ commanded' <= Ceiling(dual)
         /\ mode = "auto" => Lesser(Called(target'), Ceiling(dual)) <= commanded'
         /\ mode = "manual"
              => /\ commanded - FallStep <= commanded'
                 /\ Lesser(Ceiling(dual), Lesser(commanded + RiseStep, Called(target')))
                      <= commanded'
                 /\ commanded' < commanded => pace = 0
         /\ \/ pace' = settings.interval
               /\ sinceCut' = IF mode = "manual" /\ commanded' < commanded THEN 0 ELSE sinceCut
            \/ UNCHANGED <<commanded, pace, sinceCut>>
<1> DEFINE h == Evaluated(f, r)
           q == Targets(h, target)
           duty == Desired(q, commanded)
           call == Called(q)
           top == Ceiling(dual)
<1>1. target' = q /\ h \in Values
  BY EvaluatedAreValues DEF Control
<1>2. \A s \in Active(settings) : q[s] \in Int /\ q[s] <= FullPercent
  <2> SUFFICES ASSUME NEW s \in Active(settings)
               PROVE  q[s] \in Int /\ q[s] <= FullPercent
    OBVIOUS
  <2>1. q[s] \in {NoTarget} \cup 0..FullPercent
    BY <1>1, NewTargets, SettingsAreSound
  <2> HIDE DEF q
  <2>2. CASE q[s] = NoTarget
    BY <2>2 DEF NoTarget, FullPercent, Percent
  <2>3. CASE q[s] \in 0..FullPercent
    BY <2>3, PercentIsWhole
  <2> QED BY <2>1, <2>2, <2>3
<1>3. DutyFor(r) <= call /\ call \in 0..PwmMax
  BY <1>2, MemoryOnlyAdds, CalledRange
<1>4. /\ PwmMax = 255 /\ top \in Int /\ 238 <= top /\ top <= 255
      /\ RiseStep \in 0..255 /\ FallStep \in 0..255 /\ call \in 0..255
  BY <1>3, DutyRange, CeilingRange, SettingsAreSound
<1>5. duty \in 1..255
  BY <1>2, <1>4, DesiredRange DEF DutiesKept
<1>6. mode = "auto" \/ mode = "manual"
  BY DEF Control
<1>7. CASE mode = "auto"
  <2>1. commanded = NoDuty
    BY <1>7 DEF DutiesKept
  <2>2. commanded' \in Taken(duty) /\ pace' = settings.interval /\ sinceCut' = sinceCut
    BY <1>1, <1>7, <2>1 DEF Control, ShouldUpdate
  <2>3. commanded' \in 1..255 /\ commanded' <= top /\ Lesser(duty, top) <= commanded'
    BY <1>4, <1>5, <2>2, TakenRange
  <2>4. call <= duty
    BY <1>2, <2>1, DesiredRange
  <2> HIDE DEF q, duty, call, top
  <2>5. Lesser(call, top) <= commanded'
    BY <1>4, <1>5, <2>3, <2>4 DEF Lesser
  <2>6. mode # "manual"
    BY <1>7
  <2> QED BY <1>1, <1>3, <1>4, <2>2, <2>3, <2>5, <2>6 DEF call, top
<1>8. CASE mode = "manual"
  <2>1. commanded # NoDuty /\ commanded \in 1..255 /\ commanded <= top
    BY <1>4, <1>8 DEF DutiesKept
  <2>2. /\ commanded - FallStep <= duty
        /\ Lesser(commanded + RiseStep, call) <= duty
    BY <1>2, <1>4, <2>1, DesiredRange
  <2>3. \/ /\ ShouldUpdate(duty) /\ commanded' = Lesser(duty, top) /\ pace' = settings.interval
           /\ sinceCut' = IF commanded' < commanded THEN 0 ELSE sinceCut
        \/ ~ShouldUpdate(duty) /\ UNCHANGED <<commanded, pace, sinceCut>>
    BY <1>1, <1>8, <2>1 DEF Control
  <2>4. ShouldUpdate(duty) <=> duty > commanded \/ pace = 0
    BY <2>1 DEF ShouldUpdate
  <2> HIDE DEF q, duty, call, top
  <2>5. /\ commanded' \in 1..255 /\ commanded' <= top /\ commanded - FallStep <= commanded'
        /\ Lesser(top, Lesser(commanded + RiseStep, call)) <= commanded'
        /\ commanded' < commanded => duty <= commanded /\ ShouldUpdate(duty)
    <3>1. CASE commanded' = Lesser(duty, top) /\ ShouldUpdate(duty)
      BY <1>4, <1>5, <2>1, <2>2, <3>1 DEF Lesser
    <3>2. CASE commanded' = commanded /\ ~ShouldUpdate(duty)
      <4>1. duty <= commanded
        BY <1>5, <2>1, <2>4, <3>2
      <4> QED BY <1>4, <1>5, <2>1, <2>2, <3>2, <4>1 DEF Lesser
    <3> QED BY <2>3, <3>1, <3>2
  <2>6. commanded' < commanded => pace = 0
    BY <1>5, <2>1, <2>4, <2>5
  <2>7. \/ pace' = settings.interval
           /\ sinceCut' = IF mode = "manual" /\ commanded' < commanded THEN 0 ELSE sinceCut
        \/ UNCHANGED <<commanded, pace, sinceCut>>
    BY <1>8, <2>3
  <2>8. mode # "auto"
    BY <1>8
  <2> QED BY <1>1, <1>3, <1>4, <2>5, <2>6, <2>7, <2>8 DEF call, top
<1> QED BY <1>6, <1>7, <1>8

\* Leaving an emergency takes Manual with a duty within the ceiling.
LEMMA LeavingDuty ==
  ASSUME config \in DOMAIN Offered, dual \in BOOLEAN, Validate(settings),
         NEW r \in Readings, NEW f \in Smoothed(r), LeaveEmergency(r, f)
  PROVE  /\ target' = Targets(f, NoTargets) /\ f \in Values
         /\ commanded' \in 1..PwmMax /\ commanded' <= Ceiling(dual)
<1> DEFINE q == Targets(f, NoTargets)
<1>1. target' = q /\ f \in Values
  BY SmoothedAreValues DEF LeaveEmergency
<1>2. \A s \in Active(settings) : q[s] \in Int /\ q[s] <= FullPercent
  <2> SUFFICES ASSUME NEW s \in Active(settings)
               PROVE  q[s] \in Int /\ q[s] <= FullPercent
    OBVIOUS
  <2>1. q[s] \in {NoTarget} \cup 0..FullPercent
    BY <1>1, NewTargets, NoTargetsKnown, SettingsAreSound
  <2> HIDE DEF q
  <2>2. CASE q[s] = NoTarget
    BY <2>2 DEF NoTarget, FullPercent, Percent
  <2>3. CASE q[s] \in 0..FullPercent
    BY <2>3, PercentIsWhole
  <2> QED BY <2>1, <2>2, <2>3
<1>3. Desired(q, NoDuty) \in 1..PwmMax
  BY <1>2, DesiredRange
<1>4. commanded' \in Taken(Desired(q, NoDuty))
  BY <1>1 DEF LeaveEmergency
<1> QED BY <1>1, <1>3, <1>4, TakenRange

-----------------------------------------------------------------------------
(* The whole invariant.                                                    *)

\* All of it.
CycleInv == ChoiceKept /\ SamplesKept /\ DutiesKept /\ TargetsKept /\ PaceKept /\ HeatKept

\* A start has it.
LEMMA CycleInit == Init => CycleInv
<1> SUFFICES ASSUME Init
             PROVE  CycleInv
  OBVIOUS
<1>1. ChoiceKept
  BY DEF Init, ChoiceKept, Loaded
<1>2. DutiesKept
  BY DEF Init, DutiesKept
<1>3. TargetsKept
  <2>1. Nothing \in Values /\ NoTargets \in [Inputs -> Int]
    BY NoTargetsKnown DEF Nothing, Values, Gone
  <2> QED BY <2>1 DEF Init, TargetsKept, Loaded
<1>4. PaceKept
  BY DEF Init, PaceKept, Loaded
<1>5. HeatKept
  BY DEF Init, HeatKept
<1>6. SamplesKept
  BY DEF Init, SamplesKept, Nothing, Values, Gone
<1> QED BY <1>1, <1>2, <1>3, <1>4, <1>5, <1>6 DEF CycleInv

\* What a sample does.
SampleStep(r, f) ==
  \/ SelectMaximum(r) \/ LeaveEmergency(r, f) \/ StayAuto(r) \/ RestoreAuto(r) \/ Control(r, f)

\* The cases of a step.
LEMMA StepCases ==
  ASSUME [Next]_vars
  PROVE  \/ Load \/ Tick \/ ReadFails \/ UNCHANGED vars
         \/ \E r \in Readings : \E f \in Smoothed(r) :
              /\ mode \in Loaded /\ SampleStep(r, f)
              /\ calling' = ActivationSources(r) /\ asked' = DutyFor(r) /\ filtered' = f
BY DEF Next, Sample, SampleStep, Loaded

\* The configuration was accepted before the first sample.
LEMMA ChoiceStep ==
  ASSUME ChoiceKept, [Next]_vars
  PROVE  ChoiceKept'
<1>1. chosen' = chosen
  BY NeverChosenAgain
<1>2. settings' = settings /\ config' = config /\ dual' = dual
  BY <1>1, ChoiceStays DEF chosen
<1>3. CASE Load
  BY <1>2, <1>3 DEF Load, ChoiceKept, Loaded
<1>4. CASE ~Load
  <2>1. mode \in Loaded => mode' \in Loaded
    <3>1. CASE Tick \/ ReadFails \/ UNCHANGED vars
      BY <3>1 DEF Tick, ReadFails, Maximum, vars, Loaded
    <3>2. ASSUME NEW r \in Readings, NEW f \in Smoothed(r), SampleStep(r, f), mode \in Loaded
          PROVE  mode' \in Loaded
      BY <3>2 DEF SampleStep, SelectMaximum, Maximum, LeaveEmergency, StayAuto, RestoreAuto,
         Control, Loaded
    <3> QED BY <1>4, <3>1, <3>2, StepCases
  <2>2. mode \notin Loaded => mode' = mode
    BY <1>4, StepCases DEF Tick, ReadFails, vars, Loaded
  <2> QED BY <1>2, <2>1, <2>2 DEF ChoiceKept, Loaded
<1> QED BY <1>3, <1>4

\* So are the duties.
LEMMA DutiesStep ==
  ASSUME CycleInv, [Next]_vars
  PROVE  DutiesKept'
<1> USE DEF Loaded
<1>1. Ceiling(dual)' = Ceiling(dual)
  BY NeverChosenAgain, ChoiceStays
<1>2. DutiesKept /\ ChoiceKept /\ TargetsKept
  BY DEF CycleInv
<1>3. PwmMax \in 1..PwmMax /\ PwmMax # NoDuty
  BY DutyRange DEF NoDuty
<1>4. CASE Load
  BY <1>1, <1>2, <1>3, <1>4 DEF Load, DutiesKept
<1>5. CASE Tick \/ UNCHANGED vars
  BY <1>1, <1>2, <1>5 DEF Tick, vars, DutiesKept
<1>6. CASE ReadFails
  BY <1>1, <1>2, <1>3, <1>6 DEF ReadFails, Maximum, DutiesKept
<1>7. ASSUME NEW r \in Readings, NEW f \in Smoothed(r), mode \in Loaded, SampleStep(r, f)
      PROVE  DutiesKept'
  <2>1. Validate(settings) /\ config \in DOMAIN Offered /\ dual \in BOOLEAN
    BY <1>2, <1>7 DEF ChoiceKept
  <2>2. \A duty \in 1..PwmMax : duty # NoDuty
    BY DutyRange DEF NoDuty
  <2>3. CASE SelectMaximum(r)
    BY <1>1, <1>3, <2>3 DEF SelectMaximum, Maximum, DutiesKept
  <2>4. CASE LeaveEmergency(r, f)
    <3>1. mode' = "manual" /\ commanded' \in 1..PwmMax /\ commanded' <= Ceiling(dual)
      BY <2>1, <2>4, LeavingDuty DEF LeaveEmergency
    <3> QED BY <1>1, <2>2, <3>1 DEF DutiesKept
  <2>5. CASE StayAuto(r)
    BY <1>1, <1>2, <2>5 DEF StayAuto, DutiesKept
  <2>6. CASE RestoreAuto(r)
    BY <1>1, <1>2, <2>6 DEF RestoreAuto, DutiesKept
  <2>7. CASE Control(r, f)
    <3>1. mode' = "manual" /\ \A s \in Inputs : TargetKnown(target, s)
      BY <1>2, <1>7, <2>7 DEF Control, TargetsKept
    <3>2. commanded' \in 1..PwmMax /\ commanded' <= Ceiling(dual)
      BY <1>2, <2>1, <2>7, <3>1, ControlDuty DEF TargetsKept
    <3> QED BY <1>1, <2>2, <3>1, <3>2 DEF DutiesKept
  <2> QED BY <1>7, <2>3, <2>4, <2>5, <2>6, <2>7 DEF SampleStep
<1> QED BY <1>4, <1>5, <1>6, <1>7, StepCases

\* So are the targets and the dips.
LEMMA TargetsStep ==
  ASSUME CycleInv, [Next]_vars
  PROVE  TargetsKept'
<1> USE DEF Loaded
<1>1. /\ Inputs' = Inputs /\ Values' = Values /\ NoTargets' = NoTargets /\ Nothing' = Nothing
      /\ \A s \in Inputs : /\ TargetKnown(target, s)' <=> TargetKnown(target', s)
                           /\ DipKnown(dip, target, s)' <=> DipKnown(dip', target', s)
  BY NeverChosenAgain, ChoiceStays
<1>2. ChoiceKept /\ TargetsKept
  BY DEF CycleInv
<1>3. /\ Nothing \in Values /\ NoTargets \in [Inputs -> Int]
      /\ \A s \in Inputs : TargetKnown(NoTargets, s)
      /\ \A any : \A s \in Inputs : DipKnown(Nothing, any, s)
  BY NoTargetsKnown DEF Nothing, Values, Gone, DipKnown
<1>4. SUFFICES /\ target' \in [Inputs -> Int] /\ dip' \in Values
               /\ mode' \in {"loading", "refused"} => target' = NoTargets /\ dip' = Nothing
               /\ mode' \in Loaded
                    => \A s \in Inputs : TargetKnown(target', s) /\ DipKnown(dip', target', s)
  BY <1>1 DEF TargetsKept
<1>5. CASE UNCHANGED <<mode, target, dip>>
  BY <1>2, <1>5 DEF TargetsKept
<1>6. CASE Load
  BY <1>2, <1>3, <1>6 DEF Load, TargetsKept
<1>7. CASE /\ mode \in Loaded /\ mode' \in Loaded
           /\ target' = target \/ target' = NoTargets
           /\ dip' = Nothing \/ UNCHANGED <<target, dip>>
  BY <1>2, <1>3, <1>7 DEF TargetsKept
<1>8. ASSUME NEW r \in Readings, NEW f \in Smoothed(r), mode \in Loaded, SampleStep(r, f)
      PROVE  /\ target' \in [Inputs -> Int] /\ dip' \in Values /\ mode' \in Loaded
             /\ \A s \in Inputs : TargetKnown(target', s) /\ DipKnown(dip', target', s)
  <2>1. Validate(settings) /\ config \in DOMAIN Offered /\ dual \in BOOLEAN
    BY <1>2, <1>8 DEF ChoiceKept
  <2>2. /\ target \in [Inputs -> Int] /\ dip \in Values
        /\ \A s \in Inputs : TargetKnown(target, s) /\ DipKnown(dip, target, s)
    BY <1>2, <1>8 DEF TargetsKept
  <2>3. CASE SelectMaximum(r)
    BY <1>3, <2>2, <2>3 DEF SelectMaximum, Maximum
  <2>4. CASE LeaveEmergency(r, f)
    <3>1. /\ mode' = "manual" /\ dip' = Nothing /\ f \in Values
          /\ target' = Targets(f, NoTargets)
      BY <2>1, <2>4, LeavingDuty DEF LeaveEmergency
    <3>2. target' \in [Inputs -> Int] /\ \A s \in Inputs : TargetKnown(target', s)
      BY <1>3, <2>1, <3>1, NewTargets
    <3> QED BY <1>3, <3>1, <3>2
  <2>5. CASE StayAuto(r)
    BY <1>3, <2>2, <2>5 DEF StayAuto
  <2>6. CASE RestoreAuto(r)
    BY <1>3, <2>2, <2>6 DEF RestoreAuto
  <2>7. CASE Control(r, f)
    <3> DEFINE h == Evaluated(f, r)
    <3>1. /\ mode' = "manual" /\ target' = Targets(h, target)
          /\ dip' = Dips(h, Targets(h, target)) /\ h \in Values
      BY <2>1, <2>7, EvaluatedAreValues DEF Control
    <3> HIDE DEF h
    <3>2. target' \in [Inputs -> Int] /\ \A s \in Inputs : TargetKnown(target', s)
      BY <2>1, <2>2, <3>1, NewTargets
    <3>3. dip' \in Values /\ \A s \in Inputs : DipKnown(dip', target', s)
      BY <2>1, <2>2, <3>1, NewDips
    <3> QED BY <3>1, <3>2, <3>3
  <2> QED BY <1>8, <2>3, <2>4, <2>5, <2>6, <2>7 DEF SampleStep
<1>9. CASE Tick \/ UNCHANGED vars
  BY <1>5, <1>9 DEF Tick, vars
<1>10. CASE ReadFails
  BY <1>7, <1>10 DEF ReadFails, Maximum
<1> QED BY <1>6, <1>8, <1>9, <1>10, StepCases

\* So is the pace.
LEMMA PaceStep ==
  ASSUME CycleInv, [Next]_vars
  PROVE  PaceKept'
<1> USE DEF Loaded
<1>1. settings' = settings
  BY NeverChosenAgain, ChoiceStays
<1>2. ChoiceKept /\ PaceKept /\ TargetsKept /\ DutiesKept
  BY DEF CycleInv
<1>3. CASE Load
  <2>1. mode' \in Loaded => settings.interval \in Nat
    BY <1>2, <1>3, SettingsAreSound DEF Load, ChoiceKept
  <2>2. pace' = 0 /\ sinceCut' = settings.interval /\ mode' \in {"refused"} \cup Loaded
    BY <1>2, <1>3 DEF Load, PaceKept
  <2> QED BY <1>1, <2>1, <2>2 DEF PaceKept
<1>4. CASE Tick
  <2>1. /\ pace \in 0..settings.interval /\ sinceCut \in 0..settings.interval
        /\ pace + sinceCut >= settings.interval /\ settings.interval \in Nat
        /\ pace > 0 /\ pace' = pace - 1 /\ sinceCut' = Lesser(settings.interval, sinceCut + 1)
        /\ mode' = mode /\ mode \in Loaded
    BY <1>2, <1>4, SettingsAreSound DEF Tick, PaceKept, ChoiceKept
  <2> DEFINE interval == settings.interval
  <2>2. interval' = interval
    BY <1>1
  <2> HIDE DEF interval
  <2>3. /\ pace \in 0..interval /\ sinceCut \in 0..interval /\ interval \in Nat
        /\ pace + sinceCut >= interval /\ pace > 0 /\ pace' = pace - 1
        /\ sinceCut' = Lesser(interval, sinceCut + 1)
    BY <2>1 DEF interval
  <2>4. /\ pace' \in 0..interval /\ sinceCut' \in 0..interval /\ pace' + sinceCut' >= interval
    BY <2>3 DEF Lesser
  <2> QED BY <1>1, <2>1, <2>4 DEF PaceKept, interval
<1>5. CASE UNCHANGED <<pace, sinceCut>> /\ mode \in Loaded /\ mode' \in Loaded
  BY <1>1, <1>2, <1>5 DEF PaceKept, ChoiceKept
<1>6. ASSUME NEW r \in Readings, NEW f \in Smoothed(r), mode \in Loaded, Control(r, f)
      PROVE  PaceKept'
  <2>1. Validate(settings) /\ config \in DOMAIN Offered /\ dual \in BOOLEAN
    BY <1>2, <1>6 DEF ChoiceKept
  <2>2. \/ pace' = settings.interval /\ (sinceCut' = 0 \/ sinceCut' = sinceCut)
        \/ UNCHANGED <<pace, sinceCut>>
    BY <1>2, <1>6, <2>1, ControlDuty DEF TargetsKept
  <2>3. /\ sinceCut \in 0..settings.interval /\ settings.interval \in Nat
        /\ mode' = "manual"
    BY <1>2, <1>6, <2>1, SettingsAreSound DEF PaceKept, Control
  <2>4. CASE pace' = settings.interval /\ (sinceCut' = 0 \/ sinceCut' = sinceCut)
    <3>1. /\ pace' \in 0..settings.interval /\ sinceCut' \in 0..settings.interval
          /\ pace' + sinceCut' >= settings.interval
      BY <2>3, <2>4
    <3> QED BY <1>1, <2>3, <3>1 DEF PaceKept
  <2> QED BY <1>5, <1>6, <2>2, <2>3, <2>4
<1>7. CASE UNCHANGED vars
  BY <1>1, <1>2, <1>7 DEF PaceKept, vars
<1>8. CASE ReadFails
  BY <1>5, <1>8 DEF ReadFails, Maximum
<1>9. ASSUME NEW r \in Readings, NEW f \in Smoothed(r), mode \in Loaded, SampleStep(r, f)
      PROVE  PaceKept'
  <2>1. CASE ~Control(r, f)
    BY <1>5, <1>9, <2>1 DEF SampleStep, SelectMaximum, Maximum, LeaveEmergency, StayAuto,
       RestoreAuto
  <2> QED BY <1>6, <1>9, <2>1
<1> QED BY <1>3, <1>4, <1>7, <1>8, <1>9, StepCases

-----------------------------------------------------------------------------
(* Samples, and lasting heat.                                              *)

\* What is remembered of samples is of the inputs.
LEMMA SamplesStep ==
  ASSUME CycleInv, [Next]_vars
  PROVE  SamplesKept'
<1> USE DEF Loaded
<1>1. Values' = Values /\ Nothing' = Nothing /\ Active(settings)' = Active(settings)
  BY NeverChosenAgain, ChoiceStays
<1>2. ChoiceKept /\ SamplesKept
  BY DEF CycleInv
<1>3. Nothing \in Values
  BY DEF Nothing, Values, Gone
<1>4. SUFFICES /\ filtered' \in Values /\ heat' \in Values
               /\ activated' \subseteq Active(settings) /\ calling' \subseteq Active(settings)
               /\ asked' \in {NoDuty} \cup 0..PwmMax
  BY <1>1 DEF SamplesKept
<1>5. CASE Load \/ Tick \/ UNCHANGED vars
  BY <1>2, <1>5 DEF Load, Tick, vars, SamplesKept
<1>6. CASE ReadFails
  BY <1>2, <1>3, <1>6 DEF ReadFails, SamplesKept
<1>7. ASSUME NEW r \in Readings, NEW f \in Smoothed(r), mode \in Loaded, SampleStep(r, f),
             calling' = ActivationSources(r), asked' = DutyFor(r), filtered' = f
      PROVE  /\ filtered' \in Values /\ heat' \in Values
             /\ activated' \subseteq Active(settings) /\ calling' \subseteq Active(settings)
             /\ asked' \in {NoDuty} \cup 0..PwmMax
  <2>1. Validate(settings) /\ config \in DOMAIN Offered /\ dual \in BOOLEAN
    BY <1>2, <1>7 DEF ChoiceKept
  <2>2. f \in Values /\ Evaluated(f, r) \in Values /\ r \in Values
    BY <2>1, SmoothedAreValues, EvaluatedAreValues, ReadingsAreValues
  <2>3. DutyFor(r) \in 0..PwmMax
    BY <2>1, <2>2, DutyForIs
  <2>4. ActivationSources(r) \subseteq Active(settings)
    BY DEF ActivationSources, Present
  <2>5. \A sources \in ObservedActivations(r) : sources \subseteq Active(settings)
    BY <1>2, <2>4 DEF ObservedActivations, SamplesKept
  <2>6. heat' \in Values
    <3>1. heat' \in {heat, Nothing, f, Evaluated(f, r)}
      BY <1>7 DEF SampleStep, SelectMaximum, LeaveEmergency, StayAuto, RestoreAuto, Control
    <3> QED BY <1>2, <1>3, <2>2, <3>1 DEF SamplesKept
  <2>7. activated' \subseteq Active(settings)
    <3>1. activated' \in ObservedActivations(r) \cup {{}, ActivationSources(r)}
      BY <1>7 DEF SampleStep, SelectMaximum, LeaveEmergency, StayAuto, RestoreAuto, Control
    <3> QED BY <2>4, <2>5, <3>1
  <2> QED BY <1>7, <2>2, <2>3, <2>4, <2>6, <2>7
<1> QED BY <1>5, <1>6, <1>7, StepCases

\* A sensor beyond the top of its curve calls for full speed, if the curves are
\* the only way to it; the interface then allows it.
LEMMA ScorchingCallsForAll ==
  ASSUME config \in DOMAIN Offered, dual \in BOOLEAN, Validate(settings),
         InterfaceAllows(settings, dual), settings.crit = Disabled,
         NEW r \in Readings, Scorching(r)
  PROVE  DutyFor(r) = PwmMax /\ Ceiling(dual) = PwmMax
<1>1. PICK s \in Present(r) : r[s] >= CurveFor(settings, s).rise[Len(CurveFor(settings, s).rise)]
  BY DEF Scorching
<1> DEFINE c == CurveFor(settings, s)
           q == RawTargets(r)
<1>2. s \in Active(settings) /\ s \in Inputs /\ r[s] # Gone /\ r[s] \in Int
  <2>1. s \in Active(settings) /\ r[s] # Gone
    BY DEF Present
  <2> QED BY <2>1, SettingsAreSound, ReadingsAreValues DEF Values, Gone
<1>3. FullPercent \in Int
  BY DEF FullPercent, Percent
<1>4. \A a \in Active(settings) : Top(CurveFor(settings, a)) = FullPercent
  <2> SUFFICES ASSUME NEW a \in Active(settings)
               PROVE  Top(CurveFor(settings, a)) = FullPercent
    OBVIOUS
  <2>1. Top(CurveFor(settings, a)) >= FullPercent
    BY DEF Validate, ReachesFullSpeed
  <2>2. Top(CurveFor(settings, a)) \in Int /\ Top(CurveFor(settings, a)) <= FullPercent
    BY CurvesAreSound, EvaluateRange
  <2> QED BY <1>3, <2>1, <2>2
<1>5. q[s] = FullPercent
  <2>1. Evaluate(c, r[s]) = Top(c)
    BY <1>1, <1>2, CurvesAreSound, EvaluateTop
  <2> QED BY <1>2, <1>4, <2>1 DEF RawTargets
<1>6. /\ Winning(q) \in Int /\ q[s] <= Winning(q)
      /\ \E a \in Active(settings) : Winning(q) = q[a]
      /\ \A a \in Active(settings) : q[a] <= FullPercent
  <2>1. \A a \in Active(settings) : q[a] \in Int /\ q[a] <= FullPercent
    BY RawTargetsRange, ReadingsAreValues, SettingsAreSound
  <2> HIDE DEF q
  <2> QED BY <1>2, <2>1, WinningIsHighest
<1>7. Winning(q) = FullPercent
  <2> HIDE DEF q
  <2> QED BY <1>3, <1>5, <1>6
<1>8. DutyFor(r) = PwmMax
  <2>1. DutyFor(r) = Called(q) /\ Called(q) = Greater(PwmMax, FloorDuty)
    BY <1>7, DutyForIs, ReadingsAreValues, DutyRange DEF Called
  <2>2. FloorDuty \in 0..255 /\ PwmMax = 255
    BY SettingsAreSound, DutyRange
  <2> QED BY <2>1, <2>2 DEF Greater
<1>9. dual = TRUE
  <2>1. ~(PercentToLevel(FullPercent) <= SinglePwmMaxLevel)
    BY Z3 DEF PercentToLevel, PwmToLevel, PercentToPwm, Clamp, PwmMax, FullPercent, Percent,
       SinglePwmMaxLevel
  <2> QED BY <1>2, <1>4, <2>1 DEF InterfaceAllows
<1>10. Ceiling(dual) = Ceiling(TRUE)
  BY <1>9, Zenon
<1> QED BY <1>8, <1>10, DutyRange

\* Lasting heat raises the duty.
LEMMA HeatStep ==
  ASSUME CycleInv, [Next]_vars
  PROVE  HeatKept'
<1> USE DEF Loaded
<1>1. settings' = settings /\ RiseStep' = RiseStep /\ RisesToFull' = RisesToFull
  BY NeverChosenAgain, ChoiceStays
<1>2. ChoiceKept /\ HeatKept /\ DutiesKept /\ TargetsKept
  BY DEF CycleInv
<1>3. SUFFICES /\ mode' # "manual" => hotFor' = 0
               /\ mode' = "manual" => hotFor' \in 0..RisesToFull
               /\ mode' = "manual" /\ settings.crit = Disabled
                    => commanded' >= Lesser(PwmMax, hotFor' * RiseStep)
  BY <1>1 DEF HeatKept
<1>4. CASE UNCHANGED <<mode, hotFor, commanded>>
  BY <1>2, <1>4 DEF HeatKept
<1>5. CASE mode' # "manual" /\ (hotFor' = 0 \/ (mode # "manual" /\ hotFor' = hotFor))
  BY <1>2, <1>5 DEF HeatKept
<1>6. ASSUME NEW r \in Readings, NEW f \in Smoothed(r), mode \in Loaded, SampleStep(r, f)
      PROVE  /\ mode' # "manual" => hotFor' = 0
             /\ mode' = "manual" => hotFor' \in 0..RisesToFull
             /\ mode' = "manual" /\ settings.crit = Disabled
                  => commanded' >= Lesser(PwmMax, hotFor' * RiseStep)
  <2>1. /\ Validate(settings) /\ config \in DOMAIN Offered /\ dual \in BOOLEAN
        /\ InterfaceAllows(settings, dual)
    BY <1>2, <1>6 DEF ChoiceKept
  <2>2. RisesToFull \in Nat /\ RiseStep \in 0..255 /\ PwmMax = 255
    BY <2>1, RisesAreFinite, SettingsAreSound, DutyRange
  <2>3. ASSUME commanded' \in 1..255, hotFor' = 0
        PROVE  hotFor' \in 0..RisesToFull /\ commanded' >= Lesser(PwmMax, hotFor' * RiseStep)
    <3>1. 0 * RiseStep = 0
      BY <2>2
    <3> QED BY <2>2, <2>3, <3>1 DEF Lesser
  <2>4. CASE SelectMaximum(r) \/ StayAuto(r) \/ RestoreAuto(r)
    BY <1>5, <2>4 DEF SelectMaximum, Maximum, StayAuto, RestoreAuto
  <2>5. CASE LeaveEmergency(r, f)
    <3>1. commanded' \in 1..255 /\ hotFor' = 0 /\ mode' = "manual"
      BY <2>1, <2>2, <2>5, LeavingDuty DEF LeaveEmergency
    <3> QED BY <2>3, <3>1
  <2>6. CASE Control(r, f)
    <3>1. \A s \in Inputs : TargetKnown(target, s)
      BY <1>2, <1>6 DEF TargetsKept
    <3>2. /\ DutyFor(r) <= Called(target') /\ Called(target') \in 0..PwmMax
          /\ commanded' \in 1..PwmMax
          /\ mode = "auto" => Lesser(Called(target'), Ceiling(dual)) <= commanded'
          /\ mode = "manual"
               => Lesser(Ceiling(dual), Lesser(commanded + RiseStep, Called(target'))) <= commanded'
      BY <1>2, <2>1, <2>6, <3>1, ControlDuty DEF TargetsKept
    <3>3. /\ mode' = "manual" /\ mode \in {"auto", "manual"}
          /\ hotFor' = IF Scorching(r) THEN Lesser(hotFor + 1, RisesToFull) ELSE 0
      BY <2>6 DEF Control
    <3>4. CASE ~Scorching(r)
      BY <2>2, <2>3, <3>2, <3>3, <3>4
    <3>5. CASE Scorching(r)
      <4>1. hotFor \in 0..RisesToFull /\ hotFor' = Lesser(hotFor + 1, RisesToFull)
        BY <1>2, <2>2, <3>3, <3>5 DEF HeatKept
      <4> DEFINE N == RisesToFull
                 R == RiseStep
      <4> HIDE DEF N, R
      <4>2. hotFor' \in 0..N
        <5>1. N \in Nat /\ hotFor \in 0..N /\ hotFor' = Lesser(hotFor + 1, N)
          BY <2>2, <4>1 DEF N
        <5> QED BY <5>1 DEF Lesser
      <4>3. ASSUME settings.crit = Disabled
            PROVE  commanded' >= Lesser(PwmMax, hotFor' * R)
        <5>1. DutyFor(r) = 255 /\ Ceiling(dual) = 255
          BY <2>1, <2>2, <3>5, <4>3, ScorchingCallsForAll
        <5>2. Called(target') = 255
          BY <2>2, <3>2, <5>1
        <5>3. CASE mode = "auto"
          <6>1. commanded' = 255
            BY <2>2, <3>2, <5>1, <5>2, <5>3 DEF Lesser
          <6>2. hotFor' * R \in Int
            BY <2>2, <4>1, <4>2 DEF N, R
          <6> QED BY <2>2, <6>1, <6>2 DEF Lesser
        <5>4. CASE mode = "manual"
          <6>1. /\ commanded \in 1..255 /\ commanded' \in 1..255
                /\ Lesser(255, hotFor * R) <= commanded
            <7>1. commanded \in 1..255 /\ commanded' \in 1..255
              BY <1>2, <2>2, <3>2, <5>4 DEF DutiesKept
            <7>2. commanded >= Lesser(255, hotFor * R)
              BY <1>2, <2>2, <4>3, <5>4 DEF HeatKept, R
            <7>3. hotFor * R \in Int
              BY <2>2, <4>1 DEF R
            <7> QED BY <7>1, <7>2, <7>3 DEF Lesser
          <6>2. Lesser(255, Lesser(commanded + R, 255)) <= commanded'
            BY <3>2, <5>1, <5>2, <5>4 DEF R
          <6>3. N \in Nat /\ R \in 0..255 /\ hotFor \in 0..N /\ hotFor' = Lesser(hotFor + 1, N)
            BY <2>2, <4>1 DEF N, R
          <6>4. Lesser(255, hotFor' * R) <= commanded' /\ hotFor' * R \in Int
            <7> DEFINE x == hotFor * R
                       y == hotFor' * R
            <7>1. x \in Int /\ y \in Int /\ (hotFor' = hotFor \/ hotFor' = hotFor + 1)
              BY <6>3, <4>2 DEF Lesser
            <7>2. y = x \/ y = x + R
              <8>1. (hotFor + 1) * R = hotFor * R + R
                BY <6>3
              <8> QED BY <7>1, <8>1
            <7> HIDE DEF x, y
            <7>3. Lesser(255, x) <= commanded
              BY <6>1 DEF x
            <7>4. Lesser(255, y) <= commanded'
              BY <6>1, <6>2, <6>3, <7>1, <7>2, <7>3 DEF Lesser
            <7> QED BY <7>1, <7>4 DEF y
          <6> QED BY <2>2, <6>1, <6>4 DEF Lesser
        <5> QED BY <3>3, <5>3, <5>4
      <4> QED BY <3>3, <4>2, <4>3 DEF N, R
    <3> QED BY <3>4, <3>5
  <2> QED BY <1>6, <2>4, <2>5, <2>6 DEF SampleStep
<1>7. CASE Tick \/ UNCHANGED vars
  BY <1>4, <1>7 DEF Tick, vars
<1>8. CASE Load
  BY <1>5, <1>8 DEF Load
<1>9. CASE ReadFails
  BY <1>5, <1>9 DEF ReadFails, Maximum
<1> QED BY <1>6, <1>7, <1>8, <1>9, StepCases

\* So the whole invariant holds.
LEMMA CycleStep ==
  ASSUME CycleInv, [Next]_vars
  PROVE  CycleInv'
<1>1. ChoiceKept'
  BY ChoiceStep DEF CycleInv
<1> QED BY <1>1, SamplesStep, DutiesStep, TargetsStep, PaceStep, HeatStep DEF CycleInv

\* Always.
LEMMA CycleAlways == Spec => []CycleInv
BY CycleInit, CycleStep, PTL DEF Spec

-----------------------------------------------------------------------------
(* Types and the table of duties.                                          *)

\* The type invariant holds.
LEMMA CycleTyped == CycleInv => DemandTypeOK
<1> SUFFICES ASSUME CycleInv
             PROVE  DemandTypeOK
  OBVIOUS
<1> USE DEF Loaded
<1>1. ChoiceKept /\ SamplesKept /\ DutiesKept /\ TargetsKept /\ PaceKept /\ HeatKept
  BY DEF CycleInv
<1>2. target \in [Inputs -> {NoTarget} \cup 0..FullPercent]
  <2>1. ASSUME NEW s \in Inputs
        PROVE  target[s] \in {NoTarget} \cup 0..FullPercent
    <3>1. CASE mode \in {"loading", "refused"}
      BY <1>1, <3>1 DEF TargetsKept, NoTargets
    <3>2. CASE mode \in Loaded /\ target[s] # NoTarget
      <4> DEFINE c == CurveFor(settings, s)
      <4>1. 0 <= target[s] /\ target[s] <= Top(c) /\ target[s] \in Int
        BY <1>1, <3>2 DEF TargetsKept, TargetKnown
      <4>2. Top(c) \in Int /\ Top(c) <= FullPercent
        <5>1. SoundCurve(c) /\ 0 \in Int
          BY <1>1, <3>2, CurvesAreSound DEF ChoiceKept
        <5> QED BY <5>1, EvaluateRange
      <4>3. FullPercent \in Int
        BY DEF FullPercent, Percent
      <4> HIDE DEF c
      <4> QED BY <4>1, <4>2, <4>3
    <3> QED BY <1>1, <3>1, <3>2 DEF ChoiceKept
  <2> QED BY <1>1, <2>1 DEF TargetsKept
<1>3. mode \in Loaded => hotFor \in 0..RisesToFull
  <2>1. mode \in Loaded => RisesToFull \in Nat
    BY <1>1, RisesAreFinite DEF ChoiceKept
  <2> QED BY <1>1, <2>1 DEF HeatKept
<1>4. mode \in {"loading", "refused", "auto", "manual", "emergency"}
  BY <1>1 DEF ChoiceKept
<1>5. commanded \in {NoDuty} \cup 1..PwmMax
  BY <1>1 DEF DutiesKept
<1>6. dip \in Values
  BY <1>1 DEF TargetsKept
<1>7. mode \in Loaded => pace \in 0..settings.interval /\ sinceCut \in 0..settings.interval
  BY <1>1 DEF PaceKept
<1> QED BY <1>1, <1>2, <1>3, <1>4, <1>5, <1>6, <1>7 DEF DemandTypeOK, ChoiceKept, SamplesKept

\* Nowhere does the firmware's table ask the GPU fan for more than 58.
LEMMA TableStaysBelow ==
  ASSUME NEW level \in 0..HpFanLevelMax
  PROVE  GpuLevel(level, CpuGpuLevels) <= 58
<1> DEFINE T == CpuGpuLevels
<1>1. /\ Len(T) = 15 /\ T[1] = <<19, 21>> /\ T[2] = <<20, 22>> /\ T[3] = <<22, 23>>
      /\ T[4] = <<24, 26>> /\ T[5] = <<28, 30>> /\ T[6] = <<30, 32>> /\ T[7] = <<34, 36>>
      /\ T[8] = <<36, 38>> /\ T[9] = <<37, 39>> /\ T[10] = <<43, 45>> /\ T[11] = <<47, 49>>
      /\ T[12] = <<50, 52>> /\ T[13] = <<53, 55>> /\ T[14] = <<56, 58>> /\ T[15] = <<60, 58>>
  BY DEF CpuGpuLevels
<1> HIDE DEF T
<1>2. /\ T[1][1] = 19 /\ T[2][1] = 20 /\ T[3][1] = 22 /\ T[4][1] = 24 /\ T[5][1] = 28
      /\ T[6][1] = 30 /\ T[7][1] = 34 /\ T[8][1] = 36 /\ T[9][1] = 37 /\ T[10][1] = 43
      /\ T[11][1] = 47 /\ T[12][1] = 50 /\ T[13][1] = 53 /\ T[14][1] = 56 /\ T[15][1] = 60
  BY <1>1
<1>3. /\ T[1][2] = 21 /\ T[2][2] = 22 /\ T[3][2] = 23 /\ T[4][2] = 26 /\ T[5][2] = 30
      /\ T[6][2] = 32 /\ T[7][2] = 36 /\ T[8][2] = 38 /\ T[9][2] = 39 /\ T[10][2] = 45
      /\ T[11][2] = 49 /\ T[12][2] = 52 /\ T[13][2] = 55 /\ T[14][2] = 58 /\ T[15][2] = 58
  BY <1>1
<1>4. level \in Int /\ level <= 60
  BY DEF HpFanLevelMax
<1>5. CASE level <= 19
  BY <1>1, <1>2, <1>3, <1>4, <1>5 DEF GpuLevel, T
<1>6. CASE level >= 60
  BY <1>1, <1>2, <1>3, <1>4, <1>6 DEF GpuLevel, T
<1>7. CASE 19 < level /\ level < 60
  <2> DEFINE k == CHOOSE k \in 1..14 : T[k][1] <= level /\ level <= T[k + 1][1]
  <2>1. \E j \in 1..14 : T[j][1] <= level /\ level <= T[j + 1][1]
    <3> SUFFICES ASSUME \A j \in 1..14 : ~(T[j][1] <= level /\ level <= T[j + 1][1])
                 PROVE  FALSE
      OBVIOUS
    <3>1. /\ ~(T[1][1] <= level /\ level <= T[2][1]) /\ ~(T[2][1] <= level /\ level <= T[3][1])
          /\ ~(T[3][1] <= level /\ level <= T[4][1]) /\ ~(T[4][1] <= level /\ level <= T[5][1])
          /\ ~(T[5][1] <= level /\ level <= T[6][1]) /\ ~(T[6][1] <= level /\ level <= T[7][1])
          /\ ~(T[7][1] <= level /\ level <= T[8][1]) /\ ~(T[8][1] <= level /\ level <= T[9][1])
          /\ ~(T[9][1] <= level /\ level <= T[10][1]) /\ ~(T[10][1] <= level /\ level <= T[11][1])
          /\ ~(T[11][1] <= level /\ level <= T[12][1])
          /\ ~(T[12][1] <= level /\ level <= T[13][1])
          /\ ~(T[13][1] <= level /\ level <= T[14][1])
          /\ ~(T[14][1] <= level /\ level <= T[15][1])
      OBVIOUS
    <3> QED BY <1>2, <1>4, <1>7, <3>1
  <2>2. k \in 1..14 /\ T[k][1] <= level /\ level <= T[k + 1][1]
    BY <2>1
  <2>3. GpuLevel(level, T) = Between(T[k], T[k + 1], level)
    BY <1>1, <1>2, <1>4, <1>7 DEF GpuLevel
  <2> HIDE DEF k
  <2>4. /\ T[k][1] \in Int /\ T[k + 1][1] \in Int /\ T[k][2] \in Int /\ T[k + 1][2] \in Int
        /\ T[k + 1][1] - T[k][1] \in 1..6 /\ T[k][2] <= 58 /\ T[k + 1][2] <= 58
    <3>1. \/ k = 1 \/ k = 2 \/ k = 3 \/ k = 4 \/ k = 5 \/ k = 6 \/ k = 7 \/ k = 8 \/ k = 9
          \/ k = 10 \/ k = 11 \/ k = 12 \/ k = 13 \/ k = 14
      BY <2>2
    <3> QED BY <1>2, <1>3, <3>1
  <2>5. Between(T[k], T[k + 1], level) <= 58
    <3> DEFINE a == T[k][1]
               b == T[k + 1][1]
               x == T[k][2]
               y == T[k + 1][2]
    <3>1. a \in Int /\ b \in Int /\ x \in Int /\ y \in Int /\ b - a \in 1..6 /\ x <= 58
          /\ y <= 58 /\ a <= level /\ level <= b
      BY <2>2, <2>4
    <3>2. Between(T[k], T[k + 1], level)
            = (2 * x * (b - a) + 2 * (level - a) * (y - x) + (b - a)) \div (2 * (b - a))
      BY DEF Between
    <3> HIDE DEF a, b, x, y
    <3>3. \A span \in 1..6 : \A d \in 0..span :
            (2 * x * span + 2 * d * (y - x) + span) \div (2 * span) <= 58
      <4> SUFFICES ASSUME NEW span \in 1..6, NEW d \in 0..span
                   PROVE  (2 * x * span + 2 * d * (y - x) + span) \div (2 * span) <= 58
        OBVIOUS
      <4>1. CASE span = 1
        BY <3>1, <4>1, Z3
      <4>2. CASE span = 2
        BY <3>1, <4>2, Z3
      <4>3. CASE span = 3
        BY <3>1, <4>3, Z3
      <4>4. CASE span = 4
        BY <3>1, <4>4, Z3
      <4>5. CASE span = 5
        BY <3>1, <4>5, Z3
      <4>6. CASE span = 6
        BY <3>1, <4>6, Z3
      <4> QED BY <4>1, <4>2, <4>3, <4>4, <4>5, <4>6
    <3>4. level - a \in 0..(b - a)
      BY <1>4, <3>1
    <3> QED BY <3>1, <3>2, <3>3, <3>4
  <2> QED BY <2>3, <2>5 DEF T
<1> QED BY <1>4, <1>5, <1>6, <1>7

\* A Manual duty within the ceiling keeps the GPU fan in the table.
LEMMA CeilingKeepsTable ==
  ASSUME dual \in BOOLEAN, NEW pwm \in 1..PwmMax, pwm <= Ceiling(dual)
  PROVE  GpuRequest(pwm, dual) <= 58
<1>1. CASE dual
  <2>1. PwmToLevel(pwm) \in 0..HpFanLevelMax
    BY Z3 DEF PwmToLevel, Clamp, PwmMax, HpFanLevelMax
  <2> QED BY <1>1, <2>1, TableStaysBelow DEF GpuRequest
<1>2. CASE ~dual
  <2>1. GpuRequest(pwm, dual) = GpuRequest(pwm, FALSE) /\ Ceiling(dual) = Ceiling(FALSE)
    BY <1>2 DEF GpuRequest, Ceiling, ManualMaxLevel
  <2>2. pwm \in 0..PwmMax /\ pwm <= Ceiling(FALSE) + 2
    <3>1. Ceiling(FALSE) = 238 /\ PwmMax = 255
      BY DutyRange
    <3>2. Ceiling(dual) = 238
      BY <2>1, <3>1
    <3>3. pwm \in 1..255 /\ pwm <= 238
      BY <3>1, <3>2
    <3> DEFINE top == Ceiling(FALSE)
    <3>4. top = 238
      BY <3>1
    <3> HIDE DEF top
    <3>5. pwm <= top + 2
      BY <3>3, <3>4
    <3>6. pwm \in 0..PwmMax
      BY <3>1, <3>3
    <3> QED BY <3>5, <3>6 DEF top
  <2> QED BY <2>1, <2>2, CeilingIsTight
<1> QED BY <1>1, <1>2

\* What the ceiling takes off is rounding: no target of an accepted configuration
\* asks for a level above it.
LEMMA CeilingTakesRounding ==
  ASSUME config \in DOMAIN Offered, dual \in BOOLEAN, Validate(settings),
         InterfaceAllows(settings, dual), target \in [Inputs -> Int],
         \A s \in Inputs : TargetKnown(target, s),
         commanded \in 1..PwmMax, commanded <= Ceiling(dual)
  PROVE  LET duty == Desired(target, commanded)
         IN  PwmToLevel(Lesser(duty, Ceiling(dual))) = PwmToLevel(duty)
<1> DEFINE duty == Desired(target, commanded)
           top == Ceiling(dual)
           call == Called(target)
<1>1. FullPercent \in Int
  BY DEF FullPercent, Percent
<1>2. ASSUME NEW s \in Active(settings)
      PROVE  /\ target[s] \in Int /\ target[s] <= FullPercent
             /\ Top(CurveFor(settings, s)) \in Int /\ 0 <= Top(CurveFor(settings, s))
             /\ target[s] <= Top(CurveFor(settings, s))
  <2> DEFINE c == CurveFor(settings, s)
  <2>1. s \in Inputs /\ target[s] \in Int
    BY SettingsAreSound
  <2>2. Top(c) \in Int /\ Top(c) <= FullPercent /\ 0 <= Top(c)
    <3>1. SoundCurve(c) /\ 0 \in Int
      BY CurvesAreSound
    <3>2. /\ Evaluate(c, 0) \in Int /\ 0 <= Evaluate(c, 0) /\ Evaluate(c, 0) <= Top(c)
          /\ Top(c) \in Int /\ Top(c) <= FullPercent
      BY <3>1, EvaluateRange
    <3> HIDE DEF c
    <3> QED BY <3>2
  <2>3. target[s] # NoTarget => target[s] <= Top(c)
    BY <2>1 DEF TargetKnown
  <2>4. target[s] = NoTarget => target[s] <= Top(c)
    BY <2>2 DEF NoTarget
  <2> HIDE DEF c
  <2> QED BY <1>1, <2>1, <2>2, <2>3, <2>4 DEF c
<1>3. /\ duty \in 1..255 /\ duty <= Greater(1, Greater(call, commanded)) /\ call \in 0..255
      /\ PwmMax = 255 /\ commanded \in 1..255 /\ top \in Int /\ 238 <= top /\ top <= 255
  <2>1. commanded # NoDuty
    BY DutyRange DEF NoDuty
  <2>2. commanded \in {NoDuty} \cup 1..PwmMax
    OBVIOUS
  <2>3. \A s \in Active(settings) : target[s] \in Int /\ target[s] <= FullPercent
    BY <1>2
  <2>4. PwmMax = 255 /\ top \in Int /\ 238 <= top /\ top <= 255
    BY DutyRange, CeilingRange
  <2>5. duty \in 1..PwmMax /\ duty <= Greater(1, Greater(call, commanded))
    BY <2>1, <2>2, <2>3, DesiredRange
  <2>6. call \in 0..PwmMax
    BY <2>3, CalledRange
  <2> HIDE DEF duty, call, top
  <2> QED BY <2>4, <2>5, <2>6
<1>4. CASE dual
  <2>1. top = 255
    BY <1>4, DutyRange DEF Ceiling, ManualMaxLevel
  <2> HIDE DEF duty
  <2>2. Lesser(duty, 255) = duty
    BY <1>3 DEF Lesser
  <2> QED BY <2>1, <2>2 DEF duty
<1>5. CASE ~dual
  <2>1. top = 238
    BY <1>5, DutyRange DEF Ceiling, ManualMaxLevel
  <2>2. PICK s \in Active(settings) : Winning(target) = target[s]
    BY <1>2, WinningIsHighest
  <2> DEFINE a == PercentToPwm(target[s])
             b == PercentToPwm(Top(CurveFor(settings, s)))
  <2>3. a \in 0..255 /\ b \in 0..255 /\ a <= b /\ FloorDuty \in 0..255
    BY <1>2, DutyRange, ConversionsAreMonotone, SettingsAreSound
  <2>4. PwmToLevel(b) <= 56 /\ PwmToLevel(FloorDuty) <= 56
    BY <1>5 DEF InterfaceAllows, PercentToLevel, SinglePwmMaxLevel, FloorDuty
  <2>5. call = Greater(a, FloorDuty)
    BY <2>2 DEF Called
  <2> HIDE DEF a, b, duty, call, top
  <2>6. PwmToLevel(call) <= 56
    <3>1. call \in {a, FloorDuty}
      BY <2>3, <2>5 DEF Greater
    <3>2. PwmToLevel(a) <= PwmToLevel(b)
      BY <2>3, ConversionsAreMonotone
    <3>3. PwmToLevel(a) \in Int /\ PwmToLevel(b) \in Int
      <4>1. \A x \in 0..255 : PwmToLevel(x) \in Int
        BY Z3 DEF PwmToLevel, Clamp, PwmMax
      <4> QED BY <2>3, <4>1
    <3>4. PwmToLevel(a) <= 56
      BY <2>3, <2>4, <3>2, <3>3
    <3> QED BY <2>4, <3>1, <3>4
  <2>7. commanded \in 1..238 /\ call \in 0..255 /\ duty \in 1..255
    BY <1>3, <2>1 DEF top
  <2>8. PwmToLevel(Lesser(duty, 238)) = PwmToLevel(duty)
    <3>1. CASE duty <= 238
      BY <2>7, <3>1 DEF Lesser
    <3>2. CASE duty > 238
      <4>1. duty <= call
        BY <1>3, <2>7, <3>2 DEF Greater
      <4>2. PwmToLevel(238) <= PwmToLevel(duty) /\ PwmToLevel(duty) <= PwmToLevel(call)
        BY <2>7, <3>2, <4>1, ConversionsAreMonotone
      <4>3. PwmToLevel(238) = 56 /\ \A x \in 0..255 : PwmToLevel(x) \in Int
        BY Z3 DEF PwmToLevel, Clamp, PwmMax
      <4>4. PwmToLevel(duty) \in Int /\ PwmToLevel(call) \in Int
        BY <2>7, <4>3
      <4>5. PwmToLevel(duty) = PwmToLevel(238)
        BY <2>6, <4>2, <4>3, <4>4
      <4>6. Lesser(duty, 238) = 238
        BY <2>7, <3>2 DEF Lesser
      <4> QED BY <4>5, <4>6
    <3> QED BY <2>7, <3>1, <3>2
  <2> QED BY <2>1, <2>8 DEF duty, top
<1> QED BY <1>4, <1>5

\* For every accepted configuration, whatever its curves, floor and limits, and on
\* either interface: Manual never asks for a GPU level outside the firmware's
\* table, and the ceiling changes no fan level.
THEOREM DutiesStay == Spec => []DutiesStayInTable
<1>1. CycleInv => DutiesStayInTable
  <2> SUFFICES ASSUME CycleInv
               PROVE  DutiesStayInTable
    OBVIOUS
  <2>1. DemandTypeOK
    BY CycleTyped
  <2>2. ASSUME mode = "manual"
        PROVE  /\ commanded \in 1..Ceiling(dual) /\ GpuRequest(commanded, dual) <= 58
               /\ LET duty == Desired(target, commanded)
                  IN  PwmToLevel(Lesser(duty, Ceiling(dual))) = PwmToLevel(duty)
    <3>1. /\ config \in DOMAIN Offered /\ dual \in BOOLEAN /\ Validate(settings)
          /\ InterfaceAllows(settings, dual)
      BY <2>2 DEF CycleInv, ChoiceKept, Loaded
    <3>2. commanded \in 1..PwmMax /\ commanded <= Ceiling(dual)
      BY <2>2 DEF CycleInv, DutiesKept
    <3>3. target \in [Inputs -> Int] /\ \A s \in Inputs : TargetKnown(target, s)
      BY <2>2 DEF CycleInv, TargetsKept, Loaded
    <3>4. Ceiling(dual) \in Int /\ PwmMax = 255
      BY <3>1, CeilingRange, DutyRange
    <3>5. commanded \in 1..Ceiling(dual)
      BY <3>2, <3>4
    <3> QED BY <3>1, <3>2, <3>3, <3>5, CeilingKeepsTable, CeilingTakesRounding
  <2> QED BY <2>1, <2>2 DEF DutiesStayInTable
<1> QED BY CycleAlways, <1>1, PTL

\* For every accepted configuration: where the curves are the only way to full
\* speed, lasting heat gets there after as many samples as rise steps fit at most.
THEOREM LastingHeatIsAnswered == Spec => []HotMachineReachesFullSpeed
<1>1. CycleInv => HotMachineReachesFullSpeed
  <2> SUFFICES ASSUME CycleInv, mode = "manual", settings.crit = Disabled, RiseStep > 0,
                      hotFor = RisesToFull
               PROVE  commanded = PwmMax
    BY DEF HotMachineReachesFullSpeed
  <2>1. Validate(settings) /\ config \in DOMAIN Offered
    BY DEF CycleInv, ChoiceKept, Loaded
  <2>2. /\ RisesToFull \in Nat /\ RisesToFull * RiseStep >= 255 /\ PwmMax = 255
        /\ RiseStep \in 0..255
    BY <2>1, RisesAreFinite, DutyRange, SettingsAreSound
  <2>3. commanded \in 1..255 /\ commanded >= Lesser(255, RisesToFull * RiseStep)
    BY <2>2 DEF CycleInv, DutiesKept, HeatKept
  <2>4. RisesToFull * RiseStep \in Int
    BY <2>2
  <2> QED BY <2>2, <2>3, <2>4 DEF Lesser
<1> QED BY CycleAlways, <1>1, PTL

-----------------------------------------------------------------------------
(* Pacing and hunting.                                                     *)

\* For every accepted configuration: from one sample to the next in Manual the duty
\* follows the raw readings or rises by the full step towards them, falls by no more
\* than the fall step, and not twice within a control interval.
THEOREM DutyIsPaced == Spec => RisesAtOnceFallsInPace
<1> DEFINE Paced ==
             mode = "manual" /\ mode' = "manual" /\ pace' >= pace
               => /\ commanded' >= Lesser(Ceiling(dual), Lesser(commanded + RiseStep, asked'))
                  /\ commanded' >= commanded - FallStep
                  /\ commanded' < commanded => sinceCut = settings.interval
<1>1. ASSUME CycleInv, [Next]_vars
      PROVE  Paced \/ UNCHANGED vars
  <2> SUFFICES ASSUME ~UNCHANGED vars, mode = "manual", mode' = "manual", pace' >= pace
               PROVE  /\ commanded' >= Lesser(Ceiling(dual), Lesser(commanded + RiseStep, asked'))
                      /\ commanded' >= commanded - FallStep
                      /\ commanded' < commanded => sinceCut = settings.interval
    OBVIOUS
  <2>1. /\ config \in DOMAIN Offered /\ dual \in BOOLEAN /\ Validate(settings) /\ DutiesKept
        /\ target \in [Inputs -> Int] /\ \A s \in Inputs : TargetKnown(target, s)
        /\ pace \in 0..settings.interval /\ sinceCut \in 0..settings.interval
        /\ pace + sinceCut >= settings.interval
    BY <1>1 DEF CycleInv, ChoiceKept, TargetsKept, PaceKept, Loaded
  <2>2. settings.interval \in Nat /\ PwmMax = 255 /\ RiseStep \in 0..255 /\ FallStep \in 0..255
    BY <2>1, SettingsAreSound, DutyRange
  <2>3. ~Load /\ ~Tick /\ ~ReadFails
    <3>1. ~Tick
      BY <2>1, <2>2 DEF Tick
    <3> QED BY <3>1 DEF Load, ReadFails, Maximum
  <2>4. PICK r \in Readings : \E f \in Smoothed(r) : SampleStep(r, f) /\ asked' = DutyFor(r)
    BY <1>1, <2>3, StepCases
  <2>5. PICK f \in Smoothed(r) : SampleStep(r, f) /\ asked' = DutyFor(r)
    BY <2>4
  <2>6. Control(r, f)
    BY <2>5 DEF SampleStep, SelectMaximum, Maximum, LeaveEmergency, StayAuto, RestoreAuto
  <2>7. /\ DutyFor(r) <= Called(target') /\ Called(target') \in 0..PwmMax
        /\ commanded' \in 1..PwmMax
        /\ commanded - FallStep <= commanded'
        /\ Lesser(Ceiling(dual), Lesser(commanded + RiseStep, Called(target'))) <= commanded'
        /\ commanded' < commanded => pace = 0
    BY <2>1, <2>6, ControlDuty
  <2>8. /\ asked' \in 0..255 /\ commanded \in 1..255 /\ commanded' \in 1..255
        /\ asked' <= Called(target') /\ Called(target') \in 0..255
        /\ Ceiling(dual) \in Int
    <3>1. DutyFor(r) \in 0..PwmMax /\ Ceiling(dual) \in Int
      BY <2>1, DutyForIs, ReadingsAreValues, CeilingRange
    <3>2. commanded \in 1..255
      BY <2>1, <2>2 DEF DutiesKept
    <3> QED BY <2>2, <2>5, <2>7, <3>1, <3>2
  <2>9. commanded' >= Lesser(Ceiling(dual), Lesser(commanded + RiseStep, asked'))
    <3> DEFINE top == Ceiling(dual)
               call == Called(target')
               ask == asked'
               was == commanded
               is == commanded'
               R == RiseStep
    <3>1. /\ ask \in 0..255 /\ was \in 1..255 /\ is \in 1..255 /\ ask <= call /\ call \in 0..255
          /\ top \in Int /\ R \in 0..255 /\ Lesser(top, Lesser(was + R, call)) <= is
      BY <2>2, <2>7, <2>8
    <3> HIDE DEF top, call, ask, was, is, R
    <3>2. is >= Lesser(top, Lesser(was + R, ask))
      BY <3>1 DEF Lesser
    <3> QED BY <3>2 DEF top, ask, was, is, R
  <2>10. commanded' >= commanded - FallStep
    BY <2>2, <2>7, <2>8
  <2>11. commanded' < commanded => sinceCut = settings.interval
    BY <2>1, <2>2, <2>7
  <2> QED BY <2>9, <2>10, <2>11
<1>2. CycleInv /\ [Next]_vars => [Paced]_vars
  BY <1>1
<1>3. [][Paced]_vars => RisesAtOnceFallsInPace
  BY PTL DEF RisesAtOnceFallsInPace
<1> QED BY CycleAlways, <1>2, <1>3, PTL DEF Spec

\* The width of a sensor's hysteresis is that of its narrowest step.
LEMMA WidthIsNarrowest ==
  ASSUME config \in DOMAIN Offered, Validate(settings), NEW s \in Inputs
  PROVE  LET c == CurveFor(settings, s)
         IN  /\ Width(s) \in Int
             /\ HasFalls(c) => \A k \in 2..Len(c.rise) : Width(s) <= c.rise[k] - c.fall[k]
             /\ ~HasFalls(c) => Width(s) = settings.hysteresis
<1> DEFINE c == CurveFor(settings, s)
           gaps == { c.rise[k] - c.fall[k] : k \in 2..Len(c.rise) }
<1>1. SoundCurve(c) /\ settings.hysteresis \in Int
  BY CurvesAreSound, SettingsAreSound
<1>2. CASE ~HasFalls(c)
  BY <1>1, <1>2 DEF Width
<1>3. CASE HasFalls(c)
  <2>1. Len(c.rise) \in Nat /\ Len(c.rise) >= 2
    BY <1>1, CurvePoints
  <2>2. ASSUME NEW k \in 2..Len(c.rise)
        PROVE  c.rise[k] - c.fall[k] \in Nat
    <3>1. k \in 1..Len(c.rise)
      BY <2>1
    <3>2. c.rise[k] \in Int /\ c.fall[k] \in Int /\ c.fall[k] < c.rise[k]
      BY <1>1, <1>3, <3>1, CurvePoints, FallPoints
    <3> QED BY <3>2
  <2>3. gaps \subseteq Nat /\ gaps # {}
    <3>1. 2 \in 2..Len(c.rise)
      BY <2>1
    <3> QED BY <2>2, <3>1
  <2>4. \E g \in gaps : \A h \in gaps : g <= h
    <3> HIDE DEF gaps
    <3> QED BY <2>3, Least
  <2>5. Width(s) = CHOOSE g \in gaps : \A h \in gaps : g <= h
    BY <1>3 DEF Width
  <2>6. Width(s) \in gaps /\ \A h \in gaps : Width(s) <= h
    <3> HIDE DEF gaps
    <3> QED BY <2>4, <2>5
  <2>7. ASSUME NEW k \in 2..Len(c.rise)
        PROVE  Width(s) <= c.rise[k] - c.fall[k]
    BY <2>6
  <2>8. Width(s) \in Int
    <3> HIDE DEF gaps
    <3>1. Width(s) \in Nat
      BY <2>3, <2>6, Zenon
    <3> QED BY <3>1
  <2> QED BY <1>3, <2>7, <2>8
<1> QED BY <1>2, <1>3

\* For every accepted configuration, whatever the shapes of its curves: after a
\* target has fallen it does not rise again before the temperature has risen by
\* more than the hysteresis.
THEOREM FansDoNotHunt == Spec => NoHunting
<1> DEFINE Settled ==
             mode = "manual" /\ mode' = "manual"
               => \A s \in Inputs :
                    dip[s] # Gone /\ target'[s] > target[s] => heat'[s] - dip[s] > Width(s)
<1>1. ASSUME CycleInv, [Next]_vars
      PROVE  Settled
  <2> SUFFICES ASSUME mode = "manual", mode' = "manual", NEW s \in Inputs,
                      dip[s] # Gone, target'[s] > target[s]
               PROVE  heat'[s] - dip[s] > Width(s)
    OBVIOUS
  <2>1. /\ config \in DOMAIN Offered /\ dual \in BOOLEAN /\ Validate(settings)
        /\ target \in [Inputs -> Int] /\ dip \in Values
        /\ \A a \in Inputs : TargetKnown(target, a) /\ DipKnown(dip, target, a)
    BY <1>1 DEF CycleInv, ChoiceKept, TargetsKept, Loaded
  <2>2. target' # target
    <3>1. target[s] \in Int
      BY <2>1
    <3> QED BY <3>1
  <2>3. ~Load /\ ~Tick /\ ~ReadFails /\ ~UNCHANGED vars
    BY <2>2 DEF Load, Tick, ReadFails, vars
  <2>4. PICK r \in Readings : \E f \in Smoothed(r) : SampleStep(r, f)
    BY <1>1, <2>3, StepCases
  <2>5. PICK f \in Smoothed(r) : SampleStep(r, f)
    BY <2>4
  <2>6. Control(r, f)
    BY <2>5 DEF SampleStep, SelectMaximum, Maximum, LeaveEmergency, StayAuto, RestoreAuto
  <2> DEFINE h == Evaluated(f, r)
             c == CurveFor(settings, s)
             y == settings.hysteresis
  <2>7. heat' = h /\ target' = Targets(h, target) /\ h \in Values
    BY <2>1, <2>6, EvaluatedAreValues DEF Control
  <2> HIDE DEF h
  <2>8. /\ h[s] \in Int /\ dip[s] \in Int /\ target[s] \in Int /\ target'[s] \in Int
        /\ NoTarget \in Int
    <3>1. target' \in [Inputs -> Int]
      BY <2>1, <2>7, NewTargets
    <3> QED BY <2>1, <2>7, <3>1 DEF Values, Gone, NoTarget
  <2>9. /\ target[s] # NoTarget /\ Dipped(c, dip[s], target[s], y)
        /\ 0 <= target[s]
    BY <2>1 DEF DipKnown, TargetKnown
  <2>10. target'[s] # NoTarget
    BY <2>8, <2>9 DEF NoTarget
  <2>11. target'[s] = Evaluate(c, h[s])
    BY <2>1, <2>7, <2>9, <2>10, NewTargets
  <2>12. SoundCurve(c) /\ y \in Nat
    BY <2>1, CurvesAreSound, SettingsAreSound
  <2>13. target[s] < Evaluate(c, h[s])
    BY <2>8, <2>11
  <2>14. /\ HasFalls(c) => \E k \in 2..Len(c.rise) : h[s] - dip[s] > c.rise[k] - c.fall[k]
         /\ ~HasFalls(c) => h[s] - dip[s] > y
    BY <2>8, <2>9, <2>12, <2>13, DipIsWide
  <2>15. /\ Width(s) \in Int
         /\ HasFalls(c) => \A k \in 2..Len(c.rise) : Width(s) <= c.rise[k] - c.fall[k]
         /\ ~HasFalls(c) => Width(s) = y
    BY <2>1, WidthIsNarrowest
  <2>16. CASE HasFalls(c)
    <3>1. PICK k \in 2..Len(c.rise) : h[s] - dip[s] > c.rise[k] - c.fall[k]
      BY <2>14, <2>16
    <3>2. c.rise[k] \in Int /\ c.fall[k] \in Int
      <4>1. k \in 1..Len(c.rise)
        BY <2>12, CurvePoints
      <4> QED BY <2>12, <2>16, <4>1, CurvePoints, FallPoints
    <3>3. Width(s) <= c.rise[k] - c.fall[k]
      BY <2>15, <2>16
    <3> QED BY <2>7, <2>8, <2>15, <3>1, <3>2, <3>3
  <2>17. CASE ~HasFalls(c)
    BY <2>7, <2>12, <2>14, <2>15, <2>17
  <2> QED BY <2>16, <2>17
<1>2. CycleInv /\ [Next]_vars => [Settled]_vars
  BY <1>1
<1>3. [][Settled]_vars => NoHunting
  BY PTL DEF NoHunting
<1> QED BY CycleAlways, <1>2, <1>3, PTL DEF Spec

-----------------------------------------------------------------------------
(* A bank of comparators.                                                  *)

\* A new target on a curve with falling thresholds has the steps below it switched
\* one by one.
LEMMA SwitchedBySteps ==
  ASSUME NEW c, SoundCurve(c), HasFalls(c), NEW t \in Int, NEW previous \in Int, NEW h,
         previous # NoTarget => LevelOf(c, previous)
  PROVE  LET q == HeldTarget(c, t, previous, h)
         IN  /\ StepOf(c, q) \in 1..Len(c.rise)
             /\ \A k \in 2..Len(c.rise) :
                  k <= StepOf(c, q)
                    <=> \/ t >= c.rise[k]
                        \/ /\ previous # NoTarget /\ k <= StepOf(c, previous)
                           /\ t >= c.fall[k]
<1> DEFINE n == Len(c.rise)
           m == StepAt(c, t)
           q == HeldTarget(c, t, previous, h)
           e == Evaluate(c, t)
<1>1. /\ n \in Nat /\ m \in 1..n /\ (m = 1 \/ t >= c.rise[m])
      /\ \A j \in m + 1..n : t < c.rise[j]
  BY StepReached, CurvePoints
<1>2. e = c.pct[m] /\ e \in Int
  BY <1>1, FallPoints, CurvePoints DEF Evaluate
<1>3. ASSUME NEW k \in 2..n
      PROVE  k <= m <=> t >= c.rise[k]
  <2>1. k \in 1..n /\ k \in Int /\ m \in Int /\ c.rise[k] \in Int /\ c.rise[m] \in Int
    BY <1>1, CurvePoints
  <2>2. CASE k = m
    BY <1>1, <2>1, <2>2
  <2>3. CASE k < m
    <3>1. c.rise[k] < c.rise[m] /\ t >= c.rise[m]
      BY <1>1, <2>1, <2>3, CurvePoints
    <3> QED BY <2>1, <2>3, <3>1
  <2>4. CASE m < k
    <3>1. k \in m + 1..n
      BY <1>1, <2>1, <2>4
    <3>2. t < c.rise[k]
      BY <1>1, <3>1
    <3> QED BY <2>1, <2>4, <3>2
  <2> QED BY <2>1, <2>2, <2>3, <2>4
<1>4. CASE previous = NoTarget
  <2>1. q = c.pct[m]
    BY <1>2, <1>4, HeldRise
  <2>2. StepOf(c, q) = m
    BY <1>1, <2>1, StepOfLevel
  <2> HIDE DEF q, m, n
  <2> QED BY <1>1, <1>3, <1>4, <2>2 DEF q, n
<1>5. CASE previous # NoTarget
  <2>1. PICK K \in 1..n : c.pct[K] = previous
    BY <1>5 DEF LevelOf
  <2>2. StepOf(c, previous) = K
    BY <2>1, StepOfLevel
  <2>3. CASE e >= previous
    <3>1. q = c.pct[m]
      BY <1>2, <2>3, HeldRise
    <3>2. StepOf(c, q) = m
      BY <1>1, <3>1, StepOfLevel
    <3>3. K <= m
      <4> SUFFICES ASSUME m < K
                   PROVE  FALSE
        BY <1>1, <2>1
      <4>1. c.pct[m] < c.pct[K]
        BY <1>1, <2>1, FallPoints
      <4> QED BY <1>2, <2>1, <2>3, <4>1
    <3>4. ASSUME NEW k \in 2..n
          PROVE  k <= m <=> \/ t >= c.rise[k]
                            \/ k <= K /\ t >= c.fall[k]
      <4>1. k <= K => k <= m
        BY <1>1, <3>3
      <4> QED BY <1>3, <4>1
    <3> HIDE DEF q, m, n, e
    <3> QED BY <1>1, <1>5, <2>2, <3>2, <3>4 DEF q, n
  <2>4. CASE e < previous
    <3>1. PICK j \in 1..K : /\ q = c.pct[j] /\ m <= j /\ (j = 1 \/ t >= c.fall[j])
                            /\ \A i \in j + 1..K : t < c.fall[i]
      BY <2>1, <2>4, HeldBySteps
    <3>2. j \in 1..n /\ j \in Int /\ K \in Int /\ j <= K
      BY <1>1, <2>1, <3>1
    <3>3. StepOf(c, q) = j
      BY <3>1, <3>2, StepOfLevel
    <3>4. ASSUME NEW k \in 2..n
          PROVE  k <= j <=> \/ t >= c.rise[k]
                            \/ k <= K /\ t >= c.fall[k]
      <4>1. k \in 1..n /\ k \in Int /\ c.fall[k] \in Int /\ c.fall[j] \in Int /\ m \in Int
        BY <1>1, <3>2, FallPoints
      <4>2. t >= c.rise[k] => k <= j
        BY <1>3, <3>1, <3>2, <4>1
      <4>3. k <= K /\ t >= c.fall[k] => k <= j
        <5> SUFFICES ASSUME k <= K, t >= c.fall[k], j < k
                     PROVE  FALSE
          BY <3>2, <4>1
        <5>1. k \in j + 1..K
          BY <3>2, <4>1
        <5>2. t < c.fall[k]
          BY <3>1, <5>1
        <5> QED BY <4>1, <5>2
      <4>4. k <= j => k <= K /\ t >= c.fall[k]
        <5> SUFFICES ASSUME k <= j
                     PROVE  k <= K /\ t >= c.fall[k]
          OBVIOUS
        <5>1. t >= c.fall[j] /\ k <= K
          BY <3>1, <3>2, <4>1
        <5>2. CASE k = j
          BY <5>1, <5>2
        <5>3. CASE k < j
          <6>1. c.fall[k] < c.fall[j]
            BY <3>2, <4>1, <5>3, FallPoints
          <6> QED BY <4>1, <5>1, <6>1
        <5> QED BY <3>2, <4>1, <5>2, <5>3
      <4> QED BY <4>2, <4>3, <4>4
    <3> HIDE DEF q, m, n, e
    <3> QED BY <1>5, <2>2, <3>2, <3>3, <3>4 DEF q, n
  <2> QED BY <1>2, <2>3, <2>4
<1> QED BY <1>4, <1>5

\* The comparators of an input that are on, with a target.
OnWith(targets, s) ==
  IF targets[s] = NoTarget THEN {} ELSE 2..StepOf(CurveFor(settings, s), targets[s])

\* A sample switches each comparator by its own temperatures.
LEMMA SampleSwitches ==
  ASSUME config \in DOMAIN Offered, Validate(settings), NEW h \in Values,
         NEW previous \in [Inputs -> Int], \A s \in Inputs : TargetKnown(previous, s),
         NEW i \in Controlled
  PROVE  OnWith(Targets(h, previous), i) =
           IF h[i] = Gone THEN {}
           ELSE { k \in 2..Len(CurveFor(settings, i).rise) :
                    \/ h[i] >= CurveFor(settings, i).rise[k]
                    \/ k \in OnWith(previous, i) /\ h[i] >= CurveFor(settings, i).fall[k] }
<1> DEFINE c == CurveFor(settings, i)
           n == Len(c.rise)
           q == Targets(h, previous)[i]
           p == previous[i]
<1>1. i \in Inputs /\ HasFalls(c)
  BY DEF Controlled
<1>2. SoundCurve(c) /\ h[i] \in Int /\ p \in Int /\ n \in Nat
  <2>1. SoundCurve(c)
    BY CurvesAreSound
  <2>2. h[i] \in Int /\ p \in Int
    BY <1>1 DEF Values, Gone
  <2> QED BY <2>1, <2>2, CurvePoints
<1>3. CASE h[i] = Gone
  BY <1>1, <1>3 DEF Targets, OnWith
<1>4. CASE h[i] # Gone
  <2>1. q = HeldTarget(c, h[i], p, settings.hysteresis) /\ q # NoTarget
    <3>1. q # NoTarget
      BY <1>1, <1>4, NewTargets
    <3> QED BY <1>1, <1>4, <3>1 DEF Targets
  <2>2. p # NoTarget => LevelOf(c, p)
    BY <1>1 DEF TargetKnown
  <2>3. /\ StepOf(c, q) \in 1..n
        /\ \A k \in 2..n :
             k <= StepOf(c, q)
               <=> \/ h[i] >= c.rise[k]
                   \/ p # NoTarget /\ k <= StepOf(c, p) /\ h[i] >= c.fall[k]
    BY <1>1, <1>2, <2>1, <2>2, SwitchedBySteps
  <2>4. p # NoTarget => StepOf(c, p) \in 1..n
    <3> SUFFICES ASSUME p # NoTarget
                 PROVE  StepOf(c, p) \in 1..n
      OBVIOUS
    <3>1. PICK K \in 1..n : c.pct[K] = p
      BY <1>1, <2>2 DEF LevelOf
    <3>2. StepOf(c, c.pct[K]) = K
      BY <1>1, <1>2, StepOfLevel
    <3> QED BY <3>1, <3>2
  <2>5. /\ OnWith(Targets(h, previous), i) = 2..StepOf(c, q)
        /\ OnWith(previous, i) = IF p = NoTarget THEN {} ELSE 2..StepOf(c, p)
    BY <2>1 DEF OnWith
  <2> HIDE DEF c, n, q, p
  <2>6. ASSUME NEW k \in 2..n
        PROVE  k \in OnWith(previous, i) <=> p # NoTarget /\ k <= StepOf(c, p)
    BY <1>2, <2>4, <2>5
  <2>7. 2..StepOf(c, q) =
          { k \in 2..n : h[i] >= c.rise[k] \/ (k \in OnWith(previous, i) /\ h[i] >= c.fall[k]) }
    <3>1. 2..StepOf(c, q) = { k \in 2..n : k <= StepOf(c, q) }
      BY <1>2, <2>3
    <3>2. \A k \in 2..n :
            k <= StepOf(c, q)
              <=> h[i] >= c.rise[k] \/ (k \in OnWith(previous, i) /\ h[i] >= c.fall[k])
      BY <2>3, <2>6
    <3> QED BY <3>1, <3>2
  <2> QED BY <1>4, <2>5, <2>7 DEF c, n
<1> QED BY <1>3, <1>4

\* From a reset only the rising temperatures count.
LEMMA ResetSwitches ==
  ASSUME config \in DOMAIN Offered, Validate(settings), NEW h \in Values, NEW i \in Controlled
  PROVE  OnWith(Targets(h, NoTargets), i) =
           IF h[i] = Gone THEN {}
           ELSE { k \in 2..Len(CurveFor(settings, i).rise) : h[i] >= CurveFor(settings, i).rise[k] }
<1>1. OnWith(NoTargets, i) = {}
  BY DEF OnWith, NoTargets, Controlled
<1>2. \A s \in Inputs : TargetKnown(NoTargets, s)
  BY NoTargetsKnown
<1> DEFINE c == CurveFor(settings, i)
<1> HIDE DEF c
<1>3. OnWith(Targets(h, NoTargets), i) =
        IF h[i] = Gone THEN {}
        ELSE { k \in 2..Len(c.rise) :
                 h[i] >= c.rise[k] \/ (k \in OnWith(NoTargets, i) /\ h[i] >= c.fall[k]) }
  BY <1>2, NoTargetsKnown, SampleSwitches DEF c
<1> QED BY <1>1, <1>3 DEF c

\* The bank in terms of the inputs.
TheBank ==
  [s \in Controlled |-> [rise |-> CurveFor(settings, s).rise, fall |-> CurveFor(settings, s).fall]]
TheHeat == [s \in Controlled |-> heat[s]]
TheOn == [s \in Controlled |-> OnWith(target, s)]
Driving == mode = "manual"

\* It follows the step.
LEMMA BankFollows ==
  ASSUME chosen' = chosen
  PROVE  /\ TheBank' = TheBank /\ Controlled' = Controlled
         /\ TheHeat' = [s \in Controlled |-> heat'[s]]
         /\ TheOn' = [s \in Controlled |-> OnWith(target', s)]
<1>1. settings' = settings /\ Inputs' = Inputs
  BY ChoiceStays
<1>2. Controlled' = Controlled
  BY <1>1 DEF Controlled
<1>3. TheBank' = TheBank
  BY <1>1, <1>2 DEF TheBank
<1>4. TheOn' = [s \in Controlled |-> OnWith(target', s)]
  BY <1>1, <1>2 DEF TheOn, OnWith
<1> QED BY <1>2, <1>3, <1>4 DEF TheHeat

\* The comparators in their own terms.
Switched(i) ==
  IF heat'[i] < 0 THEN {}
  ELSE { k \in 2..Len(TheBank[i].rise) :
           \/ heat'[i] >= TheBank[i].rise[k]
           \/ k \in TheOn[i] /\ heat'[i] >= TheBank[i].fall[k] }

\* Every step follows the inputs, starts to, rests or changes nothing.
LEMMA StepSwitches ==
  ASSUME CycleInv, [Next]_vars
  PROVE  \/ /\ Driving' /\ TheOn' = [i \in Controlled |-> Switched(i)]
         \/ /\ ~Driving /\ Driving'
            /\ TheOn' = [i \in Controlled |->
                           { k \in 2..Len(TheBank[i].rise) :
                               heat'[i] >= 0 /\ heat'[i] >= TheBank[i].rise[k] }]
         \/ ~Driving' /\ TheOn' \in {TheOn, [i \in Controlled |-> {}]}
         \/ Driving' = Driving /\ TheHeat' = TheHeat /\ TheOn' = TheOn
<1>1. chosen' = chosen
  BY NeverChosenAgain
<1>2. ASSUME UNCHANGED <<mode, heat, target>>
      PROVE  Driving' = Driving /\ TheHeat' = TheHeat /\ TheOn' = TheOn
  BY <1>1, <1>2, BankFollows DEF Driving, TheHeat, TheOn
<1>3. ASSUME mode' # "manual", target' = target \/ target' = NoTargets
      PROVE  ~Driving' /\ TheOn' \in {TheOn, [i \in Controlled |-> {}]}
  <2>1. \A s \in Controlled : OnWith(NoTargets, s) = {}
    BY DEF OnWith, NoTargets, Controlled
  <2>2. TheOn' = TheOn \/ TheOn' = [i \in Controlled |-> {}]
    <3>1. CASE target' = target
      BY <1>1, <3>1, BankFollows DEF TheOn
    <3>2. CASE target' = NoTargets
      BY <1>1, <2>1, <3>2, BankFollows
    <3> QED BY <1>3, <3>1, <3>2
  <2> QED BY <1>3, <2>2 DEF Driving
<1>4. CASE Load
  BY <1>3, <1>4 DEF Load
<1>5. CASE Tick \/ UNCHANGED vars
  BY <1>2, <1>5 DEF Tick, vars
<1>6. CASE ReadFails
  <2>1. mode' # "manual" /\ target' = target
    BY <1>6 DEF ReadFails, Maximum
  <2> QED BY <1>3, <2>1
<1>7. ASSUME NEW r \in Readings, NEW f \in Smoothed(r), mode \in Loaded, SampleStep(r, f)
      PROVE  \/ /\ Driving' /\ TheOn' = [i \in Controlled |-> Switched(i)]
             \/ /\ ~Driving /\ Driving'
                /\ TheOn' = [i \in Controlled |->
                               { k \in 2..Len(TheBank[i].rise) :
                                   heat'[i] >= 0 /\ heat'[i] >= TheBank[i].rise[k] }]
             \/ ~Driving' /\ TheOn' \in {TheOn, [i \in Controlled |-> {}]}
  <2>1. Validate(settings) /\ config \in DOMAIN Offered /\ dual \in BOOLEAN
    BY <1>7 DEF CycleInv, ChoiceKept
  <2>2. target \in [Inputs -> Int] /\ \A s \in Inputs : TargetKnown(target, s)
    BY <1>7 DEF CycleInv, TargetsKept
  <2>3. \A i \in Controlled : TheBank[i].rise = CurveFor(settings, i).rise
                             /\ TheBank[i].fall = CurveFor(settings, i).fall
                             /\ TheOn[i] = OnWith(target, i) /\ i \in Inputs
    BY DEF TheBank, TheOn, Controlled
  <2>4. TheOn' = [i \in Controlled |-> OnWith(target', i)]
    BY <1>1, BankFollows
  <2>5. CASE SelectMaximum(r) \/ StayAuto(r) \/ RestoreAuto(r)
    <3>1. mode' # "manual" /\ (target' = target \/ target' = NoTargets)
      BY <2>5 DEF SelectMaximum, Maximum, StayAuto, RestoreAuto
    <3> QED BY <1>3, <3>1
  <2>6. CASE LeaveEmergency(r, f)
    <3>1. /\ ~Driving /\ Driving' /\ heat' = f /\ target' = Targets(f, NoTargets) /\ f \in Values
      BY <2>1, <2>6, LeavingDuty DEF LeaveEmergency, Driving
    <3>2. ASSUME NEW i \in Controlled
          PROVE  OnWith(target', i) = { k \in 2..Len(TheBank[i].rise) :
                                          heat'[i] >= 0 /\ heat'[i] >= TheBank[i].rise[k] }
      <4>1. OnWith(target', i) =
              IF f[i] = Gone THEN {}
              ELSE { k \in 2..Len(CurveFor(settings, i).rise) :
                       f[i] >= CurveFor(settings, i).rise[k] }
        BY <2>1, <3>1, ResetSwitches
      <4>2. f[i] = Gone <=> ~(f[i] >= 0)
        BY <2>3, <3>1 DEF Values, Gone
      <4> QED BY <2>3, <3>1, <4>1, <4>2
    <3> QED BY <2>4, <3>1, <3>2
  <2>7. CASE Control(r, f)
    <3> DEFINE h == Evaluated(f, r)
    <3>1. Driving' /\ heat' = h /\ target' = Targets(h, target) /\ h \in Values
      BY <2>1, <2>7, EvaluatedAreValues DEF Control, Driving
    <3> HIDE DEF h
    <3>2. ASSUME NEW i \in Controlled
          PROVE  OnWith(target', i) = Switched(i)
      <4>1. OnWith(target', i) =
              IF h[i] = Gone THEN {}
              ELSE { k \in 2..Len(CurveFor(settings, i).rise) :
                       \/ h[i] >= CurveFor(settings, i).rise[k]
                       \/ k \in OnWith(target, i) /\ h[i] >= CurveFor(settings, i).fall[k] }
        BY <2>1, <2>2, <3>1, SampleSwitches
      <4>2. h[i] = Gone <=> h[i] < 0
        BY <2>3, <3>1 DEF Values, Gone
      <4> QED BY <2>3, <3>1, <4>1, <4>2 DEF Switched
    <3> QED BY <2>4, <3>1, <3>2
  <2> QED BY <1>7, <2>5, <2>6, <2>7 DEF SampleStep
<1> QED BY <1>4, <1>5, <1>6, <1>7, StepCases

\* For every accepted configuration: every curve with falling thresholds behaves
\* as a bank of independent comparators with hysteresis.
THEOREM CurvesAreComparators == Spec => StepsAreComparators
<1>1. ASSUME Init
      PROVE  Bank!Init
  <2>1. \A s \in Controlled : OnWith(target, s) = {}
    BY <1>1 DEF Init, OnWith, NoTargets, Controlled
  <2> QED BY <1>1, <2>1 DEF Init, Bank!Init, Bank!AllOff, Bank!Inputs, OnWith
<1>2. ASSUME CycleInv, [Next]_vars
      PROVE  [Bank!Next]_<<TheBank, TheHeat, TheOn, Driving>>
  <2>1. TheBank' = TheBank /\ Controlled' = Controlled
    BY <1>2, NeverChosenAgain, BankFollows
  <2>2. CASE Driving' /\ TheOn' = [i \in Controlled |-> Switched(i)]
    <3>1. Bank!Follow
      BY <2>2 DEF Bank!Follow, Bank!Inputs, Bank!Compared, Bank!StepsOf, Switched, TheBank, TheOn,
         Driving, OnWith
    <3> QED BY <2>1, <3>1 DEF Bank!Next, TheBank
  <2>3. CASE /\ ~Driving /\ Driving'
             /\ TheOn' = [i \in Controlled |->
                            { k \in 2..Len(TheBank[i].rise) :
                                heat'[i] >= 0 /\ heat'[i] >= TheBank[i].rise[k] }]
    <3>1. Bank!Restart
      BY <2>3 DEF Bank!Restart, Bank!Inputs, Bank!StepsOf, TheBank, TheOn, Driving, OnWith
    <3> QED BY <2>1, <3>1 DEF Bank!Next, TheBank
  <2>4. CASE ~Driving' /\ TheOn' \in {TheOn, [i \in Controlled |-> {}]}
    <3>1. Bank!Rest
      BY <2>4 DEF Bank!Rest, Bank!AllOff, Bank!Inputs, TheOn, Driving, OnWith
    <3> QED BY <2>1, <3>1 DEF Bank!Next, TheBank
  <2>5. CASE Driving' = Driving /\ TheHeat' = TheHeat /\ TheOn' = TheOn
    BY <2>1, <2>5
  <2> QED BY <1>2, <2>2, <2>3, <2>4, <2>5, StepSwitches
<1> QED BY <1>1, <1>2, CycleAlways, PTL DEF Spec, StepsAreComparators, Bank!Spec, TheBank, TheHeat,
     TheOn, Driving, OnWith

=============================================================================
