------------------------------- MODULE Curves -------------------------------
(***************************************************************************)
(* Fan curves (Curve): their validity, their evaluation and the target     *)
(* that hysteresis makes of it.  A curve is a record of equally long       *)
(* sequences: rise (temperatures), pct (percentages), fall (temperatures   *)
(* at which a level is given up again, <<>> if there are none) and         *)
(* stepped.                                                                *)
(***************************************************************************)
EXTENDS Conversions

NoTarget == -1     \* no previous target

Increasing(s) == \A k \in 1..Len(s) - 1 : s[k] < s[k + 1]
NonDecreasing(s) == \A k \in 1..Len(s) - 1 : s[k] <= s[k + 1]

HasFalls(c) == c.fall # <<>>

ValidFalls(c) ==
  /\ c.stepped /\ Increasing(c.pct)
  /\ Len(c.fall) = Len(c.rise) /\ Increasing(c.fall)
  /\ \A k \in 1..Len(c.fall) : c.fall[k] < c.rise[k]

\* Curve.__post_init__
ValidCurve(c) ==
  /\ Len(c.rise) = Len(c.pct) /\ Len(c.rise) >= 2
  /\ Increasing(c.rise) /\ NonDecreasing(c.pct)
  /\ \A k \in 1..Len(c.pct) : c.pct[k] \in 0..FullPercent
  /\ HasFalls(c) => ValidFalls(c)

Top(c) == c.pct[Len(c.pct)]

-----------------------------------------------------------------------------
\* The last step whose threshold the temperature t has reached.
StepAt(c, t) ==
  CHOOSE k \in 1..Len(c.rise) :
    /\ k = 1 \/ t >= c.rise[k]
    /\ \A j \in k + 1..Len(c.rise) : t < c.rise[j]

\* Linear interpolation; exact on segments with a whole slope.
OnLine(c, t) ==
  LET n == Len(c.rise)
  IN  IF t <= c.rise[1] THEN c.pct[1]
      ELSE IF t >= c.rise[n] THEN c.pct[n]
      ELSE LET k == CHOOSE k \in 1..n - 1 : c.rise[k] <= t /\ t <= c.rise[k + 1]
           IN  c.pct[k] + ((t - c.rise[k]) * (c.pct[k + 1] - c.pct[k]))
                            \div (c.rise[k + 1] - c.rise[k])

\* evaluate_percent
Evaluate(c, t) == IF c.stepped THEN c.pct[StepAt(c, t)] ELSE OnLine(c, t)

StepOf(c, target) == CHOOSE k \in 1..Len(c.pct) : c.pct[k] = target

\* Mutant of StepDown.
StepDownOnce(c, t, k) == IF k > 1 /\ t < c.fall[k] THEN k - 1 ELSE k

\* Down from step k for as long as the temperature is below the falling
\* threshold of the step.
StepDown(c, t, k) ==
  CHOOSE j \in 1..k :
    /\ j = 1 \/ t >= c.fall[j]
    /\ \A i \in j + 1..k : t < c.fall[i]

\* target_percent
CurveTarget(c, t, previous) ==
  LET rising == Evaluate(c, t)
  IN  IF previous = NoTarget \/ ~HasFalls(c) \/ rising >= previous
      THEN rising
      ELSE c.pct[StepDown(c, t, StepOf(c, previous))]

\* Mutant of HeldTarget.
NeverHeld(c, t, previous, hysteresis) == CurveTarget(c, t, previous)

\* A decrease of a curve without falling thresholds waits for a drop by the
\* decrease hysteresis (desired_pwm).
HeldTarget(c, t, previous, hysteresis) ==
  LET target == CurveTarget(c, t, previous)
      warmer == CurveTarget(c, t + hysteresis, previous)
  IN  IF previous # NoTarget /\ target < previous /\ ~HasFalls(c)
      THEN IF warmer < previous THEN warmer ELSE previous
      ELSE target

=============================================================================
