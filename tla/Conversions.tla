---------------------------- MODULE Conversions ----------------------------
(***************************************************************************)
(* Percentages of the configuration, PWM values of hp-wmi and fan levels   *)
(* of the firmware.  The code computes with floats and rounds halves up;   *)
(* here a percentage is an integer in units of 1/300 percent, in which     *)
(* fan levels (60ths of full speed) are exact.                             *)
(***************************************************************************)
EXTENDS Integers, Sequences

PwmMax == 255
HpFanLevelMax == 60
SinglePwmMaxLevel == 56

Percent == 300          \* one percent
FullPercent == 100 * Percent

Clamp(x, low, high) == IF x < low THEN low ELSE IF x > high THEN high ELSE x

\* int(x * 255 / 100 + 0.5)
PercentToPwm(q) == (17 * Clamp(q, 0, FullPercent) + 1000) \div 2000

LevelPercent(level) == 500 * level

\* int(pwm * 60 / 255 + 0.5)
PwmToLevel(pwm) == (120 * Clamp(pwm, 0, PwmMax) + PwmMax) \div 510

PercentToLevel(q) == PwmToLevel(PercentToPwm(q))
LevelToPwm(level) == PercentToPwm(LevelPercent(level))

-----------------------------------------------------------------------------
\* The firmware table of board 8D87: GPU level of a CPU level.
CpuGpuLevels ==
  << <<19, 21>>, <<20, 22>>, <<22, 23>>, <<24, 26>>, <<28, 30>>, <<30, 32>>,
     <<34, 36>>, <<36, 38>>, <<37, 39>>, <<43, 45>>, <<47, 49>>, <<50, 52>>,
     <<53, 55>>, <<56, 58>>, <<60, 58>> >>

\* Interpolation between two neighbours of the table, halves rounded up.
Between(lo, hi, level) ==
  LET span == hi[1] - lo[1]
  IN  (2 * lo[2] * span + 2 * (level - lo[1]) * (hi[2] - lo[2]) + span) \div (2 * span)

GpuLevel(level, table) ==
  LET last == Len(table)
  IN  IF level <= table[1][1] THEN table[1][2]
      ELSE IF level >= table[last][1] THEN table[last][2]
      ELSE LET k == CHOOSE k \in 1..last - 1 :
                      table[k][1] <= level /\ level <= table[k + 1][1]
           IN  Between(table[k], table[k + 1], level)

-----------------------------------------------------------------------------
\* The interface: one channel, or independent CPU and GPU channels.
ManualMaxLevel(dual) == IF dual THEN HpFanLevelMax ELSE SinglePwmMaxLevel

\* manual_pwm_max
Ceiling(dual) == LevelToPwm(ManualMaxLevel(dual))

\* The GPU level a Manual duty asks for; hp-wmi adds 2 to its only channel.
GpuRequest(pwm, dual) ==
  IF dual THEN GpuLevel(PwmToLevel(pwm), CpuGpuLevels) ELSE PwmToLevel(pwm) + 2

=============================================================================
