------------------------------ MODULE MCDemand ------------------------------
(***************************************************************************)
(* Configurations of Demand for TLC: one for each kind of curve and of     *)
(* input, and variants of them that are refused, on either interface.      *)
(***************************************************************************)
EXTENDS Demand

Levels(l1, l2, l3) == <<LevelPercent(l1), LevelPercent(l2), LevelPercent(l3)>>

Stepped(rise, fall, pct) == [rise |-> rise, fall |-> fall, pct |-> pct, stepped |-> TRUE]
Line(rise, pct) == [rise |-> rise, fall |-> <<>>, pct |-> pct, stepped |-> FALSE]

Base ==
  [reads |-> [cpu |-> 0..5], interval |-> 2,
   shared |-> Stepped(<<1, 4, 5>>, <<0, 3, 4>>, Levels(19, 40, 60)),
   named |-> [s \in {} |-> {}],
   act |-> 4, rel |-> 3, fanStop |-> 1, crit |-> Disabled, crel |-> 4,
   hysteresis |-> 1, irHysteresis |-> 1,
   floor |-> LevelPercent(19), rise |-> 50 * Percent, fall |-> 50 * Percent]

\* The IR calls for control below the CPU's release temperature.
WithIr(pct) ==
  [Base EXCEPT !.reads = [cpu |-> {1, 3, 4, 5}, ir |-> {0, 2}],
               !.interval = 1, !.fanStop = 2,
               !.shared = Stepped(<<1, 4>>, <<0, 2>>, <<LevelPercent(19), LevelPercent(60)>>),
               !.named = [ir |-> Stepped(<<1, 2>>, <<>>, pct)]]

\* A line whose top rounds to more than the single-channel ceiling, and a
\* diagnostic curve above it.
Capped ==
  [Base EXCEPT !.reads = [cpu |-> {1, 2, 4, 5}, acpi |-> {5}], !.crit = 5,
               !.shared = Line(<<1, 4>>, <<9000, 94 * Percent>>),
               !.named = [acpi |-> Line(<<1, 4>>, <<9000, FullPercent>>)]]

Plain == [Base EXCEPT !.shared = Stepped(<<1, 3, 5>>, <<>>, Levels(19, 40, 60)),
                      !.hysteresis = 2]

\* The last seven are refused; the one before them on a single channel only.
MCOffered ==
  << Base, Plain, Capped, WithIr(<<LevelPercent(19), LevelPercent(60)>>),
     [WithIr(<<LevelPercent(19), LevelPercent(60)>>) EXCEPT
        !.crit = 5, !.shared.pct = <<LevelPercent(19), LevelPercent(56)>>],
     [Base EXCEPT !.rel = 4], [Base EXCEPT !.shared.fall = <<0, 3, 3>>],
     [Base EXCEPT !.shared.pct = Levels(40, 19, 60)], [Base EXCEPT !.rise = 0],
     [Base EXCEPT !.shared.pct = Levels(19, 40, 56)],
     [Capped EXCEPT !.crel = 5], WithIr(<<LevelPercent(19), LevelPercent(40)>>) >>
=============================================================================
