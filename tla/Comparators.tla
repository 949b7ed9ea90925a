---------------------------- MODULE Comparators ----------------------------
(***************************************************************************)
(* What a stepped fan curve with falling thresholds promises: every step   *)
(* above the first is a comparator of its own with hysteresis, switched on *)
(* at its rising temperature and off below its falling one, whatever the   *)
(* other steps do.  Several inputs have a bank of comparators each.        *)
(***************************************************************************)
EXTENDS Integers, Sequences

VARIABLES
  bank,     \* rising and falling temperatures of each input's steps
  heat,     \* temperature at each input, below 0 if there is none
  on,       \* the comparators of each input that are on
  driving   \* the comparators follow the inputs

Inputs == DOMAIN bank
StepsOf(i) == 2..Len(bank[i].rise)

AllOff == [i \in Inputs |-> {}]

Init == on = AllOff /\ ~driving

Compared(i) ==
  IF heat'[i] < 0 THEN {}
  ELSE { k \in StepsOf(i) :
           \/ heat'[i] >= bank[i].rise[k]
           \/ k \in on[i] /\ heat'[i] >= bank[i].fall[k] }

\* The inputs are looked at, from a clean start if the bank was not driving.
Follow ==
  /\ driving'
  /\ on' = [i \in Inputs |-> Compared(i)]

Restart ==
  /\ ~driving /\ driving'
  /\ on' = [i \in Inputs |-> { k \in StepsOf(i) : heat'[i] >= 0 /\ heat'[i] >= bank[i].rise[k] }]

\* Nothing is switched while the bank does not drive; it may be reset.
Rest == ~driving' /\ on' \in {on, AllOff}

Next == bank' = bank /\ (Follow \/ Restart \/ Rest)

Spec == Init /\ [][Next]_<<bank, heat, on, driving>>

=============================================================================
