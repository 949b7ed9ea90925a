----------------------------- MODULE Lifecycle -----------------------------
(***************************************************************************)
(* main: the processes that may write the fans - the service under systemd *)
(* with its ExecStopPost, manual --apply runs, actuator tests and recovery *)
(* commands - and what they share: the lock file and the board marker in   *)
(* /run/omen-fanctl, the configuration and the fan mode.  What a           *)
(* controller does with the fans is Controller's matter and here any mode  *)
(* it may leave behind.                                                    *)
(*                                                                         *)
(* The three startup waits take time, in ticks of their common retry       *)
(* interval of one second; everything else in a startup is prompt.         *)
(***************************************************************************)
EXTENDS Integers

NoInode == 0

CONSTANTS
  Users,         \* processes started by hand
  Inodes,        \* the files that may be created at control.lock
  UserOps,       \* what they may run
  Exclusive,     \* the service and processes started by hand do not overlap
  BuiltinBoard,  \* the board is one of DEFAULT_ALLOWED_BOARDS
  Timeout,       \* the window of each startup wait
  MayFail,       \* whether accesses may fail
  MayKill        \* whether processes may be killed

ASSUME LifecycleAssumption ==
  /\ "unit" \notin Users /\ "none" \notin Users /\ NoInode \notin Inodes
  /\ UserOps \subseteq {"apply", "actuator", "restore", "failsafe"}
  /\ Exclusive \in BOOLEAN /\ BuiltinBoard \in BOOLEAN /\ MayFail \in BOOLEAN
  /\ MayKill \in BOOLEAN
  /\ Timeout \in Nat \ {0}

VARIABLES
  proc,      \* the processes, see Processes
  lockFile,  \* inode at control.lock, NoInode if there is none
  holder,    \* which process has each inode locked
  dir,       \* /run/omen-fanctl exists
  marker,    \* the confirmed-board marker exists
  config,    \* the configuration file can be read
  mode,      \* of the fans
  by,        \* history: the process that wrote it, "none" if none did
  postLost,  \* history: an ExecStopPost did not succeed since the last write
  abi,       \* the interface of the machine: "single" or "dual"
  here       \* what has been published: "profile", "hp", "pwm2", "k10temp"

vars == <<proc, lockFile, holder, dir, marker, config, mode, by, postLost, abi, here>>

Procs == Users \cup {"unit"}
DaemonOps == {"apply", "actuator"}
Waits == {"profile", "hwmon", "k10temp"}

\* From a successful flock on, until the lock is released.
Holding == {"record", "hwmon", "k10temp", "run", "control", "test", "act", "verify",
            "leave", "unmark", "close"}
Points == Holding \cup {"off", "load", "profile", "check", "open", "flock", "end"}

Off == [pc |-> "off", op |-> "apply", lock |-> NoInode, left |-> 0, elapsed |-> 0,
        asleep |-> FALSE, looked |-> FALSE, took |-> "none", marked |-> FALSE]

LifecycleTypeOK ==
  /\ proc \in [Procs -> [pc : Points, op : DaemonOps \cup {"restore", "failsafe"},
                         lock : Inodes \cup {NoInode}, left : 0..Timeout,
                         elapsed : 0..3 * Timeout + 1, asleep : BOOLEAN, looked : BOOLEAN,
                         took : {"none", "single", "dual"}, marked : BOOLEAN]]
  /\ lockFile \in Inodes \cup {NoInode} /\ holder \in [Inodes -> Procs \cup {"none"}]
  /\ dir \in BOOLEAN /\ marker \in BOOLEAN /\ config \in BOOLEAN
  /\ mode \in {"auto", "manual", "max"} /\ by \in Procs \cup {"none"}
  /\ postLost \in BOOLEAN /\ abi \in {"single", "dual"}
  /\ here \subseteq {"profile", "hp", "pwm2", "k10temp"}

Init ==
  /\ proc = [p \in Procs |-> Off]
  /\ lockFile = NoInode /\ holder = [i \in Inodes |-> "none"]
  /\ dir = FALSE /\ marker = FALSE /\ config = TRUE
  /\ mode = "auto" /\ by = "none" /\ postLost = FALSE
  /\ abi \in {"single", "dual"} /\ here = {}

-----------------------------------------------------------------------------
runDir == <<lockFile, dir, marker>>
fans == <<mode, by, postLost>>
machine == <<config, abi, here>>

At(p, point) == proc[p].pc = point
Goto(p, point) == proc' = [proc EXCEPT ![p].pc = point]
Fails(p, point) == MayFail /\ Goto(p, point)
IsUser(p) == p # "unit"

\* A startup wait begins: deadline = now + timeout.
StartWait(r, point) ==
  [r EXCEPT !.pc = point, !.left = Timeout, !.asleep = FALSE, !.looked = FALSE]

WriteMode(p, m) == mode' = m /\ by' = p /\ postLost' = FALSE

-----------------------------------------------------------------------------
(* Starting a process.                                                     *)

MayStart(p) ==
  Exclusive => \A q \in Procs \ {p} :
                 ~At(q, "off") => (IsUser(p) /\ IsUser(q))

StartUser(p) ==
  /\ IsUser(p) /\ At(p, "off") /\ MayStart(p)
  /\ \E o \in UserOps :
       proc' = [proc EXCEPT ![p].op = o,
                            ![p].pc = IF o \in DaemonOps THEN "load" ELSE "check"]
  /\ UNCHANGED <<holder, runDir, fans, machine>>

\* systemd creates the runtime directory.
StartUnit ==
  /\ At("unit", "off") /\ MayStart("unit")
  /\ proc' = [proc EXCEPT !["unit"].pc = "load", !["unit"].op = "apply"]
  /\ dir' = TRUE
  /\ UNCHANGED <<holder, lockFile, marker, fans, machine>>

LoadSettings(p) ==
  /\ At(p, "load")
  /\ proc' = [proc EXCEPT ![p] = IF config THEN StartWait(@, "profile")
                                           ELSE [@ EXCEPT !.pc = "end"]]
  /\ UNCHANGED <<holder, runDir, fans, machine>>

\* recovery_allowed_boards, before the lock is taken.
Recoverable == config \/ BuiltinBoard \/ marker

CheckBoard(p) ==
  /\ At(p, "check")
  /\ Goto(p, IF Recoverable THEN "open" ELSE "end")
  /\ UNCHANGED <<holder, runDir, fans, machine>>

-----------------------------------------------------------------------------
(* acquire_lock: the file is opened, and then locked.                      *)

FreeInodes == { i \in Inodes : i # lockFile /\ \A q \in Procs : proc[q].lock # i }

\* Mutant of OpenedFile.
ReplacedFile == FreeInodes

\* O_CREAT without O_EXCL: an existing file is opened.
OpenedFile == IF lockFile = NoInode THEN FreeInodes ELSE {lockFile}

OpenLock(p) ==
  /\ At(p, "open")
  /\ \/ \E i \in OpenedFile :
          /\ proc' = [proc EXCEPT ![p].pc = "flock", ![p].lock = i]
          /\ lockFile' = i /\ dir' = TRUE
     \/ Fails(p, "end") /\ UNCHANGED <<lockFile, dir>>
  /\ UNCHANGED <<holder, marker, fans, machine>>

\* Mutant of Contended.
ContendedAfterMarking(p) ==
  proc' = [proc EXCEPT ![p].pc = IF IsUser(p) THEN "leave" ELSE "end",
                       ![p].lock = NoInode, ![p].marked = TRUE]

Contended(p) == proc' = [proc EXCEPT ![p].pc = "end", ![p].lock = NoInode]

\* When flock or the write of the pid into the locked file fails, the file is
\* closed again, which gives the lock up.
Flock(p) ==
  /\ At(p, "flock")
  /\ \/ /\ holder[proc[p].lock] = "none"
        /\ holder' = [holder EXCEPT ![proc[p].lock] = p]
        /\ Goto(p, IF proc[p].op \in DaemonOps THEN "record" ELSE "act")
     \/ /\ holder[proc[p].lock] # "none" \/ MayFail
        /\ Contended(p) /\ UNCHANGED holder
  /\ UNCHANGED <<runDir, fans, machine>>

\* record_confirmed_board.  Only a run that systemd does not clean up after
\* removes the marker itself (systemd_owns_runtime_directory).
Record(p) ==
  /\ At(p, "record")
  /\ \/ /\ dir /\ marker' = TRUE
        /\ proc' = [proc EXCEPT ![p] = [StartWait(@, "hwmon") EXCEPT !.marked = IsUser(p)]]
     \/ (~dir \/ MayFail) /\ Goto(p, "leave") /\ UNCHANGED marker
  /\ UNCHANGED <<holder, lockFile, dir, fans, machine>>

-----------------------------------------------------------------------------
(* The startup waits.  Each looks, and sleeps until the next look or fails *)
(* at its deadline.                                                        *)

Looking(p, point) == At(p, point) /\ ~proc[p].asleep

\* Mutant of NotReady.
DeadlineIgnored(r, failed) == [r EXCEPT !.asleep = TRUE]

NotReady(r, failed) ==
  IF r.left = 0 THEN [r EXCEPT !.pc = failed] ELSE [r EXCEPT !.asleep = TRUE]

\* validate_required_profile; the lock is not held yet.
WaitForProfile(p) ==
  /\ Looking(p, "profile")
  /\ proc' = [proc EXCEPT ![p] = IF "profile" \in here THEN [@ EXCEPT !.pc = "open"]
                                                       ELSE NotReady(@, "end")]
  /\ UNCHANGED <<holder, runDir, fans, machine>>

\* Mutant of Confirmed.
ConfirmedAtOnce(p) == TRUE

Confirmed(p) == "pwm2" \in here \/ proc[p].looked

\* wait_for_hp_fan_hwmon: an interface without pwm2 is believed at the second
\* look in a row.  An interface the configuration must not drive is refused.
WaitForHwmon(p) ==
  /\ Looking(p, "hwmon")
  /\ \/ /\ proc' = [proc EXCEPT ![p] =
             IF "hp" \notin here THEN NotReady([@ EXCEPT !.looked = FALSE], "leave")
             ELSE IF Confirmed(p)
             THEN [StartWait(@, "k10temp")
                     EXCEPT !.took = IF "pwm2" \in here THEN "dual" ELSE "single"]
             ELSE NotReady([@ EXCEPT !.looked = TRUE], "leave")]
     \/ Fails(p, "leave")
  /\ UNCHANGED <<holder, runDir, fans, machine>>

\* wait_for_temperature_sensors
WaitForSensors(p) ==
  /\ Looking(p, "k10temp")
  /\ proc' = [proc EXCEPT ![p] = IF "k10temp" \in here THEN [@ EXCEPT !.pc = "run"]
                                                       ELSE NotReady(@, "leave")]
  /\ UNCHANGED <<holder, runDir, fans, machine>>

\* Drivers publish their attributes; hp-wmi takes less than a retry interval
\* from the first of its attributes to the last.
Publish ==
  /\ \E x \in {"profile", "hp", "pwm2", "k10temp"} \ here :
       /\ x = "pwm2" => abi = "dual" /\ "hp" \in here
       /\ here' = here \cup {x}
  /\ UNCHANGED <<proc, holder, runDir, fans, config, abi>>

Starting(p) == proc[p].pc \in {"load", "open", "flock", "record", "run"} \cup Waits

Tick ==
  /\ \E p \in Procs : proc[p].asleep
  /\ \A p \in Procs : Starting(p) => proc[p].asleep
  /\ "hp" \in here /\ abi = "dual" => "pwm2" \in here
  /\ proc' = [p \in Procs |->
       IF proc[p].asleep
       THEN [proc[p] EXCEPT !.asleep = FALSE, !.left = @ - 1,
                            !.elapsed = IF @ <= 3 * Timeout THEN @ + 1 ELSE @]
       ELSE proc[p]]
  /\ UNCHANGED <<holder, runDir, fans, machine>>

-----------------------------------------------------------------------------
(* Control.                                                                *)

\* Controller.run and run_actuator_test refuse a mode they do not expect.
Run(p) ==
  /\ At(p, "run")
  /\ IF proc[p].op = "apply"
     THEN /\ Goto(p, IF mode \in {"auto", "max"} THEN "control" ELSE "leave")
          /\ UNCHANGED fans
     ELSE \/ mode = "auto" /\ Goto(p, "test") /\ WriteMode(p, "manual")
          \/ (mode # "auto" \/ MayFail) /\ Goto(p, "leave") /\ UNCHANGED fans
  /\ UNCHANGED <<holder, runDir, machine>>

Control(p) ==
  /\ At(p, "control")
  /\ \E m \in {"auto", "manual", "max"} : WriteMode(p, m)
  /\ UNCHANGED <<proc, holder, runDir, machine>>

\* The stop handoff keeps or writes Auto, the fail-safe writes Max; both may
\* fail.
StopControl(p) ==
  /\ At(p, "control") /\ Goto(p, "leave")
  /\ \/ \E m \in {"auto", "max"} : WriteMode(p, m)
     \/ mode = "auto" /\ UNCHANGED fans
     \/ MayFail /\ UNCHANGED fans
  /\ UNCHANGED <<holder, runDir, machine>>

StopTest(p) ==
  /\ At(p, "test") /\ Goto(p, "leave")
  /\ WriteMode(p, "auto") \/ (MayFail /\ UNCHANGED fans)
  /\ UNCHANGED <<holder, runDir, machine>>

\* restore_firmware_auto and ensure_failsafe_fan_state; a guarded Auto becomes
\* Max (see Service), an unguarded one is kept.
Recover(p) ==
  /\ At(p, "act")
  /\ \/ /\ Goto(p, "verify")
        /\ IF proc[p].op = "restore"
           THEN IF mode = "auto" THEN UNCHANGED fans ELSE WriteMode(p, "auto")
           ELSE WriteMode(p, "max") \/ (mode = "auto" /\ UNCHANGED fans)
     \/ Fails(p, "close") /\ UNCHANGED fans
  /\ UNCHANGED <<holder, runDir, machine>>

Expected(op) == IF op = "restore" THEN {"auto"} ELSE {"auto", "max"}

Verify(p) ==
  /\ At(p, "verify")
  /\ proc' = [proc EXCEPT ![p].pc = IF mode \in Expected(proc[p].op) THEN "leave" ELSE "close",
                          ![p].marked = (mode \in Expected(proc[p].op))]
  /\ UNCHANGED <<holder, runDir, fans, machine>>

-----------------------------------------------------------------------------
(* The end of a process.                                                   *)

\* Mutant of MayUnmark.
MayUnmarkAnyway(p) == proc[p].marked

\* clear_confirmed_board_if_safe
MayUnmark(p) == proc[p].marked /\ mode \in {"auto", "max"}

Leave(p) ==
  /\ At(p, "leave")
  /\ Goto(p, IF MayUnmark(p) THEN "unmark" ELSE "close") \/ Fails(p, "close")
  /\ UNCHANGED <<holder, runDir, fans, machine>>

Unmark(p) ==
  /\ At(p, "unmark") /\ Goto(p, "close")
  /\ marker' = FALSE \/ (MayFail /\ UNCHANGED marker)
  /\ UNCHANGED <<holder, lockFile, dir, fans, machine>>

\* The lock goes with the file descriptor.
Released(p) == [i \in Inodes |-> IF holder[i] = p THEN "none" ELSE holder[i]]

Close(p) ==
  /\ At(p, "close")
  /\ proc' = [proc EXCEPT ![p] = [Off EXCEPT !.pc = "end", !.op = proc[p].op]]
  /\ holder' = Released(p)
  /\ UNCHANGED <<runDir, fans, machine>>

Kill(p) ==
  /\ MayKill /\ proc[p].pc \notin {"off", "end"}
  /\ proc' = [proc EXCEPT ![p] = [Off EXCEPT !.pc = "end", !.op = proc[p].op]]
  /\ holder' = Released(p)
  /\ UNCHANGED <<runDir, fans, machine>>

EndUser(p) ==
  /\ IsUser(p) /\ At(p, "end")
  /\ proc' = [proc EXCEPT ![p] = Off]
  /\ UNCHANGED <<holder, runDir, fans, machine>>

StartPost ==
  /\ At("unit", "end") /\ proc["unit"].op = "apply"
  /\ proc' = [proc EXCEPT !["unit"] = [Off EXCEPT !.pc = "check", !.op = "failsafe"]]
  /\ UNCHANGED <<holder, runDir, fans, machine>>

\* systemd removes the runtime directory with everything in it.
EndUnit ==
  /\ At("unit", "end") /\ proc["unit"].op = "failsafe"
  /\ proc' = [proc EXCEPT !["unit"] = Off]
  /\ dir' = FALSE /\ lockFile' = NoInode /\ marker' = FALSE
  /\ postLost' = (postLost \/ mode = "manual")
  /\ UNCHANGED <<holder, mode, by, machine>>

DamageConfig ==
  /\ MayFail /\ config /\ config' = FALSE
  /\ UNCHANGED <<proc, holder, runDir, fans, abi, here>>

-----------------------------------------------------------------------------
ProcessStep(p) ==
  \/ StartUser(p) \/ LoadSettings(p) \/ CheckBoard(p) \/ OpenLock(p) \/ Flock(p)
  \/ Record(p) \/ WaitForProfile(p) \/ WaitForHwmon(p) \/ WaitForSensors(p)
  \/ Run(p) \/ Control(p) \/ StopControl(p) \/ StopTest(p) \/ Recover(p) \/ Verify(p)
  \/ Leave(p) \/ Unmark(p) \/ Close(p) \/ Kill(p) \/ EndUser(p)

Next ==
  \/ \E p \in Procs : ProcessStep(p)
  \/ StartUnit \/ StartPost \/ EndUnit \/ Publish \/ Tick \/ DamageConfig

Spec == Init /\ [][Next]_vars

-----------------------------------------------------------------------------
\* The lock keeps the fans to one process: from a successful flock to its
\* release no other process is between the two, whoever is killed, times out or
\* finds the file open already (acquire_lock, main; the comment in the recovery
\* branch of main relies on it).
OneController ==
  \A p, q \in Procs : p # q => ~(proc[p].pc \in Holding /\ proc[q].pc \in Holding)

\* A process that may write Manual mode is covered by the marker, whichever
\* other process fails, ends or cleans up beside it: a crash right now could be
\* recovered from with a damaged configuration (record_confirmed_board).
MarkerCoversControl ==
  \A p \in Procs : proc[p].pc \in {"control", "test"} => marker

\* Manual mode left behind by a process started by hand can be recovered from,
\* even with a damaged configuration, unless an ExecStopPost has failed on it
\* and systemd has removed the directory (clear_confirmed_board_if_safe).
RecoveryNeverLockedOut ==
  mode = "manual" /\ by \in Users /\ ~postLost => Recoverable

\* The three startup waits of a process take their three windows together at
\* most, so that TimeoutStartSec covers them, whatever becomes ready or
\* asks for a second look at a deadline (the comment in the unit).
StartupWithinWindows == \A p \in Procs : proc[p].elapsed <= 3 * Timeout

\* A machine with independent channels is never driven as a single-channel one,
\* at whatever moment of the driver's start the process looks
\* (wait_for_hp_fan_hwmon).
InterfaceIsReal ==
  \A p \in Procs : proc[p].pc \in {"run", "control", "test"} => proc[p].took = abi

=============================================================================
