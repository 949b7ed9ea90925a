-------------------------- MODULE LifecycleProofs --------------------------
(***************************************************************************)
(* Theorems about Lifecycle, for every number of processes and inodes,     *)
(* with failing accesses and kills: its types, and, in documented use      *)
(* where the service and processes started by hand do not overlap          *)
(* (Exclusive), the lock, the start-up waits and recovery.                 *)
(***************************************************************************)
EXTENDS Lifecycle, TLAPS

Process ==
  [pc : Points, op : DaemonOps \cup {"restore", "failsafe"}, lock : Inodes \cup {NoInode},
   left : Int, elapsed : Int, asleep : BOOLEAN, looked : BOOLEAN,
   took : {"none", "single", "dual"}, marked : BOOLEAN]

LockShape ==
  /\ proc \in [Procs -> Process]
  /\ lockFile \in Inodes \cup {NoInode}
  /\ holder \in [Inodes -> Procs \cup {"none"}]

-----------------------------------------------------------------------------
(* What the helpers do to the record of a process.                         *)

\* A wait begins with the window and without a look; nothing else changes.
LEMMA Waiting ==
  ASSUME NEW r \in Process, NEW point \in Waits
  PROVE  /\ StartWait(r, point) \in Process
         /\ StartWait(r, point).pc = point
         /\ StartWait(r, point).asleep = FALSE /\ StartWait(r, point).looked = FALSE
         /\ StartWait(r, point).lock = r.lock /\ StartWait(r, point).took = r.took
         /\ StartWait(r, point).left = Timeout
         /\ StartWait(r, point).elapsed = r.elapsed
<1>1. StartWait(r, point) \in Process
  <2>1. Timeout \in Int
    BY LifecycleAssumption
  <2>2. [r EXCEPT !.pc = point, !.left = Timeout] \in Process
    BY <2>1 DEF Process, Points, Holding, Waits
  <2>3. ASSUME NEW s \in Process
        PROVE  [s EXCEPT !.asleep = FALSE, !.looked = FALSE] \in Process
    BY DEF Process
  <2>4. StartWait(r, point) = [[r EXCEPT !.pc = point, !.left = Timeout]
                                 EXCEPT !.asleep = FALSE, !.looked = FALSE]
    BY DEF StartWait, Process
  <2> QED BY <2>2, <2>3, <2>4
<1>2. /\ StartWait(r, point).pc = point
      /\ StartWait(r, point).lock = r.lock /\ StartWait(r, point).took = r.took
      /\ StartWait(r, point).left = Timeout
      /\ StartWait(r, point).elapsed = r.elapsed
  BY DEF StartWait, Process
<1>3. StartWait(r, point).asleep = FALSE /\ StartWait(r, point).looked = FALSE
  BY DEF StartWait, Process
<1> QED BY <1>1, <1>2, <1>3

\* A look that fails ends the wait at the deadline and sleeps before it.
LEMMA Unready ==
  ASSUME NEW r \in Process, NEW failed \in {"end", "leave"}
  PROVE  /\ NotReady(r, failed) \in Process
         /\ NotReady(r, failed).lock = r.lock /\ NotReady(r, failed).took = r.took
         /\ NotReady(r, failed).left = r.left
         /\ NotReady(r, failed).elapsed = r.elapsed
         /\ NotReady(r, failed).looked = r.looked
         /\ \/ /\ r.left = 0 /\ NotReady(r, failed).pc = failed
               /\ NotReady(r, failed).asleep = r.asleep
            \/ /\ r.left # 0 /\ NotReady(r, failed).pc = r.pc
               /\ NotReady(r, failed).asleep = TRUE
<1>1. CASE r.left = 0
  <2>1. NotReady(r, failed) = [r EXCEPT !.pc = failed]
    BY <1>1 DEF NotReady
  <2>2. [r EXCEPT !.pc = failed] \in Process
    BY DEF Process, Points, Holding
  <2> QED BY <1>1, <2>1, <2>2 DEF Process
<1>2. CASE r.left # 0
  <2>1. NotReady(r, failed) = [r EXCEPT !.asleep = TRUE]
    BY <1>2 DEF NotReady
  <2>2. [r EXCEPT !.asleep = TRUE] \in Process
    BY DEF Process
  <2> QED BY <1>2, <2>1, <2>2 DEF Process
<1> QED BY <1>1, <1>2

\* A process that is not there has a well formed record.
LEMMA OffShape == Off \in Process
<1> NoInode \in Inodes \cup {NoInode}
  OBVIOUS
<1> QED BY DEF Off, Process, Points, DaemonOps

\* A process that has ended keeps what it was started for, and nothing else.
LEMMA EndShape ==
  ASSUME NEW r \in Process
  PROVE  /\ [Off EXCEPT !.pc = "end", !.op = r.op] \in Process
         /\ [Off EXCEPT !.pc = "end", !.op = r.op].pc = "end"
         /\ [Off EXCEPT !.pc = "end", !.op = r.op].elapsed = 0
         /\ [Off EXCEPT !.pc = "end", !.op = r.op].asleep = FALSE
         /\ [Off EXCEPT !.pc = "end", !.op = r.op].left = 0
<1> DEFINE ended == [Off EXCEPT !.pc = "end", !.op = r.op]
<1>1. ended \in Process /\ ended.pc = "end"
  BY OffShape DEF Process, Points, DaemonOps
<1>2. ended.elapsed = 0 /\ ended.asleep = FALSE /\ ended.left = 0
  BY DEF Off
<1> QED BY <1>1, <1>2

-----------------------------------------------------------------------------
(* The lock.                                                               *)

Opened == {"flock"} \cup Holding

\* The service is stopped while a process started by hand runs.
Apart == \A p \in Users : ~At(p, "off") => At("unit", "off")

\* Everyone who has opened the lock file has opened the one that is there.
OneFile ==
  \A p \in Procs : proc[p].pc \in Opened => proc[p].lock = lockFile /\ lockFile \in Inodes

Held == \A p \in Procs : proc[p].pc \in Holding => holder[proc[p].lock] = p

LockInv == LockShape /\ Apart /\ OneFile /\ Held

\* Nobody holds the lock at first.
LEMMA LockInit == Init => LockInv
BY OffShape DEF Init, LockInv, LockShape, Apart, OneFile, Held, At, Opened, Holding, Procs, Off

\* Opening, locking, unlinking and ending keep it.
LEMMA LockStep == Exclusive /\ LockInv /\ [Next]_vars => LockInv'
<1> SUFFICES ASSUME Exclusive, LockInv, [Next]_vars
             PROVE  LockInv'
  OBVIOUS
<1> USE LifecycleAssumption DEF LockInv, LockShape, Apart, OneFile, Held, Opened, Points,
                                Holding, Procs, At
<1>1. ASSUME NEW p \in Procs, ProcessStep(p)
      PROVE  LockInv'
  <2> USE DEF runDir
  <2> DEFINE r == proc[p]
  <2>0. r \in Process
    OBVIOUS
  <2>1. CASE StartUser(p)
    BY <2>1 DEF StartUser, MayStart, IsUser, Process, DaemonOps
  <2>2. CASE LoadSettings(p)
    <3>1. /\ StartWait(r, "profile") \in Process
          /\ StartWait(r, "profile").pc = "profile"
      BY <2>0, Waiting DEF Waits
    <3>2. [r EXCEPT !.pc = "end"] \in Process /\ [r EXCEPT !.pc = "end"].pc = "end"
      BY <2>0 DEF Process
    <3> QED BY <2>2, <3>1, <3>2 DEF LoadSettings
  <2>3. CASE CheckBoard(p)
    BY <2>3 DEF CheckBoard, Goto, Process
  <2>4. CASE OpenLock(p)
    BY <2>4 DEF OpenLock, OpenedFile, FreeInodes, Goto, Fails, Process
  <2>5. CASE Flock(p)
    BY <2>5 DEF Flock, Contended, Goto, Process
  <2>6. CASE Record(p)
    <3>1. /\ StartWait(r, "hwmon") \in Process
          /\ StartWait(r, "hwmon").lock = r.lock
          /\ StartWait(r, "hwmon").pc = "hwmon"
      BY <2>0, Waiting DEF Waits
    <3> DEFINE w == [StartWait(r, "hwmon") EXCEPT !.marked = IsUser(p)]
    <3>2. w \in Process /\ w.lock = r.lock /\ w.pc = "hwmon"
      BY <3>1 DEF Process, IsUser
    <3>3. CASE proc' = [proc EXCEPT ![p] = w]
      BY <2>6, <3>2, <3>3 DEF Record
    <3>4. CASE Goto(p, "leave")
      BY <2>6, <3>4 DEF Record, Goto, Process
    <3> QED BY <2>6, <3>3, <3>4 DEF Record
  <2>7. CASE WaitForProfile(p)
    <3>1. /\ NotReady(r, "end") \in Process
          /\ NotReady(r, "end").pc \in {"end", "profile"}
      BY <2>0, <2>7, Unready DEF WaitForProfile, Looking
    <3>2. [r EXCEPT !.pc = "open"] \in Process /\ [r EXCEPT !.pc = "open"].pc = "open"
      BY <2>0 DEF Process
    <3> QED BY <2>7, <3>1, <3>2 DEF WaitForProfile, Looking
  <2>8. CASE WaitForHwmon(p)
    <3>1. CASE \E w \in Process : /\ w.pc \in {"leave", "hwmon", "k10temp"} /\ w.lock = r.lock
                                  /\ proc' = [proc EXCEPT ![p] = w]
      BY <2>8, <3>1 DEF WaitForHwmon, Looking
    <3>2. CASE Goto(p, "leave")
      BY <2>8, <3>2 DEF WaitForHwmon, Looking, Goto, Process
    <3>3. ASSUME NEW w \in Process, w.pc = "hwmon", w.lock = r.lock
          PROVE  /\ NotReady(w, "leave") \in Process
                 /\ NotReady(w, "leave").pc \in {"leave", "hwmon"}
                 /\ NotReady(w, "leave").lock = r.lock
      BY <3>3, Unready
    <3>4. \A b \in BOOLEAN : /\ [r EXCEPT !.looked = b] \in Process
                             /\ [r EXCEPT !.looked = b].pc = "hwmon"
                             /\ [r EXCEPT !.looked = b].lock = r.lock
      BY <2>0, <2>8 DEF Process, WaitForHwmon, Looking
    <3> DEFINE k == StartWait(r, "k10temp")
               taken == [k EXCEPT !.took = IF "pwm2" \in here THEN "dual" ELSE "single"]
    <3>5. k \in Process /\ k.pc = "k10temp" /\ k.lock = r.lock
      BY <2>0, Waiting DEF Waits
    <3>6. taken \in Process /\ taken.pc = "k10temp" /\ taken.lock = r.lock
      BY <3>5 DEF Process
    <3> QED BY <2>8, <3>1, <3>2, <3>3, <3>4, <3>6 DEF WaitForHwmon, Fails
  <2>9. CASE WaitForSensors(p)
    <3>1. /\ NotReady(r, "leave") \in Process
          /\ NotReady(r, "leave").pc \in {"leave", "k10temp"}
          /\ NotReady(r, "leave").lock = r.lock
      BY <2>0, <2>9, Unready DEF WaitForSensors, Looking
    <3>2. /\ [r EXCEPT !.pc = "run"] \in Process
          /\ [r EXCEPT !.pc = "run"].pc = "run" /\ [r EXCEPT !.pc = "run"].lock = r.lock
      BY <2>0 DEF Process
    <3> QED BY <2>9, <3>1, <3>2 DEF WaitForSensors, Looking
  <2>10. CASE Run(p)
    BY <2>10 DEF Run, Goto, Process
  <2>11. CASE Control(p)
    BY <2>11 DEF Control
  <2>12. CASE StopControl(p)
    BY <2>12 DEF StopControl, Goto, Process
  <2>13. CASE StopTest(p)
    BY <2>13 DEF StopTest, Goto, Process
  <2>14. CASE Recover(p)
    BY <2>14 DEF Recover, Goto, Fails, Process
  <2>15. CASE Verify(p)
    BY <2>15 DEF Verify, Process
  <2>16. CASE Leave(p)
    BY <2>16 DEF Leave, Goto, Fails, Process
  <2>17. CASE Unmark(p)
    BY <2>17 DEF Unmark, Goto, Process
  <2>18. CASE Close(p) \/ Kill(p)
    <3> DEFINE ended == [Off EXCEPT !.pc = "end", !.op = r.op]
    <3>1. ended \in Process /\ ended.pc = "end"
      BY <2>0, EndShape
    <3>2. /\ proc' = [proc EXCEPT ![p] = ended] /\ r.pc # "off"
          /\ holder' = Released(p) /\ lockFile' = lockFile
      BY <2>18 DEF Close, Kill
    <3> HIDE DEF ended
    <3>3. /\ holder' \in [Inodes -> Procs \cup {"none"}]
          /\ \A i \in Inodes : holder[i] # p => holder'[i] = holder[i]
      BY <3>2 DEF Released
    <3> QED BY <3>1, <3>2, <3>3
  <2>19. CASE EndUser(p)
    BY <2>19, OffShape DEF EndUser, Off, IsUser
  <2> QED BY <1>1, <2>1, <2>2, <2>3, <2>4, <2>5, <2>6, <2>7, <2>8, <2>9, <2>10, <2>11,
             <2>12, <2>13, <2>14, <2>15, <2>16, <2>17, <2>18, <2>19 DEF ProcessStep
<1>2. CASE StartUnit
  <2> DEFINE w == [proc["unit"] EXCEPT !.pc = "load", !.op = "apply"]
  <2>0. proc["unit"] \in Process
    OBVIOUS
  <2>1. w \in Process /\ w.pc = "load"
    BY <2>0 DEF Process, DaemonOps
  <2>2. proc' = [proc EXCEPT !["unit"] = w]
    BY <1>2 DEF StartUnit, Process
  <2>3. \A q \in Users : At(q, "off")
    BY <1>2 DEF StartUnit, MayStart, IsUser
  <2> HIDE DEF w
  <2>4. \A q \in Users : proc'[q] = proc[q]
    BY <2>2
  <2>5. holder' = holder /\ lockFile' = lockFile
    BY <1>2 DEF StartUnit
  <2>6. proc'["unit"] = w /\ proc' \in [Procs -> Process]
    BY <2>1, <2>2
  <2>7. LockShape' /\ Apart'
    BY <2>3, <2>4, <2>5, <2>6
  <2>8. OneFile' /\ Held'
    BY <2>1, <2>4, <2>5, <2>6
  <2> QED BY <2>7, <2>8
<1>3. CASE StartPost
  <2> DEFINE w == [Off EXCEPT !.pc = "check", !.op = "failsafe"]
  <2>1. w \in Process /\ w.pc = "check"
    BY OffShape DEF Process
  <2>2. proc' = [proc EXCEPT !["unit"] = w]
    BY <1>3 DEF StartPost
  <2> HIDE DEF w
  <2> QED BY <1>3, <2>1, <2>2 DEF StartPost, runDir
<1>4. CASE EndUnit
  BY <1>4, OffShape DEF EndUnit, Off
<1>5. CASE Tick
  <2>1. ASSUME NEW p \in Procs
        PROVE  /\ proc'[p] \in Process /\ proc'[p].pc = proc[p].pc
               /\ proc'[p].lock = proc[p].lock
    <3> DEFINE e == IF proc[p].elapsed <= 3 * Timeout THEN proc[p].elapsed + 1
                                                      ELSE proc[p].elapsed
               l == proc[p].left - 1
               woken == [proc[p] EXCEPT !.asleep = FALSE, !.left = l, !.elapsed = e]
    <3>1. e \in Int /\ l \in Int
      BY DEF Process
    <3> HIDE DEF e, l
    <3> proc[p] \in Process
      OBVIOUS
    <3>2. woken \in Process /\ woken.pc = proc[p].pc /\ woken.lock = proc[p].lock
      BY <3>1 DEF Process
    <3>3. proc'[p] = IF proc[p].asleep THEN woken ELSE proc[p]
      BY <1>5 DEF Tick, e, l, Process
    <3> QED BY <3>2, <3>3
  <2>2. proc' \in [Procs -> Process]
    BY <1>5, <2>1 DEF Tick
  <2>3. holder' = holder /\ lockFile' = lockFile
    BY <1>5 DEF Tick, runDir
  <2>4. LockShape' /\ Apart'
    BY <2>1, <2>2, <2>3
  <2>5. OneFile' /\ Held'
    BY <2>1, <2>3
  <2> QED BY <2>4, <2>5
<1>6. CASE Publish \/ DamageConfig \/ UNCHANGED vars
  BY <1>6 DEF Publish, DamageConfig, vars, runDir
<1> QED BY <1>1, <1>2, <1>3, <1>4, <1>5, <1>6 DEF Next

\* Everyone holds the one lock file, and it has one holder.
LEMMA LockedOut == LockInv => OneController
BY LifecycleAssumption DEF LockInv, OneFile, Held, OneController, Opened

\* In documented use the lock keeps the fans to one process, although the file
\* is opened before it is locked, and removed and created again between runs.
THEOREM OneAtATime == Exclusive => (Spec => []OneController)
<1> SUFFICES ASSUME Exclusive
             PROVE  Spec => []OneController
  OBVIOUS
<1>1. LockInv /\ [Next]_vars => LockInv'
  BY LockStep
<1> QED BY LockInit, <1>1, LockedOut, PTL DEF Spec

-----------------------------------------------------------------------------
(* The startup.                                                            *)

Marking == {"hwmon", "k10temp", "run", "control", "test"}
Settled == {"k10temp", "run", "control", "test"}

\* The windows a process at a point may have used up.
Windows(point) ==
  IF point \in {"off", "load", "check"} THEN 0
  ELSE IF point \in {"profile", "open", "flock", "record"} THEN Timeout
  ELSE IF point = "hwmon" THEN 2 * Timeout
  ELSE 3 * Timeout

\* A process runs under the marker, has the right interface or is about to see
\* whether there is a second channel, and is within its windows.
Timely(r) ==
  /\ r.left >= 0 /\ (r.asleep => r.pc \in Waits /\ r.left >= 1)
  /\ r.elapsed + (IF r.pc \in Waits THEN r.left ELSE 0) <= Windows(r.pc)

Informed(r, published, kind) ==
  /\ r.pc = "hwmon" /\ r.looked
       => "hp" \in published /\ (r.asleep \/ kind = "single" \/ "pwm2" \in published)
  /\ r.pc \in Settled => r.took = kind

Covered(r, marked) == r.pc \in Marking => marked

StartInv ==
  /\ abi \in {"single", "dual"} /\ ("pwm2" \in here => abi = "dual")
  /\ \A p \in Procs : Timely(proc[p]) /\ Informed(proc[p], here, abi)
                      /\ Covered(proc[p], marker)

\* No process has started.
LEMMA StartInit == Init => StartInv
BY LifecycleAssumption
   DEF Init, StartInv, Timely, Informed, Covered, Windows, Off, Waits, Marking, Settled

\* An update by the old value changes nothing.
LEMMA Unchanged ==
  ASSUME NEW r \in Process
  PROVE  [r EXCEPT !.looked = r.looked] = r
BY DEF Process

\* A step of a process leaves its own record in order.
LEMMA OwnStep ==
  ASSUME LockInv, StartInv, NEW p \in Procs, ProcessStep(p)
  PROVE  \E w \in Process : /\ proc' = [proc EXCEPT ![p] = w]
                            /\ Timely(w) /\ Informed(w, here, abi) /\ Covered(w, marker')
<1> DEFINE r == proc[p]
           Good(w) == Timely(w) /\ Informed(w, here, abi) /\ Covered(w, marker')
<1> USE LifecycleAssumption
<1>0. /\ r \in Process /\ proc \in [Procs -> Process]
      /\ Timely(r) /\ Informed(r, here, abi) /\ Covered(r, marker)
      /\ abi \in {"single", "dual"} /\ ("pwm2" \in here => abi = "dual")
  BY DEF LockInv, LockShape, StartInv
<1>1. SUFFICES \E w \in Process : proc' = [proc EXCEPT ![p] = w] /\ Good(w)
  OBVIOUS
<1> USE DEF Timely, Informed, Covered, Windows, Waits, Marking, Settled, At, Goto, Fails
<1>2. ASSUME NEW w \in Process, w.left = r.left, w.elapsed = r.elapsed, w.asleep = r.asleep,
             w.looked = r.looked, w.took = r.took, ~r.asleep,
             marker' = marker \/ w.pc \notin Marking,
             \/ Windows(w.pc) >= Windows(r.pc) /\ w.pc \notin Waits \cup Settled
             \/ r.pc \in Settled /\ w.pc \in Settled \ Waits
      PROVE  Good(w)
  BY <1>0, <1>2 DEF Process
<1>3. ASSUME r.pc = "hwmon", marker', r.elapsed <= 2 * Timeout
      PROVE  LET w == [StartWait(r, "k10temp") EXCEPT !.took = abi]
             IN  w \in Process /\ Good(w)
  <2> DEFINE v == StartWait(r, "k10temp")
             w == [v EXCEPT !.took = abi]
  <2>1. /\ v \in Process /\ v.pc = "k10temp" /\ v.asleep = FALSE /\ v.looked = FALSE
        /\ v.left = Timeout /\ v.elapsed = r.elapsed
    BY <1>0, Waiting
  <2> HIDE DEF v
  <2>2. /\ w \in Process /\ w.pc = "k10temp" /\ w.asleep = FALSE /\ w.looked = FALSE
        /\ w.left = Timeout /\ w.elapsed = r.elapsed /\ w.took = abi
    BY <1>0, <2>1 DEF Process
  <2> HIDE DEF w
  <2>3. Good(w)
    BY <1>3, <2>2, <1>0 DEF Process
  <2> QED BY <2>2, <2>3 DEF w, v
<1>4. ASSUME NEW failed \in {"end", "leave"}, r.pc \in Waits, ~r.asleep, marker' = marker,
             NEW seen \in BOOLEAN,
             r.pc = "hwmon" /\ seen => "hp" \in here,
             r.pc = "hwmon" \/ seen = r.looked
      PROVE  LET w == NotReady([r EXCEPT !.looked = seen], failed)
             IN  w \in Process /\ Good(w)
  <2> DEFINE v == [r EXCEPT !.looked = seen]
             w == NotReady(v, failed)
  <2>1. /\ v \in Process /\ v.pc = r.pc /\ v.asleep = r.asleep /\ v.looked = seen
        /\ v.left = r.left /\ v.elapsed = r.elapsed /\ v.took = r.took
    BY <1>0 DEF Process
  <2> HIDE DEF v
  <2>2. /\ w \in Process /\ w.looked = seen /\ w.left = r.left /\ w.elapsed = r.elapsed
        /\ w.took = r.took
        /\ \/ r.left = 0 /\ w.pc = failed /\ w.asleep = r.asleep
           \/ r.left # 0 /\ w.pc = r.pc /\ w.asleep = TRUE
    BY <2>1, Unready
  <2> HIDE DEF w
  <2>3. r.left \in Int /\ r.elapsed \in Int
    BY <1>0 DEF Process
  <2>4. Good(w)
    BY <1>4, <2>2, <2>3, <1>0
  <2> QED BY <2>2, <2>4 DEF w, v
<1>5. ASSUME NEW point \in {"profile", "hwmon"}, Windows(point) >= r.elapsed + Timeout,
             point = "hwmon" => marker'
      PROVE  StartWait(r, point) \in Process /\ Good(StartWait(r, point))
  <2> DEFINE v == StartWait(r, point)
  <2>1. /\ v \in Process /\ v.pc = point /\ v.asleep = FALSE /\ v.looked = FALSE
        /\ v.left = Timeout /\ v.elapsed = r.elapsed
    <3> point \in Waits
      OBVIOUS
    <3> QED BY <1>0, Waiting
  <2> HIDE DEF v
  <2>2. Good(v)
    BY <1>5, <2>1, <1>0 DEF Process
  <2> QED BY <2>1, <2>2 DEF v
<1>6. r.elapsed \in Int /\ r.left \in Int /\ Timeout \in Nat /\ r.elapsed <= Windows(r.pc)
  BY <1>0 DEF Process
<1> HIDE DEF Timely, Informed, Covered, Good
<1>7. CASE StartUser(p)
  <2> PICK o \in UserOps : proc' = [proc EXCEPT ![p].op = o,
                 ![p].pc = IF o \in DaemonOps THEN "load" ELSE "check"]
    BY <1>7 DEF StartUser
  <2> DEFINE w == [r EXCEPT !.op = o, !.pc = IF o \in DaemonOps THEN "load" ELSE "check"]
  <2>1. w \in Process /\ Good(w)
    BY <1>0, <1>7 DEF StartUser, Good, Timely, Informed, Covered, Process, DaemonOps, Points
  <2> QED BY <2>1, <1>0
<1> DEFINE Goal == \E w \in Process : proc' = [proc EXCEPT ![p] = w] /\ Good(w)
<1>8a. ASSUME NEW point \in Points, Goto(p, point), marker' = marker \/ point \notin Marking,
             r.pc \notin Waits \/ ~r.asleep,
             \/ Windows(point) >= Windows(r.pc) /\ point \notin Waits \cup Settled
             \/ r.pc \in Settled /\ point \in Settled \ Waits
      PROVE  Goal
  <2>1. ~r.asleep
    BY <1>8a, <1>0 DEF Timely
  <2> DEFINE w == [r EXCEPT !.pc = point]
  <2>2. /\ w \in Process /\ w.pc = point /\ w.left = r.left /\ w.elapsed = r.elapsed
        /\ w.asleep = r.asleep /\ w.looked = r.looked /\ w.took = r.took
    BY <1>0 DEF Process
  <2>3. proc' = [proc EXCEPT ![p] = w]
    BY <1>8a, <1>0
  <2> HIDE DEF w
  <2>4. Good(w)
    BY <1>2, <1>8a, <2>1, <2>2
  <2> QED BY <2>2, <2>3, <2>4
<1> SUFFICES Goal
  OBVIOUS
<1> HIDE DEF Goto, Fails, At, Goal
<1>8. CASE LoadSettings(p)
  <2>1. CASE config
    <3>1. proc' = [proc EXCEPT ![p] = StartWait(r, "profile")]
      BY <1>8, <2>1 DEF LoadSettings
    <3>2. StartWait(r, "profile") \in Process /\ Good(StartWait(r, "profile"))
      <4> r.pc = "load"
        BY <1>8 DEF LoadSettings, At
      <4> QED BY <1>5, <1>6
    <3> QED BY <3>1, <3>2 DEF Goal
  <2>2. CASE ~config
    <3>1. Goto(p, "end")
      BY <1>8, <2>2, <1>0 DEF LoadSettings, Goto
    <3>2. marker' = marker /\ r.pc = "load"
      BY <1>8 DEF LoadSettings, runDir, At
    <3>3. "end" \in Points
      BY DEF Points
    <3> QED BY <1>8a, <1>6, <3>1, <3>2, <3>3
  <2> QED BY <2>1, <2>2
<1>9. CASE CheckBoard(p)
  <2>1. Goto(p, "open") \/ Goto(p, "end")
    BY <1>9 DEF CheckBoard
  <2>2. marker' = marker /\ r.pc = "check"
    BY <1>9 DEF CheckBoard, runDir, At
  <2>3. {"open", "end"} \subseteq Points
    BY DEF Points
  <2> QED BY <1>8a, <1>6, <2>1, <2>2, <2>3
<1>10. CASE OpenLock(p)
  <2>1. marker' = marker /\ r.pc = "open"
    BY <1>10 DEF OpenLock, At
  <2>2. CASE Goto(p, "end")
    BY <1>8a, <1>6, <2>1, <2>2 DEF Points
  <2>3. CASE \E i \in OpenedFile : proc' = [proc EXCEPT ![p].pc = "flock", ![p].lock = i]
    <3> PICK i \in Inodes : proc' = [proc EXCEPT ![p].pc = "flock", ![p].lock = i]
      BY <2>3, <1>10 DEF OpenedFile, FreeInodes, LockInv, LockShape
    <3> DEFINE w == [r EXCEPT !.pc = "flock", !.lock = i]
    <3>1. /\ w \in Process /\ w.pc = "flock" /\ w.left = r.left /\ w.elapsed = r.elapsed
          /\ w.asleep = r.asleep /\ w.looked = r.looked /\ w.took = r.took
      BY <1>0 DEF Process, Points
    <3>2. proc' = [proc EXCEPT ![p] = w]
      BY <1>0
    <3> HIDE DEF w
    <3>3. Good(w)
      BY <1>0, <1>2, <1>6, <2>1, <3>1 DEF Timely
    <3> QED BY <3>1, <3>2, <3>3 DEF Goal
  <2> QED BY <1>10, <2>2, <2>3 DEF OpenLock, Fails
<1>11. CASE Flock(p)
  <2>1. marker' = marker /\ r.pc = "flock"
    BY <1>11 DEF Flock, At, runDir
  <2>2. CASE Goto(p, "record") \/ Goto(p, "act")
    BY <1>8a, <1>6, <2>1, <2>2 DEF Points, Holding
  <2>3. CASE Contended(p)
    <3> DEFINE w == [r EXCEPT !.pc = "end", !.lock = NoInode]
    <3>1. /\ w \in Process /\ w.pc = "end" /\ w.left = r.left /\ w.elapsed = r.elapsed
          /\ w.asleep = r.asleep /\ w.looked = r.looked /\ w.took = r.took
      BY <1>0 DEF Process, Points
    <3>2. proc' = [proc EXCEPT ![p] = w]
      BY <1>0, <2>3 DEF Contended
    <3> HIDE DEF w
    <3>3. Good(w)
      BY <1>0, <1>2, <1>6, <2>1, <3>1 DEF Timely
    <3> QED BY <3>1, <3>2, <3>3 DEF Goal
  <2> QED BY <1>11, <2>2, <2>3 DEF Flock
<1>12. CASE Record(p)
  <2>1. r.pc = "record"
    BY <1>12 DEF Record, At
  <2>2. CASE Goto(p, "leave")
    BY <1>8a, <1>6, <2>1, <2>2 DEF Points, Holding
  <2>3. CASE marker' = TRUE /\ proc' = [proc EXCEPT ![p] =
                                 [StartWait(@, "hwmon") EXCEPT !.marked = IsUser(p)]]
    <3> DEFINE v == StartWait(r, "hwmon")
               w == [v EXCEPT !.marked = IsUser(p)]
    <3>1. v \in Process /\ Good(v)
      BY <1>5, <1>6, <2>1, <2>3
    <3> HIDE DEF v
    <3>2. /\ w \in Process /\ w.pc = v.pc /\ w.left = v.left /\ w.elapsed = v.elapsed
          /\ w.asleep = v.asleep /\ w.looked = v.looked /\ w.took = v.took
      BY <3>1 DEF Process, IsUser
    <3>3. proc' = [proc EXCEPT ![p] = w]
      BY <2>3 DEF v
    <3> HIDE DEF w
    <3>4. Good(w)
      BY <3>1, <3>2 DEF Good, Timely, Informed, Covered
    <3> QED BY <3>2, <3>3, <3>4 DEF Goal
  <2> QED BY <1>12, <2>2, <2>3 DEF Record
<1>13. CASE WaitForProfile(p)
  <2>1. marker' = marker /\ r.pc = "profile" /\ ~r.asleep
    BY <1>13 DEF WaitForProfile, Looking, At, runDir
  <2>2. CASE "profile" \in here
    <3>1. Goto(p, "open")
      BY <1>13, <2>2 DEF WaitForProfile, Goto
    <3> QED BY <1>8a, <1>6, <2>1, <3>1 DEF Points
  <2>3. CASE "profile" \notin here
    <3> DEFINE w == NotReady(r, "end")
    <3>1. w \in Process /\ Good(w)
      <4>1. [r EXCEPT !.looked = r.looked] = r /\ r.looked \in BOOLEAN
        BY <1>0, Unchanged DEF Process
      <4> QED BY <1>4, <2>1, <4>1
    <3>2. proc' = [proc EXCEPT ![p] = w]
      BY <1>13, <2>3 DEF WaitForProfile
    <3> QED BY <3>1, <3>2 DEF Goal
  <2> QED BY <2>2, <2>3
<1>14. CASE WaitForHwmon(p)
  <2>1. marker' = marker /\ r.pc = "hwmon" /\ ~r.asleep
    BY <1>14 DEF WaitForHwmon, Looking, At, runDir
  <2>2. CASE Goto(p, "leave")
    BY <1>8a, <1>6, <2>1, <2>2 DEF Points, Holding
  <2>3. ASSUME NEW seen \in BOOLEAN, seen => "hp" \in here,
               proc' = [proc EXCEPT ![p] = NotReady([@ EXCEPT !.looked = seen], "leave")]
        PROVE  Goal
    <3> DEFINE w == NotReady([r EXCEPT !.looked = seen], "leave")
    <3>1. w \in Process /\ Good(w)
      BY <1>4, <2>1, <2>3
    <3>2. proc' = [proc EXCEPT ![p] = w]
      BY <2>3
    <3> QED BY <3>1, <3>2 DEF Goal
  <2>4. CASE /\ "hp" \in here /\ Confirmed(p)
             /\ proc' = [proc EXCEPT ![p] = [StartWait(@, "k10temp") EXCEPT
                  !.took = IF "pwm2" \in here THEN "dual" ELSE "single"]]
    <3> DEFINE w == [StartWait(r, "k10temp") EXCEPT !.took = abi]
    <3>1. (IF "pwm2" \in here THEN "dual" ELSE "single") = abi
      BY <1>0, <2>1, <2>4 DEF Confirmed, Informed
    <3>2. marker' /\ r.elapsed <= 2 * Timeout
      BY <1>0, <1>6, <2>1 DEF Covered
    <3>3. w \in Process /\ Good(w)
      BY <1>3, <2>1, <3>2
    <3>4. proc' = [proc EXCEPT ![p] = w]
      BY <2>4, <3>1
    <3> QED BY <3>3, <3>4 DEF Goal
  <2> QED BY <1>14, <2>2, <2>3, <2>4 DEF WaitForHwmon, Fails
<1>15. CASE WaitForSensors(p)
  <2>1. marker' = marker /\ r.pc = "k10temp" /\ ~r.asleep
    BY <1>15 DEF WaitForSensors, Looking, At, runDir
  <2>2. CASE "k10temp" \in here
    <3>1. Goto(p, "run")
      BY <1>15, <2>2 DEF WaitForSensors, Goto
    <3> QED BY <1>8a, <1>6, <2>1, <3>1 DEF Points, Holding
  <2>3. CASE "k10temp" \notin here
    <3> DEFINE w == NotReady(r, "leave")
    <3>1. w \in Process /\ Good(w)
      <4>1. [r EXCEPT !.looked = r.looked] = r /\ r.looked \in BOOLEAN
        BY <1>0, Unchanged DEF Process
      <4> QED BY <1>4, <2>1, <4>1
    <3>2. proc' = [proc EXCEPT ![p] = w]
      BY <1>15, <2>3 DEF WaitForSensors
    <3> QED BY <3>1, <3>2 DEF Goal
  <2> QED BY <2>2, <2>3
<1>16. CASE Run(p)
  <2>1. marker' = marker /\ r.pc = "run"
    BY <1>16 DEF Run, At, runDir
  <2>2. Goto(p, "control") \/ Goto(p, "test") \/ Goto(p, "leave")
    BY <1>16 DEF Run
  <2> QED BY <1>8a, <1>6, <2>1, <2>2 DEF Points, Holding
<1>17. CASE Control(p)
  <2>1. marker' = marker /\ proc' = [proc EXCEPT ![p] = r]
    BY <1>0, <1>17 DEF Control, runDir
  <2> QED BY <1>0, <2>1 DEF Goal, Good, Covered
<1>18. CASE StopControl(p) \/ StopTest(p)
  <2>1. marker' = marker /\ r.pc \in {"control", "test"} /\ Goto(p, "leave")
    BY <1>18 DEF StopControl, StopTest, At, runDir
  <2> QED BY <1>8a, <1>6, <2>1 DEF Points, Holding
<1>19. CASE Recover(p)
  <2>1. marker' = marker /\ r.pc = "act"
    BY <1>19 DEF Recover, At, runDir
  <2>2. Goto(p, "verify") \/ Goto(p, "close")
    BY <1>19 DEF Recover, Fails
  <2> QED BY <1>8a, <1>6, <2>1, <2>2 DEF Points, Holding
<1>20. CASE Verify(p)
  <2> DEFINE safe == mode \in Expected(r.op)
             w == [r EXCEPT !.pc = IF safe THEN "leave" ELSE "close", !.marked = safe]
  <2>0. safe \in BOOLEAN
    OBVIOUS
  <2> HIDE DEF safe
  <2>1. marker' = marker /\ r.pc = "verify"
    BY <1>20 DEF Verify, At, runDir
  <2>2. /\ w \in Process /\ w.pc \in {"leave", "close"} /\ w.left = r.left
        /\ w.elapsed = r.elapsed /\ w.asleep = r.asleep /\ w.looked = r.looked
        /\ w.took = r.took
    BY <1>0, <2>0 DEF Process, Points, Holding
  <2>3. proc' = [proc EXCEPT ![p] = w]
    BY <1>0, <1>20 DEF Verify, safe
  <2> HIDE DEF w
  <2>4. Good(w)
    BY <1>0, <1>2, <1>6, <2>1, <2>2 DEF Timely
  <2> QED BY <2>2, <2>3, <2>4 DEF Goal
<1>21. CASE Leave(p)
  <2>1. marker' = marker /\ r.pc = "leave"
    BY <1>21 DEF Leave, At, runDir
  <2>2. Goto(p, "unmark") \/ Goto(p, "close")
    BY <1>21 DEF Leave, Fails
  <2> QED BY <1>8a, <1>6, <2>1, <2>2 DEF Points, Holding
<1>22. CASE Unmark(p)
  <2>1. r.pc = "unmark" /\ Goto(p, "close")
    BY <1>22 DEF Unmark, At
  <2> QED BY <1>8a, <1>6, <2>1 DEF Points, Holding
<1>23. CASE Close(p) \/ Kill(p)
  <2> DEFINE w == [Off EXCEPT !.pc = "end", !.op = r.op]
  <2>1. proc' = [proc EXCEPT ![p] = w]
    BY <1>23 DEF Close, Kill
  <2>2. w \in Process /\ w.pc = "end" /\ w.elapsed = 0 /\ w.asleep = FALSE /\ w.left = 0
    BY <1>0, EndShape
  <2> HIDE DEF w
  <2>3. Good(w)
    BY <1>6, <2>2 DEF Good, Timely, Informed, Covered
  <2> QED BY <2>1, <2>2, <2>3 DEF Goal
<1>24. CASE EndUser(p)
  <2>1. proc' = [proc EXCEPT ![p] = Off]
    BY <1>24 DEF EndUser
  <2>2. Good(Off)
    BY DEF Good, Timely, Informed, Covered, Off
  <2> QED BY <2>1, <2>2, OffShape DEF Goal
<1> QED BY <1>7, <1>8, <1>9, <1>10, <1>11, <1>12, <1>13, <1>14, <1>15, <1>16, <1>17, <1>18,
           <1>19, <1>20, <1>21, <1>22, <1>23, <1>24 DEF ProcessStep, Goal

\* Every step of every process and of the board keeps it.
LEMMA StartStep == Exclusive /\ LockInv /\ StartInv /\ [Next]_vars => StartInv'
<1> SUFFICES ASSUME Exclusive, LockInv, StartInv, [Next]_vars
             PROVE  StartInv'
  OBVIOUS
<1> USE LifecycleAssumption
<1>0. proc \in [Procs -> Process] /\ OneController
  BY LockedOut DEF LockInv, LockShape
<1>1. ASSUME NEW p \in Procs, ProcessStep(p)
      PROVE  StartInv'
  <2>1. here' = here /\ abi' = abi
    BY <1>1 DEF ProcessStep, machine, StartUser, LoadSettings, CheckBoard, OpenLock, Flock,
                Record, WaitForProfile, WaitForHwmon, WaitForSensors, Run, Control,
                StopControl, StopTest, Recover, Verify, Leave, Unmark, Close, Kill, EndUser
  <2>2. PICK w \in Process : /\ proc' = [proc EXCEPT ![p] = w]
                             /\ Timely(w) /\ Informed(w, here, abi) /\ Covered(w, marker')
    BY <1>1, OwnStep
  <2>3. marker' = marker \/ marker' = TRUE \/ proc[p].pc = "unmark"
    BY <1>1 DEF ProcessStep, runDir, StartUser, LoadSettings, CheckBoard, OpenLock, Flock,
                Record, WaitForProfile, WaitForHwmon, WaitForSensors, Run, Control,
                StopControl, StopTest, Recover, Verify, Leave, Unmark, Close, Kill, EndUser, At
  <2>4. ASSUME NEW q \in Procs, q # p
        PROVE  Covered(proc[q], marker')
    BY <1>0, <2>3, <2>4 DEF StartInv, Covered, OneController, Marking, Holding
  <2>5. ASSUME NEW q \in Procs
        PROVE  Timely(proc'[q]) /\ Informed(proc'[q], here, abi) /\ Covered(proc'[q], marker')
    BY <1>0, <2>2, <2>4 DEF StartInv
  <2> QED BY <2>1, <2>5 DEF StartInv
<1>2. CASE StartUnit
  <2> DEFINE w == [proc["unit"] EXCEPT !.pc = "load", !.op = "apply"]
  <2>1. proc["unit"] \in Process /\ proc["unit"].pc = "off" /\ Timely(proc["unit"])
    BY <1>0, <1>2 DEF StartUnit, At, StartInv, Procs
  <2>2. /\ w.pc = "load" /\ w.left = proc["unit"].left /\ w.asleep = proc["unit"].asleep
        /\ w.elapsed = proc["unit"].elapsed
    BY <2>1 DEF Process
  <2>3. proc' = [proc EXCEPT !["unit"] = w]
    BY <1>0, <1>2 DEF StartUnit
  <2> HIDE DEF w
  <2>4. Timely(w) /\ Informed(w, here, abi) /\ Covered(w, marker)
    BY <2>1, <2>2 DEF Timely, Informed, Covered, Windows, Waits, Settled, Marking
  <2>5. UNCHANGED <<marker, here, abi>>
    BY <1>2 DEF StartUnit, machine
  <2> QED BY <1>0, <2>3, <2>4, <2>5 DEF StartInv
<1>3. CASE StartPost
  <2> DEFINE w == [Off EXCEPT !.pc = "check", !.op = "failsafe"]
  <2>1. w.pc = "check" /\ w.left = 0 /\ w.asleep = FALSE /\ w.elapsed = 0
    BY DEF Off
  <2>2. proc' = [proc EXCEPT !["unit"] = w]
    BY <1>3 DEF StartPost
  <2> HIDE DEF w
  <2>3. Timely(w) /\ Informed(w, here, abi) /\ Covered(w, marker)
    BY <2>1 DEF Timely, Informed, Covered, Windows, Waits, Settled, Marking
  <2>4. UNCHANGED <<marker, here, abi>>
    BY <1>3 DEF StartPost, machine, runDir
  <2> QED BY <1>0, <2>2, <2>3, <2>4 DEF StartInv
<1>4. CASE EndUnit
  <2>1. proc' = [proc EXCEPT !["unit"] = Off] /\ UNCHANGED <<here, abi>>
    BY <1>4 DEF EndUnit, machine
  <2>2. ASSUME NEW q \in Procs
        PROVE  proc'[q].pc = "off" \/ q = "unit"
    BY <1>0, <1>4, <2>1 DEF LockInv, Apart, EndUnit, At, Procs
  <2>3. proc'["unit"] = Off
    BY <1>0, <2>1 DEF Procs
  <2>4. ASSUME NEW q \in Procs
        PROVE  Timely(proc'[q]) /\ Informed(proc'[q], here, abi) /\ Covered(proc'[q], marker')
    <3>1. CASE q = "unit"
      BY <2>3, <3>1 DEF Timely, Informed, Covered, Windows, Waits, Settled, Marking, Off
    <3>2. CASE q # "unit"
      <4>1. proc'[q] = proc[q] /\ proc[q].pc = "off"
        BY <1>0, <2>1, <2>2, <3>2
      <4> QED BY <4>1 DEF StartInv, Covered, Marking
    <3> QED BY <3>1, <3>2
  <2> QED BY <2>1, <2>4 DEF StartInv
<1>5. CASE Tick
  <2>1. UNCHANGED <<marker, here, abi>> /\ ("hp" \in here /\ abi = "dual" => "pwm2" \in here)
    BY <1>5 DEF Tick, machine, runDir
  <2>2. ASSUME NEW p \in Procs
        PROVE  Timely(proc'[p]) /\ Informed(proc'[p], here, abi) /\ Covered(proc'[p], marker)
    <3> DEFINE r == proc[p]
               e == IF r.elapsed <= 3 * Timeout THEN r.elapsed + 1 ELSE r.elapsed
               l == r.left - 1
               w == [r EXCEPT !.asleep = FALSE, !.left = l, !.elapsed = e]
    <3>1. r \in Process /\ Timely(r) /\ Informed(r, here, abi) /\ Covered(r, marker)
      BY <1>0 DEF StartInv
    <3>2. CASE ~r.asleep
      BY <1>5, <3>1, <3>2 DEF Tick
    <3>3. CASE r.asleep
      <4>1. proc'[p] = w
        BY <1>5, <3>3 DEF Tick
      <4>2. /\ l \in Int /\ e \in Int /\ r.left \in Int /\ r.elapsed \in Int /\ Timeout \in Int
            /\ e + l <= r.elapsed + r.left /\ l >= 0
        BY <3>1, <3>3 DEF Process, Timely
      <4> HIDE DEF e, l
      <4>3. /\ w.asleep = FALSE /\ w.left = l /\ w.elapsed = e /\ w.pc = r.pc
            /\ w.looked = r.looked /\ w.took = r.took
        BY <3>1 DEF Process
      <4> HIDE DEF w
      <4>4. r.pc \in Waits
        BY <3>1, <3>3 DEF Timely
      <4>5. Timely(w)
        BY <3>1, <3>3, <4>2, <4>3, <4>4 DEF Timely, Windows, Waits
      <4>6. Informed(w, here, abi) /\ Covered(w, marker)
        BY <2>1, <3>1, <4>3 DEF Informed, Covered, StartInv
      <4> QED BY <4>1, <4>5, <4>6
    <3> QED BY <3>2, <3>3
  <2> QED BY <2>1, <2>2 DEF StartInv
<1>6. CASE Publish
  BY <1>6 DEF Publish, runDir, StartInv, Informed
<1>7. CASE DamageConfig \/ UNCHANGED vars
  BY <1>7 DEF DamageConfig, vars, runDir, StartInv
<1> QED BY <1>1, <1>2, <1>3, <1>4, <1>5, <1>6, <1>7 DEF Next

\* Lock and start-up are in order throughout.
LEMMA StartUps == Exclusive => (Spec => [](LockInv /\ StartInv))
<1> SUFFICES ASSUME Exclusive
             PROVE  Spec => [](LockInv /\ StartInv)
  OBVIOUS
<1>1. LockInv /\ StartInv /\ [Next]_vars => (LockInv /\ StartInv)'
  BY LockStep, StartStep
<1> QED BY LockInit, StartInit, <1>1, PTL DEF Spec

\* A process that may write Manual mode has the marker beside it, whatever fails
\* or is cleaned up: nobody else can be at the removal, because of the lock.
THEOREM ControlIsMarked == Exclusive => (Spec => []MarkerCoversControl)
<1>1. StartInv => MarkerCoversControl
  BY DEF StartInv, MarkerCoversControl, Covered, Marking
<1> QED BY <1>1, StartUps, PTL

\* A process runs with the interface the machine has: a look that found a single
\* channel is repeated after the time the driver may take for the second one.
THEOREM InterfaceKnown == Exclusive => (Spec => []InterfaceIsReal)
<1>1. StartInv => InterfaceIsReal
  BY DEF StartInv, InterfaceIsReal, Informed, Settled
<1> QED BY <1>1, StartUps, PTL

\* For every length of the windows the three waits end within three of them.
THEOREM StartupBounded == Exclusive => (Spec => []StartupWithinWindows)
<1>1. LockInv /\ StartInv => StartupWithinWindows
  <2> SUFFICES ASSUME LockInv, StartInv, NEW p \in Procs
               PROVE  proc[p].elapsed <= 3 * Timeout
    BY DEF StartupWithinWindows
  <2>1. proc[p] \in Process /\ Timely(proc[p]) /\ Timeout \in Nat
    BY LifecycleAssumption DEF LockInv, LockShape, StartInv
  <2> QED BY <2>1 DEF Timely, Windows, Process
<1> QED BY <1>1, StartUps, PTL

-----------------------------------------------------------------------------
(* Recovery.                                                               *)

\* Manual mode of a process started by hand keeps the marker beside it, and
\* nobody is about to remove the marker in any but a safe mode.
KeptMarker ==
  /\ mode = "manual" /\ by \in Users /\ ~postLost => marker
  /\ \A p \in Procs : At(p, "unmark") => mode \in {"auto", "max"}

\* Only the holder of the lock writes the fans, and Manual only where the
\* marker covers it.
LEMMA FansChange ==
  ASSUME LockInv, NEW p \in Procs, ProcessStep(p)
  PROVE  \/ UNCHANGED fans
         \/ /\ proc[p].pc \in Holding /\ proc'[p].pc # "unmark"
            /\ by' = p /\ marker' = marker
            /\ mode' = "manual" => proc[p].pc \in {"run", "control"}
<1> USE DEF LockInv, LockShape, runDir, At, Goto, Holding, WriteMode, Process
<1>1. CASE Run(p)
  BY <1>1 DEF Run
<1>2. CASE Control(p)
  BY <1>2 DEF Control
<1>3. CASE StopControl(p) \/ StopTest(p)
  BY <1>3 DEF StopControl, StopTest
<1>4. CASE Recover(p)
  BY <1>4 DEF Recover
<1> QED BY <1>1, <1>2, <1>3, <1>4
        DEF ProcessStep, StartUser, LoadSettings, CheckBoard, OpenLock, Flock, Record,
            WaitForProfile, WaitForHwmon, WaitForSensors, Verify, Leave, Unmark, Close, Kill,
            EndUser

\* Only the removal in a safe mode takes the marker away from a process.
LEMMA MarkerChanges ==
  ASSUME LockInv, NEW p \in Procs, ProcessStep(p)
  PROVE  /\ marker' = marker \/ marker' = TRUE \/ At(p, "unmark")
         /\ UNCHANGED fans \/ ~At(p, "unmark")
         /\ proc'[p].pc = "unmark" => mode \in {"auto", "max"} /\ UNCHANGED fans
         /\ \A q \in Procs \ {p} : proc'[q] = proc[q]
<1>0. proc[p] \in Process /\ proc \in [Procs -> Process]
  BY DEF LockInv, LockShape
<1> USE <1>0 DEF runDir, At, Goto
<1>1. CASE StartUser(p)
  <2>1. PICK o \in UserOps : proc' = [proc EXCEPT ![p].op = o,
                 ![p].pc = IF o \in DaemonOps THEN "load" ELSE "check"]
    BY <1>1 DEF StartUser
  <2>2. proc'[p].pc \in {"load", "check"} /\ proc[p].pc = "off"
    BY <1>1, <2>1 DEF StartUser, Process
  <2> QED BY <1>1, <2>1, <2>2 DEF StartUser
<1>14. CASE CheckBoard(p)
  BY <1>14 DEF CheckBoard, Process
<1>2. CASE LoadSettings(p)
  <2>1. proc[p].pc = "load" /\ UNCHANGED <<marker, fans>>
    BY <1>2 DEF LoadSettings
  <2>2. StartWait(proc[p], "profile").pc = "profile"
    BY Waiting DEF Waits
  <2> QED BY <1>2, <2>1, <2>2 DEF LoadSettings
<1>3. CASE OpenLock(p) \/ Flock(p)
  BY <1>3 DEF OpenLock, Flock, Contended, Fails, Process
<1>4. CASE Record(p)
  <2> DEFINE v == StartWait(proc[p], "hwmon")
  <2>1. v \in Process /\ v.pc = "hwmon"
    BY Waiting DEF Waits
  <2> HIDE DEF v
  <2>2. [v EXCEPT !.marked = IsUser(p)].pc = "hwmon"
    BY <2>1
  <2>3. UNCHANGED fans /\ (marker' = marker \/ marker' = TRUE) /\ proc[p].pc = "record"
    BY <1>4 DEF Record
  <2>4. \/ proc' = [proc EXCEPT ![p] = [v EXCEPT !.marked = IsUser(p)]]
        \/ proc' = [proc EXCEPT ![p].pc = "leave"]
    BY <1>4 DEF Record, v
  <2>5. proc'[p].pc \in {"hwmon", "leave"} /\ \A q \in Procs \ {p} : proc'[q] = proc[q]
    BY <2>2, <2>4 DEF Process
  <2> QED BY <2>3, <2>5
<1>5. CASE WaitForProfile(p) \/ WaitForSensors(p)
  <2>1. ASSUME NEW failed \in {"end", "leave"}
        PROVE  NotReady(proc[p], failed).pc \in {failed, proc[p].pc}
    BY Unready
  <2>2. CASE WaitForProfile(p)
    BY <2>1, <2>2 DEF WaitForProfile, Looking
  <2>3. CASE WaitForSensors(p)
    BY <2>1, <2>3 DEF WaitForSensors, Looking
  <2> QED BY <1>5, <2>2, <2>3
<1>6. CASE WaitForHwmon(p)
  <2> DEFINE v(seen) == [proc[p] EXCEPT !.looked = seen]
             k == StartWait(proc[p], "k10temp")
  <2>1. ASSUME NEW seen \in BOOLEAN
        PROVE  v(seen) \in Process /\ v(seen).pc = "hwmon"
    BY <1>6 DEF WaitForHwmon, Looking, Process
  <2>2. k \in Process /\ k.pc = "k10temp"
    BY Waiting DEF Waits
  <2> HIDE DEF v, k
  <2>3. ASSUME NEW seen \in BOOLEAN
        PROVE  NotReady(v(seen), "leave").pc \in {"leave", "hwmon"}
    BY <2>1, Unready
  <2>4. ASSUME NEW took
        PROVE  [k EXCEPT !.took = took].pc = "k10temp"
    BY <2>2 DEF Process
  <2>5. UNCHANGED <<marker, fans>> /\ proc[p].pc = "hwmon"
    BY <1>6 DEF WaitForHwmon, Looking
  <2>6. \/ proc' = [proc EXCEPT ![p] = NotReady(v(FALSE), "leave")]
        \/ proc' = [proc EXCEPT ![p] = NotReady(v(TRUE), "leave")]
        \/ \E took : proc' = [proc EXCEPT ![p] = [k EXCEPT !.took = took]]
        \/ proc' = [proc EXCEPT ![p].pc = "leave"]
    BY <1>6 DEF WaitForHwmon, Fails, v, k
  <2>7. proc'[p].pc \in {"leave", "hwmon", "k10temp"}
    <3>1. CASE proc' = [proc EXCEPT ![p].pc = "leave"]
      BY <3>1 DEF Process
    <3>2. CASE proc' = [proc EXCEPT ![p] = NotReady(v(FALSE), "leave")]
      BY <2>3, <3>2
    <3>3. CASE proc' = [proc EXCEPT ![p] = NotReady(v(TRUE), "leave")]
      BY <2>3, <3>3
    <3>4. CASE \E took : proc' = [proc EXCEPT ![p] = [k EXCEPT !.took = took]]
      BY <2>4, <3>4
    <3> QED BY <2>6, <3>1, <3>2, <3>3, <3>4
  <2>8. \A q \in Procs \ {p} : proc'[q] = proc[q]
    BY <2>6
  <2> QED BY <2>5, <2>7, <2>8
<1>7. CASE Run(p) \/ Control(p)
  BY <1>7 DEF Run, Control, WriteMode, Process
<1>8. CASE StopControl(p) \/ StopTest(p) \/ Recover(p)
  BY <1>8 DEF StopControl, StopTest, Recover, WriteMode, Fails, Process
<1>9. CASE Verify(p)
  BY <1>9 DEF Verify, Process
<1>10. CASE Leave(p)
  BY <1>10 DEF Leave, Fails, MayUnmark, Process
<1>11. CASE Unmark(p)
  BY <1>11 DEF Unmark, Process
<1>12. CASE Close(p) \/ Kill(p)
  <2>1. [Off EXCEPT !.pc = "end", !.op = proc[p].op].pc = "end"
    BY EndShape
  <2> QED BY <1>12, <2>1 DEF Close, Kill
<1>13. CASE EndUser(p)
  BY <1>13 DEF EndUser, Off
<1> QED BY <1>1, <1>2, <1>3, <1>4, <1>5, <1>6, <1>7, <1>8, <1>9, <1>10, <1>11, <1>12, <1>13,
           <1>14 DEF ProcessStep

\* Every step keeps the marker beside Manual mode.
LEMMA KeptStep == Exclusive /\ LockInv /\ StartInv /\ KeptMarker /\ [Next]_vars => KeptMarker'
<1> SUFFICES ASSUME Exclusive, LockInv, StartInv, KeptMarker, [Next]_vars
             PROVE  KeptMarker'
  OBVIOUS
<1>0. proc \in [Procs -> Process] /\ OneController /\ "unit" \notin Users
  BY LockedOut, LifecycleAssumption DEF LockInv, LockShape
<1>1. ASSUME NEW p \in Procs, ProcessStep(p)
      PROVE  KeptMarker'
  <2>1. CASE UNCHANGED fans
    <3>1. ASSUME NEW q \in Procs, proc'[q].pc = "unmark"
          PROVE  mode' \in {"auto", "max"}
      BY <1>1, <2>1, <3>1, MarkerChanges DEF KeptMarker, At, fans
    <3>2. mode = "manual" => marker' = marker \/ marker' = TRUE
      BY <1>1, MarkerChanges DEF KeptMarker, At
    <3> QED BY <2>1, <3>1, <3>2 DEF KeptMarker, At, fans
  <2>2. CASE ~UNCHANGED fans
    <3>1. /\ proc[p].pc \in Holding /\ proc'[p].pc # "unmark"
          /\ by' = p /\ marker' = marker
          /\ mode' = "manual" => proc[p].pc \in {"run", "control"}
      BY <1>1, <2>2, FansChange
    <3>2. ASSUME NEW q \in Procs
          PROVE  proc'[q].pc # "unmark"
      BY <1>0, <1>1, <3>1, MarkerChanges DEF OneController, Holding
    <3>3. mode' = "manual" => marker
      BY <3>1 DEF StartInv, Covered, Marking
    <3> QED BY <3>1, <3>2, <3>3 DEF KeptMarker, At
  <2> QED BY <2>1, <2>2
<1>2. CASE StartUnit
  BY <1>0, <1>2 DEF StartUnit, KeptMarker, At, fans, Process
<1>3. CASE StartPost
  BY <1>0, <1>3 DEF StartPost, KeptMarker, At, fans, runDir, Off
<1>4. CASE EndUnit
  <2>1. /\ mode' = mode /\ by' = by /\ postLost' = (postLost \/ mode = "manual")
        /\ proc' = [proc EXCEPT !["unit"] = Off]
    BY <1>4 DEF EndUnit
  <2>2. ASSUME NEW q \in Procs, proc'[q].pc = "unmark"
        PROVE  mode' \in {"auto", "max"}
    BY <1>0, <2>1, <2>2 DEF KeptMarker, At, Off
  <2> QED BY <2>1, <2>2 DEF KeptMarker, At
<1>5. CASE Tick
  <2>1. \A q \in Procs : proc'[q].pc = proc[q].pc
    BY <1>0, <1>5 DEF Tick, Process
  <2> QED BY <1>5, <2>1 DEF Tick, KeptMarker, At, fans, runDir
<1>6. CASE Publish \/ DamageConfig \/ UNCHANGED vars
  BY <1>6 DEF Publish, DamageConfig, vars, KeptMarker, At, fans, runDir
<1> QED BY <1>1, <1>2, <1>3, <1>4, <1>5, <1>6 DEF Next

\* In documented use Manual mode that a process started by hand leaves behind can
\* be recovered from with a damaged configuration, however the process ended:
\* the marker is there, and is removed in Auto or Max only, by the one process
\* that holds the lock (clear_confirmed_board_if_safe).
THEOREM RecoveryStaysPossible == Exclusive => (Spec => []RecoveryNeverLockedOut)
<1>1. KeptMarker => RecoveryNeverLockedOut
  BY DEF KeptMarker, RecoveryNeverLockedOut, Recoverable
<1>2. Init => KeptMarker
  BY DEF Init, KeptMarker
<1>3. Exclusive /\ (LockInv /\ StartInv) /\ KeptMarker /\ [Next]_vars => KeptMarker'
  BY KeptStep
<1>4. SUFFICES ASSUME Exclusive
               PROVE  Spec => []RecoveryNeverLockedOut
  OBVIOUS
<1>5. (LockInv /\ StartInv) /\ KeptMarker /\ [Next]_vars => KeptMarker'
  BY <1>3, <1>4
<1> QED BY <1>1, <1>2, <1>4, <1>5, StartUps, PTL DEF Spec

-----------------------------------------------------------------------------
(* Types, in documented use and outside of it.                             *)

Sound ==
  { r \in [pc : Points, op : DaemonOps \cup {"restore", "failsafe"},
           lock : Inodes \cup {NoInode}, left : 0..Timeout, elapsed : 0..3 * Timeout + 1,
           asleep : BOOLEAN, looked : BOOLEAN, took : {"none", "single", "dual"},
           marked : BOOLEAN] :
      r.asleep => r.left >= 1 }

SharedOK ==
  /\ lockFile \in Inodes \cup {NoInode} /\ holder \in [Inodes -> Procs \cup {"none"}]
  /\ dir \in BOOLEAN /\ marker \in BOOLEAN /\ config \in BOOLEAN
  /\ mode \in {"auto", "manual", "max"} /\ by \in Procs \cup {"none"}
  /\ postLost \in BOOLEAN /\ abi \in {"single", "dual"}
  /\ here \subseteq {"profile", "hp", "pwm2", "k10temp"}

TypeInv == proc \in [Procs -> Sound] /\ SharedOK

\* The records that the steps of a process leave.
LEMMA SoundGoto ==
  ASSUME NEW r \in Sound, NEW point \in Points
  PROVE  [r EXCEPT !.pc = point] \in Sound
BY DEF Sound

\* A wait starts with all of its time.
LEMMA SoundWait ==
  ASSUME NEW r \in Sound, NEW point \in Waits
  PROVE  StartWait(r, point) \in Sound
<1>1. Timeout \in 0..Timeout
  BY LifecycleAssumption
<1>2. point \in Points
  BY DEF Waits, Points, Holding
<1> QED BY <1>1, <1>2 DEF StartWait, Sound

\* A look that found nothing uses up time of the wait.
LEMMA SoundLook ==
  ASSUME NEW r \in Sound, NEW failed \in Points, ~r.asleep
  PROVE  NotReady(r, failed) \in Sound
<1>1. CASE r.left = 0
  BY <1>1, SoundGoto DEF NotReady
<1>2. CASE r.left # 0
  <2>1. r.left >= 1
    BY <1>2, LifecycleAssumption DEF Sound
  <2> QED BY <1>2, <2>1 DEF NotReady, Sound
<1> QED BY <1>1, <1>2

\* So are the records of a process that has ended.
LEMMA SoundOff ==
  /\ Off \in Sound
  /\ [Off EXCEPT !.pc = "check", !.op = "failsafe"] \in Sound
  /\ \A r \in Sound : [Off EXCEPT !.pc = "end", !.op = r.op] \in Sound
<1>1. 0 \in 0..Timeout /\ 0 \in 0..3 * Timeout + 1
  BY LifecycleAssumption
<1> QED BY <1>1 DEF Off, Sound, Points, DaemonOps

\* A step of a process writes its own record.
LEMMA RecordStep ==
  ASSUME TypeInv, NEW p \in Procs, ProcessStep(p)
  PROVE  \E w \in Sound : proc' = [proc EXCEPT ![p] = w]
<1> DEFINE r == proc[p]
           Goal == \E w \in Sound : proc' = [proc EXCEPT ![p] = w]
<1>0. r \in Sound /\ proc \in [Procs -> Sound]
  BY DEF TypeInv
<1>1. ASSUME NEW point \in Points, Goto(p, point)
      PROVE  Goal
  <2>1. proc' = [proc EXCEPT ![p] = [r EXCEPT !.pc = point]]
    BY <1>1 DEF Goto
  <2> QED BY <1>0, <2>1, SoundGoto
<1> SUFFICES Goal
  OBVIOUS
<1> HIDE DEF Goal
<1> USE DEF Points, Holding
<1>2. CASE StartUser(p)
  <2>1. PICK o \in UserOps : proc' = [proc EXCEPT ![p].op = o,
                 ![p].pc = IF o \in DaemonOps THEN "load" ELSE "check"]
    BY <1>2 DEF StartUser
  <2> DEFINE w == [r EXCEPT !.op = o, !.pc = IF o \in DaemonOps THEN "load" ELSE "check"]
  <2>2. w \in Sound
    BY <1>0, LifecycleAssumption DEF Sound, DaemonOps
  <2>3. proc' = [proc EXCEPT ![p] = w]
    BY <1>0, <2>1
  <2> QED BY <2>2, <2>3 DEF Goal
<1>3. CASE LoadSettings(p)
  <2>1. StartWait(r, "profile") \in Sound /\ [r EXCEPT !.pc = "end"] \in Sound
    BY <1>0, SoundWait, SoundGoto DEF Waits
  <2> QED BY <1>3, <2>1 DEF LoadSettings, Goal
<1>4. CASE CheckBoard(p)
  BY <1>1, <1>4 DEF CheckBoard
<1>5. CASE OpenLock(p)
  <2>1. CASE Goto(p, "end")
    BY <1>1, <2>1
  <2>2. CASE \E i \in OpenedFile : proc' = [proc EXCEPT ![p].pc = "flock", ![p].lock = i]
    <3>1. PICK i \in Inodes : proc' = [proc EXCEPT ![p].pc = "flock", ![p].lock = i]
      BY <2>2 DEF OpenedFile, FreeInodes, TypeInv, SharedOK
    <3>2. [r EXCEPT !.pc = "flock", !.lock = i] \in Sound
      BY <1>0 DEF Sound
    <3>3. proc' = [proc EXCEPT ![p] = [r EXCEPT !.pc = "flock", !.lock = i]]
      BY <1>0, <3>1
    <3> QED BY <3>2, <3>3 DEF Goal
  <2> QED BY <1>5, <2>1, <2>2 DEF OpenLock, Fails
<1>6. CASE Flock(p)
  <2>1. CASE Contended(p)
    <3>1. [r EXCEPT !.pc = "end", !.lock = NoInode] \in Sound
      BY <1>0 DEF Sound
    <3>2. proc' = [proc EXCEPT ![p] = [r EXCEPT !.pc = "end", !.lock = NoInode]]
      BY <1>0, <2>1 DEF Contended
    <3> QED BY <3>1, <3>2 DEF Goal
  <2>2. CASE Goto(p, "record") \/ Goto(p, "act")
    BY <1>1, <2>2
  <2> QED BY <1>6, <2>1, <2>2 DEF Flock
<1>7. CASE Record(p)
  <2> DEFINE v == StartWait(r, "hwmon")
             w == [v EXCEPT !.marked = IsUser(p)]
  <2>1. v \in Sound
    BY <1>0, SoundWait DEF Waits
  <2> HIDE DEF v
  <2>2. w \in Sound
    BY <2>1 DEF Sound, IsUser
  <2>3. CASE proc' = [proc EXCEPT ![p] = w]
    BY <2>2, <2>3 DEF Goal
  <2>4. CASE Goto(p, "leave")
    BY <1>1, <2>4
  <2> QED BY <1>7, <2>3, <2>4 DEF Record, v
<1>8. CASE WaitForProfile(p) \/ WaitForSensors(p)
  <2>1. ~r.asleep
    BY <1>8 DEF WaitForProfile, WaitForSensors, Looking
  <2>2. /\ NotReady(r, "end") \in Sound /\ NotReady(r, "leave") \in Sound
        /\ [r EXCEPT !.pc = "open"] \in Sound /\ [r EXCEPT !.pc = "run"] \in Sound
    BY <1>0, <2>1, SoundLook, SoundGoto
  <2> QED BY <1>8, <2>2 DEF WaitForProfile, WaitForSensors, Goal
<1>9. CASE WaitForHwmon(p)
  <2> DEFINE v(seen) == [r EXCEPT !.looked = seen]
             k == StartWait(r, "k10temp")
             w(kind) == [k EXCEPT !.took = kind]
  <2>1. ASSUME NEW seen \in BOOLEAN
        PROVE  v(seen) \in Sound /\ ~v(seen).asleep
    BY <1>0, <1>9 DEF WaitForHwmon, Looking, Sound
  <2>2. k \in Sound
    BY <1>0, SoundWait DEF Waits
  <2> HIDE DEF v, k
  <2>3. ASSUME NEW seen \in BOOLEAN
        PROVE  NotReady(v(seen), "leave") \in Sound
    BY <2>1, SoundLook
  <2>4. ASSUME NEW kind \in {"single", "dual"}
        PROVE  w(kind) \in Sound
    BY <2>2 DEF Sound
  <2> HIDE DEF w
  <2>5. \/ proc' = [proc EXCEPT ![p] = NotReady(v(FALSE), "leave")]
        \/ proc' = [proc EXCEPT ![p] = NotReady(v(TRUE), "leave")]
        \/ proc' = [proc EXCEPT ![p] = w(IF "pwm2" \in here THEN "dual" ELSE "single")]
        \/ Goto(p, "leave")
    BY <1>9 DEF WaitForHwmon, Fails, v, k, w
  <2>6. CASE Goto(p, "leave")
    BY <1>1, <2>6
  <2>7. NotReady(v(FALSE), "leave") \in Sound /\ NotReady(v(TRUE), "leave") \in Sound
    BY <2>3
  <2>8. w(IF "pwm2" \in here THEN "dual" ELSE "single") \in Sound
    BY <2>4
  <2> QED BY <2>5, <2>6, <2>7, <2>8 DEF Goal
<1>10. CASE Run(p) \/ StopControl(p) \/ StopTest(p) \/ Recover(p) \/ Leave(p) \/ Unmark(p)
  BY <1>1, <1>10 DEF Run, StopControl, StopTest, Recover, Leave, Unmark, Fails
<1>11. CASE Control(p)
  <2>1. proc' = [proc EXCEPT ![p] = r]
    BY <1>0, <1>11 DEF Control
  <2> QED BY <1>0, <2>1 DEF Goal
<1>12. CASE Verify(p)
  <2> DEFINE safe == mode \in Expected(r.op)
             w == [r EXCEPT !.pc = IF safe THEN "leave" ELSE "close", !.marked = safe]
  <2>0. safe \in BOOLEAN
    OBVIOUS
  <2>1. proc' = [proc EXCEPT ![p] = w]
    BY <1>0, <1>12 DEF Verify
  <2> HIDE DEF safe
  <2>2. w \in Sound
    BY <1>0, <2>0 DEF Sound
  <2> QED BY <2>1, <2>2 DEF Goal
<1>13. CASE Close(p) \/ Kill(p)
  BY <1>0, <1>13, SoundOff DEF Close, Kill, Goal
<1>14. CASE EndUser(p)
  BY <1>14, SoundOff DEF EndUser, Goal
<1> QED BY <1>2, <1>3, <1>4, <1>5, <1>6, <1>7, <1>8, <1>9, <1>10, <1>11, <1>12, <1>13, <1>14
        DEF ProcessStep

\* What the processes share.
LEMMA SharedStep ==
  ASSUME TypeInv, NEW p \in Procs, ProcessStep(p)
  PROVE  SharedOK'
<1> USE DEF TypeInv, SharedOK, runDir, fans, machine, WriteMode
<1>1. CASE StartUser(p) \/ LoadSettings(p) \/ CheckBoard(p) \/ Record(p)
  BY <1>1 DEF StartUser, LoadSettings, CheckBoard, Record
<1>2. CASE OpenLock(p)
  BY <1>2 DEF OpenLock, OpenedFile, FreeInodes
<1>3. CASE Flock(p)
  <2>1. holder' = holder \/ holder' = [holder EXCEPT ![proc[p].lock] = p]
    BY <1>3 DEF Flock
  <2> QED BY <1>3, <2>1 DEF Flock
<1>4. CASE WaitForProfile(p) \/ WaitForHwmon(p) \/ WaitForSensors(p) \/ Verify(p) \/ Leave(p)
  BY <1>4 DEF WaitForProfile, WaitForHwmon, WaitForSensors, Verify, Leave
<1>5. CASE Run(p) \/ Control(p) \/ StopControl(p) \/ StopTest(p) \/ Recover(p)
  BY <1>5 DEF Run, Control, StopControl, StopTest, Recover
<1>6. CASE Unmark(p) \/ EndUser(p)
  BY <1>6 DEF Unmark, EndUser
<1>7. CASE Close(p) \/ Kill(p)
  BY <1>7 DEF Close, Kill, Released
<1> QED BY <1>1, <1>2, <1>3, <1>4, <1>5, <1>6, <1>7 DEF ProcessStep

\* Every step keeps the types.
LEMMA TypeStep == TypeInv /\ [Next]_vars => TypeInv'
<1> SUFFICES ASSUME TypeInv, [Next]_vars
             PROVE  TypeInv'
  OBVIOUS
<1>0. proc \in [Procs -> Sound] /\ "unit" \in Procs
  BY DEF TypeInv, Procs
<1>1. ASSUME NEW p \in Procs, ProcessStep(p)
      PROVE  TypeInv'
  <2>1. PICK w \in Sound : proc' = [proc EXCEPT ![p] = w]
    BY <1>1, RecordStep
  <2> QED BY <1>0, <1>1, <2>1, SharedStep DEF TypeInv
<1>2. CASE StartUnit
  <2> DEFINE w == [proc["unit"] EXCEPT !.pc = "load", !.op = "apply"]
  <2>0. proc["unit"] \in Sound
    BY <1>0
  <2>1. w \in Sound
    BY <2>0 DEF Sound, Points, DaemonOps
  <2>2. proc' = [proc EXCEPT !["unit"] = w]
    BY <1>0, <1>2 DEF StartUnit
  <2>3. SharedOK'
    BY <1>2 DEF StartUnit, TypeInv, SharedOK, fans, machine
  <2> QED BY <1>0, <2>1, <2>2, <2>3 DEF TypeInv
<1>3. CASE StartPost
  BY <1>0, <1>3, SoundOff DEF StartPost, TypeInv, SharedOK, runDir, fans, machine
<1>4. CASE EndUnit
  BY <1>0, <1>4, SoundOff DEF EndUnit, TypeInv, SharedOK, machine
<1>5. CASE Tick
  <2>1. ASSUME NEW p \in Procs
        PROVE  proc'[p] \in Sound
    <3> DEFINE r == proc[p]
               e == IF r.elapsed <= 3 * Timeout THEN r.elapsed + 1 ELSE r.elapsed
               l == r.left - 1
    <3>1. r \in Sound
      BY <1>0
    <3>2. r.asleep => l \in 0..Timeout
      BY <3>1, LifecycleAssumption DEF Sound
    <3>3. e \in 0..3 * Timeout + 1
      BY <3>1, LifecycleAssumption DEF Sound
    <3> HIDE DEF e, l
    <3>4. proc'[p] = IF r.asleep THEN [r EXCEPT !.asleep = FALSE, !.left = l, !.elapsed = e]
                                 ELSE r
      BY <1>5, <3>1 DEF Tick, e, l, Sound
    <3>5. CASE r.asleep
      BY <3>1, <3>2, <3>3, <3>4, <3>5 DEF Sound
    <3>6. CASE ~r.asleep
      BY <3>1, <3>4, <3>6
    <3> QED BY <3>5, <3>6
  <2>2. proc' \in [Procs -> Sound]
    BY <1>5, <2>1 DEF Tick
  <2> QED BY <1>5, <2>2 DEF Tick, TypeInv, SharedOK, runDir, fans, machine
<1>6. CASE Publish
  BY <1>6 DEF Publish, TypeInv, SharedOK, runDir, fans
<1>7. CASE DamageConfig \/ UNCHANGED vars
  BY <1>7 DEF DamageConfig, vars, TypeInv, SharedOK, runDir, fans
<1> QED BY <1>1, <1>2, <1>3, <1>4, <1>5, <1>6, <1>7 DEF Next

\* Every variable keeps its range, with the service and processes started by
\* hand apart or beside each other: in particular no wait sleeps past its
\* deadline, however the looks, the kills and the ticks fall.
THEOREM LifecycleTypeCorrect == Spec => []LifecycleTypeOK
<1>1. Init => TypeInv
  BY SoundOff DEF Init, TypeInv, SharedOK
<1>2. TypeInv => LifecycleTypeOK
  BY DEF TypeInv, Sound, SharedOK, LifecycleTypeOK
<1> QED BY <1>1, <1>2, TypeStep, PTL DEF Spec

=============================================================================
