---------------------------- MODULE DeviceProofs ----------------------------
(***************************************************************************)
(* Theorems about the devices.  The timers of the SMP, for any number of   *)
(* them, any frequency, wait and width.  And what a cartridge brings: the  *)
(* interrupts of the SA-1, for any timer and any values a program writes,  *)
(* the reading of the Epson clock, for any length of a second and any      *)
(* register contents, the bus, for any maps laid over one another and any  *)
(* number of handlers, and where in a memory of any size it leads, the     *)
(* flash memory, for any number and size of blocks, the time that the      *)
(* Sharp clock shows, for any date and any time without the emulator, and  *)
(* the time that the Epson clock shows, for any digits, writes, holds and  *)
(* any time without the emulator.                                          *)
(***************************************************************************)
EXTENDS SmpTimers, EpsonRtc, SharpRtc, Sa1, Bus, Flash, AluProofs, FiniteSetTheorems, TLAPS

-----------------------------------------------------------------------------
(* The SMP's timers *)

\* The inductive invariant of the timers.
TimersInv == TypeOK /\ LineFollows /\ NoClockLost /\ OffMeansZero

\* A rest is below its divisor.
LEMMA RestBelow == ASSUME NEW a \in Nat, NEW b \in Nat \ {0} PROVE a % b \in 0..(b - 1)
OBVIOUS

\* synchronizeStage1 keeps the types, counts nothing for a timer that is off,
\* and leaves every timer it visits with the line its inputs give.
LEMMA SyncKeeps ==
  ASSUME TypeOK, OffMeansZero, NEW S \in SUBSET Timer, NEW high \in SUBSET Timer,
         synchronizeStage1(S, high)
  PROVE  /\ stage2' \in [Timer -> 0..(Stage2Size - 1)]
         /\ stage3' \in [Timer -> 0..(Stage3Size - 1)]
         /\ line' = (line \ S) \cup (S \cap high)
         /\ \A t \in Inverted \ enable : stage2'[t] = 0 /\ stage3'[t] = 0
<1> DEFINE counts == {t \in S \cap enable : t \in line /\ t \notin high}
<1>1. /\ line' = (line \ S) \cup (S \cap high)
      /\ stage2' = [t \in Timer |->
           IF t \notin counts THEN stage2[t] ELSE IF Expires(t) THEN 0 ELSE next2(t)]
      /\ stage3' = [t \in Timer |->
           IF t \in counts /\ Expires(t) THEN (stage3[t] + 1) % Stage3Size ELSE stage3[t]]
  BY DEF synchronizeStage1
<1>2. \A t \in counts : t \in enable
  OBVIOUS
<1> HIDE DEF counts
<1>3. ASSUME NEW t \in Timer
      PROVE  /\ stage2[t] \in 0..(Stage2Size - 1) /\ stage3[t] \in 0..(Stage3Size - 1)
             /\ next2(t) \in 0..(Stage2Size - 1) /\ 0 \in 0..(Stage2Size - 1)
             /\ (stage3[t] + 1) % Stage3Size \in 0..(Stage3Size - 1)
  <2>1. stage2[t] \in 0..(Stage2Size - 1) /\ stage3[t] \in 0..(Stage3Size - 1)
    BY DEF TypeOK
  <2>2. /\ stage2[t] + 1 \in Nat /\ stage3[t] + 1 \in Nat
        /\ Stage2Size \in Nat \ {0} /\ Stage3Size \in Nat \ {0}
    BY <2>1, TimerAssumption
  <2>3. next2(t) \in 0..(Stage2Size - 1)
    BY <2>2, RestBelow DEF next2
  <2>4. (stage3[t] + 1) % Stage3Size \in 0..(Stage3Size - 1)
    BY <2>2, RestBelow
  <2>5. 0 \in 0..(Stage2Size - 1)
    BY <2>2
  <2> QED BY <2>1, <2>3, <2>4, <2>5
<1>4. stage2' \in [Timer -> 0..(Stage2Size - 1)]
  BY <1>1, <1>3
<1>5. stage3' \in [Timer -> 0..(Stage3Size - 1)]
  BY <1>1, <1>3
<1>6. \A t \in Inverted \ enable : stage2'[t] = 0 /\ stage3'[t] = 0
  BY <1>1, <1>2, TimerAssumption DEF OffMeansZero
<1> QED BY <1>1, <1>4, <1>5, <1>6

\* The state of power on; target 0 and the other zeros are in range.
Off == /\ stage0 = Zeros /\ stage1 = Zeros /\ stage2 = Zeros /\ stage3 = Zeros
       /\ line = {} /\ enable = {} /\ target = Zeros /\ elapsed = Zeros
       /\ timersEnable = TRUE /\ timersDisable = FALSE /\ retargeted = {}

\* Timers that are off satisfy the invariant, ...
LEMMA OffTimersInv == Off => TimersInv
<1> SUFFICES ASSUME Off PROVE TimersInv
  OBVIOUS
<1>1. \A t \in Timer : 0 \in Nat /\ 0 < Frequency[t] /\ 0 \in 0..(Stage2Size - 1)
                     /\ 0 \in 0..(Stage3Size - 1)
  BY TimerAssumption
<1>2. Zeros \in [Timer -> {0}] /\ Inverted \subseteq Timer
  BY TimerAssumption DEF Zeros
<1>3. TypeOK
  BY <1>1, <1>2 DEF Off, TypeOK
<1>4. LineFollows
  BY <1>2 DEF Off, LineFollows, level
<1>5. NoClockLost /\ OffMeansZero
  BY <1>2 DEF Off, NoClockLost, OffMeansZero
<1> QED BY <1>3, <1>4, <1>5 DEF TimersInv

\* ... at first, ...
LEMMA TimersFirst == Init => TimersInv
<1>1. Init => Off
  BY DEF Init, Off
<1> QED BY <1>1, OffTimersInv

\* ... and after each power on.
LEMMA PowerKeeps == power => TimersInv'
<1>1. power => Off'
  BY DEF power, Off
<1>2. Off' => TimersInv'
  BY OffTimersInv, PTL
<1> QED BY <1>1, <1>2

\* The n of a bus cycle.
LEMMA StepKeeps ==
  ASSUME TimersInv, NEW n \in Waits, stepTimers(n) PROVE TimersInv'
<1> DEFINE wraps == {t \in Timer : stage0[t] + n >= Frequency[t]}
           s1 == [t \in Timer |-> IF t \in wraps THEN 1 - stage1[t] ELSE stage1[t]]
<1>1. /\ stage0' = [t \in Timer |-> Left(t, n)] /\ stage1' = s1
      /\ synchronizeStage1(wraps, level(s1, timersEnable, timersDisable))
      /\ elapsed' = [t \in Timer |->
           IF elapsed[t] + n < 2 * Frequency[t]
           THEN elapsed[t] + n ELSE elapsed[t] + n - 2 * Frequency[t]]
      /\ UNCHANGED <<enable, target, test, retargeted>>
  BY DEF stepTimers
<1>2. TypeOK /\ LineFollows /\ NoClockLost /\ OffMeansZero
  BY DEF TimersInv
<1>3. n \in Nat /\ \A t \in Timer : n <= Frequency[t] /\ Frequency[t] \in Nat \ {0}
  BY WaitsAssumption, TimerAssumption
<1>4. /\ stage2' \in [Timer -> 0..(Stage2Size - 1)] /\ stage3' \in [Timer -> 0..(Stage3Size - 1)]
      /\ line' = (line \ wraps) \cup (wraps \cap level(s1, timersEnable, timersDisable))
      /\ \A t \in Inverted \ enable : stage2'[t] = 0 /\ stage3'[t] = 0
  <2>1. wraps \in SUBSET Timer /\ level(s1, timersEnable, timersDisable) \in SUBSET Timer
    BY DEF level
  <2> HIDE DEF wraps, s1
  <2> QED BY <1>1, <1>2, <2>1, SyncKeeps
<1>5. ASSUME NEW t \in Timer
      PROVE  /\ stage0[t] \in Nat /\ stage0[t] < Frequency[t] /\ stage1[t] \in {0, 1}
             /\ elapsed[t] = stage0[t] + IF stage1[t] = 1 THEN Frequency[t] ELSE 0
  BY <1>2 DEF TypeOK, NoClockLost
<1>6. ASSUME NEW t \in Timer
      PROVE  /\ stage0'[t] \in Nat /\ stage0'[t] < Frequency[t] /\ stage1'[t] \in {0, 1}
             /\ elapsed'[t] \in Nat
             /\ elapsed'[t] = stage0'[t] + IF stage1'[t] = 1 THEN Frequency[t] ELSE 0
  BY <1>1, <1>3, <1>5 DEF Left
<1>7. TypeOK'
  <2>1. stage0' \in [Timer -> Nat] /\ elapsed' \in [Timer -> Nat]
    BY <1>1, <1>6
  <2>2. stage1' \in [Timer -> {0, 1}]
    BY <1>1, <1>6
  <2> QED BY <1>1, <1>2, <1>4, <1>6, <2>1, <2>2 DEF TypeOK, test
<1>8. LineFollows'
  <2>1. \A t \in Timer \ wraps : s1[t] = stage1[t]
    OBVIOUS
  <2>2. line = level(stage1, timersEnable, timersDisable) /\ stage1' = s1
        /\ timersEnable' = timersEnable /\ timersDisable' = timersDisable
    BY <1>1, <1>2 DEF LineFollows, test
  <2> HIDE DEF wraps, s1
  <2>3. line' = level(s1, timersEnable, timersDisable)
    BY <1>4, <2>1, <2>2 DEF level
  <2> QED BY <2>2, <2>3 DEF LineFollows
<1>9. NoClockLost'
  BY <1>6 DEF NoClockLost
<1>10. OffMeansZero'
  BY <1>1, <1>4 DEF OffMeansZero
<1> QED BY <1>7, <1>8, <1>9, <1>10 DEF TimersInv

\* A write to $f1, which clears the timers that it enables, or disables: Clears.
LEMMA ControlKeeps ==
  ASSUME TimersInv, NEW on \in SUBSET Timer, WriteControl(on) PROVE TimersInv'
<1> USE DEF WriteControl, clocking, test
<1>1. TypeOK'
  BY TimerAssumption DEF TimersInv, TypeOK
<1>2. LineFollows' /\ NoClockLost'
  BY DEF TimersInv, LineFollows, NoClockLost, level
<1>3. OffMeansZero'
  <2> SUFFICES ASSUME NEW t \in Inverted, t \notin on
               PROVE  stage2'[t] = 0 /\ stage3'[t] = 0
    BY DEF OffMeansZero
  <2>1. t \in Timer /\ t \notin on
    BY TimerAssumption
  <2>2. Clears(t, on)
    BY <2>1 DEF Clears, Rises
  <2> QED BY <2>1, <2>2
<1> QED BY <1>1, <1>2, <1>3 DEF TimersInv

\* Every step.
LEMMA TimersStep == ASSUME TimersInv, [Next]_vars PROVE TimersInv'
<1>1. ASSUME NEW n \in Waits, stepTimers(n) PROVE TimersInv'
  BY <1>1, StepKeeps
<1>2. ASSUME NEW on \in BOOLEAN, NEW off \in BOOLEAN, WriteTest(on, off) PROVE TimersInv'
  <2>1. /\ TypeOK /\ LineFollows /\ NoClockLost /\ OffMeansZero
        /\ synchronizeStage1(Timer, level(stage1, on, off))
        /\ timersEnable' = on /\ timersDisable' = off
        /\ UNCHANGED <<clocking, enable, target, retargeted>>
    BY <1>2 DEF TimersInv, WriteTest
  <2>2. /\ stage2' \in [Timer -> 0..(Stage2Size - 1)] /\ stage3' \in [Timer -> 0..(Stage3Size - 1)]
        /\ line' = level(stage1, on, off)
        /\ \A t \in Inverted \ enable : stage2'[t] = 0 /\ stage3'[t] = 0
    <3>1. level(stage1, on, off) \in SUBSET Timer /\ line \in SUBSET Timer
      BY <2>1 DEF level, TypeOK
    <3>2. line' = (line \ Timer) \cup (Timer \cap level(stage1, on, off))
      BY <2>1, <3>1, SyncKeeps
    <3> QED BY <2>1, <3>1, <3>2, SyncKeeps
  <2>3. TypeOK'
    BY <2>1, <2>2 DEF TypeOK, clocking, level
  <2>4. LineFollows'
    BY <2>1, <2>2 DEF LineFollows, clocking
  <2>5. NoClockLost' /\ OffMeansZero'
    BY <2>1, <2>2 DEF NoClockLost, OffMeansZero, clocking
  <2> QED BY <2>3, <2>4, <2>5 DEF TimersInv
<1>3. ASSUME NEW on \in SUBSET Timer, WriteControl(on) PROVE TimersInv'
  BY <1>3, ControlKeeps
<1>4. ASSUME NEW t \in Timer, NEW x \in Target, WriteTarget(t, x) PROVE TimersInv'
  BY <1>4 DEF WriteTarget, TimersInv, TypeOK, LineFollows, NoClockLost, OffMeansZero, level,
              clocking, counting, test
<1>5. ASSUME NEW t \in Timer, ReadOut(t) PROVE TimersInv'
  BY <1>5, TimerAssumption
     DEF ReadOut, TimersInv, TypeOK, LineFollows, NoClockLost, OffMeansZero, level, clocking, test
<1>6. CASE power
  BY <1>6, PowerKeeps
<1>7. CASE UNCHANGED vars
  BY <1>7 DEF vars, TimersInv, TypeOK, LineFollows, NoClockLost, OffMeansZero, level,
              clocking, counting, test
<1> QED BY <1>1, <1>2, <1>3, <1>4, <1>5, <1>6, <1>7 DEF Next

\* The state of the timers that every history of bus cycles and register
\* accesses leaves behind.
THEOREM TimersInductive == Spec => []TimersInv
<1>1. TimersInv /\ [Next]_vars => TimersInv'
  BY TimersStep
<1> QED BY TimersFirst, <1>1, PTL DEF Spec

\* The timers' variables keep their types.
THEOREM TimersTypes == Spec => []TypeOK
<1>1. TimersInv => TypeOK
  BY DEF TimersInv
<1> QED BY <1>1, TimersInductive, PTL

\* NoClockLost: no clock of stepTimers is lost or counted twice by stages 0 and 1
\* (sfc/smp/timing.cpp Timer::step).
THEOREM ClocksKept == Spec => []NoClockLost
<1>1. TimersInv => NoClockLost
  BY DEF TimersInv
<1> QED BY <1>1, TimersInductive, PTL

\* LineFollows: the gated copy of stage 1 is never stale (synchronizeStage1).
THEOREM LineNeverStale == Spec => []LineFollows
<1>1. TimersInv => LineFollows
  BY DEF TimersInv
<1> QED BY <1>1, TimersInductive, PTL

\* StartsFromZero: whatever writeIO clears when, an enabled timer starts from 0.
THEOREM EnabledFromZero == Spec => StartsFromZero
<1> DEFINE FromZero ==
      \A t \in enable' \ enable : stage2'[t] = 0 /\ stage3'[t] = 0
<1>1. ASSUME TimersInv, NEW on \in SUBSET Timer, WriteControl(on) PROVE FromZero
  <2> SUFFICES ASSUME NEW t \in Timer, t \in enable' \ enable
               PROVE  stage2'[t] = 0 /\ stage3'[t] = 0
    BY <1>1 DEF WriteControl
  <2>1. Rises(t, on)
    BY <1>1 DEF WriteControl, Rises
  <2>2. CASE t \in Inverted
    <3>1. ~Clears(t, on) /\ stage2[t] = 0 /\ stage3[t] = 0
      BY <1>1, <2>1, <2>2 DEF Clears, TimersInv, OffMeansZero
    <3> QED BY <1>1, <3>1 DEF WriteControl
  <2>3. CASE t \notin Inverted
    BY <1>1, <2>1, <2>3 DEF WriteControl, Clears
  <2> QED BY <2>2, <2>3
<1>2. ASSUME TimersInv, [Next]_vars, enable' # enable PROVE FromZero
  <2>1. CASE power
    BY <2>1 DEF power
  <2>2. CASE \E on \in SUBSET Timer : WriteControl(on)
    BY <1>1, <1>2, <2>2
  <2> QED BY <1>2, <2>1, <2>2
          DEF Next, stepTimers, WriteTest, WriteTarget, ReadOut, vars
<1>3. TimersInv /\ [Next]_vars => [FromZero]_vars
  BY <1>2
<1>4. StartsFromZero <=> [][FromZero]_vars
  BY DEF StartsFromZero
<1> HIDE DEF FromZero
<1> QED BY <1>3, <1>4, TimersInductive, PTL DEF Spec

\* A target that is not zero is in reach of the count.
LEMMA TargetType ==
  ASSUME TypeOK, NEW t \in Timer
  PROVE  target[t] \in Nat /\ (target[t] # 0 => target[t] < Stage2Size)
<1>1. target[t] \in Target \/ target[t] = 0
  BY DEF TypeOK
<1>2. \A x \in Target : x \in 0..(Stage2Size - 1)
  BY TimerAssumption
<1>3. Stage2Size \in Nat
  BY TimerAssumption
<1> QED BY <1>1, <1>2, <1>3

\* A count that is below its target reaches it only by starting again from zero.
LEMMA CountStaysBelow ==
  ASSUME TypeOK, NEW S \in SUBSET Timer, NEW high, synchronizeStage1(S, high),
         NEW t \in Timer, target[t] = 0 \/ stage2[t] < target[t]
  PROVE  target[t] = 0 \/ stage2'[t] < target[t]
<1> SUFFICES ASSUME target[t] # 0 PROVE stage2'[t] < target[t]
  OBVIOUS
<1>1. /\ stage2[t] \in Nat /\ stage2[t] < target[t] /\ target[t] \in Nat
      /\ target[t] < Stage2Size /\ Stage2Size \in Nat
  <2>1. stage2[t] \in 0..(Stage2Size - 1) /\ stage2[t] < target[t]
    BY DEF TypeOK
  <2> QED BY <2>1, TargetType, TimerAssumption
<1>2. next2(t) = stage2[t] + 1
  BY <1>1 DEF next2
<1>3. \/ stage2'[t] = stage2[t]
      \/ stage2'[t] = IF Expires(t) THEN 0 ELSE next2(t)
  BY DEF synchronizeStage1
<1> QED BY <1>1, <1>2, <1>3 DEF Expires

\* Every step keeps counts below their targets.
LEMMA BelowStep ==
  ASSUME TimersInv, CountBelowTarget, [Next]_vars PROVE CountBelowTarget'
<1>1. TypeOK /\ OffMeansZero /\ TimersInv'
  BY TimersStep DEF TimersInv
<1>2. ASSUME NEW n \in Waits, stepTimers(n) PROVE CountBelowTarget'
  <2>1. PICK S \in SUBSET Timer : \E high : synchronizeStage1(S, high)
    BY <1>2 DEF stepTimers
  <2>2. target' = target /\ retargeted' = retargeted
    BY <1>2 DEF stepTimers
  <2> QED BY <1>1, <2>1, <2>2, CountStaysBelow DEF CountBelowTarget
<1>3. ASSUME NEW on \in BOOLEAN, NEW off \in BOOLEAN, WriteTest(on, off)
      PROVE  CountBelowTarget'
  <2>1. /\ synchronizeStage1(Timer, level(stage1, on, off))
        /\ target' = target /\ retargeted' = retargeted
    BY <1>3 DEF WriteTest
  <2> QED BY <1>1, <2>1, CountStaysBelow DEF CountBelowTarget
\* A timer whose target was changed counts from zero when it is enabled again.
<1>4. ASSUME NEW on \in SUBSET Timer, WriteControl(on) PROVE CountBelowTarget'
  <2> SUFFICES ASSUME NEW t \in Timer \ retargeted'
               PROVE  target'[t] = 0 \/ stage2'[t] < target'[t]
    BY DEF CountBelowTarget
  <2>1. target' = target /\ target[t] \in Nat /\ (stage2'[t] = stage2[t] \/ stage2'[t] = 0)
    BY <1>1, <1>4, TargetType DEF WriteControl
  <2>2. CASE t \notin retargeted
    BY <2>1, <2>2 DEF CountBelowTarget
  <2>3. CASE t \in retargeted
    <3>1. Rises(t, on)
      BY <1>4, <2>3 DEF WriteControl
    <3>2. stage2'[t] = 0
      BY <1>1, <1>4, <3>1 DEF WriteControl, Clears, Rises, OffMeansZero
    <3> QED BY <2>1, <3>2
  <2> QED BY <2>2, <2>3
<1>5. ASSUME NEW t \in Timer, NEW x \in Target, WriteTarget(t, x) PROVE CountBelowTarget'
  BY <1>1, <1>5 DEF WriteTarget, CountBelowTarget, counting, TypeOK
<1>6. ASSUME NEW t \in Timer, ReadOut(t) PROVE CountBelowTarget'
  BY <1>6 DEF ReadOut, CountBelowTarget
<1>7. CASE power
  BY <1>7 DEF power, CountBelowTarget, Zeros
<1>8. CASE UNCHANGED vars
  BY <1>8 DEF vars, counting, CountBelowTarget
<1> QED BY <1>2, <1>3, <1>4, <1>5, <1>6, <1>7, <1>8 DEF Next

\* CountBelowTarget: the comparison for equality does not miss the target
\* (synchronizeStage1), also when timer 2 is enabled without being cleared.
THEOREM CountsStayBelow == Spec => []CountBelowTarget
<1>1. Init => CountBelowTarget
  BY DEF Init, CountBelowTarget, Zeros
<1>2. TimersInv /\ CountBelowTarget /\ [Next]_vars => CountBelowTarget'
  BY BelowStep
<1> QED BY <1>1, <1>2, TimersInductive, PTL DEF Spec

-----------------------------------------------------------------------------
(* SA-1: the S-CPU's line *)

\* The line is up whenever a flag is set and enabled, and only for a flag.
THEOREM LineStaysHeld == Sa1Spec => []LineHeld
<1>1. Sa1Init => LineHeld
  BY DEF Sa1Init, LineHeld
<1>2. LineHeld /\ [Sa1Next]_sa1Vars => LineHeld'
  <2> SUFFICES ASSUME LineHeld, [Sa1Next]_sa1Vars PROVE LineHeld'
    OBVIOUS
  <2>1. CASE CpuSignals
    <3>1. ASSUME NEW set \in SUBSET CpuSources, WriteSIE(set) PROVE LineHeld'
      BY <3>1 DEF LineHeld, WriteSIE
    <3>2. ASSUME NEW set \in SUBSET CpuSources, WriteSIC(set) PROVE LineHeld'
      BY <3>2 DEF LineHeld, WriteSIC
    <3>3. ASSUME NEW source, ToCpu(source) PROVE LineHeld'
      BY <3>3 DEF LineHeld, ToCpu
    <3> QED BY <2>1, <3>1, <3>2, <3>3 DEF CpuSignals, DmaCC1, WriteSCNT
  <2>2. CASE UNCHANGED cpuSide
    BY <2>2 DEF LineHeld, cpuSide
  <2>3. CASE Sa1Power
    BY <2>3 DEF LineHeld, Sa1Power
  <2>4. Sa1Runs => UNCHANGED cpuSide
    BY DEF Sa1Runs, cpuSide, WriteCCNT, DmaByCpu, Sa1Step, StepTimer, Begin65816, Sleep,
      Interrupt65816, LastCycle, Flags65816, WaitOrStop, WriteTimer, WriteCIE, WriteCIC,
      DmaBegins, DmaEnds
  <2> QED BY <2>1, <2>2, <2>3, <2>4 DEF Sa1Next, sa1Vars, cpuSide
<1> QED BY <1>1, <1>2, PTL DEF Sa1Spec

-----------------------------------------------------------------------------
(* SA-1: events of the timer and of DMA *)

\* What an event that is flagged and enabled relies on: it is not masked off by
\* an acknowledgement, whichever came first.
NotCleared == flag \cap enabled \cap cleared \cap {"timer", "dma"} = {}

\* triggerIRQ() and the end of a DMA set a flag and take its mask away.
LEMMA EventNotCleared ==
  ASSUME NotCleared, NEW source, ToSa1(source) PROVE NotCleared'
BY DEF NotCleared, ToSa1

\* A poll adds the flag of a source only when that is not masked.
LEMMA PollNotCleared ==
  ASSUME NotCleared, Poll, UNCHANGED enabled PROVE NotCleared'
<1>1. ASSUME NEW source \in Sa1Sources, Requests(source), Accept(source) PROVE NotCleared'
  BY <1>1 DEF NotCleared, Accept, Requests, Sa1Sources
<1>2. CASE UNCHANGED <<pending, wai, flag, cleared>>
  BY <1>2 DEF NotCleared
<1> QED BY <1>1, <1>2 DEF Poll, Sa1Sources

\* NotCleared is inductive: an acknowledgement and its event never both win.
LEMMA NotClearedStep == NotCleared /\ [Sa1Next]_sa1Vars => NotCleared'
<1> SUFFICES ASSUME NotCleared, [Sa1Next]_sa1Vars PROVE NotCleared'
  OBVIOUS
<1>1. CASE UNCHANGED sources
  BY <1>1 DEF NotCleared, sources
<1>2. ASSUME NEW bits \in Controls, WriteCCNT(bits) PROVE NotCleared'
  BY <1>2 DEF NotCleared, WriteCCNT
<1>3. CASE StepTimer
  BY <1>1, <1>3, EventNotCleared DEF StepTimer
<1>4. CASE DmaByCpu
  BY <1>4, EventNotCleared DEF DmaByCpu
<1>5. CASE DmaEnds
  BY <1>5, EventNotCleared DEF DmaEnds
<1>6. CASE LastCycle
  BY <1>6, PollNotCleared DEF LastCycle
<1>7. ASSUME NEW set, WriteCIE(set) PROVE NotCleared'
  BY <1>7 DEF NotCleared, WriteCIE
<1>8. ASSUME NEW set, WriteCIC(set) PROVE NotCleared'
  BY <1>8 DEF NotCleared, WriteCIC
<1>9. CASE Sa1Power
  BY <1>9 DEF NotCleared, Sa1Power
<1>10. CpuSignals => UNCHANGED sources
  BY DEF CpuSignals, WriteSIE, WriteSIC, DmaCC1, WriteSCNT, sources
<1>11. Begin65816 \/ Interrupt65816 \/ Flags65816 \/ WaitOrStop \/ WriteTimer \/ DmaBegins
       => UNCHANGED sources
  BY DEF Begin65816, Interrupt65816, Flags65816, WaitOrStop, WriteTimer, DmaBegins, sources
<1>12. CASE UNCHANGED sa1Vars
  BY <1>1, <1>12 DEF sa1Vars, sources
<1> QED
  BY <1>1, <1>2, <1>3, <1>4, <1>5, <1>6, <1>7, <1>8, <1>9, <1>10, <1>11, <1>12
    DEF Sa1Next, Sa1Runs, Sa1Step, Sleep

\* An unmasked poll accepts a flagged and enabled event of the timer or of a DMA
\* and ends a WAI, after any history of clearing, enabling and signalling.
THEOREM EventsAreAccepted == Sa1Spec => EventsAccepted
<1>1. Sa1Init => NotCleared
  BY DEF Sa1Init, NotCleared
<1>2. ASSUME NotCleared PROVE LastCycle /\ Signalled => pending' /\ ~wai'
  <2> SUFFICES ASSUME LastCycle, Signalled PROVE pending' /\ ~wai'
    OBVIOUS
  <2>1. Requests("timer") \/ Requests("dma")
    BY <1>2 DEF NotCleared, Signalled, Requests
  <2>2. ~masked /\ Poll
    BY DEF Signalled, LastCycle
  <2>3. \E source \in Sa1Sources : Accept(source)
    BY <2>1, <2>2 DEF Poll, Sa1Sources
  <2> QED BY <2>3 DEF Accept
<1>3. NotCleared /\ [Sa1Next]_sa1Vars
      => [LastCycle /\ Signalled => pending' /\ ~wai']_sa1Vars
  BY <1>2
<1> QED BY <1>1, <1>3, NotClearedStep, PTL DEF Sa1Spec, EventsAccepted

-----------------------------------------------------------------------------
(* SA-1: types *)

\* Parts of Sa1TypeOK.
CpuSideOK == cpuFlag \subseteq CpuSources /\ cpuEnable \subseteq CpuSources /\ cpuLine \in BOOLEAN
SourcesOK == flag \subseteq Sa1Sources /\ enabled \subseteq Sa1Sources /\ cleared \subseteq Sa1Sources
CoreOK ==
  /\ at \in {"boundary", "begun", "last", "waiting", "stopped", "dma"}
  /\ wai \in BOOLEAN /\ stp \in BOOLEAN /\ masked \in BOOLEAN /\ pending \in BOOLEAN
TimerOK == hcounter \in Nat /\ vcounter \in Nat /\ timerMode \subseteq {"h", "v", "linear"}

\* The parts make up the types.
LEMMA Sa1Parts ==
  Sa1TypeOK <=> CpuSideOK /\ SourcesOK /\ control \subseteq ControlBits /\ CoreOK /\ TimerOK
BY DEF Sa1TypeOK, CpuSideOK, SourcesOK, CoreOK, TimerOK

\* The counters stay numbers, whichever way they count.
LEMMA CountedTypes == ASSUME TimerOK PROVE Counted[1] \in Nat /\ Counted[2] \in Nat
<1>1. \A a \in Nat, b \in Nat \ {0} : a % b \in Nat /\ a \div b \in Nat
  OBVIOUS
<1>2. CountLinear[1] \in Nat /\ CountLinear[2] \in Nat
  <2>1. hcounter + 1 \in Nat /\ LinearLine \in Nat \ {0} /\ LinearLines \in Nat \ {0}
    BY Sa1Assumption DEF TimerOK
  <2>2. PICK q \in Nat : q = (hcounter + 1) \div LinearLine
    BY <1>1, <2>1
  <2>3. vcounter + q \in Nat
    BY <2>2 DEF TimerOK
  <2> QED BY <1>1, <2>1, <2>2, <2>3 DEF CountLinear
<1>3. CountHV[1] \in Nat /\ CountHV[2] \in Nat
  BY DEF CountHV, TimerOK
<1> QED BY <1>2, <1>3 DEF Counted

\* The steps of the timer.
LEMMA StepTimerTypes ==
  ASSUME SourcesOK, TimerOK, CpuSideOK, control \subseteq ControlBits, StepTimer
  PROVE  SourcesOK' /\ TimerOK' /\ CpuSideOK' /\ control' \subseteq ControlBits
<1>1. TimerOK'
  BY CountedTypes DEF StepTimer, TimerOK
<1>2. SourcesOK'
  BY DEF StepTimer, SourcesOK, ToSa1, Sa1Sources, sources
<1> QED BY <1>1, <1>2 DEF StepTimer, CpuSideOK, cpuSide

\* What a poll accepts is a source.
LEMMA PollTypes ==
  ASSUME SourcesOK, CoreOK, Poll, UNCHANGED enabled
  PROVE  SourcesOK' /\ pending' \in BOOLEAN /\ wai' \in BOOLEAN
BY DEF Poll, Accept, SourcesOK, CoreOK, Sa1Sources

\* The state of power on has the types, ...
LEMMA Sa1First == Sa1Init => Sa1TypeOK
<1> SUFFICES ASSUME Sa1Init PROVE Sa1TypeOK
  OBVIOUS
<1>1. CpuSideOK /\ SourcesOK
  BY DEF Sa1Init, CpuSideOK, SourcesOK
<1>2. control \subseteq ControlBits
  BY DEF Sa1Init, ControlBits
<1>3. CoreOK
  BY DEF Sa1Init, CoreOK
<1>4. TimerOK
  BY DEF Sa1Init, TimerOK
<1> QED BY <1>1, <1>2, <1>3, <1>4, Sa1Parts

\* ... and every step keeps them.
LEMMA Sa1TypesStep == Sa1TypeOK /\ [Sa1Next]_sa1Vars => Sa1TypeOK'
<1> SUFFICES ASSUME Sa1TypeOK, [Sa1Next]_sa1Vars PROVE Sa1TypeOK'
  OBVIOUS
<1>1. CpuSideOK /\ SourcesOK /\ control \subseteq ControlBits /\ CoreOK /\ TimerOK
  BY Sa1Parts
<1>2. SUFFICES CpuSideOK' /\ SourcesOK' /\ control' \subseteq ControlBits /\ CoreOK' /\ TimerOK'
  BY DEF Sa1TypeOK, CpuSideOK, SourcesOK, CoreOK, TimerOK
<1>3. ASSUME NEW set \in SUBSET CpuSources, WriteSIE(set) \/ WriteSIC(set)
      PROVE  CpuSideOK' /\ SourcesOK' /\ control' \subseteq ControlBits /\ CoreOK' /\ TimerOK'
  BY <1>1, <1>3 DEF WriteSIE, WriteSIC, CpuSideOK, SourcesOK, CoreOK, TimerOK, sources, core, timerOf
<1>4. CASE DmaCC1
  BY <1>1, <1>4 DEF DmaCC1, ToCpu, CpuSources, CpuSideOK, SourcesOK, CoreOK, TimerOK, sources,
    core, timerOf
<1>5. CASE WriteSCNT
  BY <1>1, <1>5 DEF WriteSCNT, Effect, ToCpu, CpuSources, CpuSideOK, SourcesOK, CoreOK, TimerOK,
    sources, timerOf
<1>6. ASSUME NEW bits \in Controls, WriteCCNT(bits)
      PROVE  CpuSideOK' /\ SourcesOK' /\ control' \subseteq ControlBits /\ CoreOK' /\ TimerOK'
  BY <1>1, <1>6, Sa1Assumption DEF WriteCCNT, Sa1Sources, CpuSideOK, SourcesOK, CoreOK, TimerOK,
    cpuSide, timerOf
<1>7. CASE DmaByCpu \/ DmaEnds \/ DmaBegins
  BY <1>1, <1>7 DEF DmaByCpu, DmaEnds, DmaBegins, ToSa1, Sa1Sources, CpuSideOK, SourcesOK, CoreOK,
    TimerOK, cpuSide, sources, core, timerOf
<1>8. CASE Sa1Step \/ Sleep
  BY <1>1, <1>8, StepTimerTypes DEF Sa1Step, Sleep, CoreOK, core
<1>9. CASE Begin65816 \/ Interrupt65816 \/ WaitOrStop \/ Flags65816
  BY <1>1, <1>9 DEF Begin65816, Interrupt65816, WaitOrStop, Flags65816, Effect, CpuSideOK,
    SourcesOK, CoreOK, TimerOK, cpuSide, sources, timerOf
<1>10. CASE LastCycle
  BY <1>1, <1>10, PollTypes DEF LastCycle, CpuSideOK, CoreOK, TimerOK, cpuSide, timerOf
<1>11. CASE WriteTimer
  <2>1. TimerOK'
    <3>1. CASE timerMode' \in TimerModes /\ UNCHANGED <<hcounter, vcounter>>
      BY <1>1, <3>1, Sa1Assumption DEF TimerOK
    <3>2. CASE hcounter' = 0 /\ vcounter' = 0 /\ UNCHANGED timerMode
      BY <1>1, <3>2 DEF TimerOK
    <3> QED BY <1>11, <3>1, <3>2 DEF WriteTimer
  <2>2. CoreOK' /\ control' = control
    BY <1>1, <1>11 DEF WriteTimer, Effect, CoreOK
  <2>3. CpuSideOK' /\ SourcesOK'
    BY <1>1, <1>11 DEF WriteTimer, CpuSideOK, SourcesOK, cpuSide, sources
  <2> QED BY <1>1, <2>1, <2>2, <2>3
<1>12. ASSUME NEW set \in Enabling, WriteCIE(set)
       PROVE  CpuSideOK' /\ SourcesOK' /\ control' \subseteq ControlBits /\ CoreOK' /\ TimerOK'
  BY <1>1, <1>12, Sa1Assumption DEF WriteCIE, Effect, CpuSideOK, SourcesOK, CoreOK, TimerOK,
    cpuSide, timerOf
<1>13. ASSUME NEW set \in Clearing, WriteCIC(set)
       PROVE  CpuSideOK' /\ SourcesOK' /\ control' \subseteq ControlBits /\ CoreOK' /\ TimerOK'
  BY <1>1, <1>13, Sa1Assumption DEF WriteCIC, Effect, CpuSideOK, SourcesOK, CoreOK, TimerOK,
    cpuSide, timerOf
<1>14. CASE Sa1Power
  BY <1>14 DEF Sa1Power, CpuSideOK, SourcesOK, ControlBits, CoreOK, TimerOK
<1>15. CASE UNCHANGED sa1Vars
  BY <1>1, <1>15 DEF sa1Vars, cpuSide, sources, core, timerOf, CpuSideOK, SourcesOK, CoreOK, TimerOK
<1> QED BY <1>3, <1>4, <1>5, <1>6, <1>7, <1>8, <1>9, <1>10, <1>11, <1>12, <1>13, <1>14, <1>15
  DEF Sa1Next, CpuSignals, Sa1Runs

\* The SA-1's variables keep their types.
THEOREM Sa1Types == Sa1Spec => []Sa1TypeOK
BY Sa1First, Sa1TypesStep, PTL DEF Sa1Spec

-----------------------------------------------------------------------------
(* Epson: a reading during which the clock ticks *)

\* The resync bit is set whenever a program that reads has been overtaken: no
\* action but deselecting the chip clears it, and that ends the reading.
THEOREM ReadingsAreSafe == EpsonSpec => []TornReadDetected
<1>1. EpsonInit => TornReadDetected
  BY DEF EpsonInit, EpsonFrom, TornReadDetected
<1>2. TornReadDetected /\ [EpsonNext]_epsonVars => TornReadDetected'
  <2> SUFFICES ASSUME TornReadDetected, [EpsonNext]_epsonVars PROVE TornReadDetected'
    OBVIOUS
  <2>1. CASE EpsonMain
    BY <2>1 DEF TornReadDetected, EpsonMain, Resyncs
  <2>2. ASSUME NEW data \in {0, 1}, Select(data) PROVE TornReadDetected'
    BY <2>2 DEF TornReadDetected, Select
  <2>3. ASSUME NEW data \in {3, 12}, Command(data) PROVE TornReadDetected'
    BY <2>3 DEF TornReadDetected, Command
  <2>4. ASSUME NEW addr \in Offsets, Seek(addr) PROVE TornReadDetected'
    BY <2>4 DEF TornReadDetected, Seek
  <2>5. CASE ReadDigit
    BY <2>5 DEF TornReadDetected, ReadDigit
  <2>6. CASE WriteDigit
    BY <2>6 DEF TornReadDetected, WriteDigit
  <2>7. CASE Restart
    BY <2>7 DEF TornReadDetected, Restart
  <2>8. CASE UNCHANGED epsonVars
    BY <2>8 DEF TornReadDetected, epsonVars, busVars
  <2> QED BY <2>1, <2>2, <2>3, <2>4, <2>5, <2>6, <2>7, <2>8 DEF EpsonNext, Program
<1> QED BY <1>1, <1>2, PTL DEF EpsonSpec

-----------------------------------------------------------------------------
(* The bus *)

Leading(id) == {a \in Address : lookup[a] = id}

\* A handler is free exactly when no address leads to it, since each counter is
\* right; that is what a map that takes a free one relies on.
AddressesCounted ==
  /\ lookup \in [Address -> Ids] /\ mapped \in [Address -> Handler \cup {OpenBus}]
  /\ DOMAIN handlerOf = Ids /\ busCounter \in [Ids -> Nat] /\ handlerOf[0] = OpenBus
  /\ \A id \in Ids \ {0} : busCounter[id] = Cardinality(Leading(id))

\* The inductive invariant of the bus.
BusInv == AddressesCounted /\ HandlersReached

\* There are finitely many addresses, so that they can be counted.
LEMMA AddressFinite == IsFiniteSet(Address)
<1>1. pow2[Width] - 1 \in Nat
  BY BusAssumption, Pow2
<1> QED BY <1>1, FS_Interval DEF Address

\* The addresses of S that led to id are subtracted, all of them and no other.
LEMMA RemainingIsCounted ==
  ASSUME AddressesCounted, NEW S \in SUBSET Address, NEW id \in Ids \ {0}
  PROVE  /\ Leave(S).count[id] = Cardinality(Leading(id) \ S)
         /\ Leave(S).count[id] \in Nat
         /\ Leave(S).count[id] = 0 => Leading(id) \subseteq S
<1> DEFINE gone == {a \in S : lookup[a] = id}
<1>1. IsFiniteSet(Leading(id)) /\ Cardinality(Leading(id)) \in Nat
  BY AddressFinite, FS_Subset, FS_CardinalityType DEF Leading
<1>2. Leading(id) \cap S = gone
  BY DEF Leading
<1>3. /\ IsFiniteSet(Leading(id) \ S)
      /\ Cardinality(Leading(id) \ S) = Cardinality(Leading(id)) - Cardinality(gone)
  BY <1>1, <1>2, FS_Difference
<1>4. Leave(S).count[id] = Cardinality(Leading(id) \ S)
  <2>1. CASE id \in Freed(S)
    BY <2>1, <1>3 DEF Leave, Remaining, AddressesCounted
  <2>2. CASE id \notin Freed(S)
    <3>1. gone = {} BY <2>2 DEF Freed
    <3>2. Leading(id) \ S = Leading(id) BY <3>1, <1>2
    <3> QED BY <2>2, <3>2 DEF Leave, AddressesCounted
  <2> QED BY <2>1, <2>2
<1>5. Cardinality(Leading(id) \ S) \in Nat /\ (Cardinality(Leading(id) \ S) = 0 => Leading(id) \ S = {})
  BY <1>3, FS_CardinalityType, FS_EmptySet
<1> QED BY <1>4, <1>5

\* A handler that an address outside of S leads to keeps its functions.
LEMMA OthersKept ==
  ASSUME AddressesCounted, NEW S \in SUBSET Address, NEW a \in Address \ S
  PROVE  Leave(S).owner[lookup[a]] = handlerOf[lookup[a]]
<1>1. lookup[a] \in Ids
  BY DEF AddressesCounted
<1>2. CASE lookup[a] \in Freed(S)
  <2>1. lookup[a] \in Ids \ {0} BY <1>2 DEF Freed
  <2>2. a \in Leading(lookup[a]) BY DEF Leading
  <2>3. Leave(S).count[lookup[a]] # 0 BY <2>1, <2>2, RemainingIsCounted
  <2> QED BY <1>1, <2>3 DEF Leave
<1>3. CASE lookup[a] \notin Freed(S)
  BY <1>1, <1>3 DEF Leave
<1> QED BY <1>2, <1>3

\* Handler 0, open bus, is never given away, by a reset, a mapping or an unmapping.
LEMMA OpenBusStays ==
  ASSUME AddressesCounted, NEW S
  PROVE  /\ 0 \in Ids /\ Leave(S).owner[0] = OpenBus /\ Leave(S).count[0] \in Nat
         /\ DOMAIN Leave(S).owner = Ids /\ DOMAIN Leave(S).count = Ids
BY BusAssumption DEF AddressesCounted, Leave, Freed, Ids

\* A mapping counts each of its addresses under its new handler and no other.
LEMMA MapKeeps ==
  ASSUME BusInv, NEW h \in Handler, NEW S \in Regions, NEW size, NEW base, NEW mask,
         Map(h, S, size, base, mask)
  PROVE  BusInv'
<1>1. S \in SUBSET Address
  BY BusAssumption
<1>2. PICK id \in Ids :
        /\ Found(id)
        /\ lookup' = [a \in Address |-> IF a \in S THEN id ELSE lookup[a]]
        /\ busCounter' = [Leave(S).count EXCEPT ![id] = Cardinality(S)]
        /\ handlerOf' = [Leave(S).owner EXCEPT ![id] = h]
  BY DEF Map
<1>3. id # 0 /\ Leading(id) = {}
  <2>1. IsFiniteSet(Leading(id)) BY AddressFinite, FS_Subset DEF Leading
  <2> QED BY <1>2, <2>1, FS_EmptySet DEF BusInv, AddressesCounted, Found, Unused
<1>4. AddressesCounted'
  <2>1. Leading(id)' = S
    BY <1>1, <1>2, <1>3 DEF Leading
  <2>2. \A other \in Ids \ {id} : Leading(other)' = Leading(other) \ S
    BY <1>2 DEF Leading
  <2>3. Cardinality(S) \in Nat
    BY <1>1, AddressFinite, FS_Subset, FS_CardinalityType
  <2>4. \A other \in Ids \ {0} : busCounter'[other] = Cardinality(Leading(other)')
    BY <1>1, <1>2, <2>1, <2>2, RemainingIsCounted, OpenBusStays DEF BusInv
  <2>5. busCounter' \in [Ids -> Nat]
    <3>1. \A other \in Ids : Leave(S).count[other] \in Nat
      BY <1>1, RemainingIsCounted, OpenBusStays DEF BusInv
    <3>2. Leave(S).count \in [Ids -> Nat]
      BY <3>1 DEF Leave
    <3> QED BY <1>2, <2>3, <3>2
  <2>6. DOMAIN handlerOf' = Ids /\ handlerOf'[0] = OpenBus
    BY <1>2, <1>3, OpenBusStays DEF BusInv
  <2>7. lookup' \in [Address -> Ids] /\ mapped' \in [Address -> Handler \cup {OpenBus}]
    BY <1>2 DEF Map, BusInv, AddressesCounted
  <2> QED BY <2>4, <2>5, <2>6, <2>7 DEF AddressesCounted
<1>5. HandlersReached'
  <2> SUFFICES ASSUME NEW a \in Address PROVE handlerOf'[lookup'[a]] = mapped'[a]
    BY DEF HandlersReached
  <2>1. CASE a \in S
    BY <1>2, <2>1, OpenBusStays DEF Map, BusInv
  <2>2. CASE a \notin S
    <3>1. lookup[a] \in Ids /\ lookup[a] # id
      BY <1>3 DEF BusInv, AddressesCounted, Leading
    <3>2. Leave(S).owner[lookup[a]] = mapped[a]
      BY <1>1, <2>2, OthersKept DEF BusInv, HandlersReached
    <3> QED BY <1>2, <2>2, <3>1, <3>2, OpenBusStays DEF Map, BusInv
  <2> QED BY <2>1, <2>2
<1> QED BY <1>4, <1>5 DEF BusInv

\* Unmapping counts its addresses off their handlers and frees what has none left.
LEMMA UnmapKeeps ==
  ASSUME BusInv, NEW S \in Regions, Unmap(S) PROVE BusInv'
<1>1. S \in SUBSET Address
  BY BusAssumption
<1>2. AddressesCounted'
  <2>1. \A other \in Ids \ {0} : Leading(other)' = Leading(other) \ S
    BY DEF Leading, Unmap
  <2>2. \A other \in Ids \ {0} : busCounter'[other] = Cardinality(Leading(other)')
    BY <1>1, <2>1, RemainingIsCounted DEF BusInv, Unmap
  <2>3. busCounter' \in [Ids -> Nat]
    <3>1. \A other \in Ids : Leave(S).count[other] \in Nat
      BY <1>1, RemainingIsCounted, OpenBusStays DEF BusInv
    <3> QED BY <3>1 DEF Leave, Unmap
  <2>4. DOMAIN handlerOf' = Ids /\ handlerOf'[0] = OpenBus /\ 0 \in Ids
    BY OpenBusStays DEF BusInv, Unmap
  <2> QED BY <2>2, <2>3, <2>4 DEF AddressesCounted, Unmap, BusInv
<1>3. HandlersReached'
  <2> SUFFICES ASSUME NEW a \in Address PROVE handlerOf'[lookup'[a]] = mapped'[a]
    BY DEF HandlersReached
  <2>1. CASE a \in S
    BY <2>1, OpenBusStays DEF Unmap, BusInv
  <2>2. CASE a \notin S
    BY <1>1, <2>2, OthersKept DEF Unmap, BusInv, HandlersReached, AddressesCounted
  <2> QED BY <2>1, <2>2
<1> QED BY <1>2, <1>3 DEF BusInv

\* All handlers empty, all addresses at open bus: how a load starts.
LEMMA EmptyBus ==
  ASSUME lookup = [a \in Address |-> 0], mapped = [a \in Address |-> OpenBus],
         handlerOf = [id \in Ids |-> IF id = 0 THEN OpenBus ELSE None],
         busCounter = [id \in Ids |-> 0]
  PROVE  BusInv
<1>1. \A id \in Ids \ {0} : Leading(id) = {}
  BY DEF Leading
<1>2. 0 \in Ids
  BY BusAssumption DEF Ids
<1> QED BY <1>1, <1>2, FS_EmptySet DEF BusInv, AddressesCounted, HandlersReached

\* A reset of the bus leaves it as it begins, with open bus everywhere.
LEMMA EmptyBusNext == BusReset => BusInv'
<1> SUFFICES ASSUME BusReset PROVE BusInv'
  OBVIOUS
<1>1. \A id \in Ids \ {0} : Leading(id)' = {}
  BY DEF Leading, BusReset
<1>2. 0 \in Ids
  BY BusAssumption DEF Ids
<1> QED BY <1>1, <1>2, FS_EmptySet DEF BusInv, AddressesCounted, HandlersReached, BusReset

\* However maps overlap, and however often handlers are given back and taken
\* again, an access calls the function that was mapped to its address last.
THEOREM HandlersAreReached == BusSpec => []HandlersReached
<1>1. BusInit => BusInv
  BY EmptyBus DEF BusInit
<1>2. BusInv /\ [BusNext]_mapVars => BusInv'
  <2> SUFFICES ASSUME BusInv, [BusNext]_mapVars PROVE BusInv'
    OBVIOUS
  <2>1. CASE BusNext
    <3>1. ASSUME NEW h \in Handler, NEW S \in Regions, NEW l \in Layouts,
                 Map(h, S, l[1], l[2], l[3]) PROVE BusInv'
      BY <3>1, MapKeeps
    <3>2. CASE UNCHANGED mapVars
      BY <3>2 DEF mapVars, BusInv, AddressesCounted, HandlersReached, Leading
    <3> QED BY <2>1, <3>1, <3>2, UnmapKeeps, EmptyBusNext DEF BusNext, MapFails
  <2>2. CASE UNCHANGED mapVars
    BY <2>2 DEF mapVars, BusInv, AddressesCounted, HandlersReached, Leading
  <2> QED BY <2>1, <2>2
<1>3. BusInv => HandlersReached
  BY DEF BusInv
<1> QED BY <1>1, <1>2, <1>3, PTL DEF BusSpec
-----------------------------------------------------------------------------
(* Flash: chips of at most as many blocks as Block::id tells apart.         *)

\* What is locked in the device is taken for locked; a ready bit is only set when
\* nothing is to be erased; and what a program may rely on is erased, or will be.
FlashInv ==
  /\ locked \subseteq statusLocked /\ locked \subseteq Blocks
  /\ erasingNow \in Blocks \cup {Idle} /\ erasing \subseteq Blocks /\ blank \subseteq Blocks
  /\ flashReady => erasing = {}
  /\ blockReady \cap erasing = {}
  /\ \A block \in blank \ erasing : Erased(block)
  /\ DOMAIN flashMemory = (0..(BlockIds - 1)) \X Cells
  /\ \A m \in DOMAIN flashMemory : flashMemory[m] \subseteq FlashBits

\* With enough ids, each block has the memory of its own id.
LEMMA OwnMemory ==
  ASSUME BlockCount <= BlockIds, NEW block \in Blocks
  PROVE  IdOf(block) = block /\ block \in 0..(BlockIds - 1)
BY FlashAssumption DEF Blocks, IdOf

\* Programming reaches only blocks that are not protected, which are no longer
\* relied on.
LEMMA ProgramKeepsOthers ==
  ASSUME BlockCount <= BlockIds, FlashInv, NEW S, \A p \in S : p[1] \in Blocks, NEW data,
         ProgramPlaces(S, data), NEW block \in Blocks,
         Protected(block) \/ block \in blank'
  PROVE  Contents(block)' = Contents(block)
<1> DEFINE written == {p \in S : ~Protected(p[1])}
<1>1. ASSUME NEW c \in Cells PROVE flashMemory'[<<block, c>>] = flashMemory[<<block, c>>]
  <2>1. <<block, c>> \in DOMAIN flashMemory
    BY OwnMemory DEF FlashInv
  <2>2. \A p \in written : PlaceOf(p) # <<block, c>>
    <3> SUFFICES ASSUME NEW p \in written, PlaceOf(p) = <<block, c>> PROVE FALSE
      OBVIOUS
    <3>1. p[1] \in Blocks
      OBVIOUS
    <3>2. p[1] = block
      BY <3>1, OwnMemory DEF PlaceOf
    <3>3. ~Protected(block) /\ block \notin blank'
      BY <3>2 DEF ProgramPlaces
    <3> QED BY <3>3
  <2>3. flashMemory'[<<block, c>>] = {bit \in flashMemory[<<block, c>>] :
          \A p \in written : PlaceOf(p) = <<block, c>> => bit \in data[p]}
    BY <2>1 DEF ProgramPlaces
  <2> QED BY <2>2, <2>3
<1>2. IdOf(block) = block
  BY OwnMemory
<1> QED BY <1>1, <1>2 DEF Contents, PlaceOf

\* Of a block that is erased nothing else is.
LEMMA EraseKeepsOthers ==
  ASSUME BlockCount <= BlockIds, FlashInv, EraseEnds, NEW block \in Blocks,
         block # erasingNow \/ Protected(erasingNow)
  PROVE  Contents(block)' = Contents(block)
<1>1. CASE Protected(erasingNow)
  BY <1>1 DEF EraseEnds, Contents
<1>2. CASE ~Protected(erasingNow)
  <2>1. erasingNow \in Blocks /\ block # erasingNow
    BY <1>2 DEF FlashInv, EraseEnds
  <2>2. IdOf(erasingNow) # block
    BY <2>1, OwnMemory
  <2>3. \A c \in Cells : <<block, c>> \in DOMAIN flashMemory
    BY OwnMemory DEF FlashInv
  <2>4. \A c \in Cells : flashMemory'[<<block, c>>] = flashMemory[<<block, c>>]
    BY <1>2, <2>2, <2>3 DEF EraseEnds
  <2> QED BY <2>4, OwnMemory DEF Contents, PlaceOf
<1> QED BY <1>1, <1>2

\* The end of an erasure leaves a block that is not protected blank.
LEMMA EraseErases ==
  ASSUME BlockCount <= BlockIds, FlashInv, EraseEnds, ~Protected(erasingNow),
         NEW block \in Blocks, block = erasingNow
  PROVE  Erased(block)'
<1>1. \A c \in Cells : <<block, c>> \in DOMAIN flashMemory
  BY OwnMemory DEF FlashInv
<1>2. \A c \in Cells : flashMemory'[<<block, c>>] = FlashBits
  BY <1>1, OwnMemory DEF EraseEnds
<1> QED BY <1>2, OwnMemory DEF Erased, Contents, PlaceOf

\* Where the memory stays, so do the contents and what is erased.
LEMMA MemoryStays ==
  ASSUME NEW block, flashMemory' = flashMemory
  PROVE  Contents(block)' = Contents(block) /\ Erased(block)' = Erased(block)
BY DEF Contents, Erased

\* A block whose contents stay is erased as before.
LEMMA ContentsStay ==
  ASSUME NEW block, Contents(block)' = Contents(block)
  PROVE  Erased(block)' = Erased(block)
BY DEF Erased

\* The memory keeps its shape and bits outside of programming and erasing.
MemoryShape ==
  /\ DOMAIN flashMemory = (0..(BlockIds - 1)) \X Cells
  /\ \A m \in DOMAIN flashMemory : flashMemory[m] \subseteq FlashBits

\* Programming keeps the invariant: what was blank and is no longer is not relied on.
LEMMA ProgramKeepsInv ==
  ASSUME BlockCount <= BlockIds, FlashInv, NEW S, \A p \in S : p[1] \in Blocks, NEW data,
         ProgramPlaces(S, data), UNCHANGED erasingNow
  PROVE  FlashInv'
<1>1. blank' \subseteq blank
  BY DEF ProgramPlaces
<1>2. ASSUME NEW block \in blank' \ erasing' PROVE Erased(block)'
  <2>1. block \in Blocks /\ Erased(block)
    BY <1>1, <1>2 DEF FlashInv, ProgramPlaces
  <2>2. Contents(block)' = Contents(block)
    BY <1>2, <2>1, ProgramKeepsOthers
  <2> QED BY <2>1, <2>2, ContentsStay
<1>3. MemoryShape'
  BY DEF FlashInv, ProgramPlaces, MemoryShape
<1>4. UNCHANGED <<locked, statusLocked, erasing, blockReady, flashReady>>
  BY DEF ProgramPlaces
<1> QED BY <1>1, <1>2, <1>3, <1>4 DEF FlashInv, MemoryShape

\* Steps that leave the memory alone.
LEMMA ErasedStay ==
  ASSUME FlashInv, UNCHANGED flashMemory, blank' \ erasing' \subseteq blank \ erasing
  PROVE  (\A block \in blank' \ erasing' : Erased(block)') /\ MemoryShape'
BY MemoryStays DEF FlashInv, MemoryShape

\* A run of places, or the two halves of a word, lie in blocks.
LEMMA PlacesInBlocks ==
  ASSUME NEW p \in Places
  PROVE  /\ p[1] \in Blocks /\ Partner(p)[1] \in Blocks
         /\ \A n : \A q \in PlacesFrom(p, n) : q[1] \in Blocks
BY DEF Places, Partner, PlacesFrom

\* A completed command keeps the invariant, whichever it is.
LEMMA CompleteKeepsInv ==
  ASSUME BlockCount <= BlockIds, FlashInv, NEW command, UNCHANGED erasingNow,
         ControlBlocks(command) \/ \E p \in Places : ProgramBytes(command, p)
  PROVE  FlashInv'
<1>1. ASSUME NEW p \in Places, ProgramBytes(command, p) PROVE FlashInv'
  <2>1. ASSUME NEW S, \A q \in S : q[1] \in Blocks, NEW data, ProgramPlaces(S, data)
        PROVE  FlashInv'
    BY <2>1, ProgramKeepsInv
  <2> QED BY <1>1, <2>1, PlacesInBlocks DEF ProgramBytes
<1>2. ASSUME NEW S \in SUBSET Blocks, RequestErase(S) PROVE FlashInv'
  <2>1. (\A block \in blank' \ erasing' : Erased(block)') /\ MemoryShape'
    BY <1>2, ErasedStay DEF RequestErase
  <2> QED BY <1>2, <2>1 DEF FlashInv, RequestErase, MemoryShape
<1>3. ASSUME NEW block \in Blocks, Lock(block) PROVE FlashInv'
  <2>1. (\A b \in blank' \ erasing' : Erased(b)') /\ MemoryShape'
    BY <1>3, ErasedStay DEF Lock
  <2> QED BY <1>3, <2>1 DEF FlashInv, Lock, MemoryShape
<1>4. CASE Upload \/ NoChange
  <2>1. (\A block \in blank' \ erasing' : Erased(block)') /\ MemoryShape'
    BY <1>4, ErasedStay DEF Upload, NoChange
  <2> QED BY <1>4, <2>1 DEF FlashInv, Upload, NoChange, MemoryShape
<1> QED BY <1>1, <1>2, <1>3, <1>4 DEF ControlBlocks

\* The end of an erasure keeps the invariant.
LEMMA EraseKeepsInv ==
  ASSUME BlockCount <= BlockIds, FlashInv, EraseEnds PROVE FlashInv'
<1>1. blank' \subseteq blank /\ erasing' = erasing \ {erasingNow} /\ erasingNow' = Idle
  BY DEF EraseEnds
<1>2. ASSUME NEW block \in blank' \ erasing' PROVE Erased(block)'
  <2>1. block \in Blocks
    BY <1>1, <1>2 DEF FlashInv
  <2>2. CASE block = erasingNow
    <3>1. ~Protected(erasingNow)
      BY <1>2, <2>2 DEF EraseEnds
    <3> QED BY <2>1, <2>2, <3>1, EraseErases
  <2>3. CASE block # erasingNow
    <3>1. Erased(block)
      BY <1>1, <1>2, <2>3 DEF FlashInv
    <3> QED BY <2>1, <2>3, <3>1, EraseKeepsOthers, ContentsStay
  <2> QED BY <2>2, <2>3
<1>3. MemoryShape'
  BY DEF FlashInv, EraseEnds, MemoryShape
<1>4. locked' \subseteq statusLocked' /\ locked' \subseteq Blocks
  BY DEF FlashInv, EraseEnds
<1>5. UNCHANGED <<blockReady, flashReady>>
  BY DEF EraseEnds
<1> QED BY <1>1, <1>2, <1>3, <1>4, <1>5 DEF FlashInv, MemoryShape

\* Every step keeps the invariant.
LEMMA FlashInvStep ==
  ASSUME BlockCount <= BlockIds, FlashInv, [FlashNext]_flashVars PROVE FlashInv'
<1>1. CASE FlashWrite
  <2>1. UNCHANGED erasingNow
    BY <1>1 DEF FlashWrite
  <2>2. CASE NoChange
    <3>1. (\A block \in blank' \ erasing' : Erased(block)') /\ MemoryShape'
      BY <2>2, ErasedStay DEF NoChange
    <3> QED BY <2>1, <2>2, <3>1 DEF FlashInv, NoChange, MemoryShape
  <2>3. CASE Complete
    BY <2>1, <2>3, CompleteKeepsInv DEF Complete
  <2> QED BY <1>1, <2>2, <2>3 DEF FlashWrite, First, Continue
<1>2. CASE EraseEnds
  BY <1>2, EraseKeepsInv
<1>3. CASE SetWritable \/ MainErase \/ MainIdle \/ FlashPower \/ FlashRestart \/ UNCHANGED flashVars
  <2>1. UNCHANGED flashMemory /\ blank' \ erasing' \subseteq blank \ erasing
    BY <1>3 DEF SetWritable, MainErase, MainIdle, FlashPower, FlashRestart, flashVars
  <2>2. (\A block \in blank' \ erasing' : Erased(block)') /\ MemoryShape'
    BY <2>1, ErasedStay
  <2>3. CASE MainErase
    <3>1. PICK block \in erasing :
            /\ \A other \in erasing : block <= other
            /\ erasingNow' = block
            /\ blockReady' = blockReady \cup {lower \in Blocks : lower < block}
      BY <2>3 DEF MainErase
    <3>2. block \in Blocks /\ erasing \subseteq Int /\ block \in Int
      BY FlashAssumption DEF FlashInv, Blocks
    <3>3. {lower \in Blocks : lower < block} \cap erasing = {}
      BY <3>1, <3>2 DEF Blocks
    <3> QED BY <2>2, <2>3, <3>1, <3>2, <3>3 DEF FlashInv, MainErase, MemoryShape
  <2>4. CASE SetWritable \/ FlashRestart \/ UNCHANGED flashVars
    BY <2>2, <2>4 DEF FlashInv, SetWritable, FlashRestart, flashVars, MemoryShape
  <2>5. CASE MainIdle
    BY <2>2, <2>5 DEF FlashInv, MainIdle, MemoryShape
  <2>6. CASE FlashPower
    BY <2>2, <2>6 DEF FlashInv, FlashPower, MemoryShape
  <2> QED BY <1>3, <2>3, <2>4, <2>5, <2>6
<1> QED BY <1>1, <1>2, <1>3 DEF FlashNext

\* With an id for each block, the invariant holds of every reachable state.
LEMMA FlashInvariant ==
  ASSUME BlockCount <= BlockIds PROVE FlashSpec => []FlashInv
<1>1. FlashInit => FlashInv
  BY DEF FlashInit, FlashInv, Values
<1>2. FlashInv /\ [FlashNext]_flashVars => FlashInv'
  BY FlashInvStep
<1> QED BY <1>1, <1>2, PTL DEF FlashSpec

\* A block that a program had erased is blank when a ready bit says so.
THEOREM ErasedWhenReady ==
  ASSUME BlockCount <= BlockIds PROVE FlashSpec => []ErasedIsBlank
<1>1. FlashInv => ErasedIsBlank
  BY DEF FlashInv, ErasedIsBlank
<1> QED BY <1>1, FlashInvariant, PTL

\* A step changes a locked block only if the pin opens all.
LEMMA LockedStep ==
  ASSUME BlockCount <= BlockIds, FlashInv, [FlashNext]_flashVars, NEW block \in locked,
         ~writable
  PROVE  Contents(block)' = Contents(block)
<1>1. block \in Blocks /\ Protected(block)
  BY DEF FlashInv, Protected
<1>2. CASE EraseEnds
  BY <1>1, <1>2, EraseKeepsOthers
<1>3. ASSUME NEW S, \A p \in S : p[1] \in Blocks, NEW data, ProgramPlaces(S, data)
      PROVE  Contents(block)' = Contents(block)
  BY <1>1, <1>3, ProgramKeepsOthers
<1>4. CASE Complete
  <2>1. CASE UNCHANGED flashMemory
    BY <2>1, MemoryStays
  <2>2. ASSUME NEW p \in Places, ProgramBytes(queued[1], p)
        PROVE  Contents(block)' = Contents(block)
    BY <1>3, <2>2, PlacesInBlocks DEF ProgramBytes
  <2>3. ControlBlocks(queued[1]) => UNCHANGED flashMemory
    BY DEF ControlBlocks, RequestErase, Lock, Upload, NoChange
  <2> QED BY <1>4, <2>1, <2>2, <2>3 DEF Complete
<1>5. CASE UNCHANGED flashMemory
  BY <1>5, MemoryStays
<1> QED BY <1>2, <1>4, <1>5 DEF FlashNext, FlashWrite, First, Continue, NoChange, SetWritable,
      MainErase, MainIdle, FlashPower, FlashRestart, flashVars

\* What a locked block holds stays, through commands, resets and reloads.
THEOREM LockedStays ==
  ASSUME BlockCount <= BlockIds PROVE FlashSpec => LockedIsKept
<1>1. FlashInv /\ [FlashNext]_flashVars
        => [\A block \in locked : ~writable => Contents(block)' = Contents(block)]_flashVars
  BY LockedStep
<1> QED BY <1>1, FlashInvariant, PTL DEF FlashSpec, LockedIsKept

\* Every reachable state of the flash has its types, whatever the number of blocks.
THEOREM FlashTypes == FlashSpec => []FlashTypeOK
<1>1. FlashInit => FlashTypeOK
  <2> SUFFICES ASSUME FlashInit PROVE FlashTypeOK
    OBVIOUS
  <2>1. queued \in (Commands \cup {"none", "other"}) \X (0..2)
    BY DEF FlashInit, Empty
  <2> QED BY <2>1 DEF FlashInit, FlashTypeOK
<1>2. FlashTypeOK /\ [FlashNext]_flashVars => FlashTypeOK'
  <2> SUFFICES ASSUME FlashTypeOK, [FlashNext]_flashVars PROVE FlashTypeOK'
    OBVIOUS
  <2> DEFINE Memory == flashMemory \in [(0..(BlockIds - 1)) \X Cells -> Values]
             Marks == /\ locked \subseteq Blocks /\ statusLocked \subseteq Blocks
                      /\ erasing \subseteq Blocks /\ blockReady \subseteq Blocks
                      /\ blank \subseteq Blocks /\ flashReady \in BOOLEAN
             Queue == queued \in (Commands \cup {"none", "other"}) \X (0..2)
  <2>1. CASE FlashWrite
    <3>1. writable' \in BOOLEAN /\ erasingNow' \in Blocks \cup {Idle}
      BY <2>1 DEF FlashWrite, FlashTypeOK
    <3>2. ASSUME NEW S, NEW data, ProgramPlaces(S, data) PROVE Memory' /\ Marks'
      BY <3>2 DEF ProgramPlaces, FlashTypeOK, Values
    <3>3. NoChange => Memory' /\ Marks'
      BY DEF NoChange, FlashTypeOK
    <3>4. ASSUME NEW command, ControlBlocks(command) PROVE Memory' /\ Marks'
      BY <3>3, <3>4 DEF ControlBlocks, RequestErase, Lock, Upload, FlashTypeOK
    <3>5. CASE Complete
      <4>1. Memory' /\ Marks'
        BY <3>2, <3>4, <3>5 DEF Complete, ProgramBytes
      <4>2. Queue'
        BY <3>5 DEF Complete, Empty
      <4> QED BY <3>1, <4>1, <4>2 DEF FlashTypeOK
    <3>6. ASSUME NEW command \in Commands \cup {"other"}, First(command) PROVE FlashTypeOK'
      <4>1. Queue'
        BY <3>6 DEF First
      <4> QED BY <3>1, <3>3, <3>6, <4>1 DEF First, FlashTypeOK
    <3>7. CASE Continue
      <4>1. queued' = <<queued[1], queued[2] + 1>> /\ queued[1] \in Commands /\ queued[2] \in 0..2
        BY <3>7 DEF Continue, FlashTypeOK
      <4>2. queued[2] + 1 < 3
        BY <3>7, <4>1 DEF Continue, Commands, Needs
      <4>3. Queue'
        BY <4>1, <4>2
      <4> QED BY <3>1, <3>3, <3>7, <4>3 DEF Continue, FlashTypeOK
    <3> QED BY <2>1, <3>5, <3>6, <3>7 DEF FlashWrite
  <2>2. CASE EraseEnds
    BY <2>2 DEF EraseEnds, FlashTypeOK, Values
  <2>3. CASE MainErase \/ MainIdle \/ SetWritable
    BY <2>3 DEF MainErase, MainIdle, SetWritable, FlashTypeOK
  <2>4. CASE FlashPower
    <3>1. Queue'
      BY <2>4 DEF FlashPower, Empty
    <3> QED BY <2>4, <3>1 DEF FlashPower, FlashTypeOK
  <2>5. CASE FlashRestart \/ UNCHANGED flashVars
    BY <2>5 DEF FlashRestart, flashVars, FlashTypeOK
  <2> QED BY <2>1, <2>2, <2>3, <2>4, <2>5 DEF FlashNext
<1> QED BY <1>1, <1>2, PTL DEF FlashSpec


-----------------------------------------------------------------------------
(* Loops, and what a round of them keeps and counts. *)

\* What a loop computes: F after n rounds, each applied to what the round before left.
Runs(S, F, t) ==
  /\ Times(F, 0, t) = t
  /\ \A n \in Nat : Times(F, n, t) \in S /\ Times(F, n + 1, t) = F[Times(F, n, t)]

\* Times(F, n, t) is F applied n times: the recursive function exists.
LEMMA TimesRuns == ASSUME NEW S, NEW F \in [S -> S], NEW t \in S PROVE Runs(S, F, t)
<1> DEFINE step == [n \in Nat |-> F]
           Is(f) == f = [i \in Nat |-> IF i = 0 THEN t ELSE F[f[i - 1]]]
           f0 == CHOOSE f : Is(f)
<1>1. step \in StepsOn(S)
  BY DEF StepsOn
<1> HIDE DEF step
<1>2. PICK g : Recursive(g, S, t, step)
  BY <1>1, PrimitiveRecursion
<1>3. Is(g)
  <2>1. g = [i \in Nat |-> g[i]]
    BY <1>2 DEF Recursive
  <2>2. \A i \in Nat : g[i] = IF i = 0 THEN t ELSE F[g[i - 1]]
    BY <1>2 DEF Recursive, step
  <2> QED BY <2>1, <2>2
<1>4. Is(f0)
  BY <1>3, Zenon
<1>5. \A n \in Nat : Times(F, n, t) = f0[n]
  BY DEF Times
<1> HIDE DEF f0
<1>6. f0[0] = t /\ \A n \in Nat : f0[n + 1] = F[f0[n]]
  <2> SUFFICES ASSUME NEW n \in Nat PROVE f0[0] = t /\ f0[n + 1] = F[f0[n]]
    OBVIOUS
  <2>1. n + 1 \in Nat /\ n + 1 # 0 /\ (n + 1) - 1 = n
    OBVIOUS
  <2> QED BY <1>4, <2>1
<1> DEFINE T == {n \in Nat : f0[n] \in S}
<1>7. Nat \subseteq T
  <2>1. 0 \in T
    BY <1>6
  <2>2. \A n \in T \cap Nat : n + 1 \in T
    BY <1>6
  <2> HIDE DEF T
  <2> QED BY <2>1, <2>2, NatSet
<1> QED BY <1>5, <1>6, <1>7 DEF Runs

\* A loop keeps what its body keeps, and counts what its body counts, as long as
\* the limit is not reached.
Counts(F, G, M, k, limit) == \A u \in G : M[u] + k < limit => F[u] \in G /\ M[F[u]] = M[u] + k
CountedOn(t, u, G, M, k, n) == u \in G /\ M[u] = M[t] + k * n

\* A loop whose rounds stay in G and count k each, below a limit, stays in G and
\* has counted k * n.
LEMMA TimesKeeps ==
  ASSUME NEW S, NEW F \in [S -> S], NEW G \in SUBSET S, NEW t \in G,
         NEW M \in [S -> Int], NEW k \in Nat, NEW limit \in Int,
         Counts(F, G, M, k, limit),
         NEW n \in Nat, M[t] + k * n < limit
  PROVE  CountedOn(t, Times(F, n, t), G, M, k, n)
<1> DEFINE X == [i \in Nat |-> Times(F, i, t)]
           T == {i \in Nat : M[t] + k * i < limit => X[i] \in G /\ M[X[i]] = M[t] + k * i}
<1>0. t \in S
  OBVIOUS
<1>1. X[0] = t /\ \A i \in Nat : X[i] \in S /\ X[i + 1] = F[X[i]]
  <2>1. Runs(S, F, t)
    BY <1>0, TimesRuns
  <2> QED BY <2>1 DEF Runs
<1> HIDE DEF X
<1>2. M[t] \in Int
  OBVIOUS
<1>3. 0 \in T
  BY <1>1, <1>2
<1>4. ASSUME NEW i \in T \cap Nat PROVE i + 1 \in T
  <2> SUFFICES ASSUME M[t] + k * (i + 1) < limit
               PROVE  X[i + 1] \in G /\ M[X[i + 1]] = M[t] + k * (i + 1)
    OBVIOUS
  <2>1. k * (i + 1) = k * i + k /\ k * i \in Nat
    OBVIOUS
  <2> DEFINE p == k * i
             q == k * (i + 1)
  <2>2. p \in Nat /\ q = p + k /\ M[t] + q < limit
    BY <2>1
  <2>3. M[t] + p < limit => X[i] \in G /\ M[X[i]] = M[t] + p
    OBVIOUS
  <2> HIDE DEF p, q
  <2>4. M[t] + p < limit
    BY <1>2, <2>2
  <2>5. M[X[i]] + k < limit
    BY <1>2, <2>2, <2>3, <2>4
  <2>6. X[i + 1] \in G /\ M[X[i + 1]] = M[t] + q
    BY <1>1, <1>2, <2>2, <2>3, <2>4, <2>5 DEF Counts
  <2> QED BY <2>6 DEF q
<1>5. Nat \subseteq T
  <2> HIDE DEF T
  <2> QED BY <1>3, <1>4, NatSet
<1> QED BY <1>5 DEF X, CountedOn

-----------------------------------------------------------------------------
(* The bus: where an address leads. *)

\* A quotient and a remainder of a number that is below the divisor, or once above.
LEMMA DivSmall ==
  ASSUME NEW z \in Nat \ {0}, NEW r \in 0..(z - 1)
  PROVE  r \div z = 0 /\ r % z = r /\ (r + z) \div z = 1 /\ (r + z) % z = r
<1>1. r = z * 0 + r /\ r + z = z * 1 + r /\ r + z \in Nat /\ 0 \in Nat /\ 1 \in Nat
  OBVIOUS
<1> QED BY <1>1, DivModUnique

\* What a turn of mirror does, by the parts of its state.
Turn(s, a, z, b, m) ==
  IF a < z THEN s
  ELSE IF ~bitAt(a, m) THEN [s EXCEPT !.mask = m \div 2]
  ELSE IF z > m
  THEN [s EXCEPT !.addr = a - m, !.mask = m \div 2, !.size = z - m, !.base = b + m]
  ELSE [s EXCEPT !.addr = a - m, !.mask = m \div 2]
LEMMA MirrorTurnIs ==
  ASSUME NEW s \in Mirroring, NEW a \in Nat, NEW z \in Nat, NEW b \in Nat, NEW m \in Nat,
         s.addr = a, s.size = z, s.base = b, s.mask = m
  PROVE  mirrorTurn[s] = Turn(s, a, z, b, m)
BY Zenon DEF mirrorTurn, Mirroring, Turn

\* The loops' bodies, turn by turn.
LEMMA MirrorTurns == mirrorTurn \in [Mirroring -> Mirroring]
<1> SUFFICES ASSUME NEW s \in Mirroring PROVE mirrorTurn[s] \in Mirroring
  BY Zenon DEF mirrorTurn
<1>1. PICK a \in Nat, z \in Nat, b \in Nat, m \in Nat :
        s.addr = a /\ s.size = z /\ s.base = b /\ s.mask = m
  BY DEF Mirroring
<1>2. m \div 2 \in Nat /\ b + m \in Nat
  OBVIOUS
<1>3. bitAt(a, m) => a - m \in Nat
  <2>1. CASE m = 0
    BY <2>1
  <2>2. CASE m # 0
    <3>1. PICK q \in Nat, r \in 0..(m - 1) : q = a \div m /\ r = a % m /\ a = m * q + r
      BY <2>2, DivMod
    <3>2. CASE q = 0
      BY <3>1, <3>2 DEF bitAt
    <3>3. CASE q # 0
      <4>1. m * 1 <= m * q
        BY <3>3, Product
      <4>2. m * q \in Nat
        OBVIOUS
      <4> QED BY <3>1, <4>1, <4>2
    <3> QED BY <3>2, <3>3
  <2> QED BY <2>1, <2>2
<1>4. z > m => z - m \in Nat
  OBVIOUS
<1>5. mirrorTurn[s] = Turn(s, a, z, b, m)
  BY <1>1, MirrorTurnIs
<1>6. [s EXCEPT !.mask = m \div 2] \in Mirroring
  BY <1>2 DEF Mirroring
<1>7. bitAt(a, m) => [s EXCEPT !.addr = a - m, !.mask = m \div 2] \in Mirroring
  BY <1>2, <1>3 DEF Mirroring
<1>8. bitAt(a, m) /\ z > m =>
        [s EXCEPT !.addr = a - m, !.mask = m \div 2, !.size = z - m, !.base = b + m] \in Mirroring
  BY <1>2, <1>3, <1>4 DEF Mirroring
<1> QED BY <1>5, <1>6, <1>7, <1>8, Zenon DEF Turn

\* One turn of mirror looks at the highest bit an address may have left: what is
\* left of it is below that bit, and of the memory stays within what it was.
LEMMA MirrorTurn ==
  ASSUME NEW s \in Mirroring, s.mask \in Nat \ {0}, s.size >= 1, s.addr >= s.size,
         s.addr < 2 * s.mask
  PROVE  /\ mirrorTurn[s].addr < s.mask /\ mirrorTurn[s].mask = s.mask \div 2
         /\ mirrorTurn[s].size >= 1
         /\ mirrorTurn[s].base + mirrorTurn[s].size <= s.base + s.size
<1>1. PICK a \in Nat, z \in Nat, b \in Nat, m \in Nat \ {0} :
        s.addr = a /\ s.size = z /\ s.base = b /\ s.mask = m
  BY DEF Mirroring
<1>2. mirrorTurn[s] =
        IF ~bitAt(a, m) THEN [s EXCEPT !.mask = m \div 2]
        ELSE IF z > m
        THEN [s EXCEPT !.addr = a - m, !.mask = m \div 2, !.size = z - m, !.base = b + m]
        ELSE [s EXCEPT !.addr = a - m, !.mask = m \div 2]
  <2>1. ~(a < z)
    BY <1>1
  <2>2. mirrorTurn[s] = Turn(s, a, z, b, m)
    BY <1>1, MirrorTurnIs
  <2> QED BY <2>1, <2>2, Zenon DEF Turn
<1>3. CASE a < m
  <2>1. a \div m = 0
    BY <1>3, DivSmall, SMTT(40)
  <2>2. ~bitAt(a, m)
    BY <2>1 DEF bitAt
  <2> QED BY <1>1, <1>2, <1>3, <2>2 DEF Mirroring
<1>4. CASE a >= m
  <2>1. PICK r \in 0..(m - 1) : a = r + m
    <3>1. a - m \in 0..(m - 1) /\ a = (a - m) + m
      BY <1>1, <1>4
    <3> QED BY <3>1
  <2>2. a \div m = 1
    BY <2>1, DivSmall
  <2>3. bitAt(a, m)
    BY <2>2 DEF bitAt
  <2> QED BY <1>1, <1>2, <2>1, <2>3 DEF Mirroring
<1> QED BY <1>1, <1>3, <1>4

\* The powers of two below the width, and their halves.
LEMMA WidthPowers ==
  ASSUME NEW i \in Nat, i < Width
  PROVE  /\ Width - i \in Nat /\ Width - (i + 1) \in Nat
         /\ pow2[Width - i] = 2 * pow2[Width - (i + 1)] /\ pow2[Width - (i + 1)] \in Nat \ {0}
<1>1. Width - (i + 1) \in Nat /\ (Width - (i + 1)) + 1 = Width - i
  BY BusAssumption
<1> QED BY <1>1, Pow2

\* After i turns the loop has ended, or the bits from the mask on are cleared.
Ended(s) == s.addr < s.size
Halved(s, i) == s.addr < pow2[Width - i] /\ (i < Width => s.mask = pow2[Width - (i + 1)])

\* Whatever the size of a memory is, mirror leads inside of it.
LEMMA MirrorInside ==
  ASSUME NEW a \in Address, NEW size \in Nat \ {0}
  PROVE  mirror(a, size) \in 0..(size - 1)
<1> DEFINE first == [addr |-> a, size |-> size, base |-> 0, mask |-> pow2[Width - 1]]
           X(i) == Times(mirrorTurn, i, first)
           Within(s) == s.size >= 1 /\ s.base + s.size <= size
           T == {i \in Nat : i <= Width => Within(X(i)) /\ (Ended(X(i)) \/ Halved(X(i), i))}
<1>1. first \in Mirroring /\ a < pow2[Width]
  BY WidthPowers, BusAssumption, Pow2 DEF Mirroring, Address
<1>2. X(0) = first /\ \A i \in Nat : X(i) \in Mirroring /\ X(i + 1) = mirrorTurn[X(i)]
  BY <1>1, MirrorTurns, TimesRuns DEF Runs
<1> HIDE DEF X
<1>3. 0 \in T
  BY <1>1, <1>2, BusAssumption DEF Halved
<1>4. ASSUME NEW i \in T \cap Nat PROVE i + 1 \in T
  <2> SUFFICES ASSUME i + 1 <= Width
               PROVE  Within(X(i + 1)) /\ (Ended(X(i + 1)) \/ Halved(X(i + 1), i + 1))
    OBVIOUS
  <2>1. i < Width /\ i <= Width
    BY BusAssumption
  <2>2. PICK s \in Mirroring : s = X(i) /\ X(i + 1) = mirrorTurn[s]
    BY <1>2
  <2>3. Within(s) /\ (Ended(s) \/ Halved(s, i))
    BY <2>1, <2>2
  <2>4. CASE Ended(s)
    <3>1. mirrorTurn[s] = s
      BY <2>4 DEF Ended, mirrorTurn
    <3> QED BY <2>2, <2>3, <2>4, <3>1
  <2>5. CASE ~Ended(s)
    <3>1. PICK m \in Nat \ {0} : m = pow2[Width - (i + 1)] /\ pow2[Width - i] = 2 * m
      BY <2>1, WidthPowers
    <3>2. s.mask = m /\ s.addr < 2 * m /\ s.addr >= s.size /\ s.size >= 1
      BY <2>1, <2>3, <2>5, <3>1 DEF Halved, Ended, Mirroring
    <3>3. /\ mirrorTurn[s].addr < m /\ mirrorTurn[s].mask = m \div 2
          /\ mirrorTurn[s].size >= 1
          /\ mirrorTurn[s].base + mirrorTurn[s].size <= s.base + s.size
      BY <3>2, MirrorTurn
    <3>4. Within(mirrorTurn[s])
      <4>1. mirrorTurn[s] \in Mirroring
        BY MirrorTurns
      <4> QED BY <2>3, <3>3, <4>1 DEF Mirroring
    <3>5. i + 1 < Width => m \div 2 = pow2[Width - ((i + 1) + 1)]
      <4> SUFFICES ASSUME i + 1 < Width PROVE m \div 2 = pow2[Width - ((i + 1) + 1)]
        OBVIOUS
      <4>1. i + 1 \in Nat
        OBVIOUS
      <4>2. PICK h \in Nat : h = pow2[Width - ((i + 1) + 1)] /\ pow2[Width - (i + 1)] = 2 * h
        BY <4>1, WidthPowers
      <4> QED BY <3>1, <4>2
    <3>6. Halved(mirrorTurn[s], i + 1)
      BY <3>1, <3>3, <3>5 DEF Halved
    <3> QED BY <2>2, <3>4, <3>6
  <2> QED BY <2>4, <2>5
<1>5. Width \in T
  <2>1. Nat \subseteq T
    <3> HIDE DEF T
    <3> QED BY <1>3, <1>4, NatSet
  <2> QED BY <2>1, BusAssumption
<1>6. PICK last \in Mirroring : last = X(Width)
  BY <1>2, BusAssumption
<1>7. Within(last) /\ Ended(last)
  <2>1. Within(last) /\ (Ended(last) \/ Halved(last, Width))
    BY <1>5, <1>6, BusAssumption
  <2>2. Halved(last, Width) => Ended(last)
    <3>1. Width - Width = 0 /\ pow2[0] = 1
      BY BusAssumption, Pow2
    <3> QED BY <2>1, <3>1 DEF Halved, Ended, Mirroring
  <2> QED BY <2>1, <2>2
<1>8. mirror(a, size) = last.base + last.addr
  BY <1>6 DEF mirror, X
<1> QED BY <1>7, <1>8 DEF Ended, Mirroring

\* A mask has a lowest bit.
LEMMA LowestBit ==
  ASSUME NEW mask \in Address, mask # 0
  PROVE  /\ lowest(mask) \in Nat \ {0} /\ lowest(mask) <= mask
<1>1. \E k \in 0..(Width - 1) : mask % pow2[k] = 0 /\ bitAt(mask, pow2[k])
  <2> SUFFICES ASSUME \A k \in 0..(Width - 1) : ~(mask % pow2[k] = 0 /\ bitAt(mask, pow2[k]))
               PROVE  FALSE
    OBVIOUS
  <2> DEFINE T == {k \in Nat : k <= Width => mask % pow2[k] = 0}
  <2>0. mask \in Nat \ {0} /\ mask \in 0..(pow2[Width] - 1) /\ Width \in Nat
    BY BusAssumption, Pow2 DEF Address
  <2>1. 0 \in T
    BY <2>0, Pow2
  <2>2. ASSUME NEW k \in T \cap Nat PROVE k + 1 \in T
    <3> SUFFICES ASSUME k + 1 <= Width PROVE mask % pow2[k + 1] = 0
      OBVIOUS
    <3>1. PICK p \in Nat \ {0} : p = pow2[k] /\ pow2[k + 1] = 2 * p
      BY Pow2
    <3>2. k \in 0..(Width - 1) /\ k <= Width
      BY <2>0
    <3>3. mask % p = 0 /\ (mask \div p) % 2 # 1
      BY <3>1, <3>2 DEF bitAt
    <3>4. PICK q \in Nat : q = mask \div p /\ mask = p * q
      <4> DEFINE q == mask \div p
      <4>1. q \in Nat /\ mask = p * q + (mask % p)
        BY <2>0, DivMod
      <4> HIDE DEF q
      <4>2. p * q \in Nat
        BY <4>1
      <4>3. mask = p * q
        BY <3>3, <4>1, <4>2
      <4> QED BY <4>1, <4>3 DEF q
    <3>5. PICK e \in Nat : q = 2 * e
      <4>1. q \div 2 \in Nat /\ q = 2 * (q \div 2)
        BY <3>3, <3>4
      <4> QED BY <4>1
    <3>6. mask = (2 * p) * e + 0
      <4>1. p * (2 * e) = (2 * p) * e
        OBVIOUS
      <4> QED BY <3>4, <3>5, <4>1, <2>0
    <3>7. 2 * p \in Nat \ {0} /\ 0 \in 0..(2 * p - 1)
      OBVIOUS
    <3>8. mask % (2 * p) = 0
      BY <2>0, <3>6, <3>7, DivModUnique
    <3> QED BY <3>1, <3>8
  <2>3. mask % pow2[Width] = 0
    <3>1. Nat \subseteq T
      <4> HIDE DEF T
      <4> QED BY <2>1, <2>2, NatSet
    <3> QED BY <3>1, <2>0
  <2>4. mask % pow2[Width] = mask
    <3>1. pow2[Width] \in Nat \ {0}
      BY <2>0, Pow2
    <3> QED BY <2>0, <3>1, DivSmall
  <2> QED BY <2>0, <2>3, <2>4
<1>2. PICK k \in 0..(Width - 1) :
        lowest(mask) = pow2[k] /\ mask % pow2[k] = 0 /\ bitAt(mask, pow2[k])
  <2> DEFINE B == {pow2[k] : k \in 0..(Width - 1)}
             Fits(b) == mask % b = 0 /\ bitAt(mask, b)
  <2>1. \E b \in B : Fits(b)
    BY <1>1
  <2>2. lowest(mask) = CHOOSE b \in B : Fits(b)
    BY DEF lowest
  <2> HIDE DEF Fits
  <2>3. lowest(mask) \in B /\ Fits(lowest(mask))
    BY <2>1, <2>2, Zenon
  <2> QED BY <2>3 DEF Fits
<1>3. PICK b \in Nat \ {0} : b = lowest(mask) /\ (mask \div b) % 2 = 1
  <2>1. k \in Nat
    BY BusAssumption
  <2> QED BY <1>2, <2>1, Pow2 DEF bitAt
<1>4. b <= mask
  <2>1. mask \in Nat
    BY BusAssumption, Pow2 DEF Address
  <2>2. PICK q \in Nat, r \in 0..(b - 1) : q = mask \div b /\ mask = b * q + r
    BY <2>1, DivMod
  <2>3. q # 0
    BY <1>3, <2>2
  <2>4. b * 1 <= b * q /\ b * q \in Nat
    BY <2>3, Product
  <2> QED BY <2>2, <2>4
<1> QED BY <1>3, <1>4

\* Cutting a bit out of an address makes it no larger.
LEMMA CutBelow ==
  ASSUME NEW a \in Nat, NEW b \in Nat \ {0}
  PROVE  b * (a \div (2 * b)) + (a % b) \in 0..a
<1>1. 2 * b \in Nat \ {0}
  OBVIOUS
<1>2. PICK q \in Nat, r \in 0..(2 * b - 1) : q = a \div (2 * b) /\ a = (2 * b) * q + r
  BY <1>1, DivMod
<1>3. PICK e \in 0..1, l \in 0..(b - 1) : r = b * e + l
  <2>1. CASE r < b
    <3>1. r = b * 0 + r /\ r \in 0..(b - 1) /\ 0 \in 0..1
      BY <2>1
    <3> QED BY <3>1
  <2>2. CASE r >= b
    <3>1. r = b * 1 + (r - b) /\ r - b \in 0..(b - 1) /\ 1 \in 0..1
      BY <2>2
    <3> QED BY <3>1
  <2> QED BY <2>1, <2>2
<1>4. PICK x \in Nat, y \in Nat : x = b * q /\ y = b * e
  OBVIOUS
<1>5. a = b * (2 * q + e) + l
  <2>1. (2 * b) * q = 2 * x /\ b * (2 * q + e) = 2 * x + y
    BY <1>4
  <2> QED BY <1>2, <1>3, <1>4, <2>1
<1>6. a % b = l
  <2>1. 2 * q + e \in Nat
    OBVIOUS
  <2> QED BY <1>5, <2>1, DivModUnique
<1>7. a = 2 * x + y + l
  <2>1. (2 * b) * q = 2 * x
    BY <1>4
  <2> QED BY <1>2, <1>3, <1>4, <2>1
<1> QED BY <1>2, <1>4, <1>6, <1>7

\* reduce cuts bits out, so an address stays one.
LEMMA ReduceTurns == reduceTurn \in [Reducing -> Reducing]
<1> SUFFICES ASSUME NEW s \in Reducing PROVE reduceTurn[s] \in Reducing
  BY DEF reduceTurn
<1>1. PICK a \in Address, m \in Address : s.addr = a /\ s.mask = m
  BY DEF Reducing
<1>2. CASE m = 0
  BY <1>1, <1>2 DEF reduceTurn
<1>3. CASE m # 0
  <2>1. PICK b \in Nat \ {0} : b = lowest(m) /\ b <= m
    BY <1>3, LowestBit
  <2>2. PICK N \in Nat \ {0} : N = pow2[Width] /\ Address = 0..(N - 1)
    BY BusAssumption, Pow2 DEF Address
  <2>3. b * (a \div (2 * b)) + (a % b) \in 0..a
    <3>1. a \in Nat
      BY <2>2
    <3> QED BY <3>1, CutBelow
  <2>4. b * (a \div (2 * b)) + (a % b) \in Address
    BY <2>2, <2>3, SMTT(40)
  <2>5. (m - b) \div 2 \in Address
    BY <2>1, <2>2, SMTT(40)
  <2>6. reduceTurn[s] = [addr |-> b * (a \div (2 * b)) + (a % b), mask |-> (m - b) \div 2]
    BY <1>1, <1>3, <2>1 DEF reduceTurn
  <2> QED BY <2>4, <2>5, <2>6 DEF Reducing
<1> QED BY <1>2, <1>3

\* ... through all turns.
LEMMA ReduceInside ==
  ASSUME NEW a \in Address, NEW mask \in Address PROVE reduce(a, mask) \in Address
<1>1. [addr |-> a, mask |-> mask] \in Reducing
  BY DEF Reducing
<1>2. Times(reduceTurn, Width, [addr |-> a, mask |-> mask]) \in Reducing
  BY <1>1, BusAssumption, ReduceTurns, TimesRuns DEF Runs
<1> QED BY <1>2 DEF reduce, Reducing

\* Whatever size, base and mask a map has, each of its addresses leads inside of the
\* memory that is mapped (Bus::map, mirror and reduce), so that a read or a write
\* through the table never leaves it.
THEOREM TargetsInside ==
  \A size \in Nat \ {0}, a, base, mask \in Address : Offset(a, size, base, mask) \in 0..(size - 1)
<1> SUFFICES ASSUME NEW size \in Nat \ {0}, NEW a \in Address, NEW base \in Address,
                    NEW mask \in Address
             PROVE  Offset(a, size, base, mask) \in 0..(size - 1)
  OBVIOUS
<1>1. PICK m \in 0..(size - 1) : m = mirror(base, size)
  BY MirrorInside
<1>2. PICK z \in Nat \ {0} : z = size - m
  BY <1>1
<1>3. mirror(reduce(a, mask), z) \in 0..(z - 1)
  BY ReduceInside, MirrorInside
<1>4. Offset(a, size, base, mask) = m + mirror(reduce(a, mask), z)
  BY <1>1, <1>2 DEF Offset
<1> QED BY <1>2, <1>3, <1>4

\* The offsets and handlers a map leaves.
OffsetsOK  == busTarget \in [Address -> Nat]
HandlersOK == handlerOf \in [Ids -> Handler \cup {OpenBus, None}]

\* The offset of any map is a number.
LEMMA OffsetTypes ==
  ASSUME NEW l \in Layouts, NEW a \in Address PROVE Offset(a, l[1], l[2], l[3]) \in Nat
<1>1. PICK size \in Nat, base \in Address, mask \in Address : l[1] = size /\ l[2] = base /\ l[3] = mask
  BY BusAssumption
<1>2. Address \subseteq Nat
  BY DEF Address
<1>3. CASE size = 0
  <2>1. Offset(a, size, base, mask) = reduce(a, mask)
    BY <1>3 DEF Offset
  <2> QED BY <1>1, <1>2, <2>1, ReduceInside
<1>4. CASE size # 0
  <2>1. Offset(a, size, base, mask) \in 0..(size - 1)
    BY <1>4, TargetsInside
  <2> QED BY <1>1, <2>1
<1> QED BY <1>3, <1>4

\* What is left of handlers after addresses left them has their types.
LEMMA LeaveTypes ==
  ASSUME HandlersOK, NEW S PROVE Leave(S).owner \in [Ids -> Handler \cup {OpenBus, None}]
BY DEF HandlersOK, Leave

\* The inductive invariant that has all of the types.
BusTyped == BusInv /\ OffsetsOK /\ HandlersOK

\* It holds of an empty bus, ...
LEMMA BusTypedFirst == BusInit => BusTyped
<1>1. BusInit => OffsetsOK /\ HandlersOK
  BY DEF BusInit, OffsetsOK, HandlersOK
<1> QED BY <1>1, EmptyBus DEF BusInit, BusTyped

\* ... and every step keeps it.
LEMMA BusTypedStep == BusTyped /\ [BusNext]_mapVars => BusTyped'
<1> SUFFICES ASSUME BusInv, OffsetsOK, HandlersOK, [BusNext]_mapVars
             PROVE  BusInv' /\ OffsetsOK' /\ HandlersOK'
  BY DEF BusTyped
<1>1. ASSUME NEW h \in Handler, NEW S \in Regions, NEW l \in Layouts, Map(h, S, l[1], l[2], l[3])
      PROVE  BusInv' /\ OffsetsOK' /\ HandlersOK'
  <2>1. OffsetsOK'
    BY <1>1, OffsetTypes DEF Map, OffsetsOK
  <2>2. HandlersOK'
    BY <1>1, LeaveTypes DEF Map, HandlersOK
  <2> QED BY <1>1, <2>1, <2>2, MapKeeps
<1>2. ASSUME NEW S \in Regions, Unmap(S) PROVE BusInv' /\ OffsetsOK' /\ HandlersOK'
  <2>1. OffsetsOK'
    BY <1>2 DEF Unmap, OffsetsOK
  <2>2. HandlersOK'
    BY <1>2, LeaveTypes DEF Unmap, HandlersOK
  <2> QED BY <1>2, <2>1, <2>2, UnmapKeeps
<1>3. CASE BusReset
  BY <1>3, EmptyBusNext DEF BusReset, OffsetsOK, HandlersOK
<1>4. CASE UNCHANGED mapVars
  BY <1>4 DEF mapVars, OffsetsOK, HandlersOK, BusInv, AddressesCounted, HandlersReached, Leading
<1> QED BY <1>1, <1>2, <1>3, <1>4 DEF BusNext, MapFails

\* It has the types.
LEMMA BusTypedTypes == BusTyped => BusTypeOK
BY DEF BusTyped, BusInv, AddressesCounted, OffsetsOK, HandlersOK, BusTypeOK

\* The bus's variables keep their types, the offsets among them.
THEOREM BusTypes == BusSpec => []BusTypeOK
BY BusTypedFirst, BusTypedStep, BusTypedTypes, PTL DEF BusSpec

-----------------------------------------------------------------------------
(* The S-RTC: the calendar. *)

MonthLength(y, m) == daysInMonth[m] + IF m = 2 /\ Gregorian(y) THEN 1 ELSE 0
LeapsTo(p) == p \div 4 - p \div 100 + p \div 400

\* The leap days before a year and before the next differ by that of the year.
LEMMA LeapsStep ==
  ASSUME NEW y \in Nat
  PROVE  /\ LeapsTo(y) \in Int
         /\ LeapsTo(y + 1) = LeapsTo(y) + IF Gregorian(y + 1) THEN 1 ELSE 0
BY DEF LeapsTo, Gregorian

\* The day number is a sum of years, leap days, months and days.
LEMMA DayNumber ==
  ASSUME NEW y \in Nat \ {0}, NEW m \in Nat, NEW d \in Nat
  PROVE  /\ GregorianDay(y, m, d) \in Int
         /\ GregorianDay(y, m, d) =
              365 * (y - 1) + LeapsTo(y - 1) + (367 * m - 362) \div 12
                - (IF m <= 2 THEN 0 ELSE IF Gregorian(y) THEN 1 ELSE 2) + d
BY DEF GregorianDay, LeapsTo

\* The day after the last of a month is the first of the next, or of January.
LEMMA NextDate ==
  ASSUME NEW y \in Nat \ {0}, NEW m \in 1..12, NEW d \in Nat
  PROVE  /\ GregorianDay(y, m, d + 1) = GregorianDay(y, m, d) + 1
         /\ m < 12 => GregorianDay(y, m + 1, 1) = GregorianDay(y, m, MonthLength(y, m)) + 1
         /\ GregorianDay(y + 1, 1, 1) = GregorianDay(y, 12, MonthLength(y, 12)) + 1
<1> DEFINE before(n) == (367 * n - 362) \div 12
           short(n)  == IF n <= 2 THEN 0 ELSE IF Gregorian(y) THEN 1 ELSE 2
<1>1. GregorianDay(y, m, d + 1) = GregorianDay(y, m, d) + 1
  <2> HIDE DEF before, short
  <2> QED BY DayNumber DEF GregorianDay
<1>2. ASSUME m < 12 PROVE before(m + 1) - short(m + 1) = before(m) - short(m) + MonthLength(y, m)
  <2>1. m \in {1, 2, 3, 4, 5, 6, 7, 8, 9, 10, 11}
    BY <1>2
  <2> QED BY <2>1 DEF MonthLength, daysInMonth
<1>3. before(12) = 336 /\ before(1) = 0 /\ MonthLength(y, 12) = 31
  BY DEF MonthLength, daysInMonth
<1>4. ASSUME NEW n \in 1..12
      PROVE  before(n) \in Int /\ short(n) \in Int /\ MonthLength(y, n) \in Nat
  <2>1. n \in {1, 2, 3, 4, 5, 6, 7, 8, 9, 10, 11, 12}
    OBVIOUS
  <2> QED BY <2>1 DEF MonthLength, daysInMonth
<1>5. ASSUME NEW n \in 1..12, NEW e \in Nat
      PROVE  GregorianDay(y, n, e) = 365 * (y - 1) + LeapsTo(y - 1) + before(n) - short(n) + e
  BY DayNumber
<1>6. LeapsTo(y - 1) \in Int /\ LeapsTo(y) = LeapsTo(y - 1) + IF Gregorian(y) THEN 1 ELSE 0
  <2>1. y - 1 \in Nat /\ (y - 1) + 1 = y
    OBVIOUS
  <2> QED BY <2>1, LeapsStep
<1>7. GregorianDay(y + 1, 1, 1) = 365 * y + LeapsTo(y) + 1
  <2>1. y + 1 \in Nat \ {0} /\ (y + 1) - 1 = y
    OBVIOUS
  <2>2. GregorianDay(y + 1, 1, 1) = 365 * ((y + 1) - 1) + LeapsTo((y + 1) - 1) + 1
    BY DEF GregorianDay, LeapsTo
  <2> QED BY <2>1, <2>2
<1>8. short(12) = IF Gregorian(y) THEN 1 ELSE 2
  OBVIOUS
<1> HIDE DEF before, short
<1>9. ASSUME m < 12
      PROVE  GregorianDay(y, m + 1, 1) = GregorianDay(y, m, MonthLength(y, m)) + 1
  <2>1. m + 1 \in 1..12
    BY <1>9
  <2> QED BY <1>2, <1>9, <1>4, <1>5, <1>6, <2>1
<1>10. GregorianDay(y + 1, 1, 1) = GregorianDay(y, 12, MonthLength(y, 12)) + 1
  <2>1. GregorianDay(y, 12, 31) = 365 * (y - 1) + LeapsTo(y - 1) + 336 - short(12) + 31
    BY <1>3, <1>5
  <2> QED BY <2>1, <1>3, <1>6, <1>7, <1>8
<1> QED BY <1>1, <1>9, <1>10

DateNumber(t) == GregorianDay(TrueYear(t), t.month, t.day)
SecondsAt(h, m, s) == 60 * 60 * h + 60 * m + s
SecondOf(t)   == SecondsAt(t.hour, t.minute, t.second)
InStep(t)     == t \in SharpTimes /\ SharpValid(t) /\ ~OutOfStep(t)

\* The years in which the clock and the calendar agree on 29 February.
YearInStep(y)   == y % 100 # 0 /\ ~(y \div 100 > 15)
LeapAsMain(y)   == y % 400 = 0 \/ (y % 100 # 0 /\ y % 4 = 0)
NextYear(y)     == (y + 1) % 4096 = y + 1
CenturyAfter(y) == 1000 + y + 100 - (y % 100)

\* Years that leapDay tells right, counted from 1000, and the century after them.
LEMMA YearsInStep ==
  ASSUME NEW y \in Nat, YearInStep(y)
  PROVE  /\ NextYear(y) /\ CenturyAfter(y) \in Nat \ {0}
         /\ LeapAsMain(y) <=> Gregorian(1000 + y)
         /\ (y + 1) % 100 # 0 => YearInStep(y + 1) /\ CenturyAfter(y + 1) = CenturyAfter(y)
         /\ (y + 1) % 100 = 0 => CenturyAfter(y) = 1000 + y + 1
<1>1. NextYear(y)
  BY DEF YearInStep, NextYear
<1>2. LeapAsMain(y) <=> Gregorian(1000 + y)
  BY DEF Gregorian, LeapAsMain, YearInStep
<1>3. ASSUME (y + 1) % 100 # 0
      PROVE  YearInStep(y + 1) /\ CenturyAfter(y + 1) = CenturyAfter(y)
  <2>1. (y + 1) \div 100 <= 15 /\ (y + 1) % 100 = (y % 100) + 1
    BY <1>3 DEF YearInStep
  <2> QED BY <1>3, <2>1 DEF YearInStep, CenturyAfter
<1>4. ASSUME (y + 1) % 100 = 0 PROVE CenturyAfter(y) = 1000 + y + 1
  <2>1. y % 100 = 99
    BY <1>4
  <2> QED BY <2>1 DEF CenturyAfter
<1>5. CenturyAfter(y) \in Nat \ {0}
  <2>1. y % 100 \in 0..99
    OBVIOUS
  <2> QED BY <2>1 DEF CenturyAfter
<1> QED BY <1>1, <1>2, <1>3, <1>4, <1>5

\* The year of a clock in step.
LEMMA InStepYear ==
  ASSUME NEW t, InStep(t)
  PROVE  t.year \in Nat /\ YearInStep(t.year) /\ NextCentury(t) = GregorianDay(CenturyAfter(t.year), 1, 1)
BY DEF InStep, SharpTimes, OutOfStep, YearInStep, CenturyAfter, NextCentury, TrueYear

\* A day later, in the same century.
DayLater(t, u) ==
  /\ InStep(u) /\ NextCentury(u) = NextCentury(t) /\ DateNumber(u) = DateNumber(t) + 1
  /\ u.hour = t.hour /\ u.minute = t.minute /\ u.second = t.second

\* tickDay (time.cpp) goes to the next Gregorian day, through months and years.
LEMMA DayPasses ==
  ASSUME NEW t, InStep(t), DateNumber(t) + 1 < NextCentury(t)
  PROVE  DayLater(t, SharpDay(t))
<1>0. /\ t \in SharpTimes /\ t.second <= 59 /\ t.minute <= 59 /\ t.hour <= 23
      /\ t.month \in 1..12 /\ t.day \in Nat
  BY DEF InStep, SharpValid, SharpTimes
<1>1. PICK y \in Nat : y = t.year /\ YearInStep(y) /\ NextCentury(t) = GregorianDay(CenturyAfter(y), 1, 1)
  BY InStepYear
<1>2. PICK m \in 1..12 : m = t.month
  BY <1>0
<1>3. PICK d \in Nat : d = t.day
  BY <1>0
<1> DEFINE g == 1000 + y
<1>4. g \in Nat \ {0} /\ g = TrueYear(t) /\ DateNumber(t) = GregorianDay(g, m, d)
  BY <1>1, <1>2, <1>3 DEF TrueYear, DateNumber
<1>5. PICK days \in Nat \ {0} : days = MonthLength(g, m)
  <2>1. daysInMonth[m] \in Nat \ {0}
    BY DEF daysInMonth
  <2> QED BY <2>1 DEF MonthLength
<1>6. d \in 1..days
  BY <1>2, <1>3, <1>4, <1>5 DEF InStep, SharpValid, MonthLength
<1>7. SharpDay(t) = IF d < days THEN [t EXCEPT !.day = @ + 1] ELSE SharpMonth([t EXCEPT !.day = 1])
  <2>1. leapDay(t) <=> Gregorian(g)
    <3>1. leapDay(t) <=> LeapAsMain(y)
      BY <1>1 DEF leapDay, LeapAsMain
    <3> QED BY <1>1, <3>1, YearsInStep
  <2>2. monthDays(m) = daysInMonth[m]
    BY DEF monthDays
  <2> HIDE DEF g
  <2> QED BY <1>2, <1>3, <1>5, <2>1, <2>2 DEF SharpDay, MonthLength
<1> DEFINE u == SharpDay(t)
<1> HIDE DEF g, u
<1>8. ASSUME NEW n \in 1..12
      PROVE  /\ GregorianDay(g, n, d + 1) = GregorianDay(g, n, d) + 1
             /\ n < 12 => GregorianDay(g, n + 1, 1) = GregorianDay(g, n, MonthLength(g, n)) + 1
             /\ GregorianDay(g + 1, 1, 1) = GregorianDay(g, 12, MonthLength(g, 12)) + 1
  BY <1>4, NextDate
<1>9. CASE d < days
  <2>1. u = [t EXCEPT !.day = d + 1]
    BY <1>3, <1>7, <1>9 DEF u
  <2>2. /\ u \in SharpTimes /\ u.day = d + 1 /\ u.month = m /\ u.year = y
        /\ u.hour = t.hour /\ u.minute = t.minute /\ u.second = t.second
    BY <1>0, <1>1, <1>2, <2>1 DEF SharpTimes
  <2>3. InStep(u)
    <3>1. TrueYear(u) = TrueYear(t) /\ u.day \in 1..days
      BY <1>1, <1>6, <1>9, <2>2 DEF TrueYear
    <3>2. YearInStep(u.year)
      BY <1>1, <2>2
    <3> QED BY <1>0, <1>2, <1>4, <1>5, <2>2, <3>1, <3>2
      DEF InStep, SharpValid, OutOfStep, YearInStep, MonthLength
  <2>4. NextCentury(u) = NextCentury(t)
    BY <1>1, <2>2, <2>3, InStepYear
  <2>5. DateNumber(u) = DateNumber(t) + 1
    BY <1>1, <1>4, <1>8, <2>2 DEF DateNumber, TrueYear, g
  <2> QED BY <2>2, <2>3, <2>4, <2>5 DEF DayLater, u
<1>10. CASE d = days /\ m < 12
  <2>1. u = [t EXCEPT !.day = 1, !.month = m + 1]
    BY <1>0, <1>2, <1>3, <1>7, <1>10 DEF SharpMonth, SharpTimes, u
  <2>2. /\ u \in SharpTimes /\ u.day = 1 /\ u.month = m + 1 /\ u.year = y
        /\ u.hour = t.hour /\ u.minute = t.minute /\ u.second = t.second
    <3>1. m + 1 \in Nat /\ 1 \in Nat
      OBVIOUS
    <3> DEFINE n == m + 1
    <3> HIDE DEF n
    <3>2. n \in Nat /\ u = [t EXCEPT !.day = 1, !.month = n]
      BY <2>1, <3>1 DEF n
    <3>3. u \in SharpTimes
      BY <1>0, <3>1, <3>2 DEF SharpTimes
    <3> QED BY <1>0, <1>1, <3>2, <3>3 DEF SharpTimes, n
  <2>3. InStep(u)
    <3>1. TrueYear(u) = TrueYear(t) /\ u.month \in 1..12
      BY <1>1, <1>10, <2>2 DEF TrueYear
    <3>2. YearInStep(u.year)
      BY <1>1, <2>2
    <3>3. 1 <= MonthLength(g, m + 1)
      <4>1. daysInMonth[m + 1] \in Nat \ {0}
        BY <1>10 DEF daysInMonth
      <4> QED BY <4>1 DEF MonthLength
    <3> QED BY <1>0, <1>4, <2>2, <3>1, <3>2, <3>3
      DEF InStep, SharpValid, OutOfStep, YearInStep, MonthLength
  <2>4. NextCentury(u) = NextCentury(t)
    BY <1>1, <2>2, <2>3, InStepYear
  <2>5. DateNumber(u) = DateNumber(t) + 1
    BY <1>1, <1>4, <1>5, <1>8, <1>10, <2>2 DEF DateNumber, TrueYear, g
  <2> QED BY <2>2, <2>3, <2>4, <2>5 DEF DayLater, u
<1>11. CASE d = days /\ m = 12
  <2>1. (y + 1) % 4096 = y + 1
    <3>1. NextYear(y)
      BY <1>1, YearsInStep, ZenonT(60)
    <3> QED BY <3>1 DEF NextYear
  <2>2. u = [t EXCEPT !.day = 1, !.month = 1, !.year = y + 1]
    <3> DEFINE v == [t EXCEPT !.day = 1]
               w == [v EXCEPT !.month = 1]
    <3>1. v.month = 12 /\ w.year = y
      BY <1>0, <1>1, <1>2, <1>11 DEF SharpTimes
    <3>2. u = SharpMonth(v)
      BY <1>7, <1>11 DEF u
    <3>3. SharpMonth(v) = SharpYear(w)
      BY <3>1 DEF SharpMonth
    <3>4. SharpYear(w) = [w EXCEPT !.year = (w.year + 1) % 4096]
      BY DEF SharpYear
    <3>5. u = [w EXCEPT !.year = y + 1]
      BY <2>1, <3>1, <3>2, <3>3, <3>4, Zenon
    <3> QED BY <3>5
  <2>3. /\ u \in SharpTimes /\ u.day = 1 /\ u.month = 1 /\ u.year = y + 1
        /\ u.hour = t.hour /\ u.minute = t.minute /\ u.second = t.second
    <3> DEFINE n == y + 1
    <3>1. n \in Nat
      OBVIOUS
    <3> HIDE DEF n
    <3>2. u = [t EXCEPT !.day = 1, !.month = 1, !.year = n]
      BY <2>2 DEF n
    <3> QED BY <1>0, <3>1, <3>2 DEF SharpTimes, n
  <2>4. GregorianDay(g + 1, 1, 1) = DateNumber(t) + 1
    BY <1>4, <1>5, <1>8, <1>11
  <2>5. (y + 1) % 100 # 0
    <3> SUFFICES ASSUME (y + 1) % 100 = 0 PROVE FALSE
      OBVIOUS
    <3>1. CenturyAfter(y) = g + 1
      BY <1>1, YearsInStep DEF g
    <3>2. DateNumber(t) \in Int
      BY <1>4, DayNumber
    <3> QED BY <1>1, <2>4, <3>1, <3>2
  <2>6. YearInStep(y + 1) /\ CenturyAfter(y + 1) = CenturyAfter(y)
    BY <1>1, <2>5, YearsInStep
  <2>7. InStep(u)
    <3>1. daysInMonth[1] = 31
      BY DEF daysInMonth
    <3>2. ~OutOfStep(u)
      BY <2>3, <2>6 DEF OutOfStep, YearInStep
    <3>3. SharpValid(u)
      BY <1>0, <2>3, <3>1 DEF SharpValid
    <3> QED BY <2>3, <3>2, <3>3 DEF InStep
  <2>8. NextCentury(u) = NextCentury(t)
    BY <1>1, <2>3, <2>6, <2>7, InStepYear
  <2>9. DateNumber(u) = DateNumber(t) + 1
    <3>1. TrueYear(u) = g + 1
      BY <2>3 DEF TrueYear, g
    <3> QED BY <2>3, <2>4, <3>1 DEF DateNumber
  <2> QED BY <2>3, <2>7, <2>8, <2>9 DEF DayLater, u
<1> QED BY <1>6, <1>9, <1>10, <1>11 DEF u

-----------------------------------------------------------------------------
(* The S-RTC: its ticks. *)

Moment(d, n) == OneDay * d + n
Total(t) == Moment(DateNumber(t), SecondOf(t))
Limit(t) == Moment(NextCentury(t), 0)
Goes(t, u, k) == InStep(u) /\ NextCentury(u) = NextCentury(t) /\ Total(u) = Total(t) + k

\* The second of the day, and what the carries of the ticks do to it.
LEMMA TimeOfDay ==
  ASSUME NEW h \in Nat, NEW m \in Nat, NEW s \in Nat
  PROVE  /\ SecondsAt(h, m, s) \in Nat
         /\ h <= 23 /\ m <= 59 /\ s <= 59 => SecondsAt(h, m, s) \in 0..(OneDay - 1)
         /\ SecondsAt(h + 1, m, s) = SecondsAt(h, m, s) + 60 * 60
         /\ SecondsAt(h, m + 1, s) = SecondsAt(h, m, s) + 60
         /\ SecondsAt(h, m, s + 1) = SecondsAt(h, m, s) + 1
         /\ SecondsAt(23, m, s) = SecondsAt(0, m, s) + 60 * 60 * 23
         /\ SecondsAt(h, 59, s) = SecondsAt(h, 0, s) + 60 * 59
         /\ SecondsAt(h, m, 59) = SecondsAt(h, m, 0) + 59
<1>1. SecondsAt(h, m, s) \in Nat
  BY DEF SecondsAt
<1>2. ASSUME h <= 23, m <= 59, s <= 59 PROVE SecondsAt(h, m, s) \in 0..(OneDay - 1)
  <2>1. 60 * 60 * h + 60 * m + s <= 60 * 60 * 24 - 1
    BY <1>2
  <2>2. SecondsAt(h, m, s) <= OneDay - 1 /\ OneDay - 1 \in Int
    BY <2>1 DEF SecondsAt, OneDay
  <2> QED BY <1>1, <2>2
<1>3. /\ SecondsAt(h + 1, m, s) = SecondsAt(h, m, s) + 60 * 60
      /\ SecondsAt(h, m + 1, s) = SecondsAt(h, m, s) + 60
      /\ SecondsAt(h, m, s + 1) = SecondsAt(h, m, s) + 1
  BY DEF SecondsAt
<1>4. /\ SecondsAt(23, m, s) = SecondsAt(0, m, s) + 60 * 60 * 23
      /\ SecondsAt(h, 59, s) = SecondsAt(h, 0, s) + 60 * 59
      /\ SecondsAt(h, m, 59) = SecondsAt(h, m, 0) + 59
  BY DEF SecondsAt
<1> QED BY <1>1, <1>2, <1>3, <1>4

\* Moments are integers that seconds and days move, and the last hour of a day
\* ends where the next day begins.
LEMMA Moments ==
  ASSUME NEW d \in Int, NEW n \in Int
  PROVE  /\ Moment(d, n) \in Int
         /\ \A k \in Int : Moment(d, n + k) = Moment(d, n) + k
         /\ Moment(d + 1, n) + 60 * 60 * 23 = Moment(d, n + 60 * 60 * 23) + OneDay
         /\ \A c \in Int : n >= 60 * 60 * 23 /\ Moment(d, n) + 60 * 60 < Moment(c, 0) => d + 1 < c
BY DEF Moment, OneDay

\* A clock in step has numbers of the types the ticks need.
LEMMA InStepNumbers ==
  ASSUME NEW t, InStep(t)
  PROVE  /\ t \in SharpTimes /\ t.second \in 0..59 /\ t.minute \in 0..59 /\ t.hour \in 0..23
         /\ DateNumber(t) \in Int /\ SecondOf(t) \in 0..(OneDay - 1) /\ NextCentury(t) \in Int
         /\ Total(t) \in Int /\ Limit(t) \in Int
<1>1. t \in SharpTimes /\ t.second \in 0..59 /\ t.minute \in 0..59 /\ t.hour \in 0..23
  BY DEF InStep, SharpValid, SharpTimes
<1>2. t.month \in Nat /\ t.day \in Nat /\ t.year \in Nat
  BY <1>1 DEF SharpTimes
<1>3. DateNumber(t) \in Int
  <2>1. TrueYear(t) \in Nat \ {0}
    BY <1>2 DEF TrueYear
  <2> QED BY <1>2, <2>1, DayNumber DEF DateNumber
<1>4. NextCentury(t) \in Int
  <2>1. PICK y \in Nat : YearInStep(y) /\ NextCentury(t) = GregorianDay(CenturyAfter(y), 1, 1)
    BY InStepYear
  <2>2. PICK c \in Nat \ {0} : c = CenturyAfter(y)
    BY <2>1, YearsInStep
  <2>3. GregorianDay(c, 1, 1) \in Int
    BY DayNumber
  <2> QED BY <2>1, <2>2, <2>3
<1>5. SecondOf(t) \in 0..(OneDay - 1)
  <2>1. PICK h \in 0..23, m \in 0..59, s \in 0..59 : h = t.hour /\ m = t.minute /\ s = t.second
    BY <1>1, Zenon
  <2>2. SecondsAt(h, m, s) \in 0..(OneDay - 1)
    <3>1. h \in Nat /\ m \in Nat /\ s \in Nat /\ h <= 23 /\ m <= 59 /\ s <= 59
      OBVIOUS
    <3> QED BY <3>1, TimeOfDay, Zenon
  <2> QED BY <2>1, <2>2, SMTT(40) DEF SecondOf
<1>6. SecondOf(t) \in Int /\ 0 \in Int
  <2>1. OneDay - 1 \in Int
    BY DEF OneDay
  <2> QED BY <1>5, <2>1
<1> QED BY <1>1, <1>3, <1>4, <1>5, <1>6, Moments DEF Total, Limit

\* The date and the year of a clock whose time of day is set.
LEMMA SameDate ==
  ASSUME NEW t, InStep(t), NEW u \in SharpTimes, u.second <= 59, u.minute <= 59, u.hour <= 23,
         u.day = t.day, u.month = t.month, u.year = t.year
  PROVE  InStep(u) /\ NextCentury(u) = NextCentury(t) /\ DateNumber(u) = DateNumber(t)
<1>1. TrueYear(u) = TrueYear(t)
  BY DEF TrueYear
<1>2. InStep(u)
  BY <1>1 DEF InStep, SharpValid, OutOfStep
<1> QED BY <1>1, <1>2 DEF NextCentury, DateNumber

\* tickHour, as the loop of load() calls it, goes on by an hour.
LEMMA HourPasses ==
  ASSUME NEW t, InStep(t), Total(t) + 60 * 60 < Limit(t)
  PROVE  Goes(t, SharpHour(t), 60 * 60)
<1> DEFINE u == SharpHour(t)
           v == [t EXCEPT !.hour = 0]
<1>1. /\ t \in SharpTimes /\ t.second \in 0..59 /\ t.minute \in 0..59 /\ t.hour \in 0..23
      /\ DateNumber(t) \in Int /\ NextCentury(t) \in Int
  BY InStepNumbers
<1>2. PICK h \in Nat, m \in Nat, s \in Nat :
        /\ h = t.hour /\ m = t.minute /\ s = t.second /\ h <= 23 /\ m <= 59 /\ s <= 59
        /\ SecondOf(t) = SecondsAt(h, m, s)
  <2>1. /\ t.hour \in Nat /\ t.minute \in Nat /\ t.second \in Nat
        /\ t.hour <= 23 /\ t.minute <= 59 /\ t.second <= 59
    BY <1>1
  <2> QED BY <2>1, Zenon DEF SecondOf
<1>3. PICK d \in Int : d = DateNumber(t)
  BY <1>1
<1>4. PICK n \in Nat : n = SecondsAt(h, m, s)
  BY TimeOfDay
<1>5. Total(t) = Moment(d, n)
  BY <1>2, <1>3, <1>4 DEF Total
<1>6. CASE h < 23
  <2>1. h + 1 \in Nat /\ h + 1 <= 23 /\ h + 1 < 24
    BY <1>6
  <2>2. u = [t EXCEPT !.hour = h + 1]
    BY <1>2, <2>1 DEF SharpHour
  <2>3. /\ u \in SharpTimes /\ u.hour = h + 1 /\ u.minute = t.minute /\ u.second = t.second
        /\ u.day = t.day /\ u.month = t.month /\ u.year = t.year
    BY <1>1, <2>1, <2>2 DEF SharpTimes
  <2>4. InStep(u) /\ NextCentury(u) = NextCentury(t) /\ DateNumber(u) = DateNumber(t)
    <3>1. u.second <= 59 /\ u.minute <= 59 /\ u.hour <= 23
      BY <1>2, <2>1, <2>3
    <3> HIDE DEF u
    <3> QED BY <2>3, <3>1, SameDate
  <2>5. SecondOf(u) = n + 60 * 60
    <3>1. SecondOf(u) = SecondsAt(h + 1, m, s)
      BY <1>2, <2>3 DEF SecondOf
    <3> QED BY <1>4, <3>1, TimeOfDay
  <2> HIDE DEF u
  <2>6. Total(u) = Moment(d, n + 60 * 60)
    BY <1>3, <2>4, <2>5 DEF Total
  <2>7. Moment(d, n + 60 * 60) = Moment(d, n) + 60 * 60
    BY Moments
  <2> QED BY <1>5, <2>4, <2>6, <2>7 DEF Goes, u
<1>7. CASE h = 23
  <2>1. u = SharpDay(v)
    BY <1>2, <1>7 DEF SharpHour
  <2>2. /\ v \in SharpTimes /\ v.hour = 0 /\ v.minute = t.minute /\ v.second = t.second
        /\ v.day = t.day /\ v.month = t.month /\ v.year = t.year
    BY <1>1 DEF SharpTimes
  <2>3. InStep(v) /\ NextCentury(v) = NextCentury(t) /\ DateNumber(v) = DateNumber(t)
    <3>1. v.second <= 59 /\ v.minute <= 59 /\ v.hour <= 23
      BY <1>2, <2>2
    <3> HIDE DEF v
    <3> QED BY <2>2, <3>1, SameDate
  <2>4. PICK e \in Nat : e = SecondsAt(0, m, s)
    BY TimeOfDay
  <2>5. n = e + 60 * 60 * 23
    BY <1>4, <1>7, <2>4, TimeOfDay
  <2>6. SecondOf(v) = e
    BY <1>2, <2>2, <2>4 DEF SecondOf
  <2> HIDE DEF v
  <2>7. d + 1 < NextCentury(t)
    <3>1. n >= 60 * 60 * 23
      BY <2>5
    <3>2. PICK c \in Int : c = NextCentury(t)
      BY <1>1
    <3>3. Moment(d, n) + 60 * 60 < Moment(c, 0)
      BY <1>5, <3>2 DEF Limit
    <3> QED BY <3>1, <3>2, <3>3, Moments
  <2>8. DayLater(v, u)
    BY <1>3, <2>1, <2>3, <2>7, DayPasses
  <2>9. SecondOf(u) = e
    BY <2>6, <2>8 DEF DayLater, SecondOf
  <2>10. InStep(u) /\ NextCentury(u) = NextCentury(t) /\ DateNumber(u) = d + 1
    BY <1>3, <2>3, <2>8 DEF DayLater
  <2> HIDE DEF u
  <2>11. Total(u) = Moment(d + 1, e)
    BY <2>9, <2>10 DEF Total
  <2>12. Moment(d + 1, e) = Moment(d, n) + 60 * 60
    BY <2>5 DEF Moment, OneDay
  <2> QED BY <1>5, <2>10, <2>11, <2>12 DEF Goes, u
<1> QED BY <1>2, <1>6, <1>7

\* tickMinute goes on by a minute.
LEMMA MinutePasses ==
  ASSUME NEW t, InStep(t), Total(t) + 60 < Limit(t)
  PROVE  Goes(t, SharpMinute(t), 60)
<1> DEFINE u == SharpMinute(t)
           v == [t EXCEPT !.minute = 0]
<1>1. /\ t \in SharpTimes /\ t.second \in 0..59 /\ t.minute \in 0..59 /\ t.hour \in 0..23
      /\ DateNumber(t) \in Int /\ NextCentury(t) \in Int
  BY InStepNumbers
<1>2. PICK h \in Nat, m \in Nat, s \in Nat :
        /\ h = t.hour /\ m = t.minute /\ s = t.second /\ h <= 23 /\ m <= 59 /\ s <= 59
        /\ SecondOf(t) = SecondsAt(h, m, s)
  <2>1. /\ t.hour \in Nat /\ t.minute \in Nat /\ t.second \in Nat
        /\ t.hour <= 23 /\ t.minute <= 59 /\ t.second <= 59
    BY <1>1
  <2> QED BY <2>1, Zenon DEF SecondOf
<1>3. PICK d \in Int : d = DateNumber(t)
  BY <1>1
<1>4. PICK n \in Nat : n = SecondsAt(h, m, s)
  BY TimeOfDay
<1>5. Total(t) = Moment(d, n)
  BY <1>2, <1>3, <1>4 DEF Total
<1>6. CASE m < 59
  <2>1. m + 1 \in Nat /\ m + 1 <= 59 /\ m + 1 < 60
    BY <1>6
  <2>2. u = [t EXCEPT !.minute = m + 1]
    BY <1>2, <2>1 DEF SharpMinute
  <2>3. /\ u \in SharpTimes /\ u.minute = m + 1 /\ u.hour = t.hour /\ u.second = t.second
        /\ u.day = t.day /\ u.month = t.month /\ u.year = t.year
    BY <1>1, <2>1, <2>2 DEF SharpTimes
  <2>4. InStep(u) /\ NextCentury(u) = NextCentury(t) /\ DateNumber(u) = DateNumber(t)
    <3>1. u.second <= 59 /\ u.minute <= 59 /\ u.hour <= 23
      BY <1>2, <2>1, <2>3
    <3> HIDE DEF u
    <3> QED BY <2>3, <3>1, SameDate
  <2>5. SecondOf(u) = n + 60
    <3>1. SecondOf(u) = SecondsAt(h, m + 1, s)
      BY <1>2, <2>3 DEF SecondOf
    <3> QED BY <1>4, <3>1, TimeOfDay
  <2> HIDE DEF u
  <2>6. Total(u) = Moment(d, n + 60)
    BY <1>3, <2>4, <2>5 DEF Total
  <2>7. Moment(d, n + 60) = Moment(d, n) + 60
    BY Moments
  <2> QED BY <1>5, <2>4, <2>6, <2>7 DEF Goes, u
<1>7. CASE m = 59
  <2>1. u = SharpHour(v)
    BY <1>2, <1>7 DEF SharpMinute
  <2>2. /\ v \in SharpTimes /\ v.minute = 0 /\ v.hour = t.hour /\ v.second = t.second
        /\ v.day = t.day /\ v.month = t.month /\ v.year = t.year
    BY <1>1 DEF SharpTimes
  <2>3. InStep(v) /\ NextCentury(v) = NextCentury(t) /\ DateNumber(v) = DateNumber(t)
    <3>1. v.second <= 59 /\ v.minute <= 59 /\ v.hour <= 23
      BY <1>2, <2>2
    <3> HIDE DEF v
    <3> QED BY <2>2, <3>1, SameDate
  <2>4. PICK e \in Nat : e = SecondsAt(h, 0, s)
    BY TimeOfDay
  <2>5. n = e + 60 * 59
    BY <1>4, <1>7, <2>4, TimeOfDay
  <2>6. SecondOf(v) = e
    BY <1>2, <2>2, <2>4 DEF SecondOf
  <2> HIDE DEF v
  <2>7. Total(v) = Moment(d, e) /\ Limit(v) = Limit(t)
    BY <1>3, <2>3, <2>6 DEF Total, Limit
  <2>8. Moment(d, e) \in Int /\ Moment(d, n) = Moment(d, e) + 60 * 59
    BY <2>5 DEF Moment, OneDay
  <2>9. Total(v) + 60 * 60 = Total(t) + 60
    BY <1>5, <2>7, <2>8
  <2>10. Total(v) + 60 * 60 < Limit(v)
    BY <2>7, <2>9
  <2>11. Goes(v, u, 60 * 60)
    BY <2>1, <2>3, <2>10, HourPasses
  <2>12. InStep(u) /\ NextCentury(u) = NextCentury(t) /\ Total(u) = Total(t) + 60
    BY <2>3, <2>9, <2>11 DEF Goes
  <2> QED BY <2>12 DEF Goes
<1> QED BY <1>2, <1>6, <1>7

\* tickSecond goes on by a second.
LEMMA SecondPasses ==
  ASSUME NEW t, InStep(t), Total(t) + 1 < Limit(t)
  PROVE  Goes(t, SharpSecond(t), 1)
<1> DEFINE u == SharpSecond(t)
           v == [t EXCEPT !.second = 0]
<1>1. /\ t \in SharpTimes /\ t.second \in 0..59 /\ t.minute \in 0..59 /\ t.hour \in 0..23
      /\ DateNumber(t) \in Int /\ NextCentury(t) \in Int
  BY InStepNumbers
<1>2. PICK h \in Nat, m \in Nat, s \in Nat :
        /\ h = t.hour /\ m = t.minute /\ s = t.second /\ h <= 23 /\ m <= 59 /\ s <= 59
        /\ SecondOf(t) = SecondsAt(h, m, s)
  <2>1. /\ t.hour \in Nat /\ t.minute \in Nat /\ t.second \in Nat
        /\ t.hour <= 23 /\ t.minute <= 59 /\ t.second <= 59
    BY <1>1
  <2> QED BY <2>1, Zenon DEF SecondOf
<1>3. PICK d \in Int : d = DateNumber(t)
  BY <1>1
<1>4. PICK n \in Nat : n = SecondsAt(h, m, s)
  BY TimeOfDay
<1>5. Total(t) = Moment(d, n)
  BY <1>2, <1>3, <1>4 DEF Total
<1>6. CASE s < 59
  <2>1. s + 1 \in Nat /\ s + 1 <= 59 /\ s + 1 < 60
    BY <1>6
  <2>2. u = [t EXCEPT !.second = s + 1]
    BY <1>2, <2>1 DEF SharpSecond
  <2>3. /\ u \in SharpTimes /\ u.second = s + 1 /\ u.hour = t.hour /\ u.minute = t.minute
        /\ u.day = t.day /\ u.month = t.month /\ u.year = t.year
    BY <1>1, <2>1, <2>2 DEF SharpTimes
  <2>4. InStep(u) /\ NextCentury(u) = NextCentury(t) /\ DateNumber(u) = DateNumber(t)
    <3>1. u.second <= 59 /\ u.minute <= 59 /\ u.hour <= 23
      BY <1>2, <2>1, <2>3
    <3> HIDE DEF u
    <3> QED BY <2>3, <3>1, SameDate
  <2>5. SecondOf(u) = n + 1
    <3>1. SecondOf(u) = SecondsAt(h, m, s + 1)
      BY <1>2, <2>3 DEF SecondOf
    <3> QED BY <1>4, <3>1, TimeOfDay
  <2> HIDE DEF u
  <2>6. Total(u) = Moment(d, n + 1)
    BY <1>3, <2>4, <2>5 DEF Total
  <2>7. Moment(d, n + 1) = Moment(d, n) + 1
    BY Moments
  <2> QED BY <1>5, <2>4, <2>6, <2>7 DEF Goes, u
<1>7. CASE s = 59
  <2>1. u = SharpMinute(v)
    BY <1>2, <1>7 DEF SharpSecond
  <2>2. /\ v \in SharpTimes /\ v.second = 0 /\ v.hour = t.hour /\ v.minute = t.minute
        /\ v.day = t.day /\ v.month = t.month /\ v.year = t.year
    BY <1>1 DEF SharpTimes
  <2>3. InStep(v) /\ NextCentury(v) = NextCentury(t) /\ DateNumber(v) = DateNumber(t)
    <3>1. v.second <= 59 /\ v.minute <= 59 /\ v.hour <= 23
      BY <1>2, <2>2
    <3> HIDE DEF v
    <3> QED BY <2>2, <3>1, SameDate
  <2>4. PICK e \in Nat : e = SecondsAt(h, m, 0)
    BY TimeOfDay
  <2>5. n = e + 59
    BY <1>4, <1>7, <2>4, TimeOfDay
  <2>6. SecondOf(v) = e
    BY <1>2, <2>2, <2>4 DEF SecondOf
  <2> HIDE DEF v
  <2>7. Total(v) = Moment(d, e) /\ Limit(v) = Limit(t)
    BY <1>3, <2>3, <2>6 DEF Total, Limit
  <2>8. Moment(d, e) \in Int /\ Moment(d, n) = Moment(d, e) + 59
    BY <2>5 DEF Moment, OneDay
  <2>9. Total(v) + 60 = Total(t) + 1
    BY <1>5, <2>7, <2>8
  <2>10. Total(v) + 60 < Limit(v)
    BY <2>7, <2>9
  <2>11. Goes(v, u, 60)
    BY <2>1, <2>3, <2>10, MinutePasses
  <2>12. InStep(u) /\ NextCentury(u) = NextCentury(t) /\ Total(u) = Total(t) + 1
    BY <2>3, <2>9, <2>11 DEF Goes
  <2> QED BY <2>12 DEF Goes
<1> QED BY <1>2, <1>6, <1>7

-----------------------------------------------------------------------------
(* The S-RTC: what every tick keeps, and the loops of load(). *)

Keeps(t, u) == u \in SharpTimes /\ u.weekday = t.weekday

\* No tick, whatever the time shown, touches the weekday.
LEMMA TicksKeep ==
  ASSUME NEW t \in SharpTimes
  PROVE  /\ Keeps(t, SharpDay(t)) /\ Keeps(t, SharpHour(t))
         /\ Keeps(t, SharpMinute(t)) /\ Keeps(t, SharpSecond(t))
<1>1. ASSUME NEW u \in SharpTimes PROVE Keeps(u, SharpYear(u))
  <2>1. (u.year + 1) % 4096 \in Nat
    BY DEF SharpTimes
  <2> DEFINE n == (u.year + 1) % 4096
  <2>2. SharpYear(u) = [u EXCEPT !.year = n]
    BY DEF SharpYear
  <2> HIDE DEF n
  <2> QED BY <2>1, <2>2 DEF SharpTimes, Keeps, n
<1>2. ASSUME NEW u \in SharpTimes PROVE Keeps(u, SharpMonth(u))
  <2>1. [u EXCEPT !.month = @ + 1] \in SharpTimes /\ Keeps(u, [u EXCEPT !.month = @ + 1])
    BY DEF SharpTimes, Keeps
  <2> DEFINE v == [u EXCEPT !.month = 1]
  <2>2. v \in SharpTimes /\ v.weekday = u.weekday
    BY DEF SharpTimes
  <2>3. Keeps(v, SharpYear(v))
    BY <1>1, <2>2
  <2> HIDE DEF v
  <2>4. Keeps(u, SharpYear(v))
    BY <2>2, <2>3 DEF Keeps
  <2> QED BY <2>1, <2>4 DEF SharpMonth, v
<1>3. ASSUME NEW u \in SharpTimes PROVE Keeps(u, SharpDay(u))
  <2>1. Keeps(u, [u EXCEPT !.day = @ + 1])
    BY DEF SharpTimes, Keeps
  <2> DEFINE v == [u EXCEPT !.day = 1]
  <2>2. v \in SharpTimes /\ v.weekday = u.weekday
    BY DEF SharpTimes
  <2>3. Keeps(v, SharpMonth(v))
    BY <1>2, <2>2
  <2> HIDE DEF v
  <2>4. Keeps(u, SharpMonth(v))
    BY <2>2, <2>3 DEF Keeps
  <2> QED BY <2>1, <2>4 DEF SharpDay, v
<1>4. ASSUME NEW u \in SharpTimes PROVE Keeps(u, SharpHour(u))
  <2>1. Keeps(u, [u EXCEPT !.hour = @ + 1])
    BY DEF SharpTimes, Keeps
  <2> DEFINE v == [u EXCEPT !.hour = 0]
  <2>2. v \in SharpTimes /\ v.weekday = u.weekday
    BY DEF SharpTimes
  <2>3. Keeps(v, SharpDay(v))
    BY <1>3, <2>2
  <2> HIDE DEF v
  <2>4. Keeps(u, SharpDay(v))
    BY <2>2, <2>3 DEF Keeps
  <2> QED BY <2>1, <2>4 DEF SharpHour, v
<1>5. ASSUME NEW u \in SharpTimes PROVE Keeps(u, SharpMinute(u))
  <2>1. Keeps(u, [u EXCEPT !.minute = @ + 1])
    BY DEF SharpTimes, Keeps
  <2> DEFINE v == [u EXCEPT !.minute = 0]
  <2>2. v \in SharpTimes /\ v.weekday = u.weekday
    BY DEF SharpTimes
  <2>3. Keeps(v, SharpHour(v))
    BY <1>4, <2>2
  <2> HIDE DEF v
  <2>4. Keeps(u, SharpHour(v))
    BY <2>2, <2>3 DEF Keeps
  <2> QED BY <2>1, <2>4 DEF SharpMinute, v
<1>6. ASSUME NEW u \in SharpTimes PROVE Keeps(u, SharpSecond(u))
  <2>1. Keeps(u, [u EXCEPT !.second = @ + 1])
    BY DEF SharpTimes, Keeps
  <2> DEFINE v == [u EXCEPT !.second = 0]
  <2>2. v \in SharpTimes /\ v.weekday = u.weekday
    BY DEF SharpTimes
  <2>3. Keeps(v, SharpMinute(v))
    BY <1>5, <2>2
  <2> HIDE DEF v
  <2>4. Keeps(u, SharpMinute(v))
    BY <2>2, <2>3 DEF Keeps
  <2> QED BY <2>1, <2>4 DEF SharpSecond, v
<1> QED BY <1>3, <1>4, <1>5, <1>6

\* Nor does a loop of ticks.
LEMMA LoopKeeps ==
  ASSUME NEW F \in [SharpTimes -> SharpTimes], \A u \in SharpTimes : Keeps(u, F[u]),
         NEW t \in SharpTimes, NEW n \in Nat
  PROVE  Keeps(t, Times(F, n, t))
<1> DEFINE G == {u \in SharpTimes : Keeps(t, u)}
           M == [u \in SharpTimes |-> 0]
<1>1. t \in G /\ G \in SUBSET SharpTimes /\ M \in [SharpTimes -> Int]
  BY DEF Keeps
<1>2. Counts(F, G, M, 0, 1)
  BY DEF Keeps, Counts
<1>3. M[t] = 0 /\ 0 * n = 0
  OBVIOUS
<1> HIDE DEF M, G
<1>4. M[t] + 0 * n < 1
  BY <1>3
<1>5. CountedOn(t, Times(F, n, t), G, M, 0, n)
  <2>1. 0 \in Nat /\ 1 \in Int
    OBVIOUS
  <2> QED BY <1>1, <1>2, <1>4, <2>1, TimesKeeps, Zenon
<1> QED BY <1>5 DEF G, CountedOn

\* A loop of ticks, while it does not reach the end of the century.
TicksBy(F, k) == \A u : InStep(u) /\ Total(u) + k < Limit(u) => Goes(u, F[u], k)

\* A loop of n ticks goes on by n times the length of one.
LEMMA LoopGoes ==
  ASSUME NEW F \in [SharpTimes -> SharpTimes], NEW k \in Nat, TicksBy(F, k),
         NEW t, InStep(t), NEW n \in Nat, Total(t) + k * n < Limit(t)
  PROVE  Goes(t, Times(F, n, t), k * n)
<1> DEFINE G == {u \in SharpTimes : InStep(u) /\ NextCentury(u) = NextCentury(t)}
           M == [u \in SharpTimes |-> IF InStep(u) THEN Total(u) ELSE 0]
<1>1. G \in SUBSET SharpTimes
  OBVIOUS
<1>2. M \in [SharpTimes -> Int]
  BY InStepNumbers
<1>3. t \in G /\ M[t] = Total(t) /\ Limit(t) \in Int
  BY InStepNumbers
<1>4. ASSUME NEW u \in G, M[u] + k < Limit(t) PROVE F[u] \in G /\ M[F[u]] = M[u] + k
  <2>1. InStep(u) /\ M[u] = Total(u) /\ Limit(u) = Limit(t)
    BY DEF Limit
  <2>2. Goes(u, F[u], k)
    BY <1>4, <2>1 DEF TicksBy
  <2>3. F[u] \in SharpTimes
    OBVIOUS
  <2> QED BY <2>1, <2>2, <2>3 DEF Goes
<1> HIDE DEF G, M
<1>5. CountedOn(t, Times(F, n, t), G, M, k, n)
  <2>1. M[t] + k * n < Limit(t)
    BY <1>3
  <2>2. Counts(F, G, M, k, Limit(t))
    BY <1>4 DEF Counts
  <2>3. t \in G /\ Limit(t) \in Int /\ k \in Nat /\ n \in Nat
    BY <1>3
  <2> DEFINE limit == Limit(t)
  <2> HIDE DEF limit
  <2>4. limit \in Int /\ Counts(F, G, M, k, limit) /\ M[t] + k * n < limit
    BY <2>1, <2>2, <2>3 DEF limit
  <2> QED BY <1>1, <1>2, <2>3, <2>4, TimesKeeps
<1> QED BY <1>3, <1>5 DEF G, M, Goes, CountedOn

\* tickDay goes on by a day of seconds.
LEMMA DayGoes ==
  ASSUME NEW t, InStep(t), Total(t) + OneDay < Limit(t) PROVE Goes(t, SharpDay(t), OneDay)
<1>1. PICK d \in Int, c \in Int, n \in Int : d = DateNumber(t) /\ c = NextCentury(t) /\ n = SecondOf(t)
  <2>1. OneDay - 1 \in Int
    BY DEF OneDay
  <2>2. DateNumber(t) \in Int /\ NextCentury(t) \in Int /\ SecondOf(t) \in Int
    BY <2>1, InStepNumbers
  <2> QED BY <2>2, Zenon
<1>2. n >= 0
  <2>1. SecondOf(t) >= 0
    BY InStepNumbers
  <2> QED BY <1>1, <2>1
<1>3. d + 1 < c
  <2>1. Moment(d, n) + OneDay < Moment(c, 0)
    BY <1>1 DEF Total, Limit
  <2> QED BY <1>2, <2>1 DEF Moment, OneDay
<1>4. DayLater(t, SharpDay(t))
  BY <1>1, <1>3, DayPasses
<1> DEFINE u == SharpDay(t)
<1> HIDE DEF u
<1>5. InStep(u) /\ NextCentury(u) = NextCentury(t) /\ DateNumber(u) = d + 1 /\ SecondOf(u) = n
  BY <1>1, <1>4 DEF DayLater, SecondOf, u
<1>6. Moment(d + 1, n) = Moment(d, n) + OneDay
  BY DEF Moment, OneDay
<1> QED BY <1>1, <1>5, <1>6 DEF Goes, Total, u

\* The four loops: whatever the time shown, the weekday stays; and a clock in step
\* shows the time that has passed.
LEMMA CatchesUp ==
  ASSUME NEW t \in SharpTimes, NEW away \in Nat \X Nat \X Nat \X Nat
  PROVE  /\ Keeps(t, SharpCatchUp(t, away))
         /\ LET k == OneDay * away[1] + 60 * 60 * away[2] + 60 * away[3] + away[4]
            IN  InStep(t) /\ Total(t) + k < Limit(t) => Goes(t, SharpCatchUp(t, away), k)
<1> DEFINE t1 == Times(DaysOn, away[1], t)
           t2 == Times(Hours, away[2], t1)
           t3 == Times(Minutes, away[3], t2)
           t4 == Times(Seconds, away[4], t3)
<1>0. t4 = SharpCatchUp(t, away)
  BY DEF SharpCatchUp
<1>1. PICK a \in Nat, b \in Nat, c \in Nat, d \in Nat :
        a = away[1] /\ b = away[2] /\ c = away[3] /\ d = away[4]
  OBVIOUS
<1>2. /\ DaysOn \in [SharpTimes -> SharpTimes] /\ \A u \in SharpTimes : Keeps(u, DaysOn[u])
      /\ Hours \in [SharpTimes -> SharpTimes] /\ \A u \in SharpTimes : Keeps(u, Hours[u])
      /\ Minutes \in [SharpTimes -> SharpTimes] /\ \A u \in SharpTimes : Keeps(u, Minutes[u])
      /\ Seconds \in [SharpTimes -> SharpTimes] /\ \A u \in SharpTimes : Keeps(u, Seconds[u])
  <2>1. \A u \in SharpTimes : /\ Keeps(u, SharpDay(u)) /\ Keeps(u, SharpHour(u))
                              /\ Keeps(u, SharpMinute(u)) /\ Keeps(u, SharpSecond(u))
    BY TicksKeep
  <2> QED BY <2>1 DEF Keeps, DaysOn, Hours, Minutes, Seconds
<1>3. Keeps(t, t1)
  BY <1>1, <1>2, LoopKeeps
<1>4. Keeps(t1, t2)
  <2> HIDE DEF t1
  <2> QED BY <1>1, <1>2, <1>3, LoopKeeps DEF Keeps
<1>5. Keeps(t2, t3)
  <2> HIDE DEF t2
  <2>1. t2 \in SharpTimes
    BY <1>4 DEF Keeps
  <2>2. Keeps(t2, Times(Minutes, c, t2))
    BY <1>2, <2>1, LoopKeeps
  <2> QED BY <1>1, <2>2
<1>6. Keeps(t3, t4)
  <2> HIDE DEF t3
  <2> QED BY <1>1, <1>2, <1>5, LoopKeeps DEF Keeps
<1>7. Keeps(t, t4)
  <2> HIDE DEF t1, t2, t3, t4
  <2> QED BY <1>3, <1>4, <1>5, <1>6 DEF Keeps
<1>8. /\ TicksBy(DaysOn, OneDay) /\ TicksBy(Hours, 60 * 60)
      /\ TicksBy(Minutes, 60) /\ TicksBy(Seconds, 1)
  <2>1. \A u : InStep(u) => u \in SharpTimes
    BY DEF InStep
  <2>2. TicksBy(DaysOn, OneDay)
    BY <2>1, DayGoes DEF TicksBy, DaysOn
  <2>3. TicksBy(Hours, 60 * 60)
    BY <2>1, HourPasses DEF TicksBy, Hours
  <2>4. TicksBy(Minutes, 60)
    BY <2>1, MinutePasses DEF TicksBy, Minutes
  <2>5. TicksBy(Seconds, 1)
    BY <2>1, SecondPasses DEF TicksBy, Seconds
  <2> QED BY <2>2, <2>3, <2>4, <2>5
<1>9. ASSUME InStep(t), NEW k \in Nat, k = OneDay * a + 60 * 60 * b + 60 * c + d,
             Total(t) + k < Limit(t)
      PROVE  Goes(t, t4, k)
  <2> HIDE DEF t1, t2, t3, t4
  <2> DEFINE p == OneDay * a
             q == 60 * 60 * b
             r == 60 * c
  <2>1. p \in Nat /\ q \in Nat /\ r \in Nat /\ 1 * d = d /\ k = p + q + r + d
    BY <1>9 DEF OneDay
  <2> HIDE DEF p, q, r
  <2>2. Total(t) \in Int /\ Limit(t) \in Int
    BY <1>9, InStepNumbers
  <2>3. OneDay \in Nat /\ 60 * 60 \in Nat /\ 60 \in Nat /\ 1 \in Nat
    BY DEF OneDay
  <2>4. Goes(t, t1, p)
    <3>1. Total(t) + OneDay * a < Limit(t)
      BY <1>9, <2>1, <2>2 DEF p
    <3> QED BY <1>1, <1>2, <1>8, <1>9, <2>3, <3>1, LoopGoes DEF t1, p
  <2>5. InStep(t1) /\ Limit(t1) = Limit(t) /\ Total(t1) = Total(t) + p
    BY <2>4 DEF Goes, Limit
  <2>6. Goes(t1, t2, q)
    <3>1. Total(t1) + 60 * 60 * b < Limit(t1)
      BY <1>9, <2>1, <2>2, <2>5 DEF q
    <3> QED BY <1>1, <1>2, <1>8, <2>3, <2>5, <3>1, LoopGoes DEF t2, q
  <2>7. InStep(t2) /\ Limit(t2) = Limit(t) /\ Total(t2) = Total(t) + p + q
    BY <2>1, <2>2, <2>5, <2>6 DEF Goes, Limit
  <2>8. Goes(t2, t3, r)
    <3>1. Total(t2) + 60 * c < Limit(t2)
      BY <1>9, <2>1, <2>2, <2>7 DEF r
    <3> QED BY <1>1, <1>2, <1>8, <2>3, <2>7, <3>1, LoopGoes DEF t3, r
  <2>9. InStep(t3) /\ Limit(t3) = Limit(t) /\ Total(t3) = Total(t) + p + q + r
    BY <2>1, <2>2, <2>7, <2>8 DEF Goes, Limit
  <2>10. Goes(t3, t4, 1 * d)
    <3>1. Total(t3) + 1 * d < Limit(t3)
      BY <1>9, <2>1, <2>2, <2>9
    <3> QED BY <1>1, <1>2, <1>8, <2>3, <2>9, <3>1, LoopGoes DEF t4
  <2>11. InStep(t4) /\ Total(t4) = Total(t) + k
    BY <2>1, <2>2, <2>9, <2>10 DEF Goes
  <2>12. NextCentury(t4) = NextCentury(t)
    BY <2>4, <2>6, <2>8, <2>10 DEF Goes
  <2> QED BY <2>11, <2>12 DEF Goes
<1>10. OneDay * a + 60 * 60 * b + 60 * c + d \in Nat
  BY DEF OneDay
<1> HIDE DEF t1, t2, t3, t4
<1> QED BY <1>0, <1>1, <1>7, <1>9, <1>10

-----------------------------------------------------------------------------
(* The S-RTC: what is written and loaded, digit by digit. *)

\* A digit that is written leaves a time, and the weekday unless it is addressed.
LEMMA DigitWritten ==
  ASSUME NEW t \in SharpTimes, NEW addr \in 0..12, NEW d \in 0..15
  PROVE  /\ rtcWrite(t, addr, d) \in SharpTimes
         /\ addr < 12 => rtcWrite(t, addr, d).weekday = t.weekday
         /\ addr = 12 => rtcWrite(t, addr, d).weekday = d
<1> DEFINE Fits(u) == u \in SharpTimes /\ u.weekday = t.weekday
<1>1. ASSUME NEW n \in Nat
      PROVE  /\ units(n, d) \in Nat /\ tens(n, d) \in Nat /\ 100 * d + (n % 100) \in Nat
             /\ 100 * (n \div 100) + 10 * d + (n % 10) \in Nat
  BY DEF units, tens
<1>2. /\ d \in Nat /\ t.second \in Nat /\ t.minute \in Nat /\ t.hour \in Nat
      /\ t.day \in Nat /\ t.month \in Nat /\ t.year \in Nat
  BY DEF SharpTimes
<1>3. ASSUME NEW n \in Nat
      PROVE  /\ Fits([t EXCEPT !.second = n]) /\ Fits([t EXCEPT !.minute = n])
             /\ Fits([t EXCEPT !.hour = n]) /\ Fits([t EXCEPT !.day = n])
             /\ Fits([t EXCEPT !.month = n]) /\ Fits([t EXCEPT !.year = n])
  BY DEF SharpTimes
<1>4. rtcWrite(t, 12, d) \in SharpTimes /\ rtcWrite(t, 12, d).weekday = d
  <2>1. rtcWrite(t, 12, d) = [t EXCEPT !.weekday = d]
    BY DEF rtcWrite
  <2> QED BY <2>1 DEF SharpTimes
<1> HIDE DEF Fits
<1>6. Fits(rtcWrite(t, 0, d))
  <2>1. PICK n \in Nat : n = units(t.second, d)
    BY <1>1, <1>2
  <2>2. rtcWrite(t, 0, d) = [t EXCEPT !.second = n]
    BY <2>1 DEF rtcWrite
  <2> QED BY <1>3, <2>2
<1>7. Fits(rtcWrite(t, 1, d))
  <2>1. PICK n \in Nat : n = tens(t.second, d)
    BY <1>1, <1>2
  <2>2. rtcWrite(t, 1, d) = [t EXCEPT !.second = n]
    BY <2>1 DEF rtcWrite
  <2> QED BY <1>3, <2>2
<1>8. Fits(rtcWrite(t, 2, d))
  <2>1. PICK n \in Nat : n = units(t.minute, d)
    BY <1>1, <1>2
  <2>2. rtcWrite(t, 2, d) = [t EXCEPT !.minute = n]
    BY <2>1 DEF rtcWrite
  <2> QED BY <1>3, <2>2
<1>9. Fits(rtcWrite(t, 3, d))
  <2>1. PICK n \in Nat : n = tens(t.minute, d)
    BY <1>1, <1>2
  <2>2. rtcWrite(t, 3, d) = [t EXCEPT !.minute = n]
    BY <2>1 DEF rtcWrite
  <2> QED BY <1>3, <2>2
<1>10. Fits(rtcWrite(t, 4, d))
  <2>1. PICK n \in Nat : n = units(t.hour, d)
    BY <1>1, <1>2
  <2>2. rtcWrite(t, 4, d) = [t EXCEPT !.hour = n]
    BY <2>1 DEF rtcWrite
  <2> QED BY <1>3, <2>2
<1>11. Fits(rtcWrite(t, 5, d))
  <2>1. PICK n \in Nat : n = tens(t.hour, d)
    BY <1>1, <1>2
  <2>2. rtcWrite(t, 5, d) = [t EXCEPT !.hour = n]
    BY <2>1 DEF rtcWrite
  <2> QED BY <1>3, <2>2
<1>12. Fits(rtcWrite(t, 6, d))
  <2>1. PICK n \in Nat : n = units(t.day, d)
    BY <1>1, <1>2
  <2>2. rtcWrite(t, 6, d) = [t EXCEPT !.day = n]
    BY <2>1 DEF rtcWrite
  <2> QED BY <1>3, <2>2
<1>13. Fits(rtcWrite(t, 7, d))
  <2>1. PICK n \in Nat : n = tens(t.day, d)
    BY <1>1, <1>2
  <2>2. rtcWrite(t, 7, d) = [t EXCEPT !.day = n]
    BY <2>1 DEF rtcWrite
  <2> QED BY <1>3, <2>2
<1>14. Fits(rtcWrite(t, 8, d))
  <2>1. PICK n \in Nat : n = d
    BY <1>1, <1>2
  <2>2. rtcWrite(t, 8, d) = [t EXCEPT !.month = n]
    BY <2>1 DEF rtcWrite
  <2> QED BY <1>3, <2>2
<1>15. Fits(rtcWrite(t, 9, d))
  <2>1. PICK n \in Nat : n = units(t.year, d)
    BY <1>1, <1>2
  <2>2. rtcWrite(t, 9, d) = [t EXCEPT !.year = n]
    BY <2>1 DEF rtcWrite
  <2> QED BY <1>3, <2>2
<1>16. Fits(rtcWrite(t, 10, d))
  <2>1. PICK n \in Nat : n = 100 * (t.year \div 100) + 10 * d + (t.year % 10)
    BY <1>1, <1>2
  <2>2. rtcWrite(t, 10, d) = [t EXCEPT !.year = n]
    BY <2>1 DEF rtcWrite
  <2> QED BY <1>3, <2>2
<1>17. Fits(rtcWrite(t, 11, d))
  <2>1. PICK n \in Nat : n = 100 * d + (t.year % 100)
    BY <1>1, <1>2
  <2>2. rtcWrite(t, 11, d) = [t EXCEPT !.year = n]
    BY <2>1 DEF rtcWrite
  <2> QED BY <1>3, <2>2
<1>18. addr < 12 => Fits(rtcWrite(t, addr, d))
  <2>1. addr \in {0, 1, 2, 3, 4, 5, 6, 7, 8, 9, 10, 11, 12}
    OBVIOUS
  <2> QED BY <2>1, <1>6, <1>7, <1>8, <1>9, <1>10, <1>11, <1>12, <1>13, <1>14, <1>15, <1>16, <1>17
<1>19. addr < 12 \/ addr = 12
  OBVIOUS
<1> QED BY <1>4, <1>18, <1>19 DEF Fits

\* A digit that is read has four bits, and the last is the weekday.
LEMMA DigitRead ==
  ASSUME NEW t \in SharpTimes, NEW addr \in 0..12
  PROVE  rtcRead(t, addr) \in 0..15 /\ rtcRead(t, 12) = t.weekday
<1>1. ASSUME NEW n \in Nat
      PROVE  n % 16 \in 0..15 /\ (n % 10) % 16 \in 0..15 /\ (n \div 10) % 16 \in 0..15
             /\ ((n \div 10) % 10) % 16 \in 0..15 /\ (n \div 100) % 16 \in 0..15
  OBVIOUS
<1>2. rtcRead(t, addr) \in 0..15
  <2>1. addr \in {0, 1, 2, 3, 4, 5, 6, 7, 8, 9, 10, 11, 12}
    OBVIOUS
  <2>2. t.weekday \in Nat
    BY DEF SharpTimes
  <2> QED BY <1>1, <2>1, <2>2 DEF rtcRead, SharpTimes
<1>3. rtcRead(t, 12) = t.weekday
  <2>1. rtcRead(t, 12) = t.weekday % 16
    BY DEF rtcRead
  <2>2. t.weekday \in 0..15
    BY DEF SharpTimes
  <2> QED BY <2>1, <2>2
<1> QED BY <1>2, <1>3

\* The digits are loaded one after the other onto a zeroed clock.
LEMMA LoadedDigits ==
  ASSUME NEW t \in SharpTimes
  PROVE  \E f \in [0..13 -> SharpTimes] :
           /\ f[0] = Zeroed /\ Loaded(t) = f[13]
           /\ \A n \in 1..13 : f[n] = rtcWrite(f[n - 1], n - 1, rtcRead(t, n - 1))
<1> DEFINE put(u, n) == IF n \in 1..13 THEN rtcWrite(u, n - 1, rtcRead(t, n - 1)) ELSE u
           step == [n \in Nat |-> [u \in SharpTimes |-> put(u, n)]]
           Is(f) == f = [n \in 0..13 |->
                           IF n = 0 THEN Zeroed ELSE rtcWrite(f[n - 1], n - 1, rtcRead(t, n - 1))]
           f0 == CHOOSE f : Is(f)
<1>1. ASSUME NEW n \in Nat, NEW u \in SharpTimes PROVE put(u, n) \in SharpTimes
  <2>1. CASE n \in 1..13
    <3>1. n - 1 \in 0..12
      BY <2>1
    <3>2. rtcRead(t, n - 1) \in 0..15
      BY <3>1, DigitRead
    <3>3. rtcWrite(u, n - 1, rtcRead(t, n - 1)) \in SharpTimes
      BY <3>1, <3>2, DigitWritten
    <3> QED BY <2>1, <3>3
  <2>2. CASE n \notin 1..13
    BY <2>2
  <2> QED BY <2>1, <2>2
<1>2. Zeroed \in SharpTimes
  BY DEF Zeroed, SharpTimes
<1> HIDE DEF put
<1>3. step \in StepsOn(SharpTimes)
  BY <1>1 DEF StepsOn
<1> HIDE DEF step
<1>4. PICK g : Recursive(g, SharpTimes, Zeroed, step)
  BY <1>2, <1>3, PrimitiveRecursion
<1> DEFINE h == [n \in 0..13 |-> g[n]]
<1>5. h \in [0..13 -> SharpTimes] /\ h[0] = Zeroed
  BY <1>4 DEF Recursive
<1>6. ASSUME NEW n \in 1..13 PROVE h[n] = rtcWrite(h[n - 1], n - 1, rtcRead(t, n - 1))
  <2>1. n \in Nat \ {0} /\ n - 1 \in Nat /\ n \in 0..13 /\ n - 1 \in 0..13
    OBVIOUS
  <2>2. g[n] = step[n][g[n - 1]] /\ g[n - 1] \in SharpTimes
    BY <1>4, <2>1 DEF Recursive
  <2>3. step[n][g[n - 1]] = put(g[n - 1], n)
    BY <2>1, <2>2 DEF step
  <2> QED BY <2>1, <2>2, <2>3 DEF put
<1> HIDE DEF h
<1>7. Is(h)
  <2>1. h = [n \in 0..13 |-> h[n]]
    BY <1>5
  <2>2. \A n \in 0..13 : h[n] = IF n = 0 THEN Zeroed ELSE rtcWrite(h[n - 1], n - 1, rtcRead(t, n - 1))
    <3>1. \A n \in 0..13 : n = 0 \/ n \in 1..13
      OBVIOUS
    <3>2. \A n \in 1..13 : n # 0
      OBVIOUS
    <3> QED BY <1>5, <1>6, <3>1, <3>2
  <2> QED BY <2>1, <2>2
<1>8. Is(f0)
  BY <1>7, Zenon
<1>9. Loaded(t) = f0[13]
  BY DEF Loaded
<1> HIDE DEF f0
<1>10. f0[0] = Zeroed /\ \A n \in 1..13 : f0[n] = rtcWrite(f0[n - 1], n - 1, rtcRead(t, n - 1))
  <2>1. \A n \in 1..13 : n \in 0..13 /\ n # 0
    OBVIOUS
  <2>2. 0 \in 0..13
    OBVIOUS
  <2> QED BY <1>8, <2>1, <2>2
<1>11. f0 \in [0..13 -> SharpTimes]
  <2> DEFINE T == {n \in Nat : n <= 13 => f0[n] \in SharpTimes}
  <2>1. 0 \in T
    BY <1>2, <1>10
  <2>2. ASSUME NEW n \in T \cap Nat PROVE n + 1 \in T
    <3> SUFFICES ASSUME n + 1 <= 13 PROVE f0[n + 1] \in SharpTimes
      OBVIOUS
    <3>1. n + 1 \in 1..13 /\ (n + 1) - 1 = n /\ n \in 0..12 /\ f0[n] \in SharpTimes
      OBVIOUS
    <3>2. f0[n + 1] = rtcWrite(f0[n], n, rtcRead(t, n))
      BY <1>10, <3>1
    <3>3. rtcRead(t, n) \in 0..15
      BY <3>1, DigitRead
    <3> QED BY <3>1, <3>2, <3>3, DigitWritten
  <2>3. Nat \subseteq T
    <3> HIDE DEF T
    <3> QED BY <2>1, <2>2, NatSet
  <2>4. \A n \in 0..13 : f0[n] \in SharpTimes
    BY <2>3
  <2> QED BY <1>8, <2>4
<1> QED BY <1>9, <1>10, <1>11

\* A clock that is loaded keeps its weekday, and one in step its whole time.
LEMMA LoadedTime ==
  ASSUME NEW t \in SharpTimes
  PROVE  Keeps(t, Loaded(t)) /\ (InStep(t) => Loaded(t) = t)
<1>1. PICK f \in [0..13 -> SharpTimes] :
        /\ f[0] = Zeroed /\ Loaded(t) = f[13]
        /\ \A n \in 1..13 : f[n] = rtcWrite(f[n - 1], n - 1, rtcRead(t, n - 1))
  BY LoadedDigits
<1>2. f[13] = rtcWrite(f[12], 12, t.weekday) /\ f[12] \in SharpTimes
  <2>1. rtcRead(t, 12) = t.weekday
    BY DigitRead
  <2> QED BY <1>1, <2>1
<1>3. Keeps(t, f[13])
  <2>1. t.weekday \in 0..15
    BY DEF SharpTimes
  <2>2. 12 \in 0..12 /\ ~(12 < 12)
    OBVIOUS
  <2>3. rtcWrite(f[12], 12, t.weekday) \in SharpTimes /\ rtcWrite(f[12], 12, t.weekday).weekday = t.weekday
    BY <1>2, <2>1, <2>2, DigitWritten, ZenonT(60)
  <2> QED BY <1>2, <2>3 DEF Keeps
<1>4. ASSUME InStep(t) PROVE f[13] = t
  <2> DEFINE R(s, m, h, d, o, y, w) ==
               [second |-> s, minute |-> m, hour |-> h, day |-> d, month |-> o, year |-> y,
                weekday |-> w]
  <2>1. /\ t.second \in 0..59 /\ t.minute \in 0..59 /\ t.hour \in 0..59 /\ t.day \in 0..59
        /\ t.month \in 0..15 /\ t.year \in Nat /\ t.year \div 100 \in 0..15
    <3>1. t.second \in 0..59 /\ t.minute \in 0..59 /\ t.hour \in 0..59
      BY <1>4, InStepNumbers
    <3>2. t.month \in 1..12 /\ t.day \in Nat /\ t.year \in Nat /\ ~(t.year \div 100 > 15)
      BY <1>4 DEF InStep, SharpValid, SharpTimes, OutOfStep
    <3>3. \A n \in Nat : ~(n \div 100 > 15) => n \div 100 \in 0..15
      OBVIOUS
    <3>4. t.day \in 0..59
      <4>1. \A m \in 1..12 : daysInMonth[m] \in 0..31
        BY DEF daysInMonth
      <4>2. t.day <= daysInMonth[t.month] + IF t.month = 2 /\ Gregorian(TrueYear(t)) THEN 1 ELSE 0
        BY <1>4 DEF InStep, SharpValid
      <4> QED BY <3>2, <4>1, <4>2
    <3> QED BY <3>1, <3>2, <3>3, <3>4
  <2>2. \A n \in 0..59 : tens(units(0, (n % 10) % 16), (n \div 10) % 16) = n
    BY DEF tens, units
  <2>3. \A n \in 0..15 : n % 16 = n
    OBVIOUS
  <2>4. f[0] = R(0, 0, 0, 0, 0, 0, 0)
    BY <1>1 DEF Zeroed
  <2>5. f[1] = R(units(0, (t.second % 10) % 16), 0, 0, 0, 0, 0, 0)
    <3>1. f[1] = rtcWrite(f[0], 0, rtcRead(t, 0)) /\ rtcRead(t, 0) = (t.second % 10) % 16
      BY <1>1 DEF rtcRead
    <3> QED BY <2>4, <3>1 DEF rtcWrite
  <2>6. f[2] = R(t.second, 0, 0, 0, 0, 0, 0)
    <3>1. f[2] = rtcWrite(f[1], 1, rtcRead(t, 1)) /\ rtcRead(t, 1) = (t.second \div 10) % 16
      BY <1>1 DEF rtcRead
    <3>2. tens(units(0, (t.second % 10) % 16), (t.second \div 10) % 16) = t.second
      BY <2>1, <2>2
    <3> QED BY <2>5, <3>1, <3>2 DEF rtcWrite
  <2>7. f[3] = R(t.second, units(0, (t.minute % 10) % 16), 0, 0, 0, 0, 0)
    <3>1. f[3] = rtcWrite(f[2], 2, rtcRead(t, 2)) /\ rtcRead(t, 2) = (t.minute % 10) % 16
      BY <1>1 DEF rtcRead
    <3> QED BY <2>6, <3>1 DEF rtcWrite
  <2>8. f[4] = R(t.second, t.minute, 0, 0, 0, 0, 0)
    <3>1. f[4] = rtcWrite(f[3], 3, rtcRead(t, 3)) /\ rtcRead(t, 3) = (t.minute \div 10) % 16
      BY <1>1 DEF rtcRead
    <3>2. tens(units(0, (t.minute % 10) % 16), (t.minute \div 10) % 16) = t.minute
      BY <2>1, <2>2
    <3> QED BY <2>7, <3>1, <3>2 DEF rtcWrite
  <2>9. f[5] = R(t.second, t.minute, units(0, (t.hour % 10) % 16), 0, 0, 0, 0)
    <3>1. f[5] = rtcWrite(f[4], 4, rtcRead(t, 4)) /\ rtcRead(t, 4) = (t.hour % 10) % 16
      BY <1>1 DEF rtcRead
    <3> QED BY <2>8, <3>1 DEF rtcWrite
  <2>10. f[6] = R(t.second, t.minute, t.hour, 0, 0, 0, 0)
    <3>1. f[6] = rtcWrite(f[5], 5, rtcRead(t, 5)) /\ rtcRead(t, 5) = (t.hour \div 10) % 16
      BY <1>1 DEF rtcRead
    <3>2. tens(units(0, (t.hour % 10) % 16), (t.hour \div 10) % 16) = t.hour
      BY <2>1, <2>2
    <3> QED BY <2>9, <3>1, <3>2 DEF rtcWrite
  <2>11. f[7] = R(t.second, t.minute, t.hour, units(0, (t.day % 10) % 16), 0, 0, 0)
    <3>1. f[7] = rtcWrite(f[6], 6, rtcRead(t, 6)) /\ rtcRead(t, 6) = (t.day % 10) % 16
      BY <1>1 DEF rtcRead
    <3> QED BY <2>10, <3>1 DEF rtcWrite
  <2>12. f[8] = R(t.second, t.minute, t.hour, t.day, 0, 0, 0)
    <3>1. f[8] = rtcWrite(f[7], 7, rtcRead(t, 7)) /\ rtcRead(t, 7) = (t.day \div 10) % 16
      BY <1>1 DEF rtcRead
    <3>2. tens(units(0, (t.day % 10) % 16), (t.day \div 10) % 16) = t.day
      BY <2>1, <2>2
    <3> QED BY <2>11, <3>1, <3>2 DEF rtcWrite
  <2>13. f[9] = R(t.second, t.minute, t.hour, t.day, t.month, 0, 0)
    <3>1. f[9] = rtcWrite(f[8], 8, rtcRead(t, 8)) /\ rtcRead(t, 8) = t.month % 16
      BY <1>1 DEF rtcRead
    <3>2. t.month % 16 = t.month
      BY <2>1, <2>3
    <3> QED BY <2>12, <3>1, <3>2 DEF rtcWrite
  <2> DEFINE y1 == units(0, (t.year % 10) % 16)
             y2 == 100 * (y1 \div 100) + 10 * (((t.year \div 10) % 10) % 16) + (y1 % 10)
             y3 == 100 * ((t.year \div 100) % 16) + (y2 % 100)
  <2>14. f[10] = R(t.second, t.minute, t.hour, t.day, t.month, y1, 0)
    <3>1. f[10] = rtcWrite(f[9], 9, rtcRead(t, 9)) /\ rtcRead(t, 9) = (t.year % 10) % 16
      BY <1>1 DEF rtcRead
    <3> QED BY <2>13, <3>1 DEF rtcWrite
  <2>15. f[11] = R(t.second, t.minute, t.hour, t.day, t.month, y2, 0)
    <3>1. f[11] = rtcWrite(f[10], 10, rtcRead(t, 10)) /\ rtcRead(t, 10) = ((t.year \div 10) % 10) % 16
      BY <1>1 DEF rtcRead
    <3> HIDE DEF y1
    <3> QED BY <2>14, <3>1 DEF rtcWrite
  <2>16. f[12] = R(t.second, t.minute, t.hour, t.day, t.month, y3, 0)
    <3>1. f[12] = rtcWrite(f[11], 11, rtcRead(t, 11)) /\ rtcRead(t, 11) = (t.year \div 100) % 16
      BY <1>1 DEF rtcRead
    <3> HIDE DEF y2
    <3> QED BY <2>15, <3>1 DEF rtcWrite
  <2>17. y3 = t.year
    <3>1. PICK n \in Nat : n = t.year /\ n \div 100 \in 0..15
      BY <2>1
    <3>2. units(0, (n % 10) % 16) = n % 10
      BY DEF units
    <3>3. 100 * ((n % 10) \div 100) + 10 * (((n \div 10) % 10) % 16) + ((n % 10) % 10) = n % 100
      OBVIOUS
    <3>4. 100 * ((n \div 100) % 16) + ((n % 100) % 100) = n
      BY <3>1
    <3> QED BY <3>1, <3>2, <3>3, <3>4
  <2> HIDE DEF y1, y2, y3
  <2>18. f[13] = R(t.second, t.minute, t.hour, t.day, t.month, t.year, t.weekday)
    BY <1>2, <2>16, <2>17 DEF rtcWrite
  <2> QED BY <2>18 DEF SharpTimes
<1> QED BY <1>1, <1>3, <1>4

-----------------------------------------------------------------------------
(* The S-RTC: the weekday. *)

LeapYears(n) == {z \in 1000..((1000 + n) - 1) : leapyear(z)}

\* The leap years counted one by one are those of the reference.
LEMMA LeapCount ==
  ASSUME NEW n \in Nat
  PROVE  IsFiniteSet(LeapYears(n)) /\ Cardinality(LeapYears(n)) = LeapsTo(999 + n) - LeapsTo(999)
<1> DEFINE T == {i \in Nat : /\ IsFiniteSet(LeapYears(i))
                             /\ Cardinality(LeapYears(i)) = LeapsTo(999 + i) - LeapsTo(999)}
<1>1. 0 \in T
  <2>1. LeapYears(0) = {}
    BY DEF LeapYears
  <2>2. IsFiniteSet({}) /\ Cardinality({}) = 0
    BY FS_EmptySet
  <2>3. LeapsTo(999 + 0) - LeapsTo(999) = 0
    BY DEF LeapsTo
  <2> QED BY <2>1, <2>2, <2>3
<1>2. ASSUME NEW i \in T \cap Nat PROVE i + 1 \in T
  <2> DEFINE y == 1000 + i
  <2>1. leapyear(y) <=> Gregorian(y)
    BY DEF leapyear, Gregorian
  <2>2. LeapYears(i + 1) = IF leapyear(y) THEN LeapYears(i) \cup {y} ELSE LeapYears(i)
    <3>1. (1000 + (i + 1)) - 1 = y /\ (1000 + i) - 1 = y - 1 /\ y \in Nat /\ y >= 1000
      OBVIOUS
    <3> HIDE DEF y
    <3>2. 1000..y = (1000..(y - 1)) \cup {y}
      BY <3>1
    <3>3. LeapYears(i + 1) = {z \in 1000..y : leapyear(z)} /\ LeapYears(i) = {z \in 1000..(y - 1) : leapyear(z)}
      BY <3>1 DEF LeapYears
    <3> DEFINE A == 1000..(y - 1)
               B == 1000..y
    <3>4. B = A \cup {y} /\ LeapYears(i + 1) = {z \in B : leapyear(z)}
          /\ LeapYears(i) = {z \in A : leapyear(z)}
      BY <3>2, <3>3
    <3> HIDE DEF A, B
    <3>5. CASE leapyear(y)
      BY <3>4, <3>5
    <3>6. CASE ~leapyear(y)
      BY <3>4, <3>6
    <3> QED BY <3>5, <3>6
  <2>3. y \notin LeapYears(i)
    BY DEF LeapYears
  <2>4. LeapsTo(999 + (i + 1)) = LeapsTo(999 + i) + IF Gregorian(y) THEN 1 ELSE 0
    <3>1. 999 + i \in Nat /\ (999 + i) + 1 = y /\ 999 + (i + 1) = y
      OBVIOUS
    <3> HIDE DEF y
    <3> QED BY <3>1, LeapsStep
  <2>5. LeapsTo(999 + i) \in Int /\ LeapsTo(999) \in Int
    BY LeapsStep
  <2>6. IsFiniteSet(LeapYears(i)) /\ Cardinality(LeapYears(i)) = LeapsTo(999 + i) - LeapsTo(999)
    OBVIOUS
  <2> HIDE DEF y
  <2>7. CASE leapyear(y)
    <3>1. IsFiniteSet(LeapYears(i) \cup {y}) /\ Cardinality(LeapYears(i) \cup {y}) = Cardinality(LeapYears(i)) + 1
      BY <2>3, <2>6, FS_AddElement
    <3>2. IsFiniteSet(LeapYears(i + 1)) /\ Cardinality(LeapYears(i + 1)) = Cardinality(LeapYears(i)) + 1
      BY <2>2, <2>7, <3>1
    <3>3. LeapsTo(999 + (i + 1)) = LeapsTo(999 + i) + 1
      BY <2>1, <2>4, <2>7
    <3> QED BY <2>5, <2>6, <3>2, <3>3
  <2>8. CASE ~leapyear(y)
    <3>1. LeapYears(i + 1) = LeapYears(i) /\ LeapsTo(999 + (i + 1)) = LeapsTo(999 + i)
      BY <2>1, <2>2, <2>4, <2>5, <2>8
    <3> QED BY <2>6, <3>1
  <2> QED BY <2>7, <2>8
<1>3. Nat \subseteq T
  <2> HIDE DEF T
  <2> QED BY <1>1, <1>2, NatSet
<1> QED BY <1>3

\* The days of the months added one by one are those of the reference.
LEMMA MonthsCount ==
  ASSUME NEW y \in Nat, NEW m \in 1..12
  PROVE  monthsBefore(y, m) =
           (367 * m - 362) \div 12 - (IF m <= 2 THEN 0 ELSE IF Gregorian(y) THEN 1 ELSE 2)
<1> DEFINE leap(n) == IF n = 3 /\ leapyear(y) THEN 1 ELSE 0
           next(n, v) == IF n <= 1 THEN 0 ELSE v + daysInMonth[((n - 2) % 12) + 1] + leap(n)
           step == [n \in Nat |-> [v \in Int |-> next(n, v)]]
           Is(f) == f = [n \in Nat |->
                           IF n <= 1 THEN 0
                           ELSE f[n - 1] + daysInMonth[((n - 2) % 12) + 1]
                                  + IF n = 3 /\ leapyear(y) THEN 1 ELSE 0]
           f0 == CHOOSE f : Is(f)
<1>1. step \in StepsOn(Int)
  <2>1. \A n \in Nat : daysInMonth[((n - 2) % 12) + 1] \in Int
    <3>1. \A n \in Nat : ((n - 2) % 12) + 1 \in 1..12
      OBVIOUS
    <3>2. \A k \in 1..12 : daysInMonth[k] \in Int
      BY DEF daysInMonth
    <3> QED BY <3>1, <3>2
  <2>2. \A n \in Nat, v \in Int : next(n, v) \in Int
    BY <2>1
  <2> HIDE DEF next
  <2> QED BY <2>2 DEF StepsOn
<1> HIDE DEF step
<1>2. PICK g : Recursive(g, Int, 0, step)
  BY <1>1, PrimitiveRecursion
<1>3. Is(g)
  <2>1. g = [n \in Nat |-> g[n]] /\ g[0] = 0
    BY <1>2 DEF Recursive
  <2>2. ASSUME NEW n \in Nat PROVE n # 0 => g[n] = next(n, g[n - 1])
    <3> SUFFICES ASSUME n # 0 PROVE g[n] = next(n, g[n - 1])
      OBVIOUS
    <3>1. n - 1 \in Nat /\ g[n - 1] \in Int
      BY <1>2 DEF Recursive
    <3>2. g[n] = step[n][g[n - 1]]
      BY <1>2 DEF Recursive
    <3> HIDE DEF next
    <3> QED BY <3>1, <3>2 DEF step
  <2>3. 0 <= 1
    OBVIOUS
  <2> QED BY <2>1, <2>2, <2>3, ZenonT(60)
<1>4. Is(f0)
  BY <1>3, Zenon
<1>5. monthsBefore(y, m) = f0[m]
  BY DEF monthsBefore
<1> HIDE DEF f0
<1>6. \A n \in Nat : f0[n] = next(n, f0[n - 1])
  BY <1>4
<1>7. leapyear(y) <=> Gregorian(y)
  BY DEF leapyear, Gregorian
<1> DEFINE l == IF Gregorian(y) THEN 1 ELSE 0
<1>8. f0[1] = 0 /\ f0[2] = 31 /\ f0[3] = 59 + l /\ f0[4] = 90 + l
  <2>1. f0[1] = next(1, f0[0]) /\ f0[2] = next(2, f0[1]) /\ f0[3] = next(3, f0[2]) /\ f0[4] = next(4, f0[3])
    BY <1>6
  <2> QED BY <2>1, <1>7 DEF daysInMonth
<1>9. f0[5] = 120 + l /\ f0[6] = 151 + l /\ f0[7] = 181 + l /\ f0[8] = 212 + l
  <2>1. f0[5] = next(5, f0[4]) /\ f0[6] = next(6, f0[5]) /\ f0[7] = next(7, f0[6]) /\ f0[8] = next(8, f0[7])
    BY <1>6
  <2> QED BY <2>1, <1>8 DEF daysInMonth
<1>10. f0[9] = 243 + l /\ f0[10] = 273 + l /\ f0[11] = 304 + l /\ f0[12] = 334 + l
  <2>1. f0[9] = next(9, f0[8]) /\ f0[10] = next(10, f0[9]) /\ f0[11] = next(11, f0[10]) /\ f0[12] = next(12, f0[11])
    BY <1>6
  <2> QED BY <2>1, <1>9 DEF daysInMonth
<1>11. m \in {1, 2, 3, 4, 5, 6, 7, 8, 9, 10, 11, 12}
  OBVIOUS
<1> HIDE DEF next
<1> QED BY <1>5, <1>8, <1>9, <1>10, <1>11

\* calculateWeekday gives the Gregorian weekday of a valid date.
LEMMA WeekdayIsTrue ==
  ASSUME NEW t \in SharpTimes, SharpValid(t)
  PROVE  /\ calculateWeekday(1000 + t.year, t.month, t.day) = TrueWeekday(t)
         /\ TrueWeekday(t) \in 0..6
<1>1. PICK y \in Nat, m \in 1..12, d \in 1..31 : y = 1000 + t.year /\ m = t.month /\ d = t.day /\ y >= 1000
  <2>1. t.year \in Nat /\ t.month \in 1..12 /\ t.day \in Nat
    BY DEF SharpTimes, SharpValid
  <2>2. \A n \in 1..12 : daysInMonth[n] \in 0..31 /\ (n = 2 => daysInMonth[n] = 28)
    BY DEF daysInMonth
  <2>3. t.day \in 1..(daysInMonth[t.month] + IF t.month = 2 /\ Gregorian(TrueYear(t)) THEN 1 ELSE 0)
    BY DEF SharpValid
  <2>4. t.day \in 1..31
    BY <2>1, <2>2, <2>3
  <2> QED BY <2>1, <2>4
<1>2. /\ atLeast(1000, y) = y /\ atLeast(1, atMost(12, m)) = m /\ atLeast(1, atMost(31, d)) = d
  BY <1>1 DEF atLeast, atMost
<1>3. calculateWeekday(y, m, d) = (yearsBefore(y) + monthsBefore(y, m) + d - 1 + 3) % 7
  BY <1>2 DEF calculateWeekday
<1>4. yearsBefore(y) = 365 * (y - 1000) + LeapsTo(y - 1) - LeapsTo(999)
  <2>1. PICK n \in Nat : n = y - 1000
    BY <1>1
  <2>2. y = 1000 + n /\ y - 1 = 999 + n
    BY <2>1
  <2>3. {z \in 1000..(y - 1) : leapyear(z)} = LeapYears(n)
    BY <2>2 DEF LeapYears
  <2>4. Cardinality(LeapYears(n)) = LeapsTo(999 + n) - LeapsTo(999)
    BY LeapCount
  <2>5. LeapsTo(999 + n) \in Int /\ LeapsTo(999) \in Int
    BY LeapsStep
  <2>6. PICK a \in Int, b \in Int : a = LeapsTo(y - 1) /\ b = LeapsTo(999)
    BY <2>2, <2>5
  <2>7. Cardinality(LeapYears(n)) = a - b
    BY <2>2, <2>4, <2>6
  <2>8. yearsBefore(y) = 365 * (y - 1000) + Cardinality(LeapYears(n))
    BY <2>3, SMT DEF yearsBefore
  <2> QED BY <2>6, <2>7, <2>8, SMT
<1>5. TrueWeekday(t) = (GregorianDay(y, m, d) - GregorianDay(2000, 1, 1) + 6) % 7
  BY <1>1 DEF TrueWeekday, TrueYear
<1>6. y \in Nat \ {0} /\ m \in Nat /\ d \in Nat
  BY <1>1
<1> DEFINE c == (367 * m - 362) \div 12
           h == IF m <= 2 THEN 0 ELSE IF Gregorian(y) THEN 1 ELSE 2
<1>7. PICK b \in Int, s \in Int : b = c /\ s = h
  OBVIOUS
<1>8. PICK p \in Int : p = LeapsTo(y - 1)
  <2>1. y - 1 \in Nat
    BY <1>1
  <2> QED BY <2>1, LeapsStep
<1> HIDE DEF c, h
<1>9. GregorianDay(y, m, d) = 365 * (y - 1) + p + b - s + d
  BY <1>6, <1>7, <1>8, DayNumber DEF c, h
<1>10. monthsBefore(y, m) = b - s
  BY <1>7, MonthsCount DEF c, h
<1>11. GregorianDay(2000, 1, 1) = 365 * 1999 + 485 /\ LeapsTo(999) = 242
  BY SMT DEF GregorianDay, LeapsTo
<1> DEFINE z == 365 * (y - 1) + p + b - s + d
<1>12. calculateWeekday(y, m, d) = (z - 365 * 999 - 242 + 2) % 7
  <2>1. 365 * (y - 1000) + p - 242 + (b - s) + d - 1 + 3 = z - 365 * 999 - 242 + 2
    BY SMT
  <2> QED BY <1>3, <1>4, <1>8, <1>10, <1>11, <2>1, SMT
<1>13. TrueWeekday(t) = (z - (365 * 1999 + 485) + 6) % 7
  BY <1>5, <1>9, <1>11, SMT
<1>14. (z - (365 * 1999 + 485) + 6) % 7 = (z - 365 * 999 - 242 + 2) % 7
  BY SMT
<1>15. TrueWeekday(t) \in 0..6
  BY <1>13, SMT
<1> HIDE DEF z
<1> QED BY <1>1, <1>12, <1>13, <1>14, <1>15, SMT

-----------------------------------------------------------------------------
(* The S-RTC: the theorem. *)

\* A day has seconds.
LEMMA DaySize == OneDay \in Nat \ {0} /\ OneDay - 1 \in Int
BY SMT DEF OneDay

\* Multiples are at least one factor apart.
LEMMA ProductGap ==
  ASSUME NEW k \in Nat, NEW i \in Int, NEW j \in Int, i < j PROVE k * i + k <= k * j /\ k * i \in Int /\ k * j \in Int
OBVIOUS

\* A moment has one day and one second of it, and days order the moments.
LEMMA MomentOfDay ==
  ASSUME NEW d \in Int, NEW n \in 0..(OneDay - 1), NEW e \in Int
  PROVE  /\ \A m \in 0..(OneDay - 1) : Moment(d, n) = Moment(e, m) => d = e /\ n = m
         /\ Moment(d, n) < Moment(e, 0) <=> d < e
<1>1. PICK k \in Nat \ {0} : k = OneDay
  BY DaySize
<1>2. n \in 0..(k - 1) /\ n \in Int /\ Moment(d, n) = k * d + n /\ Moment(e, 0) = k * e + 0
  BY <1>1 DEF Moment
<1>3. k * d \in Int /\ k * e \in Int
  OBVIOUS
<1>4. /\ d < e => k * d + k <= k * e
      /\ e < d => k * e + k <= k * d
  BY ProductGap
<1>5. ASSUME NEW m \in 0..(OneDay - 1), Moment(d, n) = Moment(e, m) PROVE d = e /\ n = m
  <2>1. m \in 0..(k - 1) /\ k * d + n = k * e + m
    BY <1>1, <1>2, <1>5 DEF Moment
  <2> DEFINE x == k * d y == k * e
  <2> HIDE DEF x, y
  <2>2. x + n = y + m /\ x \in Int /\ y \in Int /\ (d < e => x + k <= y) /\ (e < d => y + k <= x)
        /\ (d = e => x = y)
    BY <1>3, <1>4, <2>1 DEF x, y
  <2> QED BY <1>2, <2>1, <2>2
<1>6. Moment(d, n) < Moment(e, 0) <=> d < e
  <2> DEFINE x == k * d y == k * e
  <2>1. /\ x \in Int /\ y \in Int /\ (d < e => x + k <= y) /\ (e < d => y + k <= x)
        /\ (d = e => x = y)
    BY <1>3, <1>4
  <2> HIDE DEF x, y
  <2>2. x + n < y + 0 <=> d < e
    BY <1>2, <2>1
  <2> QED BY <1>2, <2>2 DEF x, y
<1> QED BY <1>5, <1>6

\* The day and the second that SharpLater computes are those of the later moment.
LEMMA MomentLater ==
  ASSUME NEW e \in Nat, NEW m \in Nat, NEW d \in Nat, NEW n \in Nat
  PROVE  /\ (m + n) \div OneDay \in Nat /\ (m + n) % OneDay \in 0..(OneDay - 1)
         /\ (m + n) % OneDay \in Nat
         /\ Moment(e + d + (m + n) \div OneDay, (m + n) % OneDay) = Moment(e, m) + Moment(d, n)
<1>1. PICK k \in Nat \ {0} : k = OneDay
  BY DaySize
<1>2. PICK x \in Nat, y \in Nat :
        /\ x = (m + n) \div k /\ y = (m + n) % k /\ y \in 0..(k - 1) /\ m + n = k * x + y
  <2>1. m + n \in Nat
    OBVIOUS
  <2>2. /\ (m + n) \div k \in Nat /\ (m + n) % k \in 0..(k - 1)
        /\ m + n = k * ((m + n) \div k) + ((m + n) % k)
    BY <2>1, DivMod
  <2>3. (m + n) % k \in Nat
    BY <2>2
  <2> QED BY <2>2, <2>3
<1>3. k * (e + d + x) + y = (k * e + m) + (k * d + n)
  <2>1. k * (e + d + x) = k * e + k * d + k * x
    OBVIOUS
  <2>2. k * e \in Int /\ k * d \in Int /\ k * x \in Int
    OBVIOUS
  <2> QED BY <1>2, <2>1, <2>2
<1> QED BY <1>1, <1>2, <1>3, Zenon DEF Moment

\* What is due of the S-RTC, and the time that shows it.
Dues == Nat \X Nat \X (-1..6)
Shows(t, promise) ==
  InStep(t) /\ Total(t) = Moment(promise[1], promise[2]) /\ promise[2] \in 0..(OneDay - 1)

\* A clock that is in step at the moment promised shows the day and the second.
LEMMA ShowsDue ==
  ASSUME NEW t, NEW promise \in Dues, Shows(t, promise) PROVE SharpShown(t) = <<promise[1], promise[2]>>
<1>1. PICK d \in Int, n \in Int : d = DateNumber(t) /\ n = SecondOf(t) /\ n \in 0..(OneDay - 1)
  <2>1. OneDay - 1 \in Int
    BY DEF OneDay
  <2>2. InStep(t)
    BY DEF Shows
  <2>3. DateNumber(t) \in Int /\ SecondOf(t) \in 0..(OneDay - 1)
    BY <2>2, InStepNumbers
  <2> QED BY <2>1, <2>3
<1>2. PICK e \in Nat, m \in Nat : e = promise[1] /\ m = promise[2] /\ m \in 0..(OneDay - 1)
  BY DEF Dues, Shows
<1>3. Moment(d, n) = Moment(e, m)
  BY <1>1, <1>2 DEF Shows, Total
<1>4. d = e /\ n = m
  BY <1>1, <1>2, <1>3, MomentOfDay
<1>5. SharpValid(t)
  BY DEF Shows, InStep
<1>6. SharpShown(t) = <<DateNumber(t), SecondOf(t)>>
  BY <1>5 DEF SharpShown, DateNumber, SecondOf, SecondsAt
<1> QED BY <1>1, <1>2, <1>4, <1>6

\* What is promised for a date that is set.
LEMMA PromisedDue ==
  ASSUME NEW t \in SharpTimes, NEW w \in -1..6
  PROVE  /\ Promised(t, w) \in Dues /\ Promised(t, w)[3] = w
         /\ InStep(t) => Shows(t, Promised(t, w))
<1>1. CASE ~SharpValid(t)
  BY <1>1 DEF Promised, SharpShown, Dues, InStep
<1>2. CASE SharpValid(t)
  <2>1. /\ t.second \in Nat /\ t.minute \in Nat /\ t.hour \in Nat /\ t.day \in Nat
        /\ t.year \in Nat /\ t.month \in 1..12 /\ t.second <= 59 /\ t.minute <= 59 /\ t.hour <= 23
        /\ t.day >= 1
    BY <1>2 DEF SharpTimes, SharpValid
  <2>2. DateNumber(t) \in Nat
    <3>1. PICK y \in Nat, m \in 1..12, d \in Nat : y = TrueYear(t) /\ m = t.month /\ d = t.day /\ y >= 1000
      BY <2>1 DEF TrueYear
    <3>2. GregorianDay(y, m, d) \in Nat
      BY <3>1 DEF GregorianDay
    <3> QED BY <3>1, <3>2 DEF DateNumber
  <2>3. SecondOf(t) \in 0..(OneDay - 1) /\ SecondOf(t) \in Nat
    BY <2>1, TimeOfDay, Zenon DEF SecondOf
  <2>4. SharpShown(t) = <<DateNumber(t), SecondOf(t)>>
    BY <1>2 DEF SharpShown, DateNumber, SecondOf, SecondsAt
  <2>5. Promised(t, w) = <<DateNumber(t), SecondOf(t), w>>
    BY <2>4 DEF Promised
  <2>6. Promised(t, w) \in Dues
    BY <2>2, <2>3, <2>5 DEF Dues
  <2> QED BY <2>3, <2>5, <2>6 DEF Shows, Total
<1> QED BY <1>1, <1>2

\* A promise moves on by d days and n seconds.
LEMMA LaterDue ==
  ASSUME NEW promise \in Dues, NEW d \in Nat, NEW n \in Nat
  PROVE  LET l == SharpLater(promise, d, n)
         IN  /\ l \in Dues /\ l[3] = promise[3] /\ l[2] \in 0..(OneDay - 1)
             /\ Moment(l[1], l[2]) = Moment(promise[1], promise[2]) + (OneDay * d + n)
<1>1. PICK e \in Nat, m \in Nat, w \in -1..6 : promise = <<e, m, w>>
  BY DEF Dues
<1> DEFINE q == (m + n) \div OneDay
           r == (m + n) % OneDay
<1>2. /\ q \in Nat /\ r \in Nat /\ r \in 0..(OneDay - 1)
      /\ Moment(e + d + q, r) = Moment(e, m) + Moment(d, n)
  BY MomentLater
<1>3. SharpLater(promise, d, n) = <<e + d + q, r, w>>
  BY <1>1 DEF SharpLater
<1>4. Moment(e, m) + Moment(d, n) = Moment(e, m) + (OneDay * d + n)
  BY DEF Moment
<1> HIDE DEF q, r
<1> QED BY <1>1, <1>2, <1>3, <1>4 DEF Dues

\* The step of a clock that goes on, for as long as the century lasts.
LEMMA GoesOn ==
  ASSUME NEW t, NEW u, NEW promise \in Dues, Shows(t, promise), NEW d \in Nat, NEW n \in Nat,
         SharpLater(promise, d, n)[1] < NextCentury(t),
         Total(t) + (OneDay * d + n) < Limit(t) => Goes(t, u, OneDay * d + n)
  PROVE  Shows(u, SharpLater(promise, d, n))
<1> DEFINE l == SharpLater(promise, d, n)
<1>1. /\ l \in Dues /\ l[2] \in 0..(OneDay - 1)
      /\ Moment(l[1], l[2]) = Total(t) + (OneDay * d + n)
  <2>1. Total(t) = Moment(promise[1], promise[2])
    BY DEF Shows
  <2>2. /\ l \in Dues /\ l[2] \in 0..(OneDay - 1)
        /\ Moment(l[1], l[2]) = Moment(promise[1], promise[2]) + (OneDay * d + n)
    BY LaterDue
  <2> QED BY <2>1, <2>2, Zenon
<1>2. PICK a \in Nat, b \in Nat : a = l[1] /\ b = l[2]
  BY <1>1 DEF Dues
<1>3. PICK c \in Int : c = NextCentury(t)
  <2>1. InStep(t)
    BY DEF Shows
  <2> QED BY <2>1, InStepNumbers
<1>4. Moment(a, b) < Moment(c, 0)
  <2>1. b \in 0..(OneDay - 1) /\ a \in Int /\ a < c
    BY <1>1, <1>2, <1>3
  <2> QED BY <1>3, <2>1, MomentOfDay
<1>5. Goes(t, u, OneDay * d + n)
  BY <1>1, <1>2, <1>3, <1>4 DEF Limit
<1> QED BY <1>1, <1>5 DEF Goes, Shows

\* A clock whose date is set: the promise, and whether there is one.
LEMMA SetDue ==
  ASSUME NEW t \in SharpTimes, NEW w \in -1..6
  PROVE  /\ Promised(t, w) \in Nat \X Nat \X (-1..6) /\ Promised(t, w)[3] = w
         /\ ~(~SharpValid(t) \/ OutOfStep(t)) => Shows(t, Promised(t, w))
BY PromisedDue DEF Dues, InStep

\* What the proof of SharpKeepsTime carries from step to step.
SharpInv ==
  /\ SharpTypeOK
  /\ ~sharpExcused => Shows(sharp, sharpDue)
  /\ sharpDue[3] # -1 => sharp.weekday = sharpDue[3]

\* A saved clock shows its own time.
LEMMA SharpFirst ==
  ASSUME NEW times \in SUBSET SharpTimes, NEW index0 \in -1..13,
         NEW state0 \in {"Ready", "Command", "Read", "Write"}, SharpFrom(times, state0, index0)
  PROVE  SharpInv
<1>1. sharp \in SharpTimes
  BY DEF SharpFrom
<1>2. /\ sharpDue \in Nat \X Nat \X (-1..6) /\ sharpDue[3] = -1
      /\ ~sharpExcused => Shows(sharp, sharpDue)
  <2>1. -1 \in -1..6
    OBVIOUS
  <2> QED BY <1>1, <2>1, SetDue DEF SharpFrom
<1>3. sharpExcused \in BOOLEAN
  BY DEF SharpFrom
<1> QED BY <1>1, <1>2, <1>3 DEF SharpFrom, SharpInv, SharpTypeOK

\* ... as it does at first.
LEMMA SharpFirstInv == SharpInit => SharpInv
<1>1. SharpStarts \in SUBSET SharpTimes /\ -1 \in -1..13
  BY SharpAssumption
<1> QED BY <1>1, SharpFirst DEF SharpInit

\* A second, or the time away, goes by.
LEMMA SharpGoesOn ==
  ASSUME SharpInv, NEW u, Keeps(sharp, u), NEW d \in Nat, NEW n \in Nat,
         InStep(sharp) /\ Total(sharp) + (OneDay * d + n) < Limit(sharp)
           => Goes(sharp, u, OneDay * d + n),
         sharp' = u, sharpDue' = SharpLater(sharpDue, d, n),
         sharpExcused' = (sharpExcused \/ sharpDue'[1] >= NextCentury(sharp))
  PROVE  /\ sharp' \in SharpTimes /\ sharpDue' \in Nat \X Nat \X (-1..6) /\ sharpExcused' \in BOOLEAN
         /\ ~sharpExcused' => Shows(sharp', sharpDue')
         /\ sharpDue'[3] # -1 => sharp'.weekday = sharpDue'[3]
<1>1. sharpDue \in Dues /\ sharpDue' \in Dues /\ sharpDue'[3] = sharpDue[3]
  <2>1. sharpDue \in Dues
    BY DEF SharpInv, SharpTypeOK, Dues
  <2> QED BY <2>1, LaterDue
<1>2. sharp' \in SharpTimes /\ sharp'.weekday = sharp.weekday
  BY DEF Keeps
<1>3. ASSUME ~sharpExcused' PROVE Shows(sharp', sharpDue')
  <2>1. Shows(sharp, sharpDue) /\ ~(sharpDue'[1] >= NextCentury(sharp))
    BY <1>3 DEF SharpInv
  <2>2. InStep(sharp)
    BY <2>1 DEF Shows
  <2>3. sharpDue'[1] \in Int /\ NextCentury(sharp) \in Int
    <3>1. sharpDue'[1] \in Int
      BY <1>1 DEF Dues
    <3> QED BY <2>2, <3>1, InStepNumbers
  <2>4. SharpLater(sharpDue, d, n)[1] < NextCentury(sharp)
    BY <2>1, <2>3
  <2>5. Shows(u, SharpLater(sharpDue, d, n))
    BY <1>1, <2>1, <2>2, <2>4, GoesOn
  <2> QED BY <2>5
<1>4. sharpDue'[3] # -1 => sharp'.weekday = sharpDue'[3]
  BY <1>1, <1>2 DEF SharpInv
<1>5. sharpExcused' \in BOOLEAN
  OBVIOUS
<1> QED BY <1>1, <1>2, <1>3, <1>4, <1>5 DEF Dues

\* A second passes.
LEMMA SharpMainKeeps == ASSUME SharpInv, SharpMain PROVE SharpInv'
<1>1. sharp \in SharpTimes /\ Keeps(sharp, SharpSecond(sharp))
  BY TicksKeep DEF SharpInv, SharpTypeOK
<1>2. OneDay * 0 + 1 = 1
  BY DaySize
<1>3. InStep(sharp) /\ Total(sharp) + (OneDay * 0 + 1) < Limit(sharp)
        => Goes(sharp, SharpSecond(sharp), OneDay * 0 + 1)
  BY <1>2, SecondPasses
<1>4. /\ sharp' \in SharpTimes /\ sharpDue' \in Nat \X Nat \X (-1..6) /\ sharpExcused' \in BOOLEAN
      /\ ~sharpExcused' => Shows(sharp', sharpDue')
      /\ sharpDue'[3] # -1 => sharp'.weekday = sharpDue'[3]
  <2>1. /\ sharp' = SharpSecond(sharp) /\ sharpDue' = SharpLater(sharpDue, 0, 1)
        /\ sharpExcused' = (sharpExcused \/ sharpDue'[1] >= NextCentury(sharp))
    BY DEF SharpMain
  <2>2. 0 \in Nat /\ 1 \in Nat
    OBVIOUS
  <2> HIDE DEF SharpMain
  <2> QED BY <1>1, <1>3, <2>1, <2>2, SharpGoesOn
<1>5. /\ sharpTicks' \in Nat /\ sharpRestarts' \in Nat /\ index' \in -1..13
      /\ sharpState' \in {"Ready", "Command", "Read", "Write"}
  BY DEF SharpInv, SharpTypeOK, SharpMain
<1> QED BY <1>4, <1>5 DEF SharpInv, SharpTypeOK

\* The game is saved and loaded, with time in between.
LEMMA SharpRestartKeeps == ASSUME SharpInv, SharpRestart PROVE SharpInv'
<1>1. PICK away \in Nat \X Nat \X Nat \X Nat :
        /\ sharp' = SharpCatchUp(Loaded(sharp), away)
        /\ sharpDue' = SharpLater(sharpDue, away[1], 60 * 60 * away[2] + 60 * away[3] + away[4])
  BY SharpAssumption DEF SharpRestart
<1>2. PICK a \in Nat, b \in Nat, c \in Nat, d \in Nat :
        a = away[1] /\ b = away[2] /\ c = away[3] /\ d = away[4]
  OBVIOUS
<1>3. PICK n \in Nat : n = 60 * 60 * b + 60 * c + d
  OBVIOUS
<1> DEFINE u == SharpCatchUp(Loaded(sharp), away)
<1>4. sharp \in SharpTimes
  BY DEF SharpInv, SharpTypeOK
<1>5. Keeps(sharp, u)
  <2>1. Keeps(sharp, Loaded(sharp))
    BY <1>4, LoadedTime
  <2>2. Keeps(Loaded(sharp), u)
    BY <2>1, CatchesUp DEF Keeps
  <2> QED BY <2>1, <2>2 DEF Keeps
<1>6. OneDay * away[1] + 60 * 60 * away[2] + 60 * away[3] + away[4] = OneDay * a + n
  <2>1. PICK k \in Nat : k = OneDay * a
    BY DaySize
  <2>2. k + 60 * 60 * b + 60 * c + d = k + n
    BY <1>3
  <2> QED BY <1>2, <2>1, <2>2
<1>7. InStep(sharp) /\ Total(sharp) + (OneDay * a + n) < Limit(sharp)
        => Goes(sharp, u, OneDay * a + n)
  <2> SUFFICES ASSUME InStep(sharp), Total(sharp) + (OneDay * a + n) < Limit(sharp)
               PROVE  Goes(sharp, u, OneDay * a + n)
    OBVIOUS
  <2>1. Loaded(sharp) = sharp
    BY <1>4, LoadedTime
  <2> QED BY <1>4, <1>6, <2>1, CatchesUp, Zenon
<1>8. /\ sharp' \in SharpTimes /\ sharpDue' \in Nat \X Nat \X (-1..6) /\ sharpExcused' \in BOOLEAN
      /\ ~sharpExcused' => Shows(sharp', sharpDue')
      /\ sharpDue'[3] # -1 => sharp'.weekday = sharpDue'[3]
  <2>1. sharp' = u /\ sharpDue' = SharpLater(sharpDue, a, n)
    BY <1>1, <1>2, <1>3
  <2>2. sharpExcused' = (sharpExcused \/ sharpDue'[1] >= NextCentury(sharp))
    BY DEF SharpRestart
  <2> HIDE DEF u
  <2> QED BY <1>5, <1>7, <2>1, <2>2, SharpGoesOn
<1>9. /\ sharpTicks' \in Nat /\ sharpRestarts' \in Nat /\ index' \in -1..13
      /\ sharpState' \in {"Ready", "Command", "Read", "Write"}
  BY DEF SharpInv, SharpTypeOK, SharpRestart
<1> QED BY <1>8, <1>9 DEF SharpInv, SharpTypeOK

\* The date is set: the digits are promised.
LEMMA SharpSetKeeps ==
  ASSUME NEW t \in SharpTimes, NEW w \in -1..6, SharpSets(t, w),
         sharp' \in SharpTimes, \A p : Shows(t, p) => Shows(sharp', p),
         w # -1 => sharp'.weekday = w
  PROVE  /\ sharpDue' \in Nat \X Nat \X (-1..6) /\ sharpExcused' \in BOOLEAN
         /\ ~sharpExcused' => Shows(sharp', sharpDue')
         /\ sharpDue'[3] # -1 => sharp'.weekday = sharpDue'[3]
<1>1. sharpDue' = Promised(t, w) /\ sharpExcused' = (~SharpValid(t) \/ OutOfStep(t))
  BY DEF SharpSets
<1>2. /\ sharpDue' \in Nat \X Nat \X (-1..6) /\ sharpDue'[3] = w
      /\ ~sharpExcused' => Shows(t, sharpDue')
  BY <1>1, SetDue
<1> QED BY <1>1, <1>2

\* Commands leave the time alone, but for the reset.
LEMMA SharpControlKeeps == ASSUME SharpInv, SharpControl PROVE SharpInv'
<1>1. PICK data \in {0, 4, 5, 13, 14} : SharpCommand(data)
  BY DEF SharpControl
<1>2. sharpTicks' \in Nat /\ sharpRestarts' \in Nat
  BY DEF SharpControl, SharpInv, SharpTypeOK
<1>3. /\ sharpState' \in {"Ready", "Command", "Read", "Write"} /\ index' \in -1..13
  BY <1>1 DEF SharpCommand, SharpInv, SharpTypeOK
<1>4. CASE UNCHANGED <<sharp, sharpDue, sharpExcused>>
  BY <1>2, <1>3, <1>4 DEF SharpInv, SharpTypeOK
<1>5. CASE sharp' = Zeroed /\ SharpSets(Zeroed, -1)
  <2>1. Zeroed \in SharpTimes /\ -1 \in -1..6
    BY DEF Zeroed, SharpTimes
  <2>2. /\ sharpDue' \in Nat \X Nat \X (-1..6) /\ sharpExcused' \in BOOLEAN
        /\ ~sharpExcused' => Shows(sharp', sharpDue')
        /\ sharpDue'[3] # -1 => sharp'.weekday = sharpDue'[3]
    BY <1>5, <2>1, SharpSetKeeps
  <2> QED BY <1>2, <1>3, <1>5, <2>1, <2>2 DEF SharpInv, SharpTypeOK
<1> QED BY <1>1, <1>4, <1>5 DEF SharpCommand

\* calculateWeekday gives a weekday, whatever the date.
LEMMA WeekdayAnyDate ==
  ASSUME NEW y \in Nat, NEW m \in Nat, NEW d \in Nat
  PROVE  calculateWeekday(y, m, d) \in 0..6
<1>1. PICK v \in Nat, k \in 1..12, c \in 1..31 :
        v = atLeast(1000, y) /\ k = atLeast(1, atMost(12, m)) /\ c = atLeast(1, atMost(31, d)) /\ v >= 1000
  <2>1. atLeast(1000, y) \in Nat /\ atLeast(1000, y) >= 1000
    BY SMT DEF atLeast
  <2>2. atLeast(1, atMost(12, m)) \in 1..12 /\ atLeast(1, atMost(31, d)) \in 1..31
    BY SMT DEF atLeast, atMost
  <2> QED BY <2>1, <2>2
<1>2. PICK a \in Int : a = yearsBefore(v)
  <2>1. PICK n \in Nat : v = 1000 + n
    <3>1. v - 1000 \in Nat /\ v = 1000 + (v - 1000)
      BY <1>1, SMT
    <3> QED BY <3>1
  <2>2. Cardinality(LeapYears(n)) \in Nat
    BY LeapCount, FS_CardinalityType
  <2>3. yearsBefore(1000 + n) = 365 * ((1000 + n) - 1000) + Cardinality(LeapYears(n))
    BY DEF yearsBefore, LeapYears
  <2>4. 365 * ((1000 + n) - 1000) \in Int
    BY SMT
  <2> QED BY <2>1, <2>2, <2>3, <2>4
<1>3. PICK b \in Int : b = monthsBefore(v, k)
  <2> DEFINE e == (367 * k - 362) \div 12 - (IF k <= 2 THEN 0 ELSE IF Gregorian(v) THEN 1 ELSE 2)
  <2>1. e \in Int
    BY SMT
  <2>2. monthsBefore(v, k) = e
    BY MonthsCount
  <2> QED BY <2>1, <2>2
<1>4. (a + b + c - 1 + 3) % 7 \in 0..6
  OBVIOUS
<1>5. calculateWeekday(y, m, d) = (a + b + c - 1 + 3) % 7
  BY <1>1, <1>2, <1>3 DEF calculateWeekday
<1> QED BY <1>4, <1>5

\* The weekday takes no part in the time.
LEMMA WeekdayApart ==
  ASSUME NEW t \in SharpTimes, NEW w \in 0..15, NEW p
  PROVE  [t EXCEPT !.weekday = w] \in SharpTimes /\ (Shows(t, p) => Shows([t EXCEPT !.weekday = w], p))
<1> DEFINE u == [t EXCEPT !.weekday = w]
<1>1. /\ u \in SharpTimes /\ u.second = t.second /\ u.minute = t.minute /\ u.hour = t.hour
      /\ u.day = t.day /\ u.month = t.month /\ u.year = t.year
  BY DEF SharpTimes
<1> HIDE DEF u
<1>2. TrueYear(u) = TrueYear(t)
  BY <1>1 DEF TrueYear
<1>3. InStep(t) => InStep(u)
  BY <1>1, <1>2 DEF InStep, SharpValid, OutOfStep
<1>4. Total(u) = Total(t)
  BY <1>1, <1>2 DEF Total, DateNumber, SecondOf
<1>5. Shows(t, p) => Shows(u, p)
  BY <1>3, <1>4 DEF Shows
<1> QED BY <1>1, <1>5 DEF u

\* A digit, and with the twelfth the weekday.
LEMMA SharpDigitKeeps == ASSUME SharpInv, SharpDigit PROVE SharpInv'
<1>1. PICK d \in 0..15 : SharpSet(d)
  BY SharpAssumption DEF SharpDigit
<1>2. /\ sharp \in SharpTimes /\ index \in 0..11
      /\ sharpTicks' \in Nat /\ sharpRestarts' \in Nat
  BY <1>1 DEF SharpSet, SharpDigit, SharpInv, SharpTypeOK
<1>3. sharpState' \in {"Ready", "Command", "Read", "Write"} /\ index' \in -1..13
  BY <1>1, <1>2 DEF SharpSet, SharpInv, SharpTypeOK
<1>4. PICK t \in SharpTimes : t = rtcWrite(sharp, index, d)
  BY <1>2, DigitWritten
<1>5. /\ sharp' \in SharpTimes
      /\ sharpDue' \in Nat \X Nat \X (-1..6) /\ sharpExcused' \in BOOLEAN
      /\ ~sharpExcused' => Shows(sharp', sharpDue')
      /\ sharpDue'[3] # -1 => sharp'.weekday = sharpDue'[3]
  <2>1. CASE index < 11
    <3>1. sharp' = t /\ SharpSets(t, -1) /\ -1 \in -1..6
      BY <1>1, <1>4, <2>1 DEF SharpSet
    <3> QED BY <3>1, SharpSetKeeps
  <2>2. CASE ~(index < 11)
    <3> DEFINE w == calculateWeekday(1000 + t.year, t.month, t.day)
    <3>1. sharp' = [t EXCEPT !.weekday = w] /\ SharpSets(t, TrueWeekday(t))
      BY <1>1, <1>4, <2>2 DEF SharpSet
    <3>2. w \in 0..6
      <4>1. 1000 + t.year \in Nat /\ t.month \in Nat /\ t.day \in Nat
        BY SMT DEF SharpTimes
      <4> QED BY <4>1, WeekdayAnyDate
    <3>3. TrueWeekday(t) \in -1..6 /\ (TrueWeekday(t) # -1 => w = TrueWeekday(t))
      <4>1. CASE SharpValid(t)
        <5>1. TrueWeekday(t) \in 0..6 /\ w = TrueWeekday(t)
          BY <4>1, WeekdayIsTrue
        <5> QED BY <5>1
      <4>2. CASE ~SharpValid(t)
        BY <4>2 DEF TrueWeekday
      <4> QED BY <4>1, <4>2
    <3> HIDE DEF w
    <3>4. w \in 0..15
      BY <3>2
    <3>5. sharp' \in SharpTimes /\ \A p : Shows(t, p) => Shows(sharp', p)
      BY <3>1, <3>4, WeekdayApart
    <3>6. sharp'.weekday = w
      BY <3>1 DEF SharpTimes
    <3> QED BY <3>1, <3>3, <3>5, <3>6, SharpSetKeeps
  <2> QED BY <2>1, <2>2
<1> QED BY <1>2, <1>3, <1>5 DEF SharpInv, SharpTypeOK

\* Every step keeps the invariant.
LEMMA SharpInductive == ASSUME SharpInv, [SharpNext]_sharpVars PROVE SharpInv'
<1>1. CASE SharpMain
  BY <1>1, SharpMainKeeps
<1>2. CASE SharpRead
  <2>1. sharp' = sharp /\ sharpDue' = sharpDue /\ sharpExcused' = sharpExcused
    BY <1>2 DEF SharpRead
  <2>2. index' \in -1..13 /\ sharpState' = sharpState /\ sharpTicks' = sharpTicks
        /\ sharpRestarts' = sharpRestarts
    BY <1>2 DEF SharpRead, SharpInv, SharpTypeOK
  <2> QED BY <2>1, <2>2 DEF SharpInv, SharpTypeOK
<1>3. CASE SharpControl
  BY <1>3, SharpControlKeeps
<1>4. CASE SharpDigit
  BY <1>4, SharpDigitKeeps
<1>5. CASE SharpRestart
  BY <1>5, SharpRestartKeeps
<1>6. CASE UNCHANGED sharpVars
  BY <1>6 DEF sharpVars, SharpInv, SharpTypeOK
<1> QED BY <1>1, <1>2, <1>3, <1>4, <1>5, <1>6 DEF SharpNext

\* Once a valid date is set, the S-RTC shows the Gregorian time, tick by tick and
\* through saves and loads, until a year 00 comes or the century no longer fits the
\* save; and the weekday it computed stays that of the date that was set
\* (sharprtc/time.cpp, memory.cpp).
THEOREM SharpClockKeepsTime == SharpSpec => []SharpKeepsTime
<1>1. SharpInit => SharpInv
  BY SharpFirstInv
<1>2. SharpInv /\ [SharpNext]_sharpVars => SharpInv'
  BY SharpInductive
<1>3. SharpInv => SharpKeepsTime
  <2> SUFFICES ASSUME SharpInv PROVE SharpKeepsTime
    OBVIOUS
  <2>1. sharpDue \in Dues
    BY DEF SharpInv, SharpTypeOK, Dues
  <2>2. ~sharpExcused => SharpShown(sharp) = <<sharpDue[1], sharpDue[2]>>
    BY <2>1, ShowsDue DEF SharpInv
  <2> QED BY <2>2 DEF SharpInv, SharpKeepsTime
<1> QED BY <1>1, <1>2, <1>3, PTL DEF SharpSpec

\* The S-RTC's variables keep their types.
THEOREM SharpTypes == SharpSpec => []SharpTypeOK
<1>1. SharpInit => SharpInv
  BY SharpFirstInv
<1>2. SharpInv /\ [SharpNext]_sharpVars => SharpInv'
  BY SharpInductive
<1>3. SharpInv => SharpTypeOK
  BY DEF SharpInv
<1> QED BY <1>1, <1>2, <1>3, PTL DEF SharpSpec

-----------------------------------------------------------------------------
(* The Epson clock: what a tick leaves alone, whatever the digits. *)

\* The rules, and what is smaller than the unit of the tick.
SameRules(t, u)   == u.calendar = t.calendar /\ u.atime = t.atime
SameSeconds(t, u) == u.secondlo = t.secondlo /\ u.secondhi = t.secondhi
SameMinutes(t, u) == SameSeconds(t, u) /\ u.minutelo = t.minutelo /\ u.minutehi = t.minutehi
SameHours(t, u) ==
  SameMinutes(t, u) /\ u.hourlo = t.hourlo /\ u.hourhi = t.hourhi /\ u.meridian = t.meridian

\* A digit that goes up or carries stays a digit.
LEMMA EpsonDigits ==
  ASSUME NEW n \in Digit
  PROVE  Up(n) \in Digit /\ NotOdd(n) \in 0..1 /\ NotOdd(n) \in Digit /\ n \in Nat
BY DEF Up, NotOdd, Digit

\* The digits that code sets are digits.
LEMMA EpsonSmall == 0 \in Digit /\ 1 \in Digit
BY DEF Digit

\* tickDay, tickMonth and tickYear leave the time of day alone.
LEMMA DayTypes ==
  ASSUME NEW t \in EpsonTimes
  PROVE  TickDay(t) \in EpsonTimes /\ SameRules(t, TickDay(t)) /\ SameHours(t, TickDay(t))
<1> DEFINE Fits(u) == u \in EpsonTimes /\ SameRules(t, u) /\ SameHours(t, u)
<1>1. ASSUME NEW u \in EpsonTimes, Fits(u) PROVE Fits(TickYear(u))
  <2>1. u.yearlo \in Digit /\ u.yearhi \in Digit
    BY DEF EpsonTimes
  <2>2. PICK a \in Digit, b \in Digit, c \in Digit, d \in Digit :
          a = Up(u.yearlo) /\ b = NotOdd(u.yearlo) /\ c = Up(u.yearhi) /\ d = NotOdd(u.yearhi)
    BY <2>1, EpsonDigits
  <2>3. \/ TickYear(u) = [u EXCEPT !.yearlo = a]
        \/ TickYear(u) = [u EXCEPT !.yearlo = b, !.yearhi = c]
        \/ TickYear(u) = [u EXCEPT !.yearlo = b, !.yearhi = d]
    BY <2>2 DEF TickYear, EpsonTimes
  <2>4. ASSUME NEW x \in Digit PROVE Fits([u EXCEPT !.yearlo = x])
    BY <1>1 DEF EpsonTimes, SameRules, SameSeconds, SameMinutes, SameHours
  <2>5. ASSUME NEW x \in Digit, NEW y \in Digit PROVE Fits([u EXCEPT !.yearlo = x, !.yearhi = y])
    BY <1>1 DEF EpsonTimes, SameRules, SameSeconds, SameMinutes, SameHours
  <2> HIDE DEF Fits
  <2> QED BY <2>3, <2>4, <2>5, Zenon
<1>2. ASSUME NEW u \in EpsonTimes, Fits(u) PROVE Fits(TickMonth(u))
  <2>1. u.monthlo \in Digit /\ u.monthhi \in 0..1
    BY DEF EpsonTimes
  <2>2. PICK a \in Digit, b \in Digit, c \in 0..1 :
          a = Up(u.monthlo) /\ b = NotOdd(u.monthlo) /\ c = 1 - u.monthhi
    BY <2>1, EpsonDigits
  <2>3. \/ TickMonth(u) = [u EXCEPT !.monthlo = a]
        \/ TickMonth(u) = [u EXCEPT !.monthlo = b, !.monthhi = c]
        \/ TickMonth(u) = TickYear([u EXCEPT !.monthlo = b, !.monthhi = 0])
    BY <2>2 DEF TickMonth, EpsonTimes
  <2>4. ASSUME NEW x \in Digit PROVE Fits([u EXCEPT !.monthlo = x])
    BY <1>2 DEF EpsonTimes, SameRules, SameSeconds, SameMinutes, SameHours
  <2>5. ASSUME NEW x \in Digit, NEW y \in 0..1 PROVE Fits([u EXCEPT !.monthlo = x, !.monthhi = y])
    BY <1>2 DEF EpsonTimes, SameRules, SameSeconds, SameMinutes, SameHours
  <2>6. 0 \in 0..1
    OBVIOUS
  <2>7. [u EXCEPT !.monthlo = b, !.monthhi = 0] \in EpsonTimes
    BY <2>5, <2>6, Zenon
  <2> HIDE DEF Fits
  <2>8. Fits([u EXCEPT !.monthlo = b, !.monthhi = 0])
    BY <2>5, <2>6, Zenon
  <2> QED BY <1>1, <2>3, <2>4, <2>5, <2>7, <2>8, Zenon
<1>3. PICK w \in 0..7, a \in Digit, b \in Digit, d \in 0..3 :
        /\ w = (t.weekday + 1 + IF t.weekday = 6 THEN 1 ELSE 0) % 8
        /\ a = Up(t.daylo) /\ b = NotOdd(t.daylo) /\ d = (t.dayhi + 1) % 4
  <2>1. t.weekday \in Nat /\ t.daylo \in Digit /\ t.dayhi \in Nat
    BY DEF EpsonTimes
  <2>2. (t.weekday + 1 + IF t.weekday = 6 THEN 1 ELSE 0) % 8 \in 0..7 /\ (t.dayhi + 1) % 4 \in 0..3
    BY <2>1
  <2> QED BY <2>1, <2>2, EpsonDigits
<1> DEFINE u == [t EXCEPT !.weekday = w]
           v == [u EXCEPT !.daylo = 1, !.dayhi = 0]
<1>4. u = [t EXCEPT !.weekday = (@ + 1 + IF @ = 6 THEN 1 ELSE 0) % 8]
  BY <1>3 DEF EpsonTimes
<1>5. Fits(t) /\ Fits(u) /\ u.daylo = t.daylo /\ u.dayhi = t.dayhi
  BY DEF EpsonTimes, SameRules, SameSeconds, SameMinutes, SameHours
<1> HIDE DEF u
<1>6. ASSUME NEW x \in Digit PROVE Fits([u EXCEPT !.daylo = x])
  BY <1>5 DEF EpsonTimes, SameRules, SameSeconds, SameMinutes, SameHours
<1>7. ASSUME NEW x \in Digit, NEW y \in 0..3 PROVE Fits([u EXCEPT !.daylo = x, !.dayhi = y])
  BY <1>5 DEF EpsonTimes, SameRules, SameSeconds, SameMinutes, SameHours
<1>8. 0 \in 0..3
  OBVIOUS
<1>9. \/ TickDay(t) = t \/ TickDay(t) = TickMonth(v)
      \/ TickDay(t) = [u EXCEPT !.daylo = a] \/ TickDay(t) = [u EXCEPT !.daylo = b, !.dayhi = d]
  BY <1>3, <1>4, <1>5 DEF TickDay
<1>10. v \in EpsonTimes
  BY <1>7, <1>8, EpsonSmall, Zenon
<1> HIDE DEF Fits
<1>11. Fits(v)
  BY <1>7, <1>8, EpsonSmall, Zenon
<1> HIDE DEF v
<1>12. Fits(TickDay(t))
  BY <1>2, <1>5, <1>6, <1>9, <1>7, <1>10, <1>11, Zenon
<1> QED BY <1>12 DEF Fits

\* tickHour leaves minutes and seconds alone.
LEMMA HourTypes ==
  ASSUME NEW t \in EpsonTimes
  PROVE  TickHour(t) \in EpsonTimes /\ SameRules(t, TickHour(t)) /\ SameMinutes(t, TickHour(t))
<1> DEFINE Fits(u) == u \in EpsonTimes /\ SameRules(t, u) /\ SameMinutes(t, u)
<1>1. ASSUME NEW u \in EpsonTimes, Fits(u) PROVE Fits(TickDay(u))
  BY <1>1, DayTypes DEF SameRules, SameHours, SameMinutes, SameSeconds
<1>2. t.hourlo \in Digit /\ t.hourhi \in 0..3 /\ t.meridian \in 0..1
  BY DEF EpsonTimes
<1>3. PICK a \in Digit, b \in Digit, c \in 0..3, m \in 0..1 :
        a = Up(t.hourlo) /\ b = NotOdd(t.hourlo) /\ c = (t.hourhi + 1) % 4 /\ m = 1 - t.meridian
  <2>1. (t.hourhi + 1) % 4 \in 0..3 /\ 1 - t.meridian \in 0..1
    BY <1>2
  <2> QED BY <1>2, <2>1, EpsonDigits
<1>4. Fits(t)
  BY DEF SameRules, SameSeconds, SameMinutes
<1>5. ASSUME NEW u, Fits(u), NEW x \in Digit PROVE Fits([u EXCEPT !.hourlo = x])
  BY <1>5 DEF EpsonTimes, SameRules, SameSeconds, SameMinutes
<1>6. ASSUME NEW u, Fits(u), NEW x \in Digit, NEW y \in 0..3
      PROVE  Fits([u EXCEPT !.hourlo = x, !.hourhi = y])
  BY <1>6 DEF EpsonTimes, SameRules, SameSeconds, SameMinutes
<1>7. 0 \in 0..3 /\ 1 \in 0..3
  OBVIOUS
<1>8. Fits(TickHour24(t))
  <2>1. t.hourhi < 2 => t.hourhi + 1 = c
    BY <1>2, <1>3
  <2>2. \/ TickHour24(t) = [t EXCEPT !.hourlo = a] \/ TickHour24(t) = [t EXCEPT !.hourlo = b, !.hourhi = c]
        \/ TickHour24(t) = TickDay([t EXCEPT !.hourlo = b, !.hourhi = 0])
    BY <1>3, <2>1, Zenon DEF TickHour24, EpsonTimes
  <2>3. [t EXCEPT !.hourlo = b, !.hourhi = 0] \in EpsonTimes
    BY <1>4, <1>6, <1>7, Zenon
  <2> HIDE DEF Fits
  <2>4. Fits([t EXCEPT !.hourlo = b, !.hourhi = 0])
    BY <1>4, <1>6, <1>7, Zenon
  <2>5. Fits([t EXCEPT !.hourlo = a]) /\ Fits([t EXCEPT !.hourlo = b, !.hourhi = c])
    BY <1>4, <1>5, <1>6, Zenon
  <2>6. Fits(TickDay([t EXCEPT !.hourlo = b, !.hourhi = 0]))
    BY <1>1, <2>3, <2>4
  <2> QED BY <2>2, <2>5, <2>6
<1>9. Fits(TickHour12(t))
  <2> DEFINE u == IF t.hourlo % 2 = 1 THEN [t EXCEPT !.meridian = m] ELSE t
             w == IF t.hourlo \in {0, 1, 4, 5, 8, 12} THEN [u EXCEPT !.hourlo = a]
                  ELSE [u EXCEPT !.hourlo = b, !.hourhi = 0]
  <2>1. u \in EpsonTimes /\ u.hourlo = t.hourlo /\ u.hourhi = t.hourhi /\ Fits(u)
    BY DEF EpsonTimes, SameRules, SameSeconds, SameMinutes
  <2>2. u = IF t.hourlo % 2 = 1 THEN [t EXCEPT !.meridian = 1 - @] ELSE t
    BY <1>3 DEF EpsonTimes
  <2> HIDE DEF u
  <2>3. w = IF t.hourlo \in {0, 1, 4, 5, 8, 12} THEN [u EXCEPT !.hourlo = Up(@)]
            ELSE [u EXCEPT !.hourlo = NotOdd(@), !.hourhi = 0]
    BY <1>3, <2>1 DEF EpsonTimes
  <2>4. \/ TickHour12(t) = [t EXCEPT !.hourlo = a] \/ TickHour12(t) = [t EXCEPT !.hourlo = b, !.hourhi = 1]
        \/ TickHour12(t) = TickDay(w) \/ TickHour12(t) = w
    <3>1. CASE t.hourhi = 0
      BY <1>3, <3>1 DEF TickHour12, EpsonTimes
    <3>2. CASE t.hourhi # 0
      <4> HIDE DEF w
      <4> QED BY <3>2, <2>2, <2>3 DEF TickHour12
    <3> QED BY <3>1, <3>2
  <2>5. Fits(w)
    <3> HIDE DEF Fits
    <3> QED BY <2>1, <1>5, <1>6, <1>7, Zenon
  <2>6. w \in EpsonTimes
    BY <2>5
  <2> HIDE DEF Fits, w
  <2>7. Fits([t EXCEPT !.hourlo = b, !.hourhi = 1])
    BY <1>4, <1>6, <1>7, Zenon
  <2> QED BY <1>1, <1>4, <1>5, <2>4, <2>5, <2>6, <2>7
<1> HIDE DEF Fits
<1>10. Fits(TickHour(t))
  BY <1>8, <1>9 DEF TickHour
<1> QED BY <1>10 DEF Fits

\* tickMinute leaves the seconds alone, and tickSecond and roundSeconds the rules.
LEMMA MinuteTypes ==
  ASSUME NEW t \in EpsonTimes
  PROVE  TickMinute(t) \in EpsonTimes /\ SameRules(t, TickMinute(t)) /\ SameSeconds(t, TickMinute(t))
<1> DEFINE Fits(u) == u \in EpsonTimes /\ SameRules(t, u) /\ SameSeconds(t, u)
<1>1. t.minutelo \in Digit /\ t.minutehi \in 0..7
  BY DEF EpsonTimes
<1>2. PICK a \in Digit, c \in 0..7 : a = Up(t.minutelo) /\ (t.minutehi < 5 => c = t.minutehi + 1)
  <2>1. t.minutehi < 5 => t.minutehi + 1 \in 0..7
    BY <1>1
  <2> QED BY <1>1, <2>1, EpsonDigits
<1> DEFINE v == [t EXCEPT !.minutelo = 0, !.minutehi = 0]
<1>3. ASSUME NEW x \in Digit PROVE Fits([t EXCEPT !.minutelo = x])
  BY DEF EpsonTimes, SameRules, SameSeconds
<1>4. ASSUME NEW x \in Digit, NEW y \in 0..7 PROVE Fits([t EXCEPT !.minutelo = x, !.minutehi = y])
  BY Zenon DEF EpsonTimes, SameRules, SameSeconds
<1>5. 0 \in 0..7
  OBVIOUS
<1>6. Fits(v)
  <2> HIDE DEF Fits
  <2> QED BY <1>4, <1>5, EpsonSmall, Zenon
<1>7. \/ TickMinute(t) = [t EXCEPT !.minutelo = a]
      \/ TickMinute(t) = [t EXCEPT !.minutelo = 0, !.minutehi = c]
      \/ TickMinute(t) = TickHour(v)
  BY <1>2, Zenon DEF TickMinute, EpsonTimes
<1> HIDE DEF v
<1>8. Fits(TickHour(v))
  BY <1>6, HourTypes DEF SameRules, SameMinutes, SameSeconds
<1> HIDE DEF Fits
<1>9. Fits(TickMinute(t))
  BY <1>3, <1>7, <1>8, <1>4, EpsonSmall, Zenon
<1> QED BY <1>9 DEF Fits

\* A second and a rounding keep a time a time, and leave the rules alone.
LEMMA SecondTypes ==
  ASSUME NEW t \in EpsonTimes
  PROVE  /\ TickSecond(t) \in EpsonTimes /\ SameRules(t, TickSecond(t))
         /\ RoundSeconds(t) \in EpsonTimes /\ SameRules(t, RoundSeconds(t))
<1> DEFINE Fits(u) == u \in EpsonTimes /\ SameRules(t, u)
<1>1. t.secondlo \in Digit /\ t.secondhi \in 0..7
  BY DEF EpsonTimes
<1>2. PICK a \in Digit, c \in 0..7 : a = Up(t.secondlo) /\ (t.secondhi < 5 => c = t.secondhi + 1)
  <2>1. t.secondhi < 5 => t.secondhi + 1 \in 0..7
    BY <1>1
  <2> QED BY <1>1, <2>1, EpsonDigits
<1> DEFINE v == [t EXCEPT !.secondlo = 0, !.secondhi = 0]
<1>3. ASSUME NEW u, Fits(u), NEW x \in Digit, NEW y \in 0..7
      PROVE  Fits([u EXCEPT !.secondlo = x, !.secondhi = y])
  BY <1>3, Zenon DEF EpsonTimes, SameRules
<1>4. Fits([t EXCEPT !.secondlo = a])
  BY DEF EpsonTimes, SameRules
<1>5. 0 \in 0..7 /\ Fits(t)
  BY DEF SameRules
<1>6. Fits(v)
  <2> HIDE DEF Fits
  <2> QED BY <1>3, <1>5, EpsonSmall, Zenon
<1>7. \/ TickSecond(t) = [t EXCEPT !.secondlo = a]
      \/ TickSecond(t) = [t EXCEPT !.secondlo = 0, !.secondhi = c]
      \/ TickSecond(t) = TickMinute(v)
  BY <1>2 DEF TickSecond, EpsonTimes
<1> HIDE DEF v
<1>8. Fits(TickMinute(v))
  BY <1>6, MinuteTypes DEF SameRules
<1>9. Fits(TickSecond(t))
  <2> HIDE DEF Fits
  <2>1. Fits([t EXCEPT !.secondlo = 0, !.secondhi = c])
    BY <1>3, <1>5, EpsonSmall, Zenon
  <2> QED BY <2>1, <1>7, <1>8, <1>4
<1>10. Fits(RoundSeconds(t))
  <2>1. Fits(TickMinute(t))
    BY MinuteTypes DEF SameRules
  <2> HIDE DEF Fits
  <2>2. Fits(IF t.secondhi >= 3 THEN TickMinute(t) ELSE t)
    BY <1>5, <2>1
  <2> QED BY <1>3, <1>5, <2>2, EpsonSmall, Zenon DEF RoundSeconds
<1> QED BY <1>9, <1>10

-----------------------------------------------------------------------------
(* The Epson clock: what a tick does to a date that is one. *)

MonthDays(y, m) == CASE m \in {4, 6, 9, 11} -> 30
                       [] m = 2 -> IF y % 4 = 0 THEN 29 ELSE 28
                       [] OTHER -> 31
\* The days of a century up to a date, as EpsonDay counts them.
CenturyDay(y, m, d) ==
  365 * y + (y + 3) \div 4 + BeforeMonth[m] + d - 1 + IF m > 2 /\ y % 4 = 0 THEN 1 ELSE 0

\* The parts of a valid time.
DateValid(t) ==
  /\ t.weekday <= 6 /\ t.daylo <= 9 /\ t.monthlo <= 9 /\ t.yearlo <= 9 /\ t.yearhi <= 9
  /\ Month(t) \in 1..12 /\ Day(t) \in 1..MonthDays(Year(t), Month(t))
HourValid(t) ==
  /\ t.hourlo <= 9
  /\ LET h == 10 * t.hourhi + t.hourlo
     IN  IF t.atime = 1 THEN h <= 23 /\ t.meridian = 0 ELSE h \in 1..12
SecondValid(t) ==
  t.secondlo <= 9 /\ t.secondhi <= 5
MinuteValid(t) ==
  t.minutelo <= 9 /\ t.minutehi <= 5

\* The fields of a time are numbers.
LEMMA EpsonFields ==
  ASSUME NEW t \in EpsonTimes
  PROVE  /\ t.secondlo \in 0..15 /\ t.secondhi \in 0..7 /\ t.minutelo \in 0..15
         /\ t.minutehi \in 0..7 /\ t.hourlo \in 0..15 /\ t.hourhi \in 0..3 /\ t.meridian \in 0..1
         /\ t.daylo \in 0..15 /\ t.dayhi \in 0..3 /\ t.monthlo \in 0..15 /\ t.monthhi \in 0..1
         /\ t.yearlo \in 0..15 /\ t.yearhi \in 0..15 /\ t.weekday \in 0..7
         /\ t.calendar \in 0..1 /\ t.atime \in 0..1
BY DEF EpsonTimes, Digit

\* A time is valid when its date, its hour, its minute and its second are.
LEMMA ValidParts ==
  ASSUME NEW t \in EpsonTimes
  PROVE  EpsonValid(t) <=> DateValid(t) /\ HourValid(t) /\ MinuteValid(t) /\ SecondValid(t)
<1>1. {t.secondlo, t.minutelo, t.hourlo, t.daylo, t.monthlo, t.yearlo, t.yearhi} \subseteq 0..9
      <=> /\ t.secondlo <= 9 /\ t.minutelo <= 9 /\ t.hourlo <= 9 /\ t.daylo <= 9
          /\ t.monthlo <= 9 /\ t.yearlo <= 9 /\ t.yearhi <= 9
  <2>1. /\ t.secondlo \in Nat /\ t.minutelo \in Nat /\ t.hourlo \in Nat /\ t.daylo \in Nat
        /\ t.monthlo \in Nat /\ t.yearlo \in Nat /\ t.yearhi \in Nat
    BY EpsonFields
  <2>2. \A n \in Nat : n \in 0..9 <=> n <= 9
    OBVIOUS
  <2> QED BY <2>1, <2>2
<1> QED BY <1>1 DEF EpsonValid, DateValid, HourValid, MinuteValid, SecondValid, MonthDays

\* The days before a month of the year, and how many more a leap year has.
BeforeIn(y, m) == BeforeMonth[m] + IF m > 2 /\ y % 4 = 0 THEN 1 ELSE 0
Leap(y) == IF y % 4 = 0 THEN 1 ELSE 0

\* The months of a year follow each other and make up the year.
LEMMA MonthFacts ==
  ASSUME NEW y \in 0..99, NEW m \in 1..12
  PROVE  /\ BeforeIn(y, m) \in Nat /\ MonthDays(y, m) \in 28..31
         /\ m < 12 => /\ BeforeIn(y, m + 1) = BeforeIn(y, m) + MonthDays(y, m)
                      /\ BeforeIn(y, m) + MonthDays(y, m) <= 334 + Leap(y)
         /\ m = 12 => BeforeIn(y, m) = 334 + Leap(y) /\ MonthDays(y, m) = 31
         /\ BeforeIn(y, 1) = 0
<1>1. m \in {1, 2, 3, 4, 5, 6, 7, 8, 9, 10, 11, 12}
  OBVIOUS
<1> QED BY <1>1 DEF BeforeIn, Leap, BeforeMonth, MonthDays

\* The years follow each other and make up the century.
LEMMA YearFacts ==
  ASSUME NEW y \in 0..99
  PROVE  /\ (y + 3) \div 4 \in Nat /\ Leap(y) \in 0..1
         /\ 365 * y + (y + 3) \div 4 + 365 + Leap(y) <= Century
         /\ y < 99 => /\ ((y + 1) + 3) \div 4 = (y + 3) \div 4 + Leap(y) /\ (y + 1) % 100 = y + 1
         /\ y = 99 => 365 * y + (y + 3) \div 4 + 365 + Leap(y) = Century /\ (y + 1) % 100 = 0
<1>1. PICK q \in Nat : q = (y + 3) \div 4
  OBVIOUS
<1>2. /\ q <= 25 /\ Leap(y) \in 0..1 /\ (y = 99 => q = 25 /\ Leap(y) = 0)
  BY <1>1 DEF Leap
<1>3. ((y + 1) + 3) \div 4 = q + Leap(y)
  BY <1>1 DEF Leap
<1>4. (y < 99 => (y + 1) % 100 = y + 1) /\ (y = 99 => (y + 1) % 100 = 0)
  OBVIOUS
<1>5. 365 * y + q + 365 + Leap(y) <= Century /\ (y = 99 => 365 * y + q + 365 + Leap(y) = Century)
  BY <1>2 DEF Century
<1> QED BY <1>1, <1>2, <1>3, <1>4, <1>5

\* The days follow each other, through the months and the years of the century.
LEMMA NextDay ==
  ASSUME NEW y \in 0..99, NEW m \in 1..12, NEW d \in 1..MonthDays(y, m)
  PROVE  /\ CenturyDay(y, m, d) \in 0..(Century - 1)
         /\ d < MonthDays(y, m) => CenturyDay(y, m, d + 1) = (CenturyDay(y, m, d) + 1) % Century
         /\ d = MonthDays(y, m) /\ m < 12 =>
              CenturyDay(y, m + 1, 1) = (CenturyDay(y, m, d) + 1) % Century
         /\ d = MonthDays(y, m) /\ m = 12 =>
              CenturyDay((y + 1) % 100, 1, 1) = (CenturyDay(y, m, d) + 1) % Century
<1>1. /\ BeforeIn(y, m) \in Nat /\ MonthDays(y, m) \in 28..31
      /\ m < 12 => /\ BeforeIn(y, m + 1) = BeforeIn(y, m) + MonthDays(y, m)
                   /\ BeforeIn(y, m) + MonthDays(y, m) <= 334 + Leap(y)
      /\ m = 12 => BeforeIn(y, m) = 334 + Leap(y) /\ MonthDays(y, m) = 31
  BY MonthFacts, ZenonT(60)
<1>2. PICK q \in Nat, p \in 0..1 : q = (y + 3) \div 4 /\ p = Leap(y)
  BY YearFacts
<1>3. /\ 365 * y + q + 365 + p <= Century
      /\ y < 99 => /\ ((y + 1) + 3) \div 4 = q + p /\ (y + 1) % 100 = y + 1
      /\ y = 99 => 365 * y + q + 365 + p = Century /\ (y + 1) % 100 = 0
  BY YearFacts, <1>2
<1> DEFINE number(j, e) == 365 * y + q + BeforeIn(y, j) + e - 1
<1>4. \A j \in 1..12, e \in Int : CenturyDay(y, j, e) = number(j, e)
  <2> TAKE j \in 1..12, e \in Int
  <2>1. BeforeMonth[j] \in Int
    <3>1. j \in {1, 2, 3, 4, 5, 6, 7, 8, 9, 10, 11, 12}
      OBVIOUS
    <3> QED BY <3>1 DEF BeforeMonth
  <2> QED BY <1>2, <2>1 DEF CenturyDay, BeforeIn
<1> HIDE DEF number
<1>5. PICK b \in Nat, l \in 28..31 : b = BeforeIn(y, m) /\ l = MonthDays(y, m)
  BY <1>1
<1>6. PICK n \in Int : n = CenturyDay(y, m, d) /\ n = 365 * y + q + b + d - 1 /\ d \in Nat /\ d <= l /\ d >= 1
  <2>1. d \in Int /\ 1 <= d /\ d <= l
    BY <1>5
  <2>2. CenturyDay(y, m, d) = number(m, d)
    BY <2>1, <1>4, Zenon
  <2> QED BY <2>1, <2>2, <1>5 DEF number
<1>7. /\ m < 12 => b + l <= 334 + p
      /\ m = 12 => b = 334 + p /\ l = 31
  BY <1>1, <1>2, <1>5
<1>8. PICK z \in Nat : z = Century
  BY DEF Century
<1>9. n \in 0..(z - 1) /\ (n = z - 1 => d = l /\ m = 12 /\ y = 99)
  <2>1. PICK x \in Nat : x = 365 * y
    OBVIOUS
  <2>2. /\ x + q + 365 + p <= z
    BY <1>3, <1>8, <2>1
  <2>3. y < 99 => x + q + 365 + p < z
    BY <1>2, <1>8, <2>1 DEF Century
  <2> QED BY <1>6, <1>7, <2>1, <2>2, <2>3
<1>10. \A x \in 0..(z - 1) : x % z = x
  OBVIOUS
<1>11. z % z = 0
  BY <1>8 DEF Century
<1>12. n < z - 1 => (n + 1) % z = n + 1
  BY <1>9, <1>10
<1>13. n = z - 1 => (n + 1) % z = 0
  BY <1>11
<1>14. d < l => CenturyDay(y, m, d + 1) = (n + 1) % z
  <2>1. PICK e \in Int : e = d + 1
    BY <1>6
  <2>2. CenturyDay(y, m, e) = number(m, e)
    BY <1>4, Zenon
  <2> QED BY <2>1, <2>2, <1>5, <1>6, <1>9, <1>12 DEF number
<1>15. d = l /\ m < 12 => CenturyDay(y, m + 1, 1) = (n + 1) % z
  <2> SUFFICES ASSUME d = l, m < 12 PROVE CenturyDay(y, m + 1, 1) = (n + 1) % z
    OBVIOUS
  <2>1. PICK j \in 1..12, e \in Int : j = m + 1 /\ e = 1 /\ BeforeIn(y, j) = b + l
    BY <1>1, <1>5
  <2>2. CenturyDay(y, j, e) = number(j, e)
    BY <1>4, Zenon
  <2> QED BY <2>1, <2>2, <1>6, <1>9, <1>12 DEF number
<1>16. d = l /\ m = 12 => CenturyDay((y + 1) % 100, 1, 1) = (n + 1) % z
  <2> SUFFICES ASSUME d = l, m = 12 PROVE CenturyDay((y + 1) % 100, 1, 1) = (n + 1) % z
    OBVIOUS
  <2>1. BeforeMonth[1] = 0
    BY DEF BeforeMonth
  <2>2. \A k \in Nat : CenturyDay(k, 1, 1) = 365 * k + (k + 3) \div 4
    BY <2>1 DEF CenturyDay
  <2>3. n + 1 = 365 * y + q + 365 + p
    BY <1>6, <1>7
  <2>4. CASE y < 99
    <3>1. CenturyDay(y + 1, 1, 1) = 365 * (y + 1) + q + p
      <4>1. CenturyDay(y + 1, 1, 1) = 365 * (y + 1) + ((y + 1) + 3) \div 4
        BY <2>2
      <4> QED BY <4>1, <2>4, <1>3
    <3>2. n < z - 1
      BY <2>4, <1>9
    <3> QED BY <2>3, <2>4, <3>1, <3>2, <1>3, <1>12
  <2>5. CASE y = 99
    <3>1. CenturyDay(0, 1, 1) = 0
      BY <2>2
    <3>2. n = z - 1
      BY <2>3, <2>5, <1>3, <1>8
    <3> QED BY <2>5, <3>1, <3>2, <1>3, <1>13
  <2> QED BY <2>4, <2>5
<1> QED BY <1>5, <1>6, <1>8, <1>9, <1>14, <1>15, <1>16

\* The table of days is that of the months, and leap years are every fourth.
LEMMA DaysOfMonth ==
  ASSUME NEW t \in EpsonTimes, DateValid(t)
  PROVE  Days(t) = MonthDays(Year(t), Month(t)) /\ Year(t) \in 0..99 /\ Month(t) \in 1..12
<1>1. PICK yl \in 0..9, yh \in 0..9, ml \in 0..9, mh \in 0..1 :
        yl = t.yearlo /\ yh = t.yearhi /\ ml = t.monthlo /\ mh = t.monthhi
  BY EpsonFields DEF DateValid
<1>2. Year(t) = 10 * yh + yl /\ Month(t) = 10 * mh + ml /\ Month(t) \in 1..12
  BY <1>1 DEF Year, Month, DateValid
<1>3. LeapYear(t) <=> Year(t) % 4 = 0
  <2>1. LeapYear(t) <=> (yl - IF yh % 2 = 0 THEN 0 ELSE 2) % 4 = 0
    BY <1>1 DEF LeapYear
  <2>2. yh \in {0, 1, 2, 3, 4, 5, 6, 7, 8, 9}
    OBVIOUS
  <2> QED BY <1>2, <2>1, <2>2
<1>4. /\ mh = 0 => Month(t) = ml /\ ml \in {1, 2, 3, 4, 5, 6, 7, 8, 9}
      /\ mh = 1 => Month(t) = 10 + ml /\ ml \in {0, 1, 2}
      /\ mh \in {0, 1}
  BY <1>2
<1>5. LET days == daysinmonth[16 * mh + ml + 1]
      IN  days = MonthDays(1, Month(t))
  BY <1>4 DEF daysinmonth, MonthDays
<1>6. Days(t) = LET days == daysinmonth[16 * mh + ml + 1]
                IN  IF days = 28 /\ LeapYear(t) THEN 29 ELSE days
  BY <1>1 DEF Days
<1>7. Days(t) = MonthDays(Year(t), Month(t))
  <2>1. MonthDays(1, Month(t)) = 28 <=> Month(t) = 2
    BY <1>2 DEF MonthDays
  <2> QED BY <1>3, <1>5, <1>6, <2>1 DEF MonthDays
<1> QED BY <1>2, <1>7, SMTT(40)

\* The last day is found by its digits.
LEMMA LastDayOfMonth ==
  ASSUME NEW t \in EpsonTimes, DateValid(t)
  PROVE  LastDay(t) <=> Day(t) = MonthDays(Year(t), Month(t))
<1>1. PICK dl \in 0..9, dh \in 0..3 : dl = t.daylo /\ dh = t.dayhi /\ Day(t) = 10 * dh + dl
  BY EpsonFields DEF DateValid, Day
<1>2. PICK days \in 28..31 : days = Days(t) /\ days = MonthDays(Year(t), Month(t))
  BY DaysOfMonth, MonthFacts
<1>3. Day(t) \in 1..days
  BY <1>2 DEF DateValid
<1>4. days \in {28, 29, 30, 31}
  OBVIOUS
<1>5. CASE days = 28
  BY <1>1, <1>2, <1>3, <1>5 DEF LastDay
<1>6. CASE days = 29
  BY <1>1, <1>2, <1>3, <1>6 DEF LastDay
<1>7. CASE days = 30
  BY <1>1, <1>2, <1>3, <1>7 DEF LastDay
<1>8. CASE days = 31
  BY <1>1, <1>2, <1>3, <1>8 DEF LastDay
<1> QED BY <1>4, <1>5, <1>6, <1>7, <1>8

\* tickYear counts the years of a century.
LEMMA YearTicks ==
  ASSUME NEW t \in EpsonTimes, t.yearlo <= 9, t.yearhi <= 9
  PROVE  LET u == TickYear(t)
         IN  /\ u.yearlo <= 9 /\ u.yearhi <= 9 /\ Year(u) = (Year(t) + 1) % 100
             /\ u.weekday = t.weekday /\ u.daylo = t.daylo /\ u.dayhi = t.dayhi
             /\ u.monthlo = t.monthlo /\ u.monthhi = t.monthhi
<1>1. PICK yl \in 0..9, yh \in 0..9 : yl = t.yearlo /\ yh = t.yearhi
  BY EpsonFields
<1>2. /\ (Stays(yl) <=> yl # 9) /\ (Stays(yh) <=> yh # 9) /\ NotOdd(9) = 0
      /\ (yl # 9 => Up(yl) = yl + 1) /\ (yh # 9 => Up(yh) = yh + 1)
  BY DEF Stays, Up, NotOdd
<1>3. CASE yl # 9
  <2>1. TickYear(t) = [t EXCEPT !.yearlo = yl + 1]
    BY <1>1, <1>2, <1>3 DEF TickYear, EpsonTimes
  <2> QED BY <1>1, <1>3, <2>1 DEF Year, EpsonTimes
<1>4. CASE yl = 9 /\ yh # 9
  <2>1. TickYear(t) = [t EXCEPT !.yearlo = 0, !.yearhi = yh + 1]
    BY <1>1, <1>2, <1>4 DEF TickYear, EpsonTimes
  <2> QED BY <1>1, <1>4, <2>1 DEF Year, EpsonTimes
<1>5. CASE yl = 9 /\ yh = 9
  <2>1. TickYear(t) = [t EXCEPT !.yearlo = 0, !.yearhi = 0]
    BY <1>1, <1>2, <1>5 DEF TickYear, EpsonTimes
  <2> QED BY <1>1, <1>5, <2>1 DEF Year, EpsonTimes
<1> QED BY <1>3, <1>4, <1>5

\* tickMonth counts the months of a year.
LEMMA MonthTicks ==
  ASSUME NEW t \in EpsonTimes, t.yearlo <= 9, t.yearhi <= 9, t.monthlo <= 9, Month(t) \in 1..12
  PROVE  LET u == TickMonth(t)
         IN  /\ u.yearlo <= 9 /\ u.yearhi <= 9 /\ u.monthlo <= 9
             /\ u.weekday = t.weekday /\ u.daylo = t.daylo /\ u.dayhi = t.dayhi
             /\ Month(t) < 12 => Month(u) = Month(t) + 1 /\ Year(u) = Year(t)
             /\ Month(t) = 12 => Month(u) = 1 /\ Year(u) = (Year(t) + 1) % 100
<1>1. PICK ml \in 0..9, mh \in 0..1 : ml = t.monthlo /\ mh = t.monthhi /\ Month(t) = 10 * mh + ml
  BY EpsonFields DEF Month
<1>2. mh = 1 => ml \in {0, 1, 2}
  BY <1>1
<1>3. /\ (Stays(ml) <=> ml # 9) /\ (ml # 9 => Up(ml) = ml + 1)
      /\ NotOdd(9) = 0 /\ NotOdd(2) = 1
  BY DEF Stays, Up, NotOdd
<1>4. CASE Month(t) < 12 /\ ml # 9
  <2>1. mh = 0 \/ (ml \div 2) % 2 = 0
    BY <1>1, <1>2, <1>4
  <2>2. TickMonth(t) = [t EXCEPT !.monthlo = ml + 1]
    BY <1>1, <1>3, <1>4, <2>1 DEF TickMonth, EpsonTimes
  <2> QED BY <1>1, <1>4, <2>2 DEF Month, Year, EpsonTimes
<1>5. CASE ml = 9
  <2>1. mh = 0
    BY <1>1, <1>2, <1>5
  <2>2. TickMonth(t) = [t EXCEPT !.monthlo = 0, !.monthhi = 1]
    <3>1. NotOdd(t.monthlo) = 0 /\ 1 - t.monthhi = 1 /\ t.monthhi = 0 /\ ~Stays(t.monthlo)
      BY <1>1, <1>3, <1>5, <2>1
    <3> QED BY <3>1 DEF TickMonth, EpsonTimes
  <2> QED BY <1>1, <1>5, <2>1, <2>2 DEF Month, Year, EpsonTimes
<1>6. CASE Month(t) = 12
  <2>1. mh = 1 /\ ml = 2
    BY <1>1, <1>6
  <2> DEFINE u == [t EXCEPT !.monthlo = 1, !.monthhi = 0]
  <2>2. TickMonth(t) = TickYear(u)
    <3>1. NotOdd(t.monthlo) = 1 /\ t.monthhi # 0 /\ (t.monthlo \div 2) % 2 # 0
      BY <1>1, <1>3, <2>1
    <3> QED BY <3>1 DEF TickMonth, EpsonTimes
  <2>3. u \in EpsonTimes
    <3>1. ASSUME NEW a \in Digit, NEW b \in 0..1 PROVE [t EXCEPT !.monthlo = a, !.monthhi = b] \in EpsonTimes
      BY DEF EpsonTimes
    <3>2. 0 \in 0..1
      OBVIOUS
    <3> QED BY <3>1, <3>2, EpsonSmall, Zenon
  <2>4. /\ u.yearlo = t.yearlo /\ u.yearhi = t.yearhi /\ u.monthlo = 1 /\ u.monthhi = 0
        /\ u.weekday = t.weekday /\ u.daylo = t.daylo /\ u.dayhi = t.dayhi
    BY DEF EpsonTimes
  <2> HIDE DEF u
  <2>5. /\ TickYear(u).yearlo <= 9 /\ TickYear(u).yearhi <= 9 /\ Year(TickYear(u)) = (Year(u) + 1) % 100
        /\ TickYear(u).weekday = u.weekday /\ TickYear(u).daylo = u.daylo /\ TickYear(u).dayhi = u.dayhi
        /\ TickYear(u).monthlo = u.monthlo /\ TickYear(u).monthhi = u.monthhi
    BY <2>3, <2>4, YearTicks
  <2>6. Year(u) = Year(t) /\ Month(TickYear(u)) = 1
    BY <2>4, <2>5 DEF Year, Month
  <2> QED BY <1>6, <2>2, <2>4, <2>5, <2>6
<1> QED BY <1>1, <1>4, <1>5, <1>6

\* The date that follows a date; with the calendar off, the same.
DateFollows(t, u) == DateValid(u) /\ EpsonDay(u) = (EpsonDay(t) + t.calendar) % Century
DateStays(t, u) ==
  /\ u.weekday = t.weekday /\ u.daylo = t.daylo /\ u.dayhi = t.dayhi /\ u.monthlo = t.monthlo
  /\ u.monthhi = t.monthhi /\ u.yearlo = t.yearlo /\ u.yearhi = t.yearhi

\* A valid date has a day of the century, a year, a month and a day of that month.
LEMMA DateTypes ==
  ASSUME NEW t \in EpsonTimes, DateValid(t)
  PROVE  /\ EpsonDay(t) \in 0..(Century - 1) /\ EpsonDay(t) = CenturyDay(Year(t), Month(t), Day(t))
         /\ Year(t) \in 0..99 /\ Month(t) \in 1..12 /\ Day(t) \in 1..MonthDays(Year(t), Month(t))
<1>1. Year(t) \in 0..99 /\ Month(t) \in 1..12 /\ Day(t) \in 1..MonthDays(Year(t), Month(t))
  BY DaysOfMonth DEF DateValid
<1>2. EpsonDay(t) = CenturyDay(Year(t), Month(t), Day(t))
  BY DEF EpsonDay, CenturyDay
<1> QED BY <1>1, <1>2, NextDay, Zenon

\* tickDay counts the days of a century, when the calendar is on.
LEMMA DayTicks ==
  ASSUME NEW t \in EpsonTimes, DateValid(t)
  PROVE  DateFollows(t, TickDay(t))
<1> DEFINE y == Year(t)
           m == Month(t)
           d == Day(t)
<1>1. /\ EpsonDay(t) \in 0..(Century - 1) /\ EpsonDay(t) = CenturyDay(y, m, d)
      /\ y \in 0..99 /\ m \in 1..12 /\ d \in 1..MonthDays(y, m) /\ MonthDays(y, m) \in 28..31
  BY DateTypes, MonthFacts, Zenon
<1>2. /\ d < MonthDays(y, m) => CenturyDay(y, m, d + 1) = (CenturyDay(y, m, d) + 1) % Century
      /\ d = MonthDays(y, m) /\ m < 12 =>
           CenturyDay(y, m + 1, 1) = (CenturyDay(y, m, d) + 1) % Century
      /\ d = MonthDays(y, m) /\ m = 12 =>
           CenturyDay((y + 1) % 100, 1, 1) = (CenturyDay(y, m, d) + 1) % Century
  BY <1>1, NextDay, Zenon
<1>3. LastDay(t) <=> d = MonthDays(y, m)
  BY LastDayOfMonth
<1>4. CASE t.calendar = 0
  <2>1. TickDay(t) = t
    BY <1>4 DEF TickDay
  <2>2. PICK c \in Nat \ {0} : c = Century
    BY DEF Century
  <2>3. \A n \in 0..(c - 1) : (n + 0) % c = n
    OBVIOUS
  <2> QED BY <1>1, <1>4, <2>1, <2>2, <2>3 DEF DateFollows
<1>5. CASE t.calendar = 1
  <2>1. PICK dl \in 0..9, dh \in 0..3 : dl = t.daylo /\ dh = t.dayhi /\ d = 10 * dh + dl
    BY EpsonFields DEF DateValid, Day
  <2>2. PICK w \in 0..7 : w = (t.weekday + 1 + IF t.weekday = 6 THEN 1 ELSE 0) % 8 /\ w <= 6
    BY EpsonFields DEF DateValid
  <2> DEFINE u == [t EXCEPT !.weekday = w]
             v == [u EXCEPT !.daylo = 1, !.dayhi = 0]
  <2>3. u = [t EXCEPT !.weekday = (@ + 1 + IF @ = 6 THEN 1 ELSE 0) % 8]
    BY <2>2 DEF EpsonTimes
  <2>4. /\ u \in EpsonTimes /\ u.weekday = w /\ u.daylo = dl /\ u.dayhi = dh /\ u.monthlo = t.monthlo
        /\ u.monthhi = t.monthhi /\ u.yearlo = t.yearlo /\ u.yearhi = t.yearhi
    BY <2>1 DEF EpsonTimes
  <2> HIDE DEF u
  <2>5. CASE LastDay(t)
    <3>1. TickDay(t) = TickMonth(v)
      BY <1>5, <2>3, <2>5 DEF TickDay
    <3>2. v \in EpsonTimes
      <4>1. ASSUME NEW a \in Digit, NEW b \in 0..3 PROVE [u EXCEPT !.daylo = a, !.dayhi = b] \in EpsonTimes
        BY <2>4 DEF EpsonTimes
      <4>2. 0 \in 0..3
        OBVIOUS
      <4> QED BY <4>1, <4>2, EpsonSmall, Zenon
    <3>3. /\ v.weekday = w /\ v.daylo = 1 /\ v.dayhi = 0 /\ v.monthlo = t.monthlo
          /\ v.monthhi = t.monthhi /\ v.yearlo = t.yearlo /\ v.yearhi = t.yearhi
      BY <2>4 DEF EpsonTimes
    <3> HIDE DEF v
    <3>4. Month(v) = m /\ Year(v) = y
      BY <3>3 DEF Month, Year
    <3> DEFINE x == TickMonth(v)
    <3>5. /\ x.yearlo <= 9 /\ x.yearhi <= 9 /\ x.monthlo <= 9
          /\ x.weekday = w /\ x.daylo = 1 /\ x.dayhi = 0
          /\ m < 12 => Month(x) = m + 1 /\ Year(x) = y
          /\ m = 12 => Month(x) = 1 /\ Year(x) = (y + 1) % 100
      BY <1>1, <3>2, <3>3, <3>4, MonthTicks DEF DateValid
    <3> HIDE DEF x
    <3>6. Day(x) = 1
      BY <3>5 DEF Day
    <3>7. Month(x) \in 1..12 /\ Year(x) \in 0..99
      BY <1>1, <3>5
    <3>8. MonthDays(Year(x), Month(x)) \in 28..31
      BY <3>7, MonthFacts
    <3>9. DateValid(x)
      BY <2>2, <3>5, <3>6, <3>7, <3>8 DEF DateValid
    <3>10. EpsonDay(x) = CenturyDay(Year(x), Month(x), 1)
      BY <3>6 DEF EpsonDay, CenturyDay
    <3>11. EpsonDay(x) = (EpsonDay(t) + 1) % Century
      <4>1. CASE m < 12
        BY <4>1, <1>1, <1>2, <1>3, <2>5, <3>5, <3>10
      <4>2. CASE m = 12
        BY <4>2, <1>1, <1>2, <1>3, <2>5, <3>5, <3>10
      <4> QED BY <1>1, <4>1, <4>2
    <3> QED BY <1>5, <3>1, <3>9, <3>11 DEF DateFollows, x
  <2>6. CASE ~LastDay(t)
    <3>1. d < MonthDays(y, m)
      BY <1>1, <1>3, <2>6
    <3>2. PICK x : /\ x = TickDay(t) /\ x.weekday = w /\ x.daylo \in 0..9 /\ 10 * x.dayhi + x.daylo = d + 1
                   /\ x.monthlo = t.monthlo /\ x.monthhi = t.monthhi
                   /\ x.yearlo = t.yearlo /\ x.yearhi = t.yearhi
      <4>1. CASE dl # 9
        <5>1. Stays(t.daylo) /\ Up(u.daylo) = dl + 1
          BY <2>1, <2>4, <4>1 DEF Stays, Up
        <5>2. TickDay(t) = [u EXCEPT !.daylo = Up(@)]
          BY <1>5, <2>3, <2>6, <5>1 DEF TickDay
        <5>3. TickDay(t) = [u EXCEPT !.daylo = dl + 1]
          BY <2>4, <5>1, <5>2 DEF EpsonTimes
        <5> QED BY <2>1, <2>4, <4>1, <5>3 DEF EpsonTimes
      <4>2. CASE dl = 9
        <5>1. ~Stays(t.daylo) /\ NotOdd(u.daylo) = 0 /\ (u.dayhi + 1) % 4 = dh + 1
          BY <1>1, <2>1, <2>4, <3>1, <4>2 DEF Stays, NotOdd
        <5>2. TickDay(t) = [u EXCEPT !.daylo = NotOdd(@), !.dayhi = (@ + 1) % 4]
          BY <1>5, <2>3, <2>6, <5>1 DEF TickDay
        <5>3. TickDay(t) = [u EXCEPT !.daylo = 0, !.dayhi = dh + 1]
          BY <2>4, <5>1, <5>2 DEF EpsonTimes
        <5> DEFINE x == [u EXCEPT !.daylo = 0, !.dayhi = dh + 1]
        <5>4. /\ x.weekday = w /\ x.daylo = 0 /\ x.dayhi = dh + 1 /\ x.monthlo = t.monthlo
              /\ x.monthhi = t.monthhi /\ x.yearlo = t.yearlo /\ x.yearhi = t.yearhi
          BY <2>4 DEF EpsonTimes
        <5> HIDE DEF x
        <5>5. x = TickDay(t) /\ 0 \in 0..9 /\ 10 * (dh + 1) + 0 = d + 1
          BY <2>1, <4>2, <5>3 DEF x
        <5> QED BY <5>4, <5>5
      <4> QED BY <4>1, <4>2
    <3>3. Month(x) = m /\ Year(x) = y /\ Day(x) = d + 1
      BY <3>2 DEF Month, Year, Day
    <3>4. DateValid(x)
      BY <1>1, <2>2, <3>1, <3>2, <3>3 DEF DateValid
    <3>5. EpsonDay(x) = CenturyDay(y, m, d + 1)
      BY <3>3 DEF EpsonDay, CenturyDay
    <3> QED BY <1>1, <1>2, <1>5, <3>1, <3>2, <3>4, <3>5 DEF DateFollows
  <2> QED BY <2>5, <2>6
<1> QED BY <1>4, <1>5, EpsonFields

\* What a date shows depends on its own fields.
LEMMA DateStaysShown ==
  ASSUME NEW t, NEW u, DateStays(t, u)
  PROVE  (DateValid(u) <=> DateValid(t)) /\ EpsonDay(u) = EpsonDay(t)
<1>1. Year(u) = Year(t) /\ Month(u) = Month(t) /\ Day(u) = Day(t)
  BY DEF DateStays, Year, Month, Day
<1> QED BY <1>1 DEF DateStays, DateValid, EpsonDay

\* The hour that follows an hour, of the same day or of the next.
NextHour(t, u) ==
  /\ DateValid(u) /\ HourValid(u)
  /\ \/ Hour(u) = Hour(t) + 1 /\ EpsonDay(u) = EpsonDay(t)
     \/ Hour(t) = 23 /\ Hour(u) = 0 /\ DateFollows(t, u)

\* A new hour of the same day, and the hour that begins the next one.
LEMMA HourOnly ==
  ASSUME NEW t, NEW u, DateValid(t), DateStays(t, u), HourValid(u), Hour(u) = Hour(t) + 1
  PROVE  NextHour(t, u)
BY DateStaysShown DEF NextHour

\* The last hour of a day and the tick of the day make the next hour.
LEMMA HourAndDay ==
  ASSUME NEW t \in EpsonTimes, NEW v \in EpsonTimes, DateValid(t), DateStays(t, v), SameRules(t, v),
         HourValid(v), Hour(t) = 23, Hour(v) = 0
  PROVE  NextHour(t, TickDay(v))
<1> DEFINE u == TickDay(v)
<1>1. SameRules(v, u) /\ SameHours(v, u)
  BY DayTypes
<1>2. DateValid(v) /\ EpsonDay(v) = EpsonDay(t)
  BY DateStaysShown
<1>3. DateFollows(v, u)
  BY <1>2, DayTicks
<1> HIDE DEF u
<1>4. HourValid(u) /\ Hour(u) = 0
  BY <1>1 DEF HourValid, Hour, SameRules, SameHours
<1>5. DateFollows(t, u)
  BY <1>2, <1>3 DEF DateFollows, SameRules
<1>6. NextHour(t, u)
  BY <1>4, <1>5 DEF NextHour, DateFollows
<1> QED BY <1>6 DEF u

\* The hours of 24.
LEMMA HourTicks24 ==
  ASSUME NEW t \in EpsonTimes, DateValid(t), HourValid(t), t.atime = 1
  PROVE  NextHour(t, TickHour24(t))
<1>1. PICK lo \in 0..9, hi \in 0..3 : lo = t.hourlo /\ hi = t.hourhi
  BY EpsonFields DEF HourValid
<1>2. Hour(t) = 10 * hi + lo /\ 10 * hi + lo <= 23 /\ t.meridian = 0
  BY <1>1 DEF Hour, HourValid
<1> DEFINE u(a, b) == [t EXCEPT !.hourlo = a, !.hourhi = b]
<1>3. ASSUME NEW a \in 0..9, NEW b \in 0..3, 10 * b + a <= 23
      PROVE  /\ u(a, b) \in EpsonTimes /\ DateStays(t, u(a, b)) /\ SameRules(t, u(a, b))
             /\ HourValid(u(a, b)) /\ Hour(u(a, b)) = 10 * b + a
  <2>1. a \in Digit /\ b \in 0..3
    BY DEF Digit
  <2>2. u(a, b) \in EpsonTimes
    BY <2>1 DEF EpsonTimes
  <2>3. DateStays(t, u(a, b)) /\ SameRules(t, u(a, b))
    BY DEF EpsonTimes, DateStays, SameRules
  <2>4. u(a, b).hourlo = a /\ u(a, b).hourhi = b /\ u(a, b).atime = 1 /\ u(a, b).meridian = 0
    BY <1>2 DEF EpsonTimes
  <2> HIDE DEF u
  <2>5. HourValid(u(a, b)) /\ Hour(u(a, b)) = 10 * b + a
    BY <1>3, <2>4 DEF HourValid, Hour
  <2> QED BY <2>2, <2>3, <2>5
<1>4. [t EXCEPT !.hourlo = lo + 1] = u(lo + 1, hi)
  BY <1>1 DEF EpsonTimes
<1>5. CASE lo # 9 /\ 10 * hi + lo # 23
  <2>1. TickHour24(t) = u(lo + 1, hi)
    <3>1. Stays(t.hourlo) /\ t.hourlo <= 8 /\ Up(t.hourlo) = lo + 1
      BY <1>1, <1>5 DEF Stays, Up
    <3>2. hi >= 2 => ~(t.hourlo = 3 \/ (t.hourlo \div 4) % 2 = 1)
      BY <1>1, <1>2, <1>5
    <3>3. TickHour24(t) = [t EXCEPT !.hourlo = Up(@)]
      BY <1>1, <3>1, <3>2 DEF TickHour24
    <3> QED BY <1>4, <3>1, <3>3 DEF EpsonTimes
  <2>2. lo + 1 \in 0..9 /\ 10 * hi + (lo + 1) <= 23 /\ 10 * hi + (lo + 1) = (10 * hi + lo) + 1
    BY <1>2, <1>5
  <2> HIDE DEF u
  <2> QED BY <1>2, <1>3, <2>1, <2>2, HourOnly
<1>6. CASE lo = 9
  <2>1. TickHour24(t) = u(0, hi + 1)
    <3>1. ~Stays(t.hourlo) /\ NotOdd(t.hourlo) = 0 /\ hi < 2
      BY <1>1, <1>2, <1>6 DEF Stays, NotOdd
    <3>2. TickHour24(t) = [t EXCEPT !.hourlo = NotOdd(@), !.hourhi = @ + 1]
      BY <1>1, <3>1 DEF TickHour24
    <3> QED BY <1>1, <3>1, <3>2 DEF EpsonTimes
  <2>2. 0 \in 0..9 /\ hi + 1 \in 0..3 /\ 10 * (hi + 1) + 0 <= 23 /\ 10 * (hi + 1) + 0 = (10 * hi + lo) + 1
    BY <1>2, <1>6
  <2> HIDE DEF u
  <2> QED BY <1>2, <1>3, <2>1, <2>2, HourOnly
<1>7. CASE 10 * hi + lo = 23
  <2>1. TickHour24(t) = TickDay(u(0, 0))
    <3>1. hi = 2 /\ lo = 3 /\ NotOdd(t.hourlo) = 0
      BY <1>1, <1>7 DEF NotOdd
    <3>2. TickHour24(t) = TickDay([t EXCEPT !.hourlo = NotOdd(@), !.hourhi = 0])
      BY <1>1, <3>1 DEF TickHour24
    <3>3. [t EXCEPT !.hourlo = NotOdd(@), !.hourhi = 0] = u(0, 0)
      BY <3>1 DEF EpsonTimes
    <3> QED BY <3>2, <3>3
  <2>2. 0 \in 0..9 /\ 0 \in 0..3 /\ 10 * 0 + 0 <= 23 /\ 10 * 0 + 0 = 0
    OBVIOUS
  <2> HIDE DEF u
  <2> QED BY <1>2, <1>3, <1>7, <2>1, <2>2, HourAndDay
<1> QED BY <1>5, <1>6, <1>7

\* Twelve hours, twice: 12, 1, ... 11.
LEMMA HourTicks12 ==
  ASSUME NEW t \in EpsonTimes, DateValid(t), HourValid(t), t.atime = 0
  PROVE  NextHour(t, TickHour12(t))
<1>1. PICK lo \in 0..9, hi \in 0..1, m \in 0..1 :
        lo = t.hourlo /\ hi = t.hourhi /\ m = t.meridian /\ 10 * hi + lo \in 1..12
  BY EpsonFields DEF HourValid
<1>2. Hour(t) = ((10 * hi + lo) % 12) + 12 * m
  BY <1>1 DEF Hour
<1> DEFINE u(a, b, c) == [t EXCEPT !.hourlo = a, !.hourhi = b, !.meridian = c]
<1>3. ASSUME NEW a \in 0..9, NEW b \in 0..1, NEW c \in 0..1, 10 * b + a \in 1..12
      PROVE  /\ u(a, b, c) \in EpsonTimes /\ DateStays(t, u(a, b, c)) /\ SameRules(t, u(a, b, c))
             /\ HourValid(u(a, b, c)) /\ Hour(u(a, b, c)) = ((10 * b + a) % 12) + 12 * c
  <2>1. a \in Digit /\ b \in 0..3
    BY DEF Digit
  <2>2. u(a, b, c) \in EpsonTimes
    BY <2>1, ZenonT(60) DEF EpsonTimes
  <2>3. DateStays(t, u(a, b, c)) /\ SameRules(t, u(a, b, c))
    BY DEF EpsonTimes, DateStays, SameRules
  <2>4. u(a, b, c).hourlo = a /\ u(a, b, c).hourhi = b /\ u(a, b, c).atime = 0 /\ u(a, b, c).meridian = c
    BY DEF EpsonTimes
  <2> HIDE DEF u
  <2>5. HourValid(u(a, b, c)) /\ Hour(u(a, b, c)) = ((10 * b + a) % 12) + 12 * c
    BY <1>3, <2>4 DEF HourValid, Hour
  <2> QED BY <2>2, <2>3, <2>5
<1>4. CASE hi = 0 /\ lo # 9
  <2>1. Stays(t.hourlo) /\ Up(t.hourlo) = lo + 1
    BY <1>1, <1>4 DEF Stays, Up
  <2>2. TickHour12(t) = [t EXCEPT !.hourlo = Up(@)]
    BY <1>1, <1>4, <2>1 DEF TickHour12
  <2>3. TickHour12(t) = u(lo + 1, hi, m)
    BY <1>1, <2>1, <2>2 DEF EpsonTimes
  <2>4. lo + 1 \in 0..9 /\ 10 * hi + (lo + 1) \in 1..12
        /\ ((10 * hi + (lo + 1)) % 12) + 12 * m = ((10 * hi + lo) % 12) + 12 * m + 1
    <3>1. 10 * hi + lo = lo /\ 10 * hi + (lo + 1) = lo + 1 /\ lo \in 1..8
      BY <1>1, <1>4
    <3>2. lo % 12 = lo /\ (lo + 1) % 12 = lo + 1
      BY <3>1
    <3> QED BY <3>1, <3>2
  <2> HIDE DEF u
  <2> QED BY <1>2, <1>3, <2>3, <2>4, HourOnly
<1>5. CASE hi = 0 /\ lo = 9
  <2>1. ~Stays(t.hourlo) /\ NotOdd(t.hourlo) = 0
    BY <1>1, <1>5 DEF Stays, NotOdd
  <2>2. TickHour12(t) = [t EXCEPT !.hourlo = NotOdd(@), !.hourhi = 1]
    BY <1>1, <1>5, <2>1 DEF TickHour12
  <2>3. TickHour12(t) = u(0, 1, m)
    BY <1>1, <2>1, <2>2 DEF EpsonTimes
  <2>4. 0 \in 0..9 /\ 1 \in 0..1 /\ 10 * 1 + 0 \in 1..12
        /\ ((10 * 1 + 0) % 12) + 12 * m = ((10 * hi + lo) % 12) + 12 * m + 1
    BY <1>1, <1>5
  <2> HIDE DEF u
  <2> QED BY <1>2, <1>3, <2>3, <2>4, HourOnly
<1>6. CASE hi = 1
  <2> DEFINE x == IF t.hourlo % 2 = 1 THEN [t EXCEPT !.meridian = 1 - @] ELSE t
             w == IF t.hourlo \in {0, 1, 4, 5, 8, 12} THEN [x EXCEPT !.hourlo = Up(@)]
                  ELSE [x EXCEPT !.hourlo = NotOdd(@), !.hourhi = 0]
  <2>1. TickHour12(t) = IF w.meridian = 0 /\ w.hourlo % 2 = 0 THEN TickDay(w) ELSE w
    BY <1>1, <1>6 DEF TickHour12
  <2>2. lo \in {0, 1, 2}
    BY <1>1, <1>6
  <2>3. CASE lo = 0
    <3>1. t.hourlo % 2 # 1 /\ t.hourlo \in {0, 1, 4, 5, 8, 12} /\ Up(t.hourlo) = 1
      BY <1>1, <2>3 DEF Up
    <3>2. w = [t EXCEPT !.hourlo = Up(@)]
      BY <3>1
    <3>3. w = u(1, 1, m)
      BY <1>1, <1>6, <3>1, <3>2 DEF EpsonTimes
    <3>4. w.hourlo = 1
      BY <3>3 DEF EpsonTimes
    <3>5. /\ 1 \in 0..9 /\ 1 \in 0..1 /\ 10 * 1 + 1 \in 1..12 /\ 1 % 2 # 0
          /\ ((10 * 1 + 1) % 12) + 12 * m = ((10 * hi + lo) % 12) + 12 * m + 1
      BY <1>1, <1>6, <2>3
    <3> HIDE DEF u, w
    <3> QED BY <1>2, <1>3, <2>1, <3>3, <3>4, <3>5, HourOnly
  <2>4. CASE lo = 1
    <3>1. t.hourlo % 2 = 1 /\ t.hourlo \in {0, 1, 4, 5, 8, 12} /\ Up(t.hourlo) = 2
      BY <1>1, <2>4 DEF Up
    <3>2. w = [[t EXCEPT !.meridian = 1 - @] EXCEPT !.hourlo = Up(@)]
      BY <3>1
    <3>3. PICK c \in 0..1 : c = 1 - m
      OBVIOUS
    <3>4. w = u(2, 1, c)
      BY <1>1, <1>6, <3>1, <3>2, <3>3 DEF EpsonTimes
    <3>5. w.hourlo = 2 /\ w.meridian = c
      BY <3>4, ZenonT(60) DEF EpsonTimes
    <3>6. /\ 2 \in 0..9 /\ 1 \in 0..1 /\ 10 * 1 + 2 \in 1..12 /\ 2 % 2 = 0
          /\ ((10 * 1 + 2) % 12) + 12 * c = 12 * c /\ (10 * hi + lo) % 12 = 11
      BY <1>1, <1>6, <2>4
    <3>7. /\ w \in EpsonTimes /\ DateStays(t, w) /\ SameRules(t, w) /\ HourValid(w) /\ Hour(w) = 12 * c
      <4> HIDE DEF u, w
      <4> QED BY <1>3, <3>4, <3>6
    <3> HIDE DEF u, w
    <3>8. CASE c = 0
      <4>1. Hour(t) = 23 /\ Hour(w) = 0 /\ TickHour12(t) = TickDay(w)
        BY <1>2, <2>1, <3>3, <3>5, <3>6, <3>7, <3>8
      <4> QED BY <3>7, <4>1, HourAndDay
    <3>9. CASE c = 1
      <4>1. Hour(w) = Hour(t) + 1 /\ TickHour12(t) = w
        BY <1>2, <2>1, <3>3, <3>5, <3>6, <3>7, <3>9
      <4> QED BY <3>7, <4>1, HourOnly
    <3> QED BY <3>8, <3>9
  <2>5. CASE lo = 2
    <3>1. t.hourlo % 2 # 1 /\ t.hourlo \notin {0, 1, 4, 5, 8, 12} /\ NotOdd(t.hourlo) = 1
      BY <1>1, <2>5 DEF NotOdd
    <3>2. w = [t EXCEPT !.hourlo = NotOdd(@), !.hourhi = 0]
      BY <3>1
    <3>3. w = u(1, 0, m)
      BY <1>1, <1>6, <3>1, <3>2 DEF EpsonTimes
    <3>4. w.hourlo = 1
      BY <3>3 DEF EpsonTimes
    <3>5. /\ 1 \in 0..9 /\ 0 \in 0..1 /\ 10 * 0 + 1 \in 1..12 /\ 1 % 2 # 0
          /\ ((10 * 0 + 1) % 12) + 12 * m = ((10 * hi + lo) % 12) + 12 * m + 1
      BY <1>1, <1>6, <2>5
    <3> HIDE DEF u, w
    <3> QED BY <1>2, <1>3, <2>1, <3>3, <3>4, <3>5, HourOnly
  <2> QED BY <2>2, <2>3, <2>4, <2>5
<1> QED BY <1>4, <1>5, <1>6

\* tickHour counts hours in either form.
LEMMA HourTicks ==
  ASSUME NEW t \in EpsonTimes, DateValid(t), HourValid(t)
  PROVE  NextHour(t, TickHour(t))
<1>1. t.atime = 0 \/ t.atime = 1
  BY EpsonFields
<1>2. CASE t.atime = 0
  BY <1>2, HourTicks12 DEF TickHour
<1>3. CASE t.atime = 1
  BY <1>3, HourTicks24 DEF TickHour
<1> QED BY <1>1, <1>2, <1>3

-----------------------------------------------------------------------------
(* The Epson clock: ticks of any unit, as movements of the time shown. *)

\* u is k seconds after t.
Moves(t, u, k) ==
  /\ u \in EpsonTimes /\ EpsonValid(u) /\ SameRules(t, u)
  /\ \/ EpsonSeconds(u) = EpsonSeconds(t) + k /\ EpsonDay(u) = EpsonDay(t)
     \/ EpsonSeconds(u) + DaySeconds = EpsonSeconds(t) + k /\ DateFollows(t, u)

\* What the digits of the minute and of the second say.
MinutesShown(t) == 10 * t.minutehi + t.minutelo
SecondsShown(t) == 10 * t.secondhi + t.secondlo

\* The time of a valid day.
LEMMA DayTime ==
  ASSUME NEW t \in EpsonTimes, EpsonValid(t)
  PROVE  /\ Hour(t) \in 0..23 /\ MinutesShown(t) \in 0..59 /\ SecondsShown(t) \in 0..59
         /\ EpsonSeconds(t) = 60 * (60 * Hour(t) + MinutesShown(t)) + SecondsShown(t)
         /\ EpsonSeconds(t) \in 0..(DaySeconds - 1) /\ EpsonSeconds(t) % 60 = SecondsShown(t)
         /\ DateValid(t) /\ HourValid(t) /\ MinuteValid(t) /\ SecondValid(t)
<1>1. DateValid(t) /\ HourValid(t) /\ MinuteValid(t) /\ SecondValid(t)
  BY ValidParts
<1>2. MinutesShown(t) \in 0..59 /\ SecondsShown(t) \in 0..59
  BY <1>1, EpsonFields DEF MinutesShown, SecondsShown, MinuteValid, SecondValid
<1>3. Hour(t) \in 0..23
  <2>1. PICK h \in 0..39 : h = 10 * t.hourhi + t.hourlo
    BY <1>1, EpsonFields DEF HourValid
  <2>2. CASE t.atime = 1
    BY <1>1, <2>1, <2>2 DEF HourValid, Hour
  <2>3. CASE t.atime # 1
    <3>1. t.meridian \in 0..1 /\ h % 12 \in 0..11
      BY <2>1, EpsonFields
    <3>2. Hour(t) = (h % 12) + 12 * t.meridian
      BY <2>1, <2>3 DEF Hour
    <3> QED BY <3>1, <3>2
  <2> QED BY <2>2, <2>3
<1>4. PICK h \in 0..23, m \in 0..59, s \in 0..59 : h = Hour(t) /\ m = MinutesShown(t) /\ s = SecondsShown(t)
  BY <1>2, <1>3, Zenon
<1>5. EpsonSeconds(t) = 60 * (60 * h + m) + s
  <2>1. t.minutehi \in Int /\ t.minutelo \in Int /\ t.secondhi \in Int /\ t.secondlo \in Int
    BY EpsonFields
  <2> QED BY <1>4, <2>1 DEF EpsonSeconds, MinutesShown, SecondsShown
<1>6. 60 * (60 * h + m) + s \in 0..(DaySeconds - 1)
  <2>1. 60 * h + m \in Nat /\ 60 * h + m < 60 * 24
    OBVIOUS
  <2>2. PICK x \in Nat : x = 60 * h + m /\ x < 60 * 24
    BY <2>1
  <2>3. 60 * x + s \in Nat /\ 60 * x + s < DaySeconds
    BY <2>2 DEF DaySeconds
  <2>4. DaySeconds \in Nat
    BY DEF DaySeconds
  <2> QED BY <2>2, <2>3, <2>4
<1>7. (60 * (60 * h + m) + s) % 60 = s
  <2>1. PICK x \in Nat : x = 60 * h + m
    OBVIOUS
  <2>2. (60 * x + s) % 60 = s
    OBVIOUS
  <2> QED BY <2>1, <2>2
<1> QED BY <1>1, <1>4, <1>5, <1>6, <1>7

\* A time is put together from its date, hour, minute and second.
LEMMA TimeParts ==
  ASSUME NEW t \in EpsonTimes, DateValid(t), HourValid(t), MinuteValid(t), SecondValid(t)
  PROVE  EpsonValid(t)
BY ValidParts

\* A tick of the hour moves a valid time on by one hour.
LEMMA HourMoves ==
  ASSUME NEW t \in EpsonTimes, EpsonValid(t)
  PROVE  Moves(t, TickHour(t), 60 * 60)
<1> DEFINE u == TickHour(t)
<1>1. u \in EpsonTimes /\ SameRules(t, u) /\ SameMinutes(t, u)
  BY HourTypes
<1>2. NextHour(t, u)
  BY DayTime, HourTicks
<1> HIDE DEF u
<1>3. /\ MinuteValid(u) /\ SecondValid(u)
      /\ MinutesShown(u) = MinutesShown(t) /\ SecondsShown(u) = SecondsShown(t)
  BY <1>1, DayTime DEF MinuteValid, SecondValid, MinutesShown, SecondsShown, SameMinutes, SameSeconds
<1>4. EpsonValid(u)
  BY <1>1, <1>2, <1>3, TimeParts DEF NextHour
<1>5. PICK h \in 0..23, g \in 0..23, m \in 0..59, s \in 0..59 :
        /\ h = Hour(t) /\ g = Hour(u) /\ m = MinutesShown(t) /\ s = SecondsShown(t)
        /\ EpsonSeconds(t) = 60 * (60 * h + m) + s /\ EpsonSeconds(u) = 60 * (60 * g + m) + s
  BY <1>1, <1>3, <1>4, DayTime, ZenonT(60)
<1>6. g = h + 1 => EpsonSeconds(u) = EpsonSeconds(t) + 60 * 60
  BY <1>5
<1>7. h = 23 /\ g = 0 => EpsonSeconds(u) + DaySeconds = EpsonSeconds(t) + 60 * 60
  BY <1>5 DEF DaySeconds
<1>8. Moves(t, u, 60 * 60)
  BY <1>1, <1>2, <1>4, <1>5, <1>6, <1>7 DEF NextHour, Moves
<1> QED BY <1>8 DEF u

\* A tick of the minute moves a valid time on by one minute, through its carries.
LEMMA MinuteMoves ==
  ASSUME NEW t \in EpsonTimes, EpsonValid(t)
  PROVE  Moves(t, TickMinute(t), 60)
<1>1. PICK lo \in 0..9, hi \in 0..5 : lo = t.minutelo /\ hi = t.minutehi
  BY DayTime, EpsonFields DEF MinuteValid
<1> DEFINE u(a, b) == [t EXCEPT !.minutelo = a, !.minutehi = b]
<1>2. ASSUME NEW a \in 0..9, NEW b \in 0..5
      PROVE  /\ u(a, b) \in EpsonTimes /\ SameRules(t, u(a, b)) /\ EpsonValid(u(a, b))
             /\ EpsonDay(u(a, b)) = EpsonDay(t)
             /\ EpsonSeconds(u(a, b)) = EpsonSeconds(t) + 60 * ((10 * b + a) - (10 * hi + lo))
  <2>1. a \in Digit /\ b \in 0..7
    BY DEF Digit
  <2>2. u(a, b) \in EpsonTimes
    BY <2>1 DEF EpsonTimes
  <2>3. SameRules(t, u(a, b)) /\ DateStays(t, u(a, b)) /\ SameSeconds(t, u(a, b))
    BY DEF EpsonTimes, SameRules, DateStays, SameSeconds
  <2>4. /\ u(a, b).minutelo = a /\ u(a, b).minutehi = b /\ u(a, b).hourlo = t.hourlo
        /\ u(a, b).hourhi = t.hourhi /\ u(a, b).meridian = t.meridian /\ u(a, b).atime = t.atime
    BY DEF EpsonTimes
  <2> HIDE DEF u
  <2>5. HourValid(u(a, b)) /\ Hour(u(a, b)) = Hour(t)
    BY <2>4, DayTime DEF HourValid, Hour
  <2>6. MinuteValid(u(a, b)) /\ SecondValid(u(a, b)) /\ MinutesShown(u(a, b)) = 10 * b + a
        /\ SecondsShown(u(a, b)) = SecondsShown(t)
    BY <2>3, <2>4, DayTime DEF MinuteValid, SecondValid, MinutesShown, SecondsShown, SameSeconds
  <2>7. DateValid(u(a, b)) /\ EpsonDay(u(a, b)) = EpsonDay(t)
    BY <2>3, DateStaysShown, DayTime
  <2>8. EpsonValid(u(a, b))
    BY <2>2, <2>5, <2>6, <2>7, TimeParts
  <2>9. MinutesShown(t) = 10 * hi + lo
    BY <1>1 DEF MinutesShown
  <2>10. PICK h \in 0..23, s \in 0..59 :
          /\ EpsonSeconds(t) = 60 * (60 * h + (10 * hi + lo)) + s
          /\ EpsonSeconds(u(a, b)) = 60 * (60 * h + (10 * b + a)) + s
    BY <2>2, <2>5, <2>6, <2>8, <2>9, DayTime, SMTT(40)
  <2>11. EpsonSeconds(u(a, b)) = EpsonSeconds(t) + 60 * ((10 * b + a) - (10 * hi + lo))
    BY <2>10
  <2> QED BY <2>2, <2>3, <2>7, <2>8, <2>11
<1>3. PICK T \in Nat : T = EpsonSeconds(t)
  BY DayTime
<1>4. CASE lo # 9
  <2>1. Stays(t.minutelo) /\ Up(t.minutelo) = lo + 1
    BY <1>1, <1>4 DEF Stays, Up
  <2>2. TickMinute(t) = [t EXCEPT !.minutelo = Up(@)]
    BY <2>1 DEF TickMinute
  <2>3. TickMinute(t) = u(lo + 1, hi)
    BY <1>1, <2>1, <2>2 DEF EpsonTimes
  <2>4. lo + 1 \in 0..9 /\ T + 60 * ((10 * hi + (lo + 1)) - (10 * hi + lo)) = T + 60
    BY <1>4
  <2> HIDE DEF u
  <2> QED BY <1>2, <1>3, <2>3, <2>4 DEF Moves
<1>5. CASE lo = 9 /\ hi < 5
  <2>1. ~Stays(t.minutelo)
    BY <1>1, <1>5 DEF Stays
  <2>2. TickMinute(t) = u(0, hi + 1)
    BY <1>1, <1>5, <2>1 DEF TickMinute, EpsonTimes
  <2>3. 0 \in 0..9 /\ hi + 1 \in 0..5 /\ T + 60 * ((10 * (hi + 1) + 0) - (10 * hi + lo)) = T + 60
    BY <1>5
  <2> HIDE DEF u
  <2> QED BY <1>2, <1>3, <2>2, <2>3 DEF Moves
<1>6. CASE lo = 9 /\ hi = 5
  <2> DEFINE v == u(0, 0)
             w == TickHour(v)
  <2>1. ~Stays(t.minutelo)
    BY <1>1, <1>6 DEF Stays
  <2>2. TickMinute(t) = w
    BY <1>1, <1>6, <2>1 DEF TickMinute, EpsonTimes
  <2>3. 0 \in 0..9 /\ 0 \in 0..5 /\ 60 * ((10 * 0 + 0) - (10 * hi + lo)) = 60 - 60 * 60
    BY <1>6
  <2> HIDE DEF u
  <2>4. /\ v \in EpsonTimes /\ SameRules(t, v) /\ EpsonValid(v) /\ EpsonDay(v) = EpsonDay(t)
        /\ EpsonSeconds(v) = T + (60 - 60 * 60)
    BY <1>2, <1>3, <2>3
  <2>5. Moves(v, w, 60 * 60)
    BY <2>4, HourMoves
  <2> HIDE DEF v, w
  <2>6. EpsonSeconds(v) + 60 * 60 = EpsonSeconds(t) + 60
    BY <1>3, <2>4
  <2>7. SameRules(t, w) /\ (DateFollows(v, w) => DateFollows(t, w))
    BY <2>4, <2>5 DEF Moves, SameRules, DateFollows
  <2>8. Moves(t, w, 60)
    BY <2>4, <2>5, <2>6, <2>7 DEF Moves
  <2> QED BY <2>2, <2>8
<1> QED BY <1>4, <1>5, <1>6

\* New seconds of a time, and what they show.
LEMMA NewSeconds ==
  ASSUME NEW t \in EpsonTimes, EpsonValid(t), NEW a \in 0..9, NEW b \in 0..5
  PROVE  LET u == [t EXCEPT !.secondlo = a, !.secondhi = b]
         IN  /\ u \in EpsonTimes /\ SameRules(t, u) /\ EpsonValid(u) /\ EpsonDay(u) = EpsonDay(t)
             /\ EpsonSeconds(u) = EpsonSeconds(t) + ((10 * b + a) - SecondsShown(t))
             /\ SecondsShown(u) = 10 * b + a
<1> DEFINE u == [t EXCEPT !.secondlo = a, !.secondhi = b]
<1>1. a \in Digit /\ b \in 0..7
  BY DEF Digit
<1>2. u \in EpsonTimes
  BY <1>1 DEF EpsonTimes
<1>3. SameRules(t, u) /\ DateStays(t, u)
  BY DEF EpsonTimes, SameRules, DateStays
<1>4. /\ u.minutelo = t.minutelo /\ u.minutehi = t.minutehi /\ u.hourlo = t.hourlo
      /\ u.hourhi = t.hourhi /\ u.meridian = t.meridian /\ u.atime = t.atime
      /\ u.secondlo = a /\ u.secondhi = b
  BY DEF EpsonTimes
<1> HIDE DEF u
<1>5. HourValid(u) /\ Hour(u) = Hour(t)
  BY <1>4, DayTime DEF HourValid, Hour
<1>6. MinuteValid(u) /\ SecondValid(u) /\ MinutesShown(u) = MinutesShown(t) /\ SecondsShown(u) = 10 * b + a
  BY <1>4, DayTime DEF MinuteValid, SecondValid, MinutesShown, SecondsShown
<1>7. DateValid(u) /\ EpsonDay(u) = EpsonDay(t)
  BY <1>3, DateStaysShown, DayTime
<1>8. EpsonValid(u)
  BY <1>2, <1>5, <1>6, <1>7, TimeParts
<1>9. PICK h \in 0..23, m \in 0..59, s \in 0..59 :
        /\ EpsonSeconds(t) = 60 * (60 * h + m) + s /\ SecondsShown(t) = s
        /\ EpsonSeconds(u) = 60 * (60 * h + m) + (10 * b + a)
  BY <1>2, <1>5, <1>6, <1>8, DayTime, ZenonT(60)
<1>10. EpsonSeconds(u) = EpsonSeconds(t) + ((10 * b + a) - SecondsShown(t))
  BY <1>9
<1> QED BY <1>2, <1>3, <1>6, <1>7, <1>8, <1>10 DEF u

\* A tick of the second moves a valid time on by one second, through its carries.
LEMMA SecondMoves ==
  ASSUME NEW t \in EpsonTimes, EpsonValid(t)
  PROVE  Moves(t, TickSecond(t), 1)
<1>1. PICK lo \in 0..9, hi \in 0..5 : lo = t.secondlo /\ hi = t.secondhi
  BY DayTime, EpsonFields DEF SecondValid
<1> DEFINE u(a, b) == [t EXCEPT !.secondlo = a, !.secondhi = b]
<1>2. ASSUME NEW a \in 0..9, NEW b \in 0..5
      PROVE  /\ u(a, b) \in EpsonTimes /\ SameRules(t, u(a, b)) /\ EpsonValid(u(a, b))
             /\ EpsonDay(u(a, b)) = EpsonDay(t)
             /\ EpsonSeconds(u(a, b)) = EpsonSeconds(t) + ((10 * b + a) - (10 * hi + lo))
  BY <1>1, NewSeconds, ZenonT(60) DEF SecondsShown
<1>3. PICK T \in Nat : T = EpsonSeconds(t)
  BY DayTime
<1>4. CASE lo # 9
  <2>1. Stays(t.secondlo) /\ Up(t.secondlo) = lo + 1
    BY <1>1, <1>4 DEF Stays, Up
  <2>2. TickSecond(t) = [t EXCEPT !.secondlo = Up(@)]
    BY <2>1 DEF TickSecond
  <2>3. TickSecond(t) = u(lo + 1, hi)
    BY <1>1, <2>1, <2>2 DEF EpsonTimes
  <2>4. lo + 1 \in 0..9 /\ T + ((10 * hi + (lo + 1)) - (10 * hi + lo)) = T + 1
    BY <1>4
  <2> HIDE DEF u
  <2> QED BY <1>2, <1>3, <2>3, <2>4 DEF Moves
<1>5. CASE lo = 9 /\ hi < 5
  <2>1. ~Stays(t.secondlo)
    BY <1>1, <1>5 DEF Stays
  <2>2. TickSecond(t) = u(0, hi + 1)
    BY <1>1, <1>5, <2>1 DEF TickSecond, EpsonTimes
  <2>3. 0 \in 0..9 /\ hi + 1 \in 0..5 /\ T + ((10 * (hi + 1) + 0) - (10 * hi + lo)) = T + 1
    BY <1>5
  <2> HIDE DEF u
  <2> QED BY <1>2, <1>3, <2>2, <2>3 DEF Moves
<1>6. CASE lo = 9 /\ hi = 5
  <2> DEFINE v == u(0, 0)
             w == TickMinute(v)
  <2>1. ~Stays(t.secondlo)
    BY <1>1, <1>6 DEF Stays
  <2>2. TickSecond(t) = w
    BY <1>1, <1>6, <2>1 DEF TickSecond, EpsonTimes
  <2>3. 0 \in 0..9 /\ 0 \in 0..5 /\ (10 * 0 + 0) - (10 * hi + lo) = 1 - 60
    BY <1>6
  <2> HIDE DEF u
  <2>4. /\ v \in EpsonTimes /\ SameRules(t, v) /\ EpsonValid(v) /\ EpsonDay(v) = EpsonDay(t)
        /\ EpsonSeconds(v) = T + (1 - 60)
    BY <1>2, <1>3, <2>3
  <2>5. Moves(v, w, 60)
    BY <2>4, MinuteMoves
  <2> HIDE DEF v, w
  <2>6. EpsonSeconds(v) + 60 = EpsonSeconds(t) + 1
    BY <1>3, <2>4
  <2>7. SameRules(t, w) /\ (DateFollows(v, w) => DateFollows(t, w))
    BY <2>4, <2>5 DEF Moves, SameRules, DateFollows
  <2>8. Moves(t, w, 1)
    BY <2>4, <2>5, <2>6, <2>7 DEF Moves
  <2> QED BY <2>2, <2>8
<1> QED BY <1>4, <1>5, <1>6

\* roundSeconds goes to the nearer minute.
LEMMA RoundMoves ==
  ASSUME NEW t \in EpsonTimes, EpsonValid(t)
  PROVE  LET n == EpsonSeconds(t) % 60
         IN  Moves(t, RoundSeconds(t), IF n >= 30 THEN 60 - n ELSE -n)
<1>1. PICK lo \in 0..9, hi \in 0..5 : lo = t.secondlo /\ hi = t.secondhi
  BY DayTime, EpsonFields DEF SecondValid
<1>2. PICK T \in Nat, n \in 0..59 : /\ T = EpsonSeconds(t) /\ n = SecondsShown(t) /\ n = 10 * hi + lo
                                    /\ EpsonSeconds(t) % 60 = n
  <2>1. EpsonSeconds(t) \in Nat
    BY DayTime
  <2>2. SecondsShown(t) \in 0..59 /\ EpsonSeconds(t) % 60 = SecondsShown(t)
    BY DayTime, Zenon
  <2>3. SecondsShown(t) = 10 * hi + lo
    BY <1>1 DEF SecondsShown
  <2> QED BY <2>1, <2>2, <2>3, Zenon
<1>3. n >= 30 <=> hi >= 3
  BY <1>2
<1> DEFINE v == TickMinute(t)
<1>4. CASE hi >= 3
  <2>1. Moves(t, v, 60) /\ SameSeconds(t, v)
    BY MinuteMoves, MinuteTypes
  <2> DEFINE w == [v EXCEPT !.secondlo = 0, !.secondhi = 0]
  <2>2. RoundSeconds(t) = w
    BY <1>1, <1>4 DEF RoundSeconds
  <2> HIDE DEF v
  <2>3. SecondsShown(v) = n /\ v \in EpsonTimes /\ EpsonValid(v)
    BY <1>2, <2>1 DEF SameSeconds, SecondsShown, Moves
  <2>4. /\ w \in EpsonTimes /\ SameRules(v, w) /\ EpsonValid(w) /\ EpsonDay(w) = EpsonDay(v)
        /\ EpsonSeconds(w) = EpsonSeconds(v) + ((10 * 0 + 0) - n)
    <3>1. 0 \in 0..9 /\ 0 \in 0..5
      OBVIOUS
    <3> QED BY <2>3, <3>1, NewSeconds, Zenon
  <2> HIDE DEF w
  <2>5. PICK V \in Nat : V = EpsonSeconds(v)
    BY <2>3, DayTime
  <2>6. /\ (EpsonSeconds(v) = EpsonSeconds(t) + 60 => EpsonSeconds(w) = EpsonSeconds(t) + (60 - n))
        /\ (EpsonSeconds(v) + DaySeconds = EpsonSeconds(t) + 60 =>
              EpsonSeconds(w) + DaySeconds = EpsonSeconds(t) + (60 - n))
    BY <1>2, <2>4, <2>5 DEF DaySeconds
  <2>7. SameRules(t, w) /\ (DateFollows(t, v) => DateFollows(t, w))
    BY <2>1, <2>4, DayTime DEF Moves, SameRules, DateFollows
  <2>8. Moves(t, w, 60 - n)
    BY <2>1, <2>4, <2>6, <2>7 DEF Moves
  <2> QED BY <1>2, <1>3, <1>4, <2>2, <2>8
<1>5. CASE hi < 3
  <2> DEFINE w == [t EXCEPT !.secondlo = 0, !.secondhi = 0]
  <2>1. RoundSeconds(t) = w
    <3>1. ~(t.secondhi >= 3)
      BY <1>1, <1>5
    <3> QED BY <3>1 DEF RoundSeconds
  <2>2. /\ w \in EpsonTimes /\ SameRules(t, w) /\ EpsonValid(w) /\ EpsonDay(w) = EpsonDay(t)
        /\ EpsonSeconds(w) = EpsonSeconds(t) + ((10 * 0 + 0) - n)
    <3>1. 0 \in 0..9 /\ 0 \in 0..5
      OBVIOUS
    <3>2. /\ w \in EpsonTimes /\ SameRules(t, w) /\ EpsonValid(w) /\ EpsonDay(w) = EpsonDay(t)
          /\ EpsonSeconds(w) = EpsonSeconds(t) + ((10 * 0 + 0) - SecondsShown(t))
      BY <3>1, NewSeconds, Zenon
    <3> HIDE DEF w
    <3> QED BY <1>2, <3>2, Zenon
  <2> HIDE DEF w
  <2>3. Moves(t, w, -n)
    BY <1>2, <2>2 DEF Moves
  <2> QED BY <1>2, <1>3, <1>5, <2>1, <2>3
<1> QED BY <1>4, <1>5

-----------------------------------------------------------------------------
(* The Epson clock: the time shown, and time that passes after time. *)

\* d days and n seconds after p, of which the calendar counts the days.
After(c, p, d, n) ==
  <<(p[1] + c * (d + (p[2] + n) \div DaySeconds)) % Century, (p[2] + n) % DaySeconds>>
EpsonMoments == (0..(Century - 1)) \X (0..(DaySeconds - 1))

\* u shows d days and n seconds after t.
Passed(t, u, d, n) ==
  /\ u \in EpsonTimes /\ EpsonValid(u) /\ SameRules(t, u)
  /\ Shown(u) = After(t.calendar, Shown(t), d, n)

\* A century has days and a day has seconds.
LEMMA EpsonSizes == Century \in Nat \ {0} /\ DaySeconds \in Nat \ {0}
BY DEF Century, DaySeconds

\* What is shown is a moment of the century; a valid time shows itself.
LEMMA ShownTypes ==
  ASSUME NEW t \in EpsonTimes
  PROVE  /\ Shown(t) \in EpsonMoments
         /\ EpsonValid(t) => /\ Shown(t) = <<EpsonDay(t), EpsonSeconds(t)>>
                             /\ EpsonDay(t) \in 0..(Century - 1) /\ EpsonSeconds(t) \in 0..(DaySeconds - 1)
<1>1. EpsonValid(t) => EpsonDay(t) \in 0..(Century - 1) /\ EpsonSeconds(t) \in 0..(DaySeconds - 1)
  BY DayTime, DateTypes
<1>2. 0 \in 0..(Century - 1) /\ 0 \in 0..(DaySeconds - 1)
  BY EpsonSizes
<1> QED BY <1>1, <1>2 DEF Shown, EpsonMoments

\* A sum may be reduced before or after it is made.
LEMMA AddMod ==
  ASSUME NEW z \in Nat \ {0}, NEW a \in Nat, NEW b \in Nat
  PROVE  /\ ((a % z) + b) % z = (a + b) % z
         /\ (a + b) \div z = a \div z + ((a % z) + b) \div z
<1>1. PICK q \in Nat, r \in 0..(z - 1) : q = a \div z /\ r = a % z /\ a = z * q + r
  BY DivMod
<1>2. r + b \in Nat
  OBVIOUS
<1>3. PICK p \in Nat, s \in 0..(z - 1) : p = (r + b) \div z /\ s = (r + b) % z /\ r + b = z * p + s
  BY <1>2, DivMod
<1>4. a + b = z * (q + p) + s
  <2>1. PICK x \in Nat, y \in Nat : x = z * q /\ y = z * p
    OBVIOUS
  <2>2. z * (q + p) = x + y
    BY <2>1
  <2> QED BY <2>1, <2>2, <1>1, <1>3
<1>5. (a + b) \div z = q + p /\ (a + b) % z = s
  <2>1. a + b \in Nat /\ q + p \in Nat
    OBVIOUS
  <2> QED BY <1>4, <2>1, DivModUnique
<1> QED BY <1>1, <1>3, <1>5

\* A moment after a moment is a moment.
LEMMA AfterTypes ==
  ASSUME NEW c \in 0..1, NEW p \in EpsonMoments, NEW d \in Nat, NEW n \in Int, p[2] + n \in Nat
  PROVE  After(c, p, d, n) \in EpsonMoments
<1>1. PICK x \in Nat, y \in Nat : x = p[1] /\ y = p[2]
  BY DEF EpsonMoments
<1>2. PICK m \in Nat : m = y + n
  BY <1>1
<1>3. PICK q \in Nat : q = m \div DaySeconds
  BY EpsonSizes, DivMod
<1>4. m % DaySeconds \in 0..(DaySeconds - 1)
  BY EpsonSizes, DivMod
<1>5. x + c * (d + q) \in Nat
  OBVIOUS
<1>6. (x + c * (d + q)) % Century \in 0..(Century - 1)
  BY <1>5, EpsonSizes, DivMod
<1> QED BY <1>1, <1>2, <1>3, <1>4, <1>6 DEF After, EpsonMoments

\* Time passes in parts as at once.
LEMMA AfterAfter ==
  ASSUME NEW c \in 0..1, NEW p \in EpsonMoments, NEW d \in Nat, NEW n \in Nat, NEW e \in Nat, NEW m \in Nat,
         NEW i \in Nat, NEW j \in Nat, i = d + e, j = n + m, NEW o \in EpsonMoments, o = After(c, p, d, n)
  PROVE  After(c, o, e, m) = After(c, p, i, j)
<1>1. PICK x \in Nat, y \in Nat : x = p[1] /\ y = p[2]
  BY DEF EpsonMoments
<1>2. PICK q \in Nat, r \in Nat : q = (y + n) \div DaySeconds /\ r = (y + n) % DaySeconds
  <2>1. y + n \in Nat
    OBVIOUS
  <2>2. (y + n) \div DaySeconds \in Nat /\ (y + n) % DaySeconds \in 0..(DaySeconds - 1)
    BY <2>1, EpsonSizes, DivMod
  <2> QED BY <2>2, EpsonSizes
<1>3. PICK g \in Nat : g = (r + m) \div DaySeconds
  <2>1. r + m \in Nat
    OBVIOUS
  <2> QED BY <2>1, EpsonSizes, DivMod
<1>4. (r + m) % DaySeconds = (y + (n + m)) % DaySeconds /\ (y + (n + m)) \div DaySeconds = q + g
  <2>1. y + n \in Nat /\ (y + n) + m = y + (n + m)
    OBVIOUS
  <2>2. (((y + n) % DaySeconds) + m) % DaySeconds = ((y + n) + m) % DaySeconds
    BY <2>1, EpsonSizes, AddMod, ZenonT(60)
  <2>3. ((y + n) + m) \div DaySeconds = (y + n) \div DaySeconds + (((y + n) % DaySeconds) + m) \div DaySeconds
    BY <2>1, EpsonSizes, AddMod, ZenonT(60)
  <2> QED BY <1>2, <1>3, <2>1, <2>2, <2>3
<1>5. PICK f \in Nat, h \in Nat : f = x + c * (d + q) /\ h = c * (e + g)
  OBVIOUS
<1>6. After(c, p, d, n) = <<f % Century, r>>
  BY <1>1, <1>2, <1>5 DEF After
<1>7. After(c, o, e, m) = <<((f % Century) + h) % Century, (r + m) % DaySeconds>>
  BY <1>3, <1>5, <1>6 DEF After
<1>8. f + h = x + c * ((d + e) + (q + g))
  <2>1. c = 0 \/ c = 1
    OBVIOUS
  <2>2. CASE c = 0
    BY <1>5, <2>2
  <2>3. CASE c = 1
    BY <1>5, <2>3
  <2> QED BY <2>1, <2>2, <2>3
<1>9. After(c, p, d + e, n + m) = <<(f + h) % Century, (r + m) % DaySeconds>>
  BY <1>1, <1>4, <1>8 DEF After
<1>10. ((f % Century) + h) % Century = (f + h) % Century
  BY EpsonSizes, AddMod, ZenonT(60)
<1> QED BY <1>7, <1>9, <1>10

\* A movement shows.
LEMMA MovesShow ==
  ASSUME NEW t \in EpsonTimes, EpsonValid(t), NEW u, NEW k \in Int, Moves(t, u, k)
  PROVE  Passed(t, u, 0, k)
<1>1. u \in EpsonTimes /\ EpsonValid(u) /\ SameRules(t, u)
  BY DEF Moves
<1>2. PICK a \in 0..(Century - 1), s \in 0..(DaySeconds - 1),
          b \in 0..(Century - 1), r \in 0..(DaySeconds - 1) :
        /\ a = EpsonDay(t) /\ s = EpsonSeconds(t) /\ b = EpsonDay(u) /\ r = EpsonSeconds(u)
        /\ Shown(t) = <<a, s>> /\ Shown(u) = <<b, r>>
  BY <1>1, ShownTypes
<1>3. PICK c \in 0..1 : c = t.calendar
  BY EpsonFields
<1>4. After(c, <<a, s>>, 0, k) = <<(a + c * (0 + (s + k) \div DaySeconds)) % Century, (s + k) % DaySeconds>>
  BY DEF After
<1>5. CASE r = s + k /\ b = a
  <2>1. (s + k) \div DaySeconds = 0 /\ (s + k) % DaySeconds = r
    BY <1>5, EpsonSizes, DivSmall
  <2>2. a + c * (0 + 0) = a /\ a % Century = a
    BY EpsonSizes, DivSmall
  <2> QED BY <1>1, <1>2, <1>3, <1>4, <1>5, <2>1, <2>2 DEF Passed
<1>6. CASE r + DaySeconds = s + k /\ b = (a + c) % Century
  <2>1. (s + k) \div DaySeconds = 1 /\ (s + k) % DaySeconds = r
    BY <1>6, EpsonSizes, DivSmall
  <2>2. a + c * (0 + 1) = a + c
    OBVIOUS
  <2> QED BY <1>1, <1>2, <1>3, <1>4, <1>6, <2>1, <2>2 DEF Passed
<1> QED BY <1>2, <1>3, <1>5, <1>6 DEF Moves, DateFollows

\* A day shows.
LEMMA DayShows ==
  ASSUME NEW t \in EpsonTimes, EpsonValid(t)
  PROVE  Passed(t, TickDay(t), 1, 0)
<1> DEFINE u == TickDay(t)
<1>1. u \in EpsonTimes /\ SameRules(t, u) /\ SameHours(t, u)
  BY DayTypes
<1>2. DateFollows(t, u)
  BY DayTime, DayTicks
<1> HIDE DEF u
<1>3. HourValid(u) /\ MinuteValid(u) /\ SecondValid(u)
  BY <1>1, DayTime DEF HourValid, MinuteValid, SecondValid, SameRules, SameHours, SameMinutes, SameSeconds
<1>4. EpsonValid(u)
  BY <1>1, <1>2, <1>3, TimeParts DEF DateFollows
<1>5. EpsonSeconds(u) = EpsonSeconds(t)
  BY <1>1 DEF EpsonSeconds, Hour, SameRules, SameHours, SameMinutes, SameSeconds
<1>6. PICK a \in 0..(Century - 1), s \in 0..(DaySeconds - 1), b \in 0..(Century - 1) :
        /\ a = EpsonDay(t) /\ s = EpsonSeconds(t) /\ b = EpsonDay(u)
        /\ Shown(t) = <<a, s>> /\ Shown(u) = <<b, s>>
  BY <1>1, <1>4, <1>5, ShownTypes
<1>7. PICK c \in 0..1 : c = t.calendar /\ b = (a + c) % Century
  BY <1>2, <1>6, EpsonFields DEF DateFollows
<1>8. s + 0 = s /\ s \div DaySeconds = 0 /\ s % DaySeconds = s
  BY EpsonSizes, DivSmall
<1>9. a + c * (1 + 0) = a + c
  OBVIOUS
<1>10. After(c, <<a, s>>, 1, 0) = <<b, s>>
  BY <1>7, <1>8, <1>9 DEF After
<1>11. Passed(t, u, 1, 0)
  BY <1>1, <1>4, <1>6, <1>7, <1>10 DEF Passed
<1> QED BY <1>11 DEF u

\* Time that passes after time is their sum.
LEMMA PassedPassed ==
  ASSUME NEW t \in EpsonTimes, NEW u, NEW v, NEW d \in Nat, NEW n \in Nat, NEW e \in Nat, NEW m \in Nat,
         Passed(t, u, d, n), Passed(u, v, e, m)
  PROVE  Passed(t, v, d + e, n + m)
<1>1. t.calendar \in 0..1 /\ u.calendar = t.calendar
  BY EpsonFields DEF Passed, SameRules
<1>2. After(t.calendar, After(t.calendar, Shown(t), d, n), e, m) = After(t.calendar, Shown(t), d + e, n + m)
  <2>1. PICK p \in EpsonMoments, c \in 0..1 : p = Shown(t) /\ c = t.calendar
    BY <1>1, ShownTypes
  <2>2. PICK o \in EpsonMoments : o = After(c, p, d, n)
    <3>1. p[2] + n \in Nat
      BY DEF EpsonMoments
    <3> QED BY <3>1, AfterTypes
  <2>3. PICK i \in Nat, j \in Nat : i = d + e /\ j = n + m
    OBVIOUS
  <2>4. After(c, o, e, m) = After(c, p, i, j)
    BY <2>2, <2>3, AfterAfter
  <2> QED BY <2>1, <2>2, <2>3, <2>4
<1>3. SameRules(t, v)
  BY DEF Passed, SameRules
<1> QED BY <1>1, <1>2, <1>3 DEF Passed

\* A valid time is no time after itself.
LEMMA NothingPassed ==
  ASSUME NEW t \in EpsonTimes, EpsonValid(t)
  PROVE  Passed(t, t, 0, 0)
<1>1. Moves(t, t, 0)
  <2>1. EpsonSeconds(t) = EpsonSeconds(t) + 0
    BY ShownTypes
  <2> QED BY <2>1 DEF Moves, SameRules
<1> QED BY <1>1, MovesShow

\* A loop of ticks makes n times the time of one pass.
PassesEach(F, e, k) == \A u \in EpsonTimes : EpsonValid(u) => Passed(u, F[u], e, k)

\* By induction over the passes: n passes of a loop make n times what one makes.
LEMMA LoopPasses ==
  ASSUME NEW F \in [EpsonTimes -> EpsonTimes], NEW e \in Nat, NEW k \in Nat, PassesEach(F, e, k),
         NEW t \in EpsonTimes, EpsonValid(t), NEW n \in Nat
  PROVE  Passed(t, Times(F, n, t), e * n, k * n)
<1> DEFINE X(i) == Times(F, i, t)
           T == {i \in Nat : Passed(t, X(i), e * i, k * i)}
<1>1. X(0) = t /\ \A i \in Nat : X(i) \in EpsonTimes /\ X(i + 1) = F[X(i)]
  BY TimesRuns DEF Runs
<1> HIDE DEF X
<1>2. 0 \in T
  <2>1. e * 0 = 0 /\ k * 0 = 0
    OBVIOUS
  <2> QED BY <1>1, <2>1, NothingPassed
<1>3. \A i \in T \cap Nat : i + 1 \in T
  <2> TAKE i \in T \cap Nat
  <2>1. Passed(t, X(i), e * i, k * i) /\ X(i) \in EpsonTimes /\ X(i + 1) = F[X(i)]
    BY <1>1
  <2>2. Passed(X(i), X(i + 1), e, k)
    BY <2>1 DEF PassesEach, Passed
  <2>3. e * i \in Nat /\ k * i \in Nat /\ e * (i + 1) = e * i + e /\ k * (i + 1) = k * i + k
    OBVIOUS
  <2>4. Passed(t, X(i + 1), e * i + e, k * i + k)
    BY <2>1, <2>2, <2>3, PassedPassed
  <2> QED BY <2>3, <2>4
<1> HIDE DEF T
<1>4. n \in T
  BY <1>2, <1>3, NatSet
<1> QED BY <1>4 DEF T, X

\* load lets all the time without the emulator pass.
LEMMA CatchUpPasses ==
  ASSUME NEW t \in EpsonTimes, EpsonValid(t), NEW away \in Nat \X Nat \X Nat \X Nat
  PROVE  Passed(t, CatchUp(t, away), away[1], 60 * 60 * away[2] + 60 * away[3] + away[4])
<1>1. PICK a \in Nat, b \in Nat, c \in Nat, d \in Nat :
        a = away[1] /\ b = away[2] /\ c = away[3] /\ d = away[4]
  OBVIOUS
<1>2. /\ TickDays \in [EpsonTimes -> EpsonTimes] /\ TickHours \in [EpsonTimes -> EpsonTimes]
      /\ TickMinutes \in [EpsonTimes -> EpsonTimes] /\ TickSeconds \in [EpsonTimes -> EpsonTimes]
  BY DayTypes, HourTypes, MinuteTypes, SecondTypes DEF TickDays, TickHours, TickMinutes, TickSeconds
<1>3. PassesEach(TickDays, 1, 0)
  BY DayShows DEF PassesEach, TickDays
<1>4. PICK z \in Nat : z = 60 * 60
  OBVIOUS
<1>5. PassesEach(TickHours, 0, z)
  BY <1>4, HourMoves, MovesShow DEF PassesEach, TickHours
<1>6. PassesEach(TickMinutes, 0, 60)
  BY MinuteMoves, MovesShow DEF PassesEach, TickMinutes
<1>7. PassesEach(TickSeconds, 0, 1)
  BY SecondMoves, MovesShow DEF PassesEach, TickSeconds
<1> DEFINE t1 == Times(TickDays, a, t)
           t2 == Times(TickHours, b, t1)
           t3 == Times(TickMinutes, c, t2)
           t4 == Times(TickSeconds, d, t3)
<1>8. CatchUp(t, away) = t4
  BY <1>1 DEF CatchUp
<1>9. Passed(t, t1, a, 0)
  <2>1. Passed(t, t1, 1 * a, 0 * a)
    BY <1>2, <1>3, LoopPasses
  <2>2. 1 * a = a /\ 0 * a = 0
    OBVIOUS
  <2> QED BY <2>1, <2>2
<1> HIDE DEF t1
<1>10. Passed(t1, t2, 0, z * b)
  <2>1. t1 \in EpsonTimes /\ EpsonValid(t1)
    BY <1>9 DEF Passed
  <2>2. Passed(t1, t2, 0 * b, z * b)
    BY <1>2, <1>5, <2>1, LoopPasses
  <2>3. 0 * b = 0
    OBVIOUS
  <2> QED BY <2>2, <2>3
<1> HIDE DEF t2
<1>11. Passed(t2, t3, 0, 60 * c)
  <2>1. t2 \in EpsonTimes /\ EpsonValid(t2)
    BY <1>10 DEF Passed
  <2>2. Passed(t2, t3, 0 * c, 60 * c)
    BY <1>2, <1>6, <2>1, LoopPasses
  <2>3. 0 * c = 0
    OBVIOUS
  <2> QED BY <2>2, <2>3
<1> HIDE DEF t3
<1>12. Passed(t3, t4, 0, d)
  <2>1. t3 \in EpsonTimes /\ EpsonValid(t3)
    BY <1>11 DEF Passed
  <2>2. Passed(t3, t4, 0 * d, 1 * d)
    BY <1>2, <1>7, <2>1, LoopPasses
  <2>3. 0 * d = 0 /\ 1 * d = d
    OBVIOUS
  <2> QED BY <2>2, <2>3
<1> HIDE DEF t4
<1>13. PICK h \in Nat, m \in Nat : h = z * b /\ m = 60 * c
  OBVIOUS
<1>14. Passed(t, t2, a + 0, 0 + h)
  BY <1>9, <1>10, <1>13, PassedPassed
<1>15. Passed(t, t3, (a + 0) + 0, (0 + h) + m)
  BY <1>11, <1>13, <1>14, PassedPassed
<1>16. Passed(t, t4, ((a + 0) + 0) + 0, ((0 + h) + m) + d)
  BY <1>12, <1>13, <1>15, PassedPassed
<1>17. ((a + 0) + 0) + 0 = a /\ ((0 + h) + m) + d = 60 * 60 * away[2] + 60 * away[3] + away[4]
  BY <1>1, <1>4, <1>13
<1> QED BY <1>1, <1>8, <1>16, <1>17

-----------------------------------------------------------------------------
(* The Epson clock: what every step keeps. *)

\* Parts of EpsonTypeOK.
EpsonFlagsOK ==
  /\ ready \in BOOLEAN /\ holdtick \in BOOLEAN /\ resync \in BOOLEAN /\ hold \in BOOLEAN
  /\ roundseconds \in BOOLEAN /\ pause \in BOOLEAN /\ stop \in BOOLEAN /\ irqflag \in BOOLEAN
  /\ irqduty \in BOOLEAN /\ ticked \in BOOLEAN /\ excused \in BOOLEAN
EpsonCountsOK ==
  /\ clocks \in 0..(EpsonSecond - 1) /\ seconds \in 0..(60 * 24 - 1) /\ wait \in 0..AccessWait
  /\ restarts \in Nat /\ irqperiod \in 0..3
EpsonBusOK ==
  /\ chipselect \in 0..1 /\ mode \in {"Mode", "SeekWrite", "SeekRead", "Read", "Write"}
  /\ offset \in Digit

\* The digits are a date and show the time that is due, but for a second held back,
\* unless that is excused.
EpsonShows ==
  ~excused => /\ EpsonValid(now)
              /\ due = IF holdtick THEN After(now.calendar, Shown(now), 0, 1) ELSE Shown(now)

\* The inductive invariant; a second is held back only while the clock is held, so a
\* write that ends a hold always makes up for it.
EpsonInv ==
  /\ EpsonFlagsOK /\ EpsonCountsOK /\ EpsonBusOK /\ now \in EpsonTimes /\ due \in EpsonMoments
  /\ holdtick => hold
  /\ EpsonShows

\* The module's clock of reference is the one used here.
LEMMA LaterIsAfter == \A p, d, n : Later(p, d, n) = After(now.calendar, p, d, n)
BY DEF Later, After

\* The invariant gives the types, ...
LEMMA EpsonInvTypes == EpsonInv => EpsonTypeOK
<1> SUFFICES ASSUME EpsonInv PROVE EpsonTypeOK
  OBVIOUS
<1>1. due \in Nat \X Nat
  BY DEF EpsonInv, EpsonMoments
<1>2. \A b \in {ready, holdtick, resync, hold, roundseconds, pause, stop, irqflag,
                irqduty, ticked, excused} : b \in BOOLEAN
  BY DEF EpsonInv, EpsonFlagsOK
<1> QED BY <1>1, <1>2 DEF EpsonInv, EpsonCountsOK, EpsonBusOK, EpsonTypeOK

\* ... and that the clock keeps time.
LEMMA EpsonInvTime == EpsonInv => ClockKeepsTime
BY LaterIsAfter DEF EpsonInv, EpsonShows, ClockKeepsTime

\* A new clock and one that is loaded satisfy the invariant.
LEMMA EpsonFromShown ==
  ASSUME NEW times \in SUBSET EpsonTimes, EpsonFrom(times) PROVE EpsonInv
<1>1. now \in EpsonTimes /\ due = Shown(now) /\ (excused <=> ~EpsonValid(now)) /\ excused \in BOOLEAN
      /\ holdtick = FALSE
  BY DEF EpsonFrom
<1>2. due \in EpsonMoments
  BY <1>1, ShownTypes
<1>3. EpsonFlagsOK
  BY <1>1 DEF EpsonFrom, EpsonFlagsOK
<1>4. EpsonCountsOK
  BY EpsonAssumption DEF EpsonFrom, EpsonCountsOK
<1>5. EpsonBusOK
  BY EpsonSmall DEF EpsonFrom, EpsonBusOK
<1> QED BY <1>1, <1>2, <1>3, <1>4, <1>5 DEF EpsonInv, EpsonShows

\* ... as it does at first.
LEMMA EpsonStartsShown == EpsonInit => EpsonInv
BY EpsonAssumption, EpsonFromShown DEF EpsonInit

\* A tick of the clock: digits and due time go on alike.
LEMMA EpsonMainShows ==
  ASSUME EpsonInv, EpsonMain
  PROVE  /\ now' \in EpsonTimes /\ due' \in EpsonMoments
         /\ EpsonShows'
         /\ holdtick' => hold'
<1> DEFINE x == IF rounds THEN RoundSeconds(now) ELSE now
           d == IF rounds THEN RoundDue ELSE due
           c == now.calendar
<1>1. /\ now' = (IF TicksNow THEN TickSecond(x) ELSE x) /\ due' = DueNow
      /\ DueNow = IF TicksNow \/ HeldTick THEN Later(d, 0, 1) ELSE d
      /\ hold' = hold /\ (holdtick' <=> holdtick \/ HeldTick)
      /\ (excused' <=> excused \/ (holdtick /\ (HeldTick \/ rounds)))
      /\ now \in EpsonTimes /\ due \in EpsonMoments /\ (holdtick => hold)
      /\ (~excused => EpsonValid(now) /\ due = IF holdtick THEN After(c, Shown(now), 0, 1) ELSE Shown(now))
  BY DEF EpsonMain, DueNow, EpsonInv, EpsonShows
<1>2. c \in 0..1
  BY <1>1, EpsonFields
<1>3. x \in EpsonTimes /\ SameRules(now, x)
  BY <1>1, SecondTypes DEF SameRules
<1> DEFINE n == due[2] % 60
           k == IF n >= 30 THEN 60 - n ELSE -n
<1>4. RoundDue = After(c, due, 0, k)
  BY LaterIsAfter DEF RoundDue
<1>5. d \in EpsonMoments /\ Later(d, 0, 1) \in EpsonMoments
  <2>1. PICK y \in Nat : y = due[2]
    BY <1>1 DEF EpsonMoments
  <2>2. k \in Int /\ due[2] + k \in Nat
    BY <2>1
  <2> HIDE DEF k
  <2>3. RoundDue \in EpsonMoments
    BY <1>1, <1>2, <1>4, <2>2, AfterTypes
  <2>4. d \in EpsonMoments
    BY <1>1, <2>3
  <2> HIDE DEF d
  <2>5. d[2] + 1 \in Nat
    BY <2>4 DEF EpsonMoments
  <2>6. After(c, d, 0, 1) \in EpsonMoments
    BY <1>2, <2>4, <2>5, AfterTypes
  <2> QED BY <2>4, <2>6, LaterIsAfter
<1>6. now' \in EpsonTimes
  <2> HIDE DEF x
  <2> QED BY <1>1, <1>3, SecondTypes
<1>7. due' \in EpsonMoments
  <2> HIDE DEF d
  <2> QED BY <1>1, <1>5
<1>8. holdtick' => hold'
  BY <1>1 DEF HeldTick
<1>9. ASSUME ~excused', ~holdtick
      PROVE  /\ EpsonValid(now')
             /\ due' = IF holdtick' THEN After(now'.calendar, Shown(now'), 0, 1) ELSE Shown(now')
  <2>1. EpsonValid(now) /\ due = Shown(now)
    BY <1>1, <1>9
  <2>2. EpsonValid(x) /\ d = Shown(x)
    <3>1. CASE rounds
      <4>1. due[2] = EpsonSeconds(now)
        BY <1>1, <2>1, ShownTypes
      <4>2. Moves(now, x, k)
        BY <1>1, <2>1, <3>1, <4>1, RoundMoves
      <4>3. k \in Int
        BY <1>1, <2>1, <4>1, DayTime
      <4> HIDE DEF k, x
      <4>4. Passed(now, x, 0, k)
        BY <1>1, <2>1, <4>2, <4>3, MovesShow
      <4> QED BY <1>4, <2>1, <3>1, <4>4 DEF Passed
    <3>2. CASE ~rounds
      BY <2>1, <3>2
    <3> QED BY <3>1, <3>2
  <2>3. x.calendar = c
    BY <1>3 DEF SameRules
  <2> HIDE DEF x, d
  <2>4. CASE TicksNow
    <3>1. now' = TickSecond(x) /\ due' = After(c, Shown(x), 0, 1) /\ ~holdtick'
      BY <1>1, <1>9, <2>2, <2>4, LaterIsAfter DEF TicksNow, HeldTick
    <3>2. Passed(x, TickSecond(x), 0, 1)
      BY <1>3, <2>2, SecondMoves, MovesShow
    <3> QED BY <2>3, <3>1, <3>2 DEF Passed
  <2>5. CASE ~TicksNow /\ HeldTick
    <3>1. now' = x /\ due' = After(c, Shown(x), 0, 1) /\ holdtick'
      BY <1>1, <2>2, <2>5, LaterIsAfter
    <3> QED BY <2>2, <2>3, <3>1
  <2>6. CASE ~TicksNow /\ ~HeldTick
    <3>1. now' = x /\ due' = Shown(x) /\ ~holdtick'
      BY <1>1, <1>9, <2>2, <2>6
    <3> QED BY <2>2, <3>1
  <2> QED BY <2>4, <2>5, <2>6
<1>10. ASSUME ~excused', holdtick
       PROVE  /\ EpsonValid(now')
              /\ due' = IF holdtick' THEN After(now'.calendar, Shown(now'), 0, 1) ELSE Shown(now')
  <2>1. ~rounds /\ ~HeldTick /\ ~TicksNow
    BY <1>1, <1>10 DEF TicksNow
  <2>2. now' = now /\ due' = due /\ holdtick'
    BY <1>1, <1>10, <2>1
  <2> QED BY <1>1, <1>10, <2>2
<1> QED BY <1>6, <1>7, <1>8, <1>9, <1>10 DEF EpsonShows

\* A clock of the chip keeps the invariant: EpsonMainShows for the time, and the rest.
LEMMA EpsonMainKeeps == ASSUME EpsonInv, EpsonMain PROVE EpsonInv'
<1>1. /\ now' \in EpsonTimes /\ due' \in EpsonMoments
      /\ EpsonShows'
      /\ holdtick' => hold'
  BY EpsonMainShows
<1>2. EpsonFlagsOK'
  <2>1. /\ ready' \in BOOLEAN /\ roundseconds' \in BOOLEAN /\ irqflag' \in BOOLEAN /\ resync' \in BOOLEAN
        /\ holdtick' \in BOOLEAN /\ ticked' \in BOOLEAN /\ excused' \in BOOLEAN
    BY DEF EpsonMain, Resyncs
  <2>2. UNCHANGED <<hold, pause, stop, irqduty>>
    BY DEF EpsonMain
  <2> QED BY <2>1, <2>2 DEF EpsonInv, EpsonFlagsOK
<1>3. EpsonCountsOK'
  <2>1. clocks' \in 0..(EpsonSecond - 1)
    BY EpsonAssumption DEF EpsonInv, EpsonCountsOK, EpsonMain, clock1
  <2>2. wait' \in 0..AccessWait
    BY EpsonAssumption DEF EpsonInv, EpsonCountsOK, EpsonMain
  <2>3. seconds' \in 0..(60 * 24 - 1)
    <3>1. PICK s \in 0..(60 * 24 - 1) : s = seconds
      BY DEF EpsonInv, EpsonCountsOK
    <3>2. seconds' = IF 3 \in Periods THEN 0 ELSE second1
      BY DEF EpsonMain
    <3>3. second1 = s \/ (second1 = s + 1 /\ clock1 = 0)
      BY <3>1 DEF second1
    <3>4. CASE second1 = 60 * 24 /\ clock1 = 0
      <4>1. second1 % (60 * 24) = 0
        BY <3>4
      <4>2. 3 \in Periods
        BY <3>4, <4>1 DEF Periods
      <4> QED BY <3>2, <4>2
    <3>5. CASE second1 \in 0..(60 * 24 - 1)
      BY <3>2, <3>5
    <3>6. s \in 0..(60 * 24 - 1) /\ (s + 1 \in 0..(60 * 24 - 1) \/ s + 1 = 60 * 24)
      OBVIOUS
    <3> QED BY <3>3, <3>4, <3>5, <3>6
  <2> QED BY <2>1, <2>2, <2>3 DEF EpsonInv, EpsonCountsOK, EpsonMain
<1>4. EpsonBusOK'
  BY DEF EpsonInv, EpsonBusOK, EpsonMain
<1> QED BY <1>1, <1>2, <1>3, <1>4 DEF EpsonInv

\* What the program does that is not writing leaves digits and due time alone.
LEMMA EpsonAccessKeeps ==
  ASSUME EpsonInv, \/ \E data \in {0, 1} : Select(data)
                   \/ \E data \in {3, 12} : Command(data)
                   \/ \E addr \in Offsets : Seek(addr)
                   \/ ReadDigit
  PROVE  EpsonInv'
<1>1. UNCHANGED <<now, holdtick, hold, due, excused>>
  BY DEF Select, Command, Seek, ReadDigit, holdVars, dueVars
<1>2. EpsonFlagsOK'
  <2>1. ready' \in BOOLEAN /\ resync' \in BOOLEAN /\ pause' \in BOOLEAN
    BY DEF EpsonInv, EpsonFlagsOK, Select, Command, Seek, ReadDigit, holdVars, Used
  <2>2. irqflag' \in BOOLEAN /\ ticked' \in BOOLEAN
    BY DEF EpsonInv, EpsonFlagsOK, Select, Command, Seek, ReadDigit, irqVars
  <2>3. UNCHANGED <<roundseconds, stop, irqduty>>
    BY DEF Select, Command, Seek, ReadDigit, holdVars, irqVars
  <2> QED BY <1>1, <2>1, <2>2, <2>3 DEF EpsonInv, EpsonFlagsOK
<1>3. EpsonCountsOK'
  BY EpsonAssumption
     DEF EpsonInv, EpsonCountsOK, Select, Command, Seek, ReadDigit, holdVars, irqVars, dueVars, Used
<1>4. EpsonBusOK'
  <2>1. \A o \in Digit : (o + 1) % 16 \in Digit
    BY DEF Digit
  <2> QED BY <2>1, EpsonAssumption, EpsonSmall DEF EpsonInv, EpsonBusOK, Select, Command, Seek, ReadDigit
<1> QED BY <1>1, <1>2, <1>3, <1>4 DEF EpsonInv, EpsonShows

\* Bits of what is written.
LEMMA EpsonBits ==
  ASSUME NEW data \in Digit
  PROVE  /\ Bit(data, 1) \in 0..1 /\ Bit(data, 2) \in 0..1 /\ Bit(data, 4) \in 0..1 /\ Bit(data, 8) \in 0..1
         /\ data % 8 \in 0..7 /\ data % 4 \in 0..3 /\ data % 2 \in 0..1 /\ data % 2 \in 0..3
         /\ data \div 4 \in 0..3
BY DEF Bit, Digit

\* A digit that is written belongs to a time.
LEMMA DigitTypes ==
  ASSUME EpsonInv, NEW addr, NEW data \in Digit, WriteDigits(addr, data)
  PROVE  now' \in EpsonTimes
<1>1. now \in EpsonTimes /\ addr \in 0..12
  BY DEF EpsonInv, WriteDigits
<1>2. PICK d8 \in 0..7, d4 \in 0..3, d2 \in 0..1, d3 \in 0..3, m \in 0..1, z \in 0..1 :
        /\ d8 = data % 8 /\ d4 = data % 4 /\ d2 = data % 2 /\ d3 = data % 2
        /\ m = Bit(data, 4) /\ z = 0
  BY EpsonBits
<1>3. addr \in {0, 1, 2, 3, 4, 5, 6, 7, 8, 9, 10, 11, 12}
  BY <1>1
<1>4. CASE addr = 0
  <2>1. now' = [now EXCEPT !.secondlo = data]
    BY <1>2, <1>4 DEF WriteDigits
  <2> QED BY <1>1, <2>1 DEF EpsonTimes
<1>5. CASE addr = 1
  <2>1. now' = [now EXCEPT !.secondhi = d8]
    BY <1>2, <1>5 DEF WriteDigits
  <2> QED BY <1>1, <2>1 DEF EpsonTimes
<1>6. CASE addr = 2
  <2>1. now' = [now EXCEPT !.minutelo = data]
    BY <1>2, <1>6 DEF WriteDigits
  <2> QED BY <1>1, <2>1 DEF EpsonTimes
<1>7. CASE addr = 3
  <2>1. now' = [now EXCEPT !.minutehi = d8]
    BY <1>2, <1>7 DEF WriteDigits
  <2> QED BY <1>1, <2>1 DEF EpsonTimes
<1>8. CASE addr = 4
  <2>1. now' = [now EXCEPT !.hourlo = data]
    BY <1>2, <1>8 DEF WriteDigits
  <2> QED BY <1>1, <2>1 DEF EpsonTimes
<1>9. CASE addr = 5
  <2>1. now' = [now EXCEPT !.hourhi = d4, !.meridian = z] \/ now' = [now EXCEPT !.hourhi = d3, !.meridian = m]
    BY <1>2, <1>9 DEF WriteDigits
  <2>2. [now EXCEPT !.hourhi = d4, !.meridian = z] \in EpsonTimes
    BY <1>1 DEF EpsonTimes
  <2>3. [now EXCEPT !.hourhi = d3, !.meridian = m] \in EpsonTimes
    BY <1>1 DEF EpsonTimes
  <2> QED BY <2>1, <2>2, <2>3
<1>10. CASE addr = 6
  <2>1. now' = [now EXCEPT !.daylo = data]
    BY <1>2, <1>10 DEF WriteDigits
  <2> QED BY <1>1, <2>1 DEF EpsonTimes
<1>11. CASE addr = 7
  <2>1. now' = [now EXCEPT !.dayhi = d4]
    BY <1>2, <1>11 DEF WriteDigits
  <2> QED BY <1>1, <2>1 DEF EpsonTimes
<1>12. CASE addr = 8
  <2>1. now' = [now EXCEPT !.monthlo = data]
    BY <1>2, <1>12 DEF WriteDigits
  <2> QED BY <1>1, <2>1 DEF EpsonTimes
<1>13. CASE addr = 9
  <2>1. now' = [now EXCEPT !.monthhi = d2]
    BY <1>2, <1>13 DEF WriteDigits
  <2> QED BY <1>1, <2>1 DEF EpsonTimes
<1>14. CASE addr = 10
  <2>1. now' = [now EXCEPT !.yearlo = data]
    BY <1>2, <1>14 DEF WriteDigits
  <2> QED BY <1>1, <2>1 DEF EpsonTimes
<1>15. CASE addr = 11
  <2>1. now' = [now EXCEPT !.yearhi = data]
    BY <1>2, <1>15 DEF WriteDigits
  <2> QED BY <1>1, <2>1 DEF EpsonTimes
<1>16. CASE addr = 12
  <2>1. now' = [now EXCEPT !.weekday = d8]
    BY <1>2, <1>16 DEF WriteDigits
  <2> QED BY <1>1, <2>1 DEF EpsonTimes
<1> QED BY <1>3, <1>4, <1>5, <1>6, <1>7, <1>8, <1>9, <1>10, <1>11, <1>12, <1>13, <1>14, <1>15, <1>16

\* What is written sets the time from then on, unless a second is held back.
LEMMA SetsKeep ==
  ASSUME EpsonInv, now' \in EpsonTimes, Sets(now', holdtick), holdtick' => holdtick
  PROVE  /\ due' \in EpsonMoments /\ excused' \in BOOLEAN
         /\ EpsonShows'
BY ShownTypes DEF Sets, EpsonShows

\* A digit that is written sets the time that is due.
LEMMA WriteDigitsKeeps ==
  ASSUME EpsonInv, NEW addr, NEW data \in Digit, WriteDigits(addr, data)
  PROVE  /\ now' \in EpsonTimes /\ due' \in EpsonMoments /\ excused' \in BOOLEAN
         /\ EpsonShows'
         /\ holdtick' => hold'
<1>1. now' \in EpsonTimes
  BY DigitTypes
<1>2. Sets(now', holdtick) /\ holdtick' = holdtick /\ hold' = hold
  BY DEF WriteDigits, holdVars
<1> QED BY <1>1, <1>2, SetsKeep DEF EpsonInv

\* The write that ends a hold makes up for the second held back, if there was one.
LEMMA WriteHoldKeeps ==
  ASSUME EpsonInv, NEW data \in Digit, WriteHold(data)
  PROVE  /\ now' \in EpsonTimes /\ due' \in EpsonMoments /\ excused' \in BOOLEAN
         /\ EpsonShows'
         /\ holdtick' => hold'
<1> DEFINE dueShown == IF holdtick THEN After(now.calendar, Shown(now), 0, 1) ELSE Shown(now)
           held == [now EXCEPT !.calendar = Bit(data, 2)]
           catch == hold /\ Bit(data, 1) = 0 /\ holdtick
<1>1. /\ (hold' <=> Bit(data, 1) = 1) /\ now' = IF catch THEN TickSecond(held) ELSE held
      /\ (holdtick' <=> holdtick /\ ~catch) /\ holdtick' \in BOOLEAN
      /\ (held # now => Sets(now', holdtick)) /\ (held = now => due' = due /\ excused' = excused)
  BY DEF WriteHold, dueVars
<1>2. Bit(data, 1) \in 0..1 /\ Bit(data, 2) \in 0..1
  BY EpsonBits
<1>3. held \in EpsonTimes
  BY <1>2 DEF EpsonInv, EpsonTimes
<1> HIDE DEF held
<1>4. now' \in EpsonTimes
  BY <1>1, <1>3, SecondTypes
<1>5. holdtick' => hold'
  BY <1>1, <1>2 DEF EpsonInv
<1>6. CASE held # now
  BY <1>1, <1>4, <1>5, <1>6, SetsKeep
<1>7. CASE held = now
  <2>1. due' \in EpsonMoments /\ excused' \in BOOLEAN
    BY <1>1, <1>7 DEF EpsonInv, EpsonFlagsOK
  <2>2. ASSUME ~excused' PROVE EpsonValid(now) /\ due' = dueShown
    BY <1>1, <1>7, <2>2 DEF EpsonInv, EpsonShows
  <2>3. CASE catch
    <3>1. ASSUME ~excused' PROVE EpsonValid(now') /\ due' = Shown(now')
      <4>1. /\ now' = TickSecond(now) /\ EpsonValid(now) /\ now \in EpsonTimes
            /\ due' = After(now.calendar, Shown(now), 0, 1)
        BY <1>1, <1>7, <2>2, <2>3, <3>1 DEF EpsonInv
      <4>2. Passed(now, TickSecond(now), 0, 1)
        BY <4>1, SecondMoves, MovesShow
      <4> QED BY <4>1, <4>2 DEF Passed
    <3> QED BY <1>1, <1>4, <1>5, <2>1, <2>3, <3>1 DEF EpsonShows
  <2>4. CASE ~catch
    BY <1>1, <1>4, <1>5, <1>7, <2>1, <2>2, <2>4 DEF EpsonShows
  <2> QED BY <2>3, <2>4
<1> QED BY <1>6, <1>7

\* Stopping the chip, resetting it or changing its hours sets the time that is due.
LEMMA WriteStopKeeps ==
  ASSUME EpsonInv, NEW data \in Digit, WriteStop(data)
  PROVE  /\ now' \in EpsonTimes /\ due' \in EpsonMoments /\ excused' \in BOOLEAN
         /\ EpsonShows'
         /\ holdtick' => hold'
<1> DEFINE mask == IF Bit(data, 4) = 1 THEN [now EXCEPT !.atime = 1, !.meridian = 0]
                   ELSE [now EXCEPT !.atime = 0, !.hourhi = @ % 2]
           zero == [mask EXCEPT !.secondlo = 0, !.secondhi = 0]
<1>1. /\ now' = (IF Bit(data, 1) = 1 THEN zero ELSE mask) /\ holdtick' = holdtick /\ hold' = hold
      /\ (now' # now => Sets(now', holdtick)) /\ (now' = now => due' = due /\ excused' = excused)
  BY DEF WriteStop, dueVars
<1>2. mask \in EpsonTimes
  <2>1. now \in EpsonTimes
    BY DEF EpsonInv
  <2>2. PICK h \in 0..3, a \in 0..1, b \in 0..1 : h = now.hourhi % 2 /\ a = 0 /\ b = 1
    BY <2>1, EpsonFields
  <2>3. [now EXCEPT !.atime = b, !.meridian = a] \in EpsonTimes
    BY <2>1 DEF EpsonTimes
  <2>4. [now EXCEPT !.atime = a, !.hourhi = h] \in EpsonTimes
    BY <2>1 DEF EpsonTimes
  <2>5. [now EXCEPT !.atime = a, !.hourhi = h] = [now EXCEPT !.atime = 0, !.hourhi = @ % 2]
    BY <2>1, <2>2 DEF EpsonTimes
  <2> QED BY <2>2, <2>3, <2>4, <2>5
<1> HIDE DEF mask
<1>3. zero \in EpsonTimes
  <2>1. ASSUME NEW a \in Digit, NEW b \in 0..7
        PROVE  [mask EXCEPT !.secondlo = a, !.secondhi = b] \in EpsonTimes
    BY <1>2 DEF EpsonTimes
  <2>2. 0 \in 0..7
    OBVIOUS
  <2> QED BY <2>1, <2>2, EpsonSmall, Zenon
<1> HIDE DEF zero
<1>4. now' \in EpsonTimes
  BY <1>1, <1>2, <1>3
<1>5. CASE now' # now
  BY <1>1, <1>4, <1>5, SetsKeep DEF EpsonInv
<1>6. CASE now' = now
  BY <1>1, <1>4, <1>6 DEF EpsonInv, EpsonShows, EpsonFlagsOK
<1> QED BY <1>5, <1>6

\* A write to the selected register keeps the invariant.
LEMMA WriteDigitKeeps == ASSUME EpsonInv, WriteDigit PROVE EpsonInv'
<1>1. PICK w \in Writes : \/ WriteDigits(offset, w[2])
                          \/ offset = 13 /\ WriteHold(w[2])
                          \/ offset = 14 /\ WriteIrq(w[2])
                          \/ offset = 15 /\ WriteStop(w[2])
  BY DEF WriteDigit
<1>2. PICK data \in Digit : data = w[2]
  BY EpsonAssumption
<1>3. WriteDigits(offset, data) \/ WriteHold(data) \/ WriteIrq(data) \/ WriteStop(data)
  BY <1>1, <1>2
<1>4. /\ now' \in EpsonTimes /\ due' \in EpsonMoments /\ excused' \in BOOLEAN
      /\ EpsonShows'
      /\ holdtick' => hold'
  <2>1. CASE WriteIrq(data)
    BY <2>1 DEF WriteIrq, holdVars, dueVars, EpsonInv, EpsonShows, EpsonFlagsOK
  <2> QED BY <1>3, <2>1, WriteDigitsKeeps, WriteHoldKeeps, WriteStopKeeps
<1>5. /\ holdtick' \in BOOLEAN /\ hold' \in BOOLEAN /\ roundseconds' \in BOOLEAN /\ pause' \in BOOLEAN
      /\ stop' \in BOOLEAN
  <2>1. CASE WriteDigits(offset, data)
    BY <2>1 DEF WriteDigits, holdVars, EpsonInv, EpsonFlagsOK
  <2>2. CASE WriteHold(data)
    BY <2>2 DEF WriteHold, EpsonInv, EpsonFlagsOK
  <2>3. CASE WriteIrq(data)
    BY <2>3 DEF WriteIrq, holdVars, EpsonInv, EpsonFlagsOK
  <2>4. CASE WriteStop(data)
    BY <2>4 DEF WriteStop, EpsonInv, EpsonFlagsOK
  <2> QED BY <1>3, <2>1, <2>2, <2>3, <2>4
<1>6. irqflag' \in BOOLEAN /\ irqduty' \in BOOLEAN /\ irqperiod' \in 0..3
  <2>1. data \div 4 \in 0..3
    BY EpsonBits
  <2> QED BY <1>3, <2>1 DEF WriteDigits, WriteHold, WriteIrq, WriteStop, irqVars, EpsonInv,
    EpsonFlagsOK, EpsonCountsOK
<1>7. EpsonFlagsOK'
  <2>1. ready' \in BOOLEAN /\ resync' \in BOOLEAN /\ ticked' \in BOOLEAN
    BY DEF WriteDigit, Used, EpsonInv, EpsonFlagsOK
  <2> QED BY <1>4, <1>5, <1>6, <2>1 DEF EpsonFlagsOK
<1>8. EpsonCountsOK'
  BY <1>6, EpsonAssumption DEF WriteDigit, Used, EpsonInv, EpsonCountsOK
<1>9. EpsonBusOK'
  <2>1. \A o \in Digit : (o + 1) % 16 \in Digit
    BY DEF Digit
  <2> QED BY <2>1 DEF WriteDigit, EpsonInv, EpsonBusOK
<1> QED BY <1>4, <1>7, <1>8, <1>9 DEF EpsonInv

\* The digits after a load are digits, a date or not.
LEMMA CatchUpTypes ==
  ASSUME NEW t \in EpsonTimes, NEW away \in Nat \X Nat \X Nat \X Nat
  PROVE  CatchUp(t, away) \in EpsonTimes
<1>1. PICK a \in Nat, b \in Nat, c \in Nat, d \in Nat :
        a = away[1] /\ b = away[2] /\ c = away[3] /\ d = away[4]
  OBVIOUS
<1>2. /\ TickDays \in [EpsonTimes -> EpsonTimes] /\ TickHours \in [EpsonTimes -> EpsonTimes]
      /\ TickMinutes \in [EpsonTimes -> EpsonTimes] /\ TickSeconds \in [EpsonTimes -> EpsonTimes]
  BY DayTypes, HourTypes, MinuteTypes, SecondTypes DEF TickDays, TickHours, TickMinutes, TickSeconds
<1>3. Times(TickDays, a, t) \in EpsonTimes
  BY <1>2, TimesRuns DEF Runs
<1>4. Times(TickHours, b, Times(TickDays, a, t)) \in EpsonTimes
  BY <1>2, <1>3, TimesRuns DEF Runs
<1>5. Times(TickMinutes, c, Times(TickHours, b, Times(TickDays, a, t))) \in EpsonTimes
  BY <1>2, <1>4, TimesRuns DEF Runs
<1>6. Times(TickSeconds, d, Times(TickMinutes, c, Times(TickHours, b, Times(TickDays, a, t)))) \in EpsonTimes
  BY <1>2, <1>5, TimesRuns DEF Runs
<1> QED BY <1>1, <1>6 DEF CatchUp

\* What a restart makes up for is the time away: CatchUpPasses.
LEMMA EpsonRestartKeeps == ASSUME EpsonInv, Restart PROVE EpsonInv'
<1>1. PICK away \in Away :
        /\ now' = CatchUp(now, away)
        /\ due' = Later(due, away[1], 60 * 60 * away[2] + 60 * away[3] + away[4])
  BY DEF Restart
<1>2. away \in Nat \X Nat \X Nat \X Nat /\ now \in EpsonTimes /\ due \in EpsonMoments
  BY EpsonAssumption DEF EpsonInv
<1>3. PICK d \in Nat, n \in Nat : d = away[1] /\ n = 60 * 60 * away[2] + 60 * away[3] + away[4]
  BY <1>2
<1>4. due' = After(now.calendar, due, d, n)
  BY <1>1, <1>3, LaterIsAfter
<1>5. now' \in EpsonTimes
  BY <1>1, <1>2, CatchUpTypes
<1>6. due' \in EpsonMoments
  <2>1. due[2] + n \in Nat /\ now.calendar \in 0..1
    BY <1>2, EpsonFields DEF EpsonMoments
  <2> QED BY <1>2, <1>4, <2>1, AfterTypes
<1>7. (excused' <=> excused \/ holdtick) /\ excused' \in BOOLEAN /\ holdtick' = FALSE
  BY DEF Restart
<1>8. ASSUME ~excused' PROVE EpsonValid(now') /\ due' = Shown(now')
  <2>1. EpsonValid(now) /\ due = Shown(now)
    BY <1>7, <1>8 DEF EpsonInv, EpsonShows
  <2>2. Passed(now, now', d, n)
    BY <1>1, <1>2, <1>3, <2>1, CatchUpPasses
  <2> QED BY <1>4, <2>1, <2>2 DEF Passed
<1>9. EpsonFlagsOK'
  BY <1>7 DEF Restart, EpsonInv, EpsonFlagsOK, irqVars
<1>10. EpsonCountsOK'
  BY EpsonAssumption DEF Restart, EpsonInv, EpsonCountsOK, irqVars
<1>11. EpsonBusOK'
  BY EpsonSmall DEF Restart, EpsonBusOK
<1> QED BY <1>5, <1>6, <1>7, <1>8, <1>9, <1>10, <1>11 DEF EpsonInv, EpsonShows

\* Every step keeps the invariant.
LEMMA EpsonInductive == EpsonInv /\ [EpsonNext]_epsonVars => EpsonInv'
<1> SUFFICES ASSUME EpsonInv, [EpsonNext]_epsonVars PROVE EpsonInv'
  OBVIOUS
<1>1. CASE EpsonMain
  BY <1>1, EpsonMainKeeps
<1>2. CASE Program
  BY <1>2, EpsonAccessKeeps, WriteDigitKeeps DEF Program
<1>3. CASE Restart
  BY <1>3, EpsonRestartKeeps
<1>4. CASE UNCHANGED epsonVars
  BY <1>4 DEF epsonVars, busVars, holdVars, irqVars, dueVars, EpsonInv, EpsonShows, EpsonFlagsOK,
    EpsonCountsOK, EpsonBusOK
<1> QED BY <1>1, <1>2, <1>3, <1>4 DEF EpsonNext

\* Seconds, roundings, held seconds, writes and restarts together keep the digits at
\* the time of the reference calendar, for every date, time and time away.
THEOREM EpsonClockKeepsTime == EpsonSpec => []ClockKeepsTime
<1>1. EpsonInit => EpsonInv
  BY EpsonStartsShown
<1> QED BY <1>1, EpsonInductive, EpsonInvTime, PTL DEF EpsonSpec

\* The Epson clock's variables keep their types.
THEOREM EpsonTypes == EpsonSpec => []EpsonTypeOK
<1>1. EpsonInit => EpsonInv
  BY EpsonStartsShown
<1> QED BY <1>1, EpsonInductive, EpsonInvTypes, PTL DEF EpsonSpec
=============================================================================
