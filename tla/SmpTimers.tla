----------------------------- MODULE SmpTimers -----------------------------
(***************************************************************************)
(* The three timers of the S-SMP (sfc/smp/timing.cpp, sfc/smp/io.cpp).     *)
(*                                                                         *)
(* Every bus cycle of the SMP advances all three timers by the same number *)
(* of clocks.  Stage 0 divides by the timer's frequency, stage 1 is the    *)
(* square wave that gives, the falling edges of its gated copy "line" are  *)
(* counted by stage 2 up to the target, and stage 3 is what a program      *)
(* reads, and by reading clears, at $fd-$ff.                               *)
(*                                                                         *)
(* A definition whose name ends in _ and a word is a faulty variant of the *)
(* definition that follows it.                                             *)
(***************************************************************************)
EXTENDS Integers

CONSTANTS
  Timer,      \* timer0, timer1 and timer2
  Inverted,   \* the timers for which writeIO negates enable.raise(): timer2
  Frequency,  \* the template argument: 128, 128 and 16
  Waits,      \* clocks of a bus cycle: timerWaitStates, whole and halved
  Target,     \* the values a program may write to $fa-$fc
  Stage2Size, \* bound: stage2 is 8 bits wide in the code, 256 values
  Stage3Size  \* bound: stage3 is 4 bits wide in the code, 16 values

ASSUME TimerAssumption ==
  /\ Inverted \subseteq Timer
  /\ Frequency \in [Timer -> Nat \ {0}]
  /\ Stage2Size \in Nat \ {0} /\ Stage3Size \in Nat \ {0}
  /\ Target \subseteq 0..(Stage2Size - 1)
\* No bus cycle is longer than one period of stage 0: 16 clocks at most.
ASSUME WaitsAssumption ==
  /\ Waits \subseteq Nat \ {0}
  /\ \A n \in Waits, t \in Timer : n <= Frequency[t]

VARIABLES
  stage0, stage1, stage2, stage3, target, \* struct Timer, of each timer
  line, enable,                           \* the timers for which these are set
  timersEnable, timersDisable,            \* $f0
  elapsed,   \* history: clocks since power on, to the timer's own double period
  retargeted \* history: timers whose target was written since they were enabled

clocking == <<stage0, stage1, elapsed>>
counting == <<stage2, stage3>>
test     == <<timersEnable, timersDisable>>
vars == <<clocking, counting, line, enable, target, test, retargeted>>

TypeOK ==
  /\ stage0 \in [Timer -> Nat] /\ \A t \in Timer : stage0[t] < Frequency[t]
  /\ stage1 \in [Timer -> {0, 1}]
  /\ stage2 \in [Timer -> 0..(Stage2Size - 1)]
  /\ stage3 \in [Timer -> 0..(Stage3Size - 1)]
  /\ line \subseteq Timer /\ enable \subseteq Timer
  /\ target \in [Timer -> Target \cup {0}]
  /\ timersEnable \in BOOLEAN /\ timersDisable \in BOOLEAN
  /\ elapsed \in [Timer -> Nat] /\ retargeted \subseteq Timer

-----------------------------------------------------------------------------
(* Timer::synchronizeStage1.                                               *)

\* Stage 1 is seen through the two switches of $f0: the timers whose level is 1.
level(s1, on, off) == {t \in Timer : s1[t] = 1 /\ on /\ ~off}

next2(t) == (stage2[t] + 1) % Stage2Size
Expires_Late(t) == stage2[t] = target[t]
Expires(t) == next2(t) = target[t]

\* The timers in S look at their line again; each counts a 1->0 transition.
synchronizeStage1(S, high) ==
  LET counts == {t \in S \cap enable : t \in line /\ t \notin high}
  IN  /\ line' = (line \ S) \cup (S \cap high)
      /\ stage2' = [t \in Timer |->
           IF t \notin counts THEN stage2[t] ELSE IF Expires(t) THEN 0 ELSE next2(t)]
      /\ stage3' = [t \in Timer |->
           IF t \in counts /\ Expires(t) THEN (stage3[t] + 1) % Stage3Size ELSE stage3[t]]

-----------------------------------------------------------------------------
(* The operations of the SMP's bus cycles.                                 *)

\* stepTimers(clocks), called by wait and waitIdle: what is left of a period
\* of stage 0 goes into the next one.
Left_Carried(t, clocks) == stage0[t] + clocks
Left_Dropped(t, clocks) ==
  IF stage0[t] + clocks < Frequency[t] THEN stage0[t] + clocks ELSE 0
Left(t, clocks) ==
  IF stage0[t] + clocks < Frequency[t] THEN stage0[t] + clocks
                                       ELSE stage0[t] + clocks - Frequency[t]

stepTimers(clocks) ==
  LET wraps == {t \in Timer : stage0[t] + clocks >= Frequency[t]}
      s1 == [t \in Timer |-> IF t \in wraps THEN 1 - stage1[t] ELSE stage1[t]]
  IN  /\ stage0' = [t \in Timer |-> Left(t, clocks)]
      /\ stage1' = s1
      /\ synchronizeStage1(wraps, level(s1, timersEnable, timersDisable))
      /\ elapsed' = [t \in Timer |->
           IF elapsed[t] + clocks < 2 * Frequency[t]
           THEN elapsed[t] + clocks ELSE elapsed[t] + clocks - 2 * Frequency[t]]
      /\ UNCHANGED <<enable, target, test, retargeted>>

\* $f0, with the P flag clear: the switches, and every timer's line at once.
WriteTest_LineStale(on, off) ==
  /\ timersEnable' = on /\ timersDisable' = off
  /\ UNCHANGED <<clocking, counting, line, enable, target, retargeted>>
WriteTest(on, off) ==
  /\ timersEnable' = on /\ timersDisable' = off
  /\ synchronizeStage1(Timer, level(stage1, on, off))
  /\ UNCHANGED <<clocking, enable, target, retargeted>>

\* $f1: enable.raise(on) stores the bit and tells a 0->1 transition, which
\* clears the counters; for the timers in Inverted everything else does.
Rises(t, on) == t \in on /\ t \notin enable
Clears_OnlyRise(t, on) == t \notin Inverted /\ Rises(t, on)
Clears(t, on) == IF t \in Inverted THEN ~Rises(t, on) ELSE Rises(t, on)

WriteControl(on) ==
  /\ enable' = on
  /\ stage2' = [t \in Timer |-> IF Clears(t, on) THEN 0 ELSE stage2[t]]
  /\ stage3' = [t \in Timer |-> IF Clears(t, on) THEN 0 ELSE stage3[t]]
  /\ retargeted' = {t \in retargeted : ~Rises(t, on)}
  /\ UNCHANGED <<clocking, line, target, test>>

WriteTarget(t, x) == \* $fa-$fc
  /\ target' = [target EXCEPT ![t] = x]
  /\ retargeted' = retargeted \cup {t}
  /\ UNCHANGED <<clocking, counting, line, enable, test>>

ReadOut(t) == \* $fd-$ff
  /\ stage3' = [stage3 EXCEPT ![t] = 0]
  /\ UNCHANGED <<clocking, stage2, line, enable, target, test, retargeted>>

\* SMP::power: io = {}, timer0 = {}, timer1 = {}, timer2 = {}.
Zeros == [t \in Timer |-> 0]

power ==
  /\ stage0' = Zeros /\ stage1' = Zeros /\ stage2' = Zeros /\ stage3' = Zeros
  /\ line' = {} /\ enable' = {} /\ target' = Zeros
  /\ timersEnable' = TRUE /\ timersDisable' = FALSE
  /\ elapsed' = Zeros /\ retargeted' = {}

Init ==
  /\ stage0 = Zeros /\ stage1 = Zeros /\ stage2 = Zeros /\ stage3 = Zeros
  /\ line = {} /\ enable = {} /\ target = Zeros
  /\ timersEnable = TRUE /\ timersDisable = FALSE
  /\ elapsed = Zeros /\ retargeted = {}

Next ==
  \/ \E clocks \in Waits : stepTimers(clocks)
  \/ \E on, off \in BOOLEAN : WriteTest(on, off)
  \/ \E on \in SUBSET Timer : WriteControl(on)
  \/ \E t \in Timer, x \in Target : WriteTarget(t, x)
  \/ \E t \in Timer : ReadOut(t)
  \/ power

Spec == Init /\ [][Next]_vars

-----------------------------------------------------------------------------
(* Correctness. *)

\* "line" is a copy of stage 1 and two switches, refreshed by whoever writes
\* one of them (Timer::step, $f0): it never shows an edge late.
LineFollows == line = level(stage1, timersEnable, timersDisable)

\* Stages 0 and 1 hold every clock since power on, whatever the wait states
\* and the writes: timers of one frequency never drift apart, and the fast
\* timer keeps its phase to the slow ones.
NoClockLost == \A t \in Timer :
  elapsed[t] = stage0[t] + IF stage1[t] = 1 THEN Frequency[t] ELSE 0

\* stage2 is compared for equality only: unless a program changes the target of
\* a running timer, the count stays below it (target 0 stands for the full
\* range), so that the first period is as long as all the others.
CountBelowTarget == \A t \in Timer \ retargeted :
  target[t] = 0 \/ stage2[t] < target[t]

\* A timer starts from zero when $f1 enables it, timer 2 included, which
\* writeIO does not clear at that moment but at every other write of $f1.
StartsFromZero ==
  [][\A t \in enable' \ enable : stage2'[t] = 0 /\ stage3'[t] = 0]_vars

\* What the comment in writeIO says ("0->1 transistion resets timers"): another
\* write of $f1 leaves a timer's counters alone.
OnlyRiseResets ==
  [][(\E on \in SUBSET Timer : WriteControl(on)) =>
       \A t \in Timer \ (enable' \ enable) :
         stage2'[t] = stage2[t] /\ stage3'[t] = stage3[t]]_vars

\* The inductive invariant: a timer of Inverted that is off holds no count.
OffMeansZero == \A t \in Inverted \ enable : stage2[t] = 0 /\ stage3[t] = 0

=============================================================================
