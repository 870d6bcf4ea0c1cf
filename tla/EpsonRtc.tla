------------------------------ MODULE EpsonRtc ------------------------------
(***************************************************************************)
(* The Epson RTC-4513 (sfc/coprocessor/epsonrtc): a thread that counts     *)
(* seconds in decimal digits, and the bus by which a program reads and     *)
(* sets them, one digit at a time, while they change.                      *)
(*                                                                         *)
(* Left out are bits that only store what a program wrote (dayram,         *)
(* monthram, batteryfailure, test, irqmask, mdr after the seek).           *)
(*                                                                         *)
(* A definition whose name ends in _ and a word is a faulty variant of the *)
(* definition that follows it.                                             *)
(***************************************************************************)
EXTENDS Powers

CONSTANTS
  EpsonSecond,    \* clocks per second: 2^21
  RoundWindow, DutyWindow, FlagWindow, \* the first 2^8, 2^14, 2^15 clocks of a second
  AccessWait,     \* clocks until the next access is ready: 8
  EpsonStarts,    \* what a new or a saved clock may show
  Offsets,        \* bound: the registers a program seeks
  Writes,         \* bound: what it writes, pairs of a register and a value
  Away,           \* days, hours, minutes and seconds without the emulator
  MaxSeconds,     \* bound: seconds that pass without a restart
  MaxRestarts     \* bound: restarts

Digit == 0..15
EpsonTimes ==
  [secondlo : Digit, secondhi : 0..7, minutelo : Digit, minutehi : 0..7,
   hourlo : Digit, hourhi : 0..3, meridian : 0..1, daylo : Digit, dayhi : 0..3,
   monthlo : Digit, monthhi : 0..1, yearlo : Digit, yearhi : Digit,
   weekday : 0..7, calendar : 0..1, atime : 0..1]

ASSUME EpsonAssumption ==
  /\ EpsonSecond \in Nat \ {0} /\ AccessWait \in Nat \ {0}
  /\ RoundWindow \in Nat /\ DutyWindow \in Nat /\ FlagWindow \in Nat
  /\ EpsonStarts \subseteq EpsonTimes /\ Away \subseteq Nat \X Nat \X Nat \X Nat
  /\ Offsets \subseteq Digit /\ Writes \subseteq Digit \X Digit

VARIABLES
  now,                           \* the digits, weekday, calendar and atime
  clocks, seconds,
  chipselect, mode, offset, wait, ready, \* mode is "state" in the code
  holdtick, resync, hold, roundseconds, pause, stop,
  irqflag, irqduty, irqperiod,
  restarts,
  ticked,     \* history: the clock has ticked since the program began to read
  due,        \* history: the day and the second of it that should be shown
  excused     \* history: the digits are not a date, or the program asked for
              \* more than one held second

busVars   == <<chipselect, mode, offset, wait, ready>>
holdVars  == <<holdtick, hold, roundseconds, pause, stop>>
irqVars   == <<irqflag, irqduty, irqperiod>>
dueVars   == <<due, excused>>
epsonVars == <<now, clocks, seconds, busVars, resync, holdVars, irqVars, restarts,
               ticked, dueVars>>

EpsonTypeOK ==
  /\ now \in EpsonTimes /\ clocks \in 0..(EpsonSecond - 1) /\ seconds \in 0..(60 * 24 - 1)
  /\ chipselect \in 0..1 /\ mode \in {"Mode", "SeekWrite", "SeekRead", "Read", "Write"}
  /\ offset \in Digit /\ wait \in 0..AccessWait
  /\ \A b \in {ready, holdtick, resync, hold, roundseconds, pause, stop, irqflag,
               irqduty, ticked, excused} : b \in BOOLEAN
  /\ irqperiod \in 0..3 /\ restarts \in Nat /\ due \in Nat \X Nat

-----------------------------------------------------------------------------
(* Time, digit by digit (time.cpp), with the invalid digits the chip takes. *)

Stays(lo)  == lo <= 8 \/ lo = 12 \* the digit goes up; otherwise it carries
Up(lo)     == (lo + 1) % 16
NotOdd(lo) == 1 - (lo % 2)

TickYear(t) ==
  IF Stays(t.yearlo) THEN [t EXCEPT !.yearlo = Up(@)]
  ELSE LET u == [t EXCEPT !.yearlo = NotOdd(@)]
       IN  IF Stays(t.yearhi) THEN [u EXCEPT !.yearhi = Up(@)]
           ELSE [u EXCEPT !.yearhi = NotOdd(@)]

TickMonth(t) ==
  IF t.monthhi = 0 \/ (t.monthlo \div 2) % 2 = 0
  THEN IF Stays(t.monthlo) THEN [t EXCEPT !.monthlo = Up(@)]
       ELSE [t EXCEPT !.monthlo = NotOdd(@), !.monthhi = 1 - @]
  ELSE TickYear([t EXCEPT !.monthlo = NotOdd(@), !.monthhi = 0])

\* By monthhi << 4 | monthlo: October to December are 16 to 18.
daysinmonth == <<30, 31, 28, 31, 30, 31, 30, 31, 31, 30, 31, 30, 31, 30, 31, 30,
                 31, 30, 31, 30, 31, 30, 31, 30, 31, 30, 31, 30, 31, 30, 31, 30>>
LeapYear(t) == (t.yearlo - IF t.yearhi % 2 = 0 THEN 0 ELSE 2) % 4 = 0
Days(t) == LET days == daysinmonth[16 * t.monthhi + t.monthlo + 1]
           IN  IF days = 28 /\ LeapYear(t) THEN 29 ELSE days

LastDay(t) ==
  CASE Days(t) = 28 -> t.dayhi = 3 \/ (t.dayhi = 2 /\ t.daylo >= 8)
    [] Days(t) = 29 -> t.dayhi = 3 \/ (t.dayhi = 2 /\ t.daylo > 8 /\ t.daylo # 12)
    [] Days(t) = 30 -> t.dayhi = 3 \/ (t.dayhi = 2 /\ t.daylo \in {10, 14})
    [] Days(t) = 31 -> t.dayhi = 3 /\ t.daylo % 4 # 0

TickDay(t) ==
  LET u == [t EXCEPT !.weekday = (@ + 1 + IF @ = 6 THEN 1 ELSE 0) % 8]
  IN  IF t.calendar = 0 THEN t
      ELSE IF LastDay(t) THEN TickMonth([u EXCEPT !.daylo = 1, !.dayhi = 0])
      ELSE IF Stays(t.daylo) THEN [u EXCEPT !.daylo = Up(@)]
      ELSE [u EXCEPT !.daylo = NotOdd(@), !.dayhi = (@ + 1) % 4]

\* atime counts to 23; otherwise 12, 1, ... 11 and the meridian, and hourhi has one bit.
TickHour24(t) ==
  IF t.hourhi < 2
  THEN IF Stays(t.hourlo) THEN [t EXCEPT !.hourlo = Up(@)]
       ELSE [t EXCEPT !.hourlo = NotOdd(@), !.hourhi = @ + 1]
  ELSE IF t.hourlo = 3 \/ (t.hourlo \div 4) % 2 = 1
  THEN TickDay([t EXCEPT !.hourlo = NotOdd(@), !.hourhi = 0])
  ELSE IF t.hourlo <= 8 THEN [t EXCEPT !.hourlo = Up(@)]
  ELSE [t EXCEPT !.hourlo = NotOdd(@), !.hourhi = (@ + 1) % 4]

TickHour12(t) ==
  IF t.hourhi = 0
  THEN IF Stays(t.hourlo) THEN [t EXCEPT !.hourlo = Up(@)]
       ELSE [t EXCEPT !.hourlo = NotOdd(@), !.hourhi = 1]
  ELSE LET u == IF t.hourlo % 2 = 1 THEN [t EXCEPT !.meridian = 1 - @] ELSE t
           w == IF t.hourlo \in {0, 1, 4, 5, 8, 12} THEN [u EXCEPT !.hourlo = Up(@)]
                ELSE [u EXCEPT !.hourlo = NotOdd(@), !.hourhi = 0]
       IN  IF w.meridian = 0 /\ w.hourlo % 2 = 0 THEN TickDay(w) ELSE w

TickHour(t) == IF t.atime = 1 THEN TickHour24(t) ELSE TickHour12(t)

TickMinute(t) ==
  IF Stays(t.minutelo) THEN [t EXCEPT !.minutelo = Up(@)]
  ELSE LET u == [t EXCEPT !.minutelo = 0]
       IN  IF t.minutehi < 5 THEN [u EXCEPT !.minutehi = @ + 1]
           ELSE TickHour([u EXCEPT !.minutehi = 0])

TickSecond(t) ==
  IF Stays(t.secondlo) THEN [t EXCEPT !.secondlo = Up(@)]
  ELSE LET u == [t EXCEPT !.secondlo = 0]
       IN  IF t.secondhi < 5 THEN [u EXCEPT !.secondhi = @ + 1]
           ELSE TickMinute([u EXCEPT !.secondhi = 0])

RoundSeconds(t) ==
  LET u == IF t.secondhi >= 3 THEN TickMinute(t) ELSE t
  IN  [u EXCEPT !.secondlo = 0, !.secondhi = 0]

-----------------------------------------------------------------------------
(* The reference: days since the first of a century, seconds of the day.    *)

BeforeMonth == <<0, 31, 59, 90, 120, 151, 181, 212, 243, 273, 304, 334>>
Century == 365 * 100 + 25
DaySeconds == 60 * 60 * 24

Year(t)  == 10 * t.yearhi + t.yearlo
Month(t) == 10 * t.monthhi + t.monthlo
Day(t)   == 10 * t.dayhi + t.daylo
Hour(t)  == LET h == 10 * t.hourhi + t.hourlo
            IN  IF t.atime = 1 THEN h ELSE (h % 12) + 12 * t.meridian

EpsonValid(t) ==
  /\ {t.secondlo, t.minutelo, t.hourlo, t.daylo, t.monthlo, t.yearlo, t.yearhi} \subseteq 0..9
  /\ t.secondhi <= 5 /\ t.minutehi <= 5 /\ t.weekday <= 6
  /\ LET h == 10 * t.hourhi + t.hourlo
     IN IF t.atime = 1 THEN h <= 23 /\ t.meridian = 0 ELSE h \in 1..12
  /\ Month(t) \in 1..12
  /\ Day(t) \in 1..(CASE Month(t) \in {4, 6, 9, 11} -> 30
                      [] Month(t) = 2 -> IF Year(t) % 4 = 0 THEN 29 ELSE 28
                      [] OTHER -> 31)

EpsonDay(t) ==
  365 * Year(t) + (Year(t) + 3) \div 4 + BeforeMonth[Month(t)] + Day(t) - 1
    + IF Month(t) > 2 /\ Year(t) % 4 = 0 THEN 1 ELSE 0
EpsonSeconds(t) ==
  60 * 60 * Hour(t) + 60 * (10 * t.minutehi + t.minutelo) + 10 * t.secondhi + t.secondlo
Shown(t) == IF EpsonValid(t) THEN <<EpsonDay(t), EpsonSeconds(t)>> ELSE <<0, 0>>

\* n seconds and d days later; the day stands still without "calendar".
Later(due0, d, n) ==
  <<(due0[1] + now.calendar * (d + (due0[2] + n) \div DaySeconds)) % Century,
    (due0[2] + n) % DaySeconds>>

\* What the program writes is the time from then on.
Sets(t, owed) == due' = Shown(t) /\ excused' = (owed \/ ~EpsonValid(t))

-----------------------------------------------------------------------------
(* EpsonRTC::main, one clock. *)

clock1  == (clocks + 1) % EpsonSecond
second1 == IF clock1 = 0 THEN seconds + 1 ELSE seconds
running == ~stop /\ ~pause

\* The periods whose irq() this clock calls.
Periods ==
  (IF clock1 < FlagWindow THEN {0} ELSE {}) \cup
  (IF clock1 # 0 THEN {}
   ELSE {1} \cup (IF second1 % 60 = 0 THEN {2} ELSE {})
            \cup (IF second1 % (60 * 24) = 0 THEN {3} ELSE {}))

rounds == clock1 < RoundWindow /\ roundseconds
TicksNow == clock1 = 0 /\ running /\ ~hold
HeldTick == clock1 = 0 /\ running /\ hold

RoundDue == LET n == due[2] % 60
            IN  IF n >= 30 THEN Later(due, 0, 60 - n) ELSE Later(due, 0, -n)
DueNow == LET d == IF rounds THEN RoundDue ELSE due
          IN  IF TicksNow \/ HeldTick THEN Later(d, 0, 1) ELSE d

Resyncs_OnMinute == resync \/ (TicksNow /\ now.secondhi = 5 /\ now.secondlo = 9)
Resyncs == resync \/ TicksNow

EpsonMain ==
  LET rounded == IF rounds THEN RoundSeconds(now) ELSE now
  IN  /\ clock1 = 0 => seconds < MaxSeconds
      /\ clocks' = clock1 /\ seconds' = IF 3 \in Periods THEN 0 ELSE second1
      /\ wait' = IF wait = 0 THEN 0 ELSE wait - 1
      /\ ready' = (ready \/ wait = 1)
      /\ roundseconds' = (roundseconds /\ ~rounds)
      /\ irqflag' = \/ irqflag /\ ~(irqduty /\ clock1 < DutyWindow)
                    \/ running /\ irqperiod \in Periods
      /\ now' = IF TicksNow THEN TickSecond(rounded) ELSE rounded
      /\ resync' = Resyncs /\ holdtick' = (holdtick \/ HeldTick)
      /\ ticked' = (ticked \/ TicksNow)
      /\ due' = DueNow
      /\ excused' = (excused \/ (holdtick /\ (HeldTick \/ rounds)))
      /\ UNCHANGED <<chipselect, mode, offset, hold, pause, stop, irqduty, irqperiod,
                     restarts>>

-----------------------------------------------------------------------------
(* The program: chip select, then a command, a register and digits. *)

Used == wait' = AccessWait /\ ready' = FALSE

\* rtcReset, when anything but 1 is selected; it forgets the pause, too.
Select(data) ==
  /\ chipselect' = data /\ ready' = TRUE
  /\ IF data = 1 THEN UNCHANGED <<mode, offset, resync, pause>>
     ELSE mode' = "Mode" /\ offset' = 0 /\ resync' = FALSE /\ pause' = FALSE
  /\ UNCHANGED <<now, clocks, seconds, wait, holdtick, hold, roundseconds, stop, irqVars,
                 restarts, ticked, dueVars>>

Command(data) ==
  /\ chipselect = 1 /\ ready /\ mode = "Mode"
  /\ mode' = (CASE data = 3 -> "SeekWrite" [] data = 12 -> "SeekRead") /\ Used
  /\ UNCHANGED <<now, clocks, seconds, chipselect, offset, resync, holdVars, irqVars,
                 restarts, ticked, dueVars>>

Seek(addr) ==
  /\ chipselect = 1 /\ ready /\ mode \in {"SeekWrite", "SeekRead"}
  /\ mode' = (IF mode = "SeekWrite" THEN "Write" ELSE "Read")
  /\ offset' = addr /\ ticked' = FALSE /\ Used
  /\ UNCHANGED <<now, clocks, seconds, chipselect, resync, holdVars, irqVars, restarts,
                 dueVars>>

ReadDigit ==
  /\ chipselect = 1 /\ ready /\ mode = "Read"
  /\ offset' = (offset + 1) % 16 /\ Used
  /\ irqflag' = (irqflag /\ offset # 13)
  /\ UNCHANGED <<now, clocks, seconds, chipselect, mode, resync, holdVars, irqduty,
                 irqperiod, restarts, ticked, dueVars>>

-----------------------------------------------------------------------------
(* rtcWrite *)

Bit(data, b) == (data \div b) % 2

WriteDigits(addr, data) ==
  /\ addr \in 0..12
  /\ now' = (CASE addr = 0  -> [now EXCEPT !.secondlo = data]
               [] addr = 1  -> [now EXCEPT !.secondhi = data % 8]
               [] addr = 2  -> [now EXCEPT !.minutelo = data]
               [] addr = 3  -> [now EXCEPT !.minutehi = data % 8]
               [] addr = 4  -> [now EXCEPT !.hourlo = data]
               [] addr = 5  -> IF now.atime = 1
                               THEN [now EXCEPT !.hourhi = data % 4, !.meridian = 0]
                               ELSE [now EXCEPT !.hourhi = data % 2, !.meridian = Bit(data, 4)]
               [] addr = 6  -> [now EXCEPT !.daylo = data]
               [] addr = 7  -> [now EXCEPT !.dayhi = data % 4]
               [] addr = 8  -> [now EXCEPT !.monthlo = data]
               [] addr = 9  -> [now EXCEPT !.monthhi = data % 2]
               [] addr = 10 -> [now EXCEPT !.yearlo = data]
               [] addr = 11 -> [now EXCEPT !.yearhi = data]
               [] addr = 12 -> [now EXCEPT !.weekday = data % 8])
  /\ Sets(now', holdtick)
  /\ UNCHANGED <<holdVars, irqVars>>

WriteHold_Again(data) ==
  LET held  == [now EXCEPT !.calendar = Bit(data, 2)]
      catch == hold /\ Bit(data, 1) = 0 /\ holdtick
  IN  /\ hold' = (Bit(data, 1) = 1) /\ roundseconds' = (Bit(data, 8) = 1)
      /\ now' = IF catch THEN TickSecond(held) ELSE held
      /\ holdtick' = holdtick
      /\ IF held = now THEN UNCHANGED dueVars ELSE Sets(now', holdtick)
      /\ UNCHANGED <<pause, stop, irqVars>>

\* Register 13: a second that passed during the hold is made up for.
WriteHold(data) ==
  LET held  == [now EXCEPT !.calendar = Bit(data, 2)]
      catch == hold /\ Bit(data, 1) = 0 /\ holdtick
  IN  /\ hold' = (Bit(data, 1) = 1) /\ roundseconds' = (Bit(data, 8) = 1)
      /\ now' = IF catch THEN TickSecond(held) ELSE held
      /\ holdtick' = (holdtick /\ ~catch)
      /\ IF held = now THEN UNCHANGED dueVars ELSE Sets(now', holdtick)
      /\ UNCHANGED <<pause, stop, irqVars>>
WriteIrq(data) == \* register 14
  /\ irqduty' = (Bit(data, 2) = 1) /\ irqperiod' = data \div 4
  /\ UNCHANGED <<now, holdVars, irqflag, dueVars>>

WriteStop(data) == \* register 15
  LET paused == Bit(data, 1) = 1
      mask(t) == IF Bit(data, 4) = 1 THEN [t EXCEPT !.atime = 1, !.meridian = 0]
                 ELSE [t EXCEPT !.atime = 0, !.hourhi = @ % 2]
      zero(t) == IF paused THEN [t EXCEPT !.secondlo = 0, !.secondhi = 0] ELSE t
  IN  /\ now' = zero(mask(now)) /\ pause' = paused /\ stop' = (Bit(data, 2) = 1)
      /\ IF now' = now THEN UNCHANGED dueVars ELSE Sets(now', holdtick)
      /\ UNCHANGED <<holdtick, hold, roundseconds, irqVars>>

WriteDigit ==
  /\ chipselect = 1 /\ ready /\ mode = "Write"
  /\ \E w \in Writes :
       /\ w[1] = offset
       /\ \/ WriteDigits(offset, w[2])
          \/ offset = 13 /\ WriteHold(w[2])
          \/ offset = 14 /\ WriteIrq(w[2])
          \/ offset = 15 /\ WriteStop(w[2])
  /\ offset' = (offset + 1) % 16 /\ Used
  /\ UNCHANGED <<clocks, seconds, chipselect, mode, resync, restarts, ticked>>

-----------------------------------------------------------------------------
(* The game is saved, and loaded some time later: the clock makes up for it *)
(* in whole days, hours, minutes and seconds, stopped or not.               *)

\* The time away is exact.  It is so for a state saved before 2038: load() puts
\* the eight bytes of the timestamp together with shifts of an int, and from then
\* on the fourth, as a negative number, fills the upper half.

TickSeconds == [t \in EpsonTimes |-> TickSecond(t)]
TickMinutes == [t \in EpsonTimes |-> TickMinute(t)]
TickHours   == [t \in EpsonTimes |-> TickHour(t)]
TickDays    == [t \in EpsonTimes |-> TickDay(t)]
CatchUp(t, away) ==
  Times(TickSeconds, away[4],
    Times(TickMinutes, away[3], Times(TickHours, away[2], Times(TickDays, away[1], t))))

Restart ==
  /\ restarts < MaxRestarts /\ restarts' = restarts + 1
  /\ \E away \in Away :
       /\ now' = CatchUp(now, away)
       /\ due' = Later(due, away[1], 60 * 60 * away[2] + 60 * away[3] + away[4])
  /\ excused' = (excused \/ holdtick) /\ ticked' = FALSE
  /\ clocks' = 0 /\ seconds' = 0 /\ chipselect' = 0 /\ mode' = "Mode" /\ offset' = 0
  /\ wait' = 0 /\ ready' = FALSE /\ holdtick' = FALSE
  /\ UNCHANGED <<resync, hold, roundseconds, pause, stop, irqVars>>

EpsonFrom(times) ==
  /\ now \in times /\ due = Shown(now) /\ excused = ~EpsonValid(now)
  /\ clocks = 0 /\ seconds = 0 /\ chipselect = 0 /\ mode = "Mode" /\ offset = 0
  /\ wait = 0 /\ ready = FALSE /\ holdtick = FALSE /\ resync = FALSE
  /\ hold = FALSE /\ roundseconds = FALSE /\ pause = FALSE /\ stop = FALSE
  /\ irqflag = FALSE /\ irqduty = FALSE /\ irqperiod = 0
  /\ restarts = 0 /\ ticked = FALSE
EpsonInit == EpsonFrom(EpsonStarts)

Program == \/ \E data \in {0, 1} : Select(data)
           \/ \E data \in {3, 12} : Command(data)
           \/ \E addr \in Offsets : Seek(addr)
           \/ ReadDigit \/ WriteDigit
EpsonNext == EpsonMain \/ Program \/ Restart

EpsonSpec == EpsonInit /\ [][EpsonNext]_epsonVars

-----------------------------------------------------------------------------
(* Correctness. *)

\* A program that reads the digits one after the other while the clock ticks can
\* tell: the resync bit, shown with every second digit, is set, and stays set
\* until the program deselects the chip and starts again.  (A rounding that the
\* program has asked for is not announced.)
TornReadDetected == mode = "Read" /\ ticked => resync

\* Seconds, held seconds, rounding, restarts and the digit rules of 12 and 24
\* hours, months and leap years together show the time of a reference calendar;
\* a clock that is held owes it one second at most (memory.cpp:88).
ClockKeepsTime ==
  ~excused => due = IF holdtick THEN Later(Shown(now), 0, 1) ELSE Shown(now)

\* The comment on main(): irq(3) once in "1 hour".
HourlyIrq == [][3 \in Periods => seconds + 1 = 60 * 60]_seconds
=============================================================================
