---------------------------- MODULE DevicesMC ----------------------------
(* The devices that share no state, one after the other in a single run:    *)
(* "unit" names the one that is explored, the others stand still.           *)
EXTENDS SmpTimers, Joypads, EpsonRtc, SharpRtc, Sa1, Bus

LOCAL INSTANCE FiniteSetsExt

CONSTANTS timer0, timer2, ram, chip

VARIABLE unit

-----------------------------------------------------------------------------
(* Two timers of different frequencies, scaled down; only their ratio and   *)
(* the largest wait, one period of the fast timer, are kept.                *)
TwoTimers    == {timer0, timer2}
Timer2       == {timer2}
FrequencyOf  == [t \in TwoTimers |-> IF t = timer2 THEN 2 ELSE 4]

-----------------------------------------------------------------------------
(* Epson: a clock of 12 hours half a minute before 29 February and, for     *)
(* the digit rules of both forms, the ends of days in a whole century.       *)
EpsonAt(y, m, d, s, form) ==
  [secondlo |-> s % 10, secondhi |-> s \div 10, minutelo |-> 9, minutehi |-> 5,
   hourlo |-> IF form = 1 THEN 3 ELSE 1, hourhi |-> IF form = 1 THEN 2 ELSE 1,
   meridian |-> 1 - form, daylo |-> d % 10, dayhi |-> d \div 10,
   monthlo |-> m % 10, monthhi |-> m \div 10, yearlo |-> y % 10, yearhi |-> y \div 10,
   weekday |-> 6, calendar |-> 1, atime |-> form]

EpsonFew   == {EpsonAt(96, 2, 28, 29, 0)}
EpsonDates == {EpsonAt(y, m, d, 59, y % 2) : y \in 0..99, m \in 1..12,
                                           d \in {9, 19} \cup 28..31}
EpsonAway  == {<<1, 13, 0, 31>>}
\* calendar with hold, with round; an interrupt; 24 hours and a stop.
EpsonWrites == {<<13, 3>>, <<13, 10>>, <<14, 6>>, <<15, 6>>}

-----------------------------------------------------------------------------
(* Sharp: some dates set digit by digit, and the end of each day of 20 years. *)
SharpAt(y, m, d, s) ==
  [second |-> s, minute |-> 59, hour |-> 23, day |-> d, month |-> m, year |-> y - 1000,
   weekday |-> 0]

SharpFew   == {SharpAt(1996, 2, 28, 59)}
SharpDates == {SharpAt(y, m, d, 59) : y \in 1990..2009, m \in 1..12, d \in 1..31}
SharpGone  == {<<59, 1, 1, 2>>}
SharpSome  == [i \in 0..11 |->
  CASE i = 0 -> {9} [] i = 1 -> {5} [] i = 2 -> {9} [] i = 3 -> {5} [] i = 4 -> {3}
    [] i = 5 -> {2} [] i = 6 -> {8} [] i = 7 -> {2} [] i = 8 -> {2}
    [] i = 9 -> {6} [] i = 10 -> {9} [] i = 11 -> {9}]

-----------------------------------------------------------------------------
(* SA-1: one event and two, and what acknowledges one or the other kind.    *)
Sa1Modes    == {{"h"}, {"v", "linear"}}
Sa1Controls == {{}, {"irq", "nmi"}, {"resb"}}
Sa1Enabling == {{}, {"timer"}, {"timer", "dma"}}
Sa1Clearing == {{}, {"timer", "dma"}, {"nmi", "irq"}}

-----------------------------------------------------------------------------
(* Bus: maps that overlap in part and wholly; registers with a bit cut out, *)
(* and a memory of 6 whose map starts at 4, with another bit cut out.       *)
BusRegions == {{0, 1}, {1, 2}, 2..5, 0..7}
BusLayouts == {<<0, 0, 2>>, <<6, 4, 1>>}

\* What the two loops compute: the bits of a address that are not in mask, moved
\* together; and an address in a memory of which the highest power of two stands
\* before a smaller memory that repeats.
BitsOf(n) == {k \in 0..(Width - 1) : bitAt(n, 2^k)}
Together(a, mask) ==
  LET kept == BitsOf(a) \ BitsOf(mask)
      place(k) == Cardinality((0..(k - 1)) \ BitsOf(mask))
  IN  SumSet({2^place(k) : k \in kept})
Repeated[a \in Nat, size \in Nat] ==
  LET half == CHOOSE p \in {2^k : k \in 0..Width} : p < size /\ size <= 2 * p
      spot == a % (2 * half)
  IN  IF size = 1 THEN 0 ELSE IF spot < half THEN spot ELSE half + Repeated[spot - half, size - half]

ASSUME ReduceCutsBits == \A a, mask \in Address : reduce(a, mask) = Together(a, mask)
ASSUME MirrorRepeats ==
  \A size \in 1..2^Width, a \in Address : mirror(a, size) = Repeated[a, size]
\* Whatever base, mask and size a map has, it leads inside of the memory.
ASSUME TargetsFit ==
  \A size \in 1..2^Width, a, base, mask \in Address : Offset(a, size, base, mask) < size

-----------------------------------------------------------------------------
chips == <<joypadVars, epsonVars, sharpVars, sa1Vars, mapVars>>
devices == <<vars, chips, unit>>

EpsonFirst(S) == EpsonFrom({t \in S : EpsonValid(t)})
Resting(S) == {CHOOSE t \in S : TRUE}

DevicesInit ==
  /\ Init /\ JoypadInit /\ Sa1Init /\ BusInit
  /\ \/ /\ unit \in {"timers", "joypads", "sa1", "sa1 signals", "bus"}
        /\ EpsonFirst(Resting(EpsonFew)) /\ SharpFrom(Resting(SharpFew), "Read", -1)
     \/ unit = "epson" /\ EpsonFirst(EpsonFew) /\ SharpFrom(Resting(SharpFew), "Read", -1)
     \/ /\ unit = "epson dates"
        /\ EpsonFirst(EpsonDates) /\ SharpFrom(Resting(SharpFew), "Read", -1)
     \/ unit = "sharp" /\ EpsonFirst(Resting(EpsonFew)) /\ SharpInit
     \/ /\ unit = "sharp dates" /\ EpsonFirst(Resting(EpsonFew))
        /\ SharpFrom({t \in SharpDates : SharpValid(t)}, "Write", 11)

Timers == unit = "timers" /\ Next /\ UNCHANGED chips
Joypad == /\ unit = "joypads" /\ JoypadNext
          /\ UNCHANGED <<vars, epsonVars, sharpVars, sa1Vars, mapVars>>
Epson == /\ \/ unit = "epson" /\ EpsonNext
            \/ unit = "epson dates" /\ EpsonMain
         /\ UNCHANGED <<vars, joypadVars, sharpVars, sa1Vars, mapVars>>
Sharp == /\ \/ unit = "sharp" /\ SharpNext
            \/ unit = "sharp dates" /\ (SharpMain \/ SharpDigit)
         /\ UNCHANGED <<vars, joypadVars, epsonVars, sa1Vars, mapVars>>
SuperAccelerator ==
  /\ \/ unit = "sa1" /\ (Sa1Runs \/ Sa1Power)
     \/ unit = "sa1 signals" /\ (CpuSignals \/ WriteCCNT({}) \/ Begin65816 \/ Sa1Power)
  /\ UNCHANGED <<vars, joypadVars, epsonVars, sharpVars, mapVars>>
Maps == /\ unit = "bus" /\ BusNext
        /\ UNCHANGED <<vars, joypadVars, epsonVars, sharpVars, sa1Vars>>

DevicesNext ==
  /\ Timers \/ Joypad \/ Epson \/ Sharp \/ SuperAccelerator \/ Maps
  /\ UNCHANGED unit
DevicesSpec == DevicesInit /\ [][DevicesNext]_devices

DevicesTypeOK ==
  TypeOK /\ JoypadTypeOK /\ EpsonTypeOK /\ SharpTypeOK /\ Sa1TypeOK /\ BusTypeOK

-----------------------------------------------------------------------------
(* One device alone, for what the comments in its code say. *)
OthersInit == JoypadInit /\ SharpInit /\ Sa1Init /\ BusInit
TimersAlone == /\ Init /\ EpsonInit /\ OthersInit /\ unit = "timers"
               /\ [][Next /\ UNCHANGED <<chips, unit>>]_devices
EpsonAlone == /\ EpsonInit /\ Init /\ OthersInit /\ unit = "epson"
              /\ [][EpsonMain /\ UNCHANGED <<vars, joypadVars, sharpVars, sa1Vars, mapVars, unit>>]_devices
=============================================================================
