------------------------------ MODULE SharpRtc ------------------------------
(***************************************************************************)
(* The Sharp S-RTC (sfc/coprocessor/sharprtc): a thread that ticks once a  *)
(* second, and the port by which a program reads and sets the time, digit  *)
(* by digit in a fixed order.  The year counts from 1000.                  *)
(*                                                                         *)
(* A definition whose name ends in _ and a word is a faulty variant of the *)
(* definition that follows it.                                             *)
(***************************************************************************)
EXTENDS Powers, FiniteSets

CONSTANTS
  SharpStarts,    \* what a saved clock may show
  SharpDigits,    \* bound: the values a program writes to each register
  SharpAway,      \* days, hours, minutes and seconds without the emulator
  SharpTicks,     \* bound: seconds
  SharpRestarts   \* bound: restarts

SharpTimes ==
  [second : Nat, minute : Nat, hour : Nat, day : Nat, month : Nat, year : Nat,
   weekday : 0..15]

ASSUME SharpAssumption ==
  /\ SharpStarts \subseteq SharpTimes /\ SharpAway \subseteq Nat \X Nat \X Nat \X Nat
  /\ \A i \in DOMAIN SharpDigits : SharpDigits[i] \subseteq 0..15

VARIABLES
  sharp,          \* second, minute, hour, day, month, year, weekday
  sharpState, index,
  sharpTicks, sharpRestarts,
  sharpDue,       \* history: the day and its second that should be shown, and
                  \* the weekday of the date that was set, -1 of none
  sharpExcused    \* history: no date was set, or a year 00 has come, or 2600

sharpVars == <<sharp, sharpState, index, sharpTicks, sharpRestarts, sharpDue, sharpExcused>>

SharpTypeOK ==
  /\ sharp \in SharpTimes
  /\ sharpState \in {"Ready", "Command", "Read", "Write"} /\ index \in -1..13
  /\ sharpTicks \in Nat /\ sharpRestarts \in Nat
  /\ sharpDue \in Nat \X Nat \X (-1..6) /\ sharpExcused \in BOOLEAN

-----------------------------------------------------------------------------
(* Time (time.cpp).  The weekday does not take part. *)

daysInMonth == <<31, 28, 31, 30, 31, 30, 31, 31, 30, 31, 30, 31>>

SharpYear(t)  == [t EXCEPT !.year = (@ + 1) % 4096]
SharpMonth(t) == IF t.month < 12 THEN [t EXCEPT !.month = @ + 1]
                 ELSE SharpYear([t EXCEPT !.month = 1])

\* month - 1 is taken without a sign: month 0 has the days of month 4.
monthDays(m) == daysInMonth[IF m = 0 THEN 4 ELSE ((m - 1) % 12) + 1]

\* Of the year as it is counted, from 1000.
leapDay(t) == t.year % 400 = 0 \/ (t.year % 100 # 0 /\ t.year % 4 = 0)

SharpDay_Early(t) ==
  LET days == monthDays(t.month) + IF t.month = 2 /\ leapDay(t) THEN 1 ELSE 0
  IN  IF t.day + 1 < days THEN [t EXCEPT !.day = @ + 1]
      ELSE SharpMonth([t EXCEPT !.day = 1])
SharpDay(t) ==
  LET days == monthDays(t.month) + IF t.month = 2 /\ leapDay(t) THEN 1 ELSE 0
  IN  IF t.day < days THEN [t EXCEPT !.day = @ + 1]
      ELSE SharpMonth([t EXCEPT !.day = 1])

SharpHour(t)   == IF t.hour + 1 < 24 THEN [t EXCEPT !.hour = @ + 1]
                  ELSE SharpDay([t EXCEPT !.hour = 0])
SharpMinute(t) == IF t.minute + 1 < 60 THEN [t EXCEPT !.minute = @ + 1]
                  ELSE SharpHour([t EXCEPT !.minute = 0])
SharpSecond(t) == IF t.second + 1 < 60 THEN [t EXCEPT !.second = @ + 1]
                  ELSE SharpMinute([t EXCEPT !.second = 0])

leapyear(y) == y % 4 = 0 /\ ~(y % 100 = 0 /\ y % 400 # 0)

\* calculateWeekday: the days since 1000-01-01, a Wednesday, year by year and
\* month by month.
atLeast(n, m) == IF m < n THEN n ELSE m
atMost(n, m)  == IF m > n THEN n ELSE m

yearsBefore(y) == 365 * (y - 1000) + Cardinality({z \in 1000..(y - 1) : leapyear(z)})
monthsBefore(y, m) ==
  LET days[n \in Nat] ==
        IF n <= 1 THEN 0
        ELSE days[n - 1] + daysInMonth[((n - 2) % 12) + 1]
               + IF n = 3 /\ leapyear(y) THEN 1 ELSE 0
  IN  days[m]

calculateWeekday(year0, month0, day0) ==
  LET y == atLeast(1000, year0)
      m == atLeast(1, atMost(12, month0))
      d == atLeast(1, atMost(31, day0))
  IN  (yearsBefore(y) + monthsBefore(y, m) + d - 1 + 3) % 7

-----------------------------------------------------------------------------
(* Digits (memory.cpp) *)

rtcRead(t, addr) ==
  (CASE addr = 0  -> t.second % 10      [] addr = 1  -> t.second \div 10
     [] addr = 2  -> t.minute % 10      [] addr = 3  -> t.minute \div 10
     [] addr = 4  -> t.hour % 10        [] addr = 5  -> t.hour \div 10
     [] addr = 6  -> t.day % 10         [] addr = 7  -> t.day \div 10
     [] addr = 8  -> t.month            [] addr = 9  -> t.year % 10
     [] addr = 10 -> (t.year \div 10) % 10 [] addr = 11 -> t.year \div 100
     [] addr = 12 -> t.weekday) % 16

units(n, d) == 10 * (n \div 10) + d
tens(n, d)  == 10 * d + (n % 10)
rtcWrite(t, addr, d) ==
  CASE addr = 0  -> [t EXCEPT !.second = units(@, d)]
    [] addr = 1  -> [t EXCEPT !.second = tens(@, d)]
    [] addr = 2  -> [t EXCEPT !.minute = units(@, d)]
    [] addr = 3  -> [t EXCEPT !.minute = tens(@, d)]
    [] addr = 4  -> [t EXCEPT !.hour = units(@, d)]
    [] addr = 5  -> [t EXCEPT !.hour = tens(@, d)]
    [] addr = 6  -> [t EXCEPT !.day = units(@, d)]
    [] addr = 7  -> [t EXCEPT !.day = tens(@, d)]
    [] addr = 8  -> [t EXCEPT !.month = d]
    [] addr = 9  -> [t EXCEPT !.year = units(@, d)]
    [] addr = 10 -> [t EXCEPT !.year = 100 * (@ \div 100) + 10 * d + (@ % 10)]
    [] addr = 11 -> [t EXCEPT !.year = 100 * d + (@ % 100)]
    [] addr = 12 -> [t EXCEPT !.weekday = d]

-----------------------------------------------------------------------------
(* The reference: a Gregorian day number, and the second of the day.        *)

TrueYear(t)  == 1000 + t.year
Gregorian(y) == y % 400 = 0 \/ (y % 4 = 0 /\ y % 100 # 0)
SharpValid(t) ==
  /\ t.second <= 59 /\ t.minute <= 59 /\ t.hour <= 23 /\ t.month \in 1..12
  /\ t.day \in 1..(daysInMonth[t.month]
                     + IF t.month = 2 /\ Gregorian(TrueYear(t)) THEN 1 ELSE 0)

GregorianDay(y, m, d) ==
  LET p == y - 1
      before == (367 * m - 362) \div 12
      short == IF m <= 2 THEN 0 ELSE IF Gregorian(y) THEN 1 ELSE 2
  IN  365 * p + p \div 4 - p \div 100 + p \div 400 + before - short + d

SharpShown(t) ==
  IF ~SharpValid(t) THEN <<0, 0>>
  ELSE <<GregorianDay(TrueYear(t), t.month, t.day), 60 * 60 * t.hour + 60 * t.minute + t.second>>

OneDay == 60 * 60 * 24
SharpLater(due, d, n) ==
  <<due[1] + d + (due[2] + n) \div OneDay, (due[2] + n) % OneDay, due[3]>>

\* 2000-01-01 was a Saturday.
TrueWeekday(t) ==
  IF SharpValid(t)
  THEN (GregorianDay(TrueYear(t), t.month, t.day) - GregorianDay(2000, 1, 1) + 6) % 7 ELSE -1

\* In a year 00 the clock has its own idea of 29 February: leapDay.  A saved clock
\* has four bits for the century.
OutOfStep(t) == t.year % 100 = 0 \/ t.year \div 100 > 15
NextCentury(t) == GregorianDay(TrueYear(t) + 100 - (t.year % 100), 1, 1)
Promised(t, weekday) == <<SharpShown(t)[1], SharpShown(t)[2], weekday>>
SharpSets(t, weekday) ==
  sharpDue' = Promised(t, weekday) /\ sharpExcused' = (~SharpValid(t) \/ OutOfStep(t))

-----------------------------------------------------------------------------
(* SharpRTC::main *)
SharpMain ==
  /\ sharpTicks < SharpTicks /\ sharpTicks' = sharpTicks + 1
  /\ sharp' = SharpSecond(sharp) /\ sharpDue' = SharpLater(sharpDue, 0, 1)
  /\ sharpExcused' = (sharpExcused \/ sharpDue'[1] >= NextCentury(sharp))
  /\ UNCHANGED <<sharpState, index, sharpRestarts>>

\* SharpRTC::read: 15 before the first digit and after the last.
SharpRead ==
  /\ sharpState = "Read" /\ index' = IF index > 12 THEN -1 ELSE index + 1
  /\ UNCHANGED <<sharp, sharpState, sharpTicks, sharpRestarts, sharpDue, sharpExcused>>

Zeroed == [second |-> 0, minute |-> 0, hour |-> 0, day |-> 0, month |-> 0, year |-> 0,
           weekday |-> 0]

\* SharpRTC::write: 13 reads, 14 announces a command, 0 writes, 4 resets.
SharpCommand(data) ==
  \/ /\ data = 13 /\ sharpState' = "Read" /\ index' = -1
     /\ UNCHANGED <<sharp, sharpDue, sharpExcused>>
  \/ /\ data = 14 /\ sharpState' = "Command"
     /\ UNCHANGED <<sharp, index, sharpDue, sharpExcused>>
  \/ /\ sharpState = "Command" /\ data = 0 /\ sharpState' = "Write" /\ index' = 0
     /\ UNCHANGED <<sharp, sharpDue, sharpExcused>>
  \/ /\ sharpState = "Command" /\ data = 4 /\ sharpState' = "Ready" /\ index' = -1
     /\ sharp' = Zeroed /\ SharpSets(Zeroed, -1)
  \/ /\ sharpState = "Command" /\ data \notin {0, 4, 13, 14, 15} /\ sharpState' = "Ready"
     /\ UNCHANGED <<sharp, index, sharpDue, sharpExcused>>

\* The twelfth digit sets the weekday, too.
SharpSet(d) ==
  /\ sharpState = "Write" /\ index \in 0..11 /\ d \notin {13, 14, 15}
  /\ index' = index + 1
  /\ LET t == rtcWrite(sharp, index, d)
     IN  /\ sharp' = IF index < 11 THEN t
                     ELSE [t EXCEPT !.weekday = calculateWeekday(1000 + t.year, t.month, t.day)]
         /\ SharpSets(t, IF index < 11 THEN -1 ELSE TrueWeekday(t))
  /\ UNCHANGED sharpState

SharpControl ==
  /\ \E data \in {0, 4, 5, 13, 14} : SharpCommand(data)
  /\ UNCHANGED <<sharpTicks, sharpRestarts>>
SharpDigit ==
  /\ index \in DOMAIN SharpDigits /\ \E d \in SharpDigits[index] : SharpSet(d)
  /\ UNCHANGED <<sharpTicks, sharpRestarts>>

\* The game is saved and loaded: the digits, and the time in between, which is
\* exact if it was saved before 2038 (memory.cpp:46 shifts the bytes as ints).
Loaded(t) ==
  LET f[n \in 0..13] == IF n = 0 THEN Zeroed ELSE rtcWrite(f[n - 1], n - 1, rtcRead(t, n - 1))
  IN  f[13]

Seconds == [t \in SharpTimes |-> SharpSecond(t)]
Minutes == [t \in SharpTimes |-> SharpMinute(t)]
Hours   == [t \in SharpTimes |-> SharpHour(t)]
DaysOn  == [t \in SharpTimes |-> SharpDay(t)]
SharpCatchUp(t, away) ==
  Times(Seconds, away[4], Times(Minutes, away[3], Times(Hours, away[2], Times(DaysOn, away[1], t))))

SharpRestart ==
  /\ sharpRestarts < SharpRestarts /\ sharpRestarts' = sharpRestarts + 1
  /\ \E away \in SharpAway :
       /\ sharp' = SharpCatchUp(Loaded(sharp), away)
       /\ sharpDue' = SharpLater(sharpDue, away[1], 60 * 60 * away[2] + 60 * away[3] + away[4])
  /\ sharpExcused' = (sharpExcused \/ sharpDue'[1] >= NextCentury(sharp))
  /\ sharpState' = "Read" /\ index' = -1 /\ UNCHANGED sharpTicks

SharpFrom(times, state0, index0) ==
  /\ sharp \in times /\ sharpState = state0 /\ index = index0
  /\ sharpTicks = 0 /\ sharpRestarts = 0
  /\ sharpDue = Promised(sharp, -1) /\ sharpExcused = (~SharpValid(sharp) \/ OutOfStep(sharp))
SharpInit == SharpFrom(SharpStarts, "Read", -1)
SharpNext == SharpMain \/ SharpRead \/ SharpControl \/ SharpDigit \/ SharpRestart
SharpSpec == SharpInit /\ [][SharpNext]_sharpVars

-----------------------------------------------------------------------------
(* Correctness. *)

\* Ticks, setting digit by digit, saving and catching up show the Gregorian time
\* of a reference calendar, from the date that was set until a year 00 comes or the
\* century outgrows its digit.  "day of week is automatically calculated"
\* (sharprtc.cpp:125): that of the date that was set, in any year, whatever happens
\* after.
SharpKeepsTime ==
  /\ ~sharpExcused => SharpShown(sharp) = <<sharpDue[1], sharpDue[2]>>
  /\ sharpDue[3] # -1 => sharp.weekday = sharpDue[3]
=============================================================================
