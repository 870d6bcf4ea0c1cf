-------------------------- MODULE DevicesMCProofs --------------------------
(* The devices that are explored in a single run keep their types: each by  *)
(* the invariant of its own proof, as the others stand still.               *)
EXTENDS DevicesMC, DeviceProofs, JoypadsProofs

\* The inductive invariants of all devices.
DevicesInv == TimersInv /\ IInv /\ EpsonInv /\ SharpInv /\ Sa1TypeOK /\ BusTyped

\* A device that stands still keeps its invariant.
LEMMA StandStill ==
  ASSUME DevicesInv
  PROVE  /\ UNCHANGED vars => TimersInv'
         /\ UNCHANGED joypadVars => IInv'
         /\ UNCHANGED epsonVars => EpsonInv'
         /\ UNCHANGED sharpVars => SharpInv'
         /\ UNCHANGED sa1Vars => Sa1TypeOK'
         /\ UNCHANGED mapVars => BusTyped'
<1>1. UNCHANGED vars => TimersInv'
  BY TimersStep DEF DevicesInv
<1>2. UNCHANGED joypadVars => IInv'
  BY NextIInv DEF DevicesInv
<1>3. UNCHANGED epsonVars => EpsonInv'
  BY EpsonInductive DEF DevicesInv
<1>4. UNCHANGED sharpVars => SharpInv'
  BY SharpInductive DEF DevicesInv
<1>5. UNCHANGED sa1Vars => Sa1TypeOK'
  BY Sa1TypesStep DEF DevicesInv
<1>6. UNCHANGED mapVars => BusTyped'
  BY BusTypedStep DEF DevicesInv
<1> QED BY <1>1, <1>2, <1>3, <1>4, <1>5, <1>6

\* The clocks that the runs begin with are clocks.
LEMMA StartsAreTimes ==
  /\ EpsonFew \in SUBSET EpsonTimes /\ EpsonDates \in SUBSET EpsonTimes
  /\ Resting(EpsonFew) \in SUBSET EpsonTimes
  /\ SharpFew \in SUBSET SharpTimes /\ SharpDates \in SUBSET SharpTimes
  /\ Resting(SharpFew) \in SUBSET SharpTimes
<1>1. ASSUME NEW y \in 0..99, NEW m \in 1..12, NEW d \in 1..31, NEW s \in 0..59, NEW form \in 0..1
      PROVE  EpsonAt(y, m, d, s, form) \in EpsonTimes
  <2>1. /\ s % 10 \in 0..15 /\ s \div 10 \in 0..7 /\ d % 10 \in 0..15 /\ d \div 10 \in 0..3
        /\ m % 10 \in 0..15 /\ m \div 10 \in 0..1 /\ y % 10 \in 0..15 /\ y \div 10 \in 0..15
        /\ 1 - form \in 0..1
    OBVIOUS
  <2> QED BY <2>1 DEF EpsonAt, EpsonTimes, Digit
<1>2. EpsonFew \in SUBSET EpsonTimes
  <2>1. 96 \in 0..99 /\ 2 \in 1..12 /\ 28 \in 1..31 /\ 29 \in 0..59 /\ 0 \in 0..1
    BY SMTT(40)
  <2>2. EpsonAt(96, 2, 28, 29, 0) \in EpsonTimes
    BY <1>1, <2>1, ZenonT(60)
  <2> QED BY <2>2 DEF EpsonFew
<1>3. EpsonDates \in SUBSET EpsonTimes
  <2> SUFFICES ASSUME NEW t \in EpsonDates PROVE t \in EpsonTimes
    BY SMTT(40)
  <2>1. PICK y \in 0..99, m \in 1..12, d \in {9, 19} \cup 28..31 :
          t = EpsonAt(y, m, d, 59, y % 2)
    BY SMTT(30) DEF EpsonDates
  <2>2. d \in 1..31 /\ 59 \in 0..59
    OBVIOUS
  <2>3. y % 2 \in 0..1
    OBVIOUS
  <2> QED BY <1>1, <2>1, <2>2, <2>3, Zenon
<1>4. ASSUME NEW y \in Nat, y >= 1000, NEW m \in Nat, NEW d \in Nat, NEW s \in Nat
      PROVE  SharpAt(y, m, d, s) \in SharpTimes
  <2>1. y - 1000 \in Nat /\ 59 \in Nat /\ 23 \in Nat /\ 0 \in 0..15
    BY <1>4
  <2> QED BY <2>1 DEF SharpAt, SharpTimes
<1>5. SharpFew \in SUBSET SharpTimes
  <2>1. SharpAt(1996, 2, 28, 59) \in SharpTimes
    BY <1>4
  <2> QED BY <2>1 DEF SharpFew
<1>6. SharpDates \in SUBSET SharpTimes
  <2> SUFFICES ASSUME NEW t \in SharpDates PROVE t \in SharpTimes
    OBVIOUS
  <2>1. PICK y \in 1990..2009, m \in 1..12, d \in 1..31 : t = SharpAt(y, m, d, 59)
    BY SMTT(30) DEF SharpDates
  <2> QED BY <1>4, <2>1, SMTT(40)
<1>7. \A S : S # {} => Resting(S) \subseteq S
  BY DEF Resting
<1>8. EpsonFew # {} /\ SharpFew # {}
  BY DEF EpsonFew, SharpFew
<1> QED BY <1>2, <1>3, <1>5, <1>6, <1>7, <1>8

\* Every device starts with its types, whichever of them is explored.
LEMMA DevicesBegin == DevicesInit => DevicesInv
<1> SUFFICES ASSUME DevicesInit PROVE DevicesInv
  OBVIOUS
<1>1. TimersInv /\ IInv /\ Sa1TypeOK /\ BusTyped
  BY TimersFirst, InitIInv, Sa1First, BusTypedFirst DEF DevicesInit
<1>2. EpsonInv
  <2>1. ASSUME NEW S \in SUBSET EpsonTimes, EpsonFirst(S) PROVE EpsonInv
    BY <2>1, EpsonFromShown DEF EpsonFirst
  <2> QED BY <2>1, StartsAreTimes DEF DevicesInit
<1>3. SharpInv
  <2>1. -1 \in -1..13 /\ 11 \in -1..13
    OBVIOUS
  <2>2. {t \in SharpDates : SharpValid(t)} \in SUBSET SharpTimes
    BY StartsAreTimes
  <2> QED BY <2>1, <2>2, StartsAreTimes, SharpFirst, SharpFirstInv DEF DevicesInit
<1> QED BY <1>1, <1>2, <1>3 DEF DevicesInv

\* A release of the SA-1's registers, which is explored for any program.
LEMMA ResetTypes == ASSUME Sa1TypeOK, WriteCCNT({}) PROVE Sa1TypeOK'
<1>1. flag' \subseteq Sa1Sources /\ cleared' \subseteq Sa1Sources /\ control' \subseteq ControlBits
  BY DEF WriteCCNT, Sa1TypeOK
<1> QED BY <1>1 DEF WriteCCNT, Sa1TypeOK, cpuSide, timerOf

\* A step of one device keeps the types of all.
LEMMA DevicesStep == DevicesInv /\ [DevicesNext]_devices => DevicesInv'
<1> SUFFICES ASSUME DevicesInv, [DevicesNext]_devices PROVE DevicesInv'
  OBVIOUS
<1>1. CASE Timers
  <2>1. TimersInv'
    BY <1>1, TimersStep DEF Timers, DevicesInv
  <2> QED BY <1>1, <2>1, StandStill DEF Timers, chips, DevicesInv
<1>2. CASE Joypad
  <2>1. IInv'
    BY <1>2, NextIInv DEF Joypad, DevicesInv
  <2> QED BY <1>2, <2>1, StandStill DEF Joypad, DevicesInv
<1>3. CASE Epson
  <2>1. EpsonInv'
    BY <1>3, EpsonInductive DEF Epson, EpsonNext, DevicesInv
  <2> QED BY <1>3, <2>1, StandStill DEF Epson, DevicesInv
<1>4. CASE Sharp
  <2>1. SharpInv'
    BY <1>4, SharpInductive DEF Sharp, SharpNext, DevicesInv
  <2> QED BY <1>4, <2>1, StandStill DEF Sharp, DevicesInv
<1>5. CASE SuperAccelerator
  <2>1. Sa1TypeOK'
    <3>1. Sa1Next \/ WriteCCNT({})
      BY <1>5 DEF SuperAccelerator, Sa1Next, Sa1Runs
    <3> QED BY <1>5, <3>1, Sa1TypesStep, ResetTypes DEF DevicesInv
  <2> QED BY <1>5, <2>1, StandStill DEF SuperAccelerator, DevicesInv
<1>6. CASE Maps
  <2>1. BusTyped'
    BY <1>6, BusTypedStep DEF Maps, DevicesInv
  <2> QED BY <1>6, <2>1, StandStill DEF Maps, DevicesInv
<1>7. CASE UNCHANGED devices
  BY <1>7, StandStill DEF devices, chips, DevicesInv
<1> QED BY <1>1, <1>2, <1>3, <1>4, <1>5, <1>6, <1>7 DEF DevicesNext

\* All devices keep their types in the run that explores them one after the other.
THEOREM DevicesTypes == DevicesSpec => []DevicesTypeOK
<1>1. DevicesInv => DevicesTypeOK
  BY EpsonInvTypes, BusTypedTypes DEF DevicesInv, TimersInv, IInv, SharpInv, DevicesTypeOK
<1> QED BY <1>1, DevicesBegin, DevicesStep, PTL DEF DevicesSpec
=============================================================================
