--------------------------- MODULE JoypadsProofs ---------------------------
(* Proofs about automatic joypad polling: a sequence that nobody disturbs   *)
(* delivers the buttons of one moment, for gamepads of any length, and each *)
(* field has one sequence that ends in it, for any beam it fits into.       *)
EXTENDS Joypads, TLAPS

\* The last n bits of joy1 are the first n buttons.
Holds(n) == \A i \in 1..n : joy1[Bits - n + i] = buttons[i]

\* Where an undisturbed sequence is, the gamepad and joy1 are.
Started == autoJoypadCounter = 0 => latched = autoJoypadLatch /\ (latched \/ counter = 0)
Fetched == \A m \in 1..Bits : autoJoypadCounter = 2 * m =>
  ~latched /\ counter = m /\ autoJoypadPort1 = buttons[m] /\ Holds(m - 1)
Shifted == \A m \in 0..(Bits - 1) : autoJoypadCounter = 2 * m + 1 =>
  ~latched /\ counter = m /\ Holds(m)
PollInStep == undisturbed /\ autoJoypadCounter # Inactive => ~cpuLatch /\ Started /\ Fetched /\ Shifted

IInv == JoypadTypeOK /\ PollInStep

-----------------------------------------------------------------------------
(* Helpers. *)

LEMMA ModType == ASSUME NEW a \in Nat, NEW b \in Nat \ {0} PROVE a % b \in 0..(b - 1)
OBVIOUS

LEMMA Constants ==
  /\ Bits \in Nat /\ Bits >= 1 /\ Inactive = 2 * Bits + 1 /\ Inactive \in Nat
  /\ 2 * K \in Nat \ {0} /\ HPeriod \in Nat \ {0} /\ VPeriod \in Nat \ {0}
BY JoypadsAssumption DEF Inactive

LEMMA ZeroType == Zero \in Words
BY DEF Zero, Words

\* The two kinds of edge.
LEMMA Halves ==
  ASSUME NEW n \in Nat
  PROVE  /\ n % 2 = 0 => \E m \in Nat : n = 2 * m
         /\ n % 2 = 1 => \E m \in Nat : n = 2 * m + 1
<1>1. n \div 2 \in Nat
  OBVIOUS
<1>2. n % 2 = 0 => n = 2 * (n \div 2)
  OBVIOUS
<1>3. n % 2 = 1 => n = 2 * (n \div 2) + 1
  OBVIOUS
<1> QED BY <1>1, <1>2, <1>3

LEMMA LatchType ==
  ASSUME JoypadTypeOK, NEW level \in BOOLEAN, latch(level)
  PROVE  latched' \in BOOLEAN /\ counter' \in 0..Bits /\ buttons' \in Words
BY Constants DEF latch, gamepad, JoypadTypeOK

LEMMA DataType ==
  ASSUME JoypadTypeOK, NEW bit, data(bit)
  PROVE  latched' \in BOOLEAN /\ counter' \in 0..Bits /\ buttons' \in Words
BY Constants DEF data, JoypadTypeOK

TimeType == v \in 0..(VPeriod - 1) /\ h \in 0..(HPeriod - 1) /\ cpu \in 0..(2 * K - 1)
PadType  == latched \in BOOLEAN /\ counter \in 0..Bits /\ buttons \in Words
PollType == /\ autoJoypadCounter \in 0..Inactive /\ autoJoypadPort1 \in BOOLEAN
            /\ autoJoypadLatch \in BOOLEAN /\ joy1 \in Words /\ begun \in 0..2
RestType == cpuLatch \in BOOLEAN /\ autoJoypadPoll \in BOOLEAN /\ undisturbed \in BOOLEAN

LEMMA TypeParts == JoypadTypeOK <=> TimeType /\ PadType /\ PollType /\ RestType
BY DEF JoypadTypeOK, TimeType, PadType, PollType, RestType

LEMMA TypeJoin == ASSUME TimeType', PadType', PollType', RestType' PROVE JoypadTypeOK'
BY DEF JoypadTypeOK, TimeType, PadType, PollType, RestType

LEMMA NewGamepadType == ASSUME NewGamepad PROVE PadType'
<1>1. counter' \in 0..Bits /\ buttons' \in Words
  BY Constants, ZeroType DEF NewGamepad
<1>2. latched' \in BOOLEAN
  BY DEF NewGamepad
<1> QED BY <1>1, <1>2 DEF PadType

LEMMA AdvanceType == ASSUME JoypadTypeOK, Advance PROVE TimeType'
<1>1. v + 1 \in Nat /\ h + 1 \in Nat /\ cpu + 1 \in Nat
  BY DEF JoypadTypeOK
<1>2. (v + 1) % VPeriod \in 0..(VPeriod - 1)
  BY <1>1, ModType, Constants
<1>3. (h + 1) % HPeriod \in 0..(HPeriod - 1)
  BY <1>1, ModType, Constants
<1>4. (cpu + 1) % (2 * K) \in 0..(2 * K - 1)
  BY <1>1, ModType, Constants
<1> QED BY <1>2, <1>3, <1>4 DEF Advance, nextLine, TimeType, JoypadTypeOK

LEMMA LastType == ASSUME JoypadTypeOK PROVE last \in 0..Inactive /\ Earlier \in 0..2
BY Constants DEF last, Earlier, JoypadTypeOK

-----------------------------------------------------------------------------
(* Types. *)

LEMMA InitIInv == JoypadInit => IInv
<1> SUFFICES ASSUME JoypadInit PROVE IInv
  OBVIOUS
<1>1. JoypadTypeOK
  <2>1. 0 \in 0..(VPeriod - 1) /\ 0 \in 0..(HPeriod - 1) /\ 0 \in 0..(2 * K - 1)
    BY Constants
  <2>2. TimeType
    BY <2>1 DEF JoypadInit, TimeType
  <2>3. PadType
    <3>1. counter \in 0..Bits /\ buttons \in Words
      BY Constants, ZeroType DEF JoypadInit
    <3>2. latched \in BOOLEAN
      BY DEF JoypadInit
    <3> QED BY <3>1, <3>2 DEF PadType
  <2>4. PollType
    <3>1. autoJoypadCounter \in 0..Inactive /\ joy1 \in Words /\ begun \in 0..2
      BY Constants, ZeroType DEF JoypadInit
    <3>2. autoJoypadPort1 \in BOOLEAN /\ autoJoypadLatch \in BOOLEAN
      BY DEF JoypadInit
    <3> QED BY <3>1, <3>2 DEF PollType
  <2>5. RestType
    BY DEF JoypadInit, RestType
  <2> QED BY <2>2, <2>3, <2>4, <2>5, TypeParts
<1> QED BY <1>1 DEF JoypadInit, IInv, PollInStep

\* The edges of joypadEdge(), and the ticks between them.
LEMMA EdgeType == ASSUME JoypadTypeOK, Tick \/ joypadEdge PROVE JoypadTypeOK'
<1>1. TimeType' /\ cpuLatch' = cpuLatch /\ autoJoypadPoll' = autoJoypadPoll
  BY AdvanceType DEF Tick, joypadEdge, BeginSequence, Release, Abandon, ReadBit, ShiftIn, Edge,
     Advance
<1>2. last \in 0..Inactive /\ Earlier \in 0..2 /\ TimeType /\ PadType /\ PollType /\ RestType
  BY LastType, TypeParts
<1>3. CASE Tick
  <2>1. PadType' /\ PollType' /\ RestType'
    BY <1>1, <1>2, <1>3 DEF Tick, Quiet, Same, gamepad, PadType, PollType, RestType
  <2> QED BY <1>1, <2>1, TypeJoin
<1>4. CASE BeginSequence
  <2>1. PadType'
    <3>1. (autoJoypadPoll \/ cpuLatch) \in BOOLEAN
      OBVIOUS
    <3> QED BY <1>4, <3>1, LatchType DEF BeginSequence, PadType
  <2>2. PollType'
    <3>1. autoJoypadCounter' \in 0..Inactive
      BY <1>4, Constants DEF BeginSequence
    <3>2. begun' \in 0..2
      BY <1>2, <1>4 DEF BeginSequence
    <3>3. joy1' \in Words /\ autoJoypadLatch' \in BOOLEAN /\ autoJoypadPort1' \in BOOLEAN
      BY <1>2, <1>4, ZeroType DEF BeginSequence, PollType, RestType
    <3> QED BY <3>1, <3>2, <3>3 DEF PollType
  <2>3. RestType'
    BY <1>1, <1>2, <1>4 DEF BeginSequence, RestType
  <2> QED BY <1>1, <2>1, <2>2, <2>3, TypeJoin
<1>5. CASE Release
  <2>1. PadType'
    BY <1>2, <1>5, LatchType DEF Release, RestType, PadType
  <2>2. autoJoypadLatch' \in BOOLEAN
    BY <1>5 DEF Release
  <2>3. PollType' /\ RestType'
    BY <1>1, <1>2, <1>5, <2>2, Constants DEF Release, Edge, PollType, RestType
  <2> QED BY <1>1, <2>1, <2>3, TypeJoin
<1>6. CASE Abandon
  <2>1. PadType' /\ PollType' /\ RestType'
    BY <1>1, <1>2, <1>6, Constants DEF Abandon, Edge, Same, gamepad, PadType, PollType, RestType
  <2> QED BY <1>1, <2>1, TypeJoin
<1>7. CASE ReadBit
  <2>1. PadType'
    BY <1>7, DataType DEF ReadBit, PadType
  <2>2. autoJoypadCounter' \in 0..Inactive /\ begun' \in 0..2
    BY <1>2, <1>7, Constants DEF ReadBit, Edge
  <2>3. /\ autoJoypadPort1' \in BOOLEAN /\ autoJoypadLatch' = autoJoypadLatch /\ joy1' = joy1
        /\ undisturbed' = undisturbed
    BY <1>7 DEF ReadBit, Edge
  <2>4. PollType'
    <3>1. joy1' \in Words
      BY <1>2, <2>3 DEF PollType
    <3>2. autoJoypadLatch' \in BOOLEAN
      BY <1>2, <2>3, Zenon DEF PollType
    <3> QED BY <2>2, <2>3, <3>1, <3>2 DEF PollType
  <2>5. RestType'
    BY <1>1, <1>2, <2>3 DEF RestType
  <2> QED BY <1>1, <2>1, <2>4, <2>5, TypeJoin
<1>8. CASE ShiftIn
  <2>1. joy1' \in Words
    <3>1. \A i \in 1..Bits : (IF i = Bits THEN autoJoypadPort1 ELSE joy1[i + 1]) \in BOOLEAN
      BY <1>2, Constants DEF PollType, Words
    <3> QED BY <1>8, <3>1 DEF ShiftIn, Shift, Words
  <2>2. PadType' /\ PollType' /\ RestType'
    BY <1>1, <1>2, <1>8, <2>1, Constants DEF ShiftIn, Edge, gamepad, PadType, PollType, RestType
  <2> QED BY <1>1, <2>2, TypeJoin
<1> QED BY <1>3, <1>4, <1>5, <1>6, <1>7, <1>8 DEF joypadEdge

\* The program's accesses, and the user's.
LEMMA AccessType ==
  ASSUME JoypadTypeOK, Read4016 \/ Write4016 \/ Write4200 \/ Connect PROVE JoypadTypeOK'
<1>1. TimeType' /\ begun' = begun
  BY TypeParts DEF Read4016, Write4016, Write4200, Connect, Access, time, TimeType
<1>2. PadType /\ PollType /\ RestType
  BY TypeParts
<1>3. CASE Read4016
  <2>1. PadType'
    BY <1>3, DataType DEF Read4016, PadType
  <2> QED BY <1>1, <1>2, <1>3, <2>1, TypeJoin DEF Read4016, poll, PollType, RestType
<1>4. CASE Write4016
  <2>1. PICK level \in BOOLEAN : cpuLatch' = level /\ latch(autoJoypadLatch \/ level)
    BY <1>4 DEF Write4016
  <2>2. PadType'
    BY <2>1, LatchType DEF PadType
  <2> QED BY <1>1, <1>2, <1>4, <2>1, <2>2, TypeJoin DEF Write4016, poll, PollType, RestType
<1>5. CASE Write4200
  <2>1. PICK on \in BOOLEAN :
       /\ autoJoypadPoll' = on
       /\ autoJoypadLatch' = IF autoJoypadCounter = 0 THEN on ELSE autoJoypadLatch
       /\ IF autoJoypadCounter = 0 THEN latch(on \/ cpuLatch) ELSE UNCHANGED gamepad
       /\ autoJoypadCounter' = IF ~on /\ autoJoypadCounter >= 2 THEN Inactive
                               ELSE autoJoypadCounter
    BY <1>5 DEF Write4200
  <2>2. PadType'
    BY <1>2, <2>1, LatchType DEF PadType, gamepad
  <2>3. PollType' /\ RestType'
    BY <1>1, <1>2, <1>5, <2>1, Constants DEF Write4200, PollType, RestType
  <2> QED BY <1>1, <2>2, <2>3, TypeJoin
<1>6. CASE Connect
  <2>1. PadType'
    BY <1>6, NewGamepadType DEF Connect
  <2> QED BY <1>1, <1>2, <1>6, <2>1, TypeJoin DEF Connect, poll, PollType, RestType
<1> QED BY <1>3, <1>4, <1>5, <1>6

LEMMA PowerType == ASSUME Power PROVE JoypadTypeOK'
<1>1. 0 \in 0..(VPeriod - 1) /\ 0 \in 0..(HPeriod - 1) /\ 0 \in 0..(2 * K - 1)
  BY Constants
<1>2. TimeType' /\ RestType'
  BY <1>1 DEF Power, TimeType, RestType
<1>3. PadType'
  BY NewGamepadType DEF Power
<1>4. PollType'
  <2>1. autoJoypadCounter' \in 0..Inactive /\ joy1' \in Words /\ begun' \in 0..2
    BY Constants, ZeroType DEF Power
  <2>2. autoJoypadPort1' \in BOOLEAN /\ autoJoypadLatch' \in BOOLEAN
    BY DEF Power
  <2> QED BY <2>1, <2>2 DEF PollType
<1> QED BY <1>2, <1>3, <1>4, TypeJoin

LEMMA NextType == ASSUME JoypadTypeOK, [JoypadNext]_joypadVars PROVE JoypadTypeOK'
<1>1. CASE JoypadNext
  BY <1>1, EdgeType, AccessType, PowerType DEF JoypadNext
<1>2. CASE UNCHANGED joypadVars
  BY <1>2 DEF joypadVars, time, gamepad, poll, JoypadTypeOK
<1> QED BY <1>1, <1>2

-----------------------------------------------------------------------------
(* The gamepad keeps in step with an undisturbed sequence. *)

\* A bit that is shifted in takes its place behind the others.
LEMMA ShiftHolds ==
  ASSUME joy1 \in Words, NEW m \in 1..Bits, Holds(m - 1), autoJoypadPort1 = buttons[m],
         joy1' = Shift(autoJoypadPort1), buttons' = buttons
  PROVE  Holds(m)'
<1> SUFFICES ASSUME NEW i \in 1..m PROVE joy1'[Bits - m + i] = buttons[i]
  BY DEF Holds
<1>1. Bits - m + i \in 1..Bits
  BY Constants
<1>2. CASE i = m
  <2>1. joy1'[Bits] = autoJoypadPort1
    BY Constants DEF Shift
  <2> QED BY <1>2, <2>1, Constants
<1>3. CASE i # m
  <2>1. i \in 1..(m - 1) /\ Bits - m + i # Bits /\ Bits - m + i + 1 = Bits - (m - 1) + i
    BY <1>3, Constants
  <2>2. joy1'[Bits - m + i] = joy1[Bits - m + i + 1]
    BY <1>1, <2>1 DEF Shift
  <2> QED BY <2>1, <2>2 DEF Holds
<1> QED BY <1>2, <1>3

\* The steps that leave the gamepad and what was read of it alone.
LEMMA SameInStep ==
  ASSUME PollInStep, autoJoypadCounter' \in {autoJoypadCounter, Inactive},
         UNCHANGED <<latched, counter, buttons, autoJoypadPort1, autoJoypadLatch, joy1,
                     cpuLatch, undisturbed>>
  PROVE  PollInStep'
BY DEF PollInStep, Started, Fetched, Shifted, Holds

LEMMA BeginInStep == ASSUME JoypadTypeOK, BeginSequence PROVE PollInStep'
<1> SUFFICES ASSUME undisturbed', autoJoypadCounter' # Inactive
             PROVE  (~cpuLatch /\ Started /\ Fetched /\ Shifted)'
  BY DEF PollInStep
<1>1. autoJoypadPoll /\ autoJoypadCounter' = 0 /\ ~cpuLatch /\ ~cpuLatch'
  BY DEF BeginSequence, Advance
<1>2. autoJoypadLatch' = TRUE /\ latched' = TRUE
  BY <1>1 DEF BeginSequence, latch, gamepad, JoypadTypeOK
<1>3. Fetched' /\ Shifted'
  BY <1>1, Constants DEF Fetched, Shifted
<1> QED BY <1>1, <1>2, <1>3 DEF Started

\* An edge of a sequence comes from the counter before it.
LEMMA EdgeFrom ==
  ASSUME JoypadTypeOK, NEW n, Edge(n)
  PROVE  autoJoypadCounter # Inactive /\ autoJoypadCounter \in Nat /\ n = autoJoypadCounter + 1
BY Constants DEF Edge, last, JoypadTypeOK

LEMMA ReleaseInStep == ASSUME JoypadTypeOK, PollInStep, Release PROVE PollInStep'
<1>1. autoJoypadCounter = 0 /\ autoJoypadCounter # Inactive /\ autoJoypadCounter' = 1
  BY EdgeFrom DEF Release
<1> SUFFICES ASSUME undisturbed' PROVE (~cpuLatch /\ Started /\ Fetched /\ Shifted)'
  BY DEF PollInStep
<1>2. ~cpuLatch /\ Started /\ undisturbed /\ cpuLatch' = cpuLatch
  BY <1>1 DEF PollInStep, Release, Edge, Advance
<1>3. latched' = FALSE /\ counter' = 0
  BY <1>1, <1>2 DEF Started, Release, latch, gamepad, JoypadTypeOK
<1>4. Started' /\ Fetched'
  BY <1>1, Constants DEF Started, Fetched
<1>5. Shifted'
  BY <1>1, <1>3, Constants DEF Shifted, Holds
<1> QED BY <1>2, <1>4, <1>5

LEMMA ReadInStep == ASSUME JoypadTypeOK, PollInStep, ReadBit PROVE PollInStep'
<1>1. PICK n \in 2..Inactive : Edge(n) /\ n % 2 = 0 /\ autoJoypadCounter' = n
  BY DEF ReadBit
<1>2. PICK m \in Nat : n = 2 * m
  BY <1>1, Halves, Constants
<1>3. m \in 1..Bits /\ m - 1 \in 0..(Bits - 1) /\ autoJoypadCounter = 2 * (m - 1) + 1
  BY <1>1, <1>2, EdgeFrom, Constants
<1> SUFFICES ASSUME undisturbed' PROVE (~cpuLatch /\ Started /\ Fetched /\ Shifted)'
  BY DEF PollInStep
<1>4. undisturbed /\ autoJoypadCounter # Inactive /\ cpuLatch' = cpuLatch
  BY <1>1, EdgeFrom DEF Edge, Advance
<1>5. ~cpuLatch /\ ~latched /\ counter = m - 1 /\ Holds(m - 1)
  BY <1>3, <1>4 DEF PollInStep, Shifted
<1>6. latched' = latched /\ buttons' = buttons /\ joy1' = joy1
  BY DEF ReadBit, data
<1>7. counter' = m
  BY <1>3, <1>5, Constants DEF ReadBit, data
<1>8. autoJoypadPort1' = buttons[m]
  <2>1. PICK bit \in BOOLEAN : Sends(bit) /\ autoJoypadPort1' = bit
    BY DEF ReadBit, data
  <2>2. counter # Bits /\ counter + 1 = m
    BY <1>3, <1>5, Constants
  <2>3. autoJoypadPort1' \in {buttons[counter + 1]}
    BY <1>5, <2>1, <2>2, Zenon DEF Sends
  <2> QED BY <2>2, <2>3
<1>9. Holds(m - 1)'
  BY <1>5, <1>6 DEF Holds
<1>10. autoJoypadCounter' = 2 * m
  BY <1>1, <1>2
<1>11. Fetched'
  <2> SUFFICES ASSUME NEW k \in 1..Bits, autoJoypadCounter' = 2 * k
               PROVE (~latched /\ counter = k /\ autoJoypadPort1 = buttons[k] /\ Holds(k - 1))'
    BY DEF Fetched
  <2>1. k = m
    BY <1>10, <1>3
  <2> QED BY <1>5, <1>6, <1>7, <1>8, <1>9, <2>1
<1>12. Started' /\ Shifted'
  BY <1>3, <1>10, Constants DEF Started, Shifted
<1> QED BY <1>4, <1>5, <1>11, <1>12

\* What an edge that shifts a bit in does to an undisturbed sequence.
LEMMA ShiftStep ==
  ASSUME JoypadTypeOK, PollInStep, ShiftIn, undisturbed
  PROVE  \E m \in 1..Bits : /\ autoJoypadCounter = 2 * m /\ autoJoypadCounter' = 2 * m + 1
                            /\ ~cpuLatch /\ ~cpuLatch' /\ ~latched' /\ counter' = m /\ Holds(m)'
<1>1. PICK n \in 2..Inactive : Edge(n) /\ n % 2 = 1 /\ autoJoypadCounter' = n
  BY DEF ShiftIn
<1>2. PICK m \in Nat : n = 2 * m + 1
  BY <1>1, Halves, Constants
<1>3. m \in 1..Bits /\ autoJoypadCounter = 2 * m /\ autoJoypadCounter # Inactive
  BY <1>1, <1>2, EdgeFrom, Constants
<1>4. ~cpuLatch /\ ~latched /\ counter = m /\ autoJoypadPort1 = buttons[m] /\ Holds(m - 1)
  BY <1>3 DEF PollInStep, Fetched
<1>5. latched' = latched /\ counter' = counter /\ buttons' = buttons /\ cpuLatch' = cpuLatch
  BY <1>1 DEF ShiftIn, gamepad, Edge, Advance
<1>6. Holds(m)'
  BY <1>3, <1>4, <1>5, ShiftHolds DEF ShiftIn, JoypadTypeOK
<1> QED BY <1>1, <1>2, <1>3, <1>4, <1>5, <1>6

LEMMA ShiftInStep == ASSUME JoypadTypeOK, PollInStep, ShiftIn PROVE PollInStep'
<1> SUFFICES ASSUME undisturbed', autoJoypadCounter' # Inactive
             PROVE  (~cpuLatch /\ Started /\ Fetched /\ Shifted)'
  BY DEF PollInStep
<1>1. undisturbed
  BY DEF ShiftIn, Edge
<1>2. PICK m \in 1..Bits :
        /\ autoJoypadCounter = 2 * m /\ autoJoypadCounter' = 2 * m + 1
        /\ ~cpuLatch /\ ~cpuLatch' /\ ~latched' /\ counter' = m /\ Holds(m)'
  BY <1>1, ShiftStep
<1>3. Shifted'
  <2> SUFFICES ASSUME NEW k \in 0..(Bits - 1), autoJoypadCounter' = 2 * k + 1
               PROVE (~latched /\ counter = k /\ Holds(k))'
    BY DEF Shifted
  <2>1. k = m
    BY <1>2
  <2> QED BY <1>2, <2>1
<1>4. Started' /\ Fetched'
  BY <1>2, Constants DEF Started, Fetched
<1> QED BY <1>2, <1>3, <1>4

LEMMA EnableInStep == ASSUME JoypadTypeOK, PollInStep, Write4200 PROVE PollInStep'
<1>1. PICK on \in BOOLEAN :
        /\ autoJoypadLatch' = IF autoJoypadCounter = 0 THEN on ELSE autoJoypadLatch
        /\ IF autoJoypadCounter = 0 THEN latch(on \/ cpuLatch) ELSE UNCHANGED gamepad
        /\ autoJoypadCounter' = IF ~on /\ autoJoypadCounter >= 2 THEN Inactive
                                ELSE autoJoypadCounter
  BY DEF Write4200
<1>2. UNCHANGED <<autoJoypadPort1, joy1, cpuLatch, undisturbed>>
  BY DEF Write4200
<1>3. CASE autoJoypadCounter = 0
  <2>1. autoJoypadCounter' = 0 /\ autoJoypadCounter # Inactive
    BY <1>1, <1>3, Constants
  <2> SUFFICES ASSUME undisturbed PROVE (~cpuLatch /\ Started /\ Fetched /\ Shifted)'
    BY <1>2 DEF PollInStep
  <2>2. ~cpuLatch /\ Started
    BY <2>1 DEF PollInStep
  <2>3. latched' = on /\ autoJoypadLatch' = on /\ (latched' \/ counter' = 0)
    BY <1>1, <1>3, <2>2 DEF Started, latch, gamepad, JoypadTypeOK
  <2>4. Fetched' /\ Shifted'
    BY <2>1, Constants DEF Fetched, Shifted
  <2> QED BY <1>2, <2>2, <2>3, <2>4 DEF Started
<1>4. CASE autoJoypadCounter # 0
  BY <1>1, <1>2, <1>4, SameInStep DEF gamepad
<1> QED BY <1>3, <1>4

LEMMA NextIInv == IInv /\ [JoypadNext]_joypadVars => IInv'
<1> SUFFICES ASSUME IInv, [JoypadNext]_joypadVars PROVE IInv'
  OBVIOUS
<1>1. JoypadTypeOK /\ PollInStep /\ JoypadTypeOK'
  BY NextType DEF IInv
<1>2. CASE Tick
  BY <1>1, <1>2, SameInStep DEF Tick, Advance, Quiet, Same, last, gamepad, IInv
<1>3. CASE BeginSequence
  BY <1>1, <1>3, BeginInStep DEF IInv
<1>4. CASE Release
  BY <1>1, <1>4, ReleaseInStep DEF IInv
<1>5. CASE Abandon
  BY <1>1, <1>5, SameInStep DEF Abandon, Edge, Advance, Same, gamepad, IInv
<1>6. CASE ReadBit
  BY <1>1, <1>6, ReadInStep DEF IInv
<1>7. CASE ShiftIn
  BY <1>1, <1>7, ShiftInStep DEF IInv
<1>8. CASE Write4200
  BY <1>1, <1>8, EnableInStep DEF IInv
<1>9. CASE Read4016 \/ Write4016 \/ Connect \/ Power
  <2>1. ~undisturbed'
    BY <1>9 DEF Read4016, Write4016, Connect, Power
  <2> QED BY <1>1, <2>1 DEF IInv, PollInStep
<1>10. CASE UNCHANGED joypadVars
  BY <1>1, <1>10, SameInStep DEF joypadVars, time, gamepad, poll, IInv
<1> QED BY <1>2, <1>3, <1>4, <1>5, <1>6, <1>7, <1>8, <1>9, <1>10 DEF JoypadNext, joypadEdge

-----------------------------------------------------------------------------
THEOREM JoypadsInductive == JoypadSpec => []IInv
BY InitIInv, NextIInv, PTL DEF JoypadSpec

\* Every variable keeps its type, for any number of buttons and any beam.
THEOREM JoypadsTypes == JoypadSpec => []JoypadTypeOK
<1>1. IInv => JoypadTypeOK
  BY DEF IInv
<1> QED BY <1>1, JoypadsInductive, PTL

LEMMA WholeStep ==
  ASSUME IInv, JoypadNext, autoJoypadCounter = 2 * Bits, autoJoypadCounter' = Inactive,
         autoJoypadPoll', undisturbed, v' # 0
  PROVE  joy1' = buttons
<1>1. autoJoypadCounter # Inactive /\ autoJoypadCounter >= 2 /\ JoypadTypeOK /\ PollInStep
  BY Constants DEF IInv
<1>2. ShiftIn
  <2>1. ~Read4016 /\ ~Write4016 /\ ~Connect
    BY <1>1 DEF Read4016, Write4016, Connect, poll
  <2>2. ~Power /\ ~Write4200
    BY <1>1 DEF Power, Write4200
  <2>0. 1 # Inactive /\ 0 # Inactive
    BY Constants
  <2>3. ~BeginSequence /\ ~Abandon /\ ~Release
    <3>1. ASSUME Advance PROVE autoJoypadPoll
      BY <3>1, Zenon DEF Advance
    <3>2. ~Abandon
      BY <3>1 DEF Abandon, Edge
    <3>3. ~Release
      BY <2>0 DEF Release
    <3>4. ~BeginSequence
      BY <2>0, <3>1 DEF BeginSequence
    <3> QED BY <3>2, <3>3, <3>4
  <2>4. ~ReadBit
    <3> SUFFICES ASSUME NEW n \in 2..Inactive, n % 2 = 0, n = Inactive PROVE FALSE
      BY DEF ReadBit
    <3> QED BY Constants
  <2>5. ~Tick
    <3>1. ASSUME Tick, NewField PROVE v' = 0
      <4>1. nextLine = (v + 1) % VPeriod /\ v + 1 = VPeriod
        BY <3>1, Constants DEF NewField, nextLine
      <4>2. VPeriod % VPeriod = 0
        BY Constants
      <4> QED BY <3>1, <4>1, <4>2 DEF Tick, Advance
    <3>2. ASSUME Tick, ~NewField PROVE FALSE
      BY <1>1, <3>2 DEF Tick, last
    <3> QED BY <3>1, <3>2
  <2> QED BY <2>1, <2>2, <2>3, <2>4, <2>5 DEF JoypadNext, joypadEdge
<1>3. PICK m \in 1..Bits : autoJoypadCounter = 2 * m /\ Holds(m)'
  BY <1>1, <1>2, ShiftStep
<1>4. m = Bits
  BY <1>3, Constants
<1>5. \A i \in 1..Bits : joy1'[i] = buttons'[i]
  BY <1>3, <1>4, Constants DEF Holds
<1>6. joy1' \in Words /\ buttons' \in Words /\ buttons' = buttons
  BY <1>1, <1>2, NextType DEF JoypadTypeOK, ShiftIn, gamepad
<1>7. joy1' = [i \in 1..Bits |-> joy1'[i]] /\ buttons' = [i \in 1..Bits |-> buttons'[i]]
  BY <1>6 DEF Words
<1>8. joy1' = buttons'
  BY <1>5, <1>7
<1> QED BY <1>6, <1>8

\* joypadEdge() delivers the buttons as they were when the latch was released,
\* all of them and in their places, however many there are.
THEOREM ReadsWhole == JoypadSpec => AutoReadWhole
<1>1. ASSUME IInv, [JoypadNext]_joypadVars
      PROVE  [autoJoypadCounter = 2 * Bits /\ autoJoypadCounter' = Inactive
              /\ autoJoypadPoll' /\ undisturbed /\ v' # 0 => joy1' = buttons]_joypadVars
  BY <1>1, WholeStep
<1> QED BY <1>1, JoypadsInductive, PTL DEF JoypadSpec, AutoReadWhole

LEMMA BusyStep == ASSUME JoypadTypeOK, JoypadNext, joy1' # joy1, autoJoypadPoll' PROVE busy \/ busy'
<1>1. BeginSequence \/ ShiftIn
  BY DEF JoypadNext, joypadEdge, Tick, Release, Abandon, ReadBit, Same, Read4016, Write4016, Write4200,
     Connect, Power, poll
<1>2. CASE BeginSequence
  BY <1>2, Constants DEF BeginSequence, Advance, busy
<1>3. CASE ShiftIn
  BY <1>3, EdgeFrom, Constants DEF ShiftIn, busy, JoypadTypeOK
<1> QED BY <1>1, <1>2, <1>3

\* A program that waits until $4212 says that polling is over reads a stable $4218.
THEOREM StableWhenNotBusy == JoypadSpec => ChangesWhileBusy
<1>1. ASSUME JoypadTypeOK, [JoypadNext]_joypadVars
      PROVE  [joy1' # joy1 /\ autoJoypadPoll' => busy \/ busy']_joypadVars
  BY <1>1, BusyStep
<1> QED BY <1>1, JoypadsTypes, PTL DEF JoypadSpec, ChangesWhileBusy

-----------------------------------------------------------------------------
(* The beam, the CPU's counter and the pace of a sequence. *)

\* What the beam and the CPU's counter have to do with the sequence: it has begun
\* in this field once the counter has come round inside the window,
BegunByNow == IF v < Vdisp THEN 0
              ELSE IF v > Vdisp THEN 1
              ELSE IF h - cpu >= Begin THEN 1 ELSE 0
OnceInv == begun = BegunByNow

\* and while it is under way, the ticks since line Vdisp are those before it began
\* and those of its edges.
SinceEdge  == IF cpu < K THEN cpu ELSE cpu - K
SinceVdisp == (v - Vdisp) * HPeriod + h
Paced == autoJoypadCounter # Inactive =>
  /\ v >= Vdisp
  /\ SinceVdisp - (K * autoJoypadCounter + SinceEdge) <= Begin + 2 * K - 1

TimeInv == JoypadTypeOK /\ OnceInv /\ Paced

LEMMA Bounds ==
  /\ K \in Nat \ {0} /\ HPeriod \in Nat \ {0} /\ VPeriod \in Nat /\ Begin \in Nat
  /\ Vdisp \in Nat \ {0} /\ Vdisp < VPeriod /\ Begin + 2 * K <= HPeriod
BY JoypadsAssumption, WindowAssumption

LEMMA ModNext == ASSUME NEW n \in Nat \ {0}, NEW a \in 0..(n - 1)
                 PROVE  (a + 1) % n = IF a = n - 1 THEN 0 ELSE a + 1
<1>1. CASE a = n - 1
  BY <1>1
<1>2. CASE a # n - 1
  BY <1>2
<1> QED BY <1>1, <1>2

\* A tick moves the beam, and the counter, by one.
LEMMA Beam ==
  ASSUME JoypadTypeOK, Advance
  PROVE  /\ v' = IF h = HPeriod - 1 THEN IF v = VPeriod - 1 THEN 0 ELSE v + 1 ELSE v
         /\ h' = IF h = HPeriod - 1 THEN 0 ELSE h + 1
         /\ cpu' = IF cpu = 2 * K - 1 THEN 0 ELSE cpu + 1
<1>1. (v + 1) % VPeriod = IF v = VPeriod - 1 THEN 0 ELSE v + 1
  BY ModNext, Constants DEF JoypadTypeOK
<1>2. (h + 1) % HPeriod = IF h = HPeriod - 1 THEN 0 ELSE h + 1
  BY ModNext, Constants DEF JoypadTypeOK
<1>3. (cpu + 1) % (2 * K) = IF cpu = 2 * K - 1 THEN 0 ELSE cpu + 1
  BY ModNext, Constants DEF JoypadTypeOK
<1> QED BY <1>1, <1>2, <1>3 DEF Advance, nextLine

LEMMA Begins ==
  ASSUME JoypadTypeOK, Advance
  PROVE  BeginsNow <=> v' = Vdisp /\ cpu = 2 * K - 1 /\ h' >= Begin /\ h' <= Begin + 2 * K - 1
<1>1. (cpu + 1) % (2 * K) = 0 <=> cpu = 2 * K - 1
  <2>1. (cpu + 1) % (2 * K) = IF cpu = 2 * K - 1 THEN 0 ELSE cpu + 1
    BY ModNext, Constants DEF JoypadTypeOK
  <2> QED BY <2>1 DEF JoypadTypeOK
<1> QED BY <1>1 DEF BeginsNow, InWindow, Advance

LEMMA Due == ASSUME JoypadTypeOK PROVE EdgeDue <=> cpu = K - 1 \/ cpu = 2 * K - 1
<1>1. cpu \in 0..(2 * K - 1) /\ K \in Nat \ {0}
  BY Bounds DEF JoypadTypeOK
<1>2. CASE cpu < K
  <2>1. (cpu + 1) % K = IF cpu = K - 1 THEN 0 ELSE cpu + 1
    BY <1>1, <1>2, ModNext
  <2> QED BY <1>1, <1>2, <2>1 DEF EdgeDue
<1>3. CASE cpu >= K
  <2>0. cpu - K \in 0..(K - 1)
    BY <1>1, <1>3
  <2>1. (cpu - K + 1) % K = IF cpu - K = K - 1 THEN 0 ELSE cpu - K + 1
    BY <1>1, <2>0, ModNext
  <2>2. (cpu + 1) % K = (cpu - K + 1) % K
    BY <1>1, <1>3
  <2> QED BY <1>1, <1>3, <2>1, <2>2 DEF EdgeDue
<1> QED BY <1>1, <1>2, <1>3

\* Every tick begins a sequence, or leaves begun to scanline().
LEMMA TickParts ==
  ASSUME JoypadTypeOK, Tick \/ joypadEdge
  PROVE  /\ Advance
         /\ begun' = IF BeginsNow THEN IF Earlier = 2 THEN 2 ELSE Earlier + 1 ELSE Earlier
<1>1. BeginsNow => EdgeDue
  BY Begins, Due DEF Tick, joypadEdge, BeginSequence, Release, Abandon, ReadBit, ShiftIn, Edge
<1> QED BY <1>1 DEF Tick, Quiet, joypadEdge, BeginSequence, Release, Abandon, ReadBit, ShiftIn, Edge

LEMMA TickOnce == ASSUME JoypadTypeOK, OnceInv, Tick \/ joypadEdge PROVE OnceInv'
<1>1. /\ v' = IF h = HPeriod - 1 THEN IF v = VPeriod - 1 THEN 0 ELSE v + 1 ELSE v
      /\ h' = IF h = HPeriod - 1 THEN 0 ELSE h + 1
      /\ cpu' = IF cpu = 2 * K - 1 THEN 0 ELSE cpu + 1
      /\ BeginsNow <=> v' = Vdisp /\ cpu = 2 * K - 1 /\ h' >= Begin /\ h' <= Begin + 2 * K - 1
  BY TickParts, Beam, Begins
<1>2. begun' = IF BeginsNow THEN IF Earlier = 2 THEN 2 ELSE Earlier + 1 ELSE Earlier
  BY TickParts
<1>3. v \in 0..(VPeriod - 1) /\ h \in 0..(HPeriod - 1) /\ cpu \in 0..(2 * K - 1)
  BY DEF JoypadTypeOK
<1>4. CASE NewField
  BY <1>1, <1>2, <1>3, <1>4, Bounds DEF NewField, Earlier, OnceInv, BegunByNow
<1>5. CASE ~NewField
  <2>1. Earlier = BegunByNow
    BY <1>5 DEF Earlier, OnceInv
  <2>2. CASE h = HPeriod - 1
    BY <1>1, <1>2, <1>3, <1>5, <2>1, <2>2, Bounds DEF NewField, OnceInv, BegunByNow
  <2>3. CASE h # HPeriod - 1
    BY <1>1, <1>2, <1>3, <2>1, <2>3, Bounds DEF OnceInv, BegunByNow
  <2> QED BY <2>2, <2>3
<1> QED BY <1>4, <1>5

\* The edges of a sequence keep its pace.
LEMMA PaceStep ==
  ASSUME JoypadTypeOK, Paced, Advance, autoJoypadCounter # Inactive, v' # 0,
         autoJoypadCounter' = IF EdgeDue THEN autoJoypadCounter + 1 ELSE autoJoypadCounter
  PROVE  Paced'
<1>1. v >= Vdisp /\ SinceVdisp - (K * autoJoypadCounter + SinceEdge) <= Begin + 2 * K - 1
  BY DEF Paced
<1>2. v \in Nat /\ h \in Nat /\ cpu \in 0..(2 * K - 1) /\ autoJoypadCounter \in Nat
  BY Constants DEF JoypadTypeOK
<1>3. v' >= Vdisp /\ SinceVdisp' = SinceVdisp + 1
  <2>1. CASE h = HPeriod - 1
    <3>1. v' = v + 1 /\ h' = 0
      BY <2>1, Beam
    <3>2. (v + 1 - Vdisp) * HPeriod = (v - Vdisp) * HPeriod + HPeriod
      BY <1>2, Bounds
    <3> QED BY <1>1, <1>2, <2>1, <3>1, <3>2, Bounds DEF SinceVdisp
  <2>2. CASE h # HPeriod - 1
    <3>1. v' = v /\ h' = h + 1
      BY <2>2, Beam
    <3> QED BY <1>1, <1>2, <3>1, Bounds DEF SinceVdisp
  <2> QED BY <2>1, <2>2
<1>4. K * autoJoypadCounter' + SinceEdge' = K * autoJoypadCounter + SinceEdge + 1
  <2>1. CASE EdgeDue
    <3>1. cpu' = IF cpu = 2 * K - 1 THEN 0 ELSE cpu + 1
      BY Beam
    <3>2. SinceEdge = K - 1 /\ SinceEdge' = 0
      BY <1>2, <2>1, <3>1, Due, Bounds DEF SinceEdge
    <3>3. K * (autoJoypadCounter + 1) = K * autoJoypadCounter + K
      BY <1>2, Bounds
    <3> QED BY <1>2, <2>1, <3>2, <3>3, Bounds
  <2>2. CASE ~EdgeDue
    <3>1. cpu' = cpu + 1 /\ cpu # K - 1 /\ cpu # 2 * K - 1
      BY <2>2, Beam, Due
    <3>2. SinceEdge' = SinceEdge + 1
      BY <1>2, <3>1, Bounds DEF SinceEdge
    <3> QED BY <1>2, <2>2, <3>2, Bounds DEF SinceEdge
  <2> QED BY <2>1, <2>2
<1>5. SinceVdisp \in Int /\ K * autoJoypadCounter + SinceEdge \in Int
  BY <1>2, Bounds DEF SinceVdisp, SinceEdge
<1> DEFINE A == SinceVdisp  B == K * autoJoypadCounter + SinceEdge
<1>6. A' - B' <= Begin + 2 * K - 1
  <2>1. A \in Int /\ B \in Int /\ A' = A + 1 /\ B' = B + 1 /\ A - B <= Begin + 2 * K - 1
    BY <1>1, <1>3, <1>4, <1>5
  <2> HIDE DEF A, B
  <2> QED BY <2>1, Bounds
<1> QED BY <1>3, <1>6 DEF Paced

\* No sequence is left when the field ends.
LEMMA FieldEnd == ASSUME JoypadTypeOK, Paced, NewField PROVE autoJoypadCounter = Inactive
<1> SUFFICES ASSUME autoJoypadCounter # Inactive PROVE FALSE
  OBVIOUS
<1>1. SinceVdisp - (K * autoJoypadCounter + SinceEdge) <= Begin + 2 * K - 1
  BY DEF Paced
<1>2. autoJoypadCounter \in 0..(2 * Bits) /\ cpu \in 0..(2 * K - 1)
  BY Constants DEF JoypadTypeOK
<1>3. SinceVdisp = HPeriod * (VPeriod - Vdisp) - 1
  <2>1. (VPeriod - 1 - Vdisp) * HPeriod = HPeriod * (VPeriod - Vdisp) - HPeriod
    BY Bounds
  <2> QED BY <2>1, Bounds DEF SinceVdisp, NewField
<1>4. K * autoJoypadCounter <= K * (2 * Bits)
  BY <1>2, Constants, Bounds
<1>5. SinceEdge \in 0..(K - 1)
  BY <1>2, Bounds DEF SinceEdge
<1>6. Begin + K * (2 * Bits) + 3 * K <= HPeriod * (VPeriod - Vdisp)
  <2>1. K * (2 * Bits + 3) = K * (2 * Bits) + 3 * K
    BY Constants, Bounds
  <2> QED BY <2>1, WindowAssumption, Constants, Bounds
<1> DEFINE X == K * autoJoypadCounter  Y == K * (2 * Bits)  Z == HPeriod * (VPeriod - Vdisp)
<1>7. X \in Int /\ Y \in Int /\ Z \in Int
  BY <1>2, Constants, Bounds
<1>8. Z - 1 - (X + SinceEdge) <= Begin + 2 * K - 1 /\ X <= Y /\ Begin + Y + 3 * K <= Z
  BY <1>1, <1>3, <1>4, <1>6
<1> HIDE DEF X, Y, Z
<1> QED BY <1>5, <1>7, <1>8, Bounds

LEMMA TickPaced == ASSUME JoypadTypeOK, Paced, Tick \/ joypadEdge PROVE Paced'
<1> SUFFICES ASSUME autoJoypadCounter' # Inactive PROVE Paced'
  BY DEF Paced
<1>0. Advance
  BY TickParts
<1>1. CASE BeginSequence
  <2>1. v' = Vdisp /\ cpu' = 0 /\ h' <= Begin + 2 * K - 1 /\ autoJoypadCounter' = 0
    BY <1>0, <1>1, Beam, Begins DEF BeginSequence
  <2>2. h' \in Nat
    BY <1>0, Beam, Bounds DEF JoypadTypeOK
  <2>3. SinceEdge' = 0
    BY <2>1, Bounds DEF SinceEdge
  <2>4. SinceVdisp' = h'
    <3>1. (Vdisp - Vdisp) * HPeriod = 0
      BY Bounds
    <3> QED BY <2>1, <2>2, <3>1 DEF SinceVdisp
  <2>5. SinceVdisp' - (K * autoJoypadCounter' + SinceEdge') <= Begin + 2 * K - 1
    <3>1. K * 0 = 0
      BY Bounds
    <3> QED BY <2>1, <2>2, <2>3, <2>4, <3>1
  <2> QED BY <2>1, <2>5, Bounds DEF Paced
<1>2. CASE ~BeginSequence
  <2>1. /\ autoJoypadCounter # Inactive /\ ~NewField
        /\ autoJoypadCounter' = IF EdgeDue THEN autoJoypadCounter + 1 ELSE autoJoypadCounter
    <3>1. CASE Tick
      BY <3>1, FieldEnd DEF Tick, last
    <3>2. CASE Release
      BY <3>2, EdgeFrom, FieldEnd DEF Release, Edge
    <3>3. CASE Abandon
      BY <3>3 DEF Abandon
    <3>4. CASE ReadBit \/ ShiftIn
      BY <3>4, EdgeFrom, FieldEnd DEF ReadBit, ShiftIn, Edge
    <3> QED BY <1>2, <3>1, <3>2, <3>3, <3>4 DEF joypadEdge
  <2>2. v >= Vdisp
    BY <2>1 DEF Paced
  <2>3. v' # 0
    BY <1>0, <2>1, <2>2, Beam, Bounds DEF NewField, JoypadTypeOK
  <2> QED BY <1>0, <2>1, <2>3, PaceStep
<1> QED BY <1>1, <1>2

LEMMA InitTimeInv == JoypadInit => TimeInv
<1> SUFFICES ASSUME JoypadInit PROVE TimeInv
  OBVIOUS
<1>1. JoypadTypeOK
  BY InitIInv DEF IInv
<1>2. OnceInv
  BY Bounds DEF JoypadInit, OnceInv, BegunByNow
<1>3. Paced
  BY DEF JoypadInit, Paced
<1> QED BY <1>1, <1>2, <1>3 DEF TimeInv

LEMMA NextTimeInv == TimeInv /\ [JoypadNext]_joypadVars => TimeInv'
<1> SUFFICES ASSUME TimeInv, [JoypadNext]_joypadVars PROVE TimeInv'
  OBVIOUS
<1>1. JoypadTypeOK /\ OnceInv /\ Paced /\ JoypadTypeOK'
  BY NextType DEF TimeInv
<1>2. CASE Tick \/ joypadEdge
  BY <1>1, <1>2, TickOnce, TickPaced DEF TimeInv
<1>3. CASE Power
  <2>1. OnceInv'
    BY <1>3, Bounds DEF Power, OnceInv, BegunByNow
  <2>2. Paced'
    BY <1>3 DEF Power, Paced, Inactive
  <2> QED BY <1>1, <2>1, <2>2 DEF TimeInv
<1>4. ASSUME UNCHANGED <<time, begun>>, autoJoypadCounter' \in {autoJoypadCounter, Inactive}
      PROVE  TimeInv'
  BY <1>1, <1>4 DEF TimeInv, OnceInv, BegunByNow, Paced, SinceEdge, SinceVdisp, Inactive, time
<1>5. CASE Read4016 \/ Write4016 \/ Connect
  BY <1>4, <1>5 DEF Read4016, Write4016, Connect, Access, poll
<1>6. CASE Write4200
  BY <1>4, <1>6 DEF Write4200, Access
<1>7. CASE UNCHANGED joypadVars
  BY <1>4, <1>7 DEF joypadVars, poll
<1> QED BY <1>2, <1>3, <1>5, <1>6, <1>7 DEF JoypadNext

THEOREM TimeInductive == JoypadSpec => []TimeInv
BY InitTimeInv, NextTimeInv, PTL DEF JoypadSpec

\* joypadEdge() begins exactly one sequence a field, wherever the CPU's counter
\* stands to the beam, for any line and any window that the line has room for.
THEOREM BeginsOnce == JoypadSpec => []OncePerField
<1>1. TimeInv => OncePerField
  BY Bounds DEF TimeInv, OnceInv, BegunByNow, OncePerField, JoypadTypeOK
<1> QED BY <1>1, TimeInductive, PTL

\* scanline() has no sequence to cut: the last edge comes before the field ends.
THEOREM NeverCut == JoypadSpec => EndsInField
<1>1. ASSUME TimeInv, JoypadNext, v' = 0, v # 0, autoJoypadPoll' PROVE autoJoypadCounter = Inactive
  <2>0. JoypadTypeOK /\ Paced
    BY <1>1 DEF TimeInv
  <2>1. Tick \/ joypadEdge
    BY <1>1 DEF JoypadNext, Power, Read4016, Write4016, Write4200, Connect, Access, time
  <2>2. NewField
    BY <1>1, <2>0, <2>1, TickParts, Beam DEF NewField, JoypadTypeOK
  <2> QED BY <2>0, <2>2, FieldEnd
<1>2. ASSUME TimeInv, [JoypadNext]_joypadVars
      PROVE  [v' = 0 /\ v # 0 /\ autoJoypadPoll' => autoJoypadCounter = Inactive]_joypadVars
  BY <1>1, <1>2
<1> QED BY <1>2, TimeInductive, PTL DEF JoypadSpec, EndsInField
=============================================================================
