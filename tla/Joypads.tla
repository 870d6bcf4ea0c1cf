------------------------------ MODULE Joypads ------------------------------
(***************************************************************************)
(* Automatic joypad polling (CPU::joypadEdge in sfc/cpu/timing.cpp), the   *)
(* registers a program reaches it by, and the gamepad behind controller    *)
(* port 1 (sfc/controller/gamepad).                                        *)
(*                                                                         *)
(* Once a frame the CPU latches the gamepad and then shifts its buttons    *)
(* into joy1, one bit in two edges, while the program goes on and may use  *)
(* the same gamepad.  Time is in ticks of two clocks.                      *)
(*                                                                         *)
(* A definition whose name ends in _ and a word is a faulty variant of the *)
(* definition that follows it.                                             *)
(***************************************************************************)
EXTENDS Integers

CONSTANTS
  Bits,             \* bits of a gamepad: 16 (12 buttons and a signature of zeros)
  K,                \* ticks between two edges: 64
  HPeriod, VPeriod, \* ticks per scanline, scanlines per field
  Vdisp,            \* ppu.vdisp(): polling begins on this line
  Begin             \* the first position on it where polling may begin: 65

Inactive_Long == 2 * Bits + 3
Inactive == 2 * Bits + 1 \* autoJoypadCounter when no sequence is under way: 33

ASSUME JoypadsAssumption ==
  /\ Bits \in Nat \ {0} /\ K \in Nat \ {0}
  /\ HPeriod \in Nat \ {0} /\ VPeriod \in Nat /\ Vdisp \in 1..(VPeriod - 1) /\ Begin \in Nat
ASSUME WindowAssumption ==
  /\ Begin + 2 * K <= HPeriod
  \* a sequence ends before the next field
  /\ Begin + K * (2 * Bits + 3) <= HPeriod * (VPeriod - Vdisp)

VARIABLES
  v, h,                              \* PPUcounter
  cpu,                               \* counter.cpu, of which 256 clocks matter
  autoJoypadCounter, autoJoypadPort1, autoJoypadLatch, cpuLatch, \* struct Status
  autoJoypadPoll, joy1,              \* struct IO
  latched, counter, buttons,         \* struct Gamepad
  \* History: sequences begun in this field; nobody but the sequence under
  \* way has touched the gamepad since it began.
  begun, undisturbed

time    == <<v, h, cpu>>
gamepad == <<latched, counter, buttons>>
poll    == <<autoJoypadCounter, autoJoypadPort1, autoJoypadLatch, joy1, begun>>
joypadVars    == <<time, gamepad, poll, cpuLatch, autoJoypadPoll, undisturbed>>

Words == [1..Bits -> BOOLEAN] \* the first bit that a gamepad sends comes first
Zero  == [i \in 1..Bits |-> FALSE]

JoypadTypeOK ==
  /\ v \in 0..(VPeriod - 1) /\ h \in 0..(HPeriod - 1) /\ cpu \in 0..(2 * K - 1)
  /\ autoJoypadCounter \in 0..Inactive /\ autoJoypadPort1 \in BOOLEAN
  /\ autoJoypadLatch \in BOOLEAN /\ cpuLatch \in BOOLEAN
  /\ autoJoypadPoll \in BOOLEAN /\ joy1 \in Words
  /\ latched \in BOOLEAN /\ counter \in 0..Bits /\ buttons \in Words
  /\ begun \in 0..2 /\ undisturbed \in BOOLEAN

-----------------------------------------------------------------------------
(* Gamepad *)

\* Gamepad::latch(): the buttons are sampled when the latch is released.
latch(level) ==
  IF level = latched THEN UNCHANGED gamepad
  ELSE /\ latched' = level /\ counter' = 0
       /\ buttons' \in IF level THEN {buttons} ELSE Words

\* Gamepad::data() returns bit; while the latch is held it is a button as it is now.
Sends(bit) ==
  bit \in IF counter = Bits THEN {TRUE}
          ELSE IF latched THEN BOOLEAN ELSE {buttons[counter + 1]}
data(bit) ==
  /\ Sends(bit)
  /\ counter' = IF counter = Bits \/ latched THEN counter ELSE counter + 1
  /\ UNCHANGED <<latched, buttons>>

\* Gamepad::Gamepad()
NewGamepad == latched' = FALSE /\ counter' = 0 /\ buttons' = Zero

-----------------------------------------------------------------------------
(* CPU::joypadEdge().  The actions are its ways from the top to a return;  *)
(* last is autoJoypadCounter after the scanline() of the same tick.        *)

NewField == h = HPeriod - 1 /\ v = VPeriod - 1
last     == IF NewField THEN Inactive ELSE autoJoypadCounter

nextLine           == IF h = HPeriod - 1 THEN (v + 1) % VPeriod ELSE v

InWindow_Wide(p) == p >= Begin /\ p <= Begin + 2 * K
InWindow(p)      == p >= Begin /\ p <= Begin + 2 * K - 1

Advance ==
  /\ v' = nextLine /\ h' = (h + 1) % HPeriod /\ cpu' = (cpu + 1) % (2 * K)
  /\ UNCHANGED <<cpuLatch, autoJoypadPoll>>
EdgeDue   == (cpu + 1) % K = 0
BeginsNow == nextLine = Vdisp /\ (cpu + 1) % (2 * K) = 0 /\ InWindow((h + 1) % HPeriod)
Earlier   == IF NewField THEN 0 ELSE begun
Quiet     == UNCHANGED gamepad /\ UNCHANGED undisturbed /\ begun' = Earlier
Same      == UNCHANGED <<autoJoypadPort1, autoJoypadLatch, joy1>>

\* No edge, or no sequence.
Tick ==
  /\ Advance /\ Quiet /\ Same
  /\ ~EdgeDue \/ (~BeginsNow /\ last = Inactive)
  /\ autoJoypadCounter' = last

BeginSequence ==
  /\ Advance /\ EdgeDue /\ BeginsNow
  /\ autoJoypadLatch' = autoJoypadPoll /\ latch(autoJoypadPoll \/ cpuLatch)
  /\ joy1' = IF autoJoypadPoll THEN Zero ELSE joy1
  /\ autoJoypadCounter' = IF autoJoypadPoll THEN 0 ELSE Inactive
  /\ begun' = IF Earlier = 2 THEN 2 ELSE Earlier + 1
  /\ undisturbed' = ~cpuLatch /\ UNCHANGED autoJoypadPort1

\* The edge of a sequence under way; n is the counter it moves to.
Edge(n) ==
  /\ Advance /\ EdgeDue /\ ~BeginsNow /\ last # Inactive
  /\ n = last + 1 /\ begun' = Earlier /\ UNCHANGED undisturbed

Release ==
  /\ Edge(1)
  /\ autoJoypadCounter' = 1 /\ autoJoypadLatch' = FALSE /\ latch(cpuLatch)
  /\ UNCHANGED <<autoJoypadPort1, joy1>>

\* Polling is disabled by now: the rest of the sequence is skipped.
Abandon_Running ==
  /\ ~autoJoypadPoll
  /\ \E n \in 2..Inactive : Edge(n) /\ autoJoypadCounter' = n
  /\ Same /\ UNCHANGED gamepad
Abandon ==
  /\ \E n \in 2..Inactive : Edge(n)
  /\ ~autoJoypadPoll
  /\ autoJoypadCounter' = Inactive /\ Same /\ UNCHANGED gamepad

ReadBit ==
  /\ autoJoypadPoll
  /\ \E n \in 2..Inactive : Edge(n) /\ n % 2 = 0 /\ autoJoypadCounter' = n
  /\ \E bit \in BOOLEAN : data(bit) /\ autoJoypadPort1' = bit
  /\ UNCHANGED <<autoJoypadLatch, joy1>>

Shift(bit) == [i \in 1..Bits |-> IF i = Bits THEN bit ELSE joy1[i + 1]]
ShiftIn ==
  /\ autoJoypadPoll
  /\ \E n \in 2..Inactive : Edge(n) /\ n % 2 = 1 /\ autoJoypadCounter' = n
  /\ joy1' = Shift(autoJoypadPort1)
  /\ UNCHANGED <<autoJoypadPort1, autoJoypadLatch>> /\ UNCHANGED gamepad

-----------------------------------------------------------------------------
(* The program's accesses. *)

Access == UNCHANGED time /\ UNCHANGED begun

\* $4212 bit 0, which tells a program that it has to wait.
busy_Short == autoJoypadPoll /\ autoJoypadCounter < Inactive - 1
busy       == autoJoypadPoll /\ autoJoypadCounter < Inactive

Read4016 ==
  /\ Access /\ \E bit \in BOOLEAN : data(bit)
  /\ undisturbed' = FALSE /\ UNCHANGED <<poll, cpuLatch, autoJoypadPoll>>

Write4016 ==
  /\ Access
  /\ \E level \in BOOLEAN : cpuLatch' = level /\ latch(autoJoypadLatch \/ level)
  /\ undisturbed' = FALSE /\ UNCHANGED <<poll, autoJoypadPoll>>

\* $4200: while the counter is zero the latch follows; later, 0 ends the sequence.
Write4200 ==
  /\ Access
  /\ \E on \in BOOLEAN :
       /\ autoJoypadPoll' = on
       /\ autoJoypadLatch' = IF autoJoypadCounter = 0 THEN on ELSE autoJoypadLatch
       /\ IF autoJoypadCounter = 0 THEN latch(on \/ cpuLatch) ELSE UNCHANGED gamepad
       /\ autoJoypadCounter' = IF ~on /\ autoJoypadCounter >= 2 THEN Inactive
                               ELSE autoJoypadCounter
  /\ UNCHANGED <<autoJoypadPort1, joy1, cpuLatch, undisturbed>>

\* ControllerPort::connect(): the user plugs in a gamepad.  Loading a state does
\* so too, and a gamepad is not part of a state.
Connect ==
  /\ Access /\ NewGamepad
  /\ undisturbed' = FALSE /\ UNCHANGED <<poll, cpuLatch, autoJoypadPoll>>

\* System::power: CPU::power, and connect().
Power ==
  /\ v' = 0 /\ h' = 0 /\ cpu' = 0 /\ NewGamepad
  /\ autoJoypadCounter' = Inactive /\ autoJoypadPort1' = FALSE /\ joy1' = Zero
  /\ autoJoypadLatch' = FALSE /\ cpuLatch' = FALSE /\ autoJoypadPoll' = FALSE
  /\ begun' = 0 /\ undisturbed' = FALSE

JoypadInit ==
  /\ v = 0 /\ h = 0 /\ cpu = 0
  /\ latched = FALSE /\ counter = 0 /\ buttons = Zero
  /\ autoJoypadCounter = Inactive /\ autoJoypadPort1 = FALSE /\ joy1 = Zero
  /\ autoJoypadLatch = FALSE /\ cpuLatch = FALSE /\ autoJoypadPoll = FALSE
  /\ begun = 0 /\ undisturbed = FALSE

joypadEdge == BeginSequence \/ Release \/ Abandon \/ ReadBit \/ ShiftIn
JoypadNext == \/ Tick \/ joypadEdge
        \/ Read4016 \/ Write4016 \/ Write4200 \/ Connect \/ Power

JoypadSpec == JoypadInit /\ [][JoypadNext]_joypadVars

-----------------------------------------------------------------------------
(* Correctness. *)

\* A sequence that comes to its end has in joy1 the buttons of one moment, the
\* release of the latch, each in its place, whatever the program did to $4200
\* meanwhile, unless it used $4016 during the sequence or held its latch.
\* (Line 0 is excluded here: EndsInField.)
AutoReadWhole ==
  [][autoJoypadCounter = 2 * Bits /\ autoJoypadCounter' = Inactive
     /\ autoJoypadPoll' /\ undisturbed /\ v' # 0 => joy1' = buttons]_joypadVars

\* $4218 does not change behind the back of a program that waits for $4212: it
\* changes only while the busy bit is set, or with the edge that sets it.
ChangesWhileBusy == [][joy1' # joy1 /\ autoJoypadPoll' => busy \/ busy']_joypadVars

\* The window of 256 clocks is met once in every field, for each alignment of
\* the CPU's counter to the beam, so no frame is polled twice or not at all.
OncePerField == (v < Vdisp => begun = 0) /\ (v > Vdisp => begun = 1)

\* scanline() makes the counter inactive on line 0; it never cuts a sequence.
EndsInField == [][v' = 0 /\ v # 0 /\ autoJoypadPoll' => autoJoypadCounter = Inactive]_joypadVars
=============================================================================
