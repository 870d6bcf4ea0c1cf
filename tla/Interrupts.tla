----------------------------- MODULE Interrupts -----------------------------
(***************************************************************************)
(* The interrupt unit of the S-CPU (sfc/cpu/irq.cpp) and the main loop of  *)
(* the 65816 core that it interrupts (sfc/cpu/cpu.cpp, sfc/cpu/memory.cpp, *)
(* processor/wdc65816).                                                    *)
(*                                                                         *)
(* Time advances in ticks of two clocks (CPU::stepOnce), inside bus cycles *)
(* only.  Every second tick polls the beam for NMI and IRQ.  lastCycle(),  *)
(* called before the last bus cycle of an instruction, decides what main() *)
(* does next: the two meet in the fields of "status".                      *)
(*                                                                         *)
(* A definition whose name ends in _ and a word is a faulty variant of the *)
(* definition that follows it.                                             *)
(***************************************************************************)
EXTENDS Integers

CONSTANTS
  HPeriod, VPeriod, \* ticks per scanline, scanlines per frame
  Vdisp,            \* ppu.vdisp(): the line at which /NMI falls
  Vtimes, Htimes,   \* what $4209-a and $4207-8 may hold, in lines and ticks
  Enables,          \* the interrupt bits a program may write to $4200
  Before,           \* ticks of a bus cycle before its access, per kind
  DmaTicks,         \* ticks a DMA may take at the start of a bus cycle
  MaxEdges,         \* bound of the history variable edges
  ResetTicks        \* ticks of the reset sequence before its first bus cycle

ASSUME BeamAssumption ==
  /\ HPeriod \in Nat /\ HPeriod > 5 /\ HPeriod % 2 = 0 /\ VPeriod \in Nat \ {0}
  /\ Vdisp \in 1..(VPeriod - 1)
  /\ Vtimes \subseteq Nat /\ Htimes \subseteq Nat /\ Vtimes # {} /\ Htimes # {}

Registers == {"nmiEnable", "virqEnable", "hirqEnable"}
Kinds     == {"read", "write", "idle"}

\* step<2>() and more before a read's access, step<6>() and more otherwise.
ASSUME CycleAssumption ==
  /\ Enables \subseteq SUBSET Registers
  /\ Before \in [Kinds -> SUBSET (Nat \ {0})]
  /\ \A k \in Kinds \ {"read"} : \A n \in Before[k] : n >= 3
  /\ DmaTicks \subseteq Nat \ {0} /\ ResetTicks \in Nat /\ MaxEdges \in Nat /\ MaxEdges >= 2

VARIABLES
  beam,          \* PPUcounter: ticks since the start of the field
  status,        \* struct Status: the booleans that are set
  io,            \* struct IO: the interrupt enable bits that are set
  vtime, htime,  \* struct IO
  r,             \* struct Registers: irq, wai, stp and the I flag, if set
  at,            \* where the core is between two bus cycles
  cycle,         \* the bus cycle it is in whose access is still to come
  ticks,         \* ticks until then, or until the end of a read
  edges,         \* history: edges of /NMI less NMIs (bound: at most MaxEdges)
  owed,          \* history: an edge has come, and neither an NMI nor a disable
  afterDma       \* history: a DMA ran at the start of the last bus cycle

core    == <<at, cycle, ticks>>
history == <<edges, owed, afterDma>>
vars    == <<beam, status, io, vtime, htime, r, core, history>>

Status == {"nmiValid", "nmiLine", "nmiTransition", "nmiPending", "nmiHold",
           "irqValid", "irqLine", "irqTransition", "irqPending", "irqHold",
           "irqLock", "interruptPending", "resetPending"}

\* main:   at the head of main()            body: inside instruction()
\* end:    in the last cycle of an instruction or of interrupt()
\* reset:  stepping before the reset vector entry, vector: inside interrupt()
\* wait, stop: in the loops of WAI and STP  exit: in the idle cycle after WAI
Places == {"main", "body", "end", "reset", "entry", "vector", "wait", "stop", "exit"}

TypeOK ==
  /\ beam \in 0..(HPeriod * VPeriod - 1)
  /\ status \subseteq Status /\ io \subseteq Registers
  /\ vtime \in Vtimes /\ htime \in Htimes
  /\ r \subseteq {"irq", "wai", "stp", "i"}
  /\ at \in Places /\ cycle \in Kinds \cup {"none"} /\ ticks \in Nat
  /\ edges \in 0..MaxEdges /\ owed \in BOOLEAN /\ afterDma \in BOOLEAN

-----------------------------------------------------------------------------
(* The beam n ticks before position b. *)

Ago(b, n)      == (b - n) % (HPeriod * VPeriod)
vcounter(b, n) == Ago(b, n) \div HPeriod
hcounter(b, n) == Ago(b, n) % HPeriod

irqEnable(on) == "virqEnable" \in on \/ "hirqEnable" \in on

-----------------------------------------------------------------------------
(* irq.cpp: each handler maps the status it finds to the status it leaves. *)

nmiPoll_Unheld(s, b) ==
  LET valid == vcounter(b, 1) >= Vdisp
  IN  IF valid = ("nmiValid" \in s) THEN s \ {"nmiHold"}
      ELSE IF valid THEN s \cup {"nmiValid", "nmiLine", "nmiHold"}
                    ELSE s \ {"nmiValid", "nmiLine", "nmiHold"}
nmiPoll(s, b) ==
  LET valid == vcounter(b, 1) >= Vdisp
      held  == IF "nmiHold" \in s /\ "nmiEnable" \in io
               THEN (s \cup {"nmiTransition"}) \ {"nmiHold"} ELSE s \ {"nmiHold"}
  IN  IF valid = ("nmiValid" \in held) THEN held
      ELSE IF valid THEN held \cup {"nmiValid", "nmiLine", "nmiHold"}
                    ELSE held \ {"nmiValid", "nmiLine"}

\* The beam is where the registers say, and not on the last dot of the field.
irqMatch(on, vt, ht, b) ==
  /\ irqEnable(on)
  /\ "virqEnable" \in on => vcounter(b, 5) = vt
  /\ "hirqEnable" \in on => hcounter(b, 5) = ht
  /\ vcounter(b, 3) # 0 \/ hcounter(b, 3) # 0

irqPoll(s, match) ==
  LET held == IF "irqLine" \in s /\ irqEnable(io)
              THEN (s \cup {"irqTransition"}) \ {"irqHold"} ELSE s \ {"irqHold"}
  IN  IF ~match THEN held \ {"irqValid"}
      ELSE IF "irqValid" \in held THEN held
      ELSE held \cup {"irqValid", "irqLine", "irqHold"}

\* nmitimenUpdate: what the write of $4200 does to a pending IRQ, and whether it
\* uncovers an /NMI that is already low.
irqsAfter_Kept(s, on) == IF irqEnable(on) THEN s ELSE s \ {"irqLine"}
irqsAfter(s, on) ==
  IF "virqEnable" \in on /\ "hirqEnable" \notin on /\ "irqLine" \in s
  THEN s \cup {"irqTransition"}
  ELSE IF irqEnable(on) THEN s ELSE s \ {"irqLine", "irqTransition"}
uncovers(s, on) == "nmiEnable" \in on \ io /\ "nmiLine" \in s

nmitimenUpdate_Unlocked(s, on) ==
  irqsAfter(s, on) \cup (IF uncovers(s, on) THEN {"nmiTransition"} ELSE {})
nmitimenUpdate(s, on) ==
  irqsAfter(s, on) \cup (IF uncovers(s, on) THEN {"nmiTransition"} ELSE {}) \cup {"irqLock"}

rdnmi(s)  == IF "nmiHold" \in s THEN s ELSE s \ {"nmiLine"}
timeup(s) == IF "irqHold" \in s THEN s ELSE s \ {"irqLine", "irqTransition"}

\* lastCycle(): nmiTest() and irqTest(), unless irqLock defers them.
Unlocked == "irqLock" \notin status
nmiTest  == Unlocked /\ "nmiTransition" \in status
irqTest  == Unlocked /\ ("irqTransition" \in status \/ "irq" \in r)

lastCycle ==
  LET consumed == (IF nmiTest THEN {"nmiTransition"} ELSE {})
                    \cup (IF irqTest THEN {"irqTransition"} ELSE {})
      pending  == (IF nmiTest THEN {"nmiPending", "interruptPending"} ELSE {})
                    \cup (IF irqTest /\ "i" \notin r
                          THEN {"irqPending", "interruptPending"} ELSE {})
  IN  (status \ consumed) \cup pending

awake_Unmasked == IF nmiTest \/ (irqTest /\ "i" \notin r) THEN r \ {"wai"} ELSE r
awake == IF nmiTest \/ irqTest THEN r \ {"wai"} ELSE r

-----------------------------------------------------------------------------
(* Bus cycles: CPU::idle, CPU::read, CPU::write. *)

Between == cycle = "none" /\ ticks = 0

\* A bus cycle of kind k begins in status s; dmaEdge() may run a DMA first.
Begin(k, s) ==
  /\ cycle' = k
  /\ \E n \in Before[k], d \in DmaTicks \cup {0} :
       /\ ticks' = n + d
       /\ status' = IF d > 0 THEN s \cup {"irqLock"} ELSE s
       /\ afterDma' = (d > 0)

\* An edge of /NMI comes when nmiLine is set under nmiEnable, or nmiEnable under
\* nmiLine; an NMI answers it, unless the program disables NMIs first.
Answer(taken) ==
  LET falls(s, on) == "nmiLine" \in s /\ "nmiEnable" \in on
      comes == falls(status', io') /\ ~falls(status, io)
  IN  /\ edges' = IF taken THEN edges - (IF edges > 0 THEN 1 ELSE 0)
                  ELSE IF comes /\ edges < MaxEdges THEN edges + 1 ELSE edges
      /\ owed' = (~taken /\ (comes \/ (owed /\ "nmiEnable" \in io')))

nextTick == (beam + 1) % (HPeriod * VPeriod)

\* stepOnce: the beam moves, and every other time the lines are polled.
Tick ==
  /\ ticks > 0 /\ ticks' = ticks - 1
  /\ LET b == nextTick
     IN  /\ beam' = b
         /\ status' = IF b % 2 = 0 THEN status
                      ELSE irqPoll(nmiPoll(status, b), irqMatch(io, vtime, htime, b))
  /\ UNCHANGED <<io, vtime, htime, r, at, cycle, afterDma>>
  /\ Answer(FALSE)

IdleEnd ==
  /\ cycle = "idle" /\ ticks = 0 /\ cycle' = "none"
  /\ status' = status \ {"irqLock"}
  /\ UNCHANGED <<beam, io, vtime, htime, r, at, ticks, history>>

\* Instructions reach the registers; the pushes and vectors of interrupt() do not.
AtRegisters == at \in {"body", "end"}

\* bus.read: $4210, $4211 or anything else; then step<4,0>().
ReadAccess ==
  /\ cycle = "read" /\ ticks = 0 /\ cycle' = "none" /\ ticks' = 2
  /\ LET s == status \ {"irqLock"}
     IN  status' \in {s} \cup (IF AtRegisters THEN {rdnmi(s), timeup(s)} ELSE {})
  /\ UNCHANGED <<beam, io, vtime, htime, r, at, afterDma>>
  /\ Answer(FALSE)

\* bus.write: $4200, $4207-$420a (which poll for IRQ), or anything else.
WriteAccess ==
  /\ cycle = "write" /\ ticks = 0 /\ cycle' = "none" /\ UNCHANGED ticks
  /\ LET s == status \ {"irqLock"} IN
       \/ status' = s /\ UNCHANGED <<io, vtime, htime>>
       \/ /\ AtRegisters /\ io' \in Enables /\ status' = nmitimenUpdate(s, io')
          /\ UNCHANGED <<vtime, htime>>
       \/ /\ AtRegisters
          /\ \/ vtime' \in Vtimes /\ htime' = htime
             \/ htime' \in Htimes /\ vtime' = vtime
          /\ status' = irqPoll(s, irqMatch(io, vtime', htime', beam))
          /\ UNCHANGED io
  /\ UNCHANGED <<beam, r, at, afterDma>>
  /\ Answer(FALSE)

-----------------------------------------------------------------------------
(* CPU::main, instructions and interrupt(). *)

dispatch_Forgetful ==
  IF "nmiPending" \in status
  THEN at' = "entry" /\ Begin("read", status \ {"nmiPending", "interruptPending"})
  ELSE IF "irqPending" \in status
  THEN at' = "entry" /\ Begin("read", status \ {"irqPending"})
  ELSE IF "resetPending" \in status
  THEN /\ at' = "reset" /\ cycle' = "none" /\ ticks' = ResetTicks
       /\ status' = status \ {"resetPending"} /\ UNCHANGED afterDma
  ELSE /\ at' = "main" /\ status' = status \ {"interruptPending"}
       /\ UNCHANGED <<cycle, ticks, afterDma>>
dispatch ==
  IF "nmiPending" \in status
  THEN at' = "entry" /\ Begin("read", status \ {"nmiPending"})
  ELSE IF "irqPending" \in status
  THEN at' = "entry" /\ Begin("read", status \ {"irqPending"})
  ELSE IF "resetPending" \in status
  THEN /\ at' = "reset" /\ cycle' = "none" /\ ticks' = ResetTicks
       /\ status' = status \ {"resetPending"} /\ UNCHANGED afterDma
  ELSE /\ at' = "main" /\ status' = status \ {"interruptPending"}
       /\ UNCHANGED <<cycle, ticks, afterDma>>

main ==
  /\ at = "main" /\ Between
  /\ IF "wai" \in r THEN at' = "wait" /\ UNCHANGED <<status, cycle, ticks, afterDma>>
     ELSE IF "stp" \in r THEN at' = "stop" /\ UNCHANGED <<status, cycle, ticks, afterDma>>
     ELSE IF "interruptPending" \notin status THEN at' = "body" /\ Begin("read", status)
     ELSE dispatch
  /\ UNCHANGED <<beam, io, vtime, htime, r, edges, owed>>

\* Another bus cycle of the instruction, which may have set or cleared I (RTI).
Body ==
  /\ at = "body" /\ Between /\ UNCHANGED at
  /\ \E k \in Kinds : Begin(k, status)
  /\ r' \in {r \cup {"i"}, r \ {"i"}}
  /\ UNCHANGED <<beam, io, vtime, htime, edges, owed>>

\* lastCycle() and the cycle it announces.
Last(k) ==
  /\ Begin(k, lastCycle)
  /\ UNCHANGED <<beam, io, vtime, htime>>
  /\ Answer(nmiTest)

LastCycle ==
  /\ at = "body" /\ Between /\ at' = "end"
  /\ \E k \in Kinds : Last(k)
  /\ r' = awake

\* SEI, CLI, SEP, REP, PLP change I after their last cycle.
End ==
  /\ at = "end" /\ Between /\ at' = "main"
  /\ r' \in {r \cup {"i"}, r \ {"i"}}
  /\ UNCHANGED <<beam, status, io, vtime, htime, cycle, ticks, history>>

\* interrupt(): the pushes, then I is set and the vector is read.
Entry ==
  /\ \/ at = "reset" /\ at' = "entry" /\ Begin("read", status) /\ UNCHANGED r
     \/ /\ at = "entry" /\ at' = "entry"
        /\ \E k \in {"idle", "write"} : Begin(k, status)
        /\ UNCHANGED r
     \/ at = "entry" /\ at' = "vector" /\ Begin("read", status) /\ r' = r \cup {"i"}
  /\ Between
  /\ UNCHANGED <<beam, io, vtime, htime, edges, owed>>

Vector ==
  /\ at = "vector" /\ Between /\ at' = "exit"
  /\ Last("read") /\ r' = awake

\* The end of interrupt() and of instructionWait().
Exit ==
  /\ at = "exit" /\ Between /\ at' = "main"
  /\ UNCHANGED <<beam, status, io, vtime, htime, r, cycle, ticks, history>>

\* WAI and STP: after their opcode, and then their loops.
Halt ==
  /\ at = "body" /\ Between
  /\ \/ at' = "wait" /\ r' = r \cup {"wai"}
     \/ at' = "stop" /\ r' = r \cup {"stp"}
  /\ UNCHANGED <<beam, status, io, vtime, htime, cycle, ticks, history>>

WaitLoop ==
  /\ at = "wait" /\ Between /\ "wai" \in r
  /\ Last("idle") /\ r' = awake /\ UNCHANGED at

\* The loop is left when the core is awake, or (still waiting) when a state is
\* saved; main() then comes back to it.
WaitExit ==
  /\ at = "wait" /\ Between
  /\ at' = "exit" /\ Begin("idle", status)
  /\ UNCHANGED <<beam, io, vtime, htime, r, edges, owed>>

StopLoop ==
  /\ at = "stop" /\ Between
  /\ Last("idle") /\ r' = awake /\ UNCHANGED at

StopExit ==
  /\ at = "stop" /\ Between /\ at' = "main"
  /\ UNCHANGED <<beam, status, io, vtime, htime, r, cycle, ticks, history>>

-----------------------------------------------------------------------------
\* CPU::irq: a coprocessor, synchronized inside a bus cycle, drives its line.
irq ==
  /\ ticks > 0
  /\ r' \in {r \cup {"irq"}, r \ {"irq"}}
  /\ UNCHANGED <<beam, status, io, vtime, htime, core, history>>

\* status = {}, then resetPending and interruptPending are set.
atPower == {"resetPending", "interruptPending"}

Init ==
  /\ beam = 0 /\ status = atPower /\ io = {}
  /\ vtime \in Vtimes /\ htime \in Htimes /\ r = {"i"}
  /\ at = "main" /\ cycle = "none" /\ ticks = 0
  /\ edges = 0 /\ owed = FALSE /\ afterDma = FALSE

\* CPU::power, while the host has control: at the frame event.
power ==
  /\ beam = Vdisp * HPeriod
  /\ beam' = 0 /\ status' = atPower /\ io' = {}
  /\ vtime' \in Vtimes /\ htime' \in Htimes /\ r' = {"i"}
  /\ at' = "main" /\ cycle' = "none" /\ ticks' = 0
  /\ edges' = 0 /\ owed' = FALSE /\ afterDma' = FALSE

Cpu == \/ Tick \/ IdleEnd \/ ReadAccess \/ WriteAccess
       \/ main \/ Body \/ LastCycle \/ End \/ Entry \/ Vector \/ Exit
       \/ Halt \/ WaitLoop \/ WaitExit \/ StopLoop \/ StopExit

Next == Cpu \/ irq \/ power

Spec == Init /\ [][Next]_vars

\* The CPU thread is entered again and again; the user interface does not save
\* states for ever without also running the machine.
FairSpec == Spec /\ WF_vars(Cpu) /\ SF_vars(WaitLoop)

-----------------------------------------------------------------------------
(* Correctness. *)

\* main() looks at the pending interrupts only while interruptPending is set,
\* and clears it only when it has served them all.
PendingFlagged ==
  status \cap {"nmiPending", "irqPending", "resetPending"} # {} => "interruptPending" \in status

\* A program that disables IRQs at $4200 is rid of the one it had not taken.
DisabledIrqSilent == ~irqEnable(io) => status \cap {"irqLine", "irqTransition"} = {}

\* Every edge of /NMI under an enabled nmiEnable is on its way to lastCycle()
\* until it is answered, whatever the program writes and reads meanwhile.
NmiNotLost == owed => status \cap {"nmiTransition", "nmiHold"} # {}

TestsInterrupts == LastCycle \/ Vector \/ WaitLoop \/ StopLoop

\* One edge of /NMI gives one NMI, also when $4200 uncovers the line in the four
\* clocks in which it is held: irqLock keeps lastCycle() away from the first of
\* the two transitions.
NmiNeverDoubled ==
  [][TestsInterrupts /\ nmiTest => edges > 0]_vars

\* WAI ends when an enabled interrupt comes, masked or not.
Armed == "nmiEnable" \in io \/ ("virqEnable" \in io /\ "hirqEnable" \notin io /\ vtime < VPeriod)
WaitWakes == ("wai" \in r /\ Armed) ~> "wai" \notin r

\* irq.cpp says of irqLock that it delays interrupts "immediately after DMA":
\* the lastCycle() that follows a DMA lets none through.
DmaDelaysInterrupts ==
  [][afterDma /\ TestsInterrupts =>
       ~nmiTest /\ ~(irqTest /\ "i" \notin r)]_vars

=============================================================================
