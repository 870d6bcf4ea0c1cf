-------------------------------- MODULE Sa1 --------------------------------
(***************************************************************************)
(* The interrupts between the S-CPU and the SA-1 (sfc/coprocessor/sa1):    *)
(* the registers by which each one signals the other, the SA-1's timer,    *)
(* the interrupt at the end of a DMA, and how the SA-1 sleeps and wakes.   *)
(*                                                                         *)
(* The two run in turns, so that between two cycles of one the other may   *)
(* have written any of its registers.  A DMA copies nothing here: only     *)
(* that it begins, that it lets the S-CPU run, and how it ends.            *)
(*                                                                         *)
(* A definition whose name ends in _ and a word is a faulty variant of the *)
(* definition that follows it.                                             *)
(***************************************************************************)
EXTENDS Integers

CONSTANTS
  LineClocks, Scanlines,   \* the HV timer, in steps: 682 a line, 262 or 312 lines
  LinearLine, LinearLines, \* the linear timer: 1024 and 512
  Hcnt, Vcnt,              \* where the program sets the timer, in steps and lines
  TimerModes,              \* bound: what it writes to $2210
  Controls,                \* bound: what the S-CPU writes to $2200
  Enabling, Clearing       \* bound: what the SA-1 writes to $220a and $220b

CpuSources  == {"cpu", "chdma"}
Sa1Sources  == {"nmi", "timer", "dma", "irq"}
ControlBits == {"irq", "nmi", "rdyb", "resb"}

ASSUME Sa1Assumption ==
  /\ LineClocks \in Nat \ {0} /\ Scanlines \in Nat \ {0}
  /\ LinearLine \in Nat \ {0} /\ LinearLines \in Nat \ {0}
  /\ TimerModes \subseteq SUBSET {"h", "v", "linear"} /\ Controls \subseteq SUBSET ControlBits
  /\ Enabling \subseteq SUBSET Sa1Sources /\ Clearing \subseteq SUBSET Sa1Sources

VARIABLES
  cpuFlag, cpuEnable, cpuLine, \* to the S-CPU: its flags, their enables, CPU::irq
  flag, enabled, cleared,      \* to the SA-1: *_fl, *_irqen and *_irqcl
  control,                     \* $2200: sa1_irq, sa1_nmi, sa1_rdyb and sa1_resb
  at,                          \* where the SA-1's thread is
  wai, stp, masked,            \* r.wai, r.stp, r.p.i
  pending,                     \* status.interruptPending
  hcounter, vcounter, timerMode

cpuSide == <<cpuFlag, cpuEnable, cpuLine>>
sources == <<flag, enabled, cleared>>
core    == <<at, wai, stp, masked, pending>>
timerOf == <<hcounter, vcounter, timerMode>>
sa1Vars == <<cpuSide, sources, control, core, timerOf>>

Sa1TypeOK ==
  /\ cpuFlag \subseteq CpuSources /\ cpuEnable \subseteq CpuSources /\ cpuLine \in BOOLEAN
  /\ flag \subseteq Sa1Sources /\ enabled \subseteq Sa1Sources /\ cleared \subseteq Sa1Sources
  /\ control \subseteq ControlBits
  /\ at \in {"boundary", "begun", "last", "waiting", "stopped", "dma"}
  /\ wai \in BOOLEAN /\ stp \in BOOLEAN /\ masked \in BOOLEAN /\ pending \in BOOLEAN
  /\ hcounter \in Nat /\ vcounter \in Nat /\ timerMode \subseteq {"h", "v", "linear"}

-----------------------------------------------------------------------------
(* The S-CPU's registers (writeIOCPU) *)

\* A reset leaves masked, wai and pending as they are.
WriteCCNT(bits) ==
  /\ control' = bits
  /\ stp' = (stp /\ ~("resb" \in control /\ "resb" \notin bits))
  /\ LET raised == bits \cap {"irq", "nmi"}
     IN  flag' = flag \cup raised /\ cleared' = cleared \ (raised \cap enabled)
  /\ UNCHANGED <<cpuSide, enabled, at, wai, masked, pending, timerOf>>

WriteSIE_Late(set) ==
  /\ cpuEnable' = set /\ UNCHANGED cpuLine
  /\ UNCHANGED <<cpuFlag, sources, control, core, timerOf>>
WriteSIE(set) ==
  /\ cpuEnable' = set
  /\ cpuLine' = (cpuLine \/ (set \ cpuEnable) \cap cpuFlag # {})
  /\ UNCHANGED <<cpuFlag, sources, control, core, timerOf>>

WriteSIC(set) ==
  /\ cpuFlag' = cpuFlag \ set /\ cpuLine' = (cpuLine /\ cpuFlag' # {})
  /\ UNCHANGED <<cpuEnable, sources, control, core, timerOf>>

-----------------------------------------------------------------------------
(* What signals an interrupt *)

ToCpu(source) ==
  /\ cpuFlag' = cpuFlag \cup {source} /\ cpuLine' = (cpuLine \/ source \in cpuEnable)
  /\ UNCHANGED cpuEnable

\* triggerIRQ(), and the end of dmaNormal().
ToSa1(source) ==
  /\ flag' = flag \cup {source}
  /\ cleared' = IF source \in enabled THEN cleared \ {source} ELSE cleared
  /\ UNCHANGED enabled

\* dmaCC1(), from either side, prepares a conversion and tells the S-CPU.
DmaCC1 == ToCpu("chdma") /\ UNCHANGED <<sources, control, core, timerOf>>

\* The S-CPU writes $2236 or $2237 and copies at once, on its own thread.
DmaByCpu == ToSa1("dma") /\ UNCHANGED <<cpuSide, control, core, timerOf>>

-----------------------------------------------------------------------------
(* step(): the timer.                                                      *)

CountHV ==
  IF hcounter + 1 < LineClocks THEN <<hcounter + 1, vcounter>>
  ELSE <<0, IF vcounter + 1 < Scanlines THEN vcounter + 1 ELSE 0>>
CountLinear ==
  <<(hcounter + 1) % LinearLine, (vcounter + (hcounter + 1) \div LinearLine) % LinearLines>>
Counted == IF "linear" \in timerMode THEN CountLinear ELSE CountHV

TimerHits(h1, v1) ==
  \/ timerMode \cap {"h", "v"} = {"h"} /\ h1 = Hcnt
  \/ timerMode \cap {"h", "v"} = {"v"} /\ v1 = Vcnt /\ h1 = 0
  \/ timerMode \cap {"h", "v"} = {"h", "v"} /\ v1 = Vcnt /\ h1 = Hcnt

StepTimer ==
  /\ hcounter' = Counted[1] /\ vcounter' = Counted[2] /\ UNCHANGED timerMode
  /\ IF TimerHits(Counted[1], Counted[2]) THEN ToSa1("timer") ELSE UNCHANGED sources
  /\ UNCHANGED <<cpuSide, control>>

\* Every cycle steps the timer, and so does a DMA of the S-CPU, wherever the
\* SA-1's thread is then.
Sa1Step == StepTimer /\ UNCHANGED core

-----------------------------------------------------------------------------
(* main() and lastCycle() *)

asleep == control \cap {"rdyb", "resb"} # {}

\* An instruction begins, or goes on to wait or to be stopped.
Begin65816 ==
  /\ at = "boundary"
  /\ \/ wai /\ at' = "waiting"
     \/ ~wai /\ stp /\ at' = "stopped"
     \/ ~wai /\ ~stp /\ ~asleep /\ ~pending /\ at' = "begun"
  /\ UNCHANGED <<cpuSide, sources, control, wai, stp, masked, pending, timerOf>>

Sleep ==
  /\ at = "boundary" /\ ~wai /\ ~stp /\ asleep
  /\ StepTimer /\ UNCHANGED core

Interrupt65816 ==
  /\ at = "boundary" /\ ~wai /\ ~stp /\ ~asleep /\ pending
  /\ pending' = FALSE /\ masked' = TRUE
  /\ UNCHANGED <<cpuSide, sources, control, at, wai, stp, timerOf>>

\* The first source of the list that a poll accepts; an NMI is cleared by that.
Requests(source) ==
  CASE source = "nmi"   -> "nmi" \in control /\ "nmi" \notin cleared
    [] source = "timer" -> source \in enabled \ cleared
    [] source = "dma"   -> source \in enabled \ cleared
    [] source = "irq"   -> "irq" \in control /\ "irq" \notin cleared
Accept(source) ==
  /\ pending' = TRUE /\ wai' = FALSE /\ flag' = flag \cup {source}
  /\ cleared' = IF source = "nmi" THEN cleared \cup {"nmi"} ELSE cleared
Poll ==
  IF Requests("nmi") THEN Accept("nmi")
  ELSE IF ~masked /\ Requests("timer") THEN Accept("timer")
  ELSE IF ~masked /\ Requests("dma") THEN Accept("dma")
  ELSE IF ~masked /\ Requests("irq") THEN Accept("irq")
  ELSE UNCHANGED <<pending, wai, flag, cleared>>

\* The poll before an instruction's last access; a waiting or stopped processor
\* polls in each cycle, until it may go on or a state is saved.
LastCycle ==
  /\ at \in {"begun", "waiting", "stopped"} /\ Poll
  /\ at' \in CASE at = "begun"   -> {"last"}
               [] at = "waiting" -> IF wai' THEN {"waiting", "boundary"} ELSE {"boundary"}
               [] at = "stopped" -> IF stp THEN {"stopped", "boundary"} ELSE {"boundary"}
  /\ UNCHANGED <<cpuSide, enabled, control, stp, masked, timerOf>>

-----------------------------------------------------------------------------
(* What an instruction does to the flag, to a register, before or after the  *)
(* poll; WAI and STP.                                                        *)

Effect == /\ \/ at = "begun" /\ at' = "begun"
             \/ at = "last" /\ at' = "boundary"
          /\ UNCHANGED <<control, pending>>

Flags65816 ==
  /\ Effect /\ masked' \in BOOLEAN
  /\ UNCHANGED <<cpuSide, sources, wai, stp, timerOf>>

\* These set their flag before they poll for the first time.
WaitOrStop ==
  /\ at = "begun"
  /\ \/ wai' = TRUE /\ at' = "waiting" /\ UNCHANGED stp
     \/ stp' = TRUE /\ at' = "stopped" /\ UNCHANGED wai
  /\ UNCHANGED <<cpuSide, sources, control, masked, pending, timerOf>>

WriteSCNT ==
  /\ Effect /\ ToCpu("cpu")
  /\ UNCHANGED <<sources, wai, stp, masked, timerOf>>

WriteCIE_Late(set) ==
  /\ Effect /\ enabled' = set /\ UNCHANGED <<flag, cleared>>
  /\ UNCHANGED <<cpuSide, wai, stp, masked, timerOf>>
WriteCIE(set) ==
  /\ Effect
  /\ enabled' = set /\ cleared' = cleared \ ((set \ enabled) \cap flag) /\ UNCHANGED flag
  /\ UNCHANGED <<cpuSide, wai, stp, masked, timerOf>>

WriteCIC(set) ==
  /\ Effect
  /\ cleared' = set /\ flag' = flag \ set /\ UNCHANGED enabled
  /\ UNCHANGED <<cpuSide, wai, stp, masked, timerOf>>

WriteTimer ==
  /\ Effect
  /\ \/ timerMode' \in TimerModes /\ UNCHANGED <<hcounter, vcounter>>
     \/ hcounter' = 0 /\ vcounter' = 0 /\ UNCHANGED timerMode
  /\ UNCHANGED <<cpuSide, sources, wai, stp, masked>>

\* dmaNormal() on the SA-1's thread, which lets the S-CPU run as it copies.
DmaBegins ==
  /\ at \in {"begun", "last"} /\ at' = "dma"
  /\ UNCHANGED <<cpuSide, sources, control, wai, stp, masked, pending, timerOf>>
DmaEnds ==
  /\ at = "dma" /\ at' \in {"begun", "boundary"} /\ ToSa1("dma")
  /\ UNCHANGED <<cpuSide, control, wai, stp, masked, pending, timerOf>>

-----------------------------------------------------------------------------
Sa1Init ==
  /\ cpuFlag = {} /\ cpuEnable = {} /\ cpuLine = FALSE
  /\ flag = {} /\ enabled = {} /\ cleared = {} /\ control = {"resb"}
  /\ at = "boundary" /\ wai = FALSE /\ stp = FALSE /\ masked = TRUE /\ pending = FALSE
  /\ hcounter = 0 /\ vcounter = 0 /\ timerMode = {}

Sa1Power ==
  /\ cpuFlag' = {} /\ cpuEnable' = {} /\ cpuLine' = FALSE
  /\ flag' = {} /\ enabled' = {} /\ cleared' = {} /\ control' = {"resb"}
  /\ at' = "boundary" /\ wai' = FALSE /\ stp' = FALSE /\ masked' = TRUE /\ pending' = FALSE
  /\ hcounter' = 0 /\ vcounter' = 0 /\ timerMode' = {}

\* What the S-CPU's side of the registers depends on, and the rest.
CpuSignals ==
  \/ \E set \in SUBSET CpuSources : WriteSIE(set) \/ WriteSIC(set)
  \/ DmaCC1 \/ WriteSCNT

Sa1Runs ==
  \/ \E bits \in Controls : WriteCCNT(bits)
  \/ DmaByCpu \/ Sa1Step \/ Begin65816 \/ Sleep \/ Interrupt65816 \/ LastCycle
  \/ Flags65816 \/ WaitOrStop \/ WriteTimer
  \/ \E set \in Enabling : WriteCIE(set)
  \/ \E set \in Clearing : WriteCIC(set)
  \/ DmaBegins \/ DmaEnds

Sa1Next == CpuSignals \/ Sa1Runs \/ Sa1Power
Sa1Spec == Sa1Init /\ [][Sa1Next]_sa1Vars

-----------------------------------------------------------------------------
(* Correctness. *)

\* The S-CPU's line is up whenever one of its flags is set and enabled, in
\* whatever order they were, and comes down when the last flag is cleared.
LineHeld == /\ cpuFlag \cap cpuEnable # {} => cpuLine
            /\ cpuLine => cpuFlag # {}

\* An event of the timer or of a DMA that is flagged and enabled, in either
\* order and whatever was cleared before, makes the first poll that is not masked
\* accept an interrupt and end a WAI: its own, or one that goes before it.
Signalled == flag \cap enabled \cap {"timer", "dma"} # {} /\ ~masked
EventsAccepted == [][LastCycle /\ Signalled => pending' /\ ~wai']_sa1Vars
=============================================================================
