----------------------------- MODULE Scheduler -----------------------------
(***************************************************************************)
(* The cooperative scheduler of the Super Famicom core (sfc/sfc.hpp), the  *)
(* threads that run under it and the host procedures that drive it         *)
(* (sfc/system/system.cpp).                                                *)
(*                                                                         *)
(* Every processor is a cothread: exactly one of them, or the host, runs.  *)
(* The S-CPU is the reference: each peer keeps a relative clock, negative  *)
(* when the peer is behind the CPU.  The CPU subtracts from the clocks as  *)
(* it executes and switches to a peer it needs only when that peer is      *)
(* behind; a peer adds to its own clock and switches back to the CPU.      *)
(*                                                                         *)
(* A definition whose name ends in _ and a word is a faulty variant of the *)
(* definition that follows it: it shows that a property depends on it.     *)
(***************************************************************************)
EXTENDS Integers, Sequences

CONSTANTS
  CPU, SMP, PPU,   \* the threads every cartridge has
  CopSeq,          \* cpu.coprocessors, in the order power() appends them
  Late,            \* coprocessors charged after the scanline (ICD, MSU1)
  Recreatable,     \* coprocessors whose thread a CPU write re-creates
  Host,            \* the cothread of the user interface
  Method,          \* configuration.system.serialization.method
  ForceStrict,     \* Star Ocean, Tales of Phantasia, or an ICD on the board
  Slack,           \* how far the SMP may run ahead before it must yield
  Quantum,         \* clocks one step of a peer may add, per peer
  CpuClocks,       \* clocks one bus cycle of the CPU may take
  CheatWrites,     \* the peers that the accesses of a list of cheats reach
  MayHalt,         \* the processors whose program may stop or wait
  MainOps, MaxOps, \* bound: operations one call of a thread's main() may make
  ClockCap,        \* bound: a clock farther than this from the CPU's saturates
  HPeriod, VPeriod, \* clocks per scanline, scanlines per frame
  Vdisp,           \* the lines the frame may end at, overscan off or on
  Overclock        \* clocks per frame during which only the CPU advances

Cops    == {CopSeq[i] : i \in DOMAIN CopSeq}
Peers   == {SMP, PPU} \cup Cops
Threads == Peers \cup {CPU}

ASSUME ThreadAssumption ==
  /\ SMP # PPU /\ CPU \notin Peers /\ Host \notin Threads
  /\ {SMP, PPU} \cap Cops = {}
ASSUME CopAssumption ==
  CopSeq \in Seq(Cops) /\ Late \subseteq Cops /\ Recreatable \subseteq Cops
ASSUME MethodAssumption == Method \in {"Fast", "Strict"} /\ ForceStrict \in BOOLEAN
ASSUME ClockAssumption ==
  /\ Slack \in Nat /\ Overclock \in Nat
  /\ Quantum \in [Peers -> SUBSET (Nat \ {0})]
  /\ CpuClocks \subseteq Nat \ {0}
ASSUME CheatAssumption == CheatWrites \subseteq Seq(Peers)
\* No step lasts for ever: each program has steps that are the longest.
Longest(S) == CHOOSE q \in S : \A r \in S : r <= q
ASSUME LongestAssumption ==
  \A S \in {CpuClocks} \cup {Quantum[p] : p \in Peers} :
    \E q \in S : \A r \in S : r <= q
ASSUME BoundAssumption ==
  /\ ClockCap \in Nat /\ ClockCap > Slack /\ MayHalt \subseteq {CPU, SMP}
  /\ MaxOps \in Nat \ {0} /\ MainOps \in [Threads -> 1..MaxOps]
  /\ HPeriod \in Nat \ {0} /\ VPeriod \in Nat \ {0}
  /\ Vdisp # {} /\ Vdisp \subseteq 0..(VPeriod - 1)

VARIABLES
  \* struct Scheduler
  mode, event, active, desynchronized,
  \* the cothread that executes: Host or a thread
  running,
  \* the stack of each thread: where it is, and how much of main() it has done
  pos, ops, halted,
  \* the operations left of the bus cycle the CPU is in
  todo,
  \* Thread::clock of each peer
  clock,
  \* CPU::hcounter, vcounter, overclocking.counter and ppu.vdisp()
  h, v, oc, vdisp,
  \* the host: the call it makes, how far it is, and its cheat writes
  call, stage, hostAt, writes, GlobalWriteEnable,
  \* configuration.hacks.coprocessor.delayedSync and runToSave's copy of it
  delayedSync, delayPrev

schedVars == <<mode, event, active, desynchronized, running>>
cpuVars   == <<todo, h, v, oc, vdisp>>
hostVars  == <<call, stage, hostAt, writes, GlobalWriteEnable,
               delayedSync, delayPrev>>
vars == <<schedVars, pos, ops, halted, clock, cpuVars, hostVars>>

-----------------------------------------------------------------------------
(* Positions of a thread, and the pieces of a CPU bus cycle. *)

\* top:    at Enter's loop head, about to call scheduler.synchronize()
\* parked: inside synchronize(), switched away by leave()
\* main:   inside main(), between two operations
\* sync:   inside scheduler.resume()
\* access: the SMP, past synchronizeCPU(), about to touch an I/O port
\* frame:  the CPU, switched away by leave(Event::Frame)
Positions == {"top", "parked", "main", "sync", "access", "frame"}

Ops == [kind : {"sync"}, peer : Peers]
         \cup [kind : {"charge"}, clocks : CpuClocks]
         \cup [kind : {"refresh", "delayed", "bus", "step", "access", "frame"}]

SyncOp(p) == [kind |-> "sync", peer |-> p]
Plain(k)  == [kind |-> k]

\* synchronizeCoprocessors() visits every coprocessor in list order.
CopSyncs == [i \in DOMAIN CopSeq |-> SyncOp(CopSeq[i])]

TypeOK ==
  /\ mode \in {"Run", "Synchronize"}
  /\ event \in {"Frame", "Synchronized", "Desynchronized"}
  /\ active \in Threads
  /\ desynchronized \in BOOLEAN
  /\ running \in Threads \cup {Host}
  /\ pos \in [Threads -> Positions]
  /\ ops \in [Threads -> 0..MaxOps]
  /\ halted \in [Threads -> BOOLEAN]
  /\ todo \in Seq(Ops)
  /\ clock \in [Peers -> -ClockCap..ClockCap]
  /\ h \in 0..(HPeriod - 1) /\ v \in 0..(VPeriod - 1) /\ oc \in 0..Overclock
  /\ vdisp \in Vdisp
  /\ call \in {"none", "run", "save", "cheats"}
  /\ stage \in Nat
  /\ hostAt \in {"idle", "entered", "frame", "decide", "cheats"}
  /\ writes \in Seq(Peers)
  /\ GlobalWriteEnable \in BOOLEAN
  /\ delayedSync \in BOOLEAN /\ delayPrev \in BOOLEAN

-----------------------------------------------------------------------------
(* struct Scheduler: the four ways control moves.  Each operator gives the *)
(* whole scheduler state; what the thread's own stack does is the caller's.*)

enter(t) == \* host enters t, which is scheduler.active
  /\ running' = t /\ active' = t
  /\ UNCHANGED <<event, desynchronized>>

leave(t, e) ==
  /\ event' = e /\ active' = t /\ running' = Host

resume(t) ==
  /\ desynchronized' = (desynchronized \/ mode = "Synchronize")
  /\ running' = t
  /\ UNCHANGED <<mode, event, active>>

synchronizing == mode = "Synchronize"

\* Clocks are 64-bit and never overflow; the model keeps them finite.
Saturate(c) == IF c > ClockCap THEN ClockCap ELSE IF c < -ClockCap THEN -ClockCap ELSE c

-----------------------------------------------------------------------------
(* What every thread does: Enter() is while(true) { synchronize(); main(); } *)

\* scheduler.synchronize() in Synchronize mode: back to the host.
SyncPoint(t) ==
  /\ running = t /\ pos[t] = "top" /\ synchronizing
  /\ leave(t, IF desynchronized THEN "Desynchronized" ELSE "Synchronized")
  /\ desynchronized' = FALSE
  /\ pos' = [pos EXCEPT ![t] = "parked"]
  /\ UNCHANGED <<mode, ops, halted, clock, cpuVars, hostVars>>

\* synchronize() returns, at once in Run mode or after the host re-entered t.
BeginMain(t) ==
  /\ running = t
  /\ pos[t] = "parked" \/ (pos[t] = "top" /\ ~synchronizing)
  /\ pos' = [pos EXCEPT ![t] = "main"]
  /\ ops' = [ops EXCEPT ![t] = 0]
  /\ UNCHANGED <<schedVars, halted, clock, cpuVars, hostVars>>

\* A thread may go on with main().  A stopped processor loops as long as no
\* state save asks it to reach its synchronization point; then the SMP still
\* completes the iteration it is in, and the CPU idles once more after WAI.
MayStep_Deaf(t) ==
  /\ running = t /\ pos[t] = "main" /\ (t = CPU => todo = <<>>)
  /\ halted[t] \/ ops[t] < MainOps[t]
MayStep(t) ==
  /\ running = t /\ pos[t] = "main" /\ (t = CPU => todo = <<>>)
  /\ IF halted[t]
     THEN ~synchronizing \/ (IF t = CPU THEN ops[t] = 0 ELSE ops[t] > 0)
     ELSE ops[t] < MainOps[t]

\* One more operation; the loop of a stopped processor starts over.
Count(t) ==
  ops' = [ops EXCEPT ![t] = IF ~halted[t] THEN @ + 1
                            ELSE IF t = CPU /\ synchronizing THEN 1 ELSE 0]

\* main() returns.
EndMain(t) ==
  /\ running = t /\ pos[t] = "main" /\ (t = CPU => todo = <<>>)
  /\ IF halted[t] THEN synchronizing /\ (t = CPU \/ ops[t] = 0) ELSE ops[t] > 0
  /\ pos' = [pos EXCEPT ![t] = "top"]
  /\ UNCHANGED <<schedVars, ops, halted, clock, cpuVars, hostVars>>

\* resume() returns: whoever switched to t finds it where it left.
ReturnFromResume(t) ==
  /\ running = t /\ pos[t] = "sync"
  /\ pos' = [pos EXCEPT ![t] = "main"]
  /\ todo' = IF t = CPU THEN Tail(todo) ELSE todo
  /\ UNCHANGED <<schedVars, ops, halted, clock, h, v, oc, vdisp, hostVars>>

\* STP and WAI (CPU), STOP and SLEEP (SMP).
Halt(t) ==
  /\ t \in MayHalt /\ running = t /\ pos[t] = "main" /\ ~halted[t]
  /\ ops[t] > 0 /\ (t = CPU => todo = <<>>)
  /\ halted' = [halted EXCEPT ![t] = TRUE]
  /\ ops' = [ops EXCEPT ![t] = 0]
  /\ UNCHANGED <<schedVars, pos, clock, cpuVars, hostVars>>

-----------------------------------------------------------------------------
(* The peers. *)

\* synchronizeCPU() of peer p after its clock has become c: the SMP's step
\* lets it run Slack ahead, every other peer yields as soon as it is not behind.
MustYield_SmpEarly(p, c) == IF p = SMP THEN c >= -Slack ELSE c >= 0
MustYield_Early(p, c)    == IF p = SMP THEN c > Slack ELSE c >= -1
MustYield_PpuRuns(p, c)  == IF p = SMP THEN c > Slack ELSE p # PPU /\ c >= 0
MustYield_SmpRuns(p, c)  == p # SMP /\ c >= 0
MustYield(p, c) == IF p = SMP THEN c > Slack ELSE c >= 0

\* A bus step: SMP::step, PPU::step, the step()s of the coprocessors.
PeerStep(p) ==
  /\ MayStep(p)
  /\ (p = SMP /\ halted[p]) => ops[p] = 0
  /\ \E q \in Quantum[p] :
       /\ clock' = [clock EXCEPT ![p] = Saturate(@ + q)]
       /\ IF MustYield(p, clock[p] + q)
          THEN resume(CPU) /\ pos' = [pos EXCEPT ![p] = "sync"]
          ELSE UNCHANGED <<schedVars, pos>>
  /\ ops' = [ops EXCEPT ![p] = IF halted[p] THEN 1 ELSE @ + 1]
  /\ UNCHANGED <<halted, cpuVars, hostVars>>

\* SMP::stepIdle never yields; every instruction fetches before it idles.
SmpIdle ==
  /\ MayStep(SMP) /\ ops[SMP] > 0
  /\ \E q \in Quantum[SMP] : clock' = [clock EXCEPT ![SMP] = Saturate(@ + q)]
  /\ Count(SMP)
  /\ UNCHANGED <<schedVars, pos, halted, cpuVars, hostVars>>

\* $f4-$f7, and $f1 when it clears ports: synchronizeCPU(), one test, no loop.
SmpPort ==
  /\ MayStep(SMP) /\ ~halted[SMP] /\ ops[SMP] > 0
  /\ pos' = [pos EXCEPT ![SMP] = "access"]
  /\ IF clock[SMP] >= 0 THEN resume(CPU) ELSE UNCHANGED schedVars
  /\ Count(SMP)
  /\ UNCHANGED <<halted, clock, cpuVars, hostVars>>

SmpAccess ==
  /\ running = SMP /\ pos[SMP] = "access"
  /\ pos' = [pos EXCEPT ![SMP] = "main"]
  /\ UNCHANGED <<schedVars, ops, halted, clock, cpuVars, hostVars>>

-----------------------------------------------------------------------------
(* The CPU. *)

\* What is left of the cycle starts with an operation of kind k.
Doing(k) == /\ running = CPU /\ pos[CPU] = "main"
            /\ todo # <<>> /\ Head(todo).kind = k

\* CPU::scanline(), entered with the beam on line y.
ScanlineOps_NoSmp(y) ==
  <<SyncOp(PPU)>> \o CopSyncs
    \o (IF y = vdisp THEN <<SyncOp(PPU), Plain("frame")>> ELSE <<>>)
ScanlineOps_NextLine(y) ==
  <<SyncOp(SMP), SyncOp(PPU)>> \o CopSyncs
    \o (IF y = vdisp + 1 THEN <<SyncOp(PPU), Plain("frame")>> ELSE <<>>)
ScanlineOps(y) ==
  <<SyncOp(SMP), SyncOp(PPU)>> \o CopSyncs
    \o (IF y = vdisp THEN <<SyncOp(PPU), Plain("frame")>> ELSE <<>>)

Charge(P, q) ==
  [p \in Peers |-> IF p \in P THEN Saturate(clock[p] - q) ELSE clock[p]]

\* PPUcounter::tickScanline
tickScanline == (v + 1) % VPeriod

\* CPU::step<q,sync>(): the first charge, the overclocking early return, then
\* tick() with its scanline; what follows the scanline is left in todo.
Step(q, sync, rest) ==
  LET delayed == IF sync THEN <<Plain("delayed")>> ELSE <<>>
      wraps   == h + q >= HPeriod
      y       == tickScanline
  IN  /\ clock' = Charge(Cops \ Late, q)
      /\ vdisp' = vdisp
      /\ IF oc + q < Overclock
         THEN /\ oc' = oc + q
              /\ todo' = delayed \o rest
              /\ UNCHANGED <<h, v>>
         ELSE /\ h' = (h + q) % HPeriod
              /\ v' = IF wraps THEN y ELSE v
              /\ oc' = IF wraps /\ y = VPeriod - 1 THEN 0 ELSE Overclock
              /\ todo' = (IF wraps THEN ScanlineOps(y) ELSE <<>>)
                           \o <<[kind |-> "charge", clocks |-> q]>>
                           \o <<Plain("refresh")>> \o delayed \o rest

\* A bus cycle.  idle() takes one step; write() accesses the bus after a step
\* that synchronizes the coprocessors, as each access of a DMA does; read() takes
\* another step after its access.
CpuCycle ==
  /\ MayStep(CPU)
  /\ \E q \in CpuClocks :
       \/ Step(q, FALSE, <<>>)
       \/ /\ ~halted[CPU]
          /\ \/ Step(q, TRUE, <<Plain("bus")>>)
             \/ Step(q, TRUE, <<Plain("bus"), Plain("step")>>)
  /\ Count(CPU)
  /\ \/ UNCHANGED halted
     \/ halted[CPU] /\ halted' = [halted EXCEPT ![CPU] = FALSE] \* an interrupt
  /\ UNCHANGED <<schedVars, pos, hostVars>>

\* DRAM refresh, when it is due: more steps inside step().
CpuRefresh ==
  /\ Doing("refresh")
  /\ \/ ops[CPU] < MainOps[CPU] /\ ops' = [ops EXCEPT ![CPU] = @ + 1]
          /\ \E q \in CpuClocks : Step(q, FALSE, Tail(todo))
     \/ todo' = Tail(todo) /\ UNCHANGED <<ops, clock, h, v, oc, vdisp>>
  /\ UNCHANGED <<schedVars, pos, halted, hostVars>>

\* The rest of a read.
CpuTail ==
  /\ Doing("step")
  /\ \E q \in CpuClocks : Step(q, FALSE, Tail(todo))
  /\ UNCHANGED <<schedVars, pos, ops, halted, hostVars>>

\* The access: to memory, or to memory-mapped I/O: readAPU and writeAPU, the
\* PPU's registers, the registers and memories of the coprocessors.  Overscan
\* ($2133) moves the end of the picture at once, also in the middle of a frame.
CpuBusAccess ==
  /\ Doing("bus")
  /\ \E io \in {<<>>, <<SyncOp(SMP), Plain("access")>>, <<SyncOp(PPU)>>, CopSyncs} :
       /\ todo' = io \o Tail(todo)
       /\ vdisp' \in IF io = <<SyncOp(PPU)>> THEN Vdisp ELSE {vdisp}
  /\ UNCHANGED <<schedVars, pos, ops, halted, clock, h, v, oc, hostVars>>

\* ICD::writeIO $6003 (power) and ArmDSP::reset: Thread::create again.
CpuRecreate ==
  /\ Doing("bus")
  /\ \E c \in Recreatable :
       /\ pos' = [pos EXCEPT ![c] = "top"]
       /\ clock' = [clock EXCEPT ![c] = 0]
       /\ ops' = [ops EXCEPT ![c] = 0]
  /\ todo' = Tail(todo)
  /\ UNCHANGED <<schedVars, halted, h, v, oc, vdisp, hostVars>>

\* synchronizeSMP, synchronizePPU, one turn of synchronizeCoprocessors.  While
\* the CPU is inside resume(p), the operation stays at the head of todo.
CpuSync_AtZero ==
  /\ Doing("sync")
  /\ LET p == Head(todo).peer IN
       IF clock[p] <= 0
       THEN resume(p) /\ pos' = [pos EXCEPT ![CPU] = "sync"] /\ UNCHANGED todo
       ELSE todo' = Tail(todo) /\ UNCHANGED <<schedVars, pos>>
  /\ UNCHANGED <<ops, halted, clock, h, v, oc, vdisp, hostVars>>

CpuSync ==
  /\ Doing("sync")
  /\ LET p == Head(todo).peer IN
       IF clock[p] < 0
       THEN resume(p) /\ pos' = [pos EXCEPT ![CPU] = "sync"] /\ UNCHANGED todo
       ELSE todo' = Tail(todo) /\ UNCHANGED <<schedVars, pos>>
  /\ UNCHANGED <<ops, halted, clock, h, v, oc, vdisp, hostVars>>

\* smp.clock, ppu.clock and the late coprocessors, charged after the scanline.
CpuCharge ==
  /\ Doing("charge")
  /\ clock' = Charge({SMP, PPU} \cup Late, Head(todo).clocks)
  /\ todo' = Tail(todo)
  /\ UNCHANGED <<schedVars, pos, ops, halted, h, v, oc, vdisp, hostVars>>

CpuDelayed_Inverted ==
  /\ Doing("delayed")
  /\ todo' = IF delayedSync THEN CopSyncs \o Tail(todo) ELSE Tail(todo)
  /\ UNCHANGED <<schedVars, pos, ops, halted, clock, h, v, oc, vdisp, hostVars>>

CpuDelayed ==
  /\ Doing("delayed")
  /\ todo' = IF delayedSync THEN Tail(todo) ELSE CopSyncs \o Tail(todo)
  /\ UNCHANGED <<schedVars, pos, ops, halted, clock, h, v, oc, vdisp, hostVars>>

CpuAccess == \* smp.portRead or smp.portWrite
  /\ Doing("access")
  /\ todo' = Tail(todo)
  /\ UNCHANGED <<schedVars, pos, ops, halted, clock, h, v, oc, vdisp, hostVars>>

\* scheduler.leave(Event::Frame) at the end of the visible picture.
CpuFrame ==
  /\ Doing("frame")
  /\ leave(CPU, "Frame")
  /\ pos' = [pos EXCEPT ![CPU] = "frame"]
  /\ UNCHANGED <<mode, desynchronized, ops, halted, clock, cpuVars, hostVars>>

CpuAfterFrame ==
  /\ running = CPU /\ pos[CPU] = "frame"
  /\ pos' = [pos EXCEPT ![CPU] = "main"]
  /\ todo' = Tail(todo)
  /\ UNCHANGED <<schedVars, ops, halted, clock, h, v, oc, vdisp, hostVars>>

-----------------------------------------------------------------------------
(* The host: System::run, System::runToSave and System::frameEvent. *)

StrictOrder_NoCops == <<SMP, CPU, SMP, PPU>>
StrictOrder == <<SMP, CPU, SMP, PPU>> \o CopSeq
FastOrder   == <<SMP, PPU>> \o CopSeq

\* runToSave overrides the configured method for some cartridges.
method == IF ForceStrict THEN "Strict" ELSE Method
Order  == IF method = "Strict" THEN StrictOrder ELSE FastOrder

HostIdle == running = Host /\ call = "none"
stackVars == <<pos, ops, halted, clock, cpuVars>>

Run ==
  /\ HostIdle
  /\ mode' = "Run" /\ enter(active)
  /\ call' = "run" /\ hostAt' = "entered"
  /\ UNCHANGED <<stackVars, stage, writes, GlobalWriteEnable, delayedSync, delayPrev>>

\* serialize(1).  Strict starts with the first thread of its order; Fast first
\* enters whichever thread is active (stage 0) until the CPU synchronizes.
RunToSave ==
  /\ HostIdle
  /\ delayPrev' = delayedSync /\ delayedSync' = TRUE
  /\ mode' = "Synchronize" /\ call' = "save" /\ hostAt' = "entered"
  /\ IF method = "Strict" THEN stage' = 1 /\ enter(Order[1])
                          ELSE stage' = 0 /\ enter(active)
  /\ UNCHANGED <<stackVars, writes, GlobalWriteEnable>>

\* frameEvent: the video output is presented, then each enabled cheat is
\* written to the bus, with write-protected memory writable.

FrameEvent ==
  /\ running = Host /\ hostAt = "entered" /\ event = "Frame"
  /\ GlobalWriteEnable' = TRUE /\ writes' \in CheatWrites /\ hostAt' = "frame"
  /\ UNCHANGED <<schedVars, stackVars, call, stage, delayedSync, delayPrev>>

\* Interface::cheats: the user changes the list; the bytes of the old cheats are
\* written back, those of the new ones read and written.  With an ICD, the only
\* coprocessor that is both late and re-created, the cheats are its own.  That
\* the user does so after a frame, and not between a save and the next frame,
\* is assumed: a save leaves peers behind the CPU.
HasICD == Late \cap Recreatable # {}

Cheats ==
  /\ HostIdle /\ ~HasICD /\ event = "Frame"
  /\ call' = "cheats" /\ hostAt' = "cheats"
  /\ GlobalWriteEnable' = TRUE /\ writes' \in CheatWrites
  /\ UNCHANGED <<schedVars, stackVars, stage, delayedSync, delayPrev>>

CheatsReturn ==
  /\ running = Host /\ hostAt = "cheats" /\ writes = <<>>
  /\ call' = "none" /\ hostAt' = "idle" /\ GlobalWriteEnable' = FALSE
  /\ UNCHANGED <<schedVars, stackVars, stage, writes, delayedSync, delayPrev>>

\* bus.read or bus.write on I/O calls cpu.synchronizeX() on the host's stack.
CheatWrite ==
  /\ running = Host /\ hostAt \in {"frame", "cheats"} /\ writes # <<>>
  /\ IF clock[Head(writes)] < 0 THEN resume(Head(writes)) ELSE UNCHANGED schedVars
  /\ writes' = Tail(writes)
  /\ UNCHANGED <<stackVars, call, stage, hostAt, GlobalWriteEnable,
                 delayedSync, delayPrev>>

FrameEventEnd ==
  /\ running = Host /\ hostAt = "frame" /\ writes = <<>>
  /\ GlobalWriteEnable' = FALSE /\ hostAt' = "decide"
  /\ UNCHANGED <<schedVars, stackVars, call, stage, writes, delayedSync, delayPrev>>

\* enter() has returned and the frame, if there was one, is dealt with.
Entered(c) ==
  /\ running = Host /\ call = c
  /\ hostAt = "decide" \/ (hostAt = "entered" /\ event # "Frame")

RunReturn ==
  /\ Entered("run")
  /\ call' = "none" /\ hostAt' = "idle"
  /\ UNCHANGED <<schedVars, stackVars, stage, writes, GlobalWriteEnable,
                 delayedSync, delayPrev>>

\* The save loops go round: enter() again at scheduler.active.
Reenter(t, s) ==
  /\ enter(t) /\ stage' = s /\ hostAt' = "entered"
  /\ UNCHANGED <<mode, stackVars, call, writes, GlobalWriteEnable,
                 delayedSync, delayPrev>>

\* A frame ended; in Fast also every desynchronization, and in its first loop
\* a synchronization of another thread than the CPU.
SaveContinue ==
  /\ Entered("save")
  /\ \/ event = "Frame"
     \/ method = "Fast" /\ event = "Desynchronized"
     \/ method = "Fast" /\ stage = 0 /\ event = "Synchronized" /\ active # CPU
  /\ Reenter(active, stage)

\* Strict: a thread resumed another, so start again with every thread.
SaveRestart_InPlace ==
  /\ Entered("save") /\ method = "Strict" /\ event = "Desynchronized"
  /\ Reenter(active, stage)

SaveRestart ==
  /\ Entered("save") /\ method = "Strict" /\ event = "Desynchronized"
  /\ Reenter(Order[1], 1)

SaveNext ==
  /\ Entered("save") /\ event = "Synchronized" /\ stage < Len(Order)
  /\ stage = 0 => active = CPU
  /\ Reenter(Order[stage + 1], stage + 1)

SaveReturn_LastActive ==
  /\ Entered("save") /\ event = "Synchronized" /\ stage = Len(Order)
  /\ mode' = "Run" /\ delayedSync' = delayPrev
  /\ call' = "none" /\ hostAt' = "idle"
  /\ UNCHANGED <<event, active, desynchronized, running, stackVars, stage, writes,
                 GlobalWriteEnable, delayPrev>>

SaveReturn ==
  /\ Entered("save") /\ event = "Synchronized" /\ stage = Len(Order)
  /\ mode' = "Run" /\ active' = CPU /\ delayedSync' = delayPrev
  /\ call' = "none" /\ hostAt' = "idle"
  /\ UNCHANGED <<event, desynchronized, running, stackVars, stage, writes,
                 GlobalWriteEnable, delayPrev>>

\* System::power: every thread is created again at its entry point.
Power ==
  /\ HostIdle
  /\ pos' = [t \in Threads |-> "top"] /\ ops' = [t \in Threads |-> 0]
  /\ halted' = [t \in Threads |-> FALSE] /\ clock' = [p \in Peers |-> 0]
  /\ todo' = <<>> /\ h' = 0 /\ v' = 0 /\ oc' = Overclock /\ vdisp' \in Vdisp
  /\ active' = CPU
  /\ UNCHANGED <<mode, event, desynchronized, running, hostVars>>

-----------------------------------------------------------------------------
Init ==
  /\ mode = "Run" /\ event = "Frame" /\ active = CPU /\ desynchronized = FALSE
  /\ running = Host
  /\ pos = [t \in Threads |-> "top"] /\ ops = [t \in Threads |-> 0]
  /\ halted = [t \in Threads |-> FALSE] /\ clock = [p \in Peers |-> 0]
  /\ todo = <<>> /\ h = 0 /\ v = 0 /\ oc = Overclock /\ vdisp \in Vdisp
  /\ call = "none" /\ stage = 0 /\ hostAt = "idle" /\ writes = <<>>
  /\ GlobalWriteEnable = FALSE
  /\ delayedSync \in BOOLEAN /\ delayPrev = delayedSync

AnyThread == \E t \in Threads :
  SyncPoint(t) \/ BeginMain(t) \/ EndMain(t) \/ ReturnFromResume(t) \/ Halt(t)
Peer   == (\E p \in Peers : PeerStep(p)) \/ SmpIdle \/ SmpPort \/ SmpAccess
CpuBus == \/ CpuCycle \/ CpuRefresh \/ CpuTail \/ CpuBusAccess \/ CpuRecreate
          \/ CpuSync
          \/ CpuCharge \/ CpuDelayed \/ CpuAccess \/ CpuFrame \/ CpuAfterFrame
HostBusy == \/ FrameEvent \/ CheatWrite \/ FrameEventEnd \/ CheatsReturn \/ RunReturn
            \/ SaveContinue \/ SaveRestart \/ SaveNext \/ SaveReturn

\* What the machine does once the host has called: it never stops by itself.
Busy == AnyThread \/ Peer \/ CpuBus \/ HostBusy
Next == Busy \/ Run \/ RunToSave \/ Power \/ Cheats

Spec == Init /\ [][Next]_vars

\* The emulator between two state saves, from power on.
NextRun == Busy \/ Run \/ Power \/ Cheats
RunSafe == Init /\ [][NextRun]_vars
RunSpec == RunSafe /\ WF_vars(Busy)

\* Cothreads are plain code: a step that can be taken is executed.  Nothing
\* obliges the user interface to call again.
FairSpec == Spec /\ WF_vars(Busy)

-----------------------------------------------------------------------------
(* Correctness. *)

\* resume(p) gives the CPU back a peer that is not behind: synchronizeSMP,
\* synchronizePPU and synchronizeCoprocessors test the clock once, do not test
\* it again, and rely on every peer to return only when it has caught up.
CaughtUp ==
  mode = "Run" /\ running = CPU /\ pos[CPU] = "sync" => clock[Head(todo).peer] >= 0

\* In Run mode the two sides touch the four APU ports in the order of virtual
\* time: the SMP only while it is behind the CPU, the CPU only when the SMP is
\* not behind it (readAPU, writeAPU; smp/io.cpp $f1, $f4-$f7).
PortOrder == [][mode = "Run" => /\ SmpAccess => clock[SMP] < 0
                                /\ CpuAccess => clock[SMP] >= 0]_vars

\* runToSave returns with every thread inside scheduler.synchronize(): a state
\* holds no stacks, and power() will restart every thread at its entry point.
SavedAtSyncPoints ==
  [][call = "save" /\ call' = "none" => \A t \in Threads : pos'[t] = "parked"]_vars

\* Whenever the host is idle it can run, save or copy stacks: the scheduler is
\* in Run mode, the next enter() goes to the CPU (scheduler.active is in no
\* state), no desynchronization is pending, and the CPU is not inside resume().
IdleIsResumable ==
  HostIdle => /\ mode = "Run" /\ active = CPU /\ ~desynchronized
              /\ pos[CPU] \in {"top", "parked", "frame"}

\* Outside a state save no emulated processor runs while frameEvent, or a change
\* of the cheat list after a frame, has write-protected memory open: at the frame
\* every peer is synchronized, and stays so until the host calls again, so a cheat
\* on an I/O port does not switch to the peer behind the port.
RomProtected == GlobalWriteEnable /\ mode = "Run" => running = Host

\* With delayed synchronization off, the CPU accesses the bus only when no
\* coprocessor is behind it (CPU::step, also while overclocking): the access may
\* be to a coprocessor's memory.
CoprocessorsKeepUp ==
  mode = "Run" /\ ~delayedSync /\ Doing("bus") => \A c \in Cops : clock[c] >= 0

\* Programs that never communicate still stay together: no peer lags behind by
\* more than a scanline and the bus cycle that ends it (a coprocessor charged
\* before the scanline also by the overclocking time), none but the SMP leads by
\* a step, and the SMP leads by no more than it may run ahead plus the main(), or
\* the loop of two steps it is stopped in, that it executes before it must yield.
Early(p)  == p \in Cops \ Late
Lag(p)    == HPeriod - 1 + Longest(CpuClocks) + IF Early(p) THEN Overclock ELSE 0
SmpOps    == IF MainOps[SMP] > 2 THEN MainOps[SMP] ELSE 2
Gained(n) == Slack + n * Longest(Quantum[SMP])
Lead(p)   == IF p = SMP THEN Gained(SmpOps) ELSE Longest(Quantum[p]) - 1

LagBounded == \A p \in Peers : clock[p] >= -Lag(p) /\ clock[p] <= Lead(p)

\* System::run returns: the beam reaches the frame line whatever the programs
\* of the processors do, stopped, waiting or never communicating.
FrameEventually == call = "run" ~> call = "none"

\* A stopped or waiting processor that is run while a state save waits for it
\* does not idle on for ever, with a frame now and then: it notices the save and
\* comes to its synchronization point, unless the save ends or it wakes up.
HeedsSave(t) ==
  []<>(running = t /\ synchronizing /\ halted[t])
    => []<>(~synchronizing \/ pos[t] \in {"top", "parked"} \/ ~halted[t])

\* Also during a state save every enter() returns to the host, and no program's
\* STP, WAI, STOP or SLEEP holds a save up.
ControlReturns ==
  /\ running # Host ~> running = Host
  /\ \A t \in MayHalt : HeedsSave(t)

-----------------------------------------------------------------------------
(* The inductive invariant of the Strict method.  It holds of Fast only as *)
(* long as no state is saved.                                              *)

\* The host procedures, the mode they set, and the memory they open.
HostShape ==
  /\ call = "none" <=> hostAt = "idle"
  /\ call = "none" => running = Host
  /\ mode = IF call = "save" THEN "Synchronize" ELSE "Run"
  /\ call = "cheats" <=> hostAt = "cheats"
  /\ running # Host => hostAt \in {"entered", "frame", "cheats"}
  /\ GlobalWriteEnable <=> hostAt \in {"frame", "cheats"}
  /\ call = "save" => stage \in 1..Len(Order)

\* The CPU's stack agrees with what is left of its bus cycle.
StackShape ==
  /\ pos[CPU] \in {"top", "parked"} => todo = <<>>
  /\ pos[CPU] = "sync" => todo # <<>> /\ Head(todo).kind = "sync"
  /\ pos[CPU] = "frame" => todo # <<>> /\ Head(todo).kind = "frame"
  /\ pos[CPU] # "access"

\* Only synchronizations come before a frame or a port access...
OnlySyncsBefore ==
  \A i \in DOMAIN todo : todo[i].kind \in {"frame", "access"} =>
    \A j \in 1..(i - 1) : todo[j].kind = "sync"

Needs(kind, p) == kind = "frame" \/ (kind = "access" /\ p = SMP)

\* ... and for every peer it needs, that peer is not behind or one is to come.
SyncedBefore ==
  mode = "Run" => \A i \in DOMAIN todo : \A p \in Peers :
    Needs(todo[i].kind, p) =>
      clock[p] >= 0 \/ \E j \in 1..(i - 1) : todo[j] = SyncOp(p)

\* In Run mode a peer runs only inside the CPU's resume of that peer.
Handshake ==
  mode = "Run" =>
    /\ ~desynchronized /\ active = CPU
    /\ running = Host => pos[CPU] \in {"top", "parked", "frame"}
    /\ running \in Peers => pos[CPU] = "sync" /\ Head(todo) = SyncOp(running)
    /\ running = SMP /\ pos[SMP] = "access" => clock[SMP] < 0
    /\ running = CPU /\ pos[CPU] = "sync" => clock[Head(todo).peer] >= 0

\* A frame finds every peer synchronized, and leaves them so for the host.
FrameSynced ==
  mode = "Run" /\ running = Host =>
    /\ call \in {"run", "cheats"} => event = "Frame"
    /\ event = "Frame" => \A p \in Peers : clock[p] >= 0
FrameOnHost == mode = "Run" /\ hostAt \in {"frame", "cheats"} => running = Host

\* The threads of the first k stages, but for t, are parked.
ParkedBefore(k, t) ==
  \A i \in 1..k : Order[i] # t => pos[Order[i]] = "parked"

\* As long as no thread has resumed another, the thread of the current stage
\* runs (or is the CPU, at a frame) and those of the stages before are parked.
StrictProgress ==
  call = "save" =>
    /\ running # Host /\ ~desynchronized =>
         running = Order[stage] /\ ParkedBefore(stage - 1, Order[stage])
    /\ running = Host /\ event = "Frame" =>
         /\ active = CPU
         /\ ~desynchronized =>
              CPU = Order[stage] /\ ParkedBefore(stage - 1, Order[stage])
    /\ running = Host /\ event = "Synchronized" =>
         ~desynchronized /\ \A i \in 1..stage : pos[Order[i]] = "parked"
    /\ running = Host /\ event = "Desynchronized" => ~desynchronized

\* No peer but the SMP is executed while the CPU is behind it.
RunsBehind ==
  mode = "Run" /\ running \in Peers \ {SMP} => clock[running] < 0

IInv == /\ TypeOK /\ HostShape /\ StackShape /\ OnlySyncsBefore /\ SyncedBefore
        /\ Handshake /\ FrameSynced /\ FrameOnHost /\ StrictProgress

\* What a peer may be behind since the last scanline, and what is charged to it
\* with a bus cycle that has been counted already.
Room(p) == h + (IF Early(p) THEN oc ELSE Longest(CpuClocks))
Owes(p, op) == IF Early(p) THEN 0 ELSE op.clocks

\* Only a scanline comes before the charge of the step that reached it.
ChargeFirst ==
  \A i \in DOMAIN todo : todo[i].kind = "charge" =>
    \A j \in 1..(i - 1) : todo[j].kind \in {"sync", "frame"}

\* A peer that is behind by more than its room is about to be synchronized.
Behind ==
  \A p \in Peers :
    /\ clock[p] >= -Lag(p)
    /\ (\A i \in DOMAIN todo : todo[i].kind # "charge") => clock[p] >= -Room(p)
    /\ \A i \in DOMAIN todo : todo[i].kind = "charge" =>
          \/ clock[p] - Owes(p, todo[i]) >= -Room(p)
          \/ \E j \in 1..(i - 1) : todo[j] = SyncOp(p)

\* What the SMP has gained in the operations since it last had to look.
SmpAhead ==
  /\ halted[SMP] => ops[SMP] <= 1
  /\ ops[SMP] <= SmpOps
  /\ running = SMP =>
       clock[SMP] <= Gained(IF ops[SMP] = 0 THEN SmpOps - 1 ELSE ops[SMP] - 1)

LagInv == /\ ChargeFirst /\ Behind /\ SmpAhead
          /\ \A p \in Peers : clock[p] <= Lead(p)

-----------------------------------------------------------------------------
(* The abstract specification this one implements. *)

VT == INSTANCE VirtualTime WITH
  lead <- clock, presented <- hostAt \in {"frame", "decide"},
  open <- GlobalWriteEnable, Ahead <- {SMP}

\* Seen from outside, the threads are processors in virtual time, and a call of
\* run() presents one frame and returns (all of sfc.hpp and system.cpp).
VirtualTimeKept == VT!Promise

=============================================================================
