# A TLA+ model of the bsnes core

This directory models the parts of bsnes in which the order of events decides whether
the emulation is right: the cooperative scheduler and the save procedure built on it,
the interrupt unit, the DMA and the joypad polling of the S-CPU, its bus, the timers of the
S-SMP, the SA-1's interrupts, the two real-time clocks, the multiplier, the flash memory of
the memory packs, and the states, the rewinding and the movies of the user interface. The modules are translated from the code; paths below are
relative to `src/`.

`PROJECT.json` lists the components, runs, mutants, hazards and theorems, and for every
definition that models code the lines it stands for.

## The system

bsnes emulates the Super Famicom: a 65816 CPU with DMA and interrupt logic, two PPUs, an
SPC700 sound processor with a DSP, and some twenty kinds of coprocessor in cartridges.
Each processor that runs at its own pace is a *cothread* of libco. There is no
preemption: one cothread executes at any moment and control moves only by `co_switch`.
The CPU is the reference of time: every other thread (a *peer*) has a clock relative to
it, negative when the peer is behind.

| component | state | operations | interacts with |
|---|---|---|---|
| Scheduler (`bsnes/sfc/sfc.hpp`) | mode, event, active, desynchronized | enter, leave, resume, synchronize | every thread and System |
| System (`sfc/system`) | frame counters, save method | run, runToSave, frameEvent, power, (un)serialize | Scheduler, user interface, cheats |
| CPU bus and timing (`sfc/cpu/{cpu,timing,memory}.cpp`) | counters, todo of the cycle | idle, read, write, step, scanline | charges and resumes all peers; calls the frame event |
| CPU interrupts (`sfc/cpu/irq.cpp`) | Status, IO | nmiPoll, irqPoll, nmitimenUpdate, rdnmi, timeup, lastCycle | beam, bus cycles, coprocessors' IRQ |
| 65816 (`processor/wdc65816`) | registers, wai, stp | instructions, interrupt | bus cycles |
| DMA and HDMA (`sfc/cpu/dma.cpp`) | 8 channels, dmaActive | dmaEdge, dmaRun, hdmaSetup, hdmaRun | bus cycles, beam triggers |
| Multiplier and divider (`sfc/cpu/{io,timing}.cpp`) | operands, results, steps left | $4202-$4206, aluEdge | bus cycles, $4214-$4217 |
| Automatic joypads (`sfc/cpu/timing.cpp`) | autoJoypadCounter, latches | joypadEdge | controllers, $4016, $4200 |
| Beam counter (`sfc/ppu/counter`) | hcounter, vcounter, field, ring of past lines | tick | one instance in the CPU, one in the PPU |
| PPU, accurate and fast (`sfc/ppu`, `sfc/ppu-fast`) | registers, vram, lines | main, step, readIO, writeIO | resumed by CPU, gives vdisp |
| SMP (`sfc/smp`) | ports, timers, ram | step, stepIdle, port access | CPU through 4 ports; runs the DSP |
| DSP (`sfc/dsp`) | vendored synthesizer | clock | within the SMP's thread |
| Coprocessors (`sfc/coprocessor`) | per chip | main, step, bus handlers | CPU's list `coprocessors`; IRQ line |
| SA-1 (`sfc/coprocessor/sa1`) | flags, enables and accepts of six interrupts, timer, DMA | register handlers of both processors, main, lastCycle | S-CPU's IRQ line; runs in turns with the S-CPU |
| Real-time clocks (`sfc/coprocessor/{epsonrtc,sharprtc}`) | digits of the time, register protocol | main, tick*, read, write, load, save | a thread each; read digit by digit by programs |
| Bus (`sfc/memory`) | lookup, target, 256 handlers and their counters | map, unmap, reset, mirror, reduce, read, write | every access; cartridge, chips and expansion map themselves |
| Memory pack (`sfc/slot/bsmemory`) | blocks with locks, ready and erasing bits, command queue | write, read, main, erase, power | its thread erases while the CPU goes on |
| Cartridge, Sufami Turbo (`cartridge`, `sfc/slot`) | memories, manifests | load, save | bus accesses |
| Controllers (`sfc/controller`) | shift registers | latch, data | $4016/$4017, automatic joypads |
| Emulator layer (`bsnes/emulator`) | cheats, audio streams | assign, write, mix | frameEvent; threads write samples |
| User interface (`bsnes/target-bsnes`) | states, rewind, movies | main loop, save, load, rewind | run, runToSave, (un)serialize |
| Libraries (`libco`, `nall`, `ruby`, `hiro`, `bsnes/gb`) | - | - | vendored or general |

### How they interact

* **Calls from the host.** The user interface calls `System::run()`, which enters the
  thread in `scheduler.active` and comes back when that thread *leaves* with an event. A
  run ends at `Event::Frame`; the frame is presented and cheats are written to the bus
  while the CPU is inside `scanline()`, parked in `leave`.
* **Switches between threads.** The CPU resumes a peer that is behind when it touches the
  peer's registers and, all of them, once per scanline. A peer resumes the CPU when it has
  caught up. Nobody re-tests a clock after `resume()` returns.
* **State saves.** `runToSave` puts the scheduler into mode `Synchronize` and drives each
  thread to its synchronization point, the head of its `Enter()` loop, because a state
  holds no stacks: loading re-creates every thread there.
* **Shared flags.** `status` in the CPU is written by the beam (every four clocks), by
  registers (once per bus cycle), and read once per instruction by `lastCycle()`.

### What is hard here, and what must hold

| component | hard behaviour | correctness |
|---|---|---|
| Scheduler, System | interleaving of stacks; a switch in the middle of another thread's bus cycle; saves | ports touched in the order of virtual time, a resumed peer has caught up, a save has every thread at its synchronization point, every call returns |
| Interrupts | edges held for four clocks, enables changed in between, flags consumed elsewhere | each edge gives exactly one NMI; a disabled IRQ is silent; WAI ends |
| Timers | a derived bit kept as a copy; remainders; equality comparison | no clock lost, copy never stale, exact periods |
| DMA/HDMA | HDMA inside a DMA inside a bus cycle; stale `dmaActive`, stale `dmaEnable` | no line's HDMA is lost, HDMA goes before the next byte, an enabled channel is served and then disabled |
| Joypads | disabling in mid-sequence, manual strobe at the same time | 16 bits of the latched moment, or none |
| SA-1 | flags, enables and accepts written by two processors in any order; one line for two sources | an enabled event is accepted however late it is enabled; the line stays up while a source needs it |
| Real-time clocks | a clock that ticks while it is read, or is held; calendars of digits | a torn reading can be told; no second lost or made up for twice |
| Bus | maps laid over one another, handlers used again | an access reaches what was mapped last |
| Multiplier | a step in every bus cycle while the program writes to the operands | the product, quotient and remainder of what was asked for |
| Memory pack | an erasure that happens 300 ms after its command | what is ready is erased; what is locked stays |
| Other coprocessors | bus ownership, handshake registers, buffers | no access to memory that is not owned |
| States, rewind, movies | rejected states, a ring at its limit, a renderer chosen after a check | rewinding goes back the way the player came; no state is read by the other renderer |

`PROJECT.json` gives each hazard with its line and the properties that would catch it.

## Modules

| module | what it is |
|---|---|
| `Scheduler` | scheduler, CPU, peers and host procedures, their specifications (`Spec`; `RunSpec` without saves), properties and inductive invariants |
| `SchedulerMC` | instances for TLC |
| `SchedulerProofs` | `Scheduler`'s theorems |
| `VirtualTime` | what the scheduler promises, without stacks and cycles; `SchedulerProofs` shows that `Scheduler` implements it |
| `Interrupts`, `InterruptsMC`, `InterruptsProofs` | the interrupt unit and the main loop of the 65816 |
| `Dma`, `DmaProofs` | DMA and HDMA channels, `dmaEdge`, the requests of the beam |
| `Alu`, `AluProofs` | the multiplier and divider |
| `Powers` | powers of two, for `Alu` and `Bus`, and of a function, for the loops of the clocks and of `Bus`, as recursive functions |
| `Flash` | the flash memory of a memory pack |
| `DmaMC` | one instance each of `Dma`, `Alu` and `Flash`, explored one after the other in one run |
| `Session`, `SessionMC`, `SessionProofs` | the user interface: games, states, rewinding, movies, run-ahead |
| `SmpTimers` | the three timers |
| `Joypads`, `JoypadsProofs` | automatic joypad polling and a gamepad |
| `EpsonRtc`, `SharpRtc` | the real-time clocks |
| `Sa1` | the interrupts between S-CPU and SA-1, its timer, its sleep |
| `Bus` | the S-CPU's bus: maps, handlers, `mirror` and `reduce` |
| `DevicesMC` | one instance each of `SmpTimers`, `Joypads`, the clocks, `Sa1` and `Bus`, explored one after the other in one run |
| `DeviceProofs` | theorems of `SmpTimers`, `EpsonRtc`, `SharpRtc`, `Sa1`, `Bus` and `Flash` |
| `DevicesMCProofs` | the types of all devices of `DevicesMC` |

The modules fall in three groups. `Scheduler` is the machine as threads, and the host calls
that drive it; `Interrupts`, `Dma` and `Alu` look inside the CPU's bus cycle; `Flash` and the
devices of `DevicesMC` share no state with one another, and reach the rest only through register
accesses at arbitrary moments, which is what the threads of `Scheduler` make of them.
`Session` is above the machine: each of its actions is a call of `System`.

A definition `Name_Word` is a faulty variant of the definition `Name` that follows it:
exchanging the two is a mutation that some property must detect.

### Scheduler

*Stacks.* A cothread's stack is abstracted to where it is: `top` (about to call
`synchronize()`), `parked` (inside it, switched away), `main` (in `main()`), `sync` (inside
`resume()`), `access` (the SMP, just before a port access), `frame` (the CPU in
`leave(Frame)`). What is left of the CPU's bus cycle is the sequence `todo`, so that a
switch can happen between any two of its pieces: `sync p` is a
`if(clock < 0) resume(p)`, `charge` the subtraction of the peers' clocks, `refresh` the DRAM
refresh, `delayed` the coprocessor synchronization that delayedSync suppresses, `bus` the
access, `access` an SMP port, `step` the rest of a read, `frame` the leave.

*Actions.* `SyncPoint`, `BeginMain`, `EndMain` and `ReturnFromResume` are the common frame
of `Enter()`. `PeerStep` is a `step()` of any peer with its `synchronizeCPU()`;
`SmpIdle`, `SmpPort`, `SmpAccess` are the SMP's other cycles. `CpuCycle` begins an
idle, read or write cycle; `Step` is `CPU::step<>()` with the overclocking return and
`ScanlineOps` is `CPU::scanline()`. `Halt` is STP, WAI, STOP or SLEEP. `CpuRecreate` is a
CPU write that creates a coprocessor's thread anew. The host has `Run`, `RunToSave`, one
action per turn of its loops (`SaveContinue`, `SaveRestart`, `SaveNext`, `SaveReturn`), the
frame event split at each of its bus writes, `Power`, and `Cheats` to `CheatsReturn`, which is
`Interface::cheats`: the user changes the list, and the same `CheatWrite` carries out its accesses
from the idle host, with protected memory open.

*Abstractions.* What a program executes is arbitrary: any cycle, any register class, any
length up to `MainOps` operations for one call of `main()`. A call of `main()` without any
bus cycle does not occur in the code and is not modelled. A DMA's accesses are cycles that
synchronize as writes do. The 64-bit clocks saturate at `ClockCap`; a saturated clock arises
only during saves, where relative clocks carry no property, and `LagBounded` shows that in
runs clocks stay within the cap. Reset's first `step<6,0>` loop is in `Interrupts` only.
Loading a state is `Power` followed by data that is abstracted; what is loaded when is in
`Session`. Stack copies (`serializeStack`) are left out. `CheatWrites` holds what the accesses of a
list of cheats reach: any sequence of peers in the theorems, up to two cheats on the SMP, the PPU
or all coprocessors, mixed, for TLC. A cheat at the ICD's $6003, which would re-create a thread
from the host's stack, is left out; with an ICD (`HasICD`: a coprocessor that is both charged late
and re-created) `Interface::cheats` leaves the list to the ICD, and `Cheats` is disabled.

*A change of the cheat list before the next frame of a save.* `Cheats` asks for `event = "Frame"`:
power on, or a frame, was what came last. Nothing in the code asks for that. A save returns with
every thread at its synchronization point, where peers may be behind the CPU, and so does a load.
If the list is changed before the next frame and a cheat is on a register of a peer that is
behind, `synchronizePPU` (or `SMP`) resumes it on the host's stack while `GlobalWriteEnable` is
set; it executes until it has caught up and then switches to the CPU, which goes on to the next
event with protected memory still open. Without the guard TLC shows this in a few steps after a
Strict save. `RomProtected`, `FrameSynced` and the theorem `CheatsKeepRom` therefore say nothing
of that moment.

### VirtualTime

The abstract specification. Each peer has a `lead` over the CPU; a peer executes only when it
is behind (or is one of `Ahead`, the SMP); the frame is presented with nobody behind, nobody
executes until the host is back, protected memory is open only in between or while the user changes
the cheats (`Patch` to `Patched`), and `run()` returns when it has presented exactly one frame. During a save the order of time is given up.
`Scheduler` implements it with `clock` for `lead`, and `presented`, `open` computed from where
the CPU and the host are. `VirtualTimeKept` is the refinement as a property of `SchedulerRun`,
with the promise that every run returns; `ImplementsVirtualTime` proves its safety part for
all constants, saves included, under the Strict method.

### Interrupts

Time is in ticks of two clocks (`stepOnce`). `Tick` moves the beam and, every second tick,
runs `nmiPoll` and `irqPoll` at the code's delays (2, 6 and 10 clocks ago are 1, 3 and 5
ticks). A bus cycle is `Begin` (with a DMA of some length before it, which sets `irqLock`),
ticks, and its access (`IdleEnd`, `ReadAccess`, `WriteAccess`), which clears `irqLock`. An
instruction is a nonempty sequence of cycles, its last preceded by `lastCycle()`; `main`,
`Entry`, `Vector`, `Halt`, `WaitLoop`, `WaitExit`, `StopLoop` and `StopExit` follow
`CPU::main`, `interrupt()` and the loops of WAI and STP, including the exit that a state
save forces. `irq` is a coprocessor that drives its line inside a cycle. `edges`, `owed` and
`afterDma` are history variables.

Left out: overclocking (no ticks pass), interlace and the short and long lines, a change of
`vdisp` in mid-frame (in `Scheduler` instead), the automatic-joypad half of $4200 (in `Joypads`). DRAM
refresh is a longer cycle; `idleIRQ` is one of the kinds of cycle.

An IRQ accepted in the same `lastCycle()` as an NMI stays pending and is entered right after
the NMI's entry, with I set: so the code does, and so does the model.

### Dma

`todo` is what is left of the bus cycle and of the calls inside it, so that `dmaEdge()` may be
entered again from a byte of a DMA: `edge`, `edgeDma` and `edgeEnd` are its three parts, `sync`
and `align` its DMA sync and CPU sync. `hdma` begins `hdmaSetup()` or `hdmaRun()`, and
`hdmaSetup`, `hdmaTransfer`, `hdmaAdvance` (with `Reload`) are the channels' functions.
`Channel::dmaRun()` is cut at its `edge()` calls: `start` comes before the loop, `loop` is a
byte, `test` the loop's condition and the end. `byte` is eight clocks of an HDMA. `BusCycle`
starts a cycle of the CPU, `Cycle` is its time, `writeCPU` the access that may write $420b or
$420c. `stepBeam` moves the beam; `SetupDue` and `RunDue` say that a step reached the position of
a request.

When an HDMA stops the last DMA that was enabled, `dmaEdge()` makes the CPU sync (`align`) on
the DMA's stack, and again when `dmaRun()` returns; both are in the model, the second with
what is then in `counter.dma`.

The data is arbitrary: how many bytes a DMA moves, what an HDMA table says (`ends`,
`transfers`), how long a unit is. Left out are the first revision's set-up position, DRAM
refresh (a pause that neither starts nor ends a request), overclocking, $43xx, and cheats that
write $420b from the frame event.

### Alu

`AluEdge` is one `aluEdge()`, `Write4202` to `Write4206` the registers; the bus cycles come at
any moment, and `fastMath`, which each write reads from the configuration, is either. `aluDue`
is a history variable: the product, or the quotient and the remainder, of the last computation
that was started and not disturbed.

What the model shows of the code: a write of $4203 or $4206 while a computation is under way
starts nothing but overwrites `rdmpy`, so that computation gives no result (`Disturb`); the
operands may be written meanwhile, since the steps work on copies; after a multiplication $4214
shows the second factor, with `fastMath` both.

### Flash

`First`, `Continue` and `Complete` are `BSMemory::write` by what the queue holds; `ProgramBytes`
and `ControlBlocks` the commands that change memory or locks, with all their ways to fail.
`RequestErase` is `Block::erase` when the CPU calls it, `MainErase`, `EraseEnds` and `MainIdle`
the thread, cut at its `step()`: between `MainErase` and `EraseEnds` the CPU may do anything.
`FlashPower` is `power()`, after `load()` or without, and `FlashRestart` the save and load of a
state, which loses where the thread was, so that an erasure begins again. `IdOf` is `Block::id`.
`blank` is a history variable: the blocks a program had erased and did not write to since.

A page buffer's contents, the mode that is read, the failure bits and the count of erasures are
left out; nothing of the rest depends on them. What the model shows beside its properties: a
refused erasure sets no failure bit (`bsmemory.cpp:460` says so) and the block becomes ready as
after a successful one; a lock set while its block is being erased does not stop the erasure
when the pin is writable; `power()` gives up what was still to be erased.

### Joypads

The actions of `joypadEdge` are its ways from the top to a return: `BeginSequence` (counter 0),
`Release` (1), `Abandon` (polling is off), `ReadBit` (even counters) and `ShiftIn` (odd). `Tick`
is `stepOnce` without an edge, or with one that returns at once. `latch` and `data` are the
gamepad's. A program may access $4016 and $4200 between any two ticks; `Connect` is
hot-plugging, which is also what loading a state does to a gamepad, since controllers are not
serialized. `begun` and `undisturbed` are history variables.

What a gamepad sends is an arbitrary word: the D-pad's exclusions and the four signature bits
restrict it further. Port 2 and `joy2` to `joy4` move in the same steps as port 1 and `joy1`.
`vdisp` is fixed: a change of overscan near the line of polling skips or repeats a sequence,
as the code has it.

### SmpTimers

All three timers advance by the same number of clocks in every bus cycle. `stepTimers` is
`SMP::stepTimers`, `synchronizeStage1` the edge detector, one action for each register
($f0, $f1, $fa-$fc, $fd-$ff). `Inverted` names the timers for which `writeIO` negates
`enable.raise()`: timer 2, at `smp/io.cpp:108`. `WaitsAssumption` states that a bus cycle is
not longer than a period of stage 0 (at most 16 clocks, with `Frequency` 16 for timer 2).

### EpsonRtc and SharpRtc

`EpsonMain` is one clock of `EpsonRTC::main` with all it calls; `TickSecond` to `TickYear` are
`time.cpp` digit by digit, with what it does to digits that are none. `Select`, `Command`,
`Seek`, `ReadDigit` and `WriteDigit` are `read` and `write` by the state they find, each write
with its side effects (`WriteHold`, `WriteStop`). `Restart` is saving, and loading after a
while. `due` is what a reference calendar says: days of a century and seconds of a day.
`excused` is a clock that shows no date, or was held for more than a second, which the code
does not make up for either (`memory.cpp:88`).

The sound of it: the windows of `main` (`clocks & ~0x3fff` etc.) are true for the first clocks
of each second, not once per 128th; a clock that is stopped is still credited with the time
between sessions; `power()` forgets a held second (`Restart` is excused from it); rounding is
not announced by `resync`; `load()` loops for ever, in practice, if the host's clock was set
back. The time away is exact in both models, which holds of states saved before 2038:
`load()` puts the timestamp together with `data[8 + byte] << (byte * 8)`, a shift of an `int`, whose
fourth byte is negative from then on and fills the upper half of the `uint64`
(`epsonrtc/memory.cpp:155`, `sharprtc/memory.cpp:46`; the shifts of the last four bytes are wider
than an `int`, and harmless only as long as those bytes are zero and the build gives zero). `SharpMain`, `SharpRead` and `SharpDigit` do the same for the S-RTC, whose weekday does
not move with the day, and whose readings can be torn without a sign. Its reference,
`GregorianDay`, has a year, so `sharpExcused` says when the code leaves it: a date that is none,
or a year 00, from the moment it comes (`NextCentury`), whatever the clock shows then; and the
centuries from 2600 on, which do not fit the four bits in which the clock is saved.

### Sa1

`flag`, `enabled` and `cleared` are the sets of the four sources for which `*_fl`, `*_irqen`
and `*_irqcl` are set; `cpuFlag`, `cpuEnable` and `cpuLine` the other direction. `at` is where
the SA-1's thread is: at an instruction's `boundary`, in it before or after its poll (`begun`,
`last`), in the loops of WAI and STP, or in a DMA. Between any two actions of the SA-1 the
S-CPU may write its registers. `Poll` is the `if` of `lastCycle()` with its order of sources.

What the model shows of the code beside its properties: an NMI and the mailbox's IRQ do not
look at their enables; a write of $220b that clears one source accepts another that was
cleared before; the mailbox's IRQ is forgotten when $2200 is written with 0; a pending
interrupt survives a reset by $2200; WAI with I set is not ended by an IRQ; the S-CPU's line
stays up for a flag that is no longer enabled. `LineHeld` is stated accordingly.

### Bus

`Map` is `Bus::map` with a region as the set of its addresses, `Leave` what an address does
when it is taken over, `Found` the search for a handler and `MapFails` its end. `mirrorTurn`
and `reduceTurn` are a turn of the loops of `memory-inline.hpp`, and `mirror` and `reduce` as many
turns as an address has bits; a turn of a loop that has ended changes nothing. Three ASSUMEs of
`DevicesMC` have TLC compare them with reference definitions for every address, size, base and
mask of three bits. A region names each address once: a map that named one twice could empty
its own handler (`memory.cpp:57-61`), and no map of the code does. Of `unmap`, the texts are
left out, and with them line 88, where a single address (no `-`) is read as an empty upper
bound.

### Session

The content of a machine, or of a state, is abstracted to the set of positions in the rewind
history that it was reached from: a snapshot belongs to the past of the machine exactly when
its position is in that set. `drawn` is the renderer whose data the PPU holds, `fastPPU` the
one that runs, `configured` the one a power on will choose. `LoadState` keeps the order of
`loadState`: read the file, overwrite Undo or Redo, ask `unserialize()`, reset the history.
`Main` is `Program::main` with one of the ways through `rewindRun()` and a frame; run-ahead
comes back to the state it started from. A snapshot of the history is always of the renderer that
runs, since what may change the renderer (`Restart`, `LoadGame`) empties the history, and a movie
powers the machine with the configuration that runs already (`RInv` in `SessionProofs`); the check
of `unserialize()` therefore never refuses one, and `MainRewind` has no such case. `clean` records that no movie was started since the
history was emptied last: `moviePlay` and `movieRecord` do not call `rewindReset()`, so that
after one the player can rewind past the event, against `states.cpp:68` and `game.cpp:305`.
`RewindGoesBack` leaves that time out, so that the hazard at `movies.cpp:41` has no property.

Other things the model keeps as the code has them: a rejected state costs the previous Undo;
the automatic load of a game overwrites Redo; a movie with a bad header still powers the
machine. Left out: that releasing a refused rewind key changes the volume, that playback
consumes inputs in run-ahead frames, that the archive of states is rewritten in place
(`states.cpp:123`). `target-libretro` changes the renderer's configuration while a game runs
(`libretro.cpp:156`): the agreement that `RendererAgrees` states is not kept there.

## Runs

| run | question | instance and why it is enough |
|---|---|---|
| `SchedulerRun` | between saves: order, lag, protection, and the refinement of `VirtualTime` | two coprocessors, one charged late, the other re-created, so that the cheat list can change as well; lists of up to two cheats; the CPU and the SMP may stop; `Slack` 1 lets the SMP lead, overclocking 2, lines of 2 clocks, 2 lines: every operation can fall on a scanline, a frame, and both |
| `SchedulerStrict` | runs and Strict saves in any order | an ICD; overscan switched at any PPU access, so that frames are skipped or doubled; 3.9 million states |
| `SchedulerFastRun` | Fast saves, then runs; termination of every `enter()` and of the loops of stopped processors | no coprocessor, with STP, WAI, STOP and SLEEP; a cheat on a port of the SMP |
| `SchedulerFast` | does a Fast save end at the synchronization points? | violated, see Findings |
| `Interrupts` | every program of cycles and register accesses | lines of 6 ticks: the shortest in which polling, hold and the longest delay are distinct; one frame wrap; DMA of 4 ticks covers a hold |
| `InterruptsComment` | does a DMA delay interrupts? | violated, see Findings |
| `Dma` | is a request, a line or a channel ever lost? what do the multiplier and the flash give? | DMA: two channels, one of them indirect; units of 1 and 2 bytes; lines of 148 clocks with the positions in the code's order, 2 of 3 lines visible; a DMA may be longer than a field. The gaps between the beam's requests are the shortest that `TimeAssumption` allows, but for a tick or a few: an HDMA of both channels takes most of a line, where in the code all eight take at most 8 + 8 * 56 of its 1364 clocks. Multiplier: factors of 2 bits, all of them. Flash: two blocks of two bytes of one bit, so that a command can write beyond its block and around the end |
| `FlashBlocks` | has each block its own memory? | violated, see Findings |
| `Session` | whose past is the history, whose data does the PPU hold? | one slot beside Undo and Redo, a history of 2, rewinding off and with every 8th frame, so that counting, waiting and a full ring occur |
| `Devices` | the promises of each device | see below |
| `SmpTimersComment` | does only a 0->1 transition reset? | violated, see Findings |
| `EpsonHour` | does the hourly interrupt come every hour? | violated, see Findings |

`Devices` has one initial state, or set of states, for each device:

* `SmpTimers`: periods 4 and 2 with waits 1 and 2, a wait equal to the fast period being the
  largest allowed; counters of 4 and 2 values so that both wrap; one timer inverted.
* `Joypads`: 3 bits, an edge every 2 ticks; 5 lines of 7 ticks, 35 being odd, so that every
  alignment of the counter to the beam occurs; the field ends one tick after the latest end of
  a sequence.
* `EpsonRtc`: seconds of 3 clocks around the end of 28 February of a leap year, a program
  that selects, seeks, reads, holds, rounds, stops and changes 12 hours to 24 at any clock, a
  restart after a day and half a minute; and, without a program, the ends of the days of a
  whole century in both forms of the hour.
* `SharpRtc`: a date set digit by digit; and the end of every day of twenty years.
* `Sa1`: all sources with a timer of 2 steps a line; what acknowledges the S-CPU's line is
  explored apart from what the SA-1 accepts, since the two share no variable but the SA-1's
  place in its instruction.
* `Bus`: eight addresses, three handlers beside open bus, regions that overlap in part, wholly
  and not at all, so that handlers are given back, used again, and run out.

`Devices` and the runs of its comments have `CHECK_DEADLOCK FALSE`: the time the clocks are
followed is bounded (`MaxSeconds`, `SharpTicks`). Elsewhere the machine never stops.

### Bounds

`MaxOps`/`MainOps`: operations in one call of `main()`; 2 is enough for a cycle before and a
cycle after a switch. `ClockCap`: above. `CpuClocks`, `Quantum`: one CPU clock, the PPU two
at a time, so that peers overshoot. `HPeriod`, `VPeriod`, `Vdisp`, `Overclock`: the frame.
`Stage2Size`, `Stage3Size`: 8 and 4 bits in the code, scaled down; the theorems hold for any
size. `MaxEdges`: the history counts to 2, enough to tell a doubled NMI.
`Lap`: `counter.dma` is only used modulo the length of a bus cycle. `Bus`: `Dma` runs with cycles
of 8 clocks; the properties were also checked with 6 and with 8 and 12 mixed (11 and 13 million
states, too long for a regular run).
`FrameEventually` is checked with one fixed `vdisp`: a program that moves the end of the
picture away each time the beam comes near it would have no frame.
`EpsonSecond`, `RoundWindow`, `DutyWindow`, `FlagWindow`, `AccessWait`: 2^21, 2^8, 2^14, 2^15
and 8 clocks in the code. `MaxSeconds`, `MaxRestarts`, `SharpTicks`, `SharpRestarts`: how long
a clock is followed; every carry is within a second of an initial time. `Offsets`, `Writes`,
`Away`, `SharpDigits`, `SharpAway`: what a program seeks and writes, and how long the emulator
is away. `LineClocks`, `Scanlines`, `LinearLine`, `LinearLines`, `Hcnt`, `Vcnt`, `TimerModes`,
`Controls`, `Enabling`, `Clearing`: the SA-1's timer and what is written to its registers.
`Width`, `Pool`, `Regions`, `Layouts`: the bus. `W`, `Factors`: the multiplier's bits, 8 in the
code, and what is written to it. `BlockCount`, `BlockIds`, `LastCell`, `FlashBits`, `MaxRun`: the
flash, 16 to 64 blocks of 65536 bytes, 16 ids and 65536 bytes for one command in the code. `UserSlots`, `Frequencies`, `Length`: the user
interface's settings; `Length` is 10 to 320 there, and the theorems hold for any.

### Fairness

* `WF_vars(Busy)` (Scheduler): once the host has called, the machine executes. Cothreads are
  plain code on one host thread, so a step that is possible is made. Neither `Run` nor
  `RunToSave` is fair: the user may stop calling.
* `WF_vars(Cpu)` (Interrupts): the same, for the CPU.
* `SF_vars(WaitLoop)`: the loop of WAI is left without being awake only for a state save.
  The user interface does not save for ever without running in between, so a CPU that comes
  back to the loop again and again executes it again and again.

* `WF_vars(Main)` (Session): the application calls `Program::main` again and again, and it gets to
  `rewindRun()`: the emulator is not left paused, by the user or without the focus, or with a dialog
  open, where `main()` returns before that (`program.cpp:79-102`). `RewindEnds` is a promise to a user who keeps the
  key down in a running emulator. No key and no menu is fair.

That a *save* ends is not claimed. Strict starts over whenever a thread resumed another, and
the retries have no bound: TLC finds programs whose SMP and CPU need each other in every
attempt. `ControlReturns` states what does hold: each single `enter()` comes back, and the loops of
STP, WAI, STOP and SLEEP do not hold a save up. A loop that ignored the request (`MayStep_Deaf`)
would still give control back at each frame; `HeedsSave` asks that a stopped processor which is
run again and again in a save comes to its synchronization point, wakes up, or the save ends.

## Findings

1. **Fast saves do not reach every synchronization point** (run `SchedulerFast`).
   `system.cpp:59` says the method forces all other threads to their synchronization points.
   Its loop ends at the first `Synchronized` event whichever thread raised it, and a thread
   that was resumed by another is left inside `resume()`. Fast is the default (Strict is
   forced for two games and for the Super Game Boy). The same instance also violates
   `IdleIsResumable`, `CaughtUp`, `PortOrder` and `RomProtected` afterwards in the live
   machine, since the run goes on with stacks inside a switch; `SchedulerFastRun` shows that
   it still reaches every frame.
2. **Timer 2 is cleared by every write of $f1 except the one that enables it**
   (run `SmpTimersComment`). `io.cpp:97` says that the 0->1 transition resets timers;
   `io.cpp:108` has a `!` that lines 98 and 103 do not have. `StartsFromZero` holds all the
   same, because a timer that is off was cleared by the write that turned it off.
3. **irqLock does not delay interrupts after a DMA** (run `InterruptsComment`).
   `irq.cpp:87-88` says it does. A DMA sets it at the start of a bus cycle and the same
   cycle clears it before any `lastCycle()`. The other half of the comment, $4200, holds, and
   `NmiNeverDoubled` depends on it.
4. **The Epson clock's hour has 24 minutes** (run `EpsonHour`). `epsonrtc.cpp:32` says "1
   hour" of `irq(3)`, which comes every 1440 seconds.
5. **The larger flash memories have memory for 16 blocks only** (run `FlashBlocks`).
   `bsmemory.hpp:97` gives a 16 Mbit chip 32 blocks and a 32 Mbit chip 64, but the id that
   addresses the memory is a `uint4`: block 16 + n is block n. The header calls these chips
   experimental; the 8 Mbit chip of the released packs has 16 blocks.

Three divergences are noted without a run of their own. The Sharp clock has no 29 February 2000:
`time.cpp:24` says that a day is added for leap years, and the rule of 400 years is applied at
`time.cpp:26` to a year that counts from 1000 (`SharpKeepsTime` excuses the clock from then on).
`timing.cpp:164` says "DMA sync + HDMA
run", but an HDMA between the write of $420b and the DMA it starts is not synchronized:
`timing.cpp:174` takes an enabled channel for a DMA in progress. And "do not allow rewinding
past a state load event" (`states.cpp:68`) does not hold of movies, see `Session` above.

## Proofs

Every theorem is proved for all values of the constants that satisfy the named assumptions.

**Scheduler** (`SchedulerProofs`). `TypeCorrect` holds of both methods. `Inductive` and what
follows from it assume `method = "Strict"`, since finding 1 shows that they fail for Fast: its
saves desert stacks. None of the safety properties is inductive. `IInv` adds:

* `HostShape`, `StackShape`: which combinations of call, mode and position exist;
* `OnlySyncsBefore`: in `todo`, only synchronizations come before a frame or a port access,
  so nothing charges a clock in between;
* `SyncedBefore`: each peer that a later piece of the cycle needs is not behind, or its
  synchronization is still in `todo`. This is what carries `clock >= 0` from the test of one
  peer across the switches to others to the point where it is needed;
* `Handshake`: in Run mode a peer runs only inside the CPU's `resume` of that very peer, so
  only that peer's clock moves, and upwards;
* `FrameSynced`, `FrameOnHost`: at a frame, and until the host calls again, no peer is behind, hence
  no cheat switches, whether `frameEvent` writes it or the user has just entered it;
* `StrictProgress`: as long as no thread resumed another, the thread of the current stage
  runs and those of the earlier stages are parked. `desynchronized` is exactly the
  record of its being broken, and Strict starts over when it sees it.

`Inductive` proves `IInv`; `PeersCatchUp` (`CaughtUp`), `HostCanResume`
(`IdleIsResumable`), `CheatsKeepRom` (`RomProtected`), `PortsInOrder` (`PortOrder`) and
`StrictSavesAtEntry` (`SavedAtSyncPoints`) follow. `BusWaitsForCoprocessors`
(`CoprocessorsKeepUp`) adds `BusReady`: while delayed synchronization is off, a bus access in
`todo` comes right after the step that synchronizes, or after nothing but synchronizations, and
then each coprocessor is not behind or still to be synchronized. Scanlines, refreshes and
overclocked steps only put operations in front. A save changes the setting, but returns with
`todo` empty.

`ImplementsVirtualTime`: each step of `Scheduler` is a step of `VirtualTime` or a stutter, using
`IInv` and one more invariant, `RunsBehind`, that a peer which executes in Run mode was behind
when it was resumed or may lead.

A save is the only thing the two methods do differently, so under `RunSafe`, the machine from
power on until a state is saved, the same invariants hold of both: the lemmas ask only for
`Intact`, that the method is Strict or no save is under way. `RunInductive`, `RunKeepsOrder` and
`RunImplementsVirtualTime` are the theorems above without the assumption of Strict.

`StaysTogether` (`LagBounded`) is proved under `RunSafe` as well; in a save clocks carry no
meaning. Its invariant is `LagInv`. `Behind` says how far a peer may be behind, by where the beam
is: since the last scanline the peer has been charged at most `h` clocks (and an early
coprocessor the clocks that were overclocked), and of the charge that a step has left in `todo`
the peer either has room for it or a synchronization with that peer stands before it.
`ChargeFirst` says that nothing but a scanline stands before that charge. `SmpAhead` counts what
the SMP can gain, operation by operation, since it last had to look at its clock. The bounds use
`LongestAssumption`, that the steps of a program have a longest one.

**Interrupts** (`InterruptsProofs`). The invariant relates the line, its hold and its
transition, the parity of the beam, and the history: while an edge is owed it is held or in
transition, and when both are set `irqLock` is set or the ticks to the next test are more than
the hold. `TypeCorrect`, `NothingForgotten`, `DisabledIsSilent`, `NmiKept` and `NmiOnce`
follow; `NmiOnce` uses `CycleAssumption`, that an idle or write cycle is at least six clocks.

**SmpTimers** (`DeviceProofs`). The invariant, `TimersInv`, adds `OffMeansZero`: an inverted timer that
is off holds no count. `ClocksKept`, `LineNeverStale` and `EnabledFromZero` follow;
`ClocksKept` uses `WaitsAssumption`. `CountsStayBelow` (`CountBelowTarget`) is inductive next to
it: timer 2 is not cleared when it is enabled, and starts below its target because of
`OffMeansZero`.

**Dma** (`DmaProofs`). `TypeOK` and `NoneForgotten` are inductive together: `DmaTypes` and
`EnabledComes`. An action removes only the head of `todo` and puts its own calls before the
rest (`ThenComes`), so a transfer to come is lost only by the action that carries it out; and
`edgeDma` drops `dmaPending` only where `dmaRun()` of every channel follows.
`NoRequestIsLost` (`NoRequestLost`) and `HdmaGoesFirst` (`HdmaFirst`) rest on `HdmaInTime`, the
invariant `TimeInv`, which has five parts:

* `Linked`, `OneRun`: `todo` is a chain of calls that may follow each other, and no DMA is inside
  another, so that behind the end of a DMA is the CPU's own cycle;
* `Statuses`: a DMA under way has taken `dmaPending`, and either `dmaActive` is set or every
  channel has been disabled;
* `Flags`: `hdmaSetupTriggered` and `hdmaTriggered` tell where on the line the beam is;
* `InTime`: what an HDMA under way still `Takes`, with its bytes and the CPU sync behind it, is less
  than `NextRequest`, the ticks until the beam's next request;
* `InWait`: while an HDMA is pending the machine is `Calm`, at no byte of a DMA and at no point where
  another HDMA is under way, and what it `Waits`, what both synchronizations take and what the HDMA
  takes are less than `NextRequest`.

Each action that takes time gives up as much of `Takes` or `Waits` as the beam moves (`StepUnder`,
`StepWait`). That an HDMA with time before it ends in time is a fact of the geometry,
`TimeAssumption`: between two requests there is more than the longest HDMA of all channels and
`Around` 25 ticks. In the code an HDMA of 8 channels takes at most 228 ticks of two clocks (set-up:
100); from the set-up of line 0 to its run are at least 543, from line to line 680 or more, and from
the last visible line to the next field's set-up thousands. The 20 ticks of a line's DRAM refresh,
which the model leaves out, fit in the difference.

**Joypads** (`JoypadsProofs`). `PollInStep` says where gamepad, `autoJoypadPort1` and `joy1` are for
each counter of an undisturbed sequence: after `m` reads the gamepad is at bit `m` and the last
bits of `joy1` are the first buttons. `ReadsWhole` (`AutoReadWhole`) and `StableWhenNotBusy`
(`ChangesWhileBusy`) follow, for any number of bits and any beam. The other two depend on where
the beam is. `TimeInv` says that the sequences begun in this field are those that the beam's
position tells, none before the polling clock's first edge in line `Vdisp` and one after it
(`OnceInv`), and that a sequence under way is as far as the ticks since that line allow (`Paced`).
`BeginsOnce` (`OncePerField`) follows, and `NeverCut` (`EndsInField`) by `WindowAssumption`, that
the sequence fits between line `Vdisp` and the end of the field.

**Alu** (`AluProofs`). `ArithmeticIsExact` (`AluExact`) is for every width of the operands. The
invariant says what product and quotient are after each of the steps: what was asked for is what
has been gathered and, times a power of two, what is left to do. The powers are the recursive
function of `Powers`; its equation, and facts about halves and bits, are proved by induction over
a set of numbers (`NatSet`): the provers do not need an operator as a parameter for that.

**Session** (`SessionProofs`). The positions renumber when the ring drops its oldest snapshot
and when the newest is taken back, so `OwnPast` is proved for machine and history together:
`history[i]` is `1..(i-1)` and the machine `1..Len(history)` (`CleanPast`, with the typing of
the history). `RewindsOwnPast` (`RewindGoesBack`) follows, for any `Length` and `Frequencies`.
`RendererKept` (`RendererAgrees`) needs that `configured` equals `fastPPU` while a game is
loaded: without it, the check in `unserialize()`, made before `power()`, would not help.

**DeviceProofs.** `LineStaysHeld` (`LineHeld`) is inductive. `EventsAreAccepted` is that the poll accepts an interrupt and ends WAI, its
own or one served before it; it needs `NotCleared`: no timer or DMA source is flagged, enabled and cleared at once, the invariant that
the accept flags are there to keep. `ReadingsAreSafe` is inductive. `HandlersAreReached`
(`HandlersReached`) needs `AddressesCounted`: the counter of each handler is the number of addresses
that lead to it, hence a handler is emptied, or found unused, exactly when no address names it.
The proof is by cardinalities of finite sets, for any address width, pool and regions.
`ErasedWhenReady` (`ErasedIsBlank`) and `LockedStays` (`LockedIsKept`) need `FlashInv`: a block of
`blank` is erased unless it is still to be erased, such a block is not ready and neither is the
chip, and a block whose lock is set is taken for locked. Both
assume `BlockCount <= BlockIds`, that no two blocks share memory, which is what finding 5 is
about; `FlashTypes` does not. `OwnMemory` is the lemma that the assumption is for, and
`ContentsStay`, `EraseKeepsOthers` and `ProgramKeepsOthers` carry it to the steps.

`SharpClockKeepsTime` (`SharpKeepsTime`) is for every date that can be set, every digit written and
every time without the emulator. Its invariant, `SharpInv`, compares moments, days and seconds in
one number: a clock that is not excused is `InStep`, a valid date of a year whose 29 February the
code knows, and its moment is the one promised. `NextDate` says that the reference numbers the day
after the last of a month, or of December, by one more; with it `DayPasses`, `HourPasses`,
`MinutePasses` and `SecondPasses` show that each function of `time.cpp` moves a clock that is in step
by its length, as long as that stays below `NextCentury`. The loops of `load()` are powers of these
(`Times` of `Powers`), and what such a loop keeps and counts is one lemma, `TimesKeeps`, by induction
over a set of numbers. `LoadedTime` is that thirteen digits bring back the time and the weekday.
`WeekdayIsTrue` compares `calculateWeekday`, which adds up years and months, with the reference: the
leap years it counts one by one are `y/4 - y/100 + y/400` (`LeapCount`, by cardinalities). Facts about
quotients and products are the lemmas of `AluProofs`, which `DeviceProofs` extends. The proof
uses `SharpAssumption`: saved clocks are times, and what is written are digits of four bits.

`EpsonClockKeepsTime` (`ClockKeepsTime`) is for every length of a second, every set of digits the
clock begins with, everything a program writes and every time without the emulator. Its invariant,
`EpsonInv`, says of a clock that is not excused that its digits are a date and show the moment of the
reference, or one second less while a second is held back (`EpsonShows`), and that a second is held
back only during a hold, so that the write which ends the hold makes up for it. The argument goes in
these steps:

* what each function of `time.cpp` leaves alone, and that it keeps the digits' ranges, for any digits,
  also those that are none: `load()` and `main` tick such a clock as well;
* that it takes a valid date to the next one: the carries of seconds and minutes, the hours in both
  forms, and the day over the 28th to 31st of each month, whose number of days and leap years are
  compared with the reference calendar;
* each unit as a movement of the time shown (`Moves`, of seconds, and `DayShows`, of days, which may
  pass the end of the century), and that the time which passes after time that has passed is the sum
  (`PassedPassed`), the century wrapping around;
* the four loops of `load()`, each a power of its tick (`Times`), by `LoopPasses`: together they make
  the days and the seconds that the emulator was away;
* each action keeps `EpsonInv` (`EpsonInductive`). A write of a digit of the time, or of the calendar's
  form, makes the reference start anew from what is shown, or excuses the clock when it shows no date.

`EpsonAssumption` asks that the clocks it begins with have digits of the registers' widths, that the
times away are natural numbers, and that offsets and writes are digits of four bits.

`TargetsInside` is about where the bus leads: for every size of a memory, every base and every mask,
the offset of each address is inside the memory, for any width of addresses. `MirrorInside` says that
after `i` turns of the loop of `mirror` either it has ended or only the bits below the mask are left
of the address (`Halved`), so that after one turn for each bit the address is below the size that is
left, and the part that is left is inside the whole. `ReduceInside` is that cutting bits out of an
address leaves an address (`CutBelow`, turn by turn), and `LowestBit` that a mask which is not 0 has
the bit that `lowest` chooses.
Nothing else keeps an access in its memory: `Bus::read` does not compare the offset.

**Types.** Every type invariant that the modules state is proved: those of `Scheduler`, `SharpRtc`, `EpsonRtc`
and `SmpTimers` as parts of the inductive invariants (`TypeCorrect`, `SharpTypes`, `EpsonTypes`,
`TimersTypes`), that of `Alu` as a part of `AluExact`, those of `Interrupts`, `Dma`, `Joypads`, `Flash`,
`Sa1` (`Sa1Types`), `Bus` (`BusTypes`, which needs `AddressesCounted`, since without it a counter could
go below 0) and `Session` (`SessionTypes`: no renumbering of the ring leads out of it, in the machine,
the snapshots or the files).
`DevicesTypes` (`DevicesMCProofs`) puts them together: whichever device `Devices` explores, the
others stand still, and all keep their types.

**Model-checked only.** Liveness (`FrameEventually`, `ControlReturns`, `WaitWakes`,
`RewindEnds`, and the promise of `VirtualTime`), which the prover cannot treat; and that `mirror` and
`reduce` are the functions that their reference definitions describe, of which `TargetsInside` proves
only that they stay inside.

## Not modelled

| part | why |
|---|---|
| Rendering, sample synthesis, DSP-1/2/4, ST010, Cx4 arithmetic, S-DD1, SPC7110 decompression | numeric data algorithms without threads or protocols; a model would repeat the program |
| Cartridge manifests, game database, heuristics | parsing |
| `bsnes/gb`, lzma, filters, `hiro`, `ruby`, shaders, `target-libretro` | vendored or general-purpose |
| Line caching and parallel rendering of the fast PPU | data that no other part reads |
| What a DMA of the SA-1 copies, its conflicts and arithmetic; the SuperFX beyond its thread | planned below |
| BSMemory's page buffers, status bytes and reading modes | stored and read back without a part in what is promised |
| ICD's packets, mouse, multitap, light guns | planned below |

## Plan

In order of importance; each module gets a run, properties with mutants, and, where an
invariant is inductive, a proof. Small devices join `DevicesMC` rather than have a run each.

1. `SuperFx`: ROM and RAM ownership, the buffers and the pipeline, with the S-CPU reading at
   the same time; then the SA-1's bus conflicts and its nested DMA.
2. `BeamCounter`: the CPU's and the PPU's counters agree at synchronization, with interlace
   and the short and long lines; the ring of past lines.
3. `IcdPackets` and the other controllers: register protocols.
4. Theorems for these; every safety property that the runs check is one by now. Liveness stays with TLC.
