-------------------------------- MODULE Flash --------------------------------
(***************************************************************************)
(* The flash memory of a BS-X memory pack (sfc/slot/bsmemory): a chip of   *)
(* blocks that a program writes to with sequences of commands, and that    *)
(* erases them one after the other, in a thread of its own, while the      *)
(* program goes on.                                                        *)
(*                                                                         *)
(* Left out: what is read in each mode, the page buffers (what they hold   *)
(* is arbitrary), the failure bits and the count of erasures.              *)
(*                                                                         *)
(* A definition whose name ends in _ and a word is a faulty variant of the *)
(* definition that follows it.                                             *)
(***************************************************************************)
EXTENDS Integers, FiniteSets

CONSTANTS
  BlockCount,  \* of 64 KB: 16, 32 or 64
  BlockIds,    \* values of Block::id, a uint4: 16
  LastCell,    \* the last address of a block
  FlashBits,   \* bits of a cell
  MaxRun       \* bound: cells after the first that one command writes

Blocks == 0..(BlockCount - 1)
Cells  == 0..LastCell
Places == Blocks \X Cells
Values == SUBSET FlashBits
Idle   == -1

ASSUME FlashAssumption ==
  /\ BlockCount \in Nat \ {0} /\ BlockIds \in Nat \ {0} /\ LastCell \in Nat
  /\ MaxRun \in Nat

VARIABLES
  flashMemory,   \* memory
  locked,        \* blocks whose lock bit is set in the device
  statusLocked,  \* blocks that are taken for locked
  erasing,       \* blocks that are to be erased
  blockReady, flashReady,  \* the blocks' and the chip's ready bits
  writable,      \* the pin of the memory pack's slot
  erasingNow,    \* the thread: the block in erase(), or Idle
  queued,        \* the command in the queue, and how many bytes the queue holds
  blank          \* history: blocks that a program may find erased when ready

flashVars == <<flashMemory, locked, statusLocked, erasing, blockReady, flashReady, writable,
               erasingNow, queued, blank>>

\* Commands of more than one byte that change memory or locks, and "other", which
\* stands for all that do not: those take one to 65538 bytes more.
Needs == [program |-> 2, word |-> 3, page |-> 3, erase |-> 2, eraseAll |-> 2, lock |-> 2,
          upload |-> 2]
Commands == DOMAIN Needs
Empty == <<"none", 0>>

FlashTypeOK ==
  /\ flashMemory \in [(0..(BlockIds - 1)) \X Cells -> Values]
  /\ locked \subseteq Blocks /\ statusLocked \subseteq Blocks /\ erasing \subseteq Blocks
  /\ blockReady \subseteq Blocks /\ blank \subseteq Blocks
  /\ flashReady \in BOOLEAN /\ writable \in BOOLEAN /\ erasingNow \in Blocks \cup {Idle}
  /\ queued \in (Commands \cup {"none", "other"}) \X (0..2)

-----------------------------------------------------------------------------
(* Blocks *)

IdOf(block) == block % BlockIds
PlaceOf(p) == <<IdOf(p[1]), p[2]>>
Contents(block) == [c \in Cells |-> flashMemory[PlaceOf(<<block, c>>)]]
Erased(block) == \A c \in Cells : Contents(block)[c] = FlashBits

\* Block::write, erase: the pin opens all blocks, otherwise each has its lock.
Protected(block) == ~writable /\ block \in statusLocked

\* Block::write for each place of S: it can only clear bits.
ProgramPlaces(S, data) ==
  LET written == {p \in S : ~Protected(p[1])}
  IN  /\ flashMemory' = [m \in DOMAIN flashMemory |->
           {bit \in flashMemory[m] : \A p \in written : PlaceOf(p) = m => bit \in data[p]}]
      /\ blank' = blank \ {p[1] : p \in written}
      /\ UNCHANGED <<locked, statusLocked, erasing, blockReady, flashReady>>

\* Block::erase, called by the CPU: the thread is told to.
RequestErase(S) ==
  /\ erasing' = erasing \cup S /\ blockReady' = blockReady \ S /\ flashReady' = FALSE
  /\ blank' = blank \cup S
  /\ UNCHANGED <<flashMemory, locked, statusLocked>>

\* Block::lock
Lock(block) ==
  /\ writable /\ locked' = locked \cup {block} /\ statusLocked' = statusLocked \cup {block}
  /\ UNCHANGED <<flashMemory, erasing, blockReady, flashReady, blank>>

\* Block::update of each
Upload ==
  /\ statusLocked' = locked
  /\ UNCHANGED <<flashMemory, locked, erasing, blockReady, flashReady, blank>>

-----------------------------------------------------------------------------
(* BSMemory::write: the S-CPU sends a byte to a place *)

NoChange == UNCHANGED <<flashMemory, locked, statusLocked, erasing, blockReady, flashReady, blank>>

\* The first byte; commands of one byte change none of this.
First(command) ==
  /\ queued = Empty /\ queued' = <<command, 1>> /\ NoChange

\* A byte the command goes on after.
Continue ==
  /\ queued[1] \in Commands /\ queued[2] + 1 < Needs[queued[1]]
  /\ queued' = <<queued[1], queued[2] + 1>> /\ NoChange

\* The n places after p; the last address of the flash is followed by the first.
Index(p) == (LastCell + 1) * p[1] + p[2]
PlacesFrom(p, n) == {q \in Places : (Index(q) - Index(p)) % (BlockCount * (LastCell + 1)) <= n}
\* The other half of a word.
Partner(p) == <<p[1], IF p[2] % 2 = 0 THEN p[2] + 1 ELSE p[2] - 1>>

\* The last byte of what writes, sent to p.
ProgramBytes(command, p) ==
  \/ /\ command = "program"
     /\ \E value \in Values : ProgramPlaces({p}, [q \in {p} |-> value])
  \/ /\ command = "word"
     /\ \E data \in [{p, Partner(p)} -> Values] : ProgramPlaces({p, Partner(p)}, data)
  \/ /\ command = "page"
     /\ \E n \in 0..MaxRun : \E data \in [PlacesFrom(p, n) -> Values] :
          ProgramPlaces(PlacesFrom(p, n), data)

\* The others need to be confirmed by their last byte and fail otherwise, which
\* changes nothing here.
ControlBlocks(command) ==
  \/ command = "erase" /\ \E block \in Blocks : RequestErase({block})
  \/ command = "eraseAll" /\ RequestErase(Blocks)
  \/ command = "lock" /\ \E block \in Blocks : Lock(block)
  \/ command = "upload" /\ Upload
  \/ command \in {"erase", "eraseAll", "lock", "upload", "other"} /\ NoChange

Complete ==
  /\ queued[1] \in Commands => queued[2] + 1 = Needs[queued[1]]
  /\ ControlBlocks(queued[1]) \/ \E p \in Places : ProgramBytes(queued[1], p)
  /\ queued' = Empty

FlashWrite ==
  /\ \/ \E command \in Commands \cup {"other"} : First(command)
     \/ Continue
     \/ Complete
  /\ UNCHANGED <<writable, erasingNow>>

\* BSMemory::writable: the memory pack's controller sets the pin.
SetWritable ==
  /\ writable' = ~writable
  /\ UNCHANGED <<flashMemory, locked, statusLocked, erasing, blockReady, flashReady, erasingNow,
                 queued, blank>>

-----------------------------------------------------------------------------
(* BSMemory::main *)

\* The lowest block first; the ones before it are ready.  step() follows.
MainErase ==
  /\ erasingNow = Idle
  /\ \E block \in erasing :
       /\ \A other \in erasing : block <= other
       /\ erasingNow' = block
       /\ blockReady' = blockReady \cup {lower \in Blocks : lower < block}
  /\ UNCHANGED <<flashMemory, locked, statusLocked, erasing, flashReady, writable, queued, blank>>

\* Block::erase after step(): whether it may is looked at now.
EraseEnds_Unlocked ==
  /\ erasingNow # Idle /\ erasingNow' = Idle /\ erasing' = erasing \ {erasingNow}
  /\ flashMemory' = [m \in DOMAIN flashMemory |->
       IF m[1] = IdOf(erasingNow) THEN FlashBits ELSE flashMemory[m]]
  /\ locked' = locked \ {erasingNow} /\ statusLocked' = statusLocked \ {erasingNow}
  /\ UNCHANGED <<blockReady, flashReady, writable, queued, blank>>
EraseEnds ==
  /\ erasingNow # Idle /\ erasingNow' = Idle /\ erasing' = erasing \ {erasingNow}
  /\ \/ /\ Protected(erasingNow) /\ blank' = blank \ {erasingNow}
        /\ UNCHANGED <<flashMemory, locked, statusLocked>>
     \/ /\ ~Protected(erasingNow) /\ UNCHANGED blank
        /\ flashMemory' = [m \in DOMAIN flashMemory |->
             IF m[1] = IdOf(erasingNow) THEN FlashBits ELSE flashMemory[m]]
        /\ locked' = locked \ {erasingNow} /\ statusLocked' = statusLocked \ {erasingNow}
  /\ UNCHANGED <<blockReady, flashReady, writable, queued>>

MainIdle_Early ==
  /\ erasingNow = Idle /\ blockReady' = Blocks /\ flashReady' = TRUE
  /\ UNCHANGED <<flashMemory, locked, statusLocked, erasing, writable, erasingNow, queued, blank>>
MainIdle ==
  /\ erasingNow = Idle /\ erasing = {} /\ blockReady' = Blocks /\ flashReady' = TRUE
  /\ UNCHANGED <<flashMemory, locked, statusLocked, erasing, writable, erasingNow, queued, blank>>

-----------------------------------------------------------------------------
(* Power, and what survives it *)

\* BSMemory::power, after load() or without: load() sets the lock of every block of
\* which metadata.bml says nothing.  Every block is taken for locked at first.
FlashPower ==
  /\ locked' \in {locked, Blocks} /\ statusLocked' = Blocks
  /\ erasing' = {} /\ blockReady' = Blocks /\ flashReady' = TRUE
  /\ erasingNow' = Idle /\ queued' = Empty /\ blank' = {}
  /\ UNCHANGED <<flashMemory, writable>>

\* The state is saved and loaded: all but where the thread was.
FlashRestart ==
  /\ erasingNow' = Idle
  /\ UNCHANGED <<flashMemory, locked, statusLocked, erasing, blockReady, flashReady, writable,
                 queued, blank>>

-----------------------------------------------------------------------------
FlashInit ==
  /\ flashMemory \in [(0..(BlockIds - 1)) \X Cells -> Values]
  /\ locked \in SUBSET Blocks /\ statusLocked = Blocks
  /\ erasing = {} /\ blockReady = Blocks /\ flashReady = TRUE /\ writable = FALSE
  /\ erasingNow = Idle /\ queued = Empty /\ blank = {}
FlashNext ==
  FlashWrite \/ SetWritable \/ MainErase \/ EraseEnds \/ MainIdle \/ FlashPower \/ FlashRestart
FlashSpec == FlashInit /\ [][FlashNext]_flashVars

-----------------------------------------------------------------------------
(* Correctness. *)

\* A program that sees a block's or the chip's ready bit finds the block erased that
\* it had erased, whatever else was asked for, saved or loaded in between, if it did
\* not write to it since; refused are only blocks that are locked at the end.
ErasedIsBlank ==
  \A block \in blank : flashReady \/ block \in blockReady => Erased(block)

\* What a block holds whose lock is set stays as long as the pin does not open it,
\* whatever commands are sent and however the chip is reset or reloaded.
LockedIsKept ==
  [][\A block \in locked : ~writable => Contents(block)' = Contents(block)]_flashVars

\* bsmemory.hpp:7 "Flash 32 x 65536 x 8-bit": 32 blocks have memory for 32, so that
\* to erase one leaves the others as they are.
SeparateBlocks ==
  [][\A block \in Blocks : EraseEnds /\ block # erasingNow => Contents(block)' = Contents(block)]_flashVars
=============================================================================
