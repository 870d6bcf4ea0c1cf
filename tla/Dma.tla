-------------------------------- MODULE Dma --------------------------------
(***************************************************************************)
(* DMA and HDMA of the S-CPU (sfc/cpu/dma.cpp, CPU::dmaEdge and CPU::step  *)
(* in sfc/cpu/timing.cpp).                                                 *)
(*                                                                         *)
(* Every bus cycle begins with dmaEdge(), which may keep the CPU waiting   *)
(* while channels transfer.  A DMA calls dmaEdge() again before each byte, *)
(* so that an HDMA which the beam requests meanwhile goes first.  Time is  *)
(* in ticks of two clocks.                                                 *)
(*                                                                         *)
(* A definition whose name ends in _ and a word is a faulty variant of the *)
(* definition that follows it.                                             *)
(***************************************************************************)
EXTENDS Integers, Sequences

CONSTANTS
  NC,               \* channels, 8 in the code
  Indirect,         \* the channels whose HDMA table is indirect
  Lengths,          \* bytes an HDMA transfer may take on a line: 1, 2, 4
  Bus,              \* ticks of a bus cycle: 3, 4 and 6
  Lap,              \* a multiple of all of them: counter.dma is kept modulo Lap
  HPeriod, VPeriod, \* ticks per scanline, scanlines per field
  Vdisp,            \* ppu.vdisp(): HDMA runs on the lines before it
  SetupBase, RunAt  \* where on a line HDMA is set up, and where it runs

Channel == 0..(NC - 1)

ASSUME DmaAssumption ==
  /\ NC \in Nat \ {0} /\ Indirect \subseteq Channel
  /\ Lengths \subseteq {1, 2, 4} /\ Lengths # {}
  /\ Bus \subseteq {3, 4, 6} /\ Bus # {}
  /\ Lap \in Nat /\ Lap >= 4 /\ \A n \in Bus : Lap % n = 0
ASSUME LineAssumption ==
  /\ HPeriod \in Nat \ {0} /\ VPeriod \in Nat \ {0} /\ Vdisp \in 1..VPeriod
  /\ SetupBase \in Nat /\ RunAt \in Nat
  /\ SetupBase + 3 < RunAt /\ RunAt < HPeriod
\* Between two requests of the beam there is time for an HDMA of all channels and
\* for what it waits for: on line 0, from one line to the next, and from the last
\* line of the picture to the next field.
Longest   == CHOOSE n \in Lengths : \A m \in Lengths : m <= n
SetupTime == 4 + 12 * NC
RunTime   == 4 + 4 * Longest * NC + 12 * NC
Around    == 25 \* until it begins, the two synchronizations, and the step it was due in
ASSUME TimeAssumption ==
  /\ SetupBase > 0 /\ RunAt + 6 <= HPeriod /\ Vdisp < VPeriod
  /\ RunAt - (SetupBase + 3) > Around + SetupTime
  /\ HPeriod > Around + RunTime
  /\ HPeriod * (VPeriod - Vdisp) + HPeriod - RunAt + SetupBase > Around + RunTime

VARIABLES
  v, h,              \* PPUcounter
  cpu, dma,          \* struct Counter: cpu & 7, and dma modulo Lap
  hdmaSetupPosition, hdmaSetupTriggered, hdmaTriggered,
  dmaActive, dmaPending, hdmaPending, hdmaMode, \* struct Status
  clockCount,        \* ticks of the bus cycle the CPU is in
  write,             \* the register it writes, or "none"
  todo,              \* what is left of the cycle and of the calls inside it
  \* struct Channel: the channels for which these are set
  dmaEnable, hdmaEnable, hdmaCompleted, hdmaDoTransfer

beam   == <<v, h, cpu, hdmaSetupPosition, hdmaSetupTriggered, hdmaTriggered,
            hdmaPending, hdmaMode>>
tables == <<hdmaCompleted, hdmaDoTransfer>>
cycle  == <<clockCount, write>>
vars == <<beam, tables, dma, dmaActive, dmaPending, cycle, todo, dmaEnable, hdmaEnable>>

-----------------------------------------------------------------------------
(* Calls and statements that are left to execute. *)

\* edge, edgeDma, edgeEnd: the parts of dmaEdge()   sync, align: its DMA and CPU sync
\* hdma, hdmaEnd: setup or run, and what follows it   byte: eight clocks of DMA
\* dmaRun: CPU::dmaRun()                             cycle, access: the CPU's own
Plains == {"edge", "edgeDma", "edgeEnd", "sync", "hdma", "hdmaEnd",
           "byte", "dmaRun", "align", "cycle", "access"}
\* setup, transfer, advance: Channel::hdmaSetup(), hdmaTransfer(), hdmaAdvance()
\* start, loop, test: Channel::dmaRun(), the body of its loop and the condition
PerChannel == {"setup", "transfer", "advance", "start", "loop", "test"}

Calls == [op : Plains, c : {0}] \cup [op : PerChannel, c : Channel]

Plain(k) == [op |-> k, c |-> 0]
Of(k, c) == [op |-> k, c |-> c]
\* for(auto& channel : channels)
Each(k)  == [i \in 1..NC |-> Of(k, i - 1)]
Bytes(n) == [i \in 1..n |-> Plain("byte")]

Doing(k) == todo # <<>> /\ Head(todo).op = k
it == Head(todo).c

hdmaActive == hdmaEnable \ hdmaCompleted
hdmaFinished(c, completed) == \A d \in (c + 1)..(NC - 1) : d \notin hdmaEnable \ completed

TypeOK ==
  /\ v \in 0..(VPeriod - 1) /\ h \in 0..(HPeriod - 1)
  /\ cpu \in 0..3 /\ dma \in 0..(Lap - 1)
  /\ hdmaSetupPosition \in SetupBase..(SetupBase + 3)
  /\ hdmaSetupTriggered \in BOOLEAN /\ hdmaTriggered \in BOOLEAN
  /\ dmaActive \in BOOLEAN /\ dmaPending \in BOOLEAN
  /\ hdmaPending \in BOOLEAN /\ hdmaMode \in {"setup", "run"}
  /\ clockCount \in Bus /\ write \in {"none", "420b", "420c"}
  /\ todo \in Seq(Calls)
  /\ dmaEnable \subseteq Channel /\ hdmaEnable \subseteq Channel
  /\ hdmaCompleted \subseteq Channel /\ hdmaDoTransfer \subseteq Channel

-----------------------------------------------------------------------------
(* Time: CPU::step<n>() with its scanline and the requests of HDMA.        *)

\* The beam moves n ticks; scanline() arms the requests of the new line.  (DRAM
\* refresh, 40 clocks a line, changes neither their order nor the alignment.)
Line(n)  == IF h + n >= HPeriod THEN {(v + 1) % VPeriod} ELSE {} \* the line entered
Due(old, new, entered) == new /\ (~old \/ entered)

stepBeam(n) ==
  /\ h' = (h + n) % HPeriod /\ cpu' = (cpu + n) % 4
  /\ v' = IF h + n >= HPeriod THEN (v + 1) % VPeriod ELSE v
  /\ hdmaSetupPosition' = IF 0 \in Line(n) THEN SetupBase + ((cpu + HPeriod - h) % 4)
                          ELSE hdmaSetupPosition
  /\ hdmaSetupTriggered' =
       ((hdmaSetupTriggered /\ 0 \notin Line(n)) \/ h' >= hdmaSetupPosition')
  /\ hdmaTriggered' =
       ((hdmaTriggered /\ Line(n) \cap 0..(Vdisp - 1) = {}) \/ h' >= RunAt)

\* A position was reached in this step, and not before it on the same line.
SetupDue == Due(hdmaSetupTriggered, hdmaSetupTriggered', v # 0 /\ v' = 0)
RunDue   == Due(hdmaTriggered, hdmaTriggered', v # v' /\ v' < Vdisp)

\* hdmaReset() at the setup position: what it leaves of a set of channels.
Reset(S) == IF SetupDue THEN {} ELSE S

step(n) ==
  /\ stepBeam(n)
  /\ LET setup == SetupDue /\ hdmaEnable # {}
         run   == RunDue /\ hdmaEnable \ Reset(hdmaCompleted) # {}
     IN  /\ hdmaPending' = (hdmaPending \/ setup \/ run)
         /\ hdmaMode' = IF run THEN "run" ELSE IF setup THEN "setup" ELSE hdmaMode

\* Channel::step(): clocks that counter.dma counts.
dmaStep(n)  == step(n) /\ dma' = (dma + n) % Lap
stepTables  == hdmaCompleted' = Reset(hdmaCompleted) /\ hdmaDoTransfer' = Reset(hdmaDoTransfer)
NoTime      == UNCHANGED <<beam, dma, tables>>
SameEnables == UNCHANGED <<dmaEnable, hdmaEnable>>
SameStatus  == UNCHANGED <<dmaActive, dmaPending, cycle>>

-----------------------------------------------------------------------------
(* CPU::dmaEdge() *)

Then(s) == todo' = s \o Tail(todo)
Skip    == Then(<<>>) /\ NoTime /\ SameStatus /\ SameEnables

\* An HDMA waits and DMA is active: sync, unless some DMA is enabled.
edge ==
  /\ Doing("edge")
  /\ IF dmaActive /\ hdmaPending
     THEN /\ hdmaPending' = FALSE
          /\ Then((IF hdmaEnable # {} /\ dmaEnable = {} THEN <<Plain("sync")>> ELSE <<>>)
                  \o (IF hdmaEnable # {} THEN <<Plain("hdma"), Plain("hdmaEnd")>> ELSE <<>>)
                  \o <<Plain("edgeDma"), Plain("edgeEnd")>>)
     ELSE /\ UNCHANGED hdmaPending
          /\ Then((IF dmaActive THEN <<Plain("edgeDma")>> ELSE <<>>) \o <<Plain("edgeEnd")>>)
  /\ UNCHANGED <<v, h, cpu, hdmaSetupPosition, hdmaSetupTriggered, hdmaTriggered, hdmaMode,
                 dma, tables>>
  /\ SameStatus /\ SameEnables

edgeDma ==
  /\ Doing("edgeDma")
  /\ dmaPending' = FALSE
  /\ Then(IF dmaPending /\ dmaEnable # {}
          THEN <<Plain("sync"), Plain("dmaRun"), Plain("align")>> ELSE <<>>)
  /\ NoTime /\ SameEnables /\ UNCHANGED <<dmaActive, cycle>>

edgeEnd ==
  /\ Doing("edgeEnd")
  /\ dmaActive' = (dmaActive \/ dmaPending \/ hdmaPending)
  /\ Then(<<>>) /\ NoTime /\ SameEnables /\ UNCHANGED <<dmaPending, cycle>>

\* DMA sync: step(counter.dma = 8 - dmaCounter()).
sync ==
  /\ Doing("sync")
  /\ step(4 - cpu) /\ stepTables /\ dma' = (4 - cpu) % Lap
  /\ Then(<<>>) /\ SameStatus /\ SameEnables

\* CPU sync, and DMA is no longer active; after an HDMA, if no DMA is enabled.
align ==
  /\ Doing("align") \/ (Doing("hdmaEnd") /\ dmaEnable = {})
  /\ step(clockCount - (dma % clockCount)) /\ stepTables /\ dmaActive' = FALSE
  /\ Then(<<>>) /\ SameEnables /\ UNCHANGED <<dma, dmaPending, cycle>>

hdmaEnd == Doing("hdmaEnd") /\ dmaEnable # {} /\ Skip

-----------------------------------------------------------------------------
(* CPU::hdmaSetup(), CPU::hdmaRun() and the channels they call.            *)

byte ==
  /\ Doing("byte")
  /\ dmaStep(4) /\ stepTables /\ Then(<<>>) /\ SameStatus /\ SameEnables

hdma ==
  /\ Doing("hdma")
  /\ dmaStep(4) /\ stepTables /\ SameStatus /\ SameEnables
  /\ Then(IF hdmaMode = "setup" THEN Each("setup") ELSE Each("transfer") \o Each("advance"))

\* hdmaReload(): one byte is read anyway; if the line counter has run out it is
\* the next counter, zero at the end of the table, and an indirect address follows.
Reload(c, again) ==
  /\ dmaStep(4) /\ SameStatus
  /\ \E ends \in BOOLEAN :
       /\ hdmaCompleted' = (Reset(hdmaCompleted) \ {c}) \cup (IF again /\ ends THEN {c} ELSE {})
       /\ \E transfers \in IF again THEN {~ends} ELSE BOOLEAN :
            hdmaDoTransfer' = (Reset(hdmaDoTransfer) \ {c}) \cup (IF transfers THEN {c} ELSE {})
       /\ Then(Bytes(IF ~again \/ c \notin Indirect THEN 0
                     ELSE IF ends /\ hdmaFinished(c, hdmaCompleted') THEN 1 ELSE 2))

hdmaSetup ==
  /\ Doing("setup") /\ UNCHANGED hdmaEnable
  /\ dmaEnable' = IF it \in hdmaEnable THEN dmaEnable \ {it} ELSE dmaEnable
  /\ IF it \in hdmaEnable
     THEN Reload(it, TRUE)
     ELSE /\ hdmaDoTransfer' = hdmaDoTransfer \cup {it}
          /\ Then(<<>>) /\ SameStatus /\ UNCHANGED <<beam, dma, hdmaCompleted>>

hdmaTransfer ==
  /\ Doing("transfer") /\ NoTime /\ SameStatus /\ UNCHANGED hdmaEnable
  /\ dmaEnable' = IF it \in hdmaActive THEN dmaEnable \ {it} ELSE dmaEnable
  /\ \E n \in IF it \in hdmaActive \cap hdmaDoTransfer THEN Lengths ELSE {0} : Then(Bytes(n))

hdmaAdvance ==
  /\ Doing("advance")
  /\ IF it \in hdmaActive
     THEN \E again \in BOOLEAN : Reload(it, again) /\ SameEnables
     ELSE Skip

-----------------------------------------------------------------------------
(* CPU::dmaRun() and Channel::dmaRun().                                    *)

dmaRun ==
  /\ Doing("dmaRun")
  /\ dmaStep(4) /\ stepTables /\ SameStatus /\ SameEnables
  /\ Then(<<Plain("edge")>> \o Each("start"))

start_Unyielding ==
  /\ Doing("start")
  /\ IF it \in dmaEnable
     THEN /\ dmaStep(4) /\ stepTables /\ SameStatus /\ SameEnables
          /\ Then(<<Of("loop", it)>>)
     ELSE Skip
start ==
  /\ Doing("start")
  /\ IF it \in dmaEnable
     THEN /\ dmaStep(4) /\ stepTables /\ SameStatus /\ SameEnables
          /\ Then(<<Plain("edge"), Of("loop", it)>>)
     ELSE Skip

loop_Unyielding ==
  /\ Doing("loop")
  /\ dmaStep(4) /\ stepTables /\ SameStatus /\ SameEnables
  /\ Then(<<Of("test", it)>>)
loop ==
  /\ Doing("loop")
  /\ dmaStep(4) /\ stepTables /\ SameStatus /\ SameEnables
  /\ Then(<<Plain("edge"), Of("test", it)>>)

\* while(dmaEnable && --transferSize): how many bytes are left is arbitrary.
test_NotCleared ==
  /\ Doing("test") /\ NoTime /\ SameStatus /\ SameEnables
  /\ (it \in dmaEnable /\ Then(<<Of("loop", it)>>)) \/ Then(<<>>)
test ==
  /\ Doing("test") /\ NoTime /\ SameStatus /\ UNCHANGED hdmaEnable
  /\ \/ it \in dmaEnable /\ Then(<<Of("loop", it)>>) /\ UNCHANGED dmaEnable
     \/ Then(<<>>) /\ dmaEnable' = dmaEnable \ {it}

-----------------------------------------------------------------------------
(* The CPU's bus cycles: CPU::idle, CPU::read, CPU::write.                 *)

\* No instruction writes one register in two successive cycles; a word store
\* or a push may write $420b and $420c so.
BusCycle ==
  /\ todo = <<>>
  /\ clockCount' \in Bus
  /\ write' \in {"none"} \cup ({"420b", "420c"} \ {write})
  /\ todo' = <<Plain("edge"), Plain("cycle"), Plain("access")>>
  /\ NoTime /\ SameEnables /\ UNCHANGED <<dmaActive, dmaPending>>

Cycle ==
  /\ Doing("cycle")
  /\ step(clockCount) /\ stepTables /\ UNCHANGED dma
  /\ Then(<<>>) /\ SameStatus /\ SameEnables

\* $420b and $420c; any other access leaves DMA alone.
writeCPU ==
  /\ Doing("access")
  /\ dmaEnable' \in IF write = "420b" THEN SUBSET Channel ELSE {dmaEnable}
  /\ dmaPending' = (dmaPending \/ (write = "420b" /\ dmaEnable' # {}))
  /\ hdmaEnable' \in IF write = "420c" THEN SUBSET Channel ELSE {hdmaEnable}
  /\ Then(<<>>) /\ NoTime /\ UNCHANGED <<dmaActive, cycle>>

\* CPU::power.
Init ==
  /\ v = 0 /\ h = 0 /\ cpu = 0 /\ dma = 0
  /\ hdmaSetupPosition = SetupBase
  /\ hdmaSetupTriggered = FALSE /\ hdmaTriggered = FALSE
  /\ dmaActive = FALSE /\ dmaPending = FALSE
  /\ hdmaPending = FALSE /\ hdmaMode = "setup"
  /\ clockCount \in Bus /\ write = "none" /\ todo = <<>>
  /\ dmaEnable = {} /\ hdmaEnable = {} /\ hdmaCompleted = {} /\ hdmaDoTransfer = {}

Edge == edge \/ edgeDma \/ edgeEnd \/ sync \/ align \/ hdmaEnd
Hdma == hdma \/ byte \/ hdmaSetup \/ hdmaTransfer \/ hdmaAdvance
Next == Edge \/ Hdma \/ dmaRun \/ start \/ loop \/ test \/ BusCycle \/ Cycle \/ writeCPU

Spec == Init /\ [][Next]_vars

-----------------------------------------------------------------------------
(* Correctness. *)

\* Where an HDMA is under way.
InHdma == \E i \in DOMAIN todo :
  todo[i].op \in {"hdma", "hdmaEnd", "setup", "transfer", "advance"}

\* An HDMA that the beam requests finds the one before it done: however long a
\* DMA is, no line and no setup of a field is lost (dmaEdge before each byte).
NoRequestLost ==
  [][SetupDue \/ RunDue => ~hdmaPending /\ ~InHdma]_vars

\* A DMA does not transfer a byte while an HDMA is waiting.
HdmaFirst == Doing("loop") => ~hdmaPending

\* A channel that is enabled at $420b has its DMA to come or under way; none is
\* left enabled behind it, to be taken for a DMA in progress by the next HDMA.
Comes(s, c) ==
  \E i \in DOMAIN s : \/ s[i].op = "dmaRun"
                      \/ s[i].op \in {"start", "loop", "test"} /\ s[i].c = c
NoneForgotten == \A c \in dmaEnable : dmaPending \/ Comes(todo, c)

\* The comment in dmaEdge says "DMA sync + HDMA run": transfers begin on the
\* eight-clock grid of DMA.
HdmaSynced == Doing("hdma") => cpu = 0
=============================================================================
