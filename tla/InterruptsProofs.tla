-------------------------- MODULE InterruptsProofs --------------------------
(***************************************************************************)
(* What holds of the interrupt unit for every beam, program and DMA.       *)
(***************************************************************************)
EXTENDS Interrupts, TLAPS

-----------------------------------------------------------------------------
(* The inductive invariant. *)

\* The registers of /NMI hold together: a held line is low, a low line is in
\* vertical blanking, and an edge that is owed was enabled.
NmiShape == /\ "nmiHold" \in status => "nmiLine" \in status
            /\ "nmiLine" \in status => "nmiValid" \in status
            /\ owed => "nmiEnable" \in io

\* The lines are polled before this bus cycle ends.
PollComes == ticks >= 2 \/ (ticks = 1 /\ beam % 2 = 0)

\* No lastCycle() passes before the lines are polled again.
Guarded == /\ cycle \in {"idle", "write"} => PollComes
           /\ cycle = "none" => "irqLock" \in status \/ PollComes

\* A transition, and a hold that will become one, each stand for an edge; if
\* both stand for the same one, they merge at the next poll.
EdgeShape ==
  /\ "nmiTransition" \in status => edges >= 1
  /\ "nmiHold" \in status /\ "nmiEnable" \in io => edges >= 1
  /\ {"nmiTransition", "nmiHold"} \subseteq status /\ "nmiEnable" \in io /\ edges < 2 => Guarded

IInv == /\ TypeOK /\ PendingFlagged /\ DisabledIrqSilent
        /\ NmiShape /\ NmiNotLost /\ EdgeShape

-----------------------------------------------------------------------------
(* The handlers. *)

NmiFields == {"nmiValid", "nmiLine", "nmiTransition", "nmiHold"}
IrqFields == {"irqValid", "irqLine", "irqTransition", "irqHold"}

\* The beam stays in the field, and every other position is polled.
LEMMA BeamNext ==
  ASSUME TypeOK
  PROVE  /\ nextTick \in 0..(HPeriod * VPeriod - 1)
         /\ nextTick % 2 = 0 => beam % 2 = 1
<1> DEFINE k == HPeriod \div 2
           m == k * VPeriod
           N == HPeriod * VPeriod
<1>1. k \in Nat /\ k > 0 /\ HPeriod = 2 * k /\ VPeriod \in Nat /\ VPeriod > 0
  BY BeamAssumption
<1> HIDE DEF k
<1>2. m \in Nat /\ m > 0 /\ N = 2 * m
  BY <1>1
<1>3. beam \in 0..(N - 1)
  BY DEF TypeOK
<1>4. nextTick = (beam + 1) % N
  BY DEF nextTick
<1> HIDE DEF m, N
<1>5. nextTick = IF beam + 1 = N THEN 0 ELSE beam + 1
  BY <1>2, <1>3, <1>4
<1>6. nextTick \in 0..(N - 1) /\ (nextTick % 2 = 0 => beam % 2 = 1)
  BY <1>2, <1>3, <1>5
<1> QED BY <1>6 DEF N

\* irqPoll touches the IRQ's fields only, and leaves a disabled IRQ silent.
LEMMA IrqPollFacts ==
  ASSUME NEW s \in SUBSET Status, NEW match \in BOOLEAN
  PROVE  /\ irqPoll(s, match) \subseteq Status
         /\ irqPoll(s, match) \ IrqFields = s \ IrqFields
         /\ ~irqEnable(io) /\ ~match /\ s \cap {"irqLine", "irqTransition"} = {}
              => irqPoll(s, match) \cap {"irqLine", "irqTransition"} = {}
BY DEF irqPoll, Status, IrqFields

\* nmiPoll ends a hold, with a transition if NMIs are enabled, and starts one
\* when the line falls; it touches the NMI's fields only.
LEMMA NmiPollFacts ==
  ASSUME NEW s \in SUBSET Status, NEW b \in Int,
         "nmiHold" \in s => "nmiLine" \in s, "nmiLine" \in s => "nmiValid" \in s
  PROVE  LET p == nmiPoll(s, b) IN
         /\ p \subseteq Status /\ p \ NmiFields = s \ NmiFields
         /\ "nmiHold" \in p => "nmiLine" \in p
         /\ "nmiLine" \in p => "nmiValid" \in p
         /\ "nmiHold" \in p => "nmiLine" \notin s
         /\ "nmiTransition" \in p =>
              "nmiTransition" \in s \/ ("nmiHold" \in s /\ "nmiEnable" \in io)
         /\ "nmiTransition" \in s => "nmiTransition" \in p
         /\ "nmiHold" \in s /\ "nmiEnable" \in io => "nmiTransition" \in p
         /\ "nmiLine" \in p /\ "nmiLine" \notin s => "nmiHold" \in p
BY DEF nmiPoll, Status, NmiFields

LEMMA InitIInv == Init => IInv
<1> SUFFICES ASSUME Init PROVE IInv
  OBVIOUS
<1>1. 0 \in 0..(HPeriod * VPeriod - 1)
  <2>1. HPeriod * VPeriod > 0
    BY BeamAssumption
  <2> QED BY <2>1, BeamAssumption
<1>2. TypeOK
  <2>1. status \subseteq Status /\ io \subseteq Registers
    BY DEF Init, atPower, Status
  <2>2. edges \in 0..MaxEdges
    BY CycleAssumption DEF Init
  <2> QED BY <1>1, <2>1, <2>2 DEF Init, TypeOK, Places
<1> QED
  BY <1>2 DEF Init, IInv, PendingFlagged, DisabledIrqSilent, NmiShape, NmiNotLost,
              EdgeShape, atPower, irqEnable

\* A bus cycle that begins is polled before it ends.
LEMMA BeginFacts ==
  ASSUME NEW k \in Kinds, NEW s \in SUBSET Status, Begin(k, s)
  PROVE  /\ cycle' = k /\ ticks' \in Nat /\ afterDma' \in BOOLEAN
         /\ status' \subseteq Status /\ s \subseteq status' /\ status' \subseteq s \cup {"irqLock"}
         /\ Guarded'
<1>1. PICK n \in Before[k], d \in DmaTicks \cup {0} :
        /\ ticks' = n + d
        /\ status' = IF d > 0 THEN s \cup {"irqLock"} ELSE s
        /\ afterDma' = (d > 0)
  BY DEF Begin
<1>2. n \in Nat /\ n > 0 /\ d \in Nat /\ (k # "read" => n >= 3)
  BY CycleAssumption DEF Kinds
<1>3. cycle' = k
  BY DEF Begin
<1>4. status' \subseteq Status /\ s \subseteq status' /\ status' \subseteq s \cup {"irqLock"}
  BY <1>1 DEF Status
<1>5. ticks' \in Nat /\ (k # "read" => ticks' >= 3)
  BY <1>1, <1>2
<1>6. Guarded'
  BY <1>3, <1>5 DEF Guarded, PollComes, Kinds
<1> QED BY <1>1, <1>3, <1>4, <1>5, <1>6

\* What lastCycle() may change.
LEMMA LastFacts ==
  ASSUME TypeOK
  PROVE  /\ lastCycle \subseteq Status
         /\ \A f \in Status \ {"nmiTransition", "irqTransition", "nmiPending", "irqPending",
                              "interruptPending"} : f \in lastCycle <=> f \in status
         /\ "nmiTransition" \in lastCycle <=> "nmiTransition" \in status /\ ~nmiTest
         /\ "irqTransition" \in lastCycle => "irqTransition" \in status
         /\ PendingFlagged =>
              ((lastCycle \cap {"nmiPending", "irqPending", "resetPending"}) # {}
                 => "interruptPending" \in lastCycle)
BY DEF TypeOK, lastCycle, Status, nmiTest, PendingFlagged

\* nmitimenUpdate locks, and silences a disabled IRQ.
LEMMA NmitimenFacts ==
  ASSUME NEW s \in SUBSET Status, NEW on \in SUBSET Registers
  PROVE  LET u == nmitimenUpdate(s, on) IN
         /\ u \subseteq Status /\ "irqLock" \in u
         /\ \A f \in Status \ {"nmiTransition", "irqTransition", "irqLine", "irqLock"} :
              f \in u <=> f \in s
         /\ "nmiTransition" \in u <=> "nmiTransition" \in s \/ uncovers(s, on)
         /\ ~irqEnable(on) => u \cap {"irqLine", "irqTransition"} = {}
<1>1. /\ irqsAfter(s, on) \subseteq Status
      /\ \A f \in Status \ {"irqTransition", "irqLine"} : f \in irqsAfter(s, on) <=> f \in s
      /\ ~irqEnable(on) => irqsAfter(s, on) \cap {"irqLine", "irqTransition"} = {}
  BY DEF irqsAfter, Status, irqEnable
<1> HIDE DEF irqsAfter
<1> QED BY <1>1 DEF nmitimenUpdate, Status

LEMMA NextCases ==
  ASSUME [Next]_vars
  PROVE  \/ Tick \/ IdleEnd \/ ReadAccess \/ WriteAccess
         \/ main \/ Body \/ LastCycle \/ End \/ Entry \/ Vector \/ Exit
         \/ Halt \/ WaitLoop \/ WaitExit \/ StopLoop \/ StopExit
         \/ irq \/ power \/ UNCHANGED vars
BY DEF Next, Cpu

-----------------------------------------------------------------------------
(* The steps. *)

\* A step that leaves the lines, their enables and their history alone, and
\* does not get past a lastCycle() unguarded.
Quiet == /\ \A f \in NmiFields \cup IrqFields : f \in status' <=> f \in status
         /\ UNCHANGED <<io, edges, owed>>
         /\ Guarded => Guarded'

LEMMA QuietKeeps ==
  ASSUME IInv, Quiet, TypeOK', PendingFlagged' PROVE IInv'
<1>1. DisabledIrqSilent'
  BY DEF IInv, Quiet, DisabledIrqSilent, IrqFields, NmiFields, irqEnable
<1>2. NmiShape' /\ NmiNotLost'
  BY DEF IInv, Quiet, NmiShape, NmiNotLost, IrqFields, NmiFields
<1>3. EdgeShape'
  BY DEF IInv, Quiet, EdgeShape, IrqFields, NmiFields
<1> QED BY <1>1, <1>2, <1>3 DEF IInv

\* Steps between two bus cycles that begin one at once.
LEMMA BeginQuiet ==
  ASSUME IInv, NEW k \in Kinds, NEW s \in SUBSET Status, Begin(k, s),
         \A f \in NmiFields \cup IrqFields : f \in s <=> f \in status,
         (s \cap {"nmiPending", "irqPending", "resetPending"} # {}
            => "interruptPending" \in s),
         UNCHANGED <<beam, io, vtime, htime, edges, owed>>,
         r' \subseteq {"irq", "wai", "stp", "i"}, at' \in Places
  PROVE  IInv'
<1>1. /\ cycle' = k /\ ticks' \in Nat /\ afterDma' \in BOOLEAN
      /\ status' \subseteq Status /\ s \subseteq status' /\ status' \subseteq s \cup {"irqLock"}
      /\ Guarded'
  BY BeginFacts
<1>2. Quiet
  BY <1>1 DEF Quiet, NmiFields, IrqFields
<1>3. PendingFlagged'
  BY <1>1 DEF PendingFlagged
<1>4. TypeOK'
  BY <1>1 DEF IInv, TypeOK
<1> QED BY <1>2, <1>3, <1>4, QuietKeeps

\* The steps of the core that look at no line.
LEMMA CoreKeeps ==
  ASSUME IInv, main \/ Body \/ End \/ Entry \/ Exit \/ Halt \/ WaitExit \/ StopExit
  PROVE  IInv'
<1> USE DEF Places, Kinds
<1>0. TypeOK /\ PendingFlagged /\ status \in SUBSET Status /\ r \subseteq {"irq", "wai", "stp", "i"}
  BY DEF IInv, TypeOK
<1>1. ASSUME status' = status, UNCHANGED <<beam, io, vtime, htime, cycle, ticks, history>>,
             r' \subseteq {"irq", "wai", "stp", "i"}, at' \in Places
      PROVE  IInv'
  <2>1. TypeOK' /\ PendingFlagged'
    BY <1>0, <1>1 DEF TypeOK, PendingFlagged, history
  <2>2. Quiet
    BY <1>1 DEF Quiet, Guarded, PollComes, history
  <2> QED BY <2>1, <2>2, QuietKeeps
<1>2. CASE End \/ Exit \/ Halt \/ StopExit
  BY <1>0, <1>1, <1>2 DEF End, Exit, Halt, StopExit
<1>3. ASSUME NEW k \in Kinds, Begin(k, status), UNCHANGED <<beam, io, vtime, htime, edges, owed>>,
             r' \subseteq {"irq", "wai", "stp", "i"}, at' \in Places
      PROVE  IInv'
  BY <1>0, <1>3, BeginQuiet DEF PendingFlagged
<1>4. CASE Body \/ Entry \/ WaitExit
  BY <1>0, <1>3, <1>4 DEF Body, Entry, WaitExit
<1>5. CASE main
  <2>1. /\ at = "main" /\ Between /\ UNCHANGED <<beam, io, vtime, htime, r, edges, owed>>
        /\ cycle = "none" /\ ticks = 0
    BY <1>5 DEF main, Between
  <2>2. CASE at' \in {"wait", "stop"} /\ UNCHANGED <<status, cycle, ticks, afterDma>>
    BY <1>0, <1>1, <2>1, <2>2 DEF history
  <2>3. CASE at' = "body" /\ Begin("read", status)
    BY <1>0, <1>3, <2>1, <2>3
  <2>4. CASE dispatch
    <3>1. ASSUME NEW s \in SUBSET Status, at' = "entry", Begin("read", s),
                 \/ "nmiPending" \in status /\ s = status \ {"nmiPending"}
                 \/ "irqPending" \in status /\ s = status \ {"irqPending"}
          PROVE  IInv'
      <4>1. \A f \in NmiFields \cup IrqFields : f \in s <=> f \in status
        BY <3>1 DEF NmiFields, IrqFields
      <4>2. s \cap {"nmiPending", "irqPending", "resetPending"} # {} => "interruptPending" \in s
        BY <1>0, <3>1 DEF PendingFlagged
      <4> QED BY <1>0, <2>1, <3>1, <4>1, <4>2, BeginQuiet
    <3>2. CASE /\ at' \in Places /\ cycle' = "none" /\ ticks' \in Nat /\ UNCHANGED afterDma
               /\ \/ "resetPending" \in status /\ status' = status \ {"resetPending"}
                  \/ /\ status \cap {"nmiPending", "irqPending", "resetPending"} = {}
                     /\ status' = status \ {"interruptPending"} /\ ticks' = 0
      <4>1. TypeOK'
        BY <1>0, <2>1, <3>2 DEF TypeOK
      <4>2. PendingFlagged'
        BY <1>0, <3>2 DEF PendingFlagged
      <4>3. Guarded => Guarded'
        BY <2>1, <3>2 DEF Guarded, PollComes
      <4>4. Quiet
        BY <2>1, <3>2, <4>3 DEF Quiet, NmiFields, IrqFields
      <4> QED BY <4>1, <4>2, <4>4, QuietKeeps
    <3> QED BY <1>0, <2>1, <2>4, <3>1, <3>2, CycleAssumption DEF dispatch
  <2> QED BY <1>5, <2>2, <2>3, <2>4 DEF main
<1> QED BY <1>2, <1>4, <1>5

\* The history variables follow the two pins of the NMI.
LEMMA AnswerFacts ==
  ASSUME TypeOK, NEW taken \in BOOLEAN, Answer(taken),
         NEW comes, comes = (("nmiLine" \in status' /\ "nmiEnable" \in io')
                             /\ ~("nmiLine" \in status /\ "nmiEnable" \in io))
  PROVE  /\ edges' \in 0..MaxEdges /\ owed' \in BOOLEAN
         /\ ~taken => edges' >= edges /\ (comes => edges' >= 1 /\ (edges >= 1 => edges' >= 2))
         /\ taken => edges' = IF edges > 0 THEN edges - 1 ELSE 0
         /\ owed' => ~taken /\ (comes \/ (owed /\ "nmiEnable" \in io'))
<1>1. /\ edges' = IF taken THEN edges - (IF edges > 0 THEN 1 ELSE 0)
                  ELSE IF comes /\ edges < MaxEdges THEN edges + 1 ELSE edges
      /\ owed' = (~taken /\ (comes \/ (owed /\ "nmiEnable" \in io')))
  BY DEF Answer
<1>2. edges \in 0..MaxEdges /\ MaxEdges \in Nat /\ MaxEdges >= 2
  BY CycleAssumption DEF TypeOK
<1>3. /\ edges' \in 0..MaxEdges
      /\ ~taken => edges' >= edges /\ (comes => edges' >= 1 /\ (edges >= 1 => edges' >= 2))
      /\ taken => edges' = IF edges > 0 THEN edges - 1 ELSE 0
  BY <1>1, <1>2
<1>4. owed' \in BOOLEAN /\ (owed' => ~taken /\ (comes \/ (owed /\ "nmiEnable" \in io')))
  BY <1>1
<1> QED BY <1>3, <1>4

LEMMA TickKeeps == ASSUME IInv, Tick PROVE IInv'
<1> DEFINE b == nextTick
           match == irqMatch(io, vtime, htime, b)
           polled == nmiPoll(status, b)
           comes == ("nmiLine" \in status' /\ "nmiEnable" \in io')
                      /\ ~("nmiLine" \in status /\ "nmiEnable" \in io)
<1>0. TypeOK /\ PendingFlagged /\ DisabledIrqSilent /\ NmiShape /\ NmiNotLost /\ EdgeShape
  BY DEF IInv
<1>1. /\ beam' = b /\ ticks > 0 /\ ticks' = ticks - 1
      /\ status' = IF b % 2 = 0 THEN status ELSE irqPoll(polled, match)
      /\ UNCHANGED <<io, vtime, htime, r, at, cycle, afterDma>>
      /\ Answer(FALSE)
  BY DEF Tick
<1>2. /\ b \in 0..(HPeriod * VPeriod - 1) /\ (b % 2 = 0 => beam % 2 = 1) /\ b \in Int
  BY <1>0, BeamNext, BeamAssumption
<1>3. /\ polled \subseteq Status /\ polled \ NmiFields = status \ NmiFields
      /\ "nmiHold" \in polled => "nmiLine" \in polled
      /\ "nmiLine" \in polled => "nmiValid" \in polled
      /\ "nmiHold" \in polled => "nmiLine" \notin status
      /\ "nmiTransition" \in polled =>
           "nmiTransition" \in status \/ ("nmiHold" \in status /\ "nmiEnable" \in io)
      /\ "nmiTransition" \in status => "nmiTransition" \in polled
      /\ "nmiHold" \in status /\ "nmiEnable" \in io => "nmiTransition" \in polled
      /\ "nmiLine" \in polled /\ "nmiLine" \notin status => "nmiHold" \in polled
  BY <1>0, <1>2, NmiPollFacts DEF TypeOK, NmiShape
<1>4. match \in BOOLEAN /\ (match => irqEnable(io))
  BY DEF irqMatch
<1> HIDE DEF b, match, polled
<1>5. /\ irqPoll(polled, match) \subseteq Status
      /\ irqPoll(polled, match) \ IrqFields = polled \ IrqFields
      /\ ~irqEnable(io) /\ ~match /\ polled \cap {"irqLine", "irqTransition"} = {}
           => irqPoll(polled, match) \cap {"irqLine", "irqTransition"} = {}
  BY <1>3, <1>4, IrqPollFacts
<1>6. /\ edges' \in 0..MaxEdges /\ owed' \in BOOLEAN /\ edges' >= edges
      /\ comes => edges' >= 1 /\ (edges >= 1 => edges' >= 2)
      /\ owed' => comes \/ (owed /\ "nmiEnable" \in io')
  BY <1>0, <1>1, AnswerFacts
<1>7. TypeOK'
  <2>1. status' \subseteq Status
    BY <1>0, <1>1, <1>5 DEF TypeOK
  <2>2. ticks' \in Nat
    BY <1>0, <1>1 DEF TypeOK
  <2> QED BY <1>0, <1>1, <1>2, <1>6, <2>1, <2>2 DEF TypeOK
<1>8. CASE b % 2 = 0
  <2>1. status' = status /\ io' = io /\ ~comes
    BY <1>1, <1>8
  <2>2. Guarded => Guarded'
    <3>1. PollComes => PollComes'
      BY <1>0, <1>1, <1>2, <1>8 DEF PollComes, TypeOK
    <3> QED BY <1>1, <2>1, <3>1 DEF Guarded
  <2>3. edges \in Nat /\ edges' \in Nat
    BY <1>0, <1>6, CycleAssumption DEF TypeOK
  <2>4. PendingFlagged' /\ DisabledIrqSilent' /\ NmiShape' /\ NmiNotLost'
    BY <1>0, <1>6, <2>1 DEF PendingFlagged, DisabledIrqSilent, NmiShape, NmiNotLost
  <2>5. EdgeShape'
    BY <1>0, <1>6, <2>1, <2>2, <2>3 DEF EdgeShape
  <2> QED BY <1>7, <2>4, <2>5 DEF IInv
<1>9. CASE b % 2 # 0
  <2>1. status' = irqPoll(polled, match) /\ io' = io
    BY <1>1, <1>9
  <2>2. /\ \A f \in NmiFields : f \in status' <=> f \in polled
        /\ \A f \in Status \ (NmiFields \cup IrqFields) : f \in status' <=> f \in status
    BY <1>3, <1>5, <2>1 DEF NmiFields, IrqFields, Status
  <2>3. PendingFlagged'
    BY <1>0, <2>2 DEF PendingFlagged, NmiFields, IrqFields, Status
  <2>4. DisabledIrqSilent'
    <3>1. polled \cap {"irqLine", "irqTransition"} = status \cap {"irqLine", "irqTransition"}
      BY <1>3 DEF NmiFields
    <3> QED BY <1>0, <1>4, <1>5, <2>1, <3>1 DEF DisabledIrqSilent
  <2>5. NmiShape'
    BY <1>0, <1>3, <1>6, <2>1, <2>2 DEF NmiShape, NmiFields
  <2>6. NmiNotLost'
    BY <1>0, <1>3, <1>6, <2>1, <2>2 DEF NmiShape, NmiNotLost, NmiFields
  <2>7. EdgeShape'
    <3>1. "nmiTransition" \in status' => edges >= 1
      BY <1>0, <1>3, <2>2 DEF EdgeShape, NmiFields
    <3>2. "nmiHold" \in status' /\ "nmiEnable" \in io' => comes
      BY <1>3, <2>2 DEF NmiFields
    <3>3. edges \in Nat /\ edges' \in Nat
      BY <1>0, <1>6, CycleAssumption DEF TypeOK
    <3> QED BY <1>6, <3>1, <3>2, <3>3 DEF EdgeShape
  <2> QED BY <1>7, <2>3, <2>4, <2>5, <2>6, <2>7 DEF IInv
<1> QED BY <1>8, <1>9

LEMMA ReadKeeps == ASSUME IInv, IdleEnd \/ ReadAccess PROVE IInv'
<1>0. TypeOK /\ PendingFlagged /\ DisabledIrqSilent /\ NmiShape /\ NmiNotLost /\ EdgeShape
  BY DEF IInv
<1>1. CASE IdleEnd
  <2>1. /\ cycle = "idle" /\ ticks = 0 /\ cycle' = "none" /\ status' = status \ {"irqLock"}
        /\ UNCHANGED <<beam, io, vtime, htime, r, at, ticks, history>>
    BY <1>1 DEF IdleEnd
  <2>2. TypeOK' /\ PendingFlagged'
    BY <1>0, <2>1 DEF TypeOK, PendingFlagged, history
  <2>3. ~Guarded
    BY <2>1 DEF Guarded, PollComes
  <2>4. Quiet
    BY <2>1, <2>3 DEF Quiet, NmiFields, IrqFields, history
  <2> QED BY <2>2, <2>4, QuietKeeps
<1>2. CASE ReadAccess
  <2> DEFINE comes == ("nmiLine" \in status' /\ "nmiEnable" \in io')
                        /\ ~("nmiLine" \in status /\ "nmiEnable" \in io)
  <2>1. /\ cycle' = "none" /\ ticks' = 2 /\ Answer(FALSE)
        /\ UNCHANGED <<beam, io, vtime, htime, r, at, afterDma>>
        /\ LET s == status \ {"irqLock"} IN status' \in {s, rdnmi(s), timeup(s)}
    BY <1>2 DEF ReadAccess
  <2>2. /\ status' \subseteq status
        /\ \A f \in {"nmiTransition", "nmiHold", "nmiValid", "nmiPending", "irqPending",
                   "resetPending", "interruptPending"} : f \in status' <=> f \in status
        /\ "nmiHold" \in status /\ "nmiLine" \in status => "nmiLine" \in status'
    BY <2>1 DEF rdnmi, timeup
  <2>3. ~comes
    BY <2>1, <2>2
  <2>4. /\ edges' \in 0..MaxEdges /\ owed' \in BOOLEAN /\ edges' >= edges
        /\ owed' => comes \/ (owed /\ "nmiEnable" \in io')
    BY <1>0, <2>1, AnswerFacts
  <2>5. TypeOK'
    BY <1>0, <2>1, <2>2, <2>4 DEF TypeOK
  <2>6. PendingFlagged' /\ DisabledIrqSilent' /\ NmiShape' /\ NmiNotLost'
    BY <1>0, <2>1, <2>2, <2>3, <2>4
       DEF PendingFlagged, DisabledIrqSilent, NmiShape, NmiNotLost
  <2>7. Guarded'
    BY <2>1 DEF Guarded, PollComes
  <2>8. edges \in Nat /\ edges' \in Nat
    BY <1>0, <2>4, CycleAssumption DEF TypeOK
  <2>9. EdgeShape'
    BY <1>0, <2>1, <2>2, <2>4, <2>7, <2>8 DEF EdgeShape
  <2> QED BY <2>5, <2>6, <2>9 DEF IInv
<1> QED BY <1>1, <1>2

LEMMA WriteKeeps == ASSUME IInv, WriteAccess PROVE IInv'
<1> DEFINE s == status \ {"irqLock"}
           comes == ("nmiLine" \in status' /\ "nmiEnable" \in io')
                      /\ ~("nmiLine" \in status /\ "nmiEnable" \in io)
<1>0. TypeOK /\ PendingFlagged /\ DisabledIrqSilent /\ NmiShape /\ NmiNotLost /\ EdgeShape
  BY DEF IInv
<1>1. /\ cycle = "write" /\ ticks = 0 /\ cycle' = "none" /\ ticks' = ticks
      /\ UNCHANGED <<beam, r, at, afterDma>> /\ Answer(FALSE)
  BY DEF WriteAccess
<1>2. s \in SUBSET Status /\ io \in SUBSET Registers
  BY <1>0 DEF TypeOK
<1>3. /\ edges' \in 0..MaxEdges /\ owed' \in BOOLEAN /\ edges' >= edges
      /\ comes => edges' >= 1 /\ (edges >= 1 => edges' >= 2)
      /\ owed' => comes \/ (owed /\ "nmiEnable" \in io')
  BY <1>0, <1>1, AnswerFacts
<1>4. edges \in Nat /\ edges' \in Nat
  BY <1>0, <1>3, CycleAssumption DEF TypeOK
<1>5. ~Guarded
  BY <1>1 DEF Guarded, PollComes
<1>6. ASSUME UNCHANGED io, status' \subseteq Status, vtime' \in Vtimes, htime' \in Htimes,
             \A f \in Status \ (IrqFields \cup {"irqLock"}) : f \in status' <=> f \in status,
             DisabledIrqSilent'
      PROVE  IInv'
  <2>1. TypeOK'
    BY <1>0, <1>1, <1>3, <1>6 DEF TypeOK
  <2>2. \A f \in NmiFields \cup {"nmiPending", "irqPending", "resetPending", "interruptPending"} :
          f \in status' <=> f \in status
    BY <1>6 DEF Status, IrqFields, NmiFields
  <2>3. PendingFlagged' /\ NmiShape' /\ NmiNotLost'
    BY <1>0, <1>3, <1>6, <2>2 DEF PendingFlagged, NmiShape, NmiNotLost, NmiFields
  <2>4. EdgeShape'
    BY <1>0, <1>3, <1>4, <1>5, <1>6, <2>2 DEF EdgeShape, NmiFields
  <2> QED BY <1>6, <2>1, <2>3, <2>4 DEF IInv
<1>7. CASE status' = s /\ UNCHANGED <<io, vtime, htime>>
  <2>1. DisabledIrqSilent'
    BY <1>0, <1>7 DEF DisabledIrqSilent
  <2>2. \A f \in Status \ (IrqFields \cup {"irqLock"}) : f \in status' <=> f \in status
    BY <1>7
  <2> QED BY <1>0, <1>2, <1>6, <1>7, <2>1, <2>2 DEF TypeOK
<1>8. CASE io' \in Enables /\ status' = nmitimenUpdate(s, io') /\ UNCHANGED <<vtime, htime>>
  <2>0. io' \in SUBSET Registers
    BY <1>8, CycleAssumption
  <2>1. /\ status' \subseteq Status /\ "irqLock" \in status'
        /\ \A f \in Status \ {"nmiTransition", "irqTransition", "irqLine", "irqLock"} :
             f \in status' <=> f \in s
        /\ "nmiTransition" \in status' <=> "nmiTransition" \in s \/ uncovers(s, io')
        /\ ~irqEnable(io') => status' \cap {"irqLine", "irqTransition"} = {}
    BY <1>2, <1>8, <2>0, NmitimenFacts
  <2>2. /\ \A f \in {"nmiHold", "nmiLine", "nmiValid", "nmiPending", "irqPending",
                    "resetPending", "interruptPending"} : f \in status' <=> f \in status
        /\ "nmiTransition" \in status' <=>
             "nmiTransition" \in status \/ ("nmiEnable" \in io' /\ "nmiEnable" \notin io
                                            /\ "nmiLine" \in status)
    BY <2>1 DEF Status, uncovers
  <2>3. TypeOK'
    BY <1>0, <1>1, <1>3, <1>8, <2>0, <2>1 DEF TypeOK
  <2>4. DisabledIrqSilent'
    BY <2>1 DEF DisabledIrqSilent, irqEnable
  <2>5. PendingFlagged' /\ NmiShape' /\ NmiNotLost'
    BY <1>0, <1>3, <2>2 DEF PendingFlagged, NmiShape, NmiNotLost
  <2>6. Guarded'
    BY <1>1, <2>1 DEF Guarded
  <2>7. EdgeShape'
    BY <1>0, <1>3, <1>4, <2>2, <2>6 DEF EdgeShape, NmiShape
  <2> QED BY <2>3, <2>4, <2>5, <2>7 DEF IInv
<1>9. CASE /\ vtime' \in Vtimes /\ htime' \in Htimes /\ UNCHANGED io
           /\ status' = irqPoll(s, irqMatch(io, vtime', htime', beam))
  <2> DEFINE match == irqMatch(io, vtime', htime', beam)
  <2>1. match \in BOOLEAN /\ (match => irqEnable(io))
    BY DEF irqMatch
  <2> HIDE DEF match
  <2>2. status' = irqPoll(s, match)
    BY <1>9 DEF match
  <2>3. /\ status' \subseteq Status
        /\ status' \ IrqFields = s \ IrqFields
        /\ ~irqEnable(io) /\ ~match /\ s \cap {"irqLine", "irqTransition"} = {}
             => status' \cap {"irqLine", "irqTransition"} = {}
    BY <1>2, <2>1, <2>2, IrqPollFacts
  <2>4. DisabledIrqSilent'
    BY <1>0, <1>9, <2>1, <2>3 DEF DisabledIrqSilent, irqEnable
  <2>5. \A f \in Status \ (IrqFields \cup {"irqLock"}) : f \in status' <=> f \in status
    BY <2>3
  <2> QED BY <1>6, <1>9, <2>3, <2>4, <2>5
<1> QED
  <2>1. WriteAccess =>
          \/ status' = s /\ UNCHANGED <<io, vtime, htime>>
          \/ io' \in Enables /\ status' = nmitimenUpdate(s, io') /\ UNCHANGED <<vtime, htime>>
          \/ /\ vtime' \in Vtimes /\ htime' \in Htimes /\ UNCHANGED io
             /\ status' = irqPoll(s, irqMatch(io, vtime', htime', beam))
    BY <1>0 DEF WriteAccess, TypeOK
  <2> QED BY <1>7, <1>8, <1>9, <2>1

\* lastCycle() and the bus cycle after it: of two transitions that stand for the
\* same edge, irqLock keeps it from the first.
LEMMA LastKeeps ==
  ASSUME IInv, NEW k \in Kinds, Between, Last(k), r' = awake, at' \in Places
  PROVE  IInv'
<1> DEFINE comes == ("nmiLine" \in status' /\ "nmiEnable" \in io')
                      /\ ~("nmiLine" \in status /\ "nmiEnable" \in io)
<1>0. TypeOK /\ PendingFlagged /\ DisabledIrqSilent /\ NmiShape /\ NmiNotLost /\ EdgeShape
  BY DEF IInv
<1>1. /\ cycle = "none" /\ ticks = 0 /\ nmiTest \in BOOLEAN
      /\ Begin(k, lastCycle) /\ Answer(nmiTest) /\ UNCHANGED <<beam, io, vtime, htime>>
  BY DEF Last, Between, nmiTest, Unlocked
<1>2. /\ lastCycle \subseteq Status
      /\ \A f \in Status \ {"nmiTransition", "irqTransition", "nmiPending", "irqPending",
                           "interruptPending"} : f \in lastCycle <=> f \in status
      /\ "nmiTransition" \in lastCycle <=> "nmiTransition" \in status /\ ~nmiTest
      /\ "irqTransition" \in lastCycle => "irqTransition" \in status
      /\ lastCycle \cap {"nmiPending", "irqPending", "resetPending"} # {}
           => "interruptPending" \in lastCycle
  BY <1>0, LastFacts
<1>3. /\ cycle' = k /\ ticks' \in Nat /\ afterDma' \in BOOLEAN
      /\ status' \subseteq Status /\ lastCycle \subseteq status'
      /\ status' \subseteq lastCycle \cup {"irqLock"} /\ Guarded'
  BY <1>1, <1>2, BeginFacts
<1>4. /\ \A f \in {"nmiHold", "nmiLine", "nmiValid", "irqLine"} : f \in status' <=> f \in status
      /\ "nmiTransition" \in status' <=> "nmiTransition" \in status /\ ~nmiTest
      /\ "irqTransition" \in status' => "irqTransition" \in status
      /\ \A f \in Status \ {"irqLock"} : f \in status' <=> f \in lastCycle
  BY <1>2, <1>3 DEF Status
<1>5. ~comes
  BY <1>1, <1>4
<1>6. /\ edges' \in 0..MaxEdges /\ owed' \in BOOLEAN
      /\ ~nmiTest => edges' >= edges
      /\ nmiTest => edges' = IF edges > 0 THEN edges - 1 ELSE 0
      /\ owed' => ~nmiTest /\ (comes \/ (owed /\ "nmiEnable" \in io'))
  BY <1>0, <1>1, AnswerFacts
<1>7. edges \in Nat /\ edges' \in Nat
  BY <1>0, <1>6, CycleAssumption DEF TypeOK
<1>8. TypeOK'
  <2>1. r' \subseteq {"irq", "wai", "stp", "i"}
    BY <1>0 DEF awake, TypeOK
  <2> QED BY <1>0, <1>1, <1>3, <1>6, <2>1 DEF TypeOK
<1>9. PendingFlagged'
  BY <1>2, <1>4 DEF PendingFlagged, Status
<1>10. DisabledIrqSilent' /\ NmiShape' /\ NmiNotLost'
  BY <1>0, <1>1, <1>4, <1>5, <1>6
     DEF DisabledIrqSilent, NmiShape, NmiNotLost, irqEnable
<1>11. EdgeShape'
  <2>1. CASE ~nmiTest
    BY <1>0, <1>1, <1>3, <1>4, <1>6, <1>7, <2>1 DEF EdgeShape
  <2>2. CASE nmiTest
    <3>1. ~Guarded /\ "nmiTransition" \in status
      BY <1>1, <2>2 DEF Guarded, PollComes, nmiTest, Unlocked
    <3>2. "nmiHold" \in status' /\ "nmiEnable" \in io' => edges' >= 1
      BY <1>0, <1>1, <1>4, <1>6, <1>7, <2>2, <3>1 DEF EdgeShape
    <3> QED BY <1>4, <2>2, <3>2 DEF EdgeShape
  <2> QED BY <2>1, <2>2
<1> QED BY <1>8, <1>9, <1>10, <1>11 DEF IInv

LEMMA LastCycleKeeps == ASSUME IInv, TestsInterrupts PROVE IInv'
<1>1. CASE LastCycle
  BY <1>1, LastKeeps DEF LastCycle, Places
<1>2. CASE Vector
  BY <1>2, LastKeeps DEF Vector, Places, Kinds
<1>3. CASE WaitLoop
  BY <1>3, LastKeeps DEF WaitLoop, Places, Kinds
<1>4. CASE StopLoop
  BY <1>4, LastKeeps DEF StopLoop, Places, Kinds
<1> QED BY <1>1, <1>2, <1>3, <1>4 DEF TestsInterrupts

LEMMA OutsideKeeps == ASSUME IInv, irq \/ power \/ UNCHANGED vars PROVE IInv'
<1>0. TypeOK /\ PendingFlagged
  BY DEF IInv
<1>1. CASE irq \/ UNCHANGED vars
  <2>1. /\ status' = status /\ r' \subseteq {"irq", "wai", "stp", "i"}
        /\ UNCHANGED <<beam, io, vtime, htime, at, cycle, ticks, edges, owed, afterDma>>
    BY <1>0, <1>1 DEF irq, vars, core, history, TypeOK
  <2>2. TypeOK' /\ PendingFlagged'
    BY <1>0, <2>1 DEF TypeOK, PendingFlagged
  <2>3. Quiet
    BY <2>1 DEF Quiet, Guarded, PollComes
  <2> QED BY <2>2, <2>3, QuietKeeps
<1>2. CASE power
  \* It leaves an initial state.
  <2>1. Init'
    BY <1>2 DEF power, Init, atPower
  <2>2. Init' => IInv'
    BY InitIInv, PTL
  <2> QED BY <2>1, <2>2
<1> QED BY <1>1, <1>2

\* Every step keeps the invariant.
LEMMA NextIInv == IInv /\ [Next]_vars => IInv'
BY NextCases, TickKeeps, ReadKeeps, WriteKeeps, CoreKeeps, LastCycleKeeps, OutsideKeeps
   DEF TestsInterrupts

-----------------------------------------------------------------------------
(* The theorems. *)

\* The invariant, with the shape of the registers of /NMI, holds in every state:
\* nmiPoll, lastCycle, the registers and interrupt() never disagree about them.
THEOREM Inductive == Spec => []IInv
BY InitIInv, NextIInv, PTL DEF Spec

\* Every field of the interrupt unit keeps its type.
THEOREM TypeCorrect == Spec => []TypeOK
BY Inductive, PTL DEF IInv

\* main() never drops interruptPending while an interrupt is pending.
THEOREM NothingForgotten == Spec => []PendingFlagged
BY Inductive, PTL DEF IInv

\* $4200 with both IRQ enables clear rids the program of a raised IRQ.
THEOREM DisabledIsSilent == Spec => []DisabledIrqSilent
BY Inductive, PTL DEF IInv

\* An enabled edge of /NMI is not lost between nmiPoll, $4200, $4210 and lastCycle.
THEOREM NmiKept == Spec => []NmiNotLost
BY Inductive, PTL DEF IInv

\* One edge of /NMI is not answered by two NMIs.
THEOREM NmiOnce == Spec => NmiNeverDoubled
<1> DEFINE Body1 == TestsInterrupts /\ nmiTest => edges > 0
<1>1. IInv /\ [Next]_vars => [Body1]_vars
  <2>1. IInv /\ nmiTest => edges > 0
    BY CycleAssumption DEF IInv, TypeOK, EdgeShape, nmiTest
  <2> QED BY <2>1
<1>2. NmiNeverDoubled <=> [][Body1]_vars
  BY DEF NmiNeverDoubled
<1> HIDE DEF Body1
<1> QED BY <1>1, <1>2, Inductive, PTL DEF Spec

=============================================================================
