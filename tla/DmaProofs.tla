----------------------------- MODULE DmaProofs -----------------------------
(***************************************************************************)
(* Proofs about DMA: its types, that no enabled channel is forgotten, and   *)
(* that no request of HDMA is lost to a DMA.  The last has the invariant    *)
(* TimeInv: todo is a sequence of calls that may follow each other, and     *)
(* what waits or is under way ends before the beam's next request.          *)
(***************************************************************************)
EXTENDS Dma, WellFoundedInduction, TLAPS

IInv == TypeOK /\ NoneForgotten

-----------------------------------------------------------------------------
(* Helpers. *)

LEMMA ModType == ASSUME NEW a \in Nat, NEW b \in Nat \ {0} PROVE a % b \in 0..(b - 1)
OBVIOUS

LEMMA CallTypes ==
  /\ \A k \in Plains : Plain(k) \in Calls
  /\ \A k \in PerChannel, c \in Channel : Of(k, c) \in Calls
  /\ \A k \in PerChannel : Each(k) \in Seq(Calls)
  /\ \A n \in Nat : Bytes(n) \in Seq(Calls)
<1>1. \A k \in Plains : Plain(k) \in Calls
  BY DEF Plain, Calls
<1>2. \A k \in PerChannel, c \in Channel : Of(k, c) \in Calls
  BY DEF Of, Calls
<1>3. ASSUME NEW k \in PerChannel PROVE Each(k) \in Seq(Calls)
  <2>1. \A i \in 1..NC : i - 1 \in Channel
    BY DmaAssumption DEF Channel
  <2>2. \A i \in 1..NC : Of(k, i - 1) \in Calls
    BY <1>2, <2>1
  <2> QED BY <2>2, DmaAssumption DEF Each
<1>4. ASSUME NEW n \in Nat PROVE Bytes(n) \in Seq(Calls)
  <2>1. Plain("byte") \in Calls
    BY <1>1 DEF Plains
  <2> QED BY <2>1 DEF Bytes
<1> QED BY <1>1, <1>2, <1>3, <1>4

\* What a call adds to todo comes before what was left of it.
LEMMA ConcatComes ==
  ASSUME NEW s \in Seq(Calls), NEW t \in Seq(Calls), NEW c, Comes(t, c) \/ Comes(s, c)
  PROVE  Comes(s \o t, c)
<1>1. CASE Comes(s, c)
  <2>1. PICK i \in DOMAIN s : \/ s[i].op = "dmaRun"
                              \/ s[i].op \in {"start", "loop", "test"} /\ s[i].c = c
    BY <1>1 DEF Comes
  <2>2. i \in DOMAIN (s \o t) /\ (s \o t)[i] = s[i]
    OBVIOUS
  <2> QED BY <2>1, <2>2 DEF Comes
<1>2. CASE Comes(t, c)
  <2>1. PICK i \in DOMAIN t : \/ t[i].op = "dmaRun"
                              \/ t[i].op \in {"start", "loop", "test"} /\ t[i].c = c
    BY <1>2 DEF Comes
  <2>2. i + Len(s) \in DOMAIN (s \o t) /\ (s \o t)[i + Len(s)] = t[i]
    OBVIOUS
  <2> QED BY <2>1, <2>2 DEF Comes
<1> QED BY <1>1, <1>2

\* The head of todo is the one call that an action may take away.
LEMMA TailComes ==
  ASSUME TypeOK, todo # <<>>, NEW c, Comes(todo, c),
         ~(Head(todo).op = "dmaRun"),
         ~(Head(todo).op \in {"start", "loop", "test"} /\ Head(todo).c = c)
  PROVE  Comes(Tail(todo), c)
<1>1. PICK i \in DOMAIN todo : \/ todo[i].op = "dmaRun"
                               \/ todo[i].op \in {"start", "loop", "test"} /\ todo[i].c = c
  BY DEF Comes
<1>2. todo \in Seq(Calls)
  BY DEF TypeOK
<1>3. i # 1
  BY <1>1, <1>2
<1>4. i - 1 \in DOMAIN Tail(todo) /\ Tail(todo)[i - 1] = todo[i]
  BY <1>2, <1>3
<1> QED BY <1>1, <1>4 DEF Comes

LEMMA StepType ==
  ASSUME TypeOK, NEW n \in Nat, step(n)
  PROVE  /\ v' \in 0..(VPeriod - 1) /\ h' \in 0..(HPeriod - 1) /\ cpu' \in 0..3
         /\ hdmaSetupPosition' \in SetupBase..(SetupBase + 3)
         /\ hdmaSetupTriggered' \in BOOLEAN /\ hdmaTriggered' \in BOOLEAN
         /\ hdmaPending' \in BOOLEAN /\ hdmaMode' \in {"setup", "run"}
<1>1. h \in Nat /\ v \in Nat /\ cpu \in Nat /\ HPeriod - h \in Nat
  BY LineAssumption DEF TypeOK
<1>2. /\ (h + n) % HPeriod \in 0..(HPeriod - 1) /\ (v + 1) % VPeriod \in 0..(VPeriod - 1)
      /\ (cpu + n) % 4 \in 0..3 /\ (cpu + HPeriod - h) % 4 \in 0..3
  <2>1. h + n \in Nat /\ v + 1 \in Nat /\ cpu + n \in Nat /\ cpu + HPeriod - h \in Nat
    BY <1>1
  <2>2. (h + n) % HPeriod \in 0..(HPeriod - 1)
    BY <2>1, ModType, LineAssumption
  <2>3. (v + 1) % VPeriod \in 0..(VPeriod - 1)
    BY <2>1, ModType, LineAssumption
  <2>4. (cpu + n) % 4 \in 0..3 /\ (cpu + HPeriod - h) % 4 \in 0..3
    BY <2>1
  <2> QED BY <2>2, <2>3, <2>4
<1>3. /\ v' \in 0..(VPeriod - 1) /\ h' \in 0..(HPeriod - 1) /\ cpu' \in 0..3
  BY <1>2 DEF step, stepBeam, TypeOK
<1>4. hdmaSetupPosition' \in SetupBase..(SetupBase + 3)
  <2>1. \A x \in 0..3 : SetupBase + x \in SetupBase..(SetupBase + 3)
    BY LineAssumption
  <2> QED BY <1>2, <2>1 DEF step, stepBeam, TypeOK
<1>5. hdmaSetupTriggered' \in BOOLEAN /\ hdmaTriggered' \in BOOLEAN
  BY DEF step, stepBeam
<1>6. hdmaPending' \in BOOLEAN /\ hdmaMode' \in {"setup", "run"}
  BY DEF step, TypeOK
<1> QED BY <1>3, <1>4, <1>5, <1>6

BeamType ==
  /\ v \in 0..(VPeriod - 1) /\ h \in 0..(HPeriod - 1) /\ cpu \in 0..3
  /\ hdmaSetupPosition \in SetupBase..(SetupBase + 3)
  /\ hdmaSetupTriggered \in BOOLEAN /\ hdmaTriggered \in BOOLEAN
  /\ hdmaPending \in BOOLEAN /\ hdmaMode \in {"setup", "run"}
TablesType == hdmaCompleted \subseteq Channel /\ hdmaDoTransfer \subseteq Channel
StatusType == /\ dmaActive \in BOOLEAN /\ dmaPending \in BOOLEAN
              /\ clockCount \in Bus /\ write \in {"none", "420b", "420c"}
EnableType == dmaEnable \subseteq Channel /\ hdmaEnable \subseteq Channel

LEMMA TypeParts ==
  TypeOK <=> /\ BeamType /\ TablesType /\ StatusType /\ EnableType
             /\ dma \in 0..(Lap - 1) /\ todo \in Seq(Calls)
BY DEF TypeOK, BeamType, TablesType, StatusType, EnableType

LEMMA TypeJoin ==
  ASSUME BeamType', TablesType', StatusType', EnableType',
         dma' \in 0..(Lap - 1), todo' \in Seq(Calls)
  PROVE  TypeOK'
BY DEF TypeOK, BeamType, TablesType, StatusType, EnableType

LEMMA ThenType ==
  ASSUME TypeOK, todo # <<>>, NEW s \in Seq(Calls), Then(s) PROVE todo' \in Seq(Calls)
BY DEF TypeOK, Then

\* A step of DMA time keeps the types of what time changes.
LEMMA DmaStepType ==
  ASSUME TypeOK, NEW n \in Nat, dmaStep(n)
  PROVE  BeamType' /\ dma' \in 0..(Lap - 1)
<1>1. BeamType'
  BY StepType DEF dmaStep, BeamType
<1>2. dma + n \in Nat /\ Lap \in Nat \ {0}
  BY DmaAssumption DEF TypeOK
<1> QED BY <1>1, <1>2, ModType DEF dmaStep

LEMMA StepTablesType == ASSUME TypeOK, stepTables PROVE TablesType'
BY DEF stepTables, Reset, TypeOK, TablesType

LEMMA StatusKept == ASSUME TypeOK, SameStatus PROVE StatusType'
BY DEF SameStatus, StatusType, TypeOK, cycle

LEMMA EnablesKept == ASSUME TypeOK, SameEnables PROVE EnableType'
BY DEF SameEnables, EnableType, TypeOK

LEMMA NoTimeType ==
  ASSUME TypeOK, NoTime PROVE BeamType' /\ TablesType' /\ dma' \in 0..(Lap - 1)
<1>1. BeamType /\ TablesType /\ dma \in 0..(Lap - 1)
  BY TypeParts
<1> QED BY <1>1 DEF NoTime, BeamType, TablesType, beam, tables

LEMMA SkipType == ASSUME TypeOK, todo # <<>>, Skip PROVE TypeOK'
<1>1. todo' \in Seq(Calls)
  <2>1. <<>> \in Seq(Calls)
    OBVIOUS
  <2> QED BY <2>1, ThenType DEF Skip
<1>2. BeamType' /\ TablesType' /\ dma' \in 0..(Lap - 1) /\ StatusType' /\ EnableType'
  BY NoTimeType, StatusKept, EnablesKept DEF Skip
<1> QED BY <1>1, <1>2, TypeJoin

\* hdmaReload() of a channel.
LEMMA ReloadType ==
  ASSUME TypeOK, todo # <<>>, NEW c \in Channel, NEW again \in BOOLEAN, Reload(c, again)
  PROVE  /\ BeamType' /\ dma' \in 0..(Lap - 1) /\ StatusType' /\ TablesType'
         /\ \E n \in Nat : Then(Bytes(n))
<1>1. BeamType' /\ dma' \in 0..(Lap - 1) /\ StatusType'
  BY DmaStepType, StatusKept DEF Reload
<1>2. PICK ends \in BOOLEAN :
        /\ hdmaCompleted' = (Reset(hdmaCompleted) \ {c}) \cup (IF again /\ ends THEN {c} ELSE {})
        /\ \E transfers \in IF again THEN {~ends} ELSE BOOLEAN :
             hdmaDoTransfer' = (Reset(hdmaDoTransfer) \ {c}) \cup (IF transfers THEN {c} ELSE {})
        /\ Then(Bytes(IF ~again \/ c \notin Indirect THEN 0
                      ELSE IF ends /\ hdmaFinished(c, hdmaCompleted') THEN 1 ELSE 2))
  BY DEF Reload
<1>3. hdmaCompleted \subseteq Channel /\ hdmaDoTransfer \subseteq Channel
  BY DEF TypeOK
<1>4. hdmaCompleted' \subseteq Channel
  BY <1>2, <1>3 DEF Reset
<1>5. hdmaDoTransfer' \subseteq Channel
  BY <1>2, <1>3 DEF Reset
<1>6. \E n \in Nat : Then(Bytes(n))
  BY <1>2
<1> QED BY <1>1, <1>4, <1>5, <1>6 DEF TablesType

-----------------------------------------------------------------------------
(* Every action keeps the types. *)

LEMMA NextCases ==
  ASSUME Next
  PROVE  \/ edge \/ edgeDma \/ edgeEnd \/ sync \/ align \/ hdmaEnd
         \/ hdma \/ byte \/ hdmaSetup \/ hdmaTransfer \/ hdmaAdvance
         \/ dmaRun \/ start \/ loop \/ test \/ BusCycle \/ Cycle \/ writeCPU
BY DEF Next, Edge, Hdma

LEMMA InitIInv == Init => IInv
<1> SUFFICES ASSUME Init PROVE IInv
  OBVIOUS
<1>1. <<>> \in Seq(Calls) /\ 0 \in 0..(Lap - 1) /\ 0 \in 0..(VPeriod - 1) /\ 0 \in 0..(HPeriod - 1)
  BY DmaAssumption, LineAssumption
<1>2. SetupBase \in SetupBase..(SetupBase + 3)
  BY LineAssumption
<1>3. TypeOK
  <2>1. BeamType
    <3>1. /\ v \in 0..(VPeriod - 1) /\ h \in 0..(HPeriod - 1) /\ cpu \in 0..3
          /\ hdmaSetupPosition \in SetupBase..(SetupBase + 3)
      BY <1>1, <1>2 DEF Init
    <3>2. /\ hdmaSetupTriggered \in BOOLEAN /\ hdmaTriggered \in BOOLEAN
          /\ hdmaPending \in BOOLEAN /\ hdmaMode \in {"setup", "run"}
      BY DEF Init
    <3> QED BY <3>1, <3>2 DEF BeamType
  <2>2. TablesType /\ StatusType /\ EnableType
    BY DEF Init, TablesType, StatusType, EnableType
  <2> QED BY <1>1, <2>1, <2>2, TypeParts DEF Init
<1>4. NoneForgotten
  BY DEF Init, NoneForgotten
<1> QED BY <1>3, <1>4 DEF IInv

\* The parts of dmaEdge().
LEMMA EdgeType ==
  ASSUME TypeOK, edge \/ edgeDma \/ edgeEnd \/ sync \/ align \/ hdmaEnd PROVE TypeOK'
<1>0. /\ \A k \in Plains : <<Plain(k)>> \in Seq(Calls)
      /\ \A s, t \in Seq(Calls) : s \o t \in Seq(Calls)
      /\ <<>> \in Seq(Calls)
  BY CallTypes
<1>1. CASE edge
  <2>1. /\ <<Plain("sync")>> \in Seq(Calls) /\ <<Plain("hdma"), Plain("hdmaEnd")>> \in Seq(Calls)
        /\ <<Plain("edgeDma"), Plain("edgeEnd")>> \in Seq(Calls)
        /\ <<Plain("edgeDma")>> \in Seq(Calls) /\ <<Plain("edgeEnd")>> \in Seq(Calls)
    BY CallTypes DEF Plains
  <2>2. todo # <<>> /\ \E s \in Seq(Calls) : Then(s)
    BY <1>0, <1>1, <2>1 DEF edge, Doing
  <2>3. todo' \in Seq(Calls)
    BY <2>2, ThenType
  <2>4. BeamType' /\ TablesType' /\ dma' \in 0..(Lap - 1)
    BY <1>1 DEF edge, TypeOK, BeamType, TablesType, tables
  <2>5. StatusType' /\ EnableType'
    BY <1>1, StatusKept, EnablesKept DEF edge
  <2> QED BY <2>3, <2>4, <2>5, TypeJoin
<1>2. CASE edgeDma
  <2>1. <<Plain("sync"), Plain("dmaRun"), Plain("align")>> \in Seq(Calls)
    BY CallTypes DEF Plains
  <2>2. todo # <<>> /\ \E s \in Seq(Calls) : Then(s)
    BY <1>0, <1>2, <2>1 DEF edgeDma, Doing
  <2>3. todo' \in Seq(Calls)
    BY <2>2, ThenType
  <2>4. StatusType'
    BY <1>2 DEF edgeDma, TypeOK, StatusType, cycle
  <2> QED BY <1>2, <2>3, <2>4, NoTimeType, EnablesKept, TypeJoin DEF edgeDma
<1>3. CASE edgeEnd
  <2>1. todo' \in Seq(Calls)
    BY <1>0, <1>3, ThenType DEF edgeEnd, Doing
  <2>2. StatusType'
    BY <1>3 DEF edgeEnd, TypeOK, StatusType, cycle
  <2> QED BY <1>3, <2>1, <2>2, NoTimeType, EnablesKept, TypeJoin DEF edgeEnd
<1>4. CASE sync
  <2>1. todo' \in Seq(Calls)
    BY <1>0, <1>4, ThenType DEF sync, Doing
  <2>2. 4 - cpu \in Nat
    BY DEF TypeOK
  <2>3. BeamType'
    BY <1>4, <2>2, StepType DEF sync, BeamType
  <2>4. dma' \in 0..(Lap - 1)
    <3>1. dma' = (4 - cpu) % Lap /\ Lap \in Nat \ {0}
      BY <1>4, DmaAssumption DEF sync
    <3> QED BY <2>2, <3>1, ModType
  <2> QED BY <1>4, <2>1, <2>3, <2>4, StepTablesType, StatusKept, EnablesKept, TypeJoin DEF sync
<1>5. CASE align
  <2>1. todo' \in Seq(Calls)
    BY <1>0, <1>5, ThenType DEF align, Doing
  <2>2. dma \in Nat /\ clockCount \in Nat \ {0}
    BY DmaAssumption DEF TypeOK
  <2>3. dma % clockCount \in 0..(clockCount - 1)
    BY <2>2, ModType
  <2>4. clockCount - (dma % clockCount) \in Nat
    BY <2>2, <2>3
  <2>5. BeamType'
    BY <1>5, <2>4, StepType DEF align, BeamType
  <2>6. StatusType' /\ dma' \in 0..(Lap - 1)
    BY <1>5 DEF align, TypeOK, StatusType, cycle
  <2> QED BY <1>5, <2>1, <2>5, <2>6, StepTablesType, EnablesKept, TypeJoin DEF align
<1>6. CASE hdmaEnd
  BY <1>6, SkipType DEF hdmaEnd, Doing
<1> QED BY <1>1, <1>2, <1>3, <1>4, <1>5, <1>6

\* hdmaSetup(), hdmaRun() and the channels they call.
LEMMA HdmaType ==
  ASSUME TypeOK, hdma \/ byte \/ hdmaSetup \/ hdmaTransfer \/ hdmaAdvance PROVE TypeOK'
<1>0. /\ \A s, t \in Seq(Calls) : s \o t \in Seq(Calls)
      /\ <<>> \in Seq(Calls)
      /\ dmaEnable \subseteq Channel /\ hdmaEnable \subseteq Channel
  BY DEF TypeOK
<1>00. ASSUME todo # <<>>, Head(todo).op \in PerChannel PROVE it \in Channel
  BY <1>00 DEF it, TypeOK, Calls, PerChannel, Plains
<1>1. CASE byte
  <2>1. todo' \in Seq(Calls)
    BY <1>0, <1>1, ThenType DEF byte, Doing
  <2> QED BY <1>1, <2>1, DmaStepType, StepTablesType, StatusKept, EnablesKept, TypeJoin DEF byte
<1>2. CASE hdma
  <2>1. /\ Each("setup") \in Seq(Calls) /\ Each("transfer") \in Seq(Calls)
        /\ Each("advance") \in Seq(Calls)
    BY CallTypes DEF PerChannel
  <2>2. todo # <<>> /\ \E s \in Seq(Calls) : Then(s)
    BY <1>0, <1>2, <2>1 DEF hdma, Doing
  <2>3. todo' \in Seq(Calls)
    BY <2>2, ThenType
  <2> QED BY <1>2, <2>3, DmaStepType, StepTablesType, StatusKept, EnablesKept, TypeJoin DEF hdma
<1>3. CASE hdmaSetup
  <2>1. todo # <<>> /\ it \in Channel
    BY <1>3, <1>00 DEF hdmaSetup, Doing, PerChannel
  <2>2. EnableType'
    BY <1>0, <1>3 DEF hdmaSetup, EnableType
  <2>3. CASE it \in hdmaEnable
    <3>1. Reload(it, TRUE)
      BY <1>3, <2>3 DEF hdmaSetup
    <3>2. /\ BeamType' /\ dma' \in 0..(Lap - 1) /\ StatusType' /\ TablesType'
          /\ \E n \in Nat : Then(Bytes(n))
      BY <2>1, <3>1, ReloadType
    <3>3. todo' \in Seq(Calls)
      BY <2>1, <3>2, CallTypes, ThenType
    <3> QED BY <2>2, <3>2, <3>3, TypeJoin
  <2>4. CASE it \notin hdmaEnable
    <3>1. todo' \in Seq(Calls)
      BY <1>0, <1>3, <2>1, <2>4, ThenType DEF hdmaSetup
    <3>2. BeamType' /\ dma' \in 0..(Lap - 1) /\ TablesType'
      BY <1>3, <2>1, <2>4 DEF hdmaSetup, TypeOK, BeamType, TablesType, beam
    <3>3. StatusType'
      BY <1>3, <2>4, StatusKept DEF hdmaSetup
    <3> QED BY <2>2, <3>1, <3>2, <3>3, TypeJoin
  <2> QED BY <2>3, <2>4
<1>4. CASE hdmaTransfer
  <2>1. PICK n \in Nat : Then(Bytes(n))
    BY <1>4, DmaAssumption DEF hdmaTransfer
  <2>2. todo' \in Seq(Calls)
    BY <1>4, <2>1, CallTypes, ThenType DEF hdmaTransfer, Doing
  <2>3. EnableType'
    BY <1>0, <1>4 DEF hdmaTransfer, EnableType
  <2> QED BY <1>4, <2>2, <2>3, NoTimeType, StatusKept, TypeJoin DEF hdmaTransfer
<1>5. CASE hdmaAdvance
  <2>1. todo # <<>> /\ it \in Channel
    BY <1>5, <1>00 DEF hdmaAdvance, Doing, PerChannel
  <2>2. CASE it \in hdmaActive
    <3>1. PICK again \in BOOLEAN : Reload(it, again) /\ SameEnables
      BY <1>5, <2>2 DEF hdmaAdvance
    <3>2. /\ BeamType' /\ dma' \in 0..(Lap - 1) /\ StatusType' /\ TablesType'
          /\ \E n \in Nat : Then(Bytes(n))
      BY <2>1, <3>1, ReloadType
    <3>3. todo' \in Seq(Calls)
      BY <2>1, <3>2, CallTypes, ThenType
    <3> QED BY <3>1, <3>2, <3>3, EnablesKept, TypeJoin
  <2>3. CASE it \notin hdmaActive
    BY <1>5, <2>1, <2>3, SkipType DEF hdmaAdvance
  <2> QED BY <2>2, <2>3
<1> QED BY <1>1, <1>2, <1>3, <1>4, <1>5

\* dmaRun(), Channel::dmaRun() and the CPU's bus cycles.
LEMMA RunType ==
  ASSUME TypeOK, dmaRun \/ start \/ loop \/ test \/ BusCycle \/ Cycle \/ writeCPU PROVE TypeOK'
<1>0. /\ \A s, t \in Seq(Calls) : s \o t \in Seq(Calls)
      /\ <<>> \in Seq(Calls)
      /\ dmaEnable \subseteq Channel /\ hdmaEnable \subseteq Channel
  BY DEF TypeOK
<1>00. ASSUME todo # <<>>, Head(todo).op \in PerChannel PROVE it \in Channel
  BY <1>00 DEF it, TypeOK, Calls, PerChannel, Plains
<1>1. CASE dmaRun
  <2>1. <<Plain("edge")>> \in Seq(Calls) /\ Each("start") \in Seq(Calls)
    BY CallTypes DEF Plains, PerChannel
  <2>2. todo # <<>> /\ <<Plain("edge")>> \o Each("start") \in Seq(Calls)
    BY <1>0, <1>1, <2>1 DEF dmaRun, Doing
  <2>3. todo' \in Seq(Calls)
    BY <1>1, <2>2, ThenType DEF dmaRun
  <2> QED BY <1>1, <2>3, DmaStepType, StepTablesType, StatusKept, EnablesKept, TypeJoin
          DEF dmaRun
<1>2. CASE start
  <2>1. todo # <<>> /\ it \in Channel
    BY <1>2, <1>00 DEF start, Doing, PerChannel
  <2>2. CASE it \in dmaEnable
    <3>1. <<Plain("edge"), Of("loop", it)>> \in Seq(Calls)
      BY <2>1, CallTypes DEF Plains, PerChannel
    <3>2. todo' \in Seq(Calls)
      BY <1>2, <2>1, <2>2, <3>1, ThenType DEF start
    <3> QED BY <1>2, <2>2, <3>2, DmaStepType, StepTablesType, StatusKept, EnablesKept, TypeJoin
            DEF start
  <2>3. CASE it \notin dmaEnable
    BY <1>2, <2>1, <2>3, SkipType DEF start
  <2> QED BY <2>2, <2>3
<1>3. CASE loop
  <2>1. todo # <<>> /\ it \in Channel
    BY <1>3, <1>00 DEF loop, Doing, PerChannel
  <2>2. <<Plain("edge"), Of("test", it)>> \in Seq(Calls)
    BY <2>1, CallTypes DEF Plains, PerChannel
  <2>3. todo' \in Seq(Calls)
    BY <1>3, <2>1, <2>2, ThenType DEF loop
  <2> QED BY <1>3, <2>3, DmaStepType, StepTablesType, StatusKept, EnablesKept, TypeJoin DEF loop
<1>4. CASE test
  <2>1. todo # <<>> /\ it \in Channel
    BY <1>4, <1>00 DEF test, Doing, PerChannel
  <2>2. <<Of("loop", it)>> \in Seq(Calls)
    BY <2>1, CallTypes DEF PerChannel
  <2>3. todo' \in Seq(Calls)
    BY <1>0, <1>4, <2>1, <2>2, ThenType DEF test
  <2>4. EnableType'
    BY <1>0, <1>4 DEF test, EnableType
  <2> QED BY <1>4, <2>3, <2>4, NoTimeType, StatusKept, TypeJoin DEF test
<1>5. CASE BusCycle
  <2>1. <<Plain("edge"), Plain("cycle"), Plain("access")>> \in Seq(Calls)
    BY CallTypes DEF Plains
  <2>2. todo' \in Seq(Calls)
    BY <1>5, <2>1 DEF BusCycle
  <2>3. StatusType'
    BY <1>5 DEF BusCycle, TypeOK, StatusType
  <2> QED BY <1>5, <2>2, <2>3, NoTimeType, EnablesKept, TypeJoin DEF BusCycle
<1>6. CASE Cycle
  <2>1. todo' \in Seq(Calls)
    BY <1>0, <1>6, ThenType DEF Cycle, Doing
  <2>2. clockCount \in Nat
    BY DmaAssumption DEF TypeOK
  <2>3. BeamType'
    BY <1>6, <2>2, StepType DEF Cycle, BeamType
  <2>4. dma' \in 0..(Lap - 1)
    BY <1>6 DEF Cycle, TypeOK
  <2> QED BY <1>6, <2>1, <2>3, <2>4, StepTablesType, StatusKept, EnablesKept, TypeJoin DEF Cycle
<1>7. CASE writeCPU
  <2>1. todo' \in Seq(Calls)
    BY <1>0, <1>7, ThenType DEF writeCPU, Doing
  <2>2. EnableType'
    BY <1>0, <1>7 DEF writeCPU, EnableType
  <2>3. StatusType'
    BY <1>7 DEF writeCPU, TypeOK, StatusType, cycle
  <2> QED BY <1>7, <2>1, <2>2, <2>3, NoTimeType, TypeJoin DEF writeCPU
<1> QED BY <1>1, <1>2, <1>3, <1>4, <1>5, <1>6, <1>7

LEMMA NextType == ASSUME TypeOK, [Next]_vars PROVE TypeOK'
<1>1. CASE Next
  BY <1>1, NextCases, EdgeType, HdmaType, RunType
<1>2. CASE UNCHANGED vars
  BY <1>2 DEF vars, TypeOK, beam, tables, cycle
<1> QED BY <1>1, <1>2

-----------------------------------------------------------------------------
(* No channel is forgotten. *)

\* A call whose head is no transfer of channel c leaves that transfer to come.
LEMMA ThenComes ==
  ASSUME TypeOK, todo # <<>>, NEW s \in Seq(Calls), Then(s), NEW c,
         \/ Comes(s, c)
         \/ /\ Comes(todo, c)
            /\ Head(todo).op # "dmaRun"
            /\ ~(Head(todo).op \in {"start", "loop", "test"} /\ it = c)
  PROVE  Comes(todo, c)'
<1>1. Tail(todo) \in Seq(Calls)
  BY DEF TypeOK
<1>2. Comes(Tail(todo), c) \/ Comes(s, c)
  BY TailComes DEF it
<1>3. todo' = s \o Tail(todo)
  BY DEF Then
<1>4. Comes(s \o Tail(todo), c)
  BY <1>1, <1>2, ConcatComes
<1> QED BY <1>3, <1>4 DEF Comes

\* The actions that move on to the next call, and enable no channel.
LEMMA QuietKeeps ==
  ASSUME TypeOK, NoneForgotten, todo # <<>>, NEW s \in Seq(Calls), Then(s),
         Head(todo).op \notin {"dmaRun", "start", "loop", "test"},
         dmaEnable' \subseteq dmaEnable, dmaPending' = dmaPending
  PROVE  NoneForgotten'
<1> SUFFICES ASSUME NEW c \in dmaEnable', ~dmaPending' PROVE Comes(todo, c)'
  BY DEF NoneForgotten
<1>1. Comes(todo, c)
  BY DEF NoneForgotten
<1> QED BY <1>1, ThenComes

LEMMA EdgeKeeps ==
  ASSUME TypeOK, NoneForgotten, edge \/ edgeEnd \/ sync \/ align \/ hdmaEnd PROVE NoneForgotten'
<1>0. /\ \A k \in Plains : <<Plain(k)>> \in Seq(Calls)
      /\ \A s, t \in Seq(Calls) : s \o t \in Seq(Calls)
      /\ <<>> \in Seq(Calls)
  BY CallTypes
<1>1. todo # <<>> /\ Head(todo).op \in {"edge", "edgeEnd", "sync", "align", "hdmaEnd"}
  BY DEF edge, edgeEnd, sync, align, hdmaEnd, Doing
<1>2. dmaEnable' = dmaEnable /\ dmaPending' = dmaPending
  BY DEF edge, edgeEnd, sync, align, hdmaEnd, Skip, SameEnables, SameStatus
<1>3. \E s \in Seq(Calls) : Then(s)
  <2>1. CASE edge
    <3>1. /\ <<Plain("sync")>> \in Seq(Calls) /\ <<Plain("hdma"), Plain("hdmaEnd")>> \in Seq(Calls)
          /\ <<Plain("edgeDma"), Plain("edgeEnd")>> \in Seq(Calls)
          /\ <<Plain("edgeDma")>> \in Seq(Calls) /\ <<Plain("edgeEnd")>> \in Seq(Calls)
      BY CallTypes DEF Plains
    <3> QED BY <1>0, <2>1, <3>1 DEF edge
  <2>2. CASE edgeEnd \/ sync \/ align \/ hdmaEnd
    BY <1>0, <2>2 DEF edgeEnd, sync, align, hdmaEnd, Skip
  <2> QED BY <2>1, <2>2
<1> QED BY <1>1, <1>2, <1>3, QuietKeeps

LEMMA HdmaKeeps ==
  ASSUME TypeOK, NoneForgotten, hdma \/ byte \/ hdmaSetup \/ hdmaTransfer \/ hdmaAdvance
  PROVE  NoneForgotten'
<1>0. /\ \A s, t \in Seq(Calls) : s \o t \in Seq(Calls)
      /\ <<>> \in Seq(Calls) /\ \A n \in Nat : Bytes(n) \in Seq(Calls)
      /\ \A k \in PerChannel : Each(k) \in Seq(Calls)
  BY CallTypes
<1>1. todo # <<>> /\ Head(todo).op \in {"hdma", "byte", "setup", "transfer", "advance"}
  BY DEF hdma, byte, hdmaSetup, hdmaTransfer, hdmaAdvance, Doing
<1>2. dmaEnable' \subseteq dmaEnable /\ dmaPending' = dmaPending
  BY DEF hdma, byte, hdmaSetup, hdmaTransfer, hdmaAdvance, Reload, Skip, SameEnables, SameStatus
<1>3. \E s \in Seq(Calls) : Then(s)
  <2>1. CASE hdma
    <3>1. Each("setup") \in Seq(Calls) /\ Each("transfer") \o Each("advance") \in Seq(Calls)
      BY <1>0 DEF PerChannel
    <3> QED BY <2>1, <3>1 DEF hdma
  <2>2. ASSUME NEW c, NEW again \in BOOLEAN, Reload(c, again) PROVE \E n \in Nat : Then(Bytes(n))
    BY <2>2 DEF Reload
  <2>3. CASE byte
    BY <1>0, <2>3 DEF byte
  <2>4. CASE hdmaSetup
    BY <1>0, <2>2, <2>4 DEF hdmaSetup
  <2>5. CASE hdmaTransfer
    BY <1>0, <2>5, DmaAssumption DEF hdmaTransfer
  <2>6. CASE hdmaAdvance
    BY <1>0, <2>2, <2>6 DEF hdmaAdvance, Skip
  <2> QED BY <2>1, <2>3, <2>4, <2>5, <2>6
<1> QED BY <1>1, <1>2, <1>3, QuietKeeps

\* Channel::dmaRun() of every channel comes after CPU::dmaRun().
LEMMA StartComes == ASSUME NEW c \in Channel PROVE Comes(Each("start"), c)
<1>1. c + 1 \in 1..NC /\ (c + 1) - 1 = c
  BY DmaAssumption DEF Channel
<1>2. DOMAIN Each("start") = 1..NC /\ Each("start")[c + 1] = Of("start", c)
  BY <1>1 DEF Each
<1>3. Of("start", c).op = "start" /\ Of("start", c).c = c
  BY DEF Of
<1> QED BY <1>1, <1>2, <1>3 DEF Comes

\* The loop of Channel::dmaRun() goes on with another of its parts.
LEMMA PartComes ==
  ASSUME NEW k \in {"loop", "test"}, NEW c \in Channel
  PROVE  Comes(<<Plain("edge"), Of(k, c)>>, c) /\ Comes(<<Of(k, c)>>, c)
<1>1. Of(k, c).op = k /\ Of(k, c).c = c
  BY DEF Of
<1>2. Comes(<<Plain("edge"), Of(k, c)>>, c)
  <2>1. 2 \in DOMAIN <<Plain("edge"), Of(k, c)>> /\ <<Plain("edge"), Of(k, c)>>[2] = Of(k, c)
    OBVIOUS
  <2> QED BY <1>1, <2>1 DEF Comes
<1>3. Comes(<<Of(k, c)>>, c)
  <2>1. 1 \in DOMAIN <<Of(k, c)>> /\ <<Of(k, c)>>[1] = Of(k, c)
    OBVIOUS
  <2> QED BY <1>1, <2>1 DEF Comes
<1> QED BY <1>2, <1>3

\* A part of the loop of Channel::dmaRun() may disable its own channel only.
LEMMA PartKeeps ==
  ASSUME TypeOK, NoneForgotten, todo # <<>>, Head(todo).op \in {"start", "loop", "test"},
         NEW s \in Seq(Calls), Then(s), dmaPending' = dmaPending,
         dmaEnable' \subseteq dmaEnable, it \in dmaEnable' => Comes(s, it)
  PROVE  NoneForgotten'
<1> SUFFICES ASSUME NEW c \in dmaEnable', ~dmaPending' PROVE Comes(todo, c)'
  BY DEF NoneForgotten
<1>1. Comes(todo, c)
  BY DEF NoneForgotten
<1>2. CASE it = c
  BY <1>2, ThenComes
<1>3. CASE it # c
  BY <1>1, <1>3, ThenComes
<1> QED BY <1>2, <1>3

\* A request of $420b becomes a run of the channels it enabled.
LEMMA EdgeDmaKeeps == ASSUME TypeOK, NoneForgotten, edgeDma PROVE NoneForgotten'
<1>1. todo # <<>> /\ Head(todo).op = "edgeDma" /\ dmaEnable' = dmaEnable
  BY DEF edgeDma, Doing, SameEnables
<1> SUFFICES ASSUME NEW c \in dmaEnable PROVE Comes(todo, c)'
  BY <1>1 DEF NoneForgotten
<1>2. CASE dmaPending
  <2> DEFINE s == <<Plain("sync"), Plain("dmaRun"), Plain("align")>>
  <2>1. s \in Seq(Calls) /\ Then(s)
    BY <1>2, CallTypes DEF Plains, edgeDma
  <2>2. 2 \in DOMAIN s /\ s[2].op = "dmaRun"
    BY DEF Plain
  <2>3. Comes(s, c)
    BY <2>2 DEF Comes
  <2> HIDE DEF s
  <2> QED BY <1>1, <2>1, <2>3, ThenComes
<1>3. CASE ~dmaPending
  <2>1. <<>> \in Seq(Calls) /\ Then(<<>>) /\ Comes(todo, c)
    BY <1>3 DEF edgeDma, NoneForgotten
  <2> QED BY <1>1, <2>1, ThenComes
<1> QED BY <1>2, <1>3

\* dmaRun() and Channel::dmaRun().
LEMMA RunKeeps ==
  ASSUME TypeOK, NoneForgotten, dmaRun \/ start \/ loop \/ test PROVE NoneForgotten'
<1>0. dmaEnable \subseteq Channel /\ <<>> \in Seq(Calls)
  BY DEF TypeOK
<1>00. ASSUME todo # <<>>, Head(todo).op \in PerChannel PROVE it \in Channel
  BY <1>00 DEF it, TypeOK, Calls, PerChannel, Plains
<1>1. CASE dmaRun
  <2>1. <<Plain("edge")>> \in Seq(Calls) /\ Each("start") \in Seq(Calls)
    BY CallTypes DEF Plains, PerChannel
  <2>2. <<Plain("edge")>> \o Each("start") \in Seq(Calls)
    BY <2>1
  <2>3. todo # <<>> /\ dmaEnable' = dmaEnable /\ Then(<<Plain("edge")>> \o Each("start"))
    BY <1>1 DEF dmaRun, Doing, SameEnables
  <2>4. ASSUME NEW c \in dmaEnable PROVE Comes(todo, c)'
    <3>1. Comes(<<Plain("edge")>> \o Each("start"), c)
      BY <1>0, <2>1, ConcatComes, StartComes
    <3> QED BY <2>2, <2>3, <3>1, ThenComes
  <2> QED BY <2>3, <2>4 DEF NoneForgotten
<1>2. CASE start
  <2>1. todo # <<>> /\ Head(todo).op = "start" /\ it \in Channel
    BY <1>2, <1>00 DEF start, Doing, PerChannel
  <2>2. dmaEnable' = dmaEnable /\ dmaPending' = dmaPending
    BY <1>2 DEF start, Skip, SameEnables, SameStatus
  <2>3. CASE it \in dmaEnable
    <3>1. <<Plain("edge"), Of("loop", it)>> \in Seq(Calls)
      BY <2>1, CallTypes DEF Plains, PerChannel
    <3>2. Then(<<Plain("edge"), Of("loop", it)>>)
      BY <1>2, <2>3 DEF start
    <3> QED BY <2>1, <2>2, <3>1, <3>2, PartComes, PartKeeps
  <2>4. CASE it \notin dmaEnable
    <3>1. Then(<<>>)
      BY <1>2, <2>4 DEF start, Skip
    <3> QED BY <1>0, <2>1, <2>2, <2>4, <3>1, PartKeeps
  <2> QED BY <2>3, <2>4
<1>3. CASE loop
  <2>1. todo # <<>> /\ Head(todo).op = "loop" /\ it \in Channel
    BY <1>3, <1>00 DEF loop, Doing, PerChannel
  <2>2. dmaEnable' = dmaEnable /\ dmaPending' = dmaPending /\ Then(<<Plain("edge"), Of("test", it)>>)
    BY <1>3 DEF loop, SameEnables, SameStatus
  <2>3. <<Plain("edge"), Of("test", it)>> \in Seq(Calls)
    BY <2>1, CallTypes DEF Plains, PerChannel
  <2> QED BY <2>1, <2>2, <2>3, PartComes, PartKeeps
<1>4. CASE test
  <2>1. todo # <<>> /\ Head(todo).op = "test" /\ it \in Channel
    BY <1>4, <1>00 DEF test, Doing, PerChannel
  <2>2. dmaPending' = dmaPending
    BY <1>4 DEF test, SameStatus
  <2>3. <<Of("loop", it)>> \in Seq(Calls)
    BY <2>1, CallTypes DEF PerChannel
  <2>4. CASE Then(<<Of("loop", it)>>) /\ dmaEnable' = dmaEnable
    BY <2>1, <2>2, <2>3, <2>4, PartComes, PartKeeps
  <2>5. CASE Then(<<>>) /\ dmaEnable' = dmaEnable \ {it}
    BY <1>0, <2>1, <2>2, <2>5, PartKeeps
  <2> QED BY <1>4, <2>4, <2>5 DEF test
<1> QED BY <1>1, <1>2, <1>3, <1>4

\* The CPU's bus cycles; a write to $420b that enables a channel requests its run.
LEMMA CycleKeeps ==
  ASSUME TypeOK, NoneForgotten, BusCycle \/ Cycle \/ writeCPU PROVE NoneForgotten'
<1>0. <<>> \in Seq(Calls)
  OBVIOUS
<1>1. CASE BusCycle
  <2>1. \A c : ~Comes(todo, c)
    BY <1>1 DEF BusCycle, Comes
  <2> QED BY <1>1, <2>1 DEF BusCycle, SameEnables, NoneForgotten
<1>2. CASE Cycle
  <2>1. todo # <<>> /\ Head(todo).op = "cycle" /\ Then(<<>>)
    BY <1>2 DEF Cycle, Doing
  <2>2. dmaEnable' = dmaEnable /\ dmaPending' = dmaPending
    BY <1>2 DEF Cycle, SameEnables, SameStatus
  <2> QED BY <1>0, <2>1, <2>2, QuietKeeps
<1>3. CASE writeCPU
  <2>1. todo # <<>> /\ Head(todo).op = "access" /\ Then(<<>>)
    BY <1>3 DEF writeCPU, Doing
  <2>2. CASE write = "420b"
    BY <1>3, <2>2 DEF writeCPU, NoneForgotten, TypeOK
  <2>3. CASE write # "420b"
    <3>1. dmaEnable' = dmaEnable /\ dmaPending' = dmaPending
      BY <1>3, <2>3 DEF writeCPU, TypeOK
    <3> QED BY <1>0, <2>1, <3>1, QuietKeeps
  <2> QED BY <2>2, <2>3
<1> QED BY <1>1, <1>2, <1>3

LEMMA NextIInv == IInv /\ [Next]_vars => IInv'
<1> SUFFICES ASSUME IInv, [Next]_vars PROVE IInv'
  OBVIOUS
<1>1. TypeOK /\ NoneForgotten /\ TypeOK'
  BY NextType DEF IInv
<1>2. CASE Next
  <2>1. NoneForgotten'
    BY <1>1, <1>2, NextCases, EdgeKeeps, EdgeDmaKeeps, HdmaKeeps, RunKeeps, CycleKeeps
  <2> QED BY <1>1, <2>1 DEF IInv
<1>3. CASE UNCHANGED vars
  <2>1. NoneForgotten'
    BY <1>1, <1>3 DEF vars, NoneForgotten, Comes
  <2> QED BY <1>1, <2>1 DEF IInv
<1> QED BY <1>2, <1>3

-----------------------------------------------------------------------------
\* The two are inductive together: the types give Tail(todo) its meaning.
THEOREM DmaInductive == Spec => []IInv
BY InitIInv, NextIInv, PTL DEF Spec

\* Every variable keeps its type, for any number of channels and any lengths of
\* lines and bus cycles: dmaEdge() and what it calls leave only calls of the code.
THEOREM DmaTypes == Spec => []TypeOK
<1>1. IInv => TypeOK
  BY DEF IInv
<1> QED BY <1>1, DmaInductive, PTL

\* A channel enabled at $420b is always transferring or has its transfer to come:
\* dmaEdge() drops dmaPending only where Channel::dmaRun() of every channel follows.
THEOREM EnabledComes == Spec => []NoneForgotten
<1>1. IInv => NoneForgotten
  BY DEF IInv
<1> QED BY <1>1, DmaInductive, PTL

-----------------------------------------------------------------------------
(* The beam: how long until it requests the next HDMA. *)

Gap(vv, hh, p) ==
  IF vv = 0 /\ hh < p THEN p - hh
  ELSE IF vv < Vdisp /\ hh < RunAt THEN RunAt - hh
  ELSE IF vv + 1 < Vdisp THEN HPeriod - hh + RunAt
  ELSE HPeriod * (VPeriod - vv) - hh + SetupBase
NextRequest == Gap(v, h, hdmaSetupPosition)

Flags ==
  /\ hdmaSetupTriggered <=> ~(v = 0 /\ h < hdmaSetupPosition)
  /\ hdmaTriggered <=> ~(v < Vdisp /\ h < RunAt)

HdmaTime == IF hdmaMode = "setup" THEN SetupTime ELSE RunTime

LEMMA TimeFacts ==
  /\ NC \in Nat \ {0} /\ Longest \in {1, 2, 4} /\ \A n \in Lengths : n \in Nat /\ n <= Longest
  /\ SetupTime \in Nat /\ RunTime \in Nat /\ HdmaTime \in Nat
<1>1. NC \in Nat \ {0} /\ Lengths \subseteq {1, 2, 4} /\ Lengths # {}
  BY DmaAssumption
<1>2. \E n \in Lengths : \A m \in Lengths : m <= n
  <2>1. CASE 4 \in Lengths
    BY <1>1, <2>1
  <2>2. CASE 4 \notin Lengths /\ 2 \in Lengths
    BY <1>1, <2>2
  <2>3. CASE 4 \notin Lengths /\ 2 \notin Lengths
    <3>1. \A m \in Lengths : m = 1
      <4>1. \A m \in Lengths : m \in {1, 2, 4} /\ m # 4 /\ m # 2
        BY <1>1, <2>3
      <4> QED BY <4>1
    <3>2. 1 \in Lengths /\ \A m \in Lengths : m <= 1
      <4>1. PICK n \in Lengths : TRUE
        BY <1>1
      <4>2. n = 1
        BY <3>1
      <4> QED BY <3>1, <4>1, <4>2
    <3> QED BY <3>2
  <2> QED BY <2>1, <2>2, <2>3
<1>3. Longest \in Lengths /\ \A m \in Lengths : m <= Longest
  BY <1>2 DEF Longest
<1>4. Longest \in {1, 2, 4}
  BY <1>1, <1>3
<1>5. SetupTime \in Nat
  BY <1>1 DEF SetupTime
<1>6. RunTime \in Nat
  BY <1>1, <1>4 DEF RunTime
<1> QED BY <1>1, <1>3, <1>4, <1>5, <1>6 DEF HdmaTime

\* What is left of a field at the beginning of a line.
LEMMA FieldLeft ==
  /\ \A x \in Int : HPeriod * (VPeriod - x) \in Int
  /\ \A x \in Int : HPeriod * (VPeriod - (x + 1)) = HPeriod * (VPeriod - x) - HPeriod
  /\ HPeriod * (VPeriod - (VPeriod - 1)) = HPeriod
<1>1. HPeriod \in Nat /\ VPeriod \in Nat
  BY LineAssumption
<1>2. \A a, b, x \in Int : a * (b - x) \in Int /\ a * (b - (x + 1)) = a * (b - x) - a
  OBVIOUS
<1>3. VPeriod - (VPeriod - 1) = 1
  BY <1>1
<1>4. HPeriod * 1 = HPeriod
  BY <1>1
<1> QED BY <1>1, <1>2, <1>3, <1>4

\* n ticks on one line.
LEMMA OnLine ==
  ASSUME NEW vv \in 0..(VPeriod - 1), NEW hh \in 0..(HPeriod - 1),
         NEW p \in SetupBase..(SetupBase + 3), NEW n \in 1..6, hh + n < HPeriod
  PROVE  /\ n < Gap(vv, hh, p) => Gap(vv, hh + n, p) = Gap(vv, hh, p) - n
         /\ n < Gap(vv, hh, p) => ~(vv = 0 /\ hh < p /\ hh + n >= p)
         /\ n < Gap(vv, hh, p) => ~(vv < Vdisp /\ hh < RunAt /\ hh + n >= RunAt)
         /\ vv = 0 /\ hh < p /\ hh + n >= p =>
              hh + n < RunAt /\ Gap(vv, hh + n, p) > Around + SetupTime - (n - 1)
         /\ vv < Vdisp /\ hh < RunAt /\ hh + n >= RunAt =>
              Gap(vv, hh + n, p) > Around + RunTime - (n - 1)
<1> DEFINE F == HPeriod * (VPeriod - vv)
           G == HPeriod * (VPeriod - Vdisp)
<1>1. /\ F \in Int /\ G \in Int
      /\ vv \in Nat /\ hh \in Nat /\ p \in Nat /\ n \in Nat /\ HPeriod \in Nat /\ VPeriod \in Nat
      /\ SetupBase \in Nat /\ RunAt \in Nat /\ Vdisp \in Nat
  BY LineAssumption, FieldLeft
<1>2. vv + 1 = Vdisp => F = G + HPeriod
  BY <1>1, FieldLeft
<1>3. SetupTime \in Nat /\ RunTime \in Nat /\ Around = 25
  BY TimeFacts DEF Around
<1>4. /\ SetupBase + 3 < RunAt /\ SetupBase > 0 /\ RunAt + 6 <= HPeriod
      /\ RunAt - (SetupBase + 3) > Around + SetupTime
      /\ HPeriod > Around + RunTime
      /\ G + HPeriod - RunAt + SetupBase > Around + RunTime
  BY LineAssumption, TimeAssumption
<1>5. /\ Gap(vv, hh, p) = IF vv = 0 /\ hh < p THEN p - hh
                          ELSE IF vv < Vdisp /\ hh < RunAt THEN RunAt - hh
                          ELSE IF vv + 1 < Vdisp THEN HPeriod - hh + RunAt
                          ELSE F - hh + SetupBase
      /\ Gap(vv, hh + n, p) = IF vv = 0 /\ hh + n < p THEN p - (hh + n)
                              ELSE IF vv < Vdisp /\ hh + n < RunAt THEN RunAt - (hh + n)
                              ELSE IF vv + 1 < Vdisp THEN HPeriod - (hh + n) + RunAt
                              ELSE F - (hh + n) + SetupBase
  BY DEF Gap
<1> HIDE DEF F, G
<1>6. p <= SetupBase + 3 /\ p >= SetupBase
  BY <1>1
<1>7. n < Gap(vv, hh, p) => ~(vv = 0 /\ hh < p /\ hh + n >= p)
  BY <1>1, <1>5
<1>8. n < Gap(vv, hh, p) => ~(vv < Vdisp /\ hh < RunAt /\ hh + n >= RunAt)
  BY <1>1, <1>4, <1>5, <1>6
<1>9. n < Gap(vv, hh, p) => Gap(vv, hh + n, p) = Gap(vv, hh, p) - n
  BY <1>1, <1>5, <1>7, <1>8
<1>10. ASSUME vv = 0, hh < p, hh + n >= p
       PROVE hh + n < RunAt /\ Gap(vv, hh + n, p) > Around + SetupTime - (n - 1)
  <2>1. hh + n <= SetupBase + 3 + (n - 1)
    BY <1>1, <1>6, <1>10
  <2>2. hh + n < RunAt
    BY <1>1, <1>3, <1>4, <2>1
  <2>3. Gap(vv, hh + n, p) = RunAt - (hh + n)
    BY <1>1, <1>5, <1>10, <2>2, LineAssumption
  <2> QED BY <1>1, <1>3, <1>4, <2>1, <2>2, <2>3
<1>11. ASSUME vv < Vdisp, hh < RunAt, hh + n >= RunAt
       PROVE Gap(vv, hh + n, p) > Around + RunTime - (n - 1)
  <2>1. hh + n <= RunAt + (n - 1) /\ hh + n >= p
    BY <1>1, <1>4, <1>6, <1>11
  <2>2. CASE vv + 1 < Vdisp
    <3>1. Gap(vv, hh + n, p) = HPeriod - (hh + n) + RunAt
      BY <1>1, <1>5, <1>11, <2>1, <2>2
    <3> QED BY <1>1, <1>3, <1>4, <2>1, <3>1
  <2>3. CASE ~(vv + 1 < Vdisp)
    <3>1. vv + 1 = Vdisp
      BY <1>1, <1>11, <2>3
    <3>2. Gap(vv, hh + n, p) = G + HPeriod - (hh + n) + SetupBase
      BY <1>1, <1>2, <1>5, <1>11, <2>1, <2>3, <3>1
    <3> QED BY <1>1, <1>3, <1>4, <2>1, <3>2
  <2> QED BY <2>2, <2>3
<1> QED BY <1>7, <1>8, <1>9, <1>10, <1>11

\* n ticks into the next line.
LEMMA NewLine ==
  ASSUME NEW vv \in 0..(VPeriod - 1), NEW hh \in 0..(HPeriod - 1),
         NEW p \in SetupBase..(SetupBase + 3), NEW q \in SetupBase..(SetupBase + 3),
         NEW n \in 1..6, hh + n >= HPeriod,
         NEW w \in 0..(VPeriod - 1), w = IF vv + 1 = VPeriod THEN 0 ELSE vv + 1,
         NEW gg \in Int, gg = hh + n - HPeriod
  PROVE  /\ hh >= p /\ hh >= RunAt /\ gg < RunAt /\ w # vv
         /\ n < Gap(vv, hh, p) => Gap(w, gg, q) >= Gap(vv, hh, p) - n
         /\ n < Gap(vv, hh, p) => ~(w = 0 /\ gg >= q)
         /\ w = 0 /\ gg >= q => Gap(w, gg, q) > Around + SetupTime - (n - 1)
<1> DEFINE F == HPeriod * (VPeriod - vv)
           E == HPeriod * (VPeriod - w)
<1>1. /\ F \in Int /\ E \in Int
      /\ vv \in Nat /\ hh \in Nat /\ p \in Nat /\ q \in Nat /\ n \in Nat /\ HPeriod \in Nat
      /\ VPeriod \in Nat /\ w \in Nat
      /\ SetupBase \in Nat /\ RunAt \in Nat /\ Vdisp \in Nat
  BY LineAssumption, FieldLeft
<1>2. /\ vv + 1 # VPeriod => E = F - HPeriod
      /\ vv + 1 = VPeriod => F = HPeriod
  <2>1. vv + 1 = VPeriod => vv = VPeriod - 1
    BY <1>1
  <2> QED BY <1>1, <2>1, FieldLeft
<1>3. SetupTime \in Nat /\ RunTime \in Nat /\ Around = 25
  BY TimeFacts DEF Around
<1>4. /\ SetupBase + 3 < RunAt /\ SetupBase > 0 /\ RunAt + 6 <= HPeriod /\ Vdisp < VPeriod
      /\ RunAt - (SetupBase + 3) > Around + SetupTime /\ Vdisp >= 1
  BY LineAssumption, TimeAssumption
<1>5. /\ Gap(vv, hh, p) = IF vv = 0 /\ hh < p THEN p - hh
                          ELSE IF vv < Vdisp /\ hh < RunAt THEN RunAt - hh
                          ELSE IF vv + 1 < Vdisp THEN HPeriod - hh + RunAt
                          ELSE F - hh + SetupBase
      /\ Gap(w, gg, q) = IF w = 0 /\ gg < q THEN q - gg
                         ELSE IF w < Vdisp /\ gg < RunAt THEN RunAt - gg
                         ELSE IF w + 1 < Vdisp THEN HPeriod - gg + RunAt
                         ELSE E - gg + SetupBase
  BY DEF Gap
<1> HIDE DEF F, E
<1>6. p <= SetupBase + 3 /\ q >= SetupBase /\ q <= SetupBase + 3 /\ n <= 6 /\ hh < HPeriod
  BY <1>1
<1>7. hh >= p /\ hh >= RunAt /\ gg <= n - 1 /\ gg < RunAt /\ gg >= 0
  BY <1>1, <1>3, <1>4, <1>6
<1>8. w # vv
  BY <1>1, <1>4
<1>9. Gap(vv, hh, p) = IF vv + 1 < Vdisp THEN HPeriod - hh + RunAt ELSE F - hh + SetupBase
  BY <1>1, <1>5, <1>7
<1>10. CASE vv + 1 < Vdisp
  <2>1. w = vv + 1 /\ w # 0 /\ w < Vdisp
    BY <1>1, <1>4, <1>10
  <2>2. Gap(w, gg, q) = RunAt - gg
    BY <1>1, <1>5, <1>7, <2>1
  <2> QED BY <1>1, <1>7, <1>8, <1>9, <1>10, <2>1, <2>2
<1>11. CASE ~(vv + 1 < Vdisp) /\ vv + 1 # VPeriod
  <2>1. w = vv + 1 /\ w # 0 /\ ~(w < Vdisp) /\ ~(w + 1 < Vdisp)
    BY <1>1, <1>4, <1>11
  <2>2. Gap(w, gg, q) = F - HPeriod - gg + SetupBase
    BY <1>1, <1>2, <1>5, <1>7, <1>11, <2>1
  <2> QED BY <1>1, <1>7, <1>8, <1>9, <1>11, <2>1, <2>2
<1>12. CASE ~(vv + 1 < Vdisp) /\ vv + 1 = VPeriod
  <2>1. w = 0
    BY <1>12
  <2>2. Gap(vv, hh, p) = HPeriod - hh + SetupBase
    BY <1>2, <1>9, <1>12
  <2>3. n < Gap(vv, hh, p) => gg < q
    BY <1>1, <1>6, <2>2
  <2>4. gg < q => Gap(w, gg, q) = q - gg
    BY <1>5, <2>1
  <2>5. gg >= q => Gap(w, gg, q) = RunAt - gg
    BY <1>1, <1>4, <1>5, <1>7, <2>1
  <2>6. n < Gap(vv, hh, p) => Gap(w, gg, q) >= Gap(vv, hh, p) - n
    BY <1>1, <1>6, <2>2, <2>3, <2>4
  <2>7. gg >= q => Gap(w, gg, q) > Around + SetupTime - (n - 1)
    BY <1>1, <1>3, <1>4, <1>7, <2>5
  <2> QED BY <1>7, <1>8, <1>1, <2>1, <2>3, <2>6, <2>7
<1> QED BY <1>10, <1>11, <1>12

LEMMA ModBelow == ASSUME NEW a \in Nat, NEW b \in Nat \ {0}, a < b PROVE a % b = a
<1>1. a = b * 0 + a
  OBVIOUS
<1> QED BY <1>1

LEMMA ModWrap ==
  ASSUME NEW a \in Nat, NEW b \in Nat \ {0}, b <= a, a < b + b PROVE a % b = a - b
<1>1. a = b * 1 + (a - b) /\ a - b \in 0..(b - 1)
  OBVIOUS
<1> QED BY <1>1

\* Where n ticks take the beam.
LEMMA BeamMoves ==
  ASSUME TypeOK, NEW n \in 1..6, stepBeam(n)
  PROVE  /\ v \in 0..(VPeriod - 1) /\ h \in 0..(HPeriod - 1)
         /\ hdmaSetupPosition \in SetupBase..(SetupBase + 3)
         /\ hdmaSetupPosition' \in SetupBase..(SetupBase + 3)
         /\ v' \in 0..(VPeriod - 1) /\ h' \in Int /\ n \in Int /\ h \in Int
         /\ h + n < HPeriod => /\ v' = v /\ h' = h + n /\ Line(n) = {}
                               /\ hdmaSetupPosition' = hdmaSetupPosition
         /\ h + n >= HPeriod => /\ v' = IF v + 1 = VPeriod THEN 0 ELSE v + 1
                                /\ h' = h + n - HPeriod /\ Line(n) = {v'}
<1>1. /\ h \in Nat /\ v \in Nat /\ cpu \in Nat /\ h < HPeriod /\ v < VPeriod /\ h \in 0..(HPeriod - 1)
      /\ v \in 0..(VPeriod - 1) /\ HPeriod \in Nat \ {0} /\ VPeriod \in Nat \ {0} /\ n \in Nat
      /\ hdmaSetupPosition \in SetupBase..(SetupBase + 3)
      /\ HPeriod - h \in Nat /\ n <= 6
  BY LineAssumption DEF TypeOK
<1>2. HPeriod >= 6
  BY TimeAssumption, LineAssumption
<1>3. h' = IF h + n >= HPeriod THEN h + n - HPeriod ELSE h + n
  <2>1. h + n \in Nat /\ h + n < HPeriod + HPeriod
    BY <1>1, <1>2
  <2>2. CASE h + n < HPeriod
    <3>1. (h + n) % HPeriod = h + n
      BY <1>1, <2>1, <2>2, ModBelow
    <3> QED BY <1>1, <2>2, <3>1 DEF stepBeam
  <2>3. CASE HPeriod <= h + n
    <3>1. (h + n) % HPeriod = (h + n) - HPeriod
      BY <1>1, <2>1, <2>3, ModWrap
    <3> QED BY <1>1, <2>3, <3>1 DEF stepBeam
  <2> QED BY <1>1, <2>2, <2>3
<1>4. (v + 1) % VPeriod = IF v + 1 = VPeriod THEN 0 ELSE v + 1
  <2>1. CASE v + 1 < VPeriod
    <3>1. v + 1 \in Nat
      BY <1>1
    <3>2. (v + 1) % VPeriod = v + 1
      BY <1>1, <2>1, <3>1, ModBelow
    <3> QED BY <1>1, <2>1, <3>2
  <2>2. CASE v + 1 = VPeriod
    BY <1>1, <2>2
  <2> QED BY <1>1, <2>1, <2>2
<1>5. v' = IF h + n >= HPeriod THEN IF v + 1 = VPeriod THEN 0 ELSE v + 1 ELSE v
  BY <1>4 DEF stepBeam
<1>6. Line(n) = IF h + n >= HPeriod THEN {IF v + 1 = VPeriod THEN 0 ELSE v + 1} ELSE {}
  BY <1>4 DEF Line
<1>7. v' \in 0..(VPeriod - 1) /\ h' \in Int
  BY <1>1, <1>3, <1>5
<1>8. hdmaSetupPosition' \in SetupBase..(SetupBase + 3)
  <2>1. (cpu + HPeriod - h) % 4 \in 0..3
    <3>1. cpu + HPeriod - h \in Nat
      BY <1>1
    <3> QED BY <3>1
  <2>2. \A x \in 0..3 : SetupBase + x \in SetupBase..(SetupBase + 3)
    BY LineAssumption
  <2> QED BY <1>1, <2>1, <2>2 DEF stepBeam
<1>9. h + n < HPeriod => /\ v' = v /\ h' = h + n /\ Line(n) = {}
                         /\ hdmaSetupPosition' = hdmaSetupPosition
  <2> SUFFICES ASSUME h + n < HPeriod
               PROVE  /\ v' = v /\ h' = h + n /\ Line(n) = {}
                      /\ hdmaSetupPosition' = hdmaSetupPosition
    OBVIOUS
  <2>1. ~(h + n >= HPeriod)
    BY <1>1
  <2>2. Line(n) = {}
    BY <1>6, <2>1
  <2> QED BY <1>3, <1>5, <2>1, <2>2 DEF stepBeam
<1>10. h + n >= HPeriod => /\ v' = IF v + 1 = VPeriod THEN 0 ELSE v + 1
                           /\ h' = h + n - HPeriod /\ Line(n) = {v'}
  BY <1>3, <1>5, <1>6
<1> QED BY <1>1, <1>7, <1>8, <1>9, <1>10

\* In n ticks the beam reaches a position of its line, or it does not and the next
\* request is n ticks nearer; a request leaves time for the HDMA it is for.
LEMMA BeamTime ==
  ASSUME TypeOK, Flags, NEW n \in 1..6, stepBeam(n)
  PROVE  /\ Flags'
         /\ n < NextRequest => ~SetupDue /\ ~RunDue /\ NextRequest' >= NextRequest - n
         /\ SetupDue => NextRequest' > Around + SetupTime - (n - 1)
         /\ RunDue => NextRequest' > Around + RunTime - (n - 1) /\ ~SetupDue
<1> DEFINE p == hdmaSetupPosition
<1>1. /\ v \in 0..(VPeriod - 1) /\ h \in 0..(HPeriod - 1)
      /\ p \in SetupBase..(SetupBase + 3) /\ p' \in SetupBase..(SetupBase + 3)
      /\ v' \in 0..(VPeriod - 1) /\ h' \in Int /\ n \in Int /\ h \in Int
      /\ HPeriod \in Nat /\ RunAt \in Nat /\ Vdisp \in Nat /\ Vdisp >= 1
      /\ v \in Int /\ v' \in Int /\ p \in Int /\ p' \in Int /\ v' >= 0 /\ n >= 1
  BY BeamMoves, LineAssumption
<1>2. CASE h + n < HPeriod
  <2>1. v' = v /\ h' = h + n /\ Line(n) = {} /\ p' = p
    BY <1>2, BeamMoves
  <2>2. /\ hdmaSetupTriggered' <=> hdmaSetupTriggered \/ h' >= p
        /\ hdmaTriggered' <=> hdmaTriggered \/ h' >= RunAt
    BY <2>1 DEF stepBeam
  <2>3. /\ SetupDue <=> v = 0 /\ h < p /\ h' >= p
        /\ RunDue <=> v < Vdisp /\ h < RunAt /\ h' >= RunAt
    <3>1. /\ SetupDue <=> hdmaSetupTriggered' /\ ~hdmaSetupTriggered
          /\ RunDue <=> hdmaTriggered' /\ ~hdmaTriggered
      BY <2>1 DEF SetupDue, RunDue, Due
    <3> QED BY <2>2, <3>1 DEF Flags
  <2>4. Flags'
    <3>1. hdmaSetupTriggered' <=> ~(v' = 0 /\ h' < p')
      BY <1>1, <2>1, <2>2 DEF Flags
    <3>2. hdmaTriggered' <=> ~(v' < Vdisp /\ h' < RunAt)
      BY <1>1, <2>1, <2>2 DEF Flags
    <3> QED BY <3>1, <3>2 DEF Flags
  <2>5. NextRequest = Gap(v, h, p) /\ NextRequest' = Gap(v, h + n, p)
    BY <2>1 DEF NextRequest, Gap
  <2>6. /\ n < Gap(v, h, p) => Gap(v, h + n, p) = Gap(v, h, p) - n
        /\ n < Gap(v, h, p) => ~(v = 0 /\ h < p /\ h + n >= p)
        /\ n < Gap(v, h, p) => ~(v < Vdisp /\ h < RunAt /\ h + n >= RunAt)
        /\ v = 0 /\ h < p /\ h + n >= p =>
             h + n < RunAt /\ Gap(v, h + n, p) > Around + SetupTime - (n - 1)
        /\ v < Vdisp /\ h < RunAt /\ h + n >= RunAt =>
             Gap(v, h + n, p) > Around + RunTime - (n - 1)
    BY <1>1, <1>2, OnLine
  <2>7. Gap(v, h, p) \in Int
    BY <1>1, LineAssumption, FieldLeft DEF Gap
  <2>8. n < NextRequest => ~SetupDue /\ ~RunDue /\ NextRequest' >= NextRequest - n
    BY <1>1, <2>1, <2>3, <2>5, <2>6, <2>7
  <2>9. SetupDue => NextRequest' > Around + SetupTime - (n - 1)
    BY <2>1, <2>3, <2>5, <2>6
  <2>10. RunDue => NextRequest' > Around + RunTime - (n - 1)
    BY <2>1, <2>3, <2>5, <2>6
  <2>11. RunDue => ~SetupDue
    BY <1>1, <2>1, <2>3, <2>6
  <2> QED BY <2>4, <2>8, <2>9, <2>10, <2>11
<1>3. CASE h + n >= HPeriod
  <2>1. v' = (IF v + 1 = VPeriod THEN 0 ELSE v + 1) /\ h' = h + n - HPeriod /\ Line(n) = {v'}
    BY <1>3, BeamMoves
  <2>2. /\ h >= p /\ h >= RunAt /\ h' < RunAt /\ v' # v
        /\ n < Gap(v, h, p) => Gap(v', h', p') >= Gap(v, h, p) - n
        /\ n < Gap(v, h, p) => ~(v' = 0 /\ h' >= p')
        /\ v' = 0 /\ h' >= p' => Gap(v', h', p') > Around + SetupTime - (n - 1)
    <3>1. ASSUME NEW w \in 0..(VPeriod - 1), NEW gg \in Int, NEW q \in SetupBase..(SetupBase + 3),
                 w = (IF v + 1 = VPeriod THEN 0 ELSE v + 1), gg = h + n - HPeriod
          PROVE  /\ h >= p /\ h >= RunAt /\ gg < RunAt /\ w # v
                 /\ n < Gap(v, h, p) => Gap(w, gg, q) >= Gap(v, h, p) - n
                 /\ n < Gap(v, h, p) => ~(w = 0 /\ gg >= q)
                 /\ w = 0 /\ gg >= q => Gap(w, gg, q) > Around + SetupTime - (n - 1)
      <4>1. v \in 0..(VPeriod - 1) /\ h \in 0..(HPeriod - 1) /\ p \in SetupBase..(SetupBase + 3)
        BY <1>1
      <4> HIDE DEF p
      <4> QED BY <1>3, <3>1, <4>1, NewLine
    <3> QED BY <1>1, <2>1, <3>1
  <2>3. hdmaSetupTriggered /\ hdmaTriggered
    BY <1>1, <2>2 DEF Flags
  <2>4. /\ hdmaSetupTriggered' <=> v' # 0 \/ h' >= p'
        /\ hdmaTriggered' <=> ~(v' < Vdisp)
    <3>1. /\ 0 \notin Line(n) <=> v' # 0
          /\ Line(n) \cap 0..(Vdisp - 1) = {} <=> ~(v' < Vdisp)
      BY <1>1, <2>1
    <3>2. ~(h' >= RunAt)
      BY <1>1, <2>2
    <3> QED BY <2>3, <3>1, <3>2 DEF stepBeam
  <2>5. Flags'
    <3>1. hdmaSetupTriggered' <=> ~(v' = 0 /\ h' < p')
      BY <1>1, <2>4
    <3>2. hdmaTriggered' <=> ~(v' < Vdisp /\ h' < RunAt)
      BY <1>1, <2>2, <2>4
    <3> QED BY <3>1, <3>2 DEF Flags
  <2>6. ~RunDue
    BY <2>3, <2>4 DEF RunDue, Due
  <2>7. SetupDue => v' = 0 /\ h' >= p'
    BY <2>3, <2>4 DEF SetupDue, Due
  <2>8. NextRequest = Gap(v, h, p) /\ NextRequest' = Gap(v', h', p')
    BY DEF NextRequest, Gap
  <2> QED BY <2>2, <2>5, <2>6, <2>7, <2>8
<1>4. h + n < HPeriod \/ h + n >= HPeriod
  BY <1>1
<1> QED BY <1>2, <1>3, <1>4

LEMMA NextRequestInt == ASSUME TypeOK PROVE NextRequest \in Int
BY LineAssumption, FieldLeft DEF TypeOK, NextRequest, Gap

LEMMA StepTime ==
  ASSUME TypeOK, Flags, NEW n \in 1..6, step(n)
  PROVE  /\ Flags' /\ NextRequest \in Int /\ NextRequest' \in Int
         /\ n < NextRequest => /\ ~SetupDue /\ ~RunDue
                               /\ hdmaPending' = hdmaPending /\ HdmaTime' = HdmaTime
                               /\ NextRequest' >= NextRequest - n
         /\ ~hdmaPending /\ hdmaPending' => NextRequest' > Around + HdmaTime' - (n - 1)
<1>1. stepBeam(n)
  BY DEF step
<1>2. n < NextRequest => hdmaPending' = hdmaPending /\ HdmaTime' = HdmaTime
  BY <1>1, BeamTime DEF step, TypeOK, HdmaTime
<1>3. ASSUME ~hdmaPending, hdmaPending' PROVE NextRequest' > Around + HdmaTime' - (n - 1)
  <2>1. CASE RunDue
    <3>1. hdmaMode' = "run" \/ SetupDue
      BY <1>3, <2>1 DEF step
    <3>2. HdmaTime' = RunTime
      BY <1>1, <2>1, <3>1, BeamTime DEF HdmaTime
    <3> QED BY <1>1, <2>1, <3>2, BeamTime
  <2>2. CASE ~RunDue
    <3>1. SetupDue /\ hdmaMode' = "setup"
      BY <1>3, <2>2 DEF step
    <3>2. HdmaTime' = SetupTime
      BY <3>1 DEF HdmaTime
    <3> QED BY <1>1, <3>1, <3>2, BeamTime
  <2> QED BY <2>1, <2>2
<1>4. NextRequest' \in Int
  <2>1. v' \in Int /\ h' \in Int /\ hdmaSetupPosition' \in Int
    BY <1>1, BeamMoves, LineAssumption
  <2>2. \A vv, hh, p \in Int : Gap(vv, hh, p) \in Int
    BY LineAssumption, FieldLeft DEF Gap
  <2>3. NextRequest' = Gap(v', h', hdmaSetupPosition')
    BY DEF NextRequest, Gap
  <2> QED BY <2>1, <2>2, <2>3
<1> QED BY <1>1, <1>2, <1>3, <1>4, BeamTime, NextRequestInt

-----------------------------------------------------------------------------
(* What is left to execute: which call may follow another. *)

InDma   == {"start", "loop", "test"}
HdmaOps == {"hdma", "byte", "setup", "transfer", "advance", "hdmaEnd"}

Follows(a, b) ==
  CASE a.op \in {"edge", "edgeEnd"} -> b.op \in InDma \cup {"cycle"}
    [] a.op = "edgeDma" -> b.op = "edgeEnd"
    [] a.op = "sync" -> b.op \in {"hdma", "dmaRun"}
    [] a.op = "hdma" -> b.op = "hdmaEnd"
    [] a.op = "hdmaEnd" -> b.op = "edgeDma"
    [] a.op = "byte" -> b.op \in {"byte", "setup", "transfer", "advance", "hdmaEnd"}
    [] a.op \in {"setup", "advance"} ->
         IF a.c = NC - 1 THEN b.op = "hdmaEnd" ELSE b = Of(a.op, a.c + 1)
    [] a.op = "transfer" ->
         b = IF a.c = NC - 1 THEN Of("advance", 0) ELSE Of("transfer", a.c + 1)
    [] a.op = "dmaRun" -> b.op = "align"
    [] a.op \in InDma -> b.op \in {"start", "align"}
    [] a.op = "align" -> b.op = "edgeEnd"
    [] a.op = "cycle" -> b.op = "access"
    [] a.op = "access" -> FALSE
Chain(s)  == \A i \in 1..(Len(s) - 1) : Follows(s[i], s[i + 1])
Linked(s) == Chain(s) /\ (s # <<>> => s[Len(s)].op = "access")

Left(K) == \E i \in DOMAIN todo : todo[i].op \in K
\* No DMA is inside of another: behind its end is the CPU's own cycle.
OneRun ==
  \A i \in DOMAIN todo : todo[i].op = "align" => i + 2 \in DOMAIN todo /\ todo[i + 2].op = "cycle"

LEMMA ConcatChain ==
  ASSUME NEW s \in Seq(Calls), NEW t \in Seq(Calls), Chain(s), Chain(t), s # <<>>, t # <<>>,
         Follows(s[Len(s)], t[1])
  PROVE  /\ Chain(s \o t) /\ s \o t # <<>> /\ s \o t \in Seq(Calls) /\ Len(s \o t) = Len(s) + Len(t)
         /\ (s \o t)[1] = s[1] /\ (s \o t)[Len(s \o t)] = t[Len(t)]
<1>1. Len(s \o t) = Len(s) + Len(t) /\ Len(s) \in Nat \ {0} /\ Len(t) \in Nat \ {0}
  OBVIOUS
<1>2. /\ \A i \in 1..Len(s) : (s \o t)[i] = s[i]
      /\ \A i \in (Len(s) + 1)..(Len(s) + Len(t)) : (s \o t)[i] = t[i - Len(s)]
  OBVIOUS
<1>3. ASSUME NEW i \in 1..(Len(s \o t) - 1) PROVE Follows((s \o t)[i], (s \o t)[i + 1])
  <2>1. CASE i < Len(s)
    <3>1. i \in 1..(Len(s) - 1) /\ i \in 1..Len(s) /\ i + 1 \in 1..Len(s)
      BY <1>1, <2>1
    <3> QED BY <1>2, <3>1 DEF Chain
  <2>2. CASE i = Len(s)
    <3>1. i \in 1..Len(s) /\ i + 1 \in (Len(s) + 1)..(Len(s) + Len(t)) /\ (i + 1) - Len(s) = 1
      BY <1>1, <2>2
    <3> QED BY <1>2, <2>2, <3>1
  <2>3. CASE i > Len(s)
    <3>1. /\ i \in (Len(s) + 1)..(Len(s) + Len(t)) /\ i + 1 \in (Len(s) + 1)..(Len(s) + Len(t))
          /\ i - Len(s) \in 1..(Len(t) - 1) /\ (i + 1) - Len(s) = (i - Len(s)) + 1
      BY <1>1, <2>3
    <3> QED BY <1>2, <3>1 DEF Chain
  <2> QED BY <1>1, <2>1, <2>2, <2>3
<1>4. /\ 1 \in 1..Len(s) /\ Len(s \o t) \in (Len(s) + 1)..(Len(s) + Len(t))
      /\ Len(s \o t) - Len(s) = Len(t)
  BY <1>1
<1>5. (s \o t)[1] = s[1] /\ (s \o t)[Len(s \o t)] = t[Len(t)]
  BY <1>2, <1>4
<1>6. s \o t # <<>> /\ s \o t \in Seq(Calls)
  BY <1>1
<1> QED BY <1>1, <1>3, <1>5, <1>6 DEF Chain

\* Where the calls of todo go when its head is replaced by others.
LEMMA ThenIndex ==
  ASSUME TypeOK, todo # <<>>, NEW s \in Seq(Calls), Then(s)
  PROVE  /\ Len(todo') = Len(s) + Len(todo) - 1 /\ DOMAIN todo' = 1..Len(todo')
         /\ Len(s) \in Nat /\ Len(todo) \in Nat \ {0} /\ DOMAIN todo = 1..Len(todo)
         /\ \A i \in 1..Len(s) : todo'[i] = s[i]
         /\ \A i \in (Len(s) + 1)..Len(todo') :
              todo'[i] = todo[i - Len(s) + 1] /\ i - Len(s) + 1 \in 2..Len(todo)
         /\ todo[1] = Head(todo)
<1>1. todo \in Seq(Calls) /\ Tail(todo) \in Seq(Calls) /\ Len(Tail(todo)) = Len(todo) - 1
  BY DEF TypeOK
<1>2. /\ Len(s) \in Nat /\ Len(todo) \in Nat \ {0}
      /\ \A i \in 1..(Len(todo) - 1) : Tail(todo)[i] = todo[i + 1]
  BY <1>1
<1>3. todo' = s \o Tail(todo)
  BY DEF Then
<1>4. /\ Len(todo') = Len(s) + (Len(todo) - 1)
      /\ \A i \in 1..Len(s) : todo'[i] = s[i]
      /\ \A i \in (Len(s) + 1)..(Len(s) + (Len(todo) - 1)) : todo'[i] = Tail(todo)[i - Len(s)]
  BY <1>1, <1>3
<1>5. ASSUME NEW i \in (Len(s) + 1)..Len(todo')
      PROVE  todo'[i] = todo[i - Len(s) + 1] /\ i - Len(s) + 1 \in 2..Len(todo)
  <2>1. i - Len(s) \in 1..(Len(todo) - 1) /\ i - Len(s) + 1 \in 2..Len(todo)
    BY <1>2, <1>4
  <2> QED BY <1>2, <1>4, <2>1
<1>6. todo' \in Seq(Calls) /\ todo[1] = Head(todo)
  BY <1>1, <1>3
<1>7. Len(todo') = Len(s) + Len(todo) - 1
  BY <1>2, <1>4
<1> QED BY <1>1, <1>2, <1>4, <1>5, <1>6, <1>7

\* The last call is the CPU's access.
LEMMA LinkedNext ==
  ASSUME TypeOK, Linked(todo), todo # <<>>
  PROVE  /\ todo[1] = Head(todo) /\ Head(todo) \in Calls /\ Len(todo) \in Nat \ {0}
         /\ Head(todo).op # "access" =>
              /\ 2 \in DOMAIN todo /\ todo[2] \in Calls /\ Follows(Head(todo), todo[2])
              /\ Tail(todo) \in Seq(Calls) /\ Tail(todo) # <<>> /\ Tail(todo)[1] = todo[2]
         /\ Head(todo).op = "access" => Len(todo) = 1
<1>1. todo \in Seq(Calls) /\ todo[1] = Head(todo) /\ Len(todo) \in Nat \ {0} /\ Head(todo) \in Calls
  BY DEF TypeOK
<1>2. ASSUME Head(todo).op # "access"
      PROVE  /\ 2 \in DOMAIN todo /\ todo[2] \in Calls /\ Follows(Head(todo), todo[2])
             /\ Tail(todo) \in Seq(Calls) /\ Tail(todo) # <<>> /\ Tail(todo)[1] = todo[2]
  <2>1. Len(todo) # 1
    BY <1>1, <1>2 DEF Linked
  <2>2. 1 \in 1..(Len(todo) - 1) /\ 2 \in DOMAIN todo
    <3>1. DOMAIN todo = 1..Len(todo)
      BY <1>1
    <3>2. Len(todo) >= 2
      <4>1. Len(todo) \in Nat /\ Len(todo) # 0
        BY <1>1
      <4> QED BY <2>1, <4>1
    <3> QED BY <1>1, <3>1, <3>2
  <2>3. Follows(todo[1], todo[1 + 1])
    BY <2>2 DEF Linked, Chain
  <2>4. Tail(todo) \in Seq(Calls) /\ Tail(todo) # <<>> /\ Tail(todo)[1] = todo[2]
    <3>1. Tail(todo) \in Seq(Calls) /\ Len(Tail(todo)) = Len(todo) - 1
      BY <1>1
    <3>2. Len(Tail(todo)) # 0 /\ Tail(todo)[1] = todo[2]
      BY <1>1, <2>2, <3>1
    <3>3. Tail(todo) # <<>>
      <4>1. Len(<<>>) = 0
        OBVIOUS
      <4> QED BY <3>2, <4>1, Zenon
    <3> QED BY <3>1, <3>2, <3>3
  <2>5. todo[2] \in Calls
    BY <1>1, <2>2
  <2>6. Follows(Head(todo), todo[2])
    BY <1>1, <2>3
  <2> QED BY <2>2, <2>4, <2>5, <2>6
<1>3. ASSUME Head(todo).op = "access" PROVE Len(todo) = 1
  <2> SUFFICES ASSUME Len(todo) # 1 PROVE FALSE
    OBVIOUS
  <2>1. 1 \in 1..(Len(todo) - 1)
    BY <1>1
  <2>2. Follows(todo[1], todo[1 + 1])
    BY <2>1 DEF Linked, Chain
  <2> QED BY <1>1, <1>3, <2>2 DEF Follows, InDma
<1> QED BY <1>1, <1>2, <1>3

\* A call is replaced by calls that lead to where it led.
LEMMA ThenLinked ==
  ASSUME TypeOK, Linked(todo), todo # <<>>, Head(todo).op # "access",
         NEW s \in Seq(Calls), Then(s), Chain(s),
         s # <<>> => \A b \in Calls : Follows(Head(todo), b) => Follows(s[Len(s)], b)
  PROVE  Linked(todo)' /\ todo' # <<>> /\ todo'[1] = IF s = <<>> THEN todo[2] ELSE s[1]
<1>1. /\ 2 \in DOMAIN todo /\ todo[2] \in Calls /\ Follows(Head(todo), todo[2])
      /\ Tail(todo) \in Seq(Calls) /\ Tail(todo) # <<>> /\ Tail(todo)[1] = todo[2]
      /\ todo \in Seq(Calls) /\ Len(todo) \in Nat \ {0}
  BY LinkedNext DEF TypeOK
<1>2. Len(Tail(todo)) = Len(todo) - 1 /\ \A i \in 1..(Len(todo) - 1) : Tail(todo)[i] = todo[i + 1]
  BY <1>1
<1>3. Chain(Tail(todo))
  <2> SUFFICES ASSUME NEW i \in 1..(Len(Tail(todo)) - 1)
               PROVE  Follows(Tail(todo)[i], Tail(todo)[i + 1])
    BY DEF Chain
  <2>1. /\ i \in 1..(Len(todo) - 1) /\ i + 1 \in 1..(Len(todo) - 1)
    BY <1>1, <1>2
  <2>2. Tail(todo)[i] = todo[i + 1] /\ Tail(todo)[i + 1] = todo[(i + 1) + 1]
    BY <1>2, <2>1
  <2> QED BY <2>1, <2>2 DEF Linked, Chain
<1>4. Tail(todo)[Len(Tail(todo))].op = "access"
  <2>1. Len(todo) - 1 \in 1..(Len(todo) - 1) /\ (Len(todo) - 1) + 1 = Len(todo)
    <3>1. Len(Tail(todo)) # 0
      BY <1>1
    <3> QED BY <1>1, <1>2, <3>1
  <2> QED BY <1>1, <1>2, <2>1 DEF Linked
<1>5. todo' = s \o Tail(todo)
  BY DEF Then
<1>6. CASE s = <<>>
  <2>1. todo' = Tail(todo)
    BY <1>1, <1>5, <1>6
  <2> QED BY <1>1, <1>3, <1>4, <1>6, <2>1 DEF Linked, Chain
<1>7. CASE s # <<>>
  <2> DEFINE t == Tail(todo)
  <2>1. /\ t \in Seq(Calls) /\ Chain(t) /\ t # <<>> /\ t[Len(t)].op = "access"
        /\ Follows(s[Len(s)], t[1])
    BY <1>1, <1>3, <1>4, <1>7
  <2>2. todo' = s \o t
    BY <1>5
  <2> HIDE DEF t
  <2>3. Chain(s \o t) /\ s \o t # <<>> /\ (s \o t)[1] = s[1] /\ (s \o t)[Len(s \o t)] = t[Len(t)]
    BY <1>7, <2>1, ConcatChain
  <2> QED BY <1>7, <2>1, <2>2, <2>3 DEF Linked, Chain
<1> QED BY <1>6, <1>7

\* Only the calls that are put there are new.
LEMMA ThenLeft ==
  ASSUME TypeOK, todo # <<>>, NEW s \in Seq(Calls), Then(s), NEW K,
         \A i \in DOMAIN s : s[i].op \notin K, Left(K)'
  PROVE  Left(K) /\ \E i \in DOMAIN todo : i # 1 /\ todo[i].op \in K
<1>1. PICK i \in DOMAIN todo' : todo'[i].op \in K
  BY DEF Left
<1>2. i \in 1..Len(todo') /\ DOMAIN s = 1..Len(s)
  BY <1>1, ThenIndex
<1>3. i \notin 1..Len(s)
  BY <1>1, <1>2, ThenIndex
<1>4. i \in (Len(s) + 1)..Len(todo')
  BY <1>2, <1>3, ThenIndex
<1>5. todo'[i] = todo[i - Len(s) + 1] /\ i - Len(s) + 1 \in 2..Len(todo)
  BY <1>4, ThenIndex
<1>6. i - Len(s) + 1 \in DOMAIN todo /\ i - Len(s) + 1 # 1
  BY <1>5, ThenIndex
<1> QED BY <1>1, <1>5, <1>6 DEF Left

LEMMA ThenOneRun ==
  ASSUME TypeOK, todo # <<>>, OneRun, NEW s \in Seq(Calls), Then(s),
         \A i \in DOMAIN s : s[i].op # "align"
  PROVE  OneRun'
<1> SUFFICES ASSUME NEW i \in DOMAIN todo', todo'[i].op = "align"
             PROVE  i + 2 \in DOMAIN todo' /\ todo'[i + 2].op = "cycle"
  BY DEF OneRun
<1>1. i \in 1..Len(todo') /\ DOMAIN s = 1..Len(s)
  BY ThenIndex
<1>2. i \notin 1..Len(s)
  BY <1>1, ThenIndex
<1>3. i \in (Len(s) + 1)..Len(todo')
  BY <1>1, <1>2, ThenIndex
<1> DEFINE j == i - Len(s) + 1
<1>4. todo'[i] = todo[j] /\ j \in 2..Len(todo)
  BY <1>3, ThenIndex
<1>5. j \in DOMAIN todo
  BY <1>4, ThenIndex
<1>6. j + 2 \in DOMAIN todo /\ todo[j + 2].op = "cycle"
  <2> HIDE DEF j
  <2> QED BY <1>4, <1>5 DEF OneRun
<1>7. /\ i + 2 \in (Len(s) + 1)..Len(todo') /\ (i + 2) - Len(s) + 1 = j + 2
  BY <1>3, <1>6, ThenIndex
<1>8. todo'[i + 2] = todo[j + 2]
  BY <1>7, ThenIndex
<1>9. i + 2 \in DOMAIN todo'
  BY <1>7, ThenIndex
<1> QED BY <1>6, <1>8, <1>9

LEMMA FollowsCases ==
  ASSUME NEW a, NEW b
  PROVE  /\ a.op \in {"edge", "edgeEnd"} => (Follows(a, b) <=> b.op \in InDma \cup {"cycle"})
         /\ a.op = "edgeDma" => (Follows(a, b) <=> b.op = "edgeEnd")
         /\ a.op = "sync" => (Follows(a, b) <=> b.op \in {"hdma", "dmaRun"})
         /\ a.op = "hdma" => (Follows(a, b) <=> b.op = "hdmaEnd")
         /\ a.op = "hdmaEnd" => (Follows(a, b) <=> b.op = "edgeDma")
         /\ a.op = "byte" =>
              (Follows(a, b) <=> b.op \in {"byte", "setup", "transfer", "advance", "hdmaEnd"})
         /\ a.op \in {"setup", "advance"} =>
              (Follows(a, b) <=> IF a.c = NC - 1 THEN b.op = "hdmaEnd" ELSE b = Of(a.op, a.c + 1))
         /\ a.op = "transfer" =>
              (Follows(a, b) <=> b = IF a.c = NC - 1 THEN Of("advance", 0)
                                     ELSE Of("transfer", a.c + 1))
         /\ a.op = "dmaRun" => (Follows(a, b) <=> b.op = "align")
         /\ a.op \in InDma => (Follows(a, b) <=> b.op \in {"start", "align"})
         /\ a.op = "align" => (Follows(a, b) <=> b.op = "edgeEnd")
         /\ a.op = "cycle" => (Follows(a, b) <=> b.op = "access")
BY DEF Follows, InDma

LEMMA ShortChains ==
  /\ Chain(<<>>) /\ \A a : Chain(<<a>>)
  /\ \A a, b : Follows(a, b) => Chain(<<a, b>>)
  /\ \A a, b, c : Follows(a, b) /\ Follows(b, c) => Chain(<<a, b, c>>)
BY DEF Chain

LEMMA BytesChain ==
  ASSUME NEW n \in Nat
  PROVE  /\ Chain(Bytes(n)) /\ Bytes(n) \in Seq(Calls) /\ Len(Bytes(n)) = n
         /\ DOMAIN Bytes(n) = 1..n /\ \A i \in 1..n : Bytes(n)[i].op = "byte"
<1>1. Bytes(n) \in Seq(Calls) /\ Len(Bytes(n)) = n /\ DOMAIN Bytes(n) = 1..n
  BY CallTypes DEF Bytes
<1>2. \A i \in 1..n : Bytes(n)[i].op = "byte"
  BY DEF Bytes, Plain
<1>3. ASSUME NEW i \in 1..(n - 1) PROVE Follows(Bytes(n)[i], Bytes(n)[i + 1])
  <2>1. Bytes(n)[i].op = "byte" /\ Bytes(n)[i + 1].op = "byte"
    BY <1>2
  <2> QED BY <2>1, FollowsCases
<1> QED BY <1>1, <1>2, <1>3 DEF Chain

LEMMA EachChain ==
  ASSUME NEW k \in {"setup", "transfer", "advance", "start"}
  PROVE  /\ Chain(Each(k)) /\ Each(k) \in Seq(Calls) /\ Len(Each(k)) = NC /\ Each(k) # <<>>
         /\ DOMAIN Each(k) = 1..NC /\ \A i \in 1..NC : Each(k)[i] = Of(k, i - 1)
<1>1. NC \in Nat \ {0}
  BY DmaAssumption
<1>2. Each(k) \in Seq(Calls) /\ DOMAIN Each(k) = 1..NC /\ Len(Each(k)) = NC
  BY <1>1, CallTypes DEF Each, PerChannel
<1>3. \A i \in 1..NC : Each(k)[i] = Of(k, i - 1)
  BY DEF Each
<1>4. Each(k) # <<>>
  <2>1. Len(<<>>) = 0 /\ Len(Each(k)) # 0
    BY <1>1, <1>2
  <2> QED BY <2>1, Zenon
<1>5. ASSUME NEW i \in 1..(NC - 1) PROVE Follows(Each(k)[i], Each(k)[i + 1])
  <2>1. i \in 1..NC /\ i + 1 \in 1..NC /\ (i + 1) - 1 = (i - 1) + 1 /\ i - 1 # NC - 1
    BY <1>1
  <2>2. Each(k)[i] = Of(k, i - 1) /\ Each(k)[i + 1] = Of(k, (i - 1) + 1)
    BY <1>3, <2>1
  <2>3. \A c : Of(k, c).op = k /\ Of(k, c).c = c
    BY DEF Of
  <2>4. Follows(Of(k, i - 1), Of(k, (i - 1) + 1))
    <3>1. CASE k \in {"setup", "advance"}
      BY <2>1, <2>3, <3>1, FollowsCases
    <3>2. CASE k = "transfer"
      BY <2>1, <2>3, <3>2, FollowsCases
    <3>3. CASE k = "start"
      BY <2>1, <2>3, <3>3, FollowsCases DEF InDma
    <3> QED BY <3>1, <3>2, <3>3
  <2> QED BY <2>2, <2>4
<1> QED BY <1>2, <1>3, <1>4, <1>5 DEF Chain

-----------------------------------------------------------------------------
(* What an HDMA still takes, and what passes until a waiting one begins. *)

Takes(call, d) ==
  CASE call.op = "sync" -> 4 + d + 6
    [] call.op = "hdma" -> d + 6
    [] call.op = "transfer" -> 4 * Longest * (NC - call.c) + 12 * NC + 6
    [] call.op \in {"setup", "advance"} -> 12 * (NC - call.c) + 6
    [] call.op = "hdmaEnd" -> 6

Under == todo # <<>> /\ \/ Head(todo).op \in HdmaOps
                        \/ Head(todo).op = "sync" /\ todo[2].op = "hdma"
InTime == Under =>
  \E k \in Nat :
     /\ k + 1 \in DOMAIN todo /\ \A i \in 1..k : todo[i].op = "byte"
     /\ todo[k + 1].op # "byte" /\ 4 * k + Takes(todo[k + 1], HdmaTime) < NextRequest

Waits ==
  IF todo = <<>> \/ Doing("access") THEN IF dmaActive THEN 0 ELSE 6
  ELSE IF Doing("cycle") THEN 6
  ELSE IF Doing("dmaRun") THEN 4
  ELSE IF Doing("edge") /\ dmaActive THEN 0
  ELSE IF (Doing("edge") \/ Doing("edgeEnd")) /\ todo[2].op = "cycle" THEN 6
  ELSE 12
Calm ==
  todo # <<>> =>
    /\ Head(todo).op \notin HdmaOps \cup {"sync", "edgeDma", "loop"}
    /\ Head(todo).op \in {"start", "test"} => dmaEnable = {}
    /\ Head(todo).op = "edgeEnd" => todo[2].op = "cycle" \/ (todo[2].op # "loop" /\ dmaEnable = {})
InWait == hdmaPending => Calm /\ Waits + 10 + HdmaTime < NextRequest

\* What the flags of struct Status say of the calls that are left.
Statuses ==
  /\ Left(InDma \cup {"dmaRun", "align"}) => ~dmaPending
  /\ Left(InDma \cup {"dmaRun", "align", "edgeDma"}) => dmaActive \/ dmaEnable = {}
  /\ todo # <<>> =>
       /\ Head(todo).op = "dmaRun" => dmaActive
       /\ Head(todo).op = "sync" /\ todo[2].op = "dmaRun" => dmaActive
       /\ Head(todo).op = "edge" /\ todo[2].op = "loop" => dmaActive
       /\ Head(todo).op = "cycle" /\ hdmaPending => dmaActive

Shape   == Linked(todo) /\ OneRun /\ Statuses
TimeInv == Shape /\ Flags /\ InTime /\ InWait

LEMMA TakesTypes ==
  ASSUME NEW call, NEW d
  PROVE  /\ call.op = "sync" => Takes(call, d) = 4 + d + 6
         /\ call.op = "hdma" => Takes(call, d) = d + 6
         /\ call.op = "transfer" => Takes(call, d) = 4 * Longest * (NC - call.c) + 12 * NC + 6
         /\ call.op \in {"setup", "advance"} => Takes(call, d) = 12 * (NC - call.c) + 6
         /\ call.op = "hdmaEnd" => Takes(call, d) = 6
BY DEF Takes

\* The next call of an HDMA has the time of the one before it, less its own.
LEMMA TakesNext ==
  ASSUME NEW a, NEW b, NEW d, Follows(a, b), a.c \in Channel
  PROVE  /\ a.op \in {"setup", "advance"} =>
              /\ b.op \in {"setup", "advance", "hdmaEnd"} /\ b.op # "byte"
              /\ Takes(b, d) \in Nat /\ Takes(a, d) = Takes(b, d) + 12
         /\ a.op = "transfer" =>
              /\ b.op \in {"transfer", "advance"}
              /\ Takes(b, d) \in Nat /\ Takes(a, d) = Takes(b, d) + 4 * Longest
<1>1. NC \in Nat \ {0} /\ Longest \in {1, 2, 4} /\ a.c \in Nat /\ NC - a.c \in Nat
  BY TimeFacts DEF Channel
<1>2. \A k, c : Of(k, c).op = k /\ Of(k, c).c = c
  BY DEF Of
<1>3. ASSUME a.op \in {"setup", "advance"}
      PROVE  /\ b.op \in {"setup", "advance", "hdmaEnd"} /\ b.op # "byte"
             /\ Takes(b, d) \in Nat /\ Takes(a, d) = Takes(b, d) + 12
  <2>1. CASE a.c = NC - 1
    <3>1. b.op = "hdmaEnd"
      BY <1>3, <2>1, FollowsCases
    <3>2. NC - a.c = 1
      BY <1>1, <2>1
    <3> QED BY <1>3, <3>1, <3>2, TakesTypes
  <2>2. CASE a.c # NC - 1
    <3>1. b.op = a.op /\ b.c = a.c + 1
      BY <1>2, <1>3, <2>2, FollowsCases
    <3>2. Takes(b, d) = 12 * (NC - b.c) + 6 /\ Takes(a, d) = 12 * (NC - a.c) + 6
      BY <1>3, <3>1, TakesTypes
    <3>3. NC - b.c \in Nat /\ NC - a.c = (NC - b.c) + 1
      BY <1>1, <2>2, <3>1 DEF Channel
    <3> QED BY <1>3, <3>1, <3>2, <3>3
  <2> QED BY <2>1, <2>2
<1>4. ASSUME a.op = "transfer"
      PROVE  /\ b.op \in {"transfer", "advance"}
             /\ Takes(b, d) \in Nat /\ Takes(a, d) = Takes(b, d) + 4 * Longest
  <2>1. Takes(a, d) = 4 * Longest * (NC - a.c) + 12 * NC + 6
    BY <1>4, TakesTypes
  <2>2. CASE a.c = NC - 1
    <3>1. b.op = "advance" /\ b.c = 0
      BY <1>2, <1>4, <2>2, FollowsCases
    <3>2. NC - a.c = 1 /\ Takes(b, d) = 12 * NC + 6
      BY <1>1, <2>2, <3>1, TakesTypes
    <3> QED BY <1>1, <2>1, <3>1, <3>2
  <2>3. CASE a.c # NC - 1
    <3>1. b.op = "transfer" /\ b.c = a.c + 1
      BY <1>2, <1>4, <2>3, FollowsCases
    <3>2. Takes(b, d) = 4 * Longest * (NC - b.c) + 12 * NC + 6
      BY <3>1, TakesTypes
    <3>3. NC - b.c \in Nat /\ NC - a.c = (NC - b.c) + 1
      BY <1>1, <2>3, <3>1 DEF Channel
    <3>4. \A x, y \in Nat : 4 * x * (y + 1) = 4 * x * y + 4 * x /\ 4 * x * y \in Nat
      OBVIOUS
    <3>5. /\ 4 * Longest * (NC - a.c) = 4 * Longest * (NC - b.c) + 4 * Longest
          /\ 4 * Longest * (NC - b.c) \in Nat
      BY <1>1, <3>3, <3>4
    <3> QED BY <1>1, <2>1, <3>1, <3>2, <3>5
  <2> QED BY <2>2, <2>3
<1> QED BY <1>3, <1>4

-----------------------------------------------------------------------------
(* What a step of time leaves of the time until the next request. *)

\* No HDMA waits and one is under way: T ticks are left to it after n.
LEMMA StepUnder ==
  ASSUME TypeOK, Flags, ~hdmaPending, NEW n \in 1..6, step(n), NEW T \in Nat, n + T < NextRequest
  PROVE  /\ Flags' /\ ~SetupDue /\ ~RunDue /\ ~hdmaPending' /\ HdmaTime' = HdmaTime
         /\ T < NextRequest'
<1>1. NextRequest \in Int /\ NextRequest' \in Int /\ n < NextRequest
  <2>1. NextRequest \in Int /\ NextRequest' \in Int /\ n \in Int
    BY StepTime
  <2> QED BY <2>1
<1>2. NextRequest' >= NextRequest - n
  BY <1>1, StepTime
<1>3. T < NextRequest'
  <2> DEFINE r == NextRequest'
  <2>1. r \in Int /\ r >= NextRequest - n
    BY <1>1, <1>2
  <2> HIDE DEF r
  <2>2. T < r
    BY <1>1, <2>1
  <2> QED BY <2>2 DEF r
<1>4. ~SetupDue /\ ~RunDue /\ ~hdmaPending' /\ HdmaTime' = HdmaTime
  BY <1>1, StepTime
<1> QED BY <1>3, <1>4, StepTime

\* What waits goes on waiting, and has less time; a request in this step leaves enough.
LEMMA StepWait ==
  ASSUME TypeOK, Flags, NEW n \in 1..6, step(n), NEW W \in Nat, W + n <= 16,
         hdmaPending => n + W + 10 + HdmaTime < NextRequest
  PROVE  /\ Flags' /\ (SetupDue \/ RunDue => ~hdmaPending)
         /\ hdmaPending' => W + 10 + HdmaTime' < NextRequest'
<1>1. NextRequest \in Int /\ NextRequest' \in Int /\ HdmaTime \in Nat /\ HdmaTime' \in Nat
  <2>1. SetupTime \in Nat /\ RunTime \in Nat
    BY TimeFacts
  <2> QED BY <2>1, StepTime DEF HdmaTime
<1>2. CASE hdmaPending
  <2>1. n < NextRequest
    BY <1>1, <1>2
  <2>2. NextRequest' >= NextRequest - n /\ HdmaTime' = HdmaTime /\ ~SetupDue /\ ~RunDue
    BY <2>1, StepTime
  <2> DEFINE r == NextRequest'
             d == HdmaTime'
  <2>3. r \in Int /\ r >= NextRequest - n /\ d = HdmaTime
    BY <1>1, <2>2
  <2> HIDE DEF r, d
  <2>4. W + 10 + d < r
    BY <1>1, <1>2, <2>3
  <2> QED BY <2>2, <2>4, StepTime DEF r, d
<1>3. CASE ~hdmaPending
  <2> SUFFICES ASSUME hdmaPending' PROVE W + 10 + HdmaTime' < NextRequest'
    BY <1>3, StepTime
  <2>1. NextRequest' > Around + HdmaTime' - (n - 1)
    BY <1>3, StepTime
  <2> DEFINE r == NextRequest'
             d == HdmaTime'
  <2>2. r \in Int /\ d \in Nat /\ r > 25 + d - (n - 1)
    BY <1>1, <2>1 DEF Around
  <2> HIDE DEF r, d
  <2>3. W + 10 + d < r
    BY <2>2
  <2> QED BY <2>3 DEF r, d
<1> QED BY <1>2, <1>3

\* Without time the beam stands still.
LEMMA StillTime ==
  ASSUME UNCHANGED <<v, h, hdmaSetupPosition, hdmaSetupTriggered, hdmaTriggered, hdmaMode>>
  PROVE  /\ Flags => Flags'
         /\ ~SetupDue /\ ~RunDue /\ HdmaTime' = HdmaTime /\ NextRequest' = NextRequest
<1>1. Flags => Flags'
  BY DEF Flags
<1>2. ~SetupDue /\ ~RunDue
  BY DEF SetupDue, RunDue, Due
<1>3. HdmaTime' = HdmaTime /\ NextRequest' = NextRequest
  BY DEF HdmaTime, NextRequest, Gap
<1> QED BY <1>1, <1>2, <1>3

-----------------------------------------------------------------------------
(* The calls of an HDMA keep to its time. *)

Kept == InDma \cup {"dmaRun", "align", "edgeDma"}

\* Calls that are no part of a DMA leave what the flags say of one.
LEMMA StatusesKept ==
  ASSUME TypeOK, todo # <<>>, Statuses, NEW s \in Seq(Calls), Then(s),
         \A i \in DOMAIN s : s[i].op \notin Kept,
         dmaPending' = dmaPending, dmaActive' = dmaActive \/ dmaEnable' = {},
         dmaEnable' \subseteq dmaEnable,
         todo' # <<>>, todo'[1].op \notin {"dmaRun", "sync", "edge", "cycle"}
  PROVE  Statuses'
<1>1. todo'[1] = Head(todo')
  <2>1. Tail(todo) \in Seq(Calls) /\ todo' = s \o Tail(todo)
    BY DEF TypeOK, Then
  <2>2. todo' \in Seq(Calls)
    BY <2>1
  <2> QED BY <2>2
<1>2. Left(InDma \cup {"dmaRun", "align"})' => Left(InDma \cup {"dmaRun", "align"})
  <2>1. \A i \in DOMAIN s : s[i].op \notin InDma \cup {"dmaRun", "align"}
    BY DEF Kept
  <2> DEFINE K == InDma \cup {"dmaRun", "align"}
  <2>2. \A i \in DOMAIN s : s[i].op \notin K
    BY <2>1
  <2> HIDE DEF K
  <2>3. Left(K)' => Left(K)
    BY <2>2, ThenLeft
  <2> QED BY <2>3 DEF K
<1>3. Left(InDma \cup {"dmaRun", "align", "edgeDma"})' => Left(InDma \cup {"dmaRun", "align", "edgeDma"})
  <2>1. Left(Kept)' => Left(Kept)
    BY ThenLeft
  <2> QED BY <2>1 DEF Kept
<1>4. Left(InDma \cup {"dmaRun", "align"})' => ~dmaPending'
  BY <1>2 DEF Statuses
<1>5. Left(InDma \cup {"dmaRun", "align", "edgeDma"})' => dmaActive' \/ dmaEnable' = {}
  BY <1>3 DEF Statuses
<1> QED BY <1>1, <1>4, <1>5 DEF Statuses

LEMMA UnderFacts ==
  ASSUME TypeOK, TimeInv, Under
  PROVE  /\ ~hdmaPending /\ todo # <<>> /\ todo[1] = Head(todo) /\ Head(todo) \in Calls
         /\ todo \in Seq(Calls) /\ 2 \in DOMAIN todo /\ todo[2] \in Calls /\ Follows(Head(todo), todo[2])
         /\ Head(todo).op \in HdmaOps \cup {"sync"} /\ Head(todo).op # "access"
         /\ Head(todo).op # "byte" => Takes(Head(todo), HdmaTime) < NextRequest
         /\ NextRequest \in Int
<1>1. todo # <<>> /\ Head(todo).op \in HdmaOps \cup {"sync"}
  BY DEF Under
<1>2. Head(todo).op # "access"
  BY <1>1 DEF HdmaOps
<1>3. /\ todo[1] = Head(todo) /\ Head(todo) \in Calls
      /\ 2 \in DOMAIN todo /\ todo[2] \in Calls /\ Follows(Head(todo), todo[2])
  BY <1>1, <1>2, LinkedNext DEF TimeInv, Shape
<1>4. ~hdmaPending
  BY <1>1 DEF TimeInv, InWait, Calm
<1>5. ASSUME Head(todo).op # "byte" PROVE Takes(Head(todo), HdmaTime) < NextRequest
  <2>1. PICK k \in Nat :
          /\ k + 1 \in DOMAIN todo /\ \A i \in 1..k : todo[i].op = "byte"
          /\ todo[k + 1].op # "byte" /\ 4 * k + Takes(todo[k + 1], HdmaTime) < NextRequest
    BY DEF TimeInv, InTime
  <2>2. k = 0
    <3> SUFFICES ASSUME k # 0 PROVE FALSE
      OBVIOUS
    <3>1. 1 \in 1..k
      OBVIOUS
    <3> QED BY <1>3, <1>5, <2>1, <3>1
  <2>3. Takes(Head(todo), HdmaTime) \in Int
    <3>1. /\ NC \in Nat /\ Longest \in {1, 2, 4} /\ HdmaTime \in Nat
          /\ Head(todo).op \in PerChannel => Head(todo).c \in Nat
      BY <1>3, TimeFacts DEF Calls, Channel, Plains, PerChannel
    <3>2. Head(todo).op \in {"hdma", "setup", "transfer", "advance", "hdmaEnd", "sync"}
      BY <1>1, <1>5 DEF HdmaOps
    <3>3. CASE Head(todo).op = "transfer"
      <4>1. NC - Head(todo).c \in Int /\ 12 * NC + 6 \in Int
        BY <3>1, <3>3 DEF PerChannel
      <4>2. \A x \in {1, 2, 4}, y, z \in Int : 4 * x * y + z \in Int
        OBVIOUS
      <4>3. \A x \in {1, 2, 4}, y \in Int : 4 * x * y + 12 * NC + 6 \in Int
        BY <3>1
      <4>4. 4 * Longest * (NC - Head(todo).c) + 12 * NC + 6 \in Int
        BY <3>1, <4>1, <4>3
      <4> QED BY <3>3, <4>4, TakesTypes
    <3>4. CASE Head(todo).op \in {"setup", "advance"}
      <4>1. 12 * (NC - Head(todo).c) + 6 \in Int
        BY <3>1, <3>4 DEF PerChannel
      <4> QED BY <3>4, <4>1, TakesTypes
    <3>5. CASE Head(todo).op \in {"hdma", "hdmaEnd", "sync"}
      BY <3>1, <3>5, TakesTypes
    <3> QED BY <3>2, <3>3, <3>4, <3>5
  <2>4. todo[k + 1] = Head(todo) /\ 4 * k = 0
    BY <1>3, <2>2
  <2> QED BY <2>1, <2>3, <2>4, NextRequestInt
<1> QED BY <1>1, <1>2, <1>3, <1>4, <1>5, NextRequestInt DEF TypeOK

\* A byte of DMA for each that a channel needs, and then the call that comes next.
LEMMA UnderBytes ==
  ASSUME TypeOK, todo # <<>>, Linked(todo), NEW m \in Nat, Then(Bytes(m)),
         Head(todo).op \in {"setup", "transfer", "advance"},
         4 * m + Takes(todo[2], HdmaTime') < NextRequest'
  PROVE  /\ Linked(todo)' /\ InTime' /\ todo' # <<>>
         /\ todo'[1].op \in {"byte", "setup", "transfer", "advance", "hdmaEnd"}
<1>1. /\ Chain(Bytes(m)) /\ Bytes(m) \in Seq(Calls) /\ Len(Bytes(m)) = m
      /\ DOMAIN Bytes(m) = 1..m /\ \A i \in 1..m : Bytes(m)[i].op = "byte"
  BY BytesChain
<1>2. /\ todo[1] = Head(todo) /\ Head(todo) \in Calls
      /\ 2 \in DOMAIN todo /\ todo[2] \in Calls /\ Follows(Head(todo), todo[2])
  BY LinkedNext
<1>3. ASSUME NEW b, Follows(Head(todo), b)
      PROVE  b.op \in {"setup", "transfer", "advance", "hdmaEnd"}
  <2>1. Head(todo).c \in Channel
    BY <1>2 DEF Calls, Plains
  <2> QED BY <1>3, <2>1, TakesNext
<1>4. Bytes(m) # <<>> => \A b \in Calls : Follows(Head(todo), b) => Follows(Bytes(m)[Len(Bytes(m))], b)
  <2> SUFFICES ASSUME Bytes(m) # <<>>, NEW b \in Calls, Follows(Head(todo), b)
               PROVE  Follows(Bytes(m)[Len(Bytes(m))], b)
    OBVIOUS
  <2>1. m \in 1..m
    <3>1. m # 0
      BY <1>1
    <3> QED BY <3>1
  <2>2. Bytes(m)[Len(Bytes(m))].op = "byte"
    BY <1>1, <2>1
  <2> QED BY <1>3, <2>2, FollowsCases
<1>5. Linked(todo)' /\ todo' # <<>> /\ todo'[1] = IF Bytes(m) = <<>> THEN todo[2] ELSE Bytes(m)[1]
  BY <1>1, <1>4, ThenLinked
<1>6. todo'[1].op \in {"byte", "setup", "transfer", "advance", "hdmaEnd"}
  <2>1. CASE Bytes(m) = <<>>
    BY <1>2, <1>3, <1>5, <2>1
  <2>2. CASE Bytes(m) # <<>>
    <3>1. 1 \in 1..m
      <4>1. m # 0
        BY <1>1, <2>2
      <4> QED BY <4>1
    <3> QED BY <1>1, <1>5, <2>2, <3>1
  <2> QED BY <2>1, <2>2
<1>7. InTime'
  <2>1. /\ Len(todo') = m + Len(todo) - 1 /\ DOMAIN todo' = 1..Len(todo')
        /\ Len(todo) \in Nat \ {0} /\ DOMAIN todo = 1..Len(todo)
        /\ \A i \in 1..m : todo'[i] = Bytes(m)[i]
        /\ \A i \in (m + 1)..Len(todo') : todo'[i] = todo[i - m + 1] /\ i - m + 1 \in 2..Len(todo)
    BY <1>1, ThenIndex
  <2>2. m + 1 \in DOMAIN todo' /\ m + 1 \in (m + 1)..Len(todo') /\ (m + 1) - m + 1 = 2
    BY <1>2, <2>1
  <2>3. todo'[m + 1] = todo[2]
    BY <2>1, <2>2
  <2>4. \A i \in 1..m : todo'[i].op = "byte"
    BY <1>1, <2>1
  <2>5. todo'[m + 1].op # "byte"
    BY <1>2, <1>3, <2>3
  <2>6. 4 * m + Takes(todo'[m + 1], HdmaTime') < NextRequest'
    BY <2>3
  <2>7. /\ m + 1 \in DOMAIN todo' /\ \A i \in 1..m : todo'[i].op = "byte"
        /\ todo'[m + 1].op # "byte" /\ 4 * m + Takes(todo'[m + 1], HdmaTime') < NextRequest'
    BY <2>2, <2>4, <2>5, <2>6
  <2> QED BY <2>7 DEF InTime, Takes
<1> QED BY <1>5, <1>6, <1>7

\* Under HDMA the beam requests nothing, and the rest is again in time.
Done == TimeInv' /\ ~SetupDue /\ ~RunDue /\ ~hdmaPending'

LEMMA UnderDone ==
  ASSUME TypeOK, TimeInv, Under, NEW s \in Seq(Calls), Then(s),
         \A i \in DOMAIN s : s[i].op \notin Kept,
         dmaPending' = dmaPending, dmaActive' = dmaActive \/ dmaEnable' = {},
         dmaEnable' \subseteq dmaEnable,
         Linked(todo)', todo' # <<>>, todo'[1].op \in HdmaOps \cup {"edgeDma"},
         Flags', ~SetupDue, ~RunDue, ~hdmaPending', InTime'
  PROVE  Done
<1>1. Statuses'
  <2>1. todo'[1].op \notin {"dmaRun", "sync", "edge", "cycle"}
    BY DEF HdmaOps
  <2>2. todo # <<>> /\ Statuses
    BY DEF Under, TimeInv, Shape
  <2> QED BY <2>1, <2>2, StatusesKept
<1>2. OneRun'
  <2>1. \A i \in DOMAIN s : s[i].op # "align"
    BY DEF Kept
  <2> QED BY <2>1, ThenOneRun DEF Under, TimeInv, Shape
<1>3. InWait'
  BY DEF InWait
<1> QED BY <1>1, <1>2, <1>3 DEF Done, TimeInv, Shape

\* The DMA sync of an HDMA.
LEMMA SyncUnder == ASSUME TypeOK, TimeInv, Under, sync PROVE Done
<1>1. /\ Head(todo).op = "sync" /\ todo # <<>> /\ <<>> \in Seq(Calls) /\ Then(<<>>)
      /\ dmaPending' = dmaPending /\ dmaActive' = dmaActive /\ dmaEnable' = dmaEnable
      /\ step(4 - cpu) /\ 4 - cpu \in 1..6 /\ 4 - cpu <= 4 /\ 4 - cpu \in Nat
  BY DEF sync, Doing, SameStatus, SameEnables, TypeOK
<1>2. todo[2].op = "hdma" /\ Head(todo).op # "access"
  BY <1>1 DEF Under, HdmaOps
<1>3. 4 + HdmaTime + 6 < NextRequest /\ HdmaTime \in Nat /\ NextRequest \in Int /\ Flags /\ Linked(todo)
  BY <1>1, UnderFacts, TakesTypes, TimeFacts DEF TimeInv, Shape
<1>4. (4 - cpu) + (HdmaTime + 6) < NextRequest /\ HdmaTime + 6 \in Nat /\ ~hdmaPending
  BY <1>1, <1>3, UnderFacts
<1>5. /\ Flags' /\ ~SetupDue /\ ~RunDue /\ ~hdmaPending' /\ HdmaTime' = HdmaTime
      /\ HdmaTime + 6 < NextRequest'
  BY <1>1, <1>3, <1>4, StepUnder
<1>6. Linked(todo)' /\ todo' # <<>> /\ todo'[1] = todo[2]
  BY <1>1, <1>2, <1>3, ShortChains, ThenLinked
<1>7. InTime'
  <2>1. 1 \in DOMAIN todo'
    <3>1. todo' \in Seq(Calls)
      BY <1>1, ThenType
    <3> QED BY <1>6, <3>1
  <2>2. Takes(todo'[1], HdmaTime') = HdmaTime + 6
    BY <1>2, <1>5, <1>6, TakesTypes
  <2>3. /\ 0 + 1 \in DOMAIN todo' /\ \A i \in 1..0 : todo'[i].op = "byte"
        /\ todo'[0 + 1].op # "byte" /\ 4 * 0 + Takes(todo'[0 + 1], HdmaTime') < NextRequest'
    BY <1>2, <1>5, <1>3, <1>6, <2>1, <2>2
  <2>4. 0 \in Nat
    OBVIOUS
  <2> QED BY <2>3, <2>4 DEF InTime, Takes
<1>8. todo'[1].op \in HdmaOps \cup {"edgeDma"}
  BY <1>2, <1>6 DEF HdmaOps
<1>9. \A i \in DOMAIN <<>> : <<>>[i].op \notin Kept
  OBVIOUS
<1>10. dmaEnable' \subseteq dmaEnable
  BY <1>1
<1> QED BY <1>1, <1>5, <1>6, <1>7, <1>8, <1>9, <1>10, UnderDone

\* hdmaSetup() or hdmaRun() begins with the first channel.
LEMMA HdmaUnder == ASSUME TypeOK, TimeInv, hdma PROVE Under /\ Done
<1>1. /\ Head(todo).op = "hdma" /\ todo # <<>>
      /\ dmaPending' = dmaPending /\ dmaActive' = dmaActive /\ dmaEnable' = dmaEnable
      /\ step(4) /\ Flags /\ Linked(todo) /\ hdmaMode \in {"setup", "run"}
  BY DEF hdma, Doing, dmaStep, SameStatus, SameEnables, TimeInv, Shape, TypeOK
<1>2. Under
  BY <1>1 DEF Under, HdmaOps
<1>3. /\ HdmaTime + 6 < NextRequest /\ HdmaTime \in Nat /\ NextRequest \in Int /\ ~hdmaPending
      /\ NC \in Nat \ {0} /\ Longest \in {1, 2, 4}
  BY <1>1, <1>2, UnderFacts, TakesTypes, TimeFacts
<1>4. \E T \in Nat : T = HdmaTime + 2
  BY <1>3
<1>5. PICK T \in Nat : T = HdmaTime + 2
  BY <1>4
<1>6. 4 + T < NextRequest
  BY <1>3, <1>5
<1>7. /\ Flags' /\ ~SetupDue /\ ~RunDue /\ ~hdmaPending' /\ HdmaTime' = HdmaTime
      /\ T < NextRequest'
  BY <1>1, <1>3, <1>6, StepUnder
<1>8. PICK s \in Seq(Calls) :
        /\ Then(s) /\ Chain(s) /\ s # <<>> /\ s[Len(s)].op \in {"setup", "advance"}
        /\ s[Len(s)].c = NC - 1 /\ \A i \in DOMAIN s : s[i].op \in {"setup", "transfer", "advance"}
        /\ s[1].op # "byte" /\ Takes(s[1], HdmaTime) = T
  <2>1. \A k, c : Of(k, c).op = k /\ Of(k, c).c = c
    BY DEF Of
  <2>2. 1 \in 1..NC /\ NC \in 1..NC /\ 1 - 1 = 0
    BY <1>3
  <2>3. CASE hdmaMode = "setup"
    <3> DEFINE s == Each("setup")
    <3>1. /\ s \in Seq(Calls) /\ Chain(s) /\ s # <<>> /\ Len(s) = NC /\ DOMAIN s = 1..NC
          /\ \A i \in 1..NC : s[i] = Of("setup", i - 1)
      BY EachChain
    <3>2. Then(s)
      BY <2>3 DEF hdma
    <3> HIDE DEF s
    <3>3. s[1].op = "setup" /\ s[1].c = 0 /\ s[Len(s)].op = "setup" /\ s[Len(s)].c = NC - 1
      BY <2>1, <2>2, <3>1
    <3>4. \A i \in DOMAIN s : s[i].op = "setup"
      BY <2>1, <3>1
    <3>5. T = 12 * NC + 6
      BY <1>3, <1>5, <2>3 DEF HdmaTime, SetupTime
    <3>6. Takes(s[1], HdmaTime) = 12 * (NC - 0) + 6
      BY <3>3, TakesTypes
    <3>7. Takes(s[1], HdmaTime) = T
      BY <1>3, <3>5, <3>6
    <3> QED BY <3>1, <3>2, <3>3, <3>4, <3>7
  <2>4. CASE hdmaMode = "run"
    <3> DEFINE t == Each("transfer")
               a == Each("advance")
    <3>1. /\ t \in Seq(Calls) /\ Chain(t) /\ t # <<>> /\ Len(t) = NC /\ DOMAIN t = 1..NC
          /\ \A i \in 1..NC : t[i] = Of("transfer", i - 1)
      BY EachChain
    <3>2. /\ a \in Seq(Calls) /\ Chain(a) /\ a # <<>> /\ Len(a) = NC /\ DOMAIN a = 1..NC
          /\ \A i \in 1..NC : a[i] = Of("advance", i - 1)
      BY EachChain
    <3>3. Then(t \o a)
      BY <2>4 DEF hdma
    <3> HIDE DEF t, a
    <3>4. /\ t[1].op = "transfer" /\ t[1].c = 0 /\ a[1] = Of("advance", 0)
          /\ t[Len(t)].op = "transfer" /\ t[Len(t)].c = NC - 1
          /\ a[Len(a)].op = "advance" /\ a[Len(a)].c = NC - 1
      BY <2>1, <2>2, <3>1, <3>2
    <3>5. Follows(t[Len(t)], a[1])
      BY <3>4, FollowsCases
    <3>6. /\ Chain(t \o a) /\ t \o a # <<>> /\ t \o a \in Seq(Calls) /\ Len(t \o a) = Len(t) + Len(a)
          /\ (t \o a)[1] = t[1] /\ (t \o a)[Len(t \o a)] = a[Len(a)]
      BY <3>1, <3>2, <3>5, ConcatChain
    <3>7. \A i \in DOMAIN (t \o a) : (t \o a)[i].op \in {"transfer", "advance"}
      <4>1. \A i \in DOMAIN t : t[i].op = "transfer"
        BY <2>1, <3>1
      <4>2. \A i \in DOMAIN a : a[i].op = "advance"
        BY <2>1, <3>2
      <4>3. \A i \in DOMAIN (t \o a) : \/ i \in DOMAIN t /\ (t \o a)[i] = t[i]
                                       \/ i - Len(t) \in DOMAIN a /\ (t \o a)[i] = a[i - Len(t)]
        BY <3>1, <3>2
      <4> QED BY <4>1, <4>2, <4>3
    <3>8. T = 4 * Longest * NC + 12 * NC + 6
      BY <1>3, <1>5, <2>4 DEF HdmaTime, RunTime
    <3>9. Takes((t \o a)[1], HdmaTime) = 4 * Longest * (NC - 0) + 12 * NC + 6
      BY <3>4, <3>6, TakesTypes
    <3>10. NC - 0 = NC
      BY <1>3
    <3>11. Takes((t \o a)[1], HdmaTime) = T
      BY <3>8, <3>9, <3>10
    <3> QED BY <3>3, <3>4, <3>6, <3>7, <3>11
  <2> QED BY <1>1, <2>3, <2>4
<1>9. Linked(todo)' /\ todo' # <<>> /\ todo'[1] = s[1]
  <2>1. \A b \in Calls : Follows(Head(todo), b) => Follows(s[Len(s)], b)
    BY <1>1, <1>8, FollowsCases
  <2> QED BY <1>1, <1>8, <2>1, ThenLinked
<1>10. todo' \in Seq(Calls) /\ 1 \in DOMAIN todo' /\ 1 \in DOMAIN s
  <2>1. todo' \in Seq(Calls)
    BY <1>1, <1>8, ThenType
  <2> QED BY <1>8, <1>9, <2>1
<1>11. InTime'
  <2>1. Takes(todo'[1], HdmaTime') = T
    BY <1>7, <1>8, <1>9
  <2>2. /\ 0 + 1 \in DOMAIN todo' /\ \A i \in 1..0 : todo'[i].op = "byte"
        /\ todo'[0 + 1].op # "byte" /\ 4 * 0 + Takes(todo'[0 + 1], HdmaTime') < NextRequest'
    BY <1>7, <1>8, <1>9, <1>10, <2>1
  <2>3. 0 \in Nat
    OBVIOUS
  <2> QED BY <2>2, <2>3 DEF InTime, Takes
<1>12. todo'[1].op \in HdmaOps \cup {"edgeDma"} /\ \A i \in DOMAIN s : s[i].op \notin Kept
  BY <1>8, <1>9, <1>10 DEF HdmaOps, Kept, InDma
<1> QED BY <1>1, <1>2, <1>7, <1>8, <1>9, <1>11, <1>12, UnderDone

LEMMA NoneKept == /\ <<>> \in Seq(Calls) /\ Chain(<<>>)
                  /\ \A i \in DOMAIN <<>> : <<>>[i].op \notin Kept
                  /\ \A n \in Nat : /\ Bytes(n) \in Seq(Calls)
                                    /\ \A i \in DOMAIN Bytes(n) : Bytes(n)[i].op \notin Kept
<1>1. <<>> \in Seq(Calls) /\ Chain(<<>>) /\ \A i \in DOMAIN <<>> : <<>>[i].op \notin Kept
  BY ShortChains
<1>2. ASSUME NEW n \in Nat
      PROVE  Bytes(n) \in Seq(Calls) /\ \A i \in DOMAIN Bytes(n) : Bytes(n)[i].op \notin Kept
  BY BytesChain DEF Kept, InDma
<1> QED BY <1>1, <1>2

\* A byte of an HDMA channel.
LEMMA ByteUnder == ASSUME TypeOK, TimeInv, byte PROVE Under /\ Done
<1>1. /\ Head(todo).op = "byte" /\ todo # <<>> /\ <<>> \in Seq(Calls) /\ Then(<<>>)
      /\ dmaPending' = dmaPending /\ dmaActive' = dmaActive /\ dmaEnable' \subseteq dmaEnable
      /\ step(4) /\ Flags /\ Linked(todo)
  BY DEF byte, Doing, dmaStep, SameStatus, SameEnables, TimeInv, Shape
<1>2. Under
  BY <1>1 DEF Under, HdmaOps
<1>3. /\ ~hdmaPending /\ todo[1] = Head(todo) /\ Follows(Head(todo), todo[2]) /\ NextRequest \in Int
      /\ HdmaTime \in Nat /\ todo \in Seq(Calls)
  BY <1>2, UnderFacts, TimeFacts
<1>4. PICK k \in Nat :
        /\ k + 1 \in DOMAIN todo /\ \A i \in 1..k : todo[i].op = "byte"
        /\ todo[k + 1].op # "byte" /\ 4 * k + Takes(todo[k + 1], HdmaTime) < NextRequest
  BY <1>2 DEF TimeInv, InTime
<1>5. k # 0 /\ k - 1 \in Nat /\ (k - 1) + 1 = k
  <2>1. k # 0
    <3> SUFFICES ASSUME k = 0 PROVE FALSE
      OBVIOUS
    <3>1. todo[k + 1] = todo[1]
      OBVIOUS
    <3> QED BY <1>1, <1>3, <1>4, <3>1
  <2> QED BY <2>1
<1> DEFINE T == 4 * (k - 1) + Takes(todo[k + 1], HdmaTime)
<1>6. todo[k + 1].op \in {"setup", "transfer", "advance", "hdmaEnd"} /\ todo[k + 1] \in Calls
  <2>1. k \in 1..(Len(todo) - 1) /\ k \in 1..k /\ DOMAIN todo = 1..Len(todo)
    BY <1>3, <1>4, <1>5
  <2>2. Follows(todo[k], todo[k + 1]) /\ todo[k].op = "byte"
    BY <1>1, <1>4, <2>1 DEF Linked, Chain
  <2> QED BY <1>3, <1>4, <2>2, FollowsCases
<1>7. Takes(todo[k + 1], HdmaTime) \in Nat
  <2>1. /\ NC \in Nat /\ Longest \in {1, 2, 4}
        /\ todo[k + 1].op # "hdmaEnd" => NC - todo[k + 1].c \in Nat
    BY <1>6, TimeFacts DEF Calls, Channel, Plains, PerChannel
  <2>2. \A x \in {1, 2, 4}, y \in Nat : 4 * x * y + 12 * NC + 6 \in Nat
    BY <2>1
  <2>3. \A y \in Nat : 12 * y + 6 \in Nat
    OBVIOUS
  <2>4. CASE todo[k + 1].op = "transfer"
    <3>1. 4 * Longest * (NC - todo[k + 1].c) + 12 * NC + 6 \in Nat
      BY <2>1, <2>2, <2>4
    <3> QED BY <2>4, <3>1, TakesTypes
  <2>5. CASE todo[k + 1].op \in {"setup", "advance"}
    <3>1. 12 * (NC - todo[k + 1].c) + 6 \in Nat
      BY <2>1, <2>3, <2>5
    <3> QED BY <2>5, <3>1, TakesTypes
  <2>6. CASE todo[k + 1].op = "hdmaEnd"
    BY <2>6, TakesTypes
  <2> QED BY <1>6, <2>4, <2>5, <2>6
<1>8. T \in Nat /\ 4 + T < NextRequest
  BY <1>3, <1>4, <1>5, <1>7
<1> HIDE DEF T
<1>9. /\ Flags' /\ ~SetupDue /\ ~RunDue /\ ~hdmaPending' /\ HdmaTime' = HdmaTime
      /\ T < NextRequest'
  BY <1>1, <1>3, <1>8, StepUnder
<1>10. Linked(todo)' /\ todo' # <<>> /\ todo'[1] = todo[2]
  BY <1>1, NoneKept, ThenLinked
<1>11. InTime'
  <2>1. /\ Len(todo') = Len(<<>>) + Len(todo) - 1 /\ DOMAIN todo' = 1..Len(todo')
        /\ Len(todo) \in Nat \ {0} /\ DOMAIN todo = 1..Len(todo) /\ Len(<<>>) = 0
        /\ \A i \in (Len(<<>>) + 1)..Len(todo') : todo'[i] = todo[i - Len(<<>>) + 1]
    BY <1>1, ThenIndex
  <2>2. /\ Len(todo') = Len(todo) - 1 /\ DOMAIN todo' = 1..Len(todo')
        /\ \A i \in 1..Len(todo') : todo'[i] = todo[i + 1]
    BY <2>1
  <2>3. (k - 1) + 1 \in DOMAIN todo' /\ k \in 1..Len(todo')
    BY <1>4, <1>5, <2>1, <2>2
  <2>4. todo'[(k - 1) + 1] = todo[k + 1]
    BY <1>5, <2>2, <2>3
  <2>5. \A i \in 1..(k - 1) : todo'[i].op = "byte"
    <3> SUFFICES ASSUME NEW i \in 1..(k - 1) PROVE todo'[i].op = "byte"
      OBVIOUS
    <3>1. i \in 1..Len(todo') /\ i + 1 \in 1..k
      BY <1>5, <2>3
    <3> QED BY <1>4, <2>2, <3>1
  <2>6. 4 * (k - 1) + Takes(todo'[(k - 1) + 1], HdmaTime') < NextRequest'
    BY <1>9, <2>4 DEF T
  <2>7. /\ (k - 1) + 1 \in DOMAIN todo' /\ \A i \in 1..(k - 1) : todo'[i].op = "byte"
        /\ todo'[(k - 1) + 1].op # "byte" /\ 4 * (k - 1) + Takes(todo'[(k - 1) + 1], HdmaTime') < NextRequest'
    BY <1>4, <2>3, <2>4, <2>5, <2>6
  <2> QED BY <1>5, <2>7 DEF InTime, Takes
<1>12. todo'[1].op \in HdmaOps \cup {"edgeDma"}
  BY <1>1, <1>3, <1>10, FollowsCases DEF HdmaOps
<1> QED BY <1>1, <1>2, <1>9, <1>10, <1>11, <1>12, NoneKept, UnderDone

\* A channel of an HDMA: a step of n ticks or none, and then bytes, all within its time.
LEMMA ChannelUnder ==
  ASSUME TypeOK, TimeInv, todo # <<>>, NEW k \in {"setup", "transfer", "advance"},
         Head(todo).op = k, NEW m \in Nat, Then(Bytes(m)),
         \/ step(4) /\ m <= 2 /\ k # "transfer"
         \/ UNCHANGED beam /\ m = 0
         \/ UNCHANGED beam /\ m <= Longest /\ k = "transfer",
         dmaPending' = dmaPending, dmaActive' = dmaActive, dmaEnable' \subseteq dmaEnable
  PROVE  Done
<1>1. Under
  BY DEF Under, HdmaOps
<1>2. /\ ~hdmaPending /\ Head(todo) \in Calls /\ Follows(Head(todo), todo[2])
      /\ Takes(Head(todo), HdmaTime) < NextRequest /\ NextRequest \in Int
      /\ Flags /\ Linked(todo) /\ Longest \in {1, 2, 4}
  BY <1>1, UnderFacts, TimeFacts DEF TimeInv, Shape
<1> DEFINE t == Takes(todo[2], HdmaTime)
<1>3. /\ t \in Nat
      /\ k # "transfer" => t + 12 < NextRequest
      /\ k = "transfer" => t + 4 * Longest < NextRequest
  <2>1. Head(todo).c \in Channel
    BY <1>2 DEF Calls, Plains
  <2>2. CASE k # "transfer"
    BY <1>2, <2>1, <2>2, TakesNext
  <2>3. CASE k = "transfer"
    BY <1>2, <2>1, <2>3, TakesNext
  <2> QED BY <2>2, <2>3
<1>4. /\ Flags' /\ ~SetupDue /\ ~RunDue /\ ~hdmaPending' /\ HdmaTime' = HdmaTime
      /\ 4 * m + t < NextRequest'
  <2> HIDE DEF t
  <2>1. CASE step(4) /\ m <= 2 /\ k # "transfer"
    <3>1. 4 * m + t \in Nat /\ 4 + (4 * m + t) < NextRequest
      BY <1>2, <1>3, <2>1
    <3>2. 4 \in 1..6
      OBVIOUS
    <3> DEFINE T == 4 * m + t
    <3>3. T \in Nat /\ 4 + T < NextRequest
      BY <3>1
    <3> HIDE DEF T
    <3>4. /\ Flags' /\ ~SetupDue /\ ~RunDue /\ ~hdmaPending' /\ HdmaTime' = HdmaTime
          /\ T < NextRequest'
      BY <1>2, <2>1, <3>2, <3>3, StepUnder
    <3> QED BY <3>4 DEF T
  <2>2. CASE UNCHANGED beam /\ (m = 0 \/ (m <= Longest /\ k = "transfer"))
    <3>1. 4 * m + t < NextRequest
      BY <1>2, <1>3, <2>2
    <3>2. /\ Flags' /\ ~SetupDue /\ ~RunDue /\ HdmaTime' = HdmaTime /\ NextRequest' = NextRequest
      BY <1>2, <2>2, StillTime DEF beam
    <3>3. ~hdmaPending'
      BY <1>2, <2>2 DEF beam
    <3> QED BY <3>1, <3>2, <3>3
  <2> QED BY <2>1, <2>2
<1>5. 4 * m + Takes(todo[2], HdmaTime') < NextRequest'
  BY <1>4
<1> HIDE DEF t
<1>6. /\ Linked(todo)' /\ InTime' /\ todo' # <<>>
      /\ todo'[1].op \in {"byte", "setup", "transfer", "advance", "hdmaEnd"}
  BY <1>2, <1>5, UnderBytes
<1>7. todo'[1].op \in HdmaOps \cup {"edgeDma"}
  BY <1>6 DEF HdmaOps
<1> QED BY <1>1, <1>4, <1>6, <1>7, NoneKept, UnderDone

LEMMA NoBytes == Bytes(0) = <<>>
BY DEF Bytes

LEMMA ChannelsUnder ==
  ASSUME TypeOK, TimeInv, hdmaSetup \/ hdmaTransfer \/ hdmaAdvance PROVE Under /\ Done
<1>1. ASSUME NEW c, NEW again \in BOOLEAN, Reload(c, again)
      PROVE  /\ step(4) /\ \E m \in Nat : m <= 2 /\ Then(Bytes(m))
             /\ dmaPending' = dmaPending /\ dmaActive' = dmaActive
  <2>1. \E m \in Nat : m <= 2 /\ Then(Bytes(m))
    BY <1>1 DEF Reload
  <2> QED BY <1>1, <2>1 DEF Reload, dmaStep, SameStatus
<1>2. ASSUME hdmaSetup PROVE Under /\ Done
  <2>1. todo # <<>> /\ Head(todo).op = "setup" /\ dmaEnable' \subseteq dmaEnable
    BY <1>2 DEF hdmaSetup, Doing
  <2>2. \/ step(4) /\ \E m \in Nat : m <= 2 /\ Then(Bytes(m))
        \/ UNCHANGED beam /\ Then(Bytes(0))
    BY <1>1, <1>2, NoBytes DEF hdmaSetup
  <2>3. dmaPending' = dmaPending /\ dmaActive' = dmaActive
    BY <1>1, <1>2 DEF hdmaSetup, SameStatus
  <2>4. PICK m \in Nat : Then(Bytes(m)) /\ ((step(4) /\ m <= 2) \/ (UNCHANGED beam /\ m = 0))
    <3>1. CASE step(4) /\ \E m \in Nat : m <= 2 /\ Then(Bytes(m))
      BY <3>1, Zenon
    <3>2. CASE UNCHANGED beam /\ Then(Bytes(0))
      <4>1. 0 \in Nat
        OBVIOUS
      <4> QED BY <3>2, <4>1, Zenon
    <3> QED BY <2>2, <3>1, <3>2
  <2>5. Done
    BY <2>1, <2>3, <2>4, ChannelUnder
  <2> QED BY <2>1, <2>5 DEF Under, HdmaOps
<1>3. ASSUME hdmaTransfer PROVE Under /\ Done
  <2>1. todo # <<>> /\ Head(todo).op = "transfer" /\ dmaEnable' \subseteq dmaEnable
    BY <1>3 DEF hdmaTransfer, Doing
  <2>2. UNCHANGED beam /\ dmaPending' = dmaPending /\ dmaActive' = dmaActive
    BY <1>3 DEF hdmaTransfer, NoTime, SameStatus
  <2>3. PICK m \in Nat : Then(Bytes(m)) /\ m <= Longest
    BY <1>3, TimeFacts DEF hdmaTransfer
  <2>4. Done
    BY <2>1, <2>2, <2>3, ChannelUnder
  <2> QED BY <2>1, <2>4 DEF Under, HdmaOps
<1>4. ASSUME hdmaAdvance PROVE Under /\ Done
  <2>1. todo # <<>> /\ Head(todo).op = "advance" /\ dmaEnable' \subseteq dmaEnable
    BY <1>4 DEF hdmaAdvance, Doing, Skip, SameEnables
  <2>2. \/ step(4) /\ \E m \in Nat : m <= 2 /\ Then(Bytes(m))
        \/ UNCHANGED beam /\ Then(Bytes(0))
    BY <1>1, <1>4, NoBytes DEF hdmaAdvance, Skip, NoTime
  <2>3. dmaPending' = dmaPending /\ dmaActive' = dmaActive
    BY <1>1, <1>4 DEF hdmaAdvance, Skip, SameStatus
  <2>4. PICK m \in Nat : Then(Bytes(m)) /\ ((step(4) /\ m <= 2) \/ (UNCHANGED beam /\ m = 0))
    <3>1. CASE step(4) /\ \E m \in Nat : m <= 2 /\ Then(Bytes(m))
      BY <3>1, Zenon
    <3>2. CASE UNCHANGED beam /\ Then(Bytes(0))
      <4>1. 0 \in Nat
        OBVIOUS
      <4> QED BY <3>2, <4>1, Zenon
    <3> QED BY <2>2, <3>1, <3>2
  <2>5. Done
    BY <2>1, <2>3, <2>4, ChannelUnder
  <2> QED BY <2>1, <2>5 DEF Under, HdmaOps
<1> QED BY <1>2, <1>3, <1>4

\* The CPU sync waits for the CPU's own clock: less than the cycle it is in.
LEMMA AlignStep ==
  ASSUME TypeOK
  PROVE  clockCount - (dma % clockCount) \in 1..6
<1>1. clockCount \in Nat \ {0} /\ clockCount <= 6 /\ dma \in Nat
  BY DmaAssumption DEF TypeOK
<1>2. dma % clockCount \in 0..(clockCount - 1)
  BY <1>1, ModType
<1> QED BY <1>1, <1>2

\* After an HDMA: CPU sync if no DMA is enabled.
LEMMA EndUnder ==
  ASSUME TypeOK, TimeInv, hdmaEnd \/ (align /\ Head(todo).op = "hdmaEnd") PROVE Under /\ Done
<1>1. /\ Head(todo).op = "hdmaEnd" /\ todo # <<>> /\ Then(<<>>) /\ Linked(todo) /\ Flags
      /\ dmaPending' = dmaPending /\ dmaEnable' = dmaEnable
      /\ dmaActive' = dmaActive \/ dmaEnable' = {}
  BY DEF hdmaEnd, align, Skip, Doing, SameEnables, SameStatus, TimeInv, Shape
<1>2. Under
  BY <1>1 DEF Under, HdmaOps
<1>3. /\ ~hdmaPending /\ todo \in Seq(Calls) /\ Follows(Head(todo), todo[2])
      /\ 6 < NextRequest /\ NextRequest \in Int
  <2>1. Takes(Head(todo), HdmaTime) = 6 /\ Takes(Head(todo), HdmaTime) < NextRequest
    BY <1>1, <1>2, UnderFacts, TakesTypes
  <2> QED BY <1>2, <2>1, UnderFacts
<1>4. Flags' /\ ~SetupDue /\ ~RunDue /\ ~hdmaPending'
  <2>1. CASE hdmaEnd
    <3>1. UNCHANGED beam
      BY <2>1 DEF hdmaEnd, Skip, NoTime
    <3> QED BY <1>1, <1>3, <3>1, StillTime DEF beam
  <2>2. CASE align
    <3> DEFINE n == clockCount - (dma % clockCount)
    <3>1. step(n) /\ n \in 1..6
      BY <2>2, AlignStep DEF align
    <3> HIDE DEF n
    <3>2. n < NextRequest
      BY <1>3, <3>1
    <3> QED BY <1>1, <1>3, <3>1, <3>2, StepTime
  <2> QED BY <2>1, <2>2
<1>5. Linked(todo)' /\ todo' # <<>> /\ todo'[1] = todo[2]
  BY <1>1, NoneKept, ThenLinked
<1>6. todo'[1].op = "edgeDma"
  BY <1>1, <1>3, <1>5, FollowsCases
<1>7. todo'[1] = Head(todo')
  <2>1. todo' \in Seq(Calls)
    BY <1>1, ThenType, NoneKept
  <2> QED BY <1>5, <2>1
<1>8. InTime'
  BY <1>6, <1>7 DEF InTime, Under, HdmaOps
<1>9. dmaEnable' \subseteq dmaEnable /\ todo'[1].op \in HdmaOps \cup {"edgeDma"}
  BY <1>1, <1>6
<1> QED BY <1>1, <1>2, <1>4, <1>5, <1>8, <1>9, NoneKept, UnderDone

-----------------------------------------------------------------------------
(* The other calls keep a waiting HDMA in time, and the DMA behind it. *)

Fine == TimeInv' /\ (SetupDue \/ RunDue => ~hdmaPending)

LEMMA HeadIsFirst ==
  ASSUME TypeOK, todo # <<>>, NEW s \in Seq(Calls), Then(s), todo' # <<>>
  PROVE  Head(todo') = todo'[1]
<1>1. todo' \in Seq(Calls)
  BY ThenType
<1> QED BY <1>1

\* No call of an HDMA is next, so none is to be in time.
LEMMA NotUnder ==
  ASSUME todo' # <<>>, Head(todo') = todo'[1],
         todo'[1].op \notin HdmaOps, todo'[1].op = "sync" => todo'[2].op # "hdma"
  PROVE  InTime'
BY DEF InTime, Under

LEMMA LeftKept ==
  ASSUME TypeOK, todo # <<>>, NEW s \in Seq(Calls), Then(s),
         \A i \in DOMAIN s : s[i].op \notin Kept
  PROVE  /\ Left(InDma \cup {"dmaRun", "align"})' => Left(InDma \cup {"dmaRun", "align"})
         /\ Left(InDma \cup {"dmaRun", "align", "edgeDma"})' =>
              Left(InDma \cup {"dmaRun", "align", "edgeDma"})
<1>1. Left(InDma \cup {"dmaRun", "align"})' => Left(InDma \cup {"dmaRun", "align"})
  <2> DEFINE K == InDma \cup {"dmaRun", "align"}
  <2>1. \A i \in DOMAIN s : s[i].op \notin K
    BY DEF Kept
  <2> HIDE DEF K
  <2>2. Left(K)' => Left(K)
    BY <2>1, ThenLeft
  <2> QED BY <2>2 DEF K
<1>2. Left(Kept)' => Left(Kept)
  BY ThenLeft
<1> QED BY <1>1, <1>2 DEF Kept

\* A call of a DMA has no other DMA waiting, and is active or has been cleared.
LEMMA RunningFacts ==
  ASSUME TypeOK, TimeInv, todo # <<>>, Head(todo).op \in InDma \cup {"dmaRun", "align"}
  PROVE  /\ ~dmaPending /\ (dmaActive \/ dmaEnable = {})
         /\ Head(todo).op = "dmaRun" => dmaActive
<1>1. 1 \in DOMAIN todo /\ todo[1] = Head(todo)
  BY DEF TypeOK
<1>2. Left(InDma \cup {"dmaRun", "align"}) /\ Left(InDma \cup {"dmaRun", "align", "edgeDma"})
  BY <1>1 DEF Left
<1> QED BY <1>2 DEF TimeInv, Shape, Statuses

LEMMA EdgeEndFine == ASSUME TypeOK, TimeInv, edgeEnd PROVE Fine
<1>1. /\ Head(todo).op = "edgeEnd" /\ todo # <<>> /\ Then(<<>>) /\ UNCHANGED beam
      /\ dmaPending' = dmaPending /\ dmaEnable' = dmaEnable
      /\ dmaActive' = (dmaActive \/ dmaPending \/ hdmaPending)
      /\ Linked(todo) /\ OneRun /\ Flags /\ Statuses /\ InWait
  BY DEF edgeEnd, Doing, NoTime, SameEnables, TimeInv, Shape
<1>2. todo[2].op \in InDma \cup {"cycle"}
  BY <1>1, LinkedNext, FollowsCases
<1>3. Linked(todo)' /\ todo' # <<>> /\ todo'[1] = todo[2]
  BY <1>1, NoneKept, ThenLinked
<1>4. Head(todo') = todo[2] /\ OneRun'
  <2>1. Head(todo') = todo'[1]
    BY <1>1, <1>3, NoneKept, HeadIsFirst
  <2>2. \A i \in DOMAIN <<>> : <<>>[i].op # "align"
    OBVIOUS
  <2> QED BY <1>1, <1>3, <2>1, <2>2, NoneKept, ThenOneRun
<1>5. /\ Flags' /\ ~SetupDue /\ ~RunDue /\ HdmaTime' = HdmaTime /\ NextRequest' = NextRequest
      /\ hdmaPending' = hdmaPending
  BY <1>1, StillTime DEF beam
<1>6. InTime'
  BY <1>2, <1>3, <1>4, NotUnder DEF InDma, HdmaOps
<1>7. Statuses'
  <2>1. /\ Left(InDma \cup {"dmaRun", "align"})' => ~dmaPending'
        /\ Left(InDma \cup {"dmaRun", "align", "edgeDma"})' => dmaActive' \/ dmaEnable' = {}
    BY <1>1, LeftKept, NoneKept DEF Statuses
  <2>2. Head(todo').op = "cycle" /\ hdmaPending' => dmaActive'
    BY <1>1, <1>5
  <2> QED BY <1>2, <1>4, <2>1, <2>2 DEF Statuses, InDma
<1>8. InWait'
  <2> SUFFICES ASSUME hdmaPending PROVE Calm' /\ Waits' + 10 + HdmaTime' < NextRequest'
    BY <1>5 DEF InWait
  <2>1. Calm /\ Waits + 10 + HdmaTime < NextRequest
    BY <1>1 DEF InWait
  <2>2. Waits' = Waits
    BY <1>1, <1>2, <1>3, <1>4 DEF Waits, Doing, InDma
  <2>3. Calm'
    BY <1>1, <1>2, <1>3, <1>4, <2>1 DEF Calm, InDma, HdmaOps
  <2> QED BY <1>5, <2>1, <2>2, <2>3
<1> QED BY <1>1, <1>3, <1>4, <1>5, <1>6, <1>7, <1>8 DEF Fine, TimeInv, Shape

\* The DMA sync of a DMA.
LEMMA SyncFine == ASSUME TypeOK, TimeInv, ~Under, sync PROVE Fine
<1>1. /\ Head(todo).op = "sync" /\ todo # <<>> /\ Then(<<>>) /\ step(4 - cpu)
      /\ dmaPending' = dmaPending /\ dmaEnable' = dmaEnable /\ dmaActive' = dmaActive
      /\ Linked(todo) /\ OneRun /\ Flags /\ Statuses /\ InWait
      /\ 4 - cpu \in 1..6 /\ 4 + (4 - cpu) <= 16
  BY DEF sync, Doing, SameStatus, SameEnables, TimeInv, Shape, TypeOK
<1>2. todo[2].op = "dmaRun" /\ dmaActive /\ ~hdmaPending
  <2>1. todo[2].op = "dmaRun"
    BY <1>1, LinkedNext, FollowsCases DEF Under
  <2>2. ~hdmaPending
    BY <1>1 DEF InWait, Calm
  <2> QED BY <1>1, <2>1, <2>2 DEF Statuses
<1>3. Linked(todo)' /\ todo' # <<>> /\ todo'[1] = todo[2]
  BY <1>1, NoneKept, ThenLinked
<1>4. Head(todo') = todo[2] /\ OneRun'
  <2>1. Head(todo') = todo'[1]
    BY <1>1, <1>3, NoneKept, HeadIsFirst
  <2>2. \A i \in DOMAIN <<>> : <<>>[i].op # "align"
    OBVIOUS
  <2> QED BY <1>1, <1>3, <2>1, <2>2, NoneKept, ThenOneRun
<1>5. Flags' /\ (hdmaPending' => 4 + 10 + HdmaTime' < NextRequest')
  BY <1>1, <1>2, StepWait
<1>6. InTime'
  BY <1>2, <1>3, <1>4, NotUnder DEF HdmaOps
<1>7. Statuses'
  <2>1. /\ Left(InDma \cup {"dmaRun", "align"})' => ~dmaPending'
        /\ Left(InDma \cup {"dmaRun", "align", "edgeDma"})' => dmaActive' \/ dmaEnable' = {}
    BY <1>1, LeftKept, NoneKept DEF Statuses
  <2> QED BY <1>1, <1>2, <1>4, <2>1 DEF Statuses
<1>8. InWait'
  <2>1. Waits' = 4
    BY <1>2, <1>3, <1>4 DEF Waits, Doing
  <2>2. Calm'
    BY <1>2, <1>4 DEF Calm, HdmaOps
  <2> QED BY <1>5, <2>1, <2>2 DEF InWait
<1> QED BY <1>2, <1>3, <1>4, <1>5, <1>6, <1>7, <1>8 DEF Fine, TimeInv, Shape

LEMMA RunFine ==
  ASSUME TypeOK, TimeInv, todo # <<>>, Head(todo).op \in InDma \cup {"dmaRun"},
         NEW s \in Seq(Calls), Then(s), \A i \in DOMAIN s : s[i].op # "align",
         dmaPending' = dmaPending, dmaActive' = dmaActive, dmaEnable' \subseteq dmaEnable,
         Linked(todo)', todo' # <<>>, todo'[1].op \in {"edge", "start", "loop", "align"},
         todo'[1].op = "edge" /\ todo'[2].op = "loop" => dmaActive,
         Flags', SetupDue \/ RunDue => ~hdmaPending, InWait'
  PROVE  Fine
<1>1. ~dmaPending /\ (dmaActive \/ dmaEnable = {})
  BY RunningFacts
<1>2. Head(todo') = todo'[1] /\ OneRun'
  BY HeadIsFirst, ThenOneRun DEF TimeInv, Shape
<1>3. Statuses'
  <2>1. ~dmaPending' /\ (dmaActive' \/ dmaEnable' = {})
    BY <1>1
  <2>2. todo'[1].op \notin {"dmaRun", "sync", "cycle"}
    OBVIOUS
  <2>3. todo'[1].op = "edge" /\ todo'[2].op = "loop" => dmaActive'
    OBVIOUS
  <2> QED BY <1>2, <2>1, <2>2, <2>3 DEF Statuses
<1>4. InTime'
  BY <1>2, NotUnder DEF HdmaOps
<1> QED BY <1>2, <1>3, <1>4 DEF Fine, TimeInv, Shape

\* Two calls in place of the head.
LEMMA TwoCalls ==
  ASSUME TypeOK, todo # <<>>, NEW a \in Calls, NEW b \in Calls, Then(<<a, b>>)
  PROVE  /\ <<a, b>> \in Seq(Calls) /\ <<a, b>> # <<>> /\ Len(<<a, b>>) = 2
         /\ \A i \in DOMAIN <<a, b>> : <<a, b>>[i] \in {a, b}
         /\ <<a, b>>[1] = a /\ <<a, b>>[2] = b /\ todo'[2] = b
<1> DEFINE s == <<a, b>>
<1>1. /\ s \in Seq(Calls) /\ s # <<>> /\ Len(s) = 2 /\ s[1] = a /\ s[2] = b
      /\ \A i \in DOMAIN s : s[i] \in {a, b}
  OBVIOUS
<1>2. Then(s)
  OBVIOUS
<1> HIDE DEF s
<1>3. todo'[2] = s[2]
  <2>1. 2 \in 1..Len(s)
    BY <1>1
  <2> QED BY <1>1, <1>2, <2>1, ThenIndex
<1> QED BY <1>1, <1>3 DEF s

LEMMA ConcatIndex ==
  ASSUME NEW s \in Seq(Calls), NEW t \in Seq(Calls)
  PROVE  /\ \A i \in DOMAIN (s \o t) : \/ i \in DOMAIN s /\ (s \o t)[i] = s[i]
                                       \/ i - Len(s) \in DOMAIN t /\ (s \o t)[i] = t[i - Len(s)]
         /\ \A i \in DOMAIN t : (s \o t)[i + Len(s)] = t[i]
<1>1. /\ DOMAIN s = 1..Len(s) /\ DOMAIN t = 1..Len(t) /\ DOMAIN (s \o t) = 1..(Len(s) + Len(t))
      /\ Len(s) \in Nat /\ Len(t) \in Nat
  OBVIOUS
<1>2. /\ \A i \in 1..Len(s) : (s \o t)[i] = s[i]
      /\ \A i \in (Len(s) + 1)..(Len(s) + Len(t)) : (s \o t)[i] = t[i - Len(s)]
  OBVIOUS
<1>3. ASSUME NEW i \in DOMAIN (s \o t)
      PROVE  \/ i \in DOMAIN s /\ (s \o t)[i] = s[i]
             \/ i - Len(s) \in DOMAIN t /\ (s \o t)[i] = t[i - Len(s)]
  <2>1. CASE i \in 1..Len(s)
    BY <1>1, <1>2, <2>1
  <2>2. CASE i \notin 1..Len(s)
    <3>1. i \in (Len(s) + 1)..(Len(s) + Len(t)) /\ i - Len(s) \in 1..Len(t)
      BY <1>1, <2>2
    <3> QED BY <1>1, <1>2, <3>1
  <2> QED BY <2>1, <2>2
<1>4. ASSUME NEW i \in DOMAIN t PROVE (s \o t)[i + Len(s)] = t[i]
  <2>1. i + Len(s) \in (Len(s) + 1)..(Len(s) + Len(t)) /\ (i + Len(s)) - Len(s) = i
    BY <1>1
  <2> QED BY <1>2, <2>1
<1>5. \A i \in DOMAIN (s \o t) : \/ i \in DOMAIN s /\ (s \o t)[i] = s[i]
                                 \/ i - Len(s) \in DOMAIN t /\ (s \o t)[i] = t[i - Len(s)]
  BY <1>3
<1>6. \A i \in DOMAIN t : (s \o t)[i + Len(s)] = t[i]
  BY <1>4
<1> QED BY <1>5, <1>6

LEMMA DmaRunFine == ASSUME TypeOK, TimeInv, dmaRun PROVE Fine
<1>1. /\ Head(todo).op = "dmaRun" /\ todo # <<>> /\ step(4) /\ Flags /\ Linked(todo) /\ InWait
      /\ dmaPending' = dmaPending /\ dmaActive' = dmaActive /\ dmaEnable' = dmaEnable
      /\ Then(<<Plain("edge")>> \o Each("start"))
  BY DEF dmaRun, Doing, dmaStep, SameStatus, SameEnables, TimeInv, Shape
<1>2. dmaActive
  BY <1>1, RunningFacts
<1> DEFINE e == <<Plain("edge")>>
           t == Each("start")
<1>3. /\ e \in Seq(Calls) /\ Chain(e) /\ e # <<>> /\ Len(e) = 1 /\ e[1].op = "edge"
      /\ \A i \in DOMAIN e : e[i].op = "edge"
  <2>1. Plain("edge") \in Calls /\ Plain("edge").op = "edge"
    BY CallTypes DEF Plains, Plain
  <2> QED BY <2>1, ShortChains
<1>4. /\ t \in Seq(Calls) /\ Chain(t) /\ t # <<>> /\ Len(t) \in Nat /\ Len(t) >= 1
      /\ t[1].op = "start" /\ t[Len(t)].op = "start" /\ \A i \in DOMAIN t : t[i].op = "start"
  <2>1. /\ t \in Seq(Calls) /\ Chain(t) /\ t # <<>> /\ Len(t) = NC /\ DOMAIN t = 1..NC
        /\ \A i \in 1..NC : t[i] = Of("start", i - 1)
    BY EachChain
  <2>2. \A c : Of("start", c).op = "start"
    BY DEF Of
  <2>3. NC \in Nat \ {0} /\ 1 \in 1..NC /\ NC \in 1..NC
    BY DmaAssumption
  <2> HIDE DEF t
  <2> QED BY <2>1, <2>2, <2>3
<1>5. Then(e \o t)
  BY <1>1
<1> HIDE DEF e, t
<1>6. Follows(e[Len(e)], t[1])
  BY <1>3, <1>4, FollowsCases DEF InDma
<1>7. /\ Chain(e \o t) /\ e \o t # <<>> /\ e \o t \in Seq(Calls) /\ Len(e \o t) = Len(e) + Len(t)
      /\ (e \o t)[1] = e[1] /\ (e \o t)[Len(e \o t)] = t[Len(t)]
  BY <1>3, <1>4, <1>6, ConcatChain
<1>8. /\ (e \o t)[2] = t[1]
      /\ \A i \in DOMAIN (e \o t) : (e \o t)[i].op \in {"edge", "start"}
  <2>1. \A i \in DOMAIN (e \o t) : \/ i \in DOMAIN e /\ (e \o t)[i] = e[i]
                                   \/ i - Len(e) \in DOMAIN t /\ (e \o t)[i] = t[i - Len(e)]
    BY <1>3, <1>4, ConcatIndex
  <2>2. (e \o t)[2] = t[1]
    <3>1. 1 \in DOMAIN t
      BY <1>4
    <3>2. (e \o t)[1 + Len(e)] = t[1]
      BY <1>3, <1>4, <3>1, ConcatIndex
    <3>3. 1 + Len(e) = 2
      BY <1>3
    <3> QED BY <3>2, <3>3
  <2> QED BY <1>3, <1>4, <2>1, <2>2
<1>9. Linked(todo)' /\ todo' # <<>> /\ todo'[1].op = "edge"
  <2>1. \A b \in Calls : Follows(Head(todo), b) => Follows((e \o t)[Len(e \o t)], b)
    BY <1>1, <1>4, <1>7, FollowsCases DEF InDma
  <2> QED BY <1>1, <1>3, <1>5, <1>7, <2>1, ThenLinked
<1>10. todo'[2].op = "start"
  <2>1. 2 \in 1..Len(e \o t)
    BY <1>3, <1>4, <1>7
  <2>2. todo'[2] = (e \o t)[2]
    BY <1>1, <1>5, <1>7, <2>1, ThenIndex
  <2> QED BY <1>4, <1>8, <2>2
<1>11. Head(todo') = todo'[1]
  BY <1>1, <1>5, <1>7, <1>9, HeadIsFirst
<1>12. /\ Flags' /\ (SetupDue \/ RunDue => ~hdmaPending)
       /\ hdmaPending' => 0 + 10 + HdmaTime' < NextRequest'
  <2>1. hdmaPending => 4 + 0 + 10 + HdmaTime < NextRequest
    <3>1. hdmaPending => Waits + 10 + HdmaTime < NextRequest
      BY <1>1 DEF InWait
    <3>2. Waits = 4
      BY <1>1 DEF Waits, Doing
    <3> QED BY <3>1, <3>2, TimeFacts
  <2>2. 0 \in Nat /\ 0 + 4 <= 16 /\ 4 \in 1..6
    OBVIOUS
  <2> QED BY <1>1, <2>1, <2>2, StepWait
<1>13. InWait'
  <2>1. Waits' = 0
    BY <1>1, <1>2, <1>9, <1>11 DEF Waits, Doing
  <2>2. Calm'
    BY <1>9, <1>11 DEF Calm, HdmaOps
  <2> QED BY <1>12, <2>1, <2>2 DEF InWait
<1>14. dmaEnable' \subseteq dmaEnable /\ \A i \in DOMAIN (e \o t) : (e \o t)[i].op # "align"
  BY <1>1, <1>8
<1> QED BY <1>1, <1>2, <1>5, <1>7, <1>9, <1>10, <1>12, <1>13, <1>14, RunFine

\* start and loop: eight clocks, the edge, and the next part of the channel's DMA.
LEMMA PartFine ==
  ASSUME TypeOK, TimeInv, todo # <<>>, NEW p \in {"start", "loop"}, NEW q \in {"loop", "test"},
         Head(todo).op = p, ~hdmaPending, step(4), NEW c \in Channel,
         Then(<<Plain("edge"), Of(q, c)>>), q = "loop" => dmaActive,
         dmaPending' = dmaPending, dmaActive' = dmaActive, dmaEnable' = dmaEnable
  PROVE  Fine
<1>1. /\ Plain("edge") \in Calls /\ Of(q, c) \in Calls /\ Plain("edge").op = "edge" /\ Of(q, c).op = q
  BY CallTypes DEF Plains, PerChannel, Plain, Of
<1> DEFINE s == <<Plain("edge"), Of(q, c)>>
<1>2. /\ s \in Seq(Calls) /\ s # <<>> /\ Len(s) = 2 /\ s[1].op = "edge" /\ s[2].op = q
      /\ \A i \in DOMAIN s : s[i].op \in {"edge", q}
      /\ todo'[2].op = q /\ Then(s)
  BY <1>1, TwoCalls
<1>3. Chain(s)
  <2>1. Follows(Plain("edge"), Of(q, c))
    BY <1>1, FollowsCases DEF InDma
  <2> QED BY <2>1, ShortChains
<1> HIDE DEF s
<1>4. Linked(todo)' /\ todo' # <<>> /\ todo'[1].op = "edge"
  <2>1. \A b \in Calls : Follows(Head(todo), b) => Follows(s[Len(s)], b)
    BY <1>2, FollowsCases DEF InDma
  <2> QED BY <1>2, <1>3, <2>1, ThenLinked DEF TimeInv, Shape
<1>5. Head(todo') = todo'[1]
  BY <1>2, <1>4, HeadIsFirst
<1>6. /\ Flags' /\ (SetupDue \/ RunDue => ~hdmaPending)
      /\ hdmaPending' => 12 + 10 + HdmaTime' < NextRequest'
  <2>1. 12 \in Nat /\ 12 + 4 <= 16 /\ 4 \in 1..6
    OBVIOUS
  <2> QED BY <2>1, StepWait DEF TimeInv
<1>7. InWait'
  <2>1. Waits' \in {0, 12}
    BY <1>2, <1>4, <1>5 DEF Waits, Doing
  <2>2. Calm'
    BY <1>4, <1>5 DEF Calm, HdmaOps
  <2>3. hdmaPending' => Waits' + 10 + HdmaTime' < NextRequest'
    <3> SUFFICES ASSUME hdmaPending' PROVE Waits' + 10 + HdmaTime' < NextRequest'
      OBVIOUS
    <3> DEFINE w == Waits'
               d == HdmaTime'
               r == NextRequest'
    <3>1. w \in {0, 12} /\ d \in Nat /\ r \in Int /\ 12 + 10 + d < r
      <4>1. HdmaTime' \in Nat
        BY TimeFacts DEF HdmaTime
      <4>2. 4 \in 1..6
        OBVIOUS
      <4>3. NextRequest' \in Int
        BY <4>2, StepTime DEF TimeInv
      <4> QED BY <1>6, <2>1, <4>1, <4>3
    <3> HIDE DEF w, d, r
    <3>2. w + 10 + d < r
      BY <3>1
    <3> QED BY <3>2 DEF w, d, r
  <2> QED BY <2>2, <2>3 DEF InWait
<1>8. /\ dmaEnable' \subseteq dmaEnable /\ \A i \in DOMAIN s : s[i].op # "align"
      /\ Head(todo).op \in InDma \cup {"dmaRun"}
  BY <1>2 DEF InDma
<1>9. todo'[1].op = "edge" /\ todo'[2].op = "loop" => dmaActive
  BY <1>2
<1> QED BY <1>2, <1>4, <1>6, <1>7, <1>8, <1>9, RunFine

\* The head is done with, without time: what comes next is the start of a channel or
\* the end of the DMA.
LEMMA PartDone ==
  ASSUME TypeOK, TimeInv, todo # <<>>, Head(todo).op \in {"start", "test"}, Then(<<>>),
         UNCHANGED beam, dmaPending' = dmaPending, dmaActive' = dmaActive, dmaEnable' \subseteq dmaEnable
  PROVE  Fine
<1>1. todo[2].op \in {"start", "align"} /\ Linked(todo) /\ Flags /\ Head(todo).op # "access"
  BY LinkedNext, FollowsCases DEF InDma, TimeInv, Shape
<1>2. Linked(todo)' /\ todo' # <<>> /\ todo'[1] = todo[2]
  BY <1>1, NoneKept, ThenLinked
<1>3. Head(todo') = todo'[1]
  BY <1>2, NoneKept, HeadIsFirst
<1>4. /\ Flags' /\ ~SetupDue /\ ~RunDue /\ HdmaTime' = HdmaTime /\ NextRequest' = NextRequest
      /\ hdmaPending' = hdmaPending
  BY <1>1, StillTime DEF beam
<1>5. InWait'
  <2> SUFFICES ASSUME hdmaPending PROVE Calm' /\ Waits' + 10 + HdmaTime' < NextRequest'
    BY <1>4 DEF InWait
  <2>1. Waits + 10 + HdmaTime < NextRequest /\ dmaEnable = {}
    BY DEF TimeInv, InWait, Calm
  <2>2. Waits = 12
    BY DEF Waits, Doing
  <2>3. Waits' = 12
    BY <1>1, <1>2, <1>3 DEF Waits, Doing
  <2>4. Calm'
    BY <1>1, <1>2, <1>3, <2>1 DEF Calm, HdmaOps
  <2> QED BY <1>4, <2>1, <2>2, <2>3, <2>4
<1>6. /\ Head(todo).op \in InDma \cup {"dmaRun"} /\ todo'[1].op \in {"edge", "start", "loop", "align"}
      /\ ~(todo'[1].op = "edge" /\ todo'[2].op = "loop")
      /\ \A i \in DOMAIN <<>> : <<>>[i].op # "align"
  BY <1>1, <1>2 DEF InDma
<1> QED BY <1>2, <1>4, <1>5, <1>6, NoneKept, RunFine

LEMMA ChannelFine == ASSUME TypeOK, TimeInv, start \/ loop \/ test PROVE Fine
<1>1. ASSUME todo # <<>>, Head(todo).op \in PerChannel PROVE it \in Channel
  BY <1>1 DEF it, TypeOK, Calls, PerChannel, Plains
<1>2. CASE start
  <2>1. todo # <<>> /\ Head(todo).op = "start" /\ it \in Channel
    BY <1>1, <1>2 DEF start, Doing, PerChannel
  <2>2. dmaPending' = dmaPending /\ dmaActive' = dmaActive /\ dmaEnable' = dmaEnable
    BY <1>2 DEF start, Skip, SameStatus, SameEnables
  <2>3. CASE it \in dmaEnable
    <3>1. step(4) /\ Then(<<Plain("edge"), Of("loop", it)>>)
      BY <1>2, <2>3 DEF start, dmaStep
    <3>2. ~hdmaPending
      BY <2>1, <2>3 DEF TimeInv, InWait, Calm
    <3>3. dmaActive
      BY <2>1, <2>3, RunningFacts DEF InDma
    <3> QED BY <2>1, <2>2, <3>1, <3>2, <3>3, PartFine
  <2>4. CASE it \notin dmaEnable
    <3>1. Then(<<>>) /\ UNCHANGED beam /\ dmaEnable' \subseteq dmaEnable
      BY <1>2, <2>2, <2>4 DEF start, Skip, NoTime
    <3> QED BY <2>1, <2>2, <3>1, PartDone
  <2> QED BY <2>3, <2>4
<1>3. CASE loop
  <2>1. todo # <<>> /\ Head(todo).op = "loop" /\ it \in Channel
    BY <1>1, <1>3 DEF loop, Doing, PerChannel
  <2>2. /\ dmaPending' = dmaPending /\ dmaActive' = dmaActive /\ dmaEnable' = dmaEnable
        /\ step(4) /\ Then(<<Plain("edge"), Of("test", it)>>)
    BY <1>3 DEF loop, dmaStep, SameStatus, SameEnables
  <2>3. ~hdmaPending
    BY <2>1 DEF TimeInv, InWait, Calm
  <2> QED BY <2>1, <2>2, <2>3, PartFine
<1>4. CASE test
  <2>1. todo # <<>> /\ Head(todo).op = "test" /\ it \in Channel
    BY <1>1, <1>4 DEF test, Doing, PerChannel
  <2>2. dmaPending' = dmaPending /\ dmaActive' = dmaActive /\ UNCHANGED beam
    BY <1>4 DEF test, SameStatus, NoTime
  <2>3. CASE Then(<<>>) /\ dmaEnable' = dmaEnable \ {it}
    <3>1. dmaEnable' \subseteq dmaEnable
      BY <2>3
    <3> QED BY <2>1, <2>2, <2>3, <3>1, PartDone
  <2>4. CASE it \in dmaEnable /\ Then(<<Of("loop", it)>>) /\ dmaEnable' = dmaEnable
    <3> DEFINE s == <<Of("loop", it)>>
    <3>1. /\ s \in Seq(Calls) /\ Chain(s) /\ s # <<>> /\ Len(s) = 1 /\ s[1].op = "loop" /\ Then(s)
          /\ \A i \in DOMAIN s : s[i].op # "align"
      <4>1. Of("loop", it) \in Calls /\ Of("loop", it).op = "loop"
        BY <2>1, CallTypes DEF PerChannel, Of
      <4> QED BY <2>4, <4>1, ShortChains
    <3> HIDE DEF s
    <3>2. Linked(todo)' /\ todo' # <<>> /\ todo'[1].op = "loop"
      <4>1. \A b \in Calls : Follows(Head(todo), b) => Follows(s[Len(s)], b)
        BY <2>1, <3>1, FollowsCases DEF InDma
      <4> QED BY <2>1, <3>1, <4>1, ThenLinked DEF TimeInv, Shape
    <3>3. ~hdmaPending /\ Flags
      BY <2>1, <2>4 DEF TimeInv, InWait, Calm
    <3>4. Flags' /\ ~SetupDue /\ ~RunDue /\ ~hdmaPending'
      BY <2>2, <3>3, StillTime DEF beam
    <3>5. InWait' /\ dmaEnable' \subseteq dmaEnable /\ Head(todo).op \in InDma \cup {"dmaRun"}
      BY <2>1, <2>4, <3>4 DEF InWait, InDma
    <3>6. ~(todo'[1].op = "edge" /\ todo'[2].op = "loop")
      BY <3>2
    <3> QED BY <2>1, <2>2, <3>1, <3>2, <3>4, <3>5, <3>6, RunFine
  <2> QED BY <1>4, <2>3, <2>4 DEF test
<1> QED BY <1>2, <1>3, <1>4

\* At the end of a DMA: CPU sync, and only the CPU's own cycle is left.
LEMMA AlignFine == ASSUME TypeOK, TimeInv, align, Head(todo).op = "align" PROVE Fine
<1> DEFINE n == clockCount - (dma % clockCount)
<1>1. /\ todo # <<>> /\ Then(<<>>) /\ step(n) /\ n \in 1..6
      /\ dmaPending' = dmaPending /\ dmaEnable' = dmaEnable /\ dmaActive' = FALSE
      /\ Linked(todo) /\ OneRun /\ Flags /\ InWait
  BY AlignStep DEF align, Doing, SameEnables, TimeInv, Shape
<1> HIDE DEF n
<1>2. /\ 1 \in DOMAIN todo /\ todo[1].op = "align" /\ todo[2].op = "edgeEnd"
      /\ 3 \in DOMAIN todo /\ todo[3].op = "cycle" /\ todo \in Seq(Calls)
  <2>1. 1 \in DOMAIN todo /\ todo[1].op = "align" /\ todo \in Seq(Calls)
    BY <1>1 DEF TypeOK
  <2>2. 1 + 2 \in DOMAIN todo /\ todo[1 + 2].op = "cycle"
    BY <1>1, <2>1 DEF OneRun
  <2>3. todo[2].op = "edgeEnd"
    BY <1>1, LinkedNext, FollowsCases
  <2> QED BY <2>1, <2>2, <2>3
<1>3. /\ Linked(todo)' /\ todo' # <<>> /\ todo'[1] = todo[2] /\ todo'[2] = todo[3]
      /\ Len(todo') = Len(todo) - 1
  <2>1. Linked(todo)' /\ todo' # <<>> /\ todo'[1] = todo[2]
    BY <1>1, NoneKept, ThenLinked
  <2>2. /\ Len(todo') = Len(<<>>) + Len(todo) - 1 /\ Len(<<>>) = 0 /\ DOMAIN todo = 1..Len(todo)
        /\ \A i \in (Len(<<>>) + 1)..Len(todo') : todo'[i] = todo[i - Len(<<>>) + 1]
        /\ Len(todo) \in Nat
    BY <1>1, NoneKept, ThenIndex
  <2>3. /\ Len(todo') = Len(todo) - 1 /\ \A i \in 1..Len(todo') : todo'[i] = todo[i + 1]
    BY <2>2
  <2>4. 2 \in 1..Len(todo')
    BY <1>2, <2>2, <2>3
  <2>5. todo'[2] = todo[2 + 1]
    BY <2>3, <2>4
  <2> QED BY <2>1, <2>3, <2>5
<1>4. Len(todo) = 4 /\ todo[4].op = "access"
  <2>1. Len(todo) \in Nat /\ DOMAIN todo = 1..Len(todo) /\ Len(todo) >= 3
    BY <1>2
  <2>2. Len(todo) # 3
    BY <1>1, <1>2 DEF Linked
  <2>3. 3 \in 1..(Len(todo) - 1)
    BY <2>1, <2>2
  <2>4. Follows(todo[3], todo[3 + 1])
    BY <1>1, <2>3 DEF Linked, Chain
  <2>5. todo[4].op = "access"
    BY <1>2, <2>4, FollowsCases
  <2>6. Len(todo) = 4
    <3> SUFFICES ASSUME Len(todo) # 4 PROVE FALSE
      OBVIOUS
    <3>1. 4 \in 1..(Len(todo) - 1)
      BY <2>1, <2>2
    <3>2. Follows(todo[4], todo[4 + 1])
      BY <1>1, <3>1 DEF Linked, Chain
    <3> QED BY <2>5, <3>2 DEF Follows, InDma
  <2> QED BY <2>5, <2>6
<1>5. Head(todo') = todo'[1] /\ OneRun'
  <2>1. \A i \in DOMAIN <<>> : <<>>[i].op # "align"
    OBVIOUS
  <2> QED BY <1>1, <1>3, <2>1, NoneKept, HeadIsFirst, ThenOneRun
<1>6. /\ Flags' /\ (SetupDue \/ RunDue => ~hdmaPending)
      /\ hdmaPending' => 6 + 10 + HdmaTime' < NextRequest'
  <2>1. hdmaPending => n + 6 + 10 + HdmaTime < NextRequest
    <3>1. hdmaPending => Waits + 10 + HdmaTime < NextRequest
      BY <1>1 DEF InWait
    <3>2. Waits = 12
      BY <1>1 DEF Waits, Doing
    <3> QED BY <1>1, <3>1, <3>2, TimeFacts, NextRequestInt
  <2>2. 6 \in Nat /\ 6 + n <= 16
    BY <1>1
  <2> QED BY <1>1, <2>1, <2>2, StepWait
<1>7. InWait'
  <2>1. Waits' = 6
    BY <1>1, <1>2, <1>3, <1>5 DEF Waits, Doing
  <2>2. Calm'
    BY <1>2, <1>3, <1>5 DEF Calm, HdmaOps
  <2> QED BY <1>6, <2>1, <2>2 DEF InWait
<1>8. InTime'
  BY <1>2, <1>3, <1>5, NotUnder DEF HdmaOps
<1>9. Statuses'
  <2>1. \A i \in DOMAIN todo : i = 1 \/ todo[i].op \in {"edgeEnd", "cycle", "access"}
    <3>1. DOMAIN todo = 1..4
      BY <1>2, <1>4
    <3> QED BY <1>2, <1>4, <3>1
  <2>2. ~Left(Kept)'
    <3> SUFFICES ASSUME Left(Kept)' PROVE FALSE
      OBVIOUS
    <3>1. \E i \in DOMAIN todo : i # 1 /\ todo[i].op \in Kept
      BY <1>1, NoneKept, ThenLeft
    <3> QED BY <2>1, <3>1 DEF Kept, InDma
  <2>3. ~Left(InDma \cup {"dmaRun", "align"})' /\ ~Left(InDma \cup {"dmaRun", "align", "edgeDma"})'
    BY <2>2 DEF Left, Kept
  <2> QED BY <1>2, <1>3, <1>5, <2>3 DEF Statuses
<1> QED BY <1>3, <1>5, <1>6, <1>7, <1>8, <1>9 DEF Fine, TimeInv, Shape

\* What dmaEdge() puts before the rest of the cycle.
LEMMA EdgeCalls ==
  ASSUME TypeOK, edge
  PROVE  \E s \in Seq(Calls) :
           /\ Then(s) /\ Chain(s) /\ s # <<>> /\ s[Len(s)].op = "edgeEnd"
           /\ \A i \in DOMAIN s : s[i].op \notin InDma \cup {"dmaRun", "align"}
           /\ \/ ~dmaActive /\ hdmaPending' = hdmaPending /\ s[1].op = "edgeEnd"
                 /\ Len(s) = 1 /\ \A i \in DOMAIN s : s[i].op # "edgeDma"
              \/ dmaActive /\ ~hdmaPending' /\ s[1].op = "edgeDma"
              \/ dmaActive /\ ~hdmaPending' /\ hdmaPending /\ s[1].op = "hdma"
              \/ dmaActive /\ ~hdmaPending' /\ hdmaPending /\ s[1].op = "sync"
                 /\ 2 \in 1..Len(s) /\ s[2].op = "hdma"
<1> DEFINE S == <<Plain("sync")>>
           H == <<Plain("hdma"), Plain("hdmaEnd")>>
           D == <<Plain("edgeDma"), Plain("edgeEnd")>>
           E == <<Plain("edgeEnd")>>
           Free(s) == \A i \in DOMAIN s : s[i].op \notin InDma \cup {"dmaRun", "align"}
<1>1. /\ \A k \in Plains : Plain(k) \in Calls /\ Plain(k).op = k
      /\ {"sync", "hdma", "hdmaEnd", "edgeDma", "edgeEnd"} \subseteq Plains
  BY CallTypes DEF Plain, Plains
<1>2. /\ S \in Seq(Calls) /\ Len(S) = 1 /\ S # <<>> /\ S[1].op = "sync" /\ Chain(S) /\ Free(S)
      /\ E \in Seq(Calls) /\ Len(E) = 1 /\ E # <<>> /\ E[1].op = "edgeEnd" /\ Chain(E) /\ Free(E)
      /\ \A i \in DOMAIN E : E[i].op # "edgeDma"
  BY <1>1, ShortChains DEF InDma
<1>3. /\ H \in Seq(Calls) /\ Len(H) = 2 /\ H # <<>> /\ H[1].op = "hdma" /\ H[2].op = "hdmaEnd"
      /\ Chain(H) /\ Free(H)
  <2>1. Follows(Plain("hdma"), Plain("hdmaEnd"))
    BY <1>1, FollowsCases
  <2> QED BY <1>1, <2>1, ShortChains DEF InDma
<1>4. /\ D \in Seq(Calls) /\ Len(D) = 2 /\ D # <<>> /\ D[1].op = "edgeDma" /\ D[2].op = "edgeEnd"
      /\ Chain(D) /\ Free(D)
  <2>1. Follows(Plain("edgeDma"), Plain("edgeEnd"))
    BY <1>1, FollowsCases
  <2> QED BY <1>1, <2>1, ShortChains DEF InDma
<1>5. ASSUME NEW s \in Seq(Calls), NEW t \in Seq(Calls), Free(s), Free(t) PROVE Free(s \o t)
  <2> SUFFICES ASSUME NEW i \in DOMAIN (s \o t)
               PROVE  (s \o t)[i].op \notin InDma \cup {"dmaRun", "align"}
    OBVIOUS
  <2> QED BY <1>5, ConcatIndex
<1>6. /\ \A s \in Seq(Calls) : <<>> \o s = s
      /\ dmaActive /\ hdmaPending =>
           /\ ~hdmaPending'
           /\ Then((IF hdmaEnable # {} /\ dmaEnable = {} THEN S ELSE <<>>)
                   \o (IF hdmaEnable # {} THEN H ELSE <<>>) \o D)
      /\ ~(dmaActive /\ hdmaPending) =>
           hdmaPending' = hdmaPending /\ Then((IF dmaActive THEN <<Plain("edgeDma")>> ELSE <<>>) \o E)
  BY DEF edge
<1>7. <<Plain("edgeDma")>> \o E = D
  <2> DEFINE e == <<Plain("edgeDma")>>
             w == e \o E
  <2>1. e \in Seq(Calls) /\ Len(e) = 1 /\ e[1] = D[1] /\ E[1] = D[2]
    BY <1>1
  <2>2. w \in Seq(Calls) /\ Len(w) = 2 /\ w[1] = D[1] /\ w[2] = D[2]
    <3> HIDE DEF e, E, D
    <3> QED BY <1>2, <2>1
  <2> HIDE DEF w, D, e, E
  <2>3. \A i \in 1..2 : w[i] = D[i]
    BY <2>2
  <2>4. w = D
    BY <1>4, <2>2, <2>3
  <2> QED BY <2>4 DEF w, e
<1> HIDE DEF S, H, D, E
<1>8. CASE dmaActive /\ hdmaPending /\ hdmaEnable # {} /\ dmaEnable = {}
  <2>1. Follows(S[Len(S)], H[1]) /\ Follows(H[Len(H)], D[1])
    BY <1>2, <1>3, <1>4, FollowsCases
  <2> DEFINE SH == S \o H
  <2>2. /\ Chain(SH) /\ SH # <<>> /\ SH \in Seq(Calls) /\ Len(SH) = 3
        /\ SH[1].op = "sync" /\ SH[Len(SH)] = H[Len(H)] /\ Free(SH)
    BY <1>2, <1>3, <1>5, <2>1, ConcatChain
  <2>3. SH[2].op = "hdma"
    <3>1. 1 \in DOMAIN H /\ 1 + Len(S) = 2
      BY <1>2, <1>3
    <3>2. SH[1 + Len(S)] = H[1]
      BY <1>2, <1>3, <3>1, ConcatIndex
    <3> QED BY <1>3, <3>1, <3>2
  <2>4. Then(SH \o D)
    BY <1>6, <1>8
  <2> HIDE DEF SH
  <2> DEFINE s == SH \o D
  <2>5. /\ Chain(s) /\ s # <<>> /\ s \in Seq(Calls) /\ Len(s) = 5
        /\ s[1].op = "sync" /\ s[Len(s)].op = "edgeEnd" /\ Free(s)
    <3>1. Follows(SH[Len(SH)], D[1])
      BY <2>1, <2>2
    <3>2. /\ Chain(SH \o D) /\ SH \o D # <<>> /\ SH \o D \in Seq(Calls)
          /\ Len(SH \o D) = Len(SH) + Len(D)
          /\ (SH \o D)[1] = SH[1] /\ (SH \o D)[Len(SH \o D)] = D[Len(D)]
      BY <1>4, <2>2, <3>1, ConcatChain
    <3>3. Free(SH \o D)
      BY <1>4, <1>5, <2>2
    <3> HIDE DEF Free
    <3> QED BY <1>4, <2>2, <3>2, <3>3
  <2>6. s[2].op = "hdma" /\ 2 \in 1..Len(s)
    <3>1. 2 \in 1..Len(SH)
      BY <2>2
    <3>2. s[2] = SH[2]
      BY <1>4, <2>2, <3>1
    <3> QED BY <2>3, <2>5, <3>2
  <2> HIDE DEF s, Free
  <2>7. Then(s)
    BY <2>4 DEF s
  <2> QED BY <1>6, <1>8, <2>5, <2>6, <2>7 DEF Free
<1>9. CASE dmaActive /\ hdmaPending /\ hdmaEnable # {} /\ dmaEnable # {}
  <2>1. Follows(H[Len(H)], D[1])
    BY <1>3, <1>4, FollowsCases
  <2>2. <<>> \o H = H
    BY <1>3, <1>6
  <2>3. Then(H \o D)
    BY <1>6, <1>9, <2>2
  <2> DEFINE s == H \o D
  <2>4. /\ Chain(s) /\ s # <<>> /\ s \in Seq(Calls)
        /\ s[1].op = "hdma" /\ s[Len(s)].op = "edgeEnd" /\ Free(s)
    BY <1>3, <1>4, <1>5, <2>1, ConcatChain
  <2> HIDE DEF s, Free
  <2>5. Then(s)
    BY <2>3 DEF s
  <2> QED BY <1>6, <1>9, <2>4, <2>5 DEF Free
<1>10. CASE dmaActive /\ ~(hdmaPending /\ hdmaEnable # {})
  <2>1. <<>> \o <<>> = <<>> /\ <<>> \o D = D
    <3>1. <<>> \in Seq(Calls)
      OBVIOUS
    <3> QED BY <1>4, <1>6, <3>1
  <2>2. Then(D) /\ ~hdmaPending'
    <3>1. CASE hdmaPending /\ hdmaEnable = {}
      BY <1>6, <1>10, <2>1, <3>1
    <3>2. CASE ~hdmaPending
      <4>1. hdmaPending' = hdmaPending /\ Then((IF dmaActive THEN <<Plain("edgeDma")>> ELSE <<>>) \o E)
        BY <1>6, <3>2
      <4>2. (IF dmaActive THEN <<Plain("edgeDma")>> ELSE <<>>) \o E = D
        BY <1>7, <1>10
      <4>3. Then(D)
        BY <4>1, <4>2, Zenon
      <4>4. ~hdmaPending'
        BY <3>2, <4>1, Zenon
      <4> QED BY <4>3, <4>4
    <3> QED BY <1>10, <3>1, <3>2
  <2> HIDE DEF Free
  <2>3. D[Len(D)].op = "edgeEnd"
    BY <1>4
  <2> QED BY <1>4, <1>10, <2>2, <2>3 DEF Free
<1>11. CASE ~dmaActive
  <2>1. <<>> \o E = E
    BY <1>2, <1>6
  <2>2. Then(E) /\ hdmaPending' = hdmaPending
    BY <1>6, <1>11, <2>1
  <2> HIDE DEF Free
  <2>3. E[Len(E)].op = "edgeEnd"
    BY <1>2
  <2> QED BY <1>2, <1>11, <2>2, <2>3 DEF Free
<1> QED BY <1>8, <1>9, <1>10, <1>11

LEMMA EdgeFine == ASSUME TypeOK, TimeInv, edge PROVE Fine
<1>1. /\ Head(todo).op = "edge" /\ todo # <<>> /\ todo[1] = Head(todo) /\ 1 \in DOMAIN todo
      /\ dmaPending' = dmaPending /\ dmaEnable' = dmaEnable /\ dmaActive' = dmaActive
      /\ Linked(todo) /\ OneRun /\ Flags /\ Statuses /\ InWait
      /\ UNCHANGED <<v, h, hdmaSetupPosition, hdmaSetupTriggered, hdmaTriggered, hdmaMode>>
  BY DEF edge, Doing, SameStatus, SameEnables, TimeInv, Shape, TypeOK
<1>2. todo[2].op \in InDma \cup {"cycle"} /\ 2 \in DOMAIN todo
  BY <1>1, LinkedNext, FollowsCases
<1>3. PICK s \in Seq(Calls) :
           /\ Then(s) /\ Chain(s) /\ s # <<>> /\ s[Len(s)].op = "edgeEnd"
           /\ \A i \in DOMAIN s : s[i].op \notin InDma \cup {"dmaRun", "align"}
           /\ \/ ~dmaActive /\ hdmaPending' = hdmaPending /\ s[1].op = "edgeEnd"
                 /\ Len(s) = 1 /\ \A i \in DOMAIN s : s[i].op # "edgeDma"
              \/ dmaActive /\ ~hdmaPending' /\ s[1].op = "edgeDma"
              \/ dmaActive /\ ~hdmaPending' /\ hdmaPending /\ s[1].op = "hdma"
              \/ dmaActive /\ ~hdmaPending' /\ hdmaPending /\ s[1].op = "sync"
                 /\ 2 \in 1..Len(s) /\ s[2].op = "hdma"
  BY EdgeCalls
<1>4. Linked(todo)' /\ todo' # <<>> /\ todo'[1] = s[1]
  <2>1. \A b \in Calls : Follows(Head(todo), b) => Follows(s[Len(s)], b)
    BY <1>1, <1>3, FollowsCases
  <2> QED BY <1>1, <1>3, <2>1, ThenLinked
<1>5. Head(todo') = todo'[1] /\ OneRun'
  <2>1. Head(todo') = todo'[1]
    BY <1>1, <1>3, <1>4, HeadIsFirst
  <2> QED BY <1>1, <1>3, <2>1, ThenOneRun
<1>6. /\ Flags' /\ ~SetupDue /\ ~RunDue /\ HdmaTime' = HdmaTime /\ NextRequest' = NextRequest
  BY <1>1, StillTime
<1>7. s[1].op = "sync" => todo'[2].op = "hdma"
  BY <1>1, <1>3, ThenIndex
<1>8. hdmaPending /\ dmaActive => 10 + HdmaTime < NextRequest
  <2> SUFFICES ASSUME hdmaPending, dmaActive PROVE 10 + HdmaTime < NextRequest
    OBVIOUS
  <2>1. Waits + 10 + HdmaTime < NextRequest /\ Waits = 0
    BY <1>1 DEF InWait, Waits, Doing
  <2> QED BY <2>1, TimeFacts
<1>9. InTime'
  <2>1. CASE s[1].op \in {"hdma", "sync"}
    <3>1. 10 + HdmaTime < NextRequest /\ HdmaTime \in Nat /\ NextRequest \in Int
      BY <1>3, <1>8, <2>1, TimeFacts, NextRequestInt
    <3>2. Takes(todo'[1], HdmaTime) < NextRequest
      BY <1>4, <2>1, <3>1, TakesTypes
    <3>3. /\ 0 \in Nat /\ 0 + 1 \in DOMAIN todo' /\ \A i \in 1..0 : todo'[i].op = "byte"
          /\ todo'[0 + 1].op # "byte" /\ 4 * 0 + Takes(todo'[0 + 1], HdmaTime') < NextRequest'
      <4>1. 1 \in DOMAIN todo'
        <5>1. todo' \in Seq(Calls)
          BY <1>1, <1>3, ThenType
        <5> QED BY <1>4, <5>1
      <4>2. Takes(todo'[1], HdmaTime') < NextRequest'
        BY <1>6, <3>2
      <4>3. Takes(todo'[1], HdmaTime) \in Int
        BY <1>4, <2>1, <3>1, TakesTypes
      <4>4. 4 * 0 + Takes(todo'[1], HdmaTime') < NextRequest'
        BY <1>6, <4>2, <4>3
      <4> QED BY <1>4, <2>1, <4>1, <4>4
    <3> QED BY <3>3 DEF InTime
  <2>2. CASE s[1].op \notin {"hdma", "sync"}
    <3>1. s[1].op \in {"edgeDma", "edgeEnd"}
      BY <1>3, <2>2
    <3> QED BY <1>4, <1>5, <3>1, NotUnder DEF HdmaOps
  <2> QED BY <2>1, <2>2
<1>10. Statuses'
  <2>1. Left(InDma \cup {"dmaRun", "align"})' => ~dmaPending'
    <3> DEFINE K == InDma \cup {"dmaRun", "align"}
    <3>1. \A i \in DOMAIN s : s[i].op \notin K
      BY <1>3
    <3> HIDE DEF K
    <3>2. Left(K)' => Left(K)
      BY <1>1, <1>3, <3>1, ThenLeft
    <3> QED BY <1>1, <3>2 DEF Statuses, K
  <2>2. Left(InDma \cup {"dmaRun", "align", "edgeDma"})' => dmaActive' \/ dmaEnable' = {}
    <3> SUFFICES ASSUME ~dmaActive, Left(Kept)' PROVE dmaEnable = {}
      BY <1>1 DEF Kept
    <3>1. \A i \in DOMAIN s : s[i].op \notin Kept
      BY <1>3 DEF Kept
    <3>2. Left(Kept)
      BY <1>1, <1>3, <3>1, ThenLeft
    <3> QED BY <1>1, <3>2 DEF Statuses, Kept
  <2>3. s[1].op \in {"edgeEnd", "edgeDma", "hdma", "sync"}
    BY <1>3
  <2> QED BY <1>4, <1>5, <1>7, <2>1, <2>2, <2>3 DEF Statuses
<1>11. InWait'
  <2> SUFFICES ASSUME hdmaPending' PROVE Calm' /\ Waits' + 10 + HdmaTime' < NextRequest'
    BY DEF InWait
  <2>1. hdmaPending /\ ~dmaActive /\ s[1].op = "edgeEnd" /\ Len(s) = 1
    BY <1>3
  <2>2. todo'[2] = todo[2]
    <3>1. /\ Len(todo') = Len(s) + Len(todo) - 1
          /\ Len(todo) \in Nat /\ DOMAIN todo = 1..Len(todo)
          /\ \A i \in (Len(s) + 1)..Len(todo') : todo'[i] = todo[i - Len(s) + 1]
      BY <1>1, <1>3, ThenIndex
    <3>2. 2 \in (Len(s) + 1)..Len(todo') /\ 2 - Len(s) + 1 = 2
      BY <1>2, <2>1, <3>1
    <3> QED BY <3>1, <3>2
  <2>3. Waits + 10 + HdmaTime < NextRequest
    BY <1>1, <2>1 DEF InWait
  <2>4. Waits' = Waits
    BY <1>1, <1>2, <1>4, <1>5, <2>1, <2>2 DEF Waits, Doing
  <2>5. Calm'
    <3>1. todo[2].op # "loop"
      BY <1>1, <2>1 DEF Statuses
    <3>2. todo[2].op \in InDma => dmaEnable = {}
      <4>1. todo[2].op \in InDma => Left(InDma \cup {"dmaRun", "align", "edgeDma"})
        BY <1>2 DEF Left
      <4> QED BY <1>1, <2>1, <4>1 DEF Statuses
    <3>3. todo'[2].op # "cycle" => todo'[2].op \in InDma
      BY <1>2, <2>2
    <3> QED BY <1>1, <1>4, <1>5, <2>1, <2>2, <3>1, <3>2, <3>3 DEF Calm, HdmaOps
  <2> QED BY <1>6, <2>3, <2>4, <2>5
<1> QED BY <1>4, <1>5, <1>6, <1>9, <1>10, <1>11 DEF Fine, TimeInv, Shape

\* A DMA begins: the calls it puts before the rest of the cycle are the only ones of a DMA.
LEMMA EdgeDmaFine == ASSUME TypeOK, TimeInv, edgeDma PROVE Fine
<1>1. /\ Head(todo).op = "edgeDma" /\ todo # <<>> /\ todo[1] = Head(todo) /\ 1 \in DOMAIN todo
      /\ ~dmaPending' /\ dmaEnable' = dmaEnable /\ dmaActive' = dmaActive
      /\ Linked(todo) /\ OneRun /\ Flags /\ Statuses /\ InWait /\ UNCHANGED beam
      /\ todo \in Seq(Calls)
  BY DEF edgeDma, Doing, NoTime, SameEnables, TimeInv, Shape, TypeOK
<1>2. todo[2].op = "edgeEnd" /\ 2 \in DOMAIN todo /\ ~hdmaPending
  BY <1>1, LinkedNext, FollowsCases DEF InWait, Calm
<1>3. dmaActive \/ dmaEnable = {}
  BY <1>1 DEF Statuses, Left
<1>4. /\ Flags' /\ ~SetupDue /\ ~RunDue
  BY <1>1, StillTime DEF beam
<1>5. InWait'
  BY <1>1, <1>2 DEF InWait, beam
<1>6. CASE dmaPending /\ dmaEnable # {}
  <2> DEFINE s == <<Plain("sync"), Plain("dmaRun"), Plain("align")>>
  <2>1. /\ s \in Seq(Calls) /\ Len(s) = 3 /\ s # <<>> /\ Chain(s) /\ DOMAIN s = 1..3
        /\ s[1].op = "sync" /\ s[2].op = "dmaRun" /\ s[3].op = "align"
    <3>1. /\ \A k \in Plains : Plain(k) \in Calls /\ Plain(k).op = k
          /\ {"sync", "dmaRun", "align"} \subseteq Plains
      BY CallTypes DEF Plain, Plains
    <3>2. Follows(Plain("sync"), Plain("dmaRun")) /\ Follows(Plain("dmaRun"), Plain("align"))
      BY <3>1, FollowsCases
    <3> QED BY <3>1, <3>2, ShortChains
  <2>2. Then(s)
    BY <1>6 DEF edgeDma
  <2> HIDE DEF s
  <2>3. Linked(todo)' /\ todo' # <<>> /\ todo'[1] = s[1]
    <3>1. \A b \in Calls : Follows(Head(todo), b) => Follows(s[Len(s)], b)
      BY <1>1, <2>1, FollowsCases
    <3> QED BY <1>1, <2>1, <2>2, <3>1, ThenLinked
  <2>4. Head(todo') = todo'[1]
    BY <1>1, <2>1, <2>2, <2>3, HeadIsFirst
  <2>5. /\ Len(todo') = Len(todo) + 2 /\ DOMAIN todo' = 1..Len(todo')
        /\ Len(todo) \in Nat \ {0} /\ DOMAIN todo = 1..Len(todo)
        /\ \A i \in 1..3 : todo'[i] = s[i]
        /\ \A i \in 4..Len(todo') : todo'[i] = todo[i - 2] /\ i - 2 \in 2..Len(todo)
    <3>1. /\ Len(todo') = 3 + Len(todo) - 1 /\ DOMAIN todo' = 1..Len(todo')
          /\ Len(todo) \in Nat \ {0} /\ DOMAIN todo = 1..Len(todo)
          /\ \A i \in 1..3 : todo'[i] = s[i]
          /\ \A i \in (3 + 1)..Len(todo') :
               todo'[i] = todo[i - 3 + 1] /\ i - 3 + 1 \in 2..Len(todo)
      BY <1>1, <2>1, <2>2, ThenIndex
    <3>2. \A i \in Int : i - 3 + 1 = i - 2
      OBVIOUS
    <3> QED BY <3>1, <3>2
  <2>6. ~Left(InDma \cup {"dmaRun", "align"})
    BY <1>1, <1>6 DEF Statuses
  <2>7. 3 \in DOMAIN todo /\ todo[3].op = "cycle"
    <3>1. Len(todo) # 2
      BY <1>1, <1>2 DEF Linked
    <3>2. 2 \in 1..(Len(todo) - 1) /\ 3 \in DOMAIN todo
      BY <1>2, <2>5, <3>1
    <3>3. Follows(todo[2], todo[2 + 1])
      BY <1>1, <3>2 DEF Linked, Chain
    <3>4. todo[3].op \in InDma \cup {"cycle"}
      BY <1>2, <3>3, FollowsCases
    <3> QED BY <2>6, <3>2, <3>4 DEF Left
  <2>8. OneRun'
    <3> SUFFICES ASSUME NEW i \in DOMAIN todo', todo'[i].op = "align"
                 PROVE  i + 2 \in DOMAIN todo' /\ todo'[i + 2].op = "cycle"
      BY DEF OneRun
    <3>1. i \in 1..3
      <4> SUFFICES ASSUME i \notin 1..3 PROVE FALSE
        OBVIOUS
      <4>1. i \in 4..Len(todo')
        BY <2>5
      <4>2. todo[i - 2].op = "align" /\ i - 2 \in DOMAIN todo
        BY <2>5, <4>1
      <4> QED BY <2>6, <4>2 DEF Left
    <3>2. i = 3
      BY <2>1, <2>5, <3>1
    <3>3. 5 \in 4..Len(todo') /\ 5 - 2 = 3 /\ 5 \in DOMAIN todo'
      BY <2>5, <2>7
    <3>4. todo'[5] = todo[3]
      BY <2>5, <3>3
    <3> QED BY <2>7, <3>2, <3>3, <3>4
  <2>9. InTime'
    <3>1. todo'[1].op = "sync" /\ todo'[2].op = "dmaRun"
      BY <2>1, <2>5
    <3> QED BY <2>3, <2>4, <3>1, NotUnder DEF HdmaOps
  <2>10. Statuses'
    BY <1>1, <1>3, <1>6, <2>1, <2>3, <2>4 DEF Statuses
  <2> QED BY <1>2, <1>4, <1>5, <2>3, <2>8, <2>9, <2>10 DEF Fine, TimeInv, Shape
<1>7. CASE ~(dmaPending /\ dmaEnable # {})
  <2>1. Then(<<>>)
    BY <1>7 DEF edgeDma
  <2>2. Linked(todo)' /\ todo' # <<>> /\ todo'[1] = todo[2]
    BY <1>1, <2>1, NoneKept, ThenLinked
  <2>3. Head(todo') = todo'[1] /\ OneRun'
    <3>1. \A i \in DOMAIN <<>> : <<>>[i].op # "align"
      OBVIOUS
    <3> QED BY <1>1, <2>1, <2>2, <3>1, NoneKept, HeadIsFirst, ThenOneRun
  <2>4. InTime'
    BY <1>2, <2>2, <2>3, NotUnder DEF HdmaOps
  <2>5. Statuses'
    BY <1>1, <1>2, <1>3, <2>2, <2>3 DEF Statuses
  <2> QED BY <1>2, <1>4, <1>5, <2>2, <2>3, <2>4, <2>5 DEF Fine, TimeInv, Shape
<1> QED BY <1>6, <1>7

\* The CPU's own cycle: an HDMA that has waited for it runs before the next one.
LEMMA CycleFine == ASSUME TypeOK, TimeInv, Cycle PROVE Fine
<1>1. /\ Head(todo).op = "cycle" /\ todo # <<>> /\ Then(<<>>) /\ step(clockCount)
      /\ dmaPending' = dmaPending /\ dmaEnable' = dmaEnable /\ dmaActive' = dmaActive
      /\ Linked(todo) /\ OneRun /\ Flags /\ Statuses /\ InWait /\ todo \in Seq(Calls)
      /\ clockCount \in 1..6
  BY DmaAssumption DEF Cycle, Doing, SameStatus, SameEnables, TimeInv, Shape, TypeOK
<1>2. todo[2].op = "access" /\ 2 \in DOMAIN todo
  BY <1>1, LinkedNext, FollowsCases
<1>3. Len(todo) = 2 /\ DOMAIN todo = 1..2
  <2>1. DOMAIN todo = 1..Len(todo) /\ Len(todo) \in Nat
    BY <1>1
  <2>2. Len(todo) = 2
    <3> SUFFICES ASSUME Len(todo) # 2 PROVE FALSE
      OBVIOUS
    <3>1. 2 \in 1..(Len(todo) - 1)
      BY <1>2, <2>1
    <3>2. Follows(todo[2], todo[2 + 1])
      BY <1>1, <3>1 DEF Linked, Chain
    <3> QED BY <1>2, <3>2 DEF Follows, InDma
  <2> QED BY <2>1, <2>2
<1>4. Linked(todo)' /\ todo' # <<>> /\ todo'[1].op = "access"
  BY <1>1, <1>2, NoneKept, ThenLinked
<1>5. Head(todo') = todo'[1] /\ OneRun'
  <2>1. \A i \in DOMAIN <<>> : <<>>[i].op # "align"
    OBVIOUS
  <2> QED BY <1>1, <1>4, <2>1, NoneKept, HeadIsFirst, ThenOneRun
<1>6. InTime'
  BY <1>4, <1>5, NotUnder DEF HdmaOps
<1>7. Statuses'
  <2>1. ~Left(Kept)'
    <3> SUFFICES ASSUME Left(Kept)' PROVE FALSE
      OBVIOUS
    <3>1. \E i \in DOMAIN todo : i # 1 /\ todo[i].op \in Kept
      BY <1>1, NoneKept, ThenLeft
    <3>2. todo[2].op \in Kept
      BY <1>3, <3>1
    <3> QED BY <1>2, <3>2 DEF Kept, InDma
  <2>2. ~Left(InDma \cup {"dmaRun", "align"})' /\ ~Left(InDma \cup {"dmaRun", "align", "edgeDma"})'
    BY <2>1 DEF Left, Kept
  <2> QED BY <1>4, <1>5, <2>2 DEF Statuses
<1>8. Calm' /\ Waits' = IF dmaActive THEN 0 ELSE 6
  BY <1>1, <1>4, <1>5 DEF Calm, HdmaOps, Waits, Doing
<1>9. CASE hdmaPending
  <2>1. dmaActive /\ clockCount + 0 + 10 + HdmaTime < NextRequest
    <3>1. Waits = 6 /\ Waits + 10 + HdmaTime < NextRequest /\ dmaActive
      BY <1>1, <1>9 DEF InWait, Waits, Doing, Statuses
    <3> QED BY <1>1, <3>1, TimeFacts, NextRequestInt
  <2>2. 0 \in Nat /\ 0 + clockCount <= 16
    BY <1>1
  <2>3. /\ Flags' /\ (SetupDue \/ RunDue => ~hdmaPending)
        /\ hdmaPending' => 0 + 10 + HdmaTime' < NextRequest'
    BY <1>1, <2>1, <2>2, StepWait
  <2>4. InWait'
    BY <1>8, <2>1, <2>3 DEF InWait
  <2> QED BY <1>4, <1>5, <1>6, <1>7, <2>3, <2>4 DEF Fine, TimeInv, Shape
<1>10. CASE ~hdmaPending
  <2>1. 6 \in Nat /\ 6 + clockCount <= 16
    BY <1>1
  <2>2. Flags' /\ (hdmaPending' => 6 + 10 + HdmaTime' < NextRequest')
    BY <1>1, <1>10, <2>1, StepWait
  <2>3. hdmaPending' => Waits' + 10 + HdmaTime' < NextRequest'
    <3> DEFINE w == Waits'
               d == HdmaTime'
               r == NextRequest'
    <3>1. w \in {0, 6} /\ d \in Nat /\ r \in Int /\ (hdmaPending' => 6 + 10 + d < r)
      <4>1. HdmaTime' \in Nat
        BY TimeFacts DEF HdmaTime
      <4>2. NextRequest' \in Int
        BY <1>1, StepTime
      <4> QED BY <1>8, <2>2, <4>1, <4>2
    <3> HIDE DEF w, d, r
    <3>2. hdmaPending' => w + 10 + d < r
      BY <3>1
    <3> QED BY <3>2 DEF w, d, r
  <2>4. InWait'
    BY <1>8, <2>3 DEF InWait
  <2> QED BY <1>4, <1>5, <1>6, <1>7, <1>10, <2>2, <2>4 DEF Fine, TimeInv, Shape
<1> QED BY <1>9, <1>10

\* Between two cycles nothing is left of the one before.
LEMMA BusCycleFine == ASSUME TypeOK, TimeInv, BusCycle PROVE Fine
<1> DEFINE s == <<Plain("edge"), Plain("cycle"), Plain("access")>>
<1>1. /\ todo = <<>> /\ todo' = s /\ UNCHANGED beam
      /\ dmaPending' = dmaPending /\ dmaEnable' = dmaEnable /\ dmaActive' = dmaActive
      /\ Flags /\ InWait
  BY DEF BusCycle, NoTime, SameEnables, TimeInv
<1>2. /\ s \in Seq(Calls) /\ Len(s) = 3 /\ s # <<>> /\ Chain(s) /\ DOMAIN s = 1..3 /\ Head(s) = s[1]
      /\ s[1].op = "edge" /\ s[2].op = "cycle" /\ s[3].op = "access"
  <2>1. /\ \A k \in Plains : Plain(k) \in Calls /\ Plain(k).op = k
        /\ {"edge", "cycle", "access"} \subseteq Plains
    BY CallTypes DEF Plain, Plains
  <2>2. Follows(Plain("edge"), Plain("cycle")) /\ Follows(Plain("cycle"), Plain("access"))
    BY <2>1, FollowsCases
  <2> QED BY <2>1, <2>2, ShortChains
<1> HIDE DEF s
<1>3. /\ Flags' /\ ~SetupDue /\ ~RunDue /\ HdmaTime' = HdmaTime /\ NextRequest' = NextRequest
      /\ hdmaPending' = hdmaPending
  BY <1>1, StillTime DEF beam
<1>4. Linked(todo)'
  BY <1>1, <1>2 DEF Linked
<1>5. \A i \in DOMAIN todo' : todo'[i].op \in {"edge", "cycle", "access"}
  BY <1>1, <1>2
<1>6. OneRun' /\ InTime'
  BY <1>1, <1>2, <1>5, NotUnder DEF OneRun, HdmaOps
<1>7. Statuses'
  <2>1. ~Left(InDma \cup {"dmaRun", "align"})' /\ ~Left(InDma \cup {"dmaRun", "align", "edgeDma"})'
    BY <1>5 DEF Left, InDma
  <2> QED BY <1>1, <1>2, <2>1 DEF Statuses
<1>8. Calm' /\ Waits' = Waits
  BY <1>1, <1>2 DEF Calm, HdmaOps, Waits, Doing
<1>9. InWait'
  BY <1>1, <1>3, <1>8 DEF InWait
<1> QED BY <1>3, <1>4, <1>6, <1>7, <1>9 DEF Fine, TimeInv, Shape

\* $420b and $420c are written when no call is left.
LEMMA WriteFine == ASSUME TypeOK, TimeInv, writeCPU PROVE Fine
<1>1. /\ Head(todo).op = "access" /\ todo # <<>> /\ Then(<<>>) /\ UNCHANGED beam
      /\ dmaActive' = dmaActive /\ Linked(todo) /\ Flags /\ InWait /\ todo \in Seq(Calls)
  BY DEF writeCPU, Doing, NoTime, TimeInv, Shape, TypeOK
<1>2. todo' = <<>>
  <2>1. Len(todo) = 1 /\ Tail(todo) \in Seq(Calls) /\ Len(Tail(todo)) = Len(todo) - 1
    BY <1>1, LinkedNext
  <2>2. \A t \in Seq(Calls) : Len(t) = 0 => t = <<>>
    OBVIOUS
  <2>3. Len(Tail(todo)) = 0
    BY <2>1
  <2>4. Tail(todo) = <<>>
    BY <2>1, <2>2, <2>3, Zenon
  <2> QED BY <1>1, <2>4 DEF Then
<1>3. /\ Flags' /\ ~SetupDue /\ ~RunDue /\ HdmaTime' = HdmaTime /\ NextRequest' = NextRequest
      /\ hdmaPending' = hdmaPending
  BY <1>1, StillTime DEF beam
<1>4. Linked(todo)' /\ OneRun' /\ Statuses' /\ InTime' /\ Calm'
  <2>1. DOMAIN todo' = {} /\ Len(todo') = 0
    BY <1>2
  <2> QED BY <1>2, <2>1 DEF Linked, Chain, OneRun, Statuses, Left, InTime, Under, Calm
<1>5. Waits' = Waits
  BY <1>1, <1>2 DEF Waits, Doing
<1>6. InWait'
  BY <1>1, <1>3, <1>4, <1>5 DEF InWait
<1> QED BY <1>3, <1>4, <1>6 DEF Fine, TimeInv, Shape

\* The calls of an HDMA are the next ones: nothing comes before them but its sync.
LEMMA HdmaIsNext ==
  ASSUME TypeOK, Linked(todo), Left(HdmaOps)
  PROVE  Under
<1> DEFINE T == {i \in DOMAIN todo : todo[i].op \in HdmaOps}
           Below == {ss \in Nat \X Nat : ss[1] < ss[2]}
<1>1. todo \in Seq(Calls) /\ DOMAIN todo = 1..Len(todo) /\ Len(todo) \in Nat
  BY DEF TypeOK
<1>2. \E i \in T : \A j \in T : ~(<<j, i>> \in Below)
  <2>1. IsWellFoundedOn(Below, Nat)
    BY Zenon, NatLessThanWellFounded DEF OpToRel
  <2>2. T \subseteq Nat /\ T # {}
    BY <1>1 DEF Left
  <2> HIDE DEF T, Below
  <2> QED BY <2>1, <2>2, WFMin
<1>3. PICK i \in T : \A j \in T : ~(<<j, i>> \in Below)
  BY <1>2
<1>4. i \in 1..Len(todo) /\ todo[i].op \in HdmaOps /\ \A j \in 1..(i - 1) : todo[j].op \notin HdmaOps
  <2>1. i \in 1..Len(todo) /\ todo[i].op \in HdmaOps
    BY <1>1
  <2>2. ASSUME NEW j \in 1..(i - 1) PROVE todo[j].op \notin HdmaOps
    <3>1. j \in DOMAIN todo /\ j < i /\ j \in Nat /\ i \in Nat
      BY <1>1, <2>1
    <3>2. <<j, i>> \in Below
      BY <3>1
    <3> QED BY <1>3, <3>1, <3>2
  <2> QED BY <2>1, <2>2
<1> HIDE DEF T, Below
<1>5. todo # <<>> /\ todo[1] = Head(todo)
  BY <1>1, <1>4
<1>6. CASE i = 1
  BY <1>4, <1>5, <1>6 DEF Under
<1>7. CASE i # 1
  <2> DEFINE p == i - 1
  <2>1. p \in 1..(Len(todo) - 1) /\ p + 1 = i /\ p \in 1..p /\ p \in Nat
    BY <1>1, <1>4, <1>7
  <2>2. Follows(todo[p], todo[i]) /\ todo[p].op \notin HdmaOps
    <3>1. \A j \in 1..(Len(todo) - 1) : Follows(todo[j], todo[j + 1])
      BY DEF Linked, Chain
    <3>2. Follows(todo[p], todo[p + 1])
      BY <2>1, <3>1
    <3> HIDE DEF p
    <3>3. p = i - 1
      BY DEF p
    <3> QED BY <1>4, <2>1, <3>2, <3>3
  <2> HIDE DEF p
  <2>3. todo[p].op = "sync" /\ todo[i].op = "hdma"
    <3>1. todo[p].op \in Plains \cup PerChannel
      BY <1>1, <2>1 DEF Calls
    <3> QED BY <1>4, <2>2, <3>1 DEF Follows, HdmaOps, InDma, Plains, PerChannel
  <2>4. p = 1
    <3> SUFFICES ASSUME p # 1 PROVE FALSE
      OBVIOUS
    <3>1. p - 1 \in 1..(Len(todo) - 1) /\ (p - 1) + 1 = p
      BY <1>1, <2>1
    <3>2. Follows(todo[p - 1], todo[p])
      <4>1. \A j \in 1..(Len(todo) - 1) : Follows(todo[j], todo[j + 1])
        BY DEF Linked, Chain
      <4> QED BY <3>1, <4>1
    <3>3. todo[p - 1].op \in Plains \cup PerChannel
      BY <1>1, <3>1 DEF Calls
    <3>4. \A k, c : Of(k, c).op = k
      BY DEF Of
    <3> DEFINE a == todo[p - 1]
               b == todo[p]
    <3>5. Follows(a, b) /\ a.op \in Plains \cup PerChannel /\ b.op = "sync"
      BY <2>3, <3>2, <3>3
    <3> HIDE DEF a, b
    <3>6. CASE a.op = "transfer"
      BY <3>4, <3>5, <3>6, FollowsCases
    <3>7. CASE a.op \in {"setup", "advance"}
      BY <3>4, <3>5, <3>7, FollowsCases
    <3>8. CASE a.op \in InDma \cup Plains
      BY <3>5, <3>8 DEF Follows, InDma, Plains
    <3> QED BY <3>5, <3>6, <3>7, <3>8 DEF PerChannel, InDma
  <2>5. i = 2
    BY <2>1, <2>4
  <2> QED BY <1>5, <2>3, <2>4, <2>5 DEF Under
<1> QED BY <1>6, <1>7

LEMMA InHdmaUnder == ASSUME TypeOK, TimeInv, InHdma PROVE Under
<1>1. Left(HdmaOps)
  BY DEF InHdma, Left, HdmaOps
<1> QED BY <1>1, HdmaIsNext DEF TimeInv, Shape

\* Every step: an HDMA under way is undisturbed, and a request finds none that waits.
LEMMA EachStep == ASSUME TypeOK, TimeInv, Next PROVE Fine /\ (Under => Done)
<1>1. Done => Fine
  BY DEF Done, Fine
<1>2. ASSUME NEW k, Doing(k), k \notin HdmaOps \cup {"sync"} PROVE ~Under
  BY <1>2 DEF Doing, Under, HdmaOps
<1>3. CASE edge
  BY <1>2, <1>3, EdgeFine DEF edge, HdmaOps
<1>4. CASE edgeDma
  BY <1>2, <1>4, EdgeDmaFine DEF edgeDma, HdmaOps
<1>5. CASE edgeEnd
  BY <1>2, <1>5, EdgeEndFine DEF edgeEnd, HdmaOps
<1>6. CASE sync
  BY <1>1, <1>6, SyncUnder, SyncFine
<1>7. CASE align
  <2>1. CASE Head(todo).op = "hdmaEnd"
    BY <1>1, <1>7, <2>1, EndUnder
  <2>2. CASE Head(todo).op # "hdmaEnd"
    <3>1. Doing("align") /\ Head(todo).op = "align"
      BY <1>7, <2>2 DEF align, Doing
    <3>2. ~Under
      BY <1>2, <3>1 DEF HdmaOps
    <3> QED BY <1>7, <3>1, <3>2, AlignFine
  <2> QED BY <2>1, <2>2
<1>8. CASE hdmaEnd
  BY <1>1, <1>8, EndUnder
<1>9. CASE hdma
  BY <1>1, <1>9, HdmaUnder
<1>10. CASE byte
  BY <1>1, <1>10, ByteUnder
<1>11. CASE hdmaSetup \/ hdmaTransfer \/ hdmaAdvance
  BY <1>1, <1>11, ChannelsUnder
<1>12. CASE dmaRun
  BY <1>2, <1>12, DmaRunFine DEF dmaRun, HdmaOps
<1>13. CASE start \/ loop \/ test
  <2>1. Fine
    BY <1>13, ChannelFine
  <2>2. Doing("start") \/ Doing("loop") \/ Doing("test")
    BY <1>13 DEF start, loop, test
  <2>3. ~Under
    BY <1>2, <2>2 DEF HdmaOps
  <2> QED BY <2>1, <2>3
<1>14. CASE BusCycle
  <2>1. ~Under
    BY <1>14 DEF BusCycle, Under
  <2> QED BY <1>14, <2>1, BusCycleFine
<1>15. CASE Cycle
  BY <1>2, <1>15, CycleFine DEF Cycle, HdmaOps
<1>16. CASE writeCPU
  BY <1>2, <1>16, WriteFine DEF writeCPU, HdmaOps
<1> QED BY NextCases, <1>3, <1>4, <1>5, <1>6, <1>7, <1>8, <1>9, <1>10, <1>11, <1>12,
           <1>13, <1>14, <1>15, <1>16

LEMMA InitTime == Init => TimeInv
<1> SUFFICES ASSUME Init PROVE TimeInv
  OBVIOUS
<1>1. todo = <<>> /\ DOMAIN todo = {} /\ Len(todo) = 0
  BY DEF Init
<1>2. Shape /\ InTime
  BY <1>1 DEF Shape, Linked, Chain, OneRun, Statuses, Left, InTime, Under
<1>3. Flags
  <2>1. v = 0 /\ h = 0 /\ hdmaSetupPosition = SetupBase /\ ~hdmaSetupTriggered /\ ~hdmaTriggered
    BY DEF Init
  <2>2. 0 < SetupBase /\ 0 < Vdisp /\ 0 < RunAt
    BY LineAssumption, TimeAssumption
  <2> QED BY <2>1, <2>2 DEF Flags
<1>4. InWait
  BY DEF Init, InWait
<1> QED BY <1>2, <1>3, <1>4 DEF TimeInv

LEMMA StandsStill == ASSUME TimeInv, UNCHANGED vars PROVE TimeInv'
<1>1. /\ todo' = todo /\ UNCHANGED beam /\ dmaPending' = dmaPending /\ dmaActive' = dmaActive
      /\ dmaEnable' = dmaEnable
  BY DEF vars
<1>2. Shape'
  BY <1>1 DEF TimeInv, Shape, Linked, OneRun, Statuses, Left, beam
<1>3. Flags' /\ HdmaTime' = HdmaTime /\ NextRequest' = NextRequest
  BY <1>1, StillTime DEF beam, TimeInv
<1>4. InTime'
  BY <1>1, <1>3 DEF TimeInv, InTime, Under
<1>5. Calm' = Calm /\ Waits' = Waits
  BY <1>1 DEF Calm, Waits, Doing
<1>6. InWait'
  BY <1>1, <1>3, <1>5 DEF TimeInv, InWait, beam
<1> QED BY <1>2, <1>3, <1>4, <1>6 DEF TimeInv

\* The beam and the calls agree, for any lines and fields with time between the
\* requests: an HDMA that waits begins, and one that has begun ends, before the
\* next request.
THEOREM HdmaInTime == Spec => [](TypeOK /\ TimeInv)
<1>1. TypeOK /\ TimeInv /\ [Next]_vars => (TypeOK /\ TimeInv)'
  BY NextType, EachStep, StandsStill DEF Fine
<1>2. Init => TypeOK /\ TimeInv
  BY InitIInv, InitTime DEF IInv
<1> QED BY <1>1, <1>2, PTL DEF Spec

\* No line of HDMA and no setup of a field is lost to the one before it, however
\* many bytes a DMA transfers: dmaEdge() before each of them lets HDMA go first.
THEOREM NoRequestIsLost == Spec => NoRequestLost
<1>1. TypeOK /\ TimeInv /\ [Next]_vars => [SetupDue \/ RunDue => ~hdmaPending /\ ~InHdma]_vars
  <2> SUFFICES ASSUME TypeOK, TimeInv, Next, SetupDue \/ RunDue PROVE ~hdmaPending /\ ~InHdma
    OBVIOUS
  <2> QED BY EachStep, InHdmaUnder DEF Fine, Done
<1> QED BY <1>1, HdmaInTime, PTL DEF Spec, NoRequestLost

\* Channel::dmaRun() transfers no byte while an HDMA waits: dmaEdge() was called
\* since the step in which the beam requested it.
THEOREM HdmaGoesFirst == Spec => []HdmaFirst
<1>1. TimeInv => HdmaFirst
  BY DEF TimeInv, InWait, Calm, HdmaFirst, Doing
<1> QED BY <1>1, HdmaInTime, PTL
=============================================================================
