-------------------------- MODULE SchedulerProofs --------------------------
(***************************************************************************)
(* Proofs about Scheduler, for every set of coprocessors, every program of *)
(* the processors and every value of the clocks.                           *)
(***************************************************************************)
EXTENDS Scheduler, SequenceTheorems, TLAPS

-----------------------------------------------------------------------------
(* The sequences the model is built from. *)

\* Whatever synchronizeCoprocessors() visits is a synchronization of a
\* coprocessor, and every coprocessor is visited.
LEMMA CopSyncsFacts ==
  /\ CopSyncs \in Seq(Ops) /\ Len(CopSyncs) = Len(CopSeq)
  /\ \A i \in 1..Len(CopSeq) : CopSyncs[i] = SyncOp(CopSeq[i]) /\ CopSeq[i] \in Cops
  /\ \A c \in Cops : \E i \in 1..Len(CopSeq) : CopSeq[i] = c
<1>1. \A i \in 1..Len(CopSeq) : CopSeq[i] \in Cops
  BY CopAssumption
<1>2. DOMAIN CopSeq = 1..Len(CopSeq) /\ Len(CopSeq) \in Nat
  BY CopAssumption
<1>3. \A i \in 1..Len(CopSeq) : SyncOp(CopSeq[i]) \in Ops
  BY <1>1 DEF Ops, SyncOp, Peers
<1>4. CopSyncs \in [1..Len(CopSeq) -> Ops]
  BY <1>2, <1>3 DEF CopSyncs
<1>5. CopSyncs \in Seq(Ops)
  BY <1>2, <1>4
<1>6. Len(CopSyncs) = Len(CopSeq)
  BY <1>2, <1>4, <1>5
<1>7. \A i \in 1..Len(CopSeq) : CopSyncs[i] = SyncOp(CopSeq[i])
  BY <1>2 DEF CopSyncs
<1>8. \A c \in Cops : \E i \in 1..Len(CopSeq) : CopSeq[i] = c
  BY <1>2 DEF Cops
<1> QED
  BY <1>1, <1>5, <1>6, <1>7, <1>8

\* The operations of a scanline are well-formed.
LEMMA ScanlineType == ASSUME NEW y PROVE ScanlineOps(y) \in Seq(Ops)
<1>1. SyncOp(SMP) \in Ops /\ SyncOp(PPU) \in Ops /\ Plain("frame") \in Ops
  BY DEF SyncOp, Plain, Ops, Peers
<1>2. <<SyncOp(SMP), SyncOp(PPU)>> \in Seq(Ops)
  BY <1>1
<1>3. (IF y = vdisp THEN <<SyncOp(PPU), Plain("frame")>> ELSE <<>>) \in Seq(Ops)
  BY <1>1
<1> QED
  BY <1>2, <1>3, CopSyncsFacts DEF ScanlineOps

LEMMA OrderType == Order \in Seq(Threads) /\ Len(Order) >= 2
<1>1. CopSeq \in Seq(Threads)
  BY CopAssumption DEF Threads, Peers
<1>2. <<SMP, CPU, SMP, PPU>> \in Seq(Threads) /\ <<SMP, PPU>> \in Seq(Threads)
  BY DEF Threads, Peers
<1>3. /\ StrictOrder \in Seq(Threads) /\ Len(StrictOrder) = 4 + Len(CopSeq)
      /\ FastOrder \in Seq(Threads) /\ Len(FastOrder) = 2 + Len(CopSeq)
  BY <1>1, <1>2 DEF StrictOrder, FastOrder
<1>4. Len(CopSeq) \in Nat
  BY <1>1
<1> QED
  BY <1>3, <1>4 DEF Order

-----------------------------------------------------------------------------
(* Type correctness. *)

LEMMA SaturateType ==
  ASSUME NEW c \in Int PROVE Saturate(c) \in -ClockCap..ClockCap
BY BoundAssumption DEF Saturate

LEMMA ChargeType ==
  ASSUME clock \in [Peers -> -ClockCap..ClockCap], NEW P, NEW q \in Nat
  PROVE  Charge(P, q) \in [Peers -> -ClockCap..ClockCap]
<1>1. \A p \in Peers : Saturate(clock[p] - q) \in -ClockCap..ClockCap
  BY SaturateType, BoundAssumption
<1> QED
  BY <1>1 DEF Charge

\* One bus cycle keeps the counters in range and leaves well-formed work.
LEMMA StepType ==
  ASSUME TypeOK, NEW q \in CpuClocks, NEW sync \in BOOLEAN,
         NEW rest \in Seq(Ops), Step(q, sync, rest)
  PROVE  /\ clock' \in [Peers -> -ClockCap..ClockCap]
         /\ todo' \in Seq(Ops)
         /\ h' \in 0..(HPeriod - 1) /\ v' \in 0..(VPeriod - 1) /\ oc' \in 0..Overclock
         /\ vdisp' = vdisp
<1> DEFINE y == (v + 1) % VPeriod
           delayed == IF sync THEN <<Plain("delayed")>> ELSE <<>>
           refresh == <<Plain("refresh")>>
           lines == IF h + q >= HPeriod THEN ScanlineOps(y) ELSE <<>>
           charge == <<[kind |-> "charge", clocks |-> q]>>
<1>1. clock' = Charge(Cops \ Late, q)
  BY DEF Step, tickScanline
<1>2. clock' \in [Peers -> -ClockCap..ClockCap]
  BY <1>1, ChargeType, ClockAssumption DEF TypeOK
<1>3. /\ Plain("delayed") \in Ops /\ Plain("refresh") \in Ops
      /\ [kind |-> "charge", clocks |-> q] \in Ops
  BY DEF Plain, Ops
<1>4. delayed \in Seq(Ops) /\ refresh \in Seq(Ops) /\ charge \in Seq(Ops)
  BY <1>3
<1>5. lines \in Seq(Ops)
  BY ScanlineType
<1>8. vdisp' = vdisp
  BY DEF Step
<1>6. CASE oc + q < Overclock
  <2>1. todo' = delayed \o rest /\ oc' = oc + q /\ h' = h /\ v' = v
    BY <1>6 DEF Step, tickScanline
  <2>2. todo' \in Seq(Ops)
    BY <2>1, <1>4
  <2> QED
    BY <2>1, <2>2, <1>2, <1>6, <1>8, ClockAssumption DEF TypeOK
<1>7. CASE ~(oc + q < Overclock)
  <2>1. /\ todo' = lines \o charge \o refresh \o delayed \o rest
        /\ h' = (h + q) % HPeriod
        /\ v' = IF h + q >= HPeriod THEN y ELSE v
        /\ oc' \in {0, Overclock}
    BY <1>7 DEF Step, tickScanline
  <2>2. todo' \in Seq(Ops)
    <3> HIDE DEF lines, charge, refresh, delayed
    <3> QED BY <2>1, <1>4, <1>5
  <2>3. h' \in 0..(HPeriod - 1) /\ v' \in 0..(VPeriod - 1)
    BY <2>1, BoundAssumption, ClockAssumption DEF TypeOK
  <2> QED
    BY <2>1, <2>2, <2>3, <1>2, <1>8, ClockAssumption DEF TypeOK
<1> QED
  BY <1>6, <1>7

\* The steps of the CPU: each leaves what is left of its bus cycle, if any.
LEMMA StepCases ==
  ASSUME TypeOK, CpuCycle \/ CpuRefresh \/ CpuTail
  PROVE  \/ \E q \in CpuClocks, sync \in BOOLEAN, rest \in Seq(Ops) :
              /\ Step(q, sync, rest)
              /\ \/ rest \in {<<>>, <<Plain("bus")>>, <<Plain("bus"), Plain("step")>>}
                 \/ todo # <<>> /\ Head(todo).kind # "sync" /\ rest = Tail(todo)
         \/ /\ todo # <<>> /\ Head(todo).kind # "sync" /\ todo' = Tail(todo)
            /\ todo' \in Seq(Ops) /\ UNCHANGED <<clock, h, v, oc, vdisp>>
            /\ clock' \in [Peers -> -ClockCap..ClockCap]
            /\ h' \in 0..(HPeriod - 1) /\ v' \in 0..(VPeriod - 1) /\ oc' \in 0..Overclock
<1>1. CASE CpuCycle
  <2>1. Plain("bus") \in Ops /\ Plain("step") \in Ops
    BY DEF Plain, Ops
  <2>2. /\ <<>> \in Seq(Ops) /\ <<Plain("bus")>> \in Seq(Ops)
        /\ <<Plain("bus"), Plain("step")>> \in Seq(Ops)
    BY <2>1
  <2>3. PICK q \in CpuClocks : \/ Step(q, FALSE, <<>>) \/ Step(q, TRUE, <<Plain("bus")>>)
                               \/ Step(q, TRUE, <<Plain("bus"), Plain("step")>>)
    BY <1>1 DEF CpuCycle
  <2>4. CASE Step(q, FALSE, <<>>)
    BY <2>2, <2>4
  <2>5. CASE Step(q, TRUE, <<Plain("bus")>>)
    BY <2>2, <2>5
  <2>6. CASE Step(q, TRUE, <<Plain("bus"), Plain("step")>>)
    <3> DEFINE rest == <<Plain("bus"), Plain("step")>>
    <3>1. rest \in Seq(Ops) /\ Step(q, TRUE, rest) /\ TRUE \in BOOLEAN
      BY <2>2, <2>6
    <3>2. rest \in {<<>>, <<Plain("bus")>>, <<Plain("bus"), Plain("step")>>}
      OBVIOUS
    <3> QED BY Zenon, <3>1, <3>2
  <2> QED BY <2>3, <2>4, <2>5, <2>6
<1>2. CASE CpuRefresh \/ CpuTail
  <2>1. todo # <<>> /\ Head(todo).kind # "sync" /\ Tail(todo) \in Seq(Ops)
    <3>1. Doing("refresh") \/ Doing("step")
      BY <1>2 DEF CpuRefresh, CpuTail
    <3>2. todo # <<>> /\ Head(todo).kind # "sync"
      BY <3>1 DEF Doing
    <3>3. todo \in Seq(Ops)
      BY DEF TypeOK
    <3> QED BY <3>2, <3>3
  <2>2. CASE \E q \in CpuClocks : Step(q, FALSE, Tail(todo))
    BY <2>1, <2>2
  <2>3. CASE todo' = Tail(todo) /\ UNCHANGED <<ops, clock, h, v, oc, vdisp>>
    BY <2>1, <2>3 DEF TypeOK
  <2> QED BY <1>2, <2>2, <2>3 DEF CpuRefresh, CpuTail
<1> QED BY <1>1, <1>2

\* The initial state has the types.
LEMMA InitType == Init => TypeOK
<1> SUFFICES ASSUME Init PROVE TypeOK
  OBVIOUS
<1>1. CPU \in Threads /\ Host \notin Threads
  BY ThreadAssumption DEF Threads
<1>2. 0 \in 0..MaxOps /\ 0 \in -ClockCap..ClockCap /\ 0 \in 0..(HPeriod - 1)
      /\ 0 \in 0..(VPeriod - 1) /\ Overclock \in 0..Overclock
  BY BoundAssumption, ClockAssumption
<1>3. pos \in [Threads -> Positions]
  BY DEF Init, Positions
<1>4. ops \in [Threads -> 0..MaxOps] /\ halted \in [Threads -> BOOLEAN]
      /\ clock \in [Peers -> -ClockCap..ClockCap]
  BY <1>2 DEF Init
<1>5. todo \in Seq(Ops) /\ writes \in Seq(Peers)
  BY DEF Init
<1> QED
  BY <1>1, <1>2, <1>3, <1>4, <1>5 DEF Init, TypeOK

\* The CPU's stack and the rest of its bus cycle agree in the initial state.
LEMMA InitStack == Init => StackShape
BY DEF Init, StackShape, Threads

\* The disjuncts of Next, one case per action.
LEMMA NextCases ==
  ASSUME [Next]_vars
  PROVE  \/ \E t \in Threads : SyncPoint(t) \/ BeginMain(t) \/ EndMain(t)
                              \/ ReturnFromResume(t) \/ Halt(t)
         \/ \E p \in Peers : PeerStep(p)
         \/ SmpIdle \/ SmpPort \/ SmpAccess
         \/ CpuCycle \/ CpuRefresh \/ CpuTail \/ CpuBusAccess
             \/ CpuRecreate \/ CpuSync \/ CpuCharge
         \/ CpuDelayed \/ CpuAccess \/ CpuFrame \/ CpuAfterFrame
         \/ FrameEvent \/ CheatWrite \/ FrameEventEnd \/ CheatsReturn \/ RunReturn
         \/ SaveContinue \/ SaveRestart \/ SaveNext \/ SaveReturn
         \/ Run \/ RunToSave \/ Power \/ Cheats
         \/ UNCHANGED vars
BY DEF Next, Busy, AnyThread, Peer, CpuBus, HostBusy

\* A clock that is charged or advanced stays an integer before it saturates.
LEMMA ClockInt ==
  ASSUME TypeOK, NEW p \in Peers, NEW q \in Int PROVE clock[p] + q \in Int
<1>1. clock \in [Peers -> -ClockCap..ClockCap]
  BY DEF TypeOK
<1>2. clock[p] \in Int
  BY <1>1, BoundAssumption
<1> QED BY <1>2

\* Every action keeps the types, and the CPU's stack in step with its cycle.
LEMMA NextType ==
  ASSUME TypeOK, StackShape, [Next]_vars PROVE TypeOK'
<1> USE DEF TypeOK
<1>0. /\ CPU \in Threads /\ SMP \in Threads /\ SMP \in Peers /\ PPU \in Peers
      /\ Peers \subseteq Threads /\ Recreatable \subseteq Peers
      /\ MayHalt \subseteq Threads /\ MaxOps \in Nat /\ 0 \in 0..MaxOps /\ 1 \in 0..MaxOps
      /\ \A t \in Threads : MainOps[t] \in 1..MaxOps
      /\ 0 \in -ClockCap..ClockCap /\ Cops \subseteq Peers
      /\ {"top", "parked", "main", "sync", "access", "frame"} = Positions
  BY CopAssumption, BoundAssumption DEF Threads, Peers, Positions
<1>00. ASSUME NEW t \in Threads, ops[t] < MainOps[t]
       PROVE  ops[t] + 1 \in 0..MaxOps
  <2>1. ops[t] \in 0..MaxOps /\ MainOps[t] \in 1..MaxOps
    BY <1>0
  <2> HIDE DEF TypeOK
  <2> QED BY <1>00, <2>1, BoundAssumption
<1>1. ASSUME NEW t \in Threads, SyncPoint(t) PROVE TypeOK'
  BY <1>1, <1>0 DEF SyncPoint, leave, cpuVars, hostVars
<1>2. ASSUME NEW t \in Threads, BeginMain(t) PROVE TypeOK'
  BY <1>2, <1>0 DEF BeginMain, schedVars, cpuVars, hostVars
<1>3. ASSUME NEW t \in Threads, EndMain(t) PROVE TypeOK'
  BY <1>3, <1>0 DEF EndMain, schedVars, cpuVars, hostVars
<1>4. ASSUME NEW t \in Threads, ReturnFromResume(t) PROVE TypeOK'
  BY <1>4, <1>0, SMTT(30) DEF ReturnFromResume, StackShape, schedVars, cpuVars, hostVars
<1>5. ASSUME NEW t \in Threads, Halt(t) PROVE TypeOK'
  BY <1>5, <1>0 DEF Halt, schedVars, cpuVars, hostVars
<1>6. ASSUME NEW p \in Peers, PeerStep(p) PROVE TypeOK'
  <2>1. PICK q \in Quantum[p] : clock' = [clock EXCEPT ![p] = Saturate(clock[p] + q)]
    BY <1>6 DEF PeerStep
  <2>2. q \in Nat
    BY ClockAssumption
  <2>3. clock' \in [Peers -> -ClockCap..ClockCap]
    <3>1. clock[p] + q \in Int
      <4> HIDE DEF TypeOK
      <4> QED BY <2>2, ClockInt
    <3> QED BY <2>1, <3>1, SaturateType
  <2>4. ops' \in [Threads -> 0..MaxOps]
    <3>1. p \in Threads /\ p # CPU
      BY <1>0, ThreadAssumption
    <3>2. IF halted[p] THEN TRUE ELSE ops[p] < MainOps[p]
      BY <1>6 DEF PeerStep, MayStep
    <3>3. ops' = [ops EXCEPT ![p] = IF halted[p] THEN 1 ELSE ops[p] + 1]
      BY <1>6 DEF PeerStep
    <3>4. (IF halted[p] THEN 1 ELSE ops[p] + 1) \in 0..MaxOps
      BY <1>0, <1>00, <3>1, <3>2
    <3> QED BY <3>3, <3>4
  <2>5. /\ mode' = mode /\ event' = event /\ active' = active
        /\ desynchronized' \in BOOLEAN /\ running' \in Threads \cup {Host}
        /\ pos' \in [Threads -> Positions]
    BY <1>6, <1>0 DEF PeerStep, resume, schedVars
  <2> QED
    BY <1>6, <2>3, <2>4, <2>5 DEF PeerStep, cpuVars, hostVars
<1>7. CASE SmpIdle
  <2>1. PICK q \in Quantum[SMP] : clock' = [clock EXCEPT ![SMP] = Saturate(clock[SMP] + q)]
    BY <1>7 DEF SmpIdle
  <2>2. q \in Nat
    BY <1>0, ClockAssumption
  <2>3. clock' \in [Peers -> -ClockCap..ClockCap]
    <3>1. clock[SMP] + q \in Int
      <4> HIDE DEF TypeOK
      <4> QED BY <1>0, <2>2, ClockInt
    <3> QED BY <1>0, <2>1, <3>1, SaturateType
  <2>4. ops' \in [Threads -> 0..MaxOps]
    BY <1>7, <1>0 DEF SmpIdle, MayStep, Count
  <2> QED
    BY <1>7, <2>3, <2>4 DEF SmpIdle, schedVars, cpuVars, hostVars
<1>8. CASE SmpPort
  <2>1. ops' \in [Threads -> 0..MaxOps]
    BY <1>8, <1>0, SMTT(30) DEF SmpPort, MayStep, Count
  <2>2. /\ mode' = mode /\ event' = event /\ active' = active
        /\ desynchronized' \in BOOLEAN /\ running' \in Threads \cup {Host}
        /\ pos' \in [Threads -> Positions]
    BY <1>8, <1>0 DEF SmpPort, resume, schedVars
  <2>3. UNCHANGED <<halted, clock, cpuVars, hostVars>>
    BY <1>8 DEF SmpPort
  <2> QED
    BY <2>1, <2>2, <2>3 DEF cpuVars, hostVars
<1>9. CASE SmpAccess
  BY <1>9, <1>0, SMTT(30) DEF SmpAccess, schedVars, cpuVars, hostVars
<1>10. CASE CpuCycle \/ CpuRefresh \/ CpuTail
  <2>1. ops' \in [Threads -> 0..MaxOps]
    <3>1. CASE CpuCycle
      <4>1. ~halted[CPU] => ops[CPU] + 1 \in 0..MaxOps
        BY <1>0, <1>00, <3>1 DEF CpuCycle, MayStep
      <4> QED BY <1>0, <3>1, <4>1 DEF CpuCycle, Count
    <3>2. CASE CpuRefresh
      <4>1. ops' = ops \/ (ops[CPU] < MainOps[CPU] /\ ops' = [ops EXCEPT ![CPU] = ops[CPU] + 1])
        BY <3>2 DEF CpuRefresh
      <4> QED BY <1>0, <1>00, <4>1
    <3>3. CASE CpuTail
      BY <3>3 DEF CpuTail
    <3> QED BY <1>10, <3>1, <3>2, <3>3
  <2>2. halted' \in [Threads -> BOOLEAN]
    BY <1>10, <1>0 DEF CpuCycle, CpuRefresh, CpuTail
  <2>3. /\ clock' \in [Peers -> -ClockCap..ClockCap] /\ todo' \in Seq(Ops)
        /\ h' \in 0..(HPeriod - 1) /\ v' \in 0..(VPeriod - 1) /\ oc' \in 0..Overclock
        /\ vdisp' = vdisp
    BY <1>10, StepCases, StepType
  <2>4. pos' = pos /\ UNCHANGED <<schedVars, hostVars>>
    BY <1>10 DEF CpuCycle, CpuRefresh, CpuTail
  <2> QED
    BY <2>1, <2>2, <2>3, <2>4, SMTT(30) DEF schedVars, hostVars
<1>12. CASE CpuBusAccess
  <2>1. SyncOp(SMP) \in Ops /\ SyncOp(PPU) \in Ops /\ Plain("access") \in Ops
    BY <1>0 DEF SyncOp, Plain, Ops
  <2>2. <<SyncOp(SMP), Plain("access")>> \in Seq(Ops) /\ <<SyncOp(PPU)>> \in Seq(Ops)
    BY <2>1
  <2>3. PICK io \in {<<>>, <<SyncOp(SMP), Plain("access")>>, <<SyncOp(PPU)>>, CopSyncs} :
          /\ todo' = io \o Tail(todo)
          /\ vdisp' \in IF io = <<SyncOp(PPU)>> THEN Vdisp ELSE {vdisp}
    BY <1>12 DEF CpuBusAccess
  <2>4. io \in Seq(Ops) /\ Tail(todo) \in Seq(Ops)
    <3>1. todo # <<>>
      BY <1>12 DEF CpuBusAccess, Doing
    <3>2. <<>> \in Seq(Ops) /\ CopSyncs \in Seq(Ops)
      BY CopSyncsFacts
    <3>3. Tail(todo) \in Seq(Ops)
      BY <3>1
    <3> HIDE DEF TypeOK
    <3>4. io \in Seq(Ops)
      BY Zenon, <2>2, <3>2
    <3> QED BY <3>3, <3>4
  <2>5. todo' \in Seq(Ops) /\ vdisp' \in Vdisp
    BY <2>3, <2>4
  <2> QED
    BY <1>12, <2>5 DEF CpuBusAccess, schedVars, hostVars
<1>13. CASE CpuRecreate
  <2>1. PICK c \in Recreatable :
          /\ pos' = [pos EXCEPT ![c] = "top"]
          /\ clock' = [clock EXCEPT ![c] = 0]
          /\ ops' = [ops EXCEPT ![c] = 0]
    BY <1>13 DEF CpuRecreate
  <2>2. Tail(todo) \in Seq(Ops)
    BY <1>13 DEF CpuRecreate, Doing
  <2>3. c \in Peers /\ c \in Threads
    BY <1>0
  <2>4. /\ pos' \in [Threads -> Positions] /\ clock' \in [Peers -> -ClockCap..ClockCap]
        /\ ops' \in [Threads -> 0..MaxOps]
    BY <1>0, <2>1, <2>3
  <2>5. /\ todo' = Tail(todo) /\ UNCHANGED <<schedVars, halted, h, v, oc, vdisp, hostVars>>
    BY <1>13 DEF CpuRecreate
  <2> QED
    BY <2>2, <2>4, <2>5 DEF schedVars, hostVars
<1>14. CASE CpuSync
  <2>1. Head(todo) \in Ops /\ Head(todo).kind = "sync" /\ Tail(todo) \in Seq(Ops)
    BY <1>14 DEF CpuSync, Doing
  <2>2. Head(todo).peer \in Peers
    BY <2>1 DEF Ops
  <2>3. /\ mode' = mode /\ event' = event /\ active' = active
        /\ desynchronized' \in BOOLEAN /\ running' \in Threads \cup {Host}
        /\ pos' \in [Threads -> Positions] /\ todo' \in Seq(Ops)
    BY <1>14, <1>0, <2>1, <2>2 DEF CpuSync, resume, schedVars
  <2>4. UNCHANGED <<ops, halted, clock, h, v, oc, vdisp, hostVars>>
    BY <1>14 DEF CpuSync
  <2> QED
    BY <2>3, <2>4 DEF hostVars
<1>15. CASE CpuCharge
  <2>1. Head(todo) \in Ops /\ Head(todo).kind = "charge" /\ Tail(todo) \in Seq(Ops)
    BY <1>15 DEF CpuCharge, Doing
  <2>2. Head(todo).clocks \in Nat
    BY <2>1, ClockAssumption DEF Ops
  <2>3. clock' \in [Peers -> -ClockCap..ClockCap]
    BY <1>15, <2>2, ChargeType DEF CpuCharge
  <2>4. /\ todo' = Tail(todo)
        /\ UNCHANGED <<schedVars, pos, ops, halted, h, v, oc, vdisp, hostVars>>
    BY <1>15 DEF CpuCharge
  <2> QED
    BY <2>1, <2>3, <2>4 DEF schedVars, hostVars
<1>16. CASE CpuDelayed
  <2>1. Tail(todo) \in Seq(Ops)
    BY <1>16 DEF CpuDelayed, Doing
  <2>2. todo' \in Seq(Ops)
    BY <1>16, <2>1, CopSyncsFacts DEF CpuDelayed
  <2> QED
    BY <1>16, <2>2 DEF CpuDelayed, schedVars, hostVars
<1>17. CASE CpuAccess
  BY <1>17 DEF CpuAccess, Doing, schedVars, hostVars
<1>18. CASE CpuFrame
  BY <1>18, <1>0 DEF CpuFrame, leave, cpuVars, hostVars
<1>19. CASE CpuAfterFrame
  BY <1>19, <1>0 DEF CpuAfterFrame, StackShape, schedVars, hostVars
<1>20. CASE FrameEvent
  BY <1>20, CheatAssumption DEF FrameEvent, schedVars, stackVars, cpuVars
<1>21. CASE CheatWrite
  <2>1. Head(writes) \in Threads /\ Tail(writes) \in Seq(Peers)
    BY <1>21, <1>0 DEF CheatWrite
  <2> QED
    BY <1>21, <2>1 DEF CheatWrite, resume, schedVars, stackVars, cpuVars
<1>22. CASE FrameEventEnd
  BY <1>22 DEF FrameEventEnd, schedVars, stackVars, cpuVars
<1>23. CASE RunReturn
  BY <1>23 DEF RunReturn, schedVars, stackVars, cpuVars
<1>24. CASE SaveContinue
  BY <1>24 DEF SaveContinue, Reenter, enter, stackVars, cpuVars
<1>25. CASE SaveRestart
  BY <1>25, OrderType DEF SaveRestart, Reenter, enter, stackVars, cpuVars
<1>26. CASE SaveNext
  <2>1. Order[stage + 1] \in Threads
    BY <1>26, OrderType DEF SaveNext
  <2> QED
    BY <1>26, <2>1 DEF SaveNext, Reenter, enter, stackVars, cpuVars
<1>27. CASE SaveReturn
  BY <1>27, <1>0 DEF SaveReturn, stackVars, cpuVars
<1>28. CASE Run
  BY <1>28 DEF Run, enter, stackVars, cpuVars
<1>29. CASE RunToSave
  BY <1>29, OrderType, SMTT(30) DEF RunToSave, enter, stackVars, cpuVars
<1>30. CASE Power
  <2>1. pos' \in [Threads -> Positions] /\ ops' \in [Threads -> 0..MaxOps]
        /\ halted' \in [Threads -> BOOLEAN] /\ clock' \in [Peers -> -ClockCap..ClockCap]
    BY <1>30, <1>0 DEF Power
  <2>2. h' \in 0..(HPeriod - 1) /\ v' \in 0..(VPeriod - 1) /\ oc' \in 0..Overclock
    BY <1>30, BoundAssumption, ClockAssumption DEF Power
  <2> QED
    BY <1>30, <1>0, <2>1, <2>2 DEF Power, hostVars
<1>31. CASE UNCHANGED vars
  BY <1>31 DEF vars, schedVars, cpuVars, hostVars
<1>32. CASE Cheats
  BY <1>32, CheatAssumption DEF Cheats, schedVars, stackVars, cpuVars
<1>33. CASE CheatsReturn
  BY <1>33 DEF CheatsReturn, schedVars, stackVars, cpuVars
<1> QED
  BY <1>1, <1>2, <1>3, <1>4, <1>5, <1>6, <1>7, <1>8, <1>9, <1>10, <1>12,
     <1>13, <1>14, <1>15, <1>16, <1>17, <1>18, <1>19, <1>20, <1>21, <1>22, <1>23,
     <1>24, <1>25, <1>26, <1>27, <1>28, <1>29, <1>30, <1>31, <1>32, <1>33, NextCases

LEMMA NextStack ==
  ASSUME TypeOK, StackShape, [Next]_vars PROVE StackShape'
<1> USE DEF StackShape
<1>0. /\ CPU \in Threads /\ CPU \notin Peers /\ SMP \in Peers /\ Recreatable \subseteq Peers
      /\ Peers \subseteq Threads /\ pos \in [Threads -> Positions] /\ todo \in Seq(Ops)
  BY ThreadAssumption, CopAssumption DEF Threads, Peers, TypeOK
<1>1. ASSUME NEW t \in Threads, SyncPoint(t) PROVE StackShape'
  BY <1>1, <1>0 DEF SyncPoint, cpuVars
<1>2. ASSUME NEW t \in Threads, BeginMain(t) PROVE StackShape'
  BY <1>2, <1>0 DEF BeginMain, cpuVars
<1>3. ASSUME NEW t \in Threads, EndMain(t) PROVE StackShape'
  BY <1>3, <1>0 DEF EndMain, cpuVars
<1>4. ASSUME NEW t \in Threads, ReturnFromResume(t) PROVE StackShape'
  BY <1>4, <1>0 DEF ReturnFromResume
<1>5. ASSUME NEW t \in Threads, Halt(t) PROVE StackShape'
  BY <1>5, <1>0 DEF Halt, cpuVars
<1>6. ASSUME NEW p \in Peers, PeerStep(p) PROVE StackShape'
  <2>1. pos'[CPU] = pos[CPU]
    BY <1>6, <1>0 DEF PeerStep, resume
  <2> QED
    BY <1>6, <2>1 DEF PeerStep, cpuVars
<1>7. CASE SmpIdle \/ SmpPort \/ SmpAccess
  <2>1. pos'[CPU] = pos[CPU] /\ todo' = todo
    BY <1>7, <1>0 DEF SmpIdle, SmpPort, SmpAccess, resume, cpuVars
  <2> QED
    BY <2>1
<1>8. CASE CpuCycle \/ CpuRefresh \/ CpuTail \/ CpuBusAccess \/ CpuCharge \/ CpuDelayed \/ CpuAccess
  <2>1. pos'[CPU] = pos[CPU] /\ pos[CPU] = "main"
    BY <1>8 DEF CpuCycle, CpuRefresh, CpuTail, CpuBusAccess,
            MayStep, CpuCharge, CpuDelayed, CpuAccess, Doing
  <2> QED
    BY <2>1
<1>9. CASE CpuRecreate
  <2>1. PICK c \in Recreatable : pos' = [pos EXCEPT ![c] = "top"]
    BY <1>9 DEF CpuRecreate
  <2>2. pos'[CPU] = pos[CPU] /\ pos[CPU] = "main"
    BY <1>0, <1>9, <2>1 DEF CpuRecreate, Doing
  <2> QED
    BY <2>2
<1>10. CASE CpuSync
  BY <1>10, <1>0 DEF CpuSync, Doing
<1>11. CASE CpuFrame
  BY <1>11, <1>0 DEF CpuFrame, Doing, cpuVars
<1>12. CASE CpuAfterFrame
  BY <1>12, <1>0 DEF CpuAfterFrame
<1>13. CASE FrameEvent \/ CheatWrite \/ FrameEventEnd \/ Cheats \/ CheatsReturn
            \/ RunReturn \/ SaveReturn \/ Run
            \/ RunToSave \/ SaveContinue \/ SaveRestart \/ SaveNext
  BY <1>13 DEF FrameEvent, CheatWrite, FrameEventEnd, Cheats, CheatsReturn, RunReturn,
               SaveReturn, Run, RunToSave,
               SaveContinue, SaveRestart, SaveNext, Reenter, stackVars, cpuVars
<1>14. CASE Power
  BY <1>14, <1>0 DEF Power
<1>15. CASE UNCHANGED vars
  BY <1>15 DEF vars, cpuVars
<1> QED
  BY <1>1, <1>2, <1>3, <1>4, <1>5, <1>6, <1>7, <1>8, <1>9, <1>10, <1>11, <1>12,
     <1>13, <1>14, <1>15, NextCases

\* Type correctness of every reachable state, for Fast and for Strict.
THEOREM TypeCorrect == Spec => []TypeOK
<1>1. Init => TypeOK /\ StackShape
  BY InitType, InitStack
<1>2. TypeOK /\ StackShape /\ [Next]_vars => (TypeOK /\ StackShape)'
  BY NextType, NextStack
<1> QED
  BY <1>1, <1>2, PTL DEF Spec

-----------------------------------------------------------------------------
(* What is left of a bus cycle. *)

\* As in OnlySyncsBefore and SyncedBefore, of any sequence of operations.
SyncsFirst(s) == \A i \in DOMAIN s : s[i].kind \in {"frame", "access"} =>
                   \A j \in 1..(i - 1) : s[j].kind = "sync"
Covered(s) == \A i \in DOMAIN s : \A p \in Peers : Needs(s[i].kind, p) =>
                \E j \in 1..(i - 1) : s[j] = SyncOp(p)
Plainly(s) == \A i \in DOMAIN s : s[i].kind \notin {"frame", "access"}

LEMMA PlainSeq == ASSUME NEW s, Plainly(s) PROVE SyncsFirst(s) /\ Covered(s)
BY DEF Plainly, SyncsFirst, Covered, Needs

LEMMA ConcatPlain ==
  ASSUME NEW s \in Seq(Ops), NEW r \in Seq(Ops), SyncsFirst(s), Covered(s), Plainly(r)
  PROVE  SyncsFirst(s \o r) /\ Covered(s \o r)
<1>1. /\ s \o r \in Seq(Ops) /\ Len(s \o r) = Len(s) + Len(r)
      /\ \A i \in 1..(Len(s) + Len(r)) :
           (s \o r)[i] = IF i <= Len(s) THEN s[i] ELSE r[i - Len(s)]
  BY ConcatProperties
<1>2. /\ Len(s) \in Nat /\ Len(r) \in Nat /\ DOMAIN s = 1..Len(s) /\ DOMAIN r = 1..Len(r)
      /\ DOMAIN (s \o r) = 1..(Len(s) + Len(r))
  BY <1>1, LenProperties
<1>3. ASSUME NEW i \in 1..(Len(s) + Len(r)), (s \o r)[i].kind \in {"frame", "access"}
      PROVE  i \in 1..Len(s) /\ (s \o r)[i] = s[i]
             /\ \A j \in 1..(i - 1) : (s \o r)[j] = s[j]
  <2>1. i <= Len(s)
    <3> SUFFICES ASSUME ~(i <= Len(s)) PROVE FALSE
      OBVIOUS
    <3>1. i - Len(s) \in 1..Len(r) /\ (s \o r)[i] = r[i - Len(s)]
      BY <1>1, <1>2
    <3> QED BY <1>2, <1>3, <3>1 DEF Plainly
  <2> QED BY <1>1, <1>2, <2>1
<1>4. SyncsFirst(s \o r)
  BY <1>2, <1>3 DEF SyncsFirst
<1>5. Covered(s \o r)
  <2> SUFFICES ASSUME NEW i \in 1..(Len(s) + Len(r)), NEW p \in Peers,
                      Needs((s \o r)[i].kind, p)
               PROVE  \E j \in 1..(i - 1) : (s \o r)[j] = SyncOp(p)
    BY <1>2 DEF Covered
  <2>1. (s \o r)[i].kind \in {"frame", "access"}
    BY DEF Needs
  <2>2. i \in 1..Len(s) /\ (s \o r)[i] = s[i] /\ \A j \in 1..(i - 1) : (s \o r)[j] = s[j]
    BY <1>3, <2>1
  <2>3. PICK j \in 1..(i - 1) : s[j] = SyncOp(p)
    BY <1>2, <2>2 DEF Covered
  <2> QED BY <2>2, <2>3
<1> QED BY <1>4, <1>5

\* A scanline synchronizes every peer before it ends the frame.
LEMMA ScanlineFacts ==
  ASSUME NEW y
  PROVE  SyncsFirst(ScanlineOps(y)) /\ Covered(ScanlineOps(y))
<1> DEFINE a == <<SyncOp(SMP), SyncOp(PPU)>>
           b == a \o CopSyncs
           e == <<SyncOp(PPU), Plain("frame")>>
<1>0. SyncOp(SMP) \in Ops /\ SyncOp(PPU) \in Ops /\ Plain("frame") \in Ops
  BY DEF SyncOp, Plain, Ops, Peers
<1>1. a \in Seq(Ops) /\ Len(a) = 2 /\ a[1] = SyncOp(SMP) /\ a[2] = SyncOp(PPU)
  BY <1>0
<1>2. Len(CopSeq) \in Nat
  BY CopAssumption
<1>3. /\ b \in Seq(Ops) /\ Len(b) = 2 + Len(CopSeq)
      /\ \A i \in 1..(2 + Len(CopSeq)) : b[i] = IF i <= 2 THEN a[i] ELSE CopSyncs[i - 2]
  <2>1. CopSyncs \in Seq(Ops) /\ Len(CopSyncs) = Len(CopSeq)
    BY CopSyncsFacts
  <2> HIDE DEF a
  <2>2. /\ a \o CopSyncs \in Seq(Ops) /\ Len(a \o CopSyncs) = Len(a) + Len(CopSyncs)
        /\ \A i \in 1..(Len(a) + Len(CopSyncs)) :
             (a \o CopSyncs)[i] = IF i <= Len(a) THEN a[i] ELSE CopSyncs[i - Len(a)]
    BY <1>1, <2>1, ConcatProperties
  <2> QED BY <1>1, <2>1, <2>2
<1> HIDE DEF a, b
<1>4. \A i \in 1..(2 + Len(CopSeq)) : b[i].kind = "sync"
  <2> TAKE i \in 1..(2 + Len(CopSeq))
  <2>1. CASE i <= 2
    <3>1. i = 1 \/ i = 2
      BY <2>1, <1>2
    <3> QED BY <1>1, <1>2, <1>3, <2>1, <3>1 DEF SyncOp
  <2>2. CASE i > 2
    <3>1. i - 2 \in 1..Len(CopSeq)
      BY <2>2, <1>2
    <3>2. b[i] = CopSyncs[i - 2]
      BY <1>2, <1>3, <2>2
    <3>3. CopSyncs[i - 2] = SyncOp(CopSeq[i - 2])
      BY <3>1, CopSyncsFacts
    <3> QED BY <3>2, <3>3 DEF SyncOp
  <2> QED BY <2>1, <2>2, <1>2
<1>5. \A p \in Peers : \E j \in 1..(2 + Len(CopSeq)) : b[j] = SyncOp(p)
  <2> TAKE p \in Peers
  <2>1. CASE p = SMP
    <3>1. b[1] = SyncOp(SMP)
      BY <1>1, <1>2, <1>3
    <3> QED BY <2>1, <3>1, <1>2
  <2>2. CASE p = PPU
    <3>1. b[2] = SyncOp(PPU)
      BY <1>1, <1>2, <1>3
    <3> QED BY <2>2, <3>1, <1>2
  <2>3. CASE p \in Cops
    <3>1. PICK i \in 1..Len(CopSeq) : CopSeq[i] = p
      BY <2>3, CopSyncsFacts
    <3>2. b[i + 2] = CopSyncs[i]
      BY <1>2, <1>3, <3>1
    <3>3. b[i + 2] = SyncOp(p)
      BY <3>1, <3>2, CopSyncsFacts
    <3> QED BY <3>1, <3>3, <1>2
  <2> QED BY <2>1, <2>2, <2>3 DEF Peers
<1>6. ScanlineOps(y) = b \o (IF y = vdisp THEN e ELSE <<>>)
  BY DEF ScanlineOps, a, b
<1>7. CASE y = vdisp
  <2>1. e \in Seq(Ops) /\ Len(e) = 2 /\ e[1] = SyncOp(PPU) /\ e[2] = Plain("frame")
    BY <1>0
  <2> HIDE DEF e
  <2> DEFINE s == b \o e
             n == 2 + Len(CopSeq)
  <2>2. /\ s \in Seq(Ops) /\ Len(s) = n + 2 /\ n \in Nat
        /\ \A i \in 1..(n + 2) : s[i] = IF i <= n THEN b[i] ELSE e[i - n]
    <3>1. /\ b \o e \in Seq(Ops) /\ Len(b \o e) = Len(b) + Len(e)
          /\ \A i \in 1..(Len(b) + Len(e)) :
               (b \o e)[i] = IF i <= Len(b) THEN b[i] ELSE e[i - Len(b)]
      BY <1>3, <2>1, ConcatProperties
    <3> QED BY <1>2, <1>3, <2>1, <3>1
  <2>3. DOMAIN s = 1..(n + 2)
    BY <2>2, LenProperties
  <2> HIDE DEF s, n
  <2>4. \A i \in 1..n : s[i] = b[i]
    BY <2>2
  <2>5. s[n + 1] = SyncOp(PPU) /\ s[n + 2] = Plain("frame")
    <3>1. (n + 1) - n = 1 /\ (n + 2) - n = 2 /\ ~(n + 1 <= n) /\ ~(n + 2 <= n)
      BY <2>2
    <3> QED BY <2>1, <2>2, <3>1
  <2>6. \A i \in 1..(n + 1) : s[i].kind = "sync"
    BY <1>4, <2>2, <2>4, <2>5 DEF n, SyncOp
  <2>7. \A i \in 1..(n + 2) : i # n + 2 => i \in 1..(n + 1)
    BY <2>2
  <2>8. ASSUME NEW i \in 1..(n + 2), s[i].kind \in {"frame", "access"} PROVE i = n + 2
    BY <2>6, <2>7, <2>8
  <2>9. SyncsFirst(s)
    BY <2>2, <2>3, <2>6, <2>8 DEF SyncsFirst
  <2>10. Covered(s)
    <3> SUFFICES ASSUME NEW i \in 1..(n + 2), NEW p \in Peers, Needs(s[i].kind, p)
                 PROVE  \E j \in 1..(i - 1) : s[j] = SyncOp(p)
      BY <2>3 DEF Covered
    <3>1. i = n + 2
      BY <2>8 DEF Needs
    <3>2. PICK j \in 1..n : b[j] = SyncOp(p)
      BY <1>5 DEF n
    <3> QED BY <2>2, <2>4, <3>1, <3>2
  <2> QED BY <1>6, <1>7, <2>9, <2>10 DEF s
<1>8. CASE y # vdisp
  <2>1. ScanlineOps(y) = b
    BY <1>3, <1>6, <1>8, ConcatEmptySeq
  <2>2. DOMAIN b = 1..(2 + Len(CopSeq))
    BY <1>3, LenProperties
  <2>3. Plainly(b)
    BY <1>4, <2>2 DEF Plainly
  <2> QED BY <2>1, <2>3, PlainSeq
<1> QED BY <1>7, <1>8

LEMMA TailFacts ==
  ASSUME NEW s \in Seq(Ops), s # <<>>
  PROVE  /\ Tail(s) \in Seq(Ops) /\ Head(s) = s[1] /\ 1 \in DOMAIN s
         /\ \A i \in DOMAIN Tail(s) : i \in Nat \ {0} /\ i + 1 \in DOMAIN s /\ Tail(s)[i] = s[i + 1]
<1>1. Len(s) \in Nat /\ DOMAIN s = 1..Len(s) /\ Len(s) > 0
  BY LenProperties
<1>2. /\ Tail(s) \in Seq(Ops) /\ Len(Tail(s)) = Len(s) - 1
      /\ \A i \in 1..Len(Tail(s)) : Tail(s)[i] = s[i + 1]
  BY HeadTailProperties
<1>3. DOMAIN Tail(s) = 1..(Len(s) - 1)
  BY <1>2, LenProperties
<1>4. Head(s) = s[1]
  OBVIOUS
<1> QED BY <1>1, <1>2, <1>3, <1>4

\* Behind an operation that is no synchronization there is no frame and no access.
LEMMA TailPlain ==
  ASSUME NEW s \in Seq(Ops), s # <<>>, SyncsFirst(s), Head(s).kind # "sync"
  PROVE  Plainly(Tail(s))
<1> SUFFICES ASSUME NEW i \in DOMAIN Tail(s), Tail(s)[i].kind \in {"frame", "access"}
             PROVE  FALSE
  BY DEF Plainly
<1>1. i \in Nat \ {0} /\ i + 1 \in DOMAIN s /\ Tail(s)[i] = s[i + 1] /\ Head(s) = s[1]
  BY TailFacts
<1>2. 1 \in 1..((i + 1) - 1)
  BY <1>1
<1> QED BY <1>1, <1>2 DEF SyncsFirst

LEMMA TailSyncs ==
  ASSUME NEW s \in Seq(Ops), s # <<>>, SyncsFirst(s)
  PROVE  SyncsFirst(Tail(s))
<1> SUFFICES ASSUME NEW i \in DOMAIN Tail(s), Tail(s)[i].kind \in {"frame", "access"},
                    NEW j \in 1..(i - 1)
             PROVE  Tail(s)[j].kind = "sync"
  BY DEF SyncsFirst
<1>1. i \in Nat \ {0} /\ i + 1 \in DOMAIN s /\ Tail(s)[i] = s[i + 1]
  BY TailFacts
<1>2. Tail(s) \in Seq(Ops)
  BY TailFacts
<1>3. DOMAIN Tail(s) = 1..Len(Tail(s)) /\ Len(Tail(s)) \in Nat
  BY <1>2, LenProperties
<1>4. j \in DOMAIN Tail(s) /\ j + 1 \in 1..((i + 1) - 1)
  BY <1>1, <1>3
<1>5. Tail(s)[j] = s[j + 1]
  BY <1>4, TailFacts
<1> QED BY <1>1, <1>4, <1>5 DEF SyncsFirst

\* One bus cycle leaves work that synchronizes before it ends the frame.
LEMMA StepTodo ==
  ASSUME TypeOK, NEW q \in CpuClocks, NEW sync \in BOOLEAN,
         NEW rest \in Seq(Ops), Plainly(rest), Step(q, sync, rest)
  PROVE  SyncsFirst(todo') /\ Covered(todo')
<1> DEFINE y == (v + 1) % VPeriod
           delayed == IF sync THEN <<Plain("delayed")>> ELSE <<>>
           refresh == <<Plain("refresh")>>
           lines == IF h + q >= HPeriod THEN ScanlineOps(y) ELSE <<>>
           charge == <<[kind |-> "charge", clocks |-> q]>>
<1>1. /\ Plain("delayed") \in Ops /\ Plain("refresh") \in Ops
      /\ [kind |-> "charge", clocks |-> q] \in Ops
  BY DEF Plain, Ops
<1>2. delayed \in Seq(Ops) /\ refresh \in Seq(Ops) /\ charge \in Seq(Ops)
  BY <1>1
<1>3. Plainly(delayed) /\ Plainly(refresh) /\ Plainly(charge)
  BY DEF Plainly, Plain
<1>4. Plainly(<<>>)
  BY DEF Plainly
<1>5. lines \in Seq(Ops) /\ SyncsFirst(lines) /\ Covered(lines)
  BY <1>4, ScanlineType, ScanlineFacts, PlainSeq
<1>6. todo' = delayed \o rest \/ todo' = lines \o charge \o refresh \o delayed \o rest
  BY DEF Step, tickScanline
<1> HIDE DEF delayed, refresh, lines, charge
<1>7. CASE todo' = delayed \o rest
  BY <1>2, <1>3, <1>7, PlainSeq, ConcatPlain
<1>8. CASE todo' = lines \o charge \o refresh \o delayed \o rest
  <2>1. lines \o charge \in Seq(Ops) /\ SyncsFirst(lines \o charge) /\ Covered(lines \o charge)
    BY <1>2, <1>3, <1>5, ConcatPlain, ConcatProperties
  <2>2. /\ lines \o charge \o refresh \in Seq(Ops) /\ SyncsFirst(lines \o charge \o refresh)
        /\ Covered(lines \o charge \o refresh)
    BY <1>2, <1>3, <2>1, ConcatPlain, ConcatProperties
  <2>3. /\ lines \o charge \o refresh \o delayed \in Seq(Ops)
        /\ SyncsFirst(lines \o charge \o refresh \o delayed)
        /\ Covered(lines \o charge \o refresh \o delayed)
    BY <1>2, <1>3, <2>2, ConcatPlain, ConcatProperties
  <2> QED BY <1>8, <2>3, ConcatPlain
<1> QED BY <1>6, <1>7, <1>8

LEMMA RestPlain ==
  ASSUME todo \in Seq(Ops), SyncsFirst(todo), NEW rest,
         \/ rest \in {<<>>, <<Plain("bus")>>, <<Plain("bus"), Plain("step")>>}
         \/ todo # <<>> /\ Head(todo).kind # "sync" /\ rest = Tail(todo)
  PROVE  Plainly(rest)
BY TailPlain DEF Plainly, Plain

\* What a step does to the work left: nothing, or it starts work that covers
\* its frame and accesses, or it takes the first operation off.
LEMMA TodoCases ==
  ASSUME TypeOK, StackShape, OnlySyncsBefore, [Next]_vars
  PROVE  \/ todo' = todo
         \/ SyncsFirst(todo') /\ Covered(todo')
         \/ todo # <<>> /\ Head(todo).kind = "sync" /\ todo' = Tail(todo) /\ clock' = clock
            /\ \/ Doing("sync") /\ clock[Head(todo).peer] >= 0
               \/ running = CPU /\ pos[CPU] = "sync"
<1> DEFINE Good == SyncsFirst(todo') /\ Covered(todo')
<1>0. todo \in Seq(Ops) /\ SyncsFirst(todo) /\ Plainly(<<>>)
  BY SMTT(30) DEF TypeOK, OnlySyncsBefore, SyncsFirst, Plainly
<1>2. ASSUME todo # <<>>, Head(todo).kind # "sync", todo' = Tail(todo) PROVE Good
  <2>1. Plainly(Tail(todo))
    BY <1>0, <1>2, TailPlain
  <2> QED BY <1>2, <2>1, PlainSeq
<1>3. CASE CpuCycle \/ CpuRefresh \/ CpuTail
  <2>1. ASSUME NEW q \in CpuClocks, NEW sync \in BOOLEAN,
               NEW rest \in Seq(Ops), Step(q, sync, rest),
               \/ rest \in {<<>>, <<Plain("bus")>>, <<Plain("bus"), Plain("step")>>}
               \/ todo # <<>> /\ Head(todo).kind # "sync" /\ rest = Tail(todo)
        PROVE  Good
    BY <2>1, RestPlain, StepTodo, <1>0
  <2> QED BY <1>2, <1>3, <2>1, StepCases
<1>4. CASE CpuBusAccess
  <2>1. todo # <<>> /\ Head(todo).kind = "bus"
    BY <1>4 DEF CpuBusAccess, Doing
  <2>2. Plainly(Tail(todo)) /\ Tail(todo) \in Seq(Ops)
    BY <1>0, <2>1, TailPlain, TailFacts
  <2>3. SyncOp(SMP) \in Ops /\ SyncOp(PPU) \in Ops /\ Plain("access") \in Ops
    BY DEF SyncOp, Plain, Ops, Peers
  <2>4. ASSUME NEW io \in Seq(Ops), SyncsFirst(io), Covered(io), todo' = io \o Tail(todo)
        PROVE  Good
    BY <2>2, <2>4, ConcatPlain
  <2>5. CASE todo' = <<SyncOp(SMP), Plain("access")>> \o Tail(todo)
    <3> DEFINE io == <<SyncOp(SMP), Plain("access")>>
    <3>1. DOMAIN io = {1, 2} /\ io[1] = SyncOp(SMP) /\ io[2] = Plain("access") /\ io \in Seq(Ops)
      BY <2>3
    <3> HIDE DEF io
    <3>2. ASSUME NEW i \in DOMAIN io, io[i].kind \in {"frame", "access"}
          PROVE  i = 2 /\ io[i].kind = "access" /\ 1..(i - 1) = {1}
      BY <3>1, <3>2 DEF SyncOp, Plain
    <3>3. SyncsFirst(io)
      BY <3>1, <3>2 DEF SyncsFirst, SyncOp
    <3>4. Covered(io)
      BY <3>1, <3>2 DEF Covered, Needs
    <3> QED BY <2>4, <2>5, <3>1, <3>3, <3>4 DEF io
  <2>6. ASSUME NEW io \in Seq(Ops), Plainly(io), todo' = io \o Tail(todo)
        PROVE  Good
    BY <2>4, <2>6, PlainSeq
  <2>7. CASE todo' = <<SyncOp(PPU)>> \o Tail(todo)
    <3>1. Plainly(<<SyncOp(PPU)>>) /\ <<SyncOp(PPU)>> \in Seq(Ops)
      BY <2>3 DEF Plainly, SyncOp
    <3> QED BY <2>6, <2>7, <3>1
  <2>8. CASE todo' = CopSyncs \o Tail(todo)
    <3>1. DOMAIN CopSyncs = 1..Len(CopSeq) /\ CopSyncs \in Seq(Ops)
      BY CopSyncsFacts, LenProperties
    <3>2. Plainly(CopSyncs)
      BY <3>1, CopSyncsFacts DEF Plainly, SyncOp
    <3> QED BY <2>6, <2>8, <3>1, <3>2
  <2>9. CASE todo' = <<>> \o Tail(todo)
    <3>1. Plainly(<<>>) /\ <<>> \in Seq(Ops)
      BY DEF Plainly
    <3> QED BY <2>6, <2>9, <3>1
  <2> QED BY <1>4, <2>5, <2>7, <2>8, <2>9 DEF CpuBusAccess
<1>5. CASE CpuSync
  <2>1. todo # <<>> /\ Head(todo).kind = "sync" /\ clock' = clock
    BY <1>5 DEF CpuSync, Doing
  <2>2. Head(todo).peer \in Peers
    BY <1>0, <2>1 DEF Ops
  <2>3. clock[Head(todo).peer] \in Int
    BY <2>2, BoundAssumption DEF TypeOK
  <2>4. CASE clock[Head(todo).peer] < 0
    BY <1>5, <2>4 DEF CpuSync
  <2>5. CASE clock[Head(todo).peer] >= 0
    BY <1>5, <2>1, <2>3, <2>5 DEF CpuSync
  <2> QED BY <2>3, <2>4, <2>5
<1>6. CASE CpuCharge
  BY <1>2, <1>6 DEF CpuCharge, Doing
<1>7. CASE CpuAccess \/ CpuRecreate
  BY <1>2, <1>7 DEF CpuAccess, CpuRecreate, Doing
<1>8. CASE CpuDelayed
  <2>1. todo # <<>> /\ Head(todo).kind = "delayed"
    BY <1>8 DEF CpuDelayed, Doing
  <2>2. Plainly(Tail(todo)) /\ Tail(todo) \in Seq(Ops)
    BY <1>0, <2>1, TailPlain, TailFacts
  <2>3. DOMAIN CopSyncs = 1..Len(CopSeq) /\ CopSyncs \in Seq(Ops)
    BY CopSyncsFacts, LenProperties
  <2>4. Plainly(CopSyncs)
    BY <2>3, CopSyncsFacts DEF Plainly, SyncOp
  <2>5. todo' = Tail(todo) \/ todo' = CopSyncs \o Tail(todo)
    BY <1>8 DEF CpuDelayed
  <2> QED BY <2>2, <2>3, <2>4, <2>5, PlainSeq, ConcatPlain
<1>9. ASSUME NEW t \in Threads, ReturnFromResume(t)
      PROVE  todo' = todo \/ (todo # <<>> /\ Head(todo).kind = "sync" /\ todo' = Tail(todo)
                              /\ clock' = clock /\ running = CPU /\ pos[CPU] = "sync")
  BY <1>9 DEF ReturnFromResume, StackShape
<1>10. CASE CpuAfterFrame
  BY <1>2, <1>10 DEF CpuAfterFrame, StackShape
<1>11. CASE Power
  BY <1>0, <1>11, PlainSeq DEF Power
<1>12. ASSUME NEW t \in Threads, SyncPoint(t) \/ BeginMain(t) \/ EndMain(t) \/ Halt(t)
       PROVE  todo' = todo
  BY <1>12 DEF SyncPoint, BeginMain, EndMain, Halt, cpuVars
<1>13. ASSUME NEW p \in Peers, PeerStep(p) PROVE todo' = todo
  BY <1>13 DEF PeerStep, cpuVars
<1>14. CASE SmpIdle \/ SmpPort \/ SmpAccess \/ CpuFrame
  BY <1>14 DEF SmpIdle, SmpPort, SmpAccess, CpuFrame, cpuVars
<1>15. CASE FrameEvent \/ CheatWrite \/ FrameEventEnd \/ Cheats \/ CheatsReturn
            \/ RunReturn \/ SaveReturn \/ Run
            \/ RunToSave \/ SaveContinue \/ SaveRestart \/ SaveNext
  BY <1>15 DEF FrameEvent, CheatWrite, FrameEventEnd, Cheats, CheatsReturn, RunReturn,
               SaveReturn, Run, RunToSave,
               SaveContinue, SaveRestart, SaveNext, Reenter, stackVars, cpuVars
<1>16. CASE UNCHANGED vars
  BY <1>16 DEF vars, cpuVars
<1> QED
  BY <1>3, <1>4, <1>5, <1>6, <1>7, <1>8, <1>9, <1>10, <1>11, <1>12, <1>13, <1>14,
     <1>15, <1>16, NextCases

LEMMA NextOnlySyncs ==
  ASSUME TypeOK, StackShape, OnlySyncsBefore, [Next]_vars PROVE OnlySyncsBefore'
<1>1. todo \in Seq(Ops) /\ SyncsFirst(todo)
  BY DEF TypeOK, OnlySyncsBefore, SyncsFirst
<1>2. SyncsFirst(todo')
  BY <1>1, TodoCases, TailSyncs
<1> QED BY <1>2 DEF OnlySyncsBefore, SyncsFirst

\* A clock that is not negative stays so, unless the step starts work that
\* covers its frame and accesses.
LEMMA SignKept ==
  ASSUME TypeOK, OnlySyncsBefore, [Next]_vars
  PROVE  \/ SyncsFirst(todo') /\ Covered(todo')
         \/ \A p \in Peers : clock[p] >= 0 => clock'[p] >= 0
<1>0. /\ todo \in Seq(Ops) /\ SyncsFirst(todo) /\ Plainly(<<>>)
      /\ clock \in [Peers -> -ClockCap..ClockCap] /\ SMP \in Peers /\ Recreatable \subseteq Peers
  BY CopAssumption DEF TypeOK, OnlySyncsBefore, SyncsFirst, Plainly, Peers
<1>1. ASSUME NEW p \in Peers, NEW q \in Quantum[p],
             clock' = [clock EXCEPT ![p] = Saturate(clock[p] + q)]
      PROVE  \A r \in Peers : clock[r] >= 0 => clock'[r] >= 0
  <2>1. q \in Nat /\ clock[p] \in Int
    BY <1>0, ClockAssumption, BoundAssumption
  <2>2. clock[p] >= 0 => Saturate(clock[p] + q) >= 0
    BY <2>1, BoundAssumption DEF Saturate
  <2> QED BY <1>0, <1>1, <2>2
<1>2. ASSUME NEW p \in Peers, PeerStep(p)
      PROVE  \A r \in Peers : clock[r] >= 0 => clock'[r] >= 0
  BY <1>1, <1>2 DEF PeerStep
<1>3. CASE SmpIdle
  BY <1>0, <1>1, <1>3 DEF SmpIdle
<1>4. CASE CpuRecreate
  BY <1>0, <1>4 DEF CpuRecreate
<1>5. CASE CpuCycle \/ CpuRefresh \/ CpuTail
  <2>1. ASSUME NEW q \in CpuClocks, NEW sync \in BOOLEAN,
               NEW rest \in Seq(Ops), Step(q, sync, rest),
               \/ rest \in {<<>>, <<Plain("bus")>>, <<Plain("bus"), Plain("step")>>}
               \/ todo # <<>> /\ Head(todo).kind # "sync" /\ rest = Tail(todo)
        PROVE  SyncsFirst(todo') /\ Covered(todo')
    BY <2>1, RestPlain, StepTodo, <1>0
  <2> QED BY <1>5, <2>1, StepCases
<1>7. CASE CpuCharge
  <2>1. todo # <<>> /\ Head(todo).kind = "charge" /\ todo' = Tail(todo)
    BY <1>7 DEF CpuCharge, Doing
  <2>2. Plainly(Tail(todo))
    BY <1>0, <2>1, TailPlain
  <2> QED BY <2>1, <2>2, PlainSeq
<1>8. CASE Power
  BY <1>8, <1>0, PlainSeq DEF Power
<1>9. ASSUME NEW t \in Threads, SyncPoint(t) \/ BeginMain(t) \/ EndMain(t)
                                 \/ ReturnFromResume(t) \/ Halt(t)
      PROVE  clock' = clock
  BY <1>9 DEF SyncPoint, BeginMain, EndMain, ReturnFromResume, Halt
<1>10. CASE \/ SmpPort \/ SmpAccess \/ CpuBusAccess \/ CpuSync \/ CpuDelayed \/ CpuAccess
            \/ CpuFrame \/ CpuAfterFrame
  BY <1>10 DEF SmpPort, SmpAccess, CpuBusAccess, CpuSync, CpuDelayed, CpuAccess, CpuFrame,
               CpuAfterFrame
<1>11. CASE FrameEvent \/ CheatWrite \/ FrameEventEnd \/ Cheats \/ CheatsReturn
            \/ RunReturn \/ SaveReturn \/ Run
            \/ RunToSave \/ SaveContinue \/ SaveRestart \/ SaveNext
  BY <1>11 DEF FrameEvent, CheatWrite, FrameEventEnd, Cheats, CheatsReturn, RunReturn,
               SaveReturn, Run, RunToSave,
               SaveContinue, SaveRestart, SaveNext, Reenter, stackVars
<1>12. CASE UNCHANGED vars
  BY <1>12 DEF vars
<1> QED
  BY <1>2, <1>3, <1>4, <1>5, <1>7, <1>8, <1>9, <1>10, <1>11, <1>12, NextCases

-----------------------------------------------------------------------------
(* The Strict method: what its order visits, and what holds when it ends. *)

LEMMA StrictOrderFacts ==
  ASSUME method = "Strict"
  PROVE  /\ Order \in Seq(Threads) /\ Len(Order) \in Nat /\ Len(Order) >= 4
         /\ Order[1] = SMP /\ Order[2] = CPU
         /\ \A i \in 1..Len(Order) : Order[i] \in Threads
         /\ \A t \in Threads : \E i \in 1..Len(Order) : Order[i] = t
         /\ \A i \in 1..Len(Order) : Order[i] = CPU => i = 2
<1> DEFINE a == <<SMP, CPU, SMP, PPU>>
<1>1. a \in Seq(Threads) /\ Len(a) = 4 /\ a[1] = SMP /\ a[2] = CPU /\ a[3] = SMP /\ a[4] = PPU
  BY DEF Threads, Peers
<1>2. CopSeq \in Seq(Threads) /\ Len(CopSeq) \in Nat
  BY CopAssumption DEF Threads, Peers
<1>3. Order = a \o CopSeq
  BY DEF Order, StrictOrder
<1> HIDE DEF a
<1>4. /\ a \o CopSeq \in Seq(Threads) /\ Len(a \o CopSeq) = Len(a) + Len(CopSeq)
      /\ \A i \in 1..(Len(a) + Len(CopSeq)) :
           (a \o CopSeq)[i] = IF i <= Len(a) THEN a[i] ELSE CopSeq[i - Len(a)]
  BY <1>1, <1>2, ConcatProperties
<1>5. /\ Order \in Seq(Threads) /\ Len(Order) = 4 + Len(CopSeq)
      /\ \A i \in 1..(4 + Len(CopSeq)) : Order[i] = IF i <= 4 THEN a[i] ELSE CopSeq[i - 4]
  BY <1>1, <1>3, <1>4
<1>6. Order[1] = SMP /\ Order[2] = CPU /\ Order[4] = PPU
  BY <1>1, <1>2, <1>5
<1>7. ASSUME NEW t \in Threads PROVE \E i \in 1..Len(Order) : Order[i] = t
  <2>1. CASE t = SMP \/ t = CPU \/ t = PPU
    BY <1>2, <1>5, <1>6, <2>1
  <2>2. CASE t \in Cops
    <3>1. PICK i \in 1..Len(CopSeq) : CopSeq[i] = t
      BY <2>2, CopSyncsFacts
    <3>2. i + 4 \in 1..(4 + Len(CopSeq)) /\ ~(i + 4 <= 4) /\ (i + 4) - 4 = i
      BY <1>2
    <3>3. Order[i + 4] = CopSeq[i]
      BY <1>5, <3>2
    <3> QED BY <1>5, <3>1, <3>2, <3>3
  <2> QED BY <2>1, <2>2 DEF Threads, Peers
<1>8. \A i \in 1..Len(Order) : Order[i] \in Threads
  BY <1>5, LenProperties
<1>9. ASSUME NEW i \in 1..Len(Order), Order[i] = CPU PROVE i = 2
  <2>1. CASE i <= 4
    <3>1. i \in {1, 2, 3, 4} /\ Order[i] = a[i]
      BY <1>5, <1>2, <2>1
    <3> QED BY <1>1, <1>9, <3>1, ThreadAssumption DEF Peers
  <2>2. CASE ~(i <= 4)
    <3>1. Order[i] = CopSeq[i - 4] /\ i - 4 \in 1..Len(CopSeq)
      BY <1>5, <1>2, <2>2
    <3>2. CopSeq[i - 4] \in Cops
      BY <1>2, <3>1, CopAssumption DEF Cops
    <3> QED BY <1>9, <3>1, <3>2, ThreadAssumption DEF Peers
  <2> QED BY <2>1, <2>2
<1>10. Len(Order) \in Nat /\ Len(Order) >= 4
  BY <1>2, <1>5
<1>11. Order \in Seq(Threads)
  BY <1>5
<1> QED BY <1>6, <1>7, <1>8, <1>9, <1>10, <1>11

\* A step that has no part in a save by the Fast method, which may return with
\* threads inside resume().
Intact == method = "Strict" \/ (call # "save" /\ call' # "save")

\* When runToSave returns, every thread is inside scheduler.synchronize().
LEMMA SaveReturnParked ==
  ASSUME Intact, IInv, SaveReturn
  PROVE  (\A t \in Threads : pos[t] = "parked") /\ todo = <<>> /\ ~desynchronized
<1>1. call = "save" /\ running = Host /\ event = "Synchronized" /\ stage = Len(Order)
  BY DEF SaveReturn, Entered
<1>5. method = "Strict"
  BY <1>1 DEF Intact
<1>2. ~desynchronized /\ \A i \in 1..Len(Order) : pos[Order[i]] = "parked"
  BY <1>1 DEF IInv, StrictProgress
<1>3. \A t \in Threads : pos[t] = "parked"
  BY <1>2, <1>5, StrictOrderFacts
<1>4. todo = <<>>
  BY <1>3 DEF IInv, StackShape, Threads
<1> QED BY <1>2, <1>3, <1>4

\* The mode changes only at the ends of a save.
LEMMA ModeCases ==
  ASSUME HostShape, [Next]_vars
  PROVE  mode' = mode \/ (RunToSave /\ mode' = "Synchronize") \/ (SaveReturn /\ mode' = "Run")
<1>1. ASSUME NEW t \in Threads, SyncPoint(t) \/ BeginMain(t) \/ EndMain(t)
                                 \/ ReturnFromResume(t) \/ Halt(t)
      PROVE  mode' = mode
  BY <1>1 DEF SyncPoint, BeginMain, EndMain, ReturnFromResume, Halt, schedVars
<1>2. ASSUME NEW p \in Peers, PeerStep(p) PROVE mode' = mode
  BY <1>2 DEF PeerStep, resume, schedVars
<1>3. CASE \/ SmpIdle \/ SmpPort \/ SmpAccess \/ CpuCycle \/ CpuRefresh \/ CpuTail \/ CpuBusAccess
           \/ CpuRecreate
           \/ CpuSync \/ CpuCharge \/ CpuDelayed \/ CpuAccess \/ CpuFrame \/ CpuAfterFrame
  BY <1>3 DEF SmpIdle, SmpPort, SmpAccess, CpuCycle, CpuRefresh, CpuTail, CpuBusAccess,
      CpuRecreate, CpuSync,
              CpuCharge, CpuDelayed, CpuAccess, CpuFrame, CpuAfterFrame, resume, schedVars
<1>4. CASE FrameEvent \/ CheatWrite \/ FrameEventEnd \/ Cheats \/ CheatsReturn \/ RunReturn
            \/ SaveContinue \/ SaveRestart \/ SaveNext \/ Power
  BY <1>4 DEF FrameEvent, CheatWrite, FrameEventEnd, Cheats, CheatsReturn, RunReturn, SaveContinue, SaveRestart,
              SaveNext, Reenter, Power, resume, schedVars
<1>5. CASE Run \/ RunToSave \/ SaveReturn
  BY <1>5 DEF Run, RunToSave, SaveReturn, HostShape, HostIdle
<1>6. CASE UNCHANGED vars
  BY <1>6 DEF vars, schedVars
<1> QED BY <1>1, <1>2, <1>3, <1>4, <1>5, <1>6, NextCases

LEMMA NextHost ==
  ASSUME Intact, IInv, [Next]_vars PROVE HostShape'
<1> USE DEF HostShape
<1>0. /\ HostShape /\ TypeOK /\ Host \notin Threads /\ CPU \in Threads /\ Peers \subseteq Threads
      /\ Len(Order) \in Nat /\ Len(Order) >= 2 /\ method' = method /\ Order' = Order
      /\ (call = "save" \/ call' = "save") => method = "Strict"
  BY OrderType, ThreadAssumption
     DEF IInv, Threads, method, Order, StrictOrder, FastOrder, Intact
<1>1. ASSUME NEW t \in Threads, SyncPoint(t) PROVE HostShape'
  BY <1>0, <1>1 DEF SyncPoint, leave, hostVars
<1>2. ASSUME NEW t \in Threads, BeginMain(t) \/ EndMain(t) \/ ReturnFromResume(t) \/ Halt(t)
      PROVE  HostShape'
  BY <1>0, <1>2 DEF BeginMain, EndMain, ReturnFromResume, Halt, schedVars, hostVars
<1>3. ASSUME NEW p \in Peers, PeerStep(p) PROVE HostShape'
  BY <1>0, <1>3 DEF PeerStep, MayStep, resume, schedVars, hostVars
<1>4. CASE \/ SmpIdle \/ SmpPort \/ SmpAccess \/ CpuCycle \/ CpuRefresh \/ CpuTail \/ CpuBusAccess
           \/ CpuRecreate
           \/ CpuSync \/ CpuCharge \/ CpuDelayed \/ CpuAccess \/ CpuAfterFrame
  <2>1. running # Host /\ UNCHANGED <<mode, hostVars>>
    BY <1>0, <1>4, ThreadAssumption
       DEF SmpIdle, SmpPort, SmpAccess, CpuCycle, CpuRefresh, CpuTail, CpuBusAccess,
           CpuRecreate, CpuSync,
           CpuCharge, CpuDelayed, CpuAccess, CpuAfterFrame, MayStep, Doing, resume, schedVars,
           Threads, Peers
  <2> QED BY <1>0, <2>1 DEF hostVars
<1>5. CASE CpuFrame
  BY <1>0, <1>5 DEF CpuFrame, Doing, leave, hostVars
<1>6. CASE FrameEvent
  BY <1>0, <1>6 DEF FrameEvent, schedVars
<1>7. CASE CheatWrite
  BY <1>0, <1>7 DEF CheatWrite, resume, schedVars
<1>8. CASE FrameEventEnd
  BY <1>0, <1>8 DEF FrameEventEnd, schedVars
<1>9. CASE RunReturn
  BY <1>0, <1>9 DEF RunReturn, Entered, schedVars
<1>10. CASE SaveContinue
  BY <1>0, <1>10 DEF SaveContinue, Entered, Reenter, enter
<1>11. CASE SaveRestart
  BY <1>0, <1>11 DEF SaveRestart, Entered, Reenter, enter
<1>12. CASE SaveNext
  BY <1>0, <1>12 DEF SaveNext, Entered, Reenter, enter, TypeOK
<1>13. CASE SaveReturn
  BY <1>0, <1>13 DEF SaveReturn, Entered
<1>14. CASE Run
  BY <1>0, <1>14 DEF Run, HostIdle, enter
<1>15. CASE RunToSave
  BY <1>0, <1>15 DEF RunToSave, HostIdle, enter
<1>16. CASE Power
  BY <1>0, <1>16 DEF Power, hostVars
<1>17. CASE UNCHANGED vars
  BY <1>0, <1>17 DEF vars, schedVars, hostVars
<1>18. CASE Cheats
  BY <1>0, <1>18 DEF Cheats, HostIdle, schedVars
<1>19. CASE CheatsReturn
  BY <1>0, <1>19 DEF CheatsReturn, schedVars
<1> QED
  BY <1>1, <1>2, <1>3, <1>4, <1>5, <1>6, <1>7, <1>8, <1>9, <1>10, <1>11, <1>12,
     <1>13, <1>14, <1>15, <1>16, <1>17, <1>18, <1>19, NextCases

\* A frame or a port access is preceded by the synchronizations it needs.
LEMMA NextSynced ==
  ASSUME Intact, IInv, [Next]_vars PROVE SyncedBefore'
<1>0. TypeOK /\ StackShape /\ OnlySyncsBefore /\ SyncedBefore /\ HostShape /\ Handshake
      /\ todo \in Seq(Ops)
  BY DEF IInv, TypeOK
<1>1. CASE Covered(todo')
  BY <1>1 DEF Covered, SyncedBefore
<1>2. CASE SaveReturn
  <2>1. todo' = <<>>
    BY <1>2, SaveReturnParked DEF SaveReturn, stackVars, cpuVars
  <2> QED BY <2>1 DEF SyncedBefore
<1>3. CASE ~SaveReturn /\ mode' = "Run" /\ ~Covered(todo')
  <2>1. mode = "Run"
    BY <1>0, <1>3, ModeCases
  <2>2. \A p \in Peers : clock[p] >= 0 => clock'[p] >= 0
    BY <1>0, <1>3, SignKept
  <2>3. CASE todo' = todo
    BY <1>0, <2>1, <2>2, <2>3 DEF SyncedBefore
  <2>4. CASE /\ todo # <<>> /\ Head(todo).kind = "sync" /\ todo' = Tail(todo)
             /\ clock[Head(todo).peer] >= 0
    <3> SUFFICES ASSUME NEW i \in DOMAIN todo', NEW p \in Peers, Needs(todo'[i].kind, p)
                 PROVE  clock'[p] >= 0 \/ \E j \in 1..(i - 1) : todo'[j] = SyncOp(p)
      BY DEF SyncedBefore
    <3>1. i \in Nat \ {0} /\ i + 1 \in DOMAIN todo /\ todo'[i] = todo[i + 1] /\ Head(todo) = todo[1]
      BY <1>0, <2>4, TailFacts
    <3>2. clock[p] >= 0 \/ \E j \in 1..((i + 1) - 1) : todo[j] = SyncOp(p)
      BY <1>0, <2>1, <3>1 DEF SyncedBefore
    <3>3. CASE clock[p] >= 0
      BY <2>2, <3>3
    <3>4. ASSUME NEW j \in 1..((i + 1) - 1), todo[j] = SyncOp(p)
          PROVE  clock'[p] >= 0 \/ \E k \in 1..(i - 1) : todo'[k] = SyncOp(p)
      <4>1. CASE j = 1
        BY <2>2, <2>4, <3>1, <3>4, <4>1 DEF SyncOp
      <4>2. CASE j # 1
        <5>1. Tail(todo) \in Seq(Ops)
          BY <1>0, <2>4, TailFacts
        <5>2. DOMAIN Tail(todo) = 1..Len(Tail(todo)) /\ Len(Tail(todo)) \in Nat
          BY <5>1, LenProperties
        <5>3. j - 1 \in 1..(i - 1) /\ j - 1 \in DOMAIN Tail(todo) /\ (j - 1) + 1 = j
          BY <2>4, <3>1, <4>2, <5>2
        <5>4. Tail(todo)[j - 1] = todo[(j - 1) + 1]
          BY <1>0, <2>4, <5>3, TailFacts
        <5> QED BY <2>4, <3>4, <5>3, <5>4
      <4> QED BY <4>1, <4>2
    <3> QED BY <3>2, <3>3, <3>4
  <2>5. running = CPU /\ pos[CPU] = "sync" => clock[Head(todo).peer] >= 0
    BY <1>0, <2>1 DEF Handshake
  <2> QED BY <1>0, <1>3, <2>3, <2>4, <2>5, TodoCases
<1>4. CASE mode' # "Run"
  BY <1>4 DEF SyncedBefore
<1> QED BY <1>1, <1>2, <1>3, <1>4

\* In Run mode a frame leaves every peer synchronized until the host calls again,
\* so the cheats that are written meanwhile stay on its stack.
LEMMA NextFrame ==
  ASSUME Intact, IInv, [Next]_vars PROVE FrameSynced' /\ FrameOnHost'
<1> USE DEF FrameSynced, FrameOnHost
<1>0. /\ HostShape /\ TypeOK /\ FrameSynced /\ FrameOnHost /\ Handshake /\ Host \notin Threads
      /\ CPU \in Threads /\ Peers \subseteq Threads /\ \A p \in Peers : clock[p] \in Int
      /\ (mode = "Run" <=> call # "save") /\ (call = "none" <=> hostAt = "idle")
      /\ (call = "cheats" <=> hostAt = "cheats")
  <2>1. /\ HostShape /\ TypeOK /\ FrameSynced /\ FrameOnHost /\ Handshake
    BY DEF IInv
  <2>2. /\ Host \notin Threads /\ CPU \in Threads /\ Peers \subseteq Threads
    BY ThreadAssumption DEF Threads
  <2>3. clock \in [Peers -> -ClockCap..ClockCap] /\ ClockCap \in Nat
    BY <2>1, BoundAssumption DEF TypeOK
  <2>4. \A p \in Peers : clock[p] \in Int
    BY <2>3
  <2>5. /\ (mode = "Run" <=> call # "save") /\ (call = "none" <=> hostAt = "idle")
        /\ (call = "cheats" <=> hostAt = "cheats")
    BY <2>1 DEF HostShape
  <2> QED BY <2>1, <2>2, <2>4, <2>5
<1>1. ASSUME NEW t \in Threads, SyncPoint(t) PROVE FrameSynced' /\ FrameOnHost'
  BY <1>0, <1>1 DEF SyncPoint, leave, hostVars, synchronizing
<1>2. ASSUME NEW t \in Threads, BeginMain(t) \/ EndMain(t) \/ ReturnFromResume(t) \/ Halt(t)
      PROVE  FrameSynced' /\ FrameOnHost'
  BY <1>0, <1>2 DEF BeginMain, EndMain, ReturnFromResume, Halt, schedVars, hostVars
<1>3. ASSUME NEW p \in Peers, PeerStep(p) PROVE FrameSynced' /\ FrameOnHost'
  BY <1>0, <1>3 DEF PeerStep, MayStep, resume, schedVars, hostVars
<1>4. CASE \/ SmpIdle \/ SmpPort \/ SmpAccess \/ CpuCycle \/ CpuRefresh \/ CpuTail \/ CpuBusAccess
           \/ CpuRecreate
           \/ CpuSync \/ CpuCharge \/ CpuDelayed \/ CpuAccess \/ CpuAfterFrame
  <2>1. running \in Threads /\ UNCHANGED <<mode, hostVars>>
    BY <1>4 DEF SmpIdle, SmpPort, SmpAccess, CpuCycle, CpuRefresh, CpuTail, CpuBusAccess,
        CpuRecreate, CpuSync,
           CpuCharge, CpuDelayed, CpuAccess, CpuAfterFrame, MayStep, Doing, resume, schedVars,
           Threads, Peers
  <2>2. running' \in Threads
    <3>1. CASE CpuSync
      <4>1. Head(todo) \in Ops /\ Head(todo).kind = "sync"
        BY <3>1 DEF CpuSync, Doing, TypeOK, IInv
      <4>2. Head(todo).peer \in Threads
        BY <1>0, <4>1 DEF Ops
      <4> QED BY <2>1, <3>1, <4>2 DEF CpuSync, resume, schedVars
    <3>2. CASE ~CpuSync
      BY <1>0, <1>4, <2>1, <3>2
         DEF SmpIdle, SmpPort, SmpAccess, CpuCycle, CpuRefresh, CpuTail, CpuBusAccess, CpuRecreate,
             CpuCharge, CpuDelayed, CpuAccess, CpuAfterFrame, resume, schedVars
    <3> QED BY <3>1, <3>2
  <2> QED BY <1>0, <2>1, <2>2 DEF hostVars
<1>5. CASE CpuFrame
  <2>1. running = CPU /\ todo # <<>> /\ Head(todo).kind = "frame" /\ todo \in Seq(Ops)
    BY <1>5 DEF CpuFrame, Doing, IInv, TypeOK
  <2>2. 1 \in DOMAIN todo /\ Head(todo) = todo[1]
    BY <2>1, TailFacts
  <2>3. ASSUME mode = "Run", NEW p \in Peers PROVE clock[p] >= 0
    <3>1. Needs(todo[1].kind, p)
      BY <2>1, <2>2 DEF Needs
    <3>2. clock[p] >= 0 \/ \E j \in 1..(1 - 1) : todo[j] = SyncOp(p)
      BY <2>2, <2>3, <3>1 DEF IInv, SyncedBefore
    <3> QED BY <3>2
  <2> QED BY <1>0, <1>5, <2>1, <2>3 DEF CpuFrame, leave, hostVars
<1>6. CASE FrameEvent
  BY <1>0, <1>6 DEF FrameEvent, schedVars, stackVars
<1>7. CASE CheatWrite
  <2>1. Head(writes) \in Peers
    BY <1>7 DEF CheatWrite, IInv, TypeOK
  <2>2. CASE mode = "Run"
    <3>1. call \in {"run", "cheats"} /\ running = Host /\ event = "Frame"
      BY <1>0, <1>7, <2>2 DEF CheatWrite, TypeOK
    <3>2. ~(clock[Head(writes)] < 0)
      BY <1>0, <2>1, <3>1
    <3> QED BY <1>0, <1>7, <3>1, <3>2 DEF CheatWrite, schedVars, stackVars
  <2>3. CASE mode # "Run"
    BY <1>0, <1>7, <2>3 DEF CheatWrite, resume, schedVars, stackVars
  <2> QED BY <2>2, <2>3
<1>8. CASE FrameEventEnd \/ RunReturn \/ CheatsReturn
  BY <1>0, <1>8 DEF FrameEventEnd, RunReturn, CheatsReturn, schedVars, stackVars
<1>9. CASE SaveContinue \/ SaveRestart \/ SaveNext
  BY <1>0, <1>9 DEF SaveContinue, SaveRestart, SaveNext, Entered, Reenter, enter
<1>10. CASE SaveReturn \/ Power \/ RunToSave
  BY <1>0, <1>10 DEF SaveReturn, Power, HostIdle, RunToSave, hostVars
<1>11. CASE Run
  BY <1>0, <1>11 DEF Run, enter, TypeOK
<1>12. CASE UNCHANGED vars
  BY <1>0, <1>12 DEF vars, schedVars, hostVars
<1>13. CASE Cheats
  BY <1>0, <1>13 DEF Cheats, HostIdle, schedVars, stackVars
<1> QED
  BY <1>1, <1>2, <1>3, <1>4, <1>5, <1>6, <1>7, <1>8, <1>9, <1>10, <1>11, <1>12, <1>13,
     NextCases

\* In Run mode a peer runs only inside the CPU's resume of that peer.
LEMMA NextHandshake ==
  ASSUME Intact, IInv, [Next]_vars PROVE Handshake'
<1> USE DEF Handshake
<1>0. /\ HostShape /\ TypeOK /\ StackShape /\ FrameSynced /\ FrameOnHost /\ Handshake
      /\ Host \notin Threads /\ CPU \in Threads /\ CPU \notin Peers /\ Threads = Peers \cup {CPU}
      /\ SMP \in Peers /\ pos \in [Threads -> Positions] /\ clock \in [Peers -> Int]
      /\ Recreatable \subseteq Cops /\ SMP \notin Cops /\ Cops \subseteq Peers
  <2>1. /\ HostShape /\ TypeOK /\ StackShape /\ FrameSynced /\ FrameOnHost /\ Handshake
    BY DEF IInv
  <2>2. clock \in [Peers -> -ClockCap..ClockCap] /\ ClockCap \in Nat
    BY <2>1, BoundAssumption DEF TypeOK
  <2>3. clock \in [Peers -> Int]
    BY <2>2
  <2>4. pos \in [Threads -> Positions]
    BY <2>1 DEF TypeOK
  <2> QED BY <2>1, <2>3, <2>4, ThreadAssumption, CopAssumption DEF Threads, Peers
<1>1. ASSUME NEW t \in Threads, SyncPoint(t) PROVE Handshake'
  BY <1>1 DEF SyncPoint, synchronizing
<1>2. ASSUME NEW t \in Threads, BeginMain(t) \/ EndMain(t) PROVE Handshake'
  BY <1>0, <1>2 DEF BeginMain, EndMain, schedVars, cpuVars
<1>3. ASSUME NEW t \in Threads, ReturnFromResume(t) PROVE Handshake'
  BY <1>0, <1>3 DEF ReturnFromResume, schedVars
<1>4. ASSUME NEW t \in Threads, Halt(t) PROVE Handshake'
  BY <1>0, <1>4 DEF Halt, schedVars, cpuVars
<1>5. ASSUME NEW p \in Peers, PeerStep(p) PROVE Handshake'
  <2>1. PICK q \in Quantum[p] :
          /\ clock' = [clock EXCEPT ![p] = Saturate(clock[p] + q)]
          /\ IF MustYield(p, clock[p] + q)
             THEN resume(CPU) /\ pos' = [pos EXCEPT ![p] = "sync"]
             ELSE UNCHANGED <<schedVars, pos>>
    BY <1>5 DEF PeerStep
  <2>2. q \in Nat /\ clock[p] \in Int
    BY <1>0, ClockAssumption
  <2>3. MustYield(p, clock[p] + q) => clock'[p] >= 0
    BY <1>0, <2>1, <2>2, ClockAssumption, BoundAssumption DEF MustYield, Saturate
  <2>4. running = p /\ pos[p] = "main" /\ todo' = todo /\ pos'[CPU] = pos[CPU]
    BY <1>0, <1>5, <2>1 DEF PeerStep, MayStep, cpuVars, schedVars
  <2>5. CASE MustYield(p, clock[p] + q)
    <3> SUFFICES ASSUME mode = "Run" PROVE Handshake'
      BY <2>1, <2>5 DEF resume
    <3>1. ~desynchronized' /\ active' = CPU /\ running' = CPU
      BY <1>0, <2>1, <2>5 DEF resume
    <3>2. Head(todo) = SyncOp(p)
      BY <1>0, <2>4
    <3>3. Head(todo').peer = p
      BY <2>4, <3>2 DEF SyncOp
    <3> QED BY <1>0, <2>3, <2>5, <3>1, <3>3
  <2>6. CASE ~MustYield(p, clock[p] + q)
    BY <1>0, <2>1, <2>4, <2>6 DEF schedVars
  <2> QED BY <2>5, <2>6
<1>6. CASE SmpIdle
  BY <1>0, <1>6 DEF SmpIdle, MayStep, schedVars, cpuVars
<1>7. CASE SmpPort
  <2>1. /\ running = SMP /\ pos' = [pos EXCEPT ![SMP] = "access"]
        /\ todo' = todo /\ clock' = clock
    BY <1>7 DEF SmpPort, MayStep, cpuVars
  <2>2. CASE clock[SMP] >= 0
    <3>1. resume(CPU)
      BY <1>7, <2>2 DEF SmpPort
    <3> SUFFICES ASSUME mode = "Run" PROVE Handshake'
      BY <3>1 DEF resume
    <3>2. ~desynchronized' /\ active' = CPU /\ running' = CPU
      BY <1>0, <3>1 DEF resume
    <3>3. Head(todo).peer = SMP
      BY <1>0, <2>1 DEF SyncOp
    <3> QED BY <1>0, <2>1, <2>2, <3>2, <3>3
  <2>3. CASE ~(clock[SMP] >= 0)
    <3>1. UNCHANGED schedVars /\ clock[SMP] < 0
      BY <1>0, <1>7, <2>3 DEF SmpPort
    <3> QED BY <1>0, <2>1, <3>1 DEF schedVars
  <2> QED BY <2>2, <2>3
<1>8. CASE SmpAccess
  BY <1>0, <1>8 DEF SmpAccess, schedVars, cpuVars
<1>9. CASE \/ CpuCycle \/ CpuRefresh
           \/ CpuTail \/ CpuBusAccess \/ CpuCharge \/ CpuDelayed \/ CpuAccess
  <2>1. running = CPU /\ pos[CPU] = "main" /\ UNCHANGED <<schedVars, pos>>
    BY <1>9 DEF CpuCycle, CpuRefresh, CpuTail, CpuBusAccess, CpuCharge, CpuDelayed, CpuAccess,
            MayStep, Doing
  <2> QED BY <1>0, <2>1 DEF schedVars
<1>10. CASE CpuRecreate
  <2>1. running = CPU /\ pos[CPU] = "main" /\ pos'[CPU] = "main" /\ UNCHANGED <<schedVars>>
    BY <1>0, <1>10 DEF CpuRecreate, Doing
  <2> QED BY <1>0, <2>1 DEF schedVars
<1>11. CASE CpuSync
  <2>1. /\ running = CPU /\ pos[CPU] = "main" /\ todo # <<>>
        /\ Head(todo) \in Ops /\ Head(todo).kind = "sync"
    BY <1>11 DEF CpuSync, Doing, IInv, TypeOK
  <2>2. Head(todo).peer \in Peers /\ Head(todo) = SyncOp(Head(todo).peer)
    BY <2>1 DEF Ops, SyncOp
  <2>3. CASE clock[Head(todo).peer] < 0
    BY <1>0, <1>11, <2>1, <2>2, <2>3 DEF CpuSync, resume
  <2>4. CASE ~(clock[Head(todo).peer] < 0)
    BY <1>0, <1>11, <2>1, <2>4 DEF CpuSync, schedVars
  <2> QED BY <2>3, <2>4
<1>12. CASE CpuFrame
  BY <1>0, <1>12 DEF CpuFrame, leave
<1>13. CASE CpuAfterFrame
  BY <1>0, <1>13 DEF CpuAfterFrame, schedVars
<1>14. CASE FrameEvent \/ FrameEventEnd \/ RunReturn \/ Cheats \/ CheatsReturn
  BY <1>0, <1>14 DEF FrameEvent, FrameEventEnd, RunReturn, Cheats, CheatsReturn, schedVars,
                     stackVars, cpuVars
<1>15. CASE CheatWrite
  <2>1. Head(writes) \in Peers
    BY <1>15 DEF CheatWrite, IInv, TypeOK
  <2>2. CASE mode = "Run"
    <3>1. call \in {"run", "cheats"} /\ running = Host
      BY <1>0, <1>15, <2>2 DEF CheatWrite, TypeOK, HostShape
    <3>2. ~(clock[Head(writes)] < 0)
      BY <1>0, <2>1, <2>2, <3>1 DEF FrameSynced
    <3> QED BY <1>0, <1>15, <3>1, <3>2 DEF CheatWrite, schedVars, stackVars, cpuVars
  <2>3. CASE mode # "Run"
    <3>1. mode' = mode
      BY <1>15 DEF CheatWrite, resume, schedVars
    <3> QED BY <2>3, <3>1
  <2> QED BY <2>2, <2>3
<1>16. CASE SaveContinue \/ SaveRestart \/ SaveNext
  BY <1>0, <1>16 DEF SaveContinue, SaveRestart, SaveNext, Entered, Reenter, HostShape
<1>17. CASE SaveReturn
  <2>1. pos[CPU] = "parked" /\ ~desynchronized
    BY <1>0, <1>17, SaveReturnParked
  <2>2. running' = Host /\ active' = CPU /\ pos' = pos /\ desynchronized' = desynchronized
    BY <1>17 DEF SaveReturn, Entered, stackVars
  <2> QED BY <1>0, <2>1, <2>2
<1>18. CASE Run
  <2>1. mode = "Run" /\ running = Host /\ running' = CPU /\ active' = CPU /\ todo' = todo
        /\ pos' = pos /\ clock' = clock /\ desynchronized' = desynchronized
    BY <1>0, <1>18 DEF Run, HostIdle, HostShape, enter, stackVars, cpuVars
  <2> QED BY <1>0, <2>1
<1>19. CASE RunToSave
  BY <1>19 DEF RunToSave
<1>20. CASE Power
  BY <1>0, <1>20 DEF Power, HostIdle
<1>21. CASE UNCHANGED vars
  BY <1>0, <1>21 DEF vars, schedVars, cpuVars
<1> QED
  BY <1>1, <1>2, <1>3, <1>4, <1>5, <1>6, <1>7, <1>8, <1>9, <1>10, <1>11, <1>12,
     <1>13, <1>14, <1>15, <1>16, <1>17, <1>18, <1>19, <1>20, <1>21, NextCases

\* A thread that keeps control disturbs no thread of the stages before its own.
LEMMA StrictKept ==
  ASSUME method = "Strict", IInv, running # Host,
         UNCHANGED <<running, desynchronized, call, stage>>,
         \A t \in Threads : t # running => pos'[t] = pos[t]
  PROVE  StrictProgress'
<1>1. /\ Order' = Order /\ StrictProgress /\ HostShape /\ Len(Order) \in Nat
      /\ \A i \in 1..Len(Order) : Order[i] \in Threads
  BY StrictOrderFacts DEF IInv, Order, method, StrictOrder, FastOrder
<1> SUFFICES ASSUME call = "save", ~desynchronized
             PROVE  running = Order[stage] /\ ParkedBefore(stage - 1, Order[stage])'
  BY <1>1 DEF StrictProgress
<1>2. /\ running = Order[stage] /\ stage \in 1..Len(Order)
      /\ \A i \in 1..(stage - 1) : Order[i] # Order[stage] => pos[Order[i]] = "parked"
  BY <1>1 DEF StrictProgress, HostShape, ParkedBefore
<1>3. ASSUME NEW i \in 1..(stage - 1), Order[i] # Order[stage] PROVE pos'[Order[i]] = "parked"
  <2>1. Order[i] \in Threads /\ Order[i] # running
    BY <1>1, <1>2, <1>3
  <2> QED BY <1>2, <1>3, <2>1
<1> QED BY <1>1, <1>2, <1>3 DEF ParkedBefore

LEMMA NextStrict ==
  ASSUME Intact, IInv, [Next]_vars PROVE StrictProgress'
<1> SUFFICES ASSUME call' = "save" PROVE StrictProgress'
  BY DEF StrictProgress
<1>a. method = "Strict"
  BY DEF Intact
<1>0. /\ HostShape /\ TypeOK /\ StrictProgress
      /\ Host \notin Threads /\ CPU \in Threads /\ Peers \subseteq Threads
      /\ SMP \in Threads /\ pos \in [Threads -> Positions] /\ method' = method /\ Order' = Order
      /\ Order[1] = SMP /\ Len(Order) \in Nat /\ Len(Order) >= 4
      /\ \A i \in 1..Len(Order) : Order[i] \in Threads
      /\ \A i \in 1..Len(Order) : Order[i] = CPU => i = 2
  BY <1>a, StrictOrderFacts, ThreadAssumption
     DEF IInv, TypeOK, Threads, Peers, method, Order, StrictOrder, FastOrder
<1>00. call = "save" => stage \in 1..Len(Order) /\ mode = "Synchronize"
  BY <1>0 DEF HostShape
<1>1. ASSUME NEW t \in Threads, SyncPoint(t) PROVE StrictProgress'
  <2>1. /\ running = t /\ running' = Host /\ ~desynchronized' /\ UNCHANGED <<call, stage>>
        /\ event' = IF desynchronized THEN "Desynchronized" ELSE "Synchronized"
        /\ pos' = [pos EXCEPT ![t] = "parked"]
    BY <1>1 DEF SyncPoint, leave, hostVars
  <2>2. ASSUME call = "save", ~desynchronized, NEW i \in 1..stage
        PROVE  pos'[Order[i]] = "parked"
    <3>1. /\ t = Order[stage] /\ stage \in 1..Len(Order) /\ Order[i] \in Threads
          /\ \A j \in 1..(stage - 1) : Order[j] # t => pos[Order[j]] = "parked"
      BY <1>0, <1>00, <2>1, <2>2 DEF StrictProgress, ParkedBefore
    <3>2. CASE Order[i] = t
      BY <1>0, <2>1, <3>2
    <3>3. CASE Order[i] # t
      <4>1. i \in 1..(stage - 1)
        BY <3>1, <3>3
      <4> QED BY <1>0, <2>1, <3>1, <3>3, <4>1
    <3> QED BY <3>2, <3>3
  <2> QED BY <1>0, <2>1, <2>2 DEF StrictProgress
<1>2. ASSUME NEW t \in Threads, BeginMain(t) \/ EndMain(t) \/ ReturnFromResume(t) \/ Halt(t)
      PROVE  StrictProgress'
  <2>1. /\ running = t /\ UNCHANGED <<running, desynchronized, call, stage>>
        /\ \A u \in Threads : u # t => pos'[u] = pos[u]
    BY <1>0, <1>2 DEF BeginMain, EndMain, ReturnFromResume, Halt, schedVars, hostVars
  <2>2. running # Host
    BY <1>0, <2>1
  <2> QED BY <2>1, <2>2, <1>a, StrictKept
<1>3. ASSUME NEW t \in Peers \cup {CPU, Host}, resume(t), t # Host,
             UNCHANGED <<call, stage>>
      PROVE  StrictProgress'
  <2> SUFFICES ASSUME call = "save" PROVE StrictProgress'
    BY <1>3 DEF StrictProgress
  <2>1. mode = "Synchronize"
    BY <1>00
  <2>2. desynchronized' /\ running' = t
    BY <1>3, <2>1 DEF resume
  <2> QED BY <1>3, <2>2 DEF StrictProgress
<1>4. ASSUME NEW p \in Peers, PeerStep(p) PROVE StrictProgress'
  <2>1. /\ running = p /\ UNCHANGED <<call, stage>> /\ p \in Threads /\ running # Host
        /\ resume(CPU) \/ UNCHANGED <<schedVars, pos>>
    BY <1>0, <1>4 DEF PeerStep, MayStep, hostVars
  <2>2. CASE resume(CPU)
    BY <1>0, <1>3, <2>1, <2>2
  <2>3. CASE UNCHANGED <<schedVars, pos>>
    BY <2>1, <2>3, <1>a, StrictKept DEF schedVars
  <2> QED BY <2>1, <2>2, <2>3
<1>5. CASE SmpPort
  <2>1. /\ running = SMP /\ UNCHANGED <<call, stage>> /\ running # Host
        /\ resume(CPU) \/ UNCHANGED schedVars
        /\ \A u \in Threads : u # SMP => pos'[u] = pos[u]
    BY <1>0, <1>5 DEF SmpPort, MayStep, hostVars
  <2>2. CASE resume(CPU)
    BY <1>0, <1>3, <2>1, <2>2
  <2>3. CASE UNCHANGED schedVars
    BY <2>1, <2>3, <1>a, StrictKept DEF schedVars
  <2> QED BY <2>1, <2>2, <2>3
<1>6. CASE SmpIdle \/ SmpAccess
  <2>1. /\ running = SMP /\ UNCHANGED <<running, desynchronized, call, stage>>
        /\ \A u \in Threads : u # SMP => pos'[u] = pos[u]
    BY <1>0, <1>6 DEF SmpIdle, SmpAccess, MayStep, schedVars, hostVars
  <2> QED BY <1>0, <2>1, <1>a, StrictKept
<1>7. CASE \/ CpuCycle \/ CpuRefresh
           \/ CpuTail \/ CpuBusAccess \/ CpuCharge \/ CpuDelayed \/ CpuAccess
           \/ CpuAfterFrame
  <2>1. /\ running = CPU /\ UNCHANGED <<running, desynchronized, call, stage>>
        /\ \A u \in Threads : u # CPU => pos'[u] = pos[u]
    BY <1>0, <1>7 DEF CpuCycle, CpuRefresh, CpuTail, CpuBusAccess, CpuCharge, CpuDelayed, CpuAccess,
       CpuAfterFrame, MayStep, Doing, schedVars, hostVars
  <2> QED BY <1>0, <2>1, <1>a, StrictKept
<1>8. CASE CpuRecreate
  <2>1. /\ running = CPU /\ UNCHANGED <<running, desynchronized, call, stage>>
        /\ \E c \in Recreatable : pos' = [pos EXCEPT ![c] = "top"]
    BY <1>8 DEF CpuRecreate, Doing, schedVars, hostVars
  <2>2. pos'[SMP] = pos[SMP]
    BY <1>0, <2>1, CopAssumption, ThreadAssumption
  <2> SUFFICES ASSUME call = "save", ~desynchronized
               PROVE  CPU = Order[stage] /\ ParkedBefore(stage - 1, Order[stage])'
    BY <1>0, <2>1 DEF StrictProgress
  <2>3. /\ CPU = Order[stage] /\ stage \in 1..Len(Order)
        /\ \A i \in 1..(stage - 1) : Order[i] # CPU => pos[Order[i]] = "parked"
    BY <1>0, <1>00, <2>1 DEF StrictProgress, ParkedBefore
  <2>4. stage = 2
    BY <1>0, <2>3
  <2>5. SMP # CPU /\ pos[SMP] = "parked"
    BY <1>0, <2>3, <2>4, ThreadAssumption DEF Peers
  <2>6. \A i \in 1..(stage - 1) : pos'[Order[i]] = "parked"
    BY <1>0, <2>2, <2>4, <2>5
  <2> QED BY <1>0, <2>1, <2>3, <2>6 DEF ParkedBefore
<1>9. CASE CpuSync
  <2>1. /\ running = CPU /\ UNCHANGED <<call, stage>> /\ todo # <<>>
        /\ Head(todo) \in Ops /\ Head(todo).kind = "sync"
        /\ resume(Head(todo).peer) \/ UNCHANGED <<schedVars, pos>>
    BY <1>9 DEF CpuSync, Doing, IInv, TypeOK, hostVars
  <2>2. Head(todo).peer \in Peers
    BY <2>1 DEF Ops
  <2>3. CASE resume(Head(todo).peer)
    BY <1>0, <1>3, <2>1, <2>2, <2>3
  <2>4. CASE UNCHANGED <<schedVars, pos>>
    BY <1>0, <2>1, <2>4, <1>a, StrictKept DEF schedVars
  <2> QED BY <2>1, <2>3, <2>4
<1>10. CASE CpuFrame
  <2>1. /\ running = CPU /\ running' = Host /\ event' = "Frame" /\ active' = CPU
        /\ UNCHANGED <<call, stage, desynchronized>> /\ pos' = [pos EXCEPT ![CPU] = "frame"]
    BY <1>10 DEF CpuFrame, Doing, leave, hostVars
  <2> SUFFICES ASSUME call = "save", ~desynchronized
               PROVE  CPU = Order[stage] /\ ParkedBefore(stage - 1, Order[stage])'
    BY <1>0, <2>1 DEF StrictProgress
  <2>2. /\ CPU = Order[stage] /\ stage \in 1..Len(Order)
        /\ \A i \in 1..(stage - 1) : Order[i] # CPU => pos[Order[i]] = "parked"
    BY <1>0, <1>00, <2>1 DEF StrictProgress, ParkedBefore
  <2>3. \A i \in 1..(stage - 1) : Order[i] # CPU => pos'[Order[i]] = "parked"
    BY <1>0, <2>1, <2>2
  <2> QED BY <1>0, <2>1, <2>2, <2>3 DEF ParkedBefore
<1>11. ASSUME UNCHANGED <<running, event, active, desynchronized, pos, call, stage>>
       PROVE  StrictProgress'
  BY <1>0, <1>11 DEF StrictProgress, ParkedBefore
<1>12. CASE FrameEvent \/ FrameEventEnd \/ UNCHANGED vars
  BY <1>11, <1>12 DEF FrameEvent, FrameEventEnd, vars, schedVars, hostVars, stackVars
<1>13. CASE CheatWrite
  <2>1. /\ Head(writes) \in Peers /\ UNCHANGED <<call, stage, pos>>
        /\ resume(Head(writes)) \/ UNCHANGED schedVars
    BY <1>13 DEF CheatWrite, IInv, TypeOK, stackVars
  <2>2. CASE resume(Head(writes))
    BY <1>0, <1>3, <2>1, <2>2
  <2>3. CASE UNCHANGED schedVars
    BY <1>11, <2>1, <2>3 DEF schedVars
  <2> QED BY <2>1, <2>2, <2>3
<1>14. CASE RunReturn \/ SaveReturn \/ Run \/ Cheats \/ CheatsReturn
  <2>1. call' # "save"
    BY <1>14 DEF RunReturn, SaveReturn, Run, Cheats, CheatsReturn
  <2> QED BY <2>1 DEF StrictProgress
<1>15. CASE Power
  <2>1. call' # "save"
    BY <1>15 DEF Power, HostIdle, hostVars
  <2> QED BY <2>1 DEF StrictProgress
<1>16. CASE SaveContinue
  <2>1. /\ call = "save" /\ running = Host /\ event = "Frame" /\ running' = active
        /\ UNCHANGED <<desynchronized, stage, pos, call>>
    BY <1>16, <1>a DEF SaveContinue, Entered, Reenter, enter, stackVars
  <2> QED BY <1>0, <2>1 DEF StrictProgress, ParkedBefore
<1>17. CASE SaveRestart \/ RunToSave
  <2>1. running' = Order[1] /\ stage' = 1
    BY <1>17, <1>a DEF SaveRestart, Reenter, RunToSave, enter
  <2> QED BY <1>0, <2>1 DEF StrictProgress, ParkedBefore
<1>18. CASE SaveNext
  <2>1. /\ call = "save" /\ running = Host /\ event = "Synchronized" /\ stage \in Nat
        /\ stage < Len(Order)
        /\ running' = Order[stage + 1] /\ stage' = stage + 1 /\ UNCHANGED <<desynchronized, pos>>
    BY <1>0, <1>18 DEF SaveNext, Entered, Reenter, enter, stackVars, TypeOK
  <2>2. \A i \in 1..stage : pos[Order[i]] = "parked"
    BY <2>1, <1>0 DEF StrictProgress
  <2>3. Order[stage + 1] \in Threads /\ (stage + 1) - 1 = stage
    BY <1>0, <2>1
  <2> QED BY <1>0, <2>1, <2>2, <2>3 DEF StrictProgress, ParkedBefore
<1> QED
  BY <1>1, <1>2, <1>4, <1>5, <1>6, <1>7, <1>8, <1>9, <1>10, <1>12, <1>13, <1>14,
     <1>15, <1>16, <1>17, <1>18, NextCases

-----------------------------------------------------------------------------
(* The theorems about the Strict method.                                   *)

LEMMA InitIInv == Init => IInv
<1> SUFFICES ASSUME Init PROVE IInv
  OBVIOUS
<1> USE DEF Init
<1>1. TypeOK /\ StackShape
  BY InitType, InitStack
<1>2. /\ running = Host /\ Host \notin Peers /\ Host # CPU /\ Host # SMP /\ pos[CPU] = "top"
      /\ call = "none" /\ hostAt = "idle" /\ GlobalWriteEnable = FALSE /\ desynchronized = FALSE
  BY ThreadAssumption DEF Threads, Peers
<1>3. FrameSynced /\ FrameOnHost /\ StrictProgress
  BY <1>2 DEF FrameSynced, FrameOnHost, StrictProgress
<1>6. HostShape
  <2>1. /\ GlobalWriteEnable <=> hostAt \in {"frame", "cheats"}
        /\ call = "cheats" <=> hostAt = "cheats"
    BY <1>2
  <2>2. mode = "Run" /\ call = "none" /\ hostAt = "idle" /\ running = Host
    OBVIOUS
  <2> QED BY <2>1, <2>2 DEF HostShape
<1>4. Handshake
  BY <1>2 DEF Handshake
<1>5. OnlySyncsBefore /\ SyncedBefore
  BY DEF OnlySyncsBefore, SyncedBefore
<1> QED BY <1>1, <1>3, <1>4, <1>5, <1>6 DEF IInv

LEMMA NextIInv ==
  ASSUME Intact, IInv, [Next]_vars PROVE IInv'
<1>1. TypeOK' /\ StackShape'
  BY NextType, NextStack DEF IInv
<1>2. OnlySyncsBefore' /\ SyncedBefore'
  BY NextOnlySyncs, NextSynced DEF IInv
<1>3. HostShape' /\ Handshake' /\ FrameSynced' /\ FrameOnHost' /\ StrictProgress'
  BY NextHost, NextHandshake, NextFrame, NextStrict
<1> QED BY <1>1, <1>2, <1>3 DEF IInv

\* What runs, what is parked and what is behind, in every reachable state of
\* the scheduler when runToSave uses the Strict method.
THEOREM Inductive ==
  ASSUME method = "Strict" PROVE Spec => []IInv
<1>1. Init => IInv
  BY InitIInv
<1>2. IInv /\ [Next]_vars => IInv'
  BY NextIInv DEF Intact
<1> QED BY <1>1, <1>2, PTL DEF Spec

\* CaughtUp: a peer the CPU switched to gives control back only when it has
\* caught up with the CPU (sfc/cpu/cpu.cpp synchronizeSMP, synchronizePPU).
THEOREM PeersCatchUp ==
  ASSUME method = "Strict" PROVE Spec => []CaughtUp
<1>1. IInv => CaughtUp
  BY DEF IInv, Handshake, CaughtUp
<1> QED BY <1>1, Inductive, PTL

\* IdleIsResumable: between two calls of the host the scheduler is in Run mode
\* and would enter the CPU outside resume (System::run, runToSaveStrict).
THEOREM HostCanResume ==
  ASSUME method = "Strict" PROVE Spec => []IdleIsResumable
<1>1. IInv => IdleIsResumable
  BY DEF IInv, HostShape, Handshake, IdleIsResumable, HostIdle
<1> QED BY <1>1, Inductive, PTL

\* RomProtected: outside a save no processor runs while the cheats of
\* frameEvent have write-protected memory open (sfc/system/system.cpp).
THEOREM CheatsKeepRom ==
  ASSUME method = "Strict" PROVE Spec => []RomProtected
<1>1. IInv => RomProtected
  BY DEF IInv, HostShape, FrameOnHost, RomProtected
<1> QED BY <1>1, Inductive, PTL

\* PortOrder, as a formula about one step.
PortsInTurn == mode = "Run" => /\ SmpAccess => clock[SMP] < 0
                               /\ CpuAccess => clock[SMP] >= 0

LEMMA PortsStep == ASSUME IInv PROVE PortsInTurn
<1>1. ASSUME mode = "Run", SmpAccess PROVE clock[SMP] < 0
  BY <1>1 DEF IInv, Handshake, SmpAccess
<1>2. ASSUME mode = "Run", CpuAccess PROVE clock[SMP] >= 0
  <2>1. todo \in Seq(Ops) /\ todo # <<>> /\ todo[1].kind = "access" /\ 1 \in DOMAIN todo
    BY <1>2 DEF IInv, TypeOK, CpuAccess, Doing
  <2>2. SMP \in Peers /\ Needs(todo[1].kind, SMP)
    BY <2>1 DEF Peers, Needs
  <2>3. 1..(1 - 1) = {}
    OBVIOUS
  <2> QED BY <1>2, <2>1, <2>2, <2>3 DEF IInv, SyncedBefore
<1> QED BY <1>1, <1>2 DEF PortsInTurn

\* PortOrder: in Run mode the CPU and the SMP touch the four ports between them
\* in the order of virtual time (sfc/cpu/io.cpp readAPU, sfc/smp/io.cpp readIO).
THEOREM PortsInOrder ==
  ASSUME method = "Strict" PROVE Spec => PortOrder
<1>1. IInv /\ [Next]_vars => [PortsInTurn]_vars
  BY PortsStep
<1>2. PortOrder <=> [][PortsInTurn]_vars
  BY DEF PortOrder, PortsInTurn
<1> QED BY <1>1, <1>2, Inductive, PTL DEF Spec

\* SavedAtSyncPoints: the Strict method returns only when every thread is at its
\* entry point, which is where unserialize and power() restart it.
THEOREM StrictSavesAtEntry ==
  ASSUME method = "Strict" PROVE Spec => SavedAtSyncPoints
<1>1. ASSUME IInv, [Next]_vars, call = "save", call' = "none"
      PROVE  \A t \in Threads : pos'[t] = "parked"
  <2>1. SaveReturn
    <3>1. ASSUME NEW t \in Threads, SyncPoint(t) \/ BeginMain(t) \/ EndMain(t)
                                      \/ ReturnFromResume(t) \/ Halt(t)
          PROVE  call' = call
      BY <3>1 DEF SyncPoint, BeginMain, EndMain, ReturnFromResume, Halt, hostVars
    <3>2. ASSUME NEW p \in Peers, PeerStep(p) PROVE call' = call
      BY <3>2 DEF PeerStep, hostVars
    <3>3. CASE \/ SmpIdle \/ SmpPort \/ SmpAccess \/ CpuCycle \/ CpuRefresh
               \/ CpuTail \/ CpuBusAccess
               \/ CpuRecreate \/ CpuSync \/ CpuCharge \/ CpuDelayed \/ CpuAccess
               \/ CpuFrame \/ CpuAfterFrame
      BY <1>1, <3>3
         DEF SmpIdle, SmpPort, SmpAccess, CpuCycle, CpuRefresh, CpuTail, CpuBusAccess,
             CpuRecreate, CpuSync,
             CpuCharge, CpuDelayed, CpuAccess, CpuFrame, CpuAfterFrame, hostVars
    <3>4. CASE FrameEvent \/ CheatWrite \/ FrameEventEnd \/ SaveContinue \/ SaveRestart \/ SaveNext
      BY <1>1, <3>4 DEF FrameEvent, CheatWrite, FrameEventEnd, SaveContinue, SaveRestart,
                        SaveNext, Reenter
    <3>5. CASE RunReturn \/ Run \/ RunToSave \/ Cheats \/ CheatsReturn
      BY <1>1, <3>5 DEF RunReturn, Entered, Run, RunToSave, Cheats, CheatsReturn, HostIdle,
                        IInv, HostShape
    <3>6. CASE Power \/ UNCHANGED vars
      BY <1>1, <3>6 DEF Power, vars, hostVars
    <3> QED BY <1>1, <3>1, <3>2, <3>3, <3>4, <3>5, <3>6, NextCases
  <2>2. pos' = pos
    BY <2>1 DEF SaveReturn, stackVars
  <2> QED BY <1>1, <2>1, <2>2, SaveReturnParked DEF Intact
<1>2. IInv /\ [Next]_vars =>
        [call = "save" /\ call' = "none" => \A t \in Threads : pos'[t] = "parked"]_vars
  BY <1>1
<1> QED BY <1>2, Inductive, PTL DEF Spec, SavedAtSyncPoints

-----------------------------------------------------------------------------
(* What a bus access finds, with delayed synchronization off.  The access  *)
(* waits behind the step that synchronizes the coprocessors, or behind the *)
(* synchronizations themselves.                                            *)

NoBus(s) == \A i \in DOMAIN s : s[i].kind # "bus"
Guarded(s, i) == i > 1 /\ s[i - 1].kind = "delayed"
BusGuarded(s) == \A i \in DOMAIN s : s[i].kind = "bus" => Guarded(s, i)
CopReady(s, i) ==
  /\ \A j \in 1..(i - 1) : s[j].kind = "sync"
  /\ \A c \in Cops : clock[c] >= 0 \/ \E j \in 1..(i - 1) : s[j] = SyncOp(c)
BusReady == mode = "Run" /\ ~delayedSync =>
  \A i \in DOMAIN todo : todo[i].kind = "bus" => Guarded(todo, i) \/ CopReady(todo, i)

LEMMA ConcatFacts ==
  ASSUME NEW s \in Seq(Ops), NEW r \in Seq(Ops)
  PROVE  /\ s \o r \in Seq(Ops) /\ Len(s) \in Nat /\ DOMAIN s = 1..Len(s)
         /\ \A i \in DOMAIN s : i \in DOMAIN (s \o r) /\ (s \o r)[i] = s[i]
         /\ \A i \in DOMAIN r : i + Len(s) \in DOMAIN (s \o r) /\ (s \o r)[i + Len(s)] = r[i]
         /\ \A i \in DOMAIN (s \o r) : i \in DOMAIN s \/ i - Len(s) \in DOMAIN r
         /\ DOMAIN (s \o r) \subseteq Nat \ {0} /\ DOMAIN r \subseteq Nat \ {0}
<1>1. /\ s \o r \in Seq(Ops) /\ Len(s \o r) = Len(s) + Len(r)
      /\ \A i \in 1..(Len(s) + Len(r)) :
           (s \o r)[i] = IF i <= Len(s) THEN s[i] ELSE r[i - Len(s)]
  BY ConcatProperties
<1>2. /\ Len(s) \in Nat /\ Len(r) \in Nat /\ DOMAIN s = 1..Len(s) /\ DOMAIN r = 1..Len(r)
      /\ DOMAIN (s \o r) = 1..(Len(s) + Len(r))
  BY <1>1, LenProperties
<1>3. ASSUME NEW i \in DOMAIN r
      PROVE  i + Len(s) \in DOMAIN (s \o r) /\ (s \o r)[i + Len(s)] = r[i]
  <2>1. /\ i \in Nat /\ i + Len(s) \in 1..(Len(s) + Len(r))
        /\ ~(i + Len(s) <= Len(s)) /\ (i + Len(s)) - Len(s) = i
    BY <1>2
  <2> QED BY <1>1, <1>2, <2>1
<1> QED BY <1>1, <1>2, <1>3

LEMMA ConcatNoBus ==
  ASSUME NEW s \in Seq(Ops), NEW r \in Seq(Ops), NoBus(s), NoBus(r)
  PROVE  s \o r \in Seq(Ops) /\ NoBus(s \o r)
<1> SUFFICES ASSUME NEW i \in DOMAIN (s \o r) PROVE (s \o r)[i].kind # "bus"
  BY ConcatFacts DEF NoBus
<1>1. CASE i \in DOMAIN s
  BY <1>1, ConcatFacts DEF NoBus
<1>2. CASE i - Len(s) \in DOMAIN r
  <2>1. (i - Len(s)) + Len(s) = i
    BY ConcatFacts
  <2> QED BY <1>2, <2>1, ConcatFacts DEF NoBus
<1> QED BY <1>1, <1>2, ConcatFacts

\* Operations in front of a guarded access leave it guarded.
LEMMA ConcatGuarded ==
  ASSUME NEW s \in Seq(Ops), NEW r \in Seq(Ops), NoBus(s), BusGuarded(r)
  PROVE  BusGuarded(s \o r)
<1> SUFFICES ASSUME NEW i \in DOMAIN (s \o r), (s \o r)[i].kind = "bus"
             PROVE  Guarded(s \o r, i)
  BY DEF BusGuarded
<1>1. i \notin DOMAIN s /\ i - Len(s) \in DOMAIN r /\ i \in Nat /\ Len(s) \in Nat
  BY ConcatFacts DEF NoBus
<1> DEFINE k == i - Len(s)
<1>2. k \in Nat \ {0} /\ k + Len(s) = i /\ r[k].kind = "bus"
  BY <1>1, ConcatFacts
<1>3. k > 1 /\ r[k - 1].kind = "delayed"
  BY <1>1, <1>2 DEF BusGuarded, Guarded
<1>4. Len(r) \in Nat /\ DOMAIN r = 1..Len(r)
  BY LenProperties
<1>5. k - 1 \in DOMAIN r
  BY <1>1, <1>2, <1>3, <1>4
<1>6. (s \o r)[(k - 1) + Len(s)] = r[k - 1] /\ (k - 1) + Len(s) = i - 1
  BY <1>1, <1>2, <1>5, ConcatFacts
<1> QED BY <1>1, <1>2, <1>3, <1>6 DEF Guarded

\* Behind an operation that neither synchronizes nor waits to, an access is guarded.
LEMMA TailGuarded ==
  ASSUME NEW s \in Seq(Ops), s # <<>>, Head(s).kind \notin {"sync", "delayed"},
         \A i \in DOMAIN s : s[i].kind = "bus" => Guarded(s, i) \/ CopReady(s, i)
  PROVE  BusGuarded(Tail(s))
<1> SUFFICES ASSUME NEW i \in DOMAIN Tail(s), Tail(s)[i].kind = "bus"
             PROVE  Guarded(Tail(s), i)
  BY DEF BusGuarded
<1>1. i \in Nat \ {0} /\ i + 1 \in DOMAIN s /\ Tail(s)[i] = s[i + 1] /\ Head(s) = s[1]
  BY TailFacts
<1>2. 1 \in 1..((i + 1) - 1) /\ (i + 1) - 1 = i
  BY <1>1
<1>3. s[i].kind = "delayed"
  BY <1>1, <1>2 DEF Guarded, CopReady
<1>4. i # 1
  BY <1>1, <1>3
<1>5. i - 1 \in DOMAIN Tail(s)
  <2>1. Tail(s) \in Seq(Ops)
    BY TailFacts
  <2>2. DOMAIN Tail(s) = 1..Len(Tail(s)) /\ Len(Tail(s)) \in Nat
    BY <2>1, LenProperties
  <2> QED BY <1>1, <1>4, <2>2
<1>6. Tail(s)[i - 1] = s[(i - 1) + 1] /\ (i - 1) + 1 = i
  BY <1>1, <1>5, TailFacts
<1> QED BY <1>1, <1>3, <1>4, <1>6 DEF Guarded

LEMMA CopSyncsNoBus == CopSyncs \in Seq(Ops) /\ NoBus(CopSyncs)
<1>1. CopSyncs \in Seq(Ops) /\ Len(CopSyncs) = Len(CopSeq)
  BY CopSyncsFacts
<1>2. DOMAIN CopSyncs = 1..Len(CopSeq)
  BY <1>1, LenProperties
<1> QED BY <1>1, <1>2, CopSyncsFacts DEF NoBus, SyncOp

LEMMA ScanlineNoBus ==
  ASSUME NEW y PROVE ScanlineOps(y) \in Seq(Ops) /\ NoBus(ScanlineOps(y))
<1> DEFINE a == <<SyncOp(SMP), SyncOp(PPU)>>
           e == IF y = vdisp THEN <<SyncOp(PPU), Plain("frame")>> ELSE <<>>
<1>1. SyncOp(SMP) \in Ops /\ SyncOp(PPU) \in Ops /\ Plain("frame") \in Ops
  BY DEF SyncOp, Plain, Ops, Peers
<1>2. a \in Seq(Ops) /\ NoBus(a) /\ e \in Seq(Ops) /\ NoBus(e)
  BY <1>1 DEF NoBus, SyncOp, Plain
<1>3. CopSyncs \in Seq(Ops) /\ NoBus(CopSyncs)
  BY CopSyncsNoBus
<1>4. ScanlineOps(y) = (a \o CopSyncs) \o e
  BY DEF ScanlineOps
<1> HIDE DEF a, e
<1>5. a \o CopSyncs \in Seq(Ops) /\ NoBus(a \o CopSyncs)
  BY <1>2, <1>3, ConcatNoBus
<1>6. (a \o CopSyncs) \o e \in Seq(Ops) /\ NoBus((a \o CopSyncs) \o e)
  BY <1>2, <1>5, ConcatNoBus
<1> QED BY <1>4, <1>6

\* A bus cycle leaves its access behind the step that synchronizes.
LEMMA StepGuarded ==
  ASSUME TypeOK, NEW q \in CpuClocks, NEW sync \in BOOLEAN, NEW rest \in Seq(Ops),
         Step(q, sync, rest),
         BusGuarded((IF sync THEN <<Plain("delayed")>> ELSE <<>>) \o rest)
  PROVE  BusGuarded(todo')
<1> DEFINE y == (v + 1) % VPeriod
           delayed == IF sync THEN <<Plain("delayed")>> ELSE <<>>
           refresh == <<Plain("refresh")>>
           lines == IF h + q >= HPeriod THEN ScanlineOps(y) ELSE <<>>
           charge == <<[kind |-> "charge", clocks |-> q]>>
<1>1. /\ Plain("delayed") \in Ops /\ Plain("refresh") \in Ops
      /\ [kind |-> "charge", clocks |-> q] \in Ops
  BY DEF Plain, Ops
<1>2. delayed \in Seq(Ops) /\ refresh \in Seq(Ops) /\ charge \in Seq(Ops)
  BY <1>1
<1>3. NoBus(refresh) /\ NoBus(charge) /\ NoBus(<<>>)
  BY DEF NoBus, Plain
<1>4. lines \in Seq(Ops) /\ NoBus(lines)
  BY <1>3, ScanlineNoBus
<1>5. todo' = delayed \o rest \/ todo' = lines \o charge \o refresh \o delayed \o rest
  BY DEF Step, tickScanline
<1>6. BusGuarded(delayed \o rest)
  OBVIOUS
<1> HIDE DEF delayed, refresh, lines, charge
<1>7. lines \o charge \o refresh \in Seq(Ops) /\ NoBus(lines \o charge \o refresh)
  BY <1>2, <1>3, <1>4, ConcatNoBus
<1>8. delayed \o rest \in Seq(Ops)
  BY <1>2
<1>9. lines \o charge \o refresh \o delayed \o rest = (lines \o charge \o refresh) \o (delayed \o rest)
  BY <1>2, <1>7, <1>8
<1> QED BY <1>5, <1>6, <1>7, <1>8, <1>9, ConcatGuarded

LEMMA WaitGuards ==
  ASSUME NEW r \in Seq(Ops), \A i \in DOMAIN r : r[i].kind = "bus" => i = 1
  PROVE  BusGuarded(<<Plain("delayed")>> \o r)
<1> DEFINE w == <<Plain("delayed")>>
<1>1. w \in Seq(Ops) /\ Len(w) = 1 /\ 1 \in DOMAIN w /\ w[1].kind = "delayed"
      /\ NoBus(w)
  BY DEF Plain, Ops, NoBus
<1> HIDE DEF w
<1> SUFFICES ASSUME NEW i \in DOMAIN (w \o r), (w \o r)[i].kind = "bus"
             PROVE  Guarded(w \o r, i)
  BY DEF BusGuarded, w
<1>2. i \notin DOMAIN w /\ i - 1 \in DOMAIN r /\ i \in Nat
  BY <1>1, ConcatFacts DEF NoBus
<1>3. (i - 1) + 1 = i
  BY <1>2
<1>4. r[i - 1].kind = "bus"
  <2>1. (w \o r)[(i - 1) + Len(w)] = r[i - 1]
    BY <1>1, <1>2, ConcatFacts
  <2> QED BY <1>1, <1>3, <2>1
<1>5. i = 2 /\ i - 1 = 1
  BY <1>2, <1>4
<1>6. (w \o r)[1] = w[1]
  BY <1>1, ConcatFacts
<1> QED BY <1>1, <1>5, <1>6 DEF Guarded

\* What a step does to the work left, seen from the access in it.
LEMMA BusCases ==
  ASSUME TypeOK, StackShape, BusReady, mode = "Run", ~delayedSync, [Next]_vars
  PROVE  \/ todo' = todo /\ \A p \in Peers : clock[p] >= 0 => clock'[p] >= 0
         \/ BusGuarded(todo')
         \/ /\ todo # <<>> /\ Head(todo).kind = "sync" /\ todo' = Tail(todo) /\ clock' = clock
            /\ clock[Head(todo).peer] >= 0 \/ (running = CPU /\ pos[CPU] = "sync")
         \/ /\ todo # <<>> /\ Head(todo).kind = "delayed" /\ todo' = CopSyncs \o Tail(todo)
            /\ clock' = clock
<1> DEFINE Kept == todo' = todo /\ \A p \in Peers : clock[p] >= 0 => clock'[p] >= 0
<1>0. /\ todo \in Seq(Ops) /\ BusGuarded(<<>>)
      /\ clock \in [Peers -> -ClockCap..ClockCap] /\ SMP \in Peers
      /\ \A i \in DOMAIN todo : todo[i].kind = "bus" => Guarded(todo, i) \/ CopReady(todo, i)
  BY DEF TypeOK, BusGuarded, BusReady, Peers
<1>1. ASSUME todo # <<>>, Head(todo).kind \notin {"sync", "delayed"}
      PROVE  Tail(todo) \in Seq(Ops) /\ BusGuarded(Tail(todo))
  BY <1>0, <1>1, TailFacts, TailGuarded
<1>2. CASE CpuCycle
  <2> DEFINE wait == <<Plain("delayed")>>
             access == <<Plain("bus")>>
             read == <<Plain("bus"), Plain("step")>>
  <2>1. Plain("delayed") \in Ops /\ Plain("bus") \in Ops /\ Plain("step") \in Ops
    BY DEF Plain, Ops
  <2>2. access \in Seq(Ops) /\ read \in Seq(Ops) /\ <<>> \in Seq(Ops)
    BY <2>1
  <2>3. BusGuarded(wait \o access) /\ BusGuarded(wait \o read) /\ BusGuarded(<<>> \o <<>>)
    <3>1. \A i \in DOMAIN access : access[i].kind = "bus" => i = 1
      BY DEF Plain
    <3>2. \A i \in DOMAIN read : read[i].kind = "bus" => i = 1
      BY DEF Plain
    <3>3. <<>> \o <<>> = <<>>
      BY <2>2, ConcatEmptySeq
    <3> QED BY <1>0, <2>2, <3>1, <3>2, <3>3, WaitGuards
  <2>4. PICK q \in CpuClocks : \/ Step(q, FALSE, <<>>) \/ Step(q, TRUE, access)
                               \/ Step(q, TRUE, read)
    BY <1>2 DEF CpuCycle
  <2> HIDE DEF wait, access, read
  <2>5. CASE Step(q, FALSE, <<>>)
    BY <2>2, <2>3, <2>5, StepGuarded
  <2>6. CASE Step(q, TRUE, access)
    BY <2>2, <2>3, <2>6, StepGuarded DEF wait
  <2>7. CASE Step(q, TRUE, read)
    BY <2>2, <2>3, <2>7, StepGuarded DEF wait
  <2> QED BY <2>4, <2>5, <2>6, <2>7
<1>3. CASE CpuRefresh \/ CpuTail
  <2>1. todo # <<>> /\ Head(todo).kind \in {"refresh", "step"}
    BY <1>3 DEF CpuRefresh, CpuTail, Doing
  <2>2. Tail(todo) \in Seq(Ops) /\ BusGuarded(Tail(todo)) /\ <<>> \o Tail(todo) = Tail(todo)
    BY <1>1, <2>1, ConcatEmptySeq
  <2>3. ASSUME NEW q \in CpuClocks, Step(q, FALSE, Tail(todo)) PROVE BusGuarded(todo')
    BY <2>2, <2>3, StepGuarded
  <2> QED BY <1>3, <2>2, <2>3 DEF CpuRefresh, CpuTail
<1>4. CASE CpuBusAccess
  <2>1. todo # <<>> /\ Head(todo).kind = "bus"
    BY <1>4 DEF CpuBusAccess, Doing
  <2>2. Tail(todo) \in Seq(Ops) /\ BusGuarded(Tail(todo))
    BY <1>1, <2>1
  <2>3. SyncOp(SMP) \in Ops /\ SyncOp(PPU) \in Ops /\ Plain("access") \in Ops
    BY DEF SyncOp, Plain, Ops, Peers
  <2>4. PICK io \in {<<>>, <<SyncOp(SMP), Plain("access")>>, <<SyncOp(PPU)>>, CopSyncs} :
          todo' = io \o Tail(todo)
    BY <1>4 DEF CpuBusAccess
  <2>5. /\ <<SyncOp(SMP), Plain("access")>> \in Seq(Ops) /\ <<SyncOp(PPU)>> \in Seq(Ops)
        /\ <<>> \in Seq(Ops)
    BY <2>3
  <2>6. NoBus(<<SyncOp(SMP), Plain("access")>>) /\ NoBus(<<SyncOp(PPU)>>) /\ NoBus(<<>>)
    BY DEF NoBus, SyncOp, Plain
  <2>7. io \in Seq(Ops) /\ NoBus(io)
    BY <2>4, <2>5, <2>6, CopSyncsNoBus
  <2> QED BY <2>2, <2>4, <2>7, ConcatGuarded
<1>5. CASE CpuRecreate \/ CpuCharge \/ CpuAccess \/ CpuAfterFrame
  <2>1. todo # <<>> /\ Head(todo).kind \notin {"sync", "delayed"} /\ todo' = Tail(todo)
    BY <1>5 DEF CpuRecreate, CpuCharge, CpuAccess, CpuAfterFrame, Doing, StackShape
  <2> QED BY <1>1, <2>1
<1>6. CASE CpuSync
  <2>1. todo # <<>> /\ Head(todo).kind = "sync" /\ clock' = clock
    BY <1>6 DEF CpuSync, Doing
  <2>2. Head(todo).peer \in Peers
    BY <1>0, <2>1 DEF Ops
  <2>3. clock[Head(todo).peer] \in Int
    BY <1>0, <2>2, BoundAssumption
  <2>4. CASE clock[Head(todo).peer] < 0
    BY <1>6, <2>1, <2>4 DEF CpuSync
  <2>5. CASE clock[Head(todo).peer] >= 0
    BY <1>6, <2>1, <2>3, <2>5 DEF CpuSync
  <2> QED BY <2>3, <2>4, <2>5
<1>7. CASE CpuDelayed
  BY <1>7 DEF CpuDelayed, Doing
<1>8. ASSUME NEW p \in Peers, NEW q \in Quantum[p],
             clock' = [clock EXCEPT ![p] = Saturate(clock[p] + q)]
      PROVE  \A r \in Peers : clock[r] >= 0 => clock'[r] >= 0
  <2>1. q \in Nat /\ clock[p] \in Int
    BY <1>0, ClockAssumption, BoundAssumption
  <2>2. clock[p] >= 0 => Saturate(clock[p] + q) >= 0
    BY <2>1, BoundAssumption DEF Saturate
  <2> QED BY <1>0, <1>8, <2>2
<1>9. ASSUME NEW p \in Peers, PeerStep(p) PROVE Kept
  BY <1>8, <1>9 DEF PeerStep, cpuVars
<1>10. CASE SmpIdle
  BY <1>0, <1>8, <1>10 DEF SmpIdle, cpuVars
<1>11. ASSUME NEW t \in Threads, SyncPoint(t) \/ BeginMain(t) \/ EndMain(t) \/ Halt(t)
       PROVE  Kept
  BY <1>11 DEF SyncPoint, BeginMain, EndMain, Halt, cpuVars
<1>12. ASSUME NEW t \in Threads, ReturnFromResume(t)
       PROVE  clock' = clock
              /\ (todo' = todo \/ (/\ todo # <<>> /\ Head(todo).kind = "sync"
                                   /\ todo' = Tail(todo) /\ running = CPU /\ pos[CPU] = "sync"))
  BY <1>12 DEF ReturnFromResume, StackShape
<1>13. CASE SmpPort \/ SmpAccess \/ CpuFrame
  BY <1>13 DEF SmpPort, SmpAccess, CpuFrame, cpuVars
<1>14. CASE FrameEvent \/ CheatWrite \/ FrameEventEnd \/ Cheats \/ CheatsReturn
            \/ RunReturn \/ SaveReturn \/ Run
            \/ RunToSave \/ SaveContinue \/ SaveRestart \/ SaveNext
  BY <1>14 DEF FrameEvent, CheatWrite, FrameEventEnd, Cheats, CheatsReturn, RunReturn,
               SaveReturn, Run, RunToSave,
               SaveContinue, SaveRestart, SaveNext, Reenter, stackVars, cpuVars
<1>15. CASE Power
  BY <1>0, <1>15 DEF Power
<1>16. CASE UNCHANGED vars
  BY <1>16 DEF vars, cpuVars
<1> QED
  BY <1>2, <1>3, <1>4, <1>5, <1>6, <1>7, <1>9, <1>10, <1>11, <1>12, <1>13, <1>14,
     <1>15, <1>16, NextCases


\* The setting of delayed synchronization changes only at the ends of a save.
LEMMA DelayCases ==
  ASSUME [Next]_vars PROVE delayedSync' = delayedSync \/ RunToSave \/ SaveReturn
<1>1. ASSUME NEW t \in Threads, SyncPoint(t) \/ BeginMain(t) \/ EndMain(t)
                                 \/ ReturnFromResume(t) \/ Halt(t)
      PROVE  delayedSync' = delayedSync
  BY <1>1 DEF SyncPoint, BeginMain, EndMain, ReturnFromResume, Halt, hostVars
<1>2. ASSUME NEW p \in Peers, PeerStep(p) PROVE delayedSync' = delayedSync
  BY <1>2 DEF PeerStep, hostVars
<1>3. CASE \/ SmpIdle \/ SmpPort \/ SmpAccess \/ CpuCycle \/ CpuRefresh \/ CpuTail \/ CpuBusAccess
           \/ CpuRecreate
           \/ CpuSync \/ CpuCharge \/ CpuDelayed \/ CpuAccess \/ CpuFrame \/ CpuAfterFrame
  BY <1>3 DEF SmpIdle, SmpPort, SmpAccess, CpuCycle, CpuRefresh, CpuTail, CpuBusAccess,
      CpuRecreate, CpuSync,
              CpuCharge, CpuDelayed, CpuAccess, CpuFrame, CpuAfterFrame, hostVars
<1>4. CASE FrameEvent \/ CheatWrite \/ FrameEventEnd \/ Cheats \/ CheatsReturn \/ RunReturn \/ Run
            \/ SaveContinue \/ SaveRestart \/ SaveNext \/ Power
  BY <1>4 DEF FrameEvent, CheatWrite, FrameEventEnd, Cheats, CheatsReturn, RunReturn, Run, SaveContinue, SaveRestart,
              SaveNext, Reenter, Power, hostVars
<1>5. CASE UNCHANGED vars
  BY <1>5 DEF vars, hostVars
<1> QED BY <1>1, <1>2, <1>3, <1>4, <1>5, NextCases

LEMMA NextBusReady ==
  ASSUME Intact, IInv, BusReady, [Next]_vars PROVE BusReady'
<1> SUFFICES ASSUME mode' = "Run", ~delayedSync', NEW i \in DOMAIN todo', todo'[i].kind = "bus"
             PROVE  Guarded(todo', i) \/ CopReady(todo, i)'
  BY DEF BusReady, Guarded
<1> DEFINE Ready == /\ \A j \in 1..(i - 1) : todo'[j].kind = "sync"
                    /\ \A c \in Cops : clock'[c] >= 0 \/ \E j \in 1..(i - 1) : todo'[j] = SyncOp(c)
<1>0. TypeOK /\ StackShape /\ HostShape /\ Handshake /\ todo \in Seq(Ops)
      /\ \A c \in Cops : c \in Peers
  BY DEF IInv, TypeOK, Peers
<1>1. CASE SaveReturn
  <2>1. todo' = <<>>
    BY <1>1, SaveReturnParked DEF SaveReturn, stackVars, cpuVars
  <2> QED BY <2>1
<1>2. CASE BusGuarded(todo')
  BY <1>2 DEF BusGuarded
<1>3. CASE ~SaveReturn /\ ~BusGuarded(todo')
  <2>1. mode = "Run" /\ ~delayedSync
    BY <1>0, <1>3, ModeCases, DelayCases DEF RunToSave
  <2>2. \A k \in DOMAIN todo : todo[k].kind = "bus" => Guarded(todo, k) \/ CopReady(todo, k)
    BY <2>1 DEF BusReady
  <2>3. CASE todo' = todo /\ \A p \in Peers : clock[p] >= 0 => clock'[p] >= 0
    <3>1. Guarded(todo, i) \/ CopReady(todo, i)
      BY <2>2, <2>3
    <3> QED BY <1>0, <2>3, <3>1 DEF Guarded, CopReady
  \* A synchronization came back: its peer is not behind any more.
  <2>4. CASE /\ todo # <<>> /\ Head(todo).kind = "sync" /\ todo' = Tail(todo) /\ clock' = clock
             /\ clock[Head(todo).peer] >= 0
    <3>1. i \in Nat \ {0} /\ i + 1 \in DOMAIN todo /\ todo'[i] = todo[i + 1] /\ Head(todo) = todo[1]
      BY <1>0, <2>4, TailFacts
    <3>2. DOMAIN Tail(todo) = 1..Len(Tail(todo)) /\ Len(Tail(todo)) \in Nat
      BY <1>0, <2>4, TailFacts, LenProperties
    <3>3. \A j \in 1..i : j \in DOMAIN Tail(todo) /\ j + 1 \in 1..(i + 1) /\ todo'[j] = todo[j + 1]
      BY <1>0, <2>4, <3>1, <3>2, TailFacts
    <3>4. CASE Guarded(todo, i + 1)
      <4>1. todo[i].kind = "delayed" /\ i # 1
        BY <2>4, <3>1, <3>4 DEF Guarded
      <4>2. i - 1 \in 1..i /\ (i - 1) + 1 = i
        BY <3>1, <4>1
      <4>3. todo'[i - 1].kind = "delayed"
        BY <3>3, <4>1, <4>2
      <4> QED BY <3>1, <4>1, <4>3 DEF Guarded
    <3>5. CASE CopReady(todo, i + 1)
      <4>1. \A j \in 1..(i - 1) : todo'[j].kind = "sync"
        <5> TAKE j \in 1..(i - 1)
        <5>1. j \in 1..i /\ j + 1 \in 1..((i + 1) - 1)
          BY <3>1
        <5> QED BY <3>3, <3>5, <5>1 DEF CopReady
      <4>2. ASSUME NEW c \in Cops
            PROVE  clock'[c] >= 0 \/ \E j \in 1..(i - 1) : todo'[j] = SyncOp(c)
        <5>1. clock[c] >= 0 \/ \E j \in 1..((i + 1) - 1) : todo[j] = SyncOp(c)
          BY <3>5 DEF CopReady
        <5>2. ASSUME NEW j \in 1..((i + 1) - 1), todo[j] = SyncOp(c), j # 1
              PROVE  \E k \in 1..(i - 1) : todo'[k] = SyncOp(c)
          <6>1. j - 1 \in 1..(i - 1) /\ j - 1 \in 1..i /\ (j - 1) + 1 = j
            BY <3>1, <5>2
          <6> QED BY <3>3, <5>2, <6>1
        <5>3. ASSUME todo[1] = SyncOp(c) PROVE clock'[c] >= 0
          BY <2>4, <3>1, <5>3 DEF SyncOp
        <5> QED BY <2>4, <5>1, <5>2, <5>3
      <4> QED BY <4>1, <4>2 DEF CopReady
    <3> QED BY <2>2, <3>1, <3>4, <3>5
  \* The step before the access: every coprocessor is to be synchronized.
  <2>5. CASE /\ todo # <<>> /\ Head(todo).kind = "delayed" /\ todo' = CopSyncs \o Tail(todo)
             /\ clock' = clock
    <3> DEFINE n == Len(CopSyncs)
               r == Tail(todo)
               k == i - n
    <3>1. /\ CopSyncs \in Seq(Ops) /\ NoBus(CopSyncs) /\ r \in Seq(Ops)
          /\ n \in Nat /\ n = Len(CopSeq) /\ DOMAIN CopSyncs = 1..n
      BY <1>0, <2>5, CopSyncsNoBus, CopSyncsFacts, TailFacts, LenProperties
    <3> HIDE DEF r
    <3>2. /\ \A j \in DOMAIN CopSyncs : todo'[j] = CopSyncs[j]
          /\ \A j \in DOMAIN r : todo'[j + n] = r[j]
          /\ i \in DOMAIN CopSyncs \/ i - n \in DOMAIN r
          /\ i \in Nat \ {0} /\ DOMAIN r \subseteq Nat \ {0}
      <4>1. todo' = CopSyncs \o r
        BY <2>5 DEF r
      <4>2. CopSyncs \in Seq(Ops) /\ r \in Seq(Ops) /\ i \in DOMAIN (CopSyncs \o r)
        BY <3>1, <4>1
      <4>3. n = Len(CopSyncs)
        OBVIOUS
      <4> HIDE DEF n
      <4> QED BY <4>1, <4>2, <4>3, ConcatFacts
    <3> HIDE DEF n
    <3>3. i \in Nat \ {0} /\ k \in DOMAIN r /\ k \in Nat \ {0} /\ k + n = i
      <4>1. i \notin DOMAIN CopSyncs
        BY <3>1, <3>2 DEF NoBus
      <4> QED BY <3>1, <3>2, <4>1
    <3>4. todo'[i] = r[k]
      BY <3>3, <3>2
    <3>5. k + 1 \in DOMAIN todo /\ todo[k + 1].kind = "bus" /\ Head(todo) = todo[1]
      BY <1>0, <2>5, <3>3, <3>4, TailFacts DEF r
    <3>6. todo[k].kind = "delayed"
      <4>1. 1 \in 1..((k + 1) - 1) /\ (k + 1) - 1 = k
        BY <3>3
      <4> QED BY <2>2, <2>5, <3>5, <4>1 DEF Guarded, CopReady
    <3>7. CASE k = 1
      <4>1. \A j \in 1..(i - 1) : j \in 1..n /\ todo'[j] = CopSyncs[j]
        <5>1. i \in Nat /\ n \in Nat /\ i - n = 1
          BY <3>1, <3>3, <3>7
        <5>2. i - 1 = n
          BY <5>1
        <5> QED BY <3>1, <3>2, <5>2
      <4>2. \A j \in 1..(i - 1) : todo'[j].kind = "sync"
        BY <3>1, <4>1, CopSyncsFacts DEF SyncOp
      <4>3. ASSUME NEW c \in Cops PROVE \E j \in 1..(i - 1) : todo'[j] = SyncOp(c)
        <5>1. PICK j \in 1..Len(CopSeq) : CopSeq[j] = c
          BY CopSyncsFacts
        <5>2. CopSyncs[j] = SyncOp(c)
          BY <5>1, CopSyncsFacts
        <5>3. j \in 1..(i - 1)
          BY <3>1, <3>3, <3>7
        <5> QED BY <4>1, <5>2, <5>3
      <4> QED BY <4>2, <4>3 DEF CopReady
    <3>8. CASE k # 1
      <4>1. DOMAIN r = 1..Len(r) /\ Len(r) \in Nat
        BY <3>1, LenProperties
      <4>2. k - 1 \in DOMAIN r /\ (k - 1) + 1 = k /\ (k - 1) + n = i - 1 /\ i > 1
        BY <3>1, <3>3, <3>8, <4>1
      <4>3. todo'[i - 1] = r[k - 1]
        <5>1. todo'[(k - 1) + n] = r[k - 1]
          BY <3>2, <4>2
        <5> QED BY <4>2, <5>1
      <4>4. r[k - 1] = todo[k]
        BY <1>0, <2>5, <4>2, TailFacts DEF r
      <4> QED BY <3>6, <4>2, <4>3, <4>4 DEF Guarded
    <3> QED BY <3>7, <3>8
  <2>6. running = CPU /\ pos[CPU] = "sync" => clock[Head(todo).peer] >= 0
    BY <1>0, <2>1 DEF Handshake
  <2> QED BY <1>0, <1>3, <2>1, <2>3, <2>4, <2>5, <2>6, BusCases
<1> QED BY <1>1, <1>2, <1>3

LEMMA ReadyKeepsUp == ASSUME IInv, BusReady PROVE CoprocessorsKeepUp
<1>1. todo \in Seq(Ops)
  BY DEF IInv, TypeOK
<1> SUFFICES ASSUME mode = "Run", ~delayedSync, Doing("bus"), NEW c \in Cops
             PROVE  clock[c] >= 0
  BY DEF CoprocessorsKeepUp
<1>2. 1 \in DOMAIN todo /\ todo[1].kind = "bus" /\ 1..(1 - 1) = {}
  BY <1>1, TailFacts DEF Doing
<1>3. CopReady(todo, 1)
  BY <1>2 DEF BusReady, Guarded
<1> QED BY <1>2, <1>3 DEF CopReady

\* CoprocessorsKeepUp: with delayed synchronization off, no coprocessor is
\* behind the CPU when it accesses the bus (sfc/cpu/timing.cpp step), whatever
\* scanlines, refreshes and sleeps come between the step and the access.
THEOREM BusWaitsForCoprocessors ==
  ASSUME method = "Strict" PROVE Spec => []CoprocessorsKeepUp
<1>1. Init => BusReady
  BY DEF Init, BusReady
<1>2. IInv /\ BusReady /\ [Next]_vars => BusReady'
  BY NextBusReady DEF Intact
<1> QED BY <1>1, <1>2, ReadyKeepsUp, Inductive, PTL DEF Spec

-----------------------------------------------------------------------------
(* Scheduler implements VirtualTime: every step of the threads, of the CPU  *)
(* inside its bus cycle and of the host is a step of the processors in      *)
(* virtual time, or none.                                                   *)

(* What a step does to the clocks. *)

LEMMA ClocksTyped ==
  ASSUME TypeOK
  PROVE  /\ clock \in [Peers -> Int]
         /\ \A p \in Peers : clock[p] >= -ClockCap /\ clock[p] <= ClockCap
<1>1. clock \in [Peers -> -ClockCap..ClockCap] /\ ClockCap \in Nat
  BY BoundAssumption DEF TypeOK
<1>2. \A p \in Peers : clock[p] \in -ClockCap..ClockCap
  BY <1>1
<1>3. \A p \in Peers : clock[p] \in Int /\ clock[p] >= -ClockCap /\ clock[p] <= ClockCap
  BY <1>1, <1>2
<1> QED BY <1>1, <1>3

\* A peer that steps gains time; one that does not switch back is still behind.
LEMMA PeerGains ==
  ASSUME TypeOK, NEW p \in Peers, NEW q \in Quantum[p],
         clock' = [clock EXCEPT ![p] = Saturate(clock[p] + q)]
  PROVE  /\ clock'[p] >= clock[p]
         /\ \A r \in Peers \ {p} : clock'[r] = clock[r]
         /\ p # SMP /\ ~MustYield(p, clock[p] + q) => clock'[p] < 0
<1>1. /\ clock \in [Peers -> Int] /\ clock[p] \in Int /\ q \in Nat \ {0}
      /\ clock[p] <= ClockCap /\ ClockCap \in Nat \ {0}
  BY ClocksTyped, ClockAssumption, BoundAssumption
<1>2. clock'[p] = Saturate(clock[p] + q)
  BY <1>1
<1>3. Saturate(clock[p] + q) >= clock[p]
  BY <1>1 DEF Saturate
<1>4. p # SMP /\ ~MustYield(p, clock[p] + q) => Saturate(clock[p] + q) < 0
  BY <1>1 DEF Saturate, MustYield
<1> QED BY <1>1, <1>2, <1>3, <1>4

\* The CPU's time makes everybody else later.
LEMMA ChargeLowers ==
  ASSUME TypeOK, NEW P, NEW q \in Nat, clock' = Charge(P, q)
  PROVE  \A p \in Peers : clock'[p] <= clock[p]
<1> SUFFICES ASSUME NEW p \in Peers PROVE clock'[p] <= clock[p]
  OBVIOUS
<1>1. clock[p] \in Int /\ clock[p] >= -ClockCap /\ clock[p] <= ClockCap /\ ClockCap \in Nat
  BY ClocksTyped, BoundAssumption
<1>2. Saturate(clock[p] - q) <= clock[p]
  BY <1>1 DEF Saturate
<1> QED BY <1>1, <1>2 DEF Charge

-----------------------------------------------------------------------------
(* Whoever is resumed in Run mode, but for the SMP, is behind. *)

LEMMA NextRunsBehind ==
  ASSUME Intact, IInv, RunsBehind, [Next]_vars PROVE RunsBehind'
<1> SUFFICES ASSUME mode' = "Run", running' \in Peers \ {SMP} PROVE clock'[running'] < 0
  BY DEF RunsBehind
<1>0. /\ TypeOK /\ HostShape /\ Handshake /\ FrameSynced
      /\ Host \notin Peers /\ CPU \notin Peers /\ SMP \in Peers
      /\ clock \in [Peers -> Int]
      /\ HostIdle => active = CPU
  <2>1. TypeOK /\ HostShape /\ Handshake /\ FrameSynced
    BY DEF IInv
  <2>2. HostIdle => active = CPU
    BY <2>1 DEF HostIdle, HostShape, Handshake
  <2> QED BY <2>1, <2>2, ClocksTyped, ThreadAssumption DEF Threads, Peers
<1>1. CASE running' = running /\ UNCHANGED <<mode, clock>>
  BY <1>1 DEF RunsBehind
<1>2. ASSUME NEW t \in Threads, SyncPoint(t) PROVE FALSE
  BY <1>0, <1>2 DEF SyncPoint, leave
<1>3. ASSUME NEW t \in Threads, BeginMain(t) \/ EndMain(t) \/ ReturnFromResume(t) \/ Halt(t)
      PROVE  clock'[running'] < 0
  BY <1>1, <1>3 DEF BeginMain, EndMain, ReturnFromResume, Halt, schedVars
<1>4. ASSUME NEW p \in Peers, PeerStep(p) PROVE clock'[running'] < 0
  <2>1. PICK q \in Quantum[p] :
          /\ clock' = [clock EXCEPT ![p] = Saturate(clock[p] + q)]
          /\ IF MustYield(p, clock[p] + q)
             THEN resume(CPU) /\ pos' = [pos EXCEPT ![p] = "sync"]
             ELSE UNCHANGED <<schedVars, pos>>
    BY <1>4 DEF PeerStep
  <2>2. ~MustYield(p, clock[p] + q) /\ running' = running
    BY <1>0, <2>1 DEF resume, schedVars
  <2>3. running = p
    BY <1>4 DEF PeerStep, MayStep
  <2> QED BY <1>0, <2>1, <2>2, <2>3, PeerGains
<1>5. CASE SmpIdle \/ SmpPort \/ SmpAccess
  <2>1. running = SMP /\ running' \in {SMP, CPU}
    BY <1>5 DEF SmpIdle, SmpPort, SmpAccess, MayStep, resume, schedVars
  <2> QED BY <1>0, <2>1
<1>6. CASE \/ CpuCycle \/ CpuRefresh \/ CpuTail \/ CpuBusAccess \/ CpuRecreate
           \/ CpuCharge \/ CpuDelayed \/ CpuAccess \/ CpuAfterFrame
  <2>1. running = CPU /\ running' = CPU
    BY <1>6 DEF CpuCycle, CpuRefresh, CpuTail, CpuBusAccess, CpuRecreate, CpuCharge,
                CpuDelayed, CpuAccess, CpuAfterFrame, MayStep, Doing, schedVars
  <2> QED BY <1>0, <2>1
<1>7. CASE CpuSync
  <2>1. CASE clock[Head(todo).peer] < 0
    BY <1>7, <2>1 DEF CpuSync, resume
  <2>2. CASE ~(clock[Head(todo).peer] < 0)
    <3>1. running = CPU /\ running' = running
      BY <1>7, <2>2 DEF CpuSync, Doing, schedVars
    <3> QED BY <1>0, <3>1
  <2> QED BY <2>1, <2>2
<1>8. CASE CpuFrame
  BY <1>0, <1>8 DEF CpuFrame, leave
<1>9. CASE FrameEvent \/ FrameEventEnd \/ RunReturn \/ Cheats \/ CheatsReturn
  BY <1>0, <1>9 DEF FrameEvent, FrameEventEnd, RunReturn, Cheats, CheatsReturn, HostIdle, Entered,
                    schedVars
<1>10. CASE CheatWrite
  <2>1. running = Host /\ mode' = mode /\ clock' = clock /\ writes # <<>>
    BY <1>10 DEF CheatWrite, resume, schedVars, stackVars
  <2>2. call \in {"run", "cheats"} /\ mode = "Run" /\ writes \in Seq(Peers)
    BY <1>0, <1>10, <2>1 DEF HostShape, CheatWrite, TypeOK
  <2>3. clock[Head(writes)] \in Int /\ clock[Head(writes)] >= 0
    <3>1. Head(writes) \in Peers
      BY <2>1, <2>2
    <3>2. \A p \in Peers : clock[p] >= 0
      BY <1>0, <2>1, <2>2 DEF FrameSynced
    <3>3. clock[Head(writes)] \in Int
      BY <1>0, <3>1
    <3> QED BY <3>1, <3>2, <3>3
  <2>4. ~(clock[Head(writes)] < 0)
    BY <2>3
  <2>5. UNCHANGED schedVars
    BY <1>10, <2>4 DEF CheatWrite
  <2>6. running' = Host
    BY <2>1, <2>5 DEF schedVars
  <2> QED BY <1>0, <2>6
<1>11. CASE SaveContinue \/ SaveRestart \/ SaveNext
  BY <1>0, <1>11 DEF SaveContinue, SaveRestart, SaveNext, Reenter, Entered, HostShape
<1>12. CASE SaveReturn
  BY <1>0, <1>12 DEF SaveReturn, Entered
<1>13. CASE Run \/ RunToSave
  <2>1. Run
    BY <1>13 DEF RunToSave
  <2>2. HostIdle /\ running' = active
    BY <2>1 DEF Run, enter
  <2>3. running' = CPU
    BY <1>0, <2>2
  <2> QED BY <1>0, <2>3
<1>14. CASE Power
  BY <1>0, <1>14 DEF Power, HostIdle
<1>15. CASE UNCHANGED vars
  BY <1>1, <1>15 DEF vars, schedVars
<1> QED BY <1>2, <1>3, <1>4, <1>5, <1>6, <1>7, <1>8, <1>9, <1>10, <1>11, <1>12, <1>13,
           <1>14, <1>15, NextCases

-----------------------------------------------------------------------------
(* The mapping, by what the host waits for. *)

\* A save gives up the order of time until it returns.
LEMMA SaveStep ==
  ASSUME HostShape, call = "save", [Next]_vars PROVE VT!Next
<1>0. ASSUME call' = call PROVE VT!Next
  BY <1>0 DEF VT!Next, VT!Save
<1>1. ASSUME NEW t \in Threads, SyncPoint(t) \/ BeginMain(t) \/ EndMain(t)
                                  \/ ReturnFromResume(t) \/ Halt(t)
      PROVE  call' = call
  BY <1>1 DEF SyncPoint, BeginMain, EndMain, ReturnFromResume, Halt, hostVars
<1>2. ASSUME NEW p \in Peers, PeerStep(p) PROVE call' = call
  BY <1>2 DEF PeerStep, hostVars
<1>3. CASE \/ SmpIdle \/ SmpPort \/ SmpAccess \/ CpuCycle \/ CpuRefresh
           \/ CpuTail \/ CpuBusAccess
           \/ CpuRecreate \/ CpuSync \/ CpuCharge \/ CpuDelayed \/ CpuAccess
           \/ CpuFrame \/ CpuAfterFrame
  BY <1>3, <1>0
     DEF SmpIdle, SmpPort, SmpAccess, CpuCycle, CpuRefresh, CpuTail, CpuBusAccess,
         CpuRecreate, CpuSync,
         CpuCharge, CpuDelayed, CpuAccess, CpuFrame, CpuAfterFrame, hostVars
<1>4. CASE FrameEvent \/ CheatWrite \/ FrameEventEnd \/ SaveContinue \/ SaveRestart \/ SaveNext
  BY <1>4, <1>0 DEF FrameEvent, CheatWrite, FrameEventEnd, SaveContinue, SaveRestart,
                    SaveNext, Reenter
<1>5. CASE RunReturn \/ Run \/ RunToSave \/ Power \/ Cheats \/ CheatsReturn
  BY <1>5 DEF RunReturn, Entered, Run, RunToSave, Power, Cheats, CheatsReturn, HostIdle, HostShape
<1>6. CASE UNCHANGED vars
  BY <1>6, <1>0 DEF vars, hostVars
<1>7. CASE SaveReturn
  <2>1. hostAt \in {"entered", "decide"} /\ call' = "none" /\ hostAt' = "idle"
        /\ GlobalWriteEnable' = GlobalWriteEnable /\ clock' = clock
    BY <1>7 DEF SaveReturn, Entered, stackVars
  <2>2. ~GlobalWriteEnable
    BY <2>1 DEF HostShape
  <2>3. VT!SaveReturn
    BY <2>1, <2>2 DEF VT!SaveReturn
  <2> QED BY <2>3 DEF VT!Next
<1> QED BY <1>1, <1>2, <1>3, <1>4, <1>5, <1>6, <1>7, <1>0, NextCases

\* While the host waits for nothing it can only call, turn the power on, or begin
\* to change the cheats.
LEMMA IdleStep ==
  ASSUME HostShape, call = "none", [Next]_vars PROVE VT!Next \/ UNCHANGED VT!vars
<1>0. running = Host /\ hostAt = "idle" /\ Host \notin Threads /\ SMP \in Threads
      /\ CPU \in Threads /\ Peers \subseteq Threads
  BY ThreadAssumption DEF HostShape, Threads, Peers
<1>1. ASSUME NEW t \in Threads, SyncPoint(t) \/ BeginMain(t) \/ EndMain(t)
                                  \/ ReturnFromResume(t) \/ Halt(t)
      PROVE  FALSE
  BY <1>0, <1>1 DEF SyncPoint, BeginMain, EndMain, ReturnFromResume, Halt
<1>2. ASSUME NEW p \in Peers, PeerStep(p) PROVE FALSE
  BY <1>0, <1>2 DEF PeerStep, MayStep
<1>3. ~ (\/ SmpIdle \/ SmpPort \/ SmpAccess \/ CpuCycle \/ CpuRefresh
         \/ CpuTail \/ CpuBusAccess
         \/ CpuRecreate \/ CpuSync \/ CpuCharge \/ CpuDelayed \/ CpuAccess
         \/ CpuFrame \/ CpuAfterFrame)
  BY <1>0
     DEF SmpIdle, SmpPort, SmpAccess, CpuCycle, CpuRefresh, CpuTail, CpuBusAccess,
         CpuRecreate, CpuSync, CpuCharge, CpuDelayed, CpuAccess, CpuFrame, CpuAfterFrame,
         MayStep, Doing
<1>4. ~ (\/ FrameEvent \/ CheatWrite \/ FrameEventEnd \/ CheatsReturn \/ RunReturn
         \/ SaveContinue \/ SaveRestart \/ SaveNext \/ SaveReturn)
  BY <1>0 DEF FrameEvent, CheatWrite, FrameEventEnd, CheatsReturn, RunReturn, SaveContinue,
              SaveRestart, SaveNext, SaveReturn, Entered
<1>5. CASE Run
  <2>1. VT!Call("run")
    BY <1>0, <1>5 DEF Run, stackVars, VT!Call
  <2> QED BY <2>1 DEF VT!Next
<1>6. CASE RunToSave
  <2>1. VT!Call("save")
    BY <1>0, <1>6 DEF RunToSave, stackVars, VT!Call
  <2> QED BY <2>1 DEF VT!Next
<1>7. CASE Power
  <2>1. VT!Power
    BY <1>0, <1>7 DEF Power, hostVars, VT!Power
  <2> QED BY <2>1 DEF VT!Next
<1>8. CASE UNCHANGED vars
  BY <1>8 DEF vars, hostVars, VT!vars
<1>9. CASE Cheats
  <2>1. VT!Patch
    BY <1>0, <1>9 DEF Cheats, stackVars, VT!Patch
  <2> QED BY <2>1 DEF VT!Next
<1> QED BY <1>1, <1>2, <1>3, <1>4, <1>5, <1>6, <1>7, <1>8, <1>9, NextCases

\* While the user changes the cheats, nothing else is executed.
LEMMA CheatsStep ==
  ASSUME IInv, call = "cheats", [Next]_vars PROVE VT!Next \/ UNCHANGED VT!vars
<1>0. running = Host /\ mode = "Run" /\ hostAt = "cheats" /\ Host \notin Threads
      /\ SMP \in Threads /\ CPU \in Threads /\ Peers \subseteq Threads
  BY ThreadAssumption DEF IInv, HostShape, FrameOnHost, Threads, Peers
<1>1. ASSUME NEW t \in Threads, SyncPoint(t) \/ BeginMain(t) \/ EndMain(t)
                                  \/ ReturnFromResume(t) \/ Halt(t)
      PROVE  FALSE
  BY <1>0, <1>1 DEF SyncPoint, BeginMain, EndMain, ReturnFromResume, Halt
<1>2. ASSUME NEW p \in Peers, PeerStep(p) PROVE FALSE
  BY <1>0, <1>2 DEF PeerStep, MayStep
<1>3. ~ (\/ SmpIdle \/ SmpPort \/ SmpAccess \/ CpuCycle \/ CpuRefresh
         \/ CpuTail \/ CpuBusAccess
         \/ CpuRecreate \/ CpuSync \/ CpuCharge \/ CpuDelayed \/ CpuAccess
         \/ CpuFrame \/ CpuAfterFrame)
  BY <1>0
     DEF SmpIdle, SmpPort, SmpAccess, CpuCycle, CpuRefresh, CpuTail, CpuBusAccess,
         CpuRecreate, CpuSync, CpuCharge, CpuDelayed, CpuAccess, CpuFrame, CpuAfterFrame,
         MayStep, Doing
<1>4. ~ (\/ FrameEvent \/ FrameEventEnd \/ RunReturn \/ SaveContinue \/ SaveRestart
         \/ SaveNext \/ SaveReturn \/ Run \/ RunToSave \/ Power \/ Cheats)
  BY <1>0 DEF FrameEvent, FrameEventEnd, RunReturn, SaveContinue, SaveRestart, SaveNext,
              SaveReturn, Entered, Run, RunToSave, Power, Cheats, HostIdle
<1>5. CASE CheatWrite
  BY <1>5 DEF CheatWrite, stackVars, VT!vars
<1>6. CASE CheatsReturn
  <2>1. VT!Patched
    BY <1>0, <1>6 DEF CheatsReturn, stackVars, VT!Patched
  <2> QED BY <2>1 DEF VT!Next
<1>7. CASE UNCHANGED vars
  BY <1>7 DEF vars, hostVars, VT!vars
<1> QED BY <1>1, <1>2, <1>3, <1>4, <1>5, <1>6, <1>7, NextCases

\* While the host waits for a frame, threads execute; the frame ends that.
LEMMA RunStep ==
  ASSUME IInv, RunsBehind, call = "run", [Next]_vars
  PROVE  VT!Next \/ UNCHANGED VT!vars
<1> DEFINE shown == hostAt \in {"frame", "decide"}
<1>0. /\ TypeOK /\ HostShape /\ Handshake /\ FrameSynced /\ FrameOnHost /\ mode = "Run"
      /\ Host \notin Threads /\ CPU \in Threads /\ SMP \in Threads /\ Peers \subseteq Threads
      /\ SMP \in Peers /\ clock \in [Peers -> Int] /\ Cops \subseteq Peers
  <2>1. TypeOK /\ HostShape /\ Handshake /\ FrameSynced /\ FrameOnHost
    BY DEF IInv
  <2>2. mode = "Run"
    BY <2>1 DEF HostShape
  <2> QED BY <2>1, <2>2, ClocksTyped, ThreadAssumption DEF Threads, Peers
<1>1. running # Host => hostAt = "entered"
  BY <1>0 DEF HostShape, FrameOnHost
<1>2. ASSUME UNCHANGED <<clock, call, hostAt, GlobalWriteEnable>> PROVE UNCHANGED VT!vars
  BY <1>2 DEF VT!vars
<1>3. ASSUME hostAt = "entered", UNCHANGED <<call, hostAt, GlobalWriteEnable>>,
             \A p \in Peers : clock'[p] <= clock[p]
      PROVE  VT!Next
  <2>1. VT!CpuRuns
    BY <1>3 DEF VT!CpuRuns
  <2> QED BY <2>1 DEF VT!Next
<1>4. ASSUME NEW p \in Peers, hostAt = "entered", UNCHANGED <<call, hostAt, GlobalWriteEnable>>,
             clock[p] < 0 \/ p = SMP, clock'[p] >= clock[p],
             \A r \in Peers \ {p} : clock'[r] = clock[r]
      PROVE  VT!Next
  <2>1. VT!PeerRuns(p)
    BY <1>4 DEF VT!PeerRuns
  <2> QED BY <2>1 DEF VT!Next
<1>5. ASSUME NEW t \in Threads, SyncPoint(t) \/ BeginMain(t) \/ EndMain(t)
                                  \/ ReturnFromResume(t) \/ Halt(t)
      PROVE  UNCHANGED VT!vars
  BY <1>2, <1>5 DEF SyncPoint, BeginMain, EndMain, ReturnFromResume, Halt, hostVars
<1>6. ASSUME NEW p \in Peers, PeerStep(p) PROVE VT!Next
  <2>1. PICK q \in Quantum[p] : clock' = [clock EXCEPT ![p] = Saturate(clock[p] + q)]
    BY <1>6 DEF PeerStep
  <2>2. running = p /\ UNCHANGED <<call, hostAt, GlobalWriteEnable>>
    BY <1>6 DEF PeerStep, MayStep, hostVars
  <2>3. hostAt = "entered" /\ (clock[p] < 0 \/ p = SMP)
    BY <1>0, <1>1, <2>2 DEF RunsBehind
  <2> QED BY <1>0, <1>4, <2>1, <2>2, <2>3, PeerGains
<1>7. CASE SmpIdle
  <2>1. PICK q \in Quantum[SMP] : clock' = [clock EXCEPT ![SMP] = Saturate(clock[SMP] + q)]
    BY <1>7 DEF SmpIdle
  <2>2. running = SMP /\ UNCHANGED <<call, hostAt, GlobalWriteEnable>>
    BY <1>7 DEF SmpIdle, MayStep, hostVars
  <2>3. hostAt = "entered"
    BY <1>0, <1>1, <2>2
  <2> QED BY <1>0, <1>4, <2>1, <2>2, <2>3, PeerGains
<1>8. CASE \/ SmpPort \/ SmpAccess \/ CpuBusAccess \/ CpuSync \/ CpuDelayed \/ CpuAccess
           \/ CpuFrame \/ CpuAfterFrame
  BY <1>2, <1>8 DEF SmpPort, SmpAccess, CpuBusAccess, CpuSync, CpuDelayed, CpuAccess, CpuFrame,
                    CpuAfterFrame, cpuVars, hostVars
<1>9. CASE CpuCycle \/ CpuRefresh \/ CpuTail
  <2>1. running = CPU /\ UNCHANGED <<call, hostAt, GlobalWriteEnable>>
    BY <1>9 DEF CpuCycle, CpuRefresh, CpuTail, MayStep, Doing, hostVars
  <2>2. hostAt = "entered"
    BY <1>0, <1>1, <2>1
  <2>3. ASSUME NEW q \in CpuClocks, NEW sync \in BOOLEAN, NEW rest \in Seq(Ops),
               Step(q, sync, rest)
        PROVE  \A p \in Peers : clock'[p] <= clock[p]
    <3>1. q \in Nat /\ clock' = Charge(Cops \ Late, q)
      BY <2>3, ClockAssumption DEF Step
    <3> QED BY <1>0, <3>1, ChargeLowers
  <2>4. CASE clock' = clock
    BY <1>2, <2>1, <2>4
  <2>5. (\A p \in Peers : clock'[p] <= clock[p]) \/ clock' = clock
    BY <1>0, <1>9, <2>3, StepCases
  <2> QED BY <1>3, <2>1, <2>2, <2>4, <2>5
<1>10. CASE CpuCharge
  <2>1. running = CPU /\ UNCHANGED <<call, hostAt, GlobalWriteEnable>>
        /\ todo # <<>> /\ Head(todo).kind = "charge"
        /\ clock' = Charge({SMP, PPU} \cup Late, Head(todo).clocks)
    BY <1>10 DEF CpuCharge, Doing, hostVars
  <2>2. Head(todo) \in Ops
    BY <1>0, <2>1 DEF TypeOK
  <2>3. Head(todo).clocks \in Nat
    BY <2>1, <2>2, ClockAssumption DEF Ops
  <2>4. \A p \in Peers : clock'[p] <= clock[p]
    BY <1>0, <2>1, <2>3, ChargeLowers
  <2>5. hostAt = "entered"
    BY <1>0, <1>1, <2>1
  <2> QED BY <1>3, <2>1, <2>4, <2>5
<1>11. CASE CpuRecreate
  <2>1. PICK c \in Recreatable : clock' = [clock EXCEPT ![c] = 0]
    BY <1>11 DEF CpuRecreate
  <2>2. running = CPU /\ UNCHANGED <<call, hostAt, GlobalWriteEnable>> /\ c \in Peers
    BY <1>0, <1>11, CopAssumption DEF CpuRecreate, Doing, hostVars
  <2>3. hostAt = "entered"
    BY <1>0, <1>1, <2>2
  <2>4. VT!Reset(c)
    BY <2>1, <2>2, <2>3 DEF VT!Reset
  <2> QED BY <2>2, <2>4 DEF VT!Next
<1>12. CASE FrameEvent
  <2>1. /\ running = Host /\ hostAt = "entered" /\ hostAt' = "frame" /\ GlobalWriteEnable' = TRUE
        /\ UNCHANGED <<call, clock>>
    BY <1>12 DEF FrameEvent, stackVars
  <2>2. \A p \in Peers : clock[p] >= 0
    BY <1>0, <2>1 DEF FrameSynced
  <2>3. VT!Present
    BY <2>1, <2>2 DEF VT!Present
  <2> QED BY <2>3 DEF VT!Next
<1>13. CASE CheatWrite
  BY <1>2, <1>13 DEF CheatWrite, stackVars
<1>14. CASE FrameEventEnd
  <2>1. /\ hostAt = "frame" /\ hostAt' = "decide" /\ GlobalWriteEnable' = FALSE
        /\ UNCHANGED <<call, clock>>
    BY <1>14 DEF FrameEventEnd, stackVars
  <2>2. GlobalWriteEnable
    BY <1>0, <2>1 DEF HostShape
  <2>3. VT!Protect
    BY <2>1, <2>2 DEF VT!Protect
  <2> QED BY <2>3 DEF VT!Next
<1>15. CASE RunReturn
  <2>1. /\ running = Host /\ call' = "none" /\ hostAt' = "idle"
        /\ UNCHANGED <<clock, GlobalWriteEnable>>
        /\ hostAt = "decide" \/ (hostAt = "entered" /\ event # "Frame")
    BY <1>15 DEF RunReturn, Entered, stackVars
  <2>2. hostAt = "decide" /\ ~GlobalWriteEnable
    BY <1>0, <2>1 DEF FrameSynced, HostShape
  <2>3. VT!Return
    BY <2>1, <2>2 DEF VT!Return
  <2> QED BY <2>3 DEF VT!Next
<1>16. CASE SaveContinue \/ SaveRestart \/ SaveNext \/ SaveReturn
  BY <1>16 DEF SaveContinue, SaveRestart, SaveNext, SaveReturn, Entered
<1>17. CASE Run \/ RunToSave \/ Power \/ Cheats \/ CheatsReturn
  BY <1>0, <1>17 DEF Run, RunToSave, Power, Cheats, CheatsReturn, HostIdle, HostShape
<1>18. CASE UNCHANGED vars
  BY <1>2, <1>18 DEF vars, hostVars
<1> QED BY <1>5, <1>6, <1>7, <1>8, <1>9, <1>10, <1>11, <1>12, <1>13, <1>14, <1>15, <1>16,
           <1>17, <1>18, NextCases

-----------------------------------------------------------------------------
(* The refinement. *)

LEMMA InitVirtual == Init => VT!Init /\ RunsBehind
<1> SUFFICES ASSUME Init PROVE VT!Init /\ RunsBehind
  OBVIOUS
<1>1. running = Host /\ Host \notin Peers
  BY ThreadAssumption DEF Init, Threads
<1>2. clock = [p \in Peers |-> 0] /\ call = "none" /\ hostAt = "idle" /\ GlobalWriteEnable = FALSE
  BY DEF Init
<1>3. VT!Init
  BY <1>2 DEF VT!Init
<1>4. RunsBehind
  BY <1>1 DEF RunsBehind
<1> QED BY <1>3, <1>4

LEMMA VirtualStep ==
  ASSUME IInv, RunsBehind, [Next]_vars PROVE [VT!Next]_VT!vars
<1>1. HostShape /\ call \in {"none", "run", "save", "cheats"}
  BY DEF IInv, TypeOK
<1>2. VT!Next \/ UNCHANGED VT!vars
  BY <1>1, SaveStep, IdleStep, RunStep, CheatsStep
<1> QED BY <1>2

\* The threads of sfc.hpp, the CPU's bus cycles and the procedures of system.cpp
\* implement processors that keep their order in virtual time: peers execute only
\* when they are behind the CPU, the host is shown one frame for each run() that
\* returns, with everybody at the CPU's time, and protected memory is open only
\* while nobody executes.
THEOREM ImplementsVirtualTime ==
  ASSUME method = "Strict" PROVE Spec => VT!Spec
<1>1. Init => VT!Init /\ RunsBehind
  BY InitVirtual
<1>2. IInv /\ RunsBehind /\ [Next]_vars => RunsBehind'
  BY NextRunsBehind DEF Intact
<1>3. IInv /\ RunsBehind /\ [Next]_vars => [VT!Next]_VT!vars
  BY VirtualStep
<1> QED BY <1>1, <1>2, <1>3, Inductive, PTL DEF Spec, VT!Spec

-----------------------------------------------------------------------------
(* Between two saves: the Fast method as well, since no save returns.      *)

LEMMA RunKeepsCall ==
  ASSUME call # "save", [NextRun]_vars
  PROVE  call' # "save" /\ [Next]_vars /\ Intact
<1>1. [Next]_vars
  BY DEF NextRun, Next
<1>2. call' # "save"
  <2>1. ASSUME NEW t \in Threads, SyncPoint(t) \/ BeginMain(t) \/ EndMain(t)
                                    \/ ReturnFromResume(t) \/ Halt(t)
        PROVE  call' = call
    BY <2>1 DEF SyncPoint, BeginMain, EndMain, ReturnFromResume, Halt, hostVars
  <2>2. ASSUME NEW p \in Peers, PeerStep(p) PROVE call' = call
    BY <2>2 DEF PeerStep, hostVars
  <2>3. CASE SmpIdle \/ SmpPort \/ SmpAccess
    BY <2>3 DEF SmpIdle, SmpPort, SmpAccess, hostVars
  <2>4. CASE CpuBus
    BY <2>4 DEF CpuBus, CpuCycle, CpuRefresh, CpuTail, CpuBusAccess, CpuRecreate, CpuSync,
                CpuCharge, CpuDelayed, CpuAccess, CpuFrame, CpuAfterFrame, hostVars
  <2>5. CASE HostBusy
    BY <2>5 DEF HostBusy, FrameEvent, CheatWrite, FrameEventEnd, CheatsReturn, RunReturn,
                SaveContinue, SaveRestart, SaveNext, SaveReturn, Entered, Reenter
  <2>6. CASE Run \/ Power \/ Cheats \/ UNCHANGED vars
    BY <2>6 DEF Run, Power, Cheats, vars, hostVars
  <2>7. CASE AnyThread
    BY <2>1, <2>7 DEF AnyThread
  <2>8. CASE Peer
    BY <2>2, <2>3, <2>8 DEF Peer
  <2> QED BY <2>4, <2>5, <2>6, <2>7, <2>8 DEF NextRun, Busy
<1> QED BY <1>1, <1>2 DEF Intact

NoSave == call # "save"

\* What runs and what is behind in every state the machine reaches from power on
\* until a state is saved, whatever method is configured for the save.
THEOREM RunInductive == RunSafe => [](IInv /\ NoSave)
<1>1. Init => IInv /\ NoSave
  BY InitIInv DEF Init, NoSave
<1>2. IInv /\ NoSave /\ [NextRun]_vars => IInv' /\ NoSave'
  <2> SUFFICES ASSUME IInv, NoSave, [NextRun]_vars PROVE IInv' /\ NoSave'
    OBVIOUS
  <2>1. call' # "save" /\ [Next]_vars /\ Intact
    BY RunKeepsCall DEF NoSave
  <2> QED BY <2>1, NextIInv DEF NoSave
<1> QED BY <1>1, <1>2, PTL DEF RunSafe

\* The promises of PeersCatchUp, HostCanResume and CheatsKeepRom, until a save.
THEOREM RunKeepsOrder == RunSafe => [](CaughtUp /\ IdleIsResumable /\ RomProtected)
<1>1. IInv => CaughtUp
  BY DEF IInv, Handshake, CaughtUp
<1>2. IInv => IdleIsResumable
  BY DEF IInv, HostShape, Handshake, IdleIsResumable, HostIdle
<1>3. IInv => RomProtected
  BY DEF IInv, HostShape, FrameOnHost, RomProtected
<1> QED BY <1>1, <1>2, <1>3, RunInductive, PTL

\* What IInv needs besides, and why every step of the machine keeps it.
LEMMA RunNext ==
  ASSUME IInv, NoSave, RunsBehind, BusReady, [NextRun]_vars
  PROVE  RunsBehind' /\ BusReady' /\ [PortsInTurn]_vars /\ [VT!Next]_VT!vars
<1>1. call' # "save" /\ [Next]_vars /\ Intact
  BY RunKeepsCall DEF NoSave
<1> QED BY <1>1, NextRunsBehind, NextBusReady, PortsStep, VirtualStep

\* CoprocessorsKeepUp, PortOrder and the refinement of ImplementsVirtualTime hold
\* as well from power on until a state is saved, whatever the method of the save.
THEOREM RunImplementsVirtualTime ==
  RunSafe => []CoprocessorsKeepUp /\ PortOrder /\ VT!Spec
<1>1. Init => VT!Init /\ RunsBehind /\ BusReady
  BY InitVirtual DEF Init, BusReady
<1>2. IInv /\ NoSave /\ RunsBehind /\ BusReady /\ [NextRun]_vars =>
        RunsBehind' /\ BusReady' /\ [PortsInTurn]_vars /\ [VT!Next]_VT!vars
  BY RunNext
<1>3. PortOrder <=> [][PortsInTurn]_vars
  BY DEF PortOrder, PortsInTurn
<1> QED BY <1>1, <1>2, <1>3, ReadyKeepsUp, RunInductive, PTL DEF RunSafe, VT!Spec

-----------------------------------------------------------------------------
(* How far a peer may be behind the CPU. *)

\* The longest step of a program is one of its steps.
LEMMA LongestFacts ==
  /\ Longest(CpuClocks) \in Nat \ {0} /\ \A q \in CpuClocks : q \in Nat \ {0} /\ q <= Longest(CpuClocks)
  /\ \A p \in Peers : /\ Longest(Quantum[p]) \in Nat \ {0}
                      /\ \A q \in Quantum[p] : q \in Nat \ {0} /\ q <= Longest(Quantum[p])
<1>1. ASSUME NEW S \in {CpuClocks} \cup {Quantum[p] : p \in Peers}
      PROVE  Longest(S) \in S /\ \A q \in S : q <= Longest(S)
  BY LongestAssumption DEF Longest
<1>2. /\ CpuClocks \subseteq Nat \ {0} /\ \A p \in Peers : Quantum[p] \subseteq Nat \ {0}
  BY ClockAssumption
<1> QED BY <1>1, <1>2

\* No charge is left, or one, behind nothing but a scanline.
Uncharged(s) == \A i \in DOMAIN s : s[i].kind # "charge"

LEMMA ConcatUncharged ==
  ASSUME NEW s \in Seq(Ops), NEW r \in Seq(Ops), Uncharged(s), Uncharged(r)
  PROVE  s \o r \in Seq(Ops) /\ Uncharged(s \o r)
<1> SUFFICES ASSUME NEW i \in DOMAIN (s \o r) PROVE (s \o r)[i].kind # "charge"
  BY ConcatFacts DEF Uncharged
<1>1. CASE i \in DOMAIN s
  BY <1>1, ConcatFacts DEF Uncharged
<1>2. CASE i - Len(s) \in DOMAIN r
  <2>1. (i - Len(s)) + Len(s) = i
    BY ConcatFacts
  <2> QED BY <1>2, <2>1, ConcatFacts DEF Uncharged
<1> QED BY <1>1, <1>2, ConcatFacts

LEMMA CopSyncsUncharged == CopSyncs \in Seq(Ops) /\ Uncharged(CopSyncs)
<1>1. CopSyncs \in Seq(Ops) /\ Len(CopSyncs) = Len(CopSeq)
  BY CopSyncsFacts
<1>2. DOMAIN CopSyncs = 1..Len(CopSeq)
  BY <1>1, LenProperties
<1> QED BY <1>1, <1>2, CopSyncsFacts DEF Uncharged, SyncOp

\* A charge at the head leaves no other; nor does what no charge can follow.
LEMMA TailUncharged ==
  ASSUME todo \in Seq(Ops), todo # <<>>, ChargeFirst, Head(todo).kind \notin {"sync", "frame"}
  PROVE  Uncharged(Tail(todo)) /\ (Head(todo).kind # "charge" => Uncharged(todo))
<1>1. ASSUME NEW i \in DOMAIN Tail(todo) PROVE Tail(todo)[i].kind # "charge"
  <2>1. i \in Nat \ {0} /\ i + 1 \in DOMAIN todo /\ Tail(todo)[i] = todo[i + 1] /\ Head(todo) = todo[1]
    BY TailFacts
  <2>2. 1 \in 1..((i + 1) - 1)
    BY <2>1
  <2> QED BY <2>1, <2>2 DEF ChargeFirst
<1>2. ASSUME Head(todo).kind # "charge", NEW i \in DOMAIN todo PROVE todo[i].kind # "charge"
  <2>1. Head(todo) = todo[1] /\ i \in Nat \ {0}
    BY TailFacts, LenProperties
  <2>2. CASE i = 1
    BY <1>2, <2>1, <2>2
  <2>3. CASE i # 1
    <3>1. 1 \in 1..(i - 1)
      BY <2>1, <2>3
    <3> QED BY <2>1, <3>1 DEF ChargeFirst
  <2> QED BY <2>2, <2>3
<1> QED BY <1>1, <1>2 DEF Uncharged

\* A scanline synchronizes every peer, and holds nothing but that and the frame.
LEMMA ScanlineVisits ==
  ASSUME NEW y
  PROVE  /\ ScanlineOps(y) \in Seq(Ops)
         /\ \A i \in DOMAIN ScanlineOps(y) : ScanlineOps(y)[i].kind \in {"sync", "frame"}
         /\ \A p \in Peers : \E i \in DOMAIN ScanlineOps(y) : ScanlineOps(y)[i] = SyncOp(p)
<1> DEFINE a == <<SyncOp(SMP), SyncOp(PPU)>>
           b == a \o CopSyncs
           e == IF y = vdisp THEN <<SyncOp(PPU), Plain("frame")>> ELSE <<>>
<1>0. SyncOp(SMP) \in Ops /\ SyncOp(PPU) \in Ops /\ Plain("frame") \in Ops
  BY DEF SyncOp, Plain, Ops, Peers
<1>1. /\ a \in Seq(Ops) /\ DOMAIN a = 1..2 /\ a[1] = SyncOp(SMP) /\ a[2] = SyncOp(PPU)
      /\ \A i \in DOMAIN a : a[i].kind = "sync"
  BY <1>0 DEF SyncOp
<1>2. e \in Seq(Ops) /\ \A i \in DOMAIN e : e[i].kind \in {"sync", "frame"}
  BY <1>0 DEF SyncOp, Plain
<1>3. /\ CopSyncs \in Seq(Ops) /\ DOMAIN CopSyncs = 1..Len(CopSeq)
      /\ \A i \in DOMAIN CopSyncs : CopSyncs[i].kind = "sync"
      /\ \A c \in Cops : \E i \in DOMAIN CopSyncs : CopSyncs[i] = SyncOp(c)
  <2>1. DOMAIN CopSyncs = 1..Len(CopSeq)
    BY CopSyncsFacts, LenProperties
  <2> QED BY <2>1, CopSyncsFacts DEF SyncOp
<1>4. ScanlineOps(y) = b \o e
  BY DEF ScanlineOps
<1> HIDE DEF a, e
<1>5. /\ b \in Seq(Ops) /\ \A i \in DOMAIN b : b[i].kind = "sync"
      /\ \A p \in Peers : \E i \in DOMAIN b : b[i] = SyncOp(p)
  <2>1. b \in Seq(Ops)
    BY <1>1, <1>3
  <2>2. ASSUME NEW i \in DOMAIN b PROVE b[i].kind = "sync"
    <3>1. CASE i \in DOMAIN a
      BY <1>1, <1>3, <3>1, ConcatFacts
    <3>2. CASE i - Len(a) \in DOMAIN CopSyncs
      <4>1. (i - Len(a)) + Len(a) = i
        BY <1>1, <1>3, ConcatFacts
      <4>2. b[(i - Len(a)) + Len(a)] = CopSyncs[i - Len(a)]
        BY <1>1, <1>3, <3>2, ConcatFacts
      <4> QED BY <1>3, <3>2, <4>1, <4>2
    <3> QED BY <1>1, <1>3, <3>1, <3>2, ConcatFacts
  <2>3. ASSUME NEW p \in Peers PROVE \E i \in DOMAIN b : b[i] = SyncOp(p)
    <3>1. CASE p \in {SMP, PPU}
      <4>1. PICK i \in DOMAIN a : a[i] = SyncOp(p)
        BY <1>1, <3>1
      <4> QED BY <1>1, <1>3, <4>1, ConcatFacts
    <3>2. CASE p \in Cops
      <4>1. PICK i \in DOMAIN CopSyncs : CopSyncs[i] = SyncOp(p)
        BY <1>3, <3>2
      <4>2. i + Len(a) \in DOMAIN b /\ b[i + Len(a)] = CopSyncs[i]
        BY <1>1, <1>3, <4>1, ConcatFacts
      <4> QED BY <4>1, <4>2
    <3> QED BY <3>1, <3>2 DEF Peers
  <2> QED BY <2>1, <2>2, <2>3
<1> HIDE DEF b
<1>6. b \o e \in Seq(Ops)
  BY <1>2, <1>5
<1>7. ASSUME NEW i \in DOMAIN (b \o e) PROVE (b \o e)[i].kind \in {"sync", "frame"}
  <2>1. CASE i \in DOMAIN b
    BY <1>2, <1>5, <2>1, ConcatFacts
  <2>2. CASE i - Len(b) \in DOMAIN e
    <3>1. (i - Len(b)) + Len(b) = i
      BY <1>2, <1>5, ConcatFacts
    <3>2. (b \o e)[(i - Len(b)) + Len(b)] = e[i - Len(b)]
      BY <1>2, <1>5, <2>2, ConcatFacts
    <3> QED BY <1>2, <2>2, <3>1, <3>2
  <2> QED BY <1>2, <1>5, <2>1, <2>2, ConcatFacts
<1>8. ASSUME NEW p \in Peers PROVE \E i \in DOMAIN (b \o e) : (b \o e)[i] = SyncOp(p)
  <2>1. PICK i \in DOMAIN b : b[i] = SyncOp(p)
    BY <1>5
  <2> QED BY <1>2, <1>5, <2>1, ConcatFacts
<1> QED BY <1>4, <1>6, <1>7, <1>8

LEMMA SmallMod ==
  ASSUME NEW a \in Nat, NEW b \in Nat \ {0}, a < b PROVE a % b = a
<1> DEFINE d == a \div b
<1>1. d \in Nat /\ a % b \in 0..(b - 1) /\ a = b * d + (a % b)
  OBVIOUS
<1> HIDE DEF d
<1>2. CASE d = 0
  BY <1>1, <1>2
<1>3. CASE d >= 1
  <2>1. b * d = b * (d - 1) + b /\ d - 1 \in Nat
    BY <1>1, <1>3
  <2>2. b * (d - 1) \in Nat
    BY <2>1
  <2> QED BY <1>1, <2>1, <2>2
<1> QED BY <1>1, <1>2, <1>3

LEMMA AppendFacts ==
  ASSUME NEW s \in Seq(Ops), NEW op \in Ops
  PROVE  /\ s \o <<op>> \in Seq(Ops) /\ Len(s) \in Nat /\ DOMAIN s = 1..Len(s)
         /\ Len(s \o <<op>>) = Len(s) + 1 /\ DOMAIN (s \o <<op>>) = 1..(Len(s) + 1)
         /\ (s \o <<op>>)[Len(s) + 1] = op
         /\ \A i \in 1..Len(s) : (s \o <<op>>)[i] = s[i]
<1> DEFINE t == <<op>>
<1>1. t \in Seq(Ops) /\ Len(t) = 1 /\ t[1] = op
  OBVIOUS
<1> HIDE DEF t
<1>2. /\ s \o t \in Seq(Ops) /\ Len(s \o t) = Len(s) + Len(t)
      /\ \A i \in 1..(Len(s) + Len(t)) : (s \o t)[i] = IF i <= Len(s) THEN s[i] ELSE t[i - Len(s)]
  BY <1>1, ConcatProperties
<1>3. Len(s) \in Nat /\ DOMAIN s = 1..Len(s) /\ DOMAIN (s \o t) = 1..(Len(s) + 1)
  BY <1>1, <1>2, LenProperties
<1>4. (Len(s) + 1) - Len(s) = 1 /\ ~(Len(s) + 1 <= Len(s)) /\ Len(s) + 1 \in 1..(Len(s) + Len(t))
  BY <1>1, <1>3
<1>5. (s \o t)[Len(s) + 1] = op
  BY <1>1, <1>2, <1>4
<1> QED BY <1>1, <1>2, <1>3, <1>5 DEF t

\* The only charge of s is op, behind the operations of l.
ChargedAt(s, n, l, op) ==
  /\ n \in DOMAIN s /\ s[n] = op /\ \A i \in DOMAIN s : i # n => s[i].kind # "charge"
  /\ \A i \in 1..(n - 1) : s[i] = l[i]

LEMMA ChargedConcat ==
  ASSUME NEW s \in Seq(Ops), NEW r \in Seq(Ops), NEW n, NEW l, NEW op,
         ChargedAt(s, n, l, op), Uncharged(r)
  PROVE  s \o r \in Seq(Ops) /\ ChargedAt(s \o r, n, l, op)
<1>1. /\ s \o r \in Seq(Ops) /\ n \in DOMAIN (s \o r) /\ (s \o r)[n] = op
      /\ DOMAIN s = 1..Len(s) /\ Len(s) \in Nat
  BY ConcatFacts DEF ChargedAt
<1>2. ASSUME NEW i \in DOMAIN (s \o r), i # n PROVE (s \o r)[i].kind # "charge"
  <2>1. CASE i \in DOMAIN s
    BY <1>2, <2>1, ConcatFacts DEF ChargedAt
  <2>2. CASE i - Len(s) \in DOMAIN r
    <3>1. (i - Len(s)) + Len(s) = i
      BY ConcatFacts
    <3>2. (s \o r)[(i - Len(s)) + Len(s)] = r[i - Len(s)]
      BY <2>2, ConcatFacts
    <3> QED BY <2>2, <3>1, <3>2 DEF Uncharged
  <2> QED BY <2>1, <2>2, ConcatFacts
<1>3. ASSUME NEW i \in 1..(n - 1) PROVE (s \o r)[i] = l[i]
  <2>1. i \in DOMAIN s
    BY <1>1 DEF ChargedAt
  <2> QED BY <2>1, ConcatFacts DEF ChargedAt
<1> QED BY <1>1, <1>2, <1>3 DEF ChargedAt

\* A step leaves its charge behind the scanline it reached, or leaves none while
\* nothing but the CPU advances.
LEMMA StepCharge ==
  ASSUME TypeOK, NEW q \in CpuClocks, NEW sync \in BOOLEAN, NEW rest \in Seq(Ops),
         Uncharged(rest), Step(q, sync, rest)
  PROVE  /\ clock' = Charge(Cops \ Late, q)
         /\ \/ h' = h /\ oc' = oc + q /\ Uncharged(todo')
            \/ /\ h + q < HPeriod => h' = h + q /\ oc' = Overclock
               /\ \E n \in DOMAIN todo' :
                    /\ todo'[n] = [kind |-> "charge", clocks |-> q]
                    /\ \A i \in DOMAIN todo' : i # n => todo'[i].kind # "charge"
                    /\ \A i \in 1..(n - 1) : todo'[i].kind \in {"sync", "frame"}
                    /\ ~(h + q < HPeriod) =>
                         \A p \in Peers : \E i \in 1..(n - 1) : todo'[i] = SyncOp(p)
<1> DEFINE y == (v + 1) % VPeriod
           delayed == IF sync THEN <<Plain("delayed")>> ELSE <<>>
           refresh == <<Plain("refresh")>>
           lines == IF h + q >= HPeriod THEN ScanlineOps(y) ELSE <<>>
           op == [kind |-> "charge", clocks |-> q]
           charge == <<op>>
<1>0. h \in 0..(HPeriod - 1) /\ q \in Nat /\ HPeriod \in Nat \ {0}
  BY BoundAssumption, ClockAssumption DEF TypeOK
<1>1. Plain("delayed") \in Ops /\ Plain("refresh") \in Ops /\ op \in Ops
  BY DEF Plain, Ops
<1>2. /\ delayed \in Seq(Ops) /\ refresh \in Seq(Ops) /\ charge \in Seq(Ops)
      /\ Uncharged(delayed) /\ Uncharged(refresh)
      /\ Len(charge) = 1 /\ DOMAIN charge = {1} /\ charge[1] = op
  BY <1>1 DEF Uncharged, Plain
<1>3. clock' = Charge(Cops \ Late, q)
  BY DEF Step, tickScanline
<1>4. CASE oc + q < Overclock
  <2>1. todo' = delayed \o rest /\ oc' = oc + q /\ h' = h
    BY <1>4 DEF Step, tickScanline
  <2> HIDE DEF delayed
  <2> QED BY <1>2, <1>3, <2>1, ConcatUncharged
<1>5. CASE ~(oc + q < Overclock)
  <2>1. /\ todo' = lines \o charge \o refresh \o delayed \o rest
        /\ h' = (h + q) % HPeriod
        /\ oc' = IF h + q >= HPeriod /\ y = VPeriod - 1 THEN 0 ELSE Overclock
    BY <1>5 DEF Step, tickScanline
  <2>2. h + q < HPeriod => h' = h + q /\ oc' = Overclock
    <3> SUFFICES ASSUME h + q < HPeriod PROVE h' = h + q /\ oc' = Overclock
      OBVIOUS
    <3>1. h + q \in Nat /\ HPeriod \in Nat \ {0}
      BY <1>0
    <3>2. (h + q) % HPeriod = h + q
      BY <3>1, SmallMod
    <3>3. ~(h + q >= HPeriod)
      BY <1>0
    <3> QED BY <2>1, <3>2, <3>3
  <2>3. /\ lines \in Seq(Ops)
        /\ \A i \in DOMAIN lines : lines[i].kind \in {"sync", "frame"}
        /\ ~(h + q < HPeriod) => \A p \in Peers : \E i \in DOMAIN lines : lines[i] = SyncOp(p)
    BY <1>0, ScanlineVisits
  <2> HIDE DEF lines, charge, refresh, delayed, op
  <2> DEFINE n == Len(lines) + 1
  <2>4. /\ lines \o charge \in Seq(Ops) /\ ChargedAt(lines \o charge, n, lines, op)
        /\ DOMAIN lines = 1..(n - 1)
    <3>1. charge = <<op>> /\ op \in Ops
      BY <1>1 DEF charge
    <3>2. /\ lines \o charge \in Seq(Ops) /\ Len(lines) \in Nat /\ DOMAIN lines = 1..Len(lines)
          /\ DOMAIN (lines \o charge) = 1..n /\ (lines \o charge)[n] = op
          /\ \A i \in 1..Len(lines) : (lines \o charge)[i] = lines[i]
      BY <2>3, <3>1, AppendFacts
    <3>3. ASSUME NEW i \in 1..n, i # n PROVE (lines \o charge)[i].kind # "charge"
      <4>1. i \in 1..Len(lines)
        BY <3>2, <3>3
      <4> QED BY <2>3, <3>2, <4>1
    <3> QED BY <3>2, <3>3 DEF ChargedAt
  <2>5. /\ lines \o charge \o refresh \in Seq(Ops)
        /\ ChargedAt(lines \o charge \o refresh, n, lines, op)
    BY <1>2, <2>4, ChargedConcat
  <2>6. /\ lines \o charge \o refresh \o delayed \in Seq(Ops)
        /\ ChargedAt(lines \o charge \o refresh \o delayed, n, lines, op)
    BY <1>2, <2>5, ChargedConcat
  <2>7. ChargedAt(todo', n, lines, op)
    BY <2>1, <2>6, ChargedConcat
  <2> HIDE DEF n
  <2>8. /\ n \in DOMAIN todo' /\ todo'[n] = op
        /\ \A i \in DOMAIN todo' : i # n => todo'[i].kind # "charge"
    BY <2>7 DEF ChargedAt
  <2>9. \A i \in 1..(n - 1) : todo'[i].kind \in {"sync", "frame"}
    BY <2>3, <2>4, <2>7 DEF ChargedAt
  <2>10. ~(h + q < HPeriod) => \A p \in Peers : \E i \in 1..(n - 1) : todo'[i] = SyncOp(p)
    BY <2>3, <2>4, <2>7 DEF ChargedAt
  <2> QED BY <1>3, <2>2, <2>8, <2>9, <2>10 DEF op
<1> QED BY <1>4, <1>5

LEMMA SaturateLow ==
  ASSUME NEW x \in Int, NEW b \in Nat, x >= -b PROVE Saturate(x) >= -b
BY BoundAssumption DEF Saturate

\* What a step does to the work left and to the clocks, in Run mode.
LEMMA ChargeCases ==
  ASSUME IInv, ChargeFirst, mode = "Run", [Next]_vars
  PROVE  \/ UNCHANGED <<todo, h, oc>> /\ \A p \in Peers : clock'[p] >= clock[p]
         \/ /\ Uncharged(todo) /\ Uncharged(todo') /\ UNCHANGED <<h, oc>>
            /\ \A p \in Peers : clock'[p] >= clock[p] \/ clock'[p] = 0
         \/ /\ Uncharged(todo)
            /\ \E q \in CpuClocks, sync \in BOOLEAN, rest \in Seq(Ops) :
                 Uncharged(rest) /\ Step(q, sync, rest)
         \/ /\ todo # <<>> /\ Head(todo).kind \in {"sync", "frame"} /\ todo' = Tail(todo)
            /\ UNCHANGED <<clock, h, oc>>
            /\ Head(todo).kind = "sync" => clock[Head(todo).peer] >= 0
         \/ CpuCharge
         \/ Power
<1> DEFINE Same == UNCHANGED <<todo, h, oc>> /\ \A p \in Peers : clock'[p] >= clock[p]
           Plainly2 == /\ Uncharged(todo) /\ Uncharged(todo') /\ UNCHANGED <<h, oc>>
                       /\ \A p \in Peers : clock'[p] >= clock[p] \/ clock'[p] = 0
           Front == /\ todo # <<>> /\ Head(todo).kind \in {"sync", "frame"} /\ todo' = Tail(todo)
                    /\ UNCHANGED <<clock, h, oc>>
                    /\ Head(todo).kind = "sync" => clock[Head(todo).peer] >= 0
<1>0. /\ TypeOK /\ StackShape /\ Handshake /\ todo \in Seq(Ops) /\ clock \in [Peers -> Int]
      /\ CPU \notin Peers /\ Uncharged(<<>>) /\ SMP \in Peers /\ Recreatable \subseteq Peers
  BY ClocksTyped, ThreadAssumption, CopAssumption DEF IInv, TypeOK, Uncharged, Peers
<1>1. ASSUME UNCHANGED <<todo, clock, h, oc>> PROVE Same
  BY <1>0, <1>1
<1>2. ASSUME NEW t \in Threads, SyncPoint(t) \/ BeginMain(t) \/ EndMain(t) \/ Halt(t) PROVE Same
  BY <1>1, <1>2 DEF SyncPoint, BeginMain, EndMain, Halt, cpuVars
<1>3. ASSUME NEW t \in Threads, ReturnFromResume(t) PROVE Same \/ Front
  <2>1. running = t /\ pos[t] = "sync" /\ UNCHANGED <<clock, h, oc>>
        /\ todo' = IF t = CPU THEN Tail(todo) ELSE todo
    BY <1>3 DEF ReturnFromResume
  <2>2. CASE t = CPU
    <3>1. todo # <<>> /\ Head(todo).kind = "sync"
      BY <1>0, <2>1, <2>2 DEF StackShape
    <3>2. clock[Head(todo).peer] >= 0
      BY <1>0, <2>1, <2>2 DEF Handshake
    <3> QED BY <2>1, <2>2, <3>1, <3>2
  <2> QED BY <1>1, <2>1, <2>2
<1>4. ASSUME NEW p \in Peers, PeerStep(p) PROVE Same
  <2>1. PICK q \in Quantum[p] : clock' = [clock EXCEPT ![p] = Saturate(clock[p] + q)]
    BY <1>4 DEF PeerStep
  <2>2. UNCHANGED <<todo, h, oc>>
    BY <1>4 DEF PeerStep, cpuVars
  <2>3. clock'[p] >= clock[p] /\ \A r \in Peers \ {p} : clock'[r] = clock[r]
    BY <1>0, <2>1, PeerGains
  <2>4. \A r \in Peers : clock'[r] >= clock[r]
    BY <1>0, <2>3
  <2> QED BY <2>2, <2>4
<1>5. CASE SmpIdle
  <2>1. PICK q \in Quantum[SMP] : clock' = [clock EXCEPT ![SMP] = Saturate(clock[SMP] + q)]
    BY <1>5 DEF SmpIdle
  <2>2. UNCHANGED <<todo, h, oc>>
    BY <1>5 DEF SmpIdle, cpuVars
  <2>3. clock'[SMP] >= clock[SMP] /\ \A r \in Peers \ {SMP} : clock'[r] = clock[r]
    BY <1>0, <2>1, PeerGains
  <2>4. \A r \in Peers : clock'[r] >= clock[r]
    BY <1>0, <2>3
  <2> QED BY <2>2, <2>4
<1>6. CASE SmpPort \/ SmpAccess \/ CpuFrame
  BY <1>1, <1>6 DEF SmpPort, SmpAccess, CpuFrame, cpuVars
<1>7. CASE CpuCycle
  <2>1. todo = <<>>
    BY <1>7 DEF CpuCycle, MayStep
  <2>2. Uncharged(<<Plain("bus")>>) /\ Uncharged(<<Plain("bus"), Plain("step")>>)
    BY DEF Uncharged, Plain
  <2>3. PICK q \in CpuClocks, sync \in BOOLEAN, rest \in Seq(Ops) :
          Step(q, sync, rest) /\ rest \in {<<>>, <<Plain("bus")>>, <<Plain("bus"), Plain("step")>>}
    BY <1>0, <1>7, <2>1, StepCases
  <2> QED BY <1>0, <2>1, <2>2, <2>3
<1>8. CASE CpuRefresh \/ CpuTail
  <2>1. todo # <<>> /\ Head(todo).kind \in {"refresh", "step"}
    BY <1>8 DEF CpuRefresh, CpuTail, Doing
  <2>2. Uncharged(todo) /\ Uncharged(Tail(todo)) /\ Tail(todo) \in Seq(Ops)
    BY <1>0, <2>1, TailUncharged, TailFacts
  <2>3. CASE \E q \in CpuClocks : Step(q, FALSE, Tail(todo))
    BY <2>2, <2>3
  <2>4. CASE todo' = Tail(todo) /\ UNCHANGED <<ops, clock, h, v, oc, vdisp>>
    BY <1>0, <2>2, <2>4
  <2> QED BY <1>8, <2>3, <2>4 DEF CpuRefresh, CpuTail
<1>9. CASE CpuBusAccess \/ CpuRecreate \/ CpuDelayed \/ CpuAccess
  <2>1. todo # <<>> /\ Head(todo).kind \in {"bus", "delayed", "access"} /\ UNCHANGED <<h, oc>>
    BY <1>9 DEF CpuBusAccess, CpuRecreate, CpuDelayed, CpuAccess, Doing
  <2>2. Uncharged(todo) /\ Uncharged(Tail(todo)) /\ Tail(todo) \in Seq(Ops)
    BY <1>0, <2>1, TailUncharged, TailFacts
  <2>3. \A p \in Peers : clock'[p] >= clock[p] \/ clock'[p] = 0
    <3>1. CASE clock' = clock
      BY <1>0, <3>1
    <3>2. ASSUME NEW c \in Recreatable, clock' = [clock EXCEPT ![c] = 0]
          PROVE  \A p \in Peers : clock'[p] >= clock[p] \/ clock'[p] = 0
      BY <1>0, <3>2
    <3> QED BY <1>9, <3>1, <3>2 DEF CpuBusAccess, CpuRecreate, CpuDelayed, CpuAccess
  <2>4. Uncharged(todo')
    <3>1. CASE CpuRecreate \/ CpuAccess
      BY <2>2, <3>1 DEF CpuRecreate, CpuAccess
    <3>2. CASE CpuDelayed
      BY <2>2, <3>2, CopSyncsUncharged, ConcatUncharged DEF CpuDelayed
    <3>3. CASE CpuBusAccess
      <4>1. PICK io \in {<<>>, <<SyncOp(SMP), Plain("access")>>, <<SyncOp(PPU)>>, CopSyncs} :
              todo' = io \o Tail(todo)
        BY <3>3 DEF CpuBusAccess
      <4>2. SyncOp(SMP) \in Ops /\ SyncOp(PPU) \in Ops /\ Plain("access") \in Ops
        BY DEF SyncOp, Plain, Ops, Peers
      <4>3. /\ <<SyncOp(SMP), Plain("access")>> \in Seq(Ops)
            /\ <<SyncOp(PPU)>> \in Seq(Ops) /\ Uncharged(<<SyncOp(PPU)>>)
            /\ Uncharged(<<SyncOp(SMP), Plain("access")>>)
            /\ <<>> \in Seq(Ops) /\ Uncharged(<<>>)
        BY <4>2 DEF Uncharged, SyncOp, Plain
      <4>4. io \in Seq(Ops) /\ Uncharged(io)
        BY Zenon, <4>1, <4>3, CopSyncsUncharged
      <4> QED BY <2>2, <4>1, <4>4, ConcatUncharged
    <3> QED BY <1>9, <3>1, <3>2, <3>3
  <2> QED BY <2>1, <2>2, <2>3, <2>4
<1>10. CASE CpuSync
  <2>1. todo # <<>> /\ Head(todo).kind = "sync" /\ UNCHANGED <<clock, h, oc>>
    BY <1>10 DEF CpuSync, Doing
  <2>2. CASE clock[Head(todo).peer] < 0
    BY <1>1, <1>10, <2>1, <2>2 DEF CpuSync
  <2>3. CASE ~(clock[Head(todo).peer] < 0)
    <3>1. Head(todo).peer \in Peers
      <4>1. Head(todo) \in Ops
        BY <1>0, <2>1
      <4> QED BY <2>1, <4>1 DEF Ops
    <3>2. clock[Head(todo).peer] >= 0 /\ todo' = Tail(todo)
      BY <1>0, <1>10, <2>3, <3>1 DEF CpuSync
    <3> QED BY <2>1, <3>2
  <2> QED BY <2>2, <2>3
<1>11. CASE CpuAfterFrame
  <2>1. todo # <<>> /\ Head(todo).kind = "frame"
    BY <1>0, <1>11 DEF CpuAfterFrame, StackShape
  <2> QED BY <1>11, <2>1 DEF CpuAfterFrame
<1>12. CASE \/ FrameEvent \/ CheatWrite \/ FrameEventEnd \/ Cheats \/ CheatsReturn
            \/ RunReturn \/ SaveReturn \/ Run
            \/ RunToSave \/ SaveContinue \/ SaveRestart \/ SaveNext
  BY <1>1, <1>12 DEF FrameEvent, CheatWrite, FrameEventEnd, Cheats, CheatsReturn, RunReturn,
               SaveReturn, Run, RunToSave,
               SaveContinue, SaveRestart, SaveNext, Reenter, stackVars, cpuVars
<1>13. CASE UNCHANGED vars
  BY <1>1, <1>13 DEF vars, cpuVars
<1> QED
  BY <1>2, <1>3, <1>4, <1>5, <1>6, <1>7, <1>8, <1>9, <1>10, <1>11, <1>12, <1>13, NextCases

LEMMA RoomFacts ==
  ASSUME TypeOK, NEW p \in Peers
  PROVE  /\ Room(p) \in Nat /\ Lag(p) \in Nat /\ Room(p) <= Lag(p) /\ h \in Nat /\ oc \in Nat
         /\ Early(p) => Room(p) = h + oc /\ Room(p) + Longest(CpuClocks) <= Lag(p)
         /\ ~Early(p) => Room(p) = h + Longest(CpuClocks) /\ (p \in {SMP, PPU} \cup Late)
         /\ p \in {SMP, PPU} \cup Late => ~Early(p)
<1>1. /\ Longest(CpuClocks) \in Nat /\ h \in 0..(HPeriod - 1) /\ oc \in 0..Overclock
      /\ HPeriod \in Nat \ {0} /\ Overclock \in Nat
  BY LongestFacts, BoundAssumption, ClockAssumption DEF TypeOK
<1>2. /\ ~Early(p) => (p \in {SMP, PPU} \cup Late)
      /\ p \in {SMP, PPU} \cup Late => ~Early(p)
  BY ThreadAssumption DEF Early, Peers
<1> QED BY <1>1, <1>2 DEF Room, Lag

\* Where the machine starts, nothing is owed.
LEMMA NothingOwed ==
  ASSUME TypeOK, \A p \in Peers : clock[p] = 0, todo = <<>>
  PROVE  ChargeFirst /\ Behind
<1>1. ASSUME NEW p \in Peers PROVE clock[p] >= -Lag(p) /\ clock[p] >= -Room(p)
  BY RoomFacts
<1> QED BY <1>1 DEF ChargeFirst, Behind, Lag

\* Every step keeps a peer within its room, or about to be synchronized.
LEMMA NextBehind ==
  ASSUME IInv, ChargeFirst, Behind, mode = "Run", [Next]_vars
  PROVE  ChargeFirst' /\ Behind'
<1> DEFINE C == Longest(CpuClocks)
<1>0. /\ TypeOK /\ TypeOK' /\ todo \in Seq(Ops) /\ clock \in [Peers -> Int]
      /\ clock' \in [Peers -> Int] /\ C \in Nat
  <2>1. TypeOK /\ TypeOK' /\ C \in Nat
    BY NextType, LongestFacts DEF IInv
  <2>2. ClockCap \in Nat
    BY BoundAssumption
  <2>3. clock \in [Peers -> Int] /\ clock' \in [Peers -> Int]
    <3>1. clock \in [Peers -> -ClockCap..ClockCap] /\ clock' \in [Peers -> -ClockCap..ClockCap]
      BY <2>1 DEF TypeOK
    <3> QED BY <2>2, <3>1
  <2> QED BY <2>1, <2>3 DEF TypeOK
<1>1. \A p \in Peers :
        /\ Room(p) \in Nat /\ Room(p)' \in Nat /\ Lag(p) \in Nat /\ Lag(p)' = Lag(p)
        /\ Room(p) <= Lag(p) /\ Room(p)' <= Lag(p)
        /\ clock[p] >= -Lag(p) /\ (Uncharged(todo) => clock[p] >= -Room(p))
  <2>1. ASSUME NEW p \in Peers PROVE Room(p)' \in Nat /\ Room(p)' <= Lag(p)' /\ Lag(p)' = Lag(p)
    <3>1. Lag(p)' = Lag(p) /\ (Early(p))' = Early(p)
      BY DEF Lag, Early
    <3>2. /\ h' \in Nat /\ h' <= HPeriod - 1 /\ oc' \in Nat /\ oc' <= Overclock
          /\ HPeriod \in Nat /\ Overclock \in Nat /\ C \in Nat
      <4>1. h' \in 0..(HPeriod - 1) /\ oc' \in 0..Overclock /\ HPeriod \in Nat /\ Overclock \in Nat
        BY <1>0, BoundAssumption, ClockAssumption DEF TypeOK
      <4> QED BY <1>0, <4>1
    <3>3. CASE Early(p)
      <4>1. Room(p)' = h' + oc' /\ Lag(p) = HPeriod - 1 + C + Overclock
        BY <3>1, <3>3 DEF Room, Lag
      <4>2. h' + oc' \in Nat /\ h' + oc' <= HPeriod - 1 + C + Overclock
        <5>1. ASSUME NEW a \in Nat, NEW b \in Nat, NEW c \in Nat, NEW d \in Nat, NEW e \in Nat,
                     a <= c - 1, b <= d
              PROVE  a + b \in Nat /\ a + b <= c - 1 + e + d
          BY <5>1
        <5> QED BY <3>2, <5>1
      <4> QED BY <3>1, <4>1, <4>2
    <3>4. CASE ~Early(p)
      <4>1. Room(p)' = h' + C /\ Lag(p) = HPeriod - 1 + C + 0
        BY <3>1, <3>4 DEF Room, Lag
      <4> QED BY <3>1, <3>2, <4>1
    <3> QED BY <3>3, <3>4
  <2> QED BY <1>0, <2>1, RoomFacts DEF Behind, Lag, Uncharged
<1>2. CASE UNCHANGED <<todo, h, oc>> /\ \A p \in Peers : clock'[p] >= clock[p]
  <2>1. ChargeFirst'
    BY <1>2 DEF ChargeFirst
  <2>2. ASSUME NEW p \in Peers
        PROVE  /\ clock'[p] >= clock[p] /\ clock'[p] \in Int /\ clock[p] \in Int
               /\ Room(p)' = Room(p) /\ Room(p) \in Nat
    BY <1>0, <1>1, <1>2 DEF Room, Early
  <2>3. ASSUME NEW p \in Peers, NEW i \in DOMAIN todo, todo[i].kind = "charge"
        PROVE  \/ clock'[p] - Owes(p, todo[i]) >= -Room(p)
               \/ \E j \in 1..(i - 1) : todo[j] = SyncOp(p)
    <3>1. Owes(p, todo[i]) \in Int
      <4>1. todo[i] \in Ops
        BY <1>0, LenProperties
      <4>2. todo[i].clocks \in Nat
        BY <2>3, <4>1, ClockAssumption DEF Ops
      <4> QED BY <4>2 DEF Owes
    <3>2. \/ clock[p] - Owes(p, todo[i]) >= -Room(p)
          \/ \E j \in 1..(i - 1) : todo[j] = SyncOp(p)
      BY <2>3 DEF Behind
    <3> QED BY <2>2, <3>1, <3>2
  <2>4. ASSUME NEW p \in Peers
        PROVE  clock'[p] >= -Lag(p) /\ (Uncharged(todo) => clock'[p] >= -Room(p))
    BY <1>1, <2>2
  <2> QED BY <1>2, <2>1, <2>2, <2>3, <2>4 DEF Behind, Lag, Uncharged, Owes, Early
<1>3. ASSUME Uncharged(todo'), \A p \in Peers : clock'[p] >= -Room(p)'
      PROVE  ChargeFirst' /\ Behind'
  <2>1. \A p \in Peers : clock'[p] >= -Lag(p)
    BY <1>0, <1>1, <1>3
  <2> QED BY <1>3, <2>1 DEF ChargeFirst, Behind, Lag, Uncharged, Early
<1>4. CASE /\ Uncharged(todo) /\ Uncharged(todo') /\ UNCHANGED <<h, oc>>
           /\ \A p \in Peers : clock'[p] >= clock[p] \/ clock'[p] = 0
  <2>1. ASSUME NEW p \in Peers PROVE clock'[p] >= -Room(p)'
    <3>1. Room(p)' = Room(p)
      BY <1>4 DEF Room, Early
    <3>2. Room(p) \in Nat /\ clock[p] >= -Room(p) /\ clock[p] \in Int /\ clock'[p] \in Int
      BY <1>0, <1>1, <1>4
    <3> QED BY <1>4, <3>1, <3>2
  <2> QED BY <1>3, <1>4, <2>1
<1>5. ASSUME NEW q \in CpuClocks, NEW sync \in BOOLEAN, NEW rest \in Seq(Ops), Uncharged(todo),
             Uncharged(rest), Step(q, sync, rest)
      PROVE  ChargeFirst' /\ Behind'
  <2>0. q \in Nat /\ q <= C
    BY LongestFacts
  <2>1. clock' = Charge(Cops \ Late, q)
    BY <1>0, <1>5, StepCharge
  <2>2. ASSUME NEW p \in Peers
        PROVE  clock'[p] >= -(Room(p) + IF Early(p) THEN q ELSE 0)
    <3>1. clock[p] >= -Room(p) /\ Room(p) \in Nat /\ clock[p] \in Int
      BY <1>0, <1>1, <1>5
    <3>2. Early(p) <=> p \in Cops \ Late
      BY DEF Early
    <3>3. CASE Early(p)
      <4>1. clock[p] - q >= -(Room(p) + q) /\ Room(p) + q \in Nat /\ clock[p] - q \in Int
        BY <2>0, <3>1
      <4>2. clock'[p] = Saturate(clock[p] - q)
        BY <2>1, <3>2, <3>3 DEF Charge
      <4>3. Saturate(clock[p] - q) >= -(Room(p) + q)
        BY <4>1, SaturateLow
      <4> QED BY <3>3, <4>2, <4>3
    <3>4. CASE ~Early(p)
      <4>1. clock'[p] = clock[p]
        BY <2>1, <3>2, <3>4 DEF Charge
      <4> QED BY <3>1, <3>4, <4>1
    <3> QED BY <3>3, <3>4
  <2>3. CASE h' = h /\ oc' = oc + q /\ Uncharged(todo')
    <3>1. ASSUME NEW p \in Peers PROVE clock'[p] >= -Room(p)'
      <4>1. Room(p)' = Room(p) + IF Early(p) THEN q ELSE 0
        <5>1. h \in Nat /\ oc \in Nat /\ (Early(p))' = Early(p)
          BY <1>0, RoomFacts DEF Early
        <5>2. CASE Early(p)
          <6>1. Room(p) = h + oc /\ Room(p)' = h' + oc'
            BY <5>1, <5>2 DEF Room
          <6> QED BY <2>0, <2>3, <5>1, <5>2, <6>1
        <5>3. CASE ~Early(p)
          <6>1. Room(p) = h + C /\ Room(p)' = h' + C
            BY <5>1, <5>3 DEF Room
          <6> QED BY <1>0, <2>3, <5>1, <5>3, <6>1
        <5> QED BY <5>2, <5>3
      <4> QED BY <2>2, <4>1
    <3> QED BY <1>3, <2>3, <3>1
  <2>4. ASSUME h + q < HPeriod => h' = h + q /\ oc' = Overclock,
               NEW n \in DOMAIN todo',
               todo'[n] = [kind |-> "charge", clocks |-> q],
               \A i \in DOMAIN todo' : i # n => todo'[i].kind # "charge",
               \A i \in 1..(n - 1) : todo'[i].kind \in {"sync", "frame"},
               ~(h + q < HPeriod) => \A p \in Peers : \E i \in 1..(n - 1) : todo'[i] = SyncOp(p)
        PROVE  ChargeFirst' /\ Behind'
    <3>1. ChargeFirst'
      BY <2>4 DEF ChargeFirst
    <3>2. ASSUME NEW p \in Peers PROVE clock'[p] >= -Lag(p)
      <4>1. /\ Room(p) \in Nat /\ Room(p) <= Lag(p) /\ Lag(p) \in Nat /\ clock'[p] \in Int
            /\ Early(p) => Room(p) + C <= Lag(p)
        BY <1>0, <1>1, RoomFacts
      <4> QED BY <1>0, <2>0, <2>2, <4>1
    <3>3. ~Uncharged(todo')
      BY <2>4 DEF Uncharged
    <3>4. ASSUME NEW p \in Peers
          PROVE  \/ clock'[p] - Owes(p, todo'[n]) >= -Room(p)'
                 \/ \E j \in 1..(n - 1) : todo'[j] = SyncOp(p)
      <4>1. CASE ~(h + q < HPeriod)
        BY <2>4, <4>1
      <4>2. CASE h + q < HPeriod
        <5>1. h' = h + q /\ oc' = Overclock /\ oc \in 0..Overclock /\ h \in Nat /\ Overclock \in Nat
          BY <1>0, <2>4, <4>2, ClockAssumption, RoomFacts DEF TypeOK
        <5>2. Owes(p, todo'[n]) = IF Early(p) THEN 0 ELSE q
          BY <2>4 DEF Owes
        <5>3. CASE Early(p)
          <6>1. Room(p) = h + oc /\ Room(p)' = h' + oc'
            BY <5>3 DEF Room, Early
          <6> QED BY <1>0, <2>0, <2>2, <5>1, <5>2, <5>3, <6>1
        <5>4. CASE ~Early(p)
          <6>1. Room(p) = h + C /\ Room(p)' = h' + C
            BY <5>4 DEF Room, Early
          <6> QED BY <1>0, <2>0, <2>2, <5>1, <5>2, <5>4, <6>1
        <5> QED BY <5>3, <5>4
      <4> QED BY <4>1, <4>2
    <3> QED BY <2>4, <3>1, <3>2, <3>3, <3>4 DEF Behind, Lag, Uncharged, Early, Owes
  <2>5. \/ h' = h /\ oc' = oc + q /\ Uncharged(todo')
        \/ /\ h + q < HPeriod => h' = h + q /\ oc' = Overclock
           /\ \E n \in DOMAIN todo' :
                /\ todo'[n] = [kind |-> "charge", clocks |-> q]
                /\ \A i \in DOMAIN todo' : i # n => todo'[i].kind # "charge"
                /\ \A i \in 1..(n - 1) : todo'[i].kind \in {"sync", "frame"}
                /\ ~(h + q < HPeriod) =>
                     \A p \in Peers : \E i \in 1..(n - 1) : todo'[i] = SyncOp(p)
    BY <1>0, <1>5, StepCharge
  <2> QED BY <2>3, <2>4, <2>5
<1>6. CASE /\ todo # <<>> /\ Head(todo).kind \in {"sync", "frame"} /\ todo' = Tail(todo)
           /\ UNCHANGED <<clock, h, oc>>
           /\ Head(todo).kind = "sync" => clock[Head(todo).peer] >= 0
  <2>0. /\ Tail(todo) \in Seq(Ops) /\ DOMAIN Tail(todo) = 1..Len(Tail(todo)) /\ Len(Tail(todo)) \in Nat
        /\ \A i \in DOMAIN Tail(todo) : i \in Nat \ {0} /\ i + 1 \in DOMAIN todo /\ Tail(todo)[i] = todo[i + 1]
    BY <1>0, <1>6, TailFacts, LenProperties
  <2>1. ChargeFirst'
    <3> SUFFICES ASSUME NEW i \in DOMAIN Tail(todo), Tail(todo)[i].kind = "charge", NEW j \in 1..(i - 1)
                 PROVE  Tail(todo)[j].kind \in {"sync", "frame"}
      BY <1>6 DEF ChargeFirst
    <3>1. j \in DOMAIN Tail(todo) /\ j + 1 \in 1..((i + 1) - 1)
      BY <2>0
    <3> QED BY <2>0, <3>1 DEF ChargeFirst
  <2>2. ASSUME NEW p \in Peers PROVE Room(p)' = Room(p) /\ clock'[p] = clock[p]
    BY <1>6 DEF Room, Early
  <2>3. Uncharged(Tail(todo)) => Uncharged(todo)
    <3> SUFFICES ASSUME Uncharged(Tail(todo)), NEW i \in DOMAIN todo PROVE todo[i].kind # "charge"
      BY DEF Uncharged
    <3>1. CASE i = 1
      BY <1>0, <1>6, <3>1, TailFacts
    <3>2. CASE i # 1
      <4>1. /\ Len(todo) \in Nat /\ DOMAIN todo = 1..Len(todo) /\ Len(Tail(todo)) = Len(todo) - 1
        BY <1>0, <1>6, LenProperties, HeadTailProperties
      <4>2. i - 1 \in DOMAIN Tail(todo) /\ (i - 1) + 1 = i
        BY <2>0, <3>2, <4>1
      <4> QED BY <2>0, <4>2 DEF Uncharged
    <3> QED BY <3>1, <3>2
  <2>4. ASSUME NEW p \in Peers, NEW i \in DOMAIN Tail(todo), Tail(todo)[i].kind = "charge"
        PROVE  \/ clock[p] - Owes(p, Tail(todo)[i]) >= -Room(p)
               \/ \E j \in 1..(i - 1) : Tail(todo)[j] = SyncOp(p)
    <3>1. /\ i \in Nat \ {0} /\ i + 1 \in DOMAIN todo /\ Tail(todo)[i] = todo[i + 1]
      BY <2>0
    <3>2. \/ clock[p] - Owes(p, Tail(todo)[i]) >= -Room(p)
          \/ \E j \in 1..((i + 1) - 1) : todo[j] = SyncOp(p)
      BY <2>4, <3>1 DEF Behind
    <3>3. ASSUME NEW j \in 1..((i + 1) - 1), todo[j] = SyncOp(p)
          PROVE  \/ clock[p] - Owes(p, Tail(todo)[i]) >= -Room(p)
                 \/ \E k \in 1..(i - 1) : Tail(todo)[k] = SyncOp(p)
      <4>1. CASE j = 1
        <5>1. clock[p] >= 0
          BY <1>0, <1>6, <3>3, <4>1, TailFacts DEF SyncOp
        <5>2. Owes(p, Tail(todo)[i]) \in Nat /\ Owes(p, Tail(todo)[i]) <= Room(p)
          <6>1. Tail(todo)[i] \in Ops
            BY <2>0
          <6>2. Tail(todo)[i].clocks \in CpuClocks
            BY <2>4, <6>1 DEF Ops
          <6>3. Tail(todo)[i].clocks \in Nat /\ Tail(todo)[i].clocks <= C
            BY <6>2, LongestFacts
          <6>4. CASE Early(p)
            BY <1>1, <6>4 DEF Owes
          <6>5. CASE ~Early(p)
            BY <1>0, <6>3, <6>5, RoomFacts DEF Owes
          <6> QED BY <6>4, <6>5
        <5> QED BY <1>0, <1>1, <5>1, <5>2
      <4>2. CASE j # 1
        <5>1. j - 1 \in 1..(i - 1) /\ j - 1 \in DOMAIN Tail(todo) /\ (j - 1) + 1 = j
          BY <2>0, <3>1, <4>2
        <5> QED BY <2>0, <3>3, <5>1
      <4> QED BY <4>1, <4>2
    <3> QED BY <3>2, <3>3
  <2> QED BY <1>1, <1>6, <2>1, <2>2, <2>3, <2>4 DEF Behind, Lag, Uncharged, Early, Owes
<1>7. CASE CpuCharge
  <2>1. /\ todo # <<>> /\ Head(todo).kind = "charge" /\ todo' = Tail(todo)
        /\ clock' = Charge({SMP, PPU} \cup Late, Head(todo).clocks) /\ UNCHANGED <<h, oc>>
    BY <1>7 DEF CpuCharge, Doing
  <2>2. Uncharged(todo')
    BY <1>0, <2>1, TailUncharged
  <2>3. /\ 1 \in DOMAIN todo /\ Head(todo) = todo[1] /\ todo[1] \in Ops /\ 1..(1 - 1) = {}
    BY <1>0, <2>1, TailFacts
  <2>4. todo[1].clocks \in Nat
    BY <2>1, <2>3, ClockAssumption DEF Ops
  <2>5. ASSUME NEW p \in Peers PROVE clock'[p] >= -Room(p)'
    <3>1. Room(p)' = Room(p) /\ Room(p) \in Nat /\ clock[p] \in Int
      BY <1>0, <1>1, <2>1 DEF Room, Early
    <3>2. clock[p] - Owes(p, todo[1]) >= -Room(p)
      BY <2>1, <2>3 DEF Behind
    <3>3. CASE Early(p)
      <4>1. p \notin {SMP, PPU} \cup Late
        BY <1>0, <3>3, RoomFacts
      <4>2. clock'[p] = clock[p]
        BY <2>1, <4>1 DEF Charge
      <4> QED BY <3>1, <3>2, <3>3, <4>2 DEF Owes
    <3>4. CASE ~Early(p)
      <4>1. p \in {SMP, PPU} \cup Late
        BY <1>0, <3>4, RoomFacts
      <4>2. clock'[p] = Saturate(clock[p] - todo[1].clocks)
        BY <2>1, <2>3, <4>1 DEF Charge
      <4>3. clock[p] - todo[1].clocks >= -Room(p) /\ clock[p] - todo[1].clocks \in Int
        BY <2>4, <3>1, <3>2, <3>4 DEF Owes
      <4> QED BY <3>1, <4>2, <4>3, SaturateLow
    <3> QED BY <3>3, <3>4
  <2> QED BY <1>3, <2>2, <2>5
<1>8. CASE Power
  <2>1. Uncharged(todo') /\ \A p \in Peers : clock'[p] = 0
    BY <1>8 DEF Power, Uncharged
  <2>2. \A p \in Peers : clock'[p] >= -Room(p)'
    BY <1>1, <2>1
  <2> QED BY <1>3, <2>1, <2>2
<1> QED BY <1>2, <1>4, <1>5, <1>6, <1>7, <1>8, ChargeCases

-----------------------------------------------------------------------------
(* How far a peer may be ahead of the CPU. *)

\* Each operation may gain one of the SMP's longest steps.
LEMMA GainedFacts ==
  /\ Slack \in Nat /\ SmpOps \in Nat /\ SmpOps >= 2 /\ MainOps[SMP] \in Nat /\ MainOps[SMP] <= SmpOps
  /\ \A n \in Nat : /\ Gained(n) \in Nat /\ Slack <= Gained(n)
                    /\ Gained(n + 1) = Gained(n) + Longest(Quantum[SMP])
  /\ \A m, n \in Nat : m <= n => Gained(m) <= Gained(n)
<1> DEFINE Q == Longest(Quantum[SMP])
<1>1. Slack \in Nat /\ Q \in Nat
  BY LongestFacts, ClockAssumption DEF Peers
<1>2. MainOps[SMP] \in Nat
  <2>1. MainOps \in [Threads -> 1..MaxOps] /\ SMP \in Threads
    BY BoundAssumption DEF Threads, Peers
  <2>2. MainOps[SMP] \in 1..MaxOps
    BY <2>1
  <2> QED BY <2>2
<1>3. SmpOps \in Nat /\ SmpOps >= 2 /\ MainOps[SMP] <= SmpOps
  BY <1>2 DEF SmpOps
<1>4. ASSUME NEW n \in Nat
      PROVE  Gained(n) \in Nat /\ Slack <= Gained(n) /\ Gained(n + 1) = Gained(n) + Q
  <2>1. n * Q \in Nat /\ (n + 1) * Q = n * Q + Q
    BY <1>1
  <2> QED BY <1>1, <2>1 DEF Gained
<1>5. ASSUME NEW m \in Nat, NEW n \in Nat, m <= n PROVE Gained(m) <= Gained(n)
  <2>1. n - m \in Nat /\ (n - m) * Q \in Nat /\ n * Q = m * Q + (n - m) * Q /\ m * Q \in Nat
    BY <1>1, <1>5
  <2> QED BY <1>1, <2>1 DEF Gained
<1> QED BY <1>1, <1>2, <1>3, <1>4, <1>5

\* No peer may lead by less than nothing.
LEMMA LeadFacts ==
  \A p \in Peers : Lead(p) \in Nat /\ (p # SMP => Lead(p) = Longest(Quantum[p]) - 1)
<1>1. \A p \in Peers : Longest(Quantum[p]) \in Nat \ {0}
  BY LongestFacts
<1>2. Gained(SmpOps) \in Nat
  BY GainedFacts
<1> QED BY <1>1, <1>2 DEF Lead

\* A clock that saturates does not pass a bound it keeps without.
LEMMA SaturateHigh ==
  ASSUME NEW x \in Int, NEW b \in Nat, x <= b PROVE Saturate(x) <= b
BY BoundAssumption DEF Saturate

\* In Run mode only its own steps bring a peer forward, and only the steps of
\* the SMP's thread, and power, change how much of main() it has done.
LEMMA AheadCases ==
  ASSUME IInv, mode = "Run", call' # "save", [Next]_vars
  PROVE  \/ /\ UNCHANGED <<ops[SMP], halted[SMP]>>
            /\ \A p \in Peers : clock'[p] <= clock[p] \/ clock'[p] <= 0
            /\ running' = SMP => (running = SMP /\ clock'[SMP] = clock[SMP]) \/ clock'[SMP] < 0
         \/ \E p \in Peers : PeerStep(p)
         \/ SmpIdle \/ SmpPort \/ BeginMain(SMP) \/ Halt(SMP) \/ Power
<1> DEFINE Plainly3 ==
             /\ UNCHANGED <<ops[SMP], halted[SMP]>>
             /\ \A p \in Peers : clock'[p] <= clock[p] \/ clock'[p] <= 0
             /\ running' = SMP => (running = SMP /\ clock'[SMP] = clock[SMP]) \/ clock'[SMP] < 0
<1>0. /\ TypeOK /\ TypeOK' /\ HostShape /\ Handshake /\ SMP \in Peers /\ CPU \notin Peers /\ Host \notin Threads
      /\ clock \in [Peers -> Int] /\ ops \in [Threads -> 0..MaxOps] /\ halted \in [Threads -> BOOLEAN]
      /\ call # "save" /\ SMP \in Threads /\ CPU \in Threads /\ active = CPU
  BY ClocksTyped, NextType, ThreadAssumption DEF IInv, TypeOK, Peers, Threads, HostShape, Handshake
<1>1. ASSUME UNCHANGED clock, UNCHANGED <<ops[SMP], halted[SMP]>>,
             running' = SMP => running = SMP \/ clock[SMP] < 0
      PROVE  Plainly3
  <2>1. \A p \in Peers : clock'[p] <= clock[p]
    BY <1>0, <1>1
  <2> QED BY <1>1, <2>1
<1>2. ASSUME NEW t \in Threads, SyncPoint(t) \/ EndMain(t) \/ ReturnFromResume(t) PROVE Plainly3
  <2>1. UNCHANGED <<clock, ops, halted>> /\ (running' = running \/ running' = Host)
    BY <1>2 DEF SyncPoint, EndMain, ReturnFromResume, leave, schedVars
  <2> QED BY <1>0, <1>1, <2>1
<1>3. ASSUME NEW t \in Threads \ {SMP}, BeginMain(t) \/ Halt(t) PROVE Plainly3
  <2>1. UNCHANGED <<clock, running>> /\ UNCHANGED <<ops[SMP], halted[SMP]>>
    BY <1>0, <1>3 DEF BeginMain, Halt, schedVars
  <2> QED BY <1>1, <2>1
<1>4. CASE SmpAccess \/ CpuBusAccess \/ CpuDelayed \/ CpuAccess \/ CpuFrame \/ CpuAfterFrame
  <2>1. UNCHANGED <<clock, ops, halted>> /\ (running' = running \/ running' = Host)
    BY <1>4 DEF SmpAccess, CpuBusAccess, CpuDelayed, CpuAccess, CpuFrame, CpuAfterFrame, leave, schedVars
  <2> QED BY <1>0, <1>1, <2>1
<1>5. ASSUME NEW q \in CpuClocks, NEW P, clock' = Charge(P, q), running' = running, running = CPU,
             UNCHANGED <<ops[SMP], halted[SMP]>>
      PROVE  Plainly3
  <2>1. q \in Nat
    BY ClockAssumption
  <2>2. \A p \in Peers : clock'[p] <= clock[p]
    BY <1>0, <1>5, <2>1, ChargeLowers
  <2> QED BY <1>0, <1>5, <2>2
<1>6. CASE CpuCycle
  <2>1. UNCHANGED <<ops[SMP], halted[SMP]>> /\ running' = running /\ running = CPU
    BY <1>0, <1>6 DEF CpuCycle, Count, MayStep, schedVars
  <2>2. PICK q \in CpuClocks : clock' = Charge(Cops \ Late, q)
    BY <1>6 DEF CpuCycle, Step, tickScanline
  <2> QED BY <1>5, <2>1, <2>2
<1>7. CASE CpuRefresh \/ CpuTail
  <2>1. UNCHANGED <<ops[SMP], halted[SMP]>> /\ running' = running /\ running = CPU
    BY <1>0, <1>7 DEF CpuRefresh, CpuTail, Doing, schedVars
  <2>2. clock' = clock \/ \E q \in CpuClocks : clock' = Charge(Cops \ Late, q)
    BY <1>7 DEF CpuRefresh, CpuTail, Step, tickScanline
  <2> QED BY <1>1, <1>5, <2>1, <2>2
<1>8. CASE CpuRecreate
  <2>1. PICK c \in Recreatable : clock' = [clock EXCEPT ![c] = 0] /\ ops' = [ops EXCEPT ![c] = 0]
    BY <1>8 DEF CpuRecreate
  <2>2. c \in Peers /\ c # SMP /\ running' = running /\ running = CPU /\ halted' = halted
    BY <1>8, CopAssumption, ThreadAssumption DEF CpuRecreate, Doing, schedVars, Peers
  <2>3. UNCHANGED <<ops[SMP], halted[SMP]>>
    BY <1>0, <2>1, <2>2
  <2>4. \A p \in Peers : clock'[p] <= clock[p] \/ clock'[p] <= 0
    BY <1>0, <2>1, <2>2
  <2> QED BY <1>0, <2>2, <2>3, <2>4
<1>9. CASE CpuSync
  <2>1. UNCHANGED <<clock, ops, halted>> /\ running = CPU
    BY <1>9 DEF CpuSync, Doing
  <2>2. running' = running \/ (running' = Head(todo).peer /\ clock[Head(todo).peer] < 0)
    BY <1>9 DEF CpuSync, resume, schedVars
  <2> QED BY <1>0, <1>1, <2>1, <2>2
<1>10. CASE CpuCharge
  <2>1. /\ clock' = Charge({SMP, PPU} \cup Late, Head(todo).clocks) /\ running' = running
        /\ running = CPU /\ UNCHANGED <<ops, halted>> /\ todo # <<>> /\ Head(todo).kind = "charge"
    BY <1>10 DEF CpuCharge, Doing, schedVars
  <2>2. Head(todo).clocks \in CpuClocks
    <3>1. Head(todo) \in Ops
      BY <1>0, <2>1 DEF TypeOK
    <3> QED BY <2>1, <3>1 DEF Ops
  <2> QED BY <1>5, <2>1, <2>2
<1>11. CASE FrameEvent \/ FrameEventEnd \/ RunReturn \/ SaveReturn \/ Cheats \/ CheatsReturn
  BY <1>0, <1>1, <1>11 DEF FrameEvent, FrameEventEnd, RunReturn, SaveReturn, Cheats, CheatsReturn,
                           stackVars, schedVars
<1>12. CASE CheatWrite
  <2>1. UNCHANGED <<clock, ops, halted>>
        /\ (running' = running \/ (running' = Head(writes) /\ clock[Head(writes)] < 0))
    BY <1>12 DEF CheatWrite, stackVars, resume, schedVars
  <2> QED BY <1>1, <2>1
<1>13. CASE Run
  BY <1>0, <1>1, <1>13 DEF Run, enter, stackVars
<1>14. CASE RunToSave \/ SaveContinue \/ SaveRestart \/ SaveNext
  BY <1>0, <1>14 DEF RunToSave, SaveContinue, SaveRestart, SaveNext, Entered
<1>15. CASE UNCHANGED vars
  BY <1>1, <1>15 DEF vars, schedVars
<1>16. CASE \E t \in Threads : SyncPoint(t) \/ BeginMain(t) \/ EndMain(t) \/ ReturnFromResume(t) \/ Halt(t)
  <2> HIDE DEF Plainly3
  <2>1. Plainly3 \/ BeginMain(SMP) \/ Halt(SMP)
    BY <1>2, <1>3, <1>16
  <2> QED BY <2>1 DEF Plainly3
<1> QED
  BY <1>4, <1>6, <1>7, <1>8, <1>9, <1>10, <1>11, <1>12, <1>13, <1>14, <1>15, <1>16, NextCases

\* The part of LagInv that this bound is about.
Ahead == SmpAhead /\ \A p \in Peers : clock[p] <= Lead(p)

\* Only the SMP runs ahead, and only until it has to look.
LEMMA NextAhead ==
  ASSUME IInv, RunsBehind, Ahead, mode = "Run", call' # "save", [Next]_vars PROVE Ahead'
<1> DEFINE n == IF ops[SMP] = 0 THEN SmpOps - 1 ELSE ops[SMP] - 1
           Q == Longest(Quantum[SMP])
<1>0. /\ TypeOK /\ HostShape /\ SMP \in Peers /\ SMP \in Threads /\ CPU # SMP /\ CPU \notin Peers /\ Host # SMP
      /\ clock \in [Peers -> Int] /\ clock' \in [Peers -> Int] /\ ops \in [Threads -> 0..MaxOps]
      /\ halted \in [Threads -> BOOLEAN] /\ ops[SMP] \in Nat /\ halted[SMP] \in BOOLEAN
      /\ MaxOps \in Nat
  <2>1. TypeOK /\ TypeOK'
    BY NextType DEF IInv
  <2>2. clock' \in [Peers -> -ClockCap..ClockCap] /\ ClockCap \in Nat
    BY <2>1, BoundAssumption DEF TypeOK
  <2>3. clock' \in [Peers -> Int]
    BY <2>2
  <2> QED BY <2>1, <2>3, ClocksTyped, ThreadAssumption, BoundAssumption DEF IInv, TypeOK, Peers, Threads
<1>1. /\ halted[SMP] => ops[SMP] <= 1
      /\ ops[SMP] <= SmpOps
      /\ running = SMP => clock[SMP] <= Gained(n)
      /\ \A p \in Peers : clock[p] <= Lead(p)
      /\ n \in Nat /\ n <= SmpOps - 1 /\ SmpOps \in Nat /\ SmpOps >= 2 /\ Slack \in Nat
      /\ Q \in Nat /\ Gained(n) \in Nat /\ Lead(SMP) = Gained(SmpOps)
      /\ Gained(SmpOps - 1) + Q = Gained(SmpOps) /\ Gained(n) <= Gained(SmpOps - 1)
      /\ Gained(SmpOps - 1) \in Nat /\ Gained(SmpOps) \in Nat
      /\ MainOps[SMP] <= SmpOps /\ MainOps[SMP] \in Nat
  <2>0. SmpOps \in Nat /\ SmpOps >= 2 /\ ops[SMP] <= SmpOps
    BY GainedFacts DEF Ahead, SmpAhead
  <2>1. n \in Nat /\ n <= SmpOps - 1 /\ SmpOps \in Nat /\ SmpOps >= 2 /\ ops[SMP] <= SmpOps
    BY <1>0, <2>0
  <2>5. running = SMP => clock[SMP] <= Gained(n)
    BY DEF Ahead, SmpAhead
  <2> HIDE DEF n
  <2>2. /\ Gained(n) \in Nat /\ Gained(SmpOps - 1) \in Nat /\ Gained(n) <= Gained(SmpOps - 1)
    BY <2>1, GainedFacts
  <2>3. SmpOps - 1 \in Nat /\ (SmpOps - 1) + 1 = SmpOps
    BY <2>1
  <2>4. Gained(SmpOps - 1) + Q = Gained(SmpOps) /\ Gained(SmpOps) \in Nat
    BY <2>1, <2>3, GainedFacts
  <2> QED BY <1>0, <2>1, <2>2, <2>4, <2>5, GainedFacts, LongestFacts DEF Ahead, SmpAhead, Lead, Q
<1> HIDE DEF Q
<1>2. ASSUME ops'[SMP] \in Nat, halted'[SMP] => ops'[SMP] <= 1, ops'[SMP] <= SmpOps,
             running' = SMP =>
               clock'[SMP] <= Gained(IF ops'[SMP] = 0 THEN SmpOps - 1 ELSE ops'[SMP] - 1),
             \A p \in Peers : clock'[p] <= Lead(p)
      PROVE  Ahead'
  BY <1>2 DEF Ahead, SmpAhead, SmpOps, Gained, Lead
<1>3. CASE /\ UNCHANGED <<ops[SMP], halted[SMP]>>
           /\ \A p \in Peers : clock'[p] <= clock[p] \/ clock'[p] <= 0
           /\ running' = SMP => (running = SMP /\ clock'[SMP] = clock[SMP]) \/ clock'[SMP] < 0
  <2>1. ASSUME NEW p \in Peers PROVE clock'[p] <= Lead(p)
    <3>1. clock[p] \in Int /\ clock'[p] \in Int /\ clock[p] <= Lead(p) /\ Lead(p) \in Nat
      BY <1>0, <1>1, LeadFacts
    <3>2. clock'[p] <= clock[p] \/ clock'[p] <= 0
      BY <1>3
    <3> QED BY <3>1, <3>2
  <2>2. running' = SMP => clock'[SMP] <= Gained(n)
    <3>1. clock[SMP] \in Int /\ clock'[SMP] \in Int
      BY <1>0
    <3> QED BY <1>1, <1>3, <3>1
  <2>3. n = IF ops'[SMP] = 0 THEN SmpOps - 1 ELSE ops'[SMP] - 1
    BY <1>3
  <2> HIDE DEF n
  <2> QED BY <1>0, <1>1, <1>2, <1>3, <2>1, <2>2, <2>3
<1>4. ASSUME NEW p \in Peers \ {SMP}, PeerStep(p) PROVE Ahead'
  <2>1. PICK q \in Quantum[p] :
          /\ clock' = [clock EXCEPT ![p] = Saturate(clock[p] + q)]
          /\ MustYield(p, clock[p] + q) \/ UNCHANGED schedVars
    BY <1>4 DEF PeerStep
  <2>2. /\ running = p /\ UNCHANGED halted /\ running' \in {running, CPU}
        /\ ops' = [ops EXCEPT ![p] = IF halted[p] THEN 1 ELSE @ + 1]
    BY <1>4 DEF PeerStep, MayStep, resume, schedVars
  <2>3. clock[p] < 0 /\ clock[p] \in Int
    BY <1>0, <2>2 DEF RunsBehind
  <2>4. q \in Nat /\ q <= Longest(Quantum[p]) /\ Longest(Quantum[p]) \in Nat /\ Longest(Quantum[p]) >= 1
    BY LongestFacts
  <2>5. clock'[p] <= Lead(p)
    <3>1. Saturate(clock[p] + q) <= Longest(Quantum[p]) - 1
      <4>1. clock[p] + q \in Int /\ clock[p] + q <= Longest(Quantum[p]) - 1 /\ Longest(Quantum[p]) - 1 \in Nat
        BY <2>3, <2>4
      <4> QED BY <4>1, SaturateHigh
    <3>2. clock'[p] = Saturate(clock[p] + q)
      BY <1>0, <2>1
    <3> QED BY <3>1, <3>2, LeadFacts
  <2>6. \A r \in Peers : r # p => clock'[r] = clock[r]
    BY <1>0, <2>1
  <2>7. UNCHANGED <<ops[SMP], halted[SMP]>> /\ running' # SMP
    BY <1>0, <2>2
  <2>8. \A r \in Peers : clock'[r] <= Lead(r)
    BY <1>1, <2>5, <2>6
  <2> QED BY <1>0, <1>1, <1>2, <2>7, <2>8
<1>5. ASSUME NEW q \in Quantum[SMP], clock' = [clock EXCEPT ![SMP] = Saturate(clock[SMP] + q)], running = SMP
      PROVE  /\ clock'[SMP] <= Gained(n) + Q /\ \A p \in Peers : clock'[p] <= Lead(p)
             /\ clock'[SMP] = Saturate(clock[SMP] + q) /\ clock[SMP] + q \in Int
  <2>1. q \in Nat /\ q <= Q
    BY <1>0, LongestFacts DEF Q
  <2>2. clock[SMP] \in Int /\ clock[SMP] <= Gained(n) /\ clock'[SMP] = Saturate(clock[SMP] + q)
    BY <1>0, <1>1, <1>5
  <2> HIDE DEF n
  <2>3. clock[SMP] + q \in Int /\ clock[SMP] + q <= Gained(n) + Q /\ Gained(n) + Q \in Nat
    BY <1>1, <2>1, <2>2
  <2>4. clock'[SMP] <= Gained(n) + Q
    BY <2>2, <2>3, SaturateHigh
  <2>5. clock'[SMP] <= Lead(SMP)
    <3>1. clock'[SMP] \in Int
      BY <1>0
    <3> QED BY <1>1, <2>3, <2>4, <3>1
  <2>6. \A p \in Peers : p # SMP => clock'[p] = clock[p]
    BY <1>0, <1>5
  <2>7. ASSUME NEW p \in Peers PROVE clock'[p] <= Lead(p)
    BY <1>1, <2>5, <2>6
  <2> QED BY <2>2, <2>3, <2>4, <2>7
<1>6. CASE PeerStep(SMP)
  <2>1. PICK q \in Quantum[SMP] :
          /\ clock' = [clock EXCEPT ![SMP] = Saturate(clock[SMP] + q)]
          /\ IF MustYield(SMP, clock[SMP] + q) THEN resume(CPU) ELSE UNCHANGED schedVars
    BY <1>6 DEF PeerStep
  <2>2. /\ running = SMP /\ UNCHANGED halted
        /\ ops' = [ops EXCEPT ![SMP] = IF halted[SMP] THEN 1 ELSE @ + 1]
        /\ halted[SMP] => ops[SMP] = 0
        /\ ~halted[SMP] => ops[SMP] < MainOps[SMP]
    BY <1>6 DEF PeerStep, MayStep
  <2>3. /\ ops'[SMP] = IF halted[SMP] THEN 1 ELSE ops[SMP] + 1
        /\ halted'[SMP] = halted[SMP]
    BY <1>0, <2>2
  <2>4. ops'[SMP] \in Nat /\ ops'[SMP] <= SmpOps /\ (halted'[SMP] => ops'[SMP] <= 1) /\ ops'[SMP] >= 1
    BY <1>0, <1>1, <2>2, <2>3
  <2>5. running' = SMP => clock'[SMP] <= Slack
    <3>1. CASE MustYield(SMP, clock[SMP] + q)
      BY <1>0, <2>1, <3>1 DEF resume
    <3>2. CASE ~MustYield(SMP, clock[SMP] + q)
      <4>1. clock[SMP] + q \in Int /\ clock'[SMP] = Saturate(clock[SMP] + q)
        BY <1>5, <2>1, <2>2
      <4>2. clock[SMP] + q <= Slack
        BY <1>1, <3>2, <4>1 DEF MustYield
      <4> QED BY <1>1, <4>1, <4>2, SaturateHigh
    <3> QED BY <3>1, <3>2
  <2>6. running' = SMP =>
          clock'[SMP] <= Gained(IF ops'[SMP] = 0 THEN SmpOps - 1 ELSE ops'[SMP] - 1)
    <3>1. ops'[SMP] - 1 \in Nat /\ ops'[SMP] # 0
      BY <2>4
    <3>2. Slack <= Gained(ops'[SMP] - 1) /\ Gained(ops'[SMP] - 1) \in Nat
      BY <3>1, GainedFacts
    <3>3. clock'[SMP] \in Int
      BY <1>0
    <3> QED BY <1>1, <2>5, <3>1, <3>2, <3>3
  <2> HIDE DEF n
  <2> QED BY <1>2, <1>5, <2>1, <2>2, <2>4, <2>6
<1>7. CASE SmpIdle
  <2>1. PICK q \in Quantum[SMP] : clock' = [clock EXCEPT ![SMP] = Saturate(clock[SMP] + q)]
    BY <1>7 DEF SmpIdle
  <2>2. /\ running = SMP /\ UNCHANGED halted /\ ops[SMP] > 0
        /\ ops' = [ops EXCEPT ![SMP] = IF ~halted[SMP] THEN @ + 1 ELSE 0]
        /\ ~halted[SMP] => ops[SMP] < MainOps[SMP]
    BY <1>0, <1>7 DEF SmpIdle, MayStep, Count
  <2>3. ops'[SMP] = (IF ~halted[SMP] THEN ops[SMP] + 1 ELSE 0) /\ halted'[SMP] = halted[SMP]
    BY <1>0, <2>2
  <2>4. n = ops[SMP] - 1 /\ Gained(n) + Q = Gained(ops[SMP])
    <3>1. n = ops[SMP] - 1 /\ n + 1 = ops[SMP] /\ n \in Nat
      BY <1>0, <1>1, <2>2
    <3> QED BY <3>1, GainedFacts DEF Q
  <2>5. CASE ~halted[SMP]
    <3>1. /\ ops'[SMP] \in Nat /\ ops'[SMP] # 0 /\ ops'[SMP] - 1 = ops[SMP] /\ ops'[SMP] <= SmpOps
          /\ ~halted'[SMP]
      BY <1>0, <1>1, <2>2, <2>3, <2>5
    <3>2. clock'[SMP] <= Gained(ops'[SMP] - 1) /\ \A p \in Peers : clock'[p] <= Lead(p)
      <4>1. clock'[SMP] <= Gained(n) + Q /\ \A p \in Peers : clock'[p] <= Lead(p)
        BY <1>5, <2>1, <2>2
      <4> HIDE DEF n
      <4> QED BY <2>4, <3>1, <4>1
    <3> HIDE DEF n
    <3> QED BY <1>2, <3>1, <3>2
  <2>6. CASE halted[SMP]
    <3>1. ops[SMP] = 1 /\ ops'[SMP] = 0
      BY <1>0, <1>1, <2>2, <2>3, <2>6
    <3>2. Gained(1) <= Gained(SmpOps - 1) /\ Gained(1) \in Nat
      BY <1>1, GainedFacts
    <3>3. clock'[SMP] <= Gained(SmpOps - 1)
      <4>1. clock'[SMP] <= Gained(1) /\ clock'[SMP] \in Int
        BY <1>0, <1>5, <2>1, <2>2, <2>4, <3>1
      <4> QED BY <1>1, <3>2, <4>1
    <3>4. (\A p \in Peers : clock'[p] <= Lead(p)) /\ SmpOps \in Nat
      BY <1>1, <1>5, <2>1, <2>2
    <3> HIDE DEF n
    <3>5. ops'[SMP] \in Nat /\ ops'[SMP] <= 1 /\ ops'[SMP] <= SmpOps
      BY <3>1, <3>4
    <3> QED BY <1>2, <3>1, <3>3, <3>4, <3>5
  <2> QED BY <2>5, <2>6
<1>8. CASE SmpPort
  <2>1. /\ running = SMP /\ UNCHANGED <<clock, halted>> /\ ~halted[SMP] /\ ops[SMP] > 0
        /\ ops' = [ops EXCEPT ![SMP] = @ + 1] /\ ops[SMP] < MainOps[SMP]
    BY <1>0, <1>8 DEF SmpPort, MayStep, Count
  <2>2. /\ ops'[SMP] = ops[SMP] + 1 /\ ~halted'[SMP] /\ ops'[SMP] \in Nat /\ ops'[SMP] # 0
        /\ ops'[SMP] - 1 = ops[SMP] /\ ops'[SMP] <= SmpOps /\ n + 1 = ops[SMP]
    BY <1>0, <1>1, <2>1
  <2>3. clock'[SMP] <= Gained(ops[SMP])
    <3>1. Gained(n) <= Gained(ops[SMP]) /\ Gained(ops[SMP]) \in Nat /\ clock[SMP] \in Int
      <4>1. n <= ops[SMP]
        BY <1>1, <2>2
      <4> HIDE DEF n
      <4> QED BY <1>0, <1>1, <4>1, GainedFacts
    <3>2. clock[SMP] <= Gained(n) /\ clock'[SMP] = clock[SMP]
      BY <1>1, <2>1
    <3> HIDE DEF n
    <3> QED BY <1>1, <3>1, <3>2
  <2> HIDE DEF n
  <2> QED BY <1>1, <1>2, <2>1, <2>2, <2>3
<1>9. CASE BeginMain(SMP) \/ Halt(SMP)
  <2>1. running = SMP /\ UNCHANGED clock /\ ops' = [ops EXCEPT ![SMP] = 0]
    BY <1>9 DEF BeginMain, Halt
  <2>2. ops'[SMP] = 0
    BY <1>0, <2>1
  <2>3. clock'[SMP] <= Gained(SmpOps - 1)
    <3>1. clock[SMP] \in Int /\ clock[SMP] <= Gained(n)
      BY <1>0, <1>1, <2>1
    <3> HIDE DEF n
    <3> QED BY <1>1, <2>1, <3>1
  <2> HIDE DEF n
  <2> QED BY <1>1, <1>2, <2>1, <2>2, <2>3
<1>10. CASE Power
  <2>1. ops'[SMP] = 0 /\ running' = running /\ running = Host /\ \A p \in Peers : clock'[p] = 0
    BY <1>0, <1>10 DEF Power, HostIdle
  <2>2. \A p \in Peers : clock'[p] <= Lead(p)
    BY <2>1, LeadFacts
  <2> QED BY <1>0, <1>1, <1>2, <2>1, <2>2
<1> QED
  BY <1>3, <1>4, <1>6, <1>7, <1>8, <1>9, <1>10, AheadCases

-----------------------------------------------------------------------------
(* Both bounds together. *)

LEMMA InitLag == Init => LagInv
<1> SUFFICES ASSUME Init PROVE LagInv
  OBVIOUS
<1>1. TypeOK /\ todo = <<>> /\ \A p \in Peers : clock[p] = 0
  BY InitType DEF Init
<1>2. SMP \in Threads /\ Host # SMP
  BY ThreadAssumption DEF Threads, Peers
<1>3. ops[SMP] = 0 /\ ~halted[SMP] /\ running # SMP
  BY <1>2 DEF Init
<1>4. \A p \in Peers : clock[p] <= Lead(p)
  BY <1>1, LeadFacts
<1> QED BY <1>1, <1>3, <1>4, NothingOwed, GainedFacts DEF LagInv, SmpAhead

LEMMA NextLag ==
  ASSUME IInv, NoSave, RunsBehind, LagInv, [NextRun]_vars
  PROVE  RunsBehind' /\ LagInv'
<1>1. call' # "save" /\ [Next]_vars /\ Intact /\ mode = "Run"
  BY RunKeepsCall DEF NoSave, IInv, HostShape
<1>2. RunsBehind' /\ ChargeFirst' /\ Behind'
  BY <1>1, NextRunsBehind, NextBehind DEF LagInv
<1>3. Ahead'
  BY <1>1, NextAhead DEF LagInv, Ahead
<1> QED BY <1>2, <1>3 DEF LagInv, Ahead

\* LagBounded: between two saves the CPU and its peers stay together, whatever
\* they execute (sfc/cpu/timing.cpp step and scanline, the step()s of the peers).
THEOREM StaysTogether == RunSafe => []LagBounded
<1>1. Init => LagInv /\ RunsBehind
  BY InitLag, InitVirtual
<1>2. IInv /\ NoSave /\ RunsBehind /\ LagInv /\ [NextRun]_vars => RunsBehind' /\ LagInv'
  BY NextLag
<1>3. LagInv => LagBounded
  BY DEF LagInv, Behind, LagBounded
<1> QED BY <1>1, <1>2, <1>3, RunInductive, PTL DEF RunSafe
=============================================================================
