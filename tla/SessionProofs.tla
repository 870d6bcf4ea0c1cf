--------------------------- MODULE SessionProofs ---------------------------
(***************************************************************************)
(* Proofs about Session: rewinding goes back the way the player came, and  *)
(* the renderer that runs is the one whose state the machine holds, for    *)
(* every length of the history, every frequency and all slots; and all of  *)
(* its variables keep their types.                                         *)
(***************************************************************************)
EXTENDS Session, TLAPS, SequenceTheorems

HistoryTyped == /\ history \in Seq(SUBSET Int) /\ Len(history) <= Length
                /\ machine \subseteq Int

(* RewindGoesBack does not depend on a game being loaded: Unload resets.    *)
CleanPast == clean => OwnPast

HInv == HistoryTyped /\ CleanPast

(* Between two powers the configuration does not change: unserialize() can  *)
(* choose the renderer again.                                               *)
RInv == loaded => drawn = fastPPU /\ configured = fastPPU

-----------------------------------------------------------------------------
(* Ranges of positions. *)

LEMMA ShiftRange == ASSUME NEW n \in Nat PROVE WithoutFirst(1..n) = 1..(n - 1)
<1>1. ASSUME NEW j, j \in WithoutFirst(1..n) PROVE j \in 1..(n - 1)
  <2>1. PICK i \in (1..n) \ {1} : j = i - 1
    BY <1>1 DEF WithoutFirst
  <2> QED BY <2>1
<1>2. ASSUME NEW j, j \in 1..(n - 1) PROVE j \in WithoutFirst(1..n)
  <2>1. j + 1 \in (1..n) \ {1} /\ j = (j + 1) - 1
    BY <1>2
  <2> QED BY <2>1 DEF WithoutFirst
<1> QED BY <1>1, <1>2

LEMMA DropRange == ASSUME NEW n \in Nat, NEW m \in Nat, m < n
                   PROVE  Without(1..m, n) = 1..m
<1> QED BY DEF Without

LEMMA ShiftTyped == ASSUME NEW from \in SUBSET Int
                    PROVE  WithoutFirst(from) \in SUBSET Int
<1> QED BY DEF WithoutFirst

-----------------------------------------------------------------------------
(* The ways the history changes. *)

LEMMA ResetHistory ==
  ASSUME NEW ss, rewindReset(ss) PROVE HInv'
<1>1. history' = <<>> /\ machine' = {}
  BY DEF rewindReset
<1>2. Len(history') = 0 /\ DOMAIN history' = {} /\ history' \in Seq(SUBSET Int)
  BY <1>1
<1>3. HistoryTyped'
  BY <1>1, <1>2, RewindAssumption DEF HistoryTyped
<1>4. OwnPast'
  BY <1>1, <1>2 DEF OwnPast
<1> QED BY <1>3, <1>4 DEF HInv, CleanPast

LEMMA SameHistory ==
  ASSUME HInv, UNCHANGED <<history, machine>>, clean' = clean PROVE HInv'
<1> QED BY DEF HInv, HistoryTyped, CleanPast, OwnPast

(* A movie begins: the history is no longer the machine's past. *)
LEMMA MovieHistory ==
  ASSUME HInv, UNCHANGED history, machine' = {}, clean' = FALSE PROVE HInv'
<1> QED BY DEF HInv, HistoryTyped, CleanPast

LEMMA GrowHistory ==
  ASSUME HInv, Len(history) < Length, clean' = clean,
         history' = Append(history, machine),
         machine' = machine \cup {Len(history) + 1}
  PROVE  HInv'
<1> DEFINE n == Len(history)
<1>1. history \in Seq(SUBSET Int) /\ n \in Nat /\ machine \in SUBSET Int /\ Length \in Nat
  BY RewindAssumption DEF HInv, HistoryTyped
<1>2. /\ history' \in Seq(SUBSET Int) /\ Len(history') = n + 1
      /\ DOMAIN history' = 1..(n + 1) /\ history'[n + 1] = machine
      /\ \A i \in 1..n : history'[i] = history[i]
  BY <1>1, AppendProperties, LenProperties
<1>3. HistoryTyped'
  <2>1. machine' \subseteq Int
    <3>1. Len(history) + 1 \in Int
      BY <1>1
    <3> HIDE DEF n
    <3> QED BY <3>1, <1>1
  <2>2. Len(history') <= Length
    BY <1>1, <1>2
  <2> QED BY <2>1, <2>2, <1>2 DEF HistoryTyped
<1>4. ASSUME clean' PROVE OwnPast'
  <2>1. machine = 1..n /\ \A i \in 1..n : history[i] = 1..(i - 1)
    BY <1>1, <1>4, LenProperties DEF HInv, CleanPast, OwnPast
  <2>2. machine' = 1..(n + 1)
    BY <2>1, <1>1
  <2>3. ASSUME NEW i \in 1..(n + 1) PROVE history'[i] = 1..(i - 1)
    <3>1. CASE i = n + 1
      BY <3>1, <2>1, <1>1, <1>2
    <3>2. CASE i \in 1..n
      BY <3>2, <2>1, <1>2
    <3> QED BY <3>1, <3>2, <1>1
  <2> QED BY <2>2, <2>3, <1>2 DEF OwnPast
<1> QED BY <1>3, <1>4 DEF HInv, CleanPast

(* The oldest snapshot makes room: each of the others moves down by one. *)
LEMMA SlidSnapshots ==
  ASSUME HistoryTyped, Len(history) >= Length,
         history' = Append([i \in DOMAIN Tail(history) |-> WithoutFirst(Tail(history)[i])],
                           WithoutFirst(machine))
  PROVE  /\ history' \in Seq(SUBSET Int) /\ Len(history') = Length
         /\ DOMAIN history' = 1..Length /\ history'[Length] = WithoutFirst(machine)
         /\ \A i \in 1..(Length - 1) : history'[i] = WithoutFirst(history[i + 1])
<1> DEFINE rest == Tail(history)
           moved == [i \in DOMAIN rest |-> WithoutFirst(rest[i])]
<1>1. /\ history \in Seq(SUBSET Int) /\ Len(history) = Length
      /\ Length \in Nat \ {0} /\ machine \in SUBSET Int /\ history # <<>>
  BY RewindAssumption, EmptySeq, LenProperties DEF HistoryTyped
<1>2. /\ rest \in Seq(SUBSET Int) /\ Len(rest) = Length - 1 /\ DOMAIN rest = 1..(Length - 1)
      /\ \A i \in 1..(Length - 1) : rest[i] = history[i + 1] /\ rest[i] \in SUBSET Int
  BY <1>1, HeadTailProperties, LenProperties, ElementOfSeq
<1>3. /\ moved \in Seq(SUBSET Int) /\ Len(moved) = Length - 1
      /\ \A i \in 1..(Length - 1) : moved[i] = WithoutFirst(history[i + 1])
  <2>1. moved \in [1..(Length - 1) -> SUBSET Int]
    BY <1>2, ShiftTyped
  <2>2. Length - 1 \in Nat
    BY <1>1
  <2>3. moved \in Seq(SUBSET Int)
    BY <2>1, <2>2
  <2>4. Len(moved) = Length - 1
    <3>1. moved = [i \in 1..(Length - 1) |-> WithoutFirst(rest[i])]
      BY <1>2
    <3> HIDE DEF moved, rest
    <3> QED BY <3>1, <2>2, <2>3
  <2> QED BY <2>3, <2>4, <1>2
<1> HIDE DEF moved, rest
<1>4. /\ history' \in Seq(SUBSET Int) /\ Len(history') = Length
      /\ DOMAIN history' = 1..Length /\ history'[Length] = WithoutFirst(machine)
      /\ \A i \in 1..(Length - 1) : history'[i] = WithoutFirst(history[i + 1])
  <2>1. history' = Append(moved, WithoutFirst(machine))
    BY DEF moved, rest
  <2>2. WithoutFirst(machine) \in SUBSET Int
    BY <1>1, ShiftTyped
  <2>3. /\ history' \in Seq(SUBSET Int) /\ Len(history') = Len(moved) + 1
        /\ history'[Len(moved) + 1] = WithoutFirst(machine)
        /\ \A i \in 1..Len(moved) : history'[i] = moved[i]
    <3> DEFINE new == WithoutFirst(machine)
               seq == Append(moved, new)
    <3>1. new \in SUBSET Int /\ moved \in Seq(SUBSET Int)
      BY <2>2, <1>3
    <3>2. history' = seq
      BY <2>1
    <3> HIDE DEF new
    <3>3. /\ seq \in Seq(SUBSET Int) /\ Len(seq) = Len(moved) + 1
          /\ seq[Len(moved) + 1] = new /\ \A i \in 1..Len(moved) : seq[i] = moved[i]
      BY <3>1, AppendProperties
    <3> HIDE DEF seq
    <3>4. /\ history' \in Seq(SUBSET Int) /\ Len(history') = Len(moved) + 1
          /\ history'[Len(moved) + 1] = new
          /\ \A i \in 1..Len(moved) : history'[i] = moved[i]
      BY <3>2, <3>3
    <3> QED BY <3>4 DEF new
  <2>4. Len(history') = Length
    BY <2>3, <1>1, <1>3
  <2>5. DOMAIN history' = 1..Length
    BY <2>3, <2>4, LenProperties
  <2>6. history'[Length] = WithoutFirst(machine)
    BY <2>3, <1>1, <1>3
  <2>7. \A i \in 1..(Length - 1) : history'[i] = WithoutFirst(history[i + 1])
    BY <2>3, <1>3
  <2> QED BY <2>3, <2>4, <2>5, <2>6, <2>7
<1> QED BY <1>4

(* So do all positions. *)
LEMMA SlideHistory ==
  ASSUME HInv, Len(history) >= Length, clean' = clean,
         history' = Append([i \in DOMAIN Tail(history) |-> WithoutFirst(Tail(history)[i])],
                           WithoutFirst(machine)),
         machine' = WithoutFirst(machine) \cup {Length}
  PROVE  HInv'
<1>1. /\ history \in Seq(SUBSET Int) /\ Len(history) = Length
      /\ Length \in Nat \ {0} /\ machine \in SUBSET Int
  BY RewindAssumption, LenProperties DEF HInv, HistoryTyped
<1>2. /\ history' \in Seq(SUBSET Int) /\ Len(history') = Length
      /\ DOMAIN history' = 1..Length /\ history'[Length] = WithoutFirst(machine)
      /\ \A i \in 1..(Length - 1) : history'[i] = WithoutFirst(history[i + 1])
  BY SlidSnapshots DEF HInv
<1>3. HistoryTyped'
  <2>1. machine' \subseteq Int
    BY <1>1, ShiftTyped
  <2> QED BY <2>1, <1>1, <1>2 DEF HistoryTyped
<1>4. ASSUME clean' PROVE OwnPast'
  <2>1. machine = 1..Length /\ \A i \in 1..Length : history[i] = 1..(i - 1)
    BY <1>1, <1>4, LenProperties DEF HInv, CleanPast, OwnPast
  <2>2. WithoutFirst(machine) = 1..(Length - 1)
    BY <2>1, <1>1, ShiftRange
  <2>3. machine' = 1..Length
    BY <2>2, <1>1
  <2>4. ASSUME NEW i \in 1..Length PROVE history'[i] = 1..(i - 1)
    <3>1. CASE i = Length
      BY <3>1, <2>2, <1>2
    <3>2. CASE i \in 1..(Length - 1)
      <4>1. history[i + 1] = 1..i /\ i \in Nat
        BY <3>2, <2>1, <1>1
      <4>2. WithoutFirst(history[i + 1]) = 1..(i - 1)
        BY <4>1, ShiftRange
      <4> QED BY <4>2, <3>2, <1>2
    <3> QED BY <3>1, <3>2, <1>1
  <2> QED BY <2>3, <2>4, <1>2 DEF OwnPast
<1> QED BY <1>3, <1>4 DEF HInv, CleanPast

(* takeLast(): the position that is given up disappears everywhere. *)
LEMMA ShrinkHistory ==
  ASSUME HInv, Len(history) # 0, clean' = clean,
         history' = [i \in 1..(Len(history) - 1) |-> Without(history[i], Len(history))],
         machine' = Without(history[Len(history)], Len(history))
  PROVE  HInv'
<1> DEFINE n == Len(history)
<1>1. /\ history \in Seq(SUBSET Int) /\ n \in Nat \ {0} /\ n <= Length /\ Length \in Nat
      /\ \A i \in 1..n : history[i] \in SUBSET Int
  BY RewindAssumption, LenProperties, ElementOfSeq DEF HInv, HistoryTyped
<1>2. /\ history' \in Seq(SUBSET Int) /\ Len(history') = n - 1
      /\ DOMAIN history' = 1..(n - 1)
      /\ \A i \in 1..(n - 1) : history'[i] = Without(history[i], n)
  <2>1. history' \in [1..(n - 1) -> SUBSET Int]
    BY <1>1 DEF Without
  <2>2. n - 1 \in Nat
    BY <1>1
  <2>3. history' \in Seq(SUBSET Int)
    BY <2>1, <2>2
  <2>4. Len(history') = n - 1
    BY <2>1, <2>2, <2>3, LenProperties
  <2> QED BY <2>1, <2>3, <2>4
<1>3. HistoryTyped'
  <2>1. machine' \subseteq Int
    BY <1>1 DEF Without
  <2> QED BY <2>1, <1>1, <1>2 DEF HistoryTyped
<1>4. ASSUME clean' PROVE OwnPast'
  <2>1. \A i \in 1..n : history[i] = 1..(i - 1)
    BY <1>1, <1>4, LenProperties DEF HInv, CleanPast, OwnPast
  <2>2. machine' = 1..(n - 1)
    BY <2>1, <1>1, DropRange
  <2>3. ASSUME NEW i \in 1..(n - 1) PROVE history'[i] = 1..(i - 1)
    <3>1. history[i] = 1..(i - 1) /\ i - 1 \in Nat /\ i - 1 < n
      BY <2>1, <1>1
    <3> QED BY <3>1, <1>1, <1>2, DropRange
  <2> QED BY <2>2, <2>3, <1>2 DEF OwnPast
<1> QED BY <1>3, <1>4 DEF HInv, CleanPast

-----------------------------------------------------------------------------
LEMMA InitHistory == Init => HInv
<1> SUFFICES ASSUME Init PROVE HInv OBVIOUS
<1>1. history = <<>> /\ machine = {}
  BY DEF Init
<1>2. Len(history) = 0 /\ DOMAIN history = {} /\ history \in Seq(SUBSET Int)
  BY <1>1
<1> QED BY <1>1, <1>2, RewindAssumption DEF HInv, HistoryTyped, CleanPast, OwnPast

(* rewindRun() and the frame keep the history's invariant.                  *)
LEMMA MainHistory == ASSUME HInv, Main PROVE HInv'
<1>1. CASE MainDisabled
  BY <1>1, SameHistory DEF MainDisabled
<1>2. CASE MainCount
  BY <1>2, SameHistory DEF MainCount
<1>3. CASE MainSnapshot
  <2>1. CASE Len(history) >= Length
    BY <1>3, <2>1, SlideHistory DEF MainSnapshot
  <2>2. CASE ~(Len(history) >= Length)
    <3>1. Len(history) < Length
      BY <2>2, RewindAssumption, LenProperties DEF HInv, HistoryTyped
    <3> QED BY <1>3, <2>2, <3>1, GrowHistory DEF MainSnapshot
  <2> QED BY <2>1, <2>2
<1>4. CASE MainNothingLeft
  BY <1>4, SameHistory DEF MainNothingLeft
<1>5. CASE MainWait
  BY <1>5, SameHistory DEF MainWait
<1>6. CASE MainRewind
  <2>1. CASE Len(history) = 1
    BY <1>6, <2>1, ResetHistory DEF MainRewind
  <2>2. CASE Len(history) # 1
    <3>1. Len(history) # 0
      BY <1>6, EmptySeq DEF MainRewind, HInv, HistoryTyped
    <3> QED BY <1>6, <2>2, <3>1, ShrinkHistory DEF MainRewind
  <2> QED BY <2>1, <2>2
<1> QED BY <1>1, <1>2, <1>3, <1>4, <1>5, <1>6 DEF Main

(* So do the entries of the menu ...                                        *)
LEMMA MenuHistory == ASSUME HInv, Menu PROVE HInv'
<1>1. CASE LoadGame
  BY <1>1, ResetHistory DEF LoadGame
<1>2. CASE Unload
  BY <1>2, ResetHistory DEF Unload
<1>3. CASE Restart
  BY <1>3, ResetHistory DEF Restart
<1>4. ASSUME NEW s \in UserSlots, SaveState(s) PROVE HInv'
  BY <1>4, SameHistory DEF SaveState, rewindVars
<1>5. ASSUME NEW s \in SlotNames, LoadState(s) PROVE HInv'
  <2>1. CASE slots[s].fastPPU = fastPPU
    BY <1>5, <2>1, ResetHistory DEF LoadState
  <2>2. CASE slots[s].fastPPU # fastPPU
    BY <1>5, <2>2, SameHistory DEF LoadState, rewindVars
  <2> QED BY <2>1, <2>2
<1>6. ASSUME NEW s \in SlotNames, RemoveState(s) PROVE HInv'
  BY <1>6, SameHistory DEF RemoveState, rewindVars
<1>7. CASE MoviePlay
  BY <1>7, MovieHistory DEF MoviePlay
<1>8. ASSUME NEW b \in BOOLEAN, MovieRecord(b) PROVE HInv'
  <2>1. CASE b
    BY <1>8, <2>1, MovieHistory DEF MovieRecord
  <2>2. CASE ~b
    BY <1>8, <2>2, SameHistory DEF MovieRecord
  <2> QED BY <2>1, <2>2
<1>9. CASE MovieStop
  BY <1>9, SameHistory DEF MovieStop, rewindVars
<1> QED BY <1>1, <1>2, <1>3, <1>4, <1>5, <1>6, <1>7, <1>8, <1>9 DEF Menu

(* ... and the keys.                                                        *)
LEMMA KeysHistory == ASSUME HInv, Keys PROVE HInv'
<1>1. CASE PressRewind
  BY <1>1, SameHistory DEF PressRewind
<1>2. CASE ReleaseRewind
  BY <1>2, SameHistory DEF ReleaseRewind
<1>3. CASE PressFast
  BY <1>3, SameHistory DEF PressFast, rewindVars
<1>4. CASE ReleaseFast
  BY <1>4, SameHistory DEF ReleaseFast, rewindVars
<1>5. CASE ChangeRewind
  BY <1>5, ResetHistory DEF ChangeRewind
<1> QED BY <1>1, <1>2, <1>3, <1>4, <1>5 DEF Keys

(* Every step keeps the history's invariant.                                *)
LEMMA HistoryStep == HInv /\ [Next]_vars => HInv'
<1>1. ASSUME HInv, Next PROVE HInv'
  BY <1>1, MainHistory, MenuHistory, KeysHistory DEF Next
<1>2. ASSUME HInv, UNCHANGED vars PROVE HInv'
  BY <1>2, SameHistory DEF vars, rewindVars
<1> QED BY <1>1, <1>2

\* Rewinding goes back the way the player came, for every length of the history:
\* loads, resets, settings and refused states leave nothing of another run in it.
THEOREM RewindsOwnPast == Spec => []RewindGoesBack
<1>1. HInv => RewindGoesBack
  BY DEF HInv, CleanPast, RewindGoesBack
<1> QED BY <1>1, InitHistory, HistoryStep, PTL DEF Spec

-----------------------------------------------------------------------------
(* The renderer. *)

LEMMA SameRenderer == ASSUME RInv, UNCHANGED ppuVars, UNCHANGED loaded PROVE RInv'
<1> QED BY DEF RInv, ppuVars

LEMMA PowerRenderer == ASSUME NEW c, power(c) PROVE RInv'
<1> QED BY DEF RInv, power

(* An accepted state is one of the renderer that the configuration names.   *)
LEMMA StateRenderer ==
  ASSUME RInv, loaded, NEW ppu, ppu = fastPPU, unserialize(ppu) PROVE RInv'
<1> QED BY DEF RInv, unserialize

LEMMA MainRenderer == ASSUME RInv, Main PROVE RInv'
<1>1. Frame
  BY DEF Main, MainDisabled, MainCount, MainSnapshot, MainNothingLeft, MainWait, MainRewind
<1> QED BY <1>1, SameRenderer DEF Frame

LEMMA MenuRenderer == ASSUME RInv, Menu PROVE RInv'
<1>1. CASE LoadGame
  <2>1. PICK c \in BOOLEAN, auto \in BOOLEAN :
          /\ configured' = c /\ fastPPU' = c
          /\ drawn' = IF auto /\ slots["Undo"].exists /\ slots["Undo"].fastPPU = c
                      THEN slots["Undo"].fastPPU ELSE c
    BY <1>1 DEF LoadGame
  <2>2. CASE slots["Undo"].fastPPU = c
    BY <2>1, <2>2 DEF RInv
  <2>3. CASE slots["Undo"].fastPPU # c
    BY <2>1, <2>3 DEF RInv
  <2> QED BY <2>2, <2>3
<1>2. CASE Unload
  BY <1>2 DEF Unload, RInv
<1>3. CASE Restart
  BY <1>3, PowerRenderer DEF Restart
<1>4. ASSUME NEW s \in UserSlots, SaveState(s) PROVE RInv'
  BY <1>4, SameRenderer DEF SaveState
<1>5. ASSUME NEW s \in SlotNames, LoadState(s) PROVE RInv'
  <2>1. CASE slots[s].fastPPU = fastPPU
    BY <1>5, <2>1, StateRenderer DEF LoadState
  <2>2. CASE slots[s].fastPPU # fastPPU
    BY <1>5, <2>2, SameRenderer DEF LoadState
  <2> QED BY <2>1, <2>2
<1>6. ASSUME NEW s \in SlotNames, RemoveState(s) PROVE RInv'
  BY <1>6, SameRenderer DEF RemoveState
<1>7. CASE MoviePlay
  <2>1. CASE power(configured)
    BY <2>1, PowerRenderer
  <2>2. CASE ~power(configured)
    BY <1>7, <2>2, StateRenderer DEF MoviePlay
  <2> QED BY <2>1, <2>2
<1>8. ASSUME NEW b \in BOOLEAN, MovieRecord(b) PROVE RInv'
  <2>1. CASE b
    BY <1>8, <2>1, PowerRenderer DEF MovieRecord
  <2>2. CASE ~b
    BY <1>8, <2>2, SameRenderer DEF MovieRecord
  <2> QED BY <2>1, <2>2
<1>9. CASE MovieStop
  BY <1>9, SameRenderer DEF MovieStop
<1> QED BY <1>1, <1>2, <1>3, <1>4, <1>5, <1>6, <1>7, <1>8, <1>9 DEF Menu

LEMMA KeysRenderer == ASSUME RInv, Keys PROVE RInv'
<1>1. UNCHANGED ppuVars /\ UNCHANGED loaded
  BY DEF Keys, PressRewind, ReleaseRewind, PressFast, ReleaseFast, ChangeRewind
<1> QED BY <1>1, SameRenderer

\* No order of loads, refused states, movies and restarts separates the renderer
\* that runs from the one whose state the machine holds.
THEOREM RendererKept == Spec => []RendererAgrees
<1>1. Init => RInv
  BY DEF Init, RInv
<1>2. RInv /\ [Next]_vars => RInv'
  <2>1. ASSUME RInv, Next PROVE RInv'
    BY <2>1, MainRenderer, MenuRenderer, KeysRenderer DEF Next
  <2>2. ASSUME RInv, UNCHANGED vars PROVE RInv'
    BY <2>2, SameRenderer DEF vars
  <2> QED BY <2>1, <2>2
<1>3. RInv => RendererAgrees
  BY DEF RInv, RendererAgrees
<1> QED BY <1>1, <1>2, <1>3, PTL DEF Spec

-----------------------------------------------------------------------------
(* The types.  That the history is a sequence of at most Length snapshots is *)
(* in HInv; that they, and all states, name positions in it is added here.   *)

PlacesOK ==
  /\ machine \subseteq Positions /\ slots \in [SlotNames -> States]
  /\ \A i \in DOMAIN history : history[i] \subseteq Positions
FlagsOK ==
  /\ loaded \in BOOLEAN /\ configured \in BOOLEAN /\ fastPPU \in BOOLEAN /\ drawn \in BOOLEAN
  /\ mode \in {"Playing", "Rewinding"} /\ counter \in Nat /\ frequency \in Nat
  /\ rewinding \in BOOLEAN /\ fastForwarding \in BOOLEAN
  /\ movie \in {"Inactive", "Playing", "Recording"} /\ clean \in BOOLEAN

SessionInv == HInv /\ PlacesOK /\ FlagsOK

(* A snapshot that is lost, first or last, leaves positions.               *)
LEMMA PlacesLeft ==
  ASSUME NEW from \in SUBSET Positions
  PROVE  /\ WithoutFirst(from) \in SUBSET Positions
         /\ \A n : Without(from, n) \in SUBSET Positions
<1>1. ASSUME NEW j \in WithoutFirst(from) PROVE j \in Positions
  <2>1. PICK i \in from \ {1} : j = i - 1
    BY DEF WithoutFirst
  <2> QED BY <2>1, RewindAssumption DEF Positions
<1> QED BY <1>1 DEF Without

(* What is written to a slot is a state.                                    *)
LEMMA StatesTyped ==
  /\ Empty \in States
  /\ \A m \in SUBSET Positions, ppu \in BOOLEAN : State(m, ppu) \in States
BY DEF Empty, State, States

(* So are the slots when positions move, disappear or are forgotten.        *)
LEMMA SlotsLeft ==
  ASSUME PlacesOK
  PROVE  /\ SlotsWithoutFirst \in [SlotNames -> States]
         /\ \A n : SlotsWithout(n) \in [SlotNames -> States]
         /\ \A ss \in [SlotNames -> States] : Forgotten(ss) \in [SlotNames -> States]
<1>1. ASSUME NEW ss \in [SlotNames -> States], NEW s \in SlotNames
      PROVE  /\ ss[s] \in States /\ ss[s].from \in SUBSET Positions
             /\ \A from \in SUBSET Positions : [ss[s] EXCEPT !.from = from] \in States
  BY DEF States
<1>2. slots \in [SlotNames -> States]
  BY DEF PlacesOK
<1>3. SlotsWithoutFirst \in [SlotNames -> States]
  <2> SUFFICES ASSUME NEW s \in SlotNames
               PROVE  [slots[s] EXCEPT !.from = WithoutFirst(slots[s].from)] \in States
    BY DEF SlotsWithoutFirst
  <2> QED BY <1>1, <1>2, PlacesLeft
<1>4. ASSUME NEW n PROVE SlotsWithout(n) \in [SlotNames -> States]
  <2> SUFFICES ASSUME NEW s \in SlotNames
               PROVE  [slots[s] EXCEPT !.from = Without(slots[s].from, n)] \in States
    BY DEF SlotsWithout
  <2> QED BY <1>1, <1>2, PlacesLeft
<1>5. ASSUME NEW ss \in [SlotNames -> States] PROVE Forgotten(ss) \in [SlotNames -> States]
  <2> SUFFICES ASSUME NEW s \in SlotNames PROVE [ss[s] EXCEPT !.from = {}] \in States
    BY DEF Forgotten
  <2> QED BY <1>1
<1> QED BY <1>3, <1>4, <1>5

(* After a reset there is nothing that anything was reached from.           *)
LEMMA ResetPlaces ==
  ASSUME PlacesOK, NEW ss \in [SlotNames -> States], rewindReset(ss) PROVE PlacesOK'
<1>1. slots' \in [SlotNames -> States]
  BY SlotsLeft DEF rewindReset
<1>2. machine' = {} /\ DOMAIN history' = {}
  BY DEF rewindReset
<1> QED BY <1>1, <1>2 DEF PlacesOK

(* The history stays, and the files change.                                 *)
LEMMA SamePlaces ==
  ASSUME PlacesOK, UNCHANGED <<history, machine>>, slots' \in [SlotNames -> States] PROVE PlacesOK'
BY DEF PlacesOK

(* A frame moves positions, or adds the newest.                             *)
LEMMA MainPlaces == ASSUME HInv, PlacesOK, Main PROVE PlacesOK'
<1>1. /\ history \in Seq(SUBSET Int) /\ Len(history) \in Nat /\ Len(history) <= Length
      /\ DOMAIN history = 1..Len(history) /\ Length \in Nat \ {0}
      /\ machine \in SUBSET Positions /\ slots \in [SlotNames -> States]
      /\ \A i \in 1..Len(history) : history[i] \in SUBSET Positions
  BY RewindAssumption, LenProperties DEF HInv, HistoryTyped, PlacesOK
<1>2. CASE MainDisabled \/ MainCount \/ MainNothingLeft \/ MainWait
  BY <1>1, <1>2, SamePlaces DEF MainDisabled, MainCount, MainNothingLeft, MainWait
<1>3. CASE MainSnapshot /\ Len(history) >= Length
  <2>1. /\ history' = Append([i \in DOMAIN Tail(history) |-> WithoutFirst(Tail(history)[i])],
                             WithoutFirst(machine))
        /\ machine' = WithoutFirst(machine) \cup {Length} /\ slots' = SlotsWithoutFirst
    BY <1>3 DEF MainSnapshot
  <2>2. Len(history) = Length
    BY <1>1, <1>3
  <2>3. /\ DOMAIN history' = 1..Length /\ history'[Length] = WithoutFirst(machine)
        /\ \A i \in 1..(Length - 1) : history'[i] = WithoutFirst(history[i + 1])
    BY <1>3, <2>1, SlidSnapshots DEF HInv
  <2>4. ASSUME NEW i \in 1..Length PROVE history'[i] \in SUBSET Positions
    <3>1. CASE i = Length
      BY <3>1, <1>1, <2>3, PlacesLeft
    <3>2. CASE i \in 1..(Length - 1)
      <4>1. i + 1 \in 1..Length
        BY <3>2, <1>1
      <4> QED BY <3>2, <4>1, <1>1, <2>2, <2>3, PlacesLeft
    <3> QED BY <3>1, <3>2, <1>1
  <2>5. machine' \in SUBSET Positions
    <3>1. Length \in Positions
      BY <1>1 DEF Positions
    <3> QED BY <3>1, <1>1, <2>1, PlacesLeft
  <2> QED BY <2>1, <2>3, <2>4, <2>5, SlotsLeft DEF PlacesOK
<1>4. CASE MainSnapshot /\ ~(Len(history) >= Length)
  <2>1. history' = Append(history, machine) /\ slots' = slots
        /\ machine' = machine \cup {Len(history) + 1}
    BY <1>4 DEF MainSnapshot
  <2>2. /\ DOMAIN history' = 1..(Len(history) + 1) /\ history'[Len(history) + 1] = machine
        /\ \A i \in 1..Len(history) : history'[i] = history[i]
    <3>1. machine \in SUBSET Int
      BY DEF HInv, HistoryTyped
    <3> QED BY <1>1, <2>1, <3>1, AppendProperties, LenProperties
  <2>3. ASSUME NEW i \in 1..(Len(history) + 1) PROVE history'[i] \in SUBSET Positions
    <3>1. i = Len(history) + 1 \/ i \in 1..Len(history)
      BY <1>1
    <3> QED BY <3>1, <1>1, <2>2
  <2>4. Len(history) + 1 \in Positions
    BY <1>1, <1>4 DEF Positions
  <2> QED BY <1>1, <2>1, <2>2, <2>3, <2>4 DEF PlacesOK
<1>5. CASE MainRewind /\ Len(history) = 1
  BY <1>1, <1>5, ResetPlaces DEF MainRewind
<1>6. CASE MainRewind /\ Len(history) # 1
  <2>1. /\ history' = [i \in 1..(Len(history) - 1) |-> Without(history[i], Len(history))]
        /\ machine' = Without(history[Len(history)], Len(history))
        /\ slots' = SlotsWithout(Len(history)) /\ history # <<>>
    BY <1>6 DEF MainRewind
  <2>2. Len(history) \in 1..Len(history)
    BY <1>1, <2>1, EmptySeq
  <2>3. machine' \in SUBSET Positions
    BY <1>1, <2>1, <2>2, PlacesLeft
  <2>4. ASSUME NEW i \in 1..(Len(history) - 1) PROVE history'[i] \in SUBSET Positions
    <3>1. i \in 1..Len(history)
      BY <1>1
    <3> QED BY <3>1, <1>1, <2>1, PlacesLeft
  <2>5. DOMAIN history' = 1..(Len(history) - 1)
    BY <2>1
  <2> QED BY <2>1, <2>3, <2>4, <2>5, SlotsLeft DEF PlacesOK
<1> QED BY <1>2, <1>3, <1>4, <1>5, <1>6 DEF Main

(* No menu entry brings in a position that is none: states are those of the
   machine, or from the files.                                              *)
LEMMA MenuPlaces == ASSUME PlacesOK, FlagsOK, Menu PROVE PlacesOK'
<1>1. /\ slots \in [SlotNames -> States] /\ machine \in SUBSET Positions /\ {} \in SUBSET Positions
      /\ fastPPU \in BOOLEAN
  BY DEF PlacesOK, FlagsOK
<1>2. ASSUME NEW s \in SlotNames, NEW state \in States
      PROVE  [slots EXCEPT ![s] = state] \in [SlotNames -> States]
  BY <1>1
<1>3. "Undo" \in SlotNames /\ "Redo" \in SlotNames
  BY DEF SlotNames
<1>4. CASE LoadGame
  <2>1. PICK c \in BOOLEAN, auto \in BOOLEAN, written \in BOOLEAN :
          rewindReset(IF auto /\ slots["Undo"].exists /\ written
                      THEN [slots EXCEPT !["Redo"] = State({}, c)] ELSE slots)
    BY <1>4 DEF LoadGame
  <2>2. State({}, c) \in States
    BY <1>1, StatesTyped
  <2>3. [slots EXCEPT !["Redo"] = State({}, c)] \in [SlotNames -> States]
    BY <1>2, <1>3, <2>2
  <2>4. CASE auto /\ slots["Undo"].exists /\ written
    BY <2>1, <2>3, <2>4, ResetPlaces
  <2>5. CASE ~(auto /\ slots["Undo"].exists /\ written)
    BY <1>1, <2>1, <2>5, ResetPlaces
  <2> QED BY <2>4, <2>5
<1>5. CASE Unload
  <2>1. PICK auto \in BOOLEAN :
          rewindReset(IF auto THEN [slots EXCEPT !["Undo"] = State({}, fastPPU)] ELSE slots)
    BY <1>5 DEF Unload
  <2>2. State({}, fastPPU) \in States
    BY <1>1, StatesTyped
  <2>3. [slots EXCEPT !["Undo"] = State({}, fastPPU)] \in [SlotNames -> States]
    BY <1>2, <1>3, <2>2
  <2> QED BY <1>1, <2>1, <2>3, ResetPlaces
<1>6. CASE Restart
  BY <1>1, <1>6, ResetPlaces DEF Restart
<1>7. ASSUME NEW s \in SlotNames
      PROVE  [slots EXCEPT ![s] = State(machine, fastPPU)] \in [SlotNames -> States]
  BY <1>1, <1>2, StatesTyped
<1>8. ASSUME NEW s \in UserSlots, SaveState(s) PROVE PlacesOK'
  <2>1. s \in SlotNames
    BY DEF SlotNames
  <2> QED BY <1>1, <1>7, <1>8, <2>1, SamePlaces DEF SaveState, rewindVars
<1>9. ASSUME NEW s \in SlotNames, LoadState(s) PROVE PlacesOK'
  <2> DEFINE keep   == IF s = "Undo" THEN "Redo" ELSE "Undo"
             new(w) == IF w THEN [slots EXCEPT ![keep] = State(machine, fastPPU)] ELSE slots
  <2>1. keep \in SlotNames
    BY <1>3
  <2>2. \A w \in BOOLEAN : new(w) \in [SlotNames -> States]
    BY <1>1, <1>7, <2>1
  <2>3. PICK w \in BOOLEAN :
          IF slots[s].fastPPU = fastPPU
          THEN rewindReset(new(w))
          ELSE slots' = new(w) /\ UNCHANGED <<machine, history>>
    BY <1>9 DEF LoadState, rewindVars
  <2> HIDE DEF new
  <2>4. CASE slots[s].fastPPU = fastPPU
    BY <2>2, <2>3, <2>4, ResetPlaces
  <2>5. CASE slots[s].fastPPU # fastPPU
    BY <2>2, <2>3, <2>5, SamePlaces
  <2> QED BY <2>4, <2>5
<1>10. ASSUME NEW s \in SlotNames, RemoveState(s) PROVE PlacesOK'
  BY <1>2, <1>10, StatesTyped, SamePlaces DEF RemoveState, rewindVars
<1>11. CASE MoviePlay \/ (\E b \in BOOLEAN : MovieRecord(b)) \/ MovieStop
  <2>1. UNCHANGED <<slots, history>> /\ (machine' = {} \/ machine' = machine)
    BY <1>11 DEF MoviePlay, MovieRecord, MovieStop, rewindVars
  <2> QED BY <2>1 DEF PlacesOK
<1> QED BY <1>4, <1>5, <1>6, <1>8, <1>9, <1>10, <1>11 DEF Menu

(* Neither do the keys.                                                     *)
LEMMA KeysPlaces == ASSUME PlacesOK, Keys PROVE PlacesOK'
<1>1. slots \in [SlotNames -> States]
  BY DEF PlacesOK
<1>2. CASE ChangeRewind
  BY <1>1, <1>2, ResetPlaces DEF ChangeRewind
<1>3. CASE PressRewind \/ ReleaseRewind \/ PressFast \/ ReleaseFast
  BY <1>1, <1>3, SamePlaces DEF PressRewind, ReleaseRewind, PressFast, ReleaseFast, rewindVars
<1> QED BY <1>2, <1>3 DEF Keys

(* Parts of FlagsOK that change together.                                   *)
DrawnOK == loaded \in BOOLEAN /\ configured \in BOOLEAN /\ fastPPU \in BOOLEAN /\ drawn \in BOOLEAN
PaceOK ==
  /\ mode \in {"Playing", "Rewinding"} /\ counter \in Nat /\ frequency \in Nat /\ clean \in BOOLEAN
HeldOK ==
  /\ rewinding \in BOOLEAN /\ fastForwarding \in BOOLEAN
  /\ movie \in {"Inactive", "Playing", "Recording"}

(* The parts make up the flags.                                             *)
LEMMA FlagParts == FlagsOK <=> DrawnOK /\ PaceOK /\ HeldOK
BY DEF FlagsOK, DrawnOK, PaceOK, HeldOK

(* The renderers stay renderers.                                            *)
LEMMA DrawnStep == ASSUME FlagsOK, PlacesOK, Next PROVE DrawnOK'
<1>1. DrawnOK
  BY FlagParts
<1>2. ASSUME NEW s \in SlotNames PROVE slots[s].fastPPU \in BOOLEAN
  BY DEF PlacesOK, States
<1>3. ASSUME UNCHANGED ppuVars, UNCHANGED loaded PROVE DrawnOK'
  BY <1>1, <1>3 DEF DrawnOK, ppuVars
<1>4. ASSUME NEW c \in BOOLEAN, power(c), loaded' \in BOOLEAN PROVE DrawnOK'
  BY <1>4 DEF DrawnOK, power
<1>5. ASSUME NEW ppu \in BOOLEAN, unserialize(ppu), UNCHANGED loaded PROVE DrawnOK'
  BY <1>1, <1>5 DEF DrawnOK, unserialize
<1>6. CASE Main \/ Keys \/ MovieStop \/ \E s \in UserSlots : SaveState(s)
  <2>1. UNCHANGED ppuVars /\ UNCHANGED loaded
    BY <1>6 DEF Main, MainDisabled, MainCount, MainSnapshot, MainNothingLeft, MainWait, MainRewind,
      Frame, Keys, PressRewind, ReleaseRewind, PressFast, ReleaseFast, ChangeRewind, MovieStop,
      SaveState
  <2> QED BY <1>3, <2>1
<1>7. CASE LoadGame
  <2>1. "Undo" \in SlotNames
    BY DEF SlotNames
  <2>2. PICK c \in BOOLEAN, auto \in BOOLEAN :
          /\ configured' = c /\ fastPPU' = c
          /\ drawn' = IF auto /\ slots["Undo"].exists /\ slots["Undo"].fastPPU = c
                      THEN slots["Undo"].fastPPU ELSE c
    BY <1>7 DEF LoadGame
  <2>3. drawn' \in BOOLEAN
    <3>1. slots["Undo"].fastPPU \in BOOLEAN
      BY <1>2, <2>1
    <3> QED BY <2>2, <3>1
  <2>4. loaded' = TRUE
    BY <1>7 DEF LoadGame
  <2> QED BY <2>2, <2>3, <2>4 DEF DrawnOK
<1>8. CASE Unload
  BY <1>1, <1>8 DEF Unload, DrawnOK, ppuVars
<1>9. CASE Restart
  <2>1. PICK c \in BOOLEAN : power(c)
    BY <1>9 DEF Restart
  <2> QED BY <1>1, <1>4, <1>9, <2>1 DEF Restart, DrawnOK
<1>10. ASSUME NEW s \in SlotNames, LoadState(s) \/ RemoveState(s) PROVE DrawnOK'
  <2>1. \/ UNCHANGED ppuVars /\ UNCHANGED loaded
        \/ unserialize(slots[s].fastPPU) /\ UNCHANGED loaded
    BY <1>10 DEF LoadState, RemoveState
  <2> QED BY <1>2, <1>3, <1>5, <2>1
<1>11. CASE MoviePlay
  <2>1. PICK ppu \in BOOLEAN : power(configured) \/ unserialize(ppu)
    BY <1>11 DEF MoviePlay
  <2> QED BY <1>1, <1>4, <1>5, <1>11, <2>1 DEF MoviePlay, DrawnOK
<1>12. ASSUME NEW b \in BOOLEAN, MovieRecord(b) PROVE DrawnOK'
  <2>1. power(configured) \/ UNCHANGED ppuVars
    BY <1>12 DEF MovieRecord
  <2> QED BY <1>1, <1>3, <1>4, <1>12, <2>1 DEF MovieRecord, DrawnOK
<1> QED BY <1>6, <1>7, <1>8, <1>9, <1>10, <1>11, <1>12 DEF Next, Menu

(* Mode, counter and frequency of rewinding.                                *)
LEMMA PaceStep == ASSUME FlagsOK, Next PROVE PaceOK'
<1>1. PaceOK
  BY FlagParts
<1>2. ASSUME mode' \in {mode, "Playing", "Rewinding"}, counter' \in {counter, counter + 1, 0},
             frequency' \in Nat, clean' \in {clean, TRUE, FALSE}
      PROVE  PaceOK'
  <2>1. counter' \in Nat
    BY <1>1, <1>2 DEF PaceOK
  <2>2. mode' \in {"Playing", "Rewinding"} /\ clean' \in BOOLEAN
    BY <1>1, <1>2 DEF PaceOK
  <2> QED BY <1>2, <2>1, <2>2 DEF PaceOK
<1>3. frequency' \in Nat
  BY <1>1, RewindAssumption
    DEF PaceOK, Next, Main, MainDisabled, MainCount, MainSnapshot, MainNothingLeft, MainWait,
      MainRewind, Frame, Menu, LoadGame, Unload, Restart, SaveState, LoadState, RemoveState, MoviePlay,
      MovieRecord, MovieStop, Keys, PressRewind, ReleaseRewind, PressFast, ReleaseFast, ChangeRewind,
      rewindVars
<1>4. /\ mode' \in {mode, "Playing", "Rewinding"} /\ counter' \in {counter, counter + 1, 0}
      /\ clean' \in {clean, TRUE, FALSE}
  <2>1. CASE Main
    BY <2>1 DEF Main, MainDisabled, MainCount, MainSnapshot, MainNothingLeft, MainWait, MainRewind,
      rewindReset
  <2>2. CASE Menu
    BY <2>2 DEF Menu, LoadGame, Unload, Restart, SaveState, LoadState, RemoveState, MoviePlay,
      MovieRecord, MovieStop, rewindReset, rewindVars
  <2>3. CASE Keys
    BY <2>3 DEF Keys, PressRewind, ReleaseRewind, PressFast, ReleaseFast, ChangeRewind, rewindReset,
      rewindVars
  <2> QED BY <2>1, <2>2, <2>3 DEF Next
<1> QED BY <1>2, <1>3, <1>4

(* The keys and the movie.                                                  *)
LEMMA HeldStep == ASSUME FlagsOK, Next PROVE HeldOK'
<1>1. HeldOK
  BY FlagParts
<1>2. rewinding' \in BOOLEAN /\ fastForwarding' \in BOOLEAN
  <2>1. rewinding' \in {rewinding, TRUE, FALSE} /\ fastForwarding' \in {fastForwarding, TRUE, FALSE}
    BY DEF Next, Main, MainDisabled, MainCount, MainSnapshot, MainNothingLeft, MainWait,
      MainRewind, Frame, Menu, LoadGame, Unload, Restart, SaveState, LoadState, RemoveState, MoviePlay,
      MovieRecord, MovieStop, Keys, PressRewind, ReleaseRewind, PressFast, ReleaseFast, ChangeRewind,
      keyVars
  <2> QED BY <1>1, <2>1 DEF HeldOK
<1>3. movie' \in {movie, "Inactive", "Playing", "Recording"}
  BY DEF Next, Main, MainDisabled, MainCount, MainSnapshot, MainNothingLeft, MainWait,
    MainRewind, Frame, Menu, LoadGame, Unload, Restart, SaveState, LoadState, RemoveState, MoviePlay,
    MovieRecord, MovieStop, Keys, PressRewind, ReleaseRewind, PressFast, ReleaseFast, ChangeRewind
<1> QED BY <1>1, <1>2, <1>3 DEF HeldOK

(* Flags, counters and settings keep their types.                           *)
LEMMA FlagsStep == ASSUME FlagsOK, PlacesOK, [Next]_vars PROVE FlagsOK'
<1>1. CASE Next
  BY <1>1, DrawnStep, PaceStep, HeldStep DEF FlagsOK, DrawnOK, PaceOK, HeldOK
<1>2. CASE UNCHANGED vars
  BY <1>2 DEF vars, FlagsOK, ppuVars, rewindVars, keyVars
<1> QED BY <1>1, <1>2

(* The invariant that has all of the types.                                 *)
LEMMA SessionStep == SessionInv /\ [Next]_vars => SessionInv'
<1> SUFFICES ASSUME SessionInv, [Next]_vars PROVE SessionInv'
  OBVIOUS
<1>1. HInv'
  BY HistoryStep DEF SessionInv
<1>2. FlagsOK'
  BY FlagsStep DEF SessionInv
<1>3. PlacesOK'
  <2>1. CASE Next
    BY <2>1, MainPlaces, MenuPlaces, KeysPlaces DEF Next, SessionInv
  <2>2. CASE UNCHANGED vars
    BY <2>2, SamePlaces DEF vars, rewindVars, SessionInv, PlacesOK
  <2> QED BY <2>1, <2>2
<1> QED BY <1>1, <1>2, <1>3 DEF SessionInv

\* Positions never leave the ring of the rewind history, in the machine, in the
\* snapshots and in the files, and every variable has its type.
THEOREM SessionTypes == Spec => []TypeOK
<1>1. Init => SessionInv
  <2> SUFFICES ASSUME Init PROVE SessionInv
    OBVIOUS
  <2>1. HInv
    BY InitHistory
  <2>2. PlacesOK
    <3>1. machine = {} /\ DOMAIN history = {}
      BY DEF Init
    <3> QED BY <3>1, StatesTyped DEF Init, PlacesOK
  <2>3. FlagsOK
    BY RewindAssumption DEF Init, FlagsOK
  <2> QED BY <2>1, <2>2, <2>3 DEF SessionInv
<1>2. SessionInv => TypeOK
  <2> SUFFICES ASSUME SessionInv PROVE TypeOK
    OBVIOUS
  <2>1. history \in Seq(SUBSET Positions)
    <3>1. history \in Seq(SUBSET Int) /\ DOMAIN history = 1..Len(history) /\ Len(history) \in Nat
          /\ history \in [1..Len(history) -> SUBSET Int]
      BY LenProperties DEF SessionInv, HInv, HistoryTyped
    <3>2. history \in [1..Len(history) -> SUBSET Positions]
      BY <3>1 DEF SessionInv, PlacesOK
    <3> QED BY <3>1, <3>2
  <2> QED BY <2>1 DEF SessionInv, HInv, HistoryTyped, PlacesOK, FlagsOK, TypeOK
<1> QED BY <1>1, <1>2, SessionStep, PTL DEF Spec
=============================================================================
