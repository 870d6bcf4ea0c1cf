------------------------------ MODULE Session ------------------------------
(***************************************************************************)
(* What the user interface does with whole machines: states with undo and  *)
(* redo, rewinding, movies and run-ahead (target-bsnes/program), and what  *)
(* a state must agree with (System::serialize and unserialize).            *)
(*                                                                         *)
(* Of what a machine contains, in the console or in a state, one thing is  *)
(* kept: which snapshots of the rewind history it was reached from, a set  *)
(* of positions in that history.                                           *)
(*                                                                         *)
(* A definition whose name ends in _ and a word is a faulty variant of the *)
(* definition that follows it.                                             *)
(***************************************************************************)
EXTENDS Integers, Sequences

CONSTANTS
  UserSlots,   \* the slots of the user, beside Undo and Redo
  Frequencies, \* settings.rewind.frequency; 0 disables rewinding
  Length       \* settings.rewind.length

ASSUME RewindAssumption == Frequencies \subseteq Nat /\ Length \in Nat \ {0}
ASSUME SlotAssumption == UserSlots \cap {"Undo", "Redo"} = {}

VARIABLES
  loaded, machine,
  slots,                            \* the .bst files of the game
  configured, fastPPU, drawn,       \* configuration.hacks.ppu.fast, hacks.fastPPU,
                                    \* and the renderer whose state the PPU holds
  mode, counter, frequency, history, \* Program::rewind
  rewinding, fastForwarding,        \* the keys held
  movie,                            \* Program::movie.mode
  clean                             \* history variable: no movie was started
                                    \* since rewindReset

ppuVars    == <<configured, fastPPU, drawn>>
rewindVars == <<mode, counter, frequency, history, clean>>
keyVars    == <<rewinding, fastForwarding>>
vars == <<loaded, machine, slots, ppuVars, rewindVars, keyVars, movie>>

SlotNames == UserSlots \cup {"Undo", "Redo"}
Positions == 1..Length
States    == [exists : BOOLEAN, from : SUBSET Positions, fastPPU : BOOLEAN]
Empty     == [exists |-> FALSE, from |-> {}, fastPPU |-> FALSE]

\* System::serialize(1), of a machine that runs on to where it can be saved.
State(m, ppu) == [exists |-> TRUE, from |-> m, fastPPU |-> ppu]

TypeOK ==
  /\ loaded \in BOOLEAN /\ machine \subseteq Positions
  /\ slots \in [SlotNames -> States]
  /\ configured \in BOOLEAN /\ fastPPU \in BOOLEAN /\ drawn \in BOOLEAN
  /\ mode \in {"Playing", "Rewinding"} /\ counter \in Nat /\ frequency \in Nat
  /\ history \in Seq(SUBSET Positions) /\ Len(history) <= Length
  /\ rewinding \in BOOLEAN /\ fastForwarding \in BOOLEAN
  /\ movie \in {"Inactive", "Playing", "Recording"}
  /\ clean \in BOOLEAN

-----------------------------------------------------------------------------
(* The history loses a snapshot: the others may change their positions.     *)

WithoutFirst(from) == {i - 1 : i \in from \ {1}}
Without(from, n)   == from \ {n}

SlotsWithoutFirst == [s \in SlotNames |-> [slots[s] EXCEPT !.from = WithoutFirst(@)]]
SlotsWithout(n)   == [s \in SlotNames |-> [slots[s] EXCEPT !.from = Without(@, n)]]
Forgotten(ss)     == [s \in SlotNames |-> [ss[s] EXCEPT !.from = {}]]

\* Program::rewindReset, when the files are ss and the machine has become m:
\* there is no snapshot left that anything was reached from.
rewindReset(ss) ==
  /\ mode' = "Playing" /\ counter' = 0 /\ history' = <<>> /\ clean' = TRUE
  /\ machine' = {} /\ slots' = Forgotten(ss)

\* System::power: the renderer is chosen, from configuration c.
power(c) == configured' = c /\ fastPPU' = c /\ drawn' = c

\* System::unserialize of an accepted state of renderer ppu: power() comes
\* first, then serializeAll() reads the state.
unserialize(ppu) ==
  drawn' = ppu /\ fastPPU' = configured /\ configured' = configured

-----------------------------------------------------------------------------
(* Games. *)

\* Program::load: the settings become the configuration.  With automatic states
\* the Undo state is loaded at once, and the machine that has just been powered
\* goes to Redo, if the file can be written.
LoadGame ==
  /\ ~loaded /\ loaded' = TRUE
  /\ \E c \in BOOLEAN, auto \in BOOLEAN, written \in BOOLEAN :
       LET undo == slots["Undo"] IN
       /\ rewindReset(IF auto /\ undo.exists /\ written
                      THEN [slots EXCEPT !["Redo"] = State({}, c)] ELSE slots)
       /\ configured' = c /\ fastPPU' = c
       /\ drawn' = IF auto /\ undo.exists /\ undo.fastPPU = c THEN undo.fastPPU ELSE c
  /\ movie' = "Inactive" /\ UNCHANGED <<frequency, keyVars>>

Unload ==
  /\ loaded /\ loaded' = FALSE
  /\ \E auto \in BOOLEAN : \* autoSaveStateOnUnload
       rewindReset(IF auto THEN [slots EXCEPT !["Undo"] = State({}, fastPPU)] ELSE slots)
  /\ movie' = "Inactive" /\ UNCHANGED <<ppuVars, frequency, keyVars>>

\* Program::reset and Program::power, each after hackCompatibility().
Restart ==
  /\ loaded /\ rewindReset(slots) /\ \E c \in BOOLEAN : power(c)
  /\ UNCHANGED <<loaded, frequency, keyVars, movie>>

-----------------------------------------------------------------------------
(* States. *)

\* The file may turn out not to be writable.
SaveState(s) ==
  /\ loaded
  /\ slots' = [slots EXCEPT ![s] = State(machine, fastPPU)] \/ UNCHANGED slots
  /\ UNCHANGED <<loaded, machine, ppuVars, rewindVars, keyVars, movie>>

RemoveState(s) ==
  /\ loaded /\ slots[s].exists
  /\ slots' = [slots EXCEPT ![s] = Empty]
  /\ UNCHANGED <<loaded, machine, ppuVars, rewindVars, keyVars, movie>>

\* The file is read, then Undo (or Redo) is saved, and only then unserialize()
\* decides; whether Undo could be written makes no difference.
LoadState_NoReset(s) ==
  /\ loaded /\ slots[s].exists
  /\ \E written \in BOOLEAN :
       LET keep  == IF s = "Undo" THEN "Redo" ELSE "Undo"
           saved == IF written
                    THEN [slots EXCEPT ![keep] = State(machine, fastPPU)] ELSE slots
       IN  IF slots[s].fastPPU = fastPPU
           THEN /\ unserialize(slots[s].fastPPU) /\ slots' = saved
                /\ machine' = slots[s].from /\ UNCHANGED rewindVars
           ELSE slots' = saved /\ UNCHANGED <<machine, ppuVars, rewindVars>>
  /\ UNCHANGED <<loaded, keyVars, movie>>
LoadState_AnyRenderer(s) ==
  /\ loaded /\ slots[s].exists
  /\ unserialize(slots[s].fastPPU)
  /\ rewindReset(slots) /\ UNCHANGED <<loaded, frequency, keyVars, movie>>
LoadState(s) ==
  /\ loaded /\ slots[s].exists
  /\ \E written \in BOOLEAN :
       LET keep  == IF s = "Undo" THEN "Redo" ELSE "Undo"
           saved == IF written
                    THEN [slots EXCEPT ![keep] = State(machine, fastPPU)] ELSE slots
       IN  IF slots[s].fastPPU = fastPPU
           THEN /\ unserialize(slots[s].fastPPU)
                /\ rewindReset(saved) /\ UNCHANGED frequency
           ELSE slots' = saved /\ UNCHANGED <<machine, ppuVars, rewindVars>>
  /\ UNCHANGED <<loaded, keyVars, movie>>

-----------------------------------------------------------------------------
(* Movies. *)

\* A movie without a state powers the machine, whatever its header says; one
\* with a state has to be intact and the state accepted.
MoviePlay ==
  /\ loaded /\ movie = "Inactive"
  /\ \E intact \in BOOLEAN, ppu \in BOOLEAN :
       /\ \/ power(configured)
          \/ intact /\ ppu = fastPPU /\ unserialize(ppu)
       /\ movie' = IF intact THEN "Playing" ELSE "Inactive"
  /\ machine' = {} /\ clean' = FALSE
  /\ UNCHANGED <<loaded, slots, mode, counter, frequency, history, keyVars>>

MovieRecord(fromBeginning) ==
  /\ loaded /\ movie = "Inactive" /\ movie' = "Recording"
  /\ IF fromBeginning
     THEN power(configured) /\ machine' = {} /\ clean' = FALSE
     ELSE UNCHANGED <<machine, ppuVars, clean>>
  /\ UNCHANGED <<loaded, slots, mode, counter, frequency, history, keyVars>>

MovieStop ==
  /\ movie # "Inactive" /\ movie' = "Inactive"
  /\ UNCHANGED <<loaded, machine, slots, ppuVars, rewindVars, keyVars>>

-----------------------------------------------------------------------------
(* The keys and the settings of rewinding. *)

PressRewind ==
  /\ ~rewinding /\ loaded /\ ~fastForwarding /\ frequency # 0
  /\ rewinding' = TRUE /\ mode' = "Rewinding" /\ counter' = 0
  /\ UNCHANGED <<loaded, machine, slots, ppuVars, frequency, history, clean,
                 fastForwarding, movie>>

\* Also when the press was refused.
ReleaseRewind ==
  /\ rewinding' = FALSE
  /\ IF loaded THEN mode' = "Playing" /\ counter' = 0 ELSE UNCHANGED <<mode, counter>>
  /\ UNCHANGED <<loaded, machine, slots, ppuVars, frequency, history, clean,
                 fastForwarding, movie>>

PressFast ==
  /\ ~fastForwarding /\ loaded /\ ~rewinding /\ fastForwarding' = TRUE
  /\ UNCHANGED <<loaded, machine, slots, ppuVars, rewindVars, rewinding, movie>>

ReleaseFast ==
  /\ fastForwarding /\ fastForwarding' = FALSE
  /\ UNCHANGED <<loaded, machine, slots, ppuVars, rewindVars, rewinding, movie>>

ChangeRewind ==
  /\ frequency' \in Frequencies /\ rewindReset(slots)
  /\ UNCHANGED <<loaded, ppuVars, keyVars, movie>>

-----------------------------------------------------------------------------
(* Program::main: rewindRun(), then a frame.  Run-ahead, unless a key is     *)
(* held, snapshots the machine after that frame, runs on, and goes back to   *)
(* the snapshot.  A movie whose input is used up stops.                      *)

Frame ==
  /\ loaded
  /\ movie' = movie \/ (movie = "Playing" /\ movie' = "Inactive")
  /\ UNCHANGED <<loaded, ppuVars, frequency, keyVars>>

MainDisabled ==
  /\ frequency = 0 /\ Frame
  /\ UNCHANGED <<machine, slots, mode, counter, history, clean>>

MainCount ==
  /\ frequency # 0 /\ mode = "Playing" /\ counter + 1 < frequency /\ Frame
  /\ counter' = counter + 1
  /\ UNCHANGED <<machine, slots, mode, history, clean>>

\* The oldest snapshot makes room for the new one.
MainSnapshot ==
  /\ frequency # 0 /\ mode = "Playing" /\ counter + 1 >= frequency /\ Frame
  /\ IF Len(history) >= Length
     THEN LET rest == Tail(history)
          IN  /\ history' = Append([i \in DOMAIN rest |-> WithoutFirst(rest[i])],
                                   WithoutFirst(machine))
              /\ machine' = WithoutFirst(machine) \cup {Length}
              /\ slots' = SlotsWithoutFirst
     ELSE /\ history' = Append(history, machine)
          /\ machine' = machine \cup {Len(history) + 1} /\ UNCHANGED slots
  /\ counter' = 0 /\ UNCHANGED <<mode, clean>>

MainNothingLeft ==
  /\ frequency # 0 /\ mode = "Rewinding" /\ history = <<>> /\ Frame
  /\ mode' = "Playing" /\ counter' = 0
  /\ UNCHANGED <<machine, slots, history, clean>>

MainWait ==
  /\ frequency # 0 /\ mode = "Rewinding" /\ history # <<>>
  /\ counter + 1 < frequency \div 4 /\ Frame
  /\ counter' = counter + 1
  /\ UNCHANGED <<machine, slots, mode, history, clean>>

\* takeLast(), and back to what it contains; the last snapshot ends the rewinding.
\* unserialize() compares the snapshot's renderer with the one that runs.  They
\* are the same: Restart and LoadGame, which alone may change it, empty the
\* history, and what else powers the machine has configured = fastPPU.
MainRewind_Peek ==
  /\ frequency # 0 /\ mode = "Rewinding" /\ history # <<>>
  /\ counter + 1 >= frequency \div 4 /\ Frame
  /\ counter' = 0 /\ UNCHANGED <<machine, slots, mode, history, clean>>
MainRewind ==
  /\ frequency # 0 /\ mode = "Rewinding" /\ history # <<>>
  /\ counter + 1 >= frequency \div 4 /\ Frame
  /\ LET n == Len(history) IN
       IF n = 1
       THEN rewindReset(slots)
       ELSE /\ history' = [i \in 1..(n - 1) |-> Without(history[i], n)]
            /\ machine' = Without(history[n], n) /\ slots' = SlotsWithout(n)
            /\ counter' = 0 /\ UNCHANGED <<mode, clean>>

Main == \/ MainDisabled \/ MainCount \/ MainSnapshot
        \/ MainNothingLeft \/ MainWait \/ MainRewind

-----------------------------------------------------------------------------
Init ==
  /\ loaded = FALSE /\ machine = {} /\ slots = [s \in SlotNames |-> Empty]
  /\ configured \in BOOLEAN /\ fastPPU = FALSE /\ drawn = FALSE
  /\ mode = "Playing" /\ counter = 0 /\ frequency \in Frequencies /\ history = <<>>
  /\ rewinding = FALSE /\ fastForwarding = FALSE
  /\ movie = "Inactive" /\ clean = TRUE

Menu == \/ LoadGame \/ Unload \/ Restart
        \/ \E s \in UserSlots : SaveState(s)
        \/ \E s \in SlotNames : LoadState(s) \/ RemoveState(s)
        \/ MoviePlay \/ (\E b \in BOOLEAN : MovieRecord(b)) \/ MovieStop
Keys == PressRewind \/ ReleaseRewind \/ PressFast \/ ReleaseFast \/ ChangeRewind
Next == Main \/ Menu \/ Keys

\* The application calls main() again and again; nobody has to touch a key.  It
\* is not left paused, inactive or in a dialog, where main() returns before
\* rewindRun() (program.cpp:79-102).
Spec == Init /\ [][Next]_vars /\ WF_vars(Main)

-----------------------------------------------------------------------------
(* Correctness. *)

\* Each snapshot was taken on the way to the next, and the last one on the way
\* to the machine: rewinding goes back the way the player came.
OwnPast ==
  /\ machine = 1..Len(history)
  /\ \A i \in DOMAIN history : history[i] = 1..(i - 1)

\* No load, reset, rejected state, save or setting leaves snapshots of another
\* run in the rewind history (rewind.cpp; states.cpp:68 "do not allow rewinding
\* past a state load event", game.cpp:305, 313).
RewindGoesBack == loaded /\ clean => OwnPast

\* The renderer that runs is the one whose state the machine holds: the check of
\* fastPPU in unserialize(), made before power() chooses the renderer.
RendererAgrees == loaded => drawn = fastPPU

\* Whoever holds the rewind key plays again when the history is used up.
RewindEnds == mode = "Rewinding" ~> mode = "Playing"
=============================================================================
