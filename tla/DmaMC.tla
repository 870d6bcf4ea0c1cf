------------------------------- MODULE DmaMC -------------------------------
(* The S-CPU's DMA, its multiplier and divider, and a flash memory, which   *)
(* share no state, in one run: "unit" names the one that is explored, the   *)
(* others stand still.                                                      *)
EXTENDS Dma, Alu, Flash

VARIABLE unit

units == <<vars, aluVars, flashVars, unit>>

\* All cells are clear and all blocks unlocked; programs and loads do the rest.
FlashStart == FlashInit /\ locked = {} /\ \A m \in DOMAIN flashMemory : flashMemory[m] = {}
UnitsInit == Init /\ AluInit /\ FlashStart /\ unit \in {"dma", "alu", "flash"}
UnitsNext ==
  /\ \/ unit = "dma" /\ Next /\ UNCHANGED <<aluVars, flashVars>>
     \/ unit = "alu" /\ AluNext /\ UNCHANGED <<vars, flashVars>>
     \/ unit = "flash" /\ FlashNext /\ UNCHANGED <<vars, aluVars>>
  /\ UNCHANGED unit
UnitsSpec == UnitsInit /\ [][UnitsNext]_units

\* The flash alone, for what a comment says of its blocks.
FlashAlone ==
  /\ Init /\ AluInit /\ FlashStart /\ unit = "flash"
  /\ [][FlashNext /\ UNCHANGED <<vars, aluVars, unit>>]_units
=============================================================================
