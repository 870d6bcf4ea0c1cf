---------------------------- MODULE SchedulerMC ----------------------------
(* Instances of Scheduler small enough for TLC. *)
EXTENDS Scheduler

CONSTANTS cop, icd

NoCops   == <<>>
CopsBoth == <<cop, icd>>
IcdOnly  == <<icd>>

\* The PPU steps by two clocks, the others by one.
QuantumOf == [p \in Peers |-> IF p = PPU THEN {2} ELSE {1}]
\* ICD::main takes one long step, the others several short ones.
OpsOf == [t \in Threads |-> IF t \in {CPU, SMP, PPU} THEN 2 ELSE 1]
OpsFew == [t \in Threads |-> IF t \in {CPU, SMP} THEN 2 ELSE 1]
LateBoth == {icd}
\* With one coprocessor late and another re-created there is no ICD on the board.
CopOnly == {cop}
\* A cheat is on memory, on the ports of the SMP, on a register of the PPU or of
\* the coprocessors; a list may hold two cheats on different peers.
OneCheat  == {<<>>, <<SMP>>, <<PPU>>, CopSeq}
TwoCheats == {a \o b : a, b \in OneCheat}
PortCheat == {<<SMP>>}
Stoppable == {CPU, SMP}
Clocks == {1}
=============================================================================
