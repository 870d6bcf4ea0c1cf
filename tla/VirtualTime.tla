---------------------------- MODULE VirtualTime ----------------------------
(***************************************************************************)
(* What the scheduler promises to the emulated machine and to its host,    *)
(* without stacks, switches and bus cycles: processors that each have a    *)
(* time of their own, relative to the S-CPU's, and a host that is shown    *)
(* one frame for each call of System::run().                               *)
(*                                                                         *)
(* Scheduler implements it, with clock for lead (SchedulerProofs).         *)
(***************************************************************************)
EXTENDS Integers

CONSTANTS Peers,  \* the processors other than the S-CPU
          Ahead   \* those that may run on although the CPU is behind them

VARIABLES
  lead,           \* the time of each peer, relative to the CPU's
  call,           \* what the host waits for
  presented,      \* the frame of this call has been presented
  open            \* the host writes to protected memory

vars == <<lead, call, presented, open>>

Init ==
  /\ lead = [p \in Peers |-> 0]
  /\ call = "none" /\ presented = FALSE /\ open = FALSE

Call(c) ==
  /\ call = "none" /\ call' = c
  /\ UNCHANGED <<lead, presented, open>>

\* The CPU executes: others fall behind.
CpuRuns ==
  /\ call = "run" /\ ~presented
  /\ \A p \in Peers : lead'[p] <= lead[p]
  /\ UNCHANGED <<call, presented, open>>

\* Peer p executes, and it alone: it comes from behind, unless it may run ahead.
PeerRuns(p) ==
  /\ call = "run" /\ ~presented
  /\ lead[p] < 0 \/ p \in Ahead
  /\ lead'[p] >= lead[p]
  /\ \A q \in Peers \ {p} : lead'[q] = lead[q]
  /\ UNCHANGED <<call, presented, open>>

\* A processor is reset by the CPU.
Reset(p) ==
  /\ call = "run" /\ ~presented
  /\ lead' = [lead EXCEPT ![p] = 0]
  /\ UNCHANGED <<call, presented, open>>

\* The frame: everybody has reached the CPU's time, nobody runs until the host
\* calls again, and protected memory is open only in between.
Present ==
  /\ call = "run" /\ ~presented /\ \A p \in Peers : lead[p] >= 0
  /\ presented' = TRUE /\ open' = TRUE
  /\ UNCHANGED <<lead, call>>

Protect ==
  /\ call = "run" /\ open /\ open' = FALSE
  /\ UNCHANGED <<lead, call, presented>>

\* System::run returns once its frame has been presented, never without.
Return ==
  /\ call = "run" /\ presented /\ ~open
  /\ call' = "none" /\ presented' = FALSE
  /\ UNCHANGED <<lead, open>>

\* The user changes the cheats between two calls: memory is open, nobody runs.
Patch ==
  /\ call = "none" /\ call' = "cheats" /\ open' = TRUE
  /\ UNCHANGED <<lead, presented>>

Patched ==
  /\ call = "cheats" /\ call' = "none" /\ open' = FALSE
  /\ UNCHANGED <<lead, presented>>

\* While a state is saved the order of time is given up.
Save ==
  /\ call = "save" /\ call' = "save"

SaveReturn ==
  /\ call = "save" /\ ~open
  /\ call' = "none" /\ presented' = FALSE
  /\ UNCHANGED <<lead, open>>

\* Power on: everybody starts together.
Power ==
  /\ call = "none" /\ lead' = [p \in Peers |-> 0]
  /\ UNCHANGED <<call, presented, open>>

Next ==
  \/ Call("run") \/ Call("save") \/ Power \/ Patch \/ Patched
  \/ CpuRuns \/ Present \/ Protect \/ Return \/ Save \/ SaveReturn
  \/ \E p \in Peers : PeerRuns(p) \/ Reset(p)

Spec == Init /\ [][Next]_vars

\* And every run that is asked for does return.
Promise == Spec /\ (call = "run" ~> call = "none")
=============================================================================
