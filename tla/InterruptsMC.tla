---------------------------- MODULE InterruptsMC ----------------------------
(* Instances of Interrupts small enough for TLC. *)
EXTENDS Interrupts
Shortest == [k \in Kinds |-> IF k = "read" THEN {1} ELSE {3}]
\* Each source by itself, none, and all together.
SomeEnables == {{}, {"nmiEnable"}, {"virqEnable"}, {"hirqEnable"}, Registers}
=============================================================================
