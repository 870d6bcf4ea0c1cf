-------------------------------- MODULE Bus --------------------------------
(***************************************************************************)
(* The S-CPU's bus (sfc/memory): a table that leads from each address to   *)
(* one of a small pool of handlers and to an offset in that handler's      *)
(* memory.  Cartridges, chips and expansion devices map themselves over    *)
(* one another, at each load, power on or connection; a handler is given   *)
(* back to the pool when the last address that led to it is taken over.    *)
(*                                                                         *)
(* A map names each of its addresses once, as all maps in this code do.    *)
(*                                                                         *)
(* A definition whose name ends in _ and a word is a faulty variant of the *)
(* definition that follows it.                                             *)
(***************************************************************************)
EXTENDS Powers, FiniteSets

CONSTANTS
  Width,    \* bits of an address: 24
  Pool,     \* handlers: 256, of which 0 is open bus
  Handler, OpenBus, None, \* the functions; the one of 0; an empty function
  Regions,  \* bound: what is mapped and unmapped, sets of addresses
  Layouts   \* bound: size, base and mask of a map; size 0 is a handler of registers

Address == 0..(pow2[Width] - 1)

ASSUME BusAssumption ==
  /\ Width \in Nat \ {0} /\ Pool \in Nat \ {0}
  /\ OpenBus \notin Handler /\ None \notin Handler \cup {OpenBus}
  /\ Regions \subseteq (SUBSET Address) \ {{}} /\ Layouts \subseteq Nat \X Address \X Address

VARIABLES
  lookup, busTarget, \* of each address
  handlerOf,         \* reader and writer, of each of the pool
  busCounter,        \* counter: addresses that lead to it
  mapped             \* history: the function last mapped to an address

mapVars == <<lookup, busTarget, handlerOf, busCounter, mapped>>

Ids == 0..(Pool - 1)

BusTypeOK ==
  /\ lookup \in [Address -> Ids] /\ busTarget \in [Address -> Nat]
  /\ handlerOf \in [Ids -> Handler \cup {OpenBus, None}] /\ busCounter \in [Ids -> Nat]
  /\ mapped \in [Address -> Handler \cup {OpenBus}]

-----------------------------------------------------------------------------
(* Where in its memory an address leads (memory-inline.hpp) *)

bitAt(n, b) == (n \div b) % 2 = 1

\* Memories that are no power of two repeat their last part.  A turn of the loop
\* looks at one bit, mask; size is of the part that is left, which begins at base.
Mirroring == [addr : Nat, size : Nat, base : Nat, mask : Nat]
mirrorTurn == [s \in Mirroring |->
  IF s.addr < s.size THEN s
  ELSE IF ~bitAt(s.addr, s.mask) THEN [s EXCEPT !.mask = @ \div 2]
  ELSE LET t == [s EXCEPT !.addr = @ - s.mask, !.mask = @ \div 2]
       IN  IF s.size > s.mask THEN [t EXCEPT !.size = @ - s.mask, !.base = @ + s.mask] ELSE t]
mirror(a, size) ==
  LET first == [addr |-> a, size |-> size, base |-> 0, mask |-> pow2[Width - 1]]
      last  == Times(mirrorTurn, Width, first)
  IN  IF size = 0 THEN 0 ELSE last.base + last.addr

\* The bits of mask are cut out, the lowest first; each moves the others down.
lowest(mask) ==
  CHOOSE b \in {pow2[k] : k \in 0..(Width - 1)} : mask % b = 0 /\ bitAt(mask, b)
Reducing == [addr : Address, mask : Address]
reduceTurn == [s \in Reducing |->
  LET b == lowest(s.mask)
  IN  IF s.mask = 0 THEN s
      ELSE [addr |-> b * (s.addr \div (2 * b)) + (s.addr % b), mask |-> (s.mask - b) \div 2]]
reduce(a, mask) == Times(reduceTurn, Width, [addr |-> a, mask |-> mask]).addr

Offset(a, size, base, mask) ==
  IF size = 0 THEN reduce(a, mask)
  ELSE mirror(base, size) + mirror(reduce(a, mask), size - mirror(base, size))

-----------------------------------------------------------------------------
(* Bus::map and Bus::unmap (memory.cpp) *)

Freed(S) == {id \in Ids \ {0} : \E a \in S : lookup[a] = id}
Remaining_All(S, id) == busCounter[id] - Cardinality(S)
Remaining(S, id) == busCounter[id] - Cardinality({a \in S : lookup[a] = id})

\* The addresses of S leave the handlers that they led to; a handler that no
\* address leads to is emptied.
Leave(S) ==
  LET rest == [id \in Ids |-> IF id \in Freed(S) THEN Remaining(S, id) ELSE busCounter[id]]
  IN  [count |-> rest,
       owner |-> [id \in Ids |-> IF id \in Freed(S) /\ rest[id] = 0 THEN None ELSE handlerOf[id]]]

\* The search starts at 1 and ends at the first that no address leads to.
Unused(id) == id \in Ids \ {0} /\ busCounter[id] = 0
Found(id) == Unused(id) /\ \A before \in 1..(id - 1) : ~Unused(before)

Map(h, S, size, base, mask) ==
  /\ \E id \in Ids :
       /\ Found(id)
       /\ lookup' = [a \in Address |-> IF a \in S THEN id ELSE lookup[a]]
       /\ busCounter' = [Leave(S).count EXCEPT ![id] = Cardinality(S)]
       /\ handlerOf' = [Leave(S).owner EXCEPT ![id] = h]
  /\ busTarget' = [a \in Address |->
       IF a \in S THEN Offset(a, size, base, mask) ELSE busTarget[a]]
  /\ mapped' = [a \in Address |-> IF a \in S THEN h ELSE mapped[a]]

\* The pool is exhausted: a message, and nothing is mapped.
MapFails == (\A id \in Ids : ~Unused(id)) /\ UNCHANGED mapVars

Unmap(S) ==
  /\ lookup' = [a \in Address |-> IF a \in S THEN 0 ELSE lookup[a]]
  /\ busTarget' = [a \in Address |-> IF a \in S THEN 0 ELSE busTarget[a]]
  /\ busCounter' = Leave(S).count /\ handlerOf' = Leave(S).owner
  /\ mapped' = [a \in Address |-> IF a \in S THEN OpenBus ELSE mapped[a]]

\* Bus::reset: a game is loaded.
BusInit ==
  /\ lookup = [a \in Address |-> 0] /\ busTarget = [a \in Address |-> 0]
  /\ handlerOf = [id \in Ids |-> IF id = 0 THEN OpenBus ELSE None]
  /\ busCounter = [id \in Ids |-> 0]
  /\ mapped = [a \in Address |-> OpenBus]
BusReset ==
  /\ lookup' = [a \in Address |-> 0] /\ busTarget' = [a \in Address |-> 0]
  /\ handlerOf' = [id \in Ids |-> IF id = 0 THEN OpenBus ELSE None]
  /\ busCounter' = [id \in Ids |-> 0]
  /\ mapped' = [a \in Address |-> OpenBus]

BusNext ==
  \/ \E h \in Handler, S \in Regions, l \in Layouts : Map(h, S, l[1], l[2], l[3])
  \/ MapFails
  \/ \E S \in Regions : Unmap(S)
  \/ BusReset
BusSpec == BusInit /\ [][BusNext]_mapVars

-----------------------------------------------------------------------------
(* Correctness. *)

\* However maps overlap and handlers are given back and used again, an access
\* calls the function that was mapped there last.
HandlersReached == \A a \in Address : handlerOf[lookup[a]] = mapped[a]
=============================================================================
