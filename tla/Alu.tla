--------------------------------- MODULE Alu ---------------------------------
(***************************************************************************)
(* The S-CPU's multiplier and divider, $4202-$4206 and $4214-$4217         *)
(* (sfc/cpu/io.cpp and aluEdge in timing.cpp): a step of the computation   *)
(* is made in every bus cycle while the program goes on, or all at once    *)
(* with fastMath.                                                          *)
(*                                                                         *)
(* A definition whose name ends in _ and a word is a faulty variant of the *)
(* definition that follows it.                                             *)
(***************************************************************************)
EXTENDS Integers, Powers

CONSTANTS
  W,        \* bits of a factor and of a divisor: 8
  Factors   \* bound: the values a program writes to a register

Byte == 0..(pow2[W] - 1)
Word == 0..(pow2[2 * W] - 1)
wide(n) == n % pow2[2 * W]

ASSUME AluAssumption == W \in Nat \ {0} /\ Factors \subseteq Byte

VARIABLES
  wrmpya, wrdiva,   \* operands
  rddiv, rdmpy,     \* results
  mpyctr, divctr, shift,  \* alu: steps that are left
  aluDue            \* history: what rddiv and rdmpy are to be, -1 when unknown

aluVars == <<wrmpya, wrdiva, rddiv, rdmpy, mpyctr, divctr, shift, aluDue>>
Unknown == <<-1, -1>>

AluTypeOK ==
  /\ wrmpya \in Byte /\ wrdiva \in Word /\ rddiv \in Word /\ rdmpy \in Word
  /\ mpyctr \in 0..W /\ divctr \in 0..(2 * W) /\ shift \in 0..pow2[3 * W]
  /\ aluDue \in (Word \cup {-1}) \X (Word \cup {-1})

-----------------------------------------------------------------------------
(* CPU::aluEdge, at the end of a read or idle cycle, at the start of a write and
   five times in a refresh of the memory. *)
Busy == mpyctr # 0 \/ divctr # 0

MultiplyStep ==
  /\ mpyctr' = mpyctr - 1
  /\ rdmpy' = IF rddiv % 2 = 1 THEN wide(rdmpy + shift) ELSE rdmpy
  /\ rddiv' = rddiv \div 2 /\ shift' = 2 * shift
  /\ UNCHANGED divctr

DivideStep_Above ==
  LET half == shift \div 2
      fits == rdmpy > half
  IN  /\ divctr' = divctr - 1 /\ shift' = half
      /\ rdmpy' = IF fits THEN rdmpy - half ELSE rdmpy
      /\ rddiv' = wide(2 * rddiv) + IF fits THEN 1 ELSE 0
      /\ UNCHANGED mpyctr
DivideStep ==
  LET half == shift \div 2
      fits == rdmpy >= half
  IN  /\ divctr' = divctr - 1 /\ shift' = half
      /\ rdmpy' = IF fits THEN rdmpy - half ELSE rdmpy
      /\ rddiv' = wide(2 * rddiv) + IF fits THEN 1 ELSE 0
      /\ UNCHANGED mpyctr

\* Never both: neither starts while the other has steps left.
AluEdge ==
  /\ \/ mpyctr # 0 /\ MultiplyStep
     \/ divctr # 0 /\ DivideStep
  /\ UNCHANGED <<wrmpya, wrdiva, aluDue>>

-----------------------------------------------------------------------------
(* CPU::writeCPU *)

Write4202(data) ==
  /\ wrmpya' = data
  /\ UNCHANGED <<wrdiva, rddiv, rdmpy, mpyctr, divctr, shift, aluDue>>

Write4204(data) ==
  /\ wrdiva' = pow2[W] * (wrdiva \div pow2[W]) + data
  /\ UNCHANGED <<wrmpya, rddiv, rdmpy, mpyctr, divctr, shift, aluDue>>
Write4205(data) ==
  /\ wrdiva' = pow2[W] * data + (wrdiva % pow2[W])
  /\ UNCHANGED <<wrmpya, rddiv, rdmpy, mpyctr, divctr, shift, aluDue>>

\* A computation under way goes on, with what it has so far lost.
Disturb(rest) ==
  /\ Busy /\ rdmpy' = rest /\ aluDue' = Unknown
  /\ UNCHANGED <<rddiv, mpyctr, divctr, shift>>

\* fastMath is read at each write.  rddiv is no result of a multiplication: the
\* steps leave the second factor in it, fastMath both.
Multiply(data, fastMath) ==
  /\ ~Busy /\ rddiv' = pow2[W] * data + wrmpya
  /\ IF fastMath
     THEN rdmpy' = wrmpya * data /\ UNCHANGED <<mpyctr, shift>>
     ELSE rdmpy' = 0 /\ mpyctr' = W /\ shift' = data
  /\ aluDue' = <<-1, wrmpya * data>>
  /\ UNCHANGED divctr
Write4203(data, fastMath) ==
  /\ Disturb(0) \/ Multiply(data, fastMath)
  /\ UNCHANGED <<wrmpya, wrdiva>>

\* Divided by 0 all bits are set, and the dividend remains.
Quotient(n, d) == IF d = 0 THEN pow2[2 * W] - 1 ELSE n \div d
Rest(n, d)     == IF d = 0 THEN n ELSE n % d
Divide(data, fastMath) ==
  /\ ~Busy
  /\ IF fastMath
     THEN /\ rddiv' = Quotient(wrdiva, data) /\ rdmpy' = Rest(wrdiva, data)
          /\ UNCHANGED <<divctr, shift>>
     ELSE /\ rdmpy' = wrdiva /\ divctr' = 2 * W /\ shift' = pow2[2 * W] * data
          /\ UNCHANGED rddiv
  /\ aluDue' = <<Quotient(wrdiva, data), Rest(wrdiva, data)>>
  /\ UNCHANGED mpyctr
Write4206(data, fastMath) ==
  /\ Disturb(wrdiva) \/ Divide(data, fastMath)
  /\ UNCHANGED <<wrmpya, wrdiva>>

\* CPU::power
AluInit ==
  /\ wrmpya = pow2[W] - 1 /\ wrdiva = pow2[2 * W] - 1 /\ rddiv = 0 /\ rdmpy = 0
  /\ mpyctr = 0 /\ divctr = 0 /\ shift = 0 /\ aluDue = Unknown

AluNext ==
  \/ AluEdge
  \/ \E data \in Factors : Write4202(data) \/ Write4204(data) \/ Write4205(data)
  \/ \E data \in Factors, fastMath \in BOOLEAN :
       Write4203(data, fastMath) \/ Write4206(data, fastMath)
AluSpec == AluInit /\ [][AluNext]_aluVars

-----------------------------------------------------------------------------
(* Correctness. *)

\* Nothing outgrows its register, and after the last step, and at once with fastMath,
\* $4216 shows the product, or $4214 the quotient and $4216 the remainder, whatever
\* was written to the operands in between, if no other computation was asked for
\* before the end.
AluExact ==
  /\ AluTypeOK
  /\ ~Busy => /\ aluDue[1] # -1 => rddiv = aluDue[1]
              /\ aluDue[2] # -1 => rdmpy = aluDue[2]
=============================================================================
