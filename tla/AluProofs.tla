----------------------------- MODULE AluProofs -----------------------------
(***************************************************************************)
(* The multiplier and divider are exact, for registers of any width.  The  *)
(* module begins with lemmas about numbers, which other proofs use too:    *)
(* induction, in a form that takes no operator, the existence of functions *)
(* that are defined by recursion, division, and the powers of two.         *)
(***************************************************************************)
EXTENDS Alu, WellFoundedInduction, TLAPS

-----------------------------------------------------------------------------
(* Induction and recursion. *)

Less == {ss \in Nat \X Nat : ss[1] < ss[2]}
LEMMA LessWF == IsWellFoundedOn(Less, Nat)
BY Zenon, NatLessThanWellFounded DEF OpToRel, Less

\* A set of numbers with 0 and with each successor holds every number.
LEMMA NatSet ==
  ASSUME NEW T, 0 \in T, \A n \in T \cap Nat : n + 1 \in T PROVE Nat \subseteq T
<1> SUFFICES ASSUME Nat \ T # {} PROVE FALSE
  OBVIOUS
<1>1. PICK x \in Nat \ T : \A y \in Nat \ T : ~(<<y, x>> \in Less)
  <2> DEFINE U == Nat \ T
  <2>1. U \subseteq Nat /\ U # {}
    OBVIOUS
  <2> HIDE DEF U
  <2>2. \E x \in U : \A y \in U : ~(<<y, x>> \in Less)
    BY LessWF, WFMin, <2>1
  <2> QED BY <2>2 DEF U
<1>2. x \in Nat /\ x # 0
  BY <1>1
<1>3. x - 1 \in Nat /\ (x - 1) + 1 = x /\ x - 1 < x
  BY <1>2
<1>4. CASE x - 1 \in T
  BY <1>1, <1>3, <1>4
<1>5. CASE x - 1 \notin T
  <2>2. <<x - 1, x>> \in Less
    BY <1>2, <1>3 DEF Less
  <2> QED BY <1>1, <1>5, <1>3, <2>2
<1> QED BY <1>4, <1>5

\* f is defined by its value at 0 and, of each other number, by what step makes of
\* the value before.
StepsOn(S) == [Nat -> [S -> S]]
Recursive(f, S, first, step) ==
  f \in [Nat -> S] /\ f[0] = first /\ \A n \in Nat \ {0} : f[n] = step[n][f[n - 1]]

\* There is such a function.
LEMMA PrimitiveRecursion ==
  ASSUME NEW S, NEW first \in S, NEW step \in StepsOn(S)
  PROVE  \E f : Recursive(f, S, first, step)
<1>0. step \in [Nat -> [S -> S]]
  BY DEF StepsOn
<1> DEFINE Upto(n, g) == /\ g \in [0..n -> S] /\ g[0] = first
                         /\ \A k \in 1..n : g[k] = step[k][g[k - 1]]
           T == {n \in Nat : \E g : Upto(n, g)}
<1>1. Nat \subseteq T
  <2>1. 0 \in T
    <3>1. Upto(0, [k \in 0..0 |-> first])
      OBVIOUS
    <3> QED BY <3>1
  <2>2. ASSUME NEW n \in T \cap Nat PROVE n + 1 \in T
    <3>1. PICK g : Upto(n, g)
      OBVIOUS
    <3> DEFINE e == [k \in 0..(n + 1) |-> IF k = n + 1 THEN step[k][g[n]] ELSE g[k]]
    <3>2. g[n] \in S /\ step[n + 1][g[n]] \in S
      BY <1>0, <3>1
    <3>3. e \in [0..(n + 1) -> S]
      BY <3>1, <3>2
    <3>4. e[0] = first
      BY <3>1
    <3>5. \A k \in 1..(n + 1) : e[k] = step[k][e[k - 1]]
      BY <3>1
    <3>6. Upto(n + 1, e)
      BY <3>3, <3>4, <3>5
    <3>7. n + 1 \in Nat
      OBVIOUS
    <3> HIDE DEF e, Upto
    <3> QED BY <3>6, <3>7
  <2> HIDE DEF T
  <2> QED BY <2>1, <2>2, NatSet
<1>2. ASSUME NEW m \in Nat, NEW n \in Nat, NEW g, NEW e, Upto(m, g), Upto(n, e)
      PROVE  \A k \in Nat : k <= m /\ k <= n => g[k] = e[k]
  <2> DEFINE A == {k \in Nat : k <= m /\ k <= n => g[k] = e[k]}
  <2>1. 0 \in A
    BY <1>2
  <2>2. ASSUME NEW k \in A \cap Nat PROVE k + 1 \in A
    <3> SUFFICES ASSUME k + 1 <= m, k + 1 <= n PROVE g[k + 1] = e[k + 1]
      OBVIOUS
    <3>1. g[k] = e[k] /\ k + 1 \in 1..m /\ k + 1 \in 1..n /\ (k + 1) - 1 = k
      OBVIOUS
    <3> QED BY <1>2, <3>1
  <2>3. Nat \subseteq A
    <3> HIDE DEF A
    <3> QED BY <2>1, <2>2, NatSet
  <2> QED BY <2>3
<1> DEFINE part == [n \in Nat |-> CHOOSE g : Upto(n, g)]
           f == [n \in Nat |-> part[n][n]]
<1>3. \A n \in Nat : Upto(n, part[n])
  BY <1>1
<1>4. f \in [Nat -> S]
  <2> SUFFICES ASSUME NEW n \in Nat PROVE part[n][n] \in S
    OBVIOUS
  <2>1. part[n] \in [0..n -> S]
    BY <1>3
  <2> HIDE DEF part, Upto
  <2> QED BY <2>1
<1>5. ASSUME NEW n \in Nat PROVE f[n] = IF n = 0 THEN first ELSE step[n][f[n - 1]]
  <2>1. Upto(n, part[n])
    BY <1>3
  <2>2. CASE n = 0
    BY <2>1, <2>2
  <2>3. CASE n # 0
    <3>1. n - 1 \in Nat /\ n \in 1..n /\ n - 1 <= n
      BY <2>3
    <3>2. Upto(n - 1, part[n - 1])
      BY <1>3, <3>1
    <3>3. part[n][n - 1] = part[n - 1][n - 1]
      <4> HIDE DEF Upto, part
      <4> QED BY <1>2, <2>1, <3>1, <3>2
    <3>4. part[n][n] = step[n][part[n][n - 1]]
      BY <2>1, <3>1
    <3> HIDE DEF Upto, part
    <3> QED BY <2>3, <3>1, <3>3, <3>4
  <2> QED BY <2>2, <2>3
<1> HIDE DEF f
<1>6. f[0] = first /\ \A n \in Nat \ {0} : f[n] = step[n][f[n - 1]]
  BY <1>5
<1>7. Recursive(f, S, first, step)
  BY <1>4, <1>6 DEF Recursive
<1> QED BY <1>7

-----------------------------------------------------------------------------
(* Products and division. *)

LEMMA Product ==
  ASSUME NEW a \in Nat, NEW b \in Nat, NEW x \in Nat, NEW y \in Nat, a <= x, b <= y
  PROVE  a * b \in Nat /\ a * b <= x * y
<1>1. a * b <= x * b
  OBVIOUS
<1>2. x * b <= x * y
  OBVIOUS
<1> QED BY <1>1, <1>2

LEMMA DivMod ==
  ASSUME NEW n \in Nat, NEW d \in Nat \ {0}
  PROVE  n \div d \in Nat /\ n % d \in 0..(d - 1) /\ n = d * (n \div d) + (n % d)
OBVIOUS

\* What is left below the divisor tells the quotient.
LEMMA DivModUnique ==
  ASSUME NEW n \in Nat, NEW d \in Nat \ {0}, NEW q \in Nat, NEW r \in 0..(d - 1), n = d * q + r
  PROVE  n \div d = q /\ n % d = r
<1> DEFINE t == n \div d
           s == n % d
<1>1. t \in Nat /\ s \in 0..(d - 1) /\ d * t + s = d * q + r
  BY DivMod
<1> HIDE DEF t, s
<1>2. CASE t > q
  <2>1. d * t >= d * q + d
    <3>1. d * (q + 1) <= d * t
      BY <1>1, <1>2, Product
    <3>2. d * (q + 1) = d * q + d
      OBVIOUS
    <3> QED BY <3>1, <3>2
  <2>2. d * t \in Nat /\ d * q \in Nat
    BY <1>1
  <2> QED BY <1>1, <2>1, <2>2
<1>3. CASE t < q
  <2>1. d * q >= d * t + d
    <3>1. d * (t + 1) <= d * q
      BY <1>1, <1>3, Product
    <3>2. d * (t + 1) = d * t + d
      BY <1>1
    <3> QED BY <3>1, <3>2
  <2>2. d * t \in Nat /\ d * q \in Nat
    BY <1>1
  <2> QED BY <1>1, <2>1, <2>2
<1>4. CASE t = q
  BY <1>1, <1>4 DEF t, s
<1> QED BY <1>1, <1>2, <1>3, <1>4

-----------------------------------------------------------------------------
(* Powers of two. *)

\* Each is twice the one before.
LEMMA Pow2 ==
  /\ pow2[0] = 1
  /\ \A n \in Nat : pow2[n] \in Nat \ {0} /\ pow2[n + 1] = 2 * pow2[n]
<1> DEFINE S == Nat \ {0}
           step == [n \in Nat |-> [x \in S |-> 2 * x]]
           G(f) == f = [n \in Nat |-> IF n = 0 THEN 1 ELSE 2 * f[n - 1]]
<1>1. \E f \in [Nat -> S] : G(f)
  <2>1. step \in StepsOn(S) /\ 1 \in S
    BY DEF StepsOn
  <2> HIDE DEF step, S, G
  <2>2. PICK f : Recursive(f, S, 1, step)
    BY <2>1, PrimitiveRecursion
  <2>0. f \in [Nat -> S] /\ f[0] = 1 /\ \A n \in Nat \ {0} : f[n] = step[n][f[n - 1]]
    BY <2>2 DEF Recursive
  <2>3. \A n \in Nat \ {0} : step[n][f[n - 1]] = 2 * f[n - 1]
    BY <2>0 DEF step
  <2>6. f = [n \in Nat |-> IF n = 0 THEN 1 ELSE 2 * f[n - 1]]
    BY <2>0, <2>3
  <2> QED BY <2>0, <2>6 DEF G
<1>2. G(pow2)
  <2>1. pow2 = CHOOSE f : G(f)
    BY DEF pow2
  <2> HIDE DEF G
  <2> QED BY <1>1, <2>1
<1>3. pow2[0] = 1 /\ \A n \in Nat : n # 0 => pow2[n] = 2 * pow2[n - 1]
  BY <1>2
<1>4. \A n \in Nat : pow2[n + 1] = 2 * pow2[n]
  <2> SUFFICES ASSUME NEW n \in Nat PROVE pow2[n + 1] = 2 * pow2[n]
    OBVIOUS
  <2>1. n + 1 \in Nat /\ n + 1 # 0 /\ (n + 1) - 1 = n
    OBVIOUS
  <2> QED BY <1>3, <2>1
<1> DEFINE T == {n \in Nat : pow2[n] \in Nat \ {0}}
<1>5. Nat \subseteq T
  <2>1. 0 \in T
    BY <1>3
  <2>2. ASSUME NEW n \in T \cap Nat PROVE n + 1 \in T
    BY <1>4
  <2> HIDE DEF T
  <2> QED BY <2>1, <2>2, NatSet
<1> QED BY <1>3, <1>4, <1>5
\* A shift by m and by n is a shift by m + n.
LEMMA Pow2Sum == \A m, n \in Nat : pow2[m + n] = pow2[m] * pow2[n]
<1> SUFFICES ASSUME NEW m \in Nat PROVE \A n \in Nat : pow2[m + n] = pow2[m] * pow2[n]
  OBVIOUS
<1> DEFINE T == {n \in Nat : pow2[m + n] = pow2[m] * pow2[n]}
<1>1. 0 \in T
  <2>1. pow2[m] * 1 = pow2[m]
    BY Pow2
  <2> QED BY <2>1, Pow2
<1>2. ASSUME NEW n \in T \cap Nat PROVE n + 1 \in T
  <2>1. pow2[m + (n + 1)] = 2 * pow2[m + n]
    <3>1. m + (n + 1) = (m + n) + 1 /\ m + n \in Nat
      OBVIOUS
    <3> QED BY <3>1, Pow2
  <2>2. pow2[n + 1] = 2 * pow2[n] /\ pow2[n] \in Nat /\ pow2[m] \in Nat
    BY Pow2
  <2>3. pow2[m] * (2 * pow2[n]) = 2 * (pow2[m] * pow2[n])
    BY <2>2
  <2> QED BY <2>1, <2>2, <2>3
<1> HIDE DEF T
<1>3. Nat \subseteq T
  BY <1>1, <1>2, NatSet
<1> QED BY <1>3 DEF T

-----------------------------------------------------------------------------
(* What a computation under way has done so far. *)

\* What a multiplication has left: r, the bits of the first factor still to come,
\* above which rddiv has the second.
Multiplying == mpyctr # 0 =>
  /\ divctr = 0
  /\ shift * pow2[mpyctr] <= pow2[2 * W]
  /\ aluDue # Unknown => aluDue[1] = -1 /\
       \E r \in 0..(pow2[mpyctr] - 1), d \in Nat :
         rddiv = pow2[mpyctr] * d + r /\ rdmpy + shift * r = aluDue[2]

\* And a division: q, the digits found, below what rddiv had before it, and in rdmpy
\* what remains of the dividend; by 0 every digit is 1.
Dividing == divctr # 0 =>
  /\ mpyctr = 0
  /\ aluDue # Unknown =>
       \E n \in Word, d \in Byte, j \in 0..(pow2[divctr] - 1),
          q \in 0..(pow2[2 * W - divctr] - 1) :
         /\ aluDue = <<Quotient(n, d), Rest(n, d)>>
         /\ shift = pow2[divctr] * d
         /\ rddiv = pow2[2 * W - divctr] * j + q
         /\ n = shift * q + rdmpy
         /\ IF d = 0 THEN q = pow2[2 * W - divctr] - 1 ELSE rdmpy < shift

AluInv == AluExact /\ Multiplying /\ Dividing

LEMMA Sizes ==
  /\ W \in Nat \ {0} /\ pow2[W] \in Nat \ {0} /\ pow2[2 * W] \in Nat \ {0}
  /\ pow2[3 * W] \in Nat \ {0}
  /\ pow2[2 * W] = pow2[W] * pow2[W] /\ pow2[3 * W] = pow2[2 * W] * pow2[W]
  /\ pow2[W] >= 2 /\ pow2[0] = 1
<1>1. W \in Nat \ {0} /\ 2 * W \in Nat /\ 3 * W \in Nat /\ 2 * W = W + W /\ 3 * W = 2 * W + W
      /\ W - 1 \in Nat /\ W = (W - 1) + 1
  BY AluAssumption
<1>2. pow2[2 * W] = pow2[W] * pow2[W] /\ pow2[3 * W] = pow2[2 * W] * pow2[W]
  BY <1>1, Pow2Sum
<1>3. pow2[W] = 2 * pow2[W - 1] /\ pow2[W - 1] \in Nat \ {0}
  BY <1>1, Pow2
<1> QED BY <1>1, <1>2, <1>3, Pow2

\* A byte by a byte, and a byte above a byte, make a word.
LEMMA BytesMakeWord ==
  ASSUME NEW a \in Byte, NEW b \in Byte
  PROVE  a \in Nat /\ b \in Nat /\ a * b \in Word /\ pow2[W] * a + b \in Word
<1> DEFINE B == pow2[W]
<1>1. B \in Nat \ {0} /\ pow2[2 * W] = B * B /\ a \in 0..(B - 1) /\ b \in 0..(B - 1)
  BY Sizes DEF Byte
<1> HIDE DEF B
<1>2. a * b \in Nat /\ a * b <= (B - 1) * (B - 1)
  BY <1>1, Product
<1>3. (B - 1) * (B - 1) = B * B - 2 * B + 1
  BY <1>1
<1>4. B * a \in Nat /\ B * a <= B * (B - 1)
  BY <1>1, Product
<1>5. B * (B - 1) = B * B - B
  BY <1>1
<1>6. B * B \in Nat
  BY <1>1
<1>7. a * b \in 0..(B * B - 1) /\ B * a + b \in 0..(B * B - 1)
  <2> DEFINE P == a * b  Q == B * a  R == B * B
  <2>1. /\ P \in Nat /\ Q \in Nat /\ R \in Nat /\ P <= R - 2 * B + 1 /\ Q <= R - B
        /\ b \in 0..(B - 1) /\ B \in Nat \ {0}
    BY <1>1, <1>2, <1>3, <1>4, <1>5, <1>6
  <2> HIDE DEF P, Q, R
  <2>2. P \in 0..(R - 1) /\ Q + b \in 0..(R - 1)
    BY <2>1
  <2> QED BY <2>2 DEF P, Q, R
<1> QED BY <1>1, <1>7 DEF Word, B

LEMMA WordOfBytes ==
  ASSUME NEW n \in Word
  PROVE  n \in Nat /\ n \div pow2[W] \in Byte /\ n % pow2[W] \in Byte
<1> DEFINE B == pow2[W]
<1>1. B \in Nat \ {0} /\ pow2[2 * W] = B * B /\ n \in 0..(B * B - 1)
  BY Sizes DEF Word
<1>2. B * B \in Nat
  BY <1>1
<1>3. n \in Nat /\ n < B * B
  BY <1>1, <1>2
<1> HIDE DEF B
<1>4. n \div B \in Nat /\ n % B \in 0..(B - 1) /\ n = B * (n \div B) + (n % B)
  BY <1>1, <1>3, DivMod
<1> DEFINE t == n \div B
<1>5. t \in Nat /\ B * t <= n
  <2>1. B * t \in Nat
    BY <1>1, <1>4
  <2> QED BY <1>4, <2>1
<1>6. t <= B - 1
  <2> SUFFICES ASSUME t >= B PROVE FALSE
    BY <1>1, <1>5
  <2> HIDE DEF t
  <2>1. B * B <= B * t
    BY <1>1, <1>5, Product
  <2>2. B * t \in Nat
    BY <1>1, <1>5
  <2> QED BY <1>2, <1>3, <1>5, <2>1, <2>2
<1> QED BY <1>1, <1>3, <1>4, <1>5, <1>6 DEF Byte, B

LEMMA ByteInWord == Byte \subseteq Word
<1>1. pow2[W] <= pow2[2 * W]
  <2>1. 1 * pow2[W] <= pow2[W] * pow2[W]
    BY Sizes, Product
  <2> QED BY <2>1, Sizes
<1> QED BY <1>1, Sizes DEF Byte, Word

\* Quotient and remainder fit a word.
LEMMA DueType ==
  ASSUME NEW n \in Word, NEW d \in Byte
  PROVE  Quotient(n, d) \in Word /\ Rest(n, d) \in Word
<1>1. n \in Nat /\ d \in Nat /\ n < pow2[2 * W]
  BY Sizes DEF Word, Byte
<1>2. CASE d = 0
  BY <1>1, <1>2, Sizes DEF Word, Quotient, Rest
<1>3. CASE d # 0
  <2>1. n \div d \in Nat /\ n % d \in 0..(d - 1) /\ n = d * (n \div d) + (n % d)
    BY <1>1, <1>3, DivMod
  <2> DEFINE t == n \div d  s == n % d
  <2>2. t \in Nat /\ s \in Nat /\ n = d * t + s
    BY <1>1, <2>1
  <2> HIDE DEF t, s
  <2>3. 1 * t <= d * t /\ d * t \in Nat
    BY <1>1, <1>3, <2>2, Product
  <2>4. t <= n /\ s <= n
    BY <2>2, <2>3
  <2>5. t \in Word /\ s \in Word
    BY <1>1, <2>2, <2>4, Sizes DEF Word
  <2> QED BY <1>3, <2>5 DEF Quotient, Rest, t, s
<1> QED BY <1>2, <1>3

LEMMA InitAluInv == AluInit => AluInv
<1> SUFFICES ASSUME AluInit PROVE AluInv
  OBVIOUS
<1>1. AluTypeOK
  <2>1. wrmpya \in Byte /\ wrdiva \in Word /\ rddiv \in Word /\ rdmpy \in Word
    BY Sizes DEF AluInit, Byte, Word
  <2>2. mpyctr \in 0..W /\ divctr \in 0..(2 * W) /\ shift \in 0..pow2[3 * W]
    BY Sizes DEF AluInit
  <2>3. aluDue \in (Word \cup {-1}) \X (Word \cup {-1})
    BY DEF AluInit, Unknown
  <2> QED BY <2>1, <2>2, <2>3 DEF AluTypeOK
<1>2. aluDue[1] = -1 /\ aluDue[2] = -1
  BY DEF AluInit, Unknown
<1> QED BY <1>1, <1>2 DEF AluInit, AluInv, AluExact, Multiplying, Dividing

LEMMA WideType == ASSUME NEW n \in Nat PROVE wide(n) \in Word
BY DivMod, Sizes DEF wide, Word

LEMMA WideSame == ASSUME NEW n \in Word PROVE wide(n) = n
BY Sizes DEF wide, Word

\* One step of the multiplication.
LEMMA MultiplyInv ==
  ASSUME AluInv, mpyctr # 0, MultiplyStep, UNCHANGED <<wrmpya, wrdiva, aluDue>>
  PROVE  AluInv'
<1>1. AluTypeOK /\ divctr = 0 /\ mpyctr \in 1..W /\ mpyctr' = mpyctr - 1 /\ divctr' = 0
  BY DEF AluInv, AluExact, AluTypeOK, Multiplying, MultiplyStep
<1> DEFINE m == pow2[mpyctr - 1]
<1>2. m \in Nat \ {0} /\ pow2[mpyctr] = 2 * m
  <2>1. mpyctr - 1 \in Nat /\ mpyctr = (mpyctr - 1) + 1
    BY <1>1, Sizes
  <2> QED BY <2>1, Pow2
<1>3. rddiv \in Nat /\ rdmpy \in Nat /\ shift \in Nat
  BY <1>1, Sizes DEF AluTypeOK, Word
<1>4. shift * (2 * m) <= pow2[2 * W]
  BY <1>1, <1>2 DEF AluInv, Multiplying
<1> HIDE DEF m
<1>5. shift' * m <= pow2[2 * W]
  <2>1. (2 * shift) * m = shift * (2 * m)
    BY <1>2, <1>3
  <2> QED BY <1>4, <2>1 DEF MultiplyStep
<1>6. shift' \in 0..pow2[3 * W]
  <2> DEFINE s == 2 * shift
  <2>1. s \in Nat /\ shift' = s /\ s * m <= pow2[2 * W]
    BY <1>3, <1>5 DEF MultiplyStep
  <2> HIDE DEF s
  <2>2. s * 1 <= s * m /\ s * m \in Nat
    BY <1>2, <2>1, Product
  <2>3. pow2[2 * W] * 1 <= pow2[2 * W] * pow2[W]
    BY Sizes, Product
  <2> QED BY <2>1, <2>2, <2>3, Sizes
<1>7. rddiv' \in Word /\ rdmpy' \in Word
  <2>1. rddiv' \in Word
    BY <1>1, <1>3, Sizes DEF MultiplyStep, AluTypeOK, Word
  <2>2. rdmpy + shift \in Nat
    BY <1>3
  <2> QED BY <1>1, <2>1, <2>2, WideType DEF MultiplyStep, AluTypeOK
<1>8. AluTypeOK'
  <2>1. mpyctr' \in 0..W /\ divctr' \in 0..(2 * W)
    BY <1>1, Sizes
  <2> QED BY <1>1, <1>6, <1>7, <2>1 DEF AluTypeOK
<1>9. ASSUME aluDue # Unknown
      PROVE  aluDue[1] = -1 /\
             \E r \in 0..(m - 1), d \in Nat :
               rddiv' = m * d + r /\ rdmpy' + shift' * r = aluDue[2]
  <2>1. PICK r \in 0..(2 * m - 1), d \in Nat :
          rddiv = (2 * m) * d + r /\ rdmpy + shift * r = aluDue[2]
    BY <1>1, <1>2, <1>9 DEF AluInv, Multiplying
  <2>2. aluDue[1] = -1
    BY <1>1, <1>9 DEF AluInv, Multiplying
  <2>3. aluDue[2] \in Word
    <3>1. aluDue[2] \in Word \cup {-1}
      BY <1>1 DEF AluTypeOK
    <3>2. shift * r \in Nat
      BY <1>2, <1>3, <2>1
    <3> QED BY <1>3, <2>1, <3>1, <3>2
  <2> DEFINE e == r \div 2
  <2>4. e \in 0..(m - 1) /\ r = 2 * e + (r % 2) /\ r % 2 \in 0..1
    BY <1>2, <2>1
  <2>5. rddiv % 2 = r % 2 /\ rddiv' = m * d + e
    <3> DEFINE x == m * d
    <3>1. x \in Nat /\ rddiv = 2 * x + r
      BY <1>2, <2>1
    <3> HIDE DEF x
    <3>2. rddiv % 2 = r % 2 /\ rddiv \div 2 = x + (r \div 2)
      BY <1>2, <2>1, <3>1
    <3> QED BY <3>2 DEF x, MultiplyStep
  <2> HIDE DEF e
  <2>6. rdmpy' + shift' * e = aluDue[2]
    <3> DEFINE y == shift * e
    <3>1. y \in Nat /\ shift' * e = 2 * y
      BY <1>3, <2>4 DEF MultiplyStep
    <3>2. CASE r % 2 = 1
      <4>1. shift * r = 2 * y + shift
        <5>1. r = 2 * e + 1
          BY <2>4, <3>2
        <5>2. shift * (2 * e + 1) = 2 * (shift * e) + shift
          BY <1>3, <2>4
        <5> QED BY <5>1, <5>2
      <4>2. rdmpy + shift \in Word
        BY <1>3, <2>1, <2>3, <3>1, <4>1, Sizes DEF Word
      <4>3. rdmpy' = rdmpy + shift
        BY <2>5, <3>2, <4>2, WideSame DEF MultiplyStep
      <4> QED BY <1>3, <2>1, <3>1, <4>1, <4>3
    <3>3. CASE r % 2 = 0
      <4>1. shift * r = 2 * y
        <5>1. r = 2 * e
          BY <2>4, <3>3
        <5>2. shift * (2 * e) = 2 * (shift * e)
          BY <1>3, <2>4
        <5> QED BY <5>1, <5>2
      <4>2. rdmpy' = rdmpy
        BY <2>5, <3>3 DEF MultiplyStep
      <4> QED BY <2>1, <3>1, <4>1, <4>2
    <3> QED BY <2>4, <3>2, <3>3
  <2> QED BY <2>2, <2>4, <2>5, <2>6
<1>10. Multiplying'
  BY <1>1, <1>5, <1>9 DEF Multiplying, m
<1>11. AluExact'
  <2>1. CASE mpyctr' = 0
    <3>1. m = 1
      BY <1>1, <2>1, Pow2 DEF m
    <3>2. ASSUME aluDue # Unknown PROVE aluDue[1] = -1 /\ rdmpy' = aluDue[2]
      <4>1. PICK r \in 0..(m - 1), d \in Nat : rdmpy' + shift' * r = aluDue[2]
        BY <1>9, <3>2
      <4>2. r = 0 /\ rdmpy' \in Nat
        BY <1>7, <3>1, Sizes DEF Word
      <4>3. (2 * shift) * 0 = 0 /\ shift' = 2 * shift
        BY <1>3 DEF MultiplyStep
      <4> QED BY <1>9, <3>2, <4>1, <4>2, <4>3
    <3> QED BY <1>8, <3>2 DEF AluExact, Unknown
  <2>2. CASE mpyctr' # 0
    BY <1>8, <2>2 DEF AluExact, Busy
  <2> QED BY <2>1, <2>2
<1> QED BY <1>1, <1>10, <1>11 DEF AluInv, Dividing

\* A shift of a word by one loses its highest bit.
LEMMA WideTwice ==
  ASSUME NEW x \in Word, NEW y \in Nat, pow2[2 * W] = 2 * y
  PROVE  wide(2 * x) = IF x < y THEN 2 * x ELSE 2 * x - 2 * y
<1> DEFINE z == 2 * y
<1>1. z \in Nat \ {0} /\ x \in 0..(z - 1) /\ wide(2 * x) = (2 * x) % z
  <2>1. z = pow2[2 * W] /\ z \in Nat \ {0}
    BY Sizes
  <2> HIDE DEF z
  <2> QED BY <2>1 DEF Word, wide
<1>2. CASE x < y
  <2>1. 2 * x \in 0..(z - 1) /\ 2 * x = z * 0 + 2 * x
    BY <1>1, <1>2
  <2> QED BY <1>1, <1>2, <2>1, DivModUnique
<1>3. CASE x >= y
  <2> DEFINE t == 2 * x
             r == t - z
  <2>1. t \in Nat /\ r \in 0..(z - 1) /\ t = z * 1 + r
    BY <1>1, <1>3
  <2> HIDE DEF z, t, r
  <2>2. t % z = r
    BY <1>1, <2>1, DivModUnique
  <2> QED BY <1>1, <1>3, <2>2 DEF z, t, r
<1> QED BY <1>1, <1>2, <1>3

\* One step of the division.
LEMMA DivideInv ==
  ASSUME AluInv, divctr # 0, DivideStep, UNCHANGED <<wrmpya, wrdiva, aluDue>>
  PROVE  AluInv'
<1>1. AluTypeOK /\ mpyctr = 0 /\ divctr \in 1..(2 * W) /\ divctr' = divctr - 1 /\ mpyctr' = 0
  BY DEF AluInv, AluExact, AluTypeOK, Dividing, DivideStep
<1> DEFINE m == pow2[divctr - 1]
           p == pow2[2 * W - divctr]
           y == p * m
           half == shift \div 2
           fits == rdmpy >= half
           digit == IF fits THEN 1 ELSE 0
<1>2. /\ m \in Nat \ {0} /\ p \in Nat \ {0} /\ pow2[divctr] = 2 * m
      /\ pow2[2 * W - divctr'] = 2 * p /\ pow2[2 * W] = 2 * y
  <2>1. /\ divctr - 1 \in Nat /\ divctr = (divctr - 1) + 1 /\ divctr \in Nat
        /\ 2 * W - divctr \in Nat /\ 2 * W - divctr' = (2 * W - divctr) + 1
        /\ 2 * W = (2 * W - divctr) + divctr
    BY <1>1, Sizes
  <2>2. m \in Nat \ {0} /\ p \in Nat \ {0} /\ pow2[divctr] = 2 * m
        /\ pow2[2 * W - divctr'] = 2 * p
    BY <2>1, Pow2
  <2>3. pow2[2 * W] = p * pow2[divctr]
    BY <2>1, Pow2Sum
  <2> HIDE DEF m, p
  <2>4. p * (2 * m) = 2 * (p * m)
    BY <2>2
  <2> QED BY <2>2, <2>3, <2>4 DEF y
<1>3. /\ rddiv \in Word /\ rddiv \in Nat /\ rdmpy \in Nat /\ shift \in Nat /\ half \in Nat
      /\ half <= shift
  BY <1>1, Sizes DEF AluTypeOK, Word
<1>4. /\ shift' = half /\ rdmpy' = (IF fits THEN rdmpy - half ELSE rdmpy)
      /\ rddiv' = wide(2 * rddiv) + digit
  BY DEF DivideStep
<1> HIDE DEF m, p, half
<1>5. y \in Nat
  BY <1>2
<1>6. wide(2 * rddiv) = IF rddiv < y THEN 2 * rddiv ELSE 2 * rddiv - 2 * y
  BY <1>2, <1>3, <1>5, WideTwice
<1>7. AluTypeOK'
  <2>1. rddiv' \in Word
    <3>1. rddiv \in 0..(2 * y - 1)
      BY <1>2, <1>3 DEF Word
    <3> HIDE DEF y
    <3>2. wide(2 * rddiv) + digit \in 0..(2 * y - 1)
      BY <1>5, <1>6, <3>1
    <3> QED BY <1>2, <1>4, <3>2 DEF Word
  <2>2. rdmpy' \in Word
    BY <1>1, <1>3, <1>4, Sizes DEF AluTypeOK, Word
  <2>3. mpyctr' \in 0..W /\ divctr' \in 0..(2 * W) /\ shift' \in 0..pow2[3 * W]
    BY <1>1, <1>3, <1>4, Sizes DEF AluTypeOK
  <2> QED BY <1>1, <2>1, <2>2, <2>3 DEF AluTypeOK
<1>8. ASSUME aluDue # Unknown
      PROVE  \E n \in Word, d \in Byte, j \in 0..(m - 1), q \in 0..(2 * p - 1) :
               /\ aluDue = <<Quotient(n, d), Rest(n, d)>>
               /\ shift' = m * d
               /\ rddiv' = (2 * p) * j + q
               /\ n = shift' * q + rdmpy'
               /\ IF d = 0 THEN q = 2 * p - 1 ELSE rdmpy' < shift'
  <2>1. PICK n \in Word, d \in Byte, j \in 0..(2 * m - 1), q \in 0..(p - 1) :
               /\ aluDue = <<Quotient(n, d), Rest(n, d)>>
               /\ shift = (2 * m) * d
               /\ rddiv = p * j + q
               /\ n = shift * q + rdmpy
               /\ IF d = 0 THEN q = p - 1 ELSE rdmpy < shift
    BY <1>2, <1>8 DEF AluInv, Dividing, p
  <2>2. d \in Nat /\ n \in Nat
    BY Sizes DEF Byte, Word
  <2>3. half = m * d /\ shift = 2 * half
    <3> DEFINE x == m * d
    <3>1. x \in Nat /\ shift = 2 * x
      BY <1>2, <2>1, <2>2
    <3> HIDE DEF x
    <3>2. half = x
      BY <3>1 DEF half
    <3> QED BY <3>1, <3>2 DEF x
  <2> DEFINE jj == IF j < m THEN j ELSE j - m
             qq == 2 * q + digit
  <2>4. jj \in 0..(m - 1) /\ qq \in 0..(2 * p - 1)
    BY <1>2
  <2>5. wide(2 * rddiv) = (2 * p) * jj + 2 * q
    <3>1. p * j \in Nat
      BY <1>2
    <3>2. CASE j < m
      <4>1. p * (j + 1) <= p * m
        BY <1>2, <3>2, Product
      <4>2. p * (j + 1) = p * j + p
        BY <1>2
      <4>3. rddiv < y
        BY <1>2, <1>5, <2>1, <3>1, <4>1, <4>2
      <4>4. (2 * p) * j = 2 * (p * j)
        BY <1>2
      <4> QED BY <1>2, <1>6, <2>1, <3>1, <3>2, <4>3, <4>4
    <3>3. CASE j >= m
      <4>1. p * m <= p * j
        BY <1>2, <3>3, Product
      <4>2. rddiv >= y
        BY <1>2, <1>5, <2>1, <3>1, <4>1
      <4>3. (2 * p) * (j - m) = 2 * (p * j) - 2 * (p * m)
        BY <1>2
      <4>4. wide(2 * rddiv) = 2 * rddiv - 2 * y /\ jj = j - m
        BY <1>2, <1>3, <1>5, <1>6, <3>3, <4>2
      <4> QED BY <1>2, <1>5, <2>1, <3>1, <4>3, <4>4
    <3> QED BY <1>2, <3>2, <3>3
  <2>6. rddiv' = (2 * p) * jj + qq
    <3>1. (2 * p) * jj \in Nat
      BY <1>2, <2>4
    <3> QED BY <1>4, <2>5, <3>1
  <2>7. n = half * qq + (IF fits THEN rdmpy - half ELSE rdmpy)
    <3>1. n = (2 * half) * q + rdmpy
      BY <2>1, <2>3
    <3>2. (2 * half) * q = half * (2 * q) /\ half * (2 * q) \in Nat
      BY <1>3
    <3>3. half * (2 * q + 1) = half * (2 * q) + half
      BY <1>3
    <3>4. CASE fits
      BY <1>3, <3>1, <3>2, <3>3, <3>4
    <3>5. CASE ~fits
      BY <1>3, <3>1, <3>2, <3>5
    <3> QED BY <3>4, <3>5
  <2>8. IF d = 0 THEN qq = 2 * p - 1 ELSE rdmpy' < half
    <3>1. CASE d = 0
      <4>1. half = 0
        <5>1. m * 0 = 0
          BY <1>2
        <5> QED BY <2>3, <3>1, <5>1
      <4>2. fits
        BY <1>3, <4>1
      <4> QED BY <1>2, <2>1, <3>1, <4>2
    <3>2. CASE d # 0
      BY <1>3, <1>4, <2>1, <2>3, <3>2
    <3> QED BY <3>1, <3>2
  <2> HIDE DEF jj, qq
  <2> QED BY <1>4, <2>1, <2>3, <2>4, <2>6, <2>7, <2>8
<1>9. Dividing'
  <2>1. pow2[divctr'] = m
    BY <1>1 DEF m
  <2> HIDE DEF y, fits, digit
  <2>2. UNCHANGED aluDue
    OBVIOUS
  <2>3. CASE aluDue # Unknown
    <3>1. PICK n \in Word, d \in Byte, j \in 0..(m - 1), q \in 0..(2 * p - 1) :
               /\ aluDue = <<Quotient(n, d), Rest(n, d)>>
               /\ shift' = m * d
               /\ rddiv' = (2 * p) * j + q
               /\ n = shift' * q + rdmpy'
               /\ IF d = 0 THEN q = 2 * p - 1 ELSE rdmpy' < shift'
      BY <1>8, <2>3
    <3> QED BY <1>1, <1>2, <2>1, <2>2, <3>1 DEF Dividing
  <2>4. CASE aluDue = Unknown
    BY <1>1, <2>2, <2>4 DEF Dividing, Unknown
  <2> QED BY <2>3, <2>4
<1>10. AluExact'
  <2>1. CASE divctr' = 0
    <3>1. m = 1 /\ 2 * p = pow2[2 * W]
      <4>1. 2 * p = pow2[2 * W]
        BY <1>2, <2>1, Sizes
      <4> QED BY <1>1, <2>1, <4>1, Pow2 DEF m
    <3>2. ASSUME aluDue # Unknown PROVE rddiv' = aluDue[1] /\ rdmpy' = aluDue[2]
      <4>1. PICK n \in Word, d \in Byte, j \in 0..(m - 1), q \in 0..(2 * p - 1) :
               /\ aluDue = <<Quotient(n, d), Rest(n, d)>>
               /\ shift' = m * d
               /\ rddiv' = (2 * p) * j + q
               /\ n = shift' * q + rdmpy'
               /\ IF d = 0 THEN q = 2 * p - 1 ELSE rdmpy' < shift'
        BY <1>8, <3>2
      <4>2. d \in Nat /\ n \in Nat /\ rdmpy' \in Nat
        BY <1>7, Sizes DEF Byte, Word, AluTypeOK
      <4>3. j = 0 /\ (2 * p) * 0 = 0 /\ rddiv' = q /\ shift' = d
        BY <1>2, <3>1, <4>1, <4>2
      <4>4. CASE d = 0
        <5>1. d * q = 0
          BY <1>2, <4>1, <4>4
        <5> QED BY <3>1, <4>1, <4>2, <4>3, <4>4, <5>1 DEF Quotient, Rest
      <4>5. CASE d # 0
        <5>1. n = d * q + rdmpy' /\ rdmpy' \in 0..(d - 1) /\ q \in Nat
          BY <1>2, <4>1, <4>2, <4>3, <4>5
        <5>2. n \div d = q /\ n % d = rdmpy'
          BY <4>2, <4>5, <5>1, DivModUnique
        <5> QED BY <4>1, <4>3, <4>5, <5>2 DEF Quotient, Rest
      <4> QED BY <4>4, <4>5
    <3> QED BY <1>7, <3>2 DEF AluExact, Unknown
  <2>2. CASE divctr' # 0
    BY <1>7, <2>2 DEF AluExact, Busy
  <2> QED BY <2>1, <2>2
<1> QED BY <1>1, <1>9, <1>10 DEF AluInv, Multiplying

-----------------------------------------------------------------------------
(* The registers. *)

\* A write that starts a computation, or disturbs one.
LEMMA WriteInv ==
  ASSUME AluInv, NEW data \in Factors, NEW fastMath \in BOOLEAN,
         Write4203(data, fastMath) \/ Write4206(data, fastMath)
  PROVE  AluInv'
<1>1. AluTypeOK /\ data \in Byte /\ data \in Nat
  BY AluAssumption, Sizes DEF AluInv, AluExact, Byte
<1>2. /\ wrmpya' = wrmpya /\ wrdiva' = wrdiva /\ wrmpya \in Byte /\ wrdiva \in Word
      /\ 0 \in Word /\ wrmpya \in Nat
  BY <1>1, Sizes DEF Write4203, Write4206, AluTypeOK, Byte, Word
<1>3. ASSUME NEW rest \in Word, Disturb(rest) PROVE AluInv'
  <2>1. aluDue' = Unknown /\ aluDue' \in (Word \cup {-1}) \X (Word \cup {-1})
    BY <1>3 DEF Disturb, Unknown
  <2>2. AluTypeOK'
    BY <1>1, <1>2, <1>3, <2>1 DEF AluTypeOK, Disturb
  <2>3. AluExact'
    BY <1>3, <2>2 DEF AluExact, Disturb, Busy
  <2>4. Multiplying'
    BY <1>3, <2>1 DEF AluInv, Multiplying, Disturb
  <2>5. Dividing'
    BY <1>3, <2>1 DEF AluInv, Dividing, Disturb
  <2> QED BY <2>3, <2>4, <2>5 DEF AluInv
<1>4. ASSUME Multiply(data, fastMath) PROVE AluInv'
  <2>1. mpyctr = 0 /\ divctr = 0 /\ divctr' = 0
    BY <1>4 DEF Multiply, Busy
  <2>2. aluDue' = <<-1, wrmpya * data>> /\ rddiv' = pow2[W] * data + wrmpya
    BY <1>4 DEF Multiply
  <2>3. wrmpya * data \in Word /\ rddiv' \in Word /\ wrmpya * data \in Nat
    BY <1>1, <1>2, <2>2, BytesMakeWord, Sizes DEF Word
  <2>4. aluDue' \in (Word \cup {-1}) \X (Word \cup {-1})
    BY <2>2, <2>3
  <2>5. CASE fastMath
    <3>1. rdmpy' = wrmpya * data /\ mpyctr' = 0 /\ shift' = shift
      BY <1>4, <2>1, <2>5 DEF Multiply
    <3>2. AluTypeOK'
      BY <1>1, <1>2, <2>1, <2>3, <2>4, <3>1 DEF AluTypeOK
    <3>3. AluExact'
      BY <2>2, <3>1, <3>2 DEF AluExact
    <3> QED BY <2>1, <3>1, <3>3 DEF AluInv, Multiplying, Dividing
  <2>6. CASE ~fastMath
    <3>1. rdmpy' = 0 /\ mpyctr' = W /\ shift' = data
      BY <1>4, <2>6 DEF Multiply
    <3>2. data <= pow2[2 * W] /\ data <= pow2[3 * W] /\ data * pow2[W] <= pow2[2 * W]
      <4>1. data <= pow2[W]
        BY <1>1, Sizes DEF Byte
      <4>2. data * pow2[W] <= pow2[W] * pow2[W] /\ pow2[W] * 1 <= pow2[W] * pow2[W]
        BY <1>1, <4>1, Sizes, Product
      <4>3. pow2[2 * W] * 1 <= pow2[2 * W] * pow2[W]
        BY Sizes, Product
      <4> QED BY <1>1, <4>1, <4>2, <4>3, Sizes
    <3>3. AluTypeOK'
      BY <1>1, <1>2, <2>1, <2>3, <2>4, <3>1, <3>2, Sizes DEF AluTypeOK
    <3>4. AluExact'
      BY <3>1, <3>3, Sizes DEF AluExact, Busy
    <3>5. Multiplying'
      <4>1. wrmpya \in 0..(pow2[mpyctr'] - 1) /\ data * wrmpya = wrmpya * data
        BY <1>1, <1>2, <3>1 DEF Byte
      <4>2. rddiv' = pow2[mpyctr'] * data + wrmpya /\ rdmpy' + shift' * wrmpya = aluDue'[2]
        BY <2>2, <2>3, <3>1, <4>1
      <4> QED BY <1>1, <2>1, <2>2, <3>1, <3>2, <4>1, <4>2 DEF Multiplying
    <3> QED BY <2>1, <3>4, <3>5 DEF AluInv, Dividing
  <2> QED BY <2>5, <2>6
<1>5. ASSUME Divide(data, fastMath) PROVE AluInv'
  <2>1. mpyctr = 0 /\ divctr = 0 /\ mpyctr' = 0
    BY <1>5 DEF Divide, Busy
  <2>2. aluDue' = <<Quotient(wrdiva, data), Rest(wrdiva, data)>>
    BY <1>5 DEF Divide
  <2>3. Quotient(wrdiva, data) \in Word /\ Rest(wrdiva, data) \in Word
    BY <1>1, <1>2, DueType
  <2>4. aluDue' \in (Word \cup {-1}) \X (Word \cup {-1})
    BY <2>2, <2>3
  <2>5. CASE fastMath
    <3>1. /\ rddiv' = Quotient(wrdiva, data) /\ rdmpy' = Rest(wrdiva, data)
          /\ divctr' = 0 /\ shift' = shift
      BY <1>5, <2>1, <2>5 DEF Divide
    <3>2. AluTypeOK'
      BY <1>1, <1>2, <2>1, <2>3, <2>4, <3>1 DEF AluTypeOK
    <3>3. AluExact'
      BY <2>2, <3>1, <3>2 DEF AluExact
    <3> QED BY <2>1, <3>1, <3>3 DEF AluInv, Multiplying, Dividing
  <2>6. CASE ~fastMath
    <3>1. /\ rddiv' = rddiv /\ rdmpy' = wrdiva /\ divctr' = 2 * W
          /\ shift' = pow2[2 * W] * data
      BY <1>5, <2>6 DEF Divide
    <3>2. pow2[2 * W] * data \in Nat /\ pow2[2 * W] * data <= pow2[3 * W]
      <4>1. data <= pow2[W]
        BY <1>1, Sizes DEF Byte
      <4> QED BY <1>1, <4>1, Sizes, Product
    <3>3. AluTypeOK'
      BY <1>1, <1>2, <2>1, <2>4, <3>1, <3>2, Sizes DEF AluTypeOK
    <3>4. AluExact'
      BY <3>1, <3>3, Sizes DEF AluExact, Busy
    <3>5. Dividing'
      <4>1. pow2[divctr'] = pow2[2 * W] /\ pow2[2 * W - divctr'] = 1
        <5>1. 2 * W - divctr' = 0
          BY <3>1, Sizes
        <5> QED BY <3>1, <5>1, Sizes
      <4>2. rddiv \in 0..(pow2[divctr'] - 1) /\ rddiv \in Nat
        BY <1>1, <4>1, Sizes DEF AluTypeOK, Word
      <4>3. /\ shift' = pow2[divctr'] * data
            /\ rddiv' = pow2[2 * W - divctr'] * rddiv + 0
            /\ wrdiva = shift' * 0 + rdmpy'
        <5>1. (pow2[2 * W] * data) * 0 = 0 /\ wrdiva \in Nat
          BY <1>2, <3>2, Sizes DEF Word
        <5> QED BY <3>1, <4>1, <4>2, <5>1
      <4>4. IF data = 0 THEN 0 = pow2[2 * W - divctr'] - 1 ELSE rdmpy' < shift'
        <5>1. CASE data = 0
          BY <4>1, <5>1
        <5>2. CASE data # 0
          <6>1. pow2[2 * W] * 1 <= pow2[2 * W] * data
            BY <1>1, <5>2, Sizes, Product
          <6>2. wrdiva < pow2[2 * W] /\ wrdiva \in Nat
            BY <1>2, Sizes DEF Word
          <6> QED BY <3>1, <3>2, <5>2, <6>1, <6>2, Sizes
        <5> QED BY <5>1, <5>2
      <4>5. 0 \in 0..(pow2[2 * W - divctr'] - 1)
        BY <4>1
      <4> QED BY <1>1, <1>2, <2>1, <2>2, <4>2, <4>3, <4>4, <4>5 DEF Dividing
    <3> QED BY <2>1, <3>4, <3>5 DEF AluInv, Multiplying
  <2> QED BY <2>5, <2>6
<1> QED BY <1>2, <1>3, <1>4, <1>5 DEF Write4203, Write4206

LEMMA NextAluInv == AluInv /\ [AluNext]_aluVars => AluInv'
<1> SUFFICES ASSUME AluInv, [AluNext]_aluVars PROVE AluInv'
  OBVIOUS
<1>0. AluTypeOK
  BY DEF AluInv, AluExact
<1>1. CASE AluEdge
  BY <1>1, MultiplyInv, DivideInv DEF AluEdge
<1>2. ASSUME UNCHANGED <<rddiv, rdmpy, mpyctr, divctr, shift, aluDue>>,
             wrmpya' \in Byte, wrdiva' \in Word
      PROVE  AluInv'
  <2>1. AluTypeOK'
    BY <1>0, <1>2 DEF AluTypeOK
  <2> QED BY <1>2, <2>1 DEF AluInv, AluExact, Busy, Multiplying, Dividing
<1>3. ASSUME NEW data \in Factors, Write4202(data) \/ Write4204(data) \/ Write4205(data)
      PROVE  AluInv'
  <2>1. data \in Byte /\ wrmpya \in Byte /\ wrdiva \in Word
    BY <1>0, AluAssumption DEF AluTypeOK
  <2>2. wrdiva \div pow2[W] \in Byte /\ wrdiva % pow2[W] \in Byte
    BY <2>1, WordOfBytes
  <2>3. /\ pow2[W] * (wrdiva \div pow2[W]) + data \in Word
        /\ pow2[W] * data + (wrdiva % pow2[W]) \in Word
    BY <2>1, <2>2, BytesMakeWord
  <2> QED BY <1>2, <1>3, <2>1, <2>3 DEF Write4202, Write4204, Write4205
<1>4. CASE UNCHANGED aluVars
  BY <1>0, <1>2, <1>4 DEF aluVars, AluTypeOK
<1> QED BY <1>1, <1>3, <1>4, WriteInv DEF AluNext

\* The S-CPU's multiplier and divider give the exact product, quotient and remainder,
\* for registers of any width and whatever a program writes to the operands while
\* they work.
THEOREM ArithmeticIsExact == AluSpec => []AluExact
<1>1. AluInv => AluExact
  BY DEF AluInv
<1> QED BY <1>1, InitAluInv, NextAluInv, PTL DEF AluSpec
=============================================================================
