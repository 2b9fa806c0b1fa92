----------------------------- MODULE CrcProofs -----------------------------
(***************************************************************************)
(* CRC.cpp computes the remainder of the polynomial division, and tells a  *)
(* packet from every other that differs from it in one byte: for any       *)
(* number of bits in a byte and any polynomial, the second for those that  *)
(* end in 1.  The loops are recursive functions, and what is proved about  *)
(* them goes up or down their turns (Ascent, Descent): as every set of     *)
(* naturals has a least element, a set that has the first turn, and with   *)
(* each turn the next, has them all.                                       *)
(***************************************************************************)
EXTENDS PacketCrc, PacketReceiverProofs, FiniteSetTheorems, WellFoundedInduction

(* Every set of naturals has a least element: the descending chains of the *)
(* library's theorem do not exist.                                         *)
Below == {ss \in Nat \X Nat : ss[1] < ss[2]}
LEMMA BelowWellFounded == IsWellFoundedOn(Below, Nat)
  BY NatLessThanWellFounded DEF OpToRel, IsWellFoundedOn, Below

LEMMA LeastElement ==
  ASSUME NEW T, T \subseteq Nat, T # {}
  PROVE  \E m \in T : \A k \in T : m <= k
<1>1. PICK x \in T : \A y \in T : ~ (<<y, x>> \in Below)
  BY BelowWellFounded, WFMin, Zenon
<1>2. \A y \in T : ~(y < x)
  BY <1>1 DEF Below
<1> QED BY <1>2

(* From the first of n turns to the last.                                  *)
LEMMA Ascent ==
  ASSUME NEW n \in Nat, NEW T, 0 \in T, \A k \in 0 .. n - 1 : k \in T => k + 1 \in T
  PROVE  \A k \in 0 .. n : k \in T
<1> DEFINE R == {k \in 0 .. n : k \notin T}
<1>1. SUFFICES ASSUME R # {} PROVE FALSE
  BY DEF R
<1>2. PICK m \in R : \A k \in R : m <= k
  <2>1. R \subseteq Nat
    OBVIOUS
  <2> HIDE DEF R
  <2> QED BY <1>1, <2>1, LeastElement, Zenon
<1>3. m \in 0 .. n /\ m # 0
  BY <1>2
<1>4. m - 1 \in 0 .. n - 1 /\ m - 1 \notin R
  BY <1>2, <1>3
<1> QED
  BY <1>2, <1>3, <1>4

(* From the end of n turns back to their beginning.                        *)
LEMMA Descent ==
  ASSUME NEW n \in Nat, NEW T, n \in T, \A k \in 1 .. n : k \in T => k - 1 \in T
  PROVE  \A k \in 0 .. n : k \in T
<1> DEFINE R == {k \in 0 .. n : n - k \in T}
<1>1. 0 \in R
  OBVIOUS
<1>2. ASSUME NEW k \in 0 .. n - 1, k \in R
      PROVE  k + 1 \in R
  <2>1. n - k \in 1 .. n /\ n - k \in T /\ (n - k) - 1 = n - (k + 1) /\ k + 1 \in 0 .. n
    BY <1>2
  <2> QED BY <2>1
<1>3. \A k \in 0 .. n : k \in R
  <2> HIDE DEF R
  <2> QED BY <1>1, <1>2, Ascent
<1>4. \A k \in 0 .. n : n - (n - k) = k /\ n - k \in 0 .. n
  OBVIOUS
<1> QED BY <1>3, <1>4

(* A function defined by recursion on 0 .. n exists.                       *)
Recursive(g, n, a, step) ==
  g = [i \in 0 .. n |-> IF i = 0 THEN a ELSE step[<<g[i - 1], i>>]]

LEMMA RecursionExists ==
  ASSUME NEW n \in Nat, NEW S, NEW a \in S, NEW step \in [S \X (1 .. n) -> S]
  PROVE  \E g \in [0 .. n -> S] : Recursive(g, n, a, step)
<1> DEFINE Upto(g, k) == \A i \in 0 .. k : g[i] = IF i = 0 THEN a ELSE step[<<g[i - 1], i>>]
           T == {k \in 0 .. n : \E g \in [0 .. n -> S] : Upto(g, k)}
<1>1. 0 \in T
  <2>1. Upto([i \in 0 .. n |-> a], 0)
    OBVIOUS
  <2>2. [i \in 0 .. n |-> a] \in [0 .. n -> S]
    OBVIOUS
  <2> HIDE DEF Upto
  <2> QED BY <2>1, <2>2
<1>2. ASSUME NEW k \in 0 .. n - 1, k \in T
      PROVE  k + 1 \in T
  <2>1. PICK g \in [0 .. n -> S] : Upto(g, k)
    BY <1>2
  <2> DEFINE h == [g EXCEPT ![k + 1] = step[<<g[k], k + 1>>]]
  <2>2. h \in [0 .. n -> S]
    OBVIOUS
  <2>3. ASSUME NEW i \in 0 .. k + 1 PROVE h[i] = IF i = 0 THEN a ELSE step[<<h[i - 1], i>>]
    <3>1. CASE i = k + 1
      BY <3>1
    <3>2. CASE i \in 0 .. k
      <4>1. g[i] = IF i = 0 THEN a ELSE step[<<g[i - 1], i>>]
        BY <2>1, <3>2
      <4>2. i # 0 => i - 1 \in 0 .. n /\ i - 1 # k + 1
        BY <3>2
      <4>3. h[i] = g[i]
        BY <3>2
      <4>4. i # 0 => h[i - 1] = g[i - 1]
        BY <4>2
      <4> HIDE DEF h
      <4> QED BY <4>1, <4>3, <4>4
    <3> QED BY <3>1, <3>2
  <2>4. Upto(h, k + 1)
    BY <2>3
  <2> HIDE DEF h, Upto
  <2> QED BY <2>2, <2>4
<1>3. n \in T
  <2> HIDE DEF T
  <2> QED BY <1>1, <1>2, Ascent
<1>4. PICK g \in [0 .. n -> S] : Upto(g, n)
  BY <1>3
<1>5. g = [i \in 0 .. n |-> IF i = 0 THEN a ELSE step[<<g[i - 1], i>>]]
  BY <1>4
<1> QED BY <1>5 DEF Recursive

(* Its values are in S if the first is and each next one.                  *)
LEMMA RecursionTyped ==
  ASSUME NEW n \in Nat, NEW S, NEW f, f = [i \in 0 .. n |-> f[i]], f[0] \in S,
         \A i \in 1 .. n : f[i - 1] \in S => f[i] \in S
  PROVE  f \in [0 .. n -> S]
<1> DEFINE T == {i \in 0 .. n : f[i] \in S}
<1>1. 0 \in T
  OBVIOUS
<1>2. ASSUME NEW k \in 0 .. n - 1, k \in T
      PROVE  k + 1 \in T
  <2>1. k + 1 \in 1 .. n /\ (k + 1) - 1 = k
    OBVIOUS
  <2> QED BY <1>2, <2>1
<1>3. \A k \in 0 .. n : k \in T
  <2> HIDE DEF T
  <2> QED BY <1>1, <1>2, Ascent
<1> QED BY <1>3

-----------------------------------------------------------------------------
(* The sizes of a byte and of the register.                                *)
LEMMA WidthFacts == Bits \in Nat \ {0} /\ Width \in Nat /\ Width >= 2 /\ CRCPOLYNOMIAL \in Register
  BY CrcAssumption DEF Width

(* What is in the exclusive or of two sets, and how many that is.          *)
LEMMA XorMember ==
  ASSUME NEW A, NEW B, NEW x
  PROVE  x \in Xor(A, B) <=> ~(x \in A <=> x \in B)
  BY Zenon DEF Xor

LEMMA OddXor ==
  ASSUME NEW A, NEW B, IsFiniteSet(A), IsFiniteSet(B)
  PROVE  IsFiniteSet(Xor(A, B)) /\ (Odd(Xor(A, B)) <=> ~(Odd(A) <=> Odd(B)))
<1> DEFINE C == A \cap B
           P == A \ B
           Q == B \ A
<1>1. /\ IsFiniteSet(C) /\ IsFiniteSet(P) /\ IsFiniteSet(Q) /\ IsFiniteSet(P \cup Q)
  <2>1. IsFiniteSet(C) /\ IsFiniteSet(P)
    <3>1. C \in SUBSET A /\ P \in SUBSET A
      OBVIOUS
    <3> HIDE DEF C, P
    <3> QED BY <3>1, FS_Subset
  <2>2. IsFiniteSet(Q)
    <3>1. Q \in SUBSET B
      OBVIOUS
    <3> HIDE DEF Q
    <3> QED BY <3>1, FS_Subset
  <2> HIDE DEF C, P, Q
  <2> QED BY <2>1, <2>2, FS_Union
<1>2. /\ C \cup P = A /\ C \cup Q = B /\ C \cap P = {} /\ C \cap Q = {} /\ P \cap Q = {}
      /\ P \cup Q = Xor(A, B)
  BY Zenon DEF Xor
<1> HIDE DEF C, P, Q
<1>3. /\ Cardinality(A) = Cardinality(C) + Cardinality(P) - Cardinality({})
      /\ Cardinality(B) = Cardinality(C) + Cardinality(Q) - Cardinality({})
      /\ Cardinality(Xor(A, B)) = Cardinality(P) + Cardinality(Q) - Cardinality({})
  BY <1>1, <1>2, FS_Union
<1>4. Cardinality({}) = 0 /\ Cardinality(C) \in Nat /\ Cardinality(P) \in Nat /\ Cardinality(Q) \in Nat
  BY <1>1, FS_EmptySet, FS_CardinalityType
<1>5. \A c, p, q \in Nat : ((p + q) % 2 = 1) <=> ~((c + p) % 2 = 1 <=> (c + q) % 2 = 1)
  <2>1. \A m, n \in Nat : (m + n) % 2 = IF m % 2 = n % 2 THEN 0 ELSE 1
    OBVIOUS
  <2> QED BY <2>1
<1>6. /\ Cardinality(A) = Cardinality(C) + Cardinality(P)
      /\ Cardinality(B) = Cardinality(C) + Cardinality(Q)
      /\ Cardinality(Xor(A, B)) = Cardinality(P) + Cardinality(Q)
  BY <1>3, <1>4
<1>7. Odd(Xor(A, B)) <=> ~(Odd(A) <=> Odd(B))
  BY <1>4, <1>5, <1>6 DEF Odd
<1> QED BY <1>1, <1>2, <1>7

(* Registers added up bit by bit, one for each element of T.               *)
Combined(T, pow) == {i \in 0 .. Width - 1 : Odd({t \in T : i \in pow[t]})}

(* A zero bit shifted in multiplies by x; a one bit adds 1.                *)
LEMMA StepZero ==
  ASSUME NEW c \in Register, NEW bit, bit # 1
  PROVE  Step(c, bit) = TimesX(c)
<1> DEFINE up == {i + 1 : i \in c}
<1>1. c \subseteq 0 .. Width - 1
  BY DEF Register
<1>2. Width \in up <=> Width - 1 \in c
  BY <1>1, WidthFacts
<1>3. {i + 1 : i \in c \ {Width - 1}} = up \ {Width}
  BY <1>1, WidthFacts
<1>4. Width - 1 \notin c => up \ {Width} = up
  BY <1>2
<1> QED BY <1>2, <1>3, <1>4 DEF Step, Shift, TimesX

LEMMA StepOne ==
  ASSUME NEW c \in Register
  PROVE  Step(c, 1) = Xor(TimesX(c), {0})
<1> DEFINE up == {i + 1 : i \in c}
<1>1. c \subseteq 0 .. Width - 1
  BY DEF Register
<1>2. Width \in up <=> Width - 1 \in c
  BY <1>1, WidthFacts
<1>3. {i + 1 : i \in c \ {Width - 1}} = up \ {Width} /\ 0 \notin up
  BY <1>1, WidthFacts
<1>4. Width - 1 \notin c => up \ {Width} = up
  BY <1>2
<1>5. Shift(c, 1) = (up \ {Width}) \cup {0}
  BY <1>3 DEF Shift
<1> HIDE DEF up
<1>6. CASE Width - 1 \in c
  <2>1. Step(c, 1) = Xor((up \ {Width}) \cup {0}, CRCPOLYNOMIAL)
    BY <1>5, <1>6 DEF Step
  <2>2. TimesX(c) = Xor(up \ {Width}, CRCPOLYNOMIAL)
    BY <1>2, <1>6 DEF TimesX, up
  <2> QED BY <1>3, <2>1, <2>2 DEF Xor
<1>7. CASE Width - 1 \notin c
  <2>1. Step(c, 1) = (up \ {Width}) \cup {0}
    BY <1>5, <1>7 DEF Step
  <2>2. TimesX(c) = up \ {Width}
    BY <1>2, <1>4, <1>7 DEF TimesX, up
  <2> QED BY <1>3, <2>1, <2>2 DEF Xor
<1> QED BY <1>6, <1>7

(* The exponents of a remainder times x.                                   *)
LEMMA TimesXMember ==
  ASSUME NEW c \in Register
  PROVE  /\ TimesX(c) \in Register
         /\ \A i \in 0 .. Width - 1 :
              i \in TimesX(c) <=> ~((i - 1 \in c) <=> (Width - 1 \in c /\ i \in CRCPOLYNOMIAL))
<1> DEFINE up == {i + 1 : i \in c}
<1>1. c \subseteq 0 .. Width - 1 /\ CRCPOLYNOMIAL \subseteq 0 .. Width - 1
  BY WidthFacts DEF Register
<1>2. Width \in up <=> Width - 1 \in c
  BY <1>1, WidthFacts
<1>3. \A i \in 0 .. Width - 1 : i \in up <=> i - 1 \in c
  BY <1>1, WidthFacts
<1>4. up \ {Width} \subseteq 0 .. Width - 1
  BY <1>1, WidthFacts
<1>5. \A i \in 0 .. Width - 1 : i # Width
  BY WidthFacts
<1>6. TimesX(c) = IF Width \in up THEN Xor(up \ {Width}, CRCPOLYNOMIAL) ELSE up
  BY DEF TimesX
<1> HIDE DEF up
<1> QED BY <1>1, <1>2, <1>3, <1>4, <1>5, <1>6 DEF Xor, Register

(* The sum of remainders, each times x, is their sum times x.              *)
LEMMA CombinedTimesX ==
  ASSUME NEW T, IsFiniteSet(T), NEW pow \in [T -> Register]
  PROVE  Combined(T, [t \in T |-> TimesX(pow[t])]) = TimesX(Combined(T, pow))
<1> DEFINE c == Combined(T, pow)
           new == [t \in T |-> TimesX(pow[t])]
           Has(i) == {t \in T : i \in pow[t]}
           Gets(i) == {t \in T : i \in new[t]}
<1>1. c \in Register
  BY DEF Combined, Register
<1>2. \A i : IsFiniteSet(Has(i))
  <2> TAKE i
  <2>1. Has(i) \in SUBSET T
    OBVIOUS
  <2> HIDE DEF Has
  <2> QED BY <2>1, FS_Subset
<1>3. ASSUME NEW i \in 0 .. Width - 1
      PROVE  i \in Combined(T, new) <=> i \in TimesX(c)
  <2>1. i \in TimesX(c) <=> ~((i - 1 \in c) <=> (Width - 1 \in c /\ i \in CRCPOLYNOMIAL))
    BY <1>1, TimesXMember
  <2>2. i - 1 \in c <=> Odd(Has(i - 1))
    <3>1. CASE i = 0
      <4>1. \A t \in T : pow[t] \subseteq 0 .. Width - 1
        BY DEF Register
      <4>2. Has(0 - 1) = {}
        BY <4>1
      <4>3. ~Odd({})
        BY FS_EmptySet DEF Odd
      <4>4. 0 - 1 \notin c
        BY DEF Combined
      <4> HIDE DEF Has, c
      <4> QED BY <3>1, <4>2, <4>3, <4>4
    <3>2. CASE i # 0
      <4>1. i - 1 \in 0 .. Width - 1
        BY <3>2, WidthFacts
      <4> QED BY <4>1 DEF Combined
    <3> QED BY <3>1, <3>2
  <2>3. Width - 1 \in c <=> Odd(Has(Width - 1))
    <3>1. Width - 1 \in 0 .. Width - 1
      BY WidthFacts
    <3> QED BY <3>1 DEF Combined
  <2>4. i \in Combined(T, new) <=> Odd(Gets(i))
    BY DEF Combined
  <2>5. \A t \in T : t \in Gets(i) <=>
          ~(t \in Has(i - 1) <=> (t \in Has(Width - 1) /\ i \in CRCPOLYNOMIAL))
    <3> TAKE t \in T
    <3>1. i \in TimesX(pow[t]) <=>
            ~((i - 1 \in pow[t]) <=> (Width - 1 \in pow[t] /\ i \in CRCPOLYNOMIAL))
      BY TimesXMember
    <3> QED BY <3>1
  <2>6. Gets(i) \subseteq T /\ Has(i - 1) \subseteq T /\ Has(Width - 1) \subseteq T
    OBVIOUS
  <2> HIDE DEF c, new, Has, Gets
  <2>7. CASE i \in CRCPOLYNOMIAL
    <3>1. Gets(i) = Xor(Has(i - 1), Has(Width - 1))
      BY <2>5, <2>6, <2>7, Zenon DEF Xor
    <3> QED BY <1>2, <2>1, <2>2, <2>3, <2>4, <2>7, <3>1, OddXor
  <2>8. CASE i \notin CRCPOLYNOMIAL
    <3>1. Gets(i) = Has(i - 1)
      BY <2>5, <2>6, <2>8, Zenon
    <3> QED BY <2>1, <2>2, <2>4, <2>8, <3>1
  <2> QED BY <2>7, <2>8
<1>4. Combined(T, new) \in Register /\ TimesX(c) \in Register
  BY <1>1, TimesXMember DEF Combined, Register
<1> HIDE DEF c, new
<1> QED BY <1>3, <1>4 DEF Register, c, new

(* One more register added.                                                *)
LEMMA CombinedAdd ==
  ASSUME NEW T, IsFiniteSet(T), NEW u, u \notin T, NEW U, U = T \cup {u},
         NEW pow \in [U -> Register],
         NEW old \in [T -> Register], \A t \in T : old[t] = pow[t]
  PROVE  Combined(U, pow) = Xor(Combined(T, old), pow[u])
<1> DEFINE Has(i) == {t \in T : i \in old[t]}
           All(i) == {t \in U : i \in pow[t]}
<1>1. pow[u] \subseteq 0 .. Width - 1
  BY DEF Register
<1>2. ASSUME NEW i \in 0 .. Width - 1
      PROVE  i \in Combined(U, pow) <=> i \in Xor(Combined(T, old), pow[u])
  <2>1. i \in Combined(U, pow) <=> Odd(All(i))
    BY DEF Combined
  <2>2. i \in Combined(T, old) <=> Odd(Has(i))
    BY DEF Combined
  <2>3. IsFiniteSet(Has(i))
    <3>1. Has(i) \in SUBSET T
      OBVIOUS
    <3> HIDE DEF Has
    <3> QED BY <3>1, FS_Subset
  <2>4. CASE i \in pow[u]
    <3>1. All(i) = Xor(Has(i), {u})
      BY <2>4 DEF Xor
    <3>2. IsFiniteSet({u}) /\ Cardinality({u}) = 1
      BY FS_Singleton, Zenon
    <3>3. Odd({u})
      BY <3>2 DEF Odd
    <3> HIDE DEF Has, All
    <3> QED BY <2>1, <2>2, <2>3, <2>4, <3>1, <3>2, <3>3, OddXor, XorMember
  <2>5. CASE i \notin pow[u]
    <3>1. All(i) = Has(i)
      BY <2>5
    <3> HIDE DEF Has, All
    <3> QED BY <2>1, <2>2, <2>5, <3>1, XorMember
  <2> QED BY <2>4, <2>5
<1>3. Combined(U, pow) \subseteq 0 .. Width - 1 /\ Combined(T, old) \subseteq 0 .. Width - 1
  BY DEF Combined
<1>4. \A x : x \in Xor(Combined(T, old), pow[u]) <=> ~(x \in Combined(T, old) <=> x \in pow[u])
  BY XorMember
<1> HIDE DEF Has, All
<1> QED BY <1>1, <1>2, <1>3, <1>4

(* A step stays within the register.                                       *)
LEMMA StepType ==
  ASSUME NEW c \in Register, NEW bit
  PROVE  Step(c, bit) \in Register
<1>1. TimesX(c) \in Register
  BY TimesXMember
<1>2. CASE bit # 1
  BY <1>1, <1>2, StepZero
<1>3. CASE bit = 1
  <2>1. Step(c, bit) = Xor(TimesX(c), {0})
    BY <1>3, StepOne
  <2>2. 0 \in 0 .. Width - 1
    BY WidthFacts
  <2> QED BY <1>1, <2>1, <2>2 DEF Xor, Register
<1> QED BY <1>2, <1>3

(* The loops of CRC.cpp, turn by turn.                                     *)
LEMMA AddTurns ==
  ASSUME NEW crc \in Register, NEW data
  PROVE  \E f \in [0 .. Bits -> Register] :
           /\ f[0] = crc /\ Add(crc, data) = f[Bits]
           /\ \A i \in 1 .. Bits : f[i] = Step(f[i - 1], BitOf(data, i))
<1> DEFINE Def(g) == [i \in 0 .. Bits |-> IF i = 0 THEN crc ELSE Step(g[i - 1], BitOf(data, i))]
           f == CHOOSE g : g = Def(g)
           step == [z \in Register \X (1 .. Bits) |-> Step(z[1], BitOf(data, z[2]))]
<1>1. Add(crc, data) = f[Bits]
  BY DEF Add
<1>2. Bits \in Nat /\ crc \in Register
  BY WidthFacts
<1>3. \A x \in Register, i \in 1 .. Bits : Step(x, BitOf(data, i)) \in Register
  BY StepType
<1>4. step \in [Register \X (1 .. Bits) -> Register]
  BY <1>3
<1>5. \E g : g = Def(g)
  <2>1. PICK g \in [0 .. Bits -> Register] : Recursive(g, Bits, crc, step)
    <3> HIDE DEF step
    <3> QED BY <1>2, <1>4, RecursionExists, Zenon
  <2>2. ASSUME NEW i \in 0 .. Bits
        PROVE  g[i] = IF i = 0 THEN crc ELSE Step(g[i - 1], BitOf(data, i))
    <3>1. CASE i = 0
      BY <1>2, <2>1, <3>1 DEF Recursive
    <3>2. CASE i # 0
      <4>1. i - 1 \in 0 .. Bits /\ i \in 1 .. Bits
        BY <1>2, <3>2
      <4>2. g[i] = step[<<g[i - 1], i>>]
        <5> HIDE DEF step
        <5> QED BY <2>1, <3>2 DEF Recursive
      <4>3. step[<<g[i - 1], i>>] = Step(g[i - 1], BitOf(data, i))
        BY <4>1
      <4> QED BY <3>2, <4>2, <4>3
    <3> QED BY <3>1, <3>2
  <2>3. g = Def(g)
    <3> HIDE DEF step
    <3> QED BY <2>1, <2>2 DEF Recursive
  <2> HIDE DEF Def
  <2> QED BY <2>3
<1>6. f = Def(f)
  <2> HIDE DEF Def
  <2> QED BY <1>5, Zenon
<1> HIDE DEF f, step
<1>7. f = [i \in 0 .. Bits |-> f[i]] /\ f[0] = crc
  BY <1>2, <1>6
<1>8. ASSUME NEW i \in 1 .. Bits
      PROVE  f[i] = Step(f[i - 1], BitOf(data, i))
  <2>1. i \in 0 .. Bits /\ i # 0
    BY <1>2
  <2>2. f[i] = IF i = 0 THEN crc ELSE Step(f[i - 1], BitOf(data, i))
    BY <1>6, <2>1
  <2> QED BY <2>1, <2>2
<1>9. \A i \in 1 .. Bits : f[i - 1] \in Register => f[i] \in Register
  BY <1>3, <1>8
<1> HIDE DEF Def
<1>10. f \in [0 .. Bits -> Register]
  BY <1>2, <1>7, <1>9, RecursionTyped, Zenon
<1> QED BY <1>1, <1>7, <1>8, <1>10

LEMMA FinalizeTurns ==
  ASSUME NEW crc \in Register
  PROVE  \E f \in [0 .. Width -> Register] :
           /\ f[0] = crc /\ Finalize(crc) = f[Width]
           /\ \A i \in 1 .. Width : f[i] = Step(f[i - 1], 0)
<1> DEFINE Def(g) == [i \in 0 .. Width |-> IF i = 0 THEN crc ELSE Step(g[i - 1], 0)]
           f == CHOOSE g : g = Def(g)
           step == [z \in Register \X (1 .. Width) |-> Step(z[1], 0)]
<1>1. Finalize(crc) = f[Width]
  BY DEF Finalize
<1>2. Width \in Nat /\ crc \in Register
  BY WidthFacts
<1>3. \A x \in Register, i \in 1 .. Width : Step(x, 0) \in Register
  BY StepType
<1>4. step \in [Register \X (1 .. Width) -> Register]
  BY <1>3
<1>5. \E g : g = Def(g)
  <2>1. PICK g \in [0 .. Width -> Register] : Recursive(g, Width, crc, step)
    <3> HIDE DEF step
    <3> QED BY <1>2, <1>4, RecursionExists, Zenon
  <2>2. ASSUME NEW i \in 0 .. Width
        PROVE  g[i] = IF i = 0 THEN crc ELSE Step(g[i - 1], 0)
    <3>1. CASE i = 0
      BY <1>2, <2>1, <3>1 DEF Recursive
    <3>2. CASE i # 0
      <4>1. i - 1 \in 0 .. Width /\ i \in 1 .. Width
        BY <1>2, <3>2
      <4>2. g[i] = step[<<g[i - 1], i>>]
        <5> HIDE DEF step
        <5> QED BY <2>1, <3>2 DEF Recursive
      <4>3. step[<<g[i - 1], i>>] = Step(g[i - 1], 0)
        BY <4>1
      <4> QED BY <3>2, <4>2, <4>3
    <3> QED BY <3>1, <3>2
  <2>3. g = Def(g)
    <3> HIDE DEF step
    <3> QED BY <2>1, <2>2 DEF Recursive
  <2> HIDE DEF Def
  <2> QED BY <2>3
<1>6. f = Def(f)
  <2> HIDE DEF Def
  <2> QED BY <1>5, Zenon
<1> HIDE DEF f, step
<1>7. f = [i \in 0 .. Width |-> f[i]] /\ f[0] = crc
  BY <1>2, <1>6
<1>8. ASSUME NEW i \in 1 .. Width
      PROVE  f[i] = Step(f[i - 1], 0)
  <2>1. i \in 0 .. Width /\ i # 0
    BY <1>2
  <2>2. f[i] = IF i = 0 THEN crc ELSE Step(f[i - 1], 0)
    BY <1>6, <2>1
  <2> QED BY <2>1, <2>2
<1>9. \A i \in 1 .. Width : f[i - 1] \in Register => f[i] \in Register
  BY <1>3, <1>8
<1> HIDE DEF Def
<1>10. f \in [0 .. Width -> Register]
  BY <1>2, <1>7, <1>9, RecursionTyped, Zenon
<1> QED BY <1>1, <1>7, <1>8, <1>10

LEMMA AddType ==
  ASSUME NEW crc \in Register, NEW data
  PROVE  Add(crc, data) \in Register
<1>1. PICK f \in [0 .. Bits -> Register] : Add(crc, data) = f[Bits]
  BY AddTurns
<1> QED BY <1>1, WidthFacts

(* The bytes of a packet, and the powers of x.                             *)
LEMMA ChecksumTurns ==
  ASSUME NEW packet, Len(packet) \in Nat
  PROVE  \E f \in [0 .. Len(packet) + 1 -> Register] :
           /\ f[0] = {} /\ Checksum(packet) = Finalize(f[Len(packet) + 1])
           /\ \A i \in 1 .. Len(packet) + 1 : f[i] = Add(f[i - 1], Covered(packet)[i])
<1> DEFINE Def(g) == [i \in 0 .. Len(packet) + 1 |-> IF i = 0 THEN {} ELSE Add(g[i - 1], Covered(packet)[i])]
           f == CHOOSE g : g = Def(g)
           step == [z \in Register \X (1 .. Len(packet) + 1) |-> Add(z[1], Covered(packet)[z[2]])]
<1>1. Checksum(packet) = Finalize(f[Len(packet) + 1])
  BY DEF Checksum
<1>2. Len(packet) + 1 \in Nat /\ {} \in Register
  BY DEF Register
<1>3. \A x \in Register, i \in 1 .. Len(packet) + 1 : Add(x, Covered(packet)[i]) \in Register
  BY AddType
<1>4. step \in [Register \X (1 .. Len(packet) + 1) -> Register]
  BY <1>3
<1>5. \E g : g = Def(g)
  <2>1. PICK g \in [0 .. Len(packet) + 1 -> Register] : Recursive(g, Len(packet) + 1, {}, step)
    <3> HIDE DEF step
    <3> QED BY <1>2, <1>4, RecursionExists, Zenon
  <2>2. ASSUME NEW i \in 0 .. Len(packet) + 1
        PROVE  g[i] = IF i = 0 THEN {} ELSE Add(g[i - 1], Covered(packet)[i])
    <3>1. CASE i = 0
      BY <1>2, <2>1, <3>1 DEF Recursive
    <3>2. CASE i # 0
      <4>1. i - 1 \in 0 .. Len(packet) + 1 /\ i \in 1 .. Len(packet) + 1
        BY <1>2, <3>2
      <4>2. g[i] = step[<<g[i - 1], i>>]
        <5> HIDE DEF step
        <5> QED BY <2>1, <3>2 DEF Recursive
      <4>3. step[<<g[i - 1], i>>] = Add(g[i - 1], Covered(packet)[i])
        BY <4>1
      <4> QED BY <3>2, <4>2, <4>3
    <3> QED BY <3>1, <3>2
  <2>3. g = Def(g)
    <3> HIDE DEF step
    <3> QED BY <2>1, <2>2 DEF Recursive
  <2> HIDE DEF Def
  <2> QED BY <2>3
<1>6. f = Def(f)
  <2> HIDE DEF Def
  <2> QED BY <1>5, Zenon
<1> HIDE DEF f, step
<1>7. f = [i \in 0 .. Len(packet) + 1 |-> f[i]] /\ f[0] = {}
  BY <1>2, <1>6
<1>8. ASSUME NEW i \in 1 .. Len(packet) + 1
      PROVE  f[i] = Add(f[i - 1], Covered(packet)[i])
  <2>1. i \in 0 .. Len(packet) + 1 /\ i # 0
    BY <1>2
  <2>2. f[i] = IF i = 0 THEN {} ELSE Add(f[i - 1], Covered(packet)[i])
    BY <1>6, <2>1
  <2> QED BY <2>1, <2>2
<1>9. \A i \in 1 .. Len(packet) + 1 : f[i - 1] \in Register => f[i] \in Register
  BY <1>3, <1>8
<1> HIDE DEF Def
<1>10. f \in [0 .. Len(packet) + 1 -> Register]
  BY <1>2, <1>7, <1>9, RecursionTyped, Zenon
<1> QED BY <1>1, <1>7, <1>8, <1>10

LEMMA Powers ==
  ASSUME NEW n \in Nat
  PROVE  \E f \in [0 .. n -> Register] :
           /\ f[0] = {0} /\ PowersOfX(n) = f
           /\ \A i \in 1 .. n : f[i] = TimesX(f[i - 1])
<1> DEFINE Def(g) == [i \in 0 .. n |-> IF i = 0 THEN {0} ELSE TimesX(g[i - 1])]
           f == CHOOSE g : g = Def(g)
           step == [z \in Register \X (1 .. n) |-> TimesX(z[1])]
<1>1. PowersOfX(n) = f
  BY DEF PowersOfX
<1>2. n \in Nat /\ {0} \in Register
  BY WidthFacts DEF Register
<1>3. \A x \in Register, i \in 1 .. n : TimesX(x) \in Register
  BY TimesXMember
<1>4. step \in [Register \X (1 .. n) -> Register]
  BY <1>3
<1>5. \E g : g = Def(g)
  <2>1. PICK g \in [0 .. n -> Register] : Recursive(g, n, {0}, step)
    <3> HIDE DEF step
    <3> QED BY <1>2, <1>4, RecursionExists, Zenon
  <2>2. ASSUME NEW i \in 0 .. n
        PROVE  g[i] = IF i = 0 THEN {0} ELSE TimesX(g[i - 1])
    <3>1. CASE i = 0
      BY <1>2, <2>1, <3>1 DEF Recursive
    <3>2. CASE i # 0
      <4>1. i - 1 \in 0 .. n /\ i \in 1 .. n
        BY <1>2, <3>2
      <4>2. g[i] = step[<<g[i - 1], i>>]
        <5> HIDE DEF step
        <5> QED BY <2>1, <3>2 DEF Recursive
      <4>3. step[<<g[i - 1], i>>] = TimesX(g[i - 1])
        BY <4>1
      <4> QED BY <3>2, <4>2, <4>3
    <3> QED BY <3>1, <3>2
  <2>3. g = Def(g)
    <3> HIDE DEF step
    <3> QED BY <2>1, <2>2 DEF Recursive
  <2> HIDE DEF Def
  <2> QED BY <2>3
<1>6. f = Def(f)
  <2> HIDE DEF Def
  <2> QED BY <1>5, Zenon
<1> HIDE DEF f, step
<1>7. f = [i \in 0 .. n |-> f[i]] /\ f[0] = {0}
  BY <1>2, <1>6
<1>8. ASSUME NEW i \in 1 .. n
      PROVE  f[i] = TimesX(f[i - 1])
  <2>1. i \in 0 .. n /\ i # 0
    BY <1>2
  <2>2. f[i] = IF i = 0 THEN {0} ELSE TimesX(f[i - 1])
    BY <1>6, <2>1
  <2> QED BY <2>1, <2>2
<1>9. \A i \in 1 .. n : f[i - 1] \in Register => f[i] \in Register
  BY <1>3, <1>8
<1> HIDE DEF Def
<1>10. f \in [0 .. n -> Register]
  BY <1>2, <1>7, <1>9, RecursionTyped, Zenon
<1> QED BY <1>1, <1>7, <1>8, <1>10

LEMMA ShiftTurns ==
  ASSUME NEW data \in Nat
  PROVE  \E f \in [0 .. Bits -> Nat] :
           /\ f[0] = data /\ Shifted(data) = f
           /\ \A i \in 1 .. Bits : f[i] = f[i - 1] \div 2
<1> DEFINE Def(g) == [i \in 0 .. Bits |-> IF i = 0 THEN data ELSE g[i - 1] \div 2]
           f == CHOOSE g : g = Def(g)
           step == [z \in Nat \X (1 .. Bits) |-> z[1] \div 2]
<1>1. Shifted(data) = f
  BY DEF Shifted
<1>2. Bits \in Nat /\ data \in Nat
  BY WidthFacts
<1>3. \A x \in Nat, i \in 1 .. Bits : x \div 2 \in Nat
  OBVIOUS
<1>4. step \in [Nat \X (1 .. Bits) -> Nat]
  BY <1>3
<1>5. \E g : g = Def(g)
  <2>1. PICK g \in [0 .. Bits -> Nat] : Recursive(g, Bits, data, step)
    <3> HIDE DEF step
    <3> QED BY <1>2, <1>4, RecursionExists, Zenon
  <2>2. ASSUME NEW i \in 0 .. Bits
        PROVE  g[i] = IF i = 0 THEN data ELSE g[i - 1] \div 2
    <3>1. CASE i = 0
      BY <1>2, <2>1, <3>1 DEF Recursive
    <3>2. CASE i # 0
      <4>1. i - 1 \in 0 .. Bits /\ i \in 1 .. Bits
        BY <1>2, <3>2
      <4>2. g[i] = step[<<g[i - 1], i>>]
        <5> HIDE DEF step
        <5> QED BY <2>1, <3>2 DEF Recursive
      <4>3. step[<<g[i - 1], i>>] = g[i - 1] \div 2
        BY <4>1
      <4> QED BY <3>2, <4>2, <4>3
    <3> QED BY <3>1, <3>2
  <2>3. g = Def(g)
    <3> HIDE DEF step
    <3> QED BY <2>1, <2>2 DEF Recursive
  <2> HIDE DEF Def
  <2> QED BY <2>3
<1>6. f = Def(f)
  <2> HIDE DEF Def
  <2> QED BY <1>5, Zenon
<1> HIDE DEF f, step
<1>7. f = [i \in 0 .. Bits |-> f[i]] /\ f[0] = data
  BY <1>2, <1>6
<1>8. ASSUME NEW i \in 1 .. Bits
      PROVE  f[i] = f[i - 1] \div 2
  <2>1. i \in 0 .. Bits /\ i # 0
    BY <1>2
  <2>2. f[i] = IF i = 0 THEN data ELSE f[i - 1] \div 2
    BY <1>6, <2>1
  <2> QED BY <2>1, <2>2
<1>9. \A i \in 1 .. Bits : f[i - 1] \in Nat => f[i] \in Nat
  BY <1>3, <1>8
<1> HIDE DEF Def
<1>10. f \in [0 .. Bits -> Nat]
  BY <1>2, <1>7, <1>9, RecursionTyped, Zenon
<1> QED BY <1>1, <1>7, <1>8, <1>10

LEMMA NumberTurns ==
  ASSUME NEW crc, NEW from
  PROVE  \E f \in [0 .. Bits -> Nat] :
           /\ f[0] = 0 /\ Number(crc, from) = f[Bits]
           /\ \A i \in 1 .. Bits : f[i] = 2 * f[i - 1] + (IF from + Bits - i \in crc THEN 1 ELSE 0)
<1> DEFINE Def(g) == [i \in 0 .. Bits |-> IF i = 0 THEN 0 ELSE 2 * g[i - 1] + (IF from + Bits - i \in crc THEN 1 ELSE 0)]
           f == CHOOSE g : g = Def(g)
           step == [z \in Nat \X (1 .. Bits) |-> 2 * z[1] + (IF from + Bits - z[2] \in crc THEN 1 ELSE 0)]
<1>1. Number(crc, from) = f[Bits]
  BY DEF Number
<1>2. Bits \in Nat /\ 0 \in Nat
  BY WidthFacts
<1>3. \A x \in Nat, i \in 1 .. Bits : 2 * x + (IF from + Bits - i \in crc THEN 1 ELSE 0) \in Nat
  OBVIOUS
<1>4. step \in [Nat \X (1 .. Bits) -> Nat]
  BY <1>3
<1>5. \E g : g = Def(g)
  <2>1. PICK g \in [0 .. Bits -> Nat] : Recursive(g, Bits, 0, step)
    <3> HIDE DEF step
    <3> QED BY <1>2, <1>4, RecursionExists, Zenon
  <2>2. ASSUME NEW i \in 0 .. Bits
        PROVE  g[i] = IF i = 0 THEN 0 ELSE 2 * g[i - 1] + (IF from + Bits - i \in crc THEN 1 ELSE 0)
    <3>1. CASE i = 0
      BY <1>2, <2>1, <3>1 DEF Recursive
    <3>2. CASE i # 0
      <4>1. i - 1 \in 0 .. Bits /\ i \in 1 .. Bits
        BY <1>2, <3>2
      <4>2. g[i] = step[<<g[i - 1], i>>]
        <5> HIDE DEF step
        <5> QED BY <2>1, <3>2 DEF Recursive
      <4>3. step[<<g[i - 1], i>>] = 2 * g[i - 1] + (IF from + Bits - i \in crc THEN 1 ELSE 0)
        BY <4>1
      <4> QED BY <3>2, <4>2, <4>3
    <3> QED BY <3>1, <3>2
  <2>3. g = Def(g)
    <3> HIDE DEF step
    <3> QED BY <2>1, <2>2 DEF Recursive
  <2> HIDE DEF Def
  <2> QED BY <2>3
<1>6. f = Def(f)
  <2> HIDE DEF Def
  <2> QED BY <1>5, Zenon
<1> HIDE DEF f, step
<1>7. f = [i \in 0 .. Bits |-> f[i]] /\ f[0] = 0
  BY <1>2, <1>6
<1>8. ASSUME NEW i \in 1 .. Bits
      PROVE  f[i] = 2 * f[i - 1] + (IF from + Bits - i \in crc THEN 1 ELSE 0)
  <2>1. i \in 0 .. Bits /\ i # 0
    BY <1>2
  <2>2. f[i] = IF i = 0 THEN 0 ELSE 2 * f[i - 1] + (IF from + Bits - i \in crc THEN 1 ELSE 0)
    BY <1>6, <2>1
  <2> QED BY <2>1, <2>2
<1>9. \A i \in 1 .. Bits : f[i - 1] \in Nat => f[i] \in Nat
  BY <1>3, <1>8
<1> HIDE DEF Def
<1>10. f \in [0 .. Bits -> Nat]
  BY <1>2, <1>7, <1>9, RecursionTyped, Zenon
<1> QED BY <1>1, <1>7, <1>8, <1>10

(* One turn: every register goes up by one power, and a one bit brings x^0. *)
LEMMA TurnZero ==
  ASSUME NEW T, IsFiniteSet(T), NEW bit, bit # 1,
         NEW old \in [T -> Register], NEW new \in [T -> Register],
         \A t \in T : new[t] = TimesX(old[t])
  PROVE  Step(Combined(T, old), bit) = Combined(T, new)
<1>1. new = [t \in T |-> TimesX(old[t])]
  OBVIOUS
<1>2. Combined(T, new) = TimesX(Combined(T, old))
  BY <1>1, CombinedTimesX
<1>3. Combined(T, old) \in Register
  BY DEF Combined, Register
<1> QED BY <1>2, <1>3, StepZero

LEMMA TurnOne ==
  ASSUME NEW T, IsFiniteSet(T), NEW u, u \notin T, NEW U, U = T \cup {u},
         NEW old \in [T -> Register], NEW new \in [U -> Register],
         \A t \in T : new[t] = TimesX(old[t]), new[u] = {0}
  PROVE  Step(Combined(T, old), 1) = Combined(U, new)
<1> DEFINE kept == [t \in T |-> TimesX(old[t])]
<1>1. kept \in [T -> Register]
  BY TimesXMember
<1>6. \A t \in T : kept[t] = new[t]
  OBVIOUS
<1>2. Combined(T, kept) = TimesX(Combined(T, old))
  BY CombinedTimesX
<1> HIDE DEF kept
<1>3. Combined(U, new) = Xor(Combined(T, kept), new[u])
  BY <1>1, <1>6, CombinedAdd
<1>4. Combined(T, old) \in Register
  BY DEF Combined, Register
<1>5. Step(Combined(T, old), 1) = Xor(TimesX(Combined(T, old)), {0})
  BY <1>4, StepOne
<1> QED BY <1>2, <1>3, <1>5

(* Multiples of b, as the provers cannot multiply two variables.           *)
LEMMA Products ==
  ASSUME NEW b \in Nat
  PROVE  /\ \A x \in Int : b * x \in Int /\ b * (x + 1) = b * x + b
         /\ \A x \in Int : x >= 0 => b * x >= 0
         /\ \A x, y \in Int : x <= y => b * x <= b * y
<1>1. \A x \in Int : b * x \in Int /\ b * (x + 1) = b * x + b
  OBVIOUS
<1>2. \A x \in Int : x >= 0 => b * x >= 0
  OBVIOUS
<1>3. ASSUME NEW x \in Int, NEW y \in Int, x <= y
      PROVE  b * x <= b * y
  <2>1. b * (y - x) >= 0
    BY <1>2, <1>3
  <2>2. b * (y - x) = b * y - b * x
    OBVIOUS
  <2> QED BY <1>1, <2>1, <2>2
<1> QED BY <1>1, <1>2, <1>3

-----------------------------------------------------------------------------
(* The bits of a packet that are one, of its first k bytes and the first i *)
(* bits of the next; and what power of x each has become when i more bits  *)
(* have been taken after the first k bytes.                                *)
Ones(packet, k, i) ==
  {t \in (1 .. Len(packet) + 1) \X (1 .. Bits) :
     /\ BitOf(Covered(packet)[t[1]], t[2]) = 1
     /\ t[1] <= k \/ (t[1] = k + 1 /\ t[2] <= i)}
Exponent(k, i, t) == Bits * (k - t[1]) + Bits - t[2] + i
SoFar(packet, k, i) ==
  LET power == PowersOfX(Bits * (Len(packet) + 1) + Width)
  IN Combined(Ones(packet, k, i), [t \in Ones(packet, k, i) |-> power[Exponent(k, i, t)]])

(* There are finitely many of them, and their powers are among those that  *)
(* PowersOfX has.                                                          *)
LEMMA OnesFinite ==
  ASSUME NEW packet, Len(packet) \in Nat, NEW k, NEW i
  PROVE  IsFiniteSet(Ones(packet, k, i))
<1>1. IsFiniteSet((1 .. Len(packet) + 1) \X (1 .. Bits))
  <2>1. IsFiniteSet(1 .. Len(packet) + 1) /\ IsFiniteSet(1 .. Bits)
    BY WidthFacts, FS_Interval
  <2> QED BY <2>1, FS_Product
<1>2. Ones(packet, k, i) \in SUBSET ((1 .. Len(packet) + 1) \X (1 .. Bits))
  BY DEF Ones
<1> QED BY <1>1, <1>2, FS_Subset

LEMMA ExponentFacts ==
  ASSUME NEW l \in Nat, NEW k \in 0 .. l, NEW i \in 0 .. Width,
         i <= Bits \/ k = l,
         NEW t \in (1 .. l) \X (1 .. Bits), t[1] <= k \/ (t[1] = k + 1 /\ t[2] <= i)
  PROVE  /\ Exponent(k, i, t) \in 0 .. Bits * l + Width
         /\ i < Width => Exponent(k, i + 1, t) = Exponent(k, i, t) + 1
         /\ i = Bits /\ k < l => Exponent(k, i, t) = Exponent(k + 1, 0, t)
<1>1. /\ Bits \in Nat /\ t[1] \in 1 .. l /\ t[2] \in 1 .. Bits /\ Width = 2 * Bits
      /\ k \in Nat /\ i \in Nat /\ i <= Width
  BY WidthFacts DEF Width
<1> DEFINE p == Bits * (k - t[1])
           m == Bits * l
<1>2. p \in Int /\ m \in Int
  BY <1>1
<1>3. Bits * ((k + 1) - t[1]) = p + Bits
  <2>1. (k + 1) - t[1] = (k - t[1]) + 1 /\ k - t[1] \in Int
    BY <1>1
  <2> QED BY <1>1, <2>1, Products
<1>4. p <= m - Bits
  <2>1. k - t[1] <= l - 1 /\ k - t[1] \in Int /\ l - 1 \in Int
    BY <1>1
  <2>2. p <= Bits * (l - 1)
    BY <1>1, <2>1, Products
  <2>3. Bits * ((l - 1) + 1) = Bits * (l - 1) + Bits /\ (l - 1) + 1 = l /\ Bits * (l - 1) \in Int
    BY <1>1, <2>1, Products
  <2> QED BY <1>1, <1>2, <2>2, <2>3
<1>5. t[1] <= k => p >= 0
  <2>1. t[1] <= k => k - t[1] >= 0
    BY <1>1
  <2> QED BY <1>1, <2>1, Products
<1>6. t[1] = k + 1 => p = 0 - Bits
  <2>1. t[1] = k + 1 => k - t[1] = 0 - 1
    BY <1>1
  <2> QED BY <1>1, <2>1
<1>7. /\ Exponent(k, i, t) = p + Bits - t[2] + i
      /\ Exponent(k, i + 1, t) = p + Bits - t[2] + (i + 1)
      /\ Exponent(k + 1, 0, t) = (p + Bits) + Bits - t[2] + 0
  BY <1>3 DEF Exponent
<1> HIDE DEF p, m
<1>8. p + Bits - t[2] + i \in 0 .. m + Width
  BY <1>1, <1>2, <1>4, <1>5, <1>6
<1> QED BY <1>1, <1>2, <1>7, <1>8 DEF m

(* The next bit is taken, and after the last byte the zero bits.           *)
LEMMA NextBit ==
  ASSUME NEW packet, Len(packet) \in Nat, NEW k \in 0 .. Len(packet), NEW i \in 0 .. Bits - 1
  PROVE  Step(SoFar(packet, k, i), BitOf(Covered(packet)[k + 1], i + 1)) = SoFar(packet, k, i + 1)
<1> DEFINE l == Len(packet) + 1
           n == Bits * l + Width
           power == PowersOfX(n)
           T == Ones(packet, k, i)
           old == [t \in T |-> power[Exponent(k, i, t)]]
           u == <<k + 1, i + 1>>
           bit == BitOf(Covered(packet)[k + 1], i + 1)
           new == [t \in Ones(packet, k, i + 1) |-> power[Exponent(k, i + 1, t)]]
<1>1. /\ Bits \in Nat /\ Width \in Nat /\ i \in Nat /\ i + 1 <= Bits /\ Bits < Width
      /\ l \in Nat /\ k \in 0 .. l /\ k < l /\ Bits * l \in Nat /\ n \in Nat
  <2>1. Bits \in Nat /\ Width \in Nat /\ i \in Nat /\ i + 1 <= Bits /\ Bits < Width
    BY WidthFacts DEF Width
  <2>2. l \in Nat /\ k \in 0 .. l /\ k < l
    OBVIOUS
  <2>3. Bits * l \in Int /\ Bits * l >= 0
    BY <2>1, <2>2, Products
  <2> HIDE DEF l
  <2> QED BY <2>1, <2>2, <2>3
<1>2. /\ power \in [0 .. n -> Register] /\ power[0] = {0}
      /\ \A j \in 1 .. n : power[j] = TimesX(power[j - 1])
  <2> HIDE DEF n
  <2> QED BY <1>1, Powers
<1>3. ASSUME NEW t \in Ones(packet, k, i + 1)
      PROVE  /\ t \in (1 .. l) \X (1 .. Bits)
             /\ t \in T \/ (t = u /\ bit = 1)
             /\ Exponent(k, i + 1, t) \in 0 .. n
             /\ t \in T => /\ Exponent(k, i, t) \in 0 .. n
                          /\ Exponent(k, i + 1, t) = Exponent(k, i, t) + 1
             /\ t = u => Exponent(k, i + 1, t) = 0
  <2>1. /\ t \in (1 .. l) \X (1 .. Bits) /\ BitOf(Covered(packet)[t[1]], t[2]) = 1
        /\ t[1] <= k \/ (t[1] = k + 1 /\ t[2] <= i + 1)
    BY DEF Ones
  <2>2. t \in T \/ (t = u /\ bit = 1)
    <3>1. t = <<t[1], t[2]>> /\ t[1] \in Nat /\ t[2] \in Nat
      BY <1>1, <2>1
    <3>2. CASE t[1] = k + 1 /\ t[2] = i + 1
      BY <2>1, <3>1, <3>2
    <3>3. CASE t[1] <= k \/ (t[1] = k + 1 /\ t[2] <= i)
      BY <2>1, <3>3 DEF Ones
    <3> QED BY <1>1, <2>1, <3>1, <3>2, <3>3
  <2>3. i + 1 \in 0 .. Width /\ i \in 0 .. Width /\ i + 1 <= Bits /\ i <= Bits /\ i < Width
    BY <1>1
  <2>4. Exponent(k, i + 1, t) \in 0 .. n
    <3> HIDE DEF l
    <3> QED BY <1>1, <2>1, <2>3, ExponentFacts
  <2>5. t \in T => /\ Exponent(k, i, t) \in 0 .. n
                  /\ Exponent(k, i + 1, t) = Exponent(k, i, t) + 1
    <3>1. t \in T => t[1] <= k \/ (t[1] = k + 1 /\ t[2] <= i)
      BY DEF Ones
    <3> HIDE DEF l, T
    <3> QED BY <1>1, <2>1, <2>3, <3>1, ExponentFacts
  <2>6. Exponent(k, i + 1, u) = 0
    <3>1. k - (k + 1) = 0 - 1
      BY <1>1
    <3>2. Bits * (0 - 1) = 0 - Bits
      BY <1>1
    <3> QED BY <1>1, <3>1, <3>2 DEF Exponent
  <2> QED BY <2>1, <2>2, <2>4, <2>5, <2>6
<1>4. u \notin T
  BY <1>1 DEF Ones
<1>5. T \subseteq Ones(packet, k, i + 1)
  BY <1>1 DEF Ones
<1>6. bit = 1 => u \in Ones(packet, k, i + 1)
  BY <1>1 DEF Ones
<1>7. ASSUME NEW t \in T
      PROVE  /\ power[Exponent(k, i, t)] \in Register
             /\ power[Exponent(k, i + 1, t)] = TimesX(power[Exponent(k, i, t)])
  <2> HIDE DEF power, n, T
  <2>1. /\ Exponent(k, i, t) \in 0 .. n /\ Exponent(k, i + 1, t) \in 0 .. n
        /\ Exponent(k, i + 1, t) = Exponent(k, i, t) + 1
    BY <1>3, <1>5
  <2>2. Exponent(k, i + 1, t) \in 1 .. n /\ Exponent(k, i + 1, t) - 1 = Exponent(k, i, t)
    BY <1>1, <2>1
  <2> QED BY <1>2, <2>1, <2>2
<1>8. IsFiniteSet(T)
  BY <1>1, OnesFinite
<1> HIDE DEF l, n, power, T, u, bit
<1>9. old \in [T -> Register] /\ new \in [Ones(packet, k, i + 1) -> Register]
  BY <1>2, <1>3, <1>7
<1>10. \A t \in T : new[t] = TimesX(old[t])
  BY <1>5, <1>7
<1>11. bit = 1 => new[u] = {0}
  BY <1>2, <1>3, <1>6
<1>12. SoFar(packet, k, i) = Combined(T, old) /\ SoFar(packet, k, i + 1) = Combined(Ones(packet, k, i + 1), new)
  BY DEF SoFar, T, power, n, l
<1> HIDE DEF old, new
<1>13. CASE bit = 1
  <2>1. Ones(packet, k, i + 1) = T \cup {u}
    BY <1>3, <1>5, <1>6, <1>13
  <2>2. Step(Combined(T, old), 1) = Combined(Ones(packet, k, i + 1), new)
    BY <1>4, <1>8, <1>9, <1>10, <1>11, <1>13, <2>1, TurnOne
  <2> QED BY <1>12, <1>13, <2>1, <2>2 DEF bit
<1>14. CASE bit # 1
  <2>1. Ones(packet, k, i + 1) = T
    BY <1>3, <1>5, <1>14
  <2>2. Step(Combined(T, old), bit) = Combined(T, new)
    BY <1>8, <1>9, <1>10, <1>14, <2>1, TurnZero
  <2> QED BY <1>12, <2>1, <2>2 DEF bit
<1> QED BY <1>13, <1>14

(* After the last byte: the zero bits.                                     *)
LEMMA NextZero ==
  ASSUME NEW packet, Len(packet) \in Nat, NEW i \in 0 .. Width - 1
  PROVE  Step(SoFar(packet, Len(packet) + 1, i), 0) = SoFar(packet, Len(packet) + 1, i + 1)
<1> DEFINE l == Len(packet) + 1
           n == Bits * l + Width
           power == PowersOfX(n)
           T == Ones(packet, l, i)
           old == [t \in T |-> power[Exponent(l, i, t)]]
           new == [t \in T |-> power[Exponent(l, i + 1, t)]]
<1>1. /\ Width \in Nat /\ l \in Nat /\ l \in 0 .. l /\ Bits * l \in Nat /\ n \in Nat
      /\ i \in 0 .. Width /\ i + 1 \in 0 .. Width /\ i < Width
  <2>1. Bits * l \in Int /\ Bits * l >= 0
    BY WidthFacts, Products
  <2>2. l \in Nat /\ l \in 0 .. l /\ i \in 0 .. Width /\ i + 1 \in 0 .. Width /\ i < Width
    BY WidthFacts
  <2> HIDE DEF l
  <2> QED BY <2>1, <2>2, WidthFacts
<1>2. /\ power \in [0 .. n -> Register]
      /\ \A j \in 1 .. n : power[j] = TimesX(power[j - 1])
  <2> HIDE DEF n
  <2> QED BY <1>1, Powers
<1>3. Ones(packet, l, i + 1) = T
  <2>1. \A t \in (1 .. l) \X (1 .. Bits) : t[1] <= l
    BY <1>1
  <2> QED BY <2>1 DEF Ones
<1>4. ASSUME NEW t \in T
      PROVE  /\ power[Exponent(l, i, t)] \in Register
             /\ power[Exponent(l, i + 1, t)] \in Register
             /\ power[Exponent(l, i + 1, t)] = TimesX(power[Exponent(l, i, t)])
  <2>1. t \in (1 .. l) \X (1 .. Bits) /\ t[1] <= l
    BY <1>1 DEF Ones
  <2> HIDE DEF l, power, T
  <2>2. /\ Exponent(l, i, t) \in 0 .. n /\ Exponent(l, i + 1, t) \in 0 .. n
        /\ Exponent(l, i + 1, t) = Exponent(l, i, t) + 1
    BY <1>1, <2>1, ExponentFacts
  <2> HIDE DEF n
  <2>3. Exponent(l, i + 1, t) \in 1 .. n /\ Exponent(l, i + 1, t) - 1 = Exponent(l, i, t)
    BY <1>1, <2>2
  <2> QED BY <1>2, <2>2, <2>3
<1>5. IsFiniteSet(T)
  BY <1>1, OnesFinite
<1> HIDE DEF l, n, power, T
<1>6. old \in [T -> Register] /\ new \in [T -> Register] /\ \A t \in T : new[t] = TimesX(old[t])
  BY <1>4
<1>7. SoFar(packet, l, i) = Combined(T, old)
  BY DEF SoFar, T, power, n, l
<1>8. SoFar(packet, l, i + 1) = Combined(T, new)
  BY <1>3 DEF SoFar, power, n, l
<1> HIDE DEF old, new
<1>9. Step(Combined(T, old), 0) = Combined(T, new)
  BY <1>5, <1>6, TurnZero
<1> QED BY <1>7, <1>8, <1>9 DEF l

(* The next byte begins where the one before ended.                        *)
LEMMA NextByte ==
  ASSUME NEW packet, Len(packet) \in Nat, NEW k \in 0 .. Len(packet)
  PROVE  /\ SoFar(packet, k, 0) \in Register
         /\ SoFar(packet, k + 1, 0) = SoFar(packet, k, Bits)
<1>1. SoFar(packet, k, 0) \in Register
  BY DEF SoFar, Combined, Register
<1> DEFINE l == Len(packet) + 1
           T == Ones(packet, k, Bits)
<1>2. /\ Bits \in Nat /\ Bits <= Width /\ l \in Nat /\ k \in 0 .. l /\ k < l
      /\ Bits \in 0 .. Width
  BY WidthFacts DEF Width
<1>3. Ones(packet, k + 1, 0) = T
  <2>1. \A t \in (1 .. l) \X (1 .. Bits) :
          (t[1] <= k + 1 \/ (t[1] = k + 1 + 1 /\ t[2] <= 0))
            <=> (t[1] <= k \/ (t[1] = k + 1 /\ t[2] <= Bits))
    BY <1>2
  <2> QED BY <2>1 DEF Ones
<1>4. ASSUME NEW t \in T
      PROVE  Exponent(k + 1, 0, t) = Exponent(k, Bits, t)
  <2>1. t \in (1 .. l) \X (1 .. Bits) /\ (t[1] <= k \/ (t[1] = k + 1 /\ t[2] <= Bits))
    BY DEF Ones
  <2> HIDE DEF l, T
  <2> QED BY <1>2, <2>1, ExponentFacts
<1> DEFINE power == PowersOfX(Bits * l + Width)
<1> HIDE DEF T, power, l
<1>5. [t \in T |-> power[Exponent(k + 1, 0, t)]] = [t \in T |-> power[Exponent(k, Bits, t)]]
  BY <1>4
<1> QED BY <1>1, <1>3, <1>5 DEF SoFar, T, power, l

(* A byte is taken, bit by bit.                                            *)
LEMMA ByteIsTaken ==
  ASSUME NEW packet, Len(packet) \in Nat, NEW k \in 0 .. Len(packet)
  PROVE  Add(SoFar(packet, k, 0), Covered(packet)[k + 1]) = SoFar(packet, k + 1, 0)
<1> DEFINE data == Covered(packet)[k + 1]
           crc == SoFar(packet, k, 0)
<1>1. crc \in Register /\ SoFar(packet, k + 1, 0) = SoFar(packet, k, Bits)
  BY NextByte
<1>2. Bits \in Nat
  BY WidthFacts
<1>3. PICK after \in [0 .. Bits -> Register] :
        /\ after[0] = crc /\ Add(crc, data) = after[Bits]
        /\ \A i \in 1 .. Bits : after[i] = Step(after[i - 1], BitOf(data, i))
  <2> HIDE DEF data, crc
  <2> QED BY <1>1, AddTurns
<1> DEFINE T == {i \in 0 .. Bits : after[i] = SoFar(packet, k, i)}
<1>4. 0 \in T
  BY <1>2, <1>3
<1>5. ASSUME NEW i \in 0 .. Bits - 1, i \in T
      PROVE  i + 1 \in T
  <2>1. i + 1 \in 1 .. Bits /\ (i + 1) - 1 = i /\ i + 1 \in 0 .. Bits
    BY <1>2
  <2>2. after[i + 1] = Step(after[i], BitOf(data, i + 1))
    <3> HIDE DEF data, T, crc
    <3> QED BY <1>3, <2>1
  <2>3. Step(SoFar(packet, k, i), BitOf(data, i + 1)) = SoFar(packet, k, i + 1)
    BY NextBit
  <2>4. after[i] = SoFar(packet, k, i)
    BY <1>5
  <2> HIDE DEF data
  <2> QED BY <2>1, <2>2, <2>3, <2>4
<1>6. Bits \in T
  <2>1. \A i \in 0 .. Bits : i \in T
    <3> HIDE DEF T
    <3> QED BY <1>2, <1>4, <1>5, Ascent
  <2> QED BY <1>2, <2>1
<1>7. after[Bits] = SoFar(packet, k, Bits)
  BY <1>6
<1> HIDE DEF T
<1> QED BY <1>1, <1>3, <1>7

(* At the beginning nothing is taken, and at the end it is the remainder.  *)
LEMMA NothingTaken ==
  ASSUME NEW packet, Len(packet) \in Nat
  PROVE  SoFar(packet, 0, 0) = {}
<1>1. Ones(packet, 0, 0) = {}
  BY DEF Ones
<1>2. ~Odd({})
  BY FS_EmptySet DEF Odd
<1>3. \A f : Combined({}, f) = {}
  <2> TAKE f
  <2>1. \A i : {t \in {} : i \in f[t]} = {}
    OBVIOUS
  <2> QED BY <1>2, <2>1 DEF Combined
<1> QED BY <1>1, <1>3 DEF SoFar

LEMMA RemainderIsSoFar ==
  ASSUME NEW packet, Len(packet) \in Nat
  PROVE  Remainder(packet) = SoFar(packet, Len(packet) + 1, Width)
<1> DEFINE l == Len(packet) + 1
           T == Ones(packet, l, Width)
           terms == {t \in (1 .. l) \X (1 .. Bits) : BitOf(Covered(packet)[t[1]], t[2]) = 1}
           power == PowersOfX(Bits * l + Width)
           pow == [t \in T |-> power[Exponent(l, Width, t)]]
<1>1. T = terms
  <2>1. \A t \in (1 .. l) \X (1 .. Bits) : t[1] <= l
    OBVIOUS
  <2> QED BY <2>1 DEF Ones
<1>2. \A t \in T : pow[t] = power[Bits * (l - t[1]) + Bits - t[2] + Width]
  BY DEF Exponent
<1>3. SoFar(packet, l, Width) = {i \in 0 .. Width - 1 : Odd({t \in T : i \in pow[t]})}
  <2> HIDE DEF power
  <2> QED BY DEF SoFar, Combined, power
<1>4. Remainder(packet) =
        {i \in 0 .. Width - 1 :
           Odd({t \in terms : i \in power[Bits * (l - t[1]) + Bits - t[2] + Width]})}
  <2> HIDE DEF power
  <2> QED BY DEF Remainder, power
<1> HIDE DEF T, terms, power, pow
<1>5. \A i : {t \in T : i \in pow[t]} = {t \in terms : i \in power[Bits * (l - t[1]) + Bits - t[2] + Width]}
  BY <1>1, <1>2
<1> QED BY <1>3, <1>4, <1>5

(* For every packet of bytes, of whatever length, CRC.cpp computes the     *)
(* remainder of its bits, times x^Width, divided by x^Width +              *)
(* CRCPOLYNOMIAL: for any number of bits in a byte and any polynomial.     *)
THEOREM CrcIsRemainder ==
  ASSUME NEW packet, Len(packet) \in Nat
  PROVE  Checksum(packet) = Remainder(packet)
<1> DEFINE n == Len(packet) + 1
<1>1. PICK crc \in [0 .. n -> Register] :
        /\ crc[0] = {} /\ Checksum(packet) = Finalize(crc[n])
        /\ \A k \in 1 .. n : crc[k] = Add(crc[k - 1], Covered(packet)[k])
  BY ChecksumTurns
<1>2. n \in Nat /\ Width \in Nat
  BY WidthFacts
<1> DEFINE T == {k \in 0 .. n : crc[k] = SoFar(packet, k, 0)}
<1>3. n \in T
  <2>1. 0 \in T
    <3>1. 0 \in 0 .. n
      BY <1>2
    <3>2. SoFar(packet, 0, 0) = {}
      BY NothingTaken
    <3> HIDE DEF n
    <3> QED BY <1>1, <3>1, <3>2
  <2>2. ASSUME NEW k \in 0 .. n - 1, k \in T
        PROVE  k + 1 \in T
    <3>1. k + 1 \in 1 .. n /\ (k + 1) - 1 = k /\ k + 1 \in 0 .. n /\ k \in 0 .. Len(packet)
      OBVIOUS
    <3>2. crc[k + 1] = Add(crc[k], Covered(packet)[k + 1])
      <4> HIDE DEF T, n
      <4> QED BY <1>1, <3>1
    <3>3. Add(SoFar(packet, k, 0), Covered(packet)[k + 1]) = SoFar(packet, k + 1, 0)
      BY <3>1, ByteIsTaken
    <3>4. crc[k] = SoFar(packet, k, 0)
      BY <2>2
    <3> HIDE DEF n
    <3> QED BY <3>1, <3>2, <3>3, <3>4
  <2>3. \A k \in 0 .. n : k \in T
    <3> HIDE DEF T, n
    <3> QED BY <1>2, <2>1, <2>2, Ascent
  <2> QED BY <1>2, <2>3
<1>4. crc[n] = SoFar(packet, n, 0) /\ crc[n] \in Register
  BY <1>1, <1>3
<1> HIDE DEF T
<1>5. PICK after \in [0 .. Width -> Register] :
        /\ after[0] = crc[n] /\ Finalize(crc[n]) = after[Width]
        /\ \A i \in 1 .. Width : after[i] = Step(after[i - 1], 0)
  <2> HIDE DEF n
  <2> QED BY <1>4, FinalizeTurns
<1> DEFINE Z == {i \in 0 .. Width : after[i] = SoFar(packet, n, i)}
<1>6. Width \in Z
  <2>1. 0 \in Z
    <3> HIDE DEF n
    <3> QED BY <1>2, <1>4, <1>5
  <2>2. ASSUME NEW i \in 0 .. Width - 1, i \in Z
        PROVE  i + 1 \in Z
    <3>1. i + 1 \in 1 .. Width /\ (i + 1) - 1 = i /\ i + 1 \in 0 .. Width
      BY <1>2
    <3>2. after[i + 1] = Step(after[i], 0)
      <4> HIDE DEF Z, n
      <4> QED BY <1>5, <3>1
    <3>3. Step(SoFar(packet, n, i), 0) = SoFar(packet, n, i + 1)
      BY NextZero
    <3>4. after[i] = SoFar(packet, n, i)
      BY <2>2
    <3> HIDE DEF n
    <3> QED BY <3>1, <3>2, <3>3, <3>4
  <2>3. \A i \in 0 .. Width : i \in Z
    <3> HIDE DEF Z
    <3> QED BY <1>2, <2>1, <2>2, Ascent
  <2> QED BY <1>2, <2>3
<1>7. after[Width] = SoFar(packet, n, Width)
  BY <1>6
<1>8. Remainder(packet) = SoFar(packet, n, Width)
  BY RemainderIsSoFar
<1> HIDE DEF n, Z
<1> QED BY <1>1, <1>5, <1>7, <1>8

-----------------------------------------------------------------------------
(* What one step tells apart it never confuses again: the register before  *)
(* follows from the one after.                                             *)
LEMMA TimesXTells ==
  ASSUME 0 \in CRCPOLYNOMIAL, NEW c \in Register, NEW d \in Register, TimesX(c) = TimesX(d)
  PROVE  c = d
<1>1. c \subseteq 0 .. Width - 1 /\ d \subseteq 0 .. Width - 1 /\ Width \in Nat /\ 0 \in 0 .. Width - 1
  BY WidthFacts DEF Register
<1>2. Width - 1 \in c <=> Width - 1 \in d
  <2>1. 0 - 1 \notin c /\ 0 - 1 \notin d
    BY <1>1
  <2>2. /\ 0 \in TimesX(c) <=> ~((0 - 1 \in c) <=> (Width - 1 \in c /\ 0 \in CRCPOLYNOMIAL))
        /\ 0 \in TimesX(d) <=> ~((0 - 1 \in d) <=> (Width - 1 \in d /\ 0 \in CRCPOLYNOMIAL))
    BY <1>1, TimesXMember
  <2> QED BY <2>1, <2>2
<1>3. ASSUME NEW i \in 0 .. Width - 1
      PROVE  i \in c <=> i \in d
  <2>1. CASE i = Width - 1
    BY <1>2, <2>1
  <2>2. CASE i # Width - 1
    <3>1. i + 1 \in 0 .. Width - 1 /\ (i + 1) - 1 = i
      BY <1>1, <2>2
    <3>2. /\ i + 1 \in TimesX(c) <=> ~((i \in c) <=> (Width - 1 \in c /\ i + 1 \in CRCPOLYNOMIAL))
          /\ i + 1 \in TimesX(d) <=> ~((i \in d) <=> (Width - 1 \in d /\ i + 1 \in CRCPOLYNOMIAL))
      BY <3>1, TimesXMember
    <3> QED BY <1>2, <3>2
  <2> QED BY <2>1, <2>2
<1> QED BY <1>1, <1>3

LEMMA StepTells ==
  ASSUME 0 \in CRCPOLYNOMIAL, NEW c \in Register, NEW d \in Register, NEW bit,
         Step(c, bit) = Step(d, bit)
  PROVE  c = d
<1>1. CASE bit # 1
  BY <1>1, StepZero, TimesXTells
<1>2. CASE bit = 1
  <2>1. Xor(TimesX(c), {0}) = Xor(TimesX(d), {0})
    BY <1>2, StepOne
  <2>2. \A x : x \in TimesX(c) <=> x \in TimesX(d)
    BY <2>1, XorMember
  <2>3. TimesX(c) = TimesX(d)
    <3>1. TimesX(c) \in Register /\ TimesX(d) \in Register
      BY TimesXMember
    <3> QED BY <2>2, <3>1 DEF Register
  <2> QED BY <2>3, TimesXTells
<1> QED BY <1>1, <1>2

(* So it is with the turns of a byte and with the zero bits at the end.    *)
LEMMA AddKeepsApart ==
  ASSUME 0 \in CRCPOLYNOMIAL, NEW c \in Register, NEW d \in Register, NEW data,
         Add(c, data) = Add(d, data)
  PROVE  c = d
<1>1. PICK f \in [0 .. Bits -> Register] :
        /\ f[0] = c /\ Add(c, data) = f[Bits]
        /\ \A i \in 1 .. Bits : f[i] = Step(f[i - 1], BitOf(data, i))
  BY AddTurns
<1>2. PICK g \in [0 .. Bits -> Register] :
        /\ g[0] = d /\ Add(d, data) = g[Bits]
        /\ \A i \in 1 .. Bits : g[i] = Step(g[i - 1], BitOf(data, i))
  BY AddTurns
<1> DEFINE T == {i \in 0 .. Bits : f[i] = g[i]}
<1>3. Bits \in Nat /\ Bits \in T
  <2>1. Bits \in Nat
    BY WidthFacts
  <2>2. f[Bits] = g[Bits]
    BY <1>1, <1>2
  <2> QED BY <2>1, <2>2
<1>4. ASSUME NEW k \in 1 .. Bits, k \in T
      PROVE  k - 1 \in T
  <2>1. k - 1 \in 0 .. Bits
    BY <1>3
  <2>2. Step(f[k - 1], BitOf(data, k)) = Step(g[k - 1], BitOf(data, k))
    BY <1>1, <1>2, <1>4
  <2>3. f[k - 1] = g[k - 1]
    BY <2>1, <2>2, StepTells
  <2> QED BY <2>1, <2>3
<1>5. 0 \in T
  <2>1. \A k \in 0 .. Bits : k \in T
    <3> HIDE DEF T
    <3> QED BY <1>3, <1>4, Descent
  <2> QED BY <1>3, <2>1
<1> QED BY <1>1, <1>2, <1>5

LEMMA FinalizeKeepsApart ==
  ASSUME 0 \in CRCPOLYNOMIAL, NEW c \in Register, NEW d \in Register, Finalize(c) = Finalize(d)
  PROVE  c = d
<1>1. PICK f \in [0 .. Width -> Register] :
        /\ f[0] = c /\ Finalize(c) = f[Width]
        /\ \A i \in 1 .. Width : f[i] = Step(f[i - 1], 0)
  BY FinalizeTurns
<1>2. PICK g \in [0 .. Width -> Register] :
        /\ g[0] = d /\ Finalize(d) = g[Width]
        /\ \A i \in 1 .. Width : g[i] = Step(g[i - 1], 0)
  BY FinalizeTurns
<1> DEFINE T == {i \in 0 .. Width : f[i] = g[i]}
<1>3. Width \in Nat /\ Width \in T
  <2>1. Width \in Nat
    BY WidthFacts
  <2>2. f[Width] = g[Width]
    BY <1>1, <1>2
  <2> QED BY <2>1, <2>2
<1>4. ASSUME NEW k \in 1 .. Width, k \in T
      PROVE  k - 1 \in T
  <2>1. k - 1 \in 0 .. Width
    BY <1>3
  <2>2. Step(f[k - 1], 0) = Step(g[k - 1], 0)
    BY <1>1, <1>2, <1>4
  <2>3. f[k - 1] = g[k - 1]
    BY <2>1, <2>2, StepTells
  <2> QED BY <2>1, <2>3
<1>5. 0 \in T
  <2>1. \A k \in 0 .. Width : k \in T
    <3> HIDE DEF T
    <3> QED BY <1>3, <1>4, Descent
  <2> QED BY <1>3, <2>1
<1> QED BY <1>1, <1>2, <1>5

(* The highest bit in which two registers differ moves up with each step,  *)
(* and a byte does not shift it out of the register.                       *)
Apart(c, d, m) == /\ ~(m \in c <=> m \in d)
                  /\ \A x \in 0 .. Width - 1 : x > m => (x \in c <=> x \in d)

LEMMA ApartMoves ==
  ASSUME NEW c \in Register, NEW d \in Register, NEW m \in 0 .. Width - 2, Apart(c, d, m),
         NEW a, NEW b
  PROVE  Apart(Step(c, a), Step(d, b), m + 1)
<1>1. /\ Width \in Nat /\ Width - 1 \in 0 .. Width - 1 /\ Width - 1 > m
      /\ m + 1 \in 0 .. Width - 1 /\ (m + 1) - 1 = m
  BY WidthFacts
<1>2. Width - 1 \in c <=> Width - 1 \in d
  BY <1>1 DEF Apart
<1>3. ASSUME NEW x \in 1 .. Width - 1, NEW e \in Register, NEW bit
      PROVE  x \in Step(e, bit) <=> ~((x - 1 \in e) <=> (Width - 1 \in e /\ x \in CRCPOLYNOMIAL))
  <2>1. x \in 0 .. Width - 1 /\ x # 0
    BY <1>1
  <2>2. x \in TimesX(e) <=> ~((x - 1 \in e) <=> (Width - 1 \in e /\ x \in CRCPOLYNOMIAL))
    BY <2>1, TimesXMember
  <2>3. CASE bit # 1
    BY <2>2, <2>3, StepZero
  <2>4. CASE bit = 1
    <3>1. Step(e, bit) = Xor(TimesX(e), {0}) /\ x \notin {0}
      BY <2>1, <2>4, StepOne
    <3> QED BY <2>2, <3>1, XorMember
  <2> QED BY <2>3, <2>4
<1>4. ASSUME NEW x \in 1 .. Width - 1
      PROVE  (x \in Step(c, a) <=> x \in Step(d, b)) <=> (x - 1 \in c <=> x - 1 \in d)
  <2>1. x \in Step(c, a) <=> ~((x - 1 \in c) <=> (Width - 1 \in c /\ x \in CRCPOLYNOMIAL))
    BY <1>3
  <2>2. x \in Step(d, b) <=> ~((x - 1 \in d) <=> (Width - 1 \in d /\ x \in CRCPOLYNOMIAL))
    BY <1>3
  <2> QED BY <1>2, <2>1, <2>2
<1>5. m + 1 \in 1 .. Width - 1
  BY <1>1
<1>6. ~(m + 1 \in Step(c, a) <=> m + 1 \in Step(d, b))
  BY <1>1, <1>4, <1>5 DEF Apart
<1>7. ASSUME NEW x \in 0 .. Width - 1, x > m + 1
      PROVE  x \in Step(c, a) <=> x \in Step(d, b)
  <2>1. x \in 1 .. Width - 1 /\ x - 1 \in 0 .. Width - 1 /\ x - 1 > m
    BY <1>1, <1>7
  <2>2. x - 1 \in c <=> x - 1 \in d
    BY <2>1 DEF Apart
  <2> QED BY <1>4, <2>1, <2>2
<1> QED BY <1>6, <1>7 DEF Apart

LEMMA ApartBegins ==
  ASSUME NEW c \in Register, NEW a, NEW b, ~(a = 1 <=> b = 1)
  PROVE  Apart(Step(c, a), Step(c, b), 0)
<1>1. ASSUME NEW bit, bit # 1
      PROVE  \A x : x \in Step(c, 1) <=> ~(x \in Step(c, bit) <=> x \in {0})
  BY <1>1, StepZero, StepOne, XorMember
<1>2. \A x \in 0 .. Width - 1 : x > 0 => x \notin {0}
  OBVIOUS
<1>3. 0 \in {0}
  OBVIOUS
<1>4. CASE a = 1 /\ b # 1
  BY <1>1, <1>2, <1>3, <1>4 DEF Apart
<1>5. CASE a # 1 /\ b = 1
  BY <1>1, <1>2, <1>3, <1>5 DEF Apart
<1> QED BY <1>4, <1>5

(* Bytes that differ in a bit take a register to different ones.           *)
LEMMA AddTells ==
  ASSUME NEW c \in Register, NEW a, NEW b,
         \E i \in 1 .. Bits : ~(BitOf(a, i) = 1 <=> BitOf(b, i) = 1)
  PROVE  Add(c, a) # Add(c, b)
<1>1. PICK f \in [0 .. Bits -> Register] :
        /\ f[0] = c /\ Add(c, a) = f[Bits]
        /\ \A i \in 1 .. Bits : f[i] = Step(f[i - 1], BitOf(a, i))
  BY AddTurns
<1>2. PICK g \in [0 .. Bits -> Register] :
        /\ g[0] = c /\ Add(c, b) = g[Bits]
        /\ \A i \in 1 .. Bits : g[i] = Step(g[i - 1], BitOf(b, i))
  BY AddTurns
<1> DEFINE Same(i) == f[i] = g[i] /\ \A j \in 1 .. i : BitOf(a, j) = 1 <=> BitOf(b, j) = 1
           Other(i) == \E m \in 0 .. i - 1 : Apart(f[i], g[i], m)
           T == {i \in 0 .. Bits : Same(i) \/ Other(i)}
<1>3. Bits \in Nat /\ Width \in Nat /\ Bits <= Width
  BY WidthFacts DEF Width
<1>4. 0 \in T
  BY <1>1, <1>2, <1>3
<1>5. ASSUME NEW k \in 0 .. Bits - 1, k \in T
      PROVE  k + 1 \in T
  <2>1. k + 1 \in 1 .. Bits /\ k + 1 \in 0 .. Bits /\ (k + 1) - 1 = k /\ k \in 0 .. Bits /\ k \in Nat
    BY <1>3
  <2>2. f[k + 1] = Step(f[k], BitOf(a, k + 1)) /\ g[k + 1] = Step(g[k], BitOf(b, k + 1))
    <3> HIDE DEF T
    <3> QED BY <1>1, <1>2, <2>1
  <2>3. f[k] \in Register /\ g[k] \in Register
    BY <2>1
  <2>4. ASSUME Same(k), BitOf(a, k + 1) = 1 <=> BitOf(b, k + 1) = 1
        PROVE  Same(k + 1)
    <3>1. f[k + 1] = g[k + 1]
      <4>1. CASE BitOf(a, k + 1) = 1
        BY <2>2, <2>4, <4>1
      <4>2. CASE BitOf(a, k + 1) # 1
        BY <2>2, <2>3, <2>4, <4>2, StepZero
      <4> QED BY <4>1, <4>2
    <3>2. \A j \in 1 .. k + 1 : j \in 1 .. k \/ j = k + 1
      BY <2>1
    <3> QED BY <2>4, <3>1, <3>2
  <2>5. ASSUME Same(k), ~(BitOf(a, k + 1) = 1 <=> BitOf(b, k + 1) = 1)
        PROVE  Other(k + 1)
    <3>1. Apart(f[k + 1], g[k + 1], 0)
      BY <2>2, <2>3, <2>5, ApartBegins
    <3>2. 0 \in 0 .. (k + 1) - 1
      BY <2>1
    <3> QED BY <3>1, <3>2
  <2>6. ASSUME Other(k)
        PROVE  Other(k + 1)
    <3>1. PICK m \in 0 .. k - 1 : Apart(f[k], g[k], m)
      BY <2>6
    <3>2. m \in 0 .. Width - 2 /\ m + 1 \in 0 .. (k + 1) - 1
      BY <1>3, <2>1
    <3>3. Apart(f[k + 1], g[k + 1], m + 1)
      BY <2>2, <2>3, <3>1, <3>2, ApartMoves
    <3> QED BY <3>2, <3>3
  <2>7. Same(k) \/ Other(k)
    BY <1>5
  <2> HIDE DEF Same, Other
  <2> QED BY <2>1, <2>4, <2>5, <2>6, <2>7
<1>6. Same(Bits) \/ Other(Bits)
  <2>1. \A k \in 0 .. Bits : k \in T
    <3> HIDE DEF T
    <3> QED BY <1>3, <1>4, <1>5, Ascent
  <2> HIDE DEF Same, Other
  <2> QED BY <1>3, <2>1
<1>7. ~Same(Bits)
  OBVIOUS
<1>8. f[Bits] # g[Bits]
  BY <1>6, <1>7 DEF Apart
<1> QED BY <1>1, <1>2, <1>8

(* The index of the next turn.                                             *)
LEMMA NextIndex ==
  ASSUME NEW n \in Nat, NEW k \in 0 .. n - 1
  PROVE  k + 1 \in 1 .. n /\ (k + 1) - 1 = k /\ k + 1 \in 0 .. n /\ k \in 0 .. n /\ k \in Nat
OBVIOUS

(* Two packets that differ in one byte.                                    *)
LEMMA ChecksumTells ==
  ASSUME 0 \in CRCPOLYNOMIAL, NEW p, NEW q, NEW l \in Nat, Len(p) = l, Len(q) = l,
         NEW j \in 1 .. l + 1,
         \A i \in 1 .. l + 1 : i # j => Covered(p)[i] = Covered(q)[i],
         \E i \in 1 .. Bits : ~(BitOf(Covered(p)[j], i) = 1 <=> BitOf(Covered(q)[j], i) = 1)
  PROVE  Checksum(p) # Checksum(q)
<1> DEFINE n == l + 1
<1>1. PICK f \in [0 .. n -> Register] :
        /\ f[0] = {} /\ Checksum(p) = Finalize(f[n])
        /\ \A k \in 1 .. n : f[k] = Add(f[k - 1], Covered(p)[k])
  <2>1. Len(p) \in Nat /\ n = Len(p) + 1
    OBVIOUS
  <2> HIDE DEF n
  <2> QED BY <2>1, ChecksumTurns
<1>2. PICK g \in [0 .. n -> Register] :
        /\ g[0] = {} /\ Checksum(q) = Finalize(g[n])
        /\ \A k \in 1 .. n : g[k] = Add(g[k - 1], Covered(q)[k])
  <2>1. Len(q) \in Nat /\ n = Len(q) + 1
    OBVIOUS
  <2> HIDE DEF n
  <2> QED BY <2>1, ChecksumTurns
<1> DEFINE T == {k \in 0 .. n : IF k < j THEN f[k] = g[k] ELSE f[k] # g[k]}
<1>3. n \in Nat /\ j \in 1 .. n
  OBVIOUS
<1>4. 0 \in T
  <2> HIDE DEF n
  <2>1. 0 \in 0 .. n /\ 0 < j
    BY <1>3
  <2>2. f[0] = g[0]
    BY <1>1, <1>2
  <2> QED BY <2>1, <2>2
<1>5. ASSUME NEW k \in 0 .. n - 1, k \in T
      PROVE  k + 1 \in T
  <2>1. /\ k + 1 \in 1 .. n /\ (k + 1) - 1 = k /\ k + 1 \in 0 .. n /\ k \in 0 .. n
        /\ k \in Nat
    <3> HIDE DEF T, n
    <3> QED BY <1>3, NextIndex
  <2>2. /\ f[k + 1] = Add(f[k], Covered(p)[k + 1]) /\ g[k + 1] = Add(g[k], Covered(q)[k + 1])
        /\ f[k] \in Register /\ g[k] \in Register
    <3> HIDE DEF T, n
    <3> QED BY <1>1, <1>2, <2>1
  <2>3. k + 1 # j => Covered(p)[k + 1] = Covered(q)[k + 1]
    BY <2>1
  <2>4. IF k < j THEN f[k] = g[k] ELSE f[k] # g[k]
    BY <1>5
  <2>5. CASE k + 1 < j
    <3>1. f[k + 1] = g[k + 1]
      BY <1>3, <2>1, <2>2, <2>3, <2>4, <2>5
    <3> QED BY <2>1, <2>5, <3>1
  <2>6. CASE k + 1 = j
    <3>1. f[k] = g[k]
      BY <1>3, <2>1, <2>4, <2>6
    <3>2. f[k + 1] # g[k + 1]
      BY <2>2, <2>6, <3>1, AddTells
    <3> QED BY <1>3, <2>1, <2>6, <3>2
  <2>7. CASE k + 1 > j
    <3>1. f[k] # g[k] /\ k + 1 # j
      BY <1>3, <2>1, <2>4, <2>7
    <3>2. f[k + 1] # g[k + 1]
      BY <2>2, <2>3, <3>1, AddKeepsApart
    <3> QED BY <1>3, <2>1, <2>7, <3>2
  <2> QED BY <1>3, <2>1, <2>5, <2>6, <2>7
<1>6. f[n] # g[n]
  <2>1. \A k \in 0 .. n : k \in T
    <3> HIDE DEF T, n
    <3> QED BY <1>3, <1>4, <1>5, Ascent
  <2>2. n \in T /\ ~(n < j)
    BY <1>3, <2>1
  <2> QED BY <2>2
<1>7. f[n] \in Register /\ g[n] \in Register
  <2> HIDE DEF n
  <2> QED BY <1>3
<1> HIDE DEF T, n
<1> QED BY <1>1, <1>2, <1>6, <1>7, FinalizeKeepsApart

(* The two bytes of a CRC hold all of the register.                        *)
LEMMA NumberTells ==
  ASSUME NEW c, NEW d, NEW from \in Nat, Number(c, from) = Number(d, from)
  PROVE  \A x \in from .. from + Bits - 1 : x \in c <=> x \in d
<1>1. PICK f \in [0 .. Bits -> Nat] :
        /\ f[0] = 0 /\ Number(c, from) = f[Bits]
        /\ \A i \in 1 .. Bits : f[i] = 2 * f[i - 1] + (IF from + Bits - i \in c THEN 1 ELSE 0)
  BY NumberTurns
<1>2. PICK g \in [0 .. Bits -> Nat] :
        /\ g[0] = 0 /\ Number(d, from) = g[Bits]
        /\ \A i \in 1 .. Bits : g[i] = 2 * g[i - 1] + (IF from + Bits - i \in d THEN 1 ELSE 0)
  BY NumberTurns
<1>3. Bits \in Nat
  BY WidthFacts
<1> DEFINE T == {k \in 0 .. Bits : f[k] = g[k]}
<1>4. ASSUME NEW k \in 1 .. Bits, f[k] = g[k]
      PROVE  /\ f[k - 1] = g[k - 1]
             /\ from + Bits - k \in c <=> from + Bits - k \in d
  <2> DEFINE u == IF from + Bits - k \in c THEN 1 ELSE 0
             v == IF from + Bits - k \in d THEN 1 ELSE 0
  <2>1. f[k - 1] \in Nat /\ g[k - 1] \in Nat
    BY <1>3
  <2>2. u \in {0, 1} /\ v \in {0, 1}
    OBVIOUS
  <2>3. 2 * f[k - 1] + u = 2 * g[k - 1] + v
    BY <1>1, <1>2, <1>4
  <2> HIDE DEF u, v
  <2>4. f[k - 1] = g[k - 1] /\ u = v
    BY <2>1, <2>2, <2>3
  <2> QED BY <2>4 DEF u, v
<1>5. Bits \in T
  <2>1. f[Bits] = g[Bits]
    BY <1>1, <1>2
  <2> QED BY <1>3, <2>1
<1>6. \A k \in 1 .. Bits : k \in T => k - 1 \in T
  BY <1>3, <1>4
<1>7. \A k \in 0 .. Bits : k \in T
  <2> HIDE DEF T
  <2> QED BY <1>3, <1>5, <1>6, Descent
<1>8. ASSUME NEW x \in from .. from + Bits - 1
      PROVE  x \in c <=> x \in d
  <2>1. from + Bits - x \in 1 .. Bits /\ from + Bits - (from + Bits - x) = x
    BY <1>3
  <2>2. f[from + Bits - x] = g[from + Bits - x]
    BY <1>3, <1>7, <2>1
  <2> QED BY <1>4, <2>1, <2>2
<1> QED BY <1>8

LEMMA PacketCRCTells ==
  ASSUME NEW p, NEW q, Checksum(p) \in Register, Checksum(q) \in Register,
         PacketCRC(p) = PacketCRC(q)
  PROVE  Checksum(p) = Checksum(q)
<1> DEFINE c == Checksum(p)
           d == Checksum(q)
<1>1. Number(c, 0) = Number(d, 0) /\ Number(c, Bits) = Number(d, Bits)
  BY DEF PacketCRC
<1>2. c \subseteq 0 .. Width - 1 /\ d \subseteq 0 .. Width - 1
  BY DEF Register
<1> HIDE DEF c, d
<1>3. Bits \in Nat /\ Width = 2 * Bits
  BY WidthFacts DEF Width
<1>4. \A x \in 0 .. 0 + Bits - 1 : x \in c <=> x \in d
  BY <1>1, <1>3, NumberTells
<1>5. \A x \in Bits .. Bits + Bits - 1 : x \in c <=> x \in d
  BY <1>1, <1>3, NumberTells
<1>6. \A x \in 0 .. Width - 1 : x \in 0 .. 0 + Bits - 1 \/ x \in Bits .. Bits + Bits - 1
  BY <1>3
<1>7. c = d
  BY <1>2, <1>4, <1>5, <1>6
<1> QED BY <1>7 DEF c, d

(* Bytes that have the same bits are the same.                             *)
LEMMA BitsTell ==
  ASSUME NEW a \in Byte, NEW b \in Byte, a # b
  PROVE  \E i \in 1 .. Bits : ~(BitOf(a, i) = 1 <=> BitOf(b, i) = 1)
<1>1. a \in Nat /\ b \in Nat /\ Bits \in Nat
  BY ByteFacts, WidthFacts
<1>2. PICK f \in [0 .. Bits -> Nat] :
        /\ f[0] = a /\ Shifted(a) = f
        /\ \A i \in 1 .. Bits : f[i] = f[i - 1] \div 2
  BY <1>1, ShiftTurns
<1>3. PICK g \in [0 .. Bits -> Nat] :
        /\ g[0] = b /\ Shifted(b) = g
        /\ \A i \in 1 .. Bits : g[i] = g[i - 1] \div 2
  BY <1>1, ShiftTurns
<1>4. SUFFICES ASSUME \A i \in 1 .. Bits : BitOf(a, i) = 1 <=> BitOf(b, i) = 1
               PROVE  FALSE
  OBVIOUS
<1> DEFINE T == {k \in 0 .. Bits : f[k] = g[k]}
<1>5. Bits \in T
  <2>1. f[Bits] = 0 /\ g[Bits] = 0
    BY <1>2, <1>3, BytesFit
  <2> QED BY <1>1, <2>1
<1>6. ASSUME NEW k \in 1 .. Bits, k \in T
      PROVE  k - 1 \in T
  <2>1. /\ k - 1 \in 0 .. Bits /\ Bits - k + 1 \in 1 .. Bits
        /\ Bits - (Bits - k + 1) = k - 1
    BY <1>1
  <2>2. BitOf(a, Bits - k + 1) = f[k - 1] % 2 /\ BitOf(b, Bits - k + 1) = g[k - 1] % 2
    BY <1>2, <1>3, <2>1 DEF BitOf
  <2>3. f[k - 1] % 2 = 1 <=> g[k - 1] % 2 = 1
    BY <1>4, <2>1, <2>2
  <2>4. f[k - 1] \div 2 = g[k - 1] \div 2
    BY <1>2, <1>3, <1>6
  <2>5. \A x, y \in Nat : x \div 2 = y \div 2 /\ (x % 2 = 1 <=> y % 2 = 1) => x = y
    OBVIOUS
  <2>6. f[k - 1] = g[k - 1]
    BY <2>1, <2>3, <2>4, <2>5
  <2> QED BY <2>1, <2>6
<1>7. 0 \in T
  <2>1. \A k \in 0 .. Bits : k \in T
    <3> HIDE DEF T
    <3> QED BY <1>1, <1>5, <1>6, Descent
  <2> QED BY <1>1, <2>1
<1> QED BY <1>2, <1>3, <1>7

(* A checksum is a register.                                               *)
LEMMA ChecksumType ==
  ASSUME NEW packet, Len(packet) \in Nat
  PROVE  Checksum(packet) \in Register
<1> DEFINE n == Len(packet) + 1
<1>1. PICK f \in [0 .. n -> Register] : Checksum(packet) = Finalize(f[n])
  BY ChecksumTurns
<1>2. f[n] \in Register
  <2>1. n \in 0 .. n
    OBVIOUS
  <2> HIDE DEF n
  <2> QED BY <2>1
<1> HIDE DEF n
<1>3. PICK g \in [0 .. Width -> Register] : Finalize(f[n]) = g[Width]
  BY <1>2, FinalizeTurns
<1> QED BY <1>1, <1>3, WidthFacts

(* The code's CRC tells a packet from every other that differs from it in  *)
(* one byte.                                                               *)
THEOREM CodesCRCTells == TellsOneByte
<1> SUFFICES ASSUME NEW p \in Packets, NEW q \in Contents, OneApart(p, q), CRC[p] = CRC[q]
             PROVE  FALSE
  BY DEF TellsOneByte
<1>1. p \in Contents /\ p \in Seq(Byte) /\ Len(p) \in Nat /\ p \in [1 .. Len(p) -> Byte]
  BY PacketFacts, ByteFacts
<1>2. q \in Seq(Byte) /\ q \in [1 .. Len(q) -> Byte]
  <2>1. PICK n \in 0 .. MAX_PACKET_LENGTH : q \in [1 .. n -> Byte]
    BY DEF Contents
  <2> QED BY <2>1, ByteFacts
<1> DEFINE l == Len(p)
<1>3. PICK k \in 1 .. l : \A i \in 1 .. l : p[i] = q[i] <=> i # k
  BY DEF OneApart
<1>4. Len(q) = l /\ l \in Nat
  BY <1>1 DEF OneApart
<1>5. /\ Covered(p)[1] = l /\ Covered(q)[1] = l
      /\ \A i \in 2 .. l + 1 : Covered(p)[i] = p[i - 1] /\ Covered(q)[i] = q[i - 1]
  BY <1>1, <1>2, <1>4 DEF Covered
<1> HIDE DEF l
<1>6. \A i \in 1 .. l + 1 : i # k + 1 => Covered(p)[i] = Covered(q)[i]
  BY <1>3, <1>4, <1>5
<1>7. Covered(p)[k + 1] = p[k] /\ Covered(q)[k + 1] = q[k] /\ k + 1 \in 1 .. l + 1
  BY <1>3, <1>4, <1>5
<1>8. p[k] # q[k] /\ p[k] \in Byte /\ q[k] \in Byte
  BY <1>1, <1>2, <1>3, <1>4 DEF l
<1>9. \E i \in 1 .. Bits : ~(BitOf(Covered(p)[k + 1], i) = 1 <=> BitOf(Covered(q)[k + 1], i) = 1)
  BY <1>7, <1>8, BitsTell
<1>10. Checksum(p) # Checksum(q)
  BY <1>4, <1>6, <1>7, <1>9, ChecksumTells, PolynomialEndsInOne DEF l
<1>11. PacketCRC(p) = PacketCRC(q)
  BY <1>1, CodesCRC
<1>12. Checksum(p) \in Register /\ Checksum(q) \in Register
  BY <1>1, <1>4, ChecksumType DEF l
<1> QED BY <1>10, <1>11, <1>12, PacketCRCTells

(* Whatever the receiver got, CRC.cpp computes the remainder of the        *)
(* polynomial division for it: the checksum of ChecksumIsRemainder.        *)
THEOREM ChecksumHolds == Spec => []ChecksumIsRemainder
<1>1. Inv => ChecksumIsRemainder
  <2> SUFFICES ASSUME Inv PROVE Checksum(Incoming) = Remainder(Incoming)
    BY DEF ChecksumIsRemainder
  <2>1. Length \in Nat
    BY ByteFacts DEF Inv, TypeOK
  <2>2. Len(Incoming) = Length
    BY <2>1 DEF Incoming
  <2> QED BY <2>1, <2>2, CrcIsRemainder
<1> QED BY <1>1, InitInv, Inductive, PTL DEF Spec

(* A damaged packet is dropped with the CRC of CRC.cpp: DamageIsDropped    *)
(* with its hypothesis about the CRC proved.                               *)
THEOREM CodesCRCDropsDamage == Spec => DamagedIsDropped
BY CodesCRCTells, DamageIsDropped
=============================================================================
