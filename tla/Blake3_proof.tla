---------------------------- MODULE Blake3_proof ----------------------------
(***************************************************************************)
(* That BLAKE3 hashes the message's tree, for every length of the chunks,  *)
(* blocks, counter words and stack that the assumption of Blake3 admits,   *)
(* which the real ones meet.  The recursive definitions are shown to exist *)
(* and unfolded first; then what each function computes, from the block to *)
(* the hasher; then Blake3Inv, which says that the hasher holds all of the *)
(* message, in its chunk and in a stack that may have two values left to   *)
(* merge.                                                                  *)
(***************************************************************************)
EXTENDS Blake3, Blake3Rounds_proof, WellFoundedInduction, TLAPS

----------------------------------------------------------------------------
(* Induction over sets of numbers *)

\* A set of numbers that has 0 and every successor has every number.
LEMMA Induction ==
  ASSUME NEW S, 0 \in S, \A n \in Nat : n \in S => n + 1 \in S
  PROVE  Nat \subseteq S
<1> DEFINE T == Nat \ S
<1> SUFFICES ASSUME T # {} PROVE FALSE
  OBVIOUS
<1>1. PICK x \in T : \A y \in T : ~ (<<y, x>> \in OpToRel(<, Nat))
  <2>1. T \subseteq Nat
    OBVIOUS
  <2> QED
    BY <2>1, WFMin, NatLessThanWellFounded, Zenon
<1>2. x \in Nat /\ x # 0
  OBVIOUS
<1>3. x - 1 \in Nat /\ x - 1 < x /\ (x - 1) + 1 = x
  BY <1>2
<1>4. <<x - 1, x>> \in OpToRel(<, Nat)
  BY <1>2, <1>3 DEF OpToRel
<1>5. x - 1 \in S
  BY <1>1, <1>3, <1>4
<1> QED
  BY <1>3, <1>5

\* A set that has every number whose predecessors it has, has every number.
LEMMA StrongInduction ==
  ASSUME NEW S, \A n \in Nat : (\A m \in Nat : m < n => m \in S) => n \in S
  PROVE  Nat \subseteq S
<1> DEFINE T == {n \in Nat : \A m \in Nat : m < n => m \in S}
<1>1. 0 \in T
  OBVIOUS
<1>2. ASSUME NEW n \in Nat, n \in T PROVE n + 1 \in T
  <2> SUFFICES ASSUME NEW m \in Nat, m < n + 1 PROVE m \in S
    OBVIOUS
  <2> QED
    BY <1>2
<1>3. Nat \subseteq T
  <2> HIDE DEF T
  <2> QED
    BY <1>1, <1>2, Induction
<1> QED
  BY <1>3

----------------------------------------------------------------------------
(* Numbers *)

\* Quotient and remainder.
LEMMA DivMod ==
  ASSUME NEW a \in Nat, NEW w \in Nat \ {0}
  PROVE  /\ a \div w \in Nat /\ a % w \in Nat /\ a % w < w
         /\ a = (a \div w) * w + (a % w)
         /\ (a \div w) * w <= a /\ a < ((a \div w) + 1) * w
OBVIOUS

\* There is no other quotient and remainder.
LEMMA DivModUnique ==
  ASSUME NEW w \in Nat \ {0}, NEW q \in Nat, NEW r \in Nat, r < w
  PROVE  (q * w + r) \div w = q /\ (q * w + r) % w = r
OBVIOUS

\* A common factor does not matter to a comparison.
LEMMA Cancel ==
  ASSUME NEW a \in Int, NEW b \in Int, NEW w \in Nat \ {0}
  PROVE  (a * w < b * w <=> a < b) /\ (a * w <= b * w <=> a <= b) /\ (a * w = b * w <=> a = b)
OBVIOUS

\* A bounded set of numbers has a largest.
LEMMA LargestDef ==
  ASSUME NEW S, NEW n \in Nat, S \subseteq 0 .. n, S # {}
  PROVE  Largest(S) \in S /\ \A y \in S : y <= Largest(S)
<1> DEFINE I == {k \in Nat : \A T \in SUBSET (0 .. k) : T # {} => \E x \in T : \A y \in T : y <= x}
<1>1. 0 \in I
  <2> SUFFICES ASSUME NEW T \in SUBSET (0 .. 0), T # {} PROVE \E x \in T : \A y \in T : y <= x
    OBVIOUS
  <2>1. T \subseteq {0}
    OBVIOUS
  <2>2. \A y \in T : y <= 0
    BY <2>1
  <2>3. 0 \in T
    BY <2>1
  <2> QED
    BY <2>2, <2>3
<1>2. ASSUME NEW k \in Nat, k \in I PROVE k + 1 \in I
  <2> SUFFICES ASSUME NEW T \in SUBSET (0 .. k + 1), T # {}
               PROVE  \E x \in T : \A y \in T : y <= x
    OBVIOUS
  <2>1. CASE k + 1 \in T
    BY <2>1
  <2>2. CASE k + 1 \notin T
    <3>1. T \in SUBSET (0 .. k)
      BY <2>2
    <3> QED
      BY <3>1, <1>2
  <2> QED
    BY <2>1, <2>2
<1>3. n \in I
  <2> HIDE DEF I
  <2> QED
    BY <1>1, <1>2, Induction
<1> QED
  BY <1>3 DEF Largest

\* It is the one not below any other.
LEMMA LargestIs ==
  ASSUME NEW S, S \subseteq Nat, NEW x \in S, \A y \in S : y <= x
  PROVE  Largest(S) = x
<1>1. ASSUME NEW z \in S, \A y \in S : y <= z PROVE z = x
  BY <1>1
<1> QED
  BY <1>1 DEF Largest

Smaller(m) == {p \in [Nat -> Nat] : \A x \in Nat : m < x => p[x] < x}
(* A function of the naturals may be defined from its value at a smaller one. *)
\* A function of the naturals defined from its value at a smaller one exists.
LEMMA RecursionExists ==
  ASSUME NEW m \in Nat, NEW base \in Nat, NEW step \in [Nat \X Nat -> Nat],
         NEW pred \in Smaller(m)
  PROVE  \E f \in [Nat -> Nat] :
            \A x \in Nat : f[x] = IF x <= m THEN base ELSE step[<<x, f[pred[x]]>>]
<1> DEFINE Body(g, x) == IF x <= m THEN base ELSE step[<<x, g[pred[x]]>>]
           Upto(g, n) == \A x \in 0 .. n : g[x] = Body(g, x)
           I == {n \in Nat : \E g : Upto(g, n)}
           G(n) == CHOOSE g : Upto(g, n)
           f == [x \in Nat |-> G(x)[x]]
<1>1. ASSUME NEW x \in Nat, ~ (x <= m) PROVE pred[x] \in Nat /\ pred[x] < x
  BY <1>1 DEF Smaller
<1>2. ASSUME NEW n \in Nat, \A k \in Nat : k < n => k \in I PROVE n \in I
  <2>1. CASE n = 0
    <3> DEFINE g == [x \in {0} |-> base]
    <3>1. Upto(g, 0)
      OBVIOUS
    <3> HIDE DEF g
    <3> QED
      BY <3>1, <2>1
  <2>2. CASE n # 0
    <3>0. n - 1 \in Nat /\ n - 1 < n
      BY <2>2
    <3>1. PICK g : Upto(g, n - 1)
      BY <1>2, <3>0
    <3> DEFINE h == [x \in 0 .. n |-> IF x < n THEN g[x] ELSE Body(g, n)]
    <3>2. ASSUME NEW x \in 0 .. n PROVE h[x] = Body(h, x)
      <4>1. ASSUME ~ (x <= m) PROVE h[pred[x]] = g[pred[x]]
        <5>1. pred[x] \in 0 .. n /\ pred[x] < n
          BY <1>1, <4>1
        <5> QED
          BY <5>1
      <4>2. h[x] = Body(g, x)
        BY <3>1
      <4> HIDE DEF h
      <4> QED
        BY <4>1, <4>2
    <3> HIDE DEF Body, h
    <3> QED
      BY <3>2
  <2> QED
    BY <2>1, <2>2
<1>3. \A n \in Nat : Upto(G(n), n)
  <2>1. Nat \subseteq I
    <3> HIDE DEF I
    <3> QED
      BY <1>2, StrongInduction
  <2> HIDE DEF Upto
  <2> QED
    BY <2>1
<1>4. ASSUME NEW g, NEW h, NEW n \in Nat, NEW k \in Nat, Upto(g, n), Upto(h, k)
      PROVE  \A x \in Nat : x <= n /\ x <= k => g[x] = h[x]
  <2> DEFINE J == {x \in Nat : x <= n /\ x <= k => g[x] = h[x]}
  <2>1. ASSUME NEW x \in Nat, \A y \in Nat : y < x => y \in J PROVE x \in J
    <3> SUFFICES ASSUME x <= n, x <= k PROVE g[x] = h[x]
      OBVIOUS
    <3>1. g[x] = Body(g, x) /\ h[x] = Body(h, x)
      BY <1>4
    <3>2. CASE x <= m
      BY <3>1, <3>2
    <3>3. CASE ~ (x <= m)
      <4>1. pred[x] \in J
        BY <2>1, <1>1, <3>3
      <4>2. g[pred[x]] = h[pred[x]]
        BY <4>1, <1>1, <3>3
      <4> QED
        BY <3>1, <3>3, <4>2
    <3> QED
      BY <3>2, <3>3
  <2>2. Nat \subseteq J
    <3> HIDE DEF J
    <3> QED
      BY <2>1, StrongInduction
  <2> QED
    BY <2>2
<1>5. ASSUME NEW x \in Nat PROVE f[x] = Body(f, x)
  <2>1. f[x] = Body(G(x), x)
    <3> HIDE DEF G, Body
    <3> QED
      BY <1>3
  <2>2. ASSUME ~ (x <= m) PROVE f[pred[x]] = G(x)[pred[x]]
    <3>1. Upto(G(x), x) /\ Upto(G(pred[x]), pred[x]) /\ pred[x] \in Nat /\ pred[x] <= x
      <4> HIDE DEF Upto, G
      <4> QED
        BY <1>3, <1>1, <2>2
    <3> HIDE DEF G, Upto
    <3>2. G(x)[pred[x]] = G(pred[x])[pred[x]]
      BY <1>4, <3>1
    <3> QED
      BY <3>1, <3>2
  <2> HIDE DEF f, G
  <2> QED
    BY <2>1, <2>2
<1>6. \A x \in Nat : f[x] \in Nat
  <2> DEFINE I2 == {x \in Nat : f[x] \in Nat}
  <2>1. ASSUME NEW x \in Nat, \A y \in Nat : y < x => y \in I2 PROVE x \in I2
    <3>1. CASE x <= m
      <4> HIDE DEF f
      <4> QED
        BY <1>5, <3>1
    <3>2. CASE ~ (x <= m)
      <4> HIDE DEF f
      <4>1. f[pred[x]] \in Nat
        BY <2>1, <1>1, <3>2
      <4>2. <<x, f[pred[x]]>> \in Nat \X Nat
        BY <4>1
      <4>3. step[<<x, f[pred[x]]>>] \in Nat
        BY <4>2
      <4> QED
        BY <1>5, <3>2, <4>3
    <3> QED
      BY <3>1, <3>2
  <2>2. Nat \subseteq I2
    <3> HIDE DEF I2
    <3> QED
      BY <2>1, StrongInduction
  <2> HIDE DEF f
  <2> QED
    BY <2>2
<1>7. f \in [Nat -> Nat]
  <2>1. f = [x \in Nat |-> f[x]]
    <3> HIDE DEF G
    <3> QED
      OBVIOUS
  <2> HIDE DEF f
  <2> QED
    BY <1>6, <2>1
<1> HIDE DEF f
<1> QED
  BY <1>5, <1>7

\* round_down_to_power_of_2() is defined for every number.
LEMMA RoundDownDef ==
  /\ \A x \in Nat : round_down_to_power_of_2[x] \in Nat
  /\ \A x \in Nat : round_down_to_power_of_2[x] = IF x <= 1 THEN 1 ELSE 2 * round_down_to_power_of_2[x \div 2]
<1> DEFINE step == [p \in Nat \X Nat |-> 2 * p[2]]
           pred == [x \in Nat |-> x \div 2]
           Ok(f) == f = [x \in Nat |-> IF x <= 1 THEN 1 ELSE 2 * f[x \div 2]]
<1>1. step \in [Nat \X Nat -> Nat]
  OBVIOUS
<1>2. PICK f \in [Nat -> Nat] :
             \A x \in Nat : f[x] = IF x <= 1 THEN 1 ELSE step[<<x, f[pred[x]]>>]
  <2>1. 1 \in Nat
    OBVIOUS
  <2>2. pred \in Smaller(1)
    BY DEF Smaller
  <2> HIDE DEF step, pred
  <2> QED
    BY <1>1, <2>1, <2>2, RecursionExists
<1>3. ASSUME NEW x \in Nat PROVE f[x] = IF x <= 1 THEN 1 ELSE 2 * f[x \div 2]
  <2>1. x \div 2 \in Nat /\ f[x \div 2] \in Nat
    OBVIOUS
  <2>2. pred[x] = x \div 2
    OBVIOUS
  <2>3. step[<<x, f[x \div 2]>>] = 2 * f[x \div 2]
    BY <2>1
  <2> HIDE DEF step, pred
  <2> QED
    BY <1>2, <2>2, <2>3
<1>4. Ok(f)
  BY <1>3
<1>5. round_down_to_power_of_2 = CHOOSE g : Ok(g)
  BY DEF round_down_to_power_of_2
<1>6. Ok(round_down_to_power_of_2)
  <2> HIDE DEF Ok
  <2> QED
    BY <1>4, <1>5
<1>7. \A x \in Nat : round_down_to_power_of_2[x] = IF x <= 1 THEN 1 ELSE 2 * round_down_to_power_of_2[x \div 2]
  BY <1>6
<1>8. \A x \in Nat : round_down_to_power_of_2[x] \in Nat
  <2> DEFINE I == {x \in Nat : round_down_to_power_of_2[x] \in Nat}
  <2>1. ASSUME NEW x \in Nat, \A y \in Nat : y < x => y \in I PROVE x \in I
    <3>1. CASE x <= 1
      BY <1>7, <3>1
    <3>2. CASE ~ (x <= 1)
      <4>1. x \div 2 \in Nat /\ x \div 2 < x
        BY <3>2
      <4>2. round_down_to_power_of_2[x \div 2] \in Nat
        BY <2>1, <4>1
      <4> QED
        BY <4>2, <1>7, <3>2
    <3> QED
      BY <3>1, <3>2
  <2>2. Nat \subseteq I
    <3> HIDE DEF I
    <3> QED
      BY <2>1, StrongInduction
  <2> QED
    BY <2>2
<1> QED
  BY <1>7, <1>8

\* So is popcnt().
LEMMA PopcntDef ==
  /\ \A x \in Nat : popcnt[x] \in Nat
  /\ \A x \in Nat : popcnt[x] = IF x = 0 THEN 0 ELSE (x % 2) + popcnt[x \div 2]
<1> DEFINE step == [p \in Nat \X Nat |-> (p[1] % 2) + p[2]]
           pred == [x \in Nat |-> x \div 2]
           Ok(f) == f = [x \in Nat |-> IF x = 0 THEN 0 ELSE (x % 2) + f[x \div 2]]
<1>1. step \in [Nat \X Nat -> Nat]
  OBVIOUS
<1>2. PICK f \in [Nat -> Nat] :
             \A x \in Nat : f[x] = IF x <= 0 THEN 0 ELSE step[<<x, f[pred[x]]>>]
  <2>1. 0 \in Nat
    OBVIOUS
  <2>2. pred \in Smaller(0)
    BY DEF Smaller
  <2> HIDE DEF step, pred
  <2> QED
    BY <1>1, <2>1, <2>2, RecursionExists
<1>3. ASSUME NEW x \in Nat PROVE f[x] = IF x = 0 THEN 0 ELSE (x % 2) + f[x \div 2]
  <2>1. x \div 2 \in Nat /\ f[x \div 2] \in Nat
    OBVIOUS
  <2>2. pred[x] = x \div 2
    OBVIOUS
  <2>3. step[<<x, f[x \div 2]>>] = (x % 2) + f[x \div 2]
    BY <2>1
  <2> HIDE DEF step, pred
  <2> QED
    BY <1>2, <2>2, <2>3
<1>4. Ok(f)
  BY <1>3
<1>5. popcnt = CHOOSE g : Ok(g)
  BY DEF popcnt
<1>6. Ok(popcnt)
  <2> HIDE DEF Ok
  <2> QED
    BY <1>4, <1>5
<1>7. \A x \in Nat : popcnt[x] = IF x = 0 THEN 0 ELSE (x % 2) + popcnt[x \div 2]
  BY <1>6
<1>8. \A x \in Nat : popcnt[x] \in Nat
  <2> DEFINE I == {x \in Nat : popcnt[x] \in Nat}
  <2>1. ASSUME NEW x \in Nat, \A y \in Nat : y < x => y \in I PROVE x \in I
    <3>1. CASE x = 0
      BY <1>7, <3>1
    <3>2. CASE ~ (x = 0)
      <4>1. x \div 2 \in Nat /\ x \div 2 < x
        BY <3>2
      <4>2. popcnt[x \div 2] \in Nat
        BY <2>1, <4>1
      <4> QED
        BY <4>2, <1>7, <3>2
    <3> QED
      BY <3>1, <3>2
  <2>2. Nat \subseteq I
    <3> HIDE DEF I
    <3> QED
      BY <2>1, StrongInduction
  <2> QED
    BY <2>2
<1> QED
  BY <1>7, <1>8

\* So are the powers of two.
LEMMA Pow2Def ==
  /\ \A x \in Nat : Pow2[x] \in Nat
  /\ \A x \in Nat : Pow2[x] = IF x = 0 THEN 1 ELSE 2 * Pow2[x - 1]
<1> DEFINE step == [p \in Nat \X Nat |-> 2 * p[2]]
           base == 1
           pred == [x \in Nat |-> IF x = 0 THEN 0 ELSE x - 1]
           Ok(f) == f = [x \in Nat |-> IF x = 0 THEN 1 ELSE 2 * f[x - 1]]
<1>1. step \in [Nat \X Nat -> Nat]
  OBVIOUS
<1>2. PICK f \in [Nat -> Nat] :
             \A x \in Nat : f[x] = IF x <= 0 THEN base ELSE step[<<x, f[pred[x]]>>]
  <2>1. 0 \in Nat /\ base \in Nat
    OBVIOUS
  <2>2. pred \in Smaller(0)
    BY DEF Smaller
  <2> HIDE DEF step, pred, base
  <2> QED
    BY <1>1, <2>1, <2>2, RecursionExists
<1>3. ASSUME NEW x \in Nat PROVE f[x] = IF x = 0 THEN 1 ELSE 2 * f[x - 1]
  <2>1. CASE x = 0
    <3>1. f[0] = IF 0 <= 0 THEN base ELSE step[<<0, f[pred[0]]>>]
      <4> HIDE DEF step, pred, base
      <4> QED
        BY <1>2
    <3> QED
      BY <3>1, <2>1
  <2>2. CASE x # 0
    <3>1. x - 1 \in Nat /\ f[x - 1] \in Nat /\ pred[x] = x - 1
      BY <2>2
    <3>2. step[<<x, f[x - 1]>>] = 2 * f[x - 1]
      BY <3>1
    <3> HIDE DEF step, pred
    <3> QED
      BY <1>2, <2>2, <3>1, <3>2
  <2> QED
    BY <2>1, <2>2
<1>4. Ok(f)
  BY <1>3
<1>5. Pow2 = CHOOSE g : Ok(g)
  BY DEF Pow2
<1>6. Ok(Pow2)
  <2> HIDE DEF Ok
  <2> QED
    BY <1>4, <1>5
<1>7. \A x \in Nat : Pow2[x] = IF x = 0 THEN 1 ELSE 2 * Pow2[x - 1]
  BY <1>6
<1>8. \A x \in Nat : Pow2[x] \in Nat
  <2> DEFINE I == {x \in Nat : Pow2[x] \in Nat}
  <2>1. ASSUME NEW x \in Nat, \A y \in Nat : y < x => y \in I PROVE x \in I
    <3>1. CASE x = 0
      BY <1>7, <3>1
    <3>2. CASE ~ (x = 0)
      <4>1. x - 1 \in Nat /\ x - 1 < x
        BY <3>2
      <4>2. Pow2[x - 1] \in Nat
        BY <2>1, <4>1
      <4> QED
        BY <4>2, <1>7, <3>2
    <3> QED
      BY <3>1, <3>2
  <2>2. Nat \subseteq I
    <3> HIDE DEF I
    <3> QED
      BY <2>1, StrongInduction
  <2> QED
    BY <2>2
<1> QED
  BY <1>7, <1>8

----------------------------------------------------------------------------
(* Divisibility *)

\* A divisor leaves no remainder, and the quotient is the other factor.
LEMMA Divides ==
  ASSUME NEW d \in Nat \ {0}, NEW a \in Nat
  PROVE  /\ a \div d \in Nat
         /\ a % d = 0 => a = d * (a \div d)
         /\ \A k \in Nat : a = d * k => a % d = 0 /\ a \div d = k
OBVIOUS

\* A multiple is divisible.
LEMMA DividesMultiple ==
  ASSUME NEW d \in Nat \ {0}, NEW k \in Nat
  PROVE  (d * k) % d = 0 /\ (d * k) \div d = k
OBVIOUS

\* What is divisible is a multiple.
LEMMA DividesPick ==
  ASSUME NEW d \in Nat \ {0}, NEW a \in Nat, a % d = 0
  PROVE  \E k \in Nat : a = d * k
<1>1. a \div d \in Nat /\ a = d * (a \div d)
  OBVIOUS
<1> QED
  BY <1>1

\* With one term divisible, the sum is if the other term is.
LEMMA DividesSum ==
  ASSUME NEW d \in Nat \ {0}, NEW a \in Nat, NEW b \in Nat, a % d = 0
  PROVE  /\ b % d = 0 => (a + b) % d = 0
         /\ (a + b) % d = 0 => b % d = 0
<1>1. PICK k \in Nat : a = d * k
  BY DividesPick
<1>2. ASSUME b % d = 0 PROVE (a + b) % d = 0
  <2>1. PICK j \in Nat : b = d * j
    BY <1>2, DividesPick
  <2>2. a + b = d * (k + j) /\ k + j \in Nat
    BY <1>1, <2>1
  <2> QED
    BY <2>2, DividesMultiple
<1>3. ASSUME (a + b) % d = 0 PROVE b % d = 0
  <2>1. PICK j \in Nat : a + b = d * j
    <3>1. a + b \in Nat
      OBVIOUS
    <3> QED
      BY <3>1, <1>3, DividesPick
  <2>2. b = d * (j - k) /\ j - k \in Int
    BY <1>1, <2>1
  <2>3. j - k >= 0
    BY <2>2, Cancel
  <2> QED
    BY <2>2, <2>3, Divides
<1> QED
  BY <1>2, <1>3

\* A divisor's divisor is one.
LEMMA DividesTrans ==
  ASSUME NEW d \in Nat \ {0}, NEW e \in Nat \ {0}, NEW a \in Nat, a % e = 0, e % d = 0
  PROVE  a % d = 0
<1>1. PICK k \in Nat : a = e * k
  BY DividesPick
<1>2. PICK j \in Nat : e = d * j
  BY Divides
<1>3. a = d * (j * k) /\ j * k \in Nat
  BY <1>1, <1>2
<1> QED
  BY <1>3, Divides

\* A divisor is no larger.
LEMMA DividesLe ==
  ASSUME NEW d \in Nat \ {0}, NEW a \in Nat \ {0}, a % d = 0
  PROVE  d <= a
OBVIOUS

----------------------------------------------------------------------------
(* Powers of two *)

IsPower(p) == p \in Nat \ {0} /\ round_down_to_power_of_2[p] = p

\* The largest power of two up to x.
LEMMA RoundDown ==
  ASSUME NEW x \in Nat \ {0}
  PROVE  /\ IsPower(round_down_to_power_of_2[x])
         /\ round_down_to_power_of_2[x] <= x
         /\ x < 2 * round_down_to_power_of_2[x]
<1> DEFINE rd == round_down_to_power_of_2
           I == {y \in Nat : y > 0 => /\ IsPower(rd[y]) /\ rd[y] <= y /\ y < 2 * rd[y]}
<1>1. ASSUME NEW y \in Nat, \A z \in Nat : z < y => z \in I PROVE y \in I
  <2>1. CASE y = 0
    BY <2>1
  <2>2. CASE y = 1
    BY <2>2, RoundDownDef DEF IsPower
  <2>3. CASE y > 1
    <3> DEFINE z == y \div 2
    <3>1. z \in Nat /\ 0 < z /\ z < y /\ 2 * z <= y /\ y <= 2 * z + 1
      BY <2>3
    <3> HIDE DEF z
    <3>2. z \in I
      BY <1>1, <3>1
    <3>3. rd[z] \in Nat \ {0} /\ rd[rd[z]] = rd[z] /\ rd[z] <= z /\ z < 2 * rd[z]
      BY <3>1, <3>2 DEF IsPower
    <3>4. rd[y] = 2 * rd[z]
      BY <2>3, RoundDownDef DEF z
    <3>5. 2 * rd[z] \in Nat /\ 2 * rd[z] > 1 /\ (2 * rd[z]) \div 2 = rd[z]
      BY <3>3
    <3>6. rd[2 * rd[z]] = 2 * rd[rd[z]]
      BY <3>5, RoundDownDef
    <3>7. IsPower(rd[y])
      BY <3>3, <3>4, <3>5, <3>6 DEF IsPower
    <3>8. rd[y] <= y /\ y < 2 * rd[y]
      BY <3>1, <3>3, <3>4
    <3> QED
      BY <3>7, <3>8
  <2> QED
    BY <2>1, <2>2, <2>3
<1>2. Nat \subseteq I
  <2> HIDE DEF I
  <2> QED
    BY <1>1, StrongInduction
<1> QED
  BY <1>2

\* One is a power of two.
LEMMA PowerOne == IsPower(1)
BY RoundDownDef DEF IsPower

\* Half a power of two is one.
LEMMA PowerHalf ==
  ASSUME NEW p, IsPower(p), p > 1
  PROVE  p \div 2 \in Nat \ {0} /\ p = 2 * (p \div 2) /\ IsPower(p \div 2) /\ p \div 2 < p
<1> DEFINE half == round_down_to_power_of_2[p \div 2]
<1>1. p \in Nat /\ p \div 2 \in Nat \ {0} /\ p \div 2 < p
  BY DEF IsPower
<1>2. p = 2 * half
  BY <1>1, RoundDownDef DEF IsPower
<1>3. half \in Nat
  BY <1>1, RoundDownDef
<1> HIDE DEF half
<1>4. p = 2 * (p \div 2) /\ half = p \div 2
  BY <1>2, <1>3
<1> QED
  BY <1>1, <1>4 DEF IsPower, half

\* So is twice one.
LEMMA PowerDouble ==
  ASSUME NEW p, IsPower(p)
  PROVE  IsPower(2 * p)
<1>1. p \in Nat /\ p > 0 /\ 2 * p \in Nat /\ 2 * p > 1 /\ (2 * p) \div 2 = p
  BY DEF IsPower
<1>2. round_down_to_power_of_2[2 * p] = 2 * round_down_to_power_of_2[p]
  BY <1>1, RoundDownDef
<1> QED
  BY <1>1, <1>2 DEF IsPower

\* The larger of two powers is a multiple of twice the smaller.
LEMMA PowerMultiple ==
  ASSUME NEW p, NEW q, IsPower(p), IsPower(q), p < q
  PROVE  2 * p <= q /\ q % (2 * p) = 0
<1> DEFINE I == {y \in Nat : \A x \in Nat : IsPower(x) /\ IsPower(y) /\ x < y
                                             => \E k \in Nat : y = 2 * x * k}
<1>1. ASSUME NEW y \in Nat, \A z \in Nat : z < y => z \in I PROVE y \in I
  <2> SUFFICES ASSUME NEW x \in Nat, IsPower(x), IsPower(y), x < y
               PROVE  \E k \in Nat : y = 2 * x * k
    OBVIOUS
  <2>0. x > 0 /\ y > 1
    BY DEF IsPower
  <2>1. y \div 2 \in Nat \ {0} /\ y = 2 * (y \div 2) /\ IsPower(y \div 2) /\ y \div 2 < y
    BY <2>0, PowerHalf
  <2>2. CASE x = 1
    BY <2>1, <2>2
  <2>3. CASE x # 1
    <3>1. x \div 2 \in Nat /\ x = 2 * (x \div 2) /\ IsPower(x \div 2)
      BY <2>0, <2>3, PowerHalf
    <3>2. y \div 2 \in I /\ x \div 2 < y \div 2
      <4>1. y \div 2 \in I
        BY <1>1, <2>1
      <4> QED
        BY <4>1, <2>1, <3>1
    <3>3. PICK k \in Nat : y \div 2 = 2 * (x \div 2) * k
      BY <2>1, <3>1, <3>2
    <3>4. y = 2 * x * k
      BY <2>1, <3>1, <3>3
    <3> QED
      BY <3>4
  <2> QED
    BY <2>2, <2>3
<1>2. Nat \subseteq I
  <2> HIDE DEF I
  <2> QED
    BY <1>1, StrongInduction
<1>3. p \in Nat /\ q \in Nat /\ p > 0 /\ q > 0
  BY DEF IsPower
<1>4. PICK k \in Nat : q = 2 * p * k
  BY <1>2, <1>3
<1>5. q = (2 * p) * k /\ 2 * p \in Nat \ {0}
  BY <1>3, <1>4
<1>6. q % (2 * p) = 0
  BY <1>3, <1>5, Divides
<1> QED
  BY <1>3, <1>5, <1>6, DividesLe

\* Of two powers, the smaller divides the larger.
LEMMA PowerDivides ==
  ASSUME NEW p, NEW q, IsPower(p), IsPower(q), p <= q
  PROVE  q % p = 0
<1>1. p \in Nat \ {0} /\ q \in Nat \ {0} /\ 2 * p \in Nat \ {0} /\ p % p = 0 /\ (2 * p) % p = 0
  BY DEF IsPower
<1>2. CASE p = q
  BY <1>1, <1>2
<1>3. CASE p < q
  <2>1. q % (2 * p) = 0
    BY <1>3, PowerMultiple
  <2> QED
    BY <1>1, <2>1, DividesTrans
<1> QED
  BY <1>1, <1>2, <1>3

----------------------------------------------------------------------------
(* The lowest digit of a number *)

\* The powers up to the longest message.
LEMMA PowersDef == Powers = {p \in Nat : IsPower(p) /\ p <= MaxTotal}
BY Blake3Assumption DEF Powers, IsPower

\* The lowest digit of a multiple of 2p, and p, is p.
LEMMA LowBitIs ==
  ASSUME NEW p, IsPower(p), p <= MaxTotal, NEW a \in Nat, a % (2 * p) = 0
  PROVE  LowBit(a + p) = p
<1> DEFINE S == {x \in Powers : (a + p) % x = 0}
<1>1. p \in Nat \ {0} /\ 2 * p \in Nat \ {0} /\ (2 * p) % p = 0 /\ p % p = 0 /\ p % (2 * p) = p
  BY DEF IsPower
<1>2. a % p = 0
  BY <1>1, DividesTrans
<1>3. (a + p) % p = 0
  BY <1>1, <1>2, DividesSum
<1>4. p \in S /\ S \subseteq Nat
  BY <1>1, <1>3, PowersDef
<1>5. ASSUME NEW q \in S, p < q PROVE FALSE
  <2>1. q \in Nat \ {0} /\ IsPower(q) /\ (a + p) % q = 0
    BY <1>5, PowersDef DEF IsPower
  <2>2. q % (2 * p) = 0
    BY <1>5, <2>1, PowerMultiple
  <2>3. (a + p) % (2 * p) = 0
    <3>1. a + p \in Nat
      BY <1>1
    <3> QED
      BY <3>1, <1>1, <2>1, <2>2, DividesTrans
  <2>4. p % (2 * p) = 0
    BY <1>1, <2>3, DividesSum
  <2> QED
    BY <1>1, <2>4
<1>6. \A q \in S : q <= p
  BY <1>1, <1>4, <1>5
<1> HIDE DEF S
<1>7. Largest(S) = p
  BY <1>4, <1>6, LargestIs
<1> QED
  BY <1>7 DEF S, LowBit

\* The lowest digit is a power of two; without it the number is a multiple of twice that.
LEMMA LowBitDef ==
  ASSUME NEW c \in Nat \ {0}, c <= MaxTotal
  PROVE  /\ IsPower(LowBit(c)) /\ LowBit(c) \in Nat \ {0} /\ LowBit(c) <= c
         /\ c % LowBit(c) = 0
         /\ c - LowBit(c) \in Nat /\ (c - LowBit(c)) % (2 * LowBit(c)) = 0
<1> DEFINE S == {x \in Powers : c % x = 0}
<1>0. MaxTotal \in Nat
  BY Blake3Assumption
<1>1. S \subseteq 0 .. MaxTotal
  BY <1>0, PowersDef
<1>2. 1 \in S
  BY <1>0, PowersDef, PowerOne
<1>3. Largest(S) \in S /\ \A y \in S : y <= Largest(S)
  <2> HIDE DEF S
  <2> QED
    BY <1>0, <1>1, <1>2, LargestDef
<1> DEFINE p == LowBit(c)
<1>4. p \in S /\ \A y \in S : y <= p
  BY <1>3 DEF LowBit
<1> HIDE DEF p
<1>5. IsPower(p) /\ p \in Nat \ {0} /\ c % p = 0
  BY <1>4, PowersDef DEF IsPower
<1>6. p <= c
  BY <1>5, DividesLe
<1>7. PICK k \in Nat : c = p * k
  BY <1>5, Divides
<1>8. k % 2 = 1
  <2> SUFFICES ASSUME k % 2 = 0 PROVE FALSE
    OBVIOUS
  <2>1. PICK j \in Nat : k = 2 * j
    BY Divides
  <2>2. c = (2 * p) * j /\ 2 * p \in Nat \ {0}
    BY <1>5, <1>7, <2>1
  <2>3. c % (2 * p) = 0
    BY <2>2, Divides
  <2>4. 2 * p <= c /\ IsPower(2 * p)
    BY <1>5, <2>2, <2>3, DividesLe, PowerDouble
  <2>5. 2 * p \in S
    BY <1>0, <2>2, <2>3, <2>4, PowersDef
  <2> QED
    BY <1>4, <1>5, <2>5
<1>9. PICK j \in Nat : k = 2 * j + 1
  <2>1. k = 2 * (k \div 2) + 1 /\ k \div 2 \in Nat
    BY <1>8
  <2> QED
    BY <2>1
<1>10. c - p = (2 * p) * j /\ 2 * p \in Nat \ {0} /\ c - p \in Nat
  BY <1>5, <1>6, <1>7, <1>9
<1>11. (c - p) % (2 * p) = 0
  BY <1>10, Divides
<1> QED
  BY <1>5, <1>6, <1>10, <1>11 DEF p

----------------------------------------------------------------------------
(* How many digits are one *)

\* How popcnt() counts.
LEMMA PopcntStep ==
  ASSUME NEW x \in Nat
  PROVE  popcnt[x] = (x % 2) + popcnt[x \div 2] /\ x \div 2 \in Nat /\ popcnt[x] \in Nat
<1>1. 0 % 2 = 0 /\ 0 \div 2 = 0
  OBVIOUS
<1> QED
  BY <1>1, PopcntDef

\* A digit below all the others counts one.
LEMMA PopcntDigit ==
  ASSUME NEW p, IsPower(p), NEW a \in Nat, a % (2 * p) = 0
  PROVE  popcnt[a + p] = popcnt[a] + 1
<1> DEFINE I == {q \in Nat : \A x \in Nat : IsPower(q) /\ x % (2 * q) = 0
                                             => popcnt[x + q] = popcnt[x] + 1}
<1>1. ASSUME NEW q \in Nat, \A z \in Nat : z < q => z \in I PROVE q \in I
  <2> SUFFICES ASSUME NEW x \in Nat, IsPower(q), x % (2 * q) = 0
               PROVE  popcnt[x + q] = popcnt[x] + 1
    OBVIOUS
  <2>0. q > 0
    BY DEF IsPower
  <2>1. CASE q = 1
    <3>1. (x + 1) % 2 = 1 /\ (x + 1) \div 2 = x \div 2 /\ x % 2 = 0 /\ x + 1 \in Nat
      BY <2>1
    <3>2. popcnt[x + 1] = 1 + popcnt[x \div 2] /\ popcnt[x] = 0 + popcnt[x \div 2]
      BY <3>1, PopcntStep
    <3> QED
      BY <2>1, <3>1, <3>2, PopcntDef
  <2>2. CASE q > 1
    <3>1. q \div 2 \in Nat \ {0} /\ q = 2 * (q \div 2) /\ IsPower(q \div 2) /\ q \div 2 < q
      BY <2>2, PowerHalf
    <3> DEFINE h == q \div 2
    <3>2. PICK k \in Nat : x = (2 * q) * k
      <4>1. 2 * q \in Nat \ {0}
        BY <2>0
      <4> QED
        BY <4>1, Divides
    <3> HIDE DEF h
    <3>3. x = 2 * (2 * h * k) /\ 2 * h * k \in Nat /\ h \in Nat \ {0}
      BY <3>1, <3>2 DEF h
    <3> DEFINE y == 2 * h * k
    <3>4. y \in Nat /\ x = 2 * y /\ y % (2 * h) = 0
      <4> DEFINE d == 2 * h
      <4>1. y \in Nat /\ x = 2 * y /\ y = d * k /\ d \in Nat \ {0}
        BY <3>3
      <4> HIDE DEF y, d
      <4>2. y % d = 0
        BY <4>1, Divides
      <4> QED
        BY <4>1, <4>2 DEF d
    <3> HIDE DEF y
    <3>5. x + q = 2 * (y + h) /\ y + h \in Nat
      BY <3>1, <3>3, <3>4 DEF h
    <3>6. x % 2 = 0 /\ x \div 2 = y /\ (x + q) % 2 = 0 /\ (x + q) \div 2 = y + h /\ x + q \in Nat
      BY <3>4, <3>5
    <3>7. popcnt[y + h] = popcnt[y] + 1
      BY <1>1, <3>1, <3>4 DEF h
    <3>8. popcnt[x] = 0 + popcnt[y] /\ popcnt[x + q] = 0 + popcnt[y + h]
      BY <3>6, PopcntStep
    <3> QED
      BY <3>4, <3>5, <3>7, <3>8, PopcntStep
  <2> QED
    BY <2>0, <2>1, <2>2
<1>2. Nat \subseteq I
  <2> HIDE DEF I
  <2> QED
    BY <1>1, StrongInduction
<1> QED
  BY <1>2 DEF IsPower

\* Counting one further adds at most a one.
LEMMA PopcntSucc ==
  ASSUME NEW a \in Nat
  PROVE  popcnt[a + 1] <= popcnt[a] + 1
<1> DEFINE I == {x \in Nat : popcnt[x + 1] <= popcnt[x] + 1}
<1>1. ASSUME NEW x \in Nat, \A z \in Nat : z < x => z \in I PROVE x \in I
  <2>1. popcnt[x] = (x % 2) + popcnt[x \div 2] /\ popcnt[x \div 2] \in Nat
    BY PopcntStep
  <2>2. CASE x % 2 = 0
    <3>1. (x + 1) % 2 = 1 /\ (x + 1) \div 2 = x \div 2 /\ x + 1 \in Nat
      BY <2>2
    <3>2. popcnt[x + 1] = 1 + popcnt[x \div 2]
      BY <3>1, PopcntStep
    <3> QED
      BY <2>1, <2>2, <3>2
  <2>3. CASE x % 2 = 1
    <3>1. (x + 1) % 2 = 0 /\ (x + 1) \div 2 = (x \div 2) + 1 /\ x + 1 \in Nat
          /\ x \div 2 \in Nat /\ x \div 2 < x
      BY <2>3
    <3>2. popcnt[x + 1] = 0 + popcnt[(x \div 2) + 1]
      BY <3>1, PopcntStep
    <3>3. popcnt[(x \div 2) + 1] <= popcnt[x \div 2] + 1 /\ popcnt[(x \div 2) + 1] \in Nat
      BY <1>1, <3>1, PopcntStep
    <3> QED
      BY <2>1, <2>3, <3>2, <3>3
  <2>4. x % 2 \in {0, 1}
    OBVIOUS
  <2> QED
    BY <2>2, <2>3, <2>4
<1>2. Nat \subseteq I
  <2> HIDE DEF I
  <2> QED
    BY <1>1, StrongInduction
<1> QED
  BY <1>2

\* A number below 2^d has at most d ones.
LEMMA PopcntBound ==
  ASSUME NEW d \in Nat, NEW a \in Nat, a < Pow2[d]
  PROVE  popcnt[a] <= d
<1> DEFINE I == {k \in Nat : \A x \in Nat : x < Pow2[k] => popcnt[x] <= k}
<1>1. 0 \in I
  BY Pow2Def, PopcntDef
<1>2. ASSUME NEW k \in Nat, k \in I PROVE k + 1 \in I
  <2> SUFFICES ASSUME NEW x \in Nat, x < Pow2[k + 1] PROVE popcnt[x] <= k + 1
    OBVIOUS
  <2>1. Pow2[k + 1] = 2 * Pow2[k] /\ Pow2[k] \in Nat
    <3>1. k + 1 \in Nat /\ k + 1 # 0 /\ (k + 1) - 1 = k
      OBVIOUS
    <3> QED
      BY <3>1, Pow2Def
  <2>2. x \div 2 \in Nat /\ x \div 2 < Pow2[k] /\ x % 2 \in {0, 1}
    BY <2>1
  <2>3. popcnt[x \div 2] <= k /\ popcnt[x \div 2] \in Nat
    BY <1>2, <2>2, PopcntDef
  <2>4. popcnt[x] = (x % 2) + popcnt[x \div 2]
    BY PopcntStep
  <2> QED
    BY <2>2, <2>3, <2>4
<1>3. d \in I
  <2> HIDE DEF I
  <2> QED
    BY <1>1, <1>2, Induction
<1> QED
  BY <1>3

----------------------------------------------------------------------------
(* What the recursive definitions compute *)

\* What is assumed of the constants, in the form the proofs use.
LEMMA Constants ==
  /\ CHUNK_LEN \in Nat \ {0} /\ BLOCK_LEN \in Nat \ {0} /\ MaxTotal \in Nat /\ MAX_DEPTH \in Nat
  /\ Word \in Nat /\ Word >= 32 /\ IsPower(CHUNK_LEN) /\ CHUNK_LEN % BLOCK_LEN = 0
<1>1. CHUNK_LEN # 0
  <2>1. round_down_to_power_of_2[0] = 1
    BY RoundDownDef
  <2> QED
    BY <2>1, Blake3Assumption
<1> QED
  BY <1>1, Blake3Assumption DEF IsPower

\* The bytes on the left of a node of n bytes.
LeftLen(n) == Largest({p \in Powers : CHUNK_LEN <= p /\ p < n})

\* The left part of a node is a power of two, at least half of it and not all.
LEMMA LeftLenDef ==
  ASSUME NEW n \in Nat, CHUNK_LEN < n, n <= MaxTotal
  PROVE  /\ LeftLen(n) \in Nat \ {0} /\ IsPower(LeftLen(n)) /\ LeftLen(n) % CHUNK_LEN = 0
         /\ CHUNK_LEN <= LeftLen(n) /\ LeftLen(n) < n /\ n <= 2 * LeftLen(n)
<1> DEFINE S == {p \in Powers : CHUNK_LEN <= p /\ p < n}
<1>1. S \subseteq 0 .. MaxTotal
  BY Constants, PowersDef
<1>2. CHUNK_LEN \in S
  BY Constants, PowersDef
<1>3. Largest(S) \in S /\ \A y \in S : y <= Largest(S)
  <2> HIDE DEF S
  <2> QED
    BY <1>1, <1>2, Constants, LargestDef
<1> DEFINE p == LeftLen(n)
<1>4. p \in S /\ \A y \in S : y <= p
  BY <1>3 DEF LeftLen
<1> HIDE DEF p
<1>5. IsPower(p) /\ p \in Nat \ {0} /\ CHUNK_LEN <= p /\ p < n
  BY <1>4, PowersDef DEF IsPower
<1>6. p % CHUNK_LEN = 0
  BY <1>5, Constants, PowerDivides
<1>7. n <= 2 * p
  <2> SUFFICES ASSUME 2 * p < n PROVE FALSE
    BY <1>5
  <2>1. 2 * p \in S
    BY <1>5, Constants, PowersDef, PowerDouble
  <2> QED
    BY <1>4, <1>5, <2>1
<1> QED
  BY <1>5, <1>6, <1>7 DEF p

\* The tree's definition, for every interval of the message.
LEMMA RefTreeDef ==
  ASSUME NEW key, NEW flags, NEW lo \in 0 .. MaxTotal, NEW hi \in 0 .. MaxTotal
  PROVE  RefTree(key, flags)[<<lo, hi>>] =
           IF hi - lo <= CHUNK_LEN THEN RefChunk(key, flags, lo, hi)
           ELSE parent_output(
                  output_chaining_value(RefTree(key, flags)[<<lo, lo + LeftLen(hi - lo)>>]),
                  output_chaining_value(RefTree(key, flags)[<<lo + LeftLen(hi - lo), hi>>]),
                  key, flags)
<1> DEFINE S == (0 .. MaxTotal) \X (0 .. MaxTotal)
           Mid(s) == s[1] + LeftLen(s[2] - s[1])
           Parent(a, b) ==
             [cv |-> <<key>>, block |-> <<output_chaining_value(a), output_chaining_value(b)>>,
              len |-> BLOCK_LEN, counter |-> 0, flags |-> flags \cup {"PARENT"}]
           E(g, s) == IF s[2] - s[1] <= CHUNK_LEN THEN RefChunk(key, flags, s[1], s[2])
                      ELSE Parent(g[<<s[1], Mid(s)>>], g[<<Mid(s), s[2]>>])
           Upto(g, n) == \A s \in S : s[2] - s[1] <= n => g[s] = E(g, s)
           I == {n \in Nat : \E g : Upto(g, n)}
           Ok(f) == f = [s \in S |-> E(f, s)]
<1>1. ASSUME NEW s \in S, ~ (s[2] - s[1] <= CHUNK_LEN)
      PROVE  /\ <<s[1], Mid(s)>> \in S /\ <<Mid(s), s[2]>> \in S
             /\ Mid(s) - s[1] < s[2] - s[1] /\ s[2] - Mid(s) < s[2] - s[1]
  <2>1. s[2] - s[1] \in Nat /\ s[2] - s[1] <= MaxTotal /\ CHUNK_LEN < s[2] - s[1]
    BY <1>1, Constants
  <2> DEFINE n == LeftLen(s[2] - s[1])
  <2>2. n \in Nat \ {0} /\ n < s[2] - s[1]
    BY <2>1, LeftLenDef
  <2> HIDE DEF n
  <2>3. Mid(s) = s[1] + n
    BY DEF n
  <2> HIDE DEF Mid
  <2> QED
    BY <2>2, <2>3, Constants
<1> HIDE DEF Mid, Parent
<1>2. 0 \in I
  <2> DEFINE g == [s \in S |-> RefChunk(key, flags, s[1], s[2])]
  <2>1. ASSUME NEW s \in S, s[2] - s[1] <= 0 PROVE g[s] = E(g, s)
    <3>1. s[2] - s[1] <= CHUNK_LEN
      BY <2>1, Constants
    <3> QED
      BY <3>1
  <2> HIDE DEF g, E
  <2> QED
    BY <2>1
<1>3. ASSUME NEW n \in Nat, n \in I PROVE n + 1 \in I
  <2>1. PICK g : Upto(g, n)
    BY <1>3
  <2> DEFINE h == [s \in S |-> IF s[2] - s[1] <= n THEN g[s] ELSE E(g, s)]
  <2>2. ASSUME NEW s \in S, s[2] - s[1] <= n + 1 PROVE h[s] = E(h, s)
    <3>1. h[s] = E(g, s)
      <4> HIDE DEF E, S
      <4> QED
        BY <2>1
    <3>2. ASSUME ~ (s[2] - s[1] <= CHUNK_LEN)
          PROVE  h[<<s[1], Mid(s)>>] = g[<<s[1], Mid(s)>>] /\ h[<<Mid(s), s[2]>>] = g[<<Mid(s), s[2]>>]
      <4>1. Mid(s) \in 0 .. MaxTotal
        BY <1>1, <3>2
      <4>2. Mid(s) - s[1] <= n /\ s[2] - Mid(s) <= n
        <5>1. Mid(s) - s[1] < s[2] - s[1] /\ s[2] - Mid(s) < s[2] - s[1]
          BY <1>1, <3>2
        <5>2. s[1] \in Int /\ s[2] \in Int /\ Mid(s) \in Int
          BY <4>1
        <5> QED
          BY <5>1, <5>2, <2>2
      <4> HIDE DEF E
      <4> QED
        BY <1>1, <3>2, <4>2
    <3> HIDE DEF h
    <3> QED
      BY <3>1, <3>2
  <2> HIDE DEF h, E
  <2> QED
    BY <2>2
<1>4. MaxTotal \in I
  <2> HIDE DEF I
  <2> QED
    BY <1>2, <1>3, Constants, Induction
<1>5. PICK g : Upto(g, MaxTotal)
  BY <1>4
<1> DEFINE f == [s \in S |-> g[s]]
<1>6. ASSUME NEW s \in S PROVE f[s] = E(f, s)
  <2>1. s[2] - s[1] <= MaxTotal
    BY Constants
  <2>2. f[s] = E(g, s)
    <3> HIDE DEF E, S
    <3> QED
      BY <1>5, <2>1
  <2>3. ~ (s[2] - s[1] <= CHUNK_LEN)
          => f[<<s[1], Mid(s)>>] = g[<<s[1], Mid(s)>>] /\ f[<<Mid(s), s[2]>>] = g[<<Mid(s), s[2]>>]
    <3> HIDE DEF S
    <3> QED
      BY <1>1
  <2> HIDE DEF f
  <2> QED
    BY <2>2, <2>3
<1>7. Ok(f)
  <2>1. f = [s \in S |-> f[s]]
    OBVIOUS
  <2> HIDE DEF E, f, S
  <2> QED
    BY <1>6, <2>1
<1>8. RefTree(key, flags) = CHOOSE g1 : Ok(g1)
  BY Zenon DEF RefTree, Mid, LeftLen, Parent
<1>9. Ok(RefTree(key, flags))
  <2> HIDE DEF Ok
  <2> QED
    BY <1>7, <1>8
<1> DEFINE T == RefTree(key, flags)
<1> HIDE DEF T
<1>10. T[<<lo, hi>>] = E(T, <<lo, hi>>)
  <2>1. T = [s \in S |-> E(T, s)]
    BY <1>9 DEF T
  <2>2. <<lo, hi>> \in S
    OBVIOUS
  <2> HIDE DEF E, S
  <2> QED
    BY <2>1, <2>2
<1> QED
  BY <1>10 DEF T, Mid, Parent, parent_output, make_output

Value(key, flags, lo, hi) == output_chaining_value(RefTree(key, flags)[<<lo, hi>>])

\* The stack of complete subtrees, for every number of chunks.
LEMMA CompleteDef ==
  ASSUME NEW key, NEW flags, NEW c \in 0 .. MaxTotal \div CHUNK_LEN
  PROVE  Complete(key, flags)[c] =
           IF c = 0 THEN <<>>
           ELSE Append(Complete(key, flags)[c - LowBit(c)],
                       Value(key, flags, (c - LowBit(c)) * CHUNK_LEN, c * CHUNK_LEN))
<1> DEFINE S == 0 .. MaxTotal \div CHUNK_LEN
           V(x) == Value(key, flags, (x - LowBit(x)) * CHUNK_LEN, x * CHUNK_LEN)
           E(g, x) == IF x = 0 THEN <<>> ELSE Append(g[x - LowBit(x)], V(x))
           Upto(g, n) == \A x \in S : x <= n => g[x] = E(g, x)
           I == {n \in Nat : \E g : Upto(g, n)}
           Ok(f) == f = [x \in S |-> E(f, x)]
<1>0. MaxTotal \div CHUNK_LEN \in Nat /\ MaxTotal \div CHUNK_LEN <= MaxTotal
  BY Constants
<1>1. ASSUME NEW x \in S, x # 0
      PROVE  x - LowBit(x) \in S /\ x - LowBit(x) < x
  <2>1. x \in Nat \ {0} /\ x <= MaxTotal
    BY <1>0, <1>1, Constants
  <2>2. LowBit(x) \in Nat \ {0} /\ x - LowBit(x) \in Nat
    BY <2>1, LowBitDef
  <2> QED
    BY <1>0, <2>1, <2>2
<1> HIDE DEF V
<1>2. 0 \in I
  <2> DEFINE g == [x \in S |-> <<>>]
  <2>1. \A x \in S : x <= 0 => g[x] = E(g, x)
    BY <1>0
  <2> HIDE DEF g, E
  <2> QED
    BY <2>1
<1>3. ASSUME NEW n \in Nat, n \in I PROVE n + 1 \in I
  <2>1. PICK g : Upto(g, n)
    BY <1>3
  <2> DEFINE h == [x \in S |-> IF x <= n THEN g[x] ELSE E(g, x)]
  <2>2. ASSUME NEW x \in S, x <= n + 1 PROVE h[x] = E(h, x)
    <3>1. h[x] = E(g, x)
      <4> HIDE DEF E, S
      <4> QED
        BY <2>1
    <3>2. ASSUME x # 0 PROVE h[x - LowBit(x)] = g[x - LowBit(x)]
      <4>1. x - LowBit(x) \in S /\ x - LowBit(x) <= n
        BY <1>0, <1>1, <2>2, <3>2
      <4> HIDE DEF E, S
      <4> QED
        BY <4>1
    <3> HIDE DEF h
    <3> QED
      BY <3>1, <3>2
  <2> HIDE DEF h, E
  <2> QED
    BY <2>2
<1>4. MaxTotal \div CHUNK_LEN \in I
  <2> HIDE DEF I
  <2> QED
    BY <1>0, <1>2, <1>3, Induction
<1>5. PICK g : Upto(g, MaxTotal \div CHUNK_LEN)
  BY <1>4
<1> DEFINE f == [x \in S |-> g[x]]
<1>6. ASSUME NEW x \in S PROVE f[x] = E(f, x)
  <2>1. x <= MaxTotal \div CHUNK_LEN
    OBVIOUS
  <2>2. f[x] = E(g, x)
    <3> HIDE DEF E, S
    <3> QED
      BY <1>5, <2>1
  <2>3. x # 0 => f[x - LowBit(x)] = g[x - LowBit(x)]
    <3> HIDE DEF S
    <3> QED
      BY <1>1
  <2> HIDE DEF f
  <2> QED
    BY <2>2, <2>3
<1>7. Ok(f)
  <2>1. f = [x \in S |-> f[x]]
    OBVIOUS
  <2> HIDE DEF E, f, S
  <2> QED
    BY <1>6, <2>1
<1>8. Complete(key, flags) = CHOOSE g1 : Ok(g1)
  BY Zenon DEF Complete, V, Value
<1>9. Ok(Complete(key, flags))
  <2> HIDE DEF Ok
  <2> QED
    BY <1>7, <1>8
<1> DEFINE T == Complete(key, flags)
<1> HIDE DEF T
<1>10. T[c] = E(T, c)
  <2>1. T = [x \in S |-> E(T, x)]
    BY <1>9 DEF T
  <2> HIDE DEF E, S
  <2> QED
    BY <2>1 DEF S
<1> QED
  BY <1>10 DEF T, V

----------------------------------------------------------------------------
(* Rolling up the stack *)

Above(h, output, i) ==
  parent_output(h.cv_stack[i], output_chaining_value(output), h.key, h.chunk.flags)

Rolls(h, output, n, stop, r) ==
  r[0] = output /\ \A k \in 1 .. n - stop : r[k] = Above(h, r[k - 1], n + 1 - k)
Rolled(h, output, n, stop) ==
  CHOOSE r : r = [k \in 0 .. n - stop |-> IF k = 0 THEN output ELSE Above(h, r[k - 1], n + 1 - k)]

\* Rolling up is a sequence of outputs, one for each value taken off the stack.
LEMMA RollUpDef ==
  ASSUME NEW h, NEW output, NEW n \in Nat, NEW stop \in 0 .. n
  PROVE  /\ RollUp(h, output, n, stop) = Rolled(h, output, n, stop)[n - stop]
         /\ Rolls(h, output, n, stop, Rolled(h, output, n, stop))
<1> DEFINE S == 0 .. n - stop
           E(g, k) == IF k = 0 THEN output ELSE Above(h, g[k - 1], n + 1 - k)
           Upto(g, m) == \A k \in S : k <= m => g[k] = E(g, k)
           I == {m \in Nat : \E g : Upto(g, m)}
           Ok(f) == f = [k \in S |-> E(f, k)]
<1>1. 0 \in I
  <2> DEFINE g == [k \in S |-> output]
  <2>1. \A k \in S : k <= 0 => g[k] = E(g, k)
    OBVIOUS
  <2> HIDE DEF g, E
  <2> QED
    BY <2>1
<1>2. ASSUME NEW m \in Nat, m \in I PROVE m + 1 \in I
  <2>1. PICK g : Upto(g, m)
    BY <1>2
  <2> DEFINE g2 == [k \in S |-> IF k <= m THEN g[k] ELSE E(g, k)]
  <2>2. ASSUME NEW k \in S, k <= m + 1 PROVE g2[k] = E(g2, k)
    <3>1. g2[k] = E(g, k)
      <4> HIDE DEF E, S
      <4> QED
        BY <2>1
    <3>2. k # 0 => g2[k - 1] = g[k - 1]
      <4>1. k # 0 => k - 1 \in S /\ k - 1 <= m
        BY <2>2
      <4> HIDE DEF E, S
      <4> QED
        BY <4>1
    <3> HIDE DEF g2
    <3> QED
      BY <3>1, <3>2
  <2> HIDE DEF g2, E
  <2> QED
    BY <2>2
<1>3. n - stop \in Nat /\ n - stop \in I
  <2> HIDE DEF I
  <2> QED
    BY <1>1, <1>2, Induction
<1>4. PICK g : Upto(g, n - stop)
  BY <1>3
<1> DEFINE f == [k \in S |-> g[k]]
<1>5. ASSUME NEW k \in S PROVE f[k] = E(f, k)
  <2>1. f[k] = E(g, k)
    <3>1. k <= n - stop
      OBVIOUS
    <3> HIDE DEF E, S
    <3> QED
      BY <1>4, <3>1
  <2>2. k # 0 => f[k - 1] = g[k - 1]
    OBVIOUS
  <2> HIDE DEF f
  <2> QED
    BY <2>1, <2>2
<1>6. Ok(f)
  <2>1. f = [k \in S |-> f[k]]
    OBVIOUS
  <2> HIDE DEF E, f, S
  <2> QED
    BY <1>5, <2>1
<1> DEFINE r == Rolled(h, output, n, stop)
<1>7. RollUp(h, output, n, stop) = r[n - stop]
  BY Zenon DEF RollUp, Rolled, Above
<1>8. Ok(r)
  <2>1. r = CHOOSE g1 : Ok(g1)
    BY Zenon DEF Rolled
  <2> HIDE DEF Ok, r
  <2> QED
    BY <1>6, <2>1
<1> HIDE DEF r
<1>9. \A k \in S : r[k] = E(r, k)
  <2> HIDE DEF E, S
  <2> QED
    BY <1>8
<1>10. r[0] = output /\ \A k \in 1 .. n - stop : r[k] = Above(h, r[k - 1], n + 1 - k)
  BY <1>3, <1>9
<1> QED
  BY <1>7, <1>10 DEF r, Rolls

\* Where it ends is known from where it begins and its steps.
LEMMA RollUpIs ==
  ASSUME NEW h, NEW output, NEW n \in Nat, NEW stop \in 0 .. n, NEW q,
         Rolls(h, output, n, stop, q)
  PROVE  RollUp(h, output, n, stop) = q[n - stop]
<1> DEFINE r == Rolled(h, output, n, stop)
<1>0. RollUp(h, output, n, stop) = r[n - stop] /\ Rolls(h, output, n, stop, r)
  BY RollUpDef
<1> HIDE DEF r
<1>1. /\ RollUp(h, output, n, stop) = r[n - stop] /\ r[0] = output /\ q[0] = output
      /\ \A k \in 1 .. n - stop : r[k] = Above(h, r[k - 1], n + 1 - k)
      /\ \A k \in 1 .. n - stop : q[k] = Above(h, q[k - 1], n + 1 - k)
  BY <1>0 DEF Rolls
<1> DEFINE I == {m \in Nat : m <= n - stop => q[m] = r[m]}
<1>2. 0 \in I
  BY <1>1
<1>3. ASSUME NEW m \in Nat, m \in I PROVE m + 1 \in I
  <2> SUFFICES ASSUME m + 1 <= n - stop PROVE q[m + 1] = r[m + 1]
    OBVIOUS
  <2>1. q[m] = r[m] /\ m + 1 \in 1 .. n - stop /\ (m + 1) - 1 = m
    BY <1>3
  <2> QED
    BY <1>1, <2>1
<1>4. n - stop \in Nat /\ n - stop \in I
  <2> HIDE DEF I
  <2> QED
    BY <1>2, <1>3, Induction
<1> QED
  BY <1>1, <1>4

\* With nothing to take, the output stays.
LEMMA RollUpNone ==
  ASSUME NEW h, NEW output, NEW n \in Nat
  PROVE  RollUp(h, output, n, n) = output
<1>1. n \in 0 .. n /\ n - n = 0
  OBVIOUS
<1> QED
  BY <1>1, RollUpDef DEF Rolls

\* The last value is taken first.
LEMMA RollUpStep ==
  ASSUME NEW h, NEW output, NEW n \in Nat \ {0}, NEW stop \in 0 .. n - 1
  PROVE  RollUp(h, output, n, stop) = RollUp(h, Above(h, output, n), n - 1, stop)
<1> DEFINE r == Rolled(h, output, n, stop)
<1>0. RollUp(h, output, n, stop) = r[n - stop] /\ Rolls(h, output, n, stop, r)
  BY RollUpDef
<1> HIDE DEF r
<1>1. /\ RollUp(h, output, n, stop) = r[n - stop] /\ r[0] = output
      /\ \A k \in 1 .. n - stop : r[k] = Above(h, r[k - 1], n + 1 - k)
  BY <1>0 DEF Rolls
<1> DEFINE q == [k \in 0 .. n - 1 - stop |-> r[k + 1]]
<1>2. q[0] = Above(h, output, n) /\ q[n - 1 - stop] = r[n - stop]
  <2>1. r[1] = Above(h, r[0], n)
    BY <1>1
  <2>2. q[0] = r[1] /\ q[n - 1 - stop] = r[n - stop]
    OBVIOUS
  <2> QED
    BY <1>1, <2>1, <2>2
<1>3. ASSUME NEW k \in 1 .. n - 1 - stop PROVE q[k] = Above(h, q[k - 1], (n - 1) + 1 - k)
  <2>1. q[k] = r[k + 1] /\ q[k - 1] = r[k]
    OBVIOUS
  <2>2. k + 1 \in 1 .. n - stop /\ (k + 1) - 1 = k /\ n + 1 - (k + 1) = (n - 1) + 1 - k
    OBVIOUS
  <2>3. r[k + 1] = Above(h, r[k], (n - 1) + 1 - k)
    BY <1>1, <2>2
  <2> QED
    BY <2>1, <2>3
<1>4. n - 1 \in Nat /\ stop \in 0 .. n - 1
  OBVIOUS
<1> HIDE DEF q
<1>5. Rolls(h, Above(h, output, n), n - 1, stop, q)
  BY <1>2, <1>3 DEF Rolls
<1>6. RollUp(h, Above(h, output, n), n - 1, stop) = q[n - 1 - stop]
  BY <1>4, <1>5, RollUpIs
<1> QED
  BY <1>1, <1>2, <1>6

----------------------------------------------------------------------------
(* The loop over subtrees *)

Turn(s, hi) ==
  IF hi - s[2] <= CHUNK_LEN THEN s
  ELSE <<PushSubtree(s[1], s[2], s[2] + subtree_len(s[1], hi - s[2])),
         s[2] + subtree_len(s[1], hi - s[2])>>
Turns(h, lo, hi) ==
  CHOOSE t : t = [k \in 0 .. (hi - lo) \div CHUNK_LEN |-> IF k = 0 THEN <<h, lo>> ELSE Turn(t[k - 1], hi)]

\* The loop over subtrees is a sequence of turns, as many as there can be chunks.
LEMMA SubtreesDef ==
  ASSUME NEW h, NEW lo \in Int, NEW hi \in Int, lo <= hi
  PROVE  /\ Subtrees(h, lo, hi) = Turns(h, lo, hi)[(hi - lo) \div CHUNK_LEN]
         /\ Turns(h, lo, hi)[0] = <<h, lo>>
         /\ \A k \in 1 .. (hi - lo) \div CHUNK_LEN :
              Turns(h, lo, hi)[k] = Turn(Turns(h, lo, hi)[k - 1], hi)
<1> DEFINE n == (hi - lo) \div CHUNK_LEN
<1>0. n \in Nat
  BY Constants
<1> HIDE DEF n
<1> DEFINE S == 0 .. n
           E(g, k) == IF k = 0 THEN <<h, lo>> ELSE Turn(g[k - 1], hi)
           Upto(g, m) == \A k \in S : k <= m => g[k] = E(g, k)
           I == {m \in Nat : \E g : Upto(g, m)}
           Ok(f) == f = [k \in S |-> E(f, k)]
<1>1. 0 \in I
  <2> DEFINE g == [k \in S |-> <<h, lo>>]
  <2>1. \A k \in S : k <= 0 => g[k] = E(g, k)
    BY <1>0
  <2> HIDE DEF g, E
  <2> QED
    BY <2>1
<1>2. ASSUME NEW m \in Nat, m \in I PROVE m + 1 \in I
  <2>1. PICK g : Upto(g, m)
    BY <1>2
  <2> DEFINE g2 == [k \in S |-> IF k <= m THEN g[k] ELSE E(g, k)]
  <2>2. ASSUME NEW k \in S, k <= m + 1 PROVE g2[k] = E(g2, k)
    <3>1. g2[k] = E(g, k)
      <4> HIDE DEF E, S
      <4> QED
        BY <2>1
    <3>2. k # 0 => g2[k - 1] = g[k - 1]
      <4>1. k # 0 => k - 1 \in S /\ k - 1 <= m
        BY <2>2, <1>0
      <4> HIDE DEF E, S
      <4> QED
        BY <4>1
    <3> HIDE DEF g2
    <3> QED
      BY <3>1, <3>2
  <2> HIDE DEF g2, E
  <2> QED
    BY <2>2
<1>3. n \in I
  <2> HIDE DEF I
  <2> QED
    BY <1>0, <1>1, <1>2, Induction
<1>4. PICK g : Upto(g, n)
  BY <1>3
<1> DEFINE f == [k \in S |-> g[k]]
<1>5. ASSUME NEW k \in S PROVE f[k] = E(f, k)
  <2>1. f[k] = E(g, k)
    <3>1. k <= n
      OBVIOUS
    <3> HIDE DEF E, S
    <3> QED
      BY <1>4, <3>1
  <2>2. k # 0 => f[k - 1] = g[k - 1]
    BY <1>0
  <2> HIDE DEF f
  <2> QED
    BY <2>1, <2>2
<1>6. Ok(f)
  <2>1. f = [k \in S |-> f[k]]
    OBVIOUS
  <2> HIDE DEF E, f, S
  <2> QED
    BY <1>5, <2>1
<1> DEFINE r == Turns(h, lo, hi)
<1>7. Subtrees(h, lo, hi) = r[n]
  BY Zenon DEF Subtrees, Turns, Turn, n
<1>8. Ok(r)
  <2>1. r = CHOOSE g1 : Ok(g1)
    BY Zenon DEF Turns, n
  <2> HIDE DEF Ok, r
  <2> QED
    BY <1>6, <2>1
<1> HIDE DEF r
<1>9. \A k \in S : r[k] = E(r, k)
  <2> HIDE DEF E, S
  <2> QED
    BY <1>8
<1>10. r[0] = <<h, lo>> /\ \A k \in 1 .. n : r[k] = Turn(r[k - 1], hi)
  BY <1>0, <1>9
<1> QED
  BY <1>7, <1>10 DEF r, n

----------------------------------------------------------------------------
(* Wide subtrees *)

WideStep(w, s, key, flags) ==
  LET len == s[2] - s[1]
      n == left_subtree_len(len)
      left == w[<<s[1], s[1] + n, s[3]>>]
      right == w[<<s[1] + n, s[2], s[3] + n \div CHUNK_LEN>>]
      degree == IF n > CHUNK_LEN /\ blake3_simd_degree = 1 THEN 2 ELSE blake3_simd_degree
  IN IF len <= blake3_simd_degree * CHUNK_LEN
     THEN compress_chunks_parallel(s[1], s[2], key, s[3], flags)
     ELSE IF Len(left) = 1 THEN Side(left, right, degree)
          ELSE compress_parents_parallel(Side(left, right, degree), key, flags)
Wide(lo, hi, key, flags) ==
  CHOOSE w : w = [s \in (lo .. hi) \X (lo .. hi) \X Nat |-> WideStep(w, s, key, flags)]

\* blake3_simd_degree() is one of four.
LEMMA Degree == blake3_simd_degree \in {1, 4, 8, 16}
BY DEF blake3_simd_degree

\* left_subtree_len() is a power of two of chunks, at least half and not all.
LEMMA LeftSubtree ==
  ASSUME NEW len \in Nat, CHUNK_LEN < len
  PROVE  /\ left_subtree_len(len) \in Nat \ {0} /\ IsPower(left_subtree_len(len) \div CHUNK_LEN)
         /\ left_subtree_len(len) = CHUNK_LEN * (left_subtree_len(len) \div CHUNK_LEN)
         /\ CHUNK_LEN <= left_subtree_len(len) /\ left_subtree_len(len) < len
         /\ len <= 2 * left_subtree_len(len)
<1> DEFINE x == (len - 1) \div CHUNK_LEN
           p == round_down_to_power_of_2[x]
<1>1. x \in Nat \ {0} /\ x * CHUNK_LEN <= len - 1 /\ len - 1 < (x + 1) * CHUNK_LEN
  BY Constants
<1> HIDE DEF x
<1>2. p \in Nat \ {0} /\ IsPower(p) /\ p <= x /\ x < 2 * p
  BY <1>1, RoundDown DEF IsPower
<1> HIDE DEF p
<1>3. left_subtree_len(len) = p * CHUNK_LEN
  BY DEF left_subtree_len, p, x
<1>4. p * CHUNK_LEN \in Nat \ {0} /\ (p * CHUNK_LEN) \div CHUNK_LEN = p /\ CHUNK_LEN <= p * CHUNK_LEN
      /\ p * CHUNK_LEN = CHUNK_LEN * p
  BY <1>2, Constants
<1>5. p * CHUNK_LEN <= x * CHUNK_LEN
  BY <1>1, <1>2, Constants, Cancel
<1>6. x + 1 <= 2 * p /\ (x + 1) * CHUNK_LEN <= (2 * p) * CHUNK_LEN
  BY <1>1, <1>2, Constants, Cancel
<1>7. (2 * p) * CHUNK_LEN = 2 * (p * CHUNK_LEN)
  BY <1>2, Constants
<1>8. p * CHUNK_LEN < len
  BY <1>1, <1>2, <1>4, <1>5, Constants
<1>9. len <= 2 * (p * CHUNK_LEN)
  BY <1>1, <1>2, <1>4, <1>6, <1>7, Constants
<1> QED
  BY <1>2, <1>3, <1>4, <1>8, <1>9

\* The recursion over wide subtrees, for every stretch of the input.
LEMMA WideDef ==
  ASSUME NEW lo \in Int, NEW hi \in Int, lo <= hi, NEW key, NEW flags
  PROVE  /\ \A counter \in Nat :
              blake3_compress_subtree_wide(lo, hi, key, counter, flags)
                = Wide(lo, hi, key, flags)[<<lo, hi, counter>>]
         /\ \A s \in (lo .. hi) \X (lo .. hi) \X Nat :
              Wide(lo, hi, key, flags)[s] = WideStep(Wide(lo, hi, key, flags), s, key, flags)
<1> DEFINE S == (lo .. hi) \X (lo .. hi) \X Nat
           N(s) == left_subtree_len(s[2] - s[1])
           L(s) == <<s[1], s[1] + N(s), s[3]>>
           R(s) == <<s[1] + N(s), s[2], s[3] + N(s) \div CHUNK_LEN>>
           E(g, s) == WideStep(g, s, key, flags)
           Upto(g, n) == \A s \in S : s[2] - s[1] <= n => g[s] = E(g, s)
           I == {n \in Nat : \E g : Upto(g, n)}
           Ok(f) == f = [s \in S |-> E(f, s)]
<1>1. ASSUME NEW s \in S, ~ (s[2] - s[1] <= blake3_simd_degree * CHUNK_LEN)
      PROVE  /\ L(s) \in S /\ R(s) \in S
             /\ L(s)[2] - L(s)[1] < s[2] - s[1] /\ R(s)[2] - R(s)[1] < s[2] - s[1]
  <2>1. s[2] - s[1] \in Nat /\ CHUNK_LEN < s[2] - s[1]
    BY <1>1, Constants, Degree
  <2> DEFINE n == N(s)
  <2>2. n \in Nat \ {0} /\ n < s[2] - s[1] /\ n = CHUNK_LEN * (n \div CHUNK_LEN)
    BY <2>1, LeftSubtree
  <2> HIDE DEF n
  <2>3. n \div CHUNK_LEN \in Nat
    BY <2>2, Constants
  <2>4. L(s) = <<s[1], s[1] + n, s[3]>> /\ R(s) = <<s[1] + n, s[2], s[3] + n \div CHUNK_LEN>>
    BY DEF n
  <2> HIDE DEF N, L, R
  <2> QED
    BY <2>2, <2>3, <2>4
<1>2. ASSUME NEW g, NEW f, NEW s \in S,
             ~ (s[2] - s[1] <= blake3_simd_degree * CHUNK_LEN)
               => f[L(s)] = g[L(s)] /\ f[R(s)] = g[R(s)]
      PROVE  E(f, s) = E(g, s)
  <2>1. CASE s[2] - s[1] <= blake3_simd_degree * CHUNK_LEN
    BY <2>1 DEF WideStep
  <2>2. CASE ~ (s[2] - s[1] <= blake3_simd_degree * CHUNK_LEN)
    <3>1. f[L(s)] = g[L(s)] /\ f[R(s)] = g[R(s)]
      BY <1>2, <2>2
    <3> QED
      BY <2>2, <3>1, Zenon DEF WideStep
  <2> QED
    BY <2>1, <2>2
<1>3. 0 \in I
  <2> DEFINE g == [s \in S |-> compress_chunks_parallel(s[1], s[2], key, s[3], flags)]
  <2>1. ASSUME NEW s \in S, s[2] - s[1] <= 0 PROVE g[s] = E(g, s)
    <3>1. s[2] - s[1] <= blake3_simd_degree * CHUNK_LEN
      BY <2>1, Constants, Degree
    <3> QED
      BY <3>1 DEF WideStep
  <2> HIDE DEF g, E
  <2> QED
    BY <2>1
<1> HIDE DEF L, R, N
<1>4. ASSUME NEW n \in Nat, n \in I PROVE n + 1 \in I
  <2>1. PICK g : Upto(g, n)
    BY <1>4
  <2> DEFINE h == [s \in S |-> IF s[2] - s[1] <= n THEN g[s] ELSE E(g, s)]
  <2>2. ASSUME NEW s \in S, s[2] - s[1] <= n + 1 PROVE h[s] = E(h, s)
    <3>1. h[s] = E(g, s)
      <4> HIDE DEF E, S
      <4> QED
        BY <2>1
    <3>2. ASSUME ~ (s[2] - s[1] <= blake3_simd_degree * CHUNK_LEN)
          PROVE  h[L(s)] = g[L(s)] /\ h[R(s)] = g[R(s)]
      <4>1. L(s) \in S /\ R(s) \in S
        BY <1>1, <3>2
      <4>2. L(s)[2] - L(s)[1] <= n /\ R(s)[2] - R(s)[1] <= n
        <5>1. L(s)[2] - L(s)[1] < s[2] - s[1] /\ R(s)[2] - R(s)[1] < s[2] - s[1]
          BY <1>1, <3>2
        <5>2. /\ s[1] \in Int /\ s[2] \in Int /\ L(s)[1] \in Int /\ L(s)[2] \in Int
              /\ R(s)[1] \in Int /\ R(s)[2] \in Int
          BY <4>1
        <5> QED
          BY <5>1, <5>2, <2>2
      <4> HIDE DEF E, S
      <4> QED
        BY <4>1, <4>2
    <3> HIDE DEF h
    <3>3. E(h, s) = E(g, s)
      <4> HIDE DEF E
      <4> QED
        BY <1>2, <3>2
    <3> QED
      BY <3>1, <3>3
  <2> HIDE DEF h, E
  <2> QED
    BY <2>2
<1>5. hi - lo \in Nat /\ hi - lo \in I
  <2> HIDE DEF I
  <2> QED
    BY <1>3, <1>4, Induction
<1>6. PICK g : Upto(g, hi - lo)
  BY <1>5
<1> DEFINE f == [s \in S |-> g[s]]
<1>7. ASSUME NEW s \in S PROVE f[s] = E(f, s)
  <2>1. s[2] - s[1] <= hi - lo
    OBVIOUS
  <2>2. f[s] = E(g, s)
    <3> HIDE DEF E, S
    <3> QED
      BY <1>6, <2>1
  <2>3. ASSUME ~ (s[2] - s[1] <= blake3_simd_degree * CHUNK_LEN)
        PROVE  f[L(s)] = g[L(s)] /\ f[R(s)] = g[R(s)]
    <3>1. L(s) \in S /\ R(s) \in S
      BY <1>1, <2>3
    <3> HIDE DEF S
    <3> QED
      BY <3>1
  <2> HIDE DEF f
  <2>4. E(f, s) = E(g, s)
    <3> HIDE DEF E
    <3> QED
      BY <1>2, <2>3
  <2> QED
    BY <2>2, <2>4
<1>8. Ok(f)
  <2>1. f = [s \in S |-> f[s]]
    OBVIOUS
  <2> HIDE DEF E, f, S
  <2> QED
    BY <1>7, <2>1
<1> DEFINE T == Wide(lo, hi, key, flags)
<1>9. \A counter \in Nat :
        blake3_compress_subtree_wide(lo, hi, key, counter, flags) = T[<<lo, hi, counter>>]
  BY Zenon DEF blake3_compress_subtree_wide, Wide, WideStep
<1>10. Ok(T)
  <2>1. T = CHOOSE g1 : Ok(g1)
    BY Zenon DEF Wide
  <2> HIDE DEF Ok, T
  <2> QED
    BY <1>8, <2>1
<1> HIDE DEF T
<1>11. \A s \in S : T[s] = E(T, s)
  <2> HIDE DEF E, S
  <2> QED
    BY <1>10
<1> QED
  BY <1>9, <1>11 DEF T

----------------------------------------------------------------------------
(* Lanes *)

\* Half a counter that wraps carries one.
LEMMA Wraps ==
  ASSUME NEW w \in Nat \ {0}, NEW low \in 0 .. w - 1, NEW delta \in 0 .. w - 1
  PROVE  /\ low + delta < w  => (low + delta) % w = low + delta /\ (low + delta) \div w = 0
         /\ low + delta >= w => (low + delta) % w = low + delta - w /\ (low + delta) \div w = 1
<1>1. ASSUME low + delta >= w
      PROVE  (low + delta) % w = low + delta - w /\ (low + delta) \div w = 1
  <2>1. low + delta = 1 * w + (low + delta - w) /\ low + delta - w \in Nat /\ low + delta - w < w
    BY <1>1
  <2> QED
    BY <2>1
<1> QED
  BY <1>1

\* Adding to a counter kept in two halves carries into the upper one.
LEMMA HalvesSum ==
  ASSUME NEW counter \in Nat, NEW delta \in 0 .. Word - 1
  PROVE  LET h == Halves(counter)
         IN Halves(counter + delta)
              = <<(h[1] + delta) % Word, (h[2] + (h[1] + delta) \div Word) % Word>>
<1> DEFINE q == counter \div Word
           low == counter % Word
           c == (low + delta) \div Word
<1>0. Word \in Nat \ {0}
  BY Constants
<1>1. q \in Nat /\ low \in 0 .. Word - 1 /\ counter = q * Word + low
  BY <1>0, DivMod
<1> HIDE DEF q, low
<1>2. c \in Nat /\ (low + delta) % Word \in Nat /\ (low + delta) % Word < Word
      /\ low + delta = c * Word + ((low + delta) % Word)
  BY <1>0, <1>1, DivMod
<1> DEFINE m == (low + delta) % Word
<1> HIDE DEF c
<1>3. m \in Nat /\ m < Word /\ low + delta = c * Word + m
  BY <1>2
<1> HIDE DEF m
<1>4. counter + delta = (q + c) * Word + m
  BY <1>0, <1>1, <1>2, <1>3
<1>5. q + c \in Nat
  BY <1>1, <1>2
<1>6. (counter + delta) % Word = m /\ (counter + delta) \div Word = q + c
  BY <1>0, <1>3, <1>4, <1>5, DivModUnique
<1>7. (q + c) % Word = ((q % Word) + c) % Word
  <2> DEFINE r == q % Word
             s == (r + c) % Word
             d == (r + c) \div Word
             e == q \div Word
  <2>1. e \in Nat /\ r \in Nat /\ q = e * Word + r
    BY <1>0, <1>1, DivMod
  <2> HIDE DEF r, e
  <2>2. d \in Nat /\ s \in Nat /\ s < Word /\ r + c = d * Word + s
    <3>1. r + c \in Nat
      BY <1>2, <2>1
    <3> QED
      BY <1>0, <3>1, DivMod
  <2> HIDE DEF s, d
  <2>3. q + c = (e + d) * Word + s /\ e + d \in Nat
    BY <1>0, <1>2, <2>1, <2>2
  <2>4. (q + c) % Word = s
    BY <1>0, <2>2, <2>3, DivModUnique
  <2> QED
    BY <2>4 DEF s, r
<1>8. Halves(counter + delta) = <<m, ((q % Word) + c) % Word>>
  BY <1>6, <1>7 DEF Halves
<1> QED
  BY <1>8 DEF Halves, m, c, low, q

\* load_counters() carries as 64-bit addition does.
LEMMA CountersIs ==
  ASSUME NEW counter \in Nat, NEW delta \in 0 .. 15
  PROVE  /\ load_counters(counter, delta) = Halves(counter + delta)
         /\ load_counters16(counter, delta) = Halves(counter + delta)
<1> DEFINE low == counter % Word
<1>0. Word \in Nat \ {0} /\ Word >= 32 /\ delta \in 0 .. Word - 1
  BY Constants
<1>1. low \in 0 .. Word - 1 /\ Halves(counter)[1] = low
  BY <1>0, DivMod DEF Halves
<1> HIDE DEF low
<1>2. /\ low + delta < Word => (low + delta) % Word = low + delta /\ (low + delta) \div Word = 0
      /\ low + delta >= Word => (low + delta) % Word = low + delta - Word /\ (low + delta) \div Word = 1
  BY <1>0, <1>1, Wraps
<1>3. Carry(low, delta) = (low + delta) \div Word
  BY <1>0, <1>1, <1>2 DEF Carry
<1>4. Carry16(low, delta) = (low + delta) \div Word
  BY <1>0, <1>1, <1>2 DEF Carry16
<1>5. Halves(counter + delta)
        = <<(low + delta) % Word, (Halves(counter)[2] + (low + delta) \div Word) % Word>>
  BY <1>0, <1>1, HalvesSum
<1> QED
  BY <1>1, <1>3, <1>4, <1>5 DEF load_counters, load_counters16

\* So does every vector width.
LEMMA LaneIs ==
  ASSUME NEW counter \in Nat, NEW width \in {1, 4, 8, 16}, NEW delta \in 0 .. width - 1
  PROVE  /\ Lane(counter, delta, width) = Halves(counter + delta)
         /\ load_counters_avx512(counter, delta, width) = Halves(counter + delta)
<1>1. delta \in 0 .. 15 /\ (width = 1 => counter + delta = counter)
  OBVIOUS
<1>2. load_counters_avx512(counter, delta, width) = Halves(counter + delta)
  BY <1>1, CountersIs DEF load_counters_avx512
<1>3. CASE Avx512
  BY <1>2, <1>3 DEF Lane
<1>4. CASE ~ Avx512
  BY <1>1, <1>2, <1>4, CountersIs DEF Lane
<1> QED
  BY <1>2, <1>3, <1>4

\* The first lane's counter is the counter.
LEMMA LaneFirst ==
  ASSUME NEW counter \in Nat, NEW width \in {1, 4, 8, 16}
  PROVE  Lane(counter, 0, width) = Halves(counter)
<1> DEFINE delta == 0
<1>1. delta \in 0 .. width - 1 /\ counter + delta = counter
  OBVIOUS
<1> HIDE DEF delta
<1>2. Lane(counter, delta, width) = Halves(counter)
  BY <1>1, LaneIs
<1> QED
  BY <1>2 DEF delta

\* Every host's widths are 1, 4, 8 and 16, and 1 is among them.
LEMMA WidthsOf ==
  /\ Widths \subseteq {1, 4, 8, 16} /\ 1 \in Widths
  /\ WidthsXof \subseteq {1, 4, 8, 16} /\ 1 \in WidthsXof
<1>1. ManyBackEnd \in {"avx512", "avx2", "sse41", "sse2", "portable"}
  BY DEF ManyBackEnd
<1>2. /\ hash_many_portable = {1} /\ hash_many_sse2 = {1, 4} /\ hash_many_sse41 = {1, 4}
      /\ hash_many_avx2 = {1, 4, 8} /\ hash_many_avx512 = {1, 4, 8, 16}
  BY DEF hash_many_portable, hash_many_sse2, hash_many_sse41, hash_many_avx2, hash_many_avx512
<1> QED
  BY <1>1, <1>2 DEF Widths, WidthsXof

\* What the dispatcher picks can be executed: it has asked the processor and the system.
LEMMA NoFault ==
  ASSUME NEW value
  PROVE  Executed(ManyBackEnd, value) = value /\ Executed(RowsBackEnd, value) = value
<1> DEFINE f == get_cpu_features
<1>1. /\ "SSE41" \in f => "SSE41" \in host.cpuid
      /\ "AVX2" \in f => {"OSXSAVE", "YMM", "AVX2"} \subseteq host.cpuid
      /\ "AVX512VL" \in f => {"OSXSAVE", "YMM", "ZMM", "AVX512VL"} \subseteq host.cpuid
  BY DEF get_cpu_features
<1>2. /\ ManyBackEnd \in {"avx512", "avx2", "sse41", "sse2", "portable"}
      /\ ManyBackEnd = "avx512" => "AVX512VL" \in f
      /\ ManyBackEnd = "avx2" => "AVX2" \in f
      /\ ManyBackEnd = "sse41" => "SSE41" \in f
  BY DEF ManyBackEnd, Avx512
<1>3. /\ RowsBackEnd \in {"avx512", "sse41", "sse2", "portable"}
      /\ RowsBackEnd = "avx512" => "AVX512VL" \in f
      /\ RowsBackEnd = "sse41" => "SSE41" \in f
  BY DEF RowsBackEnd
<1> HIDE DEF f
<1>4. Needs[ManyBackEnd] \subseteq host.cpuid
  BY <1>1, <1>2 DEF Needs
<1>5. Needs[RowsBackEnd] \subseteq host.cpuid
  BY <1>1, <1>3 DEF Needs
<1> QED
  BY <1>4, <1>5, Zenon DEF Executed

\* An input's batch is as wide as one of the host's widths, and it is in one of its lanes.
LEMMA BatchIs ==
  ASSUME NEW widths \in SUBSET {1, 4, 8, 16}, 1 \in widths, NEW n \in Nat, NEW i \in 1 .. n
  PROVE  /\ Batch(widths, i, n) \in {1, 4, 8, 16}
         /\ (i - 1) % Batch(widths, i, n) \in 0 .. Batch(widths, i, n) - 1
         /\ i - 1 - ((i - 1) % Batch(widths, i, n)) \in Nat
<1> DEFINE S == {w \in widths : i <= n - (n % w)}
           b == Batch(widths, i, n)
<1>1. 1 \in S /\ S \subseteq 0 .. 16
  <2>1. n % 1 = 0 /\ n - 0 = n
    OBVIOUS
  <2>2. \A w \in widths : w \in 0 .. 16
    OBVIOUS
  <2>3. 1 \in S
    BY <2>1
  <2> QED
    BY <2>2, <2>3
<1>2. Largest(S) \in S
  <2> HIDE DEF S
  <2> QED
    BY <1>1, LargestDef
<1>3. b \in {1, 4, 8, 16}
  BY <1>2 DEF Batch
<1> HIDE DEF b
<1>4. (i - 1) % b \in 0 .. b - 1 /\ (i - 1) % b <= i - 1
  <2>1. b \in Nat \ {0} /\ i - 1 \in Nat
    BY <1>3
  <2> QED
    BY <2>1
<1> QED
  BY <1>3, <1>4 DEF b

Counting(inputs, key, counter, flags) ==
  [i \in 1 .. Len(inputs) |-> Blocks(key, inputs[i], Halves(counter + i - 1), flags)]
Alike(inputs, key, counter, flags) ==
  [i \in 1 .. Len(inputs) |-> Blocks(key, inputs[i], Halves(counter), flags)]

\* blake3_hash_many(), whatever the widths, is one input after another.
LEMMA HashManyIs ==
  ASSUME NEW inputs, Len(inputs) \in Nat, NEW key, NEW counter \in Nat, NEW flags
  PROVE  /\ blake3_hash_many(inputs, key, counter, TRUE, flags)
              = Counting(inputs, key, counter, flags)
         /\ blake3_hash_many(inputs, key, counter, FALSE, flags)
              = Alike(inputs, key, counter, flags)
<1> DEFINE n == Len(inputs)
           w(i) == Batch(Widths, i, n)
           lane(i) == (i - 1) % w(i)
<1>1. ASSUME NEW i \in 1 .. n
      PROVE  /\ Lane(counter + i - 1 - lane(i), lane(i), w(i)) = Halves(counter + i - 1)
             /\ Lane(counter, 0, w(i)) = Halves(counter)
  <2>1. w(i) \in {1, 4, 8, 16} /\ lane(i) \in 0 .. w(i) - 1 /\ i - 1 - lane(i) \in Nat
    BY WidthsOf, BatchIs
  <2>2. counter + i - 1 - lane(i) \in Nat /\ 0 \in 0 .. w(i) - 1 /\ counter + 0 = counter
        /\ (counter + i - 1 - lane(i)) + lane(i) = counter + i - 1
    BY <2>1
  <2> DEFINE first == counter + i - 1 - lane(i)
             last == counter + i - 1
  <2> HIDE DEF w, lane
  <2>3. first \in Nat /\ first + lane(i) = last
    BY <2>2
  <2>4. Lane(counter, 0, w(i)) = Halves(counter)
    BY <2>1, LaneFirst
  <2> HIDE DEF first, last
  <2>5. Lane(first, lane(i), w(i)) = Halves(last)
    BY <2>1, <2>3, LaneIs
  <2> QED
    BY <2>4, <2>5 DEF first, last
<1> HIDE DEF n
<1>2. blake3_hash_many(inputs, key, counter, TRUE, flags)
        = [i \in 1 .. n |-> Blocks(key, inputs[i], Lane(counter + i - 1 - lane(i), lane(i), w(i)), flags)]
  BY NoFault, Zenon DEF blake3_hash_many, n
<1>3. blake3_hash_many(inputs, key, counter, FALSE, flags)
        = [i \in 1 .. n |-> Blocks(key, inputs[i], Lane(counter, 0, w(i)), flags)]
  BY NoFault, Zenon DEF blake3_hash_many, n
<1> HIDE DEF w, lane
<1> QED
  BY <1>1, <1>2, <1>3 DEF n, Counting, Alike

----------------------------------------------------------------------------
(* Chunks *)

Chunk(cv, counter, buf, len, blocks, flags) ==
  [cv |-> cv, chunk_counter |-> counter, buf |-> buf, buf_len |-> len,
   blocks_compressed |-> blocks, flags |-> flags]

ChunkSet(cv, counter, buf, len, blocks, flags) ==
  [cv : {cv}, chunk_counter : {counter}, buf : {buf}, buf_len : {len},
   blocks_compressed : {blocks}, flags : {flags}]

\* A chunk is its six fields.
LEMMA ChunkEta ==
  ASSUME NEW cv, NEW counter, NEW buf, NEW len, NEW blocks, NEW flags,
         NEW r \in ChunkSet(cv, counter, buf, len, blocks, flags)
  PROVE  r = Chunk(cv, counter, buf, len, blocks, flags)
BY DEF Chunk, ChunkSet

\* The fields of a chunk.
LEMMA ChunkFields ==
  ASSUME NEW cv, NEW counter, NEW buf, NEW len, NEW blocks, NEW flags
  PROVE  LET chunk == Chunk(cv, counter, buf, len, blocks, flags) IN
         /\ chunk.cv = cv /\ chunk.chunk_counter = counter /\ chunk.buf = buf
         /\ chunk.buf_len = len /\ chunk.blocks_compressed = blocks /\ chunk.flags = flags
         /\ NoBuf(chunk) = Chunk(cv, counter, ZeroBlock, 0, blocks + 1, flags)
<1> DEFINE chunk == Chunk(cv, counter, buf, len, blocks, flags)
<1>1. chunk.cv = cv /\ chunk.chunk_counter = counter /\ chunk.buf = buf
      /\ chunk.buf_len = len /\ chunk.blocks_compressed = blocks /\ chunk.flags = flags
  BY DEF Chunk
<1>2. NoBuf(chunk) \in ChunkSet(cv, counter, ZeroBlock, 0, blocks + 1, flags)
  BY DEF Chunk, NoBuf, ChunkSet
<1>3. NoBuf(chunk) = Chunk(cv, counter, ZeroBlock, 0, blocks + 1, flags)
  BY <1>2, ChunkEta
<1> QED
  BY <1>1, <1>3

\* Block b of chunk counter, compressed.
BlockAt(flags, counter, b) ==
  <<flags \cup chunk_state_maybe_start_flag(b), Halves(counter), BLOCK_LEN,
    Block(counter * CHUNK_LEN + b * BLOCK_LEN, counter * CHUNK_LEN + (b + 1) * BLOCK_LEN)>>
CvAt(key, flags, counter, w) ==
  [i \in 1 .. w + 1 |-> IF i = 1 THEN key ELSE BlockAt(flags, counter, i - 2)]

\* The blocks of a chunk known not to be the last when it holds n bytes.
Whole(n) == IF n = 0 THEN 0 ELSE (n - 1) \div BLOCK_LEN

\* A chunk that holds the message's bytes up to hi.
ChunkAt(key, flags, counter, hi) ==
  LET lo == counter * CHUNK_LEN
      w == Whole(hi - lo)
  IN Chunk(CvAt(key, flags, counter, w), counter, Block(lo + w * BLOCK_LEN, hi),
           hi - lo - w * BLOCK_LEN, w, flags)

\* How many blocks are known not to be the last.
LEMMA WholeIs ==
  ASSUME NEW n \in Nat
  PROVE  /\ Whole(n) \in Nat /\ Whole(0) = 0
         /\ n > 0 => Whole(n) * BLOCK_LEN < n /\ n <= Whole(n) * BLOCK_LEN + BLOCK_LEN
         /\ n - Whole(n) * BLOCK_LEN \in 0 .. BLOCK_LEN
<1>1. CASE n = 0
  BY <1>1, Constants DEF Whole
<1>2. CASE n > 0
  <2> DEFINE q == (n - 1) \div BLOCK_LEN
  <2>1. q \in Nat /\ q * BLOCK_LEN <= n - 1 /\ n - 1 < (q + 1) * BLOCK_LEN
    <3>1. n - 1 \in Nat
      BY <1>2
    <3> QED
      BY <3>1, Constants, DivMod
  <2>2. Whole(n) = q
    BY <1>2 DEF Whole
  <2> HIDE DEF q
  <2>3. q * BLOCK_LEN \in Nat /\ (q + 1) * BLOCK_LEN = q * BLOCK_LEN + BLOCK_LEN
    BY <2>1, Constants
  <2> DEFINE m == q * BLOCK_LEN
  <2>4. m \in Nat /\ m <= n - 1 /\ n - 1 < m + BLOCK_LEN
    BY <2>1, <2>3
  <2> HIDE DEF m
  <2>5. m < n /\ n <= m + BLOCK_LEN /\ n - m \in 0 .. BLOCK_LEN
    BY <2>4, Constants
  <2> QED
    BY <2>1, <2>2, <2>5 DEF Whole, m
<1> QED
  BY <1>1, <1>2

\* No other number of blocks is.
LEMMA WholeUnique ==
  ASSUME NEW n \in Nat \ {0}, NEW w \in Nat, w * BLOCK_LEN < n, n <= w * BLOCK_LEN + BLOCK_LEN
  PROVE  Whole(n) = w
<1> DEFINE r == n - 1 - w * BLOCK_LEN
<1>1. w * BLOCK_LEN \in Nat
  BY Constants
<1>2. r \in Nat /\ r < BLOCK_LEN /\ n - 1 = w * BLOCK_LEN + r
  BY <1>1, Constants
<1> HIDE DEF r
<1>3. (n - 1) \div BLOCK_LEN = w
  BY <1>2, Constants, DivModUnique
<1> QED
  BY <1>3 DEF Whole

\* Filling the buffer adds the bytes to the block it has.
LEMMA FillBuf ==
  ASSUME NEW cv, NEW counter, NEW base \in Int, NEW lo \in Int, NEW hi \in Int, NEW b, NEW flags,
         base <= lo, lo <= hi, hi <= base + BLOCK_LEN, NEW len, len = lo - base
  PROVE  chunk_state_fill_buf(Chunk(cv, counter, Block(base, lo), len, b, flags), lo, hi)
           = Chunk(cv, counter, Block(base, hi), hi - base, b, flags)
<1>1. [i \in 1 .. BLOCK_LEN |->
         IF i \in (lo - base) + 1 .. (lo - base) + (hi - lo)
         THEN lo + i - (lo - base) ELSE Block(base, lo)[i]] = Block(base, hi)
  BY Constants DEF Block
<1>2. (lo - base) + (hi - lo) = hi - base
  OBVIOUS
<1> DEFINE buf == Block(base, lo)
           chunk == Chunk(cv, counter, buf, len, b, flags)
           new == [i \in 1 .. BLOCK_LEN |-> IF i \in len + 1 .. len + (hi - lo)
                                            THEN lo + i - len ELSE buf[i]]
<1> HIDE DEF buf
<1>3. chunk.buf_len = len /\ chunk.buf = buf
  BY DEF Chunk
<1> HIDE DEF chunk
<1>4. chunk_state_fill_buf(chunk, lo, hi)
        = [chunk EXCEPT !.buf = new, !.buf_len = len + (hi - lo)]
  BY <1>3, Zenon DEF chunk_state_fill_buf
<1> HIDE DEF new
<1>5. chunk_state_fill_buf(chunk, lo, hi) = Chunk(cv, counter, new, len + (hi - lo), b, flags)
  BY <1>4 DEF chunk, Chunk
<1> QED
  BY <1>1, <1>2, <1>5 DEF new, chunk, buf

\* A zeroed block has no bytes.
LEMMA ZeroBlockIs ==
  ASSUME NEW base \in Int
  PROVE  ZeroBlock = Block(base, base)
BY Constants DEF ZeroBlock, Block

\* So many blocks from block w on.
BlocksAt(flags, counter, w, n) == [b \in 1 .. n |-> BlockAt(flags, counter, w + b - 1)]

\* Compressing w blocks and then n is compressing w + n.
LEMMA CvJoin ==
  ASSUME NEW key, NEW flags, NEW counter, NEW w \in Nat, NEW n \in Nat
  PROVE  CvAt(key, flags, counter, w) \o BlocksAt(flags, counter, w, n)
           = CvAt(key, flags, counter, w + n)
BY DEF CvAt, BlocksAt

\* Compressing one more.
LEMMA CvAppend ==
  ASSUME NEW key, NEW flags, NEW counter, NEW w \in Nat
  PROVE  Append(CvAt(key, flags, counter, w), BlockAt(flags, counter, w))
           = CvAt(key, flags, counter, w + 1)
BY DEF CvAt

\* From the key on.
LEMMA CvStart ==
  ASSUME NEW key, NEW flags, NEW counter, NEW n \in Nat
  PROVE  /\ <<key>> = CvAt(key, flags, counter, 0)
         /\ <<key>> \o BlocksAt(flags, counter, 0, n) = CvAt(key, flags, counter, n)
BY DEF CvAt, BlocksAt

\* A block is compressed with the flags of its place in the chunk.
LEMMA CompressionIs ==
  ASSUME NEW cv, NEW counter \in Nat, NEW buf, NEW len, NEW blocks, NEW flags,
         NEW w \in Nat, NEW base \in Int, base = counter * CHUNK_LEN + w * BLOCK_LEN
  PROVE  Compression(Chunk(cv, counter, buf, len, blocks, flags), w, Block(base, base + BLOCK_LEN))
           = BlockAt(flags, counter, w)
<1>1. counter * CHUNK_LEN \in Int /\ w * BLOCK_LEN \in Int
      /\ (w + 1) * BLOCK_LEN = w * BLOCK_LEN + BLOCK_LEN
  BY Constants
<1>2. base + BLOCK_LEN = counter * CHUNK_LEN + (w + 1) * BLOCK_LEN
  BY <1>1, Constants
<1> QED
  BY <1>2 DEF Compression, Chunk, BlockAt

\* Without input no block is compressed.
LEMMA WholeBlocksNone ==
  ASSUME NEW key, NEW counter \in Nat, NEW flags, NEW w \in Nat,
         NEW base \in Int, NEW hi \in Int, base <= hi, hi <= base + BLOCK_LEN,
         NEW len, len = hi - base
  PROVE  LET chunk == Chunk(CvAt(key, flags, counter, w), counter, Block(base, hi), len, w, flags)
         IN WholeBlocks(chunk, hi, hi) = chunk
<1> DEFINE cv == CvAt(key, flags, counter, w)
           chunk == Chunk(cv, counter, Block(base, hi), len, w, flags)
           blocks == [b \in 1 .. 0 |->
                       Compression(chunk, chunk.blocks_compressed + b - 1,
                                   Block(hi + (b - 1) * BLOCK_LEN, hi + b * BLOCK_LEN))]
<1>1. cv \o blocks = cv
  <2>1. blocks = BlocksAt(flags, counter, w, 0)
    BY DEF BlocksAt
  <2> HIDE DEF blocks
  <2>2. 0 \in Nat /\ w + 0 = w
    OBVIOUS
  <2> QED
    BY <2>1, <2>2, CvJoin
<1>2. hi + 0 * BLOCK_LEN = hi
  BY Constants
<1>3. WholeBlocks(chunk, hi, hi)
        = chunk_state_fill_buf([chunk EXCEPT !.cv = chunk.cv \o blocks,
                                             !.blocks_compressed = chunk.blocks_compressed + 0], hi, hi)
  <2> HIDE DEF chunk
  <2> QED
    BY <1>2 DEF WholeBlocks
<1> HIDE DEF blocks, cv
<1>4. [chunk EXCEPT !.cv = chunk.cv \o blocks, !.blocks_compressed = chunk.blocks_compressed + 0] = chunk
  <2>1. chunk.cv = cv /\ chunk.blocks_compressed = w
    BY ChunkFields
  <2> DEFINE buf == Block(base, hi)
  <2>3. [chunk EXCEPT !.cv = cv, !.blocks_compressed = w] = chunk
    <3> HIDE DEF buf
    <3>1. chunk = Chunk(cv, counter, buf, len, w, flags)
      BY DEF buf
    <3> HIDE DEF chunk
    <3>2. [chunk EXCEPT !.cv = cv, !.blocks_compressed = w] \in ChunkSet(cv, counter, buf, len, w, flags)
      BY <3>1 DEF Chunk, ChunkSet
    <3> QED
      BY <3>1, <3>2, ChunkEta
  <2>2. w + 0 = w
    OBVIOUS
  <2> HIDE DEF chunk
  <2> QED
    BY <1>1, <2>1, <2>2, <2>3
<1>5. chunk_state_fill_buf(chunk, hi, hi) = chunk
  BY FillBuf
<1> QED
  BY <1>3, <1>4, <1>5 DEF cv

\* The loop over whole blocks stops before what may be the last.
LEMMA WholeBlocksIs ==
  ASSUME NEW key, NEW counter \in Nat, NEW flags, NEW w \in Nat,
         NEW base \in Int, NEW hi \in Int, base = counter * CHUNK_LEN + w * BLOCK_LEN, base <= hi
  PROVE  LET n == Whole(hi - base) IN
         WholeBlocks(Chunk(CvAt(key, flags, counter, w), counter, ZeroBlock, 0, w, flags), base, hi)
           = Chunk(CvAt(key, flags, counter, w + n), counter, Block(base + n * BLOCK_LEN, hi),
                   hi - base - n * BLOCK_LEN, w + n, flags)
<1> DEFINE n == Whole(hi - base)
           cv == CvAt(key, flags, counter, w)
           chunk == Chunk(cv, counter, ZeroBlock, 0, w, flags)
           blocks == [b \in 1 .. n |->
                       Compression(chunk, chunk.blocks_compressed + b - 1,
                                   Block(base + (b - 1) * BLOCK_LEN, base + b * BLOCK_LEN))]
           at == base + n * BLOCK_LEN
<1>0. n \in Nat /\ n * BLOCK_LEN \in Nat /\ hi - base - n * BLOCK_LEN \in 0 .. BLOCK_LEN
  <2>1. hi - base \in Nat
    OBVIOUS
  <2>2. n \in Nat /\ hi - base - n * BLOCK_LEN \in 0 .. BLOCK_LEN
    BY <2>1, WholeIs
  <2> HIDE DEF n
  <2> QED
    BY <2>2, Constants
<1>1. blocks = BlocksAt(flags, counter, w, n)
  <2> SUFFICES ASSUME NEW b \in 1 .. n
               PROVE  Compression(chunk, w + b - 1,
                                  Block(base + (b - 1) * BLOCK_LEN, base + b * BLOCK_LEN))
                        = BlockAt(flags, counter, w + b - 1)
    BY DEF Chunk, BlocksAt
  <2> DEFINE k == w + b - 1
             from == base + (b - 1) * BLOCK_LEN
  <2> HIDE DEF n
  <2>1. k \in Nat
    BY <1>0
  <2>2. k * BLOCK_LEN = w * BLOCK_LEN + (b - 1) * BLOCK_LEN
        /\ (b - 1) * BLOCK_LEN \in Int /\ b * BLOCK_LEN = (b - 1) * BLOCK_LEN + BLOCK_LEN
    BY <1>0, Constants
  <2>3. from \in Int /\ from = counter * CHUNK_LEN + k * BLOCK_LEN /\ base + b * BLOCK_LEN = from + BLOCK_LEN
    <3>1. counter * CHUNK_LEN \in Int /\ w * BLOCK_LEN \in Int
      BY Constants
    <3> QED
      BY <3>1, <2>2, Constants
  <2> HIDE DEF k, from, cv
  <2> QED
    BY <2>1, <2>3, CompressionIs DEF k, from
<1>2. WholeBlocks(chunk, base, hi)
        = chunk_state_fill_buf([chunk EXCEPT !.cv = chunk.cv \o blocks,
                                             !.blocks_compressed = chunk.blocks_compressed + n], at, hi)
  <2>1. n = IF hi = base THEN 0 ELSE (hi - base - 1) \div BLOCK_LEN
    BY DEF Whole
  <2> HIDE DEF chunk, n
  <2> QED
    BY <2>1, Zenon DEF WholeBlocks
<1> HIDE DEF n
<1>3. cv \o blocks = CvAt(key, flags, counter, w + n)
  <2> HIDE DEF blocks
  <2>1. n \in Nat
    BY <1>0
  <2> HIDE DEF n
  <2>2. \A m \in Nat : CvAt(key, flags, counter, w) \o BlocksAt(flags, counter, w, m)
                          = CvAt(key, flags, counter, w + m)
    BY CvJoin
  <2>3. CvAt(key, flags, counter, w) \o BlocksAt(flags, counter, w, n)
          = CvAt(key, flags, counter, w + n)
    BY <2>1, <2>2
  <2> QED
    BY <1>1, <2>3
<1> HIDE DEF blocks, cv
<1>4. at \in Int /\ ZeroBlock = Block(at, at) /\ at <= hi /\ hi <= at + BLOCK_LEN /\ at - at = 0
      /\ hi - at = hi - base - n * BLOCK_LEN
  <2>1. at \in Int
    BY <1>0
  <2>2. ZeroBlock = Block(at, at)
    BY <2>1, ZeroBlockIs
  <2> QED
    BY <2>1, <2>2, <1>0, Constants
<1> HIDE DEF at
<1>5. [chunk EXCEPT !.cv = chunk.cv \o blocks, !.blocks_compressed = chunk.blocks_compressed + n]
        = Chunk(CvAt(key, flags, counter, w + n), counter, Block(at, at), at - at, w + n, flags)
  <2>1. chunk.cv = cv /\ chunk.blocks_compressed = w
    BY ChunkFields
  <2> DEFINE cv2 == CvAt(key, flags, counter, w + n)
             zero == Block(at, at)
             w2 == w + n
  <2>2. cv2 = cv \o blocks /\ ZeroBlock = zero
    BY <1>3, <1>4
  <2> HIDE DEF cv2, zero, w2
  <2>3. [chunk EXCEPT !.cv = cv2, !.blocks_compressed = w2] = Chunk(cv2, counter, zero, 0, w2, flags)
    <3>1. [chunk EXCEPT !.cv = cv2, !.blocks_compressed = w2] \in ChunkSet(cv2, counter, zero, 0, w2, flags)
      BY <2>2 DEF Chunk, ChunkSet
    <3> QED
      BY <3>1, ChunkEta
  <2> HIDE DEF chunk
  <2> QED
    BY <1>4, <2>1, <2>2, <2>3 DEF cv2, zero, w2
<1>6. WholeBlocks(chunk, base, hi)
        = Chunk(CvAt(key, flags, counter, w + n), counter, Block(at, hi), hi - at, w + n, flags)
  BY <1>2, <1>4, <1>5, FillBuf
<1> QED
  BY <1>4, <1>6 DEF at, n, cv

\* chunk_state_update(), from wherever the chunk stands to wherever the input ends.
LEMMA ChunkUpdate ==
  ASSUME NEW key, NEW counter \in Nat, NEW flags, NEW lo \in Int, NEW hi \in Int,
         counter * CHUNK_LEN <= lo, lo <= hi
  PROVE  chunk_state_update(ChunkAt(key, flags, counter, lo), lo, hi)
           = ChunkAt(key, flags, counter, hi)
<1> DEFINE L == counter * CHUNK_LEN
           w == Whole(lo - L)
           base == L + w * BLOCK_LEN
           cv == CvAt(key, flags, counter, w)
           chunk == Chunk(cv, counter, Block(base, lo), lo - base, w, flags)
           space == BLOCK_LEN - chunk.buf_len
           take == CASE chunk.buf_len = 0                       -> 0
                     [] chunk.buf_len > 0 /\ hi - lo > space    -> space
                     [] chunk.buf_len > 0 /\ hi - lo <= space   -> hi - lo
           filled == chunk_state_fill_buf(chunk, lo, lo + take)
           compressed == [filled EXCEPT !.cv = Append(filled.cv, Compression(filled, filled.blocks_compressed,
                                                                             filled.buf))]
           next == IF chunk.buf_len > 0 /\ lo + take < hi THEN NoBuf(compressed) ELSE filled
<1>0. L \in Int
  BY Constants
<1>1. chunk = ChunkAt(key, flags, counter, lo)
  <2>1. w * BLOCK_LEN \in Int
    <3>1. lo - L \in Nat
      BY <1>0
    <3>2. w \in Nat
      BY <3>1, WholeIs
    <3> HIDE DEF w
    <3> QED
      BY <3>2, Constants
  <2>2. lo - base = lo - L - w * BLOCK_LEN
    BY <1>0, <2>1
  <2> QED
    BY <2>2 DEF ChunkAt
<1> HIDE DEF L
<1>2. w \in Nat /\ base \in Int /\ lo - base \in 0 .. BLOCK_LEN
      /\ (lo > L => base < lo) /\ (lo = L => base = lo /\ w = 0)
  <2>1. lo - L \in Nat
    BY <1>0 DEF L
  <2> DEFINE m == w * BLOCK_LEN
  <2>2. w \in Nat /\ m \in Int /\ lo - L - m \in 0 .. BLOCK_LEN /\ (lo - L > 0 => m < lo - L)
        /\ (lo - L = 0 => w = 0 /\ m = 0)
    <3> DEFINE d == lo - L
    <3> HIDE DEF d
    <3>1. /\ Whole(d) \in Nat /\ Whole(0) = 0 /\ d - Whole(d) * BLOCK_LEN \in 0 .. BLOCK_LEN
          /\ d > 0 => Whole(d) * BLOCK_LEN < d
      BY <2>1, WholeIs DEF d
    <3>2. Whole(d) * BLOCK_LEN \in Int /\ 0 * BLOCK_LEN = 0
      BY <3>1, Constants
    <3> QED
      BY <3>1, <3>2 DEF d
  <2>3. base = L + m
    OBVIOUS
  <2> HIDE DEF w, m, base
  <2> QED
    BY <1>0, <2>1, <2>2, <2>3
<1> HIDE DEF w
<1>3. chunk_state_update(chunk, lo, hi) = WholeBlocks(next, lo + take, hi)
  <2> HIDE DEF chunk, base
  <2> QED
    BY Zenon DEF chunk_state_update
<1> DEFINE len == lo - base
<1>9. chunk.buf_len = len
  BY ChunkFields
<1>10. /\ space = BLOCK_LEN - len /\ space \in Int
       /\ take = IF len = 0 THEN 0 ELSE IF hi - lo > space THEN space ELSE hi - lo
       /\ next = IF len > 0 /\ lo + take < hi THEN NoBuf(compressed) ELSE filled
  <2>1. len \in Int /\ len \in 0 .. BLOCK_LEN
    BY <1>2
  <2> HIDE DEF chunk, compressed, filled, len, base
  <2>2. space = BLOCK_LEN - len /\ space \in Int
    BY <1>9, <2>1, Constants
  <2>3. take = IF len = 0 THEN 0 ELSE IF hi - lo > space THEN space ELSE hi - lo
    <3> HIDE DEF space
    <3> QED
      BY <1>9, <2>1, <2>2
  <2>4. next = IF len > 0 /\ lo + take < hi THEN NoBuf(compressed) ELSE filled
    <3> HIDE DEF take
    <3> QED
      BY <1>9
  <2> QED
    BY <2>2, <2>3, <2>4
<1> HIDE DEF take, space, next
<1>4. ASSUME NEW v \in Nat, v = Whole(hi - L)
      PROVE  ChunkAt(key, flags, counter, hi)
               = Chunk(CvAt(key, flags, counter, v), counter, Block(L + v * BLOCK_LEN, hi),
                       hi - (L + v * BLOCK_LEN), v, flags)
  <2>1. v * BLOCK_LEN \in Int
    BY Constants
  <2>2. hi - (L + v * BLOCK_LEN) = hi - L - v * BLOCK_LEN
    BY <1>0, <2>1
  <2> QED
    BY <1>4, <2>2 DEF ChunkAt, L
<1>5. CASE lo = L
  <2>1. base = lo /\ w = 0 /\ take = 0 /\ lo + take = lo
    BY <1>2, <1>5, <1>10
  <2>2. filled = chunk
    <3>1. filled = chunk_state_fill_buf(chunk, lo, lo)
      BY <2>1
    <3> HIDE DEF filled, base, cv
    <3> QED
      BY <1>2, <2>1, <3>1, FillBuf, Constants
  <2>3. next = chunk
    BY <1>10, <2>1, <2>2
  <2>4. chunk = Chunk(CvAt(key, flags, counter, 0), counter, ZeroBlock, 0, 0, flags)
    BY <2>1, ZeroBlockIs
  <2> HIDE DEF chunk, base
  <2> DEFINE n == Whole(hi - lo)
             z == 0
  <2>5. lo = counter * CHUNK_LEN + z * BLOCK_LEN /\ z \in Nat
    BY <1>5, Constants DEF L
  <2>6. n \in Nat /\ z + n = n /\ n * BLOCK_LEN \in Int
    <3>1. hi - lo \in Nat
      OBVIOUS
    <3>2. n \in Nat
      BY <3>1, WholeIs
    <3> HIDE DEF n
    <3> QED
      BY <3>2, Constants
  <2>7. chunk = Chunk(CvAt(key, flags, counter, z), counter, ZeroBlock, 0, z, flags)
    BY <2>4
  <2> HIDE DEF z, n
  <2>8. WholeBlocks(chunk, lo, hi)
          = Chunk(CvAt(key, flags, counter, n), counter, Block(lo + n * BLOCK_LEN, hi),
                  hi - lo - n * BLOCK_LEN, n, flags)
    BY <2>5, <2>6, <2>7, WholeBlocksIs DEF n
  <2>9. hi - (L + n * BLOCK_LEN) = hi - lo - n * BLOCK_LEN
    BY <1>5, <2>6
  <2>10. ChunkAt(key, flags, counter, hi)
           = Chunk(CvAt(key, flags, counter, n), counter, Block(L + n * BLOCK_LEN, hi),
                   hi - (L + n * BLOCK_LEN), n, flags)
    BY <1>4, <1>5, <2>6 DEF n
  <2> QED
    BY <1>1, <1>3, <1>5, <2>1, <2>3, <2>8, <2>9, <2>10
<1>6. CASE lo > L /\ hi - lo <= space
  <2>1. base < lo /\ take = hi - lo /\ lo + take = hi
    BY <1>2, <1>6, <1>10
  <2>2. hi <= base + BLOCK_LEN
    <3>1. len \in Int /\ space = BLOCK_LEN - len /\ hi - lo <= space /\ base \in Int
      BY <1>2, <1>6, <1>10
    <3> HIDE DEF base
    <3> QED
      BY <3>1, Constants
  <2>3. filled = Chunk(cv, counter, Block(base, hi), hi - base, w, flags)
    <3>1. filled = chunk_state_fill_buf(chunk, lo, hi)
      BY <2>1
    <3> HIDE DEF filled, base, cv
    <3> QED
      BY <1>2, <2>1, <2>2, <3>1, FillBuf
  <2>4. next = filled
    BY <1>10, <2>1
  <2> HIDE DEF filled, base, chunk
  <2>5. WholeBlocks(filled, hi, hi) = filled
    <3> DEFINE d == hi - base
    <3>1. base <= hi
      BY <1>2, <2>1
    <3>3. d = hi - base
      OBVIOUS
    <3> HIDE DEF d
    <3>2. filled = Chunk(CvAt(key, flags, counter, w), counter, Block(base, hi), d, w, flags)
      BY <2>3 DEF d, cv
    <3>4. w \in Nat /\ base \in Int /\ base <= hi /\ hi <= base + BLOCK_LEN
      BY <1>2, <2>2, <3>1
    <3> HIDE DEF w, base
    <3> DEFINE result == Chunk(CvAt(key, flags, counter, w), counter, Block(base, hi), d, w, flags)
    <3>5. WholeBlocks(result, hi, hi) = result
      BY <3>3, <3>4, WholeBlocksNone
    <3> QED
      BY <3>2, <3>5, Zenon
  <2>6. w = Whole(hi - L)
    <3>1. w * BLOCK_LEN \in Int /\ base = L + w * BLOCK_LEN
      BY <1>2, Constants DEF base
    <3>2. hi - L \in Nat \ {0} /\ w * BLOCK_LEN < hi - L /\ hi - L <= w * BLOCK_LEN + BLOCK_LEN
      BY <1>0, <1>2, <1>6, <2>1, <2>2, <3>1, Constants
    <3> QED
      BY <1>2, <3>2, WholeUnique
  <2> QED
    BY <1>1, <1>2, <1>3, <1>4, <2>1, <2>3, <2>4, <2>5, <2>6 DEF base, cv
<1>7. CASE lo > L /\ hi - lo > space
  <2> DEFINE end == base + BLOCK_LEN
  <2>1. base < lo /\ take = space /\ lo + take = end /\ end < hi
    <3>1. base < lo /\ base \in Int /\ BLOCK_LEN \in Int
      BY <1>2, <1>7, Constants
    <3> HIDE DEF base
    <3>2. take = space
      BY <1>7, <1>10, <3>1
    <3>3. lo + space = end
      BY <1>10, <3>1
    <3> QED
      BY <1>7, <1>10, <3>1, <3>2, <3>3
  <2>2. filled = Chunk(cv, counter, Block(base, end), BLOCK_LEN, w, flags)
    <3>1. filled = chunk_state_fill_buf(chunk, lo, end)
      BY <2>1
    <3>2. lo <= end /\ end <= base + BLOCK_LEN /\ end \in Int /\ end - base = BLOCK_LEN
      BY <1>2, Constants
    <3> HIDE DEF filled, base, cv, end
    <3> QED
      BY <1>2, <2>1, <3>1, <3>2, FillBuf
  <2>3. Compression(filled, w, filled.buf) = BlockAt(flags, counter, w)
    <3>1. base = counter * CHUNK_LEN + w * BLOCK_LEN
      BY DEF L
    <3>2. filled.buf = Block(base, end)
      BY <2>2 DEF Chunk
    <3> HIDE DEF filled, base, cv
    <3> QED
      BY <1>2, <2>2, <3>1, <3>2, CompressionIs
  <2>4. filled.cv = cv /\ filled.blocks_compressed = w
    <3> HIDE DEF filled
    <3> QED
      BY <2>2 DEF Chunk
  <2>5. Append(cv, BlockAt(flags, counter, w)) = CvAt(key, flags, counter, w + 1)
    BY <1>2, CvAppend
  <2>6. next = NoBuf(compressed)
    <3> HIDE DEF compressed, base, filled
    <3> QED
      BY <1>2, <1>10, <2>1
  <2>7. compressed = [filled EXCEPT !.cv = CvAt(key, flags, counter, w + 1)]
    <3> HIDE DEF filled, cv
    <3> QED
      BY <2>3, <2>4, <2>5
  <2> HIDE DEF compressed, filled, chunk, cv, base
  <2>8. next = Chunk(CvAt(key, flags, counter, w + 1), counter, ZeroBlock, 0, w + 1, flags)
    <3> DEFINE buf == Block(base, end)
               cv2 == CvAt(key, flags, counter, w + 1)
    <3> HIDE DEF buf, cv2
    <3>1. filled = Chunk(cv, counter, buf, BLOCK_LEN, w, flags)
      BY <2>2 DEF buf
    <3>2. compressed = [filled EXCEPT !.cv = cv2]
      BY <2>7 DEF cv2
    <3>3. compressed \in ChunkSet(cv2, counter, buf, BLOCK_LEN, w, flags)
      BY <3>1, <3>2 DEF Chunk, ChunkSet
    <3>4. compressed = Chunk(cv2, counter, buf, BLOCK_LEN, w, flags)
      BY <3>3, ChunkEta
    <3> QED
      BY <2>6, <3>4, ChunkFields DEF cv2
  <2> DEFINE n == Whole(hi - end)
             v == w + 1
  <2>9. end \in Int /\ v \in Nat /\ end = counter * CHUNK_LEN + v * BLOCK_LEN
        /\ w * BLOCK_LEN \in Int /\ v * BLOCK_LEN = w * BLOCK_LEN + BLOCK_LEN
    <3>1. w * BLOCK_LEN \in Int /\ (w + 1) * BLOCK_LEN = w * BLOCK_LEN + BLOCK_LEN
      BY <1>2, Constants
    <3> QED
      BY <1>0, <1>2, <3>1, Constants DEF base, L
  <2>10. n \in Nat /\ n * BLOCK_LEN < hi - end /\ hi - end <= n * BLOCK_LEN + BLOCK_LEN
         /\ n * BLOCK_LEN \in Int
    <3> DEFINE d == hi - end
    <3>1. d \in Nat /\ d > 0
      BY <2>1, <2>9
    <3> HIDE DEF d
    <3>2. Whole(d) \in Nat /\ Whole(d) * BLOCK_LEN < d /\ d <= Whole(d) * BLOCK_LEN + BLOCK_LEN
      BY <3>1, WholeIs
    <3>3. Whole(d) * BLOCK_LEN \in Int
      BY <3>2, Constants
    <3> QED
      BY <3>2, <3>3 DEF d
  <2> HIDE DEF v, end
  <2>11. WholeBlocks(next, end, hi)
           = Chunk(CvAt(key, flags, counter, v + n), counter, Block(end + n * BLOCK_LEN, hi),
                   hi - end - n * BLOCK_LEN, v + n, flags)
    <3>1. next = Chunk(CvAt(key, flags, counter, v), counter, ZeroBlock, 0, v, flags)
      BY <2>8 DEF v
    <3> QED
      BY <2>1, <2>9, <3>1, WholeBlocksIs
  <2> HIDE DEF n
  <2>12. v + n \in Nat /\ (v + n) * BLOCK_LEN = v * BLOCK_LEN + n * BLOCK_LEN
    BY <2>9, <2>10, Constants
  <2>13. L + (v + n) * BLOCK_LEN = end + n * BLOCK_LEN
         /\ hi - (L + (v + n) * BLOCK_LEN) = hi - end - n * BLOCK_LEN
    BY <1>0, <2>9, <2>10, <2>12, Constants DEF L
  <2>14. v + n = Whole(hi - L)
    <3> DEFINE u == v + n
               x == n * BLOCK_LEN
               y == v * BLOCK_LEN
    <3>1. u \in Nat /\ u * BLOCK_LEN = y + x /\ x \in Int /\ y \in Int
      BY <2>9, <2>10, <2>12, Constants
    <3>2. end = L + y
      BY <2>9 DEF L
    <3> HIDE DEF u, x, y
    <3>3. hi - L \in Nat \ {0} /\ u * BLOCK_LEN < hi - L /\ hi - L <= u * BLOCK_LEN + BLOCK_LEN
      <4>1. x < hi - end /\ hi - end <= x + BLOCK_LEN
        BY <2>10 DEF x
      <4>2. hi - L \in Nat \ {0}
        BY <1>0, <1>7
      <4> QED
        BY <1>0, <3>1, <3>2, <4>1, <4>2, Constants
    <3>4. u = Whole(hi - L)
      BY <3>1, <3>3, WholeUnique
    <3> QED
      BY <3>4 DEF u
  <2>15. ChunkAt(key, flags, counter, hi)
           = Chunk(CvAt(key, flags, counter, v + n), counter, Block(L + (v + n) * BLOCK_LEN, hi),
                   hi - (L + (v + n) * BLOCK_LEN), v + n, flags)
    BY <1>4, <2>12, <2>14
  <2> QED
    BY <1>1, <1>3, <2>1, <2>11, <2>13, <2>15
<1>8. lo >= L
  BY <1>0 DEF L
<1> QED
  BY <1>0, <1>5, <1>6, <1>7, <1>8, <1>10

\* A chunk at its start.
LEMMA ChunkInit ==
  ASSUME NEW key, NEW flags, NEW counter \in Nat
  PROVE  chunk_state_init(key, flags, counter) = ChunkAt(key, flags, counter, counter * CHUNK_LEN)
<1> DEFINE L == counter * CHUNK_LEN
           z == 0
<1>1. L \in Int /\ L - L = 0 /\ Whole(0) = 0 /\ 0 * BLOCK_LEN = 0 /\ L + 0 = L /\ 0 - 0 = 0
  BY Constants, WholeIs
<1>2. <<key>> = CvAt(key, flags, counter, 0)
  <2>1. z \in Nat
    OBVIOUS
  <2> HIDE DEF z
  <2> QED
    BY <2>1, CvStart
<1>3. ZeroBlock = Block(L, L)
  BY <1>1, ZeroBlockIs
<1> HIDE DEF L
<1> QED
  BY <1>1, <1>2, <1>3 DEF ChunkAt, L, Chunk, chunk_state_init

\* A chunk's output is the tree's leaf of its bytes, and its length is theirs.
LEMMA ChunkOutput ==
  ASSUME NEW key, NEW flags, NEW counter \in Nat, NEW hi \in Int, counter * CHUNK_LEN <= hi
  PROVE  /\ chunk_state_output(ChunkAt(key, flags, counter, hi))
              = RefChunk(key, flags, counter * CHUNK_LEN, hi)
         /\ chunk_state_len(ChunkAt(key, flags, counter, hi)) = hi - counter * CHUNK_LEN
<1> DEFINE L == counter * CHUNK_LEN
           w == Whole(hi - L)
<1>1. L \in Nat /\ L \div CHUNK_LEN = counter
  BY Constants
<1> HIDE DEF L
<1>2. w \in Nat /\ w * BLOCK_LEN \in Int /\ hi - L \in Nat
  <2>1. hi - L \in Nat
    BY <1>1 DEF L
  <2>2. w \in Nat
    BY <2>1, WholeIs
  <2> HIDE DEF w
  <2> QED
    BY <2>1, <2>2, Constants
<1> DEFINE chunk == ChunkAt(key, flags, counter, hi)
<1>3. chunk = Chunk(CvAt(key, flags, counter, w), counter, Block(L + w * BLOCK_LEN, hi),
                    hi - L - w * BLOCK_LEN, w, flags)
  BY DEF ChunkAt, L
<1>4. w = IF hi = L THEN 0 ELSE (hi - L - 1) \div BLOCK_LEN
  BY <1>1 DEF Whole
<1> HIDE DEF w
<1>5. hi - (L + w * BLOCK_LEN) = hi - L - w * BLOCK_LEN
  BY <1>1, <1>2
<1>6. <<key>> \o [b \in 1 .. w |->
                   <<flags \cup (IF b - 1 = 0 THEN {"CHUNK_START"} ELSE {}), Halves(counter), BLOCK_LEN,
                     Block(L + (b - 1) * BLOCK_LEN, L + b * BLOCK_LEN)>>]
        = CvAt(key, flags, counter, w)
  <2>1. \A b \in 1 .. w : (b - 1) + 1 = b
    BY <1>2
  <2>2. [b \in 1 .. w |->
           <<flags \cup (IF b - 1 = 0 THEN {"CHUNK_START"} ELSE {}), Halves(counter), BLOCK_LEN,
             Block(L + (b - 1) * BLOCK_LEN, L + b * BLOCK_LEN)>>]
        = BlocksAt(flags, counter, 0, w)
    BY <1>2, <2>1 DEF BlockAt, BlocksAt, chunk_state_maybe_start_flag, L
  <2> QED
    BY <1>2, <2>2, CvStart
<1>7. RefChunk(key, flags, L, hi)
        = [cv |-> <<key>> \o [b \in 1 .. w |->
                   <<flags \cup (IF b - 1 = 0 THEN {"CHUNK_START"} ELSE {}), Halves(counter), BLOCK_LEN,
                     Block(L + (b - 1) * BLOCK_LEN, L + b * BLOCK_LEN)>>],
           block |-> Block(L + w * BLOCK_LEN, hi), len |-> hi - (L + w * BLOCK_LEN),
           counter |-> counter,
           flags |-> flags \cup (IF w = 0 THEN {"CHUNK_START"} ELSE {}) \cup {"CHUNK_END"}]
  BY <1>1, <1>4, Zenon DEF RefChunk
<1>8. chunk_state_output(chunk) = RefChunk(key, flags, L, hi)
  <2> DEFINE cv == CvAt(key, flags, counter, w)
             buf == Block(L + w * BLOCK_LEN, hi)
             len == hi - L - w * BLOCK_LEN
  <2>1. chunk.cv = cv /\ chunk.buf = buf /\ chunk.buf_len = len /\ chunk.chunk_counter = counter
        /\ chunk.flags = flags /\ chunk.blocks_compressed = w
    BY <1>3, ChunkFields
  <2>2. RefChunk(key, flags, L, hi)
          = [cv |-> cv, block |-> buf, len |-> len, counter |-> counter,
             flags |-> flags \cup (IF w = 0 THEN {"CHUNK_START"} ELSE {}) \cup {"CHUNK_END"}]
    BY <1>5, <1>6, <1>7
  <2> HIDE DEF cv, buf, len, chunk
  <2> QED
    BY <2>1, <2>2 DEF chunk_state_output, make_output, chunk_state_maybe_start_flag
<1>9. chunk_state_len(chunk) = hi - L
  <2>1. chunk_state_len(chunk) = BLOCK_LEN * w + (hi - L - w * BLOCK_LEN)
    BY <1>3 DEF chunk_state_len, Chunk
  <2>2. BLOCK_LEN * w = w * BLOCK_LEN
    BY <1>2, Constants
  <2> QED
    BY <1>1, <1>2, <2>1, <2>2
<1> QED
  BY <1>8, <1>9 DEF L

----------------------------------------------------------------------------
(* Nodes side by side *)

\* A product of powers of two is one.
LEMMA PowerProduct ==
  ASSUME NEW p, NEW q, IsPower(p), IsPower(q)
  PROVE  IsPower(p * q)
<1> DEFINE I == {x \in Nat : IsPower(x) => IsPower(x * q)}
<1>0. q \in Nat \ {0} /\ p \in Nat
  BY DEF IsPower
<1>1. ASSUME NEW x \in Nat, \A y \in Nat : y < x => y \in I PROVE x \in I
  <2> SUFFICES ASSUME IsPower(x) PROVE IsPower(x * q)
    OBVIOUS
  <2>1. x > 0
    BY DEF IsPower
  <2>2. CASE x = 1
    <3>1. x * q = q
      BY <1>0, <2>2
    <3> QED
      BY <3>1
  <2>3. CASE x > 1
    <3> DEFINE y == x \div 2
    <3>1. y \in Nat /\ x = 2 * y /\ IsPower(y) /\ y < x
      BY <2>3, PowerHalf
    <3> HIDE DEF y
    <3>2. IsPower(y * q)
      BY <1>1, <3>1
    <3>3. x * q = 2 * (y * q)
      BY <1>0, <3>1
    <3> QED
      BY <3>2, <3>3, PowerDouble
  <2> QED
    BY <2>1, <2>2, <2>3
<1>2. Nat \subseteq I
  <2> HIDE DEF I
  <2> QED
    BY <1>1, StrongInduction
<1> QED
  BY <1>0, <1>2

\* The powers up to 16.
LEMMA PowerSmall ==
  ASSUME NEW p, IsPower(p), p <= 16
  PROVE  p \in {1, 2, 4, 8, 16}
<1>1. p \in 1 .. 16
  BY DEF IsPower
<1>2. ASSUME p > 1 PROVE p \in {2, 4, 8, 16} \/ p % 2 = 1 \/ (p \div 2) \in {3, 5, 6, 7}
  BY <1>1, <1>2
<1>3. p > 1 => p % 2 = 0 /\ IsPower(p \div 2) /\ p \div 2 \in 1 .. 8
  BY <1>1, PowerHalf
<1>4. ASSUME NEW q \in {3, 5, 6, 7} PROVE ~ IsPower(q)
  <2> SUFFICES ASSUME IsPower(q) PROVE FALSE
    OBVIOUS
  <2>0. q > 1 /\ q \in Nat
    OBVIOUS
  <2> DEFINE h == q \div 2
  <2>1. q = 2 * h /\ IsPower(h)
    BY <2>0, PowerHalf
  <2>2. h = 3 /\ h > 1
    BY <2>1
  <2> HIDE DEF h
  <2>3. h = 2 * (h \div 2)
    BY <2>1, <2>2, PowerHalf
  <2> QED
    BY <2>2, <2>3
<1> QED
  BY <1>1, <1>2, <1>3, <1>4

\* A left part is the power of two from half of the node up to all but a byte of it.
LEMMA LeftLenIs ==
  ASSUME NEW p, IsPower(p), CHUNK_LEN <= p, NEW n \in Nat, p < n, n <= 2 * p, n <= MaxTotal
  PROVE  LeftLen(n) = p
<1>1. p \in Nat \ {0}
  BY DEF IsPower
<1>2. LeftLen(n) \in Nat /\ IsPower(LeftLen(n)) /\ CHUNK_LEN <= LeftLen(n) /\ LeftLen(n) < n
      /\ n <= 2 * LeftLen(n)
  BY <1>1, Constants, LeftLenDef
<1>3. ~ (p < LeftLen(n))
  <2> SUFFICES ASSUME p < LeftLen(n) PROVE FALSE
    OBVIOUS
  <2>1. 2 * p <= LeftLen(n)
    BY <1>2, PowerMultiple
  <2> QED
    BY <1>1, <1>2, <2>1
<1>4. ~ (LeftLen(n) < p)
  <2> SUFFICES ASSUME LeftLen(n) < p PROVE FALSE
    OBVIOUS
  <2>1. 2 * LeftLen(n) <= p
    BY <1>2, PowerMultiple
  <2> QED
    BY <1>1, <1>2, <2>1
<1> QED
  BY <1>1, <1>2, <1>3, <1>4

\* A node whose left half is as large as it can be.
LEMMA ParentNode ==
  ASSUME NEW key, NEW flags, NEW lo \in Nat, NEW mid \in Nat, NEW hi \in Nat,
         NEW p, p = mid - lo, IsPower(p), CHUNK_LEN <= p, mid < hi, hi - mid <= p, hi <= MaxTotal
  PROVE  RefTree(key, flags)[<<lo, hi>>]
           = parent_output(Value(key, flags, lo, mid), Value(key, flags, mid, hi), key, flags)
<1>1. p \in Nat \ {0} /\ hi - lo \in Nat /\ p < hi - lo /\ hi - lo <= 2 * p /\ hi - lo <= MaxTotal
      /\ lo \in 0 .. MaxTotal /\ hi \in 0 .. MaxTotal /\ ~ (hi - lo <= CHUNK_LEN) /\ lo + p = mid
  BY Constants DEF IsPower
<1>2. LeftLen(hi - lo) = p
  BY <1>1, LeftLenIs
<1> QED
  BY <1>1, <1>2, RefTreeDef DEF Value

\* Two chaining values compressed together are the parent's value.
LEMMA ParentValue ==
  ASSUME NEW left, NEW right, NEW key, NEW flags
  PROVE  Blocks(key, <<<<left, right>>>>, Halves(0),
                [all |-> flags \cup {"PARENT"}, start |-> {}, end |-> {}])
           = output_chaining_value(parent_output(left, right, key, flags))
<1> DEFINE f == flags \cup {"PARENT"}
           x == <<f, Halves(0), BLOCK_LEN, <<left, right>>>>
<1>1. f \cup {} \cup {} = f
  OBVIOUS
<1>2. Blocks(key, <<<<left, right>>>>, Halves(0), [all |-> f, start |-> {}, end |-> {}])
        = <<key>> \o [b \in 1 .. 1 |-> x]
  BY <1>1 DEF Blocks
<1>3. output_chaining_value(parent_output(left, right, key, flags)) = Append(<<key>>, x)
  BY DEF output_chaining_value, parent_output, make_output
<1> HIDE DEF x
<1>4. Append(<<key>>, x) = <<key>> \o [b \in 1 .. 1 |-> x]
  OBVIOUS
<1> QED
  BY <1>2, <1>3, <1>4

\* So many nodes of q chunks from a chunk on.
Nodes(key, flags, counter, q, n) ==
  [i \in 1 .. n |-> Value(key, flags, (counter + (i - 1) * q) * CHUNK_LEN,
                          (counter + i * q) * CHUNK_LEN)]

\* A chunk hashed whole has the value of the tree's leaf.
LEMMA ChunkValueIs ==
  ASSUME NEW key, NEW flags, NEW all, NEW counter \in Nat, (counter + 1) * CHUNK_LEN <= MaxTotal,
         NEW input, all = [all |-> flags, start |-> {"CHUNK_START"}, end |-> {"CHUNK_END"}],
         input = [b \in 1 .. CHUNK_LEN \div BLOCK_LEN |->
                   Block(counter * CHUNK_LEN + (b - 1) * BLOCK_LEN,
                         counter * CHUNK_LEN + (b - 1) * BLOCK_LEN + BLOCK_LEN)]
  PROVE  Blocks(key, input, Halves(counter), all)
           = Value(key, flags, counter * CHUNK_LEN, (counter + 1) * CHUNK_LEN)
<1> DEFINE L == counter * CHUNK_LEN
           m == CHUNK_LEN \div BLOCK_LEN
           H == (counter + 1) * CHUNK_LEN
           last == <<flags \cup chunk_state_maybe_start_flag(m - 1) \cup {"CHUNK_END"}, Halves(counter),
                     BLOCK_LEN, Block(L + (m - 1) * BLOCK_LEN, H)>>
<1>1. L \in Nat /\ H \in Nat /\ H = L + CHUNK_LEN /\ L \in 0 .. MaxTotal /\ H \in 0 .. MaxTotal
  BY Constants
<1>2. m \in Nat \ {0} /\ CHUNK_LEN = m * BLOCK_LEN
  BY Constants
<1> HIDE DEF m
<1>3. (m - 1) * BLOCK_LEN = CHUNK_LEN - BLOCK_LEN /\ (m - 1) * BLOCK_LEN \in Nat
  <2>1. (m - 1) * BLOCK_LEN = m * BLOCK_LEN - BLOCK_LEN /\ m - 1 \in Nat
    BY <1>2, Constants
  <2> QED
    BY <1>2, <2>1, Constants
<1>4. Whole(H - L) = m - 1
  <2>1. H - L = CHUNK_LEN /\ CHUNK_LEN \in Nat \ {0} /\ m - 1 \in Nat
    BY <1>1, <1>2, Constants
  <2>2. (m - 1) * BLOCK_LEN < CHUNK_LEN /\ CHUNK_LEN <= (m - 1) * BLOCK_LEN + BLOCK_LEN
    BY <1>3, Constants
  <2> QED
    BY <2>1, <2>2, WholeUnique
<1> DEFINE w == m - 1
           cv == CvAt(key, flags, counter, w)
<1>5. ChunkAt(key, flags, counter, H) = Chunk(cv, counter, Block(L + w * BLOCK_LEN, H), BLOCK_LEN, w, flags)
  <2>1. H - L - w * BLOCK_LEN = BLOCK_LEN
    BY <1>1, <1>3, Constants
  <2> QED
    BY <1>4, <2>1 DEF ChunkAt
<1> DEFINE chunk == ChunkAt(key, flags, counter, H)
           buf == Block(L + w * BLOCK_LEN, H)
<1>6. RefTree(key, flags)[<<L, H>>] = chunk_state_output(chunk)
  <2>1. H - L <= CHUNK_LEN /\ counter * CHUNK_LEN <= H /\ H \in Int
    BY <1>1, Constants
  <2>2. RefTree(key, flags)[<<L, H>>] = RefChunk(key, flags, L, H)
    BY <1>1, <2>1, RefTreeDef
  <2> HIDE DEF H
  <2> QED
    BY <2>1, <2>2, ChunkOutput
<1>7. output_chaining_value(chunk_state_output(chunk)) = Append(cv, last)
  <2>1. chunk = Chunk(cv, counter, buf, BLOCK_LEN, w, flags)
    BY <1>5
  <2> HIDE DEF chunk, cv, buf, w
  <2>2. chunk.cv = cv /\ chunk.buf = buf /\ chunk.buf_len = BLOCK_LEN /\ chunk.chunk_counter = counter
        /\ chunk.flags = flags /\ chunk.blocks_compressed = w
    BY <2>1, ChunkFields
  <2>3. last = <<flags \cup chunk_state_maybe_start_flag(w) \cup {"CHUNK_END"}, Halves(counter), BLOCK_LEN, buf>>
    BY DEF w, buf
  <2> HIDE DEF last
  <2> QED
    BY <2>2, <2>3 DEF output_chaining_value, chunk_state_output, make_output
<1>8. Len(input) = m /\ \A b \in 1 .. m : input[b] = Block(L + (b - 1) * BLOCK_LEN, L + (b - 1) * BLOCK_LEN + BLOCK_LEN)
  BY <1>2 DEF m
<1> DEFINE F(b) ==
                  <<flags \cup (IF b = 1 THEN {"CHUNK_START"} ELSE {}) \cup (IF b = m THEN {"CHUNK_END"} ELSE {}),
                    Halves(counter), BLOCK_LEN, input[b]>>
           f == [b \in 1 .. m |-> F(b)]
<1>9. Blocks(key, input, Halves(counter), all) = <<key>> \o f
  <2>1. all.all = flags /\ all.start = {"CHUNK_START"} /\ all.end = {"CHUNK_END"}
    OBVIOUS
  <2> DEFINE G(n) == [b \in 1 .. n |->
                         <<all.all \cup (IF b = 1 THEN all.start ELSE {})
                                  \cup (IF b = n THEN all.end ELSE {}), Halves(counter), BLOCK_LEN, input[b]>>]
  <2>2. Blocks(key, input, Halves(counter), all) = <<key>> \o G(Len(input))
    BY Zenon DEF Blocks
  <2>3. G(m) = f
    BY <2>1
  <2> HIDE DEF G, f
  <2> QED
    BY <1>8, <2>2, <2>3
<1>10. ASSUME NEW b \in 1 .. m, b # m PROVE f[b] = BlockAt(flags, counter, b - 1)
  <2>1. (b - 1 = 0) <=> b = 1
    BY <1>2
  <2>2. (b - 1) + 1 = b /\ L + (b - 1) * BLOCK_LEN + BLOCK_LEN = L + b * BLOCK_LEN
    BY <1>1, <1>2, Constants
  <2>3. flags \cup (IF b = 1 THEN {"CHUNK_START"} ELSE {}) \cup {}
          = flags \cup (IF b - 1 = 0 THEN {"CHUNK_START"} ELSE {})
    BY <2>1
  <2>4. input[b] = Block(L + (b - 1) * BLOCK_LEN, L + b * BLOCK_LEN)
    BY <1>8, <2>2
  <2>5. f[b] = <<flags \cup (IF b = 1 THEN {"CHUNK_START"} ELSE {}) \cup {}, Halves(counter), BLOCK_LEN, input[b]>>
    BY <1>10
  <2> QED
    BY <2>2, <2>3, <2>4, <2>5 DEF BlockAt, chunk_state_maybe_start_flag
<1>11. f[m] = last
  <2>1. (m - 1 = 0) <=> m = 1
    BY <1>2
  <2>2. L + (m - 1) * BLOCK_LEN + BLOCK_LEN = H
    BY <1>1, <1>3, Constants
  <2>3. m \in 1 .. m
    BY <1>2
  <2> QED
    BY <1>8, <2>1, <2>2, <2>3 DEF chunk_state_maybe_start_flag
<1>13. f = [b \in 1 .. m |-> f[b]]
  <2> HIDE DEF F
  <2> QED
    OBVIOUS
<1> HIDE DEF f, last
<1>12. <<key>> \o f = Append(cv, last)
  <2>1. cv = [i \in 1 .. m |-> IF i = 1 THEN key ELSE BlockAt(flags, counter, i - 2)]
    <3>1. w + 1 = m
      BY <1>2
    <3> QED
      BY <3>1 DEF CvAt
  <2> HIDE DEF cv
  <2>2. DOMAIN f = 1 .. m
    BY <1>13
  <2>3. \A i \in 2 .. m : f[i - 1] = BlockAt(flags, counter, i - 2)
    <3> SUFFICES ASSUME NEW i \in 2 .. m PROVE f[i - 1] = BlockAt(flags, counter, i - 2)
      OBVIOUS
    <3>1. i - 1 \in 1 .. m /\ i - 1 # m /\ (i - 1) - 1 = i - 2
      BY <1>2
    <3>2. f[i - 1] = BlockAt(flags, counter, (i - 1) - 1)
      BY <1>10, <3>1
    <3> QED
      BY <3>1, <3>2
  <2>4. Append(cv, last) = [i \in 1 .. m + 1 |-> IF i = m + 1 THEN last ELSE cv[i]]
    BY <1>2, <2>1
  <2>5. <<key>> \o f = [i \in 1 .. m + 1 |-> IF i = 1 THEN key ELSE f[i - 1]]
    BY <1>2, <1>13
  <2>6. \A i \in 1 .. m + 1 : (IF i = m + 1 THEN last ELSE cv[i]) = IF i = 1 THEN key ELSE f[i - 1]
    BY <1>2, <1>11, <2>1, <2>3
  <2> QED
    BY <2>4, <2>5, <2>6
<1> QED
  BY <1>6, <1>7, <1>9, <1>12 DEF Value

\* compress_chunks_parallel(), on whole chunks, has the leaves' values.
LEMMA ChunksParallel ==
  ASSUME NEW key, NEW flags, NEW counter \in Nat, NEW n \in Nat, NEW lo, NEW hi,
         lo = counter * CHUNK_LEN, hi = (counter + n) * CHUNK_LEN, hi <= MaxTotal
  PROVE  compress_chunks_parallel(lo, hi, key, counter, flags) = Nodes(key, flags, counter, 1, n)
<1> DEFINE all == [all |-> flags, start |-> {"CHUNK_START"}, end |-> {"CHUNK_END"}]
           input(i) == [b \in 1 .. CHUNK_LEN \div BLOCK_LEN |->
                         LET at == lo + (i - 1) * CHUNK_LEN + (b - 1) * BLOCK_LEN
                         IN Block(at, at + BLOCK_LEN)]
           whole == [i \in 1 .. n |-> input(i)]
<1>1. lo \in Nat /\ hi \in Nat /\ hi = lo + n * CHUNK_LEN /\ n * CHUNK_LEN \in Nat
      /\ (n * CHUNK_LEN) \div CHUNK_LEN = n
  BY Constants
<1>2. (hi - lo) \div CHUNK_LEN = n /\ lo + n * CHUNK_LEN = hi
  <2>1. hi - lo = n * CHUNK_LEN
    BY <1>1
  <2> QED
    BY <1>1, <2>1
<1>3. compress_chunks_parallel(lo, hi, key, counter, flags)
        = blake3_hash_many(whole, key, counter, TRUE, all) \o <<>>
  <2> DEFINE whole0 == [i \in 1 .. (hi - lo) \div CHUNK_LEN |-> input(i)]
  <2>1. compress_chunks_parallel(lo, hi, key, counter, flags)
          = blake3_hash_many(whole0, key, counter, TRUE, all)
            \o (IF lo + ((hi - lo) \div CHUNK_LEN) * CHUNK_LEN = hi THEN <<>>
                ELSE <<ChunkValue(lo + ((hi - lo) \div CHUNK_LEN) * CHUNK_LEN, hi, key,
                                  counter + ((hi - lo) \div CHUNK_LEN), flags)>>)
    BY Zenon DEF compress_chunks_parallel
  <2>2. whole0 = whole
    <3> HIDE DEF input
    <3> QED
      BY <1>2
  <2> HIDE DEF whole0, whole, all
  <2> QED
    BY <1>2, <2>1, <2>2
<1>4. Len(whole) = n /\ \A i \in 1 .. n : whole[i] = input(i)
  <2> HIDE DEF input
  <2> QED
    OBVIOUS
<1>5. ASSUME NEW i \in 1 .. n
      PROVE  Blocks(key, whole[i], Halves(counter + i - 1), all)
               = Value(key, flags, (counter + (i - 1) * 1) * CHUNK_LEN, (counter + i * 1) * CHUNK_LEN)
  <2> DEFINE c == counter + i - 1
             in == [b \in 1 .. CHUNK_LEN \div BLOCK_LEN |->
                     Block(c * CHUNK_LEN + (b - 1) * BLOCK_LEN,
                           c * CHUNK_LEN + (b - 1) * BLOCK_LEN + BLOCK_LEN)]
  <2>1. c \in Nat /\ c + 1 = counter + i /\ c * CHUNK_LEN = lo + (i - 1) * CHUNK_LEN
        /\ (c + 1) * CHUNK_LEN \in Nat
    BY Constants
  <2>2. (c + 1) * CHUNK_LEN <= hi
    <3>1. c + 1 <= counter + n /\ counter + n \in Int /\ c + 1 \in Int
      OBVIOUS
    <3> HIDE DEF c
    <3> QED
      BY <3>1, Constants, Cancel
  <2>3. input(i) = in
    <3> HIDE DEF c
    <3> QED
      BY <2>1
  <2> HIDE DEF input, whole, all, in
  <2>4. whole[i] = in
    BY <1>4, <2>3
  <2>5. (c + 1) * CHUNK_LEN <= MaxTotal
    BY <1>1, <2>1, <2>2, Constants
  <2> HIDE DEF c
  <2>6. Blocks(key, in, Halves(c), all) = Value(key, flags, c * CHUNK_LEN, (c + 1) * CHUNK_LEN)
    BY <2>1, <2>5, ChunkValueIs DEF in, all
  <2>7. counter + (i - 1) * 1 = c /\ counter + i * 1 = c + 1 /\ counter + i - 1 = c
    BY DEF c
  <2> QED
    BY <2>4, <2>6, <2>7
<1>6. blake3_hash_many(whole, key, counter, TRUE, all) = Nodes(key, flags, counter, 1, n)
  <2> HIDE DEF whole, all
  <2> DEFINE l == Len(whole)
  <2>0. l = n /\ l \in Nat
    BY <1>4
  <2>2. blake3_hash_many(whole, key, counter, TRUE, all)
          = [i \in 1 .. l |-> Blocks(key, whole[i], Halves(counter + i - 1), all)]
    <3>1. blake3_hash_many(whole, key, counter, TRUE, all) = Counting(whole, key, counter, all)
      BY <2>0, HashManyIs
    <3> QED
      BY <3>1, Zenon DEF Counting
  <2>1. blake3_hash_many(whole, key, counter, TRUE, all)
          = [i \in 1 .. n |-> Blocks(key, whole[i], Halves(counter + i - 1), all)]
    <3> HIDE DEF l
    <3> QED
      BY <2>0, <2>2
  <2> QED
    BY <1>5, <2>1 DEF Nodes
<1> HIDE DEF whole, all
<1>7. Nodes(key, flags, counter, 1, n) \o <<>> = Nodes(key, flags, counter, 1, n)
  BY DEF Nodes
<1> QED
  BY <1>3, <1>6, <1>7

\* compress_parents_parallel(), on pairs of nodes, has the values a level up.
LEMMA ParentsParallel ==
  ASSUME NEW key, NEW flags, NEW counter \in Nat, NEW q, IsPower(q), NEW n \in Nat,
         (counter + q * (2 * n)) * CHUNK_LEN <= MaxTotal
  PROVE  compress_parents_parallel(Nodes(key, flags, counter, q, 2 * n), key, flags)
           = Nodes(key, flags, counter, 2 * q, n)
<1> DEFINE cvs == Nodes(key, flags, counter, q, 2 * n)
           all == [all |-> flags \cup {"PARENT"}, start |-> {}, end |-> {}]
           pairs == [i \in 1 .. n |-> <<<<cvs[2 * i - 1], cvs[2 * i]>>>>]
           V(a, b) == Value(key, flags, a * CHUNK_LEN, b * CHUNK_LEN)
<1>0. q \in Nat \ {0}
  BY DEF IsPower
<1>1. Len(cvs) = 2 * n /\ Len(cvs) \div 2 = n
      /\ \A i \in 1 .. 2 * n : cvs[i] = V(counter + (i - 1) * q, counter + i * q)
  BY DEF Nodes
<1> HIDE DEF cvs
<1>2. compress_parents_parallel(cvs, key, flags)
        = blake3_hash_many(pairs, key, 0, FALSE, all) \o SubSeq(cvs, 2 * n + 1, Len(cvs))
  <2> DEFINE pairs0 == [i \in 1 .. Len(cvs) \div 2 |-> <<<<cvs[2 * i - 1], cvs[2 * i]>>>>]
  <2>1. compress_parents_parallel(cvs, key, flags)
          = blake3_hash_many(pairs0, key, 0, FALSE, all)
            \o SubSeq(cvs, 2 * (Len(cvs) \div 2) + 1, Len(cvs))
    BY Zenon DEF compress_parents_parallel
  <2>2. pairs0 = pairs
    BY <1>1
  <2> HIDE DEF pairs0, pairs, all
  <2> QED
    BY <1>1, <2>1, <2>2
<1>3. SubSeq(cvs, 2 * n + 1, Len(cvs)) = <<>>
  BY <1>1
<1>4. ASSUME NEW i \in 1 .. n
      PROVE  Blocks(key, pairs[i], Halves(0), all) = V(counter + (i - 1) * (2 * q), counter + i * (2 * q))
  <2> DEFINE a == counter + (i - 1) * (2 * q)
             x == (2 * i - 1) * q
  <2>1. a \in Nat /\ (i - 1) * (2 * q) = x - q /\ i * (2 * q) = x + q /\ x \in Nat
        /\ (2 * i - 1 - 1) * q = x - q /\ (2 * i) * q = x + q
    BY <1>0
  <2>2. counter + (2 * i - 1) * q = a + q /\ counter + (2 * i - 1 - 1) * q = a
        /\ counter + (2 * i) * q = a + 2 * q /\ counter + i * (2 * q) = a + 2 * q
    BY <1>0, <2>1
  <2> HIDE DEF V, x
  <2>3. cvs[2 * i - 1] = V(a, a + q) /\ cvs[2 * i] = V(a + q, a + 2 * q)
    <3>1. 2 * i - 1 \in 1 .. 2 * n /\ 2 * i \in 1 .. 2 * n
      OBVIOUS
    <3>2. cvs[2 * i - 1] = V(counter + (2 * i - 1 - 1) * q, counter + (2 * i - 1) * q)
      BY <1>1, <3>1
    <3>3. cvs[2 * i] = V(counter + (2 * i - 1) * q, counter + (2 * i) * q)
      BY <1>1, <3>1
    <3> HIDE DEF a
    <3> QED
      BY <2>2, <3>2, <3>3
  <2> HIDE DEF a
  <2>4. Blocks(key, pairs[i], Halves(0), all)
          = output_chaining_value(parent_output(V(a, a + q), V(a + q, a + 2 * q), key, flags))
    <3>1. pairs[i] = <<<<V(a, a + q), V(a + q, a + 2 * q)>>>>
      BY <2>3
    <3> HIDE DEF pairs
    <3> QED
      BY <3>1, ParentValue
  <2>5. V(a, a + 2 * q) = output_chaining_value(parent_output(V(a, a + q), V(a + q, a + 2 * q), key, flags))
    <3> DEFINE lo == a * CHUNK_LEN
               mid == (a + q) * CHUNK_LEN
               hi == (a + 2 * q) * CHUNK_LEN
               p == q * CHUNK_LEN
    <3>1. lo \in Nat /\ mid \in Nat /\ hi \in Nat /\ p \in Nat /\ mid = lo + p /\ hi = mid + p
          /\ CHUNK_LEN <= p
      BY <1>0, <2>1, Constants
    <3>2. hi <= MaxTotal
      <4> DEFINE top == counter + q * (2 * n)
      <4>1. a + 2 * q <= top /\ top \in Int /\ a + 2 * q \in Int
        <5>1. i * (2 * q) <= n * (2 * q)
          BY <1>0, Cancel
        <5>2. n * (2 * q) = q * (2 * n) /\ n * (2 * q) \in Int /\ i * (2 * q) \in Int
          BY <1>0
        <5> QED
          BY <2>2, <5>1, <5>2
      <4> HIDE DEF top
      <4>2. hi <= top * CHUNK_LEN
        BY <4>1, Constants, Cancel
      <4>3. top * CHUNK_LEN <= MaxTotal /\ top * CHUNK_LEN \in Int
        BY <4>1, Constants DEF top
      <4> QED
        BY <3>1, <4>2, <4>3, Constants
    <3>3. IsPower(p)
      BY Constants, PowerProduct
    <3> HIDE DEF lo, mid, hi, p
    <3>4. RefTree(key, flags)[<<lo, hi>>]
            = parent_output(Value(key, flags, lo, mid), Value(key, flags, mid, hi), key, flags)
      <4>1. p = mid - lo /\ mid < hi /\ hi - mid <= p
        BY <3>1, Constants
      <4> QED
        BY <3>1, <3>2, <3>3, <4>1, ParentNode
    <3> QED
      BY <3>4, Zenon DEF V, Value, lo, mid, hi
  <2> QED
    BY <2>2, <2>4, <2>5 DEF a
<1>5. blake3_hash_many(pairs, key, 0, FALSE, all) = Nodes(key, flags, counter, 2 * q, n)
  <2>1. Len(pairs) = n
    OBVIOUS
  <2> HIDE DEF pairs, all
  <2> DEFINE zero == 0
  <2>2. zero \in Nat
    OBVIOUS
  <2> HIDE DEF zero
  <2> DEFINE l == Len(pairs)
  <2>4. l = n /\ l \in Nat
    BY <2>1
  <2>5. blake3_hash_many(pairs, key, zero, FALSE, all) = [i \in 1 .. l |-> Blocks(key, pairs[i], Halves(zero), all)]
    <3>1. blake3_hash_many(pairs, key, zero, FALSE, all) = Alike(pairs, key, zero, all)
      BY <2>2, <2>4, HashManyIs
    <3> QED
      BY <3>1, Zenon DEF Alike
  <2>3. blake3_hash_many(pairs, key, zero, FALSE, all) = [i \in 1 .. n |-> Blocks(key, pairs[i], Halves(zero), all)]
    <3> HIDE DEF l
    <3> QED
      BY <2>4, <2>5
  <2> QED
    BY <1>4, <2>3 DEF Nodes, zero
<1> HIDE DEF pairs, all
<1>6. Nodes(key, flags, counter, 2 * q, n) \o <<>> = Nodes(key, flags, counter, 2 * q, n)
  BY DEF Nodes
<1> QED
  BY <1>2, <1>3, <1>5, <1>6 DEF cvs

\* The values of two halves, in the two parts of one array.
LEMMA SideBySide ==
  ASSUME NEW key, NEW flags, NEW counter \in Nat, NEW q \in Nat, NEW n \in Nat,
         NEW next, next = counter + n * q
  PROVE  Side(Nodes(key, flags, counter, q, n), Nodes(key, flags, next, q, n), n)
           = Nodes(key, flags, counter, q, 2 * n)
<1> DEFINE left == Nodes(key, flags, counter, q, n)
           right == Nodes(key, flags, next, q, n)
           V(a, b) == Value(key, flags, a * CHUNK_LEN, b * CHUNK_LEN)
<1>1. /\ Len(left) = n /\ Len(right) = n
      /\ \A i \in 1 .. n : left[i] = V(counter + (i - 1) * q, counter + i * q)
      /\ \A i \in 1 .. n : right[i] = V(next + (i - 1) * q, next + i * q)
  BY DEF Nodes
<1> HIDE DEF left, right, V
<1>2. ASSUME NEW i \in n + 1 .. 2 * n
      PROVE  right[i - n] = V(counter + (i - 1) * q, counter + i * q)
  <2>1. i - n \in 1 .. n
    OBVIOUS
  <2>2. (i - n - 1) * q = (i - 1) * q - n * q /\ (i - n) * q = i * q - n * q
        /\ n * q \in Int /\ (i - 1) * q \in Int /\ i * q \in Int
    OBVIOUS
  <2>3. next + (i - n - 1) * q = counter + (i - 1) * q /\ next + (i - n) * q = counter + i * q
    BY <2>2
  <2>4. right[i - n] = V(next + (i - n - 1) * q, next + (i - n) * q)
    BY <1>1, <2>1
  <2> QED
    BY <2>3, <2>4
<1>3. Side(left, right, n) = [i \in 1 .. 2 * n |-> IF i \in n + 1 .. 2 * n THEN right[i - n] ELSE left[i]]
  BY <1>1 DEF Side
<1>4. Side(left, right, n) = [i \in 1 .. 2 * n |-> V(counter + (i - 1) * q, counter + i * q)]
  BY <1>1, <1>2, <1>3
<1> QED
  BY <1>4 DEF Nodes, V, left, right

\* Two powers within a factor of two of one another are the same.
LEMMA PowerBetween ==
  ASSUME NEW p, NEW q, IsPower(p), IsPower(q), p < 2 * q, q < 2 * p
  PROVE  p = q
<1>1. p \in Nat \ {0} /\ q \in Nat \ {0}
  BY DEF IsPower
<1>2. ~ (p < q)
  BY <1>1, PowerMultiple
<1>3. ~ (q < p)
  <2> SUFFICES ASSUME q < p PROVE FALSE
    OBVIOUS
  <2>1. 2 * q <= p
    BY PowerMultiple
  <2> QED
    BY <1>1, <2>1
<1> QED
  BY <1>1, <1>2, <1>3

\* The left half of so many chunks, a power of two of them.
LEMMA LeftSubtreeIs ==
  ASSUME NEW q, IsPower(q), q > 1, NEW len, len = q * CHUNK_LEN
  PROVE  left_subtree_len(len) = (q \div 2) * CHUNK_LEN
<1> DEFINE h == q \div 2
           l == left_subtree_len(len)
           p == l \div CHUNK_LEN
<1>1. q \in Nat \ {0} /\ h \in Nat \ {0} /\ q = 2 * h /\ IsPower(h)
  BY PowerHalf DEF IsPower
<1>2. len \in Nat /\ CHUNK_LEN < len
  <2>1. 1 * CHUNK_LEN < q * CHUNK_LEN
    BY <1>1, Constants, Cancel
  <2> QED
    BY <1>1, <2>1, Constants
<1>3. /\ l \in Nat \ {0} /\ IsPower(p) /\ l = CHUNK_LEN * p /\ l < len /\ len <= 2 * l
  BY <1>2, LeftSubtree
<1> HIDE DEF h, l, p
<1>4. p \in Nat \ {0}
  BY <1>3 DEF IsPower
<1>5. l = p * CHUNK_LEN /\ 2 * l = (2 * p) * CHUNK_LEN
  BY <1>3, <1>4, Constants
<1>6. p < q /\ q <= 2 * p
  <2>1. p * CHUNK_LEN < q * CHUNK_LEN /\ q * CHUNK_LEN <= (2 * p) * CHUNK_LEN
    BY <1>3, <1>5
  <2>2. 2 * p \in Int
    BY <1>4
  <2> QED
    BY <1>1, <1>4, <2>1, <2>2, Constants, Cancel
<1>7. p = h
  <2>1. h < 2 * p
    BY <1>1, <1>4, <1>6
  <2>2. p < 2 * h
    BY <1>1, <1>6
  <2> QED
    BY <1>1, <1>3, <2>1, <2>2, PowerBetween
<1> QED
  BY <1>5, <1>7 DEF h, l

\* How many values a wide subtree of q chunks comes to.
Many(q) == IF q <= blake3_simd_degree THEN q
           ELSE IF blake3_simd_degree = 1 THEN 2 ELSE blake3_simd_degree

\* The degree is a power of two.
LEMMA DegreePower == IsPower(blake3_simd_degree)
<1>1. IsPower(1) /\ IsPower(2) /\ IsPower(4) /\ IsPower(8) /\ IsPower(16)
  <2>1. IsPower(1)
    BY PowerOne
  <2>2. IsPower(2)
    <3>1. IsPower(2 * 1)
      BY <2>1, PowerDouble
    <3> QED
      BY <3>1
  <2>3. IsPower(4)
    <3>1. IsPower(2 * 2)
      BY <2>2, PowerDouble
    <3> QED
      BY <3>1
  <2>4. IsPower(8)
    <3>1. IsPower(2 * 4)
      BY <2>3, PowerDouble
    <3> QED
      BY <3>1
  <2>5. IsPower(16)
    <3>1. IsPower(2 * 8)
      BY <2>4, PowerDouble
    <3> QED
      BY <3>1
  <2> QED
    BY <2>1, <2>2, <2>3, <2>4, <2>5
<1> QED
  BY <1>1, Degree

\* A quotient of powers is one.
LEMMA PowerQuotient ==
  ASSUME NEW q, NEW m, IsPower(q), IsPower(m), m <= q
  PROVE  IsPower(q \div m) /\ q = (q \div m) * m
<1>1. q \in Nat /\ m \in Nat \ {0}
  BY DEF IsPower
<1> DEFINE I == {x \in Nat : IsPower(x) /\ m <= x => IsPower(x \div m) /\ x = (x \div m) * m}
<1>2. ASSUME NEW x \in Nat, \A y \in Nat : y < x => y \in I PROVE x \in I
  <2> SUFFICES ASSUME IsPower(x), m <= x PROVE IsPower(x \div m) /\ x = (x \div m) * m
    OBVIOUS
  <2>1. CASE x = m
    <3>1. x \div m = 1
      BY <1>1, <2>1
    <3> QED
      BY <1>1, <2>1, <3>1, PowerOne
  <2>2. CASE m < x
    <3> DEFINE y == x \div 2
    <3>1. x > 1 /\ y \in Nat /\ x = 2 * y /\ IsPower(y) /\ y < x
      BY <1>1, <2>2, PowerHalf
    <3> HIDE DEF y
    <3>2. m <= y
      <4>1. 2 * m <= x
        BY <1>1, <2>2, PowerMultiple
      <4> QED
        BY <1>1, <3>1, <4>1
    <3>3. IsPower(y \div m) /\ y = (y \div m) * m
      BY <1>2, <3>1, <3>2
    <3> DEFINE z == y \div m
    <3>4. z \in Nat /\ IsPower(2 * z)
      BY <3>3, PowerDouble DEF IsPower
    <3> HIDE DEF z
    <3>5. x = m * (2 * z) /\ 2 * z \in Nat
      BY <1>1, <3>1, <3>3, <3>4 DEF z
    <3>6. x \div m = 2 * z
      BY <1>1, <3>5, DividesMultiple
    <3> QED
      BY <1>1, <3>4, <3>5, <3>6
  <2> QED
    BY <1>1, <2>1, <2>2
<1>3. Nat \subseteq I
  <2> HIDE DEF I
  <2> QED
    BY <1>2, StrongInduction
<1> QED
  BY <1>1, <1>3

\* A wide subtree comes to at most 16 values, and to two or more when it has chunks for them.
LEMMA Wider ==
  ASSUME NEW q, IsPower(q)
  PROVE  /\ IsPower(Many(q)) /\ Many(q) <= 16 /\ Many(q) \in Nat \ {0}
         /\ q > 1 => Many(q) > 1
         /\ IsPower(q \div Many(q)) /\ q = (q \div Many(q)) * Many(q)
<1> DEFINE m == Many(q)
           D == blake3_simd_degree
<1>1. q \in Nat \ {0} /\ D \in {1, 4, 8, 16} /\ IsPower(D)
  BY Degree, DegreePower DEF IsPower
<1>2. IsPower(m) /\ m <= 16 /\ m \in Nat \ {0} /\ (q > 1 => m > 1) /\ m <= q
  <2>1. IsPower(2)
    <3>1. IsPower(2 * 1)
      BY PowerOne, PowerDouble
    <3> QED
      BY <3>1
  <2> HIDE DEF D
  <2> QED
    BY <1>1, <2>1 DEF Many, D
<1> HIDE DEF m
<1>4. IsPower(q \div m) /\ q = (q \div m) * m
  BY <1>2, PowerQuotient
<1> QED
  BY <1>2, <1>4 DEF m

\* A wide subtree of q chunks is that many of the tree's nodes, in order.
LEMMA WideIs ==
  ASSUME NEW key, NEW flags, NEW counter \in Nat, NEW q, IsPower(q), NEW lo, NEW hi,
         lo = counter * CHUNK_LEN, hi = (counter + q) * CHUNK_LEN, hi <= MaxTotal
  PROVE  blake3_compress_subtree_wide(lo, hi, key, counter, flags)
           = Nodes(key, flags, counter, q \div Many(q), Many(q))
<1> DEFINE W == Wide(lo, hi, key, flags)
           S == (lo .. hi) \X (lo .. hi) \X Nat
           D == blake3_simd_degree
           In(x, c) == counter <= c /\ c + x <= counter + q
           At(x, c) == <<c * CHUNK_LEN, (c + x) * CHUNK_LEN, c>>
           Good(x, c) == W[At(x, c)] = Nodes(key, flags, c, x \div Many(x), Many(x))
           I == {x \in Nat : IsPower(x) => \A c \in Nat : In(x, c) => Good(x, c)}
<1>1. q \in Nat \ {0} /\ lo \in Nat /\ hi \in Nat /\ lo <= hi /\ D \in {1, 4, 8, 16}
  BY Constants, Degree DEF IsPower
<1>2. /\ \A s \in S : W[s] = WideStep(W, s, key, flags)
      /\ blake3_compress_subtree_wide(lo, hi, key, counter, flags) = W[<<lo, hi, counter>>]
  BY <1>1, WideDef
<1> HIDE DEF W
<1>3. ASSUME NEW x \in Nat \ {0}, NEW c \in Nat, In(x, c)
      PROVE  /\ At(x, c) \in S /\ (c + x) * CHUNK_LEN <= MaxTotal
             /\ c * CHUNK_LEN \in Nat /\ (c + x) * CHUNK_LEN \in Nat
             /\ (c + x) * CHUNK_LEN - c * CHUNK_LEN = x * CHUNK_LEN
  <2>1. counter * CHUNK_LEN <= c * CHUNK_LEN /\ (c + x) * CHUNK_LEN <= (counter + q) * CHUNK_LEN
        /\ c * CHUNK_LEN <= (c + x) * CHUNK_LEN
    <3>1. counter <= c /\ c + x <= counter + q /\ c <= c + x /\ c + x \in Int /\ counter + q \in Int
      BY <1>1, <1>3
    <3> QED
      BY <1>1, <3>1, Constants, Cancel
  <2>2. c * CHUNK_LEN \in Nat /\ (c + x) * CHUNK_LEN \in Nat
        /\ (c + x) * CHUNK_LEN - c * CHUNK_LEN = x * CHUNK_LEN
    BY Constants
  <2> QED
    BY <1>1, <2>1, <2>2, Constants
<1>4. ASSUME NEW x \in Nat, \A y \in Nat : y < x => y \in I PROVE x \in I
  <2> SUFFICES ASSUME IsPower(x), NEW c \in Nat, In(x, c) PROVE Good(x, c)
    OBVIOUS
  <2> DEFINE a == c * CHUNK_LEN
             b == (c + x) * CHUNK_LEN
             s == <<a, b, c>>
  <2>0. x \in Nat \ {0}
    BY DEF IsPower
  <2>1. s \in S /\ b <= MaxTotal /\ a \in Nat /\ b \in Nat /\ b - a = x * CHUNK_LEN
    BY <1>3, <2>0
  <2>2. s[1] = a /\ s[2] = b /\ s[3] = c /\ At(x, c) = s
    OBVIOUS
  <2>3. W[s] = WideStep(W, s, key, flags)
    <3> HIDE DEF S, s
    <3> QED
      BY <1>2, <2>1
  <2>4. x * CHUNK_LEN <= D * CHUNK_LEN <=> x <= D
    BY <1>1, <2>0, Constants, Cancel
  <2>5. CASE x <= D
    <3>1. W[s] = compress_chunks_parallel(a, b, key, c, flags)
      <4>1. s[2] - s[1] <= D * CHUNK_LEN
        BY <2>1, <2>4, <2>5
      <4> HIDE DEF s
      <4>2. W[s] = compress_chunks_parallel(s[1], s[2], key, s[3], flags)
        BY <2>3, <4>1, Zenon DEF WideStep, D
      <4> QED
        BY <2>2, <4>2
    <3>2. compress_chunks_parallel(a, b, key, c, flags) = Nodes(key, flags, c, 1, x)
      BY <2>0, <2>1, ChunksParallel
    <3>3. Many(x) = x /\ x \div x = 1
      BY <2>0, <2>5 DEF Many
    <3> QED
      BY <2>2, <3>1, <3>2, <3>3
  <2>6. CASE ~ (x <= D)
    <3> DEFINE h == x \div 2
               n == left_subtree_len(b - a)
               m == Many(h)
               r == h \div m
               degree == IF n > CHUNK_LEN /\ D = 1 THEN 2 ELSE D
               left == Nodes(key, flags, c, r, m)
               right == Nodes(key, flags, c + h, r, m)
    <3>1. x > 1 /\ h \in Nat \ {0} /\ x = 2 * h /\ IsPower(h) /\ h < x
      BY <1>1, <2>0, <2>6, PowerHalf
    <3>2. n = h * CHUNK_LEN
      BY <2>1, <3>1, LeftSubtreeIs
    <3>3. n \div CHUNK_LEN = h /\ (n > CHUNK_LEN <=> h > 1) /\ n \in Nat
      <4>1. (h * CHUNK_LEN) \div CHUNK_LEN = h /\ h * CHUNK_LEN \in Nat
        BY <3>1, Constants
      <4>2. 1 * CHUNK_LEN < h * CHUNK_LEN <=> 1 < h
        BY <3>1, Constants, Cancel
      <4> HIDE DEF n, h
      <4> QED
        BY <3>1, <3>2, <4>1, <4>2, Constants
    <3>4. a + n = (c + h) * CHUNK_LEN
      BY <3>1, <3>2, Constants
    <3>5. c + h \in Nat /\ (c + h) + h = c + x /\ In(h, c) /\ In(h, c + h)
      BY <1>1, <3>1
    <3> HIDE DEF h
    <3>6. Good(h, c) /\ Good(h, c + h)
      BY <1>4, <3>1, <3>5
    <3>7. W[<<a, a + n, c>>] = left /\ W[<<a + n, b, c + n \div CHUNK_LEN>>] = right
      <4>1. At(h, c) = <<a, a + n, c>>
        BY <3>4
      <4>2. At(h, c + h) = <<a + n, b, c + n \div CHUNK_LEN>>
        BY <3>3, <3>4, <3>5
      <4> HIDE DEF At, n
      <4> QED
        BY <3>6, <4>1, <4>2
    <3>8. IsPower(m) /\ m \in Nat \ {0} /\ IsPower(r) /\ h = r * m /\ r \in Nat \ {0}
      BY <3>1, Wider DEF IsPower
    <3>9. degree = m
      <4>1. D <= h \/ D = 1
        <5>1. D < x
          BY <1>1, <2>6
        <5>2. 2 * D <= x
          BY <5>1, DegreePower, PowerMultiple
        <5> QED
          BY <1>1, <3>1, <5>2
      <4> QED
        BY <1>1, <3>1, <3>3, <4>1 DEF Many
    <3> HIDE DEF n, m, r, degree, left, right, D
    <3>10. Len(left) = m
      BY <3>8 DEF left, Nodes
    <3>11. Side(left, right, degree) = Nodes(key, flags, c, r, 2 * m)
      <4>1. c + h = c + m * r
        BY <3>8
      <4>2. Side(left, right, m) = Nodes(key, flags, c, r, 2 * m)
        BY <3>1, <3>5, <3>8, <4>1, SideBySide DEF left, right
      <4> QED
        BY <3>9, <4>2
    <3>12. W[s] = IF m = 1 THEN Nodes(key, flags, c, r, 2 * m)
                  ELSE compress_parents_parallel(Nodes(key, flags, c, r, 2 * m), key, flags)
      <4>1. ~ (s[2] - s[1] <= D * CHUNK_LEN)
        BY <2>1, <2>4, <2>6
      <4>2. left = W[<<s[1], s[1] + left_subtree_len(s[2] - s[1]), s[3]>>]
            /\ right = W[<<s[1] + left_subtree_len(s[2] - s[1]), s[2],
                           s[3] + left_subtree_len(s[2] - s[1]) \div CHUNK_LEN>>]
            /\ degree = IF left_subtree_len(s[2] - s[1]) > CHUNK_LEN /\ D = 1 THEN 2 ELSE D
        BY <2>2, <3>7 DEF n, degree
      <4> HIDE DEF s
      <4>3. W[s] = IF Len(left) = 1 THEN Side(left, right, degree)
                   ELSE compress_parents_parallel(Side(left, right, degree), key, flags)
        BY <2>3, <4>1, <4>2, Zenon DEF WideStep, D
      <4> QED
        BY <3>10, <3>11, <4>3
    <3>13. CASE m = 1
      <4>1. Many(x) = 2 /\ x \div 2 = h /\ r = h
        <5>1. D = 1 /\ Many(x) = 2
          BY <1>1, <2>6, <3>9, <3>13 DEF Many, degree, D
        <5>2. r = h
          BY <3>8, <3>13
        <5> QED
          BY <3>1, <5>1, <5>2 DEF h
      <4> QED
        BY <2>2, <3>12, <3>13, <4>1
    <3>14. CASE m # 1
      <4>1. (c + r * (2 * m)) * CHUNK_LEN <= MaxTotal
        <5>1. r * (2 * m) = x
          BY <3>1, <3>8
        <5> QED
          BY <2>1, <5>1
      <4>2. compress_parents_parallel(Nodes(key, flags, c, r, 2 * m), key, flags)
              = Nodes(key, flags, c, 2 * r, m)
        BY <3>8, <4>1, ParentsParallel
      <4>3. Many(x) = m
        <5>1. m = IF h > 1 /\ D = 1 THEN 2 ELSE D
          BY <3>3, <3>9 DEF degree
        <5> QED
          BY <1>1, <2>6, <3>14, <5>1 DEF Many, D
      <4>4. x \div m = 2 * r
        <5>1. x = m * (2 * r) /\ 2 * r \in Nat
          BY <3>1, <3>8
        <5> QED
          BY <3>8, <5>1, DividesMultiple
      <4> QED
        BY <2>2, <3>12, <3>14, <4>2, <4>3, <4>4
    <3> QED
      BY <3>13, <3>14
  <2> QED
    BY <2>5, <2>6
<1>5. q \in I
  <2> HIDE DEF I
  <2> QED
    BY <1>1, <1>4, StrongInduction
<1>6. In(q, counter) /\ At(q, counter) = <<lo, hi, counter>>
  BY <1>1
<1>7. Good(q, counter)
  BY <1>1, <1>5, <1>6
<1> QED
  BY <1>2, <1>6, <1>7

----------------------------------------------------------------------------
(* Down to two values *)

Condensed(cvs, key, flags) ==
  IF Len(cvs) <= 2 THEN cvs ELSE compress_parents_parallel(cvs, key, flags)

\* Parents are formed of more values than two.
LEMMA CondensedNodes ==
  ASSUME NEW key, NEW flags, NEW counter \in Nat, NEW q, IsPower(q), NEW m \in {2, 4, 8, 16},
         (counter + q * m) * CHUNK_LEN <= MaxTotal
  PROVE  Condensed(Nodes(key, flags, counter, q, m), key, flags)
           = IF m = 2 THEN Nodes(key, flags, counter, q, m)
             ELSE Nodes(key, flags, counter, 2 * q, m \div 2)
<1> DEFINE cvs == Nodes(key, flags, counter, q, m)
           n == m \div 2
<1>1. Len(cvs) = m
  BY DEF Nodes
<1>2. n \in Nat /\ 2 * n = m
  OBVIOUS
<1>3. CASE m = 2
  <2> HIDE DEF cvs
  <2> QED
    BY <1>1, <1>3 DEF Condensed, cvs
<1>4. CASE m # 2
  <2> HIDE DEF n
  <2>1. compress_parents_parallel(Nodes(key, flags, counter, q, 2 * n), key, flags)
          = Nodes(key, flags, counter, 2 * q, n)
    BY <1>2, ParentsParallel
  <2>2. ~ (Len(cvs) <= 2)
    BY <1>1, <1>4
  <2> HIDE DEF cvs
  <2>3. Condensed(cvs, key, flags) = compress_parents_parallel(cvs, key, flags)
    BY <2>2 DEF Condensed
  <2> QED
    BY <1>2, <1>4, <2>1, <2>3 DEF cvs, n
<1> QED
  BY <1>3, <1>4

\* A subtree of at least two chunks comes to the values of its halves.
LEMMA SubtreeHalves ==
  ASSUME NEW key, NEW flags, NEW counter \in Nat, NEW q, IsPower(q), q > 1, NEW lo, NEW hi,
         lo = counter * CHUNK_LEN, hi = (counter + q) * CHUNK_LEN, hi <= MaxTotal
  PROVE  compress_subtree_to_parent_node(lo, hi, key, counter, flags)
           = Nodes(key, flags, counter, q \div 2, 2)
<1> DEFINE m == Many(q)
           r == q \div m
           c(cvs) == Condensed(cvs, key, flags)
           w == blake3_compress_subtree_wide(lo, hi, key, counter, flags)
           N(x, y) == Nodes(key, flags, counter, x, y)
<1>1. /\ IsPower(m) /\ m <= 16 /\ m > 1 /\ m \in Nat \ {0} /\ IsPower(r) /\ q = r * m
      /\ r \in Nat \ {0}
  BY Wider DEF IsPower
<1>2. m \in {2, 4, 8, 16}
  BY <1>1, PowerSmall
<1>3. w = N(r, m)
  BY WideIs
<1>4. compress_subtree_to_parent_node(lo, hi, key, counter, flags) = c(c(c(w)))
  BY Zenon DEF compress_subtree_to_parent_node, Condensed
<1> HIDE DEF w, m, r
<1>5. ASSUME NEW x, IsPower(x), NEW y \in {2, 4, 8, 16}, x * y = q
      PROVE  c(N(x, y)) = IF y = 2 THEN N(x, y) ELSE N(2 * x, y \div 2)
  BY <1>5, CondensedNodes
<1>6. IsPower(2 * r) /\ IsPower(4 * r) /\ IsPower(8 * r)
  <2>1. IsPower(2 * r)
    BY <1>1, PowerDouble
  <2>2. IsPower(2 * (2 * r))
    BY <2>1, PowerDouble
  <2>3. IsPower(2 * (2 * (2 * r)))
    BY <2>2, PowerDouble
  <2>4. 2 * (2 * r) = 4 * r /\ 2 * (2 * (2 * r)) = 8 * r
    BY <1>1
  <2> QED
    BY <2>1, <2>2, <2>3, <2>4
<1> HIDE DEF c, N
<1>7. CASE m = 2
  <2>1. r * 2 = q /\ r = q \div 2
    BY <1>1, <1>7
  <2>2. c(N(r, 2)) = N(r, 2)
    BY <1>1, <1>5, <2>1
  <2> QED
    BY <1>3, <1>4, <1>7, <2>1, <2>2 DEF N
<1>8. CASE m = 4
  <2>1. r * 4 = q /\ (2 * r) * 2 = q /\ 2 * r = q \div 2
    BY <1>1, <1>8
  <2>2. c(N(r, 4)) = N(2 * r, 4 \div 2)
    BY <1>1, <1>5, <2>1
  <2>3. c(N(2 * r, 2)) = N(2 * r, 2)
    BY <1>6, <1>5, <2>1
  <2>4. 4 \div 2 = 2
    OBVIOUS
  <2> QED
    BY <1>3, <1>4, <1>8, <2>1, <2>2, <2>3, <2>4 DEF N
<1>9. CASE m = 8
  <2>1. r * 8 = q /\ (2 * r) * 4 = q /\ (4 * r) * 2 = q /\ 4 * r = q \div 2
    BY <1>1, <1>9
  <2>2. c(N(r, 8)) = N(2 * r, 8 \div 2)
    BY <1>1, <1>5, <2>1
  <2>3. c(N(2 * r, 4)) = N(2 * (2 * r), 4 \div 2)
    BY <1>6, <1>5, <2>1
  <2>4. c(N(4 * r, 2)) = N(4 * r, 2)
    BY <1>6, <1>5, <2>1
  <2>5. 8 \div 2 = 4 /\ 4 \div 2 = 2 /\ 2 * (2 * r) = 4 * r
    BY <1>1
  <2> QED
    BY <1>3, <1>4, <1>9, <2>1, <2>2, <2>3, <2>4, <2>5 DEF N
<1>10. CASE m = 16
  <2>1. r * 16 = q /\ (2 * r) * 8 = q /\ (4 * r) * 4 = q /\ (8 * r) * 2 = q /\ 8 * r = q \div 2
    BY <1>1, <1>10
  <2>2. c(N(r, 16)) = N(2 * r, 16 \div 2)
    BY <1>1, <1>5, <2>1
  <2>3. c(N(2 * r, 8)) = N(2 * (2 * r), 8 \div 2)
    BY <1>6, <1>5, <2>1
  <2>4. c(N(4 * r, 4)) = N(2 * (4 * r), 4 \div 2)
    BY <1>6, <1>5, <2>1
  <2>5. 16 \div 2 = 8 /\ 8 \div 2 = 4 /\ 4 \div 2 = 2 /\ 2 * (2 * r) = 4 * r /\ 2 * (4 * r) = 8 * r
    BY <1>1
  <2> QED
    BY <1>3, <1>4, <1>10, <2>1, <2>2, <2>3, <2>4, <2>5 DEF N
<1> QED
  BY <1>2, <1>7, <1>8, <1>9, <1>10

----------------------------------------------------------------------------
(* The stack *)

\* A sequence of n values.
Stack(s, n) == n \in Nat /\ s = [i \in 1 .. n |-> s[i]]

\* The empty stack.
LEMMA StackEmpty == Stack(<<>>, 0)
BY DEF Stack

\* A value pushed.
LEMMA StackAppend ==
  ASSUME NEW s, NEW n, Stack(s, n), NEW e
  PROVE  /\ Len(s) = n /\ n \in Nat
         /\ Stack(Append(s, e), n + 1) /\ Append(s, e)[n + 1] = e
         /\ \A i \in 1 .. n : Append(s, e)[i] = s[i]
<1> DEFINE f == [i \in 1 .. n |-> s[i]]
<1>1. s = f /\ n \in Nat
  BY DEF Stack
<1>2. Len(f) = n /\ Append(f, e) = [i \in 1 .. n + 1 |-> IF i = n + 1 THEN e ELSE f[i]]
  BY <1>1
<1> HIDE DEF f
<1>3. Append(s, e) = [i \in 1 .. n + 1 |-> IF i = n + 1 THEN e ELSE s[i]] /\ Len(s) = n
  BY <1>1, <1>2
<1> QED
  BY <1>1, <1>3 DEF Stack

\* Values popped.
LEMMA StackSub ==
  ASSUME NEW s, NEW n, Stack(s, n), NEW m \in 0 .. n
  PROVE  Stack(SubSeq(s, 1, m), m) /\ \A i \in 1 .. m : SubSeq(s, 1, m)[i] = s[i]
<1>1. n \in Nat
  BY DEF Stack
<1>2. SubSeq(s, 1, m) = [i \in 1 .. m |-> s[i]]
  <2>1. SubSeq(s, 1, m) = [i \in 1 .. (1 + m - 1) |-> s[1 + i - 1]]
    BY <1>1
  <2>2. 1 + m - 1 = m /\ \A i \in 1 .. m : 1 + i - 1 = i
    BY <1>1
  <2> QED
    BY <2>1, <2>2
<1> QED
  BY <1>1, <1>2 DEF Stack

\* Stacks of the same values are the same.
LEMMA StackEqual ==
  ASSUME NEW s, NEW t, NEW n, Stack(s, n), Stack(t, n), \A i \in 1 .. n : s[i] = t[i]
  PROVE  s = t
BY DEF Stack

\* The stack of complete subtrees is as long as the number has ones.
LEMMA CompleteLen ==
  ASSUME NEW key, NEW flags, NEW c \in Nat, c * CHUNK_LEN <= MaxTotal
  PROVE  Stack(Complete(key, flags)[c], popcnt[c])
<1> DEFINE I == {x \in Nat : x * CHUNK_LEN <= MaxTotal => Stack(Complete(key, flags)[x], popcnt[x])}
<1>1. ASSUME NEW x \in Nat, \A y \in Nat : y < x => y \in I PROVE x \in I
  <2> SUFFICES ASSUME x * CHUNK_LEN <= MaxTotal PROVE Stack(Complete(key, flags)[x], popcnt[x])
    OBVIOUS
  <2>1. x \in 0 .. MaxTotal \div CHUNK_LEN /\ x <= MaxTotal
    BY Constants
  <2>2. CASE x = 0
    <3>1. Complete(key, flags)[x] = <<>> /\ popcnt[x] = 0
      BY <2>1, <2>2, CompleteDef, PopcntDef
    <3> QED
      BY <2>2, <3>1, StackEmpty
  <2>3. CASE x # 0
    <3> DEFINE p == LowBit(x)
               y == x - p
    <3>1. IsPower(p) /\ p \in Nat \ {0} /\ y \in Nat /\ y % (2 * p) = 0
      BY <2>1, <2>3, LowBitDef
    <3>2. Complete(key, flags)[x]
            = Append(Complete(key, flags)[y], Value(key, flags, y * CHUNK_LEN, x * CHUNK_LEN))
      BY <2>1, <2>3, CompleteDef
    <3>3. x = y + p
      BY <3>1
    <3> HIDE DEF p, y
    <3>4. y * CHUNK_LEN <= MaxTotal /\ y < x
      <4>1. y <= x /\ y < x
        BY <3>1, <3>3
      <4>2. y * CHUNK_LEN <= x * CHUNK_LEN
        BY <3>1, <4>1, Constants, Cancel
      <4> QED
        BY <3>1, <4>1, <4>2, Constants
    <3>5. Stack(Complete(key, flags)[y], popcnt[y])
      BY <1>1, <3>1, <3>4
    <3>6. popcnt[x] = popcnt[y] + 1
      BY <3>1, <3>3, PopcntDigit
    <3> QED
      BY <3>2, <3>5, <3>6, StackAppend
  <2> QED
    BY <2>2, <2>3
<1>2. Nat \subseteq I
  <2> HIDE DEF I
  <2> QED
    BY <1>1, StrongInduction
<1> QED
  BY <1>2

\* A subtree of p chunks from chunk a to chunk c is the left, or the right, half of one.
Subtree(a, p, c) == a \in Nat /\ IsPower(p) /\ c = a + p /\ a % p = 0
Left(a, p, c) == Subtree(a, p, c) /\ a % (2 * p) = 0
Right(a, p, c) == Subtree(a, p, c) /\ a % (2 * p) # 0

\* What a subtree adds when nothing is left to merge it with.
Appended(key, flags, a, c) ==
  /\ Complete(key, flags)[c]
       = Append(Complete(key, flags)[a], Value(key, flags, a * CHUNK_LEN, c * CHUNK_LEN))
  /\ popcnt[c] = popcnt[a] + 1

\* Adding the right half of nothing yet complete pushes it.
LEMMA CompleteAppend ==
  ASSUME NEW key, NEW flags, NEW a, NEW p, NEW c, Left(a, p, c), c * CHUNK_LEN <= MaxTotal
  PROVE  Appended(key, flags, a, c)
<1>0. a \in Nat /\ IsPower(p) /\ c = a + p /\ a % (2 * p) = 0
  BY DEF Left, Subtree
<1>1. p \in Nat \ {0} /\ c \in Nat \ {0} /\ p <= c
  BY <1>0 DEF IsPower
<1>2. c \in 0 .. MaxTotal \div CHUNK_LEN /\ c <= MaxTotal /\ p <= MaxTotal
  BY <1>1, Constants
<1>3. LowBit(c) = p /\ c - p = a
  <2>1. LowBit(a + p) = p
    BY <1>0, <1>2, LowBitIs
  <2> QED
    BY <1>0, <1>1, <2>1
<1>4. popcnt[c] = popcnt[a] + 1
  BY <1>0, PopcntDigit
<1>5. Complete(key, flags)[c]
        = Append(Complete(key, flags)[c - LowBit(c)],
                 Value(key, flags, (c - LowBit(c)) * CHUNK_LEN, c * CHUNK_LEN))
  BY <1>1, <1>2, CompleteDef
<1> QED
  BY <1>3, <1>4, <1>5 DEF Appended

\* Then the left half is a left half of the same size.
LEMMA RightHalf ==
  ASSUME NEW a, NEW p, NEW c, Right(a, p, c), a <= MaxTotal
  PROVE  /\ a # 0 /\ a - p \in Nat /\ a - p < a
         /\ Left(a - p, p, a) /\ Subtree(a - p, 2 * p, c)
<1> DEFINE l == LowBit(a)
<1>0. a \in Nat /\ IsPower(p) /\ c = a + p /\ a % p = 0 /\ a % (2 * p) # 0 /\ p \in Nat \ {0}
  BY DEF Right, Subtree, IsPower
<1>5. a # 0
  <2>1. 0 % (2 * p) = 0
    BY <1>0
  <2> QED
    BY <1>0, <2>1
<1>1. IsPower(l) /\ l \in Nat \ {0} /\ l <= a /\ a % l = 0 /\ a - l \in Nat /\ (a - l) % (2 * l) = 0
  BY <1>0, <1>5, LowBitDef
<1>2. a \in Nat \ {0} /\ p \in Nat \ {0} /\ 2 * p \in Nat \ {0} /\ p <= a
  BY <1>0, <1>5, DividesLe
<1> HIDE DEF l
<1>3. ~ (p < l)
  <2> SUFFICES ASSUME p < l PROVE FALSE
    OBVIOUS
  <2>1. l % (2 * p) = 0
    BY <1>0, <1>1, PowerMultiple
  <2> QED
    BY <1>0, <1>1, <1>2, <2>1, DividesTrans
<1>4. ~ (l < p)
  <2> SUFFICES ASSUME l < p PROVE FALSE
    OBVIOUS
  <2>1. p % (2 * l) = 0 /\ 2 * l \in Nat \ {0}
    <3>1. IsPower(l) /\ IsPower(p) /\ l < p
      BY <1>0, <1>1
    <3>2. p % (2 * l) = 0
      BY <3>1, PowerMultiple
    <3> QED
      BY <1>1, <3>2
  <2> DEFINE e == 2 * l
  <2> HIDE DEF e
  <2>2. a % e = 0 /\ e \in Nat \ {0}
    <3>1. p % e = 0 /\ e \in Nat \ {0}
      BY <2>1 DEF e
    <3> QED
      BY <1>0, <3>1, DividesTrans
  <2>3. (a - l) + l = a
    BY <1>1, <1>2
  <2>4. l % e = 0
    <3> DEFINE d == a - l
    <3>1. d \in Nat /\ d % e = 0 /\ d + l = a
      BY <1>1, <2>3 DEF e
    <3> HIDE DEF d
    <3> QED
      BY <1>1, <2>2, <3>1, DividesSum
  <2>5. e <= l
    BY <1>1, <2>2, <2>4, DividesLe
  <2> QED
    BY <1>1, <2>5 DEF e
<1>6. l = p
  BY <1>1, <1>2, <1>3, <1>4
<1>7. a - p \in Nat /\ (a - p) % (2 * p) = 0 /\ a - p < a /\ (a - p) + p = a /\ c = (a - p) + 2 * p
  BY <1>0, <1>1, <1>2, <1>6
<1>8. (a - p) % p = 0
  <2>1. (2 * p) % p = 0
    BY <1>0
  <2> QED
    BY <1>0, <1>2, <1>7, <2>1, DividesTrans
<1>9. IsPower(2 * p)
  BY <1>0, PowerDouble
<1> QED
  BY <1>0, <1>5, <1>7, <1>8, <1>9 DEF Left, Subtree

\* Two nodes of q chunks side by side.
LEMMA ChunkPair ==
  ASSUME NEW key, NEW flags, NEW a \in Nat, NEW q, IsPower(q), (a + 2 * q) * CHUNK_LEN <= MaxTotal
  PROVE  RefTree(key, flags)[<<a * CHUNK_LEN, (a + 2 * q) * CHUNK_LEN>>]
           = parent_output(Value(key, flags, a * CHUNK_LEN, (a + q) * CHUNK_LEN),
                           Value(key, flags, (a + q) * CHUNK_LEN, (a + 2 * q) * CHUNK_LEN),
                           key, flags)
<1> DEFINE lo == a * CHUNK_LEN
           mid == (a + q) * CHUNK_LEN
           hi == (a + 2 * q) * CHUNK_LEN
           p == q * CHUNK_LEN
<1>0. q \in Nat \ {0}
  BY DEF IsPower
<1>1. lo \in Nat /\ mid \in Nat /\ hi \in Nat /\ p \in Nat /\ mid = lo + p /\ hi = mid + p
      /\ CHUNK_LEN <= p
  BY <1>0, Constants
<1>2. IsPower(p)
  BY Constants, PowerProduct
<1>3. hi <= MaxTotal
  OBVIOUS
<1> HIDE DEF lo, mid, hi, p
<1>4. p = mid - lo /\ mid < hi /\ hi - mid <= p
  BY <1>1, Constants
<1>5. RefTree(key, flags)[<<lo, hi>>]
        = parent_output(Value(key, flags, lo, mid), Value(key, flags, mid, hi), key, flags)
  <2>1. lo \in Nat /\ mid \in Nat /\ hi \in Nat /\ CHUNK_LEN <= p
    BY <1>1
  <2> QED
    BY <1>2, <1>3, <1>4, <2>1, ParentNode
<1> QED
  BY <1>5, Zenon DEF lo, mid, hi

----------------------------------------------------------------------------
(* Merging *)

HasherOf(key, chunk, stack) == [key |-> key, chunk |-> chunk, cv_stack |-> stack]
HasherSet(key, chunk, stack) == [key : {key}, chunk : {chunk}, cv_stack : {stack}]

\* A hasher is its three fields.
LEMMA HasherEta ==
  ASSUME NEW key, NEW chunk, NEW stack, NEW h \in HasherSet(key, chunk, stack)
  PROVE  h = HasherOf(key, chunk, stack)
BY DEF HasherOf, HasherSet

\* The fields of a hasher.
LEMMA HasherFields ==
  ASSUME NEW key, NEW chunk, NEW stack, NEW other
  PROVE  LET h == HasherOf(key, chunk, stack) IN
         /\ h.key = key /\ h.chunk = chunk /\ h.cv_stack = stack
         /\ [h EXCEPT !.cv_stack = other] = HasherOf(key, chunk, other)
         /\ [h EXCEPT !.chunk = other] = HasherOf(key, other, stack)
<1> DEFINE h == HasherOf(key, chunk, stack)
<1>1. h.key = key /\ h.chunk = chunk /\ h.cv_stack = stack
  BY DEF HasherOf
<1>2. [h EXCEPT !.cv_stack = other] \in HasherSet(key, chunk, other)
  BY DEF HasherOf, HasherSet
<1>3. [h EXCEPT !.chunk = other] \in HasherSet(key, other, stack)
  BY DEF HasherOf, HasherSet
<1>4. [h EXCEPT !.cv_stack = other] = HasherOf(key, chunk, other)
  BY <1>2, HasherEta
<1>5. [h EXCEPT !.chunk = other] = HasherOf(key, other, stack)
  BY <1>3, HasherEta
<1> QED
  BY <1>1, <1>4, <1>5

\* The stack holds the complete subtrees before chunk b.
Holds(key, flags, s, b) ==
  \A i \in 1 .. popcnt[b] : s[i] = Complete(key, flags)[b][i]

\* A hasher whose stack has room above the complete subtrees before chunk b.
Rests(h, key, flags, n, b) ==
  /\ h.key = key /\ h.chunk.flags = flags /\ Stack(h.cv_stack, n)
  /\ popcnt[b] <= n /\ Holds(key, flags, h.cv_stack, b)

InMessage(b) == b * CHUNK_LEN <= MaxTotal

\* Without the last complete subtree the others are complete still.
LEMMA RestsBelow ==
  ASSUME NEW h, NEW key, NEW flags, NEW n, NEW b, NEW a, NEW p, Rests(h, key, flags, n, b),
         Left(a, p, b), InMessage(b), InMessage(a)
  PROVE  /\ Rests(h, key, flags, n, a)
         /\ h.cv_stack[popcnt[b]] = Value(key, flags, a * CHUNK_LEN, b * CHUNK_LEN)
         /\ popcnt[b] = popcnt[a] + 1
<1> DEFINE t == Complete(key, flags)[a]
           u == Complete(key, flags)[b]
           v == Value(key, flags, a * CHUNK_LEN, b * CHUNK_LEN)
           m == popcnt[a]
           s == h.cv_stack
<1>1. u = Append(t, v) /\ popcnt[b] = m + 1
  <2>1. Appended(key, flags, a, b)
    BY CompleteAppend DEF InMessage
  <2> QED
    BY <2>1, Zenon DEF Appended
<1>2. Stack(t, m) /\ m \in Nat
  BY CompleteLen, PopcntStep DEF Left, Subtree, InMessage
<1>3. Stack(s, n) /\ m + 1 <= n /\ \A i \in 1 .. m + 1 : s[i] = u[i]
  BY <1>1 DEF Rests, Holds
<1>6. n \in Nat
  BY <1>3 DEF Stack
<1> HIDE DEF t, v, s, m, u
<1>4. Append(t, v)[m + 1] = v /\ \A i \in 1 .. m : Append(t, v)[i] = t[i]
  BY <1>2, StackAppend
<1>5. s[m + 1] = v /\ m <= n /\ \A i \in 1 .. m : s[i] = t[i]
  <2>1. s[m + 1] = u[m + 1] /\ \A i \in 1 .. m : s[i] = u[i]
    BY <1>2, <1>3
  <2>2. u[m + 1] = v /\ \A i \in 1 .. m : u[i] = t[i]
    BY <1>1, <1>4
  <2>3. m <= n
    BY <1>2, <1>3, <1>6
  <2>4. \A i \in 1 .. m : s[i] = t[i]
    BY <2>1, <2>2
  <2> QED
    BY <2>1, <2>2, <2>3, <2>4
<1> QED
  BY <1>1, <1>5 DEF Rests, Holds, t, v, s, m

\* The part of the stack below them is all of the complete subtrees.
LEMMA RestsAll ==
  ASSUME NEW h, NEW key, NEW flags, NEW n, NEW b \in Nat, Rests(h, key, flags, n, b),
         b * CHUNK_LEN <= MaxTotal
  PROVE  SubSeq(h.cv_stack, 1, popcnt[b]) = Complete(key, flags)[b]
<1> DEFINE m == popcnt[b]
           t == Complete(key, flags)[b]
           s == h.cv_stack
<1>0. Stack(t, m) /\ Stack(s, n) /\ m <= n /\ \A i \in 1 .. m : s[i] = t[i]
  BY CompleteLen DEF Rests, Holds
<1>1. m \in 0 .. n /\ Stack(s, n) /\ Stack(t, m) /\ \A i \in 1 .. m : s[i] = t[i]
  <2> HIDE DEF m, t, s
  <2>1. m \in Nat /\ n \in Nat
    BY <1>0 DEF Stack
  <2> QED
    BY <1>0, <2>1
<1> HIDE DEF m, t, s
<1>2. Stack(SubSeq(s, 1, m), m) /\ \A i \in 1 .. m : SubSeq(s, 1, m)[i] = s[i]
  BY <1>1, StackSub
<1>3. SubSeq(s, 1, m) = t
  BY <1>1, <1>2, StackEqual
<1> QED
  BY <1>3 DEF m, t, s

\* Rolling up from the node of chunks b to c, as far as it is complete, leaves the
\* complete subtrees of c chunks.
RollsUpTo(h, key, flags, b, c) ==
  /\ popcnt[c] \in 1 .. popcnt[b] + 1
  /\ Append(SubSeq(h.cv_stack, 1, popcnt[c] - 1),
            output_chaining_value(
              RollUp(h, RefTree(key, flags)[<<b * CHUNK_LEN, c * CHUNK_LEN>>],
                     popcnt[b], popcnt[c] - 1)))
       = Complete(key, flags)[c]

\* The subtrees before a node that completes them roll up into one.
LEMMA RollUpComplete ==
  ASSUME NEW h, NEW key, NEW flags, NEW n, NEW b, NEW p, NEW c, Rests(h, key, flags, n, b),
         Subtree(b, p, c), c * CHUNK_LEN <= MaxTotal
  PROVE  RollsUpTo(h, key, flags, b, c)
<1> DEFINE Fits(x, q) == Subtree(x, q, c) /\ Rests(h, key, flags, n, x)
           Node(x) == RefTree(key, flags)[<<x * CHUNK_LEN, c * CHUNK_LEN>>]
           I == {x \in Nat : \A q \in Nat : Fits(x, q) => RollsUpTo(h, key, flags, x, c)}
<1>1. ASSUME NEW x \in Nat, \A y \in Nat : y < x => y \in I PROVE x \in I
  <2> SUFFICES ASSUME NEW q \in Nat, Fits(x, q) PROVE RollsUpTo(h, key, flags, x, c)
    OBVIOUS
  <2>0. Subtree(x, q, c) /\ Rests(h, key, flags, n, x)
    OBVIOUS
  <2>1. q \in Nat \ {0} /\ c = x + q /\ IsPower(q) /\ c \in Nat
    BY <2>0 DEF Subtree, IsPower
  <2>2. popcnt[x] \in Nat /\ popcnt[c] \in Nat
    BY <2>1, PopcntStep
  <2>3. x * CHUNK_LEN <= c * CHUNK_LEN /\ x * CHUNK_LEN \in Nat /\ c * CHUNK_LEN \in Nat
    BY <2>1, Constants, Cancel
  <2>4. x * CHUNK_LEN <= MaxTotal /\ x <= MaxTotal
    <3>1. x <= x * CHUNK_LEN
      BY Constants
    <3> QED
      BY <2>3, <3>1, Constants
  <2>5. CASE x % (2 * q) = 0
    <3>1. Left(x, q, c)
      BY <2>0, <2>5 DEF Left
    <3>2. /\ Complete(key, flags)[c] = Append(Complete(key, flags)[x], output_chaining_value(Node(x)))
          /\ popcnt[c] = popcnt[x] + 1
      <4>1. Appended(key, flags, x, c)
        BY <3>1, CompleteAppend
      <4> QED
        BY <4>1, Zenon DEF Appended, Value
    <3> DEFINE m == popcnt[x]
               o == Node(x)
    <3>3. SubSeq(h.cv_stack, 1, m) = Complete(key, flags)[x]
      BY <2>0, <2>4, RestsAll
    <3>4. popcnt[c] - 1 = m /\ popcnt[c] \in 1 .. m + 1 /\ m \in Nat
      BY <2>2, <3>2
    <3> HIDE DEF m, o
    <3>5. RollUp(h, o, m, m) = o
      BY <3>4, RollUpNone
    <3> QED
      BY <3>2, <3>3, <3>4, <3>5 DEF RollsUpTo, m, o
  <2>6. CASE x % (2 * q) # 0
    <3> DEFINE y == x - q
    <3>1. /\ y \in Nat /\ y < x /\ Left(y, q, x) /\ Subtree(y, 2 * q, c)
      <4>1. Right(x, q, c)
        BY <2>0, <2>6 DEF Right
      <4> QED
        BY <2>4, <4>1, RightHalf
    <3>2. x = y + q /\ c = y + 2 * q
      BY <2>1
    <3> HIDE DEF y
    <3>3. y * CHUNK_LEN <= MaxTotal
      <4>1. y * CHUNK_LEN <= x * CHUNK_LEN /\ y * CHUNK_LEN \in Nat
        BY <3>1, Constants, Cancel
      <4> QED
        BY <2>3, <2>4, <4>1, Constants
    <3>4. /\ Rests(h, key, flags, n, y) /\ popcnt[x] = popcnt[y] + 1
          /\ h.cv_stack[popcnt[x]] = Value(key, flags, y * CHUNK_LEN, x * CHUNK_LEN)
      <4>1. InMessage(x) /\ InMessage(y)
        BY <2>4, <3>3 DEF InMessage
      <4> QED
        BY <2>0, <3>1, <4>1, RestsBelow
    <3>5. popcnt[y] \in Nat
      BY <3>1, PopcntStep
    <3>6. RollsUpTo(h, key, flags, y, c)
      <4>1. Fits(y, 2 * q) /\ 2 * q \in Nat
        BY <2>1, <3>1, <3>4
      <4> QED
        BY <1>1, <3>1, <4>1
    <3>7. Above(h, Node(x), popcnt[x]) = Node(y)
      <4>1. Node(y) = parent_output(Value(key, flags, y * CHUNK_LEN, x * CHUNK_LEN),
                                    Value(key, flags, x * CHUNK_LEN, c * CHUNK_LEN), key, flags)
        BY <2>1, <3>1, <3>2, ChunkPair
      <4>2. h.key = key /\ h.chunk.flags = flags
        BY <2>0 DEF Rests
      <4> QED
        BY <3>4, <4>1, <4>2, Zenon DEF Above, Value
    <3> DEFINE m == popcnt[x]
               e == popcnt[c] - 1
               o == Node(x)
               o2 == Node(y)
    <3>8. m \in Nat \ {0} /\ e \in 0 .. m - 1 /\ m - 1 = popcnt[y] /\ popcnt[c] \in 1 .. m + 1
      <4>1. popcnt[c] \in 1 .. popcnt[y] + 1
        BY <3>6 DEF RollsUpTo
      <4>2. popcnt[x] = popcnt[y] + 1
        BY <3>4
      <4> QED
        BY <3>5, <4>1, <4>2
    <3>9. Append(SubSeq(h.cv_stack, 1, e), output_chaining_value(RollUp(h, o2, popcnt[y], e)))
            = Complete(key, flags)[c]
      BY <3>6 DEF RollsUpTo
    <3>10. Above(h, o, m) = o2
      BY <3>7
    <3> HIDE DEF m, e, o, o2
    <3>11. RollUp(h, o, m, e) = RollUp(h, Above(h, o, m), m - 1, e)
      BY <3>8, RollUpStep
    <3>12. Append(SubSeq(h.cv_stack, 1, e), output_chaining_value(RollUp(h, o, m, e)))
             = Complete(key, flags)[c]
      BY <3>8, <3>9, <3>10, <3>11
    <3> QED
      BY <3>8, <3>12 DEF RollsUpTo, m, e, o
  <2> QED
    BY <2>5, <2>6
<1>2. b \in I
  <2>1. b \in Nat
    BY DEF Subtree
  <2> HIDE DEF I
  <2> QED
    BY <1>1, <2>1, StrongInduction
<1>3. Fits(b, p) /\ p \in Nat
  BY DEF Subtree, IsPower
<1> QED
  BY <1>2, <1>3

\* What the lazy merging leaves when the last subtree pushed ends at chunk c.
Pushed(key, flags, s, a, c) ==
  s = Append(Complete(key, flags)[a], Value(key, flags, a * CHUNK_LEN, c * CHUNK_LEN))
Lazy(key, flags, s, c) ==
  \/ s = Complete(key, flags)[c]
  \/ \E a \in Nat, p \in Nat : Subtree(a, p, c) /\ Pushed(key, flags, s, a, c)

\* Merging completes the stack.
LEMMA MergeComplete ==
  ASSUME NEW key, NEW chunk, NEW flags, flags = chunk.flags, NEW s, NEW c \in Nat,
         c * CHUNK_LEN <= MaxTotal, Lazy(key, flags, s, c)
  PROVE  hasher_merge_cv_stack(HasherOf(key, chunk, s), c)
           = HasherOf(key, chunk, Complete(key, flags)[c])
<1> DEFINE h == HasherOf(key, chunk, s)
           T(x) == Complete(key, flags)[x]
           V(x, y) == Value(key, flags, x * CHUNK_LEN, y * CHUNK_LEN)
<1>1. h.key = key /\ h.chunk = chunk /\ h.cv_stack = s /\ h.chunk.flags = flags
  BY HasherFields
<1>2. ASSUME s = T(c) PROVE hasher_merge_cv_stack(h, c) = h
  <2>1. Stack(s, popcnt[c])
    BY <1>2, CompleteLen
  <2>2. Len(s) = popcnt[c] /\ popcnt[c] \in Nat
    BY <2>1, StackAppend
  <2> HIDE DEF h
  <2>3. Len(h.cv_stack) <= Merges(c)
    BY <1>1, <2>2 DEF Merges
  <2> QED
    BY <2>3 DEF hasher_merge_cv_stack
<1>3. CASE s = T(c)
  BY <1>2, <1>3
<1>4. CASE s # T(c)
  <2>1. PICK a \in Nat, p \in Nat : Subtree(a, p, c) /\ Pushed(key, flags, s, a, c)
    BY <1>4 DEF Lazy
  <2>2. p \in Nat \ {0} /\ a < c /\ IsPower(p) /\ c = a + p /\ s = Append(T(a), V(a, c))
    BY <2>1 DEF IsPower, Subtree, Pushed
  <2>3. a * CHUNK_LEN <= MaxTotal /\ a <= MaxTotal
    <3>1. a * CHUNK_LEN <= c * CHUNK_LEN /\ a <= a * CHUNK_LEN
          /\ a * CHUNK_LEN \in Nat /\ c * CHUNK_LEN \in Nat
      BY <2>2, Constants, Cancel
    <3> QED
      BY <3>1, Constants
  <2>4. Right(a, p, c)
    <3> SUFFICES ASSUME Left(a, p, c) PROVE FALSE
      BY <2>1 DEF Left, Right
    <3>1. T(c) = Append(T(a), V(a, c))
      <4>1. Appended(key, flags, a, c)
        BY CompleteAppend
      <4> QED
        BY <4>1, Zenon DEF Appended
    <3> QED
      BY <1>4, <2>2, <3>1
  <2> DEFINE b == a - p
             m == popcnt[b]
  <2>5. b \in Nat /\ Left(b, p, a) /\ Subtree(b, 2 * p, c)
    BY <2>3, <2>4, RightHalf
  <2>6. a = b + p /\ c = b + 2 * p
    BY <2>2
  <2> HIDE DEF b
  <2>7. b * CHUNK_LEN <= MaxTotal
    <3>1. b * CHUNK_LEN <= a * CHUNK_LEN /\ b * CHUNK_LEN \in Nat /\ a * CHUNK_LEN \in Nat
      BY <2>2, <2>5, <2>6, Constants, Cancel
    <3> QED
      BY <2>3, <3>1, Constants
  <2>8. T(a) = Append(T(b), V(b, a)) /\ popcnt[a] = m + 1
    <3>1. Appended(key, flags, b, a)
      BY <2>3, <2>5, CompleteAppend
    <3> QED
      BY <3>1, Zenon DEF Appended
  <2>9. m \in Nat /\ popcnt[c] \in Nat
    BY <2>5, PopcntStep
  <2>10. Stack(T(b), m)
    BY <2>5, <2>7, CompleteLen
  <2>11. /\ Stack(s, m + 2) /\ s[m + 2] = V(a, c) /\ s[m + 1] = V(b, a)
         /\ \A i \in 1 .. m : s[i] = T(b)[i]
    <3> DEFINE t == T(b)
               v == V(b, a)
               w == V(a, c)
               u == Append(t, v)
    <3>1. Stack(t, m) /\ s = Append(u, w)
      BY <2>2, <2>8, <2>10
    <3> HIDE DEF t, v, w, m
    <3>2. Stack(u, m + 1) /\ u[m + 1] = v /\ \A i \in 1 .. m : u[i] = t[i]
      BY <3>1, StackAppend
    <3> HIDE DEF u
    <3>3. /\ Stack(Append(u, w), (m + 1) + 1) /\ Append(u, w)[(m + 1) + 1] = w
          /\ \A i \in 1 .. m + 1 : Append(u, w)[i] = u[i]
      BY <3>2, StackAppend
    <3>4. (m + 1) + 1 = m + 2 /\ m \in Nat
      BY <2>9
    <3>5. Stack(s, m + 2) /\ s[m + 2] = w
      BY <3>1, <3>3, <3>4
    <3>6. s[m + 1] = v /\ \A i \in 1 .. m : s[i] = t[i]
      <4>1. \A i \in 1 .. m + 1 : s[i] = u[i]
        BY <3>1, <3>3
      <4> QED
        BY <3>2, <3>4, <4>1
    <3> QED
      BY <3>5, <3>6 DEF t, v, w
  <2>12. Len(s) = m + 2
    BY <2>11, StackAppend
  <2>13. Rests(h, key, flags, m + 2, b)
    <3> HIDE DEF h
    <3>1. m <= m + 2
      BY <2>9
    <3> QED
      BY <1>1, <2>11, <3>1 DEF Rests, Holds
  <2> HIDE DEF h
  <2> DEFINE o == RefTree(key, flags)[<<b * CHUNK_LEN, c * CHUNK_LEN>>]
  <2>14. TopPair(h) = o
    <3>1. (b + 2 * p) * CHUNK_LEN <= MaxTotal /\ c = b + 2 * p
      BY <2>6
    <3>2. o = parent_output(V(b, a), V(a, c), key, flags)
      BY <2>2, <2>5, <2>6, <3>1, ChunkPair
    <3>3. (m + 2) - 1 = m + 1
      BY <2>9
    <3>4. TopPair(h) = parent_output(s[m + 1], s[m + 2], key, flags)
      <4>1. TopPair(h) = parent_output(h.cv_stack[Len(h.cv_stack) - 1], h.cv_stack[Len(h.cv_stack)],
                                       h.key, h.chunk.flags)
        BY Zenon DEF TopPair
      <4> QED
        BY <1>1, <2>12, <3>3, <4>1
    <3> QED
      BY <2>11, <3>2, <3>4
  <2> DEFINE stay == popcnt[c]
             t == T(c)
  <2>15. RollsUpTo(h, key, flags, b, c)
    <3> DEFINE n == m + 2
    <3>1. Rests(h, key, flags, n, b)
      BY <2>13
    <3> HIDE DEF n
    <3> QED
      BY <2>5, <3>1, RollUpComplete
  <2>16. /\ stay \in 1 .. m + 1
         /\ Append(SubSeq(s, 1, stay - 1),
                   output_chaining_value(RollUp(h, o, m, stay - 1))) = t
    BY <1>1, <2>15 DEF RollsUpTo
  <2>17. ~ (Len(h.cv_stack) <= Merges(c))
    BY <1>1, <2>9, <2>12, <2>16 DEF Merges
  <2>18. hasher_merge_cv_stack(h, c)
           = [h EXCEPT !.cv_stack =
                Append(SubSeq(h.cv_stack, 1, Merges(c) - 1),
                       output_chaining_value(RollUp(h, TopPair(h), Len(h.cv_stack) - 2, Merges(c) - 1)))]
    BY <2>17, Zenon DEF hasher_merge_cv_stack
  <2>19. (m + 2) - 2 = m /\ Merges(c) = stay
    BY <2>9 DEF Merges
  <2> HIDE DEF m, o, stay, t
  <2>20. hasher_merge_cv_stack(h, c) = [h EXCEPT !.cv_stack = t]
    BY <1>1, <2>12, <2>14, <2>16, <2>18, <2>19
  <2> QED
    BY <2>20, HasherFields DEF h, t
<1> QED
  BY <1>3, <1>4

\* A chaining value is pushed on a complete stack.
LEMMA PushComplete ==
  ASSUME NEW key, NEW chunk, NEW flags, flags = chunk.flags, NEW s, NEW c \in Nat,
         c * CHUNK_LEN <= MaxTotal, Lazy(key, flags, s, c), NEW cv
  PROVE  hasher_push_cv(HasherOf(key, chunk, s), cv, c)
           = HasherOf(key, chunk, Append(Complete(key, flags)[c], cv))
<1> DEFINE h == hasher_merge_cv_stack(HasherOf(key, chunk, s), c)
           t == Complete(key, flags)[c]
<1>1. h = HasherOf(key, chunk, t)
  BY MergeComplete
<1>2. hasher_push_cv(HasherOf(key, chunk, s), cv, c) = [h EXCEPT !.cv_stack = Append(h.cv_stack, cv)]
  BY Zenon DEF hasher_push_cv
<1> DEFINE u == Append(t, cv)
<1> HIDE DEF h, t, u
<1>3. h.cv_stack = t /\ [h EXCEPT !.cv_stack = u] = HasherOf(key, chunk, u)
  BY <1>1, HasherFields
<1> QED
  BY <1>2, <1>3 DEF t, u

----------------------------------------------------------------------------
(* Pushing subtrees *)

\* A lone chunk's value is the tree's.
LEMMA ChunkCv ==
  ASSUME NEW key, NEW flags, NEW counter \in Nat, NEW lo, lo = counter * CHUNK_LEN,
         NEW hi \in Nat, lo <= hi, hi <= lo + CHUNK_LEN, hi <= MaxTotal
  PROVE  /\ ChunkValue(lo, hi, key, counter, flags) = Value(key, flags, lo, hi)
         /\ output_chaining_value(chunk_state_output(ChunkAt(key, flags, counter, hi)))
              = Value(key, flags, lo, hi)
<1>1. lo \in Nat /\ lo \in 0 .. MaxTotal /\ hi \in 0 .. MaxTotal /\ hi - lo <= CHUNK_LEN
  BY Constants
<1>2. chunk_state_init(key, flags, counter) = ChunkAt(key, flags, counter, lo)
  BY ChunkInit
<1>3. chunk_state_update(ChunkAt(key, flags, counter, lo), lo, hi) = ChunkAt(key, flags, counter, hi)
  BY <1>1, ChunkUpdate
<1>4. chunk_state_output(ChunkAt(key, flags, counter, hi)) = RefChunk(key, flags, lo, hi)
  BY <1>1, ChunkOutput
<1>5. RefTree(key, flags)[<<lo, hi>>] = RefChunk(key, flags, lo, hi)
  BY <1>1, RefTreeDef
<1> QED
  BY <1>2, <1>3, <1>4, <1>5, Zenon DEF ChunkValue, Value

\* A subtree's length: a power of two of chunks that divides what came before.
LEMMA SubtreeLen ==
  ASSUME NEW h, NEW counter \in Nat, h.chunk.chunk_counter = counter,
         NEW n \in Nat, CHUNK_LEN <= n, n <= MaxTotal
  PROVE  \E q \in Nat : /\ IsPower(q) /\ subtree_len(h, n) = q * CHUNK_LEN
                        /\ counter % q = 0 /\ q * CHUNK_LEN <= n
<1> DEFINE S == {p \in Powers : /\ p <= round_down_to_power_of_2[n]
                                /\ (h.chunk.chunk_counter * CHUNK_LEN) % p = 0}
           l == Largest(S)
           q == l \div CHUNK_LEN
<1>0. /\ IsPower(CHUNK_LEN) /\ CHUNK_LEN \in Nat \ {0} /\ MaxTotal \in Nat /\ n # 0
      /\ counter * CHUNK_LEN \in Nat
  BY Constants
<1>1. /\ IsPower(round_down_to_power_of_2[n]) /\ round_down_to_power_of_2[n] <= n
      /\ n < 2 * round_down_to_power_of_2[n] /\ round_down_to_power_of_2[n] \in Nat
  BY <1>0, RoundDown DEF IsPower
<1>2. CHUNK_LEN <= round_down_to_power_of_2[n]
  <2> DEFINE r == round_down_to_power_of_2[n]
  <2> SUFFICES ASSUME r < CHUNK_LEN PROVE FALSE
    BY <1>0, <1>1
  <2> HIDE DEF r
  <2>1. IsPower(r) /\ r \in Nat /\ n < 2 * r
    BY <1>1 DEF r
  <2>2. 2 * r <= CHUNK_LEN
    BY <1>0, <2>1, PowerMultiple
  <2> QED
    BY <1>0, <2>1, <2>2
<1>3. (counter * CHUNK_LEN) % CHUNK_LEN = 0
  BY <1>0
<1>4. CHUNK_LEN \in S /\ S \subseteq 0 .. MaxTotal
  BY <1>0, <1>2, <1>3, PowersDef
<1>5. l \in S /\ \A y \in S : y <= l
  <2> HIDE DEF S
  <2> QED
    BY <1>0, <1>4, LargestDef
<1>6. subtree_len(h, n) = l
  BY Zenon DEF subtree_len
<1> HIDE DEF l
<1>7. IsPower(l) /\ l \in Nat \ {0} /\ l <= n /\ CHUNK_LEN <= l /\ (counter * CHUNK_LEN) % l = 0
  BY <1>0, <1>1, <1>4, <1>5, PowersDef DEF IsPower
<1>8. IsPower(q) /\ l = q * CHUNK_LEN
  BY <1>0, <1>7, PowerQuotient
<1> HIDE DEF q
<1>9. q \in Nat \ {0}
  BY <1>8 DEF IsPower
<1>10. counter % q = 0
  <2>1. PICK k \in Nat : counter * CHUNK_LEN = l * k
    <3> DEFINE x == counter * CHUNK_LEN
    <3>1. x \in Nat /\ x % l = 0
      BY <1>0, <1>7
    <3> HIDE DEF x
    <3>2. \E k \in Nat : x = l * k
      BY <1>7, <3>1, DividesPick
    <3> QED
      BY <3>2 DEF x
  <2>2. l * k = (q * k) * CHUNK_LEN /\ q * k \in Nat
    BY <1>0, <1>8, <1>9
  <2>3. counter = q * k
    BY <1>0, <2>1, <2>2, Cancel
  <2> QED
    BY <1>9, <2>3, Divides
<1> QED
  BY <1>6, <1>7, <1>8, <1>9, <1>10

\* A hasher at the start of a chunk.
Between(key, flags, counter, s) == HasherOf(key, chunk_state_init(key, flags, counter), s)

Advance(h, n) == [h EXCEPT !.chunk.chunk_counter = @ + n]

\* Chunks counted without being held.
LEMMA BetweenFields ==
  ASSUME NEW key, NEW flags, NEW counter \in Nat, NEW s, NEW n \in Nat
  PROVE  LET h == Between(key, flags, counter, s) IN
         /\ h.key = key /\ h.chunk.flags = flags /\ h.chunk.chunk_counter = counter /\ h.cv_stack = s
         /\ Advance(h, n) = Between(key, flags, counter + n, s)
<1> DEFINE chunk == chunk_state_init(key, flags, counter)
           h == HasherOf(key, chunk, s)
           next == [chunk EXCEPT !.chunk_counter = counter + n]
<1>1. chunk = Chunk(<<key>>, counter, ZeroBlock, 0, 0, flags)
  BY DEF chunk_state_init, Chunk
<1>2. chunk.flags = flags /\ chunk.chunk_counter = counter
  BY DEF chunk_state_init
<1>3. next = chunk_state_init(key, flags, counter + n)
  <2> DEFINE cv == <<key>>
             buf == ZeroBlock
             c == counter + n
  <2> HIDE DEF cv, buf, c
  <2>1. chunk = Chunk(cv, counter, buf, 0, 0, flags)
    BY <1>1 DEF cv, buf
  <2> HIDE DEF chunk
  <2>2. [chunk EXCEPT !.chunk_counter = c] \in ChunkSet(cv, c, buf, 0, 0, flags)
    BY <2>1 DEF Chunk, ChunkSet
  <2>3. [chunk EXCEPT !.chunk_counter = c] = Chunk(cv, c, buf, 0, 0, flags)
    BY <2>2, ChunkEta
  <2> QED
    BY <2>3 DEF chunk_state_init, Chunk, cv, buf, c
<1> HIDE DEF chunk, next
<1>4. h.key = key /\ h.chunk = chunk /\ h.cv_stack = s /\ [h EXCEPT !.chunk = next] = HasherOf(key, next, s)
  BY HasherFields
<1>5. Advance(h, n) = [h EXCEPT !.chunk = next]
  <2>1. h \in HasherSet(key, chunk, s)
    BY DEF HasherOf, HasherSet
  <2> HIDE DEF h
  <2> QED
    BY <1>2, <1>4, <2>1 DEF next, HasherSet, Advance
<1> QED
  BY <1>2, <1>3, <1>4, <1>5, Zenon DEF Between, chunk

\* The last subtree pushed ends at chunk c and does not begin the message.
Paired(key, flags, s, c) ==
  \E a \in Nat \ {0}, p \in Nat : Subtree(a, p, c) /\ Pushed(key, flags, s, a, c)

\* A subtree of more than one chunk is a left and a right half.
LEMMA SubtreeHalf ==
  ASSUME NEW counter \in Nat, NEW q, IsPower(q), counter % q = 0, q > 1,
         NEW half, half = q \div 2
  PROVE  /\ half \in Nat \ {0} /\ q = 2 * half /\ IsPower(half)
         /\ Left(counter, half, counter + half)
         /\ Subtree(counter + half, half, counter + q)
<1>1. half \in Nat \ {0} /\ q = 2 * half /\ IsPower(half) /\ q \in Nat \ {0}
  BY PowerHalf DEF IsPower
<1>2. counter % half = 0
  <2>1. q % half = 0
    BY <1>1
  <2> QED
    BY <1>1, <2>1, DividesTrans
<1>3. (counter + half) % half = 0
  <2>1. half % half = 0
    BY <1>1
  <2> QED
    BY <1>1, <1>2, <2>1, DividesSum
<1>4. counter + q = (counter + half) + half /\ counter + half \in Nat
  BY <1>1
<1> QED
  BY <1>1, <1>2, <1>3, <1>4 DEF Left, Subtree

\* A subtree of q chunks is pushed.
Pushes(key, flags, counter, s, q, lo, hi) ==
  \E t : /\ PushSubtree(Between(key, flags, counter, s), lo, hi) = Between(key, flags, counter + q, t)
         /\ Lazy(key, flags, t, counter + q)
         /\ q > 1 => Paired(key, flags, t, counter + q)

\* Its two halves pushed, or its one chunk, the stack has what comes before and it.
LEMMA PushSubtreeIs ==
  ASSUME NEW key, NEW flags, NEW counter \in Nat, NEW s, Lazy(key, flags, s, counter),
         NEW q, IsPower(q), counter % q = 0, NEW lo, NEW hi,
         lo = counter * CHUNK_LEN, hi = (counter + q) * CHUNK_LEN, hi <= MaxTotal
  PROVE  Pushes(key, flags, counter, s, q, lo, hi)
<1> DEFINE h == Between(key, flags, counter, s)
           chunk == chunk_state_init(key, flags, counter)
           T(x) == Complete(key, flags)[x]
           V(x, y) == Value(key, flags, x * CHUNK_LEN, y * CHUNK_LEN)
           c == counter + q
           small == hi - lo <= CHUNK_LEN
           cvs == IF small THEN <<ChunkValue(lo, hi, key, counter, flags)>>
                  ELSE compress_subtree_to_parent_node(lo, hi, key, counter, flags)
           pushed == hasher_push_cv(h, cvs[1], counter)
           both == IF small THEN pushed
                   ELSE hasher_push_cv(pushed, cvs[2], counter + q \div 2)
<1>1. q \in Nat \ {0} /\ lo \in Nat /\ hi \in Nat /\ hi - lo = q * CHUNK_LEN /\ c \in Nat
      /\ (q * CHUNK_LEN) \div CHUNK_LEN = q
  <2>1. q \in Nat \ {0}
    BY DEF IsPower
  <2> QED
    BY <2>1, Constants
<1>2. h.key = key /\ h.chunk.flags = flags /\ h.chunk.chunk_counter = counter /\ chunk.flags = flags
      /\ h.chunk = chunk
  BY BetweenFields, HasherFields DEF Between, chunk_state_init
<1>3. PushSubtree(h, lo, hi) = [both EXCEPT !.chunk.chunk_counter = @ + q]
  <2>1. (hi - lo) \div CHUNK_LEN = q
    BY <1>1
  <2> HIDE DEF h
  <2> QED
    BY <1>2, <2>1, Zenon DEF PushSubtree, PushValues, PairCount
<1>4. small <=> q = 1
  <2>1. q * CHUNK_LEN <= 1 * CHUNK_LEN <=> q <= 1
    BY <1>1, Constants, Cancel
  <2> QED
    BY <1>1, <2>1, Constants
<1>5. counter * CHUNK_LEN <= MaxTotal
  BY <1>1, Constants
<1>6. pushed = HasherOf(key, chunk, Append(T(counter), cvs[1]))
  <2> DEFINE v == cvs[1]
  <2> HIDE DEF v
  <2>1. hasher_push_cv(HasherOf(key, chunk, s), v, counter) = HasherOf(key, chunk, Append(T(counter), v))
    <3> HIDE DEF chunk
    <3> QED
      BY <1>2, <1>5, PushComplete
  <2> QED
    BY <2>1 DEF v, Between
<1> DEFINE Next0(t) == [HasherOf(key, chunk, t) EXCEPT !.chunk.chunk_counter = @ + q]
<1>7. ASSUME NEW t PROVE Next0(t) = Between(key, flags, c, t)
  <2>1. Advance(Between(key, flags, counter, t), q) = Between(key, flags, counter + q, t)
    BY <1>1, BetweenFields
  <2> QED
    BY <2>1, Zenon DEF Between, Advance
<1>8. CASE q = 1
  <2>1. cvs[1] = V(counter, c)
    <3>1. hi <= lo + CHUNK_LEN /\ lo <= hi
      BY <1>1, <1>8, Constants
    <3>2. ChunkValue(lo, hi, key, counter, flags) = Value(key, flags, lo, hi)
      BY <1>1, <3>1, ChunkCv
    <3>3. cvs = <<ChunkValue(lo, hi, key, counter, flags)>>
      BY <1>4, <1>8
    <3> HIDE DEF cvs
    <3> QED
      BY <3>2, <3>3
  <2> DEFINE t == Append(T(counter), V(counter, c))
  <2>2. both = HasherOf(key, chunk, t)
    BY <1>4, <1>6, <1>8, <2>1
  <2>3. PushSubtree(h, lo, hi) = Between(key, flags, c, t)
    <3> HIDE DEF both, t, chunk, h
    <3> QED
      BY <1>3, <1>7, <2>2
  <2>4. Subtree(counter, q, c) /\ Pushed(key, flags, t, counter, c)
    BY <1>1 DEF Subtree, Pushed
  <2>5. Lazy(key, flags, t, c)
    BY <1>1, <2>4 DEF Lazy
  <2> HIDE DEF t, h
  <2> QED
    BY <1>8, <2>3, <2>5 DEF h, Pushes
<1>9. CASE q # 1
  <2> DEFINE half == q \div 2
             m == counter + half
             x == V(counter, m)
             y == V(m, c)
  <2>0. q > 1
    BY <1>1, <1>9
  <2>1. /\ half \in Nat \ {0} /\ q = 2 * half /\ IsPower(half)
        /\ Left(counter, half, m) /\ Subtree(m, half, c)
    BY <2>0, SubtreeHalf
  <2>2. m \in Nat \ {0} /\ c = m + half
    BY <2>1
  <2>3. cvs[1] = x /\ cvs[2] = y
    <3>1. cvs = Nodes(key, flags, counter, half, 2)
      <4>1. compress_subtree_to_parent_node(lo, hi, key, counter, flags)
              = Nodes(key, flags, counter, q \div 2, 2)
        BY <2>0, SubtreeHalves
      <4> QED
        BY <1>4, <1>9, <4>1
    <3>2. /\ Nodes(key, flags, counter, half, 2)[1] = V(counter + (1 - 1) * half, counter + 1 * half)
          /\ Nodes(key, flags, counter, half, 2)[2] = V(counter + (2 - 1) * half, counter + 2 * half)
      <4> HIDE DEF V, half
      <4> QED
        BY DEF Nodes, V
    <3>3. /\ counter + (1 - 1) * half = counter /\ counter + 1 * half = m
          /\ counter + (2 - 1) * half = m /\ counter + 2 * half = c
      BY <2>1
    <3> HIDE DEF cvs, V, half, m, c
    <3> QED
      BY <3>1, <3>2, <3>3
  <2>4. m * CHUNK_LEN <= MaxTotal
    <3>1. m * CHUNK_LEN <= c * CHUNK_LEN /\ m * CHUNK_LEN \in Nat
      BY <2>1, <2>2, Constants, Cancel
    <3> QED
      BY <1>1, <3>1, Constants
  <2> DEFINE u == Append(T(counter), x)
             t == Append(T(m), y)
  <2> HIDE DEF half, m, c
  <2>5. u = T(m)
    <3>1. Appended(key, flags, counter, m)
      BY <2>1, <2>4, CompleteAppend
    <3> QED
      BY <3>1, Zenon DEF Appended
  <2>6. pushed = HasherOf(key, chunk, u)
    <3> HIDE DEF pushed, chunk, x, cvs
    <3> QED
      BY <1>6, <2>3
  <2>7. both = HasherOf(key, chunk, t)
    <3>1. Lazy(key, flags, u, m)
      <4> HIDE DEF u
      <4> QED
        BY <2>5 DEF Lazy
    <3>2. hasher_push_cv(HasherOf(key, chunk, u), y, m) = HasherOf(key, chunk, t)
      <4> HIDE DEF u, chunk, y
      <4> QED
        BY <1>2, <2>2, <2>4, <3>1, PushComplete
    <3>3. both = hasher_push_cv(pushed, cvs[2], m)
      BY <1>4, <1>9 DEF m, half
    <3> HIDE DEF both, pushed, cvs, u, t, y, chunk
    <3> QED
      BY <2>3, <2>6, <3>2, <3>3
  <2>8. PushSubtree(h, lo, hi) = Between(key, flags, c, t)
    <3> HIDE DEF both, t, chunk, h
    <3> QED
      BY <1>3, <1>7, <2>7
  <2>9. Pushed(key, flags, t, m, c)
    BY Zenon DEF Pushed
  <2> HIDE DEF t, h
  <2>10. Paired(key, flags, t, c) /\ Lazy(key, flags, t, c)
    BY <2>1, <2>2, <2>9 DEF Paired, Lazy
  <2> QED
    BY <2>8, <2>10 DEF h, c, Pushes
<1> QED
  BY <1>8, <1>9

----------------------------------------------------------------------------
(* The loop over subtrees *)

\* A hasher at the start of chunk counter, and what is left of the input.
LoopAt(key, flags, counter, s, hi) ==
  /\ counter \in Nat /\ counter * CHUNK_LEN <= hi /\ Lazy(key, flags, s, counter)
  /\ counter * CHUNK_LEN = hi => Paired(key, flags, s, counter)
Looping(key, flags, state, hi) ==
  \E counter, s : /\ LoopAt(key, flags, counter, s, hi)
                  /\ state = <<Between(key, flags, counter, s), counter * CHUNK_LEN>>

\* A turn of the loop keeps its invariant, and goes on as long as a chunk is surpassed.
LEMMA TurnIs ==
  ASSUME NEW key, NEW flags, NEW state, NEW hi \in Nat, hi <= MaxTotal,
         Looping(key, flags, state, hi)
  PROVE  /\ Looping(key, flags, Turn(state, hi), hi)
         /\ state[2] \in Nat /\ state[2] <= hi
         /\ hi - state[2] <= CHUNK_LEN => Turn(state, hi) = state
         /\ hi - state[2] > CHUNK_LEN => Turn(state, hi)[2] >= state[2] + CHUNK_LEN
<1>1. PICK counter, s : /\ LoopAt(key, flags, counter, s, hi)
                        /\ state = <<Between(key, flags, counter, s), counter * CHUNK_LEN>>
  BY DEF Looping
<1> DEFINE h == Between(key, flags, counter, s)
           lo == counter * CHUNK_LEN
<1>2. /\ counter \in Nat /\ lo \in Nat /\ lo <= hi /\ Lazy(key, flags, s, counter)
      /\ lo = hi => Paired(key, flags, s, counter)
  BY <1>1, Constants DEF LoopAt
<1>3. state[1] = h /\ state[2] = lo
  BY <1>1
<1>4. CASE hi - lo <= CHUNK_LEN
  <2>1. Turn(state, hi) = state
    BY <1>3, <1>4 DEF Turn
  <2>2. Looping(key, flags, Turn(state, hi), hi)
    BY <2>1
  <2> QED
    BY <1>2, <1>3, <1>4, <2>1, <2>2, Constants
<1>5. CASE ~ (hi - lo <= CHUNK_LEN)
  <2>1. h.chunk.chunk_counter = counter
    BY <1>2, BetweenFields
  <2> DEFINE n == hi - lo
  <2>2. n \in Nat /\ CHUNK_LEN <= n /\ n <= MaxTotal /\ CHUNK_LEN < n
    BY <1>2, <1>5, Constants
  <2> HIDE DEF n, h, lo
  <2>3. PICK q \in Nat : /\ IsPower(q) /\ subtree_len(h, n) = q * CHUNK_LEN
                         /\ counter % q = 0 /\ q * CHUNK_LEN <= n
    BY <1>2, <2>1, <2>2, SubtreeLen
  <2> DEFINE to == lo + q * CHUNK_LEN
             c == counter + q
  <2>4. q \in Nat \ {0} /\ c \in Nat /\ to = c * CHUNK_LEN /\ to \in Nat /\ lo + CHUNK_LEN <= to
        /\ q * CHUNK_LEN \in Nat
    <3>1. q \in Nat \ {0}
      BY <2>3 DEF IsPower
    <3> QED
      BY <1>2, <3>1, Constants DEF lo
  <2>5. to <= hi /\ to <= MaxTotal
    BY <1>2, <2>2, <2>3, <2>4, Constants DEF n
  <2>6. lo = counter * CHUNK_LEN
    BY DEF lo
  <2> HIDE DEF to
  <2>7. PICK t : /\ PushSubtree(h, lo, to) = Between(key, flags, c, t)
                 /\ Lazy(key, flags, t, c) /\ (q > 1 => Paired(key, flags, t, c))
    <3>1. to = (counter + q) * CHUNK_LEN
      BY <2>4
    <3>2. Pushes(key, flags, counter, s, q, lo, to)
      BY <1>2, <2>3, <2>5, <2>6, <3>1, PushSubtreeIs
    <3> QED
      BY <3>2 DEF h, Pushes
  <2>8. Turn(state, hi) = <<Between(key, flags, c, t), to>>
    <3>1. ~ (hi - state[2] <= CHUNK_LEN)
      BY <1>3, <1>5
    <3>2. Turn(state, hi) = <<PushSubtree(state[1], state[2], state[2] + subtree_len(state[1], hi - state[2])),
                              state[2] + subtree_len(state[1], hi - state[2])>>
      BY <3>1 DEF Turn
    <3>3. state[2] + subtree_len(state[1], hi - state[2]) = to
      BY <1>3, <2>3 DEF n, to
    <3> QED
      BY <1>3, <2>7, <3>2, <3>3
  <2>9. to = hi => q > 1
    <3> SUFFICES ASSUME to = hi, q = 1 PROVE FALSE
      BY <2>4
    <3>1. to = lo + CHUNK_LEN
      BY Constants DEF to
    <3> QED
      BY <1>2, <2>2, <3>1, Constants DEF n
  <2>10. LoopAt(key, flags, c, t, hi)
    BY <2>4, <2>5, <2>7, <2>9 DEF LoopAt
  <2> HIDE DEF c
  <2>11. Looping(key, flags, Turn(state, hi), hi)
    BY <2>4, <2>8, <2>10 DEF Looping
  <2>12. Turn(state, hi)[2] >= state[2] + CHUNK_LEN
    BY <1>3, <2>4, <2>8
  <2> QED
    BY <1>2, <1>3, <1>5, <2>11, <2>12
<1> QED
  BY <1>4, <1>5

\* So does the loop, which leaves at most a chunk.
LEMMA SubtreesIs ==
  ASSUME NEW key, NEW flags, NEW h, NEW lo \in Nat, NEW hi \in Nat, lo <= hi, hi <= MaxTotal,
         Looping(key, flags, <<h, lo>>, hi)
  PROVE  /\ Looping(key, flags, Subtrees(h, lo, hi), hi)
         /\ Subtrees(h, lo, hi)[2] \in Nat /\ Subtrees(h, lo, hi)[2] <= hi
         /\ hi - Subtrees(h, lo, hi)[2] <= CHUNK_LEN
<1> DEFINE n == (hi - lo) \div CHUNK_LEN
           turns == Turns(h, lo, hi)
           Done(k) == LET s == turns[k] IN
                      /\ Looping(key, flags, s, hi)
                      /\ s[2] \in Nat /\ s[2] <= hi
                      /\ hi - s[2] <= CHUNK_LEN \/ lo + k * CHUNK_LEN <= s[2]
           I == {k \in Nat : k <= n => Done(k)}
<1>1. n \in Nat /\ hi - lo < (n + 1) * CHUNK_LEN /\ (n + 1) * CHUNK_LEN = n * CHUNK_LEN + CHUNK_LEN
      /\ n * CHUNK_LEN \in Nat
  <2>1. hi - lo \in Nat
    OBVIOUS
  <2>2. n \in Nat /\ hi - lo < (n + 1) * CHUNK_LEN
    BY <2>1, Constants, DivMod
  <2> HIDE DEF n
  <2> QED
    BY <2>2, Constants
<1>2. /\ Subtrees(h, lo, hi) = turns[n] /\ turns[0] = <<h, lo>>
      /\ \A k \in 1 .. n : turns[k] = Turn(turns[k - 1], hi)
  BY SubtreesDef
<1> HIDE DEF turns, n
<1>3. 0 \in I
  <2>1. turns[0][2] = lo /\ lo + 0 * CHUNK_LEN = lo
    BY <1>2, Constants
  <2>2. Done(0)
    BY <1>2, <2>1
  <2> QED
    BY <2>2
<1>4. ASSUME NEW k \in Nat, k \in I PROVE k + 1 \in I
  <2> SUFFICES ASSUME k + 1 <= n PROVE Done(k + 1)
    OBVIOUS
  <2> DEFINE s == turns[k]
             t == turns[k + 1]
             kc == k * CHUNK_LEN
  <2>1. Done(k)
    BY <1>1, <1>4
  <2>2. t = Turn(s, hi)
    <3>1. k + 1 \in 1 .. n /\ (k + 1) - 1 = k
      BY <1>1
    <3> QED
      BY <1>2, <3>1
  <2>3. kc \in Nat /\ (k + 1) * CHUNK_LEN = kc + CHUNK_LEN
    BY Constants
  <2> HIDE DEF s, kc
  <2>4. /\ Looping(key, flags, s, hi) /\ s[2] \in Nat /\ s[2] <= hi
        /\ hi - s[2] <= CHUNK_LEN \/ lo + kc <= s[2]
    BY <2>1 DEF s, kc
  <2>5. /\ Looping(key, flags, t, hi)
        /\ hi - s[2] <= CHUNK_LEN => t = s
        /\ hi - s[2] > CHUNK_LEN => t[2] >= s[2] + CHUNK_LEN
    BY <2>2, <2>4, TurnIs
  <2> HIDE DEF t
  <2>6. t[2] \in Nat /\ t[2] <= hi
    BY <2>5, TurnIs
  <2>7. hi - t[2] <= CHUNK_LEN \/ lo + (kc + CHUNK_LEN) <= t[2]
    BY <2>3, <2>4, <2>5, <2>6, Constants
  <2> QED
    BY <2>3, <2>5, <2>6, <2>7 DEF t
<1>5. n \in I
  <2> HIDE DEF I
  <2> QED
    BY <1>1, <1>3, <1>4, Induction
<1>6. Done(n)
  BY <1>1, <1>5
<1> DEFINE s == turns[n]
           nc == n * CHUNK_LEN
<1>7. /\ Looping(key, flags, s, hi) /\ s[2] \in Nat /\ s[2] <= hi
      /\ hi - s[2] <= CHUNK_LEN \/ lo + nc <= s[2]
  BY <1>6
<1> HIDE DEF s, nc
<1>8. hi - s[2] <= CHUNK_LEN
  <2>1. hi - lo < nc + CHUNK_LEN /\ nc \in Nat
    BY <1>1 DEF nc
  <2> QED
    BY <1>7, <2>1, Constants
<1> QED
  BY <1>2, <1>7, <1>8 DEF s

----------------------------------------------------------------------------
(* The hasher between calls *)

\* The chunk holds what follows the whole chunks; with a chunk begun the stack is
\* complete, and without one its last subtree is the right one of a pair, or nothing came.
HoldsAt(key, flags, counter, s, n) ==
  /\ counter \in Nat /\ counter * CHUNK_LEN <= n /\ n <= counter * CHUNK_LEN + CHUNK_LEN
  /\ n > counter * CHUNK_LEN => s = Complete(key, flags)[counter]
  /\ n = counter * CHUNK_LEN => (counter = 0 /\ s = <<>>) \/ Paired(key, flags, s, counter)
Hashing(h, key, flags, n) ==
  \E counter, s : /\ HoldsAt(key, flags, counter, s, n)
                  /\ h = HasherOf(key, ChunkAt(key, flags, counter, n), s)

\* A chunk's flags and counter.
LEMMA ChunkAtFlags ==
  ASSUME NEW key, NEW flags, NEW counter, NEW n
  PROVE  /\ ChunkAt(key, flags, counter, n).flags = flags
         /\ ChunkAt(key, flags, counter, n).chunk_counter = counter
BY DEF ChunkAt, Chunk

\* Between calls the stack is lazily merged.
LEMMA HoldsLazy ==
  ASSUME NEW key, NEW flags, NEW counter, NEW s, NEW n \in Nat, HoldsAt(key, flags, counter, s, n)
  PROVE  Lazy(key, flags, s, counter)
<1>1. counter \in Nat
  BY DEF HoldsAt
<1>2. CASE s = Complete(key, flags)[counter]
  BY <1>2 DEF Lazy
<1>3. CASE counter = 0 /\ s = <<>>
  <2>1. 0 \in 0 .. MaxTotal \div CHUNK_LEN
    BY Constants
  <2>2. Complete(key, flags)[0] = <<>>
    BY <2>1, CompleteDef
  <2> QED
    BY <1>3, <2>2 DEF Lazy
<1>4. CASE Paired(key, flags, s, counter)
  BY <1>4 DEF Paired, Lazy
<1>5. n > counter * CHUNK_LEN \/ n = counter * CHUNK_LEN
  BY <1>1, Constants DEF HoldsAt
<1> QED
  BY <1>2, <1>3, <1>4, <1>5 DEF HoldsAt

\* A hasher at its beginning holds the empty message.
LEMMA InitHashes ==
  ASSUME NEW key, NEW flags
  PROVE  Hashing(hasher_init_base(key, flags), key, flags, 0)
<1> DEFINE z == 0
<1>1. z \in Nat /\ z * CHUNK_LEN = z
  BY Constants
<1>2. hasher_init_base(key, flags) = HasherOf(key, chunk_state_init(key, flags, z), <<>>)
  BY DEF hasher_init_base, HasherOf
<1>3. HoldsAt(key, flags, z, <<>>, z)
  BY Constants DEF HoldsAt
<1> HIDE DEF z
<1>4. chunk_state_init(key, flags, z) = ChunkAt(key, flags, z, z)
  BY <1>1, ChunkInit
<1>5. hasher_init_base(key, flags) = HasherOf(key, ChunkAt(key, flags, z, z), <<>>)
  BY <1>2, <1>4
<1>6. Hashing(hasher_init_base(key, flags), key, flags, z)
  <2> DEFINE e == <<>>
  <2>1. HoldsAt(key, flags, z, e, z) /\ hasher_init_base(key, flags) = HasherOf(key, ChunkAt(key, flags, z, z), e)
    BY <1>3, <1>5
  <2> HIDE DEF e
  <2> QED
    BY <2>1 DEF Hashing
<1> QED
  BY <1>6 DEF z

\* After the loop, and with a chunk begun with what is left, it holds all of the input.
LEMMA FinishedHashes ==
  ASSUME NEW key, NEW flags, NEW h, NEW lo \in Nat, NEW hi \in Nat, lo <= hi, hi <= MaxTotal,
         Looping(key, flags, <<h, lo>>, hi)
  PROVE  Hashing(Finished(Subtrees(h, lo, hi), hi), key, flags, hi)
<1> DEFINE done == Subtrees(h, lo, hi)
<1>1. /\ Looping(key, flags, done, hi) /\ done[2] \in Nat /\ done[2] <= hi
      /\ hi - done[2] <= CHUNK_LEN
  BY SubtreesIs
<1> HIDE DEF done
<1>2. PICK counter, s : /\ LoopAt(key, flags, counter, s, hi)
                        /\ done = <<Between(key, flags, counter, s), counter * CHUNK_LEN>>
  BY <1>1 DEF Looping
<1> DEFINE at == counter * CHUNK_LEN
           chunk == ChunkAt(key, flags, counter, at)
           next == ChunkAt(key, flags, counter, hi)
<1>3. /\ counter \in Nat /\ at <= hi /\ Lazy(key, flags, s, counter) /\ at \in Nat
      /\ at = hi => Paired(key, flags, s, counter)
  BY <1>2, Constants DEF LoopAt
<1>4. done[1] = Between(key, flags, counter, s) /\ done[2] = at /\ hi - at <= CHUNK_LEN
  BY <1>1, <1>2
<1>5. Between(key, flags, counter, s) = HasherOf(key, chunk, s)
  BY <1>3, ChunkInit DEF Between
<1>6. done[1].chunk.chunk_counter = counter /\ done[1].chunk = chunk
  BY <1>4, <1>5, HasherFields, ChunkAtFlags
<1>7. CASE at = hi
  <2>1. Finished(done, hi) = HasherOf(key, ChunkAt(key, flags, counter, hi), s)
    BY <1>4, <1>5, <1>7 DEF Finished
  <2>2. HoldsAt(key, flags, counter, s, hi)
    BY <1>3, <1>7, Constants DEF HoldsAt
  <2> HIDE DEF at, chunk, next
  <2> QED
    BY <2>1, <2>2 DEF Hashing, done
<1>8. CASE at # hi
  <2> DEFINE t == Complete(key, flags)[counter]
  <2>1. chunk_state_update(chunk, at, hi) = next
    BY <1>3, ChunkUpdate
  <2>2. Finished(done, hi)
          = hasher_merge_cv_stack([done[1] EXCEPT !.chunk = next], counter)
    <3> HIDE DEF at, chunk, next
    <3> QED
      BY <1>4, <1>6, <1>8, <2>1 DEF Finished
  <2>3. [done[1] EXCEPT !.chunk = next] = HasherOf(key, next, s)
    <3> HIDE DEF at, chunk, next
    <3> QED
      BY <1>4, <1>5, HasherFields
  <2>4. hasher_merge_cv_stack(HasherOf(key, next, s), counter) = HasherOf(key, next, t)
    <3>1. at <= MaxTotal
      BY <1>3, Constants
    <3>2. next.flags = flags
      BY ChunkAtFlags
    <3> HIDE DEF next
    <3> QED
      BY <1>3, <3>1, <3>2, MergeComplete
  <2>5. HoldsAt(key, flags, counter, t, hi)
    BY <1>3, <1>4, <1>8, Constants DEF HoldsAt
  <2>6. Finished(done, hi) = HasherOf(key, next, t)
    BY <2>2, <2>3, <2>4
  <2> HIDE DEF at, chunk, t
  <2> QED
    BY <2>5, <2>6 DEF Hashing, next, done
<1> QED
  BY <1>7, <1>8

\* blake3_hasher_update() takes a hasher of lo bytes to one of hi.
LEMMA UpdateHashes ==
  ASSUME NEW key, NEW flags, NEW h, NEW lo \in Nat, NEW hi \in Nat, lo <= hi, hi <= MaxTotal,
         Hashing(h, key, flags, lo)
  PROVE  Hashing(blake3_hasher_update(h, lo, hi), key, flags, hi)
<1>1. PICK counter, s : /\ HoldsAt(key, flags, counter, s, lo)
                        /\ h = HasherOf(key, ChunkAt(key, flags, counter, lo), s)
  BY DEF Hashing
<1> DEFINE at == counter * CHUNK_LEN
           old == ChunkAt(key, flags, counter, lo)
           begun == chunk_state_len(h.chunk)
           space == CHUNK_LEN - begun
           take == CASE begun = 0                       -> 0
                     [] begun > 0 /\ hi - lo > space    -> space
                     [] begun > 0 /\ hi - lo <= space   -> hi - lo
           chunk == chunk_state_update(h.chunk, lo, lo + take)
           ready == IF begun = 0 THEN h
                    ELSE [hasher_push_cv(h, output_chaining_value(chunk_state_output(chunk)),
                                         chunk.chunk_counter)
                          EXCEPT !.chunk = chunk_state_init(h.key, h.chunk.flags,
                                                            chunk.chunk_counter + 1)]
           mid == lo + take
<1>2. /\ counter \in Nat /\ at \in Nat /\ at <= lo /\ lo <= at + CHUNK_LEN
      /\ lo > at => s = Complete(key, flags)[counter]
      /\ Lazy(key, flags, s, counter)
  <2>1. Lazy(key, flags, s, counter)
    BY <1>1, HoldsLazy
  <2> QED
    BY <1>1, <2>1, Constants DEF HoldsAt
<1>3. h.key = key /\ h.chunk = old /\ h.cv_stack = s /\ old.flags = flags /\ old.chunk_counter = counter
  BY <1>1, HasherFields, ChunkAtFlags
<1>4. begun = lo - at
  BY <1>2, <1>3, ChunkOutput
<1>5. blake3_hasher_update(h, lo, hi)
        = CASE hi = lo                 -> h
            [] hi # lo /\ mid = hi     -> [h EXCEPT !.chunk = chunk]
            [] hi # lo /\ mid # hi     -> Finished(Subtrees(ready, mid, hi), hi)
  BY Zenon DEF blake3_hasher_update
<1>6. CASE hi = lo
  <2> HIDE DEF begun, space, take, chunk, ready, mid
  <2>1. blake3_hasher_update(h, lo, hi) = h
    BY <1>5, <1>6
  <2> QED
    BY <1>6, <2>1
<1>7. CASE hi # lo
  <2>1. /\ mid \in Nat /\ lo <= mid /\ mid <= hi
        /\ begun = 0 => mid = lo /\ mid < hi
        /\ begun # 0 => mid <= at + CHUNK_LEN /\ at < mid
                        /\ (mid # hi => mid = at + CHUNK_LEN)
    <3> HIDE DEF begun, at
    <3>1. begun \in Nat /\ begun <= CHUNK_LEN
      BY <1>2, <1>4, Constants
    <3>2. CASE begun = 0
      BY <1>7, <3>2
    <3>3. CASE begun # 0 /\ hi - lo > space
      <4>1. take = space
        BY <3>1, <3>3, Constants
      <4> HIDE DEF take
      <4> QED
        BY <1>2, <1>4, <1>7, <3>1, <3>3, <4>1, Constants
    <3>4. CASE begun # 0 /\ ~ (hi - lo > space)
      <4>1. take = hi - lo
        BY <3>1, <3>4, Constants
      <4> HIDE DEF take
      <4> QED
        BY <1>2, <1>4, <1>7, <3>1, <3>4, <4>1, Constants
    <3> QED
      BY <3>2, <3>3, <3>4
  <2> HIDE DEF mid
  <2>2. chunk = ChunkAt(key, flags, counter, mid)
    <3>1. chunk = chunk_state_update(h.chunk, lo, mid)
      BY DEF mid
    <3>2. chunk_state_update(old, lo, mid) = ChunkAt(key, flags, counter, mid)
      BY <1>2, <2>1, ChunkUpdate
    <3> QED
      BY <1>3, <3>1, <3>2
  <2> HIDE DEF chunk, begun
  <2>3. CASE mid = hi
    <3>1. begun # 0 /\ at < lo
      BY <1>2, <1>4, <2>1, <2>3
    <3>2. blake3_hasher_update(h, lo, hi) = [h EXCEPT !.chunk = chunk]
      <4> HIDE DEF ready, take
      <4> QED
        BY <1>5, <1>7, <2>3
    <3>3. blake3_hasher_update(h, lo, hi) = HasherOf(key, ChunkAt(key, flags, counter, hi), s)
      BY <1>1, <2>2, <2>3, <3>2, HasherFields
    <3>4. HoldsAt(key, flags, counter, s, hi)
      BY <1>2, <2>1, <2>3, <3>1 DEF HoldsAt
    <3> HIDE DEF at, take, ready
    <3> QED
      BY <3>3, <3>4 DEF Hashing
  <2>4. CASE mid # hi
    <3>1. blake3_hasher_update(h, lo, hi) = Finished(Subtrees(ready, mid, hi), hi)
      <4> HIDE DEF ready, take
      <4> QED
        BY <1>5, <1>7, <2>4
    <3>2. Looping(key, flags, <<ready, mid>>, hi)
      <4>1. CASE begun = 0
        <5>1. ready = h /\ mid = lo /\ lo = at /\ at < hi
          BY <1>2, <1>4, <2>1, <2>4, <4>1
        <5>2. h = Between(key, flags, counter, s)
          <6>1. chunk_state_init(key, flags, counter) = ChunkAt(key, flags, counter, at)
            BY <1>2, ChunkInit
          <6> QED
            BY <1>1, <5>1, <6>1 DEF Between
        <5>3. LoopAt(key, flags, counter, s, hi)
          BY <1>2, <5>1 DEF LoopAt
        <5> HIDE DEF ready, take
        <5> QED
          BY <5>1, <5>2, <5>3 DEF Looping
      <4>2. CASE begun # 0
        <5> DEFINE v == Value(key, flags, at, mid)
                   t == Append(Complete(key, flags)[counter], v)
                   c == counter + 1
        <5>1. mid = at + CHUNK_LEN /\ mid < hi /\ mid = c * CHUNK_LEN /\ c \in Nat
          BY <1>2, <2>1, <2>4, <4>2, Constants
        <5>2. output_chaining_value(chunk_state_output(chunk)) = v
          <6> DEFINE l == at
          <6>1. l = counter * CHUNK_LEN /\ mid <= l + CHUNK_LEN /\ l <= mid /\ mid <= MaxTotal
            BY <1>2, <2>1, <5>1, Constants
          <6> HIDE DEF l
          <6>2. output_chaining_value(chunk_state_output(ChunkAt(key, flags, counter, mid)))
                  = Value(key, flags, l, mid)
            BY <1>2, <2>1, <6>1, ChunkCv
          <6> QED
            BY <2>2, <6>2 DEF l
        <5>3. chunk.chunk_counter = counter
          BY <2>2, ChunkAtFlags
        <5>4. hasher_push_cv(h, v, counter) = HasherOf(key, old, t)
          <6>1. at <= MaxTotal
            BY <1>2, <2>1, <5>1, Constants
          <6> HIDE DEF old, v
          <6> QED
            BY <1>1, <1>2, <1>3, <6>1, PushComplete DEF old
        <5>5. ready = [HasherOf(key, old, t) EXCEPT !.chunk = chunk_state_init(key, flags, c)]
          BY <1>3, <4>2, <5>2, <5>3, <5>4
        <5> HIDE DEF ready, t, v, old
        <5>6. ready = Between(key, flags, c, t)
          BY <5>5, HasherFields DEF Between
        <5>7. Subtree(counter, 1, c) /\ Pushed(key, flags, t, counter, c)
          <6>1. counter % 1 = 0
            BY <1>2
          <6> QED
            BY <1>2, <5>1, <6>1, PowerOne DEF Subtree, Pushed, t, v
        <5>8. Lazy(key, flags, t, c)
          <6>1. 1 \in Nat
            OBVIOUS
          <6> QED
            BY <1>2, <5>7, <6>1 DEF Lazy
        <5>9. LoopAt(key, flags, c, t, hi)
          BY <5>1, <5>8 DEF LoopAt
        <5> HIDE DEF c
        <5> QED
          BY <5>1, <5>6, <5>9 DEF Looping
      <4> QED
        BY <4>1, <4>2
    <3> HIDE DEF ready, take
    <3> QED
      BY <2>1, <3>1, <3>2, FinishedHashes
  <2> QED
    BY <2>3, <2>4
<1> QED
  BY <1>6, <1>7

----------------------------------------------------------------------------
(* Invariants *)

\* A number above zero has a one.
LEMMA PopcntPositive ==
  ASSUME NEW a \in Nat \ {0}, a <= MaxTotal
  PROVE  popcnt[a] >= 1
<1> DEFINE p == LowBit(a)
           b == a - p
<1>1. IsPower(p) /\ p \in Nat \ {0} /\ b \in Nat /\ b % (2 * p) = 0
  BY LowBitDef
<1>2. b + p = a
  BY <1>1
<1> HIDE DEF p, b
<1>3. popcnt[b + p] = popcnt[b] + 1 /\ popcnt[b] \in Nat
  BY <1>1, PopcntDigit, PopcntStep
<1> QED
  BY <1>2, <1>3

\* No power is zero.
LEMMA Pow2Positive ==
  ASSUME NEW d \in Nat
  PROVE  Pow2[d] \in Nat \ {0}
<1> DEFINE I == {k \in Nat : Pow2[k] \in Nat \ {0}}
<1>1. 0 \in I
  BY Pow2Def
<1>2. ASSUME NEW k \in Nat, k \in I PROVE k + 1 \in I
  <2>1. Pow2[k + 1] = 2 * Pow2[k]
    BY Pow2Def
  <2> QED
    BY <1>2, <2>1
<1> HIDE DEF I
<1>3. Nat \subseteq I
  BY <1>1, <1>2, Induction
<1> QED
  BY <1>3 DEF I

HasherInv == Hashing(hasher, hasher.key, hasher.chunk.flags, total)
Blake3Inv ==
  /\ mode \in {"none", "hash", "keyed", "derive"}
  /\ total \in 0 .. MaxTotal
  /\ mode = "none" => total = 0
  /\ HasherInv

\* A hasher's key and flags.
LEMMA HashingFields ==
  ASSUME NEW h, NEW key, NEW flags, NEW n, Hashing(h, key, flags, n)
  PROVE  h.key = key /\ h.chunk.flags = flags
<1>1. PICK counter, s : h = HasherOf(key, ChunkAt(key, flags, counter, n), s)
  BY DEF Hashing
<1> QED
  BY <1>1, HasherFields, ChunkAtFlags

\* How long the stack is.
LEMMA StackLength ==
  ASSUME NEW key, NEW flags, NEW counter, NEW s, NEW n \in 0 .. MaxTotal,
         HoldsAt(key, flags, counter, s, n)
  PROVE  /\ Len(s) \in Nat /\ Len(s) <= MAX_DEPTH + 1
         /\ n > counter * CHUNK_LEN => Len(s) = popcnt[counter]
         /\ n = counter * CHUNK_LEN => Len(s) # 1
<1> DEFINE at == counter * CHUNK_LEN
           top == Pow2[MAX_DEPTH]
<1>1. counter \in Nat /\ at \in Nat /\ at <= n /\ n <= MaxTotal /\ n \in Nat /\ at <= MaxTotal
  BY Constants DEF HoldsAt
<1>2. top \in Nat \ {0} /\ MaxTotal <= top * CHUNK_LEN
  <2>1. top \in Nat \ {0} /\ MaxTotal <= CHUNK_LEN * top
    BY Constants, Pow2Positive, Blake3Assumption
  <2> HIDE DEF top
  <2> QED
    BY <2>1, Constants
<1> HIDE DEF top
<1>3. counter <= top
  <2>1. top * CHUNK_LEN \in Nat
    BY <1>2, Constants
  <2>2. counter * CHUNK_LEN <= top * CHUNK_LEN
    BY <1>1, <1>2, <2>1, Constants
  <2> QED
    BY <1>1, <1>2, <2>2, Constants, Cancel
<1>4. ASSUME NEW a \in Nat, a < top PROVE popcnt[a] \in Nat /\ popcnt[a] <= MAX_DEPTH
  BY <1>4, Constants, PopcntBound, PopcntStep DEF top
<1>5. CASE n > at
  <2>1. s = Complete(key, flags)[counter] /\ Stack(s, popcnt[counter])
    BY <1>1, <1>5, CompleteLen DEF HoldsAt
  <2>2. Len(s) = popcnt[counter] /\ popcnt[counter] \in Nat
    BY <2>1, StackAppend
  <2>3. popcnt[counter] <= MAX_DEPTH + 1
    <3>1. CASE counter = 0
      BY <1>2, <1>4, <2>2, <3>1, Constants
    <3>2. CASE counter # 0
      <4> DEFINE a == counter - 1
      <4>1. a \in Nat /\ a < top /\ a + 1 = counter
        BY <1>1, <1>2, <1>3, <3>2
      <4> HIDE DEF a
      <4>2. popcnt[a + 1] <= popcnt[a] + 1 /\ popcnt[a] \in Nat /\ popcnt[a] <= MAX_DEPTH
        BY <1>4, <4>1, PopcntSucc
      <4> QED
        BY <2>2, <4>1, <4>2, Constants
    <3> QED
      BY <3>1, <3>2
  <2> QED
    BY <1>1, <1>5, <2>2, <2>3
<1>6. CASE n = at
  <2>1. CASE counter = 0 /\ s = <<>>
    <3>1. Len(s) = 0
      BY <2>1
    <3> QED
      BY <1>6, <3>1, Constants
  <2>2. CASE Paired(key, flags, s, counter)
    <3>1. PICK a \in Nat \ {0}, p \in Nat : Subtree(a, p, counter) /\ Pushed(key, flags, s, a, counter)
      BY <2>2 DEF Paired
    <3> DEFINE t == Complete(key, flags)[a]
               v == Value(key, flags, a * CHUNK_LEN, counter * CHUNK_LEN)
    <3>2. a < counter /\ s = Append(t, v)
      BY <3>1 DEF Subtree, IsPower, Pushed
    <3>3. a * CHUNK_LEN <= MaxTotal /\ a <= MaxTotal
      <4>1. a * CHUNK_LEN <= at /\ a <= a * CHUNK_LEN /\ a * CHUNK_LEN \in Nat
        BY <1>1, <3>2, Constants, Cancel
      <4> QED
        BY <1>1, <4>1, Constants
    <3>4. Stack(t, popcnt[a]) /\ popcnt[a] \in Nat /\ popcnt[a] >= 1 /\ popcnt[a] <= MAX_DEPTH
      BY <1>1, <1>2, <1>3, <1>4, <3>2, <3>3, CompleteLen, PopcntPositive
    <3> HIDE DEF t, v
    <3>5. Stack(Append(t, v), popcnt[a] + 1)
      BY <3>4, StackAppend
    <3>6. Len(Append(t, v)) = popcnt[a] + 1
      BY <3>5, StackAppend
    <3> QED
      BY <1>6, <3>2, <3>4, <3>6, Constants
  <2> QED
    BY <1>6, <2>1, <2>2 DEF HoldsAt
<1> QED
  BY <1>1, <1>5, <1>6

\* The invariant says what the stack is, and that it has room.
LEMMA InvImplies == Blake3Inv => StackIsBinary
<1> SUFFICES ASSUME Blake3Inv PROVE StackIsBinary
  OBVIOUS
<1> DEFINE key == hasher.key
           flags == hasher.chunk.flags
<1>0. total \in 0 .. MaxTotal /\ total \in Nat /\ mode \in {"none", "hash", "keyed", "derive"}
  BY Constants DEF Blake3Inv
<1>1. PICK counter, s : /\ HoldsAt(key, flags, counter, s, total)
                        /\ hasher = HasherOf(key, ChunkAt(key, flags, counter, total), s)
  BY DEF Blake3Inv, HasherInv, Hashing
<1> DEFINE at == counter * CHUNK_LEN
           chunk == ChunkAt(key, flags, counter, total)
           w == Whole(total - at)
<1> HIDE DEF key, flags
<1>2. /\ counter \in Nat /\ at \in Nat /\ at <= total /\ total <= at + CHUNK_LEN /\ at <= MaxTotal
      /\ Lazy(key, flags, s, counter)
  <2>1. Lazy(key, flags, s, counter)
    BY <1>0, <1>1, HoldsLazy
  <2> QED
    BY <1>0, <1>1, <2>1, Constants DEF HoldsAt
<1>3. /\ hasher.chunk = chunk /\ hasher.cv_stack = s /\ chunk.chunk_counter = counter
      /\ chunk.flags = flags
  BY <1>1, HasherFields, ChunkAtFlags
<1>4. chunk_state_len(chunk) = total - at
  BY <1>0, <1>2, ChunkOutput
<1>5. chunk.buf_len \in 0 .. BLOCK_LEN
  <2>1. chunk.buf_len = total - at - w * BLOCK_LEN
    BY DEF ChunkAt, Chunk
  <2>2. total - at \in Nat
    BY <1>0, <1>2
  <2>3. total - at - w * BLOCK_LEN \in 0 .. BLOCK_LEN
    BY <2>2, WholeIs
  <2> QED
    BY <2>1, <2>3
<1>6. /\ Len(s) <= MAX_DEPTH + 1
      /\ total > at => Len(s) = popcnt[counter]
      /\ total = at => Len(s) # 1
  BY <1>0, <1>1, StackLength
<1>7. hasher_merge_cv_stack(hasher, counter) = HasherOf(key, chunk, Complete(key, flags)[counter])
  <2> HIDE DEF chunk
  <2> QED
    BY <1>1, <1>2, <1>3, MergeComplete DEF chunk
<1>8. hasher_merge_cv_stack(hasher, counter).cv_stack = Complete(key, flags)[counter]
  <2> HIDE DEF chunk
  <2> QED
    BY <1>7, HasherFields
<1>9. hasher.key = key /\ hasher.chunk.flags = flags
  BY DEF key, flags
<1> HIDE DEF chunk, at
<1>10. Blake3TypeOK
  <2>1. at + (total - at) = total /\ total - at <= CHUNK_LEN
    BY <1>0, <1>2, Constants
  <2>2. hasher.chunk.chunk_counter * CHUNK_LEN = at
    BY <1>3 DEF at
  <2> QED
    BY <1>0, <1>3, <1>4, <1>5, <1>6, <2>1, <2>2 DEF Blake3TypeOK
<1>11. IF chunk_state_len(hasher.chunk) > 0 THEN Len(hasher.cv_stack) = popcnt[counter]
       ELSE Len(hasher.cv_stack) # 1
  BY <1>0, <1>2, <1>3, <1>4, <1>6
<1> QED
  BY <1>3, <1>8, <1>9, <1>10, <1>11, Zenon DEF StackIsBinary

\* A hasher just initialised.
LEMMA InitHolds ==
  ASSUME NEW key, NEW flags
  PROVE  LET h == hasher_init_base(key, flags) IN Hashing(h, h.key, h.chunk.flags, 0)
<1> DEFINE h == hasher_init_base(key, flags)
           z == 0
<1>1. Hashing(h, key, flags, z)
  BY InitHashes
<1> HIDE DEF h, z
<1>2. h.key = key /\ h.chunk.flags = flags
  BY <1>1, HashingFields
<1> QED
  BY <1>1, <1>2 DEF h, z

\* It holds at first: the hasher is one of an empty message.
LEMMA InvInit == Init => Blake3Inv
BY InitHolds, Constants DEF Init, NoHasher, Blake3Inv, HasherInv

\* Every call keeps it: those that initialise, update, and reset; finalizing changes nothing.
LEMMA InvNext == Blake3Inv /\ [Next]_vars => Blake3Inv'
<1> SUFFICES ASSUME Blake3Inv, [Next]_vars PROVE Blake3Inv'
  OBVIOUS
<1>1. /\ mode \in {"none", "hash", "keyed", "derive"} /\ total \in 0 .. MaxTotal
      /\ mode = "none" => total = 0
      /\ Hashing(hasher, hasher.key, hasher.chunk.flags, total)
  BY DEF Blake3Inv, HasherInv
<1>2. ASSUME NEW key, NEW flags, hasher' = hasher_init_base(key, flags), total' = 0
      PROVE  HasherInv'
  BY <1>2, InitHolds DEF HasherInv
<1>3. CASE blake3_hasher_init
  <2>1. total' = 0 /\ hasher' = hasher_init_base(IV, {}) /\ mode' = "hash"
    BY <1>1, <1>3 DEF blake3_hasher_init
  <2>2. HasherInv'
    BY <1>2, <2>1
  <2> QED
    BY <2>1, <2>2, Constants DEF Blake3Inv
<1>4. CASE blake3_hasher_init_keyed
  <2>1. total' = 0 /\ hasher' = hasher_init_base("key", {"KEYED_HASH"}) /\ mode' = "keyed"
    BY <1>1, <1>4 DEF blake3_hasher_init_keyed
  <2>2. HasherInv'
    BY <1>2, <2>1
  <2> QED
    BY <2>1, <2>2, Constants DEF Blake3Inv
<1>5. CASE blake3_hasher_init_derive_key
  <2>1. total' = 0 /\ mode' = "derive"
    BY <1>1, <1>5 DEF blake3_hasher_init_derive_key
  <2>2. \E key : hasher' = hasher_init_base(key, {"DERIVE_KEY_MATERIAL"})
    BY <1>5, Zenon DEF blake3_hasher_init_derive_key
  <2>3. HasherInv'
    BY <1>2, <2>1, <2>2
  <2> QED
    BY <2>1, <2>3, Constants DEF Blake3Inv
<1>6. CASE Update
  <2>1. PICK n \in Lens : /\ total + n <= MaxTotal /\ total' = total + n
                          /\ hasher' = blake3_hasher_update(hasher, total, total + n)
    BY <1>6 DEF Update
  <2>2. n \in Nat /\ total \in Nat /\ total + n \in Nat /\ total <= total + n
    BY <1>1, Blake3Assumption, Constants
  <2> DEFINE hi == total + n
             key == hasher.key
             flags == hasher.chunk.flags
  <2>3. Hashing(hasher, key, flags, total)
    BY <1>1
  <2> HIDE DEF key, flags
  <2>4. Hashing(blake3_hasher_update(hasher, total, hi), key, flags, hi)
    <3>1. hi \in Nat /\ total <= hi /\ hi <= MaxTotal
      BY <2>1, <2>2
    <3> HIDE DEF hi
    <3> QED
      BY <2>2, <2>3, <3>1, UpdateHashes
  <2>5. Hashing(hasher', key, flags, total')
    BY <2>1, <2>4
  <2>6. hasher'.key = key /\ hasher'.chunk.flags = flags
    BY <2>5, HashingFields
  <2>7. HasherInv'
    BY <2>5, <2>6 DEF HasherInv
  <2>8. total' \in 0 .. MaxTotal /\ mode' = mode /\ mode # "none"
    BY <1>6, <2>1, <2>2, Constants DEF Update
  <2> QED
    BY <1>1, <2>7, <2>8 DEF Blake3Inv
<1>7. CASE blake3_hasher_reset
  <2> DEFINE key == hasher.key
             flags == hasher.chunk.flags
  <2>1. PICK counter, s : hasher = HasherOf(key, ChunkAt(key, flags, counter, total), s)
    BY <1>1 DEF Hashing
  <2>2. /\ mode' = mode /\ mode # "none" /\ total' = 0
        /\ hasher' = [hasher EXCEPT !.chunk = chunk_state_init(key, @.flags, 0), !.cv_stack = <<>>]
    BY <1>7 DEF blake3_hasher_reset
  <2> HIDE DEF key
  <2>3. hasher' = hasher_init_base(key, flags)
    <3> DEFINE chunk == ChunkAt(key, flags, counter, total)
    <3>1. hasher = HasherOf(key, chunk, s)
      BY <2>1
    <3>2. hasher.chunk.flags = flags
      OBVIOUS
    <3> HIDE DEF chunk, flags
    <3> DEFINE start == chunk_state_init(key, flags, 0)
    <3>3. hasher' = [hasher EXCEPT !.chunk = start, !.cv_stack = <<>>]
      BY <2>2, <3>2
    <3> HIDE DEF start
    <3>4. hasher' = HasherOf(key, start, <<>>)
      BY <3>1, <3>3 DEF HasherOf
    <3> QED
      BY <3>4 DEF start, HasherOf, hasher_init_base
  <2>4. HasherInv'
    BY <1>2, <2>2, <2>3
  <2> QED
    BY <1>1, <2>2, <2>4, Constants DEF Blake3Inv
<1>8. CASE UNCHANGED vars
  BY <1>8 DEF vars, Blake3Inv, HasherInv
<1> QED
  BY <1>3, <1>4, <1>5, <1>6, <1>7, <1>8 DEF Next

\* Whatever the calls of the hasher, and in whatever pieces the message comes, up to the
\* last merges the stack is the binary expansion of the number of chunks: never more
\* values than it has room for, each of a complete subtree of the message so far.
THEOREM Blake3Stack == Spec => []StackIsBinary
<1>1. Spec => []Blake3Inv
  BY InvInit, InvNext, PTL DEF Spec
<1> QED
  BY <1>1, InvImplies, PTL

----------------------------------------------------------------------------
(* Up to the root *)

\* The lowest digit is the largest power that divides.
LEMMA LowBitMax ==
  ASSUME NEW b \in Nat \ {0}, b <= MaxTotal, NEW p, IsPower(p), b % p = 0
  PROVE  p <= LowBit(b)
<1> DEFINE S == {x \in Powers : b % x = 0}
<1>1. p \in Nat \ {0} /\ MaxTotal \in Nat
  BY Constants DEF IsPower
<1>2. p <= b
  BY <1>1, DividesLe
<1>3. p \in S /\ S \subseteq 0 .. MaxTotal
  BY <1>1, <1>2, PowersDef
<1>4. \A y \in S : y <= Largest(S)
  <2> HIDE DEF S
  <2> QED
    BY <1>1, <1>3, LargestDef
<1> QED
  BY <1>3, <1>4 DEF LowBit

\* What follows chunk b is no more than the subtree before it.
Follows(b, hi) ==
  /\ b \in Nat /\ hi \in Nat /\ b * CHUNK_LEN <= hi /\ hi <= MaxTotal
  /\ b # 0 => b * CHUNK_LEN < hi /\ hi - b * CHUNK_LEN <= LowBit(b) * CHUNK_LEN

\* The subtree before joins it.
LEMMA FollowsBelow ==
  ASSUME NEW key, NEW flags, NEW b, NEW hi, Follows(b, hi), b # 0,
         NEW a, a = b - LowBit(b)
  PROVE  /\ a \in Nat /\ a < b /\ Left(a, LowBit(b), b) /\ Follows(a, hi)
         /\ RefTree(key, flags)[<<a * CHUNK_LEN, hi>>]
              = parent_output(Value(key, flags, a * CHUNK_LEN, b * CHUNK_LEN),
                              Value(key, flags, b * CHUNK_LEN, hi), key, flags)
<1> DEFINE p == LowBit(b)
           lo == a * CHUNK_LEN
           mid == b * CHUNK_LEN
           size == p * CHUNK_LEN
<1>1. /\ b \in Nat \ {0} /\ hi \in Nat /\ mid < hi /\ hi <= MaxTotal /\ hi - mid <= size
  BY DEF Follows
<1>2. mid \in Nat /\ b <= MaxTotal
  <2>1. b <= mid /\ mid \in Nat
    BY <1>1, Constants
  <2> QED
    BY <1>1, <2>1, Constants
<1>3. IsPower(p) /\ p \in Nat \ {0} /\ b % p = 0 /\ b - p \in Nat /\ (b - p) % (2 * p) = 0
  BY <1>1, <1>2, LowBitDef
<1> HIDE DEF p
<1>4. a = b - p /\ b = a + p /\ a \in Nat /\ a < b /\ a % (2 * p) = 0
  <2>1. a = b - p
    BY DEF p
  <2> QED
    BY <1>1, <1>3, <2>1
<1>5. Left(a, p, b)
  <2>1. a % p = 0
    <3>1. 2 * p \in Nat \ {0} /\ (2 * p) % p = 0
      BY <1>3, DividesMultiple
    <3> QED
      BY <1>3, <1>4, <3>1, DividesTrans
  <2> QED
    BY <1>3, <1>4, <2>1 DEF Left, Subtree
<1>6. lo \in Nat /\ size \in Nat /\ mid = lo + size /\ CHUNK_LEN <= size /\ IsPower(size)
  <2>1. IsPower(size)
    BY <1>3, Constants, PowerProduct
  <2>2. lo \in Nat /\ size \in Nat /\ mid = lo + size /\ CHUNK_LEN <= size
    BY <1>3, <1>4, Constants
  <2> QED
    BY <2>1, <2>2
<1> HIDE DEF lo, mid, size
<1>7. RefTree(key, flags)[<<lo, hi>>]
        = parent_output(Value(key, flags, lo, mid), Value(key, flags, mid, hi), key, flags)
  <2>1. size = mid - lo
    BY <1>2, <1>6
  <2> QED
    BY <1>1, <1>2, <1>6, <2>1, ParentNode
<1>8. a # 0 => hi - lo <= LowBit(a) * CHUNK_LEN
  <2> SUFFICES ASSUME a # 0 PROVE hi - lo <= LowBit(a) * CHUNK_LEN
    OBVIOUS
  <2> DEFINE r == LowBit(a)
  <2>1. IsPower(2 * p) /\ a \in Nat \ {0} /\ a <= MaxTotal
    BY <1>2, <1>3, <1>4, Constants, PowerDouble
  <2>2. 2 * p <= r /\ r \in Nat
    BY <1>4, <2>1, LowBitMax, LowBitDef
  <2> HIDE DEF r
  <2>3. hi - lo <= 2 * size
    BY <1>1, <1>2, <1>6
  <2>4. (2 * p) * CHUNK_LEN <= r * CHUNK_LEN
    BY <1>3, <2>2, Constants, Cancel
  <2>5. 2 * size = (2 * p) * CHUNK_LEN /\ r * CHUNK_LEN \in Nat
    BY <1>3, <2>2, Constants DEF size
  <2>6. hi - lo <= r * CHUNK_LEN
    BY <1>1, <1>6, <2>3, <2>4, <2>5
  <2> QED
    BY <2>6 DEF r
<1>9. Follows(a, hi)
  <2>1. lo < hi /\ lo <= hi
    BY <1>1, <1>2, <1>6, <1>3, Constants
  <2> QED
    BY <1>1, <1>4, <1>8, <2>1 DEF Follows, lo
<1> QED
  BY <1>4, <1>5, <1>7, <1>9 DEF lo, mid, p

RollsToRoot(h, key, flags, b, hi) ==
  RollUp(h, RefTree(key, flags)[<<b * CHUNK_LEN, hi>>], popcnt[b], 0)
    = RefTree(key, flags)[<<0, hi>>]

\* What follows the complete subtrees rolls up, over all of them, to the root.
LEMMA RollUpRoot ==
  ASSUME NEW h, NEW key, NEW flags, NEW n, NEW b, Rests(h, key, flags, n, b),
         NEW hi, Follows(b, hi)
  PROVE  RollsToRoot(h, key, flags, b, hi)
<1> DEFINE Node(x) == RefTree(key, flags)[<<x * CHUNK_LEN, hi>>]
           I == {x \in Nat : Follows(x, hi) /\ Rests(h, key, flags, n, x)
                               => RollsToRoot(h, key, flags, x, hi)}
<1>1. ASSUME NEW x \in Nat, \A y \in Nat : y < x => y \in I PROVE x \in I
  <2> SUFFICES ASSUME Follows(x, hi), Rests(h, key, flags, n, x)
               PROVE  RollsToRoot(h, key, flags, x, hi)
    OBVIOUS
  <2>1. CASE x = 0
    <3> DEFINE z == 0
    <3>1. popcnt[x] = z /\ x * CHUNK_LEN = z /\ z \in Nat
      BY <2>1, PopcntDef, Constants
    <3> HIDE DEF z
    <3>2. RollUp(h, RefTree(key, flags)[<<z, hi>>], z, z) = RefTree(key, flags)[<<z, hi>>]
      BY <3>1, RollUpNone
    <3>3. RollUp(h, RefTree(key, flags)[<<x * CHUNK_LEN, hi>>], popcnt[x], z)
            = RefTree(key, flags)[<<z, hi>>]
      BY <3>1, <3>2
    <3> QED
      BY <3>3 DEF RollsToRoot, z
  <2>2. CASE x # 0
    <3> DEFINE y == x - LowBit(x)
    <3>1. /\ y \in Nat /\ y < x /\ Left(y, LowBit(x), x) /\ Follows(y, hi)
          /\ Node(y) = parent_output(Value(key, flags, y * CHUNK_LEN, x * CHUNK_LEN),
                                     Value(key, flags, x * CHUNK_LEN, hi), key, flags)
      BY <2>2, FollowsBelow
    <3> HIDE DEF y
    <3>2. InMessage(x) /\ InMessage(y)
      <4>1. x * CHUNK_LEN \in Nat /\ y * CHUNK_LEN \in Nat
        BY <3>1, Constants
      <4>2. /\ hi \in Nat /\ hi <= MaxTotal
            /\ x * CHUNK_LEN <= hi /\ y * CHUNK_LEN <= hi
        BY <3>1 DEF Follows
      <4> QED
        BY <4>1, <4>2, Constants DEF InMessage
    <3>3. /\ Rests(h, key, flags, n, y) /\ popcnt[x] = popcnt[y] + 1
          /\ h.cv_stack[popcnt[x]] = Value(key, flags, y * CHUNK_LEN, x * CHUNK_LEN)
      <4> DEFINE p == LowBit(x)
      <4>1. Left(y, p, x) /\ Rests(h, key, flags, n, x)
        BY <3>1
      <4> HIDE DEF p, I
      <4>2. InMessage(x) /\ InMessage(y)
        BY <3>2
      <4>3. Rests(h, key, flags, n, y)
        BY <4>1, <4>2, RestsBelow
      <4>4. popcnt[x] = popcnt[y] + 1
        BY <4>1, <4>2, RestsBelow
      <4>5. h.cv_stack[popcnt[x]] = Value(key, flags, y * CHUNK_LEN, x * CHUNK_LEN)
        BY <4>1, <4>2, RestsBelow
      <4> QED
        BY <4>3, <4>4, <4>5
    <3>4. popcnt[y] \in Nat
      BY <3>1, PopcntStep
    <3>5. RollsToRoot(h, key, flags, y, hi)
      <4>1. y \in I
        BY <1>1, <3>1
      <4> QED
        BY <3>1, <3>3, <4>1
    <3>6. Above(h, Node(x), popcnt[x]) = Node(y)
      <4>1. h.key = key /\ h.chunk.flags = flags
        BY DEF Rests
      <4> QED
        BY <3>1, <3>3, <4>1, Zenon DEF Above, Value
    <3> DEFINE m == popcnt[x]
               z == 0
               o == Node(x)
               o2 == Node(y)
    <3>7. m \in Nat \ {0} /\ z \in 0 .. m - 1 /\ m - 1 = popcnt[y]
      BY <3>3, <3>4
    <3>8. RollUp(h, o2, popcnt[y], z) = RefTree(key, flags)[<<0, hi>>]
      BY <3>5, Zenon DEF RollsToRoot
    <3>9. Above(h, o, m) = o2
      BY <3>6
    <3> HIDE DEF m, z, o, o2
    <3>10. RollUp(h, o, m, z) = RollUp(h, Above(h, o, m), m - 1, z)
      BY <3>7, RollUpStep
    <3>11. RollUp(h, o, m, z) = RefTree(key, flags)[<<0, hi>>]
      BY <3>7, <3>8, <3>9, <3>10
    <3> QED
      BY <3>11, Zenon DEF RollsToRoot, m, z, o
  <2> QED
    BY <2>1, <2>2
<1>2. b \in I
  <2>1. b \in Nat
    BY DEF Follows
  <2> HIDE DEF I
  <2> QED
    BY <1>1, <2>1, StrongInduction
<1> QED
  BY <1>2

\* The root of n bytes.
RootOf(h, key, flags, n) == RootOutput(h) = RefTree(key, flags)[<<0, n>>]

\* With a chunk begun, or no byte at all.
LEMMA RootChunk ==
  ASSUME NEW key, NEW flags, NEW counter \in Nat, NEW n \in Nat, n <= MaxTotal,
         counter * CHUNK_LEN <= n, n <= counter * CHUNK_LEN + CHUNK_LEN,
         n > counter * CHUNK_LEN \/ (counter = 0 /\ n = 0), NEW chunk, NEW s,
         chunk = ChunkAt(key, flags, counter, n), s = Complete(key, flags)[counter]
  PROVE  RootOf(HasherOf(key, chunk, s), key, flags, n)
<1> DEFINE h == HasherOf(key, chunk, s)
           at == counter * CHUNK_LEN
           m == popcnt[counter]
           p == LowBit(counter)
           z == 0
           o == chunk_state_output(chunk)
<1>1. at \in Nat /\ at <= n /\ n - at <= CHUNK_LEN /\ at <= MaxTotal /\ n - at \in Nat
      /\ (n > at \/ (counter = 0 /\ n = 0))
  BY Constants
<1>2. /\ h.key = key /\ h.chunk = chunk /\ h.chunk.flags = flags /\ h.cv_stack = s
      /\ chunk_state_len(chunk) = n - at /\ o = RefChunk(key, flags, at, n)
  BY <1>1, HasherFields, ChunkAtFlags, ChunkOutput
<1>3. Stack(s, m) /\ m \in Nat /\ Len(s) = m
  <2>1. Stack(s, m)
    BY <1>1, CompleteLen
  <2> QED
    BY <2>1, PopcntStep, StackAppend
<1>4. counter # 0 => p \in Nat \ {0}
  <2>1. counter <= MaxTotal
    <3>1. counter <= at
      BY Constants
    <3> QED
      BY <1>1, <3>1, Constants
  <2> QED
    BY <2>1, LowBitDef
<1>5. Follows(counter, n)
  <2>1. counter # 0 => at < n
    BY <1>1
  <2>2. counter # 0 => n - at <= p * CHUNK_LEN
    <3> SUFFICES ASSUME counter # 0 PROVE n - at <= p * CHUNK_LEN
      OBVIOUS
    <3>1. p \in Nat \ {0}
      BY <1>4
    <3> HIDE DEF p
    <3>2. CHUNK_LEN <= p * CHUNK_LEN /\ p * CHUNK_LEN \in Nat
      BY <3>1, Constants
    <3> QED
      BY <1>1, <3>2, Constants
  <2> QED
    BY <1>1, <2>1, <2>2 DEF Follows
<1>6. Rests(h, key, flags, m, counter)
  BY <1>2, <1>3 DEF Rests, Holds
<1>7. RollsToRoot(h, key, flags, counter, n)
  <2> HIDE DEF h, m
  <2> QED
    BY <1>5, <1>6, RollUpRoot
<1>8. o = RefTree(key, flags)[<<at, n>>]
  <2>1. at \in 0 .. MaxTotal /\ n \in 0 .. MaxTotal
    BY <1>1, Constants
  <2> HIDE DEF at
  <2> QED
    BY <1>1, <1>2, <2>1, RefTreeDef
<1>9. RollUp(h, o, m, z) = RefTree(key, flags)[<<0, n>>]
  <2> HIDE DEF h, m, o
  <2> QED
    BY <1>7, <1>8, Zenon DEF RollsToRoot, m
<1>10. Len(h.cv_stack) = 0 \/ chunk_state_len(h.chunk) > 0
  <2>1. counter = 0 => m = 0
    BY PopcntDef
  <2>2. n > at => n - at > 0
    BY <1>1
  <2> QED
    BY <1>1, <1>2, <1>3, <2>1, <2>2
<1> DEFINE n2 == Len(h.cv_stack)
<1>11. n2 = m /\ (n2 = 0 \/ chunk_state_len(h.chunk) > 0)
  BY <1>2, <1>3, <1>10
<1>12. RootOutput(h) = RollUp(h, chunk_state_output(h.chunk), n2, 0)
  <2> HIDE DEF h
  <2> QED
    BY <1>11, Zenon DEF RootOutput
<1>13. chunk_state_output(h.chunk) = o
  BY <1>2
<1> HIDE DEF h, m, o, n2
<1> QED
  BY <1>9, <1>11, <1>12, <1>13, Zenon DEF RootOf, h

\* After whole chunks, when a pair is left to make the root of.
LEMMA RootPair ==
  ASSUME NEW key, NEW flags, NEW a \in Nat \ {0}, NEW p \in Nat, NEW c, Subtree(a, p, c),
         c * CHUNK_LEN <= MaxTotal, NEW n, n = c * CHUNK_LEN, NEW chunk, NEW s,
         chunk = ChunkAt(key, flags, c, n), Pushed(key, flags, s, a, c)
  PROVE  RootOf(HasherOf(key, chunk, s), key, flags, n)
<1> DEFINE h == HasherOf(key, chunk, s)
           t == Complete(key, flags)[a]
           v == Value(key, flags, a * CHUNK_LEN, c * CHUNK_LEN)
           m == popcnt[a] + 1
           r == LowBit(a)
           b == a - r
<1>1. c = a + p /\ c \in Nat /\ p \in Nat \ {0} /\ IsPower(p) /\ a % p = 0
  BY DEF Subtree, IsPower
<1>2. n \in Nat /\ n <= MaxTotal /\ a * CHUNK_LEN < n /\ a * CHUNK_LEN \in Nat /\ a <= MaxTotal
      /\ n - a * CHUNK_LEN = p * CHUNK_LEN /\ p * CHUNK_LEN \in Nat
      /\ a * CHUNK_LEN <= MaxTotal
  <2>1. a * CHUNK_LEN < n /\ a * CHUNK_LEN \in Nat /\ n \in Nat /\ a <= a * CHUNK_LEN
    BY <1>1, Constants, Cancel
  <2>2. n = a * CHUNK_LEN + p * CHUNK_LEN /\ p * CHUNK_LEN \in Nat
    BY <1>1, Constants
  <2> QED
    BY <2>1, <2>2, Constants
<1>3. /\ h.key = key /\ h.chunk = chunk /\ h.chunk.flags = flags /\ h.cv_stack = s
      /\ chunk_state_len(h.chunk) = 0
  <2>1. chunk_state_len(chunk) = n - c * CHUNK_LEN
    BY <1>1, <1>2, ChunkOutput
  <2>2. n - c * CHUNK_LEN = 0
    BY <1>2
  <2> QED
    BY <2>1, <2>2, HasherFields, ChunkAtFlags
<1>4. s = Append(t, v) /\ Stack(t, popcnt[a]) /\ popcnt[a] \in Nat /\ popcnt[a] >= 1
  <2>1. Stack(t, popcnt[a]) /\ popcnt[a] \in Nat
    BY <1>2, CompleteLen, PopcntStep
  <2>2. popcnt[a] >= 1
    BY <1>2, PopcntPositive
  <2> QED
    BY <2>1, <2>2 DEF Pushed
<1>5. Stack(s, m) /\ m \in Nat /\ Len(s) = m /\ s[m] = v /\ Holds(key, flags, s, a)
  <2>1. Stack(s, m) /\ s[m] = v /\ \A i \in 1 .. popcnt[a] : s[i] = t[i]
    <3> HIDE DEF t, v
    <3> QED
      BY <1>4, StackAppend
  <2>2. Len(s) = m
    BY <2>1, StackAppend
  <2> QED
    BY <1>4, <2>1, <2>2 DEF Holds
<1>6. Rests(h, key, flags, m, a)
  <2>1. popcnt[a] <= m
    BY <1>4
  <2> HIDE DEF h, m
  <2> QED
    BY <1>3, <1>5, <2>1 DEF Rests
<1>7. Follows(a, n)
  <2>1. p <= r /\ r \in Nat
    BY <1>1, <1>2, LowBitMax, LowBitDef
  <2> HIDE DEF r
  <2>2. p * CHUNK_LEN <= r * CHUNK_LEN /\ r * CHUNK_LEN \in Nat
    BY <1>1, <2>1, Constants, Cancel
  <2>3. n - a * CHUNK_LEN <= r * CHUNK_LEN
    BY <1>2, <2>2
  <2> QED
    BY <1>2, <2>3 DEF Follows, r
<1> HIDE DEF h
<1>8. /\ b \in Nat /\ b < a /\ Left(b, r, a) /\ Follows(b, n)
      /\ RefTree(key, flags)[<<b * CHUNK_LEN, n>>]
           = parent_output(Value(key, flags, b * CHUNK_LEN, a * CHUNK_LEN),
                           Value(key, flags, a * CHUNK_LEN, n), key, flags)
  <2>1. a # 0 /\ b = a - LowBit(a)
    OBVIOUS
  <2> HIDE DEF b
  <2> QED
    BY <1>7, <2>1, FollowsBelow DEF r
<1> HIDE DEF b, r
<1>9. /\ Rests(h, key, flags, m, b) /\ popcnt[a] = popcnt[b] + 1 /\ popcnt[b] \in Nat
      /\ s[popcnt[a]] = Value(key, flags, b * CHUNK_LEN, a * CHUNK_LEN)
  <2>1. InMessage(b)
    <3>1. b * CHUNK_LEN < a * CHUNK_LEN /\ b * CHUNK_LEN \in Nat
      BY <1>8, Constants, Cancel
    <3> QED
      BY <1>2, <3>1, Constants DEF InMessage
  <2>2. InMessage(a)
    BY <1>2, Constants DEF InMessage
  <2> QED
    <3>1. popcnt[b] \in Nat
      BY <1>8, PopcntStep
    <3> HIDE DEF m
    <3>2. /\ Rests(h, key, flags, m, b) /\ popcnt[a] = popcnt[b] + 1
          /\ h.cv_stack[popcnt[a]] = Value(key, flags, b * CHUNK_LEN, a * CHUNK_LEN)
      BY <1>6, <1>8, <2>1, <2>2, RestsBelow
    <3> QED
      BY <1>3, <3>1, <3>2
<1>10. TopPair(h) = RefTree(key, flags)[<<b * CHUNK_LEN, n>>]
  <2>1. Len(h.cv_stack) = m /\ m - 1 = popcnt[a]
    BY <1>3, <1>4, <1>5
  <2>2. h.cv_stack[m] = v /\ h.cv_stack[m - 1] = Value(key, flags, b * CHUNK_LEN, a * CHUNK_LEN)
    BY <1>3, <1>5, <1>9, <2>1
  <2>3. v = Value(key, flags, a * CHUNK_LEN, n)
    OBVIOUS
  <2> HIDE DEF m, v
  <2>4. TopPair(h) = parent_output(h.cv_stack[m - 1], h.cv_stack[m], h.key, h.chunk.flags)
    BY <2>1, Zenon DEF TopPair
  <2> QED
    BY <1>3, <1>8, <2>2, <2>3, <2>4
<1>11. RollsToRoot(h, key, flags, b, n)
  <2> HIDE DEF m
  <2> QED
    BY <1>8, <1>9, RollUpRoot
<1>12. m - 2 = popcnt[b] /\ m # 0
  BY <1>9
<1> HIDE DEF m
<1>13. RootOutput(h) = RollUp(h, TopPair(h), m - 2, 0)
  <2>1. Len(h.cv_stack) = m /\ ~ (chunk_state_len(h.chunk) > 0)
    BY <1>3, <1>5
  <2> QED
    BY <1>12, <2>1, Zenon DEF RootOutput
<1>14. RollUp(h, TopPair(h), m - 2, 0) = RefTree(key, flags)[<<0, n>>]
  BY <1>10, <1>11, <1>12, Zenon DEF RollsToRoot
<1> QED
  BY <1>13, <1>14 DEF RootOf, h

\* What finalizing rolls up to is the root of the message's tree.
LEMMA RootIs ==
  ASSUME NEW h, NEW key, NEW flags, NEW n \in 0 .. MaxTotal, Hashing(h, key, flags, n)
  PROVE  RootOf(h, key, flags, n)
<1>1. PICK counter, s : /\ HoldsAt(key, flags, counter, s, n)
                        /\ h = HasherOf(key, ChunkAt(key, flags, counter, n), s)
  BY DEF Hashing
<1> DEFINE at == counter * CHUNK_LEN
<1>2. counter \in Nat /\ at \in Nat /\ at <= n /\ n <= at + CHUNK_LEN /\ n \in Nat /\ n <= MaxTotal
  BY <1>1, Constants DEF HoldsAt
<1>3. CASE n > at
  <2>1. s = Complete(key, flags)[counter]
    BY <1>1, <1>3 DEF HoldsAt
  <2> QED
    BY <1>1, <1>2, <1>3, <2>1, RootChunk
<1>4. CASE n = at
  <2>1. CASE counter = 0 /\ s = <<>>
    <3>1. n = 0
      BY <1>4, <2>1, Constants
    <3>2. s = Complete(key, flags)[counter]
      BY <2>1, CompleteDef, Constants
    <3> QED
      BY <1>1, <1>2, <2>1, <3>1, <3>2, RootChunk
  <2>2. CASE Paired(key, flags, s, counter)
    <3>1. PICK a \in Nat \ {0}, p \in Nat : Subtree(a, p, counter) /\ Pushed(key, flags, s, a, counter)
      BY <2>2 DEF Paired
    <3> QED
      BY <1>1, <1>2, <1>4, <3>1, RootPair
  <2> QED
    BY <1>1, <1>4, <2>1, <2>2 DEF HoldsAt
<1> QED
  BY <1>2, <1>3, <1>4

----------------------------------------------------------------------------
(* Output *)

\* So many bytes of the output, from one of them.
Bytes(root, from, n) == [i \in 1 .. n |-> RefByte(root, from + i - 1)]

\* Byte next of the output comes m bytes after byte from.
After(from, m, next) == from \in Nat /\ m \in Nat /\ next = from + m

\* The m of n bytes that follow a, by their first and last number.
Inside(first, last, a, m, n) ==
  a \in Nat /\ m \in Nat /\ n \in Nat /\ a + m <= n /\ first = a + 1 /\ last = a + m

\* Bytes of bytes of the output.
LEMMA BytesSub ==
  ASSUME NEW root, NEW from, NEW n, NEW a, NEW m, NEW first, NEW last, NEW next,
         Inside(first, last, a, m, n), After(from, a, next)
  PROVE  SubSeq(Bytes(root, from, n), first, last) = Bytes(root, next, m)
<1> USE DEF Inside, After
<1> DEFINE s == Bytes(root, from, n)
<1>1. SubSeq(s, first, last) = [i \in 1 .. (1 + last - first) |-> s[first + i - 1]]
  OBVIOUS
<1>2. 1 + last - first = m /\ \A i \in 1 .. m : first + i - 1 = a + i
  OBVIOUS
<1>3. SubSeq(s, first, last) = [i \in 1 .. m |-> s[a + i]]
  <2> HIDE DEF s
  <2> QED
    BY <1>1, <1>2
<1>4. ASSUME NEW i \in 1 .. m PROVE s[a + i] = RefByte(root, next + i - 1)
  <2>1. a + i \in 1 .. n /\ from + (a + i) - 1 = next + i - 1
    OBVIOUS
  <2> QED
    BY <2>1 DEF Bytes
<1> HIDE DEF s
<1>5. SubSeq(s, first, last) = Bytes(root, next, m)
  BY <1>3, <1>4 DEF Bytes
<1> QED
  BY <1>5 DEF s

\* Bytes of the output, joined.
LEMMA BytesJoin ==
  ASSUME NEW root, NEW from, NEW m, NEW n, NEW next, NEW last,
         After(from, m, next), After(m, n, last)
  PROVE  Bytes(root, from, m) \o Bytes(root, next, n) = Bytes(root, from, last)
<1> USE DEF After
<1> DEFINE byte(i) == RefByte(root, i)
<1>1. Bytes(root, from, m) = [i \in 1 .. m |-> byte(from + i - 1)]
      /\ Bytes(root, next, n) = [i \in 1 .. n |-> byte(next + i - 1)]
      /\ Bytes(root, from, last) = [i \in 1 .. m + n |-> byte(from + i - 1)]
      /\ last = m + n
  BY DEF Bytes
<1> HIDE DEF byte
<1> QED
  BY <1>1, SMTT(30)

\* Block by block or many at once, the same bytes.
LEMMA XofMany ==
  ASSUME NEW output, NEW counter \in Nat, NEW n \in Nat, NEW from, from = counter * BLOCK_LEN
  PROVE  blake3_xof_many(output, counter, n) = Bytes(output, from, BLOCK_LEN * n)
<1> DEFINE i(k) == (k - 1) \div BLOCK_LEN
           j(k) == (k - 1) % BLOCK_LEN
           w(k) == Batch(WidthsXof, i(k) + 1, n)
           lane(k) == i(k) % w(k)
           halves(k) == load_counters_avx512(counter + i(k) - lane(k), lane(k), w(k))
<1>1. ASSUME NEW k \in 1 .. BLOCK_LEN * n
      PROVE  RootByte(output, halves(k), j(k) + 1) = RefByte(output, from + k - 1)
  <2> DEFINE q == i(k)
             r == j(k)
  <2>1. k - 1 \in Nat /\ k - 1 < n * BLOCK_LEN
    BY Constants
  <2>2. q \in Nat /\ r \in Nat /\ r < BLOCK_LEN /\ k - 1 = q * BLOCK_LEN + r
    BY <2>1, Constants, DivMod
  <2>3. q * BLOCK_LEN < n * BLOCK_LEN
    BY <2>1, <2>2, Constants
  <2> HIDE DEF i, j, q, r
  <2>4. q < n
    BY <2>2, <2>3, Constants, Cancel
  <2>5. from + k - 1 = (counter + q) * BLOCK_LEN + r
    BY <2>2, Constants
  <2>6. (from + k - 1) \div BLOCK_LEN = counter + q /\ (from + k - 1) % BLOCK_LEN = r
    <3> DEFINE c == counter + q
    <3>1. c \in Nat
      BY <2>2
    <3> HIDE DEF c
    <3>2. (c * BLOCK_LEN + r) \div BLOCK_LEN = c /\ (c * BLOCK_LEN + r) % BLOCK_LEN = r
      BY <2>2, <3>1, Constants, DivModUnique
    <3> QED
      BY <2>5, <3>2 DEF c
  <2>7. halves(k) = Halves(counter + q)
    <3> DEFINE i1 == q + 1
               ww == Batch(WidthsXof, i1, n)
               l == (i1 - 1) % ww
    <3>1. i1 \in 1 .. n /\ i1 - 1 = q
      BY <2>2, <2>4
    <3> HIDE DEF i1
    <3>2. ww \in {1, 4, 8, 16} /\ l \in 0 .. ww - 1 /\ i1 - 1 - l \in Nat
      BY <3>1, WidthsOf, BatchIs
    <3> DEFINE first == counter + q - l
               last == counter + q
    <3>3. first \in Nat /\ first + l = last
      BY <2>2, <3>1, <3>2
    <3>4. halves(k) = load_counters_avx512(first, l, ww)
      BY <3>1, Zenon DEF q, i1
    <3> HIDE DEF ww, l, first, last
    <3>5. load_counters_avx512(first, l, ww) = Halves(last)
      BY <3>2, <3>3, LaneIs
    <3> QED
      BY <3>4, <3>5 DEF last
  <2>8. j(k) = r
    BY DEF r
  <2> HIDE DEF halves
  <2> QED
    BY <2>6, <2>7, <2>8 DEF RefByte
<1>2. blake3_xof_many(output, counter, n)
        = [k \in 1 .. BLOCK_LEN * n |-> RootByte(output, halves(k), j(k) + 1)]
  BY NoFault, Zenon DEF blake3_xof_many
<1> HIDE DEF halves, j
<1> QED
  BY <1>1, <1>2 DEF Bytes

\* Any stretch of the output.
LEMMA OutputIs ==
  ASSUME NEW root, NEW seek \in Nat, NEW out_len \in Nat
  PROVE  output_root_bytes(root, seek, out_len) = Bytes(root, seek, out_len)
<1> DEFINE block == seek \div BLOCK_LEN
           offset == seek % BLOCK_LEN
           available == BLOCK_LEN - offset
           bytes == CASE offset = 0                           -> 0
                      [] offset # 0 /\ out_len > available    -> available
                      [] offset # 0 /\ out_len <= available   -> out_len
           next == IF offset = 0 THEN block ELSE block + 1
           many == (out_len - bytes) \div BLOCK_LEN
           left == (out_len - bytes) % BLOCK_LEN
           from == block * BLOCK_LEN
<1>1. block \in Nat /\ offset \in Nat /\ offset < BLOCK_LEN /\ seek = from + offset /\ from \in Nat
  BY Constants, DivMod
<1>2. output_root_bytes(root, seek, out_len)
        = SubSeq(blake3_xof_many(root, block, 1), offset + 1, offset + bytes)
            \o blake3_xof_many(root, next, many)
            \o SubSeq(blake3_xof_many(root, next + many, 1), 1, left)
  BY Zenon DEF output_root_bytes
<1> HIDE DEF block, offset, from
<1>3. /\ bytes \in Nat /\ bytes <= out_len /\ offset + bytes <= BLOCK_LEN
      /\ bytes = out_len \/ seek + bytes = next * BLOCK_LEN
      /\ next \in Nat
  <2>1. available \in Nat /\ offset + available = BLOCK_LEN /\ next \in Nat
    BY <1>1, Constants
  <2>2. CASE offset = 0
    BY <1>1, <2>1, <2>2, Constants DEF from
  <2>3. CASE offset # 0 /\ out_len > available
    <3>1. bytes = available /\ next = block + 1
      BY <1>1, <2>1, <2>3
    <3>2. (block + 1) * BLOCK_LEN = from + BLOCK_LEN
      BY <1>1, Constants DEF from
    <3> QED
      BY <1>1, <2>1, <2>3, <3>1, <3>2, Constants
  <2>4. CASE offset # 0 /\ out_len <= available
    <3>1. bytes = out_len
      BY <1>1, <2>1, <2>4
    <3> QED
      BY <1>1, <2>1, <2>4, <3>1, Constants
  <2> QED
    BY <2>1, <2>2, <2>3, <2>4
<1> HIDE DEF bytes, next
<1>4. out_len - bytes \in Nat
  BY <1>3
<1>5. many \in Nat /\ left \in Nat /\ left < BLOCK_LEN /\ out_len - bytes = many * BLOCK_LEN + left
  BY <1>4, Constants, DivMod
<1> HIDE DEF many, left
<1> DEFINE size == BLOCK_LEN * many
           a == next * BLOCK_LEN
           b == (next + many) * BLOCK_LEN
           one == BLOCK_LEN * 1
<1>6. size \in Nat /\ a \in Nat /\ b \in Nat /\ b = a + size /\ size = many * BLOCK_LEN
      /\ one = BLOCK_LEN /\ next + many \in Nat
  BY <1>3, <1>5, Constants
<1>7. blake3_xof_many(root, block, 1) = Bytes(root, from, one)
  BY <1>1, XofMany DEF from
<1>8. blake3_xof_many(root, next, many) = Bytes(root, a, size)
  BY <1>3, <1>5, XofMany
<1>9. blake3_xof_many(root, next + many, 1) = Bytes(root, b, one)
  <2> DEFINE c == next + many
  <2>1. c \in Nat /\ b = c * BLOCK_LEN
    BY <1>6
  <2> HIDE DEF c, b
  <2> QED
    BY <2>1, XofMany DEF c
<1> HIDE DEF size, a, b, one
<1>10. SubSeq(Bytes(root, from, one), offset + 1, offset + bytes) = Bytes(root, seek, bytes)
  <2> DEFINE first == offset + 1
             last == offset + bytes
  <2>1. Inside(first, last, offset, bytes, one) /\ After(from, offset, seek)
    BY <1>1, <1>3, <1>6, Constants DEF Inside, After
  <2> HIDE DEF first, last
  <2>2. SubSeq(Bytes(root, from, one), first, last) = Bytes(root, seek, bytes)
    BY <2>1, BytesSub
  <2> QED
    BY <2>2 DEF first, last
<1>11. SubSeq(Bytes(root, b, one), 1, left) = Bytes(root, b, left)
  <2> DEFINE z == 0
             first == 1
  <2>1. Inside(first, left, z, left, one) /\ After(b, z, b)
    BY <1>5, <1>6, Constants DEF Inside, After
  <2> HIDE DEF z, first
  <2>2. SubSeq(Bytes(root, b, one), first, left) = Bytes(root, b, left)
    BY <2>1, BytesSub
  <2> QED
    BY <2>2 DEF first
<1>12. output_root_bytes(root, seek, out_len)
         = Bytes(root, seek, bytes) \o Bytes(root, a, size) \o Bytes(root, b, left)
  BY <1>2, <1>7, <1>8, <1>9, <1>10, <1>11
<1>13. CASE bytes = out_len
  <2>1. size = 0 /\ left = 0
    <3>1. many * BLOCK_LEN \in Nat
      BY <1>6
    <3> QED
      BY <1>5, <1>6, <1>13, <3>1
  <2>2. Bytes(root, a, size) = <<>> /\ Bytes(root, b, left) = <<>>
    BY <2>1 DEF Bytes
  <2>3. Bytes(root, seek, bytes) \o <<>> = Bytes(root, seek, bytes)
    BY <1>3 DEF Bytes
  <2>4. output_root_bytes(root, seek, out_len) = Bytes(root, seek, bytes) \o <<>> \o <<>>
    BY <1>12, <2>2, Zenon
  <2> QED
    BY <1>13, <2>3, <2>4, Zenon
<1>14. CASE seek + bytes = a
  <2> DEFINE c == bytes + size
  <2>1. After(seek, bytes, a) /\ After(bytes, size, c) /\ After(seek, c, b) /\ After(c, left, out_len)
    BY <1>3, <1>5, <1>6, <1>14 DEF After
  <2> HIDE DEF c
  <2>2. Bytes(root, seek, bytes) \o Bytes(root, a, size) = Bytes(root, seek, c)
    BY <2>1, BytesJoin
  <2>3. Bytes(root, seek, c) \o Bytes(root, b, left) = Bytes(root, seek, out_len)
    BY <2>1, BytesJoin
  <2> QED
    BY <1>12, <2>2, <2>3, Zenon
<1> QED
  BY <1>3, <1>13, <1>14 DEF a

\* The invariant says what every output of the hasher is, given its key.
LEMMA InvHash == Blake3Inv /\ KeyIsModes => HashIsTree
<1> SUFFICES ASSUME Blake3Inv, KeyIsModes PROVE HashIsTree
  OBVIOUS
<1> DEFINE key == hasher.key
           flags == hasher.chunk.flags
           root == RefTree(key, flags)[<<0, total>>]
<1>1. total \in 0 .. MaxTotal /\ Hashing(hasher, key, flags, total)
  BY DEF Blake3Inv, HasherInv
<1> HIDE DEF key, flags
<1>2. RootOutput(hasher) = root
  BY <1>1, RootIs DEF RootOf
<1>3. root = RefNode(0, total)
  BY DEF RefNode, key, flags
<1> HIDE DEF root
<1>4. ASSUME NEW r \in Requests
      PROVE  blake3_hasher_finalize_seek(hasher, r[1], r[2])
               = [i \in 1 .. r[2] |-> RefByte(root, r[1] + i - 1)]
  <2>1. r[1] \in Nat /\ r[2] \in Nat
    BY Blake3Assumption
  <2>2. output_root_bytes(root, r[1], r[2]) = Bytes(root, r[1], r[2])
    BY <2>1, OutputIs
  <2> QED
    BY <1>2, <2>2 DEF blake3_hasher_finalize_seek, Bytes
<1> QED
  BY <1>3, <1>4, Zenon DEF HashIsTree

----------------------------------------------------------------------------
(* Keys *)

\* What is read from the start of a hash of n bytes.
LEMMA DerivedKey ==
  ASSUME NEW n \in 0 .. MaxTotal, NEW key, NEW flags, NEW out_len \in Nat
  PROVE  blake3_hasher_finalize_seek(blake3_hasher_update(hasher_init_base(key, flags), 0, n),
                                     0, out_len)
           = Bytes(RefTree(key, flags)[<<0, n>>], 0, out_len)
<1> DEFINE start == hasher_init_base(key, flags)
           h == blake3_hasher_update(start, 0, n)
           root == RefTree(key, flags)[<<0, n>>]
<1>1. n \in Nat /\ 0 \in Nat /\ 0 <= n /\ n <= MaxTotal
  BY Constants
<1>2. Hashing(start, key, flags, 0)
  BY InitHashes
<1>3. Hashing(h, key, flags, n)
  <2> HIDE DEF start
  <2> QED
    BY <1>1, <1>2, UpdateHashes
<1> HIDE DEF h
<1>4. RootOutput(h) = root
  BY <1>3, RootIs DEF RootOf
<1> HIDE DEF root
<1>5. output_root_bytes(root, 0, out_len) = Bytes(root, 0, out_len)
  BY <1>1, OutputIs
<1> QED
  BY <1>4, <1>5 DEF blake3_hasher_finalize_seek, h, root

\* Updating keeps the key and the flags, and so does resetting.
LEMMA SameKey ==
  ASSUME Blake3Inv, Update \/ blake3_hasher_reset
  PROVE  /\ hasher'.key = hasher.key /\ hasher'.chunk.flags = hasher.chunk.flags
         /\ mode' = mode
<1> DEFINE key == hasher.key
           flags == hasher.chunk.flags
<1>1. total \in Nat /\ total <= MaxTotal /\ Hashing(hasher, key, flags, total)
  BY Constants DEF Blake3Inv, HasherInv
<1>2. CASE Update
  <2>1. PICK n \in Lens : /\ total + n <= MaxTotal
                          /\ hasher' = blake3_hasher_update(hasher, total, total + n)
    BY <1>2 DEF Update
  <2> DEFINE hi == total + n
  <2>2. hi \in Nat /\ total <= hi /\ hi <= MaxTotal
    BY <1>1, <2>1, Blake3Assumption, Constants
  <2>3. hasher' = blake3_hasher_update(hasher, total, hi)
    BY <2>1
  <2> HIDE DEF hi, key, flags
  <2>4. Hashing(hasher', key, flags, hi)
    BY <1>1, <2>2, <2>3, UpdateHashes
  <2>5. hasher'.key = key /\ hasher'.chunk.flags = flags
    BY <2>4, HashingFields
  <2> QED
    BY <1>2, <2>5 DEF Update, key, flags
<1>3. CASE blake3_hasher_reset
  <2>1. PICK counter, s : hasher = HasherOf(key, ChunkAt(key, flags, counter, total), s)
    BY <1>1 DEF Hashing
  <2> DEFINE chunk == ChunkAt(key, flags, counter, total)
             start == chunk_state_init(hasher.key, hasher.chunk.flags, 0)
  <2>2. hasher = HasherOf(key, chunk, s)
    BY <2>1
  <2>3. hasher' = [hasher EXCEPT !.chunk = start, !.cv_stack = <<>>]
    BY <1>3 DEF blake3_hasher_reset
  <2>4. start.flags = hasher.chunk.flags
    BY DEF chunk_state_init
  <2> HIDE DEF chunk, start, key
  <2>5. hasher' = HasherOf(key, start, <<>>)
    BY <2>2, <2>3 DEF HasherOf
  <2>6. hasher'.key = key /\ hasher'.chunk = start
    BY <2>5, HasherFields
  <2> QED
    BY <1>3, <2>4, <2>6 DEF blake3_hasher_reset, key
<1> QED
  BY <1>2, <1>3

\* Initialising gives the mode's key and flags, and nothing changes them afterwards.
LEMMA KeyNext == Blake3Inv /\ KeyIsModes /\ [Next]_vars => KeyIsModes'
<1> SUFFICES ASSUME Blake3Inv, KeyIsModes, [Next]_vars PROVE KeyIsModes'
  OBVIOUS
<1>1. ASSUME NEW key, NEW flags, hasher' = hasher_init_base(key, flags)
      PROVE  hasher'.key = key /\ hasher'.chunk.flags = flags
  BY <1>1 DEF hasher_init_base, chunk_state_init
<1>2. CASE blake3_hasher_init
  <2>1. mode' = "hash" /\ hasher' = hasher_init_base(IV, {})
    BY <1>2 DEF blake3_hasher_init
  <2>2. hasher'.key = IV /\ hasher'.chunk.flags = {}
    BY <1>1, <2>1
  <2> QED
    BY <2>1, <2>2 DEF KeyIsModes
<1>3. CASE blake3_hasher_init_keyed
  <2>1. mode' = "keyed" /\ hasher' = hasher_init_base("key", {"KEYED_HASH"})
    BY <1>3 DEF blake3_hasher_init_keyed
  <2>2. hasher'.key = "key" /\ hasher'.chunk.flags = {"KEYED_HASH"}
    BY <1>1, <2>1
  <2> QED
    BY <2>1, <2>2 DEF KeyIsModes
<1>4. CASE blake3_hasher_init_derive_key
  <2> DEFINE root(n) == RefTree(IV, {"DERIVE_KEY_CONTEXT"})[<<0, n>>]
             derived(n) == [i \in 1 .. KEY_LEN |-> RefByte(root(n), i - 1)]
  <2>1. mode' = "derive"
    BY <1>4 DEF blake3_hasher_init_derive_key
  <2>2. PICK n \in Contexts :
          hasher' = hasher_init_base(
                      blake3_hasher_finalize_seek(
                        blake3_hasher_update(hasher_init_base(IV, {"DERIVE_KEY_CONTEXT"}), 0, n),
                        0, KEY_LEN),
                      {"DERIVE_KEY_MATERIAL"})
    BY <1>4, Zenon DEF blake3_hasher_init_derive_key
  <2>3. n \in 0 .. MaxTotal /\ KEY_LEN \in Nat
    BY Blake3Assumption, Constants DEF KEY_LEN
  <2>4. hasher' = hasher_init_base(derived(n), {"DERIVE_KEY_MATERIAL"})
    <3>1. blake3_hasher_finalize_seek(
            blake3_hasher_update(hasher_init_base(IV, {"DERIVE_KEY_CONTEXT"}), 0, n), 0, KEY_LEN)
            = Bytes(root(n), 0, KEY_LEN)
      BY <2>3, DerivedKey
    <3>2. Bytes(root(n), 0, KEY_LEN) = derived(n)
      <4> HIDE DEF root
      <4> QED
        BY <2>3 DEF Bytes, derived
    <3> QED
      BY <2>2, <3>1, <3>2, Zenon
  <2> HIDE DEF derived
  <2>5. hasher'.key = derived(n) /\ hasher'.chunk.flags = {"DERIVE_KEY_MATERIAL"}
    BY <1>1, <2>4
  <2> QED
    BY <2>1, <2>5 DEF KeyIsModes, derived
<1>5. CASE Update \/ blake3_hasher_reset
  BY <1>5, SameKey DEF KeyIsModes
<1>6. CASE UNCHANGED vars
  BY <1>6 DEF vars, KeyIsModes
<1> QED
  BY <1>2, <1>3, <1>4, <1>5, <1>6 DEF Next

\* A hasher keeps the key and the flags it was initialised with through every update and
\* reset, and blake3_hasher_init_derive_key() makes the tree hash of the context its key.
THEOREM Blake3Keys == Spec => []KeyIsModes
<1>1. Init => KeyIsModes
  BY DEF Init, KeyIsModes
<1>2. Spec => []Blake3Inv
  BY InvInit, InvNext, PTL DEF Spec
<1> QED
  BY <1>1, <1>2, KeyNext, PTL DEF Spec

\* Every output of the hasher, of any length from any position, asked for at any time
\* and through whatever back end, is that of the one tree over all the bytes given, with
\* the key and the flags of the mode it was initialised for.
THEOREM Blake3Hash == Spec => []HashIsTree
<1>1. Spec => []Blake3Inv
  BY InvInit, InvNext, PTL DEF Spec
<1> QED
  BY <1>1, Blake3Keys, InvHash, PTL

----------------------------------------------------------------------------
(* Back ends *)

\* The processor's every back end agrees with the portable code.
LEMMA BackEndsHold == BackEndsAgree
<1>1. Widths \ {1} \subseteq {4, 8, 16}
  BY WidthsOf
<1>2. \A r \in 1 .. 7 : compress_pre(r) = round_fn(r) /\ round_fn_vecs(r) = round_fn(r)
  BY RoundsAgree, VectorRoundsAgree
<1>3. ASSUME NEW width \in Widths \ {1}, NEW words \in {8, 16}
      PROVE  InOrder(width, words, compress_xof)
  <2>1. width \in {4, 8, 16}
    BY <1>1
  <2> QED
    BY <2>1, Storing
<1>4. \A width \in Widths \ {1} :
        transpose_msg_vecs(width) = [w \in 0 .. 15 |-> [i \in 1 .. width |-> <<i, w>>]]
  BY <1>1, Loading
<1> QED
  BY <1>2, <1>3, <1>4, StoredAgrees, Zenon DEF BackEndsAgree, InOrder

\* On every host, each back end the dispatcher may choose loads, mixes and stores the
\* words that the portable code does, in its order, whatever the width of its vectors.
THEOREM Blake3BackEnds == Spec => []BackEndsAgree
BY BackEndsHold, PTL
=============================================================================
