-------------------------- MODULE ModularArithmetic --------------------------
(***************************************************************************)
(* Facts about remainders with an arbitrary modulus, for the uint32_t      *)
(* sequence-number arithmetic of the redirection engine.                   *)
(***************************************************************************)
EXTENDS Integers, TLAPS

(* Division with remainder. *)
LEMMA DivMod ==
  ASSUME NEW m \in Nat \ {0}, NEW x \in Int
  PROVE  /\ x \div m \in Int
         /\ x % m \in 0 .. m - 1
         /\ x = m * (x \div m) + (x % m)
  OBVIOUS

(* A positive multiple of m is at least m. *)
LEMMA MultipleIsLarge ==
  ASSUME NEW m \in Nat \ {0}, NEW k \in Int, k >= 1
  PROVE  m * k >= m
<1>1. m * k = m + m * (k - 1)
  OBVIOUS
<1>2. m * (k - 1) >= 0
  OBVIOUS
<1> QED BY <1>1, <1>2

(* Quotient and remainder determine each other: the remainder is unique. *)
LEMMA RemainderUnique ==
  ASSUME NEW m \in Nat \ {0},
         NEW q1 \in Int, NEW r1 \in 0 .. m - 1,
         NEW q2 \in Int, NEW r2 \in 0 .. m - 1,
         m * q1 + r1 = m * q2 + r2
  PROVE  r1 = r2
<1>1. m * (q1 - q2) = r2 - r1 /\ m * (q2 - q1) = r1 - r2
  OBVIOUS
<1>2. CASE q1 - q2 >= 1
  <2>1. m * (q1 - q2) >= m
    BY <1>2, MultipleIsLarge
  <2> QED BY <2>1, <1>1
<1>3. CASE q2 - q1 >= 1
  <2>1. m * (q2 - q1) >= m
    BY <1>3, MultipleIsLarge
  <2> QED BY <2>1, <1>1
<1>4. CASE q1 = q2
  BY <1>4
<1> QED BY <1>2, <1>3, <1>4

(* Numbers that differ by a multiple of m have the same remainder. *)
LEMMA ModShift ==
  ASSUME NEW m \in Nat \ {0}, NEW x \in Int, NEW y \in Int, NEW k \in Int,
         x = y + m * k
  PROVE  x % m = y % m
<1> DEFINE q1 == x \div m
           r1 == x % m
           q2 == y \div m + k
           r2 == y % m
<1>1. x \div m \in Int /\ x % m \in 0 .. m - 1 /\ x = m * (x \div m) + (x % m)
  BY DivMod
<1>2. y \div m \in Int /\ y % m \in 0 .. m - 1 /\ y = m * (y \div m) + (y % m)
  BY DivMod
<1>3. m * (y \div m + k) = m * (y \div m) + m * k
  BY <1>2
<1>4. /\ q1 \in Int /\ r1 \in 0 .. m - 1
      /\ q2 \in Int /\ r2 \in 0 .. m - 1
      /\ m * q1 + r1 = m * q2 + r2
  BY <1>1, <1>2, <1>3
<1> HIDE DEF q1, r1, q2, r2
<1>5. r1 = r2
  BY <1>4, RemainderUnique
<1> QED BY <1>5 DEF r1, r2

(* A sum does not care whether its first term was reduced. *)
LEMMA ModAddLeft ==
  ASSUME NEW m \in Nat \ {0}, NEW a \in Int, NEW b \in Int
  PROVE  ((a % m) + b) % m = (a + b) % m
<1>1. a \div m \in Int /\ a % m \in Int /\ a = m * (a \div m) + (a % m)
  BY DivMod
<1>2. a + b = ((a % m) + b) + m * (a \div m)
  BY <1>1
<1>3. (a % m) + b \in Int /\ a + b \in Int
  BY <1>1
<1> QED BY <1>1, <1>2, <1>3, ModShift

(* Nor whether its second term was, added or subtracted. *)
LEMMA ModAddRight ==
  ASSUME NEW m \in Nat \ {0}, NEW a \in Int, NEW b \in Int
  PROVE  /\ (a + (b % m)) % m = (a + b) % m
         /\ (a - (b % m)) % m = (a - b) % m
<1>1. b \div m \in Int /\ b % m \in Int /\ b = m * (b \div m) + (b % m)
  BY DivMod
<1>2. (a + b = (a + (b % m)) + m * (b \div m)) /\ a + b \in Int /\ a + (b % m) \in Int
  BY <1>1
<1>3. (a - (b % m) = (a - b) + m * (b \div m)) /\ a - b \in Int /\ a - (b % m) \in Int
  BY <1>1
<1>4. (a + b) % m = (a + (b % m)) % m
  BY <1>1, <1>2, ModShift
<1>5. (a - (b % m)) % m = (a - b) % m
  <2> DEFINE x == a - (b % m)
             y == a - b
             k == b \div m
  <2>1. x \in Int /\ y \in Int /\ k \in Int /\ x = y + m * k
    BY <1>1, <1>3
  <2> HIDE DEF x, y, k
  <2>2. x % m = y % m
    BY <2>1, ModShift
  <2> QED BY <2>2 DEF x, y
<1> QED BY <1>4, <1>5

=============================================================================
