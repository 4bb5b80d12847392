------------------------ MODULE ModularArithmetic --------------------------
(***************************************************************************)
(* Facts about remainders that the ring buffers' proofs rest on.           *)
(***************************************************************************)
EXTENDS Integers, TLAPS

\* Quotient and remainder determine a number.
LEMMA DivMod ==
    ASSUME NEW m \in Nat, m > 0, NEW x \in Nat
    PROVE  /\ x \div m \in Nat
           /\ x % m \in 0 .. m - 1
           /\ x = m * (x \div m) + (x % m)
    OBVIOUS

\* Two numbers less than m apart cannot have different multiples of m in them.
LEMMA SameQuotient ==
    ASSUME NEW m \in Nat, m > 0, NEW a \in Int, NEW b \in Int,
           NEW r \in Int, NEW s \in Int,
           m * a + r = m * b + s, r - s < m, s - r < m
    PROVE  a = b
<1>1. m * (a - b) = s - r
  OBVIOUS
<1>2. CASE a - b >= 1
  <2>1. m * (a - b) >= m
    BY <1>2
  <2>2. QED BY <1>1, <2>1
<1>3. CASE b - a >= 1
  <2>1. m * (b - a) >= m
    BY <1>3
  <2>2. m * (b - a) = r - s
    OBVIOUS
  <2>3. QED BY <2>1, <2>2
<1>4. QED BY <1>2, <1>3

\* A number keeps its remainder when a whole lap is added.
LEMMA ModAddLap ==
    ASSUME NEW m \in Nat, m > 0, NEW x \in Nat
    PROVE  (x + m) % m = x % m
<1>1. x + m = m * ((x + m) \div m) + ((x + m) % m)
  BY DivMod
<1>2. x + m = m * (x \div m + 1) + (x % m)
  BY DivMod
<1>3. /\ x % m \in 0 .. m - 1
      /\ (x + m) % m \in 0 .. m - 1
      /\ (x + m) \div m \in Int
      /\ x \div m + 1 \in Int
  BY DivMod
<1>4. (x + m) \div m = x \div m + 1
  BY <1>1, <1>2, <1>3, SameQuotient
<1>5. QED BY <1>1, <1>2, <1>3, <1>4

\* Within one lap, equal remainders mean equal numbers.
LEMMA ModInjective ==
    ASSUME NEW m \in Nat, m > 0, NEW x \in Nat, NEW y \in Nat,
           x % m = y % m, x - m < y, y < x + m
    PROVE  x = y
<1>1. x = m * (x \div m) + (x % m)
  BY DivMod
<1>2. y = m * (y \div m) + (x % m)
  BY DivMod
<1>3. x % m \in Int /\ x \div m \in Int /\ y \div m \in Int
  BY DivMod
<1>4. m * (x \div m) + (y - x) = m * (y \div m) + 0
  BY <1>1, <1>2, <1>3
<1>5. x \div m = y \div m
  BY <1>3, <1>4, SameQuotient
<1>6. QED BY <1>1, <1>2, <1>5

\* A remainder by a multiple of m keeps the remainder by m.
LEMMA ModOfMod ==
    ASSUME NEW m \in Nat, m > 0, NEW n \in Nat, n > 0, n % m = 0, NEW x \in Nat
    PROVE  (x % n) % m = x % m
<1> DEFINE q == n \div m
           k == x \div n
           r == x % n
           a == r \div m
<1>1. n = m * q /\ q \in Nat
  <2>1. n = m * (n \div m) + (n % m) /\ n \div m \in Nat
    BY DivMod
  <2>2. QED BY <2>1
<1>2. x = n * k + r /\ k \in Nat /\ r \in Nat
  BY DivMod
<1>3. r = m * a + (r % m) /\ a \in Nat /\ r % m \in 0 .. m - 1
  BY <1>2, DivMod
<1>4. x = m * (x \div m) + (x % m) /\ x \div m \in Nat /\ x % m \in 0 .. m - 1
  BY DivMod
<1> HIDE DEF q, k, r, a
<1> DEFINE b == q * k + a
           u == n * k
           w == m * a
<1>5. u \in Int /\ w \in Int /\ b \in Int
  BY <1>1, <1>2, <1>3
<1>6. m * b = u + w
  <2>1. u = (m * q) * k
    BY <1>1
  <2>2. m * b = (m * q) * k + w
    BY <1>1, <1>2, <1>3
  <2>3. QED BY <2>1, <2>2
<1>7. x = u + r /\ r = w + (r % m)
  BY <1>2, <1>3
<1> HIDE DEF b, u, w
<1>8. x = m * b + (r % m)
  <2>1. r % m \in Int
    BY <1>3
  <2>2. x = u + w + (r % m)
    BY <1>2, <1>5, <1>7, <2>1
  <2>3. QED BY <1>6, <2>2
<1>9. b = x \div m
  <2>1. m * b + (r % m) = m * (x \div m) + (x % m)
    BY <1>4, <1>8
  <2> DEFINE c == r % m
             d == x % m
             e == x \div m
  <2>2. c \in Int /\ d \in Int /\ e \in Int /\ c - d < m /\ d - c < m
    BY <1>3, <1>4
  <2>3. m * b + c = m * e + d
    BY <2>1
  <2> HIDE DEF c, d, e
  <2>4. b = e
    BY <1>5, <2>2, <2>3, SameQuotient
  <2>5. QED BY <2>4 DEF e
<1>10. r % m = x % m
  <2> DEFINE c == r % m
             d == x % m
             u1 == m * b
             u2 == m * (x \div m)
  <2>1. u1 = u2
    BY <1>9
  <2>2. x = u1 + c /\ x = u2 + d
    BY <1>4, <1>8
  <2>3. c \in Int /\ d \in Int /\ u2 \in Int
    BY <1>3, <1>4
  <2> HIDE DEF c, d, u1, u2
  <2>4. c = d
    BY <2>1, <2>2, <2>3
  <2>5. QED BY <2>4 DEF c, d
<1>11. QED BY <1>10 DEF r
=============================================================================
