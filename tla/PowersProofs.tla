---------------------------- MODULE PowersProofs ----------------------------
(***************************************************************************)
(* Facts about natural numbers that the proofs need and no prover has: the *)
(* least element of a set, which stands for induction; powers; and the     *)
(* division with which words are cut into high and low bits.               *)
(***************************************************************************)
EXTENDS Powers, Integers, WellFoundedInduction, TLAPS

\* A nonempty set of naturals has a least element: what stands for induction.
LEMMA LeastNat ==
  ASSUME NEW S \in SUBSET Nat, S # {}
  PROVE \E x \in S : \A y \in S : x <= y
<1>1. IsWellFoundedOn(OpToRel(<, Nat), Nat)
  BY NatLessThanWellFounded, Zenon
<1> DEFINE R == {ss \in Nat \X Nat : ss[1] < ss[2]}
<1>2. IsWellFoundedOn(R, Nat)
  BY <1>1, Zenon DEF OpToRel
<1>3. \A x, y \in Nat : x < y => <<x, y>> \in R
  OBVIOUS
<1> HIDE DEF R
<1>4. PICK x \in S : \A y \in S : ~(<<y,x>> \in R)
  BY <1>2, WFMin, Zenon
<1>5. \A y \in S : ~(y < x)
  BY <1>3, <1>4
<1> QED BY <1>5

\* What holds of 0 and passes on from each number below n holds up to n.
LEMMA StepsReach ==
  ASSUME NEW n \in Nat, NEW S, 0 \in S, \A m \in 0..(n - 1) : m \in S => m + 1 \in S
  PROVE  \A m \in 0..n : m \in S
<1> DEFINE Bad == {m \in 0..n : m \notin S}
<1> SUFFICES ASSUME Bad # {} PROVE FALSE
  OBVIOUS
<1>1. Bad \in SUBSET Nat
  OBVIOUS
<1>2. PICK m \in Bad : \A k \in Bad : m <= k
  <2> HIDE DEF Bad
  <2> QED BY <1>1, LeastNat
<1>3. m \in 0..n /\ m \notin S /\ m # 0
  OBVIOUS
<1>4. m - 1 \in 0..(n - 1) /\ m - 1 \in 0..n /\ ~(m <= m - 1) /\ (m - 1) + 1 = m
  BY <1>3
<1>5. m - 1 \in S
  BY <1>2, <1>4
<1> QED BY <1>3, <1>4, <1>5

\* p holds the powers of b up to n.
IsPowers(p, b, n) == p = [i \in 0..n |-> IF i = 0 THEN 1 ELSE b * p[i - 1]]

\* The recursion that defines Pow has a solution of every length.
LEMMA PowersExist ==
  ASSUME NEW b \in Nat \ {0}
  PROVE  \A n \in Nat : \E p \in [0..n -> Nat \ {0}] : IsPowers(p, b, n)
<1> DEFINE Bad == {n \in Nat : ~ \E p \in [0..n -> Nat \ {0}] : IsPowers(p, b, n)}
<1> SUFFICES ASSUME Bad # {} PROVE FALSE
  OBVIOUS
<1>1. PICK n \in Bad : \A m \in Bad : n <= m
  BY LeastNat
<1>2. n # 0
  <2>1. [i \in 0..0 |-> 1] \in [0..0 -> Nat \ {0}] /\ IsPowers([i \in 0..0 |-> 1], b, 0)
    BY DEF IsPowers
  <2> QED BY <2>1
<1>3. n - 1 \in Nat /\ n - 1 \notin Bad
  <2>1. n \in Nat
    OBVIOUS
  <2>2. n - 1 \in Nat /\ ~(n <= n - 1)
    BY <1>2, <2>1
  <2> HIDE DEF Bad
  <2> QED BY <1>1, <2>2
<1>4. PICK p \in [0..(n - 1) -> Nat \ {0}] : IsPowers(p, b, n - 1)
  BY <1>3
<1> DEFINE q == [i \in 0..n |-> IF i = n THEN b * p[n - 1] ELSE p[i]]
<1>5. b * p[n - 1] \in Nat \ {0}
  <2>1. p[n - 1] \in Nat \ {0}
    BY <1>3, <1>4
  <2> QED BY <2>1
<1>6. q \in [0..n -> Nat \ {0}]
  BY <1>3, <1>4, <1>5
<1>7. \A i \in 0..n : q[i] = IF i = 0 THEN 1 ELSE b * q[i - 1]
  <2>1. \A i \in 0..(n-1) : p[i] = IF i = 0 THEN 1 ELSE b * p[i - 1]
    BY <1>4, Zenon DEF IsPowers
  <2> QED BY <1>2, <1>3, <2>1
<1>8. q = [i \in 0..n |-> IF i = 0 THEN 1 ELSE b * q[i - 1]]
  <2> HIDE DEF q
  <2>1. DOMAIN q = 0..n
    BY <1>6
  <2> QED BY <1>6, <1>7
<1> QED BY <1>6, <1>8 DEF IsPowers

\* A power of a positive number is one.
LEMMA PowPositive ==
  ASSUME NEW b \in Nat \ {0}, NEW n \in Nat
  PROVE  Pow(b, n) \in Nat \ {0}
<1> DEFINE p == CHOOSE p : IsPowers(p, b, n)
<1>1. \E f : IsPowers(f, b, n)
  BY PowersExist
<1>2. IsPowers(p, b, n)
  BY <1>1
<1>3. Pow(b, n) = p[n]
  BY DEF Pow, IsPowers
<1> DEFINE Bad == {i \in 0..n : p[i] \notin Nat \ {0}}
<1>4. ASSUME Bad # {} PROVE FALSE
  <2>1. Bad \in SUBSET Nat
    OBVIOUS
  <2>2. PICK i \in Bad : \A j \in Bad : i <= j
    <3> HIDE DEF Bad
    <3> QED BY <1>4, <2>1, LeastNat
  <2> HIDE DEF p
  <2>3. i \in 0..n /\ p[i] \notin Nat \ {0}
    OBVIOUS
  <2>4. p[i] = IF i = 0 THEN 1 ELSE b * p[i - 1]
    BY <1>2, <2>3, Zenon DEF IsPowers
  <2>5. i # 0 /\ i - 1 \in 0..n
    BY <2>3, <2>4
  <2>6. ~(i <= i - 1)
    BY <2>3
  <2>7. p[i - 1] \in Nat \ {0}
    BY <2>2, <2>5, <2>6
  <2> QED BY <2>3, <2>4, <2>5, <2>7
<1> HIDE DEF p
<1> QED BY <1>3, <1>4

\* A bounded nonempty set of naturals has a greatest element.
LEMMA GreatestNat ==
  ASSUME NEW S \in SUBSET Nat, S # {}, NEW n \in Nat, \A x \in S : x <= n
  PROVE  \E x \in S : \A y \in S : y <= x
<1> DEFINE T == {m \in Nat : \A y \in S : y <= m}
<1>1. T \in SUBSET Nat /\ T # {}
  OBVIOUS
<1>2. PICK m \in T : \A k \in T : m <= k
  <2> HIDE DEF T
  <2> QED BY <1>1, LeastNat
<1>3. m \in Nat /\ \A y \in S : y <= m
  BY <1>2
<1>4. m \in S
  <2> SUFFICES ASSUME m \notin S PROVE FALSE OBVIOUS
  <2>1. PICK y \in S : TRUE OBVIOUS
  <2>2. m # 0 /\ m - 1 \in Nat BY <1>3, <2>1
  <2>3. m - 1 \in T BY <1>3, <2>2
  <2> QED BY <1>2, <1>3, <2>2, <2>3
<1> QED BY <1>3, <1>4

\* The recursion that defines Pow, unfolded once.
LEMMA PowUnfolds ==
  ASSUME NEW b \in Nat \ {0}, NEW n \in Nat
  PROVE  Pow(b, 0) = 1 /\ Pow(b, n + 1) = b * Pow(b, n)
<1> DEFINE p(m) == CHOOSE f : IsPowers(f, b, m)
<1>1. \A m \in Nat : IsPowers(p(m), b, m) /\ Pow(b, m) = p(m)[m]
  <2> SUFFICES ASSUME NEW m \in Nat PROVE IsPowers(p(m), b, m) /\ Pow(b, m) = p(m)[m]
    OBVIOUS
  <2>1. \E f : IsPowers(f, b, m) BY PowersExist
  <2> QED BY <2>1 DEF Pow, IsPowers
<1> HIDE DEF p
<1>2. \A m \in Nat : \A i \in 0..m : p(m)[i] = IF i = 0 THEN 1 ELSE b * p(m)[i - 1]
  BY <1>1, Zenon DEF IsPowers
<1>3. Pow(b, 0) = 1
  <2>1. 0 \in Nat /\ 0 \in 0..0 OBVIOUS
  <2> QED BY <1>1, <1>2, <2>1
<1> DEFINE Bad == {i \in 0..n : p(n)[i] # p(n + 1)[i]}
<1>4. Bad = {}
  <2> SUFFICES ASSUME Bad # {} PROVE FALSE OBVIOUS
  <2>1. Bad \in SUBSET Nat OBVIOUS
  <2>2. PICK i \in Bad : \A j \in Bad : i <= j
    <3> HIDE DEF Bad
    <3> QED BY <2>1, LeastNat
  <2>3. i \in 0..n /\ i \in 0..(n + 1) /\ n + 1 \in Nat /\ p(n)[i] # p(n + 1)[i] OBVIOUS
  <2>4. /\ p(n)[i] = IF i = 0 THEN 1 ELSE b * p(n)[i - 1]
        /\ p(n + 1)[i] = IF i = 0 THEN 1 ELSE b * p(n + 1)[i - 1]
    BY <1>2, <2>3
  <2>5. i # 0 BY <2>3, <2>4
  <2>6. i - 1 \in 0..n /\ ~(i <= i - 1) BY <2>3, <2>5
  <2>7. p(n)[i - 1] = p(n + 1)[i - 1] BY <2>2, <2>6
  <2> QED BY <2>3, <2>4, <2>5, <2>7
<1>5. n \in 0..n /\ n + 1 \in 0..(n + 1) /\ n + 1 # 0 /\ (n + 1) - 1 = n /\ n + 1 \in Nat
  OBVIOUS
<1>6. p(n)[n] = p(n + 1)[n] BY <1>4, <1>5
<1>7. p(n + 1)[n + 1] = b * p(n + 1)[n] BY <1>2, <1>5
<1> QED BY <1>1, <1>3, <1>5, <1>6, <1>7

\* Exponents add.
LEMMA PowAdds ==
  ASSUME NEW b \in Nat \ {0}, NEW m \in Nat
  PROVE  \A n \in Nat : Pow(b, m + n) = Pow(b, m) * Pow(b, n)
<1> DEFINE Bad == {n \in Nat : Pow(b, m + n) # Pow(b, m) * Pow(b, n)}
<1> SUFFICES ASSUME Bad # {} PROVE FALSE OBVIOUS
<1>1. PICK n \in Bad : \A k \in Bad : n <= k
  BY LeastNat
<1>2. n \in Nat /\ Pow(b, m + n) # Pow(b, m) * Pow(b, n) OBVIOUS
<1>3. n # 0
  <2>1. Pow(b, 0) = 1 /\ Pow(b, m) \in Nat BY PowUnfolds, PowPositive
  <2>2. m + 0 = m /\ Pow(b, m) * 1 = Pow(b, m) BY <2>1
  <2> QED BY <1>2, <2>1, <2>2
<1>4. n - 1 \in Nat /\ ~(n <= n - 1) /\ n = (n - 1) + 1 /\ m + n = (m + (n - 1)) + 1
      /\ m + (n - 1) \in Nat
  BY <1>2, <1>3
<1>5. n - 1 \notin Bad
  <2> HIDE DEF Bad
  <2> QED BY <1>1, <1>4
<1>6. Pow(b, m + (n - 1)) = Pow(b, m) * Pow(b, n - 1)
  BY <1>4, <1>5
<1>7. Pow(b, m + n) = b * Pow(b, m + (n - 1)) /\ Pow(b, n) = b * Pow(b, n - 1)
  BY <1>4, PowUnfolds, Zenon
<1>8. Pow(b, m) \in Nat /\ Pow(b, n - 1) \in Nat
  BY <1>4, PowPositive
<1>9. \A x, y \in Nat : b * (x * y) = x * (b * y)
  OBVIOUS
<1> HIDE DEF Bad
<1> QED BY <1>2, <1>6, <1>7, <1>8, <1>9

\* Powers of two are positive, and turn sums into products.
LEMMA TwoPowers ==
  /\ Pow(2, 0) = 1 /\ Pow(2, 1) = 2
  /\ \A n \in Nat : Pow(2, n) \in Nat \ {0}
  /\ \A m, n \in Nat : Pow(2, m + n) = Pow(2, m) * Pow(2, n)
<1>1. 2 \in Nat \ {0} /\ 0 \in Nat OBVIOUS
<1>2. Pow(2, 0) = 1 /\ Pow(2, 0 + 1) = 2 * Pow(2, 0) BY <1>1, PowUnfolds
<1>3. Pow(2, 1) = 2 BY <1>2
<1> QED BY <1>1, <1>2, <1>3, PowPositive, PowAdds

\* A power of two or more is larger than its exponent, and grows with it.
LEMMA PowGrows ==
  ASSUME NEW b \in Nat, b >= 2, NEW n \in Nat
  PROVE  n < Pow(b, n)
<1> DEFINE S == {m \in Nat : m < Pow(b, m)}
<1>1. 0 \in S
  <2>1. Pow(b, 0) = 1 BY PowUnfolds
  <2> QED BY <2>1
<1>2. ASSUME NEW m \in 0..(n - 1), m \in S PROVE m + 1 \in S
  <2>1. m \in Nat /\ m < Pow(b, m) BY <1>2
  <2>2. Pow(b, m + 1) = b * Pow(b, m) /\ Pow(b, m) \in Nat BY <2>1, PowUnfolds, PowPositive
  <2> DEFINE P == Pow(b, m)
  <2>3. P \in Nat /\ m < P /\ Pow(b, m + 1) = b * P BY <2>1, <2>2
  <2> HIDE DEF P
  <2>4. b * P >= 2 * P BY <2>3
  <2>5. m + 1 < Pow(b, m + 1) BY <2>1, <2>3, <2>4
  <2> QED BY <2>1, <2>5
<1> HIDE DEF S
<1>3. \A m \in 0..n : m \in S BY <1>1, <1>2, StepsReach
<1>4. n \in S BY <1>3
<1> QED BY <1>4 DEF S

\* A power does not fall when its exponent grows.
LEMMA PowMonotonic ==
  ASSUME NEW b \in Nat \ {0}, NEW m \in Nat, NEW n \in Nat, m <= n
  PROVE  Pow(b, m) <= Pow(b, n)
<1>1. n - m \in Nat /\ m + (n - m) = n OBVIOUS
<1>2. Pow(b, m + (n - m)) = Pow(b, m) * Pow(b, n - m) BY <1>1, PowAdds
<1>3. Pow(b, m) \in Nat /\ Pow(b, n - m) \in Nat \ {0} BY <1>1, PowPositive
<1>4. \A x \in Nat, y \in Nat \ {0} : x <= x * y OBVIOUS
<1> QED BY <1>1, <1>2, <1>3, <1>4

\* The same for two.
LEMMA TwoPowersGrow == \A m, n \in Nat : m <= n => Pow(2, m) <= Pow(2, n)
<1>1. 2 \in Nat \ {0} OBVIOUS
<1> QED BY <1>1, PowMonotonic

\* Between k and n there is a last multiple of k by a power of c: the logarithms
\* that prefixBits, capFor and understate compute exist, and are below n.
LEMMA LogarithmExists ==
  ASSUME NEW c \in Nat, c >= 2, NEW k \in Nat \ {0}, NEW n \in Nat, k <= n
  PROVE  \E b \in 0..(n - 1) : k * Pow(c, b) <= n /\ n < k * Pow(c, b + 1)
<1> DEFINE S == {b \in Nat : k * Pow(c, b) <= n}
<1>1. \A b \in Nat : Pow(c, b) \in Nat /\ b < Pow(c, b)
  BY PowGrows, PowPositive
<1>2. \A x \in Nat : x <= k * x
  OBVIOUS
<1>3. \A b \in S : b \in Nat /\ b < n
  <2> SUFFICES ASSUME NEW b \in Nat, k * Pow(c, b) <= n PROVE b < n OBVIOUS
  <2>1. Pow(c, b) \in Nat /\ b < Pow(c, b) /\ Pow(c, b) <= k * Pow(c, b) BY <1>1, <1>2
  <2> QED BY <2>1
<1>4. 0 \in S
  <2>1. Pow(c, 0) = 1 BY PowUnfolds
  <2> QED BY <2>1
<1>5. PICK b \in S : \A y \in S : y <= b
  <2> HIDE DEF S
  <2>1. S \in SUBSET Nat /\ S # {} /\ \A x \in S : x <= n BY <1>3, <1>4
  <2> QED BY <2>1, GreatestNat
<1>6. b \in Nat /\ b \in 0..(n - 1) /\ k * Pow(c, b) <= n /\ ~(b + 1 <= b)
  BY <1>3
<1>7. b + 1 \notin S
  <2> HIDE DEF S
  <2> QED BY <1>5, <1>6
<1>8. b + 1 \in Nat /\ Pow(c, b + 1) \in Nat /\ ~(k * Pow(c, b + 1) <= n)
  BY <1>1, <1>6, <1>7
<1>9. k * Pow(c, b + 1) \in Nat BY <1>8
<1> QED BY <1>6, <1>8, <1>9

-----------------------------------------------------------------------------
\* The quotient is the one number whose multiple is the last not above x.
LEMMA DivIs ==
  ASSUME NEW x \in Nat, NEW s \in Nat \ {0}
  PROVE  /\ x \div s \in Nat
         /\ (x \div s) * s <= x /\ x < (x \div s + 1) * s
         /\ \A q \in Nat : q * s <= x /\ x < (q + 1) * s => q = x \div s
<1>1. x \div s \in Nat /\ (x \div s) * s <= x /\ x < (x \div s + 1) * s
  OBVIOUS
<1> DEFINE d == x \div s
<1>2. ASSUME NEW q \in Nat, q * s <= x, x < (q + 1) * s PROVE q = d
  <2>1. d \in Nat /\ d * s <= x /\ x < (d + 1) * s BY <1>1
  <2> HIDE DEF d
  <2>2. \A u, v \in Nat : u + 1 <= v => (u + 1) * s <= v * s
    OBVIOUS
  <2>3. q * s \in Nat /\ d * s \in Nat /\ (q + 1) * s \in Nat /\ (d + 1) * s \in Nat
    BY <2>1
  <2>4. ~(q + 1 <= d) BY <1>2, <2>1, <2>2, <2>3
  <2>5. ~(d + 1 <= q) BY <1>2, <2>1, <2>2, <2>3
  <2> QED BY <2>1, <2>4, <2>5
<1> QED BY <1>1, <1>2

\* Dividing twice is dividing by the product.
LEMMA DivDiv ==
  ASSUME NEW x \in Nat, NEW s \in Nat \ {0}, NEW t \in Nat \ {0}
  PROVE  (x \div s) \div t = x \div (s * t)
<1> DEFINE y == x \div s
           z == y \div t
<1>1. y \in Nat /\ y * s <= x /\ x < (y + 1) * s
  BY DivIs
<1>2. z \in Nat /\ z * t <= y /\ y < (z + 1) * t
  <2> HIDE DEF y
  <2> QED BY <1>1, DivIs
<1> HIDE DEF y, z
<1>3. \A u, v \in Nat : u <= v => u * s <= v * s
  OBVIOUS
<1>4. s * t \in Nat \ {0}
  OBVIOUS
<1>5. z * t \in Nat /\ (z + 1) * t \in Nat /\ y + 1 <= (z + 1) * t /\ y + 1 \in Nat
  BY <1>1, <1>2
<1>6. (z * t) * s <= y * s /\ (y + 1) * s <= ((z + 1) * t) * s
  BY <1>1, <1>2, <1>3, <1>5
<1>7. (z * t) * s = z * (s * t) /\ ((z + 1) * t) * s = (z + 1) * (s * t)
  BY <1>2
<1>8. /\ (z * t) * s \in Nat /\ y * s \in Nat /\ (y + 1) * s \in Nat
      /\ ((z + 1) * t) * s \in Nat
  BY <1>1, <1>5
<1>9. z * (s * t) <= x /\ x < (z + 1) * (s * t)
  BY <1>1, <1>6, <1>7, <1>8
<1>10. z = x \div (s * t)
  BY <1>2, <1>4, <1>9, DivIs
<1> QED BY <1>10 DEF y, z

\* Low digits put under a multiple of the divisor do not reach the quotient.
LEMMA DivOfSum ==
  ASSUME NEW q \in Nat, NEW s \in Nat \ {0}, NEW r \in Nat, r < s
  PROVE  (q * s + r) \div s = q /\ (q * s + r) % s = r
<1>1. q * s \in Nat /\ (q + 1) * s = q * s + s
  OBVIOUS
<1>2. q * s + r \in Nat /\ q * s <= q * s + r /\ q * s + r < (q + 1) * s
  BY <1>1
<1>3. q = (q * s + r) \div s
  BY <1>2, DivIs
<1>4. (q * s + r) % s = (q * s + r) - ((q * s + r) \div s) * s
  BY <1>2
<1> QED BY <1>1, <1>3, <1>4

\* A number is its quotient and its remainder.
LEMMA DivMod ==
  ASSUME NEW x \in Nat, NEW s \in Nat \ {0}
  PROVE  x % s \in Nat /\ x % s < s /\ x = (x \div s) * s + (x % s)
<1>1. x % s \in 0..(s - 1)
  OBVIOUS
<1>2. x = s * (x \div s) + (x % s)
  OBVIOUS
<1>3. x \div s \in Nat /\ \A d \in Nat : s * d = d * s
  OBVIOUS
<1> QED BY <1>1, <1>2, <1>3

\* High digits that reach past the divisor pass through it as they are.
LEMMA DivOfHigh ==
  ASSUME NEW q \in Nat, NEW s \in Nat \ {0}, NEW t \in Nat \ {0}, NEW r \in Nat
  PROVE  (q * (s * t) + r) \div s = q * t + (r \div s)
<1> DEFINE d == r \div s
<1>1. d \in Nat /\ d * s <= r /\ r < (d + 1) * s
  BY DivIs
<1> HIDE DEF d
<1>2. q * (s * t) \in Nat /\ q * t \in Nat /\ q * (s * t) = (q * t) * s
  OBVIOUS
<1>3. /\ (q * t + d) * s = (q * t) * s + d * s
      /\ (q * t + d + 1) * s = (q * t) * s + (d + 1) * s
  BY <1>1, <1>2
<1>4. d * s \in Nat /\ (d + 1) * s \in Nat /\ q * t + d \in Nat
  BY <1>1, <1>2
<1>5. (q * t + d) * s <= q * (s * t) + r /\ q * (s * t) + r < (q * t + d + 1) * s
  BY <1>1, <1>2, <1>3, <1>4
<1>6. q * t + d = (q * (s * t) + r) \div s
  BY <1>2, <1>4, <1>5, DivIs
<1> QED BY <1>6 DEF d

\* What is below a power of two shifted down is below the power shifted down.
LEMMA DivBelow ==
  ASSUME NEW r \in Nat, NEW s \in Nat \ {0}, NEW t \in Nat \ {0}, r < s * t
  PROVE  r \div s \in 0..(t - 1)
<1> DEFINE d == r \div s
<1>1. d \in Nat /\ d * s <= r
  BY DivIs
<1> HIDE DEF d
<1>2. \A u \in Nat : t <= u => s * t <= u * s
  OBVIOUS
<1>3. d * s \in Nat /\ s * t \in Nat
  BY <1>1
<1>4. ~(t <= d)
  BY <1>1, <1>2, <1>3
<1> QED BY <1>1, <1>4 DEF d

\* Two numbers in two digits each are the same where their digits are.
LEMMA DigitsTell ==
  ASSUME NEW t \in Nat \ {0}, NEW a \in Nat, NEW b \in Nat, NEW x \in 0..(t - 1), NEW y \in 0..(t - 1)
  PROVE  a * t + x = b * t + y <=> a = b /\ x = y
<1>1. (a * t + x) \div t = a /\ (b * t + y) \div t = b
  BY DivOfSum
<1>2. (a * t + x) % t = x /\ (b * t + y) % t = y
  BY DivOfSum
<1> QED BY <1>1, <1>2

=============================================================================
