----------------------------- MODULE WordsProofs -----------------------------
(***************************************************************************)
(* Numbers on the wire, for every width of byte and word: what %w %W %q    *)
(* write is what %W %Q read, and an SDNV is read as it was written, with   *)
(* an overflow test that refuses exactly the values no word has room for.  *)
(* Induction here is over sets of numbers: a set that has 0, and n + 1     *)
(* with n, is Nat, since its complement would have a least element.        *)
(***************************************************************************)
EXTENDS Words, WellFoundedInduction, TLAPS

-----------------------------------------------------------------------------
(* Induction and recursion                                                   *)

\* A set of numbers has a least one.
LEMMA LeastElement ==
  ASSUME NEW T \in SUBSET Nat, T # {}
  PROVE  \E m \in T : \A k \in T : m <= k
<1>1. IsWellFoundedOn(OpToRel(<, Nat), Nat)
  BY NatLessThanWellFounded
<1>2. PICK m \in T : \A k \in T : ~ (<<k, m>> \in OpToRel(<, Nat))
  BY <1>1, WFMin
<1>3. \A k \in T : ~ (k < m)
  BY <1>2 DEF OpToRel
<1> QED BY <1>3

\* Induction, over a set of numbers.
LEMMA SetInduction ==
  ASSUME NEW T \in SUBSET Nat, 0 \in T, \A n \in T : n + 1 \in T
  PROVE  T = Nat
<1> SUFFICES ASSUME T # Nat PROVE FALSE
  OBVIOUS
<1>1. PICK m \in Nat \ T : \A k \in Nat \ T : m <= k
  <2>1. Nat \ T # {} /\ Nat \ T \in SUBSET Nat
    OBVIOUS
  <2> QED BY <2>1, LeastElement
<1>2. m # 0 /\ m - 1 \in Nat
  BY <1>1
<1>3. m - 1 \in T
  BY <1>1, <1>2
<1> QED BY <1>1, <1>2, <1>3

\* n steps on S, and what they make of a.
IsStep(step, n, S) == step \in [1..n -> [S -> S]]
Recursive(f, n, S, a, step) ==
  f \in [0..n -> S] /\ f[0] = a /\ \A i \in 1..n : f[i] = step[i][f[i - 1]]

\* Definition by recursion up to n, with the step as a function.
LEMMA Recursion ==
  ASSUME NEW n \in Nat, NEW S, NEW a \in S, NEW step, IsStep(step, n, S)
  PROVE  \E f : Recursive(f, n, S, a, step)
<1>a. step \in [1..n -> [S -> S]]
  BY DEF IsStep
<1> DEFINE Upto(k) == {f \in [0..k -> S] : f[0] = a /\ \A i \in 1..k : i <= n => f[i] = step[i][f[i - 1]]}
           T == {k \in Nat : Upto(k) # {}}
<1>1. 0 \in T
  <2>1. [i \in 0..0 |-> a] \in Upto(0)
    OBVIOUS
  <2> QED BY <2>1
<1>2. ASSUME NEW k \in T PROVE k + 1 \in T
  <2>1. PICK f \in Upto(k) : TRUE
    OBVIOUS
  <2>2. PICK v \in S : k + 1 <= n => v = step[k + 1][f[k]]
    <3>1. CASE k + 1 <= n
      <4>1. k + 1 \in 1..n /\ f[k] \in S
        BY <2>1, <3>1
      <4> QED BY <1>a, <4>1
    <3> QED BY <3>1
  <2> DEFINE g == [i \in 0..k + 1 |-> IF i = k + 1 THEN v ELSE f[i]]
  <2>3. g \in [0..k + 1 -> S] /\ g[0] = a
    BY <2>1
  <2>4. ASSUME NEW i \in 1..k + 1, i <= n PROVE g[i] = step[i][g[i - 1]]
    <3>1. CASE i = k + 1
      BY <2>2, <2>4, <3>1
    <3>2. CASE i # k + 1
      <4>1. i \in 1..k /\ i \in 0..k + 1 /\ i - 1 \in 0..k + 1 /\ i - 1 # k + 1
        BY <3>2
      <4>2. g[i] = f[i] /\ g[i - 1] = f[i - 1]
        BY <3>2, <4>1
      <4> QED BY <2>1, <2>4, <4>1, <4>2
    <3> QED BY <3>1, <3>2
  <2>5. g \in Upto(k + 1)
    BY <2>3, <2>4
  <2>6. k + 1 \in Nat
    BY <1>2
  <2> HIDE DEF Upto, g
  <2> QED BY <2>5, <2>6
<1> HIDE DEF T
<1>3. T = Nat
  <2>1. T \in SUBSET Nat
    BY DEF T
  <2> QED BY <1>1, <1>2, <2>1, SetInduction
<1>4. PICK f \in Upto(n) : TRUE
  BY <1>3 DEF T
<1> QED BY <1>4 DEF Recursive

-----------------------------------------------------------------------------
(* Division                                                                  *)

LEMMA DivUnique ==
  ASSUME NEW n \in Int, NEW d \in Nat \ {0}, NEW q \in Int, NEW r \in 0..d - 1, n = d * q + r
  PROVE  n \div d = q /\ n % d = r
BY SMT

LEMMA DivModNat ==
  ASSUME NEW n \in Nat, NEW d \in Nat \ {0}
  PROVE  \E q \in Nat : \E r \in 0..d - 1 : n = d * q + r
<1> DEFINE T == {m \in Nat : \E q \in Nat : n = d * q + m}
<1>1. n \in T
  <2>1. n = d * 0 + n
    OBVIOUS
  <2> QED BY <2>1
<1>2. PICK m \in T : \A k \in T : m <= k
  <2>1. T \in SUBSET Nat /\ T # {}
    BY <1>1
  <2> HIDE DEF T
  <2> QED BY <2>1, LeastElement
<1>3. PICK q \in Nat : n = d * q + m
  BY <1>2
<1>4. m \in 0..d - 1
  <2> SUFFICES ASSUME ~(m < d) PROVE FALSE
    BY <1>2
  <2>1. n = d * (q + 1) + (m - d)
    <3>1. d * (q + 1) = d * q + d
      OBVIOUS
    <3>2. d * q \in Nat /\ m \in Nat
      BY <1>2
    <3> QED BY <1>3, <3>1, <3>2
  <2>2. m - d \in Nat /\ q + 1 \in Nat
    BY <1>2
  <2>3. m - d \in T
    BY <2>1, <2>2
  <2> QED BY <1>2, <2>3
<1> QED BY <1>3, <1>4

\* Quotient and remainder, of negative numbers too.
LEMMA DivMod ==
  ASSUME NEW n \in Int, NEW d \in Nat \ {0}
  PROVE  \E q \in Int : \E r \in 0..d - 1 : n = d * q + r /\ n \div d = q /\ n % d = r
<1>1. PICK q \in Int, r \in 0..d - 1 : n = d * q + r
  <2>1. CASE n >= 0
    BY <2>1, DivModNat
  <2>2. CASE n < 0
    <3>0. PICK p \in Nat : p = -n
      BY <2>2
    <3>1. PICK q \in Nat, r \in 0..d - 1 : p = d * q + r
      BY DivModNat
    <3>2. CASE r = 0
      <4>1. d * (-q) = -(d * q)
        BY <3>1
      <4>2. d * q \in Int
        BY <3>1
      <4>3. n = d * (-q) + 0
        BY <3>0, <3>1, <3>2, <4>1, <4>2
      <4>4. -q \in Int /\ 0 \in 0..d - 1
        BY <3>1
      <4> QED BY <4>3, <4>4, Zenon
    <3>3. CASE r # 0
      <4>1. d * (-q - 1) = -(d * q) - d
        BY <3>1
      <4>2. d * q \in Int
        BY <3>1
      <4>3. n = d * (-q - 1) + (d - r)
        BY <3>0, <3>1, <4>1, <4>2
      <4>4. -q - 1 \in Int /\ d - r \in 0..d - 1
        BY <3>1, <3>3
      <4> QED BY <4>3, <4>4, Zenon
    <3> QED BY <3>2, <3>3
  <2> QED BY <2>1, <2>2
<1>2. n \div d = q /\ n % d = r
  BY <1>1, DivUnique
<1> QED BY <1>1, <1>2

\* Dividing by a product is dividing twice; the remainder is made of both.
LEMMA DivDiv ==
  ASSUME NEW n \in Int, NEW a \in Nat \ {0}, NEW b \in Nat \ {0}
  PROVE  /\ a * b \in Nat \ {0}
         /\ n \div (a * b) = (n \div a) \div b
         /\ n % (a * b) = a * ((n \div a) % b) + (n % a)
<1>1. PICK q \in Int, r \in 0..a - 1 : n = a * q + r /\ n \div a = q /\ n % a = r
  BY DivMod
<1>2. PICK s \in Int, t \in 0..b - 1 : q = b * s + t /\ q \div b = s /\ q % b = t
  BY DivMod
<1>3. n = (a * b) * s + (a * t + r)
  <2>0. \A x, y, u, v \in Int : x * (y * u + v) = (x * y) * u + x * v
    BY SMT
  <2>1. a * q = (a * b) * s + a * t
    <3>1. a * q = a * (b * s + t)
      BY <1>2
    <3> QED BY <2>0, <3>1
  <2>2. a * q \in Int /\ (a * b) * s \in Int /\ a * t \in Int
    BY <1>2
  <2> QED BY <1>1, <2>1, <2>2
<1>4. a * t <= a * (b - 1)
  <2>1. \A x, y, z \in Nat : y <= z => x * y <= x * z
    BY SMT
  <2> QED BY <2>1
<1>5. a * t + r \in 0..(a * b) - 1
  <2>1. a * (b - 1) = a * b - a
    OBVIOUS
  <2>2. a * t \in Nat /\ a * b \in Nat
    OBVIOUS
  <2> QED BY <1>4, <2>1, <2>2
<1>6. a * b \in Nat \ {0}
  BY SMT
<1>7. PICK d : d = a * b
  OBVIOUS
<1>8. PICK r2 : r2 = a * t + r
  OBVIOUS
<1>9. n \div d = s /\ n % d = r2
  BY <1>3, <1>5, <1>6, <1>7, <1>8, DivUnique, ZenonT(60)
<1> QED BY <1>1, <1>2, <1>6, <1>7, <1>8, <1>9

LEMMA DivTwice ==
  ASSUME NEW n \in Int, NEW a \in Nat \ {0}, NEW b \in Nat \ {0}
  PROVE  n \div (b * a) = (n \div a) \div b
<1>1. n \div (a * b) = (n \div a) \div b
  BY DivDiv, ZenonT(60)
<1>2. PICK x, y : x = a * b /\ y = b * a
  OBVIOUS
<1>3. x = y
  BY <1>2
<1> QED BY <1>1, <1>2, <1>3

\* Neither the quotient nor the remainder of a natural number is larger.
LEMMA DivModSmaller ==
  ASSUME NEW n \in Nat, NEW d \in Nat \ {0}
  PROVE  n \div d \in 0..n /\ n % d \in 0..n
<1>1. PICK q \in Int, r \in 0..d - 1 : n = d * q + r /\ n \div d = q /\ n % d = r
  BY DivMod
<1>2. q >= 0
  <2> SUFFICES ASSUME q <= -1 PROVE FALSE
    BY <1>1
  <2>1. \A a \in Nat, b \in Int : b <= -1 => a * b <= -a
    BY SMT
  <2>2. d * q <= -d /\ d * q \in Int
    BY <2>1
  <2> QED BY <1>1, <2>2
<1>3. d * q >= q
  <2>1. \A a \in Nat \ {0}, b \in Nat : a * b >= b
    BY SMT
  <2> QED BY <1>1, <1>2, <2>1
<1>4. d * q \in Int
  BY <1>1
<1> QED BY <1>1, <1>2, <1>3, <1>4

-----------------------------------------------------------------------------
(* Digits                                                                    *)

\* The powers of d, up to the m-th.
IsPowers(p, d, m) ==
  p \in [0..m -> Nat \ {0}] /\ p[0] = 1 /\ \A k \in 0..m - 1 : p[k + 1] = d * p[k]

\* v accumulates the digits c to the base d.
Accumulates(v, c, d, n) == v[0] = 0 /\ \A i \in 1..n : v[i] = v[i - 1] * d + c[i]

\* c holds the last k digits of n to the base d, the first of them first.
AreDigits(c, n, p, d, k) == \A i \in 1..k : c[i] = (n \div p[k - i]) % d

\* The digits of a number, from the first of k, add up to it modulo the k-th power.
LEMMA DigitsAddUp ==
  ASSUME NEW d \in Nat \ {0}, NEW m \in Nat, NEW p, IsPowers(p, d, m), NEW k \in 0..m,
         NEW n \in Int, NEW c, NEW v, Accumulates(v, c, d, k),
         AreDigits(c, n, p, d, k)
  PROVE  \A i \in 0..k : v[i] = (n \div p[k - i]) % p[i]
<1> DEFINE T == {i \in Nat : i <= k => v[i] = (n \div p[k - i]) % p[i]}
<1>0. k \in Nat /\ m \in Nat /\ k <= m
  OBVIOUS
<1>1. 0 \in T
  <2>1. k \in 0..m
    OBVIOUS
  <2>2. PICK a \in Nat \ {0} : a = p[k]
    BY <2>1 DEF IsPowers
  <2>3. PICK q \in Int, r \in 0..a - 1 : n = a * q + r /\ n \div a = q
    BY DivMod
  <2>4. q % 1 = 0
    <3>1. q = 1 * q + 0 /\ 0 \in 0..1 - 1
      OBVIOUS
    <3> QED BY <3>1, DivUnique
  <2>5. p[0] = 1 /\ v[0] = 0 /\ k - 0 = k
    BY DEF IsPowers, Accumulates
  <2> QED BY <2>2, <2>3, <2>4, <2>5
<1>2. ASSUME NEW i \in T PROVE i + 1 \in T
  <2> SUFFICES ASSUME i + 1 <= k PROVE v[i + 1] = (n \div p[k - (i + 1)]) % p[i + 1]
    OBVIOUS
  <2>1. PICK j \in 0..m : j = k - (i + 1)
    BY <1>0
  <2>2. k - i = j + 1 /\ j \in 0..m - 1 /\ i \in 0..m - 1 /\ i + 1 \in 1..k /\ (i + 1) - 1 = i
    BY <1>0, <2>1
  <2>3. PICK a \in Nat \ {0} : a = p[j]
    BY <2>1 DEF IsPowers
  <2>4. PICK b \in Nat \ {0} : b = p[i]
    BY <2>2 DEF IsPowers
  <2>5. p[k - i] = d * a /\ p[i + 1] = d * b
    BY <2>2, <2>3, <2>4 DEF IsPowers
  <2>6. v[i + 1] = v[i] * d + c[i + 1] /\ c[i + 1] = (n \div a) % d
    BY <2>1, <2>2, <2>3 DEF Accumulates, AreDigits
  <2>7. v[i] = (n \div (d * a)) % b
    BY <2>2, <2>4, <2>5
  <2>8. PICK q \in Int, r \in 0..a - 1 : n \div a = q
    BY DivMod
  <2>9. n \div (d * a) = q \div d
    <3>1. n \div (d * a) = (n \div a) \div d
      BY DivTwice, Zenon
    <3> QED BY <2>8, <3>1
  <2>10. q % (d * b) = d * ((q \div d) % b) + (q % d)
    BY DivDiv
  <2>11. PICK x \in Int : x = (q \div d) % b
    <3>1. PICK e \in Int : e = q \div d
      BY DivMod
    <3>2. PICK x \in Int : x = e % b
      <4>1. \E y \in Int : \E z \in 0..b - 1 : e = b * y + z /\ e \div b = y /\ e % b = z
        BY DivMod
      <4> QED BY <4>1
    <3> QED BY <3>1, <3>2
  <2>12. v[i + 1] = x * d + (q % d)
    BY <2>6, <2>7, <2>8, <2>9, <2>11
  <2>13. x * d = d * x
    BY <2>11
  <2> QED BY <2>1, <2>3, <2>5, <2>8, <2>10, <2>11, <2>12, <2>13
<1> HIDE DEF T
<1>3. T = Nat
  <2>1. T \in SUBSET Nat
    BY DEF T
  <2> QED BY <1>1, <1>2, <2>1, SetInduction
<1> QED BY <1>3 DEF T

\* Two accumulators of the same digits agree.
LEMMA AccumulatesOnce ==
  ASSUME NEW n \in Nat, NEW v, NEW w, NEW c, NEW d,
         Accumulates(v, c, d, n), Accumulates(w, c, d, n)
  PROVE  \A i \in 0..n : v[i] = w[i]
<1> DEFINE T == {i \in Nat : i <= n => v[i] = w[i]}
<1>1. 0 \in T
  BY DEF Accumulates
<1>2. ASSUME NEW k \in T PROVE k + 1 \in T
  <2> SUFFICES ASSUME k + 1 <= n PROVE v[k + 1] = w[k + 1]
    OBVIOUS
  <2>1. k + 1 \in 1..n /\ (k + 1) - 1 = k /\ k <= n
    OBVIOUS
  <2>2. v[k + 1] = v[k] * d + c[k + 1] /\ w[k + 1] = w[k] * d + c[k + 1]
    BY <2>1 DEF Accumulates
  <2> QED BY <2>1, <2>2
<1> HIDE DEF T
<1>3. T = Nat
  <2>1. T \in SUBSET Nat
    BY DEF T
  <2> QED BY <1>1, <1>2, <2>1, SetInduction
<1> QED BY <1>3 DEF T

\* There is an accumulator of every list of digits.
LEMMA AccumulatorExists ==
  ASSUME NEW n \in Nat, NEW c \in [1..n -> Nat], NEW d \in Nat
  PROVE  \E v \in [0..n -> Nat] : Accumulates(v, c, d, n)
<1> DEFINE step == [i \in 1..n |-> [v \in Nat |-> v * d + c[i]]]
<1>1. IsStep(step, n, Nat)
  BY DEF IsStep
<1>2. \A i \in 1..n, v \in Nat : step[i][v] = v * d + c[i]
  OBVIOUS
<1> HIDE DEF step
<1>3. PICK f : Recursive(f, n, Nat, 0, step)
  BY <1>1, Recursion
<1>4. f \in [0..n -> Nat] /\ f[0] = 0 /\ \A i \in 1..n : f[i] = step[i][f[i - 1]]
  BY <1>3 DEF Recursive
<1>5. ASSUME NEW i \in 1..n PROVE f[i] = f[i - 1] * d + c[i]
  <2>1. f[i - 1] \in Nat
    BY <1>4
  <2> QED BY <1>2, <1>4, <2>1
<1> QED BY <1>4, <1>5 DEF Accumulates

\* The recursive function that Number and SdnvValue look for.
IsValue(f, c, d, n) == f = [i \in 0..n |-> IF i = 0 THEN 0 ELSE f[i - 1] * d + c[i]]

LEMMA ValueAccumulates ==
  ASSUME NEW n \in Nat, NEW c \in [1..n -> Nat], NEW d \in Nat
  PROVE  LET f == CHOOSE f : IsValue(f, c, d, n)
         IN  f \in [0..n -> Nat] /\ Accumulates(f, c, d, n)
<1>1. PICK v \in [0..n -> Nat] : Accumulates(v, c, d, n)
  BY AccumulatorExists
<1>2. IsValue(v, c, d, n)
  <2>1. ASSUME NEW i \in 0..n PROVE v[i] = IF i = 0 THEN 0 ELSE v[i - 1] * d + c[i]
    <3>1. i # 0 => i \in 1..n
      OBVIOUS
    <3> QED BY <1>1, <3>1 DEF Accumulates
  <2> QED BY <1>1, <2>1 DEF IsValue
<1>3. PICK f : f = CHOOSE g : IsValue(g, c, d, n)
  OBVIOUS
<1>4. IsValue(f, c, d, n)
  BY <1>2, <1>3
<1>5. Accumulates(f, c, d, n) /\ f = [i \in 0..n |-> f[i]]
  BY <1>4 DEF IsValue, Accumulates
<1>6. \A i \in 0..n : f[i] = v[i]
  BY <1>1, <1>5, AccumulatesOnce
<1>7. f \in [0..n -> Nat]
  BY <1>1, <1>5, <1>6
<1> QED BY <1>3, <1>5, <1>7

-----------------------------------------------------------------------------
(* The powers of a byte and of a group                                       *)

BasePowers  == [k \in 0..WORD_BYTES |-> Base^k]
GroupPowers == [k \in 0..SdnvMax |-> Group^k]

LEMMA Sizes ==
  /\ BYTE_BITS \in Nat /\ BYTE_BITS >= 2 /\ WORD_BYTES \in Nat \ {0}
  /\ WordBits \in Nat \ {0} /\ WordBits >= BYTE_BITS
  /\ SdnvMax \in Nat \ {0}
  /\ SdnvMax * (BYTE_BITS - 1) \in WordBits .. WordBits + BYTE_BITS - 2
<1>1. BYTE_BITS \in Nat /\ BYTE_BITS >= 2 /\ WORD_BYTES \in Nat \ {0}
  BY ByteBitsAssumption, WordBytesAssumption
<1>2. WordBits \in Nat \ {0} /\ WordBits >= BYTE_BITS
  <2>1. \A a \in Nat \ {0}, b \in Nat : b >= 2 => a * b \in Nat \ {0} /\ a * b >= b
    BY SMT
  <2> QED BY <1>1, <2>1 DEF WordBits
<1>3. PICK d \in Nat \ {0} : d = BYTE_BITS - 1
  BY <1>1
<1>4. PICK n \in Nat : n = WordBits + BYTE_BITS - 2
  BY <1>1, <1>2
<1>5. PICK q \in Int, r \in 0..d - 1 : n = d * q + r /\ n \div d = q
  BY DivMod
<1>6. SdnvMax = q
  BY <1>3, <1>4, <1>5 DEF SdnvMax
<1>7. d * q \in WordBits .. WordBits + BYTE_BITS - 2
  BY <1>1, <1>2, <1>3, <1>4, <1>5
<1>8. q \in Nat \ {0}
  <2>1. \A a \in Nat \ {0}, b \in Int : a * b > 0 => b > 0
    BY SMT
  <2>2. d * q > 0
    BY <1>2, <1>7
  <2> QED BY <2>1, <2>2
<1>9. q * d = d * q
  BY SMT
<1> QED BY <1>1, <1>2, <1>3, <1>6, <1>7, <1>8, <1>9

LEMMA Widths ==
  /\ Base \in Nat \ {0} /\ Group \in Nat \ {0} /\ Group >= 2 /\ Base = 2 * Group
  /\ Modulus \in Nat \ {0}
<1>1. \A b \in 0..WordBits + BYTE_BITS : 2^b \in Nat \ {0} /\ 2^(b + 1) = 2 * 2^b
  BY PowersAssumption
<1>2. /\ BYTE_BITS \in 0..WordBits + BYTE_BITS /\ WordBits \in 0..WordBits + BYTE_BITS
      /\ BYTE_BITS - 1 \in 0..WordBits + BYTE_BITS /\ BYTE_BITS - 2 \in 0..WordBits + BYTE_BITS
      /\ (BYTE_BITS - 1) + 1 = BYTE_BITS /\ (BYTE_BITS - 2) + 1 = BYTE_BITS - 1
  BY Sizes
<1>3. Base \in Nat \ {0} /\ Group \in Nat \ {0} /\ Modulus \in Nat \ {0}
  BY <1>1, <1>2 DEF Base, Group, Modulus
<1>4. Base = 2 * Group
  BY <1>1, <1>2 DEF Base, Group
<1>5. 2^(BYTE_BITS - 2) \in Nat \ {0} /\ Group = 2 * 2^(BYTE_BITS - 2)
  BY <1>1, <1>2 DEF Group
<1> QED BY <1>3, <1>4, <1>5

LEMMA BaseIsPowers == IsPowers(BasePowers, Base, WORD_BYTES)
<1>1. WORD_BYTES \in Nat
  BY Sizes
<1>2. \A k \in 0..WORD_BYTES : Base^k \in Nat \ {0} /\ Base^(k + 1) = Base * Base^k
  BY PowersAssumption
<1>3. BasePowers \in [0..WORD_BYTES -> Nat \ {0}]
  BY <1>2 DEF BasePowers
<1>4. BasePowers[0] = 1
  BY <1>1, PowersAssumption DEF BasePowers
<1>5. ASSUME NEW k \in 0..WORD_BYTES - 1 PROVE BasePowers[k + 1] = Base * BasePowers[k]
  <2>1. k \in 0..WORD_BYTES /\ k + 1 \in 0..WORD_BYTES
    BY <1>1
  <2> QED BY <1>2, <2>1 DEF BasePowers
<1> QED BY <1>3, <1>4, <1>5 DEF IsPowers

LEMMA GroupIsPowers == IsPowers(GroupPowers, Group, SdnvMax)
<1>1. SdnvMax \in Nat
  BY Sizes
<1>2. \A k \in 0..SdnvMax : Group^k \in Nat \ {0} /\ Group^(k + 1) = Group * Group^k
  BY PowersAssumption
<1>3. GroupPowers \in [0..SdnvMax -> Nat \ {0}]
  BY <1>2 DEF GroupPowers
<1>4. GroupPowers[0] = 1
  BY <1>1, PowersAssumption DEF GroupPowers
<1>5. ASSUME NEW k \in 0..SdnvMax - 1 PROVE GroupPowers[k + 1] = Group * GroupPowers[k]
  <2>1. k \in 0..SdnvMax /\ k + 1 \in 0..SdnvMax
    BY <1>1
  <2> QED BY <1>2, <2>1 DEF GroupPowers
<1> QED BY <1>3, <1>4, <1>5 DEF IsPowers

LEMMA PowersAdd ==
  ASSUME NEW b \in Nat, NEW a \in Nat, a + b <= WordBits + BYTE_BITS
  PROVE  2^(a + b) = 2^a * 2^b
<1> DEFINE T == {x \in Nat : x + b <= WordBits + BYTE_BITS => 2^(x + b) = 2^x * 2^b}
<1>0. \A e \in 0..WordBits + BYTE_BITS : 2^e \in Nat \ {0} /\ 2^(e + 1) = 2 * 2^e
  BY PowersAssumption
<1>s. WordBits \in Nat /\ BYTE_BITS \in Nat
  BY Sizes
<1>1. 0 \in T
  <2> SUFFICES ASSUME b <= WordBits + BYTE_BITS PROVE 2^b = 1 * 2^b
    BY PowersAssumption
  <2>1. 2^b \in Nat
    BY <1>0, <1>s
  <2> QED BY <2>1
<1>2. ASSUME NEW x \in T PROVE x + 1 \in T
  <2> SUFFICES ASSUME (x + 1) + b <= WordBits + BYTE_BITS PROVE 2^((x + 1) + b) = 2^(x + 1) * 2^b
    OBVIOUS
  <2>1. x \in 0..WordBits + BYTE_BITS /\ x + b \in 0..WordBits + BYTE_BITS
        /\ b \in 0..WordBits + BYTE_BITS /\ (x + b) + 1 = (x + 1) + b
    BY <1>s
  <2>2. 2^(x + b) = 2^x * 2^b
    BY <1>s, <2>1
  <2>3. 2^((x + 1) + b) = 2 * 2^(x + b) /\ 2^(x + 1) = 2 * 2^x
    BY <1>0, <2>1
  <2>4. PICK u \in Nat, v \in Nat : u = 2^x /\ v = 2^b
    BY <1>0, <2>1
  <2>5. 2 * (u * v) = (2 * u) * v
    OBVIOUS
  <2> QED BY <2>2, <2>3, <2>4, <2>5
<1> HIDE DEF T
<1>3. T = Nat
  <2>1. T \in SUBSET Nat
    BY DEF T
  <2> QED BY <1>1, <1>2, <2>1, SetInduction
<1> QED BY <1>3 DEF T

\* The powers of a power of two.
LEMMA PowersMultiply ==
  ASSUME NEW e \in Nat, NEW d, d = 2^e, NEW m \in Nat, m * e <= WordBits + BYTE_BITS,
         NEW p, IsPowers(p, d, m)
  PROVE  \A k \in 0..m : p[k] = 2^(k * e)
<1> DEFINE T == {k \in Nat : k <= m => p[k] = 2^(k * e)}
<1>1. 0 \in T
  <2>1. 0 * e = 0
    OBVIOUS
  <2>2. p[0] = 1 /\ 2^0 = 1
    BY PowersAssumption DEF IsPowers
  <2> QED BY <2>1, <2>2
<1>2. ASSUME NEW k \in T PROVE k + 1 \in T
  <2> SUFFICES ASSUME k + 1 <= m PROVE p[k + 1] = 2^((k + 1) * e)
    OBVIOUS
  <2>1. k \in 0..m - 1 /\ k <= m
    OBVIOUS
  <2>2. p[k + 1] = d * p[k] /\ p[k] = 2^(k * e)
    BY <2>1 DEF IsPowers
  <2>3. PICK x \in Nat : x = k * e
    OBVIOUS
  <2>4. e + x = (k + 1) * e /\ e + x <= WordBits + BYTE_BITS
    <3>1. (k + 1) * e = k * e + e
      OBVIOUS
    <3>2. \A i, j, y \in Nat : i <= j => i * y <= j * y
      BY SMT
    <3>3. (k + 1) * e <= m * e
      BY <3>2
    <3>4. m * e \in Nat /\ WordBits \in Nat /\ BYTE_BITS \in Nat
      BY Sizes
    <3> QED BY <2>3, <3>1, <3>3, <3>4
  <2>5. 2^(e + x) = 2^e * 2^x
    BY <2>4, PowersAdd
  <2> QED BY <2>2, <2>3, <2>4, <2>5
<1> HIDE DEF T
<1>3. T = Nat
  <2>1. T \in SUBSET Nat
    BY DEF T
  <2> QED BY <1>1, <1>2, <2>1, SetInduction
<1> QED BY <1>3 DEF T

\* A word is WORD_BYTES bytes, and SdnvMax groups hold one.
LEMMA WordFits ==
  Base^WORD_BYTES = Modulus /\ Modulus <= Group^SdnvMax
<1>1. Base^WORD_BYTES = Modulus
  <2>1. BasePowers[WORD_BYTES] = 2^(WORD_BYTES * BYTE_BITS)
    <3>1. WORD_BYTES * BYTE_BITS <= WordBits + BYTE_BITS
      BY Sizes DEF WordBits
    <3> QED BY <3>1, Sizes, BaseIsPowers, PowersMultiply DEF Base
  <2> QED BY <2>1, Sizes DEF BasePowers, Modulus, WordBits
<1>2. Modulus <= Group^SdnvMax
  <2>1. PICK e \in Nat : e = BYTE_BITS - 1
    BY Sizes
  <2>2. PICK x \in Nat : x = SdnvMax * e
    BY <2>1, Sizes
  <2>3. x >= WordBits /\ x <= WordBits + BYTE_BITS
    BY <2>1, <2>2, Sizes
  <2>4. GroupPowers[SdnvMax] = 2^x
    <3>1. SdnvMax * e <= WordBits + BYTE_BITS /\ Group = 2^e /\ SdnvMax \in 0..SdnvMax
      BY <2>1, <2>2, <2>3, Sizes DEF Group
    <3> QED BY <2>2, <3>1, Sizes, GroupIsPowers, PowersMultiply
  <2>5. PICK y \in Nat : y = x - WordBits
    BY <2>3, Sizes
  <2>6. 2^x = 2^y * 2^WordBits
    <3>1. y + WordBits = x /\ WordBits \in Nat
      BY <2>5, Sizes
    <3> QED BY <2>3, <3>1, PowersAdd
  <2>7. 2^y \in Nat \ {0} /\ 2^WordBits \in Nat \ {0}
    <3>1. y \in 0..WordBits + BYTE_BITS /\ WordBits \in 0..WordBits + BYTE_BITS
      BY <2>3, <2>5, Sizes
    <3> QED BY <3>1, PowersAssumption
  <2>8. \A u, v \in Nat \ {0} : v <= u * v
    BY SMT
  <2>9. Modulus <= 2^x
    BY <2>6, <2>7, <2>8 DEF Modulus
  <2> QED BY <2>4, <2>9, Sizes DEF GroupPowers
<1> QED BY <1>1, <1>2

-----------------------------------------------------------------------------
(* Fixed numbers                                                             *)

LEMMA NumberAccumulates ==
  ASSUME NEW k \in Nat, NEW bytes \in [1..k -> Nat]
  PROVE  \E v \in [0..k -> Nat] : Number(bytes) = v[k] /\ Accumulates(v, bytes, Base, k)
<1>1. Len(bytes) = k
  <2>1. bytes \in Seq(Nat) /\ DOMAIN bytes = 1..k
    OBVIOUS
  <2> QED BY <2>1
<1>2. PICK f : f = CHOOSE g : IsValue(g, bytes, Base, k)
  OBVIOUS
<1>3. Base \in Nat
  BY Widths
<1>4. f \in [0..k -> Nat] /\ Accumulates(f, bytes, Base, k)
  BY <1>2, <1>3, ValueAccumulates
<1>5. Number(bytes) = f[k]
  BY <1>1, <1>2 DEF Number, IsValue
<1> QED BY <1>4, <1>5

LEMMA BigEndianBytes ==
  ASSUME NEW n \in Int, NEW k \in 0..WORD_BYTES
  PROVE  BigEndian(n, k) \in [1..k -> Byte]
<1>1. \A i \in 1..k : (n \div Base^(k - i)) % Base \in Byte
  <2> TAKE i \in 1..k
  <2>1. k - i \in 0..WORD_BYTES
    BY Sizes
  <2>2. PICK d \in Nat \ {0} : d = Base^(k - i)
    BY <2>1, PowersAssumption
  <2>3. PICK q \in Int : q = n \div d
    BY DivMod
  <2>4. q % Base \in 0..Base - 1
    <3>1. Base \in Nat \ {0}
      BY Widths
    <3> QED BY <3>1, DivMod
  <2> QED BY <2>2, <2>3, <2>4 DEF Byte
<1> QED BY <1>1 DEF BigEndian

\* What %b %w %W %q write for a number in k bytes, most significant first, is the
\* number modulo 256^k, negative ones included, however it is read back.
\* (_w, _bW, _bq)
THEOREM FixedNumbersComeBack ==
  \A n \in Int, k \in 0..WORD_BYTES : Number(BigEndian(n, k)) = n % Base^k
<1> TAKE n \in Int, k \in 0..WORD_BYTES
<1>1. k \in Nat /\ WORD_BYTES \in Nat /\ Base \in Nat \ {0}
  BY Sizes, Widths
<1>2. PICK bytes : bytes = BigEndian(n, k)
  OBVIOUS
<1>3. bytes \in [1..k -> Nat]
  <2>1. Byte \subseteq Nat
    BY <1>1 DEF Byte
  <2>2. bytes \in [1..k -> Byte]
    BY <1>2, BigEndianBytes
  <2> QED BY <2>1, <2>2
<1>4. PICK v \in [0..k -> Nat] : Number(bytes) = v[k] /\ Accumulates(v, bytes, Base, k)
  BY <1>1, <1>3, NumberAccumulates
<1>5. PICK p : p = BasePowers
  OBVIOUS
<1>6. IsPowers(p, Base, WORD_BYTES) /\ \A j \in 0..WORD_BYTES : p[j] = Base^j
  BY <1>5, BaseIsPowers DEF BasePowers
<1>7. AreDigits(bytes, n, p, Base, k)
  <2>1. ASSUME NEW i \in 1..k PROVE bytes[i] = (n \div p[k - i]) % Base
    <3>1. k - i \in 0..WORD_BYTES
      BY <1>1
    <3>2. bytes[i] = (n \div Base^(k - i)) % Base
      BY <1>2 DEF BigEndian
    <3> QED BY <1>6, <3>1, <3>2
  <2> QED BY <2>1 DEF AreDigits
<1>8. v[k] = (n \div p[k - k]) % p[k]
  <2>1. \A i \in 0..k : v[i] = (n \div p[k - i]) % p[i]
    BY <1>1, <1>4, <1>6, <1>7, DigitsAddUp
  <2> QED BY <1>1, <2>1
<1>9. k - k = 0 /\ p[0] = 1 /\ p[k] = Base^k
  BY <1>1, <1>6 DEF IsPowers
<1>10. n \div 1 = n
  <2>1. n = 1 * n + 0 /\ 0 \in 0..1 - 1
    OBVIOUS
  <2> QED BY <2>1, DivUnique
<1>11. v[k] = n % Base^k
  BY <1>8, <1>9, <1>10
<1> QED BY <1>2, <1>4, <1>11

\* A number that k bytes have room for is read as it was written.
COROLLARY FixedNumbersRoundTrip ==
  \A k \in 0..WORD_BYTES : \A n \in 0..Base^k - 1 : Number(BigEndian(n, k)) = n
<1> TAKE k \in 0..WORD_BYTES
<1> TAKE n \in 0..Base^k - 1
<1>1. PICK d \in Nat \ {0} : d = Base^k
  BY PowersAssumption
<1>2. n \in 0..d - 1 /\ n \in Int
  BY <1>1
<1>3. n % d = n
  <2>1. n = d * 0 + n
    BY <1>2
  <2> QED BY <1>2, <2>1, DivUnique
<1> QED BY <1>1, <1>2, <1>3, FixedNumbersComeBack

\* A word of the stack that %q writes is the word that %Q pushes, negative ones
\* included.  (_bq, _rQ)
COROLLARY WordsRoundTrip ==
  \A n \in Word : Int64(Number(BigEndian(n, WORD_BYTES))) = n
<1> TAKE n \in Word
<1>1. PICK h \in Nat \ {0} : h = 2^(WordBits - 1) /\ Modulus = 2 * h
  <2>1. WordBits - 1 \in 0..WordBits + BYTE_BITS /\ (WordBits - 1) + 1 = WordBits
    BY Sizes
  <2> QED BY <2>1, PowersAssumption DEF Modulus
<1>2. n \in Int /\ -h <= n /\ n <= h - 1
  BY <1>1 DEF Word
<1>3. PICK m \in Nat \ {0} : m = 2 * h
  BY <1>1
<1>4. PICK q \in Int, r \in 0..m - 1 : n = m * q + r /\ n % m = r
  BY <1>2, DivMod
<1>5. Number(BigEndian(n, WORD_BYTES)) = r
  <2>1. WORD_BYTES \in 0..WORD_BYTES
    BY Sizes
  <2> QED BY <1>1, <1>2, <1>3, <1>4, <2>1, WordFits, FixedNumbersComeBack
<1>6. (r + h) % m = n + h
  <2>1. r + h = m * (-q) + (n + h)
    <3>1. m * (-q) = -(m * q) /\ m * q \in Int
      BY <1>4
    <3> QED BY <1>1, <1>2, <1>4, <3>1
  <2>2. n + h \in 0..m - 1 /\ -q \in Int /\ r + h \in Int
    <3>1. n + h \in 0..m - 1
      BY <1>1, <1>2, <1>3
    <3>2. -q \in Int /\ r \in Int
      BY <1>4
    <3> QED BY <3>1, <3>2
  <2> QED BY <2>1, <2>2, DivUnique
<1>7. (n + h) - h = n
  BY <1>1, <1>2
<1>8. Int64(r) = n
  BY <1>1, <1>3, <1>6, <1>7 DEF Int64
<1> QED BY <1>5, <1>8

-----------------------------------------------------------------------------
(* SDNV                                                                      *)

\* The groups of the first k bytes.
GroupsOf(bytes, k) == [i \in 1..k |-> bytes[i] % Group]

\* What SdnvValue looks for.
IsSdnvValue(f, bytes, i) ==
  f = [j \in 0..i |-> IF j = 0 THEN 0 ELSE f[j - 1] * Group + (bytes[j] % Group)]

LEMMA SdnvAccumulates ==
  ASSUME NEW k \in Nat, NEW bytes \in [1..k -> Nat]
  PROVE  \E v \in [0..k -> Nat] :
           Accumulates(v, GroupsOf(bytes, k), Group, k) /\ \A i \in 0..k : SdnvValue(bytes, i) = v[i]
<1>1. Group \in Nat \ {0}
  BY Widths
<1>2. PICK c : c = GroupsOf(bytes, k)
  OBVIOUS
<1>3. \A i \in 1..k : c[i] = bytes[i] % Group /\ c[i] \in 0..Group - 1
  <2> TAKE i \in 1..k
  <2>1. PICK b \in Int : b = bytes[i]
    OBVIOUS
  <2>2. b % Group \in 0..Group - 1
    BY <1>1, DivMod
  <2> QED BY <1>2, <2>1, <2>2 DEF GroupsOf
<1>4. c \in [1..k -> Nat]
  <2>1. DOMAIN c = 1..k /\ c = [i \in 1..k |-> c[i]]
    BY <1>2 DEF GroupsOf
  <2>2. \A i \in 1..k : c[i] \in Nat
    BY <1>1, <1>3
  <2> QED BY <2>1, <2>2
<1>5. PICK v \in [0..k -> Nat] : Accumulates(v, c, Group, k)
  BY <1>1, <1>4, AccumulatorExists
<1>6. ASSUME NEW i \in 0..k PROVE SdnvValue(bytes, i) = v[i]
  <2>1. PICK w : w = [j \in 0..i |-> v[j]]
    OBVIOUS
  <2>2. IsSdnvValue(w, bytes, i)
    <3>1. ASSUME NEW j \in 0..i, j # 0 PROVE v[j] = w[j - 1] * Group + (bytes[j] % Group)
      <4>1. j \in 1..k /\ j - 1 \in 0..i
        BY <3>1
      <4>2. v[j] = v[j - 1] * Group + c[j] /\ w[j - 1] = v[j - 1]
        BY <1>5, <2>1, <4>1 DEF Accumulates
      <4> QED BY <1>3, <4>1, <4>2
    <3>2. \A j \in 0..i : w[j] = IF j = 0 THEN 0 ELSE w[j - 1] * Group + (bytes[j] % Group)
      BY <1>5, <2>1, <3>1 DEF Accumulates
    <3> QED BY <2>1, <3>2 DEF IsSdnvValue
  <2>3. PICK f : f = CHOOSE g : IsSdnvValue(g, bytes, i)
    OBVIOUS
  <2>4. IsSdnvValue(f, bytes, i)
    BY <2>2, <2>3
  <2>5. Accumulates(f, c, Group, i)
    <3>1. ASSUME NEW j \in 1..i PROVE f[j] = f[j - 1] * Group + c[j]
      <4>1. j \in 0..i /\ j \in 1..k /\ j # 0
        OBVIOUS
      <4>2. f[j] = f[j - 1] * Group + (bytes[j] % Group)
        BY <2>4, <4>1 DEF IsSdnvValue
      <4> QED BY <1>3, <4>1, <4>2
    <3>2. f[0] = 0
      BY <2>4 DEF IsSdnvValue
    <3> QED BY <3>1, <3>2 DEF Accumulates
  <2>6. Accumulates(v, c, Group, i)
    BY <1>5 DEF Accumulates
  <2>7. f[i] = v[i]
    <3>1. i \in Nat /\ i \in 0..i
      OBVIOUS
    <3> QED BY <2>5, <2>6, <3>1, AccumulatesOnce
  <2> QED BY <2>3, <2>7 DEF SdnvValue, IsSdnvValue
<1> QED BY <1>2, <1>5, <1>6

\* The words fill their groups: the largest is followed by a multiple of one.
LEMMA ModulusOfGroups ==
  \E m \in Nat \ {0} : Modulus = Group * m /\ (Modulus - 1) \div Group = m - 1
<1>1. PICK e \in Nat : e = BYTE_BITS - 1 /\ e <= WordBits
  BY Sizes
<1>2. PICK b \in Nat : b = WordBits - e
  BY <1>1, Sizes
<1>3. Modulus = 2^b * Group
  <2>1. b + e = WordBits /\ b + e <= WordBits + BYTE_BITS
    BY <1>1, <1>2, Sizes
  <2>2. 2^(b + e) = 2^b * 2^e
    BY <2>1, PowersAdd
  <2> QED BY <1>1, <2>1, <2>2 DEF Modulus, Group
<1>4. PICK m \in Nat \ {0} : m = 2^b
  <2>1. b \in 0..WordBits + BYTE_BITS
    BY <1>1, <1>2, Sizes
  <2> QED BY <2>1, PowersAssumption
<1>5. Group \in Nat \ {0}
  BY Widths
<1>6. Modulus = Group * m
  BY <1>3, <1>4, <1>5
<1>7. Modulus - 1 = Group * (m - 1) + (Group - 1)
  <2>1. Group * (m - 1) = Group * m - Group
    BY <1>5
  <2>2. Group * m \in Nat
    BY <1>5
  <2> QED BY <1>5, <1>6, <2>1, <2>2
<1>8. (Modulus - 1) \div Group = m - 1
  <2>1. Modulus - 1 \in Int /\ m - 1 \in Int /\ Group - 1 \in 0..Group - 1
    BY <1>5, Widths
  <2> QED BY <1>5, <1>7, <2>1, DivUnique
<1> QED BY <1>6, <1>8

\* The test that %D makes before it shifts by a group is exact: it fails if and only
\* if the value with the next group no longer fits the word, whatever came before.
\* (_rD)
THEOREM SdnvOverflowIsExact ==
  \A n \in Nat : \A bytes \in [1..n -> Nat] : \A k \in 1..n :
    SdnvOverflows(bytes, k) <=> SdnvValue(bytes, k) >= Modulus
<1> TAKE n \in Nat
<1> TAKE bytes \in [1..n -> Nat]
<1> TAKE k \in 1..n
<1>1. PICK v \in [0..n -> Nat] : /\ Accumulates(v, GroupsOf(bytes, n), Group, n)
                                 /\ \A i \in 0..n : SdnvValue(bytes, i) = v[i]
  BY SdnvAccumulates
<1>2. PICK m \in Nat \ {0} : Modulus = Group * m /\ (Modulus - 1) \div Group = m - 1
  BY ModulusOfGroups
<1>3. k - 1 \in 0..n /\ k \in 0..n
  OBVIOUS
<1>4. Group \in Nat \ {0}
  BY Widths
<1>5. PICK r : r \in 0..Group - 1 /\ r = bytes[k] % Group
  <2>1. bytes[k] \in Int
    BY <1>3
  <2> QED BY <1>4, <2>1, DivMod
<1>6. PICK x \in Nat : x = v[k - 1]
  BY <1>3
<1>7. v[k] = x * Group + r
  <2>1. v[k] = v[k - 1] * Group + GroupsOf(bytes, n)[k]
    BY <1>1, <1>3 DEF Accumulates
  <2> QED BY <1>3, <1>5, <1>6, <2>1 DEF GroupsOf
<1>8. SdnvOverflows(bytes, k) <=> x > m - 1
  BY <1>1, <1>2, <1>3, <1>6 DEF SdnvOverflows
<1>9. \A a, b, g \in Nat : a <= b => a * g <= g * b
  BY SMT
<1>10. CASE x > m - 1
  <2>1. Group * m <= x * Group
    <3>1. m <= x /\ Group * m = m * Group /\ x * Group = Group * x
      BY <1>4, <1>10
    <3> QED BY <1>4, <1>9, <3>1
  <2>2. Group * m \in Nat /\ x * Group \in Nat
    BY <1>4
  <2>3. v[k] >= Modulus
    BY <1>2, <1>5, <1>7, <2>1, <2>2
  <2> QED BY <1>1, <1>3, <1>8, <1>10, <2>3
<1>11. CASE ~(x > m - 1)
  <2>1. x * Group <= Group * (m - 1)
    <3>1. x <= m - 1 /\ m - 1 \in Nat
      BY <1>11
    <3> QED BY <1>4, <1>9, <3>1
  <2>2. Group * (m - 1) = Group * m - Group /\ Group * m \in Nat /\ x * Group \in Nat
    BY <1>4
  <2>3. PICK a \in Nat, b \in Nat : a = x * Group /\ b = Group * m
    BY <2>2
  <2>4. v[k] = a + r /\ a <= b - Group /\ Modulus = b /\ r < Group
    <3>1. v[k] = a + r
      BY <1>7, <2>3
    <3>2. a <= b - Group
      BY <2>1, <2>2, <2>3
    <3>3. Modulus = b
      BY <1>2, <2>3
    <3>4. r < Group
      BY <1>4, <1>5
    <3> QED BY <3>1, <3>2, <3>3, <3>4
  <2>5. ~(v[k] >= Modulus)
    BY <1>4, <1>5, <2>4
  <2> QED BY <1>1, <1>3, <1>8, <1>11, <2>5
<1> QED BY <1>10, <1>11

\* The groups of an SDNV are those of its value, and only its last byte is below the
\* mark.
LEMMA SdnvBytes ==
  ASSUME NEW n \in Int, NEW k \in 1..SdnvMax
  PROVE  /\ Sdnv(n, k) \in [1..k -> Nat]
         /\ AreDigits(GroupsOf(Sdnv(n, k), k), n, GroupPowers, Group, k)
         /\ \A i \in 1..k : SdnvEnds(Sdnv(n, k), i) <=> i = k
<1>1. PICK g \in Nat \ {0} : g = Group
  BY Widths
<1>2. PICK p : p = GroupPowers /\ IsPowers(p, g, SdnvMax)
  BY <1>1, GroupIsPowers
<1>3. ASSUME NEW i \in 1..k
      PROVE  \E x \in 0..g - 1 :
               /\ x = (n \div p[k - i]) % g
               /\ Sdnv(n, k)[i] = x + (IF i = k THEN 0 ELSE g)
  <2>1. k - i \in 0..SdnvMax
    BY Sizes
  <2>2. PICK d \in Nat \ {0} : d = p[k - i] /\ d = Group^(k - i)
    BY <1>2, <2>1 DEF IsPowers, GroupPowers
  <2>3. PICK q \in Int : q = n \div d
    BY DivMod
  <2>4. PICK x : x = q % g /\ x \in 0..g - 1
    BY DivMod
  <2>5. Sdnv(n, k)[i] = (q % g) + (IF i = k THEN 0 ELSE g)
    BY <1>1, <2>2, <2>3 DEF Sdnv
  <2> QED BY <2>2, <2>3, <2>4, <2>5
<1>4. ASSUME NEW i \in 1..k PROVE Sdnv(n, k)[i] \in Nat
  <2>1. PICK x \in 0..g - 1 : Sdnv(n, k)[i] = x + (IF i = k THEN 0 ELSE g)
    BY <1>3
  <2> QED BY <2>1
<1>5. Sdnv(n, k) \in [1..k -> Nat]
  <2>1. Sdnv(n, k) = [i \in 1..k |-> Sdnv(n, k)[i]]
    BY DEF Sdnv
  <2> QED BY <1>4, <2>1
<1>6. ASSUME NEW i \in 1..k PROVE GroupsOf(Sdnv(n, k), k)[i] = (n \div p[k - i]) % g
  <2>1. PICK x \in 0..g - 1 : /\ x = (n \div p[k - i]) % g
                              /\ Sdnv(n, k)[i] = x + (IF i = k THEN 0 ELSE g)
    BY <1>3
  <2>2. PICK b : b = Sdnv(n, k)[i]
    OBVIOUS
  <2>3. b % g = x
    <3>1. CASE i = k
      <4>1. b = g * 0 + x /\ b \in Int
        BY <2>1, <2>2, <3>1
      <4> QED BY <4>1, DivUnique
    <3>2. CASE i # k
      <4>1. b = g * 1 + x /\ b \in Int
        BY <2>1, <2>2, <3>2
      <4> QED BY <4>1, DivUnique
    <3> QED BY <3>1, <3>2
  <2> QED BY <1>1, <2>1, <2>2, <2>3 DEF GroupsOf
<1>7. ASSUME NEW i \in 1..k PROVE SdnvEnds(Sdnv(n, k), i) <=> i = k
  <2>1. PICK x \in 0..g - 1 : Sdnv(n, k)[i] = x + (IF i = k THEN 0 ELSE g)
    BY <1>3
  <2> QED BY <1>1, <2>1 DEF SdnvEnds
<1> QED BY <1>1, <1>2, <1>5, <1>6, <1>7 DEF AreDigits

\* The value of the first groups is the number without the groups behind them.
LEMMA SdnvPrefixes ==
  ASSUME NEW n \in Int, NEW k \in 1..SdnvMax
  PROVE  \A i \in 0..k : SdnvValue(Sdnv(n, k), i) = (n \div Group^(k - i)) % Group^i
<1>1. PICK bytes \in [1..k -> Nat] : bytes = Sdnv(n, k)
  BY SdnvBytes
<1>2. k \in Nat /\ k \in 0..SdnvMax /\ SdnvMax \in Nat /\ Group \in Nat \ {0}
  BY Sizes, Widths
<1>3. PICK c : c = GroupsOf(bytes, k)
  OBVIOUS
<1>4. PICK v \in [0..k -> Nat] : /\ Accumulates(v, c, Group, k)
                                 /\ \A i \in 0..k : SdnvValue(bytes, i) = v[i]
  BY <1>2, <1>3, SdnvAccumulates
<1>5. AreDigits(c, n, GroupPowers, Group, k)
  BY <1>1, <1>3, SdnvBytes
<1>6. \A i \in 0..k : v[i] = (n \div GroupPowers[k - i]) % GroupPowers[i]
  BY <1>2, <1>4, <1>5, GroupIsPowers, DigitsAddUp
<1>7. ASSUME NEW i \in 0..k PROVE SdnvValue(Sdnv(n, k), i) = (n \div Group^(k - i)) % Group^i
  <2>1. k - i \in 0..SdnvMax /\ i \in 0..SdnvMax
    BY <1>2
  <2>2. GroupPowers[k - i] = Group^(k - i) /\ GroupPowers[i] = Group^i
    BY <2>1 DEF GroupPowers
  <2> QED BY <1>1, <1>4, <1>6, <2>2
<1> QED BY <1>7

\* A value that was written as an SDNV is read as it was: no byte but the last ends
\* it, none overflows on the way, and the groups add up to the value.
\* (_bd, _rD)
THEOREM SdnvRoundTrip ==
  \A n \in 0..Modulus - 1, k \in 1..SdnvMax :
    IsSdnvLength(n, k) =>
      /\ SdnvValue(Sdnv(n, k), k) = n
      /\ \A i \in 1..k : /\ ~SdnvOverflows(Sdnv(n, k), i)
                         /\ SdnvEnds(Sdnv(n, k), i) <=> i = k
<1> TAKE n \in 0..Modulus - 1, k \in 1..SdnvMax
<1> HAVE IsSdnvLength(n, k)
<1>1. n \in Nat /\ n < Modulus /\ k \in Nat /\ k \in 0..SdnvMax
  BY Sizes, Widths
<1>2. \A i \in 0..k : SdnvValue(Sdnv(n, k), i) = (n \div Group^(k - i)) % Group^i
  BY <1>1, SdnvPrefixes
<1>3. SdnvValue(Sdnv(n, k), k) = n
  <2>1. k - k = 0 /\ Group^0 = 1
    BY <1>1, PowersAssumption
  <2>2. n \div 1 = n
    <3>1. n = 1 * n + 0 /\ 0 \in 0..1 - 1 /\ n \in Int
      BY <1>1
    <3> QED BY <3>1, DivUnique
  <2>3. PICK d \in Nat \ {0} : d = Group^k
    BY <1>1, PowersAssumption
  <2>4. n % d = n
    <3>1. n = d * 0 + n /\ n \in 0..d - 1 /\ n \in Int
      BY <1>1, <2>3 DEF IsSdnvLength
    <3> QED BY <3>1, DivUnique
  <2>5. k \in 0..k
    BY <1>1
  <2> QED BY <1>2, <2>1, <2>2, <2>3, <2>4, <2>5
<1>4. ASSUME NEW i \in 1..k PROVE ~SdnvOverflows(Sdnv(n, k), i)
  <2>1. k - i \in 0..SdnvMax /\ i \in 0..SdnvMax /\ i \in 0..k
    BY <1>1, Sizes
  <2>2. PICK a \in Nat \ {0}, b \in Nat \ {0} : a = Group^(k - i) /\ b = Group^i
    BY <2>1, PowersAssumption
  <2>3. PICK q : q \in 0..n /\ q = n \div a
    BY <1>1, DivModSmaller
  <2>4. q % b \in 0..q
    <3>1. q \in Nat
      BY <1>1, <2>3
    <3> QED BY <3>1, DivModSmaller
  <2>5. SdnvValue(Sdnv(n, k), i) \in 0..n
    <3>1. SdnvValue(Sdnv(n, k), i) = q % b
      BY <1>2, <2>1, <2>2, <2>3
    <3>2. q % b \in 0..n
      BY <1>1, <2>3, <2>4
    <3> QED BY <3>1, <3>2
  <2>6. ~(SdnvValue(Sdnv(n, k), i) >= Modulus)
    BY <1>1, <2>5, Widths
  <2>7. Sdnv(n, k) \in [1..k -> Nat]
    <3>1. n \in Int
      BY <1>1
    <3> QED BY <3>1, SdnvBytes, Zenon
  <2> QED BY <1>1, <2>6, <2>7, SdnvOverflowIsExact
<1>5. \A i \in 1..k : SdnvEnds(Sdnv(n, k), i) <=> i = k
  BY <1>1, SdnvBytes
<1> QED BY <1>3, <1>4, <1>5

\* Greater powers are greater.
LEMMA GroupPowersGrow ==
  ASSUME NEW k \in 0..SdnvMax, NEW m \in 0..SdnvMax, k <= m
  PROVE  Group^k <= Group^m
<1> DEFINE T == {j \in Nat : k + j <= SdnvMax => Group^k <= Group^(k + j)}
<1>0. \A j \in 0..SdnvMax : Group^j \in Nat \ {0} /\ Group^(j + 1) = Group * Group^j
  BY PowersAssumption
<1>s. SdnvMax \in Nat /\ k \in Nat /\ Group \in Nat \ {0}
  BY Sizes, Widths
<1>1. 0 \in T
  <2>1. k + 0 = k /\ Group^k \in Nat
    BY <1>0, <1>s
  <2> QED BY <2>1
<1>2. ASSUME NEW j \in T PROVE j + 1 \in T
  <2> SUFFICES ASSUME k + (j + 1) <= SdnvMax PROVE Group^k <= Group^(k + (j + 1))
    OBVIOUS
  <2>1. k + j \in 0..SdnvMax /\ (k + j) + 1 = k + (j + 1) /\ k + j <= SdnvMax
    BY <1>s
  <2>2. PICK x, y, z : /\ x = Group^k /\ y = Group^(k + j) /\ z = Group^(k + (j + 1))
                      /\ x \in Nat /\ y \in Nat
    BY <1>0, <2>1
  <2>3. x <= y /\ z = Group * y
    BY <1>0, <2>1, <2>2
  <2>4. \A a \in Nat \ {0}, b \in Nat : b <= a * b
    BY SMT
  <2>5. y <= Group * y
    BY <1>s, <2>2, <2>4, Zenon
  <2>6. PICK w : w = Group * y /\ w \in Nat
    BY <1>s, <2>2
  <2>7. x <= z
    BY <2>2, <2>3, <2>5, <2>6
  <2> QED BY <2>2, <2>7
<1> HIDE DEF T
<1>3. T = Nat
  <2>1. T \in SUBSET Nat
    BY DEF T
  <2> QED BY <1>1, <1>2, <2>1, SetInduction
<1>4. PICK j \in Nat : j = m - k
  BY <1>s
<1>5. k + j = m /\ m <= SdnvMax
  BY <1>s, <1>4
<1> QED BY <1>3, <1>5 DEF T

\* Every word has an SDNV, of at most the bytes that %D reads, and only one that %d
\* may write: the length is determined by the value.
\* (_bd)
THEOREM SdnvLengthExists ==
  \A n \in 0..Modulus - 1 :
    \E k \in 1..SdnvMax : \A m \in 1..SdnvMax : IsSdnvLength(n, m) <=> m = k
<1> TAKE n \in 0..Modulus - 1
<1>0. SdnvMax \in Nat \ {0} /\ n \in Nat /\ n < Modulus /\ Modulus \in Nat
  BY Sizes, Widths
<1>p. \A j \in 0..SdnvMax : Group^j \in Nat
  BY PowersAssumption
<1> DEFINE T == {k \in 1..SdnvMax : n < Group^k}
<1>1. SdnvMax \in T
  <2>1. SdnvMax \in 1..SdnvMax /\ SdnvMax \in 0..SdnvMax
    BY <1>0
  <2>2. n < Group^SdnvMax
    BY <1>0, <1>p, <2>1, WordFits
  <2> QED BY <2>1, <2>2
<1>2. PICK k \in T : \A m \in T : k <= m
  <2>1. T \in SUBSET Nat /\ T # {}
    BY <1>1
  <2> HIDE DEF T
  <2> QED BY <2>1, LeastElement
<1>3. IsSdnvLength(n, k)
  <2>1. CASE k # 1
    <3>1. k - 1 \in 1..SdnvMax /\ k - 1 \in 0..SdnvMax /\ ~(k <= k - 1)
      BY <1>0, <1>2, <2>1
    <3>2. ~(n < Group^(k - 1))
      BY <1>2, <3>1
    <3>3. n >= Group^(k - 1)
      BY <1>0, <1>p, <3>1, <3>2
    <3> QED BY <1>2, <3>3 DEF IsSdnvLength
  <2> QED BY <1>2, <2>1 DEF IsSdnvLength
<1>4. ASSUME NEW m \in 1..SdnvMax, IsSdnvLength(n, m) PROVE m = k
  <2>1. m \in T
    BY <1>4 DEF IsSdnvLength
  <2>2. k <= m
    BY <1>2, <2>1
  <2>3. CASE k < m
    <3>1. m - 1 \in 0..SdnvMax /\ k \in 0..SdnvMax /\ k <= m - 1 /\ m # 1
      BY <1>0, <1>2, <2>3
    <3>2. Group^k <= Group^(m - 1)
      BY <3>1, GroupPowersGrow
    <3>3. n >= Group^(m - 1) /\ n < Group^k
      BY <1>2, <1>4, <3>1 DEF IsSdnvLength
    <3> QED BY <1>0, <1>p, <3>1, <3>2, <3>3
  <2> QED BY <1>2, <2>2, <2>3
<1> QED BY <1>2, <1>3, <1>4

-----------------------------------------------------------------------------
(* C's division                                                              *)

\* %/ truncates and %m follows the dividend, for all signs: the remainder is that of
\* the magnitudes with the sign of the dividend, below the divisor, and no larger than
\* the dividend.  (_div, _mod)
THEOREM RemainderFollowsDividend ==
  \A b \in Int, a \in Int \ {0} :
    /\ Remainder(b, a) = IF b < 0 THEN -(Magnitude(b) % Magnitude(a))
                                  ELSE Magnitude(b) % Magnitude(a)
    /\ Magnitude(Remainder(b, a)) < Magnitude(a)
    /\ Magnitude(Remainder(b, a)) <= Magnitude(b)
<1> TAKE b \in Int, a \in Int \ {0}
<1>1. PICK n \in Nat : n = Magnitude(b) /\ b = IF b < 0 THEN -n ELSE n
  BY DEF Magnitude
<1>2. PICK d \in Nat \ {0} : d = Magnitude(a) /\ a = IF a < 0 THEN -d ELSE d
  BY DEF Magnitude
<1>3. PICK q \in Int, r \in 0..d - 1 : n = d * q + r /\ n \div d = q /\ n % d = r
  BY DivMod
<1>4. r <= n
  <2>1. n % d \in 0..n
    BY DivModSmaller
  <2> QED BY <1>3, <2>1
<1>5. Remainder(b, a) = IF b < 0 THEN -r ELSE r
  <2>1. PICK x \in Int : x = d * q
    BY <1>3
  <2>2. n = x + r
    BY <1>3, <2>1
  <2>3. /\ (-d) * q = -x /\ (-d) * (-q) = x /\ d * (-q) = -x
    BY <1>3, <2>1
  <2>4. Quotient(b, a) = IF (b < 0) = (a < 0) THEN q ELSE -q
    BY <1>1, <1>2, <1>3 DEF Quotient
  <2>5. a * Quotient(b, a) = IF b < 0 THEN -x ELSE x
    <3>1. CASE a < 0 /\ b < 0
      <4>1. a = -d /\ Quotient(b, a) = q
        BY <1>2, <2>4, <3>1
      <4> QED BY <2>3, <3>1, <4>1
    <3>2. CASE a < 0 /\ ~(b < 0)
      <4>1. a = -d /\ Quotient(b, a) = -q
        BY <1>2, <2>4, <3>2
      <4> QED BY <2>3, <3>2, <4>1
    <3>3. CASE ~(a < 0) /\ b < 0
      <4>1. a = d /\ Quotient(b, a) = -q
        BY <1>2, <2>4, <3>3
      <4> QED BY <2>3, <3>3, <4>1
    <3>4. CASE ~(a < 0) /\ ~(b < 0)
      <4>1. a = d /\ Quotient(b, a) = q
        BY <1>2, <2>4, <3>4
      <4> QED BY <2>1, <3>4, <4>1
    <3> QED BY <3>1, <3>2, <3>3, <3>4
  <2>6. PICK y \in Int : y = a * Quotient(b, a) /\ y = IF b < 0 THEN -x ELSE x
    BY <2>5
  <2>7. Remainder(b, a) = b - y
    BY <2>6 DEF Remainder
  <2> QED BY <1>1, <2>2, <2>6, <2>7
<1>6. Magnitude(Remainder(b, a)) = r
  BY <1>5 DEF Magnitude
<1>7. r < d
  OBVIOUS
<1> QED BY <1>1, <1>2, <1>3, <1>4, <1>5, <1>6, <1>7

-----------------------------------------------------------------------------
(* Ranges                                                                    *)

\* The recursive function that OfBits looks for.
IsBitValue(f, bits, width) ==
  f = [i \in 0..width |->
         IF i = 0 THEN 0 ELSE f[i - 1] + (IF i - 1 \in bits THEN 2^(i - 1) ELSE 0)]

\* So many bits make a number below that power of two.
LEMMA OfBitsFits ==
  ASSUME NEW bits, NEW width \in 0..WordBits + BYTE_BITS
  PROVE  OfBits(bits, width) \in 0..2^width - 1
<1>1. /\ 2^0 = 1
      /\ \A b \in 0..width : 2^b \in Nat \ {0} /\ 2^(b + 1) = 2 * 2^b
  <2>1. \A b \in 0..width : b \in 0..WordBits + BYTE_BITS
    BY Sizes
  <2> QED BY <2>1, PowersAssumption
<1> DEFINE add == [i \in 1..width |-> IF i - 1 \in bits THEN 2^(i - 1) ELSE 0]
           step == [i \in 1..width |-> [v \in Nat |-> v + add[i]]]
<1>2. \A i \in 1..width : add[i] \in Nat /\ add[i] <= 2^(i - 1)
  <2> TAKE i \in 1..width
  <2>1. i - 1 \in 0..width
    OBVIOUS
  <2> QED BY <1>1, <2>1
<1>3. \A i \in 1..width : add[i] = IF i - 1 \in bits THEN 2^(i - 1) ELSE 0
  OBVIOUS
<1> HIDE DEF add
<1>4. IsStep(step, width, Nat) /\ \A i \in 1..width, v \in Nat : step[i][v] = v + add[i]
  BY <1>2 DEF IsStep
<1> HIDE DEF step
<1>5. PICK g : Recursive(g, width, Nat, 0, step)
  BY <1>4, Recursion
<1>6. g \in [0..width -> Nat] /\ g[0] = 0 /\ \A i \in 1..width : g[i] = g[i - 1] + add[i]
  <2>1. g \in [0..width -> Nat] /\ g[0] = 0 /\ \A i \in 1..width : g[i] = step[i][g[i - 1]]
    BY <1>5 DEF Recursive
  <2>2. ASSUME NEW i \in 1..width PROVE g[i] = g[i - 1] + add[i]
    <3>1. g[i - 1] \in Nat
      BY <2>1
    <3> QED BY <1>4, <2>1, <3>1
  <2> QED BY <2>1, <2>2
<1>7. IsBitValue(g, bits, width)
  <2>1. ASSUME NEW i \in 0..width
        PROVE  g[i] = IF i = 0 THEN 0 ELSE g[i - 1] + (IF i - 1 \in bits THEN 2^(i - 1) ELSE 0)
    <3>1. i # 0 => i \in 1..width
      OBVIOUS
    <3> QED BY <1>3, <1>6, <3>1
  <2> QED BY <1>6, <2>1 DEF IsBitValue
<1>8. PICK f : f = CHOOSE h : IsBitValue(h, bits, width)
  OBVIOUS
<1>9. IsBitValue(f, bits, width)
  BY <1>7, <1>8
<1>10. f[0] = 0 /\ \A i \in 1..width : f[i] = f[i - 1] + add[i]
  BY <1>3, <1>9 DEF IsBitValue
<1> DEFINE T == {i \in Nat : i <= width => f[i] \in 0..2^i - 1}
<1>11. 0 \in T
  BY <1>1, <1>10
<1>12. ASSUME NEW k \in T PROVE k + 1 \in T
  <2> SUFFICES ASSUME k + 1 <= width PROVE f[k + 1] \in 0..2^(k + 1) - 1
    OBVIOUS
  <2>1. k + 1 \in 1..width /\ k \in 0..width /\ (k + 1) - 1 = k
    OBVIOUS
  <2>2. f[k + 1] = f[k] + add[k + 1] /\ f[k] \in 0..2^k - 1
    BY <1>10, <2>1
  <2>3. add[k + 1] \in Nat /\ add[k + 1] <= 2^k
    BY <1>2, <2>1
  <2>4. 2^k \in Nat /\ 2^(k + 1) = 2 * 2^k
    BY <1>1, <2>1
  <2> QED BY <2>2, <2>3, <2>4
<1> HIDE DEF T
<1>13. T = Nat
  <2>1. T \in SUBSET Nat
    BY DEF T
  <2> QED BY <1>11, <1>12, <2>1, SetInduction
<1>14. f[width] \in 0..2^width - 1
  BY <1>13 DEF T
<1>15. OfBits(bits, width) = f[width]
  BY <1>8 DEF OfBits, IsBitValue
<1> QED BY <1>14, <1>15

\* So many digits make a number below that power of their base.
LEMMA AccumulatorFits ==
  ASSUME NEW d \in Nat \ {0}, NEW m \in Nat, NEW p, IsPowers(p, d, m), NEW n \in 0..m,
         NEW c, \A i \in 1..n : c[i] \in 0..d - 1, NEW v, Accumulates(v, c, d, n)
  PROVE  \A i \in 0..n : v[i] \in 0..p[i] - 1
<1> DEFINE T == {i \in Nat : i <= n => v[i] \in 0..p[i] - 1}
<1>1. 0 \in T
  BY DEF Accumulates, IsPowers
<1>2. ASSUME NEW k \in T PROVE k + 1 \in T
  <2> SUFFICES ASSUME k + 1 <= n PROVE v[k + 1] \in 0..p[k + 1] - 1
    OBVIOUS
  <2>1. k + 1 \in 1..n /\ k \in 0..m - 1 /\ k \in 0..m /\ (k + 1) - 1 = k
    OBVIOUS
  <2>2. PICK q \in Nat \ {0} : q = p[k] /\ p[k + 1] = d * q
    BY <2>1 DEF IsPowers
  <2>3. PICK x \in 0..q - 1 : x = v[k]
    BY <2>1, <2>2
  <2>4. PICK digit \in 0..d - 1 : digit = c[k + 1]
    BY <2>1
  <2>5. v[k + 1] = x * d + digit
    BY <2>1, <2>3, <2>4 DEF Accumulates
  <2>6. x * d \in Nat /\ x * d <= (q - 1) * d
    <3>1. \A a, b, e \in Nat : a <= b => a * e \in Nat /\ a * e <= b * e
      BY SMT
    <3>2. x \in Nat /\ q - 1 \in Nat /\ x <= q - 1 /\ d \in Nat
      BY <2>2, <2>3
    <3> QED BY <3>1, <3>2
  <2>7. (q - 1) * d = d * q - d /\ d * q \in Nat
    BY <2>2
  <2> QED BY <2>2, <2>4, <2>5, <2>6, <2>7
<1> HIDE DEF T
<1>3. T = Nat
  <2>1. T \in SUBSET Nat
    BY DEF T
  <2> QED BY <1>1, <1>2, <2>1, SetInduction
<1> QED BY <1>3 DEF T

\* What k bytes hold is below the k-th power of a byte.
LEMMA NumberFits ==
  ASSUME NEW k \in 0..WORD_BYTES, NEW bytes \in [1..k -> Byte]
  PROVE  Number(bytes) \in 0..Base^k - 1
<1>1. k \in Nat /\ WORD_BYTES \in Nat /\ Base \in Nat \ {0}
  BY Sizes, Widths
<1>2. bytes \in [1..k -> Nat] /\ \A i \in 1..k : bytes[i] \in 0..Base - 1
  BY <1>1 DEF Byte
<1>3. PICK v \in [0..k -> Nat] : Number(bytes) = v[k] /\ Accumulates(v, bytes, Base, k)
  BY <1>1, <1>2, NumberAccumulates
<1>4. PICK p : p = BasePowers
  OBVIOUS
<1>5. IsPowers(p, Base, WORD_BYTES) /\ p[k] = Base^k
  BY <1>4, BaseIsPowers DEF BasePowers
<1>6. \A i \in 0..k : v[i] \in 0..p[i] - 1
  BY <1>1, <1>2, <1>3, <1>5, AccumulatorFits
<1> QED BY <1>1, <1>3, <1>5, <1>6

\* The powers of a byte do not decrease.
LEMMA BasePowersGrow ==
  ASSUME NEW k \in 0..WORD_BYTES
  PROVE  Base^k \in Nat \ {0} /\ Base^k <= Modulus
<1>1. WORD_BYTES \in Nat /\ Base \in Nat \ {0}
  BY Sizes, Widths
<1>2. \A j \in 0..WORD_BYTES : Base^j \in Nat \ {0} /\ Base^(j + 1) = Base * Base^j
  BY PowersAssumption
<1> DEFINE T == {j \in Nat : k + j <= WORD_BYTES => Base^k <= Base^(k + j)}
<1>3. 0 \in T
  <2>1. k + 0 = k
    OBVIOUS
  <2> QED BY <1>2, <2>1
<1>4. ASSUME NEW j \in T PROVE j + 1 \in T
  <2> SUFFICES ASSUME k + (j + 1) <= WORD_BYTES PROVE Base^k <= Base^(k + (j + 1))
    OBVIOUS
  <2>1. k + j \in 0..WORD_BYTES /\ k + (j + 1) = (k + j) + 1
    BY <1>1
  <2>2. Base^k <= Base^(k + j)
    BY <2>1
  <2>3. PICK a \in Nat \ {0}, b \in Nat \ {0} : a = Base^k /\ b = Base^(k + j)
    BY <1>2, <2>1
  <2>4. Base^(k + (j + 1)) = Base * b
    BY <1>2, <2>1, <2>3
  <2>5. \A x, y \in Nat \ {0} : y <= x * y
    BY SMT
  <2>6. b <= Base * b /\ Base * b \in Nat
    BY <1>1, <2>5
  <2> QED BY <2>2, <2>3, <2>4, <2>6
<1> HIDE DEF T
<1>5. T = Nat
  <2>1. T \in SUBSET Nat
    BY DEF T
  <2> QED BY <1>3, <1>4, <2>1, SetInduction
<1>6. PICK j \in Nat : j = WORD_BYTES - k
  BY <1>1
<1>7. Base^k <= Base^WORD_BYTES
  <2>1. k + j = WORD_BYTES /\ k + j <= WORD_BYTES
    BY <1>1, <1>6
  <2>2. j \in T
    BY <1>5
  <2> QED BY <2>1, <2>2 DEF T
<1> QED BY <1>2, <1>7, WordFits

LEMMA LittleEndianBytes ==
  ASSUME NEW n \in Int, NEW k \in 0..WORD_BYTES
  PROVE  LittleEndian(n, k) \in [1..k -> Byte]
<1>1. \A i \in 1..k : (n \div Base^(i - 1)) % Base \in Byte
  <2> TAKE i \in 1..k
  <2>1. i - 1 \in 0..WORD_BYTES
    BY Sizes
  <2>2. PICK d \in Nat \ {0} : d = Base^(i - 1)
    BY <2>1, PowersAssumption
  <2>3. PICK q \in Int : q = n \div d
    BY DivMod
  <2>4. q % Base \in 0..Base - 1
    <3>1. Base \in Nat \ {0}
      BY Widths
    <3> QED BY <3>1, DivMod
  <2> QED BY <2>2, <2>3, <2>4 DEF Byte
<1> QED BY <1>1 DEF LittleEndian

\* The groups of an SDNV and their marks are bytes.
LEMMA SdnvOctets ==
  ASSUME NEW n \in Int, NEW k \in 1..SdnvMax
  PROVE  Sdnv(n, k) \in [1..k -> Byte]
<1>1. Group \in Nat \ {0} /\ Base = 2 * Group
  BY Widths
<1>2. ASSUME NEW i \in 1..k
      PROVE  ((n \div Group^(k - i)) % Group) + (IF i = k THEN 0 ELSE Group) \in Byte
  <2>1. k - i \in 0..SdnvMax
    BY Sizes
  <2>2. PICK d \in Nat \ {0} : d = Group^(k - i)
    BY <2>1, PowersAssumption
  <2>3. PICK q \in Int : q = n \div d
    BY DivMod
  <2>4. PICK r \in 0..Group - 1 : r = q % Group
    BY <1>1, DivMod
  <2> QED BY <1>1, <2>2, <2>3, <2>4 DEF Byte
<1> QED BY <1>2 DEF Sdnv

\* The powers of two that a word has room for.
LEMMA PowersFit ==
  ASSUME NEW b \in 0..WordBits
  PROVE  2^b \in Nat \ {0} /\ 2^b <= Modulus
<1>1. b \in Nat /\ WordBits \in Nat /\ BYTE_BITS \in Nat
  BY Sizes
<1>2. PICK rest \in Nat : rest = WordBits - b
  BY <1>1
<1>3. 2^(rest + b) = 2^rest * 2^b /\ rest + b = WordBits
  BY <1>1, <1>2, PowersAdd
<1>4. 2^b \in Nat \ {0} /\ 2^rest \in Nat \ {0}
  <2>1. b \in 0..WordBits + BYTE_BITS /\ rest \in 0..WordBits + BYTE_BITS
    BY <1>1, <1>2
  <2> QED BY <2>1, PowersAssumption
<1>5. \A x, y \in Nat \ {0} : y <= x * y
  BY SMT
<1> QED BY <1>3, <1>4, <1>5 DEF Modulus

\* So many bytes are as many times the bits of one.
LEMMA BytesAreBits ==
  ASSUME NEW k \in 0..WORD_BYTES
  PROVE  k * BYTE_BITS \in 0..WordBits /\ Base^k = 2^(k * BYTE_BITS)
<1>1. WORD_BYTES \in Nat /\ BYTE_BITS \in Nat /\ k \in Nat
  BY Sizes
<1>2. WORD_BYTES * BYTE_BITS = WordBits /\ WordBits \in Nat
  BY Sizes DEF WordBits
<1>3. \A i, j, y \in Nat : i <= j => i * y \in Nat /\ i * y <= j * y
  BY SMT
<1>4. k * BYTE_BITS \in 0..WordBits
  BY <1>1, <1>2, <1>3
<1>5. PICK p : p = BasePowers
  OBVIOUS
<1>6. p[k] = 2^(k * BYTE_BITS)
  <2>1. WORD_BYTES * BYTE_BITS <= WordBits + BYTE_BITS
    BY <1>1, <1>2
  <2> QED BY <1>1, <1>5, <2>1, BaseIsPowers, PowersMultiply DEF Base
<1> QED BY <1>4, <1>5, <1>6 DEF BasePowers

\* Bits that are pending and k bytes behind them, divided into a field and what is left.
LEMMA FieldFits ==
  ASSUME NEW bits \in 0..BYTE_BITS - 1, NEW acc \in 0..2^bits - 1, NEW k \in 0..WORD_BYTES,
         NEW number \in 0..Base^k - 1, NEW width \in 0..WordBits, NEW left \in 0..BYTE_BITS - 1,
         left + width = bits + k * BYTE_BITS, NEW all, all = acc * Base^k + number
  PROVE  /\ all \in Nat /\ all \div 2^left \in 0..2^width - 1
         /\ all % 2^left \in 0..2^left - 1
<1>1. /\ WORD_BYTES \in Nat /\ BYTE_BITS \in Nat /\ WordBits \in Nat /\ BYTE_BITS <= WordBits
      /\ k * BYTE_BITS \in 0..WordBits /\ Base^k = 2^(k * BYTE_BITS)
  BY Sizes, BytesAreBits
<1>2. PICK x \in Nat : x = k * BYTE_BITS
  BY <1>1
<1>3. PICK b \in Nat \ {0}, p \in Nat \ {0}, l \in Nat \ {0}, w \in Nat \ {0} :
        b = 2^bits /\ p = 2^x /\ l = 2^left /\ w = 2^width
  <2>1. /\ bits \in 0..WordBits /\ x \in 0..WordBits /\ left \in 0..WordBits
        /\ width \in 0..WordBits
    BY <1>1, <1>2
  <2> QED BY <2>1, PowersFit
<1>4. b * p = l * w
  <2>1. 2^(bits + x) = 2^bits * 2^x
    <3>1. bits + x <= WordBits + BYTE_BITS
      BY <1>1, <1>2
    <3> QED BY <1>2, <3>1, PowersAdd
  <2>2. 2^(left + width) = 2^left * 2^width
    <3>1. left + width <= WordBits + BYTE_BITS
      BY <1>1
    <3> QED BY <3>1, PowersAdd
  <2> QED BY <1>2, <1>3, <2>1, <2>2
<1>5. all = acc * p + number /\ acc \in 0..b - 1 /\ number \in 0..p - 1
  BY <1>1, <1>2, <1>3
<1>6. all \in Nat /\ all < l * w
  <2>1. \A i, j, y \in Nat : i <= j => i * y \in Nat /\ i * y <= j * y
    BY SMT
  <2>2. acc \in Nat /\ b - 1 \in Nat /\ acc <= b - 1 /\ p \in Nat
    BY <1>3, <1>5
  <2>3. acc * p \in Nat /\ acc * p <= (b - 1) * p
    BY <2>1, <2>2
  <2>4. (b - 1) * p = b * p - p /\ b * p \in Nat
    BY <1>3
  <2>5. PICK ap \in Nat, bp \in Nat : ap = acc * p /\ bp = b * p
    BY <2>3, <2>4
  <2>6. all = ap + number /\ ap <= bp - p /\ number <= p - 1 /\ l * w = bp
    BY <1>4, <1>5, <2>3, <2>4, <2>5
  <2> QED BY <1>3, <1>5, <2>5, <2>6
<1>7. PICK q \in Int : \E r \in 0..l - 1 : all = l * q + r /\ all \div l = q /\ all % l = r
  <2>1. all \in Int
    BY <1>6
  <2> QED BY <2>1, DivMod
<1>8. PICK r \in 0..l - 1 : all = l * q + r /\ all \div l = q /\ all % l = r
  BY <1>7
<1>9. q \in 0..w - 1
  <2>1. \A i \in Nat \ {0}, j \in Int : j < 0 => i * j <= -i
    BY SMT
  <2>2. \A i \in Nat \ {0}, j \in Int, y \in Nat : j >= y => i * j >= i * y
    BY SMT
  <2>3. PICK lq \in Int, lw \in Int : lq = l * q /\ lw = l * w
    OBVIOUS
  <2>4. q >= 0
    <3>1. CASE q < 0
      <4>1. lq <= -l
        BY <2>1, <2>3, <3>1
      <4> QED BY <1>6, <1>8, <2>3, <4>1
    <3> QED BY <3>1
  <2>5. q < w
    <3>1. CASE q >= w
      <4>1. lq >= lw
        BY <2>2, <2>3, <3>1
      <4> QED BY <1>6, <1>8, <2>3, <4>1
    <3> QED BY <3>1
  <2> QED BY <2>4, <2>5
<1> QED BY <1>3, <1>6, <1>8, <1>9

=============================================================================
