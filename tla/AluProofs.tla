------------------------------ MODULE AluProofs ------------------------------
(***************************************************************************)
(* Integer arithmetic at every operand size: the types, what comparisons   *)
(* say of their operands, that sums and differences are exact with the     *)
(* flags they set, that divisions are, and that rotates turn the bits.     *)
(***************************************************************************)
EXTENDS Alu, Induction

(* Powers of two, and the values of an operand.                            *)
LEMMA TwoPowers ==
  /\ Bits \in Nat /\ Bits >= 2 /\ Bits <= MaxBits /\ MaxBits = 64
  /\ IsPowers(Two, 2, MaxBits) /\ IsPowers(Two, 2, Bits)
  /\ \A k \in 0 .. MaxBits : Two[k] \in Nat \ {0}
<1>1. Bits \in Nat /\ Bits >= 2 /\ Bits <= MaxBits /\ MaxBits = 64 /\ MaxBits \in Nat
  BY AluAssumption DEF MaxBits
<1> DEFINE P(f) == f = [n \in 0 .. MaxBits |-> IF n = 0 THEN 1 ELSE 2 * f[n - 1]]
<1>2. \E f : P(f)
  <2> DEFINE m == MaxBits
  <2>1. m \in Nat
    BY <1>1
  <2> HIDE DEF m
  <2>2. \E f : f = [n \in 0 .. m |-> IF n = 0 THEN 1 ELSE 2 * f[n - 1]]
    BY <2>1, PowersDefined, Zenon
  <2>3. QED
    BY <2>2 DEF m
<1>3. Two = CHOOSE f : P(f)
  BY DEF Two
<1>4. P(Two)
  BY <1>2, <1>3
<1>5. \A n \in 0 .. MaxBits : Two[n] = IF n = 0 THEN 1 ELSE 2 * Two[n - 1]
  BY <1>4
<1> HIDE DEF P, Two
<1>6. Two[0] = 1
  BY <1>1, <1>5
<1>7. ASSUME NEW k \in 0 .. (MaxBits - 1) PROVE Two[k + 1] = 2 * Two[k]
  BY <1>1, <1>5
<1>8. IsPowers(Two, 2, MaxBits)
  BY <1>6, <1>7 DEF IsPowers
<1>9. IsPowers(Two, 2, Bits)
  <2>1. \A k \in 0 .. (Bits - 1) : k \in 0 .. (MaxBits - 1)
    BY <1>1
  <2>2. QED
    BY <1>6, <1>7, <2>1 DEF IsPowers
<1>10. \A k \in 0 .. MaxBits : Two[k] \in Nat \ {0}
  BY <1>1, <1>8, PowersPositive
<1>11. QED
  BY <1>1, <1>8, <1>9, <1>10

LEMMA WidthFacts ==
  /\ M \in Nat /\ M >= 4
  /\ Half \in Nat /\ M = 2 * Half
  /\ Half = Two[Bits - 1]
<1> DEFINE h == Two[Bits - 1]
           q == Two[Bits - 2]
<1>1. Bits - 1 \in 0 .. (Bits - 1) /\ Bits - 2 \in 0 .. (Bits - 1) /\ (Bits - 1) + 1 = Bits
      /\ (Bits - 2) + 1 = Bits - 1 /\ Bits - 2 \in 0 .. MaxBits
  BY TwoPowers
<1>2. M = 2 * h
  BY <1>1, TwoPowers DEF M, IsPowers
<1>3. h = 2 * q
  BY <1>1, TwoPowers DEF IsPowers
<1>4. q \in Nat \ {0}
  BY <1>1, TwoPowers
<1> HIDE DEF h, q
<1>5. Half = h
  BY <1>2, <1>3, <1>4 DEF Half
<1>6. QED
  BY <1>2, <1>3, <1>4, <1>5 DEF h

(* A number is less than the power of two with that many bits.             *)
LEMMA PowersGrow ==
  ASSUME NEW k \in 0 .. MaxBits
  PROVE  k < Two[k]
<1> DEFINE G == {j \in 0 .. MaxBits : j < Two[j]}
<1>1. 0 \in G
  BY TwoPowers DEF IsPowers
<1>2. ASSUME NEW j \in 0 .. (MaxBits - 1), j \in G
      PROVE  j + 1 \in G
  <2> DEFINE x == Two[j]
             y == Two[j + 1]
  <2>1. x \in Nat \ {0} /\ j < x /\ y = 2 * x /\ j + 1 \in 0 .. MaxBits
    BY <1>2, TwoPowers DEF IsPowers
  <2> HIDE DEF x, y
  <2>2. j + 1 < y
    BY <2>1
  <2>3. QED
    BY <2>1, <2>2 DEF y
<1> HIDE DEF G
<1>3. 0 .. MaxBits \subseteq G
  <2>1. MaxBits \in Nat
    BY TwoPowers
  <2>2. QED
    BY <1>1, <1>2, <2>1, InductTo
<1>4. QED
  BY <1>3 DEF G

(* A quotient and a remainder are no greater than the dividend.            *)
LEMMA QuotientBounds ==
  ASSUME NEW v \in Nat, NEW p \in Nat \ {0}
  PROVE  v \div p \in 0 .. v
<1> DEFINE q == v \div p
<1>1. q \in Int /\ v % p \in 0 .. (p - 1) /\ v = (v % p) + q * p
  BY DivisionOf
<1> DEFINE r == v % p
<1> HIDE DEF q, r
<1>2. ASSUME q < 0 PROVE FALSE
  <2>1. q * p <= (0 - 1) * p
    BY <1>1, <1>2, Z3
  <2>2. QED
    BY <1>1, <2>1 DEF r
<1>3. ASSUME q >= 0 PROVE q <= q * p /\ q * p \in Int
  BY <1>1, <1>3, Z3
<1>4. QED
  BY <1>1, <1>2, <1>3 DEF q, r

LEMMA RemainderBounds ==
  ASSUME NEW v \in Nat, NEW p \in Nat \ {0}
  PROVE  v % p \in 0 .. v
<1> DEFINE q == v \div p
           r == v % p
<1>1. q \in 0 .. v
  BY QuotientBounds
<1>2. r \in 0 .. (p - 1) /\ v = r + q * p
  BY DivisionOf
<1> HIDE DEF q, r
<1>3. q * p >= 0 /\ q * p \in Int
  BY <1>1, Z3
<1>4. QED
  BY <1>1, <1>2, <1>3 DEF r

-----------------------------------------------------------------------------
(* Sets of bits and the numbers they stand for.                            *)

Digit(S) == [k \in 0 .. (Bits - 1) |-> IF k \in S THEN 1 ELSE 0]

LEMMA ValueSums ==
  ASSUME NEW S
  PROVE  \E h : IsSums(h, Digit(S), Two, Bits) /\ Value(S) = h[Bits]
<1> DEFINE t == [k \in 0 .. (Bits - 1) |-> (IF k \in S THEN 1 ELSE 0) * Two[k]]
           P(f) == f = [k \in 0 .. Bits |-> IF k = 0 THEN 0
                         ELSE f[k - 1] + (IF k - 1 \in S THEN 1 ELSE 0) * Two[k - 1]]
           Q(f) == f = [k \in 0 .. Bits |-> IF k = 0 THEN 0 ELSE f[k - 1] + t[k - 1]]
           h == CHOOSE f : P(f)
<1>1. Bits \in Nat
  BY TwoPowers
<1>2. \E f : Q(f)
  BY <1>1, SumsDefined
<1>3. ASSUME NEW f, Q(f) PROVE P(f)
  <2>1. \A k \in 0 .. Bits : k = 0 \/ k - 1 \in 0 .. (Bits - 1)
    BY <1>1
  <2>2. \A k \in 0 .. Bits : k # 0 => t[k - 1] = (IF k - 1 \in S THEN 1 ELSE 0) * Two[k - 1]
    BY <2>1
  <2> HIDE DEF t
  <2>3. [k \in 0 .. Bits |-> IF k = 0 THEN 0 ELSE f[k - 1] + t[k - 1]]
        = [k \in 0 .. Bits |-> IF k = 0 THEN 0
             ELSE f[k - 1] + (IF k - 1 \in S THEN 1 ELSE 0) * Two[k - 1]]
    BY <2>2
  <2>4. QED
    BY <1>3, <2>3
<1>4. P(h)
  BY <1>2, <1>3
<1>5. Value(S) = h[Bits]
  BY DEF Value
<1>6. \A k \in 0 .. Bits : h[k] = IF k = 0 THEN 0
                           ELSE h[k - 1] + (IF k - 1 \in S THEN 1 ELSE 0) * Two[k - 1]
  BY <1>4
<1> HIDE DEF h, P, Q, t
<1>7. h[0] = 0
  BY <1>1, <1>6
<1>8. ASSUME NEW k \in 0 .. (Bits - 1)
      PROVE  h[k + 1] = h[k] + Digit(S)[k] * Two[k]
  <2>1. k + 1 \in 0 .. Bits /\ k + 1 # 0 /\ (k + 1) - 1 = k
    BY <1>1
  <2>2. h[k + 1] = h[k] + (IF k \in S THEN 1 ELSE 0) * Two[k]
    BY <1>6, <2>1
  <2>3. QED
    BY <2>2 DEF Digit
<1>9. IsSums(h, Digit(S), Two, Bits)
  BY <1>7, <1>8 DEF IsSums
<1>10. QED
  BY <1>5, <1>9

LEMMA ValueType ==
  ASSUME NEW S
  PROVE  Value(S) \in Operand
<1>1. PICK h : IsSums(h, Digit(S), Two, Bits) /\ Value(S) = h[Bits]
  BY ValueSums
<1>2. \A k \in 0 .. (Bits - 1) : Digit(S)[k] \in 0 .. (2 - 1)
  BY DEF Digit
<1> DEFINE d == Digit(S)
           p == Two
           n == Bits
<1>3. n \in Nat /\ IsPowers(p, 2, n) /\ IsSums(h, d, p, n) /\ \A k \in 0 .. (n - 1) : d[k] \in 0 .. (2 - 1)
  BY <1>1, <1>2, TwoPowers
<1>4. n \in 0 .. n
  BY <1>3
<1>5. p[n] = M /\ h[n] = Value(S)
  BY <1>1 DEF M
<1> HIDE DEF d, p, n
<1>6. \A k \in 0 .. n : h[k] \in 0 .. (p[k] - 1)
  BY <1>3, SumsBounded
<1>7. QED
  BY <1>4, <1>5, <1>6 DEF Operand

(* The bits of the value of some bits are these.                           *)
LEMMA BitsOfValue ==
  ASSUME NEW S
  PROVE  BitsOf(Value(S)) = S \cap (0 .. (Bits - 1))
<1>1. PICK h : IsSums(h, Digit(S), Two, Bits) /\ Value(S) = h[Bits]
  BY ValueSums
<1>2. \A k \in 0 .. (Bits - 1) : Digit(S)[k] \in 0 .. (2 - 1)
  BY DEF Digit
<1>3. ASSUME NEW i \in 0 .. (Bits - 1)
      PROVE  (Value(S) \div Two[i]) % 2 = Digit(S)[i]
  <2> DEFINE d == Digit(S)
             p == Two
             n == Bits
  <2>1. n \in Nat /\ IsPowers(p, 2, n) /\ IsSums(h, d, p, n) /\ \A k \in 0 .. (n - 1) : d[k] \in 0 .. (2 - 1)
    BY <1>1, <1>2, TwoPowers
  <2>2. i \in 0 .. (n - 1)
    OBVIOUS
  <2> HIDE DEF d, p, n
  <2>3. (h[n] \div p[i]) % 2 = d[i]
    BY <2>1, <2>2, DigitOfSum
  <2>4. QED
    BY <1>1, <2>3 DEF d, p, n
<1>4. \A i \in 0 .. (Bits - 1) : (Value(S) \div Two[i]) % 2 = 1 <=> i \in S
  BY <1>3 DEF Digit
<1>5. QED
  BY <1>4 DEF BitsOf

(* A number is the value of its bits, but for what is above the operand.   *)
LEMMA ValueOfBits ==
  ASSUME NEW v \in Int
  PROVE  Value(BitsOf(v)) = Truncate(v)
<1> DEFINE S == BitsOf(v)
<1>1. PICK h : IsSums(h, Digit(S), Two, Bits) /\ Value(S) = h[Bits]
  BY ValueSums
<1> DEFINE d == Digit(S)
           p == Two
           n == Bits
<1>2. ASSUME NEW k \in 0 .. (Bits - 1)
      PROVE  Digit(S)[k] = (v \div Two[k]) % 2
  <2> DEFINE x == v \div Two[k]
  <2>1. x \in Int
    <3>1. Two[k] \in Nat \ {0}
      BY TwoPowers
    <3>2. QED
      BY <3>1, DivisionOf
  <2>2. k \in S <=> x % 2 = 1
    BY DEF BitsOf
  <2>3. Digit(S)[k] = IF x % 2 = 1 THEN 1 ELSE 0
    BY <2>2 DEF Digit
  <2> HIDE DEF x
  <2>4. (IF x % 2 = 1 THEN 1 ELSE 0) = x % 2
    BY <2>1
  <2>5. QED
    BY <2>3, <2>4 DEF x
<1>3. n \in Nat /\ IsPowers(p, 2, n) /\ IsSums(h, d, p, n) /\ n \in 0 .. n
  BY <1>1, TwoPowers
<1>4. IsDigits(d, v, 2, p, n)
  BY <1>2 DEF IsDigits
<1>5. p[n] = M
  BY DEF M
<1>6. h[n] = Value(S)
  BY <1>1
<1> HIDE DEF d, p, n
<1>7. h[n] = v % p[n]
  BY <1>3, <1>4, SumOfDigits
<1>8. QED
  BY <1>5, <1>6, <1>7 DEF Truncate

LEMMA SomeBitOn ==
  ASSUME NEW b \in Operand, b # 0
  PROVE  BitsOf(b) # {}
<1>1. ASSUME BitsOf(b) = {}
      PROVE  FALSE
  <2>1. Value({}) = Truncate(b)
    BY <1>1, ValueOfBits DEF Operand
  <2>2. Value(BitsOf(0)) = Truncate(0)
    BY ValueOfBits
  <2>3. BitsOf(0) = {}
    <3>1. ASSUME NEW i \in 0 .. (Bits - 1)
          PROVE  (0 \div Two[i]) % 2 = 0
      <4>1. Two[i] \in Nat \ {0}
        BY TwoPowers
      <4> DEFINE x == Two[i]
      <4> HIDE DEF x
      <4>2. (0 \div x) % 2 = 0
        BY <4>1 DEF x
      <4>3. QED
        BY <4>2 DEF x
    <3>2. QED
      BY <3>1 DEF BitsOf
  <2>4. Truncate(b) = b /\ Truncate(0) = 0
    <3>1. M \in Nat /\ M >= 4 /\ b \in 0 .. (M - 1)
      BY WidthFacts DEF Operand
    <3> HIDE DEF M
    <3>2. b % M = b /\ 0 % M = 0
      BY <3>1
    <3>3. QED
      BY <3>2 DEF Truncate
  <2>5. QED
    BY <2>1, <2>2, <2>3, <2>4
<1>2. QED
  BY <1>1

-----------------------------------------------------------------------------
(* Wrapped sums and their flags.                                           *)

LEMMA Wraps ==
  ASSUME NEW x \in (0 - M) .. (2 * M - 1)
  PROVE  Truncate(x) = IF x < 0 THEN x + M ELSE IF x < M THEN x ELSE x - M
<1>1. CASE x < 0
  BY <1>1, WidthFacts, Z3 DEF Truncate
<1>2. CASE x >= 0 /\ x < M
  BY <1>2, WidthFacts, Z3 DEF Truncate
<1>3. CASE x >= M
  BY <1>3, WidthFacts, Z3 DEF Truncate
<1>4. QED
  BY <1>1, <1>2, <1>3, WidthFacts

LEMMA SignOf ==
  ASSUME NEW v \in Operand
  PROVE  Negative(v) <=> v >= Half
<1>1. v % M = v
  BY WidthFacts, Z3 DEF Operand
<1>2. QED
  BY <1>1 DEF Negative

LEMMA DifferenceFlags ==
  ASSUME NEW a \in Operand, NEW b \in Operand
  PROVE  LET res == Truncate(a - b)
             on == Difference(a, b)
         IN /\ "CF" \in on <=> a < b
            /\ "ZF" \in on <=> res = 0
            /\ "SF" \in on <=> Negative(res)
            /\ "OF" \in on <=> /\ ~(Negative(a) <=> Negative(b))
                              /\ ~(Negative(a) <=> Negative(res))
  BY DEF Difference, ZSP, On, Negative

LEMMA SumFlagsOf ==
  ASSUME NEW a \in Operand, NEW b \in Operand, NEW res \in Operand
  PROVE  LET on == SumOf(a, b, res)
         IN /\ "CF" \in on <=> res < a
            /\ "OF" \in on <=> /\ Negative(a) <=> Negative(b)
                              /\ ~(Negative(a) <=> Negative(res))
  BY DEF SumOf, ZSP, On, Negative

(* What a - b wraps to, and how its flags stand to the operands.           *)
LEMMA DifferenceFacts ==
  ASSUME NEW a \in Operand, NEW b \in Operand
  PROVE  LET res == Truncate(a - b)
             on == Difference(a, b)
         IN /\ res \in Operand
            /\ res = (IF a < b THEN a - b + M ELSE a - b)
            /\ "CF" \in on <=> a < b
            /\ "ZF" \in on <=> a = b
            /\ ~("SF" \in on <=> "OF" \in on) <=> Signed(a) < Signed(b)
            /\ "OF" \notin on <=> Signed(res) = Signed(a) - Signed(b)
<1> DEFINE res == Truncate(a - b)
           on == Difference(a, b)
<1>1. a \in 0 .. (M - 1) /\ b \in 0 .. (M - 1)
  BY DEF Operand
<1>2. res = (IF a < b THEN a - b + M ELSE a - b) /\ res \in Operand
  <2>1. a - b \in (0 - M) .. (2 * M - 1) /\ a - b < M
    BY <1>1, WidthFacts
  <2>2. res = IF a - b < 0 THEN a - b + M ELSE a - b
    BY <2>1, Wraps
  <2>3. QED
    BY <1>1, <2>2, WidthFacts DEF Operand
<1> HIDE DEF res
<1>3. /\ Negative(a) <=> a >= Half
      /\ Negative(b) <=> b >= Half
      /\ Negative(res) <=> res >= Half
  BY <1>2, SignOf
<1>4. /\ "CF" \in on <=> a < b
      /\ "ZF" \in on <=> res = 0
      /\ "SF" \in on <=> res >= Half
      /\ "OF" \in on <=> /\ ~(a >= Half <=> b >= Half)
                        /\ ~(a >= Half <=> res >= Half)
  BY <1>3, DifferenceFlags DEF res
<1>5. /\ Signed(a) = IF a >= Half THEN a - M ELSE a
      /\ Signed(b) = IF b >= Half THEN b - M ELSE b
      /\ Signed(res) = IF res >= Half THEN res - M ELSE res
  BY <1>3 DEF Signed
<1> HIDE DEF on
<1>6. "ZF" \in on <=> a = b
  BY <1>1, <1>2, <1>4, WidthFacts
<1>7. ~("SF" \in on <=> "OF" \in on) <=> Signed(a) < Signed(b)
  BY <1>1, <1>2, <1>4, <1>5, WidthFacts
<1>8. "OF" \notin on <=> Signed(res) = Signed(a) - Signed(b)
  BY <1>1, <1>2, <1>4, <1>5, WidthFacts
<1>9. QED
  BY <1>2, <1>4, <1>6, <1>7, <1>8 DEF res, on

(* The sum of a and b, truncated, and what its flags say of it.            *)
LEMMA SumFacts ==
  ASSUME NEW a \in Operand, NEW b \in Operand
  PROVE  LET res == Truncate(a + b)
             on == SumOf(a, b, res)
         IN /\ res \in Operand
            /\ res = (IF "CF" \in on THEN a + b - M ELSE a + b)
            /\ "OF" \notin on <=> Signed(res) = Signed(a) + Signed(b)
<1> DEFINE res == Truncate(a + b)
           on == SumOf(a, b, res)
<1>1. a \in 0 .. (M - 1) /\ b \in 0 .. (M - 1)
  BY DEF Operand
<1>2. res = (IF a + b < M THEN a + b ELSE a + b - M) /\ res \in Operand
  <2>1. a + b \in (0 - M) .. (2 * M - 1) /\ ~(a + b < 0)
    BY <1>1, WidthFacts
  <2>2. res = IF a + b < M THEN a + b ELSE a + b - M
    BY <1>1, <2>1, Wraps, WidthFacts
  <2>3. QED
    BY <1>1, <2>2, WidthFacts DEF Operand
<1> HIDE DEF res
<1>3. /\ Negative(a) <=> a >= Half
      /\ Negative(b) <=> b >= Half
      /\ Negative(res) <=> res >= Half
  BY <1>2, SignOf
<1>4. /\ "CF" \in on <=> res < a
      /\ "OF" \in on <=> /\ a >= Half <=> b >= Half
                        /\ ~(a >= Half <=> res >= Half)
  BY <1>2, <1>3, SumFlagsOf
<1>5. /\ Signed(a) = IF a >= Half THEN a - M ELSE a
      /\ Signed(b) = IF b >= Half THEN b - M ELSE b
      /\ Signed(res) = IF res >= Half THEN res - M ELSE res
  BY <1>3 DEF Signed
<1> HIDE DEF on
<1>6. res = IF "CF" \in on THEN a + b - M ELSE a + b
  BY <1>1, <1>2, <1>4, WidthFacts
<1>7. "OF" \notin on <=> Signed(res) = Signed(a) + Signed(b)
  BY <1>1, <1>2, <1>4, <1>5, WidthFacts
<1>8. QED
  BY <1>2, <1>6, <1>7 DEF res, on

-----------------------------------------------------------------------------

LEMMA FlagsAfter ==
  ASSUME NEW on \in SUBSET SumFlags, Set(on, SumFlags, {})
  PROVE  \A flag \in SumFlags : flag \in flags' <=> flag \in on
  BY DEF Set

LEMMA SumFlagSets ==
  ASSUME NEW a, NEW b, NEW res
  PROVE  Difference(a, b) \in SUBSET SumFlags /\ SumOf(a, b, res) \in SUBSET SumFlags
  BY DEF Difference, SumOf, ZSP, On, SumFlags, ZSPFlags

(* What a condition tests and what it claims, one by one.                  *)
LEMMA EqualityConditions ==
  ASSUME NEW on, NEW a, NEW b
  PROVE  /\ Holds("Z", on) <=> "ZF" \in on
         /\ Holds("NZ", on) <=> "ZF" \notin on
         /\ Orders("Z", a, b) <=> a = b
         /\ Orders("NZ", a, b) <=> a # b
  BY DEF Holds, Orders

LEMMA UnsignedConditions ==
  ASSUME NEW on, NEW a \in Int, NEW b \in Int
  PROVE  /\ \A cc \in {"B", "C"} : /\ Holds(cc, on) <=> "CF" \in on
                                   /\ Orders(cc, a, b) <=> a < b
         /\ \A cc \in {"AE", "NC"} : /\ Holds(cc, on) <=> "CF" \notin on
                                     /\ Orders(cc, a, b) <=> ~(a < b)
         /\ Holds("BE", on) <=> "CF" \in on \/ "ZF" \in on
         /\ Orders("BE", a, b) <=> a < b \/ a = b
         /\ Holds("A", on) <=> "CF" \notin on /\ "ZF" \notin on
         /\ Orders("A", a, b) <=> ~(a < b) /\ a # b
<1>1. \A cc \in {"B", "C"} : Holds(cc, on) <=> "CF" \in on
  BY DEF Holds
<1>2. \A cc \in {"AE", "NC"} : Holds(cc, on) <=> "CF" \notin on
  BY DEF Holds
<1>3. /\ Holds("BE", on) <=> "CF" \in on \/ "ZF" \in on
      /\ Holds("A", on) <=> "CF" \notin on /\ "ZF" \notin on
  BY DEF Holds
<1>4. /\ \A cc \in {"B", "C"} : Orders(cc, a, b) <=> a < b
      /\ \A cc \in {"AE", "NC"} : Orders(cc, a, b) <=> ~(a < b)
      /\ Orders("BE", a, b) <=> a < b \/ a = b
      /\ Orders("A", a, b) <=> ~(a < b) /\ a # b
  BY DEF Orders
<1>5. QED
  BY <1>1, <1>2, <1>3, <1>4

LEMMA SignedConditions ==
  ASSUME NEW on, NEW a, NEW b, Signed(a) \in Int, Signed(b) \in Int
  PROVE  /\ Holds("L", on) <=> ~("SF" \in on <=> "OF" \in on)
         /\ Holds("GE", on) <=> ("SF" \in on <=> "OF" \in on)
         /\ Holds("LE", on) <=> "ZF" \in on \/ ~("SF" \in on <=> "OF" \in on)
         /\ Holds("G", on) <=> "ZF" \notin on /\ ("SF" \in on <=> "OF" \in on)
         /\ Orders("L", a, b) <=> Signed(a) < Signed(b)
         /\ Orders("GE", a, b) <=> ~(Signed(a) < Signed(b))
         /\ Orders("LE", a, b) <=> Signed(a) < Signed(b) \/ Signed(a) = Signed(b)
         /\ Orders("G", a, b) <=> ~(Signed(a) < Signed(b)) /\ Signed(a) # Signed(b)
<1>1. /\ Holds("L", on) <=> ~("SF" \in on <=> "OF" \in on)
      /\ Holds("GE", on) <=> ("SF" \in on <=> "OF" \in on)
  BY DEF Holds
<1>2. /\ Holds("LE", on) <=> "ZF" \in on \/ ~("SF" \in on <=> "OF" \in on)
      /\ Holds("G", on) <=> "ZF" \notin on /\ ("SF" \in on <=> "OF" \in on)
  BY DEF Holds
<1>3. /\ Orders("L", a, b) <=> Signed(a) < Signed(b)
      /\ Orders("GE", a, b) <=> ~(Signed(a) < Signed(b))
  BY DEF Orders
<1>4. /\ Orders("LE", a, b) <=> Signed(a) < Signed(b) \/ Signed(a) = Signed(b)
      /\ Orders("G", a, b) <=> ~(Signed(a) < Signed(b)) /\ Signed(a) # Signed(b)
  BY DEF Orders
<1>5. QED
  BY <1>1, <1>2, <1>3, <1>4

LEMMA Decides ==
  ASSUME NEW a \in Operand, NEW b \in Operand, compared' = <<a, b>>,
         "CF" \in flags' <=> a < b,
         "ZF" \in flags' <=> a = b,
         ~("SF" \in flags' <=> "OF" \in flags') <=> Signed(a) < Signed(b)
  PROVE  CompareDecides'
<1>1. a \in Int /\ b \in Int /\ Signed(a) \in Int /\ Signed(b) \in Int
      /\ (a = b <=> Signed(a) = Signed(b))
  BY WidthFacts, SignOf DEF Operand, Signed
<1>2. ASSUME NEW cc \in {"B", "C", "AE", "NC", "BE", "A", "L", "LE", "G", "GE", "Z", "NZ"}
      PROVE  Holds(cc, flags') <=> Orders(cc, a, b)
  <2>1. CASE cc \in {"Z", "NZ"}
    BY <2>1, EqualityConditions
  <2>0. /\ \A c \in {"B", "C"} : (Holds(c, flags') <=> "CF" \in flags') /\ (Orders(c, a, b) <=> a < b)
        /\ \A c \in {"AE", "NC"} : (Holds(c, flags') <=> "CF" \notin flags') /\ (Orders(c, a, b) <=> ~(a < b))
        /\ Holds("BE", flags') <=> "CF" \in flags' \/ "ZF" \in flags'
        /\ Orders("BE", a, b) <=> a < b \/ a = b
        /\ Holds("A", flags') <=> "CF" \notin flags' /\ "ZF" \notin flags'
        /\ Orders("A", a, b) <=> ~(a < b) /\ a # b
    BY <1>1, UnsignedConditions, Zenon
  <2>2. CASE cc \in {"B", "C"}
    BY <2>0, <2>2, Zenon
  <2>3. CASE cc \in {"AE", "NC"}
    BY <2>0, <2>3, Zenon
  <2>4. CASE cc \in {"BE", "A"}
    BY <2>0, <2>4, Zenon
  <2>5. CASE cc \in {"L", "GE", "LE", "G"}
    BY <1>1, <2>5, SignedConditions
  <2>6. QED
    BY <1>2, <2>1, <2>2, <2>3, <2>4, <2>5
<1>3. QED
  BY <1>2 DEF CompareDecides

(* After a CMP or SUB of operands every condition orders them, at every    *)
(* operand size.                                                           *)
THEOREM ComparisonDecides ==
  ASSUME lo \in Operand, NEW b \in Operand, CMP(b) \/ SUB(b)
  PROVE  CompareDecides'
<1> DEFINE on == Difference(lo, b)
<1>1. compared' = <<lo, b>> /\ Set(on, SumFlags, {})
  BY DEF CMP, SUB
<1>2. /\ "CF" \in flags' <=> lo < b
      /\ "ZF" \in flags' <=> lo = b
      /\ ~("SF" \in flags' <=> "OF" \in flags') <=> Signed(lo) < Signed(b)
  <2>1. \A flag \in SumFlags : flag \in flags' <=> flag \in on
    BY <1>1, FlagsAfter, SumFlagSets
  <2>2. QED
    BY <2>1, DifferenceFacts DEF SumFlags, ZSPFlags
<1>3. QED
  BY <1>1, <1>2, Decides

(* ADD is exact with its carry, and as signed numbers unless OF is set.    *)
THEOREM AdditionExact ==
  ASSUME lo \in Operand, NEW b \in Operand, ADD(b)
  PROVE  /\ lo' + M * Carry = lo + b
         /\ SignedExact(Signed(lo) + Signed(b))
<1> DEFINE res == Truncate(lo + b)
           on == SumOf(lo, b, res)
<1>1. lo' = res /\ Set(on, SumFlags, {})
  BY DEF ADD, Result
<1>2. /\ "CF" \in flags' <=> "CF" \in on
      /\ "OF" \in flags' <=> "OF" \in on
  BY <1>1, FlagsAfter, SumFlagSets DEF SumFlags
<1>3. /\ res \in Operand
      /\ res = (IF "CF" \in on THEN lo + b - M ELSE lo + b)
      /\ "OF" \notin on <=> Signed(res) = Signed(lo) + Signed(b)
  BY SumFacts
<1> HIDE DEF res, on
<1>4. res \in Int /\ lo \in Int /\ b \in Int
  BY <1>3, WidthFacts DEF Operand
<1>5. lo' + M * Carry = lo + b
  BY <1>1, <1>2, <1>3, <1>4, WidthFacts DEF Carry
<1>6. SignedExact(Signed(lo) + Signed(b))
  BY <1>1, <1>2, <1>3 DEF SignedExact
<1>7. QED
  BY <1>5, <1>6

(* ADC is exact with its carry out, but for the one sum whose carry it     *)
(* loses, and exact as a sum of signed numbers unless OF is set.           *)
THEOREM AdditionWithCarryExact ==
  ASSUME lo \in Operand, NEW b \in Operand, ADXX("ADC", b)
  PROVE  /\ b + CarryIn # M => lo' + M * Carry = lo + b + CarryIn
         /\ SignedExact(Signed(lo) + Signed(b) + CarryIn)
<1> DEFINE res == Truncate(lo + b + CarryIn)
           on == SumOf(lo, b, res)
<1>1. lo' = res /\ Set(on \cap SumFlags, SumFlags, {})
  BY DEF ADXX, Result, CarryIn
<1>2. /\ "CF" \in flags' <=> "CF" \in on
      /\ "OF" \in flags' <=> "OF" \in on
  <2>1. \A flag \in SumFlags : flag \in flags' <=> flag \in on \cap SumFlags
    BY <1>1, FlagsAfter
  <2>2. QED
    BY <2>1 DEF SumFlags, ZSPFlags
<1>3. /\ lo \in 0 .. (M - 1) /\ b \in 0 .. (M - 1) /\ CarryIn \in 0 .. 1
      /\ M \in Int /\ Half \in Int /\ M = 2 * Half /\ M > 0
  BY WidthFacts DEF Operand, CarryIn
<1>4. /\ res = IF lo + b + CarryIn < M THEN lo + b + CarryIn ELSE lo + b + CarryIn - M
      /\ res \in Operand
  <2>1. lo + b + CarryIn \in (0 - M) .. (2 * M - 1) /\ ~(lo + b + CarryIn < 0)
    BY <1>3
  <2>2. res = IF lo + b + CarryIn < M THEN lo + b + CarryIn ELSE lo + b + CarryIn - M
    BY <1>3, <2>1, Wraps
  <2>3. QED
    BY <1>3, <2>2 DEF Operand
<1> HIDE DEF res
<1>5. /\ Negative(lo) <=> lo >= Half
      /\ Negative(b) <=> b >= Half
      /\ Negative(res) <=> res >= Half
  BY <1>4, SignOf
<1>6. /\ "CF" \in on <=> res < lo
      /\ "OF" \in on <=> /\ lo >= Half <=> b >= Half
                        /\ ~(lo >= Half <=> res >= Half)
  BY <1>4, <1>5, SumFlagsOf
<1>7. /\ Signed(lo) = IF lo >= Half THEN lo - M ELSE lo
      /\ Signed(b) = IF b >= Half THEN b - M ELSE b
      /\ Signed(res) = IF res >= Half THEN res - M ELSE res
  BY <1>5 DEF Signed
<1> HIDE DEF on
<1>8. b + CarryIn # M => lo' + M * Carry = lo + b + CarryIn
  <2>1. SUFFICES ASSUME b + CarryIn # M
                 PROVE  lo' + M * Carry = lo + b + CarryIn
    OBVIOUS
  <2>2. res < lo <=> ~(lo + b + CarryIn < M)
    BY <1>3, <1>4, <2>1
  <2>3. CASE res < lo
    BY <1>1, <1>2, <1>3, <1>4, <1>6, <2>2, <2>3 DEF Carry
  <2>4. CASE ~(res < lo)
    BY <1>1, <1>2, <1>3, <1>4, <1>6, <2>2, <2>4 DEF Carry
  <2>5. QED
    BY <2>3, <2>4
<1>9. "OF" \notin on <=> Signed(res) = Signed(lo) + Signed(b) + CarryIn
  BY <1>3, <1>4, <1>6, <1>7
<1>10. SignedExact(Signed(lo) + Signed(b) + CarryIn)
  BY <1>1, <1>2, <1>9 DEF SignedExact
<1>11. QED
  BY <1>8, <1>10

(* SUB is exact with its borrow, and as signed numbers unless OF is set.   *)
THEOREM SubtractionExact ==
  ASSUME lo \in Operand, NEW b \in Operand, SUB(b)
  PROVE  /\ lo' - M * Carry = lo - b
         /\ SignedExact(Signed(lo) - Signed(b))
<1> DEFINE res == Truncate(lo - b)
           on == Difference(lo, b)
<1>1. lo' = res /\ Set(on, SumFlags, {})
  BY DEF SUB, Result
<1>2. /\ "CF" \in flags' <=> "CF" \in on
      /\ "OF" \in flags' <=> "OF" \in on
  BY <1>1, FlagsAfter, SumFlagSets DEF SumFlags
<1>3. /\ res \in Operand
      /\ res = (IF lo < b THEN lo - b + M ELSE lo - b)
      /\ "CF" \in on <=> lo < b
      /\ "OF" \notin on <=> Signed(res) = Signed(lo) - Signed(b)
  BY DifferenceFacts
<1> HIDE DEF res, on
<1>4. res \in Int /\ lo \in Int /\ b \in Int
  BY <1>3, WidthFacts DEF Operand
<1>5. lo' - M * Carry = lo - b
  BY <1>1, <1>2, <1>3, <1>4, WidthFacts DEF Carry
<1>6. SignedExact(Signed(lo) - Signed(b))
  BY <1>1, <1>2, <1>3 DEF SignedExact
<1>7. QED
  BY <1>5, <1>6


-----------------------------------------------------------------------------
(* Types.                                                                  *)

Comparison == {<<>>} \cup (Operand \X Operand)

LEMMA TruncateType ==
  ASSUME NEW x \in Int
  PROVE  Truncate(x) \in Operand
<1>1. M \in Nat \ {0}
  BY WidthFacts
<1> HIDE DEF M
<1>2. QED
  BY <1>1, DivisionOf DEF Truncate, Operand

LEMMA OnType ==
  /\ \A flag \in Flag : \A condition : On(flag, condition) \in SUBSET Flag
  /\ \A res : ZSP(res) \in SUBSET Flag
  /\ \A a, b, res : SumOf(a, b, res) \in SUBSET Flag
  /\ \A a, b : Difference(a, b) \in SUBSET Flag
BY DEF On, ZSP, SumOf, Difference, Flag

LEMMA SetType ==
  ASSUME TypeOK, NEW on \in SUBSET Flag, NEW touched, NEW undefined, Set(on, touched, undefined)
  PROVE  flags' \in SUBSET Flag
<1>1. Rands \subseteq SUBSET Flag
  BY AluAssumption DEF Flag
<1>2. QED
  BY <1>1 DEF Set, TypeOK

LEMMA ResultType ==
  ASSUME TypeOK, NEW res \in Operand, Result(res), flags' \in SUBSET Flag,
         compared' \in Comparison
  PROVE  TypeOK'
BY DEF Result, TypeOK, Comparison, Operand, Flag, M

LEMMA TypeKept ==
  ASSUME TypeOK
  PROVE  /\ lo \in Operand /\ hi \in Operand /\ lo \in Int /\ hi \in Int
         /\ flags \in SUBSET Flag /\ compared \in Comparison
         /\ \A v \in Operand : v \in Int
         /\ 0 \in Operand /\ 1 \in Operand /\ M - 1 \in Operand
<1>1. 0 \in Operand /\ 1 \in Operand /\ M - 1 \in Operand
  BY WidthFacts DEF Operand
<1>2. QED
  BY <1>1 DEF TypeOK, Comparison, Operand

(* An instruction that computes a result and sets flags.                   *)
LEMMA SetsTyped ==
  ASSUME TypeOK, NEW res \in Operand, Result(res), NEW on \in SUBSET Flag,
         NEW touched, NEW undefined, Set(on, touched, undefined), compared' \in Comparison
  PROVE  TypeOK'
BY SetType, ResultType

LEMMA SumsTyped ==
  ASSUME TypeOK, NEW b \in Operand,
         \/ ADD(b) \/ SUB(b) \/ CMP(b)
         \/ \E ext \in {"ADC", "ADCX", "ADOX"} : ADXX(ext, b)
         \/ INC \/ DEC \/ NEG \/ CMPZ
  PROVE  TypeOK'
<1>1. /\ lo \in Int /\ b \in Int /\ lo \in Operand /\ 0 \in Operand /\ <<>> \in Comparison
      /\ <<lo, b>> \in Comparison /\ <<lo, 0>> \in Comparison
  BY TypeKept DEF Comparison
<1>2. \A x \in Int : Truncate(x) \in Operand
  BY TruncateType
<1>3. CASE ADD(b)
  <2> DEFINE res == Truncate(lo + b)
             on == SumOf(lo, b, res)
  <2>1. Result(res) /\ Set(on, SumFlags, {}) /\ compared' = <<>>
    BY <1>3 DEF ADD
  <2>2. on \in SUBSET Flag
    BY OnType
  <2>3. res \in Operand
    BY <1>1, <1>2
  <2> HIDE DEF res, on
  <2>4. QED
    BY <1>1, <2>1, <2>2, <2>3, SetsTyped
<1>4. CASE SUB(b)
  <2> DEFINE res == Truncate(lo - b)
             on == Difference(lo, b)
  <2>1. Result(res) /\ Set(on, SumFlags, {}) /\ compared' = <<lo, b>>
    BY <1>4 DEF SUB
  <2>2. on \in SUBSET Flag
    BY OnType
  <2>3. res \in Operand
    BY <1>1, <1>2
  <2> HIDE DEF res, on
  <2>4. QED
    BY <1>1, <2>1, <2>2, <2>3, SetsTyped
<1>5. CASE CMP(b)
  <2>1. Difference(lo, b) \in SUBSET Flag
    BY OnType
  <2>2. flags' \in SUBSET Flag
    BY <1>5, <2>1, SetType DEF CMP
  <2>3. QED
    BY <1>1, <1>5, <2>2 DEF CMP, TypeOK, Comparison, Operand, M
<1>6. ASSUME NEW ext \in {"ADC", "ADCX", "ADOX"}, ADXX(ext, b)
      PROVE  TypeOK'
  <2> DEFINE carry == IF Is(IF ext = "ADOX" THEN "OF" ELSE "CF") THEN 1 ELSE 0
             res == Truncate(lo + b + carry)
             out == CASE ext = "ADC" -> SumFlags [] ext = "ADCX" -> {"CF"} [] OTHER -> {"OF"}
             on == SumOf(lo, b, res) \cap out
  <2>1. Result(res) /\ Set(on, out, {}) /\ compared' = <<>>
    BY <1>6 DEF ADXX
  <2>2. carry \in Int
    OBVIOUS
  <2> HIDE DEF carry
  <2>3. res \in Operand
    BY <1>1, <1>2, <2>2
  <2>4. SumOf(lo, b, res) \in SUBSET Flag
    BY OnType
  <2>5. on \in SUBSET Flag
    BY <2>4
  <2> HIDE DEF res, on, out
  <2>6. QED
    BY <1>1, <2>1, <2>3, <2>5, SetsTyped
<1>7. CASE INC
  <2> DEFINE res == Truncate(lo + 1)
             on == ZSP(res) \cup On("AF", res % Nibble = 0) \cup On("OF", Positive(lo) /\ Negative(res))
  <2>1. Result(res) /\ Set(on, SumFlags \ {"CF"}, {}) /\ compared' = <<>>
    BY <1>7 DEF INC
  <2>2. on \in SUBSET Flag
    BY OnType DEF Flag
  <2>3. res \in Operand
    BY <1>1, <1>2
  <2> HIDE DEF res, on
  <2>4. QED
    BY <1>1, <2>1, <2>2, <2>3, SetsTyped
<1>8. CASE DEC
  <2> DEFINE res == Truncate(lo - 1)
             on == ZSP(res) \cup On("AF", lo % Nibble = 0) \cup On("OF", Negative(lo) /\ Positive(res))
  <2>1. Result(res) /\ Set(on, SumFlags \ {"CF"}, {}) /\ compared' = <<>>
    BY <1>8 DEF DEC
  <2>2. on \in SUBSET Flag
    BY OnType DEF Flag
  <2>3. res \in Operand
    BY <1>1, <1>2
  <2> HIDE DEF res, on
  <2>4. QED
    BY <1>1, <2>1, <2>2, <2>3, SetsTyped
<1>9. CASE NEG
  <2> DEFINE res == Truncate(0 - lo)
             on == ZSP(res) \cup On("CF", 0 < lo) \cup On("AF", 0 < lo % Nibble)
                   \cup On("OF", Negative(lo) /\ Negative(res))
  <2>1. Result(res) /\ Set(on, SumFlags, {}) /\ compared' = <<>>
    BY <1>9 DEF NEG
  <2>2. on \in SUBSET Flag
    BY OnType DEF Flag
  <2>3. res \in Operand
    BY <1>1, <1>2
  <2> HIDE DEF res, on
  <2>4. QED
    BY <1>1, <2>1, <2>2, <2>3, SetsTyped
<1>10. CASE CMPZ
  <2>1. ZSP(lo) \in SUBSET Flag
    BY OnType
  <2>2. flags' \in SUBSET Flag
    BY <1>10, <2>1, SetType DEF CMPZ
  <2>3. QED
    BY <1>1, <1>10, <2>2 DEF CMPZ, TypeOK, Comparison, Operand, M
<1>11. QED
  BY <1>3, <1>4, <1>5, <1>6, <1>7, <1>8, <1>9, <1>10

LEMMA MovesTyped ==
  ASSUME TypeOK, NEW b \in Operand,
         \/ \E cc \in Conditions : SETcc(cc) \/ MOVcc(cc, b)
         \/ FlagManip \/ NOT \/ MULX(b) \/ Cxy \/ MOV(b) \/ XCHG
  PROVE  TypeOK'
<1>1. /\ lo \in Operand /\ hi \in Operand /\ lo \in Int /\ b \in Int /\ flags \in SUBSET Flag
      /\ compared \in Comparison /\ 0 \in Operand /\ 1 \in Operand /\ M - 1 \in Operand
  BY TypeKept
<1>2. \A x \in Int : Truncate(x) \in Operand
  BY TruncateType
<1>3. ASSUME NEW cc \in Conditions, SETcc(cc) PROVE TypeOK'
  <2> DEFINE res == IF Holds(cc, flags) THEN 1 ELSE 0
  <2>1. Result(res) /\ flags' = flags /\ compared' = compared
    BY <1>3 DEF SETcc, Keeps
  <2>2. res \in Operand
    BY <1>1
  <2> HIDE DEF res
  <2>3. QED
    BY <1>1, <2>1, <2>2, ResultType
<1>4. ASSUME NEW cc \in Conditions, MOVcc(cc, b) PROVE TypeOK'
  <2> DEFINE res == IF Holds(cc, flags) THEN b ELSE lo
  <2>1. Result(res) /\ flags' = flags /\ compared' = compared
    BY <1>4 DEF MOVcc, Keeps
  <2>2. res \in Operand
    BY <1>1
  <2> HIDE DEF res
  <2>3. QED
    BY <1>1, <2>1, <2>2, ResultType
<1>5. CASE FlagManip
  BY <1>1, <1>5 DEF FlagManip, TypeOK, Flag, Operand, M
<1>6. CASE NOT
  <2>1. M - 1 - lo \in Operand
    BY <1>1, WidthFacts DEF Operand
  <2>2. Result(M - 1 - lo) /\ flags' = flags /\ compared' = compared
    BY <1>6 DEF NOT, Keeps
  <2>3. QED
    BY <1>1, <2>1, <2>2, ResultType
<1>7. CASE MULX(b)
  <2> DEFINE x == lo * b
  <2>1. x \in Int
    BY <1>1
  <2>2. /\ hi' = (x \div M) % M /\ lo' = Truncate(x) /\ error' = error
        /\ flags' = flags /\ compared' = compared
    BY <1>7 DEF MULX, StorePair, Keeps
  <2> HIDE DEF x
  <2>3. hi' \in Operand /\ lo' \in Operand
    <3>1. x \div M \in Int
      BY <2>1, WidthFacts, DivisionOf
    <3>2. Truncate(x \div M) \in Operand /\ Truncate(x) \in Operand
      BY <1>2, <2>1, <3>1
    <3>3. QED
      BY <2>2, <3>2 DEF Truncate
  <2>4. QED
    BY <1>1, <2>2, <2>3 DEF TypeOK, Comparison, Operand, M
<1>8. CASE Cxy
  BY <1>1, <1>8 DEF Cxy, Keeps, TypeOK, Operand, M
<1>9. CASE MOV(b)
  BY <1>1, <1>9, ResultType DEF MOV, Keeps
<1>10. CASE XCHG
  BY <1>1, <1>10 DEF XCHG, Keeps, TypeOK, Operand, M
<1>11. QED
  BY <1>3, <1>4, <1>5, <1>6, <1>7, <1>8, <1>9, <1>10


LEMMA LogicTyped ==
  ASSUME TypeOK, NEW b \in Operand,
         AND(b) \/ TEST(b) \/ OR(b) \/ XOR(b) \/ ANDN(b) \/ BLSI \/ BLSMSK \/ BLSR
  PROVE  TypeOK'
<1>1. lo \in Operand /\ hi \in Operand /\ <<>> \in Comparison
  BY TypeKept DEF Comparison
<1>2. \A x, y : And(x, y) \in Operand /\ Or(x, y) \in Operand /\ Xor(x, y) \in Operand
  BY ValueType DEF And, Or, Xor
<1>3. ASSUME NEW res \in Operand, Logic(res), Result(res) PROVE TypeOK'
  BY <1>1, <1>3, OnType, SetsTyped DEF Logic
<1>4. ASSUME NEW name, NEW c, NEW res \in Operand, NEW on \in SUBSET Flag, BLS(name, c, res, on)
      PROVE  TypeOK'
  BY <1>1, <1>4, SetsTyped DEF BLS
<1>5. CASE AND(b)
  BY <1>2, <1>3, <1>5 DEF AND
<1>6. CASE TEST(b)
  <2> DEFINE res == And(lo, b)
  <2>1. Logic(res) /\ UNCHANGED <<lo, hi, error>>
    BY <1>6 DEF TEST
  <2>2. flags' \in SUBSET Flag /\ compared' = <<>>
    BY <2>1, OnType, SetType DEF Logic
  <2>3. QED
    BY <1>1, <2>1, <2>2 DEF TypeOK, Comparison, Operand, M
<1>7. CASE OR(b)
  BY <1>2, <1>3, <1>7 DEF OR
<1>8. CASE XOR(b)
  BY <1>2, <1>3, <1>8 DEF XOR
<1>9. CASE ANDN(b)
  <2> DEFINE res == And(M - 1 - lo, b)
             on == On("ZF", res = 0) \cup On("SF", Negative(res))
  <2>1. BLS("ANDN", b, res, on)
    BY <1>9 DEF ANDN
  <2>2. res \in Operand /\ on \in SUBSET Flag
    BY <1>2, OnType DEF Flag
  <2>3. QED
    BY <1>4, <2>1, <2>2
<1>10. CASE BLSI
  <2> DEFINE res == And(lo, Truncate(0 - lo))
             on == On("ZF", res = 0) \cup On("SF", Negative(res)) \cup On("CF", lo # 0)
  <2>1. BLS("BLSI", 0, res, on)
    BY <1>10 DEF BLSI
  <2>2. res \in Operand /\ on \in SUBSET Flag
    BY <1>2, OnType DEF Flag
  <2>3. QED
    BY <1>4, <2>1, <2>2
<1>11. CASE BLSMSK
  <2> DEFINE res == Xor(lo, Truncate(lo - 1))
             on == On("SF", Negative(res)) \cup On("CF", lo = 0)
  <2>1. BLS("BLSMSK", 0, res, on)
    BY <1>11 DEF BLSMSK
  <2>2. res \in Operand /\ on \in SUBSET Flag
    BY <1>2, OnType DEF Flag
  <2>3. QED
    BY <1>4, <2>1, <2>2
<1>12. CASE BLSR
  <2> DEFINE res == And(lo, Truncate(lo - 1))
             on == On("ZF", res = 0) \cup On("SF", Negative(res)) \cup On("CF", lo = 0)
  <2>1. BLS("BLSR", 0, res, on)
    BY <1>12 DEF BLSR
  <2>2. res \in Operand /\ on \in SUBSET Flag
    BY <1>2, OnType DEF Flag
  <2>3. QED
    BY <1>4, <2>1, <2>2
<1>13. QED
  BY <1>5, <1>6, <1>7, <1>8, <1>9, <1>10, <1>11, <1>12

(* Where a bit is, and how many there are, fits the operand.               *)
LEMMA BitIndex ==
  ASSUME NEW b \in Operand, b # 0
  PROVE  /\ Min(BitsOf(b)) \in Operand /\ Max(BitsOf(b)) \in Operand
         /\ Bits \in Operand
<1>1. Bits \in Nat /\ Bits < M
  <2>1. Bits \in Nat /\ Bits \in 0 .. MaxBits
    BY TwoPowers
  <2>2. Bits < Two[Bits]
    BY <2>1, PowersGrow
  <2>3. QED
    BY <2>1, <2>2 DEF M
<1> DEFINE S == BitsOf(b)
<1>2. S \subseteq 0 .. Bits /\ S \subseteq Nat /\ S # {} /\ \A k \in S : k < Bits
  <2>1. S \subseteq 0 .. (Bits - 1)
    BY DEF BitsOf
  <2>2. S # {}
    BY SomeBitOn
  <2> HIDE DEF S
  <2>3. QED
    BY <1>1, <2>1, <2>2
<1> HIDE DEF S
<1>3. Min(S) \in S /\ Max(S) \in S
  BY <1>1, <1>2, MinOf, MaxOf
<1>4. M \in Nat
  BY WidthFacts
<1>5. Min(S) \in 0 .. (M - 1) /\ Max(S) \in 0 .. (M - 1) /\ Bits \in 0 .. (M - 1)
  <2> HIDE DEF M
  <2>1. Min(S) \in Nat /\ Min(S) < Bits /\ Max(S) \in Nat /\ Max(S) < Bits
    BY <1>2, <1>3
  <2>2. QED
    BY <1>1, <1>4, <2>1
<1>6. QED
  BY <1>5 DEF S, Operand

LEMMA BitsTyped ==
  ASSUME TypeOK, NEW b \in Operand,
         \/ \E ext \in {"BT", "BTS", "BTR", "BTC"} : BTx(ext, b)
         \/ \E forward \in BOOLEAN : BSx(forward, b)
         \/ TZCNT(b)
         \/ \E n, len \in Counts : BEXTR(n, len)
  PROVE  TypeOK'
<1>1. lo \in Operand /\ lo \in Int /\ hi \in Operand /\ 0 \in Operand /\ <<>> \in Comparison
  BY TypeKept DEF Comparison
<1>2. \A flag \in Flag : \A condition : On(flag, condition) \in SUBSET Flag
  BY OnType
<1>3. ASSUME NEW ext \in {"BT", "BTS", "BTR", "BTC"}, BTx(ext, b)
      PROVE  TypeOK'
  <2> DEFINE bit == {b % Bits}
             res == CASE ext = "BT" -> lo
                      [] ext = "BTS" -> Value(BitsOf(lo) \cup bit)
                      [] ext = "BTR" -> Value(BitsOf(lo) \ bit)
                      [] ext = "BTC" -> Value(SymDiff(BitsOf(lo), bit))
             on == On("CF", bit \subseteq BitsOf(lo))
  <2>1. Result(res) /\ compared' = <<>> /\ Set(on, {"CF"}, {"OF", "SF", "AF", "PF"})
    BY <1>3 DEF BTx
  <2>2. res \in Operand
    <3>1. \A S : Value(S) \in Operand
      BY ValueType
    <3>2. QED
      BY <1>1, <3>1
  <2>3. on \in SUBSET Flag
    BY <1>2 DEF Flag
  <2> HIDE DEF res, on
  <2>4. QED
    BY <1>1, <2>1, <2>2, <2>3, SetsTyped
<1>4. ASSUME NEW forward \in BOOLEAN, BSx(forward, b)
      PROVE  TypeOK'
  <2> DEFINE on == On("ZF", b = 0)
             res == IF forward THEN Min(BitsOf(b)) ELSE Max(BitsOf(b))
  <2>1. Set(on, {"ZF"}, {"CF", "OF", "SF", "AF", "PF"}) /\ compared' = <<>>
    BY <1>4 DEF BSx
  <2>2. on \in SUBSET Flag
    BY <1>2 DEF Flag
  <2>3. CASE b = 0
    <3>1. PICK any \in Operand : Result(any)
      BY <1>4, <2>3 DEF BSx
    <3> HIDE DEF on
    <3>2. QED
      BY <1>1, <2>1, <2>2, <3>1, SetsTyped
  <2>4. CASE b # 0
    <3>1. Result(res)
      BY <1>4, <2>4 DEF BSx
    <3>2. res \in Operand
      BY <2>4, BitIndex
    <3> HIDE DEF on, res
    <3>3. QED
      BY <1>1, <2>1, <2>2, <3>1, <3>2, SetsTyped
  <2>5. QED
    BY <2>3, <2>4
<1>5. CASE TZCNT(b)
  <2> DEFINE res == IF b = 0 THEN Bits ELSE Min(BitsOf(b))
             on == On("CF", b = 0) \cup On("ZF", res = 0)
  <2>1. Result(res) /\ compared' = <<>> /\ Set(on, {"CF", "ZF"}, {"OF", "SF", "AF", "PF"})
    BY <1>5 DEF TZCNT
  <2>2. res \in Operand
    <3>1. 1 \in Operand /\ 1 # 0
      BY TypeKept
    <3>2. Bits \in Operand
      BY <3>1, BitIndex
    <3>3. QED
      BY <3>2, BitIndex
  <2>3. on \in SUBSET Flag
    BY <1>2 DEF Flag
  <2> HIDE DEF res, on
  <2>4. QED
    BY <1>1, <2>1, <2>2, <2>3, SetsTyped
<1>6. ASSUME NEW pos \in Counts, NEW len \in Counts, BEXTR(pos, len)
      PROVE  TypeOK'
  <2> DEFINE p == Two[pos % Bits]
             l == Two[len % Bits]
             res == (lo \div p) % l
             on == On("ZF", res = 0)
  <2>1. Result(res) /\ compared' = <<>> /\ Set(on, {"ZF", "CF", "OF"}, {"AF", "SF", "PF"})
    BY <1>6 DEF BEXTR
  <2>2. on \in SUBSET Flag
    BY <1>2 DEF Flag
  <2>3. p \in Nat \ {0} /\ l \in Nat \ {0}
    <3>1. pos \in Int /\ len \in Int /\ Bits \in Nat \ {0}
      BY AluAssumption, TwoPowers
    <3>2. pos % Bits \in 0 .. (Bits - 1) /\ len % Bits \in 0 .. (Bits - 1)
      BY <3>1, DivisionOf
    <3>3. pos % Bits \in 0 .. MaxBits /\ len % Bits \in 0 .. MaxBits
      BY <3>2, TwoPowers
    <3>4. QED
      BY <3>3, TwoPowers
  <2> HIDE DEF p, l
  <2>4. lo \div p \in Int /\ lo \div p >= 0 /\ lo \div p <= lo
    BY <1>1, <2>3, QuotientBounds DEF Operand
  <2> DEFINE x == lo \div p
  <2>5. x % l \in 0 .. x
    <3> HIDE DEF x
    <3>1. x \in Nat
      BY <2>4 DEF x
    <3>2. QED
      BY <2>3, <3>1, RemainderBounds
  <2>6. res \in Operand
    <3>1. lo \in 0 .. (M - 1) /\ M \in Nat
      BY <1>1, WidthFacts DEF Operand
    <3> HIDE DEF M
    <3>2. res \in 0 .. (M - 1)
      BY <2>4, <2>5, <3>1
    <3>3. QED
      BY <3>2 DEF Operand
  <2> HIDE DEF res, on
  <2>7. QED
    BY <1>1, <2>1, <2>2, <2>6, SetsTyped
<1>7. QED
  BY <1>3, <1>4, <1>5, <1>6


(* Shifts and rotates of an operand.                                       *)
LEMMA ShiftTyped ==
  ASSUME TypeOK, NEW name, NEW count, NEW res \in Operand,
         NEW carry \in SUBSET Flag, NEW overflow \in SUBSET Flag,
         Shift(name, count, res, carry, overflow)
  PROVE  TypeOK'
<1> DEFINE undefined == {"AF"} \cup On("CF", count >= Bits) \cup On("OF", count # 1)
           on == (ZSP(res) \cup carry \cup overflow) \ undefined
<1>1. CASE count = 0
  BY <1>1 DEF Shift, cpu, TypeOK, Operand, M, Flag
<1>2. CASE count # 0
  <2>1. Result(res) /\ compared' = <<>> /\ Set(on, {"CF", "OF"} \cup ZSPFlags, undefined)
    BY <1>2 DEF Shift
  <2>2. on \in SUBSET Flag
    BY OnType
  <2> HIDE DEF on, undefined
  <2>3. <<>> \in Comparison
    BY DEF Comparison
  <2>4. QED
    BY <2>1, <2>2, <2>3, SetsTyped
<1>3. QED
  BY <1>1, <1>2

LEMMA RotateTyped ==
  ASSUME TypeOK, NEW name, NEW n, NEW count, NEW res \in Operand, NEW carry, NEW overflow,
         Rotate(name, n, count, res, carry, overflow)
  PROVE  TypeOK'
<1> DEFINE undefined == On("OF", count # 1)
           on == (On("CF", carry) \cup On("OF", overflow)) \ undefined
<1>1. CASE count = 0
  BY <1>1 DEF Rotate, cpu, TypeOK, Operand, M, Flag
<1>2. CASE count # 0
  <2>1. Result(res) /\ compared' = <<>> /\ Set(on, {"CF", "OF"}, undefined)
    BY <1>2 DEF Rotate
  <2>2. on \in SUBSET Flag
    BY OnType DEF Flag
  <2> HIDE DEF on, undefined
  <2>3. <<>> \in Comparison
    BY DEF Comparison
  <2>4. QED
    BY <2>1, <2>2, <2>3, SetsTyped
<1>3. QED
  BY <1>1, <1>2

LEMMA SignedType ==
  ASSUME NEW v \in Operand
  PROVE  /\ Signed(v) \in (0 - Half) .. (Half - 1)
         /\ Signed(v) \in Int
         /\ Signed(v) = IF v >= Half THEN v - M ELSE v
BY SignOf, WidthFacts DEF Signed, Operand

(* The bit that leaves on the right, and the one that comes in on the left.*)
LEMMA OneRightType ==
  ASSUME NEW p, p.res \in Operand
  PROVE  OneRight(p).res \in Operand
<1> DEFINE v == p.res
<1>1. v \in 0 .. (2 * Half - 1) /\ Half \in Nat /\ M = 2 * Half
  BY WidthFacts DEF Operand
<1>2. OneRight(p).res = v \div 2 + (IF p.carry THEN Half ELSE 0)
  BY DEF OneRight
<1> HIDE DEF v, Half, M
<1>3. v \div 2 \in 0 .. (Half - 1)
  BY <1>1
<1>4. QED
  BY <1>1, <1>2, <1>3 DEF Operand

LEMMA OneLeftType ==
  ASSUME NEW p, p.res \in Operand
  PROVE  OneLeft(p).res \in Operand
<1> DEFINE v == p.res
<1>1. v \in 0 .. (2 * Half - 1) /\ Half \in Nat /\ M = 2 * Half /\ Half >= 2
  BY WidthFacts DEF Operand
<1>2. OneLeft(p).res = ((2 * v) % M) + (IF p.carry THEN 1 ELSE 0)
  BY DEF OneLeft, Truncate
<1> HIDE DEF v, Half, M
<1>3. (2 * v) % M = IF v < Half THEN 2 * v ELSE 2 * v - M
  <2>1. CASE v < Half
    BY <1>1, <2>1
  <2>2. CASE v >= Half
    <3> DEFINE h == 2 * v - M
    <3>1. 2 * v = h + 1 * M /\ h \in 0 .. (M - 1) /\ M \in Nat \ {0} /\ 1 \in Int
      BY <1>1, <2>2
    <3>2. (2 * v) % M = h
      <4> HIDE DEF h
      <4>1. (h + 1 * M) % M = h
        BY <3>1, DivisionOfSum
      <4>2. QED
        BY <3>1, <4>1
    <3>3. QED
      BY <1>1, <2>2, <3>2
  <2>3. QED
    BY <1>1, <2>1, <2>2
<1>4. QED
  BY <1>1, <1>2, <1>3 DEF Operand

(* The turns of a rotate through the carry.                                *)
Start == [res |-> lo, carry |-> Is("CF")]
OneTurn(left, p) == IF left THEN OneLeft(p) ELSE OneRight(p)
IsTurns(f, left, n) ==
  f = [i \in 0 .. n |-> IF i = 0 THEN Start ELSE OneTurn(left, f[i - 1])]

LEMMA TurnsDefined ==
  ASSUME NEW left, NEW n \in Nat
  PROVE  \E f : IsTurns(f, left, n)
<1> DEFINE T == {m \in Nat : \E f : IsTurns(f, left, m)}
<1>1. 0 \in T
  <2> DEFINE f == [i \in 0 .. 0 |-> Start]
  <2>1. IsTurns(f, left, 0)
    BY DEF IsTurns
  <2>2. QED
    BY <2>1
<1>2. ASSUME NEW m \in Nat, m \in T
      PROVE  m + 1 \in T
  <2>1. PICK f : IsTurns(f, left, m)
    BY <1>2
  <2> DEFINE g == [i \in 0 .. (m + 1) |-> IF i = m + 1 THEN OneTurn(left, f[m]) ELSE f[i]]
  <2>2. \A i \in 0 .. m : f[i] = IF i = 0 THEN Start ELSE OneTurn(left, f[i - 1])
    BY <2>1 DEF IsTurns
  <2>3. \A i \in 0 .. (m + 1) : g[i] = IF i = 0 THEN Start ELSE OneTurn(left, g[i - 1])
    <3> TAKE i \in 0 .. (m + 1)
    <3>1. CASE i = 0
      BY <2>2, <3>1
    <3>2. CASE i \in 1 .. m
      <4>1. g[i] = f[i] /\ g[i - 1] = f[i - 1]
        BY <3>2
      <4>2. QED
        BY <2>2, <3>2, <4>1
    <3>3. CASE i = m + 1
      <4>1. g[i] = OneTurn(left, f[m]) /\ g[i - 1] = f[m]
        BY <3>3
      <4>2. QED
        BY <3>3, <4>1
    <3>4. QED
      BY <3>1, <3>2, <3>3
  <2>4. g = [i \in 0 .. (m + 1) |-> IF i = 0 THEN Start ELSE OneTurn(left, g[i - 1])]
    BY <2>3
  <2>5. m + 1 \in Nat
    OBVIOUS
  <2> HIDE DEF g
  <2>6. QED
    BY <2>4, <2>5 DEF IsTurns
<1> HIDE DEF T
<1>3. n \in T
  BY <1>1, <1>2, Induct
<1>4. QED
  BY <1>3 DEF T

LEMMA TurnsAre ==
  ASSUME NEW left, NEW n \in Nat
  PROVE  \E f : /\ ThroughCarry(left, n) = f[n]
                /\ f[0] = Start
                /\ \A i \in 0 .. (n - 1) : f[i + 1] = OneTurn(left, f[i])
<1> DEFINE f == CHOOSE f : IsTurns(f, left, n)
<1>1. ThroughCarry(left, n) = f[n]
  BY DEF ThroughCarry, IsTurns, Start, OneTurn
<1>2. IsTurns(f, left, n)
  BY TurnsDefined
<1>3. \A i \in 0 .. n : f[i] = IF i = 0 THEN Start ELSE OneTurn(left, f[i - 1])
  BY <1>2 DEF IsTurns
<1> HIDE DEF f
<1>4. f[0] = Start
  BY <1>3
<1>5. \A i \in 0 .. (n - 1) : f[i + 1] = OneTurn(left, f[i])
  BY <1>3
<1>6. QED
  BY <1>1, <1>4, <1>5

LEMMA TurnsTyped ==
  ASSUME TypeOK, NEW left, NEW n \in Nat
  PROVE  ThroughCarry(left, n).res \in Operand
<1>1. PICK f : /\ ThroughCarry(left, n) = f[n]
               /\ f[0] = Start
               /\ \A i \in 0 .. (n - 1) : f[i + 1] = OneTurn(left, f[i])
  BY TurnsAre
<1> DEFINE G == {i \in 0 .. n : f[i].res \in Operand}
<1>2. 0 \in G
  BY <1>1 DEF Start, TypeOK
<1>3. ASSUME NEW i \in 0 .. (n - 1), i \in G
      PROVE  i + 1 \in G
  <2> DEFINE p == f[i]
  <2>1. p.res \in Operand /\ f[i + 1] = OneTurn(left, p) /\ i + 1 \in 0 .. n
    BY <1>1, <1>3
  <2> HIDE DEF p
  <2>2. OneTurn(left, p).res \in Operand
    BY <2>1, OneLeftType, OneRightType DEF OneTurn
  <2>3. QED
    BY <2>1, <2>2
<1> HIDE DEF G
<1>4. n \in G
  BY <1>2, <1>3, InductTo
<1>5. QED
  BY <1>1, <1>4 DEF G


LEMMA ShiftsTyped ==
  ASSUME TypeOK, NEW n \in Counts,
         SHL(n) \/ SHR(n) \/ SAR(n) \/ ROL(n) \/ ROR(n) \/ RCL(n) \/ RCR(n)
  PROVE  TypeOK'
<1>1. lo \in Operand /\ lo \in Nat /\ lo \in Int
  BY TypeKept DEF Operand
<1>2. \A x \in Int : Truncate(x) \in Operand
  BY TruncateType
<1>3. n \in Int /\ n \in 0 .. MaxBits /\ n \in Nat /\ Bits \in Nat /\ Bits >= 2 /\ Bits <= MaxBits
  BY AluAssumption, TwoPowers
<1>4. \A k \in 0 .. MaxBits : Two[k] \in Nat \ {0}
  BY TwoPowers
<1> DEFINE x == Two[n]
<1>5. x \in Nat \ {0}
  BY <1>3, <1>4
<1> HIDE DEF x
<1>6. /\ lo * x \in Int
      /\ lo \div x \in Operand
      /\ Signed(lo) \div x \in Int
  <2>1. lo \div x \in 0 .. lo
    BY <1>1, <1>5, QuotientBounds
  <2>2. Signed(lo) \in Int
    BY <1>1, SignedType
  <2>3. Signed(lo) \div x \in Int
    BY <1>5, <2>2, DivisionOf
  <2>4. QED
    BY <1>1, <1>5, <2>1, <2>3, WidthFacts DEF Operand
<1>7. CASE SHL(n)
  <2> DEFINE res == Truncate(lo * Two[n])
             carry == On("CF", n < Bits /\ (Bits - n) \in BitsOf(lo))
             overflow == On("OF", Negative(res) # (carry # {}))
  <2>1. Shift("SHL", n, res, carry, overflow)
    BY <1>7 DEF SHL
  <2>2. res \in Operand
    BY <1>2, <1>6 DEF x
  <2>3. carry \in SUBSET Flag /\ overflow \in SUBSET Flag
    BY OnType DEF Flag
  <2> HIDE DEF res, carry, overflow
  <2>4. QED
    BY <2>1, <2>2, <2>3, ShiftTyped
<1>8. CASE SHR(n)
  <2> DEFINE res == lo \div Two[n]
             carry == On("CF", (n - 1) \in BitsOf(lo))
             overflow == On("OF", Negative(lo))
  <2>1. Shift("SHR", n, res, carry, overflow)
    BY <1>8 DEF SHR
  <2>2. res \in Operand
    BY <1>6 DEF x
  <2>3. carry \in SUBSET Flag /\ overflow \in SUBSET Flag
    BY OnType DEF Flag
  <2> HIDE DEF res, carry, overflow
  <2>4. QED
    BY <2>1, <2>2, <2>3, ShiftTyped
<1>9. CASE SAR(n)
  <2> DEFINE res == Truncate(Signed(lo) \div Two[n])
             carry == On("CF", (n - 1) \in BitsOf(lo))
  <2>1. Shift("SAR", n, res, carry, {})
    BY <1>9 DEF SAR
  <2>2. res \in Operand
    BY <1>2, <1>6 DEF x
  <2>3. carry \in SUBSET Flag /\ {} \in SUBSET Flag
    BY OnType DEF Flag
  <2> HIDE DEF res, carry
  <2>4. QED
    BY <2>1, <2>2, <2>3, ShiftTyped
<1>10. CASE ROL(n) \/ ROR(n)
  <2> DEFINE count == n % Bits
             y == Two[count]
             z == Two[Bits - count]
  <2>1. count \in 0 .. (Bits - 1)
    <3>1. Bits \in Nat \ {0}
      BY <1>3
    <3>2. QED
      BY <1>3, <3>1, DivisionOf
  <2>2. count \in 0 .. MaxBits /\ Bits - count \in 0 .. MaxBits
    <3> HIDE DEF count
    <3>1. QED
      BY <1>3, <2>1, TwoPowers
  <2>3. y \in Nat \ {0} /\ z \in Nat \ {0}
    BY <1>4, <2>2
  <2> DEFINE left == Truncate(lo * y + lo \div z)
             right == Truncate(lo \div y + lo * z)
  <2>4. left \in Operand /\ right \in Operand
    <3> HIDE DEF y, z
    <3>1. lo * y \in Int /\ lo * z \in Int /\ lo \div y \in Int /\ lo \div z \in Int
      BY <1>1, <2>3, DivisionOf
    <3>2. lo * y + lo \div z \in Int /\ lo \div y + lo * z \in Int
      BY <3>1
    <3>3. QED
      BY <1>2, <3>2
  <2>5. CASE ROL(n)
    <3> DEFINE carry == (Bits - count) \in BitsOf(lo)
               overflow == carry # Negative(left)
    <3>1. Rotate("ROL", n, count, left, carry, overflow)
      BY <2>5 DEF ROL
    <3> HIDE DEF carry, overflow, left, count
    <3>2. QED
      BY <2>4, <3>1, RotateTyped
  <2>6. CASE ROR(n)
    <3> DEFINE carry == (count - 1) \in BitsOf(lo)
               overflow == TopTwoDiffer(right)
    <3>1. Rotate("ROR", n, count, right, carry, overflow)
      BY <2>6 DEF ROR
    <3> HIDE DEF carry, overflow, right, count
    <3>2. QED
      BY <2>4, <3>1, RotateTyped
  <2>7. QED
    BY <1>10, <2>5, <2>6
<1>11. CASE RCL(n) \/ RCR(n)
  <2> DEFINE count == n % (Bits + 1)
             turned(left) == ThroughCarry(left, count)
  <2>1. count \in Nat
    <3>1. Bits + 1 \in Nat \ {0}
      BY <1>3
    <3>2. count \in 0 .. ((Bits + 1) - 1)
      BY <1>3, <3>1, DivisionOf
    <3>3. QED
      BY <1>3, <3>2
  <2> HIDE DEF count
  <2>2. turned(TRUE).res \in Operand /\ turned(FALSE).res \in Operand
    BY <2>1, TurnsTyped
  <2>3. CASE RCL(n)
    <3> DEFINE end == ThroughCarry(TRUE, count)
               overflow == end.carry # Negative(end.res)
    <3>1. Rotate("RCL", n, count, end.res, end.carry, overflow)
      BY <2>3 DEF RCL, count
    <3> HIDE DEF overflow
    <3>2. QED
      BY <2>2, <3>1, RotateTyped
  <2>4. CASE RCR(n)
    <3> DEFINE end == ThroughCarry(FALSE, count)
               overflow == TopTwoDiffer(end.res)
    <3>1. Rotate("RCR", n, count, end.res, end.carry, overflow)
      BY <2>4 DEF RCR, count
    <3> HIDE DEF overflow
    <3>2. QED
      BY <2>2, <3>1, RotateTyped
  <2>5. QED
    BY <1>11, <2>3, <2>4
<1>12. QED
  BY <1>7, <1>8, <1>9, <1>10, <1>11

(* Quotient and remainder are whole numbers.                               *)
LEMMA QuotientType ==
  ASSUME NEW x \in Int, NEW y \in Int \ {0}
  PROVE  Quotient(x, y) \in Int /\ Remainder(x, y) \in Int
<1>1. Magnitude(x) \in Nat /\ Magnitude(y) \in Nat \ {0}
  BY DEF Magnitude
<1> DEFINE q == Magnitude(x) \div Magnitude(y)
<1>2. q \in Int
  BY <1>1, DivisionOf
<1>3. Quotient(x, y) = IF (x < 0) = (y < 0) THEN q ELSE -q
  BY DEF Quotient
<1> HIDE DEF q
<1>4. Quotient(x, y) \in Int
  BY <1>2, <1>3
<1> DEFINE k == Quotient(x, y)
<1>5. y * k \in Int
  BY <1>4
<1>6. QED
  BY <1>4, <1>5 DEF Remainder

LEMMA PairType ==
  ASSUME TypeOK
  PROVE  Pair \in Nat /\ SignedPair \in Int
<1>1. lo \in 0 .. (M - 1) /\ hi \in 0 .. (M - 1) /\ M \in Nat /\ Signed(hi) \in Int
  BY WidthFacts, SignedType DEF TypeOK, Operand
<1> DEFINE s == Signed(hi)
<1> HIDE DEF s, M
<1>2. hi * M \in Nat /\ s * M \in Int
  BY <1>1 DEF s
<1>3. QED
  BY <1>1, <1>2 DEF Pair, SignedPair, s

LEMMA ProductsTyped ==
  ASSUME TypeOK, NEW b \in Operand,
         MUL(b) \/ UnaryIMUL(b) \/ BinaryIMUL(b) \/ DIV(b) \/ IDIV(b)
  PROVE  TypeOK'
<1>1. lo \in Operand /\ lo \in Int /\ b \in Int /\ hi \in Operand /\ <<>> \in Comparison
  BY TypeKept DEF Comparison
<1>2. \A x \in Int : Truncate(x) \in Operand
  BY TruncateType
<1>3. \A x \in Int : (x \div M) % M \in Operand
  <2> TAKE x \in Int
  <2>1. M \in Nat \ {0}
    BY WidthFacts
  <2>2. x \div M \in Int
    BY <2>1, DivisionOf
  <2>3. QED
    BY <1>2, <2>2 DEF Truncate
<1>4. ASSUME NEW x \in Int, StorePair(x), flags' \in SUBSET Flag, compared' \in Comparison
      PROVE  TypeOK'
  BY <1>2, <1>3, <1>4 DEF StorePair, TypeOK, Comparison, Operand, M, Flag
<1>5. ASSUME NEW overflows, Product(overflows)
      PROVE  flags' \in SUBSET Flag /\ compared' \in Comparison
  <2> DEFINE on == IF overflows THEN {"CF", "OF"} ELSE {}
  <2>1. Set(on, {"CF", "OF"}, {"SF", "ZF", "AF", "PF"}) /\ compared' = <<>>
    BY <1>5 DEF Product
  <2>2. on \in SUBSET Flag
    BY DEF Flag
  <2> HIDE DEF on
  <2>3. QED
    BY <1>1, <2>1, <2>2, SetType
<1>6. ASSUME Fault \/ Trap PROVE TypeOK'
  BY <1>6 DEF Fault, Trap, TypeOK, Comparison, Operand, M, Flag
<1>7. ASSUME NEW quo \in Int, NEW rem \in Int, Quotients(quo, rem) PROVE TypeOK'
  <2>1. flags' \in SUBSET Flag
    <3>1. Set({}, {}, Flag) /\ {} \in SUBSET Flag
      BY <1>7 DEF Quotients
    <3>2. QED
      BY <3>1, SetType
  <2>2. QED
    BY <1>2, <1>7, <2>1 DEF Quotients, TypeOK, Comparison, Operand, M, Flag
<1> DEFINE s == Signed(lo) * Signed(b)
<1>8. s \in Int
  BY SignedType, <1>1
<1>9. CASE MUL(b)
  <2> DEFINE x == lo * b
  <2>1. x \in Int
    BY <1>1
  <2>2. StorePair(x) /\ Product(hi' # 0)
    BY <1>9 DEF MUL
  <2> HIDE DEF x
  <2>3. QED
    BY <1>4, <1>5, <2>1, <2>2
<1>10. CASE UnaryIMUL(b)
  <2>1. StorePair(s) /\ Product(~FitsSigned(s))
    BY <1>10 DEF UnaryIMUL
  <2> HIDE DEF s
  <2>2. QED
    BY <1>4, <1>5, <1>8, <2>1
<1>11. CASE BinaryIMUL(b)
  <2>1. Result(Truncate(s)) /\ Product(~FitsSigned(s))
    BY <1>11 DEF BinaryIMUL
  <2> HIDE DEF s
  <2>2. Truncate(s) \in Operand
    BY <1>2, <1>8
  <2>3. QED
    BY <1>5, <2>1, <2>2, ResultType
<1>12. CASE DIV(b)
  <2>1. CASE b # 0 /\ Pair \div b < M
    <3>1. Pair \div b \in Int /\ Pair % b \in Int
      <4>1. b \in Nat \ {0}
        BY <2>1 DEF Operand
      <4>2. Pair \in Int
        BY PairType
      <4> HIDE DEF Pair
      <4>3. QED
        BY <4>1, <4>2, DivisionOf
    <3>2. Quotients(Pair \div b, Pair % b)
      BY <1>12, <2>1 DEF DIV
    <3>3. QED
      BY <1>7, <3>1, <3>2
  <2>2. CASE ~(b # 0 /\ Pair \div b < M)
    BY <1>6, <1>12, <2>2 DEF DIV
  <2>3. QED
    BY <2>1, <2>2
<1>13. CASE IDIV(b)
  <2> DEFINE quo == Quotient(SignedPair, Signed(b))
             rem == Remainder(SignedPair, Signed(b))
  <2>1. CASE b # 0 /\ FitsSigned(quo)
    <3>1. Signed(b) \in Int \ {0}
      BY <2>1, SignedType, WidthFacts DEF Operand
    <3>2. quo \in Int /\ rem \in Int
      BY <3>1, PairType, QuotientType
    <3>3. Quotients(quo, rem)
      BY <1>13, <2>1 DEF IDIV
    <3>4. QED
      BY <1>7, <3>2, <3>3
  <2>2. CASE ~(b # 0 /\ FitsSigned(quo))
    BY <1>6, <1>13, <2>2 DEF IDIV
  <2>3. QED
    BY <2>1, <2>2
<1>14. QED
  BY <1>9, <1>10, <1>11, <1>12, <1>13

LEMMA TypesKept ==
  ASSUME TypeOK, Next
  PROVE  TypeOK'
<1>1. ASSUME NEW b \in Operand,
             \/ ADD(b) \/ SUB(b) \/ CMP(b)
             \/ \E ext \in {"ADC", "ADCX", "ADOX"} : ADXX(ext, b)
      PROVE  TypeOK'
  BY <1>1, SumsTyped
<1>2. ASSUME NEW b \in Operand, NEW cc \in Conditions, MOVcc(cc, b)
      PROVE  TypeOK'
  BY <1>2, MovesTyped
<1>3. ASSUME NEW b \in Operand, AND(b) \/ TEST(b) \/ OR(b) \/ XOR(b) \/ ANDN(b)
      PROVE  TypeOK'
  BY <1>3, LogicTyped
<1>4. ASSUME NEW b \in Operand,
             \/ \E ext \in {"BT", "BTS", "BTR", "BTC"} : BTx(ext, b)
             \/ \E forward \in BOOLEAN : BSx(forward, b)
             \/ TZCNT(b)
      PROVE  TypeOK'
  BY <1>4, BitsTyped
<1>5. ASSUME NEW b \in Operand, MUL(b) \/ UnaryIMUL(b) \/ BinaryIMUL(b) \/ DIV(b) \/ IDIV(b)
      PROVE  TypeOK'
  BY <1>5, ProductsTyped
<1>6. ASSUME NEW b \in Operand, MULX(b) \/ MOV(b)
      PROVE  TypeOK'
  BY <1>6, MovesTyped
<1>7. 0 \in Operand
  BY TypeKept
<1>8. ASSUME \/ \E cc \in Conditions : SETcc(cc)
             \/ FlagManip \/ NOT \/ Cxy \/ XCHG
      PROVE  TypeOK'
  BY <1>7, <1>8, MovesTyped
<1>9. ASSUME NEW n \in Counts,
             SHL(n) \/ SHR(n) \/ SAR(n) \/ ROL(n) \/ ROR(n) \/ RCL(n) \/ RCR(n)
      PROVE  TypeOK'
  BY <1>9, ShiftsTyped
<1>10. ASSUME NEW n \in Counts, NEW len \in Counts, BEXTR(n, len)
       PROVE  TypeOK'
  BY <1>7, <1>10, BitsTyped
<1>11. ASSUME INC \/ DEC \/ NEG \/ CMPZ
       PROVE  TypeOK'
  BY <1>7, <1>11, SumsTyped
<1>12. ASSUME BLSI \/ BLSMSK \/ BLSR
       PROVE  TypeOK'
  BY <1>7, <1>12, LogicTyped
<1>13. QED
  BY <1>1, <1>2, <1>3, <1>4, <1>5, <1>6, <1>8, <1>9, <1>10, <1>11, <1>12 DEF Next

(* Every instruction leaves operands in the registers, flags in the flags, *)
(* whatever Rand() draws, at every operand size.                           *)
THEOREM AluTypes == Spec => []TypeOK
<1>1. Init => TypeOK
  BY DEF Init, TypeOK, Flag
<1>2. TypeOK /\ [Next]_vars => TypeOK'
  <2>1. TypeOK /\ UNCHANGED vars => TypeOK'
    BY DEF vars, cpu, TypeOK, Operand, M, Flag
  <2>2. QED
    BY <2>1, TypesKept
<1>3. QED
  BY <1>1, <1>2, PTL DEF Spec


-----------------------------------------------------------------------------
(* Comparisons, wherever the client tests their flags.                     *)

LEMMA ZeroCompared ==
  ASSUME TypeOK, CMPZ
  PROVE  CompareDecides'
<1>1. compared' = <<lo, 0>> /\ Set(ZSP(lo), SumFlags, {}) /\ lo \in Operand /\ 0 \in Operand
  BY TypeKept DEF CMPZ
<1>2. /\ "CF" \in flags' <=> lo < 0
      /\ "ZF" \in flags' <=> lo = 0
      /\ ~("SF" \in flags' <=> "OF" \in flags') <=> Signed(lo) < Signed(0)
  <2>1. ZSP(lo) \in SUBSET SumFlags
    BY DEF ZSP, On, SumFlags, ZSPFlags
  <2>2. \A flag \in SumFlags : flag \in flags' <=> flag \in ZSP(lo)
    BY <1>1, <2>1, FlagsAfter
  <2>3. {"CF", "ZF", "SF", "OF"} \subseteq SumFlags
    BY DEF SumFlags, ZSPFlags
  <2>4. /\ "CF" \notin flags' /\ "OF" \notin flags'
        /\ "ZF" \in flags' <=> lo = 0
        /\ "SF" \in flags' <=> Negative(lo)
    BY <2>2, <2>3 DEF ZSP, On
  <2>5. Negative(lo) <=> Signed(lo) < Signed(0)
    <3>1. (Negative(lo) <=> lo >= Half) /\ (Negative(0) <=> 0 >= Half)
      BY <1>1, SignOf
    <3>2. Signed(lo) = (IF lo >= Half THEN lo - M ELSE lo) /\ Signed(0) = IF 0 >= Half THEN 0 - M ELSE 0
      BY <1>1, SignedType
    <3>3. lo \in 0 .. (M - 1) /\ M \in Nat /\ M >= 4 /\ Half \in Nat /\ M = 2 * Half
      BY <1>1, WidthFacts DEF Operand
    <3> HIDE DEF M, Half
    <3>4. QED
      BY <3>1, <3>2, <3>3
  <2>6. ~(lo < 0)
    BY <1>1 DEF Operand
  <2>7. QED
    BY <2>4, <2>5, <2>6
<1>3. QED
  BY <1>1, <1>2, Decides

(* Every instruction compares, keeps the flags of the last comparison, or  *)
(* forgets it.                                                             *)
LEMMA ComparesKeepsForgets ==
  ASSUME Next
  PROVE  \/ compared' = <<>>
         \/ flags' = flags /\ compared' = compared
         \/ \E b \in Operand : CMP(b) \/ SUB(b)
         \/ CMPZ
<1> DEFINE Goal == \/ compared' = <<>>
                   \/ flags' = flags /\ compared' = compared
                   \/ \E b \in Operand : CMP(b) \/ SUB(b)
                   \/ CMPZ
<1>1. ASSUME NEW b \in Operand,
             \/ ADD(b) \/ SUB(b) \/ CMP(b)
             \/ \E ext \in {"ADC", "ADCX", "ADOX"} : ADXX(ext, b)
             \/ \E cc \in Conditions : MOVcc(cc, b)
      PROVE  Goal
  BY <1>1 DEF ADD, ADXX, MOVcc, Keeps
<1>2. ASSUME NEW b \in Operand, AND(b) \/ TEST(b) \/ OR(b) \/ XOR(b) \/ ANDN(b)
      PROVE  Goal
  BY <1>2 DEF AND, TEST, OR, XOR, ANDN, Logic, BLS
<1>3. ASSUME NEW b \in Operand,
             \/ \E ext \in {"BT", "BTS", "BTR", "BTC"} : BTx(ext, b)
             \/ \E forward \in BOOLEAN : BSx(forward, b)
             \/ TZCNT(b)
      PROVE  Goal
  BY <1>3 DEF BTx, BSx, TZCNT
<1>4. ASSUME NEW b \in Operand,
             MUL(b) \/ MULX(b) \/ UnaryIMUL(b) \/ BinaryIMUL(b) \/ MOV(b)
      PROVE  Goal
  BY <1>4 DEF MUL, MULX, UnaryIMUL, BinaryIMUL, MOV, Product, Keeps
<1>5. ASSUME NEW b \in Operand, DIV(b) \/ IDIV(b)
      PROVE  Goal
  BY <1>5 DEF DIV, IDIV, Quotients, Fault, Trap
<1>6. ASSUME NEW n \in Counts, SHL(n) \/ SHR(n) \/ SAR(n)
      PROVE  Goal
  BY <1>6 DEF SHL, SHR, SAR, Shift, cpu
<1>7. ASSUME NEW n \in Counts, ROL(n) \/ ROR(n) \/ RCL(n) \/ RCR(n)
      PROVE  Goal
  BY <1>7 DEF ROL, ROR, RCL, RCR, Rotate, cpu
<1>8. ASSUME NEW n \in Counts, NEW len \in Counts, BEXTR(n, len)
      PROVE  Goal
  BY <1>8 DEF BEXTR
<1>9. ASSUME \/ \E cc \in Conditions : SETcc(cc)
             \/ FlagManip \/ NOT \/ Cxy \/ XCHG
      PROVE  Goal
  BY <1>9 DEF SETcc, FlagManip, NOT, Cxy, XCHG, Keeps
<1>10. ASSUME INC \/ DEC \/ NEG \/ CMPZ \/ BLSI \/ BLSMSK \/ BLSR
       PROVE  Goal
  BY <1>10 DEF INC, DEC, NEG, BLSI, BLSMSK, BLSR, BLS
<1> HIDE DEF Goal
<1>11. Goal
  BY <1>1, <1>2, <1>3, <1>4, <1>5, <1>6, <1>7, <1>8, <1>9, <1>10 DEF Next
<1>12. QED
  BY <1>11 DEF Goal

(* As long as a client has the flags of a comparison, every condition it   *)
(* tests orders the operands that were compared, at every operand size.    *)
THEOREM AluComparisons == Spec => []CompareDecides
<1>1. Init => CompareDecides
  BY DEF Init, CompareDecides
<1>2. TypeOK /\ CompareDecides /\ [Next]_vars => CompareDecides'
  <2> SUFFICES ASSUME TypeOK, CompareDecides, [Next]_vars
               PROVE  CompareDecides'
    OBVIOUS
  <2>1. CASE compared' = <<>>
    BY <2>1 DEF CompareDecides
  <2>2. CASE flags' = flags /\ compared' = compared
    BY <2>2 DEF CompareDecides
  <2>3. ASSUME NEW b \in Operand, CMP(b) \/ SUB(b)
        PROVE  CompareDecides'
    BY <2>3, ComparisonDecides DEF TypeOK
  <2>4. CASE CMPZ
    BY <2>4, ZeroCompared
  <2>5. CASE UNCHANGED vars
    BY <2>2, <2>5 DEF vars, cpu
  <2>6. QED
    BY <2>1, <2>2, <2>3, <2>4, <2>5, ComparesKeepsForgets
<1>3. QED
  BY <1>1, <1>2, AluTypes, PTL DEF Spec


-----------------------------------------------------------------------------
(* Which instruction a step was.                                           *)

Telling == {"ADD", "ADC", "SUB", "NEG", "INC", "DEC", "DIV", "IDIV", "ROL", "ROR", "RCL", "RCR"}

LEMMA Tells ==
  ASSUME Next
  PROVE  \/ op'[1] \notin Telling
         \/ \E b \in Operand :
              op'[2] = b /\ \/ op'[1] = "ADD" /\ ADD(b)
                            \/ op'[1] = "SUB" /\ SUB(b)
                            \/ op'[1] = "ADC" /\ ADXX("ADC", b)
                            \/ op'[1] = "DIV" /\ DIV(b)
                            \/ op'[1] = "IDIV" /\ IDIV(b)
         \/ op'[1] = "NEG" /\ NEG
         \/ op'[1] = "INC" /\ INC
         \/ op'[1] = "DEC" /\ DEC
         \/ \E n \in Counts :
              op'[2] = n /\ \/ op'[1] = "ROL" /\ ROL(n)
                            \/ op'[1] = "ROR" /\ ROR(n)
                            \/ op'[1] = "RCL" /\ RCL(n)
                            \/ op'[1] = "RCR" /\ RCR(n)
<1> DEFINE Sums == \E b \in Operand :
                     op'[2] = b /\ \/ op'[1] = "ADD" /\ ADD(b)
                                   \/ op'[1] = "SUB" /\ SUB(b)
                                   \/ op'[1] = "ADC" /\ ADXX("ADC", b)
                                   \/ op'[1] = "DIV" /\ DIV(b)
                                   \/ op'[1] = "IDIV" /\ IDIV(b)
           Ones == \/ op'[1] = "NEG" /\ NEG
                   \/ op'[1] = "INC" /\ INC
                   \/ op'[1] = "DEC" /\ DEC
           Rotates == \E n \in Counts :
                        op'[2] = n /\ \/ op'[1] = "ROL" /\ ROL(n)
                                      \/ op'[1] = "ROR" /\ ROR(n)
                                      \/ op'[1] = "RCL" /\ RCL(n)
                                      \/ op'[1] = "RCR" /\ RCR(n)
           Goal == op'[1] \notin Telling \/ Sums \/ Ones \/ Rotates
<1>1. ASSUME NEW b \in Operand, ADD(b) \/ SUB(b) \/ ADXX("ADC", b) \/ DIV(b) \/ IDIV(b)
      PROVE  Sums
  <2>1. CASE ADD(b)
    <3>1. op' = <<"ADD", b>>
      BY <2>1 DEF ADD, Runs
    <3>2. QED
      BY <2>1, <3>1
  <2>2. CASE SUB(b)
    <3>1. op' = <<"SUB", b>>
      BY <2>2 DEF SUB, Runs
    <3>2. QED
      BY <2>2, <3>1
  <2>3. CASE ADXX("ADC", b)
    <3>1. op' = <<"ADC", b>>
      BY <2>3 DEF ADXX, Runs
    <3>2. QED
      BY <2>3, <3>1
  <2>4. CASE DIV(b)
    <3>1. op' = <<"DIV", b>>
      BY <2>4 DEF DIV, Runs
    <3>2. QED
      BY <2>4, <3>1
  <2>5. CASE IDIV(b)
    <3>1. op' = <<"IDIV", b>>
      BY <2>5 DEF IDIV, Runs
    <3>2. QED
      BY <2>5, <3>1
  <2>6. QED
    BY <1>1, <2>1, <2>2, <2>3, <2>4, <2>5
<1>2. ASSUME NEW b \in Operand,
             \/ CMP(b) \/ ADXX("ADCX", b) \/ ADXX("ADOX", b)
             \/ \E cc \in Conditions : MOVcc(cc, b)
             \/ AND(b) \/ TEST(b) \/ OR(b) \/ XOR(b) \/ ANDN(b)
      PROVE  op'[1] \notin Telling
  <2>1. op'[1] \in {"CMP", "ADCX", "ADOX", "MOVcc", "AND", "TEST", "OR", "XOR", "ANDN"}
    BY <1>2 DEF CMP, ADXX, MOVcc, AND, TEST, OR, XOR, ANDN, BLS, Runs
  <2>2. QED
    BY <2>1 DEF Telling
<1>3. ASSUME NEW b \in Operand,
             \/ \E ext \in {"BT", "BTS", "BTR", "BTC"} : BTx(ext, b)
             \/ \E forward \in BOOLEAN : BSx(forward, b)
             \/ TZCNT(b)
             \/ MUL(b) \/ MULX(b) \/ UnaryIMUL(b) \/ BinaryIMUL(b) \/ MOV(b)
      PROVE  op'[1] \notin Telling
  <2>1. op'[1] \in {"BT", "BTS", "BTR", "BTC", "BSx", "TZCNT", "MUL", "MULX", "UnaryIMUL", "BinaryIMUL", "MOV"}
    BY <1>3 DEF BTx, BSx, TZCNT, MUL, MULX, UnaryIMUL, BinaryIMUL, MOV, Runs
  <2>2. QED
    BY <2>1 DEF Telling
<1>4. ASSUME NEW n \in Counts, ROL(n) \/ ROR(n) \/ RCL(n) \/ RCR(n)
      PROVE  Rotates
  <2>1. CASE ROL(n)
    <3>1. op' = <<"ROL", n>>
      BY <2>1 DEF ROL, Rotate, Runs
    <3>2. QED
      BY <2>1, <3>1
  <2>2. CASE ROR(n)
    <3>1. op' = <<"ROR", n>>
      BY <2>2 DEF ROR, Rotate, Runs
    <3>2. QED
      BY <2>2, <3>1
  <2>3. CASE RCL(n)
    <3>1. op' = <<"RCL", n>>
      BY <2>3 DEF RCL, Rotate, Runs
    <3>2. QED
      BY <2>3, <3>1
  <2>4. CASE RCR(n)
    <3>1. op' = <<"RCR", n>>
      BY <2>4 DEF RCR, Rotate, Runs
    <3>2. QED
      BY <2>4, <3>1
  <2>5. QED
    BY <1>4, <2>1, <2>2, <2>3, <2>4
<1>5. ASSUME NEW n \in Counts,
             SHL(n) \/ SHR(n) \/ SAR(n) \/ \E len \in Counts : BEXTR(n, len)
      PROVE  op'[1] \notin Telling
  <2>1. op'[1] \in {"SHL", "SHR", "SAR", "BEXTR"}
    BY <1>5 DEF SHL, SHR, SAR, Shift, BEXTR, Runs
  <2>2. QED
    BY <2>1 DEF Telling
<1>6. ASSUME \/ \E cc \in Conditions : SETcc(cc)
             \/ CMPZ \/ FlagManip \/ NOT \/ Cxy \/ XCHG
             \/ BLSI \/ BLSMSK \/ BLSR
      PROVE  op'[1] \notin Telling
  <2>1. op'[1] \in {"SETcc", "CMPZ", "FlagManip", "NOT", "Cxy", "XCHG", "BLSI", "BLSMSK", "BLSR"}
    BY <1>6 DEF SETcc, CMPZ, FlagManip, NOT, Cxy, XCHG, BLSI, BLSMSK, BLSR, BLS, Runs
  <2>2. QED
    BY <2>1 DEF Telling
<1>7. ASSUME NEG \/ INC \/ DEC
      PROVE  Ones
  BY <1>7 DEF NEG, INC, DEC, Runs
<1> HIDE DEF Sums, Ones, Rotates
<1>8. Goal
  <2>1. ASSUME NEW ext \in {"ADC", "ADCX", "ADOX"}
        PROVE  ext = "ADC" \/ ext = "ADCX" \/ ext = "ADOX"
    OBVIOUS
  <2>2. QED
    BY <1>1, <1>2, <1>3, <1>4, <1>5, <1>6, <1>7, <2>1 DEF Next
<1>9. QED
  BY <1>8 DEF Goal, Sums, Ones, Rotates

-----------------------------------------------------------------------------
(* One more, one less, and the negative.                                   *)

LEMMA IncrementExact ==
  ASSUME lo \in Operand, INC
  PROVE  SignedExact(Signed(lo) + 1)
<1> DEFINE res == Truncate(lo + 1)
           on == ZSP(res) \cup On("AF", res % Nibble = 0)
                 \cup On("OF", Positive(lo) /\ Negative(res))
<1>1. lo' = res /\ Set(on, SumFlags \ {"CF"}, {})
  BY DEF INC, Result
<1>2. "OF" \in flags' <=> Positive(lo) /\ Negative(res)
  <2>1. "OF" \in flags' <=> "OF" \in on
    <3> HIDE DEF on
    <3>1. "OF" \in SumFlags \ {"CF"}
      BY DEF SumFlags
    <3>2. QED
      BY <1>1, <3>1 DEF Set
  <2>2. "OF" \notin ZSP(res)
    BY DEF ZSP, On
  <2>3. QED
    BY <2>1, <2>2 DEF On
<1>3. lo \in 0 .. (M - 1) /\ M \in Nat /\ M >= 4 /\ Half \in Nat /\ M = 2 * Half
  BY WidthFacts DEF Operand
<1>4. res = IF lo = M - 1 THEN 0 ELSE lo + 1
  <2>1. lo + 1 \in (0 - M) .. (2 * M - 1)
    BY <1>3
  <2>2. QED
    BY <1>3, <2>1, Wraps
<1> HIDE DEF res
<1>5. res \in Operand
  BY <1>3, <1>4 DEF Operand
<1>6. (Negative(lo) <=> lo >= Half) /\ (Negative(res) <=> res >= Half)
  BY <1>5, SignOf
<1>7. Signed(lo) = (IF lo >= Half THEN lo - M ELSE lo) /\ Signed(res) = IF res >= Half THEN res - M ELSE res
  BY <1>5, SignedType
<1>8. Signed(res) = Signed(lo) + 1 <=> ~(Positive(lo) /\ Negative(res))
  <2> HIDE DEF M, Half
  <2>1. QED
    BY <1>3, <1>4, <1>6, <1>7 DEF Positive
<1>9. QED
  BY <1>1, <1>2, <1>8 DEF SignedExact

LEMMA DecrementExact ==
  ASSUME lo \in Operand, DEC
  PROVE  SignedExact(Signed(lo) - 1)
<1> DEFINE res == Truncate(lo - 1)
           on == ZSP(res) \cup On("AF", lo % Nibble = 0)
                 \cup On("OF", Negative(lo) /\ Positive(res))
<1>1. lo' = res /\ Set(on, SumFlags \ {"CF"}, {})
  BY DEF DEC, Result
<1>2. "OF" \in flags' <=> Negative(lo) /\ Positive(res)
  <2>1. "OF" \in flags' <=> "OF" \in on
    <3> HIDE DEF on
    <3>1. "OF" \in SumFlags \ {"CF"}
      BY DEF SumFlags
    <3>2. QED
      BY <1>1, <3>1 DEF Set
  <2>2. "OF" \notin ZSP(res)
    BY DEF ZSP, On
  <2>3. QED
    BY <2>1, <2>2 DEF On
<1>3. lo \in 0 .. (M - 1) /\ M \in Nat /\ M >= 4 /\ Half \in Nat /\ M = 2 * Half
  BY WidthFacts DEF Operand
<1>4. res = IF lo = 0 THEN M - 1 ELSE lo - 1
  <2>1. lo - 1 \in (0 - M) .. (2 * M - 1)
    BY <1>3
  <2>2. QED
    BY <1>3, <2>1, Wraps
<1> HIDE DEF res
<1>5. res \in Operand
  BY <1>3, <1>4 DEF Operand
<1>6. (Negative(lo) <=> lo >= Half) /\ (Negative(res) <=> res >= Half)
  BY <1>5, SignOf
<1>7. Signed(lo) = (IF lo >= Half THEN lo - M ELSE lo) /\ Signed(res) = IF res >= Half THEN res - M ELSE res
  BY <1>5, SignedType
<1>8. Signed(res) = Signed(lo) - 1 <=> ~(Negative(lo) /\ Positive(res))
  <2> HIDE DEF M, Half
  <2>1. QED
    BY <1>3, <1>4, <1>6, <1>7 DEF Positive
<1>9. QED
  BY <1>1, <1>2, <1>8 DEF SignedExact

LEMMA NegativeExact ==
  ASSUME lo \in Operand, NEG
  PROVE  lo' - M * Carry = 0 - lo /\ SignedExact(0 - Signed(lo))
<1> DEFINE res == Truncate(0 - lo)
           on == ZSP(res) \cup On("CF", 0 < lo) \cup On("AF", 0 < lo % Nibble)
                 \cup On("OF", Negative(lo) /\ Negative(res))
<1>1. lo' = res /\ Set(on, SumFlags, {})
  BY DEF NEG, Result
<1>2. /\ "OF" \in flags' <=> Negative(lo) /\ Negative(res)
      /\ "CF" \in flags' <=> 0 < lo
  <2>1. ("OF" \in flags' <=> "OF" \in on) /\ ("CF" \in flags' <=> "CF" \in on)
    <3> HIDE DEF on
    <3>1. "OF" \in SumFlags /\ "CF" \in SumFlags
      BY DEF SumFlags
    <3>2. QED
      BY <1>1, <3>1 DEF Set
  <2>2. "OF" \notin ZSP(res) /\ "CF" \notin ZSP(res)
    BY DEF ZSP, On
  <2>3. QED
    BY <2>1, <2>2 DEF On
<1>3. lo \in 0 .. (M - 1) /\ M \in Nat /\ M >= 4 /\ Half \in Nat /\ M = 2 * Half
  BY WidthFacts DEF Operand
<1>4. res = IF lo = 0 THEN 0 ELSE M - lo
  <2>1. 0 - lo \in (0 - M) .. (2 * M - 1)
    BY <1>3
  <2>2. QED
    BY <1>3, <2>1, Wraps
<1> HIDE DEF res
<1>5. res \in Operand
  BY <1>3, <1>4 DEF Operand
<1>6. (Negative(lo) <=> lo >= Half) /\ (Negative(res) <=> res >= Half)
  BY <1>5, SignOf
<1>7. Signed(lo) = (IF lo >= Half THEN lo - M ELSE lo) /\ Signed(res) = IF res >= Half THEN res - M ELSE res
  BY <1>5, SignedType
<1>8. Signed(res) = 0 - Signed(lo) <=> ~(Negative(lo) /\ Negative(res))
  <2> HIDE DEF M, Half
  <2>1. QED
    BY <1>3, <1>4, <1>6, <1>7
<1>9. lo' - M * Carry = 0 - lo
  BY <1>1, <1>2, <1>3, <1>4 DEF Carry
<1>10. QED
  BY <1>1, <1>2, <1>8, <1>9 DEF SignedExact

(* Every sum, difference, increment, decrement and negation is exact with  *)
(* the flags it leaves, at every operand size: as an unsigned number with  *)
(* its carry, as a signed one unless it says that it overflowed; ADC but   *)
(* for the one sum whose carry it loses.                                   *)
THEOREM AluSums == Spec => SumsExact
<1> DEFINE A == /\ Did = "ADD" => lo' + M * Carry = lo + Source
                                  /\ SignedExact(Signed(lo) + Signed(Source))
                /\ Did = "ADC" => /\ Source + CarryIn # M => lo' + M * Carry = lo + Source + CarryIn
                                  /\ SignedExact(Signed(lo) + Signed(Source) + CarryIn)
                /\ Did = "SUB" => lo' - M * Carry = lo - Source
                                  /\ SignedExact(Signed(lo) - Signed(Source))
                /\ Did = "NEG" => lo' - M * Carry = 0 - lo /\ SignedExact(0 - Signed(lo))
                /\ Did = "INC" => SignedExact(Signed(lo) + 1)
                /\ Did = "DEC" => SignedExact(Signed(lo) - 1)
<1>1. TypeOK /\ [Next]_vars => [A]_vars
  <2> SUFFICES ASSUME TypeOK, Next PROVE A
    OBVIOUS
  <2>0. lo \in Operand
    BY DEF TypeOK
  <2> USE DEF Did, Source
  <2>1. CASE op'[1] \notin Telling
    BY <2>1 DEF Telling
  <2>2. ASSUME NEW b \in Operand, op'[2] = b,
               \/ op'[1] = "ADD" /\ ADD(b)
               \/ op'[1] = "SUB" /\ SUB(b)
               \/ op'[1] = "ADC" /\ ADXX("ADC", b)
               \/ op'[1] = "DIV" /\ DIV(b)
               \/ op'[1] = "IDIV" /\ IDIV(b)
        PROVE  A
    <3>1. CASE op'[1] = "ADD" /\ ADD(b)
      <4>1. /\ lo' + M * Carry = lo + b
            /\ SignedExact(Signed(lo) + Signed(b))
        BY <2>0, <3>1, AdditionExact
      <4>2. QED
        BY <2>2, <3>1, <4>1
    <3>2. CASE op'[1] = "SUB" /\ SUB(b)
      <4>1. /\ lo' - M * Carry = lo - b
            /\ SignedExact(Signed(lo) - Signed(b))
        BY <2>0, <3>2, SubtractionExact
      <4>2. QED
        BY <2>2, <3>2, <4>1
    <3>3. CASE op'[1] = "ADC" /\ ADXX("ADC", b)
      <4>1. /\ b + CarryIn # M => lo' + M * Carry = lo + b + CarryIn
            /\ SignedExact(Signed(lo) + Signed(b) + CarryIn)
        BY <2>0, <3>3, AdditionWithCarryExact
      <4>2. QED
        BY <2>2, <3>3, <4>1
    <3>4. CASE op'[1] = "DIV" \/ op'[1] = "IDIV"
      BY <3>4
    <3>5. QED
      BY <2>2, <3>1, <3>2, <3>3, <3>4
  <2>3. CASE op'[1] = "NEG" /\ NEG
    BY <2>0, <2>3, NegativeExact
  <2>4. CASE op'[1] = "INC" /\ INC
    BY <2>0, <2>4, IncrementExact
  <2>5. CASE op'[1] = "DEC" /\ DEC
    BY <2>0, <2>5, DecrementExact
  <2>6. CASE op'[1] \in {"ROL", "ROR", "RCL", "RCR"}
    BY <2>6
  <2> HIDE DEF A
  <2>7. QED
    BY <2>1, <2>2, <2>3, <2>4, <2>5, <2>6, Tells
<1>2. QED
  BY <1>1, AluTypes, PTL DEF Spec, SumsExact


-----------------------------------------------------------------------------
(* Division.                                                               *)

LEMMA MagnitudeOf ==
  ASSUME NEW x \in Int
  PROVE  /\ Magnitude(x) \in Nat
         /\ Magnitude(x) = IF x < 0 THEN -x ELSE x
BY DEF Magnitude

(* Division truncates toward zero: the remainder is less than the divisor  *)
(* and has the sign of the dividend.                                       *)
LEMMA QuotientFacts ==
  ASSUME NEW x \in Int, NEW y \in Int \ {0}
  PROVE  /\ x = Quotient(x, y) * y + Remainder(x, y)
         /\ Magnitude(Remainder(x, y)) < Magnitude(y)
         /\ Remainder(x, y) # 0 => (Remainder(x, y) < 0) = (x < 0)
<1> DEFINE a == Magnitude(x)
           c == Magnitude(y)
           k == a \div c
           m == a % c
           q == Quotient(x, y)
           r == Remainder(x, y)
<1>1. /\ a \in Nat /\ c \in Nat \ {0}
      /\ a = (IF x < 0 THEN -x ELSE x) /\ c = IF y < 0 THEN -y ELSE y
  BY MagnitudeOf
<1>2. k \in Int /\ m \in 0 .. (c - 1) /\ a = m + k * c
  <2>1. a \in Int /\ c \in Nat \ {0}
    BY <1>1
  <2> HIDE DEF a, c
  <2>2. QED
    BY <2>1, DivisionOf
<1>3. q = IF (x < 0) = (y < 0) THEN k ELSE -k
  BY DEF Quotient
<1>4. r = x - y * q
  BY DEF Remainder
<1>5. q \in Int /\ r \in Int
  BY QuotientType
<1>6. Magnitude(r) = IF r < 0 THEN -r ELSE r
  BY <1>5, MagnitudeOf
<1> HIDE DEF a, c, k, m, q, r
<1>7. y * q = (IF x < 0 THEN -(k * c) ELSE k * c) /\ k * c \in Int
  <2>1. CASE x < 0 /\ y < 0
    BY <1>1, <1>2, <1>3, <2>1, Z3
  <2>2. CASE x < 0 /\ ~(y < 0)
    BY <1>1, <1>2, <1>3, <2>2, Z3
  <2>3. CASE ~(x < 0) /\ y < 0
    BY <1>1, <1>2, <1>3, <2>3, Z3
  <2>4. CASE ~(x < 0) /\ ~(y < 0)
    BY <1>1, <1>2, <1>3, <2>4, Z3
  <2>5. QED
    BY <2>1, <2>2, <2>3, <2>4
<1>8. r = IF x < 0 THEN -m ELSE m
  BY <1>1, <1>2, <1>4, <1>7
<1>9. Magnitude(r) < c
  BY <1>2, <1>6, <1>8, <1>1
<1>10. r # 0 => (r < 0) = (x < 0)
  BY <1>2, <1>8, <1>1
<1>11. q * y = y * q
  BY <1>5
<1>12. x = q * y + r
  BY <1>4, <1>5, <1>7, <1>11
<1>13. QED
  BY <1>9, <1>10, <1>12 DEF c, q, r

LEMMA QuotientUnique ==
  ASSUME NEW x \in Int, NEW y \in Int \ {0}, NEW q \in Int, NEW r \in Int,
         x = q * y + r, Magnitude(r) < Magnitude(y), r # 0 => (r < 0) = (x < 0)
  PROVE  q = Quotient(x, y)
<1> DEFINE a == Magnitude(x)
           c == Magnitude(y)
           k == a \div c
           j == IF y < 0 THEN -q ELSE q
<1>1. /\ a \in Nat /\ c \in Nat \ {0}
      /\ a = (IF x < 0 THEN -x ELSE x) /\ c = IF y < 0 THEN -y ELSE y
  BY MagnitudeOf
<1>2. Magnitude(r) = IF r < 0 THEN -r ELSE r
  BY MagnitudeOf
<1>3. Quotient(x, y) = IF (x < 0) = (y < 0) THEN k ELSE -k
  BY DEF Quotient
<1>4. j \in Int
  OBVIOUS
<1>5. q * y = j * c /\ j * c \in Int
  <2>1. CASE y < 0
    BY <1>1, <2>1, Z3
  <2>2. CASE ~(y < 0)
    BY <1>1, <2>2, Z3
  <2>3. QED
    BY <2>1, <2>2
<1>6. c > Magnitude(r)
  BY <1>1, <1>2
<1>7. CASE x < 0
  <2> DEFINE h == -r
             z == -j
  <2>1. h \in 0 .. (c - 1) /\ z \in Int
    <3> HIDE DEF c, j
    <3>1. QED
      BY <1>1, <1>2, <1>4, <1>6, <1>7
  <2>2. a = h + z * c
    <3>1. z * c = -(j * c)
      <4> HIDE DEF j, c
      <4>1. QED
        BY <1>1, <1>4, Z3
    <3> HIDE DEF a, c, j, z
    <3>2. QED
      BY <1>1, <1>5, <1>7, <3>1
  <2>3. k = z
    <3> HIDE DEF a, c, h, z
    <3>1. (h + z * c) \div c = z
      BY <1>1, <2>1, DivisionOfSum
    <3>2. QED
      BY <2>2, <3>1
  <2> HIDE DEF k
  <2>4. QED
    BY <1>3, <1>7, <2>3
<1>8. CASE ~(x < 0)
  <2>1. r \in 0 .. (c - 1)
    <3> HIDE DEF c
    <3>1. QED
      BY <1>1, <1>2, <1>6, <1>8
  <2>2. a = r + j * c
    <3> HIDE DEF a, c, j
    <3>1. QED
      BY <1>1, <1>5, <1>8
  <2>3. k = j
    <3> HIDE DEF a, c, j
    <3>1. (r + j * c) \div c = j
      BY <1>1, <1>4, <2>1, DivisionOfSum
    <3>2. QED
      BY <2>2, <3>1
  <2> HIDE DEF k
  <2>4. QED
    BY <1>3, <1>8, <2>3
<1>9. QED
  BY <1>7, <1>8

(* What a signed number keeps when it is stored in an operand.             *)
LEMMA StoredSigned ==
  ASSUME NEW x \in (0 - Half) .. (Half - 1)
  PROVE  Signed(Truncate(x)) = x
<1>1. M \in Nat /\ M >= 4 /\ Half \in Nat /\ M = 2 * Half /\ x \in Int
  BY WidthFacts
<1>2. Truncate(x) = IF x < 0 THEN x + M ELSE x
  <2>1. x \in (0 - M) .. (2 * M - 1) /\ x < M
    <3> HIDE DEF M, Half
    <3>1. QED
      BY <1>1
  <2>2. QED
    BY <2>1, Wraps
<1> DEFINE v == Truncate(x)
<1>3. v \in Operand
  BY <1>1, TruncateType
<1>4. Signed(v) = IF v >= Half THEN v - M ELSE v
  BY <1>3, SignedType
<1> HIDE DEF v, M, Half
<1>5. Signed(v) = x
  BY <1>1, <1>2, <1>4 DEF v
<1>6. QED
  BY <1>5 DEF v

LEMMA Stored ==
  ASSUME NEW x \in Operand
  PROVE  Truncate(x) = x
<1>1. x \in 0 .. (M - 1) /\ M \in Nat /\ M >= 4
  BY WidthFacts DEF Operand
<1>2. x \in (0 - M) .. (2 * M - 1) /\ x < M /\ ~(x < 0)
  <2> HIDE DEF M
  <2>1. QED
    BY <1>1
<1>3. QED
  BY <1>2, Wraps

LEMMA UnsignedDivision ==
  ASSUME TypeOK, NEW b \in Operand, DIV(b)
  PROVE  IF error' = "None" THEN Pair = lo' * b + hi' /\ hi' < b
         ELSE \A q \in Operand : Pair \notin (q * b) .. ((q + 1) * b - 1)
<1> DEFINE quo == Pair \div b
           rem == Pair % b
<1>1. Pair \in Nat /\ b \in Nat /\ b \in 0 .. (M - 1) /\ M \in Nat /\ error = "None"
  BY PairType, WidthFacts DEF Operand, DIV, Runs
<1>2. CASE b # 0 /\ quo < M
  <2>1. quo \in Nat /\ rem \in 0 .. (b - 1) /\ Pair = rem + quo * b
    <3> HIDE DEF Pair
    <3>1. b \in Nat \ {0}
      BY <1>1, <1>2
    <3>2. quo \in 0 .. Pair
      BY <1>1, <3>1, QuotientBounds
    <3>3. QED
      BY <1>1, <3>1, <3>2, DivisionOf
  <2>2. lo' = Truncate(quo) /\ hi' = Truncate(rem) /\ error' = error
    BY <1>2 DEF DIV, Quotients
  <2> HIDE DEF quo, rem, Pair
  <2>3. quo \in Operand /\ rem \in Operand
    <3> HIDE DEF M
    <3>1. QED
      BY <1>1, <1>2, <2>1 DEF Operand
  <2>4. lo' = quo /\ hi' = rem
    BY <2>2, <2>3, Stored
  <2>5. quo * b \in Int
    BY <1>1, <2>1
  <2>6. Pair = lo' * b + hi' /\ hi' < b
    BY <1>1, <2>1, <2>4, <2>5
  <2>7. QED
    BY <1>1, <2>2, <2>6
<1>3. CASE ~(b # 0 /\ quo < M)
  <2>1. error' = "ArithmeticError"
    BY <1>3 DEF DIV, Fault
  <2>2. ASSUME NEW q \in Operand, Pair \in (q * b) .. ((q + 1) * b - 1)
        PROVE  FALSE
    <3>1. q \in 0 .. (M - 1) /\ q \in Int
      BY DEF Operand
    <3> HIDE DEF Pair, M
    <3>2. (q + 1) * b = q * b + b /\ q * b \in Int
      BY <1>1, <3>1, Z3
    <3>3. b # 0
      BY <1>1, <2>2, <3>2
    <3> DEFINE h == Pair - q * b
    <3>4. h \in 0 .. (b - 1) /\ Pair = h + q * b
      BY <1>1, <2>2, <3>2
    <3> HIDE DEF h
    <3>5. (h + q * b) \div b = q
      BY <1>1, <3>1, <3>3, <3>4, DivisionOfSum
    <3>6. quo = q
      BY <3>4, <3>5
    <3> HIDE DEF quo
    <3>7. QED
      BY <1>1, <1>3, <3>1, <3>3, <3>6
  <2>3. QED
    BY <2>1, <2>2
<1>4. QED
  BY <1>2, <1>3

LEMMA SignedDivision ==
  ASSUME TypeOK, NEW b \in Operand, op'[2] = b, IDIV(b)
  PROVE  IF error' = "None" THEN Divides(Signed(lo'), Signed(hi'))
         ELSE \A q \in (0 - Half) .. (Half - 1) : ~Divides(q, SignedPair - q * Signed(Source))
<1> DEFINE x == SignedPair
           y == Signed(b)
           quo == Quotient(x, y)
           rem == Remainder(x, y)
<1>1. x \in Int /\ y \in (0 - Half) .. (Half - 1) /\ y \in Int /\ Half \in Nat /\ error = "None"
      /\ Source = b
  BY PairType, SignedType, WidthFacts DEF IDIV, Runs, Source
<1>2. y = 0 <=> b = 0
  <2>1. y = (IF b >= Half THEN b - M ELSE b) /\ b \in 0 .. (M - 1) /\ M \in Nat /\ M = 2 * Half
        /\ M >= 4
    BY SignedType, WidthFacts DEF Operand
  <2> HIDE DEF y, M, Half
  <2>2. QED
    BY <1>1, <2>1
<1>3. CASE b # 0 /\ FitsSigned(quo)
  <2>1. /\ x = quo * y + rem
        /\ Magnitude(rem) < Magnitude(y)
        /\ rem # 0 => (rem < 0) = (x < 0)
    BY <1>1, <1>2, <1>3, QuotientFacts
  <2>2. lo' = Truncate(quo) /\ hi' = Truncate(rem) /\ error' = error
    BY <1>3 DEF IDIV, Quotients
  <2>3. quo \in (0 - Half) .. (Half - 1) /\ rem \in Int
    BY <1>1, <1>2, <1>3, QuotientType DEF FitsSigned
  <2>4. rem \in (0 - Half) .. (Half - 1)
    <3>1. Magnitude(rem) = (IF rem < 0 THEN -rem ELSE rem) /\ Magnitude(y) = IF y < 0 THEN -y ELSE y
      BY <1>1, <2>3, MagnitudeOf
    <3> HIDE DEF rem, y, Half
    <3>2. QED
      BY <1>1, <2>1, <2>3, <3>1
  <2> HIDE DEF quo, rem
  <2>5. Signed(lo') = quo /\ Signed(hi') = rem
    BY <2>2, <2>3, <2>4, StoredSigned
  <2>6. Divides(quo, rem)
    BY <1>1, <2>1 DEF Divides
  <2>7. QED
    BY <1>1, <2>2, <2>5, <2>6
<1>4. CASE ~(b # 0 /\ FitsSigned(quo))
  <2>1. error' # "None"
    BY <1>4 DEF IDIV, Fault, Trap
  <2>2. ASSUME NEW q \in (0 - Half) .. (Half - 1), Divides(q, x - q * y)
        PROVE  FALSE
    <3> DEFINE r == x - q * y
    <3>1. q \in Int /\ q * y \in Int /\ r \in Int
      <4>1. q \in Int
        BY <1>1
      <4> HIDE DEF x, y
      <4>2. QED
        BY <1>1, <4>1
    <3>2. x = q * y + r /\ Magnitude(r) < Magnitude(y) /\ (r # 0 => (r < 0) = (x < 0))
      BY <1>1, <2>2 DEF Divides
    <3> HIDE DEF x, r
    <3>3. y # 0
      <4>1. CASE y = 0
        <5>1. Magnitude(0) = 0 /\ Magnitude(r) \in Nat
          BY <3>1, MagnitudeOf
        <5>2. QED
          BY <3>2, <4>1, <5>1
      <4>2. QED
        BY <4>1
    <3>4. q = quo
      <4> HIDE DEF y
      <4>1. q = Quotient(x, y)
        BY <1>1, <3>1, <3>2, <3>3, QuotientUnique
      <4>2. QED
        BY <4>1
    <3>5. FitsSigned(quo)
      BY <2>2, <3>4 DEF FitsSigned
    <3>6. QED
      BY <1>2, <1>4, <3>3, <3>5
  <2>3. QED
    BY <1>1, <2>1, <2>2
<1>5. QED
  BY <1>3, <1>4

(* A division leaves the quotient and the remainder of the whole pair, the *)
(* remainder with the sign of the dividend, or an error exactly when there *)
(* is no quotient of the operand's size, at every operand size.            *)
THEOREM AluDivisions == Spec => DivisionExact
<1> DEFINE A == /\ Did = "DIV" =>
                     IF error' = "None" THEN Pair = lo' * Source + hi' /\ hi' < Source
                     ELSE \A q \in Operand : Pair \notin (q * Source) .. ((q + 1) * Source - 1)
                /\ Did = "IDIV" =>
                     IF error' = "None" THEN Divides(Signed(lo'), Signed(hi'))
                     ELSE \A q \in (0 - Half) .. (Half - 1) :
                            ~Divides(q, SignedPair - q * Signed(Source))
<1>1. TypeOK /\ [Next]_vars => [A]_vars
  <2> SUFFICES ASSUME TypeOK, Next PROVE A
    OBVIOUS
  <2>1. CASE op'[1] \notin {"DIV", "IDIV"}
    BY <2>1 DEF Did
  <2>2. ASSUME NEW b \in Operand, op'[2] = b, op'[1] = "DIV", DIV(b)
        PROVE  A
    BY <2>2, UnsignedDivision DEF Did, Source
  <2>3. ASSUME NEW b \in Operand, op'[2] = b, op'[1] = "IDIV", IDIV(b)
        PROVE  A
    BY <2>3, SignedDivision DEF Did
  <2>4. op'[1] \in {"DIV", "IDIV"} => op'[1] \in Telling
    BY DEF Telling
  <2> HIDE DEF A
  <2>5. QED
    BY <2>1, <2>2, <2>3, <2>4, Tells
<1>2. QED
  BY <1>1, AluTypes, PTL DEF Spec, DivisionExact


-----------------------------------------------------------------------------
(* Bits of words that are made of two parts.                               *)

LEMMA TwoSum ==
  ASSUME NEW i \in Nat, NEW j \in Nat, i + j <= MaxBits
  PROVE  Two[i + j] = Two[i] * Two[j]
<1> DEFINE x == Two[i]
           G == {k \in 0 .. j : Two[i + k] = x * Two[k]}
<1>1. MaxBits \in Nat /\ i \in 0 .. MaxBits /\ x \in Nat
  BY TwoPowers
<1> HIDE DEF x
<1>2. 0 \in G
  <2>1. Two[0] = 1 /\ i + 0 = i /\ x * 1 = x
    BY <1>1, TwoPowers DEF IsPowers
  <2>2. QED
    BY <2>1 DEF x
<1>3. ASSUME NEW k \in 0 .. (j - 1), k \in G
      PROVE  k + 1 \in G
  <2> DEFINE y == Two[k]
  <2>1. i + k \in 0 .. (MaxBits - 1) /\ k \in 0 .. (MaxBits - 1) /\ i + (k + 1) = (i + k) + 1
        /\ k + 1 \in 0 .. j /\ k \in 0 .. MaxBits
    BY <1>1
  <2>2. Two[(i + k) + 1] = 2 * Two[i + k] /\ Two[k + 1] = 2 * y
    BY <2>1, TwoPowers DEF IsPowers
  <2>3. y \in Nat /\ Two[i + k] = x * y
    BY <1>3, <2>1, TwoPowers
  <2> HIDE DEF y
  <2>4. 2 * (x * y) = x * (2 * y)
    BY <1>1, <2>3, Z3
  <2>5. Two[i + (k + 1)] = x * Two[k + 1]
    BY <2>1, <2>2, <2>3, <2>4
  <2>6. QED
    BY <2>1, <2>5
<1> HIDE DEF G
<1>4. j \in G
  BY <1>2, <1>3, InductTo
<1>5. QED
  BY <1>4 DEF G, x

(* A multiple of p leaves what is divided by p.                            *)
LEMMA DividedPart ==
  ASSUME NEW p \in Nat \ {0}, NEW r \in Int, NEW z \in Int
  PROVE  (r + z * p) \div p = (r \div p) + z
<1> DEFINE h == r % p
           k == r \div p
<1>1. k \in Int /\ h \in 0 .. (p - 1) /\ r = h + k * p
  BY DivisionOf
<1> HIDE DEF h, k
<1> DEFINE w == k + z
<1>2. r + z * p = h + w * p /\ w \in Int
  BY <1>1, Z3
<1> HIDE DEF w
<1>3. (h + w * p) \div p = w
  BY <1>1, <1>2, DivisionOfSum
<1>4. QED
  BY <1>2, <1>3 DEF k, w

Bit(v, i) == (v \div Two[i]) % 2

LEMMA LowBit ==
  ASSUME NEW m \in 0 .. MaxBits, NEW i \in Nat, i < m, NEW r \in Int, NEW k \in Int
  PROVE  Bit(r + k * Two[m], i) = Bit(r, i)
<1> DEFINE d == (m - 1) - i
           x == Two[i]
           y == Two[d]
           z == 2 * (k * y)
           a == r \div x
<1>1. /\ d \in Nat /\ i + d = m - 1 /\ m - 1 \in 0 .. (MaxBits - 1) /\ (m - 1) + 1 = m
      /\ i \in 0 .. MaxBits /\ d \in 0 .. MaxBits /\ i + d <= MaxBits
  BY TwoPowers
<1>2. Two[m] = 2 * Two[i + d]
  BY <1>1, TwoPowers DEF IsPowers
<1>3. Two[i + d] = x * y
  BY <1>1, TwoSum
<1>4. x \in Nat \ {0} /\ y \in Nat \ {0}
  BY <1>1, TwoPowers
<1> HIDE DEF x, y, d
<1>5. k * Two[m] = z * x /\ z \in Int /\ k * y \in Int
  <2>1. k * (2 * (x * y)) = (2 * (k * y)) * x
    BY <1>4, Z3
  <2>2. QED
    BY <1>2, <1>3, <1>4, <2>1
<1>6. a \in Int
  BY <1>4, DivisionOf
<1> DEFINE t == k * y
<1>7. (r + z * x) \div x = a + z
  <2> HIDE DEF z
  <2>1. QED
    BY <1>4, <1>5, DividedPart
<1>8. z = 2 * t /\ t \in Int
  BY <1>5
<1> HIDE DEF a, z, t
<1>9. (a + 2 * t) % 2 = a % 2
  BY <1>6, <1>8, Z3
<1>10. Bit(r + k * Two[m], i) = ((r + z * x) \div x) % 2
  BY <1>5, Zenon DEF Bit, x
<1>11. Bit(r, i) = a % 2
  BY Zenon DEF Bit, x, a
<1>12. QED
  BY <1>7, <1>8, <1>9, <1>10, <1>11, Zenon

LEMMA HighBit ==
  ASSUME NEW m \in Nat, NEW i \in Nat, m + i <= MaxBits, NEW r \in 0 .. (Two[m] - 1), NEW k \in Int
  PROVE  Bit(r + k * Two[m], m + i) = Bit(k, i)
<1> DEFINE p == Two[m]
           b == Two[i]
           v == r + k * p
<1>1. m \in 0 .. MaxBits /\ i \in 0 .. MaxBits /\ i + m = m + i /\ i + m <= MaxBits
  BY TwoPowers
<1>2. p \in Nat \ {0} /\ b \in Nat \ {0}
  BY <1>1, TwoPowers
<1>3. Two[m + i] = b * p
  BY <1>1, TwoSum
<1> HIDE DEF p, b
<1>4. r \in 0 .. (p - 1)
  BY DEF p
<1>5. v \div p = k
  BY <1>2, <1>4, DivisionOfSum
<1>6. v \in Int
  BY <1>2, <1>4
<1> HIDE DEF v
<1>7. v \div (b * p) = (v \div p) \div b
  BY <1>2, <1>6, DivisionTwice
<1>8. QED
  BY <1>3, <1>5, <1>7 DEF Bit, b, p, v

LEMMA BitIn ==
  ASSUME NEW v, NEW i
  PROVE  i \in BitsOf(v) <=> i \in 0 .. (Bits - 1) /\ Bit(v, i) = 1
BY DEF BitsOf, Bit

-----------------------------------------------------------------------------
(* Rotates.                                                                *)

LEMMA SameRemainder ==
  ASSUME NEW N \in Nat \ {0}, NEW a \in Int, NEW n \in Int
  PROVE  (a + (n % N)) % N = (a + n) % N
<1> DEFINE h == n % N
           k == n \div N
           s == a + h
           r == s % N
           q == s \div N
<1>1. h \in 0 .. (N - 1) /\ k \in Int /\ n = h + k * N
  BY DivisionOf
<1> HIDE DEF h, k
<1>2. s \in Int
  BY <1>1
<1> HIDE DEF s
<1>3. r \in 0 .. (N - 1) /\ q \in Int /\ s = r + q * N
  BY <1>2, DivisionOf
<1> HIDE DEF r, q
<1> DEFINE w == q + k
<1>4. a + n = r + w * N /\ w \in Int
  BY <1>1, <1>3, Z3 DEF s
<1> HIDE DEF w
<1>5. (r + w * N) % N = r
  BY <1>3, <1>4, DivisionOfSum
<1>6. QED
  BY <1>4, <1>5 DEF r, s, h

LEMMA SmallRemainder ==
  ASSUME NEW N \in Nat \ {0}, NEW a \in 0 .. (2 * N - 1)
  PROVE  a % N = IF a < N THEN a ELSE a - N
<1>1. CASE a < N
  BY <1>1
<1>2. CASE ~(a < N)
  <2> DEFINE h == a - N
  <2>1. h \in 0 .. (N - 1) /\ a = h + 1 * N /\ 1 \in Int
    BY <1>2
  <2> HIDE DEF h
  <2>2. (h + 1 * N) % N = h
    BY <2>1, DivisionOfSum
  <2>3. QED
    BY <1>2, <2>1, <2>2 DEF h
<1>3. QED
  BY <1>1, <1>2

(* Turning twice, and turning by a count taken modulo the ring.            *)
Turns(S, m, n, k, N) ==
  N \in Nat \ {0} /\ S \subseteq Int /\ m \in Int /\ n \in Int /\ k \in Int /\ k = m + n

LEMMA TurnedTwice ==
  ASSUME NEW S, NEW m, NEW n, NEW k, NEW N, Turns(S, m, n, k, N)
  PROVE  Turned(Turned(S, m, N), n, N) = Turned(S, k, N)
<1> USE DEF Turns
<1>1. ASSUME NEW i \in S
      PROVE  (((i + m) % N) + n) % N = (i + k) % N
  <2>1. i \in Int /\ i + m \in Int /\ (i + m) + n = i + k /\ n + (i + m) = i + k
    OBVIOUS
  <2> DEFINE a == i + m
  <2> HIDE DEF a
  <2>2. (n + (a % N)) % N = (n + a) % N
    BY <2>1, SameRemainder DEF a
  <2>3. a % N \in Int
    BY <2>1, DivisionOf DEF a
  <2>4. n + (a % N) = (a % N) + n
    BY <2>3
  <2>5. QED
    BY <2>1, <2>2, <2>4 DEF a
<1>2. QED
  BY <1>1 DEF Turned

LEMMA TurnedCount ==
  ASSUME NEW N \in Nat \ {0}, NEW S, S \subseteq Int, NEW n \in Int
  PROVE  Turned(S, n % N, N) = Turned(S, n, N)
<1>1. \A i \in S : (i + (n % N)) % N = (i + n) % N
  BY SameRemainder
<1>2. QED
  BY <1>1 DEF Turned

LEMMA TurnedNot ==
  ASSUME NEW N \in Nat \ {0}, NEW S, S \subseteq 0 .. (N - 1), NEW n \in Int, n % N = 0
  PROVE  Turned(S, n, N) = S
<1>1. ASSUME NEW i \in S
      PROVE  (i + n) % N = i
  <2>1. i \in Int /\ i \in 0 .. (N - 1) /\ i + 0 = i
    OBVIOUS
  <2>2. (i + (n % N)) % N = (i + n) % N
    BY <2>1, SameRemainder
  <2>3. i % N = i
    BY <2>1
  <2>4. QED
    BY <2>1, <2>2, <2>3
<1>2. QED
  BY <1>1 DEF Turned


(* The two parts of an operand, the other way around.                      *)
LEMMA RotatedBits ==
  ASSUME NEW v \in Operand, NEW c \in 1 .. (Bits - 1)
  PROVE  BitsOf(Truncate(v * Two[c] + v \div Two[Bits - c])) = Turned(BitsOf(v), c, Bits)
<1> DEFINE d == Bits - c
           p == Two[c]
           q == Two[d]
           r == v % q
           k == v \div q
           res == k + r * p
<1>1. /\ Bits \in Nat /\ Bits \in Nat \ {0} /\ Bits \in 0 .. MaxBits /\ c \in Nat /\ d \in Nat /\ d + c = Bits /\ c + d = Bits
      /\ c \in 0 .. MaxBits /\ d \in 0 .. MaxBits /\ c + d <= MaxBits /\ c < Bits /\ c >= 1 /\ d >= 1
  BY TwoPowers
<1>2. p \in Nat \ {0} /\ q \in Nat \ {0}
  BY <1>1, TwoPowers
<1>3. M = p * q
  BY <1>1, TwoSum DEF M
<1>4. v \in Nat /\ v \in 0 .. (M - 1) /\ v \in Int
  BY DEF Operand
<1> HIDE DEF p, q, d
<1>5. r \in 0 .. (q - 1) /\ k \in Int /\ v = r + k * q
  BY <1>2, <1>4, DivisionOf
<1>6. k \in 0 .. (p - 1)
  <2>1. k \in 0 .. v
    BY <1>2, <1>4, QuotientBounds
  <2> HIDE DEF r, k
  <2>2. ASSUME k >= p PROVE FALSE
    <3>1. k * q >= p * q /\ k * q \in Int /\ p * q \in Int
      BY <1>2, <1>5, <2>2, Z3
    <3> HIDE DEF M
    <3>2. QED
      BY <1>3, <1>4, <1>5, <3>1
  <2>3. QED
    BY <1>2, <1>5, <2>1, <2>2
<1> HIDE DEF r, k
<1>7. Truncate(v * p + k) = res
  <2>1. v * p + k = res + k * (p * q)
    <3>1. (r + k * q) * p + k = (k + r * p) + k * (p * q)
      BY <1>2, <1>5, <1>6, Z3
    <3>2. QED
      BY <1>5, <3>1
  <2>2. res \in 0 .. (p * q - 1)
    <3>1. r * p <= (q - 1) * p /\ 0 <= r * p /\ (q - 1) * p = p * q - p /\ r * p \in Int /\ p * q \in Int
      BY <1>2, <1>5, Z3
    <3>2. QED
      BY <1>2, <1>6, <3>1
  <2>3. p * q \in Nat \ {0}
    BY <1>2
  <2> HIDE DEF res
  <2> DEFINE n == p * q
  <2> HIDE DEF n
  <2>4. (res + k * n) % n = res
    BY <1>6, <2>2, <2>3, DivisionOfSum DEF n
  <2>5. QED
    BY <1>3, <2>1, <2>4 DEF n, Truncate
<1>8. ASSUME NEW j \in 0 .. (c - 1)
      PROVE  Bit(res, j) = Bit(v, j + d)
  <2>1. j \in Nat /\ j < c /\ d + j <= MaxBits /\ r \in Int /\ k \in Int /\ d + j = j + d
    BY <1>1, <1>5, TwoPowers
  <2>2. Bit(k + r * Two[c], j) = Bit(k, j)
    BY <1>1, <2>1, LowBit
  <2>3. Bit(r + k * Two[d], d + j) = Bit(k, j)
    BY <1>1, <1>5, <2>1, HighBit DEF q
  <2>4. QED
    BY <1>5, <2>1, <2>2, <2>3 DEF p, q
<1>9. ASSUME NEW i \in 0 .. (d - 1)
      PROVE  Bit(res, i + c) = Bit(v, i)
  <2>1. i \in Nat /\ i < d /\ c + i <= MaxBits /\ r \in Int /\ k \in Int /\ c + i = i + c
    BY <1>1, <1>5, TwoPowers
  <2>2. Bit(r + k * Two[d], i) = Bit(r, i)
    BY <1>1, <2>1, LowBit
  <2>3. Bit(k + r * Two[c], c + i) = Bit(r, i)
    BY <1>1, <1>6, <2>1, HighBit DEF p
  <2>4. QED
    BY <1>5, <2>1, <2>2, <2>3 DEF p, q
<1> HIDE DEF res
<1>10. ASSUME NEW i \in 0 .. (Bits - 1)
       PROVE  /\ (i + c) % Bits = IF i < d THEN i + c ELSE i - d
              /\ (i + c) % Bits \in 0 .. (Bits - 1)
              /\ Bit(res, (i + c) % Bits) = Bit(v, i)
  <2>1. i + c \in 0 .. (2 * Bits - 1)
    BY <1>1
  <2>2. (i + c) % Bits = IF i + c < Bits THEN i + c ELSE (i + c) - Bits
    BY <1>1, <2>1, SmallRemainder
  <2>3. (i + c) % Bits = IF i < d THEN i + c ELSE i - d
    BY <1>1, <2>2
  <2> DEFINE t == (i + c) % Bits
  <2> HIDE DEF t
  <2>4. CASE i < d
    <3>1. i \in 0 .. (d - 1) /\ t = i + c
      BY <1>1, <2>3, <2>4 DEF t
    <3>2. QED
      BY <1>1, <1>9, <2>3, <2>4, <3>1 DEF t
  <2>5. CASE ~(i < d)
    <3>1. i - d \in 0 .. (c - 1) /\ (i - d) + d = i /\ t = i - d
      BY <1>1, <2>3, <2>5 DEF t
    <3> DEFINE j == i - d
    <3> HIDE DEF j
    <3>2. Bit(res, j) = Bit(v, j + d)
      BY <1>8, <3>1 DEF j
    <3>3. Bit(res, t) = Bit(v, i)
      BY <3>1, <3>2 DEF j
    <3>4. QED
      BY <1>1, <2>3, <2>5, <3>1, <3>3 DEF t
  <2>6. QED
    BY <2>4, <2>5
<1>11. BitsOf(res) = Turned(BitsOf(v), c, Bits)
  <2>1. ASSUME NEW j \in BitsOf(res)
        PROVE  j \in Turned(BitsOf(v), c, Bits)
    <3>1. j \in 0 .. (Bits - 1) /\ Bit(res, j) = 1
      BY BitIn
    <3>2. PICK i \in 0 .. (Bits - 1) : j = (i + c) % Bits
      <4>1. CASE j >= c
        <5>1. j - c \in 0 .. (Bits - 1) /\ j - c < d /\ (j - c) + c = j
          BY <1>1, <3>1, <4>1
        <5>2. ((j - c) + c) % Bits = (j - c) + c
          BY <1>10, <5>1
        <5>3. QED
          BY <5>1, <5>2
      <4>2. CASE ~(j >= c)
        <5>1. j + d \in 0 .. (Bits - 1) /\ ~(j + d < d) /\ (j + d) - d = j
          BY <1>1, <3>1, <4>2
        <5>2. ((j + d) + c) % Bits = (j + d) - d
          BY <1>10, <5>1
        <5>3. QED
          BY <5>1, <5>2
      <4>3. QED
        BY <4>1, <4>2
    <3>3. Bit(v, i) = 1
      BY <1>10, <3>1, <3>2
    <3>4. i \in BitsOf(v)
      BY <3>3, BitIn
    <3>5. QED
      BY <3>2, <3>4 DEF Turned
  <2>2. ASSUME NEW i \in BitsOf(v)
        PROVE  (i + c) % Bits \in BitsOf(res)
    <3>1. i \in 0 .. (Bits - 1) /\ Bit(v, i) = 1
      BY BitIn
    <3>2. QED
      BY <1>10, <3>1, BitIn
  <2>3. QED
    BY <2>1, <2>2 DEF Turned
<1>12. QED
  BY <1>7, <1>11 DEF p, q, d, k


(* The ring of an operand and the carry above it.                          *)
RingOf(p) == BitsOf(p.res) \cup (IF p.carry THEN {Bits} ELSE {})
InRing(p, i) == IF i = Bits THEN p.carry ELSE Bit(p.res, i) = 1

LEMMA RingIn ==
  ASSUME NEW p, NEW i
  PROVE  i \in RingOf(p) <=> i \in 0 .. Bits /\ InRing(p, i)
<1>1. Bits \in Nat /\ Bits \notin 0 .. (Bits - 1) /\ 0 .. Bits = (0 .. (Bits - 1)) \cup {Bits}
  BY TwoPowers
<1>2. i \in BitsOf(p.res) <=> i \in 0 .. (Bits - 1) /\ Bit(p.res, i) = 1
  BY BitIn
<1>3. i \in (IF p.carry THEN {Bits} ELSE {}) <=> i = Bits /\ p.carry
  OBVIOUS
<1>4. QED
  BY <1>1, <1>2, <1>3, Zenon DEF RingOf, InRing

LEMMA LeftRing ==
  ASSUME NEW p, p.res \in Operand
  PROVE  RingOf(OneLeft(p)) = Turned(RingOf(p), 1, Bits + 1)
<1> DEFINE v == p.res
           cin == IF p.carry THEN 1 ELSE 0
           w == OneLeft(p).res
           r == v % Half
           k == v \div Half
           N == Bits + 1
           m == Bits - 1
<1>1. /\ Bits \in Nat /\ Bits >= 2 /\ N \in Nat \ {0} /\ Bits <= MaxBits /\ MaxBits = 64
      /\ m \in 0 .. MaxBits /\ m \in Nat /\ m = Bits - 1 /\ Bits = m + 1 /\ m + 0 = m /\ N = Bits + 1
  BY TwoPowers
<1>2. v \in 0 .. (2 * Half - 1) /\ Half \in Nat \ {0} /\ M = 2 * Half /\ Half >= 2 /\ Half = Two[m]
      /\ v \in Int
  BY WidthFacts DEF Operand
<1>3. w = ((2 * v) % M) + cin
  BY DEF OneLeft, Truncate
<1>4. OneLeft(p).carry <=> v >= Half
  <2>1. OneLeft(p).carry <=> Negative(v)
    BY DEF OneLeft
  <2>2. QED
    BY <2>1, SignOf
<1>5. Two[1] = 2 /\ Two[0] = 1
  <2>1. 0 \in 0 .. (MaxBits - 1) /\ 0 + 1 = 1
    BY <1>1
  <2>2. Two[0 + 1] = 2 * Two[0] /\ Two[0] = 1
    BY <2>1, TwoPowers DEF IsPowers
  <2>3. QED
    BY <2>1, <2>2
<1> HIDE DEF v, w, Half, m, M, N
<1>6. r \in 0 .. (Half - 1) /\ k \in Int /\ v = r + k * Half
  BY <1>2, DivisionOf
<1> HIDE DEF r, k
<1>7. k = (IF v >= Half THEN 1 ELSE 0) /\ k \in 0 .. 1
  <2>1. CASE k >= 2
    <3>1. k * Half >= 2 * Half /\ k * Half \in Int
      BY <1>2, <1>6, <2>1, Z3
    <3>2. QED
      BY <1>2, <1>6, <3>1
  <2>2. CASE k < 0
    <3>1. k * Half <= (0 - 1) * Half /\ k * Half \in Int
      BY <1>2, <1>6, <2>2, Z3
    <3>2. QED
      BY <1>2, <1>6, <3>1
  <2>3. CASE k = 0
    BY <1>2, <1>6, <2>3
  <2>4. CASE k = 1
    BY <1>2, <1>6, <2>4
  <2>5. QED
    BY <1>6, <2>1, <2>2, <2>3, <2>4
<1>8. (2 * v) % M = r * 2
  <2> DEFINE h == r * 2
  <2>1. h \in 0 .. (M - 1) /\ M \in Nat \ {0} /\ 2 * v = h + k * M
    <3>1. k * (2 * Half) = 2 * (k * Half) /\ k * Half \in Int
      BY <1>2, <1>7, Z3
    <3>2. QED
      BY <1>2, <1>6, <3>1
  <2> HIDE DEF h
  <2>2. (h + k * M) % M = h
    BY <1>6, <2>1, DivisionOfSum
  <2>3. QED
    BY <2>1, <2>2 DEF h
<1>9. cin \in 0 .. 1 /\ (p.carry <=> cin = 1)
  OBVIOUS
<1> HIDE DEF cin
<1>10. w = cin + r * Two[1]
  BY <1>3, <1>5, <1>6, <1>8, <1>9
<1>11. \A b \in 0 .. 1 : Bit(b, 0) = b
  BY <1>5 DEF Bit
<1>12. Bit(w, 0) = cin
  <2>1. 1 \in 0 .. MaxBits /\ 0 \in Nat /\ 0 < 1 /\ cin \in Int /\ r \in Int
    BY <1>1, <1>6, <1>9
  <2>2. Bit(cin + r * Two[1], 0) = Bit(cin, 0)
    BY <2>1, LowBit
  <2>3. QED
    BY <1>9, <1>10, <1>11, <2>2
<1>13. ASSUME NEW i \in 0 .. (m - 1)
       PROVE  Bit(w, i + 1) = Bit(v, i)
  <2>1. i \in Nat /\ i < m /\ 1 \in Nat /\ 1 + i <= MaxBits /\ r \in Int /\ k \in Int /\ 1 + i = i + 1
        /\ cin \in 0 .. (Two[1] - 1)
    BY <1>1, <1>5, <1>6, <1>9
  <2>2. Bit(cin + r * Two[1], 1 + i) = Bit(r, i)
    BY <2>1, HighBit
  <2>3. Bit(r + k * Two[m], i) = Bit(r, i)
    BY <1>1, <2>1, LowBit
  <2>4. QED
    BY <1>2, <1>6, <1>10, <2>1, <2>2, <2>3
<1>14. Bit(v, m) = k
  <2>1. m \in Nat /\ 0 \in Nat /\ m + 0 <= MaxBits /\ r \in 0 .. (Two[m] - 1) /\ k \in Int
    BY <1>1, <1>2, <1>6
  <2>2. Bit(r + k * Two[m], m + 0) = Bit(k, 0)
    BY <2>1, HighBit
  <2>3. QED
    BY <1>1, <1>2, <1>6, <1>7, <1>11, <2>2
<1>15. ASSUME NEW i \in 0 .. Bits
       PROVE  /\ (i + 1) % N = IF i = Bits THEN 0 ELSE i + 1
              /\ (i + 1) % N \in 0 .. Bits
              /\ InRing(OneLeft(p), (i + 1) % N) <=> InRing(p, i)
  <2> DEFINE t == (i + 1) % N
  <2>1. t = IF i = Bits THEN 0 ELSE i + 1
    <3>1. i + 1 \in 0 .. (2 * N - 1)
      BY <1>1
    <3>2. (i + 1) % N = IF i + 1 < N THEN i + 1 ELSE (i + 1) - N
      BY <1>1, <3>1, SmallRemainder
    <3>3. QED
      BY <1>1, <3>2
  <2> HIDE DEF t
  <2>2. t \in 0 .. Bits
    BY <1>1, <2>1
  <2>3. i = Bits \/ i = m \/ i \in 0 .. (m - 1)
    BY <1>1
  <2>4. InRing(OneLeft(p), t) <=> InRing(p, i)
    <3>1. CASE i = Bits
      <4>1. t = 0 /\ t # Bits
        BY <1>1, <2>1, <3>1
      <4>2. InRing(OneLeft(p), t) <=> Bit(w, 0) = 1
        BY <4>1 DEF InRing, w
      <4>3. InRing(p, i) <=> p.carry
        BY <3>1 DEF InRing
      <4>4. QED
        BY <1>9, <1>12, <4>2, <4>3, Zenon
    <3>2. CASE i = m
      <4>1. t = Bits /\ i # Bits
        BY <1>1, <2>1, <3>2
      <4>2. InRing(OneLeft(p), t) <=> OneLeft(p).carry
        BY <4>1 DEF InRing
      <4>3. InRing(p, i) <=> Bit(v, i) = 1
        BY <4>1 DEF InRing, v
      <4>4. k = 1 <=> v >= Half
        BY <1>7
      <4>5. QED
        BY <1>4, <1>14, <3>2, <4>2, <4>3, <4>4, Zenon
    <3>3. CASE i \in 0 .. (m - 1)
      <4>1. t = i + 1 /\ t # Bits /\ i # Bits
        BY <1>1, <2>1, <3>3
      <4>2. InRing(OneLeft(p), t) <=> Bit(w, i + 1) = 1
        BY <4>1 DEF InRing, w
      <4>3. InRing(p, i) <=> Bit(v, i) = 1
        BY <4>1 DEF InRing, v
      <4>4. QED
        BY <1>13, <3>3, <4>2, <4>3, Zenon
    <3>4. QED
      BY <2>3, <3>1, <3>2, <3>3
  <2>5. QED
    BY <2>1, <2>2, <2>4 DEF t
<1>16. ASSUME NEW j \in RingOf(OneLeft(p))
       PROVE  j \in Turned(RingOf(p), 1, N)
  <2>1. j \in 0 .. Bits /\ InRing(OneLeft(p), j)
    BY RingIn
  <2>2. PICK i \in 0 .. Bits : j = (i + 1) % N
    <3>1. CASE j = 0
      <4>1. Bits \in 0 .. Bits
        BY <1>1
      <4>2. (Bits + 1) % N = 0
        BY <1>15, <4>1
      <4>3. QED
        BY <3>1, <4>1, <4>2
    <3>2. CASE j # 0
      <4>1. j - 1 \in 0 .. Bits /\ j - 1 # Bits /\ (j - 1) + 1 = j
        BY <1>1, <2>1, <3>2
      <4>2. ((j - 1) + 1) % N = (j - 1) + 1
        BY <1>15, <4>1
      <4>3. QED
        BY <4>1, <4>2
    <3>3. QED
      BY <3>1, <3>2
  <2>3. InRing(p, i)
    BY <1>15, <2>1, <2>2
  <2>4. i \in RingOf(p)
    BY <2>3, RingIn
  <2>5. QED
    BY <2>2, <2>4 DEF Turned
<1>17. ASSUME NEW i \in RingOf(p)
       PROVE  (i + 1) % N \in RingOf(OneLeft(p))
  <2>1. i \in 0 .. Bits /\ InRing(p, i)
    BY RingIn
  <2>2. QED
    BY <1>15, <2>1, RingIn
<1>18. QED
  BY <1>16, <1>17 DEF Turned, N

(* A turn to the right is undone by one to the left.                       *)
LEMMA LeftOfRight ==
  ASSUME NEW p, p.res \in Operand
  PROVE  /\ OneLeft(OneRight(p)).res = p.res
         /\ OneLeft(OneRight(p)).carry <=> p.carry
<1> DEFINE v == p.res
           c == IF p.carry THEN Half ELSE 0
           h == v \div 2
           w == OneRight(p).res
<1>1. v \in 0 .. (2 * Half - 1) /\ Half \in Nat /\ M = 2 * Half /\ Half >= 2
  BY WidthFacts DEF Operand
<1>2. w = h + c /\ w \in Operand
  BY OneRightType DEF OneRight
<1>3. OneRight(p).carry <=> v % 2 = 1
  BY DEF OneRight
<1>4. OneLeft(OneRight(p)).res = ((2 * w) % M) + (IF OneRight(p).carry THEN 1 ELSE 0)
  BY DEF OneLeft, Truncate
<1>5. OneLeft(OneRight(p)).carry <=> w >= Half
  <2>1. OneLeft(OneRight(p)).carry <=> Negative(w)
    BY DEF OneLeft
  <2>2. QED
    BY <1>2, <2>1, SignOf
<1>6. (c = Half \/ c = 0) /\ (p.carry <=> c = Half)
  BY <1>1
<1> HIDE DEF v, c, w, Half, M
<1>7. h \in 0 .. (Half - 1) /\ v = 2 * h + (v % 2) /\ v % 2 \in 0 .. 1
  BY <1>1
<1> HIDE DEF h
<1>8. (2 * w) % M = 2 * h
  <2>1. 2 * w \in 0 .. (2 * M - 1) /\ M \in Nat \ {0}
    BY <1>1, <1>2, <1>6, <1>7
  <2>2. (2 * w) % M = IF 2 * w < M THEN 2 * w ELSE 2 * w - M
    BY <2>1, SmallRemainder
  <2>3. QED
    BY <1>1, <1>2, <1>6, <1>7, <2>2
<1>9. p.carry <=> w >= Half
  BY <1>1, <1>2, <1>6, <1>7
<1>10. OneLeft(OneRight(p)).res = v
  BY <1>3, <1>4, <1>7, <1>8
<1>11. QED
  BY <1>5, <1>9, <1>10 DEF v

LEMMA RightRing ==
  ASSUME NEW p, p.res \in Operand
  PROVE  RingOf(p) = Turned(RingOf(OneRight(p)), 1, Bits + 1)
<1> DEFINE q == OneRight(p)
<1>1. q.res \in Operand
  BY OneRightType
<1>2. RingOf(OneLeft(q)) = RingOf(p)
  BY LeftOfRight DEF RingOf
<1> HIDE DEF q
<1>3. RingOf(OneLeft(q)) = Turned(RingOf(q), 1, Bits + 1)
  BY <1>1, LeftRing
<1>4. QED
  BY <1>2, <1>3 DEF q


LEMMA RingWithin ==
  ASSUME NEW p
  PROVE  RingOf(p) \subseteq 0 .. Bits /\ RingOf(p) \subseteq Int
<1>1. ASSUME NEW i \in RingOf(p)
      PROVE  i \in 0 .. Bits
  BY RingIn
<1>2. 0 .. Bits \subseteq Int
  BY TwoPowers
<1>3. QED
  BY <1>1, <1>2

(* n turns to the left turn the ring by n, and to the right back by n.     *)
LEMMA TurnedLeft ==
  ASSUME TypeOK, NEW n \in Nat
  PROVE  RingOf(ThroughCarry(TRUE, n)) = Turned(RingOf(Start), n, Bits + 1)
<1> DEFINE N == Bits + 1
           R == RingOf(Start)
<1>1. PICK f : /\ ThroughCarry(TRUE, n) = f[n]
               /\ f[0] = Start
               /\ \A i \in 0 .. (n - 1) : f[i + 1] = OneTurn(TRUE, f[i])
  BY TurnsAre
<1>2. N \in Nat \ {0} /\ 0 .. (N - 1) = 0 .. Bits /\ 0 % N = 0 /\ 0 \in Int
  BY TwoPowers
<1>3. R \subseteq 0 .. (N - 1) /\ R \subseteq Int
  <2>1. R \subseteq 0 .. Bits /\ R \subseteq Int
    BY RingWithin
  <2> HIDE DEF R
  <2>2. QED
    BY <1>2, <2>1
<1>4. Start.res \in Operand
  BY DEF Start, TypeOK
<1> HIDE DEF N, R
<1> DEFINE G == {i \in 0 .. n : f[i].res \in Operand /\ RingOf(f[i]) = Turned(R, i, N)}
<1>5. 0 \in G
  <2>1. Turned(R, 0, N) = R
    BY <1>2, <1>3, TurnedNot
  <2>2. f[0].res \in Operand /\ RingOf(f[0]) = Turned(R, 0, N) /\ 0 \in 0 .. n
    BY <1>1, <1>4, <2>1 DEF R
  <2>3. QED
    BY <2>2
<1>6. ASSUME NEW i \in 0 .. (n - 1), i \in G
      PROVE  i + 1 \in G
  <2> DEFINE p == f[i]
  <2>1. p.res \in Operand /\ RingOf(p) = Turned(R, i, N) /\ f[i + 1] = OneLeft(p)
        /\ i + 1 \in 0 .. n /\ i \in Int /\ 1 \in Int
    <3>1. f[i].res \in Operand /\ RingOf(f[i]) = Turned(R, i, N)
      BY <1>6
    <3>2. f[i + 1] = OneLeft(f[i])
      BY <1>1 DEF OneTurn
    <3>3. QED
      BY <3>1, <3>2
  <2> HIDE DEF p
  <2>2. OneLeft(p).res \in Operand
    BY <2>1, OneLeftType
  <2>3. RingOf(OneLeft(p)) = Turned(RingOf(p), 1, N)
    BY <2>1, LeftRing DEF N
  <2>4. Turned(Turned(R, i, N), 1, N) = Turned(R, i + 1, N)
    <3>1. Turns(R, i, 1, i + 1, N)
      BY <1>2, <1>3, <2>1 DEF Turns
    <3>2. QED
      BY <3>1, TurnedTwice
  <2>5. QED
    BY <2>1, <2>2, <2>3, <2>4
<1> HIDE DEF G
<1>7. n \in G
  BY <1>5, <1>6, InductTo
<1>8. QED
  BY <1>1, <1>7 DEF G, N, R

LEMMA TurnedRight ==
  ASSUME TypeOK, NEW n \in Nat
  PROVE  RingOf(Start) = Turned(RingOf(ThroughCarry(FALSE, n)), n, Bits + 1)
<1> DEFINE N == Bits + 1
           R == RingOf(Start)
<1>1. PICK f : /\ ThroughCarry(FALSE, n) = f[n]
               /\ f[0] = Start
               /\ \A i \in 0 .. (n - 1) : f[i + 1] = OneTurn(FALSE, f[i])
  BY TurnsAre
<1>2. N \in Nat \ {0} /\ 0 .. (N - 1) = 0 .. Bits /\ 0 % N = 0 /\ 0 \in Int
  BY TwoPowers
<1>3. ASSUME NEW p
      PROVE  RingOf(p) \subseteq 0 .. (N - 1) /\ RingOf(p) \subseteq Int
  <2>1. RingOf(p) \subseteq 0 .. Bits /\ RingOf(p) \subseteq Int
    BY RingWithin
  <2>2. QED
    BY <1>2, <2>1
<1>4. Start.res \in Operand
  BY DEF Start, TypeOK
<1> HIDE DEF N, R
<1> DEFINE G == {i \in 0 .. n : f[i].res \in Operand /\ R = Turned(RingOf(f[i]), i, N)}
<1>5. 0 \in G
  <2>1. Turned(R, 0, N) = R
    BY <1>2, <1>3, TurnedNot DEF R
  <2>2. f[0].res \in Operand /\ R = Turned(RingOf(f[0]), 0, N) /\ 0 \in 0 .. n
    BY <1>1, <1>4, <2>1 DEF R
  <2>3. QED
    BY <2>2
<1>6. ASSUME NEW i \in 0 .. (n - 1), i \in G
      PROVE  i + 1 \in G
  <2> DEFINE p == f[i]
             q == OneRight(p)
  <2>1. p.res \in Operand /\ R = Turned(RingOf(p), i, N) /\ f[i + 1] = q
        /\ i + 1 \in 0 .. n /\ i \in Int /\ 1 \in Int /\ 1 + i = i + 1
    <3>1. f[i].res \in Operand /\ R = Turned(RingOf(f[i]), i, N)
      BY <1>6
    <3>2. f[i + 1] = OneRight(f[i])
      BY <1>1 DEF OneTurn
    <3>3. QED
      BY <3>1, <3>2
  <2> HIDE DEF p
  <2>2. q.res \in Operand
    BY <2>1, OneRightType
  <2>3. RingOf(p) = Turned(RingOf(q), 1, N)
    BY <2>1, RightRing DEF N
  <2> HIDE DEF q
  <2>4. Turned(Turned(RingOf(q), 1, N), i, N) = Turned(RingOf(q), i + 1, N)
    <3>1. Turns(RingOf(q), 1, i, i + 1, N)
      BY <1>2, <1>3, <2>1 DEF Turns
    <3>2. QED
      BY <3>1, TurnedTwice
  <2>5. QED
    BY <2>1, <2>2, <2>3, <2>4
<1> HIDE DEF G
<1>7. n \in G
  BY <1>5, <1>6, InductTo
<1>8. QED
  BY <1>1, <1>7 DEF G, N, R

(* What a rotate stores.                                                   *)
LEMMA RotateSets ==
  ASSUME NEW name, NEW n, NEW count, NEW res, NEW carry, NEW overflow,
         Rotate(name, n, count, res, carry, overflow), count # 0
  PROVE  lo' = res /\ ("CF" \in flags' <=> carry)
<1>1. lo' = res
  BY DEF Rotate, Result
<1>2. "CF" \in flags' <=> carry
  BY DEF Rotate, Set, On
<1>3. QED
  BY <1>1, <1>2

LEMMA RotateKeeps ==
  ASSUME NEW name, NEW n, NEW count, NEW res, NEW carry, NEW overflow,
         Rotate(name, n, count, res, carry, overflow), count = 0
  PROVE  lo' = lo /\ flags' = flags
BY DEF Rotate, cpu

LEMMA RingStart == Ring = RingOf(Start)
BY DEF Ring, RingOf, Start

LEMMA RingStored ==
  ASSUME NEW p, lo' = p.res, "CF" \in flags' <=> p.carry
  PROVE  Ring' = RingOf(p)
BY DEF Ring, RingOf, Is, BitsOf

LEMMA RingKept ==
  ASSUME lo' = lo, flags' = flags
  PROVE  Ring' = Ring
<1>1. lo' = Start.res /\ ("CF" \in flags' <=> Start.carry)
  BY DEF Start, Is
<1>2. Ring' = RingOf(Start)
  BY <1>1, RingStored
<1>3. QED
  BY <1>2, RingStart


LEMMA LeftRotated ==
  ASSUME TypeOK, NEW n \in Counts, ROL(n)
  PROVE  BitsOf(lo') = Turned(BitsOf(lo), n, Bits)
<1> DEFINE count == n % Bits
           B == BitsOf(lo)
           res == Truncate(lo * Two[count] + lo \div Two[Bits - count])
           carry == (Bits - count) \in BitsOf(lo)
<1>1. Bits \in Nat \ {0} /\ n \in Int /\ lo \in Operand
  BY TwoPowers, AluAssumption DEF TypeOK
<1>2. count \in 0 .. (Bits - 1)
  BY <1>1, DivisionOf
<1>3. B \subseteq 0 .. (Bits - 1) /\ B \subseteq Int
  BY <1>1 DEF BitsOf
<1>4. Rotate("ROL", n, count, res, carry, carry # Negative(res))
  BY DEF ROL
<1>5. Turned(B, count, Bits) = Turned(B, n, Bits)
  BY <1>1, <1>3, TurnedCount
<1>6. CASE count = 0
  <2>1. lo' = lo
    BY <1>4, <1>6, RotateKeeps
  <2>2. Turned(B, n, Bits) = B
    BY <1>1, <1>3, <1>6, TurnedNot
  <2>3. QED
    BY <2>1, <2>2
<1>7. CASE count # 0
  <2>1. lo' = res
    BY <1>4, <1>7, RotateSets
  <2>2. count \in 1 .. (Bits - 1)
    BY <1>1, <1>2, <1>7
  <2> HIDE DEF count
  <2>3. BitsOf(res) = Turned(B, count, Bits)
    BY <1>1, <2>2, RotatedBits
  <2>4. QED
    BY <1>5, <2>1, <2>3
<1>8. QED
  BY <1>6, <1>7

LEMMA RightRotated ==
  ASSUME TypeOK, NEW n \in Counts, ROR(n)
  PROVE  BitsOf(lo) = Turned(BitsOf(lo'), n, Bits)
<1> DEFINE count == n % Bits
           c == Bits - count
           B == BitsOf(lo)
           res == Truncate(lo \div Two[count] + lo * Two[Bits - count])
<1>1. Bits \in Nat \ {0} /\ n \in Int /\ lo \in Operand /\ lo \in Int
  BY TwoPowers, AluAssumption DEF TypeOK, Operand
<1>2. count \in 0 .. (Bits - 1)
  BY <1>1, DivisionOf
<1>3. B \subseteq 0 .. (Bits - 1) /\ B \subseteq Int
  BY <1>1 DEF BitsOf
<1>4. BitsOf(lo') \subseteq Int
  BY <1>1 DEF BitsOf
<1>5. Rotate("ROR", n, count, res, (count - 1) \in BitsOf(lo), TopTwoDiffer(res))
  BY DEF ROR
<1>6. Turned(BitsOf(lo'), count, Bits) = Turned(BitsOf(lo'), n, Bits)
  BY <1>1, <1>4, TurnedCount
<1>7. CASE count = 0
  <2>1. lo' = lo
    BY <1>5, <1>7, RotateKeeps
  <2>2. Turned(B, n, Bits) = B
    BY <1>1, <1>3, <1>7, TurnedNot
  <2>3. QED
    BY <2>1, <2>2
<1>8. CASE count # 0
  <2>1. lo' = res
    BY <1>5, <1>8, RotateSets
  <2>2. c \in 1 .. (Bits - 1) /\ Bits - c = count /\ c \in Int /\ count \in Int
        /\ c \in 0 .. MaxBits /\ count \in 0 .. MaxBits /\ Bits \in Int /\ c + count = Bits
    BY <1>1, <1>2, <1>8, TwoPowers
  <2> HIDE DEF count
  <2>3. Two[c] \in Nat \ {0} /\ Two[count] \in Nat \ {0}
    BY <2>2, TwoPowers
  <2>4. lo \div Two[count] + lo * Two[c] = lo * Two[c] + lo \div Two[count]
    <3> DEFINE a == lo * Two[c]
               b == lo \div Two[count]
    <3>1. a \in Int /\ b \in Int
      BY <1>1, <2>3
    <3> HIDE DEF a, b
    <3>2. b + a = a + b
      BY <3>1
    <3>3. QED
      BY <3>2 DEF a, b
  <2>5. BitsOf(Truncate(lo * Two[c] + lo \div Two[Bits - c])) = Turned(B, c, Bits)
    BY <1>1, <2>2, RotatedBits
  <2>6. BitsOf(lo') = Turned(B, c, Bits)
    BY <2>1, <2>2, <2>4, <2>5
  <2>7. Turns(B, c, count, Bits, Bits)
    BY <1>1, <1>3, <2>2 DEF Turns
  <2>8. Turned(Turned(B, c, Bits), count, Bits) = Turned(B, Bits, Bits)
    BY <2>7, TurnedTwice
  <2>9. Turned(B, Bits, Bits) = B
    <3>1. Bits % Bits = 0
      <4>1. 0 \in 0 .. (Bits - 1) /\ 1 \in Int /\ 0 + 1 * Bits = Bits
        BY <1>1
      <4>2. (0 + 1 * Bits) % Bits = 0
        BY <1>1, <4>1, DivisionOfSum
      <4>3. QED
        BY <4>1, <4>2
    <3>2. QED
      BY <1>1, <1>3, <2>2, <3>1, TurnedNot
  <2>10. QED
    BY <1>6, <2>6, <2>8, <2>9
<1>9. QED
  BY <1>7, <1>8

LEMMA LeftCarried ==
  ASSUME TypeOK, NEW n \in Counts, RCL(n)
  PROVE  Ring' = Turned(Ring, n, Bits + 1)
<1> DEFINE N == Bits + 1
           count == n % N
           end == ThroughCarry(TRUE, count)
           R == RingOf(Start)
<1>1. N \in Nat \ {0} /\ n \in Int /\ 0 .. (N - 1) = 0 .. Bits
  BY TwoPowers, AluAssumption
<1>2. count \in Nat
  BY <1>1, DivisionOf
<1>3. R \subseteq 0 .. (N - 1) /\ R \subseteq Int
  BY <1>1, RingWithin
<1>4. Rotate("RCL", n, count, end.res, end.carry, end.carry # Negative(end.res))
  BY DEF RCL
<1>5. Ring = R
  BY RingStart
<1>6. RingOf(end) = Turned(R, count, N)
  BY <1>2, TurnedLeft
<1> HIDE DEF R
<1>7. Turned(R, count, N) = Turned(R, n, N)
  BY <1>1, <1>3, TurnedCount
<1>8. CASE count = 0
  <2>1. lo' = lo /\ flags' = flags
    BY <1>4, <1>8, RotateKeeps
  <2>2. Ring' = Ring
    BY <2>1, RingKept
  <2>3. Turned(R, n, N) = R
    BY <1>1, <1>3, <1>8, TurnedNot
  <2>4. QED
    BY <1>5, <2>2, <2>3
<1>9. CASE count # 0
  <2> HIDE DEF end, count
  <2>1. lo' = end.res /\ ("CF" \in flags' <=> end.carry)
    BY <1>4, <1>9, RotateSets
  <2>2. Ring' = RingOf(end)
    BY <2>1, RingStored
  <2>3. QED
    BY <1>5, <1>6, <1>7, <2>2
<1>10. QED
  BY <1>8, <1>9

LEMMA RightCarried ==
  ASSUME TypeOK, NEW n \in Counts, RCR(n)
  PROVE  Ring = Turned(Ring', n, Bits + 1)
<1> DEFINE N == Bits + 1
           count == n % N
           end == ThroughCarry(FALSE, count)
           E == RingOf(end)
<1>1. N \in Nat \ {0} /\ n \in Int /\ 0 .. (N - 1) = 0 .. Bits
  BY TwoPowers, AluAssumption
<1>2. count \in Nat
  BY <1>1, DivisionOf
<1>3. Rotate("RCR", n, count, end.res, end.carry, TopTwoDiffer(end.res))
  BY DEF RCR
<1>4. Ring = Turned(E, count, N)
  BY <1>2, RingStart, TurnedRight
<1>5. CASE count = 0
  <2>1. lo' = lo /\ flags' = flags
    BY <1>3, <1>5, RotateKeeps
  <2>2. Ring' = Ring
    BY <2>1, RingKept
  <2>3. Ring \subseteq 0 .. (N - 1)
    <3>1. RingOf(Start) \subseteq 0 .. Bits
      BY RingWithin
    <3>2. QED
      BY <1>1, <3>1, RingStart
  <2>4. Turned(Ring, n, N) = Ring
    BY <1>1, <1>5, <2>3, TurnedNot
  <2>5. QED
    BY <2>2, <2>4
<1>6. CASE count # 0
  <2> HIDE DEF end, count
  <2>1. lo' = end.res /\ ("CF" \in flags' <=> end.carry)
    BY <1>3, <1>6, RotateSets
  <2>2. Ring' = E
    BY <2>1, RingStored
  <2>3. E \subseteq Int
    BY RingWithin
  <2> HIDE DEF E
  <2>4. Turned(E, count, N) = Turned(E, n, N)
    BY <1>1, <2>3, TurnedCount DEF count
  <2>5. QED
    BY <1>4, <2>2, <2>4
<1>7. QED
  BY <1>5, <1>6

(* A rotate turns a ring of bits by its count, the operand alone or the    *)
(* operand with CF above it, at every operand size and for every count.    *)
THEOREM AluRotates == Spec => RotatesTurnTheRing
<1> DEFINE A == /\ Did = "ROL" => BitsOf(lo') = Turned(BitsOf(lo), Source, Bits)
                /\ Did = "ROR" => BitsOf(lo) = Turned(BitsOf(lo'), Source, Bits)
                /\ Did = "RCL" => Ring' = Turned(Ring, Source, Bits + 1)
                /\ Did = "RCR" => Ring = Turned(Ring', Source, Bits + 1)
<1>1. TypeOK /\ [Next]_vars => [A]_vars
  <2> SUFFICES ASSUME TypeOK, Next PROVE A
    OBVIOUS
  <2>1. CASE op'[1] \notin {"ROL", "ROR", "RCL", "RCR"}
    BY <2>1 DEF Did
  <2>2. ASSUME NEW n \in Counts, op'[2] = n, op'[1] = "ROL", ROL(n)
        PROVE  A
    BY <2>2, LeftRotated DEF Did, Source
  <2>3. ASSUME NEW n \in Counts, op'[2] = n, op'[1] = "ROR", ROR(n)
        PROVE  A
    BY <2>3, RightRotated DEF Did, Source
  <2>4. ASSUME NEW n \in Counts, op'[2] = n, op'[1] = "RCL", RCL(n)
        PROVE  A
    BY <2>4, LeftCarried DEF Did, Source
  <2>5. ASSUME NEW n \in Counts, op'[2] = n, op'[1] = "RCR", RCR(n)
        PROVE  A
    BY <2>5, RightCarried DEF Did, Source
  <2>6. op'[1] \in {"ROL", "ROR", "RCL", "RCR"} => op'[1] \in Telling
    BY DEF Telling
  <2> HIDE DEF A
  <2>7. QED
    BY <2>1, <2>2, <2>3, <2>4, <2>5, <2>6, Tells
<1>2. QED
  BY <1>1, AluTypes, PTL DEF Spec, RotatesTurnTheRing

=============================================================================
