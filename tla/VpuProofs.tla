----------------------------- MODULE VpuProofs ------------------------------
(***************************************************************************)
(* Vector instructions for every width of a byte, every set of registers   *)
(* and every content: what a lane computes is the number the instruction   *)
(* promises, reduced to the lane, and the loop over the lanes, which reads *)
(* and writes registers and memory in place, computes every lane from the  *)
(* operands the instruction found, in all of the lanes or in those before  *)
(* the one that faults.                                                    *)
(***************************************************************************)
EXTENDS Vpu, Induction

(* Powers of a byte's values, of two, and the number in some bytes.        *)
LEMMA BytePowers ==
  /\ B \in Nat \ {0} /\ B > 1
  /\ IsPowers(Power, B, 8)
  /\ \A k \in 0 .. 8 : Power[k] \in Nat \ {0}
  /\ W = Power[8]
<1>1. PtrSize = 8 /\ B \in Nat \ {0} /\ B > 1 /\ W = Power[8]
  BY VpuAssumption, WordAssumption
<1> DEFINE P(f) == f = [n \in 0 .. PtrSize |-> IF n = 0 THEN 1 ELSE B * f[n - 1]]
<1>2. \E f : P(f)
  <2>1. PtrSize \in Nat
    BY <1>1
  <2>2. QED
    BY <2>1, PowersDefined, Zenon
<1>3. Power = CHOOSE f : P(f)
  BY DEF Power
<1>4. P(Power)
  BY <1>2, <1>3
<1>5. \A n \in 0 .. 8 : Power[n] = IF n = 0 THEN 1 ELSE B * Power[n - 1]
  BY <1>1, <1>4
<1> HIDE DEF P
<1> HIDE DEF Power
<1>6. Power[0] = 1
  BY <1>5
<1>7. ASSUME NEW k \in 0 .. 7 PROVE Power[k + 1] = B * Power[k]
  BY <1>5
<1>8. IsPowers(Power, B, 8)
  BY <1>6, <1>7 DEF IsPowers
<1>9. QED
  BY <1>1, <1>8, PowersPositive

LEMMA TwoPowers ==
  /\ ByteBits \in Nat \ {0} /\ B = Two[ByteBits]
  /\ ByteBits * 8 \in Nat
  /\ IsPowers(Two, 2, ByteBits * 8)
<1>1. PtrSize = 8 /\ ByteBits \in Nat \ {0} /\ B = Two[ByteBits]
  BY VpuAssumption, ByteAssumption
<1> DEFINE top == ByteBits * PtrSize
           P(f) == f = [n \in 0 .. top |-> IF n = 0 THEN 1 ELSE 2 * f[n - 1]]
<1>2. top \in Nat
  BY <1>1
<1>3. \E f : P(f)
  <2> HIDE DEF top
  <2>1. QED
    BY <1>2, PowersDefined
<1>4. Two = CHOOSE f : P(f)
  BY DEF Two
<1>5. P(Two)
  BY <1>3, <1>4
<1>6. \A n \in 0 .. top : Two[n] = IF n = 0 THEN 1 ELSE 2 * Two[n - 1]
  BY <1>5
<1> HIDE DEF P, Two, top
<1>7. Two[0] = 1
  BY <1>2, <1>6
<1>8. ASSUME NEW k \in 0 .. (top - 1) PROVE Two[k + 1] = 2 * Two[k]
  BY <1>2, <1>6
<1>9. IsPowers(Two, 2, top)
  BY <1>7, <1>8 DEF IsPowers
<1>10. QED
  BY <1>1, <1>2, <1>9 DEF top

(* Bytes of so many bits are digits to the base two.                       *)
LEMMA PowerOfTwo ==
  ASSUME NEW k \in 0 .. 8
  PROVE  /\ ByteBits * k \in 0 .. (ByteBits * 8)
         /\ Power[k] = Two[ByteBits * k]
<1> DEFINE N == ByteBits * 8
           c == ByteBits
<1>1. c \in Nat \ {0} /\ N \in Nat /\ B = Two[c] /\ IsPowers(Two, 2, N) /\ N = 8 * c
  BY TwoPowers
<1> HIDE DEF N, c
<1>2. \A n \in 0 .. N : Two[n] \in Nat \ {0}
  BY <1>1, PowersPositive
<1>3. \A n \in 0 .. 8 : c * n \in 0 .. N
  BY <1>1, Z3
<1>4. ASSUME NEW n \in 0 .. 7
      PROVE  Two[c * n + c] = B * Two[c * n]
  <2> DEFINE x == Two[c * n]
             s == c * n
             G == {j \in 0 .. c : Two[s + j] = Two[j] * x}
  <2>1. s \in 0 .. N /\ s + c \in 0 .. N /\ c \in 0 .. N /\ x \in Nat
    <3>1. n \in 0 .. 8 /\ n + 1 \in 0 .. 8 /\ c * (n + 1) = c * n + c
      BY <1>1
    <3>2. c * n \in 0 .. N /\ c * n + c \in 0 .. N
      BY <1>3, <3>1
    <3>3. QED
      BY <1>1, <1>2, <3>2
  <2> HIDE DEF x, s
  <2>2. Two[s] = x
    BY DEF x, s
  <2>3. 0 \in G
    BY <1>1, <2>1, <2>2 DEF IsPowers
  <2>4. ASSUME NEW j \in 0 .. (c - 1), j \in G
        PROVE  j + 1 \in G
    <3>1. s + j \in 0 .. (N - 1) /\ j \in 0 .. (N - 1) /\ s + (j + 1) = (s + j) + 1
      BY <1>1, <2>1
    <3>2. Two[(s + j) + 1] = 2 * Two[s + j]
      BY <1>1, <3>1 DEF IsPowers
    <3>3. Two[j + 1] = 2 * Two[j]
      BY <1>1, <3>1 DEF IsPowers
    <3> DEFINE y == Two[j]
    <3>4. Two[s + j] = y * x
      BY <2>4
    <3>0. y \in Nat
      <4>1. j \in 0 .. N
        BY <1>1, <3>1
      <4>2. QED
        BY <1>2, <4>1
    <3> HIDE DEF y
    <3>5. 2 * (y * x) = (2 * y) * x
      BY <2>1, <3>0
    <3>6. Two[s + (j + 1)] = Two[j + 1] * x
      BY <3>1, <3>2, <3>3, <3>4, <3>5 DEF y
    <3>7. QED
      BY <1>1, <3>6
  <2>5. c \in G
    <3> HIDE DEF G
    <3>1. QED
      BY <1>1, <2>3, <2>4, InductTo
  <2>6. Two[s + c] = Two[c] * x
    BY <2>5
  <2>7. QED
    BY <1>1, <2>6 DEF x, s
<1> DEFINE H == {n \in 0 .. 8 : Power[n] = Two[c * n]}
<1>5. 0 \in H
  <2>1. c * 0 = 0
    BY <1>1
  <2>2. QED
    BY <1>1, <2>1, BytePowers DEF IsPowers
<1>6. ASSUME NEW n \in 0 .. 7, n \in H
      PROVE  n + 1 \in H
  <2>1. Power[n + 1] = B * Power[n]
    BY BytePowers DEF IsPowers
  <2>2. c * (n + 1) = c * n + c
    BY <1>1
  <2>3. Power[n] = Two[c * n]
    BY <1>6
  <2>4. Power[n + 1] = Two[c * (n + 1)]
    BY <1>4, <2>1, <2>2, <2>3
  <2>5. QED
    BY <2>4
<1>7. k \in H
  <2> HIDE DEF H
  <2>1. 0 .. 8 \subseteq H
    <3>1. \A n \in 0 .. (8 - 1) : n \in H => n + 1 \in H
      BY <1>6
    <3>2. QED
      BY <1>5, <3>1, InductTo
  <2>2. QED
    BY <2>1
<1>8. QED
  BY <1>3, <1>7 DEF c, N

LEMMA Halves ==
  ASSUME NEW e \in ElemCode
  PROVE  /\ Size(e) \in {1, 2, 4, 8}
         /\ Values(e) \in Nat /\ SignMask(e) \in Nat /\ SignMask(e) >= 1
         /\ Values(e) = 2 * SignMask(e)
<1> DEFINE s == Size(e)
           x == Two[ByteBits * s - 1]
<1>1. s \in {1, 2, 4, 8}
  BY DEF ElemCode, Size
<1> HIDE DEF s
<1>2. s \in 0 .. 8 /\ ByteBits \in Nat \ {0} /\ ByteBits * s >= 1
  <2>1. ByteBits \in Nat \ {0}
    BY TwoPowers
  <2>2. QED
    BY <1>1, <2>1, Z3
<1>3. Power[s] = Two[ByteBits * s] /\ ByteBits * s \in 0 .. (ByteBits * 8)
  BY <1>2, PowerOfTwo
<1> DEFINE t == ByteBits * s
           N == ByteBits * 8
<1>4. t \in Nat /\ N \in Nat /\ t >= 1 /\ t <= N /\ IsPowers(Two, 2, N)
  BY <1>2, <1>3, TwoPowers
<1> HIDE DEF t, N
<1>5. Two[t - 1] \in Nat \ {0} /\ Two[t] = 2 * Two[t - 1]
  <2>1. t - 1 \in 0 .. (N - 1) /\ (t - 1) + 1 = t /\ t - 1 \in 0 .. N
    BY <1>4
  <2>2. Two[t - 1] \in Nat \ {0}
    BY <1>4, <2>1, PowersPositive
  <2>3. Two[(t - 1) + 1] = 2 * Two[t - 1]
    BY <1>4, <2>1 DEF IsPowers
  <2>4. QED
    BY <2>1, <2>2, <2>3
<1> DEFINE h == Two[t - 1]
<1>6. h \in Nat \ {0} /\ Values(e) = 2 * h
  BY <1>3, <1>5 DEF Values, s, t
<1> HIDE DEF h
<1>7. (2 * h) \div 2 = h
  BY <1>6
<1>8. QED
  BY <1>1, <1>6, <1>7 DEF SignMask, s

(* The number in n bytes is the sum of their values, and so it is below    *)
(* the power of their count.                                               *)
LEMMA HeldSums ==
  ASSUME NEW m, NEW pos, NEW n \in Nat, n <= 8
  PROVE  \E h, d : /\ d = [k \in 0 .. 7 |-> m[pos + k]] /\ h[n] = Held(m, pos, n)
                   /\ IsSums(h, d, Power, n)
<1> DEFINE t == [k \in 0 .. 7 |-> m[pos + k] * Power[k]]
           d == [k \in 0 .. 7 |-> m[pos + k]]
           P(f) == f = [k \in 0 .. n |-> IF k = 0 THEN 0 ELSE f[k - 1] + m[pos + (k - 1)] * Power[k - 1]]
           h == CHOOSE f : P(f)
<1>1. \E f : P(f)
  <2>1. PICK f : f = [k \in 0 .. n |-> IF k = 0 THEN 0 ELSE f[k - 1] + t[k - 1]]
    <3> HIDE DEF t
    <3>1. n \in Nat
      OBVIOUS
    <3>2. QED
      BY <3>1, SumsDefined
  <2>2. \A k \in 0 .. n : k # 0 => t[k - 1] = m[pos + (k - 1)] * Power[k - 1]
    OBVIOUS
  <2>3. P(f)
    <3> HIDE DEF t
    <3>1. QED
      BY <2>1, <2>2, Zenon
  <2>4. QED
    BY <2>3
<1>2. P(h)
  BY <1>1
<1>3. h[n] = Held(m, pos, n)
  BY DEF Held
<1>4. \A k \in 0 .. n : h[k] = IF k = 0 THEN 0 ELSE h[k - 1] + m[pos + (k - 1)] * Power[k - 1]
  BY <1>2
<1> HIDE DEF h, P
<1>5. h[0] = 0
  BY <1>4
<1>6. ASSUME NEW k \in 0 .. (n - 1) PROVE h[k + 1] = h[k] + d[k] * Power[k]
  <2>1. k + 1 \in 0 .. n /\ k + 1 # 0 /\ (k + 1) - 1 = k /\ k \in 0 .. 7
    OBVIOUS
  <2>2. h[k + 1] = h[k] + m[pos + k] * Power[k]
    BY <1>4, <2>1
  <2>3. d[k] = m[pos + k]
    BY <2>1
  <2>4. QED
    BY <2>2, <2>3
<1>7. IsSums(h, d, Power, n)
  BY <1>5, <1>6 DEF IsSums
<1>8. QED
  BY <1>3, <1>7

LEMMA HeldIs ==
  ASSUME NEW m, NEW pos, NEW n \in Nat, n <= 8, \A k \in 0 .. (n - 1) : m[pos + k] \in Byte
  PROVE  Held(m, pos, n) \in 0 .. (Power[n] - 1)
<1>1. PICK h, d : /\ d = [k \in 0 .. 7 |-> m[pos + k]] /\ h[n] = Held(m, pos, n)
                  /\ IsSums(h, d, Power, n)
  BY HeldSums
<1>2. \A k \in 0 .. (n - 1) : d[k] \in 0 .. (B - 1)
  BY <1>1 DEF Byte
<1>3. IsPowers(Power, B, n) /\ B \in Nat \ {0}
  <2>1. \A k \in 0 .. (n - 1) : k \in 0 .. (8 - 1)
    OBVIOUS
  <2>2. QED
    BY <2>1, BytePowers DEF IsPowers
<1>4. \A k \in 0 .. n : h[k] \in 0 .. (Power[k] - 1)
  BY <1>1, <1>2, <1>3, SumsBounded, Zenon
<1>5. QED
  BY <1>1, <1>4

(* The bytes of a number hold what of it fits.                             *)
LEMMA HeldOf ==
  ASSUME NEW m, NEW pos, NEW n \in Nat, n <= 8, NEW v \in Int,
         \A k \in 0 .. (n - 1) : m[pos + k] = ByteOf(v, k)
  PROVE  Held(m, pos, n) = v % Power[n]
<1>1. PICK h, d : /\ d = [k \in 0 .. 7 |-> m[pos + k]] /\ h[n] = Held(m, pos, n)
                  /\ IsSums(h, d, Power, n)
  BY HeldSums
<1>2. IsDigits(d, v, B, Power, n)
  BY <1>1 DEF ByteOf, IsDigits
<1>3. IsPowers(Power, B, n) /\ B \in Nat \ {0}
  <2>1. \A k \in 0 .. (n - 1) : k \in 0 .. (8 - 1)
    OBVIOUS
  <2>2. QED
    BY <2>1, BytePowers DEF IsPowers
<1>4. \A k \in 0 .. n : h[k] = v % Power[k]
  BY <1>1, <1>2, <1>3, SumOfDigits
<1>5. QED
  BY <1>1, <1>4

(* The same bytes hold the same number, wherever they are.                 *)
LEMMA HeldSame ==
  ASSUME NEW m, NEW pos, NEW n \in Nat, n <= 8, NEW m2, NEW pos2,
         \A k \in 0 .. (n - 1) : m[pos + k] = m2[pos2 + k]
  PROVE  Held(m, pos, n) = Held(m2, pos2, n)
<1>1. PICK g, c : /\ c = [k \in 0 .. 7 |-> m[pos + k]] /\ g[n] = Held(m, pos, n)
                  /\ IsSums(g, c, Power, n)
  BY HeldSums
<1>2. PICK h, d : /\ d = [k \in 0 .. 7 |-> m2[pos2 + k]] /\ h[n] = Held(m2, pos2, n)
                  /\ IsSums(h, d, Power, n)
  BY HeldSums
<1>3. ASSUME NEW k \in 0 .. (n - 1) PROVE c[k] = d[k]
  <2>1. k \in 0 .. 7
    OBVIOUS
  <2>2. QED
    BY <1>1, <1>2, <2>1
<1> DEFINE G == {k \in 0 .. n : g[k] = h[k]}
<1>4. 0 \in G
  BY <1>1, <1>2 DEF IsSums
<1>5. ASSUME NEW k \in 0 .. (n - 1), k \in G
      PROVE  k + 1 \in G
  <2>1. g[k + 1] = g[k] + c[k] * Power[k]
    BY <1>1 DEF IsSums
  <2>2. h[k + 1] = h[k] + d[k] * Power[k]
    BY <1>2 DEF IsSums
  <2>3. c[k] = d[k]
    BY <1>3
  <2>4. g[k] = h[k]
    BY <1>5
  <2>5. g[k + 1] = h[k + 1]
    BY <2>1, <2>2, <2>3, <2>4
  <2>6. QED
    BY <2>5
<1>6. n \in G
  <2> HIDE DEF G
  <2>1. QED
    BY <1>4, <1>5, InductTo
<1>7. QED
  BY <1>1, <1>2, <1>6

LEMMA Modulo ==
  ASSUME NEW V \in Nat \ {0}, NEW x \in (0 - V) .. (2 * V - 1)
  PROVE  x % V = IF x < 0 THEN x + V ELSE IF x < V THEN x ELSE x - V
<1>1. CASE x < 0
  BY <1>1, Z3
<1>2. CASE x >= 0 /\ x < V
  BY <1>2, Z3
<1>3. CASE x >= V
  BY <1>3, Z3
<1>4. QED
  BY <1>1, <1>2, <1>3

LEMMA Wraps ==
  ASSUME NEW e \in ElemCode, NEW x \in Int,
         0 - Values(e) <= x, x < 2 * Values(e)
  PROVE  x % Values(e) = IF x < 0 THEN x + Values(e)
                         ELSE IF x < Values(e) THEN x ELSE x - Values(e)
<1> DEFINE V == Values(e)
<1>1. V \in Nat \ {0}
  BY Halves
<1>2. x \in (0 - V) .. (2 * V - 1)
  BY <1>1
<1> HIDE DEF V
<1>3. x % V = IF x < 0 THEN x + V ELSE IF x < V THEN x ELSE x - V
  BY <1>1, <1>2, Modulo
<1>4. QED
  BY <1>3 DEF V

LEMMA Truncated ==
  ASSUME NEW e \in ElemCode, NEW v \in Int, 0 <= v, v < 2 * Values(e)
  PROVE  Truncate(v, e) = IF v < Values(e) THEN v ELSE v - Values(e)
<1>1. Values(e) \in Nat
  BY Halves
<1>2. 0 - Values(e) <= v
  BY <1>1
<1>3. Truncate(v, e) = IF v < 0 THEN v + Values(e) ELSE IF v < Values(e) THEN v ELSE v - Values(e)
  BY <1>2, Wraps DEF Truncate
<1>4. QED
  BY <1>1, <1>3

(* Adding with signed saturation (PADDS) is the exact sum, held at the     *)
(* ends of the range, whatever the size of the elements.                   *)
THEOREM SignedSaturation ==
  ASSUME NEW e \in ElemCode, NEW a \in 0 .. (Values(e) - 1), NEW b \in 0 .. (Values(e) - 1)
  PROVE  Truncate(ADDS(e, a, b), e)
           = Saturated(SignExtend(a, e) + SignExtend(b, e), 0 - SignMask(e), SignMask(e) - 1) % Values(e)
<1> DEFINE V == Values(e)
           H == SignMask(e)
<1> HIDE DEF V, H
<1>1. V \in Nat /\ H \in Nat /\ H >= 1 /\ V = 2 * H
  BY Halves DEF V, H
<1>2. Truncate(a, e) = a /\ Truncate(b, e) = b
  BY <1>1, Truncated DEF V
<1>3. a \in 0 .. (V - 1) /\ b \in 0 .. (V - 1)
  BY DEF V
<1>4. Truncate(a + b, e) = IF a + b < V THEN a + b ELSE a + b - V
  BY <1>1, <1>3, Truncated DEF V
<1>5. SignExtend(a, e) = IF a >= H THEN a - V ELSE a
  BY <1>2 DEF SignExtend, Negative, V, H
<1>6. SignExtend(b, e) = IF b >= H THEN b - V ELSE b
  BY <1>2 DEF SignExtend, Negative, V, H
<1>7. \A x \in Int : 0 - V <= x /\ x < 2 * V =>
        x % V = IF x < 0 THEN x + V ELSE IF x < V THEN x ELSE x - V
  BY Wraps DEF V
<1>8. ADDS(e, a, b) = IF (a >= H) = (b >= H) /\ (a >= H) # (Truncate(a + b, e) >= H)
                        THEN IF a >= H THEN H ELSE H - 1 ELSE a + b
  BY <1>2 DEF ADDS, Negative, H
<1>9. CASE a < H /\ b < H
  <2>1. ADDS(e, a, b) = IF a + b >= H THEN H - 1 ELSE a + b
    BY <1>1, <1>3, <1>4, <1>8, <1>9
  <2>2. Saturated(SignExtend(a, e) + SignExtend(b, e), 0 - H, H - 1)
          = IF a + b >= H THEN H - 1 ELSE a + b
    BY <1>1, <1>3, <1>5, <1>6, <1>9 DEF Saturated
  <2>3. QED
    BY <2>1, <2>2 DEF Truncate, V, H
<1>10. CASE a >= H /\ b >= H
  <2>1. ADDS(e, a, b) = IF a + b - V < H THEN H ELSE a + b
    BY <1>1, <1>3, <1>4, <1>8, <1>10
  <2>2. Saturated(SignExtend(a, e) + SignExtend(b, e), 0 - H, H - 1)
          = IF a + b - V < H THEN 0 - H ELSE a + b - 2 * V
    BY <1>1, <1>3, <1>5, <1>6, <1>10 DEF Saturated
  <2>3. H % V = H /\ (0 - H) % V = H
    <3>1. H \in Int /\ 0 - V <= H /\ H < V /\ H >= 0
      BY <1>1
    <3>2. 0 - H \in Int /\ 0 - V <= 0 - H /\ 0 - H < 0 /\ (0 - H) + V = H
      BY <1>1
    <3>3. QED
      BY <1>1, <1>7, <3>1, <3>2
  <2>4. a + b - V >= H => (a + b) % V = a + b - V /\ (a + b - 2 * V) % V = a + b - V
    <3>1. a + b \in Int /\ 0 - V <= a + b /\ a + b < 2 * V /\ a + b >= V
      BY <1>1, <1>3, <1>10
    <3>2. LET x == a + b - 2 * V IN x \in Int /\ 0 - V <= x /\ x < 0 /\ x + V = a + b - V
      BY <1>1, <1>3, <1>10
    <3> DEFINE x == a + b - 2 * V
               y == a + b
    <3>3. x \in Int /\ 0 - V <= x /\ x < 2 * V /\ x < 0 /\ x + V = a + b - V
      BY <1>1, <3>2
    <3>4. y \in Int /\ 0 - V <= y /\ y < 2 * V /\ ~(y < 0) /\ ~(y < V) /\ y - V = a + b - V
      BY <1>1, <3>1
    <3> HIDE DEF x, y
    <3>5. x % V = a + b - V
      BY <1>7, <3>3
    <3>6. y % V = a + b - V
      BY <1>7, <3>4
    <3>7. QED
      BY <3>5, <3>6 DEF x, y
  <2>5. Truncate(ADDS(e, a, b), e) = ADDS(e, a, b) % V
    BY DEF Truncate, V
  <2>6. CASE a + b - V < H
    BY <2>1, <2>2, <2>3, <2>5, <2>6 DEF V, H
  <2>7. CASE a + b - V >= H
    BY <1>1, <1>3, <2>1, <2>2, <2>4, <2>5, <2>7 DEF V, H
  <2>8. QED
    BY <1>1, <1>3, <2>6, <2>7
<1>11. CASE (a < H /\ b >= H) \/ (a >= H /\ b < H)
  <2>1. ADDS(e, a, b) = a + b
    BY <1>1, <1>3, <1>8, <1>11
  <2>2. Saturated(SignExtend(a, e) + SignExtend(b, e), 0 - H, H - 1) = a + b - V
    BY <1>1, <1>3, <1>5, <1>6, <1>11 DEF Saturated
  <2>3. (a + b) % V = (a + b - V) % V
    BY <1>1, <1>3, <1>7, <1>11
  <2>4. QED
    BY <2>1, <2>2, <2>3 DEF Truncate, V, H
<1>12. QED
  BY <1>1, <1>3, <1>9, <1>10, <1>11

(* Subtracting with signed saturation (PSUBS) is exact in the same way     *)
(* unless the subtrahend is the least number, which the code negates.      *)
THEOREM SignedDifference ==
  ASSUME NEW e \in ElemCode, NEW a \in 0 .. (Values(e) - 1), NEW b \in 0 .. (Values(e) - 1),
         b # SignMask(e)
  PROVE  Truncate(Integer("SUBS", e, a, b), e)
           = Saturated(SignExtend(a, e) - SignExtend(b, e), 0 - SignMask(e), SignMask(e) - 1) % Values(e)
<1> DEFINE n == Truncate(-b, e)
<1>1. /\ Values(e) \in Nat /\ SignMask(e) \in Nat
      /\ SignMask(e) >= 1 /\ Values(e) = 2 * SignMask(e)
  BY Halves
<1>2. n = IF b = 0 THEN 0 ELSE Values(e) - b
  <2>1. -b \in Int /\ 0 - Values(e) <= -b /\ -b < 2 * Values(e)
    BY <1>1
  <2>2. n = IF -b < 0 THEN -b + Values(e) ELSE IF -b < Values(e) THEN -b ELSE -b - Values(e)
    BY <2>1, Wraps DEF Truncate
  <2>3. QED
    BY <1>1, <2>2
<1>3. n \in 0 .. (Values(e) - 1)
  BY <1>1, <1>2
<1> HIDE DEF n
<1>4. SignExtend(n, e) = 0 - SignExtend(b, e)
  <2>1. Truncate(n, e) = n /\ Truncate(b, e) = b
    BY <1>1, <1>3, Truncated
  <2>2. SignExtend(b, e) = IF b >= SignMask(e) THEN b - Values(e) ELSE b
    BY <2>1 DEF SignExtend, Negative
  <2>3. SignExtend(n, e) = IF n >= SignMask(e) THEN n - Values(e) ELSE n
    BY <2>1 DEF SignExtend, Negative
  <2>4. b \in Nat /\ b < Values(e)
    BY <1>1
  <2>5. QED
    BY <1>1, <1>2, <2>2, <2>3, <2>4
<1>5. SignExtend(a, e) \in Int /\ SignExtend(b, e) \in Int
  BY <1>1 DEF SignExtend
<1>6. Integer("SUBS", e, a, b) = ADDS(e, a, n)
  BY DEF Integer, n
<1>7. QED
  BY <1>3, <1>4, <1>5, <1>6, SignedSaturation

(* Unsigned saturation (PADDUS, PSUBUS) is exact.                          *)
THEOREM UnsignedSaturation ==
  ASSUME NEW e \in ElemCode, NEW a \in 0 .. (Values(e) - 1), NEW b \in 0 .. (Values(e) - 1)
  PROVE  /\ ADDUS(e, a, b) = Saturated(a + b, 0, Values(e) - 1)
         /\ Integer("SUBUS", e, a, b) = Saturated(a - b, 0, Values(e) - 1)
<1>1. Values(e) \in Nat /\ Values(e) >= 2
  BY Halves
<1>2. Truncate(a + b, e) = IF a + b < Values(e) THEN a + b ELSE a + b - Values(e)
  BY <1>1, Truncated
<1>3. ADDUS(e, a, b) = Saturated(a + b, 0, Values(e) - 1)
  BY <1>1, <1>2 DEF ADDUS, Saturated
<1>4. Integer("SUBUS", e, a, b) = IF a > b THEN a - b ELSE 0
  BY DEF Integer
<1>5. QED
  BY <1>1, <1>3, <1>4 DEF Saturated

-----------------------------------------------------------------------------
(* The loops.                                                              *)

LEMMA LaneOfByte ==
  ASSUME NEW S \in {1, 2, 4, 8}, NEW n \in Nat, NEW j \in 0 .. (S - 1)
  PROVE  (n * S + j) \div S = n
<1>1. CASE S = 1
  BY <1>1, Z3
<1>2. CASE S = 2
  BY <1>2, Z3
<1>3. CASE S = 4
  BY <1>3, Z3
<1>4. CASE S = 8
  BY <1>4, Z3
<1>5. QED
  BY <1>1, <1>2, <1>3, <1>4

(* A loop that writes registers, and what is known while it runs.          *)
Gathers == ins.kind \in {"VPUMove", "VPUBinary", "VPUUnary"} /\ ins.at # "store"

Known ==
  /\ ins \in Instruction
  /\ ins.at = "store" => ins.kind = "VPUMove"
  /\ start.zmm \in [Regs -> Register]
  /\ i \in Nat
  /\ Vector /\ phase = "settings" => i = 0
  /\ Vector /\ phase # "settings" => ~Undefined

IInv == Known /\ LanesGathered

LEMMA InsideRegister ==
  ASSUME Known, Gathers, phase = "lanes", i < Lanes
  PROVE  /\ Elem = ins.elem /\ Elem \in ElemCode
         /\ Step \in {1, 2, 4, 8}
         /\ i * Step + Step <= ZMMBytes
<1>1. Elem = ins.elem /\ ins.elem \in ElemCode /\ ins.size \in 0 .. 3 /\ ins.scalar \in BOOLEAN
  BY DEF Known, Gathers, Elem, Instruction
<1>2. Step \in {1, 2, 4, 8}
  BY <1>1 DEF Step, Size, ElemCode
<1>3. ins.size # 3
  BY DEF Known, Gathers, Undefined, Vector
<1>4. VectorBytes(ins.size) \in {16, 32, 64}
  BY <1>1, <1>3 DEF VectorBytes
<1>5. Lanes = IF ins.scalar THEN 1 ELSE VectorBytes(ins.size) \div Step
  BY DEF Lanes, Gathers
<1>6. i \in Nat
  BY DEF Known
<1>7. i * Step + Step <= 64
  <2>1. CASE Step = 1
    BY <1>4, <1>5, <1>6, <2>1, Z3
  <2>2. CASE Step = 2
    BY <1>4, <1>5, <1>6, <2>2, Z3
  <2>3. CASE Step = 4
    BY <1>4, <1>5, <1>6, <2>3, Z3
  <2>4. CASE Step = 8
    BY <1>4, <1>5, <1>6, <2>4, Z3
  <2>5. QED
    BY <1>2, <2>1, <2>2, <2>3, <2>4
<1>8. QED
  BY <1>1, <1>2, <1>7 DEF ZMMBytes

(* The loop has not been at lane i yet, in any register.                   *)
LEMMA OperandsAsFound ==
  ASSUME Known, LanesGathered, Gathers, phase = "lanes", i < Lanes, NEW r \in Regs
  PROVE  uint(zmm[r], Elem, i) = uint(start.zmm[r], Elem, i)
<1>1. Elem = ins.elem /\ Step \in {1, 2, 4, 8} /\ i * Step + Step <= ZMMBytes /\ Step = Size(Elem)
  BY InsideRegister DEF Step
<1>2. zmm = [start.zmm EXCEPT ![ins.reg] = Gathered(i)]
  BY DEF LanesGathered, Gathers, Vector
<1>3. start.zmm \in [Regs -> Register] /\ i \in Nat /\ ins.reg \in Regs
  BY DEF Known, Instruction
<1>4. ASSUME NEW j \in 0 .. (Step - 1)
      PROVE  zmm[r][i * Step + j] = start.zmm[r][i * Step + j]
  <2>1. (i * Step + j) \div Step = i
    BY <1>1, <1>3, LaneOfByte
  <2>2. i * Step + j \in 0 .. (ZMMBytes - 1)
    BY <1>1, <1>3 DEF ZMMBytes
  <2>3. Gathered(i)[i * Step + j] = start.zmm[ins.reg][i * Step + j]
    BY <1>3, <2>1, <2>2 DEF Gathered
  <2>4. QED
    BY <1>2, <1>3, <2>3
<1>5. \A k \in 0 .. (Step - 1) : zmm[r][i * Step + k] = start.zmm[r][i * Step + k]
  BY <1>4
<1>6. Step \in 0 .. 8
  BY <1>1
<1>7. Held(zmm[r], i * Step, Step) = Held(start.zmm[r], i * Step, Step)
  <2> DEFINE p == i * Step
             now == zmm[r]
             then == start.zmm[r]
             n == Step
  <2>1. \A k \in 0 .. (n - 1) : now[p + k] = then[p + k]
    BY <1>5
  <2>2. n \in Nat /\ n <= 8
    BY <1>6
  <2> HIDE DEF p, now, then, n
  <2>3. Held(now, p, n) = Held(then, p, n)
    BY <2>1, <2>2, HeldSame
  <2>4. QED
    BY <2>3 DEF p, now, then, n
<1>8. QED
  BY <1>1, <1>7 DEF uint

LEMMA OperandsFound ==
  ASSUME Known, LanesGathered, Gathers, phase = "lanes", i < Lanes
  PROVE  Operand = Last(i) /\ uint(zmm[ins.src1], Elem, i) = First(i)
<1>1. ins.src1 \in Regs /\ ins.src2 \in Regs
  BY DEF Known, Instruction
<1>2. mem = start.mem
  BY DEF LanesGathered, Gathers, Vector
<1>3. Place = LanePlace(i)
  BY DEF Place, LanePlace
<1>4. QED
  BY <1>1, <1>2, <1>3, OperandsAsFound DEF Operand, Last, First

(* The byte of a lane that is written, and of one that is left, as the     *)
(* loop goes past it.                                                      *)
LEMMA Written1 ==
  ASSUME Known, LanesGathered, Gathers, phase = "lanes", i < Lanes, Changes(i)
  PROVE  [zmm EXCEPT ![ins.reg] = WithLane(@, Elem, i, Wanted(i))]
           = [start.zmm EXCEPT ![ins.reg] = Gathered(i + 1)]
<1>1. Step \in {1, 2, 4, 8} /\ Step = Size(Elem)
  BY InsideRegister DEF Step
<1>2. zmm = [start.zmm EXCEPT ![ins.reg] = Gathered(i)]
  BY DEF LanesGathered, Gathers, Vector
<1>3. start.zmm \in [Regs -> Register] /\ i \in Nat /\ ins.reg \in Regs
  BY DEF Known, Instruction
<1>4. zmm[ins.reg] = Gathered(i)
  BY <1>2, <1>3
<1>5. WithLane(Gathered(i), Elem, i, Wanted(i)) = Gathered(i + 1)
  <2>1. DOMAIN Gathered(i) = 0 .. (ZMMBytes - 1)
    BY DEF Gathered
  <2>2. ASSUME NEW k \in 0 .. (ZMMBytes - 1)
        PROVE  WithLane(Gathered(i), Elem, i, Wanted(i))[k] = Gathered(i + 1)[k]
    <3>1. k \div Step \in Int
      BY <1>1 DEF ZMMBytes
    <3>2. CASE k \div Step = i
      BY <1>1, <1>3, <2>1, <3>2 DEF WithLane, Gathered
    <3>3. CASE k \div Step # i
      <4>1. k \div Step < i + 1 <=> k \div Step < i
        BY <1>3, <3>1, <3>3
      <4>2. WithLane(Gathered(i), Elem, i, Wanted(i))[k] = Gathered(i)[k]
        BY <1>1, <2>1, <3>3 DEF WithLane
      <4>3. QED
        BY <4>1, <4>2 DEF Gathered
    <3>4. QED
      BY <3>2, <3>3
  <2>3. QED
    BY <2>1, <2>2 DEF WithLane, Gathered
<1>6. QED
  BY <1>2, <1>3, <1>4, <1>5

LEMMA Left1 ==
  ASSUME Known, Gathers, phase = "lanes", i < Lanes, ~Changes(i)
  PROVE  Gathered(i + 1) = Gathered(i)
<1>1. Step \in {1, 2, 4, 8}
  BY InsideRegister
<1>2. i \in Nat
  BY DEF Known
<1>3. ASSUME NEW k \in 0 .. (ZMMBytes - 1)
      PROVE  (k \div Step < i + 1 /\ Changes(k \div Step)) <=> (k \div Step < i /\ Changes(k \div Step))
  <2>1. k \div Step \in Int
    BY <1>1 DEF ZMMBytes
  <2>2. CASE k \div Step = i
    BY <1>2, <2>2
  <2>3. CASE k \div Step # i
    BY <1>2, <2>1, <2>3
  <2>4. QED
    BY <2>2, <2>3
<1>4. QED
  BY <1>3 DEF Gathered

(* What is wanted depends on the instruction and on what it found.         *)
LEMMA WantedStays ==
  ASSUME ins' = ins, start' = start, NEW n
  PROVE  Gathered(n)' = Gathered(n)
<1>1. Elem' = Elem /\ Step' = Step /\ Packed' = Packed
  BY DEF Elem, Step, Packed, PackedModes, Size
<1>2. ASSUME NEW j PROVE First(j)' = First(j) /\ LanePlace(j)' = LanePlace(j)
  BY <1>1 DEF First, LanePlace
<1>3. ASSUME NEW j PROVE Last(j)' = Last(j)
  BY <1>1, <1>2 DEF Last
<1>4. ASSUME NEW j PROVE Wanted(j)' = Wanted(j) /\ Changes(j)' = Changes(j)
  BY <1>1, <1>2, <1>3 DEF Wanted, Changes
<1>5. QED
  BY <1>1, <1>4 DEF Gathered

LEMMA Standing ==
  ASSUME IInv, ins' = ins, start' = start, i' = i, mem' = mem, phase' = phase,
         zmm' = zmm \/ ~Vector \/ ins.kind = "VPUCVT_packed" \/ ins.at = "store"
  PROVE  IInv'
<1>1. Vector' = Vector /\ Undefined' = Undefined
  BY DEF Vector, Undefined
<1>2. Known'
  BY <1>1 DEF IInv, Known
<1>3. Gathered(i)' = Gathered(i)
  BY WantedStays
<1>4. LanesGathered'
  BY <1>1, <1>3 DEF IInv, LanesGathered
<1>5. QED
  BY <1>2, <1>4 DEF IInv

LEMMA Advancing ==
  ASSUME IInv, Gathers, phase = "lanes", i < Lanes,
         ins' = ins, start' = start, i' = i + 1, mem' = mem, phase' = phase,
         \/ Changes(i) /\ zmm' = [zmm EXCEPT ![ins.reg] = WithLane(@, Elem, i, Wanted(i))]
         \/ ~Changes(i) /\ zmm' = zmm
  PROVE  IInv'
<1>1. Vector' = Vector /\ Undefined' = Undefined
  BY DEF Vector, Undefined
<1>2. Known'
  BY <1>1 DEF IInv, Known
<1>3. zmm' = [start.zmm EXCEPT ![ins.reg] = Gathered(i + 1)]
  <2>1. CASE Changes(i)
    BY <2>1, Written1 DEF IInv
  <2>2. CASE ~Changes(i)
    <3>1. Gathered(i + 1) = Gathered(i)
      BY <2>2, Left1 DEF IInv
    <3>2. QED
      BY <2>2, <3>1 DEF IInv, LanesGathered, Gathers, Vector
  <2>3. QED
    BY <2>1, <2>2
<1>4. zmm' = [start.zmm' EXCEPT ![ins.reg'] = Gathered(i)']
  <2>1. Gathered(i)' = Gathered(i + 1)
    BY WantedStays DEF Gathered, Wanted, Changes, First, Last, LanePlace, Elem, Step, Packed
  <2>2. QED
    BY <1>3, <2>1
<1>5. LanesGathered'
  BY <1>4 DEF IInv, LanesGathered, Gathers, Vector
<1>6. QED
  BY <1>2, <1>5 DEF IInv

LEMMA Assigned ==
  ASSUME IInv, Gathers, phase = "lanes", i < Lanes, Changes(i), Assign(Wanted(i))
  PROVE  IInv'
BY Advancing DEF Assign, GoOn, fixed

LEMMA OutOfMask ==
  ASSUME IInv, Gathers, phase = "lanes", i < Lanes, ~Enabled, MaskedOut
  PROVE  IInv'
<1>1. CASE ins.zmask
  <2>1. Wanted(i) = 0 /\ Changes(i)
    BY <1>1 DEF Wanted, Changes, Enabled
  <2>2. QED
    BY <1>1, <2>1, Assigned DEF MaskedOut
<1>2. CASE ~ins.zmask
  <2>1. ~Changes(i)
    BY <1>2 DEF Changes, Enabled
  <2>2. QED
    BY <1>2, <2>1, Advancing DEF MaskedOut, GoOn, fixed
<1>3. QED
  BY <1>1, <1>2

LEMMA Terminated ==
  ASSUME IInv, NEW fault, Terminate(fault)
  PROVE  IInv'
BY Standing DEF Terminate, fixed

(* A loop that writes a register has written its first lanes from what the *)
(* instruction found and nothing else: the inductive form, with where the  *)
(* loop can be, from which RegisterLanes below follows.                    *)
THEOREM RegistersInvariant == Spec => []IInv
<1>1. Init => IInv
  <2> SUFFICES ASSUME Init
               PROVE  IInv
    OBVIOUS
  <2>1. Known
    BY VpuAssumption DEF Init, Known
  <2>2. LanesGathered
    <3>1. mem = start.mem /\ start.zmm = zmm /\ i = 0
      BY DEF Init
    <3>2. ASSUME Vector, ins.kind # "VPUCVT_packed"
          PROVE  Gathered(0) = start.zmm[ins.reg]
      <4>1. Elem \in ElemCode /\ ins.reg \in Regs
        BY <2>1, <3>2 DEF Known, Elem, Instruction
      <4>2. Step \in {1, 2, 4, 8}
        BY <4>1 DEF Step, Size, ElemCode
      <4>3. \A k \in 0 .. (ZMMBytes - 1) : ~(k \div Step < 0)
        <5> SUFFICES ASSUME NEW k \in 0 .. (ZMMBytes - 1)
                     PROVE  ~(k \div Step < 0)
          OBVIOUS
        <5>1. k \in Nat
          BY DEF ZMMBytes
        <5>2. QED
          BY <4>2, <5>1, Z3
      <4>4. start.zmm[ins.reg] \in Register
        BY <2>1, <4>1 DEF Known
      <4>5. QED
        BY <4>3, <4>4 DEF Gathered, Register
    <3>3. ASSUME Vector, ins.kind # "VPUCVT_packed"
          PROVE  zmm = [start.zmm EXCEPT ![ins.reg] = Gathered(i)]
      BY <2>1, <3>1, <3>2, <3>3 DEF Known, Instruction
    <3>4. QED
      BY <3>1, <3>3 DEF LanesGathered
  <2>3. QED
    BY <2>1, <2>2 DEF IInv
<1>2. IInv /\ [Next]_vars => IInv'
  <2> SUFFICES ASSUME IInv, [Next]_vars
               PROVE  IInv'
    OBVIOUS
  <2>1. CASE Settings
    <3>1. Vector' = Vector /\ Undefined' = Undefined
      BY <2>1 DEF Settings, fixed, Vector, Undefined
    <3>2. phase' # "settings" => ~Undefined
      BY <2>1 DEF Settings
    <3>3. phase = "settings" /\ i' = i /\ Vector
      BY <2>1 DEF Settings
    <3>4. Known'
      BY <2>1, <3>1, <3>2, <3>3 DEF Settings, fixed, IInv, Known
    <3>5. Gathered(i)' = Gathered(i)
      BY <2>1, WantedStays DEF Settings, fixed
    <3>6. LanesGathered'
      BY <2>1, <3>1, <3>5 DEF Settings, fixed, IInv, LanesGathered
    <3>7. QED
      BY <3>4, <3>6 DEF IInv
  <2>2. CASE Load
    <3>1. Gathers /\ phase = "lanes" /\ i < Lanes /\ ins.kind = "VPUMove"
      BY <2>2 DEF Load, AtLane, Gathers
    <3>2. CASE Enabled /\ OperandFault = "None" /\ Assign(Operand)
      <4>1. Changes(i) /\ Operand = Wanted(i)
        BY <3>1, <3>2, OperandsFound DEF IInv, Changes, Enabled, Wanted, Gathers
      <4>2. QED
        BY <3>1, <3>2, <4>1, Assigned
    <3>3. CASE Enabled /\ OperandFault # "None" /\ Terminate(OperandFault)
      BY <3>3, Terminated
    <3>4. CASE ~Enabled /\ MaskedOut
      BY <3>1, <3>4, OutOfMask
    <3>5. QED
      BY <2>2, <3>2, <3>3, <3>4 DEF Load
  <2>3. CASE Store
    <3>1. ins.at = "store" /\ phase = "lanes" /\ ins' = ins /\ start' = start /\ phase' = phase
      BY <2>3 DEF Store, AtLane, Put, Terminate, GoOn, fixed
    <3>2. i' = i \/ i' = i + 1
      BY <2>3 DEF Store, Put, Terminate, GoOn
    <3>3. Vector' = Vector /\ Undefined' = Undefined
      BY <3>1 DEF Vector, Undefined
    <3>4. Known'
      BY <3>1, <3>2, <3>3 DEF IInv, Known
    <3>5. QED
      BY <3>1, <3>4 DEF IInv, LanesGathered
  <2>4. CASE VPUBinary
    <3>1. Gathers /\ phase = "lanes" /\ i < Lanes /\ ins.kind = "VPUBinary"
      BY <2>4 DEF VPUBinary, AtLane, Gathers, IInv, Known
    <3>2. CASE /\ Enabled
               /\ Assign(Computed(ins.op, ins.cond, Elem, uint(zmm[ins.src1], Elem, i), Operand, i))
      <4>1. /\ Changes(i)
            /\ Computed(ins.op, ins.cond, Elem, uint(zmm[ins.src1], Elem, i), Operand, i) = Wanted(i)
        BY <3>1, <3>2, OperandsFound DEF IInv, Changes, Enabled, Wanted, Gathers
      <4>2. QED
        BY <3>1, <3>2, <4>1, Assigned
    <3>3. CASE \E fault : Terminate(fault)
      BY <3>3, Terminated
    <3>4. CASE ~Enabled /\ MaskedOut
      BY <3>1, <3>4, OutOfMask
    <3>5. QED
      BY <2>4, <3>2, <3>3, <3>4 DEF VPUBinary
  <2>5. CASE VPUUnary
    <3>1. Gathers /\ phase = "lanes" /\ i < Lanes /\ ins.kind = "VPUUnary"
      BY <2>5 DEF VPUUnary, AtLane, Gathers, IInv, Known
    <3>2. CASE Enabled /\ Assign(Root(ins.op, Elem, Operand))
      <4>1. Changes(i) /\ Root(ins.op, Elem, Operand) = Wanted(i)
        BY <3>1, <3>2, OperandsFound DEF IInv, Changes, Enabled, Wanted, Gathers
      <4>2. QED
        BY <3>1, <3>2, <4>1, Assigned
    <3>3. CASE \E fault : Terminate(fault)
      BY <3>3, Terminated
    <3>4. CASE ~Enabled /\ MaskedOut
      BY <3>1, <3>4, OutOfMask
    <3>5. QED
      BY <2>5, <3>2, <3>3, <3>4 DEF VPUUnary
  <2>6. CASE VPUCVT_packed
    <3>1. /\ ins.kind = "VPUCVT_packed" /\ phase = "lanes" /\ ins' = ins /\ start' = start
          /\ phase' = phase /\ mem' = mem /\ i' \in {i, i + 1}
      BY <2>6 DEF VPUCVT_packed, AtLane, Terminate, GoOn, fixed
    <3>2. Vector' = Vector /\ Undefined' = Undefined
      BY <3>1 DEF Vector, Undefined
    <3>3. Known'
      BY <3>1, <3>2 DEF IInv, Known
    <3>4. QED
      BY <3>1, <3>2, <3>3 DEF IInv, LanesGathered
  <2>7. CASE Done
    <3>1. /\ phase = "lanes" /\ phase' = "past" /\ ins' = ins /\ start' = start /\ i' = i /\ mem' = mem
          /\ zmm' = zmm \/ ins.kind = "VPUCVT_packed"
      BY <2>7 DEF Done, fixed
    <3>2. Vector' = Vector /\ Undefined' = Undefined
      BY <3>1 DEF Vector, Undefined
    <3>3. Known'
      BY <3>1, <3>2 DEF IInv, Known
    <3>4. Gathered(i)' = Gathered(i)
      BY <3>1, WantedStays
    <3>5. LanesGathered'
      BY <3>1, <3>2, <3>4 DEF IInv, LanesGathered
    <3>6. QED
      BY <3>3, <3>5 DEF IInv
  <2>8. CASE VPUCVT_scalar \/ TRANS
    <3>1. ~Vector /\ ins' = ins /\ start' = start /\ i' = i
      BY <2>8 DEF VPUCVT_scalar, TRANS, Vector, Terminate, Past, fixed
    <3>2. ~Vector'
      BY <3>1 DEF Vector
    <3>3. QED
      BY <3>1, <3>2 DEF IInv, Known, LanesGathered
  <2>9. CASE UNCHANGED vars
    BY <2>9, Standing DEF vars, memoryVars, sizeVars
  <2>10. QED
    BY <2>1, <2>2, <2>3, <2>4, <2>5, <2>6, <2>7, <2>8, <2>9 DEF Next
<1>3. QED
  BY <1>1, <1>2, PTL DEF Spec

(* Whatever aliases and wherever a loop over registers stops, the lanes it *)
(* went past hold what the operands it found give, every other byte is as  *)
(* it was, and it wrote no memory: one conjunct of LaneByLane, for every   *)
(* number of registers, width of a byte and size of memory.                *)
THEOREM RegisterLanes == Spec => []LanesGathered
<1>1. IInv => LanesGathered
  BY DEF IInv
<1>2. QED
  BY RegistersInvariant, <1>1, PTL


-----------------------------------------------------------------------------
(* Types.                                                                  *)

LEMMA ByteType ==
  ASSUME NEW v \in Int, NEW k \in 0 .. 8
  PROVE  ByteOf(v, k) \in Byte
<1> DEFINE p == Power[k]
           q == v \div p
<1>1. p \in Nat \ {0} /\ B \in Nat \ {0}
  BY BytePowers
<1> HIDE DEF p
<1>2. q \in Int
  BY <1>1, DivisionOf
<1> HIDE DEF q
<1>3. q % B \in 0 .. (B - 1)
  BY <1>1, <1>2, DivisionOf
<1>4. QED
  BY <1>3 DEF ByteOf, Byte, p, q

LEMMA LaneType ==
  ASSUME NEW r \in Register, NEW e \in ElemCode, NEW n, NEW v \in Int
  PROVE  WithLane(r, e, n, v) \in Register
<1>1. Size(e) \in {1, 2, 4, 8}
  BY Halves
<1>2. ASSUME NEW k \in 0 .. (ZMMBytes - 1)
      PROVE  (IF k \div Size(e) = n THEN ByteOf(v, k % Size(e)) ELSE r[k]) \in Byte
  <2>1. k % Size(e) \in 0 .. 8
    BY <1>1 DEF ZMMBytes
  <2>2. QED
    BY <2>1, ByteType DEF Register
<1>3. DOMAIN r = 0 .. (ZMMBytes - 1)
  BY DEF Register
<1>4. QED
  BY <1>2, <1>3 DEF WithLane, Register

(* The bits in a set make the number that has these bits.                  *)
LEMMA WidthType ==
  ASSUME NEW e \in ElemCode
  PROVE  /\ Width(e) \in Nat \ {0}
         /\ Values(e) = Two[Width(e)]
         /\ IsPowers(Two, 2, Width(e))
<1>1. Size(e) \in {1, 2, 4, 8} /\ ByteBits \in Nat \ {0}
  BY Halves, TwoPowers
<1>2. Size(e) \in 0 .. 8
  BY <1>1
<1>3. Width(e) \in 0 .. (ByteBits * 8) /\ Values(e) = Two[Width(e)]
  BY <1>2, PowerOfTwo DEF Width, Values
<1>4. Width(e) >= 1
  BY <1>1, Z3 DEF Width
<1> DEFINE n == Width(e)
           N == ByteBits * 8
<1>5. N \in Nat /\ n \in 0 .. N /\ n >= 1 /\ IsPowers(Two, 2, N)
  BY <1>3, <1>4, TwoPowers
<1> HIDE DEF n, N
<1>6. n \in Nat \ {0} /\ \A k \in 0 .. (n - 1) : k \in 0 .. (N - 1)
  BY <1>5
<1>7. IsPowers(Two, 2, n)
  BY <1>5, <1>6 DEF IsPowers
<1>8. QED
  BY <1>3, <1>6, <1>7 DEF n

LEMMA BitSums ==
  ASSUME NEW e \in ElemCode, NEW S
  PROVE  \E h, d : /\ d = [k \in 0 .. (Width(e) - 1) |-> IF k \in S THEN 1 ELSE 0]
                   /\ IsSums(h, d, Two, Width(e)) /\ h[Width(e)] = FromBits(e, S)
<1> DEFINE n == Width(e)
           t == [k \in 0 .. (n - 1) |-> (IF k \in S THEN 1 ELSE 0) * Two[k]]
           d == [k \in 0 .. (n - 1) |-> IF k \in S THEN 1 ELSE 0]
           P(f) == f = [k \in 0 .. n |-> IF k = 0 THEN 0
                                         ELSE f[k - 1] + (IF k - 1 \in S THEN 1 ELSE 0) * Two[k - 1]]
           h == CHOOSE f : P(f)
<1>0. n \in Nat
  BY WidthType
<1>3. h[n] = FromBits(e, S)
  BY DEF FromBits
<1> HIDE DEF n
<1>1. \E f : P(f)
  <2>1. PICK f : f = [k \in 0 .. n |-> IF k = 0 THEN 0 ELSE f[k - 1] + t[k - 1]]
    <3> HIDE DEF t
    <3>1. QED
      BY <1>0, SumsDefined
  <2>2. \A k \in 0 .. n : k # 0 => t[k - 1] = (IF k - 1 \in S THEN 1 ELSE 0) * Two[k - 1]
    <3> SUFFICES ASSUME NEW k \in 0 .. n, k # 0
                 PROVE  t[k - 1] = (IF k - 1 \in S THEN 1 ELSE 0) * Two[k - 1]
      OBVIOUS
    <3>1. k - 1 \in 0 .. (n - 1)
      BY <1>0
    <3>2. QED
      BY <3>1, Zenon
  <2>3. P(f)
    <3> HIDE DEF t
    <3>1. QED
      BY <2>1, <2>2, Zenon
  <2>4. QED
    BY <2>3
<1>2. P(h)
  BY <1>1
<1>4. \A k \in 0 .. n : h[k] = IF k = 0 THEN 0
                               ELSE h[k - 1] + (IF k - 1 \in S THEN 1 ELSE 0) * Two[k - 1]
  BY <1>2
<1> HIDE DEF h, P
<1>5. h[0] = 0
  BY <1>0, <1>4
<1>6. ASSUME NEW k \in 0 .. (n - 1) PROVE h[k + 1] = h[k] + d[k] * Two[k]
  <2>1. k + 1 \in 0 .. n /\ k + 1 # 0 /\ (k + 1) - 1 = k
    BY <1>0
  <2>2. h[k + 1] = h[k] + (IF k \in S THEN 1 ELSE 0) * Two[k]
    BY <1>4, <2>1
  <2>3. d[k] = IF k \in S THEN 1 ELSE 0
    OBVIOUS
  <2> HIDE DEF d
  <2>4. QED
    BY <2>2, <2>3, Zenon
<1>7. IsSums(h, d, Two, n)
  <2> HIDE DEF d
  <2>1. QED
    BY <1>5, <1>6 DEF IsSums
<1>8. QED
  BY <1>3, <1>7 DEF n

LEMMA FromBitsType ==
  ASSUME NEW e \in ElemCode, NEW S
  PROVE  /\ FromBits(e, S) \in 0 .. (Values(e) - 1)
         /\ BitsOf(e, FromBits(e, S)) = S \cap (0 .. (Width(e) - 1))
<1> DEFINE n == Width(e)
<1>1. n \in Nat \ {0} /\ Values(e) = Two[n] /\ IsPowers(Two, 2, n)
  BY WidthType
<1>2. PICK h, d : /\ d = [k \in 0 .. (n - 1) |-> IF k \in S THEN 1 ELSE 0]
                  /\ IsSums(h, d, Two, n) /\ h[n] = FromBits(e, S)
  BY BitSums
<1> HIDE DEF n
<1>3. \A k \in 0 .. (n - 1) : d[k] \in 0 .. (2 - 1)
  BY <1>2
<1>4. \A k \in 0 .. n : h[k] \in 0 .. (Two[k] - 1)
  <2>1. 2 \in Nat \ {0} /\ n \in Nat /\ IsSums(h, d, Two, n)
    BY <1>1, <1>2
  <2>2. QED
    BY <1>1, <1>3, <2>1, SumsBounded, Zenon
<1>5. FromBits(e, S) \in 0 .. (Values(e) - 1)
  <2>1. n \in 0 .. n
    BY <1>1
  <2>2. QED
    BY <1>1, <1>2, <1>4, <2>1
<1>6. ASSUME NEW k \in 0 .. (n - 1)
      PROVE  (FromBits(e, S) \div Two[k]) % 2 = d[k]
  <2>1. (h[n] \div Two[k]) % 2 = d[k]
    <3>1. 2 \in Nat \ {0} /\ n \in Nat /\ IsSums(h, d, Two, n)
      BY <1>1, <1>2
    <3>2. QED
      BY <1>1, <1>3, <3>1, DigitOfSum
  <2>2. QED
    BY <1>2, <2>1
<1>7. ASSUME NEW k \in 0 .. (n - 1)
      PROVE  (FromBits(e, S) \div Two[k]) % 2 = 1 <=> k \in S
  <2>1. d[k] = IF k \in S THEN 1 ELSE 0
    BY <1>2
  <2>2. QED
    BY <1>6, <2>1
<1>8. QED
  BY <1>5, <1>7 DEF BitsOf, n

LEMMA SignedType ==
  ASSUME NEW e \in ElemCode, NEW a \in 0 .. (Values(e) - 1)
  PROVE  /\ SignExtend(a, e) = IF a >= SignMask(e) THEN a - Values(e) ELSE a
         /\ Negative(a, e) <=> a >= SignMask(e)
         /\ SignExtend(a, e) \in Int
<1>1. /\ Values(e) \in Nat /\ SignMask(e) \in Nat /\ SignMask(e) >= 1
      /\ Values(e) = 2 * SignMask(e)
  BY Halves
<1>2. Truncate(a, e) = a
  BY <1>1, Truncated
<1>3. QED
  BY <1>1, <1>2 DEF SignExtend, Negative

LEMMA IntegerType ==
  ASSUME NEW e \in ElemCode, NEW a \in 0 .. (Values(e) - 1), NEW b \in 0 .. (Values(e) - 1),
         NEW op \in IntegerOps
  PROVE  Integer(op, e, a, b) \in Int
<1>1. /\ Values(e) \in Nat /\ SignMask(e) \in Nat /\ a \in Int /\ b \in Int
      /\ SignExtend(a, e) \in Int /\ SignExtend(b, e) \in Int
  BY Halves, SignedType
<1>2. CASE op \in {"AND", "OR", "XOR", "ANDN"}
  <2>1. \A S : FromBits(e, S) \in Int
    BY <1>1, FromBitsType
  <2>2. QED
    BY <1>2, <2>1 DEF Integer
<1>3. Truncate(a + b, e) \in Int /\ Truncate(-b, e) \in Int
  <2>1. Values(e) \in Nat \ {0}
    BY Halves
  <2>2. a + b \in Int /\ -b \in Int
    BY <1>1
  <2>3. QED
    BY <2>1, <2>2, DivisionOf DEF Truncate
<1>4. \A x, y \in Int : ADDS(e, x, y) \in Int
  BY <1>1 DEF ADDS
<1>5. ADDUS(e, a, b) \in Int
  BY <1>1, <1>3 DEF ADDUS
<1>6. CASE op \in {"ADD", "SUB", "SUBUS", "UMIN", "SMIN", "UMAX", "SMAX", "AVG"}
  BY <1>1, <1>6 DEF Integer
<1>7. CASE op = "MULL"
  <2> DEFINE x == SignExtend(a, e)
             y == SignExtend(b, e)
  <2>1. x \in Int /\ y \in Int
    BY <1>1
  <2> HIDE DEF x, y
  <2>2. x * y \in Int
    BY <2>1
  <2>3. QED
    BY <1>7, <2>2 DEF Integer, x, y
<1>8. CASE op \in {"ADDS", "ADDUS", "SUBS"}
  BY <1>1, <1>3, <1>4, <1>5, <1>8 DEF Integer
<1>9. QED
  BY <1>2, <1>6, <1>7, <1>8 DEF IntegerOps

LEMMA FloatType ==
  ASSUME NEW e \in {2, 3}, NEW a \in 0 .. (Values(e) - 1), NEW b \in 0 .. (Values(e) - 1),
         NEW op \in FloatOps, NEW cond, NEW n \in Nat
  PROVE  Float(op, cond, e, a, b, n) \in Int
<1>1. Values(e) \in Int /\ a \in Int /\ b \in Int
  BY Halves DEF ElemCode
<1>2. \A x \in {"FADD", "FSUB", "FMUL", "FDIV"} : Host(x, e, a, b) \in Int
  BY HostAssumption
<1>3. QED
  BY <1>1, <1>2 DEF Float, FloatOps

LEMMA ComputedType ==
  ASSUME NEW e \in ElemCode, NEW a \in 0 .. (Values(e) - 1), NEW b \in 0 .. (Values(e) - 1),
         NEW op \in IntegerOps \cup FloatOps, Allowed(op, e), NEW cond, NEW n \in Nat
  PROVE  Computed(op, cond, e, a, b, n) \in Int
<1>1. CASE op \in IntegerOps
  BY <1>1, IntegerType DEF Computed
<1>2. CASE op \notin IntegerOps
  <2>1. op \in FloatOps /\ op # "AVG"
    BY <1>2 DEF IntegerOps
  <2>2. e \in {2, 3}
    BY <1>2, <2>1 DEF Allowed
  <2>3. QED
    BY <1>2, <2>1, <2>2, FloatType DEF Computed
<1>3. QED
  BY <1>1, <1>2


LEMMA Fields ==
  ASSUME ins \in Instructions
  PROVE  /\ ins \in Instruction
         /\ ins.mode \in Nat /\ ins.kind \in Kind
         /\ ins.m \in Word
         /\ ins.kind = "VPUCVT_packed" => ins.mode >= 28
         /\ ins.kind = "VPUCVT_scalar" => ins.mode < 28
         /\ ins.kind = "TRANS" => ins.mode # 4
<1>1. ins \in Instruction
  BY VpuAssumption
<1>2. ins.mode \in Nat /\ ins.kind \in Kind /\ ins.m \in Word
  BY <1>1 DEF Instruction
<1>3. /\ ins.kind = "VPUCVT_packed" => ins.mode >= 28
      /\ ins.kind = "VPUCVT_scalar" => ins.mode < 28
      /\ ins.kind = "TRANS" => ins.mode # 4
  BY VpuAssumption
<1>4. QED
  BY <1>1, <1>2, <1>3

(* The lanes of an instruction that is defined fit in a register.          *)
LEMMA PackedShape ==
  ASSUME ins \in Instructions, ins.kind = "VPUCVT_packed", ins.mode <= 51
  PROVE  /\ Packed[1] \in {2, 3} /\ Packed[2] \in {2, 3}
         /\ Packed[3] \in {"double_to_i32", "single_to_i32", "double_to_ti32", "single_to_ti32",
                           "i32_to_double", "i32_to_single", "double_to_single", "single_to_double"}
         /\ PackedLanes \in {2, 4, 8, 16} /\ PackedLanes * Size(Packed[2]) <= 64
<1>1. ins.mode \in 28 .. 51
  BY Fields
<1> DEFINE g == (ins.mode - 28) \div 3
           w == (ins.mode - 28) % 3
<1>2. g \in 0 .. 7 /\ w \in 0 .. 2
  <2> DEFINE m == ins.mode - 28
  <2>1. m \in 0 .. 23
    BY <1>1
  <2> HIDE DEF m
  <2>2. m \div 3 \in 0 .. 7 /\ m % 3 \in 0 .. 2
    BY <2>1, Z3
  <2>3. QED
    BY <2>2 DEF m
<1>3. Packed = PackedModes[g + 1] /\ PackedLanes = Packed[4] * <<1, 2, 4>>[w + 1]
  BY DEF Packed, PackedLanes
<1> HIDE DEF g, w
<1>4. <<1, 2, 4>>[w + 1] \in {1, 2, 4}
  BY <1>2
<1> DEFINE u == <<1, 2, 4>>[w + 1]
<1> HIDE DEF u
<1>5. u \in {1, 2, 4} /\ PackedLanes = Packed[4] * u
  BY <1>3, <1>4 DEF u
<1>6. CASE g \in {0, 2, 6}
  <2>1. Packed[1] = 2 /\ Packed[2] = 3 /\ Packed[4] = 2
    BY <1>3, <1>6 DEF PackedModes
  <2>2. Packed[3] \in {"double_to_i32", "double_to_ti32", "double_to_single"}
    BY <1>3, <1>6 DEF PackedModes
  <2>3. QED
    BY <1>5, <2>1, <2>2 DEF Size
<1>7. CASE g \in {1, 3, 5}
  <2>1. Packed[1] = 2 /\ Packed[2] = 2 /\ Packed[4] = 4
    BY <1>3, <1>7 DEF PackedModes
  <2>2. Packed[3] \in {"single_to_i32", "single_to_ti32", "i32_to_single"}
    BY <1>3, <1>7 DEF PackedModes
  <2>3. QED
    BY <1>5, <2>1, <2>2 DEF Size
<1>8. CASE g \in {4, 7}
  <2>1. Packed[1] = 3 /\ Packed[2] = 2 /\ Packed[4] = 2
    BY <1>3, <1>8 DEF PackedModes
  <2>2. Packed[3] \in {"i32_to_double", "single_to_double"}
    BY <1>3, <1>8 DEF PackedModes
  <2>3. QED
    BY <1>5, <2>1, <2>2 DEF Size
<1>9. QED
  BY <1>2, <1>6, <1>7, <1>8

LEMMA LaneShape ==
  ASSUME ins \in Instructions, Vector, ~Undefined
  PROVE  /\ Elem \in ElemCode /\ Step = Size(Elem) /\ Step \in {1, 2, 4, 8}
         /\ Lanes \in 1 .. ZMMBytes
         /\ \A j \in 0 .. (Lanes - 1) : j * Step + Step <= ZMMBytes
<1>1. ins.elem \in ElemCode /\ ins.size \in 0 .. 3
  BY VpuAssumption DEF Instruction
<1>2. Elem \in ElemCode /\ Lanes \in 1 .. 64 /\ Lanes * Size(Elem) <= 64
  <2>1. CASE ins.kind = "VPUCVT_packed"
    <3>1. ins.mode <= 51
      BY <2>1, Fields DEF Undefined
    <3>2. QED
      BY <2>1, <3>1, PackedShape DEF Elem, Lanes, ElemCode
  <2>2. CASE ins.kind # "VPUCVT_packed"
    <3>1. ins.size # 3 /\ Elem = ins.elem
      BY <2>2 DEF Undefined, Vector, Elem
    <3>2. VectorBytes(ins.size) \in {16, 32, 64}
      BY <1>1, <3>1 DEF VectorBytes
    <3> DEFINE s == Size(Elem)
    <3>3. s \in {1, 2, 4, 8}
      BY <1>1, <3>1, Halves
    <3>4. Lanes = IF ins.scalar THEN 1 ELSE VectorBytes(ins.size) \div s
      BY <2>2 DEF Lanes, Step
    <3> HIDE DEF s
    <3>5. Lanes \in 1 .. 64 /\ Lanes * s <= 64
      BY <3>2, <3>3, <3>4
    <3>6. QED
      BY <1>1, <3>1, <3>5 DEF s
  <2>3. QED
    BY <2>1, <2>2
<1> DEFINE s == Size(Elem)
<1>3. s \in {1, 2, 4, 8} /\ Lanes * s <= 64 /\ s = Step
  BY <1>2, Halves DEF Step
<1> HIDE DEF s
<1>4. ASSUME NEW j \in 0 .. (Lanes - 1) PROVE j * s + s <= 64
  BY <1>2, <1>3
<1>5. QED
  BY <1>2, <1>3, <1>4 DEF ZMMBytes, s

LEMMA LaneOf ==
  ASSUME NEW r \in Register, NEW e \in ElemCode, NEW n \in Nat,
         n * Size(e) + Size(e) <= ZMMBytes
  PROVE  uint(r, e, n) \in 0 .. (Values(e) - 1)
<1> DEFINE s == Size(e)
           p == n * s
<1>1. s \in {1, 2, 4, 8}
  BY Halves
<1>2. p \in Nat /\ p + s <= 64
  <2> HIDE DEF s
  <2>1. p \in Nat
    BY <1>1
  <2>2. QED
    BY <2>1 DEF ZMMBytes, s
<1>3. Held(r, p, s) \in 0 .. (Power[s] - 1)
  <2> HIDE DEF p, s
  <2>1. \A k \in 0 .. (s - 1) : p + k \in 0 .. (ZMMBytes - 1)
    BY <1>1, <1>2 DEF ZMMBytes
  <2>2. \A k \in 0 .. (s - 1) : r[p + k] \in Byte
    BY <2>1 DEF Register
  <2>3. s \in Nat /\ s <= 8
    BY <1>1
  <2>4. QED
    BY <2>2, <2>3, HeldIs
<1>4. QED
  BY <1>3 DEF uint, Values

LEMMA ElementType ==
  ASSUME NEW s \in Nat, NEW m \in [0 .. (s - 1) -> Byte], NEW e \in ElemCode,
         NEW pos \in Nat, pos + Size(e) <= s
  PROVE  Element(m, pos, e) \in 0 .. (Values(e) - 1)
<1> DEFINE n == Size(e)
<1>1. n \in {1, 2, 4, 8}
  BY Halves
<1>2. Held(m, pos, n) \in 0 .. (Power[n] - 1)
  <2>0. pos + n <= s
    OBVIOUS
  <2> HIDE DEF n
  <2>1. \A k \in 0 .. (n - 1) : pos + k \in 0 .. (s - 1)
    BY <1>1, <2>0
  <2>2. \A k \in 0 .. (n - 1) : m[pos + k] \in Byte
    BY <2>1
  <2>3. n \in Nat /\ n <= 8
    BY <1>1
  <2>4. QED
    BY <2>2, <2>3, HeldIs
<1>3. QED
  BY <1>2 DEF Element, Values

(* What the checks of an access find.                                      *)
LEMMA Reached ==
  ASSUME mem_size \in 0 .. MaxAlloc, NEW pos \in Nat, NEW n \in 1 .. 8
  PROVE  /\ ReadFault(pos, n) \in {"None", "OutOfBounds"}
         /\ ReadFault(pos, n) = "None" <=> pos + n <= mem_size
<1>1. W \in Nat /\ MaxAlloc \in Nat /\ PtrSize = 8 /\ 2 * (MaxAlloc + PtrSize) <= W
  BY WordAssumption, VpuAssumption
<1>2. CASE pos < mem_size
  <2>1. pos + n \in 0 .. (W - 1)
    BY <1>1, <1>2
  <2> DEFINE x == pos + n
  <2>2. x % W = x
    <3> HIDE DEF x
    <3>1. QED
      BY <1>1, <2>1 DEF x
  <2>3. QED
    BY <1>2, <2>2 DEF ReadFault
<1>3. CASE pos >= mem_size
  BY <1>3 DEF ReadFault
<1>4. QED
  BY <1>2, <1>3

LEMMA WriteReached ==
  ASSUME mem_size \in 0 .. MaxAlloc, ReadonlyBarrier \in Word, NEW pos \in Nat, NEW n \in 1 .. 8
  PROVE  /\ WriteFault(pos, n) \in {"None", "OutOfBounds", "AccessViolation"}
         /\ WriteFault(pos, n) = "None" <=> pos + n <= mem_size /\ pos >= ReadonlyBarrier
BY Reached, WordAssumption DEF WriteFault, Word

LEMMA PlaceType ==
  ASSUME ins \in Instructions, NEW j \in Nat, NEW s \in Nat
  PROVE  (ins.m + j * s) % W \in Word /\ Word \subseteq Nat
<1>1. W \in Nat \ {0}
  BY BytePowers
<1>2. ins.m \in Nat
  BY <1>1, VpuAssumption DEF Instruction, Word
<1> DEFINE x == ins.m + j * s
<1>3. x \in Int
  BY <1>2
<1> HIDE DEF x
<1>4. x % W \in 0 .. (W - 1)
  BY <1>1, <1>3, DivisionOf
<1>5. QED
  BY <1>1, <1>4 DEF Word, x

-----------------------------------------------------------------------------
(* The types hold together with where the loop can be.                     *)
TypedInv ==
  /\ ins \in Instructions
  /\ TypeOK
  /\ mem_size \in 0 .. MaxAlloc
  /\ ReadonlyBarrier \in Word
  /\ phase = "settings" => i = 0
  /\ Vector /\ phase # "settings" => ~Undefined /\ i <= Lanes
  /\ Vector /\ phase = "past" => i = Lanes

LEMMA InLoop ==
  ASSUME TypedInv, phase = "lanes", Vector, i < Lanes
  PROVE  /\ i \in Nat /\ Elem \in ElemCode /\ Step = Size(Elem) /\ Step \in 1 .. 8
         /\ Place \in Nat /\ Place \in Word
         /\ i * Size(Elem) + Size(Elem) <= ZMMBytes
         /\ OperandFault \in {"None", "OutOfBounds"}
         /\ OperandFault = "None" => Operand \in 0 .. (Values(Elem) - 1)
         /\ \A r \in Regs : uint(zmm[r], Elem, i) \in 0 .. (Values(Elem) - 1)
<1>1. ~Undefined /\ i \in Nat /\ ins \in Instructions
  BY DEF TypedInv, TypeOK
<1>2. Elem \in ElemCode /\ Step = Size(Elem) /\ Step \in {1, 2, 4, 8} /\ Lanes \in 1 .. ZMMBytes
  BY <1>1, LaneShape
<1>3. i * Step + Step <= ZMMBytes
  <2>1. i \in 0 .. (Lanes - 1)
    BY <1>1, <1>2 DEF ZMMBytes
  <2>2. QED
    BY <1>1, <2>1, LaneShape
<1>4. Place \in Word /\ Place \in Nat
  BY <1>1, <1>2, PlaceType DEF Place
<1>5. \A r \in Regs : uint(zmm[r], Elem, i) \in 0 .. (Values(Elem) - 1)
  BY <1>1, <1>2, <1>3, LaneOf DEF TypedInv, TypeOK
<1>6. Step \in 1 .. 8
  BY <1>2
<1>7. /\ OperandFault \in {"None", "OutOfBounds"}
      /\ ins.at = "memory" /\ OperandFault = "None" => Place + Step <= mem_size
  BY <1>4, <1>6, Reached DEF OperandFault, TypedInv
<1>8. ASSUME OperandFault = "None" PROVE Operand \in 0 .. (Values(Elem) - 1)
  <2>1. CASE ins.at = "memory"
    <3>1. mem_size \in Nat /\ mem \in [0 .. (mem_size - 1) -> Byte]
      BY WordAssumption DEF TypedInv, TypeOK
    <3>2. Element(mem, Place, Elem) \in 0 .. (Values(Elem) - 1)
      BY <1>2, <1>4, <1>7, <1>8, <2>1, <3>1, ElementType
    <3>3. QED
      BY <2>1, <3>2 DEF Operand
  <2>2. CASE ins.at # "memory"
    <3>1. ins.src2 \in Regs
      BY <1>1, VpuAssumption DEF Instruction
    <3>2. QED
      BY <1>5, <2>2, <3>1 DEF Operand
  <2>3. QED
    BY <2>1, <2>2
<1>9. QED
  BY <1>1, <1>2, <1>3, <1>4, <1>5, <1>6, <1>7, <1>8


LEMMA InvInit == Init => TypedInv
<1> SUFFICES ASSUME Init
             PROVE  TypedInv
  OBVIOUS
<1>1. ins \in Instructions /\ ins \in Instruction
  BY VpuAssumption DEF Init
<1>2. zmm \in [Regs -> Register] /\ ReadonlyBarrier \in Word /\ i = 0 /\ phase = "settings"
      /\ error = "None" /\ flags \subseteq ComparisonFlags
  BY VpuAssumption DEF Init, ComparisonFlags
<1>3. 0 \in Byte
  BY BytePowers DEF Byte
<1>4. temp \in Register
  BY <1>3 DEF Init, Cleared, Register
<1>5. gpr \in [0 .. 7 -> Byte]
  <2>1. \A k \in 0 .. 7 : k % B \in Byte
    BY BytePowers DEF Byte
  <2>2. QED
    BY <2>1 DEF Init
<1>6. mem_size \in 0 .. MaxAlloc /\ mem \in [0 .. (mem_size - 1) -> Byte]
  <2>1. PICK c \in Contents : mem = [a \in 0 .. (Len(c) - 1) |-> c[a + 1]] /\ mem_size = Len(c)
    BY DEF Init
  <2>2. c \in Seq(Byte) /\ Len(c) \in 0 .. MaxAlloc
    BY VpuAssumption, WordAssumption
  <2>3. \A a \in 0 .. (Len(c) - 1) : c[a + 1] \in Byte
    BY <2>2
  <2>4. QED
    BY <2>1, <2>2, <2>3
<1>7. i \in 0 .. ZMMBytes
  BY <1>2 DEF ZMMBytes
<1>8. QED
  BY <1>1, <1>2, <1>4, <1>5, <1>6, <1>7 DEF TypedInv, TypeOK, Faults

(* A step of a loop: what it writes is of its type and it goes on, or it   *)
(* stops where it is.                                                      *)
LEMMA Going ==
  ASSUME TypedInv, Vector, phase = "lanes", i < Lanes, GoOn, temp' \in Register,
         zmm' \in [Regs -> Register], mem' \in [0 .. (mem_size - 1) -> Byte],
         flags' \subseteq ComparisonFlags
  PROVE  TypedInv'
<1>1. /\ ins' = ins /\ mem_size' = mem_size /\ ReadonlyBarrier' = ReadonlyBarrier
      /\ i' = i + 1 /\ gpr' = gpr /\ phase' = phase /\ error' = error
  BY DEF GoOn, fixed, limitVars
<1>2. Vector' = Vector /\ Undefined' = Undefined /\ Lanes' = Lanes
  BY <1>1 DEF Vector, Undefined, Lanes, PackedLanes, Packed, Step, Elem, PackedModes, Size
<1>3. i + 1 <= Lanes /\ i + 1 \in 0 .. ZMMBytes
  <2>1. Lanes \in 1 .. ZMMBytes /\ i \in Nat
    BY LaneShape DEF TypedInv, TypeOK
  <2>2. QED
    BY <2>1 DEF ZMMBytes
<1>4. QED
  BY <1>1, <1>2, <1>3 DEF TypedInv, TypeOK

LEMMA Stopping ==
  ASSUME TypedInv, NEW fault \in Faults, Terminate(fault)
  PROVE  TypedInv'
<1>1. /\ ins' = ins /\ mem_size' = mem_size /\ ReadonlyBarrier' = ReadonlyBarrier
      /\ i' = i /\ gpr' = gpr /\ phase' = phase /\ error' = fault /\ zmm' = zmm /\ temp' = temp
      /\ mem' = mem /\ flags' = flags
  BY DEF Terminate, fixed, limitVars
<1>2. Vector' = Vector /\ Undefined' = Undefined /\ Lanes' = Lanes
  BY <1>1 DEF Vector, Undefined, Lanes, PackedLanes, Packed, Step, Elem, PackedModes, Size
<1>3. QED
  BY <1>1, <1>2 DEF TypedInv, TypeOK

LEMMA AssignType ==
  ASSUME TypedInv, Vector, phase = "lanes", i < Lanes, NEW v \in Int, Assign(v),
         flags' \subseteq ComparisonFlags
  PROVE  TypedInv'
<1>1. Elem \in ElemCode
  BY InLoop
<1>2. zmm' \in [Regs -> Register]
  <2>1. \A r \in Register : WithLane(r, Elem, i, v) \in Register
    BY <1>1, LaneType
  <2>2. zmm \in [Regs -> Register]
    BY DEF TypedInv, TypeOK
  <2>3. QED
    BY <2>1, <2>2 DEF Assign
<1>3. QED
  BY <1>2, Going DEF Assign, TypedInv, TypeOK

LEMMA MaskedType ==
  ASSUME TypedInv, Vector, phase = "lanes", i < Lanes, MaskedOut
  PROVE  TypedInv'
<1>1. flags' = flags /\ flags \subseteq ComparisonFlags
  BY DEF MaskedOut, TypedInv, TypeOK
<1>2. CASE ins.zmask
  BY <1>1, <1>2, AssignType DEF MaskedOut
<1>3. CASE ~ins.zmask
  BY <1>1, <1>3, Going DEF MaskedOut, TypedInv, TypeOK
<1>4. QED
  BY <1>2, <1>3

LEMMA PutType ==
  ASSUME TypedInv, Vector, phase = "lanes", i < Lanes, NEW v \in Int, Put(v)
  PROVE  TypedInv'
<1>1. Place \in Nat /\ Step \in 1 .. 8
  BY InLoop
<1>2. CASE WriteFault(Place, Step) # "None"
  <2>1. WriteFault(Place, Step) \in Faults
    BY <1>1, WriteReached DEF TypedInv, Faults
  <2>2. QED
    BY <1>2, <2>1, Stopping DEF Put
<1>3. CASE WriteFault(Place, Step) = "None"
  <2>1. mem' = Written(mem, Place, Step, v) /\ GoOn /\ zmm' = zmm /\ flags' = flags /\ temp' = temp
    BY <1>3 DEF Put
  <2>2. mem \in [0 .. (mem_size - 1) -> Byte]
    BY DEF TypedInv, TypeOK
  <2>3. ASSUME NEW a \in 0 .. (mem_size - 1), a \in Place .. (Place + Step - 1)
        PROVE  ByteOf(v, a - Place) \in Byte
    <3>1. a - Place \in 0 .. 8
      BY <1>1, <2>3
    <3>2. QED
      BY <3>1, ByteType
  <2>4. Written(mem, Place, Step, v) \in [0 .. (mem_size - 1) -> Byte]
    BY <2>2, <2>3 DEF Written
  <2>5. QED
    BY <2>1, <2>4, Going DEF TypedInv, TypeOK
<1>4. QED
  BY <1>2, <1>3

LEMMA OneValue ==
  ASSUME TypedInv, ~Vector, Past,
         \/ gpr' \in [0 .. 7 -> Byte] /\ zmm' = zmm
         \/ gpr' = gpr /\ zmm' \in [Regs -> Register]
  PROVE  TypedInv'
<1>1. /\ ins' = ins /\ mem_size' = mem_size /\ ReadonlyBarrier' = ReadonlyBarrier
      /\ i' = i /\ phase' = "past" /\ error' = error /\ temp' = temp
      /\ mem' = mem /\ flags' = flags
  BY DEF Past, fixed, limitVars, sizeVars
<1>2. ~Vector'
  BY <1>1 DEF Vector
<1>3. QED
  BY <1>1, <1>2 DEF TypedInv, TypeOK

LEMMA ToGPRType ==
  ASSUME TypedInv, ~Vector, Past, NEW e \in ElemCode, NEW v \in Int, ToGPR(e, v)
  PROVE  TypedInv'
<1>1. 0 \in Byte /\ \A k \in 0 .. 7 : ByteOf(v, k) \in Byte
  BY BytePowers, ByteType DEF Byte
<1>2. gpr' \in [0 .. 7 -> Byte] /\ zmm' = zmm
  BY <1>1 DEF ToGPR, GPRWith
<1>3. QED
  BY <1>2, OneValue

LEMMA ToXMMType ==
  ASSUME TypedInv, ~Vector, Past, NEW e \in ElemCode, NEW v \in Int, ToXMM(e, v)
  PROVE  TypedInv'
<1>1. \A r \in Register : WithLane(r, e, 0, v) \in Register
  BY LaneType
<1>2. zmm' \in [Regs -> Register] /\ gpr' = gpr
  BY <1>1 DEF ToXMM, TypedInv, TypeOK
<1>3. QED
  BY <1>2, OneValue

LEMMA GPRLaneType ==
  ASSUME TypedInv, NEW e \in ElemCode
  PROVE  GPRLane(e) \in 0 .. (Values(e) - 1)
<1> DEFINE n == Size(e)
<1>1. n \in {1, 2, 4, 8}
  BY Halves
<1> HIDE DEF n
<1>2. \A k \in 0 .. (n - 1) : gpr[0 + k] \in Byte
  BY <1>1 DEF TypedInv, TypeOK
<1>3. Held(gpr, 0, n) \in 0 .. (Power[n] - 1)
  BY <1>1, <1>2, HeldIs
<1>4. QED
  BY <1>3 DEF GPRLane, Values, n

LEMMA FirstLane ==
  ASSUME TypedInv, NEW e \in ElemCode, NEW r \in Regs
  PROVE  uint(zmm[r], e, 0) \in 0 .. (Values(e) - 1)
<1>1. Size(e) \in {1, 2, 4, 8} /\ zmm[r] \in Register
  BY Halves DEF TypedInv, TypeOK
<1>2. 0 * Size(e) + Size(e) <= ZMMBytes
  BY <1>1 DEF ZMMBytes
<1>3. QED
  BY <1>1, <1>2, LaneOf

LEMMA ScalarShape ==
  ASSUME ins \in Instructions, ins.kind = "VPUCVT_scalar"
  PROVE  /\ ScalarTo \in {2, 3} /\ ScalarFrom \in {2, 3}
         /\ ScalarDelegate \in {"double_to_i", "single_to_i", "double_to_ti", "single_to_ti",
                                "i_to_double", "i_to_single", "double_to_single", "single_to_double"}
<1> DEFINE m == ins.mode
           g == m \div 4
           h == (m % 4) \div 2
<1>1. m \in 0 .. 27
  BY Fields
<1>2. h \in {0, 1} /\ (m < 24 => g \in 0 .. 5)
  <2> HIDE DEF m
  <2>1. m % 4 \in 0 .. 3
    BY <1>1
  <2>2. QED
    BY <1>1, <2>1
<1>3. SizeOfSI \in {2, 3}
  BY <1>2 DEF SizeOfSI
<1>4. m < 24 => /\ ScalarModes[g + 1][2] \in {2, 3}
                /\ ScalarModes[g + 1][1] \in {"double_to_i", "single_to_i", "double_to_ti",
                                              "single_to_ti", "i_to_double", "i_to_single"}
  <2> HIDE DEF m, g
  <2>1. QED
    BY <1>2 DEF ScalarModes
<1>5. ScalarTo = IF m < 16 THEN SizeOfSI ELSE IF m < 24 THEN ScalarModes[g + 1][2]
                 ELSE IF m < 26 THEN 2 ELSE 3
  BY DEF ScalarTo
<1>6. ScalarFrom = IF m < 16 THEN ScalarModes[g + 1][2] ELSE IF m < 24 THEN SizeOfSI
                   ELSE IF m < 26 THEN 3 ELSE 2
  BY DEF ScalarFrom
<1>7. ScalarDelegate = IF m < 24 THEN ScalarModes[g + 1][1]
                       ELSE IF m < 26 THEN "double_to_single" ELSE "single_to_double"
  BY DEF ScalarDelegate
<1> HIDE DEF m, g
<1>8. QED
  BY <1>1, <1>3, <1>4, <1>5, <1>6, <1>7


LEMMA InvNext ==
  ASSUME TypedInv, [Next]_vars
  PROVE  TypedInv'
<1>1. CASE Settings
  <2>1. /\ ins' = ins /\ mem_size' = mem_size /\ ReadonlyBarrier' = ReadonlyBarrier
        /\ i' = i /\ gpr' = gpr /\ zmm' = zmm /\ temp' = temp /\ mem' = mem /\ flags' = flags
        /\ phase = "settings" /\ phase' \in {"settings", "lanes"}
        /\ phase' = "lanes" => ~Undefined
        /\ error' \in {"None", "UndefinedBehavior", "AlignmentViolation"}
    BY <1>1 DEF Settings, fixed, limitVars
  <2>2. Vector' = Vector /\ Undefined' = Undefined /\ Lanes' = Lanes
    BY <2>1 DEF Vector, Undefined, Lanes, PackedLanes, Packed, Step, Elem, PackedModes, Size
  <2>3. Vector /\ ~Undefined => 0 <= Lanes
    <3> SUFFICES ASSUME Vector, ~Undefined PROVE 0 <= Lanes
      OBVIOUS
    <3>1. Lanes \in 1 .. ZMMBytes
      BY LaneShape DEF TypedInv
    <3>2. QED
      BY <3>1 DEF ZMMBytes
  <2>4. i = 0
    BY <2>1 DEF TypedInv
  <2>5. TypeOK'
    BY <2>1 DEF TypedInv, TypeOK, Faults
  <2>6. QED
    BY <2>1, <2>2, <2>3, <2>4, <2>5 DEF TypedInv
<1>2. CASE Load
  <2>1. Vector /\ phase = "lanes" /\ i < Lanes
    BY <1>2 DEF Load, AtLane, Vector
  <2>2. CASE OperandFault = "None" /\ Assign(Operand) /\ UNCHANGED flags
    <3>1. Operand \in Int
      BY <2>1, <2>2, InLoop, Halves
    <3>2. QED
      BY <2>1, <2>2, <3>1, AssignType DEF TypedInv, TypeOK
  <2>3. CASE OperandFault # "None" /\ Terminate(OperandFault)
    BY <2>1, <2>3, InLoop, Stopping DEF Faults
  <2>4. CASE MaskedOut
    BY <2>1, <2>4, MaskedType
  <2>5. QED
    BY <1>2, <2>2, <2>3, <2>4 DEF Load
<1>3. CASE Store
  <2>1. Vector /\ phase = "lanes" /\ i < Lanes
    BY <1>3 DEF Store, AtLane, Vector
  <2>2. CASE Put(uint(zmm[ins.reg], Elem, i))
    <3>1. ins.reg \in Regs
      BY Fields DEF TypedInv, Instruction
    <3>2. uint(zmm[ins.reg], Elem, i) \in Int
      BY <2>1, <3>1, InLoop, Halves
    <3>3. QED
      BY <2>1, <2>2, <3>2, PutType
  <2>3. CASE Put(0)
    BY <2>1, <2>3, PutType
  <2>4. CASE GoOn /\ UNCHANGED <<mem, zmm, flags, temp>>
    BY <2>1, <2>4, Going DEF TypedInv, TypeOK
  <2>5. QED
    BY <1>3, <2>2, <2>3, <2>4 DEF Store
<1>4. CASE VPUBinary
  <2>1. Vector /\ phase = "lanes" /\ i < Lanes /\ ins.kind = "VPUBinary"
    BY <1>4 DEF VPUBinary, AtLane, Vector
  <2> DEFINE a == uint(zmm[ins.src1], Elem, i)
             v == Computed(ins.op, ins.cond, Elem, a, Operand, i)
  <2>2. CASE /\ OperandFault = "None" /\ Assign(v)
             /\ flags' = IF ins.op # "FCOMI" THEN flags
                         ELSE (flags \ ComparisonFlags) \cup FCOMIFlags(Elem, a, Operand)
    <3>1. ins.src1 \in Regs
      BY Fields DEF TypedInv, Instruction
    <3>2. a \in 0 .. (Values(Elem) - 1) /\ Operand \in 0 .. (Values(Elem) - 1) /\ Elem \in ElemCode
          /\ i \in Nat
      BY <2>1, <2>2, <3>1, InLoop
    <3>3. ins.op \in IntegerOps \cup FloatOps
      BY <2>1, VpuAssumption DEF TypedInv
    <3>4. Allowed(ins.op, Elem)
      BY <2>1 DEF TypedInv, Undefined, Elem
    <3>5. v \in Int
      BY <3>2, <3>3, <3>4, ComputedType
    <3>6. FCOMIFlags(Elem, a, Operand) \subseteq ComparisonFlags
      <4>1. Relation(Elem, a, Operand) \in {"unord", "great", "less", "equal"}
        BY DEF Relation
      <4>2. QED
        BY <4>1 DEF FCOMIFlags, ComparisonFlags
    <3>7. flags' \subseteq ComparisonFlags
      BY <2>2, <3>6 DEF TypedInv, TypeOK
    <3>8. QED
      BY <2>1, <2>2, <3>5, <3>7, AssignType
  <2>3. CASE \E fault \in {OperandFault, "ArithmeticError"} : fault # "None" /\ Terminate(fault)
    <3>1. OperandFault \in Faults /\ "ArithmeticError" \in Faults
      BY <2>1, InLoop DEF Faults
    <3>2. QED
      BY <2>3, <3>1, Stopping
  <2>4. CASE MaskedOut
    BY <2>1, <2>4, MaskedType
  <2>5. QED
    BY <1>4, <2>2, <2>3, <2>4 DEF VPUBinary, LaneFault
<1>5. CASE VPUUnary
  <2>1. Vector /\ phase = "lanes" /\ i < Lanes /\ ins.kind = "VPUUnary"
    BY <1>5 DEF VPUUnary, AtLane, Vector
  <2>2. CASE OperandFault = "None" /\ Assign(Root(ins.op, Elem, Operand)) /\ UNCHANGED flags
    <3>1. Operand \in 0 .. (Values(Elem) - 1)
      BY <2>1, <2>2, InLoop
    <3>2. ins.op \in UnaryOps
      BY <2>1, VpuAssumption DEF TypedInv
    <3>3. Elem \in {2, 3}
      BY <2>1, <3>2 DEF TypedInv, Undefined, Elem, Allowed, UnaryOps, IntegerOps
    <3>4. Root(ins.op, Elem, Operand) \in Int
      BY <3>1, <3>2, <3>3, HostAssumption DEF Root, UnaryOps
    <3>5. QED
      BY <2>1, <2>2, <3>4, AssignType DEF TypedInv, TypeOK
  <2>3. CASE \E fault \in {OperandFault, "ArithmeticError"} : fault # "None" /\ Terminate(fault)
    <3>1. OperandFault \in Faults /\ "ArithmeticError" \in Faults
      BY <2>1, InLoop DEF Faults
    <3>2. QED
      BY <2>3, <3>1, Stopping
  <2>4. CASE MaskedOut
    BY <2>1, <2>4, MaskedType
  <2>5. QED
    BY <1>5, <2>2, <2>3, <2>4 DEF VPUUnary, LaneFault
<1>6. CASE VPUCVT_packed
  <2>1. Vector /\ phase = "lanes" /\ i < Lanes /\ ins.kind = "VPUCVT_packed"
    BY <1>6 DEF VPUCVT_packed, AtLane, Vector
  <2>2. CASE /\ OperandFault = "None"
             /\ temp' = WithLane(temp, Packed[1], i, Host(Packed[3], Elem, Operand, 0))
             /\ GoOn /\ UNCHANGED <<mem, zmm, flags>>
    <3>1. ins \in Instructions /\ ins.mode <= 51
      BY <2>1, Fields DEF TypedInv, Undefined
    <3>2. Packed[1] \in {2, 3} /\ Elem \in {2, 3}
      BY <2>1, <3>1, PackedShape DEF Elem
    <3>3. Host(Packed[3], Elem, Operand, 0) \in Int
      <4>1. Operand \in 0 .. (Values(Elem) - 1)
        BY <2>1, <2>2, InLoop
      <4>2. Packed[3] \in {"double_to_i32", "single_to_i32", "double_to_ti32", "single_to_ti32",
                           "i32_to_double", "i32_to_single", "double_to_single", "single_to_double"}
        BY <2>1, <3>1, PackedShape
      <4>3. QED
        BY <3>2, <4>1, <4>2, HostAssumption
    <3>4. temp' \in Register
      BY <2>2, <3>2, <3>3, LaneType DEF ElemCode, TypedInv, TypeOK
    <3>5. QED
      BY <2>1, <2>2, <3>4, Going DEF TypedInv, TypeOK
  <2>3. CASE OperandFault # "None" /\ Terminate(OperandFault)
    BY <2>1, <2>3, InLoop, Stopping DEF Faults
  <2>4. CASE GoOn /\ UNCHANGED <<mem, zmm, flags, temp>>
    BY <2>1, <2>4, Going DEF TypedInv, TypeOK
  <2>5. QED
    BY <1>6, <2>2, <2>3, <2>4 DEF VPUCVT_packed
<1>7. CASE Done
  <2>1. /\ ins' = ins /\ mem_size' = mem_size /\ ReadonlyBarrier' = ReadonlyBarrier
        /\ i' = i /\ gpr' = gpr /\ temp' = temp /\ mem' = mem /\ flags' = flags
        /\ phase = "lanes" /\ phase' = "past" /\ error' = error /\ i = Lanes
    BY <1>7 DEF Done, fixed, limitVars
  <2>2. Vector' = Vector /\ Undefined' = Undefined /\ Lanes' = Lanes
    BY <2>1 DEF Vector, Undefined, Lanes, PackedLanes, Packed, Step, Elem, PackedModes, Size
  <2>3. zmm' \in [Regs -> Register]
    BY <1>7 DEF Done, TypedInv, TypeOK
  <2>4. TypeOK'
    BY <2>1, <2>3 DEF TypedInv, TypeOK
  <2>5. QED
    BY <2>1, <2>2, <2>4 DEF TypedInv
<1>8. CASE VPUCVT_scalar
  <2> DEFINE e == ScalarFrom
             source == IF ins.at = "memory" THEN Element(mem, ins.m, ScalarFrom)
                       ELSE IF ins.mode \in 16 .. 23 THEN GPRLane(ScalarFrom)
                       ELSE uint(zmm[ins.src2], ScalarFrom, 0)
             res == Host(ScalarDelegate, ScalarFrom, source, 0)
             fault == IF ins.at = "memory" THEN ReadFault(ins.m, Size(ScalarFrom)) ELSE "None"
  <2>1. ins \in Instructions /\ ins.kind = "VPUCVT_scalar" /\ ~Vector
    BY <1>8 DEF VPUCVT_scalar, TypedInv, Vector
  <2>2. ScalarTo \in {2, 3} /\ ScalarFrom \in {2, 3} /\ ins.m \in Nat /\ ins.src2 \in Regs
    <3>1. W \in Nat
      BY BytePowers
    <3>2. ins.m \in Nat
      BY <2>1, <3>1, Fields DEF Word
    <3>3. ins.src2 \in Regs
      BY <2>1, Fields DEF Instruction
    <3>4. QED
      BY <2>1, <3>2, <3>3, ScalarShape
  <2>3. Size(ScalarFrom) \in 1 .. 8 /\ ScalarFrom \in ElemCode /\ ScalarTo \in ElemCode
    BY <2>2 DEF Size, ElemCode
  <2>4. /\ fault \in {"None", "OutOfBounds"}
        /\ ins.at = "memory" /\ fault = "None" => ins.m + Size(ScalarFrom) <= mem_size
    BY <2>2, <2>3, Reached DEF TypedInv
  <2>5. ASSUME fault = "None" PROVE source \in 0 .. (Values(ScalarFrom) - 1)
    <3>1. CASE ins.at = "memory"
      <4>1. mem_size \in Nat /\ mem \in [0 .. (mem_size - 1) -> Byte]
        BY WordAssumption DEF TypedInv, TypeOK
      <4>2. Element(mem, ins.m, ScalarFrom) \in 0 .. (Values(ScalarFrom) - 1)
        BY <2>2, <2>3, <2>4, <2>5, <3>1, <4>1, ElementType
      <4>3. QED
        BY <3>1, <4>2
    <3>2. CASE ins.at # "memory"
      BY <2>2, <2>3, <3>2, GPRLaneType, FirstLane
    <3>3. QED
      BY <3>1, <3>2
  <2>6. ASSUME fault = "None" PROVE res \in Int
    <3> HIDE DEF source, fault
    <3>1. source \in 0 .. (Values(ScalarFrom) - 1)
      BY <2>5, <2>6
    <3>2. ScalarDelegate \in {"double_to_i", "single_to_i", "double_to_ti", "single_to_ti",
                              "i_to_double", "i_to_single", "double_to_single", "single_to_double"}
      BY <2>1, ScalarShape
    <3>3. QED
      BY <2>2, <3>1, <3>2, HostAssumption
  <2>7. \/ fault # "None" /\ Terminate(fault)
        \/ /\ fault = "None"
           /\ IF ins.mode < 16 THEN ToGPR(ScalarTo, res) ELSE ToXMM(ScalarTo, res)
           /\ Past
    BY <1>8 DEF VPUCVT_scalar
  <2> HIDE DEF res, fault
  <2>8. CASE fault # "None" /\ Terminate(fault)
    BY <2>4, <2>8, Stopping DEF Faults
  <2>9. CASE fault = "None" /\ Past /\ ToGPR(ScalarTo, res)
    BY <2>1, <2>3, <2>6, <2>9, ToGPRType
  <2>10. CASE fault = "None" /\ Past /\ ToXMM(ScalarTo, res)
    BY <2>1, <2>3, <2>6, <2>10, ToXMMType
  <2>11. QED
    BY <2>7, <2>8, <2>9, <2>10
<1>9. CASE TRANS
  <2> DEFINE e == 2 + ins.mode \div 2
  <2>1. ins \in Instructions /\ ins.kind = "TRANS" /\ ~Vector
    BY <1>9 DEF TRANS, TypedInv, Vector
  <2>2. CASE ins.mode > 4
    BY <1>9, <2>2, Stopping DEF TRANS, Faults
  <2>3. CASE ~(ins.mode > 4)
    <3>1. ins.mode \in 0 .. 3
      BY <2>1, <2>3, Fields
    <3>2. e \in {2, 3}
      BY <3>1
    <3>3. e \in ElemCode /\ Past
      BY <1>9, <2>3, <3>2 DEF TRANS, ElemCode
    <3>4. uint(zmm[ins.src2], e, 0) \in Int /\ GPRLane(e) \in Int
      <4>1. ins.src2 \in Regs
        BY <2>1, Fields DEF Instruction
      <4> HIDE DEF e
      <4>2. Values(e) \in Nat
        BY <3>3, Halves
      <4>3. QED
        BY <3>3, <4>1, <4>2, GPRLaneType, FirstLane
    <3>5. ToGPR(e, uint(zmm[ins.src2], e, 0)) \/ ToXMM(e, GPRLane(e))
      BY <1>9, <2>3 DEF TRANS
    <3> HIDE DEF e
    <3>6. QED
      BY <2>1, <3>3, <3>4, <3>5, ToGPRType, ToXMMType
  <2>4. QED
    BY <2>2, <2>3
<1>10. CASE UNCHANGED vars
  <2>1. /\ ins' = ins /\ mem_size' = mem_size /\ ReadonlyBarrier' = ReadonlyBarrier
        /\ i' = i /\ gpr' = gpr /\ zmm' = zmm /\ temp' = temp /\ mem' = mem /\ flags' = flags
        /\ phase' = phase /\ error' = error
    BY <1>10 DEF vars, memoryVars, limitVars, sizeVars
  <2>2. Vector' = Vector /\ Undefined' = Undefined /\ Lanes' = Lanes
    BY <2>1 DEF Vector, Undefined, Lanes, PackedLanes, Packed, Step, Elem, PackedModes, Size
  <2>3. QED
    BY <2>1, <2>2 DEF TypedInv, TypeOK
<1>11. QED
  BY <1>1, <1>2, <1>3, <1>4, <1>5, <1>6, <1>7, <1>8, <1>9, <1>10 DEF Next

(* Types hold together with where the loop can be: settings are refused    *)
(* before the first lane, and the loop never passes the last one.          *)
THEOREM VectorInvariant == Spec => []TypedInv
<1>1. TypedInv /\ [Next]_vars => TypedInv'
  BY InvNext
<1>2. QED
  BY InvInit, <1>1, PTL DEF Spec

(* Registers, memory and flags hold bytes and flags, and the loop stays    *)
(* inside a register, whatever the instruction, its operands and the       *)
(* conversions of the host.                                                *)
THEOREM VectorTypes == Spec => []TypeOK
<1>1. TypedInv => TypeOK
  BY DEF TypedInv
<1>2. QED
  BY VectorInvariant, <1>1, PTL


-----------------------------------------------------------------------------
(* Packed conversions.                                                     *)

Converted(n) ==
  [k \in 0 .. (ZMMBytes - 1) |->
     LET j == k \div Size(Packed[1])
     IN IF j < n /\ j \in ins.mask THEN ByteOf(Wanted(j), k % Size(Packed[1])) ELSE 0]

Converting ==
  ins.kind = "VPUCVT_packed" =>
    /\ temp = IF phase = "settings" THEN Cleared ELSE Converted(i)
    /\ zmm = IF phase # "past" THEN start.zmm ELSE [start.zmm EXCEPT ![ins.reg] = Converted(Lanes)]

(* What depends on the instruction and on what it found stays.             *)
LEMMA Fixed ==
  ASSUME ins' = ins, start' = start
  PROVE  /\ Vector' = Vector /\ Lanes' = Lanes /\ Elem' = Elem /\ Step' = Step
         /\ Packed' = Packed
         /\ \A n : Converted(n)' = Converted(n)
         /\ \A n : Scattered(n)' = Scattered(n)
         /\ \A j : /\ Wanted(j)' = Wanted(j) /\ Changes(j)' = Changes(j)
                   /\ First(j)' = First(j) /\ Last(j)' = Last(j) /\ LanePlace(j)' = LanePlace(j)
<1>1. Elem' = Elem /\ Step' = Step /\ Packed' = Packed /\ Vector' = Vector
  BY DEF Elem, Step, Packed, PackedModes, Size, Vector
<1>2. Lanes' = Lanes
  BY <1>1 DEF Lanes, PackedLanes, VectorBytes
<1>3. ASSUME NEW j PROVE First(j)' = First(j) /\ LanePlace(j)' = LanePlace(j)
  BY <1>1 DEF First, LanePlace
<1>4. ASSUME NEW j PROVE Last(j)' = Last(j)
  BY <1>1, <1>3 DEF Last
<1>5. ASSUME NEW j PROVE Wanted(j)' = Wanted(j) /\ Changes(j)' = Changes(j)
  BY <1>1, <1>3, <1>4 DEF Wanted, Changes
<1>6. ASSUME NEW n PROVE Converted(n)' = Converted(n)
  BY <1>1, <1>5 DEF Converted
<1>7. ASSUME NEW n PROVE Scattered(n)' = Scattered(n)
  <2> DEFINE At(m, s, a) == CHOOSE j \in 0 .. (n - 1) : a \in ((m + j * s) % W) .. (((m + j * s) % W) + s - 1)
             Of(a) == CHOOSE j \in 0 .. (n - 1) : a \in LanePlace(j) .. (LanePlace(j) + Step - 1)
             Hit(a) == \E j \in 0 .. (n - 1) : Changes(j) /\ a \in LanePlace(j) .. (LanePlace(j) + Step - 1)
  <2>1. ASSUME NEW a PROVE Of(a)' = Of(a)
    <3>1. Of(a) = At(ins.m, Step, a)
      BY Zenon DEF LanePlace
    <3>2. Of(a)' = At(ins.m', Step', a)
      BY Zenon DEF LanePlace
    <3> HIDE DEF At, Of
    <3>3. QED
      BY <1>1, <3>1, <3>2
  <2>2. ASSUME NEW a PROVE Hit(a)' <=> Hit(a)
    BY <1>1, <1>3, <1>5
  <2>3. Scattered(n) = [a \in DOMAIN start.mem |->
                          IF Hit(a) THEN ByteOf(Wanted(Of(a)), a - LanePlace(Of(a))) ELSE start.mem[a]]
    BY DEF Scattered
  <2>4. Scattered(n)' = [a \in DOMAIN start'.mem |->
                          IF Hit(a)' THEN ByteOf(Wanted(Of(a))', (a - LanePlace(Of(a)))') ELSE start'.mem[a]]
    BY DEF Scattered
  <2> HIDE DEF Hit, Of
  <2>5. ASSUME NEW a PROVE Wanted(Of(a))' = Wanted(Of(a)) /\ LanePlace(Of(a))' = LanePlace(Of(a))
    BY <1>1, <1>3, <1>5, <2>1 DEF Wanted, LanePlace, First, Last
  <2>6. QED
    BY <2>2, <2>3, <2>4, <2>5
<1>8. QED
  BY <1>1, <1>2, <1>3, <1>4, <1>5, <1>6, <1>7

LEMMA ConvertedNext ==
  ASSUME TypedInv, ins.kind = "VPUCVT_packed", phase = "lanes"
  PROVE  /\ Converted(0) = Cleared
         /\ i \in ins.mask => WithLane(Converted(i), Packed[1], i, Wanted(i)) = Converted(i + 1)
         /\ i \notin ins.mask => Converted(i + 1) = Converted(i)
<1> DEFINE s == Size(Packed[1])
<1>1. s \in {4, 8} /\ i \in Nat
  <2>1. ins \in Instructions /\ ins.mode <= 51
    BY Fields DEF TypedInv, Undefined, Vector
  <2>2. Packed[1] \in {2, 3}
    BY <2>1, PackedShape
  <2>3. QED
    BY <2>2 DEF Size, TypedInv, TypeOK, ZMMBytes
<1> HIDE DEF s
<1>2. \A k \in 0 .. (ZMMBytes - 1) : k \div s \in Nat
  BY <1>1 DEF ZMMBytes
<1>3. Converted(0) = Cleared
  <2>1. \A k \in 0 .. (ZMMBytes - 1) : ~(k \div s < 0)
    BY <1>2
  <2>2. QED
    BY <2>1 DEF Converted, Cleared, s
<1>4. ASSUME i \in ins.mask
      PROVE  WithLane(Converted(i), Packed[1], i, Wanted(i)) = Converted(i + 1)
  <2>1. ASSUME NEW k \in 0 .. (ZMMBytes - 1)
        PROVE  WithLane(Converted(i), Packed[1], i, Wanted(i))[k] = Converted(i + 1)[k]
    <3>1. k \div s \in Nat
      BY <1>2
    <3>2. WithLane(Converted(i), Packed[1], i, Wanted(i))[k]
            = IF k \div s = i THEN ByteOf(Wanted(i), k % s) ELSE Converted(i)[k]
      BY DEF WithLane, Converted, s
    <3>3. \A n : Converted(n)[k] = IF k \div s < n /\ k \div s \in ins.mask
                                   THEN ByteOf(Wanted(k \div s), k % s) ELSE 0
      BY DEF Converted, s
    <3>4. CASE k \div s = i
      BY <1>1, <1>4, <3>2, <3>3, <3>4
    <3>5. CASE k \div s # i
      <4>1. k \div s < i + 1 <=> k \div s < i
        BY <1>1, <3>1, <3>5
      <4>2. QED
        BY <3>2, <3>3, <3>5, <4>1
    <3>6. QED
      BY <3>4, <3>5
  <2>2. QED
    BY <2>1 DEF WithLane, Converted
<1>5. ASSUME i \notin ins.mask
      PROVE  Converted(i + 1) = Converted(i)
  <2>1. ASSUME NEW k \in 0 .. (ZMMBytes - 1)
        PROVE  (k \div s < i + 1 /\ k \div s \in ins.mask) <=> (k \div s < i /\ k \div s \in ins.mask)
    <3>1. k \div s \in Nat
      BY <1>2
    <3>2. CASE k \div s = i
      BY <1>1, <1>5, <3>2
    <3>3. CASE k \div s # i
      BY <1>1, <3>1, <3>3
    <3>4. QED
      BY <3>2, <3>3
  <2>2. QED
    BY <2>1 DEF Converted, s
<1>6. QED
  BY <1>3, <1>4, <1>5

LEMMA ConvertStep ==
  ASSUME TypedInv, IInv, Converting, [Next]_vars, TypedInv'
  PROVE  Converting'
<1> SUFFICES ASSUME (ins.kind = "VPUCVT_packed")' PROVE Converting'
  BY DEF Converting
<1>0. ins' = ins /\ start' = start
  BY DEF Next, vars, Settings, Load, Store, VPUBinary, VPUUnary, VPUCVT_packed, Done, VPUCVT_scalar,
         TRANS, MaskedOut, Put, Assign, GoOn, Terminate, Past, fixed
<1>1. ins.kind = "VPUCVT_packed" /\ Vector
  BY <1>0 DEF Vector
<1>2. Lanes' = Lanes /\ \A n : Converted(n)' = Converted(n)
  BY <1>0, Fixed
<1>3. CASE Settings
  <2>1. /\ phase = "settings" /\ phase' \in {"settings", "lanes"} /\ i' = i /\ temp' = temp /\ zmm' = zmm
    BY <1>3 DEF Settings, fixed
  <2>2. i = 0 /\ temp = Cleared /\ zmm = start.zmm
    BY <1>1, <2>1 DEF Converting, TypedInv
  <2>3. phase' = "lanes" => Converted(0)' = Cleared
    <3> SUFFICES ASSUME phase' = "lanes" PROVE Converted(0)' = Cleared
      OBVIOUS
    <3>1. ~Undefined
      BY <1>3 DEF Settings
    <3> DEFINE s == Size(Packed[1])
    <3>2. s \in {4, 8}
      <4>1. ins \in Instructions /\ ins.mode <= 51
        BY <1>1, <3>1, Fields DEF TypedInv, Undefined
      <4>2. Packed[1] \in {2, 3}
        BY <1>1, <4>1, PackedShape
      <4>3. QED
        BY <4>2 DEF Size
    <3> HIDE DEF s
    <3>3. \A k \in 0 .. (ZMMBytes - 1) : ~(k \div s < 0)
      BY <3>2 DEF ZMMBytes
    <3>4. Converted(0) = Cleared
      BY <3>3 DEF Converted, Cleared, s
    <3>5. QED
      BY <1>2, <3>4
  <2>4. temp' = IF phase' = "settings" THEN Cleared ELSE Converted(i)'
    <3>1. CASE phase' = "settings"
      BY <2>1, <2>2, <3>1
    <3>2. CASE phase' = "lanes"
      BY <1>2, <2>1, <2>2, <2>3, <3>2
    <3>3. QED
      BY <2>1, <3>1, <3>2
  <2>5. QED
    BY <1>0, <2>1, <2>2, <2>4 DEF Converting, Cleared
<1>4. CASE VPUCVT_packed
  <2>1. phase = "lanes" /\ i < Lanes /\ i \in Nat
    BY <1>4 DEF VPUCVT_packed, AtLane, TypedInv, TypeOK, ZMMBytes
  <2>2. temp = Converted(i) /\ zmm = start.zmm
    BY <1>1, <2>1 DEF Converting
  <2>3. mem = start.mem /\ ins.src2 \in Regs
    BY <1>1, VpuAssumption, Fields DEF IInv, LanesGathered, TypedInv, Instruction
  <2>4. Operand = Last(i)
    BY <2>2, <2>3 DEF Operand, Last, Place, LanePlace
  <2>5. CASE Enabled /\ temp' = WithLane(temp, Packed[1], i, Host(Packed[3], Elem, Operand, 0))
             /\ GoOn /\ zmm' = zmm
    <3>1. Host(Packed[3], Elem, Operand, 0) = Wanted(i)
      BY <1>1, <2>4, <2>5 DEF Wanted, Enabled
    <3>2. temp' = Converted(i + 1)
      BY <1>1, <2>1, <2>2, <2>5, <3>1, ConvertedNext DEF Enabled
    <3>3. i' = i + 1 /\ phase' = phase
      BY <2>5 DEF GoOn
    <3>4. temp' = Converted(i)'
      <4>1. Converted(i)' = Converted(i + 1)
        BY <1>0, <3>3, Fixed DEF Converted
      <4>2. QED
        BY <3>2, <4>1
    <3>5. QED
      BY <1>0, <2>1, <2>2, <2>5, <3>3, <3>4 DEF Converting
  <2>6. CASE Terminate(OperandFault)
    <3>1. i' = i /\ phase' = phase /\ zmm' = zmm /\ temp' = temp
      BY <2>6 DEF Terminate
    <3>2. Converted(i)' = Converted(i)
      BY <1>0, <3>1, Fixed DEF Converted
    <3>3. QED
      BY <1>0, <2>1, <2>2, <3>1, <3>2 DEF Converting
  <2>7. CASE ~Enabled /\ GoOn /\ UNCHANGED <<mem, zmm, flags, temp>>
    <3>1. i' = i + 1 /\ phase' = phase /\ zmm' = zmm /\ temp' = temp
      BY <2>7 DEF GoOn
    <3>2. Converted(i + 1) = Converted(i)
      BY <1>1, <2>1, <2>7, ConvertedNext DEF Enabled
    <3>3. Converted(i)' = Converted(i + 1)
      BY <1>0, <3>1, Fixed DEF Converted
    <3>4. QED
      BY <1>0, <2>1, <2>2, <3>1, <3>2, <3>3 DEF Converting
  <2>8. QED
    BY <1>4, <2>5, <2>6, <2>7 DEF VPUCVT_packed
<1>5. CASE Done
  <2>1. /\ phase = "lanes" /\ phase' = "past" /\ i' = i /\ i = Lanes /\ temp' = temp
        /\ zmm' = [zmm EXCEPT ![ins.reg] = temp]
    BY <1>1, <1>5 DEF Done
  <2>2. temp = Converted(i) /\ zmm = start.zmm
    BY <1>1, <2>1 DEF Converting
  <2>3. Converted(i)' = Converted(i) /\ Converted(Lanes)' = Converted(Lanes)
    BY <1>0, <1>2, <2>1, Fixed DEF Converted
  <2>4. QED
    BY <1>0, <2>1, <2>2, <2>3 DEF Converting
<1>6. CASE UNCHANGED vars
  <2>1. i' = i /\ phase' = phase /\ zmm' = zmm /\ temp' = temp
    BY <1>6 DEF vars
  <2>2. Converted(i)' = Converted(i) /\ Converted(Lanes)' = Converted(Lanes)
    BY <1>0, <1>2, <2>1, Fixed DEF Converted
  <2>3. QED
    BY <1>0, <1>1, <2>1, <2>2 DEF Converting
<1>7. CASE Load \/ Store \/ VPUBinary \/ VPUUnary \/ VPUCVT_scalar \/ TRANS
  BY <1>1, <1>7 DEF Load, Store, VPUBinary, VPUUnary, VPUCVT_scalar, TRANS, AtLane
<1>8. QED
  BY <1>3, <1>4, <1>5, <1>6, <1>7 DEF Next

(* A packed conversion collects its lanes in temp, which holds those it    *)
(* went past and is clear elsewhere, and touches the register only when it *)
(* is past all of them, although it may read that register.                *)
THEOREM ConversionsInvariant == Spec => []Converting
<1>1. Init => Converting
  BY DEF Init, Converting, Cleared
<1>2. TypedInv /\ IInv /\ Converting /\ [Next]_vars /\ TypedInv' => Converting'
  BY ConvertStep
<1>3. QED
  BY VectorInvariant, RegistersInvariant, <1>1, <1>2, PTL DEF Spec


-----------------------------------------------------------------------------
(* Stores.                                                                 *)

LEMMA WordLarge == W \in Nat /\ W >= 256
<1>1. B \in Nat /\ B >= 2 /\ \A k \in 0 .. 8 : Power[k] \in Nat
  BY BytePowers
<1>2. \A k \in 0 .. 7 : Power[k + 1] = B * Power[k]
  BY BytePowers DEF IsPowers
<1>3. ASSUME NEW k \in 0 .. 7 PROVE Power[k + 1] >= 2 * Power[k]
  <2> DEFINE x == Power[k]
  <2>1. x \in Nat
    BY <1>1
  <2>2. Power[k + 1] = B * x
    BY <1>2
  <2> HIDE DEF x
  <2>3. B * x >= 2 * x
    BY <1>1, <2>1, Z3
  <2>4. QED
    BY <2>2, <2>3 DEF x
<1>4. Power[0] = 1
  BY BytePowers DEF IsPowers
<1>5. Power[2] >= 4
  BY <1>1, <1>3, <1>4
<1>6. Power[4] >= 16
  BY <1>1, <1>3, <1>5
<1>7. Power[6] >= 64
  BY <1>1, <1>3, <1>6
<1>8. Power[8] >= 256
  BY <1>1, <1>3, <1>7
<1>9. QED
  BY <1>1, <1>8, BytePowers

(* Two numbers less than a word apart whose remainders are near each other *)
(* are as near themselves.                                                 *)
LEMMA NearRemainders ==
  ASSUME NEW x \in Int, NEW y \in Int, NEW d \in -64 .. 64, x - y = d,
         (x % W) - (y % W) \in -7 .. 7
  PROVE  d = (x % W) - (y % W)
<1> DEFINE r == x % W
           s == y % W
           u == x \div W
           v == y \div W
<1>1. W \in Nat /\ W >= 256
  BY WordLarge
<1>2. /\ u \in Int /\ r \in Int /\ x = r + u * W
      /\ v \in Int /\ s \in Int /\ y = s + v * W
  BY <1>1, DivisionOf
<1>3. r - s \in -7 .. 7
  OBVIOUS
<1> HIDE DEF r, s, u, v
<1> DEFINE t == u - v
<1>4. t \in Int /\ t * W = d - (r - s)
  <2>1. t \in Int
    BY <1>2
  <2>2. (u - v) * W = u * W - v * W
    BY <1>1, <1>2, Z3
  <2> DEFINE p == u * W
             q == v * W
  <2>3. p \in Int /\ q \in Int
    BY <1>1, <1>2
  <2>4. x = r + p /\ y = s + q /\ t * W = p - q
    BY <1>2, <2>2
  <2> HIDE DEF p, q
  <2>5. QED
    BY <1>2, <2>1, <2>3, <2>4
<1> HIDE DEF t
<1>5. t * W \in -71 .. 71
  BY <1>2, <1>3, <1>4
<1>6. t = 0
  <2>1. ASSUME t >= 1 PROVE FALSE
    <3>1. t * W >= W
      BY <1>1, <1>4, <2>1, Z3
    <3>2. QED
      BY <1>1, <1>5, <3>1
  <2>2. ASSUME t <= -1 PROVE FALSE
    <3>1. t * W <= -W
      BY <1>1, <1>4, <2>2, Z3
    <3>2. QED
      BY <1>1, <1>5, <3>1
  <2>3. QED
    BY <1>4, <2>1, <2>2
<1>7. d = r - s
  BY <1>1, <1>2, <1>3, <1>4, <1>6
<1>8. QED
  BY <1>7 DEF r, s

(* The lanes of a store lie apart, even where places wrap.                 *)
LEMMA LanesApart ==
  ASSUME ins \in Instructions, Vector, ~Undefined,
         NEW j \in 0 .. (Lanes - 1), NEW k \in 0 .. (Lanes - 1), NEW a,
         a \in LanePlace(j) .. (LanePlace(j) + Step - 1),
         a \in LanePlace(k) .. (LanePlace(k) + Step - 1)
  PROVE  j = k
<1> DEFINE m == ins.m
           x == m + j * Step
           y == m + k * Step
           r == x % W
           s == y % W
<1>1. Step \in {1, 2, 4, 8} /\ Lanes \in 1 .. ZMMBytes
      /\ j * Step + Step <= ZMMBytes /\ k * Step + Step <= ZMMBytes
  BY LaneShape
<1>2. m \in Nat /\ j \in Nat /\ k \in Nat
  BY <1>1, Fields, WordLarge DEF Word, ZMMBytes
<1>3. r \in Nat /\ s \in Nat
  <2>1. Step \in Nat
    BY <1>1
  <2>2. r \in Word /\ s \in Word /\ Word \subseteq Nat
    BY <1>2, <2>1, PlaceType
  <2>3. QED
    BY <2>2
<1>4. a \in r .. (r + Step - 1) /\ a \in s .. (s + Step - 1)
  BY DEF LanePlace
<1>5. r - s \in (1 - Step) .. (Step - 1)
  <2> HIDE DEF r, s
  <2>1. QED
    BY <1>1, <1>3, <1>4
<1> DEFINE d == (j - k) * Step
<1>6. x \in Int /\ y \in Int /\ x - y = d /\ d \in -64 .. 64
  <2>1. CASE Step = 1
    BY <1>1, <1>2, <2>1 DEF ZMMBytes
  <2>2. CASE Step = 2
    BY <1>1, <1>2, <2>2 DEF ZMMBytes
  <2>3. CASE Step = 4
    BY <1>1, <1>2, <2>3 DEF ZMMBytes
  <2>4. CASE Step = 8
    BY <1>1, <1>2, <2>4 DEF ZMMBytes
  <2>5. QED
    BY <1>1, <2>1, <2>2, <2>3, <2>4
<1>7. r - s \in -7 .. 7
  <2> HIDE DEF r, s
  <2>1. QED
    BY <1>1, <1>3, <1>5
<1>8. d = r - s
  <2> HIDE DEF x, y, d
  <2>1. QED
    BY <1>6, <1>7, NearRemainders
<1>9. d \in (1 - Step) .. (Step - 1)
  <2> HIDE DEF r, s, d
  <2>1. QED
    BY <1>5, <1>8
<1> DEFINE t == j - k
<1>10. t \in Int /\ t * Step \in (1 - Step) .. (Step - 1)
  BY <1>2, <1>9
<1> HIDE DEF t
<1>11. t = 0
  BY <1>1, <1>10, Z3
<1>12. QED
  BY <1>2, <1>11 DEF t

LEMMA ScatteredNext ==
  ASSUME ins \in Instructions, Vector, ~Undefined, i \in Nat, i < Lanes
  PROVE  /\ Changes(i) => Written(Scattered(i), LanePlace(i), Step, Wanted(i)) = Scattered(i + 1)
         /\ ~Changes(i) => Scattered(i + 1) = Scattered(i)
<1> DEFINE In(j, a) == a \in LanePlace(j) .. (LanePlace(j) + Step - 1)
           Hit(n, a) == \E j \in 0 .. (n - 1) : Changes(j) /\ In(j, a)
           Of(n, a) == CHOOSE j \in 0 .. (n - 1) : In(j, a)
<1>1. Lanes \in Nat /\ i \in 0 .. (Lanes - 1)
  BY LaneShape DEF ZMMBytes
<1>2. ASSUME NEW j \in 0 .. i, NEW k \in 0 .. i, NEW a, In(j, a), In(k, a)
      PROVE  j = k
  BY <1>1, <1>2, LanesApart
<1>3. \A n : Scattered(n) = [a \in DOMAIN start.mem |->
                               IF Hit(n, a) THEN ByteOf(Wanted(Of(n, a)), a - LanePlace(Of(n, a)))
                               ELSE start.mem[a]]
  BY DEF Scattered
<1>4. ASSUME NEW a, NEW n \in {i, i + 1}, NEW j \in 0 .. (n - 1), In(j, a)
      PROVE  Of(n, a) = j
  <2>1. Of(n, a) \in 0 .. (n - 1) /\ In(Of(n, a), a)
    <3> HIDE DEF In
    <3>1. \E l \in 0 .. (n - 1) : In(l, a)
      BY <1>4
    <3>2. QED
      BY <3>1
  <2> HIDE DEF In, Of
  <2>2. Of(n, a) \in 0 .. i /\ j \in 0 .. i
    BY <1>1, <2>1
  <2>3. QED
    BY <1>2, <1>4, <2>1, <2>2
<1>5. 0 .. ((i + 1) - 1) = 0 .. i /\ i \in 0 .. i /\ \A j : j \in 0 .. i <=> j \in 0 .. (i - 1) \/ j = i
  BY <1>1
<1> HIDE DEF In, Of
<1>6. ASSUME NEW a, ~In(i, a)
      PROVE  /\ Hit(i + 1, a) <=> Hit(i, a)
             /\ Hit(i, a) => Of(i + 1, a) = Of(i, a)
  <2>1. Hit(i + 1, a) <=> Hit(i, a)
    BY <1>5, <1>6
  <2>2. ASSUME Hit(i, a) PROVE Of(i + 1, a) = Of(i, a)
    <3>1. PICK j \in 0 .. (i - 1) : In(j, a)
      BY <2>2
    <3>2. j \in 0 .. ((i + 1) - 1)
      BY <1>5, <3>1
    <3>3. Of(i, a) = j
      BY <1>4, <3>1
    <3>4. Of(i + 1, a) = j
      BY <1>4, <3>1, <3>2
    <3>5. QED
      BY <3>3, <3>4
  <2>3. QED
    BY <2>1, <2>2
<1>7. ASSUME NEW a, In(i, a)
      PROVE  /\ Hit(i + 1, a) <=> Changes(i)
             /\ ~Changes(i) => ~Hit(i, a)
             /\ Of(i + 1, a) = i
  <2>1. \A j \in 0 .. i : In(j, a) => j = i
    BY <1>2, <1>5, <1>7
  <2>2. Hit(i + 1, a) <=> Changes(i)
    BY <1>5, <1>7, <2>1
  <2>3. ~Changes(i) => ~Hit(i, a)
    BY <1>5, <2>1
  <2>4. i \in 0 .. ((i + 1) - 1)
    BY <1>5
  <2>5. Of(i + 1, a) = i
    BY <1>4, <1>7, <2>4
  <2>6. QED
    BY <2>2, <2>3, <2>5
<1>8. ASSUME Changes(i)
      PROVE  Written(Scattered(i), LanePlace(i), Step, Wanted(i)) = Scattered(i + 1)
  <2>1. DOMAIN Scattered(i) = DOMAIN start.mem
    BY DEF Scattered
  <2>2. Written(Scattered(i), LanePlace(i), Step, Wanted(i))
          = [a \in DOMAIN start.mem |-> IF In(i, a) THEN ByteOf(Wanted(i), a - LanePlace(i))
                                        ELSE Scattered(i)[a]]
    BY <2>1 DEF Written, In
  <2>3. ASSUME NEW a \in DOMAIN start.mem
        PROVE  (IF In(i, a) THEN ByteOf(Wanted(i), a - LanePlace(i)) ELSE Scattered(i)[a])
                 = IF Hit(i + 1, a) THEN ByteOf(Wanted(Of(i + 1, a)), a - LanePlace(Of(i + 1, a)))
                   ELSE start.mem[a]
    <3>1. Scattered(i)[a] = IF Hit(i, a) THEN ByteOf(Wanted(Of(i, a)), a - LanePlace(Of(i, a)))
                            ELSE start.mem[a]
      BY <1>3
    <3> HIDE DEF Hit
    <3>2. CASE In(i, a)
      BY <1>7, <1>8, <3>2
    <3>3. CASE ~In(i, a)
      BY <1>6, <3>1, <3>3
    <3>4. QED
      BY <3>2, <3>3
  <2>4. QED
    BY <1>3, <2>2, <2>3
<1>9. ASSUME ~Changes(i)
      PROVE  Scattered(i + 1) = Scattered(i)
  <2>1. ASSUME NEW a \in DOMAIN start.mem
        PROVE  (IF Hit(i + 1, a) THEN ByteOf(Wanted(Of(i + 1, a)), a - LanePlace(Of(i + 1, a)))
                ELSE start.mem[a])
                 = IF Hit(i, a) THEN ByteOf(Wanted(Of(i, a)), a - LanePlace(Of(i, a)))
                   ELSE start.mem[a]
    <3> HIDE DEF Hit
    <3>1. CASE In(i, a)
      BY <1>7, <1>9, <3>1
    <3>2. CASE ~In(i, a)
      BY <1>6, <3>2
    <3>3. QED
      BY <3>1, <3>2
  <2>2. QED
    BY <1>3, <2>1
<1>10. QED
  BY <1>8, <1>9

LEMMA StoreStep ==
  ASSUME TypedInv, LanesScattered, [Next]_vars
  PROVE  LanesScattered'
<1>0. ins' = ins /\ start' = start
  BY DEF Next, vars, Settings, Load, Store, VPUBinary, VPUUnary, VPUCVT_packed, Done, VPUCVT_scalar,
         TRANS, MaskedOut, Put, Assign, GoOn, Terminate, Past, fixed
<1> SUFFICES ASSUME Vector, ins.at = "store"
             PROVE  mem' = Scattered(i)' /\ zmm' = start.zmm
  BY <1>0, Fixed DEF LanesScattered
<1>1. mem = Scattered(i) /\ zmm = start.zmm
  BY DEF LanesScattered
<1>2. ins.kind = "VPUMove"
  BY VpuAssumption DEF TypedInv
<1>3. ASSUME i' = i PROVE Scattered(i)' = Scattered(i)
  <2>1. \A n : Scattered(n)' = Scattered(n)
    BY <1>0, Fixed
  <2>2. QED
    BY <1>3, <2>1
<1>4. CASE Store
  <2>1. phase = "lanes" /\ i < Lanes /\ i \in Nat /\ ~Undefined /\ ins \in Instructions
    BY <1>4 DEF Store, AtLane, TypedInv, TypeOK, ZMMBytes
  <2>2. Place = LanePlace(i)
    BY DEF Place, LanePlace
  <2>3. ASSUME i' = i + 1 PROVE Scattered(i)' = Scattered(i + 1)
    <3>1. \A n : Scattered(n)' = Scattered(n)
      BY <1>0, Fixed
    <3>2. QED
      BY <2>3, <3>1
  <2>4. ASSUME Put(Wanted(i)), Changes(i)
        PROVE  mem' = Scattered(i)' /\ zmm' = start.zmm
    <3>1. CASE Terminate(WriteFault(Place, Step))
      BY <1>1, <1>3, <3>1 DEF Terminate
    <3>2. CASE mem' = Written(mem, Place, Step, Wanted(i)) /\ GoOn /\ UNCHANGED zmm
      BY <1>1, <2>1, <2>2, <2>3, <2>4, <3>2, ScatteredNext DEF GoOn
    <3>3. QED
      BY <2>4, <3>1, <3>2 DEF Put
  <2>5. CASE Enabled
    <3>1. Wanted(i) = uint(zmm[ins.reg], Elem, i) /\ Changes(i)
      BY <1>1, <1>2, <2>5 DEF Wanted, Changes, Enabled
    <3>2. QED
      BY <1>4, <2>4, <2>5, <3>1 DEF Store
  <2>6. CASE ~Enabled /\ ins.zmask
    <3>1. Wanted(i) = 0 /\ Changes(i)
      BY <2>6 DEF Wanted, Changes, Enabled
    <3>2. QED
      BY <1>4, <2>4, <2>6, <3>1 DEF Store
  <2>7. CASE ~Enabled /\ ~ins.zmask
    <3>1. ~Changes(i)
      BY <2>7 DEF Changes, Enabled
    <3>2. GoOn /\ UNCHANGED <<mem, zmm>>
      BY <1>4, <2>7 DEF Store
    <3>3. Scattered(i + 1) = Scattered(i)
      BY <2>1, <3>1, ScatteredNext
    <3>4. QED
      BY <1>1, <2>3, <3>2, <3>3 DEF GoOn
  <2>8. QED
    BY <2>5, <2>6, <2>7
<1>5. CASE Settings \/ Done \/ UNCHANGED vars
  <2>1. i' = i /\ mem' = mem /\ zmm' = zmm
    BY <1>2, <1>5 DEF Settings, Done, vars, memoryVars, sizeVars
  <2>2. QED
    BY <1>1, <1>3, <2>1
<1>6. CASE Load \/ VPUBinary \/ VPUUnary \/ VPUCVT_packed \/ VPUCVT_scalar \/ TRANS
  BY <1>2, <1>6 DEF Load, VPUBinary, VPUUnary, VPUCVT_packed, VPUCVT_scalar, TRANS, AtLane
<1>7. QED
  BY <1>4, <1>5, <1>6 DEF Next

(* A store has written its first lanes, from what the instruction found,   *)
(* and nothing else; lanes that wrap around the address space included.    *)
THEOREM StoresInvariant == Spec => []LanesScattered
<1>1. Init => LanesScattered
  <2> SUFFICES ASSUME Init
               PROVE  LanesScattered
    OBVIOUS
  <2>1. mem = start.mem /\ zmm = start.zmm /\ i = 0
    BY DEF Init
  <2>2. start.mem = [a \in DOMAIN start.mem |-> start.mem[a]]
    BY <2>1 DEF Init
  <2>3. Scattered(0) = [a \in DOMAIN start.mem |-> start.mem[a]]
    BY DEF Scattered
  <2>4. QED
    BY <2>1, <2>2, <2>3 DEF LanesScattered
<1>2. TypedInv /\ LanesScattered /\ [Next]_vars => LanesScattered'
  BY StoreStep
<1>3. QED
  BY VectorInvariant, <1>1, <1>2, PTL DEF Spec


-----------------------------------------------------------------------------
(* Faults.                                                                 *)

(* Whether a condition signals is told by its bits.                        *)
LEMMA ConditionSignals ==
  ASSUME NEW c \in 0 .. 31
  PROVE  Condition[c + 1][2] <=> Signals(c)
<1> DEFINE S == {1, 2, 5, 6, 9, 10, 13, 14, 16, 19, 20, 23, 24, 27, 28, 31}
<1>1. c \in S <=> Signals(c)
  BY Z3 DEF Signals, Bit
<1>2. /\ ~Condition[1][2] /\ Condition[2][2] /\ Condition[3][2] /\ ~Condition[4][2]
      /\ ~Condition[5][2] /\ Condition[6][2] /\ Condition[7][2] /\ ~Condition[8][2]
      /\ ~Condition[9][2] /\ Condition[10][2] /\ Condition[11][2] /\ ~Condition[12][2]
      /\ ~Condition[13][2] /\ Condition[14][2] /\ Condition[15][2] /\ ~Condition[16][2]
      /\ Condition[17][2] /\ ~Condition[18][2] /\ ~Condition[19][2] /\ Condition[20][2]
      /\ Condition[21][2] /\ ~Condition[22][2] /\ ~Condition[23][2] /\ Condition[24][2]
      /\ Condition[25][2] /\ ~Condition[26][2] /\ ~Condition[27][2] /\ Condition[28][2]
      /\ Condition[29][2] /\ ~Condition[30][2] /\ ~Condition[31][2] /\ Condition[32][2]
  BY DEF Condition
<1>3. QED
  BY <1>1, <1>2

(* A lane can be reached if the access does not fault.                     *)
LEMMA ReachedLane ==
  ASSUME TypedInv, phase = "lanes", Vector, i < Lanes
  PROVE  /\ ins.at # "store" => (OutOfReach(i) <=> OperandFault # "None")
         /\ ins.at = "store" => (OutOfReach(i) <=> WriteFault(Place, Step) # "None")
<1>1. Place \in Nat /\ Step \in 1 .. 8 /\ Place = LanePlace(i)
  BY InLoop DEF Place, LanePlace
<1>2. mem_size \in 0 .. MaxAlloc /\ ReadonlyBarrier \in Word
  BY DEF TypedInv
<1>3. ReadFault(Place, Step) = "None" <=> Place + Step <= mem_size
  BY <1>1, <1>2, Reached
<1>4. WriteFault(Place, Step) = "None" <=> Place + Step <= mem_size /\ Place >= ReadonlyBarrier
  BY <1>1, <1>2, WriteReached
<1>5. QED
  BY <1>1, <1>3, <1>4 DEF OutOfReach, OperandFault

(* It is bad if the operand is out of reach or the delegate faults.        *)
LEMMA BadLane ==
  ASSUME TypedInv, IInv, phase = "lanes", Gathers, i < Lanes, Enabled
  PROVE  /\ OperandFault # "None" => Bad(i)
         /\ OperandFault = "None" /\ ins.kind = "VPUMove" => ~Bad(i)
         /\ OperandFault = "None" /\ ins.kind = "VPUBinary" =>
              (Bad(i) <=> LaneFault(ins.op, ins.cond, Elem, uint(zmm[ins.src1], Elem, i), Operand) # "None")
         /\ OperandFault = "None" /\ ins.kind = "VPUUnary" =>
              (Bad(i) <=> LaneFault(ins.op, 0, Elem, Operand, 0) # "None")
<1>1. Vector /\ ins.at # "store" /\ i \in ins.mask
  BY DEF Gathers, Vector, Enabled
<1>2. OutOfReach(i) <=> OperandFault # "None"
  BY <1>1, ReachedLane
<1>3. Operand = Last(i) /\ uint(zmm[ins.src1], Elem, i) = First(i)
  BY OperandsFound DEF IInv
<1>4. \A a, b : Relation(Elem, a, b) = "unord" <=> IsNaN(a, Elem) \/ IsNaN(b, Elem)
  BY DEF Relation
<1>5. ins.kind = "VPUMove" => ins.op = "MOVE"
  BY VpuAssumption DEF TypedInv
<1>6. ins.kind = "VPUUnary" => ins.op \in UnaryOps
  BY VpuAssumption DEF TypedInv
<1>7. ASSUME ins.kind = "VPUBinary", ins.op = "FCMP"
      PROVE  Condition[ins.cond + 1][2] <=> Signals(ins.cond)
  <2>1. ~Undefined /\ ins.cond \in Nat
    BY <1>1, Fields DEF TypedInv, Instruction
  <2>2. ins.cond \in 0 .. 31
    BY <1>7, <2>1 DEF Undefined
  <2>3. QED
    BY <2>2, ConditionSignals
<1>8. OperandFault # "None" => Bad(i)
  BY <1>1, <1>2 DEF Bad
<1>9. ASSUME OperandFault = "None", ins.kind = "VPUMove" PROVE ~Bad(i)
  BY <1>1, <1>2, <1>5, <1>9 DEF Bad, UnaryOps
<1>10. ASSUME OperandFault = "None", ins.kind = "VPUBinary"
       PROVE  Bad(i) <=> LaneFault(ins.op, ins.cond, Elem, First(i), Last(i)) # "None"
  <2>1. ins.op \in IntegerOps \cup FloatOps
    BY <1>10, VpuAssumption DEF TypedInv
  <2>2. ins.op \notin UnaryOps
    BY <2>1 DEF UnaryOps, IntegerOps, FloatOps
  <2>3. CASE ins.op = "FCMP"
    BY <1>1, <1>2, <1>4, <1>7, <1>10, <2>3 DEF Bad, LaneFault, UnaryOps
  <2>4. CASE ins.op # "FCMP"
    BY <1>1, <1>2, <1>10, <2>2, <2>4 DEF Bad, LaneFault
  <2>5. QED
    BY <2>3, <2>4
<1>11. ASSUME OperandFault = "None", ins.kind = "VPUUnary"
       PROVE  Bad(i) <=> LaneFault(ins.op, 0, Elem, Last(i), 0) # "None"
  <2>1. ins.op # "FCMP" /\ ins.op \in UnaryOps
    BY <1>6, <1>11 DEF UnaryOps
  <2>2. QED
    BY <1>1, <1>2, <1>11, <2>1 DEF Bad, LaneFault
<1>12. QED
  BY <1>3, <1>8, <1>9, <1>10, <1>11

LEMMA BadStays ==
  ASSUME ins' = ins, start' = start, mem_size' = mem_size, ReadonlyBarrier' = ReadonlyBarrier, NEW j
  PROVE  Bad(j)' = Bad(j)
<1>1. /\ Elem' = Elem /\ Step' = Step
      /\ First(j)' = First(j) /\ Last(j)' = Last(j) /\ LanePlace(j)' = LanePlace(j)
  BY Fixed
<1>2. OutOfReach(j)' = OutOfReach(j)
  BY <1>1 DEF OutOfReach
<1>3. QED
  BY <1>1, <1>2 DEF Bad

LEMMA FaultStep ==
  ASSUME TypedInv, IInv, Converting, LanesScattered, FaultsWhereDue, [Next]_vars
  PROVE  FaultsWhereDue'
<1>0. ins' = ins /\ start' = start /\ mem_size' = mem_size /\ ReadonlyBarrier' = ReadonlyBarrier
  BY DEF Next, vars, Settings, Load, Store, VPUBinary, VPUUnary, VPUCVT_packed, Done, VPUCVT_scalar,
         TRANS, MaskedOut, Put, Assign, GoOn, Terminate, Past, fixed, memoryVars, sizeVars, limitVars
<1> SUFFICES ASSUME Vector
             PROVE  FaultsWhereDue'
  BY <1>0, Fixed DEF FaultsWhereDue
<1>1. Vector' /\ i \in Nat
  BY <1>0, Fixed DEF TypedInv, TypeOK, ZMMBytes
<1>2. \A j : Bad(j)' = Bad(j)
  BY <1>0, BadStays
<1> DEFINE Due == {"OutOfBounds", "AccessViolation", "ArithmeticError"}
<1>3. ASSUME i' = i, (phase' # "settings" /\ phase # "settings") \/ i = 0,
             error' \in Due => error \in Due
      PROVE  FaultsWhereDue'
  <2>1. phase' # "settings" => \A j \in 0 .. (i - 1) : ~Bad(j)
    BY <1>3 DEF FaultsWhereDue
  <2>2. error' \in Due => Bad(i)
    BY <1>3 DEF FaultsWhereDue
  <2>3. \A j \in 0 .. (i' - 1) : Bad(j)' = Bad(j)
    BY <1>2
  <2>4. Bad(i)' = Bad(i)
    BY <1>2, <1>3
  <2>5. QED
    BY <1>1, <1>3, <2>1, <2>2, <2>3, <2>4 DEF FaultsWhereDue
<1>4. ASSUME phase = "lanes", error = "None", GoOn, ~Bad(i)
      PROVE  FaultsWhereDue'
  <2>1. i' = i + 1 /\ error' = "None"
    BY <1>4 DEF GoOn
  <2>2. \A j \in 0 .. (i - 1) : ~Bad(j)
    BY <1>4 DEF FaultsWhereDue
  <2>3. \A j \in 0 .. i : ~Bad(j)
    BY <1>1, <1>4, <2>2
  <2>4. \A j \in 0 .. (i' - 1) : ~Bad(j)'
    BY <1>1, <1>2, <2>1, <2>3
  <2>5. QED
    BY <2>1, <2>4 DEF FaultsWhereDue
<1>5. ASSUME phase = "lanes", NEW fault, Terminate(fault), Bad(i)
      PROVE  FaultsWhereDue'
  <2>1. i' = i /\ phase' = phase
    BY <1>5 DEF Terminate
  <2>2. \A j \in 0 .. (i - 1) : ~Bad(j)
    BY <1>5 DEF FaultsWhereDue
  <2>3. \A j \in 0 .. (i' - 1) : ~Bad(j)'
    BY <1>2, <2>1, <2>2
  <2>4. Bad(i)'
    BY <1>2, <1>5, <2>1
  <2>5. QED
    BY <2>3, <2>4 DEF FaultsWhereDue
<1>6. CASE Settings
  <2>1. i' = i /\ i = 0 /\ error' \notin Due
    BY <1>6 DEF Settings, TypedInv
  <2>2. QED
    BY <1>3, <2>1
<1>7. CASE Load
  <2>1. Gathers /\ phase = "lanes" /\ error = "None" /\ i < Lanes /\ ins.kind = "VPUMove"
    BY <1>7 DEF Load, AtLane, Gathers
  <2>2. CASE Enabled /\ OperandFault = "None" /\ Assign(Operand)
    BY <1>4, <2>1, <2>2, BadLane DEF Assign
  <2>3. CASE Enabled /\ OperandFault # "None" /\ Terminate(OperandFault)
    BY <1>5, <2>1, <2>3, BadLane
  <2>4. CASE ~Enabled /\ MaskedOut
    <3>1. ~Bad(i) /\ GoOn
      BY <2>1, <2>4 DEF Bad, Enabled, Gathers, MaskedOut, Assign
    <3>2. QED
      BY <1>4, <2>1, <3>1
  <2>5. QED
    BY <1>7, <2>2, <2>3, <2>4 DEF Load
<1>8. CASE Store
  <2>1. phase = "lanes" /\ error = "None" /\ i < Lanes /\ ins.at = "store" /\ ins.kind = "VPUMove"
    BY <1>8 DEF Store, AtLane
  <2>2. OutOfReach(i) <=> WriteFault(Place, Step) # "None"
    BY <2>1, ReachedLane
  <2>3. ins.op = "MOVE"
    BY <2>1, VpuAssumption DEF TypedInv
  <2>4. Bad(i) <=> (Enabled \/ ins.zmask) /\ OutOfReach(i)
    BY <2>1, <2>3 DEF Bad, Enabled, UnaryOps
  <2>5. ASSUME NEW v, Put(v), Enabled \/ ins.zmask
        PROVE  FaultsWhereDue'
    <3>1. CASE WriteFault(Place, Step) # "None"
      BY <1>5, <2>1, <2>2, <2>4, <2>5, <3>1 DEF Put
    <3>2. CASE WriteFault(Place, Step) = "None"
      BY <1>4, <2>1, <2>2, <2>4, <2>5, <3>2 DEF Put
    <3>3. QED
      BY <3>1, <3>2
  <2>6. CASE ~Enabled /\ ~ins.zmask /\ GoOn
    BY <1>4, <2>1, <2>4, <2>6
  <2>7. QED
    BY <1>8, <2>5, <2>6 DEF Store
<1>9. CASE VPUBinary
  <2> DEFINE a == uint(zmm[ins.src1], Elem, i)
             lf == LaneFault(ins.op, ins.cond, Elem, a, Operand)
             fault == IF OperandFault # "None" THEN OperandFault ELSE lf
  <2>1. Gathers /\ phase = "lanes" /\ error = "None" /\ i < Lanes /\ ins.kind = "VPUBinary"
    BY <1>9, VpuAssumption DEF VPUBinary, AtLane, Gathers, TypedInv
  <2>2. Enabled => (Bad(i) <=> fault # "None")
    <3>1. Enabled /\ OperandFault # "None" => Bad(i)
      BY <2>1, BadLane
    <3>2. Enabled /\ OperandFault = "None" => (Bad(i) <=> lf # "None")
      BY <2>1, BadLane
    <3> HIDE DEF lf
    <3>3. QED
      BY <3>1, <3>2
  <2>3. \/ Enabled /\ fault = "None" /\ GoOn
        \/ Enabled /\ fault # "None" /\ Terminate(fault)
        \/ ~Enabled /\ MaskedOut
    BY <1>9 DEF VPUBinary, Assign
  <2> HIDE DEF fault
  <2>4. CASE Enabled /\ fault = "None" /\ GoOn
    BY <1>4, <2>1, <2>2, <2>4
  <2>5. CASE Enabled /\ fault # "None" /\ Terminate(fault)
    BY <1>5, <2>1, <2>2, <2>5
  <2>6. CASE ~Enabled /\ MaskedOut
    <3>1. ~Bad(i) /\ GoOn
      BY <2>1, <2>6 DEF Bad, Enabled, Gathers, MaskedOut, Assign
    <3>2. QED
      BY <1>4, <2>1, <3>1
  <2>7. QED
    BY <2>3, <2>4, <2>5, <2>6
<1>10. CASE VPUUnary
  <2> DEFINE lf == LaneFault(ins.op, 0, Elem, Operand, 0)
             fault == IF OperandFault # "None" THEN OperandFault ELSE lf
  <2>1. Gathers /\ phase = "lanes" /\ error = "None" /\ i < Lanes /\ ins.kind = "VPUUnary"
    BY <1>10, VpuAssumption DEF VPUUnary, AtLane, Gathers, TypedInv
  <2>2. Enabled => (Bad(i) <=> fault # "None")
    <3>1. Enabled /\ OperandFault # "None" => Bad(i)
      BY <2>1, BadLane
    <3>2. Enabled /\ OperandFault = "None" => (Bad(i) <=> lf # "None")
      BY <2>1, BadLane
    <3> HIDE DEF lf
    <3>3. QED
      BY <3>1, <3>2
  <2>3. \/ Enabled /\ fault = "None" /\ GoOn
        \/ Enabled /\ fault # "None" /\ Terminate(fault)
        \/ ~Enabled /\ MaskedOut
    BY <1>10 DEF VPUUnary, Assign
  <2> HIDE DEF fault
  <2>4. CASE Enabled /\ fault = "None" /\ GoOn
    BY <1>4, <2>1, <2>2, <2>4
  <2>5. CASE Enabled /\ fault # "None" /\ Terminate(fault)
    BY <1>5, <2>1, <2>2, <2>5
  <2>6. CASE ~Enabled /\ MaskedOut
    <3>1. ~Bad(i) /\ GoOn
      BY <2>1, <2>6 DEF Bad, Enabled, Gathers, MaskedOut, Assign
    <3>2. QED
      BY <1>4, <2>1, <3>1
  <2>7. QED
    BY <2>3, <2>4, <2>5, <2>6
<1>11. CASE VPUCVT_packed
  <2>1. phase = "lanes" /\ error = "None" /\ i < Lanes /\ ins.kind = "VPUCVT_packed"
    BY <1>11 DEF VPUCVT_packed, AtLane
  <2>2. ins.op = "MOVE" /\ ins.at # "store"
    BY <2>1, VpuAssumption DEF TypedInv
  <2>3. Bad(i) <=> Enabled /\ OperandFault # "None"
    BY <2>1, <2>2, ReachedLane DEF Bad, Enabled, UnaryOps
  <2>4. \/ Enabled /\ OperandFault = "None" /\ GoOn
        \/ Enabled /\ OperandFault # "None" /\ Terminate(OperandFault)
        \/ ~Enabled /\ GoOn
    BY <1>11 DEF VPUCVT_packed
  <2>5. QED
    BY <1>4, <1>5, <2>1, <2>3, <2>4
<1>12. CASE Done
  <2>1. i' = i /\ phase = "lanes" /\ phase' = "past" /\ error' = error
    BY <1>12 DEF Done
  <2>2. QED
    BY <1>3, <2>1
<1>13. CASE VPUCVT_scalar \/ TRANS
  BY <1>13 DEF VPUCVT_scalar, TRANS, Vector
<1>14. CASE UNCHANGED vars
  <2>1. i' = i /\ phase' = phase /\ error' = error
    BY <1>14 DEF vars
  <2>2. phase = "settings" => i = 0
    BY DEF TypedInv
  <2>3. QED
    BY <1>3, <2>1, <2>2
<1>15. QED
  BY <1>6, <1>7, <1>8, <1>9, <1>10, <1>11, <1>12, <1>13, <1>14 DEF Next

(* The loop stops at the first lane that cannot be done and nowhere else:  *)
(* the lanes before could, and the one it stopped at could not.            *)
THEOREM FaultsInvariant == Spec => []FaultsWhereDue
<1>1. Init => FaultsWhereDue
  BY DEF Init, FaultsWhereDue
<1>2. TypedInv /\ IInv /\ Converting /\ LanesScattered /\ FaultsWhereDue /\ [Next]_vars
        => FaultsWhereDue'
  BY FaultStep
<1>3. QED
  BY VectorInvariant, RegistersInvariant, ConversionsInvariant, StoresInvariant, <1>1, <1>2, PTL DEF Spec

(* What a vector instruction has done, wherever it is and however it       *)
(* ended: registers and memory hold the lanes it went past, computed from  *)
(* the operands it found, and nothing else of it; a conversion is all or   *)
(* nothing; and it stops at the first lane that cannot be done and only    *)
(* there.                                                                  *)
THEOREM VectorLaneByLane == Spec => []LaneByLane
<1>1. TypedInv /\ IInv /\ Converting /\ LanesScattered /\ FaultsWhereDue => LaneByLane
  BY DEF IInv, Converting, ConvertedAtOnce, Converted, LaneByLane
<1>2. QED
  BY VectorInvariant, RegistersInvariant, ConversionsInvariant, StoresInvariant, FaultsInvariant,
     <1>1, PTL


-----------------------------------------------------------------------------
(* What the lanes of the integer operations and of FCMP hold, as numbers.  *)

(* A number between is what remains of it; a multiple more remains alike.  *)
LEMMA Remains ==
  ASSUME NEW e \in ElemCode, NEW x \in Int
  PROVE  /\ x \in 0 .. (Values(e) - 1) => x % Values(e) = x
         /\ \A c \in Int : (x + c * Values(e)) % Values(e) = x % Values(e)
<1> DEFINE V == Values(e)
           h == x % V
           q == x \div V
<1>1. V \in Nat \ {0}
  BY Halves
<1> HIDE DEF V
<1>2. q \in Int /\ h \in 0 .. (V - 1) /\ x = h + q * V
  BY <1>1, DivisionOf
<1>3. x \in 0 .. (V - 1) => h = x
  BY <1>1
<1> HIDE DEF h, q
<1>4. ASSUME NEW c \in Int PROVE (x + c * V) % V = h
  <2> DEFINE s == q + c
  <2>1. s \in Int /\ (q + c) * V = q * V + c * V
    BY <1>1, <1>2, <1>4, Z3
  <2> DEFINE u == q * V
             t == c * V
  <2>2. u \in Int /\ t \in Int /\ h \in Int
    BY <1>1, <1>2, <1>4
  <2>3. x = h + u /\ s * V = u + t
    BY <1>2, <2>1
  <2> HIDE DEF u, t, s
  <2>4. x + t = h + s * V
    BY <2>2, <2>3
  <2>5. (h + s * V) % V = h
    BY <1>1, <1>2, <2>1, DivisionOfSum
  <2>6. QED
    BY <2>4, <2>5 DEF t
<1>5. QED
  BY <1>3, <1>4 DEF V, h

LEMMA PairOf ==
  ASSUME NEW x \in Int, NEW y \in Int
  PROVE  /\ Min({x, y}) = IF x < y THEN x ELSE y
         /\ Max({x, y}) = IF x > y THEN x ELSE y
<1>1. Min({x, y}) \in {x, y} /\ \A z \in {x, y} : Min({x, y}) <= z
  <2>1. \E z \in {x, y} : \A w \in {x, y} : z <= w
    <3>1. CASE x < y
      BY <3>1
    <3>2. CASE ~(x < y)
      BY <3>2
    <3>3. QED
      BY <3>1, <3>2
  <2>2. QED
    BY <2>1 DEF Min
<1>2. Max({x, y}) \in {x, y} /\ \A z \in {x, y} : Max({x, y}) >= z
  <2>1. \E z \in {x, y} : \A w \in {x, y} : z >= w
    <3>1. CASE x < y
      BY <3>1
    <3>2. CASE ~(x < y)
      BY <3>2
    <3>3. QED
      BY <3>1, <3>2
  <2>2. QED
    BY <2>1 DEF Max
<1>3. QED
  BY <1>1, <1>2

(* A lane is determined by its bits.                                       *)
LEMMA SameBits ==
  ASSUME NEW e \in ElemCode, NEW x \in 0 .. (Values(e) - 1), NEW y \in 0 .. (Values(e) - 1),
         \A k \in 0 .. (Width(e) - 1) : Bit(x, Two[k]) <=> Bit(y, Two[k])
  PROVE  x = y
<1> DEFINE n == Width(e)
           d == [k \in 0 .. (n - 1) |-> (x \div Two[k]) % 2]
           t == [k \in 0 .. (n - 1) |-> d[k] * Two[k]]
<1>1. n \in Nat \ {0} /\ Values(e) = Two[n] /\ IsPowers(Two, 2, n) /\ x \in Int /\ y \in Int
      /\ Two[n] \in Nat
  BY WidthType, Halves
<1>2. \A k \in 0 .. (n - 1) : Bit(x, Two[k]) <=> Bit(y, Two[k])
  OBVIOUS
<1> HIDE DEF n
<1>3. \A k \in 0 .. n : Two[k] \in Nat \ {0}
  <2>1. 2 \in Nat \ {0} /\ n \in Nat
    BY <1>1
  <2>2. QED
    BY <1>1, <2>1, PowersPositive
<1>4. ASSUME NEW k \in 0 .. (n - 1), NEW v \in Int
      PROVE  (v \div Two[k]) % 2 \in {0, 1}
  <2> DEFINE q == v \div Two[k]
  <2>1. q \in Int
    <3>1. k \in 0 .. n
      BY <1>1
    <3>2. QED
      BY <1>3, <3>1, DivisionOf
  <2> HIDE DEF q
  <2>2. q % 2 \in {0, 1}
    BY <2>1
  <2>3. QED
    BY <2>2 DEF q
<1>5. IsDigits(d, x, 2, Two, n)
  BY DEF IsDigits
<1>6. IsDigits(d, y, 2, Two, n)
  <2>1. ASSUME NEW k \in 0 .. (n - 1) PROVE d[k] = (y \div Two[k]) % 2
    <3>1. d[k] = (x \div Two[k]) % 2
      OBVIOUS
    <3>2. (x \div Two[k]) % 2 = 1 <=> (y \div Two[k]) % 2 = 1
      BY <1>2 DEF Bit
    <3>3. (x \div Two[k]) % 2 \in {0, 1} /\ (y \div Two[k]) % 2 \in {0, 1}
      BY <1>1, <1>4
    <3>4. QED
      BY <3>1, <3>2, <3>3
  <2>2. QED
    BY <2>1 DEF IsDigits
<1>7. PICK h : h = [k \in 0 .. n |-> IF k = 0 THEN 0 ELSE h[k - 1] + t[k - 1]]
  <2> HIDE DEF t
  <2>1. QED
    BY <1>1, SumsDefined
<1>8. IsSums(h, d, Two, n)
  <2>1. \A k \in 0 .. (n - 1) : t[k] = d[k] * Two[k]
    OBVIOUS
  <2> HIDE DEF t, d
  <2>2. h[0] = 0
    BY <1>1, <1>7
  <2>3. ASSUME NEW k \in 0 .. (n - 1) PROVE h[k + 1] = h[k] + d[k] * Two[k]
    <3>1. k + 1 \in 0 .. n /\ k + 1 # 0 /\ (k + 1) - 1 = k
      BY <1>1
    <3>2. h[k + 1] = h[k] + t[k]
      BY <1>7, <3>1
    <3>3. QED
      BY <2>1, <3>2
  <2>4. QED
    BY <2>2, <2>3 DEF IsSums
<1> HIDE DEF d, t
<1>9. h[n] = x % Two[n] /\ h[n] = y % Two[n]
  <2>1. 2 \in Nat \ {0} /\ n \in Nat /\ n \in 0 .. n
    BY <1>1
  <2>2. \A k \in 0 .. n : h[k] = x % Two[k]
    BY <1>1, <1>5, <1>8, <2>1, SumOfDigits
  <2>3. \A k \in 0 .. n : h[k] = y % Two[k]
    BY <1>1, <1>6, <1>8, <2>1, SumOfDigits
  <2>4. QED
    BY <2>1, <2>2, <2>3
<1>10. x % Values(e) = x /\ y % Values(e) = y
  BY <1>1, Remains
<1>11. QED
  BY <1>1, <1>9, <1>10

(* The predicates by the bits of their code are those of the table.        *)
LEMMA ConditionRelations ==
  ASSUME NEW c \in 0 .. 31, NEW relation \in {"unord", "great", "less", "equal"}
  PROVE  relation \in Condition[c + 1][1] <=> Predicate(c, relation)
<1>1. /\ relation \in Condition[1][1] <=> Predicate(0, relation)
      /\ relation \in Condition[2][1] <=> Predicate(1, relation)
      /\ relation \in Condition[3][1] <=> Predicate(2, relation)
      /\ relation \in Condition[4][1] <=> Predicate(3, relation)
  BY DEF Condition, Predicate, Bit
<1>2. /\ relation \in Condition[5][1] <=> Predicate(4, relation)
      /\ relation \in Condition[6][1] <=> Predicate(5, relation)
      /\ relation \in Condition[7][1] <=> Predicate(6, relation)
      /\ relation \in Condition[8][1] <=> Predicate(7, relation)
  BY DEF Condition, Predicate, Bit
<1>3. /\ relation \in Condition[9][1] <=> Predicate(8, relation)
      /\ relation \in Condition[10][1] <=> Predicate(9, relation)
      /\ relation \in Condition[11][1] <=> Predicate(10, relation)
      /\ relation \in Condition[12][1] <=> Predicate(11, relation)
  BY DEF Condition, Predicate, Bit
<1>4. /\ relation \in Condition[13][1] <=> Predicate(12, relation)
      /\ relation \in Condition[14][1] <=> Predicate(13, relation)
      /\ relation \in Condition[15][1] <=> Predicate(14, relation)
      /\ relation \in Condition[16][1] <=> Predicate(15, relation)
  BY DEF Condition, Predicate, Bit
<1>5. /\ relation \in Condition[17][1] <=> Predicate(16, relation)
      /\ relation \in Condition[18][1] <=> Predicate(17, relation)
      /\ relation \in Condition[19][1] <=> Predicate(18, relation)
      /\ relation \in Condition[20][1] <=> Predicate(19, relation)
  BY DEF Condition, Predicate, Bit
<1>6. /\ relation \in Condition[21][1] <=> Predicate(20, relation)
      /\ relation \in Condition[22][1] <=> Predicate(21, relation)
      /\ relation \in Condition[23][1] <=> Predicate(22, relation)
      /\ relation \in Condition[24][1] <=> Predicate(23, relation)
  BY DEF Condition, Predicate, Bit
<1>7. /\ relation \in Condition[25][1] <=> Predicate(24, relation)
      /\ relation \in Condition[26][1] <=> Predicate(25, relation)
      /\ relation \in Condition[27][1] <=> Predicate(26, relation)
      /\ relation \in Condition[28][1] <=> Predicate(27, relation)
  BY DEF Condition, Predicate, Bit
<1>8. /\ relation \in Condition[29][1] <=> Predicate(28, relation)
      /\ relation \in Condition[30][1] <=> Predicate(29, relation)
      /\ relation \in Condition[31][1] <=> Predicate(30, relation)
      /\ relation \in Condition[32][1] <=> Predicate(31, relation)
  BY DEF Condition, Predicate, Bit
<1>9. QED
  BY <1>1, <1>2, <1>3, <1>4, <1>5, <1>6, <1>7, <1>8

LEMMA BitwiseExact ==
  ASSUME NEW a \in 0 .. (Values(Elem) - 1), NEW b \in 0 .. (Values(Elem) - 1), Elem \in ElemCode,
         NEW op \in {"AND", "OR", "XOR", "ANDN"}
  PROVE  Integer(op, Elem, a, b) % Values(Elem) = Exact(op, a, b)
<1> DEFINE bits == 0 .. (Width(Elem) - 1)
           top == Values(Elem) - 1
           v == Integer(op, Elem, a, b)
           Is(x, k) == Bit(x, Two[k]) = CASE op = "AND"  -> Bit(a, Two[k]) /\ Bit(b, Two[k])
                                          [] op = "OR"   -> Bit(a, Two[k]) \/ Bit(b, Two[k])
                                          [] op = "XOR"  -> Bit(a, Two[k]) # Bit(b, Two[k])
                                          [] op = "ANDN" -> ~Bit(a, Two[k]) /\ Bit(b, Two[k])
<1>1. Exact(op, a, b) = CHOOSE x \in 0 .. top : \A k \in bits : Is(x, k)
  BY DEF Exact
<1>2. \A x : \A k \in bits : k \in BitsOf(Elem, x) <=> Bit(x, Two[k])
  BY DEF BitsOf, Bit
<1>3. v \in 0 .. top /\ \A k \in bits : Is(v, k)
  <2>1. PICK S \in SUBSET bits :
          /\ v = FromBits(Elem, S)
          /\ \A k \in bits : k \in S <=> CASE op = "AND"  -> k \in BitsOf(Elem, a) /\ k \in BitsOf(Elem, b)
                                           [] op = "OR"   -> k \in BitsOf(Elem, a) \/ k \in BitsOf(Elem, b)
                                           [] op = "XOR"  -> (k \in BitsOf(Elem, a)) # (k \in BitsOf(Elem, b))
                                           [] op = "ANDN" -> k \notin BitsOf(Elem, a) /\ k \in BitsOf(Elem, b)
    <3> DEFINE p == BitsOf(Elem, a)
               q == BitsOf(Elem, b)
               S == IF op = "AND" THEN p \cap q ELSE IF op = "OR" THEN p \cup q
                    ELSE IF op = "XOR" THEN (p \cup q) \ (p \cap q) ELSE q \ p
    <3>1. p \subseteq bits /\ q \subseteq bits
      BY DEF BitsOf
    <3>2. v = FromBits(Elem, S)
      BY DEF Integer
    <3> HIDE DEF p, q, v, bits
    <3>3. S \in SUBSET bits
      BY <3>1
    <3>4. \A k \in bits : k \in S <=> CASE op = "AND"  -> k \in p /\ k \in q
                                        [] op = "OR"   -> k \in p \/ k \in q
                                        [] op = "XOR"  -> (k \in p) # (k \in q)
                                        [] op = "ANDN" -> k \notin p /\ k \in q
      <4>1. CASE op = "AND"
        BY <4>1
      <4>2. CASE op = "OR"
        BY <4>2
      <4>3. CASE op = "XOR"
        BY <4>3
      <4>4. CASE op = "ANDN"
        BY <4>4
      <4>5. QED
        BY <4>1, <4>2, <4>3, <4>4
    <3> HIDE DEF S
    <3>5. QED
      BY <3>2, <3>3, <3>4 DEF p, q
  <2>2. v \in 0 .. top /\ BitsOf(Elem, v) = S
    BY <2>1, FromBitsType
  <2> HIDE DEF v
  <2>3. ASSUME NEW k \in bits PROVE Is(v, k)
    <3>1. /\ Bit(v, Two[k]) <=> k \in S
          /\ Bit(a, Two[k]) <=> k \in BitsOf(Elem, a)
          /\ Bit(b, Two[k]) <=> k \in BitsOf(Elem, b)
      BY <1>2, <2>2
    <3>2. Bit(v, Two[k]) \in BOOLEAN /\ Bit(a, Two[k]) \in BOOLEAN /\ Bit(b, Two[k]) \in BOOLEAN
      BY DEF Bit
    <3>3. k \in S <=> CASE op = "AND"  -> k \in BitsOf(Elem, a) /\ k \in BitsOf(Elem, b)
                        [] op = "OR"   -> k \in BitsOf(Elem, a) \/ k \in BitsOf(Elem, b)
                        [] op = "XOR"  -> (k \in BitsOf(Elem, a)) # (k \in BitsOf(Elem, b))
                        [] op = "ANDN" -> k \notin BitsOf(Elem, a) /\ k \in BitsOf(Elem, b)
      BY <2>1
    <3>4. CASE op = "AND"
      BY <3>1, <3>2, <3>3, <3>4
    <3>5. CASE op = "OR"
      BY <3>1, <3>2, <3>3, <3>5
    <3>6. CASE op = "XOR"
      BY <3>1, <3>2, <3>3, <3>6
    <3>7. CASE op = "ANDN"
      BY <3>1, <3>2, <3>3, <3>7
    <3>8. QED
      BY <3>4, <3>5, <3>6, <3>7
  <2>4. QED
    BY <2>2, <2>3
<1> HIDE DEF v
<1>4. ASSUME NEW x \in 0 .. top, \A k \in bits : Is(x, k)
      PROVE  x = v
  <2>1. \A k \in bits : Bit(x, Two[k]) = Bit(v, Two[k])
    <3> HIDE DEF bits
    <3>1. QED
      BY <1>3, <1>4
  <2>2. QED
    BY <1>3, <2>1, SameBits
<1>5. v % Values(Elem) = v
  <2>1. v \in Int
    BY <1>3, Halves
  <2>2. QED
    BY <1>3, <2>1, Remains
<1>6. (CHOOSE x \in 0 .. top : \A k \in bits : Is(x, k)) = v
  <2> HIDE DEF Is, top, bits
  <2>1. QED
    BY <1>3, <1>4
<1>7. QED
  BY <1>1, <1>5, <1>6 DEF v

LEMMA IntegerExact ==
  ASSUME NEW a \in 0 .. (Values(Elem) - 1), NEW b \in 0 .. (Values(Elem) - 1), Elem \in ElemCode,
         NEW op \in IntegerOps, ~(op = "SUBS" /\ b = SignMask(Elem))
  PROVE  Integer(op, Elem, a, b) % Values(Elem) = Exact(op, a, b)
<1> DEFINE V == Values(Elem)
           H == SignMask(Elem)
           x == Signed(a)
           y == Signed(b)
<1>1. V \in Nat \ {0} /\ V >= 2 /\ H \in Nat /\ H >= 1 /\ V = 2 * H /\ a \in Int /\ b \in Int
  BY Halves
<1>2. /\ x = IF a >= H THEN a - V ELSE a
      /\ y = IF b >= H THEN b - V ELSE b
  BY SignedType DEF Signed
<1>3. a \in 0 .. (V - 1) /\ b \in 0 .. (V - 1)
  OBVIOUS
<1>4. \A z \in Int : /\ z \in 0 .. (V - 1) => z % V = z
                     /\ \A c \in Int : (z + c * V) % V = z % V
  BY Remains
<1>5. -H = 0 - H
  BY <1>1
<1>6. CASE op \in {"ADD", "SUB"}
  BY <1>6 DEF Integer, Exact
<1>7. CASE op = "ADDS"
  <2>1. Integer(op, Elem, a, b) = ADDS(Elem, a, b)
    BY <1>7 DEF Integer
  <2>2. Exact(op, a, b) = Saturated(x + y, -H, H - 1) % V
    BY <1>7 DEF Exact
  <2>3. QED
    BY <1>5, <2>1, <2>2, SignedSaturation DEF Truncate, Signed
<1>8. CASE op = "SUBS"
  <2>1. Exact(op, a, b) = Saturated(x - y, -H, H - 1) % V
    BY <1>8 DEF Exact
  <2>2. b # SignMask(Elem)
    BY <1>8
  <2>3. QED
    BY <1>5, <1>8, <2>1, <2>2, SignedDifference DEF Truncate, Signed
<1>9. CASE op = "ADDUS" \/ op = "SUBUS"
  <2>1. /\ op = "ADDUS" => Exact(op, a, b) = Saturated(a + b, 0, V - 1)
        /\ op = "SUBUS" => Exact(op, a, b) = Saturated(a - b, 0, V - 1)
    BY DEF Exact
  <2>2. op = "ADDUS" => Integer(op, Elem, a, b) = ADDUS(Elem, a, b)
    BY DEF Integer
  <2>3. Integer(op, Elem, a, b) = Exact(op, a, b)
    BY <1>9, <2>1, <2>2, UnsignedSaturation
  <2>4. Exact(op, a, b) \in 0 .. (V - 1)
    <3> HIDE DEF V
    <3>1. Saturated(a + b, 0, V - 1) \in 0 .. (V - 1) /\ Saturated(a - b, 0, V - 1) \in 0 .. (V - 1)
      BY <1>1, <1>3 DEF Saturated
    <3>2. QED
      BY <1>9, <2>1, <3>1
  <2> HIDE DEF V
  <2>5. Exact(op, a, b) % V = Exact(op, a, b)
    BY <1>1, <1>4, <2>4
  <2>6. QED
    BY <2>3, <2>5 DEF V
<1>10. CASE op = "MULL"
  <2>1. Integer(op, Elem, a, b) = x * y /\ Exact(op, a, b) = (a * b) % V
    BY <1>10 DEF Integer, Exact, Signed
  <2>2. \E c \in Int : x * y = a * b + c * V
    <3> HIDE DEF V, H, x, y
    <3>1. CASE a < H /\ b < H
      <4>1. x * y = a * b + 0 * V
        BY <1>1, <1>2, <3>1
      <4>2. QED
        BY <4>1
    <3>2. CASE a >= H /\ b < H
      <4>1. x = a - V /\ y = b
        BY <1>1, <1>2, <3>2
      <4>2. (a - V) * b = a * b + (-b) * V
        BY <1>1, Z3
      <4>3. -b \in Int
        BY <1>1
      <4> WITNESS -b \in Int
      <4>4. QED
        BY <4>1, <4>2
    <3>3. CASE a < H /\ b >= H
      <4>1. x = a /\ y = b - V
        BY <1>1, <1>2, <3>3
      <4>2. a * (b - V) = a * b + (-a) * V
        BY <1>1, Z3
      <4>3. -a \in Int
        BY <1>1
      <4> WITNESS -a \in Int
      <4>4. QED
        BY <4>1, <4>2
    <3>4. CASE a >= H /\ b >= H
      <4>1. x = a - V /\ y = b - V
        BY <1>1, <1>2, <3>4
      <4>2. (a - V) * (b - V) = a * b + (V - a - b) * V
        BY <1>1, Z3
      <4>3. V - a - b \in Int
        BY <1>1
      <4> WITNESS V - a - b \in Int
      <4>4. QED
        BY <4>1, <4>2
    <3>5. QED
      BY <1>1, <3>1, <3>2, <3>3, <3>4
  <2>3. (x * y) % V = (a * b) % V
    <3>1. PICK c \in Int : x * y = a * b + c * V
      BY <2>2
    <3> DEFINE p == a * b
    <3>2. p \in Int
      BY <1>1
    <3> HIDE DEF p
    <3>3. (p + c * V) % V = p % V
      BY <1>4, <3>2
    <3>4. QED
      BY <3>1, <3>3 DEF p
  <2>4. QED
    BY <2>1, <2>3
<1>11. CASE op = "AVG"
  <2> DEFINE v == (a + b + 1) \div 2
  <2>1. Integer(op, Elem, a, b) = v
    BY <1>11 DEF Integer
  <2>2. Exact(op, a, b) = CHOOSE z \in 0 .. (V - 1) : 2 * z \in {a + b, a + b + 1}
    BY <1>11 DEF Exact
  <2> HIDE DEF V
  <2>3. v \in 0 .. (V - 1) /\ 2 * v \in {a + b, a + b + 1}
    BY <1>1, <1>3
  <2>4. \A z \in 0 .. (V - 1) : 2 * z \in {a + b, a + b + 1} => z = v
    BY <1>1, <1>3
  <2> HIDE DEF v
  <2>5. v % V = v
    BY <1>1, <1>4, <2>3
  <2>6. Exact(op, a, b) = v
    BY <2>2, <2>3, <2>4
  <2>7. QED
    BY <2>1, <2>5, <2>6 DEF V
<1>12. CASE op \in {"UMIN", "UMAX"}
  <2>1. /\ op = "UMIN" => Exact(op, a, b) = Min({a, b})
        /\ op = "UMAX" => Exact(op, a, b) = Max({a, b})
    BY DEF Exact
  <2>2. Integer(op, Elem, a, b) = Exact(op, a, b) /\ Integer(op, Elem, a, b) \in {a, b}
    BY <1>1, <1>12, <2>1, PairOf DEF Integer
  <2> HIDE DEF V
  <2>3. a % V = a /\ b % V = b
    BY <1>1, <1>3, <1>4
  <2>4. QED
    BY <2>2, <2>3 DEF V
<1>13. CASE op \in {"SMIN", "SMAX"}
  <2>1. /\ op = "SMIN" => Exact(op, a, b) = Min({x, y}) % V
        /\ op = "SMAX" => Exact(op, a, b) = Max({x, y}) % V
    BY DEF Exact
  <2>2. /\ op = "SMIN" => Integer(op, Elem, a, b) = IF x < y THEN a ELSE b
        /\ op = "SMAX" => Integer(op, Elem, a, b) = IF x > y THEN a ELSE b
    BY DEF Integer, Signed
  <2> HIDE DEF V, H, x, y
  <2>3. x \in Int /\ y \in Int /\ a % V = a /\ b % V = b
    BY <1>1, <1>2, <1>3, <1>4
  <2>4. x % V = a /\ y % V = b
    <3> DEFINE c == -1
    <3>1. c \in Int /\ a + c * V = a - V /\ b + c * V = b - V
      BY <1>1
    <3> HIDE DEF c
    <3>2. (a + c * V) % V = a % V /\ (b + c * V) % V = b % V
      BY <1>1, <1>4, <3>1
    <3>3. QED
      BY <1>2, <2>3, <3>1, <3>2
  <2>5. /\ Min({x, y}) = IF x < y THEN x ELSE y
        /\ Max({x, y}) = IF x > y THEN x ELSE y
    BY <2>3, PairOf
  <2>6. Integer(op, Elem, a, b) % V = Exact(op, a, b)
    BY <1>13, <2>1, <2>2, <2>3, <2>4, <2>5
  <2>7. QED
    BY <2>6 DEF V
<1>14. CASE op \in {"AND", "OR", "XOR", "ANDN"}
  BY <1>14, BitwiseExact
<1>15. QED
  BY <1>6, <1>7, <1>8, <1>9, <1>10, <1>11, <1>12, <1>13, <1>14 DEF IntegerOps

LEMMA ComparedExact ==
  ASSUME NEW a, NEW b, Elem \in ElemCode, ins.cond \in 0 .. 31, NEW n
  PROVE  Computed("FCMP", ins.cond, Elem, a, b, n) % Values(Elem) = Exact("FCMP", a, b)
<1>1. "FCMP" \notin IntegerOps
  BY DEF IntegerOps
<1>2. Relation(Elem, a, b) \in {"unord", "great", "less", "equal"}
  BY DEF Relation
<1>3. Relation(Elem, a, b) \in Condition[ins.cond + 1][1] <=> Predicate(ins.cond, Relation(Elem, a, b))
  BY <1>2, ConditionRelations
<1>4. Computed("FCMP", ins.cond, Elem, a, b, n)
        = IF Relation(Elem, a, b) \in Condition[ins.cond + 1][1] THEN Values(Elem) - 1 ELSE 0
  BY <1>1 DEF Computed, Float
<1>5. Exact("FCMP", a, b) = IF Predicate(ins.cond, Relation(Elem, a, b)) THEN Values(Elem) - 1 ELSE 0
  BY DEF Exact
<1>6. Values(Elem) \in Nat /\ Values(Elem) >= 2
  BY Halves
<1> DEFINE t == Values(Elem) - 1
<1>7. t \in 0 .. (Values(Elem) - 1) /\ 0 \in 0 .. (Values(Elem) - 1) /\ t \in Int /\ 0 \in Int
  BY <1>6
<1>8. t % Values(Elem) = t /\ 0 % Values(Elem) = 0
  <2> HIDE DEF t
  <2>1. QED
    BY <1>7, Remains
<1>9. QED
  BY <1>3, <1>4, <1>5, <1>8


(* A lane that was computed holds what of the result fits.                 *)
LEMMA LaneHolds ==
  ASSUME TypedInv, IInv, FaultsWhereDue, ins.kind = "VPUBinary", phase = "past",
         NEW j \in 0 .. (Lanes - 1), j \in ins.mask
  PROVE  /\ First(j) \in 0 .. (Values(Elem) - 1) /\ Last(j) \in 0 .. (Values(Elem) - 1)
         /\ uint(zmm[ins.reg], Elem, j)
              = Computed(ins.op, ins.cond, Elem, First(j), Last(j), j) % Values(Elem)
<1>1. /\ Vector /\ ~Undefined /\ ins \in Instructions /\ i = Lanes /\ ins.at # "store"
  BY VpuAssumption DEF TypedInv, Vector
<1>2. /\ Elem \in ElemCode /\ Step = Size(Elem) /\ Step \in {1, 2, 4, 8} /\ Lanes \in 1 .. ZMMBytes
      /\ j * Step + Step <= ZMMBytes
  BY <1>1, LaneShape
<1>3. ins.src1 \in Regs /\ ins.src2 \in Regs /\ ins.reg \in Regs /\ j \in Nat
  BY <1>1, <1>2, Fields DEF Instruction, ZMMBytes
<1>4. start.zmm \in [Regs -> Register] /\ mem = start.mem
      /\ zmm = [start.zmm EXCEPT ![ins.reg] = Gathered(Lanes)]
  BY <1>1 DEF IInv, Known, LanesGathered
<1>5. First(j) \in 0 .. (Values(Elem) - 1)
  BY <1>2, <1>3, <1>4, LaneOf DEF First
<1>6. Last(j) \in 0 .. (Values(Elem) - 1)
  <2>1. CASE ins.at = "memory"
    <3>1. ~Bad(j)
      BY <1>1, <2>1 DEF FaultsWhereDue
    <3>2. ~OutOfReach(j)
      BY <3>1 DEF Bad
    <3>3. LanePlace(j) + Size(Elem) <= mem_size
      BY <1>2, <2>1, <3>2 DEF OutOfReach
    <3>4. LanePlace(j) \in Nat
      <4>1. Step \in Nat
        BY <1>2
      <4>2. QED
        BY <1>1, <1>3, <4>1, PlaceType DEF LanePlace
    <3>5. mem_size \in Nat /\ start.mem \in [0 .. (mem_size - 1) -> Byte]
      BY <1>4, WordAssumption DEF TypedInv, TypeOK
    <3>6. Element(start.mem, LanePlace(j), Elem) \in 0 .. (Values(Elem) - 1)
      BY <1>2, <3>3, <3>4, <3>5, ElementType
    <3>7. QED
      BY <2>1, <3>6 DEF Last
  <2>2. CASE ins.at # "memory"
    BY <1>2, <1>3, <1>4, <2>2, LaneOf DEF Last
  <2>3. QED
    BY <2>1, <2>2
<1> DEFINE v == Computed(ins.op, ins.cond, Elem, First(j), Last(j), j)
<1>7. v \in Int
  <2>1. ins.op \in IntegerOps \cup FloatOps
    BY <1>1, VpuAssumption
  <2>2. Allowed(ins.op, Elem)
    BY <1>1 DEF Undefined, Elem
  <2>3. QED
    BY <1>2, <1>3, <1>5, <1>6, <2>1, <2>2, ComputedType
<1>8. Wanted(j) = v
  BY DEF Wanted
<1> HIDE DEF v
<1>9. ASSUME NEW k \in 0 .. (Step - 1)
      PROVE  zmm[ins.reg][j * Step + k] = ByteOf(v, k)
  <2> DEFINE p == j * Step + k
  <2>1. p \div Step = j
    BY <1>2, <1>3, LaneOfByte
  <2>2. p % Step = k
    <3>1. CASE Step = 1
      BY <1>3, <3>1, Z3
    <3>2. CASE Step = 2
      BY <1>3, <3>2, Z3
    <3>3. CASE Step = 4
      BY <1>3, <3>3, Z3
    <3>4. CASE Step = 8
      BY <1>3, <3>4, Z3
    <3>5. QED
      BY <1>2, <3>1, <3>2, <3>3, <3>4
  <2>3. p \in 0 .. (ZMMBytes - 1)
    <3>1. CASE Step = 1
      BY <1>2, <1>3, <3>1 DEF ZMMBytes
    <3>2. CASE Step = 2
      BY <1>2, <1>3, <3>2 DEF ZMMBytes
    <3>3. CASE Step = 4
      BY <1>2, <1>3, <3>3 DEF ZMMBytes
    <3>4. CASE Step = 8
      BY <1>2, <1>3, <3>4 DEF ZMMBytes
    <3>5. QED
      BY <1>2, <3>1, <3>2, <3>3, <3>4
  <2>4. j < Lanes
    BY <1>2 DEF ZMMBytes
  <2> HIDE DEF p
  <2>5. Gathered(Lanes)[p] = ByteOf(Wanted(j), k)
    <3>1. Gathered(Lanes)[p]
            = IF p \div Step < Lanes /\ Changes(p \div Step)
              THEN ByteOf(Wanted(p \div Step), p % Step) ELSE start.zmm[ins.reg][p]
      BY <2>3, Zenon DEF Gathered
    <3>2. Changes(j)
      BY DEF Changes
    <3>3. QED
      BY <2>1, <2>2, <2>4, <3>1, <3>2, Zenon
  <2>6. zmm[ins.reg][p] = ByteOf(v, k)
    BY <1>3, <1>4, <1>8, <2>5
  <2>7. QED
    BY <2>6 DEF p
<1>10. Held(zmm[ins.reg], j * Step, Step) = v % Power[Step]
  <2> DEFINE r == zmm[ins.reg]
             p == j * Step
             n == Step
  <2>1. \A k \in 0 .. (n - 1) : r[p + k] = ByteOf(v, k)
    BY <1>9
  <2>2. n \in Nat /\ n <= 8
    BY <1>2
  <2> HIDE DEF r, p, n
  <2>3. Held(r, p, n) = v % Power[n]
    BY <1>7, <2>1, <2>2, HeldOf
  <2>4. QED
    BY <2>3 DEF r, p, n
<1>11. QED
  BY <1>2, <1>5, <1>6, <1>10 DEF uint, Values, v

(* Every lane of an integer operation, and of FCMP, holds the exact result *)
(* as a number of its width: sums and differences wrapped or held at the   *)
(* ends, products, means, the lesser and the greater, the bits of the      *)
(* bitwise ones and the predicates of all 32 conditions.                   *)
THEOREM VectorLanesExact == Spec => []LanesExact
<1>1. TypedInv /\ IInv /\ FaultsWhereDue => LanesExact
  <2> SUFFICES ASSUME TypedInv, IInv, FaultsWhereDue, ins.kind = "VPUBinary", phase = "past",
                      ins.op \in IntegerOps \cup {"FCMP"},
                      NEW j \in (0 .. (Lanes - 1)) \cap ins.mask,
                      ~(ins.op = "SUBS" /\ Last(j) = SignMask(Elem))
               PROVE  uint(zmm[ins.reg], Elem, j) = Exact(ins.op, First(j), Last(j))
    BY DEF LanesExact
  <2>1. /\ First(j) \in 0 .. (Values(Elem) - 1) /\ Last(j) \in 0 .. (Values(Elem) - 1)
        /\ uint(zmm[ins.reg], Elem, j)
             = Computed(ins.op, ins.cond, Elem, First(j), Last(j), j) % Values(Elem)
    BY LaneHolds
  <2>2. Vector /\ ~Undefined /\ ins \in Instructions
    BY DEF TypedInv, Vector
  <2>3. Elem \in ElemCode
    BY <2>2, LaneShape
  <2>4. CASE ins.op \in IntegerOps
    BY <2>1, <2>3, <2>4, IntegerExact DEF Computed
  <2>5. CASE ins.op = "FCMP"
    <3>1. ins.cond \in 0 .. 31
      BY <2>2, <2>5, Fields DEF Undefined, Instruction
    <3>2. QED
      BY <2>1, <2>3, <2>5, <3>1, ComparedExact
  <2>6. QED
    BY <2>4, <2>5
<1>2. QED
  BY VectorInvariant, RegistersInvariant, FaultsInvariant, <1>1, PTL

=============================================================================
