-------------------------- MODULE StringOpsProofs ---------------------------
(***************************************************************************)
(* String instructions for every word and byte, memory and count.          *)
(***************************************************************************)
EXTENDS StringOps, Induction

-----------------------------------------------------------------------------
(* Powers of B.                                                            *)

IsPower(g, m) == g = [n \in 0 .. m |-> IF n = 0 THEN 1 ELSE B * g[n - 1]]

LEMMA PowerExists ==
  ASSUME NEW m \in Nat
  PROVE  \E g : IsPower(g, m)
<1> DEFINE T == {k \in Nat : \E g : IsPower(g, k)}
<1>1. 0 \in T
  <2>1. IsPower([n \in 0 .. 0 |-> 1], 0)
    BY DEF IsPower
  <2> QED
    BY <2>1
<1>2. ASSUME NEW k \in Nat, k \in T PROVE k + 1 \in T
  <2>1. PICK g : IsPower(g, k)
    BY <1>2
  <2> DEFINE h == [n \in 0 .. (k + 1) |-> IF n = k + 1 THEN B * g[k] ELSE g[n]]
  <2>2. \A n \in 0 .. k : g[n] = IF n = 0 THEN 1 ELSE B * g[n - 1]
    BY <2>1 DEF IsPower
  <2>3. \A n \in 0 .. (k + 1) : h[n] = IF n = 0 THEN 1 ELSE B * h[n - 1]
    <3> TAKE n \in 0 .. (k + 1)
    <3>1. CASE n = 0
      BY <2>2, <3>1
    <3>2. CASE n \in 1 .. k
      <4>1. h[n] = g[n] /\ h[n - 1] = g[n - 1]
        BY <3>2
      <4> QED
        BY <2>2, <3>2, <4>1
    <3>3. CASE n = k + 1
      <4>1. h[n] = B * g[k] /\ h[n - 1] = g[k]
        BY <3>3
      <4> QED
        BY <3>3, <4>1
    <3> QED
      BY <3>1, <3>2, <3>3
  <2>4. IsPower(h, k + 1)
    BY <2>3 DEF IsPower
  <2> QED
    BY <2>4
<1> HIDE DEF T
<1>3. m \in T
  BY <1>1, <1>2, Induct
<1> QED
  BY <1>3 DEF T

LEMMA Powers ==
  /\ Power[0] = 1
  /\ \A n \in 0 .. (PtrSize - 1) : Power[n + 1] = B * Power[n]
  /\ \A n \in 0 .. PtrSize : Power[n] \in Nat \ {0}
<1>1. B \in Nat \ {0} /\ PtrSize \in Nat
  BY WordAssumption
<1>2. Power = CHOOSE g : IsPower(g, PtrSize)
  BY DEF Power, IsPower
<1>3. IsPower(Power, PtrSize)
  BY <1>1, <1>2, PowerExists
<1>4. \A n \in 0 .. PtrSize : Power[n] = IF n = 0 THEN 1 ELSE B * Power[n - 1]
  BY <1>3 DEF IsPower
<1>5. Power[0] = 1
  BY <1>1, <1>4
<1>6. \A n \in 0 .. (PtrSize - 1) : Power[n + 1] = B * Power[n]
  <2> TAKE n \in 0 .. (PtrSize - 1)
  <2>1. n + 1 \in 0 .. PtrSize /\ n + 1 # 0 /\ (n + 1) - 1 = n
    BY <1>1
  <2> QED
    BY <1>4, <2>1
<1> DEFINE G == {n \in 0 .. PtrSize : Power[n] \in Nat \ {0}}
<1>7. 0 \in G /\ \A n \in 0 .. (PtrSize - 1) : n \in G => n + 1 \in G
  <2>1. 0 \in G
    BY <1>1, <1>5
  <2>2. ASSUME NEW n \in 0 .. (PtrSize - 1), n \in G PROVE n + 1 \in G
    <3> DEFINE p == Power[n]
               q == Power[n + 1]
    <3>1. p \in Nat \ {0} /\ q = B * p /\ n + 1 \in 0 .. PtrSize
      BY <1>1, <1>6, <2>2
    <3> HIDE DEF p, q
    <3>2. q \in Nat \ {0}
      BY <1>1, <3>1
    <3> QED
      BY <3>1, <3>2 DEF q
  <2> QED
    BY <2>1, <2>2
<1> HIDE DEF G
<1>8. 0 .. PtrSize \subseteq G
  BY <1>1, <1>7, InductTo
<1> QED
  BY <1>5, <1>6, <1>8 DEF G

(* A smaller power divides the number of words.                            *)
LEMMA PowersDivide ==
  ASSUME NEW n \in 0 .. PtrSize
  PROVE  \E q \in Nat \ {0} : W = Power[n] * q
<1>1. B \in Nat \ {0} /\ PtrSize \in Nat /\ W = Power[PtrSize] /\ n \in Nat
  BY WordAssumption
<1> DEFINE G == {j \in 0 .. (PtrSize - n) : \E q \in Nat \ {0} : Power[n + j] = Power[n] * q}
           p == Power[n]
<1>2. p \in Nat \ {0}
  BY Powers
<1>3. 0 \in G
  <2>1. 0 \in 0 .. (PtrSize - n) /\ n + 0 = n
    BY <1>1
  <2>2. p = p * 1 /\ 1 \in Nat \ {0}
    BY <1>2
  <2> QED
    BY <2>1, <2>2
<1>4. ASSUME NEW j \in 0 .. ((PtrSize - n) - 1), j \in G PROVE j + 1 \in G
  <2>1. PICK q \in Nat \ {0} : Power[n + j] = p * q
    BY <1>4
  <2>2. n + j \in 0 .. (PtrSize - 1) /\ j + 1 \in 0 .. (PtrSize - n) /\ n + (j + 1) = (n + j) + 1
    BY <1>1
  <2>3. Power[n + (j + 1)] = B * Power[n + j]
    BY <2>2, Powers
  <2> DEFINE r == B * q
  <2>4. Power[n + (j + 1)] = B * (p * q)
    BY <2>1, <2>3
  <2> HIDE DEF p
  <2>5. B * (p * q) = p * r /\ r \in Nat \ {0}
    BY <1>1, <1>2
  <2> HIDE DEF r
  <2>6. Power[n + (j + 1)] = p * r
    BY <2>4, <2>5
  <2> QED
    BY <2>2, <2>5, <2>6 DEF p
<1> HIDE DEF G
<1>5. PtrSize - n \in Nat /\ PtrSize - n \in 0 .. (PtrSize - n) /\ n + (PtrSize - n) = PtrSize
  BY <1>1
<1>6. PtrSize - n \in G
  <2> DEFINE k == PtrSize - n
  <2> HIDE DEF k
  <2>1. k \in Nat /\ k \in 0 .. k /\ \A j \in 0 .. (k - 1) : j \in G => j + 1 \in G
    BY <1>4, <1>5 DEF k
  <2>2. k \in G
    BY <1>3, <2>1, InductTo
  <2> QED
    BY <2>2 DEF k
<1> QED
  BY <1>1, <1>5, <1>6 DEF G

-----------------------------------------------------------------------------
(* The number in some bytes.                                               *)

IsHeld(g, m, pos, n) ==
  g = [k \in 0 .. n |-> IF k = 0 THEN 0 ELSE g[k - 1] + m[pos + (k - 1)] * Power[k - 1]]

LEMMA HeldExists ==
  ASSUME NEW m, NEW pos, NEW n \in Nat
  PROVE  \E g : IsHeld(g, m, pos, n)
<1> DEFINE T == {k \in Nat : \E g : IsHeld(g, m, pos, k)}
           Term(k) == m[pos + k] * Power[k]
<1>1. 0 \in T
  <2>1. IsHeld([k \in 0 .. 0 |-> 0], m, pos, 0)
    BY DEF IsHeld
  <2> QED
    BY <2>1
<1>2. ASSUME NEW k \in Nat, k \in T PROVE k + 1 \in T
  <2>1. PICK g : IsHeld(g, m, pos, k)
    BY <1>2
  <2> DEFINE h == [j \in 0 .. (k + 1) |-> IF j = k + 1 THEN g[k] + Term(k) ELSE g[j]]
  <2>2. \A j \in 0 .. k : g[j] = IF j = 0 THEN 0 ELSE g[j - 1] + Term(j - 1)
    BY <2>1 DEF IsHeld
  <2> HIDE DEF Term
  <2>3. \A j \in 0 .. (k + 1) : h[j] = IF j = 0 THEN 0 ELSE h[j - 1] + Term(j - 1)
    <3> TAKE j \in 0 .. (k + 1)
    <3>1. CASE j = 0
      BY <2>2, <3>1
    <3>2. CASE j \in 1 .. k
      <4>1. h[j] = g[j] /\ h[j - 1] = g[j - 1] /\ j \in 0 .. k /\ j # 0
        BY <3>2
      <4> HIDE DEF h
      <4> QED
        BY <2>2, <4>1, Zenon
    <3>3. CASE j = k + 1
      <4>1. h[j] = g[k] + Term(k) /\ h[j - 1] = g[k] /\ j - 1 = k /\ j # 0
        BY <3>3
      <4> HIDE DEF h
      <4> QED
        BY <4>1, Zenon
    <3> QED
      BY <3>1, <3>2, <3>3
  <2>4. IsHeld(h, m, pos, k + 1)
    BY <2>3 DEF IsHeld, Term
  <2> QED
    BY <2>4
<1> HIDE DEF T
<1>3. n \in T
  BY <1>1, <1>2, Induct
<1> QED
  BY <1>3 DEF T

LEMMA HeldUnfolds ==
  ASSUME NEW m, NEW pos, NEW n \in Nat
  PROVE  \E g : /\ Held(m, pos, n) = g[n]
                /\ \A k \in 0 .. n :
                     g[k] = IF k = 0 THEN 0 ELSE g[k - 1] + m[pos + (k - 1)] * Power[k - 1]
<1> DEFINE g == CHOOSE f : IsHeld(f, m, pos, n)
<1>1. Held(m, pos, n) = g[n]
  BY DEF Held, IsHeld
<1>2. IsHeld(g, m, pos, n)
  BY HeldExists
<1> HIDE DEF g
<1>3. \A k \in 0 .. n : g[k] = IF k = 0 THEN 0 ELSE g[k - 1] + m[pos + (k - 1)] * Power[k - 1]
  BY <1>2 DEF IsHeld
<1> QED
  BY <1>1, <1>3

LEMMA HeldZero ==
  ASSUME NEW m, NEW pos
  PROVE  Held(m, pos, 0) = 0
BY HeldUnfolds

LEMMA HeldNext ==
  ASSUME NEW m, NEW pos, NEW n \in Nat
  PROVE  Held(m, pos, n + 1) = Held(m, pos, n) + m[pos + n] * Power[n]
<1> DEFINE Term(k) == m[pos + k] * Power[k]
           n1 == n + 1
<1>0. n1 \in Nat /\ n1 # 0 /\ n1 - 1 = n /\ n \in 0 .. n /\ n1 \in 0 .. n1
  OBVIOUS
<1>1. PICK g : /\ Held(m, pos, n) = g[n]
               /\ \A k \in 0 .. n : g[k] = IF k = 0 THEN 0 ELSE g[k - 1] + Term(k - 1)
  BY HeldUnfolds
<1>2. PICK h : /\ Held(m, pos, n1) = h[n1]
               /\ \A k \in 0 .. n1 : h[k] = IF k = 0 THEN 0 ELSE h[k - 1] + Term(k - 1)
  <2> HIDE DEF n1
  <2> QED
    BY <1>0, HeldUnfolds
<1> HIDE DEF Term
<1> DEFINE G == {k \in 0 .. n : h[k] = g[k]}
<1>3. 0 \in G
  BY <1>1, <1>2
<1>4. ASSUME NEW k \in 0 .. (n - 1), k \in G PROVE k + 1 \in G
  <2> DEFINE j == k + 1
  <2>1. j \in 0 .. n /\ j \in 0 .. n1 /\ j # 0 /\ j - 1 = k /\ h[k] = g[k]
    BY <1>4
  <2> HIDE DEF j, n1
  <2>2. h[j] = h[k] + Term(k) /\ g[j] = g[k] + Term(k)
    BY <1>1, <1>2, <2>1, Zenon
  <2>3. j \in G
    BY <2>1, <2>2, Zenon
  <2> QED
    BY <2>3 DEF j
<1>5. n \in G
  <2> HIDE DEF G
  <2>1. 0 .. n \subseteq G
    BY <1>3, <1>4, InductTo
  <2> QED
    BY <2>1
<1>6. h[n] = g[n]
  BY <1>5
<1>7. h[n1] = h[n] + Term(n)
  <2> HIDE DEF n1
  <2> QED
    BY <1>0, <1>2, Zenon
<1>8. Held(m, pos, n1) = Held(m, pos, n) + Term(n)
  BY <1>1, <1>2, <1>6, <1>7, Zenon
<1> QED
  BY <1>8 DEF n1, Term


Bytes(m, pos, n) == \A i \in 0 .. (n - 1) : m[pos + i] \in Byte

(* n bytes hold a number below B to the n.                                 *)
LEMMA HeldType ==
  ASSUME NEW m, NEW pos, NEW n \in 0 .. PtrSize, Bytes(m, pos, n)
  PROVE  Held(m, pos, n) \in 0 .. (Power[n] - 1)
<1>1. B \in Nat \ {0} /\ PtrSize \in Nat
  BY WordAssumption
<1> DEFINE G == {k \in 0 .. n : Held(m, pos, k) \in 0 .. (Power[k] - 1)}
<1>2. 0 \in G
  BY <1>1, HeldZero, Powers
<1>3. ASSUME NEW k \in 0 .. (n - 1), k \in G PROVE k + 1 \in G
  <2> DEFINE h == Held(m, pos, k)
             h1 == Held(m, pos, k + 1)
             p == Power[k]
             p1 == Power[k + 1]
             b == m[pos + k]
  <2>1. k \in Nat /\ k \in 0 .. (PtrSize - 1) /\ k \in 0 .. PtrSize /\ k + 1 \in 0 .. n
    BY <1>1
  <2>2. h1 = h + b * p
    BY <2>1, HeldNext
  <2>3. p \in Nat \ {0} /\ p1 = B * p
    BY <2>1, Powers
  <2>4. b \in 0 .. (B - 1) /\ h \in 0 .. (p - 1)
    BY <1>3 DEF Bytes, Byte
  <2> HIDE DEF h, h1, p, p1, b
  <2>5. h1 \in 0 .. (p1 - 1)
    <3>1. h1 \in Int /\ h1 >= 0
      BY <2>2, <2>3, <2>4
    <3>2. b * p <= (B - 1) * p
      BY <1>1, <2>3, <2>4
    <3>3. (B - 1) * p = B * p - p
      BY <1>1, <2>3
    <3> QED
      BY <1>1, <2>2, <2>3, <2>4, <3>1, <3>2, <3>3
  <2> QED
    BY <2>1, <2>5 DEF h1, p1
<1> HIDE DEF G
<1>4. n \in Nat /\ n \in 0 .. n
  BY <1>1
<1>5. 0 .. n \subseteq G
  BY <1>2, <1>3, <1>4, InductTo
<1> QED
  BY <1>4, <1>5 DEF G

(* The bytes of the number in some bytes are these.                        *)
LEMMA HeldBytes ==
  ASSUME NEW m, NEW pos, NEW n \in 0 .. PtrSize, Bytes(m, pos, n),
         NEW i \in 0 .. (n - 1)
  PROVE  ByteOf(Held(m, pos, n), i) = m[pos + i]
<1>1. B \in Nat \ {0} /\ PtrSize \in Nat /\ n \in Nat /\ i \in Nat
  BY WordAssumption
<1> DEFINE p == Power[i]
           v == m[pos + i]
           G == {k \in 0 .. (n - (i + 1)) :
                   \E c \in Int : Held(m, pos, i + 1 + k) = Held(m, pos, i) + (v + c * B) * p}
<1>2. p \in Nat \ {0} /\ v \in 0 .. (B - 1)
  BY <1>1, Powers DEF Bytes, Byte
<1>3. Held(m, pos, i) \in 0 .. (p - 1)
  <2>1. i \in 0 .. PtrSize /\ Bytes(m, pos, i)
    BY <1>1 DEF Bytes
  <2> QED
    BY <2>1, HeldType
<1>4. 0 \in G
  <2> DEFINE h == Held(m, pos, i)
             h1 == Held(m, pos, i + 1)
  <2>1. h1 = h + v * p
    BY <1>1, HeldNext
  <2>2. v * p = (v + 0 * B) * p
    BY <1>1, <1>2
  <2>3. i + 1 + 0 = i + 1 /\ 0 \in 0 .. (n - (i + 1)) /\ 0 \in Int
    BY <1>1
  <2>4. h1 = h + (v + 0 * B) * p
    BY <2>1, <2>2
  <2> QED
    BY <2>3, <2>4
<1>5. ASSUME NEW k \in 0 .. ((n - (i + 1)) - 1), k \in G PROVE k + 1 \in G
  <2> DEFINE s == i + 1 + k
             h == Held(m, pos, i)
             hs == Held(m, pos, s)
             h1 == Held(m, pos, s + 1)
             u == m[pos + s]
             P == Power[s]
  <2>1. PICK c \in Int : hs = h + (v + c * B) * p
    BY <1>5
  <2>2. s \in Nat /\ s \in 0 .. (n - 1) /\ s \in 0 .. PtrSize /\ i + 1 + (k + 1) = s + 1
        /\ k + 1 \in 0 .. (n - (i + 1)) /\ i + 1 \in 0 .. PtrSize /\ i \in 0 .. (PtrSize - 1)
        /\ s - (i + 1) \in Nat
    BY <1>1
  <2>3. h1 = hs + u * P
    <3> HIDE DEF s
    <3> QED
      BY <2>2, HeldNext
  <2>4. u \in Int
    <3> HIDE DEF s
    <3> QED
      BY <1>1, <2>2 DEF Bytes, Byte
  <2>5. \E q \in Nat : P = Power[i + 1] * q
    <3> DEFINE T == {j \in 0 .. k : \E q \in Nat : Power[i + 1 + j] = Power[i + 1] * q}
               r == Power[i + 1]
    <3>1. r \in Nat
      BY <2>2, Powers
    <3>2. 0 \in T
      <4>1. i + 1 + 0 = i + 1 /\ 0 \in 0 .. k /\ 1 \in Nat
        BY <1>1
      <4>2. r = r * 1
        BY <3>1
      <4> QED
        BY <4>1, <4>2
    <3>3. ASSUME NEW j \in 0 .. (k - 1), j \in T PROVE j + 1 \in T
      <4>1. PICK q \in Nat : Power[i + 1 + j] = r * q
        BY <3>3
      <4> DEFINE a == i + 1 + j
      <4>2. a \in 0 .. (PtrSize - 1) /\ i + 1 + (j + 1) = a + 1 /\ j + 1 \in 0 .. k
        BY <1>1, <2>2
      <4>3. Power[a + 1] = B * Power[a]
        <5> HIDE DEF a
        <5> QED
          BY <4>2, Powers
      <4> DEFINE e == B * q
      <4> HIDE DEF r
      <4>4. B * (r * q) = r * e /\ e \in Nat
        BY <1>1, <3>1, <4>1
      <4>5. Power[i + 1 + (j + 1)] = r * e
        BY <4>1, <4>2, <4>3, <4>4
      <4> HIDE DEF e
      <4> QED
        BY <4>2, <4>4, <4>5 DEF r
    <3> HIDE DEF T
    <3>4. k \in Nat /\ k \in 0 .. k
      BY <1>1
    <3>5. 0 .. k \subseteq T
      BY <3>2, <3>3, <3>4, InductTo
    <3> QED
      BY <3>4, <3>5 DEF T
  <2>6. PICK q \in Nat : P = Power[i + 1] * q
    BY <2>5
  <2>7. Power[i + 1] = B * p
    BY <2>2, Powers
  <2> DEFINE d == c + u * q
  <2>8. h \in Int
    BY <1>3, <1>2
  <2> HIDE DEF s, h, hs, h1, u, P, p, v
  <2>9. d \in Int
    BY <1>1, <2>1, <2>4, <2>6
  <2>10. h1 = h + (v + d * B) * p
    <3>1. u * P = ((u * q) * B) * p
      BY <1>1, <1>2, <2>4, <2>6, <2>7
    <3> DEFINE x == u * q
    <3>2. x \in Int
      BY <2>4, <2>6
    <3>3. h1 = h + (v + c * B) * p + (x * B) * p
      BY <2>1, <2>3, <3>1
    <3> HIDE DEF x
    <3>4. h + (v + c * B) * p + (x * B) * p = h + (v + (c + x) * B) * p
      BY <1>1, <1>2, <2>1, <2>8, <3>2
    <3> QED
      BY <3>3, <3>4 DEF x
  <2> HIDE DEF d
  <2> QED
    BY <2>2, <2>9, <2>10 DEF h1, h, s
<1>6. n - (i + 1) \in G
  <2> DEFINE l == n - (i + 1)
  <2>1. l \in Nat
    BY <1>1
  <2> HIDE DEF l, G
  <2>2. 0 .. l \subseteq G
    BY <1>4, <1>5, <2>1, InductTo DEF l
  <2> QED
    BY <2>1, <2>2 DEF l
<1>7. i + 1 + (n - (i + 1)) = n
  BY <1>1
<1>8. PICK c \in Int : Held(m, pos, n) = Held(m, pos, i) + (v + c * B) * p
  BY <1>6, <1>7
<1> DEFINE h == Held(m, pos, i)
           hn == Held(m, pos, n)
           e == v + c * B
<1>9. e \in Int /\ hn = h + e * p
  BY <1>1, <1>2, <1>8
<1> HIDE DEF v, p, h, hn
<1>10. hn \div p = e
  <2> HIDE DEF e
  <2> QED
    BY <1>2, <1>3, <1>9, DivisionOfSum, SMTT(30) DEF h
<1>11. e % B = v
  BY <1>1, <1>2, <1>8, DivisionOfSum
<1> QED
  BY <1>10, <1>11 DEF ByteOf, hn, p, v

(* Bytes that are the same hold the same number.                           *)
LEMMA HeldSame ==
  ASSUME NEW m, NEW pos, NEW m2, NEW pos2, NEW n \in Nat,
         \A i \in 0 .. (n - 1) : m[pos + i] = m2[pos2 + i]
  PROVE  Held(m, pos, n) = Held(m2, pos2, n)
<1> DEFINE G == {k \in 0 .. n : Held(m, pos, k) = Held(m2, pos2, k)}
<1>1. 0 \in G
  BY HeldZero
<1>2. ASSUME NEW k \in 0 .. (n - 1), k \in G PROVE k + 1 \in G
  <2>1. k \in Nat /\ k + 1 \in 0 .. n
    OBVIOUS
  <2>2. Held(m, pos, k + 1) = Held(m2, pos2, k + 1)
    BY <1>2, <2>1, HeldNext
  <2> QED
    BY <2>1, <2>2
<1> HIDE DEF G
<1>3. 0 .. n \subseteq G
  BY <1>1, <1>2, InductTo
<1> QED
  BY <1>3 DEF G


-----------------------------------------------------------------------------
(* One element.                                                            *)

(* The instruction and the size of memory, which no step changes.          *)
Setting == instr \in Instruction /\ mem_size \in 0 .. MaxAlloc

(* Works whose registers hold what a register can.                         *)
Proper == {w \in Works : w.RSI \in Word /\ w.RDI \in Word /\ w.RAX \in Word}

LEMMA SettingFacts ==
  ASSUME Setting
  PROVE  /\ W \in Nat \ {0} /\ B \in Nat \ {0} /\ PtrSize \in Nat \ {0}
         /\ MaxAlloc \in Nat /\ MaxAlloc + PtrSize < W
         /\ instr.size \in 1 .. PtrSize
<1>1. W \in Nat \ {0} /\ B \in Nat \ {0} /\ PtrSize \in Nat \ {0} /\ MaxAlloc \in Nat
      /\ MaxAlloc + PtrSize < W
  BY WordAssumption
<1>2. instr.size \in 1 .. PtrSize
  BY DEF Setting, Instruction
<1> QED
  BY <1>1, <1>2

Repeated == instr.rep # ""

(* What an instruction can be.                                             *)
LEMMA Modes ==
  ASSUME Setting
  PROVE  /\ instr.op \in {"MOVS", "CMPS", "LODS", "STOS", "SCAS", "UND"}
         /\ Repeated => instr.rep \in {"REP", "REPE", "REPNE"}
         /\ Repeated => instr.op # "UND"
         /\ Repeated => (instr.op \in Searches <=> instr.rep # "REP")
BY Zenon DEF Setting, Instruction, Repeated

(* An access without a fault is to memory.                                 *)
LEMMA AccessInside ==
  ASSUME Setting, NEW pos \in Int, NEW n \in 1 .. PtrSize,
         ReadFault(pos, n) = "None" \/ WriteFault(pos, n) = "None"
  PROVE  pos \in Nat /\ pos + n <= mem_size
<1>1. ReadFault(pos, n) = "None"
  BY DEF WriteFault
<1>2. pos \in 0 .. (mem_size - 1) /\ ~((pos + n) % W > mem_size)
  BY <1>1 DEF ReadFault
<1> DEFINE s == pos + n
<1>3. s \in 0 .. (W - 1) /\ mem_size \in Nat
  BY <1>2, SettingFacts DEF Setting
<1>4. s % W = s
  <2> HIDE DEF s
  <2> QED
    BY <1>3, SettingFacts
<1> QED
  BY <1>2, <1>3, <1>4

LEMMA MemoryBytes ==
  ASSUME Setting, NEW w \in Works, NEW pos \in Nat, NEW n \in Nat, pos + n <= mem_size
  PROVE  Bytes(w.mem, pos, n)
<1>1. w.mem \in [0 .. (mem_size - 1) -> Byte] /\ mem_size \in Nat
  BY DEF Works, Setting
<1> QED
  BY <1>1 DEF Bytes

LEMMA WrittenType ==
  ASSUME Setting, NEW m \in [0 .. (mem_size - 1) -> Byte], NEW pos \in Nat,
         NEW n \in 1 .. PtrSize, NEW v \in Int
  PROVE  Written(m, pos, n, v) \in [0 .. (mem_size - 1) -> Byte]
<1> SUFFICES ASSUME NEW a \in 0 .. (mem_size - 1), a \in pos .. (pos + n - 1)
             PROVE  ByteOf(v, a - pos) \in Byte
  BY DEF Written
<1> DEFINE i == a - pos
<1>1. i \in 0 .. PtrSize
  BY SettingFacts DEF Setting
<1> HIDE DEF i
<1>2. v \div Power[i] \in Int
  BY <1>1, Powers, DivisionOf
<1> QED
  BY <1>2, SettingFacts DEF ByteOf, Byte, i

LEMMA MergedType ==
  ASSUME Setting, NEW reg \in Word, NEW n \in 1 .. PtrSize, NEW v \in 0 .. (Power[n] - 1)
  PROVE  Merged(reg, n, v) \in Word
<1>0. n \in 0 .. PtrSize
  BY SettingFacts
<1> DEFINE p == Power[n]
           r == reg % p
           c == reg \div p
<1>1. PICK q \in Nat \ {0} : W = p * q
  BY <1>0, PowersDivide
<1>2. p \in Nat \ {0}
  BY <1>0, Powers
<1>3. W \in Nat /\ reg \in 0 .. (W - 1) /\ reg \in Int
  BY SettingFacts DEF Word
<1>4. r \in 0 .. (p - 1) /\ c \in Int /\ reg = r + c * p
  <2> HIDE DEF p
  <2> QED
    BY <1>2, <1>3, DivisionOf
<1> HIDE DEF r, c, p
<1>5. c >= 0
  BY <1>2, <1>3, <1>4
<1>6. c + 1 <= q
  BY <1>1, <1>2, <1>3, <1>4
<1>7. (c + 1) * p <= q * p
  BY <1>1, <1>2, <1>4, <1>5, <1>6
<1>8. (c + 1) * p = c * p + p /\ q * p = W
  BY <1>1, <1>2, <1>4
<1> DEFINE cp == c * p
<1>9. cp >= 0 /\ cp \in Int
  BY <1>2, <1>4, <1>5
<1> HIDE DEF cp
<1>10. v \in 0 .. (p - 1)
  BY DEF p
<1>11. reg - r + v \in 0 .. (W - 1)
  BY <1>2, <1>3, <1>4, <1>7, <1>8, <1>9, <1>10 DEF cp
<1>12. v \in 0 .. (W - 1)
  BY <1>2, <1>3, <1>7, <1>8, <1>9, <1>10 DEF cp
<1> QED
  BY <1>11, <1>12 DEF Merged, Word, r, p

LEMMA MovedType ==
  ASSUME Setting, NEW pos \in Word
  PROVE  Moved(pos) \in Word
<1> DEFINE x == IF instr.DF THEN pos - instr.size ELSE pos + instr.size
<1>1. x \in Int /\ W \in Nat \ {0}
  BY SettingFacts DEF Word
<1> HIDE DEF x
<1>2. x % W \in 0 .. (W - 1)
  BY <1>1
<1> QED
  BY <1>2 DEF Moved, Word, x


Faults == {"None", "OutOfBounds", "AccessViolation", "UndefinedBehavior"}

LEMMA FaultType ==
  ASSUME Setting, NEW w \in Works
  PROVE  ElementFault(w) \in Faults
<1>1. \A pos, n : ReadFault(pos, n) \in Faults /\ WriteFault(pos, n) \in Faults
  BY DEF ReadFault, WriteFault, Faults
<1>2. \A f \in Faults, g \in Faults : FirstOf(f, g) \in Faults
  BY DEF FirstOf
<1>3. instr.op \in {"MOVS", "CMPS", "LODS", "STOS", "SCAS", "UND"}
  BY Modes
<1>4. "UndefinedBehavior" \in Faults
  BY DEF Faults
<1> HIDE DEF Faults
<1> QED
  BY <1>1, <1>2, <1>3, <1>4 DEF ElementFault

(* An element that faults leaves everything as it was.                     *)
LEMMA ElementFaulted ==
  ASSUME Setting, NEW w \in Works, ElementFault(w) # "None"
  PROVE  Element[w] = [w EXCEPT !.fault = ElementFault(w)]
BY DEF Element

(* An element that does not fault is one of five; its operand can be read. *)
LEMMA ElementDone ==
  ASSUME Setting, NEW w \in Works, ElementFault(w) = "None"
  PROVE  /\ instr.op # "UND"
         /\ instr.op = "MOVS" => /\ Element[w] = MOVS(w)
                                 /\ ReadFault(w.RSI, instr.size) = "None"
                                 /\ WriteFault(w.RDI, instr.size) = "None"
         /\ instr.op = "CMPS" => /\ Element[w] = CMPS(w)
                                 /\ ReadFault(w.RSI, instr.size) = "None"
                                 /\ ReadFault(w.RDI, instr.size) = "None"
         /\ instr.op = "LODS" => /\ Element[w] = LODS(w)
                                 /\ ReadFault(w.RSI, instr.size) = "None"
         /\ instr.op = "STOS" => /\ Element[w] = STOS(w)
                                 /\ WriteFault(w.RDI, instr.size) = "None"
         /\ instr.op = "SCAS" => /\ Element[w] = SCAS(w)
                                 /\ ReadFault(w.RDI, instr.size) = "None"
<1>1. Element[w] = CASE instr.op = "MOVS" -> MOVS(w)
                     [] instr.op = "CMPS" -> CMPS(w)
                     [] instr.op = "LODS" -> LODS(w)
                     [] instr.op = "STOS" -> STOS(w)
                     [] OTHER -> SCAS(w)
  BY DEF Element
<1>2. instr.op \in {"MOVS", "CMPS", "LODS", "STOS", "SCAS", "UND"}
  BY Modes
<1>3. CASE instr.op = "MOVS"
  BY <1>1, <1>3 DEF ElementFault, FirstOf
<1>4. CASE instr.op = "CMPS"
  BY <1>1, <1>4 DEF ElementFault, FirstOf
<1>5. CASE instr.op = "LODS"
  BY <1>1, <1>5 DEF ElementFault
<1>6. CASE instr.op = "STOS"
  BY <1>1, <1>6 DEF ElementFault
<1>7. CASE instr.op = "SCAS"
  BY <1>1, <1>7 DEF ElementFault
<1>8. CASE instr.op = "UND"
  BY <1>8 DEF ElementFault
<1> QED
  BY <1>2, <1>3, <1>4, <1>5, <1>6, <1>7, <1>8

(* The operands are numbers of the operand size.                           *)
LEMMA OperandType ==
  ASSUME Setting, NEW w \in Works, NEW pos \in Int,
         ReadFault(pos, instr.size) = "None" \/ WriteFault(pos, instr.size) = "None"
  PROVE  /\ pos \in Nat /\ pos + instr.size <= mem_size
         /\ Bytes(w.mem, pos, instr.size)
         /\ Held(w.mem, pos, instr.size) \in 0 .. (Power[instr.size] - 1)
         /\ Held(w.mem, pos, instr.size) \in Int
<1> DEFINE n == instr.size
<1>1. n \in 1 .. PtrSize /\ n \in 0 .. PtrSize /\ n \in Nat
  BY SettingFacts
<1>2. Power[n] \in Nat
  BY <1>1, Powers
<1> HIDE DEF n
<1>3. pos \in Nat /\ pos + n <= mem_size
  BY <1>1, AccessInside DEF n
<1>4. Bytes(w.mem, pos, n)
  BY <1>1, <1>3, MemoryBytes
<1>5. Held(w.mem, pos, n) \in 0 .. (Power[n] - 1)
  BY <1>1, <1>4, HeldType
<1> QED
  BY <1>2, <1>3, <1>4, <1>5 DEF n

LEMMA ElementType ==
  ASSUME Setting, NEW w \in Proper
  PROVE  Element[w] \in Proper
<1> DEFINE n == instr.size
           from == AtSource(w)
           to == AtDestination(w)
           acc == Accumulator(w)
<1>1. w \in Works /\ w.RSI \in Word /\ w.RDI \in Word /\ w.RAX \in Word
      /\ w.RSI \in Int /\ w.RDI \in Int /\ w.RAX \in Int
      /\ w.mem \in [0 .. (mem_size - 1) -> Byte]
  BY SettingFacts DEF Proper, Works, Word
<1>2. n \in 1 .. PtrSize /\ n \in 0 .. PtrSize
  BY SettingFacts
<1>3. acc \in Int
  <2> DEFINE p == Power[n]
             x == w.RAX
  <2>1. p \in Nat \ {0} /\ x \in Int
    BY <1>1, <1>2, Powers
  <2> HIDE DEF p, x
  <2>2. x % p \in Int
    BY <2>1
  <2> QED
    BY <2>2 DEF Accumulator, p, x
<1>4. Moved(w.RSI) \in Word /\ Moved(w.RDI) \in Word
  BY <1>1, MovedType
<1>5. Word \subseteq Int
  BY SettingFacts DEF Word
<1>6. CASE ElementFault(w) # "None"
  <2>1. Element[w] = [w EXCEPT !.fault = ElementFault(w)] /\ ElementFault(w) \in Faults
    BY <1>1, <1>6, ElementFaulted, FaultType
  <2> QED
    BY <1>1, <2>1 DEF Proper, Works, Faults
<1>7. CASE ElementFault(w) = "None"
  <2>1. CASE instr.op = "MOVS"
    <3>1. Element[w] = MOVS(w) /\ w.RDI \in Nat /\ from \in Int
      BY <1>1, <1>7, <2>1, ElementDone, OperandType DEF AtSource
    <3>2. Written(w.mem, w.RDI, n, from) \in [0 .. (mem_size - 1) -> Byte]
      <4> HIDE DEF n, from
      <4> QED
        BY <1>1, <1>2, <3>1, WrittenType
    <3> QED
      BY <1>1, <1>4, <1>5, <3>1, <3>2 DEF MOVS, Proper, Works
  <2>2. CASE instr.op = "CMPS"
    <3>1. Element[w] = CMPS(w)
      BY <1>1, <1>7, <2>2, ElementDone
    <3>2. (from = to) \in BOOLEAN
      OBVIOUS
    <3> QED
      BY <1>1, <1>4, <1>5, <3>1, <3>2 DEF CMPS, Proper, Works
  <2>3. CASE instr.op = "LODS"
    <3>1. Element[w] = LODS(w) /\ from \in 0 .. (Power[n] - 1)
      BY <1>1, <1>7, <2>3, ElementDone, OperandType DEF AtSource
    <3>2. Merged(w.RAX, n, from) \in Word
      <4> HIDE DEF n, from
      <4> QED
        BY <1>1, <1>2, <3>1, MergedType
    <3> QED
      BY <1>1, <1>4, <1>5, <3>1, <3>2 DEF LODS, Proper, Works
  <2>4. CASE instr.op = "STOS"
    <3>1. Element[w] = STOS(w) /\ w.RDI \in Nat
      BY <1>1, <1>7, <2>4, ElementDone, OperandType
    <3>2. Written(w.mem, w.RDI, n, acc) \in [0 .. (mem_size - 1) -> Byte]
      <4> HIDE DEF n, acc
      <4> QED
        BY <1>1, <1>2, <1>3, <3>1, WrittenType
    <3> QED
      BY <1>1, <1>4, <1>5, <3>1, <3>2 DEF STOS, Proper, Works
  <2>5. CASE instr.op = "SCAS"
    <3>1. Element[w] = SCAS(w)
      BY <1>1, <1>7, <2>5, ElementDone
    <3>2. (acc = to) \in BOOLEAN
      OBVIOUS
    <3> QED
      BY <1>1, <1>4, <1>5, <3>1, <3>2 DEF SCAS, Proper, Works
  <2> QED
    BY <1>1, <1>7, <2>1, <2>2, <2>3, <2>4, <2>5, ElementDone, Modes
<1>8. ElementFault(w) = "None" \/ ElementFault(w) # "None"
  OBVIOUS
<1> QED
  BY <1>6, <1>7, <1>8

(* Until it faults, the fault of an element is that of its accesses.       *)
LEMMA FaultAfter ==
  ASSUME Setting, NEW w \in Works, w.fault = "None"
  PROVE  Element[w].fault = ElementFault(w)
<1>1. CASE ElementFault(w) # "None"
  BY <1>1, ElementFaulted DEF Works
<1>2. CASE ElementFault(w) = "None"
  <2>1. /\ MOVS(w).fault = "None" /\ CMPS(w).fault = "None" /\ LODS(w).fault = "None"
        /\ STOS(w).fault = "None" /\ SCAS(w).fault = "None"
    BY DEF Works, MOVS, CMPS, LODS, STOS, SCAS
  <2> QED
    BY <1>2, <2>1, ElementDone, Modes, Zenon
<1> QED
  BY <1>1, <1>2


-----------------------------------------------------------------------------
(* The work after every element.                                           *)

(* Where the instruction was reached.                                      *)
Origin == start \in Proper /\ start.fault = "None" /\ startRCX \in Word

Bound == IF Repeated THEN startRCX ELSE 1
IsSteps(g, l) == g = [k \in 0 .. l |-> IF k = 0 THEN start ELSE Element[g[k - 1]]]
Steps == CHOOSE g : IsSteps(g, Bound)

LEMMA StepsExist ==
  ASSUME NEW l \in Nat
  PROVE  \E g : IsSteps(g, l)
<1> DEFINE T == {k \in Nat : \E g : IsSteps(g, k)}
<1>1. 0 \in T
  <2>1. IsSteps([n \in 0 .. 0 |-> start], 0)
    BY DEF IsSteps
  <2> QED
    BY <2>1
<1>2. ASSUME NEW k \in Nat, k \in T PROVE k + 1 \in T
  <2>1. PICK g : IsSteps(g, k)
    BY <1>2
  <2> DEFINE h == [j \in 0 .. (k + 1) |-> IF j = k + 1 THEN Element[g[k]] ELSE g[j]]
  <2>2. \A j \in 0 .. k : g[j] = IF j = 0 THEN start ELSE Element[g[j - 1]]
    BY <2>1 DEF IsSteps
  <2>3. \A j \in 0 .. (k + 1) : h[j] = IF j = 0 THEN start ELSE Element[h[j - 1]]
    <3> TAKE j \in 0 .. (k + 1)
    <3>1. CASE j = 0
      BY <2>2, <3>1
    <3>2. CASE j \in 1 .. k
      <4>1. h[j] = g[j] /\ h[j - 1] = g[j - 1] /\ j \in 0 .. k /\ j # 0
        BY <3>2
      <4> HIDE DEF h
      <4> QED
        BY <2>2, <4>1, Zenon
    <3>3. CASE j = k + 1
      <4>1. h[j] = Element[g[k]] /\ h[j - 1] = g[k] /\ j # 0
        BY <3>3
      <4> HIDE DEF h
      <4> QED
        BY <4>1, Zenon
    <3> QED
      BY <3>1, <3>2, <3>3
  <2>4. IsSteps(h, k + 1)
    BY <2>3 DEF IsSteps
  <2> QED
    BY <2>4
<1> HIDE DEF T
<1>3. l \in T
  BY <1>1, <1>2, Induct
<1> QED
  BY <1>3 DEF T

LEMMA StepsFacts ==
  ASSUME Setting, Origin
  PROVE  /\ Bound \in Nat
         /\ Steps[0] = start
         /\ \A k \in 0 .. (Bound - 1) : Steps[k + 1] = Element[Steps[k]]
         /\ \A k \in 0 .. Bound : Steps[k] \in Proper
<1>1. Bound \in Nat
  <2>1. startRCX \in Nat
    BY SettingFacts DEF Origin, Word
  <2> QED
    BY <2>1 DEF Bound
<1> HIDE DEF Bound
<1>2. IsSteps(Steps, Bound)
  BY <1>1, StepsExist DEF Steps
<1>3. \A k \in 0 .. Bound : Steps[k] = IF k = 0 THEN start ELSE Element[Steps[k - 1]]
  BY <1>2 DEF IsSteps
<1>4. Steps[0] = start
  BY <1>1, <1>3
<1>5. \A k \in 0 .. (Bound - 1) : Steps[k + 1] = Element[Steps[k]]
  <2> TAKE k \in 0 .. (Bound - 1)
  <2>1. k + 1 \in 0 .. Bound /\ k + 1 # 0 /\ (k + 1) - 1 = k
    BY <1>1
  <2> QED
    BY <1>3, <2>1
<1> DEFINE G == {k \in 0 .. Bound : Steps[k] \in Proper}
<1>6. 0 \in G
  BY <1>1, <1>4 DEF Origin
<1>7. ASSUME NEW k \in 0 .. (Bound - 1), k \in G PROVE k + 1 \in G
  <2>1. k + 1 \in 0 .. Bound
    BY <1>1
  <2> QED
    BY <1>5, <1>7, <2>1, ElementType
<1> HIDE DEF G
<1>8. 0 .. Bound \subseteq G
  BY <1>1, <1>6, <1>7, InductTo
<1> QED
  BY <1>1, <1>4, <1>5, <1>8 DEF G

(* Nothing an element depends on changes.                                  *)
Settled == UNCHANGED <<instr, mem_size, ReadonlyBarrier, start, startRCX>>

LEMMA ElementKept ==
  ASSUME Settled
  PROVE  /\ Element' = Element
         /\ \A w : GoesOn(w)' <=> GoesOn(w)
<1>1. instr' = instr /\ mem_size' = mem_size /\ ReadonlyBarrier' = ReadonlyBarrier
  BY DEF Settled
<1>2. \A pos, n : ReadFault(pos, n)' = ReadFault(pos, n)
  BY <1>1 DEF ReadFault
<1>3. \A pos, n : WriteFault(pos, n)' = WriteFault(pos, n)
  BY <1>1, <1>2 DEF WriteFault
<1>4. \A w : ElementFault(w)' = ElementFault(w)
  BY <1>1, <1>2, <1>3 DEF ElementFault
<1>5. \A pos : Moved(pos)' = Moved(pos)
  BY <1>1 DEF Moved
<1>6. \A w : /\ AtSource(w)' = AtSource(w)
             /\ AtDestination(w)' = AtDestination(w)
             /\ Accumulator(w)' = Accumulator(w)
  BY <1>1 DEF AtSource, AtDestination, Accumulator
<1>7. \A w : /\ MOVS(w)' = MOVS(w)
             /\ CMPS(w)' = CMPS(w)
             /\ LODS(w)' = LODS(w)
             /\ STOS(w)' = STOS(w)
             /\ SCAS(w)' = SCAS(w)
  BY <1>1, <1>5, <1>6 DEF MOVS, CMPS, LODS, STOS, SCAS
<1>8. Works' = Works
  BY <1>1 DEF Works
<1>9. Element' = Element
  BY <1>1, <1>4, <1>7, <1>8 DEF Element
<1>10. \A w : GoesOn(w)' <=> GoesOn(w)
  BY <1>1 DEF GoesOn
<1> QED
  BY <1>9, <1>10

LEMMA StepsKept ==
  ASSUME Settled
  PROVE  Steps' = Steps /\ Bound' = Bound /\ (Repeated' <=> Repeated)
<1>0. Repeated' <=> Repeated
  BY DEF Settled, Repeated
<1>1. start' = start /\ startRCX' = startRCX /\ instr' = instr
  BY DEF Settled
<1>2. Bound' = Bound
  BY <1>0, <1>1 DEF Bound
<1>3. Element' = Element
  BY ElementKept
<1>4. \A g : IsSteps(g, Bound)' <=> IsSteps(g, Bound)
  BY <1>1, <1>2, <1>3 DEF IsSteps
<1>5. Steps' = Steps
  BY <1>4 DEF Steps
<1> QED
  BY <1>0, <1>2, <1>5


-----------------------------------------------------------------------------
(* How far an instruction is.                                              *)

(* Elements whose handling takes one from the count.                       *)
Count(k) == IF ~Repeated THEN 0 ELSE IF Steps[k].fault = "None" THEN k ELSE k - 1

(* k elements are handled, and none before the last was to be the last.    *)
Reached(k) == \A j \in 1 .. (k - 1) : GoesOn(Steps[j])
Open(k) == k > 0 => GoesOn(Steps[k])
Final(k) == k = Bound \/ (k > 0 /\ ~GoesOn(Steps[k]))

At(k) ==
  /\ [Work EXCEPT !.fault = error] = Steps[k]
  /\ RCX = startRCX - Count(k)
  /\ Reached(k)
  /\ ~Over => Open(k) /\ error = "None" /\ (~Repeated => k = 0)
  /\ past => Final(k)
  /\ ~past => Open(k)

Progress == \E k \in 0 .. Bound : At(k)

(* The inductive invariant.                                                *)
IInv == Setting /\ Origin /\ Progress /\ TypeOK

LEMMA WorkOf ==
  ASSUME Setting, TypeOK, NEW f \in Faults
  PROVE  /\ [Work EXCEPT !.fault = f] =
              [mem |-> mem, RSI |-> RSI, RDI |-> RDI, RAX |-> RAX, ZF |-> ZF, fault |-> f]
         /\ [Work EXCEPT !.fault = f] \in Proper
<1>1. [Work EXCEPT !.fault = f] =
        [mem |-> mem, RSI |-> RSI, RDI |-> RDI, RAX |-> RAX, ZF |-> ZF, fault |-> f]
  BY DEF Work
<1>2. Word \subseteq Int
  BY SettingFacts DEF Word
<1> QED
  BY <1>1, <1>2 DEF TypeOK, Proper, Works, Faults

LEMMA InitIInv ==
  ASSUME Init
  PROVE  IInv
<1>1. PICK m \in Contents :
        mem = [a \in 0 .. (Len(m) - 1) |-> m[a + 1]] /\ mem_size = Len(m)
  BY DEF Init
<1>2. m \in Seq(Byte) /\ Len(m) <= MaxAlloc /\ Len(m) \in Nat
  BY <1>1, StringAssumption
<1>3. mem \in [0 .. (mem_size - 1) -> Byte]
  <2>1. \A a \in 0 .. (Len(m) - 1) : m[a + 1] \in Byte
    BY <1>2
  <2> QED
    BY <1>1, <2>1
<1>4. Setting
  BY <1>1, <1>2, StringAssumption, WordAssumption DEF Setting, Init
<1>5. TypeOK
  BY <1>3, StringAssumption DEF TypeOK, Init
<1>6. start = Work /\ startRCX = RCX /\ RCX \in Word
  BY StringAssumption DEF Init
<1>7. Work = [Work EXCEPT !.fault = "None"] /\ "None" \in Faults /\ Work.fault = "None"
  BY DEF Work, Faults
<1>8. Origin
  BY <1>4, <1>5, <1>6, <1>7, WorkOf DEF Origin
<1>9. At(0)
  <2>1. Steps[0] = start
    BY <1>4, <1>8, StepsFacts
  <2>2. Count(0) = 0
    BY <1>8, <2>1 DEF Count, Origin
  <2>3. RCX = startRCX - Count(0)
    BY <1>5, <1>6, <2>2, SettingFacts, <1>4 DEF Word
  <2>4. error = "None" /\ past = FALSE
    BY DEF Init
  <2>5. Reached(0) /\ Open(0)
    BY DEF Reached, Open
  <2> QED
    BY <1>6, <1>7, <2>1, <2>3, <2>4, <2>5 DEF At
<1>10. 0 \in 0 .. Bound
  BY <1>4, <1>8, StepsFacts
<1> QED
  BY <1>4, <1>5, <1>8, <1>9, <1>10 DEF IInv, Progress

(* A step leads from k elements to l.                                      *)
LEMMA SettledStep ==
  ASSUME [Next]_vars
  PROVE  Settled /\ (Setting => Setting') /\ (Origin => Origin')
<1>1. instr' = instr /\ mem_size' = mem_size /\ ReadonlyBarrier' = ReadonlyBarrier
      /\ start' = start /\ startRCX' = startRCX
  <2>1. CASE Once
    BY <2>1 DEF Once, Becomes, memoryVars, limitVars, history
  <2>2. CASE WholeLoop
    BY <2>2 DEF WholeLoop, Becomes, memoryVars, limitVars, history
  <2>3. CASE OneElement
    BY <2>3 DEF OneElement, NoneLeft, Becomes, memoryVars, limitVars, history
  <2>4. CASE SetOTRF
    BY <2>4 DEF SetOTRF, memoryVars, limitVars, history
  <2>5. CASE Stop
    BY <2>5 DEF Stop, memoryVars, limitVars, history
  <2>6. CASE UNCHANGED vars
    BY <2>6 DEF vars, memoryVars, limitVars, history
  <2> QED
    BY <2>1, <2>2, <2>3, <2>4, <2>5, <2>6 DEF Next, Tick
<1>2. Setting => Setting'
  BY <1>1 DEF Setting, Instruction, Searches
<1>3. Proper' = Proper
  BY <1>1 DEF Proper, Works
<1> QED
  BY <1>1, <1>2, <1>3 DEF Settled, Origin


LEMMA AtKept ==
  ASSUME Settled
  PROVE  \A k : /\ Count(k)' = Count(k)
                /\ Reached(k)' <=> Reached(k)
                /\ Open(k)' <=> Open(k)
                /\ Final(k)' <=> Final(k)
<1>1. Steps' = Steps /\ Bound' = Bound /\ (Repeated' <=> Repeated)
  BY StepsKept
<1>2. \A w : GoesOn(w)' <=> GoesOn(w)
  BY ElementKept
<1> QED
  BY <1>1, <1>2 DEF Count, Reached, Open, Final

(* What the machine becomes.                                               *)
LEMMA BecomesIs ==
  ASSUME Setting, TypeOK, NEW w \in Proper, Becomes(w)
  PROVE  /\ [Work EXCEPT !.fault = error]' = w
         /\ mem' \in [0 .. (mem_size' - 1) -> Byte]
         /\ RSI' \in Word /\ RDI' \in Word /\ RAX' \in Word
         /\ ZF' \in BOOLEAN /\ OTRF' \in BOOLEAN /\ running' \in BOOLEAN
         /\ error' = w.fault /\ error' \in Faults
         /\ running' <=> error' = "None"
<1>1. /\ mem' = w.mem /\ RSI' = w.RSI /\ RDI' = w.RDI /\ RAX' = w.RAX /\ ZF' = w.ZF
      /\ error' = w.fault /\ running' = (w.fault = "None")
      /\ OTRF' = OTRF /\ mem_size' = mem_size
  BY DEF Becomes, memoryVars
<1>2. w = [mem |-> w.mem, RSI |-> w.RSI, RDI |-> w.RDI, RAX |-> w.RAX, ZF |-> w.ZF,
           fault |-> w.fault]
  BY DEF Proper, Works
<1>3. [Work EXCEPT !.fault = error]' =
        [mem |-> mem', RSI |-> RSI', RDI |-> RDI', RAX |-> RAX', ZF |-> ZF', fault |-> error']
  BY DEF Work
<1>4. [Work EXCEPT !.fault = error]' = w
  BY <1>1, <1>2, <1>3
<1> QED
  BY <1>1, <1>4 DEF Proper, Works, TypeOK, Faults

LEMMA StepTo ==
  ASSUME IInv, Settled, Setting', Origin', NEW l \in 0 .. Bound, Becomes(Steps[l]), Reached(l),
         RCX' = startRCX - Count(l), RCX' \in Word, past' \in BOOLEAN,
         past' => Final(l), ~past' => Open(l) /\ Repeated
  PROVE  /\ At(l)' /\ l \in 0 .. Bound'
         /\ IInv'
         /\ Over' => past'
<1>1. Setting /\ Origin /\ TypeOK /\ Steps[l] \in Proper
  BY StepsFacts DEF IInv
<1> DEFINE w == Steps[l]
<1>2. /\ [Work EXCEPT !.fault = error]' = w
      /\ mem' \in [0 .. (mem_size' - 1) -> Byte]
      /\ RSI' \in Word /\ RDI' \in Word /\ RAX' \in Word
      /\ ZF' \in BOOLEAN /\ OTRF' \in BOOLEAN /\ running' \in BOOLEAN
      /\ error' = w.fault /\ error' \in Faults
      /\ running' <=> error' = "None"
  BY <1>1, BecomesIs
<1>3. TypeOK'
  BY <1>2 DEF TypeOK, Faults
<1>4. Steps' = Steps /\ Bound' = Bound /\ startRCX' = startRCX /\ (Repeated' <=> Repeated)
  BY StepsKept DEF Settled
<1>5. /\ Count(l)' = Count(l) /\ (Reached(l)' <=> Reached(l))
      /\ Open(l)' <=> Open(l)
      /\ Final(l)' <=> Final(l)
  BY AtKept
<1>6. ~past' => error' = "None"
  <2> SUFFICES ASSUME ~past' PROVE w.fault = "None"
    BY <1>2
  <2>1. CASE l = 0
    BY <1>1, <2>1, StepsFacts DEF Origin
  <2>2. CASE l > 0
    BY <2>2 DEF Open, GoesOn
  <2>3. l = 0 \/ l > 0
    <3>1. l \in 0 .. Bound /\ Bound \in Nat
      BY <1>1, StepsFacts
    <3> HIDE DEF w
    <3> QED
      BY ONLY <3>1
  <2> QED
    BY <2>1, <2>2, <2>3
<1>7. At(l)'
  <2>1. [Work EXCEPT !.fault = error]' = Steps'[l]
    BY <1>2, <1>4
  <2>2. RCX' = startRCX' - Count(l)'
    BY <1>4, <1>5
  <2> HIDE DEF w
  <2> QED
    BY <1>2, <1>4, <1>5, <1>6, <2>1, <2>2 DEF At, Over
<1>8. Over' => past'
  BY <1>2, <1>6 DEF Over
<1> QED
  BY <1>3, <1>4, <1>7, <1>8 DEF IInv, Progress


LEMMA CountType ==
  ASSUME Setting, Origin, NEW k \in 0 .. Bound
  PROVE  /\ startRCX - Count(k) \in Word
         /\ Open(k) /\ Repeated => Count(k) = k
<1>1. Bound \in Nat /\ startRCX \in 0 .. (W - 1) /\ W \in Nat
  <2>1. Bound \in Nat
    BY StepsFacts
  <2>2. W \in Nat
    BY SettingFacts
  <2> QED
    BY <2>1, <2>2 DEF Origin, Word
<1>2. CASE ~Repeated
  <2>1. Count(k) = 0
    BY <1>2 DEF Count
  <2> QED
    BY <1>1, <1>2, <2>1 DEF Word
<1>3. CASE Repeated /\ k = 0
  <2>1. Steps[0].fault = "None"
    BY StepsFacts, Zenon DEF Origin
  <2>2. Count(k) = 0
    BY <1>3, <2>1 DEF Count
  <2> QED
    BY <1>1, <1>3, <2>2 DEF Word
<1>4. CASE Repeated /\ k > 0
  <2>1. k \in 1 .. startRCX
    BY <1>1, <1>4 DEF Bound
  <2>2. Count(k) \in {k, k - 1}
    BY <1>4 DEF Count
  <2>3. Open(k) => Count(k) = k
    BY <1>4 DEF Open, GoesOn, Count
  <2> QED
    BY <1>1, <2>1, <2>2, <2>3 DEF Word
<1>5. k = 0 \/ k > 0
  BY <1>1
<1> QED
  BY <1>2, <1>3, <1>4, <1>5

NextLoop ==
  [p \in Loops |->
     [w |-> Element[p.w], on |-> GoesOn(Element[p.w]),
      left |-> IF Element[p.w].fault = "None" THEN p.left - 1 ELSE p.left]]
IsLoop(g, w, n, m) ==
  g = [k \in 0 .. m |->
         IF k = 0 THEN [w |-> w, left |-> n, on |-> TRUE]
         ELSE IF g[k - 1].on THEN NextLoop[g[k - 1]] ELSE g[k - 1]]

LEMMA LoopExists ==
  ASSUME NEW w, NEW n, NEW m \in Nat
  PROVE  \E g : IsLoop(g, w, n, m)
<1> DEFINE T == {k \in Nat : \E g : IsLoop(g, w, n, k)}
           first == [w |-> w, left |-> n, on |-> TRUE]
           Then(p) == IF p.on THEN NextLoop[p] ELSE p
<1>1. 0 \in T
  <2>1. IsLoop([k \in 0 .. 0 |-> first], w, n, 0)
    BY DEF IsLoop
  <2> QED
    BY <2>1
<1>2. ASSUME NEW k \in Nat, k \in T PROVE k + 1 \in T
  <2>1. PICK g : IsLoop(g, w, n, k)
    BY <1>2
  <2> DEFINE h == [j \in 0 .. (k + 1) |-> IF j = k + 1 THEN Then(g[k]) ELSE g[j]]
  <2>2. \A j \in 0 .. k : g[j] = IF j = 0 THEN first ELSE Then(g[j - 1])
    BY <2>1 DEF IsLoop
  <2> HIDE DEF first, Then
  <2>3. \A j \in 0 .. (k + 1) : h[j] = IF j = 0 THEN first ELSE Then(h[j - 1])
    <3> TAKE j \in 0 .. (k + 1)
    <3>1. CASE j = 0
      BY <2>2, <3>1
    <3>2. CASE j \in 1 .. k
      <4>1. h[j] = g[j] /\ h[j - 1] = g[j - 1] /\ j \in 0 .. k /\ j # 0
        BY <3>2
      <4> HIDE DEF h
      <4> QED
        BY <2>2, <4>1, Zenon
    <3>3. CASE j = k + 1
      <4>1. h[j] = Then(g[k]) /\ h[j - 1] = g[k] /\ j # 0
        BY <3>3
      <4> HIDE DEF h
      <4> QED
        BY <4>1, Zenon
    <3> QED
      BY <3>1, <3>2, <3>3
  <2>4. IsLoop(h, w, n, k + 1)
    BY <2>3 DEF IsLoop, first, Then
  <2> QED
    BY <2>4
<1> HIDE DEF T
<1>3. m \in T
  BY <1>1, <1>2, Induct
<1> QED
  BY <1>3 DEF T

LEMMA LoopUnfolds ==
  ASSUME NEW w, NEW n \in Nat
  PROVE  \E h : /\ LoopFrom(w, n) = h[n]
                /\ h[0] = [w |-> w, left |-> n, on |-> TRUE]
                /\ \A i \in 0 .. (n - 1) :
                     h[i + 1] = IF h[i].on THEN NextLoop[h[i]] ELSE h[i]
<1> DEFINE h == CHOOSE g : IsLoop(g, w, n, n)
           first == [w |-> w, left |-> n, on |-> TRUE]
<1>1. LoopFrom(w, n) = h[n]
  BY DEF LoopFrom, IsLoop, NextLoop
<1>2. IsLoop(h, w, n, n)
  BY LoopExists
<1> HIDE DEF h
<1>3. \A k \in 0 .. n : h[k] = IF k = 0 THEN first
                               ELSE IF h[k - 1].on THEN NextLoop[h[k - 1]] ELSE h[k - 1]
  BY <1>2 DEF IsLoop
<1>4. h[0] = first
  <2> HIDE DEF first
  <2>1. 0 \in 0 .. n
    OBVIOUS
  <2> QED
    BY <1>3, <2>1, Zenon
<1>5. \A i \in 0 .. (n - 1) : h[i + 1] = IF h[i].on THEN NextLoop[h[i]] ELSE h[i]
  <2> TAKE i \in 0 .. (n - 1)
  <2>1. i + 1 \in 0 .. n /\ i + 1 # 0 /\ (i + 1) - 1 = i
    OBVIOUS
  <2> HIDE DEF first
  <2> QED
    BY <1>3, <2>1
<1> QED
  BY <1>1, <1>4, <1>5


(* The loop ends at the last element.                                      *)
LEMMA LoopEnds ==
  ASSUME Setting, Origin, Repeated, RCX \in Word, NEW k \in 0 .. Bound, Open(k), Reached(k),
         Work = Steps[k], RCX = startRCX - k
  PROVE  \E l \in 0 .. Bound : /\ LoopFrom(Work, RCX).w = Steps[l]
                               /\ LoopFrom(Work, RCX).left = startRCX - Count(l)
                               /\ Reached(l) /\ Final(l)
<1>1. Bound = startRCX /\ Bound \in Nat /\ startRCX \in Nat
  BY StepsFacts DEF Bound
<1>2. RCX \in Nat /\ k + RCX = Bound /\ RCX \in 0 .. RCX
  BY <1>1
<1>3. PICK h : /\ LoopFrom(Work, RCX) = h[RCX]
               /\ h[0] = [w |-> Work, left |-> RCX, on |-> TRUE]
               /\ \A i \in 0 .. (RCX - 1) :
                    h[i + 1] = IF h[i].on THEN NextLoop[h[i]] ELSE h[i]
  BY <1>2, LoopUnfolds
<1> DEFINE Good(i, l) ==
             /\ h[i] \in Loops
             /\ h[i].w = Steps[l]
             /\ h[i].left = startRCX - Count(l)
             /\ Reached(l)
             /\ h[i].on => l = k + i /\ Open(l)
             /\ ~h[i].on => Final(l)
           G == {i \in 0 .. RCX : \E l \in 0 .. Bound : Good(i, l)}
<1>4. 0 \in G
  <2>1. Count(k) = k
    BY CountType
  <2>2. Steps[k] \in Works
    BY StepsFacts DEF Proper
  <2>3. h[0].w = Work /\ h[0].left = RCX /\ h[0].on /\ h[0] \in Loops
    BY <1>3, <2>2 DEF Loops
  <2>4. k + 0 = k
    BY <1>1
  <2>5. Good(0, k)
    BY <2>1, <2>3, <2>4
  <2> HIDE DEF Good
  <2> QED
    BY <1>2, <2>5
<1>5. ASSUME NEW i \in 0 .. (RCX - 1), i \in G PROVE i + 1 \in G
  <2>1. PICK l \in 0 .. Bound : Good(i, l)
    BY <1>5
  <2>2. i + 1 \in 0 .. RCX
    BY <1>2
  <2>3. CASE ~h[i].on
    <3>1. h[i + 1] = h[i]
      BY <1>3, <2>3
    <3>2. Good(i + 1, l)
      BY <2>1, <2>3, <3>1
    <3> HIDE DEF Good
    <3> QED
      BY <2>2, <3>2
  <2>4. CASE h[i].on
    <3> DEFINE l1 == l + 1
               w == Steps[l]
               w1 == Steps[l1]
    <3>1. l = k + i /\ Open(l) /\ l \in 0 .. (Bound - 1) /\ l1 \in 0 .. Bound /\ l1 > 0
          /\ l1 = k + (i + 1) /\ l1 - 1 = l /\ l \in Nat
      BY <1>1, <1>2, <2>1, <2>4
    <3>2. w1 = Element[w] /\ w1 \in Works
      <4>1. w1 \in Proper
        BY <3>1, StepsFacts
      <4>2. w1 = Element[w]
        BY <3>1, StepsFacts, Zenon
      <4> HIDE DEF w1
      <4> QED
        BY <4>1, <4>2 DEF Proper
    <3>3. Count(l) = l
      BY <3>1, CountType
    <3>4. h[i + 1] = [w |-> w1, on |-> GoesOn(w1),
                      left |-> IF w1.fault = "None" THEN h[i].left - 1 ELSE h[i].left]
      <4> DEFINE p == h[i]
      <4>1. h[i + 1] = NextLoop[p]
        BY <1>3, <2>4
      <4>2. p \in Loops /\ p.w = w
        BY <2>1
      <4>3. NextLoop[p] = [w |-> Element[p.w], on |-> GoesOn(Element[p.w]),
                           left |-> IF Element[p.w].fault = "None" THEN p.left - 1 ELSE p.left]
        BY <4>2 DEF NextLoop
      <4> HIDE DEF w, w1
      <4> QED
        BY <3>2, <4>1, <4>2, <4>3
    <3>5. startRCX - Count(l1) = IF w1.fault = "None" THEN h[i].left - 1 ELSE h[i].left
      <4>1. h[i].left = startRCX - l
        BY <2>1, <3>3
      <4>2. Count(l1) = IF w1.fault = "None" THEN l1 ELSE l1 - 1
        BY DEF Count
      <4>3. l1 - 1 = l /\ l1 \in Nat /\ l \in Nat
        BY <3>1
      <4> HIDE DEF l1, w1
      <4> QED
        BY <1>1, <4>1, <4>2, <4>3
    <3>6. startRCX - Count(l1) \in Word
      <4> HIDE DEF l1
      <4> QED
        BY <3>1, CountType
    <3>7. Reached(l1)
      <4> SUFFICES ASSUME NEW j \in 1 .. (l1 - 1) PROVE GoesOn(Steps[j])
        BY DEF Reached
      <4>1. j \in 1 .. (l - 1) \/ (j = l /\ l > 0)
        BY <3>1
      <4> QED
        BY <2>1, <3>1, <4>1 DEF Reached, Open
    <3>8. GoesOn(w1) \in BOOLEAN
      BY DEF GoesOn
    <3>9. h[i + 1] \in Loops
      BY <3>2, <3>4, <3>5, <3>6, <3>8 DEF Loops
    <3>10. /\ h[i + 1].w = w1
           /\ h[i + 1].left = startRCX - Count(l1)
           /\ h[i + 1].on = GoesOn(w1)
      BY <3>4, <3>5
    <3>11. h[i + 1].on => Open(l1)
      BY <3>10 DEF Open
    <3>12. ~h[i + 1].on => Final(l1)
      BY <3>1, <3>10 DEF Final
    <3>13. Good(i + 1, l1)
      BY <3>1, <3>7, <3>9, <3>10, <3>11, <3>12
    <3> HIDE DEF Good, l1
    <3> QED
      BY <2>2, <3>1, <3>13
  <2> QED
    BY <2>3, <2>4
<1> HIDE DEF G
<1>6. 0 .. RCX \subseteq G
  BY <1>2, <1>4, <1>5, InductTo
<1>7. PICK l \in 0 .. Bound : Good(RCX, l)
  BY <1>2, <1>6 DEF G
<1>8. Final(l)
  <2>1. CASE h[RCX].on
    <3>1. l = Bound
      BY <1>2, <1>7, <2>1
    <3> QED
      BY <3>1 DEF Final
  <2>2. CASE ~h[RCX].on
    BY <1>7, <2>2
  <2> QED
    BY <2>1, <2>2
<1> QED
  BY <1>3, <1>7, <1>8


LEMMA AtOpen ==
  ASSUME IInv, ~Over, NEW k \in 0 .. Bound, At(k)
  PROVE  /\ Work = Steps[k] /\ Steps[k] \in Proper /\ RCX = startRCX - Count(k)
         /\ Open(k) /\ Reached(k)
         /\ Repeated => RCX = startRCX - k
         /\ ~Repeated => k = 0 /\ Bound = 1 /\ RCX = startRCX
<1>1. Work = [Work EXCEPT !.fault = error]
  BY DEF At, Work
<1>2. Work = Steps[k] /\ Steps[k] \in Proper
  BY <1>1, StepsFacts DEF At, IInv
<1>3. Open(k) /\ Reached(k) /\ RCX = startRCX - Count(k)
  BY DEF At
<1>4. Repeated => RCX = startRCX - k
  BY <1>3, CountType DEF IInv
<1>5. ~Repeated => k = 0 /\ Bound = 1 /\ RCX = startRCX
  <2>1. startRCX \in Int
    BY SettingFacts DEF IInv, Origin, Word
  <2> QED
    BY <1>3, <2>1 DEF At, Bound, Count
<1> QED
  BY <1>2, <1>3, <1>4, <1>5

(* A Tick takes the instruction to another element, and to its end when    *)
(* it ends it.                                                             *)
LEMMA TickStep ==
  ASSUME IInv, Tick
  PROVE  /\ IInv'
         /\ ~Over
         /\ Over' => past' /\ \E l \in 0 .. Bound : At(l)' /\ l \in 0 .. Bound'
<1>1. Settled /\ Setting' /\ Origin'
  BY SettledStep DEF Next, IInv
<1>2. ~Over /\ AtInstruction
  BY DEF Tick, Once, WholeLoop, OneElement, AtInstruction, Over
<1>3. Setting /\ Origin /\ TypeOK
  BY DEF IInv
<1>4. PICK k \in 0 .. Bound : At(k)
  BY DEF IInv, Progress
<1>5. /\ Work = Steps[k] /\ Steps[k] \in Proper /\ RCX = startRCX - Count(k)
      /\ Open(k) /\ Reached(k)
      /\ Repeated => RCX = startRCX - k
      /\ ~Repeated => k = 0 /\ Bound = 1 /\ RCX = startRCX
  BY <1>2, <1>4, AtOpen
<1>6. Bound \in Nat /\ startRCX \in Nat /\ RCX \in Word
  <2>1. Bound \in Nat
    BY <1>3, StepsFacts
  <2>2. startRCX \in Nat
    BY <1>3, SettingFacts DEF Origin, Word
  <2> QED
    BY <1>3, <2>1, <2>2 DEF TypeOK
<1>7. SUFFICES \E l \in 0 .. Bound :
                 /\ Becomes(Steps[l]) /\ Reached(l) /\ RCX' = startRCX - Count(l)
                 /\ RCX' \in Word /\ past' \in BOOLEAN
                 /\ past' => Final(l)
                 /\ ~past' => Open(l) /\ Repeated
  BY <1>1, <1>2, StepTo
<1>8. CASE Once
  <2>1. ~Repeated
    BY <1>8, Zenon DEF Once, Repeated
  <2>2. Steps[1] = Element[Work]
    <3>1. 0 \in 0 .. (Bound - 1) /\ 0 + 1 = 1 /\ Steps[0] = Work
      BY <1>5, <2>1
    <3> QED
      BY <1>3, <3>1, StepsFacts
  <2>3. Becomes(Steps[1]) /\ past' = TRUE /\ RCX' = RCX
    BY <1>8, <2>2, Zenon DEF Once
  <2>4. Count(1) = 0
    BY <2>1 DEF Count
  <2>5. Reached(1) /\ Final(1) /\ 1 \in 0 .. Bound
    BY <1>5, <2>1 DEF Reached, Final
  <2>6. RCX' = startRCX - Count(1) /\ RCX' \in Word
    BY <1>5, <1>6, <2>1, <2>3, <2>4
  <2> QED
    BY <2>3, <2>5, <2>6
<1>9. CASE WholeLoop
  <2>1. Repeated
    BY <1>9, Zenon DEF WholeLoop, Repeated
  <2>2. PICK l \in 0 .. Bound : /\ LoopFrom(Work, RCX).w = Steps[l]
                                /\ LoopFrom(Work, RCX).left = startRCX - Count(l)
                                /\ Reached(l) /\ Final(l)
    BY <1>3, <1>5, <1>6, <2>1, LoopEnds
  <2>3. Becomes(Steps[l]) /\ RCX' = startRCX - Count(l) /\ past' = TRUE
    BY <1>9, <2>2, Zenon DEF WholeLoop
  <2>4. RCX' \in Word
    BY <1>3, <2>3, CountType
  <2> QED
    BY <2>2, <2>3, <2>4
<1>10. CASE OneElement
  <2>1. Repeated /\ RCX = startRCX - k /\ Bound = startRCX
    <3>1. Repeated
      BY <1>10, Zenon DEF OneElement, Repeated
    <3> QED
      BY <1>5, <3>1 DEF Bound
  <2>2. CASE NoneLeft
    <3>1. k = Bound
      BY <1>6, <2>1, <2>2 DEF NoneLeft
    <3>2. /\ mem' = mem /\ RSI' = RSI /\ RDI' = RDI /\ RAX' = RAX /\ ZF' = ZF
          /\ error' = error /\ running' = running /\ RCX' = RCX /\ past' = TRUE
          /\ UNCHANGED <<instr, memoryVars, OTRF, history>>
      BY <2>2 DEF NoneLeft, regVars
    <3>3. Becomes(Steps[k])
      <4>1. error = "None" /\ running = TRUE
        BY <1>2, <1>4 DEF At, AtInstruction, TypeOK, IInv
      <4>2. /\ Work.mem = mem /\ Work.RSI = RSI /\ Work.RDI = RDI /\ Work.RAX = RAX
            /\ Work.ZF = ZF /\ Work.fault = "None"
        BY DEF Work
      <4> QED
        BY <1>5, <3>2, <4>1, <4>2 DEF Becomes
    <3>4. Final(k)
      BY <3>1 DEF Final
    <3> QED
      BY <1>5, <1>6, <3>2, <3>3, <3>4
  <2>3. CASE ~NoneLeft
    <3> DEFINE l == k + 1
               w == Steps[l]
    <3>1. /\ Becomes(Element[Work]) /\ RCX' = Left(Element[Work])
          /\ past' = ~GoesOn(Element[Work]) /\ RCX # 0
      BY <1>10, <2>3, Zenon DEF OneElement
    <3>2. k \in 0 .. (Bound - 1) /\ l \in 0 .. Bound /\ l > 0 /\ l - 1 = k /\ k \in Nat
      BY <1>6, <2>1, <3>1
    <3>3. w = Element[Work]
      BY <1>3, <1>5, <3>2, StepsFacts, Zenon
    <3>4. Becomes(w) /\ past' = ~GoesOn(w)
      BY <3>1, <3>3, Zenon
    <3>5. RCX' = startRCX - Count(l)
      <4>1. Count(l) = IF w.fault = "None" THEN l ELSE l - 1
        BY <2>1 DEF Count
      <4>2. RCX' = IF w.fault = "None" THEN RCX - 1 ELSE RCX
        BY <3>1, <3>3, Zenon DEF Left
      <4>3. RCX - 1 = startRCX - (k + 1) /\ RCX = startRCX - (l - 1)
        BY <1>6, <2>1, <3>2
      <4> QED
        BY <4>1, <4>2, <4>3
    <3>6. RCX' \in Word
      BY <1>3, <3>2, <3>5, CountType
    <3>7. Reached(l)
      <4> SUFFICES ASSUME NEW j \in 1 .. (l - 1) PROVE GoesOn(Steps[j])
        BY DEF Reached
      <4>1. j \in 1 .. (k - 1) \/ (j = k /\ k > 0)
        BY <3>2
      <4> QED
        BY <1>5, <4>1 DEF Reached, Open
    <3>8. past' => Final(l)
      BY <3>2, <3>4 DEF Final
    <3>9. ~past' => Open(l)
      BY <3>4 DEF Open
    <3>10. past' \in BOOLEAN
      BY <3>4 DEF GoesOn
    <3> HIDE DEF l
    <3> QED
      BY <2>1, <3>2, <3>4, <3>5, <3>6, <3>7, <3>8, <3>9, <3>10
  <2> QED
    BY <2>2, <2>3
<1> QED
  BY <1>8, <1>9, <1>10 DEF Tick


(* What the host does between two Ticks leaves the instruction where it is.*)
LEMMA HostStep ==
  ASSUME IInv, SetOTRF \/ Stop \/ UNCHANGED vars, NEW k \in 0 .. Bound, At(k)
  PROVE  /\ At(k)' /\ IInv'
         /\ UNCHANGED <<mem, regVars, past, error, instr, history>>
<1>1. Settled /\ Setting' /\ Origin'
  BY SettledStep DEF Next, IInv
<1>2. /\ UNCHANGED <<mem, mem_size, RSI, RDI, RCX, RAX, ZF, past, error, instr, start, startRCX>>
      /\ OTRF' \in BOOLEAN
      /\ running' = running \/ (running' = FALSE /\ ~Over)
  <2>1. CASE SetOTRF
    BY <2>1 DEF SetOTRF, memoryVars, regVars, history, TypeOK, IInv
  <2>2. CASE Stop
    BY <2>2 DEF Stop, memoryVars, regVars, history, TypeOK, IInv, AtInstruction, Over
  <2>3. CASE UNCHANGED vars
    BY <2>3 DEF vars, memoryVars, regVars, history, TypeOK, IInv
  <2> QED
    BY <2>1, <2>2, <2>3
<1>3. UNCHANGED <<mem, regVars, past, error, instr, history>>
  BY <1>2 DEF regVars, history
<1>4. TypeOK'
  BY <1>2 DEF IInv, TypeOK
<1>5. Work' = Work
  BY <1>2 DEF Work
<1>6. Steps' = Steps /\ Bound' = Bound /\ (Repeated' <=> Repeated)
  BY <1>1, StepsKept
<1>7. /\ Count(k)' = Count(k) /\ (Reached(k)' <=> Reached(k))
      /\ Open(k)' <=> Open(k)
      /\ Final(k)' <=> Final(k)
  BY <1>1, AtKept
<1>8. ~Over' => ~Over
  BY <1>2 DEF Over, IInv, TypeOK
<1>9. At(k)'
  BY <1>2, <1>5, <1>6, <1>7, <1>8 DEF At
<1> QED
  BY <1>1, <1>3, <1>4, <1>6, <1>9 DEF IInv, Progress

(* The machine is always at some element: its memory and registers are     *)
(* those the instruction has after that many, its count is lower by them,  *)
(* none of them but the last ends it, and it is past the instruction only  *)
(* when the last one does.                                                 *)
THEOREM StringsInvariant == Spec => []IInv
<1>1. Init => IInv
  BY InitIInv
<1>2. IInv /\ [Next]_vars => IInv'
  <2> SUFFICES ASSUME IInv, [Next]_vars PROVE IInv'
    OBVIOUS
  <2>1. CASE Tick
    BY <2>1, TickStep
  <2>2. CASE SetOTRF \/ Stop \/ UNCHANGED vars
    <3>1. PICK k \in 0 .. Bound : At(k)
      BY DEF IInv, Progress
    <3> QED
      BY <2>2, <3>1, HostStep
  <2> QED
    BY <2>1, <2>2 DEF Next
<1> QED
  BY <1>1, <1>2, PTL DEF Spec

(* RSI, RDI and RAX stay u64 and memory stays bytes, whichever way and     *)
(* however far the pointers run.                                           *)
THEOREM StringsTypeOK == Spec => []TypeOK
<1>1. IInv => TypeOK
  BY DEF IInv
<1> QED
  BY <1>1, StringsInvariant, PTL

-----------------------------------------------------------------------------
(* The instruction as a whole.                                             *)

(* An element is the same in both modules.                                 *)
LEMMA WholeElement ==
  /\ Whole!Element = Element
  /\ \A w : Whole!GoesOn(w) <=> GoesOn(w)
<1>1. \A pos, n : Whole!ReadFault(pos, n) = ReadFault(pos, n)
  BY DEF ReadFault, Whole!ReadFault
<1>2. \A pos, n : Whole!WriteFault(pos, n) = WriteFault(pos, n)
  BY <1>1 DEF WriteFault, Whole!WriteFault
<1>3. \A f, g : Whole!FirstOf(f, g) = FirstOf(f, g)
  BY DEF FirstOf, Whole!FirstOf
<1>4. \A w : Whole!ElementFault(w) = ElementFault(w)
  BY <1>1, <1>2, <1>3 DEF ElementFault, Whole!ElementFault
<1>5. \A pos : Whole!Moved(pos) = Moved(pos)
  BY DEF Moved, Whole!Moved
<1>6. Whole!Power = Power
  BY DEF Power, Whole!Power
<1>7. \A m, pos, n : Whole!Held(m, pos, n) = Held(m, pos, n)
  BY <1>6 DEF Held, Whole!Held
<1>8. \A v, i : Whole!ByteOf(v, i) = ByteOf(v, i)
  BY <1>6 DEF ByteOf, Whole!ByteOf
<1>9. \A m, pos, n, v : Whole!Written(m, pos, n, v) = Written(m, pos, n, v)
  BY <1>8 DEF Written, Whole!Written
<1>10. \A r, n, v : Whole!Merged(r, n, v) = Merged(r, n, v)
  BY <1>6 DEF Merged, Whole!Merged
<1>11. \A w : /\ Whole!AtSource(w) = AtSource(w)
              /\ Whole!AtDestination(w) = AtDestination(w)
              /\ Whole!Accumulator(w) = Accumulator(w)
  BY <1>6, <1>7 DEF AtSource, AtDestination, Accumulator,
                    Whole!AtSource, Whole!AtDestination, Whole!Accumulator
<1>12. \A w : /\ Whole!MOVS(w) = MOVS(w)
              /\ Whole!CMPS(w) = CMPS(w)
              /\ Whole!LODS(w) = LODS(w)
              /\ Whole!STOS(w) = STOS(w)
              /\ Whole!SCAS(w) = SCAS(w)
  BY <1>5, <1>9, <1>10, <1>11 DEF MOVS, CMPS, LODS, STOS, SCAS,
       Whole!MOVS, Whole!CMPS, Whole!LODS, Whole!STOS, Whole!SCAS
<1>13. Whole!Works = Works
  BY DEF Works, Whole!Works, Byte, Whole!Byte
<1>14. Whole!Element = Element
  BY <1>4, <1>12, <1>13 DEF Element, Whole!Element
<1>15. \A w : Whole!GoesOn(w) <=> GoesOn(w)
  BY DEF GoesOn, Whole!GoesOn
<1> QED
  BY <1>14, <1>15

(* Before it is over, the work after every element as StringInstruction    *)
(* defines it is the work after every element.                             *)
LEMMA AfterIsSteps ==
  ASSUME IInv, ~Over
  PROVE  /\ Whole!Limit = Bound
         /\ \A k \in 0 .. Bound : Whole!After[k] = Steps[k]
<1>1. Whole!Limit = Bound
  BY Zenon DEF Whole!Limit, Bound, Repeated
<1> DEFINE IsAfter(g) == g = [k \in 0 .. Whole!Limit |->
                           IF k = 0 THEN IF Over THEN [Work EXCEPT !.fault = error] ELSE start
                           ELSE Element[g[k - 1]]]
           after == Whole!After
<1>2. after = CHOOSE g : IsAfter(g)
  BY WholeElement DEF Whole!After
<1>3. Setting /\ Origin /\ Bound \in Nat
  BY StepsFacts DEF IInv
<1>4. \E g : IsAfter(g)
  <2>1. PICK g : IsSteps(g, Bound)
    BY <1>3, StepsExist
  <2>2. g = [k \in 0 .. Bound |-> IF k = 0 THEN start ELSE Element[g[k - 1]]]
    BY <2>1 DEF IsSteps
  <2>3. IsAfter(g)
    BY <1>1, <2>2
  <2> QED
    BY <2>3
<1>5. IsAfter(after)
  <2> HIDE DEF IsAfter
  <2> QED
    BY <1>2, <1>4
<1> HIDE DEF after
<1>6. \A k \in 0 .. Bound : after[k] = IF k = 0 THEN start ELSE Element[after[k - 1]]
  BY <1>1, <1>5
<1> DEFINE G == {k \in 0 .. Bound : after[k] = Steps[k]}
<1>7. 0 \in G
  BY <1>3, <1>6, StepsFacts
<1>8. ASSUME NEW k \in 0 .. (Bound - 1), k \in G PROVE k + 1 \in G
  <2> DEFINE j == k + 1
  <2>1. j \in 0 .. Bound /\ j # 0 /\ j - 1 = k
    BY <1>3
  <2>2. Steps[j] = Element[Steps[k]]
    BY <1>3, StepsFacts
  <2> HIDE DEF j
  <2>3. after[j] = Element[after[k]]
    BY <1>6, <2>1, Zenon
  <2>4. j \in G
    BY <1>8, <2>1, <2>2, <2>3
  <2> QED
    BY <2>4 DEF j
<1> HIDE DEF G
<1>9. 0 .. Bound \subseteq G
  BY <1>3, <1>7, <1>8, InductTo
<1> QED
  BY <1>1, <1>9 DEF G, after


(* A step to l elements that ends the instruction is a step of the whole.  *)
LEMMA WholeDoes ==
  ASSUME IInv, Settled, ~Over, Over', NEW l \in 0 .. Bound, At(l)'
  PROVE  /\ Whole!Does(l) /\ l \in 0 .. Whole!Limit
         /\ Reached(l)' => Whole!Handled(l)
         /\ Final(l)' => l = Whole!Limit \/ (l > 0 /\ ~Whole!GoesOn(Whole!After[l]))
         /\ Open(l)' => (l > 0 => Whole!GoesOn(Whole!After[l]))
<1>1. Setting /\ Origin /\ Bound \in Nat
  BY StepsFacts DEF IInv
<1>2. Whole!Limit = Bound /\ \A k \in 0 .. Bound : Whole!After[k] = Steps[k]
  BY AfterIsSteps
<1>3. \A w : Whole!GoesOn(w) <=> GoesOn(w)
  BY WholeElement
<1>4. Steps' = Steps /\ startRCX' = startRCX /\ instr' = instr
      /\ Count(l)' = Count(l) /\ (Reached(l)' <=> Reached(l))
      /\ (Open(l)' <=> Open(l)) /\ (Final(l)' <=> Final(l))
  BY StepsKept, AtKept DEF Settled
<1>5. Whole!Counted(l) = Count(l)
  BY <1>2, Zenon DEF Whole!Counted, Count, Repeated
<1>6. Whole!Does(l)
  <2>1. [Work EXCEPT !.fault = error]' = Whole!After[l]
    BY <1>2, <1>4 DEF At
  <2>2. RCX' = startRCX - Whole!Counted(l)
    BY <1>4, <1>5 DEF At
  <2> QED
    BY <1>4, <2>1, <2>2, Zenon DEF Whole!Does
<1>7. Reached(l)' => Whole!Handled(l)
  <2>1. \A j \in 1 .. (l - 1) : j \in 0 .. Bound
    BY <1>1
  <2> QED
    BY <1>2, <1>3, <1>4, <2>1, Zenon DEF Whole!Handled, Reached
<1> QED
  BY <1>2, <1>3, <1>4, <1>6, <1>7, Zenon DEF Open, Final

(* A step within the instruction is none of the whole.                     *)
LEMMA WholeStutters ==
  ASSUME instr' = instr, start' = start, startRCX' = startRCX, ~Over, ~Over'
  PROVE  Whole!stringVars' = Whole!stringVars
<1>1. Over = FALSE /\ Over' = FALSE
  BY DEF Over
<1>2. Whole!stringVars = <<instr, start, startRCX, FALSE>>
  BY <1>1, Zenon DEF Whole!stringVars
<1>3. Whole!stringVars' = <<instr', start', startRCX', FALSE>>
  BY <1>1, Zenon DEF Whole!stringVars
<1> QED
  BY <1>2, <1>3

(* In one Tick or in many, with OTRF set or cleared on the way, a string   *)
(* instruction does what the whole instruction does, whatever memory, the  *)
(* registers, the count and the barriers are; a client stopped in it has   *)
(* done some of its elements and no part of another.                       *)
THEOREM StringsWhole == Spec => WholeInstruction
<1>1. Init => Whole!Init
  <2> SUFFICES ASSUME Init PROVE Whole!Init
    OBVIOUS
  <2>1. IInv
    BY InitIInv
  <2>2. ~Over
    BY DEF Init, Over
  <2> QED
    BY <2>1, <2>2, Zenon DEF Whole!Init, IInv, Setting, Origin, Instruction, Whole!Instruction,
       Searches, Whole!Searches, Word, Whole!Word
<1>2. IInv /\ [Next]_vars => [Whole!Next]_(Whole!stringVars)
  <2> SUFFICES ASSUME IInv, [Next]_vars, Whole!stringVars' # Whole!stringVars
               PROVE  Whole!Next
    BY Zenon
  <2>1. Settled /\ instr' = instr /\ startRCX' = startRCX /\ start' = start
    BY SettledStep DEF Settled
  <2>2. CASE Tick
    <3>1. ~Over /\ (Over' => past' /\ \E l \in 0 .. Bound : At(l)' /\ l \in 0 .. Bound')
      BY <2>2, TickStep
    <3>2. CASE Over'
      <4>1. PICK l \in 0 .. Bound : At(l)'
        BY <3>1, <3>2
      <4>2. Final(l)' /\ Reached(l)'
        BY <3>1, <3>2, <4>1 DEF At
      <4> QED
        BY <2>1, <3>1, <3>2, <4>1, <4>2, WholeDoes, Zenon
           DEF Whole!Next, Whole!Execute, Whole!Complete
    <3>3. CASE ~Over'
      BY <2>1, <3>1, <3>3, WholeStutters
    <3> QED
      BY <3>2, <3>3
  <2>3. CASE SetOTRF \/ Stop \/ UNCHANGED vars
    <3>1. PICK k \in 0 .. Bound : At(k)
      BY DEF IInv, Progress
    <3>2. At(k)' /\ UNCHANGED <<mem, regVars, past, error, instr, history>>
      BY <2>3, <3>1, HostStep
    <3>3. CASE Over
      <4>1. Over'
        <5>1. running' = running
          BY <2>3, <3>3 DEF SetOTRF, Stop, vars, AtInstruction, Over
        <5> QED
          BY <3>2, <3>3, <5>1 DEF Over
      <4>2. [Work EXCEPT !.fault = error]' = [Work EXCEPT !.fault = error]
        BY <3>2 DEF Work, regVars
      <4>3. RCX' = RCX
        BY <3>2 DEF regVars
      <4> QED
        BY <2>1, <3>3, <4>1, <4>2, <4>3, Zenon DEF Whole!stringVars
    <3>4. CASE ~Over /\ ~Over'
      BY <2>1, <3>4, WholeStutters
    <3>5. CASE ~Over /\ Over'
      <4>1. ~past
        BY <3>5 DEF Over
      <4>2. Open(k)' /\ Reached(k)'
        BY <3>2, <4>1 DEF At
      <4> QED
        BY <2>1, <3>1, <3>2, <3>5, <4>2, WholeDoes, Zenon DEF Whole!Next, Whole!Interrupt
    <3> QED
      BY <3>3, <3>4, <3>5
  <2> QED
    BY <2>2, <2>3 DEF Next
<1> QED
  BY <1>1, <1>2, StringsInvariant, PTL DEF Spec, WholeInstruction, Whole!Spec


-----------------------------------------------------------------------------
(* Where the elements are.                                                 *)

LEMMA PlaceType ==
  ASSUME Setting, NEW pos \in Int, NEW i \in Int
  PROVE  /\ Place(pos, i) \in Int
         /\ Place(pos, 0) = pos
         /\ Place(pos, i + 1) = IF instr.DF THEN Place(pos, i) - instr.size
                                ELSE Place(pos, i) + instr.size
<1> DEFINE n == instr.size
<1>1. n \in Int
  BY SettingFacts
<1> HIDE DEF n
<1>2. i * n \in Int /\ 0 * n = 0 /\ (i + 1) * n = i * n + n
  BY <1>1
<1> DEFINE in == i * n
           jn == (i + 1) * n
<1>3. in \in Int /\ jn = in + n
  BY <1>2
<1>4. Place(pos, i) = (IF instr.DF THEN pos - in ELSE pos + in)
      /\ Place(pos, i + 1) = (IF instr.DF THEN pos - jn ELSE pos + jn)
  BY DEF Place, n
<1>5. Place(pos, 0) = pos
  BY <1>2 DEF Place, n
<1> HIDE DEF in, jn
<1> QED
  BY <1>1, <1>3, <1>4, <1>5 DEF n

(* A pointer that stays in memory did not wrap.                            *)
LEMMA MovedInside ==
  ASSUME Setting, NEW pos \in Nat, pos + instr.size <= mem_size,
         Moved(pos) \in Nat, Moved(pos) < mem_size
  PROVE  Moved(pos) = IF instr.DF THEN pos - instr.size ELSE pos + instr.size
<1> DEFINE n == instr.size
           x == IF instr.DF THEN pos - n ELSE pos + n
<1>1. /\ n \in 1 .. PtrSize /\ W \in Nat \ {0} /\ PtrSize \in Nat /\ MaxAlloc \in Nat
      /\ MaxAlloc + PtrSize < W /\ mem_size \in 0 .. MaxAlloc
  BY SettingFacts DEF Setting
<1>2. pos + n <= mem_size /\ Moved(pos) = x % W
  BY DEF Moved
<1> HIDE DEF n
<1>3. x \in (0 - PtrSize) .. (W - 1)
  BY <1>1, <1>2
<1> HIDE DEF x
<1>4. CASE x >= 0
  <2>1. x % W = x
    BY <1>1, <1>3, <1>4
  <2> QED
    BY <1>2, <2>1 DEF x, n
<1>5. CASE x < 0
  <2>1. x % W = x + W
    BY <1>1, <1>3, <1>5, Z3
  <2> QED
    BY <1>1, <1>2, <1>3, <2>1
<1> QED
  BY <1>3, <1>4, <1>5

LEMMA PlacesExact ==
  ASSUME Setting, NEW k \in Nat, NEW p,
         \A j \in 0 .. (k - 1) : p[j] \in Nat /\ p[j] + instr.size <= mem_size,
         \A j \in 0 .. (k - 1) : p[j + 1] = Moved(p[j])
  PROVE  \A j \in 0 .. (k - 1) : p[j] = Place(p[0], j)
<1>1. CASE k = 0
  BY <1>1
<1>2. CASE k > 0
  <2> DEFINE G == {j \in 0 .. (k - 1) : p[j] = Place(p[0], j)}
             m == k - 1
             o == p[0]
  <2>1. m \in Nat /\ 0 \in 0 .. m
    BY <1>2
  <2>2. o \in Int
    BY <2>1
  <2>3. 0 \in G
    BY <2>1, <2>2, PlaceType
  <2>4. ASSUME NEW j \in 0 .. (m - 1), j \in G PROVE j + 1 \in G
    <3>1. j \in 0 .. (k - 1) /\ j + 1 \in 0 .. (k - 1) /\ j \in Int
      BY <2>1
    <3>2. p[j] \in Nat /\ p[j] + instr.size <= mem_size /\ p[j] = Place(o, j)
      BY <2>4, <3>1
    <3>3. p[j + 1] \in Nat /\ p[j + 1] + instr.size <= mem_size /\ p[j + 1] = Moved(p[j])
      BY <3>1
    <3> DEFINE a == p[j]
               b == p[j + 1]
    <3>4. b < mem_size /\ b = Moved(a) /\ b \in Nat /\ a \in Nat /\ a + instr.size <= mem_size
      <4>1. instr.size \in 1 .. PtrSize /\ mem_size \in Nat
        BY SettingFacts DEF Setting
      <4> QED
        BY <3>2, <3>3, <4>1
    <3> HIDE DEF a, b
    <3>5. b = IF instr.DF THEN a - instr.size ELSE a + instr.size
      BY <3>4, MovedInside
    <3>6. b = Place(o, j + 1)
      <4>1. a = Place(o, j)
        BY <3>2 DEF a
      <4> HIDE DEF o
      <4> QED
        BY <2>2, <3>1, <3>5, <4>1, PlaceType
    <3> QED
      BY <3>1, <3>6 DEF b
  <2> HIDE DEF G
  <2>5. 0 .. m \subseteq G
    <3> HIDE DEF m
    <3> QED
      BY <2>1, <2>3, <2>4, InductTo
  <2> QED
    BY <2>5 DEF G
<1> QED
  BY <1>1, <1>2

(* Elements that did not fault.                                            *)
Clear(k) == \A j \in 0 .. k : Steps[j].fault = "None"

LEMMA ClearElement ==
  ASSUME Setting, Origin, NEW k \in 0 .. Bound, Clear(k), NEW j \in 0 .. (k - 1)
  PROVE  /\ Steps[j] \in Works /\ Steps[j] \in Proper /\ Steps[j + 1] = Element[Steps[j]]
         /\ ElementFault(Steps[j]) = "None"
<1>1. Bound \in Nat
  BY StepsFacts
<1>2. j \in 0 .. (Bound - 1) /\ j \in 0 .. Bound /\ j \in 0 .. k /\ j + 1 \in 0 .. k
  BY <1>1
<1> DEFINE w == Steps[j]
<1>3. w \in Proper /\ Steps[j + 1] = Element[w]
  BY <1>2, StepsFacts
<1>4. w.fault = "None" /\ Steps[j + 1].fault = "None"
  BY <1>2 DEF Clear
<1> HIDE DEF w
<1>5. w \in Works
  BY <1>3 DEF Proper
<1>6. ElementFault(w) = "None"
  BY <1>3, <1>4, <1>5, FaultAfter
<1> QED
  BY <1>3, <1>5, <1>6 DEF w

(* What ended elements tell.                                               *)
LEMMA ClearAt ==
  ASSUME IInv, NEW k \in 0 .. Bound, At(k), error = "None"
  PROVE  Clear(k)
<1>1. Setting /\ Origin /\ Bound \in Nat
  BY StepsFacts DEF IInv
<1>2. Steps[0].fault = "None"
  BY <1>1, StepsFacts, Zenon DEF Origin
<1>3. Steps[k].fault = "None"
  <2>1. [Work EXCEPT !.fault = error].fault = error
    BY DEF Work
  <2> QED
    BY <2>1 DEF At
<1>4. \A j \in 1 .. (k - 1) : Steps[j].fault = "None"
  BY DEF At, Reached, GoesOn
<1>5. \A j \in 0 .. k : j = 0 \/ j = k \/ j \in 1 .. (k - 1)
  BY <1>1
<1> QED
  BY <1>2, <1>3, <1>4, <1>5, Zenon DEF Clear


-----------------------------------------------------------------------------
(* Searches.                                                               *)

LEMMA SearchElement ==
  ASSUME Setting, NEW w \in Proper, ElementFault(w) = "None", instr.op \in Searches
  PROVE  /\ w.RDI \in Nat /\ w.RDI + instr.size <= mem_size
         /\ Element[w].RDI = Moved(w.RDI)
         /\ Element[w].mem = w.mem /\ Element[w].RAX = w.RAX
         /\ instr.op = "SCAS" => Element[w].ZF = (Accumulator(w) = AtDestination(w))
         /\ instr.op = "CMPS" => /\ w.RSI \in Nat /\ w.RSI + instr.size <= mem_size
                                 /\ Element[w].RSI = Moved(w.RSI)
                                 /\ Element[w].ZF = (AtSource(w) = AtDestination(w))
<1>1. w \in Works /\ w.RDI \in Int /\ w.RSI \in Int
  BY DEF Proper, Works
<1>2. CASE instr.op = "SCAS"
  <2>1. Element[w] = SCAS(w) /\ w.RDI \in Nat /\ w.RDI + instr.size <= mem_size
    BY <1>1, <1>2, ElementDone, OperandType
  <2>2. /\ SCAS(w).RDI = Moved(w.RDI) /\ SCAS(w).mem = w.mem /\ SCAS(w).RAX = w.RAX
        /\ SCAS(w).ZF = (Accumulator(w) = AtDestination(w))
    BY <1>1 DEF SCAS, Works
  <2> QED
    BY <1>2, <2>1, <2>2
<1>3. CASE instr.op = "CMPS"
  <2>1. Element[w] = CMPS(w) /\ w.RDI \in Nat /\ w.RDI + instr.size <= mem_size
        /\ w.RSI \in Nat /\ w.RSI + instr.size <= mem_size
    BY <1>1, <1>3, ElementDone, OperandType
  <2>2. /\ CMPS(w).RDI = Moved(w.RDI) /\ CMPS(w).mem = w.mem /\ CMPS(w).RAX = w.RAX
        /\ CMPS(w).RSI = Moved(w.RSI)
        /\ CMPS(w).ZF = (AtSource(w) = AtDestination(w))
    BY <1>1 DEF CMPS, Works
  <2> QED
    BY <1>3, <2>1, <2>2
<1> QED
  BY <1>2, <1>3 DEF Searches

(* Element i is the same in both places.                                   *)
SameAt(i) ==
  Held(start.mem, Place(start.RDI, i), instr.size) =
    IF instr.op = "SCAS" THEN start.RAX % Power[instr.size]
    ELSE Held(start.mem, Place(start.RSI, i), instr.size)

LEMMA SearchFacts ==
  ASSUME Setting, Origin, NEW k \in 0 .. Bound, Clear(k), instr.op \in Searches
  PROVE  /\ \A j \in 0 .. k : Steps[j].mem = start.mem /\ Steps[j].RAX = start.RAX
         /\ \A j \in 0 .. (k - 1) : Steps[j + 1].ZF = SameAt(j)
<1>1. Bound \in Nat /\ k \in Nat /\ 0 \in 0 .. k /\ Steps[0] = start
  <2>1. Bound \in Nat /\ Steps[0] = start
    BY StepsFacts
  <2> QED
    BY <2>1
<1> DEFINE w(j) == Steps[j]
<1>2. \A j \in 0 .. (k - 1) :
        /\ w(j) \in Proper /\ w(j + 1) = Element[w(j)] /\ ElementFault(w(j)) = "None"
  BY ClearElement
<1> HIDE DEF w
<1>3. \A j \in 0 .. (k - 1) :
         /\ w(j).RDI \in Nat /\ w(j).RDI + instr.size <= mem_size
         /\ w(j + 1).RDI = Moved(w(j).RDI)
         /\ w(j + 1).mem = w(j).mem /\ w(j + 1).RAX = w(j).RAX
         /\ instr.op = "SCAS" => w(j + 1).ZF = (Accumulator(w(j)) = AtDestination(w(j)))
         /\ instr.op = "CMPS" => /\ w(j).RSI \in Nat /\ w(j).RSI + instr.size <= mem_size
                                 /\ w(j + 1).RSI = Moved(w(j).RSI)
                                 /\ w(j + 1).ZF = (AtSource(w(j)) = AtDestination(w(j)))
  BY <1>2, SearchElement
<1>4. \A j \in 0 .. k : w(j).mem = start.mem /\ w(j).RAX = start.RAX
  <2> DEFINE G == {j \in 0 .. k : w(j).mem = start.mem /\ w(j).RAX = start.RAX}
  <2>1. 0 \in G
    BY <1>1 DEF w
  <2>2. ASSUME NEW j \in 0 .. (k - 1), j \in G PROVE j + 1 \in G
    <3>1. j + 1 \in 0 .. k
      BY <1>1
    <3> QED
      BY <1>3, <2>2, <3>1
  <2> HIDE DEF G
  <2>3. 0 .. k \subseteq G
    BY <1>1, <2>1, <2>2, InductTo
  <2> QED
    BY <2>3 DEF G
<1>5. \A j \in 0 .. (k - 1) : w(j).RDI = Place(start.RDI, j)
  <2> DEFINE p == [j \in 0 .. k |-> w(j).RDI]
  <2>1. \A j \in 0 .. (k - 1) : p[j] = w(j).RDI /\ p[j + 1] = w(j + 1).RDI
    BY <1>1
  <2>2. p[0] = start.RDI
    BY <1>1 DEF w
  <2> HIDE DEF p
  <2>3. \A j \in 0 .. (k - 1) : p[j] \in Nat /\ p[j] + instr.size <= mem_size
    BY <1>3, <2>1
  <2>4. \A j \in 0 .. (k - 1) : p[j + 1] = Moved(p[j])
    BY <1>3, <2>1
  <2>5. \A j \in 0 .. (k - 1) : p[j] = Place(p[0], j)
    BY <1>1, <2>3, <2>4, PlacesExact
  <2> QED
    BY <2>1, <2>2, <2>5
<1>6. instr.op = "CMPS" => \A j \in 0 .. (k - 1) : w(j).RSI = Place(start.RSI, j)
  <2> SUFFICES ASSUME instr.op = "CMPS"
               PROVE  \A j \in 0 .. (k - 1) : w(j).RSI = Place(start.RSI, j)
    OBVIOUS
  <2> DEFINE p == [j \in 0 .. k |-> w(j).RSI]
  <2>1. \A j \in 0 .. (k - 1) : p[j] = w(j).RSI /\ p[j + 1] = w(j + 1).RSI
    BY <1>1
  <2>2. p[0] = start.RSI
    BY <1>1 DEF w
  <2> HIDE DEF p
  <2>3. \A j \in 0 .. (k - 1) : p[j] \in Nat /\ p[j] + instr.size <= mem_size
    BY <1>3, <2>1
  <2>4. \A j \in 0 .. (k - 1) : p[j + 1] = Moved(p[j])
    BY <1>3, <2>1
  <2>5. \A j \in 0 .. (k - 1) : p[j] = Place(p[0], j)
    BY <1>1, <2>3, <2>4, PlacesExact
  <2> QED
    BY <2>1, <2>2, <2>5
<1>7. \A j \in 0 .. (k - 1) : w(j + 1).ZF = SameAt(j)
  <2> TAKE j \in 0 .. (k - 1)
  <2>1. j \in 0 .. k
    BY <1>1
  <2>2. w(j).mem = start.mem /\ w(j).RAX = start.RAX /\ w(j).RDI = Place(start.RDI, j)
    BY <1>4, <1>5, <2>1
  <2>3. CASE instr.op = "SCAS"
    <3>1. w(j + 1).ZF = (Accumulator(w(j)) = AtDestination(w(j)))
      BY <1>3, <2>3
    <3> QED
      BY <2>2, <2>3, <3>1, Zenon DEF SameAt, Accumulator, AtDestination
  <2>4. CASE instr.op = "CMPS"
    <3>1. w(j + 1).ZF = (AtSource(w(j)) = AtDestination(w(j))) /\ w(j).RSI = Place(start.RSI, j)
      BY <1>3, <1>6, <2>4
    <3> DEFINE x == Held(start.mem, Place(start.RSI, j), instr.size)
               y == Held(start.mem, Place(start.RDI, j), instr.size)
    <3>2. AtSource(w(j)) = x /\ AtDestination(w(j)) = y
      BY <2>2, <3>1 DEF AtSource, AtDestination
    <3>3. SameAt(j) = (y = x)
      BY <2>4 DEF SameAt
    <3> HIDE DEF x, y
    <3> QED
      BY <3>1, <3>2, <3>3
  <2> QED
    BY <2>3, <2>4 DEF Searches
<1> QED
  BY <1>4, <1>7 DEF w

(* Where a repeated search that did not fault has stopped.                 *)
LEMMA SearchEnds ==
  ASSUME IInv, past, error = "None", instr.op \in Searches, Repeated, startRCX > 0
  PROVE  LET last == startRCX - RCX - 1
         IN /\ \A i \in 0 .. (last - 1) : ~EndsIt(i)
            /\ EndsIt(last) \/ RCX = 0
            /\ ZF = Equal(last)
<1>1. PICK k \in 0 .. Bound : At(k)
  BY DEF IInv, Progress
<1>2. Setting /\ Origin /\ Clear(k)
  BY <1>1, ClearAt DEF IInv
<1>3. Bound = startRCX /\ startRCX \in Nat
  <2>1. Bound \in Nat
    BY <1>2, StepsFacts
  <2> QED
    BY <2>1 DEF Bound
<1>4. Final(k) /\ Reached(k) /\ RCX = startRCX - Count(k)
      /\ [Work EXCEPT !.fault = error] = Steps[k]
  BY <1>1 DEF At
<1>5. k > 0 /\ k \in Nat /\ k \in 0 .. k /\ k - 1 \in 0 .. (k - 1)
  BY <1>3, <1>4 DEF Final
<1>6. Count(k) = k
  BY <1>2, <1>5 DEF Count, Clear
<1> DEFINE last == startRCX - RCX - 1
<1>7. last = k - 1 /\ RCX = startRCX - k
  BY <1>3, <1>4, <1>5, <1>6
<1>8. mem = start.mem /\ RAX = start.RAX /\ ZF = Steps[k].ZF
  <2>1. Steps[k].mem = mem /\ Steps[k].RAX = RAX /\ Steps[k].ZF = ZF
    BY <1>4 DEF Work
  <2> QED
    BY <1>2, <1>5, <2>1, SearchFacts
<1>9. \A i : Equal(i) = SameAt(i)
  BY <1>8 DEF Equal, SameAt
<1>10. \A j \in 0 .. (k - 1) : Steps[j + 1].ZF = SameAt(j)
  BY <1>2, SearchFacts
<1>11. instr.rep \in {"REPE", "REPNE"}
  BY <1>2, Modes
<1>12. \A j \in 0 .. (k - 1) : GoesOn(Steps[j + 1]) <=> ~EndsIt(j)
  <2> TAKE j \in 0 .. (k - 1)
  <2> DEFINE w == Steps[j + 1]
  <2>1. w.fault = "None"
    <3>1. j + 1 \in 0 .. k
      BY <1>5
    <3> QED
      BY <1>2, <3>1 DEF Clear
  <2>2. w.ZF = SameAt(j) /\ Equal(j) = SameAt(j)
    BY <1>9, <1>10
  <2>3. SameAt(j) \in BOOLEAN
    BY DEF SameAt
  <2> HIDE DEF w
  <2> QED
    BY <1>11, <2>1, <2>2, <2>3 DEF GoesOn, EndsIt, w
<1>13. \A i \in 0 .. (last - 1) : ~EndsIt(i)
  <2> TAKE i \in 0 .. (last - 1)
  <2>1. i \in 0 .. (k - 1) /\ i + 1 \in 1 .. (k - 1)
    BY <1>5, <1>7
  <2> QED
    BY <1>4, <1>12, <2>1 DEF Reached
<1>14. k - 1 + 1 = k
  BY <1>5
<1>15. EndsIt(last) \/ RCX = 0
  <2>1. CASE k = Bound
    BY <1>3, <1>7, <2>1
  <2>2. CASE ~GoesOn(Steps[k])
    BY <1>5, <1>7, <1>12, <1>14, <2>2
  <2> QED
    BY <1>4, <2>1, <2>2 DEF Final
<1>16. ZF = Equal(last)
  BY <1>5, <1>7, <1>8, <1>9, <1>10, <1>14
<1> QED
  BY <1>13, <1>15, <1>16

(* Wherever the pointers are and in both directions: a repeated search     *)
(* that did not fault has passed over elements that do not end it, and the *)
(* one it is at ends it unless none is left; ZF says which it was.         *)
THEOREM SearchesStopAtFirst == Spec => []SearchStopsAtFirst
<1>1. IInv => SearchStopsAtFirst
  BY SearchEnds, Zenon DEF SearchStopsAtFirst, Repeated
<1> QED
  BY <1>1, StringsInvariant, PTL

-----------------------------------------------------------------------------
(* Moves.                                                                  *)

(* One element of MOVS: each byte of the destination is what the same byte *)
(* of the source was, and no other byte changes.                           *)
LEMMA MoveElement ==
  ASSUME Setting, NEW w \in Proper, ElementFault(w) = "None", instr.op = "MOVS"
  PROVE  /\ w.RSI \in Nat /\ w.RSI + instr.size <= mem_size
         /\ w.RDI \in Nat /\ w.RDI + instr.size <= mem_size
         /\ Element[w].RSI = Moved(w.RSI) /\ Element[w].RDI = Moved(w.RDI)
         /\ \A b \in 0 .. (instr.size - 1) : Element[w].mem[w.RDI + b] = w.mem[w.RSI + b]
         /\ \A a \in 0 .. (mem_size - 1) :
              a \notin w.RDI .. (w.RDI + instr.size - 1) => Element[w].mem[a] = w.mem[a]
<1> DEFINE n == instr.size
           v == AtSource(w)
           to == w.RDI
           from == w.RSI
           old == w.mem
           new == Element[w].mem
<1>1. w \in Works /\ to \in Int /\ from \in Int /\ old \in [0 .. (mem_size - 1) -> Byte]
  BY DEF Proper, Works
<1>2. Element[w] = MOVS(w)
  BY <1>1, ElementDone
<1>3. /\ from \in Nat /\ from + n <= mem_size
      /\ to \in Nat /\ to + n <= mem_size
      /\ Bytes(old, from, n)
  BY <1>1, ElementDone, OperandType
<1>4. /\ MOVS(w).RSI = Moved(from) /\ MOVS(w).RDI = Moved(to)
      /\ MOVS(w).mem = Written(old, to, n, v)
  BY <1>1 DEF MOVS, Works
<1>5. n \in 1 .. PtrSize /\ n \in 0 .. PtrSize /\ mem_size \in Nat /\ PtrSize \in Nat
  BY SettingFacts DEF Setting
<1>6. v = Held(old, from, n)
  BY DEF AtSource
<1>7. new = Written(old, to, n, v)
  BY <1>2, <1>4
<1> HIDE DEF n, v, to, from, old, new
<1>8. \A a \in 0 .. (mem_size - 1) :
        new[a] = IF a \in to .. (to + n - 1) THEN ByteOf(v, a - to) ELSE old[a]
  BY <1>1, <1>7 DEF Written
<1>9. \A b \in 0 .. (n - 1) : new[to + b] = old[from + b]
  <2> TAKE b \in 0 .. (n - 1)
  <2> DEFINE a == to + b
  <2>1. a \in 0 .. (mem_size - 1) /\ a \in to .. (to + n - 1) /\ a - to = b
    BY <1>3, <1>5
  <2> HIDE DEF a
  <2>2. new[a] = ByteOf(v, b)
    BY <1>8, <2>1
  <2>3. ByteOf(v, b) = old[from + b]
    BY <1>3, <1>5, <1>6, HeldBytes
  <2> QED
    BY <2>2, <2>3 DEF a
<1>10. \A a \in 0 .. (mem_size - 1) : a \notin to .. (to + n - 1) => new[a] = old[a]
  BY <1>8
<1> QED
  BY <1>2, <1>3, <1>4, <1>9, <1>10 DEF n, to, from, old, new

(* Later elements are at least a whole element away.                       *)
LEMMA PlacesApart ==
  ASSUME Setting, NEW pos \in Int, NEW i \in Nat, NEW j \in Nat, j < i
  PROVE  IF instr.DF THEN Place(pos, i) + instr.size <= Place(pos, j)
         ELSE Place(pos, i) >= Place(pos, j) + instr.size
<1> DEFINE n == instr.size
           in == i * n
           jn == j * n
<1>1. n \in Nat
  BY SettingFacts
<1> HIDE DEF n
<1>2. i * n >= (j + 1) * n /\ (j + 1) * n = j * n + n
  BY <1>1
<1>3. in \in Int /\ jn \in Int /\ in >= jn + n
  BY <1>1, <1>2
<1>4. Place(pos, i) = (IF instr.DF THEN pos - in ELSE pos + in)
      /\ Place(pos, j) = (IF instr.DF THEN pos - jn ELSE pos + jn)
  BY DEF Place, n
<1> HIDE DEF in, jn
<1> QED
  BY <1>1, <1>3, <1>4 DEF n

(* The same distance is between the elements of two blocks.                *)
LEMMA PlacesAlong ==
  ASSUME Setting, NEW pos \in Int, NEW pos2 \in Int, NEW i \in Nat
  PROVE  Place(pos, i) - Place(pos2, i) = pos - pos2
<1> DEFINE n == instr.size
           in == i * n
<1>1. n \in Nat
  BY SettingFacts
<1> HIDE DEF n
<1>2. in \in Int
  BY <1>1
<1>3. Place(pos, i) = (IF instr.DF THEN pos - in ELSE pos + in)
      /\ Place(pos2, i) = (IF instr.DF THEN pos2 - in ELSE pos2 + in)
  BY DEF Place, n
<1> HIDE DEF in
<1> QED
  BY <1>2, <1>3

(* A write to the destination spares the sources that are still to be read *)
(* and the destinations that are already written.                          *)
LEMMA WritesSpare ==
  ASSUME Setting, Origin, Behind, NEW j \in Nat, NEW i \in Nat, i < startRCX, j < startRCX,
         NEW b \in 0 .. (instr.size - 1)
  PROVE  /\ i > j => Place(start.RSI, i) + b \notin
                       Place(start.RDI, j) .. (Place(start.RDI, j) + instr.size - 1)
         /\ i < j => Place(start.RDI, i) + b \notin
                       Place(start.RDI, j) .. (Place(start.RDI, j) + instr.size - 1)
<1> DEFINE n == instr.size
           r == start.RSI
           d == start.RDI
           Si == Place(r, i)
           Sj == Place(r, j)
           Di == Place(d, i)
           Dj == Place(d, j)
<1>1. n \in Nat /\ n > 0 /\ startRCX \in Nat /\ r \in Int /\ d \in Int
  BY SettingFacts, SMTT(30) DEF Origin, Word, Proper, Works
<1>2. Si \in Int /\ Sj \in Int /\ Di \in Int /\ Dj \in Int
  <2>1. \A p \in Int, x \in Int : Place(p, x) \in Int
    BY PlaceType
  <2>2. i \in Int /\ j \in Int
    OBVIOUS
  <2> QED
    BY <1>1, <2>1, <2>2, Zenon
<1>3. i < j => IF instr.DF THEN Dj + n <= Di ELSE Dj >= Di + n
  BY <1>1, PlacesApart
<1>4. i > j => IF instr.DF THEN Si + n <= Sj ELSE Si >= Sj + n
  BY <1>1, PlacesApart
<1>5. Sj - Dj = r - d
  BY <1>1, PlacesAlong
<1>6. i < j => Di + b \notin Dj .. (Dj + n - 1)
  <2> HIDE DEF n, Di, Dj
  <2> QED
    BY <1>1, <1>2, <1>3 DEF n
<1>7. CASE Extent(r, startRCX) \cap Extent(d, startRCX) = {}
  <2>1. Si + b \in Extent(r, startRCX)
    BY <1>1 DEF Extent
  <2>2. \A c \in 0 .. (n - 1) : Dj + c \in Extent(d, startRCX)
    BY <1>1 DEF Extent
  <2> HIDE DEF n, Si, Dj
  <2>3. ASSUME Si + b \in Dj .. (Dj + n - 1) PROVE FALSE
    <3> DEFINE c == Si + b - Dj
    <3>1. c \in 0 .. (n - 1) /\ Dj + c = Si + b
      BY <1>1, <1>2, <2>3 DEF n
    <3> QED
      BY <1>7, <2>1, <2>2, <3>1
  <2> QED
    BY <1>6, <2>3 DEF n, Si, Dj
<1>8. CASE IF instr.DF THEN d >= r ELSE d <= r
  <2>1. i > j => Si + b \notin Dj .. (Dj + n - 1)
    <3> HIDE DEF n, Si, Sj, Dj, r, d
    <3> QED
      BY <1>1, <1>2, <1>4, <1>5, <1>8 DEF n
  <2> QED
    BY <1>6, <2>1
<1> QED
  BY <1>7, <1>8 DEF Behind


(* After k elements the destinations hold what the sources held, and the   *)
(* sources to come hold it still.                                          *)
Copies(m, j) ==
  /\ \A i \in 0 .. (j - 1) : \A b \in 0 .. (instr.size - 1) :
       m[Place(start.RDI, i) + b] = start.mem[Place(start.RSI, i) + b]
  /\ \A i \in j .. (startRCX - 1) : \A b \in 0 .. (instr.size - 1) :
       m[Place(start.RSI, i) + b] = start.mem[Place(start.RSI, i) + b]

LEMMA CopiesNext ==
  ASSUME Setting, Origin, Behind, NEW j \in Nat, j < startRCX, NEW m, NEW m1, Copies(m, j),
         \A i \in 0 .. (startRCX - 1) :
           /\ Place(start.RSI, i) \in Nat /\ Place(start.RSI, i) + instr.size <= mem_size
           /\ Place(start.RDI, i) \in Nat /\ Place(start.RDI, i) + instr.size <= mem_size,
         \A b \in 0 .. (instr.size - 1) :
           m1[Place(start.RDI, j) + b] = m[Place(start.RSI, j) + b],
         \A a \in 0 .. (mem_size - 1) :
           a \notin Place(start.RDI, j) .. (Place(start.RDI, j) + instr.size - 1) => m1[a] = m[a]
  PROVE  Copies(m1, j + 1)
<1> DEFINE n == instr.size
           S(i) == Place(start.RSI, i)
           D(i) == Place(start.RDI, i)
           old == start.mem
<1>1. n \in Nat /\ startRCX \in Nat /\ mem_size \in Nat
  <2>1. n \in Nat /\ mem_size \in Nat
    BY SettingFacts DEF Setting
  <2>2. startRCX \in Nat
    BY SettingFacts DEF Origin, Word
  <2> QED
    BY <2>1, <2>2
<1>2. \A i \in 0 .. (startRCX - 1) :
        S(i) \in Nat /\ S(i) + n <= mem_size /\ D(i) \in Nat /\ D(i) + n <= mem_size
  OBVIOUS
<1>3. \A b \in 0 .. (n - 1) : m1[D(j) + b] = m[S(j) + b]
  OBVIOUS
<1>4. \A a \in 0 .. (mem_size - 1) : a \notin D(j) .. (D(j) + n - 1) => m1[a] = m[a]
  OBVIOUS
<1>5. \A i \in Nat, b \in 0 .. (n - 1) :
        i < startRCX => /\ i > j => S(i) + b \notin D(j) .. (D(j) + n - 1)
                        /\ i < j => D(i) + b \notin D(j) .. (D(j) + n - 1)
  BY WritesSpare
<1>6. /\ \A i \in 0 .. (j - 1), b \in 0 .. (n - 1) : m[D(i) + b] = old[S(i) + b]
      /\ \A i \in j .. (startRCX - 1), b \in 0 .. (n - 1) : m[S(i) + b] = old[S(i) + b]
  BY DEF Copies
<1> HIDE DEF n, S, D, old
<1>7. ASSUME NEW i \in 0 .. j, NEW b \in 0 .. (n - 1) PROVE m1[D(i) + b] = old[S(i) + b]
  <2>1. CASE i = j
    <3>1. j \in j .. (startRCX - 1)
      BY <1>1
    <3> QED
      BY <1>3, <1>6, <2>1, <3>1
  <2>2. CASE i # j
    <3>1. i \in 0 .. (j - 1) /\ i \in Nat /\ i < j /\ i < startRCX /\ i \in 0 .. (startRCX - 1)
      BY <1>1, <2>2
    <3> DEFINE a == D(i) + b
    <3>2. a \in 0 .. (mem_size - 1)
      <4>1. D(i) \in Nat /\ D(i) + n <= mem_size
        BY <1>2, <3>1
      <4> QED
        BY <1>1, <4>1
    <3>3. a \notin D(j) .. (D(j) + n - 1)
      BY <1>5, <3>1
    <3>4. m[a] = old[S(i) + b]
      BY <1>6, <3>1
    <3> HIDE DEF a
    <3>5. m1[a] = m[a]
      BY <1>4, <3>2, <3>3
    <3> QED
      BY <3>4, <3>5 DEF a
  <2> QED
    BY <2>1, <2>2
<1>8. ASSUME NEW i \in (j + 1) .. (startRCX - 1), NEW b \in 0 .. (n - 1)
      PROVE  m1[S(i) + b] = old[S(i) + b]
  <2>1. i \in j .. (startRCX - 1) /\ i \in Nat /\ i > j /\ i < startRCX /\ i \in 0 .. (startRCX - 1)
    BY <1>1
  <2> DEFINE a == S(i) + b
  <2>2. a \in 0 .. (mem_size - 1)
    <3>1. S(i) \in Nat /\ S(i) + n <= mem_size
      BY <1>2, <2>1
    <3> QED
      BY <1>1, <3>1
  <2>3. a \notin D(j) .. (D(j) + n - 1)
    BY <1>5, <2>1
  <2>4. m[a] = old[S(i) + b]
    BY <1>6, <2>1
  <2> HIDE DEF a
  <2>5. m1[a] = m[a]
    BY <1>4, <2>2, <2>3
  <2> QED
    BY <2>4, <2>5 DEF a
<1>9. (j + 1) - 1 = j
  OBVIOUS
<1> QED
  BY <1>7, <1>8, <1>9 DEF Copies, n, S, D, old

(* The elements of a move that does not fault.                             *)
LEMMA MoveFacts ==
  ASSUME Setting, Origin, Repeated, Clear(Bound), instr.op = "MOVS", Behind
  PROVE  Copies(Steps[Bound].mem, Bound)
<1> DEFINE k == startRCX
           w(j) == Steps[j]
<1>1. Bound = k /\ k \in Nat /\ 0 \in 0 .. k /\ w(0) = start /\ k \in 0 .. k
  <2>1. Bound \in Nat /\ Steps[0] = start
    BY StepsFacts
  <2> QED
    BY <2>1 DEF Bound
<1>2. \A j \in 0 .. (k - 1) :
        /\ w(j) \in Proper /\ w(j + 1) = Element[w(j)] /\ ElementFault(w(j)) = "None"
  <2>1. Bound \in 0 .. Bound
    BY <1>1
  <2> QED
    BY <1>1, <2>1, ClearElement
<1> HIDE DEF w, k
<1>3. \A j \in 0 .. (k - 1) :
        /\ w(j).RSI \in Nat /\ w(j).RSI + instr.size <= mem_size
        /\ w(j).RDI \in Nat /\ w(j).RDI + instr.size <= mem_size
        /\ w(j + 1).RSI = Moved(w(j).RSI) /\ w(j + 1).RDI = Moved(w(j).RDI)
        /\ \A b \in 0 .. (instr.size - 1) : w(j + 1).mem[w(j).RDI + b] = w(j).mem[w(j).RSI + b]
        /\ \A a \in 0 .. (mem_size - 1) :
             a \notin w(j).RDI .. (w(j).RDI + instr.size - 1) => w(j + 1).mem[a] = w(j).mem[a]
  BY <1>2, MoveElement
<1>4. \A j \in 0 .. (k - 1) : w(j).RDI = Place(start.RDI, j)
  <2> DEFINE p == [j \in 0 .. k |-> w(j).RDI]
  <2>1. \A j \in 0 .. (k - 1) : p[j] = w(j).RDI /\ p[j + 1] = w(j + 1).RDI
    BY <1>1
  <2>2. p[0] = start.RDI
    BY <1>1
  <2> HIDE DEF p
  <2>3. \A j \in 0 .. (k - 1) : p[j] \in Nat /\ p[j] + instr.size <= mem_size
    BY <1>3, <2>1
  <2>4. \A j \in 0 .. (k - 1) : p[j + 1] = Moved(p[j])
    BY <1>3, <2>1
  <2>5. \A j \in 0 .. (k - 1) : p[j] = Place(p[0], j)
    BY <1>1, <2>3, <2>4, PlacesExact
  <2> QED
    BY <2>1, <2>2, <2>5
<1>5. \A j \in 0 .. (k - 1) : w(j).RSI = Place(start.RSI, j)
  <2> DEFINE p == [j \in 0 .. k |-> w(j).RSI]
  <2>1. \A j \in 0 .. (k - 1) : p[j] = w(j).RSI /\ p[j + 1] = w(j + 1).RSI
    BY <1>1
  <2>2. p[0] = start.RSI
    BY <1>1
  <2> HIDE DEF p
  <2>3. \A j \in 0 .. (k - 1) : p[j] \in Nat /\ p[j] + instr.size <= mem_size
    BY <1>3, <2>1
  <2>4. \A j \in 0 .. (k - 1) : p[j + 1] = Moved(p[j])
    BY <1>3, <2>1
  <2>5. \A j \in 0 .. (k - 1) : p[j] = Place(p[0], j)
    BY <1>1, <2>3, <2>4, PlacesExact
  <2> QED
    BY <2>1, <2>2, <2>5
<1> DEFINE G == {j \in 0 .. k : Copies(w(j).mem, j)}
<1>6. 0 \in G
  <2>1. Copies(start.mem, 0)
    BY DEF Copies
  <2> QED
    BY <1>1, <2>1
<1>7. ASSUME NEW j \in 0 .. (k - 1), j \in G PROVE j + 1 \in G
  <2> DEFINE m == w(j).mem
             m1 == w(j + 1).mem
  <2>1. j \in Nat /\ j < startRCX /\ j + 1 \in 0 .. k
    BY <1>1 DEF k
  <2>2. \A i \in 0 .. (startRCX - 1) :
          /\ Place(start.RSI, i) \in Nat /\ Place(start.RSI, i) + instr.size <= mem_size
          /\ Place(start.RDI, i) \in Nat /\ Place(start.RDI, i) + instr.size <= mem_size
    BY <1>3, <1>4, <1>5 DEF k
  <2>3. w(j).RDI = Place(start.RDI, j) /\ w(j).RSI = Place(start.RSI, j)
    BY <1>4, <1>5
  <2>4. \A b \in 0 .. (instr.size - 1) :
          m1[Place(start.RDI, j) + b] = m[Place(start.RSI, j) + b]
    BY <1>3, <2>3
  <2>5. \A a \in 0 .. (mem_size - 1) :
          a \notin Place(start.RDI, j) .. (Place(start.RDI, j) + instr.size - 1) => m1[a] = m[a]
    BY <1>3, <2>3
  <2>6. Copies(m, j)
    BY <1>7
  <2> HIDE DEF m, m1
  <2>7. Copies(m1, j + 1)
    BY <2>1, <2>2, <2>4, <2>5, <2>6, CopiesNext
  <2> QED
    BY <2>1, <2>7 DEF m1
<1> HIDE DEF G
<1>8. 0 .. k \subseteq G
  BY <1>1, <1>6, <1>7, InductTo
<1>9. k \in G
  BY <1>1, <1>8
<1> QED
  BY <1>1, <1>9 DEF G, w


(* A block move of any length, in either direction, by any element size,   *)
(* whose destination does not run ahead into its source, ends with the     *)
(* destination holding what the source held.                               *)
THEOREM BlockMovesCopy == Spec => []MovesCopy
<1>1. ASSUME IInv, past, error = "None", instr.op = "MOVS", instr.rep = "REP", Behind,
             NEW i \in 0 .. (startRCX - 1)
      PROVE  Held(mem, Place(start.RDI, i), instr.size) =
               Held(start.mem, Place(start.RSI, i), instr.size)
  <2>1. PICK k \in 0 .. Bound : At(k)
    BY <1>1 DEF IInv, Progress
  <2>2. Setting /\ Origin /\ Clear(k)
    BY <1>1, <2>1, ClearAt DEF IInv
  <2>3. Repeated
    BY <1>1, Zenon DEF Repeated
  <2>4. Bound = startRCX /\ Bound \in Nat
    <3>1. Bound \in Nat
      BY <2>2, StepsFacts
    <3> QED
      BY <2>3, <3>1 DEF Bound
  <2>5. k = Bound
    <3>1. Final(k)
      BY <1>1, <2>1 DEF At
    <3>2. k \in 0 .. k
      BY <2>4
    <3>3. Steps[k].fault = "None"
      BY <2>2, <3>2 DEF Clear
    <3>4. GoesOn(Steps[k])
      BY <1>1, <3>3 DEF GoesOn
    <3> QED
      BY <3>1, <3>4 DEF Final
  <2>6. mem = Steps[Bound].mem
    <3>1. Steps[k].mem = mem
      BY <2>1 DEF At, Work
    <3> QED
      BY <2>5, <3>1
  <2>7. Copies(mem, Bound)
    BY <1>1, <2>2, <2>3, <2>5, <2>6, MoveFacts
  <2>8. \A b \in 0 .. (instr.size - 1) :
          mem[Place(start.RDI, i) + b] = start.mem[Place(start.RSI, i) + b]
    BY <2>4, <2>7 DEF Copies
  <2>9. instr.size \in Nat
    BY <2>2, SettingFacts
  <2> DEFINE n == instr.size
             d == Place(start.RDI, i)
             s == Place(start.RSI, i)
             old == start.mem
  <2>10. n \in Nat /\ \A b \in 0 .. (n - 1) : mem[d + b] = old[s + b]
    BY <2>8, <2>9
  <2> HIDE DEF n, d, s, old
  <2>11. Held(mem, d, n) = Held(old, s, n)
    BY <2>10, HeldSame
  <2> QED
    BY <2>11 DEF n, d, s, old
<1>2. IInv => MovesCopy
  BY <1>1, Zenon DEF MovesCopy
<1> QED
  BY <1>2, StringsInvariant, PTL


=============================================================================
