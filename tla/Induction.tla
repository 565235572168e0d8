----------------------------- MODULE Induction ------------------------------
(***************************************************************************)
(* Induction over the natural numbers for properties that form a set, the  *)
(* least and greatest elements that the models' Min and Max choose, and    *)
(* the arithmetic of words that are made of digits: division, powers of a  *)
(* base, and the number that the first digits of another one make.         *)
(***************************************************************************)
EXTENDS Integers, FiniteSetsExt, WellFoundedInduction, TLAPS

(* A set of natural numbers has a least element.                           *)
LEMMA Least ==
  ASSUME NEW T, T \subseteq Nat, T # {}
  PROVE  \E x \in T : \A y \in T : x <= y
<1> DEFINE R == OpToRel(<, Nat)
<1>1. IsWellFoundedOn(R, Nat)
  BY NatLessThanWellFounded
<1>2. \A x, y \in Nat : x < y => <<x, y>> \in R
  BY DEF OpToRel
<1> HIDE DEF R
<1>3. PICK x \in T : \A y \in T : ~(<<y, x>> \in R)
  BY <1>1, WFMin
<1>4. \A y \in T : ~(y < x)
  BY <1>2, <1>3, Zenon
<1>5. \A y \in T : x <= y
  BY <1>4
<1> QED
  BY <1>5

(* One that is bounded has a greatest element.                             *)
LEMMA Greatest ==
  ASSUME NEW n \in Nat, NEW T, T \subseteq 0 .. n, T # {}
  PROVE  \E x \in T : \A y \in T : x >= y
<1> DEFINE U == {k \in Nat : \E x \in T : k = n - x}
<1>1. U \subseteq Nat /\ U # {}
  <2>1. PICK x \in T : TRUE
    OBVIOUS
  <2>2. n - x \in U
    BY <2>1
  <2> QED
    BY <2>2
<1>2. PICK k \in U : \A j \in U : k <= j
  <2> HIDE DEF U
  <2> QED
    BY <1>1, Least
<1>3. PICK x \in T : k = n - x
  BY <1>2
<1>4. ASSUME NEW y \in T PROVE x >= y
  <2>1. n - y \in U
    BY Z3
  <2> QED
    BY <1>2, <1>3, <2>1
<1> QED
  BY <1>4

LEMMA MinOf ==
  ASSUME NEW T, T \subseteq Nat, T # {}
  PROVE  Min(T) \in T /\ \A y \in T : Min(T) <= y
BY Least DEF Min

LEMMA MaxOf ==
  ASSUME NEW n \in Nat, NEW T, T \subseteq 0 .. n, T # {}
  PROVE  Max(T) \in T /\ \A y \in T : Max(T) >= y
BY Greatest DEF Max

(* A set that has 0 and, with a number, the next has every number.         *)
LEMMA Induct ==
  ASSUME NEW T, 0 \in T, \A n \in Nat : n \in T => n + 1 \in T
  PROVE  Nat \subseteq T
<1> SUFFICES ASSUME NEW k \in Nat, k \notin T PROVE FALSE
  OBVIOUS
<1> DEFINE U == Nat \ T
<1>1. U \subseteq Nat /\ U # {}
  OBVIOUS
<1> HIDE DEF U
<1>2. PICK x \in U : \A y \in U : x <= y
  BY <1>1, Least
<1>3. x # 0 /\ x \in Nat /\ x - 1 \in Nat /\ x - 1 \notin U /\ x - 1 + 1 = x
  BY <1>1, <1>2 DEF U
<1> QED
  BY <1>2, <1>3 DEF U

(* The same up to a bound.                                                 *)
LEMMA InductTo ==
  ASSUME NEW k \in Nat, NEW T, 0 \in T, \A n \in 0 .. (k - 1) : n \in T => n + 1 \in T
  PROVE  0 .. k \subseteq T
<1> DEFINE U == {n \in Nat : n <= k => n \in T}
<1>1. 0 \in U /\ \A n \in Nat : n \in U => n + 1 \in U
  BY Z3
<1> HIDE DEF U
<1>2. Nat \subseteq U
  BY <1>1, Induct
<1> QED
  BY <1>2 DEF U

-----------------------------------------------------------------------------
(* Division.                                                               *)

LEMMA DivisionOf ==
  ASSUME NEW p \in Nat \ {0}, NEW x \in Int
  PROVE  /\ x \div p \in Int /\ x % p \in 0 .. (p - 1)
         /\ x = (x % p) + (x \div p) * p
OBVIOUS

(* Division of a number of which a multiple of the divisor is a part.      *)
LEMMA DivisionOfSum ==
  ASSUME NEW p \in Nat \ {0}, NEW c \in Int, NEW h \in 0 .. (p - 1)
  PROVE  (h + c * p) \div p = c /\ (h + c * p) % p = h
OBVIOUS

(* Dividing by p and then by b is dividing by their product.               *)
LEMMA DivisionTwice ==
  ASSUME NEW p \in Nat \ {0}, NEW b \in Nat \ {0}, NEW x \in Int
  PROVE  /\ x % (b * p) = (x % p) + ((x \div p) % b) * p
         /\ x \div (b * p) = (x \div p) \div b
<1> DEFINE h == x % p
           q == x \div p
           d == q % b
           c == q \div b
           bp == b * p
           r == h + d * p
<1>1. q \in Int /\ h \in 0 .. (p - 1) /\ x = h + q * p
  BY DivisionOf
<1> HIDE DEF h, q
<1>2. c \in Int /\ d \in 0 .. (b - 1) /\ q = d + c * b
  BY <1>1, DivisionOf
<1> HIDE DEF c, d
<1>3. bp \in Nat \ {0}
  BY Z3
<1>4. x = r + c * bp
  <2>1. q * p = d * p + c * (b * p)
    BY <1>2, Z3
  <2> QED
    BY <1>1, <1>2, <2>1, Z3
<1>5. r \in 0 .. (bp - 1)
  <2>1. d * p <= (b - 1) * p /\ 0 <= d * p /\ d * p \in Int
    BY <1>2, Z3
  <2>2. (b - 1) * p = b * p - p
    BY Z3
  <2> QED
    BY <1>1, <2>1, <2>2, Z3
<1>6. x % bp = r /\ x \div bp = c
  <2> HIDE DEF bp, r
  <2> QED
    BY <1>2, <1>3, <1>4, <1>5, DivisionOfSum
<1>7. x % (b * p) = h + d * p /\ x \div (b * p) = c
  BY <1>6, Zenon
<1> QED
  BY <1>7, Zenon DEF c, d, h, q

-----------------------------------------------------------------------------
(* Sums of digits: d are the digits to the base b, p the powers of b and h *)
(* the numbers the first digits make.                                      *)

IsPowers(p, b, n) == p[0] = 1 /\ \A k \in 0 .. (n - 1) : p[k + 1] = b * p[k]
IsDigits(d, v, b, p, n) == \A k \in 0 .. (n - 1) : d[k] = (v \div p[k]) % b
IsSums(h, d, p, n) == h[0] = 0 /\ \A k \in 0 .. (n - 1) : h[k + 1] = h[k] + d[k] * p[k]

(* What a recursive definition of powers, or of sums, defines.             *)
LEMMA PowersDefined ==
  ASSUME NEW b, NEW n \in Nat
  PROVE  \E p : p = [k \in 0 .. n |-> IF k = 0 THEN 1 ELSE b * p[k - 1]]
<1> DEFINE T == {m \in Nat : \E p : p = [k \in 0 .. m |-> IF k = 0 THEN 1 ELSE b * p[k - 1]]}
<1>1. 0 \in T
  <2> DEFINE p == [k \in 0 .. 0 |-> 1]
  <2>1. p = [k \in 0 .. 0 |-> IF k = 0 THEN 1 ELSE b * p[k - 1]]
    OBVIOUS
  <2> QED
    BY <2>1
<1>2. ASSUME NEW m \in Nat, m \in T PROVE m + 1 \in T
  <2>1. PICK p : p = [k \in 0 .. m |-> IF k = 0 THEN 1 ELSE b * p[k - 1]]
    BY <1>2
  <2> DEFINE q == [k \in 0 .. (m + 1) |-> IF k = m + 1 THEN b * p[m] ELSE p[k]]
  <2>2. \A k \in 0 .. m : p[k] = IF k = 0 THEN 1 ELSE b * p[k - 1]
    BY <2>1
  <2>3. \A k \in 0 .. (m + 1) : q[k] = IF k = 0 THEN 1 ELSE b * q[k - 1]
    <3> TAKE k \in 0 .. (m + 1)
    <3>1. CASE k = 0
      BY <2>2, <3>1
    <3>2. CASE k \in 1 .. m
      <4>1. q[k] = p[k] /\ q[k - 1] = p[k - 1]
        BY <3>2
      <4> QED
        BY <2>2, <3>2, <4>1
    <3>3. CASE k = m + 1
      <4>1. q[k] = b * p[m] /\ q[k - 1] = p[m]
        BY <3>3
      <4> QED
        BY <3>3, <4>1
    <3> QED
      BY <3>1, <3>2, <3>3
  <2>4. q = [k \in 0 .. (m + 1) |-> IF k = 0 THEN 1 ELSE b * q[k - 1]]
    BY <2>3
  <2>5. m + 1 \in Nat
    OBVIOUS
  <2> HIDE DEF q
  <2> QED
    BY <2>4, <2>5
<1> HIDE DEF T
<1>3. n \in T
  BY <1>1, <1>2, Induct
<1> QED
  BY <1>3 DEF T

LEMMA SumsDefined ==
  ASSUME NEW t, NEW n \in Nat
  PROVE  \E h : h = [k \in 0 .. n |-> IF k = 0 THEN 0 ELSE h[k - 1] + t[k - 1]]
<1> DEFINE T == {m \in Nat : \E h : h = [k \in 0 .. m |-> IF k = 0 THEN 0 ELSE h[k - 1] + t[k - 1]]}
<1>1. 0 \in T
  <2> DEFINE h == [k \in 0 .. 0 |-> 0]
  <2>1. h = [k \in 0 .. 0 |-> IF k = 0 THEN 0 ELSE h[k - 1] + t[k - 1]]
    OBVIOUS
  <2> QED
    BY <2>1
<1>2. ASSUME NEW m \in Nat, m \in T PROVE m + 1 \in T
  <2>1. PICK h : h = [k \in 0 .. m |-> IF k = 0 THEN 0 ELSE h[k - 1] + t[k - 1]]
    BY <1>2
  <2> DEFINE g == [k \in 0 .. (m + 1) |-> IF k = m + 1 THEN h[m] + t[m] ELSE h[k]]
  <2>2. \A k \in 0 .. m : h[k] = IF k = 0 THEN 0 ELSE h[k - 1] + t[k - 1]
    BY <2>1
  <2>3. \A k \in 0 .. (m + 1) : g[k] = IF k = 0 THEN 0 ELSE g[k - 1] + t[k - 1]
    <3> TAKE k \in 0 .. (m + 1)
    <3>1. CASE k = 0
      BY <2>2, <3>1
    <3>2. CASE k \in 1 .. m
      <4>1. g[k] = h[k] /\ g[k - 1] = h[k - 1]
        BY <3>2
      <4> QED
        BY <2>2, <3>2, <4>1
    <3>3. CASE k = m + 1
      <4>1. g[k] = h[m] + t[m] /\ g[k - 1] = h[m] /\ k - 1 = m /\ k # 0
        BY <3>3
      <4> HIDE DEF g
      <4> QED
        BY <4>1
    <3> QED
      BY <3>1, <3>2, <3>3
  <2>4. g = [k \in 0 .. (m + 1) |-> IF k = 0 THEN 0 ELSE g[k - 1] + t[k - 1]]
    BY <2>3
  <2>5. m + 1 \in Nat
    OBVIOUS
  <2> HIDE DEF g
  <2> QED
    BY <2>4, <2>5
<1> HIDE DEF T
<1>3. n \in T
  BY <1>1, <1>2, Induct
<1> QED
  BY <1>3 DEF T


LEMMA PowersPositive ==
  ASSUME NEW b \in Nat \ {0}, NEW n \in Nat, NEW p, IsPowers(p, b, n)
  PROVE  \A k \in 0 .. n : p[k] \in Nat \ {0}
<1> DEFINE G == {k \in 0 .. n : p[k] \in Nat \ {0}}
<1>1. 0 \in G
  BY DEF IsPowers
<1>2. ASSUME NEW k \in 0 .. (n - 1), k \in G PROVE k + 1 \in G
  <2> DEFINE x == p[k]
             y == p[k + 1]
  <2>1. x \in Nat \ {0} /\ y = b * x /\ k + 1 \in 0 .. n
    BY <1>2 DEF IsPowers
  <2> HIDE DEF x, y
  <2>2. y \in Nat \ {0}
    BY <2>1, Z3
  <2> QED
    BY <2>1, <2>2 DEF y
<1> HIDE DEF G
<1>3. 0 .. n \subseteq G
  BY <1>1, <1>2, InductTo
<1> QED
  BY <1>3 DEF G

(* A higher power is a multiple of a lower one.                            *)
LEMMA PowersMultiple ==
  ASSUME NEW b \in Nat \ {0}, NEW n \in Nat, NEW p, IsPowers(p, b, n), NEW i \in 0 .. n
  PROVE  \E q \in Nat \ {0} : p[n] = p[i] * q
<1> DEFINE G == {j \in 0 .. (n - i) : \E q \in Nat \ {0} : p[i + j] = p[i] * q}
           x == p[i]
           m == n - i
<1>1. x \in Nat \ {0} /\ i \in Nat /\ m \in Nat
  BY PowersPositive
<1>2. 0 \in G
  <2>1. 0 \in 0 .. (n - i) /\ i + 0 = i /\ x = x * 1 /\ 1 \in Nat \ {0}
    BY <1>1
  <2> QED
    BY <2>1
<1>3. ASSUME NEW j \in 0 .. (m - 1), j \in G PROVE j + 1 \in G
  <2>1. PICK q \in Nat \ {0} : p[i + j] = x * q
    BY <1>3
  <2>2. i + j \in 0 .. (n - 1) /\ j + 1 \in 0 .. (n - i) /\ i + (j + 1) = (i + j) + 1
    BY <1>1
  <2>3. p[i + (j + 1)] = b * p[i + j]
    BY <2>2 DEF IsPowers
  <2> DEFINE r == b * q
  <2>4. p[i + (j + 1)] = b * (x * q)
    BY <2>1, <2>3
  <2> HIDE DEF x
  <2>5. b * (x * q) = x * r /\ r \in Nat \ {0}
    BY <1>1, Z3
  <2> HIDE DEF r
  <2>6. p[i + (j + 1)] = x * r
    BY <2>4, <2>5
  <2> QED
    BY <2>2, <2>5, <2>6 DEF x
<1> HIDE DEF G
<1>4. i + m = n
  BY <1>1
<1>5. m \in G
  <2> HIDE DEF m
  <2>1. m \in 0 .. m
    BY <1>1
  <2> QED
    BY <1>1, <1>2, <1>3, <2>1, InductTo
<1> QED
  BY <1>4, <1>5 DEF G

(* Some digits make a number below the power of their count.               *)
LEMMA SumsBounded ==
  ASSUME NEW b \in Nat \ {0}, NEW n \in Nat, NEW p, IsPowers(p, b, n),
         NEW h, NEW d, IsSums(h, d, p, n),
         \A k \in 0 .. (n - 1) : d[k] \in 0 .. (b - 1)
  PROVE  \A k \in 0 .. n : h[k] \in 0 .. (p[k] - 1)
<1> DEFINE G == {k \in 0 .. n : h[k] \in 0 .. (p[k] - 1)}
<1>1. 0 \in G
  BY DEF IsSums, IsPowers
<1>2. ASSUME NEW k \in 0 .. (n - 1), k \in G PROVE k + 1 \in G
  <2> DEFINE x == p[k]
             y == p[k + 1]
             s == h[k]
             s1 == h[k + 1]
             c == d[k]
  <2>1. x \in Nat \ {0}
    BY PowersPositive
  <2>2. y = b * x /\ k + 1 \in 0 .. n
    BY DEF IsPowers
  <2>3. s1 = s + c * x /\ s \in 0 .. (x - 1) /\ c \in 0 .. (b - 1)
    BY <1>2 DEF IsSums
  <2> HIDE DEF x, y, s, s1, c
  <2>4. c * x <= (b - 1) * x /\ 0 <= c * x /\ (b - 1) * x = b * x - x /\ c * x \in Int
    BY <2>1, <2>3, Z3
  <2>5. s1 \in 0 .. (y - 1)
    BY <2>1, <2>2, <2>3, <2>4, Z3
  <2> QED
    BY <2>2, <2>5 DEF y, s1
<1> HIDE DEF G
<1>3. 0 .. n \subseteq G
  BY <1>1, <1>2, InductTo
<1> QED
  BY <1>3 DEF G

(* The number that the first digits of v make is what they are worth.      *)
LEMMA SumOfDigits ==
  ASSUME NEW b \in Nat \ {0}, NEW n \in Nat, NEW p, IsPowers(p, b, n),
         NEW v \in Int, NEW h, NEW d, IsSums(h, d, p, n), IsDigits(d, v, b, p, n)
  PROVE  \A k \in 0 .. n : h[k] = v % p[k]
<1> DEFINE G == {k \in 0 .. n : h[k] = v % p[k]}
<1>1. 0 \in G
  <2>1. v % 1 = 0
    BY Z3
  <2> QED
    BY <2>1 DEF IsSums, IsPowers
<1>2. ASSUME NEW k \in 0 .. (n - 1), k \in G PROVE k + 1 \in G
  <2> DEFINE x == p[k]
             y == p[k + 1]
  <2>1. x \in Nat \ {0}
    BY PowersPositive
  <2>2. y = b * x /\ k + 1 \in 0 .. n
    BY DEF IsPowers
  <2>3. h[k + 1] = (v % x) + ((v \div x) % b) * x
    BY <1>2 DEF IsSums, IsDigits
  <2> HIDE DEF x
  <2>4. v % (b * x) = (v % x) + ((v \div x) % b) * x
    BY <2>1, DivisionTwice
  <2>5. h[k + 1] = v % y
    BY <2>2, <2>3, <2>4
  <2> QED
    BY <2>2, <2>5
<1> HIDE DEF G
<1>3. 0 .. n \subseteq G
  BY <1>1, <1>2, InductTo
<1> QED
  BY <1>3 DEF G

(* The digits of the number that some digits make are these.               *)
LEMMA DigitOfSum ==
  ASSUME NEW b \in Nat \ {0}, NEW n \in Nat, NEW p, IsPowers(p, b, n),
         NEW h, NEW d, IsSums(h, d, p, n),
         \A k \in 0 .. (n - 1) : d[k] \in 0 .. (b - 1), NEW i \in 0 .. (n - 1)
  PROVE  (h[n] \div p[i]) % b = d[i]
<1> DEFINE m == n - (i + 1)
           x == p[i]
           G == {j \in 0 .. m : \E c \in Int : h[(i + 1) + j] = h[i] + (d[i] + c * b) * x}
<1>1. i \in Nat /\ m \in Nat /\ i \in 0 .. n /\ (i + 1) + m = n
  OBVIOUS
<1>2. x \in Nat \ {0} /\ h[i] \in 0 .. (x - 1) /\ d[i] \in 0 .. (b - 1)
  BY <1>1, PowersPositive, SumsBounded
<1>3. 0 \in G
  <2>1. h[(i + 1) + 0] = h[i] + d[i] * x
    BY <1>1 DEF IsSums
  <2>2. d[i] + 0 * b = d[i]
    BY <1>2
  <2>3. h[(i + 1) + 0] = h[i] + (d[i] + 0 * b) * x
    BY <2>1, <2>2
  <2>4. \E c \in Int : h[(i + 1) + 0] = h[i] + (d[i] + c * b) * x
    <3> WITNESS 0 \in Int
    <3> QED
      BY <2>3
  <2>5. 0 \in 0 .. m
    BY <1>1
  <2> QED
    BY <2>4, <2>5, Zenon
<1>4. ASSUME NEW j \in 0 .. (m - 1), j \in G PROVE j + 1 \in G
  <2> DEFINE k == (i + 1) + j
             y == p[k]
             e == d[k]
             f == d[i]
             g == h[i]
  <2>1. PICK c \in Int : h[k] = g + (f + c * b) * x
    BY <1>4
  <2>2. k \in 0 .. (n - 1) /\ k \in Nat /\ (i + 1) + (j + 1) = k + 1 /\ j + 1 \in 0 .. m
        /\ i + 1 \in 0 .. k /\ k \in 0 .. n
    BY <1>1
  <2>3. h[k + 1] = h[k] + e * y /\ e \in 0 .. (b - 1)
    BY <2>2 DEF IsSums
  <2>4. \E q \in Nat \ {0} : y = p[i + 1] * q
    <3>1. IsPowers(p, b, k)
      BY <1>1, <2>2 DEF IsPowers
    <3> HIDE DEF k
    <3> QED
      BY <2>2, <3>1, PowersMultiple
  <2>5. PICK q \in Nat \ {0} : y = p[i + 1] * q
    BY <2>4
  <2>6. p[i + 1] = b * x
    BY DEF IsPowers
  <2>7. f \in Int /\ g \in Int /\ x \in Nat
    BY <1>2
  <2>8. h[k + 1] = (g + (f + c * b) * x) + e * ((b * x) * q)
    BY <2>1, <2>3, <2>5, <2>6
  <2> HIDE DEF e, f, g, x, y, k
  <2>9. (g + (f + c * b) * x) + e * ((b * x) * q) = g + (f + (c + e * q) * b) * x
    BY <2>3, <2>7, Z3
  <2>10. c + e * q \in Int
    BY <2>3
  <2>11. h[(i + 1) + (j + 1)] = g + (f + (c + e * q) * b) * x
    BY <2>2, <2>8, <2>9
  <2> QED
    BY <2>2, <2>10, <2>11 DEF f, g
<1>5. m \in G
  <2> HIDE DEF m, G
  <2>1. m \in 0 .. m
    BY <1>1
  <2> QED
    BY <1>1, <1>3, <1>4, <2>1, InductTo
<1>6. PICK c \in Int : h[n] = h[i] + (d[i] + c * b) * x
  BY <1>1, <1>5
<1> DEFINE f == d[i]
           g == h[i]
<1>7. f + c * b \in Int
  BY <1>2
<1>8. h[n] \div x = f + c * b
  <2> DEFINE z == f + c * b
  <2>1. h[n] = g + z * x
    BY <1>6
  <2>2. z \in Int /\ g \in 0 .. (x - 1)
    BY <1>2, <1>7
  <2> HIDE DEF z, x, g
  <2>3. (g + z * x) \div x = z
    BY <1>2, <2>2, DivisionOfSum
  <2> QED
    BY <2>1, <2>3 DEF z
<1>9. (f + c * b) % b = f
  <2> HIDE DEF f
  <2>1. f \in 0 .. (b - 1)
    BY <1>2 DEF f
  <2> QED
    BY <2>1, DivisionOfSum
<1> QED
  BY <1>8, <1>9


=============================================================================
