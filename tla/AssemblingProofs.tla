-------------------------- MODULE AssemblingProofs --------------------------
(***************************************************************************)
(* What is proved of Assembling, for every set of lines: whatever numbers  *)
(* of registers, multipliers, displacements and symbols they have.         *)
(*                                                                         *)
(* A line is accepted in three steps.  The parser walks over all registers *)
(* in some order and finds places for those of an encodable address        *)
(* (EncodedSlots: after k registers the places hold what the first k of    *)
(* the walk need).  The handler then writes pieces of which each is a      *)
(* byte, or an expression the patcher has an encoding for (CodeFits).      *)
(* Laying them out and filling their holes later keeps the code accepted   *)
(* (LaidAccepted, FilledAccepted).  Accepting, the inductive invariant,    *)
(* adds to AcceptsWellFormed that what is still open can be filled: a line *)
(* that is accepted today may be an error at the end of the file or in the *)
(* linker.                                                                 *)
(*                                                                         *)
(* The type of the text needs what every line is written as, accepted or   *)
(* not: a piece is a byte, or an expression of at most eight bytes, for    *)
(* every row of the table (CodeTyped).  Laying pieces out leaves the holes *)
(* in the text (LaidTyped), and so does filling them (FilledTyped).  Of    *)
(* what the machine reads, for every text whatever: the next instruction   *)
(* starts after this one, or is an error (InstructionRead).                *)
(***************************************************************************)
EXTENDS Assembling, Induction, FiniteSetTheorems, TLAPS

LEMMA MaxIn ==
  ASSUME NEW m \in Nat, NEW S \in SUBSET (1 .. m), S # {}
  PROVE  Max(S) \in S /\ Max(S) \in 1 .. m /\ (m \in S => Max(S) = m)
<1>1. S \subseteq 0 .. m
  OBVIOUS
<1>2. Max(S) \in S /\ \A y \in S : Max(S) >= y
  BY <1>1, MaxOf
<1> DEFINE x == Max(S)
<1>3. x \in S /\ \A y \in S : x >= y
  BY <1>2
<1> HIDE DEF x
<1>4. x \in S /\ x \in 1 .. m /\ (m \in S => x = m)
  BY <1>3
<1> QED
  BY <1>4 DEF x

-----------------------------------------------------------------------------
(* The walk over the registers: it[S] is what is placed after the registers *)
(* of S, a prefix of the order.                                            *)
IsWalk(it, addr, order, m) ==
  it = [S \in SUBSET (1 .. m) |->
          IF S = {} THEN NoSlots
          ELSE Place(it[S \ {Max(S)}], order[Max(S)][1], Multiplier(addr, order[Max(S)]))]

LEMMA SlotsFold ==
  ASSUME NEW addr, NEW n \in Nat, NEW order, DOMAIN order = 1 .. n
  PROVE  Slots(addr, order) = (CHOOSE it : IsWalk(it, addr, order, n))[1 .. n]
BY DEF Slots, FoldLeft, MapThenFoldSet, IsWalk

LEMMA WalkExists ==
  ASSUME NEW addr, NEW order, NEW n \in Nat
  PROVE  \E it : IsWalk(it, addr, order, n)
<1> DEFINE T == {m \in Nat : \E it : IsWalk(it, addr, order, m)}
<1>1. 0 \in T
  <2> DEFINE it == [S \in {{}} |-> NoSlots]
  <2>1. SUBSET (1 .. 0) = {{}}
    OBVIOUS
  <2>2. IsWalk(it, addr, order, 0)
    BY <2>1 DEF IsWalk
  <2> QED
    BY <2>2
<1>2. ASSUME NEW m \in Nat, m \in T PROVE m + 1 \in T
  <2> DEFINE k == m + 1
  <2>1. k \in Nat /\ 1 .. k = (1 .. m) \cup {k} /\ k \notin 1 .. m
    OBVIOUS
  <2>2. PICK old : IsWalk(old, addr, order, m)
    BY <1>2
  <2> DEFINE it == [S \in SUBSET (1 .. k) |->
                      IF k \in S THEN Place(old[S \ {k}], order[k][1], Multiplier(addr, order[k]))
                      ELSE old[S]]
             full == [S \in SUBSET (1 .. k) |->
                        IF S = {} THEN NoSlots
                        ELSE Place(it[S \ {Max(S)}], order[Max(S)][1], Multiplier(addr, order[Max(S)]))]
  <2> HIDE DEF k
  <2>3. ASSUME NEW S \in SUBSET (1 .. k) PROVE it[S] = full[S]
    <3>1. CASE k \in S
      <4>1. Max(S) = k /\ S # {}
        BY <2>1, <3>1, MaxIn
      <4>2. S \ {k} \in SUBSET (1 .. k) /\ k \notin S \ {k}
        OBVIOUS
      <4>3. it[S \ {k}] = old[S \ {k}]
        BY <4>2
      <4> QED
        BY <3>1, <4>1, <4>3
    <3>2. CASE k \notin S
      <4>1. S \in SUBSET (1 .. m)
        BY <2>1, <3>2
      <4>2. it[S] = old[S]
        BY <3>2
      <4>3. CASE S = {}
        BY <4>1, <4>2, <4>3, <2>2 DEF IsWalk
      <4>4. CASE S # {}
        <5> DEFINE r == S \ {Max(S)}
        <5>1. old[S] = Place(old[r], order[Max(S)][1], Multiplier(addr, order[Max(S)]))
          BY <4>1, <4>4, <2>2 DEF IsWalk
        <5>2. r \in SUBSET (1 .. k) /\ k \notin r
          BY <3>2
        <5>3. it[r] = old[r]
          BY <5>2
        <5> QED
          BY <4>2, <4>4, <5>1, <5>3
      <4> QED
        BY <4>3, <4>4
    <3> QED
      BY <3>1, <3>2
  <2>4. it = full
    BY <2>3
  <2>5. IsWalk(it, addr, order, k)
    BY <2>4 DEF IsWalk
  <2> QED
    BY <2>1, <2>5 DEF k
<1> HIDE DEF T
<1>3. Nat \subseteq T
  BY <1>1, <1>2, Induct
<1> QED
  BY <1>3 DEF T

(* The places after the first k registers of the walk. *)
LEMMA SlotsWalk ==
  ASSUME NEW addr, NEW n \in Nat, NEW order, DOMAIN order = 1 .. n
  PROVE  \E s : /\ s[0] = NoSlots
                /\ \A k \in 1 .. n : s[k] = Place(s[k - 1], order[k][1], Multiplier(addr, order[k]))
                /\ s[n] = Slots(addr, order)
<1> DEFINE it == CHOOSE it : IsWalk(it, addr, order, n)
<1>1. IsWalk(it, addr, order, n)
  BY WalkExists
<1>2. Slots(addr, order) = it[1 .. n]
  BY SlotsFold
<1> HIDE DEF it
<1> DEFINE s == [k \in 0 .. n |-> it[1 .. k]]
<1>3. s[0] = NoSlots
  <2>1. 1 .. 0 = {} /\ 1 .. 0 \in SUBSET (1 .. n)
    OBVIOUS
  <2>2. it[1 .. 0] = NoSlots
    BY <2>1, <1>1 DEF IsWalk
  <2> QED
    BY <2>2
<1>4. ASSUME NEW k \in 1 .. n
      PROVE  s[k] = Place(s[k - 1], order[k][1], Multiplier(addr, order[k]))
  <2>1. 1 .. k \in SUBSET (1 .. k) /\ 1 .. k \in SUBSET (1 .. n) /\ k \in 1 .. k /\ k \in Nat
    OBVIOUS
  <2>2. Max(1 .. k) = k /\ 1 .. k # {}
    BY <2>1, MaxIn
  <2>3. (1 .. k) \ {k} = 1 .. (k - 1)
    OBVIOUS
  <2>4. it[1 .. k] = Place(it[1 .. (k - 1)], order[k][1], Multiplier(addr, order[k]))
    BY <2>1, <2>2, <2>3, <1>1 DEF IsWalk
  <2> QED
    BY <2>4
<1>5. s[n] = Slots(addr, order)
  BY <1>2
<1> QED
  BY <1>3, <1>4, <1>5

-----------------------------------------------------------------------------
(* A set has at least as many elements as can be told apart in it. *)
LEMMA Counted ==
  ASSUME NEW P, IsFiniteSet(P)
  PROVE  /\ Cardinality(P) \in Nat
         /\ \A a \in P : Cardinality(P) >= 1
         /\ \A a, b \in P : a # b => Cardinality(P) >= 2
         /\ \A a, b, c \in P : a # b /\ a # c /\ b # c => Cardinality(P) >= 3
<1>1. Cardinality(P) \in Nat
  BY FS_CardinalityType
<1>2. ASSUME NEW a \in P PROVE Cardinality(P) >= 1
  <2>1. Cardinality({a}) = 1 /\ {a} \subseteq P
    BY FS_Singleton
  <2> QED
    BY <2>1, FS_Subset
<1>3. ASSUME NEW a \in P, NEW b \in P, a # b PROVE Cardinality(P) >= 2
  <2>1. IsFiniteSet({a}) /\ Cardinality({a}) = 1
    BY FS_Singleton
  <2>2. Cardinality({a} \cup {b}) = 2
    BY <2>1, <1>3, FS_AddElement
  <2>3. {a} \cup {b} \subseteq P
    OBVIOUS
  <2> QED
    BY <2>2, <2>3, FS_Subset
<1>4. ASSUME NEW a \in P, NEW b \in P, NEW c \in P, a # b, a # c, b # c PROVE Cardinality(P) >= 3
  <2>1. IsFiniteSet({a}) /\ Cardinality({a}) = 1
    BY FS_Singleton
  <2>6. b \notin {a} /\ 1 + 1 = 2
    BY <1>4
  <2>2. Cardinality({a} \cup {b}) = 2
    BY <2>1, <2>6, FS_AddElement
  <2>5. IsFiniteSet({a} \cup {b})
    BY <2>1, FS_AddElement
  <2>3. Cardinality(({a} \cup {b}) \cup {c}) = 3
    BY <2>2, <2>5, <1>4, FS_AddElement, SMTT(30)
  <2>4. ({a} \cup {b}) \cup {c} \subseteq P
    OBVIOUS
  <2> QED
    BY <2>3, <2>4, FS_Subset
<1> QED
  BY <1>1, <1>2, <1>3, <1>4

IsOrder(order, n) ==
  /\ order \in [1 .. n -> (0 .. 15) \X (0 .. 3)]
  /\ \A i, j \in 1 .. n : i # j => order[i] # order[j]
Odd(addr, order, i) == Multiplier(addr, order[i]) % 2 = 1
ScaleAt(addr, order, i) == Scaled(Multiplier(addr, order[i]))
\* what the encoding of an address asks of its registers, place by place of the walk
FewPlaces(addr, order, n) ==
  /\ \A i \in 1 .. n : Multiplier(addr, order[i]) \in Nat /\ ScaleAt(addr, order, i) \in {0, 2, 4, 8}
  /\ \A i, j \in 1 .. n : ScaleAt(addr, order, i) # 0 /\ ScaleAt(addr, order, j) # 0 => i = j
  /\ \A i, j, k \in 1 .. n : ScaleAt(addr, order, i) # 0 /\ Odd(addr, order, j) /\ Odd(addr, order, k) => j = k
  /\ \A i, j, k \in 1 .. n : Odd(addr, order, i) /\ Odd(addr, order, j) /\ Odd(addr, order, k) => i = j \/ i = k \/ j = k

LEMMA EncodableFewPlaces ==
  ASSUME NEW addr, IsAddress(addr), Encodable(addr), NEW n \in Nat, NEW order, IsOrder(order, n)
  PROVE  FewPlaces(addr, order, n)
<1> DEFINE plain == {r \in DOMAIN addr.regs : addr.regs[r] % 2 = 1}
           scaled == {r \in DOMAIN addr.regs : Scaled(addr.regs[r]) # 0}
<1>1. IsFiniteSet(plain) /\ IsFiniteSet(scaled)
  <2>1. IsFiniteSet((0 .. 15) \X (0 .. 3))
    <3>1. /\ IsFiniteSet(0 .. 15)
          /\ IsFiniteSet(0 .. 3)
      BY 0 \in Int, 3 \in Int, 15 \in Int, FS_Interval
    <3> QED
      BY <3>1, FS_Product
  <2> QED
    BY <2>1, FS_Subset DEF IsAddress
<1>2. /\ Cardinality(plain) + Cardinality(scaled) <= 2
      /\ Cardinality(scaled) <= 1 /\ \A r \in scaled : Scaled(addr.regs[r]) \in {2, 4, 8}
  BY DEF Encodable
<1>3. \A i \in 1 .. n : /\ Multiplier(addr, order[i]) \in Nat
                        /\ Odd(addr, order, i) => order[i] \in plain
                        /\ ScaleAt(addr, order, i) # 0 => /\ order[i] \in scaled
                                                        /\ ScaleAt(addr, order, i) = Scaled(addr.regs[order[i]])
  <2> SUFFICES ASSUME NEW i \in 1 .. n
               PROVE /\ Multiplier(addr, order[i]) \in Nat
                     /\ Odd(addr, order, i) => order[i] \in plain
                     /\ ScaleAt(addr, order, i) # 0 => /\ order[i] \in scaled
                                                     /\ ScaleAt(addr, order, i) = Scaled(addr.regs[order[i]])
    OBVIOUS
  <2>1. CASE order[i] \in DOMAIN addr.regs
    BY <2>1 DEF IsAddress, Multiplier, Odd, ScaleAt
  <2>2. CASE order[i] \notin DOMAIN addr.regs
    <3>1. Multiplier(addr, order[i]) = 0
      BY <2>2 DEF Multiplier
    <3>2. 0 % 2 = 0 /\ 0 - 0 = 0
      OBVIOUS
    <3> QED
      BY <3>1, <3>2 DEF Odd, ScaleAt, Scaled
  <2> QED
    BY <2>1, <2>2
<1> HIDE DEF plain, scaled
<1>4. /\ Cardinality(plain) \in Nat /\ Cardinality(scaled) \in Nat
      /\ \A a \in scaled : Cardinality(scaled) >= 1
      /\ \A a, b \in scaled : a # b => Cardinality(scaled) >= 2
      /\ \A a, b \in plain : a # b => Cardinality(plain) >= 2
      /\ \A a, b, c \in plain : a # b /\ a # c /\ b # c => Cardinality(plain) >= 3
  BY <1>1, Counted
<1>5. /\ \A a, b \in scaled : a = b
      /\ \A a \in scaled : \A b, c \in plain : b = c
      /\ \A a, b, c \in plain : a = b \/ a = c \/ b = c
  BY <1>2, <1>4
<1>6. \A i, j \in 1 .. n : i # j => order[i] # order[j]
  BY DEF IsOrder
<1>7. \A i \in 1 .. n : Multiplier(addr, order[i]) \in Nat /\ ScaleAt(addr, order, i) \in {0, 2, 4, 8}
  BY <1>2, <1>3
<1>8. \A i, j \in 1 .. n : ScaleAt(addr, order, i) # 0 /\ ScaleAt(addr, order, j) # 0 => i = j
  BY <1>3, <1>5, <1>6
<1>9. \A i, j, k \in 1 .. n : ScaleAt(addr, order, i) # 0 /\ Odd(addr, order, j) /\ Odd(addr, order, k) => j = k
  BY <1>3, <1>5, <1>6
<1>10. \A i, j, k \in 1 .. n : Odd(addr, order, i) /\ Odd(addr, order, j) /\ Odd(addr, order, k) => i = j \/ i = k \/ j = k
  BY <1>3, <1>5, <1>6
<1> QED
  BY ONLY <1>7, <1>8, <1>9, <1>10 DEF FewPlaces

PlacedSlots ==
  [r1 : (0 .. 15) \cup {Unused}, r2 : (0 .. 15) \cup {Unused}, m1 : 0 .. 3, ok : {TRUE}]
SlotsOK(x, addr, order, k) ==
  /\ x \in PlacedSlots
  /\ x.r2 = Unused => \A i \in 1 .. k : ~Odd(addr, order, i)
  /\ x.r2 # Unused => \E i \in 1 .. k : Odd(addr, order, i)
  /\ x.r1 # Unused => \/ \E i \in 1 .. k : ScaleAt(addr, order, i) # 0
                      \/ \E i, j \in 1 .. k : i # j /\ Odd(addr, order, i) /\ Odd(addr, order, j)

LEMMA SlotsTaken ==
  ASSUME NEW x \in PlacedSlots, NEW id \in 0 .. 15
  PROVE  /\ [x EXCEPT !.r2 = id] \in PlacedSlots
         /\ [x EXCEPT !.r2 = id].r2 = id /\ [x EXCEPT !.r2 = id].r1 = x.r1
         /\ [x EXCEPT !.r1 = id] \in PlacedSlots
         /\ [x EXCEPT !.r1 = id].r1 = id /\ [x EXCEPT !.r1 = id].r2 = x.r2
BY DEF PlacedSlots

LEMMA SlotsScaled ==
  ASSUME NEW x \in PlacedSlots, NEW id \in 0 .. 15, NEW m \in 0 .. 3,
         NEW y, y = [x EXCEPT !.r1 = id, !.m1 = m]
  PROVE  y \in PlacedSlots /\ y.r2 = x.r2
BY DEF PlacedSlots

LEMMA PlacedOK ==
  ASSUME NEW addr, NEW n \in Nat, NEW order, IsOrder(order, n), FewPlaces(addr, order, n),
         NEW k \in 1 .. n, NEW x, SlotsOK(x, addr, order, k - 1)
  PROVE  SlotsOK(Place(x, order[k][1], Multiplier(addr, order[k])), addr, order, k)
<1> DEFINE id == order[k][1]
           mult == Multiplier(addr, order[k])
           scale == ScaleAt(addr, order, k)
           first == IF mult % 2 = 1 THEN PlaceTrivial(x, id) ELSE x
           placed == Place(x, id, mult)
<1>1. id \in 0 .. 15 /\ mult \in Nat /\ scale \in {0, 2, 4, 8} /\ id # Unused
  BY SMTT(30) DEF IsOrder, FewPlaces, Unused
<1>2. placed = IF scale = 0 THEN first ELSE PlaceScaled(first, id, scale)
  BY DEF Place, ScaleAt, Scaled
<1>6. first = IF ~Odd(addr, order, k) THEN x ELSE PlaceTrivial(x, id)
  BY DEF Odd
<1>7. x \in PlacedSlots
  BY DEF SlotsOK
<1>9. 0 \in 0 .. 3
  OBVIOUS
<1> HIDE DEF id, mult, scale, first, placed
<1>3. /\ first \in PlacedSlots
      /\ first.r2 = Unused => \A i \in 1 .. k : ~Odd(addr, order, i)
      /\ first.r2 # Unused => \E i \in 1 .. k : Odd(addr, order, i)
      /\ first.r1 # Unused => \/ \E i \in 1 .. (k - 1) : ScaleAt(addr, order, i) # 0
                              \/ \E i, j \in 1 .. k : i # j /\ Odd(addr, order, i) /\ Odd(addr, order, j)
  <2>1. CASE ~Odd(addr, order, k)
    <3>1. first = x
      BY <2>1, <1>6
    <3>2. 1 .. k = (1 .. (k - 1)) \cup {k}
      OBVIOUS
    <3> QED
      BY <2>1, <3>1, <3>2 DEF SlotsOK
  <2>2. CASE Odd(addr, order, k) /\ x.r2 = Unused
    <3>1. first = [x EXCEPT !.r2 = id]
      BY <2>2, <1>6 DEF PlaceTrivial
    <3>2. first.r2 = id /\ first.r1 = x.r1 /\ first \in PlacedSlots
      BY <3>1, <1>1, <1>7, <1>9, SlotsTaken
    <3>3. k \in 1 .. k /\ 1 .. (k - 1) \subseteq 1 .. k
      OBVIOUS
    <3> QED
      BY <2>2, <3>2, <3>3, <1>1 DEF SlotsOK
  <2>3. CASE Odd(addr, order, k) /\ x.r2 # Unused
    <3>1. PICK i \in 1 .. (k - 1) : Odd(addr, order, i)
      BY <2>3 DEF SlotsOK
    <3>2. i # k /\ i \in 1 .. k /\ k \in 1 .. k /\ 1 .. (k - 1) \subseteq 1 .. n /\ i \in 1 .. n
      OBVIOUS
    <3>3. \A j \in 1 .. (k - 1) : j \in 1 .. n /\ j # k
      OBVIOUS
    <3>4. x.r1 = Unused
      BY <2>3, <3>1, <3>2, <3>3 DEF SlotsOK, FewPlaces
    <3>5. first = [x EXCEPT !.r1 = id]
      BY <2>3, <3>4, <1>6 DEF PlaceTrivial
    <3>6. first.r1 = id /\ first.r2 = x.r2 /\ first \in PlacedSlots
      BY <3>5, <1>1, <1>7, <1>9, SlotsTaken
    <3> QED
      BY <2>3, <3>1, <3>2, <3>6
  <2> QED
    BY <2>1, <2>2, <2>3
<1>4. ASSUME scale = 0 PROVE SlotsOK(placed, addr, order, k)
  <2>1. placed = first
    BY <1>2, <1>4
  <2>2. \A i \in 1 .. (k - 1) : i \in 1 .. k
    OBVIOUS
  <2>3. \/ first.r1 = Unused \/ \E i \in 1 .. k : ScaleAt(addr, order, i) # 0
        \/ \E i, j \in 1 .. k : i # j /\ Odd(addr, order, i) /\ Odd(addr, order, j)
    BY <1>3, <2>2
  <2> QED
    BY <1>3, <2>1, <2>3 DEF SlotsOK
<1>5. ASSUME scale # 0 PROVE SlotsOK(placed, addr, order, k)
  <2>1. \A i \in 1 .. k : i \in 1 .. n /\ (i \in 1 .. (k - 1) => i # k)
    OBVIOUS
  <2>2. first.r1 = Unused
    BY <1>3, <1>5, <2>1 DEF FewPlaces, scale
  <2>3. scale \in DOMAIN ScaleCode /\ ScaleCode[scale] \in 0 .. 3
    BY <1>1, <1>5 DEF ScaleCode
  <2>4. placed = [first EXCEPT !.r1 = id, !.m1 = ScaleCode[scale]]
    BY <1>2, <1>5, <2>2, <2>3 DEF PlaceScaled
  <2>5. placed.r2 = first.r2 /\ placed \in PlacedSlots
    <3> DEFINE m == ScaleCode[scale]
    <3>1. m \in 0 .. 3 /\ placed = [first EXCEPT !.r1 = id, !.m1 = m]
      BY <2>3, <2>4
    <3> HIDE DEF m
    <3>2. first \in PlacedSlots /\ id \in 0 .. 15 /\ m \in 0 .. 3
      BY <1>1, <1>3, <3>1
    <3> QED
      BY ONLY <3>1, <3>2, SlotsScaled, ZenonT(40)
  <2>6. k \in 1 .. k /\ ScaleAt(addr, order, k) # 0
    BY <1>5 DEF scale
  <2>7. \E i \in 1 .. k : ScaleAt(addr, order, i) # 0
    BY <2>6
  <2> QED
    BY <1>3, <2>5, <2>7 DEF SlotsOK
<1>8. SlotsOK(placed, addr, order, k)
  BY <1>4, <1>5
<1> QED
  BY <1>8 DEF placed, id, mult

(* In whatever order the registers are looked for, those of an encodable   *)
(* address all get a place, and the address is parsed.                     *)
LEMMA EncodedSlots ==
  ASSUME NEW addr, IsAddress(addr), Encodable(addr), NEW n \in Nat, NEW order, IsOrder(order, n)
  PROVE  Slots(addr, order) \in PlacedSlots
<1>1. FewPlaces(addr, order, n)
  BY EncodableFewPlaces
<1>2. DOMAIN order = 1 .. n
  BY DEF IsOrder
<1>3. PICK s : /\ s[0] = NoSlots
               /\ \A k \in 1 .. n : s[k] = Place(s[k - 1], order[k][1], Multiplier(addr, order[k]))
               /\ s[n] = Slots(addr, order)
  BY <1>2, SlotsWalk
<1> DEFINE T == {k \in Nat : SlotsOK(s[k], addr, order, k)}
<1>4. 0 \in T
  <2>1. 1 .. 0 = {}
    OBVIOUS
  <2>2. NoSlots \in PlacedSlots /\ NoSlots.r1 = Unused /\ NoSlots.r2 = Unused
    BY DEF PlacedSlots, NoSlots
  <2>3. SlotsOK(NoSlots, addr, order, 0)
    BY <2>1, <2>2 DEF SlotsOK
  <2> QED
    BY <1>3, <2>3
<1>5. ASSUME NEW k \in 0 .. (n - 1), k \in T PROVE k + 1 \in T
  <2> DEFINE j == k + 1
  <2>1. j \in 1 .. n /\ j - 1 = k /\ j \in Nat
    OBVIOUS
  <2> HIDE DEF j
  <2>2. s[j] = Place(s[k], order[j][1], Multiplier(addr, order[j]))
    BY <1>3, <2>1
  <2>3. SlotsOK(s[k], addr, order, j - 1)
    BY <1>5, <2>1
  <2>4. SlotsOK(s[j], addr, order, j)
    BY <1>1, <2>1, <2>2, <2>3, PlacedOK
  <2> QED
    BY <2>1, <2>4 DEF j
<1> HIDE DEF T
<1>6. n \in T
  <2>1. 0 .. n \subseteq T
    BY <1>4, <1>5, InductTo
  <2> QED
    BY <2>1
<1>7. SlotsOK(Slots(addr, order), addr, order, n)
  BY <1>3, <1>6 DEF T
<1> QED
  BY <1>7 DEF SlotsOK

LEMMA EncodableParsed ==
  ASSUME NEW addr, IsAddress(addr), Encodable(addr), NEW n \in Nat, NEW order, IsOrder(order, n)
  PROVE  ParsedAddress(addr, order).ok
<1> DEFINE sizes == RegisterSizes(addr)
           size == AddressSize(addr)
<1>8. Slots(addr, order).ok
  BY EncodedSlots DEF PlacedSlots
<1>9. Cardinality(sizes) <= 1 /\ 0 \notin sizes /\ sizes \subseteq 0 .. 3
  BY DEF Encodable, RegisterSizes, IsAddress
<1>10. size \in 1 .. 3
  BY <1>9 DEF AddressSize
<1> QED
  BY <1>8, <1>9, <1>10 DEF ParsedAddress

-----------------------------------------------------------------------------
(* What is written: pieces of which none is an expression that cannot be   *)
(* patched                                                                 *)

Fits(p) ==
  \/ p.kind = "byte"
  \/ p.kind = "expr" /\ (p.val.float => p.size \in {4, 8})
AllFit(pieces) == \E S : pieces \in Seq(S) /\ \A p \in S : Fits(p)

LEMMA NothingFits == AllFit(<<>>)
<1> DEFINE S == {}
<1>1. <<>> \in Seq(S) /\ \A p \in S : Fits(p)
  OBVIOUS
<1> HIDE DEF S
<1> QED
  BY <1>1 DEF AllFit

LEMMA OneFits ==
  ASSUME NEW p, Fits(p)
  PROVE  AllFit(<<p>>)
<1> DEFINE S == {p}
<1>1. <<p>> \in Seq(S) /\ \A q \in S : Fits(q)
  OBVIOUS
<1> HIDE DEF S
<1> QED
  BY <1>1 DEF AllFit

LEMMA BothFit ==
  ASSUME NEW s, NEW t, AllFit(s), AllFit(t)
  PROVE  AllFit(s \o t)
<1>1. PICK S : s \in Seq(S) /\ \A p \in S : Fits(p)
  BY DEF AllFit
<1>2. PICK T : t \in Seq(T) /\ \A p \in T : Fits(p)
  BY DEF AllFit
<1>3. s \o t \in Seq(S \cup T)
  BY <1>1, <1>2
<1>4. \A p \in S \cup T : Fits(p)
  BY <1>1, <1>2
<1> QED
  BY <1>3, <1>4 DEF AllFit

LEMMA ByteFits ==
  ASSUME NEW v
  PROVE  AllFit(Byte(v))
<1>1. Fits([kind |-> "byte", val |-> v])
  BY DEF Fits
<1> QED
  BY <1>1, OneFits DEF Byte

LEMMA ExprFits ==
  ASSUME NEW size, NEW e, e.float => size \in {4, 8}
  PROVE  AllFit(ExprPiece(size, e))
<1> DEFINE p == [kind |-> "expr", size |-> size, val |-> e]
<1>1. p.kind = "expr" /\ p.size = size /\ p.val = e
  OBVIOUS
<1> HIDE DEF p
<1>2. Fits(p)
  BY <1>1 DEF Fits
<1> QED
  BY <1>2, OneFits DEF ExprPiece, p

LEMMA Widths == Bytes(0) = 1 /\ Bytes(1) = 2 /\ Bytes(2) = 4 /\ Bytes(3) = 8
BY DEF Bytes

LEMMA AnySizeAllowed ==
  ASSUME NEW size \in 0 .. 3
  PROVE  Allowed(size, AnySize)
<1>1. \/ size = 0 /\ Bytes(size) = 1
      \/ size = 1 /\ Bytes(size) = 2
      \/ size = 2 /\ Bytes(size) = 4
      \/ size = 3 /\ Bytes(size) = 8
  BY Widths
<1> QED
  BY <1>1 DEF Allowed, AnySize

LEMMA OpcodeFits ==
  ASSUME NEW route
  PROVE  AllFit(Opcode(route))
<1>1. AllFit(IF route.ext = <<>> THEN <<>> ELSE Byte(route.ext[1]))
  BY NothingFits, ByteFits
<1> QED
  BY <1>1, ByteFits, BothFit DEF Opcode

LEMMA SettingsFit ==
  ASSUME NEW id, NEW size, NEW high, NEW flag
  PROVE  AllFit(Settings(id, size, high, flag))
BY ByteFits DEF Settings

LEMMA HeadFits ==
  ASSUME NEW route, NEW id, NEW size, NEW dh, NEW sh, NEW mode, NEW src
  PROVE  AllFit(BinaryHead(route, id, size, dh, sh, mode, src))
<1>1. AllFit(Opcode(route) \o Settings(id, size, dh, sh))
  BY OpcodeFits, SettingsFit, BothFit
<1> QED
  BY <1>1, ByteFits, BothFit DEF BinaryHead

(* The code of an address: its first byte holds the size of what follows.  *)
LEMMA AddressFits ==
  ASSUME NEW addr, IsAddress(addr), Encodable(addr), NEW n \in Nat, NEW order, IsOrder(order, n),
         NEW x, x.addr = ParsedAddress(addr, order)
  PROVE  AllFit(Address(x))
<1> DEFINE slots == Slots(addr, order)
           size == AddressSize(addr)
           two == (IF slots.r1 = Unused THEN 0 ELSE 1) * 2 + (IF slots.r2 = Unused THEN 0 ELSE 1)
           based == IF addr.base.known # "now" \/ addr.base.float \/ addr.base.val # 0 THEN 128 ELSE 0
           a == x.addr.a
<1>1. slots.m1 \in 0 .. 3
  BY EncodedSlots DEF PlacedSlots
<1>2. Cardinality(RegisterSizes(addr)) <= 1 /\ 0 \notin RegisterSizes(addr) /\ RegisterSizes(addr) \subseteq 0 .. 3
  BY DEF Encodable, RegisterSizes, IsAddress
<1>3. size \in 1 .. 3
  BY <1>2 DEF AddressSize
<1>4. x.addr.base = addr.base /\ a = based + slots.m1 * 16 + size * 4 + two
  <2>1. /\ ParsedAddress(addr, order).base = addr.base
        /\ ParsedAddress(addr, order).a =
             based + slots.m1 * 16 + size * 4 + (IF slots.r1 = Unused THEN 0 ELSE 1) * 2
               + (IF slots.r2 = Unused THEN 0 ELSE 1)
    BY DEF ParsedAddress
  <2> HIDE DEF slots, size, based
  <2>2. based \in {0, 128}
    BY DEF based
  <2> QED
    BY <1>1, <1>3, <2>1, <2>2
<1>5. two \in 0 .. 3 /\ based \in {0, 128}
  OBVIOUS
<1> HIDE DEF slots, size, two, based, a
<1>6. (a \div 4) % 4 = size
  BY <1>1, <1>3, <1>4, <1>5
<1>7. addr.base.float => Bytes((a \div 4) % 4) \in {4, 8}
  <2>1. addr.base.float => size \in 2 .. 3
    BY DEF Encodable, size
  <2>2. size \in 2 .. 3 => size = 2 \/ size = 3
    OBVIOUS
  <2> QED
    BY <1>6, <2>1, <2>2, Widths
<1>8. AllFit(ExprPiece(Bytes((a \div 4) % 4), addr.base))
  BY <1>7, ExprFits
<1>9. /\ AllFit(Byte(a))
      /\ AllFit(IF a % 4 # 0 THEN Byte(x.addr.b) ELSE <<>>)
      /\ AllFit(IF a >= 128 THEN ExprPiece(Bytes((a \div 4) % 4), addr.base) ELSE <<>>)
  BY <1>8, ByteFits, NothingFits
<1>10. AllFit(Byte(a) \o (IF a % 4 # 0 THEN Byte(x.addr.b) ELSE <<>>))
  BY <1>9, BothFit
<1>11. AllFit((Byte(a) \o (IF a % 4 # 0 THEN Byte(x.addr.b) ELSE <<>>))
                \o (IF a >= 128 THEN ExprPiece(Bytes((a \div 4) % 4), addr.base) ELSE <<>>))
  BY <1>9, <1>10, BothFit
<1> QED
  BY <1>4, <1>11 DEF Address, AddressPieces, a

-----------------------------------------------------------------------------
(* The lines                                                               *)

IsArgs(args) == args \in Seq(Range(args)) /\ \A x \in Range(args) : IsOperand(x)
AllEncodable(args) == \A i \in DOMAIN args : Addressed(args[i]) => Encodable(args[i].addr)
\* x as the handlers see it: its address fits
AsSeen(x, seen) ==
  /\ ~Addressed(x) => seen = x
  /\ Addressed(x) => /\ seen.kind = "mem" /\ seen.size = x.size /\ seen.sized = x.sized
                     /\ seen.addr.ok /\ AllFit(Address(seen))

LEMMA Arguments ==
  ASSUME NEW args, IsArgs(args)
  PROVE  /\ Len(args) \in Nat /\ DOMAIN args = 1 .. Len(args)
         /\ \A i \in 1 .. Len(args) : IsOperand(args[i])
<1>1. Len(args) \in Nat /\ DOMAIN args = 1 .. Len(args)
  BY DEF IsArgs
<1>2. \A i \in 1 .. Len(args) : args[i] \in Range(args)
  BY <1>1 DEF Range
<1> QED
  BY <1>1, <1>2 DEF IsArgs

LEMMA OrderOfRegisters ==
  ASSUME NEW args, IsArgs(args), NEW order \in SetToSeqs(Registers(args))
  PROVE  \E n \in Nat : IsOrder(order, n)
<1> DEFINE R == Registers(args)
           n == Cardinality(R)
<1>1. R \subseteq (0 .. 15) \X (0 .. 3)
  <2> SUFFICES ASSUME NEW r \in R PROVE r \in (0 .. 15) \X (0 .. 3)
    OBVIOUS
  <2>1. PICK i \in DOMAIN args : Addressed(args[i]) /\ r \in DOMAIN args[i].addr.regs
    BY DEF Registers
  <2>2. IsOperand(args[i])
    BY Arguments
  <2>3. IsAddress(args[i].addr)
    BY <2>1, <2>2 DEF IsOperand, Addressed
  <2> QED
    BY <2>1, <2>3 DEF IsAddress
<1>2. IsFiniteSet(R)
  <2>1. IsFiniteSet((0 .. 15) \X (0 .. 3))
    <3>1. /\ IsFiniteSet(0 .. 15)
          /\ IsFiniteSet(0 .. 3)
      BY 0 \in Int, 3 \in Int, 15 \in Int, FS_Interval
    <3> QED
      BY <3>1, FS_Product
  <2> QED
    BY <1>1, <2>1, FS_Subset
<1>3. n \in Nat
  BY <1>2, FS_CardinalityType
<1>4. order \in [1 .. n -> R] /\ \A i, j \in 1 .. n : i # j => order[i] # order[j]
  BY DEF SetToSeqs
<1>5. order \in [1 .. n -> (0 .. 15) \X (0 .. 3)]
  <2> HIDE DEF R, n
  <2> QED
    BY <1>1, <1>4
<1> QED
  BY <1>3, <1>4, <1>5 DEF IsOrder

LEMMA ParsedArguments ==
  ASSUME NEW args, IsArgs(args), AllEncodable(args), NEW order \in SetToSeqs(Registers(args))
  PROVE  /\ Len(Parsed(args, order)) = Len(args) /\ WellParsed(Parsed(args, order))
         /\ \A i \in 1 .. Len(args) : AsSeen(args[i], Parsed(args, order)[i])
<1> DEFINE seen == Parsed(args, order)
<1>1. Len(args) \in Nat /\ DOMAIN args = 1 .. Len(args)
  BY Arguments
<1>2. DOMAIN seen = 1 .. Len(args) /\ Len(seen) = Len(args)
  BY <1>1 DEF Parsed
<1>3. ASSUME NEW i \in 1 .. Len(args) PROVE AsSeen(args[i], seen[i])
  <2>1. CASE ~Addressed(args[i])
    BY <1>1, <2>1 DEF Parsed, AsSeen
  <2>2. CASE Addressed(args[i])
    <3> DEFINE addr == args[i].addr
    <3>6. IsOperand(args[i]) /\ args[i].kind = "mem"
      BY <2>2, Arguments DEF Addressed
    <3>7. IsAddress(addr)
      BY <3>6 DEF IsOperand
    <3>1. IsAddress(addr) /\ Encodable(addr)
      BY <1>1, <2>2, <3>7 DEF AllEncodable
    <3>2. seen[i] = [kind |-> "mem", size |-> args[i].size, sized |-> args[i].sized,
                     addr |-> ParsedAddress(addr, order)]
      BY <1>1, <2>2 DEF Parsed
    <3>3. seen[i].kind = "mem" /\ seen[i].size = args[i].size /\ seen[i].sized = args[i].sized
          /\ seen[i].addr = ParsedAddress(addr, order)
      BY <3>2
    <3>4. PICK n \in Nat : IsOrder(order, n)
      BY OrderOfRegisters
    <3> HIDE DEF addr, seen
    <3>5. seen[i].addr.ok
      BY <3>1, <3>3, <3>4, EncodableParsed
    <3>8. AllFit(Address(seen[i]))
      BY <3>1, <3>3, <3>4, AddressFits
    <3> QED
      BY <2>2, <3>3, <3>5, <3>8 DEF AsSeen
  <2> QED
    BY <2>1, <2>2
<1>4. WellParsed(seen)
  <2> HIDE DEF seen
  <2> SUFFICES ASSUME NEW i \in 1 .. Len(args), Addressed(seen[i]) PROVE seen[i].addr.ok
    BY <1>2 DEF WellParsed
  <2>1. AsSeen(args[i], seen[i])
    BY <1>3
  <2>2. Addressed(args[i])
    BY <2>1 DEF AsSeen
  <2> QED
    BY <2>1, <2>2 DEF AsSeen
<1> QED
  BY <1>2, <1>3, <1>4

-----------------------------------------------------------------------------
(* The handlers                                                            *)

\* two operands of one size c, as OneSize says it
SizedAs(x, y, c) ==
  /\ c \in 0 .. 3
  /\ x.kind \in {"reg", "mem"} /\ y.kind \in {"reg", "mem", "imm"}
  /\ ~(x.kind = "mem" /\ y.kind = "mem")
  /\ (x.kind = "reg" \/ x.sized) => x.size = c
  /\ (y.kind = "reg" \/ y.sized) => y.size = c
  /\ x.kind = "reg" \/ y.kind = "reg" \/ x.sized \/ y.sized
  /\ y.kind = "imm" => (y.val.float => c \in 2 .. 3)

LEMMA BinarySized ==
  ASSUME NEW args, IsArgs(args), OneSize(args)
  PROVE  \E c : SizedAs(args[1], args[2], c)
<1>1. /\ DOMAIN args = {1, 2}
      /\ IsOperand(args[1]) /\ IsOperand(args[2])
  <2>1. Len(args) = 2
    BY DEF OneSize
  <2>2. 1 .. 2 = {1, 2}
    OBVIOUS
  <2> QED
    BY <2>1, <2>2, Arguments
<1> DEFINE S == Stated(args)
<1>2. \A i \in {1, 2} : /\ args[i].kind = "reg" => args[i].size \in S
                        /\ args[i].kind \in {"imm", "mem"} /\ args[i].sized => args[i].size \in S
  BY <1>1 DEF Stated
<1>3. S # {} => \E i \in {1, 2} : args[i].kind = "reg" \/ (args[i].kind \in {"imm", "mem"} /\ args[i].sized)
  BY <1>1 DEF Stated
<1>4. IsFiniteSet(S) /\ S \subseteq 0 .. 3
  <2>1. IsFiniteSet(0 .. 3)
    BY 0 \in Int, 3 \in Int, FS_Interval
  <2>2. S \subseteq 0 .. 3
    BY DEF OneSize
  <2> QED
    BY <2>1, <2>2, FS_Subset
<1>5. PICK c : S = {c}
  <2>1. Cardinality(S) = 1
    BY DEF OneSize
  <2> QED
    BY <1>4, <2>1, FS_Singleton
<1>6. /\ args[1].kind \in {"reg", "mem"} /\ args[2].kind \in {"reg", "mem", "imm"}
      /\ ~(args[1].kind = "mem" /\ args[2].kind = "mem")
      /\ args[2].kind = "imm" => (args[2].val.float => S \subseteq 2 .. 3)
  BY DEF OneSize
<1> DEFINE x == args[1]
           y == args[2]
<1>7. /\ x.kind = "reg" \/ x.kind = "mem"
      /\ y.kind = "reg" \/ y.kind = "mem" \/ y.kind = "imm"
      /\ ~(x.kind = "mem" /\ y.kind = "mem")
      /\ (x.kind = "reg" \/ (x.kind = "mem" /\ x.sized)) => x.size \in S
      /\ (y.kind = "reg" \/ (y.kind \in {"mem", "imm"} /\ y.sized)) => y.size \in S
      /\ x.kind = "reg" \/ y.kind = "reg" \/ x.sized \/ y.sized
  BY <1>2, <1>3, <1>5, <1>6
<1>8. c \in S /\ c \in 0 .. 3 /\ S = {c}
  BY <1>4, <1>5
<1>9. y.kind = "imm" => (y.val.float => c \in 2 .. 3)
  BY <1>6, <1>8
<1> HIDE DEF S, x, y
<1>10. SizedAs(x, y, c)
  BY ONLY <1>7, <1>8, <1>9 DEF SizedAs
<1> QED
  BY <1>10 DEF x, y

(* Two operands of one size, of which at most one is in memory, are code.  *)
LEMMA BinaryFits ==
  ASSUME NEW route, route.mask = AnySize, route.imm = Follows,
         NEW x, NEW y, NEW c, SizedAs(x, y, c), NEW p, NEW q, AsSeen(x, p), AsSeen(y, q)
  PROVE  AllFit(BinaryOp(route, p, q))
<1>1. Allowed(c, route.mask) /\ c \in 0 .. 3
  BY AnySizeAllowed DEF SizedAs
<1>2. /\ p.kind = x.kind /\ q.kind = y.kind /\ p.size = x.size /\ q.size = y.size
      /\ x.kind = "mem" => p.sized = x.sized /\ AllFit(Address(p))
      /\ y.kind = "mem" => q.sized = y.sized /\ AllFit(Address(q))
      /\ y.kind # "mem" => q = y
  BY DEF AsSeen, Addressed, SizedAs
<1>3. route.imm # Forbidden /\ \A s : ImmSize(route, s) = s
  BY DEF Follows, Forbidden, ImmSize
<1>4. y.kind = "imm" => AllFit(ExprPiece(Bytes(c), q.val))
  <2> SUFFICES ASSUME y.kind = "imm" PROVE AllFit(ExprPiece(Bytes(c), q.val))
    OBVIOUS
  <2>1. q.val.float => c = 2 \/ c = 3
    BY <1>2 DEF SizedAs
  <2>2. q.val.float => Bytes(c) \in {4, 8}
    BY <2>1, Widths
  <2> QED
    BY <2>2, ExprFits
<1>5. CASE x.kind = "reg" /\ y.kind = "reg"
  <2>1. p.size = c /\ q.size = c
    BY <1>2, <1>5 DEF SizedAs
  <2>2. BinaryOp(route, p, q) = RegReg(route, p, q)
    BY <1>2, <1>5 DEF BinaryOp
  <2> QED
    BY <1>1, <2>1, <2>2, HeadFits DEF RegReg
<1>6. CASE x.kind = "reg" /\ y.kind = "imm"
  <2>1. p.size = c /\ Agrees(q, c)
    BY <1>2, <1>6 DEF SizedAs, Agrees
  <2>2. BinaryOp(route, p, q) = RegImm(route, p, q)
    BY <1>2, <1>6 DEF BinaryOp
  <2>3. RegImm(route, p, q) = BinaryHead(route, p.id, p.size, p.high, 0, 1, 0) \o ExprPiece(Bytes(c), q.val)
    BY <1>1, <1>3, <2>1 DEF RegImm
  <2> QED
    BY <1>4, <1>6, <2>2, <2>3, HeadFits, BothFit
<1>7. CASE x.kind = "reg" /\ y.kind = "mem"
  <2>1. p.size = c /\ Agrees(q, c)
    BY <1>2, <1>7 DEF SizedAs, Agrees
  <2>2. BinaryOp(route, p, q) = RegMem(route, p, q)
    BY <1>2, <1>7 DEF BinaryOp
  <2>3. RegMem(route, p, q) = BinaryHead(route, p.id, p.size, p.high, 0, 2, 0) \o Address(q)
    BY <1>1, <2>1 DEF RegMem
  <2> QED
    BY <1>2, <1>7, <2>2, <2>3, HeadFits, BothFit
<1>8. CASE x.kind = "mem" /\ y.kind = "reg"
  <2>1. q.size = c /\ Agrees(p, c)
    BY <1>2, <1>8 DEF SizedAs, Agrees
  <2>2. BinaryOp(route, p, q) = MemReg(route, p, q)
    BY <1>2, <1>8 DEF BinaryOp
  <2>3. MemReg(route, p, q) = BinaryHead(route, 0, q.size, 0, q.high, 3, q.id) \o Address(p)
    BY <1>1, <2>1 DEF MemReg
  <2> QED
    BY <1>2, <1>8, <2>2, <2>3, HeadFits, BothFit
<1>9. CASE x.kind = "mem" /\ y.kind = "imm"
  <2> DEFINE size == IF route.imm = Follows /\ ~p.sized THEN q.size ELSE p.size
  <2>1. size = c /\ (p.sized \/ q.sized) /\ Agrees(q, c)
    BY <1>2, <1>9 DEF SizedAs, Agrees
  <2>2. BinaryOp(route, p, q) = MemImm(route, p, q)
    BY <1>2, <1>9 DEF BinaryOp
  <2>3. MemImm(route, p, q) =
          (BinaryHead(route, 0, c, 0, 0, 4, 0) \o Address(p)) \o ExprPiece(Bytes(c), q.val)
    <3>1. MemImm(route, p, q) =
            IF /\ route.imm # Forbidden
               /\ route.imm = Follows => (p.sized \/ q.sized) /\ Agrees(q, size)
               /\ Allowed(size, route.mask)
            THEN (BinaryHead(route, 0, size, 0, 0, 4, 0) \o Address(p))
                   \o ExprPiece(Bytes(ImmSize(route, size)), q.val)
            ELSE Rejected
      BY DEF MemImm
    <3> HIDE DEF size
    <3> QED
      BY <1>1, <1>3, <2>1, <3>1
  <2>4. AllFit(BinaryHead(route, 0, c, 0, 0, 4, 0) \o Address(p))
    BY <1>2, <1>9, HeadFits, BothFit
  <2> QED
    BY <1>4, <1>9, <2>2, <2>3, <2>4, BothFit
<1> QED
  BY <1>5, <1>6, <1>7, <1>8, <1>9 DEF SizedAs

LEMMA UnaryFits ==
  ASSUME NEW route, route.mask = AnySize, NEW x, NEW p, AsSeen(x, p),
         x.kind \in {"reg", "mem"}, x.kind = "mem" => x.sized, x.size \in 0 .. 3
  PROVE  AllFit(UnaryOp(route, p))
<1>1. /\ p.kind = x.kind /\ p.size = x.size /\ p.kind \in {"reg", "mem"} /\ (p.kind = "mem" => p.sized)
      /\ p.kind = "mem" => AllFit(Address(p))
  BY DEF AsSeen, Addressed
<1>2. Allowed(p.size, route.mask)
  BY <1>1, AnySizeAllowed
<1> DEFINE rest == IF p.kind = "reg" THEN Settings(p.id, p.size, p.high, 0)
                   ELSE Settings(0, p.size, 0, 1) \o Address(p)
<1>3. AllFit(rest)
  <2>1. CASE p.kind = "reg"
    BY <2>1, SettingsFit
  <2>2. CASE p.kind = "mem"
    BY <1>1, <2>2, SettingsFit, BothFit
  <2> QED
    BY <1>1, <2>1, <2>2
<1>4. UnaryOp(route, p) = Opcode(route) \o rest
  BY <1>1, <1>2 DEF UnaryOp
<1> HIDE DEF rest
<1> QED
  BY <1>3, <1>4, OpcodeFits, BothFit

LEMMA LEAFits ==
  ASSUME NEW route, NEW x, NEW y, x.kind = "reg", x.size # 0, y.kind = "mem",
         NEW p, NEW q, AsSeen(x, p), AsSeen(y, q)
  PROVE  AllFit(LEA(route, p, q))
<1>1. p = x /\ q.kind = "mem" /\ AllFit(Address(q))
  BY DEF AsSeen, Addressed
<1>2. LEA(route, p, q) = (Opcode(route) \o Settings(p.id, p.size, 0, 0)) \o Address(q)
  BY <1>1 DEF LEA
<1>3. AllFit(Opcode(route) \o Settings(p.id, p.size, 0, 0))
  BY OpcodeFits, SettingsFit, BothFit
<1> QED
  BY <1>1, <1>2, <1>3, BothFit

\* The code of a row is what its handler writes, after a FWAIT if it waits.
LEMMA CodedFits ==
  ASSUME NEW routed, NEW m, m.expr = <<>>, Len(routed.args) \in Arity(routed.row.form),
         AllFit(Handled(routed.row, m, routed.args))
  PROVE  AllFit(Coded(routed, m))
<1> DEFINE wait == IF routed.row.wait THEN Byte(Op("FWAIT")) ELSE <<>>
<1>1. AllFit(wait)
  BY NothingFits, ByteFits
<1>2. Coded(routed, m) = wait \o Handled(routed.row, m, routed.args)
  BY DEF Coded
<1> HIDE DEF wait
<1> QED
  BY <1>1, <1>2, BothFit

(* Every piece of the code of a well-formed line fits.                     *)
LEMMA CodeFits ==
  ASSUME NEW name, NEW m, NEW args, IsArgs(args), WellFormed(name, m, args),
         NEW order \in SetToSeqs(Registers(args))
  PROVE  AllFit(CodeOf(name, m, Parsed(args, order)))
<1> DEFINE row == asm_routing_table[name]
           seen == Parsed(args, order)
           x == args[1]
           y == args[2]
<1>1. /\ m.expr = <<>> /\ AllEncodable(args)
      /\ \/ row.form = "LEA" /\ Len(args) = 2 /\ x.kind = "reg" /\ x.size # 0 /\ y.kind = "mem"
         \/ /\ row.form \in {"BinaryOp", "CMP"} /\ row.mask = AnySize /\ row.imm = Follows
            /\ OneSize(args) /\ ~(row.form = "CMP" /\ ForgetsSize(args))
  BY DEF WellFormed, AllEncodable
<1>2. Len(args) = 2
  BY <1>1 DEF OneSize
<1>3. Len(seen) = 2 /\ WellParsed(seen) /\ AsSeen(x, seen[1]) /\ AsSeen(y, seen[2])
  BY <1>1, <1>2, ParsedArguments
<1>4. CodeOf(name, m, seen) = Coded(Routed(row, seen), m)
  BY <1>3 DEF CodeOf
<1>5. OneSize(args) => \E c : SizedAs(x, y, c)
  BY BinarySized
<1>6. InstantZero(seen[2]) => InstantZero(y)
  BY <1>3 DEF AsSeen, InstantZero, Addressed
<1>7. ForgetsSize(args) <=> (x.kind = "mem" /\ ~x.sized /\ InstantZero(y))
  BY DEF ForgetsSize, Unsized
<1> HIDE DEF row, seen, x, y
<1>8. ASSUME row.form = "LEA"
     PROVE  AllFit(CodeOf(name, m, seen))
  <2> DEFINE r == [row |-> row, args |-> seen]
  <2>1. Routed(row, seen) = r /\ r.row = row /\ r.args = seen
    BY <1>8 DEF Routed
  <2> HIDE DEF r
  <2>2. Handled(row, m, seen) = LEA(row, seen[1], seen[2])
    BY <1>8 DEF Handled
  <2>3. AllFit(Handled(row, m, seen))
    BY <1>1, <1>3, <1>8, <2>2, LEAFits
  <2>4. Len(seen) \in Arity(row.form)
    BY <1>3, <1>8 DEF Arity
  <2> QED
    BY <1>1, <1>4, <2>1, <2>3, <2>4, CodedFits
<1>9. ASSUME row.form = "BinaryOp"
     PROVE  AllFit(CodeOf(name, m, seen))
  <2> DEFINE r == [row |-> row, args |-> seen]
  <2>1. Routed(row, seen) = r /\ r.row = row /\ r.args = seen
    BY <1>9 DEF Routed
  <2> HIDE DEF r
  <2>2. Handled(row, m, seen) = BinaryOp(row, seen[1], seen[2])
    <3>1. row.imm # Forbidden
      BY <1>1, <1>9 DEF Follows, Forbidden
    <3> QED
      BY <1>9, <3>1 DEF Handled
  <2>3. AllFit(Handled(row, m, seen))
    BY <1>1, <1>3, <1>5, <1>9, <2>2, BinaryFits
  <2>4. Len(seen) \in Arity(row.form)
    BY <1>3, <1>9 DEF Arity
  <2> QED
    BY <1>1, <1>4, <2>1, <2>3, <2>4, CodedFits
<1>10. ASSUME row.form = "CMP" /\ ~InstantZero(seen[2])
     PROVE  AllFit(CodeOf(name, m, seen))
  <2> DEFINE cmp == Row("BinaryOp", "CMP")
  <2>0. cmp.form = "BinaryOp" /\ cmp.mask = AnySize /\ cmp.imm = Follows
    BY DEF Row
  <2> HIDE DEF cmp
  <2> DEFINE r == [row |-> cmp, args |-> seen]
  <2>1. Routed(row, seen) = r /\ r.row = cmp /\ r.args = seen
    BY <1>3, <1>10 DEF Routed, cmp
  <2> HIDE DEF r
  <2>2. Handled(cmp, m, seen) = BinaryOp(cmp, seen[1], seen[2])
    <3>1. cmp.imm # Forbidden
      BY <2>0 DEF Follows, Forbidden
    <3> QED
      BY <2>0, <3>1 DEF Handled
  <2>3. AllFit(Handled(cmp, m, seen))
    BY <1>1, <1>3, <1>5, <1>10, <2>0, <2>2, BinaryFits
  <2>4. Len(seen) \in Arity(cmp.form)
    BY <1>3, <2>0 DEF Arity
  <2> QED
    BY <1>1, <1>4, <2>1, <2>3, <2>4, CodedFits
<1>11. ASSUME row.form = "CMP" /\ InstantZero(seen[2])
     PROVE  AllFit(CodeOf(name, m, seen))
  <2> DEFINE cmpz == Row("UnaryOp", "CMPZ")
             one == <<seen[1]>>
  <2>0. cmpz.form = "UnaryOp" /\ cmpz.mask = AnySize /\ one[1] = seen[1] /\ Len(one) = 1
    BY DEF Row
  <2> HIDE DEF cmpz, one
  <2> DEFINE r == [row |-> cmpz, args |-> one]
  <2>1. Routed(row, seen) = r /\ r.row = cmpz /\ r.args = one
    BY <1>3, <1>11 DEF Routed, cmpz, one
  <2> HIDE DEF r
  <2>2. Handled(cmpz, m, one) = UnaryOp(cmpz, seen[1])
    BY <2>0 DEF Handled
  <2>3. x.kind \in {"reg", "mem"} /\ (x.kind = "mem" => x.sized) /\ x.size \in 0 .. 3
    BY <1>1, <1>5, <1>6, <1>7, <1>11 DEF SizedAs
  <2>4. AllFit(Handled(cmpz, m, one))
    BY <1>3, <2>0, <2>2, <2>3, UnaryFits
  <2>5. Len(one) \in Arity(cmpz.form)
    BY <2>0 DEF Arity
  <2> QED
    BY <1>1, <1>4, <2>1, <2>4, <2>5, CodedFits
<1>12. row.form = "LEA" \/ row.form = "BinaryOp" \/ row.form = "CMP"
  BY <1>1
<1> QED
  BY <1>8, <1>9, <1>10, <1>11, <1>12 DEF seen

-----------------------------------------------------------------------------
(* The laying out of the code, piece by piece                              *)

IsLaying(it, first, pieces, m) ==
  it = [S \in SUBSET (1 .. m) |->
          IF S = {} THEN first ELSE Append1(it[S \ {Max(S)}], pieces[Max(S)])]
Blank(t) == [text |-> t, holes |-> <<>>, ok |-> TRUE]

LEMMA LaidFold ==
  ASSUME NEW t, NEW n \in Nat, NEW pieces, DOMAIN pieces = 1 .. n
  PROVE  Laid(t, pieces) = (CHOOSE it : IsLaying(it, Blank(t), pieces, n))[1 .. n]
BY DEF Laid, FoldLeft, MapThenFoldSet, IsLaying, Blank

LEMMA LayingExists ==
  ASSUME NEW first, NEW pieces, NEW n \in Nat
  PROVE  \E it : IsLaying(it, first, pieces, n)
<1> DEFINE T == {m \in Nat : \E it : IsLaying(it, first, pieces, m)}
<1>1. 0 \in T
  <2> DEFINE it == [S \in {{}} |-> first]
  <2>1. SUBSET (1 .. 0) = {{}}
    OBVIOUS
  <2>2. IsLaying(it, first, pieces, 0)
    BY <2>1 DEF IsLaying
  <2> QED
    BY <2>2
<1>2. ASSUME NEW m \in Nat, m \in T PROVE m + 1 \in T
  <2> DEFINE k == m + 1
  <2>1. k \in Nat /\ 1 .. k = (1 .. m) \cup {k} /\ k \notin 1 .. m
    OBVIOUS
  <2>2. PICK old : IsLaying(old, first, pieces, m)
    BY <1>2
  <2> DEFINE it == [S \in SUBSET (1 .. k) |->
                      IF k \in S THEN Append1(old[S \ {k}], pieces[k]) ELSE old[S]]
             full == [S \in SUBSET (1 .. k) |->
                        IF S = {} THEN first ELSE Append1(it[S \ {Max(S)}], pieces[Max(S)])]
  <2> HIDE DEF k
  <2>3. ASSUME NEW S \in SUBSET (1 .. k) PROVE it[S] = full[S]
    <3>1. CASE k \in S
      <4>1. Max(S) = k /\ S # {}
        BY <2>1, <3>1, MaxIn
      <4>2. S \ {k} \in SUBSET (1 .. k) /\ k \notin S \ {k}
        OBVIOUS
      <4>3. it[S \ {k}] = old[S \ {k}]
        BY <4>2
      <4> QED
        BY <3>1, <4>1, <4>3
    <3>2. CASE k \notin S
      <4>1. S \in SUBSET (1 .. m)
        BY <2>1, <3>2
      <4>2. it[S] = old[S]
        BY <3>2
      <4>3. CASE S = {}
        BY <4>1, <4>2, <4>3, <2>2 DEF IsLaying
      <4>4. CASE S # {}
        <5> DEFINE r == S \ {Max(S)}
        <5>1. old[S] = Append1(old[r], pieces[Max(S)])
          BY <4>1, <4>4, <2>2 DEF IsLaying
        <5>2. r \in SUBSET (1 .. k) /\ k \notin r
          BY <3>2
        <5>3. it[r] = old[r]
          BY <5>2
        <5> QED
          BY <4>2, <4>4, <5>1, <5>3
      <4> QED
        BY <4>3, <4>4
    <3> QED
      BY <3>1, <3>2
  <2>4. it = full
    BY <2>3
  <2>5. IsLaying(it, first, pieces, k)
    BY <2>4 DEF IsLaying
  <2> QED
    BY <2>1, <2>5 DEF k
<1> HIDE DEF T
<1>3. Nat \subseteq T
  BY <1>1, <1>2, Induct
<1> QED
  BY <1>3 DEF T

(* The code after the first k pieces.                                      *)
LEMMA LaidSteps ==
  ASSUME NEW t, NEW n \in Nat, NEW pieces, DOMAIN pieces = 1 .. n
  PROVE  \E s : /\ s[0] = Blank(t)
                /\ \A k \in 1 .. n : s[k] = Append1(s[k - 1], pieces[k])
                /\ s[n] = Laid(t, pieces)
<1> DEFINE it == CHOOSE it : IsLaying(it, Blank(t), pieces, n)
<1>1. IsLaying(it, Blank(t), pieces, n)
  BY LayingExists
<1>2. Laid(t, pieces) = it[1 .. n]
  BY LaidFold
<1> HIDE DEF it
<1> DEFINE s == [k \in 0 .. n |-> it[1 .. k]]
<1>3. s[0] = Blank(t)
  <2>1. 1 .. 0 = {} /\ 1 .. 0 \in SUBSET (1 .. n)
    OBVIOUS
  <2>2. it[1 .. 0] = Blank(t)
    BY <2>1, <1>1 DEF IsLaying
  <2> QED
    BY <2>2
<1>4. ASSUME NEW k \in 1 .. n
      PROVE  s[k] = Append1(s[k - 1], pieces[k])
  <2>1. 1 .. k \in SUBSET (1 .. k) /\ 1 .. k \in SUBSET (1 .. n) /\ k \in 1 .. k /\ k \in Nat
    OBVIOUS
  <2>2. Max(1 .. k) = k /\ 1 .. k # {}
    BY <2>1, MaxIn
  <2>3. (1 .. k) \ {k} = 1 .. (k - 1)
    OBVIOUS
  <2>4. it[1 .. k] = Append1(it[1 .. (k - 1)], pieces[k])
    BY <2>1, <2>2, <2>3, <1>1 DEF IsLaying
  <2> QED
    BY <2>4
<1>5. s[n] = Laid(t, pieces)
  BY <1>2
<1> QED
  BY <1>3, <1>4, <1>5

\* Code without an error so far, whose holes can all be filled.
Patchable(hs) == \E S : hs \in Seq(S) /\ \A h \in S : ~Unpatchable(h)
Accepted(code) ==
  /\ code = [text |-> code.text, holes |-> code.holes, ok |-> code.ok]
  /\ code.ok = TRUE /\ Patchable(code.holes)

LEMMA BlankAccepted ==
  ASSUME NEW t
  PROVE  Accepted(Blank(t))
<1> DEFINE S == {}
<1>1. <<>> \in Seq(S) /\ \A h \in S : ~Unpatchable(h)
  OBVIOUS
<1> HIDE DEF S
<1>2. Patchable(<<>>)
  BY <1>1 DEF Patchable
<1> QED
  BY <1>2 DEF Accepted, Blank

LEMMA MorePatchable ==
  ASSUME NEW hs, Patchable(hs), NEW h, ~Unpatchable(h)
  PROVE  Patchable(Append(hs, h)) /\ Patchable(<<h>> \o hs)
<1>1. PICK S : hs \in Seq(S) /\ \A g \in S : ~Unpatchable(g)
  BY DEF Patchable
<1> DEFINE T == S \cup {h}
<1>2. Append(hs, h) \in Seq(T) /\ <<h>> \o hs \in Seq(T) /\ \A g \in T : ~Unpatchable(g)
  <2>1. hs \in Seq(T) /\ <<h>> \in Seq(T)
    BY <1>1
  <2> QED
    BY <1>1, <2>1
<1> HIDE DEF T
<1> QED
  BY <1>2 DEF Patchable

LEMMA Append1Accepted ==
  ASSUME NEW code, Accepted(code), NEW p, Fits(p)
  PROVE  Accepted(Append1(code, p))
<1> DEFINE hole == Hole(Len(code.text) + 1, p.size, p.val)
           t == code.text \o [k \in 1 .. p.size |-> 255]
           next == Append1(code, p)
<1>1. p.kind = "expr" => ~Unpatchable(hole)
  BY DEF Fits, Unpatchable, Hole
<1>2. /\ code = [text |-> code.text, holes |-> code.holes, ok |-> code.ok]
      /\ code.ok = TRUE /\ Patchable(code.holes)
  BY DEF Accepted
<1>3. CASE p.kind = "byte"
  <2>1. next = [code EXCEPT !.text = Append(@, p.val)]
    BY <1>3 DEF Append1
  <2>2. next = [text |-> Append(code.text, p.val), holes |-> code.holes, ok |-> code.ok]
    BY <1>2, <2>1
  <2> HIDE DEF next
  <2>3. Accepted(next)
    BY <1>2, <2>2 DEF Accepted
  <2> QED
    BY <2>3 DEF next
<1>4. CASE p.kind = "expr" /\ ~Evaluates(hole, "now")
  <2>1. next = [code EXCEPT !.text = t, !.holes = Append(@, hole)]
    BY <1>4 DEF Append1
  <2>2. next = [text |-> t, holes |-> Append(code.holes, hole), ok |-> code.ok]
    BY <1>2, <2>1
  <2> HIDE DEF next, hole, t
  <2>3. Patchable(Append(code.holes, hole))
    BY <1>1, <1>2, <1>4, MorePatchable
  <2>4. Accepted(next)
    BY <1>2, <2>2, <2>3 DEF Accepted
  <2> QED
    BY <2>4 DEF next
<1>5. CASE p.kind = "expr" /\ Evaluates(hole, "now")
  <2>1. next = [code EXCEPT !.text = IF Unpatchable(hole) THEN t ELSE Patched(t, hole),
                            !.ok = @ /\ ~Unpatchable(hole)]
    BY <1>5 DEF Append1
  <2>2. next = [text |-> Patched(t, hole), holes |-> code.holes, ok |-> TRUE]
    <3> HIDE DEF next, hole, t
    <3> QED
      BY <1>1, <1>2, <1>5, <2>1
  <2> HIDE DEF next, hole, t
  <2>3. Accepted(next)
    BY <1>2, <2>2 DEF Accepted
  <2> QED
    BY <2>3 DEF next
<1> QED
  BY <1>3, <1>4, <1>5 DEF Fits

(* Pieces that fit are laid out without an error.                          *)
LEMMA LaidAccepted ==
  ASSUME NEW t, NEW pieces, AllFit(pieces)
  PROVE  Accepted(Laid(t, pieces))
<1>1. PICK S : pieces \in Seq(S) /\ \A p \in S : Fits(p)
  BY DEF AllFit
<1> DEFINE n == Len(pieces)
<1>2. n \in Nat /\ DOMAIN pieces = 1 .. n /\ \A k \in 1 .. n : Fits(pieces[k])
  BY <1>1
<1> HIDE DEF n
<1>3. PICK s : /\ s[0] = Blank(t)
               /\ \A k \in 1 .. n : s[k] = Append1(s[k - 1], pieces[k])
               /\ s[n] = Laid(t, pieces)
  BY <1>2, LaidSteps
<1> DEFINE T == {k \in Nat : Accepted(s[k])}
<1>4. 0 \in T
  BY <1>3, BlankAccepted
<1>5. ASSUME NEW k \in 0 .. (n - 1), k \in T PROVE k + 1 \in T
  <2> DEFINE j == k + 1
  <2>1. j \in 1 .. n /\ j - 1 = k /\ j \in Nat
    BY <1>2
  <2> HIDE DEF j
  <2>2. s[j] = Append1(s[k], pieces[j])
    BY <1>3, <2>1
  <2>3. Accepted(s[j])
    BY <1>2, <1>5, <2>1, <2>2, Append1Accepted
  <2> QED
    BY <2>1, <2>3 DEF j
<1> HIDE DEF T
<1>6. n \in T
  <2>1. 0 .. n \subseteq T
    BY <1>2, <1>4, <1>5, InductTo
  <2> QED
    BY <1>2, <2>1
<1> QED
  BY <1>3, <1>6 DEF T

-----------------------------------------------------------------------------
(* The filling of the holes, from the last to the first                    *)

IsFilling(it, at, hs, first, m, n) ==
  it = [S \in SUBSET (m .. n) |->
          IF S = {} THEN first ELSE Fill1(at, hs[Min(S)], it[S \ {Min(S)}])]

LEMMA FilledFold ==
  ASSUME NEW at, NEW n \in Nat, DOMAIN holes = 1 .. n
  PROVE  Filled(at) = (CHOOSE it : IsFilling(it, at, holes, Blank(text), 1, n))[1 .. n]
BY DEF Filled, FoldRight, MapThenFoldSet, IsFilling, Blank

LEMMA MinIn ==
  ASSUME NEW n \in Nat, NEW m \in 1 .. (n + 1), NEW S \in SUBSET (m .. n), S # {}
  PROVE  Min(S) \in S /\ Min(S) \in m .. n /\ (m \in S => Min(S) = m)
<1>1. S \subseteq Nat
  OBVIOUS
<1>2. Min(S) \in S /\ \A y \in S : Min(S) <= y
  BY <1>1, MinOf
<1> DEFINE x == Min(S)
<1>3. x \in S /\ \A y \in S : x <= y
  BY <1>2
<1> HIDE DEF x
<1>4. x \in S /\ x \in m .. n /\ (m \in S => x = m)
  BY <1>3
<1> QED
  BY <1>4 DEF x

LEMMA FillingExists ==
  ASSUME NEW at, NEW hs, NEW first, NEW n \in Nat
  PROVE  \E it : IsFilling(it, at, hs, first, 1, n)
<1> DEFINE T == {j \in Nat : \E it : IsFilling(it, at, hs, first, n + 1 - j, n)}
<1>1. 0 \in T
  <2> DEFINE it == [S \in {{}} |-> first]
  <2>1. SUBSET ((n + 1 - 0) .. n) = {{}}
    OBVIOUS
  <2>2. IsFilling(it, at, hs, first, n + 1 - 0, n)
    BY <2>1 DEF IsFilling
  <2> QED
    BY <2>2
<1>2. ASSUME NEW j \in 0 .. (n - 1), j \in T PROVE j + 1 \in T
  <2> DEFINE m == n + 1 - j
             k == n + 1 - (j + 1)
  <2>1. k \in 1 .. (n + 1) /\ m \in 1 .. (n + 1) /\ k .. n = (m .. n) \cup {k} /\ k \notin m .. n
    OBVIOUS
  <2>2. PICK old : IsFilling(old, at, hs, first, m, n)
    BY <1>2
  <2> HIDE DEF k, m
  <2> DEFINE it == [S \in SUBSET (k .. n) |->
                      IF k \in S THEN Fill1(at, hs[k], old[S \ {k}]) ELSE old[S]]
             full == [S \in SUBSET (k .. n) |->
                        IF S = {} THEN first ELSE Fill1(at, hs[Min(S)], it[S \ {Min(S)}])]
  <2>3. ASSUME NEW S \in SUBSET (k .. n) PROVE it[S] = full[S]
    <3>1. CASE k \in S
      <4>1. Min(S) = k /\ S # {}
        BY <2>1, <3>1, MinIn
      <4>2. S \ {k} \in SUBSET (k .. n) /\ k \notin S \ {k}
        OBVIOUS
      <4>3. it[S \ {k}] = old[S \ {k}]
        BY <4>2
      <4> QED
        BY <3>1, <4>1, <4>3
    <3>2. CASE k \notin S
      <4>1. S \in SUBSET (m .. n)
        BY <2>1, <3>2
      <4>2. it[S] = old[S]
        BY <3>2
      <4>3. CASE S = {}
        BY <4>1, <4>2, <4>3, <2>2 DEF IsFilling
      <4>4. CASE S # {}
        <5> DEFINE r == S \ {Min(S)}
        <5>1. old[S] = Fill1(at, hs[Min(S)], old[r])
          BY <4>1, <4>4, <2>2 DEF IsFilling
        <5>2. r \in SUBSET (k .. n) /\ k \notin r
          BY <3>2
        <5>3. it[r] = old[r]
          BY <5>2
        <5> QED
          BY <4>2, <4>4, <5>1, <5>3
      <4> QED
        BY <4>3, <4>4
    <3> QED
      BY <3>1, <3>2
  <2>4. it = full
    BY <2>3
  <2>5. IsFilling(it, at, hs, first, k, n)
    BY <2>4 DEF IsFilling
  <2> QED
    BY <2>5 DEF k
<1> HIDE DEF T
<1>3. n \in T
  <2>1. 0 .. n \subseteq T
    BY <1>1, <1>2, InductTo
  <2> QED
    BY <2>1
<1>4. n + 1 - n = 1
  OBVIOUS
<1> QED
  BY <1>3, <1>4 DEF T

(* What is left after the holes from the k-th on.                          *)
LEMMA FilledSteps ==
  ASSUME NEW at, NEW n \in Nat, DOMAIN holes = 1 .. n
  PROVE  \E s : /\ s[n + 1] = Blank(text)
                /\ \A k \in 1 .. n : s[k] = Fill1(at, holes[k], s[k + 1])
                /\ s[1] = Filled(at)
<1> DEFINE it == CHOOSE it : IsFilling(it, at, holes, Blank(text), 1, n)
<1>1. IsFilling(it, at, holes, Blank(text), 1, n)
  BY FillingExists
<1>2. Filled(at) = it[1 .. n]
  BY FilledFold
<1> HIDE DEF it
<1> DEFINE s == [k \in 1 .. (n + 1) |-> it[k .. n]]
<1>3. s[n + 1] = Blank(text)
  <2>1. (n + 1) .. n = {} /\ (n + 1) .. n \in SUBSET (1 .. n)
    OBVIOUS
  <2>2. it[(n + 1) .. n] = Blank(text)
    BY <2>1, <1>1 DEF IsFilling
  <2> QED
    BY <2>2
<1>4. ASSUME NEW k \in 1 .. n
      PROVE  s[k] = Fill1(at, holes[k], s[k + 1])
  <2>1. k .. n \in SUBSET (k .. n) /\ k .. n \in SUBSET (1 .. n) /\ k \in k .. n /\ k \in 1 .. (n + 1)
    OBVIOUS
  <2>2. Min(k .. n) = k /\ k .. n # {}
    BY <2>1, MinIn
  <2>3. (k .. n) \ {k} = (k + 1) .. n
    OBVIOUS
  <2>4. it[k .. n] = Fill1(at, holes[k], it[(k + 1) .. n])
    BY <2>1, <2>2, <2>3, <1>1 DEF IsFilling
  <2> QED
    BY <2>4
<1>5. s[1] = Filled(at)
  BY <1>2
<1> QED
  BY <1>3, <1>4, <1>5

LEMMA Fill1Accepted ==
  ASSUME NEW at, NEW code, Accepted(code), NEW h, ~Unpatchable(h)
  PROVE  Accepted(Fill1(at, h, code))
<1> DEFINE next == Fill1(at, h, code)
<1>1. /\ code = [text |-> code.text, holes |-> code.holes, ok |-> code.ok]
      /\ code.ok = TRUE /\ Patchable(code.holes)
  BY DEF Accepted
<1>2. CASE ~Evaluates(h, at)
  <2>1. next = [code EXCEPT !.holes = <<h>> \o @]
    BY <1>2 DEF Fill1
  <2>2. next = [text |-> code.text, holes |-> <<h>> \o code.holes, ok |-> code.ok]
    BY <1>1, <2>1
  <2> HIDE DEF next
  <2>3. Accepted(next)
    BY <1>1, <2>2, MorePatchable DEF Accepted
  <2> QED
    BY <2>3 DEF next
<1>3. CASE Evaluates(h, at)
  <2>1. next = [code EXCEPT !.ok = @ /\ ~Unpatchable(h),
                            !.text = IF Unpatchable(h) THEN @ ELSE Patched(@, h)]
    BY <1>3 DEF Fill1
  <2>2. next = [text |-> Patched(code.text, h), holes |-> code.holes, ok |-> TRUE]
    <3> HIDE DEF next
    <3> QED
      BY <1>1, <2>1
  <2> HIDE DEF next
  <2>3. Accepted(next)
    BY <1>1, <2>2 DEF Accepted
  <2> QED
    BY <2>3 DEF next
<1> QED
  BY <1>2, <1>3

(* Holes that can all be filled are, or wait, without an error.            *)
LEMMA FilledAccepted ==
  ASSUME NEW at, Patchable(holes)
  PROVE  Accepted(Filled(at))
<1>1. PICK S : holes \in Seq(S) /\ \A h \in S : ~Unpatchable(h)
  BY DEF Patchable
<1> DEFINE n == Len(holes)
<1>2. n \in Nat /\ DOMAIN holes = 1 .. n /\ \A k \in 1 .. n : ~Unpatchable(holes[k])
  BY <1>1
<1> HIDE DEF n
<1>3. PICK s : /\ s[n + 1] = Blank(text)
               /\ \A k \in 1 .. n : s[k] = Fill1(at, holes[k], s[k + 1])
               /\ s[1] = Filled(at)
  BY <1>2, FilledSteps
<1> DEFINE T == {j \in Nat : Accepted(s[n + 1 - j])}
<1>4. 0 \in T
  <2>1. n + 1 - 0 = n + 1
    BY <1>2
  <2> QED
    BY <1>3, <2>1, BlankAccepted
<1>5. ASSUME NEW j \in 0 .. (n - 1), j \in T PROVE j + 1 \in T
  <2> DEFINE k == n + 1 - (j + 1)
  <2>1. k \in 1 .. n /\ k + 1 = n + 1 - j
    BY <1>2
  <2> HIDE DEF k
  <2>2. s[k] = Fill1(at, holes[k], s[k + 1]) /\ Accepted(s[k + 1])
    BY <1>3, <1>5, <2>1
  <2>3. Accepted(s[k])
    BY <1>2, <2>1, <2>2, Fill1Accepted
  <2> QED
    BY <2>3 DEF k
<1>6. n \in T
  <2> HIDE DEF T
  <2>1. 0 .. n \subseteq T
    BY <1>2, <1>4, <1>5, InductTo
  <2> QED
    BY <1>2, <2>1
<1>7. n + 1 - n = 1
  BY <1>2
<1> QED
  BY <1>3, <1>6, <1>7 DEF T

-----------------------------------------------------------------------------
(* The invariant: what is left of a well-formed line can still be filled   *)
Accepting ==
  /\ line \in Lines
  /\ WellFormed(line.name, line.mask, line.args) => stage # "rejected" /\ Patchable(holes)

LEMMA AcceptingInit == Init => Accepting
<1> SUFFICES ASSUME Init PROVE Accepting
  OBVIOUS
<1>1. line \in Lines /\ stage # "rejected" /\ holes = <<>>
  BY DEF Init
<1>2. Patchable(<<>>)
  BY BlankAccepted DEF Accepted, Blank
<1> QED
  BY <1>1, <1>2 DEF Accepting

LEMMA AcceptingNext == Accepting /\ [Next]_vars => Accepting'
<1> SUFFICES ASSUME Accepting, [Next]_vars PROVE Accepting'
  OBVIOUS
<1> USE DEF Accepting
<1>1. CASE Assemble
  <2>1. line' = line
    BY <1>1 DEF Assemble
  <2>2. ASSUME WellFormed(line.name, line.mask, line.args) PROVE stage' # "rejected" /\ Patchable(holes')
    <3>1. IsArgs(line.args)
      BY LinesAssumption DEF IsArgs
    <3>2. PICK order \in SetToSeqs(Registers(line.args)) :
            /\ holes' = Written(order).holes
            /\ stage' = IF Written(order).ok THEN "assembled" ELSE "rejected"
      BY <1>1 DEF Assemble
    <3>3. AllFit(CodeOf(line.name, line.mask, Parsed(line.args, order)))
      BY <2>2, <3>1, CodeFits
    <3>4. Accepted(Written(order))
      BY <3>3, LaidAccepted DEF Written
    <3> QED
      BY <3>2, <3>4 DEF Accepted
  <2> QED
    BY <2>1, <2>2
<1>2. ASSUME NEW at, NEW then, then # "rejected", Fill(at, then) PROVE Accepting'
  <2>1. line' = line
    BY <1>2 DEF Fill
  <2>2. ASSUME WellFormed(line.name, line.mask, line.args) PROVE stage' # "rejected" /\ Patchable(holes')
    <3>1. holes' = Filled(at).holes /\ stage' = IF Filled(at).ok THEN then ELSE "rejected"
      BY <1>2 DEF Fill
    <3>2. Accepted(Filled(at))
      BY <2>2, FilledAccepted
    <3> QED
      BY <1>2, <3>1, <3>2 DEF Accepted
  <2> QED
    BY <2>1, <2>2
<1>3. CASE EndOfFile
  BY <1>2, <1>3 DEF EndOfFile
<1>4. CASE Link
  BY <1>2, <1>4 DEF Link
<1>5. CASE ReadNext
  <2>1. line' = line /\ holes' = holes /\ stage = "linked"
    BY <1>5 DEF ReadNext
  <2>2. stage' # "rejected"
    BY <1>5 DEF ReadNext
  <2> QED
    BY <2>1, <2>2
<1>6. CASE UNCHANGED vars
  BY <1>6 DEF vars
<1> QED
  BY <1>1, <1>3, <1>4, <1>5, <1>6 DEF Next

(* No well-formed line is an error: in whatever order parsing finds the    *)
(* registers of its addresses in the hash map of their names (AsmArgs.cpp, *)
(* TryParseAddress), whether its symbols are known at the line, at the end *)
(* of the file or by the linker only, and whatever their values are.       *)
THEOREM AssemblingAccepts == Spec => []AcceptsWellFormed
<1>1. Init => Accepting
  BY AcceptingInit
<1>2. Accepting /\ [Next]_vars => Accepting'
  BY AcceptingNext
<1>3. Accepting => AcceptsWellFormed
  BY DEF Accepting, AcceptsWellFormed
<1> QED
  BY <1>1, <1>2, <1>3, PTL DEF Spec

-----------------------------------------------------------------------------
(* What is written, for every line: bytes, and expressions of one to eight *)
(* bytes                                                                   *)

Values == [val : Int, float : BOOLEAN, known : Known]
Pieces ==
  [kind : {"byte"}, val : 0 .. 255]
    \cup [kind : {"expr"}, size : 1 .. 8, val : Values]
    \cup [kind : {"rejected"}]
Typed(pieces) == pieces \in Seq(Pieces)

LEMMA NothingTyped == Typed(<<>>)
  BY DEF Typed

LEMMA BothTyped ==
  ASSUME NEW s, NEW t, Typed(s), Typed(t)
  PROVE  Typed(s \o t)
  BY DEF Typed

LEMMA ByteTyped ==
  ASSUME NEW v \in 0 .. 255
  PROVE  Typed(Byte(v))
<1>1. [kind |-> "byte", val |-> v] \in Pieces
  BY DEF Pieces
<1> QED
  BY <1>1 DEF Typed, Byte

LEMMA ExprTyped ==
  ASSUME NEW n \in 1 .. 8, NEW e \in Values
  PROVE  Typed(ExprPiece(n, e))
<1>1. [kind |-> "expr", size |-> n, val |-> e] \in Pieces
  BY DEF Pieces
<1> QED
  BY <1>1 DEF Typed, ExprPiece

LEMMA RejectedTyped == Typed(Rejected)
<1>1. [kind |-> "rejected"] \in Pieces
  BY DEF Pieces
<1> QED
  BY <1>1 DEF Typed, Rejected

LEMMA WidthsOfVectors == Bytes(4) = 16 /\ Bytes(5) = 32 /\ Bytes(6) = 64
  BY DEF Bytes

LEMMA SizedExprTyped ==
  ASSUME NEW size \in 0 .. 3, NEW e \in Values
  PROVE  Typed(ExprPiece(Bytes(size), e))
<1>1. size = 0 \/ size = 1 \/ size = 2 \/ size = 3
  OBVIOUS
<1>2. Bytes(size) \in 1 .. 8
  BY <1>1, Widths
<1> QED
  BY <1>2, ExprTyped

\* x as a handler is given it
IsSeen(x) ==
  /\ x.kind = "reg"  => x.id \in 0 .. 15 /\ x.size \in 0 .. 3 /\ x.high \in 0 .. 1
  /\ x.kind = "st"   => x.id \in 0 .. 7
  /\ x.kind = "vreg" => x.id \in 0 .. 31 /\ x.size \in 4 .. 6 /\ (x.size # 6 => x.id \in 0 .. 15)
  /\ x.kind = "imm"  => x.size \in 0 .. 3 /\ x.val \in Values
  /\ x.kind = "mem"  => /\ x.size \in 0 .. 6 /\ Typed(Address(x))
                        /\ x.addr.b \in 0 .. 255 /\ x.addr.base \in Values

LEMMA OpcodeTyped ==
  ASSUME NEW route \in Rows
  PROVE  Typed(Opcode(route))
<1>1. route.op \in 0 .. 255 /\ (route.ext # <<>> => route.ext[1] \in 0 .. 255)
  <2>1. route.op \in 0 .. 255 /\ route.ext \in {<<>>} \cup {<<n>> : n \in 0 .. 255}
    BY DEF Rows
  <2>2. ASSUME route.ext # <<>> PROVE route.ext[1] \in 0 .. 255
    <3>1. PICK n \in 0 .. 255 : route.ext = <<n>>
      BY <2>1, <2>2
    <3> QED
      BY <3>1
  <2> QED
    BY <2>1, <2>2
<1>2. Typed(IF route.ext = <<>> THEN <<>> ELSE Byte(route.ext[1]))
  BY <1>1, NothingTyped, ByteTyped
<1> QED
  BY <1>1, <1>2, ByteTyped, BothTyped DEF Opcode

LEMMA SettingsTyped ==
  ASSUME NEW id \in 0 .. 15, NEW size \in 0 .. 3, NEW high \in 0 .. 1, NEW flag \in 0 .. 1
  PROVE  Typed(Settings(id, size, high, flag))
  BY ByteTyped DEF Settings

\* no more than four sizes are allowed by a mask
LEMMA AllowedSizes ==
  ASSUME NEW size \in 0 .. 6, NEW mask \in 0 .. 15, Allowed(size, mask)
  PROVE  size \in 0 .. 3
<1> SUFFICES ASSUME size \in 4 .. 6 PROVE FALSE
  OBVIOUS
<1>1. Bytes(size) = 16 \/ Bytes(size) = 32 \/ Bytes(size) = 64
  <2>1. size = 4 \/ size = 5 \/ size = 6
    OBVIOUS
  <2> QED
    BY <2>1, WidthsOfVectors
<1>2. mask \div Bytes(size) = 0
  BY <1>1
<1> QED
  BY <1>2 DEF Allowed

-----------------------------------------------------------------------------
(* The handlers of the CPU's formats                                       *)

LEMMA SeenRegister ==
  ASSUME NEW y, IsSeen(y), y.kind = "reg"
  PROVE  /\ y.id \in 0 .. 15 /\ y.size \in 0 .. 3 /\ y.high \in 0 .. 1 /\ y.id \in 0 .. 255
         /\ y.high * 128 + y.id \in 0 .. 255 /\ y.high * 64 + y.id \in 0 .. 255
<1>1. y.id \in 0 .. 15 /\ y.size \in 0 .. 3 /\ y.high \in 0 .. 1
  BY DEF IsSeen
<1>2. \A h \in 0 .. 1, i \in 0 .. 15 : i \in 0 .. 255 /\ h * 128 + i \in 0 .. 255 /\ h * 64 + i \in 0 .. 255
  OBVIOUS
<1> QED
  BY <1>1, <1>2

LEMMA SeenAddress ==
  ASSUME NEW y, IsSeen(y), y.kind = "mem"
  PROVE  Typed(Address(y))
  BY DEF IsSeen

\* a register in a byte of its own, or an address
LEMMA SourceTyped ==
  ASSUME NEW y, IsSeen(y), y.kind \in {"reg", "mem"}
  PROVE  /\ Typed(IF y.kind = "mem" THEN Address(y) ELSE Byte(y.high * 128 + y.id))
         /\ (IF y.kind = "mem" THEN 1 ELSE 0) \in 0 .. 1
<1>1. CASE y.kind = "mem"
  BY <1>1, SeenAddress
<1>2. CASE y.kind = "reg"
  <2>1. Typed(Byte(y.high * 128 + y.id))
    BY <1>2, SeenRegister, ByteTyped
  <2> QED
    BY <1>2, <2>1
<1> QED
  BY <1>1, <1>2

LEMMA TwoBytesTyped ==
  ASSUME NEW route \in Rows, NEW v \in 0 .. 255, NEW w \in 0 .. 255
  PROVE  Typed(Opcode(route) \o Byte(v) \o Byte(w))
<1>1. Typed(Byte(v)) /\ Typed(Byte(w)) /\ Typed(Opcode(route))
  BY ByteTyped, OpcodeTyped
<1>2. Typed(Opcode(route) \o Byte(v))
  BY <1>1, BothTyped
<1> QED
  BY <1>1, <1>2, BothTyped

LEMMA TernaryTyped ==
  ASSUME NEW route \in Rows, NEW x, NEW y, NEW z, IsSeen(x), IsSeen(y), IsSeen(z)
  PROVE  Typed(TernaryOp(route, x, y, z))
<1> DEFINE flag == IF y.kind = "mem" THEN 1 ELSE 0
           last == IF y.kind = "mem" THEN Address(y) ELSE Byte(y.high * 128 + y.id)
<1> SUFFICES ASSUME x.kind = "reg", y.kind \in {"reg", "mem"}, z.kind = "imm"
             PROVE  Typed(Opcode(route) \o Settings(x.id, x.size, x.high, flag)
                            \o ExprPiece(Bytes(x.size), z.val) \o last)
  BY RejectedTyped DEF TernaryOp
<1>1. flag \in 0 .. 1 /\ Typed(last)
  BY SourceTyped
<1> HIDE DEF flag, last
<1>2. Typed(Settings(x.id, x.size, x.high, flag)) /\ Typed(ExprPiece(Bytes(x.size), z.val))
  BY <1>1, SettingsTyped, SizedExprTyped DEF IsSeen
<1> QED
  BY <1>1, <1>2, OpcodeTyped, BothTyped

LEMMA HeadTyped ==
  ASSUME NEW route \in Rows, NEW id \in 0 .. 15, NEW size \in 0 .. 3, NEW dh \in 0 .. 1, NEW sh \in 0 .. 1,
         NEW mode \in 0 .. 4, NEW src \in 0 .. 15
  PROVE  Typed(BinaryHead(route, id, size, dh, sh, mode, src))
<1>1. Typed(Settings(id, size, dh, sh))
  BY SettingsTyped
<1>2. mode * 16 + src \in 0 .. 255
  OBVIOUS
<1>3. Typed(Byte(mode * 16 + src))
  BY <1>2, ByteTyped
<1> QED
  BY <1>1, <1>3, OpcodeTyped, BothTyped DEF BinaryHead

LEMMA BinaryTyped ==
  ASSUME NEW route \in Rows, NEW x, NEW y, IsSeen(x), IsSeen(y)
  PROVE  Typed(BinaryOp(route, x, y))
<1>0. route.imm \in {Follows, Forbidden} \cup 0 .. 3 /\ route.mask \in 0 .. 15
  BY DEF Rows
<1>a. x.kind = "reg" => x.id \in 0 .. 15 /\ x.size \in 0 .. 3 /\ x.high \in 0 .. 1
  BY DEF IsSeen
<1>b. y.kind = "reg" => y.id \in 0 .. 15 /\ y.size \in 0 .. 3 /\ y.high \in 0 .. 1
  BY DEF IsSeen
<1>c. 0 \in 0 .. 1 /\ 0 \in 0 .. 15 /\ \A mode \in {0, 1, 2, 3, 4} : mode \in 0 .. 4
  OBVIOUS
<1>1. ASSUME x.kind = "reg", y.kind = "reg" PROVE Typed(RegReg(route, x, y))
  <2>1. Typed(BinaryHead(route, x.id, x.size, x.high, y.high, 0, y.id))
    BY <1>1, <1>a, <1>b, <1>c, HeadTyped
  <2> QED
    BY <2>1, RejectedTyped DEF RegReg
<1>2. ASSUME x.kind = "reg", y.kind = "imm" PROVE Typed(RegImm(route, x, y))
  <2>1. Typed(BinaryHead(route, x.id, x.size, x.high, 0, 1, 0))
    BY <1>2, <1>a, <1>b, <1>c, HeadTyped
  <2>2. route.imm # Forbidden => ImmSize(route, x.size) \in 0 .. 3
    BY <1>0, <1>2 DEF IsSeen, ImmSize
  <2>3. route.imm # Forbidden => Typed(ExprPiece(Bytes(ImmSize(route, x.size)), y.val))
    BY <1>2, <2>2, SizedExprTyped DEF IsSeen
  <2> QED
    BY <2>1, <2>3, RejectedTyped, BothTyped DEF RegImm
<1>3. ASSUME x.kind = "reg", y.kind = "mem" PROVE Typed(RegMem(route, x, y))
  <2>1. Typed(BinaryHead(route, x.id, x.size, x.high, 0, 2, 0))
    BY <1>3, <1>a, <1>b, <1>c, HeadTyped
  <2> QED
    BY <1>3, <2>1, RejectedTyped, BothTyped DEF RegMem, IsSeen
<1>4. ASSUME x.kind = "mem", y.kind = "reg" PROVE Typed(MemReg(route, x, y))
  <2>1. Typed(BinaryHead(route, 0, y.size, 0, y.high, 3, y.id))
    BY <1>4, <1>a, <1>b, <1>c, HeadTyped
  <2> QED
    BY <1>4, <2>1, RejectedTyped, BothTyped DEF MemReg, IsSeen
<1>5. ASSUME x.kind = "mem", y.kind = "imm" PROVE Typed(MemImm(route, x, y))
  <2> DEFINE size == IF route.imm = Follows /\ ~x.sized THEN y.size ELSE x.size
             code == BinaryHead(route, 0, size, 0, 0, 4, 0) \o Address(x)
                       \o ExprPiece(Bytes(ImmSize(route, size)), y.val)
  <2>1. size \in 0 .. 6
    BY <1>5 DEF IsSeen
  <2> HIDE DEF size
  <2>2. ASSUME Allowed(size, route.mask), route.imm # Forbidden PROVE Typed(code)
    <3>1. size \in 0 .. 3
      BY <1>0, <2>1, <2>2, AllowedSizes
    <3>2. ImmSize(route, size) \in 0 .. 3
      BY <1>0, <2>2, <3>1 DEF ImmSize
    <3>3. Typed(BinaryHead(route, 0, size, 0, 0, 4, 0))
      BY <1>c, <3>1, HeadTyped
    <3>4. Typed(Address(x)) /\ y.val \in Values
      BY <1>5 DEF IsSeen
    <3>5. Typed(ExprPiece(Bytes(ImmSize(route, size)), y.val))
      BY <3>2, <3>4, SizedExprTyped
    <3> QED
      BY <3>3, <3>4, <3>5, BothTyped
  <2> HIDE DEF code
  <2>3. MemImm(route, x, y) = code \/ MemImm(route, x, y) = Rejected
    BY DEF MemImm, code, size
  <2>4. MemImm(route, x, y) = code => MemImm(route, x, y) = Rejected \/ (Allowed(size, route.mask) /\ route.imm # Forbidden)
    BY DEF MemImm, code, size
  <2> QED
    BY <2>2, <2>3, <2>4, RejectedTyped
<1> QED
  BY <1>1, <1>2, <1>3, <1>4, <1>5, RejectedTyped DEF BinaryOp


LEMMA UnaryTyped ==
  ASSUME NEW route \in Rows, NEW x, IsSeen(x)
  PROVE  Typed(UnaryOp(route, x))
<1> SUFFICES ASSUME x.kind \in {"reg", "mem"}, Allowed(x.size, route.mask)
             PROVE  Typed(Opcode(route) \o (IF x.kind = "reg" THEN Settings(x.id, x.size, x.high, 0)
                                            ELSE Settings(0, x.size, 0, 1) \o Address(x)))
  BY RejectedTyped DEF UnaryOp
<1>1. route.mask \in 0 .. 15
  BY DEF Rows
<1>2. ASSUME x.kind = "reg" PROVE Typed(Settings(x.id, x.size, x.high, 0))
  BY <1>2, SettingsTyped DEF IsSeen
<1>3. ASSUME x.kind = "mem" PROVE Typed(Settings(0, x.size, 0, 1) \o Address(x))
  <2>1. x.size \in 0 .. 6 /\ Typed(Address(x))
    BY <1>3 DEF IsSeen
  <2>2. x.size \in 0 .. 3
    BY <1>1, <2>1, AllowedSizes
  <2> QED
    BY <2>1, <2>2, SettingsTyped, BothTyped
<1> QED
  BY <1>2, <1>3, OpcodeTyped, BothTyped

LEMMA IMMRMTyped ==
  ASSUME NEW route \in Rows, route.imm # Forbidden, NEW x, IsSeen(x)
  PROVE  Typed(IMMRM(route, x))
<1> DEFINE size == IF x.kind = "reg" \/ x.sized THEN x.size ELSE route.imm
           last == CASE x.kind = "reg" -> Byte(x.id * 16 + size * 4 + x.high)
                     [] x.kind = "imm" -> Byte(size * 4 + 2) \o ExprPiece(Bytes(size), x.val)
                     [] x.kind = "mem" -> Byte(size * 4 + 3) \o Address(x)
<1>1. ASSUME x.kind \in {"reg", "mem", "imm"}, size # Follows, Allowed(size, route.mask)
      PROVE  Typed(last)
  <2>1. route.mask \in 0 .. 15 /\ route.imm \in {Follows, Forbidden} \cup 0 .. 3
    BY DEF Rows
  <2>2. size \in 0 .. 6
    BY <1>1, <2>1 DEF IsSeen
  <2>3. size \in 0 .. 3
    BY <1>1, <2>1, <2>2, AllowedSizes
  <2> HIDE DEF size
  <2>4. ASSUME x.kind = "reg" PROVE Typed(Byte(x.id * 16 + size * 4 + x.high))
    BY <2>3, <2>4, ByteTyped DEF IsSeen
  <2>5. ASSUME x.kind = "imm" PROVE Typed(Byte(size * 4 + 2) \o ExprPiece(Bytes(size), x.val))
    BY <2>3, <2>5, ByteTyped, SizedExprTyped, BothTyped DEF IsSeen
  <2>6. ASSUME x.kind = "mem" PROVE Typed(Byte(size * 4 + 3) \o Address(x))
    <3>1. size * 4 + 3 \in 0 .. 255
      BY <2>3
    <3>2. Typed(Byte(size * 4 + 3)) /\ Typed(Address(x))
      BY <2>6, <3>1, ByteTyped, SeenAddress
    <3> QED
      BY <3>2, BothTyped
  <2> QED
    BY <1>1, <2>4, <2>5, <2>6
<1>2. IMMRM(route, x) = IF x.kind \in {"reg", "mem", "imm"} /\ size # Follows /\ Allowed(size, route.mask)
                        THEN Opcode(route) \o last ELSE Rejected
  BY DEF IMMRM
<1> HIDE DEF size, last
<1> QED
  BY <1>1, <1>2, OpcodeTyped, RejectedTyped, BothTyped

LEMMA RR_RMTyped ==
  ASSUME NEW route \in Rows, NEW x, NEW y, NEW z, IsSeen(x), IsSeen(y), IsSeen(z)
  PROVE  Typed(RR_RM(route, x, y, z))
<1> DEFINE flag == IF z.kind = "mem" THEN 1 ELSE 0
           last == IF z.kind = "mem" THEN Address(z) ELSE Byte(z.high * 128 + z.id)
<1> SUFFICES ASSUME x.kind = "reg", y.kind = "reg", z.kind \in {"reg", "mem"}
             PROVE  Typed(Opcode(route) \o Settings(x.id, x.size, x.high, flag)
                            \o Byte(y.high * 128 + y.id) \o last)
  BY RejectedTyped DEF RR_RM
<1>1. Typed(last) /\ flag \in 0 .. 1
  BY SourceTyped
<1> HIDE DEF flag, last
<1>2. Typed(Settings(x.id, x.size, x.high, flag))
  <2>1. x.id \in 0 .. 15 /\ x.size \in 0 .. 3 /\ x.high \in 0 .. 1
    BY SeenRegister
  <2> QED
    BY <1>1, <2>1, SettingsTyped, Zenon
<1>3. Typed(Byte(y.high * 128 + y.id))
  <2>1. y.high * 128 + y.id \in 0 .. 255
    BY SeenRegister
  <2> QED
    BY <2>1, ByteTyped, Zenon
<1> QED
  BY <1>1, <1>2, <1>3, OpcodeTyped, BothTyped

LEMMA XCHGTyped ==
  ASSUME NEW route \in Rows, NEW x, NEW y, IsSeen(x), IsSeen(y)
  PROVE  Typed(XCHG(route, x, y))
<1> DEFINE reg == IF x.kind = "reg" THEN x ELSE y
           other == IF x.kind = "reg" THEN y ELSE x
           flag == IF other.kind = "mem" THEN 1 ELSE 0
           last == IF other.kind = "mem" THEN Address(other) ELSE Byte(other.high * 128 + other.id)
<1>1. XCHG(route, x, y) = Rejected
        \/ (/\ reg.kind = "reg" /\ other.kind \in {"reg", "mem"}
            /\ XCHG(route, x, y) = Opcode(route) \o Settings(reg.id, reg.size, reg.high, flag) \o last)
  BY DEF XCHG
<1>2. IsSeen(reg) /\ IsSeen(other)
  OBVIOUS
<1> HIDE DEF reg, other
<1>3. ASSUME reg.kind = "reg", other.kind \in {"reg", "mem"}
      PROVE  Typed(Opcode(route) \o Settings(reg.id, reg.size, reg.high, flag) \o last)
  <2>1. Typed(last) /\ flag \in 0 .. 1
    BY <1>2, <1>3, SourceTyped
  <2> HIDE DEF flag, last
  <2>2. Typed(Settings(reg.id, reg.size, reg.high, flag))
    BY <1>2, <1>3, <2>1, SettingsTyped, Zenon DEF IsSeen
  <2> QED
    BY <2>1, <2>2, OpcodeTyped, BothTyped
<1> QED
  BY <1>1, <1>3, RejectedTyped

LEMMA LEATyped ==
  ASSUME NEW route \in Rows, NEW x, NEW y, IsSeen(x), IsSeen(y)
  PROVE  Typed(LEA(route, x, y))
<1> SUFFICES ASSUME x.kind = "reg", y.kind = "mem"
             PROVE  Typed(Opcode(route) \o Settings(x.id, x.size, 0, 0) \o Address(y))
  BY RejectedTyped DEF LEA
<1>1. Typed(Address(y)) /\ x.id \in 0 .. 15 /\ x.size \in 0 .. 3 /\ 0 \in 0 .. 1
  BY DEF IsSeen
<1>2. Typed(Settings(x.id, x.size, 0, 0))
  BY <1>1, SettingsTyped
<1> QED
  BY <1>1, <1>2, OpcodeTyped, BothTyped

LEMMA POPTyped ==
  ASSUME NEW route \in Rows, NEW x, IsSeen(x)
  PROVE  Typed(POP(route, x))
<1> SUFFICES ASSUME x.kind \in {"reg", "mem"}, Allowed(x.size, 14)
             PROVE  Typed(Opcode(route) \o (IF x.kind = "reg" THEN Settings(x.id, x.size, 0, 0)
                                            ELSE Settings(0, x.size, 0, 1) \o Address(x)))
  BY RejectedTyped DEF POP
<1>1. 14 \in 0 .. 15 /\ 0 \in 0 .. 1 /\ 1 \in 0 .. 1 /\ 0 \in 0 .. 15
  OBVIOUS
<1>2. ASSUME x.kind = "reg" PROVE Typed(Settings(x.id, x.size, 0, 0))
  BY <1>1, <1>2, SettingsTyped DEF IsSeen
<1>3. ASSUME x.kind = "mem" PROVE Typed(Settings(0, x.size, 0, 1) \o Address(x))
  <2>1. x.size \in 0 .. 6 /\ Typed(Address(x))
    BY <1>3 DEF IsSeen
  <2>2. x.size \in 0 .. 3
    BY <1>1, <2>1, AllowedSizes
  <2> QED
    BY <1>1, <2>1, <2>2, SettingsTyped, BothTyped
<1> QED
  BY <1>2, <1>3, OpcodeTyped, BothTyped

LEMMA ShiftTyped ==
  ASSUME NEW route \in Rows, NEW x, NEW y, IsSeen(x), IsSeen(y)
  PROVE  Typed(Shift(route, x, y))
<1>1. ASSUME IsCount(y) PROVE Typed(ShiftCount(y))
  <2>1. CASE y = CL
    BY <2>1, ByteTyped DEF ShiftCount, ByCL
  <2>2. CASE y # CL
    <3>1. y.val \in Values
      BY <1>1, <2>2 DEF IsCount, Bare, IsSeen
    <3>2. y.val.val % 64 \in Int
      BY <3>1 DEF Values
    <3>3. [y.val EXCEPT !.val = @ % 64] \in Values
      BY <3>1, <3>2 DEF Values
    <3> QED
      BY <2>2, <3>3, ExprTyped DEF ShiftCount
  <2> QED
    BY <2>1, <2>2
<1>2. 0 \in 0 .. 1 /\ 1 \in 0 .. 1 /\ 0 \in 0 .. 15
  OBVIOUS
<1>3. ASSUME x.kind = "reg", IsCount(y)
      PROVE  Typed(Opcode(route) \o Settings(x.id, x.size, x.high, 0) \o ShiftCount(y))
  <2>1. Typed(Settings(x.id, x.size, x.high, 0))
    BY <1>2, <1>3, SettingsTyped DEF IsSeen
  <2> QED
    BY <1>1, <1>3, <2>1, OpcodeTyped, BothTyped
<1>4. ASSUME x.kind = "mem", x.size <= 3, IsCount(y)
      PROVE  Typed(Opcode(route) \o Settings(0, x.size, 0, 1) \o ShiftCount(y)
                     \o AddressPieces(1, x.addr.b, x.addr.base))
  <2>1. x.size \in 0 .. 3 /\ x.addr.b \in 0 .. 255
    BY <1>4 DEF IsSeen
  <2>2. Typed(Settings(0, x.size, 0, 1))
    BY <1>2, <2>1, SettingsTyped
  <2>3. Typed(AddressPieces(1, x.addr.b, x.addr.base))
    <3> DEFINE b == IF 1 % 4 # 0 THEN Byte(x.addr.b) ELSE <<>>
               c == IF 1 >= 128 THEN ExprPiece(Bytes((1 \div 4) % 4), x.addr.base) ELSE <<>>
    <3>1. Typed(b)
      BY <2>1, ByteTyped, NothingTyped
    <3>2. ~(1 >= 128)
      OBVIOUS
    <3>3. c = <<>>
      BY <3>2
    <3>4. Typed(Byte(1))
      BY ByteTyped
    <3> HIDE DEF b, c
    <3>5. Typed(Byte(1) \o b \o c)
      BY <3>1, <3>3, <3>4, NothingTyped, BothTyped
    <3> QED
      BY <3>5 DEF AddressPieces, b, c
  <2> QED
    BY <1>1, <1>4, <2>2, <2>3, OpcodeTyped, BothTyped
<1> QED
  BY <1>3, <1>4, RejectedTyped DEF Shift

LEMMA MOVxXTyped ==
  ASSUME NEW route \in Rows, NEW sign, NEW x, NEW y, IsSeen(x), IsSeen(y)
  PROVE  Typed(MOVxX(route, sign, x, y))
<1> DEFINE modes == {k \in DOMAIN ExtensionModes : ExtensionModes[k] = Mode(sign, x.size, y.size)}
           mode == CHOOSE k \in modes : TRUE
           last == IF y.kind = "reg" THEN Byte(y.high * 64 + y.id) ELSE Byte(128) \o Address(y)
<1>1. ASSUME modes # {} PROVE mode \in 1 .. 11
  <2>1. DOMAIN ExtensionModes = 1 .. 11
    BY DEF ExtensionModes
  <2> HIDE DEF modes
  <2>2. mode \in modes
    BY <1>1
  <2> QED
    BY <2>1, <2>2 DEF modes
<1>2. MOVxX(route, sign, x, y) = Rejected
        \/ (/\ x.kind = "reg" /\ y.kind \in {"reg", "mem"} /\ modes # {}
            /\ MOVxX(route, sign, x, y) = Opcode(route) \o Byte(x.id * 16 + mode - 1) \o last)
  BY DEF MOVxX
<1> HIDE DEF modes, mode
<1>3. ASSUME x.kind = "reg", y.kind \in {"reg", "mem"}, modes # {}
      PROVE  Typed(Opcode(route) \o Byte(x.id * 16 + mode - 1) \o last)
  <2>1. Typed(last)
    <3>1. CASE y.kind = "reg"
      <4>1. Typed(Byte(y.high * 64 + y.id))
        BY <3>1, SeenRegister, ByteTyped
      <4> QED
        BY <3>1, <4>1
    <3>2. CASE y.kind = "mem"
      <4>1. 128 \in 0 .. 255
        OBVIOUS
      <4>2. Typed(Byte(128) \o Address(y))
        BY <3>2, <4>1, ByteTyped, SeenAddress, BothTyped
      <4> QED
        BY <3>2, <4>2
    <3> QED
      BY <1>3, <3>1, <3>2
  <2>2. x.id * 16 + mode - 1 \in 0 .. 255
    BY <1>1, <1>3 DEF IsSeen
  <2> HIDE DEF last
  <2> QED
    BY <2>1, <2>2, ByteTyped, OpcodeTyped, BothTyped
<1> QED
  BY <1>2, <1>3, RejectedTyped

LEMMA BSxTyped ==
  ASSUME NEW route \in Rows, NEW forward, NEW x, NEW y, IsSeen(x), IsSeen(y)
  PROVE  Typed(BSx(route, forward, x, y))
<1> DEFINE mem == IF y.kind = "mem" THEN 64 ELSE 0
           last == IF y.kind = "reg" THEN Byte(y.id) ELSE Address(y)
           v == (IF forward THEN 128 ELSE 0) + mem + x.size * 16 + x.id
<1>1. BSx(route, forward, x, y) = Rejected
        \/ (/\ x.kind = "reg" /\ y.kind \in {"reg", "mem"}
            /\ BSx(route, forward, x, y) = Opcode(route) \o Byte(v) \o last)
  BY DEF BSx
<1>2. ASSUME x.kind = "reg", y.kind \in {"reg", "mem"} PROVE Typed(Opcode(route) \o Byte(v) \o last)
  <2>1. Typed(last)
    <3>1. CASE y.kind = "reg"
      <4>1. Typed(Byte(y.id))
        BY <3>1, SeenRegister, ByteTyped
      <4> QED
        BY <3>1, <4>1
    <3>2. CASE y.kind = "mem"
      BY <3>2, SeenAddress
    <3> QED
      BY <1>2, <3>1, <3>2
  <2>2. v \in 0 .. 255
    BY <1>2 DEF IsSeen
  <2> HIDE DEF last, v
  <2> QED
    BY <2>1, <2>2, ByteTyped, OpcodeTyped, BothTyped
<1> HIDE DEF last, v
<1> QED
  BY <1>1, <1>2, RejectedTyped

LEMMA MOVx_transTyped ==
  ASSUME NEW route \in Rows, NEW size, NEW x, NEW y, IsSeen(x), IsSeen(y)
  PROVE  Typed(MOVx_trans(route, size, x, y))
<1> DEFINE code == IF size = 3 THEN 2 ELSE 0
<1>1. code \in 0 .. 255 /\ code + 1 \in 0 .. 255
  OBVIOUS
<1> HIDE DEF code
<1>2. ASSUME x.kind = "reg", y.kind = "vreg", y.size = 4
      PROVE  Typed(Opcode(route) \o Byte(code) \o Byte(x.id * 16 + y.id))
  <2>1. x.id * 16 + y.id \in 0 .. 255
    BY <1>2 DEF IsSeen
  <2> QED
    BY <1>1, <2>1, TwoBytesTyped, Zenon
<1>3. ASSUME x.kind = "vreg", x.size = 4, y.kind = "reg"
      PROVE  Typed(Opcode(route) \o Byte(code + 1) \o Byte(x.id * 16 + y.id))
  <2>1. x.id * 16 + y.id \in 0 .. 255
    BY <1>3 DEF IsSeen
  <2> QED
    BY <1>1, <2>1, TwoBytesTyped, Zenon
<1> QED
  BY <1>2, <1>3, RejectedTyped DEF MOVx_trans, code

LEMMA DEBUG_memTyped ==
  ASSUME NEW route \in Rows, NEW x, NEW y, IsSeen(x), IsSeen(y)
  PROVE  Typed(DEBUG_mem(route, x, y))
<1> SUFFICES ASSUME x.kind = "mem", y.kind = "imm"
             PROVE  Typed(Opcode(route) \o Address(x) \o ExprPiece(8, y.val))
  BY RejectedTyped DEF DEBUG_mem, Bare
<1>1. Typed(Address(x)) /\ y.val \in Values
  BY DEF IsSeen
<1> QED
  BY <1>1, ExprTyped, OpcodeTyped, BothTyped

LEMMA StringModeTyped ==
  ASSUME NEW route \in Rows, NEW mode \in 0 .. 11, NEW size \in 0 .. 3
  PROVE  Typed(StringMode(route, mode, size))
<1>1. route.op \in 0 .. 255
  BY DEF Rows
<1> QED
  BY <1>1, ByteTyped, BothTyped DEF StringMode

LEMMA StringsTyped ==
  ASSUME NEW route \in Rows, Extended1(route, 11), NEW x, NEW y, IsSeen(x), IsSeen(y)
  PROVE  /\ Typed(BinaryString(route, x, y))
         /\ Typed(LODS_string(route, x))
         /\ Typed(UnaryString(route, x))
<1>1. route.ext[1] \in 0 .. 11
  BY DEF Extended1
<1>2. Typed(BinaryString(route, x, y))
  <2> DEFINE size == IF x.sized THEN x.size ELSE y.size
  <2>1. BinaryString(route, x, y) = Rejected
          \/ (/\ x.kind = "mem" /\ y.kind = "mem" /\ size <= 3
              /\ BinaryString(route, x, y) = StringMode(route, route.ext[1], size))
    BY DEF BinaryString
  <2>2. x.kind = "mem" /\ y.kind = "mem" /\ size <= 3 => size \in 0 .. 3
    BY DEF IsSeen
  <2> HIDE DEF size
  <2> QED
    BY <1>1, <2>1, <2>2, StringModeTyped, RejectedTyped
<1>3. Typed(LODS_string(route, x))
  <2>1. x.kind = "reg" => x.size \in 0 .. 3
    BY DEF IsSeen
  <2> QED
    BY <1>1, <2>1, StringModeTyped, RejectedTyped DEF LODS_string
<1>4. Typed(UnaryString(route, x))
  <2>1. x.kind = "mem" /\ x.size <= 3 => x.size \in 0 .. 3
    BY DEF IsSeen
  <2> QED
    BY <1>1, <2>1, StringModeTyped, RejectedTyped DEF UnaryString
<1> QED
  BY <1>2, <1>3, <1>4


-----------------------------------------------------------------------------
(* The handlers of the x87 formats                                         *)

IsModes(modes) == \A s \in DOMAIN modes : modes[s] \in 0 .. 127

LEMMA ModeNumbers == \A m \in {1, 2, 3, 4, 5, 6, 7, 8, 9, 10, 11, 12, 13} : m \in 0 .. 127
  OBVIOUS

LEMMA RealsModes ==
  ASSUME NEW m \in 0 .. 127, NEW n \in 0 .. 127
  PROVE  IsModes(Reals(m, n))
  BY DEF IsModes, Reals

LEMMA PairModes ==
  ASSUME NEW m \in 0 .. 127, NEW n \in 0 .. 127
  PROVE  IsModes(<<m, n>>)
  BY DEF IsModes

LEMMA TripleModes ==
  ASSUME NEW m \in 0 .. 127, NEW n \in 0 .. 127, NEW k \in 0 .. 127
  PROVE  IsModes(<<m, n, k>>)
  BY DEF IsModes

LEMMA ModedTyped ==
  ASSUME NEW route \in Rows, NEW modes, IsModes(modes), NEW x, IsSeen(x), x.kind = "mem"
  PROVE  Typed(Moded(route, modes, x))
<1> SUFFICES ASSUME x.size \in DOMAIN modes
             PROVE  Typed(Opcode(route) \o Byte(modes[x.size]) \o Address(x))
  BY RejectedTyped DEF Moded
<1>1. Typed(Address(x)) /\ modes[x.size] \in 0 .. 255
  BY DEF IsSeen, IsModes
<1> QED
  BY <1>1, ByteTyped, OpcodeTyped, BothTyped

LEMMA OpcodeByteTyped ==
  ASSUME NEW route \in Rows, NEW v \in 0 .. 255
  PROVE  Typed(Opcode(route) \o Byte(v))
  BY ByteTyped, OpcodeTyped, BothTyped

AllSeen(args) == (\E S : args \in Seq(S)) /\ \A i \in DOMAIN args : IsSeen(args[i])

LEMMA FPUBinaryTyped ==
  ASSUME NEW route \in Rows, NEW integral \in BOOLEAN, NEW pop \in BOOLEAN, NEW args, Len(args) \in 0 .. 2, AllSeen(args)
  PROVE  Typed(FPUBinaryOp(route, integral, pop, args))
<1>1. IsModes(<<5, 6>>) /\ IsModes(Reals(3, 4))
  BY PairModes, RealsModes, ModeNumbers, Zenon
<1>2. Typed(Opcode(route) \o Byte(18))
  BY OpcodeByteTyped
<1>3. ASSUME Len(args) = 1, args[1].kind = "mem"
      PROVE  Typed(Moded(route, IF integral THEN <<5, 6>> ELSE Reals(3, 4), args[1]))
  <2>1. IsSeen(args[1])
    BY <1>3 DEF AllSeen
  <2> QED
    BY <1>1, <1>3, <2>1, ModedTyped
<1>4. ASSUME Len(args) = 2, args[1].kind = "st", args[2].kind = "st"
      PROVE  Typed(IF args[2].id = 0 THEN Opcode(route) \o Byte(args[1].id * 16 + (IF pop THEN 2 ELSE 1))
                   ELSE IF args[1].id = 0 /\ ~pop THEN Opcode(route) \o Byte(args[2].id * 16)
                   ELSE Rejected)
  <2>1. IsSeen(args[1]) /\ IsSeen(args[2])
    BY <1>4 DEF AllSeen
  <2>2. args[1].id * 16 + (IF pop THEN 2 ELSE 1) \in 0 .. 255 /\ args[2].id * 16 \in 0 .. 255
    BY <1>4, <2>1 DEF IsSeen
  <2> QED
    BY <2>2, OpcodeByteTyped, RejectedTyped
<1> QED
  BY <1>2, <1>3, <1>4, RejectedTyped DEF FPUBinaryOp

LEMMA FPURegisterTyped ==
  ASSUME NEW route \in Rows, NEW x, IsSeen(x)
  PROVE  Typed(FPURegisterOp(route, x))
<1>1. x.kind = "st" => x.id \in 0 .. 255
  BY DEF IsSeen
<1> QED
  BY <1>1, OpcodeByteTyped, RejectedTyped DEF FPURegisterOp

LEMMA FSTLD_WORDTyped ==
  ASSUME NEW route \in Rows, NEW size, NEW x, IsSeen(x)
  PROVE  Typed(FSTLD_WORD(route, size, x))
<1>1. x.kind = "mem" => Typed(Address(x))
  BY DEF IsSeen
<1> QED
  BY <1>1, OpcodeTyped, BothTyped, RejectedTyped DEF FSTLD_WORD

LEMMA FLDTyped ==
  ASSUME NEW route \in Rows, NEW integral \in BOOLEAN, NEW x, IsSeen(x)
  PROVE  Typed(FLD(route, integral, x))
<1> DEFINE modes == IF integral THEN <<3, 4, 5>> ELSE Reals(1, 2)
<1>1. IsModes(modes)
  BY TripleModes, RealsModes, ModeNumbers, Zenon
<1>2. x.kind = "st" => x.id * 16 \in 0 .. 255
  BY DEF IsSeen
<1>3. \/ x.kind = "st" /\ FLD(route, integral, x) = Opcode(route) \o Byte(x.id * 16)
      \/ x.kind = "mem" /\ FLD(route, integral, x) = Moded(route, modes, x)
      \/ FLD(route, integral, x) = Rejected
  BY DEF FLD
<1> HIDE DEF modes
<1> QED
  BY <1>1, <1>2, <1>3, OpcodeByteTyped, ModedTyped, RejectedTyped, Zenon

LEMMA FSTTyped ==
  ASSUME NEW route \in Rows, NEW integral \in BOOLEAN, NEW pop \in BOOLEAN, NEW trunc \in BOOLEAN, NEW x, IsSeen(x)
  PROVE  Typed(FST(route, integral, pop, trunc, x))
<1>1. IsModes(StoreModes(integral, pop, trunc))
  <2>1. /\ IsModes(<<6, 8>>) /\ IsModes(<<7, 9, 10>>) /\ IsModes(<<11, 12, 13>>)
        /\ IsModes(Reals(3, 5)) /\ IsModes(Reals(2, 4))
    BY PairModes, TripleModes, RealsModes, ModeNumbers, ZenonT(40)
  <2> QED
    BY <2>1 DEF StoreModes
<1>2. x.kind = "st" => x.id * 16 + (IF pop THEN 1 ELSE 0) \in 0 .. 255
  BY DEF IsSeen
<1>3. \/ x.kind = "st" /\ FST(route, integral, pop, trunc, x) = Opcode(route) \o Byte(x.id * 16 + (IF pop THEN 1 ELSE 0))
      \/ x.kind = "mem" /\ FST(route, integral, pop, trunc, x) = Moded(route, StoreModes(integral, pop, trunc), x)
      \/ FST(route, integral, pop, trunc, x) = Rejected
  BY DEF FST
<1> QED
  BY <1>1, <1>2, <1>3, OpcodeByteTyped, ModedTyped, RejectedTyped

LEMMA LoudTyped ==
  ASSUME NEW route \in Rows, NEW quiet \in {0, 128}, NEW modes, IsModes(modes), NEW x, IsSeen(x), x.kind = "mem"
  PROVE  Typed(Moded(route, [s \in DOMAIN modes |-> quiet + modes[s]], x))
<1> SUFFICES ASSUME x.size \in DOMAIN modes
             PROVE  Typed(Opcode(route) \o Byte(quiet + modes[x.size]) \o Address(x))
  BY RejectedTyped DEF Moded
<1>1. modes[x.size] \in 0 .. 127
  BY DEF IsModes
<1>2. quiet + modes[x.size] \in 0 .. 255
  BY <1>1
<1> QED
  BY <1>2, ByteTyped, OpcodeTyped, BothTyped DEF IsSeen

LEMMA FCOMTyped ==
  ASSUME NEW route \in Rows, NEW integral \in BOOLEAN, NEW pops \in 0 .. 2, NEW eflags \in BOOLEAN,
         NEW unordered \in BOOLEAN, NEW args, Len(args) \in 0 .. 2, AllSeen(args)
  PROVE  Typed(FCOM(route, integral, pops, eflags, unordered, args))
<1> DEFINE quiet == IF unordered THEN 128 ELSE 0
           modes == IF integral THEN <<7 + pops, 9 + pops>> ELSE Reals(3 + pops, 5 + pops)
           loud == [s \in DOMAIN modes |-> quiet + modes[s]]
<1>1. quiet \in {0, 128}
  OBVIOUS
<1>2. IsModes(modes)
  <2>1. 7 + pops \in 0 .. 127 /\ 9 + pops \in 0 .. 127 /\ 3 + pops \in 0 .. 127 /\ 5 + pops \in 0 .. 127
    OBVIOUS
  <2> QED
    BY <2>1, PairModes, RealsModes, Zenon
<1> HIDE DEF quiet, modes
<1>3. ASSUME Len(args) = 1, args[1].kind = "mem" PROVE Typed(Moded(route, loud, args[1]))
  <2>1. IsSeen(args[1])
    BY <1>3 DEF AllSeen
  <2> QED
    BY <1>1, <1>2, <1>3, <2>1, LoudTyped
<1>4. ASSUME Len(args) = 1, args[1].kind = "st" PROVE Typed(Opcode(route) \o Byte(quiet + args[1].id * 16 + pops))
  <2>1. IsSeen(args[1])
    BY <1>4 DEF AllSeen
  <2>2. quiet + args[1].id * 16 + pops \in 0 .. 255
    BY <1>1, <1>4, <2>1 DEF IsSeen
  <2> QED
    BY <2>2, OpcodeByteTyped
<1>5. ASSUME Len(args) = 2, args[2].kind = "st" PROVE Typed(Opcode(route) \o Byte(quiet + args[2].id * 16 + 11 + pops))
  <2>1. IsSeen(args[2])
    BY <1>5 DEF AllSeen
  <2>2. quiet + args[2].id * 16 + 11 + pops \in 0 .. 255
    BY <1>1, <1>5, <2>1 DEF IsSeen
  <2> QED
    BY <2>2, OpcodeByteTyped
<1>6. Typed(Opcode(route) \o Byte(quiet + 16 + pops))
  <2>1. quiet + 16 + pops \in 0 .. 255
    BY <1>1
  <2> QED
    BY <2>1, OpcodeByteTyped
<1> DEFINE code == FCOM(route, integral, pops, eflags, unordered, args)
<1>7. CASE args = <<>>
  <2>1. code = Rejected \/ code = Opcode(route) \o Byte(quiet + 16 + pops)
    BY <1>7 DEF FCOM, quiet
  <2> QED
    BY <1>6, <2>1, RejectedTyped
<1>8. CASE Len(args) = 1
  <2>1. args # <<>>
    BY <1>8
  <2>2. CASE args[1].kind = "st"
    <3>1. code = Rejected \/ code = Opcode(route) \o Byte(quiet + args[1].id * 16 + pops)
      BY <1>8, <2>1, <2>2 DEF FCOM, quiet
    <3> QED
      BY <1>4, <1>8, <2>2, <3>1, RejectedTyped
  <2>3. CASE args[1].kind = "mem"
    <3>1. code = Rejected \/ code = Moded(route, loud, args[1])
      BY <1>8, <2>1, <2>3 DEF FCOM, quiet, modes
    <3> QED
      BY <1>3, <1>8, <2>3, <3>1, RejectedTyped
  <2>4. CASE args[1].kind \notin {"st", "mem"}
    <3>1. code = Rejected
      BY <1>8, <2>1, <2>4 DEF FCOM
    <3> QED
      BY <3>1, RejectedTyped
  <2> QED
    BY <2>2, <2>3, <2>4
<1>9. CASE Len(args) = 2
  <2>1. args # <<>> /\ Len(args) # 1
    BY <1>9
  <2>2. \/ code = Rejected
        \/ args[2].kind = "st" /\ code = Opcode(route) \o Byte(quiet + args[2].id * 16 + 11 + pops)
    BY <1>9, <2>1 DEF FCOM, quiet
  <2> QED
    BY <1>5, <1>9, <2>2, RejectedTyped
<1>10. args = <<>> \/ Len(args) = 1 \/ Len(args) = 2
  BY DEF AllSeen
<1> QED
  BY <1>7, <1>8, <1>9, <1>10

LEMMA FMOVccTyped ==
  ASSUME NEW route \in Rows, NEW condition \in 0 .. 7, NEW x, NEW y, IsSeen(x), IsSeen(y)
  PROVE  Typed(FMOVcc(route, condition, x, y))
<1>1. y.kind = "st" => y.id * 16 + condition \in 0 .. 255
  BY DEF IsSeen
<1> QED
  BY <1>1, OpcodeByteTyped, RejectedTyped DEF FMOVcc

LEMMA FXCHTyped ==
  ASSUME NEW route \in Rows, NEW args, Len(args) \in 0 .. 1, AllSeen(args)
  PROVE  Typed(FXCH(route, args))
<1>1. ASSUME args # <<>> PROVE IsSeen(args[1])
  BY <1>1 DEF AllSeen
<1>2. 1 \in 0 .. 255
  OBVIOUS
<1> QED
  BY <1>1, <1>2, OpcodeByteTyped, FPURegisterTyped DEF FXCH


-----------------------------------------------------------------------------
(* The handlers of the vector formats                                      *)

LEMMA FlagIn ==
  ASSUME NEW on, NEW weight \in Nat
  PROVE  Flag(on, weight) \in {0, weight}
  BY DEF Flag

LEMMA ExpressionsAreValues == Expressions \subseteq Values
<1> SUFFICES ASSUME NEW e \in Expressions PROVE e \in Values
  OBVIOUS
<1>1. \A v \in -(2 ^ 23) .. (2 ^ 23 - 1) : v \in Int
  OBVIOUS
<1>2. e = [val |-> e.val, float |-> e.float, known |-> e.known] /\ e.val \in -(2 ^ 23) .. (2 ^ 23 - 1)
      /\ e.float \in BOOLEAN /\ e.known \in Known
  BY Zenon DEF Expressions
<1>3. e.val \in Int
  BY <1>1, <1>2, Zenon
<1> QED
  BY <1>2, <1>3 DEF Values

LEMMA MaskTyped ==
  ASSUME NEW m, IsMask(m), NEW count \in 1 .. 64
  PROVE  Typed(MaskPieces(m, count))
<1>1. BitsToBytes(count) \in 1 .. 8
  BY DEF BitsToBytes
<1> SUFFICES ASSUME m.expr # <<>> PROVE Typed(ExprPiece(BitsToBytes(count), m.expr[1]))
  BY NothingTyped DEF MaskPieces, VPUMaskPresent
<1>2. m.expr[1] \in Values
  BY ExpressionsAreValues DEF IsMask
<1> QED
  BY <1>1, <1>2, ExprTyped

LEMMA CountIn ==
  ASSUME NEW route \in Rows, NEW size \in 4 .. 6
  PROVE  ElementCount(route, size) \in 1 .. 64
<1>1. route.elem \in {0, 1, 2, 3} /\ size \in {4, 5, 6}
  BY DEF Rows
<1>2. Bytes(size) \in {16, 32, 64} /\ Bytes(route.elem) \in {1, 2, 4, 8}
  BY <1>1, Widths, WidthsOfVectors
<1>3. \A w \in {16, 32, 64} : /\ w \div 1 \in 1 .. 64 /\ w \div 2 \in 1 .. 64
                              /\ w \div 4 \in 1 .. 64 /\ w \div 8 \in 1 .. 64
  OBVIOUS
<1>4. Bytes(size) \div Bytes(route.elem) \in 1 .. 64
  BY <1>2, <1>3
<1>5. 1 \in 1 .. 64
  OBVIOUS
<1> QED
  BY <1>4, <1>5 DEF ElementCount

LEMMA VectorHeadTyped ==
  ASSUME NEW route \in Rows, NEW elem \in 0 .. 3, NEW m, IsMask(m), NEW reg \in 0 .. 31, NEW size \in 4 .. 6,
         NEW mode \in 0 .. 3
  PROVE  Typed(VectorHead(route, elem, m, reg, size, mode))
<1> DEFINE count == ElementCount(route, size)
           f == Flag(route.aligned, 4)
           f1 == Flag(VPUMaskPresent(m, count), 128)
           f2 == Flag(m.zero, 64)
           f3 == Flag(route.scalar, 32)
<1>1. count \in 1 .. 64 /\ f \in {0, 4} /\ f1 \in {0, 128} /\ f2 \in {0, 64} /\ f3 \in {0, 32}
  BY CountIn, FlagIn
<1>2. VectorHead(route, elem, m, reg, size, mode)
        = Opcode(route) \o Byte(reg * 8 + f + size - 4) \o Byte(f1 + f2 + f3 + elem * 4 + mode) \o MaskPieces(m, count)
  BY DEF VectorHead
<1> HIDE DEF count, f, f1, f2, f3
<1>3. reg * 8 + f + size - 4 \in 0 .. 255 /\ f1 + f2 + f3 + elem * 4 + mode \in 0 .. 255
  BY <1>1
<1>4. Typed(Byte(reg * 8 + f + size - 4)) /\ Typed(Byte(f1 + f2 + f3 + elem * 4 + mode)) /\ Typed(MaskPieces(m, count))
  BY <1>1, <1>3, ByteTyped, MaskTyped
<1> QED
  BY <1>2, <1>4, OpcodeTyped, BothTyped

LEMMA VectorSeen ==
  ASSUME NEW x, IsSeen(x), x.kind = "vreg"
  PROVE  x.id \in 0 .. 31 /\ x.size \in 4 .. 6 /\ (x.size # 6 => x.id \in 0 .. 15)
  BY DEF IsSeen

LEMMA SourceOfVectorTyped ==
  ASSUME NEW x, IsSeen(x), x.kind \in {"vreg", "mem"}
  PROVE  Typed(Source(x)) /\ SourceMode(x) \in 0 .. 1
<1>1. CASE x.kind = "mem"
  BY <1>1 DEF Source, SourceMode, IsSeen
<1>2. CASE x.kind = "vreg"
  <2>1. x.id \in 0 .. 255
    BY <1>2, VectorSeen
  <2> QED
    BY <1>2, <2>1, ByteTyped DEF Source, SourceMode
<1> QED
  BY <1>1, <1>2

LEMMA VectorSources ==
  ASSUME NEW route, NEW x, NEW size, VectorSource(route, x, size)
  PROVE  x.kind \in {"vreg", "mem"}
  BY DEF VectorSource, VectorMem

LEMMA VPUMoveTyped ==
  ASSUME NEW route \in Rows, NEW m, IsMask(m), NEW x, NEW y, IsSeen(x), IsSeen(y)
  PROVE  Typed(VPUMove(route, m, x, y))
<1> DEFINE reg == IF x.kind = "vreg" THEN x ELSE y
           elem == IF ~route.scalar /\ ~VPUMaskPresent(m, ElementCount(route, reg.size)) THEN 3 ELSE route.elem
<1>1. elem \in 0 .. 3
  BY DEF Rows
<1>2. \/ VPUMove(route, m, x, y) = Rejected
      \/ /\ x.kind = "vreg" /\ VectorSource(route, y, x.size)
         /\ VPUMove(route, m, x, y) = VectorHead(route, elem, m, reg.id, reg.size, SourceMode(y)) \o Source(y)
      \/ /\ x.kind = "mem" /\ y.kind = "vreg"
         /\ VPUMove(route, m, x, y) = VectorHead(route, elem, m, reg.id, reg.size, 2) \o Address(x)
  BY DEF VPUMove
<1> HIDE DEF elem
<1>3. ASSUME x.kind = "vreg", VectorSource(route, y, x.size)
      PROVE  Typed(VectorHead(route, elem, m, reg.id, reg.size, SourceMode(y)) \o Source(y))
  <2>1. reg.id \in 0 .. 31 /\ reg.size \in 4 .. 6
    BY <1>3, VectorSeen
  <2>2. Typed(Source(y)) /\ SourceMode(y) \in 0 .. 3
    BY <1>3, VectorSources, SourceOfVectorTyped
  <2> HIDE DEF reg
  <2> QED
    BY <1>1, <2>1, <2>2, VectorHeadTyped, BothTyped
<1>4. ASSUME x.kind = "mem", y.kind = "vreg"
      PROVE  Typed(VectorHead(route, elem, m, reg.id, reg.size, 2) \o Address(x))
  <2>1. reg.id \in 0 .. 31 /\ reg.size \in 4 .. 6 /\ 2 \in 0 .. 3
    BY <1>4, VectorSeen
  <2>2. Typed(Address(x))
    BY <1>4 DEF IsSeen
  <2> HIDE DEF reg
  <2> QED
    BY <1>1, <2>1, <2>2, VectorHeadTyped, BothTyped
<1> QED
  BY <1>2, <1>3, <1>4, RejectedTyped

LEMMA VPUBinaryTyped ==
  ASSUME NEW route \in Rows, NEW m, IsMask(m), NEW args, AllSeen(args)
  PROVE  Typed(VPUBinary(route, m, args))
<1> DEFINE first == IF Len(args) = 2 THEN args[1] ELSE args[2]
           second == args[Len(args)]
           code == VectorHead(route, route.elem, m, args[1].id, args[1].size, SourceMode(second))
                     \o Byte(first.id) \o Source(second)
<1>1. \/ VPUBinary(route, m, args) = Rejected
      \/ /\ Len(args) \in {2, 3} /\ args[1].kind = "vreg" /\ first.kind = "vreg"
         /\ VectorSource(route, second, args[1].size) /\ VPUBinary(route, m, args) = code
  BY DEF VPUBinary
<1>2. ASSUME Len(args) \in {2, 3}, args[1].kind = "vreg", first.kind = "vreg", VectorSource(route, second, args[1].size)
      PROVE  Typed(code)
  <2>1. 1 \in DOMAIN args /\ 2 \in DOMAIN args /\ Len(args) \in DOMAIN args
    BY <1>2 DEF AllSeen
  <2>2. IsSeen(args[1]) /\ IsSeen(first) /\ IsSeen(second)
    BY <2>1 DEF AllSeen
  <2>3. Typed(Source(second)) /\ SourceMode(second) \in 0 .. 3
    BY <1>2, <2>2, VectorSources, SourceOfVectorTyped
  <2>4. args[1].id \in 0 .. 31 /\ args[1].size \in 4 .. 6
    BY <1>2, <2>2, VectorSeen
  <2>5. first.id \in 0 .. 255
    <3>1. first.id \in 0 .. 31
      <4> HIDE DEF first
      <4> QED
        BY <1>2, <2>2, VectorSeen
    <3> HIDE DEF first
    <3> QED
      BY <3>1
  <2>6. route.elem \in 0 .. 3
    BY DEF Rows
  <2> HIDE DEF first, second
  <2>7. Typed(VectorHead(route, route.elem, m, args[1].id, args[1].size, SourceMode(second))) /\ Typed(Byte(first.id))
    BY <2>3, <2>4, <2>5, <2>6, VectorHeadTyped, ByteTyped
  <2> QED
    BY <2>3, <2>7, BothTyped
<1> QED
  BY <1>1, <1>2, RejectedTyped

LEMMA VPUUnaryTyped ==
  ASSUME NEW route \in Rows, NEW m, IsMask(m), NEW x, NEW y, IsSeen(x), IsSeen(y)
  PROVE  Typed(VPUUnary(route, m, x, y))
<1> SUFFICES ASSUME x.kind = "vreg", VectorSource(route, y, x.size)
             PROVE  Typed(VectorHead(route, route.elem, m, x.id, x.size, SourceMode(y)) \o Source(y))
  BY RejectedTyped DEF VPUUnary
<1>1. x.id \in 0 .. 31 /\ x.size \in 4 .. 6 /\ route.elem \in 0 .. 3
  BY VectorSeen DEF Rows
<1>2. Typed(Source(y)) /\ SourceMode(y) \in 0 .. 3
  BY VectorSources, SourceOfVectorTyped
<1> QED
  BY <1>1, <1>2, VectorHeadTyped, BothTyped

LEMMA VPU_FCMPTyped ==
  ASSUME NEW route \in Rows, NEW m, IsMask(m), NEW args, AllSeen(args)
  PROVE  Typed(VPU_FCMP(route, m, args))
<1> DEFINE n == args[Len(args)].val.val
<1> SUFFICES ASSUME Len(args) \in {3, 4}, n \in 0 .. 31
             PROVE  Typed(VPUBinary([route EXCEPT !.ext = <<n>>], m, SubSeq(args, 1, Len(args) - 1)))
  BY RejectedTyped DEF VPU_FCMP
<1>1. [route EXCEPT !.ext = <<n>>] \in Rows
  <2>1. n \in 0 .. 255
    OBVIOUS
  <2> HIDE DEF n
  <2>2. <<n>> \in {<<>>} \cup {<<k>> : k \in 0 .. 255}
    BY <2>1, Zenon
  <2> QED
    BY <2>2, ZenonT(40) DEF Rows
<1>2. AllSeen(SubSeq(args, 1, Len(args) - 1))
  <2> DEFINE t == SubSeq(args, 1, Len(args) - 1)
  <2>0. PICK S : args \in Seq(S)
    BY DEF AllSeen
  <2>1. Len(args) \in Nat /\ DOMAIN args = 1 .. Len(args)
    BY <2>0
  <2>2. DOMAIN t = 1 .. (Len(args) - 1) /\ \A i \in DOMAIN t : t[i] = args[i]
    BY <2>0
  <2>5. t \in Seq(S)
    BY <2>0
  <2>6. \A i \in DOMAIN t : IsSeen(t[i])
    BY <2>1, <2>2 DEF AllSeen
  <2> HIDE DEF t
  <2>7. AllSeen(t)
    BY <2>5, <2>6 DEF AllSeen
  <2> QED
    BY <2>7 DEF t
<1> HIDE DEF n
<1> QED
  BY <1>1, <1>2, VPUBinaryTyped


(* Conversions                                                             *)

LEMMA ScalarModeTyped ==
  ASSUME NEW route \in Rows, Extended1(route, 49), NEW mode \in 0 .. 3
  PROVE  Typed(ScalarMode(route, mode))
<1>1. route.op \in 0 .. 255
  BY DEF Rows
<1>2. route.ext[1] + mode \in 0 .. 255
  <2>1. \A a \in 0 .. 49, k \in 0 .. 3 : a + k \in 0 .. 255
    OBVIOUS
  <2>2. route.ext[1] \in 0 .. 49
    BY DEF Extended1
  <2> QED
    BY <2>1, <2>2
<1> QED
  BY <1>1, <1>2, ByteTyped, BothTyped DEF ScalarMode

LEMMA SidesTyped ==
  ASSUME NEW x, x.id \in 0 .. 15, NEW y, IsSeen(y), y.kind = "mem" \/ y.id \in 0 .. 15
  PROVE  Typed(Sides(x, y))
<1>1. CASE y.kind = "mem"
  <2>1. x.id * 16 \in 0 .. 255
    OBVIOUS
  <2>2. Typed(Address(y))
    BY <1>1 DEF IsSeen
  <2> QED
    BY <1>1, <2>1, <2>2, ByteTyped, BothTyped DEF Sides
<1>2. CASE y.kind # "mem"
  <2>1. x.id * 16 + y.id \in 0 .. 255
    BY <1>2
  <2> QED
    BY <1>2, <2>1, ByteTyped DEF Sides
<1> QED
  BY <1>1, <1>2

LEMMA RegisterIds ==
  ASSUME NEW x, IsSeen(x), Xmm(x) \/ CPUPart(x)
  PROVE  x.id \in 0 .. 15
  BY DEF Xmm, CPUPart, IsSeen

LEMMA SourceModeIn == \A x : SourceMode(x) \in 0 .. 1
  BY DEF SourceMode

LEMMA ScalarConversionsTyped ==
  ASSUME NEW route \in Rows, Extended1(route, 49), NEW x, NEW y, IsSeen(x), IsSeen(y)
  PROVE  /\ Typed(VPUCVT_scalar_f2i(route, x, y))
         /\ Typed(VPUCVT_scalar_i2f(route, x, y))
         /\ Typed(VPUCVT_scalar_f2f(route, x, y))
<1>1. \A n \in {0, 2}, k \in 0 .. 1 : n + k \in 0 .. 3
  OBVIOUS
<1>2. ASSUME Xmm(x) \/ CPUPart(x), y.kind = "mem" \/ Xmm(y) \/ CPUPart(y), NEW mode \in 0 .. 3
      PROVE  Typed(ScalarMode(route, mode) \o Sides(x, y))
  <2>1. x.id \in 0 .. 15 /\ (y.kind = "mem" \/ y.id \in 0 .. 15)
    BY <1>2, RegisterIds
  <2> QED
    BY <2>1, ScalarModeTyped, SidesTyped, BothTyped
<1>3. Typed(VPUCVT_scalar_f2i(route, x, y))
  <2>1. Flag(x.size = 3, 2) \in {0, 2} /\ SourceMode(y) \in 0 .. 1
    BY FlagIn, SourceModeIn
  <2>2. Flag(x.size = 3, 2) + SourceMode(y) \in 0 .. 3
    BY <1>1, <2>1
  <2> QED
    BY <1>2, <2>2, RejectedTyped DEF VPUCVT_scalar_f2i
<1>4. Typed(VPUCVT_scalar_i2f(route, x, y))
  <2>1. Flag(y.size = 3, 2) \in {0, 2} /\ SourceMode(y) \in 0 .. 1
    BY FlagIn, SourceModeIn
  <2>2. Flag(y.size = 3, 2) + SourceMode(y) \in 0 .. 3
    BY <1>1, <2>1
  <2> QED
    BY <1>2, <2>2, RejectedTyped DEF VPUCVT_scalar_i2f
<1>5. Typed(VPUCVT_scalar_f2f(route, x, y))
  <2>1. SourceMode(y) \in 0 .. 1
    BY SourceModeIn
  <2>2. SourceMode(y) \in 0 .. 3
    BY <2>1
  <2> QED
    BY <1>2, <2>2, RejectedTyped DEF VPUCVT_scalar_f2f
<1> QED
  BY <1>3, <1>4, <1>5

LEMMA WidestIn ==
  ASSUME NEW shape \in Shapes, NEW x, NEW y, IsSeen(x), IsSeen(y), x.kind = "vreg",
         \/ y.kind = "vreg" /\ PackedRegs(shape, x, y)
         \/ y.kind = "mem" /\ PackedMem(shape, x, y)
  PROVE  Widest(shape, x, y) \in {4, 5, 6}
<1>1. x.size \in 4 .. 6 /\ (y.kind = "vreg" => y.size \in 4 .. 6)
  BY VectorSeen
<1>2. CASE shape # "narrow"
  BY <1>1, <1>2 DEF Widest
<1>3. CASE shape = "narrow" /\ y.kind = "vreg"
  BY <1>1, <1>3 DEF Widest
<1>4. CASE shape = "narrow" /\ y.kind = "mem" /\ ~y.sized
  BY <1>4 DEF Widest
<1>5. CASE shape = "narrow" /\ y.kind = "mem" /\ y.sized
  <2>1. y.size \in 0 .. 6
    BY <1>5 DEF IsSeen
  <2>2. x.size = y.size - 1
    BY <1>5 DEF PackedMem
  <2> QED
    BY <1>1, <1>5, <2>1, <2>2 DEF Widest
<1> QED
  BY <1>2, <1>3, <1>4, <1>5

LEMMA VPUCVT_packedTyped ==
  ASSUME NEW route \in Rows, Extended1(route, 49), NEW shape \in Shapes, NEW m, IsMask(m),
         NEW x, NEW y, IsSeen(x), IsSeen(y)
  PROVE  Typed(VPUCVT_packed(route, shape, m, x, y))
<1> DEFINE widest == Widest(shape, x, y)
           count == (IF shape = "same" THEN 4 ELSE 2) * 2 ^ (widest - 4)
           f1 == Flag(VPUMaskPresent(m, count), 2)
           f2 == Flag(m.zero, 1)
           code == ScalarMode(route, widest - 4) \o Byte(x.id * 8 + SourceMode(y) * 4 + f1 + f2)
                     \o MaskPieces(m, count) \o Source(y)
<1>1. \/ VPUCVT_packed(route, shape, m, x, y) = Rejected
      \/ /\ x.kind = "vreg"
         /\ \/ y.kind = "vreg" /\ PackedRegs(shape, x, y)
            \/ y.kind = "mem" /\ PackedMem(shape, x, y)
         /\ VPUCVT_packed(route, shape, m, x, y) = code
  BY DEF VPUCVT_packed
<1>2. ASSUME x.kind = "vreg",
             \/ y.kind = "vreg" /\ PackedRegs(shape, x, y)
             \/ y.kind = "mem" /\ PackedMem(shape, x, y)
      PROVE  Typed(code)
  <2>1. widest \in {4, 5, 6}
    BY <1>2, WidestIn
  <2>2. count \in 1 .. 64
    <3> DEFINE k == IF shape = "same" THEN 4 ELSE 2
    <3>1. k \in {2, 4}
      OBVIOUS
    <3>2. 2 ^ (widest - 4) \in {1, 2, 4}
      <4> HIDE DEF widest
      <4>1. 2 ^ 0 = 1 /\ 2 ^ 1 = 2 /\ 2 ^ 2 = 4
        OBVIOUS
      <4>2. widest - 4 \in {0, 1, 2}
        BY <2>1
      <4> QED
        BY <4>1, <4>2
    <3>3. count = k * 2 ^ (widest - 4)
      OBVIOUS
    <3> HIDE DEF k, widest
    <3>4. \A a \in {2, 4}, b \in {1, 2, 4} : a * b \in 1 .. 64
      OBVIOUS
    <3> QED
      BY <3>1, <3>2, <3>3, <3>4
  <2>3. f1 \in {0, 2} /\ f2 \in {0, 1} /\ SourceMode(y) \in 0 .. 1
    BY FlagIn, SourceModeIn
  <2>4. x.id \in 0 .. 31 /\ Typed(Source(y))
    BY <1>2, VectorSeen, SourceOfVectorTyped
  <2> HIDE DEF widest, count, f1, f2
  <2>5. widest - 4 \in 0 .. 3
    BY <2>1
  <2>6. x.id * 8 + SourceMode(y) * 4 + f1 + f2 \in 0 .. 255
    BY <2>3, <2>4
  <2>7. /\ Typed(ScalarMode(route, widest - 4)) /\ Typed(Byte(x.id * 8 + SourceMode(y) * 4 + f1 + f2))
        /\ Typed(MaskPieces(m, count))
    BY <2>2, <2>5, <2>6, ScalarModeTyped, ByteTyped, MaskTyped
  <2> QED
    BY <2>4, <2>7, BothTyped
<1> HIDE DEF code
<1> QED
  BY <1>1, <1>2, RejectedTyped


-----------------------------------------------------------------------------
(* The routing table                                                       *)

LEMMA OpIn ==
  ASSUME NEW name \in Range(OPCode)
  PROVE  Op(name) \in 0 .. 255
<1>1. DOMAIN OPCode = 1 .. 122
  BY DEF OPCode
<1>2. PICK k \in 1 .. 122 : OPCode[k] = name
  BY <1>1 DEF Range
<1> DEFINE c == CHOOSE j \in DOMAIN OPCode : OPCode[j] = name
<1>3. c \in 1 .. 122
  BY <1>1, <1>2
<1>4. Op(name) = IF name = "DEBUG" THEN 255 ELSE c - 1
  BY DEF Op
<1> HIDE DEF c
<1>5. c - 1 \in 0 .. 255 /\ 255 \in 0 .. 255
  BY <1>3
<1> QED
  BY <1>4, <1>5

LEMMA OpsIn ==
  \A name \in {"CMPZ", "CMP", "TRANS", "MOVcc", "VPU_MOV", "VPU_FCMP", "FWAIT", "NOP"} : Op(name) \in 0 .. 255
<1>1. DOMAIN OPCode = 1 .. 122
  BY DEF OPCode
<1>2. OPCode[40] = "CMPZ" /\ OPCode[39] = "CMP" /\ OPCode[8] = "MOVcc" /\ OPCode[1] = "NOP"
  BY DEF OPCode
<1>3. OPCode[122] = "TRANS" /\ OPCode[93] = "VPU_MOV" /\ OPCode[117] = "VPU_FCMP" /\ OPCode[57] = "FWAIT"
  BY DEF OPCode
<1>4. \A k \in {40, 39, 8, 1, 122, 93, 117, 57} : k \in 1 .. 122
  OBVIOUS
<1>5. \A k \in {40, 39, 8, 1, 122, 93, 117, 57} : OPCode[k] \in Range(OPCode)
  BY <1>1, <1>4 DEF Range
<1> QED
  BY <1>2, <1>3, <1>5, OpIn


LEMMA RowTyped ==
  ASSUME NEW form \in Forms, NEW opcode, Op(opcode) \in 0 .. 255
  PROVE  /\ Row(form, opcode) \in Rows
         /\ Row(form, opcode).form = form /\ Row(form, opcode).imm # Forbidden
<1> DEFINE op == Op(opcode)
<1>1. /\ op \in 0 .. 255 /\ AnySize \in 0 .. 15 /\ {} \in SUBSET RowFlags /\ Follows # Forbidden
      /\ 0 \in Int /\ 0 \in 0 .. 3
  BY DEF AnySize, Follows, Forbidden
<1>2. Row(form, opcode)
        = [form |-> form, op |-> op, ext |-> <<>>, mask |-> AnySize, imm |-> Follows, arg |-> 0,
           flags |-> {}, elem |-> 0, maskable |-> FALSE, aligned |-> FALSE, scalar |-> FALSE, wait |-> FALSE]
  BY DEF Row
<1> HIDE DEF op
<1>3. <<>> \in {<<>>} \cup {<<n>> : n \in 0 .. 255}
  OBVIOUS
<1> QED
  BY <1>1, <1>2, <1>3 DEF Rows

LEMMA ExtTyped ==
  ASSUME NEW row \in Rows, NEW n \in 0 .. 255
  PROVE  /\ Ext(row, n) \in Rows /\ Ext(row, n).form = row.form
         /\ Ext(row, n).ext = <<n>> /\ Ext(row, n).imm = row.imm
<1>1. <<n>> \in {<<>>} \cup {<<k>> : k \in 0 .. 255}
  OBVIOUS
<1> QED
  BY <1>1, ZenonT(40) DEF Ext, Rows

LEMMA FlagsTyped ==
  ASSUME NEW row \in Rows, NEW arg \in Int
  PROVE  /\ Flags(row, arg, {}) \in Rows /\ Flags(row, arg, {}).form = row.form
         /\ Flags(row, arg, {}).imm = row.imm
<1>1. {} \in SUBSET RowFlags
  OBVIOUS
<1> QED
  BY <1>1, ZenonT(40) DEF Flags, Rows

LEMMA ScalarTyped ==
  ASSUME NEW row \in Rows, NEW elem \in 0 .. 3
  PROVE  /\ Scalar(row, elem) \in Rows /\ Scalar(row, elem).form = row.form
         /\ Scalar(row, elem).imm = row.imm
  BY ZenonT(40) DEF Scalar, Rows

LEMMA FormTyped ==
  ASSUME NEW row \in Rows, NEW form \in Forms
  PROVE  /\ [row EXCEPT !.form = form] \in Rows /\ [row EXCEPT !.form = form].form = form
         /\ [row EXCEPT !.form = form].imm = row.imm /\ [row EXCEPT !.form = form].ext = row.ext
  BY ZenonT(40) DEF Rows

(* The forms that have no numbers of their own to be right, and those that *)
(* are replaced by others before there is a handler.                       *)
PlainForms ==
  {"NoArgOp", "UnaryOp", "BinaryOp", "TernaryOp", "VPUMove", "VPU_FCMP", "FSTLD_WORD", "MOVx_trans"}
Unrouted == {"CMP", "FNSTSW", "MOVx", "MOVS", "MOVSD", "CMPSD"}

LEMMA PlainRow ==
  ASSUME NEW row \in Rows, row.form \in PlainForms
  PROVE  IsRow(row)
  BY DEF PlainForms, IsRow

IsRouted(r) ==
  /\ IsRow(r.row) /\ AllSeen(r.args) /\ r.row.form \notin Unrouted
  /\ r.row.form = "IMUL" => Len(r.args) \notin {1, 2, 3}

LEMMA PlainRouted ==
  ASSUME NEW row \in Rows, row.form \in PlainForms, NEW args, AllSeen(args)
  PROVE  IsRouted([row |-> row, args |-> args])
<1>1. IsRow(row)
  BY PlainRow
<1>2. row.form \notin Unrouted /\ row.form # "IMUL"
  BY DEF PlainForms, Unrouted
<1> QED
  BY <1>1, <1>2 DEF IsRouted

LEMMA PlainFormsAreForms == PlainForms \subseteq Forms /\ {"IMMRM", "BinaryString"} \subseteq Forms
  BY DEF PlainForms, Forms

LEMMA SmallNumbers == \A n \in {0, 1, 2, 3, 10} : n \in 0 .. 255 /\ n \in Int
  OBVIOUS


LEMMA RoutedTyped ==
  ASSUME NEW row, IsRow(row), NEW args, AllSeen(args)
  PROVE  IsRouted(Routed(row, args))
<1> DEFINE use(chosen) == [row |-> chosen, args |-> args]
           routed == Routed(row, args)
<1>1. row \in Rows
  BY DEF IsRow
<1>2. /\ \A n \in {0, 1, 2, 3, 10} : n \in 0 .. 255 /\ n \in Int
      /\ 3 \in 0 .. 3
  BY SmallNumbers
<1>3. ASSUME NEW form \in PlainForms, NEW name \in {"CMPZ", "CMP", "TRANS", "MOVcc", "VPU_MOV", "VPU_FCMP"}
      PROVE  Row(form, name) \in Rows /\ Row(form, name).form = form
  BY OpsIn, RowTyped, PlainFormsAreForms
<1>4. ASSUME NEW form \in PlainForms
      PROVE  [row EXCEPT !.form = form] \in Rows /\ [row EXCEPT !.form = form].form = form
  BY <1>1, FormTyped, PlainFormsAreForms
<1>5. /\ {"NoArgOp", "UnaryOp", "BinaryOp", "TernaryOp", "VPUMove", "VPU_FCMP", "FSTLD_WORD", "MOVx_trans"} = PlainForms
      /\ "IMMRM" \in Forms /\ "BinaryString" \in Forms
  BY PlainFormsAreForms DEF PlainForms
<1>6. CASE row.form = "IMUL"
  <2>1. CASE Len(args) = 1
    <3> DEFINE r == [row EXCEPT !.form = "IMMRM"]
    <3>1. routed = use(Ext(r, 0))
      BY <1>6, <2>1 DEF Routed
    <3>2. r \in Rows /\ r.form = "IMMRM" /\ r.imm = row.imm
      BY <1>1, <1>5, FormTyped
    <3> HIDE DEF r
    <3>3. Ext(r, 0) \in Rows /\ Ext(r, 0).form = "IMMRM" /\ Ext(r, 0).imm = row.imm
      BY <1>2, <3>2, ExtTyped, SMTT(30)
    <3>4. row.imm # Forbidden
      BY <1>6 DEF IsRow
    <3>5. IsRow(Ext(r, 0))
      BY <3>3, <3>4 DEF IsRow
    <3> HIDE DEF routed
    <3> QED
      BY <3>1, <3>3, <3>5 DEF IsRouted, Unrouted, routed
  <2>2. CASE Len(args) = 2
    <3> DEFINE r == [row EXCEPT !.form = "BinaryOp"]
    <3>1. routed = use(Ext(r, 1))
      BY <1>6, <2>2 DEF Routed
    <3>2. r \in Rows /\ r.form = "BinaryOp"
      BY <1>4, <1>5
    <3> HIDE DEF r
    <3>3. Ext(r, 1) \in Rows /\ Ext(r, 1).form = "BinaryOp"
      BY <1>2, <3>2, ExtTyped
    <3> HIDE DEF routed
    <3> QED
      BY <1>5, <3>1, <3>3, PlainRouted DEF routed
  <2>3. CASE Len(args) = 3
    <3> DEFINE r == [row EXCEPT !.form = "TernaryOp"]
    <3>1. routed = use(Ext(r, 2))
      BY <1>6, <2>3 DEF Routed
    <3>2. r \in Rows /\ r.form = "TernaryOp"
      BY <1>4, <1>5
    <3> HIDE DEF r
    <3>3. Ext(r, 2) \in Rows /\ Ext(r, 2).form = "TernaryOp"
      BY <1>2, <3>2, ExtTyped
    <3> HIDE DEF routed
    <3> QED
      BY <1>5, <3>1, <3>3, PlainRouted DEF routed
  <2>4. CASE Len(args) \notin {1, 2, 3}
    <3>1. routed = use(row)
      BY <1>6, <2>4 DEF Routed
    <3> HIDE DEF routed
    <3> QED
      BY <1>6, <2>4, <3>1 DEF IsRouted, Unrouted, routed
  <2> QED
    BY <2>1, <2>2, <2>3, <2>4
<1>7. CASE row.form = "CMP"
  <2>1. CASE Len(args) = 2 /\ InstantZero(args[2])
    <3>1. routed = [row |-> Row("UnaryOp", "CMPZ"), args |-> <<args[1]>>]
      BY <1>7, <2>1 DEF Routed
    <3>2. AllSeen(<<args[1]>>)
      <4>1. PICK S : args \in Seq(S)
        BY DEF AllSeen
      <4>0. Len(args) = 2
        BY <2>1
      <4>x. 1 \in DOMAIN args /\ args[1] \in S
        BY <4>0, <4>1
      <4>2. <<args[1]>> \in Seq(S) /\ 1 \in DOMAIN args
        BY <4>x
      <4>3. IsSeen(args[1])
        BY <4>2 DEF AllSeen
      <4>4. \A i \in DOMAIN <<args[1]>> : i = 1
        OBVIOUS
      <4>5. <<args[1]>>[1] = args[1]
        OBVIOUS
      <4> DEFINE one == <<args[1]>>
      <4> HIDE DEF one
      <4>6. \A i \in DOMAIN one : IsSeen(one[i])
        BY <4>3, <4>4, <4>5 DEF one
      <4>7. AllSeen(one)
        <5>1. \E T : one \in Seq(T)
          BY <4>2 DEF one
        <5> QED
          BY <4>6, <5>1 DEF AllSeen
      <4> QED
        BY <4>7 DEF one
    <3> HIDE DEF routed
    <3> QED
      BY <1>3, <1>5, <3>1, <3>2, PlainRouted DEF routed
  <2>2. CASE ~(Len(args) = 2 /\ InstantZero(args[2]))
    <3>1. routed = use(Row("BinaryOp", "CMP"))
      BY <1>7, <2>2 DEF Routed
    <3> HIDE DEF routed
    <3> QED
      BY <1>3, <1>5, <3>1, PlainRouted DEF routed
  <2> QED
    BY <2>1, <2>2
<1>8. CASE row.form = "FNSTSW"
  <2>1. CASE args = <<Reg(0, 1)>>
    <3> DEFINE r == [row EXCEPT !.form = "NoArgOp"]
    <3>1. routed = [row |-> Ext(r, 0), args |-> <<>>]
      BY <1>8, <2>1 DEF Routed
    <3>2. r \in Rows /\ r.form = "NoArgOp"
      BY <1>4, <1>5
    <3> HIDE DEF r
    <3>3. Ext(r, 0) \in Rows /\ Ext(r, 0).form = "NoArgOp"
      BY <1>2, <3>2, ExtTyped
    <3>4. AllSeen(<<>>)
      <4>1. <<>> \in Seq({}) /\ DOMAIN <<>> = {}
        OBVIOUS
      <4> QED
        BY <4>1 DEF AllSeen
    <3> HIDE DEF routed
    <3> QED
      BY <1>5, <3>1, <3>3, <3>4, PlainRouted DEF routed
  <2>2. CASE args # <<Reg(0, 1)>>
    <3> DEFINE r == [row EXCEPT !.form = "FSTLD_WORD"]
    <3>1. routed = use(Flags(Ext(r, 1), 1, {}))
      BY <1>8, <2>2 DEF Routed
    <3>2. r \in Rows /\ r.form = "FSTLD_WORD"
      BY <1>4, <1>5
    <3> HIDE DEF r
    <3>3. Ext(r, 1) \in Rows /\ Ext(r, 1).form = "FSTLD_WORD"
      BY <1>2, <3>2, ExtTyped
    <3>4. Flags(Ext(r, 1), 1, {}) \in Rows /\ Flags(Ext(r, 1), 1, {}).form = "FSTLD_WORD"
      BY <1>2, <3>3, FlagsTyped
    <3> HIDE DEF routed
    <3> QED
      BY <1>5, <3>1, <3>4, PlainRouted DEF routed
  <2> QED
    BY <2>1, <2>2
<1>9. CASE row.form = "MOVx"
  <2>1. CASE \E i \in DOMAIN args : args[i].kind = "reg"
    <3> DEFINE r == Row("MOVx_trans", "TRANS")
               q == [r EXCEPT !.arg = row.elem]
    <3>1. routed = use(q)
      BY <1>9, <2>1 DEF Routed
    <3>2. r \in Rows /\ r.form = "MOVx_trans"
      BY <1>3, <1>5
    <3>3. row.elem \in Int
      BY <1>1 DEF Rows
    <3> HIDE DEF r
    <3>4. q \in Rows /\ q.form = "MOVx_trans"
      BY <3>2, <3>3, ZenonT(40) DEF Rows
    <3> HIDE DEF q, routed
    <3> QED
      BY <1>5, <3>1, <3>4, PlainRouted DEF routed
  <2>2. CASE ~\E i \in DOMAIN args : args[i].kind = "reg"
    <3>1. routed = use([row EXCEPT !.form = "VPUMove"])
      BY <1>9, <2>2 DEF Routed
    <3> HIDE DEF routed
    <3> QED
      BY <1>4, <1>5, <3>1, PlainRouted, ZenonT(40) DEF routed
  <2> QED
    BY <2>1, <2>2
<1>10. CASE row.form = "MOVS"
  <2>1. CASE Len(args) = 2 /\ \A i \in DOMAIN args : Addressed(args[i])
    <3> DEFINE r == [row EXCEPT !.form = "BinaryString"]
    <3>1. routed = use(r)
      BY <1>10, <2>1 DEF Routed
    <3>2. r \in Rows /\ r.form = "BinaryString" /\ r.ext = row.ext
      BY <1>1, <1>5, FormTyped
    <3>3. Extended1(row, 11)
      BY <1>10 DEF IsRow
    <3> HIDE DEF r
    <3>4. IsRow(r)
      BY <3>2, <3>3 DEF IsRow, Extended1
    <3> HIDE DEF routed
    <3> QED
      BY <3>1, <3>2, <3>4 DEF IsRouted, Unrouted, routed
  <2>2. CASE ~(Len(args) = 2 /\ \A i \in DOMAIN args : Addressed(args[i]))
    <3> DEFINE r == Row("BinaryOp", "MOVcc")
    <3>1. routed = use(Ext(r, 2))
      BY <1>10, <2>2 DEF Routed
    <3>2. r \in Rows /\ r.form = "BinaryOp"
      BY <1>3, <1>5
    <3> HIDE DEF r
    <3>3. Ext(r, 2) \in Rows /\ Ext(r, 2).form = "BinaryOp"
      BY <1>2, <3>2, ExtTyped
    <3> HIDE DEF routed
    <3> QED
      BY <1>5, <3>1, <3>3, PlainRouted DEF routed
  <2> QED
    BY <2>1, <2>2
<1>11. CASE row.form = "MOVSD"
  <2>1. CASE args = <<>>
    <3> DEFINE r == [row EXCEPT !.form = "NoArgOp"]
    <3>1. routed = use(Ext(r, 2))
      BY <1>11, <2>1 DEF Routed
    <3>2. r \in Rows /\ r.form = "NoArgOp"
      BY <1>4, <1>5
    <3> HIDE DEF r
    <3>3. Ext(r, 2) \in Rows /\ Ext(r, 2).form = "NoArgOp"
      BY <1>2, <3>2, ExtTyped
    <3> HIDE DEF routed
    <3> QED
      BY <1>5, <3>1, <3>3, PlainRouted DEF routed
  <2>2. CASE args # <<>>
    <3> DEFINE r == Row("VPUMove", "VPU_MOV")
    <3>1. routed = use(Scalar(r, 3))
      BY <1>11, <2>2 DEF Routed
    <3>2. r \in Rows /\ r.form = "VPUMove"
      BY <1>3, <1>5
    <3> HIDE DEF r
    <3>3. Scalar(r, 3) \in Rows /\ Scalar(r, 3).form = "VPUMove"
      BY <1>2, <3>2, ScalarTyped
    <3> HIDE DEF routed
    <3> QED
      BY <1>5, <3>1, <3>3, PlainRouted DEF routed
  <2> QED
    BY <2>1, <2>2
<1>12. CASE row.form = "CMPSD"
  <2>1. CASE args = <<>>
    <3> DEFINE r == [row EXCEPT !.form = "NoArgOp"]
    <3>1. routed = use(Ext(r, 10))
      <4>1. 2 * 4 + 2 = 10
        OBVIOUS
      <4> QED
        BY <1>12, <2>1, <4>1 DEF Routed
    <3>2. r \in Rows /\ r.form = "NoArgOp"
      BY <1>4, <1>5
    <3> HIDE DEF r
    <3>3. Ext(r, 10) \in Rows /\ Ext(r, 10).form = "NoArgOp"
      BY <1>2, <3>2, ExtTyped, SMTT(30)
    <3> HIDE DEF routed
    <3> QED
      BY <1>5, <3>1, <3>3, PlainRouted DEF routed
  <2>2. CASE args # <<>>
    <3> DEFINE r == Row("VPU_FCMP", "VPU_FCMP")
    <3>1. routed = use(Scalar(r, 3))
      BY <1>12, <2>2 DEF Routed, FCMPRow
    <3>2. r \in Rows /\ r.form = "VPU_FCMP"
      BY <1>3, <1>5
    <3> HIDE DEF r
    <3>3. Scalar(r, 3) \in Rows /\ Scalar(r, 3).form = "VPU_FCMP"
      BY <1>2, <3>2, ScalarTyped
    <3> HIDE DEF routed
    <3> QED
      BY <1>5, <3>1, <3>3, PlainRouted DEF routed
  <2> QED
    BY <2>1, <2>2
<1>13. CASE row.form \notin Unrouted /\ row.form # "IMUL"
  <2>1. routed = use(row)
    BY <1>13 DEF Routed, Unrouted
  <2> HIDE DEF routed
  <2> QED
    BY <1>13, <2>1 DEF IsRouted, routed
<1> QED
  BY <1>6, <1>7, <1>8, <1>9, <1>10, <1>11, <1>12, <1>13 DEF Unrouted


LEMMA HandledTyped ==
  ASSUME NEW row, IsRow(row), row.form \notin Unrouted, row.form # "IMUL", NEW m, IsMask(m),
         NEW x, AllSeen(x), Len(x) \in Arity(row.form)
  PROVE  Typed(Handled(row, m, x))
<1> DEFINE code == Handled(row, m, x)
<1>0. row \in Rows /\ row.form \in Forms
  BY DEF IsRow, Rows
<1>a. Len(x) = 1 => IsSeen(x[1])
  BY DEF AllSeen
<1>b. Len(x) = 2 => IsSeen(x[1]) /\ IsSeen(x[2])
  BY DEF AllSeen
<1>c. Len(x) = 3 => IsSeen(x[1]) /\ IsSeen(x[2]) /\ IsSeen(x[3])
  BY DEF AllSeen
<1>1. CASE row.form = "NoArgOp"
  <2>1. code = Opcode(row)
    BY <1>1 DEF Handled
  <2> HIDE DEF code
  <2> QED
    BY <1>1, <1>0, <2>1, OpcodeTyped DEF code
<1>2. CASE row.form = "UnaryOp"
  <2>1. Len(x) = 1
    BY <1>2 DEF Arity
  <2>2. code = UnaryOp(row, x[1])
    BY <1>2 DEF Handled
  <2> HIDE DEF code
  <2> QED
    BY <1>2, <1>0, <2>1, <1>a, <2>2, UnaryTyped DEF code
<1>3. CASE row.form = "BinaryOp"
  <2>1. Len(x) = 2
    BY <1>3 DEF Arity
  <2>2. code = (IF row.imm = Forbidden /\ x[2].kind = "imm" THEN Rejected ELSE BinaryOp(row, x[1], x[2]))
    BY <1>3 DEF Handled
  <2> HIDE DEF code
  <2> QED
    BY <1>3, <1>0, <2>1, <1>b, <2>2, BinaryTyped, RejectedTyped DEF code
<1>4. CASE row.form = "BinaryOp_NoBMem"
  <2>1. Len(x) = 2
    BY <1>4 DEF Arity
  <2>2. code = BinaryOp_NoBMem(row, x[1], x[2])
    BY <1>4 DEF Handled
  <2> HIDE DEF code
  <2> QED
    BY <1>4, <1>0, <2>1, <1>b, <2>2, BinaryTyped, RejectedTyped DEF BinaryOp_NoBMem, code
<1>5. CASE row.form = "BinaryOp_R_RM"
  <2>1. Len(x) = 2
    BY <1>5 DEF Arity
  <2>2. code = BinaryOp_R_RM(row, x[1], x[2])
    BY <1>5 DEF Handled
  <2> HIDE DEF code
  <2> QED
    BY <1>5, <1>0, <2>1, <1>b, <2>2, BinaryTyped, RejectedTyped DEF BinaryOp_R_RM, code
<1>6. CASE row.form = "TernaryOp"
  <2>1. Len(x) = 3
    BY <1>6 DEF Arity
  <2>2. code = TernaryOp(row, x[1], x[2], x[3])
    BY <1>6 DEF Handled
  <2> HIDE DEF code
  <2> QED
    BY <1>6, <1>0, <2>1, <1>c, <2>2, TernaryTyped DEF code
<1>7. CASE row.form = "RR_RM"
  <2>1. Len(x) = 3
    BY <1>7 DEF Arity
  <2>2. code = RR_RM(row, x[1], x[2], x[3])
    BY <1>7 DEF Handled
  <2> HIDE DEF code
  <2> QED
    BY <1>7, <1>0, <2>1, <1>c, <2>2, RR_RMTyped DEF code
<1>8. CASE row.form = "IMMRM"
  <2>1. Len(x) = 1
    BY <1>8 DEF Arity
  <2>2. code = IMMRM(row, x[1])
    BY <1>8 DEF Handled
  <2>3. row.imm # Forbidden
    BY <1>8 DEF IsRow
  <2> HIDE DEF code
  <2> QED
    BY <1>8, <1>0, <2>1, <1>a, <2>2, <2>3, IMMRMTyped DEF code
<1>9. CASE row.form = "Shift"
  <2>1. Len(x) = 2
    BY <1>9 DEF Arity
  <2>2. code = Shift(row, x[1], x[2])
    BY <1>9 DEF Handled
  <2> HIDE DEF code
  <2> QED
    BY <1>9, <1>0, <2>1, <1>b, <2>2, ShiftTyped DEF code
<1>10. CASE row.form = "XCHG"
  <2>1. Len(x) = 2
    BY <1>10 DEF Arity
  <2>2. code = XCHG(row, x[1], x[2])
    BY <1>10 DEF Handled
  <2> HIDE DEF code
  <2> QED
    BY <1>10, <1>0, <2>1, <1>b, <2>2, XCHGTyped DEF code
<1>11. CASE row.form = "LEA"
  <2>1. Len(x) = 2
    BY <1>11 DEF Arity
  <2>2. code = LEA(row, x[1], x[2])
    BY <1>11 DEF Handled
  <2> HIDE DEF code
  <2> QED
    BY <1>11, <1>0, <2>1, <1>b, <2>2, LEATyped DEF code
<1>12. CASE row.form = "POP"
  <2>1. Len(x) = 1
    BY <1>12 DEF Arity
  <2>2. code = POP(row, x[1])
    BY <1>12 DEF Handled
  <2> HIDE DEF code
  <2> QED
    BY <1>12, <1>0, <2>1, <1>a, <2>2, POPTyped DEF code
<1>13. CASE row.form = "MOVxX"
  <2>1. Len(x) = 2
    BY <1>13 DEF Arity
  <2>2. code = MOVxX(row, HasFlag(row, "sign"), x[1], x[2])
    BY <1>13 DEF Handled
  <2> HIDE DEF code
  <2> QED
    BY <1>13, <1>0, <2>1, <1>b, <2>2, MOVxXTyped DEF code
<1>14. CASE row.form = "BSx"
  <2>1. Len(x) = 2
    BY <1>14 DEF Arity
  <2>2. code = BSx(row, HasFlag(row, "forward"), x[1], x[2])
    BY <1>14 DEF Handled
  <2> HIDE DEF code
  <2> QED
    BY <1>14, <1>0, <2>1, <1>b, <2>2, BSxTyped DEF code
<1>15. CASE row.form = "MOVx_trans"
  <2>1. Len(x) = 2
    BY <1>15 DEF Arity
  <2>2. code = MOVx_trans(row, row.arg, x[1], x[2])
    BY <1>15 DEF Handled
  <2> HIDE DEF code
  <2> QED
    BY <1>15, <1>0, <2>1, <1>b, <2>2, MOVx_transTyped DEF code
<1>16. CASE row.form = "DEBUG_mem"
  <2>1. Len(x) = 2
    BY <1>16 DEF Arity
  <2>2. code = DEBUG_mem(row, x[1], x[2])
    BY <1>16 DEF Handled
  <2> HIDE DEF code
  <2> QED
    BY <1>16, <1>0, <2>1, <1>b, <2>2, DEBUG_memTyped DEF code
<1>17. CASE row.form = "BinaryString"
  <2>1. Len(x) = 2
    BY <1>17 DEF Arity
  <2>2. code = BinaryString(row, x[1], x[2])
    BY <1>17 DEF Handled
  <2>3. Extended1(row, 11)
    BY <1>17 DEF IsRow
  <2> HIDE DEF code
  <2> QED
    BY <1>17, <1>0, <2>1, <1>b, <2>2, <2>3, StringsTyped DEF code
<1>18. CASE row.form = "LODS_string"
  <2>1. Len(x) = 1
    BY <1>18 DEF Arity
  <2>2. code = LODS_string(row, x[1])
    BY <1>18 DEF Handled
  <2>3. Extended1(row, 11)
    BY <1>18 DEF IsRow
  <2> HIDE DEF code
  <2> QED
    BY <1>18, <1>0, <2>1, <1>a, <2>2, <2>3, StringsTyped DEF code
<1>19. CASE row.form = "UnaryString"
  <2>1. Len(x) = 1
    BY <1>19 DEF Arity
  <2>2. code = UnaryString(row, x[1])
    BY <1>19 DEF Handled
  <2>3. Extended1(row, 11)
    BY <1>19 DEF IsRow
  <2> HIDE DEF code
  <2> QED
    BY <1>19, <1>0, <2>1, <1>a, <2>2, <2>3, StringsTyped DEF code
<1>20. CASE row.form = "FPUBinaryOp"
  <2>1. Len(x) \in 0 .. 2
    BY <1>20 DEF Arity
  <2>2. code = FPUBinaryOp(row, HasFlag(row, "integral"), HasFlag(row, "pop"), x)
    BY <1>20 DEF Handled
  <2>3. \A flag : HasFlag(row, flag) \in BOOLEAN
    BY DEF HasFlag
  <2> HIDE DEF code
  <2> QED
    BY <1>20, <1>0, <2>1, <2>2, <2>3, FPUBinaryTyped DEF code
<1>21. CASE row.form = "FPURegisterOp"
  <2>1. Len(x) = 1
    BY <1>21 DEF Arity
  <2>2. code = FPURegisterOp(row, x[1])
    BY <1>21 DEF Handled
  <2> HIDE DEF code
  <2> QED
    BY <1>21, <1>0, <2>1, <1>a, <2>2, FPURegisterTyped DEF code
<1>22. CASE row.form = "FSTLD_WORD"
  <2>1. Len(x) = 1
    BY <1>22 DEF Arity
  <2>2. code = FSTLD_WORD(row, row.arg, x[1])
    BY <1>22 DEF Handled
  <2> HIDE DEF code
  <2> QED
    BY <1>22, <1>0, <2>1, <1>a, <2>2, FSTLD_WORDTyped DEF code
<1>23. CASE row.form = "FLD"
  <2>1. Len(x) = 1
    BY <1>23 DEF Arity
  <2>2. code = FLD(row, HasFlag(row, "integral"), x[1])
    BY <1>23 DEF Handled
  <2>3. \A flag : HasFlag(row, flag) \in BOOLEAN
    BY DEF HasFlag
  <2> HIDE DEF code
  <2> QED
    BY <1>23, <1>0, <2>1, <1>a, <2>2, <2>3, FLDTyped DEF code
<1>24. CASE row.form = "FST"
  <2>1. Len(x) = 1
    BY <1>24 DEF Arity
  <2>2. code = FST(row, HasFlag(row, "integral"), HasFlag(row, "pop"), HasFlag(row, "trunc"), x[1])
    BY <1>24 DEF Handled
  <2>3. \A flag : HasFlag(row, flag) \in BOOLEAN
    BY DEF HasFlag
  <2> HIDE DEF code
  <2> QED
    BY <1>24, <1>0, <2>1, <1>a, <2>2, <2>3, FSTTyped DEF code
<1>25. CASE row.form = "FXCH"
  <2>1. Len(x) \in 0 .. 1
    BY <1>25 DEF Arity
  <2>2. code = FXCH(row, x)
    BY <1>25 DEF Handled
  <2> HIDE DEF code
  <2> QED
    BY <1>25, <1>0, <2>1, <2>2, FXCHTyped DEF code
<1>26. CASE row.form = "FMOVcc"
  <2>1. Len(x) = 2
    BY <1>26 DEF Arity
  <2>2. code = FMOVcc(row, row.arg, x[1], x[2])
    BY <1>26 DEF Handled
  <2>3. row.arg \in 0 .. 7
    BY <1>26 DEF IsRow
  <2> HIDE DEF code
  <2> QED
    BY <1>26, <1>0, <2>1, <1>b, <2>2, <2>3, FMOVccTyped DEF code
<1>27. CASE row.form = "FCOM"
  <2>1. Len(x) \in 0 .. 2
    BY <1>27 DEF Arity
  <2>2. code = FCOM(row, HasFlag(row, "integral"), row.arg, HasFlag(row, "eflags"), HasFlag(row, "unordered"), x)
    BY <1>27 DEF Handled
  <2>3. row.arg \in 0 .. 2
    BY <1>27 DEF IsRow
  <2>4. \A flag : HasFlag(row, flag) \in BOOLEAN
    BY DEF HasFlag
  <2> HIDE DEF code
  <2> QED
    BY <1>27, <1>0, <2>1, <2>2, <2>3, <2>4, FCOMTyped DEF code
<1>28. CASE row.form = "VPUMove"
  <2>1. Len(x) = 2
    BY <1>28 DEF Arity
  <2>2. code = VPUMove(row, m, x[1], x[2])
    BY <1>28 DEF Handled
  <2> HIDE DEF code
  <2> QED
    BY <1>28, <1>0, <2>1, <1>b, <2>2, VPUMoveTyped DEF code
<1>29. CASE row.form = "VPUBinary"
  <2>1. code = VPUBinary(row, m, x)
    BY <1>29 DEF Handled
  <2> HIDE DEF code
  <2> QED
    BY <1>29, <1>0, <2>1, VPUBinaryTyped DEF code
<1>30. CASE row.form = "VPUBinary_2arg"
  <2>1. code = VPUBinary(row, m, x)
    BY <1>30 DEF Handled
  <2> HIDE DEF code
  <2> QED
    BY <1>30, <1>0, <2>1, VPUBinaryTyped DEF code
<1>31. CASE row.form = "VPUUnary"
  <2>1. Len(x) = 2
    BY <1>31 DEF Arity
  <2>2. code = VPUUnary(row, m, x[1], x[2])
    BY <1>31 DEF Handled
  <2> HIDE DEF code
  <2> QED
    BY <1>31, <1>0, <2>1, <1>b, <2>2, VPUUnaryTyped DEF code
<1>32. CASE row.form = "VPU_FCMP"
  <2>1. code = VPU_FCMP(row, m, x)
    BY <1>32 DEF Handled
  <2> HIDE DEF code
  <2> QED
    BY <1>32, <1>0, <2>1, VPU_FCMPTyped DEF code
<1>33. CASE row.form = "VPUCVT_scalar_f2i"
  <2>1. Len(x) = 2
    BY <1>33 DEF Arity
  <2>2. code = VPUCVT_scalar_f2i(row, x[1], x[2])
    BY <1>33 DEF Handled
  <2>3. Extended1(row, 49)
    BY <1>33 DEF IsRow
  <2> HIDE DEF code
  <2> QED
    BY <1>33, <1>0, <2>1, <1>b, <2>2, <2>3, ScalarConversionsTyped DEF code
<1>34. CASE row.form = "VPUCVT_scalar_i2f"
  <2>1. Len(x) = 2
    BY <1>34 DEF Arity
  <2>2. code = VPUCVT_scalar_i2f(row, x[1], x[2])
    BY <1>34 DEF Handled
  <2>3. Extended1(row, 49)
    BY <1>34 DEF IsRow
  <2> HIDE DEF code
  <2> QED
    BY <1>34, <1>0, <2>1, <1>b, <2>2, <2>3, ScalarConversionsTyped DEF code
<1>35. CASE row.form = "VPUCVT_scalar_f2f"
  <2>1. Len(x) = 2
    BY <1>35 DEF Arity
  <2>2. code = VPUCVT_scalar_f2f(row, x[1], x[2])
    BY <1>35 DEF Handled
  <2>3. Extended1(row, 49)
    BY <1>35 DEF IsRow
  <2> HIDE DEF code
  <2> QED
    BY <1>35, <1>0, <2>1, <1>b, <2>2, <2>3, ScalarConversionsTyped DEF code
<1>36. CASE row.form = "VPUCVT_packed"
  <2>1. Len(x) = 2
    BY <1>36 DEF Arity
  <2>2. PICK s \in Shapes : row.flags = {s}
    BY <1>36 DEF IsRow
  <2>3. code = VPUCVT_packed(row, CHOOSE t \in {s} : TRUE, m, x[1], x[2])
    BY <1>36, <2>2 DEF Handled
  <2>4. (CHOOSE t \in {s} : TRUE) = s
    OBVIOUS
  <2>5. Extended1(row, 49)
    BY <1>36 DEF IsRow
  <2> HIDE DEF code
  <2> QED
    BY <1>0, <1>b, <2>1, <2>2, <2>3, <2>4, <2>5, VPUCVT_packedTyped DEF code
<1> QED
  BY <1>0, <1>1, <1>2, <1>3, <1>4, <1>5, <1>6, <1>7, <1>8, <1>9, <1>10, <1>11, <1>12, <1>13, <1>14, <1>15, <1>16, <1>17, <1>18, <1>19, <1>20, <1>21, <1>22, <1>23, <1>24, <1>25, <1>26, <1>27, <1>28, <1>29, <1>30, <1>31, <1>32, <1>33, <1>34, <1>35, <1>36 DEF Forms, Unrouted


LEMMA CodedTyped ==
  ASSUME NEW r, IsRouted(r), NEW m, IsMask(m)
  PROVE  Typed(Coded(r, m))
<1>1. Typed(IF r.row.wait THEN Byte(Op("FWAIT")) ELSE <<>>)
  BY OpsIn, ByteTyped, NothingTyped
<1>2. ASSUME Len(r.args) \in Arity(r.row.form)
      PROVE  Typed(Handled(r.row, m, r.args))
  <2>1. r.row.form # "IMUL"
    <3> SUFFICES ASSUME r.row.form = "IMUL" PROVE FALSE
      OBVIOUS
    <3>1. Len(r.args) = 2
      BY <1>2 DEF Arity
    <3> QED
      BY <3>1 DEF IsRouted
  <2> QED
    BY <1>2, <2>1, HandledTyped DEF IsRouted
<1>3. \/ Coded(r, m) = Rejected
      \/ /\ Len(r.args) \in Arity(r.row.form)
         /\ Coded(r, m) = (IF r.row.wait THEN Byte(Op("FWAIT")) ELSE <<>>) \o Handled(r.row, m, r.args)
  BY DEF Coded
<1> QED
  BY <1>1, <1>2, <1>3, BothTyped, RejectedTyped

LEMMA CodeTyped ==
  ASSUME NEW name \in DOMAIN asm_routing_table, NEW m, IsMask(m), NEW args, AllSeen(args)
  PROVE  Typed(CodeOf(name, m, args))
<1>1. IsRow(asm_routing_table[name])
  BY TableAssumption
<1>2. Typed(Coded(Routed(asm_routing_table[name], args), m))
  BY <1>1, RoutedTyped, CodedTyped
<1> QED
  BY <1>2, RejectedTyped DEF CodeOf

-----------------------------------------------------------------------------
(* The operands, whether or not there is a code for their addresses        *)

(* A place the walk over the registers may be at                           *)
IsPlace(x) ==
  /\ x = [r1 |-> x.r1, r2 |-> x.r2, m1 |-> x.m1, ok |-> x.ok]
  /\ x.r1 \in {Unused} \cup 0 .. 15 /\ x.r2 \in {Unused} \cup 0 .. 15 /\ x.m1 \in 0 .. 3 /\ x.ok \in BOOLEAN

LEMMA NoPlace == IsPlace(NoSlots)
  BY DEF IsPlace, NoSlots

LEMMA PlacedTyped ==
  ASSUME NEW x, IsPlace(x), NEW id \in 0 .. 15, NEW k
  PROVE  IsPlace(Place(x, id, k))
<1> DEFINE first == IF k % 2 = 1 THEN PlaceTrivial(x, id) ELSE x
           scaled == k - (k % 2)
<1>1. IsPlace(PlaceTrivial(x, id))
  BY DEF PlaceTrivial, IsPlace
<1>2. IsPlace(first)
  BY <1>1
<1> HIDE DEF first, scaled
<1>3. \A j \in DOMAIN ScaleCode : ScaleCode[j] \in 0 .. 3
  BY DEF ScaleCode
<1>4. IsPlace(PlaceScaled(first, id, scaled))
  BY <1>2, <1>3 DEF PlaceScaled, IsPlace
<1>5. Place(x, id, k) = IF scaled = 0 THEN first ELSE PlaceScaled(first, id, scaled)
  BY DEF Place, first, scaled
<1> QED
  BY <1>2, <1>4, <1>5


LEMMA SlotsTyped ==
  ASSUME NEW addr, NEW n \in Nat, NEW order, IsOrder(order, n)
  PROVE  IsPlace(Slots(addr, order))
<1>1. DOMAIN order = 1 .. n /\ \A k \in 1 .. n : order[k][1] \in 0 .. 15
  BY DEF IsOrder
<1>2. PICK s : /\ s[0] = NoSlots
               /\ \A k \in 1 .. n : s[k] = Place(s[k - 1], order[k][1], Multiplier(addr, order[k]))
               /\ s[n] = Slots(addr, order)
  BY <1>1, SlotsWalk
<1> DEFINE T == {k \in Nat : IsPlace(s[k])}
<1>3. 0 \in T
  BY <1>2, NoPlace
<1>4. ASSUME NEW k \in 0 .. (n - 1), k \in T PROVE k + 1 \in T
  <2> DEFINE j == k + 1
  <2>1. j \in 1 .. n /\ j - 1 = k /\ j \in Nat
    OBVIOUS
  <2> HIDE DEF j
  <2>2. s[j] = Place(s[k], order[j][1], Multiplier(addr, order[j])) /\ IsPlace(s[k]) /\ order[j][1] \in 0 .. 15
    BY <1>1, <1>2, <1>4, <2>1
  <2>3. IsPlace(s[j])
    BY <2>2, PlacedTyped
  <2> QED
    BY <2>1, <2>3 DEF j
<1> HIDE DEF T
<1>5. n \in T
  <2>1. 0 .. n \subseteq T
    BY <1>3, <1>4, InductTo
  <2> QED
    BY <2>1
<1> QED
  BY <1>2, <1>5 DEF T

LEMMA AddressPiecesTyped ==
  ASSUME NEW a \in 0 .. 255, NEW b \in 0 .. 255, NEW base \in Values
  PROVE  Typed(AddressPieces(a, b, base))
<1>1. (a \div 4) % 4 \in 0 .. 3
  OBVIOUS
<1>2. Typed(ExprPiece(Bytes((a \div 4) % 4), base))
  BY <1>1, SizedExprTyped
<1>3. Typed(IF a >= 128 THEN ExprPiece(Bytes((a \div 4) % 4), base) ELSE <<>>)
  BY <1>2, NothingTyped
<1>4. Typed(IF a % 4 # 0 THEN Byte(b) ELSE <<>>) /\ Typed(Byte(a))
  BY ByteTyped, NothingTyped
<1> QED
  BY <1>3, <1>4, BothTyped DEF AddressPieces

LEMMA ParsedAddressTyped ==
  ASSUME NEW addr, IsAddress(addr), NEW n \in Nat, NEW order, IsOrder(order, n)
  PROVE  LET p == ParsedAddress(addr, order)
         IN  p.a \in 0 .. 255 /\ p.b \in 0 .. 255 /\ p.base \in Values
<1> DEFINE slots == Slots(addr, order)
           p == ParsedAddress(addr, order)
           used(r) == IF r = Unused THEN 0 ELSE 1
           based == IF addr.base.known # "now" \/ addr.base.float \/ addr.base.val # 0 THEN 128 ELSE 0
           size == AddressSize(addr)
<1>1. slots.r1 \in {Unused} \cup 0 .. 15 /\ slots.r2 \in {Unused} \cup 0 .. 15 /\ slots.m1 \in 0 .. 3
  BY SlotsTyped DEF IsPlace
<1>2. size \in 0 .. 3
  <2>1. RegisterSizes(addr) \subseteq 0 .. 3
    BY DEF RegisterSizes, IsAddress
  <2>2. CASE RegisterSizes(addr) = {}
    BY <2>2 DEF AddressSize
  <2>3. CASE RegisterSizes(addr) # {}
    <3> DEFINE R == RegisterSizes(addr)
    <3>1. size = CHOOSE s \in R : TRUE
      BY <2>3 DEF AddressSize
    <3> HIDE DEF R
    <3>2. (CHOOSE s \in R : TRUE) \in R
      BY <2>3 DEF R
    <3> QED
      BY <2>1, <3>1, <3>2 DEF R
  <2> QED
    BY <2>2, <2>3
<1>3. /\ p.a = based + slots.m1 * 16 + size * 4 + used(slots.r1) * 2 + used(slots.r2)
      /\ p.b = used(slots.r1) * slots.r1 * 16 + used(slots.r2) * slots.r2
      /\ p.base = addr.base
  BY DEF ParsedAddress
<1>4. based \in {0, 128} /\ \A r : used(r) \in {0, 1}
  OBVIOUS
<1>5. used(slots.r1) * slots.r1 \in 0 .. 15 /\ used(slots.r2) * slots.r2 \in 0 .. 15
  BY <1>1 DEF Unused
<1> DEFINE u1 == used(slots.r1)
           u2 == used(slots.r2)
           v1 == u1 * slots.r1
           v2 == u2 * slots.r2
<1>6. u1 \in {0, 1} /\ u2 \in {0, 1} /\ v1 \in 0 .. 15 /\ v2 \in 0 .. 15
  BY <1>4, <1>5
<1>7. p.a = based + slots.m1 * 16 + size * 4 + u1 * 2 + u2 /\ p.b = v1 * 16 + v2
  BY <1>3
<1> HIDE DEF v1, v2
<1> HIDE DEF u1, u2
<1> HIDE DEF used, based, size, p, slots
<1>8. p.a \in 0 .. 255
  BY <1>1, <1>2, <1>4, <1>6, <1>7
<1>9. p.b \in 0 .. 255
  BY <1>6, <1>7
<1>10. p.base \in Values
  BY <1>3, ExpressionsAreValues DEF IsAddress
<1> QED
  BY <1>8, <1>9, <1>10 DEF p

LEMMA OperandSeen ==
  ASSUME NEW x, IsOperand(x), x.kind # "mem"
  PROVE  IsSeen(x)
<1>1. ASSUME x.kind = "reg" PROVE x.id \in 0 .. 15 /\ x.size \in 0 .. 3 /\ x.high \in 0 .. 1
  BY <1>1 DEF IsOperand, CPURegisterInfo, Reg, HighReg
<1>2. ASSUME x.kind = "st" PROVE x.id \in 0 .. 7
  BY <1>2 DEF IsOperand, FPURegisterInfo, St
<1>3. ASSUME x.kind = "vreg" PROVE x.id \in 0 .. 31 /\ x.size \in 4 .. 6 /\ (x.size # 6 => x.id \in 0 .. 15)
  <2>1. x \in {VReg(id, size) : id \in 0 .. 15, size \in {4, 5}} \cup {VReg(id, 6) : id \in 0 .. 31}
    BY <1>3 DEF IsOperand, VPURegisterInfo
  <2>2. CASE x \in {VReg(id, size) : id \in 0 .. 15, size \in {4, 5}}
    BY <2>2 DEF VReg
  <2>3. CASE x \in {VReg(id, 6) : id \in 0 .. 31}
    BY <2>3 DEF VReg
  <2> QED
    BY <2>1, <2>2, <2>3
<1>4. ASSUME x.kind = "imm" PROVE x.size \in 0 .. 3 /\ x.val \in Values
  <2>1. x.size \in 0 .. 3 /\ x.val \in Expressions
    BY <1>4 DEF IsOperand
  <2> QED
    BY <2>1, ExpressionsAreValues
<1> QED
  BY <1>1, <1>2, <1>3, <1>4 DEF IsSeen

LEMMA ParsedTyped ==
  ASSUME NEW args, IsArgs(args), NEW order \in SetToSeqs(Registers(args))
  PROVE  AllSeen(Parsed(args, order))
<1> DEFINE seen == Parsed(args, order)
<1>1. Len(args) \in Nat /\ DOMAIN args = 1 .. Len(args)
  BY Arguments
<1>2. seen = [i \in 1 .. Len(args) |->
                IF ~Addressed(args[i]) THEN args[i]
                ELSE [kind |-> "mem", size |-> args[i].size, sized |-> args[i].sized,
                      addr |-> ParsedAddress(args[i].addr, order)]]
  BY <1>1 DEF Parsed
<1>3. PICK n \in Nat : IsOrder(order, n)
  BY OrderOfRegisters
<1>4. ASSUME NEW i \in 1 .. Len(args) PROVE IsSeen(seen[i])
  <2>1. IsOperand(args[i])
    BY Arguments
  <2>2. CASE ~Addressed(args[i])
    <3>1. seen[i] = args[i] /\ args[i].kind # "mem"
      BY <1>2, <2>2 DEF Addressed
    <3> HIDE DEF seen
    <3> QED
      BY <2>1, <3>1, OperandSeen
  <2>3. CASE Addressed(args[i])
    <3> DEFINE p == ParsedAddress(args[i].addr, order)
    <3>1. seen[i] = [kind |-> "mem", size |-> args[i].size, sized |-> args[i].sized, addr |-> p]
      BY <1>2, <2>3
    <3>2. IsAddress(args[i].addr) /\ args[i].size \in 0 .. 6
      BY <2>1, <2>3 DEF Addressed, IsOperand
    <3>3. p.a \in 0 .. 255 /\ p.b \in 0 .. 255 /\ p.base \in Values
      BY <1>3, <3>2, ParsedAddressTyped
    <3> HIDE DEF seen, p
    <3>4. seen[i].kind = "mem" /\ seen[i].size \in 0 .. 6 /\ seen[i].addr = p
      BY <3>1, <3>2
    <3>5. Typed(Address(seen[i]))
      BY <3>3, <3>4, AddressPiecesTyped, Zenon DEF Address
    <3> QED
      BY <3>3, <3>4, <3>5 DEF IsSeen
  <2> QED
    BY <2>2, <2>3
<1>5. \E S : seen \in Seq(S)
  <2> DEFINE S == {seen[i] : i \in 1 .. Len(args)}
  <2>1. DOMAIN seen = 1 .. Len(args)
    BY <1>2
  <2>2. \A i \in 1 .. Len(args) : seen[i] \in S
    OBVIOUS
  <2>3. seen = [i \in 1 .. Len(args) |-> seen[i]]
    BY <1>2
  <2> HIDE DEF S, seen
  <2>4. seen \in [1 .. Len(args) -> S]
    BY <2>1, <2>2, <2>3
  <2>5. seen \in Seq(S)
    BY <1>1, <2>4
  <2> QED
    BY <2>5
<1>6. DOMAIN seen = 1 .. Len(args)
  BY <1>2
<1> HIDE DEF seen
<1>7. AllSeen(seen)
  BY <1>4, <1>5, <1>6 DEF AllSeen
<1> QED
  BY <1>7 DEF seen


-----------------------------------------------------------------------------
(* Text and holes                                                          *)

Texts == Seq(0 .. 255)
Holes == [at : Nat \ {0}, size : 1 .. 8, expr : Values]
HolesIn(n) == {h \in Holes : h.at + h.size <= n + 1}
IsCode(code) ==
  /\ code = [text |-> code.text, holes |-> code.holes, ok |-> code.ok]
  /\ code.text \in Texts /\ code.ok \in BOOLEAN
  /\ code.holes \in Seq(HolesIn(Len(code.text)))

LEMMA LaterHoles ==
  ASSUME NEW n \in Nat, NEW m \in Nat, n <= m
  PROVE  HolesIn(n) \subseteq HolesIn(m)
  BY DEF HolesIn, Holes

LEMMA BytesAreBytes ==
  ASSUME NEW e \in Values, NEW n \in 1 .. 8, NEW k \in 1 .. n, e.float => n \in {4, 8}
  PROVE  BytesOf(e, n)[k] \in 0 .. 255
<1>1. CASE e.float
  <2>1. n \in {4, 8}
    BY <1>1
  <2>2. CASE n = 8
    <3>1. BytesOf(e, n) = <<0, 0, 0, 0, 0, 0, 248, 63>>
      BY <1>1, <2>2 DEF BytesOf, FloatBytes
    <3>2. \A j \in 1 .. 8 : <<0, 0, 0, 0, 0, 0, 248, 63>>[j] \in 0 .. 255
      OBVIOUS
    <3> QED
      BY <2>2, <3>1, <3>2
  <2>3. CASE n = 4
    <3>1. BytesOf(e, n) = <<0, 0, 192, 63>>
      BY <1>1, <2>3 DEF BytesOf, FloatBytes
    <3>2. \A j \in 1 .. 4 : <<0, 0, 192, 63>>[j] \in 0 .. 255
      OBVIOUS
    <3> QED
      BY <2>3, <3>1, <3>2
  <2> QED
    BY <2>1, <2>2, <2>3
<1>2. CASE ~e.float
  <2>1. BytesOf(e, n)[k] = IF k <= 3 THEN (e.val \div 256 ^ (k - 1)) % 256 ELSE IF e.val < 0 THEN 255 ELSE 0
    BY <1>2 DEF BytesOf, IntegerBytes
  <2>2. e.val \in Int
    BY DEF Values
  <2>3. CASE k > 3
    BY <2>1, <2>3
  <2>4. CASE k <= 3
    <3>1. \A v \in Int : v % 256 \in 0 .. 255
      OBVIOUS
    <3> DEFINE D == Nat \ {0}
    <3>2. 256 ^ 0 \in D /\ 256 ^ 1 \in D /\ 256 ^ 2 \in D
      OBVIOUS
    <3>5. \A v \in Int, d \in D : v \div d \in Int
      OBVIOUS
    <3> HIDE DEF D
    <3>3. k - 1 = 0 \/ k - 1 = 1 \/ k - 1 = 2
      BY <2>4
    <3> DEFINE w == 256 ^ (k - 1)
    <3>4. w \in D
      BY <3>2, <3>3, Zenon
    <3> HIDE DEF w
    <3>6. e.val \div w \in Int
      BY <2>2, <3>4, <3>5
    <3>7. (e.val \div w) % 256 \in 0 .. 255
      BY <3>1, <3>6
    <3> QED
      BY <2>1, <2>4, <3>7 DEF w
  <2> QED
    BY <2>3, <2>4
<1> QED
  BY <1>1, <1>2

LEMMA PatchedTyped ==
  ASSUME NEW t \in Texts, NEW h \in Holes, ~Unpatchable(h)
  PROVE  Patched(t, h) \in Texts /\ Len(Patched(t, h)) = Len(t)
<1> DEFINE n == Len(t)
           p == Patched(t, h)
<1>1. n \in Nat /\ DOMAIN t = 1 .. n /\ \A i \in 1 .. n : t[i] \in 0 .. 255
  <2>1. t \in Seq(0 .. 255)
    BY DEF Texts
  <2>2. n \in Nat /\ DOMAIN t = 1 .. n
    BY <2>1
  <2> HIDE DEF p
  <2>3. ASSUME NEW i \in 1 .. n PROVE t[i] \in 0 .. 255
    <3> DEFINE S == 0 .. 255
    <3> HIDE DEF S
    <3>1. t \in Seq(S)
      BY <2>1 DEF S
    <3>2. t[i] \in S
      BY <3>1
    <3> QED
      BY <3>2 DEF S
  <2> QED
    BY <2>2, <2>3
<1>2. p = [i \in 1 .. n |-> IF i \in h.at .. (h.at + h.size - 1) THEN BytesOf(h.expr, h.size)[i - h.at + 1] ELSE t[i]]
  BY <1>1 DEF Patched
<1>3. ASSUME NEW i \in 1 .. n PROVE p[i] \in 0 .. 255
  <2>1. CASE i \in h.at .. (h.at + h.size - 1)
    <3> DEFINE k == i - h.at + 1
    <3>1. p[i] = BytesOf(h.expr, h.size)[k]
      BY <1>2, <2>1
    <3>2. h.size \in 1 .. 8 /\ h.expr \in Values /\ (h.expr.float => h.size \in {4, 8}) /\ h.at \in Nat
      BY DEF Holes, Unpatchable
    <3>3. k \in 1 .. h.size
      BY <2>1, <3>2, SMTT(30)
    <3> HIDE DEF k, p
    <3>4. BytesOf(h.expr, h.size)[k] \in 0 .. 255
      BY <3>2, <3>3, BytesAreBytes, ZenonT(40)
    <3> QED
      BY <3>1, <3>4
  <2>2. CASE i \notin h.at .. (h.at + h.size - 1)
    <3>1. p[i] = t[i]
      BY <1>2, <2>2
    <3> HIDE DEF p
    <3> QED
      BY <1>1, <3>1
  <2> QED
    BY <2>1, <2>2
<1>4. p = [i \in 1 .. n |-> p[i]]
  BY <1>2
<1> HIDE DEF n, p
<1>5. p \in [1 .. n -> 0 .. 255]
  BY <1>3, <1>4
<1>6. p \in Seq(0 .. 255) /\ Len(p) = n
  BY <1>1, <1>5
<1> QED
  BY <1>6 DEF p, n, Texts

LEMMA BlankTyped ==
  ASSUME NEW t \in Texts
  PROVE  IsCode(Blank(t))
<1>1. <<>> \in Seq(HolesIn(Len(t)))
  OBVIOUS
<1> QED
  BY <1>1 DEF IsCode, Blank

LEMMA SameHoles ==
  ASSUME NEW n \in Nat, NEW m \in Nat, n <= m, NEW hs \in Seq(HolesIn(n))
  PROVE  hs \in Seq(HolesIn(m))
<1>1. HolesIn(n) \subseteq HolesIn(m)
  BY LaterHoles
<1> DEFINE A == HolesIn(n)
           B0 == HolesIn(m)
<1> HIDE DEF A, B0
<1>2. A \subseteq B0 /\ hs \in Seq(A)
  BY <1>1 DEF A, B0
<1>3. hs \in Seq(B0)
  BY <1>2
<1> QED
  BY <1>3 DEF B0

LEMMA Append1Typed ==
  ASSUME NEW code, IsCode(code), NEW p \in Pieces
  PROVE  IsCode(Append1(code, p))
<1> DEFINE hole == Hole(Len(code.text) + 1, p.size, p.val)
           t == code.text \o [k \in 1 .. p.size |-> 255]
           next == Append1(code, p)
           n == Len(code.text)
<1>1. /\ code = [text |-> code.text, holes |-> code.holes, ok |-> code.ok]
      /\ code.text \in Texts /\ code.ok \in BOOLEAN /\ n \in Nat
      /\ code.holes \in Seq(HolesIn(n))
  BY DEF IsCode, Texts
<1>2. CASE p.kind = "byte"
  <2>1. next = [code EXCEPT !.text = Append(@, p.val)]
    BY <1>2 DEF Append1
  <2>2. next = [text |-> Append(code.text, p.val), holes |-> code.holes, ok |-> code.ok]
    BY <1>1, <2>1
  <2>3. p.val \in 0 .. 255
    BY <1>2 DEF Pieces
  <2>4. Append(code.text, p.val) \in Texts /\ Len(Append(code.text, p.val)) = n + 1
    BY <1>1, <2>3 DEF Texts
  <2>5. code.holes \in Seq(HolesIn(n + 1))
    BY <1>1, SameHoles
  <2> HIDE DEF next, n
  <2>6. IsCode(next)
    BY <1>1, <2>2, <2>4, <2>5 DEF IsCode
  <2> QED
    BY <2>6 DEF next
<1>3. CASE p.kind = "rejected"
  <2>1. next = [code EXCEPT !.ok = FALSE]
    BY <1>3 DEF Append1
  <2>2. next = [text |-> code.text, holes |-> code.holes, ok |-> FALSE]
    BY <1>1, <2>1
  <2> HIDE DEF next
  <2>3. IsCode(next)
    BY <1>1, <2>2 DEF IsCode
  <2> QED
    BY <2>3 DEF next
<1>4. ASSUME p.kind = "expr" PROVE IsCode(next)
  <2>1. p.size \in 1 .. 8 /\ p.val \in Values
    BY <1>4 DEF Pieces
  <2>2. t \in Texts /\ Len(t) = n + p.size
    <3> DEFINE u == [k \in 1 .. p.size |-> 255]
    <3>3. p.size \in Nat /\ 255 \in 0 .. 255
      BY <2>1
    <3>4. u \in [1 .. p.size -> 0 .. 255]
      BY <3>3
    <3>1. u \in Seq(0 .. 255) /\ Len(u) = p.size
      BY <3>3, <3>4, SMTT(30)
    <3> HIDE DEF u
    <3>2. code.text \o u \in Seq(0 .. 255) /\ Len(code.text \o u) = n + p.size
      BY <1>1, <3>1, SMTT(30) DEF Texts
    <3> QED
      BY <3>2 DEF u, Texts
  <2>3. hole \in Holes /\ hole.at + hole.size = n + p.size + 1
    BY <1>1, <2>1, SMTT(30) DEF Holes, Hole
  <2>4. hole \in HolesIn(n + p.size)
    BY <1>1, <2>1, <2>3 DEF HolesIn
  <2>5. code.holes \in Seq(HolesIn(n + p.size))
    BY <1>1, <2>1, SameHoles
  <2> HIDE DEF hole, t, n
  <2>6. CASE ~Evaluates(hole, "now")
    <3>1. next = [code EXCEPT !.text = t, !.holes = Append(@, hole)]
      BY <1>4, <2>6 DEF Append1, hole, t
    <3>2. next = [text |-> t, holes |-> Append(code.holes, hole), ok |-> code.ok]
      BY <1>1, <3>1
    <3>3. Append(code.holes, hole) \in Seq(HolesIn(n + p.size))
      BY <2>4, <2>5
    <3> HIDE DEF next
    <3> QED
      BY <1>1, <2>2, <3>2, <3>3 DEF IsCode
  <2>7. CASE Evaluates(hole, "now")
    <3> DEFINE u == IF Unpatchable(hole) THEN t ELSE Patched(t, hole)
    <3>1. next = [code EXCEPT !.text = u, !.ok = @ /\ ~Unpatchable(hole)]
      BY <1>4, <2>7 DEF Append1, hole, t
    <3>2. u \in Texts /\ Len(u) = n + p.size
      BY <2>2, <2>3, PatchedTyped
    <3> HIDE DEF u
    <3>3. next = [text |-> u, holes |-> code.holes, ok |-> (code.ok /\ ~Unpatchable(hole))]
      BY <1>1, <3>1
    <3> HIDE DEF next
    <3> QED
      BY <1>1, <2>5, <3>2, <3>3 DEF IsCode
  <2> QED
    BY <2>6, <2>7
<1>5. p.kind \in {"byte", "expr", "rejected"}
  BY DEF Pieces
<1> QED
  BY <1>2, <1>3, <1>4, <1>5

LEMMA LaidTyped ==
  ASSUME NEW t \in Texts, NEW pieces, Typed(pieces)
  PROVE  IsCode(Laid(t, pieces))
<1> DEFINE n == Len(pieces)
<1>2. n \in Nat /\ DOMAIN pieces = 1 .. n /\ \A k \in 1 .. n : pieces[k] \in Pieces
  BY DEF Typed
<1> HIDE DEF n
<1>3. PICK s : /\ s[0] = Blank(t)
               /\ \A k \in 1 .. n : s[k] = Append1(s[k - 1], pieces[k])
               /\ s[n] = Laid(t, pieces)
  BY <1>2, LaidSteps
<1> DEFINE T == {k \in Nat : IsCode(s[k])}
<1>4. 0 \in T
  BY <1>3, BlankTyped
<1>5. ASSUME NEW k \in 0 .. (n - 1), k \in T PROVE k + 1 \in T
  <2> DEFINE j == k + 1
  <2>1. j \in 1 .. n /\ j - 1 = k /\ j \in Nat
    BY <1>2
  <2> HIDE DEF j
  <2>2. s[j] = Append1(s[k], pieces[j])
    BY <1>3, <2>1
  <2>3. IsCode(s[j])
    BY <1>2, <1>5, <2>1, <2>2, Append1Typed
  <2> QED
    BY <2>1, <2>3 DEF j
<1> HIDE DEF T
<1>6. n \in T
  <2>1. 0 .. n \subseteq T
    BY <1>2, <1>4, <1>5, InductTo
  <2> QED
    BY <1>2, <2>1
<1> QED
  BY <1>3, <1>6 DEF T


LEMMA Fill1Typed ==
  ASSUME NEW at, NEW n \in Nat, NEW code, IsCode(code), Len(code.text) = n, NEW h \in HolesIn(n)
  PROVE  IsCode(Fill1(at, h, code)) /\ Len(Fill1(at, h, code).text) = n
<1> DEFINE next == Fill1(at, h, code)
<1>1. /\ code = [text |-> code.text, holes |-> code.holes, ok |-> code.ok]
      /\ code.text \in Texts /\ code.ok \in BOOLEAN /\ code.holes \in Seq(HolesIn(n)) /\ h \in Holes
  BY DEF IsCode, HolesIn
<1>2. CASE ~Evaluates(h, at)
  <2>1. next = [code EXCEPT !.holes = <<h>> \o @]
    BY <1>2 DEF Fill1
  <2>2. next = [text |-> code.text, holes |-> <<h>> \o code.holes, ok |-> code.ok]
    BY <1>1, <2>1
  <2>3. <<h>> \o code.holes \in Seq(HolesIn(n))
    <3> DEFINE S == HolesIn(n)
    <3> HIDE DEF S
    <3>1. code.holes \in Seq(S) /\ <<h>> \in Seq(S)
      <4>1. h \in S
        BY DEF S
      <4> QED
        BY <1>1, <4>1 DEF S
    <3>2. <<h>> \o code.holes \in Seq(S)
      BY <3>1
    <3> QED
      BY <3>2 DEF S
  <2> HIDE DEF next
  <2>4. IsCode(next) /\ Len(next.text) = n
    BY <1>1, <2>2, <2>3 DEF IsCode
  <2> QED
    BY <2>4 DEF next
<1>3. CASE Evaluates(h, at)
  <2> DEFINE u == IF Unpatchable(h) THEN code.text ELSE Patched(code.text, h)
  <2>1. next = [code EXCEPT !.ok = @ /\ ~Unpatchable(h), !.text = u]
    BY <1>3 DEF Fill1
  <2>2. u \in Texts /\ Len(u) = n
    BY <1>1, PatchedTyped
  <2> HIDE DEF u
  <2>3. next = [text |-> u, holes |-> code.holes, ok |-> (code.ok /\ ~Unpatchable(h))]
    BY <1>1, <2>1
  <2> HIDE DEF next
  <2>4. IsCode(next) /\ Len(next.text) = n
    BY <1>1, <2>2, <2>3 DEF IsCode
  <2> QED
    BY <2>4 DEF next
<1> QED
  BY <1>2, <1>3

LEMMA FilledTyped ==
  ASSUME NEW at, text \in Texts, holes \in Seq(HolesIn(Len(text)))
  PROVE  IsCode(Filled(at))
<1> DEFINE n == Len(holes)
           m == Len(text)
<1>1. n \in Nat /\ DOMAIN holes = 1 .. n /\ m \in Nat /\ \A k \in 1 .. n : holes[k] \in HolesIn(m)
  <2> DEFINE S == HolesIn(m)
  <2> HIDE DEF S
  <2>1. holes \in Seq(S)
    BY DEF S
  <2>2. n \in Nat /\ DOMAIN holes = 1 .. n /\ \A k \in 1 .. n : holes[k] \in S
    BY <2>1
  <2> QED
    BY <2>2 DEF S, Texts
<1>2. Len(Blank(text).text) = m /\ IsCode(Blank(text))
  <2>1. Blank(text).text = text
    BY DEF Blank
  <2> QED
    BY <2>1, BlankTyped
<1> HIDE DEF n, m
<1>3. PICK s : /\ s[n + 1] = Blank(text)
               /\ \A k \in 1 .. n : s[k] = Fill1(at, holes[k], s[k + 1])
               /\ s[1] = Filled(at)
  BY <1>1, FilledSteps
<1> DEFINE T == {j \in Nat : IsCode(s[n + 1 - j]) /\ Len(s[n + 1 - j].text) = m}
<1>4. 0 \in T
  <2>1. n + 1 - 0 = n + 1
    BY <1>1
  <2> QED
    BY <1>2, <1>3, <2>1
<1>5. ASSUME NEW j \in 0 .. (n - 1), j \in T PROVE j + 1 \in T
  <2> DEFINE k == n + 1 - (j + 1)
  <2>1. k \in 1 .. n /\ k + 1 = n + 1 - j
    BY <1>1
  <2> HIDE DEF k
  <2>2. s[k] = Fill1(at, holes[k], s[k + 1]) /\ IsCode(s[k + 1]) /\ Len(s[k + 1].text) = m
    BY <1>3, <1>5, <2>1
  <2>3. IsCode(s[k]) /\ Len(s[k].text) = m
    BY <1>1, <2>1, <2>2, Fill1Typed
  <2> QED
    BY <2>3 DEF k
<1>6. n \in T
  <2> HIDE DEF T
  <2>1. 0 .. n \subseteq T
    BY <1>1, <1>4, <1>5, InductTo
  <2> QED
    BY <1>1, <2>1
<1>7. n + 1 - n = 1
  BY <1>1
<1> QED
  BY <1>3, <1>6, <1>7 DEF T


-----------------------------------------------------------------------------
(* What is read, for every text: a reader moves on, or gives up            *)

Onward(r, at) == r.next \in Nat /\ r.next >= at
Ends(r, at) == r.next \in Nat /\ (r.next >= at \/ r.ops = Undefined.ops)

LEMMA OnwardEnds ==
  ASSUME NEW r, NEW at \in Nat, NEW before \in Nat, before <= at, Onward(r, at)
  PROVE  Ends(r, before) /\ Onward(r, before)
  BY DEF Onward, Ends

LEMMA FoundOnward ==
  ASSUME NEW ops, NEW at \in Nat, NEW next \in Nat, at <= next
  PROVE  Onward(Found(ops, next), at)
  BY DEF Onward, Found

LEMMA UndefinedEnds ==
  ASSUME NEW at
  PROVE  Ends(Undefined, at) /\ Ends(UndefinedBehavior, at)
<1>1. Undefined = [ops |-> Undefined.ops, next |-> 0]
  BY DEF Undefined, Found
<1>2. UndefinedBehavior.ops = Undefined.ops /\ UndefinedBehavior.next = Undefined.next
  BY DEF UndefinedBehavior, Plain, Instruction
<1> QED
  BY <1>1, <1>2 DEF Ends

LEMMA MadeEnds ==
  ASSUME NEW r, NEW at, Ends(r, at), NEW does, NEW how
  PROVE  Ends(Instruction(does, r, how), at) /\ Ends(Plain(does, r), at)
  BY DEF Ends, Instruction, Plain

LEMMA ChosenEnds ==
  ASSUME NEW r, NEW at, Ends(r, at), NEW prefix, NEW names, NEW n
  PROVE  Ends(Chosen(prefix, names, n, r), at)
  BY MadeEnds, UndefinedEnds DEF Chosen

LEMMA ByteRead ==
  ASSUME NEW t \in Texts, NEW at
  PROVE  B(t, at) \in 0 .. 255
<1> DEFINE S == 0 .. 255
<1> HIDE DEF S
<1>1. t \in Seq(S)
  BY DEF S, Texts
<1>2. at \in DOMAIN t => t[at] \in S
  BY <1>1
<1>3. 0 \in S
  BY DEF S
<1> QED
  BY <1>2, <1>3 DEF B, S

LEMMA FieldRead ==
  ASSUME NEW b \in 0 .. 255
  PROVE  SizeField(b) \in 0 .. 3 /\ Bytes(SizeField(b)) \in 1 .. 8
<1>1. SizeField(b) \in 0 .. 3
  BY DEF SizeField
<1>2. SizeField(b) \in {0, 1, 2, 3}
  BY <1>1
<1>3. Bytes(SizeField(b)) \in {1, 2, 4, 8}
  BY <1>2, Widths
<1> QED
  BY <1>1, <1>3

LEMMA AddressRead ==
  ASSUME NEW t \in Texts, NEW at \in Nat
  PROVE  Onward(ReadAddress(t, at), at)
<1> DEFINE a == B(t, at)
           body == at + (IF a % 4 # 0 THEN 2 ELSE 1)
           width == Bytes(SizeField(a))
<1>1. width \in 1 .. 8
  BY ByteRead, FieldRead
<1>2. body \in Nat /\ body >= at
  OBVIOUS
<1>3. ReadAddress(t, at).next = body + (IF a < 128 THEN 0 ELSE width)
  BY DEF ReadAddress
<1> HIDE DEF width, body
<1>4. body + (IF a < 128 THEN 0 ELSE width) \in Nat /\ body + (IF a < 128 THEN 0 ELSE width) >= at
  BY <1>1, <1>2
<1> QED
  BY <1>3, <1>4 DEF Onward

LEMMA MemRead ==
  ASSUME NEW t \in Texts, NEW at \in Nat, NEW before, NEW size
  PROVE  Onward(ThenMem(t, at, before, size), at)
<1>1. ThenMem(t, at, before, size).next = ReadAddress(t, at).next
  BY DEF ThenMem, Found
<1> QED
  BY <1>1, AddressRead DEF Onward

LEMMA ValueRead ==
  ASSUME NEW t \in Texts, NEW at \in Nat, NEW before, NEW size \in 0 .. 3
  PROVE  Onward(ThenValue(t, at, before, size), at)
<1>1. size \in {0, 1, 2, 3}
  OBVIOUS
<1>2. Bytes(size) \in {1, 2, 4, 8}
  BY <1>1, Widths
<1>3. at + Bytes(size) \in Nat /\ at <= at + Bytes(size)
  BY <1>2
<1> QED
  BY <1>3, FoundOnward DEF ThenValue

LEMMA RegisterRead ==
  ASSUME NEW t \in Texts, NEW at \in Nat, NEW before, NEW size
  PROVE  Onward(ThenReg(t, at, before, size), at)
<1>1. at + 1 \in Nat /\ at <= at + 1
  OBVIOUS
<1> QED
  BY <1>1, FoundOnward DEF ThenReg

(* A number of bytes further on.                                           *)
LEMMA Further ==
  ASSUME NEW at \in Nat
  PROVE  /\ at + 1 \in Nat /\ at <= at + 1 /\ at + 2 \in Nat /\ at <= at + 2 /\ at <= at
         /\ \A r : Onward(r, at + 1) => Onward(r, at)
         /\ \A r : Onward(r, at + 2) => Onward(r, at)
  BY DEF Onward


LEMMA TernaryRead ==
  ASSUME NEW t \in Texts, NEW at \in Nat
  PROVE  Onward(Ternary(t, at), at)
<1> DEFINE s == B(t, at)
           imm == ThenValue(t, at + 1, <<>>, SizeField(s))
           source == IF Bit(s, 1) = 1 THEN ThenMem(t, imm.next, <<>>, SizeField(s))
                     ELSE ThenReg(t, imm.next, <<>>, SizeField(s))
<1>1. SizeField(s) \in 0 .. 3
  BY ByteRead, FieldRead
<1>2. at + 1 \in Nat /\ at <= at + 1
  OBVIOUS
<1>3. Onward(imm, at + 1)
  BY <1>1, <1>2, ValueRead
<1>4. imm.next \in Nat /\ at <= imm.next
  BY <1>3 DEF Onward
<1> HIDE DEF imm
<1>5. Onward(source, imm.next)
  BY <1>4, MemRead, RegisterRead
<1>6. source.next \in Nat /\ at <= source.next
  BY <1>4, <1>5 DEF Onward
<1>7. Ternary(t, at).next = source.next
  BY DEF Ternary, Found, imm
<1> QED
  BY <1>6, <1>7 DEF Onward

LEMMA BinaryRead ==
  ASSUME NEW t \in Texts, NEW at \in Nat, NEW size \in {InSettings} \cup (0 .. 3)
  PROVE  Ends(Binary(t, at, size), at)
<1> DEFINE s1 == B(t, at)
           s2 == B(t, at + 1)
           a == SizeField(s1)
           b == IF size = InSettings THEN a ELSE size
           dest == Part(s1 \div 16, a, Bit(s1, 2))
           source == Part(s2 % 16, b, Bit(s1, 1))
           m == ReadAddress(t, at + 2)
           r == Binary(t, at, size)
<1>1. a \in 0 .. 3 /\ b \in 0 .. 3
  <2>1. a \in 0 .. 3
    BY ByteRead, FieldRead
  <2> QED
    BY <2>1
<1>2. at + 2 \in Nat /\ at <= at + 2
  OBVIOUS
<1>3. m.next \in Nat /\ at + 2 <= m.next
  BY <1>2, AddressRead DEF Onward
<1>4. at <= m.next
  BY <1>2, <1>3
<1>5. \/ r = Found(<<dest, source>>, at + 2)
      \/ r = ThenValue(t, at + 2, <<dest>>, b)
      \/ r = ThenMem(t, at + 2, <<dest>>, b)
      \/ r = Found(<<At(m.addr, a), source>>, m.next)
      \/ r = ThenValue(t, m.next, <<At(m.addr, a)>>, b)
      \/ r = Undefined
  <2>1. s2 \div 16 \in Int
    BY ByteRead
  <2> QED
    BY <2>1 DEF Binary
<1> HIDE DEF m, a, b, dest, source, r
<1>6. Onward(Found(<<dest, source>>, at + 2), at) /\ Onward(Found(<<At(m.addr, a), source>>, m.next), at)
  BY <1>2, <1>3, <1>4, FoundOnward
<1>7. Onward(ThenValue(t, at + 2, <<dest>>, b), at) /\ Onward(ThenMem(t, at + 2, <<dest>>, b), at)
  BY <1>1, <1>2, ValueRead, MemRead, OnwardEnds
<1>8. Onward(ThenValue(t, m.next, <<At(m.addr, a)>>, b), at)
  BY <1>1, <1>3, <1>4, ValueRead, OnwardEnds
<1>9. at <= at
  OBVIOUS
<1> QED
  BY <1>5, <1>6, <1>7, <1>8, <1>9, OnwardEnds, UndefinedEnds DEF r

LEMMA UnaryRead ==
  ASSUME NEW t \in Texts, NEW at \in Nat
  PROVE  Onward(Unary(t, at), at)
<1>1. at + 1 \in Nat /\ at <= at + 1
  OBVIOUS
<1> QED
  BY <1>1, FoundOnward, MemRead, OnwardEnds DEF Unary

LEMMA ShiftRead ==
  ASSUME NEW t \in Texts, NEW at \in Nat
  PROVE  Onward(ShiftOperands(t, at), at)
<1> DEFINE m == ReadAddress(t, at + 2)
<1>1. at + 2 \in Nat /\ at <= at + 2
  OBVIOUS
<1>2. Onward(m, at + 2)
  BY <1>1, AddressRead
<1>3. m.next \in Nat /\ at <= m.next
  BY <1>2 DEF Onward
<1> HIDE DEF m
<1> QED
  BY <1>1, <1>3, FoundOnward DEF ShiftOperands, m

LEMMA ImmRMRead ==
  ASSUME NEW t \in Texts, NEW at \in Nat
  PROVE  Onward(ImmRM(t, at), at)
<1> DEFINE s == B(t, at)
<1>1. at + 1 \in Nat /\ at <= at + 1
  OBVIOUS
<1>2. SizeField(s) \in 0 .. 3 /\ s % 4 \in 0 .. 3
  BY ByteRead, FieldRead
<1>3. s % 4 = 2 \/ s % 4 = 3 \/ s % 4 \in {0, 1}
  BY <1>2
<1> HIDE DEF s
<1>4. \/ ImmRM(t, at) = ThenValue(t, at + 1, <<>>, SizeField(s))
      \/ ImmRM(t, at) = ThenMem(t, at + 1, <<>>, SizeField(s))
      \/ ImmRM(t, at) = Found(<<Part(s \div 16, SizeField(s), s % 4)>>, at + 1)
  BY <1>3 DEF ImmRM, s
<1>5. /\ Onward(ThenValue(t, at + 1, <<>>, SizeField(s)), at)
      /\ Onward(ThenMem(t, at + 1, <<>>, SizeField(s)), at)
      /\ Onward(Found(<<Part(s \div 16, SizeField(s), s % 4)>>, at + 1), at)
  BY <1>1, <1>2, ValueRead, MemRead, FoundOnward, OnwardEnds
<1> QED
  BY <1>4, <1>5

LEMMA RegRegRMRead ==
  ASSUME NEW t \in Texts, NEW at \in Nat
  PROVE  Onward(RegRegRM(t, at), at)
<1>1. at + 2 \in Nat /\ at <= at + 2
  OBVIOUS
<1> QED
  BY <1>1, MemRead, RegisterRead, OnwardEnds DEF RegRegRM

LEMMA OwnFormatsRead ==
  ASSUME NEW t \in Texts, NEW at \in Nat
  PROVE  /\ Onward(Exchanged(t, at), at) /\ Onward(Loaded(t, at), at) /\ Onward(Popped(t, at), at)
         /\ Onward(Scanned(t, at), at) /\ Onward(FpuNumber(t, at), at)
         /\ \A sizes : Onward(Extended(t, at, sizes), at) /\ Onward(FpuOperand(t, at, sizes), at)
         /\ \A high, low : Onward(Halves(t, at, high, low), at)
         /\ \A byte : Onward(WordOperand(byte, t, at), at)
         /\ Onward(Nothing(at), at)
<1>1. at + 1 \in Nat /\ at <= at + 1 /\ at + 2 \in Nat /\ at <= at + 2 /\ at <= at
  OBVIOUS
<1>2. Onward(Exchanged(t, at), at)
  BY <1>1, MemRead, RegisterRead, OnwardEnds DEF Exchanged
<1>3. Onward(Loaded(t, at), at)
  BY <1>1, MemRead, OnwardEnds DEF Loaded
<1>4. Onward(Popped(t, at), at)
  BY <1>1, MemRead, FoundOnward, OnwardEnds DEF Popped
<1>5. Onward(Scanned(t, at), at)
  BY <1>1, MemRead, FoundOnward, OnwardEnds DEF Scanned
<1>6. Onward(FpuNumber(t, at), at)
  BY <1>1, FoundOnward DEF FpuNumber
<1>7. ASSUME NEW sizes PROVE Onward(Extended(t, at, sizes), at)
  BY <1>1, MemRead, FoundOnward, OnwardEnds DEF Extended
<1>8. ASSUME NEW sizes PROVE Onward(FpuOperand(t, at, sizes), at)
  BY <1>1, MemRead, FoundOnward, OnwardEnds DEF FpuOperand
<1>9. ASSUME NEW high, NEW low PROVE Onward(Halves(t, at, high, low), at)
  BY <1>1, FoundOnward DEF Halves
<1>10. ASSUME NEW byte PROVE Onward(WordOperand(byte, t, at), at)
  BY <1>1, MemRead, FoundOnward DEF WordOperand
<1>11. Onward(Nothing(at), at)
  BY <1>1, FoundOnward DEF Nothing
<1> QED
  BY <1>2, <1>3, <1>4, <1>5, <1>6, <1>7, <1>8, <1>9, <1>10, <1>11


LEMMA SettingsRead ==
  ASSUME NEW t \in Texts, NEW at \in Nat
  PROVE  VectorSettings(t, at).body \in Nat /\ at <= VectorSettings(t, at).body
<1> DEFINE s1 == B(t, at)
           s2 == B(t, at + 1)
           elem == SizeField(s2)
           count == IF Bit(s2, 32) = 1 THEN 1 ELSE Bytes((s1 % 4) + 4) \div Bytes(elem)
<1>1. (s1 % 4) + 4 \in 4 .. 7
  BY ByteRead
<1>2. Bytes((s1 % 4) + 4) \in {16, 32, 64, 128}
  <2>1. Bytes(7) = 128
    BY DEF Bytes
  <2>2. Bytes(4) \in {16, 32, 64, 128} /\ Bytes(5) \in {16, 32, 64, 128} /\ Bytes(6) \in {16, 32, 64, 128} /\ Bytes(7) \in {16, 32, 64, 128}
    BY <2>1, WidthsOfVectors
  <2> HIDE DEF s1
  <2>3. \A n \in 4 .. 7 : n = 4 \/ n = 5 \/ n = 6 \/ n = 7
    OBVIOUS
  <2>4. \A n \in 4 .. 7 : Bytes(n) \in {16, 32, 64, 128}
    BY <2>2, <2>3, Zenon
  <2> QED
    BY <1>1, <2>4
<1>3. Bytes(elem) \in 1 .. 8
  BY ByteRead, FieldRead
<1>4. count \in Nat
  <2>1. \A a \in {16, 32, 64, 128}, b \in 1 .. 8 : a \div b \in Nat
    OBVIOUS
  <2> HIDE DEF s1, s2, elem
  <2> QED
    BY <1>2, <1>3, <2>1
<1> HIDE DEF count
<1>5. BitsOf(count) \in Nat
  BY <1>4 DEF BitsOf
<1>6. VectorSettings(t, at).body = at + 2 + (IF s2 >= 128 THEN BitsOf(count) ELSE 0)
  BY DEF VectorSettings, count
<1> HIDE DEF s2
<1> QED
  BY <1>5, <1>6

LEMMA VectorOperandRead ==
  ASSUME NEW t \in Texts, NEW at \in Nat, NEW v, NEW before, NEW mem
  PROVE  Onward(VectorOperand(t, at, v, before, mem), at)
<1>1. at + 1 \in Nat /\ at <= at + 1
  OBVIOUS
<1> QED
  BY <1>1, MemRead, FoundOnward DEF VectorOperand

LEMMA VectorsRead ==
  ASSUME NEW t \in Texts, NEW at \in Nat
  PROVE  /\ Ends(VectorMove(t, at), at) /\ Ends(VectorBinary(t, at), at)
         /\ Ends(VectorUnary(t, at), at)
<1> DEFINE v == VectorSettings(t, at)
           body == v.body
           m == ReadAddress(t, body)
<1>1. body \in Nat /\ at <= body /\ body + 1 \in Nat /\ at <= body + 1
  BY SettingsRead
<1>2. m.next \in Nat /\ at <= m.next
  <2>1. Onward(m, body)
    BY <1>1, AddressRead
  <2> QED
    BY <1>1, <2>1 DEF Onward
<1>3. \A before, mem : Onward(VectorOperand(t, body, v, before, mem), at)
  BY <1>1, VectorOperandRead, OnwardEnds
<1>4. \A before, mem : Onward(VectorOperand(t, body + 1, v, before, mem), at)
  BY <1>1, VectorOperandRead, OnwardEnds
<1>5. \A ops : Onward(Found(ops, m.next), at)
  BY <1>2, FoundOnward
<1>6. at <= at
  OBVIOUS
<1>7. Ends(VectorMove(t, at), at)
  <2>1. v.mode \in 0 .. 3 /\ v.ok \in BOOLEAN
    BY ByteRead DEF VectorSettings
  <2>2. (~v.ok \/ v.mode = 3) \/ (v.ok /\ v.mode \in {0, 1}) \/ (v.ok /\ v.mode = 2)
    <3>1. \A n \in 0 .. 3 : n = 3 \/ n \in {0, 1} \/ n = 2
      OBVIOUS
    <3> HIDE DEF v
    <3> QED
      BY <2>1, <3>1
  <2> HIDE DEF v, m
  <2>3. \/ VectorMove(t, at) = Undefined
        \/ VectorMove(t, at) = VectorOperand(t, body, v, <<v.dest>>, v.mode = 1)
        \/ VectorMove(t, at) = Found(<<At(m.addr, MemSize(v)), v.dest>>, m.next)
    BY <2>2 DEF VectorMove, v, m
  <2> QED
    BY <1>3, <1>5, <1>6, <2>3, OnwardEnds, UndefinedEnds
<1>8. Ends(VectorBinary(t, at), at)
  <2>1. \/ VectorBinary(t, at) = Undefined
        \/ VectorBinary(t, at)
             = VectorOperand(t, body + 1, v, <<v.dest, VReg(B(t, body) % 32, v.dest.size)>>, v.mode % 2 = 1)
    BY DEF VectorBinary
  <2> QED
    BY <1>4, <1>6, <2>1, OnwardEnds, UndefinedEnds
<1>9. Ends(VectorUnary(t, at), at)
  <2>1. \/ VectorUnary(t, at) = Undefined
        \/ VectorUnary(t, at) = VectorOperand(t, body, v, <<v.dest>>, v.mode % 2 = 1)
    BY DEF VectorUnary
  <2> QED
    BY <1>3, <1>6, <2>1, OnwardEnds, UndefinedEnds
<1> QED
  BY <1>7, <1>8, <1>9

LEMMA PackedRead ==
  ASSUME NEW t \in Texts, NEW at \in Nat, NEW count \in Nat, NEW from
  PROVE  Onward(Packed(t, at, count, from), at)
<1> DEFINE s == B(t, at)
           body == at + 1 + (IF Bit(s, 2) = 1 THEN BitsOf(count) ELSE 0)
           dest == <<VReg(s \div 8, NoSize)>>
<1>1. BitsOf(count) \in Nat
  BY DEF BitsOf
<1> HIDE DEF s
<1>2. body \in Nat /\ at <= body /\ body + 1 \in Nat /\ at <= body + 1
  BY <1>1
<1>3. \/ Packed(t, at, count, from) = ThenMem(t, body, dest, from)
      \/ Packed(t, at, count, from) = Found(dest \o <<VReg(B(t, body) % 32, NoSize)>>, body + 1)
  BY DEF Packed, s
<1> HIDE DEF body, dest
<1> QED
  BY <1>2, <1>3, MemRead, FoundOnward, OnwardEnds


(* What moves on ends well in every instruction made of it.                *)
LEMMA OnwardMade ==
  ASSUME NEW at \in Nat, NEW r, Onward(r, at)
  PROVE  /\ Ends(r, at) /\ \A does : Ends(Plain(does, r), at)
         /\ \A does, how : Ends(Instruction(does, r, how), at)
         /\ \A prefix, names, n : Ends(Chosen(prefix, names, n, r), at)
<1>1. at <= at
  OBVIOUS
<1>2. Ends(r, at)
  BY <1>1, OnwardEnds
<1> QED
  BY <1>2, MadeEnds, ChosenEnds

LEMMA HandlersRead ==
  ASSUME NEW t \in Texts, NEW at \in Nat, NEW byte
  PROVE  /\ \A r : Onward(r, at) => Ends(LoopWhile(byte, r), at)
         /\ Ends(Multiply(byte, t, at), at) /\ Ends(SignedMultiply(byte, t, at), at)
         /\ Ends(Extends(byte, t, at), at) /\ Ends(StringOf(byte, at), at)
         /\ Ends(Moved(byte, t, at), at) /\ Ends(Debugged(byte, t, at), at)
<1>1. ASSUME NEW r, Onward(r, at) PROVE Ends(LoopWhile(byte, r), at)
  BY <1>1, OnwardMade DEF LoopWhile
<1>2. Ends(Multiply(byte, t, at), at)
  <2>1. \/ Multiply(byte, t, at) = Plain(<<"MUL">>, ImmRM(t, at))
        \/ Multiply(byte, t, at) = Plain(<<"MULX">>, RegRegRM(t, at))
        \/ Multiply(byte, t, at) = UndefinedBehavior
    BY DEF Multiply
  <2> QED
    BY <2>1, ImmRMRead, RegRegRMRead, OnwardMade, UndefinedEnds
<1>3. Ends(SignedMultiply(byte, t, at), at)
  <2>1. \/ SignedMultiply(byte, t, at) = Plain(<<"IMUL">>, ImmRM(t, at))
        \/ SignedMultiply(byte, t, at) = Plain(<<"IMUL">>, Binary(t, at, InSettings))
        \/ SignedMultiply(byte, t, at) = Plain(<<"IMUL">>, Ternary(t, at))
        \/ SignedMultiply(byte, t, at) = UndefinedBehavior
    BY DEF SignedMultiply
  <2>2. Ends(Binary(t, at, InSettings), at)
    BY BinaryRead
  <2> QED
    BY <2>1, <2>2, ImmRMRead, TernaryRead, OnwardMade, MadeEnds, UndefinedEnds
<1>4. Ends(Extends(byte, t, at), at)
  <2>1. \/ Extends(byte, t, at) = Plain(<<"MOVZX">>, Extended(t, at, ZeroExtends[byte % 16]))
        \/ Extends(byte, t, at) = Plain(<<"MOVSX">>, Extended(t, at, SignExtends[byte % 16]))
        \/ Extends(byte, t, at) = UndefinedBehavior
    BY DEF Extends
  <2> QED
    BY <2>1, OwnFormatsRead, OnwardMade, UndefinedEnds
<1>5. Ends(StringOf(byte, at), at)
  <2>1. Onward(Nothing(at), at)
    BY OwnFormatsRead
  <2>2. (\E does : StringOf(byte, at) = Plain(does, Nothing(at))) \/ StringOf(byte, at) = UndefinedBehavior
    BY Zenon DEF StringOf
  <2> QED
    BY <2>1, <2>2, OnwardMade, UndefinedEnds
<1>6. Ends(Moved(byte, t, at), at)
  <2> DEFINE xmm == VReg(0, 4)
             cpu(size) == Reg(0, size)
  <2>1. \/ Moved(byte, t, at) = Plain(<<"MOVD">>, Halves(t, at, cpu(2), xmm))
        \/ Moved(byte, t, at) = Plain(<<"MOVD">>, Halves(t, at, xmm, cpu(2)))
        \/ Moved(byte, t, at) = Plain(<<"MOVQ">>, Halves(t, at, cpu(3), xmm))
        \/ Moved(byte, t, at) = Plain(<<"MOVQ">>, Halves(t, at, xmm, cpu(3)))
        \/ Moved(byte, t, at) = Plain(<<"MOVBS">>, Binary(t, at, InSettings))
        \/ Moved(byte, t, at) = UndefinedBehavior
    BY DEF Moved
  <2>2. Ends(Binary(t, at, InSettings), at)
    BY BinaryRead
  <2>3. \A high, low : Onward(Halves(t, at, high, low), at)
    BY OwnFormatsRead
  <2> QED
    BY <2>1, <2>2, <2>3, OnwardMade, MadeEnds, UndefinedEnds
<1>7. Ends(Debugged(byte, t, at), at)
  <2> DEFINE address == ThenMem(t, at, <<>>, NoSize)
  <2>1. address.next \in Nat /\ at <= address.next
    BY MemRead DEF Onward
  <2>2. Onward(ThenValue(t, address.next, address.ops, 3), at)
    BY <2>1, ValueRead, OnwardEnds
  <2>3. Onward(Nothing(at), at)
    BY OwnFormatsRead
  <2>4. \/ Debugged(byte, t, at) = Plain(<<"DEBUG_MEM">>, ThenValue(t, address.next, address.ops, 3))
        \/ Debugged(byte, t, at)
             = Chosen(<<>>, <<"DEBUG_CPU", "DEBUG_VPU", "DEBUG_FULL">>, byte, Nothing(at))
    BY DEF Debugged
  <2> QED
    BY <2>2, <2>3, <2>4, OnwardMade
<1> QED
  BY <1>1, <1>2, <1>3, <1>4, <1>5, <1>6, <1>7

(* The x87 handlers: two operands or one, or an error for an unused mode.  *)
LEMMA FpuHandlersRead ==
  ASSUME NEW t \in Texts, NEW at \in Nat
  PROVE  /\ \A name : Ends(FpuBinary(name, t, at), at)
         /\ Ends(FpuLoad(t, at), at) /\ Ends(FpuStore(t, at), at)
         /\ Ends(FpuCompare(t, at), at) /\ Ends(FpuMoveIf(t, at), at)
<1>1. at + 1 \in Nat /\ at <= at + 1
  OBVIOUS
<1>2. \A sizes : Onward(FpuOperand(t, at, sizes), at)
  BY OwnFormatsRead
<1>3. ASSUME NEW name PROVE Ends(FpuBinary(name, t, at), at)
  <2>1. \/ \E ops, how, sizes :
             FpuBinary(name, t, at) = Instruction(<<name>>, Found(ops, FpuOperand(t, at, sizes).next), how)
        \/ FpuBinary(name, t, at) = UndefinedBehavior
    BY Zenon DEF FpuBinary
  <2>2. \A sizes, ops : Onward(Found(ops, FpuOperand(t, at, sizes).next), at)
    BY <1>2, FoundOnward DEF Onward
  <2> QED
    BY <2>1, <2>2, OnwardMade, UndefinedEnds
<1>4. Ends(FpuLoad(t, at), at)
  <2>1. \/ \E how, sizes : FpuLoad(t, at) = Instruction(<<"FLD">>, FpuOperand(t, at, sizes), how)
        \/ FpuLoad(t, at) = UndefinedBehavior
    BY Zenon DEF FpuLoad
  <2> QED
    BY <1>2, <2>1, OnwardMade, UndefinedEnds
<1>5. Ends(FpuStore(t, at), at)
  <2>1. \/ \E how, sizes : FpuStore(t, at) = Instruction(<<"FST">>, FpuOperand(t, at, sizes), how)
        \/ FpuStore(t, at) = UndefinedBehavior
    BY Zenon DEF FpuStore
  <2> QED
    BY <1>2, <2>1, OnwardMade, UndefinedEnds
<1>6. Ends(FpuCompare(t, at), at)
  <2>1. \/ \E does, how, sizes : FpuCompare(t, at) = Instruction(does, FpuOperand(t, at, sizes), how)
        \/ FpuCompare(t, at) = UndefinedBehavior
    BY Zenon DEF FpuCompare
  <2> QED
    BY <1>2, <2>1, OnwardMade, UndefinedEnds
<1>7. Ends(FpuMoveIf(t, at), at)
  BY <1>1, FoundOnward, OnwardMade DEF FpuMoveIf
<1> QED
  BY <1>3, <1>4, <1>5, <1>6, <1>7

(* The vector handlers, conversions among them.                            *)
LEMMA VectorHandlersRead ==
  ASSUME NEW t \in Texts, NEW at \in Nat
  PROVE  /\ \A handler, does, v, r : Ends(r, at) => Ends(Lanes(handler, does, r, v), at)
         /\ \A mode \in 0 .. 255 : Ends(Converted(mode, t, at), at)
<1>1. at + 1 \in Nat /\ at <= at + 1
  OBVIOUS
<1>2. ASSUME NEW handler, NEW does, NEW v, NEW r, Ends(r, at)
      PROVE  Ends(Lanes(handler, does, r, v), at)
  BY <1>2, MadeEnds, UndefinedEnds DEF Lanes
<1>3. ASSUME NEW mem, NEW dest, NEW source
      PROVE  Onward(ScalarOperands(t, at, mem, dest, source), at)
  <2>1. \A high, low : Onward(Halves(t, at, high, low), at)
    BY OwnFormatsRead
  <2> QED
    BY <1>1, <2>1, MemRead, OnwardEnds DEF ScalarOperands
<1>4. ASSUME NEW mode PROVE Ends(ToInteger(mode, t, at), at)
  BY <1>3, OnwardMade DEF ToInteger
<1>5. ASSUME NEW mode PROVE Ends(FromInteger(mode, t, at), at)
  BY <1>3, OnwardMade DEF FromInteger
<1>6. ASSUME NEW mode PROVE Ends(BetweenReals(mode, t, at), at)
  BY <1>3, OnwardMade DEF BetweenReals
<1>7. ASSUME NEW mode \in 28 .. 51 PROVE Ends(PackedConvert(mode, t, at), at)
  <2> DEFINE k == (mode - 28) % 3
             p == 2 ^ k
             wide == "double" \in {packed_delegates[((mode - 28) \div 3) + 1][2],
                                   packed_delegates[((mode - 28) \div 3) + 1][3]}
             count == (IF wide THEN 2 ELSE 4) * p
  <2>1. k = 0 \/ k = 1 \/ k = 2
    OBVIOUS
  <2>2. 2 ^ 0 \in {1, 2, 4} /\ 2 ^ 1 \in {1, 2, 4} /\ 2 ^ 2 \in {1, 2, 4}
    OBVIOUS
  <2> HIDE DEF k
  <2>3. p \in {1, 2, 4}
    BY <2>1, <2>2, Zenon
  <2> HIDE DEF p, wide
  <2>4. count \in Nat
    BY <2>3
  <2> DEFINE does == packed_delegates[((mode - 28) \div 3) + 1]
             from == IF does[2] = "double" THEN 3 ELSE 2
             s == PackedSettings(t, at, count)
             on == Elements(s.mask, count)
             how == [count |-> count, on |-> on, zero |-> s.zero /\ on # 0 .. (count - 1)]
  <2>5. PackedConvert(mode, t, at) = Instruction(does, Packed(t, at, count, from), how)
    BY DEF PackedConvert, k, p, wide
  <2> HIDE DEF does, from, how
  <2> HIDE DEF count
  <2> QED
    BY <2>4, <2>5, PackedRead, OnwardMade
<1>8. ASSUME NEW mode \in 0 .. 255 PROVE Ends(Converted(mode, t, at), at)
  <2>1. \/ Converted(mode, t, at) = ToInteger(mode, t, at)
        \/ Converted(mode, t, at) = FromInteger(mode, t, at)
        \/ Converted(mode, t, at) = BetweenReals(mode, t, at)
        \/ mode \in 28 .. 51 /\ Converted(mode, t, at) = PackedConvert(mode, t, at)
        \/ Converted(mode, t, at) = UndefinedBehavior
    BY DEF Converted
  <2> QED
    BY <1>4, <1>5, <1>6, <1>7, <2>1, UndefinedEnds
<1> QED
  BY <1>2, <1>8


(* Whatever the bytes are, the machine reads on beyond the opcode, or does *)
(* not know the instruction: an invalid opcode is an error like any other  *)
(* (opcode_handlers, 256 entries).                                         *)
LEMMA InstructionRead ==
  ASSUME NEW t \in Texts, NEW at \in Nat
  PROVE  Ends(ReadInstruction(t, at), at + 1)
<1> DEFINE h == Handler(B(t, at))
           one == B(t, at + 1)
           in == at + 1
           v == VectorSettings(t, in)
           compared == VectorSettings(t, in + 1)
           r == ReadInstruction(t, at)
           Good(x) == Ends(x, in)
<1>1. one \in 0 .. 255 /\ in \in Nat /\ in + 1 \in Nat /\ in <= in + 1
  BY ByteRead
<1>2. ASSUME NEW x, Ends(x, in + 1) PROVE Good(x)
  BY <1>1, <1>2 DEF Ends
<1>3. ASSUME NEW x, Onward(x, in + 1) PROVE Onward(x, in)
  BY <1>1, <1>3 DEF Onward
<1> HIDE DEF h, one, in, v, compared
<1>4. /\ \A does : Good(Plain(does, Binary(t, in, InSettings)))
      /\ \A does : Good(Plain(does, Binary(t, in, 1)))
      /\ \A prefix, names, n : Good(Chosen(prefix, names, n, Binary(t, in + 1, InSettings)))
      /\ \A prefix, names, n : Good(Chosen(prefix, names, n, Binary(t, in + 1, 0)))
  <2>1. Ends(Binary(t, in, InSettings), in) /\ Ends(Binary(t, in, 1), in)
    BY <1>1, BinaryRead
  <2>2. Ends(Binary(t, in + 1, InSettings), in + 1) /\ Ends(Binary(t, in + 1, 0), in + 1)
    BY <1>1, BinaryRead
  <2>3. Ends(Binary(t, in + 1, InSettings), in) /\ Ends(Binary(t, in + 1, 0), in)
    BY <1>2, <2>2
  <2> QED
    BY <2>1, <2>3, MadeEnds, ChosenEnds
<1>5. /\ \A does : Good(Plain(does, Unary(t, in))) /\ Good(Plain(does, ShiftOperands(t, in)))
      /\ \A does : Good(Plain(does, ImmRM(t, in))) /\ Good(Plain(does, RegRegRM(t, in)))
      /\ \A does : Good(Plain(does, Nothing(in))) /\ Good(Plain(does, Exchanged(t, in)))
      /\ \A does : Good(Plain(does, Popped(t, in))) /\ Good(Plain(does, Loaded(t, in)))
      /\ \A does : Good(Plain(does, Scanned(t, in))) /\ Good(Plain(does, FpuNumber(t, in)))
  BY <1>1, UnaryRead, ShiftRead, ImmRMRead, RegRegRMRead, OwnFormatsRead, OnwardMade
<1>6. /\ \A prefix, names, n : Good(Chosen(prefix, names, n, Unary(t, in + 1)))
      /\ \A prefix, names, n : Good(Chosen(prefix, names, n, ImmRM(t, in + 1)))
      /\ \A prefix, names, n : Good(Chosen(prefix, names, n, Nothing(in + 1)))
      /\ \A prefix, names, n, byte : Good(Chosen(prefix, names, n, WordOperand(byte, t, in + 1)))
  BY <1>1, <1>3, UnaryRead, ImmRMRead, OwnFormatsRead, OnwardMade
<1>7. /\ \A byte : Good(LoopWhile(byte, ImmRM(t, in + 1)))
      /\ \A byte : Good(Multiply(byte, t, in + 1)) /\ Good(SignedMultiply(byte, t, in + 1))
      /\ \A byte : Good(Extends(byte, t, in)) /\ Good(StringOf(byte, in + 1))
      /\ \A byte : Good(Moved(byte, t, in + 1)) /\ Good(Debugged(byte, t, in + 1))
  BY <1>1, <1>2, ImmRMRead, HandlersRead
<1>8. /\ \A name : Good(FpuBinary(name, t, in))
      /\ Good(FpuLoad(t, in)) /\ Good(FpuStore(t, in)) /\ Good(FpuCompare(t, in)) /\ Good(FpuMoveIf(t, in))
  BY <1>1, FpuHandlersRead
<1>9. /\ \A does, how : Good(Instruction(does, VectorMove(t, in), how))
      /\ \A handler, does, w : Good(Lanes(handler, does, VectorBinary(t, in), w))
      /\ \A handler, does, w : Good(Lanes(handler, does, VectorUnary(t, in), w))
      /\ \A handler, does, w : Good(Lanes(handler, does, VectorBinary(t, in + 1), w))
      /\ Good(Converted(one, t, in + 1)) /\ Good(UndefinedBehavior)
  <2>1. Ends(VectorMove(t, in), in) /\ Ends(VectorBinary(t, in), in) /\ Ends(VectorUnary(t, in), in)
    BY <1>1, VectorsRead
  <2>2. Ends(VectorBinary(t, in + 1), in + 1) /\ Ends(Converted(one, t, in + 1), in + 1)
    BY <1>1, VectorsRead, VectorHandlersRead
  <2>3. \A handler, does, w : Ends(Lanes(handler, does, VectorBinary(t, in + 1), w), in + 1)
    BY <1>1, <2>2, VectorHandlersRead
  <2> QED
    BY <1>1, <1>2, <2>1, <2>2, <2>3, MadeEnds, VectorHandlersRead, UndefinedEnds
<1> HIDE DEF Good, r
<1>10. Good(r)
  BY <1>4, <1>5, <1>6, <1>7, <1>8, <1>9 DEF r, ReadInstruction, h, one, in, v, compared
<1> QED
  BY <1>10 DEF Good, r, in


-----------------------------------------------------------------------------
(* Every state has its type.  The stage and the names need no induction;   *)
(* the holes do, as filling them cannot leave the text they are in.        *)

Stages == {"written", "assembled", "ended", "linked", "undefined", "done", "rejected"}
Typing ==
  /\ line \in Lines /\ stage \in Stages /\ pc \in Nat
  /\ text \in Texts /\ holes \in Seq(HolesIn(Len(text)))

LEMMA TypingInit == Init => Typing
<1> SUFFICES ASSUME Init PROVE Typing
  OBVIOUS
<1>1. line \in Lines /\ stage \in Stages /\ pc \in Nat
  BY DEF Init, Stages
<1>2. text \in Texts
  <2>1. Op("NOP") \in 0 .. 255
    BY OpsIn
  <2> DEFINE S == 0 .. 255
  <2>2. Op("NOP") \in S
    BY <2>1
  <2> HIDE DEF S
  <2>3. <<Op("NOP")>> \in Seq(S)
    BY <2>2
  <2> QED
    BY <2>3 DEF Init, Earlier, Texts, S
<1>3. holes \in Seq(HolesIn(Len(text)))
  <2> DEFINE S == HolesIn(Len(text))
  <2> HIDE DEF S
  <2>1. holes = <<>>
    BY DEF Init
  <2>2. holes \in Seq(S)
    BY <2>1
  <2> QED
    BY <2>2 DEF S
<1> QED
  BY <1>1, <1>2, <1>3 DEF Typing

(* Reading: the place moves beyond the opcode, or the stage is an error.   *)
LEMMA ReadingOn ==
  ASSUME text \in Texts, pc \in Nat, ReadNext
  PROVE  pc' \in Nat /\ (pc' > pc \/ stage' = "undefined")
<1> DEFINE r == ReadInstruction(text, pc)
<1>1. Ends(r, pc + 1)
  BY InstructionRead
<1> HIDE DEF r
<1>2. /\ pc' = r.next
      /\ stage' = IF r.ops = Undefined.ops THEN "undefined"
                  ELSE IF r.next > Len(text) THEN "done" ELSE "linked"
  BY DEF ReadNext, r
<1> HIDE DEF Undefined
<1> QED
  BY <1>1, <1>2 DEF Ends

LEMMA TypingNext == Typing /\ [Next]_vars => Typing'
<1> SUFFICES ASSUME Typing, [Next]_vars PROVE Typing'
  OBVIOUS
<1>1. CASE Assemble
  <2>1. PICK order \in SetToSeqs(Registers(line.args)) :
          /\ text' = Written(order).text /\ holes' = Written(order).holes
          /\ stage' = IF Written(order).ok THEN "assembled" ELSE "rejected"
    BY <1>1 DEF Assemble
  <2>2. line' = line /\ pc' = pc
    BY <1>1 DEF Assemble
  <2>3. IsCode(Written(order))
    <3>1. line.name \in DOMAIN asm_routing_table /\ IsMask(line.mask) /\ IsArgs(line.args)
      BY LinesAssumption DEF Typing, IsArgs
    <3>2. AllSeen(Parsed(line.args, order))
      BY <3>1, ParsedTyped
    <3>3. Typed(CodeOf(line.name, line.mask, Parsed(line.args, order)))
      BY <3>1, <3>2, CodeTyped
    <3> QED
      BY <3>3, LaidTyped DEF Written, Typing
  <2>4. text' \in Texts /\ holes' \in Seq(HolesIn(Len(text')))
    BY <2>1, <2>3 DEF IsCode
  <2>5. stage' \in Stages
    BY <2>1 DEF Stages
  <2> QED
    BY <2>2, <2>4, <2>5 DEF Typing
<1>2. ASSUME NEW at, NEW then \in Stages, Fill(at, then) PROVE Typing'
  <2>1. /\ text' = Filled(at).text /\ holes' = Filled(at).holes
        /\ stage' = IF Filled(at).ok THEN then ELSE "rejected"
        /\ line' = line /\ pc' = pc
    BY <1>2 DEF Fill
  <2>2. IsCode(Filled(at))
    BY FilledTyped DEF Typing
  <2>3. text' \in Texts /\ holes' \in Seq(HolesIn(Len(text')))
    BY <2>1, <2>2 DEF IsCode
  <2>4. stage' \in Stages
    BY <1>2, <2>1 DEF Stages
  <2> QED
    BY <2>1, <2>3, <2>4 DEF Typing
<1>3. CASE EndOfFile
  BY <1>2, <1>3 DEF EndOfFile, Stages
<1>4. CASE Link
  BY <1>2, <1>4 DEF Link, Stages
<1>5. CASE ReadNext
  <2>1. pc' \in Nat
    BY <1>5, ReadingOn DEF Typing
  <2>2. stage' \in Stages
    BY <1>5 DEF ReadNext, Stages
  <2>3. line' = line /\ text' = text /\ holes' = holes
    BY <1>5 DEF ReadNext
  <2> QED
    BY <2>1, <2>2, <2>3 DEF Typing
<1>6. CASE UNCHANGED vars
  BY <1>6 DEF vars, Typing
<1> QED
  BY <1>1, <1>3, <1>4, <1>5, <1>6 DEF Next

LEMMA TypingIsTypeOK == Typing => TypeOK
<1> SUFFICES ASSUME Typing PROVE TypeOK
  OBVIOUS
<1>1. \A k \in DOMAIN text : text[k] \in 0 .. 255
  <2> DEFINE S == 0 .. 255
  <2> HIDE DEF S
  <2>1. text \in Seq(S)
    BY DEF Typing, Texts, S
  <2>2. \A k \in DOMAIN text : text[k] \in S
    BY <2>1
  <2> QED
    BY <2>2 DEF S
<1>2. \A k \in DOMAIN holes : holes[k].at + holes[k].size <= Len(text) + 1
  <2> DEFINE S == HolesIn(Len(text))
  <2> HIDE DEF S
  <2>1. holes \in Seq(S)
    BY DEF Typing, S
  <2>2. \A k \in DOMAIN holes : holes[k] \in S
    BY <2>1
  <2> QED
    BY <2>2 DEF S, HolesIn
<1> QED
  BY <1>1, <1>2 DEF TypeOK, Typing, Stages

(* The text is bytes and every hole is inside of it, after the line is     *)
(* assembled, at the end of the file and in the linker, for every line     *)
(* whose operands are operands: no handler of the assembler writes a piece *)
(* that is not a byte or a sized expression, and no patch of a hole        *)
(* (TryPatchHole) writes outside of it.                                    *)
THEOREM AssemblingTypes == Spec => []TypeOK
<1>1. Init => Typing
  BY TypingInit
<1>2. Typing /\ [Next]_vars => Typing'
  BY TypingNext
<1>3. Typing => TypeOK
  BY TypingIsTypeOK
<1> QED
  BY <1>1, <1>2, <1>3, PTL DEF Spec

ReadingMovesOn == ReadNext => pc' > pc \/ stage' = "undefined"

(* Reading the code of a line always moves on: whatever the bytes are, the *)
(* next instruction starts after this one, or the machine has stopped at   *)
(* an error (the handlers and Fetch...Format of Instructions.cpp): decoding*)
(* takes at most one step for each byte.                                   *)
THEOREM AssemblingReads == Spec => [][ReadingMovesOn]_vars
<1>1. Typing /\ [Next]_vars => [ReadingMovesOn]_vars
  BY ReadingOn DEF ReadingMovesOn, Typing
<1>2. Init => Typing
  BY TypingInit
<1>3. Typing /\ [Next]_vars => Typing'
  BY TypingNext
<1> QED
  BY <1>1, <1>2, <1>3, PTL DEF Spec

=============================================================================
