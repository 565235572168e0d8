---------------------------- MODULE LinkerProofs ----------------------------
(***************************************************************************)
(* Binary literals and the linker for all object files, literals and       *)
(* bytes.                                                                  *)
(***************************************************************************)
EXTENDS Linker, SequenceTheorems, FiniteSetTheorems, Induction, TLAPS

-----------------------------------------------------------------------------
(* Parts of sequences.                                                     *)

LEMMA Part ==
  ASSUME NEW S, NEW s \in Seq(S), NEW a \in Nat, NEW n \in Nat, a + n <= Len(s)
  PROVE  /\ SubSeq(s, a + 1, a + n) \in Seq(S)
         /\ Len(SubSeq(s, a + 1, a + n)) = n
         /\ \A k \in 1 .. n : SubSeq(s, a + 1, a + n)[k] = s[a + k]
<1>1. Len(s) \in Nat /\ \A k \in 1 .. Len(s) : s[k] \in S
  BY ElementOfSeq, LenProperties
<1> DEFINE x == a + 1
           y == a + n
<1>2. x \in Int /\ y \in Int /\ \A k \in x .. y : s[k] \in S
  BY <1>1
<1>3. (IF x <= y THEN y - x + 1 ELSE 0) = n /\ y - x + 1 = n
      /\ \A k \in 1 .. n : x + k - 1 = a + k
  BY Z3
<1> HIDE DEF x, y
<1>4. /\ SubSeq(s, x, y) \in Seq(S)
      /\ Len(SubSeq(s, x, y)) = IF x <= y THEN y - x + 1 ELSE 0
      /\ \A k \in 1 .. y - x + 1 : SubSeq(s, x, y)[k] = s[x + k - 1]
  BY <1>2, SubSeqProperties
<1>5. Len(SubSeq(s, x, y)) = n
  BY <1>3, <1>4, Zenon
<1>6. \A k \in 1 .. n : SubSeq(s, x, y)[k] = s[a + k]
  BY <1>3, <1>4, Zenon
<1> QED
  BY <1>4, <1>5, <1>6 DEF x, y

(* A part of a part is a part.                                             *)
LEMMA PartOfPart ==
  ASSUME NEW S, NEW s \in Seq(S), NEW t \in Seq(S), NEW p \in Nat, p + Len(t) <= Len(s),
         SubSeq(s, p + 1, p + Len(t)) = t,
         NEW a \in Nat, NEW n \in Nat, a + n <= Len(t)
  PROVE  /\ (a + p) + n <= Len(s)
         /\ SubSeq(s, (a + p) + 1, (a + p) + n) = SubSeq(t, a + 1, a + n)
<1>1. Len(s) \in Nat /\ Len(t) \in Nat
  BY LenProperties
<1> DEFINE b == a + p
<1>2. b \in Nat /\ b + n <= Len(s)
  BY <1>1
<1>3. \A k \in 1 .. n : k \in Nat /\ a + k \in 1 .. Len(t) /\ b + k = p + (a + k)
  BY <1>1
<1> HIDE DEF b
<1> DEFINE u == SubSeq(s, b + 1, b + n)
           v == SubSeq(t, a + 1, a + n)
<1>4. u \in Seq(S) /\ Len(u) = n /\ \A k \in 1 .. n : u[k] = s[b + k]
  BY <1>2, Part
<1>5. v \in Seq(S) /\ Len(v) = n /\ \A k \in 1 .. n : v[k] = t[a + k]
  BY <1>1, Part
<1>6. \A k \in 1 .. Len(t) : t[k] = s[p + k]
  BY <1>1, Part
<1> HIDE DEF u, v
<1>7. \A k \in 1 .. n : u[k] = v[k]
  <2> TAKE k \in 1 .. n
  <2>1. t[a + k] = s[p + (a + k)]
    BY <1>3, <1>6
  <2> QED
    BY <1>3, <1>4, <1>5, <2>1
<1>8. u = v
  BY <1>4, <1>5, <1>7, SeqEqual
<1> QED
  BY <1>2, <1>8 DEF u, v, b

-----------------------------------------------------------------------------
(* The literals of a collection.                                           *)

(* Every range lies within its top level literal.                          *)
Collected(c) == c \in Collection /\ \A i \in DOMAIN c.literals : Proper(c, c.literals[i])

(* Another collection has the same ranges, each with its bytes, if those   *)
(* ranges lay within their top level literals.                             *)
Keeping(c, d) ==
  /\ d \in Collection /\ Len(d.literals) = Len(c.literals)
  /\ Collected(c) =>
       /\ Collected(d)
       /\ \A i \in DOMAIN c.literals :
            /\ d.literals[i].length = c.literals[i].length
            /\ Denoted(d, d.literals[i]) = Denoted(c, c.literals[i])

LEMMA Found ==
  ASSUME NEW sub \in Seq(Bytes), NEW super \in Seq(Bytes), Within(sub, super)
  PROVE  /\ find_subregion(super, sub) \in Nat
         /\ find_subregion(super, sub) + Len(sub) <= Len(super)
         /\ SubSeq(super, find_subregion(super, sub) + 1, find_subregion(super, sub) + Len(sub)) = sub
<1> DEFINE P == Places(super, sub)
<1>1. Len(sub) \in Nat /\ Len(super) \in Nat
  BY LenProperties
<1>2. P \subseteq 0 .. Len(super) /\ P # {}
  BY <1>1 DEF Within, Places
<1> HIDE DEF P
<1>3. Max(P) \in P
  BY <1>1, <1>2, MaxOf
<1>4. /\ Max(P) \in 0 .. (Len(super) - Len(sub))
      /\ SubSeq(super, Max(P) + 1, Max(P) + Len(sub)) = sub
  BY <1>3 DEF P, Places
<1>5. find_subregion(super, sub) = Max(P)
  BY DEF P, find_subregion
<1> QED
  BY <1>1, <1>4, <1>5

LEMMA CollectionParts ==
  ASSUME NEW c \in Collection
  PROVE  /\ c = [literals |-> c.literals, top_level_literals |-> c.top_level_literals]
         /\ c.literals \in Seq(BinaryLiteral) /\ Len(c.literals) \in Nat
         /\ DOMAIN c.literals = 1 .. Len(c.literals)
         /\ \A k \in DOMAIN c.literals : c.literals[k] \in BinaryLiteral
         /\ c.top_level_literals \in Seq(Seq(Bytes)) /\ Len(c.top_level_literals) \in Nat
         /\ DOMAIN c.top_level_literals = 1 .. Len(c.top_level_literals)
         /\ \A k \in DOMAIN c.top_level_literals : c.top_level_literals[k] \in Seq(Bytes)
<1>1. /\ c = [literals |-> c.literals, top_level_literals |-> c.top_level_literals]
      /\ c.literals \in Seq(BinaryLiteral) /\ c.top_level_literals \in Seq(Seq(Bytes))
  BY DEF Collection
<1> QED
  BY <1>1, LenProperties, ElementOfSeq

LEMMA ShiftedParts ==
  ASSUME NEW lit \in BinaryLiteral, NEW top \in Nat, NEW by \in Nat
  PROVE  /\ Shifted(lit, top, by) \in BinaryLiteral
         /\ Shifted(lit, top, by).top_level_index = top
         /\ Shifted(lit, top, by).start = lit.start + by
         /\ Shifted(lit, top, by).length = lit.length
<1> DEFINE moved == [lit EXCEPT !.top_level_index = top]
<1>1. /\ lit.start \in Nat /\ lit.length \in Nat
      /\ moved \in BinaryLiteral /\ moved.top_level_index = top
      /\ moved.start = lit.start /\ moved.length = lit.length
  BY DEF BinaryLiteral
<1>2. Shifted(lit, top, by) = [moved EXCEPT !.start = lit.start + by]
  BY DEF Shifted, BinaryLiteral
<1> HIDE DEF moved
<1> QED
  BY <1>1, <1>2 DEF BinaryLiteral

(* Ranges that follow their bytes from one collection to another.          *)
LEMMA RangesFollow ==
  ASSUME NEW c \in Collection, NEW d \in Collection, Len(d.literals) = Len(c.literals),
         Collected(c) => \A k \in DOMAIN c.literals :
           LET old == c.literals[k]
               new == d.literals[k]
               source == c.top_level_literals[old.top_level_index]
               target == d.top_level_literals[new.top_level_index]
           IN /\ new.top_level_index \in DOMAIN d.top_level_literals
              /\ new.length = old.length
              /\ \E p \in Nat :
                   /\ new.start = old.start + p /\ p + Len(source) <= Len(target)
                   /\ SubSeq(target, p + 1, p + Len(source)) = source
  PROVE  Keeping(c, d)
<1>1. ASSUME Collected(c), NEW k \in DOMAIN c.literals
      PROVE  /\ Proper(d, d.literals[k]) /\ d.literals[k].length = c.literals[k].length
             /\ Denoted(d, d.literals[k]) = Denoted(c, c.literals[k])
  <2> DEFINE old == c.literals[k]
             new == d.literals[k]
             source == c.top_level_literals[old.top_level_index]
             target == d.top_level_literals[new.top_level_index]
  <2>1. /\ old \in BinaryLiteral /\ old.top_level_index \in DOMAIN c.top_level_literals
        /\ old.start + old.length <= Len(source) /\ source \in Seq(Bytes)
    BY <1>1, CollectionParts DEF Collected, Proper
  <2>2. old.start \in Nat /\ old.length \in Nat
    BY <2>1 DEF BinaryLiteral
  <2>3. PICK p \in Nat : /\ new.start = old.start + p /\ p + Len(source) <= Len(target)
                         /\ SubSeq(target, p + 1, p + Len(source)) = source
    BY <1>1
  <2>4. /\ new.top_level_index \in DOMAIN d.top_level_literals /\ new.length = old.length
    BY <1>1
  <2>5. target \in Seq(Bytes)
    BY <2>4, CollectionParts
  <2> HIDE DEF old, new, source, target
  <2>6. /\ (old.start + p) + old.length <= Len(target)
        /\ SubSeq(target, (old.start + p) + 1, (old.start + p) + old.length)
             = SubSeq(source, old.start + 1, old.start + old.length)
    <3> DEFINE a == old.start
               n == old.length
    <3>1. a \in Nat /\ n \in Nat /\ a + n <= Len(source)
      BY <2>1, <2>2
    <3> HIDE DEF a, n
    <3>2. /\ (a + p) + n <= Len(target)
          /\ SubSeq(target, (a + p) + 1, (a + p) + n) = SubSeq(source, a + 1, a + n)
      BY <2>1, <2>3, <2>5, <3>1, PartOfPart
    <3> QED
      BY <3>2 DEF a, n
  <2> QED
    BY <2>3, <2>4, <2>6 DEF Proper, Denoted, old, new, source, target
<1>2. DOMAIN d.literals = DOMAIN c.literals
  BY CollectionParts DEF Collected
<1> QED
  BY <1>1, <1>2 DEF Keeping, Collected

-----------------------------------------------------------------------------
(* Top level literals that replace others.                                 *)

(* Two collections that come from one another, one after the other.        *)
LEMMA KeepingTwice ==
  ASSUME NEW c \in Collection, NEW d, NEW e, Keeping(c, d), Keeping(d, e)
  PROVE  Keeping(c, e)
<1>1. DOMAIN c.literals = DOMAIN d.literals
  BY CollectionParts DEF Keeping
<1> QED
  BY <1>1 DEF Keeping

LEMMA ReplacedKeeps ==
  ASSUME NEW c \in Collection, NEW i \in DOMAIN c.top_level_literals, NEW value \in Seq(Bytes),
         Within(c.top_level_literals[i], value)
  PROVE  /\ Keeping(c, ReplacedBy(c, i, value))
         /\ ReplacedBy(c, i, value).top_level_literals = [c.top_level_literals EXCEPT ![i] = value]
<1> DEFINE lits == c.literals
           tops == c.top_level_literals
           by == find_subregion(value, tops[i])
           Follow(lit) == IF lit.top_level_index = i THEN Shifted(lit, i, by) ELSE lit
           newTops == [tops EXCEPT ![i] = value]
           newLits == [k \in DOMAIN lits |-> Follow(lits[k])]
           d == [literals |-> newLits, top_level_literals |-> newTops]
<1>1. /\ c = [literals |-> lits, top_level_literals |-> tops]
      /\ lits \in Seq(BinaryLiteral) /\ Len(lits) \in Nat /\ DOMAIN lits = 1 .. Len(lits)
      /\ \A k \in DOMAIN lits : lits[k] \in BinaryLiteral
      /\ tops \in Seq(Seq(Bytes)) /\ Len(tops) \in Nat /\ DOMAIN tops = 1 .. Len(tops)
      /\ \A k \in DOMAIN tops : tops[k] \in Seq(Bytes)
  BY CollectionParts
<1>2. \A k \in DOMAIN lits : /\ Collected(c) => lits[k].top_level_index \in DOMAIN tops
                             /\ lits[k].start \in Nat
  BY <1>1 DEF Collected, Proper, BinaryLiteral
<1>3. ReplacedBy(c, i, value) = [[c EXCEPT !.top_level_literals = newTops] EXCEPT !.literals = newLits]
  BY <1>1 DEF ReplacedBy
<1>4. /\ by \in Nat /\ by + Len(tops[i]) <= Len(value)
      /\ SubSeq(value, by + 1, by + Len(tops[i])) = tops[i]
  BY <1>1, Found
<1>5. \A k \in DOMAIN lits :
        /\ Follow(lits[k]) \in BinaryLiteral
        /\ Follow(lits[k]).length = lits[k].length
        /\ Follow(lits[k]).top_level_index = lits[k].top_level_index
        /\ Follow(lits[k]).start = IF lits[k].top_level_index = i
                                   THEN lits[k].start + by ELSE lits[k].start
  <2> HIDE DEF by, lits, tops
  <2> TAKE k \in DOMAIN lits
  <2>1. i \in Nat /\ lits[k] \in BinaryLiteral
    BY <1>1 DEF tops
  <2> QED
    BY <1>4, <2>1, ShiftedParts
<1> HIDE DEF by, Follow
<1>6. newLits \in Seq(BinaryLiteral) /\ Len(newLits) = Len(lits)
  BY <1>1, <1>5, IsASeq
<1>7. newTops \in Seq(Seq(Bytes)) /\ Len(newTops) = Len(tops)
  BY <1>1, ExceptSeq
<1>8. \A k \in DOMAIN lits : newLits[k] = Follow(lits[k])
  OBVIOUS
<1>9. \A k \in DOMAIN tops : newTops[k] = IF k = i THEN value ELSE tops[k]
  BY <1>1
<1>10. DOMAIN newTops = DOMAIN tops
  BY <1>1
<1> HIDE DEF newLits, newTops, lits, tops
<1>11. ReplacedBy(c, i, value) = d
  BY <1>1, <1>3
<1>12. d.literals = newLits /\ d.top_level_literals = newTops /\ d \in Collection
  BY <1>6, <1>7 DEF Collection
<1> HIDE DEF d
<1>13. ASSUME Collected(c), NEW k \in DOMAIN lits PROVE
         LET old == lits[k]
             new == newLits[k]
             source == tops[old.top_level_index]
             target == newTops[new.top_level_index]
         IN /\ new.top_level_index \in DOMAIN newTops
            /\ new.length = old.length
            /\ \E p \in Nat :
                 /\ new.start = old.start + p /\ p + Len(source) <= Len(target)
                 /\ SubSeq(target, p + 1, p + Len(source)) = source
  <2> DEFINE old == lits[k]
             new == newLits[k]
             source == tops[old.top_level_index]
             target == newTops[new.top_level_index]
  <2>1. /\ new.top_level_index = old.top_level_index /\ old.top_level_index \in DOMAIN tops
        /\ new.length = old.length /\ old.start \in Nat
        /\ new.start = IF old.top_level_index = i THEN old.start + by ELSE old.start
    BY <1>2, <1>5, <1>8, <1>13
  <2>2. CASE old.top_level_index = i
    BY <1>4, <1>9, <1>10, <2>1, <2>2
  <2>3. CASE old.top_level_index # i
    <3>1. source \in Seq(Bytes) /\ target = source
      BY <1>1, <1>9, <2>1, <2>3
    <3>2. Len(source) \in Nat /\ SubSeq(source, 1, Len(source)) = source
      BY <3>1, SubSeqFull, LenProperties
    <3> HIDE DEF source, target, old, new
    <3>3. 0 \in Nat /\ 0 + 1 = 1 /\ 0 + Len(source) = Len(source) /\ new.start = old.start + 0
      BY <2>1, <2>3, <3>2
    <3>4. /\ 0 + Len(source) <= Len(target)
          /\ SubSeq(target, 0 + 1, 0 + Len(source)) = source
      BY <3>1, <3>2, <3>3
    <3>5. new.top_level_index \in DOMAIN newTops
      BY <1>10, <2>1
    <3> QED
      BY <2>1, <3>3, <3>4, <3>5 DEF source, target, old, new
  <2> QED
    BY <2>2, <2>3
<1>14. Keeping(c, d)
  BY <1>6, <1>12, <1>13, RangesFollow DEF lits, tops
<1> QED
  BY <1>11, <1>12, <1>14 DEF newTops, tops

(* The rest of a sequence, with its last element in the place of another.  *)
LEMMA MovePopElements ==
  ASSUME NEW S, NEW s \in Seq(S), NEW j \in 1 .. Len(s)
  PROVE  /\ MovePop(s, j) \in Seq(S) /\ Len(MovePop(s, j)) = Len(s) - 1
         /\ \A k \in 1 .. Len(s) - 1 : MovePop(s, j)[k] = IF k = j THEN s[Len(s)] ELSE s[k]
<1> DEFINE n == Len(s) - 1
           e(k) == IF k = j THEN s[Len(s)] ELSE s[k]
<1>1. Len(s) \in Nat /\ n \in Nat /\ \A k \in 1 .. Len(s) : s[k] \in S
  BY LenProperties, ElementOfSeq
<1>2. \A k \in 1 .. n : e(k) \in S
  BY <1>1
<1>3. MovePop(s, j) = [k \in 1 .. n |-> e(k)]
  BY DEF MovePop
<1> HIDE DEF n, e
<1>4. /\ [k \in 1 .. n |-> e(k)] \in Seq(S) /\ Len([k \in 1 .. n |-> e(k)]) = n
  BY <1>1, <1>2, IsASeq
<1> QED
  BY <1>3, <1>4 DEF n, e

LEMMA RemovedKeeps ==
  ASSUME NEW c \in Collection,
         NEW i \in DOMAIN c.top_level_literals, NEW j \in DOMAIN c.top_level_literals, i # j,
         Within(c.top_level_literals[j], c.top_level_literals[i])
  PROVE  /\ Keeping(c, Removed(c, i, j))
         /\ Removed(c, i, j).top_level_literals = MovePop(c.top_level_literals, j)
<1> DEFINE lits == c.literals
           tops == c.top_level_literals
           last == Len(tops)
           by == find_subregion(tops[i], tops[j])
           ii == Moved(i, j, last)
           Follow(lit) == Repointed(lit, ii, j, last, by)
           newTops == MovePop(tops, j)
           newLits == [k \in DOMAIN lits |-> Follow(lits[k])]
           d == [literals |-> newLits, top_level_literals |-> newTops]
<1>1. /\ c = [literals |-> lits, top_level_literals |-> tops]
      /\ lits \in Seq(BinaryLiteral) /\ Len(lits) \in Nat /\ DOMAIN lits = 1 .. Len(lits)
      /\ \A k \in DOMAIN lits : lits[k] \in BinaryLiteral
      /\ tops \in Seq(Seq(Bytes)) /\ Len(tops) \in Nat /\ DOMAIN tops = 1 .. Len(tops)
      /\ \A k \in DOMAIN tops : tops[k] \in Seq(Bytes)
  BY CollectionParts
<1>2. \A k \in DOMAIN lits : /\ Collected(c) => lits[k].top_level_index \in DOMAIN tops
                             /\ lits[k].start \in Nat
  BY <1>1 DEF Collected, Proper, BinaryLiteral
<1>3. Removed(c, i, j) = [[c EXCEPT !.top_level_literals = newTops] EXCEPT !.literals = newLits]
  BY <1>1 DEF Removed
<1>4. /\ by \in Nat /\ by + Len(tops[j]) <= Len(tops[i])
      /\ SubSeq(tops[i], by + 1, by + Len(tops[j])) = tops[j]
  BY <1>1, Found
<1>5. /\ newTops \in Seq(Seq(Bytes)) /\ Len(newTops) = Len(tops) - 1
      /\ \A k \in 1 .. Len(tops) - 1 : newTops[k] = IF k = j THEN tops[Len(tops)] ELSE tops[k]
  <2>1. tops \in Seq(Seq(Bytes)) /\ j \in 1 .. Len(tops)
    BY <1>1
  <2> HIDE DEF tops
  <2> QED
    BY <2>1, MovePopElements
<1>6. /\ ii \in DOMAIN newTops /\ newTops[ii] = tops[i]
      /\ \A k \in DOMAIN tops \ {j, last} : k \in DOMAIN newTops /\ newTops[k] = tops[k]
      /\ last # j => j \in DOMAIN newTops /\ newTops[j] = tops[last]
      /\ ii \in Nat /\ j \in Nat
  <2>1. DOMAIN newTops = 1 .. (last - 1)
    BY <1>5, LenProperties
  <2>2. last \in Nat /\ i \in 1 .. last /\ j \in 1 .. last /\ DOMAIN tops = 1 .. last
        /\ \A k \in 1 .. (last - 1) : newTops[k] = IF k = j THEN tops[last] ELSE tops[k]
    BY <1>1, <1>5
  <2> HIDE DEF newTops, tops, last
  <2>3. CASE i = last
    <3>1. ii = j /\ j \in 1 .. (last - 1)
      BY <2>2, <2>3 DEF Moved
    <3> QED
      BY <2>1, <2>2, <2>3, <3>1
  <2>4. CASE i # last
    <3>1. ii = i /\ i \in 1 .. (last - 1)
      BY <2>2, <2>4 DEF Moved
    <3> QED
      BY <2>1, <2>2, <2>4, <3>1
  <2> QED
    BY <2>3, <2>4
<1>7. \A k \in DOMAIN lits :
        /\ Follow(lits[k]) \in BinaryLiteral
        /\ Follow(lits[k]).length = lits[k].length
        /\ lits[k].top_level_index = j =>
             Follow(lits[k]).top_level_index = ii /\ Follow(lits[k]).start = lits[k].start + by
        /\ lits[k].top_level_index = last /\ last # j =>
             Follow(lits[k]).top_level_index = j /\ Follow(lits[k]).start = lits[k].start
        /\ lits[k].top_level_index \notin {j, last} => Follow(lits[k]) = lits[k]
  <2> HIDE DEF by, lits, tops, ii, last
  <2> TAKE k \in DOMAIN lits
  <2>1. lits[k] \in BinaryLiteral /\ lits[k].start + 0 = lits[k].start
    BY <1>1, <1>2
  <2>2. CASE lits[k].top_level_index = j
    <3>1. Follow(lits[k]) = Shifted(lits[k], ii, by)
      BY <2>2 DEF Repointed
    <3>2. /\ Shifted(lits[k], ii, by) \in BinaryLiteral
          /\ Shifted(lits[k], ii, by).top_level_index = ii
          /\ Shifted(lits[k], ii, by).start = lits[k].start + by
          /\ Shifted(lits[k], ii, by).length = lits[k].length
      <4>1. ii \in Nat /\ by \in Nat
        BY <1>4, <1>6
      <4> QED
        BY <2>1, <4>1, ShiftedParts
    <3> HIDE DEF Follow
    <3> QED
      BY <2>2, <3>1, <3>2
  <2>3. CASE lits[k].top_level_index = last /\ j # last
    <3>1. Follow(lits[k]) = Shifted(lits[k], j, 0)
      BY <2>3 DEF Repointed
    <3>2. /\ Shifted(lits[k], j, 0) \in BinaryLiteral
          /\ Shifted(lits[k], j, 0).top_level_index = j
          /\ Shifted(lits[k], j, 0).start = lits[k].start + 0
          /\ Shifted(lits[k], j, 0).length = lits[k].length
      <4>1. j \in Nat /\ 0 \in Nat
        BY <1>6
      <4> QED
        BY <2>1, <4>1, ShiftedParts
    <3> HIDE DEF Follow
    <3> QED
      BY <2>1, <2>3, <3>1, <3>2
  <2>4. CASE lits[k].top_level_index \notin {j, last}
    <3>1. Follow(lits[k]) = lits[k]
      BY <2>4 DEF Repointed
    <3> HIDE DEF Follow
    <3> QED
      BY <2>1, <2>4, <3>1
  <2> QED
    BY <2>2, <2>3, <2>4
<1> HIDE DEF by, Follow, ii
<1>8. newLits \in Seq(BinaryLiteral) /\ Len(newLits) = Len(lits)
  BY <1>1, <1>7, IsASeq
<1>9. \A k \in DOMAIN lits : newLits[k] = Follow(lits[k])
  OBVIOUS
<1> HIDE DEF newLits, newTops, lits, tops
<1>10. Removed(c, i, j) = d
  BY <1>1, <1>3
<1>11. d.literals = newLits /\ d.top_level_literals = newTops /\ d \in Collection
  BY <1>5, <1>8 DEF Collection
<1> HIDE DEF d
<1>12. \A s \in Seq(Bytes) : /\ 0 + Len(s) = Len(s) /\ 0 + Len(s) <= Len(s)
                             /\ SubSeq(s, 0 + 1, 0 + Len(s)) = s
  <2> TAKE s \in Seq(Bytes)
  <2>1. Len(s) \in Nat /\ SubSeq(s, 1, Len(s)) = s
    BY SubSeqFull, LenProperties
  <2>2. 0 + 1 = 1 /\ 0 + Len(s) = Len(s)
    BY <2>1
  <2> QED
    BY <2>1, <2>2
<1>13. ASSUME Collected(c), NEW k \in DOMAIN lits PROVE
         LET old == lits[k]
             new == newLits[k]
             source == tops[old.top_level_index]
             target == newTops[new.top_level_index]
         IN /\ new.top_level_index \in DOMAIN newTops
            /\ new.length = old.length
            /\ \E p \in Nat :
                 /\ new.start = old.start + p /\ p + Len(source) <= Len(target)
                 /\ SubSeq(target, p + 1, p + Len(source)) = source
  <2> DEFINE old == lits[k]
             new == newLits[k]
             source == tops[old.top_level_index]
             target == newTops[new.top_level_index]
  <2>1. /\ old.top_level_index \in DOMAIN tops /\ new.length = old.length /\ old.start \in Nat
        /\ source \in Seq(Bytes)
    BY <1>1, <1>2, <1>7, <1>9, <1>13
  <2>2. CASE old.top_level_index = j
    <3>1. new.top_level_index = ii /\ new.start = old.start + by
      BY <1>7, <1>9, <2>2
    <3> QED
      BY <1>4, <1>6, <2>1, <2>2, <3>1
  <2>3. CASE old.top_level_index # j
    <3>1. /\ new.top_level_index \in DOMAIN newTops /\ target = source /\ new.start = old.start
      <4>1. CASE old.top_level_index = last
        BY <1>6, <1>7, <1>9, <2>3, <4>1
      <4>2. CASE old.top_level_index # last
        BY <1>6, <1>7, <1>9, <2>1, <2>3, <4>2
      <4> QED
        BY <4>1, <4>2
    <3> HIDE DEF source, target, old, new
    <3>2. new.start = old.start + 0 /\ 0 \in Nat
      BY <2>1, <3>1
    <3>3. 0 + Len(source) <= Len(target) /\ SubSeq(target, 0 + 1, 0 + Len(source)) = source
      BY <1>12, <2>1, <3>1, Zenon
    <3> QED
      BY <2>1, <3>1, <3>2, <3>3, Zenon DEF source, target, old, new
  <2> QED
    BY <2>2, <2>3
<1>14. Keeping(c, d)
  BY <1>8, <1>11, <1>13, RangesFollow DEF lits, tops
<1> QED
  BY <1>10, <1>11, <1>14 DEF newTops, tops

-----------------------------------------------------------------------------
(* The search for top level literals that a new one contains.              *)

(* None is within another, except, from n on, within the one at i.         *)
UnsharedBut(tops, i, n) ==
  /\ \A p, q \in DOMAIN tops : p # q /\ q # i => ~Within(tops[p], tops[q])
  /\ \A p \in DOMAIN tops : p < n /\ p # i => ~Within(tops[p], tops[i])
Unshared(tops) == \A p, q \in DOMAIN tops : p # q => ~Within(tops[p], tops[q])

(* The search of Absorbed: what it has, and how far it is.                 *)
Searching(c, value, s) ==
  /\ s = [c |-> s.c, i |-> s.i, j |-> s.j]
  /\ Keeping(c, s.c)
  /\ s.i \in DOMAIN s.c.top_level_literals /\ s.c.top_level_literals[s.i] = value
  /\ s.j \in Nat \ {0}
  /\ UnsharedBut(s.c.top_level_literals, s.i, s.j)

LEMMA UnsharedAfterRemoval ==
  ASSUME NEW T \in Seq(Seq(Bytes)), NEW i \in DOMAIN T, NEW j \in DOMAIN T, i # j,
         UnsharedBut(T, i, j)
  PROVE  /\ Moved(i, j, Len(T)) \in DOMAIN MovePop(T, j)
         /\ MovePop(T, j)[Moved(i, j, Len(T))] = T[i]
         /\ UnsharedBut(MovePop(T, j), Moved(i, j, Len(T)), j)
<1> DEFINE last == Len(T)
           U == MovePop(T, j)
           ii == Moved(i, j, last)
           from(k) == IF k = j THEN last ELSE k
<1>1. last \in Nat /\ DOMAIN T = 1 .. last
  BY LenProperties
<1>2. /\ U \in Seq(Seq(Bytes)) /\ Len(U) = last - 1
      /\ \A k \in 1 .. last - 1 : U[k] = IF k = j THEN T[last] ELSE T[k]
  <2>1. j \in 1 .. Len(T)
    BY <1>1
  <2> QED
    BY <2>1, MovePopElements
<1>3. DOMAIN U = 1 .. last - 1
  BY <1>2, LenProperties
<1> HIDE DEF U
<1>4. ASSUME NEW k \in DOMAIN U PROVE from(k) \in DOMAIN T /\ U[k] = T[from(k)]
  <2>1. k \in 1 .. last - 1 /\ last \in 1 .. last /\ k \in 1 .. last
    BY <1>1, <1>3
  <2>2. U[k] = IF k = j THEN T[last] ELSE T[k]
    BY <1>2, <2>1
  <2> QED
    BY <1>1, <2>1, <2>2
<1>5. \A k, m \in DOMAIN U : k # m => from(k) # from(m)
  BY <1>1, <1>3
<1>6. ii \in DOMAIN U /\ from(ii) = i
  BY <1>1, <1>3 DEF Moved
<1>7. \A k \in DOMAIN U : k < j => from(k) = k
  BY <1>1, <1>3
<1> HIDE DEF from, ii, last
<1>8. ASSUME NEW p \in DOMAIN U, NEW q \in DOMAIN U, p # q, q # ii
      PROVE  ~Within(U[p], U[q])
  BY <1>4, <1>5, <1>6, <1>8 DEF UnsharedBut
<1>9. ASSUME NEW p \in DOMAIN U, p < j, p # ii
      PROVE  ~Within(U[p], U[ii])
  <2>1. from(p) = p /\ from(p) # i
    BY <1>5, <1>6, <1>7, <1>9
  <2> QED
    BY <1>4, <1>6, <1>9, <2>1 DEF UnsharedBut
<1> QED
  BY <1>4, <1>6, <1>8, <1>9 DEF UnsharedBut, U, ii, last

LEMMA SearchedStep ==
  ASSUME NEW c \in Collection, NEW value, NEW s, Searching(c, value, s)
  PROVE  /\ Searching(c, value, Searched(s))
         /\ Searched(s).j - Len(Searched(s).c.top_level_literals)
              = s.j - Len(s.c.top_level_literals) + 1
<1> DEFINE T == s.c.top_level_literals
           i == s.i
           j == s.j
<1>1. /\ s.c \in Collection /\ Keeping(c, s.c) /\ T \in Seq(Seq(Bytes)) /\ Len(T) \in Nat
      /\ DOMAIN T = 1 .. Len(T) /\ i \in DOMAIN T /\ T[i] = value /\ j \in Nat \ {0}
      /\ UnsharedBut(T, i, j) /\ s = [c |-> s.c, i |-> i, j |-> j]
  BY CollectionParts DEF Searching, Keeping
<1>2. HoldsNext(s) <=> (j <= Len(T) /\ j # i /\ Within(T[j], T[i]))
  BY DEF HoldsNext
<1>3. CASE HoldsNext(s)
  <2> DEFINE t == WithoutTop(s)
  <2>1. j \in DOMAIN T /\ i # j /\ Within(T[j], T[i])
    BY <1>1, <1>2, <1>3
  <2>2. /\ t.c = Removed(s.c, i, j) /\ t.i = Moved(i, j, Len(T)) /\ t.j = j
        /\ t = [c |-> t.c, i |-> t.i, j |-> t.j]
    BY DEF WithoutTop
  <2>3. Keeping(s.c, t.c) /\ t.c.top_level_literals = MovePop(T, j)
    BY <1>1, <2>1, <2>2, RemovedKeeps
  <2>4. Keeping(c, t.c)
    BY <1>1, <2>3, KeepingTwice
  <2> HIDE DEF t, T, i, j
  <2>5. /\ Moved(i, j, Len(T)) \in DOMAIN MovePop(T, j)
        /\ MovePop(T, j)[Moved(i, j, Len(T))] = T[i]
        /\ UnsharedBut(MovePop(T, j), Moved(i, j, Len(T)), j)
    BY <1>1, <2>1, UnsharedAfterRemoval
  <2>6. Len(MovePop(T, j)) = Len(T) - 1
    BY <1>1, <2>1, MovePopElements
  <2>7. Searching(c, value, t)
    BY <1>1, <2>2, <2>3, <2>4, <2>5 DEF Searching
  <2>8. t.j - Len(t.c.top_level_literals) = j - Len(T) + 1
    BY <1>1, <2>2, <2>3, <2>6
  <2>9. Searched(s) = t
    BY <1>3 DEF Searched, t
  <2> QED
    BY <2>7, <2>8, <2>9 DEF T, j
<1>4. CASE ~HoldsNext(s)
  <2> DEFINE t == Searched(s)
  <2>1. t = [s EXCEPT !.j = @ + 1]
    BY <1>4 DEF Searched
  <2>2. t.c = s.c /\ t.i = i /\ t.j = j + 1 /\ t = [c |-> t.c, i |-> t.i, j |-> t.j]
    BY <1>1, <2>1
  <2> HIDE DEF t, T, i, j
  <2>3. \A p \in DOMAIN T : p < j + 1 => p < j \/ p = j
    BY <1>1
  <2>4. j \in DOMAIN T /\ j # i => ~Within(T[j], T[i])
    BY <1>1, <1>2, <1>4
  <2>5. UnsharedBut(T, i, j + 1)
    BY <1>1, <2>3, <2>4 DEF UnsharedBut
  <2>6. Searching(c, value, t)
    BY <1>1, <2>2, <2>5 DEF Searching, T
  <2>7. t.j - Len(t.c.top_level_literals) = j - Len(T) + 1
    BY <1>1, <2>2, SMTT(30) DEF T
  <2> QED
    BY <2>6, <2>7 DEF T, j, t
<1> QED
  BY <1>3, <1>4

(* The search is the recursive function that Absorbed defines.             *)
IsSearch(g, c, i, m) ==
  g = [n \in 0 .. m |-> IF n = 0 THEN [c |-> c, i |-> i, j |-> 1] ELSE Searched(g[n - 1])]

LEMMA SearchExists ==
  ASSUME NEW c, NEW i, NEW m \in Nat
  PROVE  \E g : IsSearch(g, c, i, m)
<1> DEFINE T == {k \in Nat : \E g : IsSearch(g, c, i, k)}
<1>1. 0 \in T
  <2>1. IsSearch([n \in 0 .. 0 |-> [c |-> c, i |-> i, j |-> 1]], c, i, 0)
    BY DEF IsSearch
  <2> QED
    BY <2>1
<1>2. ASSUME NEW k \in Nat, k \in T PROVE k + 1 \in T
  <2>1. PICK g : IsSearch(g, c, i, k)
    BY <1>2
  <2> DEFINE h == [n \in 0 .. (k + 1) |-> IF n = k + 1 THEN Searched(g[k]) ELSE g[n]]
  <2>2. \A n \in 0 .. k : g[n] = IF n = 0 THEN [c |-> c, i |-> i, j |-> 1] ELSE Searched(g[n - 1])
    BY <2>1 DEF IsSearch
  <2>3. \A n \in 0 .. (k + 1) :
          h[n] = IF n = 0 THEN [c |-> c, i |-> i, j |-> 1] ELSE Searched(h[n - 1])
    <3> TAKE n \in 0 .. (k + 1)
    <3>1. CASE n = 0
      BY <2>2, <3>1
    <3>2. CASE n \in 1 .. k
      <4>1. h[n] = g[n] /\ h[n - 1] = g[n - 1]
        BY <3>2
      <4> QED
        BY <2>2, <3>2, <4>1
    <3>3. CASE n = k + 1
      <4>1. h[n] = Searched(g[k]) /\ h[n - 1] = g[k]
        BY <3>3
      <4> QED
        BY <3>3, <4>1
    <3> QED
      BY <3>1, <3>2, <3>3
  <2>4. IsSearch(h, c, i, k + 1)
    BY <2>3 DEF IsSearch
  <2> QED
    BY <2>4
<1> HIDE DEF T
<1>3. m \in T
  BY <1>1, <1>2, Induct
<1> QED
  BY <1>3 DEF T

LEMMA AbsorbedResult ==
  ASSUME NEW c \in Collection, NEW i \in DOMAIN c.top_level_literals,
         UnsharedBut(c.top_level_literals, i, 1)
  PROVE  LET s == Absorbed(c, i)
         IN /\ Keeping(c, s.c)
            /\ s.i \in DOMAIN s.c.top_level_literals
            /\ s.c.top_level_literals[s.i] = c.top_level_literals[i]
            /\ Unshared(s.c.top_level_literals)
<1> DEFINE m == Len(c.top_level_literals)
           value == c.top_level_literals[i]
           f == CHOOSE g : IsSearch(g, c, i, m)
           At(n) == f[n]
           start == [c |-> c, i |-> i, j |-> 1]
           Good(n) == /\ Searching(c, value, f[n])
                      /\ f[n].j - Len(f[n].c.top_level_literals) = (n + 1) - m
           G == {n \in 0 .. m : Good(n)}
<1>1. m \in Nat
  BY CollectionParts
<1>2. IsSearch(f, c, i, m)
  BY <1>1, SearchExists
<1>3. Absorbed(c, i) = f[m]
  BY DEF Absorbed, IsSearch
<1> HIDE DEF f
<1>4. f[0] = start /\ \A n \in 1 .. m : f[n] = Searched(f[n - 1])
  <2>1. \A n \in 0 .. m : f[n] = IF n = 0 THEN start ELSE Searched(f[n - 1])
    BY <1>2 DEF IsSearch
  <2> HIDE DEF start
  <2> QED
    BY <1>1, <2>1
<1>5. Keeping(c, c)
  BY DEF Keeping
<1>6. Good(0)
  <2>1. start.c = c /\ start.i = i /\ start.j = 1
    OBVIOUS
  <2> HIDE DEF start
  <2>2. Searching(c, value, start)
    BY <1>5, <2>1 DEF Searching, start
  <2> QED
    BY <1>1, <1>4, <2>1, <2>2
<1>7. ASSUME NEW n \in 0 .. (m - 1), Good(n) PROVE Good(n + 1)
  <2>1. f[n + 1] = Searched(f[n])
    BY <1>1, <1>4
  <2>2. /\ Searching(c, value, Searched(f[n]))
        /\ Searched(f[n]).j - Len(Searched(f[n]).c.top_level_literals)
             = f[n].j - Len(f[n].c.top_level_literals) + 1
    BY <1>7, SearchedStep
  <2>3. Searching(c, value, f[n + 1])
    BY <2>1, <2>2
  <2>4. f[n + 1].j - Len(f[n + 1].c.top_level_literals) = (n + 1) - m + 1
    BY <1>7, <2>1, <2>2
  <2>5. (n + 1) - m + 1 = ((n + 1) + 1) - m
    BY <1>1
  <2> QED
    BY <2>3, <2>4, <2>5
<1>8. m \in G
  <2> HIDE DEF Good, m
  <2>1. 0 \in G
    BY <1>1, <1>6
  <2>2. \A n \in 0 .. (m - 1) : n \in G => n + 1 \in G
    BY <1>1, <1>7
  <2> HIDE DEF G
  <2> QED
    BY <1>1, <2>1, <2>2, InductTo
<1> DEFINE s == f[m]
<1>9. Searching(c, value, s) /\ s.j - Len(s.c.top_level_literals) = (m + 1) - m
  BY <1>8
<1> HIDE DEF s, G, value
<1>10. Len(s.c.top_level_literals) \in Nat /\ DOMAIN s.c.top_level_literals = 1 .. Len(s.c.top_level_literals)
  BY <1>9, CollectionParts DEF Searching, Keeping
<1>11. s.j = Len(s.c.top_level_literals) + 1
  BY <1>1, <1>9, <1>10 DEF Searching
<1>12. \A p \in DOMAIN s.c.top_level_literals : p < s.j
  BY <1>10, <1>11
<1>13. Unshared(s.c.top_level_literals)
  BY <1>9, <1>12 DEF Searching, UnsharedBut, Unshared
<1> QED
  BY <1>3, <1>9, <1>13 DEF Searching, value, s

-----------------------------------------------------------------------------
(* Ranges that are added.                                                  *)

(* The collection has lit at the place that With answers.                  *)
LEMMA WithKeeps ==
  ASSUME NEW c \in Collection, NEW lit \in BinaryLiteral
  PROVE  LET w == With(c, lit)
         IN /\ w.c \in Collection /\ w.c.top_level_literals = c.top_level_literals
            /\ w.index \in DOMAIN w.c.literals /\ w.c.literals[w.index] = lit
            /\ \A k \in DOMAIN c.literals : k \in DOMAIN w.c.literals /\ w.c.literals[k] = c.literals[k]
            /\ Collected(c) /\ Proper(c, lit) => Collected(w.c)
<1> DEFINE d == Inserted(c, lit)
           lits == c.literals
           more == Append(lits, lit)
           S == {i \in DOMAIN d.literals : d.literals[i] = lit}
<1>1. /\ c = [literals |-> lits, top_level_literals |-> c.top_level_literals]
      /\ lits \in Seq(BinaryLiteral) /\ Len(lits) \in Nat /\ DOMAIN lits = 1 .. Len(lits)
  BY CollectionParts
<1>2. /\ d \in Collection /\ d.top_level_literals = c.top_level_literals
      /\ \E i \in DOMAIN d.literals : d.literals[i] = lit
      /\ \A k \in DOMAIN d.literals : (k \in DOMAIN lits /\ d.literals[k] = lits[k]) \/ d.literals[k] = lit
      /\ \A k \in DOMAIN lits : k \in DOMAIN d.literals /\ d.literals[k] = lits[k]
  <2>1. CASE \E i \in DOMAIN lits : lits[i] = lit
    <3>1. d = c
      BY <2>1 DEF Inserted
    <3> HIDE DEF d
    <3> QED
      BY <1>1, <2>1, <3>1
  <2>2. CASE ~\E i \in DOMAIN lits : lits[i] = lit
    <3>1. /\ more \in Seq(BinaryLiteral) /\ DOMAIN more = 1 .. (Len(lits) + 1)
          /\ more[Len(lits) + 1] = lit /\ \A k \in 1 .. Len(lits) : more[k] = lits[k]
      <4>1. Len(more) = Len(lits) + 1
        BY <1>1
      <4> QED
        BY <1>1, <4>1, LenProperties
    <3>2. d = [c EXCEPT !.literals = more]
      BY <2>2 DEF Inserted
    <3> HIDE DEF more, d
    <3>3. d = [literals |-> more, top_level_literals |-> c.top_level_literals]
      BY <1>1, <3>2
    <3>4. d.literals = more /\ d.top_level_literals = c.top_level_literals
      BY <3>3
    <3>5. d \in Collection
      BY <1>1, <3>1, <3>3 DEF Collection
    <3>6. Len(lits) + 1 \in DOMAIN more /\ \A k \in DOMAIN more : k \in DOMAIN lits \/ k = Len(lits) + 1
      BY <1>1, <3>1
    <3>7. \A k \in DOMAIN lits : k \in DOMAIN more /\ more[k] = lits[k]
      BY <1>1, <3>1
    <3> QED
      BY <3>1, <3>4, <3>5, <3>6, <3>7
  <2> QED
    BY <2>1, <2>2
<1> HIDE DEF d, lits, more
<1>3. Min(S) \in S
  <2>1. S \subseteq Nat
    BY <1>2, CollectionParts
  <2>2. S # {}
    BY <1>2
  <2> HIDE DEF S
  <2> QED
    BY <2>1, <2>2, MinOf
<1>4. IndexOf(d, lit) = Min(S)
  BY DEF IndexOf
<1>5. IndexOf(d, lit) \in DOMAIN d.literals /\ d.literals[IndexOf(d, lit)] = lit
  BY <1>3, <1>4
<1>6. Collected(c) /\ Proper(c, lit) => Collected(d)
  BY <1>2 DEF Collected, Proper, lits
<1>7. With(c, lit).c = d /\ With(c, lit).index = IndexOf(d, lit)
  BY DEF With, d
<1> QED
  BY <1>2, <1>5, <1>6, <1>7 DEF lits

(* The literals of c are in d, as they were.                               *)
Extending(c, d) ==
  /\ d \in Collection /\ DOMAIN c.literals \subseteq DOMAIN d.literals
  /\ Collected(c) =>
       /\ Collected(d)
       /\ \A k \in DOMAIN c.literals : Denoted(d, d.literals[k]) = Denoted(c, c.literals[k])

(* What add does: the top level literals stay apart, the literals keep     *)
(* their bytes, and the value has a range.                                 *)
Adds(c, value, a) ==
  /\ Extending(c, a.c) /\ Unshared(a.c.top_level_literals)
  /\ a.index \in DOMAIN a.c.literals
  /\ Denoted(a.c, a.c.literals[a.index]) = value

(* A range is added to a collection that has its bytes.                    *)
LEMMA WithAdds ==
  ASSUME NEW c \in Collection, NEW d, Keeping(c, d), Unshared(d.top_level_literals),
         NEW lit \in BinaryLiteral, Proper(d, lit), NEW value, Denoted(d, lit) = value
  PROVE  Adds(c, value, With(d, lit))
<1> DEFINE w == With(d, lit)
<1>1. /\ w.c \in Collection /\ w.c.top_level_literals = d.top_level_literals
      /\ w.index \in DOMAIN w.c.literals /\ w.c.literals[w.index] = lit
      /\ \A k \in DOMAIN d.literals : k \in DOMAIN w.c.literals /\ w.c.literals[k] = d.literals[k]
      /\ Collected(d) => Collected(w.c)
  BY WithKeeps DEF Keeping
<1>2. DOMAIN c.literals = DOMAIN d.literals
  BY CollectionParts DEF Keeping
<1> HIDE DEF w
<1>3. \A l : Denoted(w.c, l) = Denoted(d, l)
  BY <1>1 DEF Denoted
<1>4. Extending(c, w.c)
  BY <1>1, <1>2, <1>3 DEF Extending, Keeping
<1> QED
  BY <1>1, <1>3, <1>4 DEF Adds, w

(* A range that is a whole top level literal denotes it.                   *)
LEMMA WholeLiteral ==
  ASSUME NEW c \in Collection, NEW i \in DOMAIN c.top_level_literals
  PROVE  LET lit == Aliasing(i, 0, Len(c.top_level_literals[i]))
         IN lit \in BinaryLiteral /\ Proper(c, lit) /\ Denoted(c, lit) = c.top_level_literals[i]
<1> DEFINE s == c.top_level_literals[i]
           lit == Aliasing(i, 0, Len(s))
<1>1. i \in Nat /\ s \in Seq(Bytes) /\ Len(s) \in Nat
  BY CollectionParts, LenProperties
<1>2. SubSeq(s, 1, Len(s)) = s
  BY <1>1, SubSeqFull
<1>3. /\ lit \in BinaryLiteral /\ lit.top_level_index = i /\ lit.start = 0 /\ lit.length = Len(s)
  BY <1>1 DEF Aliasing, BinaryLiteral
<1> HIDE DEF lit, s
<1>4. 0 + 1 = 1 /\ 0 + Len(s) = Len(s) /\ Len(s) <= Len(s)
  BY <1>1
<1> QED
  BY <1>2, <1>3, <1>4 DEF Proper, Denoted, lit, s

LEMMA AppendedKeeps ==
  ASSUME NEW c \in Collection, NEW value \in Seq(Bytes)
  PROVE  LET tops == Append(c.top_level_literals, value)
             d == [c EXCEPT !.top_level_literals = tops]
         IN /\ Keeping(c, d) /\ d.top_level_literals = tops
            /\ Len(tops) \in DOMAIN tops /\ tops[Len(tops)] = value
            /\ \A p \in DOMAIN tops : \/ p = Len(tops)
                                      \/ p \in DOMAIN c.top_level_literals /\ tops[p] = c.top_level_literals[p]
<1> DEFINE old == c.top_level_literals
           tops == Append(old, value)
           d == [c EXCEPT !.top_level_literals = tops]
<1>1. /\ c = [literals |-> c.literals, top_level_literals |-> old]
      /\ c.literals \in Seq(BinaryLiteral) /\ old \in Seq(Seq(Bytes)) /\ Len(old) \in Nat
      /\ DOMAIN old = 1 .. Len(old)
  BY CollectionParts
<1>2. /\ tops \in Seq(Seq(Bytes)) /\ Len(tops) = Len(old) + 1
      /\ tops[Len(old) + 1] = value /\ \A k \in 1 .. Len(old) : tops[k] = old[k]
  BY <1>1
<1>3. DOMAIN tops = 1 .. (Len(old) + 1)
  BY <1>2, LenProperties
<1>4. \A k \in DOMAIN old : k \in DOMAIN tops /\ tops[k] = old[k]
  BY <1>1, <1>2, <1>3
<1>5. \A p \in DOMAIN tops : p = Len(tops) \/ (p \in DOMAIN old /\ tops[p] = old[p])
  BY <1>1, <1>2, <1>3
<1>6. Len(tops) \in DOMAIN tops /\ tops[Len(tops)] = value
  BY <1>1, <1>2, <1>3
<1> HIDE DEF tops
<1>7. d = [literals |-> c.literals, top_level_literals |-> tops]
  BY <1>1
<1>8. d.literals = c.literals /\ d.top_level_literals = tops /\ d \in Collection
  BY <1>1, <1>2, <1>7 DEF Collection
<1> HIDE DEF d, old
<1>9. Keeping(c, d)
  <2>1. ASSUME Collected(c), NEW k \in DOMAIN c.literals
        PROVE  /\ c.literals[k].top_level_index \in DOMAIN old
               /\ c.literals[k].start + c.literals[k].length <= Len(old[c.literals[k].top_level_index])
    BY <2>1 DEF Collected, Proper, old
  <2>2. Collected(c) => Collected(d)
    BY <1>4, <1>8, <2>1 DEF Collected, Proper
  <2>3. Collected(c) => \A k \in DOMAIN c.literals : Denoted(d, d.literals[k]) = Denoted(c, c.literals[k])
    BY <1>4, <1>8, <2>1 DEF Denoted, old
  <2> QED
    BY <1>8, <2>2, <2>3 DEF Keeping
<1> QED
  BY <1>5, <1>6, <1>8, <1>9 DEF d, tops, old

(* BinaryLiteralCollection::add.                                           *)
LEMMA AddedAdds ==
  ASSUME NEW c \in Collection, Unshared(c.top_level_literals), NEW value \in Seq(Bytes)
  PROVE  Adds(c, value, Added(c, value))
<1> DEFINE tops == c.top_level_literals
<1>1. /\ tops \in Seq(Seq(Bytes)) /\ Len(tops) \in Nat /\ DOMAIN tops = 1 .. Len(tops)
      /\ \A k \in DOMAIN tops : tops[k] \in Seq(Bytes)
  BY CollectionParts
<1>2. Keeping(c, c)
  BY DEF Keeping
<1>3. CASE Sharing(c, value) # {}
  <2> DEFINE i == Min(Sharing(c, value))
             start == find_subregion(tops[i], value)
             lit == Aliasing(i, start, Len(value))
  <2>1. i \in Sharing(c, value)
    <3>1. Sharing(c, value) \subseteq Nat
      BY <1>1 DEF Sharing
    <3> QED
      BY <1>3, <3>1, MinOf
  <2>2. i \in DOMAIN tops /\ i \in Nat /\ Within(value, tops[i])
    BY <1>1, <2>1 DEF Sharing
  <2> HIDE DEF i
  <2>3. /\ start \in Nat /\ start + Len(value) <= Len(tops[i])
        /\ SubSeq(tops[i], start + 1, start + Len(value)) = value
    BY <1>1, <2>2, Found
  <2> HIDE DEF start, tops
  <2>4. /\ lit \in BinaryLiteral /\ lit.top_level_index = i /\ lit.start = start /\ lit.length = Len(value)
    BY <2>2, <2>3, LenProperties DEF Aliasing, BinaryLiteral
  <2> HIDE DEF lit
  <2>5. Proper(c, lit) /\ Denoted(c, lit) = value
    BY <2>2, <2>3, <2>4 DEF Proper, Denoted, tops
  <2>6. Adds(c, value, With(c, lit))
    BY <1>2, <2>4, <2>5, WithAdds
  <2>7. Added(c, value) = With(c, lit)
    BY <1>3 DEF Added, lit, start, i, tops
  <2> QED
    BY <2>6, <2>7
<1>4. CASE Sharing(c, value) = {} /\ Contained(c, value) # {}
  <2> DEFINE i == Min(Contained(c, value))
             r == ReplacedBy(c, i, value)
             s == Absorbed(r, i)
             lit == Aliasing(s.i, 0, Len(value))
  <2>1. i \in Contained(c, value)
    <3>1. Contained(c, value) \subseteq Nat
      BY <1>1 DEF Contained
    <3> QED
      BY <1>4, <3>1, MinOf
  <2>2. i \in DOMAIN tops /\ i \in Nat /\ Within(tops[i], value)
    BY <1>1, <2>1 DEF Contained
  <2> HIDE DEF i
  <2>3. Keeping(c, r) /\ r.top_level_literals = [tops EXCEPT ![i] = value]
    BY <2>2, ReplacedKeeps
  <2> HIDE DEF r
  <2>4. /\ i \in DOMAIN r.top_level_literals /\ r.top_level_literals[i] = value
        /\ \A k \in DOMAIN r.top_level_literals :
             k \in DOMAIN tops /\ r.top_level_literals[k] = IF k = i THEN value ELSE tops[k]
    BY <1>1, <2>2, <2>3
  <2>5. UnsharedBut(r.top_level_literals, i, 1)
    <3>1. \A p, q \in DOMAIN tops : p # q => ~Within(tops[p], tops[q])
      BY DEF Unshared
    <3>2. \A q \in DOMAIN tops : ~Within(value, tops[q])
      BY <1>4 DEF Sharing
    <3>3. \A p, q \in DOMAIN r.top_level_literals :
            p # q /\ q # i => ~Within(r.top_level_literals[p], r.top_level_literals[q])
      BY <2>4, <3>1, <3>2
    <3>4. \A p \in DOMAIN r.top_level_literals : ~(p < 1)
      BY <1>1, <2>4
    <3> QED
      BY <3>3, <3>4 DEF UnsharedBut
  <2>6. /\ Keeping(r, s.c) /\ s.i \in DOMAIN s.c.top_level_literals
        /\ s.c.top_level_literals[s.i] = value /\ Unshared(s.c.top_level_literals)
    BY <2>3, <2>4, <2>5, AbsorbedResult DEF Keeping
  <2> HIDE DEF s
  <2>7. Keeping(c, s.c)
    BY <2>3, <2>6, KeepingTwice
  <2>8. lit \in BinaryLiteral /\ Proper(s.c, lit) /\ Denoted(s.c, lit) = value
    BY <2>6, WholeLiteral DEF Keeping
  <2> HIDE DEF lit
  <2>9. Adds(c, value, With(s.c, lit))
    BY <2>6, <2>7, <2>8, WithAdds
  <2>10. Added(c, value) = With(s.c, lit)
    BY <1>4 DEF Added, lit, s, r, i
  <2> QED
    BY <2>9, <2>10
<1>5. CASE Sharing(c, value) = {} /\ Contained(c, value) = {}
  <2> DEFINE more == Append(tops, value)
             n == Len(more)
             d == [c EXCEPT !.top_level_literals = more]
             lit == Aliasing(n, 0, Len(value))
  <2>1. /\ Keeping(c, d) /\ d.top_level_literals = more
        /\ n \in DOMAIN more /\ more[n] = value
        /\ \A p \in DOMAIN more : p = n \/ (p \in DOMAIN tops /\ more[p] = tops[p])
    BY AppendedKeeps
  <2> HIDE DEF more, d, n
  <2>2. Unshared(more)
    <3>1. \A p, q \in DOMAIN tops : p # q => ~Within(tops[p], tops[q])
      BY DEF Unshared
    <3>2. \A p \in DOMAIN tops : ~Within(value, tops[p]) /\ ~Within(tops[p], value)
      BY <1>5 DEF Sharing, Contained
    <3> HIDE DEF tops
    <3> QED
      BY <2>1, <3>1, <3>2 DEF Unshared
  <2>3. lit \in BinaryLiteral /\ Proper(d, lit) /\ Denoted(d, lit) = value
    BY <2>1, WholeLiteral DEF Keeping
  <2> HIDE DEF lit
  <2>4. Adds(c, value, With(d, lit))
    BY <2>1, <2>2, <2>3, WithAdds
  <2>5. Added(c, value) = With(d, lit)
    BY <1>5 DEF Added, lit, d, n, more, tops
  <2> QED
    BY <2>4, <2>5
<1> QED
  BY <1>3, <1>4, <1>5

-----------------------------------------------------------------------------
(* The literals of a file that join those of the executable.               *)

(* What is merged of the top level literals, up to one of them.            *)
MergedTop(m, value) ==
  LET a == Added(m.c, value)
  IN [c |-> a.c, fix |-> Append(m.fix, a.c.literals[a.index])]
IsMergeOfTops(g, total, tops, m) ==
  g = [n \in 0 .. m |->
         IF n = 0 THEN [c |-> total, fix |-> <<>>]
         ELSE LET a == Added(g[n - 1].c, tops[n])
              IN [c |-> a.c, fix |-> Append(g[n - 1].fix, a.c.literals[a.index])]]

LEMMA MergeOfTopsExists ==
  ASSUME NEW total, NEW tops, NEW m \in Nat
  PROVE  \E g : IsMergeOfTops(g, total, tops, m)
<1> DEFINE T == {k \in Nat : \E g : IsMergeOfTops(g, total, tops, k)}
           start == [c |-> total, fix |-> <<>>]
<1>1. 0 \in T
  <2>1. IsMergeOfTops([n \in 0 .. 0 |-> start], total, tops, 0)
    BY DEF IsMergeOfTops
  <2> QED
    BY <2>1
<1>2. ASSUME NEW k \in Nat, k \in T PROVE k + 1 \in T
  <2>1. PICK g : IsMergeOfTops(g, total, tops, k)
    BY <1>2
  <2> DEFINE h == [n \in 0 .. (k + 1) |->
                     IF n = k + 1 THEN MergedTop(g[k], tops[k + 1]) ELSE g[n]]
  <2>2. \A n \in 0 .. k : g[n] = IF n = 0 THEN start ELSE MergedTop(g[n - 1], tops[n])
    BY <2>1 DEF IsMergeOfTops, MergedTop
  <2> HIDE DEF start
  <2>3. \A n \in 0 .. (k + 1) : h[n] = IF n = 0 THEN start ELSE MergedTop(h[n - 1], tops[n])
    <3> TAKE n \in 0 .. (k + 1)
    <3>1. CASE n = 0
      BY <2>2, <3>1
    <3>2. CASE n \in 1 .. k
      <4>1. h[n] = g[n] /\ h[n - 1] = g[n - 1]
        BY <3>2
      <4> QED
        BY <2>2, <3>2, <4>1
    <3>3. CASE n = k + 1
      <4>1. h[n] = MergedTop(g[k], tops[n]) /\ h[n - 1] = g[k]
        BY <3>3
      <4> QED
        BY <3>3, <4>1
    <3> QED
      BY <3>1, <3>2, <3>3
  <2>4. IsMergeOfTops(h, total, tops, k + 1)
    BY <2>3 DEF IsMergeOfTops, MergedTop, start
  <2> QED
    BY <2>4
<1> HIDE DEF T
<1>3. m \in T
  BY <1>1, <1>2, Induct
<1> QED
  BY <1>3 DEF T

(* What merging keeps: the top level literals are apart.                   *)
Apart(c) == c \in Collection /\ Unshared(c.top_level_literals)

LEMMA MergedTopsResult ==
  ASSUME NEW total, Apart(total), NEW tops \in Seq(Seq(Bytes))
  PROVE  LET r == MergedTops(total, tops)
         IN Apart(r.c) /\ r.fix \in Seq(BinaryLiteral) /\ Len(r.fix) = Len(tops)
<1> DEFINE m == Len(tops)
           f == CHOOSE g : IsMergeOfTops(g, total, tops, m)
           start == [c |-> total, fix |-> <<>>]
           Good(n) == Apart(f[n].c) /\ f[n].fix \in Seq(BinaryLiteral) /\ Len(f[n].fix) = n
           G == {n \in 0 .. m : Good(n)}
<1>1. m \in Nat /\ \A n \in 1 .. m : tops[n] \in Seq(Bytes)
  BY LenProperties, ElementOfSeq
<1>2. IsMergeOfTops(f, total, tops, m)
  BY <1>1, MergeOfTopsExists
<1>3. MergedTops(total, tops) = f[m]
  BY DEF MergedTops, IsMergeOfTops
<1> HIDE DEF f
<1>4. f[0] = start /\ \A n \in 1 .. m : f[n] = MergedTop(f[n - 1], tops[n])
  <2>1. \A n \in 0 .. m : f[n] = IF n = 0 THEN start ELSE MergedTop(f[n - 1], tops[n])
    BY <1>2 DEF IsMergeOfTops, MergedTop
  <2> HIDE DEF start
  <2> QED
    BY <1>1, <2>1
<1>5. Good(0)
  BY <1>4
<1>6. ASSUME NEW n \in 0 .. (m - 1), Good(n) PROVE Good(n + 1)
  <2> DEFINE a == Added(f[n].c, tops[n + 1])
             lit == a.c.literals[a.index]
             fix == f[n].fix
  <2>1. n \in Nat /\ n + 1 \in 1 .. m /\ (n + 1) - 1 = n
    BY <1>1
  <2>2. f[n + 1] = [c |-> a.c, fix |-> Append(fix, lit)]
    BY <1>4, <2>1 DEF MergedTop
  <2>3. Adds(f[n].c, tops[n + 1], a)
    BY <1>1, <1>6, <2>1, AddedAdds DEF Apart
  <2> HIDE DEF a
  <2>4. a.c \in Collection /\ Unshared(a.c.top_level_literals) /\ a.index \in DOMAIN a.c.literals
    BY <2>3 DEF Adds, Extending
  <2>5. lit \in BinaryLiteral
    BY <2>4, CollectionParts
  <2> HIDE DEF lit
  <2>6. f[n + 1].c = a.c /\ f[n + 1].fix = Append(fix, lit)
    BY <2>2
  <2>7. Append(fix, lit) \in Seq(BinaryLiteral) /\ Len(Append(fix, lit)) = n + 1
    BY <1>6, <2>5
  <2> QED
    BY <2>4, <2>6, <2>7 DEF Apart
<1>7. m \in G
  <2> HIDE DEF Good, m
  <2>1. 0 \in G
    BY <1>1, <1>5
  <2>2. \A n \in 0 .. (m - 1) : n \in G => n + 1 \in G
    BY <1>1, <1>6
  <2>3. m \in Nat /\ m \in 0 .. m
    BY <1>1
  <2> HIDE DEF G
  <2> QED
    BY <2>1, <2>2, <2>3, InductTo
<1>8. Good(m)
  BY <1>7
<1> QED
  BY <1>3, <1>8

(* What is merged of the literals, up to one of them.                      *)
MergedLiteral(m, lit, fix) ==
  LET w == With(m.c, FixedRange(lit, fix)) IN [c |-> w.c, at |-> Append(m.at, w.index)]
IsMergeOfLiterals(g, tops, lits, m) ==
  g = [n \in 0 .. m |->
         IF n = 0 THEN [c |-> tops.c, at |-> <<>>]
         ELSE LET w == With(g[n - 1].c, FixedRange(lits[n], tops.fix))
              IN [c |-> w.c, at |-> Append(g[n - 1].at, w.index)]]

LEMMA MergeOfLiteralsExists ==
  ASSUME NEW tops, NEW lits, NEW m \in Nat
  PROVE  \E g : IsMergeOfLiterals(g, tops, lits, m)
<1> DEFINE T == {k \in Nat : \E g : IsMergeOfLiterals(g, tops, lits, k)}
           start == [c |-> tops.c, at |-> <<>>]
<1>1. 0 \in T
  <2>1. IsMergeOfLiterals([n \in 0 .. 0 |-> start], tops, lits, 0)
    BY DEF IsMergeOfLiterals
  <2> QED
    BY <2>1
<1>2. ASSUME NEW k \in Nat, k \in T PROVE k + 1 \in T
  <2>1. PICK g : IsMergeOfLiterals(g, tops, lits, k)
    BY <1>2
  <2> DEFINE h == [n \in 0 .. (k + 1) |->
                     IF n = k + 1 THEN MergedLiteral(g[k], lits[k + 1], tops.fix) ELSE g[n]]
  <2>2. \A n \in 0 .. k : g[n] = IF n = 0 THEN start ELSE MergedLiteral(g[n - 1], lits[n], tops.fix)
    BY <2>1 DEF IsMergeOfLiterals, MergedLiteral
  <2> HIDE DEF start
  <2>3. \A n \in 0 .. (k + 1) :
          h[n] = IF n = 0 THEN start ELSE MergedLiteral(h[n - 1], lits[n], tops.fix)
    <3> TAKE n \in 0 .. (k + 1)
    <3>1. CASE n = 0
      BY <2>2, <3>1
    <3>2. CASE n \in 1 .. k
      <4>1. h[n] = g[n] /\ h[n - 1] = g[n - 1]
        BY <3>2
      <4> QED
        BY <2>2, <3>2, <4>1
    <3>3. CASE n = k + 1
      <4>1. h[n] = MergedLiteral(g[k], lits[n], tops.fix) /\ h[n - 1] = g[k]
        BY <3>3
      <4> QED
        BY <3>3, <4>1
    <3> QED
      BY <3>1, <3>2, <3>3
  <2>4. IsMergeOfLiterals(h, tops, lits, k + 1)
    BY <2>3 DEF IsMergeOfLiterals, MergedLiteral, start
  <2> QED
    BY <2>4
<1> HIDE DEF T
<1>3. m \in T
  BY <1>1, <1>2, Induct
<1> QED
  BY <1>3 DEF T

(* Link merges the literals of a file; the ranges of the file are those of *)
(* its top level literals.                                                 *)
LEMMA MergedLiteralsResult ==
  ASSUME NEW total, Apart(total), NEW own, Collected(own)
  PROVE  Apart(MergedLiterals(total, own).c)
<1> DEFINE lits == own.literals
           tops == MergedTops(total, own.top_level_literals)
           m == Len(lits)
           f == CHOOSE g : IsMergeOfLiterals(g, tops, lits, m)
           start == [c |-> tops.c, at |-> <<>>]
           Good(n) == Apart(f[n].c)
           G == {n \in 0 .. m : Good(n)}
<1>1. /\ own \in Collection /\ m \in Nat /\ DOMAIN lits = 1 .. m
      /\ \A k \in DOMAIN lits : lits[k] \in BinaryLiteral
  BY CollectionParts DEF Collected
<1>2. Apart(tops.c) /\ tops.fix \in Seq(BinaryLiteral)
      /\ DOMAIN tops.fix = DOMAIN own.top_level_literals
  <2>1. own.top_level_literals \in Seq(Seq(Bytes))
    BY <1>1, CollectionParts
  <2>2. Apart(tops.c) /\ tops.fix \in Seq(BinaryLiteral)
        /\ Len(tops.fix) = Len(own.top_level_literals)
    BY <2>1, MergedTopsResult
  <2> HIDE DEF tops
  <2> QED
    BY <2>1, <2>2, LenProperties
<1>3. m \in Nat /\ m \in 0 .. m
  BY <1>1
<1>4. IsMergeOfLiterals(f, tops, lits, m)
  BY <1>3, MergeOfLiteralsExists
<1>5. MergedLiterals(total, own) = f[m]
  BY DEF MergedLiterals, IsMergeOfLiterals
<1> HIDE DEF f, tops
<1>6. f[0] = start /\ \A n \in 1 .. m : f[n] = MergedLiteral(f[n - 1], lits[n], tops.fix)
  <2>1. \A n \in 0 .. m : f[n] = IF n = 0 THEN start ELSE MergedLiteral(f[n - 1], lits[n], tops.fix)
    BY <1>4 DEF IsMergeOfLiterals, MergedLiteral
  <2> HIDE DEF start
  <2> QED
    BY <1>3, <2>1
<1>7. Good(0)
  BY <1>2, <1>6
<1>8. ASSUME NEW n \in 0 .. (m - 1), Good(n) PROVE Good(n + 1)
  <2> DEFINE lit == FixedRange(lits[n + 1], tops.fix)
             w == With(f[n].c, lit)
  <2>1. n + 1 \in 1 .. m /\ (n + 1) - 1 = n
    BY <1>1
  <2>2. f[n + 1] = [c |-> w.c, at |-> Append(f[n].at, w.index)]
    BY <1>6, <2>1 DEF MergedLiteral
  <2>3. lits[n + 1] \in BinaryLiteral /\ lits[n + 1].top_level_index \in DOMAIN tops.fix
    BY <1>1, <1>2, <2>1 DEF Collected, Proper
  <2>4. lit \in BinaryLiteral
    <3> DEFINE to == tops.fix[lits[n + 1].top_level_index]
    <3>1. to \in BinaryLiteral
      BY <1>2, <2>3, ElementOfSeq, LenProperties
    <3>2. lit = Shifted(lits[n + 1], to.top_level_index, to.start)
      BY DEF FixedRange
    <3> HIDE DEF to, lit
    <3>3. to.top_level_index \in Nat /\ to.start \in Nat
      BY <3>1 DEF BinaryLiteral
    <3> QED
      BY <2>3, <3>2, <3>3, ShiftedParts
  <2> HIDE DEF lit
  <2>5. w.c \in Collection /\ w.c.top_level_literals = f[n].c.top_level_literals
    BY <1>8, <2>4, WithKeeps DEF Apart
  <2> HIDE DEF w
  <2> QED
    BY <1>8, <2>2, <2>5 DEF Apart
<1>9. m \in G
  <2> HIDE DEF Good, m
  <2>1. 0 \in G
    BY <1>3, <1>7
  <2>2. \A n \in 0 .. (m - 1) : n \in G => n + 1 \in G
    BY <1>3, <1>8
  <2> HIDE DEF G
  <2> QED
    BY <1>3, <2>1, <2>2, InductTo
<1> QED
  BY <1>5, <1>9

-----------------------------------------------------------------------------
(* Sequences of files, and what a graph leads to.                          *)

(* A set in some order.                                                    *)
LEMMA Ordered ==
  ASSUME NEW S, IsFiniteSet(S), NEW s \in SetToSeqs(S)
  PROVE  s \in Seq(S) /\ ToSet(s) = S
<1> DEFINE n == Cardinality(S)
           D == 1 .. n
<1>1. s \in [D -> S] /\ \A i, j \in D : i # j => s[i] # s[j]
  BY DEF SetToSeqs
<1>2. n \in Nat
  BY FS_CardinalityType
<1>3. Cardinality(D) = n
  <2>1. 1 \in Int /\ n \in Int
    BY <1>2
  <2> HIDE DEF n
  <2>2. Cardinality(1 .. n) = IF 1 > n THEN 0 ELSE n - 1 + 1
    BY <2>1, FS_Interval
  <2> QED
    BY <1>2, <2>2
<1> HIDE DEF n
<1>4. s \in Injection(D, S)
  BY <1>1 DEF Injection, IsInjective
<1> HIDE DEF D
<1>5. s \in Surjection(D, S)
  BY <1>3, <1>4, FS_Injection DEF n
<1>6. \A x \in S : \E i \in D : s[i] = x
  BY <1>5 DEF Surjection
<1>7. DOMAIN s = D
  BY <1>1
<1>8. s \in Seq(S)
  BY <1>1, <1>2 DEF D
<1>9. ToSet(s) = S
  BY <1>1, <1>6, <1>7 DEF ToSet
<1> QED
  BY <1>8, <1>9

(* The nodes within some steps.                                            *)
IsReach(g, G, n, m) ==
  g = [k \in 0 .. m |-> IF k = 0 THEN {n} ELSE g[k - 1] \cup AllSuccessors(G, g[k - 1])]

LEMMA ReachExists ==
  ASSUME NEW G, NEW n, NEW m \in Nat
  PROVE  \E g : IsReach(g, G, n, m)
<1> DEFINE T == {k \in Nat : \E g : IsReach(g, G, n, k)}
           next(R) == R \cup AllSuccessors(G, R)
<1>1. 0 \in T
  <2>1. IsReach([k \in 0 .. 0 |-> {n}], G, n, 0)
    BY DEF IsReach
  <2> QED
    BY <2>1
<1>2. ASSUME NEW k \in Nat, k \in T PROVE k + 1 \in T
  <2>1. PICK g : IsReach(g, G, n, k)
    BY <1>2
  <2> DEFINE h == [i \in 0 .. (k + 1) |-> IF i = k + 1 THEN next(g[k]) ELSE g[i]]
  <2>2. \A i \in 0 .. k : g[i] = IF i = 0 THEN {n} ELSE next(g[i - 1])
    BY <2>1 DEF IsReach
  <2> HIDE DEF next
  <2>3. \A i \in 0 .. (k + 1) : h[i] = IF i = 0 THEN {n} ELSE next(h[i - 1])
    <3> TAKE i \in 0 .. (k + 1)
    <3>1. CASE i = 0
      BY <2>2, <3>1
    <3>2. CASE i \in 1 .. k
      <4>1. h[i] = g[i] /\ h[i - 1] = g[i - 1]
        BY <3>2
      <4> QED
        BY <2>2, <3>2, <4>1
    <3>3. CASE i = k + 1
      <4>1. h[i] = next(g[k]) /\ h[i - 1] = g[k]
        BY <3>3
      <4> QED
        BY <3>3, <4>1
    <3> QED
      BY <3>1, <3>2, <3>3
  <2>4. IsReach(h, G, n, k + 1)
    BY <2>3 DEF IsReach, next
  <2> QED
    BY <2>4
<1> HIDE DEF T
<1>3. m \in T
  BY <1>1, <1>2, Induct
<1> QED
  BY <1>3 DEF T

(* The nodes that one leads to are the least set with it that edges do not *)
(* leave.                                                                  *)
Closed(G, S) == \A m \in S : Successors(G, m) \subseteq S

LEMMA ReachedIsLeast ==
  ASSUME NEW G, IsFiniteSet(G.node), NEW n \in G.node
  PROVE  /\ n \in Reached(G, n) /\ Closed(G, Reached(G, n)) /\ Reached(G, n) \subseteq G.node
         /\ \A S : n \in S /\ Closed(G, S) => Reached(G, n) \subseteq S
<1> DEFINE N == G.node
           m == Cardinality(N)
           f == CHOOSE g : IsReach(g, G, n, m)
           next(R) == R \cup AllSuccessors(G, R)
<1>1. m \in Nat /\ m \in 0 .. m
  BY FS_CardinalityType
<1>2. IsReach(f, G, n, m)
  BY <1>1, ReachExists
<1>3. Reached(G, n) = f[m]
  BY DEF Reached, IsReach
<1> HIDE DEF f
<1>4. f[0] = {n} /\ \A k \in 0 .. (m - 1) : f[k + 1] = next(f[k])
  <2>1. \A k \in 0 .. m : f[k] = IF k = 0 THEN {n} ELSE next(f[k - 1])
    BY <1>2 DEF IsReach
  <2> HIDE DEF next, m
  <2>2. \A k \in 0 .. (m - 1) : k + 1 \in 0 .. m /\ k + 1 # 0 /\ (k + 1) - 1 = k
    BY <1>1
  <2> QED
    BY <1>1, <2>1, <2>2
<1>5. \A R : R \subseteq N => next(R) \subseteq N
  BY DEF AllSuccessors, Successors
<1>6. \A R : Closed(G, R) => next(R) = R
  BY DEF AllSuccessors, Closed
<1>7. \A R : ~Closed(G, R) => next(R) # R
  BY DEF AllSuccessors, Closed
<1>8. \A R, S : R \subseteq S /\ Closed(G, S) => next(R) \subseteq S
  BY DEF AllSuccessors, Closed
<1>9. \A R : R \subseteq next(R)
  OBVIOUS
<1> DEFINE Good(k) == /\ n \in f[k] /\ f[k] \subseteq N
                      /\ Closed(G, f[k]) \/ Cardinality(f[k]) > k
           Gs == {k \in 0 .. m : Good(k)}
<1>10. m \in Gs
  <2> HIDE DEF next, m, N
  <2>1. Good(0)
    <3>1. Cardinality({n}) = 1
      BY FS_Singleton
    <3>2. Cardinality(f[0]) > 0
      BY <1>4, <3>1
    <3> QED
      BY <1>4, <3>2 DEF N
  <2>2. ASSUME NEW k \in 0 .. (m - 1), Good(k) PROVE Good(k + 1)
    <3>1. f[k + 1] = next(f[k])
      BY <1>4
    <3>2. n \in f[k + 1] /\ f[k + 1] \subseteq N
      BY <1>5, <1>9, <2>2, <3>1
    <3>3. CASE Closed(G, f[k])
      <4>1. f[k + 1] = f[k]
        BY <1>6, <3>1, <3>3
      <4> QED
        BY <3>2, <3>3, <4>1
    <3>4. CASE ~Closed(G, f[k])
      <4>1. f[k] \subseteq f[k + 1] /\ f[k + 1] # f[k]
        BY <1>7, <1>9, <3>1, <3>4
      <4>2. IsFiniteSet(f[k + 1])
        BY <3>2, FS_Subset DEF N
      <4>3. Cardinality(f[k]) \in Nat /\ Cardinality(f[k + 1]) \in Nat
            /\ Cardinality(f[k]) <= Cardinality(f[k + 1])
            /\ Cardinality(f[k]) # Cardinality(f[k + 1])
        <5>1. f[k] \in SUBSET f[k + 1]
          BY <4>1
        <5>2. IsFiniteSet(f[k]) /\ Cardinality(f[k]) <= Cardinality(f[k + 1])
              /\ (Cardinality(f[k + 1]) = Cardinality(f[k]) => f[k + 1] = f[k])
          BY <4>2, <5>1, FS_Subset
        <5> QED
          BY <4>1, <4>2, <5>2, FS_CardinalityType
      <4>4. Cardinality(f[k]) > k
        BY <2>2, <3>4
      <4>5. Cardinality(f[k + 1]) > k + 1
        BY <4>3, <4>4
      <4> QED
        BY <3>2, <4>5
    <3> QED
      BY <3>3, <3>4
  <2> HIDE DEF Good
  <2>3. 0 \in Gs /\ \A k \in 0 .. (m - 1) : k \in Gs => k + 1 \in Gs
    BY <1>1, <2>1, <2>2
  <2> HIDE DEF Gs
  <2> QED
    BY <1>1, <2>3, InductTo
<1>11. Good(m)
  BY <1>10
<1>12. Closed(G, f[m])
  <2>1. f[m] \in SUBSET N
    BY <1>11
  <2>2. Cardinality(f[m]) <= m /\ Cardinality(f[m]) \in Nat
    BY <2>1, FS_Subset, FS_CardinalityType
  <2>3. ~(Cardinality(f[m]) > m)
    BY <1>1, <2>2
  <2> QED
    BY <1>11, <2>3
<1>13. ASSUME NEW S, n \in S, Closed(G, S) PROVE f[m] \subseteq S
  <2> DEFINE Gr == {k \in 0 .. m : f[k] \subseteq S}
  <2> HIDE DEF next, m
  <2>1. 0 \in Gr
    BY <1>1, <1>4, <1>13
  <2>2. \A k \in 0 .. (m - 1) : k \in Gr => k + 1 \in Gr
    BY <1>1, <1>4, <1>8, <1>13
  <2> HIDE DEF Gr
  <2>3. m \in Gr
    BY <1>1, <2>1, <2>2, InductTo
  <2> QED
    BY <2>3 DEF Gr
<1> QED
  BY <1>3, <1>11, <1>12, <1>13

-----------------------------------------------------------------------------
(* The inductive invariant.                                                *)

ObjectFileFields ==
  {"GlobalSymbols", "ExternalSymbols", "Symbols", "align", "size", "holes", "clean"}

(* The files, and those in the queue.                                      *)
FilesOK ==
  /\ phase \in Phases /\ program \in Programs
  /\ DOMAIN objs = 1 .. Len(program) /\ (phase = "assembling" => objs = program)
  /\ phase \notin {"assembling", "failed"} => 1 \in Files
  /\ \A f \in Files : DOMAIN objs[f] = ObjectFileFields
  /\ include_queue \in Seq(Files)

(* The literals: of the files, all within their top level literals.        *)
LiteralsOK ==
  /\ DOMAIN collections = Files
  /\ \A f \in Files : Collected(collections[f]) /\ Apart(collections[f])
  /\ Apart(total_literals)

(* The literals that were added have ranges, with their bytes.             *)
Provided(c, p) ==
  /\ p \in Seq([value : Values, index : Nat])
  /\ \A k \in DOMAIN p : p[k].index \in DOMAIN c.literals
                         /\ Denoted(c, c.literals[p[k].index]) = p[k].value
ProvidedOK ==
  phase = "assembling" => /\ DOMAIN provided = Files
                          /\ \A f \in Files : Provided(collections[f], provided[f])

(* What is included or in the queue is needed, and what an included file   *)
(* needs is included or in the queue.                                      *)
Done == {"placed", "laid out", "evaluated", "defined", "patched", "linked"}
Known == Included \cup ToSet(include_queue)
InclusionOK ==
  /\ phase \in {"assembling", "renamed"} => Included = {}
  /\ phase = "merging" => /\ 1 \in Known /\ Known \subseteq Reached(Needs, 1)
                          /\ \A f \in Included : Sources(f) \subseteq Known
  /\ phase \in Done => Included = Reached(Needs, 1)

IInv == FilesOK /\ LiteralsOK /\ ProvidedOK /\ InclusionOK

LEMMA ProgramFiles ==
  ASSUME NEW p \in Programs
  PROVE  /\ Len(p) \in Nat /\ DOMAIN p = 1 .. Len(p) /\ (p # <<>> => 1 \in DOMAIN p)
         /\ \A f \in DOMAIN p : DOMAIN p[f] = ObjectFileFields
<1>1. p \in Seq(ToSet(p)) /\ \A f \in DOMAIN p : IsObjectFile(p[f])
  BY LinkerAssumption
<1>2. \A f \in DOMAIN p : DOMAIN p[f] = ObjectFileFields
  BY <1>1 DEF IsObjectFile, ObjectFileFields
<1> DEFINE S == ToSet(p)
<1>3. p \in Seq(S)
  BY <1>1
<1> HIDE DEF S
<1>4. Len(p) \in Nat /\ DOMAIN p = 1 .. Len(p) /\ (p # <<>> => Len(p) # 0)
  BY <1>3, LenProperties, EmptySeq
<1> QED
  BY <1>2, <1>4

(* No literals yet.                                                        *)
LEMMA NoLiteralsApart ==
  Collected(NoLiterals) /\ Apart(NoLiterals)
<1>1. NoLiterals \in Collection /\ NoLiterals.literals = <<>> /\ NoLiterals.top_level_literals = <<>>
  BY DEF NoLiterals, Collection
<1>2. \A S : DOMAIN NoLiterals.literals = {} /\ DOMAIN NoLiterals.top_level_literals = {}
  BY <1>1
<1> QED
  BY <1>1, <1>2 DEF Collected, Apart, Unshared

LEMMA InitInvariant ==
  Init => IInv
<1> SUFFICES ASSUME Init PROVE IInv
  OBVIOUS
<1>1. FilesOK
  BY ProgramFiles DEF Init, FilesOK, Phases, Files
<1>2. LiteralsOK
  BY NoLiteralsApart DEF Init, LiteralsOK, Files
<1>3. ProvidedOK
  BY DEF Init, ProvidedOK, Provided, Files
<1>4. InclusionOK
  BY DEF Init, InclusionOK, Included, Done
<1> QED
  BY <1>1, <1>2, <1>3, <1>4 DEF IInv

(* What the steps of Link that neither add nor merge anything leave alone. *)
Quiet ==
  /\ UNCHANGED <<objs, collections, total_literals, program>>
  /\ Included' = Included /\ phase' # "assembling"
  /\ \/ include_queue' = include_queue
     \/ phase = "renamed" /\ include_queue' = <<1>>
  /\ \/ phase' = "failed"
     \/ phase = "renamed" /\ phase' = "merging" /\ include_queue' = <<1>>
     \/ phase = "merging" /\ phase' = "placed" /\ include_queue = <<>>
     \/ phase \in Done /\ phase' \in Done

LEMMA QuietSteps ==
  ASSUME \/ \E e \in Entries : RefuseArguments(e)
         \/ CheckGlobals \/ PlaceLiterals \/ DefineOrigins \/ EvaluateGlobals \/ DefineExternals
         \/ FixAllHoles \/ construct
  PROVE  Quiet
<1>1. CASE \E e \in Entries : RefuseArguments(e)
  BY <1>1 DEF RefuseArguments, Fails, Quiet, Included, literalVars, layoutVars, history
<1>2. CASE CheckGlobals
  BY <1>2 DEF CheckGlobals, Fails, Goes, Quiet, Included, literalVars, layoutVars, history
<1>3. CASE PlaceLiterals
  BY <1>3 DEF PlaceLiterals, Goes, Quiet, Included, history
<1>4. CASE DefineOrigins
  BY <1>4 DEF DefineOrigins, Goes, Quiet, Included, literalVars, history, Done
<1>5. CASE EvaluateGlobals
  BY <1>5 DEF EvaluateGlobals, Fails, Goes, Quiet, Included, literalVars, layoutVars, history, Done
<1>6. CASE DefineExternals
  BY <1>6 DEF DefineExternals, Fails, Goes, Quiet, Included, literalVars, layoutVars, history, Done
<1>7. CASE FixAllHoles
  BY <1>7 DEF FixAllHoles, Fails, Goes, Quiet, Included, literalVars, layoutVars, history, Done
<1>8. CASE construct
  BY <1>8 DEF construct, Fails, Goes, Quiet, Included, literalVars, layoutVars, history, Done
<1> QED
  BY <1>1, <1>2, <1>3, <1>4, <1>5, <1>6, <1>7, <1>8

LEMMA NeedsAreSources ==
  /\ Needs.node = Files
  /\ \A f \in Files : Successors(Needs, f) = Sources(f) /\ Sources(f) \subseteq Files
<1>1. Needs.node = Files
      /\ Needs.edge = {e \in Files \X Files :
                         objs[e[1]].ExternalSymbols \cap objs[e[2]].GlobalSymbols # {}}
  BY DEF Needs
<1>2. ASSUME NEW f \in Files, NEW g \in Files
      PROVE  <<f, g>> \in Needs.edge <=> g \in Sources(f)
  <2>1. <<f, g>> \in Needs.edge <=> objs[f].ExternalSymbols \cap objs[g].GlobalSymbols # {}
    BY <1>1
  <2>2. g \in Sources(f) <=> \E x \in objs[f].ExternalSymbols : x \in objs[g].GlobalSymbols
    BY DEF Sources, Exporters
  <2> QED
    BY <2>1, <2>2
<1>3. \A f \in Files : Sources(f) \subseteq Files
  BY DEF Sources, Exporters
<1> QED
  BY <1>1, <1>2, <1>3 DEF Successors

LEMMA FilesFinite ==
  ASSUME FilesOK
  PROVE  IsFiniteSet(Files)
<1> DEFINE n == Len(program)
<1>1. n \in Int /\ 1 \in Int /\ Files = 1 .. n
  BY ProgramFiles DEF FilesOK, Files
<1> HIDE DEF n
<1> QED
  BY <1>1, FS_Interval

LEMMA QuietKeeps ==
  ASSUME IInv, Quiet
  PROVE  IInv'
<1>1. FilesOK'
  <2>1. Files' = Files
    BY DEF Quiet, Files
  <2>2. phase' \in Phases /\ (phase' # "failed" => phase \notin {"assembling", "failed"})
    BY DEF Quiet, Phases, Done
  <2>3. include_queue' \in Seq(Files)
    <3>1. CASE include_queue' = include_queue
      BY <3>1 DEF IInv, FilesOK
    <3>2. CASE phase = "renamed" /\ include_queue' = <<1>>
      <4>1. 1 \in Files
        BY <3>2 DEF IInv, FilesOK
      <4> QED
        BY <3>2, <4>1
    <3> QED
      BY <3>1, <3>2 DEF Quiet
  <2>4. /\ program' \in Programs /\ DOMAIN objs' = 1 .. Len(program') /\ phase' # "assembling"
        /\ \A f \in Files : DOMAIN objs'[f] = ObjectFileFields
    BY DEF IInv, FilesOK, Quiet
  <2>5. phase' # "failed" => 1 \in Files
    BY <2>2 DEF IInv, FilesOK
  <2> QED
    BY <2>1, <2>2, <2>3, <2>4, <2>5 DEF FilesOK
<1>2. LiteralsOK'
  BY DEF IInv, LiteralsOK, Quiet, Files
<1>3. ProvidedOK'
  BY DEF ProvidedOK, Quiet
<1>4. Needs' = Needs /\ \A f : Sources(f)' = Sources(f)
  BY DEF Quiet, Needs, Sources, Exporters, Files
<1>5. InclusionOK'
  <2>1. CASE phase' = "failed"
    BY <2>1 DEF InclusionOK, Done
  <2>2. CASE phase = "renamed" /\ phase' = "merging" /\ include_queue' = <<1>>
    <3>1. Included' = {}
      BY <2>2 DEF IInv, InclusionOK, Quiet
    <3>2. ToSet(include_queue)' = {1}
      BY <2>2 DEF ToSet
    <3>3. 1 \in Reached(Needs, 1)
      BY <2>2, NeedsAreSources, FilesFinite, ReachedIsLeast DEF IInv, FilesOK
    <3> QED
      BY <1>4, <2>2, <3>1, <3>2, <3>3 DEF InclusionOK, Known, Done
  <2>3. CASE phase = "merging" /\ phase' = "placed" /\ include_queue = <<>>
    <3>1. ToSet(include_queue) = {}
      BY <2>3 DEF ToSet
    <3>2. /\ 1 \in Included /\ Included \subseteq Reached(Needs, 1)
          /\ \A f \in Included : Sources(f) \subseteq Included
      BY <2>3, <3>1 DEF IInv, InclusionOK, Known
    <3>3. 1 \in Needs.node /\ IsFiniteSet(Needs.node)
      BY <2>3, NeedsAreSources, FilesFinite DEF IInv, FilesOK
    <3>4. Closed(Needs, Included)
      <4>1. Included \subseteq Files
        BY <3>2, <3>3, ReachedIsLeast, NeedsAreSources
      <4> QED
        BY <3>2, <4>1, NeedsAreSources DEF Closed
    <3>5. Included = Reached(Needs, 1)
      BY <3>2, <3>3, <3>4, ReachedIsLeast
    <3> QED
      BY <1>4, <2>3, <3>5 DEF InclusionOK, Quiet, Done
  <2>4. CASE phase \in Done /\ phase' \in Done
    BY <1>4, <2>4 DEF IInv, InclusionOK, Quiet, Done
  <2> QED
    BY <2>1, <2>2, <2>3, <2>4 DEF Quiet
<1> QED
  BY <1>1, <1>2, <1>3, <1>5 DEF IInv

LEMMA ProvisionKeeps ==
  ASSUME IInv, NEW f \in Files, NEW value \in Values, Provision(f, value)
  PROVE  IInv'
<1> DEFINE c == collections[f]
           a == Added(c, value)
           p == provided[f]
           r == [value |-> value, index |-> a.index]
<1>1. /\ phase = "assembling" /\ DOMAIN collections = Files /\ DOMAIN provided = Files
      /\ Collected(c) /\ Apart(c) /\ Provided(c, p)
  BY DEF Provision, IInv, LiteralsOK, ProvidedOK
<1>2. /\ collections' = [collections EXCEPT ![f] = a.c]
      /\ provided' = [provided EXCEPT ![f] = Append(p, r)]
      /\ UNCHANGED <<phase, objs, total_literals, include_queue, included, program>>
  BY DEF Provision, layoutVars
<1>3. Adds(c, value, a)
  <2>1. value \in Seq(Bytes)
    BY LinkerAssumption
  <2> QED
    BY <1>1, <2>1, AddedAdds DEF Apart
<1> HIDE DEF a, c, p
<1>4. Collected(a.c) /\ Apart(a.c)
  BY <1>1, <1>3 DEF Adds, Extending, Apart
<1>5. Provided(a.c, Append(p, r))
  <2>1. p \in Seq([value : Values, index : Nat]) /\ Len(p) \in Nat /\ DOMAIN p = 1 .. Len(p)
    BY <1>1, LenProperties DEF Provided
  <2>2. a.index \in DOMAIN a.c.literals /\ a.index \in Nat
    BY <1>3, <1>4, CollectionParts DEF Adds, Apart
  <2>3. r \in [value : Values, index : Nat] /\ r.value = value /\ r.index = a.index
    BY <2>2
  <2> HIDE DEF r
  <2>4. /\ Append(p, r) \in Seq([value : Values, index : Nat])
        /\ Len(Append(p, r)) = Len(p) + 1 /\ Append(p, r)[Len(p) + 1] = r
        /\ \A k \in 1 .. Len(p) : Append(p, r)[k] = p[k]
    BY <2>1, <2>3
  <2>5. DOMAIN Append(p, r) = 1 .. (Len(p) + 1)
    BY <2>4, LenProperties
  <2> DEFINE q == Append(p, r)
  <2> HIDE DEF q
  <2>6. \A k \in DOMAIN q : k = Len(p) + 1 \/ k \in DOMAIN p
    BY <2>1, <2>5 DEF q
  <2>7. /\ DOMAIN c.literals \subseteq DOMAIN a.c.literals
        /\ \A k \in DOMAIN c.literals : Denoted(a.c, a.c.literals[k]) = Denoted(c, c.literals[k])
        /\ Denoted(a.c, a.c.literals[a.index]) = value
    BY <1>1, <1>3 DEF Adds, Extending
  <2>7a. \A k \in DOMAIN a.c.literals : a.c.literals[k] = a.c.literals[k]
    OBVIOUS
  <2>8. \A k \in DOMAIN p : p[k].index \in DOMAIN c.literals
                            /\ Denoted(c, c.literals[p[k].index]) = p[k].value
    BY <1>1 DEF Provided
  <2>9. ASSUME NEW k \in DOMAIN q
        PROVE  q[k].index \in DOMAIN a.c.literals
               /\ Denoted(a.c, a.c.literals[q[k].index]) = q[k].value
    <3>1. CASE k = Len(p) + 1
      <4>1. q[k] = r
        BY <2>4, <3>1 DEF q
      <4> QED
        BY <2>2, <2>3, <2>7, <4>1
    <3>2. CASE k \in DOMAIN p
      <4>1. q[k] = p[k]
        BY <2>1, <2>4, <3>2 DEF q
      <4> QED
        BY <2>7, <2>8, <3>2, <4>1
    <3> QED
      BY <2>6, <3>1, <3>2
  <2> QED
    BY <2>4, <2>9 DEF Provided, q
<1>6. /\ DOMAIN collections' = Files /\ DOMAIN provided' = Files
      /\ \A g \in Files : collections'[g] = IF g = f THEN a.c ELSE collections[g]
      /\ \A g \in Files : provided'[g] = IF g = f THEN Append(p, r) ELSE provided[g]
  BY <1>1, <1>2
<1> HIDE DEF r
<1>7. FilesOK'
  BY <1>2 DEF IInv, FilesOK, Files
<1>8. LiteralsOK'
  BY <1>2, <1>4, <1>6 DEF IInv, LiteralsOK, Files
<1>9. ProvidedOK'
  BY <1>1, <1>2, <1>5, <1>6 DEF IInv, ProvidedOK, Files
<1>10. InclusionOK'
  BY <1>1, <1>2 DEF IInv, InclusionOK, Included, Done
<1> QED
  BY <1>7, <1>8, <1>9, <1>10 DEF IInv

(* The _start file after its entry point was renamed is dirty.             *)
LEMMA RenamedParts ==
  ASSUME NEW f, DOMAIN f = ObjectFileFields, NEW to
  PROVE  LET dirty == [f EXCEPT !.clean = FALSE]
         IN /\ DOMAIN dirty = ObjectFileFields /\ dirty.clean = FALSE
            /\ DOMAIN Renamed(dirty, "_start", to) = ObjectFileFields
            /\ Renamed(dirty, "_start", to).clean = FALSE
<1> DEFINE dirty == [f EXCEPT !.clean = FALSE]
<1>1. DOMAIN dirty = ObjectFileFields /\ dirty.clean = FALSE
  BY DEF ObjectFileFields
<1> HIDE DEF dirty
<1>2. /\ DOMAIN Renamed(dirty, "_start", to) = ObjectFileFields
      /\ Renamed(dirty, "_start", to).clean = FALSE
  BY <1>1 DEF Renamed, ObjectFileFields
<1> QED
  BY <1>1, <1>2 DEF dirty

LEMMA StartIsFirst ==
  ASSUME IInv, NEW e, RenameStart(e)
  PROVE  1 \in Files
<1>1. objs # <<>>
  BY DEF RenameStart, Refusal
<1> QED
  BY <1>1, ProgramFiles DEF RenameStart, IInv, FilesOK, Files

LEMMA RenameKeeps ==
  ASSUME IInv, NEW e, RenameStart(e)
  PROVE  IInv'
<1>1. phase = "assembling" /\ 1 \in Files
  BY StartIsFirst DEF RenameStart
<1>2. /\ phase' \in {"renamed", "failed"} /\ UNCHANGED <<collections, total_literals, include_queue, included, program>>
  BY DEF RenameStart, Goes, Fails, literalVars, layoutVars, history
<1>3. /\ DOMAIN objs' = Files
      /\ \A f \in Files : DOMAIN objs'[f] = ObjectFileFields
  <2> DEFINE dirty == [StartFile EXCEPT !.clean = FALSE]
  <2>1. DOMAIN StartFile = ObjectFileFields
    BY <1>1 DEF IInv, FilesOK, StartFile
  <2>2. DOMAIN dirty = ObjectFileFields /\ DOMAIN Renamed(dirty, "_start", e) = ObjectFileFields
    BY <2>1, RenamedParts
  <2>3. \/ objs' = [objs EXCEPT ![1] = Renamed(dirty, "_start", e)]
        \/ objs' = [objs EXCEPT ![1] = dirty]
    BY DEF RenameStart
  <2> HIDE DEF dirty
  <2>4. PICK file : DOMAIN file = ObjectFileFields /\ objs' = [objs EXCEPT ![1] = file]
    BY <2>2, <2>3
  <2> QED
    BY <2>4 DEF IInv, FilesOK, Files
<1>4. FilesOK'
  BY <1>1, <1>2, <1>3 DEF IInv, FilesOK, Files, Phases
<1>5. LiteralsOK'
  BY <1>2, <1>3 DEF IInv, LiteralsOK, Files
<1>6. ProvidedOK'
  BY <1>2 DEF ProvidedOK
<1>7. InclusionOK'
  BY <1>1, <1>2 DEF IInv, InclusionOK, Included, Done
<1> QED
  BY <1>4, <1>5, <1>6, <1>7 DEF IInv

-----------------------------------------------------------------------------
(* Link includes a file.                                                   *)

(* Its sources join the queue, those of them that were unknown.            *)
LEMMA QueueGrows ==
  ASSUME FilesOK, include_queue # <<>>,
         NEW f, f = Head(include_queue), NEW order \in SetToSeqs(Waiting(f))
  PROVE  /\ f \in Files /\ f \in ToSet(include_queue)
         /\ Queued(f, order) \in Seq(Files)
         /\ {f} \cup Included \cup ToSet(Queued(f, order)) = Known \cup Sources(f)
<1> DEFINE rest == Tail(include_queue)
           Q == Queued(f, order)
<1>1. include_queue \in Seq(Files) /\ include_queue # <<>>
  BY DEF FilesOK
<1>2. /\ Len(include_queue) \in Nat \ {0} /\ DOMAIN include_queue = 1 .. Len(include_queue)
      /\ f = include_queue[1] /\ f \in Files
  BY <1>1, LenProperties, EmptySeq
<1>3. f \in ToSet(include_queue)
  BY <1>2 DEF ToSet
<1>4. /\ rest \in Seq(Files) /\ Len(rest) = Len(include_queue) - 1
      /\ \A k \in 1 .. Len(rest) : rest[k] = include_queue[k + 1]
  BY <1>1, HeadTailProperties
<1>5. ToSet(include_queue) = {f} \cup ToSet(rest)
  <2>1. DOMAIN rest = 1 .. (Len(include_queue) - 1)
    BY <1>2, <1>4, LenProperties
  <2> HIDE DEF rest
  <2>2. ASSUME NEW k \in DOMAIN include_queue PROVE include_queue[k] \in {f} \cup ToSet(rest)
    <3>1. CASE k = 1
      BY <1>2, <3>1
    <3>2. CASE k # 1
      <4>1. k - 1 \in DOMAIN rest /\ rest[k - 1] = include_queue[k]
        BY <1>2, <1>4, <2>1, <3>2
      <4> QED
        BY <4>1 DEF ToSet
    <3> QED
      BY <3>1, <3>2
  <2>3. ASSUME NEW k \in DOMAIN rest PROVE rest[k] \in ToSet(include_queue)
    <3>1. k + 1 \in DOMAIN include_queue /\ rest[k] = include_queue[k + 1]
      BY <1>2, <1>4, <2>1
    <3> QED
      BY <3>1 DEF ToSet
  <2> QED
    BY <1>3, <2>2, <2>3 DEF ToSet
<1>6. order \in Seq(Waiting(f)) /\ ToSet(order) = Waiting(f) /\ Waiting(f) \subseteq Files
  <2>1. Waiting(f) \subseteq Files
    BY <1>2, NeedsAreSources DEF Waiting
  <2>2. IsFiniteSet(Waiting(f))
    BY <2>1, FilesFinite, FS_Subset
  <2> QED
    BY <2>1, <2>2, Ordered
<1>7. order \in Seq(Files)
  BY <1>6
<1> HIDE DEF rest
<1>8. Q = rest \o order
  BY DEF Queued, rest
<1>9. /\ Q \in Seq(Files) /\ Len(Q) = Len(rest) + Len(order)
      /\ \A k \in 1 .. Len(rest) + Len(order) :
           Q[k] = IF k <= Len(rest) THEN rest[k] ELSE order[k - Len(rest)]
  <2>1. rest \in Seq(Files)
    BY <1>4
  <2> QED
    BY <1>7, <1>8, <2>1, ConcatProperties
<1>10. Len(rest) \in Nat /\ DOMAIN rest = 1 .. Len(rest) /\ Len(order) \in Nat
       /\ DOMAIN order = 1 .. Len(order) /\ DOMAIN Q = 1 .. Len(rest) + Len(order)
  BY <1>4, <1>7, <1>9, LenProperties
<1> HIDE DEF Q
<1>11. ToSet(Q) = ToSet(rest) \cup ToSet(order)
  <2>1. ASSUME NEW k \in DOMAIN Q PROVE Q[k] \in ToSet(rest) \cup ToSet(order)
    <3>1. CASE k <= Len(rest)
      BY <1>9, <1>10, <3>1 DEF ToSet
    <3>2. CASE ~(k <= Len(rest))
      <4>1. k - Len(rest) \in DOMAIN order /\ Q[k] = order[k - Len(rest)]
        BY <1>9, <1>10, <3>2
      <4> QED
        BY <4>1 DEF ToSet
    <3> QED
      BY <3>1, <3>2
  <2>2. ASSUME NEW k \in DOMAIN rest PROVE rest[k] \in ToSet(Q)
    <3>1. k \in DOMAIN Q /\ Q[k] = rest[k]
      BY <1>9, <1>10
    <3> QED
      BY <3>1 DEF ToSet
  <2>3. ASSUME NEW k \in DOMAIN order PROVE order[k] \in ToSet(Q)
    <3>1. k + Len(rest) \in DOMAIN Q /\ ~(k + Len(rest) <= Len(rest)) /\ (k + Len(rest)) - Len(rest) = k
      BY <1>10
    <3>2. Q[k + Len(rest)] = order[k]
      BY <1>9, <1>10, <3>1
    <3> QED
      BY <3>1, <3>2 DEF ToSet
  <2> QED
    BY <2>1, <2>2, <2>3 DEF ToSet
<1>12. {f} \cup Included \cup ToSet(Q) = Known \cup Sources(f)
  BY <1>5, <1>6, <1>11 DEF Known, Waiting
<1> QED
  BY <1>2, <1>3, <1>9, <1>12 DEF Q

(* A file that is marked dirty needs what it did.                          *)
LEMMA DirtyNeedsSame ==
  ASSUME FilesOK, NEW f \in Files, MadeDirty(f)
  PROVE  /\ Files' = Files /\ Needs' = Needs /\ \A g \in Files : Sources(g)' = Sources(g)
         /\ \A g \in Files : DOMAIN objs'[g] = ObjectFileFields
         /\ \A g \in Files : g # f => objs'[g] = objs[g]
         /\ objs'[f].clean = FALSE
<1>1. objs' = [objs EXCEPT ![f].clean = FALSE]
  BY DEF MadeDirty
<1>2. Files' = Files /\ \A g \in Files : g # f => objs'[g] = objs[g]
  BY <1>1 DEF Files
<1>3. objs'[f] = [objs[f] EXCEPT !.clean = FALSE]
  BY <1>1 DEF Files
<1>4. /\ DOMAIN objs'[f] = ObjectFileFields /\ objs'[f].clean = FALSE
      /\ objs'[f].ExternalSymbols = objs[f].ExternalSymbols
      /\ objs'[f].GlobalSymbols = objs[f].GlobalSymbols
  <2>1. DOMAIN objs[f] = ObjectFileFields
    BY DEF FilesOK
  <2> QED
    BY <1>3, <2>1 DEF ObjectFileFields
<1>5. \A g \in Files : /\ objs'[g].ExternalSymbols = objs[g].ExternalSymbols
                       /\ objs'[g].GlobalSymbols = objs[g].GlobalSymbols
  BY <1>2, <1>4
<1>6. Needs' = Needs
  BY <1>2, <1>5 DEF Needs
<1>7. \A x : Exporters(x)' = Exporters(x)
  BY <1>2, <1>5 DEF Exporters
<1>8. \A g \in Files : Sources(g)' = Sources(g)
  BY <1>5, <1>7 DEF Sources
<1> QED
  BY <1>2, <1>4, <1>6, <1>8 DEF FilesOK

LEMMA IncludeKeeps ==
  ASSUME IInv, IncludeFile
  PROVE  IInv'
<1> DEFINE f == Head(include_queue)
<1>1. phase = "merging" /\ include_queue # <<>> /\ MadeDirty(f)
  BY DEF IncludeFile
<1>2. f \in Files /\ f \in ToSet(include_queue)
  <2>1. /\ Len(include_queue) \in Nat \ {0} /\ DOMAIN include_queue = 1 .. Len(include_queue)
        /\ f = include_queue[1] /\ f \in Files
    BY <1>1, LenProperties, EmptySeq DEF IInv, FilesOK
  <2> QED
    BY <2>1 DEF ToSet
<1>3. CASE Missing(f)
  <2>1. /\ phase' = "failed"
        /\ UNCHANGED <<collections, total_literals, include_queue, included, program, provided>>
    BY <1>3 DEF IncludeFile, Fails, literalVars, layoutVars, history
  <2> HIDE DEF f
  <2>2. Files' = Files /\ \A g \in Files : DOMAIN objs'[g] = ObjectFileFields
    BY <1>1, <1>2, DirtyNeedsSame DEF IInv
  <2>3. FilesOK'
    BY <2>1, <2>2 DEF IInv, FilesOK, Files, Phases
  <2>4. LiteralsOK'
    BY <2>1, <2>2 DEF IInv, LiteralsOK
  <2> QED
    BY <2>1, <2>3, <2>4 DEF IInv, ProvidedOK, InclusionOK, Done
<1>4. CASE ~Missing(f)
  <2>1. PICK order \in SetToSeqs(Waiting(f)) : include_queue' = Queued(f, order)
    BY <1>4 DEF IncludeFile
  <2>2. /\ UNCHANGED <<phase, program>> /\ Appended(f) /\ MergeLiterals(f)
    BY <1>4 DEF IncludeFile, history
  <2>3. /\ Queued(f, order) \in Seq(Files)
        /\ {f} \cup Included \cup ToSet(Queued(f, order)) = Known \cup Sources(f)
    BY <1>1, QueueGrows DEF IInv
  <2> HIDE DEF f
  <2>4. /\ Files' = Files /\ Needs' = Needs /\ \A g \in Files : Sources(g)' = Sources(g)
        /\ \A g \in Files : DOMAIN objs'[g] = ObjectFileFields
    BY <1>1, <1>2, DirtyNeedsSame DEF IInv
  <2>5. Included' = {f} \cup Included
    BY <2>2 DEF Appended, Included, Entered
  <2>6. FilesOK'
    BY <1>1, <2>1, <2>2, <2>3, <2>4 DEF IInv, FilesOK, Files
  <2>7. LiteralsOK'
    <3>1. /\ collections' = [collections EXCEPT ![f] = NoLiterals]
          /\ total_literals' = MergedLiterals(total_literals, collections[f]).c
      BY <2>2 DEF MergeLiterals
    <3>2. Apart(total_literals')
      BY <1>2, <3>1, MergedLiteralsResult DEF IInv, LiteralsOK
    <3>3. DOMAIN collections' = Files
          /\ \A g \in Files : collections'[g] = IF g = f THEN NoLiterals ELSE collections[g]
      BY <1>2, <3>1 DEF IInv, LiteralsOK
    <3>4. \A g \in Files : Collected(collections'[g]) /\ Apart(collections'[g])
      BY <3>3, NoLiteralsApart DEF IInv, LiteralsOK
    <3> QED
      BY <2>4, <3>2, <3>3, <3>4 DEF LiteralsOK
  <2>8. ProvidedOK'
    BY <1>1, <2>2 DEF ProvidedOK
  <2>9. InclusionOK'
    <3>1. /\ 1 \in Known /\ Known \subseteq Reached(Needs, 1)
          /\ \A g \in Included : Sources(g) \subseteq Known
      BY <1>1 DEF IInv, InclusionOK
    <3>2. Known' = Known \cup Sources(f)
      BY <2>1, <2>3, <2>5 DEF Known
    <3>3. f \in Known
      BY <1>2 DEF Known
    <3>4. IsFiniteSet(Needs.node) /\ 1 \in Needs.node
      BY <1>1, FilesFinite, NeedsAreSources DEF IInv, FilesOK
    <3>5. Reached(Needs, 1) \subseteq Files /\ Closed(Needs, Reached(Needs, 1))
      BY <3>4, ReachedIsLeast, NeedsAreSources
    <3>6. Sources(f) \subseteq Reached(Needs, 1)
      BY <1>2, <3>1, <3>3, <3>5, NeedsAreSources DEF Closed
    <3>7. \A g \in Included' : g \in Files /\ Sources(g)' \subseteq Known'
      BY <1>2, <2>4, <2>5, <3>1, <3>2, <3>5 DEF Known
    <3>8. 1 \in Known' /\ Known' \subseteq Reached(Needs, 1)'
      BY <2>4, <3>1, <3>2, <3>6
    <3> QED
      BY <1>1, <2>2, <3>7, <3>8 DEF InclusionOK, Done
  <2> QED
    BY <2>6, <2>7, <2>8, <2>9 DEF IInv
<1> QED
  BY <1>3, <1>4

-----------------------------------------------------------------------------
(* The theorems.                                                           *)

LEMMA NextKeeps ==
  ASSUME IInv, Next
  PROVE  IInv'
<1>1. CASE \E f \in Files, value \in Values : Provision(f, value)
  BY <1>1, ProvisionKeeps
<1>2. CASE \E e \in Entries : RenameStart(e)
  BY <1>2, RenameKeeps
<1>3. CASE IncludeFile
  BY <1>3, IncludeKeeps
<1>4. CASE \/ \E e \in Entries : RefuseArguments(e)
           \/ CheckGlobals \/ PlaceLiterals \/ DefineOrigins \/ EvaluateGlobals
           \/ DefineExternals \/ FixAllHoles \/ construct
  BY <1>4, QuietSteps, QuietKeeps
<1> QED
  BY <1>1, <1>2, <1>3, <1>4 DEF Next, Link

LEMMA StutterKeeps ==
  ASSUME IInv, UNCHANGED vars
  PROVE  IInv'
<1>1. UNCHANGED <<phase, objs, collections, total_literals, include_queue, included, program, provided>>
  BY DEF vars, literalVars, layoutVars, history
<1>2. FilesOK' /\ LiteralsOK'
  BY <1>1 DEF IInv, FilesOK, LiteralsOK, Files
<1>3. ProvidedOK'
  BY <1>1 DEF IInv, ProvidedOK, Files
<1>4. Needs' = Needs /\ Known' = Known /\ Included' = Included /\ \A f : Sources(f)' = Sources(f)
  BY <1>1 DEF Needs, Known, Included, Sources, Exporters, Files
<1>5. InclusionOK'
  BY <1>1, <1>4 DEF IInv, InclusionOK
<1> QED
  BY <1>2, <1>3, <1>5 DEF IInv

(* The invariant holds of every linker: Link and add.                      *)
THEOREM LinkerInvariant ==
  Spec => []IInv
<1>1. Init => IInv
  BY InitInvariant
<1>2. IInv /\ [Next]_vars => IInv'
  BY NextKeeps, StutterKeeps
<1> QED
  BY <1>1, <1>2, PTL DEF Spec

(* The index that each literal of a file got is that of a range with its   *)
(* bytes, whatever was added after it, for all literals and files:         *)
(* BinaryLiteralCollection::add.                                           *)
THEOREM LinkerLiteralsDenote ==
  Spec => []LiteralsDenote
<1>1. IInv => LiteralsDenote
  BY DEF IInv, LiteralsOK, ProvidedOK, Provided, Collected, LiteralsDenote
<1> QED
  BY <1>1, LinkerInvariant, PTL

(* No top level literal is within another, in a file or in the total:      *)
(* BinaryLiteralCollection::add.                                           *)
THEOREM LinkerSharesLiterals ==
  Spec => []MaximallyShared
<1>1. IInv => MaximallyShared
  BY DEF IInv, LiteralsOK, Apart, Unshared, MaximallyShared
<1> QED
  BY <1>1, LinkerInvariant, PTL

(* Link includes the files that the _start file needs and no other, for    *)
(* every list of object files: the include queue.                          *)
THEOREM LinkerIncludesNeeded ==
  Spec => []IncludedAsNeeded
<1>1. IInv => IncludedAsNeeded
  <2>1. IInv => phase \in Phases
    BY DEF IInv, FilesOK
  <2> QED
    BY <2>1 DEF IInv, InclusionOK, IncludedAsNeeded, Done, Phases
<1> QED
  BY <1>1, LinkerInvariant, PTL

(* A file that Link leaves clean is as it was: MakeDirty in Link.          *)
THEOREM LinkerCleanUntouched ==
  Spec => CleanUntouched
<1> DEFINE Kept == \A f \in Files : objs'[f].clean =>
                     objs[f].clean /\ objs'[f] = objs[f] /\ collections'[f] = collections[f]
<1>1. ASSUME IInv, Next, phase # "assembling" \/ phase' # "assembling" PROVE Kept
  <2>1. ASSUME NEW f \in Files, NEW value \in Values, Provision(f, value) PROVE FALSE
    BY <1>1, <2>1 DEF Provision
  <2>2. ASSUME NEW e \in Entries, RenameStart(e) PROVE Kept
    <3> DEFINE dirty == [StartFile EXCEPT !.clean = FALSE]
    <3>1. 1 \in Files /\ collections' = collections
      BY <1>1, <2>2, StartIsFirst DEF RenameStart, Fails, literalVars
    <3>2. DOMAIN StartFile = ObjectFileFields
      BY <1>1, <3>1 DEF IInv, FilesOK, StartFile
    <3>3. dirty.clean = FALSE /\ Renamed(dirty, "_start", e).clean = FALSE
      BY <3>2, RenamedParts
    <3>4. \/ objs' = [objs EXCEPT ![1] = Renamed(dirty, "_start", e)]
          \/ objs' = [objs EXCEPT ![1] = dirty]
      BY <2>2 DEF RenameStart
    <3> HIDE DEF dirty
    <3>5. PICK file : file.clean = FALSE /\ objs' = [objs EXCEPT ![1] = file]
      BY <3>3, <3>4
    <3> QED
      BY <3>1, <3>5 DEF Files
  <2>3. CASE IncludeFile
    <3> DEFINE f == Head(include_queue)
    <3>1. MadeDirty(f) /\ f \in Files
      <4>1. include_queue # <<>> /\ MadeDirty(f)
        BY <2>3 DEF IncludeFile
      <4> QED
        BY <1>1, <4>1, HeadTailProperties DEF IInv, FilesOK
    <3>2. \A g \in Files : g # f => collections'[g] = collections[g]
      BY <1>1, <2>3 DEF IncludeFile, Fails, MergeLiterals, literalVars, IInv, LiteralsOK
    <3> HIDE DEF f
    <3> QED
      BY <1>1, <3>1, <3>2, DirtyNeedsSame DEF IInv
  <2>4. CASE \/ \E e \in Entries : RefuseArguments(e)
             \/ CheckGlobals \/ PlaceLiterals \/ DefineOrigins \/ EvaluateGlobals
             \/ DefineExternals \/ FixAllHoles \/ construct
    BY <2>4, QuietSteps DEF Quiet
  <2> QED
    BY <1>1, <2>1, <2>2, <2>3, <2>4 DEF Next, Link
<1>2. IInv /\ [Next]_vars => [phase # "assembling" \/ phase' # "assembling" => Kept]_vars
  BY <1>1
<1> QED
  BY <1>2, LinkerInvariant, PTL DEF Spec, CleanUntouched

-----------------------------------------------------------------------------
(* The bss of some files.                                                  *)

BssWeight(p, f) == p[f].size["BSS"] + p[f].align["BSS"] - 1

LEMMA ProgramFields ==
  ASSUME NEW p \in Programs
  PROVE  /\ Len(p) \in Nat /\ DOMAIN p = 1 .. Len(p)
         /\ \A f \in DOMAIN p : IsObjectFile(p[f]) /\ BssWeight(p, f) \in Nat
<1>1. Len(p) \in Nat /\ DOMAIN p = 1 .. Len(p)
  BY ProgramFiles
<1>2. \A f \in DOMAIN p : IsObjectFile(p[f])
  BY LinkerAssumption
<1>3. ASSUME NEW f \in DOMAIN p PROVE BssWeight(p, f) \in Nat
  <2>1. p[f].align \in [Segments -> Nat \ {0}] /\ p[f].size \in [Segments -> Nat] /\ "BSS" \in Segments
    BY <1>2 DEF IsObjectFile, Segments
  <2>2. p[f].align["BSS"] \in Nat \ {0} /\ p[f].size["BSS"] \in Nat
    BY <2>1
  <2>3. QED
    BY <2>2 DEF BssWeight
<1>4. QED
  BY <1>1, <1>2, <1>3

(* What they take, file by file.                                           *)
IsRoom(h, p, some) ==
  /\ h[0] = 0
  /\ \A k \in 1 .. Len(p) : h[k] = h[k - 1] + (IF k \in some THEN BssWeight(p, k) ELSE 0)

LEMMA BssRoomsAre ==
  ASSUME NEW p \in Programs, NEW some
  PROVE  IsRoom(BssRooms(p, some), p, some)
<1> DEFINE n == Len(p)
           w(k) == IF k \in some THEN p[k].size["BSS"] + p[k].align["BSS"] - 1 ELSE 0
           t == [j \in 0 .. (n - 1) |-> w(j + 1)]
           Recursive(b) == b = [i \in 0 .. n |-> IF i = 0 THEN 0 ELSE b[i - 1] + w(i)]
<1>1. n \in Nat
  BY ProgramFields
<1>2. PICK h : h = [k \in 0 .. n |-> IF k = 0 THEN 0 ELSE h[k - 1] + t[k - 1]]
  <2> HIDE DEF n, t
  <2>1. QED
    BY <1>1, SumsDefined
<1>3. \A k \in 0 .. n : k # 0 => t[k - 1] = w(k)
  <2> HIDE DEF w, n
  <2> TAKE k \in 0 .. n
  <2> HAVE k # 0
  <2>1. k - 1 \in 0 .. (n - 1) /\ (k - 1) + 1 = k
    BY <1>1
  <2>2. QED
    BY <2>1
<1>4. Recursive(h)
  <2> HIDE DEF n, t, w
  <2>1. QED
    BY <1>2, <1>3
<1>5. BssRooms(p, some) = CHOOSE b : Recursive(b)
  BY DEF BssRooms
<1>6. Recursive(BssRooms(p, some))
  <2> HIDE DEF Recursive
  <2>1. QED
    BY <1>4, <1>5
<1> DEFINE b == BssRooms(p, some)
<1>7. b = [i \in 0 .. n |-> IF i = 0 THEN 0 ELSE b[i - 1] + w(i)]
  BY <1>6
<1> HIDE DEF b, n, w
<1>8. \A i \in 0 .. n : b[i] = IF i = 0 THEN 0 ELSE b[i - 1] + w(i)
  BY <1>7, Zenon
<1>9. b[0] = 0 /\ \A i \in 1 .. n : b[i] = b[i - 1] + w(i)
  BY <1>1, <1>8
<1>10. QED
  BY <1>9 DEF b, n, w, IsRoom, BssWeight

(* One file more takes its own more, and some take no more than all.       *)
LEMMA BssRoomGrows ==
  ASSUME NEW p \in Programs, NEW some, NEW f \in DOMAIN p, f \notin some
  PROVE  /\ BssRoom(p, some) \in Nat
         /\ BssRoom(p, some \cup {f}) = BssRoom(p, some) + BssWeight(p, f)
<1> DEFINE n == Len(p)
           a == BssRooms(p, some)
           b == BssRooms(p, some \cup {f})
           G == {k \in 0 .. n : /\ a[k] \in Nat
                                /\ b[k] = a[k] + (IF f <= k THEN BssWeight(p, f) ELSE 0)}
<1>1. n \in Nat /\ f \in 1 .. n /\ \A k \in 1 .. n : BssWeight(p, k) \in Nat
  BY ProgramFields
<1>2. /\ a[0] = 0 /\ b[0] = 0
      /\ \A k \in 1 .. n : a[k] = a[k - 1] + (IF k \in some THEN BssWeight(p, k) ELSE 0)
      /\ \A k \in 1 .. n : b[k] = b[k - 1] + (IF k \in some \cup {f} THEN BssWeight(p, k) ELSE 0)
  BY BssRoomsAre DEF IsRoom
<1> HIDE DEF n, a, b
<1>3. 0 \in G
  BY <1>1, <1>2
<1>4. ASSUME NEW k \in 0 .. (n - 1), k \in G PROVE k + 1 \in G
  <2> DEFINE x == a[k + 1]
             y == b[k + 1]
  <2>1. k + 1 \in 1 .. n /\ (k + 1) - 1 = k
    BY <1>1
  <2>2. /\ x = a[k] + (IF k + 1 \in some THEN BssWeight(p, k + 1) ELSE 0)
        /\ y = b[k] + (IF k + 1 \in some \cup {f} THEN BssWeight(p, k + 1) ELSE 0)
    BY <1>2, <2>1
  <2>3. BssWeight(p, k + 1) \in Nat /\ BssWeight(p, f) \in Nat
    BY <1>1, <2>1
  <2>4. a[k] \in Nat /\ b[k] = a[k] + (IF f <= k THEN BssWeight(p, f) ELSE 0)
    BY <1>4
  <2> HIDE DEF x, y
  <2>5. x \in Nat
    BY <2>2, <2>3, <2>4
  <2>6. y = x + (IF f <= k + 1 THEN BssWeight(p, f) ELSE 0)
    <3>1. CASE k + 1 = f
      BY <1>1, <2>2, <2>3, <2>4, <3>1
    <3>2. CASE k + 1 # f
      <4>1. f <= k + 1 <=> f <= k
        BY <1>1, <3>2
      <4>2. k + 1 \in some \cup {f} <=> k + 1 \in some
        BY <3>2
      <4>3. QED
        BY <2>2, <2>3, <2>4, <4>1, <4>2
    <3>3. QED
      BY <3>1, <3>2
  <2>7. QED
    BY <2>1, <2>5, <2>6 DEF x, y
<1> HIDE DEF G
<1>5. n \in G
  <2>1. 0 .. n \subseteq G
    BY <1>1, <1>3, <1>4, InductTo
  <2>2. QED
    BY <1>1, <2>1
<1>6. QED
  BY <1>1, <1>5 DEF G, a, b, n, BssRoom

LEMMA BssRoomBound ==
  ASSUME BssFits, NEW p \in Programs, NEW some
  PROVE  BssRoom(p, some) \in Nat /\ BssRoom(p, some) < W - 1
<1> DEFINE n == Len(p)
           a == BssRooms(p, some)
           b == BssRooms(p, DOMAIN p)
           G == {k \in 0 .. n : a[k] \in Nat /\ b[k] \in Nat /\ a[k] <= b[k]}
<1>1. n \in Nat /\ DOMAIN p = 1 .. n /\ \A k \in 1 .. n : BssWeight(p, k) \in Nat
  BY ProgramFields
<1>2. /\ a[0] = 0 /\ b[0] = 0
      /\ \A k \in 1 .. n : a[k] = a[k - 1] + (IF k \in some THEN BssWeight(p, k) ELSE 0)
      /\ \A k \in 1 .. n : b[k] = b[k - 1] + (IF k \in DOMAIN p THEN BssWeight(p, k) ELSE 0)
  BY BssRoomsAre DEF IsRoom
<1> HIDE DEF n, a, b
<1>3. 0 \in G
  BY <1>1, <1>2
<1>4. ASSUME NEW k \in 0 .. (n - 1), k \in G PROVE k + 1 \in G
  <2> DEFINE x == a[k + 1]
             y == b[k + 1]
             w == BssWeight(p, k + 1)
  <2>1. k + 1 \in 1 .. n /\ (k + 1) - 1 = k
    BY <1>1
  <2>2. x = a[k] + (IF k + 1 \in some THEN w ELSE 0) /\ y = b[k] + w
    BY <1>1, <1>2, <2>1
  <2>3. w \in Nat
    BY <1>1, <2>1
  <2>4. a[k] \in Nat /\ b[k] \in Nat /\ a[k] <= b[k]
    BY <1>4
  <2> HIDE DEF x, y, w
  <2>5. x \in Nat /\ y \in Nat /\ x <= y
    BY <2>2, <2>3, <2>4
  <2>6. QED
    BY <2>1, <2>5 DEF x, y
<1> HIDE DEF G
<1>5. n \in G
  <2>1. 0 .. n \subseteq G
    BY <1>1, <1>3, <1>4, InductTo
  <2>2. QED
    BY <1>1, <2>1
<1>6. BssRoom(p, some) \in Nat /\ BssRoom(p, DOMAIN p) \in Nat
      /\ BssRoom(p, some) <= BssRoom(p, DOMAIN p)
  BY <1>5 DEF G, a, b, n, BssRoom
<1>7. BssRoom(p, DOMAIN p) < W - 1 /\ W \in Nat
  BY LinkerAssumption DEF BssFits
<1>8. QED
  BY <1>6, <1>7

-----------------------------------------------------------------------------
(* Alignment.                                                              *)

LEMMA MultipleOfMultiple ==
  ASSUME NEW a \in Nat \ {0}, NEW b \in Nat \ {0}, NEW x \in Int, x % b = 0, b % a = 0
  PROVE  x % a = 0
<1> DEFINE q == x \div b
           r == b \div a
<1>1. q \in Int /\ x = q * b
  BY DivisionOf
<1>2. r \in Int /\ b = r * a
  BY DivisionOf
<1> HIDE DEF q, r
<1>3. q * r \in Int /\ x = 0 + (q * r) * a
  BY <1>1, <1>2, Z3
<1> DEFINE c == q * r
<1>4. c \in Int /\ x = 0 + c * a
  BY <1>3
<1> HIDE DEF c
<1>5. (0 + c * a) % a = 0
  BY <1>4, DivisionOfSum
<1>6. QED
  BY <1>4, <1>5

LEMMA SumOfMultiples ==
  ASSUME NEW a \in Nat \ {0}, NEW x \in Int, NEW y \in Int, x % a = 0, y % a = 0
  PROVE  (x + y) % a = 0
<1> DEFINE q == x \div a
           r == y \div a
<1>1. q \in Int /\ x = q * a /\ r \in Int /\ y = r * a
  BY DivisionOf
<1> HIDE DEF q, r
<1> DEFINE c == q + r
<1>2. c \in Int /\ x + y = 0 + c * a
  BY <1>1, Z3
<1> HIDE DEF c
<1>3. (0 + c * a) % a = 0
  BY <1>2, DivisionOfSum
<1>4. QED
  BY <1>2, <1>3

LEMMA AlignedUp ==
  ASSUME NEW x \in Nat, NEW a \in Nat \ {0}
  PROVE  AlignOffset(x, a) \in 0 .. (a - 1) /\ (x + AlignOffset(x, a)) % a = 0
<1> DEFINE h == x % a
           q == x \div a
           off == AlignOffset(x, a)
<1>1. h \in 0 .. (a - 1) /\ q \in Int /\ x = h + q * a
  BY DivisionOf
<1>2. off = (a - h) % a
  BY DEF AlignOffset
<1> HIDE DEF h, q, off
<1>3. CASE h = 0
  <2>1. off = 0
    <3>1. a = 0 + 1 * a /\ a - h = a
      BY <1>3
    <3>2. (0 + 1 * a) % a = 0
      BY DivisionOfSum
    <3>3. QED
      BY <1>2, <3>1, <3>2
  <2>2. (0 + q * a) % a = 0
    BY <1>1, DivisionOfSum
  <2>3. x + off = 0 + q * a
    BY <1>1, <1>3, <2>1
  <2>4. QED
    BY <2>1, <2>2, <2>3 DEF off
<1>4. CASE h # 0
  <2>1. off = a - h /\ a - h \in 0 .. (a - 1)
    <3>1. a - h \in 0 .. (a - 1)
      BY <1>1, <1>4
    <3>2. ((a - h) + 0 * a) % a = a - h
      BY <3>1, DivisionOfSum
    <3>3. QED
      BY <1>1, <1>2, <3>1, <3>2
  <2> DEFINE c == q + 1
  <2>2. c \in Int /\ x + off = 0 + c * a
    BY <1>1, <2>1, Z3
  <2> HIDE DEF c
  <2>3. (0 + c * a) % a = 0
    BY <2>2, DivisionOfSum
  <2>4. QED
    BY <2>1, <2>2, <2>3 DEF off
<1>5. QED
  BY <1>3, <1>4

-----------------------------------------------------------------------------
(* Sequences of anything.                                                  *)

IsSequence(s) == \E S : s \in Seq(S)

LEMMA SequenceParts ==
  ASSUME NEW s, IsSequence(s)
  PROVE  Len(s) \in Nat /\ DOMAIN s = 1 .. Len(s)
<1>1. PICK S : s \in Seq(S)
  BY DEF IsSequence
<1>2. QED
  BY <1>1, LenProperties

LEMMA FunctionIsSequence ==
  ASSUME NEW n \in Nat, NEW s, s = [k \in 1 .. n |-> s[k]]
  PROVE  IsSequence(s) /\ Len(s) = n
<1> DEFINE S == {s[k] : k \in 1 .. n}
<1>1. s \in [1 .. n -> S]
  OBVIOUS
<1> HIDE DEF S
<1>2. s \in Seq(S) /\ Len(s) = n
  BY <1>1
<1>3. QED
  BY <1>2 DEF IsSequence

LEMMA ConcatParts ==
  ASSUME NEW s, NEW t, IsSequence(s), IsSequence(t)
  PROVE  /\ IsSequence(s \o t) /\ Len(s \o t) = Len(s) + Len(t)
         /\ \A k \in 1 .. Len(s) : (s \o t)[k] = s[k]
         /\ \A k \in 1 .. Len(t) : (s \o t)[Len(s) + k] = t[k]
<1>1. PICK S : s \in Seq(S)
  BY DEF IsSequence
<1>2. PICK T : t \in Seq(T)
  BY DEF IsSequence
<1> DEFINE U == S \cup T
<1>3. s \in Seq(U) /\ t \in Seq(U)
  BY <1>1, <1>2
<1> HIDE DEF U
<1>4. /\ s \o t \in Seq(U) /\ Len(s \o t) = Len(s) + Len(t)
      /\ \A i \in 1 .. (Len(s) + Len(t)) : (s \o t)[i] = IF i <= Len(s) THEN s[i] ELSE t[i - Len(s)]
  BY <1>3, ConcatProperties
<1>5. Len(s) \in Nat /\ Len(t) \in Nat
  BY <1>3, LenProperties
<1> DEFINE u == s \o t
           m == Len(s)
           n == Len(t)
<1>6. \A i \in 1 .. (m + n) : u[i] = IF i <= m THEN s[i] ELSE t[i - m]
  BY <1>4
<1>7. m \in Nat /\ n \in Nat
  BY <1>5
<1> HIDE DEF u, m, n
<1>8. \A k \in 1 .. m : u[k] = s[k]
  BY <1>6, <1>7
<1>9. ASSUME NEW k \in 1 .. n PROVE u[m + k] = t[k]
  <2>1. m + k \in 1 .. (m + n) /\ ~(m + k <= m) /\ (m + k) - m = k
    BY <1>7
  <2>2. QED
    BY <1>6, <2>1
<1>10. QED
  BY <1>4, <1>8, <1>9 DEF u, m, n, IsSequence

LEMMA PaddedParts ==
  ASSUME NEW s, IsSequence(s), NEW count \in Nat
  PROVE  /\ IsSequence(Padded(s, count)) /\ Len(Padded(s, count)) = Len(s) + count
         /\ \A k \in 1 .. Len(s) : Padded(s, count)[k] = s[k]
<1> DEFINE t == [k \in 1 .. count |-> Pad]
<1>1. IsSequence(t) /\ Len(t) = count
  <2>1. t = [k \in 1 .. count |-> t[k]]
    OBVIOUS
  <2> HIDE DEF t
  <2>2. QED
    BY <2>1, FunctionIsSequence
<1>2. Padded(s, count) = s \o t
  BY DEF Padded
<1> HIDE DEF t
<1>3. QED
  BY <1>1, <1>2, ConcatParts

LEMMA AlignedParts ==
  ASSUME NEW s, IsSequence(s), NEW a \in Nat \ {0}
  PROVE  /\ IsSequence(Aligned(s, a)) /\ Len(Aligned(s, a)) >= Len(s)
         /\ Len(Aligned(s, a)) \in Nat /\ Len(Aligned(s, a)) % a = 0
         /\ \A k \in 1 .. Len(s) : Aligned(s, a)[k] = s[k]
<1> DEFINE off == AlignOffset(Len(s), a)
<1>1. Len(s) \in Nat
  BY SequenceParts
<1>2. off \in Nat /\ (Len(s) + off) % a = 0
  BY <1>1, AlignedUp
<1>3. Aligned(s, a) = Padded(s, off)
  BY DEF Aligned
<1> HIDE DEF off
<1>4. /\ IsSequence(Padded(s, off)) /\ Len(Padded(s, off)) = Len(s) + off
      /\ \A k \in 1 .. Len(s) : Padded(s, off)[k] = s[k]
  BY <1>2, PaddedParts
<1> DEFINE n == Len(Aligned(s, a))
           m == Len(s)
<1>5. n = m + off
  BY <1>3, <1>4
<1> HIDE DEF n, m
<1>6. n >= m /\ n \in Nat /\ n % a = 0
  BY <1>1, <1>2, <1>5 DEF m
<1>7. QED
  BY <1>3, <1>4, <1>6 DEF n, m

(* The concatenation of some sequences.                                    *)
IsFlattening(f, s, n) == f = [i \in 1 .. n |-> IF i = 1 THEN s[i] ELSE f[i - 1] \o s[i]]

LEMMA FlatteningExists ==
  ASSUME NEW s, NEW n \in Nat
  PROVE  \E f : IsFlattening(f, s, n)
<1> DEFINE T == {m \in Nat : \E f : IsFlattening(f, s, m)}
<1>1. 0 \in T
  <2> DEFINE f == [i \in 1 .. 0 |-> s[i]]
  <2>1. 1 .. 0 = {}
    OBVIOUS
  <2>2. IsFlattening(f, s, 0)
    BY <2>1 DEF IsFlattening
  <2>3. QED
    BY <2>2
<1>2. ASSUME NEW m \in Nat, m \in T PROVE m + 1 \in T
  <2>1. PICK f : IsFlattening(f, s, m)
    BY <1>2
  <2> DEFINE g == [i \in 1 .. (m + 1) |->
                     IF i = m + 1 THEN IF m = 0 THEN s[1] ELSE f[m] \o s[m + 1] ELSE f[i]]
  <2>2. \A i \in 1 .. m : f[i] = IF i = 1 THEN s[i] ELSE f[i - 1] \o s[i]
    BY <2>1 DEF IsFlattening
  <2>3. ASSUME NEW i \in 1 .. (m + 1)
        PROVE  g[i] = IF i = 1 THEN s[i] ELSE g[i - 1] \o s[i]
    <3>1. CASE i \in 1 .. m
      <4>1. g[i] = f[i] /\ (i # 1 => g[i - 1] = f[i - 1])
        BY <3>1
      <4> HIDE DEF g
      <4>2. QED
        BY <2>2, <3>1, <4>1
    <3>2. CASE i = m + 1
      <4>1. g[i] = IF m = 0 THEN s[1] ELSE f[m] \o s[m + 1]
        BY <3>2
      <4>2. m # 0 => i # 1 /\ i - 1 = m /\ g[i - 1] = f[m]
        BY <3>2
      <4>3. m = 0 => i = 1
        BY <3>2
      <4> HIDE DEF g
      <4>4. QED
        BY <3>2, <4>1, <4>2, <4>3
    <3>3. QED
      BY <3>1, <3>2
  <2>4. IsFlattening(g, s, m + 1)
    <3>1. g = [i \in 1 .. (m + 1) |-> g[i]]
      OBVIOUS
    <3> HIDE DEF g
    <3>2. QED
      BY <2>3, <3>1 DEF IsFlattening
  <2> HIDE DEF g
  <2>5. QED
    BY <2>4
<1> HIDE DEF T
<1>3. n \in T
  BY <1>1, <1>2, Induct
<1>4. QED
  BY <1>3 DEF T

LEMMA FlattenIsSequence ==
  ASSUME NEW S, NEW s \in Seq(Seq(S))
  PROVE  IsSequence(FlattenSeq(s))
<1> DEFINE n == Len(s)
           f == CHOOSE g : IsFlattening(g, s, n)
<1>1. n \in Nat /\ \A i \in 1 .. n : s[i] \in Seq(S)
  OBVIOUS
<1>2. CASE n = 0
  <2>1. FlattenSeq(s) = s
    BY <1>2 DEF FlattenSeq
  <2>2. QED
    BY <2>1 DEF IsSequence
<1>3. CASE n # 0
  <2>1. IsFlattening(f, s, n)
    BY <1>1, FlatteningExists
  <2>2. FlattenSeq(s) = f[n]
    BY <1>3 DEF FlattenSeq, IsFlattening
  <2> HIDE DEF f, n
  <2>3. \A i \in 1 .. n : f[i] = IF i = 1 THEN s[i] ELSE f[i - 1] \o s[i]
    BY <2>1 DEF IsFlattening
  <2> DEFINE G == {k \in 0 .. n : k = 0 \/ f[k] \in Seq(S)}
  <2>4. 0 \in G
    BY <1>1
  <2>5. ASSUME NEW k \in 0 .. (n - 1), k \in G PROVE k + 1 \in G
    <3>1. k + 1 \in 1 .. n /\ s[k + 1] \in Seq(S) /\ (k + 1) - 1 = k /\ (k + 1 = 1 <=> k = 0)
      BY <1>1
    <3>2. f[k + 1] = IF k = 0 THEN s[k + 1] ELSE f[k] \o s[k + 1]
      BY <2>3, <3>1
    <3>3. k = 0 \/ f[k] \in Seq(S)
      BY <2>5
    <3>4. f[k + 1] \in Seq(S)
      <4>1. CASE k = 0
        BY <3>1, <3>2, <4>1
      <4>2. CASE k # 0
        <5>1. f[k] \o s[k + 1] \in Seq(S)
          BY <3>1, <3>3, <4>2, ConcatProperties
        <5>2. QED
          BY <3>2, <4>2, <5>1
      <4>3. QED
        BY <4>1, <4>2
    <3>5. QED
      BY <3>1, <3>4
  <2> HIDE DEF G
  <2>6. n \in G
    <3>1. 0 .. n \subseteq G
      BY <1>1, <2>4, <2>5, InductTo
    <3>2. QED
      BY <1>1, <3>1
  <2>7. QED
    BY <1>3, <2>2, <2>6 DEF G, IsSequence
<1>4. QED
  BY <1>2, <1>3

-----------------------------------------------------------------------------
(* The object files, whatever Link does to them, keep their shape.         *)

SameShape(f, g) == IsObjectFile(f) /\ f.size = g.size /\ f.align = g.align
ShapeOK == \A f \in Files : SameShape(objs[f], program[f])

LEMMA DirtyShape ==
  ASSUME NEW f, IsObjectFile(f)
  PROVE  SameShape([f EXCEPT !.clean = FALSE], f)
<1> DEFINE d == [f EXCEPT !.clean = FALSE]
<1>1. DOMAIN f = ObjectFileFields
  BY DEF IsObjectFile, ObjectFileFields
<1>2. DOMAIN d = ObjectFileFields /\ d.clean = FALSE /\ \A x \in ObjectFileFields \ {"clean"} : d[x] = f[x]
  BY <1>1 DEF ObjectFileFields
<1> HIDE DEF d
<1>3. /\ d.GlobalSymbols = f.GlobalSymbols /\ d.ExternalSymbols = f.ExternalSymbols
      /\ d.Symbols = f.Symbols /\ d.align = f.align /\ d.size = f.size /\ d.holes = f.holes
      /\ d.clean \in BOOLEAN
  BY <1>2 DEF ObjectFileFields
<1>4. IsObjectFile(d)
  BY <1>2, <1>3 DEF IsObjectFile, ObjectFileFields
<1>5. QED
  BY <1>3, <1>4 DEF SameShape, d

LEMMA RenamedShape ==
  ASSUME NEW f, IsObjectFile(f), NEW from, NEW to \in STRING
  PROVE  SameShape(Renamed(f, from, to), f)
<1> DEFINE Name(n) == IF n = from THEN to ELSE n
           r == Renamed(f, from, to)
           exts == {Name(n) : n \in f.ExternalSymbols}
           syms == [n \in DOMAIN f.Symbols |->
                      IF f.Symbols[n][1] = "alias" THEN <<"alias", Name(f.Symbols[n][2])>>
                      ELSE f.Symbols[n]]
           holes == {<<h[1], h[2], Name(h[3])>> : h \in f.holes}
<1>1. DOMAIN f = ObjectFileFields
  BY DEF IsObjectFile, ObjectFileFields
<1>2. r = [f EXCEPT !.ExternalSymbols = exts, !.Symbols = syms, !.holes = holes]
  BY DEF Renamed
<1>3. /\ DOMAIN r = ObjectFileFields
      /\ r.GlobalSymbols = f.GlobalSymbols /\ r.ExternalSymbols = exts
      /\ r.Symbols = syms /\ r.align = f.align /\ r.size = f.size /\ r.holes = holes
      /\ r.clean = f.clean
  <2> HIDE DEF exts, syms, holes, r
  <2>1. QED
    BY <1>1, <1>2 DEF ObjectFileFields
<1> HIDE DEF r
<1>4. \A n \in STRING : Name(n) \in STRING
  OBVIOUS
<1>5. /\ f.GlobalSymbols \subseteq STRING /\ f.ExternalSymbols \subseteq STRING
      /\ DOMAIN f.Symbols \subseteq STRING
      /\ \A n \in DOMAIN f.Symbols : f.Symbols[n] \in Definition
      /\ \A n \in DOMAIN f.Symbols :
           f.Symbols[n][1] = "label" => f.Symbols[n][3] <= f.size[f.Symbols[n][2]]
      /\ f.holes \subseteq Stored \X Nat \X STRING
      /\ \A h \in f.holes : h[2] < f.size[h[1]]
      /\ \A h, i \in f.holes : h[1] = i[1] /\ h[2] = i[2] => h = i
  BY DEF IsObjectFile
<1>6. exts \subseteq STRING /\ IsFiniteSet(exts)
  <2>1. IsFiniteSet(f.ExternalSymbols)
    BY DEF IsObjectFile
  <2>2. exts \in SUBSET (f.ExternalSymbols \cup {to}) /\ IsFiniteSet(f.ExternalSymbols \cup {to})
    BY <2>1, FS_AddElement
  <2>2a. IsFiniteSet(exts)
    BY <2>2, FS_Subset
  <2>3. QED
    BY <1>4, <1>5, <2>2a
<1>7. /\ DOMAIN syms = DOMAIN f.Symbols
      /\ \A n \in DOMAIN syms : /\ syms[n] \in Definition
                                /\ syms[n][1] = "label" => syms[n] = f.Symbols[n]
  <2> SUFFICES ASSUME NEW n \in DOMAIN syms
               PROVE  /\ syms[n] \in Definition
                      /\ syms[n][1] = "label" => syms[n] = f.Symbols[n]
    OBVIOUS
  <2>1. n \in DOMAIN f.Symbols /\ f.Symbols[n] \in Definition
    BY <1>5
  <2>2. CASE f.Symbols[n][1] = "alias"
    <3>1. f.Symbols[n][2] \in STRING
      BY <2>1, <2>2 DEF Definition
    <3>2. syms[n] = <<"alias", Name(f.Symbols[n][2])>>
      BY <2>1, <2>2
    <3> HIDE DEF syms
    <3>3. syms[n][1] = "alias" /\ syms[n] \in {"alias"} \X STRING
      BY <1>4, <3>1, <3>2
    <3>4. QED
      BY <3>3 DEF Definition
  <2>3. CASE f.Symbols[n][1] # "alias"
    <3>1. syms[n] = f.Symbols[n]
      BY <2>1, <2>3
    <3> HIDE DEF syms
    <3>2. QED
      BY <2>1, <3>1
  <2>4. QED
    BY <2>2, <2>3
<1>8. /\ holes \subseteq Stored \X Nat \X STRING
      /\ \A h \in holes : h[2] < f.size[h[1]]
      /\ \A h, i \in holes : h[1] = i[1] /\ h[2] = i[2] => h = i
  <2>1. ASSUME NEW h \in holes
        PROVE  \E a \in f.holes : h = <<a[1], a[2], Name(a[3])>> /\ a[1] \in Stored /\ a[2] \in Nat
                                  /\ a[3] \in STRING /\ a[2] < f.size[a[1]]
    <3>1. PICK a \in f.holes : h = <<a[1], a[2], Name(a[3])>>
      OBVIOUS
    <3> HIDE DEF Name
    <3>2. QED
      BY <1>5, <3>1
  <2> HIDE DEF holes, Name
  <2>2. ASSUME NEW h \in holes PROVE h \in Stored \X Nat \X STRING /\ h[2] < f.size[h[1]]
    <3>1. PICK a \in f.holes : h = <<a[1], a[2], Name(a[3])>> /\ a[1] \in Stored /\ a[2] \in Nat
                               /\ a[3] \in STRING /\ a[2] < f.size[a[1]]
      BY <2>1
    <3>2. QED
      BY <1>4, <3>1
  <2>3. ASSUME NEW h \in holes, NEW i \in holes, h[1] = i[1], h[2] = i[2] PROVE h = i
    <3>1. PICK a \in f.holes : h = <<a[1], a[2], Name(a[3])>>
      BY <2>1
    <3>2. PICK b \in f.holes : i = <<b[1], b[2], Name(b[3])>>
      BY <2>1
    <3>3. a = b
      BY <1>5, <2>3, <3>1, <3>2
    <3>4. QED
      BY <3>1, <3>2, <3>3
  <2>4. QED
    BY <2>2, <2>3
<1> HIDE DEF exts, syms, holes
<1>9. IsFiniteSet(DOMAIN syms) /\ DOMAIN syms \subseteq STRING
  BY <1>5, <1>7 DEF IsObjectFile
<1>10. /\ f.align \in [Segments -> Nat \ {0}] /\ f.size \in [Segments -> Nat] /\ f.clean \in BOOLEAN
  BY DEF IsObjectFile
<1>11. \A n \in DOMAIN syms : syms[n][1] = "label" => syms[n][3] <= f.size[syms[n][2]]
  BY <1>5, <1>7
<1>12. IsObjectFile(r)
  BY <1>3, <1>5, <1>6, <1>7, <1>8, <1>9, <1>10, <1>11 DEF IsObjectFile, ObjectFileFields
<1>13. QED
  BY <1>3, <1>12 DEF SameShape, r

LEMMA ShapeTwice ==
  ASSUME NEW f, NEW g, NEW h, SameShape(f, g), SameShape(g, h)
  PROVE  SameShape(f, h)
BY DEF SameShape

(* Every step of Link leaves each file as it is, or its shape.             *)
LEMMA ShapeKept ==
  ASSUME IInv, ShapeOK, [Next]_vars
  PROVE  /\ ShapeOK' /\ Files' = Files
         /\ \A f \in Files : objs'[f].size = objs[f].size /\ objs'[f].align = objs[f].align
<1>1. ASSUME DOMAIN objs' = DOMAIN objs, program' = program,
             \A f \in Files : objs'[f] = objs[f] \/ SameShape(objs'[f], objs[f])
      PROVE  /\ ShapeOK' /\ Files' = Files
             /\ \A f \in Files : objs'[f].size = objs[f].size /\ objs'[f].align = objs[f].align
  <2>1. Files' = Files
    BY <1>1 DEF Files
  <2>2. ASSUME NEW f \in Files
        PROVE  /\ SameShape(objs'[f], program'[f])
               /\ objs'[f].size = objs[f].size /\ objs'[f].align = objs[f].align
    <3>1. SameShape(objs[f], program[f])
      BY DEF ShapeOK
    <3>2. QED
      BY <1>1, <3>1 DEF SameShape
  <2>3. QED
    BY <2>1, <2>2 DEF ShapeOK
<1>2. ASSUME NEW f \in Files, NEW file, SameShape(file, objs[f]), program' = program,
             objs' = [objs EXCEPT ![f] = file]
      PROVE  /\ ShapeOK' /\ Files' = Files
             /\ \A g \in Files : objs'[g].size = objs[g].size /\ objs'[g].align = objs[g].align
  <2>1. DOMAIN objs' = DOMAIN objs /\ \A g \in Files : objs'[g] = IF g = f THEN file ELSE objs[g]
    BY <1>2 DEF Files
  <2>2. QED
    BY <1>1, <1>2, <2>1
<1>3. CASE UNCHANGED <<objs, program>>
  BY <1>1, <1>3
<1>4. CASE \E f \in Files, value \in Values : Provision(f, value)
  BY <1>3, <1>4 DEF Provision
<1>5. ASSUME NEW e \in Entries, RenameStart(e)
      PROVE  /\ ShapeOK' /\ Files' = Files
             /\ \A g \in Files : objs'[g].size = objs[g].size /\ objs'[g].align = objs[g].align
  <2> DEFINE dirty == [StartFile EXCEPT !.clean = FALSE]
  <2>1. 1 \in Files /\ program' = program
    BY <1>5, StartIsFirst DEF RenameStart, Goes, Fails, history
  <2>2. IsObjectFile(StartFile)
    BY <2>1 DEF ShapeOK, SameShape, StartFile
  <2>3. SameShape(dirty, StartFile)
    BY <2>2, DirtyShape
  <2>4. \/ objs' = [objs EXCEPT ![1] = Renamed(dirty, "_start", e)]
        \/ objs' = [objs EXCEPT ![1] = dirty]
    BY <1>5 DEF RenameStart
  <2> HIDE DEF dirty
  <2>5. e \in STRING
    <3>1. Entries \subseteq STRING
      BY LinkerAssumption
    <3>2. QED
      BY <1>5, <3>1
  <2>6. SameShape(Renamed(dirty, "_start", e), StartFile)
    <3>1. IsObjectFile(dirty)
      BY <2>3 DEF SameShape
    <3>2. SameShape(Renamed(dirty, "_start", e), dirty)
      BY <2>5, <3>1, RenamedShape
    <3>3. QED
      BY <2>3, <3>2, ShapeTwice
  <2>7. PICK file : SameShape(file, StartFile) /\ objs' = [objs EXCEPT ![1] = file]
    BY <2>3, <2>4, <2>6
  <2>8. QED
    BY <1>2, <2>1, <2>7 DEF StartFile
<1>6. CASE IncludeFile
  <2> DEFINE f == Head(include_queue)
  <2>1. f \in Files /\ MadeDirty(f) /\ program' = program
    <3>1. include_queue # <<>> /\ MadeDirty(f) /\ program' = program
      BY <1>6 DEF IncludeFile, Fails, history
    <3>2. QED
      BY <3>1, HeadTailProperties DEF IInv, FilesOK
  <2> HIDE DEF f
  <2>2. objs' = [objs EXCEPT ![f] = [objs[f] EXCEPT !.clean = FALSE]]
    BY <2>1 DEF MadeDirty, Files
  <2>3. IsObjectFile(objs[f])
    BY <2>1 DEF ShapeOK, SameShape
  <2>4. SameShape([objs[f] EXCEPT !.clean = FALSE], objs[f])
    BY <2>3, DirtyShape
  <2>5. QED
    BY <1>2, <2>1, <2>2, <2>4
<1>7. CASE \/ \E e \in Entries : RefuseArguments(e)
           \/ CheckGlobals \/ PlaceLiterals \/ DefineOrigins \/ EvaluateGlobals
           \/ DefineExternals \/ FixAllHoles \/ construct
  BY <1>3, <1>7, QuietSteps DEF Quiet
<1>8. CASE UNCHANGED vars
  BY <1>3, <1>8 DEF vars, history
<1>9. QED
  BY <1>4, <1>5, <1>6, <1>7, <1>8 DEF Next, Link

-----------------------------------------------------------------------------
(* The queue has no file twice, and none that is included.                 *)

FoundOK == Included \subseteq Files /\ \A f \in Included : ~Missing(f)
Distinct(s) == \A i, j \in DOMAIN s : i # j => s[i] # s[j]
QueueOK ==
  phase = "merging" => Distinct(include_queue) /\ ToSet(include_queue) \cap Included = {}

LEMMA QueueStaysDistinct ==
  ASSUME FilesOK, include_queue # <<>>, Distinct(include_queue),
         NEW f, f = Head(include_queue), NEW order \in SetToSeqs(Waiting(f)),
         ToSet(include_queue) \cap Included = {}
  PROVE  /\ Distinct(Queued(f, order)) /\ f \notin Included
         /\ ToSet(Queued(f, order)) \cap (Included \cup {f}) = {}
<1> DEFINE q == include_queue
           rest == Tail(q)
           new == Queued(f, order)
<1>1. q \in Seq(Files) /\ q # <<>>
  BY DEF FilesOK
<1>2. Len(q) \in Nat \ {0} /\ DOMAIN q = 1 .. Len(q) /\ f = q[1] /\ f \in Files
  BY <1>1, LenProperties, EmptySeq
<1>3. /\ rest \in Seq(Files) /\ Len(rest) = Len(q) - 1
      /\ \A k \in 1 .. Len(rest) : rest[k] = q[k + 1]
  BY <1>1, HeadTailProperties
<1>4. Waiting(f) \subseteq Files /\ IsFiniteSet(Waiting(f))
  <2>1. Waiting(f) \subseteq Files
    BY <1>2, NeedsAreSources DEF Waiting
  <2>2. QED
    BY <2>1, FilesFinite, FS_Subset
<1>5. order \in Seq(Waiting(f)) /\ ToSet(order) = Waiting(f) /\ order \in Seq(Files)
  BY <1>4, Ordered
<1>6. Distinct(order)
  BY DEF SetToSeqs, Distinct
<1>7. /\ \A x \in Waiting(f) : x \notin Included /\ x # f /\ x \notin ToSet(q)
      /\ f \in ToSet(q)
  BY <1>2 DEF Waiting, ToSet
<1>8. new = rest \o order
  BY DEF Queued
<1>9. IsSequence(rest) /\ IsSequence(order)
  BY <1>3, <1>5 DEF IsSequence
<1> DEFINE m == Len(rest)
           n == Len(order)
<1>10. /\ IsSequence(new) /\ Len(new) = m + n
       /\ \A k \in 1 .. m : new[k] = rest[k]
       /\ \A k \in 1 .. n : new[m + k] = order[k]
  <2> HIDE DEF q, rest, new
  <2>1. /\ IsSequence(rest \o order) /\ Len(rest \o order) = Len(rest) + Len(order)
        /\ \A k \in 1 .. Len(rest) : (rest \o order)[k] = rest[k]
        /\ \A k \in 1 .. Len(order) : (rest \o order)[Len(rest) + k] = order[k]
    BY <1>9, ConcatParts
  <2>2. QED
    BY <1>8, <2>1, Zenon
<1>11. m \in Nat /\ n \in Nat /\ DOMAIN order = 1 .. n /\ DOMAIN new = 1 .. (m + n)
       /\ Len(q) = m + 1
  BY <1>2, <1>3, <1>9, <1>10, SequenceParts
<1> HIDE DEF q, rest, new, m, n
<1>12. ASSUME NEW k \in DOMAIN new
       PROVE  \/ k \in 1 .. m /\ k + 1 \in DOMAIN q /\ new[k] = q[k + 1]
              \/ k > m /\ k - m \in DOMAIN order /\ new[k] = order[k - m]
  <2>1. CASE k <= m
    <3>1. k \in 1 .. m /\ k + 1 \in DOMAIN q
      BY <1>2, <1>11, <2>1
    <3>2. new[k] = q[k + 1]
      BY <1>3, <1>10, <3>1 DEF m
    <3>3. QED
      BY <3>1, <3>2
  <2>2. CASE ~(k <= m)
    <3>1. k - m \in 1 .. n /\ m + (k - m) = k /\ k > m
      BY <1>11, <2>2
    <3>2. QED
      BY <1>10, <1>11, <3>1
  <2>3. QED
    BY <2>1, <2>2
<1>13. Distinct(q) /\ \A k \in DOMAIN q : q[k] \in ToSet(q) /\ q[k] \notin Included
  BY DEF q, ToSet
<1>14. \A k \in DOMAIN order : order[k] \in Waiting(f)
  BY <1>5 DEF ToSet
<1>15. Distinct(new)
  <2> SUFFICES ASSUME NEW i \in DOMAIN new, NEW j \in DOMAIN new, i # j PROVE new[i] # new[j]
    BY DEF Distinct
  <2>1. i \in Int /\ j \in Int /\ m \in Int
    BY <1>11
  <2>2. CASE i <= m /\ j <= m
    <3>1. /\ i + 1 \in DOMAIN q /\ new[i] = q[i + 1] /\ j + 1 \in DOMAIN q /\ new[j] = q[j + 1]
          /\ i + 1 # j + 1
      BY <1>12, <2>1, <2>2
    <3>2. QED
      BY <1>13, <3>1 DEF Distinct
  <2>3. CASE i > m /\ j > m
    <3>1. /\ i - m \in DOMAIN order /\ new[i] = order[i - m]
          /\ j - m \in DOMAIN order /\ new[j] = order[j - m] /\ i - m # j - m
      BY <1>12, <2>1, <2>3
    <3>2. QED
      BY <1>6, <3>1 DEF Distinct
  <2>4. CASE i <= m /\ j > m
    <3>1. i + 1 \in DOMAIN q /\ new[i] = q[i + 1] /\ j - m \in DOMAIN order /\ new[j] = order[j - m]
      BY <1>12, <2>1, <2>4
    <3>2. QED
      BY <1>7, <1>13, <1>14, <3>1
  <2>5. CASE i > m /\ j <= m
    <3>1. j + 1 \in DOMAIN q /\ new[j] = q[j + 1] /\ i - m \in DOMAIN order /\ new[i] = order[i - m]
      BY <1>12, <2>1, <2>5
    <3>2. QED
      BY <1>7, <1>13, <1>14, <3>1
  <2>6. QED
    BY <2>1, <2>2, <2>3, <2>4, <2>5
<1>16. ASSUME NEW k \in DOMAIN new PROVE new[k] \notin Included /\ new[k] # f
  <2>1. CASE k + 1 \in DOMAIN q /\ new[k] = q[k + 1] /\ k \in 1 .. m
    <3>1. 1 \in DOMAIN q /\ k + 1 # 1
      BY <1>2, <2>1 DEF q
    <3>2. q[k + 1] # q[1]
      BY <1>13, <2>1, <3>1 DEF Distinct
    <3>3. QED
      BY <1>2, <1>13, <2>1, <3>2 DEF q
  <2>2. CASE k - m \in DOMAIN order /\ new[k] = order[k - m]
    BY <1>7, <1>14, <2>2
  <2>3. QED
    BY <1>12, <2>1, <2>2
<1>17. f \notin Included
  BY <1>7 DEF q
<1>18. QED
  BY <1>15, <1>16, <1>17 DEF new, ToSet

(* What is missing from a file stays so: no name is added.                 *)
LEMMA MissingStays ==
  ASSUME FilesOK, NEW f \in Files, MadeDirty(f), NEW g \in Files
  PROVE  Missing(g)' <=> Missing(g)
<1>1. objs' = [objs EXCEPT ![f].clean = FALSE]
  BY DEF MadeDirty
<1>2. Files' = Files /\ \A h \in Files : h # f => objs'[h] = objs[h]
  BY <1>1 DEF Files
<1>3. objs'[f] = [objs[f] EXCEPT !.clean = FALSE]
  BY <1>1 DEF Files
<1>4. /\ objs'[f].ExternalSymbols = objs[f].ExternalSymbols
      /\ objs'[f].GlobalSymbols = objs[f].GlobalSymbols
  <2>1. DOMAIN objs[f] = ObjectFileFields
    BY DEF FilesOK
  <2>2. QED
    BY <1>3, <2>1 DEF ObjectFileFields
<1>5. \A h \in Files : /\ objs'[h].ExternalSymbols = objs[h].ExternalSymbols
                       /\ objs'[h].GlobalSymbols = objs[h].GlobalSymbols
  BY <1>2, <1>4
<1>6. \A x : Exporters(x)' = Exporters(x)
  BY <1>2, <1>5 DEF Exporters
<1>7. QED
  BY <1>5, <1>6 DEF Missing

-----------------------------------------------------------------------------
(* Where the segments of the included files are.                           *)

Late == {"laid out", "evaluated", "defined", "patched", "linked"}

ErrorOK == error \in Errors /\ (phase = "failed" <=> error # "None")

(* A cell of a file, whatever fills its hole.                              *)
IsCell(c, f, s, k) == c = <<"cell", f, s, k, c[5]>>
SegmentsOK == DOMAIN segments = Stored /\ \A s \in Stored : IsSequence(segments[s])

(* The segments of an included file are where Link says, aligned and whole. *)
Stands(cells, from, f, s, size) ==
  /\ from + size <= Len(cells)
  /\ \A k \in 0 .. (size - 1) : IsCell(cells[from + k + 1], f, s, k)
Placed(f) ==
  /\ included[f] \in [Segments -> Nat]
  /\ \A s \in Segments : included[f][s] % program[f].align[s] = 0
  /\ \A s \in Stored : Stands(segments[s], included[f][s], f, s, program[f].size[s])
  /\ included[f]["BSS"] + program[f].size["BSS"] <= bsslen
PlacesOK == \A f \in Included : Placed(f)

(* The bss of the files lies apart.                                        *)
Precedes(f, g) == included[f]["BSS"] + program[f].size["BSS"] <= included[g]["BSS"]
BssApart == \A f, g \in Included : f # g => Precedes(f, g) \/ Precedes(g, f)

(* Until the segments are laid out, the bss takes what its files may take. *)
BssOK ==
  /\ bsslen \in Nat /\ bsslen < W
  /\ phase \notin Late \cup {"failed"} => bsslen <= BssRoom(program, Included)

(* The segments follow one another, each aligned as the files ask.         *)
LaidOut ==
  /\ DOMAIN origins = Segments \cup {"heap"}
  /\ origins["TEXT"] = 0 /\ origins["RODATA"] = Len(segments["TEXT"])
  /\ origins["DATA"] = origins["RODATA"] + Len(segments["RODATA"])
  /\ origins["BSS"] = origins["DATA"] + Len(segments["DATA"])
  /\ origins["heap"] = u64(origins["BSS"] + bsslen)
  /\ \A f \in Included, s \in Segments : origins[s] % program[f].align[s] = 0
  /\ origins["BSS"] + bsslen < W => (origins["BSS"] + bsslen) % 2 = 0
OriginsOK ==
  \/ phase \notin Late /\ origins = <<>>
  \/ phase \in Late \cup {"failed"} /\ LaidOut

LinkedOK == phase = "linked" => origins["BSS"] + bsslen < W

LayoutOK == SegmentsOK /\ PlacesOK /\ BssApart /\ BssOK /\ OriginsOK /\ LinkedOK

-----------------------------------------------------------------------------
(* Segments that grow, or whose holes are filled, keep the cells.          *)

Refilled(s, t) ==
  /\ Len(s) <= Len(t)
  /\ \A k \in 1 .. Len(s) : t[k] = s[k] \/ \E v : t[k] = [s[k] EXCEPT ![5] = v]

LEMMA CellRefilled ==
  ASSUME NEW c, NEW f, NEW s, NEW k, IsCell(c, f, s, k), NEW v
  PROVE  IsCell([c EXCEPT ![5] = v], f, s, k) /\ [c EXCEPT ![5] = v][5] = v
<1> DEFINE u == c[5]
           d == [c EXCEPT ![5] = v]
<1>1. c = <<"cell", f, s, k, u>>
  BY DEF IsCell
<1> HIDE DEF u
<1>2. d = <<"cell", f, s, k, v>>
  BY <1>1
<1> HIDE DEF d
<1>3. d[5] = v
  BY <1>2
<1>4. QED
  BY <1>2, <1>3 DEF IsCell, d

LEMMA PlacedStays ==
  ASSUME NEW f, f \in DOMAIN program, program \in Programs, Placed(f), SegmentsOK,
         \A s \in Stored : Refilled(segments[s], segments'[s]) /\ Len(segments'[s]) \in Nat,
         bsslen \in Nat, bsslen' \in Nat, bsslen <= bsslen',
         included'[f] = included[f], program' = program
  PROVE  Placed(f)'
<1>1. /\ program[f].size \in [Segments -> Nat] /\ included[f] \in [Segments -> Nat]
      /\ program[f].align \in [Segments -> Nat \ {0}]
  BY ProgramFields DEF IsObjectFile, Placed
<1>2. ASSUME NEW s \in Stored
      PROVE  Stands(segments'[s], included[f][s], f, s, program[f].size[s])
  <2> DEFINE from == included[f][s]
             size == program[f].size[s]
             a == segments[s]
             b == segments'[s]
  <2>1. from \in Nat /\ size \in Nat
    BY <1>1 DEF Segments
  <2>2. /\ from + size <= Len(a) /\ \A k \in 0 .. (size - 1) : IsCell(a[from + k + 1], f, s, k)
    BY DEF Placed, Stands
  <2>3. Len(a) \in Nat /\ Len(b) \in Nat
    BY SequenceParts DEF SegmentsOK
  <2>4. /\ Len(a) <= Len(b)
        /\ \A k \in 1 .. Len(a) : b[k] = a[k] \/ \E v : b[k] = [a[k] EXCEPT ![5] = v]
    BY DEF Refilled
  <2> HIDE DEF from, size, a, b
  <2>6. from + size <= Len(b)
    BY <2>1, <2>2, <2>3, <2>4
  <2>7. ASSUME NEW k \in 0 .. (size - 1) PROVE IsCell(b[from + k + 1], f, s, k)
    <3> DEFINE i == from + k + 1
    <3>1. i \in 1 .. Len(a)
      BY <2>1, <2>2, <2>3
    <3>2. IsCell(a[i], f, s, k)
      BY <2>2
    <3> HIDE DEF i
    <3>3. b[i] = a[i] \/ \E v : b[i] = [a[i] EXCEPT ![5] = v]
      BY <2>4, <3>1
    <3>4. IsCell(b[i], f, s, k)
      <4>1. CASE b[i] = a[i]
        BY <3>2, <4>1
      <4>2. CASE \E v : b[i] = [a[i] EXCEPT ![5] = v]
        <5>1. PICK v : b[i] = [a[i] EXCEPT ![5] = v]
          BY <4>2
        <5>2. IsCell([a[i] EXCEPT ![5] = v], f, s, k)
          BY <3>2, CellRefilled
        <5>3. QED
          BY <5>1, <5>2
      <4>3. QED
        BY <3>3, <4>1, <4>2
    <3>5. QED
      BY <3>4 DEF i
  <2>8. QED
    BY <2>6, <2>7 DEF from, size, b, Stands
<1>3. included[f]["BSS"] + program[f].size["BSS"] <= bsslen'
  <2>1. included[f]["BSS"] \in Nat /\ program[f].size["BSS"] \in Nat
    BY <1>1 DEF Segments
  <2>2. included[f]["BSS"] + program[f].size["BSS"] <= bsslen
    BY DEF Placed
  <2>3. QED
    BY <2>1, <2>2
<1>4. /\ \A s \in Segments : included[f][s] % program[f].align[s] = 0
  BY DEF Placed
<1>5. QED
  BY <1>1, <1>2, <1>3, <1>4 DEF Placed

(* A step that moves nothing.                                              *)
LEMMA LayoutStays ==
  ASSUME LayoutOK, UNCHANGED <<included, segments, bsslen, origins, program>>,
         \/ phase' = phase \/ phase' = "failed"
         \/ phase \notin Late \cup {"failed"} /\ phase' \notin Late \cup {"failed"}
         \/ phase \in Late /\ phase' \in Late,
         phase' = "linked" => phase = "linked" \/ origins["BSS"] + bsslen < W
  PROVE  LayoutOK'
<1>1. SegmentsOK' /\ PlacesOK' /\ BssApart' /\ (LaidOut => LaidOut')
  BY DEF LayoutOK, SegmentsOK, PlacesOK, Placed, Stands, IsCell, IsSequence, BssApart, Precedes,
         LaidOut, Included, u64
<1>2. BssOK'
  <2>1. phase' \notin Late \cup {"failed"} => phase \notin Late \cup {"failed"}
    BY DEF Late
  <2>2. BssRoom(program, Included)' = BssRoom(program, Included)
    BY DEF Included
  <2>3. QED
    BY <2>1, <2>2 DEF LayoutOK, BssOK
<1>3. OriginsOK'
  BY <1>1 DEF LayoutOK, OriginsOK, Late
<1>4. LinkedOK'
  BY DEF LayoutOK, LinkedOK
<1>5. QED
  BY <1>1, <1>2, <1>3, <1>4 DEF LayoutOK

-----------------------------------------------------------------------------
(* A file is appended.                                                     *)

LEMMA CellsParts ==
  ASSUME IInv, ShapeOK, NEW f \in Files, NEW s \in Stored
  PROVE  /\ program[f].size[s] \in Nat
         /\ IsSequence(Cells(f, s)) /\ Len(Cells(f, s)) = program[f].size[s]
         /\ \A k \in 1 .. program[f].size[s] : IsCell(Cells(f, s)[k], f, s, k - 1)
<1> DEFINE n == program[f].size[s]
           c == Cells(f, s)
<1>1. objs[f].size = program[f].size /\ objs[f].size \in [Segments -> Nat]
  BY DEF ShapeOK, SameShape, IsObjectFile
<1>2. n \in Nat
  BY <1>1 DEF Segments
<1>3. c = [k \in 1 .. n |-> <<"cell", f, s, k - 1, 0>>]
  BY <1>1 DEF Cells
<1> HIDE DEF n, c
<1>4. c = [k \in 1 .. n |-> c[k]]
  BY <1>3
<1>5. IsSequence(c) /\ Len(c) = n
  BY <1>2, <1>4, FunctionIsSequence
<1>6. ASSUME NEW k \in 1 .. n PROVE IsCell(c[k], f, s, k - 1)
  <2>1. c[k] = <<"cell", f, s, k - 1, 0>>
    BY <1>3
  <2>2. QED
    BY <2>1 DEF IsCell
<1>7. QED
  BY <1>2, <1>5, <1>6 DEF n, c

LEMMA FileFields ==
  ASSUME IInv, ShapeOK, NEW f \in Files
  PROVE  /\ f \in DOMAIN program
         /\ objs[f].size = program[f].size /\ objs[f].align = program[f].align
         /\ program[f].size \in [Segments -> Nat] /\ program[f].align \in [Segments -> Nat \ {0}]
<1>1. objs[f].size = program[f].size /\ objs[f].align = program[f].align /\ IsObjectFile(objs[f])
  BY DEF ShapeOK, SameShape
<1>2. Files = DOMAIN program
  BY ProgramFields DEF IInv, FilesOK, Files
<1>3. QED
  BY <1>1, <1>2 DEF IsObjectFile

(* A stored segment of the total, and the file's in it.                    *)
LEMMA AppendedSegment ==
  ASSUME IInv, ShapeOK, SegmentsOK, NEW f \in Files, Appended(f), NEW s \in Stored
  PROVE  LET from == Len(Aligned(segments[s], program[f].align[s]))
         IN /\ IsSequence(segments'[s]) /\ Len(segments'[s]) \in Nat
            /\ Refilled(segments[s], segments'[s])
            /\ from \in Nat /\ from % program[f].align[s] = 0
            /\ Stands(segments'[s], from, f, s, program[f].size[s])
<1> DEFINE a == program[f].align[s]
           n == program[f].size[s]
           t == segments[s]
           u == Aligned(t, a)
           c == Cells(f, s)
           v == segments'[s]
           from == Len(u)
<1>1. a \in Nat \ {0} /\ n \in Nat /\ objs[f].align[s] = a
  BY FileFields DEF Segments
<1>2. v = u \o c
  BY <1>1 DEF Appended
<1>3. IsSequence(t)
  BY DEF SegmentsOK
<1>4. /\ IsSequence(c) /\ Len(c) = n
      /\ \A k \in 1 .. n : IsCell(c[k], f, s, k - 1)
  BY CellsParts
<1> HIDE DEF a, t, c, n
<1>6. /\ IsSequence(u) /\ Len(u) >= Len(t) /\ Len(u) \in Nat /\ Len(u) % a = 0
      /\ \A k \in 1 .. Len(t) : u[k] = t[k]
  BY <1>1, <1>3, AlignedParts
<1>7. /\ IsSequence(u \o c) /\ Len(u \o c) = Len(u) + Len(c)
      /\ \A k \in 1 .. Len(u) : (u \o c)[k] = u[k]
      /\ \A k \in 1 .. Len(c) : (u \o c)[Len(u) + k] = c[k]
  <2>1. IsSequence(u) /\ IsSequence(c)
    BY <1>4, <1>6
  <2> HIDE DEF u
  <2>2. QED
    BY <2>1, ConcatParts
<1> HIDE DEF u, v
<1>8. /\ IsSequence(v) /\ Len(v) = from + n
      /\ \A k \in 1 .. from : v[k] = u[k]
      /\ \A k \in 1 .. n : v[from + k] = c[k]
  BY <1>2, <1>4, <1>7, Zenon
<1>9. Len(t) \in Nat
  BY <1>3, SequenceParts
<1> HIDE DEF from
<1>10. Len(v) \in Nat /\ from \in Nat /\ from % a = 0 /\ from >= Len(t)
  BY <1>1, <1>6, <1>8 DEF from
<1>11. Refilled(t, v)
  <2>1. Len(t) <= Len(v)
    BY <1>1, <1>8, <1>9, <1>10
  <2>2. ASSUME NEW k \in 1 .. Len(t) PROVE v[k] = t[k]
    <3>1. k \in 1 .. from
      BY <1>9, <1>10
    <3>2. QED
      BY <1>6, <1>8, <3>1
  <2>3. QED
    BY <2>1, <2>2 DEF Refilled
<1>12. /\ from + n <= Len(v)
       /\ \A k \in 0 .. (n - 1) : IsCell(v[from + k + 1], f, s, k)
  <2>1. from + n <= Len(v)
    BY <1>1, <1>8, <1>10
  <2>2. ASSUME NEW k \in 0 .. (n - 1) PROVE IsCell(v[from + k + 1], f, s, k)
    <3>1. k + 1 \in 1 .. n /\ from + (k + 1) = from + k + 1 /\ (k + 1) - 1 = k
      BY <1>1, <1>10
    <3>2. IsCell(c[k + 1], f, s, k)
      BY <1>4, <3>1
    <3>3. v[from + (k + 1)] = c[k + 1]
      BY <1>8, <3>1
    <3>4. QED
      BY <3>1, <3>2, <3>3
  <2>3. QED
    BY <2>1, <2>2
<1>13. QED
  BY <1>8, <1>10, <1>11, <1>12 DEF a, t, u, v, n, from, Stands

LEMMA SmallIsSame ==
  ASSUME NEW x \in Nat, x < W
  PROVE  u64(x) = x
<1>1. W \in Nat \ {0}
  BY LinkerAssumption
<1>2. x \in 0 .. (W - 1) /\ x + 0 * W = x
  BY <1>1
<1>3. (x + 0 * W) % W = x
  BY <1>1, <1>2, DivisionOfSum
<1>4. QED
  BY <1>2, <1>3 DEF u64

(* Its bss begins after all others'.                                       *)
LEMMA AppendedBss ==
  ASSUME BssFits, IInv, ShapeOK, BssOK, NEW f \in Files, f \notin Included, Appended(f),
         phase = "merging"
  PROVE  LET from == included'[f]["BSS"]
         IN /\ from \in Nat /\ from % program[f].align["BSS"] = 0 /\ bsslen <= from
            /\ bsslen' = from + program[f].size["BSS"] /\ bsslen' \in Nat /\ bsslen' < W
            /\ bsslen' <= BssRoom(program, Included \cup {f})
<1> DEFINE a == program[f].align["BSS"]
           n == program[f].size["BSS"]
           off == AlignOffset(bsslen, a)
           b == bsslen
           w == BssWeight(program, f)
           room == BssRoom(program, Included)
           more == BssRoom(program, Included \cup {f})
           from == included'[f]["BSS"]
<1>1. /\ program \in Programs /\ f \in DOMAIN program /\ b \in Nat /\ b <= room
      /\ a \in Nat \ {0} /\ n \in Nat /\ objs[f].align["BSS"] = a /\ objs[f].size["BSS"] = n
  BY FileFields DEF IInv, FilesOK, Segments, BssOK, Late
<1>2. W \in Nat \ {0} /\ w = n + a - 1
  BY LinkerAssumption DEF BssWeight
<1>3. /\ room \in Nat /\ more = room + w /\ more \in Nat /\ more < W - 1
  <2> HIDE DEF w
  <2>1. QED
    BY <1>1, BssRoomGrows, BssRoomBound DEF w
<1>4. off \in 0 .. (a - 1) /\ (b + off) % a = 0
  BY <1>1, AlignedUp
<1>5. included'[f]["BSS"] = u64(b + off) /\ bsslen' = u64(u64(b + off) + n)
  <2>1. f \in DOMAIN included \cup {f} /\ f \notin DOMAIN included /\ "BSS" \in Segments
    BY DEF Included, Segments
  <2>2. QED
    BY <1>1, <2>1 DEF Appended, Entered
<1> DEFINE x == b + off
<1> HIDE DEF a, n, off, b, w, room, more
<1>6. /\ x \in Nat /\ x < W /\ b <= x /\ x + n \in Nat /\ x + n < W /\ x + n <= more
  BY <1>1, <1>2, <1>3, <1>4
<1>7. x % a = 0 /\ from = u64(x) /\ bsslen' = u64(u64(x) + n)
  BY <1>4, <1>5
<1> HIDE DEF x, from
<1>8. from = x
  BY <1>6, <1>7, SmallIsSame
<1>9. bsslen' = x + n
  <2>1. u64(x) = x
    BY <1>6, SmallIsSame
  <2> DEFINE y == x + n
  <2>2. y \in Nat /\ y < W
    BY <1>6
  <2> HIDE DEF y
  <2>3. u64(y) = y
    BY <2>2, SmallIsSame
  <2>4. QED
    BY <1>7, <2>1, <2>3 DEF y
<1>10. QED
  BY <1>6, <1>7, <1>8, <1>9 DEF a, n, b, more, from

LEMMA IncludedLayout ==
  ASSUME BssFits, IInv, ShapeOK, LayoutOK, NEW f \in Files, f \notin Included, Appended(f),
         phase = "merging", Included \subseteq Files, UNCHANGED <<phase, origins, program>>
  PROVE  LayoutOK' /\ Included' = Included \cup {f}
<1>1. /\ Included' = Included \cup {f} /\ \A g \in Included : included'[g] = included[g]
      /\ included'[f] = [s \in Segments |->
           IF s = "BSS" THEN u64(bsslen + AlignOffset(bsslen, objs[f].align["BSS"]))
           ELSE Len(Aligned(segments[s], objs[f].align[s]))]
      /\ DOMAIN segments' = Stored
  <2> DEFINE line == [s \in Segments |->
               IF s = "BSS" THEN u64(bsslen + AlignOffset(bsslen, objs[f].align["BSS"]))
               ELSE Len(Aligned(segments[s], objs[f].align[s]))]
  <2>1. DOMAIN segments' = Stored
    BY DEF Appended
  <2> DEFINE start == [s \in Stored |-> Aligned(segments[s], objs[f].align[s])]
             bss == u64(bsslen + AlignOffset(bsslen, objs[f].align["BSS"]))
             raw == [s \in Segments |-> IF s = "BSS" THEN bss ELSE Len(start[s])]
  <2>1a. included' = Entered(included, f, raw)
    BY DEF Appended
  <2>1b. raw = line
    <3> HIDE DEF bss
    <3>1. \A s \in Segments : s # "BSS" => start[s] = Aligned(segments[s], objs[f].align[s])
      BY DEF Segments
    <3> HIDE DEF start
    <3>2. \A s \in Segments : raw[s] = line[s]
      BY <3>1 DEF bss
    <3>3. QED
      BY <3>2
  <2>2. included' = Entered(included, f, line)
    <3> HIDE DEF raw, line
    <3>1. QED
      BY <2>1a, <2>1b
  <2> HIDE DEF line
  <2>3. /\ DOMAIN included' = DOMAIN included \cup {f} /\ f \notin DOMAIN included
        /\ \A g \in DOMAIN included' : included'[g] = IF g \in DOMAIN included THEN included[g] ELSE line
    BY <2>2 DEF Entered, Included
  <2>4. /\ Included' = Included \cup {f} /\ \A g \in Included : included'[g] = included[g]
        /\ included'[f] = line
    BY <2>3 DEF Included
  <2>5. QED
    BY <2>1, <2>4 DEF line
<1>2. program \in Programs /\ f \in DOMAIN program /\ Included \subseteq DOMAIN program
  BY ProgramFields DEF IInv, FilesOK, Files
<1>3. SegmentsOK
  BY DEF LayoutOK
<1>4. \A s \in Stored : /\ IsSequence(segments'[s]) /\ Len(segments'[s]) \in Nat
                        /\ Refilled(segments[s], segments'[s])
  BY <1>3, AppendedSegment
<1>5. SegmentsOK'
  BY <1>1, <1>4 DEF SegmentsOK, IsSequence
<1> DEFINE from == included'[f]["BSS"]
<1>6. /\ from \in Nat /\ from % program[f].align["BSS"] = 0 /\ bsslen <= from
      /\ bsslen' = from + program[f].size["BSS"] /\ bsslen' \in Nat /\ bsslen' < W
      /\ bsslen' <= BssRoom(program, Included \cup {f})
  BY AppendedBss DEF LayoutOK
<1>7. bsslen \in Nat /\ bsslen <= bsslen' /\ program[f].size["BSS"] \in Nat
  <2>1. bsslen \in Nat /\ program[f].size["BSS"] \in Nat
    BY FileFields DEF LayoutOK, BssOK, Segments
  <2> HIDE DEF from
  <2>2. QED
    BY <1>6, <2>1
<1>8. ASSUME NEW g \in Included PROVE Placed(g)'
  BY <1>1, <1>2, <1>4, <1>6, <1>7, PlacedStays DEF LayoutOK, PlacesOK
<1>9. Placed(f)'
  <2>1. program' = program
    OBVIOUS
  <2>2. ASSUME NEW s \in Stored
        PROVE  /\ included'[f][s] = Len(Aligned(segments[s], program[f].align[s]))
               /\ included'[f][s] \in Nat /\ included'[f][s] % program[f].align[s] = 0
               /\ Stands(segments'[s], included'[f][s], f, s, program[f].size[s])
    <3>1. included'[f][s] = Len(Aligned(segments[s], program[f].align[s]))
      BY <1>1, FileFields DEF Stored, Segments
    <3>2. QED
      BY <1>3, <3>1, AppendedSegment
  <2>3. Segments = Stored \cup {"BSS"}
    BY DEF Segments
  <2>4. included'[f] \in [Segments -> Nat]
    <3>1. \A s \in Segments : included'[f][s] \in Nat
      BY <1>6, <2>2, <2>3
    <3>2. DOMAIN included'[f] = Segments /\ included'[f] = [s \in Segments |-> included'[f][s]]
      BY <1>1
    <3>3. QED
      BY <3>1, <3>2
  <2>5. \A s \in Segments : included'[f][s] % program[f].align[s] = 0
    BY <1>6, <2>2, <2>3
  <2>6. \A s \in Stored : Stands(segments'[s], included'[f][s], f, s, program[f].size[s])
    BY <2>2
  <2>7. included'[f]["BSS"] + program[f].size["BSS"] <= bsslen'
    <3> DEFINE x == included'[f]["BSS"] + program[f].size["BSS"]
    <3>1. x = bsslen' /\ bsslen' \in Nat
      BY <1>6
    <3> HIDE DEF x
    <3>2. x <= bsslen'
      BY <3>1
    <3>3. QED
      BY <3>2 DEF x
  <2>8. QED
    BY <2>1, <2>4, <2>5, <2>6, <2>7 DEF Placed
<1>10. PlacesOK'
  <2>1. \A g \in Included' : Placed(g)'
    BY <1>1, <1>8, <1>9
  <2>2. QED
    BY <2>1 DEF PlacesOK
<1>11. BssApart'
  <2>1. ASSUME NEW g \in Included, NEW h \in Included, g # h PROVE Precedes(g, h)' \/ Precedes(h, g)'
    <3>1. Precedes(g, h) \/ Precedes(h, g)
      BY <2>1 DEF LayoutOK, BssApart
    <3>2. QED
      BY <1>1, <3>1 DEF Precedes
  <2>2. ASSUME NEW g \in Included PROVE Precedes(g, f)'
    <3>1. /\ included[g]["BSS"] + program[g].size["BSS"] <= bsslen
          /\ included[g]["BSS"] \in Nat
      BY DEF LayoutOK, PlacesOK, Placed, Segments
    <3>2. program[g].size["BSS"] \in Nat
      BY <1>2, ProgramFields DEF IsObjectFile, Segments
    <3> HIDE DEF from
    <3>3. included[g]["BSS"] + program[g].size["BSS"] <= from
      BY <1>6, <1>7, <3>1, <3>2
    <3>4. QED
      BY <1>1, <3>3 DEF Precedes, from
  <2>3. QED
    BY <1>1, <2>1, <2>2 DEF BssApart
<1>12. BssOK'
  BY <1>1, <1>6 DEF BssOK
<1>13. OriginsOK' /\ LinkedOK'
  BY DEF LayoutOK, OriginsOK, LinkedOK, Late
<1>14. QED
  BY <1>1, <1>5, <1>10, <1>11, <1>12, <1>13 DEF LayoutOK

-----------------------------------------------------------------------------
(* The literals are placed.                                                *)

LEMMA LiteralCellsSequence ==
  ASSUME IInv
  PROVE  IsSequence(LiteralCells)
<1> DEFINE tops == total_literals.top_level_literals
           Tagged == {"byte"} \X Bytes
           cells(k) == [n \in DOMAIN tops[k] |-> <<"byte", tops[k][n]>>]
           all == [k \in DOMAIN tops |-> cells(k)]
<1>1. /\ tops \in Seq(Seq(Bytes)) /\ Len(tops) \in Nat /\ DOMAIN tops = 1 .. Len(tops)
      /\ \A k \in DOMAIN tops : tops[k] \in Seq(Bytes)
  BY CollectionParts DEF IInv, LiteralsOK, Apart
<1>2. LiteralCells = FlattenSeq(all)
  BY DEF LiteralCells
<1> HIDE DEF tops
<1>3. ASSUME NEW k \in DOMAIN tops PROVE cells(k) \in Seq(Tagged)
  <2> DEFINE t == tops[k]
             n == Len(t)
             c == [i \in 1 .. n |-> <<"byte", t[i]>>]
  <2>1. t \in Seq(Bytes)
    BY <1>1
  <2> HIDE DEF t
  <2>2. n \in Nat /\ DOMAIN t = 1 .. n /\ \A i \in 1 .. n : t[i] \in Bytes
    BY <2>1
  <2>3. c \in [1 .. n -> Tagged]
    BY <2>2
  <2>4. cells(k) = c
    BY <2>2 DEF t
  <2> HIDE DEF c, n, Tagged, cells
  <2>5. c \in Seq(Tagged)
    BY <2>2, <2>3
  <2>6. QED
    BY <2>4, <2>5
<1> HIDE DEF cells, Tagged
<1>4. all \in Seq(Seq(Tagged))
  <2> DEFINE m == Len(tops)
  <2>1. m \in Nat /\ all = [k \in 1 .. m |-> cells(k)] /\ \A k \in 1 .. m : cells(k) \in Seq(Tagged)
    BY <1>1, <1>3
  <2> HIDE DEF m, all
  <2>2. all \in [1 .. m -> Seq(Tagged)]
    BY <2>1
  <2>3. QED
    BY <2>1, <2>2
<1> HIDE DEF all
<1>5. QED
  BY <1>2, <1>4, FlattenIsSequence

LEMMA LiteralsLayout ==
  ASSUME IInv, LayoutOK, Included \subseteq Files, PlaceLiterals
  PROVE  LayoutOK'
<1> DEFINE r == segments["RODATA"]
           c == LiteralCells
<1>1. /\ phase = "merging" /\ phase' = "placed" /\ segments' = [segments EXCEPT !["RODATA"] = r \o c]
      /\ UNCHANGED <<included, bsslen, origins, program>>
  BY DEF PlaceLiterals, Goes, history
<1>2. SegmentsOK /\ DOMAIN segments = Stored /\ \A s \in Stored : IsSequence(segments[s])
  BY DEF LayoutOK, SegmentsOK
<1>3. IsSequence(r) /\ IsSequence(c)
  BY <1>2, LiteralCellsSequence DEF Stored
<1>4. /\ IsSequence(r \o c) /\ Len(r \o c) = Len(r) + Len(c) /\ Len(r) \in Nat /\ Len(c) \in Nat
      /\ \A k \in 1 .. Len(r) : (r \o c)[k] = r[k]
  <2> HIDE DEF r, c
  <2>1. QED
    BY <1>3, ConcatParts, SequenceParts
<1>5. Refilled(r, r \o c)
  BY <1>4 DEF Refilled
<1>6. DOMAIN segments' = Stored /\ \A s \in Stored : segments'[s] = IF s = "RODATA" THEN r \o c ELSE segments[s]
  BY <1>1, <1>2
<1>7. ASSUME NEW s \in Stored
      PROVE  /\ IsSequence(segments'[s]) /\ Refilled(segments[s], segments'[s])
             /\ Len(segments'[s]) \in Nat
  <2>1. CASE s = "RODATA"
    <3>1. segments'[s] = r \o c /\ segments[s] = r
      BY <1>6, <2>1
    <3> HIDE DEF r, c
    <3>2. QED
      BY <1>4, <1>5, <3>1
  <2>2. CASE s # "RODATA"
    <3>1. segments'[s] = segments[s] /\ IsSequence(segments[s])
      BY <1>2, <1>6, <2>2
    <3>2. Len(segments[s]) \in Nat
      BY <3>1, SequenceParts
    <3>3. QED
      BY <3>1, <3>2 DEF Refilled
  <2>3. QED
    BY <2>1, <2>2
<1>8. SegmentsOK'
  BY <1>6, <1>7 DEF SegmentsOK, IsSequence
<1>9. ASSUME NEW f \in Included PROVE Placed(f)'
  <2>1. f \in DOMAIN program /\ program \in Programs
    BY ProgramFields DEF IInv, FilesOK, Files
  <2>2. Placed(f) /\ bsslen \in Nat
    BY DEF LayoutOK, PlacesOK, BssOK
  <2>3. bsslen' \in Nat /\ bsslen <= bsslen' /\ included'[f] = included[f] /\ program' = program
    BY <1>1, <2>2
  <2>4. QED
    BY <1>2, <1>7, <2>1, <2>2, <2>3, PlacedStays
<1>10. PlacesOK'
  BY <1>1, <1>9 DEF PlacesOK, Included
<1>11. BssApart' /\ BssOK'
  BY <1>1 DEF LayoutOK, BssApart, Precedes, BssOK, Included, Late
<1>12. OriginsOK' /\ LinkedOK'
  BY <1>1 DEF LayoutOK, OriginsOK, LinkedOK, Late
<1>13. QED
  BY <1>8, <1>10, <1>11, <1>12 DEF LayoutOK

-----------------------------------------------------------------------------
(* The segments are laid out.                                              *)

LEMMA SomeBound ==
  ASSUME IInv, ShapeOK, NEW s \in Segments
  PROVE  \E b \in Nat : \A f \in Files : program[f].align[s] <= b
<1> DEFINE n == Len(program)
           T == {m \in 0 .. n : \E b \in Nat : \A f \in 1 .. m : program[f].align[s] <= b}
<1>1. n \in Nat /\ Files = 1 .. n /\ \A f \in 1 .. n : program[f].align[s] \in Nat
  BY ProgramFields DEF IInv, FilesOK, Files, IsObjectFile
<1> HIDE DEF n
<1>2. 0 \in T
  BY <1>1
<1>3. ASSUME NEW m \in 0 .. (n - 1), m \in T PROVE m + 1 \in T
  <2>1. PICK b \in Nat : \A f \in 1 .. m : program[f].align[s] <= b
    BY <1>3
  <2> DEFINE a == program[m + 1].align[s]
  <2>2. m + 1 \in 1 .. n /\ a \in Nat
    BY <1>1
  <2>3. b + a \in Nat /\ a <= b + a
    BY <2>2
  <2>4. ASSUME NEW f \in 1 .. (m + 1) PROVE program[f].align[s] <= b + a
    <3>1. CASE f = m + 1
      BY <2>3, <3>1
    <3>2. CASE f \in 1 .. m
      <4> DEFINE x == program[f].align[s]
      <4>1. x <= b /\ x \in Nat
        BY <1>1, <2>1, <3>2
      <4> HIDE DEF x, a
      <4>2. x <= b + a
        BY <2>2, <4>1
      <4>3. QED
        BY <4>2 DEF x
    <3>3. QED
      BY <3>1, <3>2
  <2> HIDE DEF a
  <2>5. QED
    BY <2>2, <2>3, <2>4
<1> HIDE DEF T
<1>4. 0 .. n \subseteq T
  BY <1>1, <1>2, <1>3, InductTo
<1>5. n \in T
  BY <1>1, <1>4
<1>6. QED
  BY <1>1, <1>5 DEF T

(* The alignment of a segment is one that every file asks for or divides.  *)
LEMMA AlignmentOfAll ==
  ASSUME IInv, ShapeOK, Included \subseteq Files, NEW s \in Segments
  PROVE  /\ Alignment(s) \in Nat \ {0}
         /\ \A f \in Included : \A x \in Nat :
              x % Alignment(s) = 0 => x % program[f].align[s] = 0
<1> DEFINE T == {1} \cup {objs[f].align[s] : f \in Included}
           M == Alignment(s)
<1>1. PICK b \in Nat : \A f \in Files : program[f].align[s] <= b
  BY SomeBound
<1>2. \A f \in Included : /\ program[f].align[s] \in Nat \ {0} /\ objs[f].align[s] = program[f].align[s]
                          /\ program[f].align[s] <= b /\ f \in DOMAIN program
  BY <1>1, FileFields
<1>3. \A x \in T : x \in 0 .. (b + 1)
  BY <1>2
<1>4. M = Max(T) /\ T # {} /\ T \subseteq 0 .. (b + 1) /\ b + 1 \in Nat
  <2>1. M = Max(T)
    BY Zenon DEF Alignment
  <2>2. 1 \in T
    OBVIOUS
  <2> HIDE DEF T, M
  <2>3. QED
    BY <1>3, <2>1, <2>2
<1>5. 1 \in T /\ \A f \in Included : program[f].align[s] \in T
  BY <1>2
<1>6. \A x \in T : x = 1 \/ \E g \in Included : x = program[g].align[s]
  BY <1>2
<1> HIDE DEF T, M
<1>7. M \in T /\ \A x \in T : M >= x
  BY <1>4, MaxOf
<1>8. M \in Nat \ {0}
  BY <1>4, <1>5, <1>7
<1>9. ASSUME NEW f \in Included, NEW x \in Nat, x % M = 0 PROVE x % program[f].align[s] = 0
  <2> DEFINE a == program[f].align[s]
  <2>1. a \in Nat \ {0} /\ a <= M
    BY <1>2, <1>4, <1>5, <1>7
  <2>2. M % a = 0 \/ a % M = 0
    <3>1. CASE M = 1
      <4>1. a % 1 = 0
        BY <2>1
      <4> HIDE DEF a
      <4>2. QED
        BY <3>1, <4>1
    <3>2. CASE \E g \in Included : M = program[g].align[s]
      BY <1>2, <3>2, AlignmentAssumption DEF IInv, FilesOK
    <3>3. QED
      BY <1>6, <1>7, <3>1, <3>2
  <2> HIDE DEF a
  <2>3. CASE M % a = 0
    <3>1. x \in Int
      OBVIOUS
    <3>2. QED
      BY <1>8, <1>9, <2>1, <2>3, <3>1, MultipleOfMultiple DEF a
  <2>4. CASE a % M = 0
    <3>1. a = M
      <4>1. CASE a < M
        <5>1. (a + 0 * M) % M = a
          <6>1. a \in 0 .. (M - 1)
            BY <1>8, <2>1, <4>1
          <6>2. QED
            BY <1>8, <6>1, DivisionOfSum
        <5>2. a + 0 * M = a
          BY <1>8, <2>1
        <5>3. QED
          BY <2>1, <2>4, <5>1, <5>2
      <4>2. QED
        BY <1>8, <2>1, <4>1
    <3>2. QED
      BY <1>9, <3>1 DEF a
  <2>5. QED
    BY <2>2, <2>3, <2>4
<1>10. QED
  BY <1>8, <1>9 DEF M

LEMMA PaddedRefills ==
  ASSUME NEW s, IsSequence(s), NEW count \in Nat
  PROVE  /\ IsSequence(Padded(s, count)) /\ Refilled(s, Padded(s, count))
         /\ Len(s) \in Nat /\ Len(Padded(s, count)) = Len(s) + count
<1> DEFINE t == Padded(s, count)
<1>1. /\ IsSequence(t) /\ Len(t) = Len(s) + count /\ \A k \in 1 .. Len(s) : t[k] = s[k]
  BY PaddedParts
<1>2. Len(s) \in Nat
  BY SequenceParts
<1> HIDE DEF t
<1>3. Refilled(s, t)
  BY <1>1, <1>2 DEF Refilled
<1>4. QED
  BY <1>1, <1>2, <1>3 DEF t

LEMMA OriginsLayout ==
  ASSUME BssFits, IInv, ShapeOK, LayoutOK, Included \subseteq Files, DefineOrigins
  PROVE  LayoutOK'
<1> DEFINE T == segments["TEXT"]
           R == segments["RODATA"]
           D == segments["DATA"]
           n1 == AlignOffset(Len(T), Alignment("RODATA"))
           t == Padded(T, n1)
           rodata == Len(t)
           n2 == AlignOffset(rodata + Len(R), Alignment("DATA"))
           r == Padded(R, n2)
           data == rodata + Len(r)
           n3 == AlignOffset(data + Len(D), Alignment("BSS"))
           d == Padded(D, n3)
           bss == data + Len(d)
           n4 == AlignOffset(u64(bss + bsslen), 2)
           bytes == u64(bsslen + n4)
<1>1. /\ phase = "placed" /\ phase' = "laid out" /\ segments' = [TEXT |-> t, RODATA |-> r, DATA |-> d]
      /\ bsslen' = bytes
      /\ origins' = [TEXT |-> 0, RODATA |-> rodata, DATA |-> data, BSS |-> bss,
                     heap |-> u64(bss + bytes)]
      /\ UNCHANGED <<included, program>>
  BY DEF DefineOrigins, Goes, history, Aligned, Following
<1>2. /\ IsSequence(T) /\ IsSequence(R) /\ IsSequence(D)
      /\ Len(T) \in Nat /\ Len(R) \in Nat /\ Len(D) \in Nat
  BY SequenceParts DEF LayoutOK, SegmentsOK, Stored
<1>3. /\ Alignment("RODATA") \in Nat \ {0} /\ Alignment("DATA") \in Nat \ {0}
      /\ Alignment("BSS") \in Nat \ {0}
  BY AlignmentOfAll DEF Segments, Stored
<1>4. /\ n1 \in Nat /\ (Len(T) + n1) % Alignment("RODATA") = 0
  <2> DEFINE x == Len(T)
             a == Alignment("RODATA")
  <2>1. x \in Nat /\ a \in Nat \ {0}
    BY <1>2, <1>3
  <2>2. n1 = AlignOffset(x, a)
    OBVIOUS
  <2> HIDE DEF x, a, n1
  <2>3. AlignOffset(x, a) \in 0 .. (a - 1) /\ (x + AlignOffset(x, a)) % a = 0
    BY <2>1, AlignedUp
  <2>4. n1 \in Nat /\ (x + n1) % a = 0
    BY <2>1, <2>2, <2>3
  <2>5. QED
    BY <2>4 DEF x, a
<1>5. IsSequence(t) /\ Refilled(T, t) /\ rodata = Len(T) + n1
  <2> HIDE DEF T, n1
  <2>1. QED
    BY <1>2, <1>4, PaddedRefills
<1>6. rodata \in Nat /\ rodata % Alignment("RODATA") = 0
  <2> HIDE DEF n1, T, t, rodata
  <2>1. QED
    BY <1>2, <1>4, <1>5
<1> HIDE DEF t, rodata, n1
<1>7. n2 \in Nat /\ ((rodata + Len(R)) + n2) % Alignment("DATA") = 0
  <2> DEFINE x == rodata + Len(R)
             a == Alignment("DATA")
  <2>1. x \in Nat /\ a \in Nat \ {0}
    BY <1>2, <1>3, <1>6
  <2>2. n2 = AlignOffset(x, a)
    OBVIOUS
  <2> HIDE DEF x, a, n2
  <2>3. AlignOffset(x, a) \in 0 .. (a - 1) /\ (x + AlignOffset(x, a)) % a = 0
    BY <2>1, AlignedUp
  <2>4. n2 \in Nat /\ (x + n2) % a = 0
    BY <2>1, <2>2, <2>3
  <2>5. QED
    BY <2>4 DEF x, a
<1>8. IsSequence(r) /\ Refilled(R, r) /\ Len(r) = Len(R) + n2
  <2> HIDE DEF R, n2
  <2>1. QED
    BY <1>2, <1>7, PaddedRefills
<1>9. data \in Nat /\ data % Alignment("DATA") = 0 /\ Len(r) \in Nat
  <2> DEFINE x == (rodata + Len(R)) + n2
  <2>1. data = x
    <3> HIDE DEF n2, r, R
    <3>1. QED
      BY <1>2, <1>6, <1>7, <1>8 DEF R
  <2>2. x \in Nat /\ x % Alignment("DATA") = 0
    BY <1>2, <1>6, <1>7
  <2>3. Len(r) \in Nat
    BY <1>8, SequenceParts
  <2> HIDE DEF x, data
  <2>4. QED
    BY <2>1, <2>2, <2>3
<1> HIDE DEF r, n2, data
<1>10. n3 \in Nat /\ ((data + Len(D)) + n3) % Alignment("BSS") = 0
  <2> DEFINE x == data + Len(D)
             a == Alignment("BSS")
  <2>1. x \in Nat /\ a \in Nat \ {0}
    BY <1>2, <1>3, <1>9
  <2>2. n3 = AlignOffset(x, a)
    OBVIOUS
  <2> HIDE DEF x, a, n3
  <2>3. AlignOffset(x, a) \in 0 .. (a - 1) /\ (x + AlignOffset(x, a)) % a = 0
    BY <2>1, AlignedUp
  <2>4. n3 \in Nat /\ (x + n3) % a = 0
    BY <2>1, <2>2, <2>3
  <2>5. QED
    BY <2>4 DEF x, a
<1>11. IsSequence(d) /\ Refilled(D, d) /\ Len(d) = Len(D) + n3
  <2> HIDE DEF D, n3
  <2>1. QED
    BY <1>2, <1>10, PaddedRefills
<1>12. bss \in Nat /\ bss % Alignment("BSS") = 0 /\ Len(d) \in Nat
  <2> DEFINE x == (data + Len(D)) + n3
  <2>1. bss = x
    <3> HIDE DEF n3, d, D
    <3>1. QED
      BY <1>2, <1>9, <1>10, <1>11 DEF D
  <2>2. x \in Nat /\ x % Alignment("BSS") = 0
    BY <1>2, <1>9, <1>10
  <2>3. Len(d) \in Nat
    BY <1>11, SequenceParts
  <2> HIDE DEF x, bss
  <2>4. QED
    BY <2>1, <2>2, <2>3
<1>13. /\ bsslen \in Nat /\ bsslen < W - 1 /\ W \in Nat \ {0}
  <2>1. /\ bsslen \in Nat /\ bsslen <= BssRoom(program, Included) /\ program \in Programs
    BY <1>1 DEF LayoutOK, BssOK, IInv, FilesOK, Late
  <2>2. BssRoom(program, Included) \in Nat /\ BssRoom(program, Included) < W - 1
    BY <2>1, BssRoomBound
  <2>3. W \in Nat \ {0}
    BY LinkerAssumption
  <2>4. QED
    BY <2>1, <2>2, <2>3
<1> DEFINE y == u64(bss + bsslen)
<1> HIDE DEF d, n3, bss, T, R, D
<1>14. y \in Nat
  BY <1>12, <1>13 DEF u64
<1>15. n4 \in 0 .. 1 /\ (y + n4) % 2 = 0
  <2> DEFINE a == 2
  <2>1. n4 = AlignOffset(y, a) /\ a \in Nat \ {0}
    OBVIOUS
  <2> HIDE DEF y, n4, a
  <2>2. AlignOffset(y, a) \in 0 .. (a - 1) /\ (y + AlignOffset(y, a)) % a = 0
    BY <1>14, <2>1, AlignedUp
  <2>3. n4 \in 0 .. (a - 1) /\ (y + n4) % a = 0
    BY <2>1, <2>2
  <2>4. QED
    BY <2>3, <2>1 DEF a
<1> HIDE DEF n4
<1>16. bytes = bsslen + n4 /\ bytes \in Nat /\ bytes < W /\ bsslen <= bytes
  <2> DEFINE z == bsslen + n4
  <2>1. z \in Nat /\ z < W /\ bsslen <= z
    BY <1>13, <1>15
  <2>2. bytes = u64(z)
    OBVIOUS
  <2> HIDE DEF z, bytes
  <2>3. bytes = z
    BY <2>1, <2>2, SmallIsSame
  <2>4. QED
    BY <2>1, <2>3 DEF z
<1> HIDE DEF bytes
<1>17. bss + bytes < W => (bss + bytes) % 2 = 0
  <2> SUFFICES ASSUME bss + bytes < W PROVE (bss + bytes) % 2 = 0
    OBVIOUS
  <2> DEFINE x == bss + bsslen
  <2>1. x \in Nat /\ x < W
    BY <1>12, <1>13, <1>16
  <2>2. y = u64(x)
    OBVIOUS
  <2> HIDE DEF x
  <2>3. y = x
    BY <2>1, <2>2, SmallIsSame
  <2>4. bss + bytes = y + n4
    BY <1>12, <1>13, <1>15, <1>16, <2>3 DEF x
  <2>5. QED
    BY <1>15, <2>4
<1> HIDE DEF y
<1>18. /\ segments'["TEXT"] = t /\ segments'["RODATA"] = r /\ segments'["DATA"] = d
       /\ DOMAIN segments' = Stored
  BY <1>1 DEF Stored
<1>19. /\ Refilled(segments["TEXT"], t) /\ Refilled(segments["RODATA"], r)
       /\ Refilled(segments["DATA"], d)
       /\ Len(t) \in Nat /\ Len(r) \in Nat /\ Len(d) \in Nat
  BY <1>5, <1>6, <1>8, <1>9, <1>11, <1>12 DEF T, R, D, rodata
<1>20. \A s \in Stored : /\ IsSequence(segments'[s]) /\ Refilled(segments[s], segments'[s])
                         /\ Len(segments'[s]) \in Nat
  BY <1>5, <1>8, <1>11, <1>18, <1>19 DEF Stored
<1>21. SegmentsOK'
  BY <1>18, <1>20 DEF SegmentsOK, IsSequence
<1>22. PlacesOK'
  <2>1. ASSUME NEW f \in Included PROVE Placed(f)'
    <3>1. f \in DOMAIN program /\ program \in Programs
      BY ProgramFields DEF IInv, FilesOK, Files
    <3>2. Placed(f) /\ SegmentsOK
      BY DEF LayoutOK, PlacesOK
    <3>3. bsslen' \in Nat /\ bsslen <= bsslen' /\ included'[f] = included[f] /\ program' = program
      BY <1>1, <1>16
    <3>4. QED
      BY <1>13, <1>20, <3>1, <3>2, <3>3, PlacedStays
  <2>2. QED
    BY <1>1, <2>1 DEF PlacesOK, Included
<1>23. BssApart' /\ BssOK'
  BY <1>1, <1>16 DEF LayoutOK, BssApart, Precedes, BssOK, Included, Late
<1>24. LaidOut'
  <2>1. /\ DOMAIN origins' = Segments \cup {"heap"}
        /\ origins'["TEXT"] = 0 /\ origins'["RODATA"] = rodata /\ origins'["DATA"] = data
        /\ origins'["BSS"] = bss /\ origins'["heap"] = u64(bss + bytes)
    BY <1>1 DEF Segments, Stored
  <2>2. rodata = Len(t) /\ data = rodata + Len(r) /\ bss = data + Len(d)
    BY DEF rodata, data, bss
  <2>3. ASSUME NEW f \in Included, NEW s \in Segments
        PROVE  origins'[s] % program[f].align[s] = 0
    <3>1. CASE s = "TEXT"
      <4> DEFINE a == program[f].align["TEXT"]
      <4>1. a \in Nat \ {0}
        BY FileFields DEF Segments, Stored
      <4> HIDE DEF a
      <4>2. 0 % a = 0
        <5>1. 0 \in 0 .. (a - 1) /\ 0 + 0 * a = 0
          BY <4>1
        <5>2. QED
          BY <4>1, <5>1, DivisionOfSum
      <4>3. QED
        BY <2>1, <3>1, <4>2 DEF a
    <3>2. CASE s # "TEXT"
      <4>1. origins'[s] \in Nat /\ origins'[s] % Alignment(s) = 0
        BY <1>6, <1>9, <1>12, <2>1, <3>2 DEF Segments, Stored
      <4>2. QED
        BY <4>1, AlignmentOfAll
    <3>3. QED
      BY <3>1, <3>2
  <2>4. QED
    BY <1>1, <1>17, <1>18, <2>1, <2>2, <2>3 DEF LaidOut, Included, u64
<1>25. OriginsOK' /\ LinkedOK'
  BY <1>1, <1>24 DEF OriginsOK, LinkedOK, Late
<1>26. QED
  BY <1>21, <1>22, <1>23, <1>25 DEF LayoutOK

-----------------------------------------------------------------------------
(* Holes are filled.                                                       *)

LEMMA FilledSegment ==
  ASSUME SegmentsOK, NEW s \in Stored, NEW t, t = [k \in DOMAIN segments[s] |-> Filled(s, k)]
  PROVE  /\ IsSequence(t) /\ Refilled(segments[s], t) /\ Len(t) = Len(segments[s])
         /\ Len(t) \in Nat /\ DOMAIN segments[s] = 1 .. Len(t)
<1> DEFINE a == segments[s]
           n == Len(a)
<1>1. n \in Nat /\ DOMAIN a = 1 .. n
  BY SequenceParts DEF SegmentsOK
<1>2. t = [k \in 1 .. n |-> Filled(s, k)]
  BY <1>1
<1>3. t = [k \in 1 .. n |-> t[k]] /\ \A k \in 1 .. n : t[k] = Filled(s, k)
  BY <1>2
<1>4. IsSequence(t) /\ Len(t) = n
  <2> HIDE DEF n
  <2>1. QED
    BY <1>1, <1>3, FunctionIsSequence
<1>5. \A k \in 1 .. n : Filled(s, k) = a[k] \/ \E v : Filled(s, k) = [a[k] EXCEPT ![5] = v]
  BY DEF Filled
<1>6. Refilled(a, t)
  <2> HIDE DEF a
  <2>1. ASSUME NEW k \in 1 .. n PROVE t[k] = a[k] \/ \E v : t[k] = [a[k] EXCEPT ![5] = v]
    <3>1. t[k] = Filled(s, k)
      BY <1>3
    <3>2. Filled(s, k) = a[k] \/ \E v : Filled(s, k) = [a[k] EXCEPT ![5] = v]
      BY <1>5
    <3>3. QED
      BY <3>1, <3>2
  <2>2. n <= Len(t)
    BY <1>1, <1>4
  <2>3. QED
    BY <2>1, <2>2, Zenon DEF Refilled
<1>7. QED
  BY <1>1, <1>4, <1>6

LEMMA HolesLayout ==
  ASSUME IInv, LayoutOK, Included \subseteq Files, FixAllHoles, phase' # "failed"
  PROVE  LayoutOK'
<1>1. /\ phase = "defined" /\ phase' = "patched"
      /\ segments' = [s \in Stored |-> [k \in DOMAIN segments[s] |-> Filled(s, k)]]
      /\ UNCHANGED <<included, bsslen, origins, program>>
  BY DEF FixAllHoles, Goes, Fails, history
<1>2. ASSUME NEW s \in Stored
      PROVE  /\ IsSequence(segments'[s]) /\ Refilled(segments[s], segments'[s])
             /\ Len(segments'[s]) = Len(segments[s]) /\ Len(segments'[s]) \in Nat
  <2>1. segments'[s] = [k \in DOMAIN segments[s] |-> Filled(s, k)]
    BY <1>1
  <2>2. QED
    BY <2>1, FilledSegment DEF LayoutOK
<1>3. SegmentsOK'
  BY <1>1, <1>2 DEF SegmentsOK, IsSequence
<1>4. PlacesOK'
  <2>1. ASSUME NEW f \in Included PROVE Placed(f)'
    <3>1. f \in DOMAIN program /\ program \in Programs
      BY ProgramFields DEF IInv, FilesOK, Files
    <3>2. Placed(f) /\ SegmentsOK /\ bsslen \in Nat
      BY DEF LayoutOK, PlacesOK, BssOK
    <3>3. bsslen' \in Nat /\ bsslen <= bsslen' /\ included'[f] = included[f] /\ program' = program
      BY <1>1, <3>2
    <3>4. QED
      BY <1>2, <3>1, <3>2, <3>3, PlacedStays
  <2>2. QED
    BY <1>1, <2>1 DEF PlacesOK, Included
<1>5. BssApart' /\ BssOK'
  BY <1>1 DEF LayoutOK, BssApart, Precedes, BssOK, Included, Late
<1>6. LaidOut'
  <2>1. LaidOut
    BY <1>1 DEF LayoutOK, OriginsOK, Late
  <2>2. \A s \in Stored : Len(segments'[s]) = Len(segments[s])
    BY <1>2
  <2>3. /\ Len(segments'["TEXT"]) = Len(segments["TEXT"])
        /\ Len(segments'["RODATA"]) = Len(segments["RODATA"])
        /\ Len(segments'["DATA"]) = Len(segments["DATA"])
    BY <2>2 DEF Stored
  <2>4. QED
    BY <1>1, <2>1, <2>3 DEF LaidOut, Included, u64
<1>7. OriginsOK' /\ LinkedOK'
  BY <1>1, <1>6 DEF OriginsOK, LinkedOK, Late
<1>8. QED
  BY <1>3, <1>4, <1>5, <1>7 DEF LayoutOK

-----------------------------------------------------------------------------
(* All of it.                                                              *)

TypeInv == ShapeOK /\ ErrorOK /\ FoundOK /\ QueueOK /\ LayoutOK

LEMMA TypeInit ==
  ASSUME BssFits, Init
  PROVE  TypeInv
<1>1. /\ phase = "assembling" /\ error = "None" /\ objs = program /\ program \in Programs
      /\ include_queue = <<>> /\ included = <<>> /\ segments = [s \in Stored |-> <<>>]
      /\ bsslen = 0 /\ origins = <<>>
  BY DEF Init
<1>2. Included = {}
  BY <1>1 DEF Included
<1>3. ShapeOK /\ ErrorOK /\ FoundOK /\ QueueOK
  BY <1>1, <1>2, ProgramFields DEF ShapeOK, SameShape, ErrorOK, Errors, FoundOK, QueueOK, Files
<1>4. SegmentsOK
  <2>1. <<>> \in Seq({})
    OBVIOUS
  <2>2. QED
    BY <1>1, <2>1 DEF SegmentsOK, IsSequence
<1>5. PlacesOK /\ BssApart /\ OriginsOK /\ LinkedOK
  BY <1>1, <1>2 DEF PlacesOK, BssApart, OriginsOK, LinkedOK, Late
<1>6. BssOK
  <2>1. BssRoom(program, Included) \in Nat /\ W \in Nat \ {0}
    BY <1>1, BssRoomBound, LinkerAssumption
  <2>2. QED
    BY <1>1, <2>1 DEF BssOK
<1>7. QED
  BY <1>3, <1>4, <1>5, <1>6 DEF TypeInv, LayoutOK

(* The steps in which nothing is moved.                                    *)
Unmoved ==
  /\ UNCHANGED <<included, segments, bsslen, origins, program>>
  /\ \/ phase' = phase \/ phase' = "failed"
     \/ phase \notin Late \cup {"failed"} /\ phase' \notin Late \cup {"failed"}
     \/ phase \in Late /\ phase' \in Late
  /\ phase' = "linked" => phase = "linked" \/ origins["BSS"] + bsslen < W

LEMMA UnmovedSteps ==
  ASSUME LayoutOK,
         \/ \E f \in Files, value \in Values : Provision(f, value)
         \/ \E e \in Entries : RefuseArguments(e) \/ RenameStart(e)
         \/ CheckGlobals \/ EvaluateGlobals \/ DefineExternals \/ construct
         \/ IncludeFile /\ phase' = "failed"
         \/ FixAllHoles /\ phase' = "failed"
         \/ UNCHANGED vars
  PROVE  Unmoved
<1>1. CASE \E f \in Files, value \in Values : Provision(f, value)
  BY <1>1 DEF Provision, Unmoved, layoutVars
<1>2. CASE \E e \in Entries : RefuseArguments(e) \/ RenameStart(e)
  BY <1>2 DEF RefuseArguments, RenameStart, Fails, Goes, Unmoved, layoutVars, history, Late
<1>3. CASE CheckGlobals
  BY <1>3 DEF CheckGlobals, Fails, Goes, Unmoved, layoutVars, history, Late
<1>4. CASE IncludeFile /\ phase' = "failed"
  BY <1>4 DEF IncludeFile, Fails, Unmoved, layoutVars, history
<1>5. CASE EvaluateGlobals
  BY <1>5 DEF EvaluateGlobals, Fails, Goes, Unmoved, layoutVars, history, Late
<1>6. CASE DefineExternals
  BY <1>6 DEF DefineExternals, Fails, Goes, Unmoved, layoutVars, history, Late
<1>7. CASE FixAllHoles /\ phase' = "failed"
  BY <1>7 DEF FixAllHoles, Fails, Goes, Unmoved, layoutVars, history
<1>8. CASE construct
  <2>1. CASE origins["BSS"] + bsslen >= W
    BY <1>8, <2>1 DEF construct, Fails, Unmoved, layoutVars, history
  <2>2. CASE ~(origins["BSS"] + bsslen >= W)
    <3>1. phase = "patched" /\ LaidOut /\ bsslen \in Nat
      BY <1>8 DEF construct, LayoutOK, OriginsOK, BssOK, Late
    <3>2. origins["BSS"] \in Nat
      BY <3>1, SequenceParts DEF LaidOut, LayoutOK, SegmentsOK, Stored
    <3>3. origins["BSS"] + bsslen < W
      BY <2>2, <3>1, <3>2, LinkerAssumption
    <3>4. QED
      BY <1>8, <2>2, <3>3 DEF construct, Goes, Unmoved, layoutVars, history, Late
  <2>3. QED
    BY <2>1, <2>2
<1>9. CASE UNCHANGED vars
  BY <1>9 DEF vars, Unmoved, layoutVars, history
<1>10. QED
  BY <1>1, <1>2, <1>3, <1>4, <1>5, <1>6, <1>7, <1>8, <1>9

LEMMA LayoutKept ==
  ASSUME BssFits, IInv, TypeInv, [Next]_vars
  PROVE  LayoutOK'
<1>1. ShapeOK /\ LayoutOK /\ Included \subseteq Files
  BY DEF TypeInv, FoundOK
<1>2. CASE Unmoved
  BY <1>1, <1>2, LayoutStays DEF Unmoved
<1>3. CASE IncludeFile /\ phase' # "failed"
  <2> DEFINE f == Head(include_queue)
  <2>1. /\ phase = "merging" /\ include_queue # <<>> /\ Appended(f)
        /\ UNCHANGED <<phase, origins, program>>
        /\ \E order \in SetToSeqs(Waiting(f)) : TRUE
    BY <1>3 DEF IncludeFile, Fails, history
  <2>2. f \in Files /\ f \notin Included
    <3>1. Distinct(include_queue) /\ ToSet(include_queue) \cap Included = {} /\ FilesOK
      BY <2>1 DEF TypeInv, QueueOK, IInv
    <3>2. PICK order : order \in SetToSeqs(Waiting(f))
      BY <2>1
    <3>3. f \notin Included
      BY <2>1, <3>1, <3>2, QueueStaysDistinct
    <3>4. f \in Files
      BY <2>1, <3>1, HeadTailProperties DEF FilesOK
    <3>5. QED
      BY <3>3, <3>4
  <2> HIDE DEF f
  <2>3. QED
    BY <1>1, <2>1, <2>2, IncludedLayout
<1>4. CASE PlaceLiterals
  BY <1>1, <1>4, LiteralsLayout
<1>5. CASE DefineOrigins
  BY <1>1, <1>5, OriginsLayout
<1>6. CASE FixAllHoles /\ phase' # "failed"
  BY <1>1, <1>6, HolesLayout
<1>7. \/ \/ \E f \in Files, value \in Values : Provision(f, value)
         \/ \E e \in Entries : RefuseArguments(e) \/ RenameStart(e)
         \/ CheckGlobals \/ EvaluateGlobals \/ DefineExternals \/ construct
         \/ IncludeFile /\ phase' = "failed"
         \/ FixAllHoles /\ phase' = "failed"
         \/ UNCHANGED vars
      \/ IncludeFile /\ phase' # "failed"
      \/ PlaceLiterals \/ DefineOrigins
      \/ FixAllHoles /\ phase' # "failed"
  <2>1. CASE \E f \in Files, value \in Values : Provision(f, value)
    BY <2>1
  <2>2. CASE Link
    BY <2>2 DEF Link
  <2>3. CASE UNCHANGED vars
    BY <2>3
  <2>4. QED
    BY <2>1, <2>2, <2>3 DEF Next
<1>8. QED
  BY <1>1, <1>2, <1>3, <1>4, <1>5, <1>6, <1>7, UnmovedSteps

LEMMA ErrorKept ==
  ASSUME ErrorOK, [Next]_vars
  PROVE  ErrorOK'
<1>1. ASSUME NEW e, Fails(e), e \in Errors \ {"None"} PROVE ErrorOK'
  BY <1>1 DEF Fails, ErrorOK
<1>2. CASE UNCHANGED <<phase, error>>
  BY <1>2 DEF ErrorOK
<1>3. CASE UNCHANGED error /\ phase' # "failed" /\ phase # "failed"
  BY <1>3 DEF ErrorOK
<1>4. CASE \E f \in Files, value \in Values : Provision(f, value)
  BY <1>2, <1>4 DEF Provision
<1>5. ASSUME NEW e \in Entries, RefuseArguments(e) PROVE ErrorOK'
  <2>1. Fails(Refusal(e)) /\ Refusal(e) # "None"
    BY <1>5 DEF RefuseArguments
  <2>2. Refusal(e) \in Errors
    BY DEF Refusal, Errors
  <2>3. QED
    BY <1>1, <2>1, <2>2
<1>6. ASSUME NEW e \in Entries, RenameStart(e) PROVE ErrorOK'
  BY <1>1, <1>3, <1>6 DEF RenameStart, Goes, Errors
<1>7. CASE CheckGlobals
  BY <1>1, <1>3, <1>7 DEF CheckGlobals, Goes, Errors
<1>8. CASE IncludeFile
  BY <1>1, <1>2, <1>8 DEF IncludeFile, Errors
<1>9. CASE PlaceLiterals \/ DefineOrigins
  BY <1>3, <1>9 DEF PlaceLiterals, DefineOrigins, Goes
<1>10. CASE EvaluateGlobals \/ DefineExternals \/ FixAllHoles \/ construct
  BY <1>1, <1>3, <1>10 DEF EvaluateGlobals, DefineExternals, FixAllHoles, construct, Goes, Errors
<1>11. CASE UNCHANGED vars
  BY <1>2, <1>11 DEF vars
<1>12. QED
  BY <1>4, <1>5, <1>6, <1>7, <1>8, <1>9, <1>10, <1>11 DEF Next, Link

LEMMA QueueKept ==
  ASSUME IInv, FoundOK, QueueOK, [Next]_vars
  PROVE  FoundOK' /\ QueueOK'
<1>1. CASE /\ UNCHANGED <<objs, included>>
           /\ phase' = "merging" => UNCHANGED <<phase, include_queue>>
  BY <1>1 DEF FoundOK, QueueOK, Missing, Exporters, Files, Included
<1>2. CASE UNCHANGED <<objs, phase, include_queue, layoutVars>>
  BY <1>1, <1>2 DEF layoutVars
<1>3. CASE \E f \in Files, value \in Values : Provision(f, value)
  BY <1>2, <1>3 DEF Provision
<1>4. CASE \E e \in Entries : RefuseArguments(e)
  BY <1>1, <1>4 DEF RefuseArguments, Fails, layoutVars
<1>5. CASE \E e \in Entries : RenameStart(e)
  <2>1. Included = {} /\ included' = included /\ phase' # "merging"
    BY <1>5 DEF IInv, InclusionOK, RenameStart, Fails, Goes, layoutVars
  <2>2. Included' = {}
    BY <2>1 DEF Included
  <2>3. QED
    BY <2>1, <2>2 DEF FoundOK, QueueOK
<1>6. CASE CheckGlobals
  <2>1. /\ Included = {} /\ included' = included
        /\ phase' = "merging" => include_queue' = <<1>>
    BY <1>6 DEF IInv, InclusionOK, CheckGlobals, Fails, Goes, layoutVars
  <2>2. Included' = {}
    BY <2>1 DEF Included
  <2>3. Distinct(<<1>>)
    BY DEF Distinct
  <2>4. QED
    BY <2>1, <2>2, <2>3 DEF FoundOK, QueueOK, Distinct
<1>7. CASE IncludeFile
  <2> DEFINE f == Head(include_queue)
  <2>1. phase = "merging" /\ include_queue # <<>> /\ MadeDirty(f)
    BY <1>7 DEF IncludeFile
  <2>2. f \in Files /\ FilesOK
    BY <2>1, HeadTailProperties DEF IInv, FilesOK
  <2>3. CASE Missing(f)
    <3>1. included' = included /\ phase' # "merging"
      BY <1>7, <2>3 DEF IncludeFile, Fails, layoutVars
    <3> HIDE DEF f
    <3>2. Files' = Files /\ \A g \in Files : Missing(g)' <=> Missing(g)
      BY <2>1, <2>2, DirtyNeedsSame, MissingStays
    <3>3. QED
      BY <3>1, <3>2 DEF FoundOK, QueueOK, Included
  <2>4. CASE ~Missing(f)
    <3>1. PICK order \in SetToSeqs(Waiting(f)) : include_queue' = Queued(f, order)
      BY <1>7, <2>4 DEF IncludeFile
    <3>2. Appended(f)
      BY <1>7, <2>4 DEF IncludeFile
    <3>3. Distinct(include_queue) /\ ToSet(include_queue) \cap Included = {}
      BY <2>1 DEF QueueOK
    <3>4. /\ Distinct(Queued(f, order)) /\ f \notin Included
          /\ ToSet(Queued(f, order)) \cap (Included \cup {f}) = {}
      BY <2>1, <2>2, <3>3, QueueStaysDistinct
    <3> HIDE DEF f
    <3>5. Included' = Included \cup {f}
      BY <3>2 DEF Appended, Included, Entered
    <3>6. Files' = Files /\ \A g \in Files : Missing(g)' <=> Missing(g)
      BY <2>1, <2>2, DirtyNeedsSame, MissingStays
    <3>7. FoundOK'
      <4>1. \A g \in Included' : g \in Files /\ ~Missing(g)
        BY <2>2, <2>4, <3>5 DEF FoundOK
      <4>2. QED
        BY <3>6, <4>1 DEF FoundOK
    <3>8. QueueOK'
      <4>1. Distinct(include_queue') /\ ToSet(include_queue') \cap Included' = {}
        BY <3>1, <3>4, <3>5
      <4>2. QED
        BY <4>1 DEF QueueOK, Distinct
    <3>9. QED
      BY <3>7, <3>8
  <2>5. QED
    BY <2>3, <2>4
<1>8. CASE PlaceLiterals \/ DefineOrigins
  BY <1>1, <1>8 DEF PlaceLiterals, DefineOrigins, Goes
<1>9. CASE EvaluateGlobals \/ DefineExternals \/ FixAllHoles \/ construct
  BY <1>1, <1>9 DEF EvaluateGlobals, DefineExternals, FixAllHoles, construct, Goes, Fails, layoutVars
<1>10. CASE UNCHANGED vars
  BY <1>2, <1>10 DEF vars
<1>11. QED
  BY <1>3, <1>4, <1>5, <1>6, <1>7, <1>8, <1>9, <1>10 DEF Next, Link

LEMMA TypeKept ==
  ASSUME BssFits, IInv, TypeInv, [Next]_vars
  PROVE  TypeInv'
<1>1. ShapeOK /\ ErrorOK /\ FoundOK /\ QueueOK
  BY DEF TypeInv
<1>2. ShapeOK' /\ ErrorOK' /\ FoundOK' /\ QueueOK'
  BY <1>1, ShapeKept, ErrorKept, QueueKept
<1>3. LayoutOK'
  BY LayoutKept
<1>4. QED
  BY <1>2, <1>3 DEF TypeInv

(* The invariant of the layout holds of every linker: Link.                *)
THEOREM LinkerLayout == ASSUME BssFits PROVE Spec => []TypeInv
<1>1. Init => TypeInv
  BY TypeInit
<1>2. IInv /\ TypeInv /\ [Next]_vars => TypeInv'
  BY TypeKept
<1>3. QED
  BY <1>1, <1>2, LinkerInvariant, PTL DEF Spec

LEMMA OriginNumbers ==
  ASSUME LayoutOK, NEW o \in DOMAIN origins
  PROVE  origins[o] \in Nat /\ (o = "heap" \/ phase = "linked" => origins[o] < W)
<1>1. W \in Nat \ {0}
  BY LinkerAssumption
<1>2. LaidOut /\ bsslen \in Nat
  <2>1. DOMAIN <<>> = {}
    OBVIOUS
  <2>2. QED
    BY <2>1 DEF LayoutOK, OriginsOK, BssOK
<1> DEFINE t == Len(segments["TEXT"])
           r == Len(segments["RODATA"])
           d == Len(segments["DATA"])
<1>3. t \in Nat /\ r \in Nat /\ d \in Nat
  BY SequenceParts DEF LayoutOK, SegmentsOK, Stored
<1>4. /\ origins["TEXT"] = 0 /\ origins["RODATA"] = t /\ origins["DATA"] = t + r
      /\ origins["BSS"] = t + r + d
  BY <1>2 DEF LaidOut
<1> DEFINE x == t + r + d + bsslen
<1>5. origins["heap"] = u64(x) /\ x \in Nat
  <2>1. origins["heap"] = u64(origins["BSS"] + bsslen)
    BY <1>2 DEF LaidOut
  <2> HIDE DEF t, r, d
  <2>2. x = origins["BSS"] + bsslen /\ x \in Nat
    BY <1>2, <1>3, <1>4
  <2> HIDE DEF x
  <2>3. QED
    BY <2>1, <2>2
<1> HIDE DEF x
<1>6. origins["heap"] \in Nat /\ origins["heap"] < W
  BY <1>1, <1>5 DEF u64
<1>7. phase = "linked" => x < W
  BY <1>4 DEF LayoutOK, LinkedOK, x
<1>8. o \in {"TEXT", "RODATA", "DATA", "BSS", "heap"}
  BY <1>2 DEF LaidOut, Segments, Stored
<1> HIDE DEF t, r, d
<1>9. /\ 0 <= x /\ t <= x /\ t + r <= x /\ t + r + d <= x
      /\ t + r \in Nat /\ t + r + d \in Nat
  BY <1>2, <1>3 DEF x
<1>10. o # "heap" => origins[o] \in Nat /\ origins[o] <= x
  BY <1>3, <1>4, <1>8, <1>9
<1>11. QED
  BY <1>1, <1>5, <1>6, <1>7, <1>10

(* The types, for every list of object files; what Link adds up is in 64   *)
(* bits, and in an executable every origin is: Link.                       *)
THEOREM LinkerTypes == ASSUME BssFits PROVE Spec => []TypeOK
<1>1. IInv /\ TypeInv => TypeOK
  <2> SUFFICES ASSUME IInv, TypeInv PROVE TypeOK
    OBVIOUS
  <2>1. phase \in Phases /\ error \in Errors /\ (phase = "failed" <=> error # "None")
    BY DEF IInv, FilesOK, TypeInv, ErrorOK
  <2>2. \A f \in Files : IsObjectFile(objs[f]) /\ collections[f] \in Collection
    BY DEF IInv, LiteralsOK, Apart, TypeInv, ShapeOK, SameShape
  <2>3. total_literals \in Collection /\ bsslen \in 0 .. (W - 1)
    BY LinkerAssumption DEF IInv, LiteralsOK, Apart, TypeInv, LayoutOK, BssOK
  <2>4. ToSet(include_queue) \cup Included \subseteq Files
    <3>1. include_queue \in Seq(Files)
      BY DEF IInv, FilesOK
    <3>2. ToSet(include_queue) \subseteq Files
      BY <3>1 DEF ToSet
    <3>3. QED
      BY <3>2 DEF TypeInv, FoundOK
  <2>5. \A o \in DOMAIN origins :
          origins[o] \in Nat /\ (o = "heap" \/ phase = "linked" => origins[o] < W)
    BY OriginNumbers DEF TypeInv
  <2>6. ASSUME NEW f \in Included
        PROVE  included[f] \in [Segments -> Nat] /\ included[f]["BSS"] < W
    <3>1. /\ included[f] \in [Segments -> Nat] /\ bsslen \in Nat /\ bsslen < W
          /\ included[f]["BSS"] + program[f].size["BSS"] <= bsslen
      BY DEF TypeInv, LayoutOK, PlacesOK, Placed, BssOK
    <3>2. program[f].size["BSS"] \in Nat /\ included[f]["BSS"] \in Nat
      BY <3>1, FileFields DEF TypeInv, FoundOK, Segments
    <3>3. W \in Nat
      BY LinkerAssumption
    <3>4. QED
      BY <3>1, <3>2, <3>3
  <2>7. QED
    BY <2>1, <2>2, <2>3, <2>4, <2>5, <2>6 DEF TypeOK
<1>2. QED
  BY <1>1, LinkerInvariant, LinkerLayout, PTL

-----------------------------------------------------------------------------
(* The values of symbols.                                                  *)

(* The values in file f, when some names are visited, by those when one    *)
(* name more is.                                                           *)
Worth(f, h, visited) ==
  [n \in STRING |->
     IF n \in Reserved THEN origins["heap"]
     ELSE IF n \in DOMAIN objs[f].Symbols \ visited
     THEN IF objs[f].Symbols[n][1] = "label" THEN Place(f, objs[f].Symbols[n])
          ELSE h[visited \cup {n}][objs[f].Symbols[n][2]]
     ELSE IF n \in DOMAIN externals[f] THEN externals[f][n]
     ELSE Unknown]
IsValue(h, f) == h = [visited \in SUBSET DOMAIN objs[f].Symbols |-> Worth(f, h, visited)]

LEMMA WorthSame ==
  ASSUME NEW f, NEW g, NEW h, NEW v,
         \A n \in DOMAIN objs[f].Symbols \ v : g[v \cup {n}] = h[v \cup {n}]
  PROVE  Worth(f, g, v) = Worth(f, h, v)
<1> DEFINE D == DOMAIN objs[f].Symbols
           next(k, n) == k[v \cup {n}][objs[f].Symbols[n][2]]
           w(k, n) == IF n \in Reserved THEN origins["heap"]
                      ELSE IF n \in D \ v
                      THEN IF objs[f].Symbols[n][1] = "label" THEN Place(f, objs[f].Symbols[n])
                           ELSE next(k, n)
                      ELSE IF n \in DOMAIN externals[f] THEN externals[f][n]
                      ELSE Unknown
<1>1. \A n \in D \ v : next(g, n) = next(h, n)
  OBVIOUS
<1>2. Worth(f, g, v) = [n \in STRING |-> w(g, n)] /\ Worth(f, h, v) = [n \in STRING |-> w(h, n)]
  BY DEF Worth
<1> HIDE DEF next
<1>3. \A n \in STRING : w(g, n) = w(h, n)
  BY <1>1
<1> HIDE DEF w
<1>4. QED
  BY <1>2, <1>3

(* Of all names that are not visited one is the first.                     *)
LEMMA OneMoreVisited ==
  ASSUME NEW D, IsFiniteSet(D), NEW v \in SUBSET D, NEW n \in D \ v
  PROVE  /\ v \cup {n} \in SUBSET D
         /\ Cardinality(D \ v) \in Nat /\ Cardinality(D \ (v \cup {n})) \in Nat
         /\ Cardinality(D \ (v \cup {n})) = Cardinality(D \ v) - 1
<1> DEFINE R == D \ v
<1>1. R \in SUBSET D /\ n \in R
  OBVIOUS
<1>2. IsFiniteSet(R)
  BY <1>1, FS_Subset
<1>3. D \ (v \cup {n}) = R \ {n}
  OBVIOUS
<1> HIDE DEF R
<1>4. /\ IsFiniteSet(R \ {n}) /\ Cardinality(R \ {n}) = Cardinality(R) - 1
  BY <1>1, <1>2, FS_RemoveElement
<1>5. Cardinality(R) \in Nat /\ Cardinality(R \ {n}) \in Nat
  BY <1>2, <1>4, FS_CardinalityType
<1>6. QED
  BY <1>3, <1>4, <1>5 DEF R

LEMMA ValueExists ==
  ASSUME NEW f, IsFiniteSet(DOMAIN objs[f].Symbols)
  PROVE  \E h : IsValue(h, f)
<1> DEFINE D == DOMAIN objs[f].Symbols
           P(m) == {v \in SUBSET D : Cardinality(D \ v) < m}
           T == {m \in Nat : \E h : \A v \in P(m) : h[v] = Worth(f, h, v)}
<1>1. \A v \in SUBSET D : Cardinality(D \ v) \in Nat /\ Cardinality(D \ v) <= Cardinality(D)
  <2> TAKE v \in SUBSET D
  <2>1. D \ v \in SUBSET D
    OBVIOUS
  <2>2. IsFiniteSet(D \ v) /\ Cardinality(D \ v) <= Cardinality(D)
    BY <2>1, FS_Subset
  <2>3. QED
    BY <2>2, FS_CardinalityType
<1>2. IsFiniteSet(D) /\ Cardinality(D) \in Nat
  BY FS_CardinalityType
<1> HIDE DEF D
<1>3. 0 \in T
  <2>1. P(0) = {}
    BY <1>1
  <2>2. QED
    BY <2>1
<1>4. ASSUME NEW m \in Nat, m \in T PROVE m + 1 \in T
  <2>1. PICK h : \A v \in P(m) : h[v] = Worth(f, h, v)
    BY <1>4
  <2> DEFINE g == [v \in SUBSET D |-> IF v \in P(m) THEN h[v] ELSE Worth(f, h, v)]
  <2>2. \A v \in SUBSET D : g[v] = IF v \in P(m) THEN h[v] ELSE Worth(f, h, v)
    OBVIOUS
  <2> HIDE DEF g
  <2>3. ASSUME NEW v \in P(m + 1) PROVE g[v] = Worth(f, g, v)
    <3>1. v \in SUBSET D /\ Cardinality(D \ v) < m + 1
      OBVIOUS
    <3>2. ASSUME NEW n \in D \ v PROVE g[v \cup {n}] = h[v \cup {n}]
      <4> DEFINE u == v \cup {n}
      <4>1. u \in SUBSET D /\ Cardinality(D \ u) = Cardinality(D \ v) - 1
            /\ Cardinality(D \ u) \in Nat /\ Cardinality(D \ v) \in Nat
        BY <1>2, <3>1, OneMoreVisited
      <4> HIDE DEF u
      <4>2. Cardinality(D \ u) < m
        BY <3>1, <4>1
      <4>3. u \in P(m)
        BY <4>1, <4>2
      <4> HIDE DEF P
      <4>4. g[u] = h[u]
        BY <2>2, <4>1, <4>3
      <4>5. QED
        BY <4>4 DEF u
    <3>3. Worth(f, g, v) = Worth(f, h, v)
      BY <3>2, WorthSame DEF D
    <3>4. g[v] = Worth(f, h, v)
      <4> HIDE DEF P
      <4>1. QED
        BY <2>1, <2>2, <3>1
    <3>5. QED
      BY <3>3, <3>4
  <2> HIDE DEF P
  <2>4. QED
    BY <2>3
<1>5. Cardinality(D) + 1 \in T
  <2> DEFINE c == Cardinality(D) + 1
  <2>1. c \in Nat
    BY <1>2
  <2> HIDE DEF c, T
  <2>2. c \in T
    BY <1>3, <1>4, <2>1, Induct
  <2>3. QED
    BY <2>2 DEF c
<1>6. PICK h : \A v \in P(Cardinality(D) + 1) : h[v] = Worth(f, h, v)
  BY <1>5
<1>7. \A v \in SUBSET D : v \in P(Cardinality(D) + 1)
  <2> TAKE v \in SUBSET D
  <2> DEFINE a == Cardinality(D \ v)
             b == Cardinality(D)
  <2>1. a \in Nat /\ b \in Nat /\ a <= b
    BY <1>1, <1>2
  <2> HIDE DEF a, b
  <2>2. a < b + 1
    BY <2>1
  <2>3. QED
    BY <2>2 DEF a, b
<1> HIDE DEF P, T
<1>8. \A v \in SUBSET D : h[v] = Worth(f, h, v)
  BY <1>6, <1>7
<1> DEFINE k == [v \in SUBSET D |-> Worth(f, h, v)]
<1>9. \A v \in SUBSET D : k[v] = h[v]
  BY <1>8
<1>10. k = [v \in SUBSET D |-> Worth(f, h, v)]
  OBVIOUS
<1> HIDE DEF k
<1>11. \A v \in SUBSET D : Worth(f, k, v) = Worth(f, h, v)
  <2> TAKE v \in SUBSET D
  <2>1. \A n \in D \ v : k[v \cup {n}] = h[v \cup {n}]
    BY <1>9
  <2>2. QED
    BY <2>1, WorthSame DEF D
<1>12. IsValue(k, f)
  BY <1>10, <1>11 DEF IsValue, D
<1>13. QED
  BY <1>12

(* The values of the symbols of a file: a function as Link computes it.    *)
LEMMA EvaluateIs ==
  ASSUME NEW f, IsFiniteSet(DOMAIN objs[f].Symbols)
  PROVE  \E h : /\ \A v \in SUBSET DOMAIN objs[f].Symbols : h[v] = Worth(f, h, v)
                /\ \A name : Evaluate(f, name) = h[{}][name]
<1> DEFINE h == CHOOSE k : IsValue(k, f)
<1>1. IsValue(h, f)
  BY ValueExists
<1>2. \A name : Evaluate(f, name) = h[{}][name]
  BY DEF Evaluate, IsValue, Worth
<1> HIDE DEF h
<1>3. \A v \in SUBSET DOMAIN objs[f].Symbols : h[v] = Worth(f, h, v)
  BY <1>1, Zenon DEF IsValue
<1>4. QED
  BY <1>2, <1>3

-----------------------------------------------------------------------------
(* What a name stands for.                                                 *)

Denotes(t, v) ==
  IF t[2] \in Reserved THEN v = origins["heap"]
  ELSE IsLabel(t) /\ t[1] \in Included /\ v = Place(t[1], objs[t[1]].Symbols[t[2]])

(* A name of a file leads to one with that value.                          *)
Resolves(f, n, v) ==
  /\ n \in Names(f)
  /\ \A S : <<f, n>> \in S /\ Closed(References, S) => \E t \in S : Denotes(t, v)

AliasEdges(f) ==
  {<<<<f, n>>, <<f, objs[f].Symbols[n][2]>>>> :
     n \in {m \in DOMAIN objs[f].Symbols : ~IsLabel(<<f, m>>)}}
ExternalEdges(f, g) ==
  {<<<<f, x>>, <<g, x>>>> : x \in objs[f].ExternalSymbols \cap objs[g].GlobalSymbols}

LEMMA ReferencesParts ==
  /\ \A f \in Files : \A n \in Names(f) : <<f, n>> \in References.node
  /\ \A f \in Files : AliasEdges(f) \subseteq References.edge
  /\ \A f, g \in Files : ExternalEdges(f, g) \subseteq References.edge
<1> DEFINE E == (UNION {AliasEdges(f) : f \in Files})
                \cup (UNION {ExternalEdges(f, g) : f \in Files, g \in Files})
           N == UNION {{f} \X Names(f) : f \in Files}
<1>1. References = [node |-> N, edge |-> E]
  BY DEF References, AliasEdges, ExternalEdges
<1>2. References.node = N /\ References.edge = E
  <2> HIDE DEF N, E
  <2>1. QED
    BY <1>1
<1>3. \A f \in Files : \A n \in Names(f) : <<f, n>> \in N
  OBVIOUS
<1>4. \A f \in Files : AliasEdges(f) \subseteq E
  OBVIOUS
<1>5. \A f, g \in Files : ExternalEdges(f, g) \subseteq E
  <2> TAKE f, g \in Files
  <2>1. ExternalEdges(f, g) \in {ExternalEdges(a, b) : a \in Files, b \in Files}
    OBVIOUS
  <2>2. QED
    BY <2>1
<1>6. QED
  BY <1>2, <1>3, <1>4, <1>5

LEMMA AliasEdge ==
  ASSUME NEW f \in Files, NEW n \in DOMAIN objs[f].Symbols, ~IsLabel(<<f, n>>),
         objs[f].Symbols[n][2] \in Names(f)
  PROVE  <<f, objs[f].Symbols[n][2]>> \in Successors(References, <<f, n>>)
<1> DEFINE m == objs[f].Symbols[n][2]
<1>1. <<<<f, n>>, <<f, m>>>> \in AliasEdges(f)
  BY DEF AliasEdges
<1>2. <<f, m>> \in References.node /\ <<<<f, n>>, <<f, m>>>> \in References.edge
  BY <1>1, ReferencesParts
<1> HIDE DEF m
<1>3. <<f, m>> \in Successors(References, <<f, n>>)
  BY <1>2 DEF Successors
<1>4. QED
  BY <1>3 DEF m

LEMMA ExternalEdge ==
  ASSUME NEW f \in Files, NEW g \in Files, NEW x, x \in objs[f].ExternalSymbols,
         x \in objs[g].GlobalSymbols, x \in Names(g)
  PROVE  <<g, x>> \in Successors(References, <<f, x>>)
<1>1. <<<<f, x>>, <<g, x>>>> \in ExternalEdges(f, g)
  BY DEF ExternalEdges
<1>2. <<g, x>> \in References.node /\ <<<<f, x>>, <<g, x>>>> \in References.edge
  BY <1>1, ReferencesParts
<1>3. QED
  BY <1>2 DEF Successors

(* The symbols of a file.                                                  *)
LEMMA SymbolParts ==
  ASSUME ShapeOK, NEW f \in Files, NEW n \in DOMAIN objs[f].Symbols
  PROVE  LET symbol == objs[f].Symbols[n]
         IN /\ n \in STRING
            /\ symbol[1] = "label" =>
                 /\ symbol[2] \in Segments /\ symbol[3] \in Nat
                 /\ symbol[3] <= objs[f].size[symbol[2]]
            /\ symbol[1] # "label" => symbol[2] \in STRING
            /\ IsLabel(<<f, n>>) <=> symbol[1] = "label"
<1> DEFINE symbol == objs[f].Symbols[n]
<1>1. IsObjectFile(objs[f])
  BY DEF ShapeOK, SameShape
<1>2. symbol \in Definition /\ n \in STRING
      /\ (symbol[1] = "label" => symbol[3] <= objs[f].size[symbol[2]])
  BY <1>1 DEF IsObjectFile
<1>3. IsLabel(<<f, n>>) <=> symbol[1] = "label"
  BY DEF IsLabel
<1> HIDE DEF symbol
<1>4. /\ symbol[1] = "label" => symbol[2] \in Segments /\ symbol[3] \in Nat
      /\ symbol[1] # "label" => symbol[2] \in STRING
  BY <1>2 DEF Definition
<1>5. QED
  BY <1>2, <1>3, <1>4 DEF symbol

(* A symbol that has a value stands for it, if the external symbols do.    *)
LEMMA EvaluateResolves ==
  ASSUME ShapeOK, NEW f \in Files, f \in Included, NEW name \in STRING,
         \A x \in DOMAIN externals[f] : Resolves(f, x, externals[f][x]),
         Evaluate(f, name) # Unknown
  PROVE  Resolves(f, name, Evaluate(f, name))
<1> DEFINE D == DOMAIN objs[f].Symbols
           symbol(n) == objs[f].Symbols[n]
<1>1. IsFiniteSet(D)
  BY DEF ShapeOK, SameShape, IsObjectFile
<1>2. PICK h : /\ \A v \in SUBSET D : h[v] = Worth(f, h, v)
               /\ \A n : Evaluate(f, n) = h[{}][n]
  BY <1>1, EvaluateIs
<1>3. \A v \in SUBSET D, n \in STRING :
        h[v][n] = IF n \in Reserved THEN origins["heap"]
                  ELSE IF n \in D \ v
                  THEN IF symbol(n)[1] = "label" THEN Place(f, symbol(n))
                       ELSE h[v \cup {n}][symbol(n)[2]]
                  ELSE IF n \in DOMAIN externals[f] THEN externals[f][n]
                  ELSE Unknown
  <2> TAKE v \in SUBSET D, n \in STRING
  <2>1. h[v] = Worth(f, h, v)
    BY <1>2
  <2>2. Worth(f, h, v)[n] =
          IF n \in Reserved THEN origins["heap"]
                  ELSE IF n \in D \ v
                  THEN IF symbol(n)[1] = "label" THEN Place(f, symbol(n))
                       ELSE h[v \cup {n}][symbol(n)[2]]
                  ELSE IF n \in DOMAIN externals[f] THEN externals[f][n]
                  ELSE Unknown
    BY DEF Worth
  <2>3. QED
    BY <2>1, <2>2, Zenon
<1>4. Cardinality(D) \in Nat
  BY <1>1, FS_CardinalityType
<1> DEFINE Good(v) == \A n \in STRING : h[v][n] # Unknown => Resolves(f, n, h[v][n])
           G == {m \in Nat : \A v \in SUBSET D : Cardinality(D \ v) < m => Good(v)}
<1>5. \A v \in SUBSET D : Cardinality(D \ v) \in Nat
  <2> TAKE v \in SUBSET D
  <2>1. D \ v \in SUBSET D
    OBVIOUS
  <2>2. IsFiniteSet(D \ v)
    BY <1>1, <2>1, FS_Subset
  <2>3. QED
    BY <2>2, FS_CardinalityType
<1>6. ASSUME NEW v \in SUBSET D, \A n \in D \ v : Good(v \cup {n}) PROVE Good(v)
  <2> SUFFICES ASSUME NEW n \in STRING, h[v][n] # Unknown PROVE Resolves(f, n, h[v][n])
    OBVIOUS
  <2>1. CASE n \in Reserved
    <3>1. h[v][n] = origins["heap"] /\ n \in Names(f)
      BY <1>3, <2>1 DEF Names
    <3>2. Denotes(<<f, n>>, h[v][n])
      BY <2>1, <3>1 DEF Denotes
    <3>3. QED
      BY <3>1, <3>2 DEF Resolves
  <2>2. CASE n \notin Reserved /\ n \in D \ v /\ symbol(n)[1] = "label"
    <3>1. h[v][n] = Place(f, objs[f].Symbols[n]) /\ n \in Names(f)
      BY <1>3, <2>2 DEF Names
    <3>2. IsLabel(<<f, n>>)
      BY <2>2 DEF IsLabel
    <3>3. Denotes(<<f, n>>, h[v][n])
      BY <2>2, <3>1, <3>2 DEF Denotes
    <3>4. QED
      BY <3>1, <3>3 DEF Resolves
  <2>3. CASE n \notin Reserved /\ n \in D \ v /\ symbol(n)[1] # "label"
    <3> DEFINE m == symbol(n)[2]
               x == h[v \cup {n}][m]
    <3>1. h[v][n] = x /\ n \in Names(f)
      BY <1>3, <2>3 DEF Names
    <3>2. m \in STRING /\ ~IsLabel(<<f, n>>)
      BY <2>3, SymbolParts
    <3>3. Resolves(f, m, x)
      <4>1. Good(v \cup {n})
        BY <1>6, <2>3
      <4>2. x # Unknown
        BY <3>1
      <4>3. QED
        BY <3>2, <4>1, <4>2
    <3>4. <<f, m>> \in Successors(References, <<f, n>>)
      BY <2>3, <3>2, <3>3, AliasEdge DEF Resolves
    <3> HIDE DEF m, x
    <3>5. QED
      BY <3>1, <3>3, <3>4 DEF Resolves, Closed
  <2>4. CASE n \notin Reserved /\ n \notin D \ v
    <3>1. h[v][n] = IF n \in DOMAIN externals[f] THEN externals[f][n] ELSE Unknown
      BY <1>3, <2>4
    <3>2. n \in DOMAIN externals[f] /\ h[v][n] = externals[f][n]
      BY <3>1
    <3>3. QED
      BY <3>2
  <2>5. QED
    BY <2>1, <2>2, <2>3, <2>4
<1> HIDE DEF Good
<1>7. 0 \in G
  BY <1>5
<1>8. ASSUME NEW m \in Nat, m \in G PROVE m + 1 \in G
  <2>1. ASSUME NEW v \in SUBSET D, Cardinality(D \ v) < m + 1 PROVE Good(v)
    <3>1. ASSUME NEW n \in D \ v PROVE Good(v \cup {n})
      <4> DEFINE u == v \cup {n}
      <4>1. u \in SUBSET D /\ Cardinality(D \ u) = Cardinality(D \ v) - 1
            /\ Cardinality(D \ u) \in Nat /\ Cardinality(D \ v) \in Nat
        <5> HIDE DEF D
        <5>1. QED
          BY <1>1, OneMoreVisited
      <4> HIDE DEF u, D
      <4>2. Cardinality(D \ u) < m
        BY <2>1, <4>1
      <4>3. Good(u)
        BY <1>8, <4>1, <4>2
      <4>4. QED
        BY <4>3 DEF u
    <3>2. QED
      BY <1>6, <3>1
  <2>2. QED
    BY <2>1
<1> HIDE DEF G, D
<1>9. Cardinality(D) + 1 \in G
  <2> DEFINE c == Cardinality(D) + 1
  <2>1. c \in Nat
    BY <1>4
  <2> HIDE DEF c
  <2>2. c \in G
    BY <1>7, <1>8, <2>1, Induct
  <2>3. QED
    BY <2>2 DEF c
<1>10. Good({})
  <2>1. {} \in SUBSET D /\ D \ {} = D /\ Cardinality(D) < Cardinality(D) + 1
    BY <1>4
  <2>2. QED
    BY <1>9, <2>1 DEF G
<1>11. QED
  BY <1>2, <1>10 DEF Good

-----------------------------------------------------------------------------
(* The values that Link puts down.                                         *)

ExternalsOK ==
  /\ phase \in {"laid out", "evaluated"} => \A f \in Included : externals[f] = <<>>
  /\ phase = "defined" =>
       \A f \in Included : \A x \in DOMAIN externals[f] : Resolves(f, x, externals[f][x])
GlobalsOK ==
  phase = "evaluated" =>
    \A f \in Included : \A g \in objs[f].GlobalSymbols : Evaluate(f, g) # Unknown
HolesOK ==
  phase \in {"patched", "linked"} =>
    \A p \in Holes : Resolves(p[1], p[2][3], segments[p[2][1]][HoleAt(p[1], p[2])][5])
ValuesOK == ExternalsOK /\ GlobalsOK /\ HolesOK

(* The value of a symbol by the variables it depends on.                   *)
EvaluateWith(o, i, g, e, f, name) ==
  LET symbols == o[f].Symbols
      value[visited \in SUBSET DOMAIN symbols] ==
        [n \in STRING |->
           IF n \in Reserved THEN g["heap"]
           ELSE IF n \in DOMAIN symbols \ visited
           THEN IF symbols[n][1] = "label"
                THEN (g[symbols[n][2]] + i[f][symbols[n][2]] + symbols[n][3]) % W
                ELSE value[visited \cup {n}][symbols[n][2]]
           ELSE IF n \in DOMAIN e[f] THEN e[f][n]
           ELSE Unknown]
  IN value[{}][name]

LEMMA EvaluateSame ==
  ASSUME UNCHANGED <<objs, included, origins, externals>>, NEW f, NEW name
  PROVE  Evaluate(f, name)' = Evaluate(f, name)
<1>1. Evaluate(f, name) = EvaluateWith(objs, included, origins, externals, f, name)
  BY DEF Evaluate, EvaluateWith, Place, u64
<1>2. Evaluate(f, name)' = EvaluateWith(objs', included', origins', externals', f, name)
  BY DEF Evaluate, EvaluateWith, Place, u64
<1>3. QED
  BY <1>1, <1>2

(* A step that leaves files, places and origins alone leaves what names    *)
(* stand for; with the same value a name resolves as it did.               *)
LEMMA DenotesSame ==
  ASSUME UNCHANGED <<objs, included, origins>>
  PROVE  /\ Files' = Files /\ Included' = Included /\ References' = References
         /\ \A f : Names(f)' = Names(f)
<1>1. /\ Files' = Files /\ Included' = Included /\ \A f : Names(f)' = Names(f)
  BY DEF Files, Included, Names
<1>2. References' = References
  BY <1>1 DEF References, Names, IsLabel, Files
<1>3. QED
  BY <1>1, <1>2

(* An external symbol of an included file is a global of an included one.  *)
LEMMA ExporterIncluded ==
  ASSUME IInv, FoundOK, phase \in Done, NEW f \in Included, NEW x \in objs[f].ExternalSymbols
  PROVE  Exporter(x) \in Included /\ x \in objs[Exporter(x)].GlobalSymbols
<1>1. Included = Reached(Needs, 1) /\ f \in Files /\ 1 \in Files
  BY DEF IInv, InclusionOK, FilesOK, FoundOK, Done
<1>2. Exporters(x) # {}
  BY DEF FoundOK, Missing
<1>3. Exporter(x) \in Exporters(x)
  BY <1>2 DEF Exporter
<1>4. Exporter(x) \in Sources(f) /\ x \in objs[Exporter(x)].GlobalSymbols
  BY <1>3 DEF Sources, Exporters
<1>5. Closed(Needs, Included)
  <2>1. IsFiniteSet(Needs.node) /\ 1 \in Needs.node
    BY <1>1, FilesFinite, NeedsAreSources DEF IInv
  <2>2. QED
    BY <1>1, <2>1, ReachedIsLeast
<1>6. QED
  BY <1>1, <1>4, <1>5, NeedsAreSources DEF Closed

LEMMA ExternalsDefined ==
  ASSUME IInv, TypeInv, ValuesOK, DefineExternals, phase' # "failed"
  PROVE  ValuesOK'
<1>1. /\ phase = "evaluated" /\ phase' = "defined" /\ UNCHANGED <<objs, included, origins>>
      /\ externals' = [f \in Included |->
            [x \in objs[f].ExternalSymbols |-> Evaluate(Exporter(x), x)]]
  BY DEF DefineExternals, Fails, Goes
<1>2. ShapeOK /\ FoundOK /\ Included \subseteq Files /\ phase \in Done
  BY <1>1 DEF TypeInv, FoundOK, Done
<1>3. ASSUME NEW f \in Included, NEW x \in objs[f].ExternalSymbols
      PROVE  Resolves(f, x, Evaluate(Exporter(x), x))
  <2> DEFINE g == Exporter(x)
             v == Evaluate(g, x)
  <2>1. g \in Included /\ x \in objs[g].GlobalSymbols
    BY <1>2, ExporterIncluded
  <2> HIDE DEF g
  <2>2. g \in Files /\ f \in Files
    BY <1>2, <2>1
  <2>3. v # Unknown /\ externals[g] = <<>>
    BY <1>1, <2>1 DEF ValuesOK, GlobalsOK, ExternalsOK
  <2>4. x \in STRING
    BY <2>2 DEF TypeInv, ShapeOK, SameShape, IsObjectFile
  <2>5. \A y \in DOMAIN externals[g] : Resolves(g, y, externals[g][y])
    BY <2>3
  <2>6. Resolves(g, x, v)
    BY <1>2, <2>1, <2>2, <2>3, <2>4, <2>5, EvaluateResolves
  <2> HIDE DEF v
  <2>7. <<g, x>> \in Successors(References, <<f, x>>)
    BY <2>1, <2>2, <2>6, ExternalEdge DEF Resolves
  <2>8. x \in Names(f)
    BY DEF Names
  <2>9. Resolves(f, x, v)
    BY <2>6, <2>7, <2>8 DEF Resolves, Closed
  <2>10. QED
    BY <2>9 DEF v, g
<1>4. ASSUME NEW f \in Included, NEW x \in DOMAIN externals'[f]
      PROVE  Resolves(f, x, externals[f][x])'
  <2>1. externals'[f] = [y \in objs[f].ExternalSymbols |-> Evaluate(Exporter(y), y)]
    BY <1>1
  <2>2. x \in objs[f].ExternalSymbols /\ externals'[f][x] = Evaluate(Exporter(x), x)
    BY <1>4, <2>1
  <2> DEFINE v == externals'[f][x]
  <2>3. Resolves(f, x, v)
    BY <1>3, <2>2
  <2>4. Resolves(f, x, externals[f][x])' <=> Resolves(f, x, v)
    <3>1. /\ Files' = Files /\ Included' = Included /\ Names(f)' = Names(f)
      BY <1>1 DEF Files, Included, Names
    <3>2. References' = References
      BY <1>1, <3>1 DEF References, Names, IsLabel, Files
    <3>3. \A t : Denotes(t, externals[f][x])' <=> Denotes(t, v)
      BY <1>1, <3>1 DEF Denotes, IsLabel, Place, u64
    <3>4. QED
      BY <3>1, <3>2, <3>3 DEF Resolves, Closed, Successors
  <2>5. QED
    BY <2>3, <2>4
<1>5. Included' = Included
  BY <1>1 DEF Included
<1>6. ExternalsOK'
  BY <1>1, <1>4, <1>5 DEF ExternalsOK
<1>7. GlobalsOK' /\ HolesOK'
  BY <1>1 DEF GlobalsOK, HolesOK
<1>8. QED
  BY <1>6, <1>7 DEF ValuesOK

(* A hole's cell gets the value of its symbol and no other.                *)
LEMMA HoleFilled ==
  ASSUME IInv, TypeInv, NEW f \in Included, NEW h \in objs[f].holes
  PROVE  LET s == h[1]
             k == HoleAt(f, h)
         IN /\ s \in Stored /\ k \in DOMAIN segments[s]
            /\ Filled(s, k) = [segments[s][k] EXCEPT ![5] = Evaluate(f, h[3])]
            /\ Filled(s, k)[5] = Evaluate(f, h[3])
<1> DEFINE s == h[1]
           k == HoleAt(f, h)
           c == segments[s][k]
           v == Evaluate(f, h[3])
<1>1. \A g \in Included : g \in Files /\ Placed(g) /\ IsObjectFile(objs[g])
  BY DEF TypeInv, LayoutOK, PlacesOK, FoundOK, ShapeOK, SameShape
<1>2. ASSUME NEW g \in Included, NEW i \in objs[g].holes, i[1] \in Stored
      PROVE  /\ HoleAt(g, i) \in DOMAIN segments[i[1]]
             /\ IsCell(segments[i[1]][HoleAt(g, i)], g, i[1], i[2])
  <2> DEFINE r == i[1]
             from == included[g][r]
             size == program[g].size[r]
             n == Len(segments[r])
             o == i[2]
  <2>1. /\ o \in Nat /\ o < size
    <3>1. /\ i \in Stored \X Nat \X STRING /\ i[2] < objs[g].size[i[1]]
      BY <1>1 DEF IsObjectFile
    <3>2. objs[g].size = program[g].size
      BY <1>1, FileFields DEF TypeInv
    <3>3. QED
      BY <3>1, <3>2
  <2>2. from \in Nat /\ size \in Nat
    BY <1>1, <1>2, FileFields DEF TypeInv, Placed, Segments
  <2>3. Stands(segments[r], from, g, r, size)
    BY <1>1, <1>2 DEF Placed
  <2>4. n \in Nat /\ DOMAIN segments[r] = 1 .. n
    BY <1>2, SequenceParts DEF TypeInv, LayoutOK, SegmentsOK
  <2>5. HoleAt(g, i) = from + o + 1
    BY DEF HoleAt
  <2> HIDE DEF from, size, n, o
  <2>6. from + o + 1 \in 1 .. n /\ o \in 0 .. (size - 1)
    BY <2>1, <2>2, <2>3, <2>4 DEF Stands, n
  <2>7. IsCell(segments[r][from + o + 1], g, r, o)
    BY <2>3, <2>6 DEF Stands
  <2>8. QED
    BY <2>4, <2>5, <2>6, <2>7 DEF o
<1>3. s \in Stored
  BY <1>1 DEF IsObjectFile
<1>4. k \in DOMAIN segments[s] /\ IsCell(c, f, s, h[2])
  BY <1>2, <1>3
<1>5. ASSUME NEW q \in Holes, q[2][1] = s, HoleAt(q[1], q[2]) = k
      PROVE  q[1] = f /\ q[2] = h
  <2>1. q[1] \in Included /\ q[2] \in objs[q[1]].holes
    BY DEF Holes
  <2>2. IsCell(c, q[1], s, q[2][2])
    BY <1>2, <1>3, <1>5, <2>1
  <2> DEFINE u == c[5]
             a == q[1]
             b == q[2][2]
             d == h[2]
  <2>3. c = <<"cell", a, s, b, u>> /\ c = <<"cell", f, s, d, u>>
    BY <1>4, <2>2 DEF IsCell
  <2> HIDE DEF a, b, c, d, u, s
  <2>4. a = f /\ b = d
    BY <2>3
  <2>5. q[1] = f /\ q[2][2] = h[2] /\ q[2] \in objs[f].holes
    BY <2>1, <2>4 DEF a, b, d
  <2>6. q[2][1] = h[1]
    BY <1>5 DEF s
  <2>7. q[2] = h
    BY <1>1, <2>5, <2>6 DEF IsObjectFile
  <2>8. QED
    BY <2>5, <2>7
<1>6. <<f, h>> \in Holes
  BY DEF Holes
<1>7. Fillings(s, k) = {v}
  <2>1. \A q \in {p \in Holes : p[2][1] = s /\ HoleAt(p[1], p[2]) = k} : Evaluate(q[1], q[2][3]) = v
    BY <1>5
  <2>2. <<f, h>> \in {p \in Holes : p[2][1] = s /\ HoleAt(p[1], p[2]) = k}
    BY <1>6
  <2>3. v \in Fillings(s, k)
    <3> DEFINE q == <<f, h>>
    <3>1. q \in {p \in Holes : p[2][1] = s /\ HoleAt(p[1], p[2]) = k} /\ Evaluate(q[1], q[2][3]) = v
      BY <2>2
    <3> HIDE DEF q, v, s, k
    <3>2. QED
      BY <3>1 DEF Fillings
  <2> HIDE DEF v, s, k
  <2>4. Fillings(s, k) \subseteq {v}
    BY <2>1 DEF Fillings
  <2>5. QED
    BY <2>3, <2>4
<1> HIDE DEF s, k, v, c
<1>8. Filled(s, k) = [c EXCEPT ![5] = v]
  <2>1. (CHOOSE w \in Fillings(s, k) : TRUE) = v
    BY <1>7
  <2>2. QED
    BY <1>7, <2>1 DEF Filled, c
<1>9. Filled(s, k)[5] = v
  BY <1>4, <1>8, CellRefilled
<1>10. QED
  BY <1>3, <1>4, <1>8, <1>9 DEF s, k, c, v

LEMMA HolesDefined ==
  ASSUME IInv, TypeInv, ValuesOK, FixAllHoles, phase' # "failed"
  PROVE  ValuesOK'
<1>1. /\ phase = "defined" /\ phase' = "patched" /\ UNCHANGED <<objs, included, origins>>
      /\ segments' = [s \in Stored |-> [k \in DOMAIN segments[s] |-> Filled(s, k)]]
      /\ \A p \in Holes : Evaluate(p[1], p[2][3]) # Unknown
  BY DEF FixAllHoles, Fails, Goes
<1>2. Holes' = Holes
  BY <1>1 DEF Holes, Included
<1>3. ASSUME NEW p \in Holes
      PROVE  Resolves(p[1], p[2][3], segments[p[2][1]][HoleAt(p[1], p[2])][5])'
  <2> DEFINE f == p[1]
             h == p[2]
             n == h[3]
             s == h[1]
             k == HoleAt(f, h)
             v == Evaluate(f, n)
             w == segments[s][k][5]
  <2>1. f \in Included /\ h \in objs[f].holes
    BY DEF Holes
  <2>2. ShapeOK /\ f \in Files /\ n \in STRING
    <3>1. ShapeOK /\ f \in Files
      BY <2>1 DEF TypeInv, FoundOK
    <3>2. h \in Stored \X Nat \X STRING
      BY <2>1, <3>1 DEF ShapeOK, SameShape, IsObjectFile
    <3>3. QED
      BY <3>1, <3>2
  <2>3. v # Unknown
    BY <1>1
  <2>4. \A x \in DOMAIN externals[f] : Resolves(f, x, externals[f][x])
    BY <1>1, <2>1 DEF ValuesOK, ExternalsOK
  <2>5. Resolves(f, n, v)
    <3> HIDE DEF f, n
    <3>1. QED
      BY <2>1, <2>2, <2>3, <2>4, EvaluateResolves
  <2>6. s \in Stored /\ k \in DOMAIN segments[s] /\ Filled(s, k)[5] = v
    <3> HIDE DEF f, h
    <3>1. QED
      BY <2>1, HoleFilled
  <2>7. HoleAt(f, h)' = HoleAt(f, h)
    BY <1>1 DEF HoleAt
  <2>8. w' = v
    <3>1. segments'[s][k] = Filled(s, k)
      BY <1>1, <2>6
    <3>2. w' = segments'[s][k][5]
      BY <2>7
    <3>3. QED
      BY <2>6, <3>1, <3>2
  <2>9. Resolves(f, n, w)' <=> Resolves(f, n, v)
    <3>1. /\ Files' = Files /\ Included' = Included /\ Names(f)' = Names(f)
      BY <1>1 DEF Files, Included, Names
    <3>2. References' = References
      BY <1>1, <3>1 DEF References, Names, IsLabel, Files
    <3> HIDE DEF v, w
    <3>3. \A t : Denotes(t, w)' <=> Denotes(t, v)
      BY <1>1, <2>8, <3>1 DEF Denotes, IsLabel, Place, u64
    <3>4. QED
      BY <2>8, <3>1, <3>2, <3>3 DEF Resolves, Closed, Successors
  <2>10. QED
    BY <2>5, <2>9
<1>4. HolesOK'
  BY <1>2, <1>3 DEF HolesOK
<1>5. ExternalsOK' /\ GlobalsOK'
  BY <1>1 DEF ExternalsOK, GlobalsOK
<1>6. QED
  BY <1>4, <1>5 DEF ValuesOK

LEMMA ValuesKept ==
  ASSUME IInv, TypeInv, ValuesOK, [Next]_vars
  PROVE  ValuesOK'
<1>1. CASE phase' \notin Late
  BY <1>1 DEF ValuesOK, ExternalsOK, GlobalsOK, HolesOK, Late
<1>2. CASE UNCHANGED <<objs, included, origins, externals, segments>>
           /\ \/ phase' = phase
              \/ phase = "patched" /\ phase' = "linked"
              \/ /\ phase = "laid out" /\ phase' = "evaluated"
                 /\ \A f \in Included : \A g \in objs[f].GlobalSymbols : Evaluate(f, g) # Unknown
  <2>1. Included' = Included /\ Holes' = Holes
    BY <1>2 DEF Included, Holes
  <2>2. /\ References' = References
        /\ \A f : Names(f)' = Names(f)
    <3>1. UNCHANGED <<objs, included, origins>>
      BY <1>2
    <3>2. QED
      BY <3>1, DenotesSame
  <2>3. ASSUME NEW f \in Included, NEW x \in objs[f].GlobalSymbols
        PROVE  Evaluate(f, x)' = Evaluate(f, x)
    <3>1. UNCHANGED <<objs, included, origins, externals>>
      BY <1>2
    <3>2. QED
      BY <3>1, EvaluateSame
  <2>4. ExternalsOK'
    <3>1. CASE phase' \in {"laid out", "evaluated"}
      <4>1. phase \in {"laid out", "evaluated"}
        BY <1>2, <3>1
      <4>2. QED
        BY <1>2, <2>1, <3>1, <4>1 DEF ValuesOK, ExternalsOK
    <3>2. CASE phase' = "defined"
      <4>1. phase = "defined"
        BY <1>2, <3>2
      <4>2. ASSUME NEW f \in Included, NEW x \in DOMAIN externals[f]
            PROVE  Resolves(f, x, externals[f][x])'
        <5>1. Resolves(f, x, externals[f][x])
          BY <4>1 DEF ValuesOK, ExternalsOK
        <5>2. \A t : Denotes(t, externals[f][x])' <=> Denotes(t, externals[f][x])
          BY <1>2, <2>1 DEF Denotes, IsLabel, Place, u64
        <5>3. QED
          BY <2>2, <5>1, <5>2 DEF Resolves, Closed, Successors
      <4>3. QED
        BY <1>2, <2>1, <3>2, <4>2 DEF ExternalsOK
    <3>3. QED
      BY <3>1, <3>2 DEF ExternalsOK
  <2>5. GlobalsOK'
    BY <1>2, <2>1, <2>3 DEF ValuesOK, GlobalsOK
  <2>6. HolesOK'
    <3> SUFFICES ASSUME phase' \in {"patched", "linked"}, NEW p \in Holes
                 PROVE  Resolves(p[1], p[2][3], segments[p[2][1]][HoleAt(p[1], p[2])][5])'
      BY <2>1 DEF HolesOK
    <3>1. phase \in {"patched", "linked"}
      BY <1>2
    <3>2. Resolves(p[1], p[2][3], segments[p[2][1]][HoleAt(p[1], p[2])][5])
      BY <3>1 DEF ValuesOK, HolesOK
    <3> DEFINE f == p[1]
               n == p[2][3]
               v == segments[p[2][1]][HoleAt(p[1], p[2])][5]
    <3>3. v' = v
      BY <1>2 DEF HoleAt
    <3> HIDE DEF v
    <3>4. \A t : Denotes(t, v)' <=> Denotes(t, v)
      BY <1>2, <2>1, <3>3 DEF Denotes, IsLabel, Place, u64
    <3>5. Resolves(f, n, v)' <=> Resolves(f, n, v)
      BY <2>2, <3>4 DEF Resolves, Closed, Successors
    <3>6. QED
      BY <3>2, <3>5 DEF v
  <2>7. QED
    BY <2>4, <2>5, <2>6 DEF ValuesOK
<1>3. CASE \E f \in Files, value \in Values : Provision(f, value)
  BY <1>1, <1>3 DEF Provision, Late
<1>4. CASE \E e \in Entries : RefuseArguments(e) \/ RenameStart(e)
  BY <1>1, <1>4 DEF RefuseArguments, RenameStart, Fails, Goes, Late
<1>5. CASE CheckGlobals \/ IncludeFile \/ PlaceLiterals
  BY <1>1, <1>5 DEF CheckGlobals, IncludeFile, PlaceLiterals, Fails, Goes, Late
<1>6. CASE DefineOrigins
  <2>1. phase' = "laid out" /\ included' = included /\ externals' = [f \in Included |-> <<>>]
    BY <1>6 DEF DefineOrigins, Goes
  <2>2. QED
    BY <2>1 DEF ValuesOK, ExternalsOK, GlobalsOK, HolesOK, Included
<1>7. CASE EvaluateGlobals
  BY <1>1, <1>2, <1>7 DEF EvaluateGlobals, Fails, Goes, layoutVars, Late
<1>8. CASE DefineExternals
  BY <1>1, <1>8, ExternalsDefined DEF Late
<1>9. CASE FixAllHoles
  BY <1>1, <1>9, HolesDefined DEF Late
<1>10. CASE construct
  BY <1>1, <1>2, <1>10 DEF construct, Fails, Goes, layoutVars, Late
<1>11. CASE UNCHANGED vars
  BY <1>2, <1>11 DEF vars, layoutVars
<1>12. QED
  BY <1>3, <1>4, <1>5, <1>6, <1>7, <1>8, <1>9, <1>10, <1>11 DEF Next, Link

LEMMA ValuesInit == Init => ValuesOK
BY DEF Init, ValuesOK, ExternalsOK, GlobalsOK, HolesOK

LEMMA LinkerValues == ASSUME BssFits PROVE Spec => []ValuesOK
<1>1. IInv /\ TypeInv /\ ValuesOK /\ [Next]_vars => ValuesOK'
  BY ValuesKept
<1>2. QED
  BY <1>1, ValuesInit, LinkerInvariant, LinkerLayout, PTL DEF Spec

-----------------------------------------------------------------------------
(* The executable.                                                         *)

LEMMA ReferencesFinite ==
  ASSUME IInv, ShapeOK
  PROVE  IsFiniteSet(References.node)
<1> DEFINE names(f) == {f} \X Names(f)
           N == {names(f) : f \in Files}
           c == [f \in Files |-> names(f)]
<1>1. IsFiniteSet(Files)
  BY FilesFinite DEF IInv
<1>2. ASSUME NEW f \in Files PROVE IsFiniteSet(names(f))
  <2>1. IsFiniteSet(DOMAIN objs[f].Symbols) /\ IsFiniteSet(objs[f].ExternalSymbols)
    BY DEF ShapeOK, SameShape, IsObjectFile
  <2>2. IsFiniteSet(Reserved) /\ IsFiniteSet({f})
    BY FS_Singleton DEF Reserved
  <2>3. IsFiniteSet(DOMAIN objs[f].Symbols \cup objs[f].ExternalSymbols)
    BY <2>1, FS_Union
  <2>4. IsFiniteSet(Names(f))
    BY <2>2, <2>3, FS_Union DEF Names
  <2>5. QED
    BY <2>2, <2>4, FS_Product
<1> HIDE DEF names
<1>3. c \in Surjection(Files, N)
  BY DEF Surjection
<1>4. IsFiniteSet(N)
  BY <1>1, <1>3, FS_Surjection
<1>5. IsFiniteSet(UNION N)
  BY <1>2, <1>4, FS_UNION
<1>6. References.node = UNION N
  BY DEF References, names
<1>7. QED
  BY <1>5, <1>6

LEMMA CellBegins ==
  ASSUME NEW a, NEW b, NEW c, NEW d, NEW e
  PROVE  SubSeq(<<a, b, c, d, e>>, 1, 4) = <<a, b, c, d>>
<1> DEFINE S == {a, b, c, d, e}
           cell == <<a, b, c, d, e>>
           begin == SubSeq(cell, 1, 4)
<1>1. \A i \in 1 .. 4 : cell[i] \in S
  OBVIOUS
<1>2. cell[1] = a /\ cell[2] = b /\ cell[3] = c /\ cell[4] = d
  OBVIOUS
<1> HIDE DEF S, cell
<1>3. /\ begin \in Seq(S) /\ Len(begin) = 4
      /\ \A i \in 1 .. 4 : begin[i] = cell[i]
  <2>1. /\ begin \in Seq(S) /\ Len(begin) = IF 1 <= 4 THEN 4 - 1 + 1 ELSE 0
        /\ \A i \in 1 .. (4 - 1 + 1) : begin[i] = cell[1 + i - 1]
    <3>1. 1 \in Int /\ 4 \in Int
      OBVIOUS
    <3>2. QED
      BY ONLY <1>1, <3>1, SubSeqProperties
  <2>2. QED
    BY <2>1
<1> HIDE DEF begin
<1>4. begin = <<a, b, c, d>>
  BY <1>2, <1>3
<1>5. QED
  BY <1>4 DEF begin, cell

(* Where the segments are in the executable.                               *)
LEMMA ImageParts ==
  ASSUME SegmentsOK, LaidOut
  PROVE  /\ Len(Image) = origins["BSS"]
         /\ \A s \in Stored : \A k \in 1 .. Len(segments[s]) : Image[origins[s] + k] = segments[s][k]
<1> DEFINE t == segments["TEXT"]
           r == segments["RODATA"]
           d == segments["DATA"]
           tr == t \o r
<1>1. IsSequence(t) /\ IsSequence(r) /\ IsSequence(d)
  BY DEF SegmentsOK, Stored
<1>2. Len(t) \in Nat /\ Len(r) \in Nat /\ Len(d) \in Nat
  BY <1>1, SequenceParts
<1>3. /\ origins["TEXT"] = 0 /\ origins["RODATA"] = Len(t) /\ origins["DATA"] = Len(t) + Len(r)
      /\ origins["BSS"] = Len(t) + Len(r) + Len(d)
  BY DEF LaidOut
<1>4. Image = tr \o d
  BY DEF Image
<1> HIDE DEF t, r, d
<1>5. /\ IsSequence(tr) /\ Len(tr) = Len(t) + Len(r)
      /\ \A k \in 1 .. Len(t) : tr[k] = t[k]
      /\ \A k \in 1 .. Len(r) : tr[Len(t) + k] = r[k]
  BY <1>1, ConcatParts
<1> HIDE DEF tr
<1>6. /\ Len(Image) = Len(tr) + Len(d)
      /\ \A k \in 1 .. Len(tr) : Image[k] = tr[k]
      /\ \A k \in 1 .. Len(d) : Image[Len(tr) + k] = d[k]
  <2>1. /\ Len(tr \o d) = Len(tr) + Len(d)
        /\ \A k \in 1 .. Len(tr) : (tr \o d)[k] = tr[k]
        /\ \A k \in 1 .. Len(d) : (tr \o d)[Len(tr) + k] = d[k]
    <3>1. IsSequence(tr) /\ IsSequence(d)
      BY <1>1, <1>5
    <3>2. QED
      BY ONLY <3>1, ConcatParts
  <2>2. QED
    BY <1>4, <2>1
<1>7. Len(Image) = origins["BSS"]
  BY <1>3, <1>5, <1>6
<1>8. ASSUME NEW k \in 1 .. Len(t) PROVE Image[origins["TEXT"] + k] = t[k]
  <2>1. k \in 1 .. Len(tr) /\ origins["TEXT"] + k = k
    BY <1>2, <1>3, <1>5
  <2>2. QED
    BY <1>5, <1>6, <2>1
<1>9. ASSUME NEW k \in 1 .. Len(r) PROVE Image[origins["RODATA"] + k] = r[k]
  <2> DEFINE i == Len(t) + k
  <2>1. i \in 1 .. Len(tr) /\ origins["RODATA"] + k = i
    BY <1>2, <1>3, <1>5
  <2>2. tr[i] = r[k]
    BY <1>5
  <2> HIDE DEF i
  <2>3. QED
    BY <1>6, <2>1, <2>2
<1>10. ASSUME NEW k \in 1 .. Len(d) PROVE Image[origins["DATA"] + k] = d[k]
  <2>1. origins["DATA"] + k = Len(tr) + k
    BY <1>3, <1>5
  <2>2. QED
    BY <1>6, <2>1
<1>11. QED
  BY <1>7, <1>8, <1>9, <1>10 DEF Stored, t, r, d

(* What a label of an included file stands for.                            *)
LEMMA LabelReached ==
  ASSUME IInv, TypeInv, phase = "linked", NEW g \in Included, NEW n, IsLabel(<<g, n>>)
  PROVE  Reaches(Place(g, objs[g].Symbols[n]), g, objs[g].Symbols[n])
<1> DEFINE label == objs[g].Symbols[n]
           s == label[2]
           off == label[3]
           o == origins[s]
           i == included[g][s]
           size == program[g].size[s]
           align == program[g].align[s]
           x == origins["BSS"] + bsslen
<1>1. g \in Files /\ n \in DOMAIN objs[g].Symbols /\ label[1] = "label"
  BY DEF TypeInv, FoundOK, IsLabel
<1>2. s \in Segments /\ off \in Nat /\ off <= objs[g].size[s]
  BY <1>1, SymbolParts DEF TypeInv
<1>3. objs[g].size = program[g].size /\ objs[g].align = program[g].align
      /\ size \in Nat /\ align \in Nat \ {0}
  BY <1>1, <1>2, FileFields DEF TypeInv
<1>4. LaidOut /\ SegmentsOK /\ Placed(g) /\ bsslen \in Nat /\ x < W
  BY DEF TypeInv, LayoutOK, OriginsOK, PlacesOK, BssOK, LinkedOK, Late
<1>5. i \in Nat /\ i % align = 0 /\ o % align = 0
  BY <1>2, <1>4 DEF Placed, LaidOut
<1>6. \A q \in Segments : origins[q] \in Nat
  BY <1>4, OriginNumbers DEF TypeInv, LaidOut
<1>7. o \in Nat /\ x \in Nat
  BY <1>2, <1>4, <1>6 DEF Segments
<1>8. o + i + size <= x
  <2>1. CASE s = "BSS"
    <3>1. i + size <= bsslen
      BY <1>4, <2>1 DEF Placed
    <3> HIDE DEF i, size
    <3>2. QED
      BY <1>3, <1>4, <1>5, <1>7, <2>1, <3>1
  <2>2. CASE s \in Stored
    <3> DEFINE n1 == Len(segments["TEXT"])
               n2 == Len(segments["RODATA"])
               n3 == Len(segments["DATA"])
               n4 == Len(segments[s])
    <3>1. i + size <= n4
      BY <1>4, <2>2 DEF Placed, Stands
    <3>2. n1 \in Nat /\ n2 \in Nat /\ n3 \in Nat
      BY <1>4, SequenceParts DEF SegmentsOK, Stored
    <3>3. /\ origins["TEXT"] = 0 /\ origins["RODATA"] = n1 /\ origins["DATA"] = n1 + n2
          /\ origins["BSS"] = n1 + n2 + n3
      BY <1>4 DEF LaidOut
    <3>4. \/ o = 0 /\ n4 = n1
          \/ o = n1 /\ n4 = n2
          \/ o = n1 + n2 /\ n4 = n3
      BY <2>2, <3>3 DEF Stored
    <3>5. i \in Nat /\ size \in Nat /\ bsslen \in Nat
      BY <1>3, <1>4, <1>5
    <3>6. x = n1 + n2 + n3 + bsslen
      BY <3>3
    <3> HIDE DEF label, s, off, o, i, size, align, x, n1, n2, n3, n4
    <3>7. QED
      BY <3>1, <3>2, <3>4, <3>5, <3>6, SMTT(30)
  <2>3. QED
    BY <1>2, <2>1, <2>2 DEF Segments
<1>9. Place(g, label) = u64(o + i + off)
  BY DEF Place
<1>10. o + i + off \in Nat /\ o + i + off < W
  <2>1. W \in Nat
    BY LinkerAssumption
  <2>2. off <= size
    BY <1>2, <1>3
  <2>3. o \in Nat /\ i \in Nat /\ off \in Nat /\ size \in Nat /\ x \in Nat /\ x < W
    BY <1>2, <1>3, <1>4, <1>5, <1>7
  <2> HIDE DEF label, s, o, i, off, size, align, x
  <2>4. QED
    BY <1>8, <2>1, <2>2, <2>3, SMTT(30)
<1>11. Place(g, label) - off = o + i
  <2>1. Place(g, label) = o + i + off
    BY <1>9, <1>10, SmallIsSame
  <2> HIDE DEF o, i, off, label
  <2>2. QED
    BY <1>2, <1>5, <1>7, <2>1
<1>12. (o + i) % align = 0
  <2> HIDE DEF o, i, align
  <2>1. QED
    BY <1>3, <1>5, <1>7, SumOfMultiples
<1>13. s = "BSS" => o + i = BssFrom(g)
  BY DEF BssFrom
<1>14. ASSUME s # "BSS", NEW k \in 0 .. (size - 1)
       PROVE  SubSeq(Image[o + i + k + 1], 1, 4) = <<"cell", g, s, k>>
  <2> DEFINE c == segments[s][i + k + 1]
  <2>1. s \in Stored
    BY <1>2, <1>14 DEF Segments
  <2>2. Stands(segments[s], i, g, s, size)
    BY <1>4, <2>1 DEF Placed
  <2>3. IsCell(c, g, s, k)
    BY <2>2 DEF Stands
  <2>4. i + k + 1 \in 1 .. Len(segments[s])
    <3>1. Len(segments[s]) \in Nat /\ i + size <= Len(segments[s])
      BY <1>4, <2>1, <2>2, SequenceParts DEF SegmentsOK, Stands
    <3> HIDE DEF i, s, size
    <3>2. QED
      BY <1>3, <1>5, <3>1
  <2>5. Image[o + (i + k + 1)] = c
    BY <1>4, <2>1, <2>4, ImageParts
  <2>6. o + (i + k + 1) = o + i + k + 1
    <3>1. o \in Nat /\ i \in Nat /\ k \in Int
      BY <1>5, <1>7
    <3> HIDE DEF label, s, o, i, size, align
    <3>2. QED
      BY <3>1, SMTT(30)
  <2> HIDE DEF o, i, s, c
  <2>7. SubSeq(c, 1, 4) = <<"cell", g, s, k>>
    <3>1. c = <<"cell", g, s, k, c[5]>>
      BY <2>3 DEF IsCell
    <3>2. QED
      BY <3>1, CellBegins
  <2>8. QED
    BY <2>5, <2>6, <2>7
<1>15. Holds(o + i, g, s)
  BY <1>3, <1>12, <1>13, <1>14 DEF Holds
<1>16. QED
  BY <1>11, <1>15 DEF Reaches

(* What a hole holds is what its symbol stands for.                        *)
LEMMA HoleResolved ==
  ASSUME IInv, TypeInv, ValuesOK, phase = "linked", NEW p \in Holes
  PROVE  LET address == segments[p[2][1]][HoleAt(p[1], p[2])][5]
         IN \E t \in Reached(References, <<p[1], p[2][3]>>) :
              IF t[2] \in Reserved THEN address = origins["heap"]
              ELSE IsLabel(t) /\ Reaches(address, t[1], objs[t[1]].Symbols[t[2]])
<1> DEFINE f == p[1]
           n == p[2][3]
           start == <<f, n>>
           address == segments[p[2][1]][HoleAt(p[1], p[2])][5]
           S == Reached(References, start)
<1>1. Resolves(f, n, address)
  BY DEF ValuesOK, HolesOK
<1>2. f \in Files
  BY DEF Holes, TypeInv, FoundOK
<1>3. start \in References.node
  BY <1>1, <1>2, ReferencesParts DEF Resolves
<1>4. IsFiniteSet(References.node)
  BY ReferencesFinite DEF TypeInv
<1>5. start \in S /\ Closed(References, S) /\ S \subseteq References.node
  <2> HIDE DEF start
  <2>1. QED
    BY ONLY <1>3, <1>4, ReachedIsLeast
<1> HIDE DEF address, S
<1>6. PICK t \in S : Denotes(t, address)
  BY <1>1, <1>5 DEF Resolves
<1>7. CASE t[2] \in Reserved
  BY <1>6, <1>7 DEF Denotes, S, address
<1>8. CASE t[2] \notin Reserved
  <2>1. /\ IsLabel(t) /\ t[1] \in Included
        /\ address = Place(t[1], objs[t[1]].Symbols[t[2]])
    BY <1>6, <1>8 DEF Denotes
  <2>2. IsLabel(<<t[1], t[2]>>)
    BY <2>1 DEF IsLabel
  <2>3. Reaches(address, t[1], objs[t[1]].Symbols[t[2]])
    BY <2>1, <2>2, LabelReached
  <2>4. QED
    BY <1>8, <2>1, <2>3 DEF S, address
<1>9. QED
  BY <1>7, <1>8

(* Every file's bss is in that of the executable.                          *)
LEMMA BssLies ==
  ASSUME IInv, TypeInv, phase = "linked"
  PROVE  /\ \A f \in Included : BssOf(f) \subseteq Len(Image) .. (origins["heap"] - 1)
         /\ \A f, g \in Included : f # g => BssOf(f) \cap BssOf(g) = {}
         /\ origins["heap"] % 2 = 0
<1> DEFINE b == origins["BSS"]
           at(f) == included[f]["BSS"]
           size(f) == objs[f].size["BSS"]
<1>1. /\ LaidOut /\ SegmentsOK /\ PlacesOK /\ BssApart /\ bsslen \in Nat
      /\ b + bsslen < W /\ b \in Nat
  <2>1. /\ LaidOut /\ SegmentsOK /\ PlacesOK /\ BssApart /\ bsslen \in Nat /\ b + bsslen < W
    BY DEF TypeInv, LayoutOK, OriginsOK, BssOK, LinkedOK, Late
  <2>2. b \in Nat
    BY <2>1, OriginNumbers DEF TypeInv, LaidOut, Segments
  <2>3. QED
    BY <2>1, <2>2
<1>2. Len(Image) = b
  BY <1>1, ImageParts
<1>3. origins["heap"] = b + bsslen /\ (b + bsslen) % 2 = 0
  <2>1. b + bsslen \in Nat
    BY <1>1
  <2>2. QED
    BY <1>1, <2>1, SmallIsSame DEF LaidOut
<1>4. \A f \in Included : /\ at(f) \in Nat /\ size(f) \in Nat /\ at(f) + size(f) <= bsslen
                          /\ size(f) = program[f].size["BSS"]
  <2> TAKE f \in Included
  <2>1. f \in Files
    BY DEF TypeInv, FoundOK
  <2>2. Placed(f) /\ objs[f].size = program[f].size /\ program[f].size \in [Segments -> Nat]
    BY <1>1, <2>1, FileFields DEF TypeInv, PlacesOK
  <2>3. QED
    BY <2>2 DEF Placed, Segments
<1>5. \A f \in Included : BssOf(f) = (b + at(f)) .. (b + at(f) + size(f) - 1)
  BY DEF BssOf, BssFrom
<1>6. \A f, g \in Included : f # g => at(f) + size(f) <= at(g) \/ at(g) + size(g) <= at(f)
  BY <1>1, <1>4 DEF BssApart, Precedes
<1> HIDE DEF at, size, b
<1>7. ASSUME NEW f \in Included
      PROVE  BssOf(f) \subseteq Len(Image) .. (origins["heap"] - 1)
  BY <1>1, <1>2, <1>3, <1>4, <1>5, SMTT(30)
<1>8. ASSUME NEW f \in Included, NEW g \in Included, f # g
      PROVE  BssOf(f) \cap BssOf(g) = {}
  BY <1>1, <1>4, <1>5, <1>6, <1>8, SMTT(30)
<1>9. QED
  BY <1>3, <1>7, <1>8

(* In an executable every hole holds the address of what its symbol stands *)
(* for, whatever files and however they refer to each other; the bss of    *)
(* the files lies apart and before the heap: Link.                         *)
THEOREM LinkerReferencesResolve == ASSUME BssFits PROVE Spec => []ReferencesResolve
<1>1. IInv /\ TypeInv /\ ValuesOK => ReferencesResolve
  BY HoleResolved, BssLies DEF ReferencesResolve
<1>2. QED
  BY <1>1, LinkerInvariant, LinkerLayout, LinkerValues, PTL

=============================================================================
