--------------------------- MODULE BinaryLiterals ---------------------------
(***************************************************************************)
(* BinaryLiteralCollection of src/src/BinaryLiteral.cpp: binary literals   *)
(* that share their bytes.                                                 *)
(*                                                                         *)
(* A literal is a range of a top level literal, and the token of a literal *)
(* holds its index in "literals": adding another may replace, move or      *)
(* remove top level literals, and all the ranges follow.                   *)
(*                                                                         *)
(* Sequences start at 1 here, a range starts at 0 as in the code.          *)
(***************************************************************************)
EXTENDS Integers, Sequences, FiniteSetsExt

CONSTANTS
  Bytes       (* what a literal is made of                                 *)

BinaryLiteral == [top_level_index : Nat, start : Nat, length : Nat]
Collection == [literals : Seq(BinaryLiteral), top_level_literals : Seq(Seq(Bytes))]

NoLiterals == [literals |-> <<>>, top_level_literals |-> <<>>]

Aliasing(top, start, length) == [top_level_index |-> top, start |-> start, length |-> length]

(* Where sub is found in super, and the place that is taken: the last.     *)
Places(super, sub) ==
  {start \in 0 .. (Len(super) - Len(sub)) : SubSeq(super, start + 1, start + Len(sub)) = sub}
Within(sub, super) == Places(super, sub) # {}
find_subregion(super, sub) == Max(Places(super, sub))

(* A range that is there already gets no second entry.                     *)
IndexOf(c, lit) == Min({i \in DOMAIN c.literals : c.literals[i] = lit})
Inserted(c, lit) ==
  IF \E i \in DOMAIN c.literals : c.literals[i] = lit THEN c
  ELSE [c EXCEPT !.literals = Append(@, lit)]

Shifted(lit, top, by) == [lit EXCEPT !.top_level_index = top, !.start = @ + by]

-----------------------------------------------------------------------------
(* Top level literal i is replaced by a value that contains it.           *)

ReplacedBy(c, i, value) ==
  LET by == find_subregion(value, c.top_level_literals[i])
      Follow(lit) == IF lit.top_level_index = i THEN Shifted(lit, i, by) ELSE lit
  IN [c EXCEPT !.top_level_literals[i] = value, !.literals = [k \in DOMAIN @ |-> Follow(@[k])]]

(* The last element takes the place of element j.                          *)
MovePop(s, j) == [k \in 1 .. (Len(s) - 1) |-> IF k = j THEN s[Len(s)] ELSE s[k]]

\* Mutant: the ranges of the literal that moves stay behind.
RepointedUnmoved(lit, i, j, last, by) ==
  IF lit.top_level_index = j THEN Shifted(lit, i, by) ELSE lit

(* Top level literal j, which i contains, is removed, and the last one     *)
(* moves to its place; the ranges of both follow.                          *)
Repointed(lit, i, j, last, by) ==
  CASE lit.top_level_index = j -> Shifted(lit, i, by)
    [] lit.top_level_index = last /\ j # last -> Shifted(lit, j, 0)
    [] OTHER -> lit
Moved(i, j, last) == IF i = last THEN j ELSE i
Removed(c, i, j) ==
  LET tops == c.top_level_literals
      last == Len(tops)
      Follow(lit) ==
        Repointed(lit, Moved(i, j, last), j, last, find_subregion(tops[i], tops[j]))
  IN [c EXCEPT !.top_level_literals = MovePop(@, j),
               !.literals = [k \in DOMAIN @ |-> Follow(@[k])]]

HoldsNext(s) ==
  LET tops == s.c.top_level_literals
  IN s.j <= Len(tops) /\ s.j # s.i /\ Within(tops[s.j], tops[s.i])
WithoutTop(s) ==
  [c |-> Removed(s.c, s.i, s.j), i |-> Moved(s.i, s.j, Len(s.c.top_level_literals)), j |-> s.j]

\* Mutant: the literal that moved to j is not looked at.
SearchedSkipping(s) == IF HoldsNext(s) THEN [WithoutTop(s) EXCEPT !.j = @ + 1] ELSE [s EXCEPT !.j = @ + 1]

(* The search for others that i contains, from j on.                       *)
Searched(s) == IF HoldsNext(s) THEN WithoutTop(s) ELSE [s EXCEPT !.j = @ + 1]
Absorbed(c, i) ==
  LET search[n \in 0 .. Len(c.top_level_literals)] ==
        IF n = 0 THEN [c |-> c, i |-> i, j |-> 1] ELSE Searched(search[n - 1])
  IN search[Len(c.top_level_literals)]

-----------------------------------------------------------------------------
(* add: the value shares the bytes of a top level literal it is found in,  *)
(* or replaces those found in it, or becomes one itself.                   *)

Sharing(c, value) == {i \in DOMAIN c.top_level_literals : Within(value, c.top_level_literals[i])}
Contained(c, value) == {i \in DOMAIN c.top_level_literals : Within(c.top_level_literals[i], value)}

(* The collection with the value, and the index of its range in it.        *)
With(c, lit) == [c |-> Inserted(c, lit), index |-> IndexOf(Inserted(c, lit), lit)]
Added(c, value) ==
  IF Sharing(c, value) # {} THEN
    LET i == Min(Sharing(c, value))
    IN With(c, Aliasing(i, find_subregion(c.top_level_literals[i], value), Len(value)))
  ELSE IF Contained(c, value) # {} THEN
    LET i == Min(Contained(c, value))
        s == Absorbed(ReplacedBy(c, i, value), i)
    IN With(s.c, Aliasing(s.i, 0, Len(value)))
  ELSE
    LET tops == Append(c.top_level_literals, value)
    IN With([c EXCEPT !.top_level_literals = tops], Aliasing(Len(tops), 0, Len(value)))

-----------------------------------------------------------------------------
(* What a range denotes, for those that lie within a top level literal.    *)

Proper(c, lit) ==
  /\ lit.top_level_index \in DOMAIN c.top_level_literals
  /\ lit.start + lit.length <= Len(c.top_level_literals[lit.top_level_index])
Denoted(c, lit) ==
  SubSeq(c.top_level_literals[lit.top_level_index], lit.start + 1, lit.start + lit.length)

=============================================================================
