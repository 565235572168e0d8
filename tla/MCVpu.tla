------------------------------- MODULE MCVpu --------------------------------
(***************************************************************************)
(* Vpu for the model checker: bytes of one bit, two registers, so that the *)
(* target may be either operand, both or neither, and forty bytes of       *)
(* memory.                                                                 *)
(***************************************************************************)
EXTENDS Vpu

MCHost(op, e, a, b) == (a + 3 * b + Len(op)) % Values(e)

Plain == [kind |-> "VPUMove", op |-> "MOVE", cond |-> 0, mode |-> 0, reg |-> 0,
          src1 |-> 0, src2 |-> 0, at |-> "register", m |-> 0, size |-> 0, elem |-> 2,
          scalar |-> FALSE, aligned |-> FALSE, mask |-> 0 .. 63, zmask |-> FALSE]

(* Sizes of vectors and their elements.                                    *)
Shapes == {<<0, 3>>, <<0, 2>>, <<0, 1>>, <<0, 0>>, <<1, 3>>, <<3, 2>>}

(* No mask, one that leaves out the first, and one that leaves out others, *)
(* with and without zmask.                                                 *)
Masks == {<<0 .. 63, FALSE>>, <<{1, 2, 4, 5, 7}, FALSE>>, <<{0, 3, 6}, TRUE>>}

Places == {<<"register", 0>>, <<"memory", 16>>, <<"memory", 30>>, <<"memory", 250>>}

Common(base, shapes, places) ==
  {[base EXCEPT !.size = s[1], !.elem = s[2], !.scalar = sc, !.mask = k[1], !.zmask = k[2],
                !.at = p[1], !.m = p[2], !.reg = 0, !.src1 = r, !.src2 = q] :
     s \in shapes, sc \in BOOLEAN, k \in Masks, p \in places, r \in Regs, q \in Regs}

Moves ==
  Common(Plain, Shapes, Places \cup {<<"store", 16>>, <<"store", 2>>, <<"store", 36>>, <<"store", 250>>, <<"UND", 0>>})
  \cup {[Plain EXCEPT !.size = s, !.aligned = TRUE, !.at = at, !.m = m] :
          s \in {0, 1}, at \in {"memory", "store"}, m \in {16, 20}}

Binaries ==
  UNION {Common([Plain EXCEPT !.kind = "VPUBinary", !.op = op],
                {s \in Shapes : s[1] = 0}, {<<"register", 0>>, <<"memory", 30>>}) :
           op \in IntegerOps \cup FloatOps}
  \cup UNION {Common([Plain EXCEPT !.kind = "VPUBinary", !.op = "FCMP", !.cond = c],
                     {<<0, 2>>}, {<<"register", 0>>}) : c \in 1 .. 32}

Unaries ==
  UNION {Common([Plain EXCEPT !.kind = "VPUUnary", !.op = op], Shapes, Places) : op \in UnaryOps}

Conversions ==
  {[Plain EXCEPT !.kind = "VPUCVT_packed", !.mode = c, !.mask = k[1], !.zmask = k[2],
                 !.at = p[1], !.m = p[2], !.src2 = r] :
     c \in (28 .. 48) \cup {49, 52}, k \in Masks, p \in Places \cup {<<"memory", 32>>}, r \in Regs}
  \cup {[Plain EXCEPT !.kind = "VPUCVT_scalar", !.mode = c, !.src2 = r,
                      !.at = IF c % 2 = 1 THEN "memory" ELSE "register", !.m = a] :
          c \in 0 .. 27, r \in Regs, a \in {30, 38}}
  \cup {[Plain EXCEPT !.kind = "TRANS", !.mode = c, !.src2 = r] : c \in {0, 1, 2, 3, 5}, r \in Regs}

MCInstructions == Moves \cup Binaries \cup Unaries \cup Conversions

(* Bits in no order, and runs of them, with lanes that are zero, least,    *)
(* greatest and not a number.                                              *)
Bits(r, c) == [k \in 0 .. 63 |-> ((k * k * k + 5 * r * k + 3 * c) \div (3 + c + r)) % 2]
Runs(r) == [k \in 0 .. 63 |-> IF r = 0 THEN (k \div 8) % 2 ELSE IF k % 8 = 7 THEN 1 ELSE (k \div 32) % 2]

MCVectors == {[r \in Regs |-> Bits(r, 0)], [r \in Regs |-> Bits(r, 2)], [r \in Regs |-> Runs(r)]}

MCContents == {[k \in 1 .. 40 |-> ((k * k + 3) \div 5) % 2]}

=============================================================================
