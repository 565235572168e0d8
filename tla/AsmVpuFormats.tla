--------------------------- MODULE AsmVpuFormats ---------------------------
(***************************************************************************)
(* The format handlers of the assembler for the vector instructions.  A    *)
(* vector route also has the element size code elem and the flags          *)
(* maskable, aligned and scalar.  The mask of the first operand is apart   *)
(* from the operands: m.expr is <<>> or the expression, m.zero the z after *)
(* it.                                                                     *)
(***************************************************************************)
EXTENDS AsmFormats

NoMask == [expr |-> <<>>, zero |-> FALSE]
Masked(e) == [expr |-> <<e>>, zero |-> FALSE]
ZeroMasked(e) == [expr |-> <<e>>, zero |-> TRUE]
IsMask(m) == (m.expr # <<>> => m.expr[1] \in Expressions) /\ m.zero \in BOOLEAN

Flag(on, weight) == IF on THEN weight ELSE 0
BitsToBytes(n) == (n + 7) \div 8
ElementCount(route, size) == IF route.scalar THEN 1 ELSE Bytes(size) \div Bytes(route.elem)

\* VPUMaskPresent: a mask known to be all ones is no mask, one that cannot be
\* evaluated yet is a mask
AllOnes(v, count) ==
  IF count < 8 THEN v % 2 ^ count = 2 ^ count - 1
  ELSE \A i \in 1..BitsToBytes(count) : IntegerBytes(v, BitsToBytes(count))[i] = 255
VPUMaskPresent(m, count) ==
  /\ m.expr # <<>>
  /\ m.expr[1].known = "now" => ~AllOnes(m.expr[1].val, count)
MaskPieces(m, count) ==
  IF VPUMaskPresent(m, count) THEN ExprPiece(BitsToBytes(count), m.expr[1]) ELSE <<>>

\* the two settings bytes and the mask that ProcessVPUMove, Binary and Unary read
VectorHead(route, elem, m, reg, size, mode) ==
  LET count == ElementCount(route, size)
  IN  Opcode(route) \o Byte(reg * 8 + Flag(route.aligned, 4) + size - 4)
        \o Byte(Flag(VPUMaskPresent(m, count), 128) + Flag(m.zero, 64) + Flag(route.scalar, 32)
                  + elem * 4 + mode)
        \o MaskPieces(m, count)

Maskable(route, m) == m.expr # <<>> => route.maskable
\* a memory operand of a vector of this size may state its own size only
VectorMem(route, x, size) ==
  x.kind = "mem" /\ Agrees(x, IF route.scalar THEN route.elem ELSE size)
VectorSource(route, x, size) ==
  (x.kind = "vreg" /\ x.size = size) \/ VectorMem(route, x, size)
Source(x) == IF x.kind = "mem" THEN Address(x) ELSE Byte(x.id)
SourceMode(x) == IF x.kind = "mem" THEN 1 ELSE 0

\* a move without a mask is done 64 bits at a time
VPUMove(route, m, x, y) ==
  LET reg == IF x.kind = "vreg" THEN x ELSE y
      plain == ~route.scalar /\ ~VPUMaskPresent(m, ElementCount(route, reg.size))
      head(mode) == VectorHead(route, IF plain THEN 3 ELSE route.elem, m, reg.id, reg.size, mode)
  IN  IF ~Maskable(route, m) THEN Rejected
      ELSE CASE x.kind = "vreg" /\ VectorSource(route, y, x.size) -> head(SourceMode(y)) \o Source(y)
             [] x.kind = "mem" /\ y.kind = "vreg" /\ VectorMem(route, x, y.size) ->
                  head(2) \o Address(x)
             [] OTHER -> Rejected

\* two operands: the destination is the first source too
VPUBinary(route, m, args) ==
  LET x == args[1]
      first == IF Len(args) = 2 THEN x ELSE args[2]
      second == args[Len(args)]
  IN  IF /\ Len(args) \in {2, 3} /\ Maskable(route, m)
         /\ x.kind = "vreg" /\ first.kind = "vreg" /\ first.size = x.size
         /\ VectorSource(route, second, x.size)
      THEN VectorHead(route, route.elem, m, x.id, x.size, SourceMode(second))
             \o Byte(first.id) \o Source(second)
      ELSE Rejected

VPUUnary(route, m, x, y) ==
  IF Maskable(route, m) /\ x.kind = "vreg" /\ VectorSource(route, y, x.size)
  THEN VectorHead(route, route.elem, m, x.id, x.size, SourceMode(y)) \o Source(y)
  ELSE Rejected

\* the last operand is the predicate, known on the spot
VPU_FCMP(route, m, args) ==
  LET pred == args[Len(args)]
  IN  IF /\ Len(args) \in {3, 4} /\ Bare(pred)
         /\ pred.val.known = "now" /\ ~pred.val.float /\ pred.val.val \in 0..31
      THEN VPUBinary([route EXCEPT !.ext = <<pred.val.val>>], m, SubSeq(args, 1, Len(args) - 1))
      ELSE Rejected

-----------------------------------------------------------------------------
(* Conversions: route.ext is the first mode of the mnemonic *)

ScalarMode(route, mode) == Byte(route.op) \o Byte(route.ext[1] + mode)
\* Mutant: a register of any width will do.
Xmm_AnyWidth(x) == x.kind = "vreg"
Xmm(x) == x.kind = "vreg" /\ x.size = 4 /\ x.id <= 15
CPUPart(x) == x.kind = "reg" /\ x.size \in {2, 3}
\* the two sides share a byte; the source half is empty when it is memory
Sides(x, y) ==
  IF y.kind = "mem" THEN Byte(x.id * 16) \o Address(y) ELSE Byte(x.id * 16 + y.id)

\* route.elem is the size of the floating-point source
VPUCVT_scalar_f2i(route, x, y) ==
  IF CPUPart(x) /\ (Xmm(y) \/ (y.kind = "mem" /\ Agrees(y, route.elem)))
  THEN ScalarMode(route, Flag(x.size = 3, 2) + SourceMode(y)) \o Sides(x, y) ELSE Rejected
VPUCVT_scalar_i2f(route, x, y) ==
  IF Xmm(x) /\ (CPUPart(y) \/ (y.kind = "mem" /\ y.sized /\ y.size \in {2, 3}))
  THEN ScalarMode(route, Flag(y.size = 3, 2) + SourceMode(y)) \o Sides(x, y) ELSE Rejected
VPUCVT_scalar_f2f(route, x, y) ==
  IF Xmm(x) /\ (Xmm(y) \/ (y.kind = "mem" /\ Agrees(y, route.elem)))
  THEN ScalarMode(route, SourceMode(y)) \o Sides(x, y) ELSE Rejected

\* Packed: to the same size, to half of it or from half of it, counted by the
\* wider of the two.  Half of an XMM register is still an XMM register.
Half(size) == IF size = 4 THEN 4 ELSE size - 1
PackedRegs(shape, x, y) ==
  CASE shape = "same" -> x.size = y.size
    [] shape = "narrow" -> x.size = Half(y.size)
    [] shape = "wide" -> y.size = Half(x.size)
\* In memory, half is half; an unsized source of a narrowing conversion is only
\* certain when the destination is a YMM register.
PackedMem(shape, x, y) ==
  CASE shape = "same" -> y.sized => x.size = y.size
    [] shape = "narrow" -> IF y.sized THEN x.size = y.size - 1 ELSE x.size = 5
    [] shape = "wide" -> y.sized => y.size = x.size - 1
Widest(shape, x, y) ==
  CASE shape = "narrow" /\ y.kind = "mem" /\ ~y.sized -> 6
    [] shape = "narrow" /\ (y.kind = "vreg" \/ y.sized) -> y.size
    [] shape # "narrow" -> x.size
VPUCVT_packed(route, shape, m, x, y) ==
  LET widest == Widest(shape, x, y)
      count == (IF shape = "same" THEN 4 ELSE 2) * 2 ^ (widest - 4)
  IN  IF /\ x.kind = "vreg"
         /\ \/ y.kind = "vreg" /\ PackedRegs(shape, x, y)
            \/ y.kind = "mem" /\ PackedMem(shape, x, y)
      THEN ScalarMode(route, widest - 4)
             \o Byte(x.id * 8 + SourceMode(y) * 4 + Flag(VPUMaskPresent(m, count), 2) + Flag(m.zero, 1))
             \o MaskPieces(m, count) \o Source(y)
      ELSE Rejected

=============================================================================
