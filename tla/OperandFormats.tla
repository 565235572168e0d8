--------------------------- MODULE OperandFormats ---------------------------
(***************************************************************************)
(* How the machine reads the operands of an instruction (Computer::Fetch   *)
(* ...Format and the handlers with a format of their own).  A reader       *)
(* starts after the opcode and returns the operands, and where the next    *)
(* instruction starts; Undefined is the UndefinedBehavior error.  Nothing  *)
(* is executed: which register, which address, which immediate and of what *)
(* size is all that is read here.  Past the end of the code everything     *)
(* reads as zero.                                                          *)
(***************************************************************************)
EXTENDS AsmOperands

B(text, at) == IF at \in DOMAIN text THEN text[at] ELSE 0
Raw(text, at, n) == [k \in 1..n |-> B(text, at + k - 1)]
\* the bit of that weight
Bit(byte, weight) == (byte \div weight) % 2
SizeField(byte) == (byte \div 4) % 4

\* operands as they are read
Part(id, size, high) == IF high = 1 THEN HighReg(id) ELSE Reg(id, size)
At(addr, size) == [kind |-> "mem", addr |-> addr, size |-> size]
Value(bytes) == [kind |-> "imm", bytes |-> bytes]

Found(ops, next) == [ops |-> ops, next |-> next]
Undefined == Found(<<[kind |-> "undefined"]>>, 0)

\* GetAddressAdv: multiplier of each register, and the displacement, which is
\* extended with zeros
NoDisplacement == [k \in 1..8 |-> 0]
ReadAddress(text, at) ==
  LET a == B(text, at)
      regs == a % 4 # 0
      b == IF regs THEN B(text, at + 1) ELSE 0
      body == at + (IF regs THEN 2 ELSE 1)
      width == Bytes(SizeField(a))
      mult(r) == (IF Bit(a, 2) = 1 /\ b \div 16 = r THEN 2 ^ ((a \div 16) % 4) ELSE 0)
                   + (IF Bit(a, 1) = 1 /\ b % 16 = r THEN 1 ELSE 0)
  IN  [addr |-> [size |-> SizeField(a), mult |-> [r \in 0..15 |-> mult(r)],
                 disp |-> IF a < 128 THEN NoDisplacement
                          ELSE [k \in 1..8 |-> IF k <= width THEN B(text, body + k - 1) ELSE 0]],
       next |-> body + (IF a < 128 THEN 0 ELSE width)]

\* one operand in memory after the given ones
ThenMem(text, at, before, size) ==
  LET m == ReadAddress(text, at) IN Found(before \o <<At(m.addr, size)>>, m.next)
ThenValue(text, at, before, size) ==
  Found(before \o <<Value(Raw(text, at, Bytes(size)))>>, at + Bytes(size))
\* a byte with a register, and its high flag in the top bit
ThenReg(text, at, before, size) ==
  LET r == B(text, at) IN Found(before \o <<Part(r % 16, size, Bit(r, 128))>>, at + 1)

-----------------------------------------------------------------------------
\* FetchTernaryOpFormat: the immediate comes before the source
Ternary(text, at) ==
  LET s == B(text, at)
      dest == Part(s \div 16, SizeField(s), Bit(s, 2))
      imm == ThenValue(text, at + 1, <<>>, SizeField(s))
      source == IF Bit(s, 1) = 1 THEN ThenMem(text, imm.next, <<>>, SizeField(s))
                ELSE ThenReg(text, imm.next, <<>>, SizeField(s))
  IN  Found(<<dest>> \o source.ops \o imm.ops, source.next)

\* FetchBinaryOpFormat: b_size is the size of the second operand, or InSettings
InSettings == -1
Binary(text, at, b_size) ==
  LET s1 == B(text, at)
      s2 == B(text, at + 1)
      a == SizeField(s1)
      b == IF b_size = InSettings THEN a ELSE b_size
      dest == Part(s1 \div 16, a, Bit(s1, 2))
      source == Part(s2 % 16, b, Bit(s1, 1))
      m == ReadAddress(text, at + 2)
  IN  CASE s2 \div 16 = 0 -> Found(<<dest, source>>, at + 2)
        [] s2 \div 16 = 1 -> ThenValue(text, at + 2, <<dest>>, b)
        [] s2 \div 16 = 2 -> ThenMem(text, at + 2, <<dest>>, b)
        [] s2 \div 16 = 3 -> Found(<<At(m.addr, a), source>>, m.next)
        [] s2 \div 16 = 4 -> ThenValue(text, m.next, <<At(m.addr, a)>>, b)
        [] OTHER -> Undefined

Unary(text, at) ==
  LET s == B(text, at)
  IN  IF Bit(s, 1) = 1 THEN ThenMem(text, at + 1, <<>>, SizeField(s))
      ELSE Found(<<Part(s \div 16, SizeField(s), Bit(s, 2))>>, at + 1)

\* FetchShiftOpFormat: the count is CL, or six bits of an immediate
Count(c, size) ==
  IF c >= 128 THEN Reg(2, 0) ELSE Value(<<c % (IF size = 3 THEN 64 ELSE 32)>>)
ShiftOperands(text, at) ==
  LET s == B(text, at)
      count == Count(B(text, at + 1), SizeField(s))
      m == ReadAddress(text, at + 2)
  IN  IF Bit(s, 1) = 1 THEN Found(<<At(m.addr, SizeField(s)), count>>, m.next)
      ELSE Found(<<Part(s \div 16, SizeField(s), Bit(s, 2)), count>>, at + 2)

ImmRM(text, at) ==
  LET s == B(text, at)
  IN  CASE s % 4 = 2 -> ThenValue(text, at + 1, <<>>, SizeField(s))
        [] s % 4 = 3 -> ThenMem(text, at + 1, <<>>, SizeField(s))
        [] s % 4 \in {0, 1} -> Found(<<Part(s \div 16, SizeField(s), s % 4)>>, at + 1)

RegRegRM(text, at) ==
  LET s == B(text, at)
      dest == Part(s \div 16, SizeField(s), Bit(s, 2))
      a == ThenReg(text, at + 1, <<dest>>, SizeField(s))
  IN  IF Bit(s, 1) = 1 THEN ThenMem(text, at + 2, a.ops, SizeField(s))
      ELSE ThenReg(text, at + 2, a.ops, SizeField(s))

-----------------------------------------------------------------------------
(* Handlers with a format of their own *)

Exchanged(text, at) ==
  LET s == B(text, at)
      first == <<Part(s \div 16, SizeField(s), Bit(s, 2))>>
  IN  IF Bit(s, 1) = 1 THEN ThenMem(text, at + 1, first, SizeField(s))
      ELSE ThenReg(text, at + 1, first, SizeField(s))

\* the address itself is what LEA and DEBUG are after: it has no size
NoSize == -1
Loaded(text, at) ==
  LET s == B(text, at)
  IN  ThenMem(text, at + 1, <<Reg(s \div 16, SizeField(s))>>, NoSize)
Popped(text, at) ==
  LET s == B(text, at)
  IN  IF Bit(s, 1) = 1 THEN ThenMem(text, at + 1, <<>>, SizeField(s))
      ELSE Found(<<Reg(s \div 16, SizeField(s))>>, at + 1)

\* MOVxX: the sizes are those of the mode, the destination first
Extended(text, at, sizes) ==
  LET s1 == B(text, at)
      s2 == B(text, at + 1)
      dest == <<Reg(s1 \div 16, sizes[1])>>
  IN  IF s2 >= 128 THEN ThenMem(text, at + 2, dest, sizes[2])
      ELSE Found(dest \o <<Part(s2 % 16, sizes[2], IF sizes[2] = 0 THEN Bit(s2, 64) ELSE 0)>>, at + 2)

\* __Process_BSx_common
Scanned(text, at) ==
  LET s == B(text, at)
      size == (s \div 16) % 4
      dest == <<Reg(s % 16, size)>>
  IN  IF Bit(s, 64) = 1 THEN ThenMem(text, at + 1, dest, size)
      ELSE Found(dest \o <<Reg(B(text, at + 1) % 16, size)>>, at + 2)

\* a byte with two registers, one in each half
Halves(text, at, high, low) ==
  LET s == B(text, at)
  IN  Found(<<[high EXCEPT !.id = s \div 16], [low EXCEPT !.id = s % 16]>>, at + 1)

-----------------------------------------------------------------------------
(* The x87 formats: the upper half of the byte is a register, the lower    *)
(* half the mode; memory modes have the size of the operand                *)

\* ST(i) counts modulo 8
Stack(byte) == St((byte \div 16) % 8)
FpuOperand(text, at, sizes) ==
  LET mode == B(text, at) % 16
  IN  IF mode \in DOMAIN sizes THEN ThenMem(text, at + 1, <<>>, sizes[mode])
      ELSE Found(<<Stack(B(text, at))>>, at + 1)

-----------------------------------------------------------------------------
(* The vector formats *)

BitsOf(count) == (count + 7) \div 8
\* the mask: <<>> when there is none, and all elements are processed
ReadMask(text, at, present, count) ==
  IF present THEN <<Raw(text, at, BitsOf(count))>> ELSE <<>>

\* s1 and s2 of ProcessVPUMove, Binary and Unary
VectorSettings(text, at) ==
  LET s1 == B(text, at)
      s2 == B(text, at + 1)
      elem == SizeField(s2)
      count == IF Bit(s2, 32) = 1 THEN 1 ELSE Bytes((s1 % 4) + 4) \div Bytes(elem)
      mask == ReadMask(text, at + 2, s2 >= 128, count)
  IN  [dest |-> VReg(s1 \div 8, (s1 % 4) + 4), ok |-> s1 % 4 # 3,
       elem |-> elem, scalar |-> Bit(s2, 32) = 1, aligned |-> Bit(s1, 4) = 1,
       count |-> count, mask |-> mask, zero |-> Bit(s2, 64) = 1, mode |-> s2 % 4,
       body |-> at + 2 + (IF s2 >= 128 THEN BitsOf(count) ELSE 0)]
\* a vector operand in memory has the size of the vector, a scalar one its own
MemSize(v) == IF v.scalar THEN v.elem ELSE v.dest.size
VectorOperand(text, at, v, before, mem) ==
  IF mem THEN ThenMem(text, at, before, MemSize(v))
  ELSE Found(before \o <<VReg(B(text, at) % 32, v.dest.size)>>, at + 1)

VectorMove(text, at) ==
  LET v == VectorSettings(text, at)
      m == ReadAddress(text, v.body)
  IN  CASE ~v.ok \/ v.mode = 3 -> Undefined
        [] v.ok /\ v.mode \in {0, 1} -> VectorOperand(text, v.body, v, <<v.dest>>, v.mode = 1)
        [] v.ok /\ v.mode = 2 -> Found(<<At(m.addr, MemSize(v)), v.dest>>, m.next)
VectorBinary(text, at) ==
  LET v == VectorSettings(text, at)
      first == VReg(B(text, v.body) % 32, v.dest.size)
  IN  IF v.ok THEN VectorOperand(text, v.body + 1, v, <<v.dest, first>>, v.mode % 2 = 1)
      ELSE Undefined
VectorUnary(text, at) ==
  LET v == VectorSettings(text, at)
  IN  IF v.ok THEN VectorOperand(text, v.body, v, <<v.dest>>, v.mode % 2 = 1) ELSE Undefined

\* ProcessVPUCVT_packed.  The size of a register is not in the code: the
\* conversion fills the whole destination, and reads count elements.
PackedSettings(text, at, count) ==
  LET s == B(text, at)
  IN  [mask |-> ReadMask(text, at + 1, Bit(s, 2) = 1, count), zero |-> Bit(s, 1) = 1]
Packed(text, at, count, from) ==
  LET s == B(text, at)
      body == at + 1 + (IF Bit(s, 2) = 1 THEN BitsOf(count) ELSE 0)
      dest == <<VReg(s \div 8, NoSize)>>
  IN  IF Bit(s, 4) = 1 THEN ThenMem(text, body, dest, from)
      ELSE Found(dest \o <<VReg(B(text, body) % 32, NoSize)>>, body + 1)

=============================================================================
