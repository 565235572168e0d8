----------------------------- MODULE AsmFormats -----------------------------
(***************************************************************************)
(* The format handlers of the assembler for the instructions of the CPU    *)
(* (AssembleArgs::TryProcess...): which operands they take, and the code   *)
(* they write for them.  A handler is a function from a row of the routing *)
(* table and the parsed operands to the pieces of code, Rejected when the  *)
(* line is an error.                                                       *)
(*                                                                         *)
(* route.op is the opcode, route.ext the byte after it (<<>> when the row  *)
(* has none), route.mask the operand sizes it supports, one bit each, and  *)
(* route.imm the size of an immediate: Follows when it is that of the      *)
(* other operand, Forbidden when there may be none.                        *)
(***************************************************************************)
EXTENDS AsmOperands

Follows   == -1
Forbidden == -666
AnySize   == 15

Opcode(route) ==
  Byte(route.op) \o (IF route.ext = <<>> THEN <<>> ELSE Byte(route.ext[1]))
Allowed(size, mask) == (mask \div Bytes(size)) % 2 = 1
\* an operand without an explicit size takes that of the other
Agrees(x, size) == x.sized => x.size = size
ImmSize(route, size) == IF route.imm = Follows THEN size ELSE route.imm

\* the settings byte most formats start with
Settings(id, size, high, flag) == Byte(id * 16 + size * 4 + high * 2 + flag)

-----------------------------------------------------------------------------
TernaryOp(route, x, y, z) ==
  IF /\ x.kind = "reg" /\ y.kind \in {"reg", "mem"} /\ z.kind = "imm"
     /\ Agrees(z, x.size) /\ Allowed(x.size, route.mask)
     /\ IF y.kind = "reg" THEN y.size = x.size ELSE Agrees(y, x.size)
  THEN Opcode(route) \o Settings(x.id, x.size, x.high, IF y.kind = "mem" THEN 1 ELSE 0)
         \o ExprPiece(Bytes(x.size), z.val)
         \o (IF y.kind = "mem" THEN Address(y) ELSE Byte(y.high * 128 + y.id))
  ELSE Rejected

\* TryProcessBinaryOp: five modes
\* Mutant: the source is never a high byte.
BinaryHead_LowSource(route, id, size, dh, sh, mode, src) ==
  Opcode(route) \o Settings(id, size, dh, 0) \o Byte(mode * 16 + src)
BinaryHead(route, id, size, dh, sh, mode, src) ==
  Opcode(route) \o Settings(id, size, dh, sh) \o Byte(mode * 16 + src)
RegReg(route, x, y) ==
  IF Allowed(x.size, route.mask) /\ x.size = y.size
  THEN BinaryHead(route, x.id, x.size, x.high, y.high, 0, y.id) ELSE Rejected
RegImm(route, x, y) ==
  IF /\ Allowed(x.size, route.mask) /\ route.imm # Forbidden
     /\ route.imm = Follows => Agrees(y, x.size)
  THEN BinaryHead(route, x.id, x.size, x.high, 0, 1, 0)
         \o ExprPiece(Bytes(ImmSize(route, x.size)), y.val)
  ELSE Rejected
RegMem(route, x, y) ==
  IF Allowed(x.size, route.mask) /\ Agrees(y, x.size)
  THEN BinaryHead(route, x.id, x.size, x.high, 0, 2, 0) \o Address(y) ELSE Rejected
MemReg(route, x, y) ==
  IF Allowed(y.size, route.mask) /\ Agrees(x, y.size)
  THEN BinaryHead(route, 0, y.size, 0, y.high, 3, y.id) \o Address(x) ELSE Rejected
MemImm(route, x, y) ==
  LET size == IF route.imm = Follows /\ ~x.sized THEN y.size ELSE x.size
  IN  IF /\ route.imm # Forbidden
         /\ route.imm = Follows => (x.sized \/ y.sized) /\ Agrees(y, size)
         /\ Allowed(size, route.mask)
      THEN BinaryHead(route, 0, size, 0, 0, 4, 0) \o Address(x)
             \o ExprPiece(Bytes(ImmSize(route, size)), y.val)
      ELSE Rejected
BinaryOp(route, x, y) ==
  CASE x.kind = "reg" /\ y.kind = "reg" -> RegReg(route, x, y)
    [] x.kind = "reg" /\ y.kind = "imm" -> RegImm(route, x, y)
    [] x.kind = "reg" /\ y.kind = "mem" -> RegMem(route, x, y)
    [] x.kind = "mem" /\ y.kind = "reg" -> MemReg(route, x, y)
    [] x.kind = "mem" /\ y.kind = "imm" -> MemImm(route, x, y)
    [] OTHER -> Rejected
\* TryProcessBinaryOp_NoBMem, TryProcessBinaryOp_R_RM
BinaryOp_NoBMem(route, x, y) == IF y.kind = "mem" THEN Rejected ELSE BinaryOp(route, x, y)
BinaryOp_R_RM(route, x, y) ==
  IF x.kind = "reg" /\ y.kind \in {"reg", "mem"} THEN BinaryOp(route, x, y) ELSE Rejected

UnaryOp(route, x) ==
  IF x.kind \in {"reg", "mem"} /\ (x.kind = "mem" => x.sized) /\ Allowed(x.size, route.mask)
  THEN Opcode(route) \o (IF x.kind = "reg" THEN Settings(x.id, x.size, x.high, 0)
                         ELSE Settings(0, x.size, 0, 1) \o Address(x))
  ELSE Rejected

\* route.imm is the default size of a memory value or an immediate here
IMMRM(route, x) ==
  LET size == IF x.kind = "reg" \/ x.sized THEN x.size ELSE route.imm
  IN  IF /\ x.kind \in {"reg", "mem", "imm"} /\ size # Follows
         /\ Allowed(size, route.mask)
      THEN Opcode(route) \o
             (CASE x.kind = "reg" -> Byte(x.id * 16 + size * 4 + x.high)
                [] x.kind = "imm" -> Byte(size * 4 + 2) \o ExprPiece(Bytes(size), x.val)
                [] x.kind = "mem" -> Byte(size * 4 + 3) \o Address(x))
      ELSE Rejected

RR_RM(route, x, y, z) ==
  IF /\ x.kind = "reg" /\ y.kind = "reg" /\ z.kind \in {"reg", "mem"}
     /\ Allowed(x.size, route.mask) /\ y.size = x.size
     /\ IF z.kind = "reg" THEN z.size = x.size ELSE Agrees(z, x.size)
  THEN Opcode(route) \o Settings(x.id, x.size, x.high, IF z.kind = "mem" THEN 1 ELSE 0)
         \o Byte(y.high * 128 + y.id)
         \o (IF z.kind = "mem" THEN Address(z) ELSE Byte(z.high * 128 + z.id))
  ELSE Rejected

-----------------------------------------------------------------------------
\* the register comes first in the code whichever side of the comma it is on
XCHG(route, x, y) ==
  LET reg == IF x.kind = "reg" THEN x ELSE y
      other == IF x.kind = "reg" THEN y ELSE x
  IN  IF /\ reg.kind = "reg" /\ other.kind \in {"reg", "mem"}
         /\ IF other.kind = "reg" THEN other.size = reg.size ELSE Agrees(other, reg.size)
      THEN Opcode(route) \o Settings(reg.id, reg.size, reg.high, IF other.kind = "mem" THEN 1 ELSE 0)
             \o (IF other.kind = "mem" THEN Address(other) ELSE Byte(other.high * 128 + other.id))
      ELSE Rejected

LEA(route, x, y) ==
  IF x.kind = "reg" /\ x.size # 0 /\ y.kind = "mem"
  THEN Opcode(route) \o Settings(x.id, x.size, 0, 0) \o Address(y) ELSE Rejected

POP(route, x) ==
  IF x.kind \in {"reg", "mem"} /\ (x.kind = "mem" => x.sized) /\ Allowed(x.size, 14)
  THEN Opcode(route) \o (IF x.kind = "reg" THEN Settings(x.id, x.size, 0, 0)
                         ELSE Settings(0, x.size, 0, 1) \o Address(x))
  ELSE Rejected

\* __TryProcessShift_mid: CL, or an immediate that cannot reach the CL flag
ByCL == 128
CL == Reg(2, 0)
IsCount(y) == y = CL \/ Bare(y)
ShiftCount(y) ==
  IF y = CL THEN Byte(ByCL) ELSE ExprPiece(1, [y.val EXCEPT !.val = @ % 64])
\* A memory operand is written with the constant 1 as the settings of its address.
Shift(route, x, y) ==
  CASE x.kind = "reg" /\ IsCount(y) ->
         Opcode(route) \o Settings(x.id, x.size, x.high, 0) \o ShiftCount(y)
    [] x.kind = "mem" /\ x.sized /\ x.size <= 3 /\ IsCount(y) ->
         Opcode(route) \o Settings(0, x.size, 0, 1) \o ShiftCount(y)
           \o AddressPieces(1, x.addr.b, x.addr.base)
    [] OTHER -> Rejected

\* __TryProcessMOVxX_settings_byte: the size pairs that have a mode
Mode(sign, to, from) == [sign |-> sign, to |-> to, from |-> from]
ExtensionModes ==
  <<Mode(FALSE, 1, 0), Mode(TRUE, 1, 0), Mode(FALSE, 2, 0), Mode(FALSE, 2, 1), Mode(TRUE, 2, 0),
    Mode(TRUE, 2, 1), Mode(FALSE, 3, 0), Mode(FALSE, 3, 1), Mode(TRUE, 3, 0), Mode(TRUE, 3, 1),
    Mode(TRUE, 3, 2)>>
MOVxX(route, sign, x, y) ==
  LET modes == {k \in DOMAIN ExtensionModes : ExtensionModes[k] = Mode(sign, x.size, y.size)}
  IN  IF /\ x.kind = "reg" /\ y.kind \in {"reg", "mem"} /\ (y.kind = "mem" => y.sized)
         /\ modes # {}
      THEN Opcode(route) \o Byte(x.id * 16 + (CHOOSE k \in modes : TRUE) - 1)
             \o (IF y.kind = "reg" THEN Byte(y.high * 64 + y.id) ELSE Byte(128) \o Address(y))
      ELSE Rejected

BSx(route, forward, x, y) ==
  LET mem == IF y.kind = "mem" THEN 64 ELSE 0
  IN  IF /\ x.kind = "reg" /\ x.size # 0 /\ y.kind \in {"reg", "mem"}
         /\ IF y.kind = "reg" THEN y.size = x.size ELSE Agrees(y, x.size)
      THEN Opcode(route) \o Byte((IF forward THEN 128 ELSE 0) + mem + x.size * 16 + x.id)
             \o (IF y.kind = "reg" THEN Byte(y.id) ELSE Address(y))
      ELSE Rejected

\* MOVD and MOVQ between a CPU register and an XMM register
MOVx_trans(route, size, x, y) ==
  LET code == IF size = 3 THEN 2 ELSE 0
  IN  CASE x.kind = "reg" /\ x.size = size /\ y.kind = "vreg" /\ y.size = 4 ->
             Opcode(route) \o Byte(code) \o Byte(x.id * 16 + y.id)
        [] x.kind = "vreg" /\ x.size = 4 /\ y.kind = "reg" /\ y.size = size ->
             Opcode(route) \o Byte(code + 1) \o Byte(x.id * 16 + y.id)
        [] OTHER -> Rejected

DEBUG_mem(route, x, y) ==
  IF x.kind = "mem" /\ Bare(y)
  THEN Opcode(route) \o Address(x) \o ExprPiece(8, y.val) ELSE Rejected

-----------------------------------------------------------------------------
(* String instructions: one byte, the mode in its upper six bits *)

StringMode(route, mode, size) == Byte(route.op) \o Byte(mode * 4 + size)
\* __TryGetBinaryStringOpSize: both operands are memory, either may carry the size
BinaryString(route, x, y) ==
  LET size == IF x.sized THEN x.size ELSE y.size
  IN  IF /\ x.kind = "mem" /\ y.kind = "mem" /\ (x.sized \/ y.sized)
         /\ Agrees(y, size) /\ size <= 3
      THEN StringMode(route, route.ext[1], size) ELSE Rejected
\* LODS takes a partition of RAX, not AH
LODS_string(route, x) ==
  IF x.kind = "reg" /\ x.id = 0 /\ x.high = 0
  THEN StringMode(route, route.ext[1], x.size) ELSE Rejected
UnaryString(route, x) ==
  IF x.kind = "mem" /\ x.sized /\ x.size <= 3
  THEN StringMode(route, route.ext[1], x.size) ELSE Rejected

=============================================================================
