--------------------------- MODULE OpcodeHandlers ---------------------------
(***************************************************************************)
(* Which instruction the machine takes a piece of code for: the handler of *)
(* the opcode (opcode_handlers), what the bytes after it choose, and the   *)
(* operands the handler reads.  An instruction is what it does, its        *)
(* operands, how it treats them (for vector and x87 instructions), and     *)
(* where the next one starts.                                              *)
(***************************************************************************)
EXTENDS OperandFormats

opcode_handlers ==
  <<"NOP", "HLT", "SYSCALL", "STLDF", "FlagManip", "SETcc", "MOV", "MOVcc", "XCHG", "JMP", "Jcc",
    "LOOPcc", "CALL", "RET", "PUSH", "POP", "LEA", "ADD", "SUB", "MUL_x", "IMUL", "DIV", "IDIV",
    "SHL", "SHR", "SAL", "SAR", "ROL", "ROR", "RCL", "RCR", "AND", "OR", "XOR", "INC", "DEC", "NEG",
    "NOT", "CMP", "CMPZ", "TEST", "BSWAP", "BEXTR", "BLSI", "BLSMSK", "BLSR", "ANDN", "BTx", "Cxy",
    "MOVxX", "ADXX", "AAX", "STRING", "BSx", "TZCNT", "UD",
    "NOP", "FINIT", "FCLEX", "FSTLD_WORD", "FLD_const", "FLD", "FST", "FXCH", "FMOVcc", "FADD",
    "FSUB", "FSUBR", "FMUL", "FDIV", "FDIVR", "F2XM1", "FABS", "FCHS", "FPREM", "FPREM1", "FRNDINT",
    "FSQRT", "FYL2X", "FYL2XP1", "FXTRACT", "FSCALE", "FXAM", "FTST", "FCOM", "FSIN", "FCOS",
    "FSINCOS", "FPTAN", "FPATAN", "FINCDECSTP", "FFREE",
    "VPUMove", "VEC_FADD", "VEC_FSUB", "VEC_FMUL", "VEC_FDIV", "VEC_AND", "VEC_OR", "VEC_XOR",
    "VEC_ANDN", "VEC_ADD", "VEC_ADDS", "VEC_ADDUS", "VEC_SUB", "VEC_SUBS", "VEC_SUBUS", "VEC_MULL",
    "VEC_FMIN", "VEC_FMAX", "VEC_UMIN", "VEC_SMIN", "VEC_UMAX", "VEC_SMAX", "VEC_FADDSUB", "VEC_AVG",
    "VEC_FCMP", "VEC_FCOMI", "VEC_FSQRT", "VEC_FRSQRT", "VEC_CVT", "TRANS">>
Handler(op) ==
  IF op = 255 THEN "DEBUG" ELSE IF op < Len(opcode_handlers) THEN opcode_handlers[op + 1] ELSE "UNKNOWN"

Instruction(does, operands, how) ==
  [does |-> does, ops |-> operands.ops, next |-> operands.next, how |-> how]
Plain(does, operands) == Instruction(does, operands, <<>>)
UndefinedBehavior == Plain(<<"UNDEFINED">>, Undefined)
Nothing(at) == Found(<<>>, at)

\* the name a byte chooses from a list, with the operands that follow it
Chosen(prefix, names, n, operands) ==
  IF n < Len(names) THEN Plain(prefix \o <<names[n + 1]>>, operands) ELSE UndefinedBehavior

-----------------------------------------------------------------------------
\* the conditions of SETcc, MOVcc and Jcc; Jcc has one more
conditions ==
  <<"Z", "NZ", "S", "NS", "P", "NP", "O", "NO", "C", "NC", "B", "BE", "A", "AE", "L", "LE", "G", "GE">>
LoopWhile(byte, operands) ==
  IF byte = 0 THEN Plain(<<"LOOP">>, operands) ELSE Chosen(<<"LOOP">>, <<"Z", "NZ">>, byte - 1, operands)
\* ProcessMUL_x, ProcessIMUL
Multiply(byte, text, at) ==
  CASE byte = 0 -> Plain(<<"MUL">>, ImmRM(text, at))
    [] byte = 1 -> Plain(<<"MULX">>, RegRegRM(text, at))
    [] OTHER -> UndefinedBehavior
SignedMultiply(byte, text, at) ==
  CASE byte = 0 -> Plain(<<"IMUL">>, ImmRM(text, at))
    [] byte = 1 -> Plain(<<"IMUL">>, Binary(text, at, InSettings))
    [] byte = 2 -> Plain(<<"IMUL">>, Ternary(text, at))
    [] OTHER -> UndefinedBehavior
\* ProcessMOVxX: the sizes of destination and source, by mode
ZeroExtends == [mode \in {0, 2, 3, 6, 7} |->
                  CASE mode = 0 -> <<1, 0>> [] mode = 2 -> <<2, 0>> [] mode = 3 -> <<2, 1>>
                    [] mode = 6 -> <<3, 0>> [] mode = 7 -> <<3, 1>>]
SignExtends == [mode \in {1, 4, 5, 8, 9, 10} |->
                  CASE mode = 1 -> <<1, 0>> [] mode = 4 -> <<2, 0>> [] mode = 5 -> <<2, 1>>
                    [] mode = 8 -> <<3, 0>> [] mode = 9 -> <<3, 1>> [] mode = 10 -> <<3, 2>>]
Extends(byte, text, at) ==
  CASE byte % 16 \in DOMAIN ZeroExtends -> Plain(<<"MOVZX">>, Extended(text, at, ZeroExtends[byte % 16]))
    [] byte % 16 \in DOMAIN SignExtends -> Plain(<<"MOVSX">>, Extended(text, at, SignExtends[byte % 16]))
    [] OTHER -> UndefinedBehavior
string_modes ==
  <<<<"MOVS">>, <<"REP", "MOVS">>, <<"CMPS">>, <<"REPE", "CMPS">>, <<"REPNE", "CMPS">>, <<"LODS">>,
    <<"REP", "LODS">>, <<"STOS">>, <<"REP", "STOS">>, <<"SCAS">>, <<"REPE", "SCAS">>, <<"REPNE", "SCAS">>>>
StringSizes == <<"B", "W", "D", "Q">>
StringOf(byte, at) ==
  IF byte \div 4 < Len(string_modes)
  THEN Plain(string_modes[(byte \div 4) + 1] \o <<StringSizes[(byte % 4) + 1]>>, Nothing(at))
  ELSE UndefinedBehavior
Moved(byte, text, at) ==
  LET cpu(size) == Reg(0, size)
      xmm == VReg(0, 4)
  IN  CASE byte = 0 -> Plain(<<"MOVD">>, Halves(text, at, cpu(2), xmm))
        [] byte = 1 -> Plain(<<"MOVD">>, Halves(text, at, xmm, cpu(2)))
        [] byte = 2 -> Plain(<<"MOVQ">>, Halves(text, at, cpu(3), xmm))
        [] byte = 3 -> Plain(<<"MOVQ">>, Halves(text, at, xmm, cpu(3)))
        [] byte = 4 -> Plain(<<"MOVBS">>, Binary(text, at, InSettings))
        [] OTHER -> UndefinedBehavior
Debugged(byte, text, at) ==
  LET address == ThenMem(text, at, <<>>, NoSize)
  IN  IF byte = 3 THEN Plain(<<"DEBUG_MEM">>, ThenValue(text, address.next, address.ops, 3))
      ELSE Chosen(<<>>, <<"DEBUG_CPU", "DEBUG_VPU", "DEBUG_FULL">>, byte, Nothing(at))

-----------------------------------------------------------------------------
(* x87: what kind of number the operand is, and how many values are popped *)

Treats(kind, pops) == [kind |-> kind, pops |-> pops]
Kind(mode, floats) == IF mode \in floats THEN "float" ELSE "int"
\* FetchFPUBinaryFormat: modes 1 and 2 store to the other register
FpuBinary(name, text, at) ==
  LET s == B(text, at)
      sizes == [mode \in 3..6 |-> CASE mode = 3 -> 2 [] mode = 4 -> 3 [] mode = 5 -> 1 [] mode = 6 -> 2]
      r == FpuOperand(text, at, sizes)
      operands == IF s % 8 \in {1, 2} THEN r.ops \o <<St(0)>> ELSE <<St(0)>> \o r.ops
  IN  IF s % 8 = 7 THEN UndefinedBehavior
      ELSE Instruction(<<name>>, Found(operands, r.next),
                       Treats(Kind(s % 8, 0..4), IF s % 8 = 2 THEN 1 ELSE 0))
ControlWords == <<"FNSTSW", "FNSTSW", "FNSTCW", "FLDCW", "STMXCSR", "LDMXCSR", "FNSAVE", "FRSTOR", "FNSTENV", "FLDENV">>
WordOperand(byte, text, at) ==
  IF byte = 0 THEN Found(<<Reg(0, 1)>>, at)
  ELSE ThenMem(text, at, <<>>, IF byte \in 1..3 THEN 1 ELSE IF byte \in {4, 5} THEN 2 ELSE NoSize)
FpuLoad(text, at) ==
  LET mode == B(text, at) % 8
      sizes == [k \in 1..5 |-> CASE k = 1 -> 2 [] k = 2 -> 3 [] k \in 3..5 -> k - 2]
  IN  IF mode > 5 THEN UndefinedBehavior
      ELSE Instruction(<<"FLD">>, FpuOperand(text, at, sizes), Treats(Kind(mode, 0..2), 0))
FpuStore(text, at) ==
  LET mode == B(text, at) % 16
      sizes == [k \in 2..13 |-> CASE k \in 2..5 -> (k \div 2) + 1 [] k \in 6..9 -> (k \div 2) - 2
                                  [] k = 10 -> 3 [] k \in 11..13 -> k - 10]
      kind == CASE mode <= 5 -> "float" [] mode \in 6..10 -> "int" [] mode >= 11 -> "truncated"
  IN  IF mode > 13 THEN UndefinedBehavior
      ELSE Instruction(<<"FST">>, FpuOperand(text, at, sizes), Treats(kind, IF mode \in {0, 2, 4, 6, 8} THEN 0 ELSE 1))
\* ProcessFCOM: the whole byte decides where the result goes, its low bits the pops
FpuCompare(text, at) ==
  LET s == B(text, at)
      sizes == [k \in 3..10 |-> CASE k \in {3, 4, 9, 10} -> 2 [] k \in {5, 6} -> 3 [] k \in {7, 8} -> 1]
      pops == CASE s % 8 = 2 -> 2 [] s % 8 \in {1, 4, 6} -> 1 [] OTHER -> 0
  IN  IF s % 16 > 12 THEN UndefinedBehavior
      ELSE Instruction(<<"FCOM", IF s \in {11, 12} THEN "eflags" ELSE "fpu", IF s >= 128 THEN "quiet" ELSE "">>,
                       FpuOperand(text, at, sizes), Treats(Kind(s % 16, (0..6) \cup {11, 12}), pops))
FpuMoveIf(text, at) ==
  Chosen(<<"FMOV">>, <<"Z", "NZ", "B", "BE", "A", "AE", "P", "NP">>, B(text, at) % 8,
         Found(<<St(0), Stack(B(text, at))>>, at + 1))
FpuNumber(text, at) == Found(<<St(B(text, at) % 8)>>, at + 1)

-----------------------------------------------------------------------------
(* Vectors: the elements that are processed, and whether the others are    *)
(* cleared.  A move has no element size of its own: bytes are moved.       *)

InMask(mask, i) == mask = <<>> \/ Bit(mask[1][(i \div 8) + 1], 2 ^ (i % 8)) = 1
Elements(mask, count) == {i \in 0..(count - 1) : InMask(mask, i)}
ByteSet(elements, elem) == UNION {(i * Bytes(elem))..(i * Bytes(elem) + Bytes(elem) - 1) : i \in elements}
MoveOf(v) ==
  LET on == Elements(v.mask, v.count)
  IN  [moved |-> ByteSet(on, v.elem), aligned |-> v.aligned,
       cleared |-> IF v.zero THEN ByteSet(0..(v.count - 1), v.elem) \ ByteSet(on, v.elem) ELSE {}]
LanesOf(v) ==
  LET on == Elements(v.mask, v.count)
  IN  [elem |-> v.elem, count |-> v.count, on |-> on, aligned |-> v.aligned,
       zero |-> v.zero /\ on # 0..(v.count - 1)]
\* the element sizes an operation supports, one bit each
ElementSizes(handler) ==
  CASE handler \in {"VEC_FADD", "VEC_FSUB", "VEC_FMUL", "VEC_FDIV", "VEC_FMIN", "VEC_FMAX", "VEC_FADDSUB",
                    "VEC_FCMP", "VEC_FCOMI", "VEC_FSQRT", "VEC_FRSQRT"} -> 12
    [] handler = "VEC_AVG" -> 3
    [] OTHER -> 15
Lanes(handler, does, operands, v) ==
  IF v.ok /\ Bit(ElementSizes(handler), Bytes(v.elem)) = 1
  THEN Instruction(does, operands, LanesOf(v)) ELSE UndefinedBehavior

\* the predicates of VEC_FCMP: the outcomes that are true, whether a NaN is an error
Predicate(outcomes, signal) == <<"FCMP", outcomes, signal>>
fcmp_lookup ==
  LET g == "greater"
      l == "less"
      e == "equal"
      u == "unordered"
  IN
  <<Predicate({e}, FALSE), Predicate({l}, TRUE), Predicate({l, e}, TRUE), Predicate({u}, FALSE),
    Predicate({g, l, u}, FALSE), Predicate({g, e, u}, TRUE), Predicate({g, u}, TRUE),
    Predicate({g, l, e}, FALSE), Predicate({e, u}, FALSE), Predicate({l, u}, TRUE),
    Predicate({l, e, u}, TRUE), Predicate({}, FALSE), Predicate({g, l}, FALSE), Predicate({g, e}, TRUE),
    Predicate({g}, TRUE), Predicate({g, l, e, u}, FALSE),
    Predicate({e}, TRUE), Predicate({l}, FALSE), Predicate({l, e}, FALSE), Predicate({u}, TRUE),
    Predicate({g, l, u}, TRUE), Predicate({g, e, u}, FALSE), Predicate({g, u}, FALSE),
    Predicate({g, l, e}, TRUE), Predicate({e, u}, TRUE), Predicate({l, u}, FALSE),
    Predicate({l, e, u}, FALSE), Predicate({}, TRUE), Predicate({g, l}, TRUE), Predicate({g, e}, FALSE),
    Predicate({g}, FALSE), Predicate({g, l, e, u}, TRUE)>>

\* TryProcessVEC_CVT, one definition for each group of modes
Convert(from, to, trunc) == <<"CVT", from, to, IF trunc THEN "truncated" ELSE "rounded">>
Real(size) == IF size = 3 THEN "double" ELSE "single"
Whole(size) == IF size = 3 THEN "i64" ELSE "i32"
ScalarOperands(text, at, mem, dest, source) ==
  LET s == B(text, at)
  IN  IF mem THEN ThenMem(text, at + 1, <<[dest EXCEPT !.id = s \div 16]>>, source.size)
      ELSE Halves(text, at, dest, source)
ToInteger(mode, text, at) ==
  LET from == IF (mode \div 4) % 2 = 0 THEN 3 ELSE 2
      to == 2 + ((mode \div 2) % 2)
      xmm == IF mode % 2 = 1 THEN VReg(0, from) ELSE VReg(0, 4)
  IN  Plain(Convert(Real(from), Whole(to), mode >= 8), ScalarOperands(text, at, mode % 2 = 1, Reg(0, to), xmm))
FromInteger(mode, text, at) ==
  LET to == IF mode < 20 THEN 3 ELSE 2
      from == 2 + ((mode \div 2) % 2)
  IN  Plain(Convert(Whole(from), Real(to), FALSE), ScalarOperands(text, at, mode % 2 = 1, VReg(0, 4), Reg(0, from)))
BetweenReals(mode, text, at) ==
  LET from == IF mode < 26 THEN 3 ELSE 2
      xmm == IF mode % 2 = 1 THEN VReg(0, from) ELSE VReg(0, 4)
  IN  Plain(Convert(Real(from), Real(5 - from), FALSE), ScalarOperands(text, at, mode % 2 = 1, VReg(0, 4), xmm))
packed_delegates ==
  <<Convert("double", "i32", FALSE), Convert("single", "i32", FALSE), Convert("double", "i32", TRUE),
    Convert("single", "i32", TRUE), Convert("i32", "double", FALSE), Convert("i32", "single", FALSE),
    Convert("double", "single", FALSE), Convert("single", "double", FALSE)>>
PackedConvert(mode, text, at) ==
  LET does == packed_delegates[((mode - 28) \div 3) + 1]
      wide == "double" \in {does[2], does[3]}
      count == (IF wide THEN 2 ELSE 4) * 2 ^ ((mode - 28) % 3)
      v == PackedSettings(text, at, count)
      on == Elements(v.mask, count)
  IN  Instruction(does, Packed(text, at, count, IF does[2] = "double" THEN 3 ELSE 2),
                  [count |-> count, on |-> on, zero |-> v.zero /\ on # 0..(count - 1)])
Converted(mode, text, at) ==
  CASE mode < 16 -> ToInteger(mode, text, at)
    [] mode \in 16..23 -> FromInteger(mode, text, at)
    [] mode \in 24..27 -> BetweenReals(mode, text, at)
    [] mode \in 28..51 -> PackedConvert(mode, text, at)
    [] OTHER -> UndefinedBehavior

-----------------------------------------------------------------------------
InPlace == {"MOV", "ADD", "SUB", "AND", "OR", "XOR", "CMP", "TEST"}
OneOperand == {"INC", "DEC", "NEG", "NOT", "CMPZ", "BSWAP", "BLSI", "BLSMSK", "BLSR"}
Shifts == {"SHL", "SHR", "SAL", "SAR", "ROL", "ROR", "RCL", "RCR"}
FpuArithmetics == {"FADD", "FSUB", "FSUBR", "FMUL", "FDIV", "FDIVR"}
\* the handlers that choose a name by a byte of its own
Listing(handler) ==
  CASE handler = "STLDF"      -> <<"PUSHF", "PUSHFD", "PUSHFQ", "POPF", "POPFD", "POPFQ", "SAHF", "LAHF">>
    [] handler = "FlagManip"  -> <<"STC", "CLC", "STI", "CLI", "STD", "CLD", "STAC", "CLAC", "CMC">>
    [] handler = "Cxy"        -> <<"CWD", "CDQ", "CQO", "CBW", "CWDE", "CDQE">>
    [] handler = "AAX"        -> <<"AAA", "AAS", "DAA", "DAS">>
    [] handler = "FLD_const"  -> <<"FLD1", "FLDL2T", "FLDL2E", "FLDPI", "FLDLG2", "FLDLN2", "FLDZ">>
    [] handler = "FINCDECSTP" -> <<"FINCSTP", "FDECSTP">>
    [] OTHER -> <<>>

\* the instruction whose opcode is at that place; one is the byte after it
ReadInstruction(text, at) ==
  LET h == Handler(B(text, at))
      one == B(text, at + 1)
      in == at + 1
      v == VectorSettings(text, in)
      compared == VectorSettings(text, in + 1)
  IN  CASE Listing(h) # <<>>      -> Chosen(<<>>, Listing(h), one, Nothing(in + 1))
        [] h \in InPlace          -> Plain(<<h>>, Binary(text, in, InSettings))
        [] h \in OneOperand       -> Plain(<<h>>, Unary(text, in))
        [] h \in Shifts           -> Plain(<<h>>, ShiftOperands(text, in))
        [] h \in {"JMP", "CALL", "PUSH", "DIV", "IDIV"} -> Plain(<<h>>, ImmRM(text, in))
        [] h = "SETcc"            -> Chosen(<<"SET">>, conditions, one, Unary(text, in + 1))
        [] h = "MOVcc"            -> Chosen(<<"MOV">>, conditions, one, Binary(text, in + 1, InSettings))
        [] h = "Jcc"              -> Chosen(<<"J">>, conditions \o <<"CXZ">>, one, ImmRM(text, in + 1))
        [] h = "LOOPcc"           -> LoopWhile(one, ImmRM(text, in + 1))
        [] h = "XCHG"             -> Plain(<<h>>, Exchanged(text, in))
        [] h = "POP"              -> Plain(<<h>>, Popped(text, in))
        [] h = "LEA"              -> Plain(<<h>>, Loaded(text, in))
        [] h = "MUL_x"            -> Multiply(one, text, in + 1)
        [] h = "IMUL"             -> SignedMultiply(one, text, in + 1)
        [] h = "ANDN"             -> Plain(<<h>>, RegRegRM(text, in))
        [] h = "BEXTR"            -> Plain(<<h>>, Binary(text, in, 1))
        [] h = "BTx"              -> Chosen(<<>>, <<"BT", "BTS", "BTR", "BTC">>, one, Binary(text, in + 1, 0))
        [] h = "ADXX"             -> Chosen(<<>>, <<"ADC", "ADCX", "ADOX">>, one, Binary(text, in + 1, InSettings))
        [] h = "MOVxX"            -> Extends(one, text, in)
        [] h = "STRING"           -> StringOf(one, in + 1)
        [] h = "BSx"              -> Plain(<<IF one >= 128 THEN "BSF" ELSE "BSR">>, Scanned(text, in))
        [] h = "TZCNT"            -> Plain(<<h>>, Scanned(text, in))
        [] h = "TRANS"            -> Moved(one, text, in + 1)
        [] h = "DEBUG"            -> Debugged(one, text, in + 1)
        [] h \in FpuArithmetics   -> FpuBinary(h, text, in)
        [] h = "FSTLD_WORD"       -> Chosen(<<>>, ControlWords, one, WordOperand(one, text, in + 1))
        [] h = "FLD"              -> FpuLoad(text, in)
        [] h = "FST"              -> FpuStore(text, in)
        [] h = "FCOM"             -> FpuCompare(text, in)
        [] h = "FMOVcc"           -> FpuMoveIf(text, in)
        [] h \in {"FXCH", "FFREE"} -> Plain(<<h>>, FpuNumber(text, in))
        [] h = "VPUMove"          -> IF v.ok THEN Instruction(<<h>>, VectorMove(text, in), MoveOf(v))
                                     ELSE UndefinedBehavior
        [] h \in {"VEC_FSQRT", "VEC_FRSQRT"} -> Lanes(h, <<h>>, VectorUnary(text, in), v)
        [] h = "VEC_FCMP"         -> IF one < 32 THEN Lanes(h, fcmp_lookup[one + 1], VectorBinary(text, in + 1), compared)
                                     ELSE UndefinedBehavior
        [] h = "VEC_CVT"          -> Converted(one, text, in + 1)
        [] h = "UNKNOWN"          -> UndefinedBehavior
        [] h \in {"NOP", "HLT", "SYSCALL", "RET", "UD", "FINIT", "FCLEX", "F2XM1", "FABS", "FCHS", "FPREM", "FPREM1",
                  "FRNDINT", "FSQRT", "FYL2X", "FYL2XP1", "FXTRACT", "FSCALE", "FXAM", "FTST", "FSIN", "FCOS",
                  "FSINCOS", "FPTAN", "FPATAN"} -> Plain(<<h>>, Nothing(in))
        [] OTHER -> Lanes(h, <<h>>, VectorBinary(text, in), v)

=============================================================================
