----------------------------- MODULE AsmTables -----------------------------
(***************************************************************************)
(* The routing table of the assembler (asm_routing_table): for every       *)
(* mnemonic the format of its operands, its opcode and the numbers its     *)
(* handler is called with.  A mnemonic is the tuple of its parts, <<"ADD">> *)
(* or <<"CMP", "LT", "PD">>.  Directives, and the mnemonics that write     *)
(* nothing (PAUSE and the fences), are not in it.                          *)
(*                                                                         *)
(* The table is a map built from a list: when a mnemonic is listed twice,  *)
(* the first one stays, as with @@.                                        *)
(***************************************************************************)
EXTENDS AsmFpuFormats, AsmVpuFormats, TLC

\* enum class OPCode
OPCode ==
  <<"NOP", "HLT", "SYSCALL", "STLDF", "FlagManip", "SETcc", "MOV", "MOVcc", "XCHG", "JMP", "Jcc",
    "LOOPcc", "CALL", "RET", "PUSH", "POP", "LEA", "ADD", "SUB", "MUL_x", "IMUL", "DIV", "IDIV",
    "SHL", "SHR", "SAL", "SAR", "ROL", "ROR", "RCL", "RCR", "AND", "OR", "XOR", "INC", "DEC",
    "NEG", "NOT", "CMP", "CMPZ", "TEST", "BSWAP", "BEXTR", "BLSI", "BLSMSK", "BLSR", "ANDN", "BTx",
    "Cxy", "MOVxX", "ADXX", "AAX", "string", "BSx", "TZCNT", "UD", "FWAIT", "FINIT", "FCLEX",
    "FSTLD_WORD", "FLD_const", "FLD", "FST", "FXCH", "FMOVcc", "FADD", "FSUB", "FSUBR", "FMUL",
    "FDIV", "FDIVR", "F2XM1", "FABS", "FCHS", "FPREM", "FPREM1", "FRNDINT", "FSQRT", "FYL2X",
    "FYL2XP1", "FXTRACT", "FSCALE", "FXAM", "FTST", "FCOM", "FSIN", "FCOS", "FSINCOS", "FPTAN",
    "FPATAN", "FINCDECSTP", "FFREE", "VPU_MOV", "VPU_FADD", "VPU_FSUB", "VPU_FMUL", "VPU_FDIV",
    "VPU_AND", "VPU_OR", "VPU_XOR", "VPU_ANDN", "VPU_ADD", "VPU_ADDS", "VPU_ADDUS", "VPU_SUB",
    "VPU_SUBS", "VPU_SUBUS", "VPU_MULL", "VPU_FMIN", "VPU_FMAX", "VPU_UMIN", "VPU_SMIN", "VPU_UMAX",
    "VPU_SMAX", "VPU_FADDSUB", "VPU_AVG", "VPU_FCMP", "VPU_FCOMI", "VPU_FSQRT", "VPU_FRSQRT",
    "VPU_CVT", "TRANS">>
Op(name) == IF name = "DEBUG" THEN 255 ELSE (CHOOSE k \in DOMAIN OPCode : OPCode[k] = name) - 1

\* form is the handler, arg the number it is called with that is not written
\* as the byte after the opcode, flags the truth values
Row(form, opcode) ==
  [form |-> form, op |-> Op(opcode), ext |-> <<>>, mask |-> AnySize, imm |-> Follows, arg |-> 0,
   flags |-> {}, elem |-> 0, maskable |-> FALSE, aligned |-> FALSE, scalar |-> FALSE, wait |-> FALSE]
Ext(row, n) == [row EXCEPT !.ext = <<n>>]
Sized(row, mask, imm) == [row EXCEPT !.mask = mask, !.imm = imm]
Flags(row, arg, flags) == [row EXCEPT !.arg = arg, !.flags = flags]
Vector(row, elem) == [row EXCEPT !.elem = elem, !.maskable = TRUE, !.aligned = TRUE]
Scalar(row, elem) == [row EXCEPT !.elem = elem, !.scalar = TRUE]

\* mnemonics of one part with the same row but for their opcode
Alone(names, form) == [n \in {<<name>> : name \in names} |-> Row(form, n[1])]
\* mnemonics that differ by the byte after the opcode
Numbered(prefix, codes, row) == [n \in {prefix \o <<c>> : c \in DOMAIN codes} |-> Ext(row, codes[n[Len(n)]])]
Listed(names) == [c \in Range(names) |-> (CHOOSE k \in DOMAIN names : names[k] = c) - 1]

-----------------------------------------------------------------------------
Conditions ==
  [Z |-> 0, E |-> 0, NZ |-> 1, NE |-> 1, S |-> 2, NS |-> 3, P |-> 4, PE |-> 4, NP |-> 5, PO |-> 5,
   O |-> 6, NO |-> 7, C |-> 8, NC |-> 9, B |-> 10, NAE |-> 10, BE |-> 11, NBE |-> 12, AE |-> 13,
   NB |-> 13, L |-> 14, NGE |-> 14, LE |-> 15, NG |-> 15, G |-> 16, NLE |-> 16, GE |-> 17, NL |-> 17]
\* SETA and MOVA are listed twice, first with 11
SetConditions == ("A" :> 11) @@ ("A" :> 12) @@ Conditions
MoveConditions == [c \in DOMAIN SetConditions \ {"S"} |-> SetConditions[c]]
JumpConditions == ("NA" :> 11) @@ ("A" :> 12) @@ Conditions

Moves ==
  (<<"MOV">> :> Row("BinaryOp", "MOV")) @@ (<<"XCHG">> :> Row("XCHG", "XCHG"))
    @@ (<<"LEA">> :> Row("LEA", "LEA")) @@ (<<"POP">> :> Row("POP", "POP"))
    @@ (<<"PUSH">> :> Sized(Row("IMMRM", "PUSH"), 14, Follows))
    @@ Numbered(<<"SET">>, SetConditions, Row("UnaryOp", "SETcc"))
    @@ Numbered(<<"MOV">>, MoveConditions, Row("BinaryOp", "MOVcc"))
    @@ (<<"MOVZX">> :> Row("MOVxX", "MOVxX")) @@ (<<"MOVSX">> :> Flags(Row("MOVxX", "MOVxX"), 0, {"sign"}))
    @@ (<<"MOVBS">> :> Sized(Ext(Row("BinaryOp", "TRANS"), 4), 14, Forbidden))
Jumps ==
  LET to(opcode) == Sized(Row("IMMRM", opcode), 14, 3)
      zero(mask, size) == Sized(Ext(Row("IMMRM", "Jcc"), 18), mask, size)
  IN  (<<"JMP">> :> to("JMP")) @@ (<<"CALL">> :> to("CALL"))
        @@ Numbered(<<"J">>, JumpConditions, to("Jcc"))
        @@ (<<"J", "CXZ">> :> zero(2, 1)) @@ (<<"J", "ECXZ">> :> zero(4, 2)) @@ (<<"J", "RCXZ">> :> zero(8, 3))
        @@ (<<"LOOP">> :> Ext(to("LOOPcc"), 0))
        @@ Numbered(<<"LOOP">>, [Z |-> 1, E |-> 1, NZ |-> 2, NE |-> 2], to("LOOPcc"))
Arithmetic ==
  Alone({"ADD", "SUB", "AND", "OR", "XOR", "TEST"}, "BinaryOp")
    @@ (<<"CMP">> :> Row("CMP", "CMP"))
    @@ Alone({"INC", "DEC", "NEG", "NOT", "BSWAP", "BLSI", "BLSMSK", "BLSR"}, "UnaryOp")
    @@ (<<"MUL">> :> Ext(Row("IMMRM", "MUL_x"), 0)) @@ Alone({"DIV", "IDIV"}, "IMMRM")
    @@ (<<"MULX">> :> Sized(Ext(Row("RR_RM", "MUL_x"), 1), 12, Follows))
    @@ (<<"ANDN">> :> Sized(Row("RR_RM", "ANDN"), 12, Follows)) @@ (<<"IMUL">> :> Row("IMUL", "IMUL"))
    @@ Alone({"SHL", "SHR", "SAL", "SAR", "ROL", "ROR", "RCL", "RCR"}, "Shift")
    @@ (<<"BEXTR">> :> Sized(Row("BinaryOp", "BEXTR"), AnySize, 1))
    @@ [n \in {<<"BT">>, <<"BTS">>, <<"BTR">>, <<"BTC">>} |->
          Sized(Ext(Row("BinaryOp_NoBMem", "BTx"), Listed(<<"BT", "BTS", "BTR", "BTC">>)[n[1]]), AnySize, 0)]
    @@ (<<"ADC">> :> Ext(Row("BinaryOp", "ADXX"), 0))
    @@ (<<"ADCX">> :> Sized(Ext(Row("BinaryOp_R_RM", "ADXX"), 1), 12, Follows))
    @@ (<<"ADOX">> :> Sized(Ext(Row("BinaryOp_R_RM", "ADXX"), 2), 12, Follows))
    @@ (<<"BSF">> :> Flags(Row("BSx", "BSx"), 0, {"forward"})) @@ (<<"BSR">> :> Row("BSx", "BSx"))
    @@ (<<"TZCNT">> :> Flags(Row("BSx", "TZCNT"), 0, {"forward"}))
NoOperands ==
  Alone({"NOP", "HLT", "SYSCALL", "RET", "UD"}, "NoArgOp")
    @@ Numbered(<<>>, Listed(<<"PUSHF", "PUSHFD", "PUSHFQ", "POPF", "POPFD", "POPFQ", "SAHF", "LAHF">>),
                Row("NoArgOp", "STLDF"))
    @@ Numbered(<<>>, Listed(<<"STC", "CLC", "STI", "CLI", "STD", "CLD", "STAC", "CLAC", "CMC">>),
                Row("NoArgOp", "FlagManip"))
    @@ Numbered(<<>>, Listed(<<"CWD", "CDQ", "CQO", "CBW", "CWDE", "CDQE">>), Row("NoArgOp", "Cxy"))
    @@ Numbered(<<>>, Listed(<<"AAA", "AAS", "DAA", "DAS">>), Row("NoArgOp", "AAX"))
    @@ Numbered(<<>>, Listed(<<"DEBUG_CPU", "DEBUG_VPU", "DEBUG_FULL">>), Row("NoArgOp", "DEBUG"))
    @@ (<<"DEBUG_MEM">> :> Ext(Row("DEBUG_mem", "DEBUG"), 3))

\* Strings: the mode, and the size when the mnemonic states it.  The prefixes
\* name the repeated modes, LOCK the instructions that have it.
WithSizes(name, mode, letters) ==
  [n \in {name \o <<c>> : c \in letters} |->
     Ext(Row("NoArgOp", "string"), mode * 4 + Listed(<<"B", "W", "D", "Q">>)[n[Len(n)]])]
StringOp(name, form, mode) ==
  (name :> Ext(Row(form, "string"), mode)) @@ WithSizes(name, mode, {"B", "W", "D", "Q"})
Strings ==
  (<<"MOVS">> :> Ext(Row("MOVS", "string"), 0)) @@ WithSizes(<<"MOVS">>, 0, {"B", "W", "Q"})
    @@ (<<"MOVS", "D">> :> Row("MOVSD", "string"))
    @@ StringOp(<<"REP", "MOVS">>, "BinaryString", 1)
    @@ (<<"CMPS">> :> Ext(Row("BinaryString", "string"), 2)) @@ WithSizes(<<"CMPS">>, 2, {"B", "W", "Q"})
    @@ (<<"CMPS", "D">> :> Row("CMPSD", "string"))
    @@ StringOp(<<"LODS">>, "LODS_string", 5) @@ StringOp(<<"REP", "LODS">>, "LODS_string", 6)
    @@ StringOp(<<"STOS">>, "UnaryString", 7) @@ StringOp(<<"REP", "STOS">>, "UnaryString", 8)
    @@ StringOp(<<"SCAS">>, "UnaryString", 9)
    @@ StringOp(<<"REPE", "CMPS">>, "BinaryString", 3) @@ StringOp(<<"REPZ", "CMPS">>, "BinaryString", 3)
    @@ StringOp(<<"REPE", "SCAS">>, "UnaryString", 10) @@ StringOp(<<"REPZ", "SCAS">>, "UnaryString", 10)
    @@ StringOp(<<"REPNE", "CMPS">>, "BinaryString", 4) @@ StringOp(<<"REPNZ", "CMPS">>, "BinaryString", 4)
    @@ StringOp(<<"REPNE", "SCAS">>, "UnaryString", 11) @@ StringOp(<<"REPNZ", "SCAS">>, "UnaryString", 11)
    @@ [n \in {<<p, "RET">> : p \in {"REP", "REPE", "REPZ", "REPNE", "REPNZ"}} |-> Row("NoArgOp", "RET")]
valid_lock_instructions ==
  {"ADD", "ADC", "AND", "BTC", "BTR", "BTS", "CMPXCHG", "CMPXCH8B", "CMPXCHG16B", "DEC", "INC",
   "NEG", "NOT", "OR", "SBB", "SUB", "XOR", "XADD", "XCHG"}
Locked(table) ==
  [n \in {<<"LOCK", name>> : name \in {v \in valid_lock_instructions : <<v>> \in DOMAIN table}} |->
     table[<<n[2]>>]]

-----------------------------------------------------------------------------
(* x87: the flags are those of the handler, arg the number of pops *)

Fpu(name, form, opcode, arg, flags) == <<name>> :> Flags(Row(form, opcode), arg, flags)
Waiting(name, row) == <<name>> :> [row EXCEPT !.wait = TRUE]
FpuArithmetic(name, popping, integral) ==
  Fpu(name, "FPUBinaryOp", name, 0, {}) @@ Fpu(popping, "FPUBinaryOp", name, 0, {"pop"})
    @@ Fpu(integral, "FPUBinaryOp", name, 0, {"integral"})
\* a word of the control state: its mode, and the size it may state (none for
\* the whole state: ~0 is no size)
Word(name, mode, size) == <<name>> :> Flags(Ext(Row("FSTLD_WORD", "FSTLD_WORD"), mode), size, {})
WholeState == -1
FpuControl ==
  (<<"FNOP">> :> Row("NoArgOp", "NOP")) @@ (<<"FWAIT">> :> Row("NoArgOp", "FWAIT"))
    @@ (<<"WAIT">> :> Row("NoArgOp", "FWAIT")) @@ (<<"FNINIT">> :> Row("NoArgOp", "FINIT"))
    @@ Waiting("FINIT", Row("NoArgOp", "FINIT")) @@ (<<"FNCLEX">> :> Row("NoArgOp", "FCLEX"))
    @@ Waiting("FCLEX", Row("NoArgOp", "FCLEX"))
    @@ (<<"FNSTSW">> :> Row("FNSTSW", "FSTLD_WORD")) @@ Waiting("FSTSW", Row("FNSTSW", "FSTLD_WORD"))
    @@ Word("FNSTCW", 2, 1) @@ Waiting("FSTCW", Word("FNSTCW", 2, 1)[<<"FNSTCW">>]) @@ Word("FLDCW", 3, 1)
    @@ Word("STMXCSR", 4, 2) @@ Word("LDMXCSR", 5, 2)
    @@ Word("FNSAVE", 6, WholeState) @@ Waiting("FSAVE", Word("FNSAVE", 6, WholeState)[<<"FNSAVE">>])
    @@ Word("FRSTOR", 7, WholeState) @@ Word("FNSTENV", 8, WholeState)
    @@ Waiting("FSTENV", Word("FNSTENV", 8, WholeState)[<<"FNSTENV">>]) @@ Word("FLDENV", 9, WholeState)
    @@ Numbered(<<>>, Listed(<<"FINCSTP", "FDECSTP">>), Row("NoArgOp", "FINCDECSTP"))
    @@ Fpu("FFREE", "FPURegisterOp", "FFREE", 0, {})
\* FMOVB is listed twice, first with 2
FpuMoves ==
  Numbered(<<>>, Listed(<<"FLD1", "FLDL2T", "FLDL2E", "FLDPI", "FLDLG2", "FLDLN2", "FLDZ">>),
           Row("NoArgOp", "FLD_const"))
    @@ Fpu("FLD", "FLD", "FLD", 0, {}) @@ Fpu("FILD", "FLD", "FLD", 0, {"integral"})
    @@ Fpu("FST", "FST", "FST", 0, {}) @@ Fpu("FIST", "FST", "FST", 0, {"integral"})
    @@ Fpu("FSTP", "FST", "FST", 0, {"pop"}) @@ Fpu("FISTP", "FST", "FST", 0, {"integral", "pop"})
    @@ Fpu("FISTTP", "FST", "FST", 0, {"integral", "pop", "trunc"})
    @@ Fpu("FXCH", "FXCH", "FXCH", 0, {})
    @@ (LET codes == ("B" :> 2) @@ ("B" :> 5)
                       @@ [E |-> 0, NE |-> 1, NAE |-> 2, BE |-> 3, NA |-> 3, A |-> 4, NBE |-> 4,
                           AE |-> 5, U |-> 6, NU |-> 7]
        IN  [n \in {<<"FMOV", c>> : c \in DOMAIN codes} |-> Flags(Row("FMOVcc", "FMOVcc"), codes[n[2]], {})])
FpuMath ==
  FpuArithmetic("FADD", "FADDP", "FIADD") @@ FpuArithmetic("FSUB", "FSUBP", "FISUB")
    @@ FpuArithmetic("FSUBR", "FSUBRP", "FISUBR") @@ FpuArithmetic("FMUL", "FMULP", "FIMUL")
    @@ FpuArithmetic("FDIV", "FDIVP", "FIDIV") @@ FpuArithmetic("FDIVR", "FDIVRP", "FIDIVR")
    @@ Alone({"F2XM1", "FABS", "FCHS", "FPREM", "FPREM1", "FRNDINT", "FSQRT", "FYL2X", "FYL2XP1",
              "FXTRACT", "FSCALE", "FXAM", "FTST", "FSIN", "FCOS", "FSINCOS", "FPTAN", "FPATAN"}, "NoArgOp")
FpuCompares ==
  Fpu("FCOM", "FCOM", "FCOM", 0, {}) @@ Fpu("FCOMP", "FCOM", "FCOM", 1, {})
    @@ Fpu("FCOMPP", "FCOM", "FCOM", 2, {}) @@ Fpu("FUCOM", "FCOM", "FCOM", 0, {"unordered"})
    @@ Fpu("FUCOMP", "FCOM", "FCOM", 1, {"unordered"}) @@ Fpu("FUCOMPP", "FCOM", "FCOM", 2, {"unordered"})
    @@ Fpu("FCOMI", "FCOM", "FCOM", 0, {"eflags"}) @@ Fpu("FCOMIP", "FCOM", "FCOM", 1, {"eflags"})
    @@ Fpu("FUCOMI", "FCOM", "FCOM", 0, {"eflags", "unordered"})
    @@ Fpu("FUCOMIP", "FCOM", "FCOM", 1, {"eflags", "unordered"})
    @@ Fpu("FICOM", "FCOM", "FCOM", 0, {"integral"}) @@ Fpu("FICOMP", "FCOM", "FCOM", 1, {"integral"})

-----------------------------------------------------------------------------
(* Vectors *)

VectorMoves ==
  LET mov == Row("VPUMove", "VPU_MOV")
      unaligned(row) == [row EXCEPT !.aligned = FALSE]
      bits == ("64" :> 3) @@ ("32" :> 2) @@ ("16" :> 1) @@ ("8" :> 0)
      floats == ("PD" :> 3) @@ ("PS" :> 2)
  IN  (<<"MOVQ">> :> [Scalar(mov, 3) EXCEPT !.form = "MOVx"]) @@ (<<"MOVD">> :> [Scalar(mov, 2) EXCEPT !.form = "MOVx"])
        @@ (<<"MOVSS">> :> Scalar(mov, 2))
        @@ (<<"MOVDQA">> :> [Vector(mov, 3) EXCEPT !.maskable = FALSE])
        @@ (<<"MOVDQU">> :> unaligned([Vector(mov, 3) EXCEPT !.maskable = FALSE]))
        @@ [n \in {"MOVDQA"} \X (DOMAIN bits) |-> Vector(mov, bits[n[2]])]
        @@ [n \in {"MOVDQU"} \X (DOMAIN bits) |-> unaligned(Vector(mov, bits[n[2]]))]
        @@ [n \in {"MOVA"} \X (DOMAIN floats) |-> Vector(mov, floats[n[2]])]
        @@ [n \in {"MOVU"} \X (DOMAIN floats) |-> unaligned(Vector(mov, floats[n[2]]))]

\* one row for every suffix of an operation of the table
Suffixed(opcodes, sizes, form) ==
  [n \in (DOMAIN opcodes) \X (DOMAIN sizes) |-> Vector(Row(form, opcodes[n[1]]), sizes[n[2]])]
ScalarSuffixed(opcodes, form) ==
  [n \in (DOMAIN opcodes) \X {"SD", "SS"} |->
     Scalar(Row(form, opcodes[n[1]]), IF n[2] = "SD" THEN 3 ELSE 2)]
PackedFloats == [PD |-> 3, PS |-> 2]
Quads == [Q |-> 3, D |-> 2]
Words == [W |-> 1, B |-> 0]
VectorMath ==
  LET floating == [ADD |-> "VPU_FADD", SUB |-> "VPU_FSUB", MUL |-> "VPU_FMUL", DIV |-> "VPU_FDIV",
                   MIN |-> "VPU_FMIN", MAX |-> "VPU_FMAX"]
      bitwise == [AND |-> "VPU_AND", OR |-> "VPU_OR", XOR |-> "VPU_XOR", ANDN |-> "VPU_ANDN"]
      packed == [PAND |-> "VPU_AND", POR |-> "VPU_OR", PXOR |-> "VPU_XOR", PANDN |-> "VPU_ANDN"]
      lanes == [PADD |-> "VPU_ADD", PSUB |-> "VPU_SUB", PMINU |-> "VPU_UMIN", PMINS |-> "VPU_SMIN",
                PMAXU |-> "VPU_UMAX", PMAXS |-> "VPU_SMAX"]
      saturating == [PADDS |-> "VPU_ADDS", PADDUS |-> "VPU_ADDUS", PSUBS |-> "VPU_SUBS",
                     PSUBUS |-> "VPU_SUBUS", PAVG |-> "VPU_AVG"]
      roots == [SQRT |-> "VPU_FSQRT", RSQRT |-> "VPU_FRSQRT"]
  IN  ScalarSuffixed(floating, "VPUBinary") @@ Suffixed(floating, PackedFloats, "VPUBinary")
        @@ [n \in {<<p>> : p \in DOMAIN packed} |->
              [Vector(Row("VPUBinary", packed[n[1]]), 3) EXCEPT !.maskable = FALSE]]
        @@ Suffixed(packed, Quads, "VPUBinary") @@ Suffixed(bitwise, PackedFloats, "VPUBinary")
        @@ Suffixed(lanes, Quads @@ Words, "VPUBinary") @@ Suffixed(saturating, Words, "VPUBinary")
        @@ Suffixed([PMULL |-> "VPU_MULL"], Quads @@ [W |-> 1], "VPUBinary")
        @@ Suffixed([ADDSUB |-> "VPU_FADDSUB"], PackedFloats, "VPUBinary")
        @@ Suffixed(roots, PackedFloats, "VPUUnary") @@ ScalarSuffixed(roots, "VPUUnary")
        @@ ScalarSuffixed([COMI |-> "VPU_FCOMI"], "VPUBinary_2arg")

\* the comparisons, in the order of their predicates
Predicates ==
  <<"EQ", "LT", "LE", "UNORD", "NEQ", "NLT", "NLE", "ORD", "EQ_UQ", "NGE", "NGT", "FALSE", "NEQ_OQ",
    "GE", "GT", "TRUE", "EQ_OS", "LT_OQ", "LE_OQ", "UNORD_S", "NEQ_US", "NLT_UQ", "NLE_UQ", "ORD_S",
    "EQ_US", "NGE_UQ", "NGT_UQ", "FALSE_OS", "NEQ_OS", "GE_OQ", "GT_OQ", "TRUE_US">>
VectorCompares ==
  LET packed(form, suffix) == Vector(Row(form, "VPU_FCMP"), PackedFloats[suffix])
      scalar(form, suffix) == Scalar(Row(form, "VPU_FCMP"), IF suffix = "SD" THEN 3 ELSE 2)
      row(form, suffix) == IF suffix \in {"PD", "PS"} THEN packed(form, suffix) ELSE scalar(form, suffix)
  IN  [n \in {"CMP"} \X {"PD", "PS", "SS"} |-> row("VPU_FCMP", n[2])]
        @@ [n \in {"CMP"} \X Range(Predicates) \X {"PD", "PS", "SD", "SS"} |->
              Ext(row("VPUBinary", n[3]), Listed(Predicates)[n[2]])]

Converting(name, form, mode, elem) ==
  name :> Ext([Row(form, "VPU_CVT") EXCEPT !.elem = elem], mode)
PackedConverting(name, shape, mode) ==
  name :> Ext(Flags(Row("VPUCVT_packed", "VPU_CVT"), 0, {shape}), mode)
Conversions ==
  Converting(<<"CVT", "SD", "SI">>, "VPUCVT_scalar_f2i", 0, 3)
    @@ Converting(<<"CVT", "SS", "SI">>, "VPUCVT_scalar_f2i", 4, 2)
    @@ Converting(<<"CVTT", "SD", "SI">>, "VPUCVT_scalar_f2i", 8, 3)
    @@ Converting(<<"CVTT", "SS", "SI">>, "VPUCVT_scalar_f2i", 12, 2)
    @@ Converting(<<"CVT", "SI", "SD">>, "VPUCVT_scalar_i2f", 16, 3)
    @@ Converting(<<"CVT", "SI", "SS">>, "VPUCVT_scalar_i2f", 20, 2)
    @@ Converting(<<"CVT", "SD", "SS">>, "VPUCVT_scalar_f2f", 24, 3)
    @@ Converting(<<"CVT", "SS", "SD">>, "VPUCVT_scalar_f2f", 26, 2)
    @@ PackedConverting(<<"CVT", "PD", "DQ">>, "narrow", 28) @@ PackedConverting(<<"CVT", "PS", "DQ">>, "same", 31)
    @@ PackedConverting(<<"CVTT", "PD", "DQ">>, "narrow", 34) @@ PackedConverting(<<"CVTT", "PS", "DQ">>, "same", 37)
    @@ PackedConverting(<<"CVT", "DQ", "PD">>, "wide", 40) @@ PackedConverting(<<"CVT", "DQ", "PS">>, "same", 43)
    @@ PackedConverting(<<"CVT", "PD", "PS">>, "narrow", 46) @@ PackedConverting(<<"CVT", "PS", "PD">>, "wide", 49)

Unprefixed ==
  Moves @@ Jumps @@ Arithmetic @@ NoOperands @@ Strings @@ FpuControl @@ FpuMoves @@ FpuMath
    @@ FpuCompares @@ VectorMoves @@ VectorMath @@ VectorCompares @@ Conversions
asm_routing_table == Unprefixed @@ Locked(Unprefixed)

-----------------------------------------------------------------------------
(* What every row of the table is                                          *)

Forms ==
  {"NoArgOp", "UnaryOp", "BinaryOp", "BinaryOp_NoBMem", "BinaryOp_R_RM", "TernaryOp", "RR_RM", "IMMRM",
   "IMUL", "CMP", "Shift", "XCHG", "LEA", "POP", "MOVxX", "BSx", "MOVx", "MOVx_trans", "DEBUG_mem",
   "BinaryString", "LODS_string", "UnaryString", "MOVS", "MOVSD", "CMPSD",
   "FPUBinaryOp", "FPURegisterOp", "FSTLD_WORD", "FNSTSW", "FLD", "FST", "FXCH", "FMOVcc", "FCOM",
   "VPUMove", "VPUBinary", "VPUBinary_2arg", "VPUUnary", "VPU_FCMP",
   "VPUCVT_scalar_f2i", "VPUCVT_scalar_i2f", "VPUCVT_scalar_f2f", "VPUCVT_packed"}
Shapes == {"same", "narrow", "wide"}
RowFlags == Shapes \cup {"sign", "forward", "integral", "pop", "trunc", "eflags", "unordered"}
Rows ==
  [form : Forms, op : 0..255, ext : {<<>>} \cup {<<n>> : n \in 0..255}, mask : 0..15,
   imm : {Follows, Forbidden} \cup 0..3, arg : Int, flags : SUBSET RowFlags, elem : 0..3,
   maskable : BOOLEAN, aligned : BOOLEAN, scalar : BOOLEAN, wait : BOOLEAN]
Extended1(row, n) == row.ext # <<>> /\ row.ext[1] \in 0..n
\* a row with the numbers its handler can do with
IsRow(row) ==
  /\ row \in Rows
  /\ row.form \in {"IMMRM", "IMUL"} => row.imm # Forbidden
  /\ row.form \in {"BinaryString", "LODS_string", "UnaryString", "MOVS"} => Extended1(row, 11)
  /\ row.form = "FMOVcc" => row.arg \in 0..7
  /\ row.form = "FCOM" => row.arg \in 0..2
  /\ row.form \in {"VPUCVT_scalar_f2i", "VPUCVT_scalar_i2f", "VPUCVT_scalar_f2f", "VPUCVT_packed"} => Extended1(row, 49)
  /\ row.form = "VPUCVT_packed" => \E s \in Shapes : row.flags = {s}

-----------------------------------------------------------------------------
(* The handler of a mnemonic, given its row and the operands *)

FCMPRow == Scalar(Row("VPU_FCMP", "VPU_FCMP"), 3)
InstantZero(y) == y.kind = "imm" /\ ~y.strict /\ y.val.known = "now" /\ y.val.val = 0 /\ ~y.val.float
\* the mnemonics whose operands choose the handler, and the operands it gets
Routed(row, args) ==
  LET use(chosen) == [row |-> chosen, args |-> args]
  IN  CASE row.form = "IMUL" /\ Len(args) = 1 -> use(Ext([row EXCEPT !.form = "IMMRM"], 0))
        [] row.form = "IMUL" /\ Len(args) = 2 -> use(Ext([row EXCEPT !.form = "BinaryOp"], 1))
        [] row.form = "IMUL" /\ Len(args) = 3 -> use(Ext([row EXCEPT !.form = "TernaryOp"], 2))
        [] row.form = "CMP" ->
             IF Len(args) = 2 /\ InstantZero(args[2])
             THEN [row |-> Row("UnaryOp", "CMPZ"), args |-> <<args[1]>>]
             ELSE use(Row("BinaryOp", "CMP"))
        [] row.form = "FNSTSW" ->
             IF args = <<Reg(0, 1)>> THEN [row |-> Ext([row EXCEPT !.form = "NoArgOp"], 0), args |-> <<>>]
             ELSE use(Flags(Ext([row EXCEPT !.form = "FSTLD_WORD"], 1), 1, {}))
        [] row.form = "MOVx" ->
             IF \E i \in DOMAIN args : args[i].kind = "reg"
             THEN use([Row("MOVx_trans", "TRANS") EXCEPT !.arg = row.elem])
             ELSE use([row EXCEPT !.form = "VPUMove"])
        [] row.form = "MOVS" ->
             IF Len(args) = 2 /\ \A i \in DOMAIN args : Addressed(args[i])
             THEN use([row EXCEPT !.form = "BinaryString"]) ELSE use(Ext(Row("BinaryOp", "MOVcc"), 2))
        [] row.form = "MOVSD" ->
             IF args = <<>> THEN use(Ext([row EXCEPT !.form = "NoArgOp"], 2))
             ELSE use(Scalar(Row("VPUMove", "VPU_MOV"), 3))
        [] row.form = "CMPSD" ->
             IF args = <<>> THEN use(Ext([row EXCEPT !.form = "NoArgOp"], 2 * 4 + 2)) ELSE use(FCMPRow)
        [] OTHER -> use(row)

Arity(form) ==
  CASE form \in {"NoArgOp"} -> {0}
    [] form \in {"UnaryOp", "IMMRM", "POP", "LODS_string", "UnaryString", "FPURegisterOp", "FSTLD_WORD",
                 "FLD", "FST"} -> {1}
    [] form \in {"TernaryOp", "RR_RM"} -> {3}
    [] form = "FXCH" -> {0, 1}
    [] form \in {"FPUBinaryOp", "FCOM"} -> 0..2
    [] form = "VPUBinary" -> {2, 3}
    [] form = "VPU_FCMP" -> {3, 4}
    [] OTHER -> {2}
VectorForms == {"VPUMove", "VPUBinary", "VPUBinary_2arg", "VPUUnary", "VPU_FCMP", "VPUCVT_packed"}
HasFlag(row, flag) == flag \in row.flags
Handled(row, m, x) ==
  CASE row.form = "NoArgOp"         -> Opcode(row)
    [] row.form = "UnaryOp"         -> UnaryOp(row, x[1])
    [] row.form = "BinaryOp"        -> IF row.imm = Forbidden /\ x[2].kind = "imm" THEN Rejected
                                       ELSE BinaryOp(row, x[1], x[2])
    [] row.form = "BinaryOp_NoBMem" -> BinaryOp_NoBMem(row, x[1], x[2])
    [] row.form = "BinaryOp_R_RM"   -> BinaryOp_R_RM(row, x[1], x[2])
    [] row.form = "TernaryOp"       -> TernaryOp(row, x[1], x[2], x[3])
    [] row.form = "RR_RM"           -> RR_RM(row, x[1], x[2], x[3])
    [] row.form = "IMMRM"           -> IMMRM(row, x[1])
    [] row.form = "Shift"           -> Shift(row, x[1], x[2])
    [] row.form = "XCHG"            -> XCHG(row, x[1], x[2])
    [] row.form = "LEA"             -> LEA(row, x[1], x[2])
    [] row.form = "POP"             -> POP(row, x[1])
    [] row.form = "MOVxX"           -> MOVxX(row, HasFlag(row, "sign"), x[1], x[2])
    [] row.form = "BSx"             -> BSx(row, HasFlag(row, "forward"), x[1], x[2])
    [] row.form = "MOVx_trans"      -> MOVx_trans(row, row.arg, x[1], x[2])
    [] row.form = "DEBUG_mem"       -> DEBUG_mem(row, x[1], x[2])
    [] row.form = "BinaryString"    -> BinaryString(row, x[1], x[2])
    [] row.form = "LODS_string"     -> LODS_string(row, x[1])
    [] row.form = "UnaryString"     -> UnaryString(row, x[1])
    [] row.form = "FPUBinaryOp"     -> FPUBinaryOp(row, HasFlag(row, "integral"), HasFlag(row, "pop"), x)
    [] row.form = "FPURegisterOp"   -> FPURegisterOp(row, x[1])
    [] row.form = "FSTLD_WORD"      -> FSTLD_WORD(row, row.arg, x[1])
    [] row.form = "FLD"             -> FLD(row, HasFlag(row, "integral"), x[1])
    [] row.form = "FST"             -> FST(row, HasFlag(row, "integral"), HasFlag(row, "pop"), HasFlag(row, "trunc"), x[1])
    [] row.form = "FXCH"            -> FXCH(row, x)
    [] row.form = "FMOVcc"          -> FMOVcc(row, row.arg, x[1], x[2])
    [] row.form = "FCOM"            -> FCOM(row, HasFlag(row, "integral"), row.arg, HasFlag(row, "eflags"),
                                            HasFlag(row, "unordered"), x)
    [] row.form = "VPUMove"         -> VPUMove(row, m, x[1], x[2])
    [] row.form \in {"VPUBinary", "VPUBinary_2arg"} -> VPUBinary(row, m, x)
    [] row.form = "VPUUnary"        -> VPUUnary(row, m, x[1], x[2])
    [] row.form = "VPU_FCMP"        -> VPU_FCMP(row, m, x)
    [] row.form = "VPUCVT_scalar_f2i" -> VPUCVT_scalar_f2i(row, x[1], x[2])
    [] row.form = "VPUCVT_scalar_i2f" -> VPUCVT_scalar_i2f(row, x[1], x[2])
    [] row.form = "VPUCVT_scalar_f2f" -> VPUCVT_scalar_f2f(row, x[1], x[2])
    [] row.form = "VPUCVT_packed"   -> VPUCVT_packed(row, CHOOSE s \in row.flags : TRUE, m, x[1], x[2])

\* the code of a line: a mask only means something to the vector formats
Coded(routed, m) ==
  IF Len(routed.args) \in Arity(routed.row.form) /\ (m.expr = <<>> \/ routed.row.form \in VectorForms)
  THEN (IF routed.row.wait THEN Byte(Op("FWAIT")) ELSE <<>>) \o Handled(routed.row, m, routed.args)
  ELSE Rejected
CodeOf(name, m, parsed) ==
  IF WellParsed(parsed) THEN Coded(Routed(asm_routing_table[name], parsed), m) ELSE Rejected

=============================================================================
