----------------------------- MODULE AsmMeaning -----------------------------
(***************************************************************************)
(* What an assembly line says, whatever it is encoded as: the instructions *)
(* its mnemonic stands for, and its operands once their sizes are settled. *)
(* The assembler and the machine are checked against it; nothing here is   *)
(* taken from their encodings.                                             *)
(***************************************************************************)
EXTENDS OpcodeHandlers

Says(does, ops, how) == [does |-> does, ops |-> ops, how |-> how]

-----------------------------------------------------------------------------
(* Operands *)

\* the sizes the operands state: a register its own, a value only an explicit one
Stated(args) ==
  {args[i].size : i \in {j \in DOMAIN args : args[j].kind = "reg" \/ (args[j].kind \in {"imm", "mem"} /\ args[j].sized)}}
TheSize(args, default) == IF Stated(args) = {} THEN default ELSE CHOOSE s \in Stated(args) : TRUE

\* every register counts as often as it is written, the rest is the displacement
SaysAddress(a) ==
  LET sizes == {r[2] : r \in DOMAIN a.regs} \cup a.size
      times(id) == LET same == {r \in DOMAIN a.regs : r[1] = id}
                   IN  FoldSet(LAMBDA r, n : n + a.regs[r], 0, same)
  IN  [size |-> IF sizes = {} THEN 3 ELSE CHOOSE s \in sizes : TRUE,
       mult |-> [id \in 0..15 |-> times(id)], disp |-> BytesOf(a.base, 8)]
SaysOperand(x, size) ==
  CASE x.kind = "reg"  -> IF x.high = 1 THEN HighReg(x.id) ELSE Reg(x.id, size)
    [] x.kind = "mem"  -> At(SaysAddress(x.addr), size)
    [] x.kind = "imm"  -> Value(BytesOf(x.val, Bytes(size)))
    [] x.kind \in {"st", "vreg"} -> x
AllOf(args, size) == [i \in DOMAIN args |-> SaysOperand(args[i], size)]
Own(x) == IF x.kind = "imm" THEN SaysOperand(x, 3) ELSE SaysOperand(x, x.size)

-----------------------------------------------------------------------------
(* Names *)

Synonyms ==
  [E |-> "Z", NE |-> "NZ", PE |-> "P", PO |-> "NP", NAE |-> "B", NA |-> "BE", NBE |-> "A", NB |-> "AE",
   NGE |-> "L", NG |-> "LE", NLE |-> "G", NL |-> "GE", U |-> "P", NU |-> "NP",
   REPZ |-> "REPE", REPNZ |-> "REPNE",
   FNOP |-> "NOP", WAIT |-> "NOP", FWAIT |-> "NOP", FNINIT |-> "FINIT", FNCLEX |-> "FCLEX", FSTSW |-> "FNSTSW",
   FSTCW |-> "FNSTCW", FSAVE |-> "FNSAVE", FSTENV |-> "FNSTENV"]
Canonical(part) == IF part \in DOMAIN Synonyms THEN Synonyms[part] ELSE part
CanonicalName(name) == IF name[1] = "CMP" THEN name ELSE [i \in DOMAIN name |-> Canonical(name[i])]
\* the prefixes that change nothing here
Unprefix(name) ==
  IF name[1] = "LOCK" \/ (Len(name) = 2 /\ name[2] = "RET") THEN Tail(name) ELSE name
WaitsFirst == {"FINIT", "FCLEX", "FSTSW", "FSTCW", "FSAVE", "FSTENV"}

-----------------------------------------------------------------------------
(* x87 *)

FpuNames ==
  [FADD |-> "FADD", FADDP |-> "FADD", FIADD |-> "FADD", FSUB |-> "FSUB", FSUBP |-> "FSUB", FISUB |-> "FSUB",
   FSUBR |-> "FSUBR", FSUBRP |-> "FSUBR", FISUBR |-> "FSUBR", FMUL |-> "FMUL", FMULP |-> "FMUL", FIMUL |-> "FMUL",
   FDIV |-> "FDIV", FDIVP |-> "FDIV", FIDIV |-> "FDIV", FDIVR |-> "FDIVR", FDIVRP |-> "FDIVR", FIDIVR |-> "FDIVR"]
Popping == {"FADDP", "FSUBP", "FSUBRP", "FMULP", "FDIVP", "FDIVRP", "FSTP", "FISTP", "FISTTP", "FCOMP", "FUCOMP",
            "FCOMIP", "FUCOMIP", "FICOMP"}
Integral == {"FIADD", "FISUB", "FISUBR", "FIMUL", "FIDIV", "FIDIVR", "FILD", "FIST", "FISTP", "FICOM", "FICOMP"}
FpuCompareNames == {"FCOM", "FCOMP", "FCOMPP", "FUCOM", "FUCOMP", "FUCOMPP", "FCOMI", "FCOMIP", "FUCOMI", "FUCOMIP",
                    "FICOM", "FICOMP"}
FpuHow(name) ==
  Treats(IF name \in Integral THEN "int" ELSE IF name = "FISTTP" THEN "truncated" ELSE "float",
         IF name \in {"FCOMPP", "FUCOMPP"} THEN 2 ELSE IF name \in Popping THEN 1 ELSE 0)
\* without operands it is ST(1) and ST(0), with one in memory ST(0) comes first
FpuArithmeticOps(args) ==
  IF args = <<>> THEN <<St(1), St(0)>>
  ELSE IF Len(args) = 1 THEN <<St(0), Own(args[1])>> ELSE args
\* the other value of a comparison
Compared(args) == IF args = <<>> THEN <<St(1)>> ELSE <<Own(args[Len(args)])>>
Says87(name, args) ==
  CASE name \in DOMAIN FpuNames -> Says(<<FpuNames[name]>>, FpuArithmeticOps(args), FpuHow(name))
    [] name \in {"FLD", "FILD"} -> Says(<<"FLD">>, <<Own(args[1])>>, FpuHow(name))
    [] name \in {"FST", "FIST", "FSTP", "FISTP", "FISTTP"} -> Says(<<"FST">>, <<Own(args[1])>>, FpuHow(name))
    [] name \in FpuCompareNames ->
         Says(<<"FCOM", IF name \in {"FCOMI", "FCOMIP", "FUCOMI", "FUCOMIP"} THEN "eflags" ELSE "fpu",
                IF name \in {"FUCOM", "FUCOMP", "FUCOMPP", "FUCOMI", "FUCOMIP"} THEN "quiet" ELSE "">>,
              Compared(args), FpuHow(name))
Says87Names == DOMAIN FpuNames \cup {"FLD", "FILD", "FST", "FIST", "FSTP", "FISTP", "FISTTP"} \cup FpuCompareNames

-----------------------------------------------------------------------------
(* Vectors *)

Width == [Q |-> 3, D |-> 2, W |-> 1, B |-> 0, PD |-> 3, SD |-> 3, PS |-> 2, SS |-> 2]
          @@ ("64" :> 3) @@ ("32" :> 2) @@ ("16" :> 1) @@ ("8" :> 0)
ScalarMoves == {<<"MOVQ">>, <<"MOVD">>, <<"MOVSS">>, <<"MOVS", "D">>}
VectorMoveNames == {"MOVDQA", "MOVDQU", "MOVA", "MOVU"}
VectorNames ==
  [ADD |-> "VEC_FADD", SUB |-> "VEC_FSUB", MUL |-> "VEC_FMUL", DIV |-> "VEC_FDIV", MIN |-> "VEC_FMIN",
   MAX |-> "VEC_FMAX", AND |-> "VEC_AND", OR |-> "VEC_OR", XOR |-> "VEC_XOR", ANDN |-> "VEC_ANDN",
   PAND |-> "VEC_AND", POR |-> "VEC_OR", PXOR |-> "VEC_XOR", PANDN |-> "VEC_ANDN", PADD |-> "VEC_ADD",
   PADDS |-> "VEC_ADDS", PADDUS |-> "VEC_ADDUS", PSUB |-> "VEC_SUB", PSUBS |-> "VEC_SUBS",
   PSUBUS |-> "VEC_SUBUS", PMULL |-> "VEC_MULL", PMINU |-> "VEC_UMIN", PMINS |-> "VEC_SMIN",
   PMAXU |-> "VEC_UMAX", PMAXS |-> "VEC_SMAX", ADDSUB |-> "VEC_FADDSUB", PAVG |-> "VEC_AVG",
   COMI |-> "VEC_FCOMI", SQRT |-> "VEC_FSQRT", RSQRT |-> "VEC_FRSQRT"]
\* PAND and its like have no suffix: what a bitwise operation does to all
\* elements does not depend on their size
VectorName(name) ==
  /\ name[1] \in DOMAIN VectorNames
  /\ Len(name) = 2 \/ name[1] \in {"PAND", "POR", "PXOR", "PANDN"}
OneSource == {"SQRT", "RSQRT"}

\* the elements an operation is done to
Enabled(m, count) ==
  IF m.expr = <<>> THEN 0..(count - 1)
  ELSE {i \in 0..(count - 1) : (IntegerBytes(m.expr[1].val, 8)[(i \div 8) + 1] \div 2 ^ (i % 8)) % 2 = 1}
\* the vector register that gives the size of the line
Registered(args) == CHOOSE i \in DOMAIN args : args[i].kind = "vreg"
CountOf(size, elem, scalar) == IF scalar THEN 1 ELSE 2 ^ size \div 2 ^ elem
VectorOps(args, elem, scalar) == AllOf(args, IF scalar THEN elem ELSE args[Registered(args)].size)

SaysMove(m, args, elem, scalar, aligned) ==
  LET count == CountOf(args[Registered(args)].size, elem, scalar)
      bytes(set) == {b \in 0..63 : b \div 2 ^ elem \in set}
      rest == (0..(count - 1)) \ Enabled(m, count)
  IN  Says(<<"VPUMove">>, VectorOps(args, elem, scalar),
           [moved |-> bytes(Enabled(m, count)), aligned |-> aligned, cleared |-> IF m.zero THEN bytes(rest) ELSE {}])
SaysLanes(does, m, args, elem, scalar) ==
  LET count == CountOf(args[Registered(args)].size, elem, scalar)
  IN  Says(does, VectorOps(args, elem, scalar),
           [elem |-> elem, count |-> count, on |-> Enabled(m, count), aligned |-> ~scalar,
            zero |-> m.zero /\ Enabled(m, count) # 0..(count - 1)])
\* with two operands, the destination is the first source
Sources(name, args) ==
  IF Len(args) = 2 /\ name[1] \notin OneSource THEN <<args[1], args[1], args[2]>> ELSE args

\* the predicates by their names: what is true, and whether a NaN is an error
Relations ==
  [EQ |-> {"equal"}, LT |-> {"less"}, LE |-> {"less", "equal"}, UNORD |-> {"unordered"},
   GE |-> {"greater", "equal"}, GT |-> {"greater"}, FALSE_ |-> {},
   NEQ |-> {"less", "greater", "unordered"}, NLT |-> {"greater", "equal", "unordered"},
   NLE |-> {"greater", "unordered"}, ORD |-> {"less", "equal", "greater"}, NGE |-> {"less", "unordered"},
   NGT |-> {"less", "equal", "unordered"}, TRUE_ |-> {"less", "equal", "greater", "unordered"}]
\* a suffix is about unordered operands: O or U whether they compare true, S or
\* Q whether they signal
Named(relation, unordered, signal) ==
  Predicate(CASE unordered = "" -> Relations[relation]
              [] unordered = "O" -> Relations[relation] \ {"unordered"}
              [] unordered = "U" -> Relations[relation] \cup {"unordered"}, signal)
SaysPredicate ==
  ("EQ" :> Named("EQ", "", FALSE)) @@ ("LT" :> Named("LT", "", TRUE)) @@ ("LE" :> Named("LE", "", TRUE))
    @@ ("UNORD" :> Named("UNORD", "", FALSE)) @@ ("NEQ" :> Named("NEQ", "", FALSE))
    @@ ("NLT" :> Named("NLT", "", TRUE)) @@ ("NLE" :> Named("NLE", "", TRUE)) @@ ("ORD" :> Named("ORD", "", FALSE))
    @@ ("NGE" :> Named("NGE", "", TRUE)) @@ ("NGT" :> Named("NGT", "", TRUE))
    @@ ("GE" :> Named("GE", "", TRUE)) @@ ("GT" :> Named("GT", "", TRUE))
    @@ ("FALSE" :> Named("FALSE_", "", FALSE)) @@ ("TRUE" :> Named("TRUE_", "", FALSE))
    @@ ("EQ_UQ" :> Named("EQ", "U", FALSE)) @@ ("EQ_OS" :> Named("EQ", "O", TRUE)) @@ ("EQ_US" :> Named("EQ", "U", TRUE))
    @@ ("NEQ_OQ" :> Named("NEQ", "O", FALSE)) @@ ("NEQ_US" :> Named("NEQ", "U", TRUE))
    @@ ("NEQ_OS" :> Named("NEQ", "O", TRUE)) @@ ("LT_OQ" :> Named("LT", "O", FALSE))
    @@ ("LE_OQ" :> Named("LE", "O", FALSE)) @@ ("GE_OQ" :> Named("GE", "O", FALSE)) @@ ("GT_OQ" :> Named("GT", "O", FALSE))
    @@ ("NLT_UQ" :> Named("NLT", "U", FALSE)) @@ ("NLE_UQ" :> Named("NLE", "U", FALSE))
    @@ ("NGE_UQ" :> Named("NGE", "U", FALSE)) @@ ("NGT_UQ" :> Named("NGT", "U", FALSE))
    @@ ("UNORD_S" :> Named("UNORD", "", TRUE)) @@ ("ORD_S" :> Named("ORD", "", TRUE))
    @@ ("FALSE_OS" :> Named("FALSE_", "O", TRUE)) @@ ("TRUE_US" :> Named("TRUE_", "U", TRUE))
\* the immediate of CMPPD and its like counts them in this order
PredicateNumbers ==
  <<"EQ", "LT", "LE", "UNORD", "NEQ", "NLT", "NLE", "ORD", "EQ_UQ", "NGE", "NGT", "FALSE", "NEQ_OQ", "GE", "GT",
    "TRUE", "EQ_OS", "LT_OQ", "LE_OQ", "UNORD_S", "NEQ_US", "NLT_UQ", "NLE_UQ", "ORD_S", "EQ_US", "NGE_UQ", "NGT_UQ",
    "FALSE_OS", "NEQ_OS", "GE_OQ", "GT_OQ", "TRUE_US">>
SaysFCMP(m, args, suffix, predicate) ==
  SaysLanes(SaysPredicate[predicate], m, Sources(<<"CMP">>, args), Width[suffix], suffix \in {"SD", "SS"})

\* CVT and CVTT: the names of both types; a packed register has the size of its elements' number
TypeOf(part, reg) ==
  CASE part \in {"SD", "PD"} -> "double" [] part \in {"SS", "PS"} -> "single" [] part = "DQ" -> "i32"
    [] part = "SI" -> IF reg.size = 3 THEN "i64" ELSE "i32"
SaysConvert(name, m, args) ==
  LET x == args[1]
      y == args[2]
      does == Convert(TypeOf(name[2], y), TypeOf(name[3], x), name[1] = "CVTT")
      wide == "PD" \in {name[2], name[3]}
      scalar == name[2] \in {"SD", "SS", "SI"}
      of(part, size) == IF part \in {"SD", "PD"} THEN 3 ELSE IF part = "SI" THEN size ELSE 2
      source == IF y.kind = "mem" THEN At(SaysAddress(y.addr), of(name[2], y.size)) ELSE y
      \* the wider side counts; an unsized source is twice the destination
      bytes == IF name[3] = "DQ" \/ (name[2] = "PD")
               THEN IF y.kind = "mem" /\ ~y.sized THEN 2 ^ (IF wide THEN x.size + 1 ELSE x.size) ELSE 2 ^ y.size
               ELSE 2 ^ x.size
      count == bytes \div (IF wide THEN 8 ELSE 4)
      noSize(r) == IF r.kind = "vreg" THEN [r EXCEPT !.size = NoSize] ELSE r
  IN  IF scalar THEN Says(does, <<x, source>>, <<>>)
      ELSE Says(does, <<noSize(x), noSize(source)>>,
                [count |-> count, on |-> Enabled(m, count),
                 zero |-> m.zero /\ Enabled(m, count) # 0..(count - 1)])

-----------------------------------------------------------------------------
(* The rest: operands of one size, but for the families below *)

CounterSize == [CXZ |-> 1, ECXZ |-> 2, RCXZ |-> 3]
ShiftNames == {<<"SHL">>, <<"SHR">>, <<"SAL">>, <<"SAR">>, <<"ROL">>, <<"ROR">>, <<"RCL">>, <<"RCR">>}
StringNames == {"MOVS", "CMPS", "LODS", "STOS", "SCAS"}
StringName(name) == name[1] \in StringNames \cup {"REP", "REPE", "REPNE"}
WordSizes == [FNSTSW |-> 1, FNSTCW |-> 1, FLDCW |-> 1, STMXCSR |-> 2, LDMXCSR |-> 2,
              FNSAVE |-> NoSize, FRSTOR |-> NoSize, FNSTENV |-> NoSize, FLDENV |-> NoSize]

\* a count is taken modulo the width, at least 32
SaysCount(y, size) ==
  IF y.kind = "reg" THEN Reg(2, 0) ELSE Value(<<y.val.val % (IF size = 3 THEN 64 ELSE 32)>>)
SaysShift(name, args) ==
  LET first == SaysOperand(args[1], args[1].size)
  IN  Says(name, <<first, SaysCount(args[2], args[1].size)>>, <<>>)
\* a second operand of a size of its own
SaysIndexed(name, args, size) ==
  LET first == TheSize(SelectSeq(args, LAMBDA x : x.kind # "imm"), 3)
  IN  Says(name, <<SaysOperand(args[1], first), SaysOperand(args[2], size)>>, <<>>)
SaysString(name, args) ==
  Says(IF args = <<>> THEN name ELSE name \o <<StringSizes[TheSize(args, 0) + 1]>>, <<>>, <<>>)
SaysJump(name, args) ==
  IF name[Len(name)] \in DOMAIN CounterSize
  THEN Says(<<"J", "CXZ">>, AllOf(args, CounterSize[name[2]]), <<>>)
  ELSE Says(name, AllOf(args, TheSize(args, 3)), <<>>)
ThePlainAddress(x) == At(SaysAddress(x.addr), NoSize)

\* name is canonical here
SaysOne(name, m, args) ==
  CASE StringName(name) /\ name = <<"MOVS">> /\ ~\A i \in DOMAIN args : args[i].kind = "mem" ->
         Says(<<"MOV", "S">>, AllOf(args, TheSize(args, 3)), <<>>)
    [] name \in ScalarMoves /\ args # <<>> /\ ~\E i \in DOMAIN args : args[i].kind = "reg" ->
         SaysMove(m, args, IF name \in {<<"MOVQ">>, <<"MOVS", "D">>} THEN 3 ELSE 2, TRUE, FALSE)
    [] name \in {<<"MOVQ">>, <<"MOVD">>} /\ \E i \in DOMAIN args : args[i].kind = "reg" -> Says(name, args, <<>>)
    [] name = <<"CMPS", "D">> /\ args # <<>> ->
         SaysFCMP(m, SubSeq(args, 1, Len(args) - 1), "SD", PredicateNumbers[args[Len(args)].val.val + 1])
    [] StringName(name) /\ (args = <<>> \/ name # <<"MOVS">> \/ \A i \in DOMAIN args : args[i].kind = "mem")
         /\ ~(name \in {<<"MOVS", "D">>, <<"CMPS", "D">>} /\ args # <<>>) -> SaysString(name, args)
    [] name[1] \in VectorMoveNames ->
         SaysMove(m, args, IF Len(name) = 2 THEN Width[name[2]] ELSE 3, FALSE, name[1] \in {"MOVDQA", "MOVA"})
    [] name[1] = "CMP" /\ Len(name) = 2 ->
         SaysFCMP(m, SubSeq(args, 1, Len(args) - 1), name[2], PredicateNumbers[args[Len(args)].val.val + 1])
    [] name[1] = "CMP" /\ Len(name) = 3 -> SaysFCMP(m, args, name[3], name[2])
    [] name[1] \in {"CVT", "CVTT"} -> SaysConvert(name, m, args)
    [] Len(name) = 2 /\ VectorName(name) ->
         SaysLanes(<<VectorNames[name[1]]>>, m, Sources(name, args), Width[name[2]], name[2] \in {"SD", "SS"})
    [] Len(name) = 1 /\ VectorName(name) -> SaysLanes(<<VectorNames[name[1]]>>, m, Sources(name, args), 3, FALSE)
    [] name[1] \in Says87Names -> Says87(name[1], args)
    [] name[1] \in {"J", "LOOP"} -> SaysJump(name, args)
    [] name \in ShiftNames -> SaysShift(name, args)
    [] name \in {<<"BT">>, <<"BTS">>, <<"BTR">>, <<"BTC">>} -> SaysIndexed(name, args, 0)
    [] name = <<"BEXTR">> -> SaysIndexed(name, args, 1)
    [] name \in {<<"MOVZX">>, <<"MOVSX">>} -> Says(name, <<Own(args[1]), Own(args[2])>>, <<>>)
    [] name = <<"LEA">> -> Says(name, <<Own(args[1]), ThePlainAddress(args[2])>>, <<>>)
    [] name = <<"DEBUG_MEM">> -> Says(name, <<ThePlainAddress(args[1]), Own(args[2])>>, <<>>)
    [] name = <<"XCHG">> /\ args[1].kind = "mem" -> Says(name, AllOf(<<args[2], args[1]>>, args[2].size), <<>>)
    [] name[1] \in DOMAIN WordSizes -> Says(name, AllOf(args, WordSizes[name[1]]), <<>>)
    [] name = <<"FXCH">> -> Says(name, IF args = <<>> THEN <<St(1)>> ELSE args, <<>>)
    [] OTHER -> Says(name, AllOf(args, TheSize(args, 3)), <<>>)

\* the instructions of a line
Program(name, m, args) ==
  LET one == SaysOne(CanonicalName(Unprefix(name)), m, args)
  IN  IF name[1] \in WaitsFirst THEN <<Says(<<"NOP">>, <<>>, <<>>), one>> ELSE <<one>>

\* An instruction as it was read, in the same terms: CMPZ compares with zero.
Understood(instruction) ==
  LET said == Says(instruction.does, instruction.ops, instruction.how)
      x == instruction.ops[1]
  IN  IF instruction.does # <<"CMPZ">> THEN said
      ELSE Says(<<"CMP">>, <<x, Value([k \in 1..Bytes(x.size) |-> 0])>>, <<>>)

=============================================================================
