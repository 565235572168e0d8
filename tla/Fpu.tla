-------------------------------- MODULE Fpu ---------------------------------
(***************************************************************************)
(* The x87 unit of src/src/Instructions.cpp and its ST_Wrapper in          *)
(* src/include/Computer.h: physical registers, a tag word that says what   *)
(* each of them holds, and TOP, which says which of them is st(0).         *)
(*                                                                         *)
(* FPU_TOP is a field of the control word here, from bit 11 on, and shares *)
(* that bit with the rounding control of bits 10 and 11.                   *)
(*                                                                         *)
(* Numbers are names: what an instruction computes is any of them, what it *)
(* reads, compares, tags, rounds and moves is exact.                       *)
(***************************************************************************)
EXTENDS FpuNumbers

CONSTANTS
  Special,    (* the values isnan, isinf or IsDenorm is true of            *)
  Images,     (* what FRSTOR, FLDENV and FLDCW may find in memory          *)
  Operands,   (* what an operand in memory may be                          *)
  Draws       (* what Rand() or a result leaves in the condition codes     *)

Regs == Slots
Image == [control : 0 .. (2 ^ 16 - 1), status : SUBSET (C0123 \cup {"low"}),
          tag : [Regs -> 0 .. 3], st : [Slots -> Values]]
Normal == 0
ZeroTag == 1
SpecialTag == 2
EmptyTag == 3

ASSUME UnitAssumption ==
  /\ NReg \in {2, 4, 8}
  /\ Special \subseteq Values /\ {0, NaN} \subseteq Special
  /\ Images \subseteq Image /\ Operands \subseteq Values /\ Draws \subseteq SUBSET C0123

VARIABLES
  FPURegisters, FPU_control, FPU_tag, FPU_status,
  eflags,           (* those of ZF, PF and CF that are set                 *)
  host_rounding,    (* what fesetround last set for the process            *)
  fault,
  instr             (* history: the instruction, <<name, mode, i>>         *)

unitVars == <<FPURegisters, FPU_control, FPU_tag>>
vars == <<unitVars, FPU_status, eflags, host_rounding, fault, instr>>

-----------------------------------------------------------------------------
(* BitfieldWrapper: the value of a field, and a word with the field set.  A *)
(* field is what its lowest bit is worth and how many values it has.       *)

Field(word, lowest, size) == (word \div lowest) % size
WithField(word, lowest, size, v) == word + ((v % size) - Field(word, lowest, size)) * lowest

FPU_PC(control) == Field(control, 256, 4)
FPU_RC(control) == Field(control, 1024, 4)
FPU_TOP(control) == Field(control, 2048, NReg)

(* The unit as the helpers below hand it on; an error ends the work on it. *)
Unit == [reg |-> FPURegisters, control |-> FPU_control, tag |-> FPU_tag, error |-> "None"]

At(f, i) == (FPU_TOP(f.control) + i) % NReg
ST(f, i) == f.reg[At(f, i)]
IsEmpty(f, i) == f.tag[At(f, i)] = EmptyTag

(* IsDenorm is true of zero, so that the tag of a zero is never ZeroTag.   *)
ComputeFPUTag(v) == IF v \in Special THEN SpecialTag ELSE IF v = 0 THEN ZeroTag ELSE Normal

\* Mutant: the tag is computed from the value before it is rounded.
AssignTagFirst(f, i, v) ==
  [f EXCEPT !.reg[At(f, i)] = Rounded(v, FPU_PC(f.control)), !.tag[At(f, i)] = ComputeFPUTag(v)]

Assign(f, i, v) ==
  LET r == Rounded(v, FPU_PC(f.control))
  IN [f EXCEPT !.reg[At(f, i)] = r, !.tag[At(f, i)] = ComputeFPUTag(r)]

Freed(f, i) == [f EXCEPT !.tag[At(f, i)] = EmptyTag]

\* Mutant: TOP is counted as if it were the whole word.
TurnUnmasked(f, n) == [f EXCEPT !.control = @ + n * 2048]

(* TOP moves by n, and wraps in its field.                                 *)
Turn(f, n) == [f EXCEPT !.control = WithField(@, 2048, NReg, FPU_TOP(@) + n)]

Failed(f, e) == [f EXCEPT !.error = e]

PushFPU(f, v) ==
  LET d == Turn(f, -1)
  IN IF IsEmpty(d, 0) THEN Assign(d, 0, v) ELSE Failed(d, "FPUStackOverflow")

\* Mutant: TOP moves before the register is freed.
PopFPUMoved(f) == IF IsEmpty(f, 0) THEN Failed(f, "FPUStackUnderflow") ELSE Freed(Turn(f, 1), 0)

PopFPU(f) == IF IsEmpty(f, 0) THEN Failed(f, "FPUStackUnderflow") ELSE Turn(Freed(f, 0), 1)

PopTwice(f) == LET p == PopFPU(f) IN IF p.error = "None" THEN PopFPU(p) ELSE p

-----------------------------------------------------------------------------

AllEmpty == [r \in Regs |-> EmptyTag]

(* Nothing sets the registers: what they hold at first is any value.       *)
Init ==
  /\ FPURegisters \in [Regs -> Values]
  /\ FPU_control = 959 /\ FPU_tag = AllEmpty /\ FPU_status = {}
  /\ eflags \in SUBSET Flags /\ host_rounding = 0
  /\ fault = "None" /\ instr = <<"FINIT", 0, 0>>

Runs(name, mode, i) == fault = "None" /\ instr' = <<name, mode, i>>

Becomes(work) ==
  \E f \in {work} :
    /\ FPURegisters' = f.reg /\ FPU_control' = f.control /\ FPU_tag' = f.tag
    /\ fault' = f.error
Stops(e) == fault' = e /\ UNCHANGED unitVars

(* Most instructions leave a draw in the condition codes, some with C1     *)
(* cleared.  An action that stands for several allows what any of them     *)
(* leaves in the codes and in the rounding of the process.                 *)
SetCodes(codes) == FPU_status' = (FPU_status \ C0123) \cup codes
DrawCodes == \E d \in Draws : SetCodes(d)
DrawCodesC1 == \E d \in Draws : SetCodes(d \ {"C1"})

Keeps == UNCHANGED <<eflags, host_rounding>>
KeepsStatus == UNCHANGED FPU_status /\ Keeps

(* An instruction that finds an operand empty, and one that finds none.    *)
Present(operands) == \A i \in operands : ~IsEmpty(Unit, i)
Missing(operands) == ~Present(operands) /\ Stops("FPUAccessViolation")

(* The address, or the access to it, is out of bounds or not allowed.      *)
NoAccess == Stops("OutOfBounds")
NoWrite == NoAccess \/ Stops("AccessViolation")

(* Rounding to an integer sets the rounding of the process, and leaves it. *)
PerformRoundTrip == host_rounding' = FPU_RC(FPU_control)

-----------------------------------------------------------------------------
(* The instructions.                                                       *)

FLD_const(ext) ==
  /\ Runs("FLD_const", ext, 0) /\ DrawCodes /\ Keeps
  /\ \/ ext < 7 /\ \E v \in Values \ {NaN} : Becomes(PushFPU(Unit, v))
     \/ ext >= 7 /\ Stops("UndefinedBehavior")

FLD(mode, i) ==
  /\ Runs("FLD", mode, i) /\ DrawCodes /\ Keeps
  /\ \/ mode = 0 /\ Missing({i})
     \/ mode = 0 /\ Present({i}) /\ Becomes(PushFPU(Unit, ST(Unit, i)))
     \/ mode > 0 /\ NoAccess
     \/ mode \in 1 .. 5 /\ \E v \in Operands : Becomes(PushFPU(Unit, v))
     \/ mode > 5 /\ Stops("UndefinedBehavior")

FSTPops(f, mode) == IF mode \in {0, 2, 4, 6, 8} THEN f ELSE PopFPU(f)

FST(mode, i) ==
  /\ Runs("FST", mode, i) /\ DrawCodes /\ UNCHANGED eflags
  /\ \/ Missing({0}) /\ UNCHANGED host_rounding
     \/ /\ Present({0}) /\ mode \in {0, 1}
        /\ Becomes(FSTPops(Assign(Unit, i, ST(Unit, 0)), mode))
        /\ UNCHANGED host_rounding
     \/ Present({0}) /\ mode > 1 /\ NoAccess /\ UNCHANGED host_rounding
     \/ Present({0}) /\ mode > 13 /\ Stops("UndefinedBehavior") /\ UNCHANGED host_rounding
     \/ /\ Present({0}) /\ mode \in 2 .. 13
        /\ IF mode \in 6 .. 10 THEN PerformRoundTrip ELSE UNCHANGED host_rounding
        /\ NoWrite \/ Becomes(FSTPops(Unit, mode))

FXCH(i) ==
  /\ Runs("FXCH", 0, i) /\ Keeps
  /\ \/ Missing({0, i}) /\ UNCHANGED FPU_status
     \/ /\ Present({0, i}) /\ DrawCodesC1
        /\ Becomes(Assign(Assign(Unit, 0, ST(Unit, i)), i, ST(Unit, 0)))

FMOVcc(taken, i) ==
  /\ Runs("FMOVcc", taken, i) /\ Keeps
  /\ \/ taken = 1 /\ Missing({0, i}) /\ UNCHANGED FPU_status
     \/ taken = 1 /\ Present({0, i}) /\ DrawCodes /\ Becomes(Assign(Unit, 0, ST(Unit, i)))
     \/ taken = 0 /\ DrawCodes /\ Becomes(Unit)

(* FADD, FSUB, FSUBR, FMUL, FDIV and FDIVR.                                *)
FetchFPUBinaryFormat(mode, i) == IF mode \in {0, 1, 2} THEN {0, i} ELSE {0}
StoreFPUBinaryFormat(mode, i, res) ==
  CASE mode = 1 -> Assign(Unit, i, res)
    [] mode = 2 -> PopFPU(Assign(Unit, i, res))
    [] OTHER -> Assign(Unit, 0, res)

FADD(mode, i) ==
  LET operands == FetchFPUBinaryFormat(mode, i)
  IN /\ Runs("FADD", mode, i) /\ Keeps
     /\ \/ Missing(operands) /\ UNCHANGED FPU_status
        \/ Present(operands) /\ mode > 2 /\ NoAccess /\ UNCHANGED FPU_status
        \/ Present(operands) /\ mode > 6 /\ Stops("UndefinedBehavior") /\ UNCHANGED FPU_status
        \/ /\ Present(operands) /\ mode < 7 /\ DrawCodes
           /\ \E res \in Values : Becomes(StoreFPUBinaryFormat(mode, i, res))

F2XM1 ==
  /\ Runs("F2XM1", 0, 0) /\ Keeps
  /\ \/ Missing({0}) /\ UNCHANGED FPU_status
     \/ Present({0}) /\ ST(Unit, 0) \in Beyond /\ Stops("FPUError") /\ UNCHANGED FPU_status
     \/ /\ Present({0}) /\ ST(Unit, 0) \notin Beyond /\ DrawCodes
        /\ \E res \in Values : Becomes(Assign(Unit, 0, res))

(* FABS and FCHS; FSQRT; FSIN and FCOS; FRNDINT.                           *)
FABS ==
  /\ Runs("FABS", 0, 0) /\ UNCHANGED eflags
  /\ \/ Missing({0}) /\ UNCHANGED <<FPU_status, host_rounding>>
     \/ /\ Present({0})
        /\ \E res \in Values : Becomes(Assign(Unit, 0, res))
        /\ DrawCodes /\ (UNCHANGED host_rounding \/ PerformRoundTrip)

(* FPREM and FPREM1, which rounds to nearest; FSCALE.                      *)
FPREM ==
  /\ Runs("FPREM", 0, 0) /\ UNCHANGED eflags
  /\ \/ Missing({0, 1}) /\ UNCHANGED <<FPU_status, host_rounding>>
     \/ /\ Present({0, 1})
        /\ \E res \in Values : Becomes(Assign(Unit, 0, res))
        /\ DrawCodes /\ host_rounding' \in {host_rounding, 0}

(* FYL2X and FYL2XP1; FPATAN.                                              *)
FYL2X ==
  /\ Runs("FYL2X", 0, 0) /\ Keeps
  /\ \/ Missing({0, 1}) /\ UNCHANGED FPU_status
     \/ /\ Present({0, 1}) /\ DrawCodes
        /\ \E res \in Values : Becomes(Assign(PopFPU(Unit), 0, res))

(* FXTRACT; FSINCOS and FPTAN.                                             *)
FSINCOS ==
  /\ Runs("FSINCOS", 0, 0) /\ Keeps
  /\ \/ Missing({0}) /\ UNCHANGED FPU_status
     \/ /\ Present({0}) /\ DrawCodes
        /\ \E res, val \in Values : Becomes(PushFPU(Assign(Unit, 0, res), val))

Classes(f) ==
  LET v == ST(f, 0)
  IN IF IsEmpty(f, 0) THEN {{"C3", "C0"}}
     ELSE IF v = NaN THEN {{"C0"}}
     ELSE IF v = 0 THEN {{"C3"}}
     ELSE IF v \in Special THEN {{"C2", "C0"}, {"C3", "C2"}}
     ELSE {{"C2"}}
FXAM ==
  /\ Runs("FXAM", 0, 0) /\ Becomes(Unit) /\ Keeps
  /\ \E codes \in Classes(Unit), sign \in {{}, {"C1"}} : SetCodes(codes \cup sign)

FTST ==
  /\ Runs("FTST", 0, 0) /\ Keeps
  /\ \/ Missing({0}) /\ UNCHANGED FPU_status
     \/ Present({0}) /\ ST(Unit, 0) = NaN /\ Stops("ArithmeticError") /\ UNCHANGED FPU_status
     \/ /\ Present({0}) /\ ST(Unit, 0) # NaN /\ Becomes(Unit)
        /\ SetCodes(Codes(ST(Unit, 0), 0))

(* The pops of a comparison go by the lower three bits of its mode.        *)
FCOMPops(f, mode) ==
  CASE mode % 8 = 2 -> PopTwice(f)
    [] mode % 8 \in {1, 4, 6} -> PopFPU(f)
    [] OTHER -> f

(* The flags are those of the CPU for two modes, where the operand is      *)
(* st(0) and the comparison is not an unordered one (FUCOM).               *)
FCOM(mode, i, unordered) ==
  LET registers == mode \in {0, 1, 2, 11, 12}
      operands == IF registers THEN {0, i} ELSE {0}
      a == ST(Unit, 0)
  IN /\ Runs(IF unordered THEN "FUCOM" ELSE "FCOM", mode, i) /\ UNCHANGED host_rounding
     /\ \/ Missing(operands) /\ KeepsStatus
        \/ Present(operands) /\ ~registers /\ NoAccess /\ KeepsStatus
        \/ Present(operands) /\ mode > 12 /\ Stops("UndefinedBehavior") /\ KeepsStatus
        \/ /\ Present(operands) /\ mode < 13
           /\ \E b \in IF registers THEN {ST(Unit, i)} ELSE Operands :
                \/ Unordered(a, b) /\ ~unordered /\ Stops("ArithmeticError") /\ KeepsStatus
                \/ /\ Unordered(a, b) => unordered
                   /\ IF mode \in {11, 12} /\ i = 0 /\ ~unordered
                      THEN eflags' = AsFlags(a, b) /\ FPU_status' = FPU_status \ {"C1"}
                      ELSE SetCodes(Codes(a, b)) /\ UNCHANGED eflags
                   /\ Becomes(FCOMPops(Unit, mode))

FINCDECSTP(down) ==
  /\ Runs("FINCDECSTP", down, 0) /\ DrawCodesC1 /\ Keeps
  /\ Becomes(Turn(Unit, IF down = 1 THEN -1 ELSE 1))

FFREE(i) ==
  /\ Runs("FFREE", 0, i) /\ DrawCodes /\ Keeps
  /\ Becomes(Freed(Unit, i))

Reset == Becomes([Unit EXCEPT !.control = 959, !.tag = AllEmpty]) /\ FPU_status' = {}
FINIT == Runs("FINIT", 0, 0) /\ Reset /\ Keeps

FCLEX ==
  /\ Runs("FCLEX", 0, 0) /\ Becomes(Unit) /\ Keeps
  /\ FPU_status' = FPU_status \ {"low"}

-----------------------------------------------------------------------------
(* FSTSW AX, FSTSW, FSTCW, STMXCSR, LDMXCSR and FSTENV leave the unit as   *)
(* it is; an access that fails on the way stops them.                      *)
Store(mode) ==
  /\ Runs("FSTLD", mode, 0) /\ KeepsStatus
  /\ \/ Becomes(Unit)
     \/ mode # 0 /\ NoAccess
     \/ mode \in {1, 2, 4, 8} /\ NoWrite

FLDCW(m) ==
  /\ Runs("FSTLD", 3, 0) /\ KeepsStatus
  /\ NoAccess \/ Becomes([Unit EXCEPT !.control = m.control])

FSAVE ==
  /\ Runs("FSTLD", 6, 0) /\ Keeps
  /\ Reset \/ (NoWrite /\ UNCHANGED FPU_status)

(* The words are taken over one by one, so that an access that fails       *)
(* leaves the unit with those before it.                                   *)
Environment(m, reads) ==
  [Unit EXCEPT !.control = IF reads > 0 THEN m.control ELSE @,
               !.tag = IF reads > 2 THEN m.tag ELSE @,
               !.error = IF reads > 2 THEN "None" ELSE "OutOfBounds"]
LoadsStatus(m, reads) == FPU_status' = IF reads > 1 THEN m.status ELSE FPU_status

FLDENV(m, reads) ==
  /\ Runs("FSTLD", 9, 0) /\ Keeps
  /\ reads \in 0 .. 3
  /\ Becomes(Environment(m, reads)) /\ LoadsStatus(m, reads)

(* FRSTOR then assigns st(0), st(1), ..., which gives each its own tag; n   *)
(* of them before an access fails.                                         *)
Restored(m, n) ==
  LET f == Environment(m, 3)
      v(r) == m.st[(r - FPU_TOP(m.control)) % NReg]
      assigned(r) == (r - FPU_TOP(m.control)) % NReg < n
      rounded(r) == Rounded(v(r), FPU_PC(m.control))
  IN [f EXCEPT !.reg = [r \in Regs |-> IF assigned(r) THEN rounded(r) ELSE @[r]],
               !.tag = [r \in Regs |-> IF assigned(r) THEN ComputeFPUTag(rounded(r)) ELSE @[r]]]
FRSTOR(m, reads) ==
  /\ Runs("FSTLD", 7, 0) /\ Keeps
  /\ LoadsStatus(m, reads)
  /\ IF reads < 3 THEN Becomes(Environment(m, reads))
     ELSE IF reads < 3 + NReg THEN Becomes(Failed(Restored(m, reads - 3), "OutOfBounds"))
     ELSE Becomes(Restored(m, NReg))

FSTLDUndefined ==
  /\ Runs("FSTLD", 10, 0) /\ KeepsStatus
  /\ NoAccess \/ Stops("UndefinedBehavior")

ProcessFSTLD_WORD ==
  \/ \E mode \in {0, 1, 2, 4, 5, 8} : Store(mode)
  \/ FSAVE \/ FSTLDUndefined
  \/ \E m \in Images : \/ FLDCW(m)
                       \/ \E reads \in 0 .. (3 + NReg) : FRSTOR(m, reads) \/ FLDENV(m, reads)

-----------------------------------------------------------------------------

(* The i of an instruction that has none is 0.  Of the modes that differ   *)
(* only in the width of what FLD or FADD reads from memory one is taken.   *)
Next ==
  \/ \E ext \in {0, 7} : FLD_const(ext)
  \/ \E i \in Slots : FLD(0, i) \/ FST(0, i) \/ FST(1, i) \/ FXCH(i) \/ FFREE(i)
  \/ \E mode \in {1, 6} : FLD(mode, 0)
  \/ \E mode \in 2 .. 15 : FST(mode, 0)
  \/ \E i \in Slots, taken \in 0 .. 1 : FMOVcc(taken, i)
  \/ \E i \in Slots, mode \in 0 .. 2 : FADD(mode, i)
  \/ \E mode \in {3, 7} : FADD(mode, 0)
  \/ F2XM1 \/ FABS \/ FPREM \/ FYL2X \/ FSINCOS \/ FXAM \/ FTST
  \/ \E i \in Slots, mode \in {0, 1, 2, 11, 12}, u \in BOOLEAN : FCOM(mode, i, u)
  \/ \E mode \in (3 .. 15) \ {11, 12}, u \in BOOLEAN : FCOM(mode, 0, u)
  \/ \E down \in 0 .. 1 : FINCDECSTP(down)
  \/ FINIT \/ FCLEX
  \/ ProcessFSTLD_WORD

Spec == Init /\ [][Next]_vars

-----------------------------------------------------------------------------
(* Correctness.                                                            *)

TypeOK ==
  /\ FPURegisters \in [Regs -> Values]
  /\ FPU_control \in 0 .. (2 ^ 16 - 1)
  /\ FPU_tag \in [Regs -> 0 .. 3]
  /\ FPU_status \subseteq C0123 \cup {"low"} /\ eflags \subseteq Flags
  /\ host_rounding \in 0 .. 3

(* The unit as a ring: seen from TOP, with empty registers as the tag word *)
(* has them.                                                               *)
FromTOP ==
  LET top == FPU_TOP(FPU_control)
  IN [i \in Slots |-> LET r == (top + i) % NReg
                      IN IF FPU_tag[r] = EmptyTag THEN Empty ELSE FPURegisters[r]]
Ring == INSTANCE FpuStack WITH
  st <- FromTOP,
  PC <- FPU_PC(FPU_control), status <- FPU_status, flags <- eflags,
  error <- fault, op <- instr

(* Where the program has a comparison otherwise than its table of formats,  *)
(* and what it does there: with an int16 it does not pop; with an int32 it *)
(* pops once, and twice if it is to pop; the answer that is to be in the   *)
(* flags of the CPU is in the condition codes, but for st(0) with itself   *)
(* by FCOM.                                                                *)
Misread ==
  LET o == instr'
  IN /\ o[1] \in Ring!Comparisons
     /\ \/ o[2] = 8 /\ Ring!Compares(o, 0, FALSE)
        \/ o[2] = 9 /\ Ring!Compares(o, 1, FALSE)
        \/ o[2] = 10 /\ (Ring!Compares(o, 2, FALSE) \/ Ring!Underflows(o, 2))
        \/ /\ Ring!InFlags(o) /\ (o[1] = "FUCOM" \/ o[3] # 0)
           /\ Ring!Compares(o, Ring!Pops(o), FALSE)

(* The unit does what the instructions promise on the ring of registers,   *)
(* but where it misreads the format of a comparison.                       *)
KeepsPromises == Ring!Init /\ [][Ring!Next \/ Misread]_(Ring!stackVars)

(* No value changes without its tag: a register is as it was, emptied, or  *)
(* has the tag of what it now holds.  Only an environment that is loaded   *)
(* may say otherwise.                                                      *)
Environments == instr'[1] = "FSTLD" /\ (instr'[2] = 9 \/ (instr'[2] = 7 /\ fault' # "None"))
TagsFollow ==
  [][~Environments =>
       \A r \in Regs :
         \/ FPURegisters'[r] = FPURegisters[r] /\ FPU_tag'[r] = FPU_tag[r]
         \/ FPU_tag'[r] \in {EmptyTag, ComputeFPUTag(FPURegisters'[r])}]_vars

=============================================================================
