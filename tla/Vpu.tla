-------------------------------- MODULE Vpu ---------------------------------
(***************************************************************************)
(* A client at a vector instruction: ProcessVPUMove, ProcessVPUBinary,     *)
(* ProcessVPUUnary, ProcessVPUCVT_* and TryProcessTRANS of                 *)
(* src/src/Instructions.cpp, from the settings bytes that were read.       *)
(*                                                                         *)
(* A step is one round of the handler's loop over the lanes.  The machine  *)
(* does all of them in one Tick and nothing else acts in between, but the  *)
(* loop may stop at any lane, and what it has done until then stays.       *)
(***************************************************************************)
EXTENDS VpuLanes

CONSTANTS
  Regs,           (* vector registers                                      *)
  Instructions,   (* the instructions looked at                            *)
  Vectors,        (* what the registers may hold,                          *)
  Contents,       (* and what memory may hold, when it is reached          *)
  Barriers        (* where the read-only part of memory may end            *)

Kind == {"VPUMove", "VPUBinary", "VPUUnary", "VPUCVT_packed", "VPUCVT_scalar", "TRANS"}

(* op and cond: what a lane computes; mode: of VPUCVT and TRANS; reg: the  *)
(* register s1 names (the target, or the source of a store); at: where the *)
(* last operand is; mask: the lanes whose bit is set, all if there is no   *)
(* mask.                                                                   *)
Instruction ==
  [kind : Kind, op : {"MOVE"} \cup IntegerOps \cup FloatOps \cup UnaryOps, cond : Nat,
   mode : Nat, reg : Regs, src1 : Regs, src2 : Regs,
   at : {"register", "memory", "store", "UND"}, m : Word, size : 0 .. 3, elem : ElemCode,
   scalar : BOOLEAN, aligned : BOOLEAN, mask : SUBSET (0 .. (ZMMBytes - 1)), zmask : BOOLEAN]

ASSUME VpuAssumption ==
  /\ PtrSize = 8
  /\ Instructions \subseteq Instruction
  /\ \A in \in Instructions :
       /\ in.op \in CASE in.kind = "VPUBinary" -> IntegerOps \cup FloatOps
                      [] in.kind = "VPUUnary"  -> UnaryOps
                      [] OTHER                 -> {"MOVE"}
       /\ in.at \in {"store", "UND"} => in.kind = "VPUMove"
       /\ in.kind = "VPUCVT_packed" => in.mode >= 28
       /\ in.kind = "VPUCVT_scalar" => in.mode < 28
       /\ in.kind = "TRANS" => in.mode # 4
  /\ Vectors \subseteq [Regs -> Register]
  /\ \A c \in Contents : c \in Seq(Byte) /\ Len(c) <= MaxAlloc
  /\ Barriers \subseteq Word

VARIABLES
  ins,
  zmm, gpr, flags,     (* the vector registers, the general one named, flags *)
  temp,                (* temp_dest of a packed conversion                 *)
  i,                   (* the loop's index                                 *)
  phase, error,
  start                (* history: registers and memory at the beginning   *)

memoryVars == <<sizeVars, limitVars, max_mem_size>>
fixed == <<ins, mem_size, mem_cap, limitVars, max_mem_size, start>>
vars == <<ins, zmm, gpr, flags, temp, i, phase, error, start, memoryVars>>

Cleared == [k \in 0 .. (ZMMBytes - 1) |-> 0]

Init ==
  /\ ins \in Instructions
  /\ zmm \in Vectors
  /\ \E c \in Contents : mem = [a \in 0 .. (Len(c) - 1) |-> c[a + 1]] /\ mem_size = Len(c)
  /\ mem_cap = mem_size /\ min_mem_size = mem_size /\ max_mem_size = mem_size
  /\ ReadonlyBarrier \in Barriers /\ StackBarrier = ReadonlyBarrier
  /\ gpr = [k \in 0 .. 7 |-> k % B] /\ flags = {"AF"}
  /\ temp = Cleared
  /\ i = 0 /\ phase = "settings" /\ error = "None"
  /\ start = [zmm |-> zmm, mem |-> mem]

-----------------------------------------------------------------------------
(* The conversions: TryProcessVEC_CVT's modes.                             *)

(* Modes 28 to 51, three by three: to, from, delegate, and the smallest    *)
(* number of lanes.                                                        *)
PackedModes == <<
  <<2, 3, "double_to_i32", 2>>, <<2, 2, "single_to_i32", 4>>,
  <<2, 3, "double_to_ti32", 2>>, <<2, 2, "single_to_ti32", 4>>,
  <<3, 2, "i32_to_double", 2>>, <<2, 2, "i32_to_single", 4>>,
  <<2, 3, "double_to_single", 2>>, <<3, 2, "single_to_double", 2>>>>
Packed == PackedModes[(ins.mode - 28) \div 3 + 1]
PackedLanes == Packed[4] * <<1, 2, 4>>[((ins.mode - 28) % 3) + 1]

(* Modes 0 to 23, four by four: the operand that is a float, the size that *)
(* two of the four choose (SI), and modes 24 to 27, two by two.            *)
ScalarModes == <<
  <<"double_to_i", 3>>, <<"single_to_i", 2>>, <<"double_to_ti", 3>>, <<"single_to_ti", 2>>,
  <<"i_to_double", 3>>, <<"i_to_single", 2>>>>
SizeOfSI == 2 + (ins.mode % 4) \div 2
ScalarTo ==
  IF ins.mode < 16 THEN SizeOfSI
  ELSE IF ins.mode < 24 THEN ScalarModes[ins.mode \div 4 + 1][2]
  ELSE IF ins.mode < 26 THEN 2 ELSE 3
ScalarFrom ==
  IF ins.mode < 16 THEN ScalarModes[ins.mode \div 4 + 1][2]
  ELSE IF ins.mode < 24 THEN SizeOfSI
  ELSE IF ins.mode < 26 THEN 3 ELSE 2
ScalarDelegate ==
  IF ins.mode < 24 THEN ScalarModes[ins.mode \div 4 + 1][1]
  ELSE IF ins.mode < 26 THEN "double_to_single" ELSE "single_to_double"

-----------------------------------------------------------------------------
(* The settings.                                                           *)

VectorBytes(sizecode) == <<16, 32, 64>>[sizecode + 1]

(* The size of the elements the loop reads.                                *)
Elem == IF ins.kind = "VPUCVT_packed" THEN Packed[2] ELSE ins.elem
Step == Size(Elem)

Lanes ==
  IF ins.kind = "VPUCVT_packed" THEN PackedLanes
  ELSE IF ins.scalar THEN 1 ELSE VectorBytes(ins.size) \div Step

Undefined ==
  CASE ins.kind = "VPUMove" -> ins.size = 3 \/ ins.at = "UND"
    [] ins.kind \in {"VPUBinary", "VPUUnary"} ->
         (ins.op = "FCMP" /\ ins.cond >= 32) \/ ~Allowed(ins.op, ins.elem) \/ ins.size = 3
    [] ins.kind = "VPUCVT_packed" -> ins.mode > 51
    [] OTHER -> FALSE

(* A whole vector in memory must be aligned if the flag says so, and for a *)
(* packed conversion always.                                               *)
Misaligned ==
  /\ ins.at \in {"memory", "store"}
  /\ IF ins.kind = "VPUCVT_packed" THEN ins.m % (Lanes * Step) # 0
     ELSE Lanes > 1 /\ ins.aligned /\ ins.m % VectorBytes(ins.size) # 0

Vector == ins.kind \in {"VPUMove", "VPUBinary", "VPUUnary", "VPUCVT_packed"}

Settings ==
  /\ phase = "settings" /\ error = "None" /\ Vector
  /\ error' = IF Undefined THEN "UndefinedBehavior"
              ELSE IF Misaligned THEN "AlignmentViolation" ELSE "None"
  /\ phase' = IF error' = "None" THEN "lanes" ELSE "settings"
  /\ UNCHANGED <<fixed, mem, zmm, gpr, flags, temp, i>>

-----------------------------------------------------------------------------
(* The loops.                                                              *)

AtLane(kind) == phase = "lanes" /\ error = "None" /\ i < Lanes /\ ins.kind = kind
Enabled == i \in ins.mask
Place == (ins.m + i * Step) % W

OperandFault == IF ins.at = "memory" THEN ReadFault(Place, Step) ELSE "None"
Operand == IF ins.at = "memory" THEN Element(mem, Place, Elem)
           ELSE uint(zmm[ins.src2], Elem, i)

Terminate(fault) == error' = fault /\ UNCHANGED <<fixed, mem, zmm, gpr, flags, temp, i, phase>>
GoOn == i' = i + 1 /\ UNCHANGED <<fixed, gpr, phase, error>>

Assign(v) ==
  /\ zmm' = [zmm EXCEPT ![ins.reg] = WithLane(@, Elem, i, v)]
  /\ GoOn /\ UNCHANGED <<mem, temp>>

\* Mutant: a lane whose bit is clear is cleared without zmask.
MaskedOutCleared == Assign(0) /\ UNCHANGED flags

(* A lane whose bit is clear is neither read nor computed.                 *)
MaskedOut ==
  IF ins.zmask THEN Assign(0) /\ UNCHANGED flags
  ELSE GoOn /\ UNCHANGED <<mem, zmm, flags, temp>>

Load ==
  /\ AtLane("VPUMove") /\ ins.at # "store"
  /\ \/ Enabled /\ OperandFault = "None" /\ Assign(Operand) /\ UNCHANGED flags
     \/ Enabled /\ OperandFault # "None" /\ Terminate(OperandFault)
     \/ ~Enabled /\ MaskedOut

Put(v) ==
  IF WriteFault(Place, Step) # "None" THEN Terminate(WriteFault(Place, Step))
  ELSE mem' = Written(mem, Place, Step, v) /\ GoOn /\ UNCHANGED <<zmm, flags, temp>>

Store ==
  /\ AtLane("VPUMove") /\ ins.at = "store"
  /\ \/ Enabled /\ Put(uint(zmm[ins.reg], Elem, i))
     \/ ~Enabled /\ ins.zmask /\ Put(0)
     \/ ~Enabled /\ ~ins.zmask /\ GoOn /\ UNCHANGED <<mem, zmm, flags, temp>>

VPUBinary ==
  LET a == uint(zmm[ins.src1], Elem, i)
      fault == IF OperandFault # "None" THEN OperandFault
               ELSE LaneFault(ins.op, ins.cond, Elem, a, Operand)
  IN /\ AtLane("VPUBinary")
     /\ \/ /\ Enabled /\ fault = "None"
           /\ Assign(Computed(ins.op, ins.cond, Elem, a, Operand, i))
           /\ flags' = IF ins.op # "FCOMI" THEN flags
                       ELSE (flags \ ComparisonFlags) \cup FCOMIFlags(Elem, a, Operand)
        \/ Enabled /\ fault # "None" /\ Terminate(fault)
        \/ ~Enabled /\ MaskedOut

VPUUnary ==
  LET fault == IF OperandFault # "None" THEN OperandFault
               ELSE LaneFault(ins.op, 0, Elem, Operand, 0)
  IN /\ AtLane("VPUUnary")
     /\ \/ /\ Enabled /\ fault = "None"
           /\ Assign(Root(ins.op, Elem, Operand)) /\ UNCHANGED flags
        \/ Enabled /\ fault # "None" /\ Terminate(fault)
        \/ ~Enabled /\ MaskedOut

(* A packed conversion works in temp_dest, whose lanes are clear.          *)
VPUCVT_packed ==
  /\ AtLane("VPUCVT_packed")
  /\ \/ /\ Enabled /\ OperandFault = "None"
        /\ temp' = WithLane(temp, Packed[1], i, Host(Packed[3], Elem, Operand, 0))
        /\ GoOn /\ UNCHANGED <<mem, zmm, flags>>
     \/ Enabled /\ OperandFault # "None" /\ Terminate(OperandFault)
     \/ ~Enabled /\ GoOn /\ UNCHANGED <<mem, zmm, flags, temp>>

Done ==
  /\ phase = "lanes" /\ error = "None" /\ i = Lanes
  /\ zmm' = IF ins.kind = "VPUCVT_packed" THEN [zmm EXCEPT ![ins.reg] = temp] ELSE zmm
  /\ phase' = "past"
  /\ UNCHANGED <<fixed, mem, gpr, flags, temp, i, error>>

-----------------------------------------------------------------------------
(* One value: no loop.                                                     *)

GPRLane(e) == Held(gpr, 0, Size(e))

(* A write of 4 or 8 bytes to a general register.                          *)
GPRWith(e, v) == [k \in 0 .. 7 |-> IF k < Size(e) THEN ByteOf(v, k) ELSE 0]

Past == phase' = "past" /\ UNCHANGED <<fixed, mem, flags, temp, i, error>>
ToXMM(e, v) == zmm' = [zmm EXCEPT ![ins.reg] = WithLane(@, e, 0, v)] /\ UNCHANGED gpr
ToGPR(e, v) == gpr' = GPRWith(e, v) /\ UNCHANGED zmm

VPUCVT_scalar ==
  LET source == IF ins.at = "memory" THEN Element(mem, ins.m, ScalarFrom)
                ELSE IF ins.mode \in 16 .. 23 THEN GPRLane(ScalarFrom)
                ELSE uint(zmm[ins.src2], ScalarFrom, 0)
      res == Host(ScalarDelegate, ScalarFrom, source, 0)
      fault == IF ins.at = "memory" THEN ReadFault(ins.m, Size(ScalarFrom)) ELSE "None"
  IN /\ phase = "settings" /\ error = "None" /\ ins.kind = "VPUCVT_scalar"
     /\ \/ fault # "None" /\ Terminate(fault)
        \/ /\ fault = "None"
           /\ IF ins.mode < 16 THEN ToGPR(ScalarTo, res) ELSE ToXMM(ScalarTo, res)
           /\ Past

(* MOVD and MOVQ between a general and a vector register.  (Mode 4, MOVBE, *)
(* is none of the vector unit's.)                                          *)
TRANS ==
  LET e == 2 + ins.mode \div 2
  IN /\ phase = "settings" /\ error = "None" /\ ins.kind = "TRANS"
     /\ IF ins.mode > 4 THEN Terminate("UndefinedBehavior")
        ELSE /\ IF ins.mode % 2 = 0 THEN ToGPR(e, uint(zmm[ins.src2], e, 0))
                ELSE ToXMM(e, GPRLane(e))
             /\ Past

Next ==
  \/ Settings \/ Load \/ Store \/ VPUBinary \/ VPUUnary \/ VPUCVT_packed \/ Done
  \/ VPUCVT_scalar \/ TRANS

Spec == Init /\ [][Next]_vars

-----------------------------------------------------------------------------
(* Correctness.                                                            *)

Faults == {"None", "UndefinedBehavior", "AlignmentViolation", "OutOfBounds",
           "AccessViolation", "ArithmeticError"}

TypeOK ==
  /\ ins \in Instruction
  /\ zmm \in [Regs -> Register] /\ temp \in Register
  /\ mem \in [0 .. (mem_size - 1) -> Byte]
  /\ gpr \in [0 .. 7 -> Byte] /\ flags \subseteq ComparisonFlags
  /\ phase \in {"settings", "lanes", "past"} /\ error \in Faults
  /\ i \in 0 .. ZMMBytes

(* Lane j of the instruction, read from what was there at the beginning:   *)
(* its operands, its place in memory and what it is to become.             *)
LanePlace(j) == (ins.m + j * Step) % W
First(j) == uint(start.zmm[ins.src1], Elem, j)
Last(j) == IF ins.at = "memory" THEN Element(start.mem, LanePlace(j), Elem)
           ELSE uint(start.zmm[ins.src2], Elem, j)

Wanted(j) ==
  IF j \notin ins.mask THEN 0
  ELSE CASE ins.kind = "VPUMove"   -> IF ins.at = "store" THEN uint(start.zmm[ins.reg], Elem, j)
                                      ELSE Last(j)
         [] ins.kind = "VPUBinary" -> Computed(ins.op, ins.cond, Elem, First(j), Last(j), j)
         [] ins.kind = "VPUUnary"  -> Root(ins.op, Elem, Last(j))
         [] OTHER                  -> Host(Packed[3], Elem, Last(j), 0)

Changes(j) == j \in ins.mask \/ ins.zmask

(* The lanes below n are as wanted and every other byte is as it was.      *)
Gathered(n) ==
  [k \in 0 .. (ZMMBytes - 1) |->
     IF k \div Step < n /\ Changes(k \div Step) THEN ByteOf(Wanted(k \div Step), k % Step)
     ELSE start.zmm[ins.reg][k]]
Scattered(n) ==
  [a \in DOMAIN start.mem |->
     IF \E j \in 0 .. (n - 1) : Changes(j) /\ a \in LanePlace(j) .. (LanePlace(j) + Step - 1)
     THEN LET j == CHOOSE j \in 0 .. (n - 1) : a \in LanePlace(j) .. (LanePlace(j) + Step - 1)
          IN ByteOf(Wanted(j), a - LanePlace(j))
     ELSE start.mem[a]]

(* Registers that alias, a register that is its own operand, masks and     *)
(* faults: wherever a vector instruction stands or stopped, the lanes it   *)
(* went past are those of the operands it found, and all else is as it was.*)
LanesGathered ==
  Vector /\ ins.at # "store" =>
    /\ mem = start.mem
    /\ ins.kind # "VPUCVT_packed" => zmm = [start.zmm EXCEPT ![ins.reg] = Gathered(i)]

(* The same of a store, whose lanes go to memory.                          *)
LanesScattered ==
  Vector /\ ins.at = "store" => mem = Scattered(i) /\ zmm = start.zmm

(* A conversion is all or nothing, although it may read the register it    *)
(* writes, with lanes of another size: lanes that are masked out, and what *)
(* lies above, are clear.                                                  *)
ConvertedAtOnce ==
  ins.kind = "VPUCVT_packed" =>
    zmm = IF phase # "past" THEN start.zmm
          ELSE [start.zmm EXCEPT ![ins.reg] =
                 [k \in 0 .. (ZMMBytes - 1) |->
                    LET j == k \div Size(Packed[1])
                    IN IF j < Lanes /\ j \in ins.mask
                       THEN ByteOf(Wanted(j), k % Size(Packed[1])) ELSE 0]]

(* By the bits of its code, a condition signals if the first two differ,   *)
(* unless the fifth is on.                                                 *)
Bit(v, power) == (v \div power) % 2 = 1
Signals(cond) == (Bit(cond, 1) # Bit(cond, 2)) # Bit(cond, 16)

(* Lane j cannot be done.                                                  *)
OutOfReach(j) ==
  IF ins.at = "store" THEN ~(LanePlace(j) >= ReadonlyBarrier /\ LanePlace(j) + Step <= mem_size)
  ELSE ins.at = "memory" /\ ~(LanePlace(j) + Step <= mem_size)
Bad(j) ==
  IF j \notin ins.mask THEN ins.at = "store" /\ ins.zmask /\ OutOfReach(j)
  ELSE \/ OutOfReach(j)
       \/ CASE ins.op = "FCMP"       -> /\ \E v \in {First(j), Last(j)} : IsNaN(v, Elem)
                                        /\ Signals(ins.cond)
            [] ins.op \in UnaryOps -> ~IsNaN(Last(j), Elem) /\ Real(Last(j), Elem) < 0
            [] OTHER -> FALSE

(* An instruction stops at the first lane that cannot be done, and only    *)
(* there: a lane that is masked out neither faults nor is accessed.        *)
FaultsWhereDue ==
  /\ Vector /\ phase # "settings" => \A j \in 0 .. (i - 1) : ~Bad(j)
  /\ error \in {"OutOfBounds", "AccessViolation", "ArithmeticError"} /\ Vector => Bad(i)

(* The four together: what a vector instruction has done, wherever it is   *)
(* and however it ended.                                                   *)
LaneByLane == LanesGathered /\ LanesScattered /\ ConvertedAtOnce /\ FaultsWhereDue

(* What a lane should hold, as numbers: exact sums and differences, wrapped*)
(* or held at the ends of the range, the lesser and the greater, the mean  *)
(* rounded up, and the predicates of FCMP by the bits of their code (the   *)
(* third complements, the fourth decides a NaN).  SUBS adds the negative,  *)
(* which for the least number is not its negative: it is left out.         *)
Saturated(x, least, greatest) == IF x < least THEN least ELSE IF x > greatest THEN greatest ELSE x
Signed(v) == SignExtend(v, Elem)
Predicate(cond, relation) ==
  LET basic == relation \in <<{"equal"}, {"less"}, {"less", "equal"}, {"unord"}>>[1 + (cond % 4)]
      other == Bit(cond, 4)
  IN IF relation = "unord" THEN (basic # other) # Bit(cond, 8) ELSE basic # other

Exact(op, a, b) ==
  LET top == Values(Elem) - 1
      half == SignMask(Elem)
      Signs(x) == Saturated(x, -half, half - 1) % Values(Elem)
  IN CASE op = "ADD"   -> (a + b) % Values(Elem)
       [] op = "SUB"   -> (a - b) % Values(Elem)
       [] op = "ADDS"  -> Signs(Signed(a) + Signed(b))
       [] op = "SUBS"  -> Signs(Signed(a) - Signed(b))
       [] op = "ADDUS" -> Saturated(a + b, 0, top)
       [] op = "SUBUS" -> Saturated(a - b, 0, top)
       [] op = "MULL"  -> (a * b) % Values(Elem)
       [] op = "AVG"   -> CHOOSE x \in 0 .. top : 2 * x \in {a + b, a + b + 1}
       [] op = "UMIN"  -> Min({a, b})
       [] op = "UMAX"  -> Max({a, b})
       [] op = "SMIN"  -> Min({Signed(a), Signed(b)}) % Values(Elem)
       [] op = "SMAX"  -> Max({Signed(a), Signed(b)}) % Values(Elem)
       [] op = "FCMP"  -> IF Predicate(ins.cond, Relation(Elem, a, b)) THEN top ELSE 0
       [] OTHER -> CHOOSE x \in 0 .. top : \A k \in 0 .. (Width(Elem) - 1) :
            LET p == Two[k]
            IN Bit(x, p) = CASE op = "AND"  -> Bit(a, p) /\ Bit(b, p)
                             [] op = "OR"   -> Bit(a, p) \/ Bit(b, p)
                             [] op = "XOR"  -> Bit(a, p) # Bit(b, p)
                             [] op = "ANDN" -> ~Bit(a, p) /\ Bit(b, p)

LanesExact ==
  ins.kind = "VPUBinary" /\ phase = "past" /\ ins.op \in IntegerOps \cup {"FCMP"} =>
    \A j \in (0 .. (Lanes - 1)) \cap ins.mask :
      ~(ins.op = "SUBS" /\ Last(j) = SignMask(Elem)) =>
        uint(zmm[ins.reg], Elem, j) = Exact(ins.op, First(j), Last(j))

=============================================================================
