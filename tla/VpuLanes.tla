------------------------------ MODULE VpuLanes ------------------------------
(***************************************************************************)
(* Vector registers as lanes, and what the vector instructions of          *)
(* src/src/Instructions.cpp compute in one lane.                           *)
(*                                                                         *)
(* Sizes and lane counts are those of the program; only a byte may be      *)
(* smaller (B values).  A lane of a floating-point instruction is a sign   *)
(* and a magnitude, as in the formats of the host, with one NaN of either  *)
(* sign above the magnitudes; comparing needs no more.  What the host's    *)
(* arithmetic and conversions return is the constant Host.                 *)
(***************************************************************************)
EXTENDS Memory, FiniteSetsExt, TLC

CONSTANTS
  ByteBits,          (* bits in a byte (8)                                 *)
  Host(_, _, _, _)   (* operation, size of the element, its two operands   *)

(* Two to the n.                                                           *)
Two[n \in 0 .. (ByteBits * PtrSize)] == IF n = 0 THEN 1 ELSE 2 * Two[n - 1]

ASSUME ByteAssumption == ByteBits \in Nat \ {0} /\ B = Two[ByteBits]

ZMMBytes == 64
ElemCode == 0 .. 3

Size(sizecode) == <<1, 2, 4, 8>>[sizecode + 1]
Values(e) == Power[Size(e)]
SignMask(e) == Values(e) \div 2

Truncate(v, e) == v % Values(e)
Negative(v, e) == Truncate(v, e) >= SignMask(e)
SignExtend(v, e) == IF Negative(v, e) THEN v - Values(e) ELSE v

-----------------------------------------------------------------------------
(* Lanes.                                                                  *)

Register == [0 .. (ZMMBytes - 1) -> Byte]

(* The number in lane i.                                                   *)
uint(r, e, i) == Held(r, i * Size(e), Size(e))

\* Mutant: a result is not cut to its lane.
WithLaneUncut(r, e, i, v) ==
  [k \in DOMAIN r |-> IF k \div Size(e) = i THEN v \div Power[k % Size(e)] ELSE r[k]]

(* Register r after the number v was assigned to its lane i.               *)
WithLane(r, e, i, v) ==
  [k \in DOMAIN r |-> IF k \div Size(e) = i THEN ByteOf(v, k % Size(e)) ELSE r[k]]

(* The element at pos in memory m.                                         *)
Element(m, pos, e) == Held(m, pos, Size(e))

-----------------------------------------------------------------------------
(* Integer lanes.  A result is cut to its lane when it is stored.          *)

Width(e) == ByteBits * Size(e)
BitsOf(e, v) == {k \in 0 .. (Width(e) - 1) : (v \div Two[k]) % 2 = 1}
FromBits(e, S) ==
  LET sum[k \in 0 .. Width(e)] ==
        IF k = 0 THEN 0 ELSE sum[k - 1] + (IF k - 1 \in S THEN 1 ELSE 0) * Two[k - 1]
  IN sum[Width(e)]

\* Mutant: the sum is taken to have gone over whenever its sign is another.
ADDSOtherSign(e, a, b) ==
  IF Negative(a, e) # Negative(a + b, e)
  THEN IF Negative(a, e) THEN SignMask(e) ELSE SignMask(e) - 1
  ELSE a + b

(* The signs of the addends and of the sum tell that it went over.         *)
ADDS(e, a, b) ==
  IF Negative(a, e) = Negative(b, e) /\ Negative(a, e) # Negative(a + b, e)
  THEN IF Negative(a, e) THEN SignMask(e) ELSE SignMask(e) - 1
  ELSE a + b

ADDUS(e, a, b) ==
  IF Truncate(a + b, e) < a THEN Values(e) - 1 ELSE Truncate(a + b, e)

IntegerOps == {"AND", "OR", "XOR", "ANDN", "ADD", "ADDS", "ADDUS", "SUB", "SUBS",
               "SUBUS", "MULL", "UMIN", "SMIN", "UMAX", "SMAX", "AVG"}

(* __TryPerformVEC_AND and its like.                                       *)
Integer(op, e, a, b) ==
  CASE op = "AND"   -> FromBits(e, BitsOf(e, a) \cap BitsOf(e, b))
    [] op = "OR"    -> FromBits(e, BitsOf(e, a) \cup BitsOf(e, b))
    [] op = "XOR"   -> FromBits(e, (BitsOf(e, a) \cup BitsOf(e, b)) \ (BitsOf(e, a) \cap BitsOf(e, b)))
    [] op = "ANDN"  -> FromBits(e, BitsOf(e, b) \ BitsOf(e, a))
    [] op = "ADD"   -> a + b
    [] op = "ADDS"  -> ADDS(e, a, b)
    [] op = "ADDUS" -> ADDUS(e, a, b)
    [] op = "SUB"   -> a - b
    [] op = "SUBS"  -> ADDS(e, a, Truncate(-b, e))
    [] op = "SUBUS" -> IF a > b THEN a - b ELSE 0
    [] op = "MULL"  -> SignExtend(a, e) * SignExtend(b, e)
    [] op = "UMIN"  -> IF a < b THEN a ELSE b
    [] op = "SMIN"  -> IF SignExtend(a, e) < SignExtend(b, e) THEN a ELSE b
    [] op = "UMAX"  -> IF a > b THEN a ELSE b
    [] op = "SMAX"  -> IF SignExtend(a, e) > SignExtend(b, e) THEN a ELSE b
    [] op = "AVG"   -> (a + b + 1) \div 2

-----------------------------------------------------------------------------
(* Floating-point lanes.                                                   *)

Magnitude(v, e) == v % SignMask(e)
IsNaN(v, e) == Magnitude(v, e) = SignMask(e) - 1
Real(v, e) == IF Negative(v, e) THEN 0 - Magnitude(v, e) ELSE Magnitude(v, e)

Relation(e, a, b) ==
  IF IsNaN(a, e) \/ IsNaN(b, e) THEN "unord"
  ELSE IF Real(a, e) > Real(b, e) THEN "great"
  ELSE IF Real(a, e) < Real(b, e) THEN "less" ELSE "equal"

(* The arguments __TryProcessVEC_FCMP_lookup leads to: the relations that  *)
(* make the condition true, and whether a NaN signals.                     *)
Condition == <<
  <<{"equal"}, FALSE>>,                           \* EQ_OQ
  <<{"less"}, TRUE>>,                             \* LT_OS
  <<{"less", "equal"}, TRUE>>,                    \* LE_OS
  <<{"unord"}, FALSE>>,                           \* UNORD_Q
  <<{"great", "less", "unord"}, FALSE>>,          \* NEQ_UQ
  <<{"great", "equal", "unord"}, TRUE>>,          \* NLT_US
  <<{"great", "unord"}, TRUE>>,                   \* NLE_US
  <<{"great", "less", "equal"}, FALSE>>,          \* ORD_Q
  <<{"equal", "unord"}, FALSE>>,                  \* EQ_UQ
  <<{"less", "unord"}, TRUE>>,                    \* NGE_US
  <<{"less", "equal", "unord"}, TRUE>>,           \* NGT_US
  <<{}, FALSE>>,                                  \* FALSE_OQ
  <<{"great", "less"}, FALSE>>,                   \* NEQ_OQ
  <<{"great", "equal"}, TRUE>>,                   \* GE_OS
  <<{"great"}, TRUE>>,                            \* GT_OS
  <<{"great", "less", "equal", "unord"}, FALSE>>, \* TRUE_UQ
  <<{"equal"}, TRUE>>,                            \* EQ_OS
  <<{"less"}, FALSE>>,                            \* LT_OQ
  <<{"less", "equal"}, FALSE>>,                   \* LE_OQ
  <<{"unord"}, TRUE>>,                            \* UNORD_S
  <<{"great", "less", "unord"}, TRUE>>,           \* NEQ_US
  <<{"great", "equal", "unord"}, FALSE>>,         \* NLT_UQ
  <<{"great", "unord"}, FALSE>>,                  \* NLE_UQ
  <<{"great", "less", "equal"}, TRUE>>,           \* ORD_S
  <<{"equal", "unord"}, TRUE>>,                   \* EQ_US
  <<{"less", "unord"}, FALSE>>,                   \* NGE_UQ
  <<{"less", "equal", "unord"}, FALSE>>,          \* NGT_UQ
  <<{}, TRUE>>,                                   \* FALSE_OS
  <<{"great", "less"}, TRUE>>,                    \* NEQ_OS
  <<{"great", "equal"}, FALSE>>,                  \* GE_OQ
  <<{"great"}, FALSE>>,                           \* GT_OQ
  <<{"great", "less", "equal", "unord"}, TRUE>>>> \* TRUE_US

FloatOps == {"FADD", "FSUB", "FMUL", "FDIV", "FADDSUB", "FMIN", "FMAX", "FCMP", "FCOMI"}

(* __TryPerformVEC_FADD and its like; index is that of the lane, cond the  *)
(* condition of FCMP.                                                      *)
Float(op, cond, e, a, b, index) ==
  CASE op \in {"FADD", "FSUB", "FMUL", "FDIV"} -> Host(op, e, a, b)
    [] op = "FADDSUB" -> Host(IF index % 2 = 0 THEN "FSUB" ELSE "FADD", e, a, b)
    [] op = "FMIN"    -> IF Relation(e, a, b) = "less" THEN a ELSE b
    [] op = "FMAX"    -> IF Relation(e, a, b) = "great" THEN a ELSE b
    [] op = "FCMP"    -> IF Relation(e, a, b) \in Condition[cond + 1][1]
                         THEN Values(e) - 1 ELSE 0
    [] op = "FCOMI"   -> a

Computed(op, cond, e, a, b, index) ==
  IF op \in IntegerOps THEN Integer(op, e, a, b) ELSE Float(op, cond, e, a, b, index)

(* FSQRT and FRSQRT.                                                       *)
UnaryOps == {"FSQRT", "FRSQRT"}
Root(op, e, a) == Host(op, e, a, 0)

(* The fault a delegate ends in: a NaN in a signalling comparison, a root  *)
(* of a number below zero.                                                 *)
LaneFault(op, cond, e, a, b) ==
  IF \/ op = "FCMP" /\ Condition[cond + 1][2] /\ Relation(e, a, b) = "unord"
     \/ op \in UnaryOps /\ ~IsNaN(a, e) /\ Real(a, e) < 0
  THEN "ArithmeticError" ELSE "None"

(* What FCOMI leaves in the flags: ZF, PF and CF by the relation, the      *)
(* others clear.                                                           *)
ComparisonFlags == {"ZF", "PF", "CF", "OF", "AF", "SF"}
FCOMIFlags(e, a, b) ==
  CASE Relation(e, a, b) = "great" -> {}
    [] Relation(e, a, b) = "less"  -> {"CF"}
    [] Relation(e, a, b) = "equal" -> {"ZF"}
    [] Relation(e, a, b) = "unord" -> {"ZF", "PF", "CF"}

(* What the host computes from floats, or from integers it converts, is a  *)
(* number.                                                                 *)
ASSUME HostAssumption ==
  \A e \in {2, 3} : \A a \in 0 .. (Values(e) - 1) :
    /\ \A op \in {"FADD", "FSUB", "FMUL", "FDIV"}, b \in 0 .. (Values(e) - 1) :
         Host(op, e, a, b) \in Int
    /\ \A op \in {"FSQRT", "FRSQRT", "double_to_i32", "single_to_i32", "double_to_ti32",
                   "single_to_ti32", "i32_to_double", "i32_to_single", "double_to_single",
                   "single_to_double", "double_to_i", "single_to_i", "double_to_ti",
                   "single_to_ti", "i_to_double", "i_to_single"} :
         Host(op, e, a, 0) \in Int

(* The element sizes ProcessVPUBinary and ProcessVPUUnary are told to      *)
(* allow: elem_size_mask.                                                  *)
Allowed(op, e) == e \in IF op \in IntegerOps \ {"AVG"} THEN ElemCode
                        ELSE IF op = "AVG" THEN {0, 1} ELSE {2, 3}

=============================================================================
