------------------------------ MODULE FpuProofs ------------------------------
(***************************************************************************)
(* Proofs about Fpu, for every number of registers the code could be built *)
(* with, every set of numbers and every image in memory: the types, that   *)
(* no value changes without its tag, and that the physical registers, the  *)
(* tag word and TOP implement the ring of registers of FpuStack.           *)
(***************************************************************************)
EXTENDS Fpu, TLAPS

-----------------------------------------------------------------------------
(* The fields of the control word.                                         *)

Control == 0 .. (2 ^ 16 - 1)

LEMMA RegisterCount == NReg \in {2, 4, 8}
BY UnitAssumption

LEMMA WordSize == 2 ^ 16 - 1 = 65535
BY SMT

(* Division by the number of registers.                                    *)
LEMMA Remainder ==
  ASSUME NEW x \in Int
  PROVE  /\ x % NReg \in Slots
         /\ x \div NReg \in Int
         /\ x = NReg * (x \div NReg) + (x % NReg)
<1> USE DEF Slots
<1>1. CASE NReg = 2
  BY <1>1, Z3
<1>2. CASE NReg = 4
  BY <1>2, Z3
<1>3. CASE NReg = 8
  BY <1>3, Z3
<1> QED
  BY <1>1, <1>2, <1>3, RegisterCount

LEMMA RemainderUnique ==
  ASSUME NEW h \in Int, NEW t \in Slots
  PROVE  (NReg * h + t) % NReg = t
<1> USE DEF Slots
<1>1. CASE NReg = 2
  BY <1>1, Z3
<1>2. CASE NReg = 4
  BY <1>2, Z3
<1>3. CASE NReg = 8
  BY <1>3, Z3
<1> QED
  BY <1>1, <1>2, <1>3, RegisterCount

LEMMA FieldsAre ==
  ASSUME NEW c \in Control
  PROVE  /\ FPU_TOP(c) = (c \div 2048) % NReg
         /\ FPU_PC(c) = (c \div 256) % 4
         /\ FPU_RC(c) = (c \div 1024) % 4
BY RegisterCount, SMT DEF FPU_TOP, FPU_PC, FPU_RC, Field

LEMMA FieldRanges ==
  ASSUME NEW c \in Control
  PROVE  FPU_TOP(c) \in Slots /\ FPU_PC(c) \in Precisions /\ FPU_RC(c) \in 0 .. 3
<1>1. c \div 2048 \in Int /\ c \div 256 \in Int /\ c \div 1024 \in Int
  BY WordSize, Z3 DEF Control
<1>2. (c \div 2048) % NReg \in Slots
  BY <1>1, Remainder
<1>3. (c \div 256) % 4 \in 0 .. 3 /\ (c \div 1024) % 4 \in 0 .. 3
  BY <1>1, Z3
<1> QED
  BY <1>2, <1>3, FieldsAre, SMT DEF Precisions

(* Setting TOP sets it, modulo the number of registers, and nothing else.  *)
LEMMA TopIsSet ==
  ASSUME NEW c \in Control, NEW v \in Int
  PROVE  /\ WithField(c, 2048, NReg, v) \in Control
         /\ FPU_TOP(WithField(c, 2048, NReg, v)) = v % NReg
         /\ FPU_PC(WithField(c, 2048, NReg, v)) = FPU_PC(c)
<1> DEFINE q == c \div 2048
           r == c % 2048
           h == q \div NReg
           t == v % NReg
           d == WithField(c, 2048, NReg, v)
           p == NReg * h + t
<1>1. q \in 0 .. 31 /\ r \in 0 .. 2047 /\ c = 2048 * q + r
  BY WordSize, Z3 DEF Control
<1>2. q % NReg \in Slots /\ h \in Int /\ q = NReg * h + (q % NReg)
  BY <1>1, Remainder
<1>3. t \in Slots
  BY Remainder
<1>4. d = c + (t - (q % NReg)) * 2048
  BY RegisterCount, SMT DEF WithField, Field
<1> HIDE DEF q, r, h, t, d
<1>5. p \in 0 .. 31
  <2> USE DEF Slots
  <2>1. CASE NReg = 2
    BY <1>1, <1>2, <1>3, <2>1, Z3
  <2>2. CASE NReg = 4
    BY <1>1, <1>2, <1>3, <2>2, Z3
  <2>3. CASE NReg = 8
    BY <1>1, <1>2, <1>3, <2>3, Z3
  <2> QED
    BY <2>1, <2>2, <2>3, RegisterCount
<1>6. p - q = t - (q % NReg)
  <2>1. NReg * h \in Int
    BY <1>2, RegisterCount, SMT
  <2> QED
    BY <1>1, <1>2, <1>3, <2>1, SMT DEF Slots
<1>7. p % NReg = t
  BY <1>2, <1>3, RemainderUnique
<1> HIDE DEF p
<1>8. d = 2048 * p + r
  BY <1>1, <1>4, <1>5, <1>6, SMT
<1>9. d \in Control /\ d \div 2048 = p
  BY <1>1, <1>5, <1>8, WordSize, Z3 DEF Control
<1>10. d \div 256 = 8 * p + (r \div 256) /\ c \div 256 = 8 * q + (r \div 256)
  BY <1>1, <1>5, <1>8, Z3
<1>11. r \div 256 \in 0 .. 7
  BY <1>1, Z3
<1>12. (d \div 256) % 4 = (c \div 256) % 4
  BY <1>1, <1>5, <1>10, <1>11, Z3
<1>13. FPU_TOP(d) = t
  BY <1>7, <1>9, FieldsAre
<1> QED
  BY <1>9, <1>12, <1>13, FieldsAre DEF d, t

-----------------------------------------------------------------------------
(* The unit and the ring a client sees in it.                              *)

Errors == {"None", "FPUStackOverflow", "FPUStackUnderflow", "OutOfBounds"}
Units == [reg : [Regs -> Values], control : Control, tag : [Regs -> 0 .. 3], error : Errors]

Seen(f) == [i \in Slots |-> IF IsEmpty(f, i) THEN Empty ELSE ST(f, i)]
Top(f) == FPU_TOP(f.control)
Precision(f) == FPU_PC(f.control)

LEMMA AtRegister ==
  ASSUME NEW f \in Units, NEW i \in Int
  PROVE  At(f, i) \in Regs
<1>1. Top(f) \in Slots
  BY FieldRanges DEF Units, Top
<1>2. Top(f) + i \in Int
  BY <1>1, RegisterCount, SMT DEF Slots
<1> QED
  BY <1>2, Remainder DEF At, Regs, Top

(* The positions from one on differ as their registers do.                 *)
LEMMA Shifted ==
  ASSUME NEW t \in Slots, NEW i \in Slots
  PROVE  (t + i) % NReg = IF t + i < NReg THEN t + i ELSE t + i - NReg
<1> USE DEF Slots
<1>1. CASE NReg = 2
  BY <1>1, Z3
<1>2. CASE NReg = 4
  BY <1>2, Z3
<1>3. CASE NReg = 8
  BY <1>3, Z3
<1> QED
  BY <1>1, <1>2, <1>3, RegisterCount

LEMMA AtInjective ==
  ASSUME NEW f \in Units, NEW i \in Slots, NEW j \in Slots, At(f, i) = At(f, j)
  PROVE  i = j
<1>1. Top(f) \in Slots
  BY FieldRanges DEF Units, Top
<1>2. At(f, i) = IF Top(f) + i < NReg THEN Top(f) + i ELSE Top(f) + i - NReg
  BY <1>1, Shifted DEF At, Top
<1>3. At(f, j) = IF Top(f) + j < NReg THEN Top(f) + j ELSE Top(f) + j - NReg
  BY <1>1, Shifted DEF At, Top
<1>4. \A t, u, v, n \in Int :
        (/\ t \in 0 .. (n - 1) /\ u \in 0 .. (n - 1) /\ v \in 0 .. (n - 1)
         /\ (IF t + u < n THEN t + u ELSE t + u - n) = (IF t + v < n THEN t + v ELSE t + v - n))
        => u = v
  BY Z3
<1>5. NReg \in Int /\ Top(f) \in Int /\ i \in Int /\ j \in Int
  BY <1>1, FpuAssumption DEF Slots
<1> QED
  BY <1>1, <1>2, <1>3, <1>4, <1>5, Zenon DEF Slots

LEMMA RoundedValue ==
  ASSUME NEW v \in Values, NEW pc
  PROVE  Rounded(v, pc) \in Values
BY FpuAssumption DEF Rounded

LEMMA TagOfValue ==
  ASSUME NEW v
  PROVE  ComputeFPUTag(v) \in 0 .. 3 /\ ComputeFPUTag(v) # EmptyTag
BY DEF ComputeFPUTag, SpecialTag, ZeroTag, Normal, EmptyTag

LEMMA SeenEmpty ==
  ASSUME NEW f \in Units, NEW i \in Slots
  PROVE  /\ Seen(f)[i] = Empty <=> IsEmpty(f, i)
         /\ ~IsEmpty(f, i) => Seen(f)[i] = ST(f, i)
         /\ ST(f, i) \in Values
<1>1. At(f, i) \in Regs
  BY AtRegister DEF Slots
<1>2. ST(f, i) \in Values
  BY <1>1 DEF ST, Units
<1> QED
  BY <1>2, FpuAssumption DEF Seen

LEMMA AssignSeen ==
  ASSUME NEW f \in Units, NEW i \in Slots, NEW v \in Values
  PROVE  /\ Assign(f, i, v) \in Units
         /\ Assign(f, i, v).control = f.control /\ Assign(f, i, v).error = f.error
         /\ Seen(Assign(f, i, v)) = [Seen(f) EXCEPT ![i] = Rounded(v, Precision(f))]
<1> DEFINE r == Rounded(v, Precision(f))
           g == Assign(f, i, v)
<1>1. r \in Values /\ ComputeFPUTag(r) \in 0 .. 3 /\ ComputeFPUTag(r) # EmptyTag
  BY RoundedValue, TagOfValue
<1>2. \A j \in Slots : At(f, j) \in Regs
  BY AtRegister DEF Slots
<1>3. g = [f EXCEPT !.reg[At(f, i)] = r, !.tag[At(f, i)] = ComputeFPUTag(r)]
  BY DEF Assign, Precision
<1> HIDE DEF r
<1>4. /\ g.reg = [f.reg EXCEPT ![At(f, i)] = r]
      /\ g.tag = [f.tag EXCEPT ![At(f, i)] = ComputeFPUTag(r)]
      /\ g.control = f.control /\ g.error = f.error /\ g \in Units
  <2>1. f = [reg |-> f.reg, control |-> f.control, tag |-> f.tag, error |-> f.error]
    BY DEF Units
  <2>2. g = [reg |-> [f.reg EXCEPT ![At(f, i)] = r], control |-> f.control,
             tag |-> [f.tag EXCEPT ![At(f, i)] = ComputeFPUTag(r)], error |-> f.error]
    BY <1>3, <2>1
  <2> HIDE DEF g
  <2> QED
    BY <1>1, <1>2, <2>2 DEF Units
<1> HIDE DEF g
<1>5. \A j \in Slots : At(g, j) = At(f, j)
  BY <1>4 DEF At
<1>6. \A j \in Slots : j # i => At(g, j) # At(f, i)
  BY <1>5, AtInjective
<1>7. \A j \in Slots : (IF IsEmpty(g, j) THEN Empty ELSE ST(g, j)) = [Seen(f) EXCEPT ![i] = r][j]
  <2> TAKE j \in Slots
  <2>1. CASE j = i
    BY <1>1, <1>2, <1>4, <1>5, <2>1 DEF Units, IsEmpty, ST, Seen
  <2>2. CASE j # i
    BY <1>2, <1>4, <1>5, <1>6, <2>2 DEF Units, IsEmpty, ST, Seen
  <2> QED
    BY <2>1, <2>2
<1>8. Seen(g) = [Seen(f) EXCEPT ![i] = r]
  BY <1>7 DEF Seen
<1> QED
  BY <1>4, <1>8 DEF r, g

LEMMA FreedSeen ==
  ASSUME NEW f \in Units, NEW i \in Slots
  PROVE  /\ Freed(f, i) \in Units
         /\ Freed(f, i).control = f.control /\ Freed(f, i).error = f.error
         /\ Seen(Freed(f, i)) = [Seen(f) EXCEPT ![i] = Empty]
<1> DEFINE g == Freed(f, i)
<1>1. \A j \in Slots : At(f, j) \in Regs
  BY AtRegister DEF Slots
<1>2. /\ g.reg = f.reg /\ g.tag = [f.tag EXCEPT ![At(f, i)] = EmptyTag]
      /\ g.control = f.control /\ g.error = f.error /\ g \in Units
  BY <1>1 DEF Units, Freed, EmptyTag
<1> HIDE DEF g
<1>3. \A j \in Slots : At(g, j) = At(f, j)
  BY <1>2 DEF At
<1>4. \A j \in Slots : j # i => At(g, j) # At(f, i)
  BY <1>3, AtInjective
<1>5. \A j \in Slots : (IF IsEmpty(g, j) THEN Empty ELSE ST(g, j)) = [Seen(f) EXCEPT ![i] = Empty][j]
  BY <1>1, <1>2, <1>3, <1>4 DEF Units, IsEmpty, ST, Seen
<1>6. Seen(g) = [Seen(f) EXCEPT ![i] = Empty]
  BY <1>5 DEF Seen
<1> QED
  BY <1>2, <1>6 DEF g

(* Turning by one renumbers the registers.                                 *)
LEMMA TurnSeen ==
  ASSUME NEW f \in Units, NEW n \in {-1, 1}
  PROVE  /\ Turn(f, n) \in Units
         /\ Turn(f, n).error = f.error /\ Turn(f, n).reg = f.reg /\ Turn(f, n).tag = f.tag
         /\ Precision(Turn(f, n)) = Precision(f)
         /\ Seen(Turn(f, n)) = [i \in Slots |-> Seen(f)[(i + n) % NReg]]
<1> DEFINE g == Turn(f, n)
           c == WithField(f.control, 2048, NReg, Top(f) + n)
<1>1. f.control \in Control /\ Top(f) \in Slots
  BY FieldRanges DEF Units, Top
<1>2. Top(f) + n \in Int
  BY <1>1, RegisterCount, SMT DEF Slots
<1>3. c \in Control /\ FPU_TOP(c) = (Top(f) + n) % NReg /\ FPU_PC(c) = FPU_PC(f.control)
  BY <1>1, <1>2, TopIsSet
<1> HIDE DEF c
<1>4. g = [f EXCEPT !.control = c]
  BY DEF Turn, c, Top
<1>5. /\ g.reg = f.reg /\ g.tag = f.tag /\ g.control = c /\ g.error = f.error
      /\ g \in Units
  BY <1>3, <1>4 DEF Units
<1> HIDE DEF g
<1>6. \A i \in Slots : (i + n) % NReg \in Slots /\ At(g, i) = At(f, (i + n) % NReg)
  <2> TAKE i \in Slots
  <2> DEFINE t == Top(f)
  <2>1. t \in Slots
    BY <1>1
  <2>2. At(g, i) = (((t + n) % NReg) + i) % NReg
    BY <1>3, <1>5 DEF At
  <2>3. At(f, (i + n) % NReg) = (t + ((i + n) % NReg)) % NReg
    BY DEF At, Top
  <2> HIDE DEF t
  <2>4. (((t + n) % NReg) + i) % NReg = (t + ((i + n) % NReg)) % NReg
    <3> USE DEF Slots
    <3>1. CASE NReg = 2
      BY <2>1, <3>1, Z3
    <3>2. CASE NReg = 4
      BY <2>1, <3>2, Z3
    <3>3. CASE NReg = 8
      BY <2>1, <3>3, Z3
    <3> QED
      BY <3>1, <3>2, <3>3, RegisterCount
  <2>5. (i + n) % NReg \in Slots
    <3>1. i + n \in Int
      BY RegisterCount, SMT DEF Slots
    <3> QED
      BY <3>1, Remainder
  <2> QED
    BY <2>2, <2>3, <2>4, <2>5
<1>7. \A i \in Slots : (IF IsEmpty(g, i) THEN Empty ELSE ST(g, i)) = Seen(f)[(i + n) % NReg]
  BY <1>5, <1>6 DEF IsEmpty, ST, Seen
<1>8. Seen(g) = [i \in Slots |-> Seen(f)[(i + n) % NReg]]
  BY <1>7 DEF Seen
<1> QED
  BY <1>3, <1>5, <1>8 DEF g, Precision

LEMMA Ends == 0 \in Slots /\ 1 \in Slots /\ NReg - 1 \in Slots
BY FpuAssumption, SMT DEF Slots

(* One position on, and one back.                                          *)
LEMMA Neighbours ==
  ASSUME NEW i \in Slots
  PROVE  /\ (i + (-1)) % NReg = IF i = 0 THEN NReg - 1 ELSE i - 1
         /\ (i + 1) % NReg = IF i = NReg - 1 THEN 0 ELSE i + 1
         /\ i # 0 => i - 1 \in Slots
         /\ i # NReg - 1 => i + 1 \in Slots
<1> USE DEF Slots
<1>1. CASE NReg = 2
  BY <1>1, Z3
<1>2. CASE NReg = 4
  BY <1>2, Z3
<1>3. CASE NReg = 8
  BY <1>3, Z3
<1> QED
  BY <1>1, <1>2, <1>3, RegisterCount

PushedOn(s, v) == [i \in Slots |-> IF i = 0 THEN v ELSE s[i - 1]]

(* A push enters a value at st(0) where the last position is empty, and    *)
(* fails with an overflow where it is not.                                 *)
LEMMA PushSeen ==
  ASSUME NEW f \in Units, NEW v \in Values
  PROVE  /\ PushFPU(f, v) \in Units
         /\ Seen(f)[NReg - 1] = Empty =>
              /\ PushFPU(f, v).error = f.error
              /\ Precision(PushFPU(f, v)) = Precision(f)
              /\ Seen(PushFPU(f, v)) = PushedOn(Seen(f), Rounded(v, Precision(f)))
         /\ Seen(f)[NReg - 1] # Empty => PushFPU(f, v).error = "FPUStackOverflow"
<1> DEFINE d == Turn(f, -1)
           a == Assign(d, 0, v)
<1>1. /\ d \in Units /\ d.error = f.error /\ Precision(d) = Precision(f)
      /\ Seen(d) = [i \in Slots |-> Seen(f)[(i + (-1)) % NReg]]
  BY TurnSeen
<1> HIDE DEF d
<1>2. 0 \in Slots /\ NReg - 1 \in Slots
  BY Ends
<1>3. Seen(d)[0] = Seen(f)[NReg - 1] /\ (Seen(d)[0] = Empty <=> IsEmpty(d, 0))
  <2>1. Seen(d)[0] = Seen(f)[(0 + (-1)) % NReg]
    BY <1>1, <1>2
  <2>2. (0 + (-1)) % NReg = NReg - 1
    BY <1>2, Neighbours
  <2> QED
    BY <1>1, <1>2, <2>1, <2>2, SeenEmpty
<1>4. /\ a \in Units /\ a.control = d.control /\ a.error = d.error
      /\ Seen(a) = [Seen(d) EXCEPT ![0] = Rounded(v, Precision(d))]
  BY <1>1, <1>2, AssignSeen
<1>5. PushFPU(f, v) = IF IsEmpty(d, 0) THEN a ELSE Failed(d, "FPUStackOverflow")
  BY DEF PushFPU, d
<1> HIDE DEF a
<1>6. [Seen(d) EXCEPT ![0] = Rounded(v, Precision(d))] = PushedOn(Seen(f), Rounded(v, Precision(f)))
  <2>1. \A i \in Slots : (i + (-1)) % NReg = IF i = 0 THEN NReg - 1 ELSE i - 1
    BY Neighbours
  <2> QED
    BY <1>1, <2>1 DEF PushedOn
<1>7. Failed(d, "FPUStackOverflow") \in Units /\ Failed(d, "FPUStackOverflow").error = "FPUStackOverflow"
  BY <1>1 DEF Units, Failed, Errors
<1> QED
  BY <1>1, <1>3, <1>4, <1>5, <1>6, <1>7 DEF Precision

(* A pop takes st(0) away where it is not empty, and fails where it is.    *)
LEMMA PopSeen ==
  ASSUME NEW f \in Units
  PROVE  /\ PopFPU(f) \in Units
         /\ Seen(f)[0] # Empty =>
              /\ PopFPU(f).error = f.error
              /\ Precision(PopFPU(f)) = Precision(f)
              /\ Seen(PopFPU(f)) = Ring!Popped(Seen(f))
         /\ Seen(f)[0] = Empty => PopFPU(f).error = "FPUStackUnderflow"
<1> DEFINE d == Freed(f, 0)
           a == Turn(d, 1)
<1>1. 0 \in Slots
  BY Ends
<1>2. /\ d \in Units /\ d.control = f.control /\ d.error = f.error
      /\ Seen(d) = [Seen(f) EXCEPT ![0] = Empty]
  BY <1>1, FreedSeen
<1>3. Seen(f)[0] = Empty <=> IsEmpty(f, 0)
  BY <1>1, SeenEmpty
<1> HIDE DEF d
<1>4. /\ a \in Units /\ a.error = d.error /\ Precision(a) = Precision(d)
      /\ Seen(a) = [i \in Slots |-> Seen(d)[(i + 1) % NReg]]
  BY <1>2, TurnSeen
<1>5. PopFPU(f) = IF IsEmpty(f, 0) THEN Failed(f, "FPUStackUnderflow") ELSE a
  BY DEF PopFPU, d
<1> HIDE DEF a
<1>6. \A i \in Slots : (i + 1) % NReg = (IF i = NReg - 1 THEN 0 ELSE i + 1)
                       /\ (i # NReg - 1 => i + 1 \in Slots /\ i + 1 # 0)
  <2> TAKE i \in Slots
  <2>1. i + 1 # 0
    BY SMT DEF Slots
  <2> QED
    BY <2>1, Neighbours
<1>7. Seen(a) = Ring!Popped(Seen(f))
  <2>1. Seen(f) = [i \in Slots |-> Seen(f)[i]]
    BY DEF Seen
  <2>2. Ring!Popped(Seen(f)) = [i \in Slots |-> IF i = NReg - 1 THEN Empty ELSE Seen(f)[i + 1]]
    BY DEF Ring!Popped, Ring!Slots, Slots
  <2>3. \A i \in Slots : Seen(d)[(i + 1) % NReg] = IF i = NReg - 1 THEN Empty ELSE Seen(f)[i + 1]
    <3> TAKE i \in Slots
    <3>1. CASE i = NReg - 1
      BY <1>1, <1>2, <1>6, <2>1, <3>1
    <3>2. CASE i # NReg - 1
      BY <1>2, <1>6, <2>1, <3>2
    <3> QED
      BY <3>1, <3>2
  <2> QED
    BY <1>4, <2>2, <2>3
<1>8. Failed(f, "FPUStackUnderflow") \in Units /\ Failed(f, "FPUStackUnderflow").error = "FPUStackUnderflow"
  BY DEF Units, Failed, Errors
<1> QED
  BY <1>2, <1>3, <1>4, <1>5, <1>7, <1>8 DEF Precision

-----------------------------------------------------------------------------
(* The states of the unit, and what a client sees in them.                 *)

UnitOK ==
  /\ FPURegisters \in [Regs -> Values] /\ FPU_control \in Control
  /\ FPU_tag \in [Regs -> 0 .. 3]

(* Work f on the unit that has not failed, and shows a client s.           *)
Shows(f, s) ==
  /\ f \in Units /\ f.error = "None"
  /\ Precision(f) = FPU_PC(FPU_control) /\ Seen(f) = s

LEMMA TypeUnit == TypeOK => UnitOK
BY DEF TypeOK, UnitOK, Control

LEMMA UnitShows ==
  ASSUME UnitOK
  PROVE  Shows(Unit, FromTOP)
<1>1. Unit \in Units /\ Unit.error = "None" /\ Precision(Unit) = FPU_PC(FPU_control)
  BY DEF UnitOK, Unit, Units, Errors, Precision
<1>2. Seen(Unit) = FromTOP
  BY DEF Seen, FromTOP, IsEmpty, ST, At, Unit
<1> QED
  BY <1>1, <1>2 DEF Shows

LEMMA BecomesUnit ==
  ASSUME NEW f \in Units, Becomes(f)
  PROVE  /\ UnitOK' /\ fault' = f.error
         /\ FromTOP' = Seen(f) /\ FPU_PC(FPU_control)' = Precision(f)
<1>1. /\ FPURegisters' = f.reg /\ FPU_control' = f.control /\ FPU_tag' = f.tag
      /\ fault' = f.error
  BY DEF Becomes
<1>2. UnitOK'
  BY <1>1 DEF Units, UnitOK
<1>3. FPU_PC(FPU_control)' = Precision(f)
  BY <1>1 DEF FPU_PC, Field, Precision
<1>4. FromTOP' = Seen(f)
  BY <1>1 DEF FromTOP, Seen, IsEmpty, ST, At, FPU_TOP, Field
<1> QED
  BY <1>1, <1>2, <1>3, <1>4

LEMMA BecomesShown ==
  ASSUME NEW f, NEW s, Shows(f, s), Becomes(f)
  PROVE  /\ UnitOK' /\ fault' = "None" /\ FromTOP' = s
         /\ FPU_PC(FPU_control)' = FPU_PC(FPU_control)
BY BecomesUnit DEF Shows

LEMMA StopsUnit ==
  ASSUME UnitOK, NEW e, Stops(e)
  PROVE  UnitOK' /\ fault' = e
BY DEF UnitOK, Stops, unitVars

LEMMA AssignShows ==
  ASSUME NEW f, NEW s, Shows(f, s), NEW i \in Slots, NEW v \in Values
  PROVE  Shows(Assign(f, i, v), [s EXCEPT ![i] = Ring!Stored(v)])
BY AssignSeen DEF Shows, Precision, Ring!Stored, Ring!Rounded, Rounded

LEMMA FreedShows ==
  ASSUME NEW f, NEW s, Shows(f, s), NEW i \in Slots
  PROVE  Shows(Freed(f, i), [s EXCEPT ![i] = Empty])
BY FreedSeen DEF Shows, Precision

LEMMA PushShows ==
  ASSUME NEW f, NEW s, Shows(f, s), NEW v \in Values
  PROVE  /\ PushFPU(f, v) \in Units
         /\ s[NReg - 1] = Empty => Shows(PushFPU(f, v), Ring!Pushed(s, v))
         /\ s[NReg - 1] # Empty => PushFPU(f, v).error = "FPUStackOverflow"
<1>1. PushedOn(s, Rounded(v, FPU_PC(FPU_control))) = Ring!Pushed(s, v)
  BY DEF PushedOn, Ring!Pushed, Ring!Slots, Slots, Ring!Stored, Ring!Rounded, Rounded
<1> QED
  BY <1>1, PushSeen DEF Shows

LEMMA PopShows ==
  ASSUME NEW f, NEW s, Shows(f, s)
  PROVE  /\ PopFPU(f) \in Units
         /\ s[0] # Empty => Shows(PopFPU(f), Ring!Popped(s))
         /\ s[0] = Empty => PopFPU(f).error = "FPUStackUnderflow"
BY PopSeen DEF Shows

(* The second of two pops meets what is st(1) before them.                 *)
LEMMA PopTwiceShows ==
  ASSUME NEW f, NEW s, Shows(f, s), s[0] # Empty
  PROVE  /\ PopTwice(f) \in Units
         /\ s[1] # Empty => Shows(PopTwice(f), Ring!Popped(Ring!Popped(s)))
         /\ s[1] = Empty => PopTwice(f).error = "FPUStackUnderflow"
<1>1. Shows(PopFPU(f), Ring!Popped(s))
  BY PopShows
<1>2. PopTwice(f) = PopFPU(PopFPU(f))
  BY <1>1 DEF PopTwice, Shows
<1>3. Ring!Popped(s)[0] = IF NReg = 1 THEN Empty ELSE s[1]
  BY FpuAssumption, SMT DEF Ring!Popped, Ring!Slots
<1>4. Ring!Popped(s)[0] = s[1]
  BY <1>3, FpuAssumption, SMT
<1> QED
  BY <1>1, <1>2, <1>4, PopShows

LEMMA TurnShows ==
  ASSUME NEW f, NEW s, Shows(f, s), NEW n \in {-1, 1}
  PROVE  Shows(Turn(f, n), Ring!Turned(s, n))
BY TurnSeen DEF Shows, Ring!Turned, Ring!Slots, Slots

(* An instruction finds its operands where the client sees them.           *)
LEMMA PresentSeen ==
  ASSUME UnitOK, NEW S \in SUBSET Slots
  PROVE  /\ Present(S) <=> \A i \in S : FromTOP[i] # Empty
         /\ \A i \in S : Present(S) => ST(Unit, i) = FromTOP[i]
         /\ \A i \in S : ST(Unit, i) \in Values
BY UnitShows, SeenEmpty DEF Present, Shows

-----------------------------------------------------------------------------
(* The ways an instruction stops.                                          *)

(* Instruction o starts in a typed state that has not failed.              *)
Starts(o) == UnitOK /\ fault = "None" /\ instr' = o

LEMMA MissingFaults ==
  ASSUME NEW o, Starts(o), NEW S \in SUBSET Slots, Ring!Needs(o) = S, Missing(S)
  PROVE  UnitOK' /\ Ring!Faults(o)
<1>1. UnitOK' /\ fault' = "FPUAccessViolation"
  BY StopsUnit DEF Starts, Missing
<1>2. ~Ring!InUse(o)
  BY PresentSeen DEF Starts, Missing, Ring!InUse
<1> QED
  BY <1>1, <1>2 DEF Ring!Faults, Starts

LEMMA OperandsInUse ==
  ASSUME NEW o, Starts(o), NEW S \in SUBSET Slots, Ring!Needs(o) = S, Present(S)
  PROVE  Ring!InUse(o)
BY PresentSeen DEF Starts, Ring!InUse

LEMMA AccessFaults ==
  ASSUME NEW o, Starts(o), Ring!InUse(o), ~Ring!OnRegisters(o),
         NoAccess \/ (NoWrite /\ o[1] \in {"FST", "FSTLD"})
  PROVE  UnitOK' /\ Ring!Faults(o)
<1>1. UnitOK' /\ \/ fault' = "OutOfBounds"
                 \/ fault' = "AccessViolation" /\ o[1] \in {"FST", "FSTLD"}
  BY StopsUnit DEF NoAccess, NoWrite, Starts
<1> QED
  BY <1>1 DEF Ring!Faults, Starts

LEMMA UndefinedFaults ==
  ASSUME NEW o, Starts(o), Ring!InUse(o), Ring!Undefined(o), Stops("UndefinedBehavior")
  PROVE  UnitOK' /\ Ring!Faults(o)
BY StopsUnit DEF Starts, Ring!Faults

(* A push of a shown unit enters the value, or faults for want of room.    *)
LEMMA PushFaults ==
  ASSUME NEW o, Starts(o), Ring!InUse(o), Ring!NeedsRoom(o),
         NEW f, NEW s, Shows(f, s), s[NReg - 1] = FromTOP[NReg - 1],
         NEW v \in Values, Becomes(PushFPU(f, v))
  PROVE  /\ UnitOK'
         /\ \/ Ring!Faults(o)
            \/ /\ Ring!Room /\ fault' = "None" /\ FromTOP' = Ring!Pushed(s, v)
               /\ FPU_PC(FPU_control)' = FPU_PC(FPU_control)
<1>1. CASE Ring!Room
  <2>1. Shows(PushFPU(f, v), Ring!Pushed(s, v))
    BY <1>1, PushShows DEF Ring!Room
  <2> QED
    BY <1>1, <2>1, BecomesShown
<1>2. CASE ~Ring!Room
  <2>1. PushFPU(f, v) \in Units /\ PushFPU(f, v).error = "FPUStackOverflow"
    BY <1>2, PushShows DEF Ring!Room
  <2>2. UnitOK' /\ fault' = "FPUStackOverflow"
    BY <2>1, BecomesUnit
  <2> QED
    BY <1>2, <2>2 DEF Ring!Faults, Starts
<1> QED
  BY <1>1, <1>2

LEMMA CompletesHere ==
  ASSUME NEW o, Starts(o), Ring!InUse(o), fault' = "None"
  PROVE  Ring!Completes(o)
BY DEF Starts, Ring!Completes

LEMMA NeedsOne ==
  /\ \A mode, i : Ring!Needs(<<"FLD", mode, i>>) = IF mode = 0 THEN {i} ELSE {}
  /\ \A mode, i : Ring!Needs(<<"FST", mode, i>>) = {0}
  /\ \A taken, i : Ring!Needs(<<"FMOVcc", taken, i>>) = IF taken = 0 THEN {} ELSE {0, i}
  /\ \A mode, i : Ring!Needs(<<"FXCH", mode, i>>) = {0, i}
  /\ \A mode, i : Ring!Needs(<<"FADD", mode, i>>) = IF mode \in {0, 1, 2} THEN {0, i} ELSE {0}
BY DEF Ring!Needs, Ring!OnRegisters, Ring!OfNone, Ring!OfTwo, Ring!Comparisons

LEMMA NeedsNamed ==
  ASSUME NEW mode, NEW i
  PROVE  /\ \A name \in Ring!OfNone : Ring!Needs(<<name, mode, i>>) = {}
         /\ \A name \in {"F2XM1", "FABS", "FSINCOS", "FTST"} : Ring!Needs(<<name, mode, i>>) = {0}
         /\ \A name \in {"FPREM", "FYL2X"} : Ring!Needs(<<name, mode, i>>) = {0, 1}
BY DEF Ring!Needs, Ring!OnRegisters, Ring!OfNone, Ring!OfTwo

-----------------------------------------------------------------------------
(* Every instruction completes as the ring says, or faults where it says.  *)

LEMMA FLDconstStep ==
  ASSUME UnitOK, NEW ext \in {0, 7}, FLD_const(ext)
  PROVE  UnitOK' /\ (Ring!Completion("FLD_const", ext, 0) \/ Ring!Faults(<<"FLD_const", ext, 0>>))
<1> DEFINE o == <<"FLD_const", ext, 0>>
<1>1. Starts(o) /\ eflags' = eflags
  BY DEF FLD_const, Starts, Runs, Keeps
<1>2. Ring!InUse(o) /\ Ring!NeedsRoom(o)
  BY NeedsNamed DEF Ring!OfNone, Ring!InUse, Ring!NeedsRoom
<1>3. ASSUME ext < 7, NEW v \in Values, Becomes(PushFPU(Unit, v))
      PROVE  UnitOK' /\ (Ring!FLD_const \/ Ring!Faults(o))
  <2>1. ext = 0
    BY <1>3
  <2>2. Shows(Unit, FromTOP)
    BY UnitShows
  <2>3. \/ UnitOK' /\ Ring!Faults(o)
        \/ /\ UnitOK' /\ Ring!Room /\ fault' = "None" /\ FromTOP' = Ring!Pushed(FromTOP, v)
           /\ FPU_PC(FPU_control)' = FPU_PC(FPU_control)
    BY <1>1, <1>2, <1>3, <2>2, PushFaults
  <2> QED
    BY <1>1, <1>2, <2>1, <2>3, CompletesHere DEF Ring!FLD_const, Ring!KeepsControl
<1>4. ASSUME ext >= 7, Stops("UndefinedBehavior")
      PROVE  UnitOK' /\ Ring!Faults(o)
  BY <1>1, <1>2, <1>4, UndefinedFaults DEF Ring!Undefined
<1> QED
  BY <1>3, <1>4 DEF FLD_const, Ring!Completion

LEMMA FLDStep ==
  ASSUME UnitOK, NEW mode \in 0 .. 7, NEW i \in Slots, FLD(mode, i)
  PROVE  UnitOK' /\ (Ring!Completion("FLD", mode, i) \/ Ring!Faults(<<"FLD", mode, i>>))
<1> DEFINE o == <<"FLD", mode, i>>
<1>1. Starts(o) /\ eflags' = eflags
  BY DEF FLD, Starts, Runs, Keeps
<1>2. /\ Ring!Needs(o) = IF mode = 0 THEN {i} ELSE {}
      /\ Ring!NeedsRoom(o) /\ (Ring!OnRegisters(o) <=> mode = 0)
  BY NeedsOne DEF Ring!NeedsRoom, Ring!OnRegisters, Ring!Comparisons
<1>3. mode > 0 => Ring!InUse(o)
  BY <1>2 DEF Ring!InUse
<1>4. ASSUME Ring!InUse(o), NEW v \in IF mode = 0 THEN {FromTOP[i]} ELSE Values, v \in Values,
             Becomes(PushFPU(Unit, v))
      PROVE  UnitOK' /\ (Ring!FLD(mode, i) \/ Ring!Faults(o))
  <2>1. Shows(Unit, FromTOP)
    BY UnitShows
  <2>2. \/ UnitOK' /\ Ring!Faults(o)
        \/ /\ UnitOK' /\ Ring!Room /\ fault' = "None" /\ FromTOP' = Ring!Pushed(FromTOP, v)
           /\ FPU_PC(FPU_control)' = FPU_PC(FPU_control)
    BY <1>1, <1>2, <1>4, <2>1, PushFaults
  <2> QED
    BY <1>1, <1>4, <2>2, CompletesHere DEF Ring!FLD, Ring!KeepsControl
<1>5. CASE mode = 0 /\ Missing({i})
  BY <1>1, <1>2, <1>5, MissingFaults
<1>6. CASE mode = 0 /\ Present({i}) /\ Becomes(PushFPU(Unit, ST(Unit, i)))
  <2>1. ST(Unit, i) = FromTOP[i] /\ ST(Unit, i) \in Values
    BY <1>6, PresentSeen
  <2>2. Ring!InUse(o)
    BY <1>1, <1>2, <1>6, OperandsInUse
  <2> QED
    BY <1>4, <1>6, <2>1, <2>2 DEF Ring!Completion
<1>7. CASE mode > 0 /\ NoAccess
  BY <1>1, <1>2, <1>3, <1>7, AccessFaults
<1>8. CASE mode \in 1 .. 5 /\ \E v \in Operands : Becomes(PushFPU(Unit, v))
  <2>1. mode # 0 /\ Ring!InUse(o)
    BY <1>3, <1>8
  <2> QED
    BY <1>4, <1>8, <2>1, UnitAssumption DEF Ring!Completion
<1>9. CASE mode > 5 /\ Stops("UndefinedBehavior")
  <2>1. mode \in {6, 7} /\ Ring!InUse(o)
    BY <1>3, <1>9
  <2> QED
    BY <1>1, <1>9, <2>1, UndefinedFaults DEF Ring!Undefined
<1> QED
  BY <1>5, <1>6, <1>7, <1>8, <1>9 DEF FLD

(* A pop after work that left something at st(0).                          *)
LEMMA FSTPopsShows ==
  ASSUME NEW f, NEW s, Shows(f, s), s[0] # Empty, NEW mode \in 0 .. 15, NEW i
  PROVE  Shows(FSTPops(f, mode), Ring!After(s, <<"FST", mode, i>>))
<1>1. Ring!Pops(<<"FST", mode, i>>) = IF mode \in {0, 2, 4, 6, 8} THEN 0 ELSE 1
  BY DEF Ring!Pops, Ring!Comparisons
<1> QED
  BY <1>1, PopShows DEF FSTPops, Ring!After, Ring!PoppedTimes

LEMMA FSTStep ==
  ASSUME UnitOK, NEW mode \in 0 .. 15, NEW i \in Slots, FST(mode, i)
  PROVE  UnitOK' /\ (Ring!Completion("FST", mode, i) \/ Ring!Faults(<<"FST", mode, i>>))
<1> DEFINE o == <<"FST", mode, i>>
           s == IF mode \in {0, 1} THEN [FromTOP EXCEPT ![i] = Ring!Stored(FromTOP[0])] ELSE FromTOP
<1>1. Starts(o) /\ eflags' = eflags
  BY DEF FST, Starts, Runs
<1>2. /\ Ring!Needs(o) = {0} /\ {0} \in SUBSET Slots
      /\ Ring!OnRegisters(o) <=> mode \in {0, 1}
  BY NeedsOne, Ends DEF Ring!OnRegisters, Ring!Comparisons
<1>3. CASE Missing({0})
  BY <1>1, <1>2, <1>3, MissingFaults
<1>4. CASE Present({0})
  <2>1. /\ ST(Unit, 0) = FromTOP[0] /\ FromTOP[0] \in Values /\ FromTOP[0] # Empty
        /\ Ring!InUse(o) /\ Shows(Unit, FromTOP)
    BY <1>1, <1>2, <1>4, PresentSeen, OperandsInUse, UnitShows
  <2>2. ASSUME NEW f, Shows(f, s), s[0] # Empty, Becomes(FSTPops(f, mode))
        PROVE  UnitOK' /\ Ring!FST(mode, i)
    <3>1. Shows(FSTPops(f, mode), Ring!After(s, o))
      BY <2>2, FSTPopsShows
    <3>2. /\ UnitOK' /\ fault' = "None" /\ FromTOP' = Ring!After(s, o)
          /\ FPU_PC(FPU_control)' = FPU_PC(FPU_control)
      BY <2>2, <3>1, BecomesShown
    <3> QED
      BY <1>1, <2>1, <3>2, CompletesHere DEF Ring!FST, Ring!KeepsControl, Starts
  <2>3. CASE mode \in {0, 1} /\ Becomes(FSTPops(Assign(Unit, i, ST(Unit, 0)), mode))
    <3>1. Shows(Assign(Unit, i, ST(Unit, 0)), s)
      BY <2>1, <2>3, AssignShows
    <3>2. Ring!Stored(FromTOP[0]) # Empty
      BY <2>1, RoundedValue, FpuAssumption DEF Ring!Stored, Ring!Rounded, Rounded
    <3>3. s[0] # Empty
      BY <1>2, <2>1, <2>3, <3>2 DEF FromTOP
    <3> QED
      BY <2>2, <2>3, <3>1, <3>3 DEF Ring!Completion
  <2>4. CASE mode > 1 /\ NoWrite
    <3>1. ~Ring!OnRegisters(o)
      BY <1>2, <2>4
    <3> QED
      BY <1>1, <2>1, <2>4, <3>1, AccessFaults
  <2>5. CASE mode > 13 /\ Stops("UndefinedBehavior")
    <3>1. mode \in {14, 15}
      BY <2>5
    <3> QED
      BY <1>1, <2>1, <2>5, <3>1, UndefinedFaults DEF Ring!Undefined
  <2>6. CASE mode \in 2 .. 13 /\ Becomes(FSTPops(Unit, mode))
    <3>1. mode \notin {0, 1}
      BY <2>6
    <3> QED
      BY <2>1, <2>2, <2>6, <3>1 DEF Ring!Completion
  <2> QED
    BY <2>3, <2>4, <2>5, <2>6, <1>4 DEF FST, NoWrite, Missing
<1> QED
  BY <1>3, <1>4 DEF FST

LEMMA FXCHStep ==
  ASSUME UnitOK, NEW i \in Slots, FXCH(i)
  PROVE  UnitOK' /\ (Ring!Completion("FXCH", 0, i) \/ Ring!Faults(<<"FXCH", 0, i>>))
<1> DEFINE o == <<"FXCH", 0, i>>
           s == [FromTOP EXCEPT ![0] = Ring!Stored(FromTOP[i]), ![i] = Ring!Stored(FromTOP[0])]
           f == Assign(Assign(Unit, 0, ST(Unit, i)), i, ST(Unit, 0))
<1>1. Starts(o) /\ eflags' = eflags
  BY DEF FXCH, Starts, Runs, Keeps
<1>2. Ring!Needs(o) = {0, i} /\ {0, i} \in SUBSET Slots
  BY NeedsOne, Ends
<1>3. CASE Missing({0, i})
  BY <1>1, <1>2, <1>3, MissingFaults
<1>4. CASE Present({0, i}) /\ Becomes(f)
  <2>1. /\ ST(Unit, 0) = FromTOP[0] /\ FromTOP[0] \in Values
        /\ ST(Unit, i) = FromTOP[i] /\ FromTOP[i] \in Values
        /\ Ring!InUse(o) /\ Shows(Unit, FromTOP)
    BY <1>1, <1>2, <1>4, PresentSeen, OperandsInUse, UnitShows
  <2>2. Shows(Assign(Unit, 0, ST(Unit, i)), [FromTOP EXCEPT ![0] = Ring!Stored(FromTOP[i])])
    BY <1>2, <2>1, AssignShows
  <2>3. Shows(f, s)
    BY <1>2, <2>1, <2>2, AssignShows
  <2>4. /\ UnitOK' /\ fault' = "None" /\ FromTOP' = s
        /\ FPU_PC(FPU_control)' = FPU_PC(FPU_control)
    BY <1>4, <2>3, BecomesShown
  <2> QED
    BY <1>1, <2>1, <2>4, CompletesHere DEF Ring!FXCH, Ring!KeepsControl, Ring!Completion
<1> QED
  BY <1>3, <1>4 DEF FXCH

LEMMA FMOVccStep ==
  ASSUME UnitOK, NEW taken \in 0 .. 1, NEW i \in Slots, FMOVcc(taken, i)
  PROVE  UnitOK' /\ (Ring!Completion("FMOVcc", taken, i) \/ Ring!Faults(<<"FMOVcc", taken, i>>))
<1> DEFINE o == <<"FMOVcc", taken, i>>
           s == IF taken = 1 THEN [FromTOP EXCEPT ![0] = Ring!Stored(FromTOP[i])] ELSE FromTOP
<1>1. Starts(o) /\ eflags' = eflags /\ Shows(Unit, FromTOP)
  BY UnitShows DEF FMOVcc, Starts, Runs, Keeps
<1>2. Ring!Needs(o) = (IF taken = 0 THEN {} ELSE {0, i}) /\ {0, i} \in SUBSET Slots
  BY NeedsOne, Ends
<1>3. CASE taken = 1 /\ Missing({0, i})
  BY <1>1, <1>2, <1>3, MissingFaults
<1>4. ASSUME NEW f, Shows(f, s), Becomes(f), Ring!InUse(o)
      PROVE  UnitOK' /\ Ring!FMOVcc(taken, i)
  <2>1. /\ UnitOK' /\ fault' = "None" /\ FromTOP' = s
        /\ FPU_PC(FPU_control)' = FPU_PC(FPU_control)
    BY <1>4, BecomesShown
  <2> QED
    BY <1>1, <1>4, <2>1, CompletesHere DEF Ring!FMOVcc, Ring!KeepsControl
<1>5. CASE taken = 1 /\ Present({0, i}) /\ Becomes(Assign(Unit, 0, ST(Unit, i)))
  <2>1. Ring!Needs(o) = {0, i}
    BY <1>2, <1>5
  <2>2. ST(Unit, i) = FromTOP[i] /\ FromTOP[i] \in Values /\ Ring!InUse(o)
    BY <1>1, <1>2, <1>5, <2>1, PresentSeen, OperandsInUse
  <2>3. Shows(Assign(Unit, 0, ST(Unit, i)), s)
    BY <1>1, <1>2, <1>5, <2>2, AssignShows
  <2> QED
    BY <1>4, <1>5, <2>2, <2>3 DEF Ring!Completion
<1>6. CASE taken = 0 /\ Becomes(Unit)
  BY <1>1, <1>2, <1>4, <1>6 DEF Ring!Completion, Ring!InUse
<1> QED
  BY <1>3, <1>5, <1>6 DEF FMOVcc

LEMMA FADDStep ==
  ASSUME UnitOK, NEW mode \in {0, 1, 2, 3, 7}, NEW i \in Slots, FADD(mode, i)
  PROVE  UnitOK' /\ (Ring!Completion("FADD", mode, i) \/ Ring!Faults(<<"FADD", mode, i>>))
<1> DEFINE o == <<"FADD", mode, i>>
           S == FetchFPUBinaryFormat(mode, i)
           k == IF mode \in {1, 2} THEN i ELSE 0
<1>1. Starts(o) /\ eflags' = eflags /\ Shows(Unit, FromTOP)
  BY UnitShows DEF FADD, Starts, Runs, Keeps
<1>2. /\ Ring!Needs(o) = S /\ S \in SUBSET Slots /\ 0 \in S /\ k \in S
      /\ Ring!OnRegisters(o) <=> mode \in {0, 1, 2}
  BY NeedsOne, Ends DEF FetchFPUBinaryFormat, Ring!OnRegisters
<1>3. CASE Missing(S)
  BY <1>1, <1>2, <1>3, MissingFaults
<1>4. CASE Present(S)
  <2>1. Ring!InUse(o) /\ FromTOP[0] # Empty
    BY <1>1, <1>2, <1>4, PresentSeen, OperandsInUse DEF Starts
  <2>2. CASE mode > 2 /\ NoAccess
    <3>1. ~Ring!OnRegisters(o)
      BY <1>2, <2>2
    <3> QED
      BY <1>1, <2>1, <2>2, <3>1, AccessFaults
  <2>3. CASE mode > 6 /\ Stops("UndefinedBehavior")
    <3>1. mode = 7
      BY <2>3
    <3> QED
      BY <1>1, <2>1, <2>3, <3>1, UndefinedFaults DEF Ring!Undefined
  <2>4. ASSUME NEW res \in Values, Becomes(StoreFPUBinaryFormat(mode, i, res))
        PROVE  UnitOK' /\ Ring!FADD(mode, i)
    <3> DEFINE s == [FromTOP EXCEPT ![k] = Ring!Stored(res)]
    <3>1. Shows(Assign(Unit, k, res), s)
      BY <1>1, <1>2, AssignShows
    <3>2. s[0] # Empty
      <4>1. Ring!Stored(res) # Empty
        BY RoundedValue, FpuAssumption DEF Ring!Stored, Ring!Rounded, Rounded
      <4> QED
        BY <1>2, <2>1, <4>1 DEF FromTOP
    <3>3. Ring!Pops(o) = IF mode = 2 THEN 1 ELSE 0
      BY DEF Ring!Pops, Ring!Comparisons
    <3>4. StoreFPUBinaryFormat(mode, i, res)
            = IF mode = 2 THEN PopFPU(Assign(Unit, k, res)) ELSE Assign(Unit, k, res)
      BY DEF StoreFPUBinaryFormat
    <3> HIDE DEF o, s, k
    <3>5. Shows(StoreFPUBinaryFormat(mode, i, res), Ring!After(s, o))
      <4>1. CASE mode = 2
        BY <3>1, <3>2, <3>3, <3>4, <4>1, PopShows DEF Ring!After, Ring!PoppedTimes
      <4>2. CASE mode # 2
        BY <3>1, <3>3, <3>4, <4>2 DEF Ring!After, Ring!PoppedTimes
      <4> QED
        BY <4>1, <4>2
    <3>6. /\ UnitOK' /\ fault' = "None" /\ FromTOP' = Ring!After(s, o)
          /\ FPU_PC(FPU_control)' = FPU_PC(FPU_control)
      BY <2>4, <3>5, BecomesShown
    <3>7. Ring!Completes(o) /\ Ring!KeepsControl /\ instr' = o
      BY <1>1, <2>1, <3>6, CompletesHere DEF Ring!KeepsControl, Starts
    <3> QED
      BY <3>6, <3>7 DEF Ring!FADD, o, s, k
  <2> QED
    BY <1>4, <2>2, <2>3, <2>4 DEF FADD, Missing, Ring!Completion
<1> QED
  BY <1>3, <1>4 DEF FADD

(* The instructions that put a result in st(0).                            *)
LEMMA ResultStep ==
  ASSUME UnitOK, NEW name \in {"F2XM1", "FABS", "FPREM"}, Starts(<<name, 0, 0>>), eflags' = eflags,
         name = "FPREM" => Present({0, 1}), name # "FPREM" => Present({0}),
         name = "F2XM1" => ST(Unit, 0) \notin Beyond,
         NEW res \in Values, Becomes(Assign(Unit, 0, res))
  PROVE  UnitOK' /\ Ring!Completion(name, 0, 0)
<1> DEFINE o == <<name, 0, 0>>
           S == IF name = "FPREM" THEN {0, 1} ELSE {0}
<1>1. Ring!Needs(o) = S /\ S \in SUBSET Slots /\ 0 \in S
  BY NeedsNamed, Ends, ZenonT(30)
<1>2. Ring!InUse(o) /\ ST(Unit, 0) = FromTOP[0]
  <2>1. Present(S)
    OBVIOUS
  <2> HIDE DEF S, o
  <2> QED
    BY <1>1, <2>1, PresentSeen, OperandsInUse DEF o
<1>3. Shows(Assign(Unit, 0, res), [FromTOP EXCEPT ![0] = Ring!Stored(res)])
  BY <1>1, UnitShows, AssignShows
<1>4. /\ UnitOK' /\ fault' = "None" /\ FromTOP' = [FromTOP EXCEPT ![0] = Ring!Stored(res)]
      /\ FPU_PC(FPU_control)' = FPU_PC(FPU_control)
  BY <1>3, BecomesShown
<1>5. Ring!Completes(o) /\ Ring!KeepsControl
  BY <1>2, <1>4, CompletesHere DEF Ring!KeepsControl
<1>6. Ring!FABS(name)
  BY <1>2, <1>4, <1>5 DEF Ring!FABS
<1> QED
  BY <1>4, <1>6 DEF Ring!Completion

LEMMA F2XM1Step ==
  ASSUME UnitOK, F2XM1
  PROVE  UnitOK' /\ (Ring!Completion("F2XM1", 0, 0) \/ Ring!Faults(<<"F2XM1", 0, 0>>))
<1> DEFINE o == <<"F2XM1", 0, 0>>
<1>1. Starts(o) /\ eflags' = eflags
  BY DEF F2XM1, Starts, Runs, Keeps
<1>2. Ring!Needs(o) = {0} /\ {0} \in SUBSET Slots
  BY NeedsNamed, Ends
<1>3. CASE Missing({0})
  BY <1>1, <1>2, <1>3, MissingFaults
<1>4. CASE Present({0}) /\ ST(Unit, 0) \in Beyond /\ Stops("FPUError")
  BY <1>1, <1>2, <1>4, PresentSeen, StopsUnit DEF Ring!Faults, Starts
<1>5. CASE /\ Present({0}) /\ ST(Unit, 0) \notin Beyond
           /\ \E res \in Values : Becomes(Assign(Unit, 0, res))
  BY <1>1, <1>5, ResultStep
<1> QED
  BY <1>3, <1>4, <1>5 DEF F2XM1

LEMMA FABSStep ==
  ASSUME UnitOK, FABS
  PROVE  UnitOK' /\ (Ring!Completion("FABS", 0, 0) \/ Ring!Faults(<<"FABS", 0, 0>>))
<1> DEFINE o == <<"FABS", 0, 0>>
<1>1. Starts(o) /\ eflags' = eflags
  BY DEF FABS, Starts, Runs
<1>2. Ring!Needs(o) = {0} /\ {0} \in SUBSET Slots
  BY NeedsNamed, Ends
<1>3. CASE Missing({0})
  BY <1>1, <1>2, <1>3, MissingFaults
<1>4. CASE Present({0}) /\ \E res \in Values : Becomes(Assign(Unit, 0, res))
  BY <1>1, <1>4, ResultStep
<1> QED
  BY <1>3, <1>4 DEF FABS

LEMMA FPREMStep ==
  ASSUME UnitOK, FPREM
  PROVE  UnitOK' /\ (Ring!Completion("FPREM", 0, 0) \/ Ring!Faults(<<"FPREM", 0, 0>>))
<1> DEFINE o == <<"FPREM", 0, 0>>
<1>1. Starts(o) /\ eflags' = eflags
  BY DEF FPREM, Starts, Runs
<1>2. Ring!Needs(o) = {0, 1} /\ {0, 1} \in SUBSET Slots
  BY NeedsNamed, Ends
<1>3. CASE Missing({0, 1})
  BY <1>1, <1>2, <1>3, MissingFaults
<1>4. CASE Present({0, 1}) /\ \E res \in Values : Becomes(Assign(Unit, 0, res))
  BY <1>1, <1>4, ResultStep
<1> QED
  BY <1>3, <1>4 DEF FPREM

LEMMA FYL2XStep ==
  ASSUME UnitOK, FYL2X
  PROVE  UnitOK' /\ (Ring!Completion("FYL2X", 0, 0) \/ Ring!Faults(<<"FYL2X", 0, 0>>))
<1> DEFINE o == <<"FYL2X", 0, 0>>
<1>1. Starts(o) /\ eflags' = eflags /\ Shows(Unit, FromTOP)
  BY UnitShows DEF FYL2X, Starts, Runs, Keeps
<1>2. Ring!Needs(o) = {0, 1} /\ {0, 1} \in SUBSET Slots /\ Ring!Pops(o) = 1
  BY NeedsNamed, Ends DEF Ring!Pops, Ring!Comparisons
<1>3. CASE Missing({0, 1})
  BY <1>1, <1>2, <1>3, MissingFaults
<1>4. ASSUME Present({0, 1}), NEW res \in Values, Becomes(Assign(PopFPU(Unit), 0, res))
      PROVE  UnitOK' /\ Ring!FYL2X
  <2> DEFINE s == [Ring!Popped(FromTOP) EXCEPT ![0] = Ring!Stored(res)]
             t == Ring!After([FromTOP EXCEPT ![1] = Ring!Stored(res)], o)
  <2>1. FromTOP[0] # Empty /\ Ring!InUse(o)
    BY <1>1, <1>2, <1>4, PresentSeen, OperandsInUse
  <2>2. Shows(PopFPU(Unit), Ring!Popped(FromTOP))
    BY <1>1, <2>1, PopShows
  <2>3. Shows(Assign(PopFPU(Unit), 0, res), s)
    BY <1>2, <2>2, AssignShows
  <2>4. s = t
    <3>1. \A k \in Slots : k + 1 = 1 <=> k = 0
      BY SMT DEF Slots
    <3>2. NReg - 1 # 0 /\ 0 + 1 = 1
      BY FpuAssumption, SMT
    <3>3. \A k \in Slots : k # NReg - 1 => k + 1 \in Slots
      BY Neighbours
    <3>4. t = Ring!Popped([FromTOP EXCEPT ![1] = Ring!Stored(res)])
      BY <1>2 DEF Ring!After, Ring!PoppedTimes
    <3> QED
      BY <1>2, <3>1, <3>2, <3>3, <3>4 DEF Ring!Popped, Ring!Slots, Slots, FromTOP
  <2>5. /\ UnitOK' /\ fault' = "None" /\ FromTOP' = t
        /\ FPU_PC(FPU_control)' = FPU_PC(FPU_control)
    BY <1>4, <2>3, <2>4, BecomesShown
  <2>6. Ring!Completes(o) /\ Ring!KeepsControl /\ instr' = o
    BY <1>1, <2>1, <2>5, CompletesHere DEF Ring!KeepsControl, Starts
  <2> QED
    BY <2>5, <2>6 DEF Ring!FYL2X
<1> QED
  BY <1>3, <1>4 DEF FYL2X, Ring!Completion

LEMMA FSINCOSStep ==
  ASSUME UnitOK, FSINCOS
  PROVE  UnitOK' /\ (Ring!Completion("FSINCOS", 0, 0) \/ Ring!Faults(<<"FSINCOS", 0, 0>>))
<1> DEFINE o == <<"FSINCOS", 0, 0>>
<1>1. Starts(o) /\ eflags' = eflags /\ Shows(Unit, FromTOP)
  BY UnitShows DEF FSINCOS, Starts, Runs, Keeps
<1>2. Ring!Needs(o) = {0} /\ {0} \in SUBSET Slots /\ Ring!NeedsRoom(o)
  BY NeedsNamed, Ends DEF Ring!NeedsRoom
<1>3. CASE Missing({0})
  BY <1>1, <1>2, <1>3, MissingFaults
<1>4. ASSUME Present({0}), NEW res \in Values, NEW val \in Values,
             Becomes(PushFPU(Assign(Unit, 0, res), val))
      PROVE  UnitOK' /\ (Ring!FSINCOS \/ Ring!Faults(o))
  <2> DEFINE s == [FromTOP EXCEPT ![0] = Ring!Stored(res)]
  <2>1. Ring!InUse(o)
    BY <1>1, <1>2, <1>4, OperandsInUse
  <2>2. Shows(Assign(Unit, 0, res), s)
    BY <1>1, <1>2, AssignShows
  <2>3. s[NReg - 1] = FromTOP[NReg - 1]
    BY FpuAssumption, SMT DEF FromTOP, Slots
  <2> HIDE DEF s
  <2>4. /\ UnitOK'
        /\ \/ Ring!Faults(o)
           \/ /\ Ring!Room /\ fault' = "None" /\ FromTOP' = Ring!Pushed(s, val)
              /\ FPU_PC(FPU_control)' = FPU_PC(FPU_control)
    BY <1>1, <1>2, <1>4, <2>1, <2>2, <2>3, PushFaults
  <2>5. CASE /\ Ring!Room /\ fault' = "None" /\ FromTOP' = Ring!Pushed(s, val)
             /\ FPU_PC(FPU_control)' = FPU_PC(FPU_control)
    <3>1. Ring!Completes(o) /\ Ring!KeepsControl
      BY <1>1, <2>1, <2>5, CompletesHere DEF Ring!KeepsControl
    <3> QED
      BY <1>4, <2>4, <2>5, <3>1 DEF Ring!FSINCOS, s
  <2> QED
    BY <2>4, <2>5
<1> QED
  BY <1>3, <1>4 DEF FSINCOS, Ring!Completion

LEMMA FXAMStep ==
  ASSUME UnitOK, FXAM
  PROVE  UnitOK' /\ Ring!Completion("FXAM", 0, 0)
<1> DEFINE o == <<"FXAM", 0, 0>>
           v == ST(Unit, 0)
<1>1. Starts(o) /\ eflags' = eflags /\ Shows(Unit, FromTOP) /\ Ring!InUse(o)
  BY UnitShows, NeedsNamed DEF FXAM, Starts, Runs, Keeps, Ring!InUse, Ring!OfNone
<1>2. /\ UnitOK' /\ fault' = "None" /\ FromTOP' = FromTOP
      /\ FPU_PC(FPU_control)' = FPU_PC(FPU_control)
  BY <1>1, BecomesShown DEF FXAM
<1>3. /\ FromTOP[0] = Empty <=> IsEmpty(Unit, 0)
      /\ ~IsEmpty(Unit, 0) => FromTOP[0] = v
      /\ v \in Values
  BY <1>1, SeenEmpty, Ends DEF Shows
<1>4. PICK codes \in Classes(Unit), sign \in {{}, {"C1"}} : SetCodes(codes \cup sign)
  BY DEF FXAM
<1>5. \A c \in C0123 : c \in FPU_status' <=> c \in codes \cup sign
  BY <1>4 DEF SetCodes, C0123
<1>6. \/ FromTOP[0] = Empty /\ codes = {"C3", "C0"}
      \/ FromTOP[0] = NaN /\ FromTOP[0] # Empty /\ codes = {"C0"}
      \/ FromTOP[0] = 0 /\ FromTOP[0] # NaN /\ FromTOP[0] # Empty /\ codes = {"C3"}
      \/ /\ FromTOP[0] # 0 /\ FromTOP[0] # NaN /\ FromTOP[0] # Empty
         /\ codes \in {{"C2", "C0"}, {"C3", "C2"}, {"C2"}}
  <2>1. IsEmpty(Unit, 0) => Classes(Unit) = {{"C3", "C0"}}
    BY Zenon DEF Classes
  <2>2. ~IsEmpty(Unit, 0) =>
          \/ v = NaN /\ Classes(Unit) = {{"C0"}}
          \/ v # NaN /\ v = 0 /\ Classes(Unit) = {{"C3"}}
          \/ v # NaN /\ v # 0 /\ v \in Special /\ Classes(Unit) = {{"C2", "C0"}, {"C3", "C2"}}
          \/ v # NaN /\ v # 0 /\ v \notin Special /\ Classes(Unit) = {{"C2"}}
    BY Zenon DEF Classes
  <2>3. v # Empty
    BY <1>3, FpuAssumption
  <2> HIDE DEF v
  <2>4. CASE IsEmpty(Unit, 0)
    BY <1>3, <1>4, <2>1, <2>4
  <2>5. CASE ~IsEmpty(Unit, 0)
    BY <1>3, <1>4, <2>2, <2>3, <2>5
  <2> QED
    BY <2>4, <2>5
<1>7. NaN # 0 /\ Empty # 0 /\ NaN # Empty
  BY FpuAssumption
<1> HIDE DEF v
<1>8. /\ FromTOP[0] = Empty <=> {"C3", "C0"} \subseteq FPU_status'
      /\ FromTOP[0] = NaN <=> FPU_status' \cap {"C3", "C2", "C0"} = {"C0"}
      /\ FromTOP[0] = 0 <=> FPU_status' \cap {"C3", "C2", "C0"} = {"C3"}
  <2>1. /\ "C0" \in FPU_status' <=> "C0" \in codes
        /\ "C2" \in FPU_status' <=> "C2" \in codes
        /\ "C3" \in FPU_status' <=> "C3" \in codes
    BY <1>5 DEF C0123
  <2> QED
    BY <1>6, <1>7, <2>1
<1>9. Ring!Completes(o) /\ Ring!KeepsControl
  BY <1>1, <1>2, CompletesHere DEF Ring!KeepsControl
<1> QED
  BY <1>2, <1>8, <1>9 DEF Ring!FXAM, Ring!Completion

LEMMA CodesAreCodes ==
  ASSUME NEW a, NEW b
  PROVE  /\ Codes(a, b) \subseteq C0123 /\ AsFlags(a, b) \subseteq Flags
         /\ Ring!Codes(a, b) = Codes(a, b) /\ Ring!AsFlags(a, b) = AsFlags(a, b)
         /\ Ring!C0123 = C0123
BY DEF Codes, C0123, Unordered, AsFlags, Flags, Ring!Codes, Ring!AsFlags, Ring!Unordered,
       Ring!Flags, Ring!C0123

LEMMA FTSTStep ==
  ASSUME UnitOK, FTST
  PROVE  UnitOK' /\ (Ring!Completion("FTST", 0, 0) \/ Ring!Faults(<<"FTST", 0, 0>>))
<1> DEFINE o == <<"FTST", 0, 0>>
<1>1. Starts(o) /\ eflags' = eflags /\ Shows(Unit, FromTOP)
  BY UnitShows DEF FTST, Starts, Runs, Keeps
<1>2. Ring!Needs(o) = {0} /\ {0} \in SUBSET Slots
  BY NeedsNamed, Ends
<1>3. CASE Missing({0})
  BY <1>1, <1>2, <1>3, MissingFaults
<1>4. CASE Present({0})
  <2>1. Ring!InUse(o) /\ ST(Unit, 0) = FromTOP[0]
    BY <1>1, <1>2, <1>4, PresentSeen, OperandsInUse
  <2>2. CASE ST(Unit, 0) = NaN /\ Stops("ArithmeticError")
    BY <1>1, <2>1, <2>2, StopsUnit DEF Ring!Faults, Starts
  <2>3. CASE ST(Unit, 0) # NaN /\ Becomes(Unit) /\ SetCodes(Codes(ST(Unit, 0), 0))
    <3>1. /\ UnitOK' /\ fault' = "None" /\ FromTOP' = FromTOP
          /\ FPU_PC(FPU_control)' = FPU_PC(FPU_control)
      BY <1>1, <2>3, BecomesShown
    <3>2. FPU_status' \cap Ring!C0123 = Ring!Codes(FromTOP[0], 0)
      BY <2>1, <2>3, CodesAreCodes DEF SetCodes
    <3>3. Ring!Completes(o) /\ Ring!KeepsControl
      BY <1>1, <2>1, <3>1, CompletesHere DEF Ring!KeepsControl
    <3> QED
      BY <2>1, <2>3, <3>1, <3>2, <3>3 DEF Ring!FTST, Ring!Completion
  <2> QED
    BY <1>4, <2>2, <2>3 DEF FTST, Missing
<1> QED
  BY <1>3, <1>4 DEF FTST

(* A comparison, as the table of formats has it.                           *)
Comparison(mode, i, u) == <<IF u THEN "FUCOM" ELSE "FCOM", mode, i>>

LEMMA ComparisonIs ==
  ASSUME NEW mode, NEW i, NEW u \in BOOLEAN
  PROVE  LET o == Comparison(mode, i, u)
         IN  /\ o[1] \in Ring!Comparisons /\ (o[1] = "FUCOM" <=> u) /\ (o[1] = "FCOM" <=> ~u)
             /\ o[2] = mode /\ o[3] = i
             /\ Ring!OnRegisters(o) <=> mode \in {0, 1, 2, 11, 12}
             /\ Ring!Needs(o) = IF mode \in {0, 1, 2, 11, 12} THEN {0, i} ELSE {0}
             /\ mode \in {13, 14, 15} => Ring!Undefined(o)
             /\ Ring!Pops(o) = IF mode = 2 THEN 2 ELSE IF mode \in {1, 4, 6, 8, 10, 12} THEN 1 ELSE 0
             /\ Ring!InFlags(o) <=> mode \in {11, 12}
BY DEF Comparison, Ring!Comparisons, Ring!OnRegisters, Ring!Needs, Ring!OfNone, Ring!OfTwo,
       Ring!Undefined, Ring!Pops, Ring!InFlags

(* The pops the program has for a mode.                                    *)
ProgramPops(mode) == IF mode \in {2, 10} THEN 2 ELSE IF mode \in {1, 4, 6, 9, 12} THEN 1 ELSE 0

LEMMA FCOMPopsShows ==
  ASSUME UnitOK, FromTOP[0] # Empty, NEW mode \in 0 .. 12
  PROVE  LET n == ProgramPops(mode)
             f == FCOMPops(Unit, mode)
         IN  /\ f \in Units
             /\ (n = 2 => FromTOP[1] # Empty) => Shows(f, Ring!PoppedTimes(FromTOP, n))
             /\ n = 2 /\ FromTOP[1] = Empty => f.error = "FPUStackUnderflow"
<1> DEFINE n == ProgramPops(mode)
           f == FCOMPops(Unit, mode)
<1>1. Shows(Unit, FromTOP) /\ Unit \in Units
  BY UnitShows DEF Shows
<1>2. n = IF mode \in {2, 10} THEN 2 ELSE IF mode \in {1, 4, 6, 9, 12} THEN 1 ELSE 0
  BY DEF ProgramPops
<1>3. /\ mode % 8 = 2 <=> mode \in {2, 10}
      /\ mode % 8 \in {1, 4, 6} <=> mode \in {1, 4, 6, 9, 12}
  BY SMT
<1>4. CASE mode \in {2, 10}
  <2>1. n = 2 /\ f = PopTwice(Unit)
    BY <1>2, <1>3, <1>4 DEF FCOMPops
  <2> QED
    BY <1>1, <2>1, PopTwiceShows DEF Ring!PoppedTimes
<1>5. CASE mode \in {1, 4, 6, 9, 12}
  <2>1. n = 1 /\ f = PopFPU(Unit)
    BY <1>2, <1>3, <1>5 DEF FCOMPops
  <2> QED
    BY <1>1, <2>1, PopShows DEF Ring!PoppedTimes
<1>6. CASE mode \notin {2, 10} /\ mode \notin {1, 4, 6, 9, 12}
  <2>1. n = 0 /\ f = Unit
    BY <1>2, <1>3, <1>6 DEF FCOMPops
  <2> QED
    BY <1>1, <2>1 DEF Ring!PoppedTimes
<1> QED
  BY <1>4, <1>5, <1>6

(* A comparison with the pops and the flags of the program is the one the  *)
(* table has, or one of those it misreads.                                 *)
LEMMA ComparesOrMisread ==
  ASSUME NEW mode \in 0 .. 12, NEW i \in Slots, NEW u \in BOOLEAN, instr' = Comparison(mode, i, u),
         Ring!Compares(Comparison(mode, i, u), ProgramPops(mode),
                       mode \in {11, 12} /\ i = 0 /\ ~u)
  PROVE  Ring!FCOM(Comparison(mode, i, u)) \/ Misread
<1> DEFINE o == Comparison(mode, i, u)
           e == mode \in {11, 12} /\ i = 0 /\ ~u
<1>1. /\ o[1] \in Ring!Comparisons /\ (o[1] = "FUCOM" <=> u) /\ o[2] = mode /\ o[3] = i
      /\ Ring!Pops(o) = IF mode = 2 THEN 2 ELSE IF mode \in {1, 4, 6, 8, 10, 12} THEN 1 ELSE 0
      /\ Ring!InFlags(o) <=> mode \in {11, 12}
  BY ComparisonIs
<1>2. Ring!Compares(o, ProgramPops(mode), e) /\ instr' = o
  OBVIOUS
<1>3. ProgramPops(mode) = IF mode \in {2, 10} THEN 2 ELSE IF mode \in {1, 4, 6, 9, 12} THEN 1 ELSE 0
  BY DEF ProgramPops
<1> HIDE DEF o
<1>4. CASE mode \in {8, 9, 10}
  <2>1. e = FALSE
    BY <1>4
  <2>2. Ring!Compares(o, ProgramPops(mode), FALSE)
    BY <1>2, <2>1
  <2>3. CASE mode = 8
    <3>1. ProgramPops(mode) = 0
      BY <1>3, <2>3
    <3>2. Ring!Compares(o, 0, FALSE)
      BY <2>2, <3>1
    <3> QED
      BY <1>1, <1>2, <2>3, <3>2 DEF Misread
  <2>4. CASE mode = 9
    <3>1. ProgramPops(mode) = 1
      BY <1>3, <2>4
    <3>2. Ring!Compares(o, 1, FALSE)
      BY <2>2, <3>1
    <3> QED
      BY <1>1, <1>2, <2>4, <3>2 DEF Misread
  <2>5. CASE mode = 10
    <3>1. ProgramPops(mode) = 2
      BY <1>3, <2>5
    <3>2. Ring!Compares(o, 2, FALSE)
      BY <2>2, <3>1
    <3> QED
      BY <1>1, <1>2, <2>5, <3>2 DEF Misread
  <2> QED
    BY <1>4, <2>3, <2>4, <2>5
<1>5. CASE mode \notin {8, 9, 10}
  <2>1. ProgramPops(mode) = Ring!Pops(o)
    BY <1>1, <1>3, <1>5
  <2>2. CASE mode \in {11, 12} /\ (u \/ i # 0)
    <3>1. e = FALSE
      BY <2>2
    <3>2. Ring!Compares(o, Ring!Pops(o), FALSE)
      BY <1>2, <2>1, <3>1
    <3> QED
      BY <1>1, <1>2, <2>2, <3>2 DEF Misread
  <2>3. CASE ~(mode \in {11, 12} /\ (u \/ i # 0))
    <3>1. e = Ring!InFlags(o)
      <4>1. Ring!InFlags(o) \in BOOLEAN /\ e \in BOOLEAN
        BY DEF Ring!InFlags
      <4> QED
        BY <1>1, <2>3, <4>1
    <3>2. Ring!Compares(o, Ring!Pops(o), Ring!InFlags(o))
      BY <1>2, <2>1, <3>1
    <3> QED
      BY <3>2 DEF Ring!FCOM, o
  <2> QED
    BY <2>2, <2>3
<1> QED
  BY <1>4, <1>5

LEMMA FCOMStep ==
  ASSUME UnitOK, NEW mode \in 0 .. 15, NEW i \in Slots, NEW u \in BOOLEAN, FCOM(mode, i, u)
  PROVE  LET o == Comparison(mode, i, u)
         IN  UnitOK' /\ (Ring!FCOM(o) \/ Ring!Faults(o) \/ Misread)
<1> DEFINE o == Comparison(mode, i, u)
           registers == mode \in {0, 1, 2, 11, 12}
           S == IF registers THEN {0, i} ELSE {0}
           f == FCOMPops(Unit, mode)
           a == ST(Unit, 0)
           e == mode \in {11, 12} /\ i = 0 /\ ~u
<1>1. Starts(o)
  BY DEF FCOM, Starts, Runs, Comparison
<1>2. Ring!Needs(o) = S /\ S \in SUBSET Slots /\ 0 \in S /\ (Ring!OnRegisters(o) <=> registers)
  BY ComparisonIs, Ends
<1>3. CASE Missing(S)
  BY <1>1, <1>2, <1>3, MissingFaults
<1>4. CASE Present(S)
  <2>1. Ring!InUse(o) /\ FromTOP[0] # Empty /\ a = FromTOP[0]
    BY <1>1, <1>2, <1>4, PresentSeen, OperandsInUse
  <2>2. registers => ST(Unit, i) = FromTOP[i]
    BY <1>2, <1>4, PresentSeen
  <2>3. CASE ~registers /\ NoAccess
    BY <1>1, <1>2, <2>1, <2>3, AccessFaults
  <2>4. CASE mode > 12 /\ Stops("UndefinedBehavior")
    <3>1. mode \in {13, 14, 15}
      BY <2>4
    <3> QED
      BY <1>1, <2>1, <2>4, <3>1, UndefinedFaults, ComparisonIs
  <2>5. ASSUME NEW b \in IF registers THEN {ST(Unit, i)} ELSE Operands,
               Unordered(a, b), ~u, Stops("ArithmeticError")
        PROVE  UnitOK' /\ Ring!Faults(o)
    <3>1. UnitOK' /\ fault' = "ArithmeticError"
      BY <1>1, <2>5, StopsUnit DEF Starts
    <3>2. o[1] = "FCOM" /\ o[3] = i
      BY <2>5, ComparisonIs
    <3>3. Ring!OnRegisters(o) => Ring!Unordered(FromTOP[0], FromTOP[o[3]])
      BY <1>2, <2>1, <2>2, <2>5, <3>2 DEF Unordered, Ring!Unordered
    <3> QED
      BY <1>1, <2>1, <3>1, <3>2, <3>3 DEF Ring!Faults, Starts
  <2>6. ASSUME mode < 13, NEW b \in IF registers THEN {ST(Unit, i)} ELSE Operands,
               Unordered(a, b) => u,
               IF e
               THEN eflags' = AsFlags(a, b) /\ FPU_status' = FPU_status \ {"C1"}
               ELSE SetCodes(Codes(a, b)) /\ UNCHANGED eflags,
               Becomes(f)
        PROVE  UnitOK' /\ (Ring!FCOM(o) \/ Ring!Faults(o) \/ Misread)
    <3> DEFINE n == ProgramPops(mode)
    <3>1. mode \in 0 .. 12
      BY <2>6
    <3>2. /\ f \in Units
          /\ (n = 2 => FromTOP[1] # Empty) => Shows(f, Ring!PoppedTimes(FromTOP, n))
          /\ n = 2 /\ FromTOP[1] = Empty => f.error = "FPUStackUnderflow"
      BY <2>1, <3>1, FCOMPopsShows
    <3>3. e \in BOOLEAN /\ instr' = o
      BY <1>1 DEF Starts
    <3>4. /\ o[1] \in Ring!Comparisons /\ (o[1] = "FUCOM" <=> u) /\ o[2] = mode /\ o[3] = i
          /\ Ring!Pops(o) = IF mode = 2 THEN 2 ELSE IF mode \in {1, 4, 6, 8, 10, 12} THEN 1 ELSE 0
      BY ComparisonIs
    <3>5. n = 2 => mode \in {2, 10}
      BY DEF ProgramPops
    <3> HIDE DEF f, o, S, registers, n, e
    <3>6. CASE n = 2 /\ FromTOP[1] = Empty
      <4>1. UnitOK' /\ fault' = "FPUStackUnderflow"
        BY <2>6, <3>2, <3>6, BecomesUnit
      <4>2. Ring!Underflows(o, 2)
        BY <1>1, <2>1, <3>3, <3>6, <4>1 DEF Ring!Underflows, Starts
      <4>3. CASE mode = 2
        BY <1>1, <3>3, <3>4, <4>1, <4>2, <4>3 DEF Ring!Faults, Starts
      <4>4. CASE mode = 10
        BY <3>3, <3>4, <4>1, <4>2, <4>4 DEF Misread
      <4> QED
        BY <3>5, <3>6, <4>3, <4>4
    <3>7. CASE n = 2 => FromTOP[1] # Empty
      <4>1. /\ UnitOK' /\ fault' = "None" /\ FromTOP' = Ring!PoppedTimes(FromTOP, n)
            /\ FPU_PC(FPU_control)' = FPU_PC(FPU_control)
        BY <2>6, <3>2, <3>7, BecomesShown
      <4>2. Ring!Completes(o)
        BY <1>1, <2>1, <4>1, CompletesHere
      <4>3. /\ b \in IF Ring!OnRegisters(o) THEN {FromTOP[o[3]]} ELSE Values
            /\ Ring!Unordered(FromTOP[0], b) => o[1] = "FUCOM"
        BY <1>2, <2>1, <2>2, <2>6, <3>4, UnitAssumption DEF Unordered, Ring!Unordered
      <4>4. Ring!Answer(FromTOP[0], b, e)
        <5>1. CASE e
          BY <2>1, <2>6, <5>1, CodesAreCodes DEF Ring!Answer
        <5>2. CASE ~e
          <6>1. FPU_status' = (FPU_status \ C0123) \cup Codes(a, b) /\ eflags' = eflags
            BY <2>6, <5>2 DEF SetCodes
          <6>2. FPU_status' \cap Ring!C0123 = Ring!Codes(FromTOP[0], b)
            BY <2>1, <6>1, CodesAreCodes
          <6> QED
            BY <5>2, <6>1, <6>2 DEF Ring!Answer
        <5> QED
          BY <5>1, <5>2
      <4>5. Ring!Compares(o, n, e)
        BY <3>7, <4>1, <4>2, <4>3, <4>4 DEF Ring!Compares
      <4> QED
        BY <3>1, <3>3, <4>1, <4>5, ComparesOrMisread DEF o, n, e
    <3> QED
      BY <3>6, <3>7
  <2> QED
    BY <1>4, <2>3, <2>4, <2>5, <2>6 DEF FCOM, Missing
<1> QED
  BY <1>3, <1>4 DEF FCOM

LEMMA FINCDECSTPStep ==
  ASSUME UnitOK, NEW down \in 0 .. 1, FINCDECSTP(down)
  PROVE  UnitOK' /\ Ring!Completion("FINCDECSTP", down, 0)
<1> DEFINE o == <<"FINCDECSTP", down, 0>>
           n == IF down = 1 THEN -1 ELSE 1
<1>1. Starts(o) /\ eflags' = eflags /\ Shows(Unit, FromTOP) /\ Ring!InUse(o)
  BY UnitShows, NeedsNamed DEF FINCDECSTP, Starts, Runs, Keeps, Ring!InUse, Ring!OfNone
<1>2. Shows(Turn(Unit, n), Ring!Turned(FromTOP, n))
  BY <1>1, TurnShows
<1>3. /\ UnitOK' /\ fault' = "None" /\ FromTOP' = Ring!Turned(FromTOP, n)
      /\ FPU_PC(FPU_control)' = FPU_PC(FPU_control)
  BY <1>2, BecomesShown DEF FINCDECSTP
<1>4. Ring!Completes(o) /\ Ring!KeepsControl
  BY <1>1, <1>3, CompletesHere DEF Ring!KeepsControl
<1> QED
  BY <1>3, <1>4 DEF Ring!FINCDECSTP, Ring!Completion

LEMMA FFREEStep ==
  ASSUME UnitOK, NEW i \in Slots, FFREE(i)
  PROVE  UnitOK' /\ Ring!Completion("FFREE", 0, i)
<1> DEFINE o == <<"FFREE", 0, i>>
<1>1. Starts(o) /\ eflags' = eflags /\ Shows(Unit, FromTOP) /\ Ring!InUse(o)
  BY UnitShows, NeedsNamed DEF FFREE, Starts, Runs, Keeps, Ring!InUse, Ring!OfNone
<1>2. Shows(Freed(Unit, i), [FromTOP EXCEPT ![i] = Empty])
  BY <1>1, FreedShows
<1>3. /\ UnitOK' /\ fault' = "None" /\ FromTOP' = [FromTOP EXCEPT ![i] = Empty]
      /\ FPU_PC(FPU_control)' = FPU_PC(FPU_control)
  BY <1>2, BecomesShown DEF FFREE
<1>4. Ring!Completes(o) /\ Ring!KeepsControl
  BY <1>1, <1>3, CompletesHere DEF Ring!KeepsControl
<1> QED
  BY <1>3, <1>4 DEF Ring!FFREE, Ring!Completion

LEMMA FCLEXStep ==
  ASSUME UnitOK, FCLEX
  PROVE  UnitOK' /\ Ring!Completion("FCLEX", 0, 0)
<1> DEFINE o == <<"FCLEX", 0, 0>>
<1>1. Starts(o) /\ eflags' = eflags /\ Shows(Unit, FromTOP) /\ Ring!InUse(o)
  BY UnitShows, NeedsNamed DEF FCLEX, Starts, Runs, Keeps, Ring!InUse, Ring!OfNone
<1>2. /\ UnitOK' /\ fault' = "None" /\ FromTOP' = FromTOP
      /\ FPU_PC(FPU_control)' = FPU_PC(FPU_control)
  BY <1>1, BecomesShown DEF FCLEX
<1>3. Ring!Completes(o) /\ Ring!KeepsControl
  BY <1>1, <1>2, CompletesHere DEF Ring!KeepsControl
<1> QED
  BY <1>2, <1>3 DEF Ring!FCLEX, Ring!Completion

(* Setting several fields of the unit at once.                             *)
UnitOf(r, c, t, e) == [reg |-> r, control |-> c, tag |-> t, error |-> e]
WithControl(f, c) == [f EXCEPT !.control = c]
WithTag(f, t) == [f EXCEPT !.tag = t]
WithError(f, e) == [f EXCEPT !.error = e]

LEMMA OneField ==
  ASSUME NEW r, NEW c, NEW t, NEW e, NEW v
  PROVE  /\ WithControl(UnitOf(r, c, t, e), v) = UnitOf(r, v, t, e)
         /\ WithTag(UnitOf(r, c, t, e), v) = UnitOf(r, c, v, e)
         /\ WithError(UnitOf(r, c, t, e), v) = UnitOf(r, c, t, v)
BY SMT DEF UnitOf, WithControl, WithTag, WithError

LEMMA SeveralFields ==
  ASSUME NEW c, NEW t, NEW e
  PROVE  /\ [Unit EXCEPT !.control = c, !.tag = t] = UnitOf(FPURegisters, c, t, "None")
         /\ [Unit EXCEPT !.control = c, !.tag = t, !.error = e] = UnitOf(FPURegisters, c, t, e)
<1>1. [Unit EXCEPT !.control = c, !.tag = t] = WithTag(WithControl(Unit, c), t)
  BY SMT DEF Unit, WithControl, WithTag
<1>2. [Unit EXCEPT !.control = c, !.tag = t, !.error = e]
        = WithError(WithTag(WithControl(Unit, c), t), e)
  BY SMT DEF Unit, WithControl, WithTag, WithError
<1>3. Unit = UnitOf(FPURegisters, FPU_control, FPU_tag, "None")
  BY DEF Unit, UnitOf
<1> QED
  BY <1>1, <1>2, <1>3, OneField

LEMMA ResetUnit ==
  ASSUME UnitOK, Reset
  PROVE  /\ UnitOK' /\ fault' = "None" /\ FromTOP' = [i \in Slots |-> Empty]
         /\ FPU_PC(FPU_control)' = 3
<1> DEFINE f == [Unit EXCEPT !.control = 959, !.tag = AllEmpty]
<1>1. 959 \in Control /\ FPU_PC(959) = 3
  <2>1. 959 \in Control
    BY WordSize, SMT DEF Control
  <2>2. (959 \div 256) % 4 = 3
    BY SMT
  <2> QED
    BY <2>1, <2>2, FieldsAre
<1>2. AllEmpty \in [Regs -> 0 .. 3] /\ \A r \in Regs : AllEmpty[r] = EmptyTag
  BY SMT DEF AllEmpty, EmptyTag
<1>3. Becomes(f)
  BY DEF Reset
<1>4. f = [reg |-> FPURegisters, control |-> 959, tag |-> AllEmpty, error |-> "None"]
  <2>1. f = WithTag(WithControl(Unit, 959), AllEmpty)
    BY SMT DEF Unit, WithControl, WithTag
  <2>2. Unit = UnitOf(FPURegisters, FPU_control, FPU_tag, "None")
    BY DEF Unit, UnitOf
  <2> HIDE DEF f
  <2>3. f = UnitOf(FPURegisters, 959, AllEmpty, "None")
    BY <2>1, <2>2, OneField
  <2> QED
    BY <2>3 DEF UnitOf
<1> HIDE DEF f
<1>5. f \in Units
  BY <1>1, <1>2, <1>4 DEF Units, UnitOK, Errors
<1>6. \A i \in Slots : IsEmpty(f, i)
  BY <1>2, <1>4, <1>5, AtRegister DEF IsEmpty, Slots
<1>7. Seen(f) = [i \in Slots |-> Empty] /\ Precision(f) = 3
  BY <1>1, <1>4, <1>6 DEF Seen, Precision
<1>8. f.error = "None"
  BY <1>4
<1> QED
  BY <1>3, <1>5, <1>7, <1>8, BecomesUnit

LEMMA FINITStep ==
  ASSUME UnitOK, FINIT
  PROVE  UnitOK' /\ Ring!Completion("FINIT", 0, 0)
<1> DEFINE o == <<"FINIT", 0, 0>>
<1>1. Starts(o) /\ eflags' = eflags /\ Ring!InUse(o)
  BY NeedsNamed DEF FINIT, Starts, Runs, Keeps, Ring!InUse, Ring!OfNone
<1>2. /\ UnitOK' /\ fault' = "None" /\ FromTOP' = [i \in Slots |-> Empty]
      /\ FPU_PC(FPU_control)' = 3
  BY ResetUnit DEF FINIT
<1>3. Ring!Completes(o)
  BY <1>1, <1>2, CompletesHere
<1> QED
  BY <1>1, <1>2, <1>3 DEF Ring!FINIT, Ring!Completion, Ring!Slots, Slots

(* The loads and stores of the control state: what starts one, what makes  *)
(* it complete, and the fault of an access.                                *)
LEMMA FSTLDStarts ==
  ASSUME UnitOK, NEW mode, Runs("FSTLD", mode, 0)
  PROVE  LET o == <<"FSTLD", mode, 0>>
         IN Starts(o) /\ Ring!InUse(o) /\ ~Ring!OnRegisters(o) /\ o[1] = "FSTLD"
BY NeedsNamed DEF Starts, Runs, Ring!InUse, Ring!OfNone, Ring!OnRegisters, Ring!Comparisons

LEMMA FSTLDCompletes ==
  ASSUME UnitOK, NEW mode, Runs("FSTLD", mode, 0), eflags' = eflags, fault' = "None",
         \/ mode \in {0, 1, 2, 4, 5, 8} /\ FromTOP' = FromTOP
              /\ FPU_PC(FPU_control)' = FPU_PC(FPU_control)
         \/ mode = 3 /\ FPU_PC(FPU_control)' \in Precisions
              /\ \E k \in Slots : FromTOP' = Ring!Turned(FromTOP, k)
         \/ mode = 6 /\ FromTOP' = [i \in Slots |-> Empty] /\ FPU_PC(FPU_control)' = 3
         \/ mode = 7 /\ FPU_PC(FPU_control)' \in Precisions /\ FromTOP' \in [Slots -> Values]
         \/ mode = 9 /\ FPU_PC(FPU_control)' \in Precisions
              /\ FromTOP' \in [Slots -> Values \cup {Empty}]
  PROVE  Ring!Completion("FSTLD", mode, 0)
<1>1. Ring!Completes(<<"FSTLD", mode, 0>>)
  BY FSTLDStarts, CompletesHere
<1> QED
  BY <1>1 DEF Ring!Completion, Ring!FSTLD, Ring!Slots, Slots, Ring!Precisions, Precisions

LEMMA StoreStep ==
  ASSUME UnitOK, NEW mode \in {0, 1, 2, 4, 5, 8}, Store(mode)
  PROVE  UnitOK' /\ (Ring!Completion("FSTLD", mode, 0) \/ Ring!Faults(<<"FSTLD", mode, 0>>))
<1>1. Runs("FSTLD", mode, 0) /\ eflags' = eflags
  BY DEF Store, KeepsStatus, Keeps
<1>2. CASE Becomes(Unit)
  <2>1. /\ UnitOK' /\ fault' = "None" /\ FromTOP' = FromTOP
        /\ FPU_PC(FPU_control)' = FPU_PC(FPU_control)
    BY <1>2, UnitShows, BecomesShown
  <2> QED
    BY <1>1, <2>1, FSTLDCompletes
<1>3. CASE NoWrite
  <2> DEFINE o == <<"FSTLD", mode, 0>>
  <2>1. Starts(o) /\ Ring!InUse(o) /\ ~Ring!OnRegisters(o) /\ o[1] = "FSTLD"
    BY <1>1, FSTLDStarts
  <2> QED
    BY <1>3, <2>1, AccessFaults
<1> QED
  BY <1>2, <1>3 DEF Store, NoWrite

LEMMA FSAVEStep ==
  ASSUME UnitOK, FSAVE
  PROVE  UnitOK' /\ (Ring!Completion("FSTLD", 6, 0) \/ Ring!Faults(<<"FSTLD", 6, 0>>))
<1>1. Runs("FSTLD", 6, 0) /\ eflags' = eflags
  BY DEF FSAVE, Keeps
<1>2. CASE Reset
  BY <1>1, <1>2, ResetUnit, FSTLDCompletes
<1>3. CASE NoWrite
  <2> DEFINE o == <<"FSTLD", 6, 0>>
  <2>1. Starts(o) /\ Ring!InUse(o) /\ ~Ring!OnRegisters(o) /\ o[1] = "FSTLD"
    BY <1>1, FSTLDStarts
  <2> QED
    BY <1>3, <2>1, AccessFaults
<1> QED
  BY <1>2, <1>3 DEF FSAVE

LEMMA FSTLDUndefinedStep ==
  ASSUME UnitOK, FSTLDUndefined
  PROVE  UnitOK' /\ Ring!Faults(<<"FSTLD", 10, 0>>)
<1> DEFINE o == <<"FSTLD", 10, 0>>
<1>1. Starts(o) /\ Ring!InUse(o) /\ ~Ring!OnRegisters(o) /\ o[1] = "FSTLD"
  BY FSTLDStarts DEF FSTLDUndefined
<1>2. Ring!Undefined(o)
  BY SMT DEF Ring!Undefined
<1> QED
  BY <1>1, <1>2, AccessFaults, UndefinedFaults DEF FSTLDUndefined

LEMMA FLDCWStep ==
  ASSUME UnitOK, NEW m \in Image, FLDCW(m)
  PROVE  UnitOK' /\ (Ring!Completion("FSTLD", 3, 0) \/ Ring!Faults(<<"FSTLD", 3, 0>>))
<1> DEFINE f == [Unit EXCEPT !.control = m.control]
<1>1. Runs("FSTLD", 3, 0) /\ eflags' = eflags
  BY DEF FLDCW, KeepsStatus, Keeps
<1>2. CASE NoAccess
  <2> DEFINE o == <<"FSTLD", 3, 0>>
  <2>1. Starts(o) /\ Ring!InUse(o) /\ ~Ring!OnRegisters(o)
    BY <1>1, FSTLDStarts
  <2> QED
    BY <1>2, <2>1, AccessFaults
<1>3. CASE Becomes(f)
  <2>1. m.control \in Control /\ FPU_control \in Control
    BY DEF Image, Control, UnitOK
  <2>2. /\ f.reg = FPURegisters /\ f.control = m.control /\ f.tag = FPU_tag /\ f.error = "None"
        /\ f \in Units
    BY <2>1 DEF Unit, Units, UnitOK, Errors
  <2> HIDE DEF f
  <2> DEFINE t == FPU_TOP(FPU_control)
             u == FPU_TOP(m.control)
             k == (u - t) % NReg
  <2>3. t \in Slots /\ u \in Slots /\ FPU_PC(m.control) \in Precisions
    BY <2>1, FieldRanges
  <2>4. k \in Slots /\ \A i \in Slots : /\ (i + k) % NReg \in Slots
                                        /\ (t + ((i + k) % NReg)) % NReg = (u + i) % NReg
    <3> HIDE DEF t, u
    <3> USE DEF Slots
    <3>1. CASE NReg = 2
      BY <2>3, <3>1, Z3
    <3>2. CASE NReg = 4
      BY <2>3, <3>2, Z3
    <3>3. CASE NReg = 8
      BY <2>3, <3>3, Z3
    <3> QED
      BY <3>1, <3>2, <3>3, RegisterCount
  <2>5. Seen(f) = Ring!Turned(FromTOP, k)
    BY <2>2, <2>4 DEF Seen, Ring!Turned, Ring!Slots, Slots, FromTOP, IsEmpty, ST, At
  <2>6. /\ UnitOK' /\ fault' = "None" /\ FromTOP' = Ring!Turned(FromTOP, k)
        /\ FPU_PC(FPU_control)' \in Precisions
    BY <1>3, <2>2, <2>3, <2>5, BecomesUnit DEF Precision
  <2> QED
    BY <1>1, <2>4, <2>6, FSTLDCompletes
<1> QED
  BY <1>2, <1>3 DEF FLDCW

LEMMA EnvironmentUnit ==
  ASSUME UnitOK, NEW m \in Image, NEW reads \in Int
  PROVE  LET f == Environment(m, reads)
         IN  /\ f \in Units /\ Precision(f) \in Precisions
             /\ f.error = IF reads > 2 THEN "None" ELSE "OutOfBounds"
             /\ f.reg = FPURegisters
             /\ f.control = IF reads > 0 THEN m.control ELSE FPU_control
<1> DEFINE f == Environment(m, reads)
           c == IF reads > 0 THEN m.control ELSE FPU_control
           t == IF reads > 2 THEN m.tag ELSE FPU_tag
           e == IF reads > 2 THEN "None" ELSE "OutOfBounds"
<1>1. c \in Control /\ t \in [Regs -> 0 .. 3] /\ e \in Errors
  BY DEF Image, UnitOK, Control, Errors
<1>2. f = [reg |-> FPURegisters, control |-> c, tag |-> t, error |-> e]
  <2>1. f = [Unit EXCEPT !.control = c, !.tag = t, !.error = e]
    BY DEF Environment, Unit
  <2> HIDE DEF f, c, t, e
  <2> QED
    BY <2>1, SeveralFields DEF UnitOf
<1> HIDE DEF f, c, t, e
<1>3. f \in Units
  BY <1>1, <1>2 DEF Units, UnitOK
<1>4. Precision(f) \in Precisions
  BY <1>1, <1>2, FieldRanges DEF Precision
<1> QED
  BY <1>2, <1>3, <1>4 DEF f, c, e

LEMMA FLDENVStep ==
  ASSUME UnitOK, NEW m \in Image, NEW reads \in Int, FLDENV(m, reads)
  PROVE  UnitOK' /\ (Ring!Completion("FSTLD", 9, 0) \/ Ring!Faults(<<"FSTLD", 9, 0>>))
<1> DEFINE f == Environment(m, reads)
           o == <<"FSTLD", 9, 0>>
<1>1. Runs("FSTLD", 9, 0) /\ eflags' = eflags
  BY DEF FLDENV, Keeps
<1>2. /\ f \in Units /\ Precision(f) \in Precisions
      /\ f.error = IF reads > 2 THEN "None" ELSE "OutOfBounds"
  BY EnvironmentUnit
<1>3. Becomes(f)
  BY DEF FLDENV
<1> HIDE DEF f
<1>4. /\ UnitOK' /\ fault' = f.error /\ FromTOP' = Seen(f)
      /\ FPU_PC(FPU_control)' = Precision(f)
  BY <1>2, <1>3, BecomesUnit
<1>5. CASE reads > 2
  <2>1. Seen(f) \in [Slots -> Values \cup {Empty}]
    BY <1>2, SeenEmpty DEF Seen
  <2> QED
    BY <1>1, <1>2, <1>4, <1>5, <2>1, FSTLDCompletes
<1>6. CASE ~(reads > 2)
  <2>1. Starts(o) /\ Ring!InUse(o) /\ ~Ring!OnRegisters(o)
    BY <1>1, FSTLDStarts
  <2> QED
    BY <1>2, <1>4, <1>6, <2>1 DEF Ring!Faults, Starts
<1> QED
  BY <1>5, <1>6

(* FRSTOR leaves no register empty, whatever the tags in memory say.       *)
LEMMA RestoredUnit ==
  ASSUME UnitOK, NEW m \in Image, NEW n \in Int
  PROVE  LET f == Restored(m, n)
         IN  /\ f \in Units /\ Precision(f) \in Precisions /\ f.error = "None"
             /\ n = NReg => Seen(f) \in [Slots -> Values]
<1> DEFINE env == Environment(m, 3)
           top == FPU_TOP(m.control)
           assigned(r) == (r - top) % NReg < n
           rounded(r) == Rounded(m.st[(r - top) % NReg], FPU_PC(m.control))
           reg == [r \in Regs |-> IF assigned(r) THEN rounded(r) ELSE env.reg[r]]
           tag == [r \in Regs |-> IF assigned(r) THEN ComputeFPUTag(rounded(r)) ELSE env.tag[r]]
           f == Restored(m, n)
<1>1. env \in Units /\ Precision(env) \in Precisions /\ env.error = "None" /\ env.control = m.control
  <2>1. 3 \in Int /\ 3 > 2 /\ 3 > 0
    BY SMT
  <2> QED
    BY <2>1, EnvironmentUnit
<1>2. f = [env EXCEPT !.reg = reg, !.tag = tag]
  BY DEF Restored
<1>3. \A r \in Regs : (r - top) % NReg \in Slots
  <2>1. top \in Slots
    BY FieldRanges DEF Image, Control
  <2> HIDE DEF top
  <2>2. \A r \in Regs : r - top \in Int
    BY <2>1, SMT DEF Slots, Regs
  <2> QED
    BY <2>2, Remainder
<1>4. \A r \in Regs : /\ rounded(r) \in Values
                      /\ ComputeFPUTag(rounded(r)) \in 0 .. 3
                      /\ ComputeFPUTag(rounded(r)) # EmptyTag
  BY <1>3, RoundedValue, TagOfValue DEF Image
<1> HIDE DEF env, top, rounded
<1>5. reg \in [Regs -> Values] /\ tag \in [Regs -> 0 .. 3]
  BY <1>1, <1>4 DEF Units
<1>6. n = NReg => \A r \in Regs : tag[r] # EmptyTag
  <2>1. n = NReg => \A r \in Regs : assigned(r)
    BY <1>3, FpuAssumption, SMT DEF Slots
  <2> HIDE DEF assigned
  <2> QED
    BY <1>4, <2>1
<1> HIDE DEF reg, tag, f
<1>7. f = [reg |-> reg, control |-> env.control, tag |-> tag, error |-> env.error]
  BY <1>1, <1>2 DEF Units
<1>8. f \in Units /\ Precision(f) = Precision(env) /\ f.error = "None"
  BY <1>1, <1>5, <1>7 DEF Units, Precision
<1>9. n = NReg => Seen(f) \in [Slots -> Values]
  <2>1. ASSUME n = NReg, NEW i \in Slots
        PROVE  ~IsEmpty(f, i)
    BY <1>6, <1>7, <1>8, <2>1, AtRegister DEF IsEmpty, Slots
  <2> QED
    BY <1>8, <2>1, SeenEmpty DEF Seen
<1> QED
  BY <1>1, <1>8, <1>9 DEF f

LEMMA FRSTORStep ==
  ASSUME UnitOK, NEW m \in Image, NEW reads \in Int, FRSTOR(m, reads)
  PROVE  UnitOK' /\ (Ring!Completion("FSTLD", 7, 0) \/ Ring!Faults(<<"FSTLD", 7, 0>>))
<1> DEFINE o == <<"FSTLD", 7, 0>>
<1>1. Runs("FSTLD", 7, 0) /\ eflags' = eflags
  BY DEF FRSTOR, Keeps
<1>2. Starts(o) /\ Ring!InUse(o) /\ ~Ring!OnRegisters(o)
  BY <1>1, FSTLDStarts
<1>3. ASSUME NEW f \in Units, f.error = "OutOfBounds", Becomes(f)
      PROVE  UnitOK' /\ Ring!Faults(o)
  BY <1>2, <1>3, BecomesUnit DEF Ring!Faults, Starts
<1>4. CASE reads < 3 /\ Becomes(Environment(m, reads))
  BY <1>3, <1>4, EnvironmentUnit
<1>5. CASE reads < 3 + NReg /\ Becomes(Failed(Restored(m, reads - 3), "OutOfBounds"))
  <2> DEFINE g == Restored(m, reads - 3)
  <2>1. g \in Units
    BY RestoredUnit
  <2> HIDE DEF g
  <2>2. Failed(g, "OutOfBounds") \in Units /\ Failed(g, "OutOfBounds").error = "OutOfBounds"
    BY <2>1 DEF Units, Failed, Errors
  <2> QED
    BY <1>3, <1>5, <2>2 DEF g
<1>6. CASE Becomes(Restored(m, NReg))
  <2> DEFINE f == Restored(m, NReg)
  <2>1. /\ f \in Units /\ Precision(f) \in Precisions /\ f.error = "None"
        /\ Seen(f) \in [Slots -> Values]
    BY RestoredUnit, FpuAssumption
  <2> HIDE DEF f
  <2>2. /\ UnitOK' /\ fault' = "None" /\ FromTOP' = Seen(f)
        /\ FPU_PC(FPU_control)' = Precision(f)
    BY <1>6, <2>1, BecomesUnit DEF f
  <2> QED
    BY <1>1, <2>1, <2>2, FSTLDCompletes
<1> QED
  BY <1>4, <1>5, <1>6 DEF FRSTOR

-----------------------------------------------------------------------------
(* A step of the unit is a step of the ring.                               *)

LEMMA RingStep ==
  ASSUME NEW name, NEW mode, NEW i, instr' = <<name, mode, i>>,
         Ring!Completion(name, mode, i) \/ Ring!Faults(<<name, mode, i>>)
  PROVE  Ring!Next
BY DEF Ring!Next

LEMMA NextStep ==
  ASSUME UnitOK, Next
  PROVE  UnitOK' /\ (Ring!Next \/ Misread)
<1>1. ASSUME NEW ext \in {0, 7}, FLD_const(ext)
      PROVE  UnitOK' /\ Ring!Next
  BY <1>1, FLDconstStep, RingStep DEF FLD_const, Runs
<1>2. ASSUME NEW mode \in 0 .. 7, NEW i \in Slots, FLD(mode, i)
      PROVE  UnitOK' /\ Ring!Next
  BY <1>2, FLDStep, RingStep DEF FLD, Runs
<1>3. ASSUME NEW mode \in 0 .. 15, NEW i \in Slots, FST(mode, i)
      PROVE  UnitOK' /\ Ring!Next
  BY <1>3, FSTStep, RingStep DEF FST, Runs
<1>4. ASSUME NEW i \in Slots, FXCH(i)
      PROVE  UnitOK' /\ Ring!Next
  BY <1>4, FXCHStep, RingStep DEF FXCH, Runs
<1>5. ASSUME NEW i \in Slots, FFREE(i)
      PROVE  UnitOK' /\ Ring!Next
  BY <1>5, FFREEStep, RingStep DEF FFREE, Runs
<1>6. ASSUME NEW taken \in 0 .. 1, NEW i \in Slots, FMOVcc(taken, i)
      PROVE  UnitOK' /\ Ring!Next
  BY <1>6, FMOVccStep, RingStep DEF FMOVcc, Runs
<1>7. ASSUME NEW mode \in {0, 1, 2, 3, 7}, NEW i \in Slots, FADD(mode, i)
      PROVE  UnitOK' /\ Ring!Next
  BY <1>7, FADDStep, RingStep DEF FADD, Runs
<1>8. ASSUME F2XM1 \/ FABS \/ FPREM \/ FYL2X \/ FSINCOS \/ FXAM \/ FTST
      PROVE  UnitOK' /\ Ring!Next
  <2>1. CASE F2XM1
    BY <2>1, F2XM1Step, RingStep DEF F2XM1, Runs
  <2>2. CASE FABS
    BY <2>2, FABSStep, RingStep DEF FABS, Runs
  <2>3. CASE FPREM
    BY <2>3, FPREMStep, RingStep DEF FPREM, Runs
  <2>4. CASE FYL2X
    BY <2>4, FYL2XStep, RingStep DEF FYL2X, Runs
  <2>5. CASE FSINCOS
    BY <2>5, FSINCOSStep, RingStep DEF FSINCOS, Runs
  <2>6. CASE FXAM
    BY <2>6, FXAMStep, RingStep DEF FXAM, Runs
  <2>7. CASE FTST
    BY <2>7, FTSTStep, RingStep DEF FTST, Runs
  <2> QED
    BY <1>8, <2>1, <2>2, <2>3, <2>4, <2>5, <2>6, <2>7
<1>9. ASSUME NEW mode \in 0 .. 15, NEW i \in Slots, NEW u \in BOOLEAN, FCOM(mode, i, u)
      PROVE  UnitOK' /\ (Ring!Next \/ Misread)
  <2> DEFINE o == Comparison(mode, i, u)
  <2>1. instr' = o /\ o = <<o[1], o[2], o[3]>> /\ o[1] \in Ring!Comparisons
    BY <1>9 DEF FCOM, Runs, Comparison, Ring!Comparisons
  <2>2. UnitOK' /\ (Ring!FCOM(o) \/ Ring!Faults(o) \/ Misread)
    BY <1>9, FCOMStep
  <2> HIDE DEF o
  <2>3. Ring!FCOM(o) => Ring!Completion(o[1], o[2], o[3])
    BY <2>1 DEF Ring!Completion
  <2> QED
    BY <2>1, <2>2, <2>3, RingStep
<1>10. ASSUME NEW down \in 0 .. 1, FINCDECSTP(down)
       PROVE  UnitOK' /\ Ring!Next
  BY <1>10, FINCDECSTPStep, RingStep DEF FINCDECSTP, Runs
<1>11. CASE FINIT
  BY <1>11, FINITStep, RingStep DEF FINIT, Runs
<1>12. CASE FCLEX
  BY <1>12, FCLEXStep, RingStep DEF FCLEX, Runs
<1>13. CASE ProcessFSTLD_WORD
  <2>1. ASSUME NEW mode \in {0, 1, 2, 4, 5, 8}, Store(mode)
        PROVE  UnitOK' /\ Ring!Next
    BY <2>1, StoreStep, RingStep DEF Store, Runs
  <2>2. CASE FSAVE
    BY <2>2, FSAVEStep, RingStep DEF FSAVE, Runs
  <2>3. CASE FSTLDUndefined
    BY <2>3, FSTLDUndefinedStep, RingStep DEF FSTLDUndefined, Runs
  <2>4. ASSUME NEW m \in Image, FLDCW(m)
        PROVE  UnitOK' /\ Ring!Next
    BY <2>4, FLDCWStep, RingStep DEF FLDCW, Runs
  <2>5. ASSUME NEW m \in Image, NEW reads \in Int, FRSTOR(m, reads)
        PROVE  UnitOK' /\ Ring!Next
    BY <2>5, FRSTORStep, RingStep DEF FRSTOR, Runs
  <2>6. ASSUME NEW m \in Image, NEW reads \in Int, FLDENV(m, reads)
        PROVE  UnitOK' /\ Ring!Next
    BY <2>6, FLDENVStep, RingStep DEF FLDENV, Runs
  <2>7. Images \subseteq Image /\ 0 .. (3 + NReg) \subseteq Int
    BY UnitAssumption
  <2> QED
    BY <1>13, <2>1, <2>2, <2>3, <2>4, <2>5, <2>6, <2>7 DEF ProcessFSTLD_WORD
<1>14. 0 \in Slots /\ \A k \in 0 .. 15 : k \in Int
  BY Ends
<1> QED
  <2>1. CASE \E i \in Slots : FLD(0, i) \/ FST(0, i) \/ FST(1, i) \/ FXCH(i) \/ FFREE(i)
    BY <1>2, <1>3, <1>4, <1>5, <2>1
  <2>2. CASE \E mode \in {1, 6} : FLD(mode, 0)
    BY <1>2, <1>14, <2>2
  <2>3. CASE \E mode \in 2 .. 15 : FST(mode, 0)
    BY <1>3, <1>14, <2>3
  <2>4. CASE \E i \in Slots, mode \in 0 .. 2 : FADD(mode, i)
    BY <1>7, <2>4
  <2>5. CASE \E mode \in {3, 7} : FADD(mode, 0)
    BY <1>7, <1>14, <2>5
  <2>6. CASE \E i \in Slots, mode \in {0, 1, 2, 11, 12}, u \in BOOLEAN : FCOM(mode, i, u)
    BY <1>9, <2>6
  <2>7. CASE \E mode \in (3 .. 15) \ {11, 12}, u \in BOOLEAN : FCOM(mode, 0, u)
    BY <1>9, <1>14, <2>7
  <2> QED
    BY <1>1, <1>6, <1>8, <1>10, <1>11, <1>12, <1>13,
       <2>1, <2>2, <2>3, <2>4, <2>5, <2>6, <2>7 DEF Next

-----------------------------------------------------------------------------
(* Types.                                                                  *)

StatusOK ==
  /\ FPU_status \subseteq C0123 \cup {"low"} /\ eflags \subseteq Flags
  /\ host_rounding \in 0 .. 3

LEMMA TypeParts == TypeOK <=> UnitOK /\ StatusOK
BY DEF TypeOK, UnitOK, StatusOK, Control

(* Setting condition codes leaves the rest of the status word.             *)
LEMMA CodesSet ==
  ASSUME StatusOK
  PROVE  /\ \A codes \in SUBSET C0123 : SetCodes(codes) => FPU_status' \subseteq C0123 \cup {"low"}
         /\ DrawCodes \/ DrawCodesC1 => FPU_status' \subseteq C0123 \cup {"low"}
<1>1. \A codes \in SUBSET C0123 : SetCodes(codes) => FPU_status' \subseteq C0123 \cup {"low"}
  BY DEF StatusOK, SetCodes
<1>2. \A d \in Draws : d \in SUBSET C0123 /\ d \ {"C1"} \in SUBSET C0123
  BY UnitAssumption
<1> QED
  BY <1>1, <1>2 DEF DrawCodes, DrawCodesC1

LEMMA StatusStep ==
  ASSUME UnitOK, StatusOK, Next
  PROVE  StatusOK'
<1> DEFINE S == FPU_status' \subseteq C0123 \cup {"low"}
           F == eflags' \subseteq Flags
           R == host_rounding' \in 0 .. 3
<1>1. /\ UNCHANGED FPU_status => S
      /\ UNCHANGED eflags => F
      /\ UNCHANGED host_rounding => R
      /\ Keeps => F /\ R
      /\ KeepsStatus => S /\ F /\ R
      /\ PerformRoundTrip => R
  <2>1. FPU_RC(FPU_control) \in 0 .. 3
    BY FieldRanges DEF UnitOK
  <2> QED
    BY <2>1 DEF StatusOK, Keeps, KeepsStatus, PerformRoundTrip
<1>2. DrawCodes \/ DrawCodesC1 => S
  BY CodesSet
<1>3. Reset => S
  BY DEF Reset
<1>4. ASSUME NEW m \in Image, NEW reads, LoadsStatus(m, reads)
      PROVE  S
  BY <1>4 DEF LoadsStatus, Image, StatusOK
<1> HIDE DEF S, F, R
<1>5. ASSUME NEW ext, FLD_const(ext)
      PROVE  S /\ F /\ R
  BY <1>1, <1>2, <1>5 DEF FLD_const
<1>6. ASSUME NEW mode, NEW i, FLD(mode, i)
      PROVE  S /\ F /\ R
  BY <1>1, <1>2, <1>6 DEF FLD
<1>7. ASSUME NEW mode, NEW i, FST(mode, i)
      PROVE  S /\ F /\ R
  BY <1>1, <1>2, <1>7 DEF FST
<1>8. ASSUME NEW i, FXCH(i) \/ FFREE(i)
      PROVE  S /\ F /\ R
  BY <1>1, <1>2, <1>8 DEF FXCH, FFREE
<1>9. ASSUME NEW mode, NEW i, FMOVcc(mode, i) \/ FADD(mode, i)
      PROVE  S /\ F /\ R
  BY <1>1, <1>2, <1>9 DEF FMOVcc, FADD
<1>10. F2XM1 \/ FYL2X \/ FSINCOS => S /\ F /\ R
  BY <1>1, <1>2 DEF F2XM1, FYL2X, FSINCOS
<1>11. FABS => S /\ F /\ R
  BY <1>1, <1>2 DEF FABS
<1>12. FPREM => S /\ F /\ R
  <2>1. host_rounding' \in {host_rounding, 0} => R
    BY <1>1 DEF R
  <2> QED
    BY <1>1, <1>2, <2>1 DEF FPREM
<1>13. FXAM => S /\ F /\ R
  <2>1. ASSUME NEW codes \in Classes(Unit), NEW sign \in {{}, {"C1"}}
        PROVE  codes \cup sign \in SUBSET C0123
    BY DEF Classes, C0123
  <2> QED
    BY <1>1, <2>1, CodesSet DEF FXAM, S
<1>14. FTST => S /\ F /\ R
  <2>1. Codes(ST(Unit, 0), 0) \in SUBSET C0123
    BY CodesAreCodes
  <2> QED
    BY <1>1, <2>1, CodesSet DEF FTST, S
<1>15. ASSUME NEW mode, NEW i, NEW u, FCOM(mode, i, u)
       PROVE  S /\ F /\ R
  <2>1. \A a, b : Codes(a, b) \in SUBSET C0123 /\ AsFlags(a, b) \subseteq Flags
    BY CodesAreCodes
  <2>2. \A a, b : SetCodes(Codes(a, b)) => S
    BY <2>1, CodesSet DEF S
  <2>3. \A a, b : eflags' = AsFlags(a, b) => F
    BY <2>1 DEF F
  <2>4. FPU_status' = FPU_status \ {"C1"} => S
    BY DEF S, StatusOK
  <2> QED
    BY <1>1, <1>15, <2>2, <2>3, <2>4 DEF FCOM
<1>16. ASSUME NEW down, FINCDECSTP(down)
       PROVE  S /\ F /\ R
  BY <1>1, <1>2, <1>16 DEF FINCDECSTP
<1>17. FINIT => S /\ F /\ R
  BY <1>1, <1>3 DEF FINIT
<1>18. FCLEX => S /\ F /\ R
  <2>1. FPU_status' = FPU_status \ {"low"} => S
    BY DEF S, StatusOK
  <2> QED
    BY <1>1, <2>1 DEF FCLEX
<1>19. ProcessFSTLD_WORD => S /\ F /\ R
  <2>1. ASSUME NEW mode, Store(mode)
        PROVE  S /\ F /\ R
    BY <1>1, <2>1 DEF Store
  <2>2. FSAVE \/ FSTLDUndefined => S /\ F /\ R
    BY <1>1, <1>3 DEF FSAVE, FSTLDUndefined
  <2>3. ASSUME NEW m \in Image, NEW reads, FLDCW(m) \/ FRSTOR(m, reads) \/ FLDENV(m, reads)
        PROVE  S /\ F /\ R
    BY <1>1, <1>4, <2>3 DEF FLDCW, FRSTOR, FLDENV
  <2> QED
    BY <2>1, <2>2, <2>3, UnitAssumption DEF ProcessFSTLD_WORD
<1>20. S /\ F /\ R
  BY <1>5, <1>6, <1>7, <1>8, <1>9, <1>10, <1>11, <1>12, <1>13, <1>14, <1>15, <1>16, <1>17,
     <1>18, <1>19 DEF Next
<1> QED
  BY <1>20 DEF StatusOK, S, F, R

LEMMA InitTyped ==
  ASSUME Init
  PROVE  TypeOK /\ Ring!Init
<1>1. 959 \in Control /\ FPU_PC(959) = 3
  <2>1. 959 \in Control
    BY WordSize, SMT DEF Control
  <2>2. (959 \div 256) % 4 = 3
    BY SMT
  <2> QED
    BY <2>1, <2>2, FieldsAre
<1>2. AllEmpty \in [Regs -> 0 .. 3] /\ \A r \in Regs : AllEmpty[r] = EmptyTag
  BY SMT DEF AllEmpty, EmptyTag
<1>3. UnitOK
  BY <1>1, <1>2 DEF Init, UnitOK
<1>4. StatusOK
  BY SMT DEF Init, StatusOK
<1>5. FromTOP = [i \in Slots |-> Empty]
  <2>1. \A i \in Slots : IsEmpty(Unit, i)
    <3>1. Unit \in Units /\ Unit.tag = AllEmpty
      BY <1>3, UnitShows DEF Init, Unit, Shows
    <3> QED
      BY <1>2, <3>1, AtRegister DEF IsEmpty, Slots
  <2> QED
    BY <1>3, <2>1, UnitShows DEF Shows, Seen
<1>6. Ring!Init
  BY <1>1, <1>5 DEF Init, Ring!Init, Ring!Slots, Slots, Ring!Flags, Flags
<1> QED
  BY <1>3, <1>4, <1>6, TypeParts

(* The registers hold values, the control word keeps to its 16 bits        *)
(* wherever TOP turns to, and every tag is one of the four.                *)
THEOREM FpuTypes == Spec => []TypeOK
<1>1. Init => TypeOK
  BY InitTyped
<1>2. TypeOK /\ [Next]_vars => TypeOK'
  <2> SUFFICES ASSUME TypeOK, [Next]_vars
               PROVE  TypeOK'
    OBVIOUS
  <2>1. CASE Next
    BY <2>1, TypeParts, NextStep, StatusStep DEF TypeOK, UnitOK, StatusOK, Control
  <2>2. CASE UNCHANGED vars
    BY <2>2 DEF vars, unitVars, TypeOK
  <2> QED
    BY <2>1, <2>2
<1> QED
  BY <1>1, <1>2, PTL DEF Spec

(* The physical registers, the tag word and a TOP that shares the control  *)
(* word implement the ring of registers that the instructions promise,     *)
(* faults included, but for the comparisons whose format is misread.       *)
THEOREM FpuKeepsPromises == Spec => KeepsPromises
<1>1. Init => Ring!Init
  BY InitTyped
<1>2. TypeOK /\ [Next]_vars => [Ring!Next \/ Misread]_(Ring!stackVars)
  <2> SUFFICES ASSUME TypeOK, [Next]_vars
               PROVE  Ring!Next \/ Misread \/ UNCHANGED Ring!stackVars
    OBVIOUS
  <2>1. CASE Next
    BY <2>1, TypeUnit, NextStep
  <2>2. CASE UNCHANGED vars
    BY <2>2 DEF vars, unitVars, Ring!stackVars, FromTOP, FPU_TOP, FPU_PC, Field
  <2> QED
    BY <2>1, <2>2
<1> QED
  BY <1>1, <1>2, FpuTypes, PTL DEF Spec, KeepsPromises

-----------------------------------------------------------------------------
(* Tags and values.                                                        *)

(* Work in which every register is as it was or has the tag of its value.  *)
Agrees(f, r) ==
  \/ f.reg[r] = FPURegisters[r] /\ f.tag[r] = FPU_tag[r]
  \/ f.tag[r] \in {EmptyTag, ComputeFPUTag(f.reg[r])}
Tagged(f) == f \in Units /\ \A r \in Regs : Agrees(f, r)
Followed ==
  \A r \in Regs :
    \/ FPURegisters'[r] = FPURegisters[r] /\ FPU_tag'[r] = FPU_tag[r]
    \/ FPU_tag'[r] \in {EmptyTag, ComputeFPUTag(FPURegisters'[r])}

LEMMA TaggedUnit ==
  ASSUME UnitOK
  PROVE  Tagged(Unit)
BY UnitShows DEF Shows, Tagged, Agrees, Unit

LEMMA TaggedAssign ==
  ASSUME NEW f, Tagged(f), NEW i \in Slots, NEW v \in Values
  PROVE  Tagged(Assign(f, i, v))
<1> DEFINE g == Assign(f, i, v)
           r == Rounded(v, FPU_PC(f.control))
<1>1. f \in Units /\ g \in Units
  BY AssignSeen DEF Tagged
<1>2. g = [f EXCEPT !.reg[At(f, i)] = r, !.tag[At(f, i)] = ComputeFPUTag(r)]
  BY DEF Assign
<1>3. f = [reg |-> f.reg, control |-> f.control, tag |-> f.tag, error |-> f.error]
  BY <1>1 DEF Units
<1> HIDE DEF r
<1>4. /\ g.reg = [f.reg EXCEPT ![At(f, i)] = r]
      /\ g.tag = [f.tag EXCEPT ![At(f, i)] = ComputeFPUTag(r)]
  BY <1>2, <1>3
<1> HIDE DEF g
<1>5. f.reg \in [Regs -> Values] /\ f.tag \in [Regs -> 0 .. 3]
  BY <1>1 DEF Units
<1>6. \A q \in Regs : Agrees(g, q)
  <2> TAKE q \in Regs
  <2>1. CASE q = At(f, i)
    BY <1>4, <1>5, <2>1 DEF Agrees
  <2>2. CASE q # At(f, i)
    BY <1>4, <1>5, <2>2 DEF Agrees, Tagged
  <2> QED
    BY <2>1, <2>2
<1> QED
  BY <1>1, <1>6 DEF Tagged, g

LEMMA TaggedFreed ==
  ASSUME NEW f, Tagged(f), NEW i \in Slots
  PROVE  Tagged(Freed(f, i))
<1> DEFINE g == Freed(f, i)
<1>1. f \in Units /\ g \in Units
  BY FreedSeen DEF Tagged
<1>2. g.reg = f.reg /\ g.tag = [f.tag EXCEPT ![At(f, i)] = EmptyTag]
  BY <1>1 DEF Freed, Units
<1> HIDE DEF g
<1>3. f.tag \in [Regs -> 0 .. 3]
  BY <1>1 DEF Units
<1>4. \A q \in Regs : Agrees(g, q)
  BY <1>2, <1>3 DEF Agrees, Tagged
<1> QED
  BY <1>1, <1>4 DEF Tagged, g

LEMMA TaggedTurn ==
  ASSUME NEW f, Tagged(f), NEW n \in {-1, 1}
  PROVE  Tagged(Turn(f, n))
BY TurnSeen DEF Tagged, Agrees

LEMMA TaggedFailed ==
  ASSUME NEW f, Tagged(f), NEW e \in Errors
  PROVE  Tagged(Failed(f, e))
<1>1. /\ Failed(f, e).reg = f.reg /\ Failed(f, e).tag = f.tag
      /\ Failed(f, e) \in Units
  BY DEF Tagged, Failed, Units
<1> QED
  BY <1>1 DEF Tagged, Agrees

LEMMA TaggedPush ==
  ASSUME NEW f, Tagged(f), NEW v \in Values
  PROVE  Tagged(PushFPU(f, v))
<1>1. Tagged(Turn(f, -1))
  BY TaggedTurn
<1>2. Tagged(Assign(Turn(f, -1), 0, v))
  BY <1>1, TaggedAssign, Ends
<1>3. Tagged(Failed(Turn(f, -1), "FPUStackOverflow"))
  BY <1>1, TaggedFailed DEF Errors
<1> QED
  BY <1>2, <1>3 DEF PushFPU

LEMMA TaggedPop ==
  ASSUME NEW f, Tagged(f)
  PROVE  Tagged(PopFPU(f)) /\ Tagged(PopTwice(f))
<1>1. ASSUME NEW g, Tagged(g)
      PROVE  Tagged(PopFPU(g))
  <2>1. Tagged(Freed(g, 0))
    BY <1>1, TaggedFreed, Ends
  <2>2. Tagged(Turn(Freed(g, 0), 1))
    BY <2>1, TaggedTurn
  <2>3. Tagged(Failed(g, "FPUStackUnderflow"))
    BY <1>1, TaggedFailed DEF Errors
  <2> QED
    BY <2>2, <2>3 DEF PopFPU
<1> QED
  BY <1>1 DEF PopTwice

LEMMA TaggedBecomes ==
  ASSUME NEW f, Tagged(f), Becomes(f)
  PROVE  Followed
<1>1. FPURegisters' = f.reg /\ FPU_tag' = f.tag
  BY DEF Becomes
<1> QED
  BY <1>1 DEF Tagged, Agrees, Followed

LEMMA StopsFollowed ==
  ASSUME UNCHANGED unitVars
  PROVE  Followed
BY DEF unitVars, Followed

(* A whole FRSTOR gives every register the tag of its value.               *)
LEMMA RestoredTagged ==
  ASSUME UnitOK, NEW m \in Image
  PROVE  Tagged(Restored(m, NReg))
<1> DEFINE env == Environment(m, 3)
           top == FPU_TOP(m.control)
           assigned(r) == (r - top) % NReg < NReg
           rounded(r) == Rounded(m.st[(r - top) % NReg], FPU_PC(m.control))
           reg == [r \in Regs |-> IF assigned(r) THEN rounded(r) ELSE env.reg[r]]
           tag == [r \in Regs |-> IF assigned(r) THEN ComputeFPUTag(rounded(r)) ELSE env.tag[r]]
           f == Restored(m, NReg)
<1>1. f = [env EXCEPT !.reg = reg, !.tag = tag]
  BY DEF Restored
<1>2. env \in Units /\ f \in Units
  BY EnvironmentUnit, RestoredUnit, FpuAssumption
<1>3. \A r \in Regs : assigned(r)
  <2>1. top \in Slots
    BY FieldRanges DEF Image, Control
  <2> HIDE DEF top
  <2>2. \A r \in Regs : r - top \in Int
    BY <2>1, SMT DEF Slots, Regs
  <2>3. \A r \in Regs : (r - top) % NReg \in Slots
    BY <2>2, Remainder
  <2> QED
    BY <2>3, FpuAssumption, SMT DEF Slots
<1> HIDE DEF env, top, rounded, assigned
<1>4. \A r \in Regs : tag[r] = ComputeFPUTag(reg[r])
  BY <1>3
<1> HIDE DEF reg, tag, f
<1>5. f.reg = reg /\ f.tag = tag
  BY <1>1, <1>2 DEF Units
<1> QED
  BY <1>2, <1>4, <1>5 DEF Tagged, Agrees, f

(* The operands an instruction reads are values.                           *)
LEMMA ReadsValues ==
  ASSUME UnitOK, NEW i \in Slots
  PROVE  ST(Unit, i) \in Values
BY PresentSeen, UnitShows, SeenEmpty DEF Shows

LEMMA TagsStep ==
  ASSUME UnitOK, Next, ~Environments
  PROVE  Followed
<1>1. \A e : Stops(e) => Followed
  BY StopsFollowed DEF Stops
<1>2. /\ NoAccess => Followed
      /\ NoWrite => Followed
      /\ \A S : Missing(S) => Followed
  BY <1>1 DEF NoAccess, NoWrite, Missing
<1>3. Tagged(Unit) /\ 0 \in Slots /\ 1 \in Slots
  BY TaggedUnit, Ends
<1>4. \A f : Tagged(f) /\ Becomes(f) => Followed
  BY TaggedBecomes
<1>5. \A i \in Slots, v \in Values : Tagged(Assign(Unit, i, v))
  BY <1>3, TaggedAssign
<1>6. \A v \in Values : Tagged(PushFPU(Unit, v))
  BY <1>3, TaggedPush
<1>7. Becomes(Unit) => Followed
  BY <1>3, <1>4
<1> HIDE DEF Followed
<1>8. ASSUME NEW ext, FLD_const(ext)
      PROVE  Followed
  BY <1>1, <1>4, <1>6, <1>8 DEF FLD_const
<1>9. ASSUME NEW mode, NEW i \in Slots, FLD(mode, i)
      PROVE  Followed
  <2>1. ST(Unit, i) \in Values /\ Operands \subseteq Values
    BY ReadsValues, UnitAssumption
  <2> QED
    BY <1>1, <1>2, <1>4, <1>6, <1>9, <2>1 DEF FLD
<1>10. ASSUME NEW mode, NEW i \in Slots, FST(mode, i)
       PROVE  Followed
  <2>1. ST(Unit, 0) \in Values
    BY <1>3, ReadsValues
  <2>2. \A f : Tagged(f) => Tagged(FSTPops(f, mode))
    BY TaggedPop DEF FSTPops
  <2>3. Tagged(FSTPops(Assign(Unit, i, ST(Unit, 0)), mode)) /\ Tagged(FSTPops(Unit, mode))
    BY <1>3, <1>5, <2>1, <2>2
  <2> QED
    BY <1>1, <1>2, <1>4, <1>10, <2>3 DEF FST
<1>11. ASSUME NEW i \in Slots, FXCH(i)
       PROVE  Followed
  <2>1. ST(Unit, 0) \in Values /\ ST(Unit, i) \in Values
    BY <1>3, ReadsValues
  <2>2. Tagged(Assign(Assign(Unit, 0, ST(Unit, i)), i, ST(Unit, 0)))
    BY <1>3, <1>5, <2>1, TaggedAssign
  <2> QED
    BY <1>2, <1>4, <1>11, <2>2 DEF FXCH
<1>12. ASSUME NEW taken, NEW i \in Slots, FMOVcc(taken, i)
       PROVE  Followed
  <2>1. ST(Unit, i) \in Values
    BY ReadsValues
  <2> QED
    BY <1>2, <1>3, <1>4, <1>5, <1>7, <1>12, <2>1 DEF FMOVcc
<1>13. ASSUME NEW mode, NEW i \in Slots, FADD(mode, i)
       PROVE  Followed
  <2>1. \A res \in Values : Tagged(StoreFPUBinaryFormat(mode, i, res))
    <3> TAKE res \in Values
    <3>1. Tagged(Assign(Unit, i, res)) /\ Tagged(Assign(Unit, 0, res))
      BY <1>3, <1>5
    <3>2. Tagged(PopFPU(Assign(Unit, i, res)))
      BY <3>1, TaggedPop
    <3>3. StoreFPUBinaryFormat(mode, i, res)
            \in {Assign(Unit, i, res), PopFPU(Assign(Unit, i, res)), Assign(Unit, 0, res)}
      BY DEF StoreFPUBinaryFormat
    <3> QED
      BY <3>1, <3>2, <3>3
  <2> QED
    BY <1>1, <1>2, <1>4, <1>13, <2>1 DEF FADD
<1>14. F2XM1 \/ FABS \/ FPREM => Followed
  BY <1>1, <1>2, <1>3, <1>4, <1>5 DEF F2XM1, FABS, FPREM
<1>15. FYL2X => Followed
  <2>1. \A res \in Values : Tagged(Assign(PopFPU(Unit), 0, res))
    BY <1>3, TaggedPop, TaggedAssign
  <2> QED
    BY <1>2, <1>4, <2>1 DEF FYL2X
<1>16. FSINCOS => Followed
  <2>1. \A res, val \in Values : Tagged(PushFPU(Assign(Unit, 0, res), val))
    BY <1>3, <1>5, TaggedPush
  <2> QED
    BY <1>2, <1>4, <2>1 DEF FSINCOS
<1>17. FXAM \/ FTST \/ FCLEX => Followed
  BY <1>1, <1>2, <1>7 DEF FXAM, FTST, FCLEX
<1>18. ASSUME NEW mode, NEW i \in Slots, NEW u, FCOM(mode, i, u)
       PROVE  Followed
  <2>1. Tagged(FCOMPops(Unit, mode))
    <3>1. FCOMPops(Unit, mode) \in {Unit, PopFPU(Unit), PopTwice(Unit)}
      BY DEF FCOMPops
    <3> QED
      BY <1>3, <3>1, TaggedPop
  <2> QED
    BY <1>1, <1>2, <1>4, <1>18, <2>1 DEF FCOM
<1>19. ASSUME NEW down, FINCDECSTP(down)
       PROVE  Followed
  <2>1. Tagged(Turn(Unit, -1)) /\ Tagged(Turn(Unit, 1))
    BY <1>3, TaggedTurn
  <2>2. Tagged(Turn(Unit, IF down = 1 THEN -1 ELSE 1))
    BY <2>1
  <2> QED
    BY <1>4, <1>19, <2>2 DEF FINCDECSTP
<1>20. ASSUME NEW i \in Slots, FFREE(i)
       PROVE  Followed
  BY <1>3, <1>4, <1>20, TaggedFreed DEF FFREE
<1>21. Reset => Followed
  <2>1. ASSUME Reset
        PROVE  FPU_tag' = AllEmpty
    <3>1. [Unit EXCEPT !.control = 959, !.tag = AllEmpty].tag = AllEmpty
      BY SMT DEF Unit
    <3> QED
      BY <2>1, <3>1, ZenonT(30) DEF Reset, Becomes
  <2> QED
    BY <2>1 DEF Followed, AllEmpty
<1>22. FINIT \/ FSAVE => Followed
  BY <1>2, <1>21 DEF FINIT, FSAVE
<1>23. ASSUME NEW mode, Store(mode)
       PROVE  Followed
  BY <1>2, <1>7, <1>23 DEF Store
<1>24. FSTLDUndefined => Followed
  BY <1>1, <1>2 DEF FSTLDUndefined
<1>25. ASSUME NEW m \in Image, FLDCW(m)
       PROVE  Followed
  <2>1. ASSUME Becomes([Unit EXCEPT !.control = m.control])
        PROVE  Followed
    BY <2>1 DEF Becomes, Unit, Followed
  <2> QED
    BY <1>2, <1>25, <2>1 DEF FLDCW
<1>26. ASSUME NEW m \in Image, NEW reads, FLDENV(m, reads)
       PROVE  FALSE
  BY <1>26 DEF FLDENV, Runs, Environments
<1>27. ASSUME NEW m \in Image, NEW reads \in Int, FRSTOR(m, reads)
       PROVE  Followed
  <2>1. instr' = <<"FSTLD", 7, 0>> /\ fault' = "None"
    BY <1>27 DEF FRSTOR, Runs, Environments
  <2>2. ~\E f : f.error = "OutOfBounds" /\ Becomes(f)
    BY <2>1 DEF Becomes
  <2>3. ~(reads < 3)
    <3>1. reads < 3 => Environment(m, reads).error = "OutOfBounds"
      BY EnvironmentUnit
    <3> QED
      BY <1>27, <2>2, <3>1 DEF FRSTOR
  <2>4. ~(reads < 3 + NReg)
    <3> DEFINE g == Restored(m, reads - 3)
    <3>1. g \in Units
      BY RestoredUnit
    <3> HIDE DEF g
    <3>2. Failed(g, "OutOfBounds").error = "OutOfBounds"
      BY <3>1 DEF Failed, Units
    <3> QED
      BY <1>27, <2>2, <2>3, <3>2 DEF FRSTOR, g
  <2>5. Becomes(Restored(m, NReg))
    BY <1>27, <2>3, <2>4 DEF FRSTOR
  <2>6. Tagged(Restored(m, NReg))
    BY RestoredTagged, FpuAssumption
  <2> QED
    BY <1>4, <2>5, <2>6
<1>28. ProcessFSTLD_WORD => Followed
  <2>1. Images \subseteq Image /\ 0 .. (3 + NReg) \subseteq Int
    BY UnitAssumption
  <2> QED
    BY <1>22, <1>23, <1>24, <1>25, <1>26, <1>27, <2>1 DEF ProcessFSTLD_WORD
<1> QED
  BY <1>3, <1>8, <1>9, <1>10, <1>11, <1>12, <1>13, <1>14, <1>15, <1>16, <1>17, <1>18, <1>19,
     <1>20, <1>22, <1>28 DEF Next

(* No value changes without its tag, whatever the instruction; only the    *)
(* environment that FLDENV loads, or FRSTOR before it fails, may disagree. *)
THEOREM FpuTagsFollow == Spec => TagsFollow
<1>1. TypeOK /\ [Next]_vars => [~Environments => Followed]_vars
  <2> SUFFICES ASSUME TypeOK, Next, ~Environments
               PROVE  Followed
    BY DEF vars
  <2> QED
    BY TypeUnit, TagsStep
<1>2. Followed = \A r \in Regs :
                   \/ FPURegisters'[r] = FPURegisters[r] /\ FPU_tag'[r] = FPU_tag[r]
                   \/ FPU_tag'[r] \in {EmptyTag, ComputeFPUTag(FPURegisters'[r])}
  BY DEF Followed
<1> QED
  BY <1>1, FpuTypes, PTL DEF Spec, TagsFollow, Followed

=============================================================================
