------------------------------ MODULE FpuStack ------------------------------
(***************************************************************************)
(* What the x87 instructions promise a client: a ring of registers seen    *)
(* from st(0), each Empty or holding a value, which a push enters at       *)
(* st(0) and a pop leaves there.  Nothing is said here of physical         *)
(* registers, the tag word or where TOP is kept.                           *)
(*                                                                         *)
(* The results of arithmetic are left open; an instruction that faults     *)
(* stops the client, and does so exactly where its operands, the room it   *)
(* needs or an access to memory call for it.                               *)
(***************************************************************************)
EXTENDS FpuNumbers

VARIABLES
  st,             (* st(0), st(1), ...                                     *)
  PC,             (* the precision control field                           *)
  status,         (* condition codes that are set, and "low" for the rest  *)
  flags,          (* ZF, PF and CF                                         *)
  error,
  op              (* the instruction last executed: <<name, mode, i>>      *)

stackVars == <<st, PC, status, flags, error, op>>

Stored(v) == Rounded(v, PC)
Pushed(s, v) == [i \in Slots |-> IF i = 0 THEN Stored(v) ELSE s[i - 1]]
Popped(s) == [i \in Slots |-> IF i = NReg - 1 THEN Empty ELSE s[i + 1]]
Turned(s, k) == [i \in Slots |-> s[(i + k) % NReg]]

-----------------------------------------------------------------------------
(* An instruction is a name, a mode and the i of st(i).  The modes of FLD,  *)
(* FST, FADD (which stands for the six of its kind) and FCOM are those its  *)
(* tables of formats give: some name st(i), the others an operand in       *)
(* memory.  FUCOM is the FCOM that takes a NaN for an answer.              *)

Comparisons == {"FCOM", "FUCOM"}

OnRegisters(o) ==
  CASE o[1] = "FLD" -> o[2] = 0
    [] o[1] = "FST" -> o[2] \in {0, 1}
    [] o[1] = "FADD" -> o[2] \in {0, 1, 2}
    [] o[1] \in Comparisons -> o[2] \in {0, 1, 2, 11, 12}
    [] OTHER -> o[1] # "FSTLD"
Undefined(o) ==
  \/ o[1] = "FLD_const" /\ o[2] >= 7
  \/ o[1] = "FLD" /\ o[2] \in {6, 7}
  \/ o[1] = "FST" /\ o[2] \in {14, 15}
  \/ o[1] = "FADD" /\ o[2] = 7
  \/ o[1] \in Comparisons /\ o[2] \in {13, 14, 15}
  \/ o[1] = "FSTLD" /\ o[2] > 9

(* The registers an instruction reads, which must be in use.               *)
OfTwo == {"FPREM", "FYL2X"}
OfNone == {"FLD_const", "FXAM", "FFREE", "FINCDECSTP", "FINIT", "FCLEX", "FSTLD"}
Needs(o) ==
  CASE o[1] \in OfNone -> {}
    [] o[1] = "FLD" -> IF OnRegisters(o) THEN {o[3]} ELSE {}
    [] o[1] = "FMOVcc" -> IF o[2] = 0 THEN {} ELSE {0, o[3]}
    [] o[1] \in OfTwo -> {0, 1}
    [] o[1] \in {"FXCH", "FADD", "FCOM", "FUCOM"} -> IF OnRegisters(o) THEN {0, o[3]} ELSE {0}
    [] OTHER -> {0}

InUse(o) == \A i \in Needs(o) : st[i] # Empty
NeedsRoom(o) == o[1] \in {"FLD_const", "FLD", "FSINCOS"}
Room == st[NReg - 1] = Empty

(* How often an instruction pops.                                          *)
Pops(o) ==
  CASE o[1] = "FST" -> IF o[2] \in {0, 2, 4, 6, 8} THEN 0 ELSE 1
    [] o[1] = "FADD" -> IF o[2] = 2 THEN 1 ELSE 0
    [] o[1] \in Comparisons ->
         IF o[2] = 2 THEN 2 ELSE IF o[2] \in {1, 4, 6, 8, 10, 12} THEN 1 ELSE 0
    [] o[1] = "FYL2X" -> 1
    [] OTHER -> 0
PoppedTimes(s, n) == IF n = 2 THEN Popped(Popped(s)) ELSE IF n = 1 THEN Popped(s) ELSE s
After(s, o) == PoppedTimes(s, Pops(o))

-----------------------------------------------------------------------------

Init ==
  /\ st = [i \in Slots |-> Empty] /\ PC = 3 /\ status = {} /\ flags \subseteq Flags
  /\ error = "None" /\ op = <<"FINIT", 0, 0>>

Completes(o) == op' = o /\ error = "None" /\ error' = "None" /\ InUse(o)
KeepsControl == UNCHANGED <<PC, flags>>

FLD_const ==
  /\ Completes(<<"FLD_const", 0, 0>>) /\ Room
  /\ \E v \in Values : st' = Pushed(st, v)
  /\ KeepsControl

FLD(mode, i) ==
  /\ Completes(<<"FLD", mode, i>>) /\ Room
  /\ \E v \in IF mode = 0 THEN {st[i]} ELSE Values : st' = Pushed(st, v)
  /\ KeepsControl

FST(mode, i) ==
  /\ Completes(<<"FST", mode, i>>)
  /\ st' = After(IF mode \in {0, 1} THEN [st EXCEPT ![i] = Stored(st[0])] ELSE st, op')
  /\ KeepsControl

FXCH(i) ==
  /\ Completes(<<"FXCH", 0, i>>)
  /\ st' = [st EXCEPT ![0] = Stored(st[i]), ![i] = Stored(st[0])]
  /\ KeepsControl

FMOVcc(taken, i) ==
  /\ Completes(<<"FMOVcc", taken, i>>)
  /\ st' = IF taken = 1 THEN [st EXCEPT ![0] = Stored(st[i])] ELSE st
  /\ KeepsControl

(* st(0) or, in two modes, st(i) becomes the result.                       *)
FADD(mode, i) ==
  /\ Completes(<<"FADD", mode, i>>)
  /\ \E v \in Values :
       st' = After([st EXCEPT ![IF mode \in {1, 2} THEN i ELSE 0] = Stored(v)], op')
  /\ KeepsControl

(* F2XM1, FABS and its like, FPREM and FSCALE: st(0) becomes the result.   *)
FABS(name) ==
  /\ Completes(<<name, 0, 0>>)
  /\ name = "F2XM1" => st[0] \notin Beyond
  /\ \E v \in Values : st' = [st EXCEPT ![0] = Stored(v)]
  /\ KeepsControl

(* FYL2X, FYL2XP1, FPATAN: st(1) becomes the result and st(0) is popped.   *)
FYL2X ==
  /\ Completes(<<"FYL2X", 0, 0>>)
  /\ \E v \in Values : st' = After([st EXCEPT ![1] = Stored(v)], op')
  /\ KeepsControl

(* FXTRACT, FSINCOS, FPTAN: st(0) becomes a result and another is pushed.  *)
FSINCOS ==
  /\ Completes(<<"FSINCOS", 0, 0>>) /\ Room
  /\ \E u, v \in Values : st' = Pushed([st EXCEPT ![0] = Stored(u)], v)
  /\ KeepsControl

FXAM ==
  /\ Completes(<<"FXAM", 0, 0>>)
  /\ st[0] = Empty <=> {"C3", "C0"} \subseteq status'
  /\ st[0] = NaN <=> status' \cap {"C3", "C2", "C0"} = {"C0"}
  /\ st[0] = 0 <=> status' \cap {"C3", "C2", "C0"} = {"C3"}
  /\ UNCHANGED st /\ KeepsControl

FTST ==
  /\ Completes(<<"FTST", 0, 0>>) /\ st[0] # NaN
  /\ status' \cap C0123 = Codes(st[0], 0)
  /\ UNCHANGED st /\ KeepsControl

(* A comparison answers in the condition codes, or in ZF, PF and CF        *)
(* (eflags), and then pops.                                                *)
Answer(a, b, eflags) ==
  IF eflags THEN flags' = AsFlags(a, b) ELSE status' \cap C0123 = Codes(a, b) /\ UNCHANGED flags

Compares(o, pops, eflags) ==
  /\ Completes(o)
  /\ pops = 2 => st[1] # Empty
  /\ st' = PoppedTimes(st, pops)
  /\ \E b \in IF OnRegisters(o) THEN {st[o[3]]} ELSE Values :
       (Unordered(st[0], b) => o[1] = "FUCOM") /\ Answer(st[0], b, eflags)
  /\ UNCHANGED PC

InFlags(o) == o[2] \in {11, 12}
FCOM(o) == Compares(o, Pops(o), InFlags(o))

FINCDECSTP(down) ==
  /\ Completes(<<"FINCDECSTP", down, 0>>)
  /\ st' = Turned(st, IF down = 1 THEN -1 ELSE 1)
  /\ KeepsControl

FFREE(i) ==
  /\ Completes(<<"FFREE", 0, i>>)
  /\ st' = [st EXCEPT ![i] = Empty] /\ KeepsControl

FCLEX == Completes(<<"FCLEX", 0, 0>>) /\ UNCHANGED st /\ KeepsControl

FINIT ==
  /\ Completes(<<"FINIT", 0, 0>>)
  /\ st' = [i \in Slots |-> Empty] /\ PC' = 3 /\ UNCHANGED flags

(* FLDCW (3) turns the ring; FSAVE (6) is a FINIT; after FRSTOR (7) every  *)
(* register is in use, after FLDENV (9) any of them may be; the others     *)
(* change nothing.                                                         *)
FSTLD(mode) ==
  /\ Completes(<<"FSTLD", mode, 0>>)
  /\ \/ mode \in {0, 1, 2, 4, 5, 8} /\ UNCHANGED <<st, PC>>
     \/ mode = 3 /\ PC' \in Precisions /\ \E k \in Slots : st' = Turned(st, k)
     \/ mode = 6 /\ st' = [i \in Slots |-> Empty] /\ PC' = 3
     \/ mode = 7 /\ PC' \in Precisions /\ st' \in [Slots -> Values]
     \/ mode = 9 /\ PC' \in Precisions /\ st' \in [Slots -> Values \cup {Empty}]
  /\ UNCHANGED flags

-----------------------------------------------------------------------------
(* Where an instruction stops the client.                                  *)

Underflows(o, pops) ==
  /\ error = "None" /\ op' = o /\ InUse(o)
  /\ error' = "FPUStackUnderflow" /\ pops = 2 /\ st[1] = Empty

Faults(o) ==
  /\ error = "None" /\ op' = o
  /\ \/ error' = "FPUAccessViolation" /\ ~InUse(o)
     \/ error' = "FPUStackOverflow" /\ InUse(o) /\ NeedsRoom(o) /\ ~Room
     \/ Underflows(o, Pops(o))
     \/ error' = "FPUError" /\ o[1] = "F2XM1" /\ st[0] \in Beyond
     \/ error' = "ArithmeticError" /\ o[1] = "FTST" /\ st[0] = NaN
     \/ /\ error' = "ArithmeticError" /\ InUse(o) /\ o[1] = "FCOM"
        /\ OnRegisters(o) => Unordered(st[0], st[o[3]])
     \/ error' = "UndefinedBehavior" /\ InUse(o) /\ Undefined(o)
     \/ error' = "OutOfBounds" /\ InUse(o) /\ ~OnRegisters(o)
     \/ error' = "AccessViolation" /\ InUse(o) /\ ~OnRegisters(o)
                                   /\ o[1] \in {"FST", "FSTLD"}

Completion(name, mode, i) ==
  \/ name = "FLD_const" /\ FLD_const
  \/ name = "FLD" /\ FLD(mode, i)
  \/ name = "FST" /\ FST(mode, i)
  \/ name = "FXCH" /\ FXCH(i)
  \/ name = "FMOVcc" /\ FMOVcc(mode, i)
  \/ name = "FADD" /\ FADD(mode, i)
  \/ name \in {"FABS", "F2XM1", "FPREM"} /\ FABS(name)
  \/ name = "FYL2X" /\ FYL2X
  \/ name = "FSINCOS" /\ FSINCOS
  \/ name = "FXAM" /\ FXAM
  \/ name = "FTST" /\ FTST
  \/ name \in Comparisons /\ FCOM(<<name, mode, i>>)
  \/ name = "FINCDECSTP" /\ FINCDECSTP(mode)
  \/ name = "FFREE" /\ FFREE(i)
  \/ name = "FINIT" /\ FINIT
  \/ name = "FCLEX" /\ FCLEX
  \/ name = "FSTLD" /\ FSTLD(mode)

Next == Completion(op'[1], op'[2], op'[3]) \/ Faults(op')

Spec == Init /\ [][Next]_stackVars

=============================================================================
