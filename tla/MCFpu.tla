------------------------------- MODULE MCFpu --------------------------------
(***************************************************************************)
(* Fpu for the model checker: four registers; a number below -1, zero, a   *)
(* positive number too small for a float, and NaN.                         *)
(***************************************************************************)
EXTENDS Fpu

MCValues == {-2, 0, 1, 9}

MCBeyond == {-2}

MCSingle == [v \in Values |-> IF v = 1 THEN 0 ELSE v]
MCDouble == [v \in Values |-> v]

(* Single precision with every register tagged normal; extended precision  *)
(* with TOP at 1 and two registers empty.                                  *)
MCImages == {
  [control |-> 191, status |-> {"low"}, tag |-> [r \in Regs |-> 0],
   st |-> [i \in Slots |-> 1]],
  [control |-> 3007, status |-> {"C0"}, tag |-> [r \in Regs |-> IF r < 2 THEN 3 ELSE 2],
   st |-> [i \in Slots |-> IF i = 0 THEN 9 ELSE 0]]}

(* No instruction goes by the flags, the rounding, its history, or by what  *)
(* the tag of a register in use says; and none follows a fault.            *)
View ==
  IF fault = "None" THEN <<FPURegisters, FPU_control, {r \in Regs : FPU_tag[r] = EmptyTag}>>
  ELSE <<fault>>

=============================================================================
