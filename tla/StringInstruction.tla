------------------------- MODULE StringInstruction --------------------------
(***************************************************************************)
(* What a string instruction does as a whole, however many Ticks the       *)
(* machine spends on it: it handles elements one after another until the   *)
(* count is used up, the condition of a REPE or REPNE fails, or an access  *)
(* faults.                                                                 *)
(***************************************************************************)
EXTENDS StringElements

VARIABLES
  work,       (* contents, RSI, RDI, RAX, ZF and fault                     *)
  RCX,
  ended       (* the instruction is over, or the client was stopped in it  *)

stringVars == <<instr, work, RCX, ended>>

Init == instr \in Instruction /\ work.fault = "None" /\ RCX \in Word /\ ~ended

(* How many elements there are at most, and the work after each of them.   *)
Limit == IF instr.rep = "" THEN 1 ELSE RCX
After ==
  LET after[k \in 0 .. Limit] ==
        IF k = 0 THEN work ELSE Element[after[k - 1]]
  IN after

(* Elements are handled up to the last, or up to one that stops it.        *)
Handled(k) ==
  /\ k \in 0 .. Limit
  /\ \A j \in 1 .. (k - 1) : GoesOn(After[j])
Complete(k) ==
  Handled(k) /\ (k = Limit \/ (k > 0 /\ ~GoesOn(After[k])))

(* An element that faults is not counted.                                  *)
Counted(k) ==
  IF instr.rep = "" THEN 0 ELSE IF After[k].fault = "None" THEN k ELSE k - 1

Does(k) ==
  /\ ~ended /\ ended'
  /\ work' = After[k]
  /\ RCX' = RCX - Counted(k)
  /\ UNCHANGED instr

Execute == \E k \in 0 .. Limit : Complete(k) /\ Does(k)

(* The host stops the client between two Ticks, after some elements.       *)
Interrupt == \E k \in 0 .. Limit : Handled(k) /\ (k > 0 => GoesOn(After[k])) /\ Does(k)

Next == Execute \/ Interrupt

Spec == Init /\ [][Next]_stringVars

=============================================================================
