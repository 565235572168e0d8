------------------------------- MODULE MCAlu --------------------------------
(***************************************************************************)
(* Alu for the model checker: three-bit operands, every value of both      *)
(* registers, shift counts on both sides of Bits and Bits + 1, and draws   *)
(* of Rand() that turn every flag on and off.                              *)
(***************************************************************************)
EXTENDS Alu

MCRands == {{}, {"CF", "SF", "PF"}, {"OF", "ZF", "AF"}, Flag}

=============================================================================
