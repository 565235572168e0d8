---------------------------- MODULE MCStringOps -----------------------------
(***************************************************************************)
(* StringOps for the model checker: five bytes of memory, one or two of    *)
(* them read-only, elements of one and two bytes, pointers inside, at the  *)
(* edges and past the end.                                                 *)
(***************************************************************************)
EXTENDS StringOps

AllInstructions == Instruction

MCContents == {<<1, 0, 1, 0, 3>>, <<1, 1, 1, 2, 1>>}

=============================================================================
