--------------------------- MODULE AsmFpuFormats ---------------------------
(***************************************************************************)
(* The format handlers of the assembler for the x87 instructions.  The     *)
(* number of operands chooses the form here, so a handler is given all of  *)
(* them.  See AsmFormats for what a route is.                              *)
(***************************************************************************)
EXTENDS AsmFormats

\* The modes of an operand in memory, by its size code: a tuple is of integers
\* of 2, 4 and 8 bytes, in that order, Reals is of floats of 4 and 8.
Reals(single, double) == [size \in {2, 3} |-> IF size = 2 THEN single ELSE double]
\* a mode byte, then the address of the operand; no mode, no code
Moded(route, modes, x) ==
  IF x.sized /\ x.size \in DOMAIN modes
  THEN Opcode(route) \o Byte(modes[x.size]) \o Address(x) ELSE Rejected

FPUBinaryOp(route, integral, pop, args) ==
  LET toZero == args[2].id = 0
  IN  CASE args = <<>> -> IF pop /\ ~integral THEN Opcode(route) \o Byte(18) ELSE Rejected
        [] Len(args) = 1 /\ args[1].kind = "mem" /\ ~pop ->
             Moded(route, IF integral THEN <<5, 6>> ELSE Reals(3, 4), args[1])
        [] Len(args) = 2 /\ args[1].kind = "st" /\ args[2].kind = "st" /\ ~integral ->
             IF toZero THEN Opcode(route) \o Byte(args[1].id * 16 + (IF pop THEN 2 ELSE 1))
             ELSE IF args[1].id = 0 /\ ~pop THEN Opcode(route) \o Byte(args[2].id * 16)
             ELSE Rejected
        [] OTHER -> Rejected

FPURegisterOp(route, x) == IF x.kind = "st" THEN Opcode(route) \o Byte(x.id) ELSE Rejected

\* route.ext is the mode, size the only size code the operand may state
FSTLD_WORD(route, size, x) ==
  IF x.kind = "mem" /\ Agrees(x, size) THEN Opcode(route) \o Address(x) ELSE Rejected

FLD(route, integral, x) ==
  CASE x.kind = "st"  -> Opcode(route) \o Byte(x.id * 16)
    [] x.kind = "mem" -> Moded(route, IF integral THEN <<3, 4, 5>> ELSE Reals(1, 2), x)
    [] OTHER -> Rejected

\* the modes of the stores to memory, by the size of the operand
StoreModes(integral, pop, trunc) ==
  CASE integral /\ ~pop           -> <<6, 8>>
    [] integral /\ pop /\ ~trunc  -> <<7, 9, 10>>
    [] integral /\ pop /\ trunc   -> <<11, 12, 13>>
    [] ~integral                  -> IF pop THEN Reals(3, 5) ELSE Reals(2, 4)
FST(route, integral, pop, trunc, x) ==
  CASE x.kind = "st" /\ ~integral -> Opcode(route) \o Byte(x.id * 16 + (IF pop THEN 1 ELSE 0))
    [] x.kind = "mem" -> Moded(route, StoreModes(integral, pop, trunc), x)
    [] OTHER -> Rejected

\* pops: how many values the comparison pops; unordered sets the top bit.
\* Two operands are written as FCOMI and FCOMIP whatever the mnemonic is.
FCOM(route, integral, pops, eflags, unordered, args) ==
  LET quiet == IF unordered THEN 128 ELSE 0
      modes == IF integral THEN <<7 + pops, 9 + pops>> ELSE Reals(3 + pops, 5 + pops)
  IN  CASE args = <<>> ->
             IF integral \/ eflags THEN Rejected ELSE Opcode(route) \o Byte(quiet + 16 + pops)
        [] Len(args) = 1 ->
             IF pops = 2 \/ eflags THEN Rejected
             ELSE IF args[1].kind = "st"
                  THEN IF integral THEN Rejected
                       ELSE Opcode(route) \o Byte(quiet + args[1].id * 16 + pops)
             ELSE IF args[1].kind = "mem"
                  THEN Moded(route, [s \in DOMAIN modes |-> quiet + modes[s]], args[1])
             ELSE Rejected
        [] Len(args) = 2 ->
             IF /\ ~integral /\ pops # 2
                /\ args[1].kind = "st" /\ args[2].kind = "st" /\ args[1].id = 0
             THEN Opcode(route) \o Byte(quiet + args[2].id * 16 + 11 + pops) ELSE Rejected

FMOVcc(route, condition, x, y) ==
  IF x.kind = "st" /\ x.id = 0 /\ y.kind = "st"
  THEN Opcode(route) \o Byte(y.id * 16 + condition) ELSE Rejected

\* FXCH: without an operand it is ST(1)
FXCH(route, args) ==
  IF args = <<>> THEN Opcode(route) \o Byte(1) ELSE FPURegisterOp(route, args[1])

=============================================================================
