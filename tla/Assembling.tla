----------------------------- MODULE Assembling -----------------------------
(***************************************************************************)
(* One line of assembly on its way through the program: the assembler      *)
(* writes its code, with holes for the expressions it cannot evaluate yet, *)
(* fills what it can at the end of the file (_ElimHoles), the linker fills *)
(* the rest (_FixAllHoles), and the machine reads the code back, one       *)
(* instruction after the other.                                            *)
(*                                                                         *)
(* The code is that of an earlier line (a NOP) and of the line.  Lines is  *)
(* the set of lines written: a mnemonic, a mask for the first operand, and *)
(* the operands.                                                           *)
(***************************************************************************)
EXTENDS AsmTables, AsmMeaning

CONSTANT Lines
ASSUME LinesAssumption ==
  \A l \in Lines : /\ l.name \in DOMAIN asm_routing_table /\ IsMask(l.mask)
                   /\ l.args \in Seq(Range(l.args)) /\ \A x \in Range(l.args) : IsOperand(x)

\* about the table alone: nothing in it depends on a constant
ASSUME TableAssumption == \A name \in DOMAIN asm_routing_table : IsRow(asm_routing_table[name])

VARIABLES line,    \* what is written
          stage,   \* how far it is
          text,    \* the text segment
          holes,   \* the holes in it
          pc,      \* where the next instruction is read
          read     \* the instructions read so far
vars == <<line, stage, text, holes, pc, read>>

Earlier == <<Op("NOP")>>

Init ==
  /\ line \in Lines
  /\ stage = "written"
  /\ text = Earlier
  /\ holes = <<>>
  /\ pc = 1
  /\ read = <<>>

-----------------------------------------------------------------------------
\* What the handlers make of the line, if the registers of its addresses are
\* looked for in this order
Written(order) == Laid(text, CodeOf(line.name, line.mask, Parsed(line.args, order)))

Assemble ==
  /\ stage = "written"
  /\ \E code \in {Written(order) : order \in SetToSeqs(Registers(line.args))} :
       /\ text' = code.text
       /\ holes' = code.holes
       /\ stage' = IF code.ok THEN "assembled" ELSE "rejected"
  /\ UNCHANGED <<line, pc, read>>

\* a hole is filled, kept for later, or an error
Fill1(at, hole, code) ==
  IF ~Evaluates(hole, at) THEN [code EXCEPT !.holes = <<hole>> \o @]
  ELSE [code EXCEPT !.ok = @ /\ ~Unpatchable(hole),
                    !.text = IF Unpatchable(hole) THEN @ ELSE Patched(@, hole)]
\* from the last hole to the first
Filled(at) ==
  FoldRight(LAMBDA hole, code : Fill1(at, hole, code), holes, [text |-> text, holes |-> <<>>, ok |-> TRUE])
Fill(at, then) ==
  /\ \E code \in {Filled(at)} :
       /\ text' = code.text
       /\ holes' = code.holes
       /\ stage' = IF code.ok THEN then ELSE "rejected"
  /\ UNCHANGED <<line, pc, read>>
EndOfFile == stage = "assembled" /\ Fill("end", "ended")
Link == stage = "ended" /\ Fill("link", "linked")

\* the machine gets to the next instruction
ReadNext ==
  /\ stage = "linked"
  /\ \E instruction \in {ReadInstruction(text, pc)} :
       /\ read' = Append(read, Understood(instruction))
       /\ pc' = instruction.next
       /\ stage' = IF instruction.ops = Undefined.ops THEN "undefined"
                   ELSE IF instruction.next > Len(text) THEN "done" ELSE "linked"
  /\ UNCHANGED <<line, text, holes>>

Next == Assemble \/ EndOfFile \/ Link \/ ReadNext
Spec == Init /\ [][Next]_vars

-----------------------------------------------------------------------------
\* The text is bytes, and every hole is inside of it.
TypeOK ==
  /\ stage \in {"written", "assembled", "ended", "linked", "undefined", "done", "rejected"}
  /\ \A k \in DOMAIN text : text[k] \in 0..255
  /\ \A k \in DOMAIN holes : holes[k].at + holes[k].size <= Len(text) + 1
  /\ pc \in Nat

\* A displacement is cut to the size of its address, and never extended by its sign.
Overlong(addr) == \E k \in (Bytes(AddressSize(addr)) + 1)..8 : BytesOf(addr.base, 8)[k] # 0
Unsized(x) == x.kind = "mem" /\ ~x.sized
\* Lines the program is known to get wrong.  SETA and MOVA are listed twice.  A
\* shift of a value in memory is written with the wrong address settings.  Of
\* the comparisons of x87, those with two registers do not all set the flags
\* they should, and those with an integer do not all pop; FILD loads a register.
\* BT and BEXTR take a value in memory of no stated size for a byte, and CMP with
\* a zero does not mind two sizes.
Misassembled(name, args) ==
  \/ name \in {<<"SET", "A">>, <<"MOV", "A">>}
  \/ name \in ShiftNames /\ args[1].kind = "mem"
  \/ name[1] \in FpuCompareNames /\ (Len(args) = 2 \/ name[1] \in {"FICOM", "FICOMP"})
  \/ name = <<"FILD">> /\ args[1].kind = "st"
  \/ name[1] \in {"BT", "BTS", "BTR", "BTC", "BEXTR"} /\ Unsized(args[1]) /\ args[2].kind = "imm"
  \/ name = <<"CMP">> /\ InstantZero(args[2]) /\ Cardinality(Stated(args)) > 1
  \/ \E i \in DOMAIN args : Addressed(args[i]) /\ Overlong(args[i].addr)
Sound == ~Misassembled(Unprefix(line.name), line.args)

\* What the machine reads back is what the line says, to the end of its code,
\* for every line but those; no line becomes code the machine has no instruction for.
Read == <<Says(<<"NOP">>, <<>>, <<>>)>> \o Program(line.name, line.mask, line.args)
DecodesAsWritten ==
  /\ stage # "undefined"
  /\ stage = "done" /\ Sound => read = Read /\ pc = Len(text) + 1
\* An address has an encoding when its registers take at most two places, one of
\* them scaled, all have one size that is not a byte, and there are floats of it
\* when the displacement is one.
Scaled(mult) == mult - (mult % 2)
Encodable(addr) ==
  LET plain == {r \in DOMAIN addr.regs : addr.regs[r] % 2 = 1}
      scaled == {r \in DOMAIN addr.regs : Scaled(addr.regs[r]) # 0}
      sizes == RegisterSizes(addr)
  IN  /\ Cardinality(plain) + Cardinality(scaled) <= 2
      /\ Cardinality(scaled) <= 1 /\ \A r \in scaled : Scaled(addr.regs[r]) \in {2, 4, 8}
      /\ Cardinality(sizes) <= 1 /\ 0 \notin sizes
      /\ addr.base.float => AddressSize(addr) \in 2..3
\* Two operands of one size are enough when one of them states it, unless the
\* value is a float that has no encoding of that size.
OneSize(args) ==
  /\ Len(args) = 2 /\ args[1].kind \in {"reg", "mem"} /\ args[2].kind \in {"reg", "mem", "imm"}
  /\ ~(args[1].kind = "mem" /\ args[2].kind = "mem")
  /\ Cardinality(Stated(args)) = 1 /\ Stated(args) \subseteq 0..3
  /\ args[2].kind = "imm" /\ args[2].val.float => Stated(args) \subseteq 2..3
\* CMP with a plain zero forgets the size stated with the zero.
ForgetsSize(args) == Unsized(args[1]) /\ InstantZero(args[2])
WellFormed(name, m, args) ==
  LET row == asm_routing_table[name]
  IN  /\ m.expr = <<>>
      /\ \A i \in DOMAIN args : Addressed(args[i]) => Encodable(args[i].addr)
      /\ \/ row.form = "LEA" /\ Len(args) = 2
            /\ args[1].kind = "reg" /\ args[1].size # 0 /\ args[2].kind = "mem"
         \/ /\ row.form \in {"BinaryOp", "CMP"} /\ row.mask = AnySize /\ row.imm = Follows
            /\ OneSize(args) /\ ~(row.form = "CMP" /\ ForgetsSize(args))
\* No such line is an error, in whatever order the registers of its address are
\* looked for, and whenever its symbols are known.
AcceptsWellFormed == stage = "rejected" => ~WellFormed(line.name, line.mask, line.args)

=============================================================================
