---------------------------- MODULE MCAssembling ----------------------------
(***************************************************************************)
(* Lines of assembly for TLC: every mnemonic of the routing table, with    *)
(* operands that bring out what its format has to tell apart.              *)
(***************************************************************************)
EXTENDS Assembling

Now(v) == Integer(v, "now")
At1(regs, base) == [regs |-> regs, base |-> base, size |-> {}]
NoRegs == [r \in {} |-> 0]
RBX == <<1, 3>>
RCX == <<2, 3>>
R13 == <<13, 3>>

\* two registers and a displacement; a symbol of another file; nothing but a register
Indexed == At1((RBX :> 4) @@ (R13 :> 1), Now(16))
Symbol == At1(NoRegs, Integer(300, "link"))
Pointer == At1(RCX :> 1, Now(0))

\* every address with at most two registers of a size and a small multiplier,
\* and some that cannot be encoded
Multipliers == {1, 2, 3, 4, 6, 8, 9}
Bases == {Now(0), Now(200), Now(-2), Integer(70000, "end"), Integer(5, "link"), Float("now")}
Addresses ==
  {At1(NoRegs, b) : b \in Bases}
    \cup {At1(<<0, s>> :> m, b) : s \in 0..3, m \in Multipliers, b \in Bases}
    \cup {At1((<<0, s>> :> m) @@ (<<15, t>> :> n), b) :
            s \in {3}, t \in {2, 3}, m \in Multipliers, n \in Multipliers, b \in {Now(0), Integer(5, "link")}}
    \cup {At1((<<0, 3>> :> 1) @@ (<<1, 3>> :> m) @@ (<<2, 3>> :> 1), Now(0)) : m \in {1, 2}}
    \cup {[At1(NoRegs, b) EXCEPT !.size = {s}] : s \in 0..3, b \in {Now(7), Integer(7, "end")}}
Immediates == {Now(0), Now(4660), Now(-1), Integer(70000, "end"), Integer(5, "link"), Float("now"), Float("link")}

Parts == {Reg(0, 3), Reg(13, 2), Reg(2, 1), Reg(9, 0), HighReg(3)}
Cells == {Mem(Indexed), SizedMem(Symbol, 2)}
SizedCells == {SizedMem(Indexed, s) : s \in 0..3} \cup {Mem(Symbol)}
Numbers == {Imm(Now(0)), SizedImm(Now(0), 2), Strict(Imm(Now(0))), Imm(Integer(4660, "link")), SizedImm(Now(77), 2)}
Stacked == {St(0), St(3)}
Vectors == {VReg(3, 4), VReg(9, 4), VReg(9, 5), VReg(17, 6)}
VectorCells == {Mem(Indexed)} \cup {SizedMem(Pointer, s) : s \in 2..6}
Masks == {NoMask, Masked(Now(5)), ZeroMasked(Integer(165, "link")), ZeroMasked(Now(-1))}

Pairs(xs, ys) == {<<a, b>> : a \in xs, b \in ys}
One(xs) == {<<a>> : a \in xs}

\* Everything its handler tells apart, for one mnemonic of a handler
Thorough ==
  {<<"MOV">>, <<"INC">>, <<"PUSH">>, <<"BTS">>, <<"MOVSX">>, <<"BSF">>, <<"ROL">>, <<"LEA">>, <<"MULX">>, <<"CMP">>,
   <<"MOVDQU", "16">>, <<"ADD", "PS">>, <<"PADDS", "W">>, <<"SQRT", "SD">>, <<"CMP", "PD">>}
Some == {Reg(2, 3), Reg(13, 2), Reg(1, 0), HighReg(2)}
All(form) ==
  CASE form = "UnaryOp" -> One(Parts \cup SizedCells)
    [] form = "IMMRM" -> One(Parts \cup SizedCells \cup Numbers)
    [] form \in {"BinaryOp", "BinaryOp_NoBMem", "CMP"} ->
         Pairs(Some \cup Cells, Some \cup Cells \cup Numbers) \cup Pairs(Parts \cup SizedCells, {Imm(e) : e \in Immediates})
    [] form \in {"MOVxX", "BSx"} -> Pairs(Parts, Parts \cup SizedCells)
    [] form = "Shift" -> Pairs(Parts \cup SizedCells, {CL, Imm(Now(37)), Imm(Now(200)), Reg(1, 0)})
    [] form = "LEA" -> Pairs({Reg(13, 2)}, {Mem(a) : a \in Addresses})
    [] form = "RR_RM" -> {<<x, y, z>> : x \in Some, y \in Some, z \in Some \cup Cells}
    [] form = "VPUMove" -> Pairs(Vectors \cup VectorCells, Vectors \cup VectorCells)
    [] form = "VPUUnary" -> Pairs(Vectors, Vectors \cup VectorCells)
    [] form = "VPUBinary" -> Pairs(Vectors, Vectors \cup VectorCells) \cup {<<x, VReg(9, 5), z>> : x \in Vectors, z \in Vectors \cup VectorCells}
    [] form = "VPU_FCMP" ->
         {<<VReg(3, 4), VReg(9, 4), Imm(Now(k))>> : k \in 0..32}
           \cup {<<VReg(3, 5), VReg(9, 5), z, Imm(Now(k))>> : z \in Vectors \cup VectorCells, k \in {0, 31}}

\* and a few operands of every kind for the others
Binaries ==
  {<<Reg(2, 3), Reg(12, 3)>>, <<Reg(8, 2), Mem(Indexed)>>, <<HighReg(1), Reg(3, 0)>>, <<Mem(Symbol), Reg(13, 1)>>,
   <<Reg(13, 2), Imm(Integer(4660, "link"))>>, <<SizedMem(Indexed, 1), Imm(Now(0))>>, <<Mem(Pointer), SizedImm(Now(-1), 2)>>}
VectorPairs ==
  {<<VReg(17, 6), VReg(3, 6)>>, <<VReg(3, 4), Mem(Indexed)>>, <<VReg(3, 4), SizedMem(Pointer, 3)>>}
Operands(form) ==
  CASE form = "NoArgOp" -> {<<>>}
    [] form \in {"UnaryOp", "POP"} -> {<<Reg(13, 2)>>, <<Reg(9, 0)>>, <<HighReg(1)>>, <<SizedMem(Symbol, 3)>>}
    [] form = "IMMRM" -> {<<Reg(13, 2)>>, <<HighReg(1)>>, <<Imm(Integer(4660, "end"))>>, <<SizedMem(Indexed, 1)>>}
    [] form = "IMUL" ->
         One(Some \cup Cells) \cup Binaries
           \cup {<<x, y, z>> : x \in {Reg(2, 3), HighReg(2)}, y \in Some \cup Cells, z \in Numbers}
    [] form \in {"BinaryOp", "BinaryOp_NoBMem", "BinaryOp_R_RM", "CMP", "XCHG"} -> Binaries
    [] form \in {"MOVxX", "BSx"} -> Pairs({Reg(13, 2), Reg(2, 3)}, {Reg(9, 2), Reg(2, 1), HighReg(1), SizedMem(Symbol, 1)})
    [] form = "Shift" -> Pairs({Reg(13, 2), HighReg(1), SizedMem(Indexed, 1)}, {CL, Imm(Now(37))})
    [] form = "RR_RM" -> {<<Reg(2, 3), Reg(9, 3), Reg(10, 3)>>, <<Reg(2, 2), Reg(9, 2), Mem(Indexed)>>}
    [] form = "DEBUG_mem" -> Pairs(Cells, Numbers)
    [] form \in {"BinaryString", "MOVS"} -> Pairs(SizedCells, SizedCells) \cup Binaries
    [] form = "LODS_string" -> One({Reg(0, s) : s \in 0..3} \cup {HighReg(0), Reg(1, 3)})
    [] form = "UnaryString" -> One(SizedCells)
    [] form = "FPUBinaryOp" -> {<<>>} \cup One(SizedCells) \cup Pairs(Stacked, Stacked)
    [] form = "FCOM" -> {<<>>} \cup One(SizedCells \cup Stacked) \cup Pairs(Stacked, Stacked)
    [] form \in {"FPURegisterOp", "FXCH"} -> {<<>>} \cup One(Stacked)
    [] form \in {"FLD", "FST"} -> One(SizedCells \cup Stacked)
    [] form = "FMOVcc" -> Pairs(Stacked, Stacked)
    [] form = "FSTLD_WORD" -> One(SizedCells)
    [] form = "FNSTSW" -> One(SizedCells \cup {Reg(0, 1), Reg(1, 1)})
    [] form = "MOVx" -> Pairs(Vectors \cup Parts, Vectors \cup Parts \cup VectorCells)
    [] form = "MOVSD" -> {<<>>} \cup Pairs(Vectors, Vectors \cup VectorCells) \cup Pairs(SizedCells, SizedCells)
    [] form \in {"VPUMove", "VPUUnary", "VPUBinary", "VPUBinary_2arg"} -> VectorPairs
    [] form \in {"VPU_FCMP", "CMPSD"} ->
         {<<>>} \cup {<<VReg(3, 4), VReg(9, 4), Imm(Now(k))>> : k \in {7, 30}} \cup Pairs(SizedCells, SizedCells)
    [] form \in {"VPUCVT_scalar_f2i", "VPUCVT_scalar_f2f", "VPUCVT_scalar_i2f"} ->
         Pairs(Vectors \cup Parts, Vectors \cup Parts \cup VectorCells)
    [] form = "VPUCVT_packed" -> Pairs(Vectors, Vectors \cup VectorCells)

Tried(name) ==
  LET form == asm_routing_table[name].form
      masks == IF form \in VectorForms THEN Masks ELSE {NoMask}
  IN  [name : {name}, mask : masks, args : IF name \in Thorough THEN All(form) ELSE Operands(form)]
MCLines == UNION {Tried(name) : name \in DOMAIN asm_routing_table}

=============================================================================
