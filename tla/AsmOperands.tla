---------------------------- MODULE AsmOperands ----------------------------
(***************************************************************************)
(* The operands of an assembly line and the code they are written as       *)
(* (class AssembleArgs): registers, immediates, address expressions, the   *)
(* bytes appended to the text segment and the holes left for expressions   *)
(* that cannot be evaluated yet.                                           *)
(*                                                                         *)
(* A size is a size code: 0..3 for 1, 2, 4 and 8 bytes, 4..6 for the       *)
(* widths of XMM, YMM and ZMM.  Text parsing is abstracted away: an        *)
(* operand is the record its parser produces, an address expression the    *)
(* multiplier of every register in it, what is left of it once the         *)
(* registers are gone (its base) and its explicit size, if it has one.     *)
(***************************************************************************)
EXTENDS Integers, Sequences, FiniteSets, SequencesExt

Bytes(size) == 2 ^ size

\* An expression is the value it will have in the end, whether that value is
\* a floating-point one, and when its symbols are known: at the line, at the
\* end of the file, or at link time only.  An integer is one of 24 bits here:
\* the bytes above are its sign.
Known == {"now", "end", "link"}
Expressions == [val : -(2 ^ 23)..(2 ^ 23 - 1), float : BOOLEAN, known : Known]
Integer(v, when) == [val |-> v, float |-> FALSE, known |-> when]
Float(when) == [val |-> 0, float |-> TRUE, known |-> when]

\* The n low bytes of an integer, least significant first; of a float (there is
\* one in the model, 1.5) the 8 bytes of the double or the 4 of the float.
IntegerBytes(v, n) ==
  [k \in 1..n |-> IF k <= 3 THEN (v \div 256 ^ (k - 1)) % 256 ELSE IF v < 0 THEN 255 ELSE 0]
FloatBytes(n) == IF n = 8 THEN <<0, 0, 0, 0, 0, 0, 248, 63>> ELSE <<0, 0, 192, 63>>
BytesOf(e, n) == IF e.float THEN FloatBytes(n) ELSE IntegerBytes(e.val, n)

Reg(id, size)   == [kind |-> "reg", id |-> id, size |-> size, high |-> 0]
HighReg(id)     == [kind |-> "reg", id |-> id, size |-> 0, high |-> 1]
St(id)          == [kind |-> "st", id |-> id]
VReg(id, size)  == [kind |-> "vreg", id |-> id, size |-> size]
Imm(e)          == [kind |-> "imm", size |-> 3, sized |-> FALSE, strict |-> FALSE, val |-> e]
SizedImm(e, s)  == [Imm(e) EXCEPT !.size = s, !.sized = TRUE]
Strict(x)       == [x EXCEPT !.strict = TRUE]
Mem(addr)       == [kind |-> "mem", size |-> 0, sized |-> FALSE, addr |-> addr]
SizedMem(addr, s) == [kind |-> "mem", size |-> s, sized |-> TRUE, addr |-> addr]

\* the registers that have a name: only the first four have a high byte, and the
\* upper half of the vector registers only as ZMM
CPURegisterInfo == {Reg(id, size) : id \in 0..15, size \in 0..3} \cup {HighReg(id) : id \in 0..3}
FPURegisterInfo == {St(id) : id \in 0..7}
VPURegisterInfo ==
  {VReg(id, size) : id \in 0..15, size \in {4, 5}} \cup {VReg(id, 6) : id \in 0..31}
\* the multiplier of a register that is used is not zero
IsAddress(addr) ==
  /\ DOMAIN addr.regs \subseteq (0..15) \X (0..3) /\ \A r \in DOMAIN addr.regs : addr.regs[r] \in Nat \ {0}
  /\ addr.base \in Expressions /\ addr.size \subseteq 0..3
IsOperand(x) ==
  CASE x.kind = "reg"  -> x \in CPURegisterInfo
    [] x.kind = "st"   -> x \in FPURegisterInfo
    [] x.kind = "vreg" -> x \in VPURegisterInfo
    [] x.kind = "imm"  -> x.size \in 0..3 /\ x.sized \in BOOLEAN /\ x.val \in Expressions
    [] x.kind = "mem"  -> x.size \in 0..6 /\ x.sized \in BOOLEAN /\ IsAddress(x.addr)

-----------------------------------------------------------------------------
(* TryParseAddress: at most two registers, one of them scaled *)

Unused == -1
NoSlots == [r1 |-> Unused, r2 |-> Unused, m1 |-> 0, ok |-> TRUE]
ScaleCode == [k \in {2, 4, 8} |-> IF k = 2 THEN 1 ELSE IF k = 4 THEN 2 ELSE 3]

\* Mutant: a register that is not scaled takes the slot of the scaled one.
PlaceTrivial_R1First(slots, id) ==
  IF slots.r1 = Unused THEN [slots EXCEPT !.r1 = id]
  ELSE IF slots.r2 = Unused THEN [slots EXCEPT !.r2 = id]
  ELSE [slots EXCEPT !.ok = FALSE]
PlaceTrivial(slots, id) ==
  IF slots.r2 = Unused THEN [slots EXCEPT !.r2 = id]
  ELSE IF slots.r1 = Unused THEN [slots EXCEPT !.r1 = id]
  ELSE [slots EXCEPT !.ok = FALSE]
PlaceScaled(slots, id, k) ==
  IF k \in DOMAIN ScaleCode /\ slots.r1 = Unused
  THEN [slots EXCEPT !.r1 = id, !.m1 = ScaleCode[k]]
  ELSE [slots EXCEPT !.ok = FALSE]
\* an odd multiplier has a trivial part, which goes to a slot of its own
Place(slots, id, mult) ==
  LET scaled == mult - (mult % 2)
      first == IF mult % 2 = 1 THEN PlaceTrivial(slots, id) ELSE slots
  IN  IF scaled = 0 THEN first ELSE PlaceScaled(first, id, scaled)

RegisterSizes(addr) == {r[2] : r \in DOMAIN addr.regs} \cup addr.size
AddressSize(addr) ==
  IF RegisterSizes(addr) = {} THEN 3 ELSE CHOOSE s \in RegisterSizes(addr) : TRUE

\* order is the order in which the register table is walked.  The table is a
\* hash map: every order is possible.
Multiplier(addr, r) == IF r \in DOMAIN addr.regs THEN addr.regs[r] ELSE 0
Slots(addr, order) == FoldLeft(LAMBDA slots, r : Place(slots, r[1], Multiplier(addr, r)), NoSlots, order)
ParsedAddress(addr, order) ==
  LET slots == Slots(addr, order)
      based == addr.base.known # "now" \/ addr.base.float \/ addr.base.val # 0
      used(r) == IF r = Unused THEN 0 ELSE 1
  IN  [ok   |-> slots.ok /\ Cardinality(RegisterSizes(addr)) <= 1 /\ AddressSize(addr) \in 1..3,
       a    |-> (IF based THEN 128 ELSE 0) + slots.m1 * 16 + AddressSize(addr) * 4
                  + used(slots.r1) * 2 + used(slots.r2),
       b    |-> used(slots.r1) * slots.r1 * 16 + used(slots.r2) * slots.r2,
       base |-> addr.base]

Addressed(x) == x.kind = "mem"
Registers(args) == UNION {DOMAIN args[i].addr.regs : i \in {j \in DOMAIN args : Addressed(args[j])}}
\* the operands as the format handlers see them
Parsed(args, order) ==
  [i \in DOMAIN args |->
     IF ~Addressed(args[i]) THEN args[i]
     ELSE [kind |-> "mem", size |-> args[i].size, sized |-> args[i].sized,
           addr |-> ParsedAddress(args[i].addr, order)]]
WellParsed(parsed) == \A i \in DOMAIN parsed : Addressed(parsed[i]) => parsed[i].addr.ok

-----------------------------------------------------------------------------
(* Pieces of code: a byte, or an expression of a number of bytes *)

Byte(v) == <<[kind |-> "byte", val |-> v]>>
ExprPiece(size, e) == <<[kind |-> "expr", size |-> size, val |-> e]>>

\* TryAppendAddress
AddressPieces(a, b, base) ==
  Byte(a) \o (IF a % 4 # 0 THEN Byte(b) ELSE <<>>)
          \o (IF a >= 128 THEN ExprPiece(Bytes((a \div 4) % 4), base) ELSE <<>>)
Address(x) == AddressPieces(x.addr.a, x.addr.b, x.addr.base)

\* the immediates that may not say how they are to be written
Bare(x) == x.kind = "imm" /\ ~x.sized /\ ~x.strict
\* An operand combination the handler does not assemble.
Rejected == <<[kind |-> "rejected"]>>

\* A hole is where an expression goes, its size and the expression
Hole(at, size, e) == [at |-> at, size |-> size, expr |-> e]
Evaluates(hole, stage) ==
  CASE stage = "now"  -> hole.expr.known = "now"
    [] stage = "end"  -> hole.expr.known \in {"now", "end"}
    [] stage = "link" -> TRUE
\* TryPatchHole: a float only fits 4 or 8 bytes, an integer is cut to size
Unpatchable(hole) == hole.expr.float /\ hole.size \notin {4, 8}
Patched(text, hole) ==
  [i \in DOMAIN text |-> IF i \in hole.at..(hole.at + hole.size - 1)
                         THEN BytesOf(hole.expr, hole.size)[i - hole.at + 1] ELSE text[i]]

\* TryAppendByte and TryAppendExpr: dummy bytes, patched at once if they can be
Append1(code, piece) ==
  LET hole == Hole(Len(code.text) + 1, piece.size, piece.val)
      text == code.text \o [k \in 1..piece.size |-> 255]
  IN  CASE piece.kind = "byte"      -> [code EXCEPT !.text = Append(@, piece.val)]
        [] piece.kind = "rejected" -> [code EXCEPT !.ok = FALSE]
        [] piece.kind = "expr" /\ ~Evaluates(hole, "now") ->
             [code EXCEPT !.text = text, !.holes = Append(@, hole)]
        [] piece.kind = "expr" /\ Evaluates(hole, "now") ->
             [code EXCEPT !.text = IF Unpatchable(hole) THEN text ELSE Patched(text, hole),
                          !.ok = @ /\ ~Unpatchable(hole)]
Laid(text, pieces) == FoldLeft(Append1, [text |-> text, holes |-> <<>>, ok |-> TRUE], pieces)

=============================================================================
