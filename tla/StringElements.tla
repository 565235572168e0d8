--------------------------- MODULE StringElements ---------------------------
(***************************************************************************)
(* What MOVS, CMPS, LODS, STOS and SCAS do with one element: the helpers    *)
(* of ProcessSTRING in src/src/Instructions.cpp.                           *)
(*                                                                         *)
(* They work on a record of the contents of memory, RSI, RDI, RAX and ZF,  *)
(* with the fault an access ended in.  The other status flags of CMPS and  *)
(* SCAS are those of Alu's CMP.                                            *)
(***************************************************************************)
EXTENDS Memory

CONSTANTS
  Narrow      (* operand sizes whose register writes keep the bytes above  *)

ASSUME NarrowAssumption == Narrow \subseteq 1 .. PtrSize

VARIABLES
  instr       (* the instruction                                           *)

(* The twelve modes and the undefined ones (UND), at each operand size, in  *)
(* the direction DF gives.                                                 *)
Searches == {"CMPS", "SCAS"}
Instruction ==
  {i \in [op : {"MOVS", "CMPS", "LODS", "STOS", "SCAS", "UND"},
          rep : {"", "REP", "REPE", "REPNE"}, size : 1 .. PtrSize, DF : BOOLEAN] :
     i.rep # "" => i.op # "UND" /\ (i.op \in Searches <=> i.rep # "REP")}

(* What the helpers read and write.                                        *)
Works == [mem : [0 .. (mem_size - 1) -> Byte], RSI : Int, RDI : Int, RAX : Int,
          ZF : BOOLEAN, fault : {"None", "OutOfBounds", "AccessViolation", "UndefinedBehavior"}]

(* A register after n bytes of it were written.                            *)
Merged(reg, n, v) == IF n \in Narrow THEN reg - (reg % Power[n]) + v ELSE v

\* Mutant: a pointer runs below zero.
MovedUnwrapped(pos) == IF instr.DF THEN pos - instr.size ELSE (pos + instr.size) % W

(* RSI and RDI move by the operand size, in the direction of DF.           *)
Moved(pos) == (IF instr.DF THEN pos - instr.size ELSE pos + instr.size) % W

FirstOf(fault, other) == IF fault # "None" THEN fault ELSE other

ElementFault(w) ==
  CASE instr.op = "MOVS" -> FirstOf(ReadFault(w.RSI, instr.size), WriteFault(w.RDI, instr.size))
    [] instr.op = "CMPS" -> FirstOf(ReadFault(w.RSI, instr.size), ReadFault(w.RDI, instr.size))
    [] instr.op = "LODS" -> ReadFault(w.RSI, instr.size)
    [] instr.op = "STOS" -> WriteFault(w.RDI, instr.size)
    [] instr.op = "SCAS" -> ReadFault(w.RDI, instr.size)
    [] instr.op = "UND" -> "UndefinedBehavior"

AtSource(w) == Held(w.mem, w.RSI, instr.size)
AtDestination(w) == Held(w.mem, w.RDI, instr.size)
Accumulator(w) == w.RAX % Power[instr.size]

\* Mutant: MOVS moves one byte whatever the size is.
MOVSByte(w) ==
  [w EXCEPT !.mem = Written(w.mem, w.RDI, 1, AtSource(w)),
            !.RSI = Moved(w.RSI), !.RDI = Moved(w.RDI)]

MOVS(w) ==
  [w EXCEPT !.mem = Written(w.mem, w.RDI, instr.size, AtSource(w)),
            !.RSI = Moved(w.RSI), !.RDI = Moved(w.RDI)]
CMPS(w) ==
  [w EXCEPT !.ZF = AtSource(w) = AtDestination(w),
            !.RSI = Moved(w.RSI), !.RDI = Moved(w.RDI)]
LODS(w) ==
  [w EXCEPT !.RAX = Merged(w.RAX, instr.size, AtSource(w)), !.RSI = Moved(w.RSI)]
STOS(w) ==
  [w EXCEPT !.mem = Written(w.mem, w.RDI, instr.size, Accumulator(w)), !.RDI = Moved(w.RDI)]
SCAS(w) ==
  [w EXCEPT !.ZF = Accumulator(w) = AtDestination(w), !.RDI = Moved(w.RDI)]

(* The work after one more element; a fault leaves it as it was.           *)
Element ==
  [w \in Works |->
     IF ElementFault(w) # "None" THEN [w EXCEPT !.fault = ElementFault(w)]
     ELSE CASE instr.op = "MOVS" -> MOVS(w)
            [] instr.op = "CMPS" -> CMPS(w)
            [] instr.op = "LODS" -> LODS(w)
            [] instr.op = "STOS" -> STOS(w)
            [] OTHER -> SCAS(w)]

\* Mutant: an element that ends a REPNE does not end it.
GoesOnUnmatched(w) == w.fault = "None" /\ (instr.rep = "REPE" => w.ZF)

(* After an element, a repeated instruction goes on.                       *)
GoesOn(w) ==
  /\ w.fault = "None"
  /\ instr.rep = "REPE" => w.ZF
  /\ instr.rep = "REPNE" => ~w.ZF

=============================================================================
