----------------------------- MODULE StringOps ------------------------------
(***************************************************************************)
(* A client in a string instruction: ProcessSTRING in                      *)
(* src/src/Instructions.cpp, as Tick executes it.                          *)
(*                                                                         *)
(* With OTRF a repeated instruction is one Tick.  Without it a Tick        *)
(* handles one element and backs RIP up to come to the instruction again;  *)
(* between two Ticks the host may set or clear OTRF or stop the client.    *)
(***************************************************************************)
EXTENDS StringElements

CONSTANTS
  Instructions,   (* the instructions looked at                            *)
  Contents,       (* what memory may hold,                                 *)
  Pointers,       (* where RSI and RDI may point,                          *)
  Numbers,        (* and what RCX and RAX may hold, when it is reached     *)
  Barriers        (* where the read-only part of memory may end            *)

ASSUME StringAssumption ==
  /\ Instructions \subseteq Instruction
  /\ \A m \in Contents : m \in Seq(Byte) /\ Len(m) <= MaxAlloc
  /\ Pointers \subseteq Word /\ Numbers \subseteq Word /\ Barriers \subseteq Word

VARIABLES
  RSI, RDI, RCX, RAX, ZF,
  OTRF,
  past,                     (* RIP is past the instruction                 *)
  running, error,
  start, startRCX           (* history: work and RCX when it was reached   *)

regVars == <<RSI, RDI, RCX, RAX, ZF>>
memoryVars == <<mem_size, mem_cap, limitVars, max_mem_size>>
history == <<start, startRCX>>
vars == <<instr, mem, memoryVars, regVars, OTRF, past, running, error, history>>

Work == [mem |-> mem, RSI |-> RSI, RDI |-> RDI, RAX |-> RAX, ZF |-> ZF, fault |-> "None"]

Init ==
  /\ instr \in Instructions
  /\ \E m \in Contents : mem = [a \in 0 .. (Len(m) - 1) |-> m[a + 1]] /\ mem_size = Len(m)
  /\ mem_cap = mem_size /\ min_mem_size = mem_size /\ max_mem_size = mem_size
  /\ ReadonlyBarrier \in Barriers /\ StackBarrier = ReadonlyBarrier
  /\ RSI \in Pointers /\ RDI \in Pointers /\ RCX \in Numbers /\ RAX \in Numbers
  /\ ZF \in BOOLEAN /\ OTRF \in BOOLEAN
  /\ past = FALSE /\ running = TRUE /\ error = "None"
  /\ start = Work /\ startRCX = RCX

-----------------------------------------------------------------------------

AtInstruction == running /\ ~past

(* The machine after work w: a fault stops the client.                     *)
Becomes(w) ==
  /\ mem' = w.mem /\ RSI' = w.RSI /\ RDI' = w.RDI /\ RAX' = w.RAX /\ ZF' = w.ZF
  /\ error' = w.fault /\ running' = (w.fault = "None")
  /\ UNCHANGED <<instr, memoryVars, OTRF, history>>

(* MOVS, CMPS, LODS, STOS and SCAS without a prefix, and undefined modes.  *)
Once ==
  /\ AtInstruction /\ instr.rep = ""
  /\ Becomes(Element[Work])
  /\ past' = TRUE /\ UNCHANGED RCX

Loops == [w : Works, left : Word, on : BOOLEAN]

(* The loop of a repeated instruction, from work w and count n: every      *)
(* element that does not fault is counted, then the condition is tested.   *)
LoopFrom(w, n) ==
  LET next == [p \in Loops |->
        LET q == Element[p.w]
        IN [w |-> q, on |-> GoesOn(q),
            left |-> IF q.fault = "None" THEN p.left - 1 ELSE p.left]]
      loop[k \in 0 .. n] ==
        IF k = 0 THEN [w |-> w, left |-> n, on |-> TRUE]
        ELSE IF loop[k - 1].on THEN next[loop[k - 1]] ELSE loop[k - 1]
  IN loop[n]

WholeLoop ==
  /\ AtInstruction /\ instr.rep # "" /\ OTRF
  /\ \E end \in {LoopFrom(Work, RCX)} : Becomes(end.w) /\ RCX' = end.left
  /\ past' = TRUE

\* Mutant: an element is counted before it is handled.
LeftCountedFirst(w) == RCX - 1

(* What is left of the count after an element that ended in work w.        *)
Left(w) == IF w.fault = "None" THEN RCX - 1 ELSE RCX

\* Mutant: RIP is backed up although no count is left.
NoneLeftAgain == RCX = 0 /\ UNCHANGED vars

(* The Tick that finds no count left goes past the instruction.            *)
NoneLeft ==
  /\ RCX = 0
  /\ past' = TRUE
  /\ UNCHANGED <<instr, mem, memoryVars, regVars, OTRF, running, error, history>>

(* One element, and RIP back at the instruction if it goes on.             *)
OneElement ==
  /\ AtInstruction /\ instr.rep # "" /\ ~OTRF
  /\ \/ NoneLeft
     \/ /\ RCX # 0
        /\ \E w \in {Element[Work]} :
             Becomes(w) /\ RCX' = Left(w) /\ past' = ~GoesOn(w)

Tick == Once \/ WholeLoop \/ OneElement

(* The host, between two Ticks.                                            *)
SetOTRF ==
  /\ OTRF' = ~OTRF
  /\ UNCHANGED <<instr, mem, memoryVars, regVars, past, running, error, history>>

Stop ==
  /\ AtInstruction
  /\ running' = FALSE
  /\ UNCHANGED <<instr, mem, memoryVars, regVars, OTRF, past, error, history>>

Next == Tick \/ SetOTRF \/ Stop

Spec == Init /\ [][Next]_vars /\ WF_vars(Tick)

-----------------------------------------------------------------------------
(* Correctness.                                                            *)

TypeOK ==
  /\ mem \in [0 .. (mem_size - 1) -> Byte]
  /\ RSI \in Word /\ RDI \in Word /\ RCX \in Word /\ RAX \in Word
  /\ ZF \in BOOLEAN /\ OTRF \in BOOLEAN /\ past \in BOOLEAN /\ running \in BOOLEAN
  /\ error \in {"None", "OutOfBounds", "AccessViolation", "UndefinedBehavior"}

Over == past \/ ~running

(* In one Tick or in many, with OTRF set or cleared on the way, a string   *)
(* instruction does the same thing.                                        *)
Whole == INSTANCE StringInstruction WITH
  work <- IF Over THEN [Work EXCEPT !.fault = error] ELSE start,
  RCX <- IF Over THEN RCX ELSE startRCX,
  ended <- Over
WholeInstruction == Whole!Spec

(* The i-th element from where a pointer stood when the instruction was    *)
(* reached.                                                                *)
Place(pos, i) == IF instr.DF THEN pos - i * instr.size ELSE pos + i * instr.size
Extent(pos, n) == {Place(pos, i) + j : i \in 0 .. (n - 1), j \in 0 .. (instr.size - 1)}

(* REP MOVS copies a block: where the destination does not run ahead into  *)
(* the source, it ends up with what the source held.                       *)
Behind ==
  \/ Extent(start.RSI, startRCX) \cap Extent(start.RDI, startRCX) = {}
  \/ IF instr.DF THEN start.RDI >= start.RSI ELSE start.RDI <= start.RSI

MovesCopy ==
  past /\ error = "None" /\ instr.op = "MOVS" /\ instr.rep = "REP" /\ Behind =>
    \A i \in 0 .. (startRCX - 1) :
      Held(mem, Place(start.RDI, i), instr.size) = Held(start.mem, Place(start.RSI, i), instr.size)

(* A repeated search stops at the first element that ends it, and ZF and   *)
(* RCX tell which that was, or that there was none.                        *)
Equal(i) ==
  Held(mem, Place(start.RDI, i), instr.size) =
    IF instr.op = "SCAS" THEN RAX % Power[instr.size]
    ELSE Held(mem, Place(start.RSI, i), instr.size)
EndsIt(i) == Equal(i) = (instr.rep = "REPNE")

SearchStopsAtFirst ==
  past /\ error = "None" /\ instr.op \in Searches /\ instr.rep # "" /\ startRCX > 0 =>
    LET last == startRCX - RCX - 1
    IN /\ \A i \in 0 .. (last - 1) : ~EndsIt(i)
       /\ EndsIt(last) \/ RCX = 0
       /\ ZF = Equal(last)

(* It comes to an end as long as the machine is ticked.                    *)
InstructionEnds == <>Over

=============================================================================
