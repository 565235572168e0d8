------------------------------ MODULE Machine -------------------------------
(***************************************************************************)
(* A CSX64 machine at work: Computer::Tick fetches operations from the     *)
(* loaded program and executes them, between the calls of the host.        *)
(*                                                                         *)
(* The operations are those that act on the machine itself: memory, stack, *)
(* control transfer, flags, system calls and faults.  MOV stands for every *)
(* instruction that computes in registers or accesses one memory operand;  *)
(* what it computes is data.                                               *)
(***************************************************************************)
EXTENDS Syscall

CONSTANTS
  OperandLen    (* bytes of operand after an opcode that takes operands    *)

ASSUME OperandAssumption == OperandLen \in 1 .. PtrSize

(* Opcodes, as they stand in Computer::opcode_handlers.                    *)
NOP == 0
HLT == 1
SYSCALL == 2
STLDF == 3
MOV == 6
JMP == 9
CALL == 12
RET == 13
PUSH == 14
POP == 15
UNKNOWN == B - 1

(* Opcodes with no operand bytes.                                          *)
Bare == {NOP, HLT, SYSCALL, RET, UNKNOWN}
Operands(op) == IF op \in Bare THEN 0 ELSE OperandLen

-----------------------------------------------------------------------------
(* Fetching.                                                               *)

(* Tick refuses to fetch past the text segment, then reads the opcode.     *)
FetchFault ==
  IF RIP >= ExeBarrier THEN "AccessViolation" ELSE ReadFault(RIP, 1)

Ticking == running /\ ~suspended_read

(* The operation at RIP is op.                                             *)
Fetched(op) == Ticking /\ FetchFault = "None" /\ mem[RIP] = op

(* GetMemAdv and GetByteAdv read the operands, wherever they lie, and fault *)
(* where they lie past the end of memory.  OperandsPresent says that they  *)
(* never do, so no action models that fault.                               *)
OperandFault(op) ==
  IF Operands(op) = 0 THEN "None" ELSE ReadFault((RIP + 1) % W, Operands(op))

Decoded(op) == Fetched(op) /\ OperandFault(op) = "None"

After(op) == (RIP + 1 + Operands(op)) % W

FetchFails ==
  /\ Ticking /\ FetchFault # "None"
  /\ Terminate(FetchFault)
  /\ UNCHANGED <<Private, mem, cpuVars>>

-----------------------------------------------------------------------------
(* Operations.                                                             *)

Nop ==
  /\ Decoded(NOP)
  /\ RIP' = After(NOP)
  /\ UNCHANGED <<Private, mem, lifeVars, regs, RSP, RFLAGS>>

(* HLT and the handler of the unassigned opcodes stop the client.          *)
Halt ==
  /\ \/ Decoded(HLT) /\ Terminate("Abort")
     \/ Decoded(UNKNOWN) /\ Terminate("UnknownOp")
  /\ RIP' = (RIP + 1) % W
  /\ UNCHANGED <<Private, mem, regs, RSP, RFLAGS>>

(* A result goes to a register,                                            *)
MovRegister ==
  /\ Decoded(MOV)
  /\ \/ regs' \in Registers /\ UNCHANGED RSP
     \/ RSP' \in Addrs /\ UNCHANGED regs
  /\ RIP' = After(MOV)
  /\ UNCHANGED <<Private, mem, lifeVars, RFLAGS>>

(* an operand comes from memory,                                           *)
MovLoad ==
  /\ Decoded(MOV)
  /\ \E pos \in Addrs, n \in Sizes : Ends(ReadFault(pos, n))
  /\ RIP' = After(MOV)
  /\ UNCHANGED <<Private, mem, regs, RSP, RFLAGS>>

(* or a result goes to memory.                                             *)
MovStore ==
  /\ Decoded(MOV)
  /\ \E pos \in Addrs, n \in Sizes, v \in Values :
       LET fault == WriteFault(pos, n)
       IN /\ Ends(fault)
          /\ mem' = IF fault = "None" THEN Written(mem, pos, n, v) ELSE mem
  /\ RIP' = After(MOV)
  /\ UNCHANGED <<Private, regs, RSP, RFLAGS>>

Push ==
  /\ Decoded(PUSH)
  /\ \E n \in Sizes, v \in Values : PushRaw(n, v)
  /\ RIP' = After(PUSH)
  /\ UNCHANGED <<Private, regs, RFLAGS>>

(* POP to a register.                                                      *)
PopRegister ==
  /\ Decoded(POP)
  /\ \E n \in Sizes : PopRaw(n)
  /\ RIP' = After(POP)
  /\ UNCHANGED <<Private, mem, regs, RFLAGS>>

(* POP to memory: RSP stays raised if the store then fails.                *)
PopMemory ==
  /\ Decoded(POP)
  /\ \E n \in Sizes, pos \in Addrs :
       LET fault == WriteFault(pos, n)
       IN /\ PopFault(RSP, n) = "None"
          /\ RSP' = (RSP + n) % W
          /\ Ends(fault)
          /\ mem' = IF fault = "None" THEN Copied(RSP, pos, n) ELSE mem
  /\ RIP' = After(POP)
  /\ UNCHANGED <<Private, regs, RFLAGS>>

(* JMP, and Jcc and LOOPcc, which may fall through.                        *)
Jump ==
  /\ Decoded(JMP)
  /\ RIP' \in Addrs \cup {After(JMP)}
  /\ UNCHANGED <<Private, mem, lifeVars, regs, RSP, RFLAGS>>

(* CALL jumps first and then pushes the address after itself.              *)
Call ==
  /\ Decoded(CALL)
  /\ RIP' \in Addrs
  /\ PushRaw(PtrSize, After(CALL))
  /\ UNCHANGED <<Private, regs, RFLAGS>>

(* RET goes to whatever address is on the stack.                           *)
Ret ==
  /\ Decoded(RET)
  /\ \/ /\ PopFault(RSP, PtrSize) # "None"
        /\ Terminate(PopFault(RSP, PtrSize))
        /\ RIP' = (RIP + 1) % W
        /\ UNCHANGED RSP
     \/ /\ PopFault(RSP, PtrSize) = "None"
        /\ \E v \in Word : HoldsWord(mem, RSP, v) /\ RIP' = v
        /\ RSP' = (RSP + PtrSize) % W
        /\ UNCHANGED lifeVars
  /\ UNCHANGED <<Private, mem, regs, RFLAGS>>

(* ModifiableFlags masks what POPF and SAHF take from the value popped or  *)
(* from AH.                                                                *)
ModifiableFlags == {"DF"}

\* Mutant: every flag is taken from the value.
MaskedNothing(flags) == flags

Masked(flags) == (RFLAGS \ ModifiableFlags) \cup (flags \cap ModifiableFlags)

PopFlags ==
  /\ Decoded(STLDF)
  /\ \E n \in Sizes :
       /\ PopRaw(n)
       /\ IF PopFault(RSP, n) = "None"
          THEN \E popped \in SUBSET Flag : RFLAGS' = Masked(popped)
          ELSE UNCHANGED RFLAGS
  /\ RIP' = After(STLDF)
  /\ UNCHANGED <<Private, mem, regs>>

SetFlagsFromAH ==
  /\ Decoded(STLDF)
  /\ \E ah \in SUBSET Flag : RFLAGS' = Masked(ah)
  /\ RIP' = After(STLDF)
  /\ UNCHANGED <<Private, mem, lifeVars, regs, RSP>>

Syscall == Decoded(SYSCALL) /\ ProcessSYSCALL

Tick ==
  \/ FetchFails
  \/ Nop \/ Halt \/ MovRegister \/ MovLoad \/ MovStore
  \/ Push \/ PopRegister \/ PopMemory \/ Jump \/ Call \/ Ret
  \/ PopFlags \/ SetFlagsFromAH
  \/ Syscall

(* A machine whose block is not there has no further step: the copy into   *)
(* it, or the first access past its end, is undefined behaviour.           *)
Next == Backed /\ (Load \/ HostCall \/ Tick)

Spec == Init /\ [][Next]_vars

-----------------------------------------------------------------------------
(* Correctness.                                                            *)

TypeOK ==
  /\ mem_size \in Word /\ mem_cap \in Word
  /\ min_mem_size \in Word /\ max_mem_size \in Word
  /\ ExeBarrier \in Word /\ ReadonlyBarrier \in Word /\ StackBarrier \in Word
  /\ running \in BOOLEAN /\ suspended_read \in BOOLEAN
  /\ error \in ErrorCode
  /\ return_value \in Word \cup {Uninit}
  /\ FileDescriptors \in [FD -> FileWrapper \cup {NULL}]
  /\ regs \in [RAX : Word, RBX : Word, RCX : Word, RDX : Word]
  /\ RSP \in Word /\ RIP \in Word
  /\ RFLAGS \in SUBSET Flag
  /\ exe \in Exes \cup {NULL}

(* The capacity realloc records is memory that is there.                   *)
CapacityBacked == DOMAIN mem = 0 .. (mem_cap - 1)

(* While a program is loaded its segments lie in order below the break,    *)
(* whatever sys_brk did: no request takes program, data or stack away.     *)
BreakKeepsProgram ==
  exe # NULL => /\ ExeBarrier <= ReadonlyBarrier
                /\ ReadonlyBarrier <= StackBarrier
                /\ StackBarrier <= min_mem_size
                /\ min_mem_size <= mem_size

(* Wherever Initialize and sys_brk put the break, under any limit of the   *)
(* host, the program is below it and it is within the capacity; and that   *)
(* capacity is really there in every case but one, a size so large that    *)
(* the padding aligned_malloc adds to it wraps.                            *)
BreakSafe ==
  /\ mem_size <= mem_cap
  /\ BreakKeepsProgram
  /\ CapacityBacked <=> Backed

(* What Computer.h promises of realloc, "the contents of the result is     *)
(* identical up to the lesser of the current and requested sizes": a break *)
(* that sys_brk has moved leaves every byte below both breaks as it was.   *)
ReallocKeepsContents ==
  [][mem_size' # mem_size /\ Tick =>
       \A a \in 0 .. (mem_size - 1) :
          a < mem_size' => a \in DOMAIN mem' /\ mem'[a] = mem[a]]_vars

(* An operation in the text never lacks its operands, though they may lie  *)
(* past the text: the words that Initialize pushes are above them, and no  *)
(* sys_brk takes those away.                                               *)
OperandsPresent ==
  Backed /\ running /\ FetchFault = "None" => OperandFault(mem[RIP]) = "None"

(* Text and rodata are what the executable holds, after any sequence of    *)
(* stores, pushes, reads of files, reallocations and host writes.          *)
ReadonlyIntact ==
  exe # NULL /\ Backed =>
    \A a \in 0 .. (ReadonlyBarrier - 1) : mem[a] = Content(exe)[a + 1]

(* The machine stands at a system call that reads.                         *)
AtRead ==
  /\ RIP < ExeBarrier
  /\ exe.text[RIP + 1] = SYSCALL
  /\ Code = sys_read

(* A machine that becomes suspended, or stays so, stands at the system     *)
(* call it will repeat, with the code of that call still in RAX: only the  *)
(* host can move it from there, by writing RIP or RAX itself.              *)
SuspendedAtRead ==
  [][running' /\ suspended_read' =>
       AtRead' \/ SetRegister \/ (running /\ suspended_read /\ ~AtRead)]_vars

(* Files a client opened are open only while a client runs, however it     *)
(* came to an end.                                                         *)
ClientFilesNeedClient ==
  \A fd \in FD : FileDescriptors[fd] # NULL /\ FileDescriptors[fd].client => running

(* A stopped machine keeps its outcome until it is loaded again: the host  *)
(* may still push, pop, read and write it, and those calls may fault, but  *)
(* neither they nor another Terminate, Exit or Tick change how the client  *)
(* ended.                                                                  *)
StoppedIsInert ==
  [][~running /\ (HostCall \/ Tick) => UNCHANGED <<running, error, return_value>>]_vars

(* No write leaves the accessible memory or enters the read-only segments: *)
(* what lies beyond the break stays for when the break comes back.         *)
WritesStayInside ==
  [][mem_cap' = mem_cap /\ mem' # mem /\ (HostCall \/ Tick) =>
       \A a \in DOMAIN mem :
          a < ReadonlyBarrier \/ a >= mem_size => mem'[a] = mem[a]]_vars

(* Nothing outside is reached: no write, and no fetch of operands.         *)
AccessesStayInside == WritesStayInside /\ []OperandsPresent

(* Moving the break keeps what is below both the old and the new one.      *)
BreakPreservesContents ==
  [][Backed' /\ mem_size' # mem_size /\ Tick =>
       \A a \in 0 .. (mem_size - 1) : a < mem_size' => mem'[a] = mem[a]]_vars

(* The data segments are out of the stack's reach: no push, of an operand, *)
(* of a return address or by the host, writes below StackBarrier.          *)
PushesStayInStack ==
  [][Push \/ Call \/ (\E n \in Sizes, v \in Values : HostPush(n, v)) =>
       \A a \in 0 .. (StackBarrier - 1) : mem'[a] = mem[a]]_vars

(* No operation of the client changes a private flag.                      *)
PrivateFlagsKept ==
  [][Tick => RFLAGS' \cap PrivateFlags = RFLAGS \cap PrivateFlags]_vars

(* The frame a program starts from: argument count and argv on top of the  *)
(* stack, argv a null-terminated array of pointers to the arguments, all   *)
(* of it above StackBarrier, and the loaded image untouched by it.         *)
StartFrame(m, x, args, rsp, floor, size) ==
  LET n == Len(args)
      argv == rsp + 2 * PtrSize
  IN /\ rsp >= floor
     /\ HoldsWord(m, rsp, n)
     /\ HoldsWord(m, rsp + PtrSize, argv)
     /\ HoldsWord(m, argv + n * PtrSize, 0)
     /\ \A i \in 1 .. n :
          \E p \in (argv + (n + 1) * PtrSize) .. (size - 1) :
            /\ HoldsWord(m, argv + (i - 1) * PtrSize, p)
            /\ \A k \in 1 .. Len(args[i]) : m[p + k - 1] = args[i][k]
            /\ m[p + Len(args[i])] = 0
     /\ \A a \in 0 .. (TotalSize(x) - 1) :
          m[a] = IF a < Len(Content(x)) THEN Content(x)[a + 1] ELSE 0

(* A machine that starts to run has its start frame complete, although     *)
(* Initialize looks at the result of none of its stores.                   *)
RunningHasStartFrame ==
  [][~running /\ running' /\ Backed' =>
       StartFrame(mem', exe', cmdline', RSP', StackBarrier', mem_size')]_vars

=============================================================================
