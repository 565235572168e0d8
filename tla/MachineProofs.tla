--------------------------- MODULE MachineProofs ----------------------------
(***************************************************************************)
(* What is proved of Machine, and of the terminal input its files may be   *)
(* (Terminal), for every value of their constants.                         *)
(***************************************************************************)
EXTENDS Machine, Terminal, Induction, SequenceTheorems, TLAPS

(* The part of the invariant about memory: sizes, barriers and contents.   *)
MemoryInv ==
  /\ mem_size \in Word /\ mem_cap \in Word
  /\ min_mem_size \in Word /\ max_mem_size \in Word
  /\ ExeBarrier \in Word /\ ReadonlyBarrier \in Word /\ StackBarrier \in Word
  /\ exe \in Exes \cup {NULL}
  /\ Backed /\ CapacityBacked
  /\ mem_size <= mem_cap /\ mem_cap <= MaxAlloc
  /\ exe = NULL => mem_size = 0
  /\ exe # NULL => /\ ExeBarrier = Len(exe.text)
                   /\ ReadonlyBarrier = Len(exe.text) + Len(exe.rodata)
                   /\ StackBarrier = TotalSize(exe)
  /\ BreakKeepsProgram
  /\ ReadonlyIntact

(* What is left of it when the padding of an allocation has wrapped.       *)
Overrun ==
  /\ mem_size \in Word /\ mem_cap \in Word
  /\ min_mem_size \in Word /\ max_mem_size \in Word
  /\ ExeBarrier \in Word /\ ReadonlyBarrier \in Word /\ StackBarrier \in Word
  /\ exe \in Exes \cup {NULL}
  /\ ~Backed /\ ~CapacityBacked
  /\ mem_size <= mem_cap
  /\ BreakKeepsProgram

(* The part about execution: registers, files and the end of the client.   *)
ClientInv ==
  /\ running \in BOOLEAN /\ suspended_read \in BOOLEAN
  /\ error \in ErrorCode
  /\ return_value \in Word \cup {Uninit}
  /\ FileDescriptors \in [FD -> FileWrapper \cup {NULL}]
  /\ regs \in [RAX : Word, RBX : Word, RCX : Word, RDX : Word]
  /\ RSP \in Word /\ RIP \in Word
  /\ RFLAGS \in SUBSET Flag
  /\ running => exe # NULL
  /\ ClientFilesNeedClient

IInv == MemoryInv /\ ClientInv

(* The inductive invariant, under any limit: a machine whose block is not  *)
(* there takes no step.                                                    *)
Sound == (MemoryInv \/ Overrun) /\ ClientInv

-----------------------------------------------------------------------------
(* u64 arithmetic.                                                         *)

LEMMA WordFacts ==
  /\ W \in Nat /\ W > 1
  /\ PtrSize \in Nat /\ PtrSize > 0 /\ PtrSize < W
  /\ Overhead \in Nat /\ Overhead > 0 /\ MaxAlloc \in Nat
  /\ 2 * (MaxAlloc + PtrSize) <= W
  BY WordAssumption

LEMMA ModType == ASSUME NEW x \in Int PROVE x % W \in Word
  BY WordFacts DEF Word

LEMMA ModSmall == ASSUME NEW x \in Word PROVE x % W = x
  BY WordFacts, Z3 DEF Word

LEMMA BelowIsIndex ==
  ASSUME NEW i \in Nat, NEW n \in Int, i < n PROVE i \in 0 .. (n - 1)
  OBVIOUS

(* The sum of two u64s wrapped if it came out below one of them.           *)
LEMMA NoWrap ==
  ASSUME NEW x \in Word, NEW y \in Word, (x + y) % W >= y
  PROVE  (x + y) % W = x + y
<1>1. CASE x + y < W
  <2>1. x + y \in Word
    BY <1>1, WordFacts DEF Word
  <2>2. QED
    BY <2>1, ModSmall
<1>2. CASE x + y >= W
  <2>1. (x + y) % W = x + y - W
    BY <1>2, WordFacts, Z3 DEF Word
  <2>2. QED
    BY <2>1, WordFacts DEF Word
<1>3. QED
  BY <1>1, <1>2, WordFacts DEF Word

-----------------------------------------------------------------------------
(* Accesses.                                                               *)

(* The readonly barrier holds against a write whose checks passed.         *)
LEMMA WriteSafe ==
  ASSUME MemoryInv, NEW pos, NEW n, WriteFault(pos, n) = "None"
  PROVE  pos \in ReadonlyBarrier .. (mem_size - 1)
  BY DEF WriteFault, ReadFault, MemoryInv, Word

LEMMA FaultTypes ==
  ASSUME NEW pos, NEW n
  PROVE  /\ ReadFault(pos, n) \in ErrorCode
         /\ WriteFault(pos, n) \in ErrorCode
         /\ PushFault(pos, n) \in ErrorCode
         /\ PopFault(pos, n) \in ErrorCode
         /\ StringFault(pos) \in ErrorCode
  BY DEF ReadFault, WriteFault, PushFault, PopFault, StringFault, ErrorCode

(* Memory changed, if at all, at or above the readonly barrier only.       *)
WritableChange ==
  /\ DOMAIN mem' = DOMAIN mem
  /\ \A a \in DOMAIN mem : a \in 0 .. (ReadonlyBarrier - 1) => mem'[a] = mem[a]

LEMMA WrittenSafe ==
  ASSUME MemoryInv, NEW pos, NEW n, NEW v, pos \in ReadonlyBarrier .. (mem_size - 1),
         n \in Int, mem' = Written(mem, pos, n, v)
  PROVE  WritableChange
  BY DEF Written, WritableChange, MemoryInv, CapacityBacked, Word, BreakKeepsProgram

LEMMA CopiedSafe ==
  ASSUME MemoryInv, NEW src, NEW pos, NEW n, pos \in ReadonlyBarrier .. (mem_size - 1),
         n \in Int, mem' = Copied(src, pos, n)
  PROVE  WritableChange
  BY DEF Copied, WritableChange, MemoryInv, CapacityBacked, Word, BreakKeepsProgram

(* What the memory part says of a loaded program.                          *)
LEMMA ProgramFacts ==
  ASSUME MemoryInv, exe # NULL
  PROVE  /\ exe \in Exes
         /\ exe.text \in Seq(Byte) /\ exe.rodata \in Seq(Byte) /\ exe.data \in Seq(Byte)
         /\ ExeBarrier = Len(exe.text)
         /\ ExeBarrier \in Nat /\ ReadonlyBarrier \in Nat /\ StackBarrier \in Nat
         /\ min_mem_size \in Nat /\ mem_size \in Nat /\ mem_cap \in Nat
         /\ ExeBarrier <= ReadonlyBarrier /\ ReadonlyBarrier <= StackBarrier
         /\ StackBarrier <= min_mem_size /\ min_mem_size <= mem_size
         /\ mem_size <= mem_cap /\ DOMAIN mem = 0 .. (mem_cap - 1)
         /\ \A a \in 0 .. (ReadonlyBarrier - 1) : mem[a] = Content(exe)[a + 1]
<1>1. exe \in Exes /\ ExeBarrier = Len(exe.text)
  BY DEF MemoryInv
<1>2. exe.text \in Seq(Byte) /\ exe.rodata \in Seq(Byte) /\ exe.data \in Seq(Byte)
  BY <1>1, HostAssumption
<1>3. /\ ExeBarrier \in Nat /\ ReadonlyBarrier \in Nat /\ StackBarrier \in Nat
      /\ min_mem_size \in Nat /\ mem_size \in Nat /\ mem_cap \in Nat
  <2>1. \A x \in Word : x \in Nat
    BY WordFacts DEF Word
  <2>2. QED
    BY <2>1 DEF MemoryInv
<1>4. /\ ExeBarrier <= ReadonlyBarrier /\ ReadonlyBarrier <= StackBarrier
      /\ StackBarrier <= min_mem_size /\ min_mem_size <= mem_size
  BY DEF MemoryInv, BreakKeepsProgram
<1>5. mem_size <= mem_cap /\ DOMAIN mem = 0 .. (mem_cap - 1)
  BY DEF MemoryInv, CapacityBacked
<1>6. \A a \in 0 .. (ReadonlyBarrier - 1) : mem[a] = Content(exe)[a + 1]
  BY DEF MemoryInv, ReadonlyIntact
<1>7. QED
  BY <1>1, <1>2, <1>3, <1>4, <1>5, <1>6

(* A step that changes contents only keeps the memory invariant.           *)
LEMMA MemoryKept ==
  ASSUME MemoryInv, WritableChange,
         UNCHANGED <<mem_size, mem_cap, loadVars, max_mem_size>>
  PROVE  MemoryInv'
<1>1. UNCHANGED <<ExeBarrier, ReadonlyBarrier, StackBarrier, min_mem_size, exe>>
  BY DEF loadVars, limitVars
<1>2. Backed' /\ CapacityBacked' /\ BreakKeepsProgram'
  BY <1>1 DEF MemoryInv, WritableChange, Backed, CapacityBacked, BreakKeepsProgram
<1>3. ReadonlyIntact'
  <2> SUFFICES ASSUME exe # NULL, NEW a \in 0 .. (ReadonlyBarrier - 1)
               PROVE  mem'[a] = Content(exe)[a + 1]
    BY <1>1 DEF ReadonlyIntact
  <2>1. /\ ReadonlyBarrier \in Nat /\ StackBarrier \in Nat /\ min_mem_size \in Nat
        /\ mem_size \in Nat /\ mem_cap \in Nat
        /\ ReadonlyBarrier <= StackBarrier /\ StackBarrier <= min_mem_size
        /\ min_mem_size <= mem_size /\ mem_size <= mem_cap
        /\ DOMAIN mem = 0 .. (mem_cap - 1)
    BY ProgramFacts
  <2>3. a \in DOMAIN mem
    BY <2>1
  <2>4. mem[a] = Content(exe)[a + 1]
    BY ProgramFacts
  <2>5. QED
    BY <2>3, <2>4 DEF WritableChange
<1>4. QED
  BY <1>1, <1>2, <1>3 DEF MemoryInv

(* Only a block whose padding wrapped is shorter than its capacity.        *)
LEMMA PaddingWrapped ==
  ASSUME NEW cap \in Word
  PROVE  /\ cap + Overhead < W => Usable(cap) = cap /\ Padded(cap) = cap + Overhead
         /\ ~(cap + Overhead < W) => 0 .. (Usable(cap) - 1) # 0 .. (cap - 1)
<1>1. cap \in Nat /\ cap < W /\ Overhead \in Nat /\ Overhead < W
  BY WordAssumption, WordFacts DEF Word
<1> DEFINE sum == cap + Overhead
<1>2. CASE sum < W
  <2>1. sum \in Word
    BY <1>1, <1>2, WordFacts DEF Word
  <2> HIDE DEF sum
  <2>2. sum % W = sum
    BY <2>1, ModSmall
  <2>3. QED
    BY <1>2, <2>2 DEF sum, Usable, Padded
<1>3. CASE ~(sum < W)
  <2>1. sum % W = sum - W
    BY <1>1, <1>3, WordFacts, Z3
  <2>2. Usable(cap) \in Nat /\ Usable(cap) < cap
    BY <1>1, <1>3, <2>1, WordFacts DEF Usable, Padded
  <2>3. cap - 1 \in 0 .. (cap - 1) /\ cap - 1 \notin 0 .. (Usable(cap) - 1)
    BY <1>1, <2>2
  <2>4. QED
    BY <1>3, <2>3
<1>4. QED
  BY <1>2, <1>3

-----------------------------------------------------------------------------
(* The end of the client.                                                  *)

(* Terminate and Exit keep what the client part says of the outcome and of *)
(* the files, and no longer suspend anything.                              *)
LEMMA Stops ==
  ASSUME ClientInv,
         \/ \E err \in ErrorCode : Terminate(err)
         \/ \E ret \in Word : Exit(ret)
  PROVE  /\ running' = FALSE
         /\ error' \in ErrorCode
         /\ return_value' \in Word \cup {Uninit}
         /\ FileDescriptors' = AllClosed
         /\ FileDescriptors' \in [FD -> FileWrapper \cup {NULL}]
         /\ ClientFilesNeedClient'
  BY DEF ClientInv, Terminate, Exit, AllClosed, ClientFilesNeedClient

CpuTypes ==
  /\ regs \in [RAX : Word, RBX : Word, RCX : Word, RDX : Word]
  /\ RSP \in Word /\ RIP \in Word
  /\ RFLAGS \in SUBSET Flag

(* A step that does not suspend keeps the client part if it keeps the      *)
(* types of the registers, and goes on or stops the client.                *)
LEMMA ClientKept ==
  ASSUME ClientInv,
         CpuTypes',
         UNCHANGED <<exe, suspended_read>>,
         \/ UNCHANGED lifeVars
         \/ \E err \in ErrorCode : Terminate(err)
         \/ \E ret \in Word : Exit(ret)
  PROVE  ClientInv'
<1>1. CASE UNCHANGED lifeVars
  BY <1>1 DEF ClientInv, CpuTypes, lifeVars, ClientFilesNeedClient
<1>2. CASE \/ \E err \in ErrorCode : Terminate(err)
           \/ \E ret \in Word : Exit(ret)
  BY <1>2, Stops DEF ClientInv, CpuTypes
<1>3. QED
  BY <1>1, <1>2

-----------------------------------------------------------------------------
(* The operations.                                                         *)

(* Where the program counter and the stack pointer may go is a u64.        *)
LEMMA CpuWords ==
  ASSUME ClientInv
  PROVE  /\ \A op : After(op) \in Word
         /\ (RIP + 1) % W \in Word
         /\ \A n \in 1 .. PtrSize : (RSP + n) % W \in Word /\ (RSP - n) % W \in Word
<1>1. RIP \in Int /\ RSP \in Int /\ OperandLen \in Int
  BY WordFacts, OperandAssumption DEF ClientInv, Word
<1>2. \A op : Operands(op) \in Int
  BY <1>1 DEF Operands
<1>3. \A op : RIP + 1 + Operands(op) \in Int
  BY <1>1, <1>2
<1>4. QED
  BY <1>1, <1>3, ModType, WordFacts, SMTT(30) DEF After

(* An operation or a call of the host that writes no read-only memory,     *)
(* leaves registers well typed, and goes on or stops, keeps the invariant. *)
LEMMA OperationKept ==
  ASSUME IInv,
         UNCHANGED Private, WritableChange, CpuTypes',
         \/ UNCHANGED lifeVars
         \/ \E err \in ErrorCode : Terminate(err)
         \/ \E ret \in Word : Exit(ret)
  PROVE  IInv'
<1>1. MemoryInv'
  BY MemoryKept DEF IInv, Private
<1>2. ClientInv'
  BY ClientKept DEF IInv, Private, loadVars
<1>3. QED
  BY <1>1, <1>2 DEF IInv

LEMMA SameMemory == ASSUME MemoryInv, UNCHANGED mem PROVE WritableChange
  BY DEF WritableChange

(* The outcome of an operation with a fault.                               *)
LEMMA EndsOutcome ==
  ASSUME NEW fault \in ErrorCode, Ends(fault)
  PROVE  UNCHANGED lifeVars \/ \E err \in ErrorCode : Terminate(err)
  BY DEF Ends

LEMMA FetchOutcome ==
  FetchFault \in ErrorCode
  BY FaultTypes DEF FetchFault, ErrorCode

(* Operations that write neither memory nor flags.                         *)
LEMMA PlainOperations ==
  ASSUME IInv,
         FetchFails \/ Nop \/ Halt \/ MovRegister \/ MovLoad
           \/ PopRegister \/ Jump \/ Ret
  PROVE  IInv'
<1>0. MemoryInv /\ ClientInv
  BY DEF IInv
<1>1. CASE FetchFails
  <2>1. Ticking /\ CpuTypes'
    BY <1>0, <1>1 DEF FetchFails, ClientInv, CpuTypes, cpuVars
  <2>2. \E err \in ErrorCode : Terminate(err)
    BY <1>1, FetchOutcome DEF FetchFails
  <2>3. QED
    BY <1>0, <1>1, <2>1, <2>2, OperationKept, SameMemory DEF FetchFails
<1>2. CASE Nop
  <2>1. Ticking /\ CpuTypes'
    BY <1>0, <1>2, CpuWords DEF Nop, Decoded, Fetched, ClientInv, CpuTypes
  <2>2. QED
    BY <1>0, <1>2, <2>1, OperationKept, SameMemory DEF Nop
<1>3. CASE Halt
  <2>1. Ticking /\ CpuTypes'
    BY <1>0, <1>3, CpuWords DEF Halt, Decoded, Fetched, ClientInv, CpuTypes
  <2>2. \E err \in ErrorCode : Terminate(err)
    BY <1>3 DEF Halt, ErrorCode
  <2>3. QED
    BY <1>0, <1>3, <2>1, <2>2, OperationKept, SameMemory DEF Halt
<1>4. CASE MovRegister
  <2>1. Ticking /\ CpuTypes'
    BY <1>0, <1>4, CpuWords, HostAssumption
    DEF MovRegister, Decoded, Fetched, ClientInv, CpuTypes
  <2>2. QED
    BY <1>0, <1>4, <2>1, OperationKept, SameMemory DEF MovRegister
<1>5. CASE MovLoad
  <2>1. Ticking /\ CpuTypes'
    BY <1>0, <1>5, CpuWords DEF MovLoad, Decoded, Fetched, ClientInv, CpuTypes
  <2>2. UNCHANGED lifeVars \/ \E err \in ErrorCode : Terminate(err)
    BY <1>5, FaultTypes, EndsOutcome DEF MovLoad
  <2>3. QED
    BY <1>0, <1>5, <2>1, <2>2, OperationKept, SameMemory DEF MovLoad
<1>6. CASE PopRegister
  <2>1. PICK n \in Sizes :
          /\ Ends(PopFault(RSP, n))
          /\ RSP' = IF PopFault(RSP, n) = "None" THEN (RSP + n) % W ELSE RSP
    BY <1>6 DEF PopRegister, PopRaw
  <2>2. Ticking /\ CpuTypes'
    BY <1>0, <1>6, <2>1, CpuWords, HostAssumption
    DEF PopRegister, Decoded, Fetched, ClientInv, CpuTypes
  <2>3. UNCHANGED lifeVars \/ \E err \in ErrorCode : Terminate(err)
    BY <2>1, FaultTypes, EndsOutcome
  <2>4. QED
    BY <1>0, <1>6, <2>2, <2>3, OperationKept, SameMemory DEF PopRegister
<1>7. CASE Jump
  <2>1. Ticking /\ CpuTypes'
    BY <1>0, <1>7, CpuWords, HostAssumption DEF Jump, Decoded, Fetched, ClientInv, CpuTypes
  <2>2. QED
    BY <1>0, <1>7, <2>1, OperationKept, SameMemory DEF Jump
<1>8. CASE Ret
  <2>1. Ticking /\ CpuTypes'
    BY <1>0, <1>8, CpuWords, WordFacts DEF Ret, Decoded, Fetched, ClientInv, CpuTypes
  <2>2. UNCHANGED lifeVars \/ \E err \in ErrorCode : Terminate(err)
    BY <1>8, FaultTypes DEF Ret
  <2>3. QED
    BY <1>0, <1>8, <2>1, <2>2, OperationKept, SameMemory DEF Ret
<1>9. QED
  BY <1>1, <1>2, <1>3, <1>4, <1>5, <1>6, <1>7, <1>8

(* Pushing an operand or a return address.                                 *)
LEMMA PushRawSafe ==
  ASSUME IInv, NEW n \in 1 .. PtrSize, NEW v, PushRaw(n, v)
  PROVE  /\ WritableChange
         /\ RSP' \in Word
         /\ UNCHANGED lifeVars \/ \E err \in ErrorCode : Terminate(err)
<1> DEFINE pos == (RSP - n) % W
           fault == PushFault(pos, n)
<1>0. MemoryInv /\ ClientInv
  BY DEF IInv
<1>1. WritableChange
  <2>1. CASE fault = "None"
    <3>1. WriteFault(pos, n) = "None" /\ mem' = Written(mem, pos, n, v)
      BY <2>1 DEF PushRaw, PushFault
    <3>2. pos \in ReadonlyBarrier .. (mem_size - 1)
      BY <1>0, <3>1, WriteSafe
    <3>3. QED
      BY <1>0, <3>1, <3>2, WrittenSafe
  <2>2. CASE fault # "None"
    BY <1>0, <2>2, SameMemory DEF PushRaw
  <2>3. QED
    BY <2>1, <2>2
<1>2. RSP' \in Word
  BY <1>0, CpuWords DEF PushRaw
<1>3. UNCHANGED lifeVars \/ \E err \in ErrorCode : Terminate(err)
  BY FaultTypes, EndsOutcome DEF PushRaw
<1>4. QED
  BY <1>1, <1>2, <1>3

(* Operations that write memory.                                           *)
LEMMA StoringOperations ==
  ASSUME IInv, MovStore \/ Push \/ PopMemory \/ Call
  PROVE  IInv'
<1>0. MemoryInv /\ ClientInv
  BY DEF IInv
<1>1. CASE MovStore
  <2>1. PICK pos \in Addrs, n \in Sizes, v \in Values :
          /\ Ends(WriteFault(pos, n))
          /\ mem' = IF WriteFault(pos, n) = "None" THEN Written(mem, pos, n, v) ELSE mem
    BY <1>1 DEF MovStore
  <2>2. WritableChange
    BY <1>0, <2>1, WriteSafe, WrittenSafe, SameMemory, HostAssumption
  <2>3. Ticking /\ CpuTypes'
    BY <1>0, <1>1, CpuWords DEF MovStore, Decoded, Fetched, ClientInv, CpuTypes
  <2>4. UNCHANGED lifeVars \/ \E err \in ErrorCode : Terminate(err)
    BY <2>1, FaultTypes, EndsOutcome
  <2>5. QED
    BY <1>1, <2>2, <2>3, <2>4, OperationKept DEF MovStore
<1>2. CASE Push
  <2>1. PICK n \in Sizes, v \in Values : PushRaw(n, v)
    BY <1>2 DEF Push
  <2>2. n \in 1 .. PtrSize
    BY HostAssumption
  <2>3. Ticking /\ CpuTypes'
    BY <1>0, <1>2, <2>1, <2>2, PushRawSafe, CpuWords
    DEF Push, Decoded, Fetched, ClientInv, CpuTypes
  <2>4. QED
    BY <1>2, <2>1, <2>2, <2>3, PushRawSafe, OperationKept DEF Push
<1>3. CASE PopMemory
  <2>1. PICK n \in Sizes, pos \in Addrs :
          /\ RSP' = (RSP + n) % W
          /\ Ends(WriteFault(pos, n))
          /\ mem' = IF WriteFault(pos, n) = "None" THEN Copied(RSP, pos, n) ELSE mem
    BY <1>3 DEF PopMemory
  <2>2. WritableChange
    BY <1>0, <2>1, WriteSafe, CopiedSafe, SameMemory, HostAssumption
  <2>3. Ticking /\ CpuTypes'
    BY <1>0, <1>3, <2>1, CpuWords, HostAssumption
    DEF PopMemory, Decoded, Fetched, ClientInv, CpuTypes
  <2>4. UNCHANGED lifeVars \/ \E err \in ErrorCode : Terminate(err)
    BY <2>1, FaultTypes, EndsOutcome
  <2>5. QED
    BY <1>3, <2>2, <2>3, <2>4, OperationKept DEF PopMemory
<1>4. CASE Call
  <2>1. PushRaw(PtrSize, After(CALL)) /\ PtrSize \in 1 .. PtrSize
    BY <1>4, WordFacts DEF Call
  <2>2. Ticking /\ CpuTypes'
    BY <1>0, <1>4, <2>1, PushRawSafe, HostAssumption
    DEF Call, Decoded, Fetched, ClientInv, CpuTypes
  <2>3. QED
    BY <1>4, <2>1, <2>2, PushRawSafe, OperationKept DEF Call
<1>5. QED
  BY <1>1, <1>2, <1>3, <1>4

(* Operations that write the flags.                                        *)
LEMMA FlagOperations ==
  ASSUME IInv, PopFlags \/ SetFlagsFromAH
  PROVE  IInv'
<1>0. MemoryInv /\ ClientInv
  BY DEF IInv
<1>1. \A flags \in SUBSET Flag : Masked(flags) \in SUBSET Flag
  BY <1>0 DEF Masked, ModifiableFlags, ClientInv
<1>2. CASE PopFlags
  <2>1. PICK n \in Sizes :
          /\ Ends(PopFault(RSP, n))
          /\ RSP' = IF PopFault(RSP, n) = "None" THEN (RSP + n) % W ELSE RSP
          /\ IF PopFault(RSP, n) = "None"
             THEN \E popped \in SUBSET Flag : RFLAGS' = Masked(popped)
             ELSE UNCHANGED RFLAGS
    BY <1>2 DEF PopFlags, PopRaw
  <2>2. RSP' \in Word
    BY <1>0, <2>1, CpuWords, HostAssumption DEF ClientInv
  <2>3. RFLAGS' \in SUBSET Flag
    BY <1>0, <1>1, <2>1 DEF ClientInv
  <2>4. Ticking /\ CpuTypes'
    BY <1>0, <1>2, <2>2, <2>3, CpuWords DEF PopFlags, Decoded, Fetched, ClientInv, CpuTypes
  <2>5. UNCHANGED lifeVars \/ \E err \in ErrorCode : Terminate(err)
    BY <2>1, FaultTypes, EndsOutcome
  <2>6. QED
    BY <1>0, <1>2, <2>4, <2>5, OperationKept, SameMemory DEF PopFlags
<1>3. CASE SetFlagsFromAH
  <2>1. Ticking /\ CpuTypes'
    BY <1>0, <1>1, <1>3, CpuWords
    DEF SetFlagsFromAH, Decoded, Fetched, ClientInv, CpuTypes
  <2>2. QED
    BY <1>0, <1>3, <2>1, OperationKept, SameMemory DEF SetFlagsFromAH
<1>4. QED
  BY <1>2, <1>3

-----------------------------------------------------------------------------
(* System calls.                                                           *)

(* A call that stops the client.                                           *)
LEMMA AbortKept ==
  ASSUME IInv, Ticking, NEW fault \in ErrorCode, Abort(fault)
  PROVE  IInv'
<1>0. MemoryInv /\ ClientInv
  BY DEF IInv
<1>1. WritableChange
  BY <1>0, SameMemory DEF Abort, sizeVars
<1>2. CpuTypes'
  BY <1>0, CpuWords DEF Abort, Return, ClientInv, CpuTypes
<1>3. UNCHANGED Private
  BY DEF Abort, Return, Private, sizeVars
<1>4. QED
  BY <1>1, <1>2, <1>3, OperationKept DEF Abort

(* A call that answers, and opens or closes at most a descriptor.          *)
LEMMA AnswerClient ==
  ASSUME IInv, Ticking, Return, NEW r \in Word, Answer(r),
         UNCHANGED <<exe, running, error, return_value>>,
         FileDescriptors' \in [FD -> FileWrapper \cup {NULL}]
  PROVE  ClientInv'
<1>0. MemoryInv /\ ClientInv
  BY DEF IInv
<1>1. CpuTypes'
  BY <1>0, CpuWords DEF Answer, Return, ClientInv, CpuTypes
<1>2. running' = TRUE /\ suspended_read' = FALSE
  BY <1>0 DEF Ticking, Return, ClientInv
<1>3. ClientFilesNeedClient'
  BY <1>2 DEF ClientFilesNeedClient
<1>4. exe # NULL
  BY <1>0 DEF Ticking, ClientInv
<1>5. QED
  BY <1>0, <1>1, <1>2, <1>3, <1>4 DEF ClientInv, CpuTypes

LEMMA AnswerKept ==
  ASSUME IInv, Ticking, MemoryInv', Return, NEW r \in Word, Answer(r),
         UNCHANGED <<exe, running, error, return_value>>,
         FileDescriptors' \in [FD -> FileWrapper \cup {NULL}]
  PROVE  IInv'
  BY AnswerClient DEF IInv

LEMMA KeptMemory == ASSUME MemoryInv, KeepMemory PROVE MemoryInv' /\ UNCHANGED exe
  BY MemoryKept, SameMemory DEF KeepMemory, sizeVars, loadVars

(* What the registers of a call hold are u64s; a descriptor is one too.    *)
LEMMA CallTypes ==
  ASSUME IInv
  PROVE  /\ regs.RAX \in Word /\ regs.RBX \in Word
         /\ regs.RCX \in Word /\ regs.RDX \in Word
         /\ Failed \in Word /\ 0 \in Word
         /\ mem_size \in Word /\ AsInt(regs.RBX) \in Word
         /\ FileDescriptors \in [FD -> FileWrapper \cup {NULL}]
  BY WordFacts, IntAssumption DEF AsInt, IInv, ClientInv, MemoryInv, Failed, Word

LEMMA CallFaultTypes ==
  /\ \A can : FDFault(can) \in ErrorCode
  /\ ReadCallFault \in ErrorCode /\ WriteCallFault \in ErrorCode
  /\ PathCallFault \in ErrorCode
<1>1. \A can : FDFault(can) \in ErrorCode
  BY DEF FDFault, ErrorCode
<1>2. BufferFault \in ErrorCode
  BY DEF BufferFault, ErrorCode
<1>3. ReadCallFault \in ErrorCode /\ WriteCallFault \in ErrorCode
  BY <1>1, <1>2 DEF ReadCallFault, WriteCallFault, ErrorCode
<1>4. PathCallFault \in ErrorCode
  BY FaultTypes DEF PathCallFault, ErrorCode
<1>5. QED
  BY <1>1, <1>3, <1>4

(* Calls that change nothing but the result, or stop the client.           *)
LEMMA QuietCalls ==
  ASSUME IInv, Ticking, SysExit \/ SysWrite \/ SysLseek \/ SysPath \/ SysUnhandled
  PROVE  IInv'
<1>0. MemoryInv /\ ClientInv
  BY DEF IInv
<1>1. CASE SysExit
  <2>1. CpuTypes'
    BY <1>0, <1>1, CpuWords DEF SysExit, Return, ClientInv, CpuTypes
  <2>2. WritableChange /\ UNCHANGED Private
    BY <1>0, <1>1, SameMemory DEF SysExit, Return, KeepMemory, Private, sizeVars
  <2>3. QED
    BY <1>1, <2>1, <2>2, CallTypes, OperationKept DEF SysExit
<1>2. CASE SysWrite
  <2>1. CASE WriteCallFault # "None" /\ Abort(WriteCallFault)
    BY <2>1, AbortKept, CallFaultTypes
  <2>2. ASSUME ~(WriteCallFault # "None" /\ Abort(WriteCallFault)) PROVE IInv'
    <3>1. PICK r \in {Failed, regs.RDX} : Answer(r)
      BY <1>2, <2>2 DEF SysWrite
    <3>2. Return /\ KeepMemory /\ UNCHANGED lifeVars
      BY <1>2, <2>2 DEF SysWrite
    <3>3. QED
      BY <1>0, <3>1, <3>2, AnswerKept, KeptMemory, CallTypes DEF lifeVars
  <2>3. QED
    BY <2>1, <2>2
<1>3. CASE SysLseek
  <2>1. CASE FDFault("CanSeek") # "None" /\ Abort(FDFault("CanSeek"))
    BY <2>1, AbortKept, CallFaultTypes
  <2>2. ASSUME ~(FDFault("CanSeek") # "None" /\ Abort(FDFault("CanSeek"))) PROVE IInv'
    <3>1. PICK r \in {Failed} \cup Values : Answer(r)
      BY <1>3, <2>2 DEF SysLseek
    <3>2. Return /\ KeepMemory /\ UNCHANGED lifeVars
      BY <1>3, <2>2 DEF SysLseek
    <3>3. r \in Word
      BY <3>1, CallTypes, HostAssumption
    <3>4. QED
      BY <1>0, <3>1, <3>2, <3>3, AnswerKept, KeptMemory, CallTypes DEF lifeVars
  <2>3. QED
    BY <2>1, <2>2
<1>4. CASE SysPath
  <2>1. CASE PathCallFault # "None" /\ Abort(PathCallFault)
    BY <2>1, AbortKept, CallFaultTypes
  <2>2. ASSUME ~(PathCallFault # "None" /\ Abort(PathCallFault)) PROVE IInv'
    <3>1. PICK r \in {0, Failed} : Answer(r)
      BY <1>4, <2>2 DEF SysPath
    <3>2. Return /\ KeepMemory /\ UNCHANGED lifeVars
      BY <1>4, <2>2 DEF SysPath
    <3>3. QED
      BY <1>0, <3>1, <3>2, AnswerKept, KeptMemory, CallTypes DEF lifeVars
  <2>3. QED
    BY <2>1, <2>2
<1>5. CASE SysUnhandled
  BY <1>5, AbortKept DEF SysUnhandled, ErrorCode
<1>6. QED
  BY <1>1, <1>2, <1>3, <1>4, <1>5

(* Calls that open and close descriptors: the client runs on.              *)
LEMMA DescriptorCalls ==
  ASSUME IInv, Ticking, SysOpen \/ SysClose
  PROVE  IInv'
<1>0. MemoryInv /\ ClientInv
  BY DEF IInv
<1>1. CASE SysOpen
  <2>1. CASE \E fault \in ErrorCode : Abort(fault)
    BY <2>1, AbortKept
  <2>2. CASE Answer(Failed) /\ Return /\ KeepMemory /\ UNCHANGED lifeVars
    BY <1>0, <2>2, AnswerKept, KeptMemory, CallTypes DEF lifeVars
  <2>3. ASSUME NEW fd \in FD,
               FileDescriptors' = [FileDescriptors EXCEPT ![fd] = OpenedFile],
               Answer(fd), Return, KeepMemory, UNCHANGED <<running, error, return_value>>
        PROVE  IInv'
    <3>1. OpenedFile \in FileWrapper
      BY DEF OpenedFile, FileWrapper, HasFlag
    <3>2. FileDescriptors' \in [FD -> FileWrapper \cup {NULL}]
      BY <2>3, <3>1, CallTypes
    <3>3. fd \in Word
      <4>1. FDCount \in Nat /\ FDCount < W
        BY HostAssumption
      <4>2. QED
        BY <2>3, <4>1, WordFacts DEF FD, Word
    <3>4. QED
      BY <1>0, <2>3, <3>2, <3>3, AnswerKept, KeptMemory
  <2>4. QED
    BY <1>1, <2>1, <2>2, <2>3, FaultTypes DEF SysOpen, ErrorCode
<1>2. CASE SysClose
  <2>1. CASE Abort("OutOfBounds")
    BY <2>1, AbortKept DEF ErrorCode
  <2>2. ASSUME regs.RBX < FDCount,
               FileDescriptors' = [FileDescriptors EXCEPT ![regs.RBX] = NULL],
               Answer(0), Return, KeepMemory, UNCHANGED <<running, error, return_value>>
        PROVE  IInv'
    BY <1>0, <2>2, AnswerKept, KeptMemory, CallTypes
  <2>3. QED
    BY <1>2, <2>1, <2>2 DEF SysClose
<1>3. QED
  BY <1>1, <1>2

LEMMA FirstPart ==
  ASSUME NEW s \in Seq(Byte), NEW t \in Seq(Byte), NEW u \in Seq(Byte),
         NEW i \in 1 .. Len(s)
  PROVE  (s \o t \o u)[i] = s[i]
<1>1. s \o t \in Seq(Byte) /\ (s \o t)[i] = s[i] /\ i \in 1 .. Len(s \o t)
  OBVIOUS
<1>2. QED
  BY <1>1

(* The operation a running client executes at an address below ExeBarrier  *)
(* is the one its executable has there: nothing overwrote the text.        *)
LEMMA FetchedText ==
  ASSUME IInv, NEW op, Fetched(op)
  PROVE  RIP < ExeBarrier /\ exe.text[RIP + 1] = op
<1>0. MemoryInv /\ ClientInv
  BY DEF IInv
<1>1. RIP \in 0 .. (ExeBarrier - 1) /\ mem[RIP] = op
  BY <1>0 DEF Fetched, FetchFault, ClientInv, MemoryInv, Word
<1>2. exe # NULL
  BY <1>0 DEF Fetched, Ticking, ClientInv
<1>3. RIP \in 0 .. (ReadonlyBarrier - 1) /\ RIP + 1 \in 1 .. Len(exe.text)
  BY <1>0, <1>1, <1>2, ProgramFacts
<1>4. Content(exe)[RIP + 1] = op
  BY <1>0, <1>1, <1>2, <1>3, ProgramFacts
<1>5. Content(exe)[RIP + 1] = exe.text[RIP + 1]
  <2>1. /\ exe.text \in Seq(Byte) /\ exe.rodata \in Seq(Byte) /\ exe.data \in Seq(Byte)
        /\ RIP + 1 \in 1 .. Len(exe.text)
    BY <1>0, <1>2, <1>3, ProgramFacts
  <2>2. (exe.text \o exe.rodata \o exe.data)[RIP + 1] = exe.text[RIP + 1]
    BY <2>1, FirstPart
  <2>3. QED
    BY <2>2 DEF Content
<1>6. QED
  BY <1>0, <1>1, <1>2, <1>4, <1>5, ProgramFacts

LEMMA ReadKept ==
  ASSUME IInv, Fetched(SYSCALL), SysRead
  PROVE  IInv'
<1>0. MemoryInv /\ ClientInv /\ Ticking
  BY DEF IInv, Fetched
<1>1. CASE ReadCallFault # "None" /\ Abort(ReadCallFault)
  BY <1>0, <1>1, AbortKept, CallFaultTypes
<1>2. CASE /\ suspended_read' = TRUE
           /\ UNCHANGED <<sizeVars, loadVars, max_mem_size, lifeVars, cpuVars>>
  <2>1. MemoryInv'
    BY <1>0, <1>2, MemoryKept, SameMemory DEF sizeVars
  <2>3. ClientInv'
    BY <1>0, <1>2 DEF ClientInv, ClientFilesNeedClient, lifeVars, cpuVars, loadVars
  <2>4. QED
    BY <2>1, <2>3 DEF IInv
<1>3. ASSUME ReadCallFault = "None", NEW n \in 0 .. regs.RDX, NEW v \in Values,
             mem' = Written(mem, regs.RCX, n, v), Answer(n), Return,
             UNCHANGED <<mem_size, mem_cap, loadVars, max_mem_size, lifeVars>>
      PROVE  IInv'
  <2>1. regs.RCX \in ReadonlyBarrier .. (mem_size - 1)
    BY <1>0, <1>3, CallTypes DEF ReadCallFault, BufferFault, MemoryInv, Word
  <2>2. MemoryInv'
    BY <1>0, <1>3, <2>1, WrittenSafe, MemoryKept
  <2>3. n \in Word
    BY <1>3, CallTypes, WordFacts DEF Word
  <2>4. QED
    BY <1>0, <1>3, <2>2, <2>3, AnswerKept, CallTypes DEF lifeVars, loadVars
<1>4. CASE Answer(Failed) /\ Return /\ KeepMemory /\ UNCHANGED lifeVars
  BY <1>0, <1>4, AnswerKept, KeptMemory, CallTypes DEF lifeVars
<1>5. QED
  BY <1>1, <1>2, <1>3, <1>4 DEF SysRead

(* sys_brk, staying within the limits Initialize and the host set.         *)
LEMMA BreakMoved ==
  ASSUME MemoryInv, exe # NULL,
         NEW size \in min_mem_size .. max_mem_size, NEW junk, Realloc(size, TRUE, junk),
         UNCHANGED <<loadVars, max_mem_size>>
  PROVE  MemoryInv' \/ Overrun'
<1>1. size \in Word /\ mem_cap \in Word /\ mem_size \in Word
  BY WordFacts DEF MemoryInv, Word
<1>2. size \in Nat /\ min_mem_size <= size
  BY <1>1 DEF MemoryInv, Word
<1>3. CASE size <= mem_cap /\ mem_size' = size /\ UNCHANGED <<mem, mem_cap>>
  <2>1. Backed' /\ CapacityBacked' /\ BreakKeepsProgram' /\ ReadonlyIntact'
    BY <1>2, <1>1, <1>3 DEF MemoryInv, Backed, CapacityBacked, BreakKeepsProgram,
                            ReadonlyIntact, loadVars, limitVars
  <2>2. QED
    BY <1>1, <1>3, <2>1 DEF MemoryInv, loadVars, limitVars
<1>4. CASE /\ size > mem_cap /\ CanAllocate(size)
           /\ mem' = Fresh(size, IF mem_size < size THEN mem_size ELSE size, junk)
           /\ mem_size' = size /\ mem_cap' = size
  <2>1. mem_size <= mem_cap /\ DOMAIN mem = 0 .. (mem_cap - 1)
    BY DEF MemoryInv, CapacityBacked
  <2>2. mem' = Fresh(size, mem_size, junk)
    BY <1>1, <1>4, <2>1 DEF Word
  <2>3. BreakKeepsProgram'
    BY <1>2, <1>4, ProgramFacts DEF BreakKeepsProgram, loadVars, limitVars
  <2>4. DOMAIN mem' = 0 .. (Usable(size) - 1)
    BY <2>2 DEF Fresh
  <2>5. CASE size + Overhead < W
    <3>1. Usable(size) = size /\ Padded(size) = size + Overhead
      BY <1>1, <2>5, PaddingWrapped
    <3>2. size <= MaxAlloc
      BY <1>1, <1>4, <3>1, WordFacts DEF CanAllocate, Word
    <3>3. Backed' /\ CapacityBacked' /\ mem_size' <= mem_cap' /\ mem_cap' <= MaxAlloc
      BY <1>1, <1>4, <2>4, <2>5, <3>1, <3>2 DEF Backed, CapacityBacked, Word
    <3>4. \A a \in 0 .. (mem_size - 1) : mem'[a] = mem[a]
      BY <1>1, <1>4, <2>1, <2>2, <3>1 DEF Fresh, Word
    <3>5. ReadonlyIntact'
      BY <3>4, ProgramFacts DEF ReadonlyIntact, loadVars, limitVars
    <3>6. QED
      BY <1>1, <1>4, <2>3, <3>3, <3>5 DEF MemoryInv, loadVars, limitVars
  <2>6. CASE ~(size + Overhead < W)
    <3>1. ~Backed' /\ ~CapacityBacked'
      BY <1>1, <1>4, <2>4, <2>6, PaddingWrapped DEF Backed, CapacityBacked
    <3>2. mem_size' <= mem_cap'
      BY <1>2, <1>4
    <3>3. QED
      BY <1>1, <1>4, <2>3, <3>1, <3>2 DEF MemoryInv, Overrun, loadVars, limitVars
  <2>7. QED
    BY <2>5, <2>6
<1>5. QED
  BY <1>3, <1>4 DEF Realloc

LEMMA BrkKept ==
  ASSUME IInv, Ticking, SysBrk
  PROVE  Sound'
<1>0. MemoryInv /\ ClientInv /\ exe # NULL
  BY DEF IInv, ClientInv, Ticking
<1>1. Return /\ UNCHANGED <<loadVars, max_mem_size, lifeVars>>
  BY DEF SysBrk
<1>2. CASE UNCHANGED sizeVars
  <2>1. MemoryInv'
    BY <1>0, <1>1, <1>2, MemoryKept, SameMemory DEF sizeVars
  <2>2. PICK r \in {mem_size, Failed, 0} : Answer(r)
    BY DEF SysBrk
  <2>3. QED
    BY <1>0, <1>1, <2>1, <2>2, AnswerClient, CallTypes DEF Sound, lifeVars, loadVars
<1>3. ASSUME NEW junk, regs.RBX \in min_mem_size .. max_mem_size,
             Realloc(regs.RBX, TRUE, junk), Answer(0)
      PROVE  Sound'
  <2>1. MemoryInv' \/ Overrun'
    BY <1>0, <1>1, <1>3, BreakMoved
  <2>2. ClientInv'
    BY <1>0, <1>1, <1>3, AnswerClient, CallTypes DEF lifeVars, loadVars
  <2>3. QED
    BY <2>1, <2>2 DEF Sound
<1>4. QED
  BY <1>2, <1>3 DEF SysBrk

LEMMA Keeps == IInv' => Sound'
  BY DEF IInv, Sound

LEMMA SyscallKept == ASSUME IInv, Syscall PROVE Sound'
<1>1. Ticking /\ Fetched(SYSCALL) /\ ProcessSYSCALL
  BY DEF Syscall, Decoded, Fetched
<1>2. QED
  BY <1>1, QuietCalls, DescriptorCalls, ReadKept, BrkKept, Keeps DEF ProcessSYSCALL

LEMMA TickKept == ASSUME IInv, Tick PROVE Sound'
  BY Keeps, PlainOperations, StoringOperations, FlagOperations, SyscallKept DEF Tick

-----------------------------------------------------------------------------
(* The positions of the arguments.                                         *)

(* What the two recursive definitions over a command line define.          *)
LEMMA ArgBytesAre ==
  ASSUME NEW args \in Seq(Seq(Byte))
  PROVE  /\ ArgBytes(args)[0] = 0
         /\ \A i \in 1 .. Len(args) :
              ArgBytes(args)[i] = ArgBytes(args)[i - 1] + (Len(args[i]) + 1)
<1> DEFINE n == Len(args)
           t == [j \in 0 .. (n - 1) |-> Len(args[j + 1]) + 1]
           Recursive(sums) ==
             sums = [i \in 0 .. n |-> IF i = 0 THEN 0 ELSE sums[i - 1] + (Len(args[i]) + 1)]
<1>1. n \in Nat
  OBVIOUS
<1>2. PICK h : h = [k \in 0 .. n |-> IF k = 0 THEN 0 ELSE h[k - 1] + t[k - 1]]
  <2> HIDE DEF n, t
  <2>1. QED
    BY <1>1, SumsDefined
<1>3. \A k \in 0 .. n : k # 0 => t[k - 1] = Len(args[k]) + 1
  <2> TAKE k \in 0 .. n
  <2> HAVE k # 0
  <2>1. k - 1 \in 0 .. (n - 1) /\ (k - 1) + 1 = k
    BY <1>1
  <2>2. QED
    BY <2>1
<1>4. Recursive(h)
  <2> HIDE DEF n, t
  <2>1. QED
    BY <1>2, <1>3
<1>5. ArgBytes(args) = CHOOSE sums : Recursive(sums)
  BY DEF ArgBytes
<1>6. Recursive(ArgBytes(args))
  <2> HIDE DEF Recursive
  <2>1. QED
    BY <1>4, <1>5
<1> DEFINE sums == ArgBytes(args)
<1>7. sums = [i \in 0 .. n |-> IF i = 0 THEN 0 ELSE sums[i - 1] + (Len(args[i]) + 1)]
  BY <1>6
<1> HIDE DEF sums, n
<1>8. \A i \in 0 .. n : sums[i] = IF i = 0 THEN 0 ELSE sums[i - 1] + (Len(args[i]) + 1)
  BY <1>7, Zenon
<1>9. sums[0] = 0 /\ \A i \in 1 .. n : sums[i] = sums[i - 1] + (Len(args[i]) + 1)
  BY <1>1, <1>8
<1>10. QED
  BY <1>9 DEF sums, n

(* The bytes grow with every argument.                                     *)
LEMMA ArgBytesGrow ==
  ASSUME NEW args \in Seq(Seq(Byte))
  PROVE  /\ \A i \in 0 .. Len(args) : ArgBytes(args)[i] \in Nat
         /\ \A i, j \in 0 .. Len(args) : i <= j => ArgBytes(args)[i] <= ArgBytes(args)[j]
<1> DEFINE n == Len(args)
           sums == ArgBytes(args)
           G == {k \in 0 .. n : \A i \in 0 .. k : sums[i] \in Nat /\ sums[i] <= sums[k]}
<1>1. n \in Nat /\ \A i \in 1 .. n : Len(args[i]) \in Nat
  <2>1. \A i \in 1 .. n : args[i] \in Seq(Byte)
    OBVIOUS
  <2>2. QED
    BY <2>1
<1>2. sums[0] = 0 /\ \A i \in 1 .. n : sums[i] = sums[i - 1] + (Len(args[i]) + 1)
  BY ArgBytesAre
<1> HIDE DEF sums, n
<1>3. 0 \in G
  BY <1>1, <1>2
<1>4. ASSUME NEW k \in 0 .. (n - 1), k \in G PROVE k + 1 \in G
  <2>1. k + 1 \in 1 .. n /\ (k + 1) - 1 = k /\ k \in Nat
    BY <1>1
  <2>2. sums[k + 1] = sums[k] + (Len(args[k + 1]) + 1) /\ Len(args[k + 1]) \in Nat
    BY <1>1, <1>2, <2>1
  <2>3. \A i \in 0 .. k : sums[i] \in Nat /\ sums[i] <= sums[k]
    BY <1>4
  <2>4. sums[k] \in Nat /\ sums[k + 1] \in Nat /\ sums[k] <= sums[k + 1]
    BY <2>1, <2>2, <2>3
  <2>5. \A i \in 0 .. (k + 1) : i \in 0 .. k \/ i = k + 1
    BY <2>1
  <2>6. \A i \in 0 .. (k + 1) : sums[i] \in Nat /\ sums[i] <= sums[k + 1]
    BY <2>3, <2>4, <2>5
  <2>7. QED
    BY <2>1, <2>6
<1> HIDE DEF G
<1>5. 0 .. n \subseteq G
  BY <1>1, <1>3, <1>4, InductTo
<1>6. \A k \in 0 .. n : \A i \in 0 .. k : sums[i] \in Nat /\ sums[i] <= sums[k]
  BY <1>5 DEF G
<1>7. \A i \in 0 .. n : sums[i] \in Nat
  <2> TAKE i \in 0 .. n
  <2>1. i \in 0 .. i
    BY <1>1
  <2>2. QED
    BY <1>6, <2>1
<1>8. ASSUME NEW i \in 0 .. n, NEW j \in 0 .. n, i <= j PROVE sums[i] <= sums[j]
  <2>1. i \in 0 .. j
    BY <1>1, <1>8
  <2>2. QED
    BY <1>6, <2>1
<1>9. QED
  BY <1>7, <1>8 DEF sums, n

LEMMA ModTwice ==
  ASSUME NEW x \in Int, NEW y \in Int
  PROVE  ((x % W) - y) % W = (x - y) % W
<1> DEFINE q == x \div W
           r == x % W
           z == r - y
           p == z \div W
           s == z % W
<1>1. W \in Nat \ {0}
  BY WordFacts
<1>2. q \in Int /\ r \in Int /\ x = r + q * W
  BY <1>1, DivisionOf
<1> HIDE DEF q, r
<1>3. p \in Int /\ s \in 0 .. (W - 1) /\ z = s + p * W
  <2>1. z \in Int
    BY <1>2
  <2> HIDE DEF z
  <2>2. QED
    BY <1>1, <2>1, DivisionOf
<1> HIDE DEF p, s
<1> DEFINE c == p + q
<1>4. x - y = s + c * W /\ c \in Int
  BY <1>1, <1>2, <1>3, Z3
<1> HIDE DEF c
<1>5. (s + c * W) % W = s
  BY <1>1, <1>3, <1>4, DivisionOfSum
<1>6. QED
  BY <1>4, <1>5 DEF s, r

(* Each argument lies as far below the end as it and those before it are   *)
(* long, as a u64.                                                         *)
LEMMA ArgPosAre ==
  ASSUME NEW args \in Seq(Seq(Byte)), NEW size \in Word
  PROVE  \A i \in 0 .. Len(args) : ArgPos(args, size)[i] = (size - ArgBytes(args)[i]) % W
<1> DEFINE n == Len(args)
           sums == ArgBytes(args)
           p == [i \in 0 .. n |-> (size - sums[i]) % W]
           Recursive(q) ==
             q = [i \in 0 .. n |-> IF i = 0 THEN size ELSE (q[i - 1] - (Len(args[i]) + 1)) % W]
<1>1. n \in Nat /\ \A i \in 1 .. n : Len(args[i]) \in Nat
  <2>1. \A i \in 1 .. n : args[i] \in Seq(Byte)
    OBVIOUS
  <2>2. QED
    BY <2>1
<1>2. sums[0] = 0 /\ \A i \in 1 .. n : sums[i] = sums[i - 1] + (Len(args[i]) + 1)
  BY ArgBytesAre
<1>3. \A i \in 0 .. n : sums[i] \in Nat
  BY ArgBytesGrow
<1> HIDE DEF sums, n
<1>4. \A i \in 0 .. n : p[i] = IF i = 0 THEN size ELSE (p[i - 1] - (Len(args[i]) + 1)) % W
  <2> TAKE i \in 0 .. n
  <2>1. CASE i = 0
    <3>1. p[i] = (size - sums[i]) % W /\ sums[i] = 0
      BY <1>2, <2>1
    <3>2. size - 0 = size
      BY WordFacts DEF Word
    <3>3. QED
      BY <2>1, <3>1, <3>2, ModSmall
  <2>2. CASE i # 0
    <3>1. i \in 1 .. n /\ i - 1 \in 0 .. n
      BY <1>1, <2>2
    <3> DEFINE x == size - sums[i - 1]
               y == Len(args[i]) + 1
    <3>2. x \in Int /\ y \in Int
      BY <1>1, <1>3, <3>1, WordFacts DEF Word
    <3>3. size - sums[i] = x - y
      BY <1>1, <1>2, <1>3, <3>1, WordFacts DEF Word
    <3>4. p[i] = (x - y) % W /\ p[i - 1] = x % W
      BY <3>1, <3>3
    <3> HIDE DEF x, p
    <3>5. ((x % W) - y) % W = (x - y) % W
      BY <3>2, ModTwice
    <3>6. QED
      BY <2>2, <3>4, <3>5
  <2>3. QED
    BY <2>1, <2>2
<1>5. Recursive(p)
  BY <1>4, Zenon
<1>6. ArgPos(args, size) = CHOOSE q : Recursive(q)
  BY DEF ArgPos, n
<1>7. Recursive(ArgPos(args, size))
  <2> HIDE DEF Recursive
  <2>1. QED
    BY <1>5, <1>6
<1> DEFINE q == ArgPos(args, size)
           G == {i \in 0 .. n : q[i] = p[i]}
<1>8. \A i \in 0 .. n : q[i] = IF i = 0 THEN size ELSE (q[i - 1] - (Len(args[i]) + 1)) % W
  <2>1. q = [i \in 0 .. n |-> IF i = 0 THEN size ELSE (q[i - 1] - (Len(args[i]) + 1)) % W]
    BY <1>7
  <2> HIDE DEF q
  <2>2. QED
    BY <2>1, Zenon
<1> HIDE DEF p, q
<1>9. 0 \in G
  BY <1>1, <1>4, <1>8
<1>10. ASSUME NEW k \in 0 .. (n - 1), k \in G PROVE k + 1 \in G
  <2>1. k + 1 \in 0 .. n /\ k + 1 # 0 /\ (k + 1) - 1 = k
    BY <1>1
  <2>2. q[k] = p[k]
    BY <1>10
  <2>3. q[k + 1] = p[k + 1]
    BY <1>4, <1>8, <2>1, <2>2
  <2>4. QED
    BY <2>1, <2>3
<1> HIDE DEF G
<1>11. 0 .. n \subseteq G
  BY <1>1, <1>9, <1>10, InductTo
<1>12. \A i \in 0 .. n : q[i] = (size - sums[i]) % W
  BY <1>11 DEF G, p
<1>13. QED
  BY <1>12 DEF q, sums, n

LEMMA ArgvPosType ==
  ASSUME NEW args \in Seq(Seq(Byte)), NEW size \in Word
  PROVE  ArgvPos(args, size) \in Word
<1> DEFINE n == Len(args)
           last == ArgPos(args, size)[n]
<1>1. n \in Nat /\ n \in 0 .. n
  OBVIOUS
<1>2. (size - ArgBytes(args)[n]) \in Int
  BY <1>1, ArgBytesGrow, WordFacts DEF Word
<1>3. last \in Int
  <2>1. last = (size - ArgBytes(args)[n]) % W
    BY <1>1, ArgPosAre
  <2> HIDE DEF last, n
  <2>2. last \in Word
    BY <1>2, <2>1, ModType
  <2>3. QED
    BY <2>2, WordFacts DEF Word
<1> HIDE DEF last, n
<1>4. last - (n + 1) * PtrSize \in Int
  BY <1>1, <1>3, WordFacts
<1>5. QED
  BY <1>4, ModType DEF ArgvPos, last, n

-----------------------------------------------------------------------------
(* Initialize.                                                             *)

(* The length of a store is a number, whatever its position comes to.      *)
LEMMA StoreLength ==
  ASSUME NEW args \in Seq(Seq(Byte)), NEW size, NEW stack, NEW floor,
         NEW k \in DOMAIN InitStores(args, size, stack, floor)
  PROVE  InitStores(args, size, stack, floor)[k].len \in Int
<1>1. k \in 1 .. (2 * Len(args) + 3)
  BY DEF InitStores
<1>2. CASE k <= Len(args)
  <2>1. args[k] \in Seq(Byte)
    BY <1>1, <1>2
  <2>2. QED
    BY <1>1, <1>2, <2>1 DEF InitStores, StringStore
<1>3. CASE k > Len(args)
  BY <1>1, <1>3, WordFacts DEF InitStores, WordStore
<1>4. QED
  BY <1>1, <1>2, <1>3

(* No store of Initialize touches the read-only segments.                  *)
LEMMA StoresSafe ==
  ASSUME NEW m, NEW args \in Seq(Seq(Byte)), NEW size \in Int, NEW stack, NEW floor,
         NEW rdonly \in Int, NEW a \in DOMAIN m, a \in 0 .. (rdonly - 1)
  PROVE  AfterStores(m, InitStores(args, size, stack, floor), size, rdonly)[a] = m[a]
<1> DEFINE stores == InitStores(args, size, stack, floor)
<1>1. \A k \in DOMAIN stores : stores[k].len \in Int
  BY StoreLength
<1> HIDE DEF stores
<1>2. \A k \in DOMAIN stores :
        ~ (/\ Lands(stores[k], size, rdonly)
           /\ a \in stores[k].pos .. (stores[k].pos + stores[k].len - 1))
  BY <1>1 DEF Lands
<1>3. QED
  BY <1>2 DEF AfterStores, stores

LEMMA StoresFault ==
  ASSUME NEW stores, NEW size, NEW rdonly
  PROVE  FirstFault(stores, size, rdonly) \in ErrorCode
<1>1. \A s : StoreFault(s, size, rdonly) \in ErrorCode
  BY DEF StoreFault, ErrorCode
<1>2. QED
  BY <1>1 DEF FirstFault, ErrorCode

(* The lengths of an executable's segments and of its content.             *)
LEMMA ContentFacts ==
  ASSUME NEW x \in Exes
  PROVE  /\ Len(x.text) \in Nat /\ Len(x.rodata) \in Nat
         /\ Len(Content(x)) \in Nat /\ TotalSize(x) \in Word
         /\ Len(x.text) + Len(x.rodata) <= Len(Content(x))
         /\ Len(Content(x)) <= TotalSize(x)
<1>1. /\ x.text \in Seq(Byte) /\ x.rodata \in Seq(Byte) /\ x.data \in Seq(Byte)
      /\ x.bss \in Nat /\ TotalSize(x) < W
  BY HostAssumption
<1>2. /\ Len(x.text) \in Nat /\ Len(x.rodata) \in Nat /\ Len(x.data) \in Nat
      /\ Len(x.text \o x.rodata \o x.data) = Len(x.text) + Len(x.rodata) + Len(x.data)
  BY <1>1
<1>3. Len(Content(x)) = Len(x.text) + Len(x.rodata) + Len(x.data)
  BY <1>2 DEF Content
<1>4. TotalSize(x) = Len(Content(x)) + x.bss
  BY DEF TotalSize
<1> DEFINE text == Len(x.text)
           rodata == Len(x.rodata)
           data == Len(x.data)
           content == Len(Content(x))
           total == TotalSize(x)
           bss == x.bss
<1>5. /\ text \in Nat /\ rodata \in Nat /\ data \in Nat /\ bss \in Nat
      /\ content = text + rodata + data /\ total = content + bss /\ total < W
  BY <1>1, <1>2, <1>3, <1>4
<1> HIDE DEF text, rodata, data, content, total, bss
<1>6. /\ content \in Nat /\ total \in Word
      /\ text + rodata <= content /\ content <= total
  BY <1>5, WordFacts DEF Word
<1>7. QED
  BY <1>5, <1>6 DEF text, rodata, content, total

(* What Initialize does to memory: the sum of the sizes did not wrap, and  *)
(* the block it ends with is there unless its padding wrapped.             *)
LEMMA InitializeMemory ==
  ASSUME MemoryInv, NEW x \in Exes, NEW args \in ArgLists, NEW stacksize \in StackSizes,
         Initialize(x, args, stacksize)
  PROVE  /\ mem_size' = TotalSize(x) + stacksize
         /\ mem_size' \in Word /\ mem_cap' \in Word
         /\ mem_size' <= mem_cap' /\ (Backed' => mem_cap' <= MaxAlloc)
         /\ \E block :
              /\ DOMAIN block = 0 .. (Usable(mem_cap') - 1)
              /\ mem' = AfterStores(Loaded(block, x),
                          InitStores(args, mem_size', ArgvPos(args, mem_size'), TotalSize(x)),
                          mem_size', Len(x.text) + Len(x.rodata))
<1> DEFINE size == (TotalSize(x) + stacksize) % W
           rdonly == Len(x.text) + Len(x.rodata)
           stores == InitStores(args, size, ArgvPos(args, size), TotalSize(x))
<1>1. stacksize \in Word /\ TotalSize(x) \in Word
  BY HostAssumption, ContentFacts
<1>2. size = TotalSize(x) + stacksize /\ size \in Word
  <2>1. size >= stacksize
    BY DEF Initialize
  <2>2. size = TotalSize(x) + stacksize
    BY <1>1, <2>1, NoWrap
  <2>3. TotalSize(x) + stacksize \in Int
    BY <1>1, WordFacts DEF Word
  <2>4. QED
    BY <2>2, <2>3, ModType
<1>3. mem_size' = size /\ size <= max_mem_size
  BY DEF Initialize
<1>4. PICK junk :
        mem' = AfterStores(Loaded(IF size <= mem_cap THEN mem ELSE Fresh(size, 0, junk % B), x),
                           stores, size, rdonly)
  BY DEF Initialize
<1> DEFINE block == IF size <= mem_cap THEN mem ELSE Fresh(size, 0, junk % B)
<1>5. /\ size > mem_cap => CanAllocate(size)
      /\ mem_cap' = IF size <= mem_cap THEN mem_cap ELSE size
  BY DEF Initialize
<1> HIDE DEF size, stores
<1>6. /\ DOMAIN block = 0 .. (Usable(mem_cap') - 1)
      /\ mem_cap' \in Word /\ size <= mem_cap' /\ (Backed' => mem_cap' <= MaxAlloc)
  <2>1. CASE size <= mem_cap
    <3>1. mem_cap \in Word /\ Usable(mem_cap) = mem_cap
      BY PaddingWrapped DEF MemoryInv, Backed
    <3>2. QED
      BY <1>5, <2>1, <3>1 DEF MemoryInv, CapacityBacked
  <2>2. CASE ~(size <= mem_cap)
    <3>1. size > mem_cap /\ mem_cap' = size
      BY <1>2, <1>5, <2>2, WordFacts DEF MemoryInv, Word
    <3>2. Backed' => size <= MaxAlloc
      <4>1. Backed' => Padded(size) = size + Overhead
        BY <1>2, <3>1, PaddingWrapped DEF Backed
      <4>2. QED
        BY <1>2, <1>5, <3>1, <4>1, WordFacts DEF CanAllocate, Word
    <3>3. DOMAIN block = 0 .. (Usable(size) - 1)
      BY <2>2 DEF Fresh
    <3>4. QED
      BY <1>2, <2>2, <3>1, <3>2, <3>3, WordFacts DEF Word
  <2>3. QED
    BY <2>1, <2>2
<1> HIDE DEF block
<1>7. mem' = AfterStores(Loaded(block, x), stores, size, rdonly)
  BY <1>4 DEF block
<1>8. QED
  BY <1>2, <1>3, <1>6, <1>7 DEF stores

LEMMA InitializeKept ==
  ASSUME IInv, NEW x \in Exes, NEW args \in ArgLists, NEW stacksize \in StackSizes,
         Initialize(x, args, stacksize)
  PROVE  Sound'
<1> DEFINE size == mem_size'
           rdonly == Len(x.text) + Len(x.rodata)
           argv == ArgvPos(args, size)
           stores == InitStores(args, size, argv, TotalSize(x))
<1>0. MemoryInv /\ ClientInv
  BY DEF IInv
<1>1. /\ stacksize \in Word /\ args \in Seq(Seq(Byte)) /\ x # NULL
      /\ TotalSize(x) \in Word
  BY HostAssumption, ContentFacts
<1>2. size = TotalSize(x) + stacksize /\ size \in Word
  BY <1>0, InitializeMemory
<1>3. /\ mem_size' = size /\ min_mem_size' = size
      /\ ExeBarrier' = Len(x.text) /\ ReadonlyBarrier' = rdonly
      /\ StackBarrier' = TotalSize(x) /\ exe' = x /\ max_mem_size' = max_mem_size
  BY DEF Initialize
<1>4. PICK block :
        /\ DOMAIN block = 0 .. (Usable(mem_cap') - 1)
        /\ mem' = AfterStores(Loaded(block, x), stores, size, rdonly)
  BY <1>0, InitializeMemory
<1> HIDE DEF size, stores, argv
<1>5. /\ DOMAIN block = 0 .. (Usable(mem_cap') - 1)
      /\ mem_cap' \in Word /\ size <= mem_cap' /\ (Backed' => mem_cap' <= MaxAlloc)
  BY <1>0, <1>4, InitializeMemory DEF size
<1>6. ASSUME Backed' PROVE DOMAIN block = 0 .. (mem_cap' - 1)
  <2>1. Usable(mem_cap') = mem_cap'
    BY <1>5, <1>6, PaddingWrapped DEF Backed
  <2>2. QED
    BY <1>5, <2>1
<1>7. mem' = AfterStores(Loaded(block, x), stores, size, rdonly)
  BY <1>4
<1>8. DOMAIN mem' = DOMAIN block
  BY <1>7 DEF AfterStores, Loaded
<1> DEFINE text == Len(x.text)
           content == Len(Content(x))
           rodata == Len(x.rodata)
           total == TotalSize(x)
<1>9. rdonly = text + rodata
  OBVIOUS
<1> HIDE DEF rdonly, text, rodata, content, total
<1>10. /\ rdonly \in Nat /\ text \in Nat /\ content \in Nat /\ total \in Nat /\ size \in Nat
      /\ text <= rdonly /\ rdonly <= content /\ content <= total /\ total <= size
      /\ size < W
  <2>1. \A w \in Word : w \in Nat /\ w < W
    BY WordFacts DEF Word
  <2>2. total \in Word /\ stacksize \in Word /\ size \in Word /\ size = total + stacksize
    BY <1>1, <1>2 DEF total
  <2>3. /\ text \in Nat /\ rodata \in Nat /\ content \in Nat
        /\ text + rodata <= content /\ content <= total
    BY ContentFacts DEF text, rodata, content, total
  <2>4. QED
    BY <1>9, <2>1, <2>2, <2>3
<1>11. ReadonlyIntact'
  <2>1. SUFFICES ASSUME Backed', NEW a \in Nat, a < rdonly
                 PROVE  mem'[a] = Content(x)[a + 1]
    <3>1. ReadonlyBarrier' = rdonly /\ rdonly \in Nat /\ exe' = x
      BY <1>3, <1>10 DEF rdonly
    <3>2. QED
      BY <3>1 DEF ReadonlyIntact
  <2>2. a \in DOMAIN block /\ a < content
    <3>1. mem_cap' \in Int
      BY <1>5, WordFacts DEF Word
    <3>2. a < mem_cap'
      BY <1>5, <1>10, <2>1, <3>1
    <3>3. a < content
      BY <1>10, <2>1
    <3>4. a \in 0 .. (mem_cap' - 1)
      BY <3>1, <3>2, BelowIsIndex
    <3>5. QED
      BY <1>6, <2>1, <3>3, <3>4
  <2>3. Loaded(block, x)[a] = Content(x)[a + 1] /\ a \in DOMAIN Loaded(block, x)
    BY <2>2 DEF Loaded, content
  <2>4. mem'[a] = Loaded(block, x)[a]
    <3> DEFINE loaded == Loaded(block, x)
    <3>1. args \in Seq(Seq(Byte)) /\ size \in Int /\ rdonly \in Int
      BY <1>1, <1>10
    <3>2. a \in 0 .. (rdonly - 1) /\ a \in DOMAIN loaded
      BY <1>10, <2>1, <2>3
    <3>3. mem' = AfterStores(loaded, InitStores(args, size, argv, TotalSize(x)), size, rdonly)
      BY <1>7 DEF stores
    <3> HIDE DEF loaded
    <3>4. QED
      BY <3>1, <3>2, <3>3, StoresSafe DEF loaded
  <2>5. QED
    BY <2>3, <2>4
<1>12. MemoryInv' \/ Overrun'
  <2>1. BreakKeepsProgram' /\ mem_size' <= mem_cap'
    <3>1. /\ ExeBarrier' = text /\ ReadonlyBarrier' = rdonly /\ StackBarrier' = total
          /\ mem_size' = size /\ min_mem_size' = size
      BY <1>3 DEF rdonly, text, total
    <3>2. QED
      BY <1>5, <1>10, <3>1 DEF BreakKeepsProgram
  <2>2. text \in Word /\ rdonly \in Word /\ total \in Word
    BY <1>10, WordFacts DEF Word
  <2>3. CASE Backed'
    <3>1. CapacityBacked'
      BY <1>6, <1>8, <2>3 DEF CapacityBacked
    <3>2. QED
      BY <1>0, <1>1, <1>2, <1>3, <1>5, <1>11, <2>1, <2>2, <2>3, <3>1
      DEF MemoryInv, rdonly, text, total
  <2>4. CASE ~Backed'
    <3>1. ~CapacityBacked'
      BY <1>5, <1>8, <2>4, PaddingWrapped DEF Backed, CapacityBacked
    <3>2. QED
      BY <1>0, <1>1, <1>2, <1>3, <1>5, <2>1, <2>2, <2>4, <3>1
      DEF MemoryInv, Overrun, rdonly, text, total
  <2>5. QED
    BY <2>3, <2>4
<1>13. ClientInv'
  <2>1. error' \in ErrorCode
    BY StoresFault DEF Initialize
  <2>2. /\ running' = (error' = "None") /\ suspended_read' = FALSE
        /\ FileDescriptors' = IF running' THEN FileDescriptors ELSE AllClosed
        /\ RIP' = 0 /\ RFLAGS' = {} /\ RSP' = (argv - 2 * PtrSize) % W
        /\ regs' \in RandomRegisters /\ return_value' = return_value
    BY <1>3 DEF Initialize, argv, size
  <2>3. 0 \in Word /\ RandomRegisters \subseteq [RAX : Word, RBX : Word, RCX : Word, RDX : Word]
    BY WordFacts, HostAssumption DEF Word
  <2>4. FileDescriptors' \in [FD -> FileWrapper \cup {NULL}] /\ ClientFilesNeedClient'
    BY <1>0, <2>2 DEF ClientInv, AllClosed, ClientFilesNeedClient
  <2>6. RSP' \in Word
    <3>1. argv \in Word
      BY <1>1, <1>2, ArgvPosType DEF argv
    <3>2. argv - 2 * PtrSize \in Int
      BY <3>1, WordFacts DEF Word
    <3>3. QED
      BY <2>2, <3>2, ModType
  <2>7. QED
    BY <1>0, <1>1, <1>3, <2>1, <2>2, <2>3, <2>4, <2>6 DEF ClientInv
<1>14. QED
  BY <1>12, <1>13 DEF Sound

-----------------------------------------------------------------------------
(* The other calls of the host: they may come while the machine waits.     *)

LEMMA HostCalls ==
  ASSUME IInv,
         \/ \E err \in {"None", "Abort"} : HostTerminate(err)
         \/ HostExit(0)
         \/ ResumeSuspendedRead
         \/ \E f \in HostFiles : OpenFileWrapper(f)
         \/ \E fd \in FD, f \in HostFiles : OpenFileWrapperAt(fd, f)
         \/ \E fd \in FD : CloseFileWrapper(fd)
         \/ CloseFiles
         \/ SetRegister
  PROVE  IInv'
<1>0. MemoryInv /\ ClientInv
  BY DEF IInv
<1>1. MemoryInv'
  <2>1. UNCHANGED <<sizeVars, loadVars, max_mem_size>>
    BY DEF HostTerminate, HostExit, ResumeSuspendedRead, OpenFileWrapper,
           OpenFileWrapperAt, CloseFileWrapper, SetDescriptor, CloseFiles, SetRegister
  <2>2. QED
    BY <1>0, <2>1, MemoryKept, SameMemory DEF sizeVars
<1>2. CASE (\E err \in {"None", "Abort"} : HostTerminate(err)) \/ HostExit(0)
  <2>1. \/ \E err \in ErrorCode : Terminate(err)
        \/ \E ret \in Word : Exit(ret)
    BY <1>2, WordFacts DEF HostTerminate, HostExit, ErrorCode, Word
  <2>2. UNCHANGED <<exe, suspended_read, cpuVars>>
    BY <1>2 DEF HostTerminate, HostExit, loadVars
  <2>3. ClientInv'
    BY <1>0, <2>1, <2>2, Stops DEF ClientInv, cpuVars
  <2>4. QED
    BY <1>1, <2>3 DEF IInv
<1>3. CASE ResumeSuspendedRead
  <2>1. ClientInv'
    BY <1>0, <1>3 DEF ResumeSuspendedRead, ClientInv,
                      ClientFilesNeedClient, lifeVars, cpuVars, loadVars
  <2>2. QED
    BY <1>1, <2>1 DEF IInv
<1>4. ASSUME NEW fd \in FD, NEW f \in HostFiles \cup {NULL}, SetDescriptor(fd, f)
      PROVE  IInv'
  <2>1. f \in FileWrapper \cup {NULL} /\ (f # NULL => ~f.client)
    BY HostAssumption DEF FileWrapper
  <2>2. FileDescriptors \in [FD -> FileWrapper \cup {NULL}] /\ ClientFilesNeedClient
    BY <1>0 DEF ClientInv
  <2>3. FileDescriptors' = [FileDescriptors EXCEPT ![fd] = f] /\ running' = running
    BY <1>4 DEF SetDescriptor
  <2>4. FileDescriptors' \in [FD -> FileWrapper \cup {NULL}] /\ ClientFilesNeedClient'
    BY <2>1, <2>2, <2>3 DEF ClientFilesNeedClient
  <2>5. ClientInv'
    BY <1>0, <1>4, <2>4 DEF SetDescriptor, ClientInv, Code, cpuVars, loadVars
  <2>6. QED
    BY <1>1, <2>5 DEF IInv
<1>5. CASE CloseFiles
  <2>1. FileDescriptors' \in [FD -> FileWrapper \cup {NULL}] /\ ClientFilesNeedClient'
    BY <1>5 DEF CloseFiles, AllClosed, ClientFilesNeedClient
  <2>2. ClientInv'
    BY <1>0, <1>5, <2>1 DEF CloseFiles, ClientInv, Code, cpuVars, loadVars
  <2>3. QED
    BY <1>1, <2>2 DEF IInv
<1>6. CASE SetRegister
  <2>1. RFLAGS' \in SUBSET Flag
    BY <1>0, <1>6, HostAssumption DEF SetRegister, PrivateFlags, Flag, ClientInv
  <2>2. CpuTypes'
    BY <1>0, <1>6, <2>1, HostAssumption DEF SetRegister, ClientInv, CpuTypes
  <2>3. ClientInv'
    BY <1>0, <1>6, <2>2, ClientKept DEF SetRegister, loadVars
  <2>4. QED
    BY <1>1, <2>3 DEF IInv
<1>7. QED
  BY <1>2, <1>3, <1>4, <1>5, <1>6 DEF OpenFileWrapper, OpenFileWrapperAt, CloseFileWrapper

(* The host's string lands above the read-only segments, if it lands.      *)
LEMMA OneStore ==
  ASSUME NEW m, NEW s, s.len \in Int, NEW size \in Int, NEW rdonly \in Int, NEW a \in DOMAIN m
  PROVE  /\ DOMAIN AfterStores(m, <<s>>, size, rdonly) = DOMAIN m
         /\ \/ AfterStores(m, <<s>>, size, rdonly)[a] = m[a]
            \/ Lands(s, size, rdonly) /\ a \in s.pos .. (s.pos + s.len - 1)
<1>1. DOMAIN <<s>> = {1} /\ <<s>>[1] = s
  OBVIOUS
<1>2. QED
  BY <1>1 DEF AfterStores

LEMMA HostAccesses ==
  ASSUME IInv,
         \/ HostRead
         \/ \E pos \in Addrs, n \in Sizes, v \in Values : HostSetMem(pos, n, v)
         \/ \E pos \in Addrs, str \in HostStrings : HostSetCString(pos, str)
         \/ \E n \in Sizes, v \in Values : HostPush(n, v)
         \/ \E n \in Sizes : HostPop(n)
  PROVE  IInv'
<1>0. MemoryInv /\ ClientInv
  BY DEF IInv
<1>1. CASE HostRead
  <2>1. CpuTypes' /\ WritableChange /\ UNCHANGED Private
    BY <1>0, <1>1, SameMemory DEF HostRead, ClientInv, CpuTypes, cpuVars
  <2>2. UNCHANGED lifeVars \/ \E err \in ErrorCode : Terminate(err)
    BY <1>1, FaultTypes, EndsOutcome DEF HostRead
  <2>3. QED
    BY <2>1, <2>2, OperationKept
<1>2. ASSUME NEW pos \in Addrs, NEW n \in Sizes, NEW v \in Values, HostSetMem(pos, n, v)
      PROVE  IInv'
  <2>1. /\ Ends(WriteFault(pos, n))
        /\ mem' = IF WriteFault(pos, n) = "None" THEN Written(mem, pos, n, v) ELSE mem
    BY <1>2 DEF HostSetMem
  <2>2. WritableChange
    BY <1>0, <2>1, WriteSafe, WrittenSafe, SameMemory, HostAssumption
  <2>3. CpuTypes' /\ UNCHANGED Private
    BY <1>0, <1>2 DEF HostSetMem, ClientInv, CpuTypes, cpuVars
  <2>4. UNCHANGED lifeVars \/ \E err \in ErrorCode : Terminate(err)
    BY <2>1, FaultTypes, EndsOutcome
  <2>5. QED
    BY <2>2, <2>3, <2>4, OperationKept
<1>3. ASSUME NEW pos \in Addrs, NEW str \in HostStrings, HostSetCString(pos, str)
      PROVE  IInv'
  <2> DEFINE s == StringStore(pos, str)
  <2>1. /\ Ends(StoreFault(s, mem_size, ReadonlyBarrier))
        /\ mem' = AfterStores(mem, <<s>>, mem_size, ReadonlyBarrier)
    BY <1>3 DEF HostSetCString
  <2>2. s.len \in Int /\ mem_size \in Int /\ ReadonlyBarrier \in Int
    BY <1>0, HostAssumption, WordFacts DEF StringStore, MemoryInv, Word
  <2>3. StoreFault(s, mem_size, ReadonlyBarrier) \in ErrorCode
    BY DEF StoreFault, ErrorCode
  <2>4. CpuTypes' /\ UNCHANGED Private
    BY <1>0, <1>3 DEF HostSetCString, ClientInv, CpuTypes, cpuVars
  <2> HIDE DEF s
  <2>5. DOMAIN mem' = DOMAIN mem
    BY <2>1 DEF AfterStores
  <2>6. WritableChange
    <3> SUFFICES ASSUME NEW a \in DOMAIN mem, a \in 0 .. (ReadonlyBarrier - 1)
                 PROVE  mem'[a] = mem[a]
      BY <2>5 DEF WritableChange
    <3>1. \/ mem'[a] = mem[a]
          \/ Lands(s, mem_size, ReadonlyBarrier) /\ a \in s.pos .. (s.pos + s.len - 1)
      BY <2>1, <2>2, OneStore
    <3>2. Lands(s, mem_size, ReadonlyBarrier) => s.pos \in Int /\ s.pos >= ReadonlyBarrier
      BY <2>2 DEF Lands
    <3>3. QED
      BY <2>2, <3>1, <3>2
  <2>7. UNCHANGED lifeVars \/ \E err \in ErrorCode : Terminate(err)
    BY <2>1, <2>3, EndsOutcome
  <2>9. QED
    BY <2>4, <2>6, <2>7, OperationKept
<1>4. ASSUME NEW n \in Sizes, NEW v \in Values, HostPush(n, v) PROVE IInv'
  <2>1. n \in 1 .. PtrSize /\ PushRaw(n, v)
    BY <1>4, HostAssumption DEF HostPush
  <2>2. CpuTypes' /\ UNCHANGED Private
    BY <1>0, <1>4, <2>1, PushRawSafe DEF HostPush, ClientInv, CpuTypes
  <2>3. QED
    BY <2>1, <2>2, PushRawSafe, OperationKept
<1>5. ASSUME NEW n \in Sizes, HostPop(n) PROVE IInv'
  <2>1. n \in 1 .. PtrSize /\ Ends(PopFault(RSP, n))
        /\ RSP' = IF PopFault(RSP, n) = "None" THEN (RSP + n) % W ELSE RSP
    BY <1>5, HostAssumption DEF HostPop, PopRaw
  <2>2. CpuTypes' /\ WritableChange /\ UNCHANGED Private
    BY <1>0, <1>5, <2>1, CpuWords, SameMemory DEF HostPop, ClientInv, CpuTypes
  <2>3. UNCHANGED lifeVars \/ \E err \in ErrorCode : Terminate(err)
    BY <2>1, FaultTypes, EndsOutcome
  <2>4. QED
    BY <2>2, <2>3, OperationKept
<1>6. QED
  BY <1>1, <1>2, <1>3, <1>4, <1>5

LEMMA MaxMemoryKept ==
  ASSUME IInv, NEW max \in MemLimits, MaxMemory(max)
  PROVE  IInv'
<1>1. max \in Word
  BY HostAssumption
<1>2. MemoryInv'
  BY <1>1 DEF IInv, MemoryInv, MaxMemory, sizeVars, loadVars, limitVars,
              Backed, CapacityBacked, BreakKeepsProgram, ReadonlyIntact
<1>3. ClientInv'
  BY DEF IInv, ClientInv, MaxMemory, ClientFilesNeedClient, lifeVars, cpuVars, loadVars
<1>4. QED
  BY <1>2, <1>3 DEF IInv

-----------------------------------------------------------------------------
(* The invariant.                                                          *)

LEMMA InitKept == ASSUME Init PROVE IInv
<1>1. 0 \in Word /\ Garbage \subseteq Word /\ MemLimits \subseteq Word
  BY WordFacts, HostAssumption DEF Word
<1>2. MemoryInv
  <2>1. Backed /\ CapacityBacked /\ mem_cap <= MaxAlloc
    BY WordAssumption, WordFacts DEF Init, Backed, CapacityBacked
  <2>2. QED
    BY <1>1, <2>1 DEF Init, MemoryInv, BreakKeepsProgram, ReadonlyIntact
<1>3. ClientInv
  <2>1. FileDescriptors \in [FD -> FileWrapper \cup {NULL}] /\ ClientFilesNeedClient
    BY DEF Init, AllClosed, ClientFilesNeedClient
  <2>2. regs \in [RAX : Word, RBX : Word, RCX : Word, RDX : Word] /\ RSP \in Word /\ RIP \in Word
    BY <1>1, HostAssumption DEF Init
  <2>3. QED
    BY <2>1, <2>2 DEF Init, ClientInv, ErrorCode
<1>4. QED
  BY <1>2, <1>3 DEF IInv

(* A machine whose block is there satisfies all of it.                     *)
LEMMA Real == ASSUME Sound, Backed PROVE IInv
  BY DEF Sound, Overrun, IInv

LEMMA StepKept == ASSUME Sound, [Next]_vars PROVE Sound'
<1>1. CASE Next
  <2>1. IInv
    BY <1>1, Real DEF Next
  <2>2. CASE Load
    BY <2>1, <2>2, InitializeKept DEF Load
  <2>3. CASE HostCall
    BY <2>1, <2>3, HostCalls, HostAccesses, MaxMemoryKept, Keeps DEF HostCall
  <2>4. CASE Tick
    BY <2>1, <2>4, TickKept
  <2>5. QED
    BY <1>1, <2>2, <2>3, <2>4 DEF Next
<1>2. CASE UNCHANGED vars
  <2>1. MemoryInv => MemoryInv'
    BY <1>2, MemoryKept, SameMemory DEF vars, sizeVars, limitVars, loadVars
  <2>2. Overrun => Overrun'
    BY <1>2 DEF Overrun, Backed, CapacityBacked, BreakKeepsProgram, vars, sizeVars, limitVars
  <2>3. ClientInv'
    BY <1>2 DEF Sound, ClientInv, ClientFilesNeedClient, vars, cpuVars
  <2>4. QED
    BY <2>1, <2>2, <2>3 DEF Sound
<1>3. QED
  BY <1>1, <1>2

(* Whatever host and client do, in any order and under any limit the host  *)
(* sets, the invariant holds.                                              *)
THEOREM Invariance == Spec => []Sound
<1>1. Init => Sound
  BY InitKept DEF IInv, Sound
<1>2. Sound /\ [Next]_vars => Sound'
  BY StepKept
<1>3. QED
  BY <1>1, <1>2, PTL DEF Spec

-----------------------------------------------------------------------------
(* What follows for the properties of Machine.                             *)

(* Every field keeps its type, the u64s their width, through every handler *)
(* and every call of the host.                                             *)
THEOREM TypesKept == Spec => []TypeOK
<1>1. Sound => TypeOK
  BY DEF Sound, MemoryInv, Overrun, ClientInv, TypeOK
<1>2. QED
  BY <1>1, Invariance, PTL

(* The text and rodata of a loaded program are those of its executable:    *)
(* no store, push, read of a file, realloc or host write reaches them, as  *)
(* long as its memory is there.                                            *)
THEOREM ReadonlyKept == Spec => []ReadonlyIntact
<1>1. Sound => ReadonlyIntact
  BY DEF Sound, MemoryInv, Overrun, ReadonlyIntact
<1>2. QED
  BY <1>1, Invariance, PTL

(* The segments of a loaded program stay below the break that sys_brk sets *)
(* under any limit of the host, the break within the capacity, and that    *)
(* capacity is memory realloc really obtained unless the padding of the    *)
(* allocation wrapped, and only then not.                                  *)
THEOREM BreakKept == Spec => []BreakSafe
<1>1. Sound => BreakSafe
  BY DEF Sound, MemoryInv, Overrun, BreakSafe
<1>2. QED
  BY <1>1, Invariance, PTL

(* However a client ends, no file it opened stays open.                    *)
THEOREM ClientFilesClosed == Spec => []ClientFilesNeedClient
<1>1. Sound => ClientFilesNeedClient
  BY DEF Sound, ClientInv
<1>2. QED
  BY <1>1, Invariance, PTL

(* The calls of the host that leave where the machine stands alone, and    *)
(* suspend nothing.                                                        *)
LEMMA HostMovesNothing ==
  ASSUME HostCall, ~SetRegister
  PROVE  /\ UNCHANGED <<regs, RIP, exe, ExeBarrier, limitVars>>
         /\ running' => running
         /\ suspended_read' => suspended_read
<1>0. ASSUME NEW fault, Ends(fault) PROVE running' => running
  BY <1>0 DEF Ends, Terminate, lifeVars
<1>1. CASE \/ \E pos \in Addrs, n \in Sizes, v \in Values : HostSetMem(pos, n, v)
           \/ \E pos \in Addrs, str \in HostStrings : HostSetCString(pos, str)
           \/ \E n \in Sizes, v \in Values : HostPush(n, v)
           \/ \E n \in Sizes : HostPop(n)
           \/ HostRead
  <2>1. UNCHANGED <<Private, regs, RIP>>
    BY <1>1 DEF HostRead, HostSetMem, HostSetCString, HostPush, HostPop, cpuVars
  <2>2. \E fault : Ends(fault)
    BY <1>1 DEF HostRead, HostSetMem, HostSetCString, HostPush, HostPop, PushRaw, PopRaw
  <2>3. QED
    BY <1>0, <2>1, <2>2 DEF Private, loadVars
<1>2. CASE \/ \E err \in {"None", "Abort"} : HostTerminate(err)
           \/ HostExit(0)
           \/ ResumeSuspendedRead
           \/ \E f \in HostFiles : OpenFileWrapper(f)
           \/ \E fd \in FD, f \in HostFiles : OpenFileWrapperAt(fd, f)
           \/ \E fd \in FD : CloseFileWrapper(fd)
           \/ CloseFiles
           \/ \E max \in MemLimits : MaxMemory(max)
  BY <1>2 DEF HostTerminate, HostExit, Terminate, Exit, ResumeSuspendedRead,
     OpenFileWrapper, OpenFileWrapperAt, CloseFileWrapper, SetDescriptor, CloseFiles,
     MaxMemory, lifeVars, cpuVars, loadVars
<1>3. QED
  BY <1>1, <1>2 DEF HostCall

(* Only a read suspends an executing machine, and it backs RIP up.         *)
LEMMA TickSuspends ==
  ASSUME Tick, running', suspended_read'
  PROVE  /\ Fetched(SYSCALL) /\ Code = sys_read
         /\ UNCHANGED <<regs, RIP, exe, ExeBarrier>>
<1>1. Ticking
  BY DEF Tick, FetchFails, Nop, Halt, MovRegister, MovLoad, MovStore,
     Push, PopRegister, PopMemory, Jump, Call, Ret, PopFlags, SetFlagsFromAH, Syscall,
     Decoded, Fetched
<1>2. Syscall
  BY <1>1 DEF Tick, FetchFails, Nop, Halt, MovRegister, MovLoad, MovStore,
     Push, PopRegister, PopMemory, Jump, Call, Ret, PopFlags, SetFlagsFromAH, Private, Ticking
<1>3. Fetched(SYSCALL) /\ ProcessSYSCALL
  BY <1>2 DEF Syscall, Decoded
<1>4. SysRead /\ ~Return
  BY <1>1, <1>3 DEF ProcessSYSCALL, SysExit, SysRead, SysWrite, SysOpen, SysClose, SysLseek,
     SysBrk, SysPath, SysUnhandled, Abort, Return, Ticking, Terminate, Exit
<1>5. QED
  BY <1>3, <1>4 DEF SysRead, Abort, cpuVars, loadVars

(* A machine that a read suspends stands at the SYSCALL it will repeat, in *)
(* its own text, and stays there until the host moves it.                  *)
THEOREM SuspensionSafe == Spec => SuspendedAtRead
<1> DEFINE Stands == running' /\ suspended_read' =>
             AtRead' \/ SetRegister \/ (running /\ suspended_read /\ ~AtRead)
<1>1. ASSUME Load PROVE Stands
  BY <1>1 DEF Load, Initialize
<1>2. ASSUME HostCall PROVE Stands
  BY <1>2, HostMovesNothing DEF AtRead, Code
<1>3. ASSUME IInv, Tick PROVE Stands
  <2> SUFFICES ASSUME running', suspended_read' PROVE AtRead'
    OBVIOUS
  <2>1. /\ Fetched(SYSCALL) /\ Code = sys_read
        /\ UNCHANGED <<regs, RIP, exe, ExeBarrier>>
    BY <1>3, TickSuspends
  <2>2. RIP < ExeBarrier /\ exe.text[RIP + 1] = SYSCALL
    BY <1>3, <2>1, FetchedText
  <2>3. QED
    BY <2>1, <2>2 DEF AtRead, Code
<1>4. Sound /\ [Next]_vars => [Stands]_vars
  BY <1>1, <1>2, <1>3, Real DEF Next
<1>5. QED
  BY <1>4, Invariance, PTL DEF Spec, SuspendedAtRead

(* A push never writes below the stack's barrier: PushRaw, of PUSH, of     *)
(* CALL and of the host's Push, tests it before it stores, and a machine   *)
(* in which the test can pass has memory there.                            *)
THEOREM StackContained == Spec => PushesStayInStack
<1> DEFINE Pushes == Push \/ Call \/ (\E n \in Sizes, v \in Values : HostPush(n, v))
<1>1. ASSUME IInv, Pushes, NEW a \in 0 .. (StackBarrier - 1)
      PROVE  mem'[a] = mem[a]
  <2>1. MemoryInv
    BY <1>1 DEF IInv
  <2>2. PICK n \in 1 .. PtrSize, v \in Word : PushRaw(n, v)
    <3>1. Values \subseteq Word /\ Sizes \subseteq 1 .. PtrSize /\ PtrSize \in 1 .. PtrSize
      BY HostAssumption, WordFacts
    <3>2. After(CALL) \in Word
      BY <1>1, CpuWords DEF IInv
    <3>3. QED
      BY <1>1, <3>1, <3>2 DEF Push, Call, HostPush
  <2> DEFINE pos == (RSP - n) % W
  <2>3. CASE PushFault(pos, n) = "None"
    <3>1. WriteFault(pos, n) = "None" /\ ~(pos < StackBarrier) /\ mem' = Written(mem, pos, n, v)
      BY <2>2, <2>3 DEF PushRaw, PushFault
    <3>2. pos \in Int
      BY <1>1, CpuWords, WordFacts DEF IInv, Word
    <3> HIDE DEF pos
    <3>3. exe # NULL
      <4>1. pos \in 0 .. (mem_size - 1)
        BY <3>1 DEF WriteFault, ReadFault
      <4>2. QED
        BY <2>1, <4>1 DEF MemoryInv
    <3>4. a \in DOMAIN mem /\ StackBarrier \in Nat
      BY <1>1, <2>1, <3>3, ProgramFacts
    <3>5. a \notin pos .. (pos + n - 1)
      BY <1>1, <3>1, <3>2, <3>4
    <3>6. QED
      BY <3>1, <3>4, <3>5 DEF Written
  <2>4. CASE PushFault(pos, n) # "None"
    BY <2>2, <2>4 DEF PushRaw
  <2>5. QED
    BY <2>3, <2>4
<1>2. Sound /\ [Next]_vars =>
        [Pushes => \A a \in 0 .. (StackBarrier - 1) : mem'[a] = mem[a]]_vars
  BY <1>1, Real DEF Next
<1>3. QED
  BY <1>2, Invariance, PTL DEF Spec, PushesStayInStack

(* A stopped machine keeps its outcome until it is loaded again: Terminate *)
(* and Exit act on a running one only, also those of a faulting access,    *)
(* push or pop of the host, and nothing else sets an outcome.              *)
THEOREM OutcomeKept == Spec => StoppedIsInert
<1> DEFINE Inert == UNCHANGED <<running, error, return_value>>
<1>1. ASSUME Tick PROVE running
  BY <1>1 DEF Tick, FetchFails, Nop, Halt, MovRegister, MovLoad, MovStore,
     Push, PopRegister, PopMemory, Jump, Call, Ret, PopFlags, SetFlagsFromAH, Syscall,
     Decoded, Fetched, Ticking
<1>2. ASSUME HostCall, ~running PROVE Inert
  BY <1>2 DEF HostCall, HostTerminate, HostExit, Terminate, Exit, ResumeSuspendedRead,
     OpenFileWrapper, OpenFileWrapperAt, CloseFileWrapper, SetDescriptor, CloseFiles,
     MaxMemory, SetRegister, HostRead, HostSetMem, HostSetCString, HostPush, HostPop,
     PushRaw, PopRaw, Ends, lifeVars
<1>3. [Next]_vars => [~running /\ (HostCall \/ Tick) => Inert]_vars
  BY <1>1, <1>2
<1>4. QED
  BY <1>3, PTL DEF Spec, StoppedIsInert

(* The private flags are the host's: POPF and SAHF mask them, and no other *)
(* operation sets a flag.                                                  *)
THEOREM FlagsPrivate == Spec => PrivateFlagsKept
<1>1. ASSUME Tick PROVE RFLAGS' \cap PrivateFlags = RFLAGS \cap PrivateFlags
  <2>1. CASE PopFlags \/ SetFlagsFromAH
    <3>1. UNCHANGED RFLAGS \/ \E flags : RFLAGS' = Masked(flags)
      BY <2>1 DEF PopFlags, SetFlagsFromAH
    <3>2. QED
      BY <3>1 DEF Masked, ModifiableFlags, PrivateFlags
  <2>2. CASE Syscall
    BY <2>2 DEF Syscall, ProcessSYSCALL, SysExit, SysRead, SysWrite, SysOpen, SysClose,
       SysLseek, SysBrk, SysPath, SysUnhandled, Return, Abort, cpuVars
  <2>3. CASE ~(PopFlags \/ SetFlagsFromAH \/ Syscall)
    BY <1>1, <2>3 DEF Tick, FetchFails, Nop, Halt, MovRegister, MovLoad,
       MovStore, Push, PopRegister, PopMemory, Jump, Call, Ret, cpuVars
  <2>4. QED
    BY <2>1, <2>2, <2>3
<1>2. [Next]_vars => [Tick => RFLAGS' \cap PrivateFlags = RFLAGS \cap PrivateFlags]_vars
  BY <1>1
<1>3. QED
  BY <1>2, PTL DEF Spec, PrivateFlagsKept


-----------------------------------------------------------------------------
(* What no step but Initialize does.                                       *)

(* Host and client keep the limits that Initialize set, and no step of     *)
(* theirs starts the client again.                                         *)
LEMMA LimitsStay ==
  ASSUME HostCall \/ Tick
  PROVE  UNCHANGED <<limitVars, exe>> /\ (running' => running)
<1>1. CASE HostCall
  <2>1. CASE SetRegister
    BY <2>1 DEF SetRegister, lifeVars, loadVars
  <2>2. CASE ~SetRegister
    BY <1>1, <2>2, HostMovesNothing
  <2>3. QED
    BY <2>1, <2>2
<1>2. CASE Syscall
  BY <1>2 DEF Syscall, Decoded, Fetched, Ticking, ProcessSYSCALL, SysExit, SysRead,
     SysWrite, SysOpen, SysClose, SysLseek, SysBrk, SysPath, SysUnhandled,
     Abort, KeepMemory, loadVars
<1>3. ASSUME Tick, ~Syscall PROVE UNCHANGED <<limitVars, exe>> /\ running
  BY <1>3 DEF Tick, FetchFails, Nop, Halt, MovRegister, MovLoad, MovStore,
     Push, PopRegister, PopMemory, Jump, Call, Ret, PopFlags, SetFlagsFromAH,
     Decoded, Fetched, Ticking, Private, loadVars
<1>4. QED
  BY <1>1, <1>2, <1>3

(* Memory only changes by a store, a push, a copy, a read or sys_brk.      *)
LEMMA MemoryStays ==
  ASSUME HostCall \/ Tick
  PROVE  \/ UNCHANGED <<mem, mem_size, mem_cap>>
         \/ \E pos \in Addrs, n \in Sizes, v \in Values : HostSetMem(pos, n, v)
         \/ \E pos \in Addrs, str \in HostStrings : HostSetCString(pos, str)
         \/ \E n \in Sizes, v \in Values : HostPush(n, v)
         \/ MovStore \/ Push \/ PopMemory \/ Call
         \/ SysRead /\ ReadCallFault = "None" /\ ~UNCHANGED sizeVars
         \/ SysBrk /\ ~UNCHANGED sizeVars
<1>1. CASE HostCall
  BY <1>1 DEF HostCall, HostTerminate, HostExit, ResumeSuspendedRead,
     OpenFileWrapper, OpenFileWrapperAt, CloseFileWrapper, SetDescriptor, CloseFiles,
     MaxMemory, SetRegister, HostRead, HostPop, Private, sizeVars
<1>2. CASE Syscall
  BY <1>2 DEF Syscall, ProcessSYSCALL, SysExit, SysRead,
     SysWrite, SysOpen, SysClose, SysLseek, SysPath, SysUnhandled,
     Abort, KeepMemory, sizeVars
<1>3. ASSUME Tick, ~Syscall, ~(MovStore \/ Push \/ PopMemory \/ Call)
      PROVE  UNCHANGED <<mem, mem_size, mem_cap>>
  BY <1>3 DEF Tick, FetchFails, Nop, Halt, MovRegister, MovLoad,
     PopRegister, Jump, Ret, PopFlags, SetFlagsFromAH, Private
<1>4. QED
  BY <1>1, <1>2, <1>3

-----------------------------------------------------------------------------
(* Room for the pushes of Initialize.                                      *)

(* A client that runs in memory that is there got its two pushed words     *)
(* between the barrier of the stack and the break.                         *)
RoomForPushes == running /\ Backed => StackBarrier + PtrSize <= min_mem_size

(* No store of a machine that starts without a fault has one.              *)
LEMMA NoStoreFault ==
  ASSUME NEW N \in Nat, NEW stores, DOMAIN stores = 1 .. N, NEW size, NEW rdonly,
         FirstFault(stores, size, rdonly) = "None", NEW k \in 1 .. N
  PROVE  StoreFault(stores[k], size, rdonly) = "None"
<1> DEFINE faulty == {i \in DOMAIN stores : StoreFault(stores[i], size, rdonly) # "None"}
<1>1. faulty \subseteq Nat
  OBVIOUS
<1>2. CASE faulty # {}
  <2>1. Min(faulty) \in faulty
    <3> HIDE DEF faulty
    <3> QED
      BY <1>1, <1>2, MinOf
  <2>2. StoreFault(stores[Min(faulty)], size, rdonly) = "None"
    BY <1>2 DEF FirstFault
  <2>3. QED
    BY <2>1, <2>2
<1>3. QED
  BY <1>2

(* What a store without a fault that is not quiet needed.                  *)
LEMMA StoreInside ==
  ASSUME NEW s, NEW size, NEW rdonly, s.quiet = FALSE,
         StoreFault(s, size, rdonly) = "None"
  PROVE  /\ ~(s.pos < s.floor) /\ s.pos \in 0 .. (size - 1)
         /\ ~((s.pos + s.len) % W > size)
BY DEF StoreFault

LEMMA RoomMade ==
  ASSUME MemoryInv, NEW x \in Exes, NEW args \in ArgLists, NEW stacksize \in StackSizes,
         Initialize(x, args, stacksize)
  PROVE  RoomForPushes'
<1> DEFINE size == mem_size'
           rdonly == Len(x.text) + Len(x.rodata)
           stores == InitStores(args, size, ArgvPos(args, size), TotalSize(x))
           last == 2 * Len(args) + 3
           pos == (ArgvPos(args, size) - 2 * PtrSize) % W
<1> SUFFICES ASSUME running', Backed' PROVE StackBarrier' + PtrSize <= min_mem_size'
  BY DEF RoomForPushes
<1>1. /\ min_mem_size' = size /\ StackBarrier' = TotalSize(x)
      /\ FirstFault(stores, size, rdonly) = "None"
  BY DEF Initialize
<1>2. size \in Word /\ size <= MaxAlloc /\ TotalSize(x) \in Word
  <2>1. /\ size \in Word /\ mem_cap' \in Word
        /\ size <= mem_cap' /\ mem_cap' <= MaxAlloc
    BY InitializeMemory
  <2>2. size <= MaxAlloc
    BY <2>1, WordFacts DEF Word
  <2>3. QED
    BY <2>1, <2>2, ContentFacts
<1>3. last \in Nat /\ last \in 1 .. last /\ DOMAIN stores = 1 .. last
      /\ last > 2 * Len(args) + 2 /\ last > 2 * Len(args) + 1 /\ last > Len(args)
  <2>1. Len(args) \in Nat
    BY HostAssumption
  <2>2. QED
    BY <2>1 DEF InitStores
<1>4. /\ stores[last].pos = pos /\ stores[last].len = PtrSize
      /\ stores[last].floor = TotalSize(x) /\ stores[last].quiet = FALSE
  BY <1>3 DEF InitStores, WordStore
<1> HIDE DEF stores, last, pos, size, rdonly
<1>5. StoreFault(stores[last], size, rdonly) = "None"
  BY <1>1, <1>3, NoStoreFault
<1>6. /\ ~(pos < TotalSize(x)) /\ pos \in 0 .. (size - 1)
      /\ ~((pos + PtrSize) % W > size)
  BY <1>4, <1>5, StoreInside
<1> DEFINE total == TotalSize(x)
           past == pos + PtrSize
<1>7. past \in Word
  BY <1>2, <1>6, WordFacts DEF Word
<1>8. past % W = past
  <2> HIDE DEF past
  <2> QED
    BY <1>7, ModSmall
<1>9. past <= size
  BY <1>2, <1>6, <1>7, <1>8, WordFacts DEF Word
<1>10. total \in Int /\ total <= pos /\ pos \in Int /\ size \in Int
  BY <1>2, <1>6, WordFacts DEF Word
<1> HIDE DEF total
<1>11. total + PtrSize <= size
  BY <1>9, <1>10, WordFacts
<1>12. QED
  BY <1>1, <1>11 DEF total

LEMMA RoomStays ==
  ASSUME Sound, RoomForPushes, [Next]_vars
  PROVE  RoomForPushes'
<1>1. CASE Next /\ Load
  <2>1. MemoryInv
    BY <1>1, Real DEF Next, IInv
  <2>2. QED
    BY <1>1, <2>1, RoomMade DEF Load
<1>2. CASE Next /\ (HostCall \/ Tick)
  BY <1>2, LimitsStay DEF Next, RoomForPushes, limitVars
<1>3. CASE UNCHANGED vars
  BY <1>3 DEF RoomForPushes, Backed, vars, sizeVars, limitVars
<1>4. QED
  BY <1>1, <1>2, <1>3 DEF Next

(* An operation in the text has its operands: the bytes after it, as many  *)
(* as they are, lie below the words that Initialize pushed.                *)
LEMMA RoomForOperands == ASSUME IInv, RoomForPushes PROVE OperandsPresent
<1> SUFFICES ASSUME Backed, running, FetchFault = "None" PROVE OperandFault(mem[RIP]) = "None"
  BY DEF OperandsPresent
<1>1. MemoryInv /\ exe # NULL /\ RIP \in Word
  BY DEF IInv, ClientInv
<1>2. /\ ExeBarrier \in Nat /\ StackBarrier \in Nat /\ min_mem_size \in Nat /\ mem_size \in Nat
      /\ ExeBarrier <= StackBarrier /\ min_mem_size <= mem_size
      /\ mem_size < W
  <2>1. mem_size \in Word
    BY <1>1 DEF MemoryInv
  <2>2. QED
    BY <1>1, <2>1, ProgramFacts, WordFacts DEF Word
<1>3. ~(RIP >= ExeBarrier)
  BY DEF FetchFault
<1>4. StackBarrier + PtrSize <= min_mem_size
  BY DEF RoomForPushes
<1> DEFINE pos == RIP + 1
           past == pos + OperandLen
<1>5. RIP \in Nat /\ OperandLen \in Nat /\ OperandLen <= PtrSize
  BY <1>1, WordFacts, OperandAssumption DEF Word
<1>6. pos \in Word /\ past \in Word /\ pos < mem_size /\ past <= mem_size /\ OperandLen > 0
  BY <1>2, <1>3, <1>4, <1>5, WordFacts, OperandAssumption DEF Word
<1>7. pos % W = pos /\ past % W = past
  <2> HIDE DEF pos, past
  <2> QED
    BY <1>6, ModSmall
<1>8. pos \in 0 .. (mem_size - 1)
  BY <1>2, <1>5, <1>6
<1>9. ReadFault(pos, OperandLen) = "None"
  <2>1. ~((pos + OperandLen) % W > mem_size)
    BY <1>2, <1>6, <1>7, WordFacts DEF Word
  <2>2. QED
    BY <1>8, <2>1 DEF ReadFault
<1>10. QED
  BY <1>7, <1>9 DEF OperandFault, Operands


-----------------------------------------------------------------------------
(* Writes stay inside.                                                     *)

(* Memory outside the part that may be written is as it was.               *)
OutsideKept ==
  \A a \in DOMAIN mem : a < ReadonlyBarrier \/ a >= mem_size => mem'[a] = mem[a]

(* Memory is smaller than half of what a u64 counts, so that no sum of two *)
(* sizes within it wraps.                                                  *)
LEMMA SizesAreSmall ==
  ASSUME MemoryInv
  PROVE  /\ mem_size \in Nat /\ ReadonlyBarrier \in Nat
         /\ mem_size <= MaxAlloc
         /\ \A a \in DOMAIN mem : a \in Nat
<1>1. mem_size \in Nat /\ mem_cap \in Nat /\ ReadonlyBarrier \in Nat
  BY WordFacts DEF MemoryInv, Word
<1>2. mem_size <= mem_cap /\ mem_cap <= MaxAlloc /\ DOMAIN mem = 0 .. (mem_cap - 1)
  BY DEF MemoryInv, CapacityBacked
<1>3. mem_size <= MaxAlloc
  BY <1>1, <1>2, WordFacts
<1>4. QED
  BY <1>1, <1>2, <1>3

(* A write whose checks passed ends within memory.                         *)
LEMMA WriteInside ==
  ASSUME MemoryInv, NEW pos, NEW n \in 1 .. PtrSize, WriteFault(pos, n) = "None"
  PROVE  pos \in Int /\ ReadonlyBarrier <= pos /\ pos + n <= mem_size
<1> DEFINE past == pos + n
<1>1. mem_size \in Nat /\ ReadonlyBarrier \in Nat /\ mem_size <= MaxAlloc
  BY SizesAreSmall
<1>2. /\ pos \in 0 .. (mem_size - 1) /\ ~(pos < ReadonlyBarrier)
      /\ ~(past % W > mem_size)
  BY DEF WriteFault, ReadFault
<1>3. past \in Word
  BY <1>1, <1>2, WordFacts DEF Word
<1> HIDE DEF past
<1>4. past % W = past
  BY <1>3, ModSmall
<1>5. ReadonlyBarrier <= pos /\ past <= mem_size
  BY <1>1, <1>2, <1>3, <1>4, WordFacts DEF Word
<1>6. QED
  BY <1>2, <1>5 DEF past

LEMMA WrittenInside ==
  ASSUME MemoryInv, NEW pos \in Int, NEW n \in Int, NEW v,
         ReadonlyBarrier <= pos, pos + n <= mem_size, mem' = Written(mem, pos, n, v)
  PROVE  OutsideKept
<1>1. SUFFICES ASSUME NEW a \in DOMAIN mem, a < ReadonlyBarrier \/ a >= mem_size
               PROVE  a \notin pos .. (pos + n - 1)
  BY DEF OutsideKept, Written
<1>2. QED
  BY <1>1, SizesAreSmall

LEMMA CopiedInside ==
  ASSUME MemoryInv, NEW src, NEW pos \in Int, NEW n \in Int,
         ReadonlyBarrier <= pos, pos + n <= mem_size, mem' = Copied(src, pos, n)
  PROVE  OutsideKept
<1>1. SUFFICES ASSUME NEW a \in DOMAIN mem, a < ReadonlyBarrier \/ a >= mem_size
               PROVE  a \notin pos .. (pos + n - 1)
  BY DEF OutsideKept, Copied
<1>2. QED
  BY <1>1, SizesAreSmall

LEMMA PushInside ==
  ASSUME MemoryInv, NEW n \in 1 .. PtrSize, NEW v, PushRaw(n, v)
  PROVE  OutsideKept
<1> DEFINE pos == (RSP - n) % W
<1>1. CASE PushFault(pos, n) = "None"
  <2>1. WriteFault(pos, n) = "None" /\ mem' = Written(mem, pos, n, v)
    BY <1>1 DEF PushRaw, PushFault
  <2> HIDE DEF pos
  <2>2. pos \in Int /\ ReadonlyBarrier <= pos /\ pos + n <= mem_size
    BY <2>1, WriteInside
  <2>3. QED
    BY <2>1, <2>2, WrittenInside
<1>2. CASE PushFault(pos, n) # "None"
  BY <1>2 DEF PushRaw, OutsideKept
<1>3. QED
  BY <1>1, <1>2

(* The buffer of sys_read is tested as a whole before it is filled.        *)
LEMMA ReadInside ==
  ASSUME IInv, SysRead, ReadCallFault = "None"
  PROVE  OutsideKept
<1>0. MemoryInv
  BY DEF IInv
<1>1. CASE UNCHANGED mem
  BY <1>1 DEF OutsideKept
<1>2. ASSUME NEW n \in 0 .. regs.RDX, NEW v \in Values, mem' = Written(mem, regs.RCX, n, v)
      PROVE  OutsideKept
  <2> DEFINE pos == regs.RCX
             count == regs.RDX
             past == pos + count
  <2>1. pos \in Nat /\ count \in Nat
    BY CallTypes, WordFacts DEF Word
  <2>2. /\ ~(pos >= mem_size) /\ ~(count >= mem_size) /\ ~(past % W > mem_size)
        /\ ~(pos < ReadonlyBarrier)
    BY DEF ReadCallFault, BufferFault
  <2>3. mem_size \in Nat /\ ReadonlyBarrier \in Nat /\ mem_size <= MaxAlloc
    BY <1>0, SizesAreSmall
  <2>4. n \in 0 .. count /\ mem' = Written(mem, pos, n, v)
    BY <1>2
  <2> HIDE DEF pos, count
  <2>5. past \in Word
    BY <2>1, <2>2, <2>3, WordFacts DEF Word
  <2>6. past % W = past
    <3> HIDE DEF past
    <3> QED
      BY <2>5, ModSmall
  <2>7. pos + n <= mem_size /\ ReadonlyBarrier <= pos /\ n \in Int
    BY <2>1, <2>2, <2>3, <2>4, <2>6
  <2>8. QED
    BY <1>0, <2>1, <2>4, <2>7, WrittenInside
<1>3. QED
  BY <1>1, <1>2 DEF SysRead, Abort, KeepMemory, sizeVars

(* A string of the host ends within memory if it lands: it is shorter than *)
(* half the address space.                                                 *)
LEMMA StringInside ==
  ASSUME MemoryInv, NEW pos \in Addrs, NEW str \in HostStrings, HostSetCString(pos, str)
  PROVE  OutsideKept
<1> DEFINE s == StringStore(pos, str)
           past == pos + s.len
<1>1. s.pos = pos /\ pos \in Nat /\ s.len \in Nat /\ s.len <= MaxAlloc
  <2>1. str \in Seq(Byte) /\ Len(str) < MaxAlloc
    BY HostAssumption
  <2>2. Len(str) \in Nat
    BY <2>1
  <2>3. QED
    BY <2>1, <2>2, HostAssumption, WordFacts DEF StringStore, Word
<1>2. mem' = AfterStores(mem, <<s>>, mem_size, ReadonlyBarrier)
  BY DEF HostSetCString
<1>3. mem_size \in Nat /\ ReadonlyBarrier \in Nat /\ mem_size <= MaxAlloc
  BY SizesAreSmall
<1> HIDE DEF s
<1> SUFFICES ASSUME NEW a \in DOMAIN mem, a < ReadonlyBarrier \/ a >= mem_size, a \in Nat
             PROVE  mem'[a] = mem[a]
  BY SizesAreSmall DEF OutsideKept
<1>4. CASE Lands(s, mem_size, ReadonlyBarrier) /\ a \in s.pos .. (s.pos + s.len - 1)
  <2>1. pos \in ReadonlyBarrier .. (mem_size - 1) /\ past % W <= mem_size
    BY <1>1, <1>4 DEF Lands
  <2>2. past \in Word
    BY <1>1, <1>3, <2>1, WordFacts DEF Word
  <2>3. past <= mem_size
    <3> HIDE DEF past
    <3>1. past % W = past
      BY <2>2, ModSmall
    <3>2. QED
      BY <2>1, <3>1
  <2>4. QED
    BY <1>1, <1>3, <1>4, <2>1, <2>3
<1>5. CASE mem'[a] = mem[a]
  BY <1>5
<1>6. s.len \in Int /\ mem_size \in Int /\ ReadonlyBarrier \in Int
  BY <1>1, <1>3
<1>7. QED
  BY <1>2, <1>4, <1>5, <1>6, OneStore

LEMMA StepInside ==
  ASSUME IInv, HostCall \/ Tick, mem_cap' = mem_cap
  PROVE  OutsideKept
<1>0. MemoryInv /\ ClientInv
  BY DEF IInv
<1>1. CASE UNCHANGED mem
  BY <1>1 DEF OutsideKept
<1>2. ASSUME NEW pos \in Addrs, NEW n \in Sizes, NEW v \in Values, HostSetMem(pos, n, v)
      PROVE  OutsideKept
  <2>1. n \in 1 .. PtrSize
    BY HostAssumption
  <2>2. CASE WriteFault(pos, n) = "None" /\ mem' = Written(mem, pos, n, v)
    BY <1>0, <2>1, <2>2, WriteInside, WrittenInside
  <2>3. CASE UNCHANGED mem
    BY <1>1, <2>3
  <2>4. QED
    BY <1>2, <2>2, <2>3 DEF HostSetMem
<1>10. ASSUME NEW pos \in Addrs, NEW str \in HostStrings, HostSetCString(pos, str)
      PROVE  OutsideKept
  BY <1>0, <1>10, StringInside
<1>11. ASSUME NEW n \in Sizes, NEW v \in Values, HostPush(n, v) PROVE OutsideKept
  BY <1>0, <1>11, PushInside, HostAssumption DEF HostPush
<1>3. CASE MovStore
  <2>1. PICK pos \in Addrs, n \in Sizes, v \in Values :
          mem' = IF WriteFault(pos, n) = "None" THEN Written(mem, pos, n, v) ELSE mem
    BY <1>3 DEF MovStore
  <2>2. n \in 1 .. PtrSize
    BY HostAssumption
  <2>3. CASE WriteFault(pos, n) = "None"
    BY <1>0, <2>1, <2>2, <2>3, WriteInside, WrittenInside
  <2>4. QED
    BY <1>1, <2>1, <2>3
<1>4. CASE PopMemory
  <2>1. PICK pos \in Addrs, n \in Sizes :
          mem' = IF WriteFault(pos, n) = "None" THEN Copied(RSP, pos, n) ELSE mem
    BY <1>4 DEF PopMemory
  <2>2. n \in 1 .. PtrSize
    BY HostAssumption
  <2>3. CASE WriteFault(pos, n) = "None"
    BY <1>0, <2>1, <2>2, <2>3, WriteInside, CopiedInside
  <2>4. QED
    BY <1>1, <2>1, <2>3
<1>5. CASE Push
  <2>1. PICK n \in Sizes, v \in Values : PushRaw(n, v)
    BY <1>5 DEF Push
  <2>2. QED
    BY <1>0, <2>1, PushInside, HostAssumption
<1>6. CASE Call
  BY <1>0, <1>6, PushInside, WordFacts DEF Call
<1>7. CASE SysRead /\ ReadCallFault = "None"
  BY <1>7, ReadInside
<1>8. CASE SysBrk
  <2>1. CASE UNCHANGED sizeVars
    BY <1>1, <2>1 DEF sizeVars
  <2>2. ASSUME NEW junk, Realloc(regs.RBX, TRUE, junk) PROVE OutsideKept
    <3>1. mem_cap \in Int
      BY <1>0, WordFacts DEF MemoryInv, Word
    <3>2. ~(regs.RBX > mem_cap /\ mem_cap' = regs.RBX)
      BY <3>1
    <3>3. UNCHANGED mem
      BY <2>2, <3>2 DEF Realloc
    <3>4. QED
      BY <1>1, <3>3
  <2>3. QED
    BY <1>8, <2>1, <2>2 DEF SysBrk
<1>9. QED
  BY <1>1, <1>2, <1>3, <1>4, <1>5, <1>6, <1>7, <1>8, <1>10, <1>11, MemoryStays

(* No access leaves what may be accessed: a store, push, copy, read of a   *)
(* file or write of the host changes nothing below the readonly barrier or *)
(* at or past the break, and an operation never lacks its operands.        *)
THEOREM AccessesContained == Spec => AccessesStayInside
<1> DEFINE Kept == mem_cap' = mem_cap /\ mem' # mem /\ (HostCall \/ Tick) =>
             \A a \in DOMAIN mem : a < ReadonlyBarrier \/ a >= mem_size => mem'[a] = mem[a]
<1>1. Init => RoomForPushes
  BY DEF Init, RoomForPushes
<1>2. Sound /\ RoomForPushes /\ [Next]_vars => RoomForPushes'
  BY RoomStays
<1>3. Sound /\ [Next]_vars => [Kept]_vars
  BY StepInside, Real DEF OutsideKept, Next
<1>4. Sound /\ RoomForPushes => OperandsPresent
  BY RoomForOperands, Real DEF OperandsPresent
<1>5. QED
  BY <1>1, <1>2, <1>3, <1>4, Invariance, PTL DEF Spec, AccessesStayInside, WritesStayInside

-----------------------------------------------------------------------------
(* sys_brk keeps contents.                                                 *)

LEMMA BreakKeepsBytes ==
  ASSUME MemoryInv, Backed', NEW size \in Word, NEW junk, Realloc(size, TRUE, junk),
         NEW a \in 0 .. (mem_size - 1), a < size
  PROVE  mem'[a] = mem[a]
<1>1. mem_cap \in Nat /\ mem_size \in Nat /\ size \in Nat
  BY WordFacts DEF MemoryInv, Word
<1>2. CASE /\ size > mem_cap /\ mem_cap' = size
           /\ mem' = Fresh(size, IF mem_size < size THEN mem_size ELSE size, junk)
  <2>1. Usable(size) = size
    BY <1>1, <1>2, PaddingWrapped DEF Backed
  <2>2. a \in DOMAIN mem /\ a \in 0 .. (size - 1)
    BY <1>1 DEF MemoryInv, CapacityBacked
  <2>3. QED
    BY <1>1, <1>2, <2>1, <2>2 DEF Fresh
<1>3. QED
  BY <1>2 DEF Realloc

(* sys_brk keeps every byte below both the old and the new break, whether  *)
(* it moves the break within the block or into a new one, unless the       *)
(* padding of the new block wraps.                                         *)
THEOREM BreakKeepsContents == Spec => BreakPreservesContents
<1> DEFINE Kept == Backed' /\ mem_size' # mem_size /\ Tick =>
             \A a \in 0 .. (mem_size - 1) : a < mem_size' => mem'[a] = mem[a]
<1>1. ASSUME IInv, Tick, Backed', mem_size' # mem_size,
             NEW a \in 0 .. (mem_size - 1), a < mem_size'
      PROVE  mem'[a] = mem[a]
  <2>1. /\ ~(MovStore \/ Push \/ PopMemory \/ Call \/ SysRead)
        /\ ~(\E pos \in Addrs, n \in Sizes, v \in Values : HostSetMem(pos, n, v))
        /\ ~(\E pos \in Addrs, str \in HostStrings : HostSetCString(pos, str))
        /\ ~(\E n \in Sizes, v \in Values : HostPush(n, v))
    BY <1>1 DEF MovStore, Push, PopMemory, Call, SysRead, HostSetMem, HostSetCString, HostPush, Private,
                Abort, KeepMemory, sizeVars
  <2>2. SysBrk /\ ~UNCHANGED sizeVars
    BY <1>1, <2>1, MemoryStays
  <2>3. PICK junk : Realloc(regs.RBX, TRUE, junk) /\ regs.RBX \in min_mem_size .. max_mem_size
    BY <2>2 DEF SysBrk
  <2>4. MemoryInv /\ regs.RBX \in Word /\ mem_size' = regs.RBX
    BY <1>1, <2>3, CallTypes DEF IInv, Realloc
  <2>5. QED
    BY <1>1, <2>3, <2>4, BreakKeepsBytes
<1>2. Sound /\ [Next]_vars => [Kept]_vars
  BY <1>1, Real DEF Next
<1>3. QED
  BY <1>2, Invariance, PTL DEF Spec, BreakPreservesContents


-----------------------------------------------------------------------------
(* Stores that do not overlap.                                             *)

(* The N stores each lie between floor and the end, apart from the others. *)
Packed(stores, N, size, floor) ==
  /\ DOMAIN stores = 1 .. N
  /\ \A k \in 1 .. N :
       /\ stores[k].pos \in Int /\ stores[k].len \in Int /\ stores[k].floor \in Int
       /\ stores[k].len > 0 /\ stores[k].floor <= floor
       /\ floor <= stores[k].pos /\ stores[k].pos + stores[k].len <= size
  /\ \A k, l \in 1 .. N :
       k # l => \/ stores[k].pos + stores[k].len <= stores[l].pos
                \/ stores[l].pos + stores[l].len <= stores[k].pos

(* Each store is there in the end.                                         *)
LEMMA PackedSeen ==
  ASSUME NEW N \in Nat, NEW stores, NEW size \in Word, NEW floor \in Nat,
         NEW rdonly \in Nat, rdonly <= floor, Packed(stores, N, size, floor),
         NEW m, NEW a \in DOMAIN m, NEW k \in 1 .. N,
         a \in stores[k].pos .. (stores[k].pos + stores[k].len - 1)
  PROVE  AfterStores(m, stores, size, rdonly)[a] = stores[k].byte[a - stores[k].pos]
<1> DEFINE landing == {l \in DOMAIN stores : Lands(stores[l], size, rdonly)}
           hits == {l \in landing :
                      a \in stores[l].pos .. (stores[l].pos + stores[l].len - 1)}
           past == stores[k].pos + stores[k].len
<1>1. size \in Nat /\ size < W
  BY WordFacts DEF Word
<1>2. Lands(stores[k], size, rdonly)
  <2>1. /\ stores[k].pos \in Int /\ stores[k].len \in Int /\ stores[k].floor \in Int
        /\ stores[k].len > 0 /\ stores[k].floor <= floor
        /\ floor <= stores[k].pos /\ past <= size
    BY DEF Packed
  <2>2. past \in Word
    BY <1>1, <2>1, WordFacts DEF Word
  <2>3. past % W = past
    <3> HIDE DEF past
    <3>1. QED
      BY <2>2, ModSmall
  <2>4. QED
    BY <1>1, <2>1, <2>3 DEF Lands
<1>3. \A l \in 1 .. N : l # k =>
        a \notin stores[l].pos .. (stores[l].pos + stores[l].len - 1)
  <2> TAKE l \in 1 .. N
  <2> HAVE l # k
  <2>1. /\ stores[k].pos \in Int /\ stores[k].len \in Int
        /\ stores[l].pos \in Int /\ stores[l].len \in Int
        /\ \/ stores[k].pos + stores[k].len <= stores[l].pos
           \/ stores[l].pos + stores[l].len <= stores[k].pos
    BY DEF Packed
  <2>2. QED
    BY <2>1
<1>4. hits = {k}
  BY <1>2, <1>3 DEF Packed
<1>5. Max(hits) = k
  BY <1>4 DEF Max
<1>6. AfterStores(m, stores, size, rdonly)[a] =
        IF hits = {} THEN m[a] ELSE stores[Max(hits)].byte[a - stores[Max(hits)].pos]
  BY DEF AfterStores
<1>7. QED
  BY <1>4, <1>5, <1>6

(* What is at a after the stores is what was there.                        *)
Spared(m, stores, size, rdonly, a) == AfterStores(m, stores, size, rdonly)[a] = m[a]

(* What lies below all the stores is as it was.                            *)
LEMMA PackedBelow ==
  ASSUME NEW N \in Nat, NEW stores, NEW size \in Word, NEW floor \in Nat,
         NEW rdonly, Packed(stores, N, size, floor),
         NEW m, NEW a \in DOMAIN m, a \in Int, a < floor
  PROVE  Spared(m, stores, size, rdonly, a)
<1>1. \A l \in DOMAIN stores : a \notin stores[l].pos .. (stores[l].pos + stores[l].len - 1)
  BY DEF Packed
<1>2. QED
  BY <1>1 DEF Spared, AfterStores

-----------------------------------------------------------------------------
(* The start frame.                                                        *)

(* The frame of a command line fits between floor and the end.             *)
Framed(args, size, floor) ==
  /\ args \in Seq(Seq(Byte)) /\ size \in Word /\ floor \in Nat
  /\ FrameSize(args) + floor <= size

LEMMA FrameParts ==
  ASSUME NEW args \in Seq(Seq(Byte))
  PROVE  /\ Len(args) \in Nat /\ ArgBytes(args)[Len(args)] \in Nat
         /\ (Len(args) + 1) * PtrSize \in Nat
         /\ FrameSize(args) =
              ArgBytes(args)[Len(args)] + (Len(args) + 1) * PtrSize + 2 * PtrSize
<1> DEFINE n == Len(args)
           bytes == ArgBytes(args)[n]
<1>1. n \in Nat
  OBVIOUS
<1>2. bytes \in Nat
  <2>1. n \in 0 .. n
    BY <1>1
  <2>2. QED
    BY <2>1, ArgBytesGrow
<1>3. FrameSize(args) = bytes + (n + 3) * PtrSize
  BY DEF FrameSize
<1> HIDE DEF n, bytes
<1>4. (n + 1) * PtrSize \in Nat /\ (n + 3) * PtrSize = (n + 1) * PtrSize + 2 * PtrSize
  BY <1>1, WordFacts, Z3
<1>5. QED
  BY <1>1, <1>2, <1>3, <1>4, WordFacts DEF n, bytes

(* The last push tells: if the stack pointer it leaves is within bounds,   *)
(* no position wrapped on the way there.                                   *)
LEMMA LastPushTells ==
  ASSUME NEW args \in Seq(Seq(Byte)), FrameSize(args) < W, NEW size \in Word,
         NEW floor \in Nat,
         ~((ArgvPos(args, size) - 2 * PtrSize) % W < floor),
         (ArgvPos(args, size) - 2 * PtrSize) % W \in 0 .. (size - 1)
  PROVE  /\ Framed(args, size, floor)
         /\ (ArgvPos(args, size) - 2 * PtrSize) % W = size - FrameSize(args)
         /\ ArgvPos(args, size) = size - FrameSize(args) + 2 * PtrSize
<1> DEFINE n == Len(args)
           bytes == ArgBytes(args)[n]
           array == (n + 1) * PtrSize
           frame == FrameSize(args)
           rest == size - bytes
           argv == ArgvPos(args, size)
           rsp == (argv - 2 * PtrSize) % W
           left == size - frame
<1>1. n \in Nat /\ bytes \in Nat /\ array \in Nat /\ frame = bytes + array + 2 * PtrSize
  BY FrameParts
<1>2. ArgPos(args, size)[n] = rest % W
  <2>1. n \in 0 .. n
    BY <1>1
  <2>2. QED
    BY <2>1, ArgPosAre
<1>3. argv = ((rest % W) - array) % W
  BY <1>2 DEF ArgvPos
<1>4. frame < W /\ ~(rsp < floor) /\ rsp \in 0 .. (size - 1)
  OBVIOUS
<1> HIDE DEF n, bytes, array, frame, argv, rsp
<1>5. rest \in Int /\ size \in Nat /\ size < W /\ rest - array \in Int
  BY <1>1, WordFacts DEF Word
<1> HIDE DEF rest
<1>6. argv = (rest - array) % W
  BY <1>1, <1>3, <1>5, ModTwice
<1>7. rsp = ((rest - array) - 2 * PtrSize) % W
  <2> DEFINE x == rest - array
             y == 2 * PtrSize
  <2>1. x \in Int /\ y \in Int /\ argv = x % W /\ rsp = (argv - y) % W
    BY <1>5, <1>6, WordFacts DEF rsp
  <2> HIDE DEF x, y
  <2>2. rsp = (x - y) % W
    BY <2>1, ModTwice
  <2>3. QED
    BY <2>2 DEF x, y
<1>8. (rest - array) - 2 * PtrSize = left /\ left \in Int
  BY <1>1, <1>5, WordFacts DEF rest
<1>9. rsp = left % W
  BY <1>7, <1>8
<1>10. left >= 0
  <2> SUFFICES ASSUME left < 0 PROVE FALSE
    BY <1>8
  <2>1. frame \in Nat
    BY <1>1, WordFacts
  <2> DEFINE up == left + W
  <2>2. up \in Word /\ left = up + (0 - 1) * W
    BY <1>4, <1>5, <2>1, WordFacts, Z3 DEF Word
  <2> HIDE DEF left
  <2>3. up % W = up /\ left % W = up
    <3>1. up \in 0 .. (W - 1) /\ W \in Nat \ {0} /\ 0 - 1 \in Int
      BY <2>2, WordFacts DEF Word
    <3> HIDE DEF up
    <3>2. QED
      BY <2>2, <3>1, DivisionOfSum, ModSmall DEF Word
  <2>4. up < size
    <3> HIDE DEF up
    <3>1. rsp = up
      BY <1>9, <2>3
    <3>2. QED
      BY <1>4, <1>5, <3>1
  <2>5. QED
    BY <1>4, <1>5, <2>1, <2>4, WordFacts DEF left
<1>11. rsp = left /\ floor <= left
  <2>1. left \in Word
    BY <1>1, <1>5, <1>8, <1>10, WordFacts DEF Word
  <2> HIDE DEF left
  <2>2. left % W = left
    BY <2>1, ModSmall
  <2>3. QED
    BY <1>4, <1>8, <1>9, <2>2
<1>12. argv = left + 2 * PtrSize
  <2> DEFINE x == left + 2 * PtrSize
  <2>1. rest - array = x
    BY <1>1, <1>5, <1>8, WordFacts
  <2>2. x \in Word
    BY <1>1, <1>5, <1>8, <1>10, WordFacts DEF Word
  <2> HIDE DEF x
  <2>3. argv = x
    BY <1>6, <2>1, <2>2, ModSmall
  <2>4. QED
    BY <2>3 DEF x
<1>13. frame + floor <= size
  BY <1>1, <1>5, <1>11, WordFacts
<1>14. QED
  BY <1>11, <1>12, <1>13 DEF Framed, rsp, argv, frame


(* Where the stores are, once nothing wraps.                               *)
LEMMA ArgPositions ==
  ASSUME NEW args, NEW size, NEW floor, Framed(args, size, floor)
  PROVE  \A i \in 0 .. Len(args) :
           /\ ArgPos(args, size)[i] = size - ArgBytes(args)[i]
           /\ ArgBytes(args)[i] \in Nat
           /\ ArgBytes(args)[i] <= ArgBytes(args)[Len(args)]
<1> DEFINE n == Len(args)
<1>1. args \in Seq(Seq(Byte)) /\ size \in Word /\ size \in Nat /\ size < W
      /\ floor \in Nat /\ FrameSize(args) + floor <= size
  BY WordFacts DEF Framed, Word
<1>2. ASSUME NEW i \in 0 .. n
      PROVE  /\ ArgPos(args, size)[i] = size - ArgBytes(args)[i]
             /\ ArgBytes(args)[i] \in Nat
             /\ ArgBytes(args)[i] <= ArgBytes(args)[n]
  <2> DEFINE sums == ArgBytes(args)[i]
             pos == size - sums
             bytes == ArgBytes(args)[n]
  <2>1. n \in 0 .. n /\ i <= n
    BY <1>1, FrameParts
  <2>2. sums \in Nat /\ sums <= bytes
    BY <1>1, <2>1, ArgBytesGrow
  <2>3. bytes \in Nat /\ bytes <= size
    <3> DEFINE array == (n + 1) * PtrSize
               frame == FrameSize(args)
    <3>1. bytes \in Nat /\ array \in Nat /\ frame = bytes + array + 2 * PtrSize
      BY <1>1, FrameParts
    <3>2. frame + floor <= size
      BY <1>1
    <3> HIDE DEF array, frame, bytes
    <3>3. QED
      BY <1>1, <3>1, <3>2, WordFacts
  <2>4. ArgPos(args, size)[i] = pos % W
    BY <1>1, ArgPosAre
  <2> HIDE DEF sums, bytes
  <2>5. pos \in Word
    BY <1>1, <2>2, <2>3, WordFacts DEF Word
  <2> HIDE DEF pos
  <2>6. ArgPos(args, size)[i] = pos
    BY <2>4, <2>5, ModSmall
  <2>7. QED
    BY <2>2, <2>6 DEF pos, sums, bytes
<1>3. QED
  BY <1>2

(* The words lie one after the other from the last one pushed up: RDI, RSI *)
(* and the array.                                                          *)
Slot(n, k) == IF k <= 2 * n + 1 THEN k - n - 1 ELSE 2 * n + 1 - k

(* What word k of the start frame holds.                                   *)
FrameWord(args, size, k) ==
  LET n == Len(args)
  IN IF k <= 2 * n THEN size - ArgBytes(args)[k - n]
     ELSE IF k = 2 * n + 1 THEN 0
     ELSE IF k = 2 * n + 2 THEN ArgvPos(args, size) ELSE n

LEMMA SlotsApart ==
  ASSUME NEW i \in Int, NEW j \in Int, i < j
  PROVE  i * PtrSize + PtrSize <= j * PtrSize
<1>1. PtrSize \in Nat
  BY WordFacts
<1>2. (j - i - 1) * PtrSize >= 0
  BY <1>1, Z3
<1>3. QED
  BY <1>1, <1>2, Z3

(* The arguments,                                                          *)
LEMMA StringStores ==
  ASSUME NEW args, NEW size, NEW floor, Framed(args, size, floor), NEW argv,
         NEW k \in 1 .. Len(args)
  PROVE  /\ InitStores(args, size, argv, floor)[k] =
              StringStore(size - ArgBytes(args)[k], args[k])
         /\ ArgBytes(args)[k] = ArgBytes(args)[k - 1] + (Len(args[k]) + 1)
         /\ args[k] \in Seq(Byte) /\ Len(args[k]) \in Nat
<1>1. args \in Seq(Seq(Byte))
  BY DEF Framed
<1>2. Len(args) \in Nat /\ args[k] \in Seq(Byte)
  BY <1>1
<1>3. ArgPos(args, size)[k] = size - ArgBytes(args)[k]
  BY <1>2, ArgPositions
<1>4. InitStores(args, size, argv, floor)[k] = StringStore(ArgPos(args, size)[k], args[k])
  BY <1>2 DEF InitStores
<1>5. QED
  BY <1>1, <1>2, <1>3, <1>4, ArgBytesAre

(* and the words.                                                          *)
LEMMA WordStores ==
  ASSUME NEW args, NEW size, NEW floor, Framed(args, size, floor),
         ArgvPos(args, size) = size - FrameSize(args) + 2 * PtrSize,
         NEW k \in (Len(args) + 1) .. (2 * Len(args) + 3)
  PROVE  LET argv == ArgvPos(args, size)
             pos == argv + Slot(Len(args), k) * PtrSize
             s == InitStores(args, size, argv, floor)[k]
         IN /\ s.pos = pos /\ s.len = PtrSize /\ s.floor \in {0, floor}
            /\ s.byte = [i \in 0 .. (PtrSize - 1) |-> ByteOf(FrameWord(args, size, k), i)]
            /\ pos \in Int /\ floor <= pos
            /\ pos + PtrSize <= size - ArgBytes(args)[Len(args)]
<1> DEFINE n == Len(args)
           argv == ArgvPos(args, size)
           pos == argv + Slot(n, k) * PtrSize
           bytes == ArgBytes(args)[n]
           array == (n + 1) * PtrSize
           frame == FrameSize(args)
           shift == Slot(n, k) * PtrSize
           s == InitStores(args, size, argv, floor)[k]
<1>1. args \in Seq(Seq(Byte)) /\ size \in Word /\ size \in Nat /\ size < W
      /\ floor \in Nat /\ frame + floor <= size
  BY WordFacts DEF Framed, Word
<1>2. n \in Nat /\ bytes \in Nat /\ array \in Nat /\ frame = bytes + array + 2 * PtrSize
  BY <1>1, FrameParts
<1>3. argv = size - frame + 2 * PtrSize
  OBVIOUS
<1>4. k \in (n + 1) .. (2 * n + 3) /\ pos = argv + shift
  OBVIOUS
<1>5. Slot(n, k) \in Int /\ -2 <= Slot(n, k) /\ Slot(n, k) <= n
  <2> HIDE DEF n
  <2>1. QED
    BY <1>2, <1>4 DEF Slot
<1>6. shift \in Int /\ -2 * PtrSize <= shift /\ shift + PtrSize <= array
  <2> DEFINE j == Slot(n, k)
  <2>1. j \in Int /\ -2 <= j /\ j <= n
    BY <1>5
  <2> HIDE DEF j, n
  <2>2. (j + 2) * PtrSize >= 0 /\ (n - j) * PtrSize >= 0
    BY <1>2, <2>1, WordFacts, Z3
  <2>3. j * PtrSize \in Int
    BY <2>1, WordFacts, Z3
  <2>4. -2 * PtrSize <= j * PtrSize /\ j * PtrSize + PtrSize <= (n + 1) * PtrSize
    BY <1>2, <2>1, <2>2, WordFacts, Z3
  <2>5. QED
    BY <2>3, <2>4 DEF j
<1>7. s = WordStore(pos % W,
            IF k <= 2 * n THEN ArgPos(args, size)[k - n]
            ELSE IF k = 2 * n + 1 THEN 0 ELSE IF k = 2 * n + 2 THEN argv ELSE n,
            IF k <= 2 * n + 1 THEN 0 ELSE floor)
  <2> DEFINE v == IF k <= 2 * n THEN ArgPos(args, size)[k - n]
                  ELSE IF k = 2 * n + 1 THEN 0 ELSE IF k = 2 * n + 2 THEN argv ELSE n
  <2>1. k \in 1 .. (2 * n + 3) /\ ~(k <= n)
    BY <1>2, <1>4
  <2>2. argv \in Int
    BY <1>1, <1>2, <1>3, WordFacts
  <2>3. CASE k <= 2 * n + 1
    <3>1. s = WordStore((argv + (k - n - 1) * PtrSize) % W,
                        IF k <= 2 * n THEN ArgPos(args, size)[k - n] ELSE 0, 0)
      BY <2>1, <2>3 DEF InitStores
    <3>2. Slot(n, k) = k - n - 1
      BY <2>3 DEF Slot
    <3>3. k <= 2 * n \/ k = 2 * n + 1
      BY <1>2, <2>1, <2>3
    <3>4. QED
      BY <2>3, <3>1, <3>2, <3>3, Zenon
  <2>4. CASE k = 2 * n + 2
    <3>1. s = WordStore((argv - PtrSize) % W, argv, floor)
      BY <1>2, <2>1, <2>4 DEF InitStores
    <3>2. Slot(n, k) = -1
      BY <1>2, <2>4 DEF Slot
    <3>3. pos = argv - PtrSize
      BY <2>2, <3>2, WordFacts
    <3>4. ~(k <= 2 * n) /\ ~(k <= 2 * n + 1) /\ ~(k = 2 * n + 1)
      BY <1>2, <2>4
    <3>5. QED
      BY <2>4, <3>1, <3>3, <3>4, Zenon
  <2>5. CASE k = 2 * n + 3
    <3>1. s = WordStore((argv - 2 * PtrSize) % W, n, floor)
      BY <1>2, <2>1, <2>5 DEF InitStores
    <3>2. Slot(n, k) = -2
      BY <1>2, <2>5 DEF Slot
    <3>3. pos = argv - 2 * PtrSize
      BY <2>2, <3>2, WordFacts
    <3>4. ~(k <= 2 * n) /\ ~(k <= 2 * n + 1) /\ ~(k = 2 * n + 1) /\ ~(k = 2 * n + 2)
      BY <1>2, <2>5
    <3>5. QED
      BY <2>5, <3>1, <3>3, <3>4, Zenon
  <2>6. QED
    BY <1>2, <1>4, <2>3, <2>4, <2>5
<1>8. pos \in Int /\ floor <= pos /\ pos + PtrSize <= size - bytes /\ pos \in Word
  <2> HIDE DEF pos, argv, frame, bytes, array, shift, n
  <2>1. QED
    BY <1>1, <1>2, <1>3, <1>4, <1>6, WordFacts DEF Word
<1>9. FrameWord(args, size, k) =
            IF k <= 2 * n THEN ArgPos(args, size)[k - n]
            ELSE IF k = 2 * n + 1 THEN 0 ELSE IF k = 2 * n + 2 THEN argv ELSE n
  <2>1. k <= 2 * n => k - n \in 0 .. n
    BY <1>2, <1>4
  <2>2. k <= 2 * n => ArgPos(args, size)[k - n] = size - ArgBytes(args)[k - n]
    BY <2>1, ArgPositions
  <2>3. QED
    BY <2>2 DEF FrameWord
<1>10. pos % W = pos
  <2> HIDE DEF pos
  <2>1. QED
    BY <1>8, ModSmall
<1>11. /\ s.pos = pos /\ s.len = PtrSize /\ s.floor \in {0, floor}
       /\ s.byte = [i \in 0 .. (PtrSize - 1) |-> ByteOf(FrameWord(args, size, k), i)]
  <2> DEFINE v == FrameWord(args, size, k)
             f == IF k <= 2 * n + 1 THEN 0 ELSE floor
  <2>1. s = WordStore(pos, v, f)
    BY <1>7, <1>9, <1>10, Zenon
  <2>2. f \in {0, floor}
    OBVIOUS
  <2> HIDE DEF s, pos, v, f
  <2>3. QED
    BY <2>1, <2>2 DEF WordStore, v
<1>12. QED
  BY <1>8, <1>11


LEMMA FramePacked ==
  ASSUME NEW args, NEW size, NEW floor, Framed(args, size, floor),
         ArgvPos(args, size) = size - FrameSize(args) + 2 * PtrSize
  PROVE  Packed(InitStores(args, size, ArgvPos(args, size), floor),
                2 * Len(args) + 3, size, floor)
<1> DEFINE n == Len(args)
           N == 2 * n + 3
           argv == ArgvPos(args, size)
           sums == ArgBytes(args)
           stores == InitStores(args, size, argv, floor)
           past(k) == stores[k].pos + stores[k].len
<1>1. args \in Seq(Seq(Byte)) /\ size \in Nat /\ floor \in Nat /\ n \in Nat
      /\ PtrSize \in Nat /\ PtrSize > 0
  BY FrameParts, WordFacts DEF Framed, Word
<1>2. DOMAIN stores = 1 .. N
  BY DEF InitStores
<1>3. \A k \in 0 .. n : sums[k] \in Nat /\ sums[k] <= sums[n]
  BY ArgPositions
<1>4. size - sums[n] >= floor
  <2> DEFINE array == (n + 1) * PtrSize
             frame == FrameSize(args)
             bytes == sums[n]
  <2>1. /\ bytes \in Nat /\ array \in Nat /\ frame = bytes + array + 2 * PtrSize
        /\ frame + floor <= size
    BY <1>1, FrameParts DEF Framed
  <2> HIDE DEF array, frame, bytes, sums, n
  <2>2. size - bytes >= floor
    BY <1>1, <2>1
  <2>3. QED
    BY <2>2 DEF bytes
<1>5. ASSUME NEW k \in 1 .. n
      PROVE  /\ stores[k].pos = size - sums[k] /\ stores[k].len = Len(args[k]) + 1
             /\ stores[k].floor = 0
             /\ sums[k] \in Nat /\ sums[k - 1] \in Nat /\ Len(args[k]) \in Nat
             /\ sums[k] = sums[k - 1] + (Len(args[k]) + 1)
  <2>1. /\ stores[k] = StringStore(size - sums[k], args[k])
        /\ sums[k] = sums[k - 1] + (Len(args[k]) + 1)
        /\ Len(args[k]) \in Nat
    BY StringStores
  <2>2. k \in 0 .. n /\ k - 1 \in 0 .. n
    BY <1>1
  <2>3. sums[k] \in Nat /\ sums[k - 1] \in Nat
    BY <1>3, <2>2
  <2> HIDE DEF stores, sums
  <2>4. QED
    BY <2>1, <2>3 DEF StringStore
<1>6. ASSUME NEW k \in (n + 1) .. N
      PROVE  /\ stores[k].pos = argv + Slot(n, k) * PtrSize /\ stores[k].len = PtrSize
             /\ stores[k].floor \in {0, floor} /\ stores[k].pos \in Int
             /\ floor <= stores[k].pos /\ past(k) <= size - sums[n]
  <2> DEFINE pos == argv + Slot(n, k) * PtrSize
  <2>1. /\ stores[k].pos = pos /\ stores[k].len = PtrSize /\ stores[k].floor \in {0, floor}
        /\ stores[k].byte = [i \in 0 .. (PtrSize - 1) |-> ByteOf(FrameWord(args, size, k), i)]
        /\ pos \in Int /\ floor <= pos
        /\ pos + PtrSize <= size - sums[n]
    BY WordStores, Zenon
  <2>2. stores[k].pos = argv + Slot(n, k) * PtrSize
    BY <2>1
  <2> HIDE DEF pos, stores, sums
  <2>3. QED
    BY <2>1, <2>2
<1>7. argv \in Int
  <2>1. FrameSize(args) \in Int
    <3> DEFINE array == (n + 1) * PtrSize
               frame == FrameSize(args)
               bytes == sums[n]
    <3>1. /\ bytes \in Nat /\ array \in Nat /\ frame = bytes + array + 2 * PtrSize
      BY <1>1, FrameParts
    <3> HIDE DEF array, frame, bytes, sums, n
    <3>2. frame \in Int
      BY <1>1, <3>1
    <3>3. QED
      BY <3>2 DEF frame
  <2> DEFINE frame == FrameSize(args)
  <2> HIDE DEF frame
  <2>2. argv = size - frame + 2 * PtrSize /\ frame \in Int
    BY <2>1 DEF frame
  <2>3. QED
    BY <1>1, <2>2
<1> HIDE DEF stores, sums, argv
<1>8. ASSUME NEW k \in 1 .. N
      PROVE  /\ stores[k].pos \in Int /\ stores[k].len \in Int /\ stores[k].floor \in Int
             /\ stores[k].len > 0 /\ stores[k].floor <= floor
             /\ floor <= stores[k].pos /\ past(k) <= size
  <2>1. CASE k <= n
    <3>1. k \in 1 .. n /\ k \in 0 .. n /\ n \in 0 .. n
      BY <1>1, <2>1
    <3> DEFINE s == stores[k]
               x == sums[k]
               y == sums[n]
               z == sums[k - 1]
               len == Len(args[k])
    <3>2. y \in Nat /\ x <= y /\ size - y >= floor
      BY <1>3, <1>4, <3>1
    <3>3. /\ s.pos = size - x /\ s.len = len + 1 /\ s.floor = 0
          /\ x \in Nat /\ z \in Nat /\ len \in Nat /\ x = z + (len + 1)
      BY <1>5, <3>1
    <3> HIDE DEF s, x, y, z, len
    <3>4. /\ s.pos \in Int /\ s.len \in Int /\ s.floor \in Int
          /\ s.len > 0 /\ s.floor <= floor
          /\ floor <= s.pos /\ s.pos + s.len <= size
      BY <1>1, <3>2, <3>3
    <3>5. QED
      BY <3>4 DEF s
  <2>2. CASE k > n
    <3>1. k \in (n + 1) .. N /\ n \in 0 .. n
      BY <1>1, <2>2
    <3> DEFINE s == stores[k]
               y == sums[n]
    <3>2. y \in Nat
      BY <1>3, <3>1
    <3>3. /\ s.len = PtrSize /\ s.floor \in {0, floor} /\ s.pos \in Int
          /\ floor <= s.pos /\ s.pos + s.len <= size - y
      BY <1>6, <3>1
    <3> HIDE DEF s, y
    <3>4. /\ s.len \in Int /\ s.floor \in Int /\ s.len > 0 /\ s.floor <= floor
          /\ s.pos + s.len <= size
      BY <1>1, <3>2, <3>3
    <3>5. QED
      BY <3>3, <3>4 DEF s
  <2>3. QED
    BY <1>1, <2>1, <2>2
<1>9. ASSUME NEW k \in 1 .. N, NEW l \in 1 .. N, k < l
      PROVE  past(k) <= stores[l].pos \/ past(l) <= stores[k].pos
  <2>1. CASE l <= n
    <3>1. k \in 1 .. n /\ l \in 1 .. n /\ k \in 0 .. n /\ l - 1 \in 0 .. n /\ k <= l - 1
      BY <1>1, <1>9, <2>1
    <3>2. sums[k] <= sums[l - 1]
      BY <1>1, <3>1, ArgBytesGrow DEF sums
    <3> DEFINE s == stores[l]
               t == stores[k]
               x == sums[k]
               y == sums[l]
               z == sums[l - 1]
               len == Len(args[l])
    <3>3. /\ s.pos = size - y /\ s.len = len + 1
          /\ y \in Nat /\ z \in Nat /\ len \in Nat /\ y = z + (len + 1)
      BY <1>5, <3>1
    <3>4. t.pos = size - x /\ x \in Nat /\ x <= z
      BY <1>5, <3>1, <3>2
    <3> HIDE DEF s, t, x, y, z, len
    <3>5. s.pos + s.len <= t.pos
      BY <1>1, <3>3, <3>4
    <3>6. QED
      BY <3>5 DEF s, t
  <2>2. CASE k <= n /\ l > n
    <3>1. k \in 1 .. n /\ k \in 0 .. n /\ n \in 0 .. n /\ l \in (n + 1) .. N
      BY <1>1, <2>2
    <3>2. sums[k] <= sums[n] /\ sums[k] \in Nat /\ sums[n] \in Nat
      BY <1>3, <3>1
    <3>3. past(l) <= size - sums[n] /\ past(l) \in Int /\ stores[k].pos = size - sums[k]
      BY <1>5, <1>6, <1>8, <3>1
    <3>4. QED
      BY <1>1, <3>2, <3>3
  <2>3. CASE k > n
    <3>1. k \in (n + 1) .. N /\ l \in (n + 1) .. N
      BY <1>1, <1>9, <2>3
    <3> DEFINE i == Slot(n, k)
               j == Slot(n, l)
    <3>2. i \in Int /\ j \in Int /\ (i < j \/ j < i)
      BY <1>1, <1>9, <3>1 DEF Slot
    <3>3. /\ stores[k].pos = argv + i * PtrSize /\ stores[k].len = PtrSize
          /\ stores[l].pos = argv + j * PtrSize /\ stores[l].len = PtrSize
      BY <1>6, <3>1
    <3> HIDE DEF i, j
    <3> DEFINE u == i * PtrSize
               v == j * PtrSize
    <3>4. u \in Int /\ v \in Int /\ (u + PtrSize <= v \/ v + PtrSize <= u)
      BY <1>1, <3>2, SlotsApart
    <3>5. /\ stores[k].pos = argv + u /\ stores[l].pos = argv + v
      BY <3>3
    <3> HIDE DEF u, v
    <3>6. QED
      BY <1>1, <1>7, <3>3, <3>4, <3>5
  <2>4. QED
    BY <1>1, <2>1, <2>2, <2>3
<1>10. ASSUME NEW k \in 1 .. N, NEW l \in 1 .. N, k # l
       PROVE  past(k) <= stores[l].pos \/ past(l) <= stores[k].pos
  <2>1. k < l \/ l < k
    BY <1>1, <1>10
  <2>2. QED
    BY <1>9, <2>1
<1>11. QED
  BY <1>2, <1>8, <1>10 DEF Packed, stores, argv

(* The words of the frame are there,                                       *)
LEMMA FrameWords ==
  ASSUME NEW args, NEW size, NEW floor, Framed(args, size, floor),
         ArgvPos(args, size) = size - FrameSize(args) + 2 * PtrSize,
         NEW rdonly \in Nat, rdonly <= floor,
         NEW m, 0 .. (size - 1) \subseteq DOMAIN m,
         NEW k \in (Len(args) + 1) .. (2 * Len(args) + 3)
  PROVE  HoldsWord(AfterStores(m, InitStores(args, size, ArgvPos(args, size), floor),
                               size, rdonly),
                   ArgvPos(args, size) + Slot(Len(args), k) * PtrSize,
                   FrameWord(args, size, k))
<1> DEFINE argv == ArgvPos(args, size)
           N == 2 * Len(args) + 3
           stores == InitStores(args, size, argv, floor)
           pos == argv + Slot(Len(args), k) * PtrSize
           v == FrameWord(args, size, k)
           bytes == ArgBytes(args)[Len(args)]
<1>1. /\ stores[k].pos = pos /\ stores[k].len = PtrSize
      /\ stores[k].byte = [i \in 0 .. (PtrSize - 1) |-> ByteOf(v, i)]
      /\ pos \in Int /\ floor <= pos /\ pos + PtrSize <= size - bytes
  BY WordStores
<1>2. /\ size \in Word /\ size \in Nat /\ floor \in Nat /\ bytes \in Nat
      /\ Len(args) \in Nat /\ PtrSize \in Nat
  BY FrameParts, WordFacts DEF Framed, Word
<1>3. Packed(stores, N, size, floor)
  BY FramePacked
<1>4. N \in Nat /\ k \in 1 .. N
  BY <1>2
<1>5. ASSUME NEW i \in 0 .. (PtrSize - 1)
      PROVE  AfterStores(m, stores, size, rdonly)[pos + i] = ByteOf(v, i)
  <2> HIDE DEF stores, pos, v, N, bytes
  <2> DEFINE a == pos + i
  <2>1. a \in 0 .. (size - 1) /\ a \in pos .. (pos + PtrSize - 1) /\ a - pos = i
    BY <1>1, <1>2, SMTT(30)
  <2> HIDE DEF a
  <2>2. a \in DOMAIN m /\ a \in stores[k].pos .. (stores[k].pos + stores[k].len - 1)
    <3>1. a \in DOMAIN m
      BY <2>1
    <3>2. stores[k].pos = pos /\ stores[k].len = PtrSize
      BY <1>1
    <3>3. QED
      BY <2>1, <3>1, <3>2, Zenon
  <2>3. AfterStores(m, stores, size, rdonly)[a] = stores[k].byte[a - stores[k].pos]
    BY <1>2, <1>3, <1>4, <2>2, PackedSeen
  <2>4. QED
    BY <1>1, <2>1, <2>3 DEF a
<1>6. QED
  BY <1>5 DEF HoldsWord

(* and the arguments with their terminators.                               *)
LEMMA FrameStrings ==
  ASSUME NEW args, NEW size, NEW floor, Framed(args, size, floor),
         ArgvPos(args, size) = size - FrameSize(args) + 2 * PtrSize,
         NEW rdonly \in Nat, rdonly <= floor,
         NEW m, 0 .. (size - 1) \subseteq DOMAIN m,
         NEW k \in 1 .. Len(args), NEW i \in 0 .. Len(args[k])
  PROVE  AfterStores(m, InitStores(args, size, ArgvPos(args, size), floor), size, rdonly)
           [(size - ArgBytes(args)[k]) + i] = IF i < Len(args[k]) THEN args[k][i + 1] ELSE 0
<1> DEFINE argv == ArgvPos(args, size)
           N == 2 * Len(args) + 3
           stores == InitStores(args, size, argv, floor)
           pos == size - ArgBytes(args)[k]
           len == Len(args[k])
           str == args[k]
<1>1. /\ stores[k] = StringStore(pos, str) /\ len \in Nat
  BY StringStores
<1>2. size \in Word /\ size \in Nat /\ floor \in Nat /\ Len(args) \in Nat
  BY FrameParts, WordFacts DEF Framed, Word
<1>3. Packed(stores, N, size, floor)
  BY FramePacked
<1>4. N \in Nat /\ k \in 1 .. N
  BY <1>2
<1> HIDE DEF stores, pos, N
<1>5. /\ stores[k].pos = pos /\ stores[k].len = len + 1
      /\ stores[k].byte = [j \in 0 .. len |-> IF j < len THEN str[j + 1] ELSE 0]
  BY <1>1 DEF StringStore
<1>6. pos \in Int /\ floor <= pos /\ pos + (len + 1) <= size
  BY <1>3, <1>4, <1>5 DEF Packed
<1> DEFINE a == pos + i
<1>7. a \in 0 .. (size - 1) /\ a \in pos .. (pos + (len + 1) - 1) /\ a - pos = i
      /\ i \in 0 .. len
  BY <1>1, <1>2, <1>6
<1> HIDE DEF a
<1>8. a \in DOMAIN m /\ a \in stores[k].pos .. (stores[k].pos + stores[k].len - 1)
  BY <1>5, <1>7
<1>9. AfterStores(m, stores, size, rdonly)[a] = stores[k].byte[a - stores[k].pos]
  BY <1>2, <1>3, <1>4, <1>8, PackedSeen
<1>10. AfterStores(m, stores, size, rdonly)[a] = IF i < len THEN str[i + 1] ELSE 0
  BY <1>5, <1>7, <1>9
<1>11. QED
  BY <1>10 DEF a, pos, stores


LEMMA FrameComplete ==
  ASSUME NEW x \in Exes, NEW args, NEW size, Framed(args, size, TotalSize(x)),
         ArgvPos(args, size) = size - FrameSize(args) + 2 * PtrSize,
         NEW rdonly \in Nat, rdonly <= TotalSize(x),
         NEW block, 0 .. (size - 1) \subseteq DOMAIN block
  PROVE  StartFrame(AfterStores(Loaded(block, x),
                      InitStores(args, size, ArgvPos(args, size), TotalSize(x)), size, rdonly),
                    x, args, size - FrameSize(args), TotalSize(x), size)
<1> DEFINE n == Len(args)
           N == 2 * n + 3
           floor == TotalSize(x)
           frame == FrameSize(args)
           rsp == size - frame
           argv == ArgvPos(args, size)
           array == (n + 1) * PtrSize
           sums == ArgBytes(args)
           bytes == sums[n]
           stores == InitStores(args, size, argv, floor)
           m == AfterStores(Loaded(block, x), stores, size, rdonly)
<1>1. /\ args \in Seq(Seq(Byte)) /\ size \in Word /\ size \in Nat /\ size < W
      /\ floor \in Nat /\ n \in Nat /\ PtrSize \in Nat /\ PtrSize > 0
      /\ frame + floor <= size
      /\ bytes \in Nat /\ array \in Nat /\ frame = bytes + array + 2 * PtrSize
  BY FrameParts, WordFacts DEF Framed, Word
<1>2. argv = rsp + 2 * PtrSize /\ rsp \in Int /\ argv \in Int
  <2>1. argv = rsp + 2 * PtrSize
    OBVIOUS
  <2> HIDE DEF frame, n, bytes, array, argv, floor
  <2>2. QED
    BY <1>1, <2>1
<1>3. 0 .. (size - 1) \subseteq DOMAIN Loaded(block, x)
  BY DEF Loaded
<1>4. ASSUME NEW k \in (n + 1) .. N
      PROVE  HoldsWord(m, argv + Slot(n, k) * PtrSize, FrameWord(args, size, k))
  BY <1>3, FrameWords
<1>5. rsp >= floor
  <2> HIDE DEF frame, n, bytes, array, argv, floor
  <2>1. QED
    BY <1>1
<1>6. HoldsWord(m, rsp, n)
  <2> DEFINE k == 2 * n + 3
  <2>1. k \in (n + 1) .. N /\ Slot(n, k) = -2 /\ FrameWord(args, size, k) = n
    <3>1. n \in Nat
      BY <1>1
    <3>2. k \in (n + 1) .. N /\ ~(k <= 2 * n) /\ ~(k <= 2 * n + 1)
          /\ k # 2 * n + 1 /\ k # 2 * n + 2 /\ 2 * n + 1 - k = -2
      <4> HIDE DEF n
      <4>1. QED
        BY <3>1
    <3> HIDE DEF k
    <3>3. Slot(n, k) = -2
      BY <3>2 DEF Slot, k
    <3>4. FrameWord(args, size, k) = n
      BY <3>2 DEF FrameWord
    <3>5. QED
      BY <3>2, <3>3, <3>4
  <2>2. HoldsWord(m, argv + Slot(n, k) * PtrSize, FrameWord(args, size, k))
    BY <1>4, <2>1
  <2> HIDE DEF m, argv, rsp, k
  <2>3. argv + Slot(n, k) * PtrSize = rsp
    BY <1>1, <1>2, <2>1
  <2>4. QED
    BY <2>1, <2>2, <2>3
<1>7. HoldsWord(m, rsp + PtrSize, argv)
  <2> DEFINE k == 2 * n + 2
  <2>1. k \in (n + 1) .. N /\ Slot(n, k) = -1 /\ FrameWord(args, size, k) = argv
    BY <1>1 DEF Slot, FrameWord
  <2>2. HoldsWord(m, argv + Slot(n, k) * PtrSize, FrameWord(args, size, k))
    BY <1>4, <2>1
  <2> HIDE DEF m, argv, rsp, k
  <2>3. argv + Slot(n, k) * PtrSize = rsp + PtrSize
    BY <1>1, <1>2, <2>1
  <2>4. QED
    BY <2>1, <2>2, <2>3
<1>8. HoldsWord(m, argv + n * PtrSize, 0)
  <2> DEFINE k == 2 * n + 1
  <2>1. k \in (n + 1) .. N /\ Slot(n, k) = n /\ FrameWord(args, size, k) = 0
    BY <1>1 DEF Slot, FrameWord
  <2>2. HoldsWord(m, argv + Slot(n, k) * PtrSize, FrameWord(args, size, k))
    BY <1>4, <2>1
  <2>3. QED
    BY <2>1, <2>2
<1>9. ASSUME NEW i \in 1 .. n
      PROVE  \E p \in (argv + (n + 1) * PtrSize) .. (size - 1) :
               /\ HoldsWord(m, argv + (i - 1) * PtrSize, p)
               /\ \A k \in 1 .. Len(args[i]) : m[p + k - 1] = args[i][k]
               /\ m[p + Len(args[i])] = 0
  <2> DEFINE p == size - sums[i]
             len == Len(args[i])
  <2>1. /\ sums[i] \in Nat /\ sums[i] <= bytes /\ sums[i - 1] \in Nat
        /\ len \in Nat /\ sums[i] = sums[i - 1] + (len + 1)
    <3>1. i \in 0 .. n /\ i - 1 \in 0 .. n
      BY <1>1
    <3>2. sums[i] \in Nat /\ sums[i] <= bytes /\ sums[i - 1] \in Nat
      BY <3>1, ArgPositions
    <3>3. len \in Nat /\ sums[i] = sums[i - 1] + (len + 1)
      BY StringStores
    <3>4. QED
      BY <3>2, <3>3
  <2>2. p \in (argv + array) .. (size - 1)
    <3> DEFINE u == sums[i]
               v == sums[i - 1]
    <3>1. /\ u \in Nat /\ u <= bytes /\ v \in Nat /\ len \in Nat /\ u = v + (len + 1)
          /\ p = size - u
      BY <2>1
    <3> HIDE DEF u, v, len, p, bytes, array, frame, argv, floor, n
    <3>2. QED
      BY <1>1, <1>2, <3>1 DEF rsp
  <2>3. HoldsWord(m, argv + (i - 1) * PtrSize, p)
    <3> DEFINE k == n + i
    <3>1. k \in (n + 1) .. N /\ Slot(n, k) = i - 1 /\ k - n = i /\ k <= 2 * n
      BY <1>1 DEF Slot
    <3>2. FrameWord(args, size, k) = p
      BY <3>1 DEF FrameWord
    <3>3. HoldsWord(m, argv + Slot(n, k) * PtrSize, FrameWord(args, size, k))
      BY <1>4, <3>1
    <3> HIDE DEF m, argv, p, k
    <3>4. QED
      BY <3>1, <3>2, <3>3
  <2>4. ASSUME NEW j \in 0 .. len
        PROVE  m[p + j] = IF j < len THEN args[i][j + 1] ELSE 0
    BY <1>3, FrameStrings
  <2> HIDE DEF m, argv, p, len
  <2>5. p \in Int
    BY <1>1, <1>2, <2>2
  <2>6. ASSUME NEW k \in 1 .. len PROVE m[p + k - 1] = args[i][k]
    <3>1. k - 1 \in 0 .. len /\ k - 1 < len /\ (k - 1) + 1 = k /\ p + k - 1 = p + (k - 1)
      BY <2>1, <2>5
    <3>2. QED
      BY <2>4, <3>1
  <2>7. m[p + len] = 0
    <3>1. len \in 0 .. len /\ ~(len < len)
      BY <2>1
    <3>2. QED
      BY <2>4, <3>1
  <2>8. QED
    BY <2>2, <2>3, <2>6, <2>7 DEF len
<1>10. ASSUME NEW a \in 0 .. (floor - 1)
       PROVE  m[a] = IF a < Len(Content(x)) THEN Content(x)[a + 1] ELSE 0
  <2>1. Packed(stores, N, size, floor)
    BY FramePacked
  <2>2. a \in 0 .. (size - 1) /\ a < floor /\ a \in Int
    <3> HIDE DEF frame, floor, n, bytes, array
    <3>1. frame \in Nat
      BY <1>1
    <3>2. QED
      BY <1>1, <3>1
  <2>3. a \in DOMAIN Loaded(block, x)
    BY <1>3, <2>2
  <2>4. N \in Nat
    BY <1>1
  <2>5. m[a] = Loaded(block, x)[a]
    <3> DEFINE loaded == Loaded(block, x)
    <3>1. size \in Word /\ floor \in Nat /\ a \in DOMAIN loaded /\ a \in Int /\ a < floor
      BY <1>1, <2>2, <2>3
    <3> HIDE DEF stores, N, floor, loaded
    <3>2. Spared(loaded, stores, size, rdonly, a)
      BY <2>1, <2>4, <3>1, PackedBelow
    <3>3. QED
      BY <3>2 DEF loaded, Spared
  <2>6. QED
    BY <2>2, <2>3, <2>5 DEF Loaded
<1> HIDE DEF m, argv, rsp, sums, n, floor
<1>11. StartFrame(m, x, args, rsp, floor, size)
  BY <1>2, <1>5, <1>6, <1>7, <1>8, <1>9, <1>10 DEF StartFrame, n, floor
<1>12. QED
  BY <1>11 DEF m, argv, rsp, floor

(* A machine that starts to run has its start frame whole, although only   *)
(* the last push of Initialize tells whether there was room for it all.    *)
THEOREM StartsFramed == Spec => RunningHasStartFrame
<1> DEFINE Starts == ~running /\ running' /\ Backed' =>
             StartFrame(mem', exe', cmdline', RSP', StackBarrier', mem_size')
<1>1. ASSUME MemoryInv, NEW x \in Exes, NEW args \in ArgLists, NEW stacksize \in StackSizes,
             Initialize(x, args, stacksize), running', Backed'
      PROVE  StartFrame(mem', exe', cmdline', RSP', StackBarrier', mem_size')
  <2> DEFINE size == mem_size'
             floor == TotalSize(x)
             rdonly == Len(x.text) + Len(x.rodata)
             argv == ArgvPos(args, size)
             stores == InitStores(args, size, argv, floor)
             n == Len(args)
             last == 2 * n + 3
             rsp == (argv - 2 * PtrSize) % W
  <2>1. args \in Seq(Seq(Byte)) /\ FrameSize(args) < W
    BY HostAssumption, CommandLineAssumption
  <2> DEFINE cap == mem_cap'
  <2>2. size \in Word /\ size \in Nat /\ cap \in Nat /\ size <= cap
    <3>1. size \in Word /\ cap \in Word /\ size <= cap
      BY <1>1, InitializeMemory
    <3> HIDE DEF size, cap
    <3>2. QED
      BY <3>1, WordFacts DEF Word
  <2>3. floor \in Nat /\ rdonly \in Nat /\ rdonly <= floor
    <3> DEFINE c == Len(Content(x))
               text == Len(x.text)
               rodata == Len(x.rodata)
    <3>1. /\ text \in Nat /\ rodata \in Nat /\ c \in Nat /\ floor \in Word
          /\ text + rodata <= c /\ c <= floor /\ rdonly = text + rodata
      BY ContentFacts
    <3> HIDE DEF c, rdonly, floor, text, rodata
    <3>2. QED
      BY <3>1, WordFacts DEF Word
  <2>4. /\ exe' = x /\ cmdline' = args /\ StackBarrier' = floor /\ RSP' = rsp
        /\ FirstFault(stores, size, rdonly) = "None"
    BY <1>1 DEF Initialize
  <2>5. PICK block :
          /\ DOMAIN block = 0 .. (Usable(mem_cap') - 1)
          /\ mem' = AfterStores(Loaded(block, x), stores, size, rdonly)
    BY <1>1, InitializeMemory
  <2>6. ~(rsp < floor) /\ rsp \in 0 .. (size - 1)
    <3>1. last \in Nat /\ last \in 1 .. last /\ DOMAIN stores = 1 .. last
          /\ last > 2 * n + 2 /\ last > 2 * n + 1 /\ last > n
      <4>1. n \in Nat
        BY <2>1
      <4>2. QED
        BY <4>1 DEF InitStores
    <3>2. stores[last].pos = rsp /\ stores[last].floor = floor /\ stores[last].quiet = FALSE
      BY <3>1 DEF InitStores, WordStore
    <3> HIDE DEF stores, last, rsp, size, rdonly, floor
    <3>3. StoreFault(stores[last], size, rdonly) = "None"
      BY <2>4, <3>1, NoStoreFault
    <3>4. QED
      BY <3>2, <3>3, StoreInside
  <2>7. /\ Framed(args, size, floor) /\ rsp = size - FrameSize(args)
        /\ argv = size - FrameSize(args) + 2 * PtrSize
    <3> HIDE DEF size, floor
    <3>1. QED
      BY <2>1, <2>2, <2>3, <2>6, LastPushTells
  <2>8. 0 .. (size - 1) \subseteq DOMAIN block
    <3>1. DOMAIN block = 0 .. (cap - 1)
      <4>1. cap \in Word /\ Usable(cap) = cap
        BY <1>1, InitializeMemory, PaddingWrapped DEF Backed
      <4>2. QED
        BY <2>5, <4>1
    <3> HIDE DEF size, cap
    <3>2. QED
      BY <2>2, <3>1
  <2>9. StartFrame(AfterStores(Loaded(block, x), stores, size, rdonly),
                   x, args, size - FrameSize(args), floor, size)
    <3> HIDE DEF size, rdonly
    <3>1. QED
      BY <2>3, <2>7, <2>8, FrameComplete
  <2>10. QED
    BY <2>4, <2>5, <2>7, <2>9
<1>2. ASSUME IInv, [Next]_vars, ~running, running', Backed'
      PROVE  StartFrame(mem', exe', cmdline', RSP', StackBarrier', mem_size')
  <2>1. ~(HostCall \/ Tick) /\ ~UNCHANGED vars
    BY <1>2, LimitsStay DEF vars
  <2>2. Load /\ MemoryInv
    BY <1>2, <2>1 DEF Next, IInv
  <2>3. QED
    BY <1>1, <1>2, <2>2 DEF Load
<1>3. Sound /\ [Next]_vars => [Starts]_vars
  BY <1>2, Real DEF Next
<1>4. QED
  BY <1>3, Invariance, PTL DEF Spec, RunningHasStartFrame

-----------------------------------------------------------------------------
(***************************************************************************)
(* Terminal input for every alphabet, every kind of stream and buffers of  *)
(* every size: no character is lost, repeated or moved, and what the       *)
(* client is given is an input stream read a line at a time.               *)
(*                                                                         *)
(* The argument is one equation: what the client has, what the buffer      *)
(* still holds and what the stream still holds are, one after the other,   *)
(* what was typed.  A refill cuts the stream in two, an answer cuts the    *)
(* rest of the buffer in two, and cutting a sequence changes nothing.      *)
(***************************************************************************)

(* The buffer holds one line: a newline is its last character.             *)
OneLine == \A i \in 1 .. Len(b) - 1 : b[i] # Newline

(* An end of input is only pending in a blocking stream that has not       *)
(* reported it yet.                                                        *)
EndPending == end # Never => kind.blocking /\ ~eof

TerminalIInv == TerminalTypeOK /\ NothingLost /\ OneLine /\ EndPending

-----------------------------------------------------------------------------
(* Sequences.                                                              *)

(* A sequence cut in two is the sequence.                                  *)
LEMMA Cut ==
  ASSUME NEW S, NEW s \in Seq(S), NEW m \in 0 .. Len(s), NEW n \in m .. Len(s)
  PROVE  /\ SubSeq(s, m + 1, n) \in Seq(S)
         /\ Len(SubSeq(s, m + 1, n)) = n - m
         /\ \A i \in 1 .. n - m : SubSeq(s, m + 1, n)[i] = s[m + i]
         /\ SubSeq(s, m + 1, n) \o SubSeq(s, n + 1, Len(s)) = SubSeq(s, m + 1, Len(s))
<1>1. Len(s) \in Nat /\ \A i \in 1 .. Len(s) : s[i] \in S
  BY ElementOfSeq, LenProperties
<1> DEFINE k == m + 1
<1>2. k \in 1 .. Len(s) + 1 /\ n \in k - 1 .. Len(s) /\ Len(s) \in n .. Len(s)
  BY <1>1
<1>3. SubSeq(s, k, n) \o SubSeq(s, n + 1, Len(s)) = SubSeq(s, k, Len(s))
  <2> HIDE DEF k
  <2> QED
    BY <1>2, ConcatAdjacentSubSeq
<1>4. \A i \in (m + 1) .. n : s[i] \in S
  BY <1>1
<1>5. /\ SubSeq(s, m + 1, n) \in Seq(S)
      /\ Len(SubSeq(s, m + 1, n)) = IF m + 1 <= n THEN n - (m + 1) + 1 ELSE 0
      /\ \A i \in 1 .. n - (m + 1) + 1 : SubSeq(s, m + 1, n)[i] = s[(m + 1) + i - 1]
  BY <1>1, <1>4, SubSeqProperties
<1>6. Len(SubSeq(s, m + 1, n)) = n - m
  BY <1>1, <1>5
<1>7. \A i \in 1 .. n - m : SubSeq(s, m + 1, n)[i] = s[m + i]
  <2> TAKE i \in 1 .. n - m
  <2>1. i \in 1 .. n - (m + 1) + 1 /\ (m + 1) + i - 1 = m + i
    BY <1>1
  <2> QED
    BY <1>5, <2>1
<1> QED
  BY <1>3, <1>5, <1>6, <1>7, Zenon

LEMMA CutFromStart ==
  ASSUME NEW S, NEW s \in Seq(S), NEW n \in 0 .. Len(s)
  PROVE  /\ SubSeq(s, 1, n) \in Seq(S) /\ Len(SubSeq(s, 1, n)) = n
         /\ \A i \in 1 .. n : SubSeq(s, 1, n)[i] = s[i]
         /\ SubSeq(s, 1, n) \o SubSeq(s, n + 1, Len(s)) = s
         /\ SubSeq(s, n + 1, Len(s)) \in Seq(S)
         /\ Len(SubSeq(s, n + 1, Len(s))) = Len(s) - n
<1>1. Len(s) \in Nat
  BY LenProperties
<1>2. 0 \in 0 .. Len(s) /\ Len(s) \in n .. Len(s)
  BY <1>1
<1>3. SubSeq(s, 1, Len(s)) = s
  BY SubSeqFull
<1>4. /\ SubSeq(s, 0 + 1, n) \in Seq(S) /\ Len(SubSeq(s, 0 + 1, n)) = n - 0
      /\ \A i \in 1 .. n - 0 : SubSeq(s, 0 + 1, n)[i] = s[0 + i]
      /\ SubSeq(s, 0 + 1, n) \o SubSeq(s, n + 1, Len(s)) = SubSeq(s, 0 + 1, Len(s))
  BY <1>2, Cut
<1>5. SubSeq(s, n + 1, Len(s)) \in Seq(S) /\ Len(SubSeq(s, n + 1, Len(s))) = Len(s) - n
  BY <1>2, Cut
<1>6. /\ SubSeq(s, 1, n) \in Seq(S) /\ Len(SubSeq(s, 1, n)) = n
      /\ \A i \in 1 .. n : SubSeq(s, 1, n)[i] = s[i]
  BY <1>4
<1>7. 0 + 1 = 1
  OBVIOUS
<1>8. SubSeq(s, 1, n) \o SubSeq(s, n + 1, Len(s)) = s
  BY <1>3, <1>4, <1>7, Zenon
<1> QED
  BY <1>5, <1>6, <1>8, Zenon

LEMMA Associates ==
  \A r, l, s \in Seq(Char) : (r \o l) \o s = r \o (l \o s)
BY ConcatAssociative

LEMMA Regroup ==
  \A r, l, s \in Seq(Char) : r \o SubSeq(l, 1, Len(l)) \o s = r \o (l \o s)
<1> TAKE r, l, s \in Seq(Char)
<1>1. SubSeq(l, 1, Len(l)) = l
  BY SubSeqFull
<1>2. (r \o l) \o s = r \o (l \o s)
  BY Associates
<1> QED
  BY <1>1, <1>2

(* The smaller of two numbers.                                             *)
LEMMA MinOfTwo ==
  ASSUME NEW x \in Int, NEW y \in Int
  PROVE  /\ Min({x, y}) \in {x, y}
         /\ Min({x, y}) <= x /\ Min({x, y}) <= y
<1>1. \E z \in {x, y} : \A w \in {x, y} : z =< w
  BY Z3
<1> QED
  BY <1>1 DEF Min

-----------------------------------------------------------------------------
(* What a refill and an answer do.                                         *)

LEMMA TakesCuts ==
  ASSUME stream \in Seq(Char), NEW n \in 0 .. Len(stream), Unbroken(n - 1), Takes(n)
  PROVE  /\ b' \in Seq(Char) /\ stream' \in Seq(Char)
         /\ b' \o stream' = stream
         /\ Len(b') = n /\ Len(stream') = Len(stream) - n
         /\ OneLine'
<1>1. Len(stream) \in Nat
  BY LenProperties
<1>2. /\ b' \in Seq(Char) /\ Len(b') = n
      /\ \A i \in 1 .. n : b'[i] = stream[i]
      /\ b' \o stream' = stream
  BY CutFromStart DEF Takes
<1>3. stream' \in Seq(Char) /\ Len(stream') = Len(stream) - n
  BY CutFromStart DEF Takes
<1>5. OneLine'
  BY <1>1, <1>2 DEF OneLine, Unbroken
<1> QED
  BY <1>2, <1>3, <1>5

(* A refill moves the beginning of the stream into the empty buffer.       *)
LEMMA RefillMoves ==
  ASSUME TerminalIInv, BufferEmpty, Refill
  PROVE  /\ b' \in Seq(Char) /\ stream' \in Seq(Char)
         /\ end' \in 0 .. Len(stream') \cup {Never} /\ eof' \in BOOLEAN
         /\ OneLine' /\ (end' # Never => kind.blocking /\ ~eof')
         /\ received \o SubSeq(b', 1, Len(b')) \o stream' = fed
<1>1. /\ stream \in Seq(Char) /\ Len(stream) \in Nat /\ received \in Seq(Char)
      /\ eof \in BOOLEAN
      /\ end \in 0 .. Len(stream) \cup {Never}
      /\ b \in Seq(Char) /\ Len(b) \in Nat /\ b_pos = Len(b)
  BY LenProperties DEF TerminalIInv, TerminalTypeOK, BufferEmpty
<1>2. received \o stream = fed
  <2>1. SubSeq(b, b_pos + 1, Len(b)) = <<>>
    BY <1>1, SubSeqEmpty
  <2>2. received \o <<>> = received
    BY <1>1, ConcatEmptySeq
  <2> QED
    BY <2>1, <2>2 DEF TerminalIInv, NothingLost
<1>3. ASSUME b' \in Seq(Char), stream' \in Seq(Char), b' \o stream' = stream
      PROVE  received \o SubSeq(b', 1, Len(b')) \o stream' = fed
  <2>1. received \o SubSeq(b', 1, Len(b')) \o stream' = received \o (b' \o stream')
    BY <1>1, <1>3, Regroup
  <2> QED
    BY <1>2, <1>3, <2>1
<1>4. CASE eof /\ b' = <<>> /\ UNCHANGED streamVars
  <2>1. b' \in Seq(Char) /\ Len(b') = 0 /\ b' \o stream' = stream
    BY <1>1, <1>4, EmptySeq, ConcatEmptySeq DEF streamVars
  <2>2. OneLine'
    BY <2>1 DEF OneLine
  <2> QED
    BY <1>1, <1>3, <1>4, <2>1, <2>2 DEF streamVars, TerminalIInv, EndPending
<1>5. ASSUME ~eof, NEW n \in 1 .. (IF end = Never THEN Len(stream) ELSE end),
             Unbroken(n - 1), Takes(n),
             end' = (IF end = Never THEN Never ELSE end - n), eof' = FALSE
      PROVE  /\ b' \in Seq(Char) /\ stream' \in Seq(Char)
             /\ end' \in 0 .. Len(stream') \cup {Never} /\ eof' \in BOOLEAN
             /\ OneLine' /\ (end' # Never => kind.blocking /\ ~eof')
             /\ received \o SubSeq(b', 1, Len(b')) \o stream' = fed
  <2>1. n \in 0 .. Len(stream) /\ (end # Never => n <= end /\ end \in 0 .. Len(stream))
    BY <1>1, <1>5
  <2>2. /\ b' \in Seq(Char) /\ stream' \in Seq(Char) /\ b' \o stream' = stream
        /\ Len(stream') = Len(stream) - n /\ OneLine'
    BY <1>1, <1>5, <2>1, TakesCuts
  <2>3. end' \in 0 .. Len(stream') \cup {Never}
    BY <1>1, <1>5, <2>1, <2>2
  <2> QED
    BY <1>3, <1>5, <2>2, <2>3 DEF TerminalIInv, EndPending
<1>6. ASSUME NEW n \in 0 .. Len(stream), Unbroken(n), Takes(n), end' = Never, eof' = TRUE
      PROVE  /\ b' \in Seq(Char) /\ stream' \in Seq(Char)
             /\ end' \in 0 .. Len(stream') \cup {Never} /\ eof' \in BOOLEAN
             /\ OneLine' /\ (end' # Never => kind.blocking /\ ~eof')
             /\ received \o SubSeq(b', 1, Len(b')) \o stream' = fed
  <2>1. Unbroken(n - 1)
    BY <1>1, <1>6 DEF Unbroken
  <2>2. b' \in Seq(Char) /\ stream' \in Seq(Char) /\ b' \o stream' = stream /\ OneLine'
    BY <1>1, <1>6, <2>1, TakesCuts
  <2> QED
    BY <1>3, <1>6, <2>2
<1>7. CASE ~eof /\ end # Never /\ Unbroken(end) /\ Takes(end) /\ end' = Never /\ eof' = TRUE
  BY <1>1, <1>6, <1>7
<1>8. CASE ~eof /\ ~kind.blocking /\ Unbroken(Len(stream)) /\ Takes(Len(stream))
           /\ eof' = TRUE /\ UNCHANGED end
  <2>1. end' = Never
    BY <1>8 DEF TerminalIInv, EndPending
  <2>2. Len(stream) \in 0 .. Len(stream)
    BY <1>1
  <2> QED
    BY <1>6, <1>8, <2>1, <2>2
<1> QED
  BY <1>4, <1>5, <1>7, <1>8 DEF Refill

(* The rest of a line is handed over in two pieces as well as in one.      *)
LEMMA Handover ==
  \A r, l, s \in Seq(Char) : \A p \in 0 .. Len(l) : \A q \in p .. Len(l) :
    /\ r \o SubSeq(l, p + 1, q) \in Seq(Char)
    /\ (r \o SubSeq(l, p + 1, q)) \o SubSeq(l, q + 1, Len(l)) \o s
         = r \o SubSeq(l, p + 1, Len(l)) \o s
<1> TAKE r, l, s \in Seq(Char)
<1> TAKE p \in 0 .. Len(l)
<1> TAKE q \in p .. Len(l)
<1> DEFINE given == SubSeq(l, p + 1, q)
           rest == SubSeq(l, q + 1, Len(l))
<1>1. given \in Seq(Char) /\ given \o rest = SubSeq(l, p + 1, Len(l))
  BY Cut
<1>2. q \in 0 .. Len(l)
  BY LenProperties
<1>3. rest \in Seq(Char)
  BY <1>2, CutFromStart
<1> HIDE DEF given, rest
<1>4. r \o given \in Seq(Char)
  BY <1>1, ConcatProperties
<1>5. (r \o given) \o rest = r \o (given \o rest)
  <2>1. r \in Seq(Char) /\ given \in Seq(Char) /\ rest \in Seq(Char)
    BY <1>1, <1>3
  <2> QED
    BY <2>1, Associates
<1>6. (r \o given) \o rest \o s = r \o SubSeq(l, p + 1, Len(l)) \o s
  BY <1>1, <1>5, Zenon
<1> QED
  BY <1>4, <1>6 DEF given, rest

(* What was handed over is the beginning of what there is, and its last    *)
(* part comes from the line.                                               *)
LEMMA HandoverIsPrefix ==
  \A r, l, s \in Seq(Char) : \A p \in 0 .. Len(l) : \A q \in p .. Len(l) :
    LET g == r \o SubSeq(l, p + 1, q)
        f == g \o SubSeq(l, q + 1, Len(l)) \o s
        m == Len(r) + (q - p)
    IN /\ q = p => g = r
       /\ q > p => m \in (Len(r) + 1) .. Len(f) /\ g = SubSeq(f, 1, m)
       /\ \A i \in (Len(r) + 1) .. m : f[i] = l[p + (i - Len(r))]
<1> TAKE r, l, s \in Seq(Char)
<1> TAKE p \in 0 .. Len(l)
<1> TAKE q \in p .. Len(l)
<1> DEFINE given == SubSeq(l, p + 1, q)
           rest == SubSeq(l, q + 1, Len(l))
           g == r \o given
           f == g \o rest \o s
           m == Len(r) + (q - p)
<1>1. Len(l) \in Nat /\ Len(r) \in Nat /\ q \in 0 .. Len(l) /\ p \in Nat /\ q \in Nat
  BY LenProperties
<1>2. /\ given \in Seq(Char) /\ Len(given) = q - p
      /\ \A i \in 1 .. q - p : given[i] = l[p + i]
  BY Cut
<1>3. rest \in Seq(Char)
  BY <1>1, CutFromStart
<1>4. q = p => given = <<>>
  BY <1>1, SubSeqEmpty
<1> HIDE DEF given, rest
<1>5. /\ g \in Seq(Char) /\ Len(g) = m
      /\ \A i \in 1 .. m : g[i] = IF i <= Len(r) THEN r[i] ELSE given[i - Len(r)]
  <2>1. Len(r) + Len(given) = m
    BY <1>2
  <2>2. /\ r \o given \in Seq(Char) /\ Len(r \o given) = Len(r) + Len(given)
        /\ \A i \in 1 .. Len(r) + Len(given) :
              (r \o given)[i] = IF i <= Len(r) THEN r[i] ELSE given[i - Len(r)]
    BY <1>2, ConcatProperties
  <2> QED
    BY <2>1, <2>2, Zenon
<1>6. q = p => g = r
  BY <1>4, ConcatEmptySeq
<1> HIDE DEF g
<1>7. rest \o s \in Seq(Char) /\ f = g \o (rest \o s)
  <2>1. g \in Seq(Char) /\ rest \in Seq(Char) /\ s \in Seq(Char)
    BY <1>3, <1>5
  <2>2. rest \o s \in Seq(Char)
    BY <2>1, ConcatProperties
  <2>3. (g \o rest) \o s = g \o (rest \o s)
    BY <2>1, Associates, Zenon
  <2> QED
    BY <2>2, <2>3
<1> DEFINE t == rest \o s
<1> HIDE DEF t, f
<1>8. t \in Seq(Char) /\ f = g \o t
  BY <1>7 DEF t
<1>9. /\ Len(f) = Len(g) + Len(t) /\ Len(t) \in Nat
      /\ \A i \in 1 .. Len(g) + Len(t) : f[i] = IF i <= Len(g) THEN g[i] ELSE t[i - Len(g)]
  BY <1>5, <1>8, ConcatProperties, LenProperties
<1>10. m \in Nat /\ m <= Len(f) /\ \A i \in 1 .. m : f[i] = g[i]
  BY <1>1, <1>5, <1>9
<1>11. ASSUME q > p PROVE m \in (Len(r) + 1) .. Len(f) /\ g = SubSeq(f, 1, m)
  <2>1. m \in (Len(r) + 1) .. Len(f) /\ m \in 1 .. Len(g) /\ 1 \in 1 .. Len(g)
    BY <1>1, <1>5, <1>9, <1>11
  <2>2. SubSeq(g \o t, 1, m) = SubSeq(g, 1, m)
    BY <1>5, <1>8, <2>1, SubSeqOfConcat1
  <2>3. SubSeq(g, 1, Len(g)) = g
    BY <1>5, SubSeqFull
  <2> QED
    BY <1>5, <1>8, <2>1, <2>2, <2>3
<1>12. ASSUME NEW i \in (Len(r) + 1) .. m
       PROVE  f[i] = l[p + (i - Len(r))]
  <2>1. i \in 1 .. m /\ ~(i <= Len(r)) /\ i - Len(r) \in 1 .. q - p
    BY <1>1
  <2> QED
    BY <1>2, <1>5, <1>10, <2>1
<1> QED
  BY <1>6, <1>11, <1>12 DEF f, g, given, rest

(* An answer moves the beginning of the rest of the buffer to the client,  *)
LEMMA AnswerMoves ==
  ASSUME NEW line \in Seq(Char), NEW pos \in 0 .. Len(line),
         request \in Nat, received \in Seq(Char), HandOver(line, pos)
  PROVE  /\ b_pos' \in pos .. Len(line)
         /\ request' \in {request, Idle} /\ suspended' \in {TRUE, suspended}
         /\ received' = received \o SubSeq(line, pos + 1, b_pos')
<1> DEFINE n == Min({Len(line) - pos, request})
           given == SubSeq(line, pos + 1, pos + n)
<1>1. Len(line) \in Nat /\ pos \in Nat /\ Len(line) - pos \in Int /\ request \in Int
  BY LenProperties
<1>2. n \in {Len(line) - pos, request} /\ n <= Len(line) - pos /\ n <= request
  BY <1>1, MinOfTwo, Zenon
<1>3. /\ b_pos' = pos + n /\ request' \in {request, Idle}
      /\ suspended' \in {TRUE, suspended}
      /\ (n = 0 /\ received' = received) \/ received' = received \o given
  BY DEF HandOver
<1> HIDE DEF n
<1>4. pos + n \in pos .. Len(line)
  BY <1>1, <1>2
<1>5. n = 0 => received \o given = received
  <2>1. n = 0 => given = <<>>
    BY <1>1, SubSeqEmpty
  <2> QED
    BY <2>1, ConcatEmptySeq
<1> QED
  BY <1>3, <1>4, <1>5

(* which is a delivery of what comes next, if the buffer holds one line.   *)
LEMMA AnswerDelivers ==
  ASSUME NEW line \in Seq(Char), NEW pos \in 0 .. Len(line), NEW s \in Seq(Char),
         request \in Nat, received \in Seq(Char), HandOver(line, pos),
         received \o SubSeq(line, pos + 1, Len(line)) \o s = fed,
         \A i \in 1 .. Len(line) - 1 : line[i] # Newline, UNCHANGED fed
  PROVE  /\ b_pos' \in 0 .. Len(line) /\ received' \in Seq(Char)
         /\ received' \o SubSeq(line, b_pos' + 1, Len(line)) \o s = fed'
         /\ [Input!Next]_<<fed, received>>
<1> DEFINE q == b_pos'
           m == Len(received) + (q - pos)
<1>1. q \in pos .. Len(line) /\ received' = received \o SubSeq(line, pos + 1, q)
  BY AnswerMoves
<1> HIDE DEF q
<1>2. Len(line) \in Nat /\ Len(received) \in Nat /\ pos \in Nat /\ q \in 0 .. Len(line)
  BY <1>1, LenProperties
<1>3. /\ received' \in Seq(Char)
      /\ received' \o SubSeq(line, q + 1, Len(line)) \o s = fed
  BY <1>1, Handover
<1>4. /\ q = pos => received' = received
      /\ q > pos => m \in (Len(received) + 1) .. Len(fed) /\ received' = SubSeq(fed, 1, m)
      /\ \A i \in (Len(received) + 1) .. m : fed[i] = line[pos + (i - Len(received))]
  <2> DEFINE g == received \o SubSeq(line, pos + 1, q)
             f == g \o SubSeq(line, q + 1, Len(line)) \o s
  <2>1. /\ q = pos => g = received
        /\ q > pos => m \in (Len(received) + 1) .. Len(f) /\ g = SubSeq(f, 1, m)
        /\ \A i \in (Len(received) + 1) .. m : f[i] = line[pos + (i - Len(received))]
    <3>1. /\ received \in Seq(Char) /\ line \in Seq(Char) /\ s \in Seq(Char)
          /\ pos \in 0 .. Len(line) /\ q \in pos .. Len(line)
      BY <1>1
    <3>2. QED
      BY <3>1, HandoverIsPrefix, ZenonT(30)
  <2>2. g = received' /\ f = fed
    BY <1>1, <1>3
  <2> HIDE DEF g, f
  <2> QED
    BY <2>1, <2>2
<1> HIDE DEF m
<1>5. CASE q > pos
  <2>1. \A i \in (Len(received) + 1) .. (m - 1) : fed[i] # Newline
    <3> TAKE i \in (Len(received) + 1) .. (m - 1)
    <3>1. /\ i \in (Len(received) + 1) .. m
          /\ pos + (i - Len(received)) \in 1 .. Len(line) - 1
      BY <1>1, <1>2 DEF m
    <3> QED
      BY <1>4, <3>1
  <2>2. Input!Deliver(m) /\ m \in (Len(received) + 1) .. Len(fed)
    BY <1>4, <1>5, <2>1 DEF Input!Deliver
  <2>3. Input!Next
    BY <2>2 DEF Input!Next
  <2> QED
    BY <1>2, <1>3, <2>3 DEF q
<1>6. CASE q = pos
  BY <1>2, <1>3, <1>4, <1>6 DEF q
<1>7. q > pos \/ q = pos
  BY <1>1, <1>2
<1> QED
  BY <1>5, <1>6, <1>7, Zenon

-----------------------------------------------------------------------------
(* The steps.                                                              *)

LEMMA TerminalInitOK == TerminalInit => TerminalIInv
<1> SUFFICES ASSUME TerminalInit PROVE TerminalIInv
  OBVIOUS
<1>1. b = <<>> /\ stream = <<>> /\ received = <<>> /\ fed = <<>> /\ b_pos = 0
  BY DEF TerminalInit
<1>2. <<>> \in Seq(Char) /\ Len(<<>>) = 0
  BY EmptySeq
<1>3. TerminalTypeOK
  <2>1. /\ stream \in Seq(Char) /\ b \in Seq(Char) /\ fed \in Seq(Char) /\ received \in Seq(Char)
    BY <1>1, <1>2, Zenon
  <2>2. Len(b) = 0 /\ b_pos \in 0 .. Len(b)
    BY <1>1, <1>2
  <2>3. kind \in Kinds /\ end = Never /\ eof = FALSE /\ request = Idle /\ suspended = FALSE
    BY DEF TerminalInit
  <2> QED
    BY <2>1, <2>2, <2>3 DEF TerminalTypeOK
<1>4. SubSeq(b, b_pos + 1, Len(b)) = <<>>
  BY <1>1, <1>2, SubSeqEmpty
<1>5. NothingLost
  BY <1>1, <1>2, <1>4, ConcatEmptySeq DEF NothingLost
<1> QED
  BY <1>1, <1>2, <1>3, <1>5 DEF TerminalIInv, OneLine, EndPending, TerminalInit

LEMMA ReadStep ==
  ASSUME TerminalIInv, Read
  PROVE  TerminalIInv' /\ [Input!Next]_<<fed, received>>
<1>1. /\ request \in Nat /\ received \in Seq(Char) /\ fed \in Seq(Char)
      /\ kind \in Kinds /\ request \in Caps /\ suspended \in BOOLEAN
      /\ UNCHANGED <<kind, fed>>
  BY TerminalAssumption DEF TerminalIInv, TerminalTypeOK, Read
<1>2. ASSUME BufferEmpty, Refill, HandOver(b', 0)
      PROVE  TerminalIInv' /\ [Input!Next]_<<fed, received>>
  <2>1. /\ b' \in Seq(Char) /\ stream' \in Seq(Char)
        /\ end' \in 0 .. Len(stream') \cup {Never} /\ eof' \in BOOLEAN
        /\ OneLine' /\ (end' # Never => kind.blocking /\ ~eof')
        /\ received \o SubSeq(b', 1, Len(b')) \o stream' = fed
    BY <1>2, RefillMoves
  <2>2. 0 \in 0 .. Len(b') /\ 0 + 1 = 1
    BY <2>1, LenProperties
  <2>3. \A i \in 1 .. Len(b') - 1 : b'[i] # Newline
    BY <2>1 DEF OneLine
  <2>4. /\ b_pos' \in 0 .. Len(b') /\ received' \in Seq(Char)
        /\ received' \o SubSeq(b', b_pos' + 1, Len(b')) \o stream' = fed'
        /\ [Input!Next]_<<fed, received>>
    BY <1>1, <1>2, <2>1, <2>2, <2>3, AnswerDelivers
  <2>5. request' \in {request, Idle} /\ suspended' \in {TRUE, suspended}
    BY <1>1, <1>2, <2>1, <2>2, AnswerMoves
  <2>6. TerminalTypeOK'
    BY <1>1, <2>1, <2>4, <2>5 DEF TerminalTypeOK
  <2> QED
    BY <1>1, <2>1, <2>4, <2>6 DEF TerminalIInv, NothingLost, EndPending
<1>3. ASSUME ~BufferEmpty, HandOver(b, b_pos), UNCHANGED <<b, streamVars>>
      PROVE  TerminalIInv' /\ [Input!Next]_<<fed, received>>
  <2>1. /\ b \in Seq(Char) /\ stream \in Seq(Char) /\ b_pos \in 0 .. Len(b)
        /\ \A i \in 1 .. Len(b) - 1 : b[i] # Newline
        /\ received \o SubSeq(b, b_pos + 1, Len(b)) \o stream = fed
    BY DEF TerminalIInv, TerminalTypeOK, OneLine, NothingLost
  <2>2. /\ b_pos' \in 0 .. Len(b) /\ received' \in Seq(Char)
        /\ received' \o SubSeq(b, b_pos' + 1, Len(b)) \o stream = fed'
        /\ [Input!Next]_<<fed, received>>
    BY <1>1, <1>3, <2>1, AnswerDelivers
  <2>3. request' \in {request, Idle} /\ suspended' \in {TRUE, suspended}
    BY <1>1, <1>3, <2>1, AnswerMoves
  <2>4. b' = b /\ stream' = stream /\ end' = end /\ eof' = eof
    BY <1>3 DEF streamVars
  <2>5. TerminalTypeOK'
    BY <1>1, <2>2, <2>3, <2>4 DEF TerminalIInv, TerminalTypeOK
  <2> QED
    BY <1>1, <2>2, <2>4, <2>5 DEF TerminalIInv, NothingLost, OneLine, EndPending
<1> QED
  BY <1>2, <1>3 DEF Read

LEMMA TypeStep ==
  ASSUME TerminalIInv, NEW c \in Char, Type(c)
  PROVE  TerminalIInv' /\ [Input!Next]_<<fed, received>>
<1> DEFINE rest == SubSeq(b, b_pos + 1, Len(b))
<1>1. /\ stream \in Seq(Char) /\ received \in Seq(Char) /\ fed \in Seq(Char)
      /\ b \in Seq(Char) /\ b_pos \in 0 .. Len(b) /\ Len(stream) \in Nat
      /\ end \in 0 .. Len(stream) \cup {Never}
      /\ received \o rest \o stream = fed
  BY LenProperties DEF TerminalIInv, TerminalTypeOK, NothingLost
<1>2. rest \in Seq(Char)
  BY <1>1, CutFromStart
<1>3. /\ UNCHANGED <<kind, end, eof, wrapperVars, clientVars>>
      /\ stream' = Append(stream, c) /\ fed' = Append(fed, c)
  BY DEF Type
<1>4. /\ stream' \in Seq(Char) /\ Len(stream') = Len(stream) + 1 /\ fed' \in Seq(Char)
      /\ stream' = stream \o <<c>> /\ fed' = fed \o <<c>>
  BY <1>1, <1>3, AppendProperties, AppendIsConcat
<1> HIDE DEF rest
<1>5. received \o rest \o stream' = fed'
  <2> DEFINE given == received \o rest
             last == <<c>>
  <2>1. given \in Seq(Char) /\ last \in Seq(Char)
    BY <1>1, <1>2, ConcatProperties
  <2>2. given \o stream = fed /\ stream' = stream \o last /\ fed' = fed \o last
    BY <1>1, <1>4
  <2> HIDE DEF given, last
  <2>3. (given \o stream) \o last = given \o (stream \o last)
    <3>1. stream \in Seq(Char)
      BY <1>1
    <3> QED
      BY <2>1, <3>1, Associates, Zenon
  <2>4. given \o stream' = fed'
    BY <2>2, <2>3
  <2> QED
    BY <2>4 DEF given
<1>6. TerminalTypeOK'
  BY <1>1, <1>3, <1>4 DEF TerminalIInv, TerminalTypeOK, wrapperVars, clientVars
<1>7. NothingLost' /\ OneLine' /\ EndPending'
  BY <1>3, <1>5 DEF rest, TerminalIInv, NothingLost, OneLine, EndPending, wrapperVars, clientVars
<1>8. Input!Type(c)
  BY <1>3 DEF Input!Type, clientVars
<1> QED
  BY <1>6, <1>7, <1>8 DEF TerminalIInv, Input!Next

LEMMA Step ==
  ASSUME TerminalIInv, [TerminalNext]_terminalVars
  PROVE  TerminalIInv' /\ [Input!Next]_<<fed, received>>
<1>1. ASSUME NEW n \in Caps, Request(n)
      PROVE  TerminalIInv' /\ UNCHANGED <<fed, received>>
  BY <1>1 DEF TerminalIInv, TerminalTypeOK, NothingLost, OneLine, EndPending, Request, streamVars, wrapperVars
<1>2. EndInput => TerminalIInv' /\ UNCHANGED <<fed, received>>
  <2> SUFFICES ASSUME EndInput PROVE TerminalIInv' /\ UNCHANGED <<fed, received>>
    OBVIOUS
  <2>1. Len(stream) \in 0 .. Len(stream)
    BY LenProperties DEF TerminalIInv, TerminalTypeOK
  <2> QED
    BY <2>1 DEF TerminalIInv, TerminalTypeOK, NothingLost, OneLine, EndPending, EndInput, wrapperVars, clientVars
<1>3. Clear => TerminalIInv' /\ UNCHANGED <<fed, received>>
  BY DEF TerminalIInv, TerminalTypeOK, NothingLost, OneLine, EndPending, Clear, wrapperVars, clientVars
<1>4. Resume => TerminalIInv' /\ UNCHANGED <<fed, received>>
  <2> SUFFICES ASSUME Resume PROVE TerminalIInv' /\ UNCHANGED <<fed, received>>
    OBVIOUS
  <2>1. /\ UNCHANGED <<kind, stream, end, eof, b, b_pos, request, received, fed>>
        /\ suspended' = FALSE
    BY DEF Resume, streamVars, wrapperVars
  <2>2. TerminalTypeOK'
    BY <2>1 DEF TerminalIInv, TerminalTypeOK
  <2> QED
    BY <2>1, <2>2 DEF TerminalIInv, NothingLost, OneLine, EndPending
<1>5. UNCHANGED terminalVars => TerminalIInv' /\ UNCHANGED <<fed, received>>
  BY DEF TerminalIInv, TerminalTypeOK, NothingLost, OneLine, EndPending, terminalVars, streamVars, wrapperVars, clientVars
<1> QED
  BY <1>1, <1>2, <1>3, <1>4, <1>5, ReadStep, TypeStep DEF TerminalNext

-----------------------------------------------------------------------------
(* The theorems.                                                           *)

LEMMA TerminalInvariance == TerminalSpec => []TerminalIInv
<1>1. TerminalIInv /\ [TerminalNext]_terminalVars => TerminalIInv'
  BY Step
<1> QED
  BY <1>1, TerminalInitOK, PTL DEF TerminalSpec

(* The variables of a terminal keep their types: the read head stays in    *)
(* the buffer, whatever is asked for.                                      *)
THEOREM TerminalTypes == TerminalSpec => []TerminalTypeOK
<1>1. TerminalIInv => TerminalTypeOK
  BY DEF TerminalIInv
<1> QED
  BY <1>1, TerminalInvariance, PTL

(* No character is lost, repeated or moved, for every alphabet, however    *)
(* large the client's buffers are and however many characters are typed.   *)
THEOREM TerminalLosesNothing == TerminalSpec => []NothingLost
<1>1. TerminalIInv => NothingLost
  BY DEF TerminalIInv
<1> QED
  BY <1>1, TerminalInvariance, PTL

(* The wrapper and its stream implement the abstract input stream: every   *)
(* step types a character, delivers what comes next up to the end of its   *)
(* line, or is a stutter.                                                  *)
THEOREM TerminalReadsAreInput == TerminalSpec => ReadsAreInput
<1>1. TerminalInit => Input!Init
  BY DEF TerminalInit, Input!Init
<1>2. TerminalIInv /\ [TerminalNext]_terminalVars => [Input!Next]_<<fed, received>>
  BY Step
<1> QED
  BY <1>1, <1>2, TerminalInvariance, PTL DEF TerminalSpec, ReadsAreInput, Input!Spec

=============================================================================
