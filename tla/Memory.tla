------------------------------- MODULE Memory -------------------------------
(***************************************************************************)
(* The memory array of a CSX64 machine: src/src/Memory.cpp, the accessor   *)
(* templates of src/include/Computer.h, Computer::realloc and the aligned  *)
(* allocator it sits on.                                                   *)
(*                                                                         *)
(* A u64 is a number below W, and all u64 arithmetic is taken modulo W.    *)
(* A byte is a number below B and a u64 is PtrSize bytes long, so the      *)
(* program itself is the instance B = 256, PtrSize = 8; the model checker  *)
(* uses a smaller one.  Accesses are written as faults: an accessor first  *)
(* computes the ErrorCode its checks end in ("None" when they all pass),   *)
(* and its effect is guarded by that fault.                                *)
(***************************************************************************)
EXTENDS Integers, Sequences

CONSTANTS
  W,          (* how many values a u64 has                                 *)
  B,          (* how many values a byte has                                *)
  PtrSize,    (* bytes in a u64 (8)                                        *)
  Overhead,   (* what aligned_malloc adds: a pointer and align - 1 bytes   *)
  MaxAlloc    (* the largest block the host's malloc can hand out          *)

(* B to the n, defined so that it can be reasoned about.                   *)
Power[n \in 0 .. PtrSize] == IF n = 0 THEN 1 ELSE B * Power[n - 1]

ASSUME WordAssumption ==
  /\ W \in Nat /\ B \in Nat /\ PtrSize \in Nat \ {0}
  /\ B > 1 /\ W = Power[PtrSize] /\ PtrSize < W
  /\ Overhead \in 1 .. (W - 1)
  /\ MaxAlloc \in Nat
  \* a process cannot allocate half of its own address space
  /\ 2 * (MaxAlloc + PtrSize) <= W

VARIABLES
  mem,             (* the block realloc obtained, as far as it is real     *)
  mem_size,        (* the part the client can access                       *)
  mem_cap,         (* the capacity realloc believes mem to have            *)
  min_mem_size,    (* size after Initialize: the lower limit of sys_brk    *)
  max_mem_size,    (* limit the host sets: the upper limit of sys_brk      *)
  ReadonlyBarrier, (* writes below it are refused                          *)
  StackBarrier     (* the stack pointer may not go below it                *)

sizeVars == <<mem, mem_size, mem_cap>>
limitVars == <<min_mem_size, ReadonlyBarrier, StackBarrier>>

Word == 0 .. (W - 1)
Byte == 0 .. (B - 1)

(* Byte i of value v, least significant first (bin_write is little-endian  *)
(* on every host the program supports).                                    *)
ByteOf(v, i) == (v \div Power[i]) % B

-----------------------------------------------------------------------------
(* Access checks.                                                          *)

(* GetMemRaw and the other readers: position first, then the end of the    *)
(* access, whose sum is a u64.                                             *)
ReadFault(pos, n) ==
  IF pos \notin 0 .. (mem_size - 1) \/ (pos + n) % W > mem_size
  THEN "OutOfBounds" ELSE "None"

(* Mutant: the readonly barrier is not tested.                             *)
WriteFaultNoBarrier(pos, n) == ReadFault(pos, n)

(* SetMemRaw and the other writers: bounds, then the readonly barrier.     *)
WriteFault(pos, n) ==
  IF ReadFault(pos, n) # "None" THEN ReadFault(pos, n)
  ELSE IF pos < ReadonlyBarrier THEN "AccessViolation" ELSE "None"

(* Mutant: the stack has no barrier of its own.                            *)
PushFaultNoBarrier(pos, n) == WriteFault(pos, n)

(* PushRaw has already lowered RSP to pos; it checks the stack's own       *)
(* barrier before it writes.                                               *)
PushFault(pos, n) ==
  IF pos < StackBarrier THEN "StackOverflow" ELSE WriteFault(pos, n)

(* PopRaw: the same barrier, then a read.                                  *)
PopFault(pos, n) ==
  IF pos < StackBarrier THEN "StackOverflow" ELSE ReadFault(pos, n)

(* GetCString scans for a terminator and stops at the end of memory.       *)
StringFault(pos) ==
  IF \E a \in 0 .. (mem_size - 1) : a >= pos /\ mem[a] = 0
  THEN "None" ELSE "OutOfBounds"

-----------------------------------------------------------------------------
(* Contents.                                                               *)

(* Memory m after the n bytes at pos were set to the bytes of v.           *)
Written(m, pos, n, v) ==
  [a \in DOMAIN m |-> IF a \in pos .. (pos + n - 1)
                      THEN ByteOf(v, a - pos) ELSE m[a]]

(* Memory after n bytes were copied from src to dst.                       *)
Copied(src, dst, n) ==
  [a \in DOMAIN mem |-> IF a \in dst .. (dst + n - 1)
                        THEN mem[src + (a - dst)] ELSE mem[a]]

(* The number in the n bytes at pos of m.                                  *)
Held(m, pos, n) ==
  LET held[k \in 0 .. n] == IF k = 0 THEN 0 ELSE held[k - 1] + m[pos + (k - 1)] * Power[k - 1]
  IN held[n]

(* In memory m the u64 at pos is v.                                        *)
HoldsWord(m, pos, v) == \A i \in 0 .. (PtrSize - 1) : m[pos + i] = ByteOf(v, i)

-----------------------------------------------------------------------------
(* Allocation.                                                             *)

(* The bytes aligned_malloc asks malloc for: the sum is a std::size_t.     *)
Padded(size) == (size + Overhead) % W

(* aligned_malloc can return a block: it refuses zero, and malloc refuses  *)
(* what the host does not have.                                            *)
CanAllocate(size) == size # 0 /\ Padded(size) <= MaxAlloc

(* The bytes of that block that are there: all of them, unless the padding *)
(* wrapped, in which case what was asked of malloc is a few bytes.         *)
Usable(size) == IF size + Overhead < W THEN size ELSE Padded(size)

(* The capacity realloc recorded is that of a block which is there.  When  *)
(* the padding wrapped it is not: the program takes for its memory what    *)
(* lies past a block of a few bytes, and what it does next is undefined.   *)
Backed == mem_cap + Overhead < W

(* Mutant: the contents of the old block are not copied.                   *)
FreshUncopied(size, keep, b) == [a \in 0 .. (Usable(size) - 1) |-> b]

(* A new block with the first keep bytes copied from the old one and the   *)
(* rest left as malloc returned it (b).                                    *)
Fresh(size, keep, b) ==
  [a \in 0 .. (Usable(size) - 1) |->
     IF a < keep /\ a \in DOMAIN mem THEN mem[a] ELSE b]

(* Mutant: a larger size is recorded without allocating a block for it.    *)
ReallocInPlace(size, preserve, b) ==
  /\ mem_size' = size
  /\ mem_cap' = IF size <= mem_cap THEN mem_cap ELSE size
  /\ UNCHANGED mem

(* Computer::realloc, when it returns true.  Contents are kept up to the   *)
(* smaller size if preserve is set.  A failing realloc changes nothing.    *)
Realloc(size, preserve, b) ==
  \/ /\ size <= mem_cap
     /\ mem_size' = size
     /\ UNCHANGED <<mem, mem_cap>>
  \/ /\ size > mem_cap
     /\ CanAllocate(size)
     /\ mem' = Fresh(size, IF ~preserve THEN 0
                           ELSE IF mem_size < size THEN mem_size ELSE size, b)
     /\ mem_size' = size
     /\ mem_cap' = size

=============================================================================
